SPECIFICATION Spec
SYMMETRY Alike
CONSTANTS
    s1 = s1
    s2 = s2
    a1 = a1
    a2 = a2
    k1 = k1
    k2 = k2
    Seller = {s1, s2}
    Terms = {"listed", "discounted"}
    NeedsApproval = {"discounted"}
    ApprovalId = {a1, a2}
    TokenId = {k1, k2}
    NoTerms = NoTerms
    MaxQuotes = 3
    MaxFiles = 2
    MaxFailures = 2
INVARIANTS
    TypeOK
    ApprovedBeforeOut
    EmailsHaveFileAndGrant
CHECK_DEADLOCK FALSE
