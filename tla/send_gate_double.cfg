SPECIFICATION Spec
CONSTANTS
    a1 = a1
    a2 = a2
    h1 = h1
    t1 = t1
    t2 = t2
    q1 = q1
    q2 = q2
    one = one
    One = One
    two = two
    Agent = {a1, a2}
    Approver = {h1}
    TokenId = {t1, t2}
    Quote = {q1}
    Address = {one, One, two}
    Allowed = {one}
    Lower <- MCLower
    ProcessOf <- TwoProcesses
    NoEmail = NoEmail
    MaxEmails = 3
    MaxCrashes = 0
INVARIANTS
    AtMostOneEmailPerToken
