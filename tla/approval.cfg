SPECIFICATION Spec
CONSTANTS
    s1 = s1
    s2 = s2
    d1 = d1
    d2 = d2
    r1 = r1
    r2 = r2
    r3 = r3
    q1 = q1
    Agent = {s1, s2}
    Decider = {d1, d2}
    ApprovalId = {r1, r2, r3}
    Quote = {q1}
    ProcessOf <- OneProcess
    NoCall = NoCall
    MaxCrashes = 2
INVARIANTS
    TypeOK
    DecisionIsFinal
PROPERTIES
    StoreImplementsDecision
CHECK_DEADLOCK FALSE
