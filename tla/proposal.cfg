SPECIFICATION Spec
CONSTANTS
    p1 = p1
    p2 = p2
    q1 = q1
    q2 = q2
    mail = mail
    note = note
    Agent = {p1, p2}
    ProcessOf <- OneProcess
    Quote = {q1, q2}
    Evidence = {mail, note}
    Injected = {mail}
    MaxEvents = 3
    MaxCrashes = 2
INVARIANTS
    TypeOK
    NoInjectionAttached
    EveryVerdictLogged
SYMMETRY Conversations
