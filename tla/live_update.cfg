SPECIFICATION Spec
CONSTANTS
    o1 = o1
    a1 = a1
    Opportunity = {o1}
    Account = {a1}
    AccountOf <- OneAccount
    Region = {"EU"}
    MaxEdits = 2
    MaxSeconds = 2
    MaxFailures = 1
INVARIANTS
    TypeOK
    AnsweredIsWritten
    ConfirmedNotMissing
PROPERTIES
    StaleReadRefused
