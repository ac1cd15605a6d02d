SPECIFICATION Spec
CONSTANTS
    c1 = c1
    c2 = c2
    o1 = o1
    budget = budget
    residency = residency
    amount = amount
    yes = yes
    no = no
    Caller = {c1, c2}
    ProcessOf <- OneProcess
    Opportunity = {o1}
    Field = {budget, residency, amount}
    Writable = {budget, residency}
    Value = {yes, no}
    Offered <- MCOffered
    NoCall = NoCall
    MaxVersion = 4
    MaxCrashes = 2
INVARIANTS
    TypeOK
    NoStaleOverwrite
    AnswersAreTrue
PROPERTIES
    StoreImplementsVersionedRecord
