SPECIFICATION FairSpec
CONSTANTS
    MaxTurns = 4
    MaxTimeouts = 2
    MaxFailures = 2
INVARIANTS
    TypeOK
    OneTurnAtATime
    RepliesBelong
PROPERTIES
    LoadingEnds
CHECK_DEADLOCK FALSE
