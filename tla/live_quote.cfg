SPECIFICATION FairSpec
CONSTANTS
    i1 = i1
    i2 = i2
    k1 = k1
    k2 = k2
    Instance = {i1, i2}
    Key = {k1, k2}
    CanRefresh = {i1}
    MaxQuotes = 4
    MaxFailures = 2
INVARIANTS
    TypeOK
    EveryDuplicateHasACause
    AnsweredQuoteStays
PROPERTIES
    EveryCallEnds
