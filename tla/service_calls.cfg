SPECIFICATION FairSpec
CONSTANTS
    RootTool = {"create_quote", "create_proposal_draft", "attach_proposal_to_opportunity"}
    Chain = {100}
    MaxRoots = 2
    MaxFaults = 2
INVARIANTS
    TypeOK
    OneChainOneId
    WritesAreAccounted
PROPERTIES
    EveryCallEnds
CHECK_DEADLOCK FALSE
