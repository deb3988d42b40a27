CONSTANTS
    Graph = {"while", "cond", "nest"}
    GraphOf <- AllGraphOf
    Node <- AllNode
    Kind <- AllKind
    FrameName <- AllFrameName
    Enters <- AllEnters
    Out <- AllOut
    Parallel <- AllParallel
    MayFail = {"b", "is"}
    MaxTrip <- AllMaxTrip
SPECIFICATION FairSpec
INVARIANTS FiredOnce LiveNodeHasInputs DeletedWhenDone CountersAgree FinishedMeansAllDone
PROPERTIES Terminates
CHECK_DEADLOCK FALSE
