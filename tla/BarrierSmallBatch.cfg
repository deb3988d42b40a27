CONSTANTS
    Inserter = {"i0", "i2"}
    Keys <- MCKeys
    Comp <- MCComp
    Component = {0, 1}
    Taker = {"t1"}
    Want <- MCWant
    Small = {"t1"}
    Closer = {"c1"}
    CancelCloser = {}
    Canceller = {}
    Victim <- MCVictim
    Thread <- MCThread
    Scripts <- MCAll
    Nobody = Nobody
SPECIFICATION Spec
INVARIANTS SmallBatchIsReturned
CHECK_DEADLOCK FALSE
