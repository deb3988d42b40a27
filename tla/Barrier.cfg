CONSTANTS
    Inserter = {"i1", "i2", "i3"}
    Keys <- MCKeys
    Comp <- MCComp
    Component = {0, 1}
    Taker = {"t1", "t2"}
    Want <- MCWant
    Small = {"t1"}
    Closer = {"c1", "c2"}
    CancelCloser = {"c2"}
    Canceller = {"x1", "x2"}
    Victim <- MCVictim
    Thread <- MCThread
    Scripts <- MCScripts
    Nobody = Nobody
SPECIFICATION Spec
INVARIANTS TuplesAccountedFor TakesAreSorted NoLostWakeup DoneExactlyOnce OnlyPlainCloseWaitsForItself
PROPERTIES EveryOpFinishes
CHECK_DEADLOCK FALSE
