CONSTANTS
    Inserter = {"i0", "i2"}
    Keys <- MCKeys
    Comp <- MCComp
    Component = {0, 1}
    Taker = {"t2", "t3"}
    Want <- MCWant
    Small = {}
    Closer = {"c1"}
    CancelCloser = {}
    Canceller = {}
    Victim <- MCVictim
    Thread <- MCThread
    Scripts <- MCAll
    Nobody = Nobody
SPECIFICATION Spec
PROPERTIES ClosedTakesFail
CHECK_DEADLOCK FALSE
