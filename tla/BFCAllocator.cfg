CONSTANTS
    Thread = {t1, t2, t3}
    Sizes = {0, 300, 600, 2400}
    NoRetry = {t3}
    memory_limit = 2600
    InitialRegion = 700
    Physical = {2048, 2304, 2600}
    MaxAllocs = 3
SPECIFICATION Spec
INVARIANTS ChunksConsistent SleepsOnlyIfMissed
PROPERTIES GivesUpOnlyIfFull EveryRequestAnswered ImplementsBlocks
CHECK_DEADLOCK FALSE
