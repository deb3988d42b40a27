CONSTANTS
    c1 = c1  c2 = c2  d0 = d0  d1 = d1  d2 = d2  d3 = d3
    e1 = e1  e2 = e2  e3 = e3  x1 = x1  x2 = x2
    CM = {c1, c2}
    Token = {e1, e2, e3, d0, d1, d2, d3}
    Enqueuer = {e1, e2, e3}
    Dequeuer = {d0, d1, d2, d3}
    UpTo = {d2}
    Closer = {x1, x2}
    CancelCloser = {x2}
    CMOf <- MCCMOf
    Num <- MCNum
    Scripts <- MCScripts
    capacity = 1
    Nobody = Nobody
SPECIFICATION FairSpec
INVARIANTS WithinCapacityUntilClosed FirstInFirstOut BatchIsFull DoneExactlyOnce NoLostWakeup DeregisteredUnlessClosed
PROPERTIES EveryOpFinishes
CHECK_DEADLOCK FALSE
