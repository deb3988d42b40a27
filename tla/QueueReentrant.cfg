CONSTANTS
    c1 = c1  c2 = c2  d0 = d0  d1 = d1  d2 = d2  d3 = d3
    e1 = e1  e2 = e2  e3 = e3  x1 = x1  x2 = x2
    CM = {c1}
    Token = {e2, e3, d3}
    Enqueuer = {e2, e3}
    Dequeuer = {d3}
    UpTo = {}
    Closer = {x1}
    CancelCloser = {}
    CMOf <- RaceCMOf
    Num <- RaceNum
    Scripts <- All
    capacity = 1
    Nobody = Nobody
SPECIFICATION Spec
INVARIANTS NoReentrantDeregister
CHECK_DEADLOCK FALSE
