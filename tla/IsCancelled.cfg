CONSTANTS
    c1 = c1  c2 = c2  t1 = t1  t2 = t2  t3 = t3
    CM = {c1, c2}
    Token = {t1, t2, t3}
    CMOf <- MCCMOf
SPECIFICATION Spec
INVARIANTS IsCancelledIffCalled
CHECK_DEADLOCK FALSE
