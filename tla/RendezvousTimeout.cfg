CONSTANTS
    k1 = k1  k2 = k2  s1 = s1  s2 = s2  r1 = r1  r2 = r2  a1 = a1  a2 = a2
    Key <- MCKey
    SendId <- MCSendId
    RecvId <- MCRecvId
    SyncRecv <- MCSyncRecv
    TimedRecv <- MCTimedRecv
    AbortId <- MCAbortId
    OK = OK
    NoTensor = NoTensor
SPECIFICATION Spec
INVARIANT TensorIsReturned
CHECK_DEADLOCK FALSE
