CONSTANTS
    q1 = q1  q2 = q2  c1 = c1  c2 = c2  k1 = k1  k2 = k2  a1 = a1  x1 = x1
    Request = {q1, q2}
    Key = {k1, k2}
    Call = {c1, c2}
    LocalCall = {c2}
    KeyOf <- MCKeyOf
    Foreign = {q2}
    Aborter = {a1}
    Cleaner = {x1}
    Step = Step
    Out = Out
    Scripts <- MCScripts
SPECIFICATION Spec
INVARIANTS ReferencesHeld AbortReachesEveryCall OpsAccountedFor CrashesOnlyIfCleanedUp
PROPERTIES AbortedOpsEnd
CHECK_DEADLOCK FALSE
