------------------------ MODULE CancellableOpsProofs ------------------------
(***************************************************************************)
(* The promises of CancellationManager, for any number of managers and     *)
(* operations: proofs of the invariants of CancellableOps.                 *)
(***************************************************************************)
EXTENDS CancellableOps, TLAPS

\* The tokens whose callback a manager is still going to run, or is running.
InHand(c) == callbacks[c] \cup callbacks_to_run[c] \cup running[c]

\* A manager is idle, cancelling or cancelled; callbacks_ is empty from the
\* first critical section of StartCancel on, the local copy and the running
\* callback are there only while it is cancelling.
ManagerInv ==
    \A c \in CM :
        /\ ~(is_cancelling[c] /\ is_cancelled[c])
        /\ is_cancelling[c] \/ is_cancelled[c] => callbacks[c] = {}
        /\ ~is_cancelling[c] => callbacks_to_run[c] = {} /\ running[c] = {}
        /\ notified[c] => is_cancelled[c]
        /\ callbacks_to_run[c] \cap running[c] = {}
        /\ \A t, u \in running[c] : t = u

\* A manager holds tokens of its own, of operations that have registered and
\* have not yet deregistered, and whose callback has not returned.
HandInv ==
    \A c \in CM : \A t \in InHand(c) :
        /\ CMOf[t] = c
        /\ t \notin ran
        /\ pc[t] \in {"pending", "finishing", "blocked"}

\* How far an operation has come, and what that says of its callback: until
\* it deregisters the callback is in the manager's hand or has returned.
OpInv ==
    \A t \in Token :
        /\ pc[t] = "idle" => outcome[t] = "open" /\ t \notin ran
        /\ pc[t] = "pending" => outcome[t] = "open" /\ t \in InHand(CMOf[t])
        /\ pc[t] \in {"finishing", "blocked"} =>
             outcome[t] = "completed" /\ (t \in InHand(CMOf[t]) \/ t \in ran)
        /\ pc[t] = "telling" => outcome[t] = "completed"
        /\ pc[t] \in {"idle", "pending", "finishing", "blocked"} => answer[t] = "none"
        /\ t \in ran => is_cancelling[CMOf[t]] \/ is_cancelled[CMOf[t]]
        /\ answer[t] = "late" => t \in ran
        /\ answer[t] = "deregistered" => t \notin ran

IInv == TypeOK /\ ManagerInv /\ HandInv /\ OpInv /\ ToldOnce

(***************************************************************************)
(* The invariant is inductive.  One step per action; under it, one per     *)
(* conjunct.                                                               *)
(***************************************************************************)
\* A manager that has just been built, and operations not yet issued.
LEMMA InitInv == Init => IInv
  BY ManagerAssumption
  DEF Init, CMInit, IInv, TypeOK, CMTypeOK, ManagerInv, HandInv, OpInv, ToldOnce, InHand

\* Every critical section of the manager and its users keeps the invariant.
LEMMA NextInv == IInv /\ [Next]_vars => IInv'
  <1> SUFFICES ASSUME IInv, [Next]_vars PROVE IInv'
    OBVIOUS
  <1> USE ManagerAssumption
  <1>t. TypeOK /\ ManagerInv /\ HandInv /\ OpInv /\ ToldOnce
    BY DEF IInv
  <1>1. ASSUME NEW t \in Token, Issue(t)
        PROVE  IInv'
    <2>1. TypeOK'
      BY <1>t, <1>1 DEF TypeOK, CMTypeOK, Issue, CMRegister, ShouldRegister, Goto
    <2>2. ManagerInv'
      BY <1>t, <1>1 DEF TypeOK, CMTypeOK, ManagerInv, HandInv, InHand, Issue, CMRegister, ShouldRegister, Goto
    <2>3. HandInv'
      BY <1>t, <1>1 DEF TypeOK, CMTypeOK, ManagerInv, HandInv, OpInv, InHand, Issue, CMRegister, ShouldRegister, Goto
    <2>4. OpInv'
      BY <1>t, <1>1 DEF TypeOK, CMTypeOK, ManagerInv, HandInv, OpInv, InHand, Issue, CMRegister, ShouldRegister, Goto
    <2>5. ToldOnce'
      BY <1>t, <1>1 DEF TypeOK, CMTypeOK, HandInv, OpInv, InHand, ToldOnce, Issue, CMRegister, ShouldRegister, Goto
    <2> QED
      BY <2>1, <2>2, <2>3, <2>4, <2>5 DEF IInv
  <1>2. ASSUME NEW t \in Token, IssueTooLate(t)
        PROVE  IInv'
    <2>1. TypeOK'
      BY <1>t, <1>2 DEF TypeOK, CMTypeOK, ToldOnce, IssueTooLate, Goto, Tell, cmVars
    <2>2. ManagerInv'
      BY <1>t, <1>2 DEF TypeOK, CMTypeOK, ManagerInv, HandInv, InHand, IssueTooLate, Goto, Tell, cmVars
    <2>3. HandInv'
      BY <1>t, <1>2 DEF TypeOK, CMTypeOK, ManagerInv, HandInv, OpInv, InHand, IssueTooLate, Goto, Tell, cmVars
    <2>4. OpInv'
      BY <1>t, <1>2 DEF TypeOK, CMTypeOK, ManagerInv, HandInv, OpInv, InHand, IssueTooLate, Goto, Tell, cmVars
    <2>5. ToldOnce'
      BY <1>t, <1>2 DEF TypeOK, CMTypeOK, HandInv, OpInv, InHand, ToldOnce, IssueTooLate, Goto, Tell, cmVars
    <2> QED
      BY <2>1, <2>2, <2>3, <2>4, <2>5 DEF IInv
  <1>3. ASSUME NEW t \in Token, Complete(t)
        PROVE  IInv'
    <2>1. TypeOK'
      BY <1>t, <1>3 DEF TypeOK, CMTypeOK, Complete, Goto, cmVars
    <2>2. ManagerInv'
      BY <1>t, <1>3 DEF TypeOK, CMTypeOK, ManagerInv, HandInv, InHand, Complete, Goto, cmVars
    <2>3. HandInv'
      BY <1>t, <1>3 DEF TypeOK, CMTypeOK, ManagerInv, HandInv, OpInv, InHand, Complete, Goto, cmVars
    <2>4. OpInv'
      BY <1>t, <1>3 DEF TypeOK, CMTypeOK, ManagerInv, HandInv, OpInv, InHand, Complete, Goto, cmVars
    <2>5. ToldOnce'
      BY <1>t, <1>3 DEF TypeOK, CMTypeOK, HandInv, OpInv, InHand, ToldOnce, Complete, Goto, cmVars
    <2> QED
      BY <2>1, <2>2, <2>3, <2>4, <2>5 DEF IInv
  <1>4. ASSUME NEW t \in Token, Deregister(t)
        PROVE  IInv'
    <2>1. TypeOK'
      BY <1>t, <1>4 DEF TypeOK, CMTypeOK, Deregister, CMDeregister, Goto
    <2>2. ManagerInv'
      BY <1>t, <1>4 DEF TypeOK, CMTypeOK, ManagerInv, HandInv, InHand, Deregister, CMDeregister, Goto
    <2>3. HandInv'
      BY <1>t, <1>4 DEF TypeOK, CMTypeOK, ManagerInv, HandInv, OpInv, InHand, Deregister, CMDeregister, Goto
    <2>4. OpInv'
      BY <1>t, <1>4 DEF TypeOK, CMTypeOK, ManagerInv, HandInv, OpInv, InHand, Deregister, CMDeregister, Goto
    <2>5. ToldOnce'
      BY <1>t, <1>4 DEF TypeOK, CMTypeOK, HandInv, OpInv, InHand, ToldOnce, Deregister, CMDeregister, Goto
    <2> QED
      BY <2>1, <2>2, <2>3, <2>4, <2>5 DEF IInv
  <1>5. ASSUME NEW t \in Token, DeregisterLate(t)
        PROVE  IInv'
    <2>1. TypeOK'
      BY <1>t, <1>5 DEF TypeOK, CMTypeOK, DeregisterLate, DeregisterTooLate, Goto, cmVars
    <2>2. ManagerInv'
      BY <1>t, <1>5 DEF TypeOK, CMTypeOK, ManagerInv, HandInv, InHand, DeregisterLate, DeregisterTooLate, Goto, cmVars
    <2>3. HandInv'
      BY <1>t, <1>5 DEF TypeOK, CMTypeOK, ManagerInv, HandInv, OpInv, InHand, DeregisterLate, DeregisterTooLate, Goto, cmVars
    <2>4. OpInv'
      BY <1>t, <1>5 DEF TypeOK, CMTypeOK, ManagerInv, HandInv, OpInv, InHand, DeregisterLate, DeregisterTooLate, Goto, cmVars
    <2>5. ToldOnce'
      BY <1>t, <1>5 DEF TypeOK, CMTypeOK, HandInv, OpInv, InHand, ToldOnce, DeregisterLate, DeregisterTooLate, Goto, cmVars
    <2> QED
      BY <2>1, <2>2, <2>3, <2>4, <2>5 DEF IInv
  <1>6. ASSUME NEW t \in Token, DeregisterBlock(t)
        PROVE  IInv'
    <2>1. TypeOK'
      BY <1>t, <1>6 DEF TypeOK, CMTypeOK, DeregisterBlock, Goto, cmVars
    <2>2. ManagerInv'
      BY <1>t, <1>6 DEF TypeOK, CMTypeOK, ManagerInv, HandInv, InHand, DeregisterBlock, Goto, cmVars
    <2>3. HandInv'
      BY <1>t, <1>6 DEF TypeOK, CMTypeOK, ManagerInv, HandInv, OpInv, InHand, DeregisterBlock, Goto, cmVars
    <2>4. OpInv'
      BY <1>t, <1>6 DEF TypeOK, CMTypeOK, ManagerInv, HandInv, OpInv, InHand, DeregisterBlock, Goto, cmVars
    <2>5. ToldOnce'
      BY <1>t, <1>6 DEF TypeOK, CMTypeOK, HandInv, OpInv, InHand, ToldOnce, DeregisterBlock, Goto, cmVars
    <2> QED
      BY <2>1, <2>2, <2>3, <2>4, <2>5 DEF IInv
  <1>7. ASSUME NEW t \in Token, DeregisterWake(t)
        PROVE  IInv'
    <2>1. TypeOK'
      BY <1>t, <1>7 DEF TypeOK, CMTypeOK, DeregisterWake, DeregisterWakes, Goto, cmVars
    <2>2. ManagerInv'
      BY <1>t, <1>7 DEF TypeOK, CMTypeOK, ManagerInv, HandInv, InHand, DeregisterWake, DeregisterWakes, Goto, cmVars
    <2>3. HandInv'
      BY <1>t, <1>7 DEF TypeOK, CMTypeOK, ManagerInv, HandInv, OpInv, InHand, DeregisterWake, DeregisterWakes, Goto, cmVars
    <2>4. OpInv'
      BY <1>t, <1>7 DEF TypeOK, CMTypeOK, ManagerInv, HandInv, OpInv, InHand, DeregisterWake, DeregisterWakes, Goto, cmVars
    <2>5. ToldOnce'
      BY <1>t, <1>7 DEF TypeOK, CMTypeOK, HandInv, OpInv, InHand, ToldOnce, DeregisterWake, DeregisterWakes, Goto, cmVars
    <2> QED
      BY <2>1, <2>2, <2>3, <2>4, <2>5 DEF IInv
  <1>8. ASSUME NEW t \in Token, TellOwner(t)
        PROVE  IInv'
    <2>1. TypeOK'
      BY <1>t, <1>8 DEF TypeOK, CMTypeOK, ToldOnce, TellOwner, Goto, Tell, cmVars
    <2>2. ManagerInv'
      BY <1>t, <1>8 DEF TypeOK, CMTypeOK, ManagerInv, HandInv, InHand, TellOwner, Goto, Tell, cmVars
    <2>3. HandInv'
      BY <1>t, <1>8 DEF TypeOK, CMTypeOK, ManagerInv, HandInv, OpInv, InHand, TellOwner, Goto, Tell, cmVars
    <2>4. OpInv'
      BY <1>t, <1>8 DEF TypeOK, CMTypeOK, ManagerInv, HandInv, OpInv, InHand, TellOwner, Goto, Tell, cmVars
    <2>5. ToldOnce'
      BY <1>t, <1>8 DEF TypeOK, CMTypeOK, HandInv, OpInv, InHand, ToldOnce, TellOwner, Goto, Tell, cmVars
    <2> QED
      BY <2>1, <2>2, <2>3, <2>4, <2>5 DEF IInv
  <1>9. ASSUME NEW c \in CM, StartCancel(c)
        PROVE  IInv'
    <2>1. TypeOK'
      BY <1>t, <1>9 DEF TypeOK, CMTypeOK, StartCancel, CMStartCancel, opVars
    <2>2. ManagerInv'
      BY <1>t, <1>9 DEF TypeOK, CMTypeOK, ManagerInv, HandInv, InHand, StartCancel, CMStartCancel, opVars
    <2>3. HandInv'
      BY <1>t, <1>9 DEF TypeOK, CMTypeOK, ManagerInv, HandInv, OpInv, InHand, StartCancel, CMStartCancel, opVars
    <2>4. OpInv'
      BY <1>t, <1>9 DEF TypeOK, CMTypeOK, ManagerInv, HandInv, OpInv, InHand, StartCancel, CMStartCancel, opVars
    <2>5. ToldOnce'
      BY <1>t, <1>9 DEF TypeOK, CMTypeOK, HandInv, OpInv, InHand, ToldOnce, StartCancel, CMStartCancel, opVars
    <2> QED
      BY <2>1, <2>2, <2>3, <2>4, <2>5 DEF IInv
  <1>10. ASSUME NEW c \in CM, NEW t \in Token, CallbackBegin(c, t)
        PROVE  IInv'
    <2>1. TypeOK'
      BY <1>t, <1>10 DEF TypeOK, CMTypeOK, CallbackBegin, CMNextCallback
    <2>2. ManagerInv'
      BY <1>t, <1>10 DEF TypeOK, CMTypeOK, ManagerInv, HandInv, InHand, CallbackBegin, CMNextCallback
    <2>3. HandInv'
      BY <1>t, <1>10 DEF TypeOK, CMTypeOK, ManagerInv, HandInv, OpInv, InHand, CallbackBegin, CMNextCallback
    <2>4. OpInv'
      BY <1>t, <1>10 DEF TypeOK, CMTypeOK, ManagerInv, HandInv, OpInv, InHand, CallbackBegin, CMNextCallback
    <2>5. ToldOnce'
      BY <1>t, <1>10 DEF TypeOK, CMTypeOK, HandInv, OpInv, InHand, ToldOnce, CallbackBegin, CMNextCallback
    <2> QED
      BY <2>1, <2>2, <2>3, <2>4, <2>5 DEF IInv
  <1>11. ASSUME NEW c \in CM, NEW t \in Token, CallbackEnd(c, t)
        PROVE  IInv'
    <2>1. TypeOK'
      <3>1. CASE outcome[t] = "open"
        <4>1. told' = [told EXCEPT ![t] = 1]
          BY <1>t, <1>11, <3>1 DEF ToldOnce, CallbackEnd, Goto, Tell
        <4>2. CMTypeOK' /\ answer' \in [Token -> {"none", "deregistered", "late"}]
          BY <1>t, <1>11 DEF TypeOK, CMTypeOK, CallbackEnd, cmVars
        <4>3. running' \in [CM -> SUBSET Token] /\ ran' \in SUBSET Token
          BY <1>t, <1>11 DEF TypeOK, CallbackEnd
        <4>4. /\ pc' \in [Token -> {"idle", "pending", "finishing", "blocked", "telling", "done"}]
              /\ outcome' \in [Token -> {"open", "completed", "cancelled"}]
              /\ told' \in [Token -> 0..1]
          BY <4>1, <1>t, <1>11, <3>1 DEF TypeOK, CallbackEnd, Goto
        <4> QED
          BY <4>2, <4>3, <4>4 DEF TypeOK
      <3>2. CASE outcome[t] # "open"
        BY <1>t, <1>11, <3>2 DEF TypeOK, CMTypeOK, CallbackEnd, cmVars
      <3> QED
        BY <3>1, <3>2
    <2>2. ManagerInv'
      BY <1>t, <1>11 DEF TypeOK, CMTypeOK, ManagerInv, HandInv, InHand, CallbackEnd, Goto, Tell, cmVars
    <2>3. HandInv'
      BY <1>t, <1>11 DEF TypeOK, CMTypeOK, ManagerInv, HandInv, OpInv, InHand, CallbackEnd, Goto, Tell, cmVars
    <2>4. OpInv'
      BY <1>t, <1>11 DEF TypeOK, CMTypeOK, ManagerInv, HandInv, OpInv, InHand, CallbackEnd, Goto, Tell, cmVars
    <2>5. ToldOnce'
      BY <1>t, <1>11 DEF TypeOK, CMTypeOK, HandInv, OpInv, InHand, ToldOnce, CallbackEnd, Goto, Tell, cmVars
    <2> QED
      BY <2>1, <2>2, <2>3, <2>4, <2>5 DEF IInv
  <1>12. ASSUME NEW c \in CM, FinishCancel(c)
        PROVE  IInv'
    <2>1. TypeOK'
      BY <1>t, <1>12 DEF TypeOK, CMTypeOK, FinishCancel, CMFinishCancel, opVars
    <2>2. ManagerInv'
      BY <1>t, <1>12 DEF TypeOK, CMTypeOK, ManagerInv, HandInv, InHand, FinishCancel, CMFinishCancel, opVars
    <2>3. HandInv'
      BY <1>t, <1>12 DEF TypeOK, CMTypeOK, ManagerInv, HandInv, OpInv, InHand, FinishCancel, CMFinishCancel, opVars
    <2>4. OpInv'
      BY <1>t, <1>12 DEF TypeOK, CMTypeOK, ManagerInv, HandInv, OpInv, InHand, FinishCancel, CMFinishCancel, opVars
    <2>5. ToldOnce'
      BY <1>t, <1>12 DEF TypeOK, CMTypeOK, HandInv, OpInv, InHand, ToldOnce, FinishCancel, CMFinishCancel, opVars
    <2> QED
      BY <2>1, <2>2, <2>3, <2>4, <2>5 DEF IInv
  <1>13. ASSUME NEW c \in CM, Notify(c)
        PROVE  IInv'
    <2>1. TypeOK'
      BY <1>t, <1>13 DEF TypeOK, CMTypeOK, Notify, CMNotify, opVars
    <2>2. ManagerInv'
      BY <1>t, <1>13 DEF TypeOK, CMTypeOK, ManagerInv, HandInv, InHand, Notify, CMNotify, opVars
    <2>3. HandInv'
      BY <1>t, <1>13 DEF TypeOK, CMTypeOK, ManagerInv, HandInv, OpInv, InHand, Notify, CMNotify, opVars
    <2>4. OpInv'
      BY <1>t, <1>13 DEF TypeOK, CMTypeOK, ManagerInv, HandInv, OpInv, InHand, Notify, CMNotify, opVars
    <2>5. ToldOnce'
      BY <1>t, <1>13 DEF TypeOK, CMTypeOK, HandInv, OpInv, InHand, ToldOnce, Notify, CMNotify, opVars
    <2> QED
      BY <2>1, <2>2, <2>3, <2>4, <2>5 DEF IInv
  <1>14. CASE UNCHANGED vars
    BY <1>t, <1>14 DEF vars, cmVars, opVars, IInv, TypeOK, CMTypeOK, ManagerInv, HandInv,
       OpInv, ToldOnce, InHand
  <1> QED
    BY <1>1, <1>2, <1>3, <1>4, <1>5, <1>6, <1>7, <1>8, <1>9, <1>10, <1>11, <1>12, <1>13, <1>14
       DEF Next, OpStep, CancelStep

\* The invariant holds in every state of CancellableOps.
LEMMA Invariance == Spec => []IInv
  BY InitInv, NextInv, PTL DEF Spec

(***************************************************************************)
(* The theorems.                                                           *)
(***************************************************************************)

\* The state of managers and operations keeps its types; no owner is told more
\* than once.
THEOREM TypeCorrect == Spec => []TypeOK
  <1>1. IInv => TypeOK
    BY DEF IInv
  <1> QED
    BY <1>1, Invariance, PTL

\* DeregisterCallback returns true only if the callback is never invoked.
THEOREM DeregisterTrue == Spec => []TrueMeansNeverInvoked
  <1>1. IInv => TrueMeansNeverInvoked
    BY DEF IInv, TypeOK, HandInv, InHand, OpInv, TrueMeansNeverInvoked
  <1> QED
    BY <1>1, Invariance, PTL

\* DeregisterCallback returns false only after the callback has returned.
THEOREM DeregisterFalse == Spec => []FalseMeansReturned
  <1>1. IInv => FalseMeansReturned
    BY DEF IInv, OpInv, FalseMeansReturned
  <1> QED
    BY <1>1, Invariance, PTL

\* Both answers of DeregisterCallback can be relied on by the caller, who frees
\* the operation after either.
THEOREM DeregisterAnswers == Spec => []DeregisterKeepsItsWord
  <1>1. TrueMeansNeverInvoked /\ FalseMeansReturned => DeregisterKeepsItsWord
    BY DEF DeregisterKeepsItsWord
  <1> QED
    BY <1>1, DeregisterTrue, DeregisterFalse, PTL

\* An operation that has completed and whose owner has been told, so that it
\* may be freed, is out of reach of every StartCancel.
THEOREM FreedIsSafe == Spec => []NoCallbackOnFreedOp
  <1>1. IInv => NoCallbackOnFreedOp
    BY DEF IInv, HandInv, InHand, NoCallbackOnFreedOp
  <1> QED
    BY <1>1, Invariance, PTL

\* The owner is told once, by the thread that finishes the operation or by
\* the one that cancels it.
THEOREM OwnerToldOnce == Spec => []ToldOnce
  <1>1. IInv => ToldOnce
    BY DEF IInv
  <1> QED
    BY <1>1, Invariance, PTL

\* When StartCancel has returned, no operation of the step is left pending, and
\* every callback it had to run has returned.
THEOREM StartCancelEndsOps == Spec => []ReturnedMeansEnded
  <1>1. IInv => ReturnedMeansEnded
    <2> SUFFICES ASSUME IInv, NEW t \in Token, notified[CMOf[t]]
                 PROVE  /\ pc[t] # "pending"
                        /\ t \notin InHand(CMOf[t])
                        /\ pc[t] \in {"finishing", "blocked"} => t \in ran
      BY DEF ReturnedMeansEnded, InHand
    <2>1. CMOf[t] \in CM
      BY ManagerAssumption
    <2>2. InHand(CMOf[t]) = {}
      BY <2>1 DEF IInv, ManagerInv, InHand
    <2> QED
      BY <2>2 DEF IInv, OpInv
  <1> QED
    BY <1>1, Invariance, PTL
=============================================================================
