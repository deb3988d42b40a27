--------------------------- MODULE CancellableOps ---------------------------
(***************************************************************************)
(* Operations that use a CancellationManager the way the comment at        *)
(* RegisterCallback recommends (core/framework/cancellation.h): each one   *)
(* registers a callback, is finished either by its own thread or by that   *)
(* callback, and deregisters before its owner learns that it is finished   *)
(* and frees what the callback uses.                                       *)
(*                                                                         *)
(* Op_Variant is a faulty form of Op (see CancellationManager).            *)
(***************************************************************************)
EXTENDS CancellationManager, Naturals

VARIABLES
    pc,        \* where the thread of each operation is
    outcome,   \* who finished it, decided under the mu_ of its object
    told,      \* how often its owner's callback was invoked
    answer,    \* what DeregisterCallback returned to it
    running,   \* per manager, the tokens whose callback is being executed
    ran        \* history: the tokens whose callback has returned

opVars == <<pc, outcome, told, answer, running, ran>>
vars == <<cmVars, opVars>>

TypeOK ==
    /\ CMTypeOK
    /\ pc \in [Token -> {"idle", "pending", "finishing", "blocked", "telling", "done"}]
    /\ outcome \in [Token -> {"open", "completed", "cancelled"}]
    /\ told \in [Token -> 0..1]
    /\ answer \in [Token -> {"none", "deregistered", "late"}]
    /\ running \in [CM -> SUBSET Token]
    /\ ran \in SUBSET Token

Init ==
    /\ CMInit
    /\ pc = [t \in Token |-> "idle"]
    /\ outcome = [t \in Token |-> "open"]
    /\ told = [t \in Token |-> 0]
    /\ answer = [t \in Token |-> "none"]
    /\ running = [c \in CM |-> {}]
    /\ ran = {}

Goto(t, here, there) == pc[t] = here /\ pc' = [pc EXCEPT ![t] = there]
Tell(t) == told' = [told EXCEPT ![t] = @ + 1]

\* CancellableOperation: the callback is registered and the operation issued.
Issue(t) ==
    /\ Goto(t, "idle", "pending")
    /\ CMRegister(t)
    /\ UNCHANGED <<outcome, told, answer, running, ran>>

\* already_cancelled: the owner is told at once.
IssueTooLate(t) ==
    /\ Goto(t, "idle", "done")
    /\ ~ShouldRegister(t)
    /\ outcome' = [outcome EXCEPT ![t] = "cancelled"]
    /\ Tell(t)
    /\ UNCHANGED <<cmVars, answer, running, ran>>

\* The operation completes, under the mu_ of its object.
Complete_SkipDeregister(t) ==
    /\ Goto(t, "pending", "telling")
    /\ outcome[t] = "open"
    /\ outcome' = [outcome EXCEPT ![t] = "completed"]
    /\ UNCHANGED <<cmVars, told, answer, running, ran>>
Complete(t) ==
    /\ Goto(t, "pending", "finishing")
    /\ outcome[t] = "open"
    /\ outcome' = [outcome EXCEPT ![t] = "completed"]
    /\ UNCHANGED <<cmVars, told, answer, running, ran>>

\* DeregisterCallback, called without holding mu_.
Deregister(t) ==
    /\ Goto(t, "finishing", "telling")
    /\ CMDeregister(t)
    /\ answer' = [answer EXCEPT ![t] = "deregistered"]
    /\ UNCHANGED <<outcome, told, running, ran>>

DeregisterLate(t) ==
    /\ Goto(t, "finishing", "telling")
    /\ DeregisterTooLate(t)
    /\ answer' = [answer EXCEPT ![t] = "late"]
    /\ UNCHANGED <<cmVars, outcome, told, running, ran>>

DeregisterBlock(t) ==
    /\ Goto(t, "finishing", "blocked")
    /\ DeregisterBlocks(t)
    /\ UNCHANGED <<cmVars, outcome, told, answer, running, ran>>

DeregisterWake(t) ==
    /\ Goto(t, "blocked", "telling")
    /\ DeregisterWakes(t)
    /\ answer' = [answer EXCEPT ![t] = "late"]
    /\ UNCHANGED <<cmVars, outcome, told, running, ran>>

\* The owner's callback; from here on the owner may free the operation.
TellOwner(t) ==
    /\ Goto(t, "telling", "done")
    /\ Tell(t)
    /\ UNCHANGED <<cmVars, outcome, answer, running, ran>>

\* StartCancel.
StartCancel(c) == CMStartCancel(c) /\ UNCHANGED opVars

CallbackBegin(c, t) ==
    /\ running[c] = {}
    /\ CMNextCallback(c, t)
    /\ running' = [running EXCEPT ![c] = {t}]
    /\ UNCHANGED <<pc, outcome, told, answer, ran>>

\* Cancel(token), under the mu_ of the object: an operation that is still open
\* is cancelled, and its owner told; one that has completed is left alone.
CallbackEnd_NotChecked(c, t) ==
    /\ t \in running[c]
    /\ running' = [running EXCEPT ![c] = {}]
    /\ ran' = ran \cup {t}
    /\ outcome' = [outcome EXCEPT ![t] = "cancelled"]
    /\ pc' = [pc EXCEPT ![t] = IF @ = "pending" THEN "done" ELSE @]
    /\ Tell(t)
    /\ UNCHANGED <<cmVars, answer>>
CallbackEnd(c, t) ==
    /\ t \in running[c]
    /\ running' = [running EXCEPT ![c] = {}]
    /\ ran' = ran \cup {t}
    /\ IF outcome[t] = "open"
         THEN /\ outcome' = [outcome EXCEPT ![t] = "cancelled"]
              /\ Goto(t, "pending", "done")
              /\ Tell(t)
         ELSE UNCHANGED <<outcome, pc, told>>
    /\ UNCHANGED <<cmVars, answer>>

FinishCancel_NotWaiting(c) == CMFinishCancel(c) /\ UNCHANGED opVars
FinishCancel(c) == running[c] = {} /\ CMFinishCancel(c) /\ UNCHANGED opVars

Notify(c) == CMNotify(c) /\ UNCHANGED opVars

\* The steps of an operation's thread, once it has been issued and completes,
\* and of a thread inside StartCancel.
OpStep(t) ==
    \/ Deregister(t) \/ DeregisterLate(t) \/ DeregisterBlock(t)
    \/ DeregisterWake(t) \/ TellOwner(t)
CancelStep(c) ==
    \/ FinishCancel(c) \/ Notify(c)
    \/ \E t \in Token : CallbackBegin(c, t) \/ CallbackEnd(c, t)

Next ==
    \/ \E t \in Token : Issue(t) \/ IssueTooLate(t) \/ Complete(t) \/ OpStep(t)
    \/ \E c \in CM : StartCancel(c) \/ CancelStep(c)

Spec == Init /\ [][Next]_vars

\* Threads that are not blocked run; nothing makes an operation complete, or
\* a step be cancelled.
Fairness ==
    /\ \A t \in Token : WF_vars(OpStep(t))
    /\ \A c \in CM : WF_vars(CancelStep(c))

FairSpec == Spec /\ Fairness

(***************************************************************************)
(* Properties.                                                             *)
(***************************************************************************)

\* DeregisterCallback "returns true iff the callback was deregistered and will
\* not be invoked": after true no StartCancel holds, runs or has run it.
TrueMeansNeverInvoked ==
    \A t \in Token :
        answer[t] = "deregistered" =>
            /\ t \notin ran
            /\ \A c \in CM : t \notin callbacks[c] \cup callbacks_to_run[c] \cup running[c]

\* "... otherwise returns false after the callback has been invoked, blocking
\* if necessary": after false the callback has returned.
FalseMeansReturned == \A t \in Token : answer[t] = "late" => t \in ran

\* Both answers of DeregisterCallback can be relied on.
DeregisterKeepsItsWord == TrueMeansNeverInvoked /\ FalseMeansReturned

\* What the wait in DeregisterCallback is for: an operation whose owner has
\* been told that it completed, and may have been freed, is not in the hands
\* of any StartCancel.
NoCallbackOnFreedOp ==
    \A t \in Token :
        pc[t] = "done" /\ outcome[t] = "completed" =>
            \A c \in CM : t \notin callbacks[c] \cup callbacks_to_run[c] \cup running[c]

\* The owner is told exactly once, whichever thread wins.
ToldOnce ==
    \A t \in Token : told[t] = IF pc[t] = "done" THEN 1 ELSE 0

\* "Run all callbacks associated with this manager": when StartCancel returns,
\* its last act being the notification, no operation of the step is pending, the
\* manager has no callback left to run, though operations registered and
\* completed while it ran them, and the callback of one that is still finishing
\* has returned.
ReturnedMeansEnded ==
    \A t \in Token :
        notified[CMOf[t]] =>
            /\ pc[t] # "pending"
            /\ t \notin callbacks[CMOf[t]] \cup callbacks_to_run[CMOf[t]] \cup running[CMOf[t]]
            /\ pc[t] \in {"finishing", "blocked"} => t \in ran

\* IsCancelled() "returns true iff StartCancel() has been called": a StartCancel
\* that has passed its first critical section has been called, be it under way
\* or over.
StartCancelCalled(c)  == is_cancelling[c] \/ is_cancelled[c]
IsCancelledIffCalled  == \A c \in CM : is_cancelled[c] <=> StartCancelCalled(c)

\* A StartCancel comes to its end and, if it catches an operation that is
\* pending, or finishing, the owner of the operation is told in the end.
CancelEndsEveryOp ==
    /\ \A c \in CM : is_cancelling[c] ~> notified[c]
    /\ \A t \in Token :
         (pc[t] # "idle" /\ is_cancelling[CMOf[t]]) ~> pc[t] = "done"
=============================================================================
