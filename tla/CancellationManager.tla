------------------------ MODULE CancellationManager -------------------------
(***************************************************************************)
(* CancellationManager (core/framework/cancellation.cc): the state of the  *)
(* managers and one operator per critical section of their methods.  The   *)
(* modules that use a manager conjoin these operators with their own state *)
(* (CancellableOps, FIFOQueue).                                            *)
(*                                                                         *)
(* There is one manager per step (Run call).  A token is named by the      *)
(* operation that asked for it, so get_cancellation_token() is left out: a *)
(* token is used with the manager that issued it and by one operation.     *)
(*                                                                         *)
(* A definition Op_Variant is a faulty form of Op that shows that the      *)
(* properties notice the slip; it is no part of the specification.         *)
(***************************************************************************)
CONSTANTS
    CM,      \* the managers
    Token,   \* the cancellation tokens
    CMOf     \* the manager that issued each token

ASSUME ManagerAssumption == CMOf \in [Token -> CM]

VARIABLES
    is_cancelling,     \* is_cancelling_
    is_cancelled,      \* is_cancelled_
    notified,          \* cancelled_notification_
    callbacks,         \* callbacks_: the tokens registered
    callbacks_to_run   \* the local variable of the StartCancel under way

cmVars == <<is_cancelling, is_cancelled, notified, callbacks, callbacks_to_run>>

CMTypeOK ==
    /\ is_cancelling \in [CM -> BOOLEAN]
    /\ is_cancelled \in [CM -> BOOLEAN]
    /\ notified \in [CM -> BOOLEAN]
    /\ callbacks \in [CM -> SUBSET Token]
    /\ callbacks_to_run \in [CM -> SUBSET Token]

CMInit ==
    /\ is_cancelling = [c \in CM |-> FALSE]
    /\ is_cancelled = [c \in CM |-> FALSE]
    /\ notified = [c \in CM |-> FALSE]
    /\ callbacks = [c \in CM |-> {}]
    /\ callbacks_to_run = [c \in CM |-> {}]

(***************************************************************************)
(* StartCancel.  A call that finds is_cancelled_ or is_cancelling_ returns *)
(* at once and changes nothing.                                            *)
(***************************************************************************)

\* The first critical section: the callbacks are swapped out.
CMStartCancel(c) ==
    /\ ~is_cancelled[c] /\ ~is_cancelling[c]
    /\ is_cancelling' = [is_cancelling EXCEPT ![c] = TRUE]
    /\ callbacks_to_run' = [callbacks_to_run EXCEPT ![c] = callbacks[c]]
    /\ callbacks' = [callbacks EXCEPT ![c] = {}]
    /\ UNCHANGED <<is_cancelled, notified>>

\* The loop takes the next callback, in the order of a hash map, and calls it
\* outside the lock.
CMNextCallback(c, t) ==
    /\ is_cancelling[c]
    /\ t \in callbacks_to_run[c]
    /\ callbacks_to_run' = [callbacks_to_run EXCEPT ![c] = @ \ {t}]
    /\ UNCHANGED <<is_cancelling, is_cancelled, notified, callbacks>>

\* The second critical section, after the last callback.
CMFinishCancel(c) ==
    /\ is_cancelling[c]
    /\ callbacks_to_run[c] = {}
    /\ is_cancelling' = [is_cancelling EXCEPT ![c] = FALSE]
    /\ is_cancelled' = [is_cancelled EXCEPT ![c] = TRUE]
    /\ UNCHANGED <<notified, callbacks, callbacks_to_run>>

CMNotify(c) ==
    /\ is_cancelled[c] /\ ~notified[c]
    /\ notified' = [notified EXCEPT ![c] = TRUE]
    /\ UNCHANGED <<is_cancelling, is_cancelled, callbacks, callbacks_to_run>>

(***************************************************************************)
(* RegisterCallback and DeregisterCallback.                                *)
(***************************************************************************)
ShouldRegister_Unchecked(t) == ~is_cancelled[CMOf[t]]
ShouldRegister(t) == ~is_cancelled[CMOf[t]] /\ ~is_cancelling[CMOf[t]]

\* Returns true.
CMRegister(t) ==
    /\ ShouldRegister(t)
    /\ callbacks' = [callbacks EXCEPT ![CMOf[t]] = @ \cup {t}]
    /\ UNCHANGED <<is_cancelling, is_cancelled, notified, callbacks_to_run>>

\* Returns true, and the callback will not be invoked.
CMDeregister(t) ==
    /\ ~is_cancelled[CMOf[t]] /\ ~is_cancelling[CMOf[t]]
    /\ callbacks' = [callbacks EXCEPT ![CMOf[t]] = @ \ {t}]
    /\ UNCHANGED <<is_cancelling, is_cancelled, notified, callbacks_to_run>>

\* Returns false at once.
DeregisterTooLate_NoWait(t) == is_cancelled[CMOf[t]] \/ is_cancelling[CMOf[t]]
DeregisterTooLate(t) == is_cancelled[CMOf[t]]

\* Has to wait for cancelled_notification_, and then returns false.
DeregisterBlocks(t) == ~is_cancelled[CMOf[t]] /\ is_cancelling[CMOf[t]]
DeregisterWakes(t)  == notified[CMOf[t]]
=============================================================================
