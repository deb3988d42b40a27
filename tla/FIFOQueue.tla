----------------------------- MODULE FIFOQueue ------------------------------
(***************************************************************************)
(* FIFOQueue on QueueBase (core/kernels/fifo_queue.cc, queue_base.cc), as  *)
(* the threads of several steps use it, with the CancellationManager of    *)
(* each step.                                                              *)
(*                                                                         *)
(* An operation becomes an Attempt at the back of enqueue_attempts_ or     *)
(* dequeue_attempts_; any thread that calls FlushUnlocked then works off   *)
(* the attempts at the front, its own or not, and afterwards, without mu_, *)
(* deregisters and finishes those it completed.  FlushUnlocked holds mu_   *)
(* over many attempts: it is one action per attempt, with mu_ held by      *)
(* "holder" in between.  Every other critical section is one action.       *)
(*                                                                         *)
(* The elements of an EnqueueMany are named <<operation, index>>.  Enqueue *)
(* and Dequeue are EnqueueMany and DequeueMany of one element, which do    *)
(* the same once the shapes have been validated; allocation succeeds.      *)
(*                                                                         *)
(* A definition Op_Variant is a faulty form of Op that shows that the      *)
(* properties notice the slip; it is no part of the specification.         *)
(***************************************************************************)
EXTENDS CancellationManager, Subsequences, FiniteSets, Functions

CONSTANTS
    Enqueuer, Dequeuer,  \* the Enqueue(Many) and Dequeue(Many) calls
    UpTo,                \* those of Dequeuer with allow_small_batch
    Num,                 \* how many elements each of them asks for
    Closer,              \* the Close calls
    CancelCloser,        \* those with cancel_pending_enqueues
    Scripts,             \* sets of threads: those of one of them do something
    capacity,            \* capacity_
    Nobody               \* no thread

Op     == Token \cup Closer
Thread == Op \cup CM

ASSUME QueueAssumption ==
    /\ Token = Enqueuer \cup Dequeuer
    /\ Enqueuer \cap Dequeuer = {}
    /\ Token \cap Closer = {} /\ Op \cap CM = {}
    /\ UpTo \subseteq Dequeuer
    /\ CancelCloser \subseteq Closer
    /\ Scripts \subseteq SUBSET Thread
    /\ Num \in [Token -> Nat]
    /\ capacity \in Nat \ {0}
    /\ Nobody \notin Thread

VARIABLES
    buffer,    \* queues_
    closed,    \* closed_
    enq, deq,  \* enqueue_attempts_, dequeue_attempts_
    holder,    \* the thread inside FlushUnlocked's critical section
    action,    \* which TryAttemptLocked it is in
    changed,   \* its local variable changed
    pc,        \* where each thread is
    to_call,   \* done callbacks of cancelled attempts it has to run
    clean_up,  \* operations its FlushUnlocked completed
    st,        \* the status in the context of each operation
    got,       \* the tuple each dequeue is finished with
    done,      \* how often the done callback of each operation has run
    pushed,    \* history: the elements put into the queue, in order
    popped,    \* history: the elements handed to completed dequeues, in order
    lost       \* history: the elements in tuples of cancelled dequeues

dataVars    == <<buffer, closed, pushed, popped, lost>>
attemptVars == <<enq, deq>>
flushVars   == <<holder, action, changed>>
opVars      == <<st, got, done>>
threadVars  == <<pc, to_call, clean_up>>
vars == <<cmVars, dataVars, attemptVars, flushVars, opVars, threadVars>>

Element == Enqueuer \X (Nat \ {0})
Attempt == [op : Op, requested : Nat, cancelled : BOOLEAN, tuple : Seq(Element)]
NewAttempt(o, n) == [op |-> o, requested |-> n, cancelled |-> FALSE, tuple |-> <<>>]

Labels == {"absent", "idle", "next", "flush", "flushing", "cleanup", "blocked", "notify",
           "returned"}

DataTypeOK ==
    /\ buffer \in Seq(Element) /\ pushed \in Seq(Element) /\ popped \in Seq(Element)
    /\ lost \in SUBSET Element
    /\ closed \in BOOLEAN

FlushTypeOK ==
    /\ enq \in Seq(Attempt) /\ deq \in Seq(Attempt)
    /\ holder \in Thread \cup {Nobody}
    /\ action \in {"kEnqueue", "kDequeue"}
    /\ changed \in BOOLEAN

OpTypeOK ==
    /\ st \in [Op -> {"ok", "Cancelled", "OutOfRange"}]
    /\ got \in [Op -> Seq(Element)]
    /\ done \in [Op -> Nat]

ThreadTypeOK ==
    /\ pc \in [Thread -> Labels]
    /\ to_call \in [Thread -> Seq(Op)]
    /\ clean_up \in [Thread -> Seq(Op)]

TypeOK == CMTypeOK /\ DataTypeOK /\ FlushTypeOK /\ OpTypeOK /\ ThreadTypeOK

Init ==
    /\ CMInit
    /\ buffer = <<>> /\ pushed = <<>> /\ popped = <<>> /\ lost = {}
    /\ closed = FALSE
    /\ enq = <<>> /\ deq = <<>>
    /\ holder = Nobody /\ action = "kEnqueue" /\ changed = FALSE
    /\ \E script \in Scripts :
         pc = [t \in Thread |-> IF t \in script THEN "idle" ELSE "absent"]
    /\ to_call = [t \in Thread |-> <<>>]
    /\ clean_up = [t \in Thread |-> <<>>]
    /\ st = [o \in Op |-> "ok"]
    /\ got = [o \in Op |-> <<>>]
    /\ done = [o \in Op |-> 0]

Goto(t, here, there) == pc[t] = here /\ pc' = [pc EXCEPT ![t] = there]
Finish(o) == done' = [done EXCEPT ![o] = @ + 1]
mu_free == holder = Nobody

(***************************************************************************)
(* TryEnqueue(Many), TryDequeue(Many), Close.                              *)
(***************************************************************************)

\* A batch of no elements is finished at once, whatever the queue's state.
TryNothing(o) ==
    /\ o \in Token /\ Num[o] = 0
    /\ Goto(o, "idle", "returned")
    /\ Finish(o)
    /\ UNCHANGED <<cmVars, dataVars, attemptVars, flushVars, st, got, to_call, clean_up>>

\* Under mu_, the callback is registered and the attempt appended.
TryAppend(o) ==
    /\ o \in Token /\ Num[o] > 0
    /\ mu_free
    /\ Goto(o, "idle", "flush")
    /\ CMRegister(o)
    /\ IF o \in Enqueuer
         THEN enq' = Append(enq, NewAttempt(o, Num[o])) /\ UNCHANGED deq
         ELSE deq' = Append(deq, NewAttempt(o, Num[o])) /\ UNCHANGED enq
    /\ UNCHANGED <<dataVars, flushVars, opVars, to_call, clean_up>>

\* already_cancelled: the operation is finished with Cancelled.
TryTooLate(o) ==
    /\ o \in Token /\ Num[o] > 0
    /\ mu_free
    /\ Goto(o, "idle", "returned")
    /\ ~ShouldRegister(o)
    /\ st' = [st EXCEPT ![o] = "Cancelled"]
    /\ Finish(o)
    /\ UNCHANGED <<cmVars, dataVars, attemptVars, flushVars, got, to_call, clean_up>>

\* Close takes its turn behind the pending enqueues.
Close(o) ==
    /\ o \in Closer \ CancelCloser
    /\ mu_free
    /\ Goto(o, "idle", "flush")
    /\ enq' = Append(enq, NewAttempt(o, 0))
    /\ UNCHANGED <<cmVars, dataVars, deq, flushVars, opVars, to_call, clean_up>>

Live(attempts) == Keep(attempts, {a \in Attempt : ~a.cancelled})
OpsOf(attempts) == [i \in 1..Len(attempts) |-> attempts[i].op]
CancelAll_None(attempts) == attempts
CancelAll(attempts) ==
    [i \in 1..Len(attempts) |-> [attempts[i] EXCEPT !.cancelled = TRUE]]

\* CloseAndCancel: the enqueue attempts are marked, and their done callbacks
\* collected to be run without the lock.
CloseAndCancel(o) ==
    /\ o \in CancelCloser
    /\ mu_free
    /\ Goto(o, "idle", "flush")
    /\ closed' = TRUE
    /\ LET victims == OpsOf(Live(enq)) IN
         /\ to_call' = [to_call EXCEPT ![o] = victims]
         /\ st' = [x \in Op |-> IF x \in Range(victims) THEN "Cancelled" ELSE st[x]]
    /\ enq' = CancelAll(enq)
    /\ UNCHANGED <<cmVars, buffer, pushed, popped, lost, deq, flushVars, got, done, clean_up>>

\* A thread runs a done callback it took from a cancelled attempt.
RunCallback(t) ==
    /\ pc[t] = "flush" /\ to_call[t] # <<>>
    /\ Finish(Head(to_call[t]))
    /\ to_call' = [to_call EXCEPT ![t] = Tail(@)]
    /\ UNCHANGED <<cmVars, dataVars, attemptVars, flushVars, st, got, pc, clean_up>>

(***************************************************************************)
(* The run_callback of an attempt: what one call of it does.               *)
(***************************************************************************)

\* How far n of "wanted" elements bring an attempt.
Progress_AsComplete(n, wanted) == IF n > 0 THEN "kComplete" ELSE "kNoProgress"
Progress(n, wanted) ==
    IF n = wanted THEN "kComplete" ELSE IF n > 0 THEN "kProgress" ELSE "kNoProgress"

\* The element of an EnqueueMany that is next.
NextIndex(a) == Num[a.op] - a.requested + 1

\* A closed queue takes nothing.
Refused(a) == a.op \in Token /\ closed

\* How many more elements the queue takes.
Room_OneMore == IF Len(buffer) <= capacity THEN capacity - Len(buffer) + 1 ELSE 0
Room == IF Len(buffer) < capacity THEN capacity - Len(buffer) ELSE 0

\* TryEnqueue(Many) and Close.
RunEnqueue(a) ==
    LET n == IF a.op \in Closer \/ Refused(a) THEN 0
             ELSE IF Room < a.requested THEN Room ELSE a.requested
    IN  [attempt |-> [a EXCEPT !.requested = @ - n],
         pushes  |-> [i \in 1..n |-> <<a.op, NextIndex(a) + i - 1>>],
         closes  |-> a.op \in Closer,
         result  |-> IF Refused(a) THEN "kComplete" ELSE Progress(n, a.requested),
         status  |-> IF closed THEN "Cancelled" ELSE "ok"]

\* TryDequeue(Many).  A closed queue that is too short for the rest of the
\* batch gets the elements of the batch back, at its front; then a small
\* batch takes all there is, and any other fails.
TooShort(a) == closed /\ Len(buffer) < a.requested
Available_NoRestore(a) == buffer
Available(a) == IF TooShort(a) THEN a.tuple \o buffer ELSE buffer
Remaining(elements, n) == SubSeq(elements, n + 1, Len(elements))

RunDequeue(a) ==
    LET avail == Available(a)
        small == TooShort(a) /\ a.op \in UpTo /\ avail # <<>>
        yield == a.op \in UpTo /\ enq # <<>>
        need  == IF small THEN Len(avail) ELSE a.requested
        n     == IF Len(avail) < need THEN Len(avail) ELSE need
        tuple == (IF TooShort(a) THEN <<>> ELSE a.tuple) \o SubSeq(avail, 1, n)
    IN  IF TooShort(a) /\ ~small
          THEN [attempt |-> IF yield THEN a ELSE [a EXCEPT !.tuple = <<>>], buffer |-> avail,
                result |-> IF yield THEN "kProgress" ELSE "kComplete",
                status |-> IF yield THEN "ok" ELSE "OutOfRange"]
          ELSE [attempt |-> [a EXCEPT !.requested = need - n, !.tuple = tuple],
                buffer |-> Remaining(avail, n),
                result |-> Progress(n, need),
                status |-> "ok"]

(***************************************************************************)
(* FlushUnlocked and TryAttemptLocked.                                     *)
(***************************************************************************)
FlushLock(t) ==
    /\ to_call[t] = <<>>
    /\ mu_free
    /\ Goto(t, "flush", "flushing")
    /\ holder' = t
    /\ action' = "kEnqueue" /\ changed' = FALSE
    /\ UNCHANGED <<cmVars, dataVars, attemptVars, opVars, to_call, clean_up>>

LoopAgain_Never(progress) == FALSE
LoopAgain(progress) == changed \/ progress

\* The end of a TryAttemptLocked; "progress" is what it adds to changed.
\* After the dequeues the loop starts again if anything changed, and unlocks
\* otherwise.
EndOfAttempts(t, progress) ==
    IF action = "kEnqueue"
      THEN /\ action' = "kDequeue"
           /\ changed' = (changed \/ progress)
           /\ UNCHANGED <<holder, pc>>
      ELSE /\ action' = "kEnqueue"
           /\ changed' = FALSE
           /\ IF LoopAgain(progress)
                THEN UNCHANGED <<holder, pc>>
                ELSE holder' = Nobody /\ pc' = [pc EXCEPT ![t] = "cleanup"]

\* What happens to the attempt at the front after its run_callback: it stays
\* there and ends the loop, or it leaves the queue for the clean_up.
AfterRun(t, attempts, r) ==
    IF r.result = "kComplete"
      THEN /\ attempts' = Tail(attempts)
           /\ clean_up' = [clean_up EXCEPT ![t] = Append(@, r.attempt.op)]
           /\ changed' = TRUE
           /\ UNCHANGED <<holder, action, pc>>
      ELSE /\ attempts' = <<r.attempt>> \o Tail(attempts)
           /\ EndOfAttempts(t, r.result = "kProgress")
           /\ UNCHANGED clean_up

\* A cancelled attempt at the front is dropped.
SkipCancelled(t) ==
    /\ holder = t
    /\ \/ action = "kEnqueue" /\ enq # <<>> /\ Head(enq).cancelled
          /\ enq' = Tail(enq) /\ UNCHANGED deq
       \/ action = "kDequeue" /\ deq # <<>> /\ Head(deq).cancelled
          /\ deq' = Tail(deq) /\ UNCHANGED enq
    /\ UNCHANGED <<cmVars, dataVars, flushVars, opVars, threadVars>>

\* There is no attempt left.
NoAttempt(t) ==
    /\ holder = t
    /\ IF action = "kEnqueue" THEN enq = <<>> ELSE deq = <<>>
    /\ EndOfAttempts(t, FALSE)
    /\ UNCHANGED <<cmVars, dataVars, attemptVars, opVars, to_call, clean_up>>

TryEnqueueAttempt(t) ==
    /\ holder = t /\ action = "kEnqueue"
    /\ enq # <<>> /\ ~Head(enq).cancelled
    /\ LET r == RunEnqueue(Head(enq)) IN
         /\ buffer' = buffer \o r.pushes
         /\ pushed' = pushed \o r.pushes
         /\ closed' = (closed \/ r.closes)
         /\ st' = [st EXCEPT ![Head(enq).op] = r.status]
         /\ AfterRun(t, enq, r)
    /\ UNCHANGED <<cmVars, popped, lost, deq, got, done, to_call>>

TryDequeueAttempt(t) ==
    /\ holder = t /\ action = "kDequeue"
    /\ deq # <<>> /\ ~Head(deq).cancelled
    /\ LET r == RunDequeue(Head(deq)) IN
         /\ buffer' = r.buffer
         /\ st' = [st EXCEPT ![Head(deq).op] = r.status]
         /\ IF r.result = "kComplete"
              THEN /\ got' = [got EXCEPT ![Head(deq).op] = r.attempt.tuple]
                   /\ popped' = popped \o r.attempt.tuple
              ELSE UNCHANGED <<got, popped>>
         /\ AfterRun(t, deq, r)
    /\ UNCHANGED <<cmVars, pushed, closed, lost, enq, done, to_call>>

\* After the unlock: DeregisterCallback, which may block, then finished().
Cleaned(t) ==
    /\ Finish(Head(clean_up[t]))
    /\ clean_up' = [clean_up EXCEPT ![t] = Tail(@)]
    /\ UNCHANGED <<dataVars, attemptVars, flushVars, st, got, to_call>>

CleanUp_NoDeregister(t) ==
    /\ pc[t] = "cleanup" /\ clean_up[t] # <<>>
    /\ Cleaned(t)
    /\ UNCHANGED <<cmVars, pc>>
CleanUp(t) ==
    /\ pc[t] = "cleanup" /\ clean_up[t] # <<>>
    /\ LET o == Head(clean_up[t]) IN
         \/ o \in Token /\ CMDeregister(o)
         \/ o \in Token /\ DeregisterTooLate(o) /\ UNCHANGED cmVars
         \/ o \in Closer /\ UNCHANGED cmVars
    /\ Cleaned(t)
    /\ UNCHANGED pc

CleanUpBlock(t) ==
    /\ clean_up[t] # <<>>
    /\ Goto(t, "cleanup", "blocked")
    /\ Head(clean_up[t]) \in Token
    /\ DeregisterBlocks(Head(clean_up[t]))
    /\ UNCHANGED <<cmVars, dataVars, attemptVars, flushVars, opVars, to_call, clean_up>>

CleanUpWake(t) ==
    /\ Goto(t, "blocked", "cleanup")
    /\ DeregisterWakes(Head(clean_up[t]))
    /\ Cleaned(t)
    /\ UNCHANGED cmVars

\* FlushUnlocked returns: to StartCancel, or to the caller of the operation;
\* CloseAndCancel's caller then runs the callback of Close itself.
FlushReturn(t) ==
    /\ clean_up[t] = <<>>
    /\ Goto(t, "cleanup", IF t \in CM THEN "next" ELSE "returned")
    /\ IF t \in CancelCloser THEN Finish(t) ELSE UNCHANGED done
    /\ UNCHANGED <<cmVars, dataVars, attemptVars, flushVars, st, got, to_call, clean_up>>

(***************************************************************************)
(* Cancellation of a step.                                                 *)
(***************************************************************************)
StartCancel(c) ==
    /\ Goto(c, "idle", "next")
    /\ CMStartCancel(c)
    /\ UNCHANGED <<dataVars, attemptVars, flushVars, opVars, to_call, clean_up>>

IsLive(attempts, o) ==
    \E i \in 1..Len(attempts) : attempts[i].op = o /\ ~attempts[i].cancelled
Mark(attempts, o) ==
    [i \in 1..Len(attempts) |->
        IF attempts[i].op = o THEN [attempts[i] EXCEPT !.cancelled = TRUE]
                              ELSE attempts[i]]
Collected(attempts, o) ==
    UNION {Range(attempts[i].tuple) : i \in {j \in 1..Len(attempts) : attempts[j].op = o}}

\* Cancel: an attempt that is still there is marked, and its done callback
\* taken; FlushUnlocked follows.
Cancel(c, o) ==
    /\ pc[c] = "next"
    /\ mu_free
    /\ CMNextCallback(c, o)
    /\ IF IsLive(enq, o) \/ IsLive(deq, o)
         THEN /\ enq' = Mark(enq, o) /\ deq' = Mark(deq, o)
              /\ lost' = lost \cup Collected(deq, o)
              /\ st' = [st EXCEPT ![o] = "Cancelled"]
              /\ to_call' = [to_call EXCEPT ![c] = <<o>>]
              /\ pc' = [pc EXCEPT ![c] = "flush"]
         ELSE UNCHANGED <<attemptVars, lost, st, to_call, pc>>
    /\ UNCHANGED <<buffer, closed, pushed, popped, flushVars, got, done, clean_up>>

FinishCancel(c) ==
    /\ Goto(c, "next", "notify")
    /\ CMFinishCancel(c)
    /\ UNCHANGED <<dataVars, attemptVars, flushVars, opVars, to_call, clean_up>>

Notify(c) ==
    /\ Goto(c, "notify", "returned")
    /\ CMNotify(c)
    /\ UNCHANGED <<dataVars, attemptVars, flushVars, opVars, to_call, clean_up>>

(***************************************************************************)
(* The specification.                                                      *)
(***************************************************************************)
Call(o) ==
    TryNothing(o) \/ TryAppend(o) \/ TryTooLate(o) \/ Close(o) \/ CloseAndCancel(o)

FlushStep(t) ==
    \/ RunCallback(t) \/ FlushLock(t) \/ SkipCancelled(t) \/ NoAttempt(t)
    \/ TryEnqueueAttempt(t) \/ TryDequeueAttempt(t)
    \/ CleanUp(t) \/ CleanUpBlock(t) \/ CleanUpWake(t) \/ FlushReturn(t)

CancelStep(c) == FinishCancel(c) \/ Notify(c) \/ \E o \in Token : Cancel(c, o)

Next ==
    \/ \E o \in Op : Call(o)
    \/ \E t \in Thread : FlushStep(t)
    \/ \E c \in CM : StartCancel(c) \/ CancelStep(c)

Spec == Init /\ [][Next]_vars

\* Some thread that has started goes on unless all of them are blocked; nothing
\* makes a client call, close or cancel.
Progresses == (\E t \in Thread : FlushStep(t)) \/ \E c \in CM : CancelStep(c)
Fairness == WF_vars(Progresses)

FairSpec == Spec /\ Fairness

(***************************************************************************)
(* Properties.                                                             *)
(***************************************************************************)
Partial == IF deq = <<>> \/ Head(deq).cancelled THEN <<>> ELSE Head(deq).tuple

\* The elements of an EnqueueMany enter the queue in their order, and all of
\* them have when it finishes without an error.
EnqueueManyInOrder ==
    \A o \in Enqueuer :
        LET mine == Keep(pushed, {o} \X (Nat \ {0})) IN
        /\ \A i \in 1..Len(mine) : mine[i] = <<o, i>>
        /\ done[o] = 1 /\ st[o] = "ok" => Len(mine) = Num[o]

\* First in, first out, and nothing invented: the elements handed out, then
\* those a blocked DequeueMany has collected, then those in the queue, are the
\* elements put in, in their order, but for those whose DequeueMany was
\* cancelled; and each EnqueueMany has put in its elements in order.
FirstInFirstOut ==
    /\ popped \o Partial \o buffer = Keep(pushed, Element \ lost)
    /\ EnqueueManyInOrder

\* A dequeue that finishes without an error has a full batch, or, if small
\* batches are allowed and the queue is closed, at least one element.
BatchIsFull ==
    \A o \in Dequeuer :
        done[o] = 1 /\ st[o] = "ok" =>
            \/ Len(got[o]) = Num[o]
            \/ o \in UpTo /\ closed /\ Len(got[o]) \in 1..Num[o]

\* Where the done callback of an operation waits to be run.
Holds(o) ==
    Cardinality({i \in 1..Len(enq) : enq[i].op = o /\ ~enq[i].cancelled})
    + Cardinality({i \in 1..Len(deq) : deq[i].op = o /\ ~deq[i].cancelled})
    + Cardinality({t \in Thread : o \in Range(to_call[t])})
    + Cardinality({t \in Thread : o \in Range(clean_up[t])})

\* Completion, cancellation and closing race for an operation, and one wins:
\* its done callback is in one place, or has run once.
DoneExactlyOnce ==
    \A o \in Op \ CancelCloser :
        Holds(o) + done[o] = IF pc[o] \in {"absent", "idle"} THEN 0 ELSE 1

\* No wakeup is lost: when no thread is going to flush, the attempt at the
\* front of each queue really has to wait.
NoLostWakeup ==
    (\A t \in Thread : pc[t] \notin {"flush", "flushing"}) =>
        /\ enq # <<>> => /\ ~Head(enq).cancelled
                         /\ ~closed /\ Len(buffer) >= capacity
        /\ deq # <<>> => /\ ~Head(deq).cancelled
                         /\ ~closed /\ buffer = <<>>

\* The thread of StartCancel has completed another operation of its step and
\* waits, in DeregisterCallback, for the end of the StartCancel it is in.
WaitsForItself(c) == pc[c] = "blocked" /\ CMOf[Head(clean_up[c])] = c

\* The attempts of a closed queue are worked off, and those of a cancelled
\* step, whoever completes them: in the end every operation that was called is
\* finished, unless a StartCancel waits for itself.
EveryOpFinishes ==
    <>[]\/ \E c \in CM : WaitsForItself(c)
        \/ \A o \in Token :
             /\ pc[o] \notin {"absent", "idle"}
             /\ closed \/ is_cancelling[CMOf[o]] \/ is_cancelled[CMOf[o]]
             => done[o] = 1

\* "capacity: The upper bound on the number of elements in this queue": it is
\* one until a closed queue gets the elements of a DequeueMany back.
WithinCapacityUntilClosed == TypeOK /\ (Len(buffer) <= capacity \/ closed)

\* "(iii) `callback` does not invoke any method on this cancellation manager":
\* a thread inside StartCancel never deregisters at its own manager.
NoReentrantDeregister ==
    \A c \in CM : \A i \in 1..Len(clean_up[c]) :
        pc[c] \in {"cleanup", "blocked"} /\ clean_up[c][i] \in Token =>
            CMOf[clean_up[c][i]] # c

\* "Ensure that `cm->DeregisterCallback(token)` is called without holding
\* `mu_`, before `callback` is invoked": the enqueues that a Close cancels are
\* the ones that are finished with their callback still registered.
DeregisteredUnlessClosed ==
    \A o \in Token :
        done[o] = 1 /\ o \in callbacks[CMOf[o]] =>
            /\ o \in Enqueuer /\ st[o] = "Cancelled"
            /\ \E x \in CancelCloser : pc[x] \notin {"absent", "idle"}
=============================================================================
