---------------------------- MODULE PriorityQueue ---------------------------
(***************************************************************************)
(* The unbounded PriorityQueue (core/kernels/priority_queue.cc) on         *)
(* QueueBase, as Barrier owns one: its state, and what each critical       *)
(* section of it does.  The operators are parts of actions; the module     *)
(* that uses the queue says what its threads do in between.                *)
(*                                                                         *)
(* FlushUnlocked holds the queue's mutex over many attempts: it is one     *)
(* action per attempt, with queue_mu held in between.  An enqueue attempt  *)
(* never waits, for there is no limit, so that the loop of FlushUnlocked   *)
(* is: all enqueues, then the dequeues at the front until one has to wait. *)
(* A cancelled attempt, which a flush would skip, is removed at once.      *)
(*                                                                         *)
(* An element is a record with a field "index", its priority: smaller ones *)
(* leave first, and equal ones in any order (a binary heap).               *)
(***************************************************************************)
EXTENDS Subsequences, FiniteSets, Functions

CONSTANTS
    Thread,   \* the threads, each of which carries out one operation
    Small,    \* the dequeues with allow_small_batch
    Nobody    \* no thread

ASSUME ThreadAssumption == Small \subseteq Thread /\ Nobody \notin Thread

VARIABLES
    queue,     \* queues_, a set of elements
    queue_is_closed,
    enq, deq,  \* enqueue_attempts_, dequeue_attempts_
    queue_mu,  \* the thread inside FlushUnlocked's critical section
    clean_up,  \* the operations each thread's flush has completed
    st,        \* the status in the context of each operation
    got        \* the tuple each dequeue is finished with

pqVars == <<queue, queue_is_closed, enq, deq, queue_mu, clean_up, st, got>>

Status == {"ok", "Cancelled", "OutOfRange", "InvalidArgument"}

PQInit ==
    /\ queue = {} /\ queue_is_closed = FALSE
    /\ enq = <<>> /\ deq = <<>>
    /\ queue_mu = Nobody
    /\ clean_up = [t \in Thread |-> <<>>]
    /\ st = [t \in Thread |-> "ok"]
    /\ got = [t \in Thread |-> <<>>]

queue_mu_free == queue_mu = Nobody
SetStatus(o, s) == st' = [st EXCEPT ![o] = s]
OpsOf(attempts) == {attempts[i].op : i \in 1..Len(attempts)}
Without_Keep(attempts, o) == attempts
Without(attempts, o) == Keep(attempts, {a \in Range(attempts) : a.op # o})

\* TryEnqueueMany and TryDequeueMany: the attempt takes its place.
PQEnqueueMany(o, batch) ==
    /\ queue_mu_free
    /\ enq' = Append(enq, [op |-> o, batch |-> batch, close |-> FALSE])
    /\ UNCHANGED <<queue, queue_is_closed, deq, queue_mu, clean_up, st, got>>

PQDequeueMany(o, n) ==
    /\ queue_mu_free
    /\ deq' = Append(deq, [op |-> o, requested |-> n, tuple |-> <<>>])
    /\ UNCHANGED <<queue, queue_is_closed, enq, queue_mu, clean_up, st, got>>

\* QueueBase::Close without cancel_pending_enqueues.
PQClose(o) ==
    /\ queue_mu_free
    /\ enq' = Append(enq, [op |-> o, batch |-> <<>>, close |-> TRUE])
    /\ UNCHANGED <<queue, queue_is_closed, deq, queue_mu, clean_up, st, got>>

\* CloseAndCancel: the enqueue attempts end with Cancelled.
PQCloseAndCancel ==
    /\ queue_mu_free
    /\ queue_is_closed' = TRUE
    /\ st' = [o \in Thread |-> IF o \in OpsOf(enq) THEN "Cancelled" ELSE st[o]]
    /\ enq' = <<>>
    /\ UNCHANGED <<queue, deq, queue_mu, clean_up, got>>

\* QueueBase::Cancel, for an attempt that is still there.
PQCancel(o) ==
    /\ queue_mu_free
    /\ o \in OpsOf(enq) \cup OpsOf(deq)
    /\ enq' = Without(enq, o) /\ deq' = Without(deq, o)
    /\ SetStatus(o, "Cancelled")
    /\ UNCHANGED <<queue, queue_is_closed, queue_mu, clean_up, got>>

(***************************************************************************)
(* FlushUnlocked.                                                          *)
(***************************************************************************)
PQLock(t) ==
    /\ queue_mu_free
    /\ queue_mu' = t
    /\ UNCHANGED <<queue, queue_is_closed, enq, deq, clean_up, st, got>>

Complete(t, o) == clean_up' = [clean_up EXCEPT ![t] = Append(@, o)]

\* A closed queue refuses the batch of an enqueue, and a second close.
EnqueueAttempt(t) ==
    /\ queue_mu = t
    /\ enq # <<>>
    /\ IF queue_is_closed
         THEN SetStatus(Head(enq).op, "Cancelled") /\ UNCHANGED <<queue, queue_is_closed>>
         ELSE /\ queue' = queue \cup Range(Head(enq).batch)
              /\ queue_is_closed' = Head(enq).close
              /\ UNCHANGED st
    /\ Complete(t, Head(enq).op)
    /\ enq' = Tail(enq)
    /\ UNCHANGED <<deq, queue_mu, got>>

\* A closed queue that is too short for the attempt fails it.
Insufficient_NeverSmall(a) ==
    queue_is_closed /\ a.op \notin Small /\ Cardinality(queue) < a.requested
Insufficient(a) ==
    /\ queue_is_closed
    /\ queue = {} \/ (a.op \notin Small /\ Cardinality(queue) < a.requested)

\* Otherwise the attempt waits until there are as many as it asks for.
HasToWait(a) ==
    /\ Cardinality(queue) < a.requested
    /\ queue = {} \/ ~(queue_is_closed /\ a.op \in Small)

\* The batches of n elements a heap may yield, one after the other.
Batches_AnyOrder(n) == {s \in [1..n -> queue] : IsInjective(s)}
Batches(n) ==
    {s \in [1..n -> queue] :
        /\ IsInjective(s)
        /\ \A i \in 1..n : \A e \in queue \ {s[j] : j \in 1..i} : s[i].index <= e.index}

DequeueFails(t) ==
    /\ queue_mu = t
    /\ enq = <<>> /\ deq # <<>> /\ Insufficient(Head(deq))
    /\ SetStatus(Head(deq).op, "OutOfRange")
    /\ Complete(t, Head(deq).op)
    /\ deq' = Tail(deq)
    /\ UNCHANGED <<queue, queue_is_closed, enq, queue_mu, got>>

\* The elements are taken.  An attempt that has not got all it asked for stays
\* at the front, with what it has, and is run again.
DequeueTakes(t) ==
    /\ queue_mu = t
    /\ enq = <<>> /\ deq # <<>>
    /\ LET a == Head(deq)
           n == IF Cardinality(queue) < a.requested THEN Cardinality(queue) ELSE a.requested
       IN  /\ ~Insufficient(a) /\ ~HasToWait(a)
           /\ \E s \in Batches(n) :
                /\ queue' = queue \ Range(s)
                /\ IF n = a.requested
                     THEN /\ got' = [got EXCEPT ![a.op] = a.tuple \o s]
                          /\ Complete(t, a.op)
                          /\ deq' = Tail(deq)
                     ELSE /\ deq' = <<[a EXCEPT !.requested = @ - n, !.tuple = @ \o s]>>
                                      \o Tail(deq)
                          /\ UNCHANGED <<got, clean_up>>
    /\ UNCHANGED <<queue_is_closed, enq, queue_mu, st>>

PQUnlock(t) ==
    /\ queue_mu = t
    /\ enq = <<>>
    /\ deq # <<>> => ~Insufficient(Head(deq)) /\ HasToWait(Head(deq))
    /\ queue_mu' = Nobody
    /\ UNCHANGED <<queue, queue_is_closed, enq, deq, clean_up, st, got>>
=============================================================================
