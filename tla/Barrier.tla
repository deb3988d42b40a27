------------------------------- MODULE Barrier ------------------------------
(***************************************************************************)
(* Barrier (core/kernels/barrier_ops.cc): tuples that are filled component *)
(* by component under a key, and wait in a PriorityQueue once they are     *)
(* complete.                                                               *)
(*                                                                         *)
(* The barrier's mutex mu_ and the mutex of ready_queue_ are two: an       *)
(* InsertMany completes tuples under mu_, and enqueues them after it has   *)
(* released it; a Close keeps mu_ while it closes the queue, and runs the  *)
(* callbacks of whatever its flush of the queue completes.                 *)
(*                                                                         *)
(* A value is reduced to the fact that it is there, and input_index_       *)
(* counts from 0.  Allocation and the checks of shapes and types succeed.  *)
(*                                                                         *)
(* A definition Op_Variant is a faulty form of Op that shows that the      *)
(* properties notice the slip; it is no part of the specification.         *)
(***************************************************************************)
EXTENDS PriorityQueue

CONSTANTS
    Inserter,     \* the InsertMany calls
    Keys,         \* the keys of each of them, a sequence
    Comp,         \* its component_index
    Component,    \* the components of a value
    Taker,        \* the TakeMany calls
    Want,         \* how many elements each of them asks for
    Closer,       \* the Close calls
    CancelCloser, \* those with cancel_pending_enqueues
    Canceller,    \* threads that cancel a step
    Victim,       \* the operation in that step
    Scripts       \* sets of threads: those of one of them do something

Op  == Inserter \cup Taker \cup Closer
Key == UNION {Range(Keys[o]) : o \in Inserter}

ASSUME BarrierAssumption ==
    /\ Thread = Op \cup Canceller
    /\ Small \subseteq Taker
    /\ CancelCloser \subseteq Closer
    /\ Inserter \cap Taker = {} /\ Closer \cap (Inserter \cup Taker) = {}
    /\ Op \cap Canceller = {}
    /\ Victim \in [Canceller -> Inserter \cup Taker]
    /\ Keys \in [Inserter -> Seq(Key)]
    /\ Comp \in [Inserter -> Component]
    /\ Want \in [Taker -> Nat \ {0}]
    /\ Scripts \subseteq SUBSET Thread

VARIABLES
    incomplete,   \* incomplete_: a tuple [element, have] by key
    input_index,  \* input_index_
    closed, queue_closed, queue_cancelled, cancel_pending_enqueues,
    mu,           \* the thread that keeps mu_ while it closes ready_queue_
    pc,           \* where each thread is
    batch,        \* the complete tuples an InsertMany is going to enqueue
    num,          \* num_elements_to_deliver of each TakeMany
    cancelled,    \* the operations whose step has been cancelled
    done,         \* how often the callback of each operation has run
    elements      \* history: all tuples there ever were

flagVars    == <<closed, queue_closed, queue_cancelled, cancel_pending_enqueues>>
barrierVars == <<incomplete, input_index, flagVars, elements>>
vars == <<pqVars, barrierVars, mu, pc, batch, num, cancelled, done>>

\* Where a tuple was begun tells it from any other.
Element == [key : Key, by : Inserter, pos : Nat \ {0}, index : Nat]

EnqueueAttempts == [op : Inserter \cup Closer, batch : Seq(Element), close : BOOLEAN]
DequeueAttempts == [op : Taker, requested : Nat \ {0}, tuple : Seq(Element)]

TypeOKTuples ==
    /\ queue \in SUBSET Element /\ elements \in SUBSET Element
    /\ DOMAIN incomplete \subseteq Key
    /\ \A k \in DOMAIN incomplete :
         incomplete[k] \in [element : Element, have : SUBSET Component]
    /\ input_index \in Nat
    /\ batch \in [Inserter -> Seq(Element)]
    /\ got \in [Thread -> Seq(Element)]
TypeOKFlags ==
    /\ {closed, queue_closed, queue_cancelled, cancel_pending_enqueues,
        queue_is_closed} \subseteq BOOLEAN
    /\ {mu, queue_mu} \subseteq Thread \cup {Nobody}
TypeOKAttempts ==
    /\ enq \in Seq(EnqueueAttempts) /\ deq \in Seq(DequeueAttempts)
    /\ clean_up \in [Thread -> Seq(Op)]
TypeOKOps ==
    /\ st \in [Thread -> Status]
    /\ num \in [Taker -> Nat]
    /\ pc \in [Thread -> {"absent", "idle", "append", "close", "flush", "flushing", "cleanup",
                          "returned"}]
    /\ cancelled \in SUBSET (Inserter \cup Taker)
    /\ done \in [Op -> Nat]
TypeOK == TypeOKTuples /\ TypeOKFlags /\ TypeOKAttempts /\ TypeOKOps

Init ==
    /\ PQInit
    /\ incomplete = <<>> /\ input_index = 0 /\ elements = {}
    /\ closed = FALSE /\ queue_closed = FALSE
    /\ queue_cancelled = FALSE /\ cancel_pending_enqueues = FALSE
    /\ mu = Nobody
    /\ \E s \in Scripts : pc = [t \in Thread |-> IF t \in s THEN "idle" ELSE "absent"]
    /\ batch = [o \in Inserter |-> <<>>]
    /\ num = [o \in Taker |-> 0]
    /\ cancelled = {}
    /\ done = [o \in Op |-> 0]

mu_free == mu = Nobody
Goto(t, here, there) == pc[t] = here /\ pc' = [pc EXCEPT ![t] = there]
Finish(o) == done' = [done EXCEPT ![o] = @ + 1]
FinishWith(o, s) == SetStatus(o, s) /\ Finish(o)
QueueRest == <<queue, queue_is_closed, enq, deq, queue_mu, clean_up, got>>

(***************************************************************************)
(* TryInsertMany.                                                          *)
(***************************************************************************)

\* An accumulator [inc, ready, all, fresh, status] carries incomplete_, the
\* ready_tuples, the history, new_elements and the status through the keys.
NewKey(acc, k, e) ==
    [acc EXCEPT !.inc = [x \in DOMAIN @ \cup {k} |->
                            IF x = k THEN [element |-> e, have |-> {}] ELSE @[x]],
                !.all = @ \cup {e}, !.fresh = TRUE]

Erase(inc, k) == [x \in DOMAIN inc \ {k} |-> inc[x]]

Fill(acc, k, c) ==
    IF c \in acc.inc[k].have
      THEN [acc EXCEPT !.status = "InvalidArgument"]
    ELSE IF acc.inc[k].have \cup {c} = Component
      THEN [acc EXCEPT !.ready = Append(@, acc.inc[k].element), !.inc = Erase(@, k)]
    ELSE [acc EXCEPT !.inc[k].have = @ \cup {c}]

\* The first key that fails ends the loop.
InsertOneLocked(acc, o, i) ==
    LET k == Keys[o][i]
        e == [key |-> k, by |-> o, pos |-> i, index |-> input_index]
    IN  IF acc.status # "ok" THEN acc
        ELSE IF k \in DOMAIN acc.inc THEN Fill(acc, k, Comp[o])
        ELSE IF closed THEN [acc EXCEPT !.status = "Cancelled"]
        ELSE Fill(NewKey(acc, k, e), k, Comp[o])

InsertAll(o) ==
    LET acc[i \in 0..Len(Keys[o])] ==
            IF i = 0 THEN [inc |-> incomplete, ready |-> <<>>, all |-> elements,
                           fresh |-> FALSE, status |-> "ok"]
            ELSE InsertOneLocked(acc[i - 1], o, i)
    IN  acc[Len(Keys[o])]

NextIndex(acc) == IF acc.status = "ok" /\ acc.fresh THEN input_index + 1 ELSE input_index

InsertRefused(o) ==
    closed /\ (cancel_pending_enqueues \/ (Keys[o] # <<>> /\ DOMAIN incomplete = {}))

\* What the loop over the keys leaves behind, be it an error or not; the
\* tuples that were completed are enqueued next unless there was one.
Inserted(o, acc) ==
    /\ incomplete' = acc.inc
    /\ elements' = acc.all
    /\ input_index' = NextIndex(acc)
    /\ IF acc.status = "ok" /\ acc.ready # <<>>
         THEN /\ batch' = [batch EXCEPT ![o] = acc.ready]
              /\ pc' = [pc EXCEPT ![o] = "append"]
              /\ UNCHANGED <<st, done>>
         ELSE /\ FinishWith(o, acc.status)
              /\ pc' = [pc EXCEPT ![o] = "returned"]
              /\ UNCHANGED batch

TryInsertMany(o) ==
    /\ o \in Inserter /\ pc[o] = "idle"
    /\ mu_free
    /\ IF InsertRefused(o)
         THEN /\ FinishWith(o, "Cancelled")
              /\ pc' = [pc EXCEPT ![o] = "returned"]
              /\ UNCHANGED <<incomplete, elements, input_index, batch>>
         ELSE Inserted(o, InsertAll(o))
    /\ UNCHANGED <<QueueRest, flagVars, mu, num, cancelled>>

\* Then, without mu_, TryEnqueueMany.
EnqueueReady(o) ==
    /\ o \in Inserter \ cancelled
    /\ Goto(o, "append", "flush")
    /\ PQEnqueueMany(o, batch[o])
    /\ batch' = [batch EXCEPT ![o] = <<>>]
    /\ UNCHANGED <<barrierVars, mu, num, cancelled, done>>

(***************************************************************************)
(* TryTakeMany.                                                            *)
(***************************************************************************)
Minimum(a, b) == IF a < b THEN a ELSE b
Maximum(a, b) == IF a < b THEN b ELSE a

\* num_elements_to_deliver and available_elements of a closed barrier.
Deliver(o) ==
    IF closed /\ o \in Small THEN Minimum(Want[o], Cardinality(queue)) ELSE Want[o]
AvailableElements(o) ==
    Cardinality(queue) + (IF o \in Small THEN 0 ELSE Cardinality(DOMAIN incomplete))

\* A TakeMany that finds nothing fails, and never asks for nothing.
Required(o) == Maximum(Deliver(o), 1)

TryTakeMany(o) ==
    /\ o \in Taker /\ pc[o] = "idle"
    /\ mu_free
    /\ closed => queue_mu_free
    /\ IF closed /\ AvailableElements(o) < Required(o)
         THEN /\ FinishWith(o, "OutOfRange")
              /\ pc' = [pc EXCEPT ![o] = "returned"]
              /\ UNCHANGED num
         ELSE /\ num' = [num EXCEPT ![o] = Deliver(o)]
              /\ pc' = [pc EXCEPT ![o] = "append"]
              /\ UNCHANGED <<st, done>>
    /\ UNCHANGED <<QueueRest, barrierVars, mu, batch, cancelled>>

\* Then, without mu_, TryDequeueMany.
DequeueReady(o) ==
    /\ o \in Taker \ cancelled
    /\ Goto(o, "append", "flush")
    /\ PQDequeueMany(o, num[o])
    /\ UNCHANGED <<barrierVars, mu, batch, num, cancelled, done>>

\* Either of them finds that its step is cancelled.
TooLate(o) ==
    /\ o \in cancelled
    /\ queue_mu_free
    /\ Goto(o, "append", "returned")
    /\ FinishWith(o, "Cancelled")
    /\ UNCHANGED <<QueueRest, barrierVars, mu, batch, num, cancelled>>

(***************************************************************************)
(* Close.                                                                  *)
(***************************************************************************)

\* What CloseQueueLocked does: it runs the callback, or closes ready_queue_,
\* or, if somebody else has closed that, neither.
CloseQueue(cancel) ==
    IF (~cancel /\ queue_closed) \/ (cancel /\ queue_cancelled) THEN "callback"
    ELSE IF ~queue_is_closed THEN "close" ELSE "nothing"

AlreadyClosed(cancel) == closed /\ (cancel_pending_enqueues \/ ~cancel)

Cleared_Always(closes) == <<>>
Cleared(closes) == IF closes THEN <<>> ELSE incomplete

CloseAgain(o) ==
    /\ o \in Closer
    /\ mu_free
    /\ Goto(o, "idle", "returned")
    /\ AlreadyClosed(o \in CancelCloser)
    /\ FinishWith(o, "Cancelled")
    /\ UNCHANGED <<QueueRest, barrierVars, mu, batch, num, cancelled>>

\* With tuples that are still incomplete the queue stays open.
Close(o) ==
    /\ o \in Closer /\ pc[o] = "idle"
    /\ mu_free
    /\ LET cancel == o \in CancelCloser
           closes == cancel \/ DOMAIN incomplete = {}
       IN  /\ ~AlreadyClosed(cancel)
           /\ cancel_pending_enqueues' = cancel
           /\ closed' = TRUE
           /\ incomplete' = Cleared(closes)
           /\ queue_closed' = (queue_closed \/ (closes /\ CloseQueue(cancel) # "callback"))
           /\ queue_cancelled' = (queue_cancelled \/ cancel)
           /\ closes => queue_mu_free
           /\ IF closes /\ CloseQueue(cancel) = "close"
                THEN mu' = o /\ pc' = [pc EXCEPT ![o] = "close"] /\ UNCHANGED done
                ELSE /\ pc' = [pc EXCEPT ![o] = "returned"]
                     /\ IF closes /\ CloseQueue(cancel) = "nothing"
                          THEN UNCHANGED done ELSE Finish(o)
                     /\ UNCHANGED mu
    /\ UNCHANGED <<pqVars, input_index, elements, batch, num, cancelled>>

\* ready_queue_->Close, with mu_ held.  The callbacks of the enqueues it
\* cancels do not ask for mu_.
CloseReadyQueue(o) ==
    /\ o \in Closer
    /\ Goto(o, "close", "flush")
    /\ IF o \in CancelCloser
         THEN /\ PQCloseAndCancel
              /\ done' = [x \in Op |-> IF x \in OpsOf(enq) THEN done[x] + 1 ELSE done[x]]
         ELSE PQClose(o) /\ UNCHANGED done
    /\ UNCHANGED <<barrierVars, mu, batch, num, cancelled>>

(***************************************************************************)
(* FlushUnlocked, by any thread, and the callbacks it runs.                *)
(***************************************************************************)
FlushLock(t) ==
    /\ Goto(t, "flush", "flushing")
    /\ PQLock(t)
    /\ UNCHANGED <<barrierVars, mu, batch, num, cancelled, done>>

FlushAttempt(t) ==
    /\ EnqueueAttempt(t) \/ DequeueFails(t) \/ DequeueTakes(t)
    /\ UNCHANGED <<barrierVars, mu, pc, batch, num, cancelled, done>>

FlushUnlock(t) ==
    /\ Goto(t, "flushing", "cleanup")
    /\ PQUnlock(t)
    /\ UNCHANGED <<barrierVars, mu, batch, num, cancelled, done>>

\* The callback of a TakeMany, of a Close and of an InsertMany that failed
\* runs without more ado.  That of an InsertMany that succeeded takes mu_, and
\* closes the queue if queue_closed_ says that it is closed: it never does.
NeedsMu_Always(o) == o \in Inserter
NeedsMu(o) == o \in Inserter /\ st[o] = "ok"

RunCallback(t) ==
    /\ pc[t] = "cleanup" /\ clean_up[t] # <<>>
    /\ LET o == Head(clean_up[t]) IN
         /\ NeedsMu(o) => mu_free /\ queue_mu_free
         /\ Finish(o)
    /\ clean_up' = [clean_up EXCEPT ![t] = Tail(@)]
    /\ UNCHANGED <<queue, queue_is_closed, enq, deq, queue_mu, st, got, barrierVars,
                   mu, pc, batch, num, cancelled>>

\* FlushUnlocked returns; a Close releases mu_, one that cancels after having
\* run its own callback.
FlushReturn(t) ==
    /\ clean_up[t] = <<>>
    /\ Goto(t, "cleanup", "returned")
    /\ mu' = IF mu = t THEN Nobody ELSE mu
    /\ IF t \in CancelCloser THEN Finish(t) ELSE UNCHANGED done
    /\ UNCHANGED <<pqVars, barrierVars, batch, num, cancelled>>

(***************************************************************************)
(* Cancellation of a step: QueueBase::Cancel, and a flush.                 *)
(***************************************************************************)
CancelStep_NoFlush(c) ==
    /\ c \in Canceller /\ Goto(c, "idle", "returned")
    /\ queue_mu_free
    /\ cancelled' = cancelled \cup {Victim[c]}
    /\ IF Victim[c] \in OpsOf(enq) \cup OpsOf(deq)
         THEN PQCancel(Victim[c]) /\ Finish(Victim[c])
         ELSE UNCHANGED <<pqVars, done>>
    /\ UNCHANGED <<barrierVars, mu, batch, num>>
CancelStep(c) ==
    /\ c \in Canceller /\ pc[c] = "idle"
    /\ queue_mu_free
    /\ cancelled' = cancelled \cup {Victim[c]}
    /\ IF Victim[c] \in OpsOf(enq) \cup OpsOf(deq)
         THEN /\ PQCancel(Victim[c])
              /\ Finish(Victim[c])
              /\ pc' = [pc EXCEPT ![c] = "flush"]
         ELSE pc' = [pc EXCEPT ![c] = "returned"] /\ UNCHANGED <<pqVars, done>>
    /\ UNCHANGED <<barrierVars, mu, batch, num>>

(***************************************************************************)
(* The specification.                                                      *)
(***************************************************************************)
Call(o) == TryInsertMany(o) \/ TryTakeMany(o) \/ CloseAgain(o) \/ Close(o)

Step(t) ==
    \/ EnqueueReady(t) \/ DequeueReady(t) \/ TooLate(t) \/ CloseReadyQueue(t)
    \/ FlushLock(t) \/ FlushAttempt(t) \/ FlushUnlock(t) \/ RunCallback(t) \/ FlushReturn(t)

Next ==
    \/ \E o \in Op : Call(o)
    \/ \E t \in Thread : Step(t)
    \/ \E c \in Canceller : CancelStep(c)

\* A thread that has started goes on unless it waits for a mutex.
Fairness == \A t \in Thread : WF_vars(Step(t))

Spec == Init /\ [][Next]_vars /\ Fairness

(***************************************************************************)
(* Properties.                                                             *)
(***************************************************************************)
Count(S)  == Cardinality(S)
NotCalled == {"absent", "idle"}

\* In how many places a tuple is: still incomplete, on its way to the queue,
\* in it, with a TakeMany that waits for more, or handed out.
Places(e) ==
    Count({k \in DOMAIN incomplete : incomplete[k].element = e})
    + Count({o \in Inserter : e \in Range(batch[o]) /\ pc[o] = "append"})
    + Count({i \in 1..Len(enq) : e \in Range(enq[i].batch)})
    + Count({x \in queue : x = e})
    + Count({i \in 1..Len(deq) : e \in Range(deq[i].tuple)})
    + Count({o \in Taker : e \in Range(got[o])})

\* No tuple is ever in two places, and one is gone only for one of three
\* reasons: an InsertMany of its key ended with an error after it had
\* completed it (the ready_tuples of the batch are dropped), a Close that
\* cancels cleared incomplete_, or a TakeMany with allow_small_batch that was
\* waiting when the queue was closed took it and then failed with OutOfRange.
AccountedFor ==
    \A e \in elements :
        \/ Places(e) = 1
        \/ /\ Places(e) = 0
           /\ \/ \E o \in Inserter : st[o] # "ok" /\ e.key \in Range(Keys[o])
              \/ queue_cancelled
              \/ \E o \in Small : st[o] = "OutOfRange"

\* The index of a tuple names the InsertMany that began it, except that a
\* batch that failed half way shares its index with the next one.
IndexNamesBatch ==
    \A e, f \in elements :
        e.by # f.by /\ st[e.by] = "ok" /\ st[f.by] = "ok" => e.index # f.index

\* A TakeMany that succeeds has its number of different tuples, oldest batch
\* first, although completions, takes and the close of the queue interleave.
TakesAreSorted ==
    /\ IndexNamesBatch
    /\ \A o \in Taker :
         done[o] = 1 /\ st[o] = "ok" =>
             /\ Len(got[o]) = num[o]
             /\ \A i, j \in 1..Len(got[o]) :
                  i < j => got[o][i].index <= got[o][j].index /\ got[o][i] # got[o][j]

\* A complete tuple never stays behind in incomplete_: it would count as one a
\* TakeMany may wait for, and keep the queue from being closed.
IncompleteIsIncomplete ==
    \A k \in DOMAIN incomplete :
        /\ incomplete[k].element.key = k
        /\ incomplete[k].have # {} /\ incomplete[k].have # Component

\* Every tuple is where its components say: incomplete, or in one place.
TuplesAccountedFor == TypeOK /\ IncompleteIsIncomplete /\ AccountedFor

\* No wakeup is lost: when nobody is about to flush, no enqueue waits, and the
\* TakeMany at the front has to.
NoLostWakeup ==
    (\A t \in Thread : pc[t] \notin {"flush", "flushing"}) =>
        /\ enq = <<>>
        /\ deq # <<>> => ~queue_is_closed /\ Count(queue) < Head(deq).requested

\* Where the callback of an operation waits to be run.
Holds(o) ==
    (IF pc[o] \in {"append", "close"} THEN 1 ELSE 0)
    + (IF o \in CancelCloser /\ pc[o] \in {"flush", "flushing", "cleanup"} THEN 1 ELSE 0)
    + Count({i \in 1..Len(enq) : enq[i].op = o}) + Count({i \in 1..Len(deq) : deq[i].op = o})
    + Count({t \in Thread : o \in Range(clean_up[t])})

\* A Close that cancels, after one that did not and has closed the queue.
SecondClose(o) ==
    /\ o \in CancelCloser
    /\ \E p \in Closer \ CancelCloser : pc[p] \notin NotCalled /\ st[p] = "ok"
    /\ queue_is_closed

\* The callback of every operation is in one place, or has run once; only that
\* of a second Close, which finds the queue closed, is forgotten.
DoneExactlyOnce ==
    \A o \in Op :
        \/ Holds(o) + done[o] = IF pc[o] \in NotCalled THEN 0 ELSE 1
        \/ Holds(o) + done[o] = 0 /\ pc[o] = "returned" /\ SecondClose(o)

\* A thread that has to lock mu_ to run a callback, and has locked it already.
WaitsForItself(t) ==
    mu = t /\ pc[t] = "cleanup" /\ clean_up[t] # <<>> /\ NeedsMu(Head(clean_up[t]))

\* Only a Close without cancel_pending_enqueues can lock mu_ twice: its flush
\* has completed the attempt of an InsertMany that was about to flush itself.
OnlyPlainCloseWaitsForItself ==
    \A t \in Thread : WaitsForItself(t) => t \in Closer \ CancelCloser

\* Unless that happens every operation is finished once the queue is closed,
\* except for the Close that is forgotten.
EveryOpFinishes ==
    \A o \in Op :
        (pc[o] \notin NotCalled /\ queue_is_closed)
          ~> (done[o] = 1 \/ SecondClose(o) \/ \E t \in Thread : WaitsForItself(t))

\* "Subsequent TakeMany operations that would block will fail immediately": a
\* TakeMany called after the Close does not wait any more once nobody is at work
\* and nothing is incomplete.
Quiet == \A t \in Thread : pc[t] \in NotCalled \cup {"returned"}
ClosedTakesFail ==
    \A o \in Taker :
        [](closed /\ pc[o] = "idle" =>
             [](Quiet /\ DOMAIN incomplete = {} => o \notin OpsOf(deq)))

\* "*Unless* allow_small_batch is true, in which case we return as many
\* elements as possible": a dequeue of a small batch fails empty-handed only.
SmallBatchIsReturned ==
    \A t \in Thread : \A o \in Small :
        queue_mu = t /\ deq # <<>> /\ Head(deq).op = o /\ Insufficient(Head(deq))
          => Head(deq).tuple = <<>>
=============================================================================
