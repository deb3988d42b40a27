-------------------------- MODULE FIFOQueueProofs ---------------------------
(***************************************************************************)
(* Proofs about QueueBase and FIFOQueue, for any number of operations,     *)
(* batch sizes, managers and any capacity: the capacity is kept, no        *)
(* attempt that can move is left behind, every done callback runs once,    *)
(* batches are full, and elements leave in the order in which they came.   *)
(*                                                                         *)
(* The invariant is proved in four layers, each using the ones before it:  *)
(* BaseInv (types, attempts, who flushes) with WakeInv and CapacityInv;    *)
(* Places (where a done callback is); RunsInv (what an operation is        *)
(* finished with, and who runs its callback); DataInv (the history of the  *)
(* elements).                                                              *)
(***************************************************************************)
EXTENDS FIFOQueue, SubsequenceProofs, FiniteSetTheorems

(***************************************************************************)
(* The parts of the inductive invariant.                                   *)
(***************************************************************************)

\* Where an operation is that its client has not called.
NotCalled == {"absent", "idle"}

\* Operation o is in one of the lists of f.
Listed(f, o) == \E t \in Thread : \E i \in 1..Len(f[t]) : f[t][i] = o

\* An attempt of o is in the queue of attempts.
On(attempts, o) == \E i \in 1..Len(attempts) : attempts[i].op = o

\* What an attempt still wants, and what it has, make up its batch.
EnqueueAttemptOK(a) ==
    \/ a.op \in Enqueuer /\ a.requested \in 1..Num[a.op]
    \/ a.op \in Closer \ CancelCloser /\ a.requested = 0

DequeueAttemptOK(a) ==
    /\ a.op \in Dequeuer
    /\ a.requested \in 1..Num[a.op]
    /\ Len(a.tuple) + a.requested = Num[a.op]

\* Only the dequeue at the front has collected anything.
AttemptInv ==
    /\ \A i \in 1..Len(enq) : EnqueueAttemptOK(enq[i])
    /\ \A i \in 1..Len(deq) : DequeueAttemptOK(deq[i])
    /\ \A i \in 1..Len(deq) : i # 1 => deq[i].tuple = <<>>

\* The thread in FlushUnlocked's critical section, and whose local lists are
\* in use.
FlushInv ==
    /\ \A t \in Thread : pc[t] = "flushing" <=> holder = t
    /\ \A t \in Thread : to_call[t] # <<>> => pc[t] = "flush"
    /\ \A t \in Thread : clean_up[t] # <<>> => pc[t] \in {"flushing", "cleanup", "blocked"}
    /\ \A t \in Thread : pc[t] = "blocked" => clean_up[t] # <<>>
    /\ \A t \in Thread : pc[t] \in {"next", "notify"} => t \in CM

\* The attempt at the front has to wait.
EnqueueWaits ==
    enq # <<>> => ~Head(enq).cancelled /\ ~closed /\ Len(buffer) >= capacity
DequeueWaits ==
    deq # <<>> => ~Head(deq).cancelled /\ ~closed /\ buffer = <<>>

\* A thread that has come to the dequeues, and has changed nothing since it
\* began, leaves an enqueue behind that has to wait; when the lock is free
\* nobody can move, or somebody is going to flush.
WakeInv ==
    /\ holder # Nobody /\ action = "kDequeue" /\ ~changed => EnqueueWaits
    /\ holder = Nobody => \/ \E t \in Thread : pc[t] = "flush"
                          \/ EnqueueWaits /\ DequeueWaits

CapacityInv == Len(buffer) <= capacity \/ closed

\* An operation that has been called has one attempt, and is in one list once.
Called(o) == pc[o] \notin NotCalled
OpsApart(attempts) ==
    \A i, j \in 1..Len(attempts) : attempts[i].op = attempts[j].op => i = j
AttemptsApart ==
    /\ OpsApart(enq) /\ OpsApart(deq)
    /\ \A o \in Op : On(enq, o) \/ On(deq, o) => Called(o)

ListedOnce(f) ==
    \A t, u \in Thread : \A i \in 1..Len(f[t]), j \in 1..Len(f[u]) :
        f[t][i] = f[u][j] => t = u /\ i = j

\* The done callback of o is with a live attempt.
Pending(o) == IsLive(enq, o) \/ IsLive(deq, o)

\* The four places where a done callback is, or was.
PlaceInv ==
    /\ ListedOnce(to_call) /\ ListedOnce(clean_up)
    /\ \A o \in Op : Listed(to_call, o) \/ Listed(clean_up, o) => o \notin CancelCloser
    /\ \A o \in Op \ CancelCloser :
         /\ done[o] \in {0, 1}
         /\ Pending(o) => done[o] = 0 /\ ~Listed(to_call, o) /\ ~Listed(clean_up, o)
         /\ Listed(to_call, o) => done[o] = 0 /\ ~Listed(clean_up, o)
         /\ Listed(clean_up, o) => done[o] = 0
         /\ Called(o) <=>
              Pending(o) \/ Listed(to_call, o) \/ Listed(clean_up, o) \/ done[o] = 1

\* The manager c has begun to cancel.
Cancels(c) == is_cancelling[c] \/ is_cancelled[c]

\* The callbacks of a manager are tokens it issued, to operations that have been
\* called, and are gone once it cancels.
ManagerInv ==
    /\ \A c \in CM : Cancels(c) => callbacks[c] = {}
    /\ \A c \in CM : notified[c] => is_cancelled[c]
    /\ \A c \in CM : callbacks_to_run[c] # {} => is_cancelling[c]
    /\ \A c \in CM : \A o \in callbacks[c] \cup callbacks_to_run[c] :
         CMOf[o] = c /\ Called(o)

\* Who runs the callback of a cancelled operation: the manager of its step, or
\* a Close.
InList(f, t, o) == \E i \in 1..Len(f[t]) : f[t][i] = o
CalledInv ==
    \A t \in Thread : \A o \in Op :
        InList(to_call, t, o) =>
            /\ st[o] = "Cancelled"
            /\ \/ t \in CM /\ o \in Token /\ CMOf[o] = t /\ Cancels(t)
               \/ t \in CancelCloser /\ o \notin Dequeuer

\* What a dequeue is finished with.
FullBatch(o) ==
    \/ Len(got[o]) = Num[o]
    \/ o \in UpTo /\ closed /\ Len(got[o]) \in 1..Num[o]
Finished(o) == Listed(clean_up, o) \/ done[o] = 1
BatchInv ==
    \A o \in Dequeuer : /\ ~Called(o) => got[o] = <<>>
                        /\ Finished(o) /\ st[o] = "ok" => FullBatch(o)

\* The elements of an EnqueueMany that are in the history h: the first so many.
MineIn(h, o) == Keep(h, {o} \X (Nat \ {0}))
InOrder(h, o) == \A i \in 1..Len(MineIn(h, o)) : MineIn(h, o)[i] = <<o, i>>
HistoryInv == Distinct(pushed) /\ \A o \in Enqueuer : InOrder(pushed, o)

\* How many those are: none before the call, the rest of the batch is with the
\* attempt, and all of them when the operation is finished without an error.
PushedBy(o) == Len(MineIn(pushed, o))
ProgressInv ==
    \A i \in 1..Len(enq) :
        enq[i].op \in Enqueuer => PushedBy(enq[i].op) = Num[enq[i].op] - enq[i].requested
AllPushedInv ==
    \A o \in Enqueuer : /\ ~Called(o) => PushedBy(o) = 0
                        /\ Finished(o) /\ st[o] = "ok" => PushedBy(o) = Num[o]

\* What is lost had been pushed.
LostInv == \A e \in lost : \E i \in 1..Len(pushed) : pushed[i] = e

OrderInv == popped \o Partial \o buffer = Keep(pushed, Element \ lost)

(***************************************************************************)
(* What one call of a run_callback does.                                   *)
(***************************************************************************)

\* The status of an operation.
Status == {"ok", "Cancelled", "OutOfRange"}

\* What TryEnqueueMany and Close may assume of the queue.
BufferOK == buffer \in Seq(Element) /\ closed \in BOOLEAN

\* The fields of an attempt.
LEMMA AttemptFields ==
  ASSUME NEW a \in Attempt
  PROVE  /\ a.op \in Op /\ a.requested \in Nat /\ a.cancelled \in BOOLEAN
         /\ a.tuple \in Seq(Element)
  BY DEF Attempt

\* An attempt with another number of elements to go.
LEMMA AttemptRequested ==
  ASSUME NEW a \in Attempt, NEW n \in Nat
  PROVE  /\ [a EXCEPT !.requested = n] \in Attempt
         /\ [a EXCEPT !.requested = n].op = a.op
         /\ [a EXCEPT !.requested = n].requested = n
         /\ [a EXCEPT !.requested = n].cancelled = a.cancelled
         /\ [a EXCEPT !.requested = n].tuple = a.tuple
  BY DEF Attempt

\* How many elements an enqueue puts in.
Puts(a) == IF a.op \in Closer \/ Refused(a) THEN 0
           ELSE IF Room < a.requested THEN Room ELSE a.requested

\* An attempt to enqueue puts in the next elements of its batch, as many as
\* there is room for, and waits only if there is none.
LEMMA RunEnqueueFacts ==
  ASSUME NEW a \in Attempt, EnqueueAttemptOK(a), BufferOK
  PROVE  /\ Puts(a) \in Nat /\ Puts(a) <= a.requested /\ Puts(a) <= Room
         /\ RunEnqueue(a).attempt \in Attempt
         /\ RunEnqueue(a).attempt.op = a.op
         /\ RunEnqueue(a).attempt.requested = a.requested - Puts(a)
         /\ RunEnqueue(a).attempt.cancelled = a.cancelled
         /\ RunEnqueue(a).attempt.tuple = a.tuple
         /\ RunEnqueue(a).pushes \in Seq(Element)
         /\ Len(RunEnqueue(a).pushes) = Puts(a)
         /\ \A i \in 1..Puts(a) :
              RunEnqueue(a).pushes[i] = <<a.op, Num[a.op] - a.requested + i>>
         /\ RunEnqueue(a).closes = (a.op \in Closer)
         /\ RunEnqueue(a).status = IF closed THEN "Cancelled" ELSE "ok"
         /\ RunEnqueue(a).result = "kComplete" => Puts(a) = a.requested \/ closed
         /\ RunEnqueue(a).result # "kComplete" =>
              /\ ~closed /\ a.op \in Enqueuer
              /\ EnqueueAttemptOK(RunEnqueue(a).attempt)
         /\ RunEnqueue(a).result \in {"kComplete", "kProgress", "kNoProgress"}
         /\ RunEnqueue(a).result = "kNoProgress" =>
              Puts(a) = 0 /\ Len(buffer) >= capacity /\ ~closed
  <1> USE QueueAssumption
  <1>1. /\ a.op \in Op /\ a.requested \in Nat /\ a.tuple \in Seq(Element)
        /\ Len(buffer) \in Nat /\ capacity \in Nat
    <2>1. buffer \in Seq(Element)
      BY DEF BufferOK
    <2>2. Len(buffer) \in Nat
      BY <2>1, LenProperties
    <2> QED
      BY <2>2, AttemptFields
  <1>2. Room \in Nat /\ (Room = 0 => Len(buffer) >= capacity)
    BY <1>1 DEF Room
  <1>3. Puts(a) \in Nat /\ Puts(a) <= a.requested /\ Puts(a) <= Room
    BY <1>1, <1>2 DEF Puts
  <1>4. a.requested - Puts(a) \in Nat
    BY <1>1, <1>3
  <1> DEFINE r == RunEnqueue(a)
             n == Puts(a)
  <1>5. /\ r.attempt = [a EXCEPT !.requested = a.requested - n]
        /\ r.pushes = [i \in 1..n |-> <<a.op, NextIndex(a) + i - 1>>]
        /\ r.closes = (a.op \in Closer)
        /\ r.result = IF Refused(a) THEN "kComplete" ELSE Progress(n, a.requested)
        /\ r.status = IF closed THEN "Cancelled" ELSE "ok"
    BY DEF RunEnqueue, Puts
  <1> HIDE DEF r, n
  <1>6. /\ r.attempt \in Attempt /\ r.attempt.op = a.op /\ r.attempt.requested = a.requested - n
        /\ r.attempt.cancelled = a.cancelled /\ r.attempt.tuple = a.tuple
    BY <1>4, <1>5, AttemptRequested DEF n
  <1>7. n # 0 => a.op \in Enqueuer /\ a.requested \in 1..Num[a.op] /\ Num[a.op] \in Nat
    BY <1>1 DEF n, Puts, EnqueueAttemptOK, Op
  <1>8. ASSUME NEW i \in 1..n
        PROVE  /\ NextIndex(a) + i - 1 = Num[a.op] - a.requested + i
               /\ <<a.op, NextIndex(a) + i - 1>> \in Element
    <2>1. n \in Nat /\ n # 0 /\ i \in Nat \ {0}
      BY <1>3 DEF n
    <2>2. a.op \in Enqueuer /\ a.requested \in 1..Num[a.op] /\ Num[a.op] \in Nat
      BY <2>1, <1>7
    <2>3. /\ NextIndex(a) + i - 1 = Num[a.op] - a.requested + i
          /\ Num[a.op] - a.requested + i \in Nat \ {0}
      BY <2>1, <2>2 DEF NextIndex
    <2> QED
      BY <2>2, <2>3 DEF Element
  <1>9. /\ r.pushes \in Seq(Element) /\ Len(r.pushes) = n
        /\ \A i \in 1..n : r.pushes[i] = <<a.op, Num[a.op] - a.requested + i>>
    <2>1. n \in Nat
      BY <1>3 DEF n
    <2>2. \A i \in 1..n : r.pushes[i] = <<a.op, Num[a.op] - a.requested + i>>
      BY <1>5, <1>8
    <2>3. r.pushes \in [1..n -> Element]
      BY <1>5, <1>8
    <2> QED
      BY <2>1, <2>2, <2>3
  <1>10. r.result = "kComplete" => n = a.requested \/ closed
    BY <1>5 DEF Progress, Refused
  <1>11. r.result # "kComplete" => ~closed /\ a.op \in Enqueuer /\ EnqueueAttemptOK(r.attempt)
    <2> SUFFICES ASSUME r.result # "kComplete"
                 PROVE  ~closed /\ a.op \in Enqueuer /\ EnqueueAttemptOK(r.attempt)
      OBVIOUS
    <2>1. ~Refused(a) /\ n # a.requested
      BY <1>5 DEF Progress
    <2>2. a.op \notin Closer
      BY <2>1, <1>1 DEF EnqueueAttemptOK, n, Puts, Op
    <2>3. a.op \in Enqueuer /\ a.requested \in 1..Num[a.op] /\ Num[a.op] \in Nat
      BY <2>2, <1>1 DEF EnqueueAttemptOK, Op
    <2>4. ~closed
      BY <2>1, <2>3 DEF Refused
    <2>5. n \in Nat /\ n <= a.requested
      BY <1>3 DEF n
    <2>6. a.requested - n \in 1..Num[a.op]
      BY <2>1, <2>3, <2>5
    <2> QED
      BY <2>3, <2>4, <2>6, <1>6 DEF EnqueueAttemptOK
  <1>12. r.result \in {"kComplete", "kProgress", "kNoProgress"}
    BY <1>5 DEF Progress
  <1>13. r.result = "kNoProgress" => n = 0 /\ Len(buffer) >= capacity /\ ~closed
    <2> SUFFICES ASSUME r.result = "kNoProgress"
                 PROVE  n = 0 /\ Len(buffer) >= capacity /\ ~closed
      OBVIOUS
    <2>1. ~closed /\ a.op \in Enqueuer
      BY <1>11
    <2>2. n # a.requested /\ ~(n > 0)
      BY <1>5 DEF Progress
    <2>3. n = 0
      BY <2>2, <1>3 DEF n
    <2>4. a.op \notin Closer /\ ~Refused(a)
      BY <2>1 DEF Op, Refused
    <2>5. Room = 0
      BY <2>2, <2>3, <2>4 DEF n, Puts
    <2> QED
      BY <2>1, <2>3, <2>5, <1>2
  <1> QED
    BY <1>3, <1>5, <1>6, <1>9, <1>10, <1>11, <1>12, <1>13 DEF r, n

\* A sequence is its first n elements and the others.
LEMMA SplitSeq ==
  ASSUME NEW R, NEW s \in Seq(R), NEW n \in 0..Len(s)
  PROVE  /\ SubSeq(s, 1, n) \in Seq(R) /\ Len(SubSeq(s, 1, n)) = n
         /\ Remaining(s, n) \in Seq(R) /\ Len(Remaining(s, n)) = Len(s) - n
         /\ SubSeq(s, 1, n) \o Remaining(s, n) = s
  <1>1. Len(s) \in Nat /\ n \in Nat /\ n <= Len(s)
    OBVIOUS
  <1>2. \A i \in 1..Len(s) : s[i] \in R
    OBVIOUS
  <1>3. /\ SubSeq(s, 1, n) \in Seq(R) /\ Len(SubSeq(s, 1, n)) = n
    <2>1. \A i \in 1..n : s[i] \in R
      BY <1>1, <1>2
    <2>2. 1 \in Int /\ n \in Int /\ (1 <= n => n - 1 + 1 = n) /\ (~(1 <= n) => n = 0)
      BY <1>1
    <2> QED
      BY <2>1, <2>2, SubSeqProperties
  <1>4. /\ Remaining(s, n) \in Seq(R) /\ Len(Remaining(s, n)) = Len(s) - n
    <2>1. \A i \in (n + 1)..Len(s) : s[i] \in R
      BY <1>1, <1>2
    <2>2. /\ n + 1 \in Int /\ Len(s) \in Int
          /\ n + 1 <= Len(s) => Len(s) - (n + 1) + 1 = Len(s) - n
          /\ ~(n + 1 <= Len(s)) => Len(s) - n = 0
      BY <1>1
    <2> QED
      BY <2>1, <2>2, SubSeqProperties DEF Remaining
  <1>5. SubSeq(s, 1, n) \o SubSeq(s, n + 1, Len(s)) = SubSeq(s, 1, Len(s))
    <2>1. 1 \in 1..Len(s) + 1 /\ n \in 1 - 1..Len(s) /\ Len(s) \in n..Len(s)
      BY <1>1
    <2> QED
      BY <2>1, ConcatAdjacentSubSeq
  <1>6. SubSeq(s, 1, Len(s)) = s
    BY SubSeqFull
  <1> QED
    BY <1>3, <1>4, <1>5, <1>6 DEF Remaining

\* An attempt to dequeue only moves elements between the queue and its tuple:
\* it takes from the front, and gives them back to the front.
LEMMA RunDequeueFacts ==
  ASSUME NEW a \in Attempt, DequeueAttemptOK(a), BufferOK
  PROVE  /\ RunDequeue(a).attempt \in Attempt
         /\ RunDequeue(a).attempt.op = a.op
         /\ RunDequeue(a).attempt.cancelled = a.cancelled
         /\ RunDequeue(a).buffer \in Seq(Element)
         /\ RunDequeue(a).attempt.tuple \o RunDequeue(a).buffer = a.tuple \o buffer
         /\ RunDequeue(a).status \in Status
         /\ RunDequeue(a).result \in {"kComplete", "kProgress", "kNoProgress"}
         /\ closed \/ Len(RunDequeue(a).buffer) <= Len(buffer)
         /\ RunDequeue(a).result # "kComplete" => DequeueAttemptOK(RunDequeue(a).attempt)
         /\ RunDequeue(a).result = "kNoProgress" =>
              ~closed /\ buffer = <<>> /\ RunDequeue(a).buffer = <<>>
         /\ RunDequeue(a).result = "kComplete" /\ RunDequeue(a).status = "ok" =>
              \/ Len(RunDequeue(a).attempt.tuple) = Num[a.op]
              \/ /\ a.op \in UpTo /\ closed
                 /\ Len(RunDequeue(a).attempt.tuple) \in 1..Num[a.op]
  <1>1. /\ a.op \in Dequeuer /\ a.tuple \in Seq(Element) /\ buffer \in Seq(Element)
        /\ a.requested \in 1..Num[a.op] /\ Num[a.op] \in Nat
        /\ Len(a.tuple) + a.requested = Num[a.op]
    BY AttemptFields, QueueAssumption DEF DequeueAttemptOK, BufferOK
  <1>2. Len(a.tuple) \in Nat /\ Len(buffer) \in Nat /\ a.requested \in Nat \ {0}
    <2>1. Len(a.tuple) \in Nat /\ Len(buffer) \in Nat
      BY <1>1, LenProperties
    <2> QED
      BY <2>1, <1>1
  <1>3. /\ a.tuple \o buffer \in Seq(Element)
        /\ Len(a.tuple \o buffer) = Len(a.tuple) + Len(buffer)
    BY <1>1, ConcatProperties
  <1> DEFINE r == RunDequeue(a)
             Goal == /\ r.attempt \in Attempt
                     /\ r.attempt.op = a.op
                     /\ r.attempt.cancelled = a.cancelled
                     /\ r.buffer \in Seq(Element)
                     /\ r.attempt.tuple \o r.buffer = a.tuple \o buffer
                     /\ r.status \in Status
                     /\ r.result \in {"kComplete", "kProgress", "kNoProgress"}
                     /\ closed \/ Len(r.buffer) <= Len(buffer)
                     /\ r.result # "kComplete" => DequeueAttemptOK(r.attempt)
                     /\ r.result = "kNoProgress" => ~closed /\ buffer = <<>> /\ r.buffer = <<>>
                     /\ r.result = "kComplete" /\ r.status = "ok" =>
                          \/ Len(r.attempt.tuple) = Num[a.op]
                          \/ a.op \in UpTo /\ closed /\ Len(r.attempt.tuple) \in 1..Num[a.op]
  <1>4. CASE ~TooShort(a)
    <2> DEFINE n == IF Len(buffer) < a.requested THEN Len(buffer) ELSE a.requested
               s == SubSeq(buffer, 1, n)
    <2>1. n \in 0..Len(buffer) /\ n <= a.requested /\ a.requested - n \in Nat
      BY <1>2
    <2>2. /\ r.attempt = [a EXCEPT !.requested = a.requested - n, !.tuple = a.tuple \o s]
          /\ r.buffer = Remaining(buffer, n)
          /\ r.result = Progress(n, a.requested)
          /\ r.status = "ok"
      BY <1>4 DEF RunDequeue, Available
    <2>4. n < a.requested => n = Len(buffer)
      BY <1>2
    <2> HIDE DEF r, n
    <2>3. /\ s \in Seq(Element) /\ Len(s) = n
          /\ Remaining(buffer, n) \in Seq(Element) /\ Len(Remaining(buffer, n)) = Len(buffer) - n
          /\ s \o Remaining(buffer, n) = buffer
      <3>1. buffer \in Seq(Element) /\ n \in 0..Len(buffer)
        BY <2>1, <1>1
      <3> QED
        BY <3>1, SplitSeq
    <2> HIDE DEF s
    <2>5. a.tuple \o s \in Seq(Element) /\ Len(a.tuple \o s) = Len(a.tuple) + n
      <3>1. a.tuple \in Seq(Element) /\ s \in Seq(Element) /\ Len(s) = n
        BY <1>1, <2>3
      <3> QED
        BY <3>1, ConcatProperties
    <2>6. /\ r.attempt \in Attempt /\ r.attempt.op = a.op /\ r.attempt.cancelled = a.cancelled
          /\ r.attempt.requested = a.requested - n /\ r.attempt.tuple = a.tuple \o s
      <3>1. a.requested - n \in Nat /\ a.tuple \o s \in Seq(Element)
        BY <2>1, <2>5
      <3> DEFINE m == a.requested - n
                 u == a.tuple \o s
      <3>2. r.attempt = [a EXCEPT !.requested = m, !.tuple = u] /\ m \in Nat /\ u \in Seq(Element)
        BY <2>2, <3>1
      <3> HIDE DEF m, u
      <3>3. /\ r.attempt \in Attempt /\ r.attempt.op = a.op /\ r.attempt.cancelled = a.cancelled
            /\ r.attempt.requested = m /\ r.attempt.tuple = u
        BY <3>2 DEF Attempt
      <3> QED
        BY <3>3 DEF m, u
    <2>7. r.attempt.tuple \o r.buffer = a.tuple \o buffer
      <3>1. (a.tuple \o s) \o Remaining(buffer, n) = a.tuple \o (s \o Remaining(buffer, n))
        <4>1. /\ a.tuple \in Seq(Element) /\ s \in Seq(Element)
              /\ Remaining(buffer, n) \in Seq(Element)
          BY <1>1, <2>3
        <4>2. \A x, y, z \in Seq(Element) : (x \o y) \o z = x \o (y \o z)
          BY ConcatAssociative
        <4> QED
          BY <4>1, <4>2, Zenon
      <3> QED
        BY <3>1, <2>2, <2>3, <2>6
    <2>8. Len(r.buffer) <= Len(buffer)
      BY <1>2, <2>1, <2>2, <2>3
    <2>9. r.result \in {"kComplete", "kProgress", "kNoProgress"}
      BY <2>2 DEF Progress
    <2>10. r.result # "kComplete" => DequeueAttemptOK(r.attempt)
      <3> SUFFICES ASSUME r.result # "kComplete" PROVE DequeueAttemptOK(r.attempt)
        OBVIOUS
      <3>1. n # a.requested
        BY <2>2 DEF Progress
      <3>2. r.attempt.requested \in 1..Num[a.op]
        BY <3>1, <2>1, <2>6, <1>1, <1>2
      <3>3. Len(r.attempt.tuple) + r.attempt.requested = Num[a.op]
        BY <2>1, <2>5, <2>6, <1>1, <1>2
      <3> QED
        BY <3>2, <3>3, <2>6, <1>1 DEF DequeueAttemptOK
    <2>11. r.result = "kNoProgress" => ~closed /\ buffer = <<>> /\ r.buffer = <<>>
      <3> SUFFICES ASSUME r.result = "kNoProgress"
                   PROVE  ~closed /\ buffer = <<>> /\ r.buffer = <<>>
        OBVIOUS
      <3>1. n # a.requested /\ ~(n > 0)
        BY <2>2 DEF Progress
      <3>2. n = 0 /\ Len(buffer) = 0 /\ Len(r.buffer) = 0
        BY <3>1, <2>1, <2>2, <2>3, <2>4, <1>2
      <3>3. ~closed
        BY <3>2, <1>2, <1>4 DEF TooShort
      <3>4. r.buffer \in Seq(Element)
        BY <2>2, <2>3
      <3> QED
        BY <3>2, <3>3, <3>4, <1>1, EmptySeq
    <2>12. r.result = "kComplete" => Len(r.attempt.tuple) = Num[a.op]
      <3> SUFFICES ASSUME r.result = "kComplete" PROVE Len(r.attempt.tuple) = Num[a.op]
        OBVIOUS
      <3>1. n = a.requested
        BY <2>2 DEF Progress
      <3> QED
        BY <3>1, <2>5, <2>6, <1>1
    <2>13. r.buffer \in Seq(Element) /\ r.status \in Status
      BY <2>2, <2>3 DEF Status
    <2> QED
      BY <2>6, <2>7, <2>8, <2>9, <2>10, <2>11, <2>12, <2>13 DEF r
  <1>5. CASE TooShort(a)
    <2> DEFINE avail == a.tuple \o buffer
               small == a.op \in UpTo /\ avail # <<>>
               yield == a.op \in UpTo /\ enq # <<>>
    <2>0. closed /\ Len(buffer) < a.requested /\ Available(a) = avail
      BY <1>5 DEF TooShort, Available
    <2>1. CASE small
      <3>1. /\ r.attempt = [a EXCEPT !.requested = Len(avail) - Len(avail),
                                     !.tuple = <<>> \o SubSeq(avail, 1, Len(avail))]
            /\ r.buffer = Remaining(avail, Len(avail))
            /\ r.result = Progress(Len(avail), Len(avail))
            /\ r.status = "ok"
        <4>1. Len(avail) \in Nat /\ ~(Len(avail) < Len(avail))
          BY <1>2, <1>3
        <4> QED
          BY <4>1, <1>5, <2>0, <2>1 DEF RunDequeue
      <3> DEFINE v == avail
      <3>2. v = a.tuple \o buffer /\ v # <<>> /\ v \in Seq(Element) /\ Len(v) = Len(a.tuple) + Len(buffer)
        BY <1>3, <2>1
      <3> HIDE DEF v
      <3>3. Len(v) \in 0..Len(v) /\ Len(v) \in Nat /\ Len(v) - Len(v) = 0
        BY <3>2, <1>2
      <3>4. /\ SubSeq(v, 1, Len(v)) = v
            /\ Remaining(v, Len(v)) \in Seq(Element) /\ Len(Remaining(v, Len(v))) = 0
        <4>1. v \in Seq(Element) /\ Len(v) \in 0..Len(v) /\ Len(v) - Len(v) = 0
          BY <3>2, <3>3
        <4>2. SubSeq(v, 1, Len(v)) = v
          BY <4>1, SubSeqFull
        <4>3. Remaining(v, Len(v)) \in Seq(Element) /\ Len(Remaining(v, Len(v))) = Len(v) - Len(v)
          BY <4>1, SplitSeq
        <4> QED
          BY <4>1, <4>2, <4>3
      <3>5. <<>> \o v = v /\ Remaining(v, Len(v)) = <<>> /\ v \o <<>> = v
        BY <3>2, <3>4, ConcatEmptySeq, EmptySeq
      <3>6. /\ r.attempt \in Attempt /\ r.attempt.op = a.op /\ r.attempt.cancelled = a.cancelled
            /\ r.attempt.tuple = v
        <4>1. r.attempt = [a EXCEPT !.requested = 0, !.tuple = v]
          BY <3>1, <3>3, <3>4, <3>5 DEF v
        <4>2. 0 \in Nat /\ v \in Seq(Element)
          BY <3>2
        <4> HIDE DEF r
        <4> QED
          BY <4>1, <4>2 DEF Attempt
      <3>7. r.buffer = <<>> /\ r.result = "kComplete" /\ r.status = "ok"
        BY <3>1, <3>5 DEF v, Progress
      <3>8. Len(v) \in 1..Num[a.op]
        BY <3>2, <3>3, <2>0, <1>1, <1>2, EmptySeq
      <3>9. Len(r.buffer) <= Len(buffer)
        BY <3>7, <1>2
      <3> QED
        BY <3>2, <3>5, <3>6, <3>7, <3>8, <2>0, <2>1 DEF r, Status
    <2>2. CASE ~small /\ yield
      <3>1. /\ r.attempt = a /\ r.buffer = avail
            /\ r.result = "kProgress" /\ r.status = "ok"
        BY <1>5, <2>0, <2>2 DEF RunDequeue
      <3>2. avail = <<>>
        BY <2>2
      <3>3. a.tuple = <<>> /\ buffer = <<>>
        BY <3>2, <1>1, ConcatEqualIffEmpty
      <3> QED
        BY <3>1, <3>2, <3>3, <1>1, <2>0 DEF r, Status
    <2>3. CASE ~small /\ ~yield
      <3>1. /\ r.attempt = [a EXCEPT !.tuple = <<>>] /\ r.buffer = avail
            /\ r.result = "kComplete" /\ r.status = "OutOfRange"
        BY <1>5, <2>0, <2>3 DEF RunDequeue
      <3>2. /\ r.attempt \in Attempt /\ r.attempt.op = a.op /\ r.attempt.cancelled = a.cancelled
            /\ r.attempt.tuple = <<>>
        <4>1. r.attempt = [a EXCEPT !.tuple = <<>>] /\ <<>> \in Seq(Element)
          BY <3>1
        <4> HIDE DEF r
        <4> QED
          BY <4>1 DEF Attempt
      <3>3. <<>> \o avail = avail
        BY <1>3, ConcatEmptySeq
      <3> QED
        BY <3>1, <3>2, <3>3, <1>3, <2>0 DEF r, Status
    <2> QED
      BY <2>1, <2>2, <2>3
  <1>6. Goal
    BY <1>4, <1>5
  <1> QED
    BY <1>6

(***************************************************************************)
(* The attempt at the front, and what its run leaves of the queue of       *)
(* attempts.                                                               *)
(***************************************************************************)

\* A sequence without its head.
LEMMA TailView ==
  ASSUME NEW R, NEW s \in Seq(R), s # <<>>
  PROVE  /\ Head(s) = s[1] /\ Head(s) \in R /\ 1 \in 1..Len(s)
         /\ Tail(s) \in Seq(R) /\ Len(Tail(s)) \in Nat
         /\ \A i \in 1..Len(Tail(s)) : i + 1 \in 1..Len(s) /\ Tail(s)[i] = s[i + 1]
         /\ \A i \in 1..Len(s) : i # 1 => i - 1 \in 1..Len(Tail(s)) /\ Tail(s)[i - 1] = s[i]
  <1>1. Len(s) \in Nat \ {0}
    BY EmptySeq
  <1>2. /\ Head(s) \in R /\ Tail(s) \in Seq(R) /\ Len(Tail(s)) = Len(s) - 1
        /\ \A i \in 1..Len(Tail(s)) : Tail(s)[i] = s[i + 1]
    BY HeadTailProperties
  <1>3. Head(s) = s[1]
    OBVIOUS
  <1>4. \A i \in 1..Len(s) : i # 1 => i - 1 \in 1..Len(Tail(s)) /\ (i - 1) + 1 = i
    BY <1>1, <1>2
  <1>5. \A i \in 1..Len(Tail(s)) : i + 1 \in 1..Len(s)
    BY <1>1, <1>2
  <1>6. 1 \in 1..Len(s) /\ Len(Tail(s)) \in Nat
    BY <1>1, <1>2
  <1>7. ASSUME NEW i \in 1..Len(s), i # 1 PROVE Tail(s)[i - 1] = s[i]
    <2>1. i - 1 \in 1..Len(Tail(s)) /\ (i - 1) + 1 = i
      BY <1>4, <1>7
    <2>2. Tail(s)[i - 1] = s[(i - 1) + 1]
      BY <2>1, <1>2
    <2> QED
      BY <2>1, <2>2
  <1> QED
    BY <1>2, <1>3, <1>4, <1>5, <1>6, <1>7

\* A sequence with another head.
LEMMA NewHeadView ==
  ASSUME NEW R, NEW s \in Seq(R), s # <<>>, NEW b \in R
  PROVE  /\ <<b>> \o Tail(s) \in Seq(R) /\ <<b>> \o Tail(s) # <<>>
         /\ Len(<<b>> \o Tail(s)) = Len(s)
         /\ (<<b>> \o Tail(s))[1] = b /\ Head(<<b>> \o Tail(s)) = b
         /\ \A i \in 1..Len(s) : i # 1 => (<<b>> \o Tail(s))[i] = s[i]
  <1> DEFINE u == Tail(s)
             h == <<b>>
             n == h \o u
  <1>1. Len(s) \in Nat \ {0}
    BY EmptySeq
  <1>2. /\ u \in Seq(R) /\ Len(u) = Len(s) - 1
        /\ \A i \in 1..Len(u) : u[i] = s[i + 1]
    BY HeadTailProperties
  <1>3. h \in Seq(R) /\ Len(h) = 1 /\ h[1] = b
    OBVIOUS
  <1> HIDE DEF u, h
  <1>4. /\ n \in Seq(R) /\ Len(n) = Len(h) + Len(u)
        /\ \A i \in 1..Len(h) + Len(u) : n[i] = IF i <= Len(h) THEN h[i] ELSE u[i - Len(h)]
    <2>1. h \in Seq(R) /\ u \in Seq(R)
      BY <1>2, <1>3
    <2> QED
      BY <2>1, ConcatProperties
  <1> HIDE DEF n
  <1>5. Len(n) = Len(s) /\ n # <<>>
    BY <1>1, <1>2, <1>3, <1>4
  <1>6. n[1] = b
    BY <1>1, <1>2, <1>3, <1>4
  <1>7. ASSUME NEW i \in 1..Len(s), i # 1 PROVE n[i] = s[i]
    <2>1. /\ i \in 1..Len(h) + Len(u) /\ ~(i <= Len(h)) /\ i - Len(h) \in 1..Len(u)
          /\ (i - Len(h)) + 1 = i
      BY <1>1, <1>2, <1>3, <1>7
    <2>2. n[i] = u[i - Len(h)]
      BY <2>1, <1>4
    <2>3. u[i - Len(h)] = s[(i - Len(h)) + 1]
      BY <2>1, <1>2
    <2> QED
      BY <2>1, <2>2, <2>3
  <1>8. Head(n) = n[1]
    BY <1>4, <1>5
  <1> QED
    BY <1>4, <1>5, <1>6, <1>7, <1>8 DEF n, u, h

\* What the attempt at the front of enqueue_attempts_ does.
LEMMA EnqueueStep ==
  ASSUME TypeOK, AttemptInv, NEW t \in Thread, TryEnqueueAttempt(t)
  PROVE  LET a == Head(enq)
             r == RunEnqueue(a)
         IN  /\ holder = t /\ action = "kEnqueue"
             /\ enq # <<>> /\ a = enq[1] /\ a \in Attempt /\ ~a.cancelled
             /\ EnqueueAttemptOK(a) /\ BufferOK
             /\ \/ /\ r.result = "kComplete"
                   /\ enq' = Tail(enq)
                   /\ clean_up' = [clean_up EXCEPT ![t] = Append(@, a.op)]
                   /\ changed' = TRUE
                   /\ UNCHANGED <<holder, action, pc>>
                \/ /\ r.result # "kComplete"
                   /\ enq' = <<r.attempt>> \o Tail(enq)
                   /\ action' = "kDequeue"
                   /\ changed' = (changed \/ r.result = "kProgress")
                   /\ UNCHANGED <<holder, pc, clean_up>>
  <1>1. /\ holder = t /\ action = "kEnqueue" /\ enq # <<>> /\ ~Head(enq).cancelled
    BY DEF TryEnqueueAttempt
  <1>2. enq \in Seq(Attempt) /\ BufferOK
    BY DEF TypeOK, FlushTypeOK, DataTypeOK, BufferOK
  <1>3. Head(enq) = enq[1] /\ Head(enq) \in Attempt /\ 1 \in 1..Len(enq)
    BY <1>1, <1>2, TailView
  <1>4. EnqueueAttemptOK(enq[1])
    BY <1>3 DEF AttemptInv
  <1>5. EnqueueAttemptOK(Head(enq))
    BY <1>3, <1>4
  <1>6. RunEnqueue(Head(enq)).attempt.op = Head(enq).op
    BY <1>2, <1>3, <1>5, RunEnqueueFacts
  <1>7. AfterRun(t, enq, RunEnqueue(Head(enq)))
    BY DEF TryEnqueueAttempt
  <1> QED
    BY <1>1, <1>2, <1>3, <1>5, <1>6, <1>7 DEF AfterRun, EndOfAttempts

\* What the attempt at the front of dequeue_attempts_ does.
LEMMA DequeueStep ==
  ASSUME TypeOK, AttemptInv, NEW t \in Thread, TryDequeueAttempt(t)
  PROVE  LET a == Head(deq)
             r == RunDequeue(a)
         IN  /\ holder = t /\ action = "kDequeue"
             /\ deq # <<>> /\ a = deq[1] /\ a \in Attempt /\ ~a.cancelled
             /\ DequeueAttemptOK(a) /\ BufferOK
             /\ \/ /\ r.result = "kComplete"
                   /\ deq' = Tail(deq)
                   /\ clean_up' = [clean_up EXCEPT ![t] = Append(@, a.op)]
                   /\ changed' = TRUE
                   /\ UNCHANGED <<holder, action, pc>>
                \/ /\ r.result # "kComplete"
                   /\ deq' = <<r.attempt>> \o Tail(deq)
                   /\ action' = "kEnqueue"
                   /\ changed' = FALSE
                   /\ UNCHANGED clean_up
                   /\ \/ UNCHANGED <<holder, pc>>
                      \/ /\ r.result # "kProgress" /\ ~changed
                         /\ holder' = Nobody /\ pc' = [pc EXCEPT ![t] = "cleanup"]
  <1>1. /\ holder = t /\ action = "kDequeue" /\ deq # <<>> /\ ~Head(deq).cancelled
    BY DEF TryDequeueAttempt
  <1>2. deq \in Seq(Attempt) /\ BufferOK
    BY DEF TypeOK, FlushTypeOK, DataTypeOK, BufferOK
  <1>3. Head(deq) = deq[1] /\ Head(deq) \in Attempt /\ 1 \in 1..Len(deq)
    BY <1>1, <1>2, TailView
  <1>4. DequeueAttemptOK(deq[1])
    BY <1>3 DEF AttemptInv
  <1>5. DequeueAttemptOK(Head(deq))
    BY <1>3, <1>4
  <1>6. RunDequeue(Head(deq)).attempt.op = Head(deq).op
    BY <1>2, <1>3, <1>5, RunDequeueFacts
  <1>7. AfterRun(t, deq, RunDequeue(Head(deq)))
    BY DEF TryDequeueAttempt
  <1> QED
    BY <1>1, <1>2, <1>3, <1>5, <1>6, <1>7 DEF AfterRun, EndOfAttempts, LoopAgain

(***************************************************************************)
(* Types, attempts and locks.                                              *)
(***************************************************************************)

\* The steps keep the types of the managers.
LEMMA NextCMType == CMTypeOK /\ [Next]_vars => CMTypeOK'
  <1> SUFFICES ASSUME CMTypeOK, [Next]_vars PROVE CMTypeOK'
    OBVIOUS
  <1>u. ASSUME UNCHANGED <<is_cancelling, is_cancelled, notified, callbacks, callbacks_to_run>> PROVE CMTypeOK'
    BY <1>u DEF CMTypeOK
  <1>1. ASSUME NEW o \in Op, TryNothing(o) PROVE CMTypeOK'
    BY <1>1, <1>u DEF TryNothing, cmVars
  <1>2. ASSUME NEW o \in Op, TryAppend(o) PROVE CMTypeOK'
    BY <1>2, ManagerAssumption DEF TryAppend, CMRegister, CMTypeOK
  <1>3. ASSUME NEW o \in Op, TryTooLate(o) PROVE CMTypeOK'
    BY <1>3, <1>u DEF TryTooLate, cmVars
  <1>4. ASSUME NEW o \in Op, Close(o) PROVE CMTypeOK'
    BY <1>4, <1>u DEF Close, cmVars
  <1>5. ASSUME NEW o \in Op, CloseAndCancel(o) PROVE CMTypeOK'
    BY <1>5, <1>u DEF CloseAndCancel, cmVars
  <1>6. ASSUME NEW t \in Thread, RunCallback(t) PROVE CMTypeOK'
    BY <1>6, <1>u DEF RunCallback, cmVars
  <1>7. ASSUME NEW t \in Thread, FlushLock(t) PROVE CMTypeOK'
    BY <1>7, <1>u DEF FlushLock, cmVars
  <1>8. ASSUME NEW t \in Thread, SkipCancelled(t) PROVE CMTypeOK'
    BY <1>8, <1>u DEF SkipCancelled, cmVars
  <1>9. ASSUME NEW t \in Thread, NoAttempt(t) PROVE CMTypeOK'
    BY <1>9, <1>u DEF NoAttempt, EndOfAttempts, cmVars
  <1>10. ASSUME NEW t \in Thread, TryEnqueueAttempt(t) PROVE CMTypeOK'
    BY <1>10, <1>u DEF TryEnqueueAttempt, AfterRun, EndOfAttempts, cmVars
  <1>11. ASSUME NEW t \in Thread, TryDequeueAttempt(t) PROVE CMTypeOK'
    BY <1>11, <1>u DEF TryDequeueAttempt, AfterRun, EndOfAttempts, cmVars
  <1>12. ASSUME NEW t \in Thread, CleanUp(t) PROVE CMTypeOK'
    <2>1. CASE UNCHANGED cmVars
      BY <2>1, <1>u DEF cmVars
    <2>2. CASE \E x \in Token : CMDeregister(x)
      BY <2>2, ManagerAssumption DEF CMDeregister, CMTypeOK
    <2> QED
      BY <1>12, <2>1, <2>2 DEF CleanUp
  <1>13. ASSUME NEW t \in Thread, CleanUpBlock(t) PROVE CMTypeOK'
    BY <1>13, <1>u DEF CleanUpBlock, cmVars
  <1>14. ASSUME NEW t \in Thread, CleanUpWake(t) PROVE CMTypeOK'
    BY <1>14, <1>u DEF CleanUpWake, Cleaned, cmVars
  <1>15. ASSUME NEW t \in Thread, FlushReturn(t) PROVE CMTypeOK'
    BY <1>15, <1>u DEF FlushReturn, cmVars
  <1>16. ASSUME NEW c \in CM, StartCancel(c) PROVE CMTypeOK'
    BY <1>16 DEF StartCancel, CMStartCancel, CMTypeOK
  <1>17. ASSUME NEW c \in CM, FinishCancel(c) PROVE CMTypeOK'
    BY <1>17 DEF FinishCancel, CMFinishCancel, CMTypeOK
  <1>18. ASSUME NEW c \in CM, Notify(c) PROVE CMTypeOK'
    BY <1>18 DEF Notify, CMNotify, CMTypeOK
  <1>19. ASSUME NEW c \in CM, NEW o \in Token, Cancel(c, o) PROVE CMTypeOK'
    BY <1>19 DEF Cancel, CMNextCallback, CMTypeOK
  <1>20. CASE UNCHANGED vars
    BY <1>20, <1>u DEF vars, cmVars
  <1> QED
    BY <1>1, <1>2, <1>3, <1>4, <1>5, <1>6, <1>7, <1>8, <1>9, <1>10, <1>11, <1>12, <1>13, <1>14, <1>15, <1>16, <1>17, <1>18, <1>19, <1>20 DEF Next, Call, FlushStep, CancelStep

\* The steps keep the types of the queue and of the histories.
LEMMA NextDataType == TypeOK /\ AttemptInv /\ [Next]_vars => DataTypeOK'
  <1> SUFFICES ASSUME TypeOK, AttemptInv, [Next]_vars PROVE DataTypeOK'
    OBVIOUS
  <1>t. DataTypeOK
    BY DEF TypeOK
  <1>u. ASSUME UNCHANGED <<buffer, closed, pushed, popped, lost>> PROVE DataTypeOK'
    BY <1>u, <1>t DEF DataTypeOK
  <1>1. ASSUME NEW o \in Op, TryNothing(o) PROVE DataTypeOK'
    BY <1>1, <1>u DEF TryNothing, dataVars
  <1>2. ASSUME NEW o \in Op, TryAppend(o) PROVE DataTypeOK'
    BY <1>2, <1>u DEF TryAppend, dataVars
  <1>3. ASSUME NEW o \in Op, TryTooLate(o) PROVE DataTypeOK'
    BY <1>3, <1>u DEF TryTooLate, dataVars
  <1>4. ASSUME NEW o \in Op, Close(o) PROVE DataTypeOK'
    BY <1>4, <1>u DEF Close, dataVars
  <1>5. ASSUME NEW o \in Op, CloseAndCancel(o) PROVE DataTypeOK'
    BY <1>5, <1>t DEF CloseAndCancel, DataTypeOK
  <1>6. ASSUME NEW t \in Thread, RunCallback(t) PROVE DataTypeOK'
    BY <1>6, <1>u DEF RunCallback, dataVars
  <1>7. ASSUME NEW t \in Thread, FlushLock(t) PROVE DataTypeOK'
    BY <1>7, <1>u DEF FlushLock, dataVars
  <1>8. ASSUME NEW t \in Thread, SkipCancelled(t) PROVE DataTypeOK'
    BY <1>8, <1>u DEF SkipCancelled, dataVars
  <1>9. ASSUME NEW t \in Thread, NoAttempt(t) PROVE DataTypeOK'
    BY <1>9, <1>u DEF NoAttempt, EndOfAttempts, dataVars
  <1>10. ASSUME NEW t \in Thread, TryEnqueueAttempt(t) PROVE DataTypeOK'
    <2> DEFINE r == RunEnqueue(Head(enq))
    <2>1. Head(enq) \in Attempt /\ EnqueueAttemptOK(Head(enq)) /\ BufferOK
      BY <1>10, EnqueueStep
    <2>2. r.pushes \in Seq(Element) /\ r.closes = (Head(enq).op \in Closer)
      BY <2>1, RunEnqueueFacts
    <2>3. /\ buffer' = buffer \o r.pushes /\ pushed' = pushed \o r.pushes
          /\ closed' = (closed \/ r.closes) /\ popped' = popped /\ lost' = lost
      BY <1>10 DEF TryEnqueueAttempt
    <2> HIDE DEF r
    <2> QED
      BY <2>2, <2>3, <1>t DEF DataTypeOK
  <1>11. ASSUME NEW t \in Thread, TryDequeueAttempt(t) PROVE DataTypeOK'
    <2> DEFINE r == RunDequeue(Head(deq))
    <2>1. Head(deq) \in Attempt /\ DequeueAttemptOK(Head(deq)) /\ BufferOK
      BY <1>11, DequeueStep
    <2>2. r.attempt \in Attempt /\ r.buffer \in Seq(Element)
      BY <2>1, RunDequeueFacts
    <2>3. r.attempt.tuple \in Seq(Element)
      BY <2>2, AttemptFields
    <2>4. /\ buffer' = r.buffer /\ pushed' = pushed /\ closed' = closed /\ lost' = lost
          /\ popped' = popped \o r.attempt.tuple \/ popped' = popped
      BY <1>11 DEF TryDequeueAttempt
    <2> HIDE DEF r
    <2>5. popped' \in Seq(Element)
      <3>1. popped \in Seq(Element)
        BY <1>t DEF DataTypeOK
      <3>2. popped \o r.attempt.tuple \in Seq(Element)
        BY <3>1, <2>3, ConcatProperties
      <3> QED
        BY <3>1, <3>2, <2>4, Zenon
    <2> QED
      BY <2>2, <2>4, <2>5, <1>t DEF DataTypeOK
  <1>12. ASSUME NEW t \in Thread, CleanUp(t) PROVE DataTypeOK'
    BY <1>12, <1>u DEF CleanUp, Cleaned, dataVars
  <1>13. ASSUME NEW t \in Thread, CleanUpBlock(t) PROVE DataTypeOK'
    BY <1>13, <1>u DEF CleanUpBlock, dataVars
  <1>14. ASSUME NEW t \in Thread, CleanUpWake(t) PROVE DataTypeOK'
    BY <1>14, <1>u DEF CleanUpWake, Cleaned, dataVars
  <1>15. ASSUME NEW t \in Thread, FlushReturn(t) PROVE DataTypeOK'
    BY <1>15, <1>u DEF FlushReturn, dataVars
  <1>16. ASSUME NEW c \in CM, StartCancel(c) PROVE DataTypeOK'
    BY <1>16, <1>u DEF StartCancel, dataVars
  <1>17. ASSUME NEW c \in CM, FinishCancel(c) PROVE DataTypeOK'
    BY <1>17, <1>u DEF FinishCancel, dataVars
  <1>18. ASSUME NEW c \in CM, Notify(c) PROVE DataTypeOK'
    BY <1>18, <1>u DEF Notify, dataVars
  <1>19. ASSUME NEW c \in CM, NEW o \in Token, Cancel(c, o) PROVE DataTypeOK'
    <2>1. /\ lost' = lost \cup Collected(deq, o) \/ lost' = lost
          /\ UNCHANGED <<buffer, closed, pushed, popped>>
      BY <1>19 DEF Cancel
    <2>2. Collected(deq, o) \in SUBSET Element
      <3>1. deq \in Seq(Attempt)
        BY DEF TypeOK, FlushTypeOK
      <3>2. ASSUME NEW i \in 1..Len(deq) PROVE Range(deq[i].tuple) \subseteq Element
        <4>1. deq[i] \in Attempt
          BY <3>1
        <4>2. deq[i].tuple \in Seq(Element)
          BY <4>1, AttemptFields
        <4> QED
          BY <4>2, RangeOfSeq
      <3> QED
        BY <3>2 DEF Collected
    <2> QED
      BY <2>1, <2>2, <1>t DEF DataTypeOK
  <1>20. CASE UNCHANGED vars
    BY <1>20, <1>u DEF vars, dataVars
  <1> QED
    BY <1>1, <1>2, <1>3, <1>4, <1>5, <1>6, <1>7, <1>8, <1>9, <1>10, <1>11, <1>12, <1>13, <1>14, <1>15, <1>16, <1>17, <1>18, <1>19, <1>20 DEF Next, Call, FlushStep, CancelStep

\* Marking an attempt leaves everything else of the queue of attempts alone.
LEMMA MarkView ==
  ASSUME NEW s \in Seq(Attempt), NEW o
  PROVE  /\ Mark(s, o) \in Seq(Attempt) /\ Len(Mark(s, o)) = Len(s)
         /\ \A i \in 1..Len(s) :
              /\ Mark(s, o)[i].op = s[i].op /\ Mark(s, o)[i].requested = s[i].requested
              /\ Mark(s, o)[i].tuple = s[i].tuple
              /\ Mark(s, o)[i].cancelled <=> s[i].cancelled \/ s[i].op = o
  <1>1. \A i \in 1..Len(s) : s[i] \in Attempt
    OBVIOUS
  <1> DEFINE b(i) == IF s[i].op = o THEN [s[i] EXCEPT !.cancelled = TRUE] ELSE s[i]
  <1>2. ASSUME NEW i \in 1..Len(s)
        PROVE  /\ b(i) \in Attempt /\ b(i).op = s[i].op /\ b(i).requested = s[i].requested
               /\ b(i).tuple = s[i].tuple /\ (b(i).cancelled <=> s[i].cancelled \/ s[i].op = o)
    <2>1. s[i] \in Attempt
      BY <1>1
    <2>2. CASE s[i].op = o
      <3>1. b(i) = [s[i] EXCEPT !.cancelled = TRUE]
        BY <2>2
      <3> HIDE DEF b
      <3> QED
        BY <3>1, <2>1, <2>2 DEF Attempt
    <2>3. CASE s[i].op # o
      BY <2>1, <2>3
    <2> QED
      BY <2>2, <2>3
  <1>3. Mark(s, o) = [i \in 1..Len(s) |-> b(i)]
    BY DEF Mark
  <1> HIDE DEF b
  <1>4. Len(s) \in Nat
    OBVIOUS
  <1>5. Mark(s, o) \in [1..Len(s) -> Attempt]
    BY <1>2, <1>3
  <1>6. Mark(s, o) \in Seq(Attempt) /\ Len(Mark(s, o)) = Len(s)
    BY <1>4, <1>5
  <1>7. \A i \in 1..Len(s) : Mark(s, o)[i] = b(i)
    BY <1>3
  <1> QED
    BY <1>2, <1>6, <1>7

\* Likewise when all are cancelled.
LEMMA CancelAllView ==
  ASSUME NEW s \in Seq(Attempt)
  PROVE  /\ CancelAll(s) \in Seq(Attempt) /\ Len(CancelAll(s)) = Len(s)
         /\ \A i \in 1..Len(s) :
              /\ CancelAll(s)[i].op = s[i].op /\ CancelAll(s)[i].requested = s[i].requested
              /\ CancelAll(s)[i].tuple = s[i].tuple
              /\ CancelAll(s)[i].cancelled
  <1> DEFINE b(i) == [s[i] EXCEPT !.cancelled = TRUE]
  <1>2. ASSUME NEW i \in 1..Len(s)
        PROVE  /\ b(i) \in Attempt /\ b(i).op = s[i].op /\ b(i).requested = s[i].requested
               /\ b(i).tuple = s[i].tuple /\ b(i).cancelled
    <2>1. s[i] \in Attempt
      OBVIOUS
    <2> QED
      BY <2>1 DEF Attempt
  <1>3. CancelAll(s) = [i \in 1..Len(s) |-> b(i)]
    BY DEF CancelAll
  <1> HIDE DEF b
  <1>4. Len(s) \in Nat
    OBVIOUS
  <1>5. CancelAll(s) \in [1..Len(s) -> Attempt]
    BY <1>2, <1>3
  <1>6. CancelAll(s) \in Seq(Attempt) /\ Len(CancelAll(s)) = Len(s)
    BY <1>4, <1>5
  <1>7. \A i \in 1..Len(s) : CancelAll(s)[i] = b(i)
    BY <1>3
  <1> QED
    BY <1>2, <1>6, <1>7

\* A new attempt at the back.
LEMMA AppendView ==
  ASSUME NEW R, NEW s \in Seq(R), NEW x \in R
  PROVE  /\ Append(s, x) \in Seq(R) /\ Append(s, x) # <<>>
         /\ Len(Append(s, x)) = Len(s) + 1
         /\ \A i \in 1..Len(s) : Append(s, x)[i] = s[i] /\ i \in 1..Len(Append(s, x))
         /\ Append(s, x)[Len(s) + 1] = x /\ Len(s) + 1 \in 1..Len(Append(s, x))
         /\ \A i \in 1..Len(Append(s, x)) : i \in 1..Len(s) \/ i = Len(s) + 1
         /\ Len(s) + 1 = 1 <=> s = <<>>
         /\ s # <<>> => Head(Append(s, x)) = Head(s)
         /\ s = <<>> => Head(Append(s, x)) = x
  <1>1. Len(s) \in Nat /\ (Len(s) = 0 <=> s = <<>>)
    OBVIOUS
  <1>2. /\ Append(s, x) \in Seq(R) /\ Len(Append(s, x)) = Len(s) + 1
        /\ \A i \in 1..Len(s) : Append(s, x)[i] = s[i]
        /\ Append(s, x)[Len(s) + 1] = x
    BY AppendProperties
  <1>3. /\ s # <<>> => Head(Append(s, x)) = Head(s)
        /\ s = <<>> => Head(Append(s, x)) = x
    OBVIOUS
  <1>4. /\ \A i \in 1..Len(s) : i \in 1..Len(Append(s, x))
        /\ Len(s) + 1 \in 1..Len(Append(s, x))
        /\ \A i \in 1..Len(Append(s, x)) : i \in 1..Len(s) \/ i = Len(s) + 1
        /\ Len(s) + 1 = 1 <=> s = <<>>
    BY <1>1, <1>2
  <1>5. Append(s, x) # <<>>
    BY AppendProperties
  <1> QED
    BY <1>2, <1>3, <1>4, <1>5

\* A new attempt of an operation.
LEMMA NewAttemptFields ==
  ASSUME NEW o \in Op, NEW n \in Nat
  PROVE  /\ NewAttempt(o, n) \in Attempt /\ NewAttempt(o, n).op = o
         /\ NewAttempt(o, n).requested = n /\ NewAttempt(o, n).tuple = <<>>
         /\ NewAttempt(o, n).cancelled = FALSE
  BY DEF NewAttempt, Attempt

\* Both queues of attempts are in order.
EnqueuesOK(s) == s \in Seq(Attempt) /\ \A i \in 1..Len(s) : EnqueueAttemptOK(s[i])
DequeuesOK(s) ==
    /\ s \in Seq(Attempt)
    /\ \A i \in 1..Len(s) : DequeueAttemptOK(s[i]) /\ (i # 1 => s[i].tuple = <<>>)
AttemptsOK == EnqueuesOK(enq) /\ DequeuesOK(deq)

\* Dropping the first attempt.
LEMMA TailOK ==
  ASSUME NEW s, s # <<>>
  PROVE  /\ EnqueuesOK(s) => EnqueuesOK(Tail(s))
         /\ DequeuesOK(s) => DequeuesOK(Tail(s))
  <1>1. ASSUME s \in Seq(Attempt)
        PROVE  /\ Tail(s) \in Seq(Attempt)
               /\ \A i \in 1..Len(Tail(s)) : i + 1 \in 1..Len(s) /\ Tail(s)[i] = s[i + 1] /\ i + 1 # 1
    <2>1. /\ Tail(s) \in Seq(Attempt)
          /\ \A i \in 1..Len(Tail(s)) : i + 1 \in 1..Len(s) /\ Tail(s)[i] = s[i + 1]
      BY <1>1, TailView
    <2>2. \A i \in 1..Len(Tail(s)) : i + 1 # 1
      OBVIOUS
    <2> QED
      BY <2>1, <2>2
  <1> QED
    BY <1>1 DEF EnqueuesOK, DequeuesOK

\* Changing the first attempt.
LEMMA NewHeadOK ==
  ASSUME NEW s, s # <<>>, NEW b \in Attempt
  PROVE  /\ EnqueuesOK(s) /\ EnqueueAttemptOK(b) => EnqueuesOK(<<b>> \o Tail(s))
         /\ DequeuesOK(s) /\ DequeueAttemptOK(b) => DequeuesOK(<<b>> \o Tail(s))
  <1>1. ASSUME s \in Seq(Attempt)
        PROVE  /\ <<b>> \o Tail(s) \in Seq(Attempt) /\ Len(<<b>> \o Tail(s)) = Len(s)
               /\ (<<b>> \o Tail(s))[1] = b
               /\ \A i \in 1..Len(s) : i # 1 => (<<b>> \o Tail(s))[i] = s[i]
    BY <1>1, NewHeadView
  <1> DEFINE n == <<b>> \o Tail(s)
  <1> HIDE DEF n
  <1>2. ASSUME s \in Seq(Attempt)
        PROVE  /\ n \in Seq(Attempt) /\ Len(n) = Len(s) /\ n[1] = b
               /\ \A i \in 1..Len(s) : i # 1 => n[i] = s[i]
    BY <1>1, <1>2 DEF n
  <1>3. /\ EnqueuesOK(s) /\ EnqueueAttemptOK(b) => EnqueuesOK(n)
        /\ DequeuesOK(s) /\ DequeueAttemptOK(b) => DequeuesOK(n)
    BY <1>2 DEF EnqueuesOK, DequeuesOK
  <1> QED
    BY <1>3 DEF n

\* A new attempt at the back.
LEMMA AppendOK ==
  ASSUME NEW s, NEW o \in Op, NEW n \in Nat
  PROVE  /\ EnqueuesOK(s) /\ EnqueueAttemptOK(NewAttempt(o, n))
              => EnqueuesOK(Append(s, NewAttempt(o, n)))
         /\ DequeuesOK(s) /\ DequeueAttemptOK(NewAttempt(o, n))
              => DequeuesOK(Append(s, NewAttempt(o, n)))
  <1> DEFINE x == NewAttempt(o, n)
  <1>0. x \in Attempt /\ x.tuple = <<>>
    BY NewAttemptFields
  <1> HIDE DEF x
  <1>1. ASSUME s \in Seq(Attempt)
        PROVE  /\ Append(s, x) \in Seq(Attempt)
               /\ \A i \in 1..Len(Append(s, x)) :
                    (i \in 1..Len(s) /\ Append(s, x)[i] = s[i]) \/ Append(s, x)[i] = x
    BY <1>0, <1>1, AppendView
  <1>2. /\ EnqueuesOK(s) /\ EnqueueAttemptOK(x) => EnqueuesOK(Append(s, x))
        /\ DequeuesOK(s) /\ DequeueAttemptOK(x) => DequeuesOK(Append(s, x))
    BY <1>0, <1>1 DEF EnqueuesOK, DequeuesOK
  <1> QED
    BY <1>2 DEF x

\* Cancelling attempts.
LEMMA MarkOK ==
  ASSUME NEW s, NEW o
  PROVE  /\ EnqueuesOK(s) => EnqueuesOK(Mark(s, o)) /\ EnqueuesOK(CancelAll(s))
         /\ DequeuesOK(s) => DequeuesOK(Mark(s, o))
  <1>1. ASSUME s \in Seq(Attempt), NEW m, m = Mark(s, o) \/ m = CancelAll(s)
        PROVE  /\ m \in Seq(Attempt) /\ Len(m) = Len(s)
               /\ \A i \in 1..Len(s) : /\ m[i].op = s[i].op /\ m[i].requested = s[i].requested
                                       /\ m[i].tuple = s[i].tuple
    BY <1>1, MarkView, CancelAllView
  <1>2. ASSUME s \in Seq(Attempt), NEW m, m = Mark(s, o) \/ m = CancelAll(s)
        PROVE  /\ EnqueuesOK(s) => EnqueuesOK(m)
               /\ DequeuesOK(s) => DequeuesOK(m)
    <2>1. /\ m \in Seq(Attempt) /\ Len(m) = Len(s)
          /\ \A i \in 1..Len(s) : /\ m[i].op = s[i].op /\ m[i].requested = s[i].requested
                                  /\ m[i].tuple = s[i].tuple
      BY <1>1, <1>2
    <2>2. \A i \in 1..Len(s) : /\ EnqueueAttemptOK(s[i]) => EnqueueAttemptOK(m[i])
                               /\ DequeueAttemptOK(s[i]) => DequeueAttemptOK(m[i])
      BY <2>1 DEF EnqueueAttemptOK, DequeueAttemptOK
    <2> QED
      BY <2>1, <2>2 DEF EnqueuesOK, DequeuesOK
  <1> QED
    BY <1>2 DEF EnqueuesOK, DequeuesOK

\* The steps keep the attempts in order.
LEMMA NextAttemptsOK == TypeOK /\ AttemptInv /\ [Next]_vars => AttemptsOK'
  <1> SUFFICES ASSUME TypeOK, AttemptInv, [Next]_vars PROVE AttemptsOK'
    OBVIOUS
  <1>t. AttemptsOK
    BY DEF TypeOK, FlushTypeOK, AttemptInv, AttemptsOK, EnqueuesOK, DequeuesOK
  <1>u. ASSUME UNCHANGED <<enq, deq>> PROVE AttemptsOK'
    BY <1>u, <1>t DEF AttemptsOK
  <1>1. ASSUME NEW o \in Op, TryNothing(o) PROVE AttemptsOK'
    BY <1>1, <1>u DEF TryNothing, attemptVars
  <1>2. ASSUME NEW o \in Op, TryAppend(o) PROVE AttemptsOK'
    <2>1. o \in Token /\ Num[o] \in Nat /\ Num[o] > 0 /\ o \in Op
      BY <1>2, QueueAssumption DEF TryAppend
    <2>2. /\ NewAttempt(o, Num[o]).op = o /\ NewAttempt(o, Num[o]).requested = Num[o]
          /\ NewAttempt(o, Num[o]).tuple = <<>>
      BY <2>1, NewAttemptFields
    <2>3. /\ o \in Enqueuer => EnqueueAttemptOK(NewAttempt(o, Num[o]))
          /\ o \in Dequeuer => DequeueAttemptOK(NewAttempt(o, Num[o]))
      BY <2>1, <2>2 DEF EnqueueAttemptOK, DequeueAttemptOK
    <2>4. CASE o \in Enqueuer
      <3>1. enq' = Append(enq, NewAttempt(o, Num[o])) /\ deq' = deq
        BY <1>2, <2>4 DEF TryAppend
      <3> QED
        BY <3>1, <2>1, <2>3, <2>4, <1>t, AppendOK DEF AttemptsOK
    <2>5. CASE o \notin Enqueuer
      <3>1. deq' = Append(deq, NewAttempt(o, Num[o])) /\ enq' = enq /\ o \in Dequeuer
        BY <1>2, <2>1, <2>5, QueueAssumption DEF TryAppend
      <3> QED
        BY <3>1, <2>1, <2>3, <1>t, AppendOK DEF AttemptsOK
    <2> QED
      BY <2>4, <2>5
  <1>3. ASSUME NEW o \in Op, TryTooLate(o) PROVE AttemptsOK'
    BY <1>3, <1>u DEF TryTooLate, attemptVars
  <1>4. ASSUME NEW o \in Op, Close(o) PROVE AttemptsOK'
    <2>1. enq' = Append(enq, NewAttempt(o, 0)) /\ deq' = deq /\ o \in Closer \ CancelCloser
      BY <1>4 DEF Close
    <2>2. EnqueueAttemptOK(NewAttempt(o, 0))
      BY <2>1, NewAttemptFields DEF EnqueueAttemptOK
    <2> QED
      BY <2>1, <2>2, <1>t, AppendOK DEF AttemptsOK
  <1>5. ASSUME NEW o \in Op, CloseAndCancel(o) PROVE AttemptsOK'
    <2>1. enq' = CancelAll(enq) /\ deq' = deq
      BY <1>5 DEF CloseAndCancel
    <2> QED
      BY <2>1, <1>t, MarkOK DEF AttemptsOK
  <1>6. ASSUME NEW t \in Thread, RunCallback(t) PROVE AttemptsOK'
    BY <1>6, <1>u DEF RunCallback, attemptVars
  <1>7. ASSUME NEW t \in Thread, FlushLock(t) PROVE AttemptsOK'
    BY <1>7, <1>u DEF FlushLock, attemptVars
  <1>8. ASSUME NEW t \in Thread, SkipCancelled(t) PROVE AttemptsOK'
    <2>1. \/ enq # <<>> /\ enq' = Tail(enq) /\ deq' = deq
          \/ deq # <<>> /\ deq' = Tail(deq) /\ enq' = enq
      BY <1>8 DEF SkipCancelled
    <2> QED
      BY <2>1, <1>t, TailOK DEF AttemptsOK
  <1>9. ASSUME NEW t \in Thread, NoAttempt(t) PROVE AttemptsOK'
    BY <1>9, <1>u DEF NoAttempt, EndOfAttempts, attemptVars
  <1>10. ASSUME NEW t \in Thread, TryEnqueueAttempt(t) PROVE AttemptsOK'
    <2> DEFINE r == RunEnqueue(Head(enq))
    <2>1. /\ enq # <<>> /\ Head(enq) \in Attempt /\ EnqueueAttemptOK(Head(enq)) /\ BufferOK
          /\ \/ enq' = Tail(enq)
             \/ r.result # "kComplete" /\ enq' = <<r.attempt>> \o Tail(enq)
      BY <1>10, EnqueueStep
    <2>2. r.attempt \in Attempt /\ (r.result # "kComplete" => EnqueueAttemptOK(r.attempt))
      BY <2>1, RunEnqueueFacts
    <2>3. deq' = deq
      BY <1>10 DEF TryEnqueueAttempt
    <2> HIDE DEF r
    <2>4. EnqueuesOK(enq')
      BY <2>1, <2>2, <1>t, TailOK, NewHeadOK DEF AttemptsOK
    <2> QED
      BY <2>3, <2>4, <1>t DEF AttemptsOK
  <1>11. ASSUME NEW t \in Thread, TryDequeueAttempt(t) PROVE AttemptsOK'
    <2> DEFINE r == RunDequeue(Head(deq))
    <2>1. /\ deq # <<>> /\ Head(deq) \in Attempt /\ DequeueAttemptOK(Head(deq)) /\ BufferOK
          /\ \/ deq' = Tail(deq)
             \/ r.result # "kComplete" /\ deq' = <<r.attempt>> \o Tail(deq)
      BY <1>11, DequeueStep
    <2>2. r.attempt \in Attempt /\ (r.result # "kComplete" => DequeueAttemptOK(r.attempt))
      BY <2>1, RunDequeueFacts
    <2>3. enq' = enq
      BY <1>11 DEF TryDequeueAttempt
    <2> HIDE DEF r
    <2>4. DequeuesOK(deq')
      BY <2>1, <2>2, <1>t, TailOK, NewHeadOK DEF AttemptsOK
    <2> QED
      BY <2>3, <2>4, <1>t DEF AttemptsOK
  <1>12. ASSUME NEW t \in Thread, CleanUp(t) PROVE AttemptsOK'
    BY <1>12, <1>u DEF CleanUp, Cleaned, attemptVars
  <1>13. ASSUME NEW t \in Thread, CleanUpBlock(t) PROVE AttemptsOK'
    BY <1>13, <1>u DEF CleanUpBlock, attemptVars
  <1>14. ASSUME NEW t \in Thread, CleanUpWake(t) PROVE AttemptsOK'
    BY <1>14, <1>u DEF CleanUpWake, Cleaned, attemptVars
  <1>15. ASSUME NEW t \in Thread, FlushReturn(t) PROVE AttemptsOK'
    BY <1>15, <1>u DEF FlushReturn, attemptVars
  <1>16. ASSUME NEW c \in CM, StartCancel(c) PROVE AttemptsOK'
    BY <1>16, <1>u DEF StartCancel, attemptVars
  <1>17. ASSUME NEW c \in CM, FinishCancel(c) PROVE AttemptsOK'
    BY <1>17, <1>u DEF FinishCancel, attemptVars
  <1>18. ASSUME NEW c \in CM, Notify(c) PROVE AttemptsOK'
    BY <1>18, <1>u DEF Notify, attemptVars
  <1>19. ASSUME NEW c \in CM, NEW o \in Token, Cancel(c, o) PROVE AttemptsOK'
    <2>1. \/ enq' = Mark(enq, o) /\ deq' = Mark(deq, o)
          \/ enq' = enq /\ deq' = deq
      <3>1. CASE IsLive(enq, o) \/ IsLive(deq, o)
        BY <1>19, <3>1 DEF Cancel
      <3>2. CASE ~(IsLive(enq, o) \/ IsLive(deq, o))
        BY <1>19, <3>2 DEF Cancel, attemptVars
      <3> QED
        BY <3>1, <3>2
    <2> QED
      BY <2>1, <1>t, MarkOK DEF AttemptsOK
  <1>20. CASE UNCHANGED vars
    BY <1>20, <1>u DEF vars, attemptVars
  <1> QED
    BY <1>1, <1>2, <1>3, <1>4, <1>5, <1>6, <1>7, <1>8, <1>9, <1>10, <1>11, <1>12, <1>13, <1>14, <1>15, <1>16, <1>17, <1>18, <1>19, <1>20 DEF Next, Call, FlushStep, CancelStep

\* The operations whose done callback a Close takes: those with a live attempt.
LEMMA VictimsView ==
  ASSUME NEW s \in Seq(Attempt)
  PROVE  /\ OpsOf(Live(s)) \in Seq(Op)
         /\ \A x : (\E i \in 1..Len(OpsOf(Live(s))) : OpsOf(Live(s))[i] = x) <=> IsLive(s, x)
         /\ OpsApart(s) => Distinct(OpsOf(Live(s)))
  <1> DEFINE L == {a \in Attempt : ~a.cancelled}
             k == Live(s)
             v == OpsOf(k)
  <1>0. k = Keep(s, L)
    BY DEF Live
  <1> HIDE DEF k, L
  <1>1. k \in Seq(Attempt)
    BY <1>0, KeepType
  <1>2. \A x : (\E i \in 1..Len(k) : k[i] = x) <=> x \in L /\ \E j \in 1..Len(s) : s[j] = x
    BY <1>0, KeepElements
  <1>3. Distinct(s) => Distinct(k)
    BY <1>0, KeepDistinct
  <1>4. Len(k) \in Nat /\ \A i \in 1..Len(k) : k[i] \in Attempt
    BY <1>1, LenProperties, ElementOfSeq
  <1>5. v \in Seq(Op) /\ Len(v) = Len(k) /\ \A i \in 1..Len(k) : v[i] = k[i].op
    <2>1. v = [i \in 1..Len(k) |-> k[i].op]
      BY DEF OpsOf
    <2>2. \A i \in 1..Len(k) : k[i].op \in Op
      BY <1>4, AttemptFields
    <2> HIDE DEF v
    <2>3. v \in [1..Len(k) -> Op]
      BY <2>1, <2>2
    <2>4. \A i \in 1..Len(k) : v[i] = k[i].op
      BY <2>1
    <2> QED
      BY <2>3, <2>4, <1>4
  <1> HIDE DEF v
  <1>6. ASSUME NEW x PROVE (\E i \in 1..Len(v) : v[i] = x) <=> IsLive(s, x)
    <2>1. ASSUME NEW i \in 1..Len(v), v[i] = x PROVE IsLive(s, x)
      <3>1. i \in 1..Len(k) /\ k[i].op = x
        BY <2>1, <1>5
      <3>2. k[i] \in L /\ \E j \in 1..Len(s) : s[j] = k[i]
        BY <3>1, <1>2
      <3>3. PICK j \in 1..Len(s) : s[j] = k[i]
        BY <3>2
      <3>4. ~k[i].cancelled
        BY <3>2 DEF L
      <3> QED
        BY <3>1, <3>3, <3>4 DEF IsLive
    <2>2. ASSUME IsLive(s, x) PROVE \E i \in 1..Len(v) : v[i] = x
      <3>1. PICK j \in 1..Len(s) : s[j].op = x /\ ~s[j].cancelled
        BY <2>2 DEF IsLive
      <3>2. s[j] \in L
        BY <3>1 DEF L
      <3>3. PICK i \in 1..Len(k) : k[i] = s[j]
        BY <3>2, <1>2
      <3> QED
        BY <3>1, <3>3, <1>5
    <2> QED
      BY <2>1, <2>2
  <1>7. ASSUME OpsApart(s) PROVE Distinct(v)
    <2>1. Distinct(k)
      BY <1>3, <1>7 DEF Distinct, OpsApart
    <2> SUFFICES ASSUME NEW i \in 1..Len(k), NEW j \in 1..Len(k), k[i].op = k[j].op PROVE i = j
      BY <1>5 DEF Distinct
    <2>2. PICK a \in 1..Len(s) : s[a] = k[i]
      BY <1>2
    <2>3. PICK b \in 1..Len(s) : s[b] = k[j]
      BY <1>2
    <2>4. a = b
      BY <2>2, <2>3, <1>7 DEF OpsApart
    <2>5. k[i] = k[j]
      BY <2>2, <2>3, <2>4
    <2> QED
      BY <2>1, <2>5 DEF Distinct
  <1> QED
    BY <1>5, <1>6, <1>7 DEF v, k

\* The steps keep the types of the operations' results.
LEMMA NextOpType == TypeOK /\ AttemptInv /\ FlushInv /\ [Next]_vars => OpTypeOK'
  <1> SUFFICES ASSUME TypeOK, AttemptInv, FlushInv, [Next]_vars PROVE OpTypeOK'
    OBVIOUS
  <1>t. OpTypeOK /\ ThreadTypeOK
    BY DEF TypeOK
  <1>f. \A o \in Op : Finish(o) => done' \in [Op -> Nat]
    BY <1>t DEF Finish, OpTypeOK
  <1>s. \A o \in Op, x \in Status : st' = [st EXCEPT ![o] = x] => st' \in [Op -> Status]
    BY <1>t DEF Status, OpTypeOK
  <1>c. ASSUME NEW t \in Thread, clean_up[t] # <<>>, Cleaned(t) PROVE OpTypeOK'
    <2>1. Head(clean_up[t]) \in Op
      BY <1>c, <1>t, TailView DEF ThreadTypeOK
    <2>2. Finish(Head(clean_up[t])) /\ UNCHANGED <<st, got>>
      BY <1>c DEF Cleaned
    <2>3. done' \in [Op -> Nat]
      BY <2>1, <2>2, <1>f
    <2> QED
      BY <2>2, <2>3, <1>t DEF OpTypeOK
  <1>u. ASSUME UNCHANGED <<st, got, done>> PROVE OpTypeOK'
    BY <1>u, <1>t DEF OpTypeOK
  <1>1. ASSUME NEW o \in Op, TryNothing(o) PROVE OpTypeOK'
    <2>1. done' \in [Op -> Nat] /\ UNCHANGED <<st, got>>
      BY <1>1, <1>f DEF TryNothing
    <2> QED
      BY <2>1, <1>t DEF OpTypeOK
  <1>2. ASSUME NEW o \in Op, TryAppend(o) PROVE OpTypeOK'
    BY <1>2, <1>u DEF TryAppend, opVars, Finish
  <1>3. ASSUME NEW o \in Op, TryTooLate(o) PROVE OpTypeOK'
    <2>1. st' = [st EXCEPT ![o] = "Cancelled"] /\ done' \in [Op -> Nat] /\ got' = got
      BY <1>3, <1>f DEF TryTooLate
    <2>2. st' \in [Op -> Status]
      BY <2>1, <1>s DEF Status
    <2> QED
      BY <2>1, <2>2, <1>t DEF OpTypeOK, Status
  <1>4. ASSUME NEW o \in Op, Close(o) PROVE OpTypeOK'
    BY <1>4, <1>u DEF Close, opVars, Finish
  <1>5. ASSUME NEW o \in Op, CloseAndCancel(o) PROVE OpTypeOK'
    <2>1. \E S : st' = [x \in Op |-> IF x \in S THEN "Cancelled" ELSE st[x]]
      BY <1>5 DEF CloseAndCancel
    <2>2. UNCHANGED <<got, done>>
      BY <1>5 DEF CloseAndCancel
    <2> QED
      BY <2>1, <2>2, <1>t DEF OpTypeOK
  <1>6. ASSUME NEW t \in Thread, RunCallback(t) PROVE OpTypeOK'
    <2>1. Head(to_call[t]) \in Op
      BY <1>6, <1>t, TailView DEF RunCallback, ThreadTypeOK
    <2>2. done' \in [Op -> Nat] /\ UNCHANGED <<st, got>>
      BY <1>6, <2>1, <1>f DEF RunCallback
    <2> QED
      BY <2>2, <1>t DEF OpTypeOK
  <1>7. ASSUME NEW t \in Thread, FlushLock(t) PROVE OpTypeOK'
    BY <1>7, <1>u DEF FlushLock, opVars, Finish
  <1>8. ASSUME NEW t \in Thread, SkipCancelled(t) PROVE OpTypeOK'
    BY <1>8, <1>u DEF SkipCancelled, opVars, Finish
  <1>9. ASSUME NEW t \in Thread, NoAttempt(t) PROVE OpTypeOK'
    BY <1>9, <1>u DEF NoAttempt, EndOfAttempts, opVars, Finish
  <1>10. ASSUME NEW t \in Thread, TryEnqueueAttempt(t) PROVE OpTypeOK'
    <2>1. Head(enq) \in Attempt /\ EnqueueAttemptOK(Head(enq)) /\ BufferOK
      BY <1>10, EnqueueStep
    <2>2. Head(enq).op \in Op
      BY <2>1, AttemptFields
    <2>3. RunEnqueue(Head(enq)).status \in Status
      BY <2>1, RunEnqueueFacts DEF Status
    <2>4. /\ st' = [st EXCEPT ![Head(enq).op] = RunEnqueue(Head(enq)).status]
          /\ UNCHANGED <<got, done>>
      BY <1>10 DEF TryEnqueueAttempt
    <2>5. st' \in [Op -> Status]
      BY <2>2, <2>3, <2>4, <1>s
    <2> QED
      BY <2>4, <2>5, <1>t DEF OpTypeOK, Status
  <1>11. ASSUME NEW t \in Thread, TryDequeueAttempt(t) PROVE OpTypeOK'
    <2> DEFINE r == RunDequeue(Head(deq))
    <2>1. Head(deq) \in Attempt /\ DequeueAttemptOK(Head(deq)) /\ BufferOK
      BY <1>11, DequeueStep
    <2>2. Head(deq).op \in Op
      BY <2>1, AttemptFields
    <2>3. r.status \in Status /\ r.attempt \in Attempt
      BY <2>1, RunDequeueFacts
    <2>4. r.attempt.tuple \in Seq(Element)
      BY <2>3, AttemptFields
    <2>5. /\ st' = [st EXCEPT ![Head(deq).op] = r.status]
          /\ got' = [got EXCEPT ![Head(deq).op] = r.attempt.tuple] \/ got' = got
          /\ done' = done
      BY <1>11 DEF TryDequeueAttempt
    <2> HIDE DEF r
    <2>6. got' \in [Op -> Seq(Element)]
      BY <2>2, <2>4, <2>5, <1>t DEF OpTypeOK
    <2>7. st' \in [Op -> Status]
      BY <2>2, <2>3, <2>5, <1>s
    <2> QED
      BY <2>5, <2>6, <2>7, <1>t DEF OpTypeOK, Status
  <1>12. ASSUME NEW t \in Thread, CleanUp(t) PROVE OpTypeOK'
    <2>1. clean_up[t] # <<>> /\ Cleaned(t)
      BY <1>12 DEF CleanUp
    <2> QED
      BY <2>1, <1>c
  <1>13. ASSUME NEW t \in Thread, CleanUpBlock(t) PROVE OpTypeOK'
    BY <1>13, <1>u DEF CleanUpBlock, opVars, Finish
  <1>14. ASSUME NEW t \in Thread, CleanUpWake(t) PROVE OpTypeOK'
    <2>1. clean_up[t] # <<>> /\ Cleaned(t)
      BY <1>14 DEF CleanUpWake, Goto, FlushInv
    <2> QED
      BY <2>1, <1>c
  <1>15. ASSUME NEW t \in Thread, FlushReturn(t) PROVE OpTypeOK'
    <2>1. CASE t \in CancelCloser
      <3>1. t \in Op
        BY <2>1, QueueAssumption DEF Op
      <3>2. done' \in [Op -> Nat] /\ UNCHANGED <<st, got>>
        BY <1>15, <2>1, <3>1, <1>f DEF FlushReturn
      <3> QED
        BY <3>2, <1>t DEF OpTypeOK
    <2>2. CASE t \notin CancelCloser
      BY <1>15, <2>2, <1>u DEF FlushReturn
    <2> QED
      BY <2>1, <2>2
  <1>16. ASSUME NEW c \in CM, StartCancel(c) PROVE OpTypeOK'
    BY <1>16, <1>u DEF StartCancel, opVars, Finish
  <1>17. ASSUME NEW c \in CM, FinishCancel(c) PROVE OpTypeOK'
    BY <1>17, <1>u DEF FinishCancel, opVars, Finish
  <1>18. ASSUME NEW c \in CM, Notify(c) PROVE OpTypeOK'
    BY <1>18, <1>u DEF Notify, opVars, Finish
  <1>19. ASSUME NEW c \in CM, NEW o \in Token, Cancel(c, o) PROVE OpTypeOK'
    <2>1. o \in Op /\ UNCHANGED <<got, done>>
      BY <1>19 DEF Cancel, Op
    <2>2. st' = [st EXCEPT ![o] = "Cancelled"] \/ st' = st
      <3>1. CASE IsLive(enq, o) \/ IsLive(deq, o)
        BY <1>19, <3>1 DEF Cancel
      <3>2. CASE ~(IsLive(enq, o) \/ IsLive(deq, o))
        BY <1>19, <3>2 DEF Cancel
      <3> QED
        BY <3>1, <3>2
    <2>3. st' \in [Op -> Status]
      BY <2>1, <2>2, <1>s, <1>t DEF OpTypeOK, Status
    <2> QED
      BY <2>1, <2>3, <1>t DEF OpTypeOK, Status
  <1>20. CASE UNCHANGED vars
    BY <1>20, <1>u DEF vars, opVars
  <1> QED
    BY <1>1, <1>2, <1>3, <1>4, <1>5, <1>6, <1>7, <1>8, <1>9, <1>10, <1>11, <1>12, <1>13, <1>14, <1>15, <1>16, <1>17, <1>18, <1>19, <1>20 DEF Next, Call, FlushStep, CancelStep

\* Threads, their lists and the lock.
LockOK ==
    /\ ThreadTypeOK /\ FlushInv
    /\ holder \in Thread \cup {Nobody}
    /\ action \in {"kEnqueue", "kDequeue"}
    /\ changed \in BOOLEAN

\* The tail of one of the lists, and a list with one more operation.
LEMMA ListView ==
  ASSUME NEW f \in [Thread -> Seq(Op)], NEW t \in Thread
  PROVE  /\ f[t] \in Seq(Op)
         /\ f[t] # <<>> => [f EXCEPT ![t] = Tail(@)] \in [Thread -> Seq(Op)]
         /\ \A o \in Op : [f EXCEPT ![t] = Append(@, o)] \in [Thread -> Seq(Op)]
  <1>1. f[t] \in Seq(Op)
    OBVIOUS
  <1>2. f[t] # <<>> => Tail(f[t]) \in Seq(Op)
    BY <1>1, TailView
  <1>3. \A o \in Op : Append(f[t], o) \in Seq(Op)
    BY <1>1, AppendProperties
  <1> QED
    BY <1>1, <1>2, <1>3

\* The steps keep the threads, their lists and the lock in order.
LEMMA NextLock == TypeOK /\ AttemptInv /\ FlushInv /\ [Next]_vars => LockOK'
  <1> SUFFICES ASSUME TypeOK, AttemptInv, FlushInv, [Next]_vars PROVE LockOK'
    OBVIOUS
  <1>t. LockOK
    BY DEF TypeOK, FlushTypeOK, LockOK
  <1>p. ASSUME NEW t \in Thread, NEW l \in Labels, pc' = [pc EXCEPT ![t] = l]
        PROVE  /\ pc' \in [Thread -> Labels] /\ pc'[t] = l
               /\ \A u \in Thread : u # t => pc'[u] = pc[u]
    BY <1>p, <1>t DEF LockOK, ThreadTypeOK
  <1>m. ASSUME NEW t \in Thread, NEW l \in Labels, pc' = [pc EXCEPT ![t] = l],
               UNCHANGED <<to_call, clean_up, holder, action, changed>>,
               pc[t] \notin {"flush", "flushing"}, l # "flushing",
               clean_up[t] # <<>> => l \in {"cleanup", "blocked"},
               l = "blocked" => clean_up[t] # <<>>,
               l \in {"next", "notify"} => t \in CM
        PROVE  LockOK'
    <2>1. /\ pc' \in [Thread -> Labels] /\ pc'[t] = l
          /\ \A u \in Thread : u # t => pc'[u] = pc[u]
      BY <1>p, <1>m
    <2> QED
      BY <2>1, <1>m, <1>t DEF LockOK, ThreadTypeOK, FlushInv
  <1>e. ASSUME NEW t \in Thread, holder = t, UNCHANGED <<to_call, clean_up>>,
               action' \in {"kEnqueue", "kDequeue"}, changed' \in BOOLEAN,
               \/ UNCHANGED <<holder, pc>>
               \/ holder' = Nobody /\ pc' = [pc EXCEPT ![t] = "cleanup"]
        PROVE  LockOK'
    <2>1. CASE UNCHANGED <<holder, pc>>
      BY <2>1, <1>e, <1>t DEF LockOK, ThreadTypeOK, FlushInv
    <2>2. CASE holder' = Nobody /\ pc' = [pc EXCEPT ![t] = "cleanup"]
      <3>1. "cleanup" \in Labels /\ \A u \in Thread : u # Nobody
        BY QueueAssumption DEF Labels
      <3>2. /\ pc' \in [Thread -> Labels] /\ pc'[t] = "cleanup"
            /\ \A u \in Thread : u # t => pc'[u] = pc[u]
        BY <2>2, <3>1, <1>p
      <3> QED
        BY <2>2, <3>1, <3>2, <1>e, <1>t DEF LockOK, ThreadTypeOK, FlushInv
    <2> QED
      BY <1>e, <2>1, <2>2
  <1>a. ASSUME NEW t \in Thread, NEW o \in Op, holder = t, UNCHANGED <<to_call, holder, pc>>,
               clean_up' = [clean_up EXCEPT ![t] = Append(@, o)],
               action' \in {"kEnqueue", "kDequeue"}, changed' \in BOOLEAN
        PROVE  LockOK'
    <2>1. clean_up' \in [Thread -> Seq(Op)]
      BY <1>a, <1>t, ListView DEF LockOK, ThreadTypeOK
    <2>2. \A u \in Thread : u # t => clean_up'[u] = clean_up[u]
      BY <1>a, <1>t DEF LockOK, ThreadTypeOK
    <2> QED
      BY <2>1, <2>2, <1>a, <1>t DEF LockOK, ThreadTypeOK, FlushInv
  <1>u. ASSUME UNCHANGED <<pc, to_call, clean_up, holder, action, changed>> PROVE LockOK'
    BY <1>u, <1>t DEF LockOK, ThreadTypeOK, FlushInv
  <1>1. ASSUME NEW o \in Op, TryNothing(o) PROVE LockOK'
    <2>1. /\ pc[o] = "idle" /\ pc' = [pc EXCEPT ![o] = "returned"]
          /\ UNCHANGED <<to_call, clean_up, holder, action, changed>>
      BY <1>1 DEF TryNothing, Goto, flushVars
    <2>2. o \in Thread /\ "returned" \in Labels
      BY DEF Thread, Labels
    <2>3. clean_up[o] = <<>>
      BY <2>1, <2>2 DEF FlushInv
    <2> QED
      BY <2>1, <2>2, <2>3, <1>m
  <1>2. ASSUME NEW o \in Op, TryAppend(o) PROVE LockOK'
    <2>1. /\ pc[o] = "idle" /\ pc' = [pc EXCEPT ![o] = "flush"]
          /\ UNCHANGED <<to_call, clean_up, holder, action, changed>>
      BY <1>2 DEF TryAppend, Goto, flushVars
    <2>2. o \in Thread /\ "flush" \in Labels
      BY DEF Thread, Labels
    <2>3. clean_up[o] = <<>>
      BY <2>1, <2>2 DEF FlushInv
    <2> QED
      BY <2>1, <2>2, <2>3, <1>m
  <1>3. ASSUME NEW o \in Op, TryTooLate(o) PROVE LockOK'
    <2>1. /\ pc[o] = "idle" /\ pc' = [pc EXCEPT ![o] = "returned"]
          /\ UNCHANGED <<to_call, clean_up, holder, action, changed>>
      BY <1>3 DEF TryTooLate, Goto, flushVars
    <2>2. o \in Thread /\ "returned" \in Labels
      BY DEF Thread, Labels
    <2>3. clean_up[o] = <<>>
      BY <2>1, <2>2 DEF FlushInv
    <2> QED
      BY <2>1, <2>2, <2>3, <1>m
  <1>4. ASSUME NEW o \in Op, Close(o) PROVE LockOK'
    <2>1. /\ pc[o] = "idle" /\ pc' = [pc EXCEPT ![o] = "flush"]
          /\ UNCHANGED <<to_call, clean_up, holder, action, changed>>
      BY <1>4 DEF Close, Goto, flushVars
    <2>2. o \in Thread /\ "flush" \in Labels
      BY DEF Thread, Labels
    <2>3. clean_up[o] = <<>>
      BY <2>1, <2>2 DEF FlushInv
    <2> QED
      BY <2>1, <2>2, <2>3, <1>m
  <1>5. ASSUME NEW o \in Op, CloseAndCancel(o) PROVE LockOK'
    <2>1. /\ pc[o] = "idle" /\ pc' = [pc EXCEPT ![o] = "flush"] /\ mu_free
          /\ to_call' = [to_call EXCEPT ![o] = OpsOf(Live(enq))]
          /\ UNCHANGED <<clean_up, holder, action, changed>>
      BY <1>5 DEF CloseAndCancel, Goto, flushVars
    <2>2. o \in Thread /\ "flush" \in Labels
      BY DEF Thread, Labels
    <2>3. OpsOf(Live(enq)) \in Seq(Op)
      BY VictimsView DEF TypeOK, FlushTypeOK
    <2> DEFINE v == OpsOf(Live(enq))
    <2> HIDE DEF v
    <2>4. to_call' \in [Thread -> Seq(Op)] /\ \A u \in Thread : u # o => to_call'[u] = to_call[u]
      BY <2>1, <2>2, <2>3, <1>t DEF LockOK, ThreadTypeOK, v
    <2>5. pc' \in [Thread -> Labels] /\ pc'[o] = "flush" /\ \A u \in Thread : u # o => pc'[u] = pc[u]
      BY <2>1, <2>2, <1>p
    <2> QED
      BY <2>1, <2>2, <2>4, <2>5, <1>t DEF LockOK, ThreadTypeOK, FlushInv
  <1>6. ASSUME NEW t \in Thread, RunCallback(t) PROVE LockOK'
    <2>1. /\ pc[t] = "flush" /\ to_call[t] # <<>>
          /\ to_call' = [to_call EXCEPT ![t] = Tail(@)]
          /\ UNCHANGED <<pc, clean_up, holder, action, changed>>
      BY <1>6 DEF RunCallback, flushVars
    <2>2. to_call' \in [Thread -> Seq(Op)]
      BY <2>1, <1>t, ListView DEF LockOK, ThreadTypeOK
    <2>3. \A u \in Thread : u # t => to_call'[u] = to_call[u]
      BY <2>1, <1>t DEF LockOK, ThreadTypeOK
    <2> QED
      BY <2>1, <2>2, <2>3, <1>t DEF LockOK, ThreadTypeOK, FlushInv
  <1>7. ASSUME NEW t \in Thread, FlushLock(t) PROVE LockOK'
    <2>1. /\ pc[t] = "flush" /\ pc' = [pc EXCEPT ![t] = "flushing"]
          /\ to_call[t] = <<>> /\ holder = Nobody /\ holder' = t
          /\ action' = "kEnqueue" /\ changed' = FALSE
          /\ UNCHANGED <<to_call, clean_up>>
      BY <1>7 DEF FlushLock, Goto, mu_free
    <2>2. "flushing" \in Labels
      BY DEF Labels
    <2>3. pc' \in [Thread -> Labels] /\ pc'[t] = "flushing" /\ \A u \in Thread : u # t => pc'[u] = pc[u]
      BY <2>1, <2>2, <1>p
    <2>4. \A u \in Thread : u # Nobody
      BY QueueAssumption
    <2> QED
      BY <2>1, <2>3, <2>4, <1>t DEF LockOK, ThreadTypeOK, FlushInv
  <1>8. ASSUME NEW t \in Thread, SkipCancelled(t) PROVE LockOK'
    BY <1>8, <1>u DEF SkipCancelled, flushVars, threadVars
  <1>9. ASSUME NEW t \in Thread, NoAttempt(t) PROVE LockOK'
    <2>1. holder = t /\ EndOfAttempts(t, FALSE) /\ UNCHANGED <<to_call, clean_up>>
      BY <1>9 DEF NoAttempt
    <2>2. /\ action' \in {"kEnqueue", "kDequeue"} /\ changed' \in BOOLEAN
          /\ \/ UNCHANGED <<holder, pc>>
             \/ holder' = Nobody /\ pc' = [pc EXCEPT ![t] = "cleanup"]
      BY <2>1, <1>t DEF EndOfAttempts, LoopAgain, LockOK
    <2> QED
      BY <2>1, <2>2, <1>e
  <1>10. ASSUME NEW t \in Thread, TryEnqueueAttempt(t) PROVE LockOK'
    <2> DEFINE a == Head(enq)
    <2>1. /\ holder = t /\ a \in Attempt
          /\ \/ clean_up' = [clean_up EXCEPT ![t] = Append(@, a.op)] /\ changed' = TRUE /\ action' = action
             \/ /\ clean_up' = clean_up /\ action' = "kDequeue"
                /\ changed' = (changed \/ RunEnqueue(a).result = "kProgress")
          /\ UNCHANGED <<holder, pc>>
      BY <1>10, EnqueueStep
    <2>2. to_call' = to_call
      BY <1>10 DEF TryEnqueueAttempt
    <2>3. a.op \in Op
      BY <2>1, AttemptFields
    <2> HIDE DEF a
    <2>4. /\ action' \in {"kEnqueue", "kDequeue"} /\ changed' \in BOOLEAN
      BY <2>1, <1>t DEF LockOK
    <2>5. CASE clean_up' = clean_up
      BY <2>1, <2>2, <2>4, <2>5, <1>e
    <2>6. CASE clean_up' = [clean_up EXCEPT ![t] = Append(@, a.op)]
      BY <2>1, <2>2, <2>3, <2>4, <2>6, <1>a
    <2> QED
      BY <2>1, <2>5, <2>6
  <1>11. ASSUME NEW t \in Thread, TryDequeueAttempt(t) PROVE LockOK'
    <2> DEFINE a == Head(deq)
    <2>1. /\ holder = t /\ a \in Attempt
          /\ \/ /\ clean_up' = [clean_up EXCEPT ![t] = Append(@, a.op)] /\ changed' = TRUE
                /\ UNCHANGED <<action, holder, pc>>
             \/ /\ clean_up' = clean_up /\ action' = "kEnqueue" /\ changed' = FALSE
                /\ \/ UNCHANGED <<holder, pc>>
                   \/ holder' = Nobody /\ pc' = [pc EXCEPT ![t] = "cleanup"]
      BY <1>11, DequeueStep
    <2>2. to_call' = to_call
      BY <1>11 DEF TryDequeueAttempt
    <2>3. a.op \in Op
      BY <2>1, AttemptFields
    <2> HIDE DEF a
    <2>4. /\ action' \in {"kEnqueue", "kDequeue"} /\ changed' \in BOOLEAN
      BY <2>1, <1>t DEF LockOK
    <2>5. CASE clean_up' = clean_up /\ action' = "kEnqueue" /\ changed' = FALSE
                /\ \/ UNCHANGED <<holder, pc>>
                   \/ holder' = Nobody /\ pc' = [pc EXCEPT ![t] = "cleanup"]
      BY <2>1, <2>2, <2>4, <2>5, <1>e
    <2>6. CASE clean_up' = [clean_up EXCEPT ![t] = Append(@, a.op)] /\ UNCHANGED <<holder, pc>>
      BY <2>1, <2>2, <2>3, <2>4, <2>6, <1>a
    <2> QED
      BY <2>1, <2>5, <2>6
  <1>12. ASSUME NEW t \in Thread, CleanUp(t) PROVE LockOK'
    <2>1. /\ pc[t] = "cleanup" /\ clean_up[t] # <<>>
          /\ clean_up' = [clean_up EXCEPT ![t] = Tail(@)]
          /\ UNCHANGED <<pc, to_call, holder, action, changed>>
      BY <1>12 DEF CleanUp, Cleaned, flushVars
    <2>2. clean_up' \in [Thread -> Seq(Op)]
      BY <2>1, <1>t, ListView DEF LockOK, ThreadTypeOK
    <2>3. \A u \in Thread : u # t => clean_up'[u] = clean_up[u]
      BY <2>1, <1>t DEF LockOK, ThreadTypeOK
    <2> QED
      BY <2>1, <2>2, <2>3, <1>t DEF LockOK, ThreadTypeOK, FlushInv
  <1>13. ASSUME NEW t \in Thread, CleanUpBlock(t) PROVE LockOK'
    <2>1. /\ pc[t] = "cleanup" /\ pc' = [pc EXCEPT ![t] = "blocked"] /\ clean_up[t] # <<>>
          /\ UNCHANGED <<to_call, clean_up, holder, action, changed>>
      BY <1>13 DEF CleanUpBlock, Goto, flushVars
    <2>2. "blocked" \in Labels
      BY DEF Labels
    <2> QED
      BY <2>1, <2>2, <1>m
  <1>14. ASSUME NEW t \in Thread, CleanUpWake(t) PROVE LockOK'
    <2>1. /\ pc[t] = "blocked" /\ pc' = [pc EXCEPT ![t] = "cleanup"]
          /\ clean_up' = [clean_up EXCEPT ![t] = Tail(@)]
          /\ UNCHANGED <<to_call, holder, action, changed>>
      BY <1>14 DEF CleanUpWake, Goto, Cleaned, flushVars
    <2>2. clean_up[t] # <<>> /\ "cleanup" \in Labels
      BY <2>1 DEF FlushInv, Labels
    <2>3. clean_up' \in [Thread -> Seq(Op)]
      BY <2>1, <2>2, <1>t, ListView DEF LockOK, ThreadTypeOK
    <2>4. \A u \in Thread : u # t => clean_up'[u] = clean_up[u]
      BY <2>1, <1>t DEF LockOK, ThreadTypeOK
    <2>5. pc' \in [Thread -> Labels] /\ pc'[t] = "cleanup" /\ \A u \in Thread : u # t => pc'[u] = pc[u]
      BY <2>1, <2>2, <1>p
    <2> QED
      BY <2>1, <2>3, <2>4, <2>5, <1>t DEF LockOK, ThreadTypeOK, FlushInv
  <1>15. ASSUME NEW t \in Thread, FlushReturn(t) PROVE LockOK'
    <2> DEFINE l == IF t \in CM THEN "next" ELSE "returned"
    <2>1. /\ pc[t] = "cleanup" /\ pc' = [pc EXCEPT ![t] = l] /\ clean_up[t] = <<>>
          /\ UNCHANGED <<to_call, clean_up, holder, action, changed>>
      BY <1>15 DEF FlushReturn, Goto, flushVars
    <2>2. l \in {"next", "returned"} /\ l \in Labels /\ (l = "next" => t \in CM)
      BY DEF Labels
    <2> HIDE DEF l
    <2> QED
      BY <2>1, <2>2, <1>m
  <1>16. ASSUME NEW c \in CM, StartCancel(c) PROVE LockOK'
    <2>1. /\ pc[c] = "idle" /\ pc' = [pc EXCEPT ![c] = "next"]
          /\ UNCHANGED <<to_call, clean_up, holder, action, changed>>
      BY <1>16 DEF StartCancel, Goto, flushVars
    <2>2. c \in Thread /\ "next" \in Labels
      BY DEF Thread, Labels
    <2>3. clean_up[c] = <<>>
      BY <2>1, <2>2 DEF FlushInv
    <2> QED
      BY <2>1, <2>2, <2>3, <1>m
  <1>17. ASSUME NEW c \in CM, FinishCancel(c) PROVE LockOK'
    <2>1. /\ pc[c] = "next" /\ pc' = [pc EXCEPT ![c] = "notify"]
          /\ UNCHANGED <<to_call, clean_up, holder, action, changed>>
      BY <1>17 DEF FinishCancel, Goto, flushVars
    <2>2. c \in Thread /\ "notify" \in Labels
      BY DEF Thread, Labels
    <2>3. clean_up[c] = <<>>
      BY <2>1, <2>2 DEF FlushInv
    <2> QED
      BY <2>1, <2>2, <2>3, <1>m
  <1>18. ASSUME NEW c \in CM, Notify(c) PROVE LockOK'
    <2>1. /\ pc[c] = "notify" /\ pc' = [pc EXCEPT ![c] = "returned"]
          /\ UNCHANGED <<to_call, clean_up, holder, action, changed>>
      BY <1>18 DEF Notify, Goto, flushVars
    <2>2. c \in Thread /\ "returned" \in Labels
      BY DEF Thread, Labels
    <2>3. clean_up[c] = <<>>
      BY <2>1, <2>2 DEF FlushInv
    <2> QED
      BY <2>1, <2>2, <2>3, <1>m
  <1>19. ASSUME NEW c \in CM, NEW o \in Token, Cancel(c, o) PROVE LockOK'
    <2>1. /\ pc[c] = "next" /\ UNCHANGED <<clean_up, holder, action, changed>>
      BY <1>19 DEF Cancel, flushVars
    <2>2. CASE ~(IsLive(enq, o) \/ IsLive(deq, o))
      <3>1. UNCHANGED <<pc, to_call>>
        BY <1>19, <2>2 DEF Cancel
      <3> QED
        BY <2>1, <3>1, <1>u
    <2>3. CASE IsLive(enq, o) \/ IsLive(deq, o)
      <3>1. pc' = [pc EXCEPT ![c] = "flush"] /\ to_call' = [to_call EXCEPT ![c] = <<o>>]
        BY <1>19, <2>3 DEF Cancel
      <3>2. c \in Thread /\ "flush" \in Labels /\ o \in Op
        BY DEF Thread, Labels, Op
      <3>3. to_call' \in [Thread -> Seq(Op)] /\ \A u \in Thread : u # c => to_call'[u] = to_call[u]
        BY <3>1, <3>2, <1>t DEF LockOK, ThreadTypeOK
      <3>4. pc' \in [Thread -> Labels] /\ pc'[c] = "flush" /\ \A u \in Thread : u # c => pc'[u] = pc[u]
        BY <3>1, <3>2, <1>p
      <3> QED
        BY <2>1, <3>2, <3>3, <3>4, <1>t DEF LockOK, ThreadTypeOK, FlushInv
    <2> QED
      BY <2>2, <2>3
  <1>20. CASE UNCHANGED vars
    BY <1>20, <1>u DEF vars, flushVars, threadVars
  <1> QED
    BY <1>1, <1>2, <1>3, <1>4, <1>5, <1>6, <1>7, <1>8, <1>9, <1>10, <1>11, <1>12, <1>13, <1>14, <1>15, <1>16, <1>17, <1>18, <1>19, <1>20 DEF Next, Call, FlushStep, CancelStep

(***************************************************************************)
(* Wakeups and the capacity.                                               *)
(***************************************************************************)
BaseInv == TypeOK /\ AttemptInv /\ FlushInv

\* A step that lets an attempt go on leaves somebody who is going to flush.
LEMMA NextWake == BaseInv /\ WakeInv /\ [Next]_vars => WakeInv'
  <1> SUFFICES ASSUME BaseInv, WakeInv, [Next]_vars PROVE WakeInv'
    OBVIOUS
  <1>n. \A t \in Thread : t # Nobody
    BY QueueAssumption
  <1>p. pc \in [Thread -> Labels]
    BY DEF BaseInv, TypeOK, ThreadTypeOK
  <1>f. ASSUME NEW t \in Thread, pc' = [pc EXCEPT ![t] = "flush"], holder = Nobody, holder' = holder
        PROVE  WakeInv'
    <2>1. pc'[t] = "flush"
      BY <1>f, <1>p
    <2> QED
      BY <2>1, <1>f DEF WakeInv
  <1>q. ASSUME NEW t \in Thread, pc[t] # "flush", \E l \in Labels : pc' = [pc EXCEPT ![t] = l],
               UNCHANGED <<enq, deq, buffer, closed, holder, action, changed>>
        PROVE  WakeInv'
    <2>1. \A u \in Thread : pc[u] = "flush" => pc'[u] = "flush"
      BY <1>q, <1>p
    <2> QED
      BY <2>1, <1>q DEF WakeInv, EnqueueWaits, DequeueWaits
  <1>u. ASSUME UNCHANGED <<enq, deq, buffer, closed, holder, action, changed, pc>> PROVE WakeInv'
    BY <1>u DEF WakeInv, EnqueueWaits, DequeueWaits
  <1>1. ASSUME NEW o \in Op, TryNothing(o) PROVE WakeInv'
    <2>1. /\ pc[o] # "flush" /\ \E l \in Labels : pc' = [pc EXCEPT ![o] = l]
          /\ UNCHANGED <<enq, deq, buffer, closed, holder, action, changed>>
      BY <1>1 DEF TryNothing, Goto, Labels, attemptVars, dataVars, flushVars
    <2>2. o \in Thread
      BY DEF Thread
    <2> QED
      BY <2>1, <2>2, <1>q
  <1>2. ASSUME NEW o \in Op, TryAppend(o) PROVE WakeInv'
    <2>1. pc' = [pc EXCEPT ![o] = "flush"] /\ holder = Nobody /\ holder' = holder
      BY <1>2 DEF TryAppend, Goto, mu_free, flushVars
    <2>2. o \in Thread
      BY DEF Thread
    <2> QED
      BY <2>1, <2>2, <1>f
  <1>3. ASSUME NEW o \in Op, TryTooLate(o) PROVE WakeInv'
    <2>1. /\ pc[o] # "flush" /\ \E l \in Labels : pc' = [pc EXCEPT ![o] = l]
          /\ UNCHANGED <<enq, deq, buffer, closed, holder, action, changed>>
      BY <1>3 DEF TryTooLate, Goto, Labels, attemptVars, dataVars, flushVars
    <2>2. o \in Thread
      BY DEF Thread
    <2> QED
      BY <2>1, <2>2, <1>q
  <1>4. ASSUME NEW o \in Op, Close(o) PROVE WakeInv'
    <2>1. pc' = [pc EXCEPT ![o] = "flush"] /\ holder = Nobody /\ holder' = holder
      BY <1>4 DEF Close, Goto, mu_free, flushVars
    <2>2. o \in Thread
      BY DEF Thread
    <2> QED
      BY <2>1, <2>2, <1>f
  <1>5. ASSUME NEW o \in Op, CloseAndCancel(o) PROVE WakeInv'
    <2>1. pc' = [pc EXCEPT ![o] = "flush"] /\ holder = Nobody /\ holder' = holder
      BY <1>5 DEF CloseAndCancel, Goto, mu_free, flushVars
    <2>2. o \in Thread
      BY DEF Thread
    <2> QED
      BY <2>1, <2>2, <1>f
  <1>6. ASSUME NEW t \in Thread, RunCallback(t) PROVE WakeInv'
    BY <1>6, <1>u DEF RunCallback, dataVars, attemptVars, flushVars, threadVars, Goto
  <1>7. ASSUME NEW t \in Thread, FlushLock(t) PROVE WakeInv'
    <2>1. holder' = t /\ action' = "kEnqueue"
      BY <1>7 DEF FlushLock
    <2> QED
      BY <2>1, <1>n DEF WakeInv
  <1>8. ASSUME NEW t \in Thread, SkipCancelled(t) PROVE WakeInv'
    <2>1. /\ holder = t
          /\ \/ action = "kEnqueue"
             \/ enq' = enq
          /\ UNCHANGED <<holder, action, changed, buffer, closed>>
      BY <1>8 DEF SkipCancelled, flushVars, dataVars
    <2> QED
      BY <2>1, <1>n DEF WakeInv, EnqueueWaits
  <1>9. ASSUME NEW t \in Thread, NoAttempt(t) PROVE WakeInv'
    <2>1. /\ holder = t /\ EndOfAttempts(t, FALSE)
          /\ UNCHANGED <<enq, deq, buffer, closed>>
      BY <1>9 DEF NoAttempt, attemptVars, dataVars
    <2>2. CASE action = "kEnqueue"
      <3>1. enq = <<>> /\ holder' = t
        BY <1>9, <2>1, <2>2 DEF NoAttempt, EndOfAttempts
      <3> QED
        BY <2>1, <3>1, <1>n DEF WakeInv, EnqueueWaits
    <2>3. CASE action # "kEnqueue"
      <3>1. /\ deq = <<>> /\ action = "kDequeue" /\ action' = "kEnqueue"
            /\ ~changed \/ holder' = t
        BY <1>9, <2>1, <2>3 DEF NoAttempt, EndOfAttempts, LoopAgain, BaseInv, TypeOK, FlushTypeOK
      <3> QED
        BY <2>1, <3>1, <1>n DEF WakeInv, EnqueueWaits, DequeueWaits
    <2> QED
      BY <2>2, <2>3
  <1>10. ASSUME NEW t \in Thread, TryEnqueueAttempt(t) PROVE WakeInv'
    <2> DEFINE a == Head(enq)
               r == RunEnqueue(a)
    <2>1. /\ holder = t /\ action = "kEnqueue" /\ enq # <<>> /\ a \in Attempt /\ ~a.cancelled
          /\ EnqueueAttemptOK(a) /\ BufferOK /\ holder' = holder
          /\ \/ action' = action
             \/ /\ r.result # "kComplete" /\ enq' = <<r.attempt>> \o Tail(enq)
                /\ changed' = (changed \/ r.result = "kProgress")
      BY <1>10, EnqueueStep DEF BaseInv
    <2>2. /\ r.result \in {"kComplete", "kProgress", "kNoProgress"} /\ r.attempt \in Attempt
          /\ r.attempt.cancelled = a.cancelled
          /\ r.pushes \in Seq(Element) /\ Len(r.pushes) = Puts(a)
          /\ r.closes = (a.op \in Closer)
          /\ r.result # "kComplete" => a.op \in Enqueuer
          /\ r.result = "kNoProgress" => Puts(a) = 0 /\ Len(buffer) >= capacity /\ ~closed
      BY <2>1, RunEnqueueFacts
    <2>3. buffer' = buffer \o r.pushes /\ closed' = (closed \/ r.closes)
      BY <1>10 DEF TryEnqueueAttempt
    <2> HIDE DEF a, r
    <2>4. ASSUME action' # action, ~changed' PROVE EnqueueWaits'
      <3>1. r.result = "kNoProgress" /\ enq' = <<r.attempt>> \o Tail(enq)
        BY <2>1, <2>2, <2>4
      <3>2. r.pushes = <<>>
        BY <3>1, <2>2, EmptySeq
      <3>3. buffer' = buffer
        BY <3>2, <2>1, <2>3, ConcatEmptySeq DEF BufferOK
      <3>4. a.op \notin Closer
        BY <3>1, <2>2, QueueAssumption DEF Op
      <3>5. ~closed' /\ Len(buffer') >= capacity
        BY <3>1, <3>3, <3>4, <2>2, <2>3
      <3>6. enq \in Seq(Attempt)
        BY DEF BaseInv, TypeOK, FlushTypeOK
      <3>7. Head(enq') = r.attempt
        BY <3>1, <3>6, <2>1, <2>2, NewHeadView
      <3> QED
        BY <3>5, <3>7, <2>1, <2>2 DEF EnqueueWaits
    <2> QED
      BY <2>1, <2>4, <1>n DEF WakeInv
  <1>11. ASSUME NEW t \in Thread, TryDequeueAttempt(t) PROVE WakeInv'
    <2> DEFINE a == Head(deq)
               r == RunDequeue(a)
    <2>1. /\ holder = t /\ action = "kDequeue" /\ deq # <<>> /\ a \in Attempt /\ ~a.cancelled
          /\ DequeueAttemptOK(a) /\ BufferOK
          /\ \/ changed' = TRUE /\ holder' = holder
             \/ /\ r.result # "kComplete" /\ deq' = <<r.attempt>> \o Tail(deq)
                /\ action' = "kEnqueue"
                /\ \/ holder' = holder
                   \/ r.result # "kProgress" /\ ~changed /\ holder' = Nobody
      BY <1>11, DequeueStep DEF BaseInv
    <2>2. /\ r.result \in {"kComplete", "kProgress", "kNoProgress"} /\ r.attempt \in Attempt
          /\ r.attempt.cancelled = a.cancelled
          /\ r.result = "kNoProgress" => ~closed /\ buffer = <<>> /\ r.buffer = <<>>
      BY <2>1, RunDequeueFacts
    <2>3. buffer' = r.buffer /\ closed' = closed /\ enq' = enq
      BY <1>11 DEF TryDequeueAttempt
    <2> HIDE DEF a, r
    <2>4. ASSUME holder' = Nobody PROVE EnqueueWaits' /\ DequeueWaits'
      <3>1. r.result = "kNoProgress" /\ ~changed /\ deq' = <<r.attempt>> \o Tail(deq)
        BY <2>1, <2>2, <2>4, <1>n
      <3>2. EnqueueWaits
        BY <3>1, <2>1, <1>n DEF WakeInv
      <3>3. buffer' = buffer /\ buffer = <<>> /\ ~closed
        BY <3>1, <2>2, <2>3
      <3>4. EnqueueWaits'
        BY <3>2, <3>3, <2>3 DEF EnqueueWaits
      <3>5. deq \in Seq(Attempt)
        BY DEF BaseInv, TypeOK, FlushTypeOK
      <3>6. Head(deq') = r.attempt
        BY <3>1, <3>5, <2>1, <2>2, NewHeadView
      <3> QED
        BY <3>3, <3>4, <3>6, <2>1, <2>2, <2>3 DEF DequeueWaits
    <2> QED
      BY <2>1, <2>4, <1>n DEF WakeInv
  <1>12. ASSUME NEW t \in Thread, CleanUp(t) PROVE WakeInv'
    BY <1>12, <1>u DEF CleanUp, Cleaned, dataVars, attemptVars, flushVars, threadVars, Goto
  <1>13. ASSUME NEW t \in Thread, CleanUpBlock(t) PROVE WakeInv'
    <2>1. /\ pc[t] # "flush" /\ \E l \in Labels : pc' = [pc EXCEPT ![t] = l]
          /\ UNCHANGED <<enq, deq, buffer, closed, holder, action, changed>>
      BY <1>13 DEF CleanUpBlock, Goto, Labels, attemptVars, dataVars, flushVars
    <2>2. t \in Thread
      BY DEF Thread
    <2> QED
      BY <2>1, <2>2, <1>q
  <1>14. ASSUME NEW t \in Thread, CleanUpWake(t) PROVE WakeInv'
    <2>1. /\ pc[t] # "flush" /\ \E l \in Labels : pc' = [pc EXCEPT ![t] = l]
          /\ UNCHANGED <<enq, deq, buffer, closed, holder, action, changed>>
      BY <1>14 DEF CleanUpWake, Goto, Labels, attemptVars, dataVars, flushVars, Cleaned
    <2>2. t \in Thread
      BY DEF Thread
    <2> QED
      BY <2>1, <2>2, <1>q
  <1>15. ASSUME NEW t \in Thread, FlushReturn(t) PROVE WakeInv'
    <2>1. /\ pc[t] # "flush" /\ \E l \in Labels : pc' = [pc EXCEPT ![t] = l]
          /\ UNCHANGED <<enq, deq, buffer, closed, holder, action, changed>>
      BY <1>15 DEF FlushReturn, Goto, Labels, attemptVars, dataVars, flushVars
    <2>2. t \in Thread
      BY DEF Thread
    <2> QED
      BY <2>1, <2>2, <1>q
  <1>16. ASSUME NEW c \in CM, StartCancel(c) PROVE WakeInv'
    <2>1. /\ pc[c] # "flush" /\ \E l \in Labels : pc' = [pc EXCEPT ![c] = l]
          /\ UNCHANGED <<enq, deq, buffer, closed, holder, action, changed>>
      BY <1>16 DEF StartCancel, Goto, Labels, attemptVars, dataVars, flushVars
    <2>2. c \in Thread
      BY DEF Thread
    <2> QED
      BY <2>1, <2>2, <1>q
  <1>17. ASSUME NEW c \in CM, FinishCancel(c) PROVE WakeInv'
    <2>1. /\ pc[c] # "flush" /\ \E l \in Labels : pc' = [pc EXCEPT ![c] = l]
          /\ UNCHANGED <<enq, deq, buffer, closed, holder, action, changed>>
      BY <1>17 DEF FinishCancel, Goto, Labels, attemptVars, dataVars, flushVars
    <2>2. c \in Thread
      BY DEF Thread
    <2> QED
      BY <2>1, <2>2, <1>q
  <1>18. ASSUME NEW c \in CM, Notify(c) PROVE WakeInv'
    <2>1. /\ pc[c] # "flush" /\ \E l \in Labels : pc' = [pc EXCEPT ![c] = l]
          /\ UNCHANGED <<enq, deq, buffer, closed, holder, action, changed>>
      BY <1>18 DEF Notify, Goto, Labels, attemptVars, dataVars, flushVars
    <2>2. c \in Thread
      BY DEF Thread
    <2> QED
      BY <2>1, <2>2, <1>q
  <1>19. ASSUME NEW c \in CM, NEW o \in Token, Cancel(c, o) PROVE WakeInv'
    <2>1. CASE ~(IsLive(enq, o) \/ IsLive(deq, o))
      <3>1. UNCHANGED <<enq, deq, buffer, closed, holder, action, changed, pc>>
        BY <1>19, <2>1 DEF Cancel, attemptVars, flushVars
      <3> QED
        BY <3>1, <1>u
    <2>2. CASE IsLive(enq, o) \/ IsLive(deq, o)
      <3>1. pc' = [pc EXCEPT ![c] = "flush"] /\ holder = Nobody /\ holder' = holder
        BY <1>19, <2>2 DEF Cancel, mu_free, flushVars
      <3>2. c \in Thread
        BY DEF Thread
      <3> QED
        BY <3>1, <3>2, <1>f
    <2> QED
      BY <2>1, <2>2
  <1>20. CASE UNCHANGED vars
    BY <1>20, <1>u DEF vars, dataVars, attemptVars, flushVars, threadVars
  <1> QED
    BY <1>1, <1>2, <1>3, <1>4, <1>5, <1>6, <1>7, <1>8, <1>9, <1>10, <1>11, <1>12, <1>13, <1>14, <1>15, <1>16, <1>17, <1>18, <1>19, <1>20 DEF Next, Call, FlushStep, CancelStep

\* Only a closed queue grows beyond its capacity.
LEMMA NextCapacity == BaseInv /\ CapacityInv /\ [Next]_vars => CapacityInv'
  <1> SUFFICES ASSUME BaseInv, CapacityInv, [Next]_vars PROVE CapacityInv'
    OBVIOUS
  <1>u. ASSUME UNCHANGED <<buffer, closed>> PROVE CapacityInv'
    BY <1>u DEF CapacityInv
  <1>1. ASSUME NEW o \in Op, TryNothing(o) PROVE CapacityInv'
    BY <1>1, <1>u DEF TryNothing, dataVars
  <1>2. ASSUME NEW o \in Op, TryAppend(o) PROVE CapacityInv'
    BY <1>2, <1>u DEF TryAppend, dataVars
  <1>3. ASSUME NEW o \in Op, TryTooLate(o) PROVE CapacityInv'
    BY <1>3, <1>u DEF TryTooLate, dataVars
  <1>4. ASSUME NEW o \in Op, Close(o) PROVE CapacityInv'
    BY <1>4, <1>u DEF Close, dataVars
  <1>5. ASSUME NEW o \in Op, CloseAndCancel(o) PROVE CapacityInv'
    BY <1>5 DEF CloseAndCancel, CapacityInv
  <1>6. ASSUME NEW t \in Thread, RunCallback(t) PROVE CapacityInv'
    BY <1>6, <1>u DEF RunCallback, dataVars
  <1>7. ASSUME NEW t \in Thread, FlushLock(t) PROVE CapacityInv'
    BY <1>7, <1>u DEF FlushLock, dataVars
  <1>8. ASSUME NEW t \in Thread, SkipCancelled(t) PROVE CapacityInv'
    BY <1>8, <1>u DEF SkipCancelled, dataVars
  <1>9. ASSUME NEW t \in Thread, NoAttempt(t) PROVE CapacityInv'
    BY <1>9, <1>u DEF NoAttempt, EndOfAttempts, dataVars
  <1>10. ASSUME NEW t \in Thread, TryEnqueueAttempt(t) PROVE CapacityInv'
    <2> DEFINE a == Head(enq)
               r == RunEnqueue(a)
    <2>1. a \in Attempt /\ EnqueueAttemptOK(a) /\ BufferOK
      BY <1>10, EnqueueStep DEF BaseInv
    <2>2. r.pushes \in Seq(Element) /\ Len(r.pushes) = Puts(a) /\ Puts(a) <= Room /\ Puts(a) \in Nat
      BY <2>1, RunEnqueueFacts
    <2>3. buffer' = buffer \o r.pushes /\ closed' = (closed \/ r.closes)
      BY <1>10 DEF TryEnqueueAttempt
    <2> HIDE DEF a, r
    <2>a. buffer \in Seq(Element)
      BY <2>1 DEF BufferOK
    <2>b. Len(buffer) \in Nat
      BY <2>a, LenProperties
    <2>c. capacity \in Nat
      BY QueueAssumption
    <2>4. buffer \in Seq(Element) /\ Len(buffer) \in Nat /\ capacity \in Nat
      BY <2>a, <2>b, <2>c
    <2>d. r.pushes \in Seq(Element)
      BY <2>2
    <2>e. Len(buffer \o r.pushes) = Len(buffer) + Len(r.pushes)
      BY <2>a, <2>d, ConcatProperties
    <2>5. Len(buffer') = Len(buffer) + Puts(a)
      BY <2>2, <2>3, <2>e
    <2>6. Len(buffer) <= capacity => Len(buffer) + Room <= capacity /\ Room \in Nat
      BY <2>4 DEF Room
    <2>7. Len(buffer) <= capacity => Len(buffer') <= capacity
      BY <2>2, <2>4, <2>5, <2>6
    <2> QED
      BY <2>3, <2>7 DEF CapacityInv
  <1>11. ASSUME NEW t \in Thread, TryDequeueAttempt(t) PROVE CapacityInv'
    <2> DEFINE a == Head(deq)
               r == RunDequeue(a)
    <2>1. a \in Attempt /\ DequeueAttemptOK(a) /\ BufferOK
      BY <1>11, DequeueStep DEF BaseInv
    <2>2. r.buffer \in Seq(Element) /\ (closed \/ Len(r.buffer) <= Len(buffer))
      BY <2>1, RunDequeueFacts
    <2>3. buffer' = r.buffer /\ closed' = closed
      BY <1>11 DEF TryDequeueAttempt
    <2> HIDE DEF a, r
    <2>4. buffer \in Seq(Element) /\ capacity \in Nat
      BY <2>1, QueueAssumption DEF BufferOK
    <2>5. Len(buffer) \in Nat /\ Len(r.buffer) \in Nat
      BY <2>2, <2>4, LenProperties
    <2> QED
      BY <2>2, <2>3, <2>4, <2>5 DEF CapacityInv
  <1>12. ASSUME NEW t \in Thread, CleanUp(t) PROVE CapacityInv'
    BY <1>12, <1>u DEF CleanUp, Cleaned, dataVars
  <1>13. ASSUME NEW t \in Thread, CleanUpBlock(t) PROVE CapacityInv'
    BY <1>13, <1>u DEF CleanUpBlock, dataVars
  <1>14. ASSUME NEW t \in Thread, CleanUpWake(t) PROVE CapacityInv'
    BY <1>14, <1>u DEF CleanUpWake, Cleaned, dataVars
  <1>15. ASSUME NEW t \in Thread, FlushReturn(t) PROVE CapacityInv'
    BY <1>15, <1>u DEF FlushReturn, dataVars
  <1>16. ASSUME NEW c \in CM, StartCancel(c) PROVE CapacityInv'
    BY <1>16, <1>u DEF StartCancel, dataVars
  <1>17. ASSUME NEW c \in CM, FinishCancel(c) PROVE CapacityInv'
    BY <1>17, <1>u DEF FinishCancel, dataVars
  <1>18. ASSUME NEW c \in CM, Notify(c) PROVE CapacityInv'
    BY <1>18, <1>u DEF Notify, dataVars
  <1>19. ASSUME NEW c \in CM, NEW o \in Token, Cancel(c, o) PROVE CapacityInv'
    BY <1>19, <1>u DEF Cancel, dataVars
  <1>20. CASE UNCHANGED vars
    BY <1>20, <1>u DEF vars, dataVars
  <1> QED
    BY <1>1, <1>2, <1>3, <1>4, <1>5, <1>6, <1>7, <1>8, <1>9, <1>10, <1>11, <1>12, <1>13, <1>14, <1>15, <1>16, <1>17, <1>18, <1>19, <1>20 DEF Next, Call, FlushStep, CancelStep


\* Initially all of them hold.
LEMMA InitBase == Init => BaseInv /\ WakeInv /\ CapacityInv
  <1> SUFFICES ASSUME Init PROVE BaseInv /\ WakeInv /\ CapacityInv
    OBVIOUS
  <1>1. CMTypeOK
    BY DEF Init, CMInit, CMTypeOK
  <1>3. /\ enq = <<>> /\ deq = <<>> /\ buffer = <<>> /\ holder = Nobody
        /\ action = "kEnqueue" /\ changed = FALSE
        /\ pushed = <<>> /\ popped = <<>> /\ lost = {} /\ closed = FALSE
    BY DEF Init
  <1>a. <<>> \in Seq(Attempt) /\ <<>> \in Seq(Element)
    BY EmptySeq
  <1>b. DataTypeOK
    BY <1>3, <1>a DEF DataTypeOK
  <1>c. st = [o \in Op |-> "ok"] /\ got = [o \in Op |-> <<>>] /\ done = [o \in Op |-> 0]
    BY DEF Init
  <1>d. OpTypeOK
    BY <1>a, <1>c DEF OpTypeOK
  <1>2. DataTypeOK /\ OpTypeOK
    BY <1>b, <1>d
  <1>4. FlushTypeOK
    BY <1>3, <1>a DEF FlushTypeOK
  <1>5. PICK script \in Scripts : pc = [t \in Thread |-> IF t \in script THEN "idle" ELSE "absent"]
    BY DEF Init
  <1>6. /\ pc \in [Thread -> Labels] /\ \A t \in Thread : pc[t] \in {"idle", "absent"}
    BY <1>5 DEF Labels
  <1>7. /\ to_call = [t \in Thread |-> <<>>] /\ clean_up = [t \in Thread |-> <<>>]
    BY DEF Init
  <1>8. ThreadTypeOK
    BY <1>6, <1>7 DEF ThreadTypeOK
  <1>9. AttemptInv
    BY <1>3 DEF AttemptInv
  <1>10. FlushInv
    BY <1>3, <1>6, <1>7, QueueAssumption DEF FlushInv
  <1>11. WakeInv
    BY <1>3 DEF WakeInv, EnqueueWaits, DequeueWaits
  <1>12. CapacityInv
    BY <1>3, QueueAssumption DEF CapacityInv
  <1> QED
    BY <1>1, <1>2, <1>4, <1>8, <1>9, <1>10, <1>11, <1>12 DEF BaseInv, TypeOK

\* The steps keep the types, the attempts and the lock.
LEMMA NextBase == BaseInv /\ [Next]_vars => BaseInv'
  <1> SUFFICES ASSUME BaseInv, [Next]_vars PROVE BaseInv'
    OBVIOUS
  <1>1. TypeOK /\ AttemptInv /\ FlushInv /\ CMTypeOK
    BY DEF BaseInv, TypeOK
  <1>2. CMTypeOK'
    BY <1>1, NextCMType
  <1>3. DataTypeOK' /\ OpTypeOK'
    BY <1>1, NextDataType, NextOpType
  <1>4. AttemptsOK' /\ LockOK'
    BY <1>1, NextAttemptsOK, NextLock
  <1>5. FlushTypeOK' /\ ThreadTypeOK' /\ AttemptInv' /\ FlushInv'
    BY <1>4 DEF AttemptsOK, EnqueuesOK, DequeuesOK, LockOK, FlushTypeOK, AttemptInv
  <1> QED
    BY <1>2, <1>3, <1>5 DEF BaseInv, TypeOK

\* The base of the inductive invariant.
LEMMA BaseInvariance == Spec => [](BaseInv /\ WakeInv /\ CapacityInv)
  <1>1. BaseInv /\ WakeInv /\ CapacityInv /\ [Next]_vars => (BaseInv /\ WakeInv /\ CapacityInv)'
    BY NextBase, NextWake, NextCapacity
  <1> QED
    BY <1>1, InitBase, PTL DEF Spec

(***************************************************************************)
(* The capacity, and the wakeups.                                          *)
(***************************************************************************)

\* The types hold, and the queue keeps within its capacity until it is closed.
THEOREM WithinCapacity == Spec => []WithinCapacityUntilClosed
  <1>1. BaseInv /\ CapacityInv => WithinCapacityUntilClosed
    BY DEF BaseInv, CapacityInv, WithinCapacityUntilClosed
  <1> QED
    BY <1>1, BaseInvariance, PTL

\* When no thread is going to flush, the attempts at the front have to wait.
THEOREM WakeupsAreKept == Spec => []NoLostWakeup
  <1>1. BaseInv /\ WakeInv => NoLostWakeup
    <2> SUFFICES ASSUME BaseInv, WakeInv, \A t \in Thread : pc[t] \notin {"flush", "flushing"}
                 PROVE  EnqueueWaits /\ DequeueWaits
      BY DEF NoLostWakeup, EnqueueWaits, DequeueWaits
    <2>1. \A t \in Thread : holder # t
      BY DEF BaseInv, FlushInv
    <2>2. holder = Nobody
      BY <2>1 DEF BaseInv, TypeOK, FlushTypeOK
    <2> QED
      BY <2>2 DEF WakeInv
  <1> QED
    BY <1>1, BaseInvariance, PTL

(***************************************************************************)
(* Where a done callback is: what the operations on the queues of attempts *)
(* and on the lists do to it.                                              *)
(***************************************************************************)

\* The first attempt leaves.
LEMMA TailPlaces ==
  ASSUME NEW s \in Seq(Attempt), s # <<>>, OpsApart(s)
  PROVE  /\ OpsApart(Tail(s)) /\ On(s, Head(s).op)
         /\ ~Head(s).cancelled => IsLive(s, Head(s).op)
         /\ Head(s).cancelled => ~IsLive(s, Head(s).op)
         /\ \A o : On(Tail(s), o) <=> On(s, o) /\ o # Head(s).op
         /\ \A o : IsLive(Tail(s), o) <=> IsLive(s, o) /\ o # Head(s).op
  <1> DEFINE u == Tail(s)
  <1>1. /\ Head(s) = s[1] /\ 1 \in 1..Len(s)
        /\ \A i \in 1..Len(u) : i + 1 \in 1..Len(s) /\ u[i] = s[i + 1]
        /\ \A i \in 1..Len(s) : i # 1 => i - 1 \in 1..Len(u) /\ u[i - 1] = s[i]
    BY TailView
  <1>2. \A i, j \in 1..Len(u) : i + 1 = j + 1 => i = j
    OBVIOUS
  <1>3. \A i \in 1..Len(u) : i + 1 # 1
    OBVIOUS
  <1> HIDE DEF u
  <1>4. OpsApart(u)
    BY <1>1, <1>2 DEF OpsApart
  <1>5. \A i \in 1..Len(s) : s[i].op = s[1].op => i = 1
    BY <1>1 DEF OpsApart
  <1>6. \A o : On(u, o) <=> On(s, o) /\ o # s[1].op
    BY <1>1, <1>3, <1>5 DEF On
  <1>7. \A o : IsLive(u, o) <=> IsLive(s, o) /\ o # s[1].op
    BY <1>1, <1>3, <1>5 DEF IsLive
  <1>8. /\ On(s, s[1].op) /\ (~s[1].cancelled => IsLive(s, s[1].op))
        /\ s[1].cancelled => ~IsLive(s, s[1].op)
    BY <1>1, <1>5 DEF On, IsLive
  <1> QED
    BY <1>1, <1>4, <1>6, <1>7, <1>8 DEF u

\* The first attempt stays, and has got on.
LEMMA NewHeadPlaces ==
  ASSUME NEW s \in Seq(Attempt), s # <<>>, OpsApart(s), NEW b \in Attempt,
         b.op = Head(s).op, b.cancelled = Head(s).cancelled
  PROVE  /\ OpsApart(<<b>> \o Tail(s))
         /\ \A o : On(<<b>> \o Tail(s), o) <=> On(s, o)
         /\ \A o : IsLive(<<b>> \o Tail(s), o) <=> IsLive(s, o)
  <1> DEFINE u == <<b>> \o Tail(s)
  <1>1. /\ Head(s) = s[1] /\ 1 \in 1..Len(s)
    BY TailView
  <1>2. Len(u) = Len(s) /\ u[1] = b /\ \A i \in 1..Len(s) : i # 1 => u[i] = s[i]
    BY NewHeadView
  <1> HIDE DEF u
  <1>3. \A i \in 1..Len(s) : u[i].op = s[i].op /\ u[i].cancelled = s[i].cancelled
    BY <1>1, <1>2
  <1>4. OpsApart(u)
    BY <1>2, <1>3 DEF OpsApart
  <1>5. \A o : (On(u, o) <=> On(s, o)) /\ (IsLive(u, o) <=> IsLive(s, o))
    BY <1>2, <1>3 DEF On, IsLive
  <1> QED
    BY <1>4, <1>5 DEF u

\* A new attempt comes.
LEMMA AppendPlaces ==
  ASSUME NEW s \in Seq(Attempt), OpsApart(s), NEW x \in Attempt, ~On(s, x.op), ~x.cancelled
  PROVE  /\ OpsApart(Append(s, x))
         /\ \A o : On(Append(s, x), o) <=> On(s, o) \/ o = x.op
         /\ \A o : IsLive(Append(s, x), o) <=> IsLive(s, o) \/ o = x.op
  <1> DEFINE u == Append(s, x)
             n == Len(s) + 1
  <1>1. /\ \A i \in 1..Len(s) : u[i] = s[i] /\ i \in 1..Len(u)
        /\ u[n] = x /\ n \in 1..Len(u)
        /\ \A i \in 1..Len(u) : i \in 1..Len(s) \/ i = n
    BY AppendView
  <1> HIDE DEF u, n
  <1>2. OpsApart(u)
    BY <1>1 DEF OpsApart, On
  <1>3. \A o : (On(u, o) <=> On(s, o) \/ o = x.op)
    BY <1>1 DEF On
  <1>4. \A o : (IsLive(u, o) <=> IsLive(s, o) \/ o = x.op)
    BY <1>1 DEF IsLive
  <1> QED
    BY <1>2, <1>3, <1>4 DEF u

\* An attempt, or every attempt, is cancelled.
LEMMA MarkPlaces ==
  ASSUME NEW s \in Seq(Attempt), OpsApart(s), NEW x
  PROVE  /\ OpsApart(Mark(s, x)) /\ OpsApart(CancelAll(s))
         /\ \A o : On(Mark(s, x), o) <=> On(s, o)
         /\ \A o : On(CancelAll(s), o) <=> On(s, o)
         /\ \A o : IsLive(Mark(s, x), o) <=> IsLive(s, o) /\ o # x
         /\ \A o : ~IsLive(CancelAll(s), o)
  <1> DEFINE m == Mark(s, x)
             k == CancelAll(s)
  <1>1. /\ Len(m) = Len(s)
        /\ \A i \in 1..Len(s) :
             m[i].op = s[i].op /\ (m[i].cancelled <=> s[i].cancelled \/ s[i].op = x)
    BY MarkView
  <1>2. /\ Len(k) = Len(s)
        /\ \A i \in 1..Len(s) : k[i].op = s[i].op /\ k[i].cancelled
    BY CancelAllView
  <1> HIDE DEF m, k
  <1>3. OpsApart(m) /\ OpsApart(k)
    BY <1>1, <1>2 DEF OpsApart
  <1>4. \A o : (On(m, o) <=> On(s, o)) /\ (On(k, o) <=> On(s, o))
    BY <1>1, <1>2 DEF On
  <1>5. \A o : (IsLive(m, o) <=> IsLive(s, o) /\ o # x) /\ ~IsLive(k, o)
    BY <1>1, <1>2 DEF IsLive
  <1> QED
    BY <1>3, <1>4, <1>5 DEF m, k

\* The first operation leaves a list.
LEMMA ListTail ==
  ASSUME NEW f \in [Thread -> Seq(Op)], NEW t \in Thread, f[t] # <<>>, ListedOnce(f)
  PROVE  LET g == [f EXCEPT ![t] = Tail(@)] IN
         /\ Head(f[t]) \in Op /\ Listed(f, Head(f[t]))
         /\ ListedOnce(g)
         /\ \A o : Listed(g, o) <=> Listed(f, o) /\ o # Head(f[t])
  <1> DEFINE g == [f EXCEPT ![t] = Tail(@)]
             u == Tail(f[t])
  <1>1. f[t] \in Seq(Op)
    OBVIOUS
  <1>2. /\ Head(f[t]) = f[t][1] /\ Head(f[t]) \in Op /\ 1 \in 1..Len(f[t])
        /\ \A i \in 1..Len(u) : i + 1 \in 1..Len(f[t]) /\ u[i] = f[t][i + 1]
        /\ \A i \in 1..Len(f[t]) : i # 1 => i - 1 \in 1..Len(u) /\ u[i - 1] = f[t][i]
    BY <1>1, TailView
  <1>3. g[t] = u /\ \A v \in Thread : v # t => g[v] = f[v]
    OBVIOUS
  <1>4. \A i, j \in 1..Len(u) : i + 1 = j + 1 => i = j
    OBVIOUS
  <1>5. \A i \in 1..Len(u) : i + 1 # 1
    OBVIOUS
  <1> HIDE DEF g, u
  <1>6. ListedOnce(g)
    <2> SUFFICES ASSUME NEW v \in Thread, NEW w \in Thread, NEW i \in 1..Len(g[v]),
                        NEW j \in 1..Len(g[w]), g[v][i] = g[w][j]
                 PROVE  v = w /\ i = j
      BY DEF ListedOnce
    <2>1. PICK k \in 1..Len(f[v]) : f[v][k] = g[v][i] /\ k = (IF v = t THEN i + 1 ELSE i)
      BY <1>2, <1>3
    <2>2. PICK l \in 1..Len(f[w]) : f[w][l] = g[w][j] /\ l = (IF w = t THEN j + 1 ELSE j)
      BY <1>2, <1>3
    <2>3. v = w /\ k = l
      BY <2>1, <2>2 DEF ListedOnce
    <2> QED
      BY <2>1, <2>2, <2>3
  <1>7. \A v \in Thread : \A i \in 1..Len(f[v]) : f[v][i] = f[t][1] => v = t /\ i = 1
    BY <1>2 DEF ListedOnce
  <1>8. ASSUME NEW o, Listed(g, o) PROVE Listed(f, o) /\ o # f[t][1]
    <2>a. PICK v \in Thread : \E i \in 1..Len(g[v]) : g[v][i] = o
      BY <1>8 DEF Listed
    <2>1. PICK i \in 1..Len(g[v]) : g[v][i] = o
      BY <2>a
    <2>2. CASE v = t
      <3>1. i + 1 \in 1..Len(f[t]) /\ o = f[t][i + 1] /\ i + 1 # 1
        BY <2>1, <2>2, <1>2, <1>3, <1>5
      <3> QED
        BY <3>1, <1>7 DEF Listed
    <2>3. CASE v # t
      BY <2>1, <2>3, <1>3, <1>7 DEF Listed
    <2> QED
      BY <2>2, <2>3
  <1>9. ASSUME NEW o, Listed(f, o), o # f[t][1] PROVE Listed(g, o)
    <2>a. PICK v \in Thread : \E i \in 1..Len(f[v]) : f[v][i] = o
      BY <1>9 DEF Listed
    <2>1. PICK i \in 1..Len(f[v]) : f[v][i] = o
      BY <2>a
    <2>2. CASE v = t
      <3>1. i - 1 \in 1..Len(u) /\ u[i - 1] = o
        BY <2>1, <2>2, <1>2, <1>9
      <3> QED
        BY <3>1, <1>3 DEF Listed
    <2>3. CASE v # t
      BY <2>1, <2>3, <1>3 DEF Listed
    <2> QED
      BY <2>2, <2>3
  <1>10. Listed(f, f[t][1])
    BY <1>2 DEF Listed
  <1> QED
    BY <1>2, <1>6, <1>8, <1>9, <1>10 DEF g

\* An operation enters a list, or a thread gets a list.
LEMMA ListSet ==
  ASSUME NEW f \in [Thread -> Seq(Op)], NEW t \in Thread, f[t] = <<>>, ListedOnce(f),
         NEW s \in Seq(Op), Distinct(s), \A i \in 1..Len(s) : ~Listed(f, s[i])
  PROVE  LET g == [f EXCEPT ![t] = s] IN
         /\ ListedOnce(g)
         /\ \A o : Listed(g, o) <=> Listed(f, o) \/ \E i \in 1..Len(s) : s[i] = o
  <1> DEFINE g == [f EXCEPT ![t] = s]
  <1>1. g[t] = s /\ \A v \in Thread : v # t => g[v] = f[v]
    OBVIOUS
  <1>2. \A i \in 1..Len(f[t]) : FALSE
    OBVIOUS
  <1> HIDE DEF g
  <1>3. ListedOnce(g)
    <2> SUFFICES ASSUME NEW v \in Thread, NEW w \in Thread, NEW i \in 1..Len(g[v]),
                        NEW j \in 1..Len(g[w]), g[v][i] = g[w][j]
                 PROVE  v = w /\ i = j
      BY DEF ListedOnce
    <2>1. \A x \in Thread : \A k \in 1..Len(g[x]) :
             x # t => k \in 1..Len(f[x]) /\ g[x][k] = f[x][k] /\ Listed(f, g[x][k])
      BY <1>1 DEF Listed
    <2>2. \A k \in 1..Len(g[t]) : ~Listed(f, g[t][k])
      BY <1>1
    <2>3. CASE v = t
      <3>1. w = t
        BY <2>1, <2>2, <2>3
      <3> QED
        BY <2>3, <3>1, <1>1 DEF Distinct
    <2>4. CASE v # t
      <3>1. w # t
        BY <2>1, <2>2, <2>4
      <3> QED
        BY <2>1, <2>4, <3>1 DEF ListedOnce
    <2> QED
      BY <2>3, <2>4
  <1>4. \A o : Listed(g, o) <=> Listed(f, o) \/ \E i \in 1..Len(s) : s[i] = o
    BY <1>1, <1>2 DEF Listed
  <1> QED
    BY <1>3, <1>4 DEF g

\* An operation enters a list at its end.
LEMMA ListAppend ==
  ASSUME NEW f \in [Thread -> Seq(Op)], NEW t \in Thread, ListedOnce(f),
         NEW x \in Op, ~Listed(f, x)
  PROVE  LET g == [f EXCEPT ![t] = Append(@, x)] IN
         /\ ListedOnce(g)
         /\ \A o : Listed(g, o) <=> Listed(f, o) \/ o = x
  <1> DEFINE g == [f EXCEPT ![t] = Append(@, x)]
             u == Append(f[t], x)
             n == Len(f[t]) + 1
  <1>1. f[t] \in Seq(Op)
    OBVIOUS
  <1>2. /\ \A i \in 1..Len(f[t]) : u[i] = f[t][i] /\ i \in 1..Len(u)
        /\ u[n] = x /\ n \in 1..Len(u)
        /\ \A i \in 1..Len(u) : i \in 1..Len(f[t]) \/ i = n
    BY <1>1, AppendView
  <1>3. g[t] = u /\ \A v \in Thread : v # t => g[v] = f[v]
    OBVIOUS
  <1> HIDE DEF g, u, n
  <1>4. \A v \in Thread : \A i \in 1..Len(g[v]) :
          \/ v = t /\ i = n /\ g[v][i] = x
          \/ i \in 1..Len(f[v]) /\ g[v][i] = f[v][i] /\ g[v][i] # x
    BY <1>2, <1>3 DEF Listed
  <1>5. ListedOnce(g)
    <2> SUFFICES ASSUME NEW v \in Thread, NEW w \in Thread, NEW i \in 1..Len(g[v]),
                        NEW j \in 1..Len(g[w]), g[v][i] = g[w][j]
                 PROVE  v = w /\ i = j
      BY DEF ListedOnce
    <2> QED
      BY <1>4 DEF ListedOnce
  <1>6. \A o : Listed(g, o) => Listed(f, o) \/ o = x
    BY <1>4 DEF Listed
  <1>7. Listed(g, x)
    BY <1>2, <1>3 DEF Listed
  <1>8. ASSUME NEW o, Listed(f, o) PROVE Listed(g, o)
    <2>a. PICK v \in Thread : \E i \in 1..Len(f[v]) : f[v][i] = o
      BY <1>8 DEF Listed
    <2>1. PICK i \in 1..Len(f[v]) : f[v][i] = o
      BY <2>a
    <2>2. i \in 1..Len(g[v]) /\ g[v][i] = o
      BY <2>1, <1>2, <1>3
    <2> QED
      BY <2>2 DEF Listed
  <1> QED
    BY <1>5, <1>6, <1>7, <1>8 DEF g

(***************************************************************************)
(* Completion, cancellation and closing race for a done callback.          *)
(***************************************************************************)
Places == AttemptsApart /\ PlaceInv

\* Who is who.
LEMMA Sorts ==
  /\ \A o \in Op : o \in Thread /\ o \notin CM
  /\ \A o \in Token : o \in Op /\ o \notin Closer /\ o \notin CancelCloser
  /\ \A o \in Enqueuer : o \in Token /\ o \notin Dequeuer
  /\ \A o \in Dequeuer : o \in Token
  /\ \A o \in Token : o \in Enqueuer \/ o \in Dequeuer
  /\ \A o \in CancelCloser : o \in Closer
  /\ \A o \in Closer : o \in Op
  /\ \A c \in CM : c \in Thread
  BY QueueAssumption DEF Op, Thread

\* The types of what the threads and the attempts keep.
LEMMA BaseTypes ==
  ASSUME BaseInv
  PROVE  /\ enq \in Seq(Attempt) /\ deq \in Seq(Attempt) /\ pc \in [Thread -> Labels]
         /\ to_call \in [Thread -> Seq(Op)] /\ clean_up \in [Thread -> Seq(Op)]
         /\ done \in [Op -> Nat] /\ got \in [Op -> Seq(Element)] /\ st \in [Op -> Status]
  BY DEF BaseInv, TypeOK, FlushTypeOK, OpTypeOK, ThreadTypeOK, Status

\* Whose attempts are where.
LEMMA AttemptOps ==
  ASSUME BaseInv
  PROVE  /\ \A o : On(enq, o) => o \in Op \ CancelCloser /\ o \notin Dequeuer
         /\ \A o : On(deq, o) => o \in Dequeuer
         /\ \A o : IsLive(enq, o) => On(enq, o)
         /\ \A o : IsLive(deq, o) => On(deq, o)
  <1>1. \A i \in 1..Len(enq) : enq[i].op \in Op \ CancelCloser /\ enq[i].op \notin Dequeuer
    BY Sorts DEF BaseInv, AttemptInv, EnqueueAttemptOK
  <1>2. \A i \in 1..Len(deq) : deq[i].op \in Dequeuer
    BY DEF BaseInv, AttemptInv, DequeueAttemptOK
  <1> QED
    BY <1>1, <1>2 DEF On, IsLive

\* Each step moves a done callback from one place to the next.
LEMMA NextPlaces == BaseInv /\ Places /\ [Next]_vars => Places'
  <1> SUFFICES ASSUME BaseInv, Places, [Next]_vars PROVE Places'
    OBVIOUS
  <1>t. /\ enq \in Seq(Attempt) /\ deq \in Seq(Attempt) /\ pc \in [Thread -> Labels]
        /\ to_call \in [Thread -> Seq(Op)] /\ clean_up \in [Thread -> Seq(Op)]
        /\ done \in [Op -> Nat]
    BY BaseTypes
  <1>o. /\ \A o \in Op : o \in Thread /\ o \notin CM
        /\ \A o \in Token : o \in Op /\ o \notin Closer /\ o \notin CancelCloser
        /\ \A o \in CancelCloser : o \in Closer
        /\ \A o \in Closer : o \in Op
        /\ \A c \in CM : c \in Thread
    BY Sorts
  <1>k. /\ \A o : On(enq, o) => o \in Op \ CancelCloser /\ o \notin Dequeuer
        /\ \A o : On(deq, o) => o \in Dequeuer
        /\ \A o : IsLive(enq, o) => On(enq, o)
        /\ \A o : IsLive(deq, o) => On(deq, o)
    BY AttemptOps
  <1>c. ASSUME NEW o \in Op, pc[o] = "idle", NEW l \in Labels \ NotCalled, pc' = [pc EXCEPT ![o] = l]
        PROVE  ~Called(o) /\ Called(o)' /\ \A x \in Op : x # o => (Called(x)' <=> Called(x))
    BY <1>c, <1>t, <1>o DEF Called, NotCalled
  <1>s. ASSUME NEW t \in Thread, t \in CM \/ pc[t] \notin NotCalled,
               NEW l \in Labels \ NotCalled, pc' = [pc EXCEPT ![t] = l]
        PROVE  \A x \in Op : Called(x)' <=> Called(x)
    BY <1>s, <1>t, <1>o DEF Called, NotCalled
  <1>l. {"next", "flush", "flushing", "cleanup", "blocked", "notify", "returned"}
          \subseteq Labels \ NotCalled
    BY DEF Labels, NotCalled
  <1>q. ASSUME \A x \in Op : Called(x)' <=> Called(x), UNCHANGED <<enq, deq, to_call, clean_up>>,
               \A x \in Op \ CancelCloser : done'[x] = done[x]
        PROVE  Places'
    BY <1>q DEF Places, AttemptsApart, PlaceInv, Pending
  <1>u. ASSUME UNCHANGED <<enq, deq, to_call, clean_up, done, pc>> PROVE Places'
    BY <1>u DEF Called, Places, AttemptsApart, PlaceInv, Pending
  <1>1. ASSUME NEW o \in Op, TryNothing(o) PROVE Places'
    <2>1. /\ pc[o] = "idle" /\ pc' = [pc EXCEPT ![o] = "returned"] /\ o \in Token
          /\ done' = [done EXCEPT ![o] = @ + 1]
          /\ UNCHANGED <<enq, deq, to_call, clean_up>>
      BY <1>1 DEF TryNothing, Goto, Finish, attemptVars
    <2>2. ~Called(o) /\ Called(o)' /\ \A x \in Op : x # o => (Called(x)' <=> Called(x))
      BY <2>1, <1>c, <1>l
    <2>3. o \in Op \ CancelCloser
      BY <2>1, <1>o
    <2>4. done[o] = 0 /\ ~Pending(o) /\ ~Listed(to_call, o) /\ ~Listed(clean_up, o)
      BY <2>2, <2>3 DEF Places, PlaceInv
    <2>5. done'[o] = 1 /\ \A x \in Op : x # o => done'[x] = done[x]
      BY <2>1, <2>4, <1>t
    <2> QED
      BY <2>1, <2>2, <2>3, <2>4, <2>5 DEF Places, AttemptsApart, PlaceInv, Pending
  <1>2. ASSUME NEW o \in Op, TryAppend(o) PROVE Places'
    <2> DEFINE x == NewAttempt(o, Num[o])
    <2>1. /\ pc[o] = "idle" /\ pc' = [pc EXCEPT ![o] = "flush"] /\ o \in Token
          /\ UNCHANGED <<to_call, clean_up, done>>
          /\ \/ enq' = Append(enq, x) /\ deq' = deq
             \/ deq' = Append(deq, x) /\ enq' = enq
      BY <1>2 DEF TryAppend, Goto, opVars
    <2>2. ~Called(o) /\ Called(o)' /\ \A y \in Op : y # o => (Called(y)' <=> Called(y))
      BY <2>1, <1>c, <1>l
    <2>3. OpsApart(enq) /\ OpsApart(deq) /\ ~On(enq, o) /\ ~On(deq, o)
      BY <2>2 DEF Places, AttemptsApart
    <2>4. x \in Attempt /\ x.op = o /\ ~x.cancelled
      BY <2>1, NewAttemptFields, QueueAssumption
    <2> HIDE DEF x
    <2>5. /\ o \in Op \ CancelCloser /\ done[o] = 0
          /\ ~Pending(o) /\ ~Listed(to_call, o) /\ ~Listed(clean_up, o)
      BY <2>1, <2>2, <1>o DEF Places, PlaceInv
    <2>6. CASE enq' = Append(enq, x) /\ deq' = deq
      <3>1. /\ enq' = Append(enq, x) /\ deq' = deq
        BY <2>1, <2>6
      <3>2. /\ OpsApart(enq')
            /\ \A y : On(enq', y) <=> On(enq, y) \/ y = o
            /\ \A y : IsLive(enq', y) <=> IsLive(enq, y) \/ y = o
        BY <3>1, <2>3, <2>4, <1>t, AppendPlaces
      <3> QED
        BY <3>1, <3>2, <2>1, <2>2, <2>3, <2>4, <2>5, <1>k DEF Places, AttemptsApart, PlaceInv, Pending
    <2>7. CASE deq' = Append(deq, x) /\ enq' = enq
      <3>1. /\ deq' = Append(deq, x) /\ enq' = enq
        BY <2>1, <2>7
      <3>2. /\ OpsApart(deq')
            /\ \A y : On(deq', y) <=> On(deq, y) \/ y = o
            /\ \A y : IsLive(deq', y) <=> IsLive(deq, y) \/ y = o
        BY <3>1, <2>3, <2>4, <1>t, AppendPlaces
      <3> QED
        BY <3>1, <3>2, <2>1, <2>2, <2>3, <2>4, <2>5, <1>k DEF Places, AttemptsApart, PlaceInv, Pending
    <2> QED
      BY <2>1, <2>6, <2>7
  <1>3. ASSUME NEW o \in Op, TryTooLate(o) PROVE Places'
    <2>1. /\ pc[o] = "idle" /\ pc' = [pc EXCEPT ![o] = "returned"] /\ o \in Token
          /\ done' = [done EXCEPT ![o] = @ + 1]
          /\ UNCHANGED <<enq, deq, to_call, clean_up>>
      BY <1>3 DEF TryTooLate, Goto, Finish, attemptVars
    <2>2. ~Called(o) /\ Called(o)' /\ \A x \in Op : x # o => (Called(x)' <=> Called(x))
      BY <2>1, <1>c, <1>l
    <2>3. o \in Op \ CancelCloser
      BY <2>1, <1>o
    <2>4. done[o] = 0 /\ ~Pending(o) /\ ~Listed(to_call, o) /\ ~Listed(clean_up, o)
      BY <2>2, <2>3 DEF Places, PlaceInv
    <2>5. done'[o] = 1 /\ \A x \in Op : x # o => done'[x] = done[x]
      BY <2>1, <2>4, <1>t
    <2> QED
      BY <2>1, <2>2, <2>3, <2>4, <2>5 DEF Places, AttemptsApart, PlaceInv, Pending
  <1>4. ASSUME NEW o \in Op, Close(o) PROVE Places'
    <2> DEFINE x == NewAttempt(o, 0)
    <2>1. /\ pc[o] = "idle" /\ pc' = [pc EXCEPT ![o] = "flush"] /\ o \in Closer \ CancelCloser
          /\ UNCHANGED <<deq, to_call, clean_up, done>>
          /\ enq' = Append(enq, x)
      BY <1>4 DEF Close, Goto, opVars
    <2>2. ~Called(o) /\ Called(o)' /\ \A y \in Op : y # o => (Called(y)' <=> Called(y))
      BY <2>1, <1>c, <1>l
    <2>3. OpsApart(enq) /\ OpsApart(deq) /\ ~On(enq, o) /\ ~On(deq, o)
      BY <2>2 DEF Places, AttemptsApart
    <2>4. x \in Attempt /\ x.op = o /\ ~x.cancelled
      BY NewAttemptFields, QueueAssumption
    <2> HIDE DEF x
    <2>5. /\ o \in Op \ CancelCloser /\ done[o] = 0
          /\ ~Pending(o) /\ ~Listed(to_call, o) /\ ~Listed(clean_up, o)
      BY <2>1, <2>2, <1>o DEF Places, PlaceInv
    <2>6. /\ OpsApart(enq')
          /\ \A y : On(enq', y) <=> On(enq, y) \/ y = o
          /\ \A y : IsLive(enq', y) <=> IsLive(enq, y) \/ y = o
      BY <2>1, <2>3, <2>4, <1>t, AppendPlaces
    <2> QED
      BY <2>6, <2>1, <2>2, <2>3, <2>4, <2>5, <1>k DEF Places, AttemptsApart, PlaceInv, Pending
  <1>5. ASSUME NEW o \in Op, CloseAndCancel(o) PROVE Places'
    <2> DEFINE v == OpsOf(Live(enq))
    <2>1. /\ pc[o] = "idle" /\ pc' = [pc EXCEPT ![o] = "flush"] /\ o \in CancelCloser
          /\ UNCHANGED <<deq, clean_up, done>>
          /\ enq' = CancelAll(enq) /\ to_call' = [to_call EXCEPT ![o] = v]
      BY <1>5 DEF CloseAndCancel, Goto
    <2>2. ~Called(o) /\ Called(o)' /\ \A y \in Op : y # o => (Called(y)' <=> Called(y))
      BY <2>1, <1>c, <1>l
    <2>3. OpsApart(enq) /\ OpsApart(deq)
      BY DEF Places, AttemptsApart
    <2>4. /\ OpsApart(enq')
          /\ \A y : On(enq', y) <=> On(enq, y)
          /\ \A y : ~IsLive(enq', y)
      BY <2>1, <2>3, <1>t, MarkPlaces
    <2>5. /\ v \in Seq(Op) /\ Distinct(v)
          /\ \A y : (\E i \in 1..Len(v) : v[i] = y) <=> IsLive(enq, y)
      BY <2>3, <1>t, VictimsView
    <2> HIDE DEF v
    <2>6. \A y : IsLive(enq, y) => y \in Op \ CancelCloser /\ ~Listed(to_call, y)
      BY <1>k DEF Places, PlaceInv, Pending
    <2>7. \A i \in 1..Len(v) : ~Listed(to_call, v[i])
      BY <2>5, <2>6
    <2>8. o \in Thread /\ to_call[o] = <<>> /\ ListedOnce(to_call)
      BY <2>1, <1>o DEF BaseInv, FlushInv, Places, PlaceInv
    <2>a. to_call \in [Thread -> Seq(Op)] /\ v \in Seq(Op) /\ Distinct(v)
      BY <2>5, <1>t
    <2>b. LET g == [to_call EXCEPT ![o] = v] IN
          /\ ListedOnce(g)
          /\ \A y : Listed(g, y) <=> Listed(to_call, y) \/ \E i \in 1..Len(v) : v[i] = y
      BY <2>a, <2>7, <2>8, ListSet
    <2>c. to_call' = [to_call EXCEPT ![o] = v]
      BY <2>1
    <2>9. /\ ListedOnce(to_call')
          /\ \A y : Listed(to_call', y) <=> Listed(to_call, y) \/ IsLive(enq, y)
      BY <2>b, <2>c, <2>5
    <2>10. AttemptsApart'
      BY <2>1, <2>2, <2>4, <1>o DEF Places, AttemptsApart
    <2>d. \A y \in Op \ CancelCloser :
            /\ y # o /\ (Called(y)' <=> Called(y)) /\ done'[y] = done[y]
            /\ Listed(clean_up', y) <=> Listed(clean_up, y)
            /\ IsLive(deq', y) <=> IsLive(deq, y)
            /\ IsLive(enq, y) => ~IsLive(deq, y)
      BY <2>1, <2>2, <1>o, <1>k
    <2>e. /\ \A y \in Op : Listed(to_call', y) \/ Listed(clean_up', y) => y \notin CancelCloser
          /\ ListedOnce(clean_up')
      BY <2>1, <2>6, <2>9 DEF Places, PlaceInv
    <2>11. PlaceInv'
      BY <2>d, <2>e, <2>4, <2>9 DEF Places, PlaceInv, Pending
    <2> QED
      BY <2>10, <2>11 DEF Places
  <1>6. ASSUME NEW t \in Thread, RunCallback(t) PROVE Places'
    <2> DEFINE x == Head(to_call[t])
    <2>1. /\ to_call[t] # <<>> /\ to_call' = [to_call EXCEPT ![t] = Tail(@)]
          /\ done' = [done EXCEPT ![x] = @ + 1]
          /\ UNCHANGED <<enq, deq, clean_up, pc>>
      BY <1>6 DEF RunCallback, Finish, attemptVars
    <2>2. ListedOnce(to_call)
      BY DEF Places, PlaceInv
    <2>3. /\ x \in Op /\ Listed(to_call, x) /\ ListedOnce(to_call')
          /\ \A y : Listed(to_call', y) <=> Listed(to_call, y) /\ y # x
      BY <2>1, <2>2, <1>t, ListTail
    <2> HIDE DEF x
    <2>4. x \in Op \ CancelCloser /\ done[x] = 0 /\ ~Listed(clean_up, x) /\ ~Pending(x)
      BY <2>3 DEF Places, PlaceInv
    <2>5. done'[x] = 1 /\ \A y \in Op : y # x => done'[y] = done[y]
      BY <2>1, <2>3, <2>4, <1>t
    <2>6. \A y \in Op : Called(y)' <=> Called(y)
      BY <2>1 DEF Called
    <2> QED
      BY <2>1, <2>3, <2>4, <2>5, <2>6 DEF Places, AttemptsApart, PlaceInv, Pending
  <1>7. ASSUME NEW t \in Thread, FlushLock(t) PROVE Places'
    <2>1. /\ pc[t] = "flush" /\ pc' = [pc EXCEPT ![t] = "flushing"]
          /\ UNCHANGED <<enq, deq, to_call, clean_up, done>>
      BY <1>7 DEF FlushLock, Goto, attemptVars, opVars
    <2>2. t \in Thread /\ (t \in CM \/ pc[t] \notin NotCalled)
      BY <2>1, <1>o DEF NotCalled
    <2>3. \A x \in Op : Called(x)' <=> Called(x)
      BY <2>1, <2>2, <1>s, <1>l
    <2> QED
      BY <2>1, <2>3, <1>q
  <1>8. ASSUME NEW t \in Thread, SkipCancelled(t) PROVE Places'
    <2>1. /\ \/ enq # <<>> /\ Head(enq).cancelled /\ enq' = Tail(enq) /\ deq' = deq
             \/ deq # <<>> /\ Head(deq).cancelled /\ deq' = Tail(deq) /\ enq' = enq
          /\ UNCHANGED <<to_call, clean_up, done, pc>>
      BY <1>8 DEF SkipCancelled, opVars, threadVars
    <2>2. OpsApart(enq) /\ OpsApart(deq)
      BY DEF Places, AttemptsApart
    <2>3. /\ OpsApart(enq') /\ OpsApart(deq')
          /\ \A y : On(enq', y) => On(enq, y)
          /\ \A y : On(deq', y) => On(deq, y)
          /\ \A y : IsLive(enq', y) <=> IsLive(enq, y)
          /\ \A y : IsLive(deq', y) <=> IsLive(deq, y)
      <3>1. CASE enq # <<>> /\ Head(enq).cancelled /\ enq' = Tail(enq) /\ deq' = deq
        <4>1. /\ OpsApart(enq') /\ ~IsLive(enq, Head(enq).op)
              /\ \A y : On(enq', y) <=> On(enq, y) /\ y # Head(enq).op
              /\ \A y : IsLive(enq', y) <=> IsLive(enq, y) /\ y # Head(enq).op
          BY <3>1, <2>2, <1>t, TailPlaces
        <4> QED
          BY <4>1, <3>1, <2>2
      <3>2. CASE deq # <<>> /\ Head(deq).cancelled /\ deq' = Tail(deq) /\ enq' = enq
        <4>1. /\ OpsApart(deq') /\ ~IsLive(deq, Head(deq).op)
              /\ \A y : On(deq', y) <=> On(deq, y) /\ y # Head(deq).op
              /\ \A y : IsLive(deq', y) <=> IsLive(deq, y) /\ y # Head(deq).op
          BY <3>2, <2>2, <1>t, TailPlaces
        <4> QED
          BY <4>1, <3>2, <2>2
      <3> QED
        BY <2>1, <3>1, <3>2
    <2>4. \A y \in Op : Called(y)' <=> Called(y)
      BY <2>1 DEF Called
    <2> QED
      BY <2>1, <2>3, <2>4 DEF Places, AttemptsApart, PlaceInv, Pending
  <1>9. ASSUME NEW t \in Thread, NoAttempt(t) PROVE Places'
    <2>1. /\ UNCHANGED <<enq, deq, to_call, clean_up, done>>
          /\ pc' = pc \/ (pc[t] = "flushing" /\ pc' = [pc EXCEPT ![t] = "cleanup"])
      <3>1. holder = t /\ EndOfAttempts(t, FALSE) /\ UNCHANGED <<enq, deq, to_call, clean_up, done>>
        BY <1>9 DEF NoAttempt, attemptVars, opVars
      <3>2. pc[t] = "flushing"
        BY <3>1 DEF BaseInv, FlushInv
      <3> QED
        BY <3>1, <3>2 DEF EndOfAttempts
    <2>2. \A y \in Op : Called(y)' <=> Called(y)
      <3>1. CASE pc' = pc
        BY <3>1 DEF Called
      <3>2. CASE pc[t] = "flushing" /\ pc' = [pc EXCEPT ![t] = "cleanup"]
        <4>1. pc[t] \notin NotCalled
          BY <3>2 DEF NotCalled
        <4> QED
          BY <3>2, <4>1, <1>s, <1>l
      <3> QED
        BY <2>1, <3>1, <3>2
    <2> QED
      BY <2>1, <2>2, <1>q
  <1>10. ASSUME NEW t \in Thread, TryEnqueueAttempt(t) PROVE Places'
    <2> DEFINE a == Head(enq)
               r == RunEnqueue(a)
    <2>1. /\ holder = t /\ enq # <<>> /\ a \in Attempt /\ ~a.cancelled
          /\ EnqueueAttemptOK(a) /\ BufferOK
          /\ \/ enq' = Tail(enq) /\ clean_up' = [clean_up EXCEPT ![t] = Append(@, a.op)] /\ pc' = pc
             \/ /\ r.result # "kComplete" /\ enq' = <<r.attempt>> \o Tail(enq) /\ clean_up' = clean_up
                /\ pc' = pc \/ pc' = [pc EXCEPT ![t] = "cleanup"]
      BY <1>10, EnqueueStep DEF BaseInv
    <2>2. r.attempt \in Attempt /\ r.attempt.op = a.op /\ r.attempt.cancelled = a.cancelled
      BY <2>1, RunEnqueueFacts
    <2>3. UNCHANGED <<deq, to_call, done>>
      BY <1>10 DEF TryEnqueueAttempt
    <2> HIDE DEF r
    <2>4. OpsApart(enq) /\ OpsApart(deq)
      BY DEF Places, AttemptsApart
    <2>5. \A y \in Op : Called(y)' <=> Called(y)
      <3>1. CASE pc' = pc
        BY <3>1 DEF Called
      <3>2. CASE pc' = [pc EXCEPT ![t] = "cleanup"]
        <4>1. pc[t] \notin NotCalled
          BY <2>1 DEF BaseInv, FlushInv, NotCalled
        <4> QED
          BY <3>2, <4>1, <1>s, <1>l
      <3> QED
        BY <2>1, <3>1, <3>2
    <2>6. CASE enq' = Tail(enq) /\ clean_up' = [clean_up EXCEPT ![t] = Append(@, a.op)]
      <3>1. /\ OpsApart(enq') /\ IsLive(enq, a.op) /\ On(enq, a.op)
            /\ \A y : On(enq', y) <=> On(enq, y) /\ y # a.op
            /\ \A y : IsLive(enq', y) <=> IsLive(enq, y) /\ y # a.op
        BY <2>1, <2>4, <2>6, <1>t, TailPlaces
      <3> HIDE DEF a
      <3>2. /\ a.op \in Op \ CancelCloser /\ Pending(a.op) /\ ~IsLive(deq, a.op)
        BY <3>1, <1>k, Sorts DEF Pending
      <3>3. done[a.op] = 0 /\ ~Listed(to_call, a.op) /\ ~Listed(clean_up, a.op) /\ ListedOnce(clean_up)
        BY <3>2 DEF Places, PlaceInv
      <3>4. /\ ListedOnce(clean_up')
            /\ \A y : Listed(clean_up', y) <=> Listed(clean_up, y) \/ y = a.op
        BY <3>2, <3>3, <2>6, <1>t, ListAppend
      <3>5. AttemptsApart'
        BY <2>3, <2>5, <3>1 DEF Places, AttemptsApart
      <3>6. PlaceInv'
        BY <2>3, <2>5, <3>1, <3>2, <3>3, <3>4 DEF Places, PlaceInv, Pending
      <3> QED
        BY <3>5, <3>6 DEF Places
    <2>7. CASE enq' = <<r.attempt>> \o Tail(enq) /\ clean_up' = clean_up
      <3>1. /\ OpsApart(enq')
            /\ \A y : On(enq', y) <=> On(enq, y)
            /\ \A y : IsLive(enq', y) <=> IsLive(enq, y)
        BY <2>1, <2>2, <2>4, <2>7, <1>t, NewHeadPlaces
      <3> QED
        BY <2>3, <2>5, <2>7, <3>1 DEF Places, AttemptsApart, PlaceInv, Pending
    <2> QED
      BY <2>1, <2>6, <2>7
  <1>11. ASSUME NEW t \in Thread, TryDequeueAttempt(t) PROVE Places'
    <2> DEFINE a == Head(deq)
               r == RunDequeue(a)
    <2>1. /\ holder = t /\ deq # <<>> /\ a \in Attempt /\ ~a.cancelled
          /\ DequeueAttemptOK(a) /\ BufferOK
          /\ \/ deq' = Tail(deq) /\ clean_up' = [clean_up EXCEPT ![t] = Append(@, a.op)] /\ pc' = pc
             \/ /\ r.result # "kComplete" /\ deq' = <<r.attempt>> \o Tail(deq) /\ clean_up' = clean_up
                /\ pc' = pc \/ pc' = [pc EXCEPT ![t] = "cleanup"]
      BY <1>11, DequeueStep DEF BaseInv
    <2>2. r.attempt \in Attempt /\ r.attempt.op = a.op /\ r.attempt.cancelled = a.cancelled
      BY <2>1, RunDequeueFacts
    <2>3. UNCHANGED <<enq, to_call, done>>
      BY <1>11 DEF TryDequeueAttempt
    <2> HIDE DEF r
    <2>4. OpsApart(enq) /\ OpsApart(deq)
      BY DEF Places, AttemptsApart
    <2>5. \A y \in Op : Called(y)' <=> Called(y)
      <3>1. CASE pc' = pc
        BY <3>1 DEF Called
      <3>2. CASE pc' = [pc EXCEPT ![t] = "cleanup"]
        <4>1. pc[t] \notin NotCalled
          BY <2>1 DEF BaseInv, FlushInv, NotCalled
        <4> QED
          BY <3>2, <4>1, <1>s, <1>l
      <3> QED
        BY <2>1, <3>1, <3>2
    <2>6. CASE deq' = Tail(deq) /\ clean_up' = [clean_up EXCEPT ![t] = Append(@, a.op)]
      <3>1. /\ OpsApart(deq') /\ IsLive(deq, a.op) /\ On(deq, a.op)
            /\ \A y : On(deq', y) <=> On(deq, y) /\ y # a.op
            /\ \A y : IsLive(deq', y) <=> IsLive(deq, y) /\ y # a.op
        BY <2>1, <2>4, <2>6, <1>t, TailPlaces
      <3> HIDE DEF a
      <3>2. /\ a.op \in Op \ CancelCloser /\ Pending(a.op) /\ ~IsLive(enq, a.op)
        BY <3>1, <1>k, Sorts DEF Pending
      <3>3. done[a.op] = 0 /\ ~Listed(to_call, a.op) /\ ~Listed(clean_up, a.op) /\ ListedOnce(clean_up)
        BY <3>2 DEF Places, PlaceInv
      <3>4. /\ ListedOnce(clean_up')
            /\ \A y : Listed(clean_up', y) <=> Listed(clean_up, y) \/ y = a.op
        BY <3>2, <3>3, <2>6, <1>t, ListAppend
      <3>5. AttemptsApart'
        BY <2>3, <2>5, <3>1 DEF Places, AttemptsApart
      <3>6. PlaceInv'
        BY <2>3, <2>5, <3>1, <3>2, <3>3, <3>4 DEF Places, PlaceInv, Pending
      <3> QED
        BY <3>5, <3>6 DEF Places
    <2>7. CASE deq' = <<r.attempt>> \o Tail(deq) /\ clean_up' = clean_up
      <3>1. /\ OpsApart(deq')
            /\ \A y : On(deq', y) <=> On(deq, y)
            /\ \A y : IsLive(deq', y) <=> IsLive(deq, y)
        BY <2>1, <2>2, <2>4, <2>7, <1>t, NewHeadPlaces
      <3> QED
        BY <2>3, <2>5, <2>7, <3>1 DEF Places, AttemptsApart, PlaceInv, Pending
    <2> QED
      BY <2>1, <2>6, <2>7
  <1>12. ASSUME NEW t \in Thread, CleanUp(t) PROVE Places'
    <2> DEFINE x == Head(clean_up[t])
    <2>1. /\ clean_up[t] # <<>> /\ clean_up' = [clean_up EXCEPT ![t] = Tail(@)]
          /\ done' = [done EXCEPT ![x] = @ + 1]
          /\ UNCHANGED <<enq, deq, to_call>>
          /\ pc' = pc
      BY <1>12 DEF CleanUp, Cleaned, Finish, Goto, attemptVars, BaseInv, FlushInv
    <2>2. ListedOnce(clean_up)
      BY DEF Places, PlaceInv
    <2>3. /\ x \in Op /\ Listed(clean_up, x) /\ ListedOnce(clean_up')
          /\ \A y : Listed(clean_up', y) <=> Listed(clean_up, y) /\ y # x
      BY <2>1, <2>2, <1>t, ListTail
    <2> HIDE DEF x
    <2>4. x \in Op \ CancelCloser /\ done[x] = 0 /\ ~Listed(to_call, x) /\ ~Pending(x)
      BY <2>3 DEF Places, PlaceInv
    <2>5. done'[x] = 1 /\ \A y \in Op : y # x => done'[y] = done[y]
      BY <2>1, <2>3, <2>4, <1>t
    <2>6. \A y \in Op : Called(y)' <=> Called(y)
      BY <2>1 DEF Called
    <2> QED
      BY <2>1, <2>3, <2>4, <2>5, <2>6 DEF Places, AttemptsApart, PlaceInv, Pending
  <1>13. ASSUME NEW t \in Thread, CleanUpBlock(t) PROVE Places'
    <2>1. /\ pc[t] = "cleanup" /\ pc' = [pc EXCEPT ![t] = "blocked"]
          /\ UNCHANGED <<enq, deq, to_call, clean_up, done>>
      BY <1>13 DEF CleanUpBlock, Goto, attemptVars, opVars
    <2>2. t \in Thread /\ (t \in CM \/ pc[t] \notin NotCalled)
      BY <2>1, <1>o DEF NotCalled
    <2>3. \A x \in Op : Called(x)' <=> Called(x)
      BY <2>1, <2>2, <1>s, <1>l
    <2> QED
      BY <2>1, <2>3, <1>q
  <1>14. ASSUME NEW t \in Thread, CleanUpWake(t) PROVE Places'
    <2> DEFINE x == Head(clean_up[t])
    <2>1. /\ clean_up[t] # <<>> /\ clean_up' = [clean_up EXCEPT ![t] = Tail(@)]
          /\ done' = [done EXCEPT ![x] = @ + 1]
          /\ UNCHANGED <<enq, deq, to_call>>
          /\ pc[t] = "blocked" /\ pc' = [pc EXCEPT ![t] = "cleanup"]
      BY <1>14 DEF CleanUpWake, Cleaned, Finish, Goto, attemptVars, BaseInv, FlushInv
    <2>2. ListedOnce(clean_up)
      BY DEF Places, PlaceInv
    <2>3. /\ x \in Op /\ Listed(clean_up, x) /\ ListedOnce(clean_up')
          /\ \A y : Listed(clean_up', y) <=> Listed(clean_up, y) /\ y # x
      BY <2>1, <2>2, <1>t, ListTail
    <2> HIDE DEF x
    <2>4. x \in Op \ CancelCloser /\ done[x] = 0 /\ ~Listed(to_call, x) /\ ~Pending(x)
      BY <2>3 DEF Places, PlaceInv
    <2>5. done'[x] = 1 /\ \A y \in Op : y # x => done'[y] = done[y]
      BY <2>1, <2>3, <2>4, <1>t
    <2>6. \A y \in Op : Called(y)' <=> Called(y)
      <3>1. pc[t] \notin NotCalled
        BY <2>1 DEF NotCalled
      <3> QED
        BY <3>1, <2>1, <1>s, <1>l
    <2> QED
      BY <2>1, <2>3, <2>4, <2>5, <2>6 DEF Places, AttemptsApart, PlaceInv, Pending
  <1>15. ASSUME NEW t \in Thread, FlushReturn(t) PROVE Places'
    <2> DEFINE l == IF t \in CM THEN "next" ELSE "returned"
    <2>1. /\ pc[t] = "cleanup" /\ pc' = [pc EXCEPT ![t] = l]
          /\ UNCHANGED <<enq, deq, to_call, clean_up>>
          /\ IF t \in CancelCloser THEN done' = [done EXCEPT ![t] = @ + 1] ELSE done' = done
      BY <1>15 DEF FlushReturn, Goto, Finish, attemptVars
    <2>2. pc[t] \notin NotCalled /\ l \in Labels \ NotCalled
      BY <2>1, <1>l DEF NotCalled
    <2> HIDE DEF l
    <2>3. \A x \in Op : Called(x)' <=> Called(x)
      BY <2>1, <2>2, <1>s
    <2>4. \A x \in Op \ CancelCloser : done'[x] = done[x]
      BY <2>1, <1>t
    <2> QED
      BY <2>1, <2>3, <2>4, <1>q
  <1>16. ASSUME NEW c \in CM, StartCancel(c) PROVE Places'
    <2>1. /\ pc[c] = "idle" /\ pc' = [pc EXCEPT ![c] = "next"]
          /\ UNCHANGED <<enq, deq, to_call, clean_up, done>>
      BY <1>16 DEF StartCancel, Goto, attemptVars, opVars
    <2>2. c \in Thread /\ (c \in CM \/ pc[c] \notin NotCalled)
      BY <2>1, <1>o DEF NotCalled
    <2>3. \A x \in Op : Called(x)' <=> Called(x)
      BY <2>1, <2>2, <1>s, <1>l
    <2> QED
      BY <2>1, <2>3, <1>q
  <1>17. ASSUME NEW c \in CM, FinishCancel(c) PROVE Places'
    <2>1. /\ pc[c] = "next" /\ pc' = [pc EXCEPT ![c] = "notify"]
          /\ UNCHANGED <<enq, deq, to_call, clean_up, done>>
      BY <1>17 DEF FinishCancel, Goto, attemptVars, opVars
    <2>2. c \in Thread /\ (c \in CM \/ pc[c] \notin NotCalled)
      BY <2>1, <1>o DEF NotCalled
    <2>3. \A x \in Op : Called(x)' <=> Called(x)
      BY <2>1, <2>2, <1>s, <1>l
    <2> QED
      BY <2>1, <2>3, <1>q
  <1>18. ASSUME NEW c \in CM, Notify(c) PROVE Places'
    <2>1. /\ pc[c] = "notify" /\ pc' = [pc EXCEPT ![c] = "returned"]
          /\ UNCHANGED <<enq, deq, to_call, clean_up, done>>
      BY <1>18 DEF Notify, Goto, attemptVars, opVars
    <2>2. c \in Thread /\ (c \in CM \/ pc[c] \notin NotCalled)
      BY <2>1, <1>o DEF NotCalled
    <2>3. \A x \in Op : Called(x)' <=> Called(x)
      BY <2>1, <2>2, <1>s, <1>l
    <2> QED
      BY <2>1, <2>3, <1>q
  <1>19. ASSUME NEW c \in CM, NEW o \in Token, Cancel(c, o) PROVE Places'
    <2>1. CASE ~(IsLive(enq, o) \/ IsLive(deq, o))
      <3>1. UNCHANGED <<enq, deq, to_call, clean_up, done, pc>>
        BY <1>19, <2>1 DEF Cancel, attemptVars
      <3> QED
        BY <3>1, <1>u
    <2>2. CASE IsLive(enq, o) \/ IsLive(deq, o)
      <3> DEFINE v == <<o>>
      <3>1. /\ pc[c] = "next" /\ pc' = [pc EXCEPT ![c] = "flush"]
            /\ UNCHANGED <<clean_up, done>>
            /\ enq' = Mark(enq, o) /\ deq' = Mark(deq, o) /\ to_call' = [to_call EXCEPT ![c] = v]
        BY <1>19, <2>2 DEF Cancel
      <3>2. OpsApart(enq) /\ OpsApart(deq)
        BY DEF Places, AttemptsApart
      <3>3. /\ OpsApart(enq') /\ OpsApart(deq')
            /\ \A y : On(enq', y) <=> On(enq, y)
            /\ \A y : On(deq', y) <=> On(deq, y)
            /\ \A y : IsLive(enq', y) <=> IsLive(enq, y) /\ y # o
            /\ \A y : IsLive(deq', y) <=> IsLive(deq, y) /\ y # o
        BY <3>1, <3>2, <1>t, MarkPlaces
      <3>4. o \in Op \ CancelCloser /\ done[o] = 0 /\ ~Listed(to_call, o) /\ ~Listed(clean_up, o)
        BY <2>2, <1>o DEF Places, PlaceInv, Pending
      <3>5. v \in Seq(Op) /\ Distinct(v) /\ \A i \in 1..Len(v) : v[i] = o
        BY <3>4 DEF Distinct
      <3>6. \A y : (\E i \in 1..Len(v) : v[i] = y) <=> y = o
        OBVIOUS
      <3> HIDE DEF v
      <3>7. \A i \in 1..Len(v) : ~Listed(to_call, v[i])
        BY <3>4, <3>5
      <3>8. c \in Thread /\ to_call[c] = <<>> /\ ListedOnce(to_call)
        BY <3>1, <1>o DEF BaseInv, FlushInv, Places, PlaceInv
      <3>a. to_call \in [Thread -> Seq(Op)] /\ v \in Seq(Op) /\ Distinct(v)
        BY <3>5, <1>t
      <3>b. LET g == [to_call EXCEPT ![c] = v] IN
            /\ ListedOnce(g)
            /\ \A y : Listed(g, y) <=> Listed(to_call, y) \/ \E i \in 1..Len(v) : v[i] = y
        BY <3>a, <3>7, <3>8, ListSet
      <3>c. to_call' = [to_call EXCEPT ![c] = v]
        BY <3>1
      <3>9. /\ ListedOnce(to_call')
            /\ \A y : Listed(to_call', y) <=> Listed(to_call, y) \/ \E i \in 1..Len(v) : v[i] = y
        BY <3>b, <3>c
      <3>10. \A y : Listed(to_call', y) <=> Listed(to_call, y) \/ y = o
        BY <3>6, <3>9
      <3>11. \A y \in Op : Called(y)' <=> Called(y)
        BY <3>1, <3>8, <1>s, <1>l
      <3>12. AttemptsApart'
        BY <3>3, <3>11 DEF Places, AttemptsApart
      <3>13. PlaceInv'
        BY <2>2, <3>1, <3>3, <3>4, <3>9, <3>10, <3>11 DEF Places, PlaceInv, Pending
      <3> QED
        BY <3>12, <3>13 DEF Places
    <2> QED
      BY <2>1, <2>2
  <1>20. CASE UNCHANGED vars
    BY <1>20, <1>u DEF vars, attemptVars, opVars, threadVars
  <1> QED
    BY <1>1, <1>2, <1>3, <1>4, <1>5, <1>6, <1>7, <1>8, <1>9, <1>10, <1>11, <1>12, <1>13, <1>14, <1>15, <1>16, <1>17, <1>18, <1>19, <1>20 DEF Next, Call, FlushStep, CancelStep

\* Initially no operation has been called.
LEMMA InitPlaces == Init => Places
  <1> SUFFICES ASSUME Init PROVE Places
    OBVIOUS
  <1>1. PICK script \in Scripts : pc = [t \in Thread |-> IF t \in script THEN "idle" ELSE "absent"]
    BY DEF Init
  <1>2. \A o \in Op : o \in Thread
    BY DEF Thread
  <1>3. \A o \in Op : ~Called(o)
    BY <1>1, <1>2 DEF Called, NotCalled
  <1>4. /\ enq = <<>> /\ deq = <<>> /\ to_call = [t \in Thread |-> <<>>]
        /\ clean_up = [t \in Thread |-> <<>>] /\ done = [o \in Op |-> 0]
    BY DEF Init
  <1>5. \A o : ~On(enq, o) /\ ~On(deq, o) /\ ~Pending(o)
    BY <1>4 DEF On, Pending, IsLive
  <1>6. /\ \A o : ~Listed(to_call, o) /\ ~Listed(clean_up, o)
        /\ ListedOnce(to_call) /\ ListedOnce(clean_up)
    BY <1>4 DEF Listed, ListedOnce
  <1>7. OpsApart(enq) /\ OpsApart(deq)
    BY <1>4 DEF OpsApart
  <1>8. \A o \in Op : done[o] = 0
    BY <1>4
  <1>9. AttemptsApart
    BY <1>5, <1>7 DEF AttemptsApart
  <1>10. PlaceInv
    BY <1>3, <1>5, <1>6, <1>8 DEF PlaceInv
  <1> QED
    BY <1>9, <1>10 DEF Places

\* The places of a done callback are kept.
LEMMA PlacesInvariance == Spec => []Places
  <1>1. BaseInv /\ Places /\ [Next]_vars => Places'
    BY NextPlaces
  <1> QED
    BY <1>1, InitPlaces, BaseInvariance, PTL DEF Spec

\* The number of elements of a set that has one at most.
LEMMA AtMostOne ==
  ASSUME NEW S, \A x, y \in S : x = y
  PROVE  Cardinality(S) = IF S = {} THEN 0 ELSE 1
  <1>1. CASE S = {}
    BY <1>1, FS_EmptySet
  <1>2. CASE S # {}
    <2>1. PICK x \in S : TRUE
      BY <1>2
    <2>2. S = {x}
      BY <2>1
    <2>3. Cardinality({x}) = 1
      BY FS_Singleton
    <2> QED
      BY <1>2, <2>2, <2>3
  <1> QED
    BY <1>1, <1>2

\* What Holds counts: a live attempt.
LEMMA CountAttempts ==
  ASSUME NEW s, OpsApart(s), NEW o
  PROVE  Cardinality({i \in 1..Len(s) : s[i].op = o /\ ~s[i].cancelled})
           = IF IsLive(s, o) THEN 1 ELSE 0
  <1> DEFINE S == {i \in 1..Len(s) : s[i].op = o /\ ~s[i].cancelled}
  <1>1. \A x, y \in S : x = y
    BY DEF OpsApart
  <1>2. S = {} <=> ~IsLive(s, o)
    BY DEF IsLive
  <1> HIDE DEF S
  <1>3. Cardinality(S) = IF S = {} THEN 0 ELSE 1
    BY <1>1, AtMostOne
  <1>4. Cardinality(S) = IF IsLive(s, o) THEN 1 ELSE 0
    BY <1>2, <1>3
  <1> QED
    BY <1>4 DEF S

\* Likewise a list.
LEMMA CountLists ==
  ASSUME NEW f \in [Thread -> Seq(Op)], ListedOnce(f), NEW o
  PROVE  Cardinality({t \in Thread : o \in Range(f[t])}) = IF Listed(f, o) THEN 1 ELSE 0
  <1> DEFINE S == {t \in Thread : o \in Range(f[t])}
  <1>1. \A t \in Thread : DOMAIN f[t] = 1..Len(f[t])
    OBVIOUS
  <1>2. \A t \in Thread : o \in Range(f[t]) <=> \E i \in 1..Len(f[t]) : f[t][i] = o
    BY <1>1 DEF Range
  <1>3. \A x, y \in S : x = y
    BY <1>2 DEF ListedOnce
  <1>4. S = {} <=> ~Listed(f, o)
    BY <1>2 DEF Listed
  <1> HIDE DEF S
  <1>5. Cardinality(S) = IF S = {} THEN 0 ELSE 1
    BY <1>3, AtMostOne
  <1>6. Cardinality(S) = IF Listed(f, o) THEN 1 ELSE 0
    BY <1>4, <1>5
  <1> QED
    BY <1>6 DEF S

\* The done callback of an operation is run once, whoever wins it: completion,
\* the cancellation of its step, or a Close.
THEOREM DoneOnce == Spec => []DoneExactlyOnce
  <1>1. BaseInv /\ Places => DoneExactlyOnce
    <2> SUFFICES ASSUME BaseInv, Places, NEW o \in Op \ CancelCloser
                 PROVE  Holds(o) + done[o] = IF pc[o] \in {"absent", "idle"} THEN 0 ELSE 1
      BY DEF DoneExactlyOnce
    <2>1. OpsApart(enq) /\ OpsApart(deq) /\ ListedOnce(to_call) /\ ListedOnce(clean_up)
      BY DEF Places, AttemptsApart, PlaceInv
    <2>2. /\ to_call \in [Thread -> Seq(Op)] /\ clean_up \in [Thread -> Seq(Op)]
          /\ done[o] \in Nat
      BY DEF BaseInv, TypeOK, ThreadTypeOK, OpTypeOK
    <2> DEFINE Bit(b) == IF b THEN 1 ELSE 0
    <2>3. Holds(o) = Bit(IsLive(enq, o)) + Bit(IsLive(deq, o))
                     + Bit(Listed(to_call, o)) + Bit(Listed(clean_up, o))
      <3>1. Cardinality({i \in 1..Len(enq) : enq[i].op = o /\ ~enq[i].cancelled})
              = Bit(IsLive(enq, o))
        BY <2>1, CountAttempts
      <3>2. Cardinality({i \in 1..Len(deq) : deq[i].op = o /\ ~deq[i].cancelled})
              = Bit(IsLive(deq, o))
        BY <2>1, CountAttempts
      <3>3. Cardinality({t \in Thread : o \in Range(to_call[t])}) = Bit(Listed(to_call, o))
        BY <2>1, <2>2, CountLists
      <3>4. Cardinality({t \in Thread : o \in Range(clean_up[t])}) = Bit(Listed(clean_up, o))
        BY <2>1, <2>2, CountLists
      <3> HIDE DEF Bit
      <3> QED
        BY <3>1, <3>2, <3>3, <3>4 DEF Holds
    <2>4. ~(IsLive(enq, o) /\ IsLive(deq, o))
      <3>1. \A i \in 1..Len(enq) : enq[i].op \notin Dequeuer
        BY QueueAssumption DEF BaseInv, AttemptInv, EnqueueAttemptOK
      <3>2. \A i \in 1..Len(deq) : deq[i].op \in Dequeuer
        BY DEF BaseInv, AttemptInv, DequeueAttemptOK
      <3> QED
        BY <3>1, <3>2 DEF IsLive
    <2>5. Called(o) <=> pc[o] \notin {"absent", "idle"}
      BY DEF Called, NotCalled
    <2>6. /\ done[o] \in {0, 1}
          /\ Pending(o) => done[o] = 0 /\ ~Listed(to_call, o) /\ ~Listed(clean_up, o)
          /\ Listed(to_call, o) => done[o] = 0 /\ ~Listed(clean_up, o)
          /\ Listed(clean_up, o) => done[o] = 0
          /\ Called(o) <=> Pending(o) \/ Listed(to_call, o) \/ Listed(clean_up, o) \/ done[o] = 1
      BY DEF Places, PlaceInv
    <2> QED
      BY <2>3, <2>4, <2>5, <2>6 DEF Pending
  <1> QED
    BY <1>1, BaseInvariance, PlacesInvariance, PTL

(***************************************************************************)
(* What an operation is finished with, and with which callbacks.           *)
(***************************************************************************)

\* An operation that has been called stays called.
LEMMA CalledKept ==
  ASSUME BaseInv, [Next]_vars
  PROVE  \A o \in Op : Called(o) => Called(o)'
  <1> DEFINE Moves(t) == \E l \in Labels \ NotCalled : pc' = [pc EXCEPT ![t] = l]
  <1>t. pc \in [Thread -> Labels]
    BY BaseTypes
  <1>o. Op \subseteq Thread /\ CM \subseteq Thread
    BY DEF Thread
  <1>m. ASSUME NEW t \in Thread, pc' = pc \/ Moves(t) PROVE \A x \in Op : Called(x) => Called(x)'
    BY <1>m, <1>t, <1>o DEF Called, NotCalled
  <1>l. {"next", "flush", "flushing", "cleanup", "blocked", "notify", "returned"}
          \subseteq Labels \ NotCalled
    BY DEF Labels, NotCalled

  <1>1. ASSUME NEW o \in Op, TryNothing(o) PROVE \A x \in Op : Called(x) => Called(x)'
    <2>1. o \in Thread /\ (pc' = pc \/ Moves(o))
      BY <1>1, <1>l, <1>o DEF TryNothing, Goto
    <2> QED
      BY <2>1, <1>m
  <1>2. ASSUME NEW o \in Op, TryAppend(o) PROVE \A x \in Op : Called(x) => Called(x)'
    <2>1. o \in Thread /\ (pc' = pc \/ Moves(o))
      BY <1>2, <1>l, <1>o DEF TryAppend, Goto
    <2> QED
      BY <2>1, <1>m
  <1>3. ASSUME NEW o \in Op, TryTooLate(o) PROVE \A x \in Op : Called(x) => Called(x)'
    <2>1. o \in Thread /\ (pc' = pc \/ Moves(o))
      BY <1>3, <1>l, <1>o DEF TryTooLate, Goto
    <2> QED
      BY <2>1, <1>m
  <1>4. ASSUME NEW o \in Op, Close(o) PROVE \A x \in Op : Called(x) => Called(x)'
    <2>1. o \in Thread /\ (pc' = pc \/ Moves(o))
      BY <1>4, <1>l, <1>o DEF Close, Goto
    <2> QED
      BY <2>1, <1>m
  <1>5. ASSUME NEW o \in Op, CloseAndCancel(o) PROVE \A x \in Op : Called(x) => Called(x)'
    <2>1. o \in Thread /\ (pc' = pc \/ Moves(o))
      BY <1>5, <1>l, <1>o DEF CloseAndCancel, Goto
    <2> QED
      BY <2>1, <1>m
  <1>6. ASSUME NEW t \in Thread, RunCallback(t) PROVE \A x \in Op : Called(x) => Called(x)'
    <2>1. t \in Thread /\ (pc' = pc \/ Moves(t))
      BY <1>6, <1>l, <1>o DEF RunCallback
    <2> QED
      BY <2>1, <1>m
  <1>7. ASSUME NEW t \in Thread, FlushLock(t) PROVE \A x \in Op : Called(x) => Called(x)'
    <2>1. t \in Thread /\ (pc' = pc \/ Moves(t))
      BY <1>7, <1>l, <1>o DEF FlushLock, Goto
    <2> QED
      BY <2>1, <1>m
  <1>8. ASSUME NEW t \in Thread, SkipCancelled(t) PROVE \A x \in Op : Called(x) => Called(x)'
    <2>1. t \in Thread /\ (pc' = pc \/ Moves(t))
      BY <1>8, <1>l, <1>o DEF SkipCancelled, threadVars
    <2> QED
      BY <2>1, <1>m
  <1>9. ASSUME NEW t \in Thread, NoAttempt(t) PROVE \A x \in Op : Called(x) => Called(x)'
    <2>1. t \in Thread /\ (pc' = pc \/ Moves(t))
      BY <1>9, <1>l, <1>o DEF NoAttempt, EndOfAttempts
    <2> QED
      BY <2>1, <1>m
  <1>10. ASSUME NEW t \in Thread, TryEnqueueAttempt(t) PROVE \A x \in Op : Called(x) => Called(x)'
    <2>1. t \in Thread /\ (pc' = pc \/ Moves(t))
      BY <1>10, <1>l, <1>o DEF TryEnqueueAttempt, AfterRun, EndOfAttempts
    <2> QED
      BY <2>1, <1>m
  <1>11. ASSUME NEW t \in Thread, TryDequeueAttempt(t) PROVE \A x \in Op : Called(x) => Called(x)'
    <2>1. t \in Thread /\ (pc' = pc \/ Moves(t))
      BY <1>11, <1>l, <1>o DEF TryDequeueAttempt, AfterRun, EndOfAttempts
    <2> QED
      BY <2>1, <1>m
  <1>12. ASSUME NEW t \in Thread, CleanUp(t) PROVE \A x \in Op : Called(x) => Called(x)'
    <2>1. t \in Thread /\ (pc' = pc \/ Moves(t))
      BY <1>12, <1>l, <1>o DEF CleanUp
    <2> QED
      BY <2>1, <1>m
  <1>13. ASSUME NEW t \in Thread, CleanUpBlock(t) PROVE \A x \in Op : Called(x) => Called(x)'
    <2>1. t \in Thread /\ (pc' = pc \/ Moves(t))
      BY <1>13, <1>l, <1>o DEF CleanUpBlock, Goto
    <2> QED
      BY <2>1, <1>m
  <1>14. ASSUME NEW t \in Thread, CleanUpWake(t) PROVE \A x \in Op : Called(x) => Called(x)'
    <2>1. t \in Thread /\ (pc' = pc \/ Moves(t))
      BY <1>14, <1>l, <1>o DEF CleanUpWake, Goto
    <2> QED
      BY <2>1, <1>m
  <1>15. ASSUME NEW t \in Thread, FlushReturn(t) PROVE \A x \in Op : Called(x) => Called(x)'
    <2>1. t \in Thread /\ (pc' = pc \/ Moves(t))
      BY <1>15, <1>l, <1>o DEF FlushReturn, Goto
    <2> QED
      BY <2>1, <1>m
  <1>16. ASSUME NEW c \in CM, StartCancel(c) PROVE \A x \in Op : Called(x) => Called(x)'
    <2>1. c \in Thread /\ (pc' = pc \/ Moves(c))
      BY <1>16, <1>l, <1>o DEF StartCancel, Goto
    <2> QED
      BY <2>1, <1>m
  <1>17. ASSUME NEW c \in CM, FinishCancel(c) PROVE \A x \in Op : Called(x) => Called(x)'
    <2>1. c \in Thread /\ (pc' = pc \/ Moves(c))
      BY <1>17, <1>l, <1>o DEF FinishCancel, Goto
    <2> QED
      BY <2>1, <1>m
  <1>18. ASSUME NEW c \in CM, Notify(c) PROVE \A x \in Op : Called(x) => Called(x)'
    <2>1. c \in Thread /\ (pc' = pc \/ Moves(c))
      BY <1>18, <1>l, <1>o DEF Notify, Goto
    <2> QED
      BY <2>1, <1>m
  <1>19. ASSUME NEW c \in CM, NEW o \in Token, Cancel(c, o) PROVE \A x \in Op : Called(x) => Called(x)'
    <2>1. c \in Thread /\ (pc' = pc \/ Moves(c))
      BY <1>19, <1>l, <1>o DEF Cancel
    <2> QED
      BY <2>1, <1>m
  <1>20. CASE UNCHANGED vars
    BY <1>20 DEF vars, threadVars, Called
  <1> QED
    BY <1>1, <1>2, <1>3, <1>4, <1>5, <1>6, <1>7, <1>8, <1>9, <1>10, <1>11, <1>12, <1>13, <1>14, <1>15, <1>16, <1>17, <1>18, <1>19, <1>20 DEF Next, Call, FlushStep, CancelStep

\* A manager that has begun to cancel has no callbacks left to deregister.
LEMMA NextManager == BaseInv /\ ManagerInv /\ [Next]_vars => ManagerInv'
  <1> SUFFICES ASSUME BaseInv, ManagerInv, [Next]_vars PROVE ManagerInv'
    OBVIOUS
  <1>k. \A o \in Op : Called(o) => Called(o)'
    BY CalledKept
  <1>t. CMTypeOK /\ Token \subseteq Op
    BY DEF BaseInv, TypeOK, Op
  <1>u. ASSUME UNCHANGED <<is_cancelling, is_cancelled, notified, callbacks, callbacks_to_run>> PROVE ManagerInv'
    BY <1>u, <1>k, <1>t DEF CMTypeOK, ManagerInv, Cancels
  <1>1. ASSUME NEW o \in Op, TryNothing(o) PROVE ManagerInv'
    BY <1>1, <1>u DEF TryNothing, cmVars
  <1>2. ASSUME NEW o \in Op, TryAppend(o) PROVE ManagerInv'
    <2>1. /\ CMRegister(o) /\ o \in Token /\ pc[o] = "idle" /\ pc' = [pc EXCEPT ![o] = "flush"]
      BY <1>2 DEF TryAppend, Goto
    <2>2. Called(o)'
      <3>1. pc \in [Thread -> Labels] /\ o \in Thread
        BY BaseTypes DEF Thread
      <3> QED
        BY <2>1, <3>1 DEF Called, NotCalled
    <2>3. CMOf[o] \in CM
      BY <2>1, ManagerAssumption
    <2>4. \A c \in CM : callbacks'[c] = IF c = CMOf[o] THEN callbacks[c] \cup {o} ELSE callbacks[c]
      BY <2>1, <1>t DEF CMRegister, CMTypeOK
    <2>5. UNCHANGED <<is_cancelling, is_cancelled, notified, callbacks_to_run>> /\ ~Cancels(CMOf[o])
      BY <2>1 DEF CMRegister, ShouldRegister, Cancels
    <2>6. \A c \in CM : Cancels(c)' <=> Cancels(c)
      BY <2>5 DEF Cancels
    <2>a. \A c \in CM : Cancels(c)' => c # CMOf[o] /\ callbacks[c] = {}
      BY <2>5, <2>6 DEF ManagerInv
    <2>7. \A c \in CM : Cancels(c)' => callbacks'[c] = {}
      BY <2>a, <2>4
    <2>8. ASSUME NEW c \in CM, NEW x \in callbacks'[c] \cup callbacks_to_run'[c]
          PROVE  CMOf[x] = c /\ Called(x)'
      <3>1. CASE x = o /\ c = CMOf[o]
        BY <3>1, <2>2
      <3>2. CASE x \in callbacks[c] \cup callbacks_to_run[c]
        <4>1. CMOf[x] = c /\ Called(x) /\ x \in Op
          BY <3>2, <1>t DEF ManagerInv, CMTypeOK
        <4> QED
          BY <4>1, <1>k
      <3> QED
        BY <2>4, <2>5, <2>8, <3>1, <3>2
    <2>9. /\ \A c \in CM : notified'[c] => is_cancelled'[c]
          /\ \A c \in CM : callbacks_to_run'[c] # {} => is_cancelling'[c]
      BY <2>5 DEF ManagerInv
    <2> QED
      BY <2>7, <2>8, <2>9 DEF ManagerInv
  <1>3. ASSUME NEW o \in Op, TryTooLate(o) PROVE ManagerInv'
    BY <1>3, <1>u DEF TryTooLate, cmVars
  <1>4. ASSUME NEW o \in Op, Close(o) PROVE ManagerInv'
    BY <1>4, <1>u DEF Close, cmVars
  <1>5. ASSUME NEW o \in Op, CloseAndCancel(o) PROVE ManagerInv'
    BY <1>5, <1>u DEF CloseAndCancel, cmVars
  <1>6. ASSUME NEW t \in Thread, RunCallback(t) PROVE ManagerInv'
    BY <1>6, <1>u DEF RunCallback, cmVars
  <1>7. ASSUME NEW t \in Thread, FlushLock(t) PROVE ManagerInv'
    BY <1>7, <1>u DEF FlushLock, cmVars
  <1>8. ASSUME NEW t \in Thread, SkipCancelled(t) PROVE ManagerInv'
    BY <1>8, <1>u DEF SkipCancelled, cmVars
  <1>9. ASSUME NEW t \in Thread, NoAttempt(t) PROVE ManagerInv'
    BY <1>9, <1>u DEF NoAttempt, EndOfAttempts, cmVars
  <1>10. ASSUME NEW t \in Thread, TryEnqueueAttempt(t) PROVE ManagerInv'
    BY <1>10, <1>u DEF TryEnqueueAttempt, AfterRun, EndOfAttempts, cmVars
  <1>11. ASSUME NEW t \in Thread, TryDequeueAttempt(t) PROVE ManagerInv'
    BY <1>11, <1>u DEF TryDequeueAttempt, AfterRun, EndOfAttempts, cmVars
  <1>12. ASSUME NEW t \in Thread, CleanUp(t) PROVE ManagerInv'
    <2> DEFINE o == Head(clean_up[t])
    <2>1. CASE UNCHANGED cmVars
      BY <2>1, <1>u DEF cmVars
    <2>2. CASE o \in Token /\ CMDeregister(o)
      <3> HIDE DEF o
      <3>1. /\ UNCHANGED <<is_cancelling, is_cancelled, notified, callbacks_to_run>>
            /\ \A c \in CM : callbacks'[c] \subseteq callbacks[c]
        BY <2>2, <1>t, ManagerAssumption DEF CMDeregister, CMTypeOK
      <3>2. \A c \in CM : Cancels(c)' <=> Cancels(c)
        BY <3>1 DEF Cancels
      <3> QED
        BY <3>1, <3>2, <1>k, <1>t DEF ManagerInv, CMTypeOK
    <2> QED
      BY <1>12, <2>1, <2>2 DEF CleanUp
  <1>13. ASSUME NEW t \in Thread, CleanUpBlock(t) PROVE ManagerInv'
    BY <1>13, <1>u DEF CleanUpBlock, cmVars
  <1>14. ASSUME NEW t \in Thread, CleanUpWake(t) PROVE ManagerInv'
    BY <1>14, <1>u DEF CleanUpWake, Cleaned, cmVars
  <1>15. ASSUME NEW t \in Thread, FlushReturn(t) PROVE ManagerInv'
    BY <1>15, <1>u DEF FlushReturn, cmVars
  <1>16. ASSUME NEW c \in CM, StartCancel(c) PROVE ManagerInv'
    <2>1. CMStartCancel(c)
      BY <1>16 DEF StartCancel
    <2>2. /\ UNCHANGED <<is_cancelled, notified>> /\ is_cancelling'[c] = TRUE
          /\ callbacks_to_run'[c] = callbacks[c] /\ callbacks'[c] = {}
          /\ \A x \in CM : x # c => /\ is_cancelling'[x] = is_cancelling[x]
                                    /\ callbacks_to_run'[x] = callbacks_to_run[x]
                                    /\ callbacks'[x] = callbacks[x]
      BY <2>1, <1>t DEF CMStartCancel, CMTypeOK
    <2> QED
      BY <2>2, <1>k, <1>t DEF CMTypeOK, ManagerInv, Cancels
  <1>17. ASSUME NEW c \in CM, FinishCancel(c) PROVE ManagerInv'
    <2>1. CMFinishCancel(c)
      BY <1>17 DEF FinishCancel
    <2>2. /\ UNCHANGED <<notified, callbacks, callbacks_to_run>> /\ is_cancelled'[c] = TRUE
          /\ is_cancelling[c] /\ callbacks_to_run[c] = {}
          /\ \A x \in CM : x # c => /\ is_cancelling'[x] = is_cancelling[x]
                                    /\ is_cancelled'[x] = is_cancelled[x]
      BY <2>1, <1>t DEF CMFinishCancel, CMTypeOK
    <2> QED
      BY <2>2, <1>k, <1>t DEF CMTypeOK, ManagerInv, Cancels
  <1>18. ASSUME NEW c \in CM, Notify(c) PROVE ManagerInv'
    <2>1. CMNotify(c)
      BY <1>18 DEF Notify
    <2>2. /\ UNCHANGED <<is_cancelling, is_cancelled, callbacks, callbacks_to_run>> /\ is_cancelled[c]
          /\ \A x \in CM : x # c => notified'[x] = notified[x]
      BY <2>1, <1>t DEF CMNotify, CMTypeOK
    <2> QED
      BY <2>2, <1>k, <1>t DEF CMTypeOK, ManagerInv, Cancels
  <1>19. ASSUME NEW c \in CM, NEW o \in Token, Cancel(c, o) PROVE ManagerInv'
    <2>1. CMNextCallback(c, o)
      BY <1>19 DEF Cancel
    <2>2. /\ UNCHANGED <<is_cancelling, is_cancelled, notified, callbacks>>
          /\ \A x \in CM : callbacks_to_run'[x] \subseteq callbacks_to_run[x]
      BY <2>1, <1>t DEF CMNextCallback, CMTypeOK
    <2> QED
      BY <2>2, <1>k, <1>t DEF CMTypeOK, ManagerInv, Cancels
  <1>20. CASE UNCHANGED vars
    BY <1>20, <1>u DEF vars, cmVars
  <1> QED
    BY <1>1, <1>2, <1>3, <1>4, <1>5, <1>6, <1>7, <1>8, <1>9, <1>10, <1>11, <1>12, <1>13, <1>14, <1>15, <1>16, <1>17, <1>18, <1>19, <1>20 DEF Next, Call, FlushStep, CancelStep

\* A manager that has begun to cancel stays so.
LEMMA CancelsKept ==
  ASSUME CMTypeOK, [Next]_vars
  PROVE  \A c \in CM : Cancels(c) => Cancels(c)'
  <1>u. ASSUME UNCHANGED <<is_cancelling, is_cancelled>>
        PROVE  \A x \in CM : Cancels(x) => Cancels(x)'
    BY <1>u DEF Cancels
  <1>1. ASSUME NEW o \in Op, TryNothing(o) PROVE \A x \in CM : Cancels(x) => Cancels(x)'
    BY <1>1, <1>u DEF TryNothing, cmVars
  <1>2. ASSUME NEW o \in Op, TryAppend(o) PROVE \A x \in CM : Cancels(x) => Cancels(x)'
    BY <1>2, <1>u DEF TryAppend, CMRegister, cmVars
  <1>3. ASSUME NEW o \in Op, TryTooLate(o) PROVE \A x \in CM : Cancels(x) => Cancels(x)'
    BY <1>3, <1>u DEF TryTooLate, cmVars
  <1>4. ASSUME NEW o \in Op, Close(o) PROVE \A x \in CM : Cancels(x) => Cancels(x)'
    BY <1>4, <1>u DEF Close, cmVars
  <1>5. ASSUME NEW o \in Op, CloseAndCancel(o) PROVE \A x \in CM : Cancels(x) => Cancels(x)'
    BY <1>5, <1>u DEF CloseAndCancel, cmVars
  <1>6. ASSUME NEW t \in Thread, RunCallback(t) PROVE \A x \in CM : Cancels(x) => Cancels(x)'
    BY <1>6, <1>u DEF RunCallback, cmVars
  <1>7. ASSUME NEW t \in Thread, FlushLock(t) PROVE \A x \in CM : Cancels(x) => Cancels(x)'
    BY <1>7, <1>u DEF FlushLock, cmVars
  <1>8. ASSUME NEW t \in Thread, SkipCancelled(t) PROVE \A x \in CM : Cancels(x) => Cancels(x)'
    BY <1>8, <1>u DEF SkipCancelled, cmVars
  <1>9. ASSUME NEW t \in Thread, NoAttempt(t) PROVE \A x \in CM : Cancels(x) => Cancels(x)'
    BY <1>9, <1>u DEF NoAttempt, cmVars
  <1>10. ASSUME NEW t \in Thread, TryEnqueueAttempt(t) PROVE \A x \in CM : Cancels(x) => Cancels(x)'
    BY <1>10, <1>u DEF TryEnqueueAttempt, cmVars
  <1>11. ASSUME NEW t \in Thread, TryDequeueAttempt(t) PROVE \A x \in CM : Cancels(x) => Cancels(x)'
    BY <1>11, <1>u DEF TryDequeueAttempt, cmVars
  <1>12. ASSUME NEW t \in Thread, CleanUp(t) PROVE \A x \in CM : Cancels(x) => Cancels(x)'
    BY <1>12, <1>u DEF CleanUp, Cleaned, CMDeregister, cmVars
  <1>13. ASSUME NEW t \in Thread, CleanUpBlock(t) PROVE \A x \in CM : Cancels(x) => Cancels(x)'
    BY <1>13, <1>u DEF CleanUpBlock, cmVars
  <1>14. ASSUME NEW t \in Thread, CleanUpWake(t) PROVE \A x \in CM : Cancels(x) => Cancels(x)'
    BY <1>14, <1>u DEF CleanUpWake, cmVars
  <1>15. ASSUME NEW t \in Thread, FlushReturn(t) PROVE \A x \in CM : Cancels(x) => Cancels(x)'
    BY <1>15, <1>u DEF FlushReturn, cmVars
  <1>16. ASSUME NEW c \in CM, StartCancel(c) PROVE \A x \in CM : Cancels(x) => Cancels(x)'
    BY <1>16 DEF StartCancel, CMStartCancel, CMTypeOK, Cancels
  <1>17. ASSUME NEW c \in CM, FinishCancel(c) PROVE \A x \in CM : Cancels(x) => Cancels(x)'
    BY <1>17 DEF FinishCancel, CMFinishCancel, CMTypeOK, Cancels
  <1>18. ASSUME NEW c \in CM, Notify(c) PROVE \A x \in CM : Cancels(x) => Cancels(x)'
    BY <1>18, <1>u DEF Notify, CMNotify, cmVars
  <1>19. ASSUME NEW c \in CM, NEW o \in Token, Cancel(c, o) PROVE \A x \in CM : Cancels(x) => Cancels(x)'
    BY <1>19, <1>u DEF Cancel, CMNextCallback, cmVars
  <1>20. CASE UNCHANGED vars
    BY <1>20, <1>u DEF vars, cmVars
  <1> QED
    BY <1>1, <1>2, <1>3, <1>4, <1>5, <1>6, <1>7, <1>8, <1>9, <1>10, <1>11, <1>12, <1>13, <1>14, <1>15, <1>16, <1>17, <1>18, <1>19, <1>20 DEF Next, Call, FlushStep, CancelStep

\* An operation whose attempt is run has not been finished or cancelled.
LEMMA RunnerPlaces ==
  ASSUME BaseInv, Places, NEW t \in Thread, NEW o,
         \/ TryEnqueueAttempt(t) /\ o = Head(enq).op
         \/ TryDequeueAttempt(t) /\ o = Head(deq).op
  PROVE  /\ o \in Op \ CancelCloser /\ Called(o)
         /\ done[o] = 0 /\ ~Listed(to_call, o) /\ ~Listed(clean_up, o)
         /\ TryEnqueueAttempt(t) => o \notin Dequeuer
         /\ TryDequeueAttempt(t) => o \in Dequeuer
  <1>t. enq \in Seq(Attempt) /\ deq \in Seq(Attempt)
    BY BaseTypes
  <1>a. OpsApart(enq) /\ OpsApart(deq)
    BY DEF Places, AttemptsApart
  <1>e. action = "kEnqueue" => action # "kDequeue"
    OBVIOUS
  <1>1. CASE TryEnqueueAttempt(t) /\ o = Head(enq).op
    <2>1. enq # <<>> /\ ~Head(enq).cancelled /\ action = "kEnqueue"
      BY <1>1 DEF TryEnqueueAttempt
    <2>2. IsLive(enq, o) /\ On(enq, o)
      BY <2>1, <1>1, <1>t, <1>a, TailPlaces
    <2>3. o \in Op \ CancelCloser /\ o \notin Dequeuer /\ Pending(o)
      BY <2>2, AttemptOps DEF Pending
    <2>4. ~TryDequeueAttempt(t)
      BY <2>1 DEF TryDequeueAttempt
    <2> QED
      BY <1>1, <2>3, <2>4 DEF Places, PlaceInv
  <1>2. CASE TryDequeueAttempt(t) /\ o = Head(deq).op
    <2>1. deq # <<>> /\ ~Head(deq).cancelled /\ action = "kDequeue"
      BY <1>2 DEF TryDequeueAttempt
    <2>2. IsLive(deq, o) /\ On(deq, o)
      BY <2>1, <1>2, <1>t, <1>a, TailPlaces
    <2>3. o \in Op \ CancelCloser /\ o \in Dequeuer /\ Pending(o)
      BY <2>2, AttemptOps, Sorts DEF Pending
    <2>4. ~TryEnqueueAttempt(t)
      BY <2>1 DEF TryEnqueueAttempt
    <2> QED
      BY <1>2, <2>3, <2>4 DEF Places, PlaceInv
  <1> QED
    BY <1>1, <1>2

\* The head of a list, and what is left of the lists without it.
LEMMA HeadView ==
  ASSUME NEW f \in [Thread -> Seq(Op)], NEW t \in Thread, f[t] # <<>>
  PROVE  /\ Head(f[t]) \in Op /\ InList(f, t, Head(f[t]))
         /\ \A u \in Thread : \A o : InList([f EXCEPT ![t] = Tail(@)], u, o) => InList(f, u, o)
  <1> DEFINE g == [f EXCEPT ![t] = Tail(@)]
  <1>1. f[t] \in Seq(Op)
    OBVIOUS
  <1>2. /\ Head(f[t]) = f[t][1] /\ Head(f[t]) \in Op /\ 1 \in 1..Len(f[t])
        /\ \A i \in 1..Len(Tail(f[t])) : i + 1 \in 1..Len(f[t]) /\ Tail(f[t])[i] = f[t][i + 1]
    BY <1>1, TailView
  <1>3. g[t] = Tail(f[t]) /\ \A v \in Thread : v # t => g[v] = f[v]
    OBVIOUS
  <1> HIDE DEF g
  <1>4. \A u \in Thread : \A o : InList(g, u, o) => InList(f, u, o)
    BY <1>2, <1>3 DEF InList
  <1> QED
    BY <1>2, <1>4 DEF g, InList

\* A callback that has been taken is run by a manager that cancels, or by a Close.
LEMMA NextCalled == BaseInv /\ Places /\ ManagerInv /\ CalledInv /\ [Next]_vars => CalledInv'
  <1> SUFFICES ASSUME BaseInv, Places, ManagerInv, CalledInv, [Next]_vars PROVE CalledInv'
    OBVIOUS
  <1>t. /\ to_call \in [Thread -> Seq(Op)] /\ st \in [Op -> Status] /\ enq \in Seq(Attempt)
    BY BaseTypes
  <1>c. \A c \in CM : Cancels(c) => Cancels(c)'
    BY CancelsKept DEF BaseInv, TypeOK
  <1>q. ASSUME \A t \in Thread : \A o \in Op : InList(to_call', t, o) => InList(to_call, t, o),
               \A o \in Op : Listed(to_call, o) => st'[o] = st[o] \/ st'[o] = "Cancelled"
        PROVE  CalledInv'
    <2>1. \A t \in Thread : \A o \in Op : InList(to_call, t, o) => Listed(to_call, o)
      BY DEF InList, Listed
    <2> QED
      BY <2>1, <1>q, <1>c DEF CalledInv
  <1>u. ASSUME UNCHANGED <<to_call, st>> PROVE CalledInv'
    BY <1>u, <1>q
  <1>1. ASSUME NEW o \in Op, TryNothing(o) PROVE CalledInv'
    BY <1>1, <1>u DEF TryNothing, opVars, threadVars
  <1>2. ASSUME NEW o \in Op, TryAppend(o) PROVE CalledInv'
    BY <1>2, <1>u DEF TryAppend, opVars, threadVars
  <1>3. ASSUME NEW o \in Op, TryTooLate(o) PROVE CalledInv'
    <2>1. UNCHANGED to_call /\ st' = [st EXCEPT ![o] = "Cancelled"]
      BY <1>3 DEF TryTooLate
    <2>2. \A x \in Op : st'[x] = st[x] \/ st'[x] = "Cancelled"
      BY <2>1, <1>t
    <2> QED
      BY <2>1, <2>2, <1>q
  <1>4. ASSUME NEW o \in Op, Close(o) PROVE CalledInv'
    BY <1>4, <1>u DEF Close, opVars, threadVars
  <1>5. ASSUME NEW o \in Op, CloseAndCancel(o) PROVE CalledInv'
    <2> DEFINE v == OpsOf(Live(enq))
    <2>1. /\ pc[o] = "idle" /\ o \in CancelCloser
          /\ to_call' = [to_call EXCEPT ![o] = v]
          /\ st' = [x \in Op |-> IF x \in Range(v) THEN "Cancelled" ELSE st[x]]
      BY <1>5 DEF CloseAndCancel, Goto
    <2>2. /\ v \in Seq(Op)
          /\ \A y : (\E i \in 1..Len(v) : v[i] = y) <=> IsLive(enq, y)
      BY <1>t, VictimsView
    <2>3. \A y : IsLive(enq, y) => y \notin Dequeuer
      BY AttemptOps
    <2> HIDE DEF v
    <2>4. DOMAIN v = 1..Len(v)
      BY <2>2
    <2>5. \A y : (\E i \in 1..Len(v) : v[i] = y) => y \in Range(v)
      BY <2>4 DEF Range
    <2>6. o \in Thread
      BY DEF Thread
    <2>7. to_call'[o] = v /\ \A t \in Thread : t # o => to_call'[t] = to_call[t]
      BY <2>1, <2>6, <1>t
    <2>8. \A x \in Op : st'[x] = st[x] \/ st'[x] = "Cancelled"
      BY <2>1
    <2>9. \A x \in Op : InList(to_call', o, x) => st'[x] = "Cancelled" /\ x \notin Dequeuer
      BY <2>1, <2>2, <2>3, <2>5, <2>7 DEF InList
    <2>10. \A t \in Thread : \A x \in Op : t # o => (InList(to_call', t, x) <=> InList(to_call, t, x))
      BY <2>7 DEF InList
    <2> QED
      BY <2>1, <2>8, <2>9, <2>10, <1>c DEF CalledInv
  <1>6. ASSUME NEW t \in Thread, RunCallback(t) PROVE CalledInv'
    <2>1. /\ to_call[t] # <<>> /\ to_call' = [to_call EXCEPT ![t] = Tail(@)]
          /\ UNCHANGED st
      BY <1>6 DEF RunCallback
    <2>2. \A u \in Thread : \A o : InList(to_call', u, o) => InList(to_call, u, o)
      BY <2>1, <1>t, HeadView
    <2> QED
      BY <2>1, <2>2, <1>q
  <1>7. ASSUME NEW t \in Thread, FlushLock(t) PROVE CalledInv'
    BY <1>7, <1>u DEF FlushLock, opVars, threadVars
  <1>8. ASSUME NEW t \in Thread, SkipCancelled(t) PROVE CalledInv'
    BY <1>8, <1>u DEF SkipCancelled, opVars, threadVars
  <1>9. ASSUME NEW t \in Thread, NoAttempt(t) PROVE CalledInv'
    BY <1>9, <1>u DEF NoAttempt, EndOfAttempts, opVars, threadVars
  <1>10. ASSUME NEW t \in Thread, TryEnqueueAttempt(t) PROVE CalledInv'
    <2> DEFINE o == Head(enq).op
    <2>1. UNCHANGED to_call /\ \E s : st' = [st EXCEPT ![o] = s]
      BY <1>10 DEF TryEnqueueAttempt
    <2>2. o \in Op /\ ~Listed(to_call, o)
      BY <1>10, RunnerPlaces
    <2> HIDE DEF o
    <2>3. \A x \in Op : Listed(to_call, x) => st'[x] = st[x]
      BY <2>1, <2>2, <1>t
    <2> QED
      BY <2>1, <2>3, <1>q
  <1>11. ASSUME NEW t \in Thread, TryDequeueAttempt(t) PROVE CalledInv'
    <2> DEFINE o == Head(deq).op
    <2>1. UNCHANGED to_call /\ \E s : st' = [st EXCEPT ![o] = s]
      BY <1>11 DEF TryDequeueAttempt
    <2>2. o \in Op /\ ~Listed(to_call, o)
      BY <1>11, RunnerPlaces
    <2> HIDE DEF o
    <2>3. \A x \in Op : Listed(to_call, x) => st'[x] = st[x]
      BY <2>1, <2>2, <1>t
    <2> QED
      BY <2>1, <2>3, <1>q
  <1>12. ASSUME NEW t \in Thread, CleanUp(t) PROVE CalledInv'
    BY <1>12, <1>u DEF CleanUp, Cleaned, opVars, threadVars
  <1>13. ASSUME NEW t \in Thread, CleanUpBlock(t) PROVE CalledInv'
    BY <1>13, <1>u DEF CleanUpBlock, opVars, threadVars
  <1>14. ASSUME NEW t \in Thread, CleanUpWake(t) PROVE CalledInv'
    BY <1>14, <1>u DEF CleanUpWake, Cleaned, opVars, threadVars
  <1>15. ASSUME NEW t \in Thread, FlushReturn(t) PROVE CalledInv'
    BY <1>15, <1>u DEF FlushReturn, opVars, threadVars
  <1>16. ASSUME NEW c \in CM, StartCancel(c) PROVE CalledInv'
    BY <1>16, <1>u DEF StartCancel, opVars, threadVars
  <1>17. ASSUME NEW c \in CM, FinishCancel(c) PROVE CalledInv'
    BY <1>17, <1>u DEF FinishCancel, opVars, threadVars
  <1>18. ASSUME NEW c \in CM, Notify(c) PROVE CalledInv'
    BY <1>18, <1>u DEF Notify, opVars, threadVars
  <1>19. ASSUME NEW c \in CM, NEW o \in Token, Cancel(c, o) PROVE CalledInv'
    <2>1. CASE ~(IsLive(enq, o) \/ IsLive(deq, o))
      <3>1. UNCHANGED <<to_call, st>>
        BY <1>19, <2>1 DEF Cancel
      <3> QED
        BY <3>1, <1>u
    <2>2. CASE IsLive(enq, o) \/ IsLive(deq, o)
      <3>1. /\ to_call' = [to_call EXCEPT ![c] = <<o>>] /\ st' = [st EXCEPT ![o] = "Cancelled"]
            /\ CMNextCallback(c, o)
        BY <1>19, <2>2 DEF Cancel
      <3>2. o \in callbacks_to_run[c]
        BY <3>1 DEF CMNextCallback
      <3>3. CMOf[o] = c /\ Cancels(c)
        BY <3>2 DEF ManagerInv, Cancels
      <3>4. c \in Thread /\ o \in Op
        BY DEF Thread, Op
      <3>5. to_call'[c] = <<o>> /\ \A t \in Thread : t # c => to_call'[t] = to_call[t]
        BY <3>1, <3>4, <1>t
      <3>6. st'[o] = "Cancelled" /\ \A x \in Op : st'[x] = st[x] \/ st'[x] = "Cancelled"
        BY <3>1, <3>4, <1>t
      <3>7. \A x : InList(to_call', c, x) => x = o
        BY <3>5 DEF InList
      <3>8. \A t \in Thread : \A x \in Op : t # c => (InList(to_call', t, x) <=> InList(to_call, t, x))
        BY <3>5 DEF InList
      <3> QED
        BY <3>3, <3>4, <3>6, <3>7, <3>8, <1>c DEF CalledInv
    <2> QED
      BY <2>1, <2>2
  <1>20. CASE UNCHANGED vars
    BY <1>20, <1>u DEF vars, opVars, threadVars
  <1> QED
    BY <1>1, <1>2, <1>3, <1>4, <1>5, <1>6, <1>7, <1>8, <1>9, <1>10, <1>11, <1>12, <1>13, <1>14, <1>15, <1>16, <1>17, <1>18, <1>19, <1>20 DEF Next, Call, FlushStep, CancelStep

\* A dequeue that goes to the clean up without an error has its batch.
LEMMA NextBatch == BaseInv /\ Places /\ CalledInv /\ BatchInv /\ [Next]_vars => BatchInv'
  <1> SUFFICES ASSUME BaseInv, Places, CalledInv, BatchInv, [Next]_vars PROVE BatchInv'
    OBVIOUS
  <1>t. /\ done \in [Op -> Nat] /\ st \in [Op -> Status] /\ got \in [Op -> Seq(Element)]
        /\ to_call \in [Thread -> Seq(Op)] /\ clean_up \in [Thread -> Seq(Op)]
        /\ Dequeuer \subseteq Op /\ Dequeuer \cap CancelCloser = {}
    <2>1. Dequeuer \subseteq Op /\ Dequeuer \cap CancelCloser = {}
      BY Sorts
    <2> QED
      BY <2>1, BaseTypes
  <1>k. \A x \in Dequeuer : ~Called(x)' => ~Called(x)
    BY <1>t, CalledKept
  <1>q. ASSUME \A x \in Dequeuer : got'[x] = got[x], closed => closed',
               \A x \in Dequeuer : Finished(x)' /\ st'[x] = "ok" => Finished(x) /\ st[x] = "ok"
        PROVE  BatchInv'
    BY <1>q, <1>k DEF BatchInv, FullBatch
  <1>u. ASSUME UNCHANGED <<clean_up, done, st, got, closed>> PROVE BatchInv'
    BY <1>u, <1>q DEF Finished
  <1>1. ASSUME NEW o \in Op, TryNothing(o) PROVE BatchInv'
    <2>1. /\ pc[o] = "idle" /\ Num[o] = 0 /\ done' = [done EXCEPT ![o] = @ + 1]
          /\ UNCHANGED <<clean_up, st, got, closed>>
      BY <1>1 DEF TryNothing, Goto, Finish, dataVars
    <2>2. ~Called(o)
      BY <2>1 DEF Called, NotCalled
    <2>3. \A x \in Dequeuer : x # o => (Finished(x)' <=> Finished(x))
      BY <2>1, <1>t DEF Finished
    <2>4. o \in Dequeuer => Len(got'[o]) = Num[o] /\ got'[o] = <<>>
      BY <2>1, <2>2 DEF BatchInv
    <2> QED
      BY <2>1, <2>3, <2>4, <1>k DEF BatchInv, FullBatch
  <1>2. ASSUME NEW o \in Op, TryAppend(o) PROVE BatchInv'
    BY <1>2, <1>u DEF TryAppend, dataVars, opVars, threadVars, Finish
  <1>3. ASSUME NEW o \in Op, TryTooLate(o) PROVE BatchInv'
    <2>1. /\ done' = [done EXCEPT ![o] = @ + 1] /\ st' = [st EXCEPT ![o] = "Cancelled"]
          /\ UNCHANGED <<clean_up, got, closed>>
      BY <1>3 DEF TryTooLate, Finish, dataVars
    <2>2. \A x \in Dequeuer : x # o => (Finished(x)' <=> Finished(x)) /\ st'[x] = st[x]
      BY <2>1, <1>t DEF Finished
    <2>3. o \in Dequeuer => st'[o] # "ok"
      BY <2>1, <1>t
    <2> QED
      BY <2>1, <2>2, <2>3, <1>q
  <1>4. ASSUME NEW o \in Op, Close(o) PROVE BatchInv'
    BY <1>4, <1>u DEF Close, dataVars, opVars, threadVars, Finish
  <1>5. ASSUME NEW o \in Op, CloseAndCancel(o) PROVE BatchInv'
    <2> DEFINE v == OpsOf(Live(enq))
    <2>1. /\ st' = [x \in Op |-> IF x \in Range(v) THEN "Cancelled" ELSE st[x]]
          /\ UNCHANGED <<clean_up, done, got>> /\ closed' = TRUE
      BY <1>5 DEF CloseAndCancel
    <2> HIDE DEF v
    <2>2. \A x \in Dequeuer : (Finished(x)' <=> Finished(x)) /\ st'[x] \in {"Cancelled", st[x]}
      BY <2>1, <1>t DEF Finished
    <2> QED
      BY <2>1, <2>2, <1>q
  <1>6. ASSUME NEW t \in Thread, RunCallback(t) PROVE BatchInv'
    <2> DEFINE o == Head(to_call[t])
    <2>1. /\ to_call[t] # <<>> /\ done' = [done EXCEPT ![o] = @ + 1]
          /\ UNCHANGED <<clean_up, st, got, closed>>
      BY <1>6 DEF RunCallback, Finish, dataVars
    <2>2. o \in Op /\ InList(to_call, t, o)
      BY <2>1, <1>t, HeadView
    <2> HIDE DEF o
    <2>3. st'[o] = "Cancelled"
      BY <2>1, <2>2 DEF CalledInv
    <2>4. \A x \in Dequeuer : x # o => (Finished(x)' <=> Finished(x))
      BY <2>1, <1>t DEF Finished
    <2> QED
      BY <2>1, <2>3, <2>4, <1>q
  <1>7. ASSUME NEW t \in Thread, FlushLock(t) PROVE BatchInv'
    BY <1>7, <1>u DEF FlushLock, dataVars, opVars, threadVars, Finish
  <1>8. ASSUME NEW t \in Thread, SkipCancelled(t) PROVE BatchInv'
    BY <1>8, <1>u DEF SkipCancelled, dataVars, opVars, threadVars, Finish
  <1>9. ASSUME NEW t \in Thread, NoAttempt(t) PROVE BatchInv'
    BY <1>9, <1>u DEF NoAttempt, EndOfAttempts, dataVars, opVars, threadVars, Finish
  <1>10. ASSUME NEW t \in Thread, TryEnqueueAttempt(t) PROVE BatchInv'
    <2> DEFINE o == Head(enq).op
    <2>1. /\ \E s : st' = [st EXCEPT ![o] = s]
          /\ closed => closed'
          /\ UNCHANGED <<got, done>>
      BY <1>10 DEF TryEnqueueAttempt
    <2>2. o \in Op \ CancelCloser /\ ~Listed(clean_up, o) /\ o \notin Dequeuer
      BY <1>10, RunnerPlaces
    <2>3. clean_up' = clean_up \/ clean_up' = [clean_up EXCEPT ![t] = Append(@, o)]
      BY <1>10, EnqueueStep DEF BaseInv
    <2> HIDE DEF o
    <2>4. \A x \in Dequeuer : Listed(clean_up', x) <=> Listed(clean_up, x)
      <3>1. CASE clean_up' = clean_up
        BY <3>1
      <3>2. CASE clean_up' = [clean_up EXCEPT ![t] = Append(@, o)]
        <4>1. ListedOnce(clean_up)
          BY DEF Places, PlaceInv
        <4>2. \A x : Listed(clean_up', x) <=> Listed(clean_up, x) \/ x = o
          BY <3>2, <4>1, <2>2, <1>t, ListAppend
        <4> QED
          BY <4>2, <2>2
      <3> QED
        BY <2>3, <3>1, <3>2
    <2>5. \A x \in Dequeuer : (Finished(x)' <=> Finished(x)) /\ st'[x] = st[x]
      BY <2>1, <2>2, <2>4, <1>t DEF Finished
    <2> QED
      BY <2>1, <2>5, <1>q
  <1>11. ASSUME NEW t \in Thread, TryDequeueAttempt(t) PROVE BatchInv'
    <2> DEFINE a == Head(deq)
               r == RunDequeue(a)
    <2>0. PICK o : o = a.op
      OBVIOUS
    <2>1. /\ a \in Attempt /\ DequeueAttemptOK(a) /\ BufferOK
          /\ \/ r.result = "kComplete" /\ clean_up' = [clean_up EXCEPT ![t] = Append(@, o)]
             \/ r.result # "kComplete" /\ clean_up' = clean_up
      BY <1>11, <2>0, DequeueStep DEF BaseInv
    <2>2. /\ st' = [st EXCEPT ![o] = r.status]
          /\ r.result = "kComplete" => got' = [got EXCEPT ![o] = r.attempt.tuple]
          /\ r.result # "kComplete" => got' = got
          /\ UNCHANGED <<closed, done>>
      BY <1>11, <2>0 DEF TryDequeueAttempt
    <2>3. /\ o \in Op \ CancelCloser /\ Called(o) /\ ~Listed(clean_up, o) /\ done[o] = 0
          /\ o \in Dequeuer
      BY <1>11, <2>0, RunnerPlaces
    <2>4. /\ r.attempt \in Attempt
          /\ r.result = "kComplete" /\ r.status = "ok" =>
               \/ Len(r.attempt.tuple) = Num[o]
               \/ o \in UpTo /\ closed /\ Len(r.attempt.tuple) \in 1..Num[o]
      BY <2>0, <2>1, RunDequeueFacts
    <2> HIDE DEF a, r
    <2>5. \A x \in Dequeuer : x # o => got'[x] = got[x] /\ st'[x] = st[x]
      BY <2>2, <1>t
    <2>6. Called(o)'
      BY <2>3, <1>k
    <2>7. CASE r.result = "kComplete" /\ clean_up' = [clean_up EXCEPT ![t] = Append(@, o)]
      <3>1. ListedOnce(clean_up)
        BY DEF Places, PlaceInv
      <3>2. \A x : Listed(clean_up', x) <=> Listed(clean_up, x) \/ x = o
        BY <2>3, <2>7, <3>1, <1>t, ListAppend
      <3>3. \A x \in Dequeuer : x # o => (Finished(x)' <=> Finished(x))
        BY <2>2, <3>2 DEF Finished
      <3>4. st'[o] = r.status /\ got'[o] = r.attempt.tuple
        BY <2>2, <2>3, <2>7, <1>t
      <3>5. st'[o] = "ok" => FullBatch(o)'
        BY <2>2, <2>4, <2>7, <3>4 DEF FullBatch
      <3>6. \A x \in Dequeuer : x # o => (FullBatch(x)' <=> FullBatch(x))
        BY <2>2, <2>5 DEF FullBatch
      <3> QED
        BY <2>5, <2>6, <3>3, <3>5, <3>6, <1>k DEF BatchInv
    <2>8. CASE r.result # "kComplete" /\ clean_up' = clean_up
      <3>1. \A x \in Dequeuer : (Finished(x)' <=> Finished(x)) /\ got'[x] = got[x]
        BY <2>2, <2>8 DEF Finished
      <3>2. ~Finished(o)
        BY <2>3 DEF Finished
      <3> QED
        BY <2>2, <2>5, <3>1, <3>2, <1>q
    <2> QED
      BY <2>1, <2>7, <2>8
  <1>12. ASSUME NEW t \in Thread, CleanUp(t) PROVE BatchInv'
    <2> DEFINE o == Head(clean_up[t])
    <2>1. /\ clean_up[t] # <<>> /\ clean_up' = [clean_up EXCEPT ![t] = Tail(@)]
          /\ done' = [done EXCEPT ![o] = @ + 1]
          /\ UNCHANGED <<st, got, closed>>
      BY <1>12 DEF CleanUp, Cleaned, Finish, Goto, dataVars, BaseInv, FlushInv
    <2>2. ListedOnce(clean_up)
      BY DEF Places, PlaceInv
    <2>3. /\ o \in Op /\ Listed(clean_up, o)
          /\ \A y : Listed(clean_up', y) <=> Listed(clean_up, y) /\ y # o
      BY <2>1, <2>2, <1>t, ListTail
    <2> HIDE DEF o
    <2>4. \A x \in Dequeuer : Finished(x)' => Finished(x)
      BY <2>1, <2>3, <1>t DEF Finished
    <2> QED
      BY <2>1, <2>4, <1>q
  <1>13. ASSUME NEW t \in Thread, CleanUpBlock(t) PROVE BatchInv'
    BY <1>13, <1>u DEF CleanUpBlock, dataVars, opVars, threadVars, Finish
  <1>14. ASSUME NEW t \in Thread, CleanUpWake(t) PROVE BatchInv'
    <2> DEFINE o == Head(clean_up[t])
    <2>1. /\ clean_up[t] # <<>> /\ clean_up' = [clean_up EXCEPT ![t] = Tail(@)]
          /\ done' = [done EXCEPT ![o] = @ + 1]
          /\ UNCHANGED <<st, got, closed>>
      BY <1>14 DEF CleanUpWake, Cleaned, Finish, Goto, dataVars, BaseInv, FlushInv
    <2>2. ListedOnce(clean_up)
      BY DEF Places, PlaceInv
    <2>3. /\ o \in Op /\ Listed(clean_up, o)
          /\ \A y : Listed(clean_up', y) <=> Listed(clean_up, y) /\ y # o
      BY <2>1, <2>2, <1>t, ListTail
    <2> HIDE DEF o
    <2>4. \A x \in Dequeuer : Finished(x)' => Finished(x)
      BY <2>1, <2>3, <1>t DEF Finished
    <2> QED
      BY <2>1, <2>4, <1>q
  <1>15. ASSUME NEW t \in Thread, FlushReturn(t) PROVE BatchInv'
    <2>1. /\ IF t \in CancelCloser THEN done' = [done EXCEPT ![t] = @ + 1] ELSE done' = done
          /\ UNCHANGED <<clean_up, st, got, closed>>
      BY <1>15 DEF FlushReturn, Finish, dataVars
    <2>2. \A x \in Dequeuer : Finished(x)' <=> Finished(x)
      BY <2>1, <1>t DEF Finished
    <2> QED
      BY <2>1, <2>2, <1>q
  <1>16. ASSUME NEW c \in CM, StartCancel(c) PROVE BatchInv'
    BY <1>16, <1>u DEF StartCancel, dataVars, opVars, threadVars, Finish
  <1>17. ASSUME NEW c \in CM, FinishCancel(c) PROVE BatchInv'
    BY <1>17, <1>u DEF FinishCancel, dataVars, opVars, threadVars, Finish
  <1>18. ASSUME NEW c \in CM, Notify(c) PROVE BatchInv'
    BY <1>18, <1>u DEF Notify, dataVars, opVars, threadVars, Finish
  <1>19. ASSUME NEW c \in CM, NEW o \in Token, Cancel(c, o) PROVE BatchInv'
    <2>1. /\ st' = st \/ st' = [st EXCEPT ![o] = "Cancelled"]
          /\ UNCHANGED <<clean_up, done, got, closed>>
      BY <1>19 DEF Cancel
    <2>2. \A x \in Dequeuer : (Finished(x)' <=> Finished(x)) /\ st'[x] \in {"Cancelled", st[x]}
      BY <2>1, <1>t DEF Finished
    <2> QED
      BY <2>1, <2>2, <1>q
  <1>20. CASE UNCHANGED vars
    BY <1>20, <1>u DEF vars, dataVars, opVars, threadVars
  <1> QED
    BY <1>1, <1>2, <1>3, <1>4, <1>5, <1>6, <1>7, <1>8, <1>9, <1>10, <1>11, <1>12, <1>13, <1>14, <1>15, <1>16, <1>17, <1>18, <1>19, <1>20 DEF Next, Call, FlushStep, CancelStep


\* A callback is left with its manager; a Close excuses that.
Left(o) == done[o] = 1 /\ o \in callbacks[CMOf[o]]
Excused(o) ==
    /\ o \in Enqueuer /\ st[o] = "Cancelled"
    /\ \E x \in CancelCloser : Called(x)

\* Whoever finishes an operation has deregistered its callback, or a Close has
\* cancelled it.
LEMMA NextDeregistered == BaseInv /\ Places /\ ManagerInv /\ CalledInv /\ DeregisteredUnlessClosed /\ [Next]_vars => DeregisteredUnlessClosed'
  <1> SUFFICES ASSUME BaseInv, Places, ManagerInv, CalledInv, DeregisteredUnlessClosed, [Next]_vars PROVE DeregisteredUnlessClosed'
    OBVIOUS
  <1>t. /\ done \in [Op -> Nat] /\ st \in [Op -> Status] /\ CMTypeOK
        /\ to_call \in [Thread -> Seq(Op)] /\ clean_up \in [Thread -> Seq(Op)]
        /\ \A o \in Token : o \in Op \ CancelCloser /\ CMOf[o] \in CM
    <2>1. \A o \in Token : o \in Op \ CancelCloser /\ CMOf[o] \in CM
      BY Sorts, ManagerAssumption
    <2>2. CMTypeOK
      BY DEF BaseInv, TypeOK
    <2> QED
      BY <2>1, <2>2, BaseTypes
  <1>k. \A x \in CancelCloser : Called(x) => Called(x)'
    BY Sorts, CalledKept
  <1>d. /\ DeregisteredUnlessClosed <=> \A o \in Token : Left(o) => Excused(o)
        /\ DeregisteredUnlessClosed' <=> \A o \in Token : Left(o)' => Excused(o)'
    BY DEF DeregisteredUnlessClosed, Left, Excused, Called, NotCalled
  <1>q. ASSUME \A x \in Token : Left(x)' => Left(x) /\ (st'[x] = st[x] \/ st'[x] = "Cancelled")
        PROVE  DeregisteredUnlessClosed'
    BY <1>q, <1>d, <1>k DEF Excused
  <1>u. ASSUME UNCHANGED <<done, st, callbacks>> PROVE DeregisteredUnlessClosed'
    BY <1>u, <1>q DEF Left
  <1>1. ASSUME NEW o \in Op, TryNothing(o) PROVE DeregisteredUnlessClosed'
    <2>1. /\ pc[o] = "idle" /\ done' = [done EXCEPT ![o] = @ + 1] /\ o \in Token
          /\ UNCHANGED <<callbacks>> /\ st' = st
      BY <1>1 DEF TryNothing, Goto, Finish, cmVars
    <2>2. ~Called(o)
      BY <2>1 DEF Called, NotCalled
    <2>3. o \notin callbacks[CMOf[o]]
      BY <2>1, <2>2, <1>t DEF ManagerInv
    <2>4. \A x \in Token : x # o => (Left(x)' <=> Left(x)) /\ st'[x] = st[x]
      BY <2>1, <1>t DEF Left
    <2>5. ~Left(o)'
      BY <2>1, <2>3 DEF Left
    <2> QED
      BY <2>4, <2>5, <1>q
  <1>2. ASSUME NEW o \in Op, TryAppend(o) PROVE DeregisteredUnlessClosed'
    <2>1. CMRegister(o) /\ o \in Token /\ pc[o] = "idle" /\ UNCHANGED <<done, st>>
      BY <1>2 DEF TryAppend, Goto, opVars
    <2>2. \A c \in CM : callbacks'[c] = IF c = CMOf[o] THEN callbacks[c] \cup {o} ELSE callbacks[c]
      BY <2>1, <1>t DEF CMRegister, CMTypeOK
    <2>3. ~Called(o)
      BY <2>1 DEF Called, NotCalled
    <2>4. done[o] # 1
      BY <2>1, <2>3, <1>t DEF Places, PlaceInv
    <2>5. \A x \in Token : Left(x)' => Left(x)
      BY <2>1, <2>2, <2>4, <1>t DEF Left
    <2> QED
      BY <2>1, <2>5, <1>q
  <1>3. ASSUME NEW o \in Op, TryTooLate(o) PROVE DeregisteredUnlessClosed'
    <2>1. /\ pc[o] = "idle" /\ done' = [done EXCEPT ![o] = @ + 1] /\ o \in Token
          /\ UNCHANGED <<callbacks>> /\ st' = [st EXCEPT ![o] = "Cancelled"]
      BY <1>3 DEF TryTooLate, Goto, Finish, cmVars
    <2>2. ~Called(o)
      BY <2>1 DEF Called, NotCalled
    <2>3. o \notin callbacks[CMOf[o]]
      BY <2>1, <2>2, <1>t DEF ManagerInv
    <2>4. \A x \in Token : x # o => (Left(x)' <=> Left(x)) /\ st'[x] = st[x]
      BY <2>1, <1>t DEF Left
    <2>5. ~Left(o)'
      BY <2>1, <2>3 DEF Left
    <2> QED
      BY <2>4, <2>5, <1>q
  <1>4. ASSUME NEW o \in Op, Close(o) PROVE DeregisteredUnlessClosed'
    BY <1>4, <1>u DEF Close, cmVars, opVars, Finish
  <1>5. ASSUME NEW o \in Op, CloseAndCancel(o) PROVE DeregisteredUnlessClosed'
    <2> DEFINE v == OpsOf(Live(enq))
    <2>1. /\ st' = [x \in Op |-> IF x \in Range(v) THEN "Cancelled" ELSE st[x]]
          /\ UNCHANGED <<done, callbacks>>
      BY <1>5 DEF CloseAndCancel, cmVars
    <2> HIDE DEF v
    <2>2. \A x \in Token : (Left(x)' <=> Left(x)) /\ (st'[x] = st[x] \/ st'[x] = "Cancelled")
      BY <2>1, <1>t DEF Left
    <2> QED
      BY <2>2, <1>q
  <1>6. ASSUME NEW t \in Thread, RunCallback(t) PROVE DeregisteredUnlessClosed'
    <2>0. PICK o : o = Head(to_call[t])
      OBVIOUS
    <2>1. /\ to_call[t] # <<>> /\ done' = [done EXCEPT ![o] = @ + 1] /\ pc[t] = "flush"
          /\ UNCHANGED <<st, callbacks>>
      BY <1>6, <2>0 DEF RunCallback, Finish, cmVars
    <2>2. o \in Op /\ InList(to_call, t, o)
      BY <2>0, <2>1, <1>t, HeadView
    <2>3. /\ st[o] = "Cancelled"
          /\ \/ t \in CM /\ o \in Token /\ CMOf[o] = t /\ Cancels(t)
             \/ t \in CancelCloser /\ o \notin Dequeuer
      BY <2>2 DEF CalledInv
    <2>4. Called(t)
      BY <2>1 DEF Called, NotCalled
    <2>5. \A x \in Token : x # o => (Left(x)' <=> Left(x)) /\ (Excused(x) => Excused(x)')
      BY <2>1, <1>t, <1>k DEF Left, Excused
    <2>6. o \in Token /\ Left(o)' => Excused(o)'
      <3>1. CASE t \in CM /\ CMOf[o] = t /\ Cancels(t)
        <4>1. callbacks[t] = {}
          BY <3>1 DEF ManagerInv
        <4>2. ~Left(o)'
          BY <4>1, <3>1, <2>1 DEF Left
        <4> QED
          BY <4>2
      <3>2. CASE t \in CancelCloser /\ o \notin Dequeuer
        <4>1. o \in Token => o \in Enqueuer
          BY <3>2, Sorts
        <4> QED
          BY <4>1, <3>2, <2>1, <2>3, <2>4, <1>k DEF Excused
      <3> QED
        BY <2>3, <3>1, <3>2
    <2> QED
      BY <2>5, <2>6, <1>d
  <1>7. ASSUME NEW t \in Thread, FlushLock(t) PROVE DeregisteredUnlessClosed'
    BY <1>7, <1>u DEF FlushLock, cmVars, opVars, Finish
  <1>8. ASSUME NEW t \in Thread, SkipCancelled(t) PROVE DeregisteredUnlessClosed'
    BY <1>8, <1>u DEF SkipCancelled, cmVars, opVars, Finish
  <1>9. ASSUME NEW t \in Thread, NoAttempt(t) PROVE DeregisteredUnlessClosed'
    BY <1>9, <1>u DEF NoAttempt, EndOfAttempts, cmVars, opVars, Finish
  <1>10. ASSUME NEW t \in Thread, TryEnqueueAttempt(t) PROVE DeregisteredUnlessClosed'
    <2> DEFINE o == Head(enq).op
    <2>1. /\ \E s : st' = [st EXCEPT ![o] = s]
          /\ UNCHANGED <<done, callbacks>>
      BY <1>10 DEF TryEnqueueAttempt, cmVars
    <2>2. o \in Op /\ done[o] = 0
      BY <1>10, RunnerPlaces
    <2> HIDE DEF o
    <2>3. \A x \in Token : (Left(x)' <=> Left(x)) /\ (Left(x) => st'[x] = st[x])
      BY <2>1, <2>2, <1>t DEF Left
    <2> QED
      BY <2>3, <1>q
  <1>11. ASSUME NEW t \in Thread, TryDequeueAttempt(t) PROVE DeregisteredUnlessClosed'
    <2> DEFINE o == Head(deq).op
    <2>1. /\ \E s : st' = [st EXCEPT ![o] = s]
          /\ UNCHANGED <<done, callbacks>>
      BY <1>11 DEF TryDequeueAttempt, cmVars
    <2>2. o \in Op /\ done[o] = 0
      BY <1>11, RunnerPlaces
    <2> HIDE DEF o
    <2>3. \A x \in Token : (Left(x)' <=> Left(x)) /\ (Left(x) => st'[x] = st[x])
      BY <2>1, <2>2, <1>t DEF Left
    <2> QED
      BY <2>3, <1>q
  <1>12. ASSUME NEW t \in Thread, CleanUp(t) PROVE DeregisteredUnlessClosed'
    <2>0. PICK o : o = Head(clean_up[t])
      OBVIOUS
    <2>1. /\ clean_up[t] # <<>> /\ done' = [done EXCEPT ![o] = @ + 1] /\ UNCHANGED st
          /\ \/ o \in Token /\ CMDeregister(o)
             \/ o \in Token /\ is_cancelled[CMOf[o]] /\ UNCHANGED callbacks
             \/ o \in Closer /\ UNCHANGED callbacks
      BY <1>12, <2>0 DEF CleanUp, Cleaned, Finish, DeregisterTooLate, cmVars
    <2>2. o \in Op
      BY <2>0, <2>1, <1>t, HeadView
    <2>3. \A c \in CM : callbacks'[c] \subseteq callbacks[c]
      <3>1. CASE UNCHANGED callbacks
        BY <3>1
      <3>2. CASE CMDeregister(o)
        BY <3>2, <1>t DEF CMDeregister, CMTypeOK
      <3> QED
        BY <2>1, <3>1, <3>2
    <2>4. o \in Token => o \notin callbacks'[CMOf[o]]
      <3>1. CASE o \in Token /\ CMDeregister(o)
        BY <3>1, <1>t DEF CMDeregister, CMTypeOK
      <3>2. CASE o \in Token /\ is_cancelled[CMOf[o]] /\ UNCHANGED callbacks
        BY <3>2, <1>t DEF ManagerInv, Cancels
      <3>3. CASE o \in Closer
        BY <3>3, Sorts
      <3> QED
        BY <2>1, <3>1, <3>2, <3>3
    <2>5. \A x \in Token : x # o => (Left(x)' => Left(x))
      BY <2>1, <2>2, <2>3, <1>t DEF Left
    <2>6. ~Left(o)' \/ o \notin Token
      BY <2>4 DEF Left
    <2> QED
      BY <2>1, <2>5, <2>6, <1>q
  <1>13. ASSUME NEW t \in Thread, CleanUpBlock(t) PROVE DeregisteredUnlessClosed'
    BY <1>13, <1>u DEF CleanUpBlock, cmVars, opVars, Finish
  <1>14. ASSUME NEW t \in Thread, CleanUpWake(t) PROVE DeregisteredUnlessClosed'
    <2>0. PICK o : o = Head(clean_up[t])
      OBVIOUS
    <2>1. /\ clean_up[t] # <<>> /\ done' = [done EXCEPT ![o] = @ + 1] /\ UNCHANGED st
          /\ notified[CMOf[o]] /\ UNCHANGED callbacks
      BY <1>14, <2>0 DEF CleanUpWake, Cleaned, Finish, Goto, DeregisterWakes, cmVars, BaseInv, FlushInv
    <2>2. o \in Op
      BY <2>0, <2>1, <1>t, HeadView
    <2>3. \A c \in CM : callbacks'[c] \subseteq callbacks[c]
      BY <2>1
    <2>4. o \in Token => o \notin callbacks'[CMOf[o]]
      BY <2>1, <1>t DEF ManagerInv, Cancels
    <2>5. \A x \in Token : x # o => (Left(x)' => Left(x))
      BY <2>1, <2>2, <2>3, <1>t DEF Left
    <2>6. ~Left(o)' \/ o \notin Token
      BY <2>4 DEF Left
    <2> QED
      BY <2>1, <2>5, <2>6, <1>q
  <1>15. ASSUME NEW t \in Thread, FlushReturn(t) PROVE DeregisteredUnlessClosed'
    <2>1. /\ IF t \in CancelCloser THEN done' = [done EXCEPT ![t] = @ + 1] ELSE done' = done
          /\ UNCHANGED <<st, callbacks>>
      BY <1>15 DEF FlushReturn, Finish, cmVars
    <2>2. \A x \in Token : Left(x)' <=> Left(x)
      BY <2>1, <1>t DEF Left
    <2> QED
      BY <2>1, <2>2, <1>q
  <1>16. ASSUME NEW c \in CM, StartCancel(c) PROVE DeregisteredUnlessClosed'
    <2>1. CMStartCancel(c) /\ UNCHANGED <<done, st>>
      BY <1>16 DEF StartCancel, opVars
    <2>2. \A x \in CM : callbacks'[x] \subseteq callbacks[x]
      BY <2>1, <1>t DEF CMStartCancel, CMTypeOK
    <2>3. \A x \in Token : Left(x)' => Left(x)
      BY <2>1, <2>2, <1>t DEF Left
    <2> QED
      BY <2>1, <2>3, <1>q
  <1>17. ASSUME NEW c \in CM, FinishCancel(c) PROVE DeregisteredUnlessClosed'
    BY <1>17, <1>u DEF FinishCancel, CMFinishCancel, opVars
  <1>18. ASSUME NEW c \in CM, Notify(c) PROVE DeregisteredUnlessClosed'
    BY <1>18, <1>u DEF Notify, CMNotify, opVars
  <1>19. ASSUME NEW c \in CM, NEW o \in Token, Cancel(c, o) PROVE DeregisteredUnlessClosed'
    <2>1. /\ st' = st \/ st' = [st EXCEPT ![o] = "Cancelled"]
          /\ UNCHANGED <<done, callbacks>>
      BY <1>19 DEF Cancel, CMNextCallback
    <2>2. \A x \in Token : (Left(x)' <=> Left(x)) /\ (st'[x] = st[x] \/ st'[x] = "Cancelled")
      BY <2>1, <1>t DEF Left
    <2> QED
      BY <2>2, <1>q
  <1>20. CASE UNCHANGED vars
    BY <1>20, <1>u DEF vars, cmVars, opVars
  <1> QED
    BY <1>1, <1>2, <1>3, <1>4, <1>5, <1>6, <1>7, <1>8, <1>9, <1>10, <1>11, <1>12, <1>13, <1>14, <1>15, <1>16, <1>17, <1>18, <1>19, <1>20 DEF Next, Call, FlushStep, CancelStep

\* What the operations are finished with.
RunsInv == ManagerInv /\ CalledInv /\ BatchInv /\ DeregisteredUnlessClosed

\* Initially no operation has been called, and no callback registered.
LEMMA InitRuns == Init => RunsInv
  <1> SUFFICES ASSUME Init PROVE RunsInv
    OBVIOUS
  <1>1. CMInit
    BY DEF Init
  <1>2. /\ to_call = [t \in Thread |-> <<>>] /\ clean_up = [t \in Thread |-> <<>>]
        /\ got = [o \in Op |-> <<>>] /\ done = [o \in Op |-> 0]
    BY DEF Init
  <1>3. ManagerInv
    BY <1>1 DEF CMInit, ManagerInv, Cancels
  <1>4. CalledInv
    BY <1>2 DEF CalledInv, InList
  <1>5. \A o \in Op : ~Finished(o) /\ got[o] = <<>> /\ done[o] = 0
    BY <1>2 DEF Finished, Listed
  <1>6. BatchInv
    BY <1>5, Sorts DEF BatchInv
  <1>7. DeregisteredUnlessClosed
    BY <1>5, Sorts DEF DeregisteredUnlessClosed
  <1> QED
    BY <1>3, <1>4, <1>6, <1>7 DEF RunsInv

\* What the operations are finished with is kept.
LEMMA RunsInvariance == Spec => []RunsInv
  <1>1. BaseInv /\ Places /\ RunsInv /\ [Next]_vars => RunsInv'
    <2> SUFFICES ASSUME BaseInv, Places, RunsInv, [Next]_vars PROVE RunsInv'
      OBVIOUS
    <2>1. ManagerInv /\ CalledInv /\ BatchInv /\ DeregisteredUnlessClosed
      BY DEF RunsInv
    <2>2. ManagerInv'
      BY <2>1, NextManager
    <2>3. CalledInv'
      BY <2>1, NextCalled
    <2>4. BatchInv'
      BY <2>1, NextBatch
    <2>5. DeregisteredUnlessClosed'
      BY <2>1, NextDeregistered
    <2> QED
      BY <2>2, <2>3, <2>4, <2>5 DEF RunsInv
  <1> QED
    BY <1>1, InitRuns, BaseInvariance, PlacesInvariance, PTL DEF Spec

\* A dequeue that finishes without an error has its batch: all of it, or, with
\* allow_small_batch on a closed queue, some of it.
THEOREM BatchesAreFull == Spec => []BatchIsFull
  <1>1. RunsInv => BatchIsFull
    BY DEF RunsInv, BatchInv, Finished, FullBatch, BatchIsFull
  <1> QED
    BY <1>1, RunsInvariance, PTL

\* An operation is finished with its callback still registered only if a Close
\* has cancelled it.
THEOREM CallbacksAreDeregistered == Spec => []DeregisteredUnlessClosed
  <1>1. RunsInv => DeregisteredUnlessClosed
    BY DEF RunsInv
  <1> QED
    BY <1>1, RunsInvariance, PTL

(***************************************************************************)
(* First in, first out.                                                    *)
(***************************************************************************)

\* A history with more elements of one EnqueueMany.
LEMMA PushMore ==
  ASSUME NEW h \in Seq(Element), Distinct(h), \A x \in Enqueuer : InOrder(h, x),
         NEW o \in Enqueuer, NEW p \in Seq(Element),
         \A i \in 1..Len(p) : p[i] = <<o, Len(MineIn(h, o)) + i>>
  PROVE  /\ Distinct(h \o p) /\ \A x \in Enqueuer : InOrder(h \o p, x)
         /\ \A x \in Enqueuer : x # o => MineIn(h \o p, x) = MineIn(h, x)
         /\ Len(MineIn(h \o p, o)) = Len(MineIn(h, o)) + Len(p)
         /\ \A i \in 1..Len(p) : \A j \in 1..Len(h) : h[j] # p[i]
  <1> DEFINE S(x) == {x} \X (Nat \ {0})
             m == MineIn(h, o)
             n == Len(m)
             q == h \o p
  <1>1. h \in Seq(Element) /\ p \in Seq(Element) /\ q \in Seq(Element)
    BY ConcatProperties
  <1>2. m \in Seq(Element) /\ n \in Nat /\ Len(h) \in Nat /\ Len(p) \in Nat
    <2>1. m \in Seq(Element)
      BY KeepType DEF MineIn
    <2> QED
      BY <2>1, LenProperties
  <1>3. \A i \in 1..Len(m) : m[i] = <<o, i>>
    BY DEF InOrder
  <1>4. \A x : MineIn(q, x) = MineIn(h, x) \o Keep(p, S(x))
    BY KeepConcat DEF MineIn
  <1>5. \A x : (\E i \in 1..Len(m) : m[i] = x) <=> x \in S(o) /\ \E j \in 1..Len(h) : h[j] = x
    <2> DEFINE U == S(o)
    <2>1. m = Keep(h, U)
      BY DEF MineIn
    <2> HIDE DEF m, U
    <2>2. \A x : (\E i \in 1..Len(m) : m[i] = x) <=> x \in U /\ \E j \in 1..Len(h) : h[j] = x
      <3>1. h \in Seq(Element)
        OBVIOUS
      <3>2. \A x : (\E i \in 1..Len(Keep(h, U)) : Keep(h, U)[i] = x)
                     <=> x \in U /\ \E j \in 1..Len(h) : h[j] = x
        BY ONLY <3>1, KeepElements
      <3> QED
        BY <2>1, <3>2
    <2> QED
      BY <2>2 DEF U
  <1> HIDE DEF m, n, q
  <1>6. \A i \in 1..Len(p) : p[i] = <<o, n + i>> /\ n + i \in Nat \ {0} /\ p[i] \in S(o)
    <2>1. \A i \in 1..Len(p) : p[i] = <<o, n + i>>
      BY DEF n, m
    <2>2. \A i \in 1..Len(p) : n + i \in Nat \ {0}
      BY <1>2
    <2>3. \A k \in Nat \ {0} : <<o, k>> \in S(o)
      OBVIOUS
    <2> HIDE DEF S
    <2> QED
      BY <2>1, <2>2, <2>3
  <1>7. \A x \in Enqueuer : x # o => MineIn(q, x) = MineIn(h, x)
    <2> SUFFICES ASSUME NEW x \in Enqueuer, x # o PROVE MineIn(q, x) = MineIn(h, x)
      OBVIOUS
    <2>1. \A i \in 1..Len(p) : p[i] \notin S(x)
      BY <1>6
    <2>2. Keep(p, S(x)) = <<>>
      BY <2>1, KeepNone
    <2>3. MineIn(h, x) \in Seq(Element)
      BY KeepType DEF MineIn
    <2>4. MineIn(h, x) \o <<>> = MineIn(h, x)
      BY <2>3, ConcatEmptySeq
    <2> QED
      BY <2>2, <2>4, <1>4
  <1>8. MineIn(q, o) = m \o p
    <2>1. p \in Seq(S(o))
      <3>1. \A i \in 1..Len(p) : p[i] \in S(o)
        BY <1>6
      <3> HIDE DEF S
      <3>2. Len(p) \in Nat /\ p = [i \in 1..Len(p) |-> p[i]]
        BY <1>1
      <3>3. p \in [1..Len(p) -> S(o)]
        BY <3>1, <3>2
      <3> QED
        BY <3>2, <3>3
    <2>2. Keep(p, S(o)) = p
      BY <2>1, KeepAll
    <2> QED
      BY <2>2, <1>4 DEF m
  <1>9. /\ Len(m \o p) = n + Len(p)
        /\ \A i \in 1..(n + Len(p)) : (m \o p)[i] = IF i <= n THEN m[i] ELSE p[i - n]
    BY <1>2, ConcatProperties DEF n
  <1>10. \A i \in 1..(n + Len(p)) : (m \o p)[i] = <<o, i>>
    <2> SUFFICES ASSUME NEW i \in 1..(n + Len(p)) PROVE (m \o p)[i] = <<o, i>>
      OBVIOUS
    <2>1. CASE i <= n
      <3>1. i \in 1..Len(m)
        BY <2>1, <1>2 DEF n
      <3> QED
        BY <2>1, <3>1, <1>3, <1>9
    <2>2. CASE ~(i <= n)
      <3>1. i - n \in 1..Len(p) /\ n + (i - n) = i
        BY <2>2, <1>2
      <3> QED
        BY <2>2, <3>1, <1>6, <1>9
    <2> QED
      BY <2>1, <2>2
  <1>11. \A x \in Enqueuer : InOrder(q, x)
    <2> SUFFICES ASSUME NEW x \in Enqueuer PROVE InOrder(q, x)
      OBVIOUS
    <2>1. CASE x = o
      BY <2>1, <1>8, <1>9, <1>10 DEF InOrder
    <2>2. CASE x # o
      BY <2>2, <1>7 DEF InOrder
    <2> QED
      BY <2>1, <2>2
  <1>12. ASSUME NEW i \in 1..Len(p), NEW j \in 1..Len(h), h[j] = p[i] PROVE FALSE
    <2>1. p[i] \in S(o)
      BY <1>6
    <2>2. PICK k \in 1..Len(m) : m[k] = p[i]
      BY <2>1, <1>5, <1>12
    <2>3. k = n + i
      BY <2>2, <1>3, <1>6
    <2>4. k <= n /\ i >= 1 /\ k \in Nat /\ i \in Nat
      BY <1>2 DEF n
    <2> QED
      BY <2>3, <2>4, <1>2
  <1>13. Distinct(q)
    <2>1. /\ Len(q) = Len(h) + Len(p)
          /\ \A i \in 1..(Len(h) + Len(p)) : q[i] = IF i <= Len(h) THEN h[i] ELSE p[i - Len(h)]
      BY ConcatProperties DEF q
    <2>2. \A i, j \in 1..Len(p) : p[i] = p[j] => i = j
      <3>1. \A i, j \in 1..Len(p) : p[i] = p[j] => n + i = n + j
        BY <1>6
      <3> QED
        BY <3>1, <1>2
    <2> SUFFICES ASSUME NEW i \in 1..Len(q), NEW j \in 1..Len(q), q[i] = q[j] PROVE i = j
      BY DEF Distinct
    <2>3. /\ i <= Len(h) => i \in 1..Len(h) /\ q[i] = h[i]
          /\ ~(i <= Len(h)) => i - Len(h) \in 1..Len(p) /\ q[i] = p[i - Len(h)]
      BY <2>1, <1>2
    <2>4. /\ j <= Len(h) => j \in 1..Len(h) /\ q[j] = h[j]
          /\ ~(j <= Len(h)) => j - Len(h) \in 1..Len(p) /\ q[j] = p[j - Len(h)]
      BY <2>1, <1>2
    <2>5. CASE i <= Len(h) /\ j <= Len(h)
      BY <2>3, <2>4, <2>5 DEF Distinct
    <2>6. CASE ~(i <= Len(h)) /\ ~(j <= Len(h))
      <3>1. i - Len(h) = j - Len(h)
        BY <2>2, <2>3, <2>4, <2>6
      <3> QED
        BY <3>1, <1>2, <2>1
    <2>7. CASE i <= Len(h) /\ ~(j <= Len(h))
      BY <2>3, <2>4, <2>7, <1>12
    <2>8. CASE ~(i <= Len(h)) /\ j <= Len(h)
      BY <2>3, <2>4, <2>8, <1>12
    <2> QED
      BY <2>5, <2>6, <2>7, <2>8
  <1>14. Len(MineIn(q, o)) = n + Len(p)
    BY <1>8, <1>9
  <1> QED
    BY <1>7, <1>11, <1>12, <1>13, <1>14 DEF q, n, m

\* The middle of a sequence without duplicates is taken out.
LEMMA TakeOut ==
  ASSUME NEW s \in Seq(Element), NEW m \in Seq(Element), NEW b \in Seq(Element),
         Distinct(s \o m \o b)
  PROVE  Keep(s \o m \o b, Element \ Range(m)) = s \o <<>> \o b
  <1> DEFINE q == s \o m \o b
             R == Range(m)
             S == Element \ R
  <1>1. /\ s \o m \in Seq(Element) /\ Len(s \o m) = Len(s) + Len(m)
        /\ \A i \in 1..(Len(s) + Len(m)) : (s \o m)[i] = IF i <= Len(s) THEN s[i] ELSE m[i - Len(s)]
    BY ConcatProperties
  <1>l. Len(s) \in Nat /\ Len(m) \in Nat /\ Len(b) \in Nat
    BY LenProperties
  <1>2. /\ Len(q) = Len(s \o m) + Len(b)
        /\ \A i \in 1..(Len(s \o m) + Len(b)) :
             q[i] = IF i <= Len(s \o m) THEN (s \o m)[i] ELSE b[i - Len(s \o m)]
    BY <1>1, ConcatProperties
  <1>3. Keep(q, S) = Keep(s \o m, S) \o Keep(b, S) /\ Keep(s \o m, S) = Keep(s, S) \o Keep(m, S)
    BY <1>1, KeepConcat
  <1>4. \A x : x \in R <=> \E i \in 1..Len(m) : m[i] = x
    BY DEF Range
  <1>d. Distinct(q)
    OBVIOUS
  <1> HIDE DEF q, R
  <1>5. \A i \in 1..Len(m) : Len(s) + i \in 1..Len(q) /\ q[Len(s) + i] = m[i]
    <2> SUFFICES ASSUME NEW i \in 1..Len(m) PROVE Len(s) + i \in 1..Len(q) /\ q[Len(s) + i] = m[i]
      OBVIOUS
    <2>1. /\ Len(s) + i \in 1..(Len(s) + Len(m)) /\ ~(Len(s) + i <= Len(s)) /\ (Len(s) + i) - Len(s) = i
          /\ Len(s) + i \in 1..(Len(s \o m) + Len(b)) /\ Len(s) + i <= Len(s \o m)
      BY <1>1, <1>l
    <2>2. (s \o m)[Len(s) + i] = m[i]
      BY <2>1, <1>1
    <2> QED
      BY <2>1, <2>2, <1>2
  <1>6. \A i \in 1..Len(s) : i \in 1..Len(q) /\ q[i] = s[i]
    <2> SUFFICES ASSUME NEW i \in 1..Len(s) PROVE i \in 1..Len(q) /\ q[i] = s[i]
      OBVIOUS
    <2>1. /\ i \in 1..(Len(s) + Len(m)) /\ i <= Len(s)
          /\ i \in 1..(Len(s \o m) + Len(b)) /\ i <= Len(s \o m)
      BY <1>1, <1>l
    <2>2. (s \o m)[i] = s[i]
      BY <2>1, <1>1
    <2> QED
      BY <2>1, <2>2, <1>2
  <1>7. \A i \in 1..Len(b) : Len(s \o m) + i \in 1..Len(q) /\ q[Len(s \o m) + i] = b[i]
    <2> SUFFICES ASSUME NEW i \in 1..Len(b)
                 PROVE  Len(s \o m) + i \in 1..Len(q) /\ q[Len(s \o m) + i] = b[i]
      OBVIOUS
    <2>1. /\ Len(s \o m) + i \in 1..(Len(s \o m) + Len(b)) /\ ~(Len(s \o m) + i <= Len(s \o m))
          /\ (Len(s \o m) + i) - Len(s \o m) = i
      BY <1>1, <1>l
    <2> QED
      BY <2>1, <1>2
  <1>8. \A i \in 1..Len(s) : s[i] \notin R
    <2> SUFFICES ASSUME NEW i \in 1..Len(s), NEW k \in 1..Len(m), m[k] = s[i] PROVE FALSE
      BY <1>4
    <2>1. i = Len(s) + k
      BY <1>5, <1>6, <1>d DEF Distinct
    <2> QED
      BY <2>1, <1>l
  <1>9. \A i \in 1..Len(b) : b[i] \notin R
    <2> SUFFICES ASSUME NEW i \in 1..Len(b), NEW k \in 1..Len(m), m[k] = b[i] PROVE FALSE
      BY <1>4
    <2>1. Len(s \o m) + i = Len(s) + k
      BY <1>5, <1>7, <1>d DEF Distinct
    <2>2. k <= Len(m) /\ i >= 1 /\ k \in Nat /\ i \in Nat
      BY <1>l
    <2> QED
      BY <2>1, <2>2, <1>1, <1>l
  <1>10. s \in Seq(S) /\ b \in Seq(S)
    <2>1. /\ \A i \in 1..Len(s) : s[i] \in S
          /\ \A i \in 1..Len(b) : b[i] \in S
      BY <1>8, <1>9, ElementOfSeq
    <2> HIDE DEF S
    <2> QED
      BY <2>1
  <1>11. Keep(s, S) = s /\ Keep(b, S) = b
    BY <1>10, KeepAll
  <1>12. Keep(m, S) = <<>>
    <2>1. \A i \in 1..Len(m) : m[i] \notin S
      BY <1>4
    <2> QED
      BY <2>1, KeepNone
  <1> QED
    BY <1>3, <1>11, <1>12 DEF q, R

\* What an attempt at the front of enqueue_attempts_ adds to the history.
LEMMA EnqueuePush ==
  ASSUME BaseInv, HistoryInv, ProgressInv, NEW t \in Thread, TryEnqueueAttempt(t),
         NEW o, o = Head(enq).op
  PROVE  LET a == Head(enq)
             p == RunEnqueue(a).pushes
         IN  /\ pushed' = pushed \o p /\ p \in Seq(Element) /\ HistoryInv'
             /\ \A x \in Enqueuer : x # o => PushedBy(x)' = PushedBy(x)
             /\ o \in Enqueuer => PushedBy(o)' = Num[o] - a.requested + Puts(a)
             /\ \A i \in 1..Len(p) : \A j \in 1..Len(pushed) : pushed[j] # p[i]
  <1> DEFINE a == Head(enq)
             p == RunEnqueue(a).pushes
  <1>1. a \in Attempt /\ a = enq[1] /\ EnqueueAttemptOK(a) /\ BufferOK /\ enq # <<>>
    BY EnqueueStep DEF BaseInv
  <1>2. /\ p \in Seq(Element) /\ Len(p) = Puts(a) /\ Puts(a) \in Nat /\ Puts(a) <= a.requested
        /\ \A i \in 1..Puts(a) : p[i] = <<a.op, Num[a.op] - a.requested + i>>
    BY <1>1, RunEnqueueFacts
  <1>3. pushed' = pushed \o p
    BY DEF TryEnqueueAttempt
  <1>4. pushed \in Seq(Element) /\ enq \in Seq(Attempt)
    BY BaseTypes DEF BaseInv, TypeOK, DataTypeOK
  <1>5. a.op = o
    OBVIOUS
  <1> HIDE DEF a, p
  <1>6. CASE o \in Enqueuer
    <2>1. 1 \in 1..Len(enq)
      BY <1>1, <1>4, TailView
    <2>2. Len(MineIn(pushed, o)) = Num[o] - a.requested
      BY <2>1, <1>1, <1>5, <1>6 DEF ProgressInv, PushedBy
    <2>3. \A i \in 1..Len(p) : p[i] = <<o, Len(MineIn(pushed, o)) + i>>
      BY <2>2, <1>2, <1>5
    <2>4. Distinct(pushed) /\ \A x \in Enqueuer : InOrder(pushed, x)
      BY DEF HistoryInv
    <2>5. /\ Distinct(pushed \o p) /\ \A x \in Enqueuer : InOrder(pushed \o p, x)
          /\ \A x \in Enqueuer : x # o => MineIn(pushed \o p, x) = MineIn(pushed, x)
          /\ Len(MineIn(pushed \o p, o)) = Len(MineIn(pushed, o)) + Len(p)
          /\ \A i \in 1..Len(p) : \A j \in 1..Len(pushed) : pushed[j] # p[i]
      BY ONLY <2>3, <2>4, <1>2, <1>4, <1>6, PushMore
    <2>6. HistoryInv'
      BY <2>5, <1>3 DEF HistoryInv
    <2>7. \A x \in Enqueuer : x # o => PushedBy(x)' = PushedBy(x)
      BY <2>5, <1>3 DEF PushedBy
    <2>8. PushedBy(o)' = Num[o] - a.requested + Puts(a)
      BY <2>2, <2>5, <1>2, <1>3 DEF PushedBy
    <2> QED
      BY <2>5, <2>6, <2>7, <2>8, <1>2, <1>3 DEF a, p
  <1>7. CASE o \notin Enqueuer
    <2>1. a.requested = 0
      BY <1>1, <1>5, <1>7 DEF EnqueueAttemptOK
    <2>2. Len(p) = 0
      BY <2>1, <1>2
    <2>3. p = <<>>
      BY <2>2, <1>2, EmptySeq
    <2>4. pushed' = pushed
      BY <2>3, <1>3, <1>4, ConcatEmptySeq
    <2>5. HistoryInv' /\ \A x \in Enqueuer : PushedBy(x)' = PushedBy(x)
      BY <2>4 DEF HistoryInv, PushedBy
    <2>6. \A i \in 1..Len(p) : FALSE
      BY <2>2
    <2> QED
      BY <2>5, <2>6, <1>2, <1>3, <1>7 DEF a, p
  <1> QED
    BY <1>6, <1>7

\* The elements of an EnqueueMany enter the queue in their order.
LEMMA NextHistory == BaseInv /\ Places /\ HistoryInv /\ ProgressInv /\ AllPushedInv /\ [Next]_vars => (HistoryInv /\ ProgressInv)'
  <1> SUFFICES ASSUME BaseInv, Places, HistoryInv, ProgressInv, AllPushedInv, [Next]_vars PROVE (HistoryInv /\ ProgressInv)'
    OBVIOUS
  <1>t. enq \in Seq(Attempt)
    BY BaseTypes
  <1>q. ASSUME UNCHANGED pushed,
               \A i \in 1..Len(enq') : \E j \in 1..Len(enq) :
                 enq'[i].op = enq[j].op /\ enq'[i].requested = enq[j].requested
        PROVE  (HistoryInv /\ ProgressInv)'
    BY <1>q DEF HistoryInv, ProgressInv, PushedBy
  <1>u. ASSUME UNCHANGED <<enq, pushed>> PROVE (HistoryInv /\ ProgressInv)'
    BY <1>u DEF HistoryInv, ProgressInv, PushedBy
  <1>1. ASSUME NEW o \in Op, TryNothing(o) PROVE (HistoryInv /\ ProgressInv)'
    BY <1>1, <1>u DEF TryNothing, dataVars, attemptVars
  <1>2. ASSUME NEW o \in Op, TryAppend(o) PROVE (HistoryInv /\ ProgressInv)'
    <2> DEFINE x == NewAttempt(o, Num[o])
    <2>1. /\ UNCHANGED pushed /\ o \in Token /\ pc[o] = "idle"
          /\ enq' = enq \/ enq' = Append(enq, x)
      BY <1>2 DEF TryAppend, Goto, dataVars
    <2>2. x \in Attempt /\ x.op = o /\ x.requested = Num[o] /\ Num[o] \in Nat
      BY <2>1, NewAttemptFields, QueueAssumption
    <2>3. ~Called(o)
      BY <2>1 DEF Called, NotCalled
    <2> HIDE DEF x
    <2>4. o \in Enqueuer => PushedBy(o) = Num[o] - Num[o]
      BY <2>2, <2>3 DEF AllPushedInv
    <2>5. CASE enq' = Append(enq, x)
      <3>1. /\ \A i \in 1..Len(enq') : i \in 1..Len(enq) \/ i = Len(enq) + 1
            /\ \A i \in 1..Len(enq) : enq'[i] = enq[i]
            /\ enq'[Len(enq) + 1] = x
        BY <2>2, <2>5, <1>t, AppendView
      <3> QED
        BY <2>1, <2>2, <2>4, <3>1 DEF HistoryInv, ProgressInv, PushedBy
    <2> QED
      BY <2>1, <2>5, <1>u
  <1>3. ASSUME NEW o \in Op, TryTooLate(o) PROVE (HistoryInv /\ ProgressInv)'
    BY <1>3, <1>u DEF TryTooLate, dataVars, attemptVars
  <1>4. ASSUME NEW o \in Op, Close(o) PROVE (HistoryInv /\ ProgressInv)'
    <2> DEFINE x == NewAttempt(o, 0)
    <2>1. UNCHANGED pushed /\ o \in Closer \ CancelCloser /\ enq' = Append(enq, x)
      BY <1>4 DEF Close, dataVars
    <2>2. x \in Attempt /\ x.op = o /\ o \notin Enqueuer
      BY <2>1, NewAttemptFields, Sorts
    <2> HIDE DEF x
    <2>3. /\ \A i \in 1..Len(enq') : i \in 1..Len(enq) \/ i = Len(enq) + 1
          /\ \A i \in 1..Len(enq) : enq'[i] = enq[i]
          /\ enq'[Len(enq) + 1] = x
      BY <2>1, <2>2, <1>t, AppendView
    <2> QED
      BY <2>1, <2>2, <2>3 DEF HistoryInv, ProgressInv, PushedBy
  <1>5. ASSUME NEW o \in Op, CloseAndCancel(o) PROVE (HistoryInv /\ ProgressInv)'
    <2>1. UNCHANGED pushed /\ enq' = CancelAll(enq)
      BY <1>5 DEF CloseAndCancel
    <2>2. \A i \in 1..Len(enq') : /\ i \in 1..Len(enq) /\ enq'[i].op = enq[i].op
                                  /\ enq'[i].requested = enq[i].requested
      BY <2>1, <1>t, CancelAllView
    <2> QED
      BY <2>1, <2>2, <1>q
  <1>6. ASSUME NEW t \in Thread, RunCallback(t) PROVE (HistoryInv /\ ProgressInv)'
    BY <1>6, <1>u DEF RunCallback, dataVars, attemptVars
  <1>7. ASSUME NEW t \in Thread, FlushLock(t) PROVE (HistoryInv /\ ProgressInv)'
    BY <1>7, <1>u DEF FlushLock, dataVars, attemptVars
  <1>8. ASSUME NEW t \in Thread, SkipCancelled(t) PROVE (HistoryInv /\ ProgressInv)'
    <2>1. UNCHANGED pushed /\ (enq' = enq \/ (enq # <<>> /\ enq' = Tail(enq)))
      BY <1>8 DEF SkipCancelled, dataVars
    <2>2. CASE enq # <<>> /\ enq' = Tail(enq)
      <3>1. \A i \in 1..Len(enq') : i + 1 \in 1..Len(enq) /\ enq'[i] = enq[i + 1]
        BY <2>2, <1>t, TailView
      <3> QED
        BY <2>1, <3>1, <1>q
    <2> QED
      BY <2>1, <2>2, <1>u
  <1>9. ASSUME NEW t \in Thread, NoAttempt(t) PROVE (HistoryInv /\ ProgressInv)'
    BY <1>9, <1>u DEF NoAttempt, EndOfAttempts, dataVars, attemptVars
  <1>10. ASSUME NEW t \in Thread, TryEnqueueAttempt(t) PROVE (HistoryInv /\ ProgressInv)'
    <2> DEFINE a == Head(enq)
               r == RunEnqueue(a)
    <2>0. PICK o : o = a.op
      OBVIOUS
    <2>1. /\ a \in Attempt /\ a = enq[1] /\ EnqueueAttemptOK(a) /\ BufferOK /\ enq # <<>>
          /\ \/ enq' = Tail(enq)
             \/ r.result # "kComplete" /\ enq' = <<r.attempt>> \o Tail(enq)
      BY <1>10, EnqueueStep DEF BaseInv
    <2>2. /\ HistoryInv' /\ \A x \in Enqueuer : x # o => PushedBy(x)' = PushedBy(x)
          /\ o \in Enqueuer => PushedBy(o)' = Num[o] - a.requested + Puts(a)
      BY <1>10, <2>0, EnqueuePush
    <2>3. /\ r.attempt \in Attempt /\ r.attempt.op = a.op
          /\ r.attempt.requested = a.requested - Puts(a) /\ Puts(a) \in Nat
      BY <2>1, RunEnqueueFacts
    <2>4. a.requested \in Nat /\ \A x \in Enqueuer : Num[x] \in Nat
      BY <2>1, AttemptFields, QueueAssumption
    <2> HIDE DEF a, r
    <2>5. \A i \in 1..Len(enq) : i # 1 => enq[i].op # o
      <3>1. 1 \in 1..Len(enq) /\ OpsApart(enq)
        BY <2>1, <1>t, TailView DEF Places, AttemptsApart
      <3> QED
        BY <3>1, <2>0, <2>1 DEF OpsApart
    <2>7. ProgressInv'
      <3> SUFFICES ASSUME NEW i \in 1..Len(enq'), NEW x, x = enq'[i].op, x \in Enqueuer
                   PROVE  PushedBy(x)' = Num[x] - enq'[i].requested
        BY DEF ProgressInv
      <3>1. CASE enq' = Tail(enq)
        <4>1. i + 1 \in 1..Len(enq) /\ enq'[i] = enq[i + 1] /\ i + 1 # 1
          BY <3>1, <2>1, <1>t, TailView
        <4>2. x # o /\ PushedBy(x) = Num[x] - enq'[i].requested
          BY <4>1, <2>5 DEF ProgressInv
        <4> QED
          BY <4>2, <2>2
      <3>2. CASE enq' = <<r.attempt>> \o Tail(enq)
        <4>1. /\ i \in 1..Len(enq) /\ enq'[1] = r.attempt /\ (i # 1 => enq'[i] = enq[i])
          BY <3>2, <2>1, <2>3, <1>t, NewHeadView
        <4>2. CASE i = 1
          <5>1. x = o /\ PushedBy(x)' = Num[x] - a.requested + Puts(a)
            BY <4>1, <4>2, <2>0, <2>2, <2>3
          <5>2. enq'[i].requested = a.requested - Puts(a) /\ Num[x] \in Nat
            BY <4>1, <4>2, <2>3, <2>4
          <5>3. \A n, q, w \in Nat : n - (q - w) = n - q + w
            OBVIOUS
          <5> QED
            BY <5>1, <5>2, <5>3, <2>3, <2>4
        <4>3. CASE i # 1
          <5>1. x # o /\ PushedBy(x) = Num[x] - enq'[i].requested
            BY <4>1, <4>3, <2>5 DEF ProgressInv
          <5> QED
            BY <5>1, <2>2
        <4> QED
          BY <4>2, <4>3
      <3> QED
        BY <2>1, <3>1, <3>2
    <2> QED
      BY <2>2, <2>7
  <1>11. ASSUME NEW t \in Thread, TryDequeueAttempt(t) PROVE (HistoryInv /\ ProgressInv)'
    BY <1>11, <1>u DEF TryDequeueAttempt
  <1>12. ASSUME NEW t \in Thread, CleanUp(t) PROVE (HistoryInv /\ ProgressInv)'
    BY <1>12, <1>u DEF CleanUp, Cleaned, dataVars, attemptVars
  <1>13. ASSUME NEW t \in Thread, CleanUpBlock(t) PROVE (HistoryInv /\ ProgressInv)'
    BY <1>13, <1>u DEF CleanUpBlock, dataVars, attemptVars
  <1>14. ASSUME NEW t \in Thread, CleanUpWake(t) PROVE (HistoryInv /\ ProgressInv)'
    BY <1>14, <1>u DEF CleanUpWake, Cleaned, dataVars, attemptVars
  <1>15. ASSUME NEW t \in Thread, FlushReturn(t) PROVE (HistoryInv /\ ProgressInv)'
    BY <1>15, <1>u DEF FlushReturn, dataVars, attemptVars
  <1>16. ASSUME NEW c \in CM, StartCancel(c) PROVE (HistoryInv /\ ProgressInv)'
    BY <1>16, <1>u DEF StartCancel, dataVars, attemptVars
  <1>17. ASSUME NEW c \in CM, FinishCancel(c) PROVE (HistoryInv /\ ProgressInv)'
    BY <1>17, <1>u DEF FinishCancel, dataVars, attemptVars
  <1>18. ASSUME NEW c \in CM, Notify(c) PROVE (HistoryInv /\ ProgressInv)'
    BY <1>18, <1>u DEF Notify, dataVars, attemptVars
  <1>19. ASSUME NEW c \in CM, NEW o \in Token, Cancel(c, o) PROVE (HistoryInv /\ ProgressInv)'
    <2>1. UNCHANGED pushed /\ (enq' = enq \/ enq' = Mark(enq, o))
      BY <1>19 DEF Cancel, attemptVars
    <2>2. CASE enq' = Mark(enq, o)
      <3>1. \A i \in 1..Len(enq') : /\ i \in 1..Len(enq) /\ enq'[i].op = enq[i].op
                                    /\ enq'[i].requested = enq[i].requested
        BY <2>2, <1>t, MarkView
      <3> QED
        BY <2>1, <3>1, <1>q
    <2> QED
      BY <2>1, <2>2, <1>u
  <1>20. CASE UNCHANGED vars
    BY <1>20, <1>u DEF vars, dataVars, attemptVars
  <1> QED
    BY <1>1, <1>2, <1>3, <1>4, <1>5, <1>6, <1>7, <1>8, <1>9, <1>10, <1>11, <1>12, <1>13, <1>14, <1>15, <1>16, <1>17, <1>18, <1>19, <1>20 DEF Next, Call, FlushStep, CancelStep

\* An EnqueueMany that goes to the clean up without an error has put in its batch.
LEMMA NextAllPushed == BaseInv /\ Places /\ CalledInv /\ HistoryInv /\ ProgressInv /\ AllPushedInv /\ [Next]_vars => AllPushedInv'
  <1> SUFFICES ASSUME BaseInv, Places, CalledInv, HistoryInv, ProgressInv, AllPushedInv, [Next]_vars PROVE AllPushedInv'
    OBVIOUS
  <1>t. /\ done \in [Op -> Nat] /\ st \in [Op -> Status] /\ enq \in Seq(Attempt)
        /\ to_call \in [Thread -> Seq(Op)] /\ clean_up \in [Thread -> Seq(Op)]
        /\ Enqueuer \subseteq Op /\ Enqueuer \cap CancelCloser = {}
    <2>1. Enqueuer \subseteq Op /\ Enqueuer \cap CancelCloser = {}
      BY Sorts
    <2> QED
      BY <2>1, BaseTypes
  <1>k. \A x \in Enqueuer : ~Called(x)' => ~Called(x)
    BY <1>t, CalledKept
  <1>q. ASSUME UNCHANGED pushed,
               \A x \in Enqueuer : Finished(x)' /\ st'[x] = "ok" => Finished(x) /\ st[x] = "ok"
        PROVE  AllPushedInv'
    BY <1>q, <1>k DEF AllPushedInv, PushedBy
  <1>u. ASSUME UNCHANGED <<clean_up, done, st, pushed>> PROVE AllPushedInv'
    BY <1>u, <1>q DEF Finished
  <1>1. ASSUME NEW o \in Op, TryNothing(o) PROVE AllPushedInv'
    <2>1. /\ pc[o] = "idle" /\ Num[o] = 0 /\ done' = [done EXCEPT ![o] = @ + 1]
          /\ UNCHANGED <<clean_up, st, pushed>>
      BY <1>1 DEF TryNothing, Goto, Finish, dataVars
    <2>2. ~Called(o)
      BY <2>1 DEF Called, NotCalled
    <2>3. \A x \in Enqueuer : x # o => (Finished(x)' <=> Finished(x))
      BY <2>1, <1>t DEF Finished
    <2>4. o \in Enqueuer => PushedBy(o) = Num[o]
      BY <2>1, <2>2 DEF AllPushedInv
    <2>5. \A x : PushedBy(x)' = PushedBy(x)
      BY <2>1 DEF PushedBy
    <2> QED
      BY <2>1, <2>3, <2>4, <2>5, <1>k DEF AllPushedInv
  <1>2. ASSUME NEW o \in Op, TryAppend(o) PROVE AllPushedInv'
    BY <1>2, <1>u DEF TryAppend, dataVars, opVars, threadVars, Finish
  <1>3. ASSUME NEW o \in Op, TryTooLate(o) PROVE AllPushedInv'
    <2>1. /\ done' = [done EXCEPT ![o] = @ + 1] /\ st' = [st EXCEPT ![o] = "Cancelled"]
          /\ UNCHANGED <<clean_up, pushed>>
      BY <1>3 DEF TryTooLate, Finish, dataVars
    <2>2. \A x \in Enqueuer : x # o => (Finished(x)' <=> Finished(x)) /\ st'[x] = st[x]
      BY <2>1, <1>t DEF Finished
    <2>3. o \in Enqueuer => st'[o] # "ok"
      BY <2>1, <1>t
    <2> QED
      BY <2>1, <2>2, <2>3, <1>q
  <1>4. ASSUME NEW o \in Op, Close(o) PROVE AllPushedInv'
    BY <1>4, <1>u DEF Close, dataVars, opVars, threadVars, Finish
  <1>5. ASSUME NEW o \in Op, CloseAndCancel(o) PROVE AllPushedInv'
    <2> DEFINE v == OpsOf(Live(enq))
    <2>1. /\ st' = [x \in Op |-> IF x \in Range(v) THEN "Cancelled" ELSE st[x]]
          /\ UNCHANGED <<clean_up, done, pushed>>
      BY <1>5 DEF CloseAndCancel
    <2> HIDE DEF v
    <2>2. \A x \in Enqueuer : (Finished(x)' <=> Finished(x)) /\ st'[x] \in {"Cancelled", st[x]}
      BY <2>1, <1>t DEF Finished
    <2> QED
      BY <2>1, <2>2, <1>q
  <1>6. ASSUME NEW t \in Thread, RunCallback(t) PROVE AllPushedInv'
    <2> DEFINE o == Head(to_call[t])
    <2>1. /\ to_call[t] # <<>> /\ done' = [done EXCEPT ![o] = @ + 1]
          /\ UNCHANGED <<clean_up, st, pushed>>
      BY <1>6 DEF RunCallback, Finish, dataVars
    <2>2. o \in Op /\ InList(to_call, t, o)
      BY <2>1, <1>t, HeadView
    <2> HIDE DEF o
    <2>3. st'[o] = "Cancelled"
      BY <2>1, <2>2 DEF CalledInv
    <2>4. \A x \in Enqueuer : x # o => (Finished(x)' <=> Finished(x))
      BY <2>1, <1>t DEF Finished
    <2> QED
      BY <2>1, <2>3, <2>4, <1>q
  <1>7. ASSUME NEW t \in Thread, FlushLock(t) PROVE AllPushedInv'
    BY <1>7, <1>u DEF FlushLock, dataVars, opVars, threadVars, Finish
  <1>8. ASSUME NEW t \in Thread, SkipCancelled(t) PROVE AllPushedInv'
    BY <1>8, <1>u DEF SkipCancelled, dataVars, opVars, threadVars, Finish
  <1>9. ASSUME NEW t \in Thread, NoAttempt(t) PROVE AllPushedInv'
    BY <1>9, <1>u DEF NoAttempt, EndOfAttempts, dataVars, opVars, threadVars, Finish
  <1>10. ASSUME NEW t \in Thread, TryEnqueueAttempt(t) PROVE AllPushedInv'
    <2> DEFINE a == Head(enq)
               r == RunEnqueue(a)
    <2>0. PICK o : o = a.op
      OBVIOUS
    <2>1. /\ a \in Attempt /\ EnqueueAttemptOK(a) /\ BufferOK
          /\ \/ r.result = "kComplete" /\ clean_up' = [clean_up EXCEPT ![t] = Append(@, o)]
             \/ r.result # "kComplete" /\ clean_up' = clean_up
      BY <1>10, <2>0, EnqueueStep DEF BaseInv
    <2>2. st' = [st EXCEPT ![o] = r.status] /\ UNCHANGED done
      BY <1>10, <2>0 DEF TryEnqueueAttempt
    <2>3. o \in Op \ CancelCloser /\ Called(o) /\ ~Listed(clean_up, o) /\ done[o] = 0
      BY <1>10, <2>0, RunnerPlaces
    <2>4. /\ r.status = IF closed THEN "Cancelled" ELSE "ok"
          /\ r.result = "kComplete" => Puts(a) = a.requested \/ closed
      BY <2>1, RunEnqueueFacts
    <2>5. /\ \A x \in Enqueuer : x # o => PushedBy(x)' = PushedBy(x)
          /\ o \in Enqueuer => PushedBy(o)' = Num[o] - a.requested + Puts(a)
      BY <1>10, <2>0, EnqueuePush
    <2>6. a.requested \in Nat /\ \A x \in Enqueuer : Num[x] \in Nat
      BY <2>1, AttemptFields, QueueAssumption
    <2> HIDE DEF a, r
    <2>7. \A x : Listed(clean_up', x) => Listed(clean_up, x) \/ (x = o /\ r.result = "kComplete")
      <3>1. CASE r.result = "kComplete" /\ clean_up' = [clean_up EXCEPT ![t] = Append(@, o)]
        <4>1. ListedOnce(clean_up)
          BY DEF Places, PlaceInv
        <4>2. \A x : Listed(clean_up', x) <=> Listed(clean_up, x) \/ x = o
          BY <2>3, <3>1, <4>1, <1>t, ListAppend
        <4> QED
          BY <3>1, <4>2
      <3>2. CASE clean_up' = clean_up
        BY <3>2
      <3> QED
        BY <2>1, <3>1, <3>2
    <2>8. \A x \in Enqueuer : x # o => (Finished(x)' => Finished(x)) /\ st'[x] = st[x]
      BY <2>2, <2>7, <1>t DEF Finished
    <2>9. \A x \in Enqueuer : x # o =>
            /\ ~Called(x)' => PushedBy(x)' = 0
            /\ Finished(x)' /\ st'[x] = "ok" => PushedBy(x)' = Num[x]
      BY <2>5, <2>8, <1>k DEF AllPushedInv
    <2>10. ASSUME o \in Enqueuer
           PROVE  Called(o)' /\ (Finished(o)' /\ st'[o] = "ok" => PushedBy(o)' = Num[o])
      <3>1. Called(o)'
        BY <2>3, <2>10, <1>k
      <3>2. ASSUME Finished(o)', st'[o] = "ok" PROVE PushedBy(o)' = Num[o]
        <4>1. r.result = "kComplete"
          BY <3>2, <2>2, <2>3, <2>7 DEF Finished
        <4>2. ~closed
          BY <3>2, <2>2, <2>3, <2>4, <1>t
        <4>3. PushedBy(o)' = Num[o] - a.requested + a.requested
          BY <4>1, <4>2, <2>4, <2>5, <2>10
        <4> QED
          BY <4>3, <2>6, <2>10
      <3> QED
        BY <3>1, <3>2
    <2> QED
      BY <2>9, <2>10 DEF AllPushedInv
  <1>11. ASSUME NEW t \in Thread, TryDequeueAttempt(t) PROVE AllPushedInv'
    <2> DEFINE o == Head(deq).op
    <2>1. /\ \E s : st' = [st EXCEPT ![o] = s]
          /\ UNCHANGED <<pushed, done>>
      BY <1>11 DEF TryDequeueAttempt
    <2>2. o \in Op \ CancelCloser /\ ~Listed(clean_up, o) /\ o \notin Enqueuer
      BY <1>11, RunnerPlaces, Sorts
    <2>3. clean_up' = clean_up \/ clean_up' = [clean_up EXCEPT ![t] = Append(@, o)]
      BY <1>11, DequeueStep DEF BaseInv
    <2> HIDE DEF o
    <2>4. \A x \in Enqueuer : Listed(clean_up', x) <=> Listed(clean_up, x)
      <3>1. CASE clean_up' = clean_up
        BY <3>1
      <3>2. CASE clean_up' = [clean_up EXCEPT ![t] = Append(@, o)]
        <4>1. ListedOnce(clean_up)
          BY DEF Places, PlaceInv
        <4>2. \A x : Listed(clean_up', x) <=> Listed(clean_up, x) \/ x = o
          BY <3>2, <4>1, <2>2, <1>t, ListAppend
        <4> QED
          BY <4>2, <2>2
      <3> QED
        BY <2>3, <3>1, <3>2
    <2>5. \A x \in Enqueuer : (Finished(x)' <=> Finished(x)) /\ st'[x] = st[x]
      BY <2>1, <2>2, <2>4, <1>t DEF Finished
    <2> QED
      BY <2>1, <2>5, <1>q
  <1>12. ASSUME NEW t \in Thread, CleanUp(t) PROVE AllPushedInv'
    <2> DEFINE o == Head(clean_up[t])
    <2>1. /\ clean_up[t] # <<>> /\ clean_up' = [clean_up EXCEPT ![t] = Tail(@)]
          /\ done' = [done EXCEPT ![o] = @ + 1]
          /\ UNCHANGED <<st, pushed>>
      BY <1>12 DEF CleanUp, Cleaned, Finish, Goto, dataVars, BaseInv, FlushInv
    <2>2. ListedOnce(clean_up)
      BY DEF Places, PlaceInv
    <2>3. /\ o \in Op /\ Listed(clean_up, o)
          /\ \A y : Listed(clean_up', y) <=> Listed(clean_up, y) /\ y # o
      BY <2>1, <2>2, <1>t, ListTail
    <2> HIDE DEF o
    <2>4. \A x \in Enqueuer : Finished(x)' => Finished(x)
      BY <2>1, <2>3, <1>t DEF Finished
    <2> QED
      BY <2>1, <2>4, <1>q
  <1>13. ASSUME NEW t \in Thread, CleanUpBlock(t) PROVE AllPushedInv'
    BY <1>13, <1>u DEF CleanUpBlock, dataVars, opVars, threadVars, Finish
  <1>14. ASSUME NEW t \in Thread, CleanUpWake(t) PROVE AllPushedInv'
    <2> DEFINE o == Head(clean_up[t])
    <2>1. /\ clean_up[t] # <<>> /\ clean_up' = [clean_up EXCEPT ![t] = Tail(@)]
          /\ done' = [done EXCEPT ![o] = @ + 1]
          /\ UNCHANGED <<st, pushed>>
      BY <1>14 DEF CleanUpWake, Cleaned, Finish, Goto, dataVars, BaseInv, FlushInv
    <2>2. ListedOnce(clean_up)
      BY DEF Places, PlaceInv
    <2>3. /\ o \in Op /\ Listed(clean_up, o)
          /\ \A y : Listed(clean_up', y) <=> Listed(clean_up, y) /\ y # o
      BY <2>1, <2>2, <1>t, ListTail
    <2> HIDE DEF o
    <2>4. \A x \in Enqueuer : Finished(x)' => Finished(x)
      BY <2>1, <2>3, <1>t DEF Finished
    <2> QED
      BY <2>1, <2>4, <1>q
  <1>15. ASSUME NEW t \in Thread, FlushReturn(t) PROVE AllPushedInv'
    <2>1. /\ IF t \in CancelCloser THEN done' = [done EXCEPT ![t] = @ + 1] ELSE done' = done
          /\ UNCHANGED <<clean_up, st, pushed>>
      BY <1>15 DEF FlushReturn, Finish, dataVars
    <2>2. \A x \in Enqueuer : Finished(x)' <=> Finished(x)
      BY <2>1, <1>t DEF Finished
    <2> QED
      BY <2>1, <2>2, <1>q
  <1>16. ASSUME NEW c \in CM, StartCancel(c) PROVE AllPushedInv'
    BY <1>16, <1>u DEF StartCancel, dataVars, opVars, threadVars, Finish
  <1>17. ASSUME NEW c \in CM, FinishCancel(c) PROVE AllPushedInv'
    BY <1>17, <1>u DEF FinishCancel, dataVars, opVars, threadVars, Finish
  <1>18. ASSUME NEW c \in CM, Notify(c) PROVE AllPushedInv'
    BY <1>18, <1>u DEF Notify, dataVars, opVars, threadVars, Finish
  <1>19. ASSUME NEW c \in CM, NEW o \in Token, Cancel(c, o) PROVE AllPushedInv'
    <2>1. /\ st' = st \/ st' = [st EXCEPT ![o] = "Cancelled"]
          /\ UNCHANGED <<clean_up, done, pushed>>
      BY <1>19 DEF Cancel
    <2>2. \A x \in Enqueuer : (Finished(x)' <=> Finished(x)) /\ st'[x] \in {"Cancelled", st[x]}
      BY <2>1, <1>t DEF Finished
    <2> QED
      BY <2>1, <2>2, <1>q
  <1>20. CASE UNCHANGED vars
    BY <1>20, <1>u DEF vars, dataVars, opVars, threadVars
  <1> QED
    BY <1>1, <1>2, <1>3, <1>4, <1>5, <1>6, <1>7, <1>8, <1>9, <1>10, <1>11, <1>12, <1>13, <1>14, <1>15, <1>16, <1>17, <1>18, <1>19, <1>20 DEF Next, Call, FlushStep, CancelStep


\* What the blocked dequeue at the front has collected.
LEMMA PartialView ==
  ASSUME deq \in Seq(Attempt)
  PROVE  Partial \in Seq(Element)
  <1>1. CASE deq = <<>> \/ Head(deq).cancelled
    <2>1. Partial = <<>>
      BY <1>1 DEF Partial
    <2> QED
      BY <2>1, EmptySeq
  <1>2. CASE ~(deq = <<>> \/ Head(deq).cancelled)
    <2>1. Head(deq) \in Attempt
      BY <1>2, TailView
    <2> QED
      BY <1>2, <2>1, AttemptFields DEF Partial
  <1> QED
    BY <1>1, <1>2

\* The attempts behind the first have collected nothing.
LEMMA PartialAfterFirst ==
  ASSUME BaseInv, deq \in Seq(Attempt), deq # <<>>, deq' = Tail(deq)
  PROVE  Partial' = <<>>
  <1>1. \A i \in 1..Len(deq) : i # 1 => deq[i].tuple = <<>>
    BY DEF BaseInv, AttemptInv
  <1>2. /\ deq' \in Seq(Attempt)
        /\ \A i \in 1..Len(deq') : i + 1 \in 1..Len(deq) /\ deq'[i] = deq[i + 1]
    BY TailView
  <1>3. CASE deq' = <<>>
    BY <1>3 DEF Partial
  <1>4. CASE deq' # <<>>
    <2>1. Head(deq') = deq'[1] /\ 1 \in 1..Len(deq')
      BY <1>2, <1>4, TailView
    <2>2. 1 + 1 \in 1..Len(deq) /\ Head(deq') = deq[1 + 1]
      BY <2>1, <1>2
    <2>3. Head(deq').tuple = <<>>
      BY <2>2, <1>1
    <2> QED
      BY <2>3 DEF Partial
  <1> QED
    BY <1>3, <1>4

\* Cancelling a dequeue loses what it has collected, which only the one at the
\* front can have.
LEMMA MarkPartial ==
  ASSUME deq \in Seq(Attempt), OpsApart(deq), \A i \in 1..Len(deq) : i # 1 => deq[i].tuple = <<>>,
         NEW o, IsLive(deq, o) \/ ~On(deq, o), deq' = Mark(deq, o)
  PROVE  \/ Partial' = Partial /\ Collected(deq, o) = {}
         \/ Partial' = <<>> /\ Collected(deq, o) = Range(Partial)
  <1> DEFINE J == {j \in 1..Len(deq) : deq[j].op = o}
  <1>1. /\ deq' \in Seq(Attempt) /\ Len(deq') = Len(deq)
        /\ \A i \in 1..Len(deq) :
             /\ deq'[i].op = deq[i].op /\ deq'[i].tuple = deq[i].tuple
             /\ deq'[i].cancelled <=> deq[i].cancelled \/ deq[i].op = o
    BY MarkView
  <1>2. Range(<<>>) = {}
    BY DEF Range
  <1>3. Collected(deq, o) = UNION {Range(deq[i].tuple) : i \in J}
    BY DEF Collected
  <1>4. CASE deq = <<>>
    <2>1. J = {} /\ deq' = <<>>
      BY <1>1, <1>4, EmptySeq
    <2>2. Collected(deq, o) = {}
      BY <2>1, <1>3
    <2> QED
      BY <2>1, <2>2, <1>4 DEF Partial
  <1>5. CASE deq # <<>>
    <2>1. 1 \in 1..Len(deq) /\ Head(deq) = deq[1]
      BY <1>5, TailView
    <2>2. deq' # <<>> /\ Head(deq') = deq'[1]
      BY <2>1, <1>1, TailView
    <2>3. CASE deq[1].op = o
      <3>1. J = {1}
        BY <2>1, <2>3 DEF OpsApart
      <3>2. ~deq[1].cancelled
        <4>1. PICK i \in 1..Len(deq) : deq[i].op = o /\ ~deq[i].cancelled
          BY <2>1, <2>3 DEF IsLive, On
        <4>2. i = 1
          BY <4>1, <2>1, <2>3 DEF OpsApart
        <4> QED
          BY <4>1, <4>2
      <3>3. Partial = deq[1].tuple /\ Partial' = <<>>
        BY <3>2, <2>1, <2>2, <2>3, <1>1, <1>5 DEF Partial
      <3>4. Collected(deq, o) = Range(deq[1].tuple)
        BY <3>1, <1>3
      <3> QED
        BY <3>3, <3>4
    <2>4. CASE deq[1].op # o
      <3>1. \A i \in J : Range(deq[i].tuple) = {}
        BY <2>4, <1>2
      <3>2. Collected(deq, o) = {}
        BY <3>1, <1>3
      <3>3. deq'[1].tuple = deq[1].tuple /\ (deq'[1].cancelled <=> deq[1].cancelled)
        BY <2>1, <2>4, <1>1
      <3>4. Partial' = Partial
        BY <3>3, <2>1, <2>2, <1>5 DEF Partial
      <3> QED
        BY <3>2, <3>4
    <2> QED
      BY <2>3, <2>4
  <1> QED
    BY <1>4, <1>5

\* An element of the middle of a sequence is an element of it.
LEMMA MiddleElement ==
  ASSUME NEW s \in Seq(Element), NEW m \in Seq(Element), NEW b \in Seq(Element), NEW e \in Range(m)
  PROVE  e \in Range(s \o m \o b)
  <1>1. PICK i \in 1..Len(m) : m[i] = e
    BY DEF Range
  <1>2. Len(s) \in Nat /\ Len(m) \in Nat /\ Len(b) \in Nat
    BY LenProperties
  <1>3. /\ s \o m \in Seq(Element) /\ Len(s \o m) = Len(s) + Len(m)
        /\ \A k \in 1..(Len(s) + Len(m)) : (s \o m)[k] = IF k <= Len(s) THEN s[k] ELSE m[k - Len(s)]
    BY ConcatProperties
  <1>4. /\ Len((s \o m) \o b) = Len(s \o m) + Len(b)
        /\ \A k \in 1..(Len(s \o m) + Len(b)) :
             ((s \o m) \o b)[k] = IF k <= Len(s \o m) THEN (s \o m)[k] ELSE b[k - Len(s \o m)]
    BY <1>3, ConcatProperties
  <1>5. /\ Len(s) + i \in 1..(Len(s) + Len(m)) /\ ~(Len(s) + i <= Len(s)) /\ (Len(s) + i) - Len(s) = i
        /\ Len(s) + i \in 1..(Len(s \o m) + Len(b)) /\ Len(s) + i <= Len(s \o m)
    BY <1>2, <1>3
  <1>6. (s \o m)[Len(s) + i] = m[i]
    BY <1>3, <1>5
  <1>7. (s \o m \o b)[Len(s) + i] = e
    BY <1>1, <1>4, <1>5, <1>6
  <1>8. DOMAIN (s \o m \o b) = 1..Len(s \o m \o b)
    BY <1>3, ConcatProperties, LenProperties
  <1> QED
    BY <1>4, <1>5, <1>7, <1>8 DEF Range

\* What is kept of a sequence was in it.
LEMMA KeepRange ==
  ASSUME NEW R, NEW S, NEW s \in Seq(R), NEW x \in Range(Keep(s, S))
  PROVE  x \in Range(s)
  <1>1. Keep(s, S) \in Seq(R)
    BY KeepType
  <1>2. DOMAIN Keep(s, S) = 1..Len(Keep(s, S)) /\ DOMAIN s = 1..Len(s)
    BY <1>1
  <1>3. \E i \in 1..Len(Keep(s, S)) : Keep(s, S)[i] = x
    BY <1>2 DEF Range
  <1>4. (\E i \in 1..Len(Keep(s, S)) : Keep(s, S)[i] = x) => \E j \in 1..Len(s) : s[j] = x
    BY KeepElements
  <1> QED
    BY <1>2, <1>3, <1>4 DEF Range

\* What has been handed out, collected and kept follows the history.
LEMMA NextOrder == BaseInv /\ Places /\ HistoryInv /\ ProgressInv /\ LostInv /\ OrderInv /\ [Next]_vars => (LostInv /\ OrderInv)'
  <1> SUFFICES ASSUME BaseInv, Places, HistoryInv, ProgressInv, LostInv, OrderInv, [Next]_vars PROVE (LostInv /\ OrderInv)'
    OBVIOUS
  <1>t. /\ pushed \in Seq(Element) /\ popped \in Seq(Element) /\ buffer \in Seq(Element)
        /\ deq \in Seq(Attempt) /\ lost \in SUBSET Element
    BY BaseTypes DEF BaseInv, TypeOK, DataTypeOK
  <1>p. Partial \in Seq(Element)
    BY <1>t, PartialView
  <1>s. ASSUME UNCHANGED <<popped, buffer, pushed, lost>>, Partial' = Partial
        PROVE  (LostInv /\ OrderInv)'
    BY <1>s DEF LostInv, OrderInv
  <1>u. ASSUME UNCHANGED <<popped, deq, buffer, pushed, lost>> PROVE (LostInv /\ OrderInv)'
    BY <1>u DEF LostInv, OrderInv, Partial
  <1>1. ASSUME NEW o \in Op, TryNothing(o) PROVE (LostInv /\ OrderInv)'
    BY <1>1, <1>u DEF TryNothing, dataVars, attemptVars
  <1>2. ASSUME NEW o \in Op, TryAppend(o) PROVE (LostInv /\ OrderInv)'
    <2> DEFINE x == NewAttempt(o, Num[o])
    <2>1. /\ UNCHANGED <<popped, buffer, pushed, lost>> /\ o \in Token
          /\ deq' = deq \/ deq' = Append(deq, x)
      BY <1>2 DEF TryAppend, dataVars
    <2>2. x \in Attempt /\ x.tuple = <<>>
      BY <2>1, NewAttemptFields, QueueAssumption
    <2> HIDE DEF x
    <2>3. CASE deq' = Append(deq, x)
      <3>1. /\ deq' # <<>> /\ (deq # <<>> => Head(deq') = Head(deq)) /\ (deq = <<>> => Head(deq') = x)
        BY <2>2, <2>3, <1>t, AppendView
      <3>2. Partial' = Partial
        BY <3>1, <2>2 DEF Partial
      <3> QED
        BY <3>2, <2>1, <1>s
    <2> QED
      BY <2>1, <2>3, <1>u
  <1>3. ASSUME NEW o \in Op, TryTooLate(o) PROVE (LostInv /\ OrderInv)'
    BY <1>3, <1>u DEF TryTooLate, dataVars, attemptVars
  <1>4. ASSUME NEW o \in Op, Close(o) PROVE (LostInv /\ OrderInv)'
    BY <1>4, <1>u DEF Close, dataVars, attemptVars
  <1>5. ASSUME NEW o \in Op, CloseAndCancel(o) PROVE (LostInv /\ OrderInv)'
    BY <1>5, <1>u DEF CloseAndCancel, dataVars, attemptVars
  <1>6. ASSUME NEW t \in Thread, RunCallback(t) PROVE (LostInv /\ OrderInv)'
    BY <1>6, <1>u DEF RunCallback, dataVars, attemptVars
  <1>7. ASSUME NEW t \in Thread, FlushLock(t) PROVE (LostInv /\ OrderInv)'
    BY <1>7, <1>u DEF FlushLock, dataVars, attemptVars
  <1>8. ASSUME NEW t \in Thread, SkipCancelled(t) PROVE (LostInv /\ OrderInv)'
    <2>1. /\ UNCHANGED <<popped, buffer, pushed, lost>>
          /\ deq' = deq \/ (deq # <<>> /\ Head(deq).cancelled /\ deq' = Tail(deq))
      BY <1>8 DEF SkipCancelled, dataVars
    <2>2. CASE deq # <<>> /\ Head(deq).cancelled /\ deq' = Tail(deq)
      <3>1. Partial' = <<>>
        BY <2>2, <1>t, PartialAfterFirst
      <3>2. Partial = <<>>
        BY <2>2 DEF Partial
      <3> QED
        BY <3>1, <3>2, <2>1, <1>s
    <2> QED
      BY <2>1, <2>2, <1>u
  <1>9. ASSUME NEW t \in Thread, NoAttempt(t) PROVE (LostInv /\ OrderInv)'
    BY <1>9, <1>u DEF NoAttempt, EndOfAttempts, dataVars, attemptVars
  <1>10. ASSUME NEW t \in Thread, TryEnqueueAttempt(t) PROVE (LostInv /\ OrderInv)'
    <2> DEFINE p == RunEnqueue(Head(enq)).pushes
               S == Element \ lost
               front == popped \o Partial
    <2>1. buffer' = buffer \o p /\ UNCHANGED <<popped, deq, lost>>
      BY <1>10 DEF TryEnqueueAttempt
    <2>2. /\ pushed' = pushed \o p /\ p \in Seq(Element)
          /\ \A i \in 1..Len(p) : \A j \in 1..Len(pushed) : pushed[j] # p[i]
      BY <1>10, EnqueuePush
    <2> HIDE DEF p
    <2>3. LostInv'
      <3> SUFFICES ASSUME NEW e \in lost PROVE \E i \in 1..Len(pushed') : pushed'[i] = e
        BY <2>1 DEF LostInv
      <3>1. PICK i \in 1..Len(pushed) : pushed[i] = e
        BY DEF LostInv
      <3>2. i \in 1..Len(pushed \o p) /\ (pushed \o p)[i] = pushed[i]
        BY <2>2, <1>t
      <3> QED
        BY <3>1, <3>2, <2>2
    <2>4. Partial' = Partial
      BY <2>1 DEF Partial
    <2>5. Keep(pushed \o p, S) = Keep(pushed, S) \o Keep(p, S)
      BY <2>2, <1>t, KeepConcat
    <2>6. Keep(p, S) = p
      <3>1. \A i \in 1..Len(p) : p[i] \in S
        BY <2>2, ElementOfSeq DEF LostInv
      <3> HIDE DEF S
      <3>2. p \in Seq(S)
        BY <3>1, <2>2
      <3> QED
        BY <3>2, <2>2, KeepAll
    <2>7. front \in Seq(Element) /\ front \o buffer = Keep(pushed, S)
      BY <1>t, <1>p, ConcatProperties DEF OrderInv
    <2>8. (front \o buffer) \o p = front \o (buffer \o p)
      <3>1. front \in Seq(Element) /\ buffer \in Seq(Element) /\ p \in Seq(Element)
        BY <2>2, <2>7, <1>t
      <3> HIDE DEF front
      <3> QED
        BY ONLY <3>1, ConcatAssociative
    <2> HIDE DEF S
    <2>9. front \o buffer' = Keep(pushed', S)
      BY <2>1, <2>2, <2>5, <2>6, <2>7, <2>8
    <2>10. OrderInv'
      BY <2>1, <2>4, <2>9 DEF OrderInv, S
    <2> QED
      BY <2>3, <2>10
  <1>11. ASSUME NEW t \in Thread, TryDequeueAttempt(t) PROVE (LostInv /\ OrderInv)'
    <2> DEFINE a == Head(deq)
               r == RunDequeue(a)
    <2>1. /\ deq # <<>> /\ a \in Attempt /\ ~a.cancelled /\ DequeueAttemptOK(a) /\ BufferOK
          /\ \/ r.result = "kComplete" /\ deq' = Tail(deq)
             \/ r.result # "kComplete" /\ deq' = <<r.attempt>> \o Tail(deq)
      BY <1>11, DequeueStep DEF BaseInv
    <2>2. /\ buffer' = r.buffer /\ UNCHANGED <<pushed, lost>>
          /\ r.result = "kComplete" => popped' = popped \o r.attempt.tuple
          /\ r.result # "kComplete" => popped' = popped
      BY <1>11 DEF TryDequeueAttempt
    <2>3. /\ r.attempt \in Attempt /\ r.attempt.cancelled = a.cancelled /\ r.buffer \in Seq(Element)
          /\ r.attempt.tuple \o r.buffer = a.tuple \o buffer
      BY <2>1, RunDequeueFacts
    <2>4. Partial = a.tuple
      BY <2>1 DEF Partial
    <2>5. a.tuple \in Seq(Element) /\ r.attempt.tuple \in Seq(Element)
      BY <2>1, <2>3, AttemptFields
    <2> HIDE DEF r, a
    <2>6. LostInv'
      BY <2>2 DEF LostInv
    <2>7. popped \o r.attempt.tuple \o r.buffer = popped \o a.tuple \o buffer
      <3>1. popped \o r.attempt.tuple \o r.buffer = popped \o (r.attempt.tuple \o r.buffer)
        <4> DEFINE x == r.attempt.tuple
                   y == r.buffer
        <4>1. popped \in Seq(Element) /\ x \in Seq(Element) /\ y \in Seq(Element)
          BY <2>3, <2>5, <1>t
        <4> HIDE DEF x, y
        <4>2. (popped \o x) \o y = popped \o (x \o y)
          BY ONLY <4>1, ConcatAssociative
        <4> QED
          BY <4>2 DEF x, y
      <3>2. popped \o a.tuple \o buffer = popped \o (a.tuple \o buffer)
        <4> DEFINE x == a.tuple
        <4>1. popped \in Seq(Element) /\ x \in Seq(Element) /\ buffer \in Seq(Element)
          BY <2>5, <1>t
        <4> HIDE DEF x
        <4>2. (popped \o x) \o buffer = popped \o (x \o buffer)
          BY ONLY <4>1, ConcatAssociative
        <4> QED
          BY <4>2 DEF x
      <3> QED
        BY <3>1, <3>2, <2>3
    <2>8. popped \o r.attempt.tuple \o r.buffer = Keep(pushed, Element \ lost)
      BY <2>4, <2>7 DEF OrderInv
    <2>9. popped' \o Partial' = popped \o r.attempt.tuple
      <3>1. CASE r.result = "kComplete" /\ deq' = Tail(deq)
        <4>1. Partial' = <<>>
          BY <3>1, <2>1, <1>t, PartialAfterFirst
        <4>2. popped \o r.attempt.tuple \in Seq(Element)
          BY <2>5, <1>t, ConcatProperties
        <4>3. popped \o r.attempt.tuple \o <<>> = popped \o r.attempt.tuple
          BY <4>2, ConcatEmptySeq
        <4> QED
          BY <3>1, <4>1, <4>3, <2>2
      <3>2. CASE r.result # "kComplete" /\ deq' = <<r.attempt>> \o Tail(deq)
        <4>1. deq' # <<>> /\ Head(deq') = r.attempt
          BY <3>2, <2>1, <2>3, <1>t, NewHeadView
        <4>2. Partial' = r.attempt.tuple
          BY <4>1, <2>1, <2>3 DEF Partial
        <4> QED
          BY <3>2, <4>2, <2>2
      <3> QED
        BY <2>1, <3>1, <3>2
    <2>10. OrderInv'
      BY <2>2, <2>8, <2>9 DEF OrderInv
    <2> QED
      BY <2>6, <2>10
  <1>12. ASSUME NEW t \in Thread, CleanUp(t) PROVE (LostInv /\ OrderInv)'
    BY <1>12, <1>u DEF CleanUp, Cleaned, dataVars, attemptVars
  <1>13. ASSUME NEW t \in Thread, CleanUpBlock(t) PROVE (LostInv /\ OrderInv)'
    BY <1>13, <1>u DEF CleanUpBlock, dataVars, attemptVars
  <1>14. ASSUME NEW t \in Thread, CleanUpWake(t) PROVE (LostInv /\ OrderInv)'
    BY <1>14, <1>u DEF CleanUpWake, Cleaned, dataVars, attemptVars
  <1>15. ASSUME NEW t \in Thread, FlushReturn(t) PROVE (LostInv /\ OrderInv)'
    BY <1>15, <1>u DEF FlushReturn, dataVars, attemptVars
  <1>16. ASSUME NEW c \in CM, StartCancel(c) PROVE (LostInv /\ OrderInv)'
    BY <1>16, <1>u DEF StartCancel, dataVars, attemptVars
  <1>17. ASSUME NEW c \in CM, FinishCancel(c) PROVE (LostInv /\ OrderInv)'
    BY <1>17, <1>u DEF FinishCancel, dataVars, attemptVars
  <1>18. ASSUME NEW c \in CM, Notify(c) PROVE (LostInv /\ OrderInv)'
    BY <1>18, <1>u DEF Notify, dataVars, attemptVars
  <1>19. ASSUME NEW c \in CM, NEW o \in Token, Cancel(c, o) PROVE (LostInv /\ OrderInv)'
    <2>1. CASE ~(IsLive(enq, o) \/ IsLive(deq, o))
      <3>1. UNCHANGED <<popped, deq, buffer, pushed, lost>>
        BY <1>19, <2>1 DEF Cancel, attemptVars
      <3> QED
        BY <3>1, <1>u
    <2>2. CASE IsLive(enq, o) \/ IsLive(deq, o)
      <3>1. /\ deq' = Mark(deq, o) /\ lost' = lost \cup Collected(deq, o)
            /\ UNCHANGED <<popped, buffer, pushed>>
        BY <1>19, <2>2 DEF Cancel
      <3>2. OpsApart(deq) /\ \A i \in 1..Len(deq) : i # 1 => deq[i].tuple = <<>>
        BY DEF Places, AttemptsApart, BaseInv, AttemptInv
      <3>3. IsLive(deq, o) \/ ~On(deq, o)
        BY <2>2, AttemptOps
      <3>4. \/ Partial' = Partial /\ Collected(deq, o) = {}
            \/ Partial' = <<>> /\ Collected(deq, o) = Range(Partial)
        BY <3>1, <3>2, <3>3, <1>t, MarkPartial
      <3>5. CASE Partial' = Partial /\ Collected(deq, o) = {}
        BY <3>1, <3>5, <1>s
      <3>6. CASE Partial' = <<>> /\ Collected(deq, o) = Range(Partial)
        <4> DEFINE q == popped \o Partial \o buffer
                   S == Element \ lost
                   U == Element \ Range(Partial)
        <4>1. q = Keep(pushed, S)
          BY DEF OrderInv
        <4>2. Distinct(q)
          BY <4>1, <1>t, KeepDistinct DEF HistoryInv
        <4>3. Keep(q, U) = popped \o <<>> \o buffer
          BY <4>2, <1>t, <1>p, TakeOut
        <4>4. Keep(Keep(pushed, S), U) = Keep(pushed, S \cap U)
          BY <1>t, KeepTwice
        <4>5. S \cap U = Element \ lost'
          BY <3>1, <3>6
        <4>6. OrderInv'
          BY <3>1, <3>6, <4>1, <4>3, <4>4, <4>5 DEF OrderInv
        <4>7. \A e \in Range(Partial) : \E i \in 1..Len(pushed) : pushed[i] = e
          <5> SUFFICES ASSUME NEW e \in Range(Partial) PROVE \E i \in 1..Len(pushed) : pushed[i] = e
            OBVIOUS
          <5>0. /\ popped \in Seq(Element) /\ Partial \in Seq(Element) /\ buffer \in Seq(Element)
                /\ pushed \in Seq(Element) /\ e \in Range(Partial)
            BY <1>t, <1>p
          <5>1. e \in Range(popped \o Partial \o buffer)
            BY ONLY <5>0, MiddleElement
          <5> HIDE DEF S
          <5>2. e \in Range(Keep(pushed, S))
            BY <5>1, <4>1
          <5>3. e \in Range(pushed)
            BY ONLY <5>0, <5>2, KeepRange
          <5> QED
            BY <5>0, <5>3 DEF Range
        <4>8. LostInv'
          BY <3>1, <3>6, <4>7 DEF LostInv
        <4> QED
          BY <4>6, <4>8
      <3> QED
        BY <3>4, <3>5, <3>6
    <2> QED
      BY <2>1, <2>2
  <1>20. CASE UNCHANGED vars
    BY <1>20, <1>u DEF vars, dataVars, attemptVars
  <1> QED
    BY <1>1, <1>2, <1>3, <1>4, <1>5, <1>6, <1>7, <1>8, <1>9, <1>10, <1>11, <1>12, <1>13, <1>14, <1>15, <1>16, <1>17, <1>18, <1>19, <1>20 DEF Next, Call, FlushStep, CancelStep

\* What was put in, collected, handed out and lost.
DataInv == HistoryInv /\ ProgressInv /\ AllPushedInv /\ LostInv /\ OrderInv

\* A new queue holds nothing.
LEMMA InitData == Init => DataInv
  <1> SUFFICES ASSUME Init PROVE DataInv
    OBVIOUS
  <1>1. /\ buffer = <<>> /\ pushed = <<>> /\ popped = <<>> /\ lost = {} /\ enq = <<>> /\ deq = <<>>
        /\ clean_up = [t \in Thread |-> <<>>] /\ done = [o \in Op |-> 0]
    BY DEF Init
  <1>2. \A S : Keep(pushed, S) = <<>>
    BY <1>1, KeepEmpty
  <1>3. \A o : MineIn(pushed, o) = <<>>
    BY <1>2 DEF MineIn
  <1>4. Len(<<>>) = 0 /\ 1..0 = {}
    OBVIOUS
  <1>5. HistoryInv
    BY <1>1, <1>3, <1>4 DEF HistoryInv, InOrder, Distinct
  <1>6. ProgressInv
    BY <1>1, <1>4 DEF ProgressInv
  <1>7. \A o \in Enqueuer : ~Finished(o)
    BY <1>1, Sorts DEF Finished, Listed
  <1>8. AllPushedInv
    BY <1>3, <1>4, <1>7 DEF AllPushedInv, PushedBy
  <1>9. LostInv
    BY <1>1 DEF LostInv
  <1>10. Partial = <<>>
    BY <1>1 DEF Partial
  <1>11. <<>> \o <<>> = <<>>
    OBVIOUS
  <1>12. OrderInv
    BY <1>1, <1>2, <1>10, <1>11 DEF OrderInv
  <1> QED
    BY <1>5, <1>6, <1>8, <1>9, <1>12 DEF DataInv

\* What the queue holds and handed out keeps following the history.
LEMMA DataInvariance == Spec => []DataInv
  <1>1. BaseInv /\ Places /\ RunsInv /\ DataInv /\ [Next]_vars => DataInv'
    <2> SUFFICES ASSUME BaseInv, Places, RunsInv, DataInv, [Next]_vars PROVE DataInv'
      OBVIOUS
    <2>1. HistoryInv /\ ProgressInv /\ AllPushedInv /\ LostInv /\ OrderInv /\ CalledInv
      BY DEF DataInv, RunsInv
    <2>2. (HistoryInv /\ ProgressInv)'
      BY <2>1, NextHistory
    <2>3. AllPushedInv'
      BY <2>1, NextAllPushed
    <2>4. (LostInv /\ OrderInv)'
      BY <2>1, NextOrder
    <2> QED
      BY <2>2, <2>3, <2>4 DEF DataInv
  <1> QED
    BY <1>1, InitData, BaseInvariance, PlacesInvariance, RunsInvariance, PTL DEF Spec

\* What dequeues have been handed, then what the first blocked one has collected,
\* then what is in queues_, is what TryEnqueue(Many) pushed, in that order, but
\* for what a cancelled DequeueMany had collected; and every EnqueueMany pushed
\* its elements in order, all of them if it reported no error.
THEOREM ElementsInOrder == Spec => []FirstInFirstOut
  <1>1. DataInv => FirstInFirstOut
    <2> SUFFICES ASSUME DataInv PROVE FirstInFirstOut
      OBVIOUS
    <2>1. EnqueueManyInOrder
      <3> SUFFICES ASSUME NEW o \in Enqueuer
                   PROVE  /\ \A i \in 1..Len(MineIn(pushed, o)) : MineIn(pushed, o)[i] = <<o, i>>
                          /\ done[o] = 1 /\ st[o] = "ok" => Len(MineIn(pushed, o)) = Num[o]
        BY DEF EnqueueManyInOrder, MineIn
      <3> QED
        BY DEF DataInv, HistoryInv, InOrder, AllPushedInv, PushedBy, Finished
    <2> QED
      BY <2>1 DEF DataInv, OrderInv, FirstInFirstOut
  <1> QED
    BY <1>1, DataInvariance, PTL
=============================================================================
