---------------------------- MODULE BarrierProofs ---------------------------
(***************************************************************************)
(* Proofs about Barrier and the PriorityQueue it owns, for any number of   *)
(* calls, keys and components: no wakeup is lost, every callback runs      *)
(* once, only a plain Close can wait for itself, a TakeMany gets what it   *)
(* asks for in order, and every tuple is in one place.                     *)
(***************************************************************************)
EXTENDS Barrier, SubsequenceProofs, FiniteSetTheorems

(***************************************************************************)
(* The parts of the inductive invariant.                                   *)
(***************************************************************************)

\* The operation has been called, and where it is inside FlushUnlocked.
Called(o) == pc[o] \notin NotCalled
Working   == {"flush", "flushing", "cleanup"}

\* Operation o is on a thread's list of callbacks to run.
Listed(o) == \E t \in Thread : o \in Range(clean_up[t])

\* Who is in the critical section of FlushUnlocked and who keeps mu_.
FlushInv ==
    /\ \A t \in Thread : pc[t] = "flushing" <=> queue_mu = t
    /\ \A t \in Thread : clean_up[t] # <<>> => pc[t] \in {"flushing", "cleanup"}
    /\ \A t \in Thread : pc[t] = "append" => t \in Inserter \cup Taker
    /\ \A t \in Thread : pc[t] = "close" => t \in Closer
MuInv == \A t \in Thread : mu = t <=> t \in Closer /\ pc[t] \in {"close"} \cup Working

\* When the lock of the queue is free nobody can move, or somebody will flush.
DequeueWaits == deq # <<>> => ~queue_is_closed /\ Count(queue) < Head(deq).requested
WakeInv ==
    queue_mu = Nobody => \/ \E t \in Thread : pc[t] = "flush"
                         \/ enq = <<>> /\ DequeueWaits

\* An operation with an attempt, or on a list, is past the making of its
\* attempt, and one that has been finished keeps its error.
Past(o) == Called(o) /\ pc[o] \notin {"append", "close"}
CallInv ==
    /\ \A o \in OpsOf(enq) : Past(o)
    /\ \A o \in OpsOf(deq) : Past(o)
    /\ \A o \in Op : Listed(o) => Past(o)
StatusInv ==
    \A o \in Op : ~Called(o) \/ o \in OpsOf(enq) \cup OpsOf(deq) \/ pc[o] \in {"append", "close"}
                    => st[o] = "ok"

\* The plain Close whose attempt has closed the queue.
ClosedBy(p) ==
    /\ p \in Closer \ CancelCloser
    /\ Called(p) /\ pc[p] # "close" /\ p \notin OpsOf(enq) /\ st[p] = "ok"

\* Who closes the queue.
CloseInv ==
    /\ queue_is_closed => closed
    /\ \A o \in Closer : pc[o] = "close" => closed
    /\ \A a \in Range(enq) : a.close <=> a.op \in Closer
    /\ \A a \in Range(enq) : a.close => closed
    /\ OpsOf(enq) \cap CancelCloser = {}
    /\ \A o \in CancelCloser : pc[o] = "close" => queue_cancelled
    /\ \A o \in CancelCloser : pc[o] \in Working => queue_is_closed
ClosedByInv == queue_is_closed => queue_cancelled \/ \E p \in Closer : ClosedBy(p)

\* A Close that cancels completes only enqueues that fail.
CancelCloserInv ==
    \A t \in CancelCloser : \A o \in Range(clean_up[t]) : o \in Inserter => st[o] # "ok"

\* The four places where a callback is: with its thread, with an attempt, on a
\* list, and run; one that a second Close forgets is in none.
InHand(o) == pc[o] \in {"append", "close"} \/ (o \in CancelCloser /\ pc[o] \in Working)
Waiting(o) == o \in OpsOf(enq) \/ o \in OpsOf(deq)
Forgotten(o) ==
    o \in CancelCloser /\ pc[o] = "returned" /\ queue_is_closed /\ \E p \in Closer : ClosedBy(p)
OpsApart(attempts) ==
    Distinct(attempts) /\ \A a, b \in Range(attempts) : a.op = b.op => a = b
ListsApart ==
    /\ \A t \in Thread : Distinct(clean_up[t])
    /\ \A t, u \in Thread : t # u => Range(clean_up[t]) \cap Range(clean_up[u]) = {}
PlaceOK(o) ==
    /\ done[o] \in {0, 1}
    /\ InHand(o) => ~Waiting(o) /\ ~Listed(o) /\ done[o] = 0
    /\ Waiting(o) => ~Listed(o) /\ done[o] = 0
    /\ Listed(o) => done[o] = 0
    /\ Called(o) <=> InHand(o) \/ Waiting(o) \/ Listed(o) \/ done[o] = 1 \/ Forgotten(o)
PlaceInv == \A o \in Op : PlaceOK(o)

\* What a TakeMany has collected: nothing, unless the closed queue has run out
\* under a small batch, which the same flush then fails.
Finished(o) == Listed(o) \/ done[o] = 1
SortedTuple(s) ==
    \A i, j \in 1..Len(s) : i < j => s[i].index <= s[j].index /\ s[i] # s[j]
PartialInv ==
    \A a \in Range(deq) :
        /\ a.tuple = <<>> => a.requested = num[a.op]
        /\ a.tuple # <<>> =>
             a = Head(deq) /\ queue_is_closed /\ queue = {} /\ queue_mu # Nobody /\ a.op \in Small
NumInv == \A o \in Taker : pc[o] = "append" => num[o] > 0
GotOK(o) ==
    /\ Finished(o) /\ st[o] = "ok" => Len(got[o]) = num[o] /\ SortedTuple(got[o])
    /\ ~Finished(o) => got[o] = <<>>
GotInv == \A o \in Taker : GotOK(o)
IndexInv ==
    /\ IndexNamesBatch
    /\ \A e \in elements : /\ e.index <= input_index
                           /\ st[e.by] = "ok" => e.index < input_index

\* Where a tuple is: in a place of one of six kinds, with a key or an operation.
InIncomplete(e, k) == k \in DOMAIN incomplete /\ incomplete[k].element = e
InBatch(e, o) == o \in Inserter /\ pc[o] = "append" /\ e \in Range(batch[o])
InEnqueue(e, o) == \E a \in Range(enq) : a.op = o /\ e \in Range(a.batch)
InQueue(e, o) == o = Nobody /\ e \in queue
InDequeue(e, o) == \E a \in Range(deq) : a.op = o /\ e \in Range(a.tuple)
InGot(e, o) == o \in Taker /\ e \in Range(got[o])
At(e, kind, x) ==
    \/ kind = "inc" /\ InIncomplete(e, x)
    \/ kind = "batch" /\ InBatch(e, x)
    \/ kind = "enq" /\ InEnqueue(e, x)
    \/ kind = "queue" /\ InQueue(e, x)
    \/ kind = "deq" /\ InDequeue(e, x)
    \/ kind = "got" /\ InGot(e, x)
Lost(e) ==
    \/ \E o \in Inserter : st[o] # "ok" /\ e.key \in Range(Keys[o])
    \/ queue_cancelled
    \/ \E o \in Small : st[o] = "OutOfRange"
WhereInv ==
    /\ \A e, j, k, x, y : At(e, j, x) /\ At(e, k, y) => j = k /\ x = y
    /\ \A e, k, x : At(e, k, x) => e \in elements
    /\ \A e \in elements : Lost(e) \/ \E k, x : At(e, k, x)
KeyInv ==
    /\ \A o \in Inserter : \A e \in Range(batch[o]) : e.key \in Range(Keys[o])
    /\ \A a \in Range(enq) : /\ a.op \in Closer => a.batch = <<>>
                             /\ a.op \in Inserter =>
                                  \A e \in Range(a.batch) : e.key \in Range(Keys[a.op])

(***************************************************************************)
(* Sequences, and the operations of attempts.                              *)
(***************************************************************************)

\* The elements of a sequence.
LEMMA RangeSeq ==
  ASSUME NEW R, NEW s \in Seq(R)
  PROVE  /\ Range(s) = {s[i] : i \in 1..Len(s)} /\ Range(s) \subseteq R
         /\ \A i \in 1..Len(s) : s[i] \in Range(s)
  <1>1. DOMAIN s = 1..Len(s) /\ \A i \in 1..Len(s) : s[i] \in R
    OBVIOUS
  <1> QED
    BY <1>1 DEF Range

\* The empty sequence has none.
LEMMA RangeEmpty == Range(<<>>) = {}
  BY DEF Range

\* What is put at the end is one more.
LEMMA RangeAppend ==
  ASSUME NEW R, NEW s \in Seq(R), NEW x \in R
  PROVE  Append(s, x) \in Seq(R) /\ Range(Append(s, x)) = Range(s) \cup {x}
  <1>1. Append(s, x) \in Seq(R) /\ Len(Append(s, x)) = Len(s) + 1 /\ Len(s) \in Nat
    OBVIOUS
  <1>2. \A i \in 1..Len(s) : Append(s, x)[i] = s[i]
    OBVIOUS
  <1>3. Append(s, x)[Len(s) + 1] = x
    OBVIOUS
  <1>4. \A i : i \in 1..(Len(s) + 1) <=> i \in 1..Len(s) \/ i = Len(s) + 1
    BY <1>1
  <1>5. Range(s) = {s[i] : i \in 1..Len(s)}
    BY RangeSeq
  <1>6. Range(Append(s, x)) = {Append(s, x)[i] : i \in 1..(Len(s) + 1)}
    BY <1>1, RangeSeq
  <1> QED
    BY <1>1, <1>2, <1>3, <1>4, <1>5, <1>6

\* What is taken from the front, and the others.
LEMMA RangeTail ==
  ASSUME NEW R, NEW s \in Seq(R), s # <<>>
  PROVE  /\ Head(s) \in R /\ Tail(s) \in Seq(R) /\ Head(s) \in Range(s)
         /\ Range(s) = {Head(s)} \cup Range(Tail(s))
         /\ Head(s) = s[1] /\ 1 \in 1..Len(s)
         /\ Len(Tail(s)) \in Nat /\ Len(Tail(s)) + 1 = Len(s)
         /\ \A i \in 1..Len(Tail(s)) : i + 1 \in 1..Len(s) /\ Tail(s)[i] = s[i + 1]
  <1>1. /\ Head(s) \in R /\ Tail(s) \in Seq(R) /\ Head(s) = s[1]
        /\ Len(s) \in Nat /\ Len(s) # 0 /\ Len(Tail(s)) \in Nat
        /\ Len(Tail(s)) + 1 = Len(s)
        /\ \A i \in 1..Len(Tail(s)) : Tail(s)[i] = s[i + 1]
    BY EmptySeq
  <1>2. \A i \in 1..Len(Tail(s)) : i + 1 \in 1..Len(s)
    BY <1>1
  <1>3. \A i \in 1..Len(s) : i = 1 \/ i - 1 \in 1..Len(Tail(s))
    BY <1>1
  <1>4. \A i \in 1..Len(s) : i = (i - 1) + 1
    BY <1>1
  <1>5. Range(s) = {s[i] : i \in 1..Len(s)}
    BY RangeSeq
  <1>6. Range(Tail(s)) = {Tail(s)[i] : i \in 1..Len(Tail(s))}
    BY <1>1, RangeSeq
  <1>7. 1 \in 1..Len(s)
    BY <1>1
  <1>8. Range(s) = {Head(s)} \cup Range(Tail(s))
    <2>1. ASSUME NEW x \in Range(s) PROVE x = Head(s) \/ x \in Range(Tail(s))
      <3>1. PICK i \in 1..Len(s) : x = s[i]
        BY <1>5
      <3>2. CASE i = 1
        BY <3>1, <3>2, <1>1
      <3>3. CASE i - 1 \in 1..Len(Tail(s))
        <4>1. s[i] = Tail(s)[i - 1]
          BY <3>3, <1>1, <1>4
        <4> QED
          BY <3>1, <3>3, <4>1, <1>6
      <3> QED
        BY <3>2, <3>3, <1>3
    <2>2. ASSUME NEW x \in Range(Tail(s)) PROVE x \in Range(s)
      <3>1. PICK i \in 1..Len(Tail(s)) : x = Tail(s)[i]
        BY <1>6
      <3> QED
        BY <3>1, <1>1, <1>2, <1>5
    <2>3. Head(s) \in Range(s)
      BY <1>1, <1>5, <1>7
    <2> QED
      BY <2>1, <2>2, <2>3
  <1> QED
    BY <1>1, <1>2, <1>7, <1>8

\* The elements of a concatenation.
LEMMA RangeConcat ==
  ASSUME NEW R, NEW s \in Seq(R), NEW t \in Seq(R)
  PROVE  s \o t \in Seq(R) /\ Range(s \o t) = Range(s) \cup Range(t)
  <1> DEFINE u == s \o t
  <1>1. /\ u \in Seq(R) /\ Len(u) = Len(s) + Len(t) /\ Len(s) \in Nat /\ Len(t) \in Nat
        /\ \A i \in 1..Len(u) : u[i] = IF i <= Len(s) THEN s[i] ELSE t[i - Len(s)]
    BY ConcatProperties
  <1> HIDE DEF u
  <1>2. Range(s) = {s[i] : i \in 1..Len(s)} /\ Range(t) = {t[i] : i \in 1..Len(t)}
    BY RangeSeq
  <1>3. Range(u) = {u[i] : i \in 1..Len(u)}
    BY <1>1, RangeSeq
  <1>4. \A i \in 1..Len(u) : IF i <= Len(s) THEN i \in 1..Len(s) ELSE i - Len(s) \in 1..Len(t)
    BY <1>1
  <1>5. \A i \in 1..Len(s) : i \in 1..Len(u) /\ i <= Len(s)
    BY <1>1
  <1>6. \A i \in 1..Len(t) : i + Len(s) \in 1..Len(u) /\ ~(i + Len(s) <= Len(s))
                             /\ (i + Len(s)) - Len(s) = i
    BY <1>1
  <1>7. \A x \in Range(u) : x \in Range(s) \cup Range(t)
    BY <1>1, <1>2, <1>3, <1>4
  <1>8. \A x \in Range(s) : x \in Range(u)
    BY <1>1, <1>2, <1>3, <1>5
  <1>9. ASSUME NEW x \in Range(t) PROVE x \in Range(u)
    <2>1. PICK i \in 1..Len(t) : x = t[i]
      BY <1>2
    <2>2. u[i + Len(s)] = t[i]
      BY <1>1, <1>6
    <2> QED
      BY <2>1, <2>2, <1>3, <1>6
  <1> QED
    BY <1>1, <1>7, <1>8, <1>9 DEF u

\* The elements Keep keeps.
LEMMA RangeKeep ==
  ASSUME NEW R, NEW s \in Seq(R), NEW S
  PROVE  Keep(s, S) \in Seq(R) /\ Range(Keep(s, S)) = Range(s) \cap S
  <1>1. Keep(s, S) \in Seq(R)
    BY KeepType
  <1>2. \A x : (\E i \in 1..Len(Keep(s, S)) : Keep(s, S)[i] = x)
                 <=> x \in S /\ \E j \in 1..Len(s) : s[j] = x
    BY KeepElements
  <1>3. Range(s) = {s[i] : i \in 1..Len(s)}
    BY RangeSeq
  <1>4. Range(Keep(s, S)) = {Keep(s, S)[i] : i \in 1..Len(Keep(s, S))}
    BY <1>1, RangeSeq
  <1> QED
    BY <1>1, <1>2, <1>3, <1>4

\* No element occurs twice after one more that is new.
LEMMA DistinctAppend ==
  ASSUME NEW R, NEW s \in Seq(R), NEW x \in R, Distinct(s), x \notin Range(s)
  PROVE  Distinct(Append(s, x))
  <1>1. /\ Len(Append(s, x)) = Len(s) + 1 /\ Len(s) \in Nat
        /\ Append(s, x)[Len(s) + 1] = x
        /\ \A i \in 1..Len(s) : Append(s, x)[i] = s[i]
    OBVIOUS
  <1>2. \A i \in 1..Len(s) : s[i] # x
    BY RangeSeq
  <1>3. \A i \in 1..Len(Append(s, x)) : i \in 1..Len(s) \/ i = Len(s) + 1
    BY <1>1
  <1> QED
    BY <1>1, <1>2, <1>3, Zenon DEF Distinct

\* Without the first none occurs twice either.
LEMMA DistinctTail ==
  ASSUME NEW R, NEW s \in Seq(R), s # <<>>, Distinct(s)
  PROVE  Distinct(Tail(s)) /\ Head(s) \notin Range(Tail(s))
  <1>1. /\ Tail(s) \in Seq(R) /\ Head(s) = s[1] /\ 1 \in 1..Len(s) /\ Len(Tail(s)) \in Nat
        /\ \A i \in 1..Len(Tail(s)) : i + 1 \in 1..Len(s) /\ Tail(s)[i] = s[i + 1]
    BY RangeTail
  <1>2. \A i, j \in 1..Len(Tail(s)) : i + 1 # 1 /\ (i + 1 = j + 1 => i = j)
    BY <1>1
  <1>3. Range(Tail(s)) = {Tail(s)[i] : i \in 1..Len(Tail(s))}
    BY <1>1, RangeSeq
  <1>4. Distinct(Tail(s))
    BY <1>1, <1>2, Zenon DEF Distinct
  <1>5. ASSUME NEW i \in 1..Len(Tail(s)), Tail(s)[i] = Head(s) PROVE FALSE
    <2>1. s[i + 1] = s[1] /\ i + 1 \in 1..Len(s)
      BY <1>1, <1>5
    <2>2. i + 1 = 1
      BY <2>1, <1>1, Zenon DEF Distinct
    <2> QED
      BY <2>2, <1>2
  <1> QED
    BY <1>3, <1>4, <1>5

\* The operations of the attempts.
LEMMA OpsRange ==
  ASSUME NEW R, NEW s \in Seq(R)
  PROVE  OpsOf(s) = {a.op : a \in Range(s)}
  BY RangeSeq DEF OpsOf

\* Nobody has an attempt on an empty list.
LEMMA OpsEmpty == OpsOf(<<>>) = {}
  BY DEF OpsOf

\* One more attempt, of an operation that has none.
LEMMA OpsAppend ==
  ASSUME NEW R, NEW s \in Seq(R), NEW a \in R
  PROVE  /\ OpsOf(Append(s, a)) = OpsOf(s) \cup {a.op}
         /\ OpsApart(s) /\ a.op \notin OpsOf(s) => OpsApart(Append(s, a))
  <1>1. Append(s, a) \in Seq(R) /\ Range(Append(s, a)) = Range(s) \cup {a}
    BY RangeAppend
  <1>2. OpsOf(s) = {b.op : b \in Range(s)} /\ OpsOf(Append(s, a)) = {b.op : b \in Range(Append(s, a))}
    BY <1>1, OpsRange
  <1>3. ASSUME OpsApart(s), a.op \notin OpsOf(s) PROVE OpsApart(Append(s, a))
    <2>1. a \notin Range(s) /\ \A b \in Range(s) : b.op # a.op
      BY <1>2, <1>3
    <2>2. Distinct(Append(s, a))
      BY <1>3, <2>1, DistinctAppend DEF OpsApart
    <2> QED
      BY <1>1, <1>3, <2>1, <2>2 DEF OpsApart
  <1> QED
    BY <1>1, <1>2, <1>3

\* Without the attempt at the front.
LEMMA OpsTail ==
  ASSUME NEW R, NEW s \in Seq(R), s # <<>>
  PROVE  /\ OpsOf(s) = {Head(s).op} \cup OpsOf(Tail(s))
         /\ OpsApart(s) => OpsApart(Tail(s)) /\ Head(s).op \notin OpsOf(Tail(s))
  <1>1. Tail(s) \in Seq(R) /\ Range(s) = {Head(s)} \cup Range(Tail(s))
    BY RangeTail
  <1>2. OpsOf(s) = {b.op : b \in Range(s)} /\ OpsOf(Tail(s)) = {b.op : b \in Range(Tail(s))}
    BY <1>1, OpsRange
  <1>3. ASSUME OpsApart(s) PROVE OpsApart(Tail(s)) /\ Head(s).op \notin OpsOf(Tail(s))
    <2>1. Distinct(Tail(s)) /\ Head(s) \notin Range(Tail(s))
      BY <1>3, DistinctTail DEF OpsApart
    <2> QED
      BY <1>1, <1>2, <1>3, <2>1 DEF OpsApart
  <1> QED
    BY <1>1, <1>2, <1>3

\* Without the attempts of one operation.
LEMMA OpsWithout ==
  ASSUME NEW R, NEW s \in Seq(R), NEW o
  PROVE  /\ Without(s, o) \in Seq(R)
         /\ Range(Without(s, o)) = {a \in Range(s) : a.op # o}
         /\ OpsOf(Without(s, o)) = OpsOf(s) \ {o}
         /\ OpsApart(s) => OpsApart(Without(s, o))
  <1> DEFINE S == {a \in Range(s) : a.op # o}
  <1>1. Without(s, o) = Keep(s, S)
    BY DEF Without
  <1>2. Keep(s, S) \in Seq(R) /\ Range(Keep(s, S)) = S
    BY RangeKeep
  <1>3. OpsOf(s) = {b.op : b \in Range(s)} /\ OpsOf(Keep(s, S)) = {b.op : b \in S}
    BY <1>2, OpsRange
  <1>4. ASSUME OpsApart(s) PROVE OpsApart(Keep(s, S))
    <2>1. Distinct(s)
      BY <1>4 DEF OpsApart
    <2>2. Distinct(Keep(s, S))
      <3> HIDE DEF S
      <3> QED
        BY <2>1, KeepDistinct
    <2> QED
      BY <1>2, <1>4, <2>2 DEF OpsApart
  <1> QED
    BY <1>1, <1>2, <1>3, <1>4

(***************************************************************************)
(* What the loop over the keys of an InsertMany does.                      *)
(***************************************************************************)

\* The accumulator of the loop.
Acc(inc, ready, all, fresh, status) ==
    [inc |-> inc, ready |-> ready, all |-> all, fresh |-> fresh, status |-> status]

\* Its fields.
LEMMA AccFields ==
  ASSUME NEW inc, NEW ready, NEW all, NEW fresh, NEW status
  PROVE  LET a == Acc(inc, ready, all, fresh, status)
         IN  /\ a.inc = inc /\ a.ready = ready /\ a.all = all /\ a.fresh = fresh
             /\ a.status = status
  BY DEF Acc

\* A new key, with nothing in it.
WithKey(inc, k, e) ==
    [x \in DOMAIN inc \cup {k} |-> IF x = k THEN [element |-> e, have |-> {}] ELSE inc[x]]

\* The accumulator with another value of one field.
LEMMA IncCase ==
  ASSUME NEW inc, NEW ready, NEW all, NEW fresh, NEW status, NEW f
  PROVE  [Acc(inc, ready, all, fresh, status) EXCEPT !.inc = f] = Acc(f, ready, all, fresh, status)
  BY DEF Acc

\* Another history.
LEMMA AllCase ==
  ASSUME NEW inc, NEW ready, NEW all, NEW fresh, NEW status, NEW u
  PROVE  [Acc(inc, ready, all, fresh, status) EXCEPT !.all = u] = Acc(inc, ready, u, fresh, status)
  BY DEF Acc

\* Another new_elements.
LEMMA FreshCase ==
  ASSUME NEW inc, NEW ready, NEW all, NEW fresh, NEW status, NEW v
  PROVE  [Acc(inc, ready, all, fresh, status) EXCEPT !.fresh = v] = Acc(inc, ready, all, v, status)
  BY DEF Acc

\* Another status.
LEMMA FailCase ==
  ASSUME NEW inc, NEW ready, NEW all, NEW fresh, NEW status, NEW s
  PROVE  [Acc(inc, ready, all, fresh, status) EXCEPT !.status = s] = Acc(inc, ready, all, fresh, s)
  BY DEF Acc

\* A tuple under its key.
TupleOK(x, k) == x \in [element : Element, have : SUBSET Component] /\ x.element.key = k
IncType(inc) == DOMAIN inc \subseteq Key /\ \A k \in DOMAIN inc : TupleOK(inc[k], k)
InInc(inc, e) == \E k \in DOMAIN inc : inc[k].element = e

\* Neither empty nor complete, except perhaps under key k.
Begun(x) == x.have # {} /\ x.have # Component
OthersBegun(inc, k) == \A x \in DOMAIN inc \ {k} : Begun(inc[x])
AllBegun(inc) == \A x \in DOMAIN inc : Begun(inc[x])

\* What holds after i keys: the tuples of incomplete_ and the new ones are in
\* incomplete_ or among the ready_tuples, not in both.
LoopOK(inc, ready, all, fresh, status, o, i) ==
    /\ IncType(inc)
    /\ ready \in Seq(Element) /\ \A e \in Range(ready) : e.key \in Range(Keys[o])
    /\ elements \subseteq all /\ all \subseteq Element
    /\ \A e \in all \ elements : e.by = o /\ e.index = input_index /\ e.pos <= i
    /\ fresh \in BOOLEAN /\ (all # elements => fresh)
    /\ status \in Status
    /\ \A e : InInc(inc, e) \/ e \in Range(ready) <=> InInc(incomplete, e) \/ e \in all \ elements
    /\ \A e : ~(InInc(inc, e) /\ e \in Range(ready))
LoopInv(acc, o, i) ==
    \E inc, ready, all, fresh, status :
        /\ acc = Acc(inc, ready, all, fresh, status)
        /\ LoopOK(inc, ready, all, fresh, status, o, i) /\ AllBegun(inc)

\* The element of a tuple tells its key.
LEMMA OneKey ==
  ASSUME NEW inc, IncType(inc), NEW k \in DOMAIN inc, NEW x \in DOMAIN inc,
         inc[k].element = inc[x].element
  PROVE  k = x
  BY DEF IncType, TupleOK

\* A key is erased.
LEMMA EraseFacts ==
  ASSUME NEW inc, IncType(inc), NEW k \in DOMAIN inc
  PROVE  /\ IncType(Erase(inc, k)) /\ inc[k].element \in Element
         /\ OthersBegun(inc, k) => AllBegun(Erase(inc, k))
         /\ \A e : InInc(inc, e) <=> InInc(Erase(inc, k), e) \/ e = inc[k].element
         /\ ~InInc(Erase(inc, k), inc[k].element)
  <1> DEFINE f == Erase(inc, k)
  <1>1. DOMAIN f = DOMAIN inc \ {k} /\ \A x \in DOMAIN f : f[x] = inc[x]
    BY DEF Erase
  <1> HIDE DEF f
  <1>2. IncType(f) /\ inc[k].element \in Element
    BY <1>1 DEF IncType, TupleOK
  <1>3. OthersBegun(inc, k) => AllBegun(f)
    BY <1>1 DEF OthersBegun, AllBegun
  <1>4. \A e : InInc(inc, e) <=> InInc(f, e) \/ e = inc[k].element
    BY <1>1 DEF InInc
  <1>5. ~InInc(f, inc[k].element)
    BY <1>1, OneKey DEF InInc
  <1> QED
    BY <1>2, <1>3, <1>4, <1>5 DEF f

\* A component is added.
LEMMA AddFacts ==
  ASSUME NEW inc, IncType(inc), NEW k \in DOMAIN inc, NEW c \in Component,
         inc[k].have \cup {c} # Component
  PROVE  LET f == [inc EXCEPT ![k].have = @ \cup {c}]
         IN  /\ IncType(f)
             /\ OthersBegun(inc, k) => AllBegun(f)
             /\ \A e : InInc(inc, e) <=> InInc(f, e)
  <1> DEFINE y == [inc[k] EXCEPT !.have = @ \cup {c}]
             f == [inc EXCEPT ![k].have = @ \cup {c}]
  <1>1. inc[k] \in [element : Element, have : SUBSET Component] /\ inc[k].element.key = k
    BY DEF IncType, TupleOK
  <1>2. inc[k].have \cup {c} \in SUBSET Component
    BY <1>1
  <1>3. /\ y \in [element : Element, have : SUBSET Component]
        /\ y.element = inc[k].element /\ y.have = inc[k].have \cup {c}
    BY <1>1, <1>2
  <1>4. DOMAIN f = DOMAIN inc /\ f[k] = y /\ \A x \in DOMAIN inc : x # k => f[x] = inc[x]
    OBVIOUS
  <1> HIDE DEF y, f
  <1>5. TupleOK(y, k) /\ Begun(y)
    BY <1>1, <1>3 DEF TupleOK, Begun
  <1>6. IncType(f)
    BY <1>4, <1>5 DEF IncType
  <1>7. OthersBegun(inc, k) => AllBegun(f)
    BY <1>4, <1>5 DEF OthersBegun, AllBegun
  <1>8. \A x \in DOMAIN inc : f[x].element = inc[x].element
    BY <1>3, <1>4
  <1>9. \A e : InInc(inc, e) <=> InInc(f, e)
    BY <1>4, <1>8 DEF InInc
  <1> QED
    BY <1>6, <1>7, <1>9 DEF f

\* A tuple is begun.
LEMMA WithKeyFacts ==
  ASSUME NEW inc, IncType(inc), NEW k \in Key, k \notin DOMAIN inc, NEW e \in Element, e.key = k
  PROVE  LET f == WithKey(inc, k, e)
         IN  /\ IncType(f) /\ k \in DOMAIN f /\ f[k].have = {} /\ f[k].element = e
             /\ AllBegun(inc) => OthersBegun(f, k)
             /\ \A x : InInc(f, x) <=> InInc(inc, x) \/ x = e
  <1> DEFINE f == WithKey(inc, k, e)
             y == [element |-> e, have |-> {}]
  <1>1. /\ DOMAIN f = DOMAIN inc \cup {k} /\ f[k] = y
        /\ \A x \in DOMAIN inc : f[x] = inc[x]
    BY DEF WithKey
  <1>2. TupleOK(y, k) /\ y.element = e /\ y.have = {}
    BY DEF TupleOK
  <1> HIDE DEF f, y
  <1>3. IncType(f)
    BY <1>1, <1>2 DEF IncType
  <1>4. AllBegun(inc) => OthersBegun(f, k)
    BY <1>1 DEF OthersBegun, AllBegun
  <1>5. \A x : InInc(f, x) <=> InInc(inc, x) \/ x = e
    BY <1>1, <1>2 DEF InInc
  <1> QED
    BY <1>1, <1>2, <1>3, <1>4, <1>5 DEF f

\* One more component for the tuple under k, which is not complete.
LEMMA FillStep ==
  ASSUME NEW inc, NEW ready, NEW all, NEW fresh, NEW status, NEW o \in Inserter, NEW i,
         LoopOK(inc, ready, all, fresh, status, o, i),
         NEW k \in DOMAIN inc, k \in Range(Keys[o]), OthersBegun(inc, k),
         inc[k].have # Component, NEW c \in Component
  PROVE  LoopInv(Fill(Acc(inc, ready, all, fresh, status), k, c), o, i)
  <1> DEFINE r == Fill(Acc(inc, ready, all, fresh, status), k, c)
  <1>0. IncType(inc)
    BY DEF LoopOK
  <1>1. CASE c \in inc[k].have /\ r = Acc(inc, ready, all, fresh, "InvalidArgument")
    <2>1. AllBegun(inc)
      BY <1>1 DEF OthersBegun, AllBegun, Begun
    <2>2. LoopOK(inc, ready, all, fresh, "InvalidArgument", o, i)
      <3>1. "InvalidArgument" \in Status
        BY DEF Status
      <3> QED
        BY <3>1 DEF LoopOK
    <2> QED
      BY <1>1, <2>1, <2>2 DEF LoopInv
  <1>2. CASE r = Acc(Erase(inc, k), Append(ready, inc[k].element), all, fresh, status)
    <2> DEFINE f == Erase(inc, k)
               x == inc[k].element
               s == Append(ready, x)
    <2>1. /\ IncType(f) /\ x \in Element /\ AllBegun(f)
          /\ \A e : InInc(inc, e) <=> InInc(f, e) \/ e = x
          /\ ~InInc(f, x)
      BY <1>0, EraseFacts
    <2>2. x.key = k
      BY <1>0 DEF IncType, TupleOK
    <2>3. s \in Seq(Element) /\ Range(s) = Range(ready) \cup {x}
      BY <2>1, RangeAppend DEF LoopOK
    <2> HIDE DEF f, x, s
    <2>4. InInc(inc, x)
      BY <2>1
    <2>5. LoopOK(f, s, all, fresh, status, o, i)
      BY <2>1, <2>2, <2>3, <2>4 DEF LoopOK
    <2> QED
      BY <1>2, <2>1, <2>5 DEF LoopInv, f, s, x
  <1>3. CASE /\ inc[k].have \cup {c} # Component
             /\ r = Acc([inc EXCEPT ![k].have = @ \cup {c}], ready, all, fresh, status)
    <2> DEFINE f == [inc EXCEPT ![k].have = @ \cup {c}]
    <2>1. IncType(f) /\ AllBegun(f) /\ \A e : InInc(inc, e) <=> InInc(f, e)
      BY <1>0, <1>3, AddFacts
    <2> HIDE DEF f
    <2>2. LoopOK(f, ready, all, fresh, status, o, i)
      BY <2>1 DEF LoopOK
    <2> QED
      BY <1>3, <2>1, <2>2 DEF LoopInv, f
  <1> HIDE DEF r
  <1>4. \/ c \in inc[k].have /\ r = Acc(inc, ready, all, fresh, "InvalidArgument")
        \/ /\ inc[k].have \cup {c} = Component
           /\ r = Acc(Erase(inc, k), Append(ready, inc[k].element), all, fresh, status)
        \/ /\ inc[k].have \cup {c} # Component
           /\ r = Acc([inc EXCEPT ![k].have = @ \cup {c}], ready, all, fresh, status)
    BY DEF r, Fill, Acc
  <1> QED
    BY <1>1, <1>2, <1>3, <1>4 DEF r

\* What the loop needs of the state: incomplete_ holds known tuples, and none
\* of the tuples is of an InsertMany that has not been called.
TupleInv ==
    /\ IncompleteIsIncomplete
    /\ \A k \in DOMAIN incomplete : incomplete[k].element \in elements
    /\ \A e \in elements : Called(e.by)

\* One key.
LEMMA KeyStep ==
  ASSUME BarrierAssumption, TypeOKTuples, TupleInv, NEW o \in Inserter, ~Called(o),
         NEW i \in Nat, i + 1 \in 1..Len(Keys[o]), NEW acc, LoopInv(acc, o, i)
  PROVE  LoopInv(InsertOneLocked(acc, o, i + 1), o, i + 1)
  <1>1. PICK inc, ready, all, fresh, status :
          /\ acc = Acc(inc, ready, all, fresh, status)
          /\ LoopOK(inc, ready, all, fresh, status, o, i) /\ AllBegun(inc)
    BY DEF LoopInv
  <1>2. acc.status = status /\ acc.inc = inc
    BY <1>1, AccFields
  <1>3. LoopOK(inc, ready, all, fresh, status, o, i + 1)
    <2>1. \A e \in all \ elements : e.pos \in Nat /\ e.pos <= i => e.pos <= i + 1
      OBVIOUS
    <2>2. \A e \in all \ elements : e.pos \in Nat
      BY <1>1 DEF LoopOK, Element
    <2> QED
      BY <1>1, <2>1, <2>2 DEF LoopOK
  <1> DEFINE k == Keys[o][i + 1]
             e == [key |-> k, by |-> o, pos |-> i + 1, index |-> input_index]
             c == Comp[o]
  <1>4. k \in Range(Keys[o]) /\ k \in Key /\ c \in Component
    <2>1. Keys[o] \in Seq(Key) /\ c \in Component
      BY DEF BarrierAssumption
    <2> QED
      BY <2>1, RangeSeq
  <1>5. InsertOneLocked(acc, o, i + 1) =
          IF acc.status # "ok" THEN acc
          ELSE IF k \in DOMAIN acc.inc THEN Fill(acc, k, c)
          ELSE IF closed THEN [acc EXCEPT !.status = "Cancelled"]
          ELSE Fill(NewKey(acc, k, e), k, c)
    BY DEF InsertOneLocked
  <1>6. e \in Element /\ e.key = k /\ e.by = o /\ e.index = input_index /\ e.pos = i + 1
    BY <1>4 DEF Element, TypeOKTuples
  <1> HIDE DEF k, e, c
  <1>7. CASE acc.status # "ok"
    BY <1>1, <1>3, <1>5, <1>7 DEF LoopInv
  <1>8. CASE acc.status = "ok" /\ k \in DOMAIN inc
    <2>1. OthersBegun(inc, k) /\ inc[k].have # Component
      BY <1>1, <1>8 DEF AllBegun, OthersBegun, Begun
    <2>2. LoopInv(Fill(Acc(inc, ready, all, fresh, status), k, c), o, i + 1)
      BY <1>3, <1>4, <1>8, <2>1, FillStep
    <2> QED
      BY <1>1, <1>2, <1>5, <1>8, <2>2
  <1>9. CASE acc.status = "ok" /\ k \notin DOMAIN inc /\ closed
    <2>1. [acc EXCEPT !.status = "Cancelled"] = Acc(inc, ready, all, fresh, "Cancelled")
      BY <1>1, FailCase
    <2>2. LoopOK(inc, ready, all, fresh, "Cancelled", o, i + 1)
      <3>1. "Cancelled" \in Status
        BY DEF Status
      <3> QED
        BY <3>1, <1>3 DEF LoopOK
    <2>3. LoopInv(Acc(inc, ready, all, fresh, "Cancelled"), o, i + 1)
      BY <1>1, <2>2 DEF LoopInv
    <2> QED
      BY <1>2, <1>5, <1>9, <2>1, <2>3
  <1>10. CASE acc.status = "ok" /\ k \notin DOMAIN inc /\ ~closed
    <2> DEFINE f == WithKey(inc, k, e)
               u == all \cup {e}
               v == TRUE
    <2>1. e \notin all
      <3>1. e \notin elements
        BY <1>6 DEF TupleInv
      <3>2. ~(e.pos <= i)
        BY <1>6
      <3> QED
        BY <3>1, <3>2, <1>1 DEF LoopOK
    <2>2. ~InInc(inc, e) /\ e \notin Range(ready)
      <3>1. ~InInc(incomplete, e)
        BY <2>1, <1>1 DEF InInc, TupleInv, LoopOK
      <3> QED
        BY <3>1, <2>1, <1>1 DEF LoopOK
    <2>3. /\ IncType(f) /\ k \in DOMAIN f /\ f[k].have = {} /\ f[k].element = e
          /\ OthersBegun(f, k)
          /\ \A x : InInc(f, x) <=> InInc(inc, x) \/ x = e
      <3>1. IncType(inc) /\ AllBegun(inc)
        BY <1>1 DEF LoopOK
      <3> QED
        BY <3>1, <1>4, <1>6, <1>10, WithKeyFacts
    <2>4. elements \subseteq u /\ u \subseteq Element /\ u \ elements = (all \ elements) \cup {e}
      <3>1. elements \subseteq all /\ all \subseteq Element
        BY <1>1 DEF LoopOK
      <3> QED
        BY <3>1, <2>1, <1>6
    <2> HIDE DEF f, u, v
    <2>5. \A x \in u \ elements : x.by = o /\ x.index = input_index /\ x.pos <= i + 1
      <3>1. i + 1 <= i + 1
        OBVIOUS
      <3> QED
        BY <3>1, <2>4, <1>3, <1>6 DEF LoopOK
    <2>6. LoopOK(f, ready, u, v, status, o, i + 1)
      <3>1. IncType(f) /\ elements \subseteq u /\ u \subseteq Element
        BY <2>3, <2>4
      <3>2. \A x : InInc(f, x) \/ x \in Range(ready) <=> InInc(incomplete, x) \/ x \in u \ elements
        BY <2>3, <2>4, <1>3 DEF LoopOK
      <3>3. \A x : ~(InInc(f, x) /\ x \in Range(ready))
        BY <2>2, <2>3, <1>3 DEF LoopOK
      <3> QED
        BY <3>1, <3>2, <3>3, <2>5, <1>3 DEF LoopOK, v
    <2>7. LoopInv(Fill(Acc(f, ready, u, v, status), k, c), o, i + 1)
      <3>1. f[k].have # Component
        BY <2>3, <1>4
      <3> QED
        BY <3>1, <2>3, <2>6, <1>4, FillStep
    <2>8. NewKey(acc, k, e) = Acc(f, ready, u, v, status)
      <3> DEFINE g == [x \in DOMAIN acc.inc \cup {k} |->
                         IF x = k THEN [element |-> e, have |-> {}] ELSE acc.inc[x]]
                 w == acc.all \cup {e}
      <3>1. NewKey(acc, k, e) = [acc EXCEPT !.inc = g, !.all = w, !.fresh = v]
        BY Zenon DEF NewKey, v
      <3>2. acc.inc = inc /\ acc.all = all
        BY <1>1, AccFields
      <3>3. g = f /\ w = u
        BY <3>2, Zenon DEF f, u, WithKey
      <3> HIDE DEF g, w
      <3>4. NewKey(acc, k, e) = [acc EXCEPT !.inc = f, !.all = u, !.fresh = v]
        BY <3>1, <3>3, Zenon
      <3>5. [Acc(inc, ready, all, fresh, status) EXCEPT !.inc = f, !.all = u, !.fresh = v]
              = Acc(f, ready, u, v, status)
        <4> DEFINE a == Acc(inc, ready, all, fresh, status)
        <4>1. [a EXCEPT !.inc = f] = Acc(f, ready, all, fresh, status)
          BY IncCase
        <4>2. [Acc(f, ready, all, fresh, status) EXCEPT !.all = u]
                = Acc(f, ready, u, fresh, status)
          BY AllCase
        <4>3. [Acc(f, ready, u, fresh, status) EXCEPT !.fresh = v] = Acc(f, ready, u, v, status)
          BY FreshCase
        <4>4. [a EXCEPT !.inc = f, !.all = u, !.fresh = v]
                = [[[a EXCEPT !.inc = f] EXCEPT !.all = u] EXCEPT !.fresh = v]
          BY DEF Acc
        <4> QED
          BY <4>1, <4>2, <4>3, <4>4, Zenon
      <3> QED
        BY <3>4, <3>5, <1>1, Zenon
    <2> QED
      BY <1>2, <1>5, <1>10, <2>7, <2>8
  <1> QED
    BY <1>2, <1>7, <1>8, <1>9, <1>10

\* One step of InsertAll's recursion, and the table of the first n.
Start == Acc(incomplete, <<>>, elements, FALSE, "ok")
KeyEntry(f, o, i) == IF i = 0 THEN Start ELSE InsertOneLocked(f[i - 1], o, i)
KeyTable(f, o, n) == f = [i \in 0..n |-> KeyEntry(f, o, i)]

\* There is a table of every length.
LEMMA KeyTableExists ==
  ASSUME NEW o, NEW n \in Nat
  PROVE  \E f : KeyTable(f, o, n)
  <1> DEFINE T == {m \in Nat : \E f : KeyTable(f, o, m)}
  <1>1. 0 \in T
    <2>1. KeyTable([i \in 0..0 |-> Start], o, 0)
      BY DEF KeyTable, KeyEntry
    <2> QED
      BY <2>1
  <1>2. ASSUME NEW m \in Nat, m \in T PROVE m + 1 \in T
    <2>1. PICK f : KeyTable(f, o, m)
      BY <1>2
    <2> DEFINE g == [i \in 0..(m + 1) |-> IF i = m + 1 THEN KeyEntry(f, o, m + 1) ELSE f[i]]
    <2>2. \A i \in 0..(m + 1) : i # 0 => i - 1 \in 0..m /\ i - 1 # m + 1 /\ i - 1 \in 0..(m + 1)
      OBVIOUS
    <2>3. \A i \in 0..m : g[i] = f[i]
      OBVIOUS
    <2>4. \A i \in 0..(m + 1) : KeyEntry(g, o, i) = KeyEntry(f, o, i)
      BY <2>2, <2>3 DEF KeyEntry
    <2>5. \A i \in 0..m : f[i] = KeyEntry(f, o, i)
      BY <2>1 DEF KeyTable
    <2>6. \A i \in 0..(m + 1) : i = m + 1 \/ i \in 0..m
      OBVIOUS
    <2>7. \A i \in 0..(m + 1) : g[i] = KeyEntry(g, o, i)
      BY <2>3, <2>4, <2>5, <2>6
    <2>8. g = [i \in 0..(m + 1) |-> g[i]]
      OBVIOUS
    <2> HIDE DEF g
    <2>9. g = [i \in 0..(m + 1) |-> KeyEntry(g, o, i)]
      BY <2>7, <2>8
    <2> QED
      BY <2>9 DEF KeyTable
  <1> HIDE DEF T
  <1>3. Nat \subseteq T
    BY <1>1, <1>2, Induction
  <1> QED
    BY <1>3 DEF T

\* InsertAll reads the last entry of such a table.
LEMMA InsertAllTable ==
  ASSUME NEW o, Len(Keys[o]) \in Nat
  PROVE  \E f : KeyTable(f, o, Len(Keys[o])) /\ InsertAll(o) = f[Len(Keys[o])]
  <1> DEFINE f == CHOOSE k : k = [i \in 0..Len(Keys[o]) |->
                     IF i = 0 THEN [inc |-> incomplete, ready |-> <<>>, all |-> elements,
                                    fresh |-> FALSE, status |-> "ok"]
                     ELSE InsertOneLocked(k[i - 1], o, i)]
  <1>1. InsertAll(o) = f[Len(Keys[o])]
    BY DEF InsertAll
  <1>2. \E k : k = [i \in 0..Len(Keys[o]) |->
                     IF i = 0 THEN [inc |-> incomplete, ready |-> <<>>, all |-> elements,
                                    fresh |-> FALSE, status |-> "ok"]
                     ELSE InsertOneLocked(k[i - 1], o, i)]
    <2>1. PICK k : KeyTable(k, o, Len(Keys[o]))
      BY KeyTableExists
    <2> QED
      BY <2>1, Zenon DEF KeyTable, KeyEntry, Start, Acc
  <1>3. f = [i \in 0..Len(Keys[o]) |->
                     IF i = 0 THEN [inc |-> incomplete, ready |-> <<>>, all |-> elements,
                                    fresh |-> FALSE, status |-> "ok"]
                     ELSE InsertOneLocked(f[i - 1], o, i)]
    BY <1>2, Zenon
  <1> HIDE DEF f
  <1>4. KeyTable(f, o, Len(Keys[o]))
    BY <1>3, Zenon DEF KeyTable, KeyEntry, Start, Acc
  <1> QED
    BY <1>1, <1>4

\* What InsertAll leaves behind.
LEMMA InsertAllFacts ==
  ASSUME BarrierAssumption, TypeOKTuples, TupleInv, NEW o \in Inserter, ~Called(o)
  PROVE  LoopInv(InsertAll(o), o, Len(Keys[o]))
  <1> DEFINE n == Len(Keys[o])
  <1>1. n \in Nat
    BY DEF BarrierAssumption
  <1> HIDE DEF n
  <1>2. PICK f : KeyTable(f, o, n) /\ InsertAll(o) = f[n]
    BY <1>1, InsertAllTable DEF n
  <1>3. \A i \in 0..n : f[i] = KeyEntry(f, o, i)
    BY <1>2 DEF KeyTable
  <1> DEFINE T == {i \in Nat : i <= n => LoopInv(f[i], o, i)}
  <1>4. 0 \in T
    <2>1. f[0] = Start
      BY <1>1, <1>3 DEF KeyEntry
    <2>2. IncType(incomplete) /\ AllBegun(incomplete)
      BY DEF TypeOKTuples, TupleInv, IncompleteIsIncomplete, IncType, AllBegun, TupleOK, Begun
    <2>3. <<>> \in Seq(Element) /\ Range(<<>>) = {}
      BY RangeEmpty
    <2>4. elements \subseteq Element
      BY DEF TypeOKTuples
    <2>5. "ok" \in Status
      BY DEF Status
    <2>6. LoopOK(incomplete, <<>>, elements, FALSE, "ok", o, 0)
      BY <2>2, <2>3, <2>4, <2>5 DEF LoopOK
    <2>7. LoopInv(Start, o, 0)
      BY <2>2, <2>6 DEF LoopInv, Start
    <2> QED
      BY <2>1, <2>7
  <1>5. ASSUME NEW i \in Nat, i \in T PROVE i + 1 \in T
    <2> SUFFICES ASSUME i + 1 <= n PROVE LoopInv(f[i + 1], o, i + 1)
      OBVIOUS
    <2>1. i <= n /\ i + 1 \in 1..n /\ i + 1 \in 0..n /\ i + 1 # 0 /\ (i + 1) - 1 = i
      BY <1>1
    <2>2. f[i + 1] = InsertOneLocked(f[i], o, i + 1)
      BY <1>3, <2>1 DEF KeyEntry
    <2>3. LoopInv(f[i], o, i)
      BY <1>5, <2>1
    <2>4. LoopInv(InsertOneLocked(f[i], o, i + 1), o, i + 1)
      BY <2>1, <2>3, KeyStep DEF n
    <2> QED
      BY <2>2, <2>4
  <1> HIDE DEF T
  <1>6. Nat \subseteq T
    BY <1>4, <1>5, Induction
  <1>7. n <= n
    BY <1>1
  <1> QED
    BY <1>1, <1>2, <1>6, <1>7 DEF T, n

(***************************************************************************)
(* The steps of Next, with the alternatives of an action as steps of their *)
(* own.                                                                    *)
(***************************************************************************)

\* The call ends with an error.
Ends(o) ==
    /\ o \in Op
    /\ pc[o] \in {"idle", "append"}
    /\ \E s \in Status \ {"ok"} : st' = [st EXCEPT ![o] = s]
    /\ pc' = [pc EXCEPT ![o] = "returned"]
    /\ done' = [done EXCEPT ![o] = @ + 1]
    /\ UNCHANGED <<queue, queue_is_closed, enq, deq, queue_mu, clean_up, got, incomplete,
                   input_index, elements, closed, queue_closed, queue_cancelled,
                   cancel_pending_enqueues, mu, batch, num, cancelled>>

\* The loop over the keys has failed, or completed nothing.
InsertEnds(o) ==
    /\ o \in Inserter
    /\ pc[o] = "idle"
    /\ incomplete' = InsertAll(o).inc /\ elements' = InsertAll(o).all
    /\ input_index' = NextIndex(InsertAll(o))
    /\ InsertAll(o).status = "ok" => InsertAll(o).ready = <<>>
    /\ st' = [st EXCEPT ![o] = InsertAll(o).status]
    /\ pc' = [pc EXCEPT ![o] = "returned"]
    /\ done' = [done EXCEPT ![o] = @ + 1]
    /\ UNCHANGED <<queue, queue_is_closed, enq, deq, queue_mu, clean_up, got, closed,
                   queue_closed, queue_cancelled, cancel_pending_enqueues, mu, batch, num,
                   cancelled>>

\* It has completed tuples.
InsertReady(o) ==
    /\ o \in Inserter
    /\ pc[o] = "idle"
    /\ incomplete' = InsertAll(o).inc /\ elements' = InsertAll(o).all
    /\ input_index' = NextIndex(InsertAll(o))
    /\ InsertAll(o).status = "ok" /\ InsertAll(o).ready # <<>>
    /\ batch' = [batch EXCEPT ![o] = InsertAll(o).ready]
    /\ pc' = [pc EXCEPT ![o] = "append"]
    /\ UNCHANGED <<queue, queue_is_closed, enq, deq, queue_mu, clean_up, st, got, closed,
                   queue_closed, queue_cancelled, cancel_pending_enqueues, mu, num,
                   cancelled, done>>

\* A TakeMany may wait.
TakeStarts(o) ==
    /\ o \in Taker
    /\ pc[o] = "idle"
    /\ closed => ~(AvailableElements(o) < Required(o))
    /\ num' = [num EXCEPT ![o] = Deliver(o)]
    /\ pc' = [pc EXCEPT ![o] = "append"]
    /\ UNCHANGED <<queue, queue_is_closed, enq, deq, queue_mu, clean_up, st, got,
                   incomplete, input_index, elements, closed, queue_closed,
                   queue_cancelled, cancel_pending_enqueues, mu, batch, cancelled, done>>

\* A Close that closes the queue.
CloseBegins(o) ==
    /\ o \in Closer
    /\ pc[o] = "idle" /\ mu = Nobody
    /\ ~AlreadyClosed(o \in CancelCloser)
    /\ closed' = TRUE /\ queue_cancelled' = (queue_cancelled \/ o \in CancelCloser)
    /\ queue_closed' \in BOOLEAN /\ cancel_pending_enqueues' \in BOOLEAN
    /\ incomplete' = Cleared(o \in CancelCloser \/ DOMAIN incomplete = {})
    /\ ~queue_is_closed
    /\ mu' = o
    /\ pc' = [pc EXCEPT ![o] = "close"]
    /\ UNCHANGED <<queue, queue_is_closed, enq, deq, queue_mu, clean_up, st, got,
                   input_index, elements, batch, num, cancelled, done>>

\* One that does not.
CloseEnds(o) ==
    /\ o \in Closer
    /\ pc[o] = "idle" /\ mu = Nobody
    /\ ~AlreadyClosed(o \in CancelCloser)
    /\ closed' = TRUE /\ queue_cancelled' = (queue_cancelled \/ o \in CancelCloser)
    /\ queue_closed' \in BOOLEAN /\ cancel_pending_enqueues' \in BOOLEAN
    /\ incomplete' = Cleared(o \in CancelCloser \/ DOMAIN incomplete = {})
    /\ pc' = [pc EXCEPT ![o] = "returned"]
    /\ done' = [done EXCEPT ![o] = @ + 1]
    /\ UNCHANGED <<queue, queue_is_closed, enq, deq, queue_mu, clean_up, st, got,
                   input_index, elements, mu, batch, num, cancelled>>

\* One that finds that the queue is closed.
CloseForgets(o) ==
    /\ o \in Closer
    /\ pc[o] = "idle" /\ mu = Nobody
    /\ ~AlreadyClosed(o \in CancelCloser)
    /\ closed' = TRUE /\ queue_cancelled' = (queue_cancelled \/ o \in CancelCloser)
    /\ queue_closed' \in BOOLEAN /\ cancel_pending_enqueues' \in BOOLEAN
    /\ incomplete' = Cleared(o \in CancelCloser \/ DOMAIN incomplete = {})
    /\ queue_is_closed /\ (o \in CancelCloser => ~queue_cancelled)
    /\ pc' = [pc EXCEPT ![o] = "returned"]
    /\ UNCHANGED <<queue, queue_is_closed, enq, deq, queue_mu, clean_up, st, got,
                   input_index, elements, mu, batch, num, cancelled, done>>

\* An attempt takes its place.
AppendEnqueue(o) ==
    /\ o \in Inserter
    /\ pc[o] = "append" /\ queue_mu = Nobody
    /\ enq' = Append(enq, [op |-> o, batch |-> batch[o], close |-> FALSE])
    /\ batch' = [batch EXCEPT ![o] = <<>>]
    /\ pc' = [pc EXCEPT ![o] = "flush"]
    /\ UNCHANGED <<queue, queue_is_closed, deq, queue_mu, clean_up, st, got, incomplete,
                   input_index, elements, closed, queue_closed, queue_cancelled,
                   cancel_pending_enqueues, mu, num, cancelled, done>>

AppendDequeue(o) ==
    /\ o \in Taker
    /\ pc[o] = "append" /\ queue_mu = Nobody
    /\ deq' = Append(deq, [op |-> o, requested |-> num[o], tuple |-> <<>>])
    /\ pc' = [pc EXCEPT ![o] = "flush"]
    /\ UNCHANGED <<queue, queue_is_closed, enq, queue_mu, clean_up, st, got, incomplete,
                   input_index, elements, closed, queue_closed, queue_cancelled,
                   cancel_pending_enqueues, mu, batch, num, cancelled, done>>

AppendClose(o) ==
    /\ o \in Closer \ CancelCloser
    /\ pc[o] = "close" /\ queue_mu = Nobody
    /\ enq' = Append(enq, [op |-> o, batch |-> <<>>, close |-> TRUE])
    /\ pc' = [pc EXCEPT ![o] = "flush"]
    /\ UNCHANGED <<queue, queue_is_closed, deq, queue_mu, clean_up, st, got, incomplete,
                   input_index, elements, closed, queue_closed, queue_cancelled,
                   cancel_pending_enqueues, mu, batch, num, cancelled, done>>

\* The queue is closed, and its enqueues are cancelled.
CancelEnqueues(o) ==
    /\ o \in CancelCloser
    /\ pc[o] = "close" /\ queue_mu = Nobody
    /\ queue_is_closed' = TRUE /\ enq' = <<>>
    /\ st' = [x \in Thread |-> IF x \in OpsOf(enq) THEN "Cancelled" ELSE st[x]]
    /\ done' = [x \in Op |-> IF x \in OpsOf(enq) THEN done[x] + 1 ELSE done[x]]
    /\ pc' = [pc EXCEPT ![o] = "flush"]
    /\ UNCHANGED <<queue, deq, queue_mu, clean_up, got, incomplete, input_index, elements,
                   closed, queue_closed, queue_cancelled, cancel_pending_enqueues, mu,
                   batch, num, cancelled>>

\* FlushUnlocked: the lock, the attempts and the callbacks.
Lock(t) ==
    /\ t \in Thread
    /\ pc[t] = "flush" /\ queue_mu = Nobody
    /\ queue_mu' = t
    /\ pc' = [pc EXCEPT ![t] = "flushing"]
    /\ UNCHANGED <<queue, queue_is_closed, enq, deq, clean_up, st, got, incomplete,
                   input_index, elements, closed, queue_closed, queue_cancelled,
                   cancel_pending_enqueues, mu, batch, num, cancelled, done>>

RefuseEnqueue(t) ==
    /\ t \in Thread
    /\ queue_mu = t /\ enq # <<>> /\ queue_is_closed
    /\ st' = [st EXCEPT ![Head(enq).op] = "Cancelled"]
    /\ clean_up' = [clean_up EXCEPT ![t] = Append(@, Head(enq).op)]
    /\ enq' = Tail(enq)
    /\ UNCHANGED <<queue, queue_is_closed, deq, queue_mu, got, incomplete, input_index,
                   elements, closed, queue_closed, queue_cancelled,
                   cancel_pending_enqueues, mu, pc, batch, num, cancelled, done>>

RunEnqueue(t) ==
    /\ t \in Thread
    /\ queue_mu = t /\ enq # <<>> /\ ~queue_is_closed
    /\ queue' = queue \cup Range(Head(enq).batch)
    /\ queue_is_closed' = Head(enq).close
    /\ clean_up' = [clean_up EXCEPT ![t] = Append(@, Head(enq).op)]
    /\ enq' = Tail(enq)
    /\ UNCHANGED <<deq, queue_mu, st, got, incomplete, input_index, elements, closed,
                   queue_closed, queue_cancelled, cancel_pending_enqueues, mu, pc, batch,
                   num, cancelled, done>>

FailDequeue(t) ==
    /\ t \in Thread
    /\ queue_mu = t /\ enq = <<>> /\ deq # <<>> /\ Insufficient(Head(deq))
    /\ st' = [st EXCEPT ![Head(deq).op] = "OutOfRange"]
    /\ clean_up' = [clean_up EXCEPT ![t] = Append(@, Head(deq).op)]
    /\ deq' = Tail(deq)
    /\ UNCHANGED <<queue, queue_is_closed, enq, queue_mu, got, incomplete, input_index,
                   elements, closed, queue_closed, queue_cancelled,
                   cancel_pending_enqueues, mu, pc, batch, num, cancelled, done>>

RunDequeue(t) ==
    /\ t \in Thread
    /\ queue_mu = t /\ enq = <<>> /\ deq # <<>>
    /\ ~Insufficient(Head(deq)) /\ Cardinality(queue) >= Head(deq).requested
    /\ \E s \in Batches(Head(deq).requested) :
         /\ queue' = queue \ Range(s)
         /\ got' = [got EXCEPT ![Head(deq).op] = Head(deq).tuple \o s]
    /\ clean_up' = [clean_up EXCEPT ![t] = Append(@, Head(deq).op)]
    /\ deq' = Tail(deq)
    /\ UNCHANGED <<queue_is_closed, enq, queue_mu, st, incomplete, input_index, elements,
                   closed, queue_closed, queue_cancelled, cancel_pending_enqueues, mu, pc,
                   batch, num, cancelled, done>>

RunDequeuePartly(t) ==
    /\ t \in Thread
    /\ queue_mu = t /\ enq = <<>> /\ deq # <<>>
    /\ ~Insufficient(Head(deq)) /\ ~HasToWait(Head(deq))
    /\ Cardinality(queue) < Head(deq).requested
    /\ \E s \in Batches(Cardinality(queue)) :
         /\ queue' = queue \ Range(s)
         /\ deq' = <<[Head(deq) EXCEPT !.requested = @ - Cardinality(queue), !.tuple = @ \o s]>>
                     \o Tail(deq)
    /\ UNCHANGED <<queue_is_closed, enq, queue_mu, clean_up, st, got, incomplete,
                   input_index, elements, closed, queue_closed, queue_cancelled,
                   cancel_pending_enqueues, mu, pc, batch, num, cancelled, done>>

Unlock(t) ==
    /\ t \in Thread
    /\ pc[t] = "flushing" /\ queue_mu = t /\ enq = <<>>
    /\ deq # <<>> => ~Insufficient(Head(deq)) /\ HasToWait(Head(deq))
    /\ queue_mu' = Nobody
    /\ pc' = [pc EXCEPT ![t] = "cleanup"]
    /\ UNCHANGED <<queue, queue_is_closed, enq, deq, clean_up, st, got, incomplete,
                   input_index, elements, closed, queue_closed, queue_cancelled,
                   cancel_pending_enqueues, mu, batch, num, cancelled, done>>

Callback(t) ==
    /\ t \in Thread
    /\ pc[t] = "cleanup" /\ clean_up[t] # <<>>
    /\ done' = [done EXCEPT ![Head(clean_up[t])] = @ + 1]
    /\ clean_up' = [clean_up EXCEPT ![t] = Tail(@)]
    /\ UNCHANGED <<queue, queue_is_closed, enq, deq, queue_mu, st, got, incomplete,
                   input_index, elements, closed, queue_closed, queue_cancelled,
                   cancel_pending_enqueues, mu, pc, batch, num, cancelled>>

Return(t) ==
    /\ t \in Thread \ CancelCloser
    /\ pc[t] = "cleanup" /\ clean_up[t] = <<>>
    /\ mu' = IF mu = t THEN Nobody ELSE mu
    /\ pc' = [pc EXCEPT ![t] = "returned"]
    /\ UNCHANGED <<queue, queue_is_closed, enq, deq, queue_mu, clean_up, st, got,
                   incomplete, input_index, elements, closed, queue_closed,
                   queue_cancelled, cancel_pending_enqueues, batch, num, cancelled, done>>

ReturnOfClose(t) ==
    /\ t \in CancelCloser
    /\ pc[t] = "cleanup" /\ clean_up[t] = <<>>
    /\ mu' = IF mu = t THEN Nobody ELSE mu
    /\ done' = [done EXCEPT ![t] = @ + 1]
    /\ pc' = [pc EXCEPT ![t] = "returned"]
    /\ UNCHANGED <<queue, queue_is_closed, enq, deq, queue_mu, clean_up, st, got,
                   incomplete, input_index, elements, closed, queue_closed,
                   queue_cancelled, cancel_pending_enqueues, batch, num, cancelled>>

\* Cancellation of a step, with and without an attempt to remove.
CancelAttempt(c) ==
    /\ c \in Canceller
    /\ pc[c] = "idle" /\ queue_mu = Nobody
    /\ cancelled' = cancelled \cup {Victim[c]}
    /\ Victim[c] \in OpsOf(enq) \cup OpsOf(deq)
    /\ enq' = Without(enq, Victim[c]) /\ deq' = Without(deq, Victim[c])
    /\ st' = [st EXCEPT ![Victim[c]] = "Cancelled"]
    /\ done' = [done EXCEPT ![Victim[c]] = @ + 1]
    /\ pc' = [pc EXCEPT ![c] = "flush"]
    /\ UNCHANGED <<queue, queue_is_closed, queue_mu, clean_up, got, incomplete,
                   input_index, elements, closed, queue_closed, queue_cancelled,
                   cancel_pending_enqueues, mu, batch, num>>

CancelNothing(c) ==
    /\ c \in Canceller
    /\ pc[c] = "idle"
    /\ cancelled' = cancelled \cup {Victim[c]}
    /\ pc' = [pc EXCEPT ![c] = "returned"]
    /\ UNCHANGED <<queue, queue_is_closed, enq, deq, queue_mu, clean_up, st, got,
                   incomplete, input_index, elements, closed, queue_closed,
                   queue_cancelled, cancel_pending_enqueues, mu, batch, num, done>>

\* One of them.
OneStep ==
    \/ \E o \in Op : Ends(o)
    \/ \E o \in Inserter : InsertEnds(o)
    \/ \E o \in Inserter : InsertReady(o)
    \/ \E o \in Taker : TakeStarts(o)
    \/ \E o \in Closer : CloseBegins(o)
    \/ \E o \in Closer : CloseEnds(o)
    \/ \E o \in Closer : CloseForgets(o)
    \/ \E o \in Inserter : AppendEnqueue(o)
    \/ \E o \in Taker : AppendDequeue(o)
    \/ \E o \in Closer \ CancelCloser : AppendClose(o)
    \/ \E o \in CancelCloser : CancelEnqueues(o)
    \/ \E t \in Thread : Lock(t)
    \/ \E t \in Thread : RefuseEnqueue(t)
    \/ \E t \in Thread : RunEnqueue(t)
    \/ \E t \in Thread : FailDequeue(t)
    \/ \E t \in Thread : RunDequeue(t)
    \/ \E t \in Thread : RunDequeuePartly(t)
    \/ \E t \in Thread : Unlock(t)
    \/ \E t \in Thread : Callback(t)
    \/ \E t \in Thread \ CancelCloser : Return(t)
    \/ \E t \in CancelCloser : ReturnOfClose(t)
    \/ \E c \in Canceller : CancelAttempt(c)
    \/ \E c \in Canceller : CancelNothing(c)

\* What the steps may assume: the types, and that the queue is finite.
QueueOK == TypeOKAttempts /\ TypeOKOps /\ IsFiniteSet(queue)

\* Every step of Next is one of them.
LEMMA StepCases == BarrierAssumption /\ QueueOK /\ [Next]_vars => OneStep \/ UNCHANGED vars
  <1> SUFFICES ASSUME BarrierAssumption, QueueOK, [Next]_vars PROVE OneStep \/ UNCHANGED vars
    OBVIOUS
  <1>0. "Cancelled" \in Status \ {"ok"} /\ "OutOfRange" \in Status \ {"ok"}
    BY DEF Status
  <1>1. ASSUME NEW o \in Op, TryInsertMany(o) PROVE OneStep
    <2>1. CASE InsertRefused(o)
      <3>1. Ends(o)
        BY <1>0, <1>1, <2>1 DEF TryInsertMany, FinishWith, SetStatus, Finish, QueueRest, flagVars, Ends
      <3> QED
        BY <3>1 DEF OneStep
    <2>2. CASE ~InsertRefused(o) /\ InsertAll(o).status = "ok" /\ InsertAll(o).ready # <<>>
      <3>1. InsertReady(o) /\ o \in Inserter
        BY <1>1, <2>2 DEF TryInsertMany, Inserted, QueueRest, flagVars, InsertReady
      <3> QED
        BY <3>1 DEF OneStep
    <2>3. CASE ~InsertRefused(o) /\ ~(InsertAll(o).status = "ok" /\ InsertAll(o).ready # <<>>)
      <3>1. InsertEnds(o) /\ o \in Inserter
        BY <1>1, <2>3 DEF TryInsertMany, Inserted, FinishWith, SetStatus, Finish, QueueRest,
                          flagVars, InsertEnds
      <3> QED
        BY <3>1 DEF OneStep
    <2> QED
      BY <2>1, <2>2, <2>3
  <1>2. ASSUME NEW o \in Op, TryTakeMany(o) PROVE OneStep
    <2>1. CASE closed /\ AvailableElements(o) < Required(o)
      <3>1. Ends(o)
        BY <1>0, <1>2, <2>1 DEF TryTakeMany, FinishWith, SetStatus, Finish, QueueRest, barrierVars,
                                flagVars, Ends
      <3> QED
        BY <3>1 DEF OneStep
    <2>2. CASE ~(closed /\ AvailableElements(o) < Required(o))
      <3>1. TakeStarts(o) /\ o \in Taker
        BY <1>2, <2>2 DEF TryTakeMany, QueueRest, barrierVars, flagVars, TakeStarts
      <3> QED
        BY <3>1 DEF OneStep
    <2> QED
      BY <2>1, <2>2
  <1>3. ASSUME NEW o \in Op, CloseAgain(o) PROVE OneStep
    <2>1. Ends(o)
      BY <1>0, <1>3 DEF CloseAgain, Goto, FinishWith, SetStatus, Finish, QueueRest, barrierVars,
                        flagVars, Ends
    <2> QED
      BY <2>1 DEF OneStep
  <1>4. ASSUME NEW o \in Op, Close(o) PROVE OneStep
    <2> DEFINE cancel == o \in CancelCloser
               closes == cancel \/ DOMAIN incomplete = {}
    <2>1. /\ o \in Closer /\ pc[o] = "idle" /\ mu = Nobody /\ ~AlreadyClosed(cancel)
          /\ closed' = TRUE /\ incomplete' = Cleared(closes)
          /\ queue_cancelled' = (queue_cancelled \/ cancel)
          /\ cancel_pending_enqueues' \in BOOLEAN /\ queue_closed' \in BOOLEAN
          /\ UNCHANGED <<pqVars, input_index, elements, batch, num, cancelled>>
      BY <1>4 DEF Close, mu_free
    <2>2. CASE closes /\ CloseQueue(cancel) = "close"
      <3>1. mu' = o /\ pc' = [pc EXCEPT ![o] = "close"] /\ done' = done
        BY <1>4, <2>2 DEF Close
      <3>2. ~queue_is_closed
        BY <2>2 DEF CloseQueue
      <3>3. CloseBegins(o)
        BY <2>1, <3>1, <3>2 DEF CloseBegins, pqVars
      <3> QED
        BY <2>1, <3>3 DEF OneStep
    <2>3. CASE closes /\ CloseQueue(cancel) = "nothing"
      <3>1. UNCHANGED mu /\ pc' = [pc EXCEPT ![o] = "returned"] /\ done' = done
        BY <1>4, <2>3 DEF Close
      <3>2. queue_is_closed /\ (cancel => ~queue_cancelled)
        BY <2>3 DEF CloseQueue
      <3>3. CloseForgets(o)
        BY <2>1, <3>1, <3>2 DEF CloseForgets, pqVars
      <3> QED
        BY <2>1, <3>3 DEF OneStep
    <2>4. CASE ~(closes /\ CloseQueue(cancel) \in {"close", "nothing"})
      <3>1. UNCHANGED mu /\ pc' = [pc EXCEPT ![o] = "returned"] /\ done' = [done EXCEPT ![o] = @ + 1]
        BY <1>4, <2>4 DEF Close, Finish
      <3>2. CloseEnds(o)
        BY <2>1, <3>1 DEF CloseEnds, pqVars
      <3> QED
        BY <2>1, <3>2 DEF OneStep
    <2> QED
      BY <2>2, <2>3, <2>4
  <1>5. ASSUME NEW t \in Thread, EnqueueReady(t) PROVE OneStep
    <2>1. t \in Inserter /\ AppendEnqueue(t)
      BY <1>5 DEF EnqueueReady, Goto, PQEnqueueMany, queue_mu_free, barrierVars, flagVars, AppendEnqueue
    <2> QED
      BY <2>1 DEF OneStep
  <1>6. ASSUME NEW t \in Thread, DequeueReady(t) PROVE OneStep
    <2>1. t \in Taker /\ AppendDequeue(t)
      BY <1>6 DEF DequeueReady, Goto, PQDequeueMany, queue_mu_free, barrierVars, flagVars, AppendDequeue
    <2> QED
      BY <2>1 DEF OneStep
  <1>7. ASSUME NEW t \in Thread, TooLate(t) PROVE OneStep
    <2>0. t \in Op
      BY <1>7 DEF TooLate, QueueOK, TypeOKOps, Op
    <2>1. Ends(t)
      BY <1>0, <1>7, <2>0 DEF TooLate, Goto, FinishWith, SetStatus, Finish, QueueRest, barrierVars,
                        flagVars, Ends
    <2> QED
      BY <2>0, <2>1 DEF OneStep
  <1>8. ASSUME NEW t \in Thread, CloseReadyQueue(t) PROVE OneStep
    <2>1. CASE t \in CancelCloser
      <3>1. CancelEnqueues(t)
        BY <1>8, <2>1 DEF CloseReadyQueue, Goto, PQCloseAndCancel, queue_mu_free, barrierVars,
                          flagVars, CancelEnqueues
      <3> QED
        BY <2>1, <3>1 DEF OneStep
    <2>2. CASE t \notin CancelCloser
      <3>1. t \in Closer \ CancelCloser /\ AppendClose(t)
        BY <1>8, <2>2 DEF CloseReadyQueue, Goto, PQClose, queue_mu_free, barrierVars,
                          flagVars, AppendClose
      <3> QED
        BY <3>1 DEF OneStep
    <2> QED
      BY <2>1, <2>2
  <1>9. ASSUME NEW t \in Thread, FlushLock(t) PROVE OneStep
    <2>1. Lock(t)
      BY <1>9 DEF FlushLock, Goto, PQLock, queue_mu_free, barrierVars, flagVars, Lock
    <2> QED
      BY <2>1 DEF OneStep
  <1>10. ASSUME NEW t \in Thread, FlushAttempt(t) PROVE OneStep
    <2>0. UNCHANGED <<barrierVars, mu, pc, batch, num, cancelled, done>>
      BY <1>10 DEF FlushAttempt
    <2>1. CASE EnqueueAttempt(t) /\ queue_is_closed
      <3>1. RefuseEnqueue(t)
        BY <2>0, <2>1 DEF EnqueueAttempt, SetStatus, Complete, barrierVars, flagVars, RefuseEnqueue
      <3> QED
        BY <3>1 DEF OneStep
    <2>2. CASE EnqueueAttempt(t) /\ ~queue_is_closed
      <3>1. RunEnqueue(t)
        BY <2>0, <2>2 DEF EnqueueAttempt, Complete, barrierVars, flagVars, RunEnqueue
      <3> QED
        BY <3>1 DEF OneStep
    <2>3. CASE DequeueFails(t)
      <3>1. FailDequeue(t)
        BY <2>0, <2>3 DEF DequeueFails, SetStatus, Complete, barrierVars, flagVars, FailDequeue
      <3> QED
        BY <3>1 DEF OneStep
    <2>4. CASE DequeueTakes(t)
      <3>0. deq \in Seq(DequeueAttempts) /\ deq # <<>>
        BY <2>4 DEF QueueOK, TypeOKAttempts, DequeueTakes
      <3>1. Head(deq).requested \in Nat /\ Cardinality(queue) \in Nat
        <4>1. Head(deq) \in DequeueAttempts
          BY <3>0
        <4>2. IsFiniteSet(queue)
          BY DEF QueueOK
        <4> QED
          BY <4>1, <4>2, FS_CardinalityType DEF DequeueAttempts
      <3> DEFINE a == Head(deq)
                 n == IF Cardinality(queue) < a.requested THEN Cardinality(queue) ELSE a.requested
      <3>2. CASE Cardinality(queue) < a.requested
        <4>1. n = Cardinality(queue) /\ n # a.requested
          BY <3>1, <3>2
        <4>2. RunDequeuePartly(t)
          BY <4>1, <3>2, <2>0, <2>4 DEF DequeueTakes, barrierVars, flagVars, RunDequeuePartly
        <4> QED
          BY <4>2 DEF OneStep
      <3>3. CASE ~(Cardinality(queue) < a.requested)
        <4>1. n = a.requested /\ Cardinality(queue) >= a.requested
          BY <3>1, <3>3
        <4>2. RunDequeue(t)
          BY <4>1, <3>3, <2>0, <2>4 DEF DequeueTakes, Complete, barrierVars, flagVars, RunDequeue
        <4> QED
          BY <4>2 DEF OneStep
      <3> QED
        BY <3>2, <3>3
    <2> QED
      BY <1>10, <2>1, <2>2, <2>3, <2>4 DEF FlushAttempt
  <1>11. ASSUME NEW t \in Thread, FlushUnlock(t) PROVE OneStep
    <2>1. Unlock(t)
      BY <1>11 DEF FlushUnlock, Goto, PQUnlock, barrierVars, flagVars, Unlock
    <2> QED
      BY <2>1 DEF OneStep
  <1>12. ASSUME NEW t \in Thread, RunCallback(t) PROVE OneStep
    <2>1. Callback(t)
      BY <1>12 DEF RunCallback, Finish, barrierVars, flagVars, Callback
    <2> QED
      BY <2>1 DEF OneStep
  <1>13. ASSUME NEW t \in Thread, FlushReturn(t) PROVE OneStep
    <2>1. CASE t \in CancelCloser
      <3>1. ReturnOfClose(t)
        BY <1>13, <2>1 DEF FlushReturn, Goto, Finish, pqVars, barrierVars, flagVars, ReturnOfClose
      <3> QED
        BY <2>1, <3>1 DEF OneStep
    <2>2. CASE t \notin CancelCloser
      <3>1. t \in Thread \ CancelCloser /\ Return(t)
        BY <1>13, <2>2 DEF FlushReturn, Goto, pqVars, barrierVars, flagVars, Return
      <3> QED
        BY <3>1 DEF OneStep
    <2> QED
      BY <2>1, <2>2
  <1>14. ASSUME NEW c \in Canceller, CancelStep(c) PROVE OneStep
    <2>1. CASE Victim[c] \in OpsOf(enq) \cup OpsOf(deq)
      <3>1. CancelAttempt(c)
        BY <1>14, <2>1 DEF CancelStep, queue_mu_free, PQCancel, SetStatus, Finish, barrierVars,
                           flagVars, CancelAttempt
      <3> QED
        BY <3>1 DEF OneStep
    <2>2. CASE Victim[c] \notin OpsOf(enq) \cup OpsOf(deq)
      <3>1. CancelNothing(c)
        BY <1>14, <2>2 DEF CancelStep, pqVars, barrierVars, flagVars, CancelNothing
      <3> QED
        BY <3>1 DEF OneStep
    <2> QED
      BY <2>1, <2>2
  <1> QED
    BY <1>1, <1>2, <1>3, <1>4, <1>5, <1>6, <1>7, <1>8, <1>9, <1>10, <1>11, <1>12, <1>13, <1>14
       DEF Next, Call, Step

(***************************************************************************)
(* Types.                                                                  *)
(***************************************************************************)

\* The types, what the loop over the keys needs, and how many elements a
\* TakeMany asks for.
TypeInv == TypeOK /\ TupleInv /\ IsFiniteSet(queue) /\ NumInv

\* The attempt at the front.
LEMMA EnqueueHead ==
  ASSUME TypeOKAttempts, enq # <<>>
  PROVE  /\ Head(enq).op \in Inserter \cup Closer /\ Head(enq).batch \in Seq(Element)
         /\ Head(enq).close \in BOOLEAN /\ Head(enq) \in Range(enq)
         /\ Tail(enq) \in Seq(EnqueueAttempts) /\ Head(enq) \in EnqueueAttempts
  <1>1. enq \in Seq(EnqueueAttempts)
    BY DEF TypeOKAttempts
  <1>2. Head(enq) \in EnqueueAttempts /\ Tail(enq) \in Seq(EnqueueAttempts) /\ Head(enq) \in Range(enq)
    BY <1>1, RangeTail
  <1> QED
    BY <1>2 DEF EnqueueAttempts

\* The same for the attempts to dequeue.
LEMMA DequeueHead ==
  ASSUME TypeOKAttempts, deq # <<>>
  PROVE  /\ Head(deq).op \in Taker /\ Head(deq).requested \in Nat \ {0}
         /\ Head(deq).tuple \in Seq(Element) /\ Head(deq) \in Range(deq)
         /\ Tail(deq) \in Seq(DequeueAttempts) /\ Head(deq) \in DequeueAttempts
  <1>1. deq \in Seq(DequeueAttempts)
    BY DEF TypeOKAttempts
  <1>2. Head(deq) \in DequeueAttempts /\ Tail(deq) \in Seq(DequeueAttempts) /\ Head(deq) \in Range(deq)
    BY <1>1, RangeTail
  <1> QED
    BY <1>2 DEF DequeueAttempts

\* What InsertAll returns.
LEMMA InsertAllOK ==
  ASSUME BarrierAssumption, TypeInv, NEW o \in Inserter, pc[o] = "idle"
  PROVE  /\ LoopOK(InsertAll(o).inc, InsertAll(o).ready, InsertAll(o).all, InsertAll(o).fresh,
                  InsertAll(o).status, o, Len(Keys[o]))
         /\ AllBegun(InsertAll(o).inc)
  <1> DEFINE r == InsertAll(o)
  <1>1. TypeOKTuples /\ TupleInv /\ ~Called(o)
    BY DEF TypeInv, TypeOK, Called, NotCalled
  <1>2. LoopInv(r, o, Len(Keys[o]))
    BY <1>1, InsertAllFacts
  <1>3. PICK inc, ready, all, fresh, status :
          /\ r = Acc(inc, ready, all, fresh, status)
          /\ LoopOK(inc, ready, all, fresh, status, o, Len(Keys[o])) /\ AllBegun(inc)
    BY <1>2 DEF LoopInv
  <1> HIDE DEF r
  <1>4. r.inc = inc /\ r.ready = ready /\ r.all = all /\ r.fresh = fresh /\ r.status = status
    BY <1>3, AccFields
  <1>5. LoopOK(r.inc, r.ready, r.all, r.fresh, r.status, o, Len(Keys[o])) /\ AllBegun(r.inc)
    BY <1>3, <1>4
  <1> QED
    BY <1>5 DEF r


\* The types of what belongs to an operation.
LEMMA TypeOKOpsStep ==
  ASSUME BarrierAssumption, TypeInv, OneStep \/ UNCHANGED vars
  PROVE  TypeOKOps'
  <1>u. ASSUME UNCHANGED <<st, num, pc, cancelled, done>> PROVE TypeOKOps'
    BY <1>u DEF TypeInv, TypeOK, TypeOKOps
  <1>0. /\ TypeOKOps /\ TypeOKAttempts /\ IsFiniteSet(queue) /\ Cardinality(queue) \in Nat
        /\ Inserter \subseteq Op /\ Taker \subseteq Op /\ Closer \subseteq Op
        /\ CancelCloser \subseteq Op /\ Op \subseteq Thread
    BY FS_CardinalityType DEF TypeInv, TypeOK, BarrierAssumption, Op
  <1>1. ASSUME NEW o \in Op, Ends(o) PROVE TypeOKOps'
    BY <1>1, <1>0 DEF Ends, TypeOKOps
  <1>2. ASSUME NEW o \in Inserter, InsertEnds(o) PROVE TypeOKOps'
    <2>0. pc[o] = "idle"
      BY <1>2 DEF InsertEnds
    <2>1. InsertAll(o).status \in Status
      BY <2>0, InsertAllOK DEF LoopOK
    <2> QED
      BY <1>2, <1>0, <2>1 DEF InsertEnds, TypeOKOps
  <1>3. ASSUME NEW o \in Inserter, InsertReady(o) PROVE TypeOKOps'
    BY <1>3, <1>0 DEF InsertReady, TypeOKOps
  <1>4. ASSUME NEW o \in Taker, TakeStarts(o) PROVE TypeOKOps'
    <2>1. Deliver(o) \in Nat
      BY <1>0 DEF Deliver, Minimum, BarrierAssumption
    <2> QED
      BY <1>4, <1>0, <2>1 DEF TakeStarts, TypeOKOps
  <1>5. ASSUME NEW o \in Closer, CloseBegins(o) PROVE TypeOKOps'
    BY <1>5, <1>0 DEF CloseBegins, TypeOKOps
  <1>6. ASSUME NEW o \in Closer, CloseEnds(o) PROVE TypeOKOps'
    BY <1>6, <1>0 DEF CloseEnds, TypeOKOps
  <1>7. ASSUME NEW o \in Closer, CloseForgets(o) PROVE TypeOKOps'
    BY <1>7, <1>0 DEF CloseForgets, TypeOKOps
  <1>8. ASSUME NEW o \in Inserter, AppendEnqueue(o) PROVE TypeOKOps'
    BY <1>8, <1>0 DEF AppendEnqueue, TypeOKOps
  <1>9. ASSUME NEW o \in Taker, AppendDequeue(o) PROVE TypeOKOps'
    BY <1>9, <1>0 DEF AppendDequeue, TypeOKOps
  <1>10. ASSUME NEW o \in Closer \ CancelCloser, AppendClose(o) PROVE TypeOKOps'
    BY <1>10, <1>0 DEF AppendClose, TypeOKOps
  <1>11. ASSUME NEW o \in CancelCloser, CancelEnqueues(o) PROVE TypeOKOps'
    <2>1. "Cancelled" \in Status
      BY DEF Status
    <2>2. st' \in [Thread -> Status]
      BY <1>11, <1>0, <2>1 DEF CancelEnqueues, TypeOKOps
    <2>3. done' \in [Op -> Nat]
      BY <1>11, <1>0 DEF CancelEnqueues, TypeOKOps
    <2>4. pc' \in [Thread -> {"absent", "idle", "append", "close", "flush", "flushing", "cleanup", "returned"}] /\ UNCHANGED <<num, cancelled>>
      BY <1>11, <1>0 DEF CancelEnqueues, TypeOKOps
    <2> QED
      BY <1>0, <2>2, <2>3, <2>4 DEF TypeOKOps
  <1>12. ASSUME NEW t \in Thread, Lock(t) PROVE TypeOKOps'
    BY <1>12, <1>0 DEF Lock, TypeOKOps
  <1>13. ASSUME NEW t \in Thread, RefuseEnqueue(t) PROVE TypeOKOps'
    <2>1. "Cancelled" \in Status
      BY DEF Status
    <2> QED
      BY <1>13, <1>0, <2>1 DEF RefuseEnqueue, TypeOKOps
  <1>14. ASSUME NEW t \in Thread, RunEnqueue(t) PROVE TypeOKOps'
    BY <1>14, <1>u DEF RunEnqueue
  <1>15. ASSUME NEW t \in Thread, FailDequeue(t) PROVE TypeOKOps'
    <2>1. "OutOfRange" \in Status
      BY DEF Status
    <2> QED
      BY <1>15, <1>0, <2>1 DEF FailDequeue, TypeOKOps
  <1>16. ASSUME NEW t \in Thread, RunDequeue(t) PROVE TypeOKOps'
    BY <1>16, <1>u DEF RunDequeue
  <1>17. ASSUME NEW t \in Thread, RunDequeuePartly(t) PROVE TypeOKOps'
    BY <1>17, <1>u DEF RunDequeuePartly
  <1>18. ASSUME NEW t \in Thread, Unlock(t) PROVE TypeOKOps'
    BY <1>18, <1>0 DEF Unlock, TypeOKOps
  <1>19. ASSUME NEW t \in Thread, Callback(t) PROVE TypeOKOps'
    <2>1. clean_up[t] \in Seq(Op) /\ clean_up[t] # <<>>
      BY <1>19, <1>0 DEF Callback, TypeOKAttempts
    <2>2. Head(clean_up[t]) \in Op
      BY <2>1
    <2> QED
      BY <1>19, <1>0, <2>2 DEF Callback, TypeOKOps
  <1>20. ASSUME NEW t \in Thread \ CancelCloser, Return(t) PROVE TypeOKOps'
    BY <1>20, <1>0 DEF Return, TypeOKOps
  <1>21. ASSUME NEW t \in CancelCloser, ReturnOfClose(t) PROVE TypeOKOps'
    BY <1>21, <1>0 DEF ReturnOfClose, TypeOKOps
  <1>22. ASSUME NEW c \in Canceller, CancelAttempt(c) PROVE TypeOKOps'
    <2>1. "Cancelled" \in Status
      BY DEF Status
    <2>2. Victim[c] \in Inserter \cup Taker
      BY DEF BarrierAssumption
    <2> QED
      BY <1>22, <1>0, <2>1, <2>2 DEF CancelAttempt, TypeOKOps
  <1>23. ASSUME NEW c \in Canceller, CancelNothing(c) PROVE TypeOKOps'
    BY <1>23, <1>0 DEF CancelNothing, TypeOKOps, BarrierAssumption
  <1>24. CASE UNCHANGED vars
    BY <1>24, <1>u DEF vars, pqVars
  <1> QED
    BY <1>1, <1>2, <1>3, <1>4, <1>5, <1>6, <1>7, <1>8, <1>9, <1>10, <1>11, <1>12, <1>13, <1>14, <1>15, <1>16, <1>17, <1>18, <1>19, <1>20, <1>21, <1>22, <1>23, <1>24 DEF OneStep


\* The types of the flags and the mutexes.
LEMMA TypeOKFlagsStep ==
  ASSUME BarrierAssumption, TypeInv, OneStep \/ UNCHANGED vars
  PROVE  TypeOKFlags'
  <1>u. ASSUME UNCHANGED <<closed, queue_closed, queue_cancelled, cancel_pending_enqueues, queue_is_closed, mu, queue_mu>> PROVE TypeOKFlags'
    BY <1>u DEF TypeInv, TypeOK, TypeOKFlags
  <1>0. TypeOKFlags /\ TypeOKAttempts
    BY DEF TypeInv, TypeOK
  <1>1. ASSUME NEW o \in Op, Ends(o) PROVE TypeOKFlags'
    BY <1>1, <1>u DEF Ends
  <1>2. ASSUME NEW o \in Inserter, InsertEnds(o) PROVE TypeOKFlags'
    BY <1>2, <1>u DEF InsertEnds
  <1>3. ASSUME NEW o \in Inserter, InsertReady(o) PROVE TypeOKFlags'
    BY <1>3, <1>u DEF InsertReady
  <1>4. ASSUME NEW o \in Taker, TakeStarts(o) PROVE TypeOKFlags'
    BY <1>4, <1>u DEF TakeStarts
  <1>5. ASSUME NEW o \in Closer, CloseBegins(o) PROVE TypeOKFlags'
    BY <1>5, <1>0 DEF CloseBegins, TypeOKFlags, BarrierAssumption, Op
  <1>6. ASSUME NEW o \in Closer, CloseEnds(o) PROVE TypeOKFlags'
    BY <1>6, <1>0 DEF CloseEnds, TypeOKFlags
  <1>7. ASSUME NEW o \in Closer, CloseForgets(o) PROVE TypeOKFlags'
    BY <1>7, <1>0 DEF CloseForgets, TypeOKFlags
  <1>8. ASSUME NEW o \in Inserter, AppendEnqueue(o) PROVE TypeOKFlags'
    BY <1>8, <1>u DEF AppendEnqueue
  <1>9. ASSUME NEW o \in Taker, AppendDequeue(o) PROVE TypeOKFlags'
    BY <1>9, <1>u DEF AppendDequeue
  <1>10. ASSUME NEW o \in Closer \ CancelCloser, AppendClose(o) PROVE TypeOKFlags'
    BY <1>10, <1>u DEF AppendClose
  <1>11. ASSUME NEW o \in CancelCloser, CancelEnqueues(o) PROVE TypeOKFlags'
    BY <1>11, <1>0 DEF CancelEnqueues, TypeOKFlags
  <1>12. ASSUME NEW t \in Thread, Lock(t) PROVE TypeOKFlags'
    BY <1>12, <1>0 DEF Lock, TypeOKFlags
  <1>13. ASSUME NEW t \in Thread, RefuseEnqueue(t) PROVE TypeOKFlags'
    BY <1>13, <1>u DEF RefuseEnqueue
  <1>14. ASSUME NEW t \in Thread, RunEnqueue(t) PROVE TypeOKFlags'
    <2>1. Head(enq).close \in BOOLEAN
      BY <1>14, <1>0, EnqueueHead DEF RunEnqueue
    <2> QED
      BY <1>14, <1>0, <2>1 DEF RunEnqueue, TypeOKFlags
  <1>15. ASSUME NEW t \in Thread, FailDequeue(t) PROVE TypeOKFlags'
    BY <1>15, <1>u DEF FailDequeue
  <1>16. ASSUME NEW t \in Thread, RunDequeue(t) PROVE TypeOKFlags'
    BY <1>16, <1>u DEF RunDequeue
  <1>17. ASSUME NEW t \in Thread, RunDequeuePartly(t) PROVE TypeOKFlags'
    BY <1>17, <1>u DEF RunDequeuePartly
  <1>18. ASSUME NEW t \in Thread, Unlock(t) PROVE TypeOKFlags'
    BY <1>18, <1>0 DEF Unlock, TypeOKFlags
  <1>19. ASSUME NEW t \in Thread, Callback(t) PROVE TypeOKFlags'
    BY <1>19, <1>u DEF Callback
  <1>20. ASSUME NEW t \in Thread \ CancelCloser, Return(t) PROVE TypeOKFlags'
    BY <1>20, <1>0 DEF Return, TypeOKFlags
  <1>21. ASSUME NEW t \in CancelCloser, ReturnOfClose(t) PROVE TypeOKFlags'
    BY <1>21, <1>0 DEF ReturnOfClose, TypeOKFlags
  <1>22. ASSUME NEW c \in Canceller, CancelAttempt(c) PROVE TypeOKFlags'
    BY <1>22, <1>u DEF CancelAttempt
  <1>23. ASSUME NEW c \in Canceller, CancelNothing(c) PROVE TypeOKFlags'
    BY <1>23, <1>u DEF CancelNothing
  <1>24. CASE UNCHANGED vars
    BY <1>24, <1>u DEF vars, pqVars, barrierVars, flagVars
  <1> QED
    BY <1>1, <1>2, <1>3, <1>4, <1>5, <1>6, <1>7, <1>8, <1>9, <1>10, <1>11, <1>12, <1>13, <1>14, <1>15, <1>16, <1>17, <1>18, <1>19, <1>20, <1>21, <1>22, <1>23, <1>24 DEF OneStep

\* The elements of a sequence are finitely many.
LEMMA RangeFinite ==
  ASSUME NEW R, NEW s \in Seq(R)
  PROVE  IsFiniteSet(Range(s))
  <1>1. Len(s) \in Nat /\ Range(s) = {s[i] : i \in 1..Len(s)} /\ s \in [1..Len(s) -> R]
    BY RangeSeq
  <1>2. s \in Surjection(1..Len(s), Range(s))
    BY <1>1 DEF Surjection
  <1>3. IsFiniteSet(1..Len(s))
    BY <1>1, FS_Interval
  <1> QED
    BY <1>2, <1>3, FS_Surjection

\* A batch that the heap yields.
LEMMA BatchFacts ==
  ASSUME queue \in SUBSET Element, IsFiniteSet(queue), NEW n \in Nat, NEW s \in Batches(n)
  PROVE  /\ s \in Seq(Element) /\ Len(s) = n /\ Range(s) \subseteq queue
         /\ SortedTuple(s)
         /\ n = Cardinality(queue) => Range(s) = queue
  <1>1. /\ s \in [1..n -> queue] /\ IsInjective(s)
        /\ \A i \in 1..n : \A e \in queue \ {s[j] : j \in 1..i} : s[i].index <= e.index
    BY DEF Batches
  <1>2. s \in Seq(Element) /\ s \in Seq(queue) /\ Len(s) = n
    BY <1>1
  <1>3. Range(s) \subseteq queue /\ Range(s) = {s[i] : i \in 1..n}
    BY <1>2, RangeSeq
  <1>4. SortedTuple(s)
    <2> SUFFICES ASSUME NEW i \in 1..n, NEW j \in 1..n, i < j
                 PROVE  s[i].index <= s[j].index /\ s[i] # s[j]
      BY <1>2 DEF SortedTuple
    <2>1. \A x \in 1..i : x \in 1..n /\ x # j
      OBVIOUS
    <2>2. \A x \in 1..n : s[x] = s[j] => x = j
      BY <1>1 DEF IsInjective
    <2>3. s[j] \in queue \ {s[x] : x \in 1..i}
      BY <1>1, <2>1, <2>2
    <2>4. s[i].index <= s[j].index
      BY <1>1, <2>3
    <2> QED
      BY <2>2, <2>4
  <1>5. ASSUME n = Cardinality(queue) PROVE Range(s) = queue
    <2>1. s \in Injection(1..n, queue)
      BY <1>1 DEF Injection
    <2>2. Cardinality(1..n) = n
      BY FS_Interval
    <2>3. s \in Surjection(1..n, queue)
      BY <1>5, <2>1, <2>2, FS_Injection
    <2> QED
      BY <2>3, <1>3 DEF Surjection
  <1> QED
    BY <1>2, <1>3, <1>4, <1>5

\* What is left of the attempt of a small batch that has emptied the queue.
Partly(a, n, s) == [a EXCEPT !.requested = @ - n, !.tuple = @ \o s]

\* It still asks for something.
LEMMA PartlyFacts ==
  ASSUME NEW a \in DequeueAttempts, NEW n \in Nat, n < a.requested, NEW s \in Seq(Element)
  PROVE  /\ Partly(a, n, s) \in DequeueAttempts
         /\ Partly(a, n, s).op = a.op /\ Partly(a, n, s).requested = a.requested - n
         /\ Partly(a, n, s).tuple = a.tuple \o s
  <1>1. /\ a.op \in Taker /\ a.requested \in Nat \ {0} /\ a.tuple \in Seq(Element)
        /\ a.requested - n \in Nat \ {0}
    BY DEF DequeueAttempts
  <1>2. a.tuple \o s \in Seq(Element)
    BY <1>1, RangeConcat
  <1> DEFINE q == a.requested - n
             u == a.tuple \o s
  <1> HIDE DEF q, u
  <1>3. q \in Nat \ {0} /\ u \in Seq(Element)
    BY <1>1, <1>2 DEF q, u
  <1>4. LET b == [a EXCEPT !.requested = q, !.tuple = u]
        IN  b \in DequeueAttempts /\ b.op = a.op /\ b.requested = q /\ b.tuple = u
    BY <1>3 DEF DequeueAttempts
  <1> QED
    BY <1>4 DEF q, u, Partly


\* The types of the attempts and of the lists of callbacks.
LEMMA TypeOKAttemptsStep ==
  ASSUME BarrierAssumption, TypeInv, OneStep \/ UNCHANGED vars
  PROVE  TypeOKAttempts'
  <1>u. ASSUME UNCHANGED <<enq, deq, clean_up>> PROVE TypeOKAttempts'
    BY <1>u DEF TypeInv, TypeOK, TypeOKAttempts
  <1>0. /\ TypeOKAttempts /\ TypeOKTuples /\ TypeOKOps /\ NumInv
        /\ IsFiniteSet(queue) /\ Cardinality(queue) \in Nat
    BY FS_CardinalityType DEF TypeInv, TypeOK
  <1>1. ASSUME NEW o \in Op, Ends(o) PROVE TypeOKAttempts'
    BY <1>1, <1>u DEF Ends
  <1>2. ASSUME NEW o \in Inserter, InsertEnds(o) PROVE TypeOKAttempts'
    BY <1>2, <1>u DEF InsertEnds
  <1>3. ASSUME NEW o \in Inserter, InsertReady(o) PROVE TypeOKAttempts'
    BY <1>3, <1>u DEF InsertReady
  <1>4. ASSUME NEW o \in Taker, TakeStarts(o) PROVE TypeOKAttempts'
    BY <1>4, <1>u DEF TakeStarts
  <1>5. ASSUME NEW o \in Closer, CloseBegins(o) PROVE TypeOKAttempts'
    BY <1>5, <1>u DEF CloseBegins
  <1>6. ASSUME NEW o \in Closer, CloseEnds(o) PROVE TypeOKAttempts'
    BY <1>6, <1>u DEF CloseEnds
  <1>7. ASSUME NEW o \in Closer, CloseForgets(o) PROVE TypeOKAttempts'
    BY <1>7, <1>u DEF CloseForgets
  <1>8. ASSUME NEW o \in Inserter, AppendEnqueue(o) PROVE TypeOKAttempts'
    <2>1. [op |-> o, batch |-> batch[o], close |-> FALSE] \in EnqueueAttempts
      BY <1>0 DEF EnqueueAttempts, TypeOKTuples
    <2>2. enq' \in Seq(EnqueueAttempts)
      BY <1>8, <1>0, <2>1 DEF AppendEnqueue, TypeOKAttempts
    <2> QED
      BY <1>8, <1>0, <2>2 DEF AppendEnqueue, TypeOKAttempts
  <1>9. ASSUME NEW o \in Taker, AppendDequeue(o) PROVE TypeOKAttempts'
    <2>1. num[o] \in Nat \ {0}
      BY <1>9, <1>0 DEF AppendDequeue, NumInv, TypeOKOps
    <2>2. [op |-> o, requested |-> num[o], tuple |-> <<>>] \in DequeueAttempts
      BY <2>1 DEF DequeueAttempts
    <2>3. deq' \in Seq(DequeueAttempts)
      BY <1>9, <1>0, <2>2 DEF AppendDequeue, TypeOKAttempts
    <2> QED
      BY <1>9, <1>0, <2>3 DEF AppendDequeue, TypeOKAttempts
  <1>10. ASSUME NEW o \in Closer \ CancelCloser, AppendClose(o) PROVE TypeOKAttempts'
    <2>1. [op |-> o, batch |-> <<>>, close |-> TRUE] \in EnqueueAttempts
      BY <1>0 DEF EnqueueAttempts
    <2>2. enq' \in Seq(EnqueueAttempts)
      BY <1>10, <1>0, <2>1 DEF AppendClose, TypeOKAttempts
    <2> QED
      BY <1>10, <1>0, <2>2 DEF AppendClose, TypeOKAttempts
  <1>11. ASSUME NEW o \in CancelCloser, CancelEnqueues(o) PROVE TypeOKAttempts'
    <2>1. enq' \in Seq(EnqueueAttempts)
      BY <1>11 DEF CancelEnqueues
    <2> QED
      BY <1>11, <1>0, <2>1 DEF CancelEnqueues, TypeOKAttempts
  <1>12. ASSUME NEW t \in Thread, Lock(t) PROVE TypeOKAttempts'
    BY <1>12, <1>u DEF Lock
  <1>13. ASSUME NEW t \in Thread, RefuseEnqueue(t) PROVE TypeOKAttempts'
    <2>1. Head(enq).op \in Op /\ Tail(enq) \in Seq(EnqueueAttempts)
      BY <1>13, <1>0, EnqueueHead DEF RefuseEnqueue, Op
    <2>2. clean_up' \in [Thread -> Seq(Op)]
      BY <1>13, <1>0, <2>1 DEF RefuseEnqueue, TypeOKAttempts
    <2> QED
      BY <1>13, <1>0, <2>1, <2>2 DEF RefuseEnqueue, TypeOKAttempts
  <1>14. ASSUME NEW t \in Thread, RunEnqueue(t) PROVE TypeOKAttempts'
    <2>1. Head(enq).op \in Op /\ Tail(enq) \in Seq(EnqueueAttempts)
      BY <1>14, <1>0, EnqueueHead DEF RunEnqueue, Op
    <2>2. clean_up' \in [Thread -> Seq(Op)]
      BY <1>14, <1>0, <2>1 DEF RunEnqueue, TypeOKAttempts
    <2> QED
      BY <1>14, <1>0, <2>1, <2>2 DEF RunEnqueue, TypeOKAttempts
  <1>15. ASSUME NEW t \in Thread, FailDequeue(t) PROVE TypeOKAttempts'
    <2>1. Head(deq).op \in Op /\ Tail(deq) \in Seq(DequeueAttempts)
      BY <1>15, <1>0, DequeueHead DEF FailDequeue, Op
    <2>2. clean_up' \in [Thread -> Seq(Op)]
      BY <1>15, <1>0, <2>1 DEF FailDequeue, TypeOKAttempts
    <2> QED
      BY <1>15, <1>0, <2>1, <2>2 DEF FailDequeue, TypeOKAttempts
  <1>16. ASSUME NEW t \in Thread, RunDequeue(t) PROVE TypeOKAttempts'
    <2>1. Head(deq).op \in Op /\ Tail(deq) \in Seq(DequeueAttempts)
      BY <1>16, <1>0, DequeueHead DEF RunDequeue, Op
    <2>2. clean_up' \in [Thread -> Seq(Op)]
      BY <1>16, <1>0, <2>1 DEF RunDequeue, TypeOKAttempts
    <2> QED
      BY <1>16, <1>0, <2>1, <2>2 DEF RunDequeue, TypeOKAttempts
  <1>17. ASSUME NEW t \in Thread, RunDequeuePartly(t) PROVE TypeOKAttempts'
    <2> DEFINE a == Head(deq)
               n == Cardinality(queue)
    <2>1. a \in DequeueAttempts /\ Tail(deq) \in Seq(DequeueAttempts)
      BY <1>17, <1>0, DequeueHead DEF RunDequeuePartly
    <2>2. PICK s \in Batches(n) :
            deq' = <<[a EXCEPT !.requested = @ - n, !.tuple = @ \o s]>> \o Tail(deq)
      BY <1>17 DEF RunDequeuePartly
    <2>3. s \in Seq(Element) /\ n < a.requested
      BY <1>17, <1>0, BatchFacts DEF RunDequeuePartly, TypeOKTuples
    <2> DEFINE b == [a EXCEPT !.requested = @ - n, !.tuple = @ \o s]
    <2>4. b \in DequeueAttempts
      <3>1. b = Partly(a, n, s) /\ n \in Nat
        BY <1>0 DEF Partly
      <3> HIDE DEF a, n, b
      <3> QED
        BY <2>1, <2>3, <3>1, PartlyFacts
    <2> HIDE DEF a, n, b
    <2>5. <<b>> \in Seq(DequeueAttempts)
      BY <2>4
    <2>6. deq' \in Seq(DequeueAttempts)
      BY <2>1, <2>2, <2>5, RangeConcat DEF b
    <2> QED
      BY <1>17, <1>0, <2>6 DEF RunDequeuePartly, TypeOKAttempts
  <1>18. ASSUME NEW t \in Thread, Unlock(t) PROVE TypeOKAttempts'
    BY <1>18, <1>u DEF Unlock
  <1>19. ASSUME NEW t \in Thread, Callback(t) PROVE TypeOKAttempts'
    <2>1. clean_up[t] \in Seq(Op) /\ clean_up[t] # <<>>
      BY <1>19, <1>0 DEF Callback, TypeOKAttempts
    <2>2. Tail(clean_up[t]) \in Seq(Op)
      BY <2>1
    <2> QED
      BY <1>19, <1>0, <2>2 DEF Callback, TypeOKAttempts
  <1>20. ASSUME NEW t \in Thread \ CancelCloser, Return(t) PROVE TypeOKAttempts'
    BY <1>20, <1>u DEF Return
  <1>21. ASSUME NEW t \in CancelCloser, ReturnOfClose(t) PROVE TypeOKAttempts'
    BY <1>21, <1>u DEF ReturnOfClose
  <1>22. ASSUME NEW c \in Canceller, CancelAttempt(c) PROVE TypeOKAttempts'
    <2>1. enq \in Seq(EnqueueAttempts) /\ deq \in Seq(DequeueAttempts)
      BY <1>0 DEF TypeOKAttempts
    <2>2. Without(enq, Victim[c]) \in Seq(EnqueueAttempts) /\ Without(deq, Victim[c]) \in Seq(DequeueAttempts)
      BY <2>1, OpsWithout
    <2> QED
      BY <1>22, <1>0, <2>2 DEF CancelAttempt, TypeOKAttempts
  <1>23. ASSUME NEW c \in Canceller, CancelNothing(c) PROVE TypeOKAttempts'
    BY <1>23, <1>u DEF CancelNothing
  <1>24. CASE UNCHANGED vars
    BY <1>24, <1>u DEF vars, pqVars
  <1> QED
    BY <1>1, <1>2, <1>3, <1>4, <1>5, <1>6, <1>7, <1>8, <1>9, <1>10, <1>11, <1>12, <1>13, <1>14, <1>15, <1>16, <1>17, <1>18, <1>19, <1>20, <1>21, <1>22, <1>23, <1>24 DEF OneStep


\* A TakeMany that waits asks for something.
LEMMA NumInvStep ==
  ASSUME BarrierAssumption, TypeInv, OneStep \/ UNCHANGED vars
  PROVE  NumInv'
  <1>u. ASSUME UNCHANGED <<num, pc>> PROVE NumInv'
    BY <1>u DEF TypeInv, NumInv
  <1>0. /\ TypeOKOps /\ NumInv /\ Cardinality(queue) \in Nat
        /\ Taker \subseteq Thread
    BY FS_CardinalityType DEF TypeInv, TypeOK, BarrierAssumption, Op
  <1>1. ASSUME NEW o \in Op, Ends(o) PROVE NumInv'
    <2>1. num' = num /\ \A x \in Taker : pc'[x] = "append" => pc[x] = "append"
      BY <1>1, <1>0 DEF Ends, TypeOKOps
    <2> QED
      BY <1>0, <2>1 DEF NumInv
  <1>2. ASSUME NEW o \in Inserter, InsertEnds(o) PROVE NumInv'
    <2>1. num' = num /\ \A x \in Taker : pc'[x] = "append" => pc[x] = "append"
      BY <1>2, <1>0 DEF InsertEnds, TypeOKOps
    <2> QED
      BY <1>0, <2>1 DEF NumInv
  <1>3. ASSUME NEW o \in Inserter, InsertReady(o) PROVE NumInv'
    <2>1. num' = num /\ \A x \in Taker : pc'[x] = "append" => pc[x] = "append"
      BY <1>3, <1>0 DEF InsertReady, TypeOKOps, BarrierAssumption
    <2> QED
      BY <1>0, <2>1 DEF NumInv
  <1>4. ASSUME NEW o \in Taker, TakeStarts(o) PROVE NumInv'
    <2>1. Deliver(o) > 0
      <3>0. Want[o] \in Nat \ {0}
        BY DEF BarrierAssumption
      <3>1. CASE closed /\ o \in Small
        <4>1. ~(Cardinality(queue) + 0 < Maximum(Deliver(o), 1))
          BY <1>4, <3>1 DEF TakeStarts, AvailableElements, Required
        <4>2. Deliver(o) = Minimum(Want[o], Cardinality(queue))
          BY <3>1 DEF Deliver
        <4> QED
          BY <1>0, <3>0, <4>1, <4>2 DEF Minimum, Maximum
      <3>2. CASE ~(closed /\ o \in Small)
        BY <3>0, <3>2 DEF Deliver
      <3> QED
        BY <3>1, <3>2
    <2>2. num'[o] = Deliver(o) /\ \A x \in Taker : x # o => num'[x] = num[x] /\ pc'[x] = pc[x]
      BY <1>4, <1>0 DEF TakeStarts, TypeOKOps
    <2> QED
      BY <1>0, <2>1, <2>2 DEF NumInv
  <1>5. ASSUME NEW o \in Closer, CloseBegins(o) PROVE NumInv'
    <2>1. num' = num /\ \A x \in Taker : pc'[x] = "append" => pc[x] = "append"
      BY <1>5, <1>0 DEF CloseBegins, TypeOKOps
    <2> QED
      BY <1>0, <2>1 DEF NumInv
  <1>6. ASSUME NEW o \in Closer, CloseEnds(o) PROVE NumInv'
    <2>1. num' = num /\ \A x \in Taker : pc'[x] = "append" => pc[x] = "append"
      BY <1>6, <1>0 DEF CloseEnds, TypeOKOps
    <2> QED
      BY <1>0, <2>1 DEF NumInv
  <1>7. ASSUME NEW o \in Closer, CloseForgets(o) PROVE NumInv'
    <2>1. num' = num /\ \A x \in Taker : pc'[x] = "append" => pc[x] = "append"
      BY <1>7, <1>0 DEF CloseForgets, TypeOKOps
    <2> QED
      BY <1>0, <2>1 DEF NumInv
  <1>8. ASSUME NEW o \in Inserter, AppendEnqueue(o) PROVE NumInv'
    <2>1. num' = num /\ \A x \in Taker : pc'[x] = "append" => pc[x] = "append"
      BY <1>8, <1>0 DEF AppendEnqueue, TypeOKOps
    <2> QED
      BY <1>0, <2>1 DEF NumInv
  <1>9. ASSUME NEW o \in Taker, AppendDequeue(o) PROVE NumInv'
    <2>1. num' = num /\ \A x \in Taker : pc'[x] = "append" => pc[x] = "append"
      BY <1>9, <1>0 DEF AppendDequeue, TypeOKOps
    <2> QED
      BY <1>0, <2>1 DEF NumInv
  <1>10. ASSUME NEW o \in Closer \ CancelCloser, AppendClose(o) PROVE NumInv'
    <2>1. num' = num /\ \A x \in Taker : pc'[x] = "append" => pc[x] = "append"
      BY <1>10, <1>0 DEF AppendClose, TypeOKOps
    <2> QED
      BY <1>0, <2>1 DEF NumInv
  <1>11. ASSUME NEW o \in CancelCloser, CancelEnqueues(o) PROVE NumInv'
    <2>1. num' = num /\ \A x \in Taker : pc'[x] = "append" => pc[x] = "append"
      BY <1>11, <1>0 DEF CancelEnqueues, TypeOKOps
    <2> QED
      BY <1>0, <2>1 DEF NumInv
  <1>12. ASSUME NEW t \in Thread, Lock(t) PROVE NumInv'
    <2>1. num' = num /\ \A x \in Taker : pc'[x] = "append" => pc[x] = "append"
      BY <1>12, <1>0 DEF Lock, TypeOKOps
    <2> QED
      BY <1>0, <2>1 DEF NumInv
  <1>13. ASSUME NEW t \in Thread, RefuseEnqueue(t) PROVE NumInv'
    BY <1>13, <1>u DEF RefuseEnqueue
  <1>14. ASSUME NEW t \in Thread, RunEnqueue(t) PROVE NumInv'
    BY <1>14, <1>u DEF RunEnqueue
  <1>15. ASSUME NEW t \in Thread, FailDequeue(t) PROVE NumInv'
    BY <1>15, <1>u DEF FailDequeue
  <1>16. ASSUME NEW t \in Thread, RunDequeue(t) PROVE NumInv'
    BY <1>16, <1>u DEF RunDequeue
  <1>17. ASSUME NEW t \in Thread, RunDequeuePartly(t) PROVE NumInv'
    BY <1>17, <1>u DEF RunDequeuePartly
  <1>18. ASSUME NEW t \in Thread, Unlock(t) PROVE NumInv'
    <2>1. num' = num /\ \A x \in Taker : pc'[x] = "append" => pc[x] = "append"
      BY <1>18, <1>0 DEF Unlock, TypeOKOps
    <2> QED
      BY <1>0, <2>1 DEF NumInv
  <1>19. ASSUME NEW t \in Thread, Callback(t) PROVE NumInv'
    BY <1>19, <1>u DEF Callback
  <1>20. ASSUME NEW t \in Thread \ CancelCloser, Return(t) PROVE NumInv'
    <2>1. num' = num /\ \A x \in Taker : pc'[x] = "append" => pc[x] = "append"
      BY <1>20, <1>0 DEF Return, TypeOKOps
    <2> QED
      BY <1>0, <2>1 DEF NumInv
  <1>21. ASSUME NEW t \in CancelCloser, ReturnOfClose(t) PROVE NumInv'
    <2>1. num' = num /\ \A x \in Taker : pc'[x] = "append" => pc[x] = "append"
      BY <1>21, <1>0 DEF ReturnOfClose, TypeOKOps
    <2> QED
      BY <1>0, <2>1 DEF NumInv
  <1>22. ASSUME NEW c \in Canceller, CancelAttempt(c) PROVE NumInv'
    <2>1. num' = num /\ \A x \in Taker : pc'[x] = "append" => pc[x] = "append"
      BY <1>22, <1>0 DEF CancelAttempt, TypeOKOps
    <2> QED
      BY <1>0, <2>1 DEF NumInv
  <1>23. ASSUME NEW c \in Canceller, CancelNothing(c) PROVE NumInv'
    <2>1. num' = num /\ \A x \in Taker : pc'[x] = "append" => pc[x] = "append"
      BY <1>23, <1>0 DEF CancelNothing, TypeOKOps
    <2> QED
      BY <1>0, <2>1 DEF NumInv
  <1>24. CASE UNCHANGED vars
    BY <1>24, <1>u DEF vars
  <1> QED
    BY <1>1, <1>2, <1>3, <1>4, <1>5, <1>6, <1>7, <1>8, <1>9, <1>10, <1>11, <1>12, <1>13, <1>14, <1>15, <1>16, <1>17, <1>18, <1>19, <1>20, <1>21, <1>22, <1>23, <1>24 DEF OneStep

\* A call is never taken back.
CallsStay == \A o \in Thread : Called(o) => Called(o)'

\* No step takes a call back.
LEMMA CalledStep ==
  ASSUME BarrierAssumption, TypeOKOps, OneStep \/ UNCHANGED vars
  PROVE  CallsStay
  <1>u. ASSUME UNCHANGED <<pc>> PROVE CallsStay
    BY <1>u DEF CallsStay, Called
  <1>0. TypeOKOps
    OBVIOUS
  <1>1. ASSUME NEW o \in Op, Ends(o) PROVE CallsStay
    BY <1>1, <1>0 DEF Ends, CallsStay, Called, NotCalled, TypeOKOps
  <1>2. ASSUME NEW o \in Inserter, InsertEnds(o) PROVE CallsStay
    BY <1>2, <1>0 DEF InsertEnds, CallsStay, Called, NotCalled, TypeOKOps
  <1>3. ASSUME NEW o \in Inserter, InsertReady(o) PROVE CallsStay
    BY <1>3, <1>0 DEF InsertReady, CallsStay, Called, NotCalled, TypeOKOps
  <1>4. ASSUME NEW o \in Taker, TakeStarts(o) PROVE CallsStay
    BY <1>4, <1>0 DEF TakeStarts, CallsStay, Called, NotCalled, TypeOKOps
  <1>5. ASSUME NEW o \in Closer, CloseBegins(o) PROVE CallsStay
    BY <1>5, <1>0 DEF CloseBegins, CallsStay, Called, NotCalled, TypeOKOps
  <1>6. ASSUME NEW o \in Closer, CloseEnds(o) PROVE CallsStay
    BY <1>6, <1>0 DEF CloseEnds, CallsStay, Called, NotCalled, TypeOKOps
  <1>7. ASSUME NEW o \in Closer, CloseForgets(o) PROVE CallsStay
    BY <1>7, <1>0 DEF CloseForgets, CallsStay, Called, NotCalled, TypeOKOps
  <1>8. ASSUME NEW o \in Inserter, AppendEnqueue(o) PROVE CallsStay
    BY <1>8, <1>0 DEF AppendEnqueue, CallsStay, Called, NotCalled, TypeOKOps
  <1>9. ASSUME NEW o \in Taker, AppendDequeue(o) PROVE CallsStay
    BY <1>9, <1>0 DEF AppendDequeue, CallsStay, Called, NotCalled, TypeOKOps
  <1>10. ASSUME NEW o \in Closer \ CancelCloser, AppendClose(o) PROVE CallsStay
    BY <1>10, <1>0 DEF AppendClose, CallsStay, Called, NotCalled, TypeOKOps
  <1>11. ASSUME NEW o \in CancelCloser, CancelEnqueues(o) PROVE CallsStay
    BY <1>11, <1>0 DEF CancelEnqueues, CallsStay, Called, NotCalled, TypeOKOps
  <1>12. ASSUME NEW t \in Thread, Lock(t) PROVE CallsStay
    BY <1>12, <1>0 DEF Lock, CallsStay, Called, NotCalled, TypeOKOps
  <1>13. ASSUME NEW t \in Thread, RefuseEnqueue(t) PROVE CallsStay
    BY <1>13, <1>u DEF RefuseEnqueue
  <1>14. ASSUME NEW t \in Thread, RunEnqueue(t) PROVE CallsStay
    BY <1>14, <1>u DEF RunEnqueue
  <1>15. ASSUME NEW t \in Thread, FailDequeue(t) PROVE CallsStay
    BY <1>15, <1>u DEF FailDequeue
  <1>16. ASSUME NEW t \in Thread, RunDequeue(t) PROVE CallsStay
    BY <1>16, <1>u DEF RunDequeue
  <1>17. ASSUME NEW t \in Thread, RunDequeuePartly(t) PROVE CallsStay
    BY <1>17, <1>u DEF RunDequeuePartly
  <1>18. ASSUME NEW t \in Thread, Unlock(t) PROVE CallsStay
    BY <1>18, <1>0 DEF Unlock, CallsStay, Called, NotCalled, TypeOKOps
  <1>19. ASSUME NEW t \in Thread, Callback(t) PROVE CallsStay
    BY <1>19, <1>u DEF Callback
  <1>20. ASSUME NEW t \in Thread \ CancelCloser, Return(t) PROVE CallsStay
    BY <1>20, <1>0 DEF Return, CallsStay, Called, NotCalled, TypeOKOps
  <1>21. ASSUME NEW t \in CancelCloser, ReturnOfClose(t) PROVE CallsStay
    BY <1>21, <1>0 DEF ReturnOfClose, CallsStay, Called, NotCalled, TypeOKOps
  <1>22. ASSUME NEW c \in Canceller, CancelAttempt(c) PROVE CallsStay
    BY <1>22, <1>0 DEF CancelAttempt, CallsStay, Called, NotCalled, TypeOKOps
  <1>23. ASSUME NEW c \in Canceller, CancelNothing(c) PROVE CallsStay
    BY <1>23, <1>0 DEF CancelNothing, CallsStay, Called, NotCalled, TypeOKOps
  <1>24. CASE UNCHANGED vars
    BY <1>24, <1>u DEF vars
  <1> QED
    BY <1>1, <1>2, <1>3, <1>4, <1>5, <1>6, <1>7, <1>8, <1>9, <1>10, <1>11, <1>12, <1>13, <1>14, <1>15, <1>16, <1>17, <1>18, <1>19, <1>20, <1>21, <1>22, <1>23, <1>24 DEF OneStep

\* The types of the tuples.
LEMMA TypeOKTuplesStep ==
  ASSUME BarrierAssumption, TypeInv, OneStep \/ UNCHANGED vars
  PROVE  TypeOKTuples'
  <1>u. ASSUME UNCHANGED <<queue, elements, incomplete, input_index, batch, got>> PROVE TypeOKTuples'
    BY <1>u DEF TypeInv, TypeOK, TypeOKTuples
  <1>0. TypeOKTuples /\ TypeOKAttempts /\ IsFiniteSet(queue)
    BY DEF TypeInv, TypeOK
  <1>1. ASSUME NEW o \in Op, Ends(o) PROVE TypeOKTuples'
    BY <1>1, <1>u DEF Ends
  <1>2. ASSUME NEW o \in Inserter, InsertEnds(o) PROVE TypeOKTuples'
    <2> DEFINE r == InsertAll(o)
    <2>0. pc[o] = "idle"
      BY <1>2 DEF InsertEnds
    <2>1. LoopOK(r.inc, r.ready, r.all, r.fresh, r.status, o, Len(Keys[o]))
      BY <2>0, InsertAllOK
    <2>2. NextIndex(r) \in Nat
      BY <1>0 DEF NextIndex, TypeOKTuples
    <2>3. incomplete' = r.inc /\ elements' = r.all /\ input_index' = NextIndex(r) /\ got' = got /\ queue' = queue
      BY <1>2 DEF InsertEnds
    <2> HIDE DEF r
    <2>4. elements' \in SUBSET Element
      BY <2>1, <2>3 DEF LoopOK
    <2>5. DOMAIN incomplete' \subseteq Key /\ \A k \in DOMAIN incomplete' :
            incomplete'[k] \in [element : Element, have : SUBSET Component]
      BY <2>1, <2>3 DEF LoopOK, IncType, TupleOK
    <2>6. batch' = batch
      BY <1>2 DEF InsertEnds
    <2> QED
      BY <1>0, <2>2, <2>3, <2>4, <2>5, <2>6 DEF TypeOKTuples
  <1>3. ASSUME NEW o \in Inserter, InsertReady(o) PROVE TypeOKTuples'
    <2> DEFINE r == InsertAll(o)
    <2>0. pc[o] = "idle"
      BY <1>3 DEF InsertReady
    <2>1. LoopOK(r.inc, r.ready, r.all, r.fresh, r.status, o, Len(Keys[o]))
      BY <2>0, InsertAllOK
    <2>2. NextIndex(r) \in Nat
      BY <1>0 DEF NextIndex, TypeOKTuples
    <2>3. incomplete' = r.inc /\ elements' = r.all /\ input_index' = NextIndex(r) /\ got' = got /\ queue' = queue
      BY <1>3 DEF InsertReady
    <2> HIDE DEF r
    <2>4. elements' \in SUBSET Element
      BY <2>1, <2>3 DEF LoopOK
    <2>5. DOMAIN incomplete' \subseteq Key /\ \A k \in DOMAIN incomplete' :
            incomplete'[k] \in [element : Element, have : SUBSET Component]
      BY <2>1, <2>3 DEF LoopOK, IncType, TupleOK
    <2>6. batch' \in [Inserter -> Seq(Element)]
      <3>1. r.ready \in Seq(Element)
        BY <2>1 DEF LoopOK
      <3>2. batch' = [batch EXCEPT ![o] = r.ready]
        BY <1>3 DEF InsertReady, r
      <3> QED
        BY <1>0, <3>1, <3>2 DEF TypeOKTuples
    <2> QED
      BY <1>0, <2>2, <2>3, <2>4, <2>5, <2>6 DEF TypeOKTuples
  <1>4. ASSUME NEW o \in Taker, TakeStarts(o) PROVE TypeOKTuples'
    BY <1>4, <1>u DEF TakeStarts
  <1>5. ASSUME NEW o \in Closer, CloseBegins(o) PROVE TypeOKTuples'
    <2>1. CASE incomplete' = incomplete
      BY <1>5, <1>u, <2>1 DEF CloseBegins
    <2>2. CASE incomplete' = <<>>
      BY <1>5, <1>0, <2>2 DEF CloseBegins, TypeOKTuples
    <2> QED
      BY <1>5, <2>1, <2>2 DEF CloseBegins, Cleared
  <1>6. ASSUME NEW o \in Closer, CloseEnds(o) PROVE TypeOKTuples'
    <2>1. CASE incomplete' = incomplete
      BY <1>6, <1>u, <2>1 DEF CloseEnds
    <2>2. CASE incomplete' = <<>>
      BY <1>6, <1>0, <2>2 DEF CloseEnds, TypeOKTuples
    <2> QED
      BY <1>6, <2>1, <2>2 DEF CloseEnds, Cleared
  <1>7. ASSUME NEW o \in Closer, CloseForgets(o) PROVE TypeOKTuples'
    <2>1. CASE incomplete' = incomplete
      BY <1>7, <1>u, <2>1 DEF CloseForgets
    <2>2. CASE incomplete' = <<>>
      BY <1>7, <1>0, <2>2 DEF CloseForgets, TypeOKTuples
    <2> QED
      BY <1>7, <2>1, <2>2 DEF CloseForgets, Cleared
  <1>8. ASSUME NEW o \in Inserter, AppendEnqueue(o) PROVE TypeOKTuples'
    <2>1. batch' \in [Inserter -> Seq(Element)]
      BY <1>8, <1>0 DEF AppendEnqueue, TypeOKTuples
    <2> QED
      BY <1>8, <1>0, <2>1 DEF AppendEnqueue, TypeOKTuples
  <1>9. ASSUME NEW o \in Taker, AppendDequeue(o) PROVE TypeOKTuples'
    BY <1>9, <1>u DEF AppendDequeue
  <1>10. ASSUME NEW o \in Closer \ CancelCloser, AppendClose(o) PROVE TypeOKTuples'
    BY <1>10, <1>u DEF AppendClose
  <1>11. ASSUME NEW o \in CancelCloser, CancelEnqueues(o) PROVE TypeOKTuples'
    BY <1>11, <1>u DEF CancelEnqueues
  <1>12. ASSUME NEW t \in Thread, Lock(t) PROVE TypeOKTuples'
    BY <1>12, <1>u DEF Lock
  <1>13. ASSUME NEW t \in Thread, RefuseEnqueue(t) PROVE TypeOKTuples'
    BY <1>13, <1>u DEF RefuseEnqueue
  <1>14. ASSUME NEW t \in Thread, RunEnqueue(t) PROVE TypeOKTuples'
    <2>1. Range(Head(enq).batch) \subseteq Element
      BY <1>14, <1>0, EnqueueHead, RangeSeq DEF RunEnqueue
    <2> QED
      BY <1>14, <1>0, <2>1 DEF RunEnqueue, TypeOKTuples
  <1>15. ASSUME NEW t \in Thread, FailDequeue(t) PROVE TypeOKTuples'
    BY <1>15, <1>u DEF FailDequeue
  <1>16. ASSUME NEW t \in Thread, RunDequeue(t) PROVE TypeOKTuples'
    <2> DEFINE a == Head(deq)
    <2>1. a.op \in Taker /\ a.requested \in Nat /\ a.tuple \in Seq(Element)
      BY <1>16, <1>0, DequeueHead DEF RunDequeue
    <2>2. PICK s \in Batches(a.requested) :
            queue' = queue \ Range(s) /\ got' = [got EXCEPT ![a.op] = a.tuple \o s]
      BY <1>16 DEF RunDequeue
    <2> HIDE DEF a
    <2>3. s \in Seq(Element)
      BY <1>0, <2>1, BatchFacts DEF TypeOKTuples
    <2>4. a.tuple \o s \in Seq(Element)
      BY <2>1, <2>3, RangeConcat
    <2>5. got' \in [Thread -> Seq(Element)]
      BY <1>0, <2>2, <2>4 DEF TypeOKTuples
    <2>6. queue' \in SUBSET Element
      BY <1>0, <2>2 DEF TypeOKTuples
    <2> QED
      BY <1>16, <1>0, <2>5, <2>6 DEF RunDequeue, TypeOKTuples
  <1>17. ASSUME NEW t \in Thread, RunDequeuePartly(t) PROVE TypeOKTuples'
    <2>1. queue' \in SUBSET Element
      BY <1>17, <1>0 DEF RunDequeuePartly, TypeOKTuples
    <2> QED
      BY <1>17, <1>0, <2>1 DEF RunDequeuePartly, TypeOKTuples
  <1>18. ASSUME NEW t \in Thread, Unlock(t) PROVE TypeOKTuples'
    BY <1>18, <1>u DEF Unlock
  <1>19. ASSUME NEW t \in Thread, Callback(t) PROVE TypeOKTuples'
    BY <1>19, <1>u DEF Callback
  <1>20. ASSUME NEW t \in Thread \ CancelCloser, Return(t) PROVE TypeOKTuples'
    BY <1>20, <1>u DEF Return
  <1>21. ASSUME NEW t \in CancelCloser, ReturnOfClose(t) PROVE TypeOKTuples'
    BY <1>21, <1>u DEF ReturnOfClose
  <1>22. ASSUME NEW c \in Canceller, CancelAttempt(c) PROVE TypeOKTuples'
    BY <1>22, <1>u DEF CancelAttempt
  <1>23. ASSUME NEW c \in Canceller, CancelNothing(c) PROVE TypeOKTuples'
    BY <1>23, <1>u DEF CancelNothing
  <1>24. CASE UNCHANGED vars
    BY <1>24, <1>u DEF vars, pqVars, barrierVars
  <1> QED
    BY <1>1, <1>2, <1>3, <1>4, <1>5, <1>6, <1>7, <1>8, <1>9, <1>10, <1>11, <1>12, <1>13, <1>14, <1>15, <1>16, <1>17, <1>18, <1>19, <1>20, <1>21, <1>22, <1>23, <1>24 DEF OneStep


\* The tuples of incomplete_ are known, and were begun by a call.
LEMMA TupleInvStep ==
  ASSUME BarrierAssumption, TypeInv, OneStep \/ UNCHANGED vars
  PROVE  TupleInv'
  <1>u. ASSUME UNCHANGED <<incomplete, elements, pc>> PROVE TupleInv'
    BY <1>u DEF TypeInv, TupleInv, IncompleteIsIncomplete, Called
  <1>0. /\ TypeOKTuples /\ TypeOKOps /\ TupleInv /\ CallsStay
        /\ \A e \in elements : e.by \in Thread
        /\ Inserter \subseteq Thread
    <2>1. /\ TypeOKTuples /\ TypeOKOps /\ TupleInv /\ Inserter \subseteq Thread
      BY DEF TypeInv, TypeOK, BarrierAssumption, Op
    <2>2. CallsStay
      BY <2>1, CalledStep
    <2>3. \A e \in elements : e.by \in Inserter
      BY <2>1 DEF TypeOKTuples, Element
    <2> QED
      BY <2>1, <2>2, <2>3
  <1>s. ASSUME UNCHANGED <<incomplete, elements>> PROVE TupleInv'
    BY <1>0, <1>s DEF TupleInv, IncompleteIsIncomplete, CallsStay, Called
  <1>1. ASSUME NEW o \in Op, Ends(o) PROVE TupleInv'
    BY <1>1, <1>s DEF Ends
  <1>2. ASSUME NEW o \in Inserter, InsertEnds(o) PROVE TupleInv'
    <2> DEFINE r == InsertAll(o)
    <2>0. pc[o] = "idle"
      BY <1>2 DEF InsertEnds
    <2>1. LoopOK(r.inc, r.ready, r.all, r.fresh, r.status, o, Len(Keys[o])) /\ AllBegun(r.inc)
      BY <2>0, InsertAllOK
    <2>2. incomplete' = r.inc /\ elements' = r.all
      BY <1>2 DEF InsertEnds
    <2> HIDE DEF r
    <2>3. IncompleteIsIncomplete'
      BY <2>1, <2>2 DEF LoopOK, IncType, TupleOK, AllBegun, Begun, IncompleteIsIncomplete
    <2>4. ASSUME NEW k \in DOMAIN incomplete' PROVE incomplete'[k].element \in elements'
      <3>1. InInc(r.inc, incomplete'[k].element)
        BY <2>2 DEF InInc
      <3>2. InInc(incomplete, incomplete'[k].element) \/ incomplete'[k].element \in r.all \ elements
        BY <2>1, <3>1 DEF LoopOK
      <3>3. elements \subseteq r.all
        BY <2>1 DEF LoopOK
      <3> QED
        BY <1>0, <2>2, <3>2, <3>3 DEF InInc, TupleInv
    <2>5. Called(o)'
      BY <1>2, <1>0 DEF InsertEnds, Called, NotCalled, TypeOKOps
    <2>6. ASSUME NEW e \in elements' PROVE Called(e.by)'
      <3>1. e \in elements \/ e.by = o
        BY <2>1, <2>2 DEF LoopOK
      <3> QED
        BY <1>0, <3>1, <2>5 DEF TupleInv, CallsStay, Called
    <2> QED
      BY <2>3, <2>4, <2>6 DEF TupleInv
  <1>3. ASSUME NEW o \in Inserter, InsertReady(o) PROVE TupleInv'
    <2> DEFINE r == InsertAll(o)
    <2>0. pc[o] = "idle"
      BY <1>3 DEF InsertReady
    <2>1. LoopOK(r.inc, r.ready, r.all, r.fresh, r.status, o, Len(Keys[o])) /\ AllBegun(r.inc)
      BY <2>0, InsertAllOK
    <2>2. incomplete' = r.inc /\ elements' = r.all
      BY <1>3 DEF InsertReady
    <2> HIDE DEF r
    <2>3. IncompleteIsIncomplete'
      BY <2>1, <2>2 DEF LoopOK, IncType, TupleOK, AllBegun, Begun, IncompleteIsIncomplete
    <2>4. ASSUME NEW k \in DOMAIN incomplete' PROVE incomplete'[k].element \in elements'
      <3>1. InInc(r.inc, incomplete'[k].element)
        BY <2>2 DEF InInc
      <3>2. InInc(incomplete, incomplete'[k].element) \/ incomplete'[k].element \in r.all \ elements
        BY <2>1, <3>1 DEF LoopOK
      <3>3. elements \subseteq r.all
        BY <2>1 DEF LoopOK
      <3> QED
        BY <1>0, <2>2, <3>2, <3>3 DEF InInc, TupleInv
    <2>5. Called(o)'
      BY <1>3, <1>0 DEF InsertReady, Called, NotCalled, TypeOKOps
    <2>6. ASSUME NEW e \in elements' PROVE Called(e.by)'
      <3>1. e \in elements \/ e.by = o
        BY <2>1, <2>2 DEF LoopOK
      <3> QED
        BY <1>0, <3>1, <2>5 DEF TupleInv, CallsStay, Called
    <2> QED
      BY <2>3, <2>4, <2>6 DEF TupleInv
  <1>4. ASSUME NEW o \in Taker, TakeStarts(o) PROVE TupleInv'
    BY <1>4, <1>s DEF TakeStarts
  <1>5. ASSUME NEW o \in Closer, CloseBegins(o) PROVE TupleInv'
    <2>1. CASE incomplete' = incomplete
      BY <1>5, <1>s, <2>1 DEF CloseBegins
    <2>2. CASE incomplete' = <<>>
      BY <1>5, <1>0, <2>2 DEF CloseBegins, TupleInv, IncompleteIsIncomplete, CallsStay, Called
    <2> QED
      BY <1>5, <2>1, <2>2 DEF CloseBegins, Cleared
  <1>6. ASSUME NEW o \in Closer, CloseEnds(o) PROVE TupleInv'
    <2>1. CASE incomplete' = incomplete
      BY <1>6, <1>s, <2>1 DEF CloseEnds
    <2>2. CASE incomplete' = <<>>
      BY <1>6, <1>0, <2>2 DEF CloseEnds, TupleInv, IncompleteIsIncomplete, CallsStay, Called
    <2> QED
      BY <1>6, <2>1, <2>2 DEF CloseEnds, Cleared
  <1>7. ASSUME NEW o \in Closer, CloseForgets(o) PROVE TupleInv'
    <2>1. CASE incomplete' = incomplete
      BY <1>7, <1>s, <2>1 DEF CloseForgets
    <2>2. CASE incomplete' = <<>>
      BY <1>7, <1>0, <2>2 DEF CloseForgets, TupleInv, IncompleteIsIncomplete, CallsStay, Called
    <2> QED
      BY <1>7, <2>1, <2>2 DEF CloseForgets, Cleared
  <1>8. ASSUME NEW o \in Inserter, AppendEnqueue(o) PROVE TupleInv'
    BY <1>8, <1>s DEF AppendEnqueue
  <1>9. ASSUME NEW o \in Taker, AppendDequeue(o) PROVE TupleInv'
    BY <1>9, <1>s DEF AppendDequeue
  <1>10. ASSUME NEW o \in Closer \ CancelCloser, AppendClose(o) PROVE TupleInv'
    BY <1>10, <1>s DEF AppendClose
  <1>11. ASSUME NEW o \in CancelCloser, CancelEnqueues(o) PROVE TupleInv'
    BY <1>11, <1>s DEF CancelEnqueues
  <1>12. ASSUME NEW t \in Thread, Lock(t) PROVE TupleInv'
    BY <1>12, <1>s DEF Lock
  <1>13. ASSUME NEW t \in Thread, RefuseEnqueue(t) PROVE TupleInv'
    BY <1>13, <1>u DEF RefuseEnqueue
  <1>14. ASSUME NEW t \in Thread, RunEnqueue(t) PROVE TupleInv'
    BY <1>14, <1>u DEF RunEnqueue
  <1>15. ASSUME NEW t \in Thread, FailDequeue(t) PROVE TupleInv'
    BY <1>15, <1>u DEF FailDequeue
  <1>16. ASSUME NEW t \in Thread, RunDequeue(t) PROVE TupleInv'
    BY <1>16, <1>u DEF RunDequeue
  <1>17. ASSUME NEW t \in Thread, RunDequeuePartly(t) PROVE TupleInv'
    BY <1>17, <1>u DEF RunDequeuePartly
  <1>18. ASSUME NEW t \in Thread, Unlock(t) PROVE TupleInv'
    BY <1>18, <1>s DEF Unlock
  <1>19. ASSUME NEW t \in Thread, Callback(t) PROVE TupleInv'
    BY <1>19, <1>u DEF Callback
  <1>20. ASSUME NEW t \in Thread \ CancelCloser, Return(t) PROVE TupleInv'
    BY <1>20, <1>s DEF Return
  <1>21. ASSUME NEW t \in CancelCloser, ReturnOfClose(t) PROVE TupleInv'
    BY <1>21, <1>s DEF ReturnOfClose
  <1>22. ASSUME NEW c \in Canceller, CancelAttempt(c) PROVE TupleInv'
    BY <1>22, <1>s DEF CancelAttempt
  <1>23. ASSUME NEW c \in Canceller, CancelNothing(c) PROVE TupleInv'
    BY <1>23, <1>s DEF CancelNothing
  <1>24. CASE UNCHANGED vars
    BY <1>24, <1>u DEF vars, barrierVars
  <1> QED
    BY <1>1, <1>2, <1>3, <1>4, <1>5, <1>6, <1>7, <1>8, <1>9, <1>10, <1>11, <1>12, <1>13, <1>14, <1>15, <1>16, <1>17, <1>18, <1>19, <1>20, <1>21, <1>22, <1>23, <1>24 DEF OneStep


\* The queue is finite.
LEMMA FiniteStep ==
  ASSUME BarrierAssumption, TypeInv, OneStep \/ UNCHANGED vars
  PROVE  IsFiniteSet(queue)'
  <1>0. TypeOKAttempts /\ IsFiniteSet(queue)
    BY DEF TypeInv, TypeOK
  <1>u. ASSUME UNCHANGED <<queue>> PROVE IsFiniteSet(queue)'
    BY <1>0, <1>u
  <1>1. ASSUME NEW o \in Op, Ends(o) PROVE IsFiniteSet(queue)'
    BY <1>1, <1>u DEF Ends
  <1>2. ASSUME NEW o \in Inserter, InsertEnds(o) PROVE IsFiniteSet(queue)'
    BY <1>2, <1>u DEF InsertEnds
  <1>3. ASSUME NEW o \in Inserter, InsertReady(o) PROVE IsFiniteSet(queue)'
    BY <1>3, <1>u DEF InsertReady
  <1>4. ASSUME NEW o \in Taker, TakeStarts(o) PROVE IsFiniteSet(queue)'
    BY <1>4, <1>u DEF TakeStarts
  <1>5. ASSUME NEW o \in Closer, CloseBegins(o) PROVE IsFiniteSet(queue)'
    BY <1>5, <1>u DEF CloseBegins
  <1>6. ASSUME NEW o \in Closer, CloseEnds(o) PROVE IsFiniteSet(queue)'
    BY <1>6, <1>u DEF CloseEnds
  <1>7. ASSUME NEW o \in Closer, CloseForgets(o) PROVE IsFiniteSet(queue)'
    BY <1>7, <1>u DEF CloseForgets
  <1>8. ASSUME NEW o \in Inserter, AppendEnqueue(o) PROVE IsFiniteSet(queue)'
    BY <1>8, <1>u DEF AppendEnqueue
  <1>9. ASSUME NEW o \in Taker, AppendDequeue(o) PROVE IsFiniteSet(queue)'
    BY <1>9, <1>u DEF AppendDequeue
  <1>10. ASSUME NEW o \in Closer \ CancelCloser, AppendClose(o) PROVE IsFiniteSet(queue)'
    BY <1>10, <1>u DEF AppendClose
  <1>11. ASSUME NEW o \in CancelCloser, CancelEnqueues(o) PROVE IsFiniteSet(queue)'
    BY <1>11, <1>u DEF CancelEnqueues
  <1>12. ASSUME NEW t \in Thread, Lock(t) PROVE IsFiniteSet(queue)'
    BY <1>12, <1>u DEF Lock
  <1>13. ASSUME NEW t \in Thread, RefuseEnqueue(t) PROVE IsFiniteSet(queue)'
    BY <1>13, <1>u DEF RefuseEnqueue
  <1>14. ASSUME NEW t \in Thread, RunEnqueue(t) PROVE IsFiniteSet(queue)'
    <2>1. Head(enq).batch \in Seq(Element)
      BY <1>14, <1>0, EnqueueHead DEF RunEnqueue
    <2>2. IsFiniteSet(Range(Head(enq).batch))
      BY <2>1, RangeFinite
    <2> QED
      BY <1>14, <1>0, <2>2, FS_Union DEF RunEnqueue
  <1>15. ASSUME NEW t \in Thread, FailDequeue(t) PROVE IsFiniteSet(queue)'
    BY <1>15, <1>u DEF FailDequeue
  <1>16. ASSUME NEW t \in Thread, RunDequeue(t) PROVE IsFiniteSet(queue)'
    <2>1. queue' \in SUBSET queue
      BY <1>16 DEF RunDequeue
    <2> QED
      BY <1>0, <2>1, FS_Subset
  <1>17. ASSUME NEW t \in Thread, RunDequeuePartly(t) PROVE IsFiniteSet(queue)'
    <2>1. queue' \in SUBSET queue
      BY <1>17 DEF RunDequeuePartly
    <2> QED
      BY <1>0, <2>1, FS_Subset
  <1>18. ASSUME NEW t \in Thread, Unlock(t) PROVE IsFiniteSet(queue)'
    BY <1>18, <1>u DEF Unlock
  <1>19. ASSUME NEW t \in Thread, Callback(t) PROVE IsFiniteSet(queue)'
    BY <1>19, <1>u DEF Callback
  <1>20. ASSUME NEW t \in Thread \ CancelCloser, Return(t) PROVE IsFiniteSet(queue)'
    BY <1>20, <1>u DEF Return
  <1>21. ASSUME NEW t \in CancelCloser, ReturnOfClose(t) PROVE IsFiniteSet(queue)'
    BY <1>21, <1>u DEF ReturnOfClose
  <1>22. ASSUME NEW c \in Canceller, CancelAttempt(c) PROVE IsFiniteSet(queue)'
    BY <1>22, <1>u DEF CancelAttempt
  <1>23. ASSUME NEW c \in Canceller, CancelNothing(c) PROVE IsFiniteSet(queue)'
    BY <1>23, <1>u DEF CancelNothing
  <1>24. CASE UNCHANGED vars
    BY <1>24, <1>u DEF vars, pqVars
  <1> QED
    BY <1>1, <1>2, <1>3, <1>4, <1>5, <1>6, <1>7, <1>8, <1>9, <1>10, <1>11, <1>12, <1>13, <1>14, <1>15, <1>16, <1>17, <1>18, <1>19, <1>20, <1>21, <1>22, <1>23, <1>24 DEF OneStep


\* The types hold initially.
LEMMA TypeInvInit == BarrierAssumption /\ ThreadAssumption /\ Init => TypeInv
  <1> SUFFICES ASSUME BarrierAssumption, ThreadAssumption, Init PROVE TypeInv
    OBVIOUS
  <1>1. TypeOKTuples
    BY DEF Init, PQInit, TypeOKTuples
  <1>2. TypeOKFlags
    BY DEF Init, PQInit, TypeOKFlags
  <1>3. TypeOKAttempts
    BY DEF Init, PQInit, TypeOKAttempts
  <1>4. TypeOKOps
    BY DEF Init, PQInit, TypeOKOps, Status
  <1>5. TupleInv
    BY DEF Init, TupleInv, IncompleteIsIncomplete
  <1>6. IsFiniteSet(queue)
    BY FS_EmptySet DEF Init, PQInit
  <1>7. NumInv
    BY DEF Init, NumInv, BarrierAssumption, Op
  <1> QED
    BY <1>1, <1>2, <1>3, <1>4, <1>5, <1>6, <1>7 DEF TypeInv, TypeOK

\* Every step keeps them.
LEMMA TypeInvStep ==
  ASSUME BarrierAssumption, TypeInv, OneStep \/ UNCHANGED vars
  PROVE  TypeInv'
  <1>1. TypeOKTuples' /\ TypeOKFlags' /\ TypeOKAttempts' /\ TypeOKOps'
    BY TypeOKTuplesStep, TypeOKFlagsStep, TypeOKAttemptsStep, TypeOKOpsStep
  <1>2. TupleInv' /\ IsFiniteSet(queue)' /\ NumInv'
    BY TupleInvStep, FiniteStep, NumInvStep
  <1> QED
    BY <1>1, <1>2 DEF TypeInv, TypeOK

(***************************************************************************)
(* What the steps do to the attempts and to the lists of callbacks.        *)
(***************************************************************************)

\* Who is who.
LEMMA Sorts ==
  ASSUME BarrierAssumption, ThreadAssumption
  PROVE  /\ Inserter \subseteq Op /\ Taker \subseteq Op /\ Closer \subseteq Op
         /\ Op \subseteq Thread /\ Canceller \subseteq Thread /\ Nobody \notin Thread
         /\ Op = Inserter \cup Taker \cup Closer /\ Thread = Op \cup Canceller
         /\ Small \subseteq Taker /\ CancelCloser \subseteq Closer
         /\ \A o \in Inserter : o \notin Taker /\ o \notin Closer
         /\ \A o \in Taker : o \notin Closer
         /\ \A o \in Op : o \notin Canceller
         /\ \A c \in Canceller : Victim[c] \in Inserter \cup Taker
  BY DEF BarrierAssumption, ThreadAssumption, Op

\* A list of attempts after another first one.
LEMMA OpsCons ==
  ASSUME NEW R, NEW b \in R, NEW s \in Seq(R)
  PROVE  /\ <<b>> \o s \in Seq(R) /\ Range(<<b>> \o s) = {b} \cup Range(s)
         /\ <<b>> \o s # <<>> /\ Head(<<b>> \o s) = b /\ Tail(<<b>> \o s) = s
         /\ OpsApart(s) /\ b.op \notin OpsOf(s) => OpsApart(<<b>> \o s)
  <1> DEFINE u == <<b>> \o s
  <1>1. <<b>> \in Seq(R) /\ Range(<<b>>) = {b} /\ Len(<<b>>) = 1 /\ <<b>>[1] = b
    <2>1. Len(<<b>>) = 1 /\ <<b>>[1] = b /\ <<b>> \in Seq(R)
      OBVIOUS
    <2>2. Range(<<b>>) = {<<b>>[i] : i \in 1..Len(<<b>>)}
      BY <2>1, RangeSeq
    <2>3. \A i : i \in 1..1 <=> i = 1
      OBVIOUS
    <2> QED
      BY <2>1, <2>2, <2>3
  <1>2. u \in Seq(R) /\ Range(u) = {b} \cup Range(s)
    <2> DEFINE v == <<b>>
    <2>1. v \in Seq(R) /\ Range(v) = {b}
      BY <1>1
    <2> HIDE DEF v
    <2>2. v \o s \in Seq(R) /\ Range(v \o s) = Range(v) \cup Range(s)
      BY <2>1, RangeConcat
    <2> QED
      BY <2>1, <2>2 DEF v
  <1>3. u # <<>> /\ Head(u) = b /\ Tail(u) = s
    <2>1. /\ Len(u) = 1 + Len(s) /\ Len(s) \in Nat /\ u[1] = b
          /\ \A i \in 1..Len(s) : u[i + 1] = s[i]
      BY <1>1, ConcatProperties
    <2>2. u # <<>> /\ Head(u) = u[1] /\ Tail(u) \in Seq(R) /\ Len(Tail(u)) = Len(s)
      BY <1>2, <2>1
    <2>3. \A i \in 1..Len(Tail(u)) : Tail(u)[i] = u[i + 1]
      BY <1>2, <2>2, HeadTailProperties
    <2>4. Tail(u) = s
      BY <2>1, <2>2, <2>3, SeqEqual
    <2> QED
      BY <2>1, <2>2, <2>4
  <1> HIDE DEF u
  <1>4. ASSUME OpsApart(s), b.op \notin OpsOf(s) PROVE OpsApart(u)
    <2>1. OpsOf(s) = {a.op : a \in Range(s)}
      BY OpsRange
    <2>2. \A a \in Range(s) : a.op # b.op
      BY <1>4, <2>1
    <2>3. \A a, c \in Range(u) : a.op = c.op => a = c
      BY <1>2, <1>4, <2>2 DEF OpsApart
    <2>4. Distinct(u)
      <3>1. /\ Head(u) = u[1] /\ Len(Tail(u)) \in Nat /\ Len(Tail(u)) + 1 = Len(u)
            /\ \A i \in 1..Len(Tail(u)) : Tail(u)[i] = u[i + 1]
        BY <1>2, <1>3, RangeTail
      <3>2. \A i \in 1..Len(u) : i = 1 \/ (i - 1 \in 1..Len(s) /\ (i - 1) + 1 = i)
        BY <1>3, <3>1
      <3>3. \A i \in 1..Len(u) : i # 1 => u[i] = s[i - 1] /\ i - 1 \in 1..Len(s)
        BY <1>3, <3>1, <3>2
      <3>4. \A i \in 1..Len(s) : s[i] # b
        BY <2>2, RangeSeq
      <3>5. u[1] = b
        BY <1>3, <3>1
      <3>6. \A i, j \in 1..Len(s) : s[i] = s[j] => i = j
        BY <1>4 DEF OpsApart, Distinct
      <3> SUFFICES ASSUME NEW i \in 1..Len(u), NEW j \in 1..Len(u), u[i] = u[j] PROVE i = j
        BY DEF Distinct
      <3>7. CASE i # 1 /\ j # 1
        <4>1. i - 1 = j - 1
          BY <3>3, <3>6, <3>7
        <4> QED
          BY <4>1
      <3>8. CASE i = 1 \/ j = 1
        BY <3>3, <3>4, <3>5, <3>8
      <3> QED
        BY <3>7, <3>8
    <2> QED
      BY <2>3, <2>4 DEF OpsApart
  <1> QED
    BY <1>2, <1>3, <1>4 DEF u

\* An operation is put on a list.
LEMMA ListGrows ==
  ASSUME TypeOKAttempts, NEW t \in Thread, NEW h \in Op,
         clean_up' = [clean_up EXCEPT ![t] = Append(@, h)]
  PROVE  /\ Range(clean_up'[t]) = Range(clean_up[t]) \cup {h} /\ clean_up'[t] # <<>>
         /\ \A u \in Thread : u # t => clean_up'[u] = clean_up[u]
         /\ Distinct(clean_up[t]) /\ h \notin Range(clean_up[t]) => Distinct(clean_up'[t])
         /\ \A o : Listed(o)' <=> Listed(o) \/ o = h
  <1>1. clean_up[t] \in Seq(Op) /\ clean_up'[t] = Append(clean_up[t], h)
    BY DEF TypeOKAttempts
  <1>2. \A u \in Thread : u # t => clean_up'[u] = clean_up[u]
    BY DEF TypeOKAttempts
  <1>3. Range(clean_up'[t]) = Range(clean_up[t]) \cup {h}
    BY <1>1, RangeAppend
  <1>4. clean_up'[t] # <<>>
    BY <1>1
  <1>5. Distinct(clean_up[t]) /\ h \notin Range(clean_up[t]) => Distinct(clean_up'[t])
    BY <1>1, DistinctAppend
  <1>6. \A o : Listed(o)' <=> Listed(o) \/ o = h
    BY <1>2, <1>3 DEF Listed
  <1> QED
    BY <1>2, <1>3, <1>4, <1>5, <1>6

\* Its callback is run.
LEMMA ListShrinks ==
  ASSUME TypeOKAttempts, NEW t \in Thread, clean_up[t] # <<>>,
         clean_up' = [clean_up EXCEPT ![t] = Tail(@)]
  PROVE  \E h \in Op :
           /\ h = Head(clean_up[t])
           /\ Range(clean_up[t]) = Range(clean_up'[t]) \cup {h}
           /\ \A u \in Thread : u # t => clean_up'[u] = clean_up[u]
           /\ Distinct(clean_up[t]) => Distinct(clean_up'[t]) /\ h \notin Range(clean_up'[t])
  <1>1. clean_up[t] \in Seq(Op) /\ clean_up'[t] = Tail(clean_up[t])
    BY DEF TypeOKAttempts
  <1>2. \A u \in Thread : u # t => clean_up'[u] = clean_up[u]
    BY DEF TypeOKAttempts
  <1>3. Head(clean_up[t]) \in Op /\ Range(clean_up[t]) = {Head(clean_up[t])} \cup Range(clean_up'[t])
    BY <1>1, RangeTail
  <1>4. Distinct(clean_up[t]) => Distinct(clean_up'[t]) /\ Head(clean_up[t]) \notin Range(clean_up'[t])
    BY <1>1, DistinctTail
  <1> QED
    BY <1>2, <1>3, <1>4

\* The attempt at the front, of operation h, has left for the list of thread t.
EnqueueLeft(h, t) ==
    /\ h = Head(enq).op /\ Head(enq) \in Range(enq)
    /\ OpsOf(enq) = {h} \cup OpsOf(enq') /\ Range(enq) = {Head(enq)} \cup Range(enq')
    /\ OpsApart(enq) => OpsApart(enq') /\ h \notin OpsOf(enq')
    /\ Range(clean_up'[t]) = Range(clean_up[t]) \cup {h} /\ clean_up'[t] # <<>>
    /\ \A u \in Thread : u # t => clean_up'[u] = clean_up[u]
    /\ Distinct(clean_up[t]) /\ h \notin Range(clean_up[t]) => Distinct(clean_up'[t])
    /\ \A o : Listed(o)' <=> Listed(o) \/ o = h

\* An enqueue attempt leaves the queue of attempts.
LEMMA EnqueueLeaves ==
  ASSUME TypeOKAttempts, enq # <<>>, NEW t \in Thread,
         clean_up' = [clean_up EXCEPT ![t] = Append(@, Head(enq).op)], enq' = Tail(enq)
  PROVE  \E h \in Inserter \cup Closer : EnqueueLeft(h, t)
  <1>1. enq \in Seq(EnqueueAttempts)
    BY DEF TypeOKAttempts
  <1>2. PICK h \in Inserter \cup Closer : h = Head(enq).op /\ h \in Op
    BY EnqueueHead DEF Op
  <1>3. /\ OpsOf(enq) = {h} \cup OpsOf(enq') /\ Range(enq) = {Head(enq)} \cup Range(enq')
        /\ OpsApart(enq) => OpsApart(enq') /\ h \notin OpsOf(enq')
        /\ Head(enq) \in Range(enq)
    BY <1>1, <1>2, OpsTail, RangeTail
  <1>4. clean_up' = [clean_up EXCEPT ![t] = Append(@, h)]
    BY <1>2
  <1>5. /\ Range(clean_up'[t]) = Range(clean_up[t]) \cup {h} /\ clean_up'[t] # <<>>
        /\ \A u \in Thread : u # t => clean_up'[u] = clean_up[u]
        /\ Distinct(clean_up[t]) /\ h \notin Range(clean_up[t]) => Distinct(clean_up'[t])
        /\ \A o : Listed(o)' <=> Listed(o) \/ o = h
    BY <1>2, <1>4, ListGrows
  <1> QED
    BY <1>2, <1>3, <1>5 DEF EnqueueLeft

\* The attempt at the front, of operation h, has left for the list of thread t.
DequeueLeft(h, t) ==
    /\ h = Head(deq).op /\ Head(deq) \in Range(deq)
    /\ OpsOf(deq) = {h} \cup OpsOf(deq') /\ Range(deq) = {Head(deq)} \cup Range(deq')
    /\ OpsApart(deq) => OpsApart(deq') /\ h \notin OpsOf(deq')
    /\ Range(clean_up'[t]) = Range(clean_up[t]) \cup {h} /\ clean_up'[t] # <<>>
    /\ \A u \in Thread : u # t => clean_up'[u] = clean_up[u]
    /\ Distinct(clean_up[t]) /\ h \notin Range(clean_up[t]) => Distinct(clean_up'[t])
    /\ \A o : Listed(o)' <=> Listed(o) \/ o = h

\* A dequeue attempt does.
LEMMA DequeueLeaves ==
  ASSUME TypeOKAttempts, deq # <<>>, NEW t \in Thread,
         clean_up' = [clean_up EXCEPT ![t] = Append(@, Head(deq).op)], deq' = Tail(deq)
  PROVE  \E h \in Taker : DequeueLeft(h, t)
  <1>1. deq \in Seq(DequeueAttempts)
    BY DEF TypeOKAttempts
  <1>2. PICK h \in Taker : h = Head(deq).op /\ h \in Op
    BY DequeueHead DEF Op
  <1>3. /\ OpsOf(deq) = {h} \cup OpsOf(deq') /\ Range(deq) = {Head(deq)} \cup Range(deq')
        /\ OpsApart(deq) => OpsApart(deq') /\ h \notin OpsOf(deq')
        /\ Head(deq) \in Range(deq)
    BY <1>1, <1>2, OpsTail, RangeTail
  <1>4. clean_up' = [clean_up EXCEPT ![t] = Append(@, h)]
    BY <1>2
  <1>5. /\ Range(clean_up'[t]) = Range(clean_up[t]) \cup {h} /\ clean_up'[t] # <<>>
        /\ \A u \in Thread : u # t => clean_up'[u] = clean_up[u]
        /\ Distinct(clean_up[t]) /\ h \notin Range(clean_up[t]) => Distinct(clean_up'[t])
        /\ \A o : Listed(o)' <=> Listed(o) \/ o = h
    BY <1>2, <1>4, ListGrows
  <1> QED
    BY <1>2, <1>3, <1>5 DEF DequeueLeft

(***************************************************************************)
(* The mutexes, and who flushes.                                           *)
(***************************************************************************)

\* Who is in the critical section of FlushUnlocked.
LEMMA FlushInvStep ==
  ASSUME BarrierAssumption, ThreadAssumption, TypeInv, FlushInv, OneStep \/ UNCHANGED vars
  PROVE  FlushInv'
  <1>u. ASSUME UNCHANGED <<pc, queue_mu, clean_up>> PROVE FlushInv'
    BY <1>u DEF FlushInv
  <1>s. /\ Inserter \subseteq Op /\ Taker \subseteq Op /\ Closer \subseteq Op
        /\ Op \subseteq Thread /\ Canceller \subseteq Thread /\ Nobody \notin Thread
        /\ Op = Inserter \cup Taker \cup Closer
        /\ Small \subseteq Taker /\ CancelCloser \subseteq Closer
        /\ \A o \in Inserter : o \notin Taker /\ o \notin Closer
        /\ \A o \in Taker : o \notin Closer
        /\ \A o \in Op : o \notin Canceller
        /\ \A c \in Canceller : Victim[c] \in Inserter \cup Taker
    BY Sorts
  <1>0. TypeOKOps /\ TypeOKFlags /\ TypeOKAttempts
    BY DEF TypeInv, TypeOK
  <1>1. ASSUME NEW o \in Op, Ends(o) PROVE FlushInv'
    BY <1>1, <1>0, <1>s DEF Ends, FlushInv, TypeOKOps
  <1>2. ASSUME NEW o \in Inserter, InsertEnds(o) PROVE FlushInv'
    BY <1>2, <1>0, <1>s DEF InsertEnds, FlushInv, TypeOKOps
  <1>3. ASSUME NEW o \in Inserter, InsertReady(o) PROVE FlushInv'
    BY <1>3, <1>0, <1>s DEF InsertReady, FlushInv, TypeOKOps
  <1>4. ASSUME NEW o \in Taker, TakeStarts(o) PROVE FlushInv'
    BY <1>4, <1>0, <1>s DEF TakeStarts, FlushInv, TypeOKOps
  <1>5. ASSUME NEW o \in Closer, CloseBegins(o) PROVE FlushInv'
    BY <1>5, <1>0, <1>s DEF CloseBegins, FlushInv, TypeOKOps
  <1>6. ASSUME NEW o \in Closer, CloseEnds(o) PROVE FlushInv'
    BY <1>6, <1>0, <1>s DEF CloseEnds, FlushInv, TypeOKOps
  <1>7. ASSUME NEW o \in Closer, CloseForgets(o) PROVE FlushInv'
    BY <1>7, <1>0, <1>s DEF CloseForgets, FlushInv, TypeOKOps
  <1>8. ASSUME NEW o \in Inserter, AppendEnqueue(o) PROVE FlushInv'
    BY <1>8, <1>0, <1>s DEF AppendEnqueue, FlushInv, TypeOKOps
  <1>9. ASSUME NEW o \in Taker, AppendDequeue(o) PROVE FlushInv'
    BY <1>9, <1>0, <1>s DEF AppendDequeue, FlushInv, TypeOKOps
  <1>10. ASSUME NEW o \in Closer \ CancelCloser, AppendClose(o) PROVE FlushInv'
    BY <1>10, <1>0, <1>s DEF AppendClose, FlushInv, TypeOKOps
  <1>11. ASSUME NEW o \in CancelCloser, CancelEnqueues(o) PROVE FlushInv'
    BY <1>11, <1>0, <1>s DEF CancelEnqueues, FlushInv, TypeOKOps
  <1>12. ASSUME NEW t \in Thread, Lock(t) PROVE FlushInv'
    BY <1>12, <1>0, <1>s DEF Lock, FlushInv, TypeOKOps
  <1>13. ASSUME NEW t \in Thread, RefuseEnqueue(t) PROVE FlushInv'
    <2>1. queue_mu = t /\ pc[t] = "flushing" /\ UNCHANGED <<queue_mu, pc>>
      BY <1>13 DEF RefuseEnqueue, FlushInv
    <2>2. \A u \in Thread : u # t => clean_up'[u] = clean_up[u]
      BY <1>13, <1>0 DEF RefuseEnqueue, TypeOKAttempts
    <2> QED
      BY <2>1, <2>2 DEF FlushInv
  <1>14. ASSUME NEW t \in Thread, RunEnqueue(t) PROVE FlushInv'
    <2>1. queue_mu = t /\ pc[t] = "flushing" /\ UNCHANGED <<queue_mu, pc>>
      BY <1>14 DEF RunEnqueue, FlushInv
    <2>2. \A u \in Thread : u # t => clean_up'[u] = clean_up[u]
      BY <1>14, <1>0 DEF RunEnqueue, TypeOKAttempts
    <2> QED
      BY <2>1, <2>2 DEF FlushInv
  <1>15. ASSUME NEW t \in Thread, FailDequeue(t) PROVE FlushInv'
    <2>1. queue_mu = t /\ pc[t] = "flushing" /\ UNCHANGED <<queue_mu, pc>>
      BY <1>15 DEF FailDequeue, FlushInv
    <2>2. \A u \in Thread : u # t => clean_up'[u] = clean_up[u]
      BY <1>15, <1>0 DEF FailDequeue, TypeOKAttempts
    <2> QED
      BY <2>1, <2>2 DEF FlushInv
  <1>16. ASSUME NEW t \in Thread, RunDequeue(t) PROVE FlushInv'
    <2>1. queue_mu = t /\ pc[t] = "flushing" /\ UNCHANGED <<queue_mu, pc>>
      BY <1>16 DEF RunDequeue, FlushInv
    <2>2. \A u \in Thread : u # t => clean_up'[u] = clean_up[u]
      BY <1>16, <1>0 DEF RunDequeue, TypeOKAttempts
    <2> QED
      BY <2>1, <2>2 DEF FlushInv
  <1>17. ASSUME NEW t \in Thread, RunDequeuePartly(t) PROVE FlushInv'
    BY <1>17, <1>u DEF RunDequeuePartly
  <1>18. ASSUME NEW t \in Thread, Unlock(t) PROVE FlushInv'
    BY <1>18, <1>0, <1>s DEF Unlock, FlushInv, TypeOKOps
  <1>19. ASSUME NEW t \in Thread, Callback(t) PROVE FlushInv'
    <2>1. pc[t] = "cleanup" /\ UNCHANGED <<queue_mu, pc>>
      BY <1>19 DEF Callback
    <2>2. \A u \in Thread : u # t => clean_up'[u] = clean_up[u]
      BY <1>19, <1>0 DEF Callback, TypeOKAttempts
    <2> QED
      BY <2>1, <2>2 DEF FlushInv
  <1>20. ASSUME NEW t \in Thread \ CancelCloser, Return(t) PROVE FlushInv'
    BY <1>20, <1>0, <1>s DEF Return, FlushInv, TypeOKOps
  <1>21. ASSUME NEW t \in CancelCloser, ReturnOfClose(t) PROVE FlushInv'
    BY <1>21, <1>0, <1>s DEF ReturnOfClose, FlushInv, TypeOKOps
  <1>22. ASSUME NEW c \in Canceller, CancelAttempt(c) PROVE FlushInv'
    BY <1>22, <1>0, <1>s DEF CancelAttempt, FlushInv, TypeOKOps
  <1>23. ASSUME NEW c \in Canceller, CancelNothing(c) PROVE FlushInv'
    BY <1>23, <1>0, <1>s DEF CancelNothing, FlushInv, TypeOKOps
  <1>24. CASE UNCHANGED vars
    BY <1>24, <1>u DEF vars, pqVars
  <1> QED
    BY <1>1, <1>2, <1>3, <1>4, <1>5, <1>6, <1>7, <1>8, <1>9, <1>10, <1>11, <1>12, <1>13, <1>14, <1>15, <1>16, <1>17, <1>18, <1>19, <1>20, <1>21, <1>22, <1>23, <1>24 DEF OneStep


\* Who keeps mu_.
LEMMA MuInvStep ==
  ASSUME BarrierAssumption, ThreadAssumption, TypeInv, FlushInv, MuInv, OneStep \/ UNCHANGED vars
  PROVE  MuInv'
  <1>u. ASSUME UNCHANGED <<pc, mu>> PROVE MuInv'
    BY <1>u DEF MuInv
  <1>s. /\ Inserter \subseteq Op /\ Taker \subseteq Op /\ Closer \subseteq Op
        /\ Op \subseteq Thread /\ Canceller \subseteq Thread /\ Nobody \notin Thread
        /\ Op = Inserter \cup Taker \cup Closer
        /\ Small \subseteq Taker /\ CancelCloser \subseteq Closer
        /\ \A o \in Inserter : o \notin Taker /\ o \notin Closer
        /\ \A o \in Taker : o \notin Closer
        /\ \A o \in Op : o \notin Canceller
        /\ \A c \in Canceller : Victim[c] \in Inserter \cup Taker
    BY Sorts
  <1>0. TypeOKOps /\ TypeOKFlags /\ TypeOKAttempts
    BY DEF TypeInv, TypeOK
  <1>1. ASSUME NEW o \in Op, Ends(o) PROVE MuInv'
    BY <1>1, <1>0, <1>s DEF Ends, MuInv, Working, TypeOKOps, FlushInv
  <1>2. ASSUME NEW o \in Inserter, InsertEnds(o) PROVE MuInv'
    BY <1>2, <1>0, <1>s DEF InsertEnds, MuInv, Working, TypeOKOps, FlushInv
  <1>3. ASSUME NEW o \in Inserter, InsertReady(o) PROVE MuInv'
    BY <1>3, <1>0, <1>s DEF InsertReady, MuInv, Working, TypeOKOps, FlushInv
  <1>4. ASSUME NEW o \in Taker, TakeStarts(o) PROVE MuInv'
    BY <1>4, <1>0, <1>s DEF TakeStarts, MuInv, Working, TypeOKOps, FlushInv
  <1>5. ASSUME NEW o \in Closer, CloseBegins(o) PROVE MuInv'
    BY <1>5, <1>0, <1>s DEF CloseBegins, MuInv, Working, TypeOKOps, FlushInv
  <1>6. ASSUME NEW o \in Closer, CloseEnds(o) PROVE MuInv'
    BY <1>6, <1>0, <1>s DEF CloseEnds, MuInv, Working, TypeOKOps, FlushInv
  <1>7. ASSUME NEW o \in Closer, CloseForgets(o) PROVE MuInv'
    BY <1>7, <1>0, <1>s DEF CloseForgets, MuInv, Working, TypeOKOps, FlushInv
  <1>8. ASSUME NEW o \in Inserter, AppendEnqueue(o) PROVE MuInv'
    BY <1>8, <1>0, <1>s DEF AppendEnqueue, MuInv, Working, TypeOKOps, FlushInv
  <1>9. ASSUME NEW o \in Taker, AppendDequeue(o) PROVE MuInv'
    BY <1>9, <1>0, <1>s DEF AppendDequeue, MuInv, Working, TypeOKOps, FlushInv
  <1>10. ASSUME NEW o \in Closer \ CancelCloser, AppendClose(o) PROVE MuInv'
    BY <1>10, <1>0, <1>s DEF AppendClose, MuInv, Working, TypeOKOps, FlushInv
  <1>11. ASSUME NEW o \in CancelCloser, CancelEnqueues(o) PROVE MuInv'
    BY <1>11, <1>0, <1>s DEF CancelEnqueues, MuInv, Working, TypeOKOps, FlushInv
  <1>12. ASSUME NEW t \in Thread, Lock(t) PROVE MuInv'
    BY <1>12, <1>0, <1>s DEF Lock, MuInv, Working, TypeOKOps, FlushInv
  <1>13. ASSUME NEW t \in Thread, RefuseEnqueue(t) PROVE MuInv'
    BY <1>13, <1>u DEF RefuseEnqueue
  <1>14. ASSUME NEW t \in Thread, RunEnqueue(t) PROVE MuInv'
    BY <1>14, <1>u DEF RunEnqueue
  <1>15. ASSUME NEW t \in Thread, FailDequeue(t) PROVE MuInv'
    BY <1>15, <1>u DEF FailDequeue
  <1>16. ASSUME NEW t \in Thread, RunDequeue(t) PROVE MuInv'
    BY <1>16, <1>u DEF RunDequeue
  <1>17. ASSUME NEW t \in Thread, RunDequeuePartly(t) PROVE MuInv'
    BY <1>17, <1>u DEF RunDequeuePartly
  <1>18. ASSUME NEW t \in Thread, Unlock(t) PROVE MuInv'
    BY <1>18, <1>0, <1>s DEF Unlock, MuInv, Working, TypeOKOps, FlushInv
  <1>19. ASSUME NEW t \in Thread, Callback(t) PROVE MuInv'
    BY <1>19, <1>u DEF Callback
  <1>20. ASSUME NEW t \in Thread \ CancelCloser, Return(t) PROVE MuInv'
    BY <1>20, <1>0, <1>s DEF Return, MuInv, Working, TypeOKOps, FlushInv
  <1>21. ASSUME NEW t \in CancelCloser, ReturnOfClose(t) PROVE MuInv'
    BY <1>21, <1>0, <1>s DEF ReturnOfClose, MuInv, Working, TypeOKOps, FlushInv
  <1>22. ASSUME NEW c \in Canceller, CancelAttempt(c) PROVE MuInv'
    BY <1>22, <1>0, <1>s DEF CancelAttempt, MuInv, Working, TypeOKOps, FlushInv
  <1>23. ASSUME NEW c \in Canceller, CancelNothing(c) PROVE MuInv'
    BY <1>23, <1>0, <1>s DEF CancelNothing, MuInv, Working, TypeOKOps, FlushInv
  <1>24. CASE UNCHANGED vars
    BY <1>24, <1>u DEF vars
  <1> QED
    BY <1>1, <1>2, <1>3, <1>4, <1>5, <1>6, <1>7, <1>8, <1>9, <1>10, <1>11, <1>12, <1>13, <1>14, <1>15, <1>16, <1>17, <1>18, <1>19, <1>20, <1>21, <1>22, <1>23, <1>24 DEF OneStep


\* No wakeup is lost.
LEMMA WakeInvStep ==
  ASSUME BarrierAssumption, ThreadAssumption, TypeInv, WakeInv, OneStep \/ UNCHANGED vars
  PROVE  WakeInv'
  <1>u. ASSUME UNCHANGED <<enq, deq, queue, queue_is_closed, queue_mu, pc>> PROVE WakeInv'
    BY <1>u DEF WakeInv, DequeueWaits
  <1>s. /\ Inserter \subseteq Op /\ Taker \subseteq Op /\ Closer \subseteq Op
        /\ Op \subseteq Thread /\ Canceller \subseteq Thread /\ Nobody \notin Thread
        /\ Op = Inserter \cup Taker \cup Closer
        /\ Small \subseteq Taker /\ CancelCloser \subseteq Closer
        /\ \A o \in Inserter : o \notin Taker /\ o \notin Closer
        /\ \A o \in Taker : o \notin Closer
        /\ \A o \in Op : o \notin Canceller
        /\ \A c \in Canceller : Victim[c] \in Inserter \cup Taker
    BY Sorts
  <1>0. TypeOKOps /\ TypeOKFlags /\ TypeOKAttempts
    BY DEF TypeInv, TypeOK
  <1>1. ASSUME NEW o \in Op, Ends(o) PROVE WakeInv'
    <2>1. /\ UNCHANGED <<enq, deq, queue, queue_is_closed, queue_mu>>
          /\ \A x \in Thread : pc[x] = "flush" => pc'[x] = "flush"
      BY <1>1, <1>0, <1>s DEF Ends, TypeOKOps
    <2> QED
      BY <2>1 DEF WakeInv, DequeueWaits
  <1>2. ASSUME NEW o \in Inserter, InsertEnds(o) PROVE WakeInv'
    <2>1. /\ UNCHANGED <<enq, deq, queue, queue_is_closed, queue_mu>>
          /\ \A x \in Thread : pc[x] = "flush" => pc'[x] = "flush"
      BY <1>2, <1>0, <1>s DEF InsertEnds, TypeOKOps
    <2> QED
      BY <2>1 DEF WakeInv, DequeueWaits
  <1>3. ASSUME NEW o \in Inserter, InsertReady(o) PROVE WakeInv'
    <2>1. /\ UNCHANGED <<enq, deq, queue, queue_is_closed, queue_mu>>
          /\ \A x \in Thread : pc[x] = "flush" => pc'[x] = "flush"
      BY <1>3, <1>0, <1>s DEF InsertReady, TypeOKOps
    <2> QED
      BY <2>1 DEF WakeInv, DequeueWaits
  <1>4. ASSUME NEW o \in Taker, TakeStarts(o) PROVE WakeInv'
    <2>1. /\ UNCHANGED <<enq, deq, queue, queue_is_closed, queue_mu>>
          /\ \A x \in Thread : pc[x] = "flush" => pc'[x] = "flush"
      BY <1>4, <1>0, <1>s DEF TakeStarts, TypeOKOps
    <2> QED
      BY <2>1 DEF WakeInv, DequeueWaits
  <1>5. ASSUME NEW o \in Closer, CloseBegins(o) PROVE WakeInv'
    <2>1. /\ UNCHANGED <<enq, deq, queue, queue_is_closed, queue_mu>>
          /\ \A x \in Thread : pc[x] = "flush" => pc'[x] = "flush"
      BY <1>5, <1>0, <1>s DEF CloseBegins, TypeOKOps
    <2> QED
      BY <2>1 DEF WakeInv, DequeueWaits
  <1>6. ASSUME NEW o \in Closer, CloseEnds(o) PROVE WakeInv'
    <2>1. /\ UNCHANGED <<enq, deq, queue, queue_is_closed, queue_mu>>
          /\ \A x \in Thread : pc[x] = "flush" => pc'[x] = "flush"
      BY <1>6, <1>0, <1>s DEF CloseEnds, TypeOKOps
    <2> QED
      BY <2>1 DEF WakeInv, DequeueWaits
  <1>7. ASSUME NEW o \in Closer, CloseForgets(o) PROVE WakeInv'
    <2>1. /\ UNCHANGED <<enq, deq, queue, queue_is_closed, queue_mu>>
          /\ \A x \in Thread : pc[x] = "flush" => pc'[x] = "flush"
      BY <1>7, <1>0, <1>s DEF CloseForgets, TypeOKOps
    <2> QED
      BY <2>1 DEF WakeInv, DequeueWaits
  <1>8. ASSUME NEW o \in Inserter, AppendEnqueue(o) PROVE WakeInv'
    <2>1. pc'[o] = "flush" /\ o \in Thread
      BY <1>8, <1>0, <1>s DEF AppendEnqueue, TypeOKOps
    <2> QED
      BY <2>1 DEF WakeInv
  <1>9. ASSUME NEW o \in Taker, AppendDequeue(o) PROVE WakeInv'
    <2>1. pc'[o] = "flush" /\ o \in Thread
      BY <1>9, <1>0, <1>s DEF AppendDequeue, TypeOKOps
    <2> QED
      BY <2>1 DEF WakeInv
  <1>10. ASSUME NEW o \in Closer \ CancelCloser, AppendClose(o) PROVE WakeInv'
    <2>1. pc'[o] = "flush" /\ o \in Thread
      BY <1>10, <1>0, <1>s DEF AppendClose, TypeOKOps
    <2> QED
      BY <2>1 DEF WakeInv
  <1>11. ASSUME NEW o \in CancelCloser, CancelEnqueues(o) PROVE WakeInv'
    <2>1. pc'[o] = "flush" /\ o \in Thread
      BY <1>11, <1>0, <1>s DEF CancelEnqueues, TypeOKOps
    <2> QED
      BY <2>1 DEF WakeInv
  <1>12. ASSUME NEW t \in Thread, Lock(t) PROVE WakeInv'
    <2>1. queue_mu' # Nobody
      BY <1>12, <1>s DEF Lock
    <2> QED
      BY <2>1 DEF WakeInv
  <1>13. ASSUME NEW t \in Thread, RefuseEnqueue(t) PROVE WakeInv'
    <2>1. queue_mu' # Nobody
      BY <1>13, <1>s DEF RefuseEnqueue
    <2> QED
      BY <2>1 DEF WakeInv
  <1>14. ASSUME NEW t \in Thread, RunEnqueue(t) PROVE WakeInv'
    <2>1. queue_mu' # Nobody
      BY <1>14, <1>s DEF RunEnqueue
    <2> QED
      BY <2>1 DEF WakeInv
  <1>15. ASSUME NEW t \in Thread, FailDequeue(t) PROVE WakeInv'
    <2>1. queue_mu' # Nobody
      BY <1>15, <1>s DEF FailDequeue
    <2> QED
      BY <2>1 DEF WakeInv
  <1>16. ASSUME NEW t \in Thread, RunDequeue(t) PROVE WakeInv'
    <2>1. queue_mu' # Nobody
      BY <1>16, <1>s DEF RunDequeue
    <2> QED
      BY <2>1 DEF WakeInv
  <1>17. ASSUME NEW t \in Thread, RunDequeuePartly(t) PROVE WakeInv'
    <2>1. queue_mu' # Nobody
      BY <1>17, <1>s DEF RunDequeuePartly
    <2> QED
      BY <2>1 DEF WakeInv
  <1>18. ASSUME NEW t \in Thread, Unlock(t) PROVE WakeInv'
    <2>1. enq' = <<>> /\ UNCHANGED <<deq, queue, queue_is_closed>>
      BY <1>18 DEF Unlock
    <2>2. ASSUME deq # <<>> PROVE ~queue_is_closed /\ Count(queue) < Head(deq).requested
      <3>1. ~Insufficient(Head(deq)) /\ HasToWait(Head(deq))
        BY <1>18, <2>2 DEF Unlock
      <3> QED
        BY <3>1 DEF Insufficient, HasToWait, Count
    <2> QED
      BY <2>1, <2>2 DEF WakeInv, DequeueWaits
  <1>19. ASSUME NEW t \in Thread, Callback(t) PROVE WakeInv'
    BY <1>19, <1>u DEF Callback
  <1>20. ASSUME NEW t \in Thread \ CancelCloser, Return(t) PROVE WakeInv'
    <2>1. /\ UNCHANGED <<enq, deq, queue, queue_is_closed, queue_mu>>
          /\ \A x \in Thread : pc[x] = "flush" => pc'[x] = "flush"
      BY <1>20, <1>0, <1>s DEF Return, TypeOKOps
    <2> QED
      BY <2>1 DEF WakeInv, DequeueWaits
  <1>21. ASSUME NEW t \in CancelCloser, ReturnOfClose(t) PROVE WakeInv'
    <2>1. /\ UNCHANGED <<enq, deq, queue, queue_is_closed, queue_mu>>
          /\ \A x \in Thread : pc[x] = "flush" => pc'[x] = "flush"
      BY <1>21, <1>0, <1>s DEF ReturnOfClose, TypeOKOps
    <2> QED
      BY <2>1 DEF WakeInv, DequeueWaits
  <1>22. ASSUME NEW c \in Canceller, CancelAttempt(c) PROVE WakeInv'
    <2>1. pc'[c] = "flush" /\ c \in Thread
      BY <1>22, <1>0, <1>s DEF CancelAttempt, TypeOKOps
    <2> QED
      BY <2>1 DEF WakeInv
  <1>23. ASSUME NEW c \in Canceller, CancelNothing(c) PROVE WakeInv'
    <2>1. /\ UNCHANGED <<enq, deq, queue, queue_is_closed, queue_mu>>
          /\ \A x \in Thread : pc[x] = "flush" => pc'[x] = "flush"
      BY <1>23, <1>0, <1>s DEF CancelNothing, TypeOKOps
    <2> QED
      BY <2>1 DEF WakeInv, DequeueWaits
  <1>24. CASE UNCHANGED vars
    BY <1>24, <1>u DEF vars, pqVars
  <1> QED
    BY <1>1, <1>2, <1>3, <1>4, <1>5, <1>6, <1>7, <1>8, <1>9, <1>10, <1>11, <1>12, <1>13, <1>14, <1>15, <1>16, <1>17, <1>18, <1>19, <1>20, <1>21, <1>22, <1>23, <1>24 DEF OneStep

(***************************************************************************)
(* Calls, errors and the close of the queue.                               *)
(***************************************************************************)

\* Whose attempts and callbacks there are.
LEMMA OpsTyped ==
  ASSUME TypeOKAttempts
  PROVE  /\ OpsOf(enq) \subseteq Inserter \cup Closer /\ OpsOf(deq) \subseteq Taker
         /\ \A t \in Thread : Range(clean_up[t]) \subseteq Op
  <1>1. enq \in Seq(EnqueueAttempts) /\ deq \in Seq(DequeueAttempts)
    BY DEF TypeOKAttempts
  <1>2. OpsOf(enq) = {a.op : a \in Range(enq)} /\ OpsOf(deq) = {a.op : a \in Range(deq)}
    BY <1>1, OpsRange
  <1>3. Range(enq) \subseteq EnqueueAttempts /\ Range(deq) \subseteq DequeueAttempts
    BY <1>1, RangeSeq
  <1>4. \A t \in Thread : clean_up[t] \in Seq(Op)
    BY DEF TypeOKAttempts
  <1>5. \A t \in Thread : Range(clean_up[t]) \subseteq Op
    BY <1>4, RangeSeq
  <1> QED
    BY <1>2, <1>3, <1>5 DEF EnqueueAttempts, DequeueAttempts

\* The attempts that take their places.
LEMMA EnqueueComes ==
  ASSUME BarrierAssumption, TypeInv, NEW o \in Inserter, AppendEnqueue(o)
  PROVE  \E a \in EnqueueAttempts :
           /\ a.op = o /\ a.batch = batch[o] /\ ~a.close
           /\ OpsOf(enq') = OpsOf(enq) \cup {o} /\ Range(enq') = Range(enq) \cup {a}
           /\ OpsApart(enq) /\ o \notin OpsOf(enq) => OpsApart(enq')
  <1>1. enq \in Seq(EnqueueAttempts) /\ batch[o] \in Seq(Element)
    BY DEF TypeInv, TypeOK, TypeOKAttempts, TypeOKTuples
  <1> DEFINE a == [op |-> o, batch |-> batch[o], close |-> FALSE]
  <1>2. a \in EnqueueAttempts /\ a.op = o /\ a.batch = batch[o] /\ ~a.close
    BY <1>1 DEF EnqueueAttempts
  <1>3. enq' = Append(enq, a)
    BY DEF AppendEnqueue
  <1> HIDE DEF a
  <1>4. /\ OpsOf(Append(enq, a)) = OpsOf(enq) \cup {a.op}
        /\ OpsApart(enq) /\ a.op \notin OpsOf(enq) => OpsApart(Append(enq, a))
    BY <1>1, <1>2, OpsAppend
  <1>5. Range(Append(enq, a)) = Range(enq) \cup {a}
    BY <1>1, <1>2, RangeAppend
  <1>6. /\ OpsOf(enq') = OpsOf(enq) \cup {o} /\ Range(enq') = Range(enq) \cup {a}
        /\ OpsApart(enq) /\ o \notin OpsOf(enq) => OpsApart(enq')
    BY <1>2, <1>3, <1>4, <1>5
  <1> QED
    BY <1>2, <1>6, Zenon

\* The attempt of a plain Close.
LEMMA CloseComes ==
  ASSUME BarrierAssumption, TypeInv, NEW o \in Closer \ CancelCloser, AppendClose(o)
  PROVE  \E a \in EnqueueAttempts :
           /\ a.op = o /\ a.batch = <<>> /\ a.close
           /\ OpsOf(enq') = OpsOf(enq) \cup {o} /\ Range(enq') = Range(enq) \cup {a}
           /\ OpsApart(enq) /\ o \notin OpsOf(enq) => OpsApart(enq')
  <1>1. enq \in Seq(EnqueueAttempts)
    BY DEF TypeInv, TypeOK, TypeOKAttempts
  <1> DEFINE a == [op |-> o, batch |-> <<>>, close |-> TRUE]
  <1>2. a \in EnqueueAttempts /\ a.op = o /\ a.batch = <<>> /\ a.close
    BY <1>1 DEF EnqueueAttempts
  <1>3. enq' = Append(enq, a)
    BY DEF AppendClose
  <1> HIDE DEF a
  <1>4. /\ OpsOf(Append(enq, a)) = OpsOf(enq) \cup {a.op}
        /\ OpsApart(enq) /\ a.op \notin OpsOf(enq) => OpsApart(Append(enq, a))
    BY <1>1, <1>2, OpsAppend
  <1>5. Range(Append(enq, a)) = Range(enq) \cup {a}
    BY <1>1, <1>2, RangeAppend
  <1>6. /\ OpsOf(enq') = OpsOf(enq) \cup {o} /\ Range(enq') = Range(enq) \cup {a}
        /\ OpsApart(enq) /\ o \notin OpsOf(enq) => OpsApart(enq')
    BY <1>2, <1>3, <1>4, <1>5
  <1> QED
    BY <1>2, <1>6, Zenon

\* The attempt of a TakeMany.
LEMMA DequeueComes ==
  ASSUME BarrierAssumption, TypeInv, NEW o \in Taker, AppendDequeue(o)
  PROVE  \E a \in DequeueAttempts :
           /\ a.op = o /\ a.requested = num[o] /\ a.tuple = <<>>
           /\ deq' = Append(deq, a)
           /\ OpsOf(deq') = OpsOf(deq) \cup {o} /\ Range(deq') = Range(deq) \cup {a}
           /\ OpsApart(deq) /\ o \notin OpsOf(deq) => OpsApart(deq')
  <1>1. deq \in Seq(DequeueAttempts)
    BY DEF TypeInv, TypeOK, TypeOKAttempts
  <1>2. num[o] \in Nat \ {0}
    BY DEF AppendDequeue, TypeInv, TypeOK, TypeOKOps, NumInv
  <1> DEFINE a == [op |-> o, requested |-> num[o], tuple |-> <<>>]
  <1>3. a \in DequeueAttempts /\ a.op = o /\ a.requested = num[o] /\ a.tuple = <<>>
    BY <1>2 DEF DequeueAttempts
  <1>4. deq' = Append(deq, a)
    BY DEF AppendDequeue
  <1> HIDE DEF a
  <1> QED
    BY <1>1, <1>3, <1>4, OpsAppend, RangeAppend

\* The attempt of a small batch that has emptied the closed queue stays.
LEMMA DequeueStays ==
  ASSUME BarrierAssumption, TypeInv, NEW t \in Thread, RunDequeuePartly(t)
  PROVE  \E s \in Batches(Cardinality(queue)), b \in DequeueAttempts :
           /\ queue # {} /\ queue_is_closed /\ Head(deq).op \in Small
           /\ b.op = Head(deq).op /\ b.tuple = Head(deq).tuple \o s
           /\ Head(deq) \in Range(deq) /\ Head(deq).tuple \in Seq(Element)
           /\ s \in Seq(Element) /\ Range(s) = queue /\ queue' = {}
           /\ OpsOf(deq') = OpsOf(deq)
           /\ Range(deq) = {Head(deq)} \cup Range(Tail(deq)) /\ Range(deq') = {b} \cup Range(Tail(deq))
           /\ Head(deq') = b /\ Tail(deq') = Tail(deq) /\ deq' # <<>>
           /\ OpsApart(deq) => OpsApart(deq')
  <1>0. /\ TypeOKAttempts /\ queue \in SUBSET Element /\ IsFiniteSet(queue)
        /\ deq \in Seq(DequeueAttempts)
    BY DEF TypeInv, TypeOK, TypeOKTuples, TypeOKAttempts
  <1> DEFINE a == Head(deq)
             n == Cardinality(queue)
  <1>1. deq # <<>> /\ ~Insufficient(a) /\ ~HasToWait(a) /\ n < a.requested
    BY DEF RunDequeuePartly
  <1>2. /\ a \in DequeueAttempts /\ Tail(deq) \in Seq(DequeueAttempts) /\ a \in Range(deq)
        /\ a.tuple \in Seq(Element)
    BY <1>0, <1>1, DequeueHead
  <1>3. PICK s \in Batches(n) :
          /\ queue' = queue \ Range(s)
          /\ deq' = <<[a EXCEPT !.requested = @ - n, !.tuple = @ \o s]>> \o Tail(deq)
    BY DEF RunDequeuePartly
  <1>4. n \in Nat
    BY <1>0, FS_CardinalityType
  <1>5. s \in Seq(Element) /\ Range(s) = queue
    BY <1>0, <1>4, BatchFacts
  <1> DEFINE b == [a EXCEPT !.requested = @ - n, !.tuple = @ \o s]
  <1>6. b \in DequeueAttempts /\ b.op = a.op /\ b.tuple = a.tuple \o s
    <2>1. a \in DequeueAttempts /\ n \in Nat /\ n < a.requested /\ s \in Seq(Element)
      BY <1>1, <1>2, <1>4, <1>5
    <2>2. b = Partly(a, n, s)
      BY DEF Partly
    <2> HIDE DEF a, n, b
    <2> QED
      BY <2>1, <2>2, PartlyFacts
  <1>7. queue # {} /\ queue_is_closed /\ a.op \in Small
    BY <1>1 DEF Insufficient, HasToWait
  <1>8. deq' = <<b>> \o Tail(deq)
    BY <1>3
  <1> HIDE DEF b, n, a
  <1> DEFINE d == Tail(deq)
  <1>9. /\ OpsOf(deq) = {a.op} \cup OpsOf(d) /\ Range(deq) = {a} \cup Range(d)
        /\ OpsApart(deq) => OpsApart(d) /\ a.op \notin OpsOf(d)
    BY <1>0, <1>1, OpsTail, RangeTail DEF a
  <1>10. d \in Seq(DequeueAttempts)
    BY <1>2
  <1> HIDE DEF d
  <1>11. /\ <<b>> \o d \in Seq(DequeueAttempts) /\ Range(<<b>> \o d) = {b} \cup Range(d)
         /\ <<b>> \o d # <<>> /\ Head(<<b>> \o d) = b /\ Tail(<<b>> \o d) = d
         /\ OpsApart(d) /\ b.op \notin OpsOf(d) => OpsApart(<<b>> \o d)
    BY <1>6, <1>10, OpsCons
  <1>12. deq' = <<b>> \o d
    BY <1>8 DEF d
  <1>13. OpsOf(deq') = {b.op} \cup OpsOf(d)
    <2> DEFINE z == <<b>> \o d
    <2>1. z \in Seq(DequeueAttempts) /\ z # <<>> /\ Head(z) = b /\ Tail(z) = d
      BY <1>11
    <2> HIDE DEF z
    <2>2. OpsOf(z) = {Head(z).op} \cup OpsOf(Tail(z))
      BY <2>1, OpsTail
    <2> QED
      BY <2>1, <2>2, <1>12 DEF z
  <1>14. /\ Range(deq') = {b} \cup Range(d) /\ deq' # <<>> /\ Head(deq') = b /\ Tail(deq') = d
         /\ OpsApart(deq) => OpsApart(deq')
    BY <1>6, <1>9, <1>11, <1>12
  <1>15. queue' = {} /\ OpsOf(deq') = OpsOf(deq)
    BY <1>3, <1>5, <1>6, <1>9, <1>13
  <1> QED
    BY <1>2, <1>3, <1>5, <1>6, <1>7, <1>9, <1>14, <1>15 DEF n, a, d

\* The attempts of one operation are removed.
LEMMA AttemptsGo ==
  ASSUME TypeInv, NEW c \in Canceller, CancelAttempt(c)
  PROVE  /\ OpsOf(enq') = OpsOf(enq) \ {Victim[c]} /\ OpsOf(deq') = OpsOf(deq) \ {Victim[c]}
         /\ Range(enq') = {a \in Range(enq) : a.op # Victim[c]}
         /\ Range(deq') = {a \in Range(deq) : a.op # Victim[c]}
         /\ OpsApart(enq) => OpsApart(enq')
         /\ OpsApart(deq) => OpsApart(deq')
  <1>1. enq \in Seq(EnqueueAttempts) /\ deq \in Seq(DequeueAttempts)
    BY DEF TypeInv, TypeOK, TypeOKAttempts
  <1>2. enq' = Without(enq, Victim[c]) /\ deq' = Without(deq, Victim[c])
    BY DEF CancelAttempt
  <1> QED
    BY <1>1, <1>2, OpsWithout

\* The making of an attempt is done once.
PastStays == \A o \in Thread : Past(o) => Past(o)'

\* No step goes back to it.
LEMMA PastStep ==
  ASSUME BarrierAssumption, TypeInv, OneStep \/ UNCHANGED vars
  PROVE  PastStays
  <1>u. ASSUME UNCHANGED <<pc>> PROVE PastStays
    BY <1>u DEF PastStays, Past, Called
  <1>0. TypeOKOps /\ TypeOKFlags /\ TypeOKAttempts
    BY DEF TypeInv, TypeOK
  <1>1. ASSUME NEW o \in Op, Ends(o) PROVE PastStays
    BY <1>1, <1>0 DEF Ends, PastStays, Past, Called, NotCalled, TypeOKOps
  <1>2. ASSUME NEW o \in Inserter, InsertEnds(o) PROVE PastStays
    BY <1>2, <1>0 DEF InsertEnds, PastStays, Past, Called, NotCalled, TypeOKOps
  <1>3. ASSUME NEW o \in Inserter, InsertReady(o) PROVE PastStays
    BY <1>3, <1>0 DEF InsertReady, PastStays, Past, Called, NotCalled, TypeOKOps
  <1>4. ASSUME NEW o \in Taker, TakeStarts(o) PROVE PastStays
    BY <1>4, <1>0 DEF TakeStarts, PastStays, Past, Called, NotCalled, TypeOKOps
  <1>5. ASSUME NEW o \in Closer, CloseBegins(o) PROVE PastStays
    BY <1>5, <1>0 DEF CloseBegins, PastStays, Past, Called, NotCalled, TypeOKOps
  <1>6. ASSUME NEW o \in Closer, CloseEnds(o) PROVE PastStays
    BY <1>6, <1>0 DEF CloseEnds, PastStays, Past, Called, NotCalled, TypeOKOps
  <1>7. ASSUME NEW o \in Closer, CloseForgets(o) PROVE PastStays
    BY <1>7, <1>0 DEF CloseForgets, PastStays, Past, Called, NotCalled, TypeOKOps
  <1>8. ASSUME NEW o \in Inserter, AppendEnqueue(o) PROVE PastStays
    BY <1>8, <1>0 DEF AppendEnqueue, PastStays, Past, Called, NotCalled, TypeOKOps
  <1>9. ASSUME NEW o \in Taker, AppendDequeue(o) PROVE PastStays
    BY <1>9, <1>0 DEF AppendDequeue, PastStays, Past, Called, NotCalled, TypeOKOps
  <1>10. ASSUME NEW o \in Closer \ CancelCloser, AppendClose(o) PROVE PastStays
    BY <1>10, <1>0 DEF AppendClose, PastStays, Past, Called, NotCalled, TypeOKOps
  <1>11. ASSUME NEW o \in CancelCloser, CancelEnqueues(o) PROVE PastStays
    BY <1>11, <1>0 DEF CancelEnqueues, PastStays, Past, Called, NotCalled, TypeOKOps
  <1>12. ASSUME NEW t \in Thread, Lock(t) PROVE PastStays
    BY <1>12, <1>0 DEF Lock, PastStays, Past, Called, NotCalled, TypeOKOps
  <1>13. ASSUME NEW t \in Thread, RefuseEnqueue(t) PROVE PastStays
    BY <1>13, <1>u DEF RefuseEnqueue
  <1>14. ASSUME NEW t \in Thread, RunEnqueue(t) PROVE PastStays
    BY <1>14, <1>u DEF RunEnqueue
  <1>15. ASSUME NEW t \in Thread, FailDequeue(t) PROVE PastStays
    BY <1>15, <1>u DEF FailDequeue
  <1>16. ASSUME NEW t \in Thread, RunDequeue(t) PROVE PastStays
    BY <1>16, <1>u DEF RunDequeue
  <1>17. ASSUME NEW t \in Thread, RunDequeuePartly(t) PROVE PastStays
    BY <1>17, <1>u DEF RunDequeuePartly
  <1>18. ASSUME NEW t \in Thread, Unlock(t) PROVE PastStays
    BY <1>18, <1>0 DEF Unlock, PastStays, Past, Called, NotCalled, TypeOKOps
  <1>19. ASSUME NEW t \in Thread, Callback(t) PROVE PastStays
    BY <1>19, <1>u DEF Callback
  <1>20. ASSUME NEW t \in Thread \ CancelCloser, Return(t) PROVE PastStays
    BY <1>20, <1>0 DEF Return, PastStays, Past, Called, NotCalled, TypeOKOps
  <1>21. ASSUME NEW t \in CancelCloser, ReturnOfClose(t) PROVE PastStays
    BY <1>21, <1>0 DEF ReturnOfClose, PastStays, Past, Called, NotCalled, TypeOKOps
  <1>22. ASSUME NEW c \in Canceller, CancelAttempt(c) PROVE PastStays
    BY <1>22, <1>0 DEF CancelAttempt, PastStays, Past, Called, NotCalled, TypeOKOps
  <1>23. ASSUME NEW c \in Canceller, CancelNothing(c) PROVE PastStays
    BY <1>23, <1>0 DEF CancelNothing, PastStays, Past, Called, NotCalled, TypeOKOps
  <1>24. CASE UNCHANGED vars
    BY <1>24, <1>u DEF vars
  <1> QED
    BY <1>1, <1>2, <1>3, <1>4, <1>5, <1>6, <1>7, <1>8, <1>9, <1>10, <1>11, <1>12, <1>13, <1>14, <1>15, <1>16, <1>17, <1>18, <1>19, <1>20, <1>21, <1>22, <1>23, <1>24 DEF OneStep

\* Who has an attempt, or is on a list, has been called.
LEMMA CallInvStep ==
  ASSUME BarrierAssumption, ThreadAssumption, TypeInv, CallInv, OneStep \/ UNCHANGED vars
  PROVE  CallInv'
  <1>s. /\ Inserter \subseteq Op /\ Taker \subseteq Op /\ Closer \subseteq Op
        /\ Op \subseteq Thread /\ Canceller \subseteq Thread /\ Nobody \notin Thread
        /\ Op = Inserter \cup Taker \cup Closer
        /\ Small \subseteq Taker /\ CancelCloser \subseteq Closer
        /\ \A o \in Inserter : o \notin Taker /\ o \notin Closer
        /\ \A o \in Taker : o \notin Closer
        /\ \A o \in Op : o \notin Canceller
        /\ \A c \in Canceller : Victim[c] \in Inserter \cup Taker
    BY Sorts
  <1>0. TypeOKOps /\ TypeOKFlags /\ TypeOKAttempts
    BY DEF TypeInv, TypeOK
  <1>t. /\ OpsOf(enq) \subseteq Inserter \cup Closer /\ OpsOf(deq) \subseteq Taker
        /\ \A t \in Thread : Range(clean_up[t]) \subseteq Op
    BY <1>0, OpsTyped
  <1>p. PastStays
    BY PastStep
  <1>u. ASSUME UNCHANGED <<enq, deq, clean_up>> PROVE CallInv'
    BY <1>p, <1>s, <1>t, <1>u DEF CallInv, PastStays, Listed
  <1>1. ASSUME NEW o \in Op, Ends(o) PROVE CallInv'
    BY <1>1, <1>u DEF Ends
  <1>2. ASSUME NEW o \in Inserter, InsertEnds(o) PROVE CallInv'
    BY <1>2, <1>u DEF InsertEnds
  <1>3. ASSUME NEW o \in Inserter, InsertReady(o) PROVE CallInv'
    BY <1>3, <1>u DEF InsertReady
  <1>4. ASSUME NEW o \in Taker, TakeStarts(o) PROVE CallInv'
    BY <1>4, <1>u DEF TakeStarts
  <1>5. ASSUME NEW o \in Closer, CloseBegins(o) PROVE CallInv'
    BY <1>5, <1>u DEF CloseBegins
  <1>6. ASSUME NEW o \in Closer, CloseEnds(o) PROVE CallInv'
    BY <1>6, <1>u DEF CloseEnds
  <1>7. ASSUME NEW o \in Closer, CloseForgets(o) PROVE CallInv'
    BY <1>7, <1>u DEF CloseForgets
  <1>8. ASSUME NEW o \in Inserter, AppendEnqueue(o) PROVE CallInv'
    <2>1. OpsOf(enq') = OpsOf(enq) \cup {o}
      BY <1>8, EnqueueComes
    <2>2. UNCHANGED <<deq, clean_up>> /\ Past(o)'
      BY <1>8, <1>0, <1>s DEF AppendEnqueue, TypeOKOps, Past, Called, NotCalled
    <2> QED
      BY <1>p, <1>s, <1>t, <2>1, <2>2 DEF CallInv, PastStays, Listed
  <1>9. ASSUME NEW o \in Taker, AppendDequeue(o) PROVE CallInv'
    <2>1. OpsOf(deq') = OpsOf(deq) \cup {o}
      BY <1>9, DequeueComes
    <2>2. UNCHANGED <<enq, clean_up>> /\ Past(o)'
      BY <1>9, <1>0, <1>s DEF AppendDequeue, TypeOKOps, Past, Called, NotCalled
    <2> QED
      BY <1>p, <1>s, <1>t, <2>1, <2>2 DEF CallInv, PastStays, Listed
  <1>10. ASSUME NEW o \in Closer \ CancelCloser, AppendClose(o) PROVE CallInv'
    <2>1. OpsOf(enq') = OpsOf(enq) \cup {o}
      BY <1>10, CloseComes
    <2>2. UNCHANGED <<deq, clean_up>> /\ Past(o)'
      BY <1>10, <1>0, <1>s DEF AppendClose, TypeOKOps, Past, Called, NotCalled
    <2> QED
      BY <1>p, <1>s, <1>t, <2>1, <2>2 DEF CallInv, PastStays, Listed
  <1>11. ASSUME NEW o \in CancelCloser, CancelEnqueues(o) PROVE CallInv'
    <2>1. OpsOf(enq') = {} /\ UNCHANGED <<deq, clean_up>>
      BY <1>11, OpsEmpty DEF CancelEnqueues
    <2> QED
      BY <1>p, <1>s, <1>t, <2>1 DEF CallInv, PastStays, Listed
  <1>12. ASSUME NEW t \in Thread, Lock(t) PROVE CallInv'
    BY <1>12, <1>u DEF Lock
  <1>13. ASSUME NEW t \in Thread, RefuseEnqueue(t) PROVE CallInv'
    <2>1. PICK h \in Inserter \cup Closer : EnqueueLeft(h, t)
      BY <1>13, <1>0, EnqueueLeaves DEF RefuseEnqueue
    <2>2. UNCHANGED deq
      BY <1>13 DEF RefuseEnqueue
    <2>3. h \in Op /\ OpsOf(enq) = {h} \cup OpsOf(enq') /\ \A o : Listed(o)' <=> Listed(o) \/ o = h
      BY <1>s, <2>1 DEF EnqueueLeft
    <2> QED
      BY <1>p, <1>s, <1>t, <2>2, <2>3 DEF CallInv, PastStays
  <1>14. ASSUME NEW t \in Thread, RunEnqueue(t) PROVE CallInv'
    <2>1. PICK h \in Inserter \cup Closer : EnqueueLeft(h, t)
      BY <1>14, <1>0, EnqueueLeaves DEF RunEnqueue
    <2>2. UNCHANGED deq
      BY <1>14 DEF RunEnqueue
    <2>3. h \in Op /\ OpsOf(enq) = {h} \cup OpsOf(enq') /\ \A o : Listed(o)' <=> Listed(o) \/ o = h
      BY <1>s, <2>1 DEF EnqueueLeft
    <2> QED
      BY <1>p, <1>s, <1>t, <2>2, <2>3 DEF CallInv, PastStays
  <1>15. ASSUME NEW t \in Thread, FailDequeue(t) PROVE CallInv'
    <2>1. PICK h \in Taker : DequeueLeft(h, t)
      BY <1>15, <1>0, DequeueLeaves DEF FailDequeue
    <2>2. UNCHANGED enq
      BY <1>15 DEF FailDequeue
    <2>3. h \in Op /\ OpsOf(deq) = {h} \cup OpsOf(deq') /\ \A o : Listed(o)' <=> Listed(o) \/ o = h
      BY <1>s, <2>1 DEF DequeueLeft
    <2> QED
      BY <1>p, <1>s, <1>t, <2>2, <2>3 DEF CallInv, PastStays
  <1>16. ASSUME NEW t \in Thread, RunDequeue(t) PROVE CallInv'
    <2>1. PICK h \in Taker : DequeueLeft(h, t)
      BY <1>16, <1>0, DequeueLeaves DEF RunDequeue
    <2>2. UNCHANGED enq
      BY <1>16 DEF RunDequeue
    <2>3. h \in Op /\ OpsOf(deq) = {h} \cup OpsOf(deq') /\ \A o : Listed(o)' <=> Listed(o) \/ o = h
      BY <1>s, <2>1 DEF DequeueLeft
    <2> QED
      BY <1>p, <1>s, <1>t, <2>2, <2>3 DEF CallInv, PastStays
  <1>17. ASSUME NEW t \in Thread, RunDequeuePartly(t) PROVE CallInv'
    <2>1. OpsOf(deq') = OpsOf(deq)
      BY <1>17, DequeueStays
    <2>2. UNCHANGED <<enq, clean_up>>
      BY <1>17 DEF RunDequeuePartly
    <2> QED
      BY <1>p, <1>s, <1>t, <2>1, <2>2 DEF CallInv, PastStays, Listed
  <1>18. ASSUME NEW t \in Thread, Unlock(t) PROVE CallInv'
    BY <1>18, <1>u DEF Unlock
  <1>19. ASSUME NEW t \in Thread, Callback(t) PROVE CallInv'
    <2>1. PICK h \in Op : /\ Range(clean_up[t]) = Range(clean_up'[t]) \cup {h}
                          /\ \A u \in Thread : u # t => clean_up'[u] = clean_up[u]
      BY <1>19, <1>0, ListShrinks DEF Callback
    <2>2. UNCHANGED <<enq, deq>>
      BY <1>19 DEF Callback
    <2>3. \A o : Listed(o)' => Listed(o)
      BY <2>1 DEF Listed
    <2> QED
      BY <1>p, <1>s, <1>t, <2>2, <2>3 DEF CallInv, PastStays
  <1>20. ASSUME NEW t \in Thread \ CancelCloser, Return(t) PROVE CallInv'
    BY <1>20, <1>u DEF Return
  <1>21. ASSUME NEW t \in CancelCloser, ReturnOfClose(t) PROVE CallInv'
    BY <1>21, <1>u DEF ReturnOfClose
  <1>22. ASSUME NEW c \in Canceller, CancelAttempt(c) PROVE CallInv'
    <2>1. OpsOf(enq') \subseteq OpsOf(enq) /\ OpsOf(deq') \subseteq OpsOf(deq)
      BY <1>22, AttemptsGo
    <2>2. UNCHANGED clean_up
      BY <1>22 DEF CancelAttempt
    <2> QED
      BY <1>p, <1>s, <1>t, <2>1, <2>2 DEF CallInv, PastStays, Listed
  <1>23. ASSUME NEW c \in Canceller, CancelNothing(c) PROVE CallInv'
    BY <1>23, <1>u DEF CancelNothing
  <1>24. CASE UNCHANGED vars
    BY <1>24, <1>u DEF vars, pqVars
  <1> QED
    BY <1>1, <1>2, <1>3, <1>4, <1>5, <1>6, <1>7, <1>8, <1>9, <1>10, <1>11, <1>12, <1>13, <1>14, <1>15, <1>16, <1>17, <1>18, <1>19, <1>20, <1>21, <1>22, <1>23, <1>24 DEF OneStep


\* No operation has two attempts.
AttemptsApart == OpsApart(enq) /\ OpsApart(deq)

\* No step gives it a second one.
LEMMA ApartStep ==
  ASSUME BarrierAssumption, ThreadAssumption, TypeInv, CallInv, AttemptsApart, OneStep \/ UNCHANGED vars
  PROVE  AttemptsApart'
  <1>a. OpsApart(enq) /\ OpsApart(deq)
    BY DEF AttemptsApart
  <1>u. ASSUME UNCHANGED <<enq, deq>> PROVE OpsApart(enq') /\ OpsApart(deq')
    BY <1>u, <1>a
  <1>s. /\ Inserter \subseteq Op /\ Taker \subseteq Op /\ Closer \subseteq Op
        /\ Op \subseteq Thread /\ Canceller \subseteq Thread /\ Nobody \notin Thread
        /\ Op = Inserter \cup Taker \cup Closer
        /\ Small \subseteq Taker /\ CancelCloser \subseteq Closer
        /\ \A o \in Inserter : o \notin Taker /\ o \notin Closer
        /\ \A o \in Taker : o \notin Closer
        /\ \A o \in Op : o \notin Canceller
        /\ \A c \in Canceller : Victim[c] \in Inserter \cup Taker
    BY Sorts
  <1>0. TypeOKOps /\ TypeOKFlags /\ TypeOKAttempts
    BY DEF TypeInv, TypeOK
  <1>1. ASSUME NEW o \in Op, Ends(o) PROVE OpsApart(enq') /\ OpsApart(deq')
    BY <1>1, <1>u DEF Ends
  <1>2. ASSUME NEW o \in Inserter, InsertEnds(o) PROVE OpsApart(enq') /\ OpsApart(deq')
    BY <1>2, <1>u DEF InsertEnds
  <1>3. ASSUME NEW o \in Inserter, InsertReady(o) PROVE OpsApart(enq') /\ OpsApart(deq')
    BY <1>3, <1>u DEF InsertReady
  <1>4. ASSUME NEW o \in Taker, TakeStarts(o) PROVE OpsApart(enq') /\ OpsApart(deq')
    BY <1>4, <1>u DEF TakeStarts
  <1>5. ASSUME NEW o \in Closer, CloseBegins(o) PROVE OpsApart(enq') /\ OpsApart(deq')
    BY <1>5, <1>u DEF CloseBegins
  <1>6. ASSUME NEW o \in Closer, CloseEnds(o) PROVE OpsApart(enq') /\ OpsApart(deq')
    BY <1>6, <1>u DEF CloseEnds
  <1>7. ASSUME NEW o \in Closer, CloseForgets(o) PROVE OpsApart(enq') /\ OpsApart(deq')
    BY <1>7, <1>u DEF CloseForgets
  <1>8. ASSUME NEW o \in Inserter, AppendEnqueue(o) PROVE OpsApart(enq') /\ OpsApart(deq')
    <2>1. OpsApart(enq) /\ o \notin OpsOf(enq) => OpsApart(enq')
      BY <1>8, EnqueueComes
    <2>2. ~Past(o) /\ UNCHANGED deq
      BY <1>8 DEF AppendEnqueue, Past
    <2> QED
      BY <1>a, <2>1, <2>2 DEF CallInv
  <1>9. ASSUME NEW o \in Taker, AppendDequeue(o) PROVE OpsApart(enq') /\ OpsApart(deq')
    <2>1. OpsApart(deq) /\ o \notin OpsOf(deq) => OpsApart(deq')
      BY <1>9, DequeueComes
    <2>2. ~Past(o) /\ UNCHANGED enq
      BY <1>9 DEF AppendDequeue, Past
    <2> QED
      BY <1>a, <2>1, <2>2 DEF CallInv
  <1>10. ASSUME NEW o \in Closer \ CancelCloser, AppendClose(o) PROVE OpsApart(enq') /\ OpsApart(deq')
    <2>1. OpsApart(enq) /\ o \notin OpsOf(enq) => OpsApart(enq')
      BY <1>10, CloseComes
    <2>2. ~Past(o) /\ UNCHANGED deq
      BY <1>10 DEF AppendClose, Past
    <2> QED
      BY <1>a, <2>1, <2>2 DEF CallInv
  <1>11. ASSUME NEW o \in CancelCloser, CancelEnqueues(o) PROVE OpsApart(enq') /\ OpsApart(deq')
    <2>1. OpsApart(<<>>)
      BY RangeEmpty DEF OpsApart, Distinct
    <2> QED
      BY <1>11, <1>a, <2>1 DEF CancelEnqueues
  <1>12. ASSUME NEW t \in Thread, Lock(t) PROVE OpsApart(enq') /\ OpsApart(deq')
    BY <1>12, <1>u DEF Lock
  <1>13. ASSUME NEW t \in Thread, RefuseEnqueue(t) PROVE OpsApart(enq') /\ OpsApart(deq')
    <2>1. PICK h \in Inserter \cup Closer : EnqueueLeft(h, t)
      BY <1>13, <1>0, EnqueueLeaves DEF RefuseEnqueue
    <2>2. UNCHANGED deq
      BY <1>13 DEF RefuseEnqueue
    <2> QED
      BY <1>a, <2>1, <2>2 DEF EnqueueLeft
  <1>14. ASSUME NEW t \in Thread, RunEnqueue(t) PROVE OpsApart(enq') /\ OpsApart(deq')
    <2>1. PICK h \in Inserter \cup Closer : EnqueueLeft(h, t)
      BY <1>14, <1>0, EnqueueLeaves DEF RunEnqueue
    <2>2. UNCHANGED deq
      BY <1>14 DEF RunEnqueue
    <2> QED
      BY <1>a, <2>1, <2>2 DEF EnqueueLeft
  <1>15. ASSUME NEW t \in Thread, FailDequeue(t) PROVE OpsApart(enq') /\ OpsApart(deq')
    <2>1. PICK h \in Taker : DequeueLeft(h, t)
      BY <1>15, <1>0, DequeueLeaves DEF FailDequeue
    <2>2. UNCHANGED enq
      BY <1>15 DEF FailDequeue
    <2> QED
      BY <1>a, <2>1, <2>2 DEF DequeueLeft
  <1>16. ASSUME NEW t \in Thread, RunDequeue(t) PROVE OpsApart(enq') /\ OpsApart(deq')
    <2>1. PICK h \in Taker : DequeueLeft(h, t)
      BY <1>16, <1>0, DequeueLeaves DEF RunDequeue
    <2>2. UNCHANGED enq
      BY <1>16 DEF RunDequeue
    <2> QED
      BY <1>a, <2>1, <2>2 DEF DequeueLeft
  <1>17. ASSUME NEW t \in Thread, RunDequeuePartly(t) PROVE OpsApart(enq') /\ OpsApart(deq')
    <2>1. OpsApart(deq) => OpsApart(deq')
      BY <1>17, DequeueStays
    <2>2. UNCHANGED enq
      BY <1>17 DEF RunDequeuePartly
    <2> QED
      BY <1>a, <2>1, <2>2
  <1>18. ASSUME NEW t \in Thread, Unlock(t) PROVE OpsApart(enq') /\ OpsApart(deq')
    BY <1>18, <1>u DEF Unlock
  <1>19. ASSUME NEW t \in Thread, Callback(t) PROVE OpsApart(enq') /\ OpsApart(deq')
    BY <1>19, <1>u DEF Callback
  <1>20. ASSUME NEW t \in Thread \ CancelCloser, Return(t) PROVE OpsApart(enq') /\ OpsApart(deq')
    BY <1>20, <1>u DEF Return
  <1>21. ASSUME NEW t \in CancelCloser, ReturnOfClose(t) PROVE OpsApart(enq') /\ OpsApart(deq')
    BY <1>21, <1>u DEF ReturnOfClose
  <1>22. ASSUME NEW c \in Canceller, CancelAttempt(c) PROVE OpsApart(enq') /\ OpsApart(deq')
    BY <1>22, <1>a, AttemptsGo
  <1>23. ASSUME NEW c \in Canceller, CancelNothing(c) PROVE OpsApart(enq') /\ OpsApart(deq')
    BY <1>23, <1>u DEF CancelNothing
  <1>24. CASE UNCHANGED vars
    BY <1>24, <1>u DEF vars, pqVars, AttemptsApart
  <1> QED
    BY <1>1, <1>2, <1>3, <1>4, <1>5, <1>6, <1>7, <1>8, <1>9, <1>10, <1>11, <1>12, <1>13, <1>14, <1>15, <1>16, <1>17, <1>18, <1>19, <1>20, <1>21, <1>22, <1>23, <1>24 DEF OneStep, AttemptsApart


\* An operation that can still go on has no error.
LEMMA StatusInvStep ==
  ASSUME BarrierAssumption, ThreadAssumption, TypeInv, FlushInv, CallInv, AttemptsApart, StatusInv, OneStep \/ UNCHANGED vars
  PROVE  StatusInv'
  <1>u. ASSUME UNCHANGED <<enq, deq, pc, st>> PROVE StatusInv'
    BY <1>u DEF StatusInv, Called
  <1>s. /\ Inserter \subseteq Op /\ Taker \subseteq Op /\ Closer \subseteq Op
        /\ Op \subseteq Thread /\ Canceller \subseteq Thread /\ Nobody \notin Thread
        /\ Op = Inserter \cup Taker \cup Closer
        /\ Small \subseteq Taker /\ CancelCloser \subseteq Closer
        /\ \A o \in Inserter : o \notin Taker /\ o \notin Closer
        /\ \A o \in Taker : o \notin Closer
        /\ \A o \in Op : o \notin Canceller
        /\ \A c \in Canceller : Victim[c] \in Inserter \cup Taker
    BY Sorts
  <1>0. TypeOKOps /\ TypeOKFlags /\ TypeOKAttempts
    BY DEF TypeInv, TypeOK
  <1>t. /\ OpsOf(enq) \subseteq Inserter \cup Closer /\ OpsOf(deq) \subseteq Taker
        /\ \A t \in Thread : Range(clean_up[t]) \subseteq Op
    BY <1>0, OpsTyped
  <1>a. OpsApart(enq) /\ OpsApart(deq)
    BY DEF AttemptsApart
  <1>1. ASSUME NEW o \in Op, Ends(o) PROVE StatusInv'
    <2>1. OpsOf(enq') = OpsOf(enq) /\ OpsOf(deq') = OpsOf(deq)
      BY <1>1 DEF Ends
    <2>2. /\ ~Past(o) /\ pc' = [pc EXCEPT ![o] = "returned"] /\ pc[o] # "close"
          /\ \A x \in Op : x # o => st'[x] = st[x]
      BY <1>1, <1>0, <1>s DEF Ends, Past, Called, NotCalled, TypeOKOps
    <2> QED
      BY <1>0, <1>s, <2>1, <2>2 DEF StatusInv, CallInv, Past, Called, NotCalled, TypeOKOps
  <1>2. ASSUME NEW o \in Inserter, InsertEnds(o) PROVE StatusInv'
    <2>1. OpsOf(enq') = OpsOf(enq) /\ OpsOf(deq') = OpsOf(deq)
      BY <1>2 DEF InsertEnds
    <2>2. /\ ~Past(o) /\ pc' = [pc EXCEPT ![o] = "returned"]
          /\ \A x \in Op : x # o => st'[x] = st[x]
      BY <1>2, <1>0, <1>s DEF InsertEnds, Past, Called, NotCalled, TypeOKOps
    <2> QED
      BY <1>0, <1>s, <2>1, <2>2 DEF StatusInv, CallInv, Past, Called, NotCalled, TypeOKOps
  <1>3. ASSUME NEW o \in Inserter, InsertReady(o) PROVE StatusInv'
    <2>1. OpsOf(enq') = OpsOf(enq) /\ OpsOf(deq') = OpsOf(deq)
      BY <1>3 DEF InsertReady
    <2>2. UNCHANGED st /\ pc' = [pc EXCEPT ![o] = "append"] /\ ~Called(o)
      BY <1>3, <1>0, <1>s DEF InsertReady, Past, Called, NotCalled, TypeOKOps
    <2> QED
      BY <1>0, <1>s, <2>1, <2>2 DEF StatusInv, CallInv, Past, Called, NotCalled, TypeOKOps
  <1>4. ASSUME NEW o \in Taker, TakeStarts(o) PROVE StatusInv'
    <2>1. OpsOf(enq') = OpsOf(enq) /\ OpsOf(deq') = OpsOf(deq)
      BY <1>4 DEF TakeStarts
    <2>2. UNCHANGED st /\ pc' = [pc EXCEPT ![o] = "append"] /\ ~Called(o)
      BY <1>4, <1>0, <1>s DEF TakeStarts, Past, Called, NotCalled, TypeOKOps
    <2> QED
      BY <1>0, <1>s, <2>1, <2>2 DEF StatusInv, CallInv, Past, Called, NotCalled, TypeOKOps
  <1>5. ASSUME NEW o \in Closer, CloseBegins(o) PROVE StatusInv'
    <2>1. OpsOf(enq') = OpsOf(enq) /\ OpsOf(deq') = OpsOf(deq)
      BY <1>5 DEF CloseBegins
    <2>2. UNCHANGED st /\ pc' = [pc EXCEPT ![o] = "close"] /\ ~Called(o)
      BY <1>5, <1>0, <1>s DEF CloseBegins, Past, Called, NotCalled, TypeOKOps
    <2> QED
      BY <1>0, <1>s, <2>1, <2>2 DEF StatusInv, CallInv, Past, Called, NotCalled, TypeOKOps
  <1>6. ASSUME NEW o \in Closer, CloseEnds(o) PROVE StatusInv'
    <2>1. OpsOf(enq') = OpsOf(enq) /\ OpsOf(deq') = OpsOf(deq)
      BY <1>6 DEF CloseEnds
    <2>2. UNCHANGED st /\ pc' = [pc EXCEPT ![o] = "returned"]
      BY <1>6, <1>0, <1>s DEF CloseEnds, Past, Called, NotCalled, TypeOKOps
    <2> QED
      BY <1>0, <1>s, <2>1, <2>2 DEF StatusInv, CallInv, Past, Called, NotCalled, TypeOKOps
  <1>7. ASSUME NEW o \in Closer, CloseForgets(o) PROVE StatusInv'
    <2>1. OpsOf(enq') = OpsOf(enq) /\ OpsOf(deq') = OpsOf(deq)
      BY <1>7 DEF CloseForgets
    <2>2. UNCHANGED st /\ pc' = [pc EXCEPT ![o] = "returned"]
      BY <1>7, <1>0, <1>s DEF CloseForgets, Past, Called, NotCalled, TypeOKOps
    <2> QED
      BY <1>0, <1>s, <2>1, <2>2 DEF StatusInv, CallInv, Past, Called, NotCalled, TypeOKOps
  <1>8. ASSUME NEW o \in Inserter, AppendEnqueue(o) PROVE StatusInv'
    <2>1. OpsOf(enq') = OpsOf(enq) \cup {o} /\ OpsOf(deq') = OpsOf(deq)
      BY <1>8, EnqueueComes DEF AppendEnqueue
    <2>2. UNCHANGED st /\ pc[o] \in {"append", "close"} /\ pc' = [pc EXCEPT ![o] = "flush"]
      BY <1>8 DEF AppendEnqueue
    <2> QED
      BY <1>0, <1>s, <2>1, <2>2 DEF StatusInv, CallInv, Past, Called, NotCalled, TypeOKOps
  <1>9. ASSUME NEW o \in Taker, AppendDequeue(o) PROVE StatusInv'
    <2>1. OpsOf(deq') = OpsOf(deq) \cup {o} /\ OpsOf(enq') = OpsOf(enq)
      BY <1>9, DequeueComes DEF AppendDequeue
    <2>2. UNCHANGED st /\ pc[o] \in {"append", "close"} /\ pc' = [pc EXCEPT ![o] = "flush"]
      BY <1>9 DEF AppendDequeue
    <2> QED
      BY <1>0, <1>s, <2>1, <2>2 DEF StatusInv, CallInv, Past, Called, NotCalled, TypeOKOps
  <1>10. ASSUME NEW o \in Closer \ CancelCloser, AppendClose(o) PROVE StatusInv'
    <2>1. OpsOf(enq') = OpsOf(enq) \cup {o} /\ OpsOf(deq') = OpsOf(deq)
      BY <1>10, CloseComes DEF AppendClose
    <2>2. UNCHANGED st /\ pc[o] \in {"append", "close"} /\ pc' = [pc EXCEPT ![o] = "flush"]
      BY <1>10 DEF AppendClose
    <2> QED
      BY <1>0, <1>s, <2>1, <2>2 DEF StatusInv, CallInv, Past, Called, NotCalled, TypeOKOps
  <1>11. ASSUME NEW o \in CancelCloser, CancelEnqueues(o) PROVE StatusInv'
    <2>1. OpsOf(enq') = {} /\ OpsOf(deq') = OpsOf(deq) /\ pc' = [pc EXCEPT ![o] = "flush"]
      BY <1>11, OpsEmpty DEF CancelEnqueues
    <2>2. \A x \in Op : x \notin OpsOf(enq) => st'[x] = st[x]
      BY <1>11, <1>s, <1>0 DEF CancelEnqueues
    <2>3. pc[o] = "close" /\ \A x \in OpsOf(enq) : Past(x) /\ x \notin OpsOf(deq)
      BY <1>11, <1>t, <1>s DEF CancelEnqueues, CallInv
    <2> QED
      BY <1>0, <1>s, <2>1, <2>2, <2>3 DEF StatusInv, CallInv, Past, Called, NotCalled, TypeOKOps
  <1>12. ASSUME NEW t \in Thread, Lock(t) PROVE StatusInv'
    <2>1. OpsOf(enq') = OpsOf(enq) /\ OpsOf(deq') = OpsOf(deq)
      BY <1>12 DEF Lock
    <2>2. UNCHANGED st /\ pc' = [pc EXCEPT ![t] = "flushing"]
      BY <1>12, <1>0, <1>s DEF Lock, Past, Called, NotCalled, TypeOKOps
    <2> QED
      BY <1>0, <1>s, <2>1, <2>2 DEF StatusInv, CallInv, Past, Called, NotCalled, TypeOKOps
  <1>13. ASSUME NEW t \in Thread, RefuseEnqueue(t) PROVE StatusInv'
    <2>0. PICK h \in Inserter \cup Closer : EnqueueLeft(h, t)
      BY <1>13, <1>0, EnqueueLeaves DEF RefuseEnqueue
    <2>1. h \in Op /\ h = Head(enq).op /\ OpsOf(enq) = {h} \cup OpsOf(enq') /\ h \notin OpsOf(enq')
      BY <1>a, <1>s, <2>0 DEF EnqueueLeft
    <2>2. UNCHANGED <<deq, pc>> /\ \A o \in Op : o # h => st'[o] = st[o]
      BY <1>13, <1>0, <2>1 DEF RefuseEnqueue, TypeOKOps
    <2>3. Past(h) /\ h \notin OpsOf(deq)
      BY <1>s, <1>t, <2>1 DEF CallInv
    <2>4. OpsOf(deq') = OpsOf(deq)
      BY <2>2
    <2> QED
      BY <2>1, <2>2, <2>3, <2>4 DEF StatusInv, CallInv, Past, Called, NotCalled
  <1>14. ASSUME NEW t \in Thread, RunEnqueue(t) PROVE StatusInv'
    <2>0. PICK h \in Inserter \cup Closer : EnqueueLeft(h, t)
      BY <1>14, <1>0, EnqueueLeaves DEF RunEnqueue
    <2>1. h \in Op /\ h = Head(enq).op /\ OpsOf(enq) = {h} \cup OpsOf(enq') /\ h \notin OpsOf(enq')
      BY <1>a, <1>s, <2>0 DEF EnqueueLeft
    <2>2. UNCHANGED <<deq, pc>> /\ \A o \in Op : o # h => st'[o] = st[o]
      BY <1>14, <1>0, <2>1 DEF RunEnqueue, TypeOKOps
    <2>3. Past(h) /\ h \notin OpsOf(deq)
      BY <1>s, <1>t, <2>1 DEF CallInv
    <2>4. OpsOf(deq') = OpsOf(deq)
      BY <2>2
    <2> QED
      BY <2>1, <2>2, <2>3, <2>4 DEF StatusInv, CallInv, Past, Called, NotCalled
  <1>15. ASSUME NEW t \in Thread, FailDequeue(t) PROVE StatusInv'
    <2>0. PICK h \in Taker : DequeueLeft(h, t)
      BY <1>15, <1>0, DequeueLeaves DEF FailDequeue
    <2>1. h \in Op /\ h = Head(deq).op /\ OpsOf(deq) = {h} \cup OpsOf(deq') /\ h \notin OpsOf(deq')
      BY <1>a, <1>s, <2>0 DEF DequeueLeft
    <2>2. UNCHANGED <<enq, pc>> /\ \A o \in Op : o # h => st'[o] = st[o]
      BY <1>15, <1>0, <2>1 DEF FailDequeue, TypeOKOps
    <2>3. Past(h) /\ h \notin OpsOf(enq)
      BY <1>s, <1>t, <2>1 DEF CallInv
    <2>4. OpsOf(enq') = OpsOf(enq)
      BY <2>2
    <2> QED
      BY <2>1, <2>2, <2>3, <2>4 DEF StatusInv, CallInv, Past, Called, NotCalled
  <1>16. ASSUME NEW t \in Thread, RunDequeue(t) PROVE StatusInv'
    <2>0. PICK h \in Taker : DequeueLeft(h, t)
      BY <1>16, <1>0, DequeueLeaves DEF RunDequeue
    <2>1. h \in Op /\ h = Head(deq).op /\ OpsOf(deq) = {h} \cup OpsOf(deq') /\ h \notin OpsOf(deq')
      BY <1>a, <1>s, <2>0 DEF DequeueLeft
    <2>2. UNCHANGED <<enq, pc>> /\ \A o \in Op : o # h => st'[o] = st[o]
      BY <1>16, <1>0, <2>1 DEF RunDequeue, TypeOKOps
    <2>3. Past(h) /\ h \notin OpsOf(enq)
      BY <1>s, <1>t, <2>1 DEF CallInv
    <2>4. OpsOf(enq') = OpsOf(enq)
      BY <2>2
    <2> QED
      BY <2>1, <2>2, <2>3, <2>4 DEF StatusInv, CallInv, Past, Called, NotCalled
  <1>17. ASSUME NEW t \in Thread, RunDequeuePartly(t) PROVE StatusInv'
    <2>1. OpsOf(deq') = OpsOf(deq)
      BY <1>17, DequeueStays
    <2>2. UNCHANGED <<enq, st, pc>>
      BY <1>17 DEF RunDequeuePartly
    <2> QED
      BY <2>1, <2>2 DEF StatusInv, Called
  <1>18. ASSUME NEW t \in Thread, Unlock(t) PROVE StatusInv'
    <2>1. OpsOf(enq') = OpsOf(enq) /\ OpsOf(deq') = OpsOf(deq)
      BY <1>18 DEF Unlock
    <2>2. UNCHANGED st /\ pc' = [pc EXCEPT ![t] = "cleanup"]
      BY <1>18, <1>0, <1>s DEF Unlock, Past, Called, NotCalled, TypeOKOps
    <2> QED
      BY <1>0, <1>s, <2>1, <2>2 DEF StatusInv, CallInv, Past, Called, NotCalled, TypeOKOps
  <1>19. ASSUME NEW t \in Thread, Callback(t) PROVE StatusInv'
    BY <1>19, <1>u DEF Callback
  <1>20. ASSUME NEW t \in Thread \ CancelCloser, Return(t) PROVE StatusInv'
    <2>1. OpsOf(enq') = OpsOf(enq) /\ OpsOf(deq') = OpsOf(deq)
      BY <1>20 DEF Return
    <2>2. UNCHANGED st /\ pc' = [pc EXCEPT ![t] = "returned"]
      BY <1>20, <1>0, <1>s DEF Return, Past, Called, NotCalled, TypeOKOps
    <2> QED
      BY <1>0, <1>s, <2>1, <2>2 DEF StatusInv, CallInv, Past, Called, NotCalled, TypeOKOps
  <1>21. ASSUME NEW t \in CancelCloser, ReturnOfClose(t) PROVE StatusInv'
    <2>1. OpsOf(enq') = OpsOf(enq) /\ OpsOf(deq') = OpsOf(deq)
      BY <1>21 DEF ReturnOfClose
    <2>2. UNCHANGED st /\ pc' = [pc EXCEPT ![t] = "returned"]
      BY <1>21, <1>0, <1>s DEF ReturnOfClose, Past, Called, NotCalled, TypeOKOps
    <2> QED
      BY <1>0, <1>s, <2>1, <2>2 DEF StatusInv, CallInv, Past, Called, NotCalled, TypeOKOps
  <1>22. ASSUME NEW c \in Canceller, CancelAttempt(c) PROVE StatusInv'
    <2> DEFINE v == Victim[c]
    <2>1. OpsOf(enq') = OpsOf(enq) \ {v} /\ OpsOf(deq') = OpsOf(deq) \ {v} /\ v \in OpsOf(enq) \cup OpsOf(deq)
      BY <1>22, AttemptsGo DEF CancelAttempt
    <2>2. v \in Op /\ c \notin Op
      BY <1>22, <1>s
    <2>3. \A o \in Op : pc'[o] = pc[o] /\ (o # v => st'[o] = st[o])
      BY <1>22, <1>0, <1>s, <2>2 DEF CancelAttempt, TypeOKOps
    <2>4. Past(v)
      BY <2>1, <2>2 DEF CallInv
    <2> QED
      BY <2>1, <2>2, <2>3, <2>4 DEF StatusInv, CallInv, Past, Called, NotCalled
  <1>23. ASSUME NEW c \in Canceller, CancelNothing(c) PROVE StatusInv'
    <2>1. OpsOf(enq') = OpsOf(enq) /\ OpsOf(deq') = OpsOf(deq)
      BY <1>23 DEF CancelNothing
    <2>2. UNCHANGED st /\ pc' = [pc EXCEPT ![c] = "returned"]
      BY <1>23, <1>0, <1>s DEF CancelNothing, Past, Called, NotCalled, TypeOKOps
    <2> QED
      BY <1>0, <1>s, <2>1, <2>2 DEF StatusInv, CallInv, Past, Called, NotCalled, TypeOKOps
  <1>24. CASE UNCHANGED vars
    BY <1>24, <1>u DEF vars, pqVars
  <1> QED
    BY <1>1, <1>2, <1>3, <1>4, <1>5, <1>6, <1>7, <1>8, <1>9, <1>10, <1>11, <1>12, <1>13, <1>14, <1>15, <1>16, <1>17, <1>18, <1>19, <1>20, <1>21, <1>22, <1>23, <1>24 DEF OneStep

\* Who closes the queue.
LEMMA CloseInvStep ==
  ASSUME BarrierAssumption, ThreadAssumption, TypeInv, FlushInv, CallInv, CloseInv, OneStep \/ UNCHANGED vars
  PROVE  CloseInv'
  <1>u. ASSUME UNCHANGED <<queue_is_closed, closed, pc, enq, queue_cancelled>> PROVE CloseInv'
    BY <1>u DEF CloseInv
  <1>s. /\ Inserter \subseteq Op /\ Taker \subseteq Op /\ Closer \subseteq Op
        /\ Op \subseteq Thread /\ Canceller \subseteq Thread /\ Nobody \notin Thread
        /\ Op = Inserter \cup Taker \cup Closer
        /\ Small \subseteq Taker /\ CancelCloser \subseteq Closer
        /\ \A o \in Inserter : o \notin Taker /\ o \notin Closer
        /\ \A o \in Taker : o \notin Closer
        /\ \A o \in Op : o \notin Canceller
        /\ \A c \in Canceller : Victim[c] \in Inserter \cup Taker
    BY Sorts
  <1>0. TypeOKOps /\ TypeOKFlags /\ TypeOKAttempts
    BY DEF TypeInv, TypeOK
  <1>1. ASSUME NEW o \in Op, Ends(o) PROVE CloseInv'
    BY <1>1, <1>0, <1>s DEF Ends, CloseInv, Working, TypeOKOps
  <1>2. ASSUME NEW o \in Inserter, InsertEnds(o) PROVE CloseInv'
    BY <1>2, <1>0, <1>s DEF InsertEnds, CloseInv, Working, TypeOKOps
  <1>3. ASSUME NEW o \in Inserter, InsertReady(o) PROVE CloseInv'
    BY <1>3, <1>0, <1>s DEF InsertReady, CloseInv, Working, TypeOKOps
  <1>4. ASSUME NEW o \in Taker, TakeStarts(o) PROVE CloseInv'
    BY <1>4, <1>0, <1>s DEF TakeStarts, CloseInv, Working, TypeOKOps
  <1>5. ASSUME NEW o \in Closer, CloseBegins(o) PROVE CloseInv'
    BY <1>5, <1>0, <1>s DEF CloseBegins, CloseInv, Working, TypeOKOps
  <1>6. ASSUME NEW o \in Closer, CloseEnds(o) PROVE CloseInv'
    BY <1>6, <1>0, <1>s DEF CloseEnds, CloseInv, Working, TypeOKOps
  <1>7. ASSUME NEW o \in Closer, CloseForgets(o) PROVE CloseInv'
    BY <1>7, <1>0, <1>s DEF CloseForgets, CloseInv, Working, TypeOKOps
  <1>8. ASSUME NEW o \in Inserter, AppendEnqueue(o) PROVE CloseInv'
    <2>1. PICK a \in EnqueueAttempts :
            /\ a.op = o /\ ~a.close
            /\ OpsOf(enq') = OpsOf(enq) \cup {o} /\ Range(enq') = Range(enq) \cup {a}
      BY <1>8, EnqueueComes
    <2>2. /\ UNCHANGED <<queue_is_closed, closed, queue_cancelled>>
          /\ pc[o] = "append" /\ \A x \in Thread : pc'[x] = IF x = o THEN "flush" ELSE pc[x]
      BY <1>8, <1>0, <1>s DEF AppendEnqueue, TypeOKOps
    <2>3. o \notin Closer /\ o \notin CancelCloser
      BY <1>8, <1>s
    <2>4. \A x \in Range(enq') : (x.close <=> x.op \in Closer) /\ (x.close => closed')
      BY <1>s, <2>1, <2>2, <2>3 DEF CloseInv
    <2>5. OpsOf(enq') \cap CancelCloser = {}
      BY <2>1, <2>3 DEF CloseInv
    <2> QED
      BY <1>s, <2>2, <2>3, <2>4, <2>5 DEF CloseInv, Working
  <1>9. ASSUME NEW o \in Taker, AppendDequeue(o) PROVE CloseInv'
    BY <1>9, <1>0, <1>s DEF AppendDequeue, CloseInv, Working, TypeOKOps
  <1>10. ASSUME NEW o \in Closer \ CancelCloser, AppendClose(o) PROVE CloseInv'
    <2>1. PICK a \in EnqueueAttempts :
            /\ a.op = o /\ a.close
            /\ OpsOf(enq') = OpsOf(enq) \cup {o} /\ Range(enq') = Range(enq) \cup {a}
      BY <1>10, CloseComes
    <2>2. /\ UNCHANGED <<queue_is_closed, closed, queue_cancelled>>
          /\ pc[o] = "close" /\ \A x \in Thread : pc'[x] = IF x = o THEN "flush" ELSE pc[x]
      BY <1>10, <1>0, <1>s DEF AppendClose, TypeOKOps
    <2>3. o \in Closer /\ o \notin CancelCloser
      BY <1>10, <1>s
    <2>4. \A x \in Range(enq') : (x.close <=> x.op \in Closer) /\ (x.close => closed')
      BY <1>s, <2>1, <2>2, <2>3 DEF CloseInv
    <2>5. OpsOf(enq') \cap CancelCloser = {}
      BY <2>1, <2>3 DEF CloseInv
    <2> QED
      BY <1>s, <2>2, <2>3, <2>4, <2>5 DEF CloseInv, Working
  <1>11. ASSUME NEW o \in CancelCloser, CancelEnqueues(o) PROVE CloseInv'
    <2>1. Range(enq') = {} /\ OpsOf(enq') = {}
      BY <1>11, OpsEmpty, RangeEmpty DEF CancelEnqueues
    <2>2. /\ UNCHANGED <<closed, queue_cancelled>> /\ queue_is_closed'
          /\ pc[o] = "close" /\ \A x \in Thread : pc'[x] = IF x = o THEN "flush" ELSE pc[x]
      BY <1>11, <1>0, <1>s DEF CancelEnqueues, TypeOKOps
    <2> QED
      BY <1>s, <2>1, <2>2 DEF CloseInv, Working
  <1>12. ASSUME NEW t \in Thread, Lock(t) PROVE CloseInv'
    BY <1>12, <1>0, <1>s DEF Lock, CloseInv, Working, TypeOKOps
  <1>13. ASSUME NEW t \in Thread, RefuseEnqueue(t) PROVE CloseInv'
    <2>1. PICK h \in Inserter \cup Closer : EnqueueLeft(h, t)
      BY <1>13, <1>0, EnqueueLeaves DEF RefuseEnqueue
    <2>2. /\ Range(enq') \subseteq Range(enq) /\ OpsOf(enq') \subseteq OpsOf(enq)
          /\ Head(enq) \in Range(enq)
      BY <2>1 DEF EnqueueLeft
    <2>3. UNCHANGED <<closed, queue_cancelled, pc>>
      BY <1>13 DEF RefuseEnqueue
    <2>4. (queue_is_closed => queue_is_closed') /\ (queue_is_closed' => queue_is_closed \/ Head(enq).close)
      BY <1>13 DEF RefuseEnqueue
    <2> QED
      BY <2>2, <2>3, <2>4 DEF CloseInv
  <1>14. ASSUME NEW t \in Thread, RunEnqueue(t) PROVE CloseInv'
    <2>1. PICK h \in Inserter \cup Closer : EnqueueLeft(h, t)
      BY <1>14, <1>0, EnqueueLeaves DEF RunEnqueue
    <2>2. /\ Range(enq') \subseteq Range(enq) /\ OpsOf(enq') \subseteq OpsOf(enq)
          /\ Head(enq) \in Range(enq)
      BY <2>1 DEF EnqueueLeft
    <2>3. UNCHANGED <<closed, queue_cancelled, pc>>
      BY <1>14 DEF RunEnqueue
    <2>4. (queue_is_closed => queue_is_closed') /\ (queue_is_closed' => queue_is_closed \/ Head(enq).close)
      BY <1>14 DEF RunEnqueue
    <2> QED
      BY <2>2, <2>3, <2>4 DEF CloseInv
  <1>15. ASSUME NEW t \in Thread, FailDequeue(t) PROVE CloseInv'
    BY <1>15, <1>u DEF FailDequeue
  <1>16. ASSUME NEW t \in Thread, RunDequeue(t) PROVE CloseInv'
    BY <1>16, <1>u DEF RunDequeue
  <1>17. ASSUME NEW t \in Thread, RunDequeuePartly(t) PROVE CloseInv'
    BY <1>17, <1>u DEF RunDequeuePartly
  <1>18. ASSUME NEW t \in Thread, Unlock(t) PROVE CloseInv'
    BY <1>18, <1>0, <1>s DEF Unlock, CloseInv, Working, TypeOKOps
  <1>19. ASSUME NEW t \in Thread, Callback(t) PROVE CloseInv'
    BY <1>19, <1>u DEF Callback
  <1>20. ASSUME NEW t \in Thread \ CancelCloser, Return(t) PROVE CloseInv'
    BY <1>20, <1>0, <1>s DEF Return, CloseInv, Working, TypeOKOps
  <1>21. ASSUME NEW t \in CancelCloser, ReturnOfClose(t) PROVE CloseInv'
    BY <1>21, <1>0, <1>s DEF ReturnOfClose, CloseInv, Working, TypeOKOps
  <1>22. ASSUME NEW c \in Canceller, CancelAttempt(c) PROVE CloseInv'
    <2>1. Range(enq') \subseteq Range(enq) /\ OpsOf(enq') \subseteq OpsOf(enq)
      BY <1>22, AttemptsGo
    <2>2. UNCHANGED <<closed, queue_cancelled, queue_is_closed>> /\ \A x \in Op : pc'[x] = pc[x]
      BY <1>22, <1>0, <1>s DEF CancelAttempt, TypeOKOps
    <2> QED
      BY <1>s, <2>1, <2>2 DEF CloseInv
  <1>23. ASSUME NEW c \in Canceller, CancelNothing(c) PROVE CloseInv'
    BY <1>23, <1>0, <1>s DEF CancelNothing, CloseInv, Working, TypeOKOps
  <1>24. CASE UNCHANGED vars
    BY <1>24, <1>u DEF vars, pqVars, barrierVars, flagVars
  <1> QED
    BY <1>1, <1>2, <1>3, <1>4, <1>5, <1>6, <1>7, <1>8, <1>9, <1>10, <1>11, <1>12, <1>13, <1>14, <1>15, <1>16, <1>17, <1>18, <1>19, <1>20, <1>21, <1>22, <1>23, <1>24 DEF OneStep


\* The Close that has closed the queue stays the one.
ClosedByStays == \A p \in Closer : ClosedBy(p) => ClosedBy(p)'

\* No step takes that back.
LEMMA ClosedByStep ==
  ASSUME BarrierAssumption, ThreadAssumption, TypeInv, FlushInv, CallInv, OneStep \/ UNCHANGED vars
  PROVE  ClosedByStays
  <1>u. ASSUME UNCHANGED <<pc, enq, st>> PROVE ClosedByStays
    BY <1>u DEF ClosedByStays, ClosedBy, Called
  <1>s. /\ Inserter \subseteq Op /\ Taker \subseteq Op /\ Closer \subseteq Op
        /\ Op \subseteq Thread /\ Canceller \subseteq Thread /\ Nobody \notin Thread
        /\ Op = Inserter \cup Taker \cup Closer
        /\ Small \subseteq Taker /\ CancelCloser \subseteq Closer
        /\ \A o \in Inserter : o \notin Taker /\ o \notin Closer
        /\ \A o \in Taker : o \notin Closer
        /\ \A o \in Op : o \notin Canceller
        /\ \A c \in Canceller : Victim[c] \in Inserter \cup Taker
    BY Sorts
  <1>0. TypeOKOps /\ TypeOKFlags /\ TypeOKAttempts
    BY DEF TypeInv, TypeOK
  <1>c. CallsStay
    BY <1>0, CalledStep
  <1>1. ASSUME NEW o \in Op, Ends(o) PROVE ClosedByStays
    <2>1. OpsOf(enq') = OpsOf(enq) /\ \A x \in Op : Called(x) /\ pc[x] # "close" => pc'[x] # "close"
      BY <1>1, <1>0, <1>s DEF Ends, Called, NotCalled, TypeOKOps
    <2>2. \A p \in Closer : Called(p) => st'[p] = st[p]
      BY <1>1, <1>0, <1>s DEF Ends, TypeOKOps, Called, NotCalled, FlushInv
    <2> QED
      BY <1>s, <1>c, <2>1, <2>2 DEF ClosedByStays, ClosedBy, CallsStay
  <1>2. ASSUME NEW o \in Inserter, InsertEnds(o) PROVE ClosedByStays
    <2>1. OpsOf(enq') = OpsOf(enq) /\ \A x \in Op : Called(x) /\ pc[x] # "close" => pc'[x] # "close"
      BY <1>2, <1>0, <1>s DEF InsertEnds, Called, NotCalled, TypeOKOps
    <2>2. \A p \in Closer : Called(p) => st'[p] = st[p]
      BY <1>2, <1>0, <1>s DEF InsertEnds, TypeOKOps, Called, NotCalled, FlushInv
    <2> QED
      BY <1>s, <1>c, <2>1, <2>2 DEF ClosedByStays, ClosedBy, CallsStay
  <1>3. ASSUME NEW o \in Inserter, InsertReady(o) PROVE ClosedByStays
    <2>1. OpsOf(enq') = OpsOf(enq) /\ \A x \in Op : Called(x) /\ pc[x] # "close" => pc'[x] # "close"
      BY <1>3, <1>0, <1>s DEF InsertReady, Called, NotCalled, TypeOKOps
    <2>2. UNCHANGED st
      BY <1>3, <1>0, <1>s DEF InsertReady, TypeOKOps, Called, NotCalled, FlushInv
    <2> QED
      BY <1>s, <1>c, <2>1, <2>2 DEF ClosedByStays, ClosedBy, CallsStay
  <1>4. ASSUME NEW o \in Taker, TakeStarts(o) PROVE ClosedByStays
    <2>1. OpsOf(enq') = OpsOf(enq) /\ \A x \in Op : Called(x) /\ pc[x] # "close" => pc'[x] # "close"
      BY <1>4, <1>0, <1>s DEF TakeStarts, Called, NotCalled, TypeOKOps
    <2>2. UNCHANGED st
      BY <1>4, <1>0, <1>s DEF TakeStarts, TypeOKOps, Called, NotCalled, FlushInv
    <2> QED
      BY <1>s, <1>c, <2>1, <2>2 DEF ClosedByStays, ClosedBy, CallsStay
  <1>5. ASSUME NEW o \in Closer, CloseBegins(o) PROVE ClosedByStays
    <2>1. OpsOf(enq') = OpsOf(enq) /\ \A x \in Op : Called(x) /\ pc[x] # "close" => pc'[x] # "close"
      BY <1>5, <1>0, <1>s DEF CloseBegins, Called, NotCalled, TypeOKOps
    <2>2. UNCHANGED st
      BY <1>5, <1>0, <1>s DEF CloseBegins, TypeOKOps, Called, NotCalled, FlushInv
    <2> QED
      BY <1>s, <1>c, <2>1, <2>2 DEF ClosedByStays, ClosedBy, CallsStay
  <1>6. ASSUME NEW o \in Closer, CloseEnds(o) PROVE ClosedByStays
    <2>1. OpsOf(enq') = OpsOf(enq) /\ \A x \in Op : Called(x) /\ pc[x] # "close" => pc'[x] # "close"
      BY <1>6, <1>0, <1>s DEF CloseEnds, Called, NotCalled, TypeOKOps
    <2>2. UNCHANGED st
      BY <1>6, <1>0, <1>s DEF CloseEnds, TypeOKOps, Called, NotCalled, FlushInv
    <2> QED
      BY <1>s, <1>c, <2>1, <2>2 DEF ClosedByStays, ClosedBy, CallsStay
  <1>7. ASSUME NEW o \in Closer, CloseForgets(o) PROVE ClosedByStays
    <2>1. OpsOf(enq') = OpsOf(enq) /\ \A x \in Op : Called(x) /\ pc[x] # "close" => pc'[x] # "close"
      BY <1>7, <1>0, <1>s DEF CloseForgets, Called, NotCalled, TypeOKOps
    <2>2. UNCHANGED st
      BY <1>7, <1>0, <1>s DEF CloseForgets, TypeOKOps, Called, NotCalled, FlushInv
    <2> QED
      BY <1>s, <1>c, <2>1, <2>2 DEF ClosedByStays, ClosedBy, CallsStay
  <1>8. ASSUME NEW o \in Inserter, AppendEnqueue(o) PROVE ClosedByStays
    <2>1. OpsOf(enq') = OpsOf(enq) \cup {o}
      BY <1>8, EnqueueComes
    <2>2. UNCHANGED st /\ \A x \in Op : pc'[x] = IF x = o THEN "flush" ELSE pc[x]
      BY <1>8, <1>0, <1>s DEF AppendEnqueue, TypeOKOps
    <2>3. o \notin Closer \/ pc[o] = "close"
      BY <1>8, <1>s DEF AppendEnqueue
    <2> QED
      BY <1>s, <1>c, <2>1, <2>2, <2>3 DEF ClosedByStays, ClosedBy, CallsStay
  <1>9. ASSUME NEW o \in Taker, AppendDequeue(o) PROVE ClosedByStays
    <2>1. OpsOf(enq') = OpsOf(enq) /\ \A x \in Op : Called(x) /\ pc[x] # "close" => pc'[x] # "close"
      BY <1>9, <1>0, <1>s DEF AppendDequeue, Called, NotCalled, TypeOKOps
    <2>2. UNCHANGED st
      BY <1>9, <1>0, <1>s DEF AppendDequeue, TypeOKOps, Called, NotCalled, FlushInv
    <2> QED
      BY <1>s, <1>c, <2>1, <2>2 DEF ClosedByStays, ClosedBy, CallsStay
  <1>10. ASSUME NEW o \in Closer \ CancelCloser, AppendClose(o) PROVE ClosedByStays
    <2>1. OpsOf(enq') = OpsOf(enq) \cup {o}
      BY <1>10, CloseComes
    <2>2. UNCHANGED st /\ \A x \in Op : pc'[x] = IF x = o THEN "flush" ELSE pc[x]
      BY <1>10, <1>0, <1>s DEF AppendClose, TypeOKOps
    <2>3. o \notin Closer \/ pc[o] = "close"
      BY <1>10, <1>s DEF AppendClose
    <2> QED
      BY <1>s, <1>c, <2>1, <2>2, <2>3 DEF ClosedByStays, ClosedBy, CallsStay
  <1>11. ASSUME NEW o \in CancelCloser, CancelEnqueues(o) PROVE ClosedByStays
    <2>1. OpsOf(enq') = {}
      BY <1>11, OpsEmpty DEF CancelEnqueues
    <2>2. \A x \in Op : (x \notin OpsOf(enq) => st'[x] = st[x]) /\ pc'[x] = IF x = o THEN "flush" ELSE pc[x]
      BY <1>11, <1>0, <1>s DEF CancelEnqueues, TypeOKOps
    <2> QED
      BY <1>s, <1>c, <2>1, <2>2 DEF ClosedByStays, ClosedBy, CallsStay
  <1>12. ASSUME NEW t \in Thread, Lock(t) PROVE ClosedByStays
    <2>1. OpsOf(enq') = OpsOf(enq) /\ \A x \in Op : Called(x) /\ pc[x] # "close" => pc'[x] # "close"
      BY <1>12, <1>0, <1>s DEF Lock, Called, NotCalled, TypeOKOps
    <2>2. UNCHANGED st
      BY <1>12, <1>0, <1>s DEF Lock, TypeOKOps, Called, NotCalled, FlushInv
    <2> QED
      BY <1>s, <1>c, <2>1, <2>2 DEF ClosedByStays, ClosedBy, CallsStay
  <1>13. ASSUME NEW t \in Thread, RefuseEnqueue(t) PROVE ClosedByStays
    <2>1. PICK h \in Inserter \cup Closer : EnqueueLeft(h, t)
      BY <1>13, <1>0, EnqueueLeaves DEF RefuseEnqueue
    <2>2. OpsOf(enq) = {h} \cup OpsOf(enq') /\ h = Head(enq).op
      BY <2>1 DEF EnqueueLeft
    <2>3. UNCHANGED pc /\ \A x \in Op : x # h => st'[x] = st[x]
      BY <1>13, <1>0, <1>s, <2>2 DEF RefuseEnqueue, TypeOKOps
    <2> QED
      BY <1>s, <2>2, <2>3 DEF ClosedByStays, ClosedBy, Called
  <1>14. ASSUME NEW t \in Thread, RunEnqueue(t) PROVE ClosedByStays
    <2>1. PICK h \in Inserter \cup Closer : EnqueueLeft(h, t)
      BY <1>14, <1>0, EnqueueLeaves DEF RunEnqueue
    <2>2. OpsOf(enq) = {h} \cup OpsOf(enq') /\ h = Head(enq).op
      BY <2>1 DEF EnqueueLeft
    <2>3. UNCHANGED pc /\ \A x \in Op : x # h => st'[x] = st[x]
      BY <1>14, <1>0, <1>s, <2>2 DEF RunEnqueue, TypeOKOps
    <2> QED
      BY <1>s, <2>2, <2>3 DEF ClosedByStays, ClosedBy, Called
  <1>15. ASSUME NEW t \in Thread, FailDequeue(t) PROVE ClosedByStays
    <2>1. Head(deq).op \in Taker
      BY <1>15, <1>0, DequeueHead DEF FailDequeue
    <2>2. UNCHANGED <<pc, enq>> /\ \A x \in Op : x # Head(deq).op => st'[x] = st[x]
      BY <1>15, <1>0, <1>s DEF FailDequeue, TypeOKOps
    <2> QED
      BY <1>s, <2>1, <2>2 DEF ClosedByStays, ClosedBy, Called
  <1>16. ASSUME NEW t \in Thread, RunDequeue(t) PROVE ClosedByStays
    BY <1>16, <1>u DEF RunDequeue
  <1>17. ASSUME NEW t \in Thread, RunDequeuePartly(t) PROVE ClosedByStays
    BY <1>17, <1>u DEF RunDequeuePartly
  <1>18. ASSUME NEW t \in Thread, Unlock(t) PROVE ClosedByStays
    <2>1. OpsOf(enq') = OpsOf(enq) /\ \A x \in Op : Called(x) /\ pc[x] # "close" => pc'[x] # "close"
      BY <1>18, <1>0, <1>s DEF Unlock, Called, NotCalled, TypeOKOps
    <2>2. UNCHANGED st
      BY <1>18, <1>0, <1>s DEF Unlock, TypeOKOps, Called, NotCalled, FlushInv
    <2> QED
      BY <1>s, <1>c, <2>1, <2>2 DEF ClosedByStays, ClosedBy, CallsStay
  <1>19. ASSUME NEW t \in Thread, Callback(t) PROVE ClosedByStays
    BY <1>19, <1>u DEF Callback
  <1>20. ASSUME NEW t \in Thread \ CancelCloser, Return(t) PROVE ClosedByStays
    <2>1. OpsOf(enq') = OpsOf(enq) /\ \A x \in Op : Called(x) /\ pc[x] # "close" => pc'[x] # "close"
      BY <1>20, <1>0, <1>s DEF Return, Called, NotCalled, TypeOKOps
    <2>2. UNCHANGED st
      BY <1>20, <1>0, <1>s DEF Return, TypeOKOps, Called, NotCalled, FlushInv
    <2> QED
      BY <1>s, <1>c, <2>1, <2>2 DEF ClosedByStays, ClosedBy, CallsStay
  <1>21. ASSUME NEW t \in CancelCloser, ReturnOfClose(t) PROVE ClosedByStays
    <2>1. OpsOf(enq') = OpsOf(enq) /\ \A x \in Op : Called(x) /\ pc[x] # "close" => pc'[x] # "close"
      BY <1>21, <1>0, <1>s DEF ReturnOfClose, Called, NotCalled, TypeOKOps
    <2>2. UNCHANGED st
      BY <1>21, <1>0, <1>s DEF ReturnOfClose, TypeOKOps, Called, NotCalled, FlushInv
    <2> QED
      BY <1>s, <1>c, <2>1, <2>2 DEF ClosedByStays, ClosedBy, CallsStay
  <1>22. ASSUME NEW c \in Canceller, CancelAttempt(c) PROVE ClosedByStays
    <2>1. OpsOf(enq') \subseteq OpsOf(enq)
      BY <1>22, AttemptsGo
    <2>2. \A x \in Op : pc'[x] = pc[x] /\ (x # Victim[c] => st'[x] = st[x])
      BY <1>22, <1>0, <1>s DEF CancelAttempt, TypeOKOps
    <2>3. Victim[c] \notin Closer
      BY <1>22, <1>s
    <2> QED
      BY <1>s, <2>1, <2>2, <2>3 DEF ClosedByStays, ClosedBy, Called
  <1>23. ASSUME NEW c \in Canceller, CancelNothing(c) PROVE ClosedByStays
    <2>1. OpsOf(enq') = OpsOf(enq) /\ \A x \in Op : Called(x) /\ pc[x] # "close" => pc'[x] # "close"
      BY <1>23, <1>0, <1>s DEF CancelNothing, Called, NotCalled, TypeOKOps
    <2>2. UNCHANGED st
      BY <1>23, <1>0, <1>s DEF CancelNothing, TypeOKOps, Called, NotCalled, FlushInv
    <2> QED
      BY <1>s, <1>c, <2>1, <2>2 DEF ClosedByStays, ClosedBy, CallsStay
  <1>24. CASE UNCHANGED vars
    BY <1>24, <1>u DEF vars, pqVars
  <1> QED
    BY <1>1, <1>2, <1>3, <1>4, <1>5, <1>6, <1>7, <1>8, <1>9, <1>10, <1>11, <1>12, <1>13, <1>14, <1>15, <1>16, <1>17, <1>18, <1>19, <1>20, <1>21, <1>22, <1>23, <1>24 DEF OneStep


\* Who has closed the queue.
LEMMA ClosedByInvStep ==
  ASSUME BarrierAssumption, ThreadAssumption, TypeInv, FlushInv, CallInv, AttemptsApart, StatusInv, CloseInv, ClosedByInv, OneStep \/ UNCHANGED vars
  PROVE  ClosedByInv'
  <1>c. ClosedByStays
    BY ClosedByStep
  <1>u. ASSUME UNCHANGED <<queue_is_closed, queue_cancelled>> PROVE ClosedByInv'
    BY <1>c, <1>u DEF ClosedByInv, ClosedByStays
  <1>s. /\ Inserter \subseteq Op /\ Taker \subseteq Op /\ Closer \subseteq Op
        /\ Op \subseteq Thread /\ Canceller \subseteq Thread /\ Nobody \notin Thread
        /\ Op = Inserter \cup Taker \cup Closer
        /\ Small \subseteq Taker /\ CancelCloser \subseteq Closer
        /\ \A o \in Inserter : o \notin Taker /\ o \notin Closer
        /\ \A o \in Taker : o \notin Closer
        /\ \A o \in Op : o \notin Canceller
        /\ \A c \in Canceller : Victim[c] \in Inserter \cup Taker
    BY Sorts
  <1>0. TypeOKOps /\ TypeOKFlags /\ TypeOKAttempts
    BY DEF TypeInv, TypeOK
  <1>1. ASSUME NEW o \in Op, Ends(o) PROVE ClosedByInv'
    BY <1>1, <1>u DEF Ends
  <1>2. ASSUME NEW o \in Inserter, InsertEnds(o) PROVE ClosedByInv'
    BY <1>2, <1>u DEF InsertEnds
  <1>3. ASSUME NEW o \in Inserter, InsertReady(o) PROVE ClosedByInv'
    BY <1>3, <1>u DEF InsertReady
  <1>4. ASSUME NEW o \in Taker, TakeStarts(o) PROVE ClosedByInv'
    BY <1>4, <1>u DEF TakeStarts
  <1>5. ASSUME NEW o \in Closer, CloseBegins(o) PROVE ClosedByInv'
    BY <1>5, <1>c DEF CloseBegins, ClosedByInv, ClosedByStays
  <1>6. ASSUME NEW o \in Closer, CloseEnds(o) PROVE ClosedByInv'
    BY <1>6, <1>c DEF CloseEnds, ClosedByInv, ClosedByStays
  <1>7. ASSUME NEW o \in Closer, CloseForgets(o) PROVE ClosedByInv'
    BY <1>7, <1>c DEF CloseForgets, ClosedByInv, ClosedByStays
  <1>8. ASSUME NEW o \in Inserter, AppendEnqueue(o) PROVE ClosedByInv'
    BY <1>8, <1>u DEF AppendEnqueue
  <1>9. ASSUME NEW o \in Taker, AppendDequeue(o) PROVE ClosedByInv'
    BY <1>9, <1>u DEF AppendDequeue
  <1>10. ASSUME NEW o \in Closer \ CancelCloser, AppendClose(o) PROVE ClosedByInv'
    BY <1>10, <1>u DEF AppendClose
  <1>11. ASSUME NEW o \in CancelCloser, CancelEnqueues(o) PROVE ClosedByInv'
    BY <1>11 DEF CancelEnqueues, ClosedByInv, CloseInv
  <1>12. ASSUME NEW t \in Thread, Lock(t) PROVE ClosedByInv'
    BY <1>12, <1>u DEF Lock
  <1>13. ASSUME NEW t \in Thread, RefuseEnqueue(t) PROVE ClosedByInv'
    BY <1>13, <1>u DEF RefuseEnqueue
  <1>14. ASSUME NEW t \in Thread, RunEnqueue(t) PROVE ClosedByInv'
    <2>1. PICK h \in Inserter \cup Closer : EnqueueLeft(h, t)
      BY <1>14, <1>0, EnqueueLeaves DEF RunEnqueue
    <2>2. /\ OpsOf(enq) = {h} \cup OpsOf(enq') /\ h = Head(enq).op /\ h \notin OpsOf(enq')
          /\ Head(enq) \in Range(enq)
      BY <2>1 DEF EnqueueLeft, AttemptsApart
    <2>3. UNCHANGED <<pc, st>> /\ queue_is_closed' = Head(enq).close
      BY <1>14 DEF RunEnqueue
    <2>4. Past(h) /\ h \in Op /\ st[h] = "ok"
      BY <1>s, <2>2 DEF CallInv, StatusInv
    <2>5. Head(enq).close => h \in Closer \ CancelCloser
      BY <2>2 DEF CloseInv
    <2> QED
      BY <2>2, <2>3, <2>4, <2>5 DEF ClosedByInv, ClosedBy, Past, Called
  <1>15. ASSUME NEW t \in Thread, FailDequeue(t) PROVE ClosedByInv'
    BY <1>15, <1>u DEF FailDequeue
  <1>16. ASSUME NEW t \in Thread, RunDequeue(t) PROVE ClosedByInv'
    BY <1>16, <1>u DEF RunDequeue
  <1>17. ASSUME NEW t \in Thread, RunDequeuePartly(t) PROVE ClosedByInv'
    BY <1>17, <1>u DEF RunDequeuePartly
  <1>18. ASSUME NEW t \in Thread, Unlock(t) PROVE ClosedByInv'
    BY <1>18, <1>u DEF Unlock
  <1>19. ASSUME NEW t \in Thread, Callback(t) PROVE ClosedByInv'
    BY <1>19, <1>u DEF Callback
  <1>20. ASSUME NEW t \in Thread \ CancelCloser, Return(t) PROVE ClosedByInv'
    BY <1>20, <1>u DEF Return
  <1>21. ASSUME NEW t \in CancelCloser, ReturnOfClose(t) PROVE ClosedByInv'
    BY <1>21, <1>u DEF ReturnOfClose
  <1>22. ASSUME NEW c \in Canceller, CancelAttempt(c) PROVE ClosedByInv'
    BY <1>22, <1>u DEF CancelAttempt
  <1>23. ASSUME NEW c \in Canceller, CancelNothing(c) PROVE ClosedByInv'
    BY <1>23, <1>u DEF CancelNothing
  <1>24. CASE UNCHANGED vars
    BY <1>24, <1>u DEF vars, pqVars, barrierVars, flagVars
  <1> QED
    BY <1>1, <1>2, <1>3, <1>4, <1>5, <1>6, <1>7, <1>8, <1>9, <1>10, <1>11, <1>12, <1>13, <1>14, <1>15, <1>16, <1>17, <1>18, <1>19, <1>20, <1>21, <1>22, <1>23, <1>24 DEF OneStep


\* A Close that cancels completes only enqueues that fail.
LEMMA CancelCloserInvStep ==
  ASSUME BarrierAssumption, ThreadAssumption, TypeInv, FlushInv, CallInv, CloseInv, CancelCloserInv, OneStep \/ UNCHANGED vars
  PROVE  CancelCloserInv'
  <1>u. ASSUME UNCHANGED <<clean_up, st>> PROVE CancelCloserInv'
    BY <1>u DEF CancelCloserInv
  <1>s. /\ Inserter \subseteq Op /\ Taker \subseteq Op /\ Closer \subseteq Op
        /\ Op \subseteq Thread /\ Canceller \subseteq Thread /\ Nobody \notin Thread
        /\ Op = Inserter \cup Taker \cup Closer
        /\ Small \subseteq Taker /\ CancelCloser \subseteq Closer
        /\ \A o \in Inserter : o \notin Taker /\ o \notin Closer
        /\ \A o \in Taker : o \notin Closer
        /\ \A o \in Op : o \notin Canceller
        /\ \A c \in Canceller : Victim[c] \in Inserter \cup Taker
    BY Sorts
  <1>0. TypeOKOps /\ TypeOKFlags /\ TypeOKAttempts
    BY DEF TypeInv, TypeOK
  <1>1. ASSUME NEW o \in Op, Ends(o) PROVE CancelCloserInv'
    <2>1. UNCHANGED clean_up /\ \A x \in Op : x = o \/ st'[x] = st[x]
      BY <1>1, <1>0, <1>s DEF Ends, TypeOKOps
    <2>2. ~Listed(o)
      BY <1>1, <1>s DEF Ends, CallInv, Past, Called, NotCalled
    <2>3. \A t \in CancelCloser : \A x \in Range(clean_up'[t]) : x \in Inserter => st'[x] = st[x]
      BY <1>s, <2>1, <2>2 DEF Listed
    <2> QED
      BY <2>1, <2>3 DEF CancelCloserInv
  <1>2. ASSUME NEW o \in Inserter, InsertEnds(o) PROVE CancelCloserInv'
    <2>1. UNCHANGED clean_up /\ \A x \in Op : x = o \/ st'[x] = st[x]
      BY <1>2, <1>0, <1>s DEF InsertEnds, TypeOKOps
    <2>2. ~Listed(o)
      BY <1>2, <1>s DEF InsertEnds, CallInv, Past, Called, NotCalled
    <2>3. \A t \in CancelCloser : \A x \in Range(clean_up'[t]) : x \in Inserter => st'[x] = st[x]
      BY <1>s, <2>1, <2>2 DEF Listed
    <2> QED
      BY <2>1, <2>3 DEF CancelCloserInv
  <1>3. ASSUME NEW o \in Inserter, InsertReady(o) PROVE CancelCloserInv'
    BY <1>3, <1>u DEF InsertReady
  <1>4. ASSUME NEW o \in Taker, TakeStarts(o) PROVE CancelCloserInv'
    BY <1>4, <1>u DEF TakeStarts
  <1>5. ASSUME NEW o \in Closer, CloseBegins(o) PROVE CancelCloserInv'
    BY <1>5, <1>u DEF CloseBegins
  <1>6. ASSUME NEW o \in Closer, CloseEnds(o) PROVE CancelCloserInv'
    BY <1>6, <1>u DEF CloseEnds
  <1>7. ASSUME NEW o \in Closer, CloseForgets(o) PROVE CancelCloserInv'
    BY <1>7, <1>u DEF CloseForgets
  <1>8. ASSUME NEW o \in Inserter, AppendEnqueue(o) PROVE CancelCloserInv'
    BY <1>8, <1>u DEF AppendEnqueue
  <1>9. ASSUME NEW o \in Taker, AppendDequeue(o) PROVE CancelCloserInv'
    BY <1>9, <1>u DEF AppendDequeue
  <1>10. ASSUME NEW o \in Closer \ CancelCloser, AppendClose(o) PROVE CancelCloserInv'
    BY <1>10, <1>u DEF AppendClose
  <1>11. ASSUME NEW o \in CancelCloser, CancelEnqueues(o) PROVE CancelCloserInv'
    <2>1. UNCHANGED clean_up /\ \A x \in Op : st'[x] = "Cancelled" \/ st'[x] = st[x]
      BY <1>11, <1>0, <1>s DEF CancelEnqueues, TypeOKOps
    <2> QED
      BY <1>s, <2>1 DEF CancelCloserInv
  <1>12. ASSUME NEW t \in Thread, Lock(t) PROVE CancelCloserInv'
    BY <1>12, <1>u DEF Lock
  <1>13. ASSUME NEW t \in Thread, RefuseEnqueue(t) PROVE CancelCloserInv'
    <2>1. PICK h \in Inserter \cup Closer : EnqueueLeft(h, t)
      BY <1>13, <1>0, EnqueueLeaves DEF RefuseEnqueue
    <2>2. /\ h = Head(enq).op /\ Range(clean_up'[t]) = Range(clean_up[t]) \cup {h}
          /\ \A u \in Thread : u # t => clean_up'[u] = clean_up[u]
      BY <2>1 DEF EnqueueLeft

    <2>3. \A x \in Op : st'[x] = IF x = h THEN "Cancelled" ELSE st[x]
      BY <1>13, <1>0, <1>s, <2>2 DEF RefuseEnqueue, TypeOKOps
    <2> QED
      BY <1>s, <2>2, <2>3 DEF CancelCloserInv
  <1>14. ASSUME NEW t \in Thread, RunEnqueue(t) PROVE CancelCloserInv'
    <2>1. PICK h \in Inserter \cup Closer : EnqueueLeft(h, t)
      BY <1>14, <1>0, EnqueueLeaves DEF RunEnqueue
    <2>2. /\ h = Head(enq).op /\ Range(clean_up'[t]) = Range(clean_up[t]) \cup {h}
          /\ \A u \in Thread : u # t => clean_up'[u] = clean_up[u]
      BY <2>1 DEF EnqueueLeft

    <2>3. UNCHANGED st /\ t \notin CancelCloser
      BY <1>14 DEF RunEnqueue, FlushInv, CloseInv, Working
    <2> QED
      BY <1>s, <2>2, <2>3 DEF CancelCloserInv
  <1>15. ASSUME NEW t \in Thread, FailDequeue(t) PROVE CancelCloserInv'
    <2>1. PICK h \in Taker : DequeueLeft(h, t)
      BY <1>15, <1>0, DequeueLeaves DEF FailDequeue
    <2>2. /\ h = Head(deq).op /\ Range(clean_up'[t]) = Range(clean_up[t]) \cup {h}
          /\ \A u \in Thread : u # t => clean_up'[u] = clean_up[u]
      BY <2>1 DEF DequeueLeft

    <2>3. \A x \in Op : st'[x] = IF x = h THEN "OutOfRange" ELSE st[x]
      BY <1>15, <1>0, <1>s, <2>2 DEF FailDequeue, TypeOKOps
    <2> QED
      BY <1>s, <2>2, <2>3 DEF CancelCloserInv
  <1>16. ASSUME NEW t \in Thread, RunDequeue(t) PROVE CancelCloserInv'
    <2>1. PICK h \in Taker : DequeueLeft(h, t)
      BY <1>16, <1>0, DequeueLeaves DEF RunDequeue
    <2>2. /\ h = Head(deq).op /\ Range(clean_up'[t]) = Range(clean_up[t]) \cup {h}
          /\ \A u \in Thread : u # t => clean_up'[u] = clean_up[u]
      BY <2>1 DEF DequeueLeft

    <2>3. UNCHANGED st
      BY <1>16 DEF RunDequeue
    <2> QED
      BY <1>s, <2>2, <2>3 DEF CancelCloserInv
  <1>17. ASSUME NEW t \in Thread, RunDequeuePartly(t) PROVE CancelCloserInv'
    BY <1>17, <1>u DEF RunDequeuePartly
  <1>18. ASSUME NEW t \in Thread, Unlock(t) PROVE CancelCloserInv'
    BY <1>18, <1>u DEF Unlock
  <1>19. ASSUME NEW t \in Thread, Callback(t) PROVE CancelCloserInv'
    <2>1. PICK h \in Op : /\ Range(clean_up[t]) = Range(clean_up'[t]) \cup {h}
                          /\ \A u \in Thread : u # t => clean_up'[u] = clean_up[u]
      BY <1>19, <1>0, ListShrinks DEF Callback
    <2>2. UNCHANGED st
      BY <1>19 DEF Callback
    <2> QED
      BY <1>s, <2>1, <2>2 DEF CancelCloserInv
  <1>20. ASSUME NEW t \in Thread \ CancelCloser, Return(t) PROVE CancelCloserInv'
    BY <1>20, <1>u DEF Return
  <1>21. ASSUME NEW t \in CancelCloser, ReturnOfClose(t) PROVE CancelCloserInv'
    BY <1>21, <1>u DEF ReturnOfClose
  <1>22. ASSUME NEW c \in Canceller, CancelAttempt(c) PROVE CancelCloserInv'
    <2>1. UNCHANGED clean_up /\ \A x \in Op : st'[x] = "Cancelled" \/ st'[x] = st[x]
      BY <1>22, <1>0, <1>s DEF CancelAttempt, TypeOKOps
    <2> QED
      BY <1>s, <2>1 DEF CancelCloserInv
  <1>23. ASSUME NEW c \in Canceller, CancelNothing(c) PROVE CancelCloserInv'
    BY <1>23, <1>u DEF CancelNothing
  <1>24. CASE UNCHANGED vars
    BY <1>24, <1>u DEF vars, pqVars
  <1> QED
    BY <1>1, <1>2, <1>3, <1>4, <1>5, <1>6, <1>7, <1>8, <1>9, <1>10, <1>11, <1>12, <1>13, <1>14, <1>15, <1>16, <1>17, <1>18, <1>19, <1>20, <1>21, <1>22, <1>23, <1>24 DEF OneStep

(***************************************************************************)
(* The flushes and the closes.                                             *)
(***************************************************************************)
CoreInv ==
    /\ TypeInv
    /\ FlushInv /\ MuInv /\ WakeInv
    /\ CallInv /\ AttemptsApart /\ StatusInv
    /\ CloseInv /\ ClosedByInv /\ CancelCloserInv

\* It holds at the start.
LEMMA CoreInvInit == BarrierAssumption /\ ThreadAssumption /\ Init => CoreInv
  <1> SUFFICES ASSUME BarrierAssumption, ThreadAssumption, Init PROVE CoreInv
    OBVIOUS
  <1>s. Op \subseteq Thread /\ Nobody \notin Thread /\ Closer \subseteq Op /\ CancelCloser \subseteq Closer
    BY Sorts
  <1>1. TypeInv
    BY TypeInvInit
  <1>2. /\ enq = <<>> /\ deq = <<>> /\ queue_is_closed = FALSE /\ closed = FALSE /\ mu = Nobody
        /\ queue_mu = Nobody /\ queue = {}
        /\ \A t \in Thread : st[t] = "ok" /\ clean_up[t] = <<>> /\ pc[t] \in NotCalled
    BY DEF Init, PQInit, NotCalled
  <1>3. /\ OpsOf(enq) = {} /\ OpsOf(deq) = {} /\ Range(enq) = {} /\ Range(deq) = {}
        /\ \A t \in Thread : Range(clean_up[t]) = {}
    BY <1>2, OpsEmpty, RangeEmpty
  <1>4. FlushInv /\ MuInv
    BY <1>s, <1>2 DEF FlushInv, MuInv, NotCalled, Working
  <1>5. WakeInv
    BY <1>2 DEF WakeInv, DequeueWaits
  <1>6. CallInv /\ CancelCloserInv
    BY <1>s, <1>3 DEF CallInv, Listed, CancelCloserInv
  <1>7. AttemptsApart
    BY <1>2, <1>3 DEF AttemptsApart, OpsApart, Distinct
  <1>8. StatusInv
    BY <1>s, <1>2 DEF StatusInv
  <1>9. CloseInv /\ ClosedByInv
    <2>1. ~queue_is_closed /\ ~closed
      BY <1>2
    <2>2. \A o \in Closer : pc[o] # "close" /\ pc[o] \notin Working
      BY <1>s, <1>2 DEF NotCalled, Working
    <2> QED
      BY <1>s, <1>3, <2>1, <2>2 DEF CloseInv, ClosedByInv
  <1> QED
    BY <1>1, <1>4, <1>5, <1>6, <1>7, <1>8, <1>9 DEF CoreInv

\* Every step of the specification is one of the steps, or none.
LEMMA CoreCases == ASSUME BarrierAssumption, CoreInv, [Next]_vars PROVE OneStep \/ UNCHANGED vars
  <1>1. QueueOK
    BY DEF CoreInv, TypeInv, TypeOK, QueueOK
  <1> QED
    BY <1>1, StepCases

\* It is kept by every step.
LEMMA CoreInvStep ==
  ASSUME BarrierAssumption, ThreadAssumption, CoreInv, [Next]_vars
  PROVE  CoreInv'
  <1>0. OneStep \/ UNCHANGED vars
    BY CoreCases
  <1>1. /\ TypeInv /\ FlushInv /\ MuInv /\ WakeInv /\ CallInv /\ AttemptsApart /\ StatusInv
        /\ CloseInv /\ ClosedByInv /\ CancelCloserInv
    BY DEF CoreInv
  <1>2. TypeInv'
    BY <1>0, <1>1, TypeInvStep
  <1>3. FlushInv'
    BY <1>0, <1>1, FlushInvStep
  <1>4. MuInv'
    BY <1>0, <1>1, MuInvStep
  <1>5. WakeInv'
    BY <1>0, <1>1, WakeInvStep
  <1>6. CallInv'
    BY <1>0, <1>1, CallInvStep
  <1>7. AttemptsApart'
    BY <1>0, <1>1, ApartStep
  <1>8. StatusInv'
    BY <1>0, <1>1, StatusInvStep
  <1>9. CloseInv'
    BY <1>0, <1>1, CloseInvStep
  <1>10. ClosedByInv'
    BY <1>0, <1>1, ClosedByInvStep
  <1>11. CancelCloserInv'
    BY <1>0, <1>1, CancelCloserInvStep
  <1> QED
    BY <1>2, <1>3, <1>4, <1>5, <1>6, <1>7, <1>8, <1>9, <1>10, <1>11 DEF CoreInv

\* The state of a barrier is of its type, one thread at a time is in a flush or
\* closes, no operation has two attempts, and who closed the queue is known.
THEOREM CoreInvariance == Spec => []CoreInv
  <1>1. Init => CoreInv
    BY BarrierAssumption, ThreadAssumption, CoreInvInit
  <1>2. CoreInv /\ [Next]_vars => CoreInv'
    BY BarrierAssumption, ThreadAssumption, CoreInvStep
  <1> QED
    BY <1>1, <1>2, PTL DEF Spec

\* No wakeup is lost between the critical sections of TryEnqueueMany,
\* TryDequeueMany, Close and Cancel and the flushes that follow them.
THEOREM NoWakeupIsLost == Spec => []NoLostWakeup
  <1>1. CoreInv => NoLostWakeup
    <2> SUFFICES ASSUME CoreInv, \A t \in Thread : pc[t] \notin {"flush", "flushing"}
                 PROVE  /\ enq = <<>>
                        /\ deq # <<>> => ~queue_is_closed /\ Count(queue) < Head(deq).requested
      BY DEF NoLostWakeup
    <2>1. queue_mu \in Thread \cup {Nobody}
      BY DEF CoreInv, TypeInv, TypeOK, TypeOKFlags
    <2>2. queue_mu = Nobody
      BY <2>1 DEF CoreInv, FlushInv
    <2> QED
      BY <2>2 DEF CoreInv, WakeInv, DequeueWaits
  <1> QED
    BY <1>1, CoreInvariance, PTL

\* A thread can ask for mu_ while it keeps it only in a Close without
\* cancel_pending_enqueues.
THEOREM OnlyPlainCloseLocksTwice == Spec => []OnlyPlainCloseWaitsForItself
  <1>1. CoreInv => OnlyPlainCloseWaitsForItself
    <2> SUFFICES ASSUME CoreInv, NEW t \in Thread, WaitsForItself(t) PROVE t \in Closer \ CancelCloser
      BY DEF OnlyPlainCloseWaitsForItself
    <2>1. t \in Closer
      BY DEF WaitsForItself, CoreInv, MuInv
    <2>2. clean_up[t] \in Seq(Op) /\ clean_up[t] # <<>>
      BY DEF WaitsForItself, CoreInv, TypeInv, TypeOK, TypeOKAttempts
    <2>3. PICK o \in Range(clean_up[t]) : o = Head(clean_up[t])
      BY <2>2, RangeTail
    <2>4. o \in Inserter /\ st[o] = "ok"
      BY <2>3 DEF WaitsForItself, NeedsMu
    <2> QED
      BY <2>1, <2>4 DEF CoreInv, CancelCloserInv
  <1> QED
    BY <1>1, CoreInvariance, PTL

(***************************************************************************)
(* Where the callbacks are.                                                *)
(***************************************************************************)

\* A forgotten callback stays forgotten.
ForgottenStays == \A o \in Op : Forgotten(o) => Forgotten(o)'

\* No step finds it again.
LEMMA ForgottenStep ==
  ASSUME BarrierAssumption, ThreadAssumption, TypeInv, FlushInv, CallInv, OneStep \/ UNCHANGED vars
  PROVE  ForgottenStays
  <1>c. ClosedByStays
    BY ClosedByStep
  <1>u. ASSUME UNCHANGED <<queue_is_closed, pc>> PROVE ForgottenStays
    BY <1>c, <1>u DEF ForgottenStays, Forgotten, ClosedByStays
  <1>s. /\ Inserter \subseteq Op /\ Taker \subseteq Op /\ Closer \subseteq Op
        /\ Op \subseteq Thread /\ Canceller \subseteq Thread /\ Nobody \notin Thread
        /\ Op = Inserter \cup Taker \cup Closer
        /\ Small \subseteq Taker /\ CancelCloser \subseteq Closer
        /\ \A o \in Inserter : o \notin Taker /\ o \notin Closer
        /\ \A o \in Taker : o \notin Closer
        /\ \A o \in Op : o \notin Canceller
        /\ \A c \in Canceller : Victim[c] \in Inserter \cup Taker
    BY Sorts
  <1>0. TypeOKOps /\ TypeOKFlags /\ TypeOKAttempts
    BY DEF TypeInv, TypeOK
  <1>1. ASSUME NEW o \in Op, Ends(o) PROVE ForgottenStays
    <2>1. (queue_is_closed => queue_is_closed') /\ \A x \in Op : pc[x] = "returned" => pc'[x] = "returned"
      BY <1>1, <1>0, <1>s DEF Ends, TypeOKOps
    <2> QED
      BY <1>s, <1>c, <2>1 DEF ForgottenStays, Forgotten, ClosedByStays
  <1>2. ASSUME NEW o \in Inserter, InsertEnds(o) PROVE ForgottenStays
    <2>1. (queue_is_closed => queue_is_closed') /\ \A x \in Op : pc[x] = "returned" => pc'[x] = "returned"
      BY <1>2, <1>0, <1>s DEF InsertEnds, TypeOKOps
    <2> QED
      BY <1>s, <1>c, <2>1 DEF ForgottenStays, Forgotten, ClosedByStays
  <1>3. ASSUME NEW o \in Inserter, InsertReady(o) PROVE ForgottenStays
    <2>1. (queue_is_closed => queue_is_closed') /\ \A x \in Op : pc[x] = "returned" => pc'[x] = "returned"
      BY <1>3, <1>0, <1>s DEF InsertReady, TypeOKOps
    <2> QED
      BY <1>s, <1>c, <2>1 DEF ForgottenStays, Forgotten, ClosedByStays
  <1>4. ASSUME NEW o \in Taker, TakeStarts(o) PROVE ForgottenStays
    <2>1. (queue_is_closed => queue_is_closed') /\ \A x \in Op : pc[x] = "returned" => pc'[x] = "returned"
      BY <1>4, <1>0, <1>s DEF TakeStarts, TypeOKOps
    <2> QED
      BY <1>s, <1>c, <2>1 DEF ForgottenStays, Forgotten, ClosedByStays
  <1>5. ASSUME NEW o \in Closer, CloseBegins(o) PROVE ForgottenStays
    <2>1. (queue_is_closed => queue_is_closed') /\ \A x \in Op : pc[x] = "returned" => pc'[x] = "returned"
      BY <1>5, <1>0, <1>s DEF CloseBegins, TypeOKOps
    <2> QED
      BY <1>s, <1>c, <2>1 DEF ForgottenStays, Forgotten, ClosedByStays
  <1>6. ASSUME NEW o \in Closer, CloseEnds(o) PROVE ForgottenStays
    <2>1. (queue_is_closed => queue_is_closed') /\ \A x \in Op : pc[x] = "returned" => pc'[x] = "returned"
      BY <1>6, <1>0, <1>s DEF CloseEnds, TypeOKOps
    <2> QED
      BY <1>s, <1>c, <2>1 DEF ForgottenStays, Forgotten, ClosedByStays
  <1>7. ASSUME NEW o \in Closer, CloseForgets(o) PROVE ForgottenStays
    <2>1. (queue_is_closed => queue_is_closed') /\ \A x \in Op : pc[x] = "returned" => pc'[x] = "returned"
      BY <1>7, <1>0, <1>s DEF CloseForgets, TypeOKOps
    <2> QED
      BY <1>s, <1>c, <2>1 DEF ForgottenStays, Forgotten, ClosedByStays
  <1>8. ASSUME NEW o \in Inserter, AppendEnqueue(o) PROVE ForgottenStays
    <2>1. (queue_is_closed => queue_is_closed') /\ \A x \in Op : pc[x] = "returned" => pc'[x] = "returned"
      BY <1>8, <1>0, <1>s DEF AppendEnqueue, TypeOKOps
    <2> QED
      BY <1>s, <1>c, <2>1 DEF ForgottenStays, Forgotten, ClosedByStays
  <1>9. ASSUME NEW o \in Taker, AppendDequeue(o) PROVE ForgottenStays
    <2>1. (queue_is_closed => queue_is_closed') /\ \A x \in Op : pc[x] = "returned" => pc'[x] = "returned"
      BY <1>9, <1>0, <1>s DEF AppendDequeue, TypeOKOps
    <2> QED
      BY <1>s, <1>c, <2>1 DEF ForgottenStays, Forgotten, ClosedByStays
  <1>10. ASSUME NEW o \in Closer \ CancelCloser, AppendClose(o) PROVE ForgottenStays
    <2>1. (queue_is_closed => queue_is_closed') /\ \A x \in Op : pc[x] = "returned" => pc'[x] = "returned"
      BY <1>10, <1>0, <1>s DEF AppendClose, TypeOKOps
    <2> QED
      BY <1>s, <1>c, <2>1 DEF ForgottenStays, Forgotten, ClosedByStays
  <1>11. ASSUME NEW o \in CancelCloser, CancelEnqueues(o) PROVE ForgottenStays
    <2>1. (queue_is_closed => queue_is_closed') /\ \A x \in Op : pc[x] = "returned" => pc'[x] = "returned"
      BY <1>11, <1>0, <1>s DEF CancelEnqueues, TypeOKOps
    <2> QED
      BY <1>s, <1>c, <2>1 DEF ForgottenStays, Forgotten, ClosedByStays
  <1>12. ASSUME NEW t \in Thread, Lock(t) PROVE ForgottenStays
    <2>1. (queue_is_closed => queue_is_closed') /\ \A x \in Op : pc[x] = "returned" => pc'[x] = "returned"
      BY <1>12, <1>0, <1>s DEF Lock, TypeOKOps
    <2> QED
      BY <1>s, <1>c, <2>1 DEF ForgottenStays, Forgotten, ClosedByStays
  <1>13. ASSUME NEW t \in Thread, RefuseEnqueue(t) PROVE ForgottenStays
    BY <1>13, <1>u DEF RefuseEnqueue
  <1>14. ASSUME NEW t \in Thread, RunEnqueue(t) PROVE ForgottenStays
    BY <1>14 DEF RunEnqueue, ForgottenStays, Forgotten
  <1>15. ASSUME NEW t \in Thread, FailDequeue(t) PROVE ForgottenStays
    BY <1>15, <1>u DEF FailDequeue
  <1>16. ASSUME NEW t \in Thread, RunDequeue(t) PROVE ForgottenStays
    BY <1>16, <1>u DEF RunDequeue
  <1>17. ASSUME NEW t \in Thread, RunDequeuePartly(t) PROVE ForgottenStays
    BY <1>17, <1>u DEF RunDequeuePartly
  <1>18. ASSUME NEW t \in Thread, Unlock(t) PROVE ForgottenStays
    <2>1. (queue_is_closed => queue_is_closed') /\ \A x \in Op : pc[x] = "returned" => pc'[x] = "returned"
      BY <1>18, <1>0, <1>s DEF Unlock, TypeOKOps
    <2> QED
      BY <1>s, <1>c, <2>1 DEF ForgottenStays, Forgotten, ClosedByStays
  <1>19. ASSUME NEW t \in Thread, Callback(t) PROVE ForgottenStays
    BY <1>19, <1>u DEF Callback
  <1>20. ASSUME NEW t \in Thread \ CancelCloser, Return(t) PROVE ForgottenStays
    <2>1. (queue_is_closed => queue_is_closed') /\ \A x \in Op : pc[x] = "returned" => pc'[x] = "returned"
      BY <1>20, <1>0, <1>s DEF Return, TypeOKOps
    <2> QED
      BY <1>s, <1>c, <2>1 DEF ForgottenStays, Forgotten, ClosedByStays
  <1>21. ASSUME NEW t \in CancelCloser, ReturnOfClose(t) PROVE ForgottenStays
    <2>1. (queue_is_closed => queue_is_closed') /\ \A x \in Op : pc[x] = "returned" => pc'[x] = "returned"
      BY <1>21, <1>0, <1>s DEF ReturnOfClose, TypeOKOps
    <2> QED
      BY <1>s, <1>c, <2>1 DEF ForgottenStays, Forgotten, ClosedByStays
  <1>22. ASSUME NEW c \in Canceller, CancelAttempt(c) PROVE ForgottenStays
    <2>1. (queue_is_closed => queue_is_closed') /\ \A x \in Op : pc[x] = "returned" => pc'[x] = "returned"
      BY <1>22, <1>0, <1>s DEF CancelAttempt, TypeOKOps
    <2> QED
      BY <1>s, <1>c, <2>1 DEF ForgottenStays, Forgotten, ClosedByStays
  <1>23. ASSUME NEW c \in Canceller, CancelNothing(c) PROVE ForgottenStays
    <2>1. (queue_is_closed => queue_is_closed') /\ \A x \in Op : pc[x] = "returned" => pc'[x] = "returned"
      BY <1>23, <1>0, <1>s DEF CancelNothing, TypeOKOps
    <2> QED
      BY <1>s, <1>c, <2>1 DEF ForgottenStays, Forgotten, ClosedByStays
  <1>24. CASE UNCHANGED vars
    BY <1>24, <1>u DEF vars, pqVars
  <1> QED
    BY <1>1, <1>2, <1>3, <1>4, <1>5, <1>6, <1>7, <1>8, <1>9, <1>10, <1>11, <1>12, <1>13, <1>14, <1>15, <1>16, <1>17, <1>18, <1>19, <1>20, <1>21, <1>22, <1>23, <1>24 DEF OneStep


\* No callback is on two lists, or twice on one.
LEMMA ListsApartStep ==
  ASSUME BarrierAssumption, ThreadAssumption, TypeInv, PlaceInv, ListsApart, OneStep \/ UNCHANGED vars
  PROVE  ListsApart'
  <1>u. ASSUME UNCHANGED <<clean_up>> PROVE ListsApart'
    BY <1>u DEF ListsApart
  <1>s. /\ Inserter \subseteq Op /\ Taker \subseteq Op /\ Closer \subseteq Op
        /\ Op \subseteq Thread /\ Canceller \subseteq Thread /\ Nobody \notin Thread
        /\ Op = Inserter \cup Taker \cup Closer
        /\ Small \subseteq Taker /\ CancelCloser \subseteq Closer
        /\ \A o \in Inserter : o \notin Taker /\ o \notin Closer
        /\ \A o \in Taker : o \notin Closer
        /\ \A o \in Op : o \notin Canceller
        /\ \A c \in Canceller : Victim[c] \in Inserter \cup Taker
    BY Sorts
  <1>0. TypeOKOps /\ TypeOKFlags /\ TypeOKAttempts
    BY DEF TypeInv, TypeOK
  <1>1. ASSUME NEW o \in Op, Ends(o) PROVE ListsApart'
    BY <1>1, <1>u DEF Ends
  <1>2. ASSUME NEW o \in Inserter, InsertEnds(o) PROVE ListsApart'
    BY <1>2, <1>u DEF InsertEnds
  <1>3. ASSUME NEW o \in Inserter, InsertReady(o) PROVE ListsApart'
    BY <1>3, <1>u DEF InsertReady
  <1>4. ASSUME NEW o \in Taker, TakeStarts(o) PROVE ListsApart'
    BY <1>4, <1>u DEF TakeStarts
  <1>5. ASSUME NEW o \in Closer, CloseBegins(o) PROVE ListsApart'
    BY <1>5, <1>u DEF CloseBegins
  <1>6. ASSUME NEW o \in Closer, CloseEnds(o) PROVE ListsApart'
    BY <1>6, <1>u DEF CloseEnds
  <1>7. ASSUME NEW o \in Closer, CloseForgets(o) PROVE ListsApart'
    BY <1>7, <1>u DEF CloseForgets
  <1>8. ASSUME NEW o \in Inserter, AppendEnqueue(o) PROVE ListsApart'
    BY <1>8, <1>u DEF AppendEnqueue
  <1>9. ASSUME NEW o \in Taker, AppendDequeue(o) PROVE ListsApart'
    BY <1>9, <1>u DEF AppendDequeue
  <1>10. ASSUME NEW o \in Closer \ CancelCloser, AppendClose(o) PROVE ListsApart'
    BY <1>10, <1>u DEF AppendClose
  <1>11. ASSUME NEW o \in CancelCloser, CancelEnqueues(o) PROVE ListsApart'
    BY <1>11, <1>u DEF CancelEnqueues
  <1>12. ASSUME NEW t \in Thread, Lock(t) PROVE ListsApart'
    BY <1>12, <1>u DEF Lock
  <1>13. ASSUME NEW t \in Thread, RefuseEnqueue(t) PROVE ListsApart'
    <2>1. PICK h \in Inserter \cup Closer : EnqueueLeft(h, t)
      BY <1>13, <1>0, EnqueueLeaves DEF RefuseEnqueue
    <2>2. h \in Op /\ Waiting(h)
      BY <1>s, <2>1 DEF EnqueueLeft, Waiting
    <2>3. ~Listed(h)
      BY <2>2 DEF PlaceInv, PlaceOK
    <2>4. \A u \in Thread : h \notin Range(clean_up[u])
      BY <2>3 DEF Listed
    <2>5. /\ Range(clean_up'[t]) = Range(clean_up[t]) \cup {h}
          /\ \A u \in Thread : u # t => clean_up'[u] = clean_up[u]
          /\ Distinct(clean_up[t]) /\ h \notin Range(clean_up[t]) => Distinct(clean_up'[t])
      BY <2>1 DEF EnqueueLeft
    <2>6. Distinct(clean_up'[t])
      BY <2>4, <2>5 DEF ListsApart
    <2>7. \A u \in Thread : Distinct(clean_up'[u])
      BY <2>5, <2>6 DEF ListsApart
    <2>8. \A u \in Thread : Range(clean_up'[u]) = IF u = t THEN Range(clean_up[u]) \cup {h} ELSE Range(clean_up[u])
      BY <2>5
    <2>9. ASSUME NEW u \in Thread, NEW w \in Thread, u # w PROVE Range(clean_up'[u]) \cap Range(clean_up'[w]) = {}
      <3>1. /\ Range(clean_up[u]) \cap Range(clean_up[w]) = {}
            /\ h \notin Range(clean_up[u]) /\ h \notin Range(clean_up[w])
        BY <2>4, <2>9 DEF ListsApart
      <3>2. /\ Range(clean_up'[u]) \subseteq Range(clean_up[u]) \cup {h}
            /\ Range(clean_up'[w]) \subseteq Range(clean_up[w]) \cup {h}
        BY <2>8
      <3>3. ~(h \in Range(clean_up'[u]) /\ h \in Range(clean_up'[w]))
        BY <2>8, <2>9, <3>1
      <3> QED
        BY <3>1, <3>2, <3>3
    <2> QED
      BY <2>7, <2>9 DEF ListsApart
  <1>14. ASSUME NEW t \in Thread, RunEnqueue(t) PROVE ListsApart'
    <2>1. PICK h \in Inserter \cup Closer : EnqueueLeft(h, t)
      BY <1>14, <1>0, EnqueueLeaves DEF RunEnqueue
    <2>2. h \in Op /\ Waiting(h)
      BY <1>s, <2>1 DEF EnqueueLeft, Waiting
    <2>3. ~Listed(h)
      BY <2>2 DEF PlaceInv, PlaceOK
    <2>4. \A u \in Thread : h \notin Range(clean_up[u])
      BY <2>3 DEF Listed
    <2>5. /\ Range(clean_up'[t]) = Range(clean_up[t]) \cup {h}
          /\ \A u \in Thread : u # t => clean_up'[u] = clean_up[u]
          /\ Distinct(clean_up[t]) /\ h \notin Range(clean_up[t]) => Distinct(clean_up'[t])
      BY <2>1 DEF EnqueueLeft
    <2>6. Distinct(clean_up'[t])
      BY <2>4, <2>5 DEF ListsApart
    <2>7. \A u \in Thread : Distinct(clean_up'[u])
      BY <2>5, <2>6 DEF ListsApart
    <2>8. \A u \in Thread : Range(clean_up'[u]) = IF u = t THEN Range(clean_up[u]) \cup {h} ELSE Range(clean_up[u])
      BY <2>5
    <2>9. ASSUME NEW u \in Thread, NEW w \in Thread, u # w PROVE Range(clean_up'[u]) \cap Range(clean_up'[w]) = {}
      <3>1. /\ Range(clean_up[u]) \cap Range(clean_up[w]) = {}
            /\ h \notin Range(clean_up[u]) /\ h \notin Range(clean_up[w])
        BY <2>4, <2>9 DEF ListsApart
      <3>2. /\ Range(clean_up'[u]) \subseteq Range(clean_up[u]) \cup {h}
            /\ Range(clean_up'[w]) \subseteq Range(clean_up[w]) \cup {h}
        BY <2>8
      <3>3. ~(h \in Range(clean_up'[u]) /\ h \in Range(clean_up'[w]))
        BY <2>8, <2>9, <3>1
      <3> QED
        BY <3>1, <3>2, <3>3
    <2> QED
      BY <2>7, <2>9 DEF ListsApart
  <1>15. ASSUME NEW t \in Thread, FailDequeue(t) PROVE ListsApart'
    <2>1. PICK h \in Taker : DequeueLeft(h, t)
      BY <1>15, <1>0, DequeueLeaves DEF FailDequeue
    <2>2. h \in Op /\ Waiting(h)
      BY <1>s, <2>1 DEF DequeueLeft, Waiting
    <2>3. ~Listed(h)
      BY <2>2 DEF PlaceInv, PlaceOK
    <2>4. \A u \in Thread : h \notin Range(clean_up[u])
      BY <2>3 DEF Listed
    <2>5. /\ Range(clean_up'[t]) = Range(clean_up[t]) \cup {h}
          /\ \A u \in Thread : u # t => clean_up'[u] = clean_up[u]
          /\ Distinct(clean_up[t]) /\ h \notin Range(clean_up[t]) => Distinct(clean_up'[t])
      BY <2>1 DEF DequeueLeft
    <2>6. Distinct(clean_up'[t])
      BY <2>4, <2>5 DEF ListsApart
    <2>7. \A u \in Thread : Distinct(clean_up'[u])
      BY <2>5, <2>6 DEF ListsApart
    <2>8. \A u \in Thread : Range(clean_up'[u]) = IF u = t THEN Range(clean_up[u]) \cup {h} ELSE Range(clean_up[u])
      BY <2>5
    <2>9. ASSUME NEW u \in Thread, NEW w \in Thread, u # w PROVE Range(clean_up'[u]) \cap Range(clean_up'[w]) = {}
      <3>1. /\ Range(clean_up[u]) \cap Range(clean_up[w]) = {}
            /\ h \notin Range(clean_up[u]) /\ h \notin Range(clean_up[w])
        BY <2>4, <2>9 DEF ListsApart
      <3>2. /\ Range(clean_up'[u]) \subseteq Range(clean_up[u]) \cup {h}
            /\ Range(clean_up'[w]) \subseteq Range(clean_up[w]) \cup {h}
        BY <2>8
      <3>3. ~(h \in Range(clean_up'[u]) /\ h \in Range(clean_up'[w]))
        BY <2>8, <2>9, <3>1
      <3> QED
        BY <3>1, <3>2, <3>3
    <2> QED
      BY <2>7, <2>9 DEF ListsApart
  <1>16. ASSUME NEW t \in Thread, RunDequeue(t) PROVE ListsApart'
    <2>1. PICK h \in Taker : DequeueLeft(h, t)
      BY <1>16, <1>0, DequeueLeaves DEF RunDequeue
    <2>2. h \in Op /\ Waiting(h)
      BY <1>s, <2>1 DEF DequeueLeft, Waiting
    <2>3. ~Listed(h)
      BY <2>2 DEF PlaceInv, PlaceOK
    <2>4. \A u \in Thread : h \notin Range(clean_up[u])
      BY <2>3 DEF Listed
    <2>5. /\ Range(clean_up'[t]) = Range(clean_up[t]) \cup {h}
          /\ \A u \in Thread : u # t => clean_up'[u] = clean_up[u]
          /\ Distinct(clean_up[t]) /\ h \notin Range(clean_up[t]) => Distinct(clean_up'[t])
      BY <2>1 DEF DequeueLeft
    <2>6. Distinct(clean_up'[t])
      BY <2>4, <2>5 DEF ListsApart
    <2>7. \A u \in Thread : Distinct(clean_up'[u])
      BY <2>5, <2>6 DEF ListsApart
    <2>8. \A u \in Thread : Range(clean_up'[u]) = IF u = t THEN Range(clean_up[u]) \cup {h} ELSE Range(clean_up[u])
      BY <2>5
    <2>9. ASSUME NEW u \in Thread, NEW w \in Thread, u # w PROVE Range(clean_up'[u]) \cap Range(clean_up'[w]) = {}
      <3>1. /\ Range(clean_up[u]) \cap Range(clean_up[w]) = {}
            /\ h \notin Range(clean_up[u]) /\ h \notin Range(clean_up[w])
        BY <2>4, <2>9 DEF ListsApart
      <3>2. /\ Range(clean_up'[u]) \subseteq Range(clean_up[u]) \cup {h}
            /\ Range(clean_up'[w]) \subseteq Range(clean_up[w]) \cup {h}
        BY <2>8
      <3>3. ~(h \in Range(clean_up'[u]) /\ h \in Range(clean_up'[w]))
        BY <2>8, <2>9, <3>1
      <3> QED
        BY <3>1, <3>2, <3>3
    <2> QED
      BY <2>7, <2>9 DEF ListsApart
  <1>17. ASSUME NEW t \in Thread, RunDequeuePartly(t) PROVE ListsApart'
    BY <1>17, <1>u DEF RunDequeuePartly
  <1>18. ASSUME NEW t \in Thread, Unlock(t) PROVE ListsApart'
    BY <1>18, <1>u DEF Unlock
  <1>19. ASSUME NEW t \in Thread, Callback(t) PROVE ListsApart'
    <2>1. PICK h \in Op : /\ Range(clean_up[t]) = Range(clean_up'[t]) \cup {h}
                          /\ \A u \in Thread : u # t => clean_up'[u] = clean_up[u]
                          /\ Distinct(clean_up[t]) => Distinct(clean_up'[t]) /\ h \notin Range(clean_up'[t])
      BY <1>19, <1>0, ListShrinks DEF Callback
    <2> QED
      BY <2>1 DEF ListsApart
  <1>20. ASSUME NEW t \in Thread \ CancelCloser, Return(t) PROVE ListsApart'
    BY <1>20, <1>u DEF Return
  <1>21. ASSUME NEW t \in CancelCloser, ReturnOfClose(t) PROVE ListsApart'
    BY <1>21, <1>u DEF ReturnOfClose
  <1>22. ASSUME NEW c \in Canceller, CancelAttempt(c) PROVE ListsApart'
    BY <1>22, <1>u DEF CancelAttempt
  <1>23. ASSUME NEW c \in Canceller, CancelNothing(c) PROVE ListsApart'
    BY <1>23, <1>u DEF CancelNothing
  <1>24. CASE UNCHANGED vars
    BY <1>24, <1>u DEF vars, pqVars
  <1> QED
    BY <1>1, <1>2, <1>3, <1>4, <1>5, <1>6, <1>7, <1>8, <1>9, <1>10, <1>11, <1>12, <1>13, <1>14, <1>15, <1>16, <1>17, <1>18, <1>19, <1>20, <1>21, <1>22, <1>23, <1>24 DEF OneStep


\* A step that moves the callback of operation o nowhere.
Same(o) ==
    /\ InHand(o)' <=> InHand(o)
    /\ Waiting(o)' <=> Waiting(o)
    /\ Listed(o)' <=> Listed(o)
    /\ done'[o] = done[o]
    /\ Called(o)' <=> Called(o)

\* It leaves the callback in its one place.
LEMMA SamePlace ==
  ASSUME NEW o, PlaceOK(o), Same(o), Forgotten(o) => Forgotten(o)'
  PROVE  PlaceOK(o)'
  <1>1. /\ done'[o] \in {0, 1}
        /\ InHand(o)' => ~Waiting(o)' /\ ~Listed(o)' /\ done'[o] = 0
        /\ Waiting(o)' => ~Listed(o)' /\ done'[o] = 0
        /\ Listed(o)' => done'[o] = 0
    BY DEF PlaceOK, Same
  <1>2. Called(o)' => InHand(o)' \/ Waiting(o)' \/ Listed(o)' \/ done'[o] = 1 \/ Forgotten(o)'
    BY DEF PlaceOK, Same
  <1>3. InHand(o)' \/ Waiting(o)' \/ Listed(o)' \/ done'[o] = 1 \/ Forgotten(o)' => Called(o)'
    <2>1. Forgotten(o)' => Called(o)'
      BY DEF Forgotten, Called, NotCalled
    <2>2. InHand(o)' \/ Waiting(o)' \/ Listed(o)' \/ done'[o] = 1 => Called(o)'
      BY DEF PlaceOK, Same
    <2> QED
      BY <2>1, <2>2
  <1> QED
    BY <1>1, <1>2, <1>3 DEF PlaceOK

\* A callback that has been run, taken from its only place.
LEMMA RunPlace ==
  ASSUME NEW o, done[o] = 0, done'[o] = done[o] + 1, Called(o)',
         ~InHand(o)', ~Waiting(o)', ~Listed(o)'
  PROVE  PlaceOK(o)'
  <1>1. done'[o] = 1
    OBVIOUS
  <1> QED
    BY <1>1 DEF PlaceOK

\* One that is in its only place.
LEMMA OnePlace ==
  ASSUME NEW o, done'[o] = 0, Called(o)',
         \/ InHand(o)' /\ ~Waiting(o)' /\ ~Listed(o)'
         \/ ~InHand(o)' /\ Waiting(o)' /\ ~Listed(o)'
         \/ ~InHand(o)' /\ ~Waiting(o)' /\ Listed(o)'
         \/ ~InHand(o)' /\ ~Waiting(o)' /\ ~Listed(o)' /\ Forgotten(o)'
  PROVE  PlaceOK(o)'
  BY DEF PlaceOK

\* An operation that has no attempt yet.
LEMMA NotYet ==
  ASSUME TypeOKOps, PlaceInv, CallInv, NEW o \in Op, ~Past(o)
  PROVE  ~Waiting(o) /\ ~Listed(o) /\ done[o] = 0
  <1>1. ~Waiting(o) /\ ~Listed(o)
    BY DEF CallInv, Waiting
  <1>2. PlaceOK(o)
    BY DEF PlaceInv
  <1>3. CASE Called(o)
    <2>1. InHand(o)
      BY <1>3 DEF Past, InHand
    <2> QED
      BY <1>1, <1>2, <2>1 DEF PlaceOK
  <1>4. CASE ~Called(o)
    BY <1>1, <1>2, <1>4 DEF PlaceOK
  <1> QED
    BY <1>3, <1>4

\* Every callback stays in one place until it has been run.
LEMMA PlaceInvStep ==
  ASSUME BarrierAssumption, ThreadAssumption, CoreInv, ListsApart, PlaceInv, OneStep \/ UNCHANGED vars
  PROVE  PlaceInv'
  <1>i. /\ TypeInv /\ FlushInv /\ MuInv /\ CallInv /\ AttemptsApart /\ StatusInv /\ CloseInv /\ ClosedByInv
    BY DEF CoreInv
  <1>s. /\ Inserter \subseteq Op /\ Taker \subseteq Op /\ Closer \subseteq Op
        /\ Op \subseteq Thread /\ Canceller \subseteq Thread /\ Nobody \notin Thread
        /\ Op = Inserter \cup Taker \cup Closer
        /\ Small \subseteq Taker /\ CancelCloser \subseteq Closer
        /\ \A o \in Inserter : o \notin Taker /\ o \notin Closer
        /\ \A o \in Taker : o \notin Closer
        /\ \A o \in Op : o \notin Canceller
        /\ \A c \in Canceller : Victim[c] \in Inserter \cup Taker
    BY Sorts
  <1>0. TypeOKOps /\ TypeOKFlags /\ TypeOKAttempts
    BY <1>i DEF TypeInv, TypeOK
  <1>t. /\ OpsOf(enq) \subseteq Inserter \cup Closer /\ OpsOf(deq) \subseteq Taker
        /\ \A t \in Thread : Range(clean_up[t]) \subseteq Op
    BY <1>0, OpsTyped
  <1>a. OpsApart(enq) /\ OpsApart(deq)
    BY <1>i DEF AttemptsApart
  <1>c. ClosedByStays
    BY <1>i, ClosedByStep
  <1>f. ForgottenStays
    BY <1>i, ForgottenStep
  <1>m. ASSUME \A x \in Op : Same(x) \/ PlaceOK(x)' PROVE PlaceInv'
    <2> SUFFICES ASSUME NEW x \in Op PROVE PlaceOK(x)'
      BY DEF PlaceInv
    <2>1. CASE Same(x)
      BY <1>f, <2>1, SamePlace DEF PlaceInv, ForgottenStays
    <2> QED
      BY <1>m, <2>1
  <1>u. ASSUME UNCHANGED <<pc, enq, deq, clean_up, done>> PROVE PlaceInv'
    BY <1>m, <1>u DEF Same, InHand, Waiting, Listed, Called
  <1>1. ASSUME NEW o \in Op, Ends(o) PROVE PlaceInv'
    <2>1. \A x \in Op : x # o => Same(x)
      BY <1>1, <1>0, <1>s DEF Ends, Same, InHand, Waiting, Listed, Called, TypeOKOps
    <2>2. o \in Op /\ ~Past(o)
      BY <1>1, <1>s DEF Ends, Past, Called, NotCalled
    <2>3. ~Waiting(o) /\ ~Listed(o) /\ done[o] = 0
      BY <1>i, <1>0, <2>2, NotYet
    <2>4. /\ UNCHANGED <<enq, deq, clean_up>> /\ pc'[o] = "returned" /\ done'[o] = done[o] + 1
      BY <1>1, <1>0, <1>s, <2>2 DEF Ends, TypeOKOps
    <2>5. ~InHand(o)' /\ Called(o)' /\ ~Waiting(o)' /\ ~Listed(o)'
      BY <2>3, <2>4 DEF InHand, Called, NotCalled, Working, Waiting, Listed
    <2>9. PlaceOK(o)'
      BY <2>3, <2>4, <2>5, RunPlace
    <2> QED
      BY <1>m, <2>1, <2>9
  <1>2. ASSUME NEW o \in Inserter, InsertEnds(o) PROVE PlaceInv'
    <2>1. \A x \in Op : x # o => Same(x)
      BY <1>2, <1>0, <1>s DEF InsertEnds, Same, InHand, Waiting, Listed, Called, TypeOKOps
    <2>2. o \in Op /\ ~Past(o)
      BY <1>2, <1>s DEF InsertEnds, Past, Called, NotCalled
    <2>3. ~Waiting(o) /\ ~Listed(o) /\ done[o] = 0
      BY <1>i, <1>0, <2>2, NotYet
    <2>4. /\ UNCHANGED <<enq, deq, clean_up>> /\ pc'[o] = "returned" /\ done'[o] = done[o] + 1
      BY <1>2, <1>0, <1>s, <2>2 DEF InsertEnds, TypeOKOps
    <2>5. ~InHand(o)' /\ Called(o)' /\ ~Waiting(o)' /\ ~Listed(o)'
      BY <2>3, <2>4 DEF InHand, Called, NotCalled, Working, Waiting, Listed
    <2>9. PlaceOK(o)'
      BY <2>3, <2>4, <2>5, RunPlace
    <2> QED
      BY <1>m, <2>1, <2>9
  <1>3. ASSUME NEW o \in Inserter, InsertReady(o) PROVE PlaceInv'
    <2>1. \A x \in Op : x # o => Same(x)
      BY <1>3, <1>0, <1>s DEF InsertReady, Same, InHand, Waiting, Listed, Called, TypeOKOps
    <2>2. o \in Op /\ ~Past(o)
      BY <1>3, <1>s DEF InsertReady, Past, Called, NotCalled
    <2>3. ~Waiting(o) /\ ~Listed(o) /\ done[o] = 0
      BY <1>i, <1>0, <2>2, NotYet
    <2>4. /\ UNCHANGED <<enq, deq, clean_up>> /\ pc'[o] = "append" /\ done'[o] = done[o]
      BY <1>3, <1>0, <1>s, <2>2 DEF InsertReady, TypeOKOps
    <2>5. InHand(o)' /\ Called(o)' /\ ~Waiting(o)' /\ ~Listed(o)'
      BY <2>3, <2>4 DEF InHand, Called, NotCalled, Waiting, Listed
    <2>9. PlaceOK(o)'
      BY <2>3, <2>4, <2>5, OnePlace
    <2> QED
      BY <1>m, <2>1, <2>9
  <1>4. ASSUME NEW o \in Taker, TakeStarts(o) PROVE PlaceInv'
    <2>1. \A x \in Op : x # o => Same(x)
      BY <1>4, <1>0, <1>s DEF TakeStarts, Same, InHand, Waiting, Listed, Called, TypeOKOps
    <2>2. o \in Op /\ ~Past(o)
      BY <1>4, <1>s DEF TakeStarts, Past, Called, NotCalled
    <2>3. ~Waiting(o) /\ ~Listed(o) /\ done[o] = 0
      BY <1>i, <1>0, <2>2, NotYet
    <2>4. /\ UNCHANGED <<enq, deq, clean_up>> /\ pc'[o] = "append" /\ done'[o] = done[o]
      BY <1>4, <1>0, <1>s, <2>2 DEF TakeStarts, TypeOKOps
    <2>5. InHand(o)' /\ Called(o)' /\ ~Waiting(o)' /\ ~Listed(o)'
      BY <2>3, <2>4 DEF InHand, Called, NotCalled, Waiting, Listed
    <2>9. PlaceOK(o)'
      BY <2>3, <2>4, <2>5, OnePlace
    <2> QED
      BY <1>m, <2>1, <2>9
  <1>5. ASSUME NEW o \in Closer, CloseBegins(o) PROVE PlaceInv'
    <2>1. \A x \in Op : x # o => Same(x)
      BY <1>5, <1>0, <1>s DEF CloseBegins, Same, InHand, Waiting, Listed, Called, TypeOKOps
    <2>2. o \in Op /\ ~Past(o)
      BY <1>5, <1>s DEF CloseBegins, Past, Called, NotCalled
    <2>3. ~Waiting(o) /\ ~Listed(o) /\ done[o] = 0
      BY <1>i, <1>0, <2>2, NotYet
    <2>4. /\ UNCHANGED <<enq, deq, clean_up>> /\ pc'[o] = "close" /\ done'[o] = done[o]
      BY <1>5, <1>0, <1>s, <2>2 DEF CloseBegins, TypeOKOps
    <2>5. InHand(o)' /\ Called(o)' /\ ~Waiting(o)' /\ ~Listed(o)'
      BY <2>3, <2>4 DEF InHand, Called, NotCalled, Waiting, Listed
    <2>9. PlaceOK(o)'
      BY <2>3, <2>4, <2>5, OnePlace
    <2> QED
      BY <1>m, <2>1, <2>9
  <1>6. ASSUME NEW o \in Closer, CloseEnds(o) PROVE PlaceInv'
    <2>1. \A x \in Op : x # o => Same(x)
      BY <1>6, <1>0, <1>s DEF CloseEnds, Same, InHand, Waiting, Listed, Called, TypeOKOps
    <2>2. o \in Op /\ ~Past(o)
      BY <1>6, <1>s DEF CloseEnds, Past, Called, NotCalled
    <2>3. ~Waiting(o) /\ ~Listed(o) /\ done[o] = 0
      BY <1>i, <1>0, <2>2, NotYet
    <2>4. /\ UNCHANGED <<enq, deq, clean_up>> /\ pc'[o] = "returned" /\ done'[o] = done[o] + 1
      BY <1>6, <1>0, <1>s, <2>2 DEF CloseEnds, TypeOKOps
    <2>5. ~InHand(o)' /\ Called(o)' /\ ~Waiting(o)' /\ ~Listed(o)'
      BY <2>3, <2>4 DEF InHand, Called, NotCalled, Working, Waiting, Listed
    <2>9. PlaceOK(o)'
      BY <2>3, <2>4, <2>5, RunPlace
    <2> QED
      BY <1>m, <2>1, <2>9
  <1>7. ASSUME NEW o \in Closer, CloseForgets(o) PROVE PlaceInv'
    <2>1. \A x \in Op : x # o => Same(x)
      BY <1>7, <1>0, <1>s DEF CloseForgets, Same, InHand, Waiting, Listed, Called, TypeOKOps
    <2>2. o \in Op /\ ~Past(o)
      BY <1>7, <1>s DEF CloseForgets, Past, Called, NotCalled
    <2>3. ~Waiting(o) /\ ~Listed(o) /\ done[o] = 0
      BY <1>i, <1>0, <2>2, NotYet
    <2>4. /\ UNCHANGED <<enq, deq, clean_up>> /\ pc'[o] = "returned" /\ done'[o] = done[o]
      BY <1>7, <1>0, <1>s, <2>2 DEF CloseForgets, TypeOKOps
    <2>5. ~InHand(o)' /\ Called(o)' /\ ~Waiting(o)' /\ ~Listed(o)'
      BY <2>3, <2>4 DEF InHand, Called, NotCalled, Working, Waiting, Listed
    <2>6. o \in CancelCloser
      BY <1>i, <1>7 DEF CloseForgets, CloseInv, AlreadyClosed
    <2>7. queue_is_closed' /\ \E p \in Closer : ClosedBy(p)'
      <3>1. queue_is_closed /\ ~queue_cancelled /\ queue_is_closed'
        BY <1>7, <2>6 DEF CloseForgets
      <3>2. PICK p \in Closer : ClosedBy(p)
        BY <1>i, <3>1 DEF ClosedByInv
      <3> QED
        BY <3>1, <3>2, <1>c DEF ClosedByStays
    <2>8. Forgotten(o)'
      BY <2>4, <2>6, <2>7 DEF Forgotten
    <2>9. PlaceOK(o)'
      BY <2>3, <2>4, <2>5, <2>8, OnePlace
    <2> QED
      BY <1>m, <2>1, <2>9
  <1>8. ASSUME NEW o \in Inserter, AppendEnqueue(o) PROVE PlaceInv'
    <2>0. /\ UNCHANGED <<deq, clean_up, done>> /\ \A y \in Op : pc'[y] = IF y = o THEN "flush" ELSE pc[y]
          /\ pc[o] \in {"append", "close"} /\ o \in Op /\ o \notin CancelCloser
      BY <1>8, <1>0, <1>s DEF AppendEnqueue, TypeOKOps
    <2>2. OpsOf(enq') = OpsOf(enq) \cup {o}
      BY <1>i, <1>8, EnqueueComes
    <2>1. \A y \in Op : y # o => Same(y)
      BY <2>0, <2>2 DEF Same, InHand, Waiting, Listed, Called
    <2>3. ~Waiting(o) /\ ~Listed(o) /\ done[o] = 0
      <3>1. ~Past(o)
        BY <2>0 DEF Past
      <3> QED
        BY <1>i, <1>0, <2>0, <3>1, NotYet
    <2>4. done'[o] = 0 /\ ~InHand(o)' /\ Waiting(o)' /\ ~Listed(o)' /\ Called(o)'
      BY <2>0, <2>2, <2>3 DEF InHand, Called, NotCalled, Waiting, Listed
    <2>9. PlaceOK(o)'
      BY <2>4, OnePlace
    <2> QED
      BY <1>m, <2>1, <2>9
  <1>9. ASSUME NEW o \in Taker, AppendDequeue(o) PROVE PlaceInv'
    <2>0. /\ UNCHANGED <<enq, clean_up, done>> /\ \A y \in Op : pc'[y] = IF y = o THEN "flush" ELSE pc[y]
          /\ pc[o] \in {"append", "close"} /\ o \in Op /\ o \notin CancelCloser
      BY <1>9, <1>0, <1>s DEF AppendDequeue, TypeOKOps
    <2>2. OpsOf(deq') = OpsOf(deq) \cup {o}
      BY <1>i, <1>9, DequeueComes
    <2>1. \A y \in Op : y # o => Same(y)
      BY <2>0, <2>2 DEF Same, InHand, Waiting, Listed, Called
    <2>3. ~Waiting(o) /\ ~Listed(o) /\ done[o] = 0
      <3>1. ~Past(o)
        BY <2>0 DEF Past
      <3> QED
        BY <1>i, <1>0, <2>0, <3>1, NotYet
    <2>4. done'[o] = 0 /\ ~InHand(o)' /\ Waiting(o)' /\ ~Listed(o)' /\ Called(o)'
      BY <2>0, <2>2, <2>3 DEF InHand, Called, NotCalled, Waiting, Listed
    <2>9. PlaceOK(o)'
      BY <2>4, OnePlace
    <2> QED
      BY <1>m, <2>1, <2>9
  <1>10. ASSUME NEW o \in Closer \ CancelCloser, AppendClose(o) PROVE PlaceInv'
    <2>0. /\ UNCHANGED <<deq, clean_up, done>> /\ \A y \in Op : pc'[y] = IF y = o THEN "flush" ELSE pc[y]
          /\ pc[o] \in {"append", "close"} /\ o \in Op /\ o \notin CancelCloser
      BY <1>10, <1>0, <1>s DEF AppendClose, TypeOKOps
    <2>2. OpsOf(enq') = OpsOf(enq) \cup {o}
      BY <1>i, <1>10, CloseComes
    <2>1. \A y \in Op : y # o => Same(y)
      BY <2>0, <2>2 DEF Same, InHand, Waiting, Listed, Called
    <2>3. ~Waiting(o) /\ ~Listed(o) /\ done[o] = 0
      <3>1. ~Past(o)
        BY <2>0 DEF Past
      <3> QED
        BY <1>i, <1>0, <2>0, <3>1, NotYet
    <2>4. done'[o] = 0 /\ ~InHand(o)' /\ Waiting(o)' /\ ~Listed(o)' /\ Called(o)'
      BY <2>0, <2>2, <2>3 DEF InHand, Called, NotCalled, Waiting, Listed
    <2>9. PlaceOK(o)'
      BY <2>4, OnePlace
    <2> QED
      BY <1>m, <2>1, <2>9
  <1>11. ASSUME NEW o \in CancelCloser, CancelEnqueues(o) PROVE PlaceInv'
    <2>1. /\ UNCHANGED <<deq, clean_up>> /\ pc[o] = "close"
          /\ \A x \in Op : /\ pc'[x] = IF x = o THEN "flush" ELSE pc[x]
                           /\ done'[x] = IF x \in OpsOf(enq) THEN done[x] + 1 ELSE done[x]
      BY <1>11, <1>0, <1>s DEF CancelEnqueues, TypeOKOps
    <2>2. OpsOf(enq') = {}
      BY <1>11, OpsEmpty DEF CancelEnqueues
    <2>3. ASSUME NEW x \in Op, x \notin OpsOf(enq) PROVE Same(x)
      BY <1>11, <2>1, <2>2, <2>3 DEF Same, InHand, Waiting, Listed, Called, NotCalled, Working
    <2>4. ASSUME NEW x \in Op, x \in OpsOf(enq) PROVE PlaceOK(x)'
      <3>1. Waiting(x) /\ Past(x) /\ PlaceOK(x) /\ x \notin OpsOf(deq) /\ x \notin CancelCloser
        BY <1>i, <1>t, <1>s, <2>4 DEF Waiting, CallInv, PlaceInv, CloseInv
      <3>2. x # o /\ done[x] = 0 /\ ~Listed(x)
        BY <2>1, <3>1 DEF Past, PlaceOK
      <3>3. ~InHand(x)' /\ ~Waiting(x)' /\ ~Listed(x)' /\ Called(x)'
        BY <2>1, <2>2, <3>1, <3>2 DEF InHand, Waiting, Listed, Called, Past
      <3>4. done'[x] = done[x] + 1
        BY <2>1, <2>4
      <3> QED
        BY <3>2, <3>3, <3>4, RunPlace
    <2> QED
      BY <1>m, <2>3, <2>4
  <1>12. ASSUME NEW t \in Thread, Lock(t) PROVE PlaceInv'
    <2>1. UNCHANGED <<enq, deq, clean_up, done>>
      BY <1>12 DEF Lock
    <2>2. /\ \A x \in Op : x # t => pc'[x] = pc[x]
          /\ t \in Op => pc[t] \in Working /\ pc'[t] \in Working
      BY <1>12, <1>0, <1>s DEF Lock, TypeOKOps, Working
    <2>3. \A x \in Op : Same(x)
      BY <1>12, <1>s, <2>1, <2>2 DEF Same, InHand, Waiting, Listed, Called, NotCalled, Working
    <2> QED
      BY <1>m, <2>3
  <1>13. ASSUME NEW t \in Thread, RefuseEnqueue(t) PROVE PlaceInv'
    <2>0. PICK h \in Inserter \cup Closer : EnqueueLeft(h, t)
      BY <1>13, <1>0, EnqueueLeaves DEF RefuseEnqueue
    <2>2. /\ h \in Op /\ OpsOf(enq) = {h} \cup OpsOf(enq') /\ h \notin OpsOf(enq')
          /\ \A y : Listed(y)' <=> Listed(y) \/ y = h
      BY <1>s, <1>a, <2>0 DEF EnqueueLeft
    <2>3. UNCHANGED <<deq, pc, done>>
      BY <1>13 DEF RefuseEnqueue
    <2>1. \A y \in Op : y # h => Same(y)
      BY <2>2, <2>3 DEF Same, InHand, Waiting, Called
    <2>4. Waiting(h) /\ PlaceOK(h) /\ Past(h) /\ h \notin OpsOf(deq)
      BY <1>i, <1>t, <1>s, <2>0, <2>2 DEF Waiting, PlaceInv, CallInv
    <2>5. done[h] = 0 /\ ~InHand(h) /\ ~Listed(h)
      BY <2>4 DEF PlaceOK
    <2>6. done'[h] = 0 /\ ~InHand(h)' /\ ~Waiting(h)' /\ Listed(h)' /\ Called(h)'
      BY <2>2, <2>3, <2>4, <2>5 DEF InHand, Waiting, Called, Past
    <2>9. PlaceOK(h)'
      BY <2>6, OnePlace
    <2> QED
      BY <1>m, <2>1, <2>9
  <1>14. ASSUME NEW t \in Thread, RunEnqueue(t) PROVE PlaceInv'
    <2>0. PICK h \in Inserter \cup Closer : EnqueueLeft(h, t)
      BY <1>14, <1>0, EnqueueLeaves DEF RunEnqueue
    <2>2. /\ h \in Op /\ OpsOf(enq) = {h} \cup OpsOf(enq') /\ h \notin OpsOf(enq')
          /\ \A y : Listed(y)' <=> Listed(y) \/ y = h
      BY <1>s, <1>a, <2>0 DEF EnqueueLeft
    <2>3. UNCHANGED <<deq, pc, done>>
      BY <1>14 DEF RunEnqueue
    <2>1. \A y \in Op : y # h => Same(y)
      BY <2>2, <2>3 DEF Same, InHand, Waiting, Called
    <2>4. Waiting(h) /\ PlaceOK(h) /\ Past(h) /\ h \notin OpsOf(deq)
      BY <1>i, <1>t, <1>s, <2>0, <2>2 DEF Waiting, PlaceInv, CallInv
    <2>5. done[h] = 0 /\ ~InHand(h) /\ ~Listed(h)
      BY <2>4 DEF PlaceOK
    <2>6. done'[h] = 0 /\ ~InHand(h)' /\ ~Waiting(h)' /\ Listed(h)' /\ Called(h)'
      BY <2>2, <2>3, <2>4, <2>5 DEF InHand, Waiting, Called, Past
    <2>9. PlaceOK(h)'
      BY <2>6, OnePlace
    <2> QED
      BY <1>m, <2>1, <2>9
  <1>15. ASSUME NEW t \in Thread, FailDequeue(t) PROVE PlaceInv'
    <2>0. PICK h \in Taker : DequeueLeft(h, t)
      BY <1>15, <1>0, DequeueLeaves DEF FailDequeue
    <2>2. /\ h \in Op /\ OpsOf(deq) = {h} \cup OpsOf(deq') /\ h \notin OpsOf(deq')
          /\ \A y : Listed(y)' <=> Listed(y) \/ y = h
      BY <1>s, <1>a, <2>0 DEF DequeueLeft
    <2>3. UNCHANGED <<enq, pc, done>>
      BY <1>15 DEF FailDequeue
    <2>1. \A y \in Op : y # h => Same(y)
      BY <2>2, <2>3 DEF Same, InHand, Waiting, Called
    <2>4. Waiting(h) /\ PlaceOK(h) /\ Past(h) /\ h \notin OpsOf(enq)
      BY <1>i, <1>t, <1>s, <2>0, <2>2 DEF Waiting, PlaceInv, CallInv
    <2>5. done[h] = 0 /\ ~InHand(h) /\ ~Listed(h)
      BY <2>4 DEF PlaceOK
    <2>6. done'[h] = 0 /\ ~InHand(h)' /\ ~Waiting(h)' /\ Listed(h)' /\ Called(h)'
      BY <2>2, <2>3, <2>4, <2>5 DEF InHand, Waiting, Called, Past
    <2>9. PlaceOK(h)'
      BY <2>6, OnePlace
    <2> QED
      BY <1>m, <2>1, <2>9
  <1>16. ASSUME NEW t \in Thread, RunDequeue(t) PROVE PlaceInv'
    <2>0. PICK h \in Taker : DequeueLeft(h, t)
      BY <1>16, <1>0, DequeueLeaves DEF RunDequeue
    <2>2. /\ h \in Op /\ OpsOf(deq) = {h} \cup OpsOf(deq') /\ h \notin OpsOf(deq')
          /\ \A y : Listed(y)' <=> Listed(y) \/ y = h
      BY <1>s, <1>a, <2>0 DEF DequeueLeft
    <2>3. UNCHANGED <<enq, pc, done>>
      BY <1>16 DEF RunDequeue
    <2>1. \A y \in Op : y # h => Same(y)
      BY <2>2, <2>3 DEF Same, InHand, Waiting, Called
    <2>4. Waiting(h) /\ PlaceOK(h) /\ Past(h) /\ h \notin OpsOf(enq)
      BY <1>i, <1>t, <1>s, <2>0, <2>2 DEF Waiting, PlaceInv, CallInv
    <2>5. done[h] = 0 /\ ~InHand(h) /\ ~Listed(h)
      BY <2>4 DEF PlaceOK
    <2>6. done'[h] = 0 /\ ~InHand(h)' /\ ~Waiting(h)' /\ Listed(h)' /\ Called(h)'
      BY <2>2, <2>3, <2>4, <2>5 DEF InHand, Waiting, Called, Past
    <2>9. PlaceOK(h)'
      BY <2>6, OnePlace
    <2> QED
      BY <1>m, <2>1, <2>9
  <1>17. ASSUME NEW t \in Thread, RunDequeuePartly(t) PROVE PlaceInv'
    <2>1. OpsOf(deq') = OpsOf(deq)
      BY <1>i, <1>17, DequeueStays
    <2>2. UNCHANGED <<enq, clean_up, pc, done>>
      BY <1>17 DEF RunDequeuePartly
    <2>3. \A x \in Op : Same(x)
      BY <2>1, <2>2 DEF Same, InHand, Waiting, Listed, Called
    <2> QED
      BY <1>m, <2>3
  <1>18. ASSUME NEW t \in Thread, Unlock(t) PROVE PlaceInv'
    <2>1. UNCHANGED <<enq, deq, clean_up, done>>
      BY <1>18 DEF Unlock
    <2>2. /\ \A x \in Op : x # t => pc'[x] = pc[x]
          /\ t \in Op => pc[t] \in Working /\ pc'[t] \in Working
      BY <1>18, <1>0, <1>s DEF Unlock, TypeOKOps, Working
    <2>3. \A x \in Op : Same(x)
      BY <1>18, <1>s, <2>1, <2>2 DEF Same, InHand, Waiting, Listed, Called, NotCalled, Working
    <2> QED
      BY <1>m, <2>3
  <1>19. ASSUME NEW t \in Thread, Callback(t) PROVE PlaceInv'
    <2>0. PICK h \in Op : /\ h = Head(clean_up[t])
                          /\ Range(clean_up[t]) = Range(clean_up'[t]) \cup {h}
                          /\ \A u \in Thread : u # t => clean_up'[u] = clean_up[u]
                          /\ Distinct(clean_up[t]) => Distinct(clean_up'[t]) /\ h \notin Range(clean_up'[t])
      BY <1>19, <1>0, ListShrinks DEF Callback
    <2>2. UNCHANGED <<enq, deq, pc>> /\ \A x \in Op : done'[x] = IF x = h THEN done[x] + 1 ELSE done[x]
      BY <1>19, <1>0, <2>0 DEF Callback, TypeOKOps
    <2>3. \A u \in Thread : h \notin Range(clean_up'[u])
      BY <2>0 DEF ListsApart
    <2>4. ~Listed(h)' /\ Listed(h) /\ \A x \in Op : x # h => (Listed(x)' <=> Listed(x))
      BY <2>0, <2>3 DEF Listed
    <2>1. \A x \in Op : x # h => Same(x)
      BY <2>2, <2>4 DEF Same, InHand, Waiting, Called
    <2>5. done[h] = 0 /\ ~InHand(h) /\ ~Waiting(h) /\ Called(h)
      BY <2>4 DEF PlaceInv, PlaceOK
    <2>6. done'[h] = done[h] + 1 /\ ~InHand(h)' /\ ~Waiting(h)' /\ Called(h)'
      BY <2>2, <2>5 DEF InHand, Waiting, Called
    <2>9. PlaceOK(h)'
      BY <2>4, <2>5, <2>6, RunPlace
    <2> QED
      BY <1>m, <2>1, <2>9
  <1>20. ASSUME NEW t \in Thread \ CancelCloser, Return(t) PROVE PlaceInv'
    <2>1. UNCHANGED <<enq, deq, clean_up, done>>
      BY <1>20 DEF Return
    <2>2. /\ \A x \in Op : x # t => pc'[x] = pc[x]
          /\ t \in Op => pc[t] \in Working /\ pc'[t] \in {"returned"}
      BY <1>20, <1>0, <1>s DEF Return, TypeOKOps, Working
    <2>3. \A x \in Op : Same(x)
      BY <1>20, <1>s, <2>1, <2>2 DEF Same, InHand, Waiting, Listed, Called, NotCalled, Working
    <2> QED
      BY <1>m, <2>3
  <1>21. ASSUME NEW t \in CancelCloser, ReturnOfClose(t) PROVE PlaceInv'
    <2>0. /\ UNCHANGED <<enq, deq, clean_up>> /\ t \in Op
          /\ pc[t] = "cleanup" /\ \A x \in Op : /\ pc'[x] = IF x = t THEN "returned" ELSE pc[x]
                                                /\ done'[x] = IF x = t THEN done[x] + 1 ELSE done[x]
      BY <1>21, <1>0, <1>s DEF ReturnOfClose, TypeOKOps
    <2>1. \A x \in Op : x # t => Same(x)
      BY <2>0 DEF Same, InHand, Waiting, Listed, Called
    <2>2. InHand(t) /\ PlaceOK(t)
      BY <1>21, <2>0 DEF InHand, Working, PlaceInv
    <2>3. done[t] = 0 /\ ~Waiting(t) /\ ~Listed(t)
      BY <2>2 DEF PlaceOK
    <2>4. ~InHand(t)' /\ ~Waiting(t)' /\ ~Listed(t)' /\ Called(t)' /\ done'[t] = done[t] + 1
      BY <2>0, <2>3 DEF InHand, Waiting, Listed, Called, NotCalled, Working
    <2>9. PlaceOK(t)'
      BY <2>3, <2>4, RunPlace
    <2> QED
      BY <1>m, <2>1, <2>9
  <1>22. ASSUME NEW c \in Canceller, CancelAttempt(c) PROVE PlaceInv'
    <2> DEFINE v == Victim[c]
    <2>0. /\ OpsOf(enq') = OpsOf(enq) \ {v} /\ OpsOf(deq') = OpsOf(deq) \ {v}
          /\ v \in OpsOf(enq) \cup OpsOf(deq)
      BY <1>i, <1>22, AttemptsGo DEF CancelAttempt
    <2>2. v \in Op /\ c \notin Op
      BY <1>22, <1>s
    <2>3. /\ UNCHANGED clean_up
          /\ \A x \in Op : pc'[x] = pc[x] /\ done'[x] = IF x = v THEN done[x] + 1 ELSE done[x]
      BY <1>22, <1>0, <1>s, <2>2 DEF CancelAttempt, TypeOKOps
    <2> HIDE DEF v
    <2>1. \A x \in Op : x # v => Same(x)
      BY <2>0, <2>3 DEF Same, InHand, Waiting, Listed, Called
    <2>4. Waiting(v) /\ PlaceOK(v) /\ Past(v)
      BY <1>i, <2>0, <2>2 DEF Waiting, PlaceInv, CallInv
    <2>5. done[v] = 0 /\ ~InHand(v) /\ ~Listed(v)
      BY <2>4 DEF PlaceOK
    <2>6. PICK x \in Op : x = v
      BY <2>2
    <2>7. done'[x] = done[x] + 1 /\ ~InHand(x)' /\ ~Waiting(x)' /\ ~Listed(x)' /\ Called(x)'
      BY <2>0, <2>3, <2>4, <2>5, <2>6 DEF InHand, Waiting, Listed, Called, Past
    <2>8. done[x] = 0
      BY <2>5, <2>6
    <2>9. PlaceOK(x)'
      BY <2>7, <2>8, RunPlace
    <2> QED
      BY <1>m, <2>1, <2>6, <2>9
  <1>23. ASSUME NEW c \in Canceller, CancelNothing(c) PROVE PlaceInv'
    <2>1. UNCHANGED <<enq, deq, clean_up, done>> /\ \A x \in Op : pc'[x] = pc[x]
      BY <1>23, <1>0, <1>s DEF CancelNothing, TypeOKOps
    <2>3. \A x \in Op : Same(x)
      BY <2>1 DEF Same, InHand, Waiting, Listed, Called
    <2> QED
      BY <1>m, <2>3
  <1>24. CASE UNCHANGED vars
    BY <1>24, <1>u DEF vars, pqVars
  <1> QED
    BY <1>1, <1>2, <1>3, <1>4, <1>5, <1>6, <1>7, <1>8, <1>9, <1>10, <1>11, <1>12, <1>13, <1>14, <1>15, <1>16, <1>17, <1>18, <1>19, <1>20, <1>21, <1>22, <1>23, <1>24 DEF OneStep

(***************************************************************************)
(* Every callback is run once.                                             *)
(***************************************************************************)
DoneInv == CoreInv /\ ListsApart /\ PlaceInv

\* It is an invariant of the specification.
LEMMA DoneInvariance == Spec => []DoneInv
  <1>1. Init => ListsApart /\ PlaceInv
    <2> SUFFICES ASSUME Init PROVE ListsApart /\ PlaceInv
      OBVIOUS
    <2>s. Op \subseteq Thread
      BY BarrierAssumption, ThreadAssumption, Sorts
    <2>1. /\ enq = <<>> /\ deq = <<>>
          /\ \A t \in Thread : clean_up[t] = <<>> /\ pc[t] \in NotCalled
          /\ \A o \in Op : done[o] = 0
      BY DEF Init, PQInit, NotCalled
    <2>2. OpsOf(enq) = {} /\ OpsOf(deq) = {} /\ \A t \in Thread : Range(clean_up[t]) = {}
      BY <2>1, OpsEmpty, RangeEmpty
    <2>3. ListsApart
      BY <2>1, <2>2 DEF ListsApart, Distinct
    <2>4. \A o \in Op : ~Called(o) /\ ~InHand(o) /\ ~Waiting(o) /\ ~Listed(o) /\ ~Forgotten(o) /\ done[o] = 0
      BY <2>s, <2>1, <2>2 DEF Called, InHand, Waiting, Listed, Forgotten, NotCalled, Working
    <2>5. PlaceInv
      BY <2>4 DEF PlaceInv, PlaceOK
    <2> QED
      BY <2>3, <2>5
  <1>2. CoreInv /\ ListsApart /\ PlaceInv /\ [Next]_vars => ListsApart' /\ PlaceInv'
    <2> SUFFICES ASSUME CoreInv, ListsApart, PlaceInv, [Next]_vars PROVE ListsApart' /\ PlaceInv'
      OBVIOUS
    <2>1. OneStep \/ UNCHANGED vars
      BY BarrierAssumption, CoreCases
    <2>2. TypeInv
      BY DEF CoreInv
    <2>3. ListsApart'
      BY BarrierAssumption, ThreadAssumption, <2>1, <2>2, ListsApartStep
    <2>4. PlaceInv'
      BY BarrierAssumption, ThreadAssumption, <2>1, PlaceInvStep
    <2> QED
      BY <2>3, <2>4
  <1> QED
    BY <1>1, <1>2, CoreInvariance, PTL DEF Spec, DoneInv

\* One for a fact, nothing for none.
Bit(b) == IF b THEN 1 ELSE 0

\* How many members a set has of which no two are different.
LEMMA CountOne ==
  ASSUME NEW S, \A x, y \in S : x = y
  PROVE  Count(S) = Bit(\E x \in S : TRUE)
  <1>1. CASE S = {}
    BY <1>1, FS_EmptySet DEF Count, Bit
  <1>2. CASE \E x : x \in S
    <2>1. PICK x : x \in S
      BY <1>2
    <2>2. S = {x}
      BY <2>1
    <2>3. Cardinality({x}) = 1
      BY FS_Singleton
    <2> QED
      BY <2>1, <2>2, <2>3 DEF Count, Bit
  <1> QED
    BY <1>1, <1>2

\* How many attempts an operation has.
LEMMA CountOps ==
  ASSUME NEW R, NEW s \in Seq(R), OpsApart(s), NEW o
  PROVE  Count({i \in 1..Len(s) : s[i].op = o}) = Bit(o \in OpsOf(s))
  <1> DEFINE S == {i \in 1..Len(s) : s[i].op = o}
  <1>1. ASSUME NEW i \in S, NEW j \in S PROVE i = j
    <2>1. s[i] \in Range(s) /\ s[j] \in Range(s) /\ s[i].op = s[j].op
      BY RangeSeq
    <2>2. s[i] = s[j]
      BY <2>1 DEF OpsApart
    <2> QED
      BY <2>2 DEF OpsApart, Distinct
  <1>2. (\E i \in S : TRUE) <=> o \in OpsOf(s)
    BY DEF OpsOf
  <1> HIDE DEF S
  <1>3. Count(S) = Bit(\E i \in S : TRUE)
    BY <1>1, CountOne
  <1>4. Count(S) = Bit(o \in OpsOf(s))
    BY <1>2, <1>3 DEF Bit
  <1> QED
    BY <1>4 DEF S

\* The callback of every InsertMany, TakeMany and Close runs exactly once, unless
\* the Close that cancels finds the queue closed by one that does not.
THEOREM CallbacksRunOnce == Spec => []DoneExactlyOnce
  <1>1. DoneInv => DoneExactlyOnce
    <2> SUFFICES ASSUME DoneInv, NEW o \in Op
                 PROVE  \/ Holds(o) + done[o] = IF pc[o] \in NotCalled THEN 0 ELSE 1
                        \/ Holds(o) + done[o] = 0 /\ pc[o] = "returned" /\ SecondClose(o)
      BY DEF DoneExactlyOnce
    <2>1. /\ enq \in Seq(EnqueueAttempts) /\ deq \in Seq(DequeueAttempts) /\ TypeOKAttempts
          /\ OpsApart(enq) /\ OpsApart(deq)
      BY DEF DoneInv, CoreInv, AttemptsApart, TypeInv, TypeOK, TypeOKAttempts
    <2>2. PlaceOK(o)
      BY DEF DoneInv, PlaceInv
    <2>3. Count({t \in Thread : o \in Range(clean_up[t])}) = Bit(Listed(o))
      <3> DEFINE S == {t \in Thread : o \in Range(clean_up[t])}
      <3>1. \A t, u \in S : t = u
        BY DEF DoneInv, ListsApart
      <3>2. (\E t \in S : TRUE) <=> Listed(o)
        BY DEF Listed
      <3> HIDE DEF S
      <3>3. Count(S) = Bit(\E t \in S : TRUE)
        BY <3>1, CountOne
      <3>4. Count(S) = Bit(Listed(o))
        BY <3>2, <3>3 DEF Bit
      <3> QED
        BY <3>4 DEF S
    <2>4. /\ Count({i \in 1..Len(enq) : enq[i].op = o}) = Bit(o \in OpsOf(enq))
          /\ Count({i \in 1..Len(deq) : deq[i].op = o}) = Bit(o \in OpsOf(deq))
      BY <2>1, CountOps
    <2>5. ~(o \in OpsOf(enq) /\ o \in OpsOf(deq))
      <3>1. OpsOf(enq) \subseteq Inserter \cup Closer /\ OpsOf(deq) \subseteq Taker
        BY <2>1, OpsTyped
      <3> QED
        BY <3>1, BarrierAssumption, ThreadAssumption, Sorts
    <2> DEFINE A == pc[o] \in {"append", "close"}
               B == o \in CancelCloser /\ pc[o] \in {"flush", "flushing", "cleanup"}
    <2>6. Holds(o) = Bit(A) + Bit(B) + Bit(o \in OpsOf(enq)) + Bit(o \in OpsOf(deq)) + Bit(Listed(o))
      BY <2>3, <2>4 DEF Holds, Bit
    <2>7. (InHand(o) <=> A \/ B) /\ ~(A /\ B) /\ (Called(o) <=> pc[o] \notin NotCalled)
      BY DEF InHand, Working, Called
    <2>8. Waiting(o) <=> o \in OpsOf(enq) \/ o \in OpsOf(deq)
      BY DEF Waiting
    <2>9. Forgotten(o) => pc[o] = "returned" /\ SecondClose(o)
      BY DEF Forgotten, SecondClose, ClosedBy, Called
    <2> HIDE DEF A, B
    <2>10. CASE InHand(o)
      <3>1. Bit(A) + Bit(B) = 1 /\ Bit(o \in OpsOf(enq)) = 0 /\ Bit(o \in OpsOf(deq)) = 0 /\ Bit(Listed(o)) = 0
        BY <2>2, <2>7, <2>8, <2>10 DEF PlaceOK, Bit
      <3>2. done[o] = 0 /\ Called(o)
        BY <2>2, <2>10 DEF PlaceOK
      <3> QED
        BY <2>6, <2>7, <3>1, <3>2 DEF Bit
    <2>11. CASE Waiting(o)
      <3>1. /\ Bit(A) = 0 /\ Bit(B) = 0 /\ Bit(o \in OpsOf(enq)) + Bit(o \in OpsOf(deq)) = 1
            /\ Bit(Listed(o)) = 0
        BY <2>2, <2>5, <2>7, <2>8, <2>11 DEF PlaceOK, Bit
      <3>2. done[o] = 0 /\ Called(o)
        BY <2>2, <2>11 DEF PlaceOK
      <3> QED
        BY <2>6, <2>7, <3>1, <3>2 DEF Bit
    <2>12. CASE ~InHand(o) /\ ~Waiting(o)
      <3>1. Bit(A) = 0 /\ Bit(B) = 0 /\ Bit(o \in OpsOf(enq)) = 0 /\ Bit(o \in OpsOf(deq)) = 0
        BY <2>7, <2>8, <2>12 DEF Bit
      <3>2. Holds(o) = Bit(Listed(o))
        BY <2>6, <3>1 DEF Bit
      <3>3. CASE Listed(o)
        BY <2>2, <2>7, <3>2, <3>3 DEF PlaceOK, Bit
      <3>4. CASE ~Listed(o)
        <4>1. Holds(o) = 0 /\ done[o] \in {0, 1}
          BY <2>2, <3>2, <3>4 DEF PlaceOK, Bit
        <4>2. Called(o) <=> done[o] = 1 \/ Forgotten(o)
          BY <2>2, <2>12, <3>4 DEF PlaceOK
        <4> QED
          BY <2>7, <2>9, <4>1, <4>2
      <3> QED
        BY <3>3, <3>4
    <2> QED
      BY <2>10, <2>11, <2>12
  <1> QED
    BY <1>1, DoneInvariance, PTL

(***************************************************************************)
(* What a TakeMany is given.                                               *)
(***************************************************************************)

\* An error is never taken back, nor replaced by another one.
ErrorsStay == \A o \in Op : st[o] # "ok" => st'[o] = st[o]

\* No step does so.
LEMMA ErrorsStep ==
  ASSUME BarrierAssumption, ThreadAssumption, TypeInv, StatusInv, OneStep \/ UNCHANGED vars
  PROVE  ErrorsStay
  <1>u. ASSUME UNCHANGED <<st>> PROVE ErrorsStay
    BY <1>u DEF ErrorsStay
  <1>s. /\ Inserter \subseteq Op /\ Taker \subseteq Op /\ Closer \subseteq Op
        /\ Op \subseteq Thread /\ Canceller \subseteq Thread /\ Nobody \notin Thread
        /\ Op = Inserter \cup Taker \cup Closer
        /\ Small \subseteq Taker /\ CancelCloser \subseteq Closer
        /\ \A o \in Inserter : o \notin Taker /\ o \notin Closer
        /\ \A o \in Taker : o \notin Closer
        /\ \A o \in Op : o \notin Canceller
        /\ \A c \in Canceller : Victim[c] \in Inserter \cup Taker
    BY Sorts
  <1>0. TypeOKOps /\ TypeOKFlags /\ TypeOKAttempts
    BY DEF TypeInv, TypeOK
  <1>1. ASSUME NEW o \in Op, Ends(o) PROVE ErrorsStay
    <2>1. st[o] = "ok" /\ \A x \in Op : x # o => st'[x] = st[x]
      BY <1>1, <1>0, <1>s DEF Ends, StatusInv, Called, NotCalled, TypeOKOps
    <2> QED
      BY <2>1 DEF ErrorsStay
  <1>2. ASSUME NEW o \in Inserter, InsertEnds(o) PROVE ErrorsStay
    <2>1. st[o] = "ok" /\ \A x \in Op : x # o => st'[x] = st[x]
      BY <1>2, <1>0, <1>s DEF InsertEnds, StatusInv, Called, NotCalled, TypeOKOps
    <2> QED
      BY <2>1 DEF ErrorsStay
  <1>3. ASSUME NEW o \in Inserter, InsertReady(o) PROVE ErrorsStay
    BY <1>3, <1>u DEF InsertReady
  <1>4. ASSUME NEW o \in Taker, TakeStarts(o) PROVE ErrorsStay
    BY <1>4, <1>u DEF TakeStarts
  <1>5. ASSUME NEW o \in Closer, CloseBegins(o) PROVE ErrorsStay
    BY <1>5, <1>u DEF CloseBegins
  <1>6. ASSUME NEW o \in Closer, CloseEnds(o) PROVE ErrorsStay
    BY <1>6, <1>u DEF CloseEnds
  <1>7. ASSUME NEW o \in Closer, CloseForgets(o) PROVE ErrorsStay
    BY <1>7, <1>u DEF CloseForgets
  <1>8. ASSUME NEW o \in Inserter, AppendEnqueue(o) PROVE ErrorsStay
    BY <1>8, <1>u DEF AppendEnqueue
  <1>9. ASSUME NEW o \in Taker, AppendDequeue(o) PROVE ErrorsStay
    BY <1>9, <1>u DEF AppendDequeue
  <1>10. ASSUME NEW o \in Closer \ CancelCloser, AppendClose(o) PROVE ErrorsStay
    BY <1>10, <1>u DEF AppendClose
  <1>11. ASSUME NEW o \in CancelCloser, CancelEnqueues(o) PROVE ErrorsStay
    <2>1. \A x \in Op : x \notin OpsOf(enq) => st'[x] = st[x]
      BY <1>11, <1>0, <1>s DEF CancelEnqueues, TypeOKOps
    <2> QED
      BY <2>1 DEF ErrorsStay, StatusInv
  <1>12. ASSUME NEW t \in Thread, Lock(t) PROVE ErrorsStay
    BY <1>12, <1>u DEF Lock
  <1>13. ASSUME NEW t \in Thread, RefuseEnqueue(t) PROVE ErrorsStay
    <2>1. PICK h \in Inserter \cup Closer : EnqueueLeft(h, t)
      BY <1>13, <1>0, EnqueueLeaves DEF RefuseEnqueue
    <2>2. h = Head(enq).op /\ h \in Op /\ h \in OpsOf(enq)
      BY <1>s, <2>1 DEF EnqueueLeft
    <2>3. \A y \in Op : y # h => st'[y] = st[y]
      BY <1>13, <1>0, <1>s, <2>2 DEF RefuseEnqueue, TypeOKOps
    <2> QED
      BY <2>2, <2>3 DEF ErrorsStay, StatusInv
  <1>14. ASSUME NEW t \in Thread, RunEnqueue(t) PROVE ErrorsStay
    BY <1>14, <1>u DEF RunEnqueue
  <1>15. ASSUME NEW t \in Thread, FailDequeue(t) PROVE ErrorsStay
    <2>1. PICK h \in Taker : DequeueLeft(h, t)
      BY <1>15, <1>0, DequeueLeaves DEF FailDequeue
    <2>2. h = Head(deq).op /\ h \in Op /\ h \in OpsOf(deq)
      BY <1>s, <2>1 DEF DequeueLeft
    <2>3. \A y \in Op : y # h => st'[y] = st[y]
      BY <1>15, <1>0, <1>s, <2>2 DEF FailDequeue, TypeOKOps
    <2> QED
      BY <2>2, <2>3 DEF ErrorsStay, StatusInv
  <1>16. ASSUME NEW t \in Thread, RunDequeue(t) PROVE ErrorsStay
    BY <1>16, <1>u DEF RunDequeue
  <1>17. ASSUME NEW t \in Thread, RunDequeuePartly(t) PROVE ErrorsStay
    BY <1>17, <1>u DEF RunDequeuePartly
  <1>18. ASSUME NEW t \in Thread, Unlock(t) PROVE ErrorsStay
    BY <1>18, <1>u DEF Unlock
  <1>19. ASSUME NEW t \in Thread, Callback(t) PROVE ErrorsStay
    BY <1>19, <1>u DEF Callback
  <1>20. ASSUME NEW t \in Thread \ CancelCloser, Return(t) PROVE ErrorsStay
    BY <1>20, <1>u DEF Return
  <1>21. ASSUME NEW t \in CancelCloser, ReturnOfClose(t) PROVE ErrorsStay
    BY <1>21, <1>u DEF ReturnOfClose
  <1>22. ASSUME NEW c \in Canceller, CancelAttempt(c) PROVE ErrorsStay
    <2>1. Victim[c] \in OpsOf(enq) \cup OpsOf(deq) /\ Victim[c] \in Op
      BY <1>22, <1>s DEF CancelAttempt
    <2>2. \A x \in Op : x # Victim[c] => st'[x] = st[x]
      BY <1>22, <1>0, <1>s DEF CancelAttempt, TypeOKOps
    <2> QED
      BY <2>1, <2>2 DEF ErrorsStay, StatusInv
  <1>23. ASSUME NEW c \in Canceller, CancelNothing(c) PROVE ErrorsStay
    BY <1>23, <1>u DEF CancelNothing
  <1>24. CASE UNCHANGED vars
    BY <1>24, <1>u DEF vars, pqVars
  <1> QED
    BY <1>1, <1>2, <1>3, <1>4, <1>5, <1>6, <1>7, <1>8, <1>9, <1>10, <1>11, <1>12, <1>13, <1>14, <1>15, <1>16, <1>17, <1>18, <1>19, <1>20, <1>21, <1>22, <1>23, <1>24 DEF OneStep


\* The index of a tuple names the InsertMany that began it.
LEMMA IndexInvStep ==
  ASSUME BarrierAssumption, ThreadAssumption, TypeInv, StatusInv, IndexInv, OneStep \/ UNCHANGED vars
  PROVE  IndexInv'
  <1>s. /\ Inserter \subseteq Op /\ Taker \subseteq Op /\ Closer \subseteq Op
        /\ Op \subseteq Thread /\ Canceller \subseteq Thread /\ Nobody \notin Thread
        /\ Op = Inserter \cup Taker \cup Closer
        /\ Small \subseteq Taker /\ CancelCloser \subseteq Closer
        /\ \A o \in Inserter : o \notin Taker /\ o \notin Closer
        /\ \A o \in Taker : o \notin Closer
        /\ \A o \in Op : o \notin Canceller
        /\ \A c \in Canceller : Victim[c] \in Inserter \cup Taker
    BY Sorts
  <1>0. TypeOKOps /\ TypeOKFlags /\ TypeOKAttempts /\ TypeOKTuples /\ TupleInv
    BY DEF TypeInv, TypeOK
  <1>b. \A e \in elements : e.by \in Inserter
    BY <1>0 DEF TypeOKTuples, Element
  <1>e. ErrorsStay
    BY ErrorsStep
  <1>u. ASSUME UNCHANGED <<elements, input_index>> PROVE IndexInv'
    BY <1>b, <1>e, <1>s, <1>u DEF IndexInv, IndexNamesBatch, ErrorsStay
  <1>1. ASSUME NEW o \in Op, Ends(o) PROVE IndexInv'
    BY <1>1, <1>u DEF Ends
  <1>2. ASSUME NEW o \in Inserter, InsertEnds(o) PROVE IndexInv'
    <2> DEFINE r == InsertAll(o)
    <2>0. pc[o] = "idle"
      BY <1>2 DEF InsertEnds
    <2>1. LoopOK(r.inc, r.ready, r.all, r.fresh, r.status, o, Len(Keys[o]))
      BY <2>0, InsertAllOK
    <2>2. elements' = r.all /\ input_index' = NextIndex(r) /\ \A x \in Thread : x # o => st'[x] = st[x]
      BY <1>2, <1>0 DEF InsertEnds, TypeOKOps
    <2> HIDE DEF r
    <2>3. /\ elements \subseteq elements' /\ elements' \subseteq Element
          /\ \A e \in elements' \ elements : e.by = o /\ e.index = input_index
          /\ elements' # elements => r.fresh
      BY <2>1, <2>2 DEF LoopOK
    <2>4. /\ input_index' \in Nat /\ input_index <= input_index'
          /\ r.status = "ok" /\ elements' # elements => input_index < input_index'
      BY <1>0, <2>2, <2>3 DEF NextIndex, TypeOKTuples
    <2>5. \A e \in elements : e.by # o /\ st'[e.by] = st[e.by]
      BY <1>0, <1>s, <1>b, <2>0, <2>2 DEF TupleInv, Called, NotCalled
    <2>6. \A e \in elements' : e.index \in Nat
      BY <2>3 DEF Element
    <2>7. st'[o] = "ok" => r.status = "ok"
      BY <1>2, <1>0, <1>s DEF InsertEnds, r, TypeOKOps
    <2>8. \A e \in elements : e.index <= input_index /\ (st[e.by] = "ok" => e.index < input_index)
      BY DEF IndexInv
    <2>9. ASSUME NEW e \in elements' PROVE e.index <= input_index' /\ (st'[e.by] = "ok" => e.index < input_index')
      <3>1. CASE e \in elements
        <4>1. /\ e.index <= input_index /\ (st[e.by] = "ok" => e.index < input_index)
              /\ st'[e.by] = st[e.by]
          BY <2>5, <2>8, <3>1
        <4>2. /\ e.index \in Nat /\ input_index \in Nat /\ input_index' \in Nat
              /\ input_index <= input_index'
          BY <1>0, <2>4, <2>6 DEF TypeOKTuples
        <4>3. e.index <= input_index' /\ (e.index < input_index => e.index < input_index')
          BY <4>1, <4>2
        <4> QED
          BY <4>1, <4>3
      <3>2. CASE e \notin elements
        BY <1>0, <2>3, <2>4, <2>6, <2>7, <2>9, <3>2 DEF TypeOKTuples
      <3> QED
        BY <3>1, <3>2
    <2>10. ASSUME NEW e \in elements', NEW f \in elements', e.by # f.by, st'[e.by] = "ok", st'[f.by] = "ok"
           PROVE  e.index # f.index
      <3>1. CASE e \in elements /\ f \in elements
        BY <2>5, <2>10, <3>1 DEF IndexInv, IndexNamesBatch
      <3>2. CASE e \in elements /\ f \notin elements
        <4>1. e.index < input_index /\ f.index = input_index
          BY <2>3, <2>5, <2>8, <2>10, <3>2
        <4> QED
          BY <1>0, <2>6, <4>1 DEF TypeOKTuples
      <3>3. CASE e \notin elements /\ f \in elements
        <4>1. f.index < input_index /\ e.index = input_index
          BY <2>3, <2>5, <2>8, <2>10, <3>3
        <4> QED
          BY <1>0, <2>6, <4>1 DEF TypeOKTuples
      <3>4. CASE e \notin elements /\ f \notin elements
        BY <2>3, <2>10, <3>4
      <3> QED
        BY <3>1, <3>2, <3>3, <3>4
    <2> QED
      BY <2>9, <2>10 DEF IndexInv, IndexNamesBatch
  <1>3. ASSUME NEW o \in Inserter, InsertReady(o) PROVE IndexInv'
    <2> DEFINE r == InsertAll(o)
    <2>0. pc[o] = "idle"
      BY <1>3 DEF InsertReady
    <2>1. LoopOK(r.inc, r.ready, r.all, r.fresh, r.status, o, Len(Keys[o]))
      BY <2>0, InsertAllOK
    <2>2. elements' = r.all /\ input_index' = NextIndex(r) /\ \A x \in Thread : x # o => st'[x] = st[x]
      BY <1>3, <1>0 DEF InsertReady, TypeOKOps
    <2> HIDE DEF r
    <2>3. /\ elements \subseteq elements' /\ elements' \subseteq Element
          /\ \A e \in elements' \ elements : e.by = o /\ e.index = input_index
          /\ elements' # elements => r.fresh
      BY <2>1, <2>2 DEF LoopOK
    <2>4. /\ input_index' \in Nat /\ input_index <= input_index'
          /\ r.status = "ok" /\ elements' # elements => input_index < input_index'
      BY <1>0, <2>2, <2>3 DEF NextIndex, TypeOKTuples
    <2>5. \A e \in elements : e.by # o /\ st'[e.by] = st[e.by]
      BY <1>0, <1>s, <1>b, <2>0, <2>2 DEF TupleInv, Called, NotCalled
    <2>6. \A e \in elements' : e.index \in Nat
      BY <2>3 DEF Element
    <2>7. st'[o] = "ok" => r.status = "ok"
      BY <1>3, <1>0, <1>s DEF InsertReady, r, TypeOKOps
    <2>8. \A e \in elements : e.index <= input_index /\ (st[e.by] = "ok" => e.index < input_index)
      BY DEF IndexInv
    <2>9. ASSUME NEW e \in elements' PROVE e.index <= input_index' /\ (st'[e.by] = "ok" => e.index < input_index')
      <3>1. CASE e \in elements
        <4>1. /\ e.index <= input_index /\ (st[e.by] = "ok" => e.index < input_index)
              /\ st'[e.by] = st[e.by]
          BY <2>5, <2>8, <3>1
        <4>2. /\ e.index \in Nat /\ input_index \in Nat /\ input_index' \in Nat
              /\ input_index <= input_index'
          BY <1>0, <2>4, <2>6 DEF TypeOKTuples
        <4>3. e.index <= input_index' /\ (e.index < input_index => e.index < input_index')
          BY <4>1, <4>2
        <4> QED
          BY <4>1, <4>3
      <3>2. CASE e \notin elements
        BY <1>0, <2>3, <2>4, <2>6, <2>7, <2>9, <3>2 DEF TypeOKTuples
      <3> QED
        BY <3>1, <3>2
    <2>10. ASSUME NEW e \in elements', NEW f \in elements', e.by # f.by, st'[e.by] = "ok", st'[f.by] = "ok"
           PROVE  e.index # f.index
      <3>1. CASE e \in elements /\ f \in elements
        BY <2>5, <2>10, <3>1 DEF IndexInv, IndexNamesBatch
      <3>2. CASE e \in elements /\ f \notin elements
        <4>1. e.index < input_index /\ f.index = input_index
          BY <2>3, <2>5, <2>8, <2>10, <3>2
        <4> QED
          BY <1>0, <2>6, <4>1 DEF TypeOKTuples
      <3>3. CASE e \notin elements /\ f \in elements
        <4>1. f.index < input_index /\ e.index = input_index
          BY <2>3, <2>5, <2>8, <2>10, <3>3
        <4> QED
          BY <1>0, <2>6, <4>1 DEF TypeOKTuples
      <3>4. CASE e \notin elements /\ f \notin elements
        BY <2>3, <2>10, <3>4
      <3> QED
        BY <3>1, <3>2, <3>3, <3>4
    <2> QED
      BY <2>9, <2>10 DEF IndexInv, IndexNamesBatch
  <1>4. ASSUME NEW o \in Taker, TakeStarts(o) PROVE IndexInv'
    BY <1>4, <1>u DEF TakeStarts
  <1>5. ASSUME NEW o \in Closer, CloseBegins(o) PROVE IndexInv'
    BY <1>5, <1>u DEF CloseBegins
  <1>6. ASSUME NEW o \in Closer, CloseEnds(o) PROVE IndexInv'
    BY <1>6, <1>u DEF CloseEnds
  <1>7. ASSUME NEW o \in Closer, CloseForgets(o) PROVE IndexInv'
    BY <1>7, <1>u DEF CloseForgets
  <1>8. ASSUME NEW o \in Inserter, AppendEnqueue(o) PROVE IndexInv'
    BY <1>8, <1>u DEF AppendEnqueue
  <1>9. ASSUME NEW o \in Taker, AppendDequeue(o) PROVE IndexInv'
    BY <1>9, <1>u DEF AppendDequeue
  <1>10. ASSUME NEW o \in Closer \ CancelCloser, AppendClose(o) PROVE IndexInv'
    BY <1>10, <1>u DEF AppendClose
  <1>11. ASSUME NEW o \in CancelCloser, CancelEnqueues(o) PROVE IndexInv'
    BY <1>11, <1>u DEF CancelEnqueues
  <1>12. ASSUME NEW t \in Thread, Lock(t) PROVE IndexInv'
    BY <1>12, <1>u DEF Lock
  <1>13. ASSUME NEW t \in Thread, RefuseEnqueue(t) PROVE IndexInv'
    BY <1>13, <1>u DEF RefuseEnqueue
  <1>14. ASSUME NEW t \in Thread, RunEnqueue(t) PROVE IndexInv'
    BY <1>14, <1>u DEF RunEnqueue
  <1>15. ASSUME NEW t \in Thread, FailDequeue(t) PROVE IndexInv'
    BY <1>15, <1>u DEF FailDequeue
  <1>16. ASSUME NEW t \in Thread, RunDequeue(t) PROVE IndexInv'
    BY <1>16, <1>u DEF RunDequeue
  <1>17. ASSUME NEW t \in Thread, RunDequeuePartly(t) PROVE IndexInv'
    BY <1>17, <1>u DEF RunDequeuePartly
  <1>18. ASSUME NEW t \in Thread, Unlock(t) PROVE IndexInv'
    BY <1>18, <1>u DEF Unlock
  <1>19. ASSUME NEW t \in Thread, Callback(t) PROVE IndexInv'
    BY <1>19, <1>u DEF Callback
  <1>20. ASSUME NEW t \in Thread \ CancelCloser, Return(t) PROVE IndexInv'
    BY <1>20, <1>u DEF Return
  <1>21. ASSUME NEW t \in CancelCloser, ReturnOfClose(t) PROVE IndexInv'
    BY <1>21, <1>u DEF ReturnOfClose
  <1>22. ASSUME NEW c \in Canceller, CancelAttempt(c) PROVE IndexInv'
    BY <1>22, <1>u DEF CancelAttempt
  <1>23. ASSUME NEW c \in Canceller, CancelNothing(c) PROVE IndexInv'
    BY <1>23, <1>u DEF CancelNothing
  <1>24. CASE UNCHANGED vars
    BY <1>24, <1>u DEF vars, barrierVars
  <1> QED
    BY <1>1, <1>2, <1>3, <1>4, <1>5, <1>6, <1>7, <1>8, <1>9, <1>10, <1>11, <1>12, <1>13, <1>14, <1>15, <1>16, <1>17, <1>18, <1>19, <1>20, <1>21, <1>22, <1>23, <1>24 DEF OneStep


\* What the attempts to dequeue have collected.
LEMMA PartialInvStep ==
  ASSUME BarrierAssumption, ThreadAssumption, TypeInv, CallInv, AttemptsApart, PartialInv, OneStep \/ UNCHANGED vars
  PROVE  PartialInv'
  <1>u. ASSUME UNCHANGED <<deq, num, queue, queue_is_closed, queue_mu>> PROVE PartialInv'
    BY <1>u DEF PartialInv
  <1>s. /\ Inserter \subseteq Op /\ Taker \subseteq Op /\ Closer \subseteq Op
        /\ Op \subseteq Thread /\ Canceller \subseteq Thread /\ Nobody \notin Thread
        /\ Op = Inserter \cup Taker \cup Closer
        /\ Small \subseteq Taker /\ CancelCloser \subseteq Closer
        /\ \A o \in Inserter : o \notin Taker /\ o \notin Closer
        /\ \A o \in Taker : o \notin Closer
        /\ \A o \in Op : o \notin Canceller
        /\ \A c \in Canceller : Victim[c] \in Inserter \cup Taker
    BY Sorts
  <1>0. TypeOKOps /\ TypeOKFlags /\ TypeOKAttempts
    BY DEF TypeInv, TypeOK
  <1>a. OpsApart(enq) /\ OpsApart(deq)
    BY DEF AttemptsApart
  <1>d. \A a \in Range(deq) : a.op \in Taker /\ a.op \in OpsOf(deq)
    <2>1. deq \in Seq(DequeueAttempts)
      BY <1>0 DEF TypeOKAttempts
    <2>2. OpsOf(deq) = {a.op : a \in Range(deq)} /\ Range(deq) \subseteq DequeueAttempts
      BY <2>1, OpsRange, RangeSeq
    <2> QED
      BY <2>2 DEF DequeueAttempts
  <1>1. ASSUME NEW o \in Op, Ends(o) PROVE PartialInv'
    BY <1>1, <1>u DEF Ends
  <1>2. ASSUME NEW o \in Inserter, InsertEnds(o) PROVE PartialInv'
    BY <1>2, <1>u DEF InsertEnds
  <1>3. ASSUME NEW o \in Inserter, InsertReady(o) PROVE PartialInv'
    BY <1>3, <1>u DEF InsertReady
  <1>4. ASSUME NEW o \in Taker, TakeStarts(o) PROVE PartialInv'
    <2>1. UNCHANGED <<deq, queue, queue_is_closed, queue_mu>> /\ \A x \in Taker : x # o => num'[x] = num[x]
      BY <1>4, <1>0, <1>s DEF TakeStarts, TypeOKOps
    <2>2. ~Past(o)
      BY <1>4 DEF TakeStarts, Past, Called, NotCalled
    <2>3. \A a \in Range(deq) : a.op \in Taker /\ a.op # o
      BY <1>d, <2>2 DEF CallInv
    <2> QED
      BY <2>1, <2>3 DEF PartialInv
  <1>5. ASSUME NEW o \in Closer, CloseBegins(o) PROVE PartialInv'
    BY <1>5, <1>u DEF CloseBegins
  <1>6. ASSUME NEW o \in Closer, CloseEnds(o) PROVE PartialInv'
    BY <1>6, <1>u DEF CloseEnds
  <1>7. ASSUME NEW o \in Closer, CloseForgets(o) PROVE PartialInv'
    BY <1>7, <1>u DEF CloseForgets
  <1>8. ASSUME NEW o \in Inserter, AppendEnqueue(o) PROVE PartialInv'
    BY <1>8, <1>u DEF AppendEnqueue
  <1>9. ASSUME NEW o \in Taker, AppendDequeue(o) PROVE PartialInv'
    <2>1. \A a \in Range(deq) : a.tuple = <<>> /\ a.requested = num[a.op]
      BY <1>9 DEF AppendDequeue, PartialInv
    <2>2. PICK a \in DequeueAttempts : /\ a.op = o /\ a.requested = num[o] /\ a.tuple = <<>>
                                       /\ Range(deq') = Range(deq) \cup {a}
      BY <1>9, DequeueComes
    <2>3. UNCHANGED num
      BY <1>9 DEF AppendDequeue
    <2> QED
      BY <2>1, <2>2, <2>3 DEF PartialInv
  <1>10. ASSUME NEW o \in Closer \ CancelCloser, AppendClose(o) PROVE PartialInv'
    BY <1>10, <1>u DEF AppendClose
  <1>11. ASSUME NEW o \in CancelCloser, CancelEnqueues(o) PROVE PartialInv'
    <2>1. \A a \in Range(deq) : a.tuple = <<>> /\ a.requested = num[a.op]
      BY <1>11 DEF CancelEnqueues, PartialInv
    <2>2. UNCHANGED <<num, deq>>
      BY <1>11 DEF CancelEnqueues
    <2> QED
      BY <2>1, <2>2 DEF PartialInv
  <1>12. ASSUME NEW t \in Thread, Lock(t) PROVE PartialInv'
    <2>1. \A a \in Range(deq) : a.tuple = <<>> /\ a.requested = num[a.op]
      BY <1>12 DEF Lock, PartialInv
    <2>2. UNCHANGED <<num, deq>>
      BY <1>12 DEF Lock
    <2> QED
      BY <2>1, <2>2 DEF PartialInv
  <1>13. ASSUME NEW t \in Thread, RefuseEnqueue(t) PROVE PartialInv'
    BY <1>13, <1>u DEF RefuseEnqueue
  <1>14. ASSUME NEW t \in Thread, RunEnqueue(t) PROVE PartialInv'
    <2>1. \A a \in Range(deq) : a.tuple = <<>> /\ a.requested = num[a.op]
      BY <1>14 DEF RunEnqueue, PartialInv
    <2>2. UNCHANGED <<num, deq>>
      BY <1>14 DEF RunEnqueue
    <2> QED
      BY <2>1, <2>2 DEF PartialInv
  <1>15. ASSUME NEW t \in Thread, FailDequeue(t) PROVE PartialInv'
    <2>1. PICK h \in Taker : DequeueLeft(h, t)
      BY <1>15, <1>0, DequeueLeaves DEF FailDequeue
    <2>2. /\ Range(deq) = {Head(deq)} \cup Range(deq') /\ h = Head(deq).op /\ h \notin OpsOf(deq')
      BY <1>a, <2>1 DEF DequeueLeft
    <2>3. OpsOf(deq') = {a.op : a \in Range(deq')}
      <3>1. Tail(deq) \in Seq(DequeueAttempts)
        BY <1>15, <1>0, DequeueHead DEF FailDequeue
      <3>2. deq' = Tail(deq)
        BY <1>15 DEF FailDequeue
      <3>3. OpsOf(Tail(deq)) = {a.op : a \in Range(Tail(deq))}
        BY <3>1, OpsRange
      <3> QED
        BY <3>2, <3>3
    <2>4. \A a \in Range(deq') : a # Head(deq) /\ a \in Range(deq)
      BY <2>2, <2>3
    <2>5. UNCHANGED num
      BY <1>15 DEF FailDequeue
    <2> QED
      BY <2>4, <2>5 DEF PartialInv
  <1>16. ASSUME NEW t \in Thread, RunDequeue(t) PROVE PartialInv'
    <2>1. PICK h \in Taker : DequeueLeft(h, t)
      BY <1>16, <1>0, DequeueLeaves DEF RunDequeue
    <2>2. /\ Range(deq) = {Head(deq)} \cup Range(deq') /\ h = Head(deq).op /\ h \notin OpsOf(deq')
      BY <1>a, <2>1 DEF DequeueLeft
    <2>3. OpsOf(deq') = {a.op : a \in Range(deq')}
      <3>1. Tail(deq) \in Seq(DequeueAttempts)
        BY <1>16, <1>0, DequeueHead DEF RunDequeue
      <3>2. deq' = Tail(deq)
        BY <1>16 DEF RunDequeue
      <3>3. OpsOf(Tail(deq)) = {a.op : a \in Range(Tail(deq))}
        BY <3>1, OpsRange
      <3> QED
        BY <3>2, <3>3
    <2>4. \A a \in Range(deq') : a # Head(deq) /\ a \in Range(deq)
      BY <2>2, <2>3
    <2>5. UNCHANGED num
      BY <1>16 DEF RunDequeue
    <2> QED
      BY <2>4, <2>5 DEF PartialInv
  <1>17. ASSUME NEW t \in Thread, RunDequeuePartly(t) PROVE PartialInv'
    <2>1. PICK s \in Batches(Cardinality(queue)), b \in DequeueAttempts :
            /\ queue # {} /\ queue_is_closed /\ Head(deq).op \in Small
            /\ b.op = Head(deq).op /\ b.tuple = Head(deq).tuple \o s
            /\ Head(deq) \in Range(deq) /\ Head(deq).tuple \in Seq(Element)
            /\ s \in Seq(Element) /\ Range(s) = queue /\ queue' = {}
            /\ Range(deq) = {Head(deq)} \cup Range(Tail(deq)) /\ Range(deq') = {b} \cup Range(Tail(deq))
            /\ Head(deq') = b
      BY <1>17, DequeueStays
    <2>2. \A a \in Range(deq) : a.tuple = <<>> /\ a.requested = num[a.op]
      BY <2>1 DEF PartialInv
    <2>3. Head(deq).tuple = <<>>
      BY <2>1, <2>2
    <2>4. b.tuple # <<>>
      <3>1. s # <<>>
        BY <2>1, RangeEmpty
      <3>2. <<>> \o s = s
        BY <2>1
      <3> QED
        BY <2>1, <2>3, <3>1, <3>2
    <2>5. UNCHANGED <<num, queue_is_closed, queue_mu>> /\ queue_mu # Nobody
      BY <1>17, <1>s DEF RunDequeuePartly
    <2>6. \A a \in Range(deq') : a = b \/ (a.tuple = <<>> /\ a.requested = num[a.op])
      <3>1. Range(deq') = {b} \cup Range(Tail(deq)) /\ Range(deq) = {Head(deq)} \cup Range(Tail(deq))
        BY <2>1
      <3>2. \A a \in Range(deq') : a = b \/ a \in Range(deq)
        BY <3>1
      <3> QED
        BY <2>2, <3>2
    <2> QED
      BY <2>1, <2>4, <2>5, <2>6 DEF PartialInv
  <1>18. ASSUME NEW t \in Thread, Unlock(t) PROVE PartialInv'
    <2>1. \A a \in Range(deq) : a.tuple = <<>> /\ a.requested = num[a.op]
      <3>1. deq # <<>> => ~Insufficient(Head(deq))
        BY <1>18 DEF Unlock
      <3>2. Range(deq) # {} => deq # <<>>
        BY RangeEmpty
      <3>3. deq # <<>> => ~(queue_is_closed /\ queue = {})
        BY <3>1 DEF Insufficient
      <3> QED
        BY <3>2, <3>3 DEF PartialInv
    <2>2. UNCHANGED <<num, deq>>
      BY <1>18 DEF Unlock
    <2> QED
      BY <2>1, <2>2 DEF PartialInv
  <1>19. ASSUME NEW t \in Thread, Callback(t) PROVE PartialInv'
    BY <1>19, <1>u DEF Callback
  <1>20. ASSUME NEW t \in Thread \ CancelCloser, Return(t) PROVE PartialInv'
    BY <1>20, <1>u DEF Return
  <1>21. ASSUME NEW t \in CancelCloser, ReturnOfClose(t) PROVE PartialInv'
    BY <1>21, <1>u DEF ReturnOfClose
  <1>22. ASSUME NEW c \in Canceller, CancelAttempt(c) PROVE PartialInv'
    <2>1. \A a \in Range(deq) : a.tuple = <<>> /\ a.requested = num[a.op]
      BY <1>22 DEF CancelAttempt, PartialInv
    <2>2. UNCHANGED num
      BY <1>22 DEF CancelAttempt
    <2>3. Range(deq') = {a \in Range(deq) : a.op # Victim[c]}
      BY <1>22, AttemptsGo
    <2> QED
      BY <2>1, <2>2, <2>3 DEF PartialInv
  <1>23. ASSUME NEW c \in Canceller, CancelNothing(c) PROVE PartialInv'
    BY <1>23, <1>u DEF CancelNothing
  <1>24. CASE UNCHANGED vars
    BY <1>24, <1>u DEF vars, pqVars
  <1> QED
    BY <1>1, <1>2, <1>3, <1>4, <1>5, <1>6, <1>7, <1>8, <1>9, <1>10, <1>11, <1>12, <1>13, <1>14, <1>15, <1>16, <1>17, <1>18, <1>19, <1>20, <1>21, <1>22, <1>23, <1>24 DEF OneStep

\* A step that leaves what TakeMany o has been given alone.
KeepsGot(o) ==
    /\ Finished(o)' <=> Finished(o)
    /\ st'[o] = st[o] /\ got'[o] = got[o] /\ num'[o] = num[o]

\* It says the same of it.
LEMMA GotSame ==
  ASSUME NEW o, GotOK(o), KeepsGot(o)
  PROVE  GotOK(o)'
  BY DEF GotOK, KeepsGot

\* One that fails has nothing to show.
LEMMA GotFails ==
  ASSUME NEW o, Finished(o)', st'[o] # "ok"
  PROVE  GotOK(o)'
  BY DEF GotOK

\* A TakeMany that succeeds is given what it asked for, in order.
LEMMA GotInvStep ==
  ASSUME BarrierAssumption, ThreadAssumption, DoneInv, PartialInv, GotInv, OneStep \/ UNCHANGED vars
  PROVE  GotInv'
  <1>i. /\ TypeInv /\ FlushInv /\ CallInv /\ AttemptsApart /\ CloseInv /\ PlaceInv /\ ListsApart
    BY DEF DoneInv, CoreInv
  <1>s. /\ Inserter \subseteq Op /\ Taker \subseteq Op /\ Closer \subseteq Op
        /\ Op \subseteq Thread /\ Canceller \subseteq Thread /\ Nobody \notin Thread
        /\ Op = Inserter \cup Taker \cup Closer
        /\ Small \subseteq Taker /\ CancelCloser \subseteq Closer
        /\ \A o \in Inserter : o \notin Taker /\ o \notin Closer
        /\ \A o \in Taker : o \notin Closer
        /\ \A o \in Op : o \notin Canceller
        /\ \A c \in Canceller : Victim[c] \in Inserter \cup Taker
    BY Sorts
  <1>0. TypeOKOps /\ TypeOKFlags /\ TypeOKAttempts /\ TypeOKTuples /\ IsFiniteSet(queue)
    BY <1>i DEF TypeInv, TypeOK
  <1>t. /\ OpsOf(enq) \subseteq Inserter \cup Closer /\ OpsOf(deq) \subseteq Taker
        /\ \A t \in Thread : Range(clean_up[t]) \subseteq Op
    BY <1>0, OpsTyped
  <1>m. ASSUME \A x \in Taker : KeepsGot(x) \/ GotOK(x)' PROVE GotInv'
    BY <1>m, GotSame DEF GotInv
  <1>u. ASSUME UNCHANGED <<clean_up, done, st, got, num>> PROVE GotInv'
    BY <1>m, <1>u DEF KeepsGot, Finished, Listed
  <1>1. ASSUME NEW o \in Op, Ends(o) PROVE GotInv'
    <2>1. \A x \in Taker : x # o => KeepsGot(x)
      BY <1>1, <1>0, <1>s DEF Ends, KeepsGot, Finished, Listed, TypeOKOps
    <2>9. ASSUME o \in Taker PROVE GotOK(o)'
      <3>1. o \in Op /\ ~Past(o)
        BY <1>1, <1>s DEF Ends, Past, Called, NotCalled
      <3>2. done[o] = 0
        BY <1>i, <1>0, <3>1, NotYet
      <3>3. done'[o] = 1 /\ st'[o] # "ok"
        BY <1>1, <1>0, <1>s, <3>1, <3>2 DEF Ends, TypeOKOps
      <3>4. Finished(o)'
        BY <3>3 DEF Finished
      <3> QED
        BY <3>3, <3>4, GotFails
    <2> QED
      BY <1>m, <2>1, <2>9
  <1>2. ASSUME NEW o \in Inserter, InsertEnds(o) PROVE GotInv'
    <2>1. \A x \in Taker : KeepsGot(x)
      BY <1>2, <1>0, <1>s DEF InsertEnds, KeepsGot, Finished, Listed, TypeOKOps
    <2> QED
      BY <1>m, <2>1
  <1>3. ASSUME NEW o \in Inserter, InsertReady(o) PROVE GotInv'
    BY <1>3, <1>u DEF InsertReady
  <1>4. ASSUME NEW o \in Taker, TakeStarts(o) PROVE GotInv'
    <2>1. \A x \in Taker : x # o => KeepsGot(x)
      BY <1>4, <1>0, <1>s DEF TakeStarts, KeepsGot, Finished, Listed, TypeOKOps
    <2>2. o \in Op /\ ~Past(o) /\ GotOK(o)
      BY <1>4, <1>s DEF TakeStarts, Past, Called, NotCalled, GotInv
    <2>3. done[o] = 0 /\ ~Listed(o)
      BY <1>i, <1>0, <2>2, NotYet
    <2>4. UNCHANGED <<done, clean_up, got>>
      BY <1>4 DEF TakeStarts
    <2>5. ~Finished(o)' /\ ~Finished(o)
      BY <2>3, <2>4 DEF Finished, Listed
    <2>9. GotOK(o)'
      BY <2>2, <2>4, <2>5 DEF GotOK
    <2> QED
      BY <1>m, <2>1, <2>9
  <1>5. ASSUME NEW o \in Closer, CloseBegins(o) PROVE GotInv'
    BY <1>5, <1>u DEF CloseBegins
  <1>6. ASSUME NEW o \in Closer, CloseEnds(o) PROVE GotInv'
    <2>1. \A x \in Taker : KeepsGot(x)
      BY <1>6, <1>0, <1>s DEF CloseEnds, KeepsGot, Finished, Listed, TypeOKOps
    <2> QED
      BY <1>m, <2>1
  <1>7. ASSUME NEW o \in Closer, CloseForgets(o) PROVE GotInv'
    BY <1>7, <1>u DEF CloseForgets
  <1>8. ASSUME NEW o \in Inserter, AppendEnqueue(o) PROVE GotInv'
    BY <1>8, <1>u DEF AppendEnqueue
  <1>9. ASSUME NEW o \in Taker, AppendDequeue(o) PROVE GotInv'
    BY <1>9, <1>u DEF AppendDequeue
  <1>10. ASSUME NEW o \in Closer \ CancelCloser, AppendClose(o) PROVE GotInv'
    BY <1>10, <1>u DEF AppendClose
  <1>11. ASSUME NEW o \in CancelCloser, CancelEnqueues(o) PROVE GotInv'
    <2>1. \A x \in Taker : x \notin OpsOf(enq)
      BY <1>t, <1>s
    <2>2. \A x \in Taker : KeepsGot(x)
      BY <1>11, <1>0, <1>s, <2>1 DEF CancelEnqueues, KeepsGot, Finished, Listed
    <2> QED
      BY <1>m, <2>2
  <1>12. ASSUME NEW t \in Thread, Lock(t) PROVE GotInv'
    BY <1>12, <1>u DEF Lock
  <1>13. ASSUME NEW t \in Thread, RefuseEnqueue(t) PROVE GotInv'
    <2>1. PICK h \in Inserter \cup Closer : EnqueueLeft(h, t)
      BY <1>13, <1>0, EnqueueLeaves DEF RefuseEnqueue
    <2>2. h \notin Taker /\ h = Head(enq).op /\ \A x : Listed(x)' <=> Listed(x) \/ x = h
      BY <1>s, <2>1 DEF EnqueueLeft
    <2>3. UNCHANGED <<done, got, num>> /\ \A x \in Op : x # h => st'[x] = st[x]
      BY <1>13, <1>0, <1>s, <2>2 DEF RefuseEnqueue, TypeOKOps
    <2>4. \A x \in Taker : KeepsGot(x)
      BY <1>s, <2>2, <2>3 DEF KeepsGot, Finished
    <2> QED
      BY <1>m, <2>4
  <1>14. ASSUME NEW t \in Thread, RunEnqueue(t) PROVE GotInv'
    <2>1. PICK h \in Inserter \cup Closer : EnqueueLeft(h, t)
      BY <1>14, <1>0, EnqueueLeaves DEF RunEnqueue
    <2>2. h \notin Taker /\ h = Head(enq).op /\ \A x : Listed(x)' <=> Listed(x) \/ x = h
      BY <1>s, <2>1 DEF EnqueueLeft
    <2>3. UNCHANGED <<done, got, num>> /\ \A x \in Op : x # h => st'[x] = st[x]
      BY <1>14, <1>0, <1>s, <2>2 DEF RunEnqueue, TypeOKOps
    <2>4. \A x \in Taker : KeepsGot(x)
      BY <1>s, <2>2, <2>3 DEF KeepsGot, Finished
    <2> QED
      BY <1>m, <2>4
  <1>15. ASSUME NEW t \in Thread, FailDequeue(t) PROVE GotInv'
    <2>0. PICK h \in Taker : DequeueLeft(h, t)
      BY <1>15, <1>0, DequeueLeaves DEF FailDequeue
    <2>2. h = Head(deq).op /\ \A x : Listed(x)' <=> Listed(x) \/ x = h
      BY <2>0 DEF DequeueLeft
    <2>3. UNCHANGED <<done, got, num>> /\ \A x \in Op : st'[x] = IF x = h THEN "OutOfRange" ELSE st[x]
      BY <1>15, <1>0, <1>s, <2>2 DEF FailDequeue, TypeOKOps
    <2>1. \A x \in Taker : x # h => KeepsGot(x)
      BY <1>s, <2>2, <2>3 DEF KeepsGot, Finished
    <2>4. Finished(h)' /\ st'[h] # "ok"
      BY <1>s, <2>2, <2>3 DEF Finished
    <2>9. GotOK(h)'
      BY <2>4, GotFails
    <2> QED
      BY <1>m, <2>1, <2>9
  <1>16. ASSUME NEW t \in Thread, RunDequeue(t) PROVE GotInv'
    <2>0. PICK h \in Taker : DequeueLeft(h, t)
      BY <1>16, <1>0, DequeueLeaves DEF RunDequeue
    <2>2. h = Head(deq).op /\ Head(deq) \in Range(deq) /\ \A x : Listed(x)' <=> Listed(x) \/ x = h
      BY <2>0 DEF DequeueLeft
    <2>3. UNCHANGED <<done, st, num>> /\ \A x \in Thread : x # h => got'[x] = got[x]
      BY <1>16, <1>0, <1>s, <2>2 DEF RunDequeue, TypeOKTuples
    <2>1. \A x \in Taker : x # h => KeepsGot(x)
      BY <1>s, <2>2, <2>3 DEF KeepsGot, Finished
    <2>4. /\ Head(deq).requested \in Nat \ {0} /\ Cardinality(queue) >= Head(deq).requested
          /\ Head(deq).tuple \in Seq(Element)
      BY <1>16, <1>0, DequeueHead DEF RunDequeue, DequeueAttempts
    <2>5. queue # {}
      <3>1. Cardinality({}) = 0
        BY FS_EmptySet
      <3>2. Cardinality(queue) \in Nat
        BY <1>0, FS_CardinalityType
      <3>3. Cardinality(queue) # 0
        BY <2>4, <3>2
      <3> QED
        BY <3>1, <3>3
    <2>6. Head(deq).tuple = <<>> /\ Head(deq).requested = num[h]
      BY <2>2, <2>5 DEF PartialInv
    <2>12. PICK s \in Batches(Head(deq).requested) : got' = [got EXCEPT ![Head(deq).op] = Head(deq).tuple \o s]
      BY <1>16 DEF RunDequeue
    <2>7. got'[h] = Head(deq).tuple \o s
      <3>1. got \in [Thread -> Seq(Element)] /\ h \in Thread
        BY <1>0, <1>s DEF TypeOKTuples
      <3> QED
        BY <2>2, <2>12, <3>1
    <2>8. s \in Seq(Element) /\ Len(s) = num[h] /\ SortedTuple(s)
      <3>1. Head(deq).requested \in Nat /\ queue \in SUBSET Element /\ IsFiniteSet(queue)
        BY <1>0, <2>4 DEF TypeOKTuples
      <3>2. s \in Seq(Element) /\ Len(s) = Head(deq).requested /\ SortedTuple(s)
        BY <2>7, <3>1, BatchFacts
      <3> QED
        BY <2>6, <3>2
    <2>10. got'[h] = s
      BY <2>6, <2>7, <2>8
    <2>11. Finished(h)'
      BY <2>2 DEF Finished
    <2>9. GotOK(h)'
      BY <2>3, <2>8, <2>10, <2>11 DEF GotOK
    <2> QED
      BY <1>m, <2>1, <2>9
  <1>17. ASSUME NEW t \in Thread, RunDequeuePartly(t) PROVE GotInv'
    BY <1>17, <1>u DEF RunDequeuePartly
  <1>18. ASSUME NEW t \in Thread, Unlock(t) PROVE GotInv'
    BY <1>18, <1>u DEF Unlock
  <1>19. ASSUME NEW t \in Thread, Callback(t) PROVE GotInv'
    <2>0. PICK h \in Op : /\ h = Head(clean_up[t])
                          /\ Range(clean_up[t]) = Range(clean_up'[t]) \cup {h}
                          /\ \A u \in Thread : u # t => clean_up'[u] = clean_up[u]
      BY <1>19, <1>0, ListShrinks DEF Callback
    <2>2. UNCHANGED <<st, got, num>> /\ \A x \in Op : done'[x] = IF x = h THEN done[x] + 1 ELSE done[x]
      BY <1>19, <1>0, <2>0 DEF Callback, TypeOKOps
    <2>3. Listed(h) /\ \A x \in Op : x # h => (Listed(x)' <=> Listed(x))
      BY <2>0 DEF Listed
    <2>4. done[h] = 0
      BY <1>i, <2>3 DEF PlaceInv, PlaceOK
    <2>5. Finished(h)' /\ Finished(h)
      BY <2>2, <2>3, <2>4 DEF Finished
    <2>6. \A x \in Op : x # h => (Finished(x)' <=> Finished(x))
      BY <2>2, <2>3 DEF Finished
    <2>7. \A x \in Taker : KeepsGot(x)
      BY <1>s, <2>2, <2>5, <2>6 DEF KeepsGot
    <2> QED
      BY <1>m, <2>7
  <1>20. ASSUME NEW t \in Thread \ CancelCloser, Return(t) PROVE GotInv'
    BY <1>20, <1>u DEF Return
  <1>21. ASSUME NEW t \in CancelCloser, ReturnOfClose(t) PROVE GotInv'
    <2>1. \A x \in Taker : KeepsGot(x)
      BY <1>21, <1>0, <1>s DEF ReturnOfClose, KeepsGot, Finished, Listed, TypeOKOps
    <2> QED
      BY <1>m, <2>1
  <1>22. ASSUME NEW c \in Canceller, CancelAttempt(c) PROVE GotInv'
    <2> DEFINE v == Victim[c]
    <2>0. v \in OpsOf(enq) \cup OpsOf(deq) /\ v \in Op
      BY <1>22, <1>s DEF CancelAttempt
    <2>2. /\ UNCHANGED <<clean_up, got, num>>
          /\ \A x \in Op : /\ done'[x] = IF x = v THEN done[x] + 1 ELSE done[x]
                           /\ st'[x] = IF x = v THEN "Cancelled" ELSE st[x]
      BY <1>22, <1>0, <1>s, <2>0 DEF CancelAttempt, TypeOKOps
    <2> HIDE DEF v
    <2>1. \A x \in Taker : x # v => KeepsGot(x)
      BY <1>s, <2>2 DEF KeepsGot, Finished, Listed
    <2>3. PICK x \in Op : x = v /\ Waiting(x)
      BY <2>0 DEF Waiting
    <2>4. done[x] = 0
      BY <1>i, <2>3 DEF PlaceInv, PlaceOK
    <2>5. done'[x] = 1 /\ st'[x] # "ok"
      BY <2>2, <2>3, <2>4
    <2>6. Finished(x)'
      BY <2>5 DEF Finished
    <2>9. GotOK(x)'
      BY <2>5, <2>6, GotFails
    <2> QED
      BY <1>m, <2>1, <2>3, <2>9
  <1>23. ASSUME NEW c \in Canceller, CancelNothing(c) PROVE GotInv'
    BY <1>23, <1>u DEF CancelNothing
  <1>24. CASE UNCHANGED vars
    BY <1>24, <1>u DEF vars, pqVars
  <1> QED
    BY <1>1, <1>2, <1>3, <1>4, <1>5, <1>6, <1>7, <1>8, <1>9, <1>10, <1>11, <1>12, <1>13, <1>14, <1>15, <1>16, <1>17, <1>18, <1>19, <1>20, <1>21, <1>22, <1>23, <1>24 DEF OneStep

(***************************************************************************)
(* The tuples of a TakeMany are sorted.                                    *)
(***************************************************************************)
TakeInv == DoneInv /\ IndexInv /\ PartialInv /\ GotInv

\* It is an invariant of the specification.
LEMMA TakeInvariance == Spec => []TakeInv
  <1>1. Init => IndexInv /\ PartialInv /\ GotInv
    <2> SUFFICES ASSUME Init PROVE IndexInv /\ PartialInv /\ GotInv
      OBVIOUS
    <2>s. Op \subseteq Thread /\ Taker \subseteq Op
      BY BarrierAssumption, ThreadAssumption, Sorts
    <2>1. /\ elements = {} /\ deq = <<>>
          /\ \A t \in Thread : clean_up[t] = <<>> /\ got[t] = <<>>
          /\ \A o \in Op : done[o] = 0
      BY DEF Init, PQInit
    <2>2. Range(deq) = {} /\ \A t \in Thread : Range(clean_up[t]) = {}
      BY <2>1, RangeEmpty
    <2>3. IndexInv /\ PartialInv
      BY <2>1, <2>2 DEF IndexInv, IndexNamesBatch, PartialInv
    <2>4. \A o \in Taker : ~Finished(o) /\ got[o] = <<>>
      BY <2>s, <2>1, <2>2 DEF Finished, Listed
    <2> QED
      BY <2>3, <2>4 DEF GotInv, GotOK
  <1>2. DoneInv /\ IndexInv /\ PartialInv /\ GotInv /\ [Next]_vars => IndexInv' /\ PartialInv' /\ GotInv'
    <2> SUFFICES ASSUME DoneInv, IndexInv, PartialInv, GotInv, [Next]_vars
                 PROVE  IndexInv' /\ PartialInv' /\ GotInv'
      OBVIOUS
    <2>1. CoreInv /\ TypeInv /\ StatusInv /\ CallInv /\ AttemptsApart
      BY DEF DoneInv, CoreInv
    <2>2. OneStep \/ UNCHANGED vars
      BY <2>1, BarrierAssumption, CoreCases
    <2>3. IndexInv'
      BY BarrierAssumption, ThreadAssumption, <2>1, <2>2, IndexInvStep
    <2>4. PartialInv'
      BY BarrierAssumption, ThreadAssumption, <2>1, <2>2, PartialInvStep
    <2>5. GotInv'
      BY BarrierAssumption, ThreadAssumption, <2>2, GotInvStep
    <2> QED
      BY <2>3, <2>4, <2>5
  <1> QED
    BY <1>1, <1>2, DoneInvariance, PTL DEF Spec, TakeInv

\* A TakeMany that succeeds returns as many different tuples as it had to
\* deliver, the oldest batches first, and no two InsertMany calls that succeed
\* give their tuples the same index.
THEOREM TakesInOrder == Spec => []TakesAreSorted
  <1>1. TakeInv => TakesAreSorted
    <2> SUFFICES ASSUME TakeInv, NEW o \in Taker, done[o] = 1, st[o] = "ok"
                 PROVE  /\ Len(got[o]) = num[o]
                        /\ \A i, j \in 1..Len(got[o]) :
                             i < j => got[o][i].index <= got[o][j].index /\ got[o][i] # got[o][j]
      BY DEF TakesAreSorted, TakeInv, IndexInv
    <2>1. GotOK(o) /\ Finished(o)
      BY DEF TakeInv, GotInv, Finished
    <2> QED
      BY <2>1 DEF GotOK, SortedTuple
  <1> QED
    BY <1>1, TakeInvariance, PTL

(***************************************************************************)
(* Where the tuples are.                                                   *)
(***************************************************************************)

\* A reason for which a tuple may be gone stays one.
LostStays == \A e : Lost(e) => Lost(e)'

\* No step removes it.
LEMMA LostStep ==
  ASSUME BarrierAssumption, ThreadAssumption, TypeInv, StatusInv, OneStep \/ UNCHANGED vars
  PROVE  LostStays
  <1>s. /\ Inserter \subseteq Op /\ Taker \subseteq Op /\ Closer \subseteq Op
        /\ Op \subseteq Thread /\ Canceller \subseteq Thread /\ Nobody \notin Thread
        /\ Op = Inserter \cup Taker \cup Closer
        /\ Small \subseteq Taker /\ CancelCloser \subseteq Closer
        /\ \A o \in Inserter : o \notin Taker /\ o \notin Closer
        /\ \A o \in Taker : o \notin Closer
        /\ \A o \in Op : o \notin Canceller
        /\ \A c \in Canceller : Victim[c] \in Inserter \cup Taker
    BY Sorts
  <1>e. ErrorsStay
    BY ErrorsStep
  <1>u. ASSUME UNCHANGED <<queue_cancelled>> PROVE LostStays
    BY <1>e, <1>s, <1>u DEF LostStays, Lost, ErrorsStay
  <1>1. ASSUME NEW o \in Op, Ends(o) PROVE LostStays
    BY <1>1, <1>u DEF Ends
  <1>2. ASSUME NEW o \in Inserter, InsertEnds(o) PROVE LostStays
    BY <1>2, <1>u DEF InsertEnds
  <1>3. ASSUME NEW o \in Inserter, InsertReady(o) PROVE LostStays
    BY <1>3, <1>u DEF InsertReady
  <1>4. ASSUME NEW o \in Taker, TakeStarts(o) PROVE LostStays
    BY <1>4, <1>u DEF TakeStarts
  <1>5. ASSUME NEW o \in Closer, CloseBegins(o) PROVE LostStays
    <2>1. queue_cancelled => queue_cancelled'
      BY <1>5 DEF CloseBegins
    <2> QED
      BY <1>e, <1>s, <2>1 DEF LostStays, Lost, ErrorsStay
  <1>6. ASSUME NEW o \in Closer, CloseEnds(o) PROVE LostStays
    <2>1. queue_cancelled => queue_cancelled'
      BY <1>6 DEF CloseEnds
    <2> QED
      BY <1>e, <1>s, <2>1 DEF LostStays, Lost, ErrorsStay
  <1>7. ASSUME NEW o \in Closer, CloseForgets(o) PROVE LostStays
    <2>1. queue_cancelled => queue_cancelled'
      BY <1>7 DEF CloseForgets
    <2> QED
      BY <1>e, <1>s, <2>1 DEF LostStays, Lost, ErrorsStay
  <1>8. ASSUME NEW o \in Inserter, AppendEnqueue(o) PROVE LostStays
    BY <1>8, <1>u DEF AppendEnqueue
  <1>9. ASSUME NEW o \in Taker, AppendDequeue(o) PROVE LostStays
    BY <1>9, <1>u DEF AppendDequeue
  <1>10. ASSUME NEW o \in Closer \ CancelCloser, AppendClose(o) PROVE LostStays
    BY <1>10, <1>u DEF AppendClose
  <1>11. ASSUME NEW o \in CancelCloser, CancelEnqueues(o) PROVE LostStays
    BY <1>11, <1>u DEF CancelEnqueues
  <1>12. ASSUME NEW t \in Thread, Lock(t) PROVE LostStays
    BY <1>12, <1>u DEF Lock
  <1>13. ASSUME NEW t \in Thread, RefuseEnqueue(t) PROVE LostStays
    BY <1>13, <1>u DEF RefuseEnqueue
  <1>14. ASSUME NEW t \in Thread, RunEnqueue(t) PROVE LostStays
    BY <1>14, <1>u DEF RunEnqueue
  <1>15. ASSUME NEW t \in Thread, FailDequeue(t) PROVE LostStays
    BY <1>15, <1>u DEF FailDequeue
  <1>16. ASSUME NEW t \in Thread, RunDequeue(t) PROVE LostStays
    BY <1>16, <1>u DEF RunDequeue
  <1>17. ASSUME NEW t \in Thread, RunDequeuePartly(t) PROVE LostStays
    BY <1>17, <1>u DEF RunDequeuePartly
  <1>18. ASSUME NEW t \in Thread, Unlock(t) PROVE LostStays
    BY <1>18, <1>u DEF Unlock
  <1>19. ASSUME NEW t \in Thread, Callback(t) PROVE LostStays
    BY <1>19, <1>u DEF Callback
  <1>20. ASSUME NEW t \in Thread \ CancelCloser, Return(t) PROVE LostStays
    BY <1>20, <1>u DEF Return
  <1>21. ASSUME NEW t \in CancelCloser, ReturnOfClose(t) PROVE LostStays
    BY <1>21, <1>u DEF ReturnOfClose
  <1>22. ASSUME NEW c \in Canceller, CancelAttempt(c) PROVE LostStays
    BY <1>22, <1>u DEF CancelAttempt
  <1>23. ASSUME NEW c \in Canceller, CancelNothing(c) PROVE LostStays
    BY <1>23, <1>u DEF CancelNothing
  <1>24. CASE UNCHANGED vars
    BY <1>24, <1>u DEF vars, barrierVars, flagVars
  <1> QED
    BY <1>1, <1>2, <1>3, <1>4, <1>5, <1>6, <1>7, <1>8, <1>9, <1>10, <1>11, <1>12, <1>13, <1>14, <1>15, <1>16, <1>17, <1>18, <1>19, <1>20, <1>21, <1>22, <1>23, <1>24 DEF OneStep


\* A batch holds tuples under keys of its InsertMany, and a Close has none.
LEMMA KeyInvStep ==
  ASSUME BarrierAssumption, ThreadAssumption, TypeInv, KeyInv, OneStep \/ UNCHANGED vars
  PROVE  KeyInv'
  <1>u. ASSUME UNCHANGED <<batch, enq>> PROVE KeyInv'
    BY <1>u DEF KeyInv
  <1>s. /\ Inserter \subseteq Op /\ Taker \subseteq Op /\ Closer \subseteq Op
        /\ Op \subseteq Thread /\ Canceller \subseteq Thread /\ Nobody \notin Thread
        /\ Op = Inserter \cup Taker \cup Closer
        /\ Small \subseteq Taker /\ CancelCloser \subseteq Closer
        /\ \A o \in Inserter : o \notin Taker /\ o \notin Closer
        /\ \A o \in Taker : o \notin Closer
        /\ \A o \in Op : o \notin Canceller
        /\ \A c \in Canceller : Victim[c] \in Inserter \cup Taker
    BY Sorts
  <1>0. TypeOKOps /\ TypeOKFlags /\ TypeOKAttempts /\ TypeOKTuples
    BY DEF TypeInv, TypeOK
  <1>1. ASSUME NEW o \in Op, Ends(o) PROVE KeyInv'
    BY <1>1, <1>u DEF Ends
  <1>2. ASSUME NEW o \in Inserter, InsertEnds(o) PROVE KeyInv'
    BY <1>2, <1>u DEF InsertEnds
  <1>3. ASSUME NEW o \in Inserter, InsertReady(o) PROVE KeyInv'
    <2> DEFINE r == InsertAll(o)
    <2>0. pc[o] = "idle"
      BY <1>3 DEF InsertReady
    <2>1. LoopOK(r.inc, r.ready, r.all, r.fresh, r.status, o, Len(Keys[o]))
      BY <2>0, InsertAllOK
    <2>2. UNCHANGED enq /\ \A x \in Inserter : batch'[x] = IF x = o THEN r.ready ELSE batch[x]
      BY <1>3, <1>0 DEF InsertReady, TypeOKTuples
    <2> HIDE DEF r
    <2>3. \A e \in Range(r.ready) : e.key \in Range(Keys[o])
      BY <2>1 DEF LoopOK
    <2> QED
      BY <2>2, <2>3 DEF KeyInv
  <1>4. ASSUME NEW o \in Taker, TakeStarts(o) PROVE KeyInv'
    BY <1>4, <1>u DEF TakeStarts
  <1>5. ASSUME NEW o \in Closer, CloseBegins(o) PROVE KeyInv'
    BY <1>5, <1>u DEF CloseBegins
  <1>6. ASSUME NEW o \in Closer, CloseEnds(o) PROVE KeyInv'
    BY <1>6, <1>u DEF CloseEnds
  <1>7. ASSUME NEW o \in Closer, CloseForgets(o) PROVE KeyInv'
    BY <1>7, <1>u DEF CloseForgets
  <1>8. ASSUME NEW o \in Inserter, AppendEnqueue(o) PROVE KeyInv'
    <2>1. PICK a \in EnqueueAttempts : a.op = o /\ a.batch = batch[o] /\ Range(enq') = Range(enq) \cup {a}
      BY <1>8, EnqueueComes
    <2>2. \A x \in Inserter : batch'[x] = IF x = o THEN <<>> ELSE batch[x]
      BY <1>8, <1>0 DEF AppendEnqueue, TypeOKTuples
    <2>3. o \notin Closer
      BY <1>8, <1>s
    <2>4. \A x \in Inserter : \A e \in Range(batch'[x]) : e.key \in Range(Keys[x])
      BY <2>2, RangeEmpty DEF KeyInv
    <2>5. \A e \in Range(a.batch) : e.key \in Range(Keys[o])
      BY <2>1 DEF KeyInv
    <2>6. ASSUME NEW b \in Range(enq') PROVE
             /\ b.op \in Closer => b.batch = <<>>
             /\ b.op \in Inserter => \A e \in Range(b.batch) : e.key \in Range(Keys[b.op])
      <3>1. CASE b = a
        BY <2>1, <2>3, <2>5, <3>1
      <3>2. CASE b \in Range(enq)
        BY <3>2 DEF KeyInv
      <3> QED
        BY <2>1, <2>6, <3>1, <3>2
    <2> QED
      BY <2>4, <2>6 DEF KeyInv
  <1>9. ASSUME NEW o \in Taker, AppendDequeue(o) PROVE KeyInv'
    BY <1>9, <1>u DEF AppendDequeue
  <1>10. ASSUME NEW o \in Closer \ CancelCloser, AppendClose(o) PROVE KeyInv'
    <2>1. PICK a \in EnqueueAttempts : a.op = o /\ a.batch = <<>> /\ Range(enq') = Range(enq) \cup {a}
      BY <1>10, CloseComes
    <2>2. UNCHANGED batch
      BY <1>10 DEF AppendClose
    <2>3. o \notin Inserter
      BY <1>10, <1>s
    <2> QED
      BY <2>1, <2>2, <2>3 DEF KeyInv
  <1>11. ASSUME NEW o \in CancelCloser, CancelEnqueues(o) PROVE KeyInv'
    <2>1. Range(enq') = {} /\ UNCHANGED batch
      BY <1>11, RangeEmpty DEF CancelEnqueues
    <2> QED
      BY <2>1 DEF KeyInv
  <1>12. ASSUME NEW t \in Thread, Lock(t) PROVE KeyInv'
    BY <1>12, <1>u DEF Lock
  <1>13. ASSUME NEW t \in Thread, RefuseEnqueue(t) PROVE KeyInv'
    <2>1. PICK h \in Inserter \cup Closer : EnqueueLeft(h, t)
      BY <1>13, <1>0, EnqueueLeaves DEF RefuseEnqueue
    <2>2. Range(enq') \subseteq Range(enq)
      BY <2>1 DEF EnqueueLeft
    <2>3. UNCHANGED batch
      BY <1>13 DEF RefuseEnqueue
    <2> QED
      BY <2>2, <2>3 DEF KeyInv
  <1>14. ASSUME NEW t \in Thread, RunEnqueue(t) PROVE KeyInv'
    <2>1. PICK h \in Inserter \cup Closer : EnqueueLeft(h, t)
      BY <1>14, <1>0, EnqueueLeaves DEF RunEnqueue
    <2>2. Range(enq') \subseteq Range(enq)
      BY <2>1 DEF EnqueueLeft
    <2>3. UNCHANGED batch
      BY <1>14 DEF RunEnqueue
    <2> QED
      BY <2>2, <2>3 DEF KeyInv
  <1>15. ASSUME NEW t \in Thread, FailDequeue(t) PROVE KeyInv'
    BY <1>15, <1>u DEF FailDequeue
  <1>16. ASSUME NEW t \in Thread, RunDequeue(t) PROVE KeyInv'
    BY <1>16, <1>u DEF RunDequeue
  <1>17. ASSUME NEW t \in Thread, RunDequeuePartly(t) PROVE KeyInv'
    BY <1>17, <1>u DEF RunDequeuePartly
  <1>18. ASSUME NEW t \in Thread, Unlock(t) PROVE KeyInv'
    BY <1>18, <1>u DEF Unlock
  <1>19. ASSUME NEW t \in Thread, Callback(t) PROVE KeyInv'
    BY <1>19, <1>u DEF Callback
  <1>20. ASSUME NEW t \in Thread \ CancelCloser, Return(t) PROVE KeyInv'
    BY <1>20, <1>u DEF Return
  <1>21. ASSUME NEW t \in CancelCloser, ReturnOfClose(t) PROVE KeyInv'
    BY <1>21, <1>u DEF ReturnOfClose
  <1>22. ASSUME NEW c \in Canceller, CancelAttempt(c) PROVE KeyInv'
    <2>1. Range(enq') = {a \in Range(enq) : a.op # Victim[c]}
      BY <1>22, AttemptsGo
    <2>2. UNCHANGED batch
      BY <1>22 DEF CancelAttempt
    <2> QED
      BY <2>1, <2>2 DEF KeyInv
  <1>23. ASSUME NEW c \in Canceller, CancelNothing(c) PROVE KeyInv'
    BY <1>23, <1>u DEF CancelNothing
  <1>24. CASE UNCHANGED vars
    BY <1>24, <1>u DEF vars, pqVars
  <1> QED
    BY <1>1, <1>2, <1>3, <1>4, <1>5, <1>6, <1>7, <1>8, <1>9, <1>10, <1>11, <1>12, <1>13, <1>14, <1>15, <1>16, <1>17, <1>18, <1>19, <1>20, <1>21, <1>22, <1>23, <1>24 DEF OneStep


\* Tuples leave, or none does.
Kept ==
    /\ elements' = elements
    /\ \A e, k, x : At(e, k, x)' => At(e, k, x)
    /\ \A e, k, x : At(e, k, x) => At(e, k, x)' \/ Lost(e)'

\* They are still in one place.
LEMMA KeptWhere ==
  ASSUME WhereInv, LostStays, Kept
  PROVE  WhereInv'
  <1>1. \A e, j, k, x, y : At(e, j, x)' /\ At(e, k, y)' => j = k /\ x = y
    BY DEF WhereInv, Kept
  <1>2. \A e, k, x : At(e, k, x)' => e \in elements'
    BY DEF WhereInv, Kept
  <1>3. \A e \in elements' : Lost(e)' \/ \E k, x : At(e, k, x)'
    BY DEF WhereInv, Kept, LostStays
  <1> QED
    BY <1>1, <1>2, <1>3 DEF WhereInv

\* The tuples of M go from place u of kind j to place v of kind k.
Moved(M, j, u, k, v) ==
    /\ elements' = elements
    /\ \A e, l, x : At(e, l, x)' => \/ At(e, l, x) /\ ~(e \in M /\ l = j /\ x = u)
                                    \/ e \in M /\ l = k /\ x = v /\ At(e, j, u)
    /\ \A e, l, x : At(e, l, x) => At(e, l, x)' \/ (e \in M /\ At(e, k, v)')

\* They are still in one place.
LEMMA MovedWhere ==
  ASSUME WhereInv, LostStays, NEW M, NEW j, NEW u, NEW k, NEW v, Moved(M, j, u, k, v)
  PROVE  WhereInv'
  <1>1. ASSUME NEW e, NEW l, NEW m, NEW x, NEW y, At(e, l, x)', At(e, m, y)' PROVE l = m /\ x = y
    <2>1. \/ At(e, l, x) /\ ~(e \in M /\ l = j /\ x = u)
          \/ e \in M /\ l = k /\ x = v /\ At(e, j, u)
      BY <1>1 DEF Moved
    <2>2. \/ At(e, m, y) /\ ~(e \in M /\ m = j /\ y = u)
          \/ e \in M /\ m = k /\ y = v /\ At(e, j, u)
      BY <1>1 DEF Moved
    <2>3. At(e, l, x) /\ At(e, m, y) => l = m /\ x = y
      BY DEF WhereInv
    <2>4. At(e, l, x) /\ At(e, j, u) => l = j /\ x = u
      BY DEF WhereInv
    <2>5. At(e, m, y) /\ At(e, j, u) => m = j /\ y = u
      BY DEF WhereInv
    <2> QED
      BY <2>1, <2>2, <2>3, <2>4, <2>5
  <1>2. \A e, l, x : At(e, l, x)' => e \in elements'
    BY DEF WhereInv, Moved
  <1>3. \A e \in elements' : Lost(e)' \/ \E l, x : At(e, l, x)'
    BY DEF WhereInv, Moved, LostStays
  <1> QED
    BY <1>1, <1>2, <1>3 DEF WhereInv

\* The tuples of one kind of place stay there.
IncStays   == \A e, x : InIncomplete(e, x)' <=> InIncomplete(e, x)
BatchStays == \A e, x : InBatch(e, x)' <=> InBatch(e, x)
EnqStays   == \A e, x : InEnqueue(e, x)' <=> InEnqueue(e, x)
QueueStays == \A e, x : InQueue(e, x)' <=> InQueue(e, x)
DeqStays   == \A e, x : InDequeue(e, x)' <=> InDequeue(e, x)
GotStays   == \A e, x : InGot(e, x)' <=> InGot(e, x)

\* The tuples of the enqueue at the front, and of those behind it.
LEMMA FrontOfEnqueues ==
  ASSUME TypeOKAttempts, OpsApart(enq), enq # <<>>, enq' = Tail(enq),
         NEW h, NEW t, EnqueueLeft(h, t)
  PROVE  /\ \A e, x : InEnqueue(e, x)' => x # h
         /\ \A e, x : InEnqueue(e, x) <=> (x = h /\ e \in Range(Head(enq).batch)) \/ InEnqueue(e, x)'
  <1>1. /\ Range(enq) = {Head(enq)} \cup Range(enq') /\ h = Head(enq).op /\ h \notin OpsOf(enq')
    BY DEF EnqueueLeft
  <1>2. \A a \in Range(enq') : a.op \in OpsOf(enq')
    <2>1. Tail(enq) \in Seq(EnqueueAttempts)
      BY EnqueueHead
    <2>2. OpsOf(Tail(enq)) = {a.op : a \in Range(Tail(enq))}
      BY <2>1, OpsRange
    <2> QED
      BY <2>2
  <1> QED
    BY <1>1, <1>2 DEF InEnqueue

\* The same for the attempts to dequeue.
LEMMA FrontOfDequeues ==
  ASSUME NEW h, NEW t, DequeueLeft(h, t)
  PROVE  \A e, x : InDequeue(e, x) <=> (x = h /\ e \in Range(Head(deq).tuple)) \/ InDequeue(e, x)'
  <1>1. Range(deq) = {Head(deq)} \cup Range(deq') /\ h = Head(deq).op
    BY DEF DequeueLeft
  <1> QED
    BY <1>1 DEF InDequeue

\* Inserter o's loop over its keys completes the tuples of S: those are in its
\* batch, which is R, or lost.
Completed(o, S, R) ==
    /\ IncType(incomplete') /\ elements \subseteq elements'
    /\ \A e : InInc(incomplete', e) \/ e \in S <=> InInc(incomplete, e) \/ e \in elements' \ elements
    /\ \A e : ~(InInc(incomplete', e) /\ e \in S)
    /\ R \subseteq S /\ \A e \in S : e \in R \/ Lost(e)'
    /\ \A e, x : InBatch(e, x)' <=> InBatch(e, x) \/ (x = o /\ e \in R)
    /\ EnqStays /\ QueueStays /\ DeqStays /\ GotStays

\* Every tuple is still in one place.
LEMMA InsertWhere ==
  ASSUME TypeInv, WhereInv, LostStays, NEW o, NEW S, NEW R, Completed(o, S, R)
  PROVE  WhereInv'
  <1>1. /\ IncType(incomplete') /\ elements \subseteq elements'
        /\ \A e : InInc(incomplete', e) \/ e \in S <=> InInc(incomplete, e) \/ e \in elements' \ elements
        /\ \A e : ~(InInc(incomplete', e) /\ e \in S)
        /\ R \subseteq S /\ \A e \in S : e \in R \/ Lost(e)'
        /\ \A e, x : InBatch(e, x)' <=> InBatch(e, x) \/ (x = o /\ e \in R)
        /\ EnqStays /\ QueueStays /\ DeqStays /\ GotStays
    BY DEF Completed
  <1>2. IncType(incomplete) /\ \A e : InInc(incomplete, e) => e \in elements
    BY DEF TypeInv, TypeOK, TypeOKTuples, TupleInv, IncompleteIsIncomplete, IncType, TupleOK, InInc
  <1>3. \A e, x : InIncomplete(e, x) <=> InInc(incomplete, e) /\ x = e.key
    BY <1>2 DEF IncType, TupleOK, InInc, InIncomplete
  <1>4. \A e, x : InIncomplete(e, x)' <=> InInc(incomplete', e) /\ x = e.key
    BY <1>1 DEF IncType, TupleOK, InInc, InIncomplete
  <1> DEFINE New(e) == InInc(incomplete, e) \/ e \in elements' \ elements
  <1>5. \A e : InInc(incomplete, e) <=> At(e, "inc", e.key)
    BY <1>3 DEF At
  <1>6. ASSUME NEW e, New(e), NEW k, NEW x, At(e, k, x) PROVE k = "inc" /\ x = e.key
    <2>1. e \in elements
      BY <1>6 DEF WhereInv
    <2>2. At(e, "inc", e.key)
      BY <1>5, <1>6, <2>1
    <2> QED
      BY <1>6, <2>2 DEF WhereInv
  <1>7. \A e, k, x : At(e, k, x)' => \/ At(e, k, x) /\ k # "inc"
                                     \/ New(e) /\ k = "inc" /\ x = e.key /\ e \notin S
                                     \/ New(e) /\ k = "batch" /\ x = o /\ e \in S
    <2> SUFFICES ASSUME NEW e, NEW k, NEW x, At(e, k, x)'
                 PROVE  \/ At(e, k, x) /\ k # "inc"
                        \/ New(e) /\ k = "inc" /\ x = e.key /\ e \notin S
                        \/ New(e) /\ k = "batch" /\ x = o /\ e \in S
      OBVIOUS
    <2>1. CASE k = "inc"
      <3>1. InIncomplete(e, x)'
        BY <2>1 DEF At
      <3> QED
        BY <1>1, <1>4, <2>1, <3>1
    <2>2. CASE k = "batch"
      <3>1. InBatch(e, x)'
        BY <2>2 DEF At
      <3> QED
        BY <1>1, <2>2, <3>1 DEF At
    <2>3. CASE k # "inc" /\ k # "batch"
      BY <1>1, <2>3 DEF At, EnqStays, QueueStays, DeqStays, GotStays
    <2> QED
      BY <2>1, <2>2, <2>3
  <1>8. \A e, k, x : At(e, k, x) /\ k # "inc" => At(e, k, x)'
    BY <1>1 DEF At, EnqStays, QueueStays, DeqStays, GotStays
  <1>9. \A e : New(e) => At(e, "inc", e.key)' \/ At(e, "batch", o)' \/ Lost(e)'
    <2> SUFFICES ASSUME NEW e, New(e) PROVE At(e, "inc", e.key)' \/ At(e, "batch", o)' \/ Lost(e)'
      OBVIOUS
    <2>1. InInc(incomplete', e) \/ e \in S
      BY <1>1
    <2>2. CASE InInc(incomplete', e)
      BY <1>4, <2>2 DEF At
    <2>3. CASE e \in R
      BY <1>1, <2>3 DEF At
    <2> QED
      BY <1>1, <2>1, <2>2, <2>3
  <1> HIDE DEF New
  <1>10. ASSUME NEW e, NEW j, NEW k, NEW x, NEW y, At(e, j, x)', At(e, k, y)' PROVE j = k /\ x = y
    <2>1. At(e, j, x) /\ At(e, k, y) => j = k /\ x = y
      BY DEF WhereInv
    <2> QED
      BY <1>6, <1>7, <1>10, <2>1
  <1>11. \A e, k, x : At(e, k, x)' => e \in elements'
    <2>1. \A e : New(e) => e \in elements'
      BY <1>1, <1>2 DEF New
    <2> QED
      BY <1>1, <1>7, <2>1 DEF WhereInv
  <1>12. ASSUME NEW e \in elements' PROVE Lost(e)' \/ \E k, x : At(e, k, x)'
    <2>1. CASE New(e)
      BY <1>9, <2>1
    <2>2. CASE ~New(e)
      <3>1. e \in elements /\ ~InInc(incomplete, e)
        BY <2>2 DEF New
      <3>2. Lost(e) \/ \E k, x : At(e, k, x) /\ k # "inc"
        BY <1>3, <3>1 DEF WhereInv, At
      <3> QED
        BY <1>8, <3>2 DEF LostStays
    <2> QED
      BY <2>1, <2>2
  <1> QED
    BY <1>10, <1>11, <1>12 DEF WhereInv

\* Every tuple stays in one place, or is gone for one of the reasons.
LEMMA WhereInvStep ==
  ASSUME BarrierAssumption, ThreadAssumption, TakeInv, KeyInv, WhereInv, OneStep \/ UNCHANGED vars
  PROVE  WhereInv'
  <1>i. /\ TypeInv /\ CallInv /\ AttemptsApart /\ StatusInv /\ CloseInv /\ PlaceInv /\ PartialInv /\ GotInv
    BY DEF TakeInv, DoneInv, CoreInv
  <1>s. /\ Inserter \subseteq Op /\ Taker \subseteq Op /\ Closer \subseteq Op
        /\ Op \subseteq Thread /\ Canceller \subseteq Thread /\ Nobody \notin Thread
        /\ Op = Inserter \cup Taker \cup Closer
        /\ Small \subseteq Taker /\ CancelCloser \subseteq Closer
        /\ \A o \in Inserter : o \notin Taker /\ o \notin Closer
        /\ \A o \in Taker : o \notin Closer
        /\ \A o \in Op : o \notin Canceller
        /\ \A c \in Canceller : Victim[c] \in Inserter \cup Taker
    BY Sorts
  <1>0. TypeOKOps /\ TypeOKFlags /\ TypeOKAttempts /\ TypeOKTuples /\ IsFiniteSet(queue)
    BY <1>i DEF TypeInv, TypeOK
  <1>a. OpsApart(enq) /\ OpsApart(deq)
    BY <1>i DEF AttemptsApart
  <1>q. \A a \in Range(enq) : a.op \in Inserter \cup Closer
    <2>1. Range(enq) \subseteq EnqueueAttempts
      BY <1>0, RangeSeq DEF TypeOKAttempts
    <2> QED
      BY <2>1 DEF EnqueueAttempts
  <1>l. LostStays
    BY <1>i, LostStep
  <1>c. Kept => WhereInv'
    BY <1>l, KeptWhere
  <1>k. ASSUME elements' = elements, IncStays, BatchStays, EnqStays, QueueStays, DeqStays, GotStays
        PROVE  WhereInv'
    BY <1>c, <1>k DEF Kept, At, IncStays, BatchStays, EnqStays, QueueStays, DeqStays, GotStays
  <1>u. ASSUME UNCHANGED <<incomplete, pc, batch, enq, queue, deq, got, elements>> PROVE WhereInv'
    BY <1>k, <1>u DEF IncStays, BatchStays, EnqStays, QueueStays, DeqStays, GotStays, InIncomplete, InBatch, InEnqueue, InQueue, InDequeue, InGot
  <1>1. ASSUME NEW o \in Op, Ends(o) PROVE WhereInv'
    <2>1. elements' = elements /\ IncStays /\ EnqStays /\ QueueStays /\ DeqStays /\ GotStays
      BY <1>1, <1>0, <1>s DEF Ends, IncStays, InIncomplete, EnqStays, InEnqueue, QueueStays, InQueue, DeqStays, InDequeue, GotStays, InGot, TypeOKOps
    <2>2. /\ UNCHANGED batch /\ st'[o] # "ok" /\ \A x \in Inserter : pc'[x] = IF x = o THEN "returned" ELSE pc[x]
      BY <1>1, <1>0, <1>s DEF Ends, TypeOKOps
    <2>8. \A e, x : InBatch(e, x)' => InBatch(e, x)
      BY <2>2 DEF InBatch
    <2>9. \A e, x : InBatch(e, x) => InBatch(e, x)' \/ Lost(e)'
      <3> SUFFICES ASSUME NEW e, NEW x, InBatch(e, x), ~InBatch(e, x)' PROVE Lost(e)'
        OBVIOUS
      <3>1. x = o /\ o \in Inserter /\ e \in Range(batch[o])
        BY <2>2 DEF InBatch
      <3>2. e.key \in Range(Keys[o])
        BY <3>1 DEF KeyInv
      <3> QED
        BY <2>2, <3>1, <3>2 DEF Lost
    <2> QED
      BY <1>c, <2>1, <2>8, <2>9 DEF Kept, At, IncStays, EnqStays, QueueStays, DeqStays, GotStays
  <1>2. ASSUME NEW o \in Inserter, InsertEnds(o) PROVE WhereInv'
    <2> DEFINE r == InsertAll(o)
    <2>1. LoopOK(r.inc, r.ready, r.all, r.fresh, r.status, o, Len(Keys[o]))
      <3>1. pc[o] = "idle"
        BY <1>2 DEF InsertEnds
      <3> QED
        BY <1>i, <3>1, InsertAllOK
    <2>2. incomplete' = r.inc /\ elements' = r.all
      BY <1>2 DEF InsertEnds
    <2>3. EnqStays /\ QueueStays /\ DeqStays /\ GotStays
      BY <1>2 DEF InsertEnds, EnqStays, QueueStays, DeqStays, GotStays, InEnqueue, InQueue, InDequeue, InGot
    <2> DEFINE R == {}
    <2>4. \A e : ~InBatch(e, o)
      BY <1>2 DEF InsertEnds, InBatch
    <2>5. \A e, x : InBatch(e, x)' <=> InBatch(e, x) \/ (x = o /\ e \in R)
      <3>1. UNCHANGED batch /\ \A x \in Inserter : pc'[x] = IF x = o THEN "returned" ELSE pc[x]
        BY <1>2, <1>0, <1>s DEF InsertEnds, TypeOKOps
      <3> QED
        BY <1>2, <2>4, <3>1 DEF InBatch
    <2>6. \A e \in Range(r.ready) : e \in R \/ Lost(e)'
      <3>1. (r.status = "ok" => r.ready = <<>>) /\ st'[o] = r.status
        BY <1>2, <1>0, <1>s DEF InsertEnds, TypeOKOps
      <3>2. \A e \in Range(r.ready) : e.key \in Range(Keys[o])
        BY <2>1 DEF LoopOK
      <3> HIDE DEF r
      <3>3. CASE r.status = "ok"
        BY <3>1, <3>3, RangeEmpty
      <3>4. CASE r.status # "ok"
        BY <1>2, <3>1, <3>2, <3>4 DEF Lost
      <3> QED
        BY <3>3, <3>4
    <2> HIDE DEF r
    <2>7. LoopOK(incomplete', r.ready, elements', r.fresh, r.status, o, Len(Keys[o]))
      BY <2>1, <2>2
    <2>8. R \subseteq Range(r.ready)
      OBVIOUS
    <2> HIDE DEF R
    <2>9. Completed(o, Range(r.ready), R)
      BY <2>3, <2>5, <2>6, <2>7, <2>8 DEF Completed, LoopOK
    <2> QED
      BY <1>i, <1>l, <2>9, InsertWhere
  <1>3. ASSUME NEW o \in Inserter, InsertReady(o) PROVE WhereInv'
    <2> DEFINE r == InsertAll(o)
    <2>1. LoopOK(r.inc, r.ready, r.all, r.fresh, r.status, o, Len(Keys[o]))
      <3>1. pc[o] = "idle"
        BY <1>3 DEF InsertReady
      <3> QED
        BY <1>i, <3>1, InsertAllOK
    <2>2. incomplete' = r.inc /\ elements' = r.all
      BY <1>3 DEF InsertReady
    <2>3. EnqStays /\ QueueStays /\ DeqStays /\ GotStays
      BY <1>3 DEF InsertReady, EnqStays, QueueStays, DeqStays, GotStays, InEnqueue, InQueue, InDequeue, InGot
    <2> DEFINE R == Range(r.ready)
    <2>4. \A e : ~InBatch(e, o)
      BY <1>3 DEF InsertReady, InBatch
    <2>5. \A e, x : InBatch(e, x)' <=> InBatch(e, x) \/ (x = o /\ e \in R)
      <3>1. \A x \in Inserter : /\ batch'[x] = IF x = o THEN r.ready ELSE batch[x]
                                /\ pc'[x] = IF x = o THEN "append" ELSE pc[x]
        BY <1>3, <1>0, <1>s DEF InsertReady, TypeOKTuples, TypeOKOps
      <3> HIDE DEF r
      <3> QED
        BY <1>3, <2>4, <3>1 DEF InBatch
    <2>6. \A e \in Range(r.ready) : e \in R \/ Lost(e)'
      OBVIOUS
    <2> HIDE DEF r
    <2>7. LoopOK(incomplete', r.ready, elements', r.fresh, r.status, o, Len(Keys[o]))
      BY <2>1, <2>2
    <2>8. R \subseteq Range(r.ready)
      OBVIOUS
    <2> HIDE DEF R
    <2>9. Completed(o, Range(r.ready), R)
      BY <2>3, <2>5, <2>6, <2>7, <2>8 DEF Completed, LoopOK
    <2> QED
      BY <1>i, <1>l, <2>9, InsertWhere
  <1>4. ASSUME NEW o \in Taker, TakeStarts(o) PROVE WhereInv'
    <2>1. elements' = elements /\ IncStays /\ BatchStays /\ EnqStays /\ QueueStays /\ DeqStays /\ GotStays
      BY <1>4, <1>0, <1>s DEF TakeStarts, IncStays, InIncomplete, BatchStays, InBatch, EnqStays, InEnqueue, QueueStays, InQueue, DeqStays, InDequeue, GotStays, InGot, TypeOKOps
    <2> QED
      BY <1>k, <2>1
  <1>5. ASSUME NEW o \in Closer, CloseBegins(o) PROVE WhereInv'
    <2>1. elements' = elements /\ BatchStays /\ EnqStays /\ QueueStays /\ DeqStays /\ GotStays
      BY <1>5, <1>0, <1>s DEF CloseBegins, BatchStays, InBatch, EnqStays, InEnqueue, QueueStays, InQueue, DeqStays, InDequeue, GotStays, InGot, TypeOKOps
    <2>2. incomplete' = Cleared(o \in CancelCloser \/ DOMAIN incomplete = {}) /\ (o \in CancelCloser => queue_cancelled')
      BY <1>5 DEF CloseBegins
    <2>3. CASE incomplete' = incomplete
      BY <1>k, <2>1, <2>3 DEF IncStays, InIncomplete
    <2>4. CASE incomplete' = <<>> /\ DOMAIN incomplete = {}
      BY <1>k, <2>1, <2>4 DEF IncStays, InIncomplete
    <2>5. CASE incomplete' = <<>> /\ o \in CancelCloser
      <3>1. \A e, x : ~InIncomplete(e, x)'
        BY <2>5 DEF InIncomplete
      <3>2. \A e : Lost(e)'
        BY <2>2, <2>5 DEF Lost
      <3> QED
        BY <1>c, <2>1, <3>1, <3>2 DEF Kept, At, BatchStays, EnqStays, QueueStays, DeqStays, GotStays
    <2> QED
      BY <2>2, <2>3, <2>4, <2>5 DEF Cleared
  <1>6. ASSUME NEW o \in Closer, CloseEnds(o) PROVE WhereInv'
    <2>1. elements' = elements /\ BatchStays /\ EnqStays /\ QueueStays /\ DeqStays /\ GotStays
      BY <1>6, <1>0, <1>s DEF CloseEnds, BatchStays, InBatch, EnqStays, InEnqueue, QueueStays, InQueue, DeqStays, InDequeue, GotStays, InGot, TypeOKOps
    <2>2. incomplete' = Cleared(o \in CancelCloser \/ DOMAIN incomplete = {}) /\ (o \in CancelCloser => queue_cancelled')
      BY <1>6 DEF CloseEnds
    <2>3. CASE incomplete' = incomplete
      BY <1>k, <2>1, <2>3 DEF IncStays, InIncomplete
    <2>4. CASE incomplete' = <<>> /\ DOMAIN incomplete = {}
      BY <1>k, <2>1, <2>4 DEF IncStays, InIncomplete
    <2>5. CASE incomplete' = <<>> /\ o \in CancelCloser
      <3>1. \A e, x : ~InIncomplete(e, x)'
        BY <2>5 DEF InIncomplete
      <3>2. \A e : Lost(e)'
        BY <2>2, <2>5 DEF Lost
      <3> QED
        BY <1>c, <2>1, <3>1, <3>2 DEF Kept, At, BatchStays, EnqStays, QueueStays, DeqStays, GotStays
    <2> QED
      BY <2>2, <2>3, <2>4, <2>5 DEF Cleared
  <1>7. ASSUME NEW o \in Closer, CloseForgets(o) PROVE WhereInv'
    <2>1. elements' = elements /\ BatchStays /\ EnqStays /\ QueueStays /\ DeqStays /\ GotStays
      BY <1>7, <1>0, <1>s DEF CloseForgets, BatchStays, InBatch, EnqStays, InEnqueue, QueueStays, InQueue, DeqStays, InDequeue, GotStays, InGot, TypeOKOps
    <2>2. incomplete' = Cleared(o \in CancelCloser \/ DOMAIN incomplete = {}) /\ (o \in CancelCloser => queue_cancelled')
      BY <1>7 DEF CloseForgets
    <2>3. CASE incomplete' = incomplete
      BY <1>k, <2>1, <2>3 DEF IncStays, InIncomplete
    <2>4. CASE incomplete' = <<>> /\ DOMAIN incomplete = {}
      BY <1>k, <2>1, <2>4 DEF IncStays, InIncomplete
    <2>5. CASE incomplete' = <<>> /\ o \in CancelCloser
      <3>1. \A e, x : ~InIncomplete(e, x)'
        BY <2>5 DEF InIncomplete
      <3>2. \A e : Lost(e)'
        BY <2>2, <2>5 DEF Lost
      <3> QED
        BY <1>c, <2>1, <3>1, <3>2 DEF Kept, At, BatchStays, EnqStays, QueueStays, DeqStays, GotStays
    <2> QED
      BY <2>2, <2>3, <2>4, <2>5 DEF Cleared
  <1>8. ASSUME NEW o \in Inserter, AppendEnqueue(o) PROVE WhereInv'
    <2>1. elements' = elements /\ IncStays /\ QueueStays /\ DeqStays /\ GotStays
      BY <1>8, <1>0, <1>s DEF AppendEnqueue, IncStays, InIncomplete, QueueStays, InQueue, DeqStays, InDequeue, GotStays, InGot, TypeOKOps
    <2>2. PICK a \in EnqueueAttempts : a.op = o /\ a.batch = batch[o] /\ Range(enq') = Range(enq) \cup {a}
      BY <1>8, <1>i, EnqueueComes
    <2>3. /\ pc[o] = "append" /\ \A x \in Inserter : /\ batch'[x] = IF x = o THEN <<>> ELSE batch[x]
                                                     /\ pc'[x] = IF x = o THEN "flush" ELSE pc[x]
      BY <1>8, <1>0, <1>s DEF AppendEnqueue, TypeOKTuples, TypeOKOps
    <2> DEFINE M == Range(batch[o])
    <2>4. \A e, x : InEnqueue(e, x)' <=> InEnqueue(e, x) \/ (x = o /\ e \in M)
      BY <2>2 DEF InEnqueue
    <2>5. (\A e, x : InBatch(e, x)' <=> InBatch(e, x) /\ x # o) /\ \A e : InBatch(e, o) <=> e \in M
      BY <1>8, <2>3 DEF InBatch
    <2> HIDE DEF M
    <2>9. Moved(M, "batch", o, "enq", o)
      <3>1. \A e, l, x : At(e, l, x)' => \/ At(e, l, x) /\ ~(e \in M /\ l = "batch" /\ x = o)
                                         \/ e \in M /\ l = "enq" /\ x = o /\ At(e, "batch", o)
        BY <2>1, <2>4, <2>5 DEF At, IncStays, QueueStays, DeqStays, GotStays
      <3>2. \A e, l, x : At(e, l, x) => At(e, l, x)' \/ (e \in M /\ At(e, "enq", o)')
        BY <2>1, <2>4, <2>5 DEF At, IncStays, QueueStays, DeqStays, GotStays
      <3> QED
        BY <2>1, <3>1, <3>2 DEF Moved
    <2> QED
      BY <1>l, <2>9, MovedWhere
  <1>9. ASSUME NEW o \in Taker, AppendDequeue(o) PROVE WhereInv'
    <2>1. elements' = elements /\ IncStays /\ BatchStays /\ EnqStays /\ QueueStays /\ GotStays
      BY <1>9, <1>0, <1>s DEF AppendDequeue, IncStays, InIncomplete, BatchStays, InBatch, EnqStays, InEnqueue, QueueStays, InQueue, GotStays, InGot, TypeOKOps
    <2>2. PICK a \in DequeueAttempts : a.tuple = <<>> /\ Range(deq') = Range(deq) \cup {a}
      BY <1>9, <1>i, DequeueComes
    <2>3. DeqStays
      BY <2>2, RangeEmpty DEF DeqStays, InDequeue
    <2> QED
      BY <1>k, <2>1, <2>3
  <1>10. ASSUME NEW o \in Closer \ CancelCloser, AppendClose(o) PROVE WhereInv'
    <2>1. elements' = elements /\ IncStays /\ BatchStays /\ QueueStays /\ DeqStays /\ GotStays
      BY <1>10, <1>0, <1>s DEF AppendClose, IncStays, InIncomplete, BatchStays, InBatch, QueueStays, InQueue, DeqStays, InDequeue, GotStays, InGot, TypeOKOps
    <2>2. PICK a \in EnqueueAttempts : a.batch = <<>> /\ Range(enq') = Range(enq) \cup {a}
      BY <1>10, <1>i, CloseComes
    <2>3. EnqStays
      BY <2>2, RangeEmpty DEF EnqStays, InEnqueue
    <2> QED
      BY <1>k, <2>1, <2>3
  <1>11. ASSUME NEW o \in CancelCloser, CancelEnqueues(o) PROVE WhereInv'
    <2>1. elements' = elements /\ IncStays /\ BatchStays /\ QueueStays /\ DeqStays /\ GotStays
      BY <1>11, <1>0, <1>s DEF CancelEnqueues, IncStays, InIncomplete, BatchStays, InBatch, QueueStays, InQueue, DeqStays, InDequeue, GotStays, InGot, TypeOKOps
    <2>2. Range(enq') = {} /\ queue_cancelled'
      BY <1>11, <1>i, RangeEmpty DEF CancelEnqueues, CloseInv
    <2>8. \A e, x : InEnqueue(e, x)' => InEnqueue(e, x)
      BY <2>2 DEF InEnqueue
    <2>9. \A e : Lost(e)'
      BY <2>2 DEF Lost
    <2> QED
      BY <1>c, <2>1, <2>8, <2>9 DEF Kept, At, IncStays, BatchStays, QueueStays, DeqStays, GotStays
  <1>12. ASSUME NEW t \in Thread, Lock(t) PROVE WhereInv'
    <2>1. elements' = elements /\ IncStays /\ BatchStays /\ EnqStays /\ QueueStays /\ DeqStays /\ GotStays
      BY <1>12, <1>0, <1>s DEF Lock, IncStays, InIncomplete, BatchStays, InBatch, EnqStays, InEnqueue, QueueStays, InQueue, DeqStays, InDequeue, GotStays, InGot, TypeOKOps
    <2> QED
      BY <1>k, <2>1
  <1>13. ASSUME NEW t \in Thread, RefuseEnqueue(t) PROVE WhereInv'
    <2>1. elements' = elements /\ IncStays /\ BatchStays /\ QueueStays /\ DeqStays /\ GotStays
      BY <1>13, <1>0, <1>s DEF RefuseEnqueue, IncStays, InIncomplete, BatchStays, InBatch, QueueStays, InQueue, DeqStays, InDequeue, GotStays, InGot, TypeOKOps
    <2>2. PICK h \in Inserter \cup Closer : EnqueueLeft(h, t)
      BY <1>13, <1>0, EnqueueLeaves DEF RefuseEnqueue
    <2>3. \A e, x : InEnqueue(e, x) <=> (x = h /\ e \in Range(Head(enq).batch)) \/ InEnqueue(e, x)'
      BY <1>13, <1>0, <1>a, <2>2, FrontOfEnqueues DEF RefuseEnqueue
    <2>4. h = Head(enq).op /\ Head(enq) \in Range(enq) /\ h \in Thread
      BY <1>s, <2>2 DEF EnqueueLeft
    <2>5. st'[h] = "Cancelled"
      BY <1>13, <1>0, <2>4 DEF RefuseEnqueue, TypeOKOps
    <2>8. \A e, x : InEnqueue(e, x)' => InEnqueue(e, x)
      BY <2>3
    <2>9. \A e, x : InEnqueue(e, x) => InEnqueue(e, x)' \/ Lost(e)'
      <3> SUFFICES ASSUME NEW e, e \in Range(Head(enq).batch) PROVE Lost(e)'
        BY <2>3
      <3>1. h \in Inserter
        BY <1>s, <2>4, RangeEmpty DEF KeyInv
      <3>2. e.key \in Range(Keys[h])
        BY <2>4, <3>1 DEF KeyInv
      <3> QED
        BY <2>5, <3>1, <3>2 DEF Lost
    <2> QED
      BY <1>c, <2>1, <2>8, <2>9 DEF Kept, At, IncStays, BatchStays, QueueStays, DeqStays, GotStays
  <1>14. ASSUME NEW t \in Thread, RunEnqueue(t) PROVE WhereInv'
    <2>1. elements' = elements /\ IncStays /\ BatchStays /\ DeqStays /\ GotStays
      BY <1>14, <1>0, <1>s DEF RunEnqueue, IncStays, InIncomplete, BatchStays, InBatch, DeqStays, InDequeue, GotStays, InGot, TypeOKOps
    <2>2. PICK h \in Inserter \cup Closer : EnqueueLeft(h, t)
      BY <1>14, <1>0, EnqueueLeaves DEF RunEnqueue
    <2> DEFINE M == Range(Head(enq).batch)
    <2>3. /\ \A e, x : InEnqueue(e, x)' => x # h
          /\ \A e, x : InEnqueue(e, x) <=> (x = h /\ e \in M) \/ InEnqueue(e, x)'
      BY <1>14, <1>0, <1>a, <2>2, FrontOfEnqueues DEF RunEnqueue
    <2>4. queue' = queue \cup M
      BY <1>14 DEF RunEnqueue
    <2> HIDE DEF M
    <2>5. \A e, x : InQueue(e, x)' <=> InQueue(e, x) \/ (x = Nobody /\ e \in M)
      BY <2>4 DEF InQueue
    <2>9. Moved(M, "enq", h, "queue", Nobody)
      <3>1. \A e, l, x : At(e, l, x)' => \/ At(e, l, x) /\ ~(e \in M /\ l = "enq" /\ x = h)
                                         \/ e \in M /\ l = "queue" /\ x = Nobody /\ At(e, "enq", h)
        BY <2>1, <2>3, <2>5 DEF At, IncStays, BatchStays, DeqStays, GotStays
      <3>2. \A e, l, x : At(e, l, x) => At(e, l, x)' \/ (e \in M /\ At(e, "queue", Nobody)')
        BY <2>1, <2>3, <2>5 DEF At, IncStays, BatchStays, DeqStays, GotStays
      <3> QED
        BY <2>1, <3>1, <3>2 DEF Moved
    <2> QED
      BY <1>l, <2>9, MovedWhere
  <1>15. ASSUME NEW t \in Thread, FailDequeue(t) PROVE WhereInv'
    <2>1. elements' = elements /\ IncStays /\ BatchStays /\ EnqStays /\ QueueStays /\ GotStays
      BY <1>15, <1>0, <1>s DEF FailDequeue, IncStays, InIncomplete, BatchStays, InBatch, EnqStays, InEnqueue, QueueStays, InQueue, GotStays, InGot, TypeOKOps
    <2>2. PICK h \in Taker : DequeueLeft(h, t)
      BY <1>15, <1>0, DequeueLeaves DEF FailDequeue
    <2>3. \A e, x : InDequeue(e, x) <=> (x = h /\ e \in Range(Head(deq).tuple)) \/ InDequeue(e, x)'
      BY <2>2, FrontOfDequeues
    <2>4. h = Head(deq).op /\ Head(deq) \in Range(deq) /\ h \in Thread
      BY <1>s, <2>2 DEF DequeueLeft
    <2>5. st'[h] = "OutOfRange"
      BY <1>15, <1>0, <2>4 DEF FailDequeue, TypeOKOps
    <2>8. \A e, x : InDequeue(e, x)' => InDequeue(e, x)
      BY <2>3
    <2>9. \A e, x : InDequeue(e, x) => InDequeue(e, x)' \/ Lost(e)'
      <3> SUFFICES ASSUME NEW e, e \in Range(Head(deq).tuple) PROVE Lost(e)'
        BY <2>3
      <3>1. Head(deq).tuple # <<>>
        BY RangeEmpty
      <3>2. h \in Small
        BY <1>i, <2>4, <3>1 DEF PartialInv
      <3> QED
        BY <2>5, <3>2 DEF Lost
    <2> QED
      BY <1>c, <2>1, <2>8, <2>9 DEF Kept, At, IncStays, BatchStays, EnqStays, QueueStays, GotStays
  <1>16. ASSUME NEW t \in Thread, RunDequeue(t) PROVE WhereInv'
    <2>1. elements' = elements /\ IncStays /\ BatchStays /\ EnqStays
      BY <1>16, <1>0, <1>s DEF RunDequeue, IncStays, InIncomplete, BatchStays, InBatch, EnqStays, InEnqueue, TypeOKOps
    <2>2. PICK h \in Taker : DequeueLeft(h, t)
      BY <1>16, <1>0, DequeueLeaves DEF RunDequeue
    <2>3. \A e, x : InDequeue(e, x) <=> (x = h /\ e \in Range(Head(deq).tuple)) \/ InDequeue(e, x)'
      BY <2>2, FrontOfDequeues
    <2>4. h = Head(deq).op /\ Head(deq) \in Range(deq) /\ h \in Thread /\ h \in Op /\ h \in OpsOf(deq)
      BY <1>s, <2>2 DEF DequeueLeft
    <2>5. PICK s \in Batches(Head(deq).requested) :
            /\ queue' = queue \ Range(s)
            /\ got' = [got EXCEPT ![Head(deq).op] = Head(deq).tuple \o s]
      BY <1>16 DEF RunDequeue
    <2>6. Head(deq).requested \in Nat \ {0} /\ Cardinality(queue) >= Head(deq).requested
      BY <1>16, <1>0, DequeueHead DEF RunDequeue, DequeueAttempts
    <2>7. Head(deq).tuple = <<>>
      <3>1. Cardinality({}) = 0
        BY FS_EmptySet
      <3>2. Cardinality(queue) \in Nat
        BY <1>0, FS_CardinalityType
      <3>3. Cardinality(queue) # 0
        BY <2>6, <3>2
      <3>4. queue # {}
        BY <3>1, <3>3
      <3> QED
        BY <1>i, <2>4, <3>4 DEF PartialInv
    <2>8. s \in Seq(Element) /\ Range(s) \subseteq queue
      <3>1. Head(deq).requested \in Nat /\ queue \in SUBSET Element /\ IsFiniteSet(queue)
        BY <1>0, <2>6 DEF TypeOKTuples
      <3> QED
        BY <2>5, <3>1, BatchFacts
    <2>10. got[h] = <<>>
      <3>1. Waiting(h)
        BY <2>4 DEF Waiting
      <3>2. ~Finished(h)
        BY <1>i, <2>4, <3>1 DEF PlaceInv, PlaceOK, Finished
      <3> QED
        BY <1>i, <3>2 DEF GotInv, GotOK
    <2>11. \A x \in Taker : got'[x] = IF x = h THEN s ELSE got[x]
      <3>1. got \in [Thread -> Seq(Element)]
        BY <1>0 DEF TypeOKTuples
      <3>2. <<>> \o s = s
        BY <2>8
      <3>3. got' = [got EXCEPT ![h] = s]
        BY <2>4, <2>5, <2>7, <3>2
      <3> QED
        BY <1>s, <2>4, <3>1, <3>3
    <2> DEFINE M == Range(s)
    <2>12. \A e, x : InGot(e, x)' <=> InGot(e, x) \/ (x = h /\ e \in M)
      BY <2>10, <2>11, RangeEmpty DEF InGot
    <2>13. DeqStays
      BY <2>3, <2>7, RangeEmpty DEF DeqStays
    <2>14. (\A e, x : InQueue(e, x)' <=> InQueue(e, x) /\ e \notin M) /\ \A e \in M : InQueue(e, Nobody)
      BY <2>5, <2>8 DEF InQueue
    <2>15. \A e, x : InQueue(e, x) => x = Nobody
      BY DEF InQueue
    <2> HIDE DEF M
    <2>9. Moved(M, "queue", Nobody, "got", h)
      <3>1. \A e, l, x : At(e, l, x)' => \/ At(e, l, x) /\ ~(e \in M /\ l = "queue" /\ x = Nobody)
                                         \/ e \in M /\ l = "got" /\ x = h /\ At(e, "queue", Nobody)
        BY <2>1, <2>12, <2>13, <2>14, <2>15 DEF At, IncStays, BatchStays, EnqStays, DeqStays
      <3>2. \A e, l, x : At(e, l, x) => At(e, l, x)' \/ (e \in M /\ At(e, "got", h)')
        BY <2>1, <2>12, <2>13, <2>14, <2>15 DEF At, IncStays, BatchStays, EnqStays, DeqStays
      <3> QED
        BY <2>1, <3>1, <3>2 DEF Moved
    <2> QED
      BY <1>l, <2>9, MovedWhere
  <1>17. ASSUME NEW t \in Thread, RunDequeuePartly(t) PROVE WhereInv'
    <2>1. elements' = elements /\ IncStays /\ BatchStays /\ EnqStays /\ GotStays
      BY <1>17, <1>0, <1>s DEF RunDequeuePartly, IncStays, InIncomplete, BatchStays, InBatch, EnqStays, InEnqueue, GotStays, InGot, TypeOKOps
    <2>2. PICK s \in Batches(Cardinality(queue)), b \in DequeueAttempts :
            /\ queue # {} /\ b.op = Head(deq).op /\ b.tuple = Head(deq).tuple \o s
            /\ Head(deq) \in Range(deq) /\ s \in Seq(Element) /\ Range(s) = queue /\ queue' = {}
            /\ Range(deq) = {Head(deq)} \cup Range(Tail(deq)) /\ Range(deq') = {b} \cup Range(Tail(deq))
      BY <1>17, <1>i, DequeueStays
    <2>3. \A a \in Range(deq) : a.tuple = <<>>
      BY <1>i, <2>2 DEF PartialInv
    <2>4. b.tuple = s
      <3>1. Head(deq).tuple = <<>>
        BY <2>2, <2>3
      <3>2. <<>> \o s = s
        BY <2>2
      <3> QED
        BY <2>2, <3>1, <3>2
    <2> DEFINE M == queue
               h == b.op
    <2>5. \A e, x : ~InDequeue(e, x)
      BY <2>3, RangeEmpty DEF InDequeue
    <2>6. \A e, x : InDequeue(e, x)' <=> x = h /\ e \in M
      <3>1. \A a \in Range(Tail(deq)) : Range(a.tuple) = {}
        BY <2>2, <2>3, RangeEmpty
      <3>2. Range(deq') = {b} \cup Range(Tail(deq)) /\ Range(b.tuple) = M
        BY <2>2, <2>4
      <3> QED
        BY <3>1, <3>2 DEF InDequeue
    <2>7. /\ \A e, x : ~InQueue(e, x)'
          /\ \A e, x : InQueue(e, x) <=> x = Nobody /\ e \in M
      BY <2>2 DEF InQueue
    <2> HIDE DEF M, h
    <2>9. Moved(M, "queue", Nobody, "deq", h)
      <3>1. \A e, l, x : At(e, l, x)' => \/ At(e, l, x) /\ ~(e \in M /\ l = "queue" /\ x = Nobody)
                                         \/ e \in M /\ l = "deq" /\ x = h /\ At(e, "queue", Nobody)
        BY <2>1, <2>5, <2>6, <2>7 DEF At, IncStays, BatchStays, EnqStays, GotStays
      <3>2. \A e, l, x : At(e, l, x) => At(e, l, x)' \/ (e \in M /\ At(e, "deq", h)')
        BY <2>1, <2>5, <2>6, <2>7 DEF At, IncStays, BatchStays, EnqStays, GotStays
      <3> QED
        BY <2>1, <3>1, <3>2 DEF Moved
    <2> QED
      BY <1>l, <2>9, MovedWhere
  <1>18. ASSUME NEW t \in Thread, Unlock(t) PROVE WhereInv'
    <2>1. elements' = elements /\ IncStays /\ BatchStays /\ EnqStays /\ QueueStays /\ DeqStays /\ GotStays
      BY <1>18, <1>0, <1>s DEF Unlock, IncStays, InIncomplete, BatchStays, InBatch, EnqStays, InEnqueue, QueueStays, InQueue, DeqStays, InDequeue, GotStays, InGot, TypeOKOps
    <2> QED
      BY <1>k, <2>1
  <1>19. ASSUME NEW t \in Thread, Callback(t) PROVE WhereInv'
    BY <1>19, <1>u DEF Callback
  <1>20. ASSUME NEW t \in Thread \ CancelCloser, Return(t) PROVE WhereInv'
    <2>1. elements' = elements /\ IncStays /\ BatchStays /\ EnqStays /\ QueueStays /\ DeqStays /\ GotStays
      BY <1>20, <1>0, <1>s DEF Return, IncStays, InIncomplete, BatchStays, InBatch, EnqStays, InEnqueue, QueueStays, InQueue, DeqStays, InDequeue, GotStays, InGot, TypeOKOps
    <2> QED
      BY <1>k, <2>1
  <1>21. ASSUME NEW t \in CancelCloser, ReturnOfClose(t) PROVE WhereInv'
    <2>1. elements' = elements /\ IncStays /\ BatchStays /\ EnqStays /\ QueueStays /\ DeqStays /\ GotStays
      BY <1>21, <1>0, <1>s DEF ReturnOfClose, IncStays, InIncomplete, BatchStays, InBatch, EnqStays, InEnqueue, QueueStays, InQueue, DeqStays, InDequeue, GotStays, InGot, TypeOKOps
    <2> QED
      BY <1>k, <2>1
  <1>22. ASSUME NEW c \in Canceller, CancelAttempt(c) PROVE WhereInv'
    <2>1. elements' = elements /\ IncStays /\ BatchStays /\ QueueStays /\ GotStays
      BY <1>22, <1>0, <1>s DEF CancelAttempt, IncStays, InIncomplete, BatchStays, InBatch, QueueStays, InQueue, GotStays, InGot, TypeOKOps
    <2> DEFINE v == Victim[c]
    <2>2. /\ Range(enq') = {a \in Range(enq) : a.op # v}
          /\ Range(deq') = {a \in Range(deq) : a.op # v}
      BY <1>22, <1>i, AttemptsGo
    <2>3. v \in Thread /\ v \in Inserter \cup Taker
      BY <1>22, <1>s
    <2>4. st'[v] = "Cancelled" /\ queue_mu = Nobody
      BY <1>22, <1>0, <2>3 DEF CancelAttempt, TypeOKOps
    <2> HIDE DEF v
    <2>5. DeqStays
      <3>1. \A a \in Range(deq) : Range(a.tuple) = {}
        BY <1>i, <2>4, RangeEmpty DEF PartialInv
      <3> QED
        BY <2>2, <3>1 DEF DeqStays, InDequeue
    <2>8. \A e, x : InEnqueue(e, x)' => InEnqueue(e, x)
      BY <2>2 DEF InEnqueue
    <2>9. \A e, x : InEnqueue(e, x) => InEnqueue(e, x)' \/ Lost(e)'
      <3> SUFFICES ASSUME NEW a \in Range(enq), NEW e \in Range(a.batch), a.op = v PROVE Lost(e)'
        BY <2>2 DEF InEnqueue
      <3>1. v \in Inserter
        <4>1. a.op \in Inserter \cup Closer
          BY <1>q
        <4> QED
          BY <1>s, <2>3, <4>1
      <3>2. e.key \in Range(Keys[v])
        BY <3>1 DEF KeyInv
      <3> QED
        BY <2>4, <3>1, <3>2 DEF Lost
    <2> QED
      BY <1>c, <2>1, <2>5, <2>8, <2>9 DEF Kept, At, IncStays, BatchStays, QueueStays, DeqStays, GotStays
  <1>23. ASSUME NEW c \in Canceller, CancelNothing(c) PROVE WhereInv'
    <2>1. elements' = elements /\ IncStays /\ BatchStays /\ EnqStays /\ QueueStays /\ DeqStays /\ GotStays
      BY <1>23, <1>0, <1>s DEF CancelNothing, IncStays, InIncomplete, BatchStays, InBatch, EnqStays, InEnqueue, QueueStays, InQueue, DeqStays, InDequeue, GotStays, InGot, TypeOKOps
    <2> QED
      BY <1>k, <2>1
  <1>24. CASE UNCHANGED vars
    BY <1>24, <1>u DEF vars, pqVars, barrierVars
  <1> QED
    BY <1>1, <1>2, <1>3, <1>4, <1>5, <1>6, <1>7, <1>8, <1>9, <1>10, <1>11, <1>12, <1>13, <1>14, <1>15, <1>16, <1>17, <1>18, <1>19, <1>20, <1>21, <1>22, <1>23, <1>24 DEF OneStep

(***************************************************************************)
(* No tuple is lost or in two places.                                      *)
(***************************************************************************)

\* The whole invariant.
WholeInv == TakeInv /\ KeyInv /\ WhereInv

\* It is an invariant of the specification.
LEMMA WholeInvariance == Spec => []WholeInv
  <1>1. Init => KeyInv /\ WhereInv
    <2> SUFFICES ASSUME Init PROVE KeyInv /\ WhereInv
      OBVIOUS
    <2>s. Op \subseteq Thread /\ Taker \subseteq Op
      BY BarrierAssumption, ThreadAssumption, Sorts
    <2>1. /\ elements = {} /\ enq = <<>> /\ deq = <<>> /\ queue = {} /\ DOMAIN incomplete = {}
          /\ \A t \in Thread : got[t] = <<>>
          /\ \A o \in Inserter : batch[o] = <<>>
      BY DEF Init, PQInit
    <2>2. /\ Range(enq) = {} /\ Range(deq) = {}
          /\ \A o \in Inserter : Range(batch[o]) = {}
          /\ \A o \in Taker : Range(got[o]) = {}
      BY <2>s, <2>1, RangeEmpty
    <2>3. KeyInv
      BY <2>2 DEF KeyInv
    <2>4. \A e, k, x : ~At(e, k, x)
      BY <2>1, <2>2 DEF At, InIncomplete, InBatch, InEnqueue, InQueue, InDequeue, InGot
    <2>5. WhereInv
      BY <2>1, <2>4 DEF WhereInv
    <2> QED
      BY <2>3, <2>5
  <1>2. TakeInv /\ KeyInv /\ WhereInv /\ [Next]_vars => KeyInv' /\ WhereInv'
    <2> SUFFICES ASSUME TakeInv, KeyInv, WhereInv, [Next]_vars
                 PROVE  KeyInv' /\ WhereInv'
      OBVIOUS
    <2>1. CoreInv /\ TypeInv
      BY DEF TakeInv, DoneInv, CoreInv
    <2>2. OneStep \/ UNCHANGED vars
      BY <2>1, BarrierAssumption, CoreCases
    <2>3. KeyInv'
      BY BarrierAssumption, ThreadAssumption, <2>1, <2>2, KeyInvStep
    <2>4. WhereInv'
      BY BarrierAssumption, ThreadAssumption, <2>2, WhereInvStep
    <2> QED
      BY <2>3, <2>4
  <1> QED
    BY <1>1, <1>2, TakeInvariance, PTL DEF Spec, WholeInv

\* A tuple is in some place of a kind.
Somewhere(e, kind) == \E x : At(e, kind, x)

\* It is in as many places of each kind as that says.
LEMMA PlacesOfKinds ==
  ASSUME BarrierAssumption, ThreadAssumption, TypeInv, AttemptsApart, WhereInv, NEW e
  PROVE  /\ Count({k \in DOMAIN incomplete : incomplete[k].element = e}) = Bit(Somewhere(e, "inc"))
         /\ Count({o \in Inserter : e \in Range(batch[o]) /\ pc[o] = "append"}) = Bit(Somewhere(e, "batch"))
         /\ Count({i \in 1..Len(enq) : e \in Range(enq[i].batch)}) = Bit(Somewhere(e, "enq"))
         /\ Count({x \in queue : x = e}) = Bit(Somewhere(e, "queue"))
         /\ Count({i \in 1..Len(deq) : e \in Range(deq[i].tuple)}) = Bit(Somewhere(e, "deq"))
         /\ Count({o \in Taker : e \in Range(got[o])}) = Bit(Somewhere(e, "got"))
  <1>w. \A k, x, y : At(e, k, x) /\ At(e, k, y) => x = y
    BY DEF WhereInv
  <1>t. /\ enq \in Seq(EnqueueAttempts) /\ deq \in Seq(DequeueAttempts)
        /\ OpsApart(enq) /\ OpsApart(deq)
    BY DEF AttemptsApart, TypeInv, TypeOK, TypeOKAttempts
  <1>1. Count({k \in DOMAIN incomplete : incomplete[k].element = e}) = Bit(Somewhere(e, "inc"))
    <2> DEFINE S == {k \in DOMAIN incomplete : incomplete[k].element = e}
    <2>1. \A x : x \in S <=> At(e, "inc", x)
      BY DEF At, InIncomplete
    <2>2. \A x, y \in S : x = y
      BY <1>w, <2>1
    <2>3. (\E x \in S : TRUE) <=> Somewhere(e, "inc")
      BY <2>1 DEF Somewhere
    <2> HIDE DEF S
    <2>4. Count(S) = Bit(\E x \in S : TRUE)
      BY <2>2, CountOne
    <2>5. Count(S) = Bit(Somewhere(e, "inc"))
      BY <2>3, <2>4 DEF Bit
    <2> QED
      BY <2>5 DEF S
  <1>2. Count({o \in Inserter : e \in Range(batch[o]) /\ pc[o] = "append"}) = Bit(Somewhere(e, "batch"))
    <2> DEFINE S == {o \in Inserter : e \in Range(batch[o]) /\ pc[o] = "append"}
    <2>1. \A x : x \in S <=> At(e, "batch", x)
      BY DEF At, InBatch
    <2>2. \A x, y \in S : x = y
      BY <1>w, <2>1
    <2>3. (\E x \in S : TRUE) <=> Somewhere(e, "batch")
      BY <2>1 DEF Somewhere
    <2> HIDE DEF S
    <2>4. Count(S) = Bit(\E x \in S : TRUE)
      BY <2>2, CountOne
    <2>5. Count(S) = Bit(Somewhere(e, "batch"))
      BY <2>3, <2>4 DEF Bit
    <2> QED
      BY <2>5 DEF S
  <1>3. Count({i \in 1..Len(enq) : e \in Range(enq[i].batch)}) = Bit(Somewhere(e, "enq"))
    <2> DEFINE S == {i \in 1..Len(enq) : e \in Range(enq[i].batch)}
    <2>1. \A i \in S : enq[i] \in Range(enq) /\ At(e, "enq", enq[i].op)
      <3>1. \A i \in 1..Len(enq) : enq[i] \in Range(enq)
        BY <1>t, RangeSeq
      <3> QED
        BY <3>1 DEF At, InEnqueue
    <2>2. ASSUME NEW i \in S, NEW j \in S PROVE i = j
      <3>1. enq[i].op = enq[j].op
        BY <1>w, <2>1
      <3>2. enq[i] = enq[j]
        BY <1>t, <2>1, <3>1 DEF OpsApart
      <3> QED
        BY <1>t, <3>2 DEF OpsApart, Distinct
    <2>3. (\E i \in S : TRUE) <=> Somewhere(e, "enq")
      <3>1. Somewhere(e, "enq") <=> \E a \in Range(enq) : e \in Range(a.batch)
        BY DEF Somewhere, At, InEnqueue
      <3>2. Range(enq) = {enq[i] : i \in 1..Len(enq)}
        BY <1>t, RangeSeq
      <3> QED
        BY <3>1, <3>2
    <2> HIDE DEF S
    <2>4. Count(S) = Bit(\E x \in S : TRUE)
      BY <2>2, CountOne
    <2>5. Count(S) = Bit(Somewhere(e, "enq"))
      BY <2>3, <2>4 DEF Bit
    <2> QED
      BY <2>5 DEF S
  <1>4. Count({x \in queue : x = e}) = Bit(Somewhere(e, "queue"))
    <2> DEFINE S == {x \in queue : x = e}
    <2>2. \A x, y \in S : x = y
      OBVIOUS
    <2>3. (\E x \in S : TRUE) <=> Somewhere(e, "queue")
      BY DEF Somewhere, At, InQueue
    <2> HIDE DEF S
    <2>4. Count(S) = Bit(\E x \in S : TRUE)
      BY <2>2, CountOne
    <2>5. Count(S) = Bit(Somewhere(e, "queue"))
      BY <2>3, <2>4 DEF Bit
    <2> QED
      BY <2>5 DEF S
  <1>5. Count({i \in 1..Len(deq) : e \in Range(deq[i].tuple)}) = Bit(Somewhere(e, "deq"))
    <2> DEFINE S == {i \in 1..Len(deq) : e \in Range(deq[i].tuple)}
    <2>1. \A i \in S : deq[i] \in Range(deq) /\ At(e, "deq", deq[i].op)
      <3>1. \A i \in 1..Len(deq) : deq[i] \in Range(deq)
        BY <1>t, RangeSeq
      <3> QED
        BY <3>1 DEF At, InDequeue
    <2>2. ASSUME NEW i \in S, NEW j \in S PROVE i = j
      <3>1. deq[i].op = deq[j].op
        BY <1>w, <2>1
      <3>2. deq[i] = deq[j]
        BY <1>t, <2>1, <3>1 DEF OpsApart
      <3> QED
        BY <1>t, <3>2 DEF OpsApart, Distinct
    <2>3. (\E i \in S : TRUE) <=> Somewhere(e, "deq")
      <3>1. Somewhere(e, "deq") <=> \E a \in Range(deq) : e \in Range(a.tuple)
        BY DEF Somewhere, At, InDequeue
      <3>2. Range(deq) = {deq[i] : i \in 1..Len(deq)}
        BY <1>t, RangeSeq
      <3> QED
        BY <3>1, <3>2
    <2> HIDE DEF S
    <2>4. Count(S) = Bit(\E x \in S : TRUE)
      BY <2>2, CountOne
    <2>5. Count(S) = Bit(Somewhere(e, "deq"))
      BY <2>3, <2>4 DEF Bit
    <2> QED
      BY <2>5 DEF S
  <1>6. Count({o \in Taker : e \in Range(got[o])}) = Bit(Somewhere(e, "got"))
    <2> DEFINE S == {o \in Taker : e \in Range(got[o])}
    <2>1. \A x : x \in S <=> At(e, "got", x)
      BY DEF At, InGot
    <2>2. \A x, y \in S : x = y
      BY <1>w, <2>1
    <2>3. (\E x \in S : TRUE) <=> Somewhere(e, "got")
      BY <2>1 DEF Somewhere
    <2> HIDE DEF S
    <2>4. Count(S) = Bit(\E x \in S : TRUE)
      BY <2>2, CountOne
    <2>5. Count(S) = Bit(Somewhere(e, "got"))
      BY <2>3, <2>4 DEF Bit
    <2> QED
      BY <2>5 DEF S
  <1> QED
    BY <1>1, <1>2, <1>3, <1>4, <1>5, <1>6

\* Every tuple is in exactly one place, or gone because an InsertMany of its key
\* failed, a Close cancelled, or a TakeMany that accepts a small batch failed.
THEOREM EveryTupleAccountedFor == Spec => []TuplesAccountedFor
  <1>1. WholeInv => TuplesAccountedFor
    <2> SUFFICES ASSUME WholeInv PROVE TuplesAccountedFor
      OBVIOUS
    <2>1. TypeInv /\ AttemptsApart /\ WhereInv
      BY DEF WholeInv, TakeInv, DoneInv, CoreInv
    <2>2. TypeOK /\ IncompleteIsIncomplete
      BY <2>1 DEF TypeInv, TupleInv
    <2>3. ASSUME NEW e \in elements
          PROVE  \/ Places(e) = 1
                 \/ Places(e) = 0 /\ Lost(e)
      <3> DEFINE A == Somewhere(e, "inc")
                 B == Somewhere(e, "batch")
                 C == Somewhere(e, "enq")
                 D == Somewhere(e, "queue")
                 E == Somewhere(e, "deq")
                 F == Somewhere(e, "got")
      <3>1. Places(e) = Bit(A) + Bit(B) + Bit(C) + Bit(D) + Bit(E) + Bit(F)
        BY <2>1, BarrierAssumption, ThreadAssumption, PlacesOfKinds DEF Places
      <3>2. \A j, k : Somewhere(e, j) /\ Somewhere(e, k) => j = k
        BY <2>1 DEF WhereInv, Somewhere
      <3>3. Lost(e) \/ A \/ B \/ C \/ D \/ E \/ F
        BY <2>1 DEF WhereInv, Somewhere, At
      <3>4. /\ ~(A /\ B) /\ ~(A /\ C) /\ ~(A /\ D) /\ ~(A /\ E) /\ ~(A /\ F)
            /\ ~(B /\ C) /\ ~(B /\ D) /\ ~(B /\ E) /\ ~(B /\ F)
            /\ ~(C /\ D) /\ ~(C /\ E) /\ ~(C /\ F)
            /\ ~(D /\ E) /\ ~(D /\ F) /\ ~(E /\ F)
        BY <3>2
      <3> HIDE DEF A, B, C, D, E, F
      <3>5. CASE A
        <4>1. Bit(A) = 1 /\ Bit(B) = 0 /\ Bit(C) = 0 /\ Bit(D) = 0 /\ Bit(E) = 0 /\ Bit(F) = 0
          BY <3>4, <3>5 DEF Bit
        <4> QED
          BY <3>1, <4>1
      <3>6. CASE B
        <4>1. Bit(A) = 0 /\ Bit(B) = 1 /\ Bit(C) = 0 /\ Bit(D) = 0 /\ Bit(E) = 0 /\ Bit(F) = 0
          BY <3>4, <3>6 DEF Bit
        <4> QED
          BY <3>1, <4>1
      <3>7. CASE C
        <4>1. Bit(A) = 0 /\ Bit(B) = 0 /\ Bit(C) = 1 /\ Bit(D) = 0 /\ Bit(E) = 0 /\ Bit(F) = 0
          BY <3>4, <3>7 DEF Bit
        <4> QED
          BY <3>1, <4>1
      <3>8. CASE D
        <4>1. Bit(A) = 0 /\ Bit(B) = 0 /\ Bit(C) = 0 /\ Bit(D) = 1 /\ Bit(E) = 0 /\ Bit(F) = 0
          BY <3>4, <3>8 DEF Bit
        <4> QED
          BY <3>1, <4>1
      <3>9. CASE E
        <4>1. Bit(A) = 0 /\ Bit(B) = 0 /\ Bit(C) = 0 /\ Bit(D) = 0 /\ Bit(E) = 1 /\ Bit(F) = 0
          BY <3>4, <3>9 DEF Bit
        <4> QED
          BY <3>1, <4>1
      <3>10. CASE F
        <4>1. Bit(A) = 0 /\ Bit(B) = 0 /\ Bit(C) = 0 /\ Bit(D) = 0 /\ Bit(E) = 0 /\ Bit(F) = 1
          BY <3>4, <3>10 DEF Bit
        <4> QED
          BY <3>1, <4>1
      <3>11. CASE ~(A \/ B \/ C \/ D \/ E \/ F)
        <4>1. Bit(A) = 0 /\ Bit(B) = 0 /\ Bit(C) = 0 /\ Bit(D) = 0 /\ Bit(E) = 0 /\ Bit(F) = 0
          BY <3>11 DEF Bit
        <4> QED
          BY <3>1, <3>3, <3>11, <4>1
      <3> QED
        BY <3>5, <3>6, <3>7, <3>8, <3>9, <3>10, <3>11
    <2>4. AccountedFor
      BY <2>3 DEF AccountedFor, Lost
    <2> QED
      BY <2>2, <2>4 DEF TuplesAccountedFor
  <1> QED
    BY <1>1, WholeInvariance, PTL
=============================================================================
