-------------------------- MODULE RendezvousProofs --------------------------
(***************************************************************************)
(* Proofs about LocalRendezvousImpl, for any number of keys, calls and     *)
(* aborts: its types, the shape of its queues, the finality of an abort    *)
(* and the order of delivery.                                              *)
(***************************************************************************)
EXTENDS Rendezvous, SequenceTheorems, TLAPS

(***************************************************************************)
(* Sequences: what is left of the longer of two.                           *)
(***************************************************************************)

\* The excess is made of elements of the longer sequence.
LEMMA ExcessProperties ==
  ASSUME NEW S, NEW T, NEW a \in Seq(S), NEW b \in Seq(T), Len(b) <= Len(a)
  PROVE  /\ Excess(a, b) \in Seq(S)
         /\ Len(Excess(a, b)) = Len(a) - Len(b)
         /\ \A i \in 1..Len(a) - Len(b) : Excess(a, b)[i] = a[Len(b) + i]
  <1>1. \A i \in Len(b) + 1..Len(a) : a[i] \in S
    OBVIOUS
  <1>2. Len(a) \in Nat /\ Len(b) \in Nat
    OBVIOUS
  <1> QED
    BY <1>1, <1>2, SubSeqProperties DEF Excess

\* Two sequences of the same length have no excess.
LEMMA NoExcess ==
  ASSUME NEW S, NEW T, NEW a \in Seq(S), NEW b \in Seq(T), Len(a) = Len(b)
  PROVE  Excess(a, b) = <<>>
  <1>1. Len(a) \in Nat /\ Len(a) < Len(b) + 1
    OBVIOUS
  <1> QED
    BY <1>1, SubSeqEmpty DEF Excess

\* An element appended to the longer sequence is appended to the excess.
LEMMA ExcessAppend ==
  ASSUME NEW S, NEW T, NEW a \in Seq(S), NEW b \in Seq(T), NEW x \in S,
         Len(b) <= Len(a)
  PROVE  Excess(Append(a, x), b) = Append(Excess(a, b), x)
  <1> DEFINE c == Append(a, x)
             l == Excess(c, b)
             r == Append(Excess(a, b), x)
  <1>1. /\ c \in Seq(S) /\ Len(c) = Len(a) + 1 /\ Len(b) <= Len(c)
        /\ Len(a) \in Nat /\ Len(b) \in Nat
        /\ c[Len(a) + 1] = x /\ \A i \in 1..Len(a) : c[i] = a[i]
    OBVIOUS
  <1> HIDE DEF c
  <1>2. /\ l \in Seq(S)
        /\ Len(l) = Len(c) - Len(b)
        /\ \A i \in 1..Len(c) - Len(b) : l[i] = c[Len(b) + i]
    BY <1>1, ExcessProperties
  <1>3. /\ Excess(a, b) \in Seq(S)
        /\ Len(Excess(a, b)) = Len(a) - Len(b)
        /\ \A i \in 1..Len(a) - Len(b) : Excess(a, b)[i] = a[Len(b) + i]
    BY ExcessProperties
  <1>4. /\ r \in Seq(S) /\ Len(r) = Len(a) - Len(b) + 1
        /\ \A i \in 1..Len(a) - Len(b) : r[i] = a[Len(b) + i]
        /\ r[Len(a) - Len(b) + 1] = x
    BY <1>3
  <1> HIDE DEF l, r
  <1>5. ASSUME NEW i \in 1..Len(l) PROVE l[i] = r[i]
    <2>1. CASE i <= Len(a) - Len(b)
      BY <2>1, <1>1, <1>2, <1>4
    <2>2. CASE i = Len(a) - Len(b) + 1
      BY <2>2, <1>1, <1>2, <1>4
    <2> QED
      BY <2>1, <2>2, <1>1, <1>2
  <1>6. l = r
    BY <1>1, <1>2, <1>4, <1>5, SeqEqual
  <1> QED
    BY <1>6 DEF c, l, r

\* The head of the excess.
LEMMA ExcessHead ==
  ASSUME NEW S, NEW T, NEW a \in Seq(S), NEW b \in Seq(T), Len(b) < Len(a)
  PROVE  Excess(a, b) # <<>> /\ Head(Excess(a, b)) = a[Len(b) + 1]
  <1>1. Len(b) + 1 \in 1..Len(a) /\ Len(a) \in Len(b) + 1..Len(a)
    OBVIOUS
  <1>2. Head(Excess(a, b)) = a[Len(b) + 1]
    BY <1>1, HeadTailOfSubSeq DEF Excess
  <1>3. Len(Excess(a, b)) # 0
    BY ExcessProperties
  <1> QED
    BY <1>2, <1>3

\* An element appended to the shorter sequence takes the head off the excess.
LEMMA ExcessTail ==
  ASSUME NEW S, NEW T, NEW a \in Seq(S), NEW b \in Seq(T), NEW y \in T,
         Len(b) < Len(a)
  PROVE  Tail(Excess(a, b)) = Excess(a, Append(b, y))
  <1>1. Len(Append(b, y)) = Len(b) + 1
    OBVIOUS
  <1>2. Len(b) + 1 \in 1..Len(a) /\ Len(a) \in Len(b) + 1..Len(a)
    OBVIOUS
  <1> QED
    BY <1>1, <1>2, HeadTailOfSubSeq DEF Excess

(***************************************************************************)
(* Types.  The type invariant is inductive.                                *)
(***************************************************************************)
\* An empty rendezvous is well typed.
LEMMA InitTypeOK == Init => TypeOK
  <1> SUFFICES ASSUME Init PROVE TypeOK
    OBVIOUS
  <1>1. EmptyTable \in [Key -> Seq(Item)] /\ EmptyTable \in [Key -> Seq(SendId)]
        /\ EmptyTable \in [Key -> Seq(RecvId)]
    BY DEF EmptyTable
  <1>2. NoMsg \in Msg
    BY DEF NoMsg, Msg, Status
  <1>3. TableTypeOK
    BY <1>1 DEF Init, TableTypeOK, Status
  <1>4. SendTypeOK
    BY DEF Init, SendTypeOK, Status
  <1>5. RecvTypeOK
    BY <1>2 DEF Init, RecvTypeOK
  <1>6. AbortTypeOK
    BY <1>1 DEF Init, AbortTypeOK
  <1> QED
    BY <1>3, <1>4, <1>5, <1>6 DEF TypeOK

\* A queue that has an item has one at its head, and goes on without it.
LEMMA HeadOfQueue ==
  ASSUME NEW q \in Seq(Item), q # <<>>
  PROVE  /\ Head(q) \in Item
         /\ Tail(q) \in Seq(Item)
         /\ IsSendValue(Head(q)) => Head(q) \in SendId
         /\ ~IsSendValue(Head(q)) => Head(q) \in RecvId
  <1>1. Head(q) \in Item /\ Tail(q) \in Seq(Item)
    OBVIOUS
  <1> QED
    BY <1>1 DEF Item, IsSendValue

\* Running a done() keeps the types.
LEMMA InvokeDoneType ==
  ASSUME RecvTypeOK, NEW r, NEW m \in Msg, InvokeDone(r, m)
  PROVE  /\ calls' \in [RecvId -> Seq(Msg)]
         /\ ret' \in [RecvId -> Msg \cup {Waiting, DEADLINE_EXCEEDED}]
  <1> DEFINE Ret == Msg \cup {Waiting, DEADLINE_EXCEEDED}
             x == IF r \in SyncRecv /\ ret[r] = Waiting THEN m ELSE ret[r]
  <1> DEFINE log == Append(calls[r], m)
  <1>0. /\ calls \in [RecvId -> Seq(Msg)] /\ calls' = [calls EXCEPT ![r] = log]
        /\ r \in RecvId => log \in Seq(Msg)
    BY DEF RecvTypeOK, InvokeDone
  <1> HIDE DEF log
  <1>1. calls' \in [RecvId -> Seq(Msg)]
    BY <1>0
  <1>2. ret \in [RecvId -> Ret] /\ ret' = [ret EXCEPT ![r] = x]
    BY DEF RecvTypeOK, InvokeDone
  <1>3. r \in RecvId => x \in Ret
    BY <1>2
  <1> HIDE DEF x, Ret
  <1>4. ret' \in [RecvId -> Ret]
    BY <1>2, <1>3
  <1> QED
    BY <1>1, <1>4 DEF Ret

\* Every critical section and every callback keeps the types.
LEMMA NextTypeOK == TypeOK /\ [Next]_vars => TypeOK'
  <1> SUFFICES ASSUME TypeOK, [Next]_vars PROVE TypeOK'
    OBVIOUS
  <1>t. TableTypeOK /\ SendTypeOK /\ RecvTypeOK /\ AbortTypeOK
    BY DEF TypeOK
  <1>i. SendId \subseteq Item /\ RecvId \subseteq Item
    BY DEF Item
  <1>1. ASSUME NEW s \in SendId, SendAborted(s)
        PROVE  TypeOK'
    <2>1. TableTypeOK'
      BY <1>t, <1>1 DEF TableTypeOK, SendAborted, tableVars
    <2>2. SendTypeOK'
      BY <1>t, <1>1 DEF SendTypeOK, TableTypeOK, SendAborted
    <2>3. RecvTypeOK'
      BY <1>t, <1>1 DEF RecvTypeOK, SendAborted, recvVars
    <2>4. AbortTypeOK'
      BY <1>t, <1>1 DEF AbortTypeOK, SendAborted, abortVars
    <2> QED
      BY <2>1, <2>2, <2>3, <2>4 DEF TypeOK
  <1>2. ASSUME NEW s \in SendId, NEW k \in Key, SendEnqueue(s, k)
        PROVE  TypeOK'
    <2>1. TableTypeOK'
      BY <1>t, <1>2, <1>i DEF TableTypeOK, SendEnqueue, PushBack
    <2>2. SendTypeOK'
      BY <1>t, <1>2 DEF SendTypeOK, SendEnqueue, Status
    <2>3. RecvTypeOK'
      BY <1>t, <1>2 DEF RecvTypeOK, SendEnqueue, recvVars
    <2>4. AbortTypeOK'
      BY <1>t, <1>2 DEF AbortTypeOK, SendEnqueue, abortVars
    <2> QED
      BY <2>1, <2>2, <2>3, <2>4 DEF TypeOK
  <1>3. ASSUME NEW s \in SendId, NEW k \in Key, SendMatch(s, k)
        PROVE  TypeOK'
    <2>1. TableTypeOK'
      BY <1>t, <1>3, HeadOfQueue DEF TableTypeOK, SendMatch, HasWaiter
    <2>2. SendTypeOK'
      BY <1>t, <1>3, HeadOfQueue DEF SendTypeOK, TableTypeOK, SendMatch, HasWaiter
    <2>3. RecvTypeOK'
      BY <1>t, <1>3 DEF RecvTypeOK, SendMatch, recvVars
    <2>4. AbortTypeOK'
      BY <1>t, <1>3 DEF AbortTypeOK, SendMatch, abortVars
    <2> QED
      BY <2>1, <2>2, <2>3, <2>4 DEF TypeOK
  <1>4. ASSUME NEW s \in SendId, SendNotify(s)
        PROVE  TypeOK'
    <2>1. TableTypeOK'
      BY <1>t, <1>4 DEF TableTypeOK, SendNotify, tableVars
    <2>2. SendTypeOK'
      BY <1>t, <1>4 DEF SendTypeOK, SendNotify, Status
    <2>3. RecvTypeOK'
      <3>1. [status |-> OK, value |-> s] \in Msg
        BY <1>t DEF Msg, Status
      <3>2. /\ calls' \in [RecvId -> Seq(Msg)]
            /\ ret' \in [RecvId -> Msg \cup {Waiting, DEADLINE_EXCEEDED}]
        BY <3>1, <1>t, <1>4, InvokeDoneType DEF SendNotify
      <3> QED
        BY <3>2, <1>t, <1>4 DEF RecvTypeOK, SendNotify
    <2>4. AbortTypeOK'
      BY <1>t, <1>4 DEF AbortTypeOK, SendNotify, abortVars
    <2> QED
      BY <2>1, <2>2, <2>3, <2>4 DEF TypeOK
  <1>5. ASSUME NEW r \in RecvId, RecvAborted(r)
        PROVE  TypeOK'
    <2>1. TableTypeOK'
      BY <1>t, <1>5 DEF TableTypeOK, RecvAborted, tableVars
    <2>2. SendTypeOK'
      BY <1>t, <1>5 DEF SendTypeOK, RecvAborted, sendVars
    <2>3. RecvTypeOK'
      BY <1>t, <1>5 DEF RecvTypeOK, TableTypeOK, RecvAborted, Msg
    <2>4. AbortTypeOK'
      BY <1>t, <1>5 DEF AbortTypeOK, RecvAborted, abortVars
    <2> QED
      BY <2>1, <2>2, <2>3, <2>4 DEF TypeOK
  <1>6. ASSUME NEW r \in RecvId, NEW k \in Key, RecvEnqueue(r, k)
        PROVE  TypeOK'
    <2>1. TableTypeOK'
      BY <1>t, <1>6, <1>i DEF TableTypeOK, RecvEnqueue, PushBack
    <2>2. SendTypeOK'
      BY <1>t, <1>6 DEF SendTypeOK, RecvEnqueue, sendVars
    <2>3. RecvTypeOK'
      BY <1>t, <1>6 DEF RecvTypeOK, RecvEnqueue
    <2>4. AbortTypeOK'
      BY <1>t, <1>6 DEF AbortTypeOK, RecvEnqueue, abortVars
    <2> QED
      BY <2>1, <2>2, <2>3, <2>4 DEF TypeOK
  <1>7. ASSUME NEW r \in RecvId, NEW k \in Key, RecvMatch(r, k)
        PROVE  TypeOK'
    <2>1. TableTypeOK'
      BY <1>t, <1>7, HeadOfQueue DEF TableTypeOK, RecvMatch, HasMessage
    <2>2. SendTypeOK'
      BY <1>t, <1>7 DEF SendTypeOK, RecvMatch, sendVars
    <2>3. RecvTypeOK'
      BY <1>t, <1>7, HeadOfQueue DEF RecvTypeOK, TableTypeOK, RecvMatch, HasMessage, Msg, Status
    <2>4. AbortTypeOK'
      BY <1>t, <1>7 DEF AbortTypeOK, RecvMatch, abortVars
    <2> QED
      BY <2>1, <2>2, <2>3, <2>4 DEF TypeOK
  <1>8. ASSUME NEW r \in RecvId, RecvDeliver(r)
        PROVE  TypeOK'
    <2>1. TableTypeOK'
      BY <1>t, <1>8 DEF TableTypeOK, RecvDeliver, tableVars
    <2>2. SendTypeOK'
      BY <1>t, <1>8 DEF SendTypeOK, RecvDeliver, sendVars
    <2>3. RecvTypeOK'
      <3>1. item[r] \in Msg
        BY <1>t DEF RecvTypeOK
      <3>2. /\ calls' \in [RecvId -> Seq(Msg)]
            /\ ret' \in [RecvId -> Msg \cup {Waiting, DEADLINE_EXCEEDED}]
        BY <3>1, <1>t, <1>8, InvokeDoneType DEF RecvDeliver
      <3> QED
        BY <3>2, <1>t, <1>8 DEF RecvTypeOK, RecvDeliver
    <2>4. AbortTypeOK'
      BY <1>t, <1>8 DEF AbortTypeOK, RecvDeliver, abortVars
    <2> QED
      BY <2>1, <2>2, <2>3, <2>4 DEF TypeOK
  <1>9. ASSUME NEW r \in RecvId, RecvTimeout(r)
        PROVE  TypeOK'
    <2>1. TableTypeOK'
      BY <1>t, <1>9 DEF TableTypeOK, RecvTimeout, tableVars
    <2>2. SendTypeOK'
      BY <1>t, <1>9 DEF SendTypeOK, RecvTimeout, sendVars
    <2>3. RecvTypeOK'
      BY <1>t, <1>9 DEF RecvTypeOK, RecvTimeout
    <2>4. AbortTypeOK'
      BY <1>t, <1>9 DEF AbortTypeOK, RecvTimeout, abortVars
    <2> QED
      BY <2>1, <2>2, <2>3, <2>4 DEF TypeOK
  <1>10. ASSUME NEW a \in AbortId, StartAbort(a)
        PROVE  TypeOK'
    <2>1. TableTypeOK'
      BY <1>t, <1>10 DEF TableTypeOK, StartAbort, AbortSwap, FirstStatus, EmptyTable, Status
    <2>2. SendTypeOK'
      BY <1>t, <1>10 DEF SendTypeOK, StartAbort, AbortSwap, sendVars
    <2>3. RecvTypeOK'
      BY <1>t, <1>10 DEF RecvTypeOK, StartAbort, AbortSwap, recvVars
    <2>4. AbortTypeOK'
      BY <1>t, <1>10 DEF TableTypeOK, AbortTypeOK, StartAbort, AbortSwap
    <2> QED
      BY <2>1, <2>2, <2>3, <2>4 DEF TypeOK
  <1>11. ASSUME NEW a \in AbortId, Delete(a)
        PROVE  TypeOK'
    <2>1. TableTypeOK'
      BY <1>t, <1>11 DEF TableTypeOK, Delete, AbortSwap, FirstStatus, EmptyTable, Status
    <2>2. SendTypeOK'
      BY <1>t, <1>11 DEF SendTypeOK, Delete, AbortSwap, sendVars
    <2>3. RecvTypeOK'
      BY <1>t, <1>11 DEF RecvTypeOK, Delete, AbortSwap, recvVars
    <2>4. AbortTypeOK'
      BY <1>t, <1>11 DEF TableTypeOK, AbortTypeOK, Delete, AbortSwap
    <2> QED
      BY <2>1, <2>2, <2>3, <2>4 DEF TypeOK
  <1>12. ASSUME NEW a \in AbortId, NEW k \in Key, AbortItem(a, k)
        PROVE  TypeOK'
    <2>1. TableTypeOK'
      BY <1>t, <1>12 DEF TableTypeOK, AbortItem, tableVars
    <2>2. SendTypeOK'
      BY <1>t, <1>12 DEF SendTypeOK, AbortItem, sendVars
    <2>3. RecvTypeOK'
      <3>1. [status |-> a, value |-> NoTensor] \in Msg
        BY DEF Msg, Status
      <3>2. /\ calls' \in [RecvId -> Seq(Msg)]
            /\ ret' \in [RecvId -> Msg \cup {Waiting, DEADLINE_EXCEEDED}]
        <4>1. CASE IsSendValue(Head(taken[a][k]))
          BY <4>1, <1>t, <1>12 DEF RecvTypeOK, AbortItem
        <4>2. CASE ~IsSendValue(Head(taken[a][k]))
          BY <4>2, <3>1, <1>t, <1>12, InvokeDoneType DEF AbortItem
        <4> QED
          BY <4>1, <4>2
      <3> QED
        BY <3>2, <1>t, <1>12 DEF RecvTypeOK, AbortItem
    <2>4. AbortTypeOK'
      BY <1>t, <1>12, HeadOfQueue DEF AbortTypeOK, AbortItem
    <2> QED
      BY <2>1, <2>2, <2>3, <2>4 DEF TypeOK
  <1>13. ASSUME NEW a \in AbortId, AbortReturn(a)
        PROVE  TypeOK'
    <2>1. TableTypeOK'
      BY <1>t, <1>13 DEF TableTypeOK, AbortReturn, tableVars
    <2>2. SendTypeOK'
      BY <1>t, <1>13 DEF SendTypeOK, AbortReturn, sendVars
    <2>3. RecvTypeOK'
      BY <1>t, <1>13 DEF RecvTypeOK, AbortReturn, recvVars
    <2>4. AbortTypeOK'
      BY <1>t, <1>13 DEF AbortTypeOK, AbortReturn
    <2> QED
      BY <2>1, <2>2, <2>3, <2>4 DEF TypeOK
  <1>14. CASE UNCHANGED vars
    BY <1>14 DEF vars, tableVars, sendVars, recvVars, abortVars, TypeOK, TableTypeOK, SendTypeOK, RecvTypeOK, AbortTypeOK
  <1> QED
    BY <1>1, <1>2, <1>3, <1>4, <1>5, <1>6, <1>7, <1>8, <1>9, <1>10, <1>11, <1>12, <1>13, <1>14
       DEF Next, SendStep, RecvStep, AbortStep

\* The state of the rendezvous keeps its types; in particular only waiters are
\* notified, and only messages delivered.
THEOREM TypeCorrect == Spec => []TypeOK
  BY InitTypeOK, NextTypeOK, PTL DEF Spec

(***************************************************************************)
(* The queues.                                                             *)
(***************************************************************************)

\* The unmatched calls of key k, as QueueIsUnmatchedRest has them.
Rest(k) == IF Len(sent[k]) >= Len(asked[k]) THEN Excess(sent[k], asked[k])
                                            ELSE Excess(asked[k], sent[k])

\* After an abort the table is empty.
AbortedIsEmpty == status # OK => table = EmptyTable

QueueInv == QueueIsUnmatchedRest /\ AbortedIsEmpty

\* What the head of a queue says about the calls so far.
LEMMA QueueView ==
  ASSUME TypeOK, QueueInv, status = OK, NEW k \in Key
  PROVE  /\ table[k] = Rest(k)
         /\ HasWaiter(k) <=> Len(sent[k]) < Len(asked[k])
         /\ HasMessage(k) <=> Len(asked[k]) < Len(sent[k])
         /\ HasWaiter(k) => Head(table[k]) = asked[k][Len(sent[k]) + 1]
         /\ HasMessage(k) => Head(table[k]) = sent[k][Len(asked[k]) + 1]
  <1> DEFINE S == sent[k]  A == asked[k]
  <1>1. S \in Seq(SendId) /\ A \in Seq(RecvId)
    BY DEF TypeOK, TableTypeOK
  <1>2. Len(S) \in Nat /\ Len(A) \in Nat
    BY <1>1
  <1>3. table[k] = Rest(k)
    BY DEF QueueInv, QueueIsUnmatchedRest, Rest
  <1>4. CASE Len(S) < Len(A)
    <2>1. table[k] = Excess(A, S)
      BY <1>2, <1>3, <1>4 DEF Rest
    <2>2. table[k] # <<>> /\ Head(table[k]) = A[Len(S) + 1]
      BY <1>1, <1>4, <2>1, ExcessHead
    <2>3. A[Len(S) + 1] \in RecvId
      BY <1>1, <1>4
    <2> QED
      BY <1>2, <1>3, <1>4, <2>2, <2>3, CallAssumption DEF HasWaiter, HasMessage, IsSendValue
  <1>5. CASE Len(A) < Len(S)
    <2>1. table[k] = Excess(S, A)
      BY <1>2, <1>3, <1>5 DEF Rest
    <2>2. table[k] # <<>> /\ Head(table[k]) = S[Len(A) + 1]
      BY <1>1, <1>5, <2>1, ExcessHead
    <2>3. S[Len(A) + 1] \in SendId
      BY <1>1, <1>5
    <2> QED
      BY <1>2, <1>3, <1>5, <2>2, <2>3 DEF HasWaiter, HasMessage, IsSendValue
  <1>6. CASE Len(A) = Len(S)
    <2>1. table[k] = <<>>
      BY <1>1, <1>2, <1>3, <1>6, NoExcess DEF Rest
    <2> QED
      BY <1>2, <1>3, <1>6, <2>1 DEF HasWaiter, HasMessage
  <1> QED
    BY <1>2, <1>4, <1>5, <1>6

\* The queues of an empty rendezvous hold nothing.
LEMMA InitQueueInv == Init => QueueInv
  <1> SUFFICES ASSUME Init PROVE QueueInv
    OBVIOUS
  <1>1. ASSUME NEW k \in Key PROVE table[k] = <<>> /\ sent[k] = <<>> /\ asked[k] = <<>>
    BY DEF Init, EmptyTable
  <1>2. Excess(<<>>, <<>>) = <<>>
    BY NoExcess, EmptySeq
  <1> QED
    BY <1>1, <1>2 DEF Init, QueueInv, QueueIsUnmatchedRest, AbortedIsEmpty

\* A step that leaves the table alone leaves the queues as they are.
LEMMA QueueUnchanged ==
  ASSUME QueueInv, UNCHANGED tableVars
  PROVE  QueueInv'
  BY DEF QueueInv, QueueIsUnmatchedRest, AbortedIsEmpty, tableVars, EmptyTable, Excess

\* Only the queue of one key changes.
LEMMA OneQueue ==
  ASSUME TypeOK, QueueInv, status = OK, status' = OK, NEW k \in Key,
         \A j \in Key \ {k} :
            table'[j] = table[j] /\ sent'[j] = sent[j] /\ asked'[j] = asked[j],
         table'[k] = Rest(k)'
  PROVE  QueueInv'
  <1>1. ASSUME NEW j \in Key PROVE table'[j] = Rest(j)'
    <2>1. CASE j = k
      BY <2>1
    <2>2. CASE j # k
      BY <2>2, QueueView DEF Rest
    <2> QED
      BY <2>1, <2>2
  <1> QED
    BY <1>1 DEF QueueInv, QueueIsUnmatchedRest, AbortedIsEmpty, Rest

\* Send, RecvAsync and StartAbort keep each queue the unmatched rest.
LEMMA NextQueueInv == TypeOK /\ QueueInv /\ [Next]_vars => QueueInv'
  <1> SUFFICES ASSUME TypeOK, QueueInv, [Next]_vars PROVE QueueInv'
    OBVIOUS
  <1>t. /\ table \in [Key -> Seq(Item)]
        /\ sent \in [Key -> Seq(SendId)] /\ asked \in [Key -> Seq(RecvId)]
        /\ \A k \in Key : Len(sent[k]) \in Nat /\ Len(asked[k]) \in Nat
    BY DEF TypeOK, TableTypeOK
  <1>1. ASSUME NEW s \in SendId, NEW k \in Key, SendEnqueue(s, k)
        PROVE  QueueInv'
    <2>1. Len(asked[k]) <= Len(sent[k]) /\ table[k] = Excess(sent[k], asked[k])
      BY <1>t, <1>1, QueueView DEF SendEnqueue, Rest
    <2>2. /\ sent'[k] = Append(sent[k], s) /\ asked'[k] = asked[k]
          /\ table'[k] = Append(table[k], s)
      BY <1>t, <1>1 DEF SendEnqueue, PushBack
    <2>3. table'[k] = Excess(sent'[k], asked'[k])
      BY <1>t, <2>1, <2>2, ExcessAppend
    <2>4. Len(sent'[k]) = Len(sent[k]) + 1
      BY <1>t, <2>2
    <2>5. table'[k] = Rest(k)'
      BY <1>t, <2>1, <2>2, <2>3, <2>4 DEF Rest
    <2> QED
      BY <1>t, <1>1, <2>5, OneQueue DEF SendEnqueue
  <1>2. ASSUME NEW s \in SendId, NEW k \in Key, SendMatch(s, k)
        PROVE  QueueInv'
    <2>1. Len(sent[k]) < Len(asked[k]) /\ table[k] = Excess(asked[k], sent[k])
      BY <1>t, <1>2, QueueView DEF SendMatch, Rest
    <2>2. /\ sent'[k] = Append(sent[k], s) /\ asked'[k] = asked[k]
          /\ table'[k] = Tail(table[k])
      BY <1>t, <1>2 DEF SendMatch
    <2>3. table'[k] = Excess(asked'[k], sent'[k])
      BY <1>t, <2>1, <2>2, ExcessTail
    <2>4. sent'[k] \in Seq(SendId) /\ Len(sent'[k]) = Len(sent[k]) + 1
      BY <1>t, <2>2
    <2>5. Len(sent'[k]) = Len(asked'[k]) =>
             Excess(asked'[k], sent'[k]) = <<>> /\ Excess(sent'[k], asked'[k]) = <<>>
      BY <1>t, <2>2, <2>4, NoExcess
    <2>6. table'[k] = Rest(k)'
      BY <1>t, <2>1, <2>2, <2>3, <2>4, <2>5 DEF Rest
    <2> QED
      BY <1>t, <1>2, <2>6, OneQueue DEF SendMatch
  <1>3. ASSUME NEW r \in RecvId, NEW k \in Key, RecvEnqueue(r, k)
        PROVE  QueueInv'
    <2>1. /\ Len(sent[k]) <= Len(asked[k])
          /\ table[k] = Excess(asked[k], sent[k])
      <3>1. Len(sent[k]) = Len(asked[k]) =>
               Excess(asked[k], sent[k]) = <<>> /\ Excess(sent[k], asked[k]) = <<>>
        BY <1>t, NoExcess
      <3> QED
        BY <1>t, <1>3, <3>1, QueueView DEF RecvEnqueue, Rest
    <2>2. /\ asked'[k] = Append(asked[k], r) /\ sent'[k] = sent[k]
          /\ table'[k] = Append(table[k], r)
      BY <1>t, <1>3 DEF RecvEnqueue, PushBack
    <2>3. table'[k] = Excess(asked'[k], sent'[k])
      BY <1>t, <2>1, <2>2, ExcessAppend
    <2>4. Len(asked'[k]) = Len(asked[k]) + 1
      BY <1>t, <2>2
    <2>5. table'[k] = Rest(k)'
      BY <1>t, <2>1, <2>2, <2>3, <2>4 DEF Rest
    <2> QED
      BY <1>t, <1>3, <2>5, OneQueue DEF RecvEnqueue
  <1>4. ASSUME NEW r \in RecvId, NEW k \in Key, RecvMatch(r, k)
        PROVE  QueueInv'
    <2>1. Len(asked[k]) < Len(sent[k]) /\ table[k] = Excess(sent[k], asked[k])
      BY <1>t, <1>4, QueueView DEF RecvMatch, Rest
    <2>2. /\ asked'[k] = Append(asked[k], r) /\ sent'[k] = sent[k]
          /\ table'[k] = Tail(table[k])
      BY <1>t, <1>4 DEF RecvMatch
    <2>3. table'[k] = Excess(sent'[k], asked'[k])
      BY <1>t, <2>1, <2>2, ExcessTail
    <2>4. Len(asked'[k]) = Len(asked[k]) + 1
      BY <1>t, <2>2
    <2>5. table'[k] = Rest(k)'
      BY <1>t, <2>1, <2>2, <2>3, <2>4 DEF Rest
    <2> QED
      BY <1>t, <1>4, <2>5, OneQueue DEF RecvMatch
  <1>5. ASSUME NEW a \in AbortId, AbortSwap(a)
        PROVE  QueueInv'
    <2>1. status' # OK /\ table' = EmptyTable
      BY <1>5, CallAssumption DEF AbortSwap, FirstStatus
    <2> QED
      BY <2>1 DEF QueueInv, QueueIsUnmatchedRest, AbortedIsEmpty, EmptyTable
  <1>6. ASSUME NEW s \in SendId, SendAborted(s) \/ SendNotify(s)
        PROVE  QueueInv'
    BY <1>6, QueueUnchanged DEF SendAborted, SendNotify
  <1>7. ASSUME NEW r \in RecvId, RecvAborted(r) \/ RecvDeliver(r) \/ RecvTimeout(r)
        PROVE  QueueInv'
    BY <1>7, QueueUnchanged DEF RecvAborted, RecvDeliver, RecvTimeout
  <1>8. ASSUME NEW a \in AbortId, AbortReturn(a) \/ \E k \in Key : AbortItem(a, k)
        PROVE  QueueInv'
    BY <1>8, QueueUnchanged DEF AbortReturn, AbortItem
  <1>9. CASE UNCHANGED vars
    BY <1>9, QueueUnchanged DEF vars
  <1> QED
    BY <1>1, <1>2, <1>3, <1>4, <1>5, <1>6, <1>7, <1>8, <1>9
       DEF Next, SendStep, RecvStep, AbortStep, StartAbort, Delete

\* The types and the queue invariant hold in every state of Rendezvous.
LEMMA QueueInvariance == Spec => [](TypeOK /\ QueueInv)
  <1>1. Init => TypeOK /\ QueueInv
    BY InitTypeOK, InitQueueInv
  <1>2. TypeOK /\ QueueInv /\ [Next]_vars => (TypeOK /\ QueueInv)'
    BY NextTypeOK, NextQueueInv
  <1> QED
    BY <1>1, <1>2, PTL DEF Spec

\* A queue holds exactly the calls that are unmatched, oldest first, and never
\* messages and waiters at once: the invariant that Send and RecvAsync rely on
\* when they look at the head of the queue only.
THEOREM QueueCorrect == Spec => []QueueIsUnmatchedRest
  <1>1. TypeOK /\ QueueInv => QueueIsUnmatchedRest
    BY DEF QueueInv
  <1> QED
    BY <1>1, QueueInvariance, PTL

\* An abort is final: the first status stays, and nothing is queued again.
THEOREM AbortFinal == Spec => AbortIsFinal
  <1> DEFINE Final == status # OK => status' = status /\ table' = table
  <1>1. TypeOK /\ QueueInv /\ [Next]_vars => [Final]_vars
    <2> SUFFICES ASSUME TypeOK, QueueInv, Next, status # OK
                 PROVE  status' = status /\ table' = table
      BY DEF vars
    <2>1. table = EmptyTable
      BY DEF QueueInv, AbortedIsEmpty
    <2>2. ASSUME NEW s \in SendId, NEW k \in Key, SendEnqueue(s, k) \/ SendMatch(s, k)
          PROVE  FALSE
      BY <2>2 DEF SendEnqueue, SendMatch
    <2>3. ASSUME NEW r \in RecvId, NEW k \in Key, RecvEnqueue(r, k) \/ RecvMatch(r, k)
          PROVE  FALSE
      BY <2>3 DEF RecvEnqueue, RecvMatch
    <2>4. ASSUME NEW a \in AbortId, AbortSwap(a)
          PROVE  status' = status /\ table' = table
      BY <2>1, <2>4 DEF AbortSwap, FirstStatus
    <2>5. ASSUME UNCHANGED tableVars PROVE status' = status /\ table' = table
      BY <2>5 DEF tableVars
    <2> QED
      BY <2>2, <2>3, <2>4, <2>5
         DEF Next, SendStep, RecvStep, AbortStep, StartAbort, Delete, SendAborted, SendNotify,
             RecvAborted, RecvDeliver, RecvTimeout, AbortItem, AbortReturn
  <1> QED
    BY <1>1, QueueInvariance, PTL DEF Spec, AbortIsFinal

(***************************************************************************)
(* Delivery.                                                               *)
(***************************************************************************)

\* Wherever r is among the receives of a key, s is at the same place among
\* the sends.
MatchedBy(r, s) ==
    \A k \in Key : \A i \in 1..Len(asked[k]) :
        asked[k][i] = r => i <= Len(sent[k]) /\ sent[k][i] = s

\* A receive that is queued, was swapped out by an abort, or is in the hands of
\* a Send has been called; one that has not been called has no outcome.
StartedInv ==
    /\ \A k \in Key : \A i \in 1..Len(table[k]) :
          table[k][i] \in RecvId => rpc[table[k][i]] # "idle"
    /\ \A a \in AbortId : \A k \in Key : \A i \in 1..Len(taken[a][k]) :
          taken[a][k][i] \in RecvId => rpc[taken[a][k][i]] # "idle"
    /\ \A s \in SendId : spc[s] = "notify" => waiter[s] \in RecvId /\ rpc[waiter[s]] # "idle"
    /\ \A r \in RecvId : rpc[r] = "idle" => calls[r] = <<>>

\* A receive has at most one place, and has been called.
AskedInv ==
    /\ \A k \in Key : \A i \in 1..Len(asked[k]) : rpc[asked[k][i]] # "idle"
    /\ \A k, l \in Key : \A i \in 1..Len(asked[k]), j \in 1..Len(asked[l]) :
          asked[k][i] = asked[l][j] => k = l /\ i = j

\* What a thread carries out of the lock is the match of the receive it is
\* going to call.
CarriedInv ==
    /\ \A s \in SendId : spc[s] = "notify" => MatchedBy(waiter[s], s)
    /\ \A r \in RecvId :
          rpc[r] = "deliver" /\ item[r].status = OK => MatchedBy(r, item[r].value)

\* The outcomes so far; equivalent to DeliveredInOrder.
CalledInv ==
    \A r \in RecvId : \A j \in 1..Len(calls[r]) :
        calls[r][j].status = OK => MatchedBy(r, calls[r][j].value)

DeliveryInv == StartedInv /\ AskedInv /\ CarriedInv /\ CalledInv

\* At the start no call is under way and no done() has run.
LEMMA InitDelivery == Init => DeliveryInv
  <1> SUFFICES ASSUME Init PROVE DeliveryInv
    OBVIOUS
  <1>1. \A k \in Key : Len(table[k]) = 0 /\ Len(asked[k]) = 0
    BY DEF Init, EmptyTable
  <1>2. \A a \in AbortId : \A k \in Key : Len(taken[a][k]) = 0
    BY DEF Init, EmptyTable
  <1>3. /\ \A r \in RecvId : rpc[r] = "idle" /\ calls[r] = <<>> /\ Len(calls[r]) = 0
        /\ \A s \in SendId : spc[s] = "idle"
    BY DEF Init
  <1> QED
    BY <1>1, <1>2, <1>3 DEF DeliveryInv, StartedInv, AskedInv, CarriedInv, CalledInv

\* A match outlives further sends ...
LEMMA MatchedGrowSent ==
  ASSUME TypeOK, NEW k \in Key, NEW s \in SendId,
         sent' = [sent EXCEPT ![k] = Append(@, s)], asked' = asked,
         NEW x, NEW v, MatchedBy(x, v)
  PROVE  MatchedBy(x, v)'
  <1>1. sent \in [Key -> Seq(SendId)] /\ asked \in [Key -> Seq(RecvId)]
    BY DEF TypeOK, TableTypeOK
  <1> SUFFICES ASSUME NEW l \in Key, NEW i \in 1..Len(asked[l]), asked[l][i] = x
               PROVE  i <= Len(sent'[l]) /\ sent'[l][i] = v
    BY DEF MatchedBy
  <1>2. i <= Len(sent[l]) /\ sent[l][i] = v
    BY DEF MatchedBy
  <1>3. sent[l] \in Seq(SendId) /\ Len(asked[l]) \in Nat /\ i \in 1..Len(sent[l])
    BY <1>1, <1>2
  <1>4. CASE l = k
    BY <1>1, <1>2, <1>3, <1>4
  <1>5. CASE l # k
    BY <1>1, <1>2, <1>5
  <1> QED
    BY <1>4, <1>5

\* ... and further receives.
LEMMA MatchedGrowAsked ==
  ASSUME TypeOK, NEW k \in Key, NEW r \in RecvId,
         asked' = [asked EXCEPT ![k] = Append(@, r)], sent' = sent,
         NEW x, NEW v, x # r, MatchedBy(x, v)
  PROVE  MatchedBy(x, v)'
  <1>1. sent \in [Key -> Seq(SendId)] /\ asked \in [Key -> Seq(RecvId)]
    BY DEF TypeOK, TableTypeOK
  <1> SUFFICES ASSUME NEW l \in Key, NEW i \in 1..Len(asked'[l]), asked'[l][i] = x
               PROVE  i <= Len(sent[l]) /\ sent[l][i] = v
    BY DEF MatchedBy
  <1>2. i \in 1..Len(asked[l]) /\ asked[l][i] = x
    <2>1. CASE l = k
      BY <1>1, <2>1
    <2>2. CASE l # k
      BY <1>1, <2>2
    <2> QED
      BY <2>1, <2>2
  <1> QED
    BY <1>2 DEF MatchedBy

\* The places of the receives after a new one was accepted.
LEMMA GrowAsked ==
  ASSUME TypeOK, AskedInv, NEW k \in Key, NEW r \in RecvId, rpc[r] = "idle",
         asked' = [asked EXCEPT ![k] = Append(@, r)],
         \A x \in RecvId : rpc'[x] # "idle" <=> x = r \/ rpc[x] # "idle"
  PROVE  /\ AskedInv'
         /\ \A l \in Key : \A i \in 1..Len(asked'[l]) :
               asked'[l][i] = r => l = k /\ i = Len(asked[k]) + 1
  <1>1. asked \in [Key -> Seq(RecvId)]
    BY DEF TypeOK, TableTypeOK
  <1>2. ASSUME NEW l \in Key, NEW i \in 1..Len(asked'[l])
        PROVE  \/ i \in 1..Len(asked[l]) /\ asked'[l][i] = asked[l][i]
               \/ l = k /\ i = Len(asked[k]) + 1 /\ asked'[l][i] = r
    <2>1. CASE l = k
      BY <1>1, <2>1
    <2>2. CASE l # k
      BY <1>1, <2>2
    <2> QED
      BY <2>1, <2>2
  <1>3. ASSUME NEW l \in Key, NEW i \in 1..Len(asked[l])
        PROVE  asked[l][i] # r /\ asked[l][i] \in RecvId /\ rpc[asked[l][i]] # "idle"
    BY <1>1 DEF AskedInv
  <1>4. \A l \in Key : \A i \in 1..Len(asked'[l]) :
           asked'[l][i] = r => l = k /\ i = Len(asked[k]) + 1
    BY <1>2, <1>3
  <1>5. \A l \in Key : \A i \in 1..Len(asked'[l]) : rpc'[asked'[l][i]] # "idle"
    BY <1>2, <1>3
  <1>6. ASSUME NEW l \in Key, NEW m \in Key,
               NEW i \in 1..Len(asked'[l]), NEW j \in 1..Len(asked'[m]),
               asked'[l][i] = asked'[m][j]
        PROVE  l = m /\ i = j
    BY <1>2, <1>3, <1>4, <1>6 DEF AskedInv
  <1> QED
    BY <1>4, <1>5, <1>6 DEF AskedInv

\* A done() that runs with the match of its receive, or with an error, keeps
\* the outcomes in order.
LEMMA CalledByDone ==
  ASSUME TypeOK, CalledInv, UNCHANGED <<sent, asked>>,
         NEW r \in RecvId, NEW m \in Msg, InvokeDone(r, m),
         m.status = OK => MatchedBy(r, m.value)
  PROVE  CalledInv'
  <1>1. calls \in [RecvId -> Seq(Msg)]
    BY DEF TypeOK, RecvTypeOK
  <1>2. \A x, v : MatchedBy(x, v)' <=> MatchedBy(x, v)
    BY DEF MatchedBy
  <1> SUFFICES ASSUME NEW x \in RecvId, NEW j \in 1..Len(calls'[x]), calls'[x][j].status = OK
               PROVE  MatchedBy(x, calls'[x][j].value)
    BY <1>2 DEF CalledInv
  <1>3. CASE x = r
    <2>1. calls'[x] = Append(calls[x], m)
      BY <1>1, <1>3 DEF InvokeDone
    <2>2. \/ j \in 1..Len(calls[x]) /\ calls'[x][j] = calls[x][j]
          \/ calls'[x][j] = m
      BY <1>1, <2>1
    <2> QED
      BY <1>3, <2>2 DEF CalledInv
  <1>4. CASE x # r
    BY <1>1, <1>4 DEF CalledInv, InvokeDone
  <1> QED
    BY <1>3, <1>4

\* A match made under mu_, and the done() run after it, keep the pairing.
LEMMA NextDelivery ==
    TypeOK /\ TypeOK' /\ QueueInv /\ DeliveryInv /\ [Next]_vars => DeliveryInv'
  <1> SUFFICES ASSUME TypeOK, TypeOK', QueueInv, DeliveryInv, [Next]_vars
               PROVE  DeliveryInv'
    OBVIOUS
  <1>t. TableTypeOK /\ SendTypeOK /\ RecvTypeOK /\ AbortTypeOK
    BY DEF TypeOK
  <1>d. StartedInv /\ AskedInv /\ CarriedInv /\ CalledInv
    BY DEF DeliveryInv
  <1>1. ASSUME NEW s \in SendId, SendAborted(s)
        PROVE  DeliveryInv'
    BY <1>1, <1>t, <1>d
       DEF SendAborted, SendTypeOK, DeliveryInv, StartedInv, AskedInv, CarriedInv, CalledInv,
           MatchedBy, tableVars, recvVars, abortVars
  <1>2. ASSUME NEW s \in SendId, NEW k \in Key, SendEnqueue(s, k)
        PROVE  DeliveryInv'
    <2>1. ASSUME NEW x, NEW v, MatchedBy(x, v) PROVE MatchedBy(x, v)'
      BY <1>2, <2>1, MatchedGrowSent DEF SendEnqueue
    <2>2. StartedInv'
      <3>1. ASSUME NEW l \in Key, NEW i \in 1..Len(table'[l]), table'[l][i] \in RecvId
            PROVE  i \in 1..Len(table[l]) /\ table'[l][i] = table[l][i]
        <4>1. CASE l = k
          <5>1. table'[l] = Append(table[l], s)
            BY <1>2, <1>t, <4>1 DEF SendEnqueue, PushBack, TableTypeOK
          <5> QED
            BY <1>t, <3>1, <5>1, CallAssumption DEF TableTypeOK
        <4>2. CASE l # k
          BY <1>2, <1>t, <4>2 DEF SendEnqueue, TableTypeOK
        <4> QED
          BY <4>1, <4>2
      <3> QED
        BY <1>2, <1>t, <1>d, <3>1 DEF SendEnqueue, StartedInv, SendTypeOK, recvVars, abortVars
    <2>3. AskedInv'
      BY <1>2, <1>d DEF SendEnqueue, AskedInv, recvVars
    <2>4. CarriedInv'
      BY <1>2, <1>t, <1>d, <2>1 DEF SendEnqueue, SendTypeOK, CarriedInv, recvVars
    <2>5. CalledInv'
      BY <1>2, <1>d, <2>1 DEF SendEnqueue, CalledInv, recvVars
    <2> QED
      BY <2>2, <2>3, <2>4, <2>5 DEF DeliveryInv
  <1>3. ASSUME NEW s \in SendId, NEW k \in Key, SendMatch(s, k)
        PROVE  DeliveryInv'
    <2>0. Len(sent[k]) < Len(asked[k]) /\ Head(table[k]) = asked[k][Len(sent[k]) + 1]
      BY <1>3, QueueView DEF SendMatch
    <2>1. ASSUME NEW x, NEW v, MatchedBy(x, v) PROVE MatchedBy(x, v)'
      BY <1>3, <2>1, MatchedGrowSent DEF SendMatch
    <2>2. /\ waiter'[s] = asked[k][Len(sent[k]) + 1]
          /\ waiter'[s] \in RecvId /\ rpc[waiter'[s]] # "idle"
          /\ Len(sent[k]) + 1 \in 1..Len(asked[k])
      BY <1>3, <1>t, <1>d, <2>0 DEF SendMatch, SendTypeOK, TableTypeOK, AskedInv
    <2>3. MatchedBy(waiter[s], s)'
      <3>1. /\ sent'[k] = Append(sent[k], s) /\ asked' = asked
            /\ sent[k] \in Seq(SendId)
        BY <1>3, <1>t DEF SendMatch, TableTypeOK
      <3>2. sent'[k][Len(sent[k]) + 1] = s /\ Len(sent'[k]) = Len(sent[k]) + 1
        BY <3>1
      <3>3. ASSUME NEW l \in Key, NEW i \in 1..Len(asked[l]), asked[l][i] = waiter'[s]
            PROVE  l = k /\ i = Len(sent[k]) + 1
        BY <1>d, <2>2, <3>3 DEF AskedInv
      <3> QED
        BY <3>1, <3>2, <3>3 DEF MatchedBy
    <2>4. StartedInv'
      <3>1. ASSUME NEW l \in Key, NEW i \in 1..Len(table'[l])
            PROVE  \E j \in 1..Len(table[l]) : table'[l][i] = table[l][j]
        <4>1. CASE l = k
          <5>1. table'[l] = Tail(table[l]) /\ table[l] # <<>> /\ table[l] \in Seq(Item)
            BY <1>3, <1>t, <4>1 DEF SendMatch, HasWaiter, TableTypeOK
          <5>2. i + 1 \in 1..Len(table[l]) /\ table'[l][i] = table[l][i + 1]
            BY <5>1
          <5> QED
            BY <5>2
        <4>2. CASE l # k
          BY <1>3, <1>t, <4>2 DEF SendMatch, TableTypeOK
        <4> QED
          BY <4>1, <4>2
      <3>2. \A l \in Key : \A i \in 1..Len(table'[l]) :
               table'[l][i] \in RecvId => rpc[table'[l][i]] # "idle"
        BY <1>d, <3>1 DEF StartedInv
      <3> QED
        BY <1>3, <1>t, <1>d, <2>2, <3>2
           DEF SendMatch, StartedInv, SendTypeOK, recvVars, abortVars
    <2>5. AskedInv'
      BY <1>3, <1>d DEF SendMatch, AskedInv, recvVars
    <2>6. CarriedInv'
      BY <1>3, <1>t, <1>d, <2>1, <2>3 DEF SendMatch, SendTypeOK, CarriedInv, recvVars
    <2>7. CalledInv'
      BY <1>3, <1>d, <2>1 DEF SendMatch, CalledInv, recvVars
    <2> QED
      BY <2>4, <2>5, <2>6, <2>7 DEF DeliveryInv
  <1>4. ASSUME NEW s \in SendId, SendNotify(s)
        PROVE  DeliveryInv'
    <2>1. waiter[s] \in RecvId /\ rpc[waiter[s]] # "idle" /\ MatchedBy(waiter[s], s)
      BY <1>4, <1>d DEF SendNotify, StartedInv, CarriedInv
    <2>2. [status |-> OK, value |-> s] \in Msg
      BY DEF Msg, Status
    <2>3. CalledInv'
      BY <1>4, <1>d, <2>1, <2>2, CalledByDone DEF SendNotify, tableVars
    <2>4. StartedInv'
      BY <1>4, <1>t, <1>d, <2>1
         DEF SendNotify, InvokeDone, StartedInv, SendTypeOK, RecvTypeOK, tableVars, abortVars
    <2>5. AskedInv' /\ CarriedInv'
      BY <1>4, <1>t, <1>d
         DEF SendNotify, SendTypeOK, AskedInv, CarriedInv, MatchedBy, tableVars
    <2> QED
      BY <2>3, <2>4, <2>5 DEF DeliveryInv
  <1>5. ASSUME NEW r \in RecvId, RecvAborted(r)
        PROVE  DeliveryInv'
    <2>1. rpc' = [rpc EXCEPT ![r] = "deliver"] /\ item'[r].status # OK
      BY <1>5, <1>t DEF RecvAborted, RecvTypeOK
    <2>2. \A x \in RecvId : x # r => item'[x] = item[x]
      BY <1>5, <1>t DEF RecvAborted, RecvTypeOK
    <2>3. StartedInv' /\ AskedInv'
      BY <1>5, <1>t, <1>d, <2>1
         DEF RecvAborted, StartedInv, AskedInv, RecvTypeOK, TableTypeOK, tableVars, sendVars,
             abortVars
    <2>4. CarriedInv' /\ CalledInv'
      BY <1>5, <1>t, <1>d, <2>1, <2>2
         DEF RecvAborted, CarriedInv, CalledInv, MatchedBy, RecvTypeOK, tableVars, sendVars
    <2> QED
      BY <2>3, <2>4 DEF DeliveryInv
  <1>6. ASSUME NEW r \in RecvId, NEW k \in Key, RecvEnqueue(r, k)
        PROVE  DeliveryInv'
    <2>1. /\ rpc[r] = "idle" /\ rpc' = [rpc EXCEPT ![r] = "returned"]
          /\ calls[r] = <<>> /\ calls' = calls
      BY <1>6, <1>d DEF RecvEnqueue, StartedInv
    <2>2. ASSUME NEW x \in RecvId, NEW v, rpc[x] # "idle", MatchedBy(x, v)
          PROVE  MatchedBy(x, v)'
      BY <1>6, <2>1, <2>2, MatchedGrowAsked DEF RecvEnqueue
    <2>3. AskedInv'
      <3>1. \A x \in RecvId : rpc'[x] # "idle" <=> x = r \/ rpc[x] # "idle"
        BY <1>t, <2>1 DEF RecvTypeOK
      <3> QED
        BY <1>6, <1>d, <2>1, <3>1, GrowAsked DEF RecvEnqueue
    <2>4. StartedInv'
      <3>1. ASSUME NEW l \in Key, NEW i \in 1..Len(table'[l])
            PROVE  \/ i \in 1..Len(table[l]) /\ table'[l][i] = table[l][i]
                   \/ table'[l][i] = r
        <4>1. CASE l = k
          <5>1. table'[l] = Append(table[l], r)
            BY <1>6, <1>t, <4>1 DEF RecvEnqueue, PushBack, TableTypeOK
          <5> QED
            BY <1>t, <5>1 DEF TableTypeOK
        <4>2. CASE l # k
          BY <1>6, <1>t, <4>2 DEF RecvEnqueue, TableTypeOK
        <4> QED
          BY <4>1, <4>2
      <3> QED
        BY <1>6, <1>t, <1>d, <2>1, <3>1
           DEF RecvEnqueue, StartedInv, RecvTypeOK, sendVars, abortVars
    <2>5. CarriedInv'
      BY <1>6, <1>t, <1>d, <2>1, <2>2
         DEF RecvEnqueue, StartedInv, CarriedInv, RecvTypeOK, sendVars
    <2>6. CalledInv'
      BY <1>t, <1>d, <2>1, <2>2 DEF StartedInv, CalledInv, RecvTypeOK
    <2> QED
      BY <2>3, <2>4, <2>5, <2>6 DEF DeliveryInv
  <1>7. ASSUME NEW r \in RecvId, NEW k \in Key, RecvMatch(r, k)
        PROVE  DeliveryInv'
    <2>0. Len(asked[k]) < Len(sent[k]) /\ Head(table[k]) = sent[k][Len(asked[k]) + 1]
      BY <1>7, QueueView DEF RecvMatch
    <2>1. /\ rpc[r] = "idle" /\ rpc' = [rpc EXCEPT ![r] = "deliver"]
          /\ calls[r] = <<>> /\ calls' = calls
          /\ item'[r].value = sent[k][Len(asked[k]) + 1]
          /\ \A x \in RecvId : x # r => item'[x] = item[x]
      BY <1>7, <1>t, <1>d, <2>0 DEF RecvMatch, StartedInv, RecvTypeOK
    <2>2. ASSUME NEW x \in RecvId, NEW v, rpc[x] # "idle", MatchedBy(x, v)
          PROVE  MatchedBy(x, v)'
      BY <1>7, <2>1, <2>2, MatchedGrowAsked DEF RecvMatch
    <2>3. /\ AskedInv'
          /\ \A l \in Key : \A i \in 1..Len(asked'[l]) :
                asked'[l][i] = r => l = k /\ i = Len(asked[k]) + 1
      <3>1. \A x \in RecvId : rpc'[x] # "idle" <=> x = r \/ rpc[x] # "idle"
        BY <1>t, <2>1 DEF RecvTypeOK
      <3> QED
        BY <1>7, <1>d, <2>1, <3>1, GrowAsked DEF RecvMatch
    <2>4. MatchedBy(r, item[r].value)'
      <3>1. sent' = sent /\ Len(asked[k]) + 1 <= Len(sent[k])
        BY <1>7, <1>t, <2>0 DEF RecvMatch, TableTypeOK
      <3> QED
        BY <2>1, <2>3, <3>1 DEF MatchedBy
    <2>5. StartedInv'
      <3>1. ASSUME NEW l \in Key, NEW i \in 1..Len(table'[l])
            PROVE  \E j \in 1..Len(table[l]) : table'[l][i] = table[l][j]
        <4>1. CASE l = k
          <5>1. table'[l] = Tail(table[l]) /\ table[l] # <<>> /\ table[l] \in Seq(Item)
            BY <1>7, <1>t, <4>1 DEF RecvMatch, HasMessage, TableTypeOK
          <5>2. i + 1 \in 1..Len(table[l]) /\ table'[l][i] = table[l][i + 1]
            BY <5>1
          <5> QED
            BY <5>2
        <4>2. CASE l # k
          BY <1>7, <1>t, <4>2 DEF RecvMatch, TableTypeOK
        <4> QED
          BY <4>1, <4>2
      <3>2. \A l \in Key : \A i \in 1..Len(table'[l]) :
               table'[l][i] \in RecvId => rpc'[table'[l][i]] # "idle"
        <4> SUFFICES ASSUME NEW l \in Key, NEW i \in 1..Len(table'[l]), table'[l][i] \in RecvId
                     PROVE  rpc'[table'[l][i]] # "idle"
          OBVIOUS
        <4>1. rpc[table'[l][i]] # "idle"
          BY <1>d, <3>1 DEF StartedInv
        <4> QED
          BY <1>t, <2>1, <4>1 DEF RecvTypeOK
      <3> QED
        BY <1>7, <1>t, <1>d, <2>1, <3>2
           DEF RecvMatch, StartedInv, RecvTypeOK, sendVars, abortVars
    <2>6. CarriedInv'
      BY <1>7, <1>t, <1>d, <2>1, <2>2, <2>4
         DEF RecvMatch, StartedInv, CarriedInv, RecvTypeOK, sendVars
    <2>7. CalledInv'
      BY <1>t, <1>d, <2>1, <2>2 DEF StartedInv, CalledInv, RecvTypeOK
    <2> QED
      BY <2>3, <2>5, <2>6, <2>7 DEF DeliveryInv
  <1>8. ASSUME NEW r \in RecvId, RecvDeliver(r)
        PROVE  DeliveryInv'
    <2>1. item[r] \in Msg /\ (item[r].status = OK => MatchedBy(r, item[r].value))
      BY <1>8, <1>t, <1>d DEF RecvDeliver, RecvTypeOK, CarriedInv
    <2>2. CalledInv'
      BY <1>8, <1>d, <2>1, CalledByDone DEF RecvDeliver, tableVars
    <2>3. StartedInv' /\ AskedInv'
      BY <1>8, <1>t, <1>d
         DEF RecvDeliver, InvokeDone, StartedInv, AskedInv, RecvTypeOK, TableTypeOK, tableVars,
             sendVars, abortVars
    <2>4. CarriedInv'
      BY <1>8, <1>t, <1>d
         DEF RecvDeliver, CarriedInv, MatchedBy, RecvTypeOK, tableVars, sendVars
    <2> QED
      BY <2>2, <2>3, <2>4 DEF DeliveryInv
  <1>9. ASSUME NEW r \in RecvId, RecvTimeout(r)
        PROVE  DeliveryInv'
    BY <1>9, <1>d
       DEF RecvTimeout, DeliveryInv, StartedInv, AskedInv, CarriedInv, CalledInv, MatchedBy,
           tableVars, sendVars, abortVars
  <1>10. ASSUME NEW a \in AbortId, AbortSwap(a)
         PROVE  DeliveryInv'
    <2>1. StartedInv'
      <3>1. \A k \in Key : Len(table'[k]) = 0
        BY <1>10 DEF AbortSwap, EmptyTable
      <3>2. \A b \in AbortId : taken'[b] = IF b = a THEN table ELSE taken[b]
        BY <1>10, <1>t DEF AbortSwap, AbortTypeOK
      <3> QED
        BY <1>10, <1>d, <3>1, <3>2 DEF AbortSwap, StartedInv, sendVars, recvVars
    <2>2. AskedInv' /\ CarriedInv' /\ CalledInv'
      BY <1>10, <1>d
         DEF AbortSwap, AskedInv, CarriedInv, CalledInv, MatchedBy, sendVars, recvVars
    <2> QED
      BY <2>1, <2>2 DEF DeliveryInv
  <1>11. ASSUME NEW a \in AbortId, NEW k \in Key, AbortItem(a, k)
         PROVE  DeliveryInv'
    <2> DEFINE q == taken[a][k]
    <2>1. q \in Seq(Item) /\ q # <<>>
      BY <1>11, <1>t DEF AbortItem, AbortTypeOK
    <2>2. ~IsSendValue(Head(q)) => Head(q) \in RecvId /\ rpc[Head(q)] # "idle"
      <3>1. Head(q) = q[1] /\ 1 \in 1..Len(q)
        BY <2>1
      <3> QED
        BY <1>d, <2>1, <3>1, HeadOfQueue DEF StartedInv
    <2>3. /\ [status |-> a, value |-> NoTensor] \in Msg
          /\ [status |-> a, value |-> NoTensor].status # OK
      BY CallAssumption DEF Msg, Status
    <2>4. CalledInv'
      <3>1. CASE IsSendValue(Head(q))
        BY <1>11, <1>d, <3>1 DEF AbortItem, CalledInv, MatchedBy, tableVars
      <3>2. CASE ~IsSendValue(Head(q))
        BY <1>11, <1>d, <2>2, <2>3, <3>2, CalledByDone DEF AbortItem, tableVars
      <3> QED
        BY <3>1, <3>2
    <2>5. StartedInv'
      <3>1. ASSUME NEW b \in AbortId, NEW l \in Key, NEW i \in 1..Len(taken'[b][l])
            PROVE  \E j \in 1..Len(taken[b][l]) : taken'[b][l][i] = taken[b][l][j]
        <4>1. CASE b = a /\ l = k
          <5>1. taken'[b][l] = Tail(q)
            BY <1>11, <1>t, <4>1 DEF AbortItem, AbortTypeOK
          <5>2. i + 1 \in 1..Len(q) /\ taken'[b][l][i] = q[i + 1]
            BY <2>1, <5>1
          <5> QED
            BY <4>1, <5>2
        <4>2. CASE ~(b = a /\ l = k)
          BY <1>11, <1>t, <4>2 DEF AbortItem, AbortTypeOK
        <4> QED
          BY <4>1, <4>2
      <3>2. \A b \in AbortId : \A l \in Key : \A i \in 1..Len(taken'[b][l]) :
               taken'[b][l][i] \in RecvId => rpc[taken'[b][l][i]] # "idle"
        BY <1>d, <3>1 DEF StartedInv
      <3>3. \A r \in RecvId : rpc[r] = "idle" => calls'[r] = <<>>
        BY <1>11, <1>t, <1>d, <2>2 DEF AbortItem, InvokeDone, StartedInv, RecvTypeOK
      <3> QED
        BY <1>11, <1>d, <3>2, <3>3 DEF AbortItem, StartedInv, tableVars, sendVars
    <2>6. AskedInv' /\ CarriedInv'
      BY <1>11, <1>d DEF AbortItem, AskedInv, CarriedInv, MatchedBy, tableVars, sendVars
    <2> QED
      BY <2>4, <2>5, <2>6 DEF DeliveryInv
  <1>12. ASSUME NEW a \in AbortId, AbortReturn(a)
         PROVE  DeliveryInv'
    BY <1>12, <1>d
       DEF AbortReturn, DeliveryInv, StartedInv, AskedInv, CarriedInv, CalledInv, MatchedBy,
           tableVars, sendVars, recvVars
  <1>13. CASE UNCHANGED vars
    BY <1>13, <1>d
       DEF vars, DeliveryInv, StartedInv, AskedInv, CarriedInv, CalledInv, MatchedBy,
           tableVars, sendVars, recvVars, abortVars
  <1> QED
    BY <1>1, <1>2, <1>3, <1>4, <1>5, <1>6, <1>7, <1>8, <1>9, <1>10, <1>11, <1>12, <1>13
       DEF Next, SendStep, RecvStep, AbortStep, StartAbort, Delete

\* A consumer gets the tensors of a key in the order they were sent, whichever
\* threads carry the callbacks out of the lock: the i-th receive is called with
\* the i-th send, or with an error.
THEOREM DeliveryInOrder == Spec => []DeliveredInOrder
  <1> DEFINE All == TypeOK /\ QueueInv /\ DeliveryInv
  <1>1. Init => All
    BY InitTypeOK, InitQueueInv, InitDelivery
  <1>2. All /\ [Next]_vars => All'
    BY NextTypeOK, NextQueueInv, NextDelivery
  <1>3. All => DeliveredInOrder
    BY DEF TypeOK, TableTypeOK, DeliveryInv, CalledInv, MatchedBy, DeliveredInOrder
  <1> QED
    BY <1>1, <1>2, <1>3, PTL DEF Spec
=============================================================================
