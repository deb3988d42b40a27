------------------------ MODULE RendezvousRefinement ------------------------
(***************************************************************************)
(* Proofs that every done() of LocalRendezvousImpl runs once, and that the *)
(* table of queues, with callbacks run outside the lock, implements        *)
(* Channels; for any number of keys, calls and aborts.                     *)
(***************************************************************************)
EXTENDS RendezvousProofs

(***************************************************************************)
(* Tables: what is on one, and that nothing is on it twice.                *)
(***************************************************************************)
On(f, r) == \E k \in Key : \E i \in 1..Len(f[k]) : f[k][i] = r

Apart(f) ==
    \A k, l \in Key : \A i \in 1..Len(f[k]), j \in 1..Len(f[l]) :
        f[k][i] \in RecvId /\ f[k][i] = f[l][j] => k = l /\ i = j

\* Nothing is on an empty table.
LEMMA EmptyBoard == Apart(EmptyTable) /\ \A r : ~On(EmptyTable, r)
  <1>1. \A k \in Key : Len(EmptyTable[k]) = 0
    BY DEF EmptyTable
  <1> QED
    BY <1>1 DEF Apart, On

\* Taking the head off a queue takes exactly that item off the table.
LEMMA PopBoard ==
  ASSUME NEW f \in [Key -> Seq(Item)], NEW k \in Key, f[k] # <<>>, Apart(f)
  PROVE  /\ Apart([f EXCEPT ![k] = Tail(@)]) /\ On(f, Head(f[k]))
         /\ \A r \in RecvId : On([f EXCEPT ![k] = Tail(@)], r) <=> On(f, r) /\ r # Head(f[k])
  <1> DEFINE g == [f EXCEPT ![k] = Tail(@)]
  <1> DEFINE d(l) == IF l = k THEN 1 ELSE 0
  <1>1. /\ f[k] \in Seq(Item) /\ Head(f[k]) = f[k][1] /\ 1 \in 1..Len(f[k])
        /\ Tail(f[k]) \in Seq(Item) /\ Len(Tail(f[k])) = Len(f[k]) - 1 /\ Len(f[k]) \in Nat
        /\ \A i \in 1..Len(f[k]) - 1 : Tail(f[k])[i] = f[k][i + 1]
    BY HeadTailProperties, LenProperties, EmptySeq
  <1>2. g[k] = Tail(f[k]) /\ \A l \in Key : l # k => g[l] = f[l]
    OBVIOUS
  <1> HIDE DEF g
  <1>3. ASSUME NEW l \in Key, NEW i \in 1..Len(g[l])
        PROVE  i + d(l) \in 1..Len(f[l]) /\ g[l][i] = f[l][i + d(l)]
    <2>1. CASE l = k
      BY <2>1, <1>1, <1>2
    <2>2. CASE l # k
      BY <2>2, <1>2
    <2> QED
      BY <2>1, <2>2
  <1>4. ASSUME NEW l \in Key, NEW i \in 1..Len(f[l]), l # k \/ i # 1
        PROVE  i - d(l) \in 1..Len(g[l]) /\ g[l][i - d(l)] = f[l][i]
    <2>1. CASE l = k
      <3>1. i - 1 \in 1..Len(f[k]) - 1 /\ (i - 1) + 1 = i
        BY <2>1, <1>1, <1>4
      <3> QED
        BY <2>1, <3>1, <1>1, <1>2
    <2>2. CASE l # k
      BY <2>2, <1>2
    <2> QED
      BY <2>1, <2>2
  <1>5. Apart(g)
    <2> SUFFICES ASSUME NEW l \in Key, NEW m \in Key, NEW i \in 1..Len(g[l]),
                        NEW j \in 1..Len(g[m]), g[l][i] \in RecvId, g[l][i] = g[m][j]
                 PROVE  l = m /\ i = j
      BY DEF Apart
    <2>0. /\ i + d(l) \in 1..Len(f[l]) /\ f[l][i + d(l)] = g[l][i]
          /\ j + d(m) \in 1..Len(f[m]) /\ f[m][j + d(m)] = g[m][j]
      BY <1>3
    <2>1. l = m /\ i + d(l) = j + d(m)
      BY <2>0 DEF Apart
    <2> QED
      BY <2>1
  <1>6. On(f, Head(f[k]))
    BY <1>1 DEF On
  <1>7. ASSUME NEW r \in RecvId, On(g, r) PROVE On(f, r) /\ r # Head(f[k])
    <2>0. PICK l \in Key : \E i \in 1..Len(g[l]) : g[l][i] = r
      BY <1>7 DEF On
    <2>1. PICK i \in 1..Len(g[l]) : g[l][i] = r
      BY <2>0
    <2>2. i + d(l) \in 1..Len(f[l]) /\ f[l][i + d(l)] = r
      BY <2>1, <1>3
    <2>3. l = k => i + d(l) # 1
      OBVIOUS
    <2> QED
      BY <2>2, <2>3, <1>1 DEF On, Apart
  <1>8. ASSUME NEW r \in RecvId, On(f, r), r # Head(f[k]) PROVE On(g, r)
    <2>0. PICK l \in Key : \E i \in 1..Len(f[l]) : f[l][i] = r
      BY <1>8 DEF On
    <2>1. PICK i \in 1..Len(f[l]) : f[l][i] = r
      BY <2>0
    <2>2. l # k \/ i # 1
      BY <2>1, <1>1, <1>8
    <2> QED
      BY <2>1, <2>2, <1>4 DEF On
  <1> QED
    BY <1>5, <1>6, <1>7, <1>8 DEF g

\* Appending to a queue puts exactly that item on the table.
LEMMA PushBoard ==
  ASSUME NEW f \in [Key -> Seq(Item)], NEW k \in Key, NEW x \in Item, Apart(f),
         x \in RecvId => ~On(f, x)
  PROVE  /\ Apart([f EXCEPT ![k] = Append(@, x)])
         /\ \A r \in RecvId : On([f EXCEPT ![k] = Append(@, x)], r) <=> On(f, r) \/ r = x
  <1> DEFINE g == [f EXCEPT ![k] = Append(@, x)]
  <1>1. /\ f[k] \in Seq(Item) /\ Len(f[k]) \in Nat /\ Len(Append(f[k], x)) = Len(f[k]) + 1
        /\ \A i \in 1..Len(f[k]) : Append(f[k], x)[i] = f[k][i]
        /\ Append(f[k], x)[Len(f[k]) + 1] = x
    BY AppendProperties, LenProperties
  <1>2. g[k] = Append(f[k], x) /\ \A l \in Key : l # k => g[l] = f[l]
    OBVIOUS
  <1> HIDE DEF g
  <1>3. ASSUME NEW l \in Key, NEW i \in 1..Len(g[l])
        PROVE  \/ i \in 1..Len(f[l]) /\ g[l][i] = f[l][i]
               \/ l = k /\ i = Len(f[k]) + 1 /\ g[l][i] = x
    <2>1. CASE l = k
      BY <2>1, <1>1, <1>2
    <2>2. CASE l # k
      BY <2>2, <1>2
    <2> QED
      BY <2>1, <2>2
  <1>4. ASSUME NEW l \in Key, NEW i \in 1..Len(f[l])
        PROVE  i \in 1..Len(g[l]) /\ g[l][i] = f[l][i]
    <2>1. CASE l = k
      BY <2>1, <1>1, <1>2
    <2>2. CASE l # k
      BY <2>2, <1>2
    <2> QED
      BY <2>1, <2>2
  <1>5. Len(f[k]) + 1 \in 1..Len(g[k]) /\ g[k][Len(f[k]) + 1] = x
    BY <1>1, <1>2
  <1>6. Apart(g)
    <2> SUFFICES ASSUME NEW l \in Key, NEW m \in Key, NEW i \in 1..Len(g[l]),
                        NEW j \in 1..Len(g[m]), g[l][i] \in RecvId, g[l][i] = g[m][j]
                 PROVE  l = m /\ i = j
      BY DEF Apart
    <2>1. /\ \/ i \in 1..Len(f[l]) /\ g[l][i] = f[l][i]
             \/ l = k /\ i = Len(f[k]) + 1 /\ g[l][i] = x
          /\ \/ j \in 1..Len(f[m]) /\ g[m][j] = f[m][j]
             \/ m = k /\ j = Len(f[k]) + 1 /\ g[m][j] = x
      BY <1>3
    <2>2. x \in RecvId => \A n \in Key : \A h \in 1..Len(f[n]) : f[n][h] # x
      BY DEF On
    <2> QED
      BY <2>1, <2>2 DEF Apart
  <1>7. ASSUME NEW r \in RecvId PROVE On(g, r) <=> On(f, r) \/ r = x
    <2>1. On(g, r) => On(f, r) \/ r = x
      BY <1>3 DEF On
    <2>2. On(f, r) => On(g, r)
      BY <1>4 DEF On
    <2>3. On(g, x)
      BY <1>5 DEF On
    <2> QED
      BY <2>1, <2>2, <2>3
  <1> QED
    BY <1>6, <1>7 DEF g

(***************************************************************************)
(* Where the done() of a receive is.                                       *)
(***************************************************************************)
InTaken(r) == \E a \in AbortId : On(taken[a], r)
InHand(r)  == \E s \in SendId : spc[s] = "notify" /\ waiter[s] = r

\* Nothing is twice in the table or in what an abort has taken, in two of these,
\* or in the hands of two sends.
ApartInv ==
    /\ Apart(table) /\ \A a \in AbortId : Apart(taken[a])
    /\ \A a, b \in AbortId : \A r \in RecvId : On(taken[a], r) /\ On(taken[b], r) => a = b
    /\ \A s, t \in SendId :
         spc[s] = "notify" /\ spc[t] = "notify" /\ waiter[s] = waiter[t] => s = t

\* A done() is in one of the places, or has run.
OnePlace(r) ==
    /\ On(table, r) => ~InTaken(r) /\ ~InHand(r) /\ rpc[r] # "deliver" /\ calls[r] = <<>>
    /\ InTaken(r) => ~InHand(r) /\ rpc[r] # "deliver" /\ calls[r] = <<>>
    /\ InHand(r) => rpc[r] # "deliver" /\ calls[r] = <<>>
    /\ rpc[r] = "deliver" => calls[r] = <<>>
    /\ rpc[r] = "returned" => On(table, r) \/ InTaken(r) \/ InHand(r) \/ calls[r] # <<>>
    /\ Len(calls[r]) <= 1
PlaceInv == \A r \in RecvId : OnePlace(r)

\* What an abort has done so far.
AbortedInv ==
    /\ status = OK => \A a \in AbortId : apc[a] = "idle"
    /\ status # OK => status \in AbortId /\ apc[status] # "idle"
    /\ \A a \in AbortId : apc[a] = "idle" => taken[a] = EmptyTable

DoneInv == AbortedInv /\ ApartInv /\ PlaceInv

\* The rendezvous as RendezvousProofs has it.
BaseInv == TypeOK /\ QueueInv /\ DeliveryInv

\* Who has not called RecvAsync yet is nowhere.
LEMMA IdleIsNowhere ==
  ASSUME BaseInv, NEW r \in RecvId, rpc[r] = "idle"
  PROVE  ~On(table, r) /\ ~InTaken(r) /\ ~InHand(r) /\ calls[r] = <<>>
  BY DEF BaseInv, DeliveryInv, StartedInv, On, InTaken, InHand

\* A done() that runs is logged.
LEMMA DoneRuns ==
  ASSUME TypeOK, NEW r \in RecvId, NEW m \in Msg, InvokeDone(r, m), calls[r] = <<>>
  PROVE  /\ calls'[r] = <<m>> /\ calls'[r] # <<>> /\ Len(calls'[r]) = 1
         /\ \A x \in RecvId : x # r => calls'[x] = calls[x]
         /\ calls' = [calls EXCEPT ![r] = <<m>>]
  <1>1. calls \in [RecvId -> Seq(Msg)] /\ calls' = [calls EXCEPT ![r] = Append(calls[r], m)]
    BY DEF TypeOK, RecvTypeOK, InvokeDone
  <1>2. Append(calls[r], m) = <<m>>
    OBVIOUS
  <1> QED
    BY <1>1, <1>2

\* At the start.
LEMMA InitDone == Init => DoneInv
  <1> SUFFICES ASSUME Init PROVE DoneInv
    OBVIOUS
  <1>1. /\ table = EmptyTable /\ \A a \in AbortId : taken[a] = EmptyTable /\ apc[a] = "idle"
        /\ status = OK
        /\ \A s \in SendId : spc[s] = "idle"
        /\ \A r \in RecvId : rpc[r] = "idle" /\ calls[r] = <<>> /\ Len(calls[r]) = 0
    BY DEF Init
  <1>2. AbortedInv
    BY <1>1 DEF AbortedInv
  <1>3. ApartInv
    BY <1>1, EmptyBoard DEF ApartInv
  <1>4. PlaceInv
    BY <1>1, EmptyBoard DEF PlaceInv, OnePlace, InTaken, InHand
  <1> QED
    BY <1>2, <1>3, <1>4 DEF DoneInv

\* Every critical section moves at most one done(), and every callback runs one.
LEMMA NextDone == BaseInv /\ BaseInv' /\ DoneInv /\ [Next]_vars => DoneInv'
  <1> SUFFICES ASSUME BaseInv, BaseInv', DoneInv, [Next]_vars PROVE DoneInv'
    OBVIOUS
  <1>t. /\ TypeOK /\ TableTypeOK /\ SendTypeOK /\ RecvTypeOK /\ AbortTypeOK
        /\ AbortedInv /\ ApartInv /\ PlaceInv
        /\ table \in [Key -> Seq(Item)] /\ taken \in [AbortId -> [Key -> Seq(Item)]]
    BY DEF BaseInv, TypeOK, DoneInv, TableTypeOK, AbortTypeOK
  <1>i. SendId \subseteq Item /\ RecvId \subseteq Item /\ \A s \in SendId : s \notin RecvId
    BY CallAssumption DEF Item
  <1>1. ASSUME NEW s \in SendId, SendAborted(s)
        PROVE  DoneInv'
    <2>1. /\ \A t \in SendId : spc'[t] = "notify" <=> spc[t] = "notify"
          /\ UNCHANGED <<table, status, waiter, rpc, calls, apc, taken>>
      BY <1>1, <1>t DEF SendAborted, SendTypeOK, tableVars, recvVars, abortVars
    <2> QED
      BY <2>1, <1>t DEF DoneInv, AbortedInv, ApartInv, PlaceInv, OnePlace, InTaken, InHand
  <1>2. ASSUME NEW s \in SendId, NEW k \in Key, SendEnqueue(s, k)
        PROVE  DoneInv'
    <2>1. /\ \A t \in SendId : spc'[t] = "notify" <=> spc[t] = "notify"
          /\ UNCHANGED <<status, waiter, rpc, calls, apc, taken>>
          /\ table' = [table EXCEPT ![k] = Append(@, s)]
      BY <1>2, <1>t DEF SendEnqueue, SendTypeOK, recvVars, abortVars, PushBack
    <2>0. Apart(table) /\ s \in Item /\ s \notin RecvId
      BY <1>t, <1>i DEF ApartInv
    <2>2. Apart(table') /\ \A r \in RecvId : On(table', r) <=> On(table, r)
      <3>1. Apart(table') /\ \A r \in RecvId : On(table', r) <=> On(table, r) \/ r = s
        BY <2>0, <2>1, <1>t, PushBoard
      <3> QED
        BY <2>0, <3>1
    <2> QED
      BY <2>1, <2>2, <1>t DEF DoneInv, AbortedInv, ApartInv, PlaceInv, OnePlace, InTaken, InHand
  <1>3. ASSUME NEW s \in SendId, NEW k \in Key, SendMatch(s, k)
        PROVE  DoneInv'
    <2> DEFINE h == Head(table[k])
    <2>1. /\ spc[s] = "idle" /\ \A t \in SendId : spc'[t] = IF t = s THEN "notify" ELSE spc[t]
          /\ \A t \in SendId : waiter'[t] = IF t = s THEN h ELSE waiter[t]
          /\ UNCHANGED <<status, rpc, calls, apc, taken>>
          /\ table' = [table EXCEPT ![k] = Tail(@)] /\ table[k] # <<>> /\ h \in RecvId
      BY <1>3, <1>t, HeadOfQueue DEF SendMatch, HasWaiter, SendTypeOK, recvVars, abortVars
    <2>2. /\ Apart(table') /\ On(table, h)
          /\ \A r \in RecvId : On(table', r) <=> On(table, r) /\ r # h
      <3>1. Apart(table)
        BY <1>t DEF ApartInv
      <3> QED
        BY <2>1, <3>1, <1>t, PopBoard
    <2> HIDE DEF h
    <2>3. \A r \in RecvId : /\ InHand(r)' <=> InHand(r) \/ r = h
                            /\ InTaken(r)' <=> InTaken(r)
      BY <2>1 DEF InHand, InTaken
    <2>4. OnePlace(h) /\ ~InHand(h)
      BY <2>1, <2>2, <1>t DEF PlaceInv, OnePlace
    <2>5. ApartInv'
      <3>1. \A t, u \in SendId :
              spc'[t] = "notify" /\ spc'[u] = "notify" /\ waiter'[t] = waiter'[u] => t = u
        BY <2>1, <2>4, <1>t DEF ApartInv, InHand
      <3> QED
        BY <3>1, <2>1, <2>2, <1>t DEF ApartInv
    <2>6. PlaceInv'
      <3> SUFFICES ASSUME NEW r \in RecvId PROVE OnePlace(r)'
        BY DEF PlaceInv
      <3>1. OnePlace(r)
        BY <1>t DEF PlaceInv
      <3>2. CASE r = h
        BY <3>1, <3>2, <2>1, <2>2, <2>3, <2>4 DEF OnePlace
      <3>3. CASE r # h
        BY <3>1, <3>3, <2>1, <2>2, <2>3 DEF OnePlace
      <3> QED
        BY <3>2, <3>3
    <2> QED
      BY <2>1, <2>5, <2>6, <1>t DEF DoneInv, AbortedInv
  <1>4. ASSUME NEW s \in SendId, SendNotify(s)
        PROVE  DoneInv'
    <2> DEFINE h == waiter[s]
    <2>1. /\ spc[s] = "notify" /\ \A t \in SendId : spc'[t] = IF t = s THEN "returned" ELSE spc[t]
          /\ UNCHANGED <<table, status, waiter, rpc, apc, taken>>
          /\ InvokeDone(h, [status |-> OK, value |-> s])
      BY <1>4, <1>t DEF SendNotify, SendTypeOK, tableVars, abortVars
    <2>2. h \in RecvId /\ rpc[h] # "idle"
      BY <2>1 DEF BaseInv, DeliveryInv, StartedInv
    <2>3. InHand(h) /\ OnePlace(h)
      BY <2>1, <2>2, <1>t DEF InHand, PlaceInv
    <2>4. [status |-> OK, value |-> s] \in Msg
      BY DEF Msg, Status
    <2>5. /\ calls'[h] # <<>> /\ Len(calls'[h]) = 1
          /\ \A x \in RecvId : x # h => calls'[x] = calls[x]
      BY <2>1, <2>2, <2>3, <2>4, <1>t, DoneRuns DEF OnePlace
    <2>6. \A r \in RecvId : /\ InHand(r)' <=> InHand(r) /\ r # h
                            /\ InTaken(r)' <=> InTaken(r)
      BY <2>1, <1>t DEF InHand, InTaken, ApartInv
    <2> HIDE DEF h
    <2>7. PlaceInv'
      <3> SUFFICES ASSUME NEW r \in RecvId PROVE OnePlace(r)'
        BY DEF PlaceInv
      <3>1. OnePlace(r)
        BY <1>t DEF PlaceInv
      <3>2. CASE r = h
        BY <3>1, <3>2, <2>1, <2>3, <2>5, <2>6 DEF OnePlace
      <3>3. CASE r # h
        BY <3>1, <3>3, <2>1, <2>5, <2>6 DEF OnePlace
      <3> QED
        BY <3>2, <3>3
    <2>8. ApartInv' /\ AbortedInv'
      BY <2>1, <1>t DEF ApartInv, AbortedInv
    <2> QED
      BY <2>7, <2>8 DEF DoneInv
  <1>5. ASSUME NEW r \in RecvId,
               RecvAborted(r) \/ \E k \in Key : RecvEnqueue(r, k) \/ RecvMatch(r, k)
        PROVE  DoneInv'
    <2>1. /\ rpc[r] = "idle" /\ UNCHANGED <<status, spc, waiter, calls, apc, taken>>
          /\ \A x \in RecvId : x # r => rpc'[x] = rpc[x]
      BY <1>5, <1>t DEF RecvAborted, RecvEnqueue, RecvMatch, RecvTypeOK, tableVars, sendVars, abortVars
    <2>2. ~On(table, r) /\ ~InTaken(r) /\ ~InHand(r) /\ calls[r] = <<>> /\ Len(calls[r]) = 0
      BY <2>1, IdleIsNowhere
    <2>3. \A x \in RecvId : (InHand(x)' <=> InHand(x)) /\ (InTaken(x)' <=> InTaken(x))
      BY <2>1 DEF InHand, InTaken
    <2>4. /\ Apart(table') /\ (rpc'[r] = "deliver" \/ On(table', r))
          /\ rpc'[r] \in {"deliver", "returned"} /\ (rpc'[r] = "deliver" => ~On(table', r))
          /\ \A x \in RecvId : x # r => (On(table', x) <=> On(table, x))
      <3>1. CASE RecvAborted(r)
        BY <3>1, <2>2, <1>t DEF RecvAborted, RecvTypeOK, tableVars, ApartInv
      <3>2. ASSUME NEW k \in Key, RecvEnqueue(r, k)
            PROVE  /\ Apart(table') /\ (rpc'[r] = "deliver" \/ On(table', r))
                   /\ rpc'[r] \in {"deliver", "returned"} /\ (rpc'[r] = "deliver" => ~On(table', r))
                   /\ \A x \in RecvId : x # r => (On(table', x) <=> On(table, x))
        <4>1. table' = [table EXCEPT ![k] = Append(@, r)] /\ rpc'[r] = "returned"
          BY <3>2, <1>t DEF RecvEnqueue, PushBack, RecvTypeOK
        <4>2. Apart(table') /\ \A x \in RecvId : On(table', x) <=> On(table, x) \/ x = r
          <5>1. Apart(table) /\ r \in Item
            BY <1>t, <1>i DEF ApartInv
          <5> QED
            BY <4>1, <5>1, <2>2, <1>t, PushBoard
        <4> QED
          BY <4>1, <4>2
      <3>3. ASSUME NEW k \in Key, RecvMatch(r, k)
            PROVE  /\ Apart(table') /\ (rpc'[r] = "deliver" \/ On(table', r))
                   /\ rpc'[r] \in {"deliver", "returned"} /\ (rpc'[r] = "deliver" => ~On(table', r))
                   /\ \A x \in RecvId : x # r => (On(table', x) <=> On(table, x))
        <4>1. /\ table' = [table EXCEPT ![k] = Tail(@)] /\ rpc'[r] = "deliver"
              /\ table[k] # <<>> /\ Head(table[k]) \in SendId
          BY <3>3, <1>t DEF RecvMatch, RecvTypeOK, HasMessage, IsSendValue
        <4>2. Apart(table') /\ \A x \in RecvId : On(table', x) <=> On(table, x)
          <5>1. Apart(table)
            BY <1>t DEF ApartInv
          <5>2. Apart(table') /\ \A x \in RecvId : On(table', x) <=> On(table, x) /\ x # Head(table[k])
            BY <4>1, <5>1, <1>t, PopBoard
          <5> QED
            BY <4>1, <5>2, <1>i
        <4> QED
          BY <4>1, <4>2, <2>2
      <3> QED
        BY <1>5, <3>1, <3>2, <3>3
    <2>5. PlaceInv'
      <3> SUFFICES ASSUME NEW x \in RecvId PROVE OnePlace(x)'
        BY DEF PlaceInv
      <3>1. OnePlace(x)
        BY <1>t DEF PlaceInv
      <3>2. CASE x = r
        BY <3>2, <2>1, <2>2, <2>3, <2>4 DEF OnePlace
      <3>3. CASE x # r
        BY <3>1, <3>3, <2>1, <2>3, <2>4 DEF OnePlace
      <3> QED
        BY <3>2, <3>3
    <2>6. ApartInv' /\ AbortedInv'
      BY <2>1, <2>4, <1>t DEF ApartInv, AbortedInv
    <2> QED
      BY <2>5, <2>6 DEF DoneInv
  <1>6. ASSUME NEW r \in RecvId, RecvDeliver(r)
        PROVE  DoneInv'
    <2>1. /\ rpc[r] = "deliver" /\ \A x \in RecvId : rpc'[x] = IF x = r THEN "returned" ELSE rpc[x]
          /\ UNCHANGED <<table, status, spc, waiter, apc, taken>>
          /\ InvokeDone(r, item[r]) /\ item[r] \in Msg
      BY <1>6, <1>t DEF RecvDeliver, RecvTypeOK, tableVars, sendVars, abortVars
    <2>2. OnePlace(r)
      BY <1>t DEF PlaceInv
    <2>3. /\ calls'[r] # <<>> /\ Len(calls'[r]) = 1
          /\ \A x \in RecvId : x # r => calls'[x] = calls[x]
      BY <2>1, <2>2, <1>t, DoneRuns DEF OnePlace
    <2>4. \A x \in RecvId : (InHand(x)' <=> InHand(x)) /\ (InTaken(x)' <=> InTaken(x))
      BY <2>1 DEF InHand, InTaken
    <2>5. PlaceInv'
      <3> SUFFICES ASSUME NEW x \in RecvId PROVE OnePlace(x)'
        BY DEF PlaceInv
      <3>1. OnePlace(x)
        BY <1>t DEF PlaceInv
      <3>2. CASE x = r
        BY <3>1, <3>2, <2>1, <2>3, <2>4 DEF OnePlace
      <3>3. CASE x # r
        BY <3>1, <3>3, <2>1, <2>3, <2>4 DEF OnePlace
      <3> QED
        BY <3>2, <3>3
    <2>6. ApartInv' /\ AbortedInv'
      BY <2>1, <1>t DEF ApartInv, AbortedInv
    <2> QED
      BY <2>5, <2>6 DEF DoneInv
  <1>7. ASSUME NEW a \in AbortId, AbortSwap(a)
        PROVE  DoneInv'
    <2>1. /\ apc[a] = "idle" /\ \A b \in AbortId : apc'[b] = IF b = a THEN "running" ELSE apc[b]
          /\ status' = FirstStatus(a)
          /\ \A b \in AbortId : taken'[b] = IF b = a THEN table ELSE taken[b]
          /\ table' = EmptyTable /\ UNCHANGED <<spc, waiter, rpc, calls>>
      BY <1>7, <1>t DEF AbortSwap, AbortTypeOK, sendVars, recvVars
    <2>2. taken[a] = EmptyTable /\ \A r \in RecvId : ~On(taken[a], r) /\ ~On(table', r)
      BY <2>1, <1>t, EmptyBoard DEF AbortedInv
    <2>3. \A r \in RecvId : /\ InTaken(r)' <=> InTaken(r) \/ On(table, r)
                            /\ InHand(r)' <=> InHand(r)
      <3>1. ASSUME NEW r \in RecvId, InTaken(r)' PROVE InTaken(r) \/ On(table, r)
        BY <3>1, <2>1 DEF InTaken
      <3>2. ASSUME NEW r \in RecvId, InTaken(r) \/ On(table, r) PROVE InTaken(r)'
        <4>1. CASE On(table, r)
          BY <4>1, <2>1 DEF InTaken
        <4>2. CASE InTaken(r)
          BY <4>2, <2>1, <2>2 DEF InTaken
        <4> QED
          BY <3>2, <4>1, <4>2
      <3> QED
        BY <3>1, <3>2, <2>1 DEF InHand
    <2>4. PlaceInv'
      <3> SUFFICES ASSUME NEW r \in RecvId PROVE OnePlace(r)'
        BY DEF PlaceInv
      <3>1. OnePlace(r)
        BY <1>t DEF PlaceInv
      <3> QED
        BY <3>1, <2>1, <2>2, <2>3 DEF OnePlace
    <2>5. ApartInv'
      <3>1. Apart(table')
        BY <2>1, EmptyBoard
      <3>2. \A b \in AbortId : Apart(taken'[b])
        BY <2>1, <1>t DEF ApartInv
      <3>3. ASSUME NEW b \in AbortId, NEW c \in AbortId, NEW r \in RecvId,
                   On(taken'[b], r), On(taken'[c], r)
            PROVE  b = c
        <4>1. OnePlace(r)
          BY <1>t DEF PlaceInv
        <4>2. CASE b = a /\ c # a
          BY <3>3, <4>1, <4>2, <2>1 DEF OnePlace, InTaken
        <4>3. CASE b # a /\ c = a
          BY <3>3, <4>1, <4>3, <2>1 DEF OnePlace, InTaken
        <4>4. CASE b # a /\ c # a
          BY <3>3, <4>4, <2>1, <1>t DEF ApartInv
        <4> QED
          BY <4>2, <4>3, <4>4
      <3> QED
        BY <3>1, <3>2, <3>3, <2>1, <1>t DEF ApartInv
    <2>6. AbortedInv'
      <3>1. status' = IF status = OK THEN a ELSE status
        BY <2>1 DEF FirstStatus
      <3>2. status' # OK /\ status' \in AbortId /\ apc'[status'] # "idle"
        BY <3>1, <2>1, <1>t, CallAssumption DEF AbortedInv
      <3> QED
        BY <3>2, <2>1, <1>t DEF AbortedInv
    <2> QED
      BY <2>4, <2>5, <2>6 DEF DoneInv
  <1>8. ASSUME NEW a \in AbortId, NEW k \in Key, AbortItem(a, k)
        PROVE  DoneInv'
    <2> DEFINE h == Head(taken[a][k])
               g == [taken[a] EXCEPT ![k] = Tail(@)]
    <2>1. /\ apc[a] = "running" /\ taken[a][k] # <<>> /\ taken[a] \in [Key -> Seq(Item)]
          /\ UNCHANGED <<table, status, spc, waiter, rpc, apc>>
      BY <1>8, <1>t DEF AbortItem, AbortTypeOK, tableVars, sendVars
    <2>2. \A b \in AbortId : taken'[b] = IF b = a THEN g ELSE taken[b]
      BY <1>8, <1>t DEF AbortItem, AbortTypeOK
    <2>3. /\ Apart(g) /\ On(taken[a], h)
          /\ \A r \in RecvId : On(g, r) <=> On(taken[a], r) /\ r # h
      BY <2>1, <1>t, PopBoard DEF ApartInv
    <2>4. h \in SendId \/ h \in RecvId
      BY <2>1, HeadOfQueue DEF IsSendValue
    <2>5. \A r \in RecvId : /\ InTaken(r)' <=> InTaken(r) /\ r # h
                            /\ InHand(r)' <=> InHand(r)
      <3>1. ASSUME NEW r \in RecvId, InTaken(r)' PROVE InTaken(r) /\ r # h
        <4>1. PICK b \in AbortId : On(taken'[b], r)
          BY <3>1 DEF InTaken
        <4>2. CASE b = a
          BY <4>1, <4>2, <2>2, <2>3 DEF InTaken
        <4>3. CASE b # a
          BY <4>1, <4>3, <2>2, <2>3, <1>t DEF InTaken, ApartInv
        <4> QED
          BY <4>2, <4>3
      <3>2. ASSUME NEW r \in RecvId, InTaken(r), r # h PROVE InTaken(r)'
        BY <3>2, <2>2, <2>3 DEF InTaken
      <3> QED
        BY <3>1, <3>2, <2>1 DEF InHand
    <2>6. /\ h \in RecvId => calls'[h] # <<>> /\ Len(calls'[h]) = 1
          /\ \A x \in RecvId : x # h => calls'[x] = calls[x]
      <3>1. CASE h \in SendId
        BY <3>1, <1>8, <1>i DEF AbortItem, IsSendValue
      <3>2. CASE h \in RecvId
        <4>1. InvokeDone(h, [status |-> a, value |-> NoTensor])
          BY <3>2, <1>8, <1>i DEF AbortItem, IsSendValue
        <4>2. [status |-> a, value |-> NoTensor] \in Msg
          BY DEF Msg, Status
        <4>3. OnePlace(h) /\ InTaken(h)
          BY <3>2, <2>3, <1>t DEF PlaceInv, InTaken
        <4> QED
          BY <4>1, <4>2, <4>3, <3>2, <1>t, DoneRuns DEF OnePlace
      <3> QED
        BY <2>4, <3>1, <3>2
    <2> HIDE DEF h, g
    <2>7. PlaceInv'
      <3> SUFFICES ASSUME NEW r \in RecvId PROVE OnePlace(r)'
        BY DEF PlaceInv
      <3>1. OnePlace(r)
        BY <1>t DEF PlaceInv
      <3>2. CASE r = h
        <4>1. InTaken(r)
          BY <3>2, <2>3 DEF InTaken
        <4> QED
          <5>1. ~On(table, r) /\ ~InTaken(r)' /\ ~InHand(r)' /\ rpc[r] # "deliver"
            BY <3>1, <3>2, <4>1, <2>5 DEF OnePlace
          <5>2. calls'[r] # <<>> /\ Len(calls'[r]) = 1 /\ rpc' = rpc /\ table' = table
            BY <3>2, <2>1, <2>6
          <5> QED
            BY <5>1, <5>2 DEF OnePlace
      <3>3. CASE r # h
        BY <3>1, <3>3, <2>1, <2>5, <2>6 DEF OnePlace
      <3> QED
        BY <3>2, <3>3
    <2>8. ApartInv'
      <3>1. \A b \in AbortId : Apart(taken'[b])
        BY <2>2, <2>3, <1>t DEF ApartInv
      <3>2. \A b \in AbortId : \A r \in RecvId : On(taken'[b], r) => On(taken[b], r)
        BY <2>2, <2>3
      <3> QED
        BY <3>1, <3>2, <2>1, <1>t DEF ApartInv
    <2>9. AbortedInv'
      BY <2>1, <2>2, <1>t DEF AbortedInv
    <2> QED
      BY <2>7, <2>8, <2>9 DEF DoneInv
  <1>9. ASSUME NEW a \in AbortId, AbortReturn(a)
        PROVE  DoneInv'
    <2>1. /\ UNCHANGED <<table, status, spc, waiter, rpc, calls, taken>>
          /\ \A b \in AbortId : apc'[b] = "idle" <=> apc[b] = "idle"
      BY <1>9, <1>t DEF AbortReturn, AbortTypeOK, tableVars, sendVars, recvVars
    <2> QED
      BY <2>1, <1>t DEF DoneInv, AbortedInv, ApartInv, PlaceInv, OnePlace, InTaken, InHand
  <1>10. CASE UNCHANGED vars \/ \E r \in RecvId : RecvTimeout(r)
    <2>1. UNCHANGED <<table, status, spc, waiter, rpc, calls, taken, apc>>
      BY <1>10 DEF vars, RecvTimeout, tableVars, sendVars, recvVars, abortVars
    <2> QED
      BY <2>1, <1>t DEF DoneInv, AbortedInv, ApartInv, PlaceInv, OnePlace, InTaken, InHand
  <1> QED
    BY <1>1, <1>2, <1>3, <1>4, <1>5, <1>6, <1>7, <1>8, <1>9, <1>10
       DEF Next, SendStep, RecvStep, AbortStep, StartAbort, Delete

(***************************************************************************)
(* Every done() runs once.                                                 *)
(***************************************************************************)

\* The places of r, one by one.
LEMMA PlacesAre ==
  ASSUME NEW r, NEW p
  PROVE  p \in Places(r) <=>
           \/ \E k \in Key : \E i \in 1..Len(table[k]) : table[k][i] = r /\ p = <<"table", k, i>>
           \/ \E a \in AbortId : \E k \in Key : \E i \in 1..Len(taken[a][k]) :
                taken[a][k][i] = r /\ p = <<"abort", a, k, i>>
           \/ \E s \in SendId : spc[s] = "notify" /\ waiter[s] = r /\ p = <<"send", s>>
           \/ rpc[r] = "deliver" /\ p = <<"recv", r>>
  <1>1. \A t, q : q \in QueuedAt(r, t) <=>
                    \E k \in Key : \E i \in 1..Len(t[k]) : t[k][i] = r /\ q = <<k, i>>
    BY DEF QueuedAt
  <1>0. \A k, i : <<k, i>>[1] = k /\ <<k, i>>[2] = i
    OBVIOUS
  <1>2. p \in {<<"table", q[1], q[2]>> : q \in QueuedAt(r, table)} <=>
          \E k \in Key : \E i \in 1..Len(table[k]) : table[k][i] = r /\ p = <<"table", k, i>>
    <2>1. ASSUME NEW q \in QueuedAt(r, table), p = <<"table", q[1], q[2]>>
          PROVE  \E k \in Key : \E i \in 1..Len(table[k]) : table[k][i] = r /\ p = <<"table", k, i>>
      BY <2>1, <1>0, <1>1
    <2>2. ASSUME NEW k \in Key, NEW i \in 1..Len(table[k]), table[k][i] = r, p = <<"table", k, i>>
          PROVE  \E q \in QueuedAt(r, table) : p = <<"table", q[1], q[2]>>
      <3>1. <<k, i>> \in QueuedAt(r, table)
        BY <2>2, <1>1
      <3> QED
        BY <3>1, <2>2, <1>0
    <2> QED
      BY <2>1, <2>2
  <1>3. p \in UNION {{<<"abort", a, q[1], q[2]>> : q \in QueuedAt(r, taken[a])} : a \in AbortId} <=>
          \E a \in AbortId : \E k \in Key : \E i \in 1..Len(taken[a][k]) :
            taken[a][k][i] = r /\ p = <<"abort", a, k, i>>
    <2>1. ASSUME NEW a \in AbortId, NEW q \in QueuedAt(r, taken[a]), p = <<"abort", a, q[1], q[2]>>
          PROVE  \E k \in Key : \E i \in 1..Len(taken[a][k]) :
                   taken[a][k][i] = r /\ p = <<"abort", a, k, i>>
      BY <2>1, <1>0, <1>1
    <2>2. ASSUME NEW a \in AbortId, NEW k \in Key, NEW i \in 1..Len(taken[a][k]),
                 taken[a][k][i] = r, p = <<"abort", a, k, i>>
          PROVE  \E q \in QueuedAt(r, taken[a]) : p = <<"abort", a, q[1], q[2]>>
      <3>1. <<k, i>> \in QueuedAt(r, taken[a])
        BY <2>2, <1>1
      <3> QED
        BY <3>1, <2>2, <1>0
    <2> QED
      BY <2>1, <2>2
  <1>4. p \in {<<"send", s>> : s \in {x \in SendId : spc[x] = "notify" /\ waiter[x] = r}} <=>
          \E s \in SendId : spc[s] = "notify" /\ waiter[s] = r /\ p = <<"send", s>>
    OBVIOUS
  <1>5. p \in {<<"recv", x>> : x \in {y \in {r} : rpc[y] = "deliver"}} <=>
          rpc[r] = "deliver" /\ p = <<"recv", r>>
    OBVIOUS
  <1> QED
    BY <1>2, <1>3, <1>4, <1>5 DEF Places

\* A receive that is nowhere has no place.
LEMMA NoPlace ==
  ASSUME NEW r, ~On(table, r), ~InTaken(r), ~InHand(r), rpc[r] # "deliver"
  PROVE  Places(r) = {}
  BY PlacesAre DEF On, InTaken, InHand

\* One that waits somewhere has that place and no other.
LEMMA OnlyPlace ==
  ASSUME ApartInv, NEW r \in RecvId, OnePlace(r),
         On(table, r) \/ InTaken(r) \/ InHand(r) \/ rpc[r] = "deliver"
  PROVE  \E p : Places(r) = {p}
  <1>1. CASE On(table, r)
    <2>0. ~InTaken(r) /\ ~InHand(r) /\ rpc[r] # "deliver"
      BY <1>1 DEF OnePlace
    <2>1. PICK k \in Key : \E i \in 1..Len(table[k]) : table[k][i] = r
      BY <1>1 DEF On
    <2>2. PICK i \in 1..Len(table[k]) : table[k][i] = r
      BY <2>1
    <2>3. \A l \in Key : \A j \in 1..Len(table[l]) : table[l][j] = r => l = k /\ j = i
      BY <2>2 DEF ApartInv, Apart
    <2>4. \A p : p \in Places(r) <=> p = <<"table", k, i>>
      BY <2>0, <2>2, <2>3, PlacesAre DEF On, InTaken, InHand
    <2>5. Places(r) = {<<"table", k, i>>}
      BY <2>4
    <2> QED
      BY <2>5
  <1>2. CASE InTaken(r)
    <2>0. ~On(table, r) /\ ~InHand(r) /\ rpc[r] # "deliver"
      BY <1>2 DEF OnePlace
    <2>1. PICK a \in AbortId : On(taken[a], r)
      BY <1>2 DEF InTaken
    <2>2. PICK k \in Key : \E i \in 1..Len(taken[a][k]) : taken[a][k][i] = r
      BY <2>1 DEF On
    <2>3. PICK i \in 1..Len(taken[a][k]) : taken[a][k][i] = r
      BY <2>2
    <2>4. ASSUME NEW b \in AbortId, NEW l \in Key, NEW j \in 1..Len(taken[b][l]), taken[b][l][j] = r
          PROVE  b = a /\ l = k /\ j = i
      <3>1. b = a
        BY <2>1, <2>4 DEF ApartInv, On
      <3> QED
        BY <3>1, <2>3, <2>4 DEF ApartInv, Apart
    <2>5. \A p : p \in Places(r) <=> p = <<"abort", a, k, i>>
      BY <2>0, <2>3, <2>4, PlacesAre DEF On, InHand
    <2>6. Places(r) = {<<"abort", a, k, i>>}
      BY <2>5
    <2> QED
      BY <2>6
  <1>3. CASE InHand(r)
    <2>0. ~On(table, r) /\ ~InTaken(r) /\ rpc[r] # "deliver"
      BY <1>3 DEF OnePlace
    <2>1. PICK s \in SendId : spc[s] = "notify" /\ waiter[s] = r
      BY <1>3 DEF InHand
    <2>2. \A t \in SendId : spc[t] = "notify" /\ waiter[t] = r => t = s
      BY <2>1 DEF ApartInv
    <2>3. \A p : p \in Places(r) <=> p = <<"send", s>>
      BY <2>0, <2>1, <2>2, PlacesAre DEF On, InTaken
    <2>4. Places(r) = {<<"send", s>>}
      BY <2>3
    <2> QED
      BY <2>4
  <1>4. CASE rpc[r] = "deliver"
    <2>0. ~On(table, r) /\ ~InTaken(r) /\ ~InHand(r)
      BY <1>4 DEF OnePlace
    <2>1. \A p : p \in Places(r) <=> p = <<"recv", r>>
      BY <2>0, <1>4, PlacesAre DEF On, InTaken, InHand
    <2>2. Places(r) = {<<"recv", r>>}
      BY <2>1
    <2> QED
      BY <2>2
  <1> QED
    BY <1>1, <1>2, <1>3, <1>4

\* The invariants hold in every reachable state.
LEMMA DoneInvariance == Spec => [](BaseInv /\ DoneInv)
  <1>1. Init => BaseInv /\ DoneInv
    BY InitTypeOK, InitQueueInv, InitDelivery, InitDone DEF BaseInv
  <1>2. (BaseInv /\ DoneInv) /\ [Next]_vars => (BaseInv /\ DoneInv)'
    <2> SUFFICES ASSUME BaseInv, DoneInv, [Next]_vars PROVE (BaseInv /\ DoneInv)'
      OBVIOUS
    <2>1. BaseInv'
      BY NextTypeOK, NextQueueInv, NextDelivery DEF BaseInv
    <2> QED
      BY <2>1, NextDone
  <1> QED
    BY <1>1, <1>2, PTL DEF Spec

\* A waiter is never lost and never called twice, however sends, receives,
\* aborts and the destructor interleave: its done() is in exactly one place (the
\* table, the hands of a Send, of its own RecvAsync, or of a StartAbort), or has
\* run once.
THEOREM DoneOnce == Spec => []DoneExactlyOnce
  <1>1. BaseInv /\ DoneInv => DoneExactlyOnce
    <2> SUFFICES ASSUME BaseInv, DoneInv, NEW r \in RecvId
                 PROVE  IF rpc[r] = "idle"
                          THEN Places(r) = {} /\ calls[r] = <<>>
                          ELSE \/ calls[r] = <<>> /\ \E p \in Places(r) : Places(r) = {p}
                               \/ Len(calls[r]) = 1 /\ Places(r) = {}
      BY DEF DoneExactlyOnce
    <2>1. /\ OnePlace(r) /\ ApartInv /\ calls[r] \in Seq(Msg)
          /\ rpc[r] \in {"idle", "deliver", "returned"}
      BY DEF DoneInv, PlaceInv, BaseInv, TypeOK, RecvTypeOK
    <2>2. CASE rpc[r] = "idle"
      BY <2>2, IdleIsNowhere, NoPlace
    <2>3. CASE On(table, r) \/ InTaken(r) \/ InHand(r) \/ rpc[r] = "deliver"
      <3>1. calls[r] = <<>> /\ \E p : Places(r) = {p}
        BY <2>1, <2>3, OnlyPlace DEF OnePlace
      <3> QED
        BY <2>2, <3>1
    <2>4. CASE rpc[r] = "returned" /\ ~(On(table, r) \/ InTaken(r) \/ InHand(r))
      <3>1. Places(r) = {}
        BY <2>4, NoPlace
      <3>2. calls[r] # <<>> /\ Len(calls[r]) <= 1
        BY <2>1, <2>4 DEF OnePlace
      <3>3. Len(calls[r]) \in Nat /\ Len(calls[r]) # 0
        BY <3>2, <2>1, EmptySeq
      <3>4. \A n \in Nat : n # 0 /\ n <= 1 => n = 1
        OBVIOUS
      <3>5. Len(calls[r]) = 1
        BY <3>2, <3>3, <3>4, Zenon
      <3> QED
        BY <3>1, <3>5, <2>4
    <2> QED
      BY <2>1, <2>2, <2>3, <2>4
  <1> QED
    BY <1>1, DoneInvariance, PTL

(***************************************************************************)
(* The refinement.                                                         *)
(***************************************************************************)

\* A send that has been accepted has been called.
SentInv == \A k \in Key : \A i \in 1..Len(sent[k]) : spc[sent[k][i]] # "idle"

\* What a thread carries out of the lock for a receive: its match, if the
\* receive was accepted, and otherwise the status of an abort.
HandInv ==
    /\ \A s \in SendId : spc[s] = "notify" => On(asked, waiter[s])
    /\ \A r \in RecvId :
         rpc[r] = "deliver" =>
             IF item[r].status = OK
               THEN On(asked, r)
               ELSE /\ ~On(asked, r) /\ item[r].value = NoTensor
                    /\ item[r].status \in AbortId /\ apc[item[r].status] # "idle"

\* No send matches r.
Unmatched(r) == \A k \in Key : \A i \in 1..Len(asked[k]) : asked[k][i] = r => i > Len(sent[k])

\* A waiter that an abort has taken has no match.
TakenInv == \A a \in AbortId : \A r \in RecvId : On(taken[a], r) => Unmatched(r)

RefInv == SentInv /\ HandInv /\ TakenInv

\* At the start.
LEMMA InitRef == Init => RefInv
  <1> SUFFICES ASSUME Init PROVE RefInv
    OBVIOUS
  <1>1. /\ sent = EmptyTable /\ \A a \in AbortId : taken[a] = EmptyTable
        /\ \A s \in SendId : spc[s] = "idle"
        /\ \A r \in RecvId : rpc[r] = "idle"
    BY DEF Init
  <1>2. \A k \in Key : Len(sent[k]) = 0
    BY <1>1 DEF EmptyTable
  <1> QED
    BY <1>1, <1>2, EmptyBoard DEF RefInv, SentInv, HandInv, TakenInv

\* What is in the histories after one call more.
LEMMA GrowOn ==
  ASSUME NEW S, NEW f \in [Key -> Seq(S)], NEW k \in Key, NEW x \in S
  PROVE  \A y : On([f EXCEPT ![k] = Append(@, x)], y) <=> On(f, y) \/ y = x
  <1> DEFINE g == [f EXCEPT ![k] = Append(@, x)]
  <1>1. /\ f[k] \in Seq(S) /\ Len(f[k]) \in Nat /\ Len(Append(f[k], x)) = Len(f[k]) + 1
        /\ \A i \in 1..Len(f[k]) : Append(f[k], x)[i] = f[k][i]
        /\ Append(f[k], x)[Len(f[k]) + 1] = x
    BY AppendProperties, LenProperties
  <1>2. g[k] = Append(f[k], x) /\ \A l \in Key : l # k => g[l] = f[l]
    OBVIOUS
  <1> HIDE DEF g
  <1>3. ASSUME NEW l \in Key, NEW i \in 1..Len(g[l])
        PROVE  (i \in 1..Len(f[l]) /\ g[l][i] = f[l][i]) \/ g[l][i] = x
    <2>1. CASE l = k
      BY <2>1, <1>1, <1>2
    <2>2. CASE l # k
      BY <2>2, <1>2
    <2> QED
      BY <2>1, <2>2
  <1>4. ASSUME NEW l \in Key, NEW i \in 1..Len(f[l])
        PROVE  i \in 1..Len(g[l]) /\ g[l][i] = f[l][i]
    <2>1. CASE l = k
      BY <2>1, <1>1, <1>2
    <2>2. CASE l # k
      BY <2>2, <1>2
    <2> QED
      BY <2>1, <2>2
  <1>5. Len(f[k]) + 1 \in 1..Len(g[k]) /\ g[k][Len(f[k]) + 1] = x
    BY <1>1, <1>2
  <1>6. ASSUME NEW y PROVE On(g, y) <=> On(f, y) \/ y = x
    <2>1. On(g, y) => On(f, y) \/ y = x
      BY <1>3 DEF On
    <2>2. On(f, y) => On(g, y)
      BY <1>4 DEF On
    <2>3. On(g, x)
      BY <1>5 DEF On
    <2> QED
      BY <2>1, <2>2, <2>3
  <1> QED
    BY <1>6 DEF g

\* Before an abort nothing has been taken, and no abort has begun.
LEMMA NothingTaken ==
  ASSUME DoneInv, status = OK
  PROVE  \A a \in AbortId : apc[a] = "idle" /\ \A r : ~On(taken[a], r)
  BY EmptyBoard DEF DoneInv, AbortedInv

\* A waiter in the table has no match.
LEMMA QueuedIsUnmatched ==
  ASSUME BaseInv, NEW r \in RecvId, On(table, r)
  PROVE  Unmatched(r)
  <1>1. /\ TypeOK /\ QueueInv /\ AskedInv
        /\ sent \in [Key -> Seq(SendId)] /\ asked \in [Key -> Seq(RecvId)]
    BY DEF BaseInv, DeliveryInv, TypeOK, TableTypeOK
  <1>2. status = OK
    BY <1>1, EmptyBoard DEF QueueInv, AbortedIsEmpty
  <1>3. PICK k \in Key : \E j \in 1..Len(table[k]) : table[k][j] = r
    BY DEF On
  <1>4. PICK j \in 1..Len(table[k]) : table[k][j] = r
    BY <1>3
  <1>5. table[k] = Rest(k) /\ sent[k] \in Seq(SendId) /\ asked[k] \in Seq(RecvId)
    BY <1>1, <1>2, QueueView
  <1>6. Len(sent[k]) < Len(asked[k])
    <2> SUFFICES ASSUME Len(sent[k]) >= Len(asked[k]) PROVE FALSE
      BY <1>5
    <2>1. /\ table[k] \in Seq(SendId)
      BY <1>5, ExcessProperties DEF Rest
    <2>2. table[k][j] \in SendId
      BY <2>1, <1>4
    <2> QED
      BY <2>2, <1>4, CallAssumption
  <1>7. /\ j \in 1..Len(asked[k]) - Len(sent[k])
        /\ table[k][j] = asked[k][Len(sent[k]) + j]
    <2>1. table[k] = Excess(asked[k], sent[k]) /\ Len(sent[k]) <= Len(asked[k])
      BY <1>5, <1>6 DEF Rest
    <2>2. /\ Len(Excess(asked[k], sent[k])) = Len(asked[k]) - Len(sent[k])
          /\ \A i \in 1..Len(asked[k]) - Len(sent[k]) :
               Excess(asked[k], sent[k])[i] = asked[k][Len(sent[k]) + i]
      <3>1. sent[k] \in Seq(SendId) /\ asked[k] \in Seq(RecvId) /\ Len(sent[k]) <= Len(asked[k])
        BY <1>5, <2>1
      <3>2. ASSUME NEW A \in Seq(RecvId), NEW B \in Seq(SendId), Len(B) <= Len(A)
            PROVE  /\ Len(Excess(A, B)) = Len(A) - Len(B)
                   /\ \A i \in 1..Len(A) - Len(B) : Excess(A, B)[i] = A[Len(B) + i]
        BY <3>2, ExcessProperties
      <3> QED
        BY <3>1, <3>2
    <2>3. j \in 1..Len(Excess(asked[k], sent[k]))
      BY <2>1
    <2>4. j \in 1..Len(asked[k]) - Len(sent[k])
      BY <2>2, <2>3
    <2> QED
      BY <2>1, <2>2, <2>4
  <1>8. Len(sent[k]) \in Nat /\ Len(asked[k]) \in Nat
    BY <1>5, LenProperties
  <1>9. Len(sent[k]) + j \in 1..Len(asked[k]) /\ Len(sent[k]) + j > Len(sent[k])
    BY <1>7, <1>8
  <1> SUFFICES ASSUME NEW l \in Key, NEW i \in 1..Len(asked[l]), asked[l][i] = r
               PROVE  i > Len(sent[l])
    BY DEF Unmatched
  <1>10. asked[k][Len(sent[k]) + j] = r
    BY <1>4, <1>7
  <1>11. l = k /\ i = Len(sent[k]) + j
    BY <1>1, <1>9, <1>10 DEF AskedInv
  <1> QED
    BY <1>9, <1>11

\* The steps keep what the refinement needs.
LEMMA NextRefInv == BaseInv /\ BaseInv' /\ DoneInv /\ RefInv /\ [Next]_vars => RefInv'
  <1> SUFFICES ASSUME BaseInv, BaseInv', DoneInv, RefInv, [Next]_vars PROVE RefInv'
    OBVIOUS
  <1>t. /\ TypeOK /\ TableTypeOK /\ SendTypeOK /\ RecvTypeOK /\ AbortTypeOK
        /\ SentInv /\ HandInv /\ TakenInv /\ QueueInv /\ AskedInv
        /\ sent \in [Key -> Seq(SendId)] /\ asked \in [Key -> Seq(RecvId)]
    BY DEF BaseInv, TypeOK, RefInv, TableTypeOK, DeliveryInv
  <1>1. ASSUME NEW s \in SendId, SendAborted(s) \/ SendNotify(s)
        PROVE  RefInv'
    <2>1. /\ \A t \in SendId : spc'[t] = IF t = s THEN "returned" ELSE spc[t]
          /\ UNCHANGED <<sent, asked, waiter, rpc, item, apc, taken>>
      BY <1>1, <1>t DEF SendAborted, SendNotify, SendTypeOK, tableVars, recvVars, abortVars
    <2>2. \A k \in Key : \A i \in 1..Len(sent[k]) : sent[k][i] \in SendId
      BY <1>t
    <2>3. SentInv'
      BY <2>1, <2>2, <1>t DEF SentInv
    <2>4. HandInv' /\ TakenInv'
      BY <2>1, <1>t DEF HandInv, TakenInv, Unmatched
    <2> QED
      BY <2>3, <2>4 DEF RefInv
  <1>2. ASSUME NEW s \in SendId, NEW k \in Key, SendEnqueue(s, k) \/ SendMatch(s, k)
        PROVE  RefInv'
    <2>1. /\ spc[s] = "idle" /\ status = OK /\ spc'[s] # "idle"
          /\ \A t \in SendId : t # s => spc'[t] = spc[t] /\ waiter'[t] = waiter[t]
          /\ sent' = [sent EXCEPT ![k] = Append(@, s)]
          /\ UNCHANGED <<asked, rpc, item, apc, taken>>
      BY <1>2, <1>t DEF SendEnqueue, SendMatch, SendTypeOK, recvVars, abortVars
    <2>2. \A y : On(sent', y) <=> On(sent, y) \/ y = s
      BY <2>1, <1>t, GrowOn
    <2>3. SentInv'
      <3> SUFFICES ASSUME NEW l \in Key, NEW i \in 1..Len(sent'[l])
                   PROVE  spc'[sent'[l][i]] # "idle"
        BY DEF SentInv
      <3>1. On(sent', sent'[l][i])
        BY DEF On
      <3>2. CASE sent'[l][i] = s
        BY <3>2, <2>1
      <3>3. CASE sent'[l][i] # s
        <4>1. PICK m \in Key : \E j \in 1..Len(sent[m]) : sent[m][j] = sent'[l][i]
          BY <3>1, <3>3, <2>2 DEF On
        <4>2. PICK j \in 1..Len(sent[m]) : sent[m][j] = sent'[l][i]
          BY <4>1
        <4>3. sent[m][j] \in SendId /\ spc[sent[m][j]] # "idle"
          BY <1>t DEF SentInv
        <4> QED
          BY <3>3, <4>2, <4>3, <2>1
      <3> QED
        BY <3>2, <3>3
    <2>4. spc'[s] = "notify" => On(asked, waiter'[s])
      <3>1. CASE SendMatch(s, k)
        <4>1. /\ Len(sent[k]) < Len(asked[k]) /\ waiter'[s] = asked[k][Len(sent[k]) + 1]
          BY <3>1, <2>1, <1>t, QueueView DEF SendMatch, SendTypeOK
        <4>2. Len(sent[k]) + 1 \in 1..Len(asked[k])
          BY <4>1, <1>t
        <4> QED
          BY <4>1, <4>2 DEF On
      <3>2. CASE SendEnqueue(s, k)
        BY <3>2, <1>t DEF SendEnqueue, SendTypeOK
      <3> QED
        BY <1>2, <3>1, <3>2
    <2>5. HandInv'
      BY <2>1, <2>4, <1>t DEF HandInv
    <2>6. TakenInv'
      BY <2>1, NothingTaken DEF TakenInv
    <2> QED
      BY <2>3, <2>5, <2>6 DEF RefInv
  <1>3. ASSUME NEW r \in RecvId, RecvAborted(r)
        PROVE  RefInv'
    <2>1. /\ rpc[r] = "idle" /\ status # OK /\ item'[r].status = status /\ item'[r].value = NoTensor
          /\ \A x \in RecvId : x # r => rpc'[x] = rpc[x] /\ item'[x] = item[x]
          /\ UNCHANGED <<sent, asked, spc, waiter, apc, taken>>
      BY <1>3, <1>t DEF RecvAborted, RecvTypeOK, tableVars, sendVars, abortVars
    <2>2. ~On(asked, r)
      BY <2>1, <1>t DEF AskedInv, On
    <2>3. status \in AbortId /\ apc[status] # "idle"
      BY <2>1 DEF DoneInv, AbortedInv
    <2>4. HandInv'
      BY <2>1, <2>2, <2>3, <1>t DEF HandInv
    <2>5. SentInv' /\ TakenInv'
      BY <2>1, <1>t DEF SentInv, TakenInv, Unmatched
    <2> QED
      BY <2>4, <2>5 DEF RefInv
  <1>4. ASSUME NEW r \in RecvId, NEW k \in Key, RecvEnqueue(r, k) \/ RecvMatch(r, k)
        PROVE  RefInv'
    <2>1. /\ rpc[r] = "idle" /\ status = OK
          /\ rpc'[r] = "returned" \/ item'[r].status = OK
          /\ \A x \in RecvId : x # r => rpc'[x] = rpc[x] /\ item'[x] = item[x]
          /\ asked' = [asked EXCEPT ![k] = Append(@, r)]
          /\ UNCHANGED <<sent, spc, waiter, apc, taken>>
      BY <1>4, <1>t DEF RecvEnqueue, RecvMatch, RecvTypeOK, sendVars, abortVars
    <2>2. \A y : On(asked', y) <=> On(asked, y) \/ y = r
      BY <2>1, <1>t, GrowOn
    <2>3. HandInv'
      <3>1. \A s \in SendId : spc'[s] = "notify" => On(asked', waiter'[s])
        BY <2>1, <2>2, <1>t DEF HandInv
      <3>2. ASSUME NEW x \in RecvId, rpc'[x] = "deliver"
            PROVE  IF item'[x].status = OK
                     THEN On(asked', x)
                     ELSE /\ ~On(asked', x) /\ item'[x].value = NoTensor
                          /\ item'[x].status \in AbortId /\ apc'[item'[x].status] # "idle"
        <4>1. CASE x = r
          BY <4>1, <3>2, <2>1, <2>2
        <4>2. CASE x # r
          BY <4>2, <3>2, <2>1, <2>2, <1>t DEF HandInv
        <4> QED
          BY <4>1, <4>2
      <3> QED
        BY <3>1, <3>2 DEF HandInv
    <2>4. SentInv' /\ TakenInv'
      BY <2>1, <1>t, NothingTaken DEF SentInv, TakenInv
    <2> QED
      BY <2>3, <2>4 DEF RefInv
  <1>5. ASSUME NEW r \in RecvId, RecvDeliver(r)
        PROVE  RefInv'
    <2>1. /\ \A x \in RecvId : rpc'[x] = IF x = r THEN "returned" ELSE rpc[x]
          /\ UNCHANGED <<sent, asked, spc, waiter, item, apc, taken>>
      BY <1>5, <1>t DEF RecvDeliver, RecvTypeOK, tableVars, sendVars, abortVars
    <2> QED
      BY <2>1, <1>t DEF RefInv, SentInv, HandInv, TakenInv, Unmatched
  <1>6. ASSUME NEW a \in AbortId, AbortSwap(a)
        PROVE  RefInv'
    <2>1. /\ \A b \in AbortId : apc'[b] = IF b = a THEN "running" ELSE apc[b]
          /\ \A b \in AbortId : taken'[b] = IF b = a THEN table ELSE taken[b]
          /\ UNCHANGED <<sent, asked, spc, waiter, rpc, item>>
      BY <1>6, <1>t DEF AbortSwap, AbortTypeOK, sendVars, recvVars
    <2>2. \A r \in RecvId : Unmatched(r)' <=> Unmatched(r)
      BY <2>1 DEF Unmatched
    <2>3. TakenInv'
      BY <2>1, <2>2, <1>t, QueuedIsUnmatched DEF TakenInv
    <2>4. SentInv' /\ HandInv'
      BY <2>1, <1>t DEF SentInv, HandInv
    <2> QED
      BY <2>3, <2>4 DEF RefInv
  <1>7. ASSUME NEW a \in AbortId, NEW k \in Key, AbortItem(a, k)
        PROVE  RefInv'
    <2> DEFINE g == [taken[a] EXCEPT ![k] = Tail(@)]
    <2>1. /\ taken[a][k] # <<>> /\ taken[a] \in [Key -> Seq(Item)] /\ Apart(taken[a])
          /\ UNCHANGED <<sent, asked, spc, waiter, rpc, item, apc>>
      BY <1>7, <1>t DEF AbortItem, AbortTypeOK, tableVars, sendVars, DoneInv, ApartInv
    <2>2. \A b \in AbortId : taken'[b] = IF b = a THEN g ELSE taken[b]
      BY <1>7, <1>t DEF AbortItem, AbortTypeOK
    <2>3. \A r \in RecvId : On(g, r) => On(taken[a], r)
      BY <2>1, PopBoard
    <2> HIDE DEF g
    <2>4. TakenInv'
      BY <2>1, <2>2, <2>3, <1>t DEF TakenInv, Unmatched
    <2>5. SentInv' /\ HandInv'
      BY <2>1, <1>t DEF SentInv, HandInv
    <2> QED
      BY <2>4, <2>5 DEF RefInv
  <1>8. ASSUME NEW a \in AbortId, AbortReturn(a)
        PROVE  RefInv'
    <2>1. /\ UNCHANGED <<sent, asked, spc, waiter, rpc, item, taken>>
          /\ \A b \in AbortId : apc'[b] = "idle" <=> apc[b] = "idle"
      BY <1>8, <1>t DEF AbortReturn, AbortTypeOK, tableVars, sendVars, recvVars
    <2>2. HandInv'
      BY <2>1, <1>t DEF HandInv
    <2>3. SentInv' /\ TakenInv'
      BY <2>1, <1>t DEF SentInv, TakenInv, Unmatched
    <2> QED
      BY <2>2, <2>3 DEF RefInv
  <1>9. CASE UNCHANGED vars \/ \E r \in RecvId : RecvTimeout(r)
    <2>1. UNCHANGED <<sent, asked, spc, waiter, rpc, item, taken, apc>>
      BY <1>9 DEF vars, RecvTimeout, tableVars, sendVars, recvVars, abortVars
    <2> QED
      BY <2>1, <1>t DEF RefInv, SentInv, HandInv, TakenInv, Unmatched
  <1> QED
    BY <1>1, <1>2, <1>3, <1>4, <1>5, <1>6, <1>7, <1>8, <1>9
       DEF Next, SendStep, RecvStep, AbortStep, StartAbort, Delete

\* Each step is a step of the channels, or none.
LEMMA StepRefines ==
    BaseInv /\ DoneInv /\ RefInv /\ [Next]_vars => [Abstract!ChannelNext]_(Abstract!cvars)
  <1> SUFFICES ASSUME BaseInv, DoneInv, RefInv, [Next]_vars
               PROVE  Abstract!ChannelNext \/ UNCHANGED Abstract!cvars
    OBVIOUS
  <1> DEFINE aborted == {a \in AbortId : apc[a] # "idle"}
  <1>t. /\ TypeOK /\ TableTypeOK /\ SendTypeOK /\ RecvTypeOK /\ AbortTypeOK
        /\ SentInv /\ HandInv /\ TakenInv
    BY DEF BaseInv, TypeOK, RefInv
  <1>1. ASSUME NEW s \in SendId, NEW k \in Key, SendEnqueue(s, k) \/ SendMatch(s, k)
        PROVE  Abstract!ChannelNext
    <2>1. /\ spc[s] = "idle" /\ status = OK /\ sent' = [sent EXCEPT ![k] = Append(@, s)]
          /\ UNCHANGED <<asked, calls, apc>>
      BY <1>1 DEF SendEnqueue, SendMatch, recvVars, abortVars
    <2>2. aborted = {} /\ aborted' = aborted
      BY <2>1, NothingTaken
    <2>3. ~Abstract!Accepted(s, sent)
      BY <2>1, <1>t DEF Abstract!Accepted, SentInv
    <2>4. Abstract!ChannelSend(s, k)
      BY <2>1, <2>2, <2>3 DEF Abstract!ChannelSend
    <2> QED
      BY <2>4 DEF Abstract!ChannelNext
  <1>2. ASSUME NEW r \in RecvId, NEW k \in Key, RecvEnqueue(r, k) \/ RecvMatch(r, k)
        PROVE  Abstract!ChannelNext
    <2>1. /\ rpc[r] = "idle" /\ status = OK /\ asked' = [asked EXCEPT ![k] = Append(@, r)]
          /\ UNCHANGED <<sent, calls, apc>>
      BY <1>2 DEF RecvEnqueue, RecvMatch, abortVars
    <2>2. aborted = {} /\ aborted' = aborted
      BY <2>1, NothingTaken
    <2>3. ~Abstract!Accepted(r, asked)
      BY <2>1 DEF Abstract!Accepted, BaseInv, DeliveryInv, AskedInv
    <2>4. Abstract!ChannelRecv(r, k)
      BY <2>1, <2>2, <2>3 DEF Abstract!ChannelRecv
    <2> QED
      BY <2>4 DEF Abstract!ChannelNext
  <1>3. ASSUME NEW a \in AbortId, AbortSwap(a)
        PROVE  Abstract!ChannelNext
    <2>1. /\ apc[a] = "idle" /\ \A b \in AbortId : apc'[b] = IF b = a THEN "running" ELSE apc[b]
          /\ UNCHANGED <<sent, asked, calls>>
      BY <1>3, <1>t DEF AbortSwap, AbortTypeOK, recvVars
    <2>2. a \notin aborted /\ aborted' = aborted \cup {a}
      BY <2>1
    <2>3. Abstract!ChannelAbort(a)
      BY <2>1, <2>2 DEF Abstract!ChannelAbort
    <2> QED
      BY <2>3 DEF Abstract!ChannelNext
  <1>4. ASSUME NEW s \in SendId, SendNotify(s)
        PROVE  Abstract!ChannelNext
    <2> DEFINE h == waiter[s]
               m == [status |-> OK, value |-> s]
    <2>1. /\ spc[s] = "notify" /\ InvokeDone(h, m) /\ UNCHANGED <<sent, asked, apc>>
      BY <1>4 DEF SendNotify, tableVars, abortVars
    <2>2. h \in RecvId /\ MatchedBy(h, s) /\ On(asked, h) /\ m \in Msg
      BY <2>1, <1>t DEF BaseInv, DeliveryInv, StartedInv, CarriedInv, HandInv, Msg, Status
    <2>3. calls[h] = <<>>
      BY <2>1, <2>2 DEF DoneInv, PlaceInv, OnePlace, InHand
    <2>4. calls' = [calls EXCEPT ![h] = <<m>>]
      BY <2>1, <2>2, <2>3, <1>t, DoneRuns
    <2>5. PICK k \in Key : \E i \in 1..Len(asked[k]) : asked[k][i] = h
      BY <2>2 DEF On
    <2>6. PICK i \in 1..Len(asked[k]) : asked[k][i] = h
      BY <2>5
    <2>7. i <= Len(sent[k]) /\ sent[k][i] = s
      BY <2>2, <2>6 DEF MatchedBy
    <2>8. Abstract!Deliver(h)
      BY <2>1, <2>3, <2>4, <2>6, <2>7 DEF Abstract!Deliver
    <2> QED
      BY <2>2, <2>8 DEF Abstract!ChannelNext
  <1>5. ASSUME NEW r \in RecvId, RecvDeliver(r)
        PROVE  Abstract!ChannelNext
    <2>1. /\ rpc[r] = "deliver" /\ InvokeDone(r, item[r]) /\ UNCHANGED <<sent, asked, apc>>
      BY <1>5 DEF RecvDeliver, tableVars, abortVars
    <2>2. item[r] \in Msg /\ calls[r] = <<>>
      BY <2>1, <1>t DEF RecvTypeOK, DoneInv, PlaceInv, OnePlace
    <2>3. calls' = [calls EXCEPT ![r] = <<item[r]>>]
      BY <2>1, <2>2, <1>t, DoneRuns
    <2>4. item[r] = [status |-> item[r].status, value |-> item[r].value]
      BY <2>2 DEF Msg
    <2>5. CASE item[r].status = OK
      <3>1. On(asked, r) /\ MatchedBy(r, item[r].value)
        BY <2>1, <2>5, <1>t DEF HandInv, BaseInv, DeliveryInv, CarriedInv
      <3>2. PICK k \in Key : \E i \in 1..Len(asked[k]) : asked[k][i] = r
        BY <3>1 DEF On
      <3>3. PICK i \in 1..Len(asked[k]) : asked[k][i] = r
        BY <3>2
      <3>4. i <= Len(sent[k]) /\ sent[k][i] = item[r].value
        BY <3>1, <3>3 DEF MatchedBy
      <3>5. calls' = [calls EXCEPT ![r] = <<[status |-> OK, value |-> sent[k][i]]>>]
        BY <2>3, <2>4, <2>5, <3>4
      <3>6. Abstract!Deliver(r)
        BY <2>1, <2>2, <3>3, <3>4, <3>5 DEF Abstract!Deliver
      <3> QED
        BY <3>6 DEF Abstract!ChannelNext
    <2>6. CASE item[r].status # OK
      <3>1. ~On(asked, r) /\ item[r].value = NoTensor /\ item[r].status \in aborted
        BY <2>1, <2>6, <1>t DEF HandInv
      <3>2. calls' = [calls EXCEPT ![r] = <<[status |-> item[r].status, value |-> NoTensor]>>]
        BY <2>3, <2>4, <3>1
      <3>3. \A k \in Key : \A i \in 1..Len(asked[k]) : asked[k][i] # r
        BY <3>1 DEF On
      <3>4. Abstract!Fail(r)
        BY <2>1, <2>2, <3>1, <3>2, <3>3 DEF Abstract!Fail
      <3> QED
        BY <3>4 DEF Abstract!ChannelNext
    <2> QED
      BY <2>5, <2>6
  <1>6. ASSUME NEW a \in AbortId, NEW k \in Key, AbortItem(a, k)
        PROVE  Abstract!ChannelNext \/ UNCHANGED Abstract!cvars
    <2> DEFINE h == Head(taken[a][k])
               m == [status |-> a, value |-> NoTensor]
    <2>1. /\ apc[a] = "running" /\ UNCHANGED <<sent, asked, apc>> /\ a \in aborted
          /\ taken[a] \in [Key -> Seq(Item)] /\ taken[a][k] # <<>> /\ Apart(taken[a])
      BY <1>6, <1>t DEF AbortItem, AbortTypeOK, tableVars, DoneInv, ApartInv
    <2>2. CASE IsSendValue(h)
      BY <2>1, <2>2, <1>6 DEF AbortItem, Abstract!cvars
    <2>3. CASE ~IsSendValue(h)
      <3>1. InvokeDone(h, m) /\ m \in Msg
        BY <2>3, <1>6 DEF AbortItem, Msg, Status
      <3>2. h \in RecvId
        BY <2>1, <2>3, HeadOfQueue
      <3>3. On(taken[a], h)
        BY <2>1, PopBoard
      <3>4. calls[h] = <<>> /\ Unmatched(h)
        BY <3>2, <3>3, <1>t DEF DoneInv, PlaceInv, OnePlace, InTaken, TakenInv
      <3>5. calls' = [calls EXCEPT ![h] = <<m>>]
        BY <3>1, <3>2, <3>4, <1>t, DoneRuns
      <3>6. Abstract!Fail(h)
        BY <2>1, <3>4, <3>5 DEF Abstract!Fail, Unmatched
      <3> QED
        BY <3>2, <3>6 DEF Abstract!ChannelNext
    <2> QED
      BY <2>2, <2>3
  <1>7. CASE \/ \E s \in SendId : SendAborted(s)
             \/ \E r \in RecvId : RecvAborted(r) \/ RecvTimeout(r)
             \/ \E a \in AbortId : AbortReturn(a)
             \/ UNCHANGED vars
    <2>1. /\ UNCHANGED <<sent, asked, calls>>
          /\ \A b \in AbortId : apc'[b] = "idle" <=> apc[b] = "idle"
      BY <1>7, <1>t DEF SendAborted, RecvAborted, RecvTimeout, AbortReturn, AbortTypeOK,
                        vars, tableVars, recvVars, abortVars
    <2>2. aborted' = aborted
      BY <2>1
    <2> QED
      BY <2>1, <2>2 DEF Abstract!cvars
  <1> QED
    BY <1>1, <1>2, <1>3, <1>4, <1>5, <1>6, <1>7
       DEF Next, SendStep, RecvStep, AbortStep, StartAbort, Delete

\* The rendezvous implements the channels: whatever the table, the lock and the
\* threads that carry callbacks out of it do, a receive of a key gets the send
\* at its place, and fails only if there is none and an abort has come.
THEOREM Refinement == Spec => ImplementsChannels
  <1>1. Init => Abstract!ChannelInit
    BY DEF Init, Abstract!ChannelInit, EmptyTable
  <1>2. Init => BaseInv /\ DoneInv /\ RefInv
    BY InitTypeOK, InitQueueInv, InitDelivery, InitDone, InitRef DEF BaseInv
  <1>3. (BaseInv /\ DoneInv /\ RefInv) /\ [Next]_vars => (BaseInv /\ DoneInv /\ RefInv)'
    <2> SUFFICES ASSUME BaseInv, DoneInv, RefInv, [Next]_vars
                 PROVE  (BaseInv /\ DoneInv /\ RefInv)'
      OBVIOUS
    <2>1. BaseInv'
      BY NextTypeOK, NextQueueInv, NextDelivery DEF BaseInv
    <2> QED
      BY <2>1, NextDone, NextRefInv
  <1> QED
    BY <1>1, <1>2, <1>3, StepRefines, PTL DEF Spec, ImplementsChannels, Abstract!Spec
=============================================================================
