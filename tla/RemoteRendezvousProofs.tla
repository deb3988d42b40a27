----------------------- MODULE RemoteRendezvousProofs -----------------------
(***************************************************************************)
(* Proofs about a worker's rendezvous, for any number of requests, calls,  *)
(* tensors, aborts and clean-ups: references, active calls, answers, and   *)
(* the CHECK of RecvOutputs.                                               *)
(***************************************************************************)
EXTENDS RemoteRendezvous, FiniteSetTheorems, SequenceTheorems, TLAPS

(***************************************************************************)
(* The inductive invariant.                                                *)
(***************************************************************************)

\* A thread has found a rendezvous exactly when it has begun; the operations of
\* the step use the step's and wait for Execute.
PlaceInv ==
    /\ \A t \in Request \cup Aborter : at[t] = 0 <=> pc[t] \in {"absent", "idle"}
    /\ \A x \in Cleaner : /\ pc[x] \in {"absent", "idle"} => at[x] = 0
                          /\ pc[x] \in {"abort", "abort calls", "unref"} => at[x] # 0
    /\ at[Step] = 0 <=> pc[Step] = "idle"
    /\ pc[Step] \in {"outputs", "crash"} => at[Out] # 0
    /\ at[Out] # 0 => pc[Step] \in {"outputs", "unref", "done", "crash"}
    /\ pc[Step] \in {"idle", "found", "flush"} =>
         \A o \in StepOp : pc[o] \in {"absent", "idle"}

\* Whoever waits in local_ is there, at its own rendezvous.
WaitInv ==
    \A i \in 1..Len(rendez) : \A x \in rendez[i].waiting : pc[x] = "waiting" /\ Inst(x) = i

\* The rendezvous of the step, and no other, is initialized, by Initialize.
SessionInv ==
    \A i \in 1..Len(rendez) :
        rendez[i].session <=> (at[Step] = i /\ pc[Step] \notin {"idle", "found"})

\* The step ends when its operations have been answered.
OverInv == pc[Step] \in {"outputs", "unref", "done", "crash"} => StepDone

\* An active call is one of the step's.
ActiveInv ==
    \A i \in 1..Len(rendez) : \A c \in rendez[i].active :
        pc[c] \in {"registered", "flying", "deregister"} /\ at[Step] = i

\* A call that is under way can be aborted, or has been.
InFlightInv ==
    \A c \in Call :
        pc[c] \in {"registered", "flying", "deregister"} =>
            IF Mine(c).status = "ok" THEN c \in Mine(c).active ELSE call[c].status = "error"

\* Until the step is cleaned up, all of its lookups give the same rendezvous.
CleanInv ==
    \/ CleanedUp
    \/ /\ at[Step] # 0 => table = at[Step]
       /\ at[Out] # 0 => at[Out] = at[Step]
       /\ pc[Step] # "crash"

Inv ==
    /\ ShapeOK /\ PlaceInv /\ WaitInv /\ SessionInv /\ OverInv /\ ActiveInv /\ InFlightInv
    /\ CleanInv /\ DoneExactlyOnce /\ DeferredAwaitInitialize

(***************************************************************************)
(* Threads.                                                                *)
(***************************************************************************)

\* What kinds of thread there are, and that they are different.
LEMMA Kinds ==
  /\ \A q \in Request : q \in Op /\ q \notin StepOp /\ q \notin Key /\ q \notin Call
                         /\ q \in Receiver
  /\ \A k \in Key : k \in Op /\ k \in StepOp /\ k \notin Request /\ k \notin Call
                    /\ k \notin Receiver
  /\ \A c \in Call : c \in Op /\ c \in StepOp /\ c \notin Request /\ c \notin Key
  /\ \A c \in LocalCall : c \in Call /\ c \in Receiver
  /\ \A x \in Receiver : x \in Request \/ x \in LocalCall
  /\ \A o \in StepOp : o \in Op /\ o \notin Request /\ (o \in Key \/ o \in Call)
  /\ \A o \in Op : /\ o \in Thread /\ o \notin Aborter /\ o \notin Cleaner /\ o # Step /\ o # Out
                   /\ o \in Request \/ o \in StepOp
  /\ \A a \in Aborter : a \in Thread /\ a \notin Op /\ a \notin StepOp /\ a \notin Cleaner
                        /\ a # Step /\ a # Out
  /\ \A x \in Cleaner : x \in Thread /\ x \notin Op /\ x \notin StepOp /\ x \notin Aborter
                        /\ x # Step /\ x # Out
  /\ Step \in Thread /\ Step \notin Op /\ Step \notin StepOp
  /\ Step \notin Aborter /\ Step \notin Cleaner
  /\ Out \in Thread /\ Out \notin Op /\ Out \notin StepOp
  /\ Out \notin Aborter /\ Out \notin Cleaner
  /\ Step # Out
  BY ThreadAssumption, RemoteAssumption DEF Thread, Op, StepOp, Receiver

\* The labels of each kind of thread.
LEMMA LabelFacts ==
  /\ \A q \in Request : Labels(q) = {"absent", "idle", "found", "deferred", "recv", "local",
                                     "waiting", "answered"}
  /\ \A k \in Key : Labels(k) = {"absent", "idle", "start", "send", "answered"}
  /\ \A c \in LocalCall : Labels(c) = {"absent", "idle", "start", "local", "waiting", "answered"}
  /\ \A c \in Call \ LocalCall :
       Labels(c) = {"absent", "idle", "start", "register", "registered", "flying", "deregister",
                    "report", "release", "answered"}
  /\ \A t \in Aborter \cup Cleaner :
       Labels(t) = {"absent", "idle", "abort", "abort calls", "unref", "done"}
  /\ Labels(Step) = {"idle", "found", "flush", "running", "abort", "abort calls", "failing",
                     "outputs", "unref", "done", "crash"}
  /\ Labels(Out) = {"idle"}
  <1>1. \A q \in Request : Labels(q) = {"absent", "idle", "found", "deferred", "recv", "local",
                                        "waiting", "answered"}
    BY Kinds DEF Labels
  <1>2. \A k \in Key : Labels(k) = {"absent", "idle", "start", "send", "answered"}
    BY Kinds DEF Labels
  <1>3. \A c \in LocalCall :
          Labels(c) = {"absent", "idle", "start", "local", "waiting", "answered"}
    BY Kinds DEF Labels
  <1>4. \A c \in Call \ LocalCall :
          Labels(c) = {"absent", "idle", "start", "register", "registered", "flying",
                       "deregister", "report", "release", "answered"}
    BY Kinds DEF Labels
  <1>5. \A t \in Aborter \cup Cleaner :
          Labels(t) = {"absent", "idle", "abort", "abort calls", "unref", "done"}
    BY Kinds DEF Labels
  <1>6. Labels(Step) = {"idle", "found", "flush", "running", "abort", "abort calls", "failing",
                        "outputs", "unref", "done", "crash"}
    BY Kinds DEF Labels
  <1>7. Labels(Out) = {"idle"}
    BY Kinds DEF Labels
  <1> QED
    BY <1>1, <1>2, <1>3, <1>4, <1>5, <1>6, <1>7

\* Every operation may be answered.
LEMMA AnsweredLabel == \A o \in Op : "answered" \in Labels(o)
  <1> SUFFICES ASSUME NEW o \in Op PROVE "answered" \in Labels(o)
    OBVIOUS
  <1>1. CASE o \in Request
    BY <1>1, LabelFacts
  <1>2. CASE o \in Key
    BY <1>2, LabelFacts
  <1>3. CASE o \in LocalCall
    BY <1>3, LabelFacts
  <1>4. CASE o \in Call \ LocalCall
    BY <1>4, LabelFacts
  <1> QED
    BY <1>1, <1>2, <1>3, <1>4, Kinds

\* A set of requests can be counted.
LEMMA RequestsFinite ==
  ASSUME NEW X
  PROVE  IsFiniteSet(X \cap Request) /\ Cardinality(X \cap Request) \in Nat
  <1>1. X \cap Request \in SUBSET Thread
    BY Kinds
  <1>2. IsFiniteSet(X \cap Request)
    BY <1>1, ThreadAssumption, FS_Subset
  <1> QED
    BY <1>2, FS_CardinalityType

(***************************************************************************)
(* What a sequence holds.                                                  *)
(***************************************************************************)

\* Appending adds an element.
LEMMA RangeAppend ==
  ASSUME NEW S, NEW s \in Seq(S), NEW e \in S
  PROVE  Range(Append(s, e)) = Range(s) \cup {e}
  <1>1. /\ Append(s, e) \in Seq(S) /\ Len(Append(s, e)) = Len(s) + 1 /\ Len(s) \in Nat
        /\ \A i \in 1..Len(s) : Append(s, e)[i] = s[i]
        /\ Append(s, e)[Len(s) + 1] = e
        /\ DOMAIN s = 1..Len(s) /\ DOMAIN Append(s, e) = 1..Len(s) + 1
    BY AppendProperties, LenProperties
  <1> QED
    BY <1>1 DEF Range

\* The tail holds all but possibly the head.
LEMMA RangeTail ==
  ASSUME NEW S, NEW s \in Seq(S), s # <<>>
  PROVE  Range(s) = Range(Tail(s)) \cup {Head(s)}
  <1>1. /\ Tail(s) \in Seq(S) /\ Len(Tail(s)) = Len(s) - 1 /\ Len(s) \in Nat \ {0}
        /\ \A i \in 1..Len(Tail(s)) : Tail(s)[i] = s[i + 1]
        /\ DOMAIN s = 1..Len(s) /\ DOMAIN Tail(s) = 1..Len(s) - 1 /\ Head(s) = s[1]
    BY HeadTailProperties, LenProperties, EmptySeq
  <1>2. ASSUME NEW i \in 1..Len(s) PROVE s[i] \in Range(Tail(s)) \cup {Head(s)}
    <2>1. CASE i = 1
      BY <2>1, <1>1
    <2>2. CASE i # 1
      <3>1. i - 1 \in 1..Len(s) - 1 /\ Tail(s)[i - 1] = s[i]
        BY <2>2, <1>1
      <3> QED
        BY <3>1, <1>1 DEF Range
    <2> QED
      BY <2>1, <2>2
  <1>3. ASSUME NEW i \in 1..Len(s) - 1 PROVE Tail(s)[i] \in Range(s)
    BY <1>1 DEF Range
  <1>4. Head(s) \in Range(s)
    BY <1>1 DEF Range
  <1> QED
    BY <1>1, <1>2, <1>3, <1>4 DEF Range

(***************************************************************************)
(* How the list of rendezvous changes.                                     *)
(***************************************************************************)

\* Every entry of the list is a rendezvous, and every thread's is one of them.
LEMMA ListFacts ==
  ASSUME ShapeOK
  PROVE  /\ rendez \in Seq(RendezvousType) /\ Len(rendez) \in Nat
         /\ \A i \in 1..Len(rendez) : rendez[i] \in RendezvousType
         /\ \A t \in Thread : /\ at[t] \in 0..Len(rendez)
                              /\ at[t] # 0 => at[t] \in 1..Len(rendez)
         /\ table \in 0..Len(rendez)
         /\ DOMAIN pc = Thread /\ DOMAIN at = Thread
  <1>1. rendez \in Seq(RendezvousType) /\ table \in 0..Len(rendez)
        /\ at \in [Thread -> 0..Len(rendez)] /\ DOMAIN pc = Thread
    BY DEF ShapeOK, ListTypeOK, PcTypeOK
  <1> QED
    BY <1>1

\* Whoever has begun has found a rendezvous.
LEMMA HasRendezvous ==
  ASSUME Inv
  PROVE  /\ \A q \in Request : pc[q] \notin {"absent", "idle"} => at[q] \in 1..Len(rendez)
         /\ \A o \in StepOp : pc[o] \notin {"absent", "idle"} => at[Step] \in 1..Len(rendez)
         /\ \A t \in Aborter \cup Cleaner :
              pc[t] \in {"abort", "abort calls", "unref"} => at[t] \in 1..Len(rendez)
         /\ pc[Step] # "idle" => at[Step] \in 1..Len(rendez)
         /\ pc[Step] \in {"outputs", "crash"} => at[Out] \in 1..Len(rendez)
  <1>1. ShapeOK /\ PlaceInv
    BY DEF Inv
  <1> QED
    BY <1>1, ListFacts, Kinds DEF PlaceInv

\* Rendezvous i is replaced by r.
Put(i, r) ==
    /\ rendez' \in Seq(RendezvousType) /\ Len(rendez') = Len(rendez)
    /\ rendez'[i] = r
    /\ \A j \in 1..Len(rendez) : j # i => rendez'[j] = rendez[j]

\* What replacing an entry of the list does.
LEMMA PutRendezvous ==
  ASSUME ShapeOK, NEW i \in 1..Len(rendez), NEW r \in RendezvousType,
         rendez' = [rendez EXCEPT ![i] = r]
  PROVE  Put(i, r)
  BY ListFacts, ExceptSeq DEF Put

\* Two records of a rendezvous differ at most in refs and in buffered and aborted.
Alike(r, s) ==
    /\ r.session = s.session /\ r.status = s.status /\ r.deferred = s.deferred
    /\ r.active = s.active /\ r.waiting = s.waiting

\* Only the references of rendezvous change.
Kept ==
    /\ rendez' \in Seq(RendezvousType) /\ Len(rendez') = Len(rendez)
    /\ \A j \in 1..Len(rendez) : Alike(rendez'[j], rendez[j])

\* Giving up references does not change anything else.
LEMMA UnrefRendezvous ==
  ASSUME NEW r \in RendezvousType, NEW X
  PROVE  /\ Unref(r, X) \in RendezvousType /\ Alike(Unref(r, X), r)
         /\ Unref(r, X).refs = r.refs - Cardinality(X \cap Request)
  <1> DEFINE n == r.refs - Cardinality(X \cap Request)
  <1>1. n \in Int
    <2>1. r.refs \in Int
      BY DEF RendezvousType
    <2>2. Cardinality(X \cap Request) \in Nat
      BY RequestsFinite
    <2> QED
      BY <2>1, <2>2
  <1>2. Unref(r, X) = [r EXCEPT !.refs = n]
    BY DEF Unref
  <1> HIDE DEF n
  <1>3. /\ [r EXCEPT !.refs = n] \in RendezvousType /\ [r EXCEPT !.refs = n].refs = n
        /\ Alike([r EXCEPT !.refs = n], r)
    BY <1>1 DEF RendezvousType, Alike
  <1> QED
    BY <1>2, <1>3 DEF n

\* A list that is not changed is kept.
LEMMA SameKept ==
  ASSUME ShapeOK, rendez' = rendez
  PROVE  Kept
  BY ListFacts DEF Kept, Alike

\* Changing the references of one rendezvous keeps the list.
LEMMA RefsKept ==
  ASSUME ShapeOK, NEW i \in 1..Len(rendez), NEW n \in Int,
         rendez' = [rendez EXCEPT ![i].refs = n]
  PROVE  Kept /\ Put(i, [rendez[i] EXCEPT !.refs = n])
  <1> DEFINE r == [rendez[i] EXCEPT !.refs = n]
  <1>1. r \in RendezvousType /\ Alike(r, rendez[i])
    BY ListFacts DEF RendezvousType, Alike
  <1>2. Put(i, r)
    BY <1>1, PutRendezvous
  <1> QED
    BY <1>1, <1>2, ListFacts DEF Kept, Put, Alike

(***************************************************************************)
(* The invariant, action by action.                                        *)
(***************************************************************************)

\* Steps that neither look up nor initialize leave the deferred requests where
\* they are, apart from those they defer.
LEMMA DeferredFrame ==
  ASSUME Inv, UNCHANGED <<at, todo>>,
         \A j \in 1..Len(rendez) : /\ rendez'[j].session = rendez[j].session
                                   /\ Range(rendez[j].deferred) \subseteq Range(rendez'[j].deferred),
         \A q \in Request :
            pc'[q] = "deferred" =>
                pc[q] = "deferred" \/ (~Mine(q)'.session /\ q \in Range(Mine(q)'.deferred))
  PROVE  DeferredAwaitInitialize'
  <1> SUFFICES ASSUME NEW q \in Request, pc'[q] = "deferred", pc[q] = "deferred"
               PROVE  IF Mine(q)'.session THEN q \in Range(todo')
                                          ELSE q \in Range(Mine(q)'.deferred)
    BY DEF DeferredAwaitInitialize
  <1>1. IF Mine(q).session THEN q \in Range(todo) ELSE q \in Range(Mine(q).deferred)
    BY DEF Inv, DeferredAwaitInitialize
  <1>2. Inst(q) \in 1..Len(rendez) /\ Inst(q)' = Inst(q)
    BY Kinds, HasRendezvous DEF Inst
  <1> QED
    BY <1>1, <1>2 DEF Mine

\* Steps that keep status_ and active_ leave the calls under way as they are.
LEMMA InFlightFrame ==
  ASSUME Inv, at'[Step] = at[Step],
         \A j \in 1..Len(rendez) : /\ rendez'[j].status = rendez[j].status
                                   /\ rendez'[j].active = rendez[j].active,
         \A c \in Call : call[c].status = "error" => call'[c].status = "error",
         \A c \in Call : pc'[c] \in {"registered", "flying", "deregister"} =>
                             pc[c] \in {"registered", "flying", "deregister"}
  PROVE  InFlightInv'
  <1> SUFFICES ASSUME NEW c \in Call, pc[c] \in {"registered", "flying", "deregister"}
               PROVE  IF Mine(c)'.status = "ok" THEN c \in Mine(c)'.active
                                                ELSE call'[c].status = "error"
    BY DEF InFlightInv
  <1>1. IF Mine(c).status = "ok" THEN c \in Mine(c).active ELSE call[c].status = "error"
    BY DEF Inv, InFlightInv
  <1>2. Inst(c) \in 1..Len(rendez) /\ Inst(c)' = Inst(c)
    BY Kinds, HasRendezvous DEF Inst
  <1> QED
    BY <1>1, <1>2 DEF Mine

\* The steps in which one thread t goes on to l and nothing changes that others
\* see, references apart.
PlainStep(t, l) ==
    \/ t \in Request /\ pc[t] = "found" /\ l = "recv"
    \/ t \in Request /\ pc[t] = "recv" /\ l = "local"
    \/ t \in Key /\ pc[t] = "start" /\ l = "send"
    \/ t \in LocalCall /\ pc[t] = "start" /\ l = "local"
    \/ t \in Call \ LocalCall /\ pc[t] = "start" /\ l = "register"
    \/ t \in Call \ LocalCall /\ pc[t] = "registered" /\ l = "flying"
    \/ t \in Call \ LocalCall /\ pc[t] = "flying" /\ l = "deregister"
    \/ t \in Call \ LocalCall /\ pc[t] = "release" /\ l = "answered"
    \/ t \in Aborter \cup Cleaner /\ pc[t] = "unref" /\ l = "done"
    \/ t = Step /\ pc[t] = "unref" /\ l = "done"
    \/ t = Step /\ pc[t] = "running" /\ l = "abort"
    \/ t = Step /\ pc[t] = "failing" /\ l = "unref" /\ StepDone
    \/ t = Step /\ pc[t] = "outputs" /\ l = "unref"
    \/ t = Step /\ pc[t] = "flush" /\ l = "unref"
    \/ t = Step /\ pc[t] = "outputs" /\ l = "crash" /\ ~rendez[at[Out]].session

\* They lead to labels of their thread.
LEMMA PlainLabels ==
  ASSUME NEW t \in Thread, NEW l, PlainStep(t, l)
  PROVE  l \in Labels(t)
  <1>1. CASE t \in Request
    BY <1>1, Kinds, LabelFacts DEF PlainStep
  <1>2. CASE t \in Key
    BY <1>2, Kinds, LabelFacts DEF PlainStep
  <1>3. CASE t \in LocalCall
    BY <1>3, Kinds, LabelFacts DEF PlainStep
  <1>4. CASE t \in Call \ LocalCall
    BY <1>4, Kinds, LabelFacts DEF PlainStep
  <1>5. CASE t \in Aborter \cup Cleaner
    BY <1>5, Kinds, LabelFacts DEF PlainStep
  <1>6. CASE t = Step
    BY <1>6, Kinds, LabelFacts DEF PlainStep
  <1> QED
    BY <1>1, <1>2, <1>3, <1>4, <1>5, <1>6 DEF PlainStep

\* Plain steps keep the invariant.
LEMMA InvPlain ==
  ASSUME Inv, NEW t \in Thread, NEW l, PlainStep(t, l),
         pc' = [pc EXCEPT ![t] = l], Kept, UNCHANGED <<table, at, todo, answers>>,
         call' \in [Call -> CallType],
         \A c \in Call : call[c].status = "error" => call'[c].status = "error"
  PROVE  Inv'
  <1>1. ShapeOK
    BY DEF Inv
  <1>2. \A u \in Thread : pc'[u] = IF u = t THEN l ELSE pc[u]
    BY <1>1, ListFacts
  <1>3. PcTypeOK'
    <2>1. PcTypeOK /\ DOMAIN pc' = Thread
      BY <1>1 DEF ShapeOK, PcTypeOK
    <2>2. l \in Labels(t)
      BY PlainLabels
    <2> QED
      BY <2>1, <2>2, <1>2 DEF PcTypeOK
  <1>4. ListTypeOK' /\ DataTypeOK'
    BY <1>1 DEF ShapeOK, ListTypeOK, DataTypeOK, Kept
  <1>5. PlaceInv'
    BY <1>2, Kinds DEF PlainStep, Inv, PlaceInv
  <1>6. OverInv' /\ DoneExactlyOnce'
    BY <1>2, Kinds DEF PlainStep, Inv, PlaceInv, OverInv, StepDone, DoneExactlyOnce
  <1>7. WaitInv'
    BY <1>2, Kinds DEF PlainStep, Inv, WaitInv, Inst, Kept, Alike
  <1>8. SessionInv'
    BY <1>2, Kinds DEF PlainStep, Inv, SessionInv, Kept, Alike
  <1>9. ActiveInv'
    BY <1>2, Kinds DEF PlainStep, Inv, ActiveInv, Kept, Alike
  <1>10. InFlightInv'
    <2>1. \A c \in Call : pc'[c] \in {"registered", "flying", "deregister"} =>
                              pc[c] \in {"registered", "flying", "deregister"}
      BY <1>2, Kinds DEF PlainStep
    <2> QED
      BY <2>1, InFlightFrame DEF Kept, Alike
  <1>11. DeferredAwaitInitialize'
    <2>1. \A q \in Request : pc'[q] = "deferred" => pc[q] = "deferred"
      BY <1>2, Kinds DEF PlainStep
    <2> QED
      BY <2>1, DeferredFrame DEF Kept, Alike
  <1>12. CleanInv'
    <2>1. CASE CleanedUp
      BY <2>1 DEF CleanInv, CleanedUp
    <2>2. CASE /\ at[Step] # 0 => table = at[Step]
               /\ at[Out] # 0 => at[Out] = at[Step]
               /\ pc[Step] # "crash"
      <3>1. ASSUME t = Step, l = "crash" PROVE FALSE
        <4>1. pc[Step] = "outputs" /\ ~rendez[at[Out]].session
          BY <3>1, Kinds DEF PlainStep
        <4>2. at[Out] \in 1..Len(rendez) /\ Len(rendez) \in Nat
          BY <4>1, <1>1, HasRendezvous, ListFacts
        <4>3. at[Step] = at[Out] /\ pc[Step] \notin {"idle", "found"}
          <5>1. at[Out] # 0
            BY <4>2
          <5> QED
            BY <5>1, <4>1, <2>2
        <4>4. rendez[at[Out]].session
          BY <4>2, <4>3 DEF Inv, SessionInv
        <4> QED
          BY <4>1, <4>4
      <3> QED
        BY <2>2, <3>1, <1>2, Kinds DEF CleanInv
    <2> QED
      BY <2>1, <2>2 DEF Inv, CleanInv
  <1> QED
    BY <1>3, <1>4, <1>5, <1>6, <1>7, <1>8, <1>9, <1>10, <1>11, <1>12 DEF Inv, ShapeOK

\* Whoever waits in local_ is a receiver that has not been answered.
LEMMA Waiters ==
  ASSUME Inv, NEW i \in 1..Len(rendez), NEW x \in rendez[i].waiting
  PROVE  x \in Receiver /\ x \in Op /\ x \in Thread /\ pc[x] = "waiting" /\ Inst(x) = i
  <1>1. rendez[i] \in RendezvousType
    BY ListFacts DEF Inv
  <1>2. x \in Receiver
    BY <1>1 DEF RendezvousType
  <1> QED
    BY <1>2, Kinds DEF Inv, WaitInv

\* An active call is a remote one of the step, under way.
LEMMA ActiveCalls ==
  ASSUME Inv, NEW i \in 1..Len(rendez), NEW c \in rendez[i].active
  PROVE  /\ c \in Call \ LocalCall /\ c \in Thread
         /\ pc[c] \in {"registered", "flying", "deregister"} /\ at[Step] = i
  <1>1. rendez[i] \in RendezvousType
    BY ListFacts DEF Inv
  <1>2. c \in Call \ LocalCall
    BY <1>1 DEF RendezvousType
  <1> QED
    BY <1>2, Kinds DEF Inv, ActiveInv

\* A record from which waiting receivers are taken off.
Served(r, m, X) ==
    /\ r \in RendezvousType /\ X \subseteq m.waiting /\ r.waiting \subseteq m.waiting \ X
    /\ r.session = m.session /\ r.status = m.status /\ r.deferred = m.deferred
    /\ r.active = m.active

\* Finishing an operation, and with it waiting ones, keeps the invariant.
LEMMA InvFinish ==
  ASSUME Inv, NEW t \in Op, NEW r, NEW s \in Status, NEW X,
         pc[t] \in {"recv", "local", "start", "send"}, Served(Unref(r, {t} \cup X), Mine(t), X),
         FinishWith(t, r, s, X), UNCHANGED <<table, at, todo, call>>
  PROVE  Inv'
  <1> DEFINE i == Inst(t)
             n == Unref(r, {t} \cup X)
  <1>1. ShapeOK
    BY DEF Inv
  <1>2. i \in 1..Len(rendez) /\ i' = i
    BY Kinds, HasRendezvous DEF Inst
  <1>3. /\ n \in RendezvousType /\ X \subseteq rendez[i].waiting
        /\ n.waiting \subseteq rendez[i].waiting \ X
        /\ n.session = rendez[i].session /\ n.status = rendez[i].status
        /\ n.deferred = rendez[i].deferred /\ n.active = rendez[i].active
    BY DEF Served, Mine
  <1>4. Put(i, n)
    BY <1>1, <1>2, <1>3, PutRendezvous DEF FinishWith
  <1>5. \A x \in X : x \in Receiver /\ x \in Op /\ x \in Thread /\ pc[x] = "waiting" /\ Inst(x) = i
    BY <1>2, <1>3, Waiters
  <1>6. /\ DOMAIN pc' = Thread
        /\ \A u \in Thread : pc'[u] = IF u = t \/ u \in X THEN "answered" ELSE pc[u]
    BY DEF FinishWith
  <1>7. /\ DOMAIN answers' = Op
        /\ \A o \in Op : answers'[o] = IF o = t \/ o \in X THEN Append(answers[o], s) ELSE answers[o]
    BY DEF FinishWith, Answered
  <1>8. \A o \in Op : answers[o] \in Seq(Status)
    BY <1>1 DEF ShapeOK, DataTypeOK
  <1>9. t \in Thread
    BY Kinds
  <1> HIDE DEF i, n
  <1>10. PcTypeOK'
    <2>1. \A u \in Thread : pc[u] \in Labels(u)
      BY <1>1 DEF ShapeOK, PcTypeOK
    <2> QED
      BY <2>1, <1>5, <1>6, AnsweredLabel DEF PcTypeOK
  <1>11. ListTypeOK'
    BY <1>1, <1>4 DEF ShapeOK, ListTypeOK, Put
  <1>12. DataTypeOK'
    <2>1. ASSUME NEW o \in Op PROVE answers'[o] \in Seq(Status)
      <3>1. answers[o] \in Seq(Status) /\ Append(answers[o], s) \in Seq(Status)
        BY <1>8, AppendProperties
      <3> QED
        BY <3>1, <1>7
    <2>2. answers' = [o \in Op |-> IF o \in {t} \cup X THEN Append(answers[o], s) ELSE answers[o]]
      BY DEF FinishWith, Answered
    <2>3. answers' \in [Op -> Seq(Status)]
      BY <2>1, <2>2
    <2> QED
      BY <2>3, <1>1 DEF ShapeOK, DataTypeOK
  <1>13. PlaceInv'
    BY <1>5, <1>6, <1>9, Kinds DEF Inv, PlaceInv
  <1>14. OverInv'
    BY <1>5, <1>6, <1>7, <1>8, <1>9, Kinds DEF Inv, OverInv, StepDone
  <1>15. DoneExactlyOnce'
    <2> SUFFICES ASSUME NEW o \in Op
                 PROVE  Len(answers'[o]) = IF pc'[o] \in {"answered", "release"} THEN 1 ELSE 0
      BY DEF DoneExactlyOnce
    <2>1. Len(answers[o]) = IF pc[o] \in {"answered", "release"} THEN 1 ELSE 0
      BY DEF Inv, DoneExactlyOnce
    <2>2. answers[o] \in Seq(Status) /\ o \in Thread
      BY <1>8, Kinds
    <2>3. CASE o = t \/ o \in X
      <3>1. Len(answers[o]) = 0
        BY <2>1, <2>3, <1>5
      <3>2. answers'[o] = Append(answers[o], s) /\ pc'[o] = "answered"
        BY <2>2, <2>3, <1>6, <1>7
      <3> QED
        BY <3>1, <3>2, <2>2
    <2>4. CASE ~(o = t \/ o \in X)
      BY <2>1, <2>2, <2>4, <1>6, <1>7
    <2> QED
      BY <2>3, <2>4
  <1>16. WaitInv'
    <2> SUFFICES ASSUME NEW j \in 1..Len(rendez), NEW x \in rendez'[j].waiting
                 PROVE  pc'[x] = "waiting" /\ Inst(x)' = j
      BY <1>4 DEF WaitInv, Put
    <2>1. x \in rendez[j].waiting /\ (j = i => x \notin X)
      BY <1>3, <1>4 DEF Put
    <2>2. x \in Thread /\ pc[x] = "waiting" /\ Inst(x) = j
      BY <2>1, Waiters
    <2>3. x # t /\ x \notin X
      BY <2>1, <2>2, <1>5
    <2> QED
      BY <2>2, <2>3, <1>6 DEF Inst
  <1>17. SessionInv'
    BY <1>2, <1>3, <1>4, <1>5, <1>6, <1>9, Kinds DEF Inv, SessionInv, Put
  <1>18. ActiveInv'
    <2> SUFFICES ASSUME NEW j \in 1..Len(rendez), NEW c \in rendez'[j].active
                 PROVE  pc'[c] \in {"registered", "flying", "deregister"} /\ at'[Step] = j
      BY <1>4 DEF ActiveInv, Put
    <2>1. c \in rendez[j].active
      BY <1>3, <1>4 DEF Put
    <2>2. c \in Thread /\ pc[c] \in {"registered", "flying", "deregister"} /\ at[Step] = j
      BY <2>1, ActiveCalls
    <2>3. c # t /\ c \notin X
      BY <2>2, <1>5
    <2> QED
      BY <2>2, <2>3, <1>6
  <1>19. InFlightInv'
    <2>1. \A c \in Call : pc'[c] \in {"registered", "flying", "deregister"} =>
                              pc[c] \in {"registered", "flying", "deregister"}
      BY <1>6, Kinds
    <2> QED
      BY <2>1, <1>3, <1>4, InFlightFrame DEF Put
  <1>20. DeferredAwaitInitialize'
    <2>1. \A q \in Request : pc'[q] = "deferred" => pc[q] = "deferred"
      BY <1>6, Kinds
    <2> QED
      BY <2>1, <1>3, <1>4, DeferredFrame DEF Put
  <1>21. CleanInv'
    BY <1>5, <1>6, <1>9, Kinds DEF Inv, CleanInv, CleanedUp
  <1> QED
    BY <1>10, <1>11, <1>12, <1>13, <1>14, <1>15, <1>16, <1>17, <1>18, <1>19, <1>20, <1>21
       DEF Inv, ShapeOK

\* A rendezvous nobody has used yet.
Fresh(r) ==
    /\ ~r.session /\ r.status = "ok" /\ r.deferred = <<>> /\ r.active = {} /\ r.waiting = {}

\* What FindOrCreate does: t gets the rendezvous in the table, with a reference, and
\* if there is none then a fresh one is put there.
LEMMA LookedUp ==
  ASSUME ShapeOK, NEW t \in Thread, FindOrCreate(t)
  PROVE  /\ rendez' \in Seq(RendezvousType) /\ Len(rendez) <= Len(rendez')
         /\ table' \in 1..Len(rendez') /\ (table # 0 => table' = table)
         /\ at' = [at EXCEPT ![t] = table']
         /\ \A j \in 1..Len(rendez) :
              /\ Alike(rendez'[j], rendez[j])
              /\ rendez'[j].refs = rendez[j].refs + (IF j = table' THEN 1 ELSE 0)
         /\ \A j \in 1..Len(rendez') :
              j \notin 1..Len(rendez) =>
                  table = 0 /\ j = table' /\ Fresh(rendez'[j]) /\ rendez'[j].refs = 2
  <1>1. CASE table # 0
    <2>1. table \in 1..Len(rendez)
      BY <1>1, ListFacts
    <2>2. /\ rendez' = [rendez EXCEPT ![table].refs = rendez[table].refs + 1]
          /\ at' = [at EXCEPT ![t] = table] /\ table' = table
      BY <1>1 DEF FindOrCreate
    <2>3. rendez[table] \in RendezvousType /\ rendez[table].refs + 1 \in Int
      BY <2>1, ListFacts DEF RendezvousType
    <2>4. Kept /\ Put(table, [rendez[table] EXCEPT !.refs = rendez[table].refs + 1])
      BY <2>1, <2>2, <2>3, RefsKept
    <2>5. \A j \in 1..Len(rendez) :
            rendez'[j].refs = rendez[j].refs + (IF j = table THEN 1 ELSE 0)
      <3>1. /\ rendez'[table] = [rendez[table] EXCEPT !.refs = rendez[table].refs + 1]
            /\ \A j \in 1..Len(rendez) : j # table => rendez'[j] = rendez[j]
        BY <2>4 DEF Put
      <3>2. rendez'[table].refs = rendez[table].refs + 1
        BY <3>1, <2>3 DEF RendezvousType
      <3>3. \A j \in 1..Len(rendez) : rendez[j].refs \in Int
        BY ListFacts DEF RendezvousType
      <3>4. ASSUME NEW j \in 1..Len(rendez)
            PROVE  rendez'[j].refs = rendez[j].refs + (IF j = table THEN 1 ELSE 0)
        <4>1. CASE j = table
          BY <4>1, <3>2
        <4>2. CASE j # table
          BY <4>2, <3>1, <3>3
        <4> QED
          BY <4>1, <4>2
      <3> QED
        BY <3>4
    <2>6. /\ rendez' \in Seq(RendezvousType) /\ Len(rendez') = Len(rendez)
          /\ \A j \in 1..Len(rendez) : Alike(rendez'[j], rendez[j])
      BY <2>4 DEF Kept
    <2>7. Len(rendez) \in Nat
      BY ListFacts
    <2> QED
      BY <1>1, <2>1, <2>2, <2>5, <2>6, <2>7
  <1>2. CASE table = 0
    <2> DEFINE r == [NewRendezvous EXCEPT !.refs = 2]
    <2>1. /\ rendez' = Append(rendez, r) /\ table' = Len(rendez) + 1
          /\ at' = [at EXCEPT ![t] = table']
      BY <1>2 DEF FindOrCreate
    <2>2. r \in RendezvousType /\ Fresh(r) /\ r.refs = 2
      <3>1. <<>> \in Seq(Request) /\ "ok" \in Status
        BY EmptySeq DEF Status
      <3>2. NewRendezvous \in RendezvousType /\ Fresh(NewRendezvous)
        BY <3>1 DEF NewRendezvous, RendezvousType, Fresh
      <3> QED
        BY <3>2 DEF RendezvousType, Fresh
    <2> HIDE DEF r
    <2>3. /\ rendez' \in Seq(RendezvousType) /\ Len(rendez') = Len(rendez) + 1
          /\ \A j \in 1..Len(rendez) : rendez'[j] = rendez[j]
          /\ rendez'[Len(rendez) + 1] = r
      BY <2>1, <2>2, ListFacts, AppendProperties
    <2>4. Len(rendez) \in Nat
      BY ListFacts
    <2>5. \A j \in 1..Len(rendez) : rendez[j].refs \in Int /\ j # table'
      BY <2>1, <2>4, ListFacts DEF RendezvousType
    <2>6. \A j \in 1..Len(rendez') : j \notin 1..Len(rendez) => j = Len(rendez) + 1
      BY <2>3, <2>4
    <2> QED
      BY <1>2, <2>1, <2>2, <2>3, <2>4, <2>5, <2>6 DEF Alike
  <1> QED
    BY <1>1, <1>2

\* A rendezvous that FindOrCreate finds in the list was in the table.
LEMMA NewIsBeyond ==
  ASSUME ShapeOK, NEW t \in Thread, FindOrCreate(t), table' \in 1..Len(rendez)
  PROVE  table = table'
  <1>1. Len(rendez) \in Nat
    BY ListFacts
  <1> QED
    BY <1>1 DEF FindOrCreate

\* The steps that look the step's rendezvous up: thread t does, thread u goes on to l.
LookupStep(t, u, l) ==
    \/ t \in Request /\ u = t /\ pc[u] = "idle" /\ l = "found"
    \/ t \in Aborter /\ u = t /\ pc[u] = "idle" /\ l = "abort"
    \/ t = Step /\ u = t /\ pc[u] = "idle" /\ l = "found"
    \/ t = Out /\ u = Step /\ pc[u] = "running" /\ l = "outputs" /\ StepDone

\* Who looks a rendezvous up has none.
LEMMA LookupFacts ==
  ASSUME Inv, NEW t, NEW u, NEW l, LookupStep(t, u, l)
  PROVE  t \in Thread /\ u \in Thread /\ l \in Labels(u) /\ at[t] = 0
  <1>1. PlaceInv
    BY DEF Inv
  <1>2. t \in Thread /\ u \in Thread
    BY Kinds DEF LookupStep
  <1>3. l \in Labels(u)
    BY Kinds, LabelFacts DEF LookupStep
  <1>4. at[t] = 0
    BY <1>1, Kinds DEF LookupStep, PlaceInv
  <1> QED
    BY <1>2, <1>3, <1>4

\* Looking a rendezvous up keeps the invariant.
LEMMA InvLookup ==
  ASSUME Inv, NEW t, NEW u, NEW l, LookupStep(t, u, l),
         pc' = [pc EXCEPT ![u] = l], FindOrCreate(t), UNCHANGED <<todo, call, answers>>
  PROVE  Inv'
  <1>1. ShapeOK
    BY DEF Inv
  <1>2. t \in Thread /\ u \in Thread /\ l \in Labels(u) /\ at[t] = 0
    BY LookupFacts
  <1>3. /\ rendez' \in Seq(RendezvousType) /\ Len(rendez) <= Len(rendez')
        /\ table' \in 1..Len(rendez') /\ (table # 0 => table' = table)
        /\ at' = [at EXCEPT ![t] = table']
        /\ \A j \in 1..Len(rendez) : Alike(rendez'[j], rendez[j])
        /\ \A j \in 1..Len(rendez') : j \notin 1..Len(rendez) => Fresh(rendez'[j])
    BY <1>1, <1>2, LookedUp
  <1>4. /\ DOMAIN pc' = Thread
        /\ \A v \in Thread : pc'[v] = IF v = u THEN l ELSE pc[v]
    BY <1>1, ListFacts
  <1>5. /\ DOMAIN at' = Thread
        /\ \A v \in Thread : at'[v] = IF v = t THEN table' ELSE at[v]
    BY <1>1, <1>3, ListFacts
  <1>6. /\ Len(rendez) \in Nat /\ Len(rendez') \in Nat /\ Len(rendez) <= Len(rendez')
        /\ table' \in 1..Len(rendez') /\ table' # 0 /\ (table # 0 => table' = table)
    <2>1. Len(rendez) \in Nat
      BY <1>1, ListFacts
    <2>2. Len(rendez') \in Nat
      BY <1>3, LenProperties
    <2>3. Len(rendez) <= Len(rendez') /\ table' \in 1..Len(rendez') /\ (table # 0 => table' = table)
      BY <1>3
    <2> QED
      BY <2>1, <2>2, <2>3
  <1>7. \A j \in 1..Len(rendez) : j \in 1..Len(rendez')
    BY <1>3, <1>6
  <1>8. PcTypeOK'
    BY <1>1, <1>2, <1>4 DEF ShapeOK, PcTypeOK
  <1>9. ListTypeOK' /\ DataTypeOK'
    <2>1. at' \in [Thread -> 0..Len(rendez')]
      <3>1. \A v \in Thread : at[v] \in 0..Len(rendez)
        BY <1>1, ListFacts
      <3>2. \A v \in Thread : at'[v] \in 0..Len(rendez')
        BY <3>1, <1>5, <1>6
      <3> QED
        BY <3>2, <1>3, <1>1 DEF ShapeOK, ListTypeOK
    <2>2. table' \in 0..Len(rendez')
      BY <1>6
    <2>3. DataTypeOK'
      BY <1>1 DEF ShapeOK, DataTypeOK
    <2> QED
      BY <2>1, <2>2, <2>3, <1>3 DEF ListTypeOK
  <1>10. PlaceInv'
    <2>1. PlaceInv
      BY DEF Inv
    <2>2. CASE t \in Request /\ u = t /\ pc[u] = "idle" /\ l = "found"
      BY <2>1, <2>2, <1>4, <1>5, <1>6, Kinds DEF PlaceInv
    <2>3. CASE t \in Aborter /\ u = t /\ pc[u] = "idle" /\ l = "abort"
      BY <2>1, <2>3, <1>4, <1>5, <1>6, Kinds DEF PlaceInv
    <2>4. CASE t = Step /\ u = t /\ pc[u] = "idle" /\ l = "found"
      BY <2>1, <2>4, <1>4, <1>5, <1>6, Kinds DEF PlaceInv
    <2>5. CASE t = Out /\ u = Step /\ pc[u] = "running" /\ l = "outputs" /\ StepDone
      BY <2>1, <2>5, <1>4, <1>5, <1>6, Kinds DEF PlaceInv
    <2> QED
      BY <2>2, <2>3, <2>4, <2>5 DEF LookupStep
  <1>11. OverInv' /\ DoneExactlyOnce'
    <2>1. StepDone => StepDone'
      BY <1>2, <1>4, Kinds DEF LookupStep, StepDone
    <2>2. OverInv'
      BY <2>1, <1>4, Kinds DEF LookupStep, Inv, OverInv
    <2>3. \A o \in Op : pc'[o] \in {"answered", "release"} <=> pc[o] \in {"answered", "release"}
      BY <1>4, Kinds DEF LookupStep
    <2>4. DoneExactlyOnce'
      BY <2>3 DEF Inv, DoneExactlyOnce
    <2> QED
      BY <2>2, <2>4
  <1>12. WaitInv'
    <2> SUFFICES ASSUME NEW j \in 1..Len(rendez'), NEW x \in rendez'[j].waiting
                 PROVE  pc'[x] = "waiting" /\ Inst(x)' = j
      BY DEF WaitInv
    <2>1. j \in 1..Len(rendez) /\ x \in rendez[j].waiting
      BY <1>3 DEF Alike, Fresh
    <2>2. x \in Thread /\ pc[x] = "waiting" /\ Inst(x) = j
      BY <2>1, Waiters
    <2>3. j # 0
      BY <2>1, <1>6
    <2>4. x # u /\ (Inst(x)' = Inst(x))
      BY <2>2, <2>3, <1>2, <1>5, Kinds DEF LookupStep, Inst
    <2> QED
      BY <2>2, <2>4, <1>4
  <1>13. SessionInv'
    <2> SUFFICES ASSUME NEW j \in 1..Len(rendez')
                 PROVE  rendez'[j].session <=> (at'[Step] = j /\ pc'[Step] \notin {"idle", "found"})
      BY DEF SessionInv
    <2>1. CASE t = Step
      <3>1. pc'[Step] = "found"
        BY <2>1, <1>4, Kinds DEF LookupStep
      <3>2. \A i \in 1..Len(rendez) : ~rendez[i].session
        BY <2>1, Kinds DEF LookupStep, Inv, SessionInv
      <3> QED
        BY <3>1, <3>2, <1>3 DEF Alike, Fresh
    <2>2. CASE t # Step
      <3>1. /\ at'[Step] = at[Step]
            /\ pc'[Step] \in {"idle", "found"} <=> pc[Step] \in {"idle", "found"}
        BY <2>2, <1>4, <1>5, Kinds DEF LookupStep
      <3>2. at[Step] \in 0..Len(rendez)
        BY <1>1, ListFacts, Kinds
      <3>3. CASE j \in 1..Len(rendez)
        BY <3>1, <3>3, <1>3 DEF Inv, SessionInv, Alike
      <3>4. CASE j \notin 1..Len(rendez)
        BY <3>1, <3>2, <3>4, <1>3, <1>6 DEF Fresh
      <3> QED
        BY <3>3, <3>4
    <2> QED
      BY <2>1, <2>2
  <1>14. ActiveInv'
    <2> SUFFICES ASSUME NEW j \in 1..Len(rendez'), NEW c \in rendez'[j].active
                 PROVE  pc'[c] \in {"registered", "flying", "deregister"} /\ at'[Step] = j
      BY DEF ActiveInv
    <2>1. j \in 1..Len(rendez) /\ c \in rendez[j].active
      BY <1>3 DEF Alike, Fresh
    <2>2. c \in Thread /\ pc[c] \in {"registered", "flying", "deregister"} /\ at[Step] = j
      BY <2>1, ActiveCalls
    <2>3. j # 0
      BY <2>1, <1>6
    <2>4. c # u /\ t # Step
      BY <2>2, <2>3, <1>2, Kinds DEF LookupStep
    <2> QED
      BY <2>2, <2>4, <1>4, <1>5, Kinds
  <1>15. InFlightInv'
    <2> SUFFICES ASSUME NEW c \in Call, pc'[c] \in {"registered", "flying", "deregister"}
                 PROVE  IF Mine(c)'.status = "ok" THEN c \in Mine(c)'.active
                                                  ELSE call'[c].status = "error"
      BY DEF InFlightInv
    <2>1. pc[c] \in {"registered", "flying", "deregister"}
      BY <1>4, Kinds DEF LookupStep
    <2>2. IF Mine(c).status = "ok" THEN c \in Mine(c).active ELSE call[c].status = "error"
      BY <2>1 DEF Inv, InFlightInv
    <2>3. Inst(c) \in 1..Len(rendez)
      BY <2>1, Kinds, HasRendezvous DEF Inst
    <2>4. Inst(c)' = Inst(c)
      BY <2>3, <1>2, <1>5, <1>6, Kinds DEF Inst
    <2> QED
      BY <2>2, <2>3, <2>4, <1>3 DEF Mine, Alike
  <1>16. DeferredAwaitInitialize'
    <2> SUFFICES ASSUME NEW q \in Request, pc'[q] = "deferred"
                 PROVE  IF Mine(q)'.session THEN q \in Range(todo')
                                            ELSE q \in Range(Mine(q)'.deferred)
      BY DEF DeferredAwaitInitialize
    <2>1. pc[q] = "deferred"
      BY <1>4, Kinds DEF LookupStep
    <2>2. IF Mine(q).session THEN q \in Range(todo) ELSE q \in Range(Mine(q).deferred)
      BY <2>1 DEF Inv, DeferredAwaitInitialize
    <2>3. Inst(q) \in 1..Len(rendez)
      BY <2>1, Kinds, HasRendezvous DEF Inst
    <2>4. Inst(q)' = Inst(q)
      BY <2>3, <1>2, <1>5, <1>6, Kinds DEF Inst
    <2> QED
      BY <2>2, <2>3, <2>4, <1>3 DEF Mine, Alike
  <1>17. CleanInv'
    <2>1. CASE CleanedUp
      <3>1. t # Step
        BY <2>1, Kinds DEF CleanedUp, LookupStep, Inv, PlaceInv
      <3>2. t \notin Cleaner
        BY Kinds DEF LookupStep
      <3>3. CleanedUp'
        BY <2>1, <3>1, <3>2, <1>5, Kinds DEF CleanedUp
      <3> QED
        BY <3>3 DEF CleanInv
    <2>2. CASE /\ at[Step] # 0 => table = at[Step]
               /\ at[Out] # 0 => at[Out] = at[Step]
               /\ pc[Step] # "crash"
      <3>1. pc'[Step] # "crash"
        BY <2>2, <1>4, Kinds DEF LookupStep
      <3>2. at'[Step] # 0 => table' = at'[Step]
        BY <2>2, <1>5, <1>6, Kinds
      <3>3. t = Out => at[Step] # 0
        BY Kinds DEF LookupStep, Inv, PlaceInv
      <3>4. t = Step => at[Out] = 0
        BY Kinds DEF LookupStep, Inv, PlaceInv
      <3>5. at'[Out] # 0 => at'[Out] = at'[Step]
        BY <2>2, <3>3, <3>4, <1>5, <1>6, Kinds
      <3> QED
        BY <3>1, <3>2, <3>5 DEF CleanInv
    <2> QED
      BY <2>1, <2>2 DEF Inv, CleanInv
  <1> QED
    BY <1>8, <1>9, <1>10, <1>11, <1>12, <1>13, <1>14, <1>15, <1>16, <1>17 DEF Inv, ShapeOK

\* A request that is deferred.
LEMMA InvDeferred ==
  ASSUME Inv, NEW q \in Request, pc[q] = "found", ~Mine(q).session, Deferred(q),
         UNCHANGED <<table, at, todo, call, answers>>
  PROVE  Inv'
  <1> DEFINE i == at[q]
             r == [rendez[i] EXCEPT !.deferred = Append(@, q)]
  <1>1. ShapeOK
    BY DEF Inv
  <1>2. i \in 1..Len(rendez) /\ q \in Thread /\ Inst(q) = i
    BY Kinds, HasRendezvous DEF Inst
  <1>3. rendez[i] \in RendezvousType
    BY <1>1, <1>2, ListFacts
  <1>4. rendez[i].deferred \in Seq(Request) /\ Append(rendez[i].deferred, q) \in Seq(Request)
    BY <1>3, AppendProperties DEF RendezvousType
  <1>5. /\ r \in RendezvousType /\ r.deferred = Append(rendez[i].deferred, q)
        /\ r.session = rendez[i].session /\ r.status = rendez[i].status
        /\ r.active = rendez[i].active /\ r.waiting = rendez[i].waiting
    BY <1>3, <1>4 DEF RendezvousType
  <1>6. Put(i, r)
    BY <1>1, <1>2, <1>5, PutRendezvous DEF Deferred
  <1>7. /\ DOMAIN pc' = Thread
        /\ \A u \in Thread : pc'[u] = IF u = q THEN "deferred" ELSE pc[u]
    BY <1>1, ListFacts DEF Deferred
  <1>8. \A x \in Range(rendez[i].deferred) \cup {q} : x \in Range(r.deferred)
    BY <1>4, <1>5, RangeAppend
  <1> HIDE DEF i, r
  <1>9. PcTypeOK'
    <2>1. "deferred" \in Labels(q)
      BY LabelFacts
    <2> QED
      BY <2>1, <1>1, <1>7 DEF ShapeOK, PcTypeOK
  <1>10. ListTypeOK' /\ DataTypeOK'
    BY <1>1, <1>6 DEF ShapeOK, ListTypeOK, DataTypeOK, Put
  <1>11. PlaceInv'
    BY <1>7, Kinds DEF Inv, PlaceInv
  <1>12. OverInv' /\ DoneExactlyOnce' /\ CleanInv'
    BY <1>7, Kinds DEF Inv, OverInv, StepDone, DoneExactlyOnce, CleanInv, CleanedUp
  <1>13. WaitInv'
    BY <1>2, <1>5, <1>6, <1>7, Kinds, Waiters DEF WaitInv, Inst, Put
  <1>14. SessionInv' /\ ActiveInv' /\ InFlightInv'
    BY <1>2, <1>5, <1>6, <1>7, Kinds, ActiveCalls, InFlightFrame
       DEF Inv, SessionInv, ActiveInv, Put
  <1>15. DeferredAwaitInitialize'
    <2>1. \A j \in 1..Len(rendez) : /\ rendez'[j].session = rendez[j].session
                                    /\ Range(rendez[j].deferred) \subseteq Range(rendez'[j].deferred)
      BY <1>5, <1>6, <1>8 DEF Put
    <2>2. ~Mine(q)'.session /\ q \in Range(Mine(q)'.deferred)
      BY <1>2, <1>5, <1>6, <1>8 DEF Mine, Inst, Put
    <2> QED
      BY <2>1, <2>2, <1>7, Kinds, DeferredFrame
  <1> QED
    BY <1>9, <1>10, <1>11, <1>12, <1>13, <1>14, <1>15 DEF Inv, ShapeOK

\* A receiver that finds no tensor waits.
LEMMA InvWait ==
  ASSUME Inv, NEW x \in Receiver, pc[x] = "local",
         rendez' = [rendez EXCEPT ![Inst(x)].waiting = @ \cup {x}],
         Goto(x, "local", "waiting"), UNCHANGED <<table, at, todo, call, answers>>
  PROVE  Inv'
  <1> DEFINE i == Inst(x)
             r == [rendez[i] EXCEPT !.waiting = @ \cup {x}]
  <1>1. ShapeOK
    BY DEF Inv
  <1>2. i \in 1..Len(rendez) /\ x \in Thread /\ x \in Op /\ i' = i
    BY Kinds, HasRendezvous DEF Inst
  <1>3. rendez[i] \in RendezvousType
    BY <1>1, <1>2, ListFacts
  <1>4. /\ r \in RendezvousType /\ r.waiting = rendez[i].waiting \cup {x}
        /\ r.session = rendez[i].session /\ r.status = rendez[i].status
        /\ r.active = rendez[i].active /\ r.deferred = rendez[i].deferred
    BY <1>3 DEF RendezvousType
  <1>5. Put(i, r)
    BY <1>1, <1>2, <1>4, PutRendezvous
  <1>6. /\ DOMAIN pc' = Thread
        /\ \A u \in Thread : pc'[u] = IF u = x THEN "waiting" ELSE pc[u]
    BY <1>1, ListFacts DEF Goto
  <1>7. "waiting" \in Labels(x)
    BY Kinds, LabelFacts
  <1> HIDE DEF r
  <1>8. PcTypeOK'
    BY <1>1, <1>6, <1>7 DEF ShapeOK, PcTypeOK
  <1>9. ListTypeOK' /\ DataTypeOK'
    BY <1>1, <1>5 DEF ShapeOK, ListTypeOK, DataTypeOK, Put
  <1>10. PlaceInv'
    BY <1>2, <1>6, Kinds DEF Inv, PlaceInv
  <1>11. OverInv' /\ DoneExactlyOnce' /\ CleanInv'
    BY <1>2, <1>6, Kinds DEF Inv, OverInv, StepDone, DoneExactlyOnce, CleanInv, CleanedUp
  <1>12. WaitInv'
    BY <1>2, <1>4, <1>5, <1>6, Kinds, Waiters DEF WaitInv, Inst, Put
  <1>13. SessionInv' /\ ActiveInv'
    BY <1>2, <1>4, <1>5, <1>6, Kinds, ActiveCalls DEF Inv, SessionInv, ActiveInv, Put
  <1>14. InFlightInv'
    BY <1>2, <1>4, <1>5, <1>6, Kinds DEF Inv, InFlightInv, Mine, Inst, Put
  <1>15. DeferredAwaitInitialize'
    <2>1. \A j \in 1..Len(rendez) : /\ rendez'[j].session = rendez[j].session
                                    /\ rendez'[j].deferred = rendez[j].deferred
      BY <1>4, <1>5 DEF Put
    <2> QED
      BY <2>1, <1>6, Kinds, DeferredFrame
  <1> QED
    BY <1>8, <1>9, <1>10, <1>11, <1>12, <1>13, <1>14, <1>15 DEF Inv, ShapeOK

\* Initialize: until now no rendezvous has been initialized, so that all that is
\* deferred is in the lists, and that of the step's moves to todo.
LEMMA InvInitialize ==
  ASSUME Inv, Initialize
  PROVE  Inv'
  <1> DEFINE i == at[Step]
             r == [rendez[i] EXCEPT !.session = TRUE, !.deferred = <<>>]
  <1>1. ShapeOK
    BY DEF Inv
  <1>2. i \in 1..Len(rendez) /\ Inst(Step) = i /\ pc[Step] = "found" /\ Step \in Thread
    BY Kinds, HasRendezvous DEF Inst, Initialize, Goto
  <1>3. rendez[i] \in RendezvousType
    BY <1>1, <1>2, ListFacts
  <1>4. /\ r \in RendezvousType /\ r.waiting = rendez[i].waiting
        /\ r.session = TRUE /\ r.status = rendez[i].status
        /\ r.active = rendez[i].active
    BY <1>3, EmptySeq DEF RendezvousType
  <1>5. /\ rendez' = [rendez EXCEPT ![i] = r] /\ todo' = rendez[i].deferred
        /\ pc' = [pc EXCEPT ![Step] = "flush"] /\ UNCHANGED <<table, at, call, answers>>
    BY <1>2 DEF Initialize, Goto, Mine
  <1>6. Put(i, r)
    BY <1>1, <1>2, <1>4, <1>5, PutRendezvous
  <1>7. /\ DOMAIN pc' = Thread
        /\ \A u \in Thread : pc'[u] = IF u = Step THEN "flush" ELSE pc[u]
    BY <1>1, <1>5, ListFacts
  <1> HIDE DEF r
  <1>8. PcTypeOK'
    <2>1. "flush" \in Labels(Step)
      BY LabelFacts
    <2> QED
      BY <2>1, <1>1, <1>7 DEF ShapeOK, PcTypeOK
  <1>9. ListTypeOK'
    BY <1>1, <1>5, <1>6 DEF ShapeOK, ListTypeOK, Put
  <1>10. DataTypeOK'
    BY <1>1, <1>3, <1>5 DEF ShapeOK, DataTypeOK, RendezvousType
  <1>11. PlaceInv'
    BY <1>2, <1>5, <1>7, Kinds DEF Inv, PlaceInv
  <1>12. OverInv' /\ DoneExactlyOnce' /\ CleanInv'
    BY <1>2, <1>5, <1>7, Kinds DEF Inv, OverInv, StepDone, DoneExactlyOnce, CleanInv, CleanedUp
  <1>13. WaitInv'
    BY <1>4, <1>5, <1>6, <1>7, Kinds, Waiters DEF WaitInv, Inst, Put
  <1>14. SessionInv'
    BY <1>2, <1>4, <1>5, <1>6, <1>7, Kinds DEF Inv, SessionInv, Put
  <1>15. ActiveInv' /\ InFlightInv'
    BY <1>2, <1>4, <1>5, <1>6, <1>7, Kinds, ActiveCalls, InFlightFrame
       DEF Inv, ActiveInv, Put
  <1>16. DeferredAwaitInitialize'
    <2> SUFFICES ASSUME NEW q \in Request, pc'[q] = "deferred"
                 PROVE  IF Mine(q)'.session THEN q \in Range(todo')
                                            ELSE q \in Range(Mine(q)'.deferred)
      BY DEF DeferredAwaitInitialize
    <2>1. pc[q] = "deferred" /\ q \in Thread
      BY <1>7, Kinds
    <2>2. Inst(q) \in 1..Len(rendez) /\ Inst(q)' = Inst(q)
      BY <2>1, <1>5, Kinds, HasRendezvous DEF Inst
    <2>3. ~Mine(q).session
      BY <2>2, <1>2 DEF Mine, Inv, SessionInv
    <2>4. q \in Range(Mine(q).deferred)
      BY <2>1, <2>3 DEF Inv, DeferredAwaitInitialize
    <2> QED
      BY <2>2, <2>3, <2>4, <1>4, <1>5, <1>6 DEF Mine, Put
  <1> QED
    BY <1>8, <1>9, <1>10, <1>11, <1>12, <1>13, <1>14, <1>15, <1>16 DEF Inv, ShapeOK

\* Serving the deferred requests one by one forgets none of them.
LEMMA InvServe ==
  ASSUME Inv, ServeDeferred
  PROVE  Inv'
  <1> DEFINE h == Head(todo)
  <1>1. ShapeOK /\ todo \in Seq(Request) /\ todo # <<>>
    BY DEF Inv, ShapeOK, DataTypeOK, ServeDeferred
  <1>2. h \in Request /\ Tail(todo) \in Seq(Request) /\ Range(todo) = Range(Tail(todo)) \cup {h}
    BY <1>1, HeadTailProperties, RangeTail
  <1>3. /\ UNCHANGED <<table, rendez, at, call, answers>>
        /\ \/ pc[h] = "deferred" /\ pc' = [pc EXCEPT ![h] = "recv"] /\ todo' = todo
           \/ pc[h] \in {"waiting", "answered"} /\ todo' = Tail(todo) /\ pc' = pc
    BY DEF ServeDeferred, Goto
  <1>4. h \in Thread /\ "recv" \in Labels(h)
    BY <1>2, Kinds, LabelFacts
  <1> HIDE DEF h
  <1>5. /\ DOMAIN pc' = Thread
        /\ \A u \in Thread : pc'[u] = pc[u] \/ (u = h /\ pc[u] = "deferred" /\ pc'[u] = "recv")
    BY <1>1, <1>3, ListFacts
  <1>6. PcTypeOK'
    BY <1>1, <1>4, <1>5 DEF ShapeOK, PcTypeOK
  <1>7. ListTypeOK' /\ DataTypeOK'
    BY <1>1, <1>2, <1>3 DEF ShapeOK, ListTypeOK, DataTypeOK
  <1>8. PlaceInv'
    BY <1>2, <1>3, <1>5, Kinds DEF Inv, PlaceInv
  <1>9. OverInv' /\ DoneExactlyOnce' /\ CleanInv'
    BY <1>2, <1>3, <1>5, Kinds DEF Inv, OverInv, StepDone, DoneExactlyOnce, CleanInv, CleanedUp
  <1>10. WaitInv'
    BY <1>3, <1>5, Waiters DEF WaitInv, Inst
  <1>11. SessionInv' /\ ActiveInv' /\ InFlightInv'
    BY <1>2, <1>3, <1>5, Kinds, ActiveCalls, InFlightFrame DEF Inv, SessionInv, ActiveInv
  <1>12. DeferredAwaitInitialize'
    <2> SUFFICES ASSUME NEW q \in Request, pc'[q] = "deferred"
                 PROVE  IF Mine(q)'.session THEN q \in Range(todo')
                                            ELSE q \in Range(Mine(q)'.deferred)
      BY DEF DeferredAwaitInitialize
    <2>1. pc[q] = "deferred" /\ q \in Thread
      BY <1>5, Kinds
    <2>2. IF Mine(q).session THEN q \in Range(todo) ELSE q \in Range(Mine(q).deferred)
      BY <2>1 DEF Inv, DeferredAwaitInitialize
    <2>3. Mine(q)' = Mine(q)
      BY <1>3 DEF Mine, Inst
    <2>4. q \in Range(todo) => q \in Range(todo')
      BY <2>1, <1>2, <1>3
    <2> QED
      BY <2>2, <2>3, <2>4
  <1> QED
    BY <1>6, <1>7, <1>8, <1>9, <1>10, <1>11, <1>12 DEF Inv, ShapeOK

\* Execute starts the operations of the step.
LEMMA InvExecute ==
  ASSUME Inv, Execute
  PROVE  Inv'
  <1>1. ShapeOK
    BY DEF Inv
  <1>2. pc[Step] = "flush" /\ UNCHANGED <<table, rendez, at, todo, call, answers>>
    BY DEF Execute
  <1>3. /\ DOMAIN pc' = Thread
        /\ \A u \in Thread : pc'[u] = IF u = Step THEN "running"
                                      ELSE IF u \in StepOp /\ pc[u] = "idle" THEN "start" ELSE pc[u]
    BY DEF Execute
  <1>4. \A o \in StepOp : "start" \in Labels(o)
    <2>1. \A k \in Key : "start" \in Labels(k)
      BY LabelFacts
    <2>2. \A c \in Call : "start" \in Labels(c)
      BY LabelFacts
    <2> QED
      BY <2>1, <2>2, Kinds
  <1>5. "running" \in Labels(Step)
    BY LabelFacts
  <1>6. PcTypeOK'
    BY <1>1, <1>3, <1>4, <1>5 DEF ShapeOK, PcTypeOK
  <1>7. ListTypeOK' /\ DataTypeOK'
    BY <1>1, <1>2 DEF ShapeOK, ListTypeOK, DataTypeOK
  <1>8. PlaceInv'
    BY <1>2, <1>3, Kinds DEF Inv, PlaceInv
  <1>9. OverInv' /\ DoneExactlyOnce' /\ CleanInv'
    BY <1>2, <1>3, Kinds DEF Inv, OverInv, StepDone, DoneExactlyOnce, CleanInv, CleanedUp
  <1>10. WaitInv'
    BY <1>2, <1>3, Kinds, Waiters DEF WaitInv, Inst
  <1>11. SessionInv' /\ ActiveInv' /\ InFlightInv'
    BY <1>2, <1>3, Kinds, ActiveCalls, InFlightFrame DEF Inv, SessionInv, ActiveInv
  <1>12. DeferredAwaitInitialize'
    BY <1>2, <1>3, Kinds, DeferredFrame
  <1> QED
    BY <1>6, <1>7, <1>8, <1>9, <1>10, <1>11, <1>12 DEF Inv, ShapeOK

\* A step of one remote call c, from here to there, that changes active_ of its
\* rendezvous at most by c, and the call itself only to abort it.
CallMoves(c, here, there) ==
    /\ pc[c] = here /\ pc' = [pc EXCEPT ![c] = there]
    /\ rendez' \in Seq(RendezvousType) /\ Len(rendez') = Len(rendez)
    /\ \A j \in 1..Len(rendez) :
         /\ rendez'[j].session = rendez[j].session /\ rendez'[j].status = rendez[j].status
         /\ rendez'[j].deferred = rendez[j].deferred /\ rendez'[j].waiting = rendez[j].waiting
         /\ \A d \in Call : d # c => (d \in rendez'[j].active <=> d \in rendez[j].active)
         /\ j # at[Step] => rendez'[j].active = rendez[j].active
    /\ call' \in [Call -> CallType]
    /\ \A d \in Call : d # c => call'[d] = call[d]
    /\ UNCHANGED <<table, at, todo, answers>>

\* Registering and deregistering keep the invariant if what they do to c is right.
LEMMA InvCallMoves ==
  ASSUME Inv, NEW c \in Call \ LocalCall, NEW here, NEW there, CallMoves(c, here, there),
         \/ here = "register" /\ there = "registered"
         \/ here = "deregister" /\ there = "report" /\ c \notin rendez'[at[Step]].active,
         there = "registered" =>
             IF rendez'[at[Step]].status = "ok" THEN c \in rendez'[at[Step]].active
                                                ELSE call'[c].status = "error"
  PROVE  Inv'
  <1>1. ShapeOK
    BY DEF Inv
  <1>2. /\ c \in Thread /\ c \in Call /\ c \in StepOp /\ c \in Op
        /\ pc[c] \notin {"absent", "idle"} /\ pc[c] = here
    BY Kinds DEF CallMoves
  <1>3. at[Step] \in 1..Len(rendez) /\ Step \in Thread
    BY <1>2, HasRendezvous, Kinds
  <1>4. /\ DOMAIN pc' = Thread
        /\ \A u \in Thread : pc'[u] = IF u = c THEN there ELSE pc[u]
    BY <1>1, ListFacts DEF CallMoves
  <1>5. there \in Labels(c)
    BY LabelFacts
  <1>6. /\ rendez' \in Seq(RendezvousType) /\ Len(rendez') = Len(rendez)
        /\ \A j \in 1..Len(rendez) :
             /\ rendez'[j].session = rendez[j].session /\ rendez'[j].status = rendez[j].status
             /\ rendez'[j].deferred = rendez[j].deferred /\ rendez'[j].waiting = rendez[j].waiting
             /\ \A d \in Call : d # c => (d \in rendez'[j].active <=> d \in rendez[j].active)
             /\ j # at[Step] => rendez'[j].active = rendez[j].active
        /\ call' \in [Call -> CallType]
        /\ \A d \in Call : d # c => call'[d] = call[d]
        /\ UNCHANGED <<table, at, todo, answers>>
    BY DEF CallMoves
  <1>7. PcTypeOK'
    BY <1>1, <1>4, <1>5 DEF ShapeOK, PcTypeOK
  <1>8. ListTypeOK' /\ DataTypeOK'
    BY <1>1, <1>6 DEF ShapeOK, ListTypeOK, DataTypeOK
  <1>9. PlaceInv'
    BY <1>2, <1>4, <1>6, Kinds DEF Inv, PlaceInv
  <1>10. OverInv' /\ DoneExactlyOnce' /\ CleanInv'
    BY <1>2, <1>4, <1>6, Kinds DEF Inv, OverInv, StepDone, DoneExactlyOnce, CleanInv, CleanedUp
  <1>11. WaitInv'
    BY <1>2, <1>4, <1>6, Waiters DEF WaitInv, Inst
  <1>12. SessionInv'
    BY <1>2, <1>4, <1>6, Kinds DEF Inv, SessionInv
  <1>13. ActiveInv'
    <2> SUFFICES ASSUME NEW j \in 1..Len(rendez), NEW d \in rendez'[j].active
                 PROVE  pc'[d] \in {"registered", "flying", "deregister"} /\ at'[Step] = j
      BY <1>6 DEF ActiveInv
    <2>1. d \in Call /\ d \in Thread
      <3>1. rendez'[j] \in RendezvousType
        BY <1>6, ElementOfSeq
      <3> QED
        BY <3>1, Kinds DEF RendezvousType
    <2>2. CASE d # c
      BY <2>1, <2>2, <1>4, <1>6, ActiveCalls
    <2>3. CASE d = c
      <3>1. j = at[Step]
        BY <2>3, <1>2, <1>6, ActiveCalls
      <3> QED
        BY <3>1, <2>3, <1>2, <1>4, <1>6
    <2> QED
      BY <2>2, <2>3
  <1>14. InFlightInv'
    <2> SUFFICES ASSUME NEW d \in Call, pc'[d] \in {"registered", "flying", "deregister"}
                 PROVE  IF rendez'[at[Step]].status = "ok" THEN d \in rendez'[at[Step]].active
                                                           ELSE call'[d].status = "error"
      BY <1>6, Kinds DEF InFlightInv, Mine, Inst
    <2>1. CASE d = c
      BY <2>1, <1>2, <1>4
    <2>2. CASE d # c
      <3>1. pc[d] \in {"registered", "flying", "deregister"}
        BY <2>2, <1>4, Kinds
      <3>2. IF rendez[at[Step]].status = "ok" THEN d \in rendez[at[Step]].active
                                              ELSE call[d].status = "error"
        BY <3>1, Kinds DEF Inv, InFlightInv, Mine, Inst
      <3> QED
        BY <3>2, <2>2, <1>3, <1>6
    <2> QED
      BY <2>1, <2>2
  <1>15. DeferredAwaitInitialize'
    BY <1>2, <1>4, <1>6, Kinds, DeferredFrame
  <1> QED
    BY <1>7, <1>8, <1>9, <1>10, <1>11, <1>12, <1>13, <1>14, <1>15 DEF Inv, ShapeOK

\* RegisterCall: the call becomes active, or is aborted at once.
LEMMA InvRegister ==
  ASSUME Inv, NEW c \in Call, RegisterCall(c)
  PROVE  Inv'
  <1> DEFINE i == at[Step]
             r == [rendez[i] EXCEPT !.active = @ \cup {c}]
  <1>1. ShapeOK /\ call \in [Call -> CallType]
    BY DEF Inv, ShapeOK, DataTypeOK
  <1>2. /\ pc[c] = "register" /\ pc' = [pc EXCEPT ![c] = "registered"] /\ Inst(c) = i
        /\ UNCHANGED <<table, at, todo, answers>>
    BY Kinds DEF RegisterCall, Goto, Inst
  <1>3. c \in Call \ LocalCall
    <2>1. pc[c] \in Labels(c)
      BY <1>1, Kinds DEF ShapeOK, PcTypeOK
    <2> QED
      BY <2>1, <1>2, LabelFacts
  <1>4. i \in 1..Len(rendez)
    BY <1>2, HasRendezvous, Kinds
  <1>5. rendez[i] \in RendezvousType
    BY <1>1, <1>4, ListFacts
  <1>6. CASE Mine(c).status # "ok"
    <2>1. rendez' = rendez /\ call' = [call EXCEPT ![c] = AbortCall(call[c])]
      BY <1>6 DEF RegisterCall
    <2>2. AbortCall(call[c]) \in CallType /\ AbortCall(call[c]).status = "error"
      BY <1>1 DEF AbortCall, CallType, Status
    <2>3. CallMoves(c, "register", "registered")
      BY <2>1, <2>2, <1>1, <1>2, ListFacts DEF CallMoves
    <2>4. call'[c].status = "error" /\ rendez'[i].status # "ok"
      BY <2>1, <2>2, <1>1, <1>2, <1>6 DEF Mine
    <2> QED
      BY <2>3, <2>4, <1>3, InvCallMoves
  <1>7. CASE Mine(c).status = "ok"
    <2>1. rendez' = [rendez EXCEPT ![i] = r] /\ call' = call
      BY <1>2, <1>7 DEF RegisterCall
    <2>2. /\ r \in RendezvousType /\ r.waiting = rendez[i].waiting
          /\ r.session = rendez[i].session /\ r.status = rendez[i].status
          /\ r.active = rendez[i].active \cup {c} /\ r.deferred = rendez[i].deferred
      BY <1>3, <1>5 DEF RendezvousType
    <2> HIDE DEF r
    <2>3. Put(i, r)
      BY <2>1, <2>2, <1>1, <1>4, PutRendezvous
    <2>4. CallMoves(c, "register", "registered")
      BY <2>1, <2>2, <2>3, <1>1, <1>2 DEF CallMoves, Put
    <2>5. c \in rendez'[i].active /\ rendez'[i].status = "ok"
      BY <2>2, <2>3, <1>2, <1>7 DEF Put, Mine
    <2> QED
      BY <2>4, <2>5, <1>3, InvCallMoves
  <1> QED
    BY <1>6, <1>7

\* DeregisterCall: the call is not active any more.
LEMMA InvDeregister ==
  ASSUME Inv, NEW c \in Call, DeregisterCall(c)
  PROVE  Inv'
  <1> DEFINE i == at[Step]
             r == [rendez[i] EXCEPT !.active = @ \ {c}]
  <1>1. ShapeOK /\ call \in [Call -> CallType]
    BY DEF Inv, ShapeOK, DataTypeOK
  <1>2. /\ pc[c] = "deregister" /\ pc' = [pc EXCEPT ![c] = "report"]
        /\ rendez' = [rendez EXCEPT ![i] = r] /\ UNCHANGED <<table, at, todo, call, answers>>
    BY Kinds DEF DeregisterCall, Goto, Inst
  <1>3. c \in Call \ LocalCall
    <2>1. pc[c] \in Labels(c)
      BY <1>1, Kinds DEF ShapeOK, PcTypeOK
    <2> QED
      BY <2>1, <1>2, LabelFacts
  <1>4. i \in 1..Len(rendez)
    BY <1>2, HasRendezvous, Kinds
  <1>5. rendez[i] \in RendezvousType
    BY <1>1, <1>4, ListFacts
  <1>6. /\ r \in RendezvousType /\ r.waiting = rendez[i].waiting
        /\ r.session = rendez[i].session /\ r.status = rendez[i].status
        /\ r.active = rendez[i].active \ {c} /\ r.deferred = rendez[i].deferred
    BY <1>5 DEF RendezvousType
  <1> HIDE DEF r
  <1>7. Put(i, r)
    BY <1>1, <1>2, <1>4, <1>6, PutRendezvous
  <1>8. CallMoves(c, "deregister", "report")
    BY <1>1, <1>2, <1>6, <1>7 DEF CallMoves, Put
  <1>9. c \notin rendez'[i].active
    BY <1>6, <1>7 DEF Put
  <1> QED
    BY <1>3, <1>8, <1>9, InvCallMoves

\* CallDone: the callback of a call runs.
LEMMA InvCallDone ==
  ASSUME Inv, NEW c \in Call, CallDone(c)
  PROVE  Inv'
  <1>1. ShapeOK /\ answers \in [Op -> Seq(Status)] /\ c \in Op /\ c \in Thread
        /\ call[c].status \in Status
    BY Kinds DEF Inv, ShapeOK, DataTypeOK, CallType
  <1>2. /\ pc[c] = "report" /\ pc' = [pc EXCEPT ![c] = "release"]
        /\ UNCHANGED <<table, rendez, at, todo, call>>
    BY DEF CallDone, Goto
  <1>3. /\ DOMAIN pc' = Thread
        /\ \A u \in Thread : pc'[u] = IF u = c THEN "release" ELSE pc[u]
    BY <1>1, <1>2, ListFacts
  <1>4. /\ answers' \in [Op -> Seq(Status)] /\ answers[c] \in Seq(Status)
        /\ answers'[c] = Append(answers[c], call[c].status)
        /\ \A o \in Op : o # c => answers'[o] = answers[o]
    <2>1. answers[c] \in Seq(Status) /\ Append(answers[c], call[c].status) \in Seq(Status)
      BY <1>1, AppendProperties
    <2>2. answers' = [o \in Op |-> IF o \in {c} THEN Append(answers[o], call[c].status)
                                                ELSE answers[o]]
      BY DEF CallDone, Answered
    <2> QED
      BY <2>1, <2>2, <1>1
  <1>5. "release" \in Labels(c)
    <2>1. pc[c] \in Labels(c)
      BY <1>1 DEF ShapeOK, PcTypeOK
    <2> QED
      BY <2>1, <1>2, LabelFacts
  <1>6. Len(answers[c]) = 0 /\ Len(answers'[c]) = 1 /\ answers'[c] # <<>>
    <2>1. Len(answers[c]) = 0
      BY <1>1, <1>2 DEF Inv, DoneExactlyOnce
    <2> QED
      BY <2>1, <1>4
  <1>7. PcTypeOK'
    BY <1>1, <1>3, <1>5 DEF ShapeOK, PcTypeOK
  <1>8. ListTypeOK' /\ DataTypeOK'
    BY <1>1, <1>2, <1>4 DEF ShapeOK, ListTypeOK, DataTypeOK
  <1>9. PlaceInv'
    BY <1>2, <1>3, Kinds DEF Inv, PlaceInv
  <1>10. OverInv' /\ DoneExactlyOnce'
    BY <1>2, <1>3, <1>4, <1>6, Kinds DEF Inv, OverInv, StepDone, DoneExactlyOnce
  <1>11. CleanInv'
    BY <1>2, <1>3, Kinds DEF Inv, CleanInv, CleanedUp
  <1>12. WaitInv'
    BY <1>2, <1>3, Waiters DEF WaitInv, Inst
  <1>13. SessionInv' /\ ActiveInv' /\ InFlightInv'
    BY <1>2, <1>3, Kinds, ActiveCalls, InFlightFrame DEF Inv, SessionInv, ActiveInv
  <1>14. DeferredAwaitInitialize'
    BY <1>2, <1>3, Kinds, DeferredFrame
  <1> QED
    BY <1>7, <1>8, <1>9, <1>10, <1>11, <1>12, <1>13, <1>14 DEF Inv, ShapeOK

\* The threads that abort a rendezvous have one.
LEMMA Aborting ==
  ASSUME Inv, NEW t \in Aborter \cup Cleaner \cup {Step},
         pc[t] \in {"abort", "abort calls", "unref"}
  PROVE  t \in Thread /\ t \notin Op /\ t # Out /\ Inst(t) = at[t] /\ at[t] \in 1..Len(rendez)
  BY HasRendezvous, Kinds DEF Inst

\* Aborting local_ answers whoever waits there.
LEMMA InvAbortLocal ==
  ASSUME Inv, NEW t \in Aborter \cup Cleaner \cup {Step}, AbortLocal(t)
  PROVE  Inv'
  <1> DEFINE i == at[t]
             X == rendez[i].waiting
             r == Unref([rendez[i] EXCEPT !.aborted = TRUE, !.waiting = {}, !.buffered = {}], X)
  <1>1. ShapeOK /\ answers \in [Op -> Seq(Status)]
    BY DEF Inv, ShapeOK, DataTypeOK
  <1>2. /\ pc[t] = "abort" /\ t \in Thread /\ t \notin Op /\ t # Out
        /\ Inst(t) = i /\ i \in 1..Len(rendez)
    BY Aborting DEF AbortLocal
  <1>3. rendez[i] \in RendezvousType
    BY <1>1, <1>2, ListFacts
  <1>4. /\ r \in RendezvousType /\ r.waiting = {}
        /\ r.session = rendez[i].session /\ r.status = rendez[i].status
        /\ r.active = rendez[i].active /\ r.deferred = rendez[i].deferred
    <2> DEFINE e == [rendez[i] EXCEPT !.aborted = TRUE, !.waiting = {}, !.buffered = {}]
    <2>1. /\ e \in RendezvousType /\ e.waiting = {}
          /\ e.session = rendez[i].session /\ e.status = rendez[i].status
          /\ e.active = rendez[i].active /\ e.deferred = rendez[i].deferred
      BY <1>3 DEF RendezvousType
    <2>2. r = Unref(e, X)
      OBVIOUS
    <2> HIDE DEF e, r
    <2> QED
      BY <2>1, <2>2, UnrefRendezvous DEF Alike
  <1>5. /\ rendez' = [rendez EXCEPT ![i] = r]
        /\ pc' = [u \in Thread |-> IF u = t THEN "abort calls"
                                   ELSE IF u \in X THEN "answered" ELSE pc[u]]
        /\ answers' = [o \in Op |-> IF o \in X THEN Append(answers[o], "error") ELSE answers[o]]
        /\ UNCHANGED <<table, at, todo, call>>
    BY <1>2 DEF AbortLocal, Mine, Answered
  <1>6. Put(i, r)
    BY <1>1, <1>2, <1>4, <1>5, PutRendezvous
  <1>7. \A x \in X : x \in Receiver /\ x \in Op /\ x \in Thread /\ pc[x] = "waiting" /\ Inst(x) = i
    BY <1>2, Waiters
  <1> HIDE DEF X, r
  <1>8. \A o \in Op : answers[o] \in Seq(Status) /\ Append(answers[o], "error") \in Seq(Status)
    BY <1>1, AppendProperties DEF Status
  <1>9. /\ answers' \in [Op -> Seq(Status)]
        /\ \A o \in Op : answers'[o] = IF o \in X THEN Append(answers[o], "error") ELSE answers[o]
    BY <1>5, <1>8
  <1>10. /\ DOMAIN pc' = Thread /\ pc'[t] = "abort calls"
         /\ \A u \in Thread : u # t => pc'[u] = IF u \in X THEN "answered" ELSE pc[u]
    BY <1>2, <1>5
  <1>11. PcTypeOK'
    <2>1. "abort calls" \in Labels(t)
      BY LabelFacts
    <2> QED
      BY <2>1, <1>1, <1>7, <1>10, AnsweredLabel DEF ShapeOK, PcTypeOK
  <1>12. ListTypeOK' /\ DataTypeOK'
    BY <1>1, <1>5, <1>6, <1>9 DEF ShapeOK, ListTypeOK, DataTypeOK, Put
  <1>13. PlaceInv'
    BY <1>2, <1>5, <1>7, <1>10, Kinds DEF Inv, PlaceInv
  <1>14. OverInv'
    <2>1. \A o \in StepOp : /\ answers[o] # <<>> => answers'[o] # <<>>
                            /\ pc[o] = "absent" => pc'[o] = "absent"
      <3> SUFFICES ASSUME NEW o \in StepOp
                   PROVE  /\ answers[o] # <<>> => answers'[o] # <<>>
                          /\ pc[o] = "absent" => pc'[o] = "absent"
        OBVIOUS
      <3>1. o \in Op /\ o \in Thread /\ o # t /\ (o \in X => pc[o] = "waiting")
        BY <1>2, <1>7, Kinds
      <3>2. Append(answers[o], "error") # <<>>
        BY <3>1, <1>8, AppendProperties, EmptySeq DEF Status
      <3> QED
        BY <3>1, <3>2, <1>9, <1>10
    <2>2. /\ StepDone => StepDone'
          /\ pc'[Step] = pc[Step] \/ pc'[Step] = "abort calls"
      BY <2>1, <1>7, <1>10, Kinds DEF StepDone
    <2> QED
      BY <2>2 DEF Inv, OverInv
  <1>15. DoneExactlyOnce'
    <2> SUFFICES ASSUME NEW o \in Op
                 PROVE  Len(answers'[o]) = IF pc'[o] \in {"answered", "release"} THEN 1 ELSE 0
      BY DEF DoneExactlyOnce
    <2>1. Len(answers[o]) = IF pc[o] \in {"answered", "release"} THEN 1 ELSE 0
      BY DEF Inv, DoneExactlyOnce
    <2>2. answers[o] \in Seq(Status) /\ o \in Thread /\ o # t
      BY <1>2, <1>8, Kinds
    <2>3. CASE o \in X
      <3>1. Len(answers[o]) = 0
        BY <2>1, <2>3, <1>7
      <3>2. answers'[o] = Append(answers[o], "error") /\ pc'[o] = "answered"
        BY <2>2, <2>3, <1>9, <1>10
      <3> QED
        BY <3>1, <3>2, <2>2
    <2>4. CASE o \notin X
      BY <2>1, <2>2, <2>4, <1>9, <1>10
    <2> QED
      BY <2>3, <2>4
  <1>16. WaitInv'
    <2> SUFFICES ASSUME NEW j \in 1..Len(rendez), NEW x \in rendez'[j].waiting
                 PROVE  pc'[x] = "waiting" /\ Inst(x)' = j
      BY <1>6 DEF WaitInv, Put
    <2>1. j # i /\ x \in rendez[j].waiting
      BY <1>4, <1>6 DEF Put
    <2>2. x \in Thread /\ x \in Op /\ pc[x] = "waiting" /\ Inst(x) = j
      BY <2>1, Waiters
    <2>3. x # t /\ x \notin X
      BY <2>1, <2>2, <1>2, <1>7
    <2> QED
      BY <2>2, <2>3, <1>5, <1>10 DEF Inst
  <1>17. SessionInv'
    <2>1. /\ pc'[Step] \in {"idle", "found"} <=> pc[Step] \in {"idle", "found"}
          /\ \A j \in 1..Len(rendez) : rendez'[j].session = rendez[j].session
      BY <1>2, <1>4, <1>6, <1>7, <1>10, Kinds DEF Put
    <2> QED
      BY <2>1, <1>5, <1>6 DEF Inv, SessionInv, Put
  <1>18. ActiveInv'
    <2> SUFFICES ASSUME NEW j \in 1..Len(rendez), NEW c \in rendez'[j].active
                 PROVE  pc'[c] \in {"registered", "flying", "deregister"} /\ at'[Step] = j
      BY <1>6 DEF ActiveInv, Put
    <2>1. c \in rendez[j].active
      BY <1>4, <1>6 DEF Put
    <2>2. c \in Thread /\ c \in Call /\ pc[c] \in {"registered", "flying", "deregister"}
          /\ at[Step] = j
      BY <2>1, ActiveCalls
    <2>3. c # t /\ c \notin X
      BY <2>2, <1>2, <1>7, Kinds
    <2> QED
      BY <2>2, <2>3, <1>5, <1>10
  <1>19. InFlightInv'
    <2>1. \A c \in Call : pc'[c] \in {"registered", "flying", "deregister"} =>
                              pc[c] \in {"registered", "flying", "deregister"}
      BY <1>2, <1>10, Kinds
    <2> QED
      BY <2>1, <1>4, <1>5, <1>6, InFlightFrame DEF Put
  <1>20. DeferredAwaitInitialize'
    <2>1. \A q \in Request : pc'[q] = "deferred" => pc[q] = "deferred"
      BY <1>2, <1>10, Kinds
    <2> QED
      BY <2>1, <1>4, <1>5, <1>6, DeferredFrame DEF Put
  <1>21. CleanInv'
    BY <1>2, <1>5, <1>7, <1>10, Kinds DEF Inv, CleanInv, CleanedUp
  <1> QED
    BY <1>11, <1>12, <1>13, <1>14, <1>15, <1>16, <1>17, <1>18, <1>19, <1>20, <1>21
       DEF Inv, ShapeOK

\* Aborting the calls: status_ is set and all that are active are aborted, in one step.
LEMMA InvAbortCalls ==
  ASSUME Inv, NEW t \in Aborter \cup Cleaner \cup {Step}, AbortCalls(t)
  PROVE  Inv'
  <1> DEFINE i == at[t]
             l == IF t = Step THEN "failing" ELSE "unref"
  <1>1. ShapeOK /\ call \in [Call -> CallType]
    BY DEF Inv, ShapeOK, DataTypeOK
  <1>2. /\ pc[t] = "abort calls" /\ t \in Thread /\ t \notin Op /\ t # Out
        /\ Inst(t) = i /\ i \in 1..Len(rendez)
    BY Aborting DEF AbortCalls, Goto
  <1>3. rendez[i] \in RendezvousType
    BY <1>1, <1>2, ListFacts
  <1>4. pc' = [pc EXCEPT ![t] = l] /\ UNCHANGED <<table, at, todo, answers>>
    BY DEF AbortCalls, Goto
  <1>5. l \in Labels(t)
    BY Kinds, LabelFacts
  <1>6. l \in {"failing", "unref"} /\ (t = Step => l = "failing")
    OBVIOUS
  <1> HIDE DEF l
  <1>7. /\ DOMAIN pc' = Thread
        /\ \A u \in Thread : pc'[u] = IF u = t THEN l ELSE pc[u]
    BY <1>1, <1>4, ListFacts
  <1>8. /\ rendez' \in Seq(RendezvousType) /\ Len(rendez') = Len(rendez)
        /\ \A j \in 1..Len(rendez) :
             /\ rendez'[j].session = rendez[j].session
             /\ rendez'[j].deferred = rendez[j].deferred /\ rendez'[j].waiting = rendez[j].waiting
             /\ rendez'[j].active \subseteq rendez[j].active
             /\ j # i => rendez'[j] = rendez[j]
        /\ call' \in [Call -> CallType]
        /\ \A c \in Call : call[c].status = "error" => call'[c].status = "error"
        /\ rendez'[i].status = "error"
        /\ \A c \in Call : rendez[i].status = "ok" /\ c \in rendez[i].active =>
                               call'[c].status = "error"
    <2>1. CASE Mine(t).status = "ok"
      <3> DEFINE r == [rendez[i] EXCEPT !.status = "error", !.active = {}]
      <3>1. /\ rendez' = [rendez EXCEPT ![i] = r]
            /\ call' = [c \in Call |-> IF c \in rendez[i].active THEN AbortCall(call[c])
                                                                 ELSE call[c]]
        BY <2>1, <1>2 DEF AbortCalls, Mine
      <3>2. \A c \in Call : AbortCall(call[c]) \in CallType /\ AbortCall(call[c]).status = "error"
        BY <1>1 DEF AbortCall, CallType, Status
      <3>3. /\ call' \in [Call -> CallType]
            /\ \A c \in Call : c \in rendez[i].active => call'[c].status = "error"
            /\ \A c \in Call : call[c].status = "error" => call'[c].status = "error"
        BY <3>1, <3>2, <1>1
      <3>4. /\ r \in RendezvousType /\ r.waiting = rendez[i].waiting
            /\ r.session = rendez[i].session /\ r.status = "error"
            /\ r.active = {} /\ r.deferred = rendez[i].deferred
        BY <1>3 DEF RendezvousType, Status
      <3> HIDE DEF r
      <3>5. Put(i, r)
        BY <3>1, <3>4, <1>1, <1>2, PutRendezvous
      <3> QED
        BY <3>3, <3>4, <3>5 DEF Put
    <2>2. CASE Mine(t).status # "ok"
      <3>1. rendez' = rendez /\ call' = call /\ rendez[i].status # "ok"
        BY <2>2, <1>2 DEF AbortCalls, Mine
      <3>2. rendez[i].status = "error"
        BY <3>1, <1>3 DEF RendezvousType, Status
      <3>3. rendez \in Seq(RendezvousType)
        BY <1>1, ListFacts
      <3> QED
        BY <3>1, <3>2, <3>3, <1>1
    <2> QED
      BY <2>1, <2>2
  <1>9. PcTypeOK'
    BY <1>1, <1>5, <1>7 DEF ShapeOK, PcTypeOK
  <1>10. ListTypeOK' /\ DataTypeOK'
    BY <1>1, <1>4, <1>8 DEF ShapeOK, ListTypeOK, DataTypeOK
  <1>11. PlaceInv'
    BY <1>2, <1>4, <1>6, <1>7, Kinds DEF Inv, PlaceInv
  <1>12. OverInv' /\ DoneExactlyOnce' /\ CleanInv'
    BY <1>2, <1>4, <1>6, <1>7, Kinds DEF Inv, OverInv, StepDone, DoneExactlyOnce, CleanInv, CleanedUp
  <1>13. WaitInv'
    <2> SUFFICES ASSUME NEW j \in 1..Len(rendez), NEW x \in rendez'[j].waiting
                 PROVE  pc'[x] = "waiting" /\ Inst(x)' = j
      BY <1>8 DEF WaitInv
    <2>1. x \in Thread /\ pc[x] = "waiting" /\ Inst(x) = j
      BY <1>8, Waiters
    <2> QED
      BY <2>1, <1>2, <1>4, <1>7 DEF Inst
  <1>14. SessionInv'
    BY <1>2, <1>4, <1>6, <1>7, <1>8, Kinds DEF Inv, SessionInv
  <1>15. ActiveInv'
    BY <1>2, <1>4, <1>7, <1>8, Kinds, ActiveCalls DEF ActiveInv
  <1>16. InFlightInv'
    <2> SUFFICES ASSUME NEW c \in Call, pc'[c] \in {"registered", "flying", "deregister"}
                 PROVE  IF rendez'[at[Step]].status = "ok" THEN c \in rendez'[at[Step]].active
                                                           ELSE call'[c].status = "error"
      BY <1>4, Kinds DEF InFlightInv, Mine, Inst
    <2>1. pc[c] \in {"registered", "flying", "deregister"}
      BY <1>2, <1>7, Kinds
    <2>2. IF rendez[at[Step]].status = "ok" THEN c \in rendez[at[Step]].active
                                            ELSE call[c].status = "error"
      BY <2>1, Kinds DEF Inv, InFlightInv, Mine, Inst
    <2>3. at[Step] \in 1..Len(rendez)
      BY <2>1, Kinds, HasRendezvous
    <2>4. CASE at[Step] = i
      BY <2>2, <2>4, <1>8
    <2>5. CASE at[Step] # i
      BY <2>2, <2>3, <2>5, <1>8
    <2> QED
      BY <2>4, <2>5
  <1>17. DeferredAwaitInitialize'
    BY <1>2, <1>4, <1>7, <1>8, Kinds, DeferredFrame
  <1> QED
    BY <1>9, <1>10, <1>11, <1>12, <1>13, <1>14, <1>15, <1>16, <1>17 DEF Inv, ShapeOK

\* Cleanup takes the rendezvous off the table.
LEMMA InvCleanup ==
  ASSUME Inv, NEW x \in Cleaner, Cleanup(x)
  PROVE  Inv'
  <1> DEFINE l == IF table = 0 THEN "done" ELSE "abort"
  <1>1. ShapeOK /\ x \in Thread
    BY Kinds DEF Inv
  <1>2. /\ pc[x] = "idle" /\ pc' = [pc EXCEPT ![x] = l] /\ table' = 0
        /\ at' = [at EXCEPT ![x] = table] /\ UNCHANGED <<rendez, todo, call, answers>>
    BY DEF Cleanup, Goto
  <1>3. l \in Labels(x) /\ l \in {"done", "abort"} /\ (l = "abort" => table # 0)
    BY LabelFacts
  <1> HIDE DEF l
  <1>4. /\ DOMAIN pc' = Thread
        /\ \A u \in Thread : pc'[u] = IF u = x THEN l ELSE pc[u]
    BY <1>1, <1>2, ListFacts
  <1>5. \A u \in Thread : at'[u] = IF u = x THEN table ELSE at[u]
    BY <1>1, <1>2, ListFacts
  <1>6. PcTypeOK'
    BY <1>1, <1>3, <1>4 DEF ShapeOK, PcTypeOK
  <1>7. ListTypeOK' /\ DataTypeOK'
    <2>1. at \in [Thread -> 0..Len(rendez)] /\ table \in 0..Len(rendez) /\ Len(rendez) \in Nat
      BY <1>1, ListFacts DEF ShapeOK, ListTypeOK
    <2>2. at' \in [Thread -> 0..Len(rendez)]
      BY <2>1, <1>2
    <2>3. 0 \in 0..Len(rendez)
      BY <2>1
    <2> QED
      BY <2>2, <2>3, <1>1, <1>2 DEF ShapeOK, ListTypeOK, DataTypeOK
  <1>8. PlaceInv'
    <2>1. \A u \in Thread : u # x => pc'[u] = pc[u] /\ at'[u] = at[u]
      BY <1>4, <1>5
    <2>2. pc'[x] = l /\ at'[x] = table
      BY <1>1, <1>4, <1>5
    <2>3. PlaceInv
      BY DEF Inv
    <2> QED
      BY <2>1, <2>2, <2>3, <1>3, Kinds DEF PlaceInv
  <1>9. OverInv' /\ DoneExactlyOnce'
    BY <1>2, <1>4, Kinds DEF Inv, OverInv, StepDone, DoneExactlyOnce
  <1>10. CleanInv'
    <2>1. at[x] = 0 /\ at'[x] = table /\ at'[Step] = at[Step] /\ at'[Out] = at[Out]
      BY <1>1, <1>2, <1>5, Kinds DEF Inv, PlaceInv
    <2>2. CASE CleanedUp
      <3>1. PICK y \in Cleaner : at[y] = at[Step] /\ at[Step] # 0
        BY <2>2 DEF CleanedUp
      <3>2. at'[y] = at'[Step]
        BY <3>1, <2>1, <1>5, Kinds
      <3> QED
        BY <3>1, <3>2, <2>1 DEF CleanInv, CleanedUp
    <2>3. CASE at[Step] # 0 /\ table = at[Step]
      BY <2>1, <2>3 DEF CleanInv, CleanedUp
    <2>4. CASE at[Step] = 0
      <3>1. pc[Step] = "idle" /\ at[Out] = 0 /\ pc'[Step] = "idle"
        BY <2>4, <1>4, Kinds DEF Inv, PlaceInv
      <3> QED
        BY <3>1, <2>1, <2>4 DEF CleanInv
    <2> QED
      BY <2>2, <2>3, <2>4 DEF Inv, CleanInv
  <1>11. WaitInv'
    BY <1>2, <1>4, <1>5, Kinds, Waiters DEF WaitInv, Inst
  <1>12. SessionInv' /\ ActiveInv' /\ InFlightInv'
    BY <1>2, <1>4, <1>5, Kinds, ActiveCalls, InFlightFrame DEF Inv, SessionInv, ActiveInv
  <1>13. DeferredAwaitInitialize'
    BY <1>2, <1>4, <1>5, Kinds DEF Inv, DeferredAwaitInitialize, Mine, Inst
  <1> QED
    BY <1>6, <1>7, <1>8, <1>9, <1>10, <1>11, <1>12, <1>13 DEF Inv, ShapeOK

\* Initially nothing has begun.
LEMMA InitInv == Init => Inv
  <1> SUFFICES ASSUME Init PROVE Inv
    OBVIOUS
  <1>1. /\ table = 0 /\ rendez = <<>> /\ at = [t \in Thread |-> 0] /\ todo = <<>>
        /\ call = [c \in Call |-> NewCall] /\ answers = [o \in Op |-> <<>>]
    BY DEF Init
  <1>2. /\ DOMAIN pc = Thread /\ \A t \in Thread : pc[t] \in {"idle", "absent"}
        /\ pc[Step] = "idle" /\ pc[Out] = "idle"
    BY Kinds DEF Init
  <1>3. Len(rendez) = 0 /\ rendez \in Seq(RendezvousType)
    BY <1>1, EmptySeq
  <1>4. PcTypeOK
    <2> SUFFICES ASSUME NEW t \in Thread PROVE pc[t] \in Labels(t)
      BY <1>2 DEF PcTypeOK
    <2>1. CASE t \in Op
      <3>1. {"absent", "idle"} \subseteq Labels(t)
        <4>1. CASE t \in Request
          BY <4>1, LabelFacts
        <4>2. CASE t \in Key
          BY <4>2, LabelFacts
        <4>3. CASE t \in LocalCall
          BY <4>3, LabelFacts
        <4>4. CASE t \in Call \ LocalCall
          BY <4>4, LabelFacts
        <4> QED
          BY <4>1, <4>2, <4>3, <4>4, <2>1, Kinds
      <3> QED
        BY <3>1, <1>2
    <2>2. CASE t \in Aborter \cup Cleaner
      BY <2>2, <1>2, LabelFacts
    <2>3. CASE t = Step
      BY <2>3, <1>2, LabelFacts
    <2>4. CASE t = Out
      BY <2>4, <1>2, LabelFacts
    <2> QED
      BY <2>1, <2>2, <2>3, <2>4 DEF Thread
  <1>5. ListTypeOK
    BY <1>1, <1>3 DEF ListTypeOK
  <1>6. DataTypeOK
    <2>1. NewCall \in CallType
      BY DEF NewCall, CallType, Status
    <2> QED
      BY <2>1, <1>1, EmptySeq DEF DataTypeOK
  <1>7. PlaceInv
    BY <1>1, <1>2, Kinds DEF PlaceInv
  <1>8. WaitInv /\ SessionInv /\ ActiveInv
    BY <1>3 DEF WaitInv, SessionInv, ActiveInv
  <1>9. OverInv /\ InFlightInv /\ DeferredAwaitInitialize
    BY <1>2, Kinds DEF OverInv, InFlightInv, DeferredAwaitInitialize
  <1>10. CleanInv
    BY <1>1, <1>2, Kinds DEF CleanInv, CleanedUp
  <1>11. DoneExactlyOnce
    BY <1>1, <1>2, Kinds DEF DoneExactlyOnce
  <1> QED
    BY <1>4, <1>5, <1>6, <1>7, <1>8, <1>9, <1>10, <1>11 DEF Inv, ShapeOK

\* A request's own steps.
LEMMA InvRequest ==
  ASSUME Inv, NEW q \in Request, RecvTensor(q) \/ RecvLocalAsync(q) \/ RecvLocalAsyncInternal(q)
  PROVE  Inv'
  <1>1. ShapeOK /\ call \in [Call -> CallType] /\ q \in Thread /\ q \in Op
    BY Kinds DEF Inv, ShapeOK, DataTypeOK
  <1>2. CASE RecvTensor(q)
    <2>1. LookupStep(q, q, "found")
      BY <1>2 DEF RecvTensor, Goto, LookupStep
    <2> QED
      BY <2>1, <1>2, InvLookup DEF RecvTensor, Goto
  <1>3. CASE RecvLocalAsync(q)
    <2>1. CASE Mine(q).session
      <3>1. PlainStep(q, "recv") /\ pc' = [pc EXCEPT ![q] = "recv"]
            /\ UNCHANGED <<rendez, table, at, todo, call, answers>>
        BY <1>3, <2>1 DEF RecvLocalAsync, Goto, PlainStep
      <3> QED
        BY <3>1, <1>1, SameKept, InvPlain
    <2>2. CASE ~Mine(q).session
      BY <1>3, <2>2, InvDeferred DEF RecvLocalAsync
    <2> QED
      BY <2>1, <2>2
  <1>4. CASE RecvLocalAsyncInternal(q)
    <2>1. CASE Mine(q).status # "ok" \/ q \in Foreign
      <3>1. pc[q] = "recv" /\ FinishWith(q, Mine(q), "error", {}) /\ UNCHANGED <<table, at, todo, call>>
        BY <1>4, <2>1 DEF RecvLocalAsyncInternal
      <3>2. Mine(q) \in RendezvousType
        BY <3>1, <1>1, HasRendezvous, ListFacts, Kinds DEF Mine, Inst
      <3>3. Served(Unref(Mine(q), {q} \cup {}), Mine(q), {})
        BY <3>2, UnrefRendezvous DEF Served, Alike
      <3> QED
        BY <3>1, <3>3, <1>1, InvFinish DEF Status
    <2>2. CASE ~(Mine(q).status # "ok" \/ q \in Foreign)
      <3>1. PlainStep(q, "local") /\ pc' = [pc EXCEPT ![q] = "local"]
            /\ UNCHANGED <<rendez, table, at, todo, call, answers>>
        BY <1>4, <2>2 DEF RecvLocalAsyncInternal, Goto, PlainStep
      <3> QED
        BY <3>1, <1>1, SameKept, InvPlain
    <2> QED
      BY <2>1, <2>2
  <1> QED
    BY <1>2, <1>3, <1>4

\* The rendezvous of an operation that has begun.
LEMMA MineType ==
  ASSUME Inv, NEW o \in Op, pc[o] \notin {"absent", "idle"}
  PROVE  Inst(o) \in 1..Len(rendez) /\ Mine(o) \in RendezvousType
  <1>1. ShapeOK
    BY DEF Inv
  <1>2. Inst(o) \in 1..Len(rendez)
    BY HasRendezvous, Kinds DEF Inst
  <1> QED
    BY <1>1, <1>2, ListFacts DEF Mine

\* RecvAsync of local_.
LEMMA InvLocalRecv ==
  ASSUME Inv, NEW x \in Receiver, LocalRecv(x)
  PROVE  Inv'
  <1> DEFINE r == Mine(x)
             b == [r EXCEPT !.buffered = @ \ {KeyOf[x]}]
  <1>1. x \in Op /\ pc[x] = "local" /\ UNCHANGED <<table, at, todo, call>>
    BY Kinds DEF LocalRecv
  <1>2. r \in RendezvousType
    BY <1>1, MineType
  <1>3. CASE FinishWith(x, r, "error", {})
    <2>1. Served(Unref(r, {x} \cup {}), r, {})
      BY <1>2, UnrefRendezvous DEF Served, Alike
    <2> QED
      BY <2>1, <1>1, <1>3, InvFinish DEF Status
  <1>4. CASE FinishWith(x, b, "ok", {})
    <2>1. b \in RendezvousType /\ Alike(b, r)
      BY <1>2 DEF RendezvousType, Alike
    <2> HIDE DEF b
    <2>2. Served(Unref(b, {x} \cup {}), r, {})
      BY <2>1, UnrefRendezvous DEF Served, Alike
    <2> QED
      BY <2>2, <1>1, <1>4, InvFinish DEF Status
  <1>5. CASE /\ rendez' = [rendez EXCEPT ![Inst(x)].waiting = @ \cup {x}]
             /\ Goto(x, "local", "waiting")
             /\ UNCHANGED answers
    BY <1>1, <1>5, InvWait
  <1> QED
    BY <1>3, <1>4, <1>5 DEF LocalRecv

\* What a key does.
LEMMA InvSend ==
  ASSUME Inv, NEW k \in Key, Send(k) \/ LocalSend(k)
  PROVE  Inv'
  <1> DEFINE r == Mine(k)
             X == {x \in r.waiting : KeyOf[x] = k}
             b == [r EXCEPT !.waiting = @ \ X, !.buffered = IF X = {} THEN @ \cup {k} ELSE @]
  <1>1. k \in Op /\ k \in Thread /\ pc[k] \in {"start", "send"} /\ UNCHANGED <<table, at, todo, call>>
    BY Kinds DEF Send, LocalSend
  <1>2. ShapeOK /\ call \in [Call -> CallType]
    BY DEF Inv, ShapeOK, DataTypeOK
  <1>3. r \in RendezvousType
    BY <1>1, MineType
  <1>4. CASE FinishWith(k, r, "error", {})
    <2>1. Served(Unref(r, {k} \cup {}), r, {})
      BY <1>3, UnrefRendezvous DEF Served, Alike
    <2> QED
      BY <2>1, <1>1, <1>4, InvFinish DEF Status
  <1>5. CASE FinishWith(k, b, "ok", X)
    <2>1. /\ b \in RendezvousType /\ b.waiting = r.waiting \ X /\ X \subseteq r.waiting
          /\ b.session = r.session /\ b.status = r.status /\ b.deferred = r.deferred
          /\ b.active = r.active
      BY <1>3 DEF RendezvousType
    <2> HIDE DEF b, X
    <2>2. Served(Unref(b, {k} \cup X), r, X)
      BY <2>1, UnrefRendezvous DEF Served, Alike
    <2> QED
      BY <2>2, <1>1, <1>5, InvFinish DEF Status
  <1>6. CASE Goto(k, "start", "send") /\ UNCHANGED <<rendez, answers>>
    <2>1. PlainStep(k, "send")
      BY <1>6 DEF Goto, PlainStep
    <2> QED
      BY <2>1, <1>1, <1>2, <1>6, SameKept, InvPlain DEF Goto
  <1> QED
    BY <1>4, <1>5, <1>6 DEF Send, LocalSend

\* What a call does.
LEMMA InvCall ==
  ASSUME Inv, NEW c \in Call, CallStep(c) \/ \E s \in {"ok", "error"} : RpcDone(c, s)
  PROVE  Inv'
  <1>1. c \in Op /\ c \in Thread /\ c \in StepOp /\ Inst(c) = at[Step]
    BY Kinds DEF Inst
  <1>2. ShapeOK /\ call \in [Call -> CallType] /\ pc[c] \in Labels(c)
    BY <1>1 DEF Inv, ShapeOK, DataTypeOK, PcTypeOK
  <1>3. pc[c] \in {"register", "registered", "flying", "deregister", "report", "release"} =>
            c \in Call \ LocalCall
    BY <1>2, LabelFacts
  <1>4. CASE RecvAsync(c)
    <2>1. CASE Mine(c).status # "ok"
      <3>1. pc[c] = "start" /\ FinishWith(c, Mine(c), "error", {}) /\ UNCHANGED <<table, at, todo, call>>
        BY <1>4, <2>1 DEF RecvAsync
      <3>2. Served(Unref(Mine(c), {c} \cup {}), Mine(c), {})
        BY <3>1, <1>1, MineType, UnrefRendezvous DEF Served, Alike
      <3> QED
        BY <3>1, <3>2, <1>1, InvFinish DEF Status
    <2>2. CASE Mine(c).status = "ok"
      <3> DEFINE l == IF c \in LocalCall THEN "local" ELSE "register"
      <3>1. pc[c] = "start" /\ pc' = [pc EXCEPT ![c] = l]
            /\ UNCHANGED <<rendez, table, at, todo, call, answers>>
        BY <1>4, <2>2 DEF RecvAsync, Goto
      <3>2. PlainStep(c, l)
        BY <3>1 DEF PlainStep
      <3> QED
        BY <3>1, <3>2, <1>1, <1>2, SameKept, InvPlain
    <2> QED
      BY <2>1, <2>2
  <1>5. CASE c \in LocalCall /\ LocalRecv(c)
    BY <1>5, Kinds, InvLocalRecv
  <1>6. CASE RegisterCall(c)
    BY <1>6, InvRegister
  <1>7. CASE StartCall(c)
    <2>1. /\ pc[c] = "registered" /\ pc' = [pc EXCEPT ![c] = "flying"]
          /\ rendez' = [rendez EXCEPT ![at[Step]].refs = rendez[at[Step]].refs + 1]
          /\ call' = [call EXCEPT ![c].cancel_func = TRUE]
          /\ UNCHANGED <<table, at, todo, answers>>
      BY <1>1, <1>7 DEF StartCall, Goto
    <2>2. PlainStep(c, "flying")
      BY <2>1, <1>3 DEF PlainStep
    <2>3. /\ call' \in [Call -> CallType]
          /\ \A d \in Call : call[d].status = "error" => call'[d].status = "error"
      BY <2>1, <1>2 DEF CallType
    <2>4. at[Step] \in 1..Len(rendez) /\ rendez[at[Step]].refs + 1 \in Int
      BY <2>1, <1>1, MineType DEF Mine, RendezvousType
    <2>5. Kept
      BY <2>1, <2>4, <1>2, RefsKept
    <2> QED
      BY <2>1, <2>2, <2>3, <2>5, <1>1, InvPlain
  <1>8. CASE \E s \in {"ok", "error"} : RpcDone(c, s)
    <2>1. PICK s \in {"ok", "error"} : RpcDone(c, s)
      BY <1>8
    <2>2. /\ pc[c] = "flying" /\ pc' = [pc EXCEPT ![c] = "deregister"]
          /\ call' = [call EXCEPT ![c].cancel_func = FALSE,
                                  ![c].status = IF @ = "ok" THEN s ELSE @]
          /\ UNCHANGED <<table, rendez, at, todo, answers>>
      BY <2>1 DEF RpcDone, Goto
    <2>3. PlainStep(c, "deregister")
      BY <2>2, <1>3 DEF PlainStep
    <2>4. /\ call' \in [Call -> CallType]
          /\ \A d \in Call : call[d].status = "error" => call'[d].status = "error"
      BY <2>2, <1>2 DEF CallType, Status
    <2> QED
      BY <2>2, <2>3, <2>4, <1>1, <1>2, SameKept, InvPlain
  <1>9. CASE DeregisterCall(c)
    BY <1>9, InvDeregister
  <1>10. CASE CallDone(c)
    BY <1>10, InvCallDone
  <1>11. CASE ReleaseCall(c)
    <2>1. /\ pc[c] = "release" /\ pc' = [pc EXCEPT ![c] = "answered"]
          /\ rendez' = [rendez EXCEPT ![at[Step]].refs = rendez[at[Step]].refs - 1]
          /\ UNCHANGED <<table, at, todo, call, answers>>
      BY <1>1, <1>11 DEF ReleaseCall, Goto
    <2>2. PlainStep(c, "answered")
      BY <2>1, <1>3 DEF PlainStep
    <2>3. at[Step] \in 1..Len(rendez) /\ rendez[at[Step]].refs - 1 \in Int
      BY <2>1, <1>1, MineType DEF Mine, RendezvousType
    <2>4. Kept
      BY <2>1, <2>3, <1>2, RefsKept
    <2> QED
      BY <2>1, <2>2, <2>4, <1>1, <1>2, InvPlain
  <1> QED
    BY <1>4, <1>5, <1>6, <1>7, <1>8, <1>9, <1>10, <1>11 DEF CallStep

\* What a thread that aborts does.
LEMMA InvAborting ==
  ASSUME Inv, NEW t \in Aborter \cup Cleaner \cup {Step}, AbortingStep(t)
  PROVE  Inv'
  <1>1. ShapeOK /\ call \in [Call -> CallType]
    BY DEF Inv, ShapeOK, DataTypeOK
  <1>2. CASE AbortLocal(t)
    BY <1>2, InvAbortLocal
  <1>3. CASE AbortCalls(t)
    BY <1>3, InvAbortCalls
  <1>4. CASE UnrefLast(t)
    <2>1. /\ pc[t] = "unref" /\ pc' = [pc EXCEPT ![t] = "done"]
          /\ rendez' = [rendez EXCEPT ![Inst(t)].refs = rendez[Inst(t)].refs - 1]
          /\ UNCHANGED <<table, at, todo, call, answers>>
      BY <1>4 DEF UnrefLast, Goto
    <2>2. t \in Thread /\ Inst(t) \in 1..Len(rendez)
      BY <2>1, Aborting
    <2>3. rendez[Inst(t)] \in RendezvousType
      BY <2>2, <1>1, ListFacts
    <2>4. rendez[Inst(t)].refs - 1 \in Int
      BY <2>3 DEF RendezvousType
    <2>5. Kept
      BY <2>1, <2>2, <2>4, <1>1, RefsKept
    <2>6. PlainStep(t, "done")
      BY <2>1 DEF PlainStep
    <2> QED
      BY <2>1, <2>2, <2>5, <2>6, <1>1, InvPlain
  <1> QED
    BY <1>2, <1>3, <1>4 DEF AbortingStep

\* What RunGraph does.
LEMMA InvRunGraph ==
  ASSUME Inv, RunGraph \/ RunStep
  PROVE  Inv'
  <1>1. ShapeOK /\ call \in [Call -> CallType] /\ Step \in Thread
    BY Kinds DEF Inv, ShapeOK, DataTypeOK
  <1>2. CASE RunGraph
    <2>1. LookupStep(Step, Step, "found")
      BY <1>2 DEF RunGraph, Goto, LookupStep
    <2> QED
      BY <2>1, <1>2, InvLookup DEF RunGraph, Goto
  <1>3. CASE Initialize
    BY <1>3, InvInitialize
  <1>4. CASE ServeDeferred
    BY <1>4, InvServe
  <1>5. CASE Execute
    BY <1>5, InvExecute
  <1>6. CASE StepFails
    <2>1. PlainStep(Step, "abort") /\ pc' = [pc EXCEPT ![Step] = "abort"]
      BY <1>6 DEF StepFails, Goto, PlainStep
    <2> QED
      BY <2>1, <1>1, <1>6, SameKept, InvPlain DEF StepFails
  <1>7. CASE StepFailed
    <2>1. PlainStep(Step, "unref") /\ pc' = [pc EXCEPT ![Step] = "unref"]
      BY <1>7 DEF StepFailed, Goto, PlainStep
    <2> QED
      BY <2>1, <1>1, <1>7, SameKept, InvPlain DEF StepFailed
  <1>8. CASE FindOutputs
    <2>1. LookupStep(Out, Step, "outputs")
      BY <1>8 DEF FindOutputs, Goto, LookupStep
    <2> QED
      BY <2>1, <1>8, InvLookup DEF FindOutputs, Goto
  <1>9. CASE RecvOutputs
    <2>1. pc[Step] = "outputs" /\ Inst(Out) = at[Out] /\ at[Out] \in 1..Len(rendez)
      BY <1>9, HasRendezvous, Kinds DEF RecvOutputs, Inst
    <2>2. CASE Mine(Out).session
      <3>1. /\ pc' = [pc EXCEPT ![Step] = "unref"]
            /\ rendez' = [rendez EXCEPT ![at[Out]].refs = rendez[at[Out]].refs - 1]
            /\ UNCHANGED <<table, at, todo, call, answers>>
        BY <2>2, <1>9 DEF RecvOutputs, Goto
      <3>2. PlainStep(Step, "unref")
        BY <2>1 DEF PlainStep
      <3>3. rendez[at[Out]] \in RendezvousType
        BY <2>1, <1>1, ListFacts
      <3>4. rendez[at[Out]].refs - 1 \in Int
        BY <3>3 DEF RendezvousType
      <3>5. Kept
        BY <3>1, <3>4, <2>1, <1>1, RefsKept
      <3> QED
        BY <3>1, <3>2, <3>5, <1>1, InvPlain
    <2>3. CASE ~Mine(Out).session
      <3>1. /\ pc' = [pc EXCEPT ![Step] = "crash"]
            /\ UNCHANGED <<rendez, table, at, todo, call, answers>>
        BY <2>3, <1>9 DEF RecvOutputs, Goto
      <3>2. PlainStep(Step, "crash")
        BY <2>1, <2>3 DEF PlainStep, Mine
      <3> QED
        BY <3>1, <3>2, <1>1, SameKept, InvPlain
    <2> QED
      BY <2>2, <2>3
  <1>10. CASE AbortingStep(Step)
    BY <1>10, InvAborting
  <1>11. CASE SendInputsFails
    <2>1. PlainStep(Step, "unref") /\ pc' = [pc EXCEPT ![Step] = "unref"]
      BY <1>11 DEF SendInputsFails, Goto, PlainStep
    <2> QED
      BY <2>1, <1>1, <1>11, SameKept, InvPlain DEF SendInputsFails
  <1> QED
    BY <1>2, <1>3, <1>4, <1>5, <1>6, <1>7, <1>8, <1>9, <1>10, <1>11 DEF RunStep

\* Every step keeps the invariant.
LEMMA NextInv == Inv /\ [Next]_vars => Inv'
  <1> SUFFICES ASSUME Inv, [Next]_vars PROVE Inv'
    OBVIOUS
  <1>1. ASSUME NEW q \in Request, RecvTensor(q) \/ RequestStep(q) PROVE Inv'
    BY <1>1, Kinds, InvRequest, InvLocalRecv DEF RequestStep
  <1>2. ASSUME RunGraph \/ RunStep PROVE Inv'
    BY <1>2, InvRunGraph
  <1>3. ASSUME NEW k \in Key, Send(k) \/ LocalSend(k) PROVE Inv'
    BY <1>3, InvSend
  <1>4. ASSUME NEW c \in Call, CallStep(c) \/ \E s \in {"ok", "error"} : RpcDone(c, s) PROVE Inv'
    BY <1>4, InvCall
  <1>5. ASSUME NEW t \in Aborter \cup Cleaner, AbortStep(t) \/ Cleanup(t) \/ AbortingStep(t)
        PROVE  Inv'
    <2>1. CASE AbortStep(t)
      <3>1. LookupStep(t, t, "abort")
        BY <2>1 DEF AbortStep, Goto, LookupStep
      <3> QED
        BY <3>1, <2>1, InvLookup DEF AbortStep, Goto
    <2>2. CASE Cleanup(t)
      <3>1. t \in Cleaner
        BY <2>2 DEF Cleanup
      <3> QED
        BY <3>1, <2>2, InvCleanup
    <2>3. CASE AbortingStep(t)
      BY <2>3, InvAborting
    <2> QED
      BY <1>5, <2>1, <2>2, <2>3
  <1>6. CASE UNCHANGED vars
    <2>1. /\ rendez' = rendez /\ table' = table /\ at' = at /\ pc' = pc /\ todo' = todo
          /\ call' = call /\ answers' = answers
      BY <1>6 DEF vars
    <2>2. ShapeOK'
      BY <2>1 DEF Inv, ShapeOK, ListTypeOK, DataTypeOK, PcTypeOK
    <2>3. PlaceInv' /\ OverInv' /\ CleanInv' /\ DoneExactlyOnce'
      BY <2>1 DEF Inv, PlaceInv, OverInv, StepDone, CleanInv, CleanedUp, DoneExactlyOnce
    <2>4. WaitInv' /\ SessionInv' /\ ActiveInv'
      BY <2>1 DEF Inv, WaitInv, SessionInv, ActiveInv, Inst
    <2>5. InFlightInv' /\ DeferredAwaitInitialize'
      BY <2>1 DEF Inv, InFlightInv, DeferredAwaitInitialize, Mine, Inst
    <2> QED
      BY <2>2, <2>3, <2>4, <2>5 DEF Inv
  <1> QED
    BY <1>1, <1>2, <1>3, <1>4, <1>5, <1>6 DEF Next

(***************************************************************************)
(* References.  Holders(i) changes by whoever finds rendezvous i or leaves  *)
(* it, and its reference count by as many.                                  *)
(***************************************************************************)

\* The threads that hold a rendezvous can be counted.
LEMMA HoldersFinite ==
  ASSUME NEW i
  PROVE  /\ Holders(i) \subseteq Thread /\ IsFiniteSet(Holders(i))
         /\ Cardinality(Holders(i)) \in Nat
  <1>1. Holders(i) \in SUBSET Thread
    BY Kinds DEF Holders
  <1>2. IsFiniteSet(Holders(i))
    BY <1>1, ThreadAssumption, FS_Subset
  <1> QED
    BY <1>1, <1>2, FS_CardinalityType

Balance(i) == rendez[i].refs = Cardinality(Holders(i)) + (IF table = i THEN 1 ELSE 0)

\* One more holder, one more reference.
LEMMA BalanceGain ==
  ASSUME NEW i, Balance(i), NEW t, t \notin Holders(i), Holders(i)' = Holders(i) \cup {t},
         rendez'[i].refs = rendez[i].refs + 1, table' = i <=> table = i
  PROVE  Balance(i)'
  <1>1. Cardinality(Holders(i)') = Cardinality(Holders(i)) + 1
    BY HoldersFinite, FS_AddElement
  <1>2. Cardinality(Holders(i)) \in Nat
    BY HoldersFinite
  <1> QED
    BY <1>1, <1>2 DEF Balance

\* As many holders less as references given up.
LEMMA BalanceLose ==
  ASSUME NEW i, Balance(i), NEW S, S \subseteq Holders(i), Holders(i)' = Holders(i) \ S,
         rendez'[i].refs = rendez[i].refs - Cardinality(S), table' = i <=> table = i
  PROVE  Balance(i)'
  <1>1. IsFiniteSet(Holders(i)) /\ Cardinality(Holders(i)) \in Nat
    BY HoldersFinite
  <1>2. IsFiniteSet(S) /\ Cardinality(S) \in Nat
    BY <1>1, FS_Subset, FS_CardinalityType
  <1>3. Holders(i) \cap S = S
    OBVIOUS
  <1>4. Cardinality(Holders(i) \ S) = Cardinality(Holders(i)) - Cardinality(S)
    BY <1>1, <1>3, FS_Difference
  <1> QED
    BY <1>1, <1>2, <1>4 DEF Balance

\* The same holders and the same references.
LEMMA BalanceSame ==
  ASSUME NEW i, Balance(i), Holders(i)' = Holders(i), rendez'[i].refs = rendez[i].refs,
         table' = i <=> table = i
  PROVE  Balance(i)'
  BY DEF Balance

\* The states of a call in which it holds a reference of its own.
Referring == {"flying", "deregister", "report", "release"}

\* Nobody finds a rendezvous or leaves it.
NobodyMoves ==
    /\ at' = at /\ table' = table /\ Len(rendez') = Len(rendez)
    /\ \A j \in 1..Len(rendez) : rendez'[j].refs = rendez[j].refs
    /\ \A q \in Request : pc'[q] = "answered" <=> pc[q] = "answered"
    /\ \A c \in Call : pc'[c] \in Referring <=> pc[c] \in Referring
    /\ \A t \in Aborter \cup Cleaner \cup {Step} : pc'[t] = "done" <=> pc[t] = "done"
    /\ pc'[Step] \in {"outputs", "crash"} <=> pc[Step] \in {"outputs", "crash"}

\* Then references remain balanced.
LEMMA RefsNobodyMoves ==
  ASSUME RefsBalance, NobodyMoves
  PROVE  RefsBalance'
  <1>1. ASSUME NEW i \in 1..Len(rendez) PROVE Balance(i)'
    <2>1. Holders(i)' = Holders(i)
      BY DEF NobodyMoves, Holders, Referring
    <2>2. Balance(i) /\ rendez'[i].refs = rendez[i].refs /\ table' = table
      BY DEF RefsBalance, Balance, NobodyMoves
    <2> QED
      BY <2>1, <2>2, BalanceSame
  <1> QED
    BY <1>1 DEF RefsBalance, Balance, NobodyMoves

\* One thread goes on.
LEMMA OneMoves ==
  ASSUME Inv, NEW t \in Thread, NEW l, pc' = [pc EXCEPT ![t] = l]
  PROVE  \A u \in Thread : pc'[u] = IF u = t THEN l ELSE pc[u]
  BY ListFacts DEF Inv

\* Replacing a rendezvous by one with as many references.
LEMMA RefsPut ==
  ASSUME Inv, NEW i \in 1..Len(rendez), NEW r \in RendezvousType, r.refs = rendez[i].refs,
         rendez' = [rendez EXCEPT ![i] = r]
  PROVE  Len(rendez') = Len(rendez) /\ \A j \in 1..Len(rendez) : rendez'[j].refs = rendez[j].refs
  BY PutRendezvous DEF Inv, Put

\* Requests and operations that finish give up the references they hold.
LEMMA RefsFinish ==
  ASSUME Inv, RefsBalance, NEW t \in Op, NEW r \in RendezvousType, NEW s, NEW X \in SUBSET Mine(t).waiting,
         pc[t] \in {"recv", "local", "start", "send"}, r.refs = Mine(t).refs,
         FinishWith(t, r, s, X), UNCHANGED <<table, at, todo, call>>
  PROVE  RefsBalance'
  <1> DEFINE i == Inst(t)
             S == ({t} \cup X) \cap Request
  <1>1. i \in 1..Len(rendez)
    BY MineType
  <1>2. /\ Unref(r, {t} \cup X) \in RendezvousType
        /\ Unref(r, {t} \cup X).refs = rendez[i].refs - Cardinality(S)
    BY UnrefRendezvous DEF Mine
  <1>3. Put(i, Unref(r, {t} \cup X))
    BY <1>1, <1>2, PutRendezvous DEF Inv, FinishWith
  <1>4. \A x \in X : x \in Receiver /\ x \in Op /\ x \in Thread /\ pc[x] = "waiting" /\ Inst(x) = i
    BY <1>1, Waiters DEF Mine
  <1>5. \A u \in Thread : pc'[u] = IF u = t \/ u \in X THEN "answered" ELSE pc[u]
    BY DEF FinishWith
  <1>6. \A q \in S : q \in Request /\ at[q] = i /\ pc[q] # "answered"
    BY <1>4, Kinds DEF Inst
  <1>7. /\ \A q \in Request : pc'[q] = IF q \in S THEN "answered" ELSE pc[q]
        /\ \A c \in Call : pc'[c] \in Referring <=> pc[c] \in Referring
        /\ \A u \in Aborter \cup Cleaner \cup {Step} : pc'[u] = pc[u]
    BY <1>4, <1>5, Kinds DEF Referring
  <1> HIDE DEF i, S
  <1>8. ASSUME NEW j \in 1..Len(rendez) PROVE Balance(j)'
    <2>1. Balance(j)
      BY DEF RefsBalance, Balance
    <2>2. CASE j = i
      <3>1. S \subseteq Holders(j)
        BY <2>2, <1>6 DEF Holders
      <3>2. Holders(j)' = Holders(j) \ S
        BY <2>2, <1>6, <1>7, Kinds DEF Holders, Referring
      <3>3. rendez'[j].refs = rendez[j].refs - Cardinality(S)
        BY <2>2, <1>2, <1>3 DEF Put
      <3> QED
        BY <2>1, <3>1, <3>2, <3>3, BalanceLose
    <2>3. CASE j # i
      <3>1. Holders(j)' = Holders(j)
        BY <2>3, <1>6, <1>7 DEF Holders, Referring
      <3>2. rendez'[j].refs = rendez[j].refs
        BY <2>3, <1>3 DEF Put
      <3> QED
        BY <2>1, <3>1, <3>2, BalanceSame
    <2> QED
      BY <2>2, <2>3
  <1> QED
    BY <1>3, <1>8 DEF RefsBalance, Balance, Put

\* Who looks a rendezvous up holds it, and a new one is held by the table as well.
LEMMA RefsLookup ==
  ASSUME Inv, RefsBalance, NEW t, NEW u, NEW l, LookupStep(t, u, l),
         pc' = [pc EXCEPT ![u] = l], FindOrCreate(t)
  PROVE  RefsBalance'
  <1>1. ShapeOK
    BY DEF Inv
  <1>2. t \in Thread /\ u \in Thread /\ at[t] = 0
    BY LookupFacts
  <1>3. /\ table' \in 1..Len(rendez') /\ (table # 0 => table' = table)
        /\ at' = [at EXCEPT ![t] = table']
        /\ \A j \in 1..Len(rendez) :
             rendez'[j].refs = rendez[j].refs + (IF j = table' THEN 1 ELSE 0)
        /\ \A j \in 1..Len(rendez') :
             j \notin 1..Len(rendez) => table = 0 /\ j = table' /\ rendez'[j].refs = 2
    BY <1>1, <1>2, LookedUp
  <1>4. \A v \in Thread : pc'[v] = IF v = u THEN l ELSE pc[v]
    BY <1>2, OneMoves
  <1>5. \A v \in Thread : at'[v] = IF v = t THEN table' ELSE at[v]
    BY <1>1, <1>3, ListFacts
  <1>6. /\ \A q \in Request : pc'[q] = "answered" <=> pc[q] = "answered"
        /\ \A c \in Call : pc'[c] = pc[c]
        /\ \A v \in Aborter \cup Cleaner \cup {Step} : pc'[v] = "done" <=> pc[v] = "done"
        /\ t # Out =>
             (pc'[Step] \in {"outputs", "crash"} <=> pc[Step] \in {"outputs", "crash"})
    BY <1>4, Kinds DEF LookupStep
  <1>7. t = Step => \A c \in Call : pc[c] \notin Referring
    BY Kinds DEF LookupStep, Inv, PlaceInv, Referring
  <1>8. /\ t \in Request \/ t \in Aborter \/ t = Step \/ t = Out
        /\ t = Out => pc'[Step] = "outputs"
        /\ t \in Request => pc'[t] # "answered"
        /\ t \in Aborter \cup {Step} => pc'[t] # "done"
    BY <1>4, Kinds DEF LookupStep
  <1>9. ASSUME NEW j, j # 0
        PROVE  /\ t \notin Holders(j)
               /\ j = table' => Holders(j)' = Holders(j) \cup {t}
               /\ j # table' => Holders(j)' = Holders(j)
    <2>1. t \notin Holders(j)
      BY <1>2, <1>7, <1>8, <1>9, Kinds DEF Holders, Referring
    <2>2. ASSUME NEW v \in Thread, v # t PROVE v \in Holders(j)' <=> v \in Holders(j)
      <3>1. at'[v] = at[v]
        BY <2>2, <1>5
      <3>2. v \in Call => (at'[Step] = j /\ pc'[v] \in Referring <=> at[Step] = j /\ pc[v] \in Referring)
        BY <1>5, <1>6, <1>7, Kinds
      <3>3. v = Out => (at'[v] = j /\ pc'[Step] \in {"outputs", "crash"} <=>
                        at[v] = j /\ pc[Step] \in {"outputs", "crash"})
        BY <2>2, <3>1, <1>6
      <3> QED
        BY <3>1, <3>2, <3>3, <1>6 DEF Holders, Referring
    <2>3. t \in Holders(j)' <=> j = table'
      BY <1>2, <1>5, <1>8, Kinds DEF Holders
    <2>4. Holders(j) \subseteq Thread /\ Holders(j)' \subseteq Thread
      BY Kinds DEF Holders
    <2> QED
      BY <2>1, <2>2, <2>3, <2>4
  <1>10. \A j \in 1..Len(rendez') : j # 0
    OBVIOUS
  <1>11. ASSUME NEW j \in 1..Len(rendez') PROVE Balance(j)'
    <2>1. CASE j \in 1..Len(rendez)
      <3>1. Balance(j) /\ rendez[j].refs \in Int
        BY <2>1, <1>1, ListFacts DEF RefsBalance, Balance, RendezvousType
      <3>2. CASE j = table'
        <4>1. table = j
          BY <2>1, <3>2, <1>1, <1>2, NewIsBeyond
        <4>2. rendez'[j].refs = rendez[j].refs + 1
          BY <2>1, <3>2, <1>3
        <4> QED
          BY <3>1, <3>2, <4>1, <4>2, <1>9, <1>10, BalanceGain
      <3>3. CASE j # table'
        <4>1. table # j
          BY <3>3, <1>3, <1>10
        <4>2. rendez'[j].refs = rendez[j].refs
          BY <2>1, <3>1, <3>3, <1>3
        <4> QED
          BY <3>1, <3>3, <4>1, <4>2, <1>9, <1>10, BalanceSame
      <3> QED
        BY <3>2, <3>3
    <2>2. CASE j \notin 1..Len(rendez)
      <3>1. j = table' /\ rendez'[j].refs = 2
        BY <2>2, <1>3
      <3>2. Holders(j) = {}
        <4>1. \A v \in Thread : at[v] # j
          BY <2>2, <1>1, <1>10, ListFacts
        <4> QED
          BY <4>1, Kinds DEF Holders
      <3>3. Cardinality(Holders(j)') = 1
        BY <3>1, <3>2, <1>9, <1>10, FS_Singleton
      <3> QED
        BY <3>1, <3>3 DEF Balance
    <2> QED
      BY <2>1, <2>2
  <1> QED
    BY <1>11 DEF RefsBalance, Balance

\* Aborting local_ gives up the references of the requests that wait there.
LEMMA RefsAbortLocal ==
  ASSUME Inv, RefsBalance, NEW t \in Aborter \cup Cleaner \cup {Step}, AbortLocal(t)
  PROVE  RefsBalance'
  <1> DEFINE i == at[t]
             X == rendez[i].waiting
             S == X \cap Request
             e == [rendez[i] EXCEPT !.aborted = TRUE, !.waiting = {}, !.buffered = {}]
  <1>1. /\ pc[t] = "abort" /\ t \in Thread /\ t \notin Op /\ t # Out
        /\ Inst(t) = i /\ i \in 1..Len(rendez)
    BY Aborting DEF AbortLocal
  <1>2. e \in RendezvousType /\ e.refs = rendez[i].refs
    <2>1. rendez[i] \in RendezvousType
      BY <1>1, ListFacts DEF Inv
    <2> QED
      BY <2>1 DEF RendezvousType
  <1>3. /\ rendez' = [rendez EXCEPT ![i] = Unref(e, X)]
        /\ pc' = [u \in Thread |-> IF u = t THEN "abort calls"
                                   ELSE IF u \in X THEN "answered" ELSE pc[u]]
        /\ UNCHANGED <<table, at>>
    BY <1>1 DEF AbortLocal, Mine
  <1>4. \A x \in X : x \in Receiver /\ x \in Op /\ x \in Thread /\ pc[x] = "waiting" /\ Inst(x) = i
    BY <1>1, Waiters
  <1> HIDE DEF e
  <1>5. Unref(e, X) \in RendezvousType /\ Unref(e, X).refs = rendez[i].refs - Cardinality(S)
    BY <1>2, UnrefRendezvous
  <1>6. Put(i, Unref(e, X))
    BY <1>1, <1>3, <1>5, PutRendezvous DEF Inv
  <1> HIDE DEF X
  <1>7. \A q \in S : q \in Request /\ at[q] = i /\ pc[q] # "answered"
    BY <1>4, Kinds DEF Inst
  <1>8. /\ \A q \in Request : pc'[q] = IF q \in S THEN "answered" ELSE pc[q]
        /\ \A c \in Call : pc'[c] \in Referring <=> pc[c] \in Referring
        /\ \A u \in Aborter \cup Cleaner \cup {Step} : pc'[u] = "done" <=> pc[u] = "done"
        /\ pc'[Step] \in {"outputs", "crash"} <=> pc[Step] \in {"outputs", "crash"}
    BY <1>1, <1>3, <1>4, Kinds DEF Referring
  <1> HIDE DEF i, S
  <1>9. ASSUME NEW j \in 1..Len(rendez) PROVE Balance(j)'
    <2>1. Balance(j)
      BY DEF RefsBalance, Balance
    <2>2. CASE j = i
      <3>1. S \subseteq Holders(j)
        BY <2>2, <1>7 DEF Holders
      <3>2. Holders(j)' = Holders(j) \ S
        BY <2>2, <1>3, <1>7, <1>8, Kinds DEF Holders, Referring
      <3>3. rendez'[j].refs = rendez[j].refs - Cardinality(S)
        BY <2>2, <1>5, <1>6 DEF Put
      <3> QED
        BY <2>1, <3>1, <3>2, <3>3, <1>3, BalanceLose
    <2>3. CASE j # i
      <3>1. Holders(j)' = Holders(j)
        <4>1. at' = at /\ \A q \in Request : at[q] = j => pc'[q] = pc[q]
          BY <2>3, <1>3, <1>7, <1>8
        <4> QED
          BY <4>1, <1>8 DEF Holders, Referring
      <3>2. rendez'[j].refs = rendez[j].refs
        BY <2>3, <1>6 DEF Put
      <3> QED
        BY <2>1, <3>1, <3>2, <1>3, BalanceSame
    <2> QED
      BY <2>2, <2>3
  <1> QED
    BY <1>6, <1>9 DEF RefsBalance, Balance, Put

\* Thread t, which holds no rendezvous, gets a reference on rendezvous i, or
\* thread t, which holds i, gives it up; nobody else does.
Moves(t, i, n) ==
    /\ UNCHANGED <<table, at>> /\ Len(rendez') = Len(rendez) /\ i \in 1..Len(rendez)
    /\ rendez'[i].refs = rendez[i].refs + n
    /\ \A j \in 1..Len(rendez) : j # i => rendez'[j].refs = rendez[j].refs
    /\ t \in Holders(i) <=> n = -1
    /\ t \in Holders(i)' <=> n = 1
    /\ \A j \in 1..Len(rendez) : \A v \in Thread : v # t \/ j # i => (v \in Holders(j)' <=> v \in Holders(j))

\* Then references remain balanced.
LEMMA RefsMoves ==
  ASSUME Inv, RefsBalance, NEW t \in Thread, NEW i, NEW n \in {1, -1}, Moves(t, i, n)
  PROVE  RefsBalance'
  <1>1. ASSUME NEW j \in 1..Len(rendez) PROVE Balance(j)'
    <2>1. /\ Balance(j) /\ table' = table /\ Holders(j) \subseteq Thread
          /\ Holders(j)' \subseteq Thread
      BY Kinds DEF RefsBalance, Balance, Moves, Holders
    <2>2. CASE j # i
      <3>1. Holders(j)' = Holders(j) /\ rendez'[j].refs = rendez[j].refs
        BY <2>1, <2>2 DEF Moves
      <3> QED
        BY <3>1, <2>1, BalanceSame
    <2>3. CASE j = i /\ n = 1
      <3>1. Holders(j)' = Holders(j) \cup {t} /\ t \notin Holders(j)
        BY <2>1, <2>3 DEF Moves
      <3>2. rendez'[j].refs = rendez[j].refs + 1
        BY <2>3 DEF Moves
      <3> QED
        BY <3>1, <3>2, <2>1, BalanceGain
    <2>4. CASE j = i /\ n = -1
      <3>1. Holders(j)' = Holders(j) \ {t} /\ t \in Holders(j)
        BY <2>1, <2>4 DEF Moves
      <3>2. rendez[j] \in RendezvousType
        BY ListFacts DEF Inv
      <3>3. rendez'[j].refs = rendez[j].refs - 1
        BY <2>4, <3>2 DEF Moves, RendezvousType
      <3>4. Cardinality({t}) = 1
        BY FS_Singleton
      <3> QED
        BY <3>1, <3>3, <3>4, <2>1, BalanceLose
    <2> QED
      BY <2>2, <2>3, <2>4
  <1> QED
    BY <1>1 DEF RefsBalance, Balance, Moves

\* The steps of a request, and of a receiver in local_.
LEMMA RefsReceive ==
  ASSUME Inv, RefsBalance, NEW x \in Receiver,
         \/ x \in Request /\ (RecvTensor(x) \/ RecvLocalAsync(x) \/ RecvLocalAsyncInternal(x))
         \/ LocalRecv(x)
  PROVE  RefsBalance'
  <1>1. x \in Op /\ x \in Thread
    BY Kinds
  <1>2. CASE x \in Request /\ RecvTensor(x)
    <2>1. LookupStep(x, x, "found")
      BY <1>2 DEF RecvTensor, Goto, LookupStep
    <2> QED
      BY <2>1, <1>2, RefsLookup DEF RecvTensor, Goto
  <1>3. CASE x \in Request /\ RecvLocalAsync(x)
    <2>1. pc[x] = "found" /\ UNCHANGED <<table, at, todo, call, answers>>
      BY <1>3 DEF RecvLocalAsync
    <2>2. Inst(x) \in 1..Len(rendez) /\ Mine(x) \in RendezvousType
      BY <2>1, <1>1, MineType
    <2>3. CASE Mine(x).session
      <3>1. pc' = [pc EXCEPT ![x] = "recv"] /\ rendez' = rendez
        BY <2>3, <1>3 DEF RecvLocalAsync, Goto
      <3>2. NobodyMoves
        BY <2>1, <3>1, <1>1, <1>3, OneMoves, Kinds DEF NobodyMoves, Referring
      <3> QED
        BY <3>2, RefsNobodyMoves
    <2>4. CASE ~Mine(x).session
      <3> DEFINE r == [rendez[Inst(x)] EXCEPT !.deferred = Append(@, x)]
      <3>1. pc' = [pc EXCEPT ![x] = "deferred"] /\ rendez' = [rendez EXCEPT ![Inst(x)] = r]
        BY <2>4, <1>3 DEF RecvLocalAsync, Deferred
      <3>2. rendez[Inst(x)] \in RendezvousType
        BY <2>2 DEF Mine
      <3>3. rendez[Inst(x)].deferred \in Seq(Request)
        BY <3>2 DEF RendezvousType
      <3>4. Append(rendez[Inst(x)].deferred, x) \in Seq(Request)
        BY <3>3, <1>3, AppendProperties
      <3>5. r \in RendezvousType /\ r.refs = rendez[Inst(x)].refs
        BY <3>2, <3>4 DEF RendezvousType
      <3> HIDE DEF r
      <3>6. Len(rendez') = Len(rendez) /\ \A j \in 1..Len(rendez) : rendez'[j].refs = rendez[j].refs
        BY <2>2, <3>1, <3>5, RefsPut
      <3>7. NobodyMoves
        BY <2>1, <3>1, <3>6, <1>1, <1>3, OneMoves, Kinds DEF NobodyMoves, Referring
      <3> QED
        BY <3>7, RefsNobodyMoves
    <2> QED
      BY <2>3, <2>4
  <1>4. CASE x \in Request /\ RecvLocalAsyncInternal(x)
    <2>1. pc[x] = "recv" /\ UNCHANGED <<table, at, todo, call>>
      BY <1>4 DEF RecvLocalAsyncInternal
    <2>2. CASE FinishWith(x, Mine(x), "error", {})
      BY <2>1, <2>2, <1>1, MineType, RefsFinish
    <2>3. CASE Goto(x, "recv", "local") /\ UNCHANGED <<rendez, answers>>
      <3>1. NobodyMoves
        BY <2>1, <2>3, <1>1, <1>4, OneMoves, Kinds DEF NobodyMoves, Referring, Goto
      <3> QED
        BY <3>1, RefsNobodyMoves
    <2> QED
      BY <2>2, <2>3, <1>4 DEF RecvLocalAsyncInternal
  <1>5. CASE LocalRecv(x)
    <2> DEFINE r == Mine(x)
               b == [r EXCEPT !.buffered = @ \ {KeyOf[x]}]
               w == [r EXCEPT !.waiting = @ \cup {x}]
    <2>1. pc[x] = "local" /\ UNCHANGED <<table, at, todo, call>>
      BY <1>5 DEF LocalRecv
    <2>2. Inst(x) \in 1..Len(rendez) /\ r \in RendezvousType
      BY <2>1, <1>1, MineType
    <2>3. CASE FinishWith(x, r, "error", {})
      BY <2>1, <2>2, <2>3, <1>1, RefsFinish
    <2>4. CASE FinishWith(x, b, "ok", {})
      <3>1. b \in RendezvousType /\ b.refs = r.refs
        BY <2>2 DEF RendezvousType
      <3>2. pc[x] \in {"recv", "local", "start", "send"} /\ {} \in SUBSET Mine(x).waiting
        BY <2>1
      <3> HIDE DEF b
      <3> QED
        BY <2>1, <2>4, <3>1, <3>2, <1>1, RefsFinish
    <2>5. CASE /\ rendez' = [rendez EXCEPT ![Inst(x)].waiting = @ \cup {x}]
               /\ Goto(x, "local", "waiting")
      <3>1. rendez' = [rendez EXCEPT ![Inst(x)] = w] /\ w \in RendezvousType
            /\ w.refs = rendez[Inst(x)].refs
        BY <2>2, <2>5 DEF Mine, RendezvousType
      <3> HIDE DEF w
      <3>2. Len(rendez') = Len(rendez) /\ \A j \in 1..Len(rendez) : rendez'[j].refs = rendez[j].refs
        BY <2>2, <3>1, RefsPut
      <3>3. NobodyMoves
        BY <2>1, <2>5, <3>2, <1>1, OneMoves, Kinds DEF NobodyMoves, Referring, Goto
      <3> QED
        BY <3>3, RefsNobodyMoves
    <2> QED
      BY <2>3, <2>4, <2>5, <1>5 DEF LocalRecv
  <1> QED
    BY <1>2, <1>3, <1>4, <1>5

\* The steps of a key.
LEMMA RefsSend ==
  ASSUME Inv, RefsBalance, NEW k \in Key, Send(k) \/ LocalSend(k)
  PROVE  RefsBalance'
  <1> DEFINE r == Mine(k)
             X == {x \in r.waiting : KeyOf[x] = k}
             b == [r EXCEPT !.waiting = @ \ X, !.buffered = IF X = {} THEN @ \cup {k} ELSE @]
  <1>1. k \in Op /\ k \in Thread /\ pc[k] \in {"start", "send"} /\ UNCHANGED <<table, at, todo, call>>
    BY Kinds DEF Send, LocalSend
  <1>2. r \in RendezvousType
    BY <1>1, MineType
  <1>3. CASE FinishWith(k, r, "error", {})
    BY <1>1, <1>2, <1>3, RefsFinish
  <1>4. CASE FinishWith(k, b, "ok", X)
    <2>1. b \in RendezvousType /\ b.refs = r.refs /\ X \in SUBSET Mine(k).waiting
      BY <1>2 DEF RendezvousType
    <2> HIDE DEF b, X
    <2> QED
      BY <2>1, <1>1, <1>4, RefsFinish
  <1>5. CASE Goto(k, "start", "send") /\ UNCHANGED <<rendez, answers>>
    <2>1. NobodyMoves
      BY <1>1, <1>5, OneMoves, Kinds DEF NobodyMoves, Referring, Goto
    <2> QED
      BY <2>1, RefsNobodyMoves
  <1> QED
    BY <1>3, <1>4, <1>5 DEF Send, LocalSend

\* Changing the references of one rendezvous.
LEMMA RefsOfOne ==
  ASSUME Inv, NEW i \in 1..Len(rendez), NEW n \in Int,
         rendez' = [rendez EXCEPT ![i].refs = rendez[i].refs + n]
  PROVE  /\ Len(rendez') = Len(rendez) /\ rendez'[i].refs = rendez[i].refs + n
         /\ \A j \in 1..Len(rendez) : j # i => rendez'[j].refs = rendez[j].refs
  <1>1. rendez[i] \in RendezvousType /\ ShapeOK
    BY ListFacts DEF Inv
  <1>2. rendez[i].refs + n \in Int
    BY <1>1 DEF RendezvousType
  <1>3. Put(i, [rendez[i] EXCEPT !.refs = rendez[i].refs + n])
    BY <1>1, <1>2, RefsKept
  <1> QED
    BY <1>1, <1>2, <1>3 DEF Put, RendezvousType

\* The steps of a call.
LEMMA RefsCall ==
  ASSUME Inv, RefsBalance, NEW c \in Call, CallStep(c) \/ \E s \in {"ok", "error"} : RpcDone(c, s)
  PROVE  RefsBalance'
  <1> DEFINE i == at[Step]
  <1>1. c \in Op /\ c \in Thread /\ c \in StepOp /\ Inst(c) = i
    BY Kinds DEF Inst
  <1>2. ASSUME pc[c] \notin {"absent", "idle"}
        PROVE  /\ i \in 1..Len(rendez) /\ rendez[i] \in RendezvousType
               /\ rendez[i].refs - 1 = rendez[i].refs + (-1)
    <2>1. i \in 1..Len(rendez) /\ rendez[i] \in RendezvousType
      BY <1>1, <1>2, MineType DEF Mine
    <2> QED
      BY <2>1 DEF RendezvousType
  <1>3. CASE RecvAsync(c)
    <2>1. pc[c] = "start" /\ UNCHANGED <<table, at, todo, call>>
      BY <1>3 DEF RecvAsync
    <2>2. CASE FinishWith(c, Mine(c), "error", {})
      BY <2>1, <2>2, <1>1, MineType, RefsFinish
    <2>3. CASE /\ Goto(c, "start", IF c \in LocalCall THEN "local" ELSE "register")
               /\ UNCHANGED <<rendez, answers>>
      <3>1. NobodyMoves
        BY <2>1, <2>3, <1>1, OneMoves, Kinds DEF NobodyMoves, Referring, Goto
      <3> QED
        BY <3>1, RefsNobodyMoves
    <2> QED
      BY <2>2, <2>3, <1>3 DEF RecvAsync
  <1>4. CASE c \in LocalCall /\ LocalRecv(c)
    BY <1>4, Kinds, RefsReceive
  <1>5. CASE RegisterCall(c)
    <2> DEFINE r == [rendez[i] EXCEPT !.active = @ \cup {c}]
    <2>1. pc[c] = "register" /\ pc' = [pc EXCEPT ![c] = "registered"] /\ UNCHANGED <<table, at>>
      BY <1>5 DEF RegisterCall, Goto
    <2>2. c \in Call \ LocalCall
      <3>1. pc[c] \in Labels(c)
        BY <1>1 DEF Inv, ShapeOK, PcTypeOK
      <3> QED
        BY <3>1, <2>1, LabelFacts
    <2>3. r \in RendezvousType /\ r.refs = rendez[i].refs /\ i \in 1..Len(rendez)
      BY <2>1, <2>2, <1>2 DEF RendezvousType
    <2> HIDE DEF r
    <2>4. Len(rendez') = Len(rendez) /\ \A j \in 1..Len(rendez) : rendez'[j].refs = rendez[j].refs
      <3>1. CASE rendez' = rendez
        BY <3>1
      <3>2. CASE rendez' = [rendez EXCEPT ![i] = r]
        BY <3>2, <2>3, RefsPut
      <3> QED
        BY <3>1, <3>2, <1>1, <1>5 DEF RegisterCall, r
    <2>5. NobodyMoves
      BY <2>1, <2>4, <1>1, OneMoves, Kinds DEF NobodyMoves, Referring
    <2> QED
      BY <2>5, RefsNobodyMoves
  <1>6. CASE StartCall(c)
    <2>1. /\ pc[c] = "registered" /\ pc' = [pc EXCEPT ![c] = "flying"]
          /\ rendez' = [rendez EXCEPT ![i].refs = rendez[i].refs + 1] /\ UNCHANGED <<table, at>>
      BY <1>1, <1>6 DEF StartCall, Goto
    <2>2. /\ i \in 1..Len(rendez) /\ Len(rendez') = Len(rendez)
          /\ rendez'[i].refs = rendez[i].refs + 1
          /\ \A j \in 1..Len(rendez) : j # i => rendez'[j].refs = rendez[j].refs
      BY <2>1, <1>2, RefsOfOne
    <2>3. \A u \in Thread : pc'[u] = IF u = c THEN "flying" ELSE pc[u]
      BY <2>1, <1>1, OneMoves
    <2>4. c \notin Holders(i) /\ c \in Holders(i)'
      BY <2>1, <2>3, <1>1, Kinds DEF Holders
    <2>5. \A j \in 1..Len(rendez) : \A v \in Thread :
            v # c \/ j # i => (v \in Holders(j)' <=> v \in Holders(j))
      BY <2>1, <2>3, <1>1, Kinds DEF Holders
    <2>6. Moves(c, i, 1)
      BY <2>1, <2>2, <2>4, <2>5 DEF Moves
    <2> QED
      BY <2>6, <1>1, RefsMoves
  <1>7. CASE \E s \in {"ok", "error"} : RpcDone(c, s)
    <2>1. /\ pc[c] = "flying" /\ pc' = [pc EXCEPT ![c] = "deregister"]
          /\ UNCHANGED <<table, rendez, at>>
      BY <1>7 DEF RpcDone, Goto
    <2>2. NobodyMoves
      BY <2>1, <1>1, OneMoves, Kinds DEF NobodyMoves, Referring
    <2> QED
      BY <2>2, RefsNobodyMoves
  <1>8. CASE DeregisterCall(c)
    <2> DEFINE r == [rendez[i] EXCEPT !.active = @ \ {c}]
    <2>1. /\ pc[c] = "deregister" /\ pc' = [pc EXCEPT ![c] = "report"] /\ UNCHANGED <<table, at>>
          /\ rendez' = [rendez EXCEPT ![i] = r]
      BY <1>1, <1>8 DEF DeregisterCall, Goto
    <2>2. r \in RendezvousType /\ r.refs = rendez[i].refs /\ i \in 1..Len(rendez)
      BY <2>1, <1>2 DEF RendezvousType
    <2> HIDE DEF r
    <2>3. Len(rendez') = Len(rendez) /\ \A j \in 1..Len(rendez) : rendez'[j].refs = rendez[j].refs
      BY <2>1, <2>2, RefsPut
    <2>4. NobodyMoves
      BY <2>1, <2>3, <1>1, OneMoves, Kinds DEF NobodyMoves, Referring
    <2> QED
      BY <2>4, RefsNobodyMoves
  <1>9. CASE CallDone(c)
    <2>1. /\ pc[c] = "report" /\ pc' = [pc EXCEPT ![c] = "release"]
          /\ UNCHANGED <<table, rendez, at>>
      BY <1>9 DEF CallDone, Goto
    <2>2. NobodyMoves
      BY <2>1, <1>1, OneMoves, Kinds DEF NobodyMoves, Referring
    <2> QED
      BY <2>2, RefsNobodyMoves
  <1>10. CASE ReleaseCall(c)
    <2>1. /\ pc[c] = "release" /\ pc' = [pc EXCEPT ![c] = "answered"]
          /\ rendez' = [rendez EXCEPT ![i].refs = rendez[i].refs - 1] /\ UNCHANGED <<table, at>>
      BY <1>1, <1>10 DEF ReleaseCall, Goto
    <2>2. /\ i \in 1..Len(rendez) /\ Len(rendez') = Len(rendez)
          /\ rendez'[i].refs = rendez[i].refs + (-1)
          /\ \A j \in 1..Len(rendez) : j # i => rendez'[j].refs = rendez[j].refs
      BY <2>1, <1>2, RefsOfOne
    <2>3. \A u \in Thread : pc'[u] = IF u = c THEN "answered" ELSE pc[u]
      BY <2>1, <1>1, OneMoves
    <2>4. c \in Holders(i) /\ c \notin Holders(i)'
      BY <2>1, <2>3, <1>1, Kinds DEF Holders
    <2>5. \A j \in 1..Len(rendez) : \A v \in Thread :
            v # c \/ j # i => (v \in Holders(j)' <=> v \in Holders(j))
      BY <2>1, <2>3, <1>1, Kinds DEF Holders
    <2>6. Moves(c, i, -1)
      BY <2>1, <2>2, <2>4, <2>5 DEF Moves
    <2> QED
      BY <2>6, <1>1, RefsMoves
  <1> QED
    BY <1>3, <1>4, <1>5, <1>6, <1>7, <1>8, <1>9, <1>10 DEF CallStep

\* The steps of an abort.
LEMMA RefsAborting ==
  ASSUME Inv, RefsBalance, NEW t \in Aborter \cup Cleaner \cup {Step}, AbortingStep(t)
  PROVE  RefsBalance'
  <1> DEFINE i == at[t]
             l == IF t = Step THEN "failing" ELSE "unref"
             r == [rendez[i] EXCEPT !.status = "error", !.active = {}]
  <1>1. t \in Thread /\ t \notin Op /\ t \notin StepOp /\ t # Out /\ Inst(t) = i
    BY Kinds DEF Inst
  <1>2. ASSUME pc[t] \in {"abort calls", "unref"}
        PROVE  i \in 1..Len(rendez) /\ rendez[i] \in RendezvousType
    BY <1>2, HasRendezvous, ListFacts DEF Inv
  <1>3. CASE AbortLocal(t)
    BY <1>3, RefsAbortLocal
  <1>4. CASE AbortCalls(t)
    <2>1. /\ pc[t] = "abort calls" /\ UNCHANGED <<table, at>>
          /\ pc' = [pc EXCEPT ![t] = l] /\ l \in {"failing", "unref"}
      BY <1>4 DEF AbortCalls, Goto
    <2>2. r \in RendezvousType /\ r.refs = rendez[i].refs /\ i \in 1..Len(rendez)
      BY <2>1, <1>2 DEF RendezvousType, Status
    <2>3. rendez' = rendez \/ rendez' = [rendez EXCEPT ![i] = r]
      BY <1>1, <1>4 DEF AbortCalls
    <2> HIDE DEF r
    <2>4. Len(rendez') = Len(rendez) /\ \A j \in 1..Len(rendez) : rendez'[j].refs = rendez[j].refs
      <3>1. CASE rendez' = rendez
        BY <3>1
      <3>2. CASE rendez' = [rendez EXCEPT ![i] = r]
        BY <3>2, <2>2, RefsPut
      <3> QED
        BY <2>3, <3>1, <3>2
    <2> HIDE DEF l
    <2>5. \A u \in Thread : pc'[u] = IF u = t THEN l ELSE pc[u]
      BY <2>1, <1>1, ListFacts DEF Inv
    <2>6. \A u \in Op : pc'[u] = pc[u]
      BY <2>5, <1>1, Kinds
    <2>7. /\ \A u \in Aborter \cup Cleaner \cup {Step} : pc'[u] = "done" <=> pc[u] = "done"
          /\ pc'[Step] \in {"outputs", "crash"} <=> pc[Step] \in {"outputs", "crash"}
      BY <2>1, <2>5, Kinds
    <2>8. NobodyMoves
      BY <2>1, <2>4, <2>6, <2>7, Kinds DEF NobodyMoves
    <2> QED
      BY <2>8, RefsNobodyMoves
  <1>5. CASE UnrefLast(t)
    <2>1. /\ pc[t] = "unref" /\ pc' = [pc EXCEPT ![t] = "done"] /\ UNCHANGED <<table, at>>
          /\ rendez' = [rendez EXCEPT ![i].refs = rendez[i].refs - 1]
      BY <1>1, <1>5 DEF UnrefLast, Goto
    <2>2. i \in 1..Len(rendez) /\ rendez[i] \in RendezvousType
      BY <2>1, <1>2
    <2>3. rendez[i].refs - 1 = rendez[i].refs + (-1)
      BY <2>2 DEF RendezvousType
    <2>4. /\ Len(rendez') = Len(rendez) /\ rendez'[i].refs = rendez[i].refs + (-1)
          /\ \A j \in 1..Len(rendez) : j # i => rendez'[j].refs = rendez[j].refs
      BY <2>1, <2>2, <2>3, RefsOfOne
    <2>5. \A u \in Thread : pc'[u] = IF u = t THEN "done" ELSE pc[u]
      BY <2>1, <1>1, OneMoves
    <2>6. t \in Holders(i) /\ t \notin Holders(i)'
      BY <2>1, <2>5, <1>1, Kinds DEF Holders
    <2>7. ASSUME NEW j \in 1..Len(rendez), NEW v \in Thread, v # t \/ j # i
          PROVE  v \in Holders(j)' <=> v \in Holders(j)
      <3>1. pc'[Step] \in {"outputs", "crash"} <=> pc[Step] \in {"outputs", "crash"}
        BY <2>1, <2>5, Kinds
      <3>2. v # t => pc'[v] = pc[v]
        BY <2>5
      <3>3. v = t => at[v] # j /\ v \notin Op /\ v # Out
        BY <2>7, <1>1
      <3> QED
        BY <3>1, <3>2, <3>3, <2>1, Kinds DEF Holders
    <2>8. Moves(t, i, -1)
      BY <2>1, <2>2, <2>4, <2>6, <2>7 DEF Moves
    <2> QED
      BY <2>8, <1>1, RefsMoves
  <1> QED
    BY <1>3, <1>4, <1>5 DEF AbortingStep

\* Cleanup takes over the reference of the table.
LEMMA RefsCleanup ==
  ASSUME Inv, RefsBalance, NEW x \in Cleaner, Cleanup(x)
  PROVE  RefsBalance'
  <1> DEFINE l == IF table = 0 THEN "done" ELSE "abort"
  <1>1. /\ x \in Thread /\ x \notin Op /\ x # Step /\ x # Out
        /\ pc[x] = "idle" /\ at[x] = 0 /\ table' = 0 /\ rendez' = rendez
        /\ pc' = [pc EXCEPT ![x] = l] /\ (table # 0 => l = "abort")
    BY Kinds DEF Cleanup, Goto, Inv, PlaceInv
  <1> HIDE DEF l
  <1>2. \A u \in Thread : pc'[u] = IF u = x THEN l ELSE pc[u]
    BY <1>1, OneMoves
  <1>3. table # 0 => pc'[x] = "abort"
    BY <1>1, <1>2
  <1>4. \A u \in Thread : at'[u] = IF u = x THEN table ELSE at[u]
    BY ListFacts DEF Cleanup, Inv
  <1>5. ASSUME NEW i \in 1..Len(rendez) PROVE Balance(i)'
    <2>1. Balance(i) /\ Cardinality(Holders(i)) \in Nat /\ IsFiniteSet(Holders(i))
      BY HoldersFinite DEF RefsBalance, Balance
    <2>2. \A u \in Thread : u # x => (u \in Holders(i)' <=> u \in Holders(i))
      BY <1>1, <1>2, <1>4, Kinds DEF Holders
    <2>3. x \notin Holders(i) /\ (x \in Holders(i)' <=> table = i)
      BY <1>1, <1>3, <1>4, Kinds DEF Holders
    <2>4. Holders(i) \subseteq Thread /\ Holders(i)' \subseteq Thread
      BY Kinds DEF Holders
    <2>5. CASE table = i
      <3>1. Holders(i)' = Holders(i) \cup {x}
        BY <2>2, <2>3, <2>4, <2>5
      <3>2. Cardinality(Holders(i)') = Cardinality(Holders(i)) + 1
        BY <3>1, <2>1, <2>3, FS_AddElement
      <3> QED
        BY <3>2, <2>1, <2>5, <1>1 DEF Balance
    <2>6. CASE table # i
      <3>1. Holders(i)' = Holders(i)
        BY <2>2, <2>3, <2>4, <2>6
      <3> QED
        BY <3>1, <2>1, <2>6, <1>1 DEF Balance
    <2> QED
      BY <2>5, <2>6
  <1> QED
    BY <1>1, <1>5 DEF RefsBalance, Balance

\* The steps of RunGraph.
LEMMA RefsRunGraph ==
  ASSUME Inv, RefsBalance, RunGraph \/ RunStep
  PROVE  RefsBalance'
  <1>1. CASE RunGraph
    <2>1. LookupStep(Step, Step, "found")
      BY <1>1 DEF RunGraph, Goto, LookupStep
    <2> QED
      BY <2>1, <1>1, RefsLookup DEF RunGraph, Goto
  <1>2. CASE FindOutputs
    <2>1. LookupStep(Out, Step, "outputs")
      BY <1>2 DEF FindOutputs, Goto, LookupStep
    <2> QED
      BY <2>1, <1>2, RefsLookup DEF FindOutputs, Goto
  <1>3. CASE Initialize
    <2> DEFINE i == at[Step]
               r == [rendez[i] EXCEPT !.session = TRUE, !.deferred = <<>>]
    <2>1. /\ pc[Step] = "found" /\ pc' = [pc EXCEPT ![Step] = "flush"] /\ UNCHANGED <<table, at>>
          /\ rendez' = [rendez EXCEPT ![i] = r]
      BY <1>3 DEF Initialize, Goto
    <2>2. i \in 1..Len(rendez) /\ rendez[i] \in RendezvousType
      BY <2>1, HasRendezvous, ListFacts DEF Inv
    <2>9. <<>> \in Seq(Request)
      OBVIOUS
    <2>3. r \in RendezvousType /\ r.refs = rendez[i].refs
      BY <2>2, <2>9 DEF RendezvousType
    <2> HIDE DEF r
    <2>4. Len(rendez') = Len(rendez) /\ \A j \in 1..Len(rendez) : rendez'[j].refs = rendez[j].refs
      BY <2>1, <2>2, <2>3, RefsPut
    <2>5. NobodyMoves
      BY <2>1, <2>4, OneMoves, Kinds DEF NobodyMoves, Referring
    <2> QED
      BY <2>5, RefsNobodyMoves
  <1>4. CASE ServeDeferred
    <2>1. todo \in Seq(Request) /\ todo # <<>> /\ UNCHANGED <<table, rendez, at>>
      BY <1>4 DEF ServeDeferred, Inv, ShapeOK, DataTypeOK
    <2>2. Head(todo) \in Request
      BY <2>1, HeadTailProperties
    <2>3. CASE pc' = pc
      <3>1. NobodyMoves
        BY <2>1, <2>3 DEF NobodyMoves
      <3> QED
        BY <3>1, RefsNobodyMoves
    <2>4. CASE pc[Head(todo)] = "deferred" /\ pc' = [pc EXCEPT ![Head(todo)] = "recv"]
      <3>1. NobodyMoves
        BY <2>1, <2>2, <2>4, OneMoves, Kinds DEF NobodyMoves, Referring
      <3> QED
        BY <3>1, RefsNobodyMoves
    <2> QED
      BY <2>3, <2>4, <1>4 DEF ServeDeferred, Goto
  <1>5. CASE Execute
    <2>1. /\ pc[Step] = "flush" /\ UNCHANGED <<table, rendez, at>>
          /\ \A t \in Thread : pc'[t] = IF t = Step THEN "running"
                                        ELSE IF t \in StepOp /\ pc[t] = "idle" THEN "start" ELSE pc[t]
      BY <1>5 DEF Execute
    <2>2. NobodyMoves
      BY <2>1, Kinds DEF NobodyMoves, Referring
    <2> QED
      BY <2>2, RefsNobodyMoves
  <1>6. CASE SendInputsFails \/ StepFails \/ StepFailed \/ (RecvOutputs /\ ~Mine(Out).session)
    <2>1. PICK l : /\ pc' = [pc EXCEPT ![Step] = l] /\ UNCHANGED <<table, rendez, at>>
                   /\ \/ pc[Step] = "flush" /\ l = "unref"
                      \/ pc[Step] = "running" /\ l = "abort"
                      \/ pc[Step] = "failing" /\ l = "unref"
                      \/ pc[Step] = "outputs" /\ l = "crash"
      BY <1>6 DEF SendInputsFails, StepFails, StepFailed, RecvOutputs, Goto
    <2>2. NobodyMoves
      BY <2>1, OneMoves, Kinds DEF NobodyMoves, Referring
    <2> QED
      BY <2>2, RefsNobodyMoves
  <1>7. CASE RecvOutputs /\ Mine(Out).session
    <2> DEFINE i == at[Out]
    <2>1. /\ pc[Step] = "outputs" /\ pc' = [pc EXCEPT ![Step] = "unref"] /\ UNCHANGED <<table, at>>
          /\ rendez' = [rendez EXCEPT ![i].refs = rendez[i].refs - 1]
      BY <1>7 DEF RecvOutputs, Goto
    <2>2. i \in 1..Len(rendez) /\ rendez[i] \in RendezvousType
      BY <2>1, HasRendezvous, ListFacts DEF Inv
    <2>3. rendez[i].refs - 1 = rendez[i].refs + (-1)
      BY <2>2 DEF RendezvousType
    <2>4. /\ Len(rendez') = Len(rendez) /\ rendez'[i].refs = rendez[i].refs + (-1)
          /\ \A j \in 1..Len(rendez) : j # i => rendez'[j].refs = rendez[j].refs
      BY <2>1, <2>2, <2>3, RefsOfOne
    <2>5. \A u \in Thread : pc'[u] = IF u = Step THEN "unref" ELSE pc[u]
      BY <2>1, OneMoves, Kinds
    <2>6. Out \in Thread /\ Out \in Holders(i) /\ Out \notin Holders(i)'
      BY <2>1, <2>5, Kinds DEF Holders
    <2>7. ASSUME NEW j \in 1..Len(rendez), NEW v \in Thread, v # Out \/ j # i
          PROVE  v \in Holders(j)' <=> v \in Holders(j)
      <3>1. CASE v = Out
        BY <3>1, <2>1, <2>7, Kinds DEF Holders
      <3>2. CASE v # Out
        BY <3>2, <2>1, <2>5, Kinds DEF Holders
      <3> QED
        BY <3>1, <3>2
    <2>8. Moves(Out, i, -1)
      BY <2>1, <2>2, <2>4, <2>6, <2>7 DEF Moves
    <2> QED
      BY <2>8, <2>6, RefsMoves
  <1>8. CASE AbortingStep(Step)
    BY <1>8, RefsAborting
  <1> QED
    BY <1>1, <1>2, <1>3, <1>4, <1>5, <1>6, <1>7, <1>8 DEF RunStep

\* Every step keeps the references balanced.
LEMMA NextRefs == Inv /\ RefsBalance /\ [Next]_vars => RefsBalance'
  <1> SUFFICES ASSUME Inv, RefsBalance, [Next]_vars PROVE RefsBalance'
    OBVIOUS
  <1>1. ASSUME NEW q \in Request, RecvTensor(q) \/ RequestStep(q) PROVE RefsBalance'
    BY <1>1, Kinds, RefsReceive DEF RequestStep
  <1>2. ASSUME RunGraph \/ RunStep PROVE RefsBalance'
    BY <1>2, RefsRunGraph
  <1>3. ASSUME NEW k \in Key, Send(k) \/ LocalSend(k) PROVE RefsBalance'
    BY <1>3, RefsSend
  <1>4. ASSUME NEW c \in Call, CallStep(c) \/ \E s \in {"ok", "error"} : RpcDone(c, s)
        PROVE  RefsBalance'
    BY <1>4, RefsCall
  <1>5. ASSUME NEW t \in Aborter \cup Cleaner, AbortStep(t) \/ Cleanup(t) \/ AbortingStep(t)
        PROVE  RefsBalance'
    <2>1. CASE AbortStep(t)
      <3>1. LookupStep(t, t, "abort")
        BY <2>1 DEF AbortStep, Goto, LookupStep
      <3> QED
        BY <3>1, <2>1, RefsLookup DEF AbortStep, Goto
    <2>2. CASE Cleanup(t)
      <3>1. t \in Cleaner
        BY <2>2 DEF Cleanup
      <3> QED
        BY <3>1, <2>2, RefsCleanup
    <2>3. CASE AbortingStep(t)
      BY <2>3, RefsAborting
    <2> QED
      BY <1>5, <2>1, <2>2, <2>3
  <1>6. CASE UNCHANGED vars
    <2>1. NobodyMoves
      BY <1>6 DEF vars, NobodyMoves
    <2> QED
      BY <2>1, RefsNobodyMoves
  <1> QED
    BY <1>1, <1>2, <1>3, <1>4, <1>5, <1>6 DEF Next

(***************************************************************************)
(* What is proved.                                                         *)
(***************************************************************************)

\* The invariant and the balance hold in every reachable state.
LEMMA Invariant == Spec => [](Inv /\ RefsBalance)
  <1>1. Init => Inv /\ RefsBalance
    <2>1. Init => rendez = <<>>
      BY DEF Init
    <2>2. Init => RefsBalance
      BY <2>1 DEF RefsBalance
    <2> QED
      BY <2>2, InitInv
  <1>2. (Inv /\ RefsBalance) /\ [Next]_vars => (Inv /\ RefsBalance)'
    BY NextInv, NextRefs
  <1> QED
    BY <1>1, <1>2, PTL DEF Spec

\* A rendezvous that somebody holds has a reference.
LEMMA HeldIsReferenced ==
  ASSUME Inv, RefsBalance, NEW i \in 1..Len(rendez), NEW t \in Holders(i)
  PROVE  rendez[i].refs > 0
  <1>1. Cardinality(Holders(i)) \in Nat /\ IsFiniteSet(Holders(i))
    BY HoldersFinite
  <1>2. Cardinality(Holders(i)) # 0
    BY <1>1, FS_EmptySet
  <1>3. rendez[i].refs = Cardinality(Holders(i)) + (IF table = i THEN 1 ELSE 0)
    BY DEF RefsBalance
  <1> QED
    BY <1>1, <1>2, <1>3

\* An operation of the step that has not been answered is one of a step that
\* goes on, and so holds its rendezvous.
LEMMA StepHolds ==
  ASSUME Inv, NEW o \in StepOp, pc[o] \notin {"absent", "idle", "answered", "release"}
  PROVE  Step \in Holders(at[Step]) /\ at[Step] \in 1..Len(rendez)
  <1>1. o \in Op
    BY Kinds
  <1>2. Len(answers[o]) = 0 /\ answers[o] \in Seq(Status)
    BY <1>1 DEF Inv, DoneExactlyOnce, ShapeOK, DataTypeOK
  <1>3. answers[o] = <<>>
    BY <1>2, EmptySeq
  <1>4. pc[Step] # "done"
    BY <1>3 DEF Inv, OverInv, StepDone
  <1> QED
    BY <1>4, HasRendezvous DEF Holders

\* Nobody uses a rendezvous that has been deleted.
LEMMA UsersHold == Inv /\ RefsBalance => NoUseAfterFree
  <1> SUFFICES ASSUME Inv, RefsBalance, NEW t \in Using PROVE Mine(t).refs > 0
    BY DEF NoUseAfterFree
  <1>1. CASE t \in Request
    <2>1. Inst(t) = at[t] /\ at[t] \in 1..Len(rendez) /\ t \in Holders(at[t])
      BY <1>1, Kinds, HasRendezvous DEF Inst, Holders, Using
    <2> QED
      BY <2>1, HeldIsReferenced DEF Mine
  <1>2. CASE t \in StepOp
    <2>1. Inst(t) = at[Step] /\ pc[t] \notin {"absent", "idle", "answered"}
      BY <1>2, Kinds DEF Inst, Using
    <2>2. CASE pc[t] # "release"
      BY <1>2, <2>1, <2>2, StepHolds, HeldIsReferenced DEF Mine
    <2>3. CASE pc[t] = "release"
      <3>1. t \in Call
        <4>1. pc[t] \in Labels(t) /\ (t \in Key \/ t \in Call)
          BY <1>2, Kinds DEF Inv, ShapeOK, PcTypeOK
        <4> QED
          BY <4>1, <2>3, LabelFacts
      <3>2. t \in Holders(at[Step]) /\ at[Step] \in 1..Len(rendez)
        BY <1>2, <2>1, <2>3, <3>1, HasRendezvous DEF Holders
      <3> QED
        BY <3>2, <2>1, HeldIsReferenced DEF Mine
    <2> QED
      BY <2>2, <2>3
  <1>3. CASE t \in Aborter \cup Cleaner \cup {Step}
    <2>1. Inst(t) = at[t] /\ t \in Thread /\ pc[t] \notin {"absent", "idle", "done"}
      BY <1>3, Kinds DEF Inst, Using
    <2>2. at[t] \in 1..Len(rendez)
      <3>1. CASE t = Step
        BY <3>1, <2>1, HasRendezvous
      <3>2. CASE t \in Aborter \cup Cleaner
        <4>1. pc[t] \in Labels(t)
          BY <2>1 DEF Inv, ShapeOK, PcTypeOK
        <4> QED
          BY <4>1, <3>2, <2>1, LabelFacts, HasRendezvous
      <3> QED
        BY <1>3, <3>1, <3>2
    <2>3. t \in Holders(at[t])
      BY <1>3, <2>1 DEF Holders
    <2> QED
      BY <2>1, <2>2, <2>3, HeldIsReferenced DEF Mine
  <1> QED
    BY <1>1, <1>2, <1>3, Kinds DEF Using

\* A count that balances is a natural number.
LEMMA CountsAreNatural == Inv /\ RefsBalance => TypeOK
  <1> SUFFICES ASSUME Inv, RefsBalance, NEW i \in 1..Len(rendez) PROVE rendez[i].refs \in Nat
    BY DEF TypeOK, Inv
  <1>1. Cardinality(Holders(i)) \in Nat
    BY HoldersFinite
  <1> QED
    BY <1>1 DEF RefsBalance

\* Types: every variable of the worker's rendezvous keeps its type, every thread
\* follows the labels of its kind, and no reference count, whoever gives up a
\* reference and when, becomes negative.
THEOREM TypeCorrect == Spec => []TypeOK
  BY CountsAreNatural, Invariant, PTL

\* References: the reference count of every rendezvous is that of the table and
\* of the threads that hold it, and nobody (not the last RecvTensor call of a
\* step that is over, nor an abort that comes a second late) uses one whose
\* count has reached zero.
THEOREM ReferencesAreHeld == Spec => []ReferencesHeld
  <1>1. Inv /\ RefsBalance => ReferencesHeld
    BY UsersHold, CountsAreNatural DEF ReferencesHeld
  <1> QED
    BY <1>1, Invariant, PTL

\* Aborts: a call that is under way is in active_ or has been aborted, active_
\* holds no call that has been released, and is empty when the rendezvous is
\* deleted, as the CHECK of the destructor asks.
THEOREM AbortReachesCalls == Spec => []AbortReachesEveryCall
  <1>1. Inv /\ RefsBalance => AbortReachesEveryCall
    <2> SUFFICES ASSUME Inv, RefsBalance PROVE AbortReachesEveryCall
      OBVIOUS
    <2>1. ASSUME NEW i \in 1..Len(rendez), NEW c \in rendez[i].active
          PROVE  /\ rendez[i].refs # 0
                 /\ pc[c] \in {"registered", "flying", "deregister"}
      <3>1. pc[c] \in {"registered", "flying", "deregister"} /\ at[Step] = i
        BY DEF Inv, ActiveInv
      <3>2. c \in StepOp
        BY ActiveCalls, Kinds
      <3>3. rendez[i].refs > 0
        BY <3>1, <3>2, StepHolds, HeldIsReferenced
      <3>4. rendez[i].refs \in Int
        BY ListFacts DEF Inv, RendezvousType
      <3> QED
        BY <3>1, <3>3, <3>4
    <2>2. ActiveIsInFlight
      BY <2>1 DEF ActiveIsInFlight
    <2> QED
      BY <2>2 DEF AbortReachesEveryCall, Inv, InFlightInv
  <1> QED
    BY <1>1, Invariant, PTL

\* Answers: the done callback of every request, send and receive runs at most
\* once, exactly when the operation has ended, and a deferred request is never
\* lost between RecvLocalAsync and Initialize.
THEOREM OpsAreAccountedFor == Spec => []OpsAccountedFor
  <1>1. Inv => OpsAccountedFor
    BY DEF Inv, OpsAccountedFor
  <1> QED
    BY <1>1, Invariant, PTL

\* The CHECK of RecvOutputs, that the rendezvous is initialized, fails only if a
\* CleanupGraph call came while the step was running.
THEOREM CrashOnlyIfCleanedUp == Spec => []CrashesOnlyIfCleanedUp
  <1>1. Inv => CrashesOnlyIfCleanedUp
    BY DEF Inv, CleanInv, CrashesOnlyIfCleanedUp
  <1> QED
    BY <1>1, Invariant, PTL

=============================================================================
