-------------------------- MODULE RemoteRendezvous --------------------------
(***************************************************************************)
(* BaseRendezvousMgr and RpcRemoteRendezvous (core/distributed_runtime/    *)
(* base_rendezvous_mgr.cc, rpc/rpc_rendezvous_mgr.cc) on one worker, as    *)
(* one step uses them: RunGraph, the RecvTensor calls of other workers for *)
(* what the step sends, its own RecvTensor calls to other workers, and the *)
(* calls that end it, CleanupGraph and the cancellation of an RPC.  Other  *)
(* workers and the master are the environment: their calls come at any     *)
(* time and in any order, and an RPC may fail.                             *)
(*                                                                         *)
(* The manager's table names the rendezvous of the step; a call that finds *)
(* none creates one, so that there may be several in a row.  A call of     *)
(* local_, a LocalRendezvousImpl, is atomic (Rendezvous shows that it is). *)
(*                                                                         *)
(* Op_Variant is a faulty form of Op (see CancellationManager).            *)
(***************************************************************************)
EXTENDS Integers, Sequences, FiniteSets, Functions

CONSTANTS
    Request,    \* RecvTensor calls of other workers
    Key,        \* the tensors the step sends
    Call,       \* the tensors it receives
    LocalCall,  \* those of them that come from the same worker
    KeyOf,      \* the tensor a Request or a LocalCall is for
    Foreign,    \* requests for tensors this worker does not send
    Aborter,    \* RPCs whose cancellation aborts the step
    Cleaner,    \* CleanupGraph calls
    Step, Out,  \* the RunGraph call, and its use of RecvOutputs
    Scripts     \* sets of threads: the step and those of one of them do something

Receiver == Request \cup LocalCall
StepOp   == Key \cup Call
Op       == Request \cup StepOp
Thread   == Op \cup Aborter \cup Cleaner \cup {Step, Out}

ASSUME RemoteAssumption ==
    /\ LocalCall \subseteq Call /\ Foreign \subseteq Request
    /\ KeyOf \in [Receiver -> Key]
    /\ Scripts \subseteq SUBSET Thread
    /\ \A x, y \in Receiver \ Foreign : KeyOf[x] = KeyOf[y] => x = y

\* Calls, tensors and threads are different things, and there are finitely many.
ASSUME ThreadAssumption ==
    /\ IsFiniteSet(Thread)
    /\ Request \cap StepOp = {} /\ Key \cap Call = {}
    /\ Op \cap (Aborter \cup Cleaner \cup {Step, Out}) = {}
    /\ Aborter \cap Cleaner = {} /\ Step # Out
    /\ {Step, Out} \cap (Aborter \cup Cleaner) = {}

VARIABLES
    table,    \* table_: the index of the step's rendezvous, 0 if there is none
    rendez,   \* the rendezvous created so far
    pc,       \* where each thread is
    at,       \* the rendezvous it has found
    todo,     \* the deferred_calls of Initialize
    call,     \* the RpcRecvTensorCall of each remote Call
    answers   \* history: the statuses the done callback of an Op was given

vars == <<table, rendez, pc, at, todo, call, answers>>

NewRendezvous == [refs |-> 1, session |-> FALSE, status |-> "ok", deferred |-> <<>>,
                  active |-> {}, aborted |-> FALSE, buffered |-> {}, waiting |-> {}]
NewCall == [status |-> "ok", cancel_func |-> FALSE, cancelled |-> FALSE]

Init ==
    /\ table = 0 /\ rendez = <<>>
    /\ \E script \in Scripts :
         pc = [t \in Thread |-> IF t \in script \cup {Step, Out} THEN "idle" ELSE "absent"]
    /\ at = [t \in Thread |-> 0]
    /\ todo = <<>>
    /\ call = [c \in Call |-> NewCall]
    /\ answers = [o \in Op |-> <<>>]

Goto(t, here, there) == pc[t] = here /\ pc' = [pc EXCEPT ![t] = there]

(***************************************************************************)
(* The manager.                                                            *)
(***************************************************************************)
FindOrCreate_NoRef(t) ==
    IF table # 0
      THEN /\ at' = [at EXCEPT ![t] = table]
           /\ UNCHANGED <<table, rendez>>
      ELSE /\ rendez' = Append(rendez, [NewRendezvous EXCEPT !.refs = 2])
           /\ table' = Len(rendez) + 1
           /\ at' = [at EXCEPT ![t] = Len(rendez) + 1]
FindOrCreate_AlwaysCreate(t) ==
    /\ rendez' = Append(rendez, [NewRendezvous EXCEPT !.refs = 2])
    /\ table' = Len(rendez) + 1
    /\ at' = [at EXCEPT ![t] = Len(rendez) + 1]
FindOrCreate(t) ==
    IF table # 0
      THEN /\ rendez' = [rendez EXCEPT ![table].refs = @ + 1]
           /\ at' = [at EXCEPT ![t] = table]
           /\ UNCHANGED table
      ELSE /\ rendez' = Append(rendez, [NewRendezvous EXCEPT !.refs = 2])
           /\ table' = Len(rendez) + 1
           /\ at' = [at EXCEPT ![t] = Len(rendez) + 1]

\* The rendezvous a thread uses: those of the step share the step's.
Inst(t) == IF t \in StepOp THEN at[Step] ELSE at[t]
Mine(t) == rendez[Inst(t)]

\* The done callbacks of the operations X run with status s; those of Request
\* give up a reference, which leaves r.
Answered(X, s) == answers' = [o \in Op |-> IF o \in X THEN Append(answers[o], s) ELSE answers[o]]
Unref(r, X) == [r EXCEPT !.refs = @ - Cardinality(X \cap Request)]

\* Thread t leaves r behind, its operation is finished with status s, and so are
\* the receivers of X, which have been waiting.
FinishWith(t, r, s, X) ==
    /\ rendez' = [rendez EXCEPT ![Inst(t)] = Unref(r, {t} \cup X)]
    /\ pc' = [u \in Thread |-> IF u \in {t} \cup X THEN "answered" ELSE pc[u]]
    /\ Answered({t} \cup X, s)

(***************************************************************************)
(* A RecvTensor call of another worker.                                    *)
(***************************************************************************)
RecvTensor(q) ==
    /\ Goto(q, "idle", "found")
    /\ FindOrCreate(q)
    /\ UNCHANGED <<todo, call, answers>>

\* RecvLocalAsync: the call is deferred until Initialize.
Deferred(q) ==
    /\ pc' = [pc EXCEPT ![q] = "deferred"]
    /\ rendez' = [rendez EXCEPT ![Inst(q)].deferred = Append(@, q)]
RecvLocalAsync_CheckFirst(q) ==
    /\ \/ /\ pc[q] = "found"
          /\ pc' = [pc EXCEPT ![q] = IF Mine(q).session THEN "recv" ELSE "unready"]
          /\ UNCHANGED rendez
       \/ pc[q] = "unready" /\ Deferred(q)
    /\ UNCHANGED <<table, at, todo, call, answers>>
RecvLocalAsync(q) ==
    /\ pc[q] = "found"
    /\ IF Mine(q).session
         THEN Goto(q, "found", "recv") /\ UNCHANGED rendez
         ELSE Deferred(q)
    /\ UNCHANGED <<table, at, todo, call, answers>>

\* RecvLocalAsyncInternal: ValidateDevices, then RecvAsync of local_.
RecvLocalAsyncInternal(q) ==
    /\ pc[q] = "recv" /\ q \in Request
    /\ IF Mine(q).status # "ok" \/ q \in Foreign
         THEN FinishWith(q, Mine(q), "error", {})
         ELSE Goto(q, "recv", "local") /\ UNCHANGED <<rendez, answers>>
    /\ UNCHANGED <<table, at, todo, call>>

LocalRecv(x) ==
    /\ pc[x] = "local"
    /\ LET r == Mine(x) IN
       \/ r.aborted /\ FinishWith(x, r, "error", {})
       \/ /\ ~r.aborted /\ KeyOf[x] \in r.buffered
          /\ FinishWith(x, [r EXCEPT !.buffered = @ \ {KeyOf[x]}], "ok", {})
       \/ /\ ~r.aborted /\ KeyOf[x] \notin r.buffered
          /\ rendez' = [rendez EXCEPT ![Inst(x)].waiting = @ \cup {x}]
          /\ Goto(x, "local", "waiting")
          /\ UNCHANGED answers
    /\ UNCHANGED <<table, at, todo, call>>

(***************************************************************************)
(* RunGraph: Initialize, then what the executor sends and receives.        *)
(***************************************************************************)
RunGraph ==
    /\ Goto(Step, "idle", "found")
    /\ FindOrCreate(Step)
    /\ UNCHANGED <<todo, call, answers>>

\* The deferred calls are swapped out, and then served one by one.
Initialize_Drop ==
    /\ Goto(Step, "found", "flush")
    /\ rendez' = [rendez EXCEPT ![at[Step]].session = TRUE, ![at[Step]].deferred = <<>>]
    /\ UNCHANGED <<table, at, todo, call, answers>>
Initialize ==
    /\ Goto(Step, "found", "flush")
    /\ rendez' = [rendez EXCEPT ![at[Step]].session = TRUE, ![at[Step]].deferred = <<>>]
    /\ todo' = Mine(Step).deferred
    /\ UNCHANGED <<table, at, call, answers>>

ServeDeferred ==
    /\ pc[Step] = "flush" /\ todo # <<>>
    /\ \/ Goto(Head(todo), "deferred", "recv") /\ UNCHANGED todo
       \/ /\ pc[Head(todo)] \in {"waiting", "answered"}
          /\ todo' = Tail(todo)
          /\ UNCHANGED pc
    /\ UNCHANGED <<table, rendez, at, call, answers>>

\* The tensors of the caller are sent; if that fails, because of a bad key or an
\* abort, the step is over without StartAbort and before any executor is started.
SendInputsFails ==
    /\ todo = <<>>
    /\ Goto(Step, "flush", "unref")
    /\ UNCHANGED <<table, rendez, at, todo, call, answers>>

Execute ==
    /\ pc[Step] = "flush" /\ todo = <<>>
    /\ pc' = [t \in Thread |-> IF t = Step THEN "running"
                               ELSE IF t \in StepOp /\ pc[t] = "idle" THEN "start" ELSE pc[t]]
    /\ UNCHANGED <<table, rendez, at, todo, call, answers>>

\* Send: the status is checked first, then the tensor goes to local_.
Send(k) ==
    /\ pc[k] = "start" /\ k \in Key
    /\ IF Mine(k).status # "ok"
         THEN FinishWith(k, Mine(k), "error", {})
         ELSE Goto(k, "start", "send") /\ UNCHANGED <<rendez, answers>>
    /\ UNCHANGED <<table, at, todo, call>>

LocalSend(k) ==
    /\ pc[k] = "send"
    /\ LET r == Mine(k)
           X == {x \in r.waiting : KeyOf[x] = k}
       IN  IF r.aborted THEN FinishWith(k, r, "error", {})
           ELSE FinishWith(k, [r EXCEPT !.waiting = @ \ X,
                                        !.buffered = IF X = {} THEN @ \cup {k} ELSE @], "ok", X)
    /\ UNCHANGED <<table, at, todo, call>>

\* RecvAsync: from local_, or by an RPC.
RecvAsync(c) ==
    /\ pc[c] = "start" /\ c \in Call
    /\ IF Mine(c).status # "ok"
         THEN FinishWith(c, Mine(c), "error", {})
         ELSE /\ Goto(c, "start", IF c \in LocalCall THEN "local" ELSE "register")
              /\ UNCHANGED <<rendez, answers>>
    /\ UNCHANGED <<table, at, todo, call>>

(***************************************************************************)
(* RecvFromRemoteAsync, RpcRecvTensorCall and CallOptions.                 *)
(***************************************************************************)

\* RpcRecvTensorCall::StartAbort: the RPC is cancelled if there is one.
AbortCall(r) == [r EXCEPT !.status = "error", !.cancelled = r.cancel_func]

RegisterCall_NoCheck(c) ==
    /\ Goto(c, "register", "registered")
    /\ rendez' = [rendez EXCEPT ![Inst(c)].active = @ \cup {c}]
    /\ UNCHANGED <<table, at, todo, call, answers>>
RegisterCall(c) ==
    /\ Goto(c, "register", "registered")
    /\ IF Mine(c).status # "ok"
         THEN /\ call' = [call EXCEPT ![c] = AbortCall(@)]
              /\ UNCHANGED rendez
         ELSE /\ rendez' = [rendez EXCEPT ![Inst(c)].active = @ \cup {c}]
              /\ UNCHANGED call
    /\ UNCHANGED <<table, at, todo, answers>>

\* Ref, and the RPC is issued, which sets the cancel callback.  A call that has
\* been aborted is issued as well.
StartCall(c) ==
    /\ Goto(c, "registered", "flying")
    /\ rendez' = [rendez EXCEPT ![Inst(c)].refs = @ + 1]
    /\ call' = [call EXCEPT ![c].cancel_func = TRUE]
    /\ UNCHANGED <<table, at, todo, answers>>

\* The RPC ends, with a tensor or an error; a cancelled one may end either way.
RpcDone(c, s) ==
    /\ Goto(c, "flying", "deregister")
    /\ call' = [call EXCEPT ![c].cancel_func = FALSE,
                            ![c].status = IF @ = "ok" THEN s ELSE @]
    /\ UNCHANGED <<table, rendez, at, todo, answers>>

DeregisterCall(c) ==
    /\ Goto(c, "deregister", "report")
    /\ rendez' = [rendez EXCEPT ![Inst(c)].active = @ \ {c}]
    /\ UNCHANGED <<table, at, todo, call, answers>>

CallDone(c) ==
    /\ Goto(c, "report", "release")
    /\ Answered({c}, call[c].status)
    /\ UNCHANGED <<table, rendez, at, todo, call>>

\* The call, which needs the session, goes to the free list; Unref.
ReleaseCall(c) ==
    /\ Goto(c, "release", "answered")
    /\ rendez' = [rendez EXCEPT ![Inst(c)].refs = @ - 1]
    /\ UNCHANGED <<table, at, todo, call, answers>>

(***************************************************************************)
(* StartAbort: first local_, then, under mu_, the active calls.            *)
(***************************************************************************)
AbortLocal(t) ==
    /\ pc[t] = "abort"
    /\ LET r == Mine(t) IN
       /\ rendez' = [rendez EXCEPT ![Inst(t)] =
                        Unref([r EXCEPT !.aborted = TRUE, !.waiting = {}, !.buffered = {}], r.waiting)]
       /\ pc' = [u \in Thread |-> IF u = t THEN "abort calls"
                                  ELSE IF u \in r.waiting THEN "answered" ELSE pc[u]]
       /\ Answered(r.waiting, "error")
    /\ UNCHANGED <<table, at, todo, call>>

AbortCalls(t) ==
    /\ Goto(t, "abort calls", IF t = Step THEN "failing" ELSE "unref")
    /\ IF Mine(t).status = "ok"
         THEN /\ rendez' = [rendez EXCEPT ![Inst(t)].status = "error", ![Inst(t)].active = {}]
              /\ call' = [c \in Call |-> IF c \in Mine(t).active THEN AbortCall(call[c]) ELSE call[c]]
         ELSE UNCHANGED <<rendez, call>>
    /\ UNCHANGED <<table, at, todo, answers>>

UnrefLast(t) ==
    /\ Goto(t, "unref", "done")
    /\ rendez' = [rendez EXCEPT ![Inst(t)].refs = @ - 1]
    /\ UNCHANGED <<table, at, todo, call, answers>>

\* Worker::AbortStep, which the cancellation of an RPC calls.  The callback is set
\* before the RPC looks the rendezvous up and cleared after it has given it up,
\* so this may come first, and last.  The rendezvous is looked up now and
\* aborted a second later.
AbortStep(a) ==
    /\ a \in Aborter
    /\ Goto(a, "idle", "abort")
    /\ FindOrCreate(a)
    /\ UNCHANGED <<todo, call, answers>>

\* Cleanup takes the rendezvous off the table, with the table's reference.
Cleanup(x) ==
    /\ x \in Cleaner
    /\ Goto(x, "idle", IF table = 0 THEN "done" ELSE "abort")
    /\ at' = [at EXCEPT ![x] = table]
    /\ table' = 0
    /\ UNCHANGED <<rendez, todo, call, answers>>

(***************************************************************************)
(* The end of RunGraph.                                                    *)
(***************************************************************************)
StepErrors == {o \in StepOp : "error" \in Range(answers[o])}
StepDone   == \A o \in StepOp : pc[o] \in {"absent", "idle"} \/ answers[o] # <<>>

\* The first error makes the executor abort the rendezvous.
StepFails ==
    /\ StepErrors # {}
    /\ Goto(Step, "running", "abort")
    /\ UNCHANGED <<table, rendez, at, todo, call, answers>>

StepFailed ==
    /\ StepDone
    /\ Goto(Step, "failing", "unref")
    /\ UNCHANGED <<table, rendez, at, todo, call, answers>>

\* If there was none, RecvOutputs looks the rendezvous up once more.
FindOutputs ==
    /\ StepDone /\ StepErrors = {}
    /\ Goto(Step, "running", "outputs")
    /\ FindOrCreate(Out)
    /\ UNCHANGED <<todo, call, answers>>

\* RecvAsync CHECKs that it is initialized; then Unref.
RecvOutputs ==
    /\ pc[Step] = "outputs"
    /\ IF Mine(Out).session
         THEN /\ Goto(Step, "outputs", "unref")
              /\ rendez' = [rendez EXCEPT ![at[Out]].refs = @ - 1]
         ELSE Goto(Step, "outputs", "crash") /\ UNCHANGED rendez
    /\ UNCHANGED <<table, at, todo, call, answers>>

(***************************************************************************)
(* The specification.                                                      *)
(***************************************************************************)
RequestStep(q) == RecvLocalAsync(q) \/ RecvLocalAsyncInternal(q) \/ LocalRecv(q)
CallStep(c) ==
    \/ RecvAsync(c) \/ (c \in LocalCall /\ LocalRecv(c)) \/ RegisterCall(c) \/ StartCall(c)
    \/ DeregisterCall(c) \/ CallDone(c) \/ ReleaseCall(c)
AbortingStep(t) == AbortLocal(t) \/ AbortCalls(t) \/ UnrefLast(t)
RunStep ==
    \/ Initialize \/ ServeDeferred \/ SendInputsFails \/ Execute \/ StepFails \/ StepFailed
    \/ FindOutputs \/ RecvOutputs \/ AbortingStep(Step)

\* A failed CHECK ends the process.
running == pc[Step] # "crash"

Next ==
    /\ running
    /\ \/ \E q \in Request : RecvTensor(q) \/ RequestStep(q)
       \/ RunGraph \/ RunStep
       \/ \E k \in Key : Send(k) \/ LocalSend(k)
       \/ \E c \in Call : CallStep(c) \/ \E s \in {"ok", "error"} : RpcDone(c, s)
       \/ \E t \in Aborter \cup Cleaner : AbortStep(t) \/ Cleanup(t) \/ AbortingStep(t)

\* Threads go on; no call has to come, and an RPC has to end only if it has
\* been cancelled.
Spec ==
    /\ Init /\ [][Next]_vars
    /\ \A q \in Request : WF_vars(running /\ RequestStep(q))
    /\ WF_vars(running /\ RunStep)
    /\ \A k \in Key : WF_vars(running /\ (Send(k) \/ LocalSend(k)))
    /\ \A c \in Call : WF_vars(running /\ CallStep(c))
    /\ \A c \in Call : WF_vars(running /\ call[c].cancelled /\ \E s \in {"ok", "error"} : RpcDone(c, s))
    /\ \A t \in Aborter \cup Cleaner : WF_vars(running /\ AbortingStep(t))

(***************************************************************************)
(* Properties.                                                             *)
(***************************************************************************)
Status == {"ok", "error"}
RendezvousType ==
    [refs : Int, session : BOOLEAN, status : Status, deferred : Seq(Request),
     active : SUBSET (Call \ LocalCall), aborted : BOOLEAN, buffered : SUBSET Key,
     waiting : SUBSET Receiver]
CallType == [status : Status, cancel_func : BOOLEAN, cancelled : BOOLEAN]

ListTypeOK ==
    /\ rendez \in Seq(RendezvousType) /\ table \in 0..Len(rendez)
    /\ at \in [Thread -> 0..Len(rendez)]
DataTypeOK ==
    /\ todo \in Seq(Request)
    /\ call \in [Call -> CallType]
    /\ answers \in [Op -> Seq(Status)]
Labels(t) ==
    CASE t \in Request -> {"absent", "idle", "found", "deferred", "recv", "local", "waiting",
                           "answered"}
      [] t \in Key -> {"absent", "idle", "start", "send", "answered"}
      [] t \in LocalCall -> {"absent", "idle", "start", "local", "waiting", "answered"}
      [] t \in Call \ LocalCall -> {"absent", "idle", "start", "register", "registered", "flying",
                                    "deregister", "report", "release", "answered"}
      [] t \in Aborter \cup Cleaner -> {"absent", "idle", "abort", "abort calls", "unref", "done"}
      [] t = Step -> {"idle", "found", "flush", "running", "abort", "abort calls", "failing",
                      "outputs", "unref", "done", "crash"}
      [] t = Out -> {"idle"}
PcTypeOK == DOMAIN pc = Thread /\ \A t \in Thread : pc[t] \in Labels(t)
ShapeOK == ListTypeOK /\ DataTypeOK /\ PcTypeOK

\* A reference count, which threads raise and lower at different times, is a
\* natural number.
TypeOK == ShapeOK /\ \A i \in 1..Len(rendez) : rendez[i].refs \in Nat

\* The threads that still hold a reference on rendezvous i.
Holders(i) ==
    {q \in Request : at[q] = i /\ pc[q] # "answered"}
    \cup {c \in Call : at[Step] = i /\ pc[c] \in {"flying", "deregister", "report", "release"}}
    \cup {t \in Aborter \cup Cleaner \cup {Step} : at[t] = i /\ pc[t] # "done"}
    \cup {t \in {Out} : at[t] = i /\ pc[Step] \in {"outputs", "crash"}}

\* A rendezvous lives as long as somebody uses it, and no longer: its reference
\* count is that of the table and of the threads that hold it.
RefsBalance ==
    \A i \in 1..Len(rendez) :
        rendez[i].refs = Cardinality(Holders(i)) + (IF table = i THEN 1 ELSE 0)

\* The threads whose next steps use a rendezvous.
Using == {t \in Op : pc[t] \notin {"absent", "idle", "answered"}}
         \cup {t \in Aborter \cup Cleaner \cup {Step} : pc[t] \notin {"absent", "idle", "done"}}

\* Nobody uses a rendezvous that has been deleted; in particular not the last
\* call of a step, which comes back when the step is over.
NoUseAfterFree == \A t \in Using : Mine(t).refs > 0

\* References are counted right, and held by whoever needs them.
ReferencesHeld == TypeOK /\ RefsBalance /\ NoUseAfterFree

\* "CHECK(active_.empty())" in the destructor holds, and an active call is one
\* that has not been released, to be reused by another step.
ActiveIsInFlight ==
    \A i \in 1..Len(rendez) :
        /\ rendez[i].refs = 0 => rendez[i].active = {}
        /\ \A c \in rendez[i].active : pc[c] \in {"registered", "flying", "deregister"}

\* "If StartAbort was called prior to DeregisterCall, then the current status
\* should be bad": however registering and aborting interleave, a call that is
\* under way can be aborted, or has been; and active_ holds no other call.
AbortReachesEveryCall ==
    /\ ActiveIsInFlight
    /\ \A c \in Call :
         pc[c] \in {"registered", "flying", "deregister"} =>
             IF Mine(c).status = "ok" THEN c \in Mine(c).active ELSE call[c].status = "error"

\* A request is deferred only as long as the rendezvous is not initialized.  (If
\* it is aborted instead, or cleaned up, the request is never answered.)
DeferredAwaitInitialize ==
    \A q \in Request :
        pc[q] = "deferred" =>
            IF Mine(q).session THEN q \in Range(todo) ELSE q \in Range(Mine(q).deferred)

\* The done callback of every operation runs once.
DoneExactlyOnce ==
    \A o \in Op :
        Len(answers[o]) = IF pc[o] \in {"answered", "release"} THEN 1 ELSE 0

\* No operation is answered twice, and none that is deferred is forgotten.
OpsAccountedFor == DoneExactlyOnce /\ DeferredAwaitInitialize

\* The rendezvous of the step has been taken off the table, after the step had
\* found it.
CleanedUp == at[Step] # 0 /\ \E x \in Cleaner : at[x] = at[Step]

\* RecvOutputs finds a rendezvous that is not initialized, and the process dies
\* of a CHECK, only if the step was cleaned up while it was running; a clean-up
\* that came before it, an abort or a late request does no harm.
CrashesOnlyIfCleanedUp == pc[Step] = "crash" => CleanedUp

\* Once a rendezvous that has been initialized is aborted, every request it has
\* got is answered, and every call that has been cancelled.
AbortedOpsEnd ==
    /\ \A q \in Request :
         (pc[q] \notin {"absent", "idle"} /\ Mine(q).session /\ Mine(q).status # "ok")
             ~> (pc[q] = "answered" \/ ~running)
    /\ \A c \in Call : call[c].cancelled ~> (answers[c] # <<>> \/ ~running)
=============================================================================
