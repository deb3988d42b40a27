----------------------------- MODULE Rendezvous -----------------------------
(***************************************************************************)
(* LocalRendezvousImpl (core/framework/rendezvous.cc): a table of channels *)
(* through which producers hand tensors to consumers.                      *)
(*                                                                         *)
(* Every critical section of mu_ is one action; the callbacks, which the   *)
(* code runs after mu_.unlock(), are actions of their own, so another      *)
(* thread may run between the unlock and the callback.                     *)
(*                                                                         *)
(* A tensor is named by the Send call that produces it, a waiter by the    *)
(* RecvAsync call that registers it, a non-OK status by the StartAbort     *)
(* call that introduces it.  An Item is therefore one of these names, and  *)
(* its IsSendValue() is membership in SendId.                              *)
(*                                                                         *)
(* A definition Op_Variant is a faulty form of Op that a slip in the code  *)
(* would give; it is no part of the specification, and shows that the      *)
(* properties notice the slip.                                             *)
(***************************************************************************)
EXTENDS Naturals, Sequences, FiniteSets

CONSTANTS
    Key,        \* hashes of rendezvous keys
    SendId,     \* calls of Send
    RecvId,     \* calls of RecvAsync, or of Recv
    SyncRecv,   \* those that come from the blocking wrapper Recv
    TimedRecv,  \* those of SyncRecv with timeout_ms > 0
    AbortId,    \* calls of StartAbort
    OK,         \* Status::OK()
    NoTensor    \* Tensor()

ASSUME CallAssumption ==
    /\ SendId \cap RecvId = {}
    /\ TimedRecv \subseteq SyncRecv
    /\ SyncRecv \subseteq RecvId
    /\ OK \notin AbortId
    /\ NoTensor \notin SendId

VARIABLES
    table,    \* table_: the item queue of each key
    status,   \* status_
    spc,      \* where each Send call is
    waiter,   \* the waiter a Send call popped and has to notify
    sret,     \* what a Send call returned
    rpc,      \* where each RecvAsync call is
    item,     \* the message its done() is about to be called with
    apc,      \* where each StartAbort call is
    taken,    \* the table a StartAbort call swapped out
    calls,    \* history: the invocations of each waiter's done()
    ret,      \* what a blocking Recv returned
    deleted,  \* ~LocalRendezvousImpl has started
    sent,     \* history: per key, the sends accepted, in the order of mu_
    asked     \* history: per key, the receives accepted, in the order of mu_

tableVars == <<table, status, sent, asked>>
sendVars  == <<spc, waiter, sret>>
recvVars  == <<rpc, item, calls, ret>>
abortVars == <<apc, taken, deleted>>
vars      == <<tableVars, sendVars, recvVars, abortVars>>

Item   == SendId \cup RecvId
Status == {OK} \cup AbortId
Msg    == [status : Status, value : SendId \cup {NoTensor}]

\* What a blocking Recv returns, if not what its done() stored.
Waiting           == [status |-> "waiting", value |-> NoTensor]
DEADLINE_EXCEEDED == [status |-> "DEADLINE_EXCEEDED", value |-> NoTensor]
EmptyTable == [k \in Key |-> <<>>]
NoMsg      == [status |-> OK, value |-> NoTensor]

IsSendValue(i) == i \in SendId

\* What the head of a queue tells Send and RecvAsync to do.
HasMessage(k) == table[k] # <<>> /\ IsSendValue(Head(table[k]))
HasWaiter_NoTypeCheck(k) == table[k] # <<>>
HasWaiter(k)  == table[k] # <<>> /\ ~IsSendValue(Head(table[k]))

\* An item goes to the back of its queue.
PushBack_Front(q, i) == <<i>> \o q
PushBack(q, i) == Append(q, i)

\* StartAbort keeps the status of the first abort.
FirstStatus(a) == IF status = OK THEN a ELSE status

TableTypeOK ==
    /\ table \in [Key -> Seq(Item)]
    /\ status \in Status
    /\ sent \in [Key -> Seq(SendId)]
    /\ asked \in [Key -> Seq(RecvId)]
SendTypeOK ==
    /\ spc \in [SendId -> {"idle", "notify", "returned"}]
    /\ waiter \in [SendId -> RecvId \cup {OK}]
    /\ sret \in [SendId -> Status]
RecvTypeOK ==
    /\ rpc \in [RecvId -> {"idle", "deliver", "returned"}]
    /\ item \in [RecvId -> Msg]
    /\ calls \in [RecvId -> Seq(Msg)]
    /\ ret \in [RecvId -> Msg \cup {Waiting, DEADLINE_EXCEEDED}]
AbortTypeOK ==
    /\ apc \in [AbortId -> {"idle", "running", "returned"}]
    /\ taken \in [AbortId -> [Key -> Seq(Item)]]
    /\ deleted \in BOOLEAN
TypeOK == TableTypeOK /\ SendTypeOK /\ RecvTypeOK /\ AbortTypeOK

Init ==
    /\ table = EmptyTable
    /\ status = OK
    /\ spc = [s \in SendId |-> "idle"]
    /\ waiter = [s \in SendId |-> OK]
    /\ sret = [s \in SendId |-> OK]
    /\ rpc = [r \in RecvId |-> "idle"]
    /\ item = [r \in RecvId |-> NoMsg]
    /\ apc = [a \in AbortId |-> "idle"]
    /\ taken = [a \in AbortId |-> EmptyTable]
    /\ calls = [r \in RecvId |-> <<>>]
    /\ ret = [r \in RecvId |-> Waiting]
    /\ deleted = FALSE
    /\ sent = EmptyTable
    /\ asked = EmptyTable

(***************************************************************************)
(* Send.                                                                   *)
(***************************************************************************)

\* The rendezvous has been aborted: Send returns status_.
SendAborted(s) ==
    /\ spc[s] = "idle" /\ ~deleted
    /\ status # OK
    /\ spc' = [spc EXCEPT ![s] = "returned"]
    /\ sret' = [sret EXCEPT ![s] = status]
    /\ UNCHANGED <<tableVars, waiter, recvVars, abortVars>>

\* There is no waiter for the message: it is appended to the queue.
SendEnqueue(s, k) ==
    /\ spc[s] = "idle" /\ ~deleted
    /\ status = OK
    /\ ~HasWaiter(k)
    /\ table' = [table EXCEPT ![k] = PushBack(@, s)]
    /\ sent' = [sent EXCEPT ![k] = Append(@, s)]
    /\ spc' = [spc EXCEPT ![s] = "returned"]
    /\ sret' = [sret EXCEPT ![s] = OK]
    /\ UNCHANGED <<status, asked, waiter, recvVars, abortVars>>

\* The earliest waiter is taken off the queue, under the lock.
SendMatch_NoPop(s, k) ==
    /\ spc[s] = "idle" /\ ~deleted
    /\ status = OK
    /\ HasWaiter(k)
    /\ waiter' = [waiter EXCEPT ![s] = Head(table[k])]
    /\ sent' = [sent EXCEPT ![k] = Append(@, s)]
    /\ spc' = [spc EXCEPT ![s] = "notify"]
    /\ UNCHANGED <<table, status, asked, sret, recvVars, abortVars>>
SendMatch(s, k) ==
    /\ spc[s] = "idle" /\ ~deleted
    /\ status = OK
    /\ HasWaiter(k)
    /\ waiter' = [waiter EXCEPT ![s] = Head(table[k])]
    /\ table' = [table EXCEPT ![k] = Tail(@)]
    /\ sent' = [sent EXCEPT ![k] = Append(@, s)]
    /\ spc' = [spc EXCEPT ![s] = "notify"]
    /\ UNCHANGED <<status, asked, sret, recvVars, abortVars>>

\* A waiter's done() runs.  The done() of a blocking Recv stores the outcome
\* for the thread that waits; if that thread gave up, nobody reads it.
InvokeDone(r, m) ==
    /\ calls' = [calls EXCEPT ![r] = Append(@, m)]
    /\ ret' = [ret EXCEPT ![r] = IF r \in SyncRecv /\ @ = Waiting THEN m ELSE @]

\* The waiter is notified, outside the lock, and Send returns.
SendNotify(s) ==
    /\ spc[s] = "notify"
    /\ InvokeDone(waiter[s], [status |-> OK, value |-> s])
    /\ spc' = [spc EXCEPT ![s] = "returned"]
    /\ sret' = [sret EXCEPT ![s] = OK]
    /\ UNCHANGED <<tableVars, waiter, rpc, item, abortVars>>

(***************************************************************************)
(* RecvAsync, and the blocking wrapper Recv.                               *)
(***************************************************************************)

\* The rendezvous has been aborted: done() is to be called with status_.
RecvAborted(r) ==
    /\ rpc[r] = "idle" /\ ~deleted
    /\ status # OK
    /\ rpc' = [rpc EXCEPT ![r] = "deliver"]
    /\ item' = [item EXCEPT ![r] = [status |-> status, value |-> NoTensor]]
    /\ UNCHANGED <<tableVars, sendVars, calls, ret, abortVars>>

\* There is no message to pick up: the waiter is appended to the queue.
RecvEnqueue_IgnoreAbort(r, k) ==
    /\ rpc[r] = "idle" /\ ~deleted
    /\ ~HasMessage(k)
    /\ table' = [table EXCEPT ![k] = PushBack(@, r)]
    /\ asked' = [asked EXCEPT ![k] = Append(@, r)]
    /\ rpc' = [rpc EXCEPT ![r] = "returned"]
    /\ UNCHANGED <<status, sent, sendVars, item, calls, ret, abortVars>>
RecvEnqueue(r, k) ==
    /\ rpc[r] = "idle" /\ ~deleted
    /\ status = OK
    /\ ~HasMessage(k)
    /\ table' = [table EXCEPT ![k] = PushBack(@, r)]
    /\ asked' = [asked EXCEPT ![k] = Append(@, r)]
    /\ rpc' = [rpc EXCEPT ![r] = "returned"]
    /\ UNCHANGED <<status, sent, sendVars, item, calls, ret, abortVars>>

\* The earliest message is taken off the queue, under the lock.
RecvMatch_TakeNewest(r, k) ==
    /\ rpc[r] = "idle" /\ ~deleted
    /\ status = OK
    /\ HasMessage(k)
    /\ item' = [item EXCEPT ![r] = [status |-> OK, value |-> table[k][Len(table[k])]]]
    /\ table' = [table EXCEPT ![k] = SubSeq(@, 1, Len(@) - 1)]
    /\ asked' = [asked EXCEPT ![k] = Append(@, r)]
    /\ rpc' = [rpc EXCEPT ![r] = "deliver"]
    /\ UNCHANGED <<status, sent, sendVars, calls, ret, abortVars>>
RecvMatch(r, k) ==
    /\ rpc[r] = "idle" /\ ~deleted
    /\ status = OK
    /\ HasMessage(k)
    /\ item' = [item EXCEPT ![r] = [status |-> OK, value |-> Head(table[k])]]
    /\ table' = [table EXCEPT ![k] = Tail(@)]
    /\ asked' = [asked EXCEPT ![k] = Append(@, r)]
    /\ rpc' = [rpc EXCEPT ![r] = "deliver"]
    /\ UNCHANGED <<status, sent, sendVars, calls, ret, abortVars>>

\* done() runs outside the lock, and RecvAsync returns.
RecvDeliver(r) ==
    /\ rpc[r] = "deliver"
    /\ InvokeDone(r, item[r])
    /\ rpc' = [rpc EXCEPT ![r] = "returned"]
    /\ UNCHANGED <<tableVars, sendVars, item, abortVars>>

\* The timeout of a blocking Recv expires before its done() has run.  The
\* waiter stays where it is.
RecvTimeout(r) ==
    /\ r \in TimedRecv
    /\ rpc[r] = "returned" /\ ret[r] = Waiting
    /\ ret' = [ret EXCEPT ![r] = DEADLINE_EXCEEDED]
    /\ UNCHANGED <<tableVars, sendVars, rpc, item, calls, abortVars>>

(***************************************************************************)
(* StartAbort and the destructor.                                          *)
(***************************************************************************)

\* The table is swapped out.
AbortSwap(a) ==
    /\ apc[a] = "idle" /\ ~deleted
    /\ apc' = [apc EXCEPT ![a] = "running"]
    /\ status' = FirstStatus(a)
    /\ taken' = [taken EXCEPT ![a] = table]
    /\ table' = EmptyTable
    /\ UNCHANGED <<sent, asked, sendVars, recvVars>>

StartAbort(a) == AbortSwap(a) /\ UNCHANGED deleted

\* A call that still runs holds a reference, and so does the caller that is
\* blocked in Recv.
Active ==
    \/ \E s \in SendId : spc[s] = "notify"
    \/ \E r \in RecvId : rpc[r] = "deliver"
    \/ \E r \in SyncRecv : rpc[r] = "returned" /\ ret[r] = Waiting
    \/ \E a \in AbortId : apc[a] = "running"

\* The last reference is dropped: the destructor aborts what is queued.
Delete(a) == ~Active /\ AbortSwap(a) /\ deleted' = TRUE

\* The items swapped out are visited; a waiter gets the status of this very
\* call, a message is dropped.
AbortItem(a, k) ==
    /\ apc[a] = "running"
    /\ taken[a][k] # <<>>
    /\ taken' = [taken EXCEPT ![a][k] = Tail(@)]
    /\ IF IsSendValue(Head(taken[a][k]))
         THEN UNCHANGED <<calls, ret>>
         ELSE InvokeDone(Head(taken[a][k]), [status |-> a, value |-> NoTensor])
    /\ UNCHANGED <<tableVars, sendVars, rpc, item, apc, deleted>>

AbortReturn_SkipItems(a) ==
    /\ apc[a] = "running"
    /\ apc' = [apc EXCEPT ![a] = "returned"]
    /\ UNCHANGED <<tableVars, sendVars, recvVars, taken, deleted>>

AbortReturn(a) ==
    /\ apc[a] = "running"
    /\ taken[a] = EmptyTable
    /\ apc' = [apc EXCEPT ![a] = "returned"]
    /\ UNCHANGED <<tableVars, sendVars, recvVars, taken, deleted>>

(***************************************************************************)
(* The specification.                                                      *)
(***************************************************************************)

\* The steps of a call that is under way.
SendStep(s)  == SendNotify(s)
RecvStep(r)  == RecvDeliver(r)
AbortStep(a) == AbortReturn(a) \/ \E k \in Key : AbortItem(a, k)

Next ==
    \/ \E s \in SendId :
          \/ SendAborted(s)
          \/ SendStep(s)
          \/ \E k \in Key : SendEnqueue(s, k) \/ SendMatch(s, k)
    \/ \E r \in RecvId :
          \/ RecvAborted(r)
          \/ RecvStep(r)
          \/ RecvTimeout(r)
          \/ \E k \in Key : RecvEnqueue(r, k) \/ RecvMatch(r, k)
    \/ \E a \in AbortId : StartAbort(a) \/ Delete(a) \/ AbortStep(a)

Spec == Init /\ [][Next]_vars

\* A thread that has released the lock goes on to run its callbacks; nothing
\* makes a caller call.
Fairness ==
    /\ \A s \in SendId : WF_vars(SendStep(s))
    /\ \A r \in RecvId : WF_vars(RecvStep(r))
    /\ \A a \in AbortId : WF_vars(AbortStep(a))

FairSpec == Spec /\ Fairness

(***************************************************************************)
(* Properties.                                                             *)
(***************************************************************************)

Excess(longer, shorter) == SubSeq(longer, Len(shorter) + 1, Len(longer))

\* What a queue holds is exactly what is still unmatched: the sends beyond the
\* receives or the receives beyond the sends, oldest first, never both.  (The
\* invariant of the comment at ItemQueue, and the FIFO order with it.)
QueueIsUnmatchedRest ==
    status = OK =>
        \A k \in Key :
            table[k] = IF Len(sent[k]) >= Len(asked[k])
                         THEN Excess(sent[k], asked[k])
                         ELSE Excess(asked[k], sent[k])

\* A consumer gets the tensors in the order the producer sent them: the i-th
\* receive of a key is called with the i-th send of that key or with an error,
\* whichever threads carry the calls out.
DeliveredInOrder ==
    \A k \in Key : \A i \in 1..Len(asked[k]) :
        LET cs == calls[asked[k][i]] IN
        \A j \in 1..Len(cs) :
            cs[j].status = OK => i <= Len(sent[k]) /\ cs[j].value = sent[k][i]

QueuedAt(r, t) ==
    UNION {{<<k, i>> : i \in {j \in 1..Len(t[k]) : t[k][j] = r}} : k \in Key}

\* The places that hold the done() of r and are going to call it.
Places(r) ==
    UNION
    { {<<"table", p[1], p[2]>> : p \in QueuedAt(r, table)},
      UNION {{<<"abort", a, p[1], p[2]>> : p \in QueuedAt(r, taken[a])} : a \in AbortId},
      {<<"send", s>> : s \in {x \in SendId : spc[x] = "notify" /\ waiter[x] = r}},
      {<<"recv", x>> : x \in {y \in {r} : rpc[y] = "deliver"}} }

\* A waiter is never lost and never called twice: once RecvAsync has been
\* called, its done() waits in exactly one place (the table, the hands of a
\* Send, of the RecvAsync itself, or of a StartAbort), or it has run once.
DoneExactlyOnce ==
    \A r \in RecvId :
        IF rpc[r] = "idle"
          THEN Places(r) = {} /\ calls[r] = <<>>
          ELSE \/ calls[r] = <<>> /\ \E p \in Places(r) : Places(r) = {p}
               \/ Len(calls[r]) = 1 /\ Places(r) = {}

\* An abort is final: no later step replaces the status it left, and nothing
\* is ever queued again.
AbortIsFinal ==
    [][status # OK => status' = status /\ table' = table]_vars

\* Every done() runs in the end, once the rendezvous is aborted or a send has
\* been matched with the receive; no callback is left behind.
DoneEventuallyRuns ==
    \A r \in RecvId :
        /\ (rpc[r] # "idle" /\ status # OK) ~> calls[r] # <<>>
        /\ \A k \in Key, i \in 1..Cardinality(RecvId) :
             (i <= Len(asked[k]) /\ i <= Len(sent[k]) /\ asked[k][i] = r)
                ~> calls[r] # <<>>

\* What the channels promise, without queues, locks and hand-overs.
Abstract == INSTANCE Channels
                WITH aborted <- {a \in AbortId : apc[a] # "idle"}
ImplementsChannels == Abstract!Spec

\* "The consumer receives the Tensor as soon as it is available": a tensor
\* taken off a channel for a blocking Recv is what this Recv returns.
TensorIsReturned ==
    \A r \in SyncRecv : \A j \in 1..Len(calls[r]) :
        calls[r][j].status = OK => ret[r] = calls[r][j]
=============================================================================
