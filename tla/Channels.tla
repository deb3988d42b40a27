------------------------------ MODULE Channels ------------------------------
(***************************************************************************)
(* What a Rendezvous promises (core/framework/rendezvous.h), with no table *)
(* of queues, no lock and no thread that carries a callback: each key is a *)
(* channel whose i-th receive gets its i-th send.  A receive that has no   *)
(* send to match fails, once the rendezvous is aborted; one that has a     *)
(* match never fails.                                                      *)
(***************************************************************************)
EXTENDS Naturals, Sequences

CONSTANTS Key, SendId, RecvId, AbortId, OK, NoTensor

VARIABLES
    sent,     \* per key, the sends accepted
    asked,    \* per key, the receives accepted
    aborted,  \* the aborts so far
    calls     \* the outcomes each receive has been called with

cvars == <<sent, asked, aborted, calls>>

ChannelInit ==
    /\ sent = [k \in Key |-> <<>>]
    /\ asked = [k \in Key |-> <<>>]
    /\ aborted = {}
    /\ calls = [r \in RecvId |-> <<>>]

Accepted(x, seqs) == \E k \in Key : \E i \in 1..Len(seqs[k]) : seqs[k][i] = x

ChannelSend(s, k) ==
    /\ aborted = {}
    /\ ~Accepted(s, sent)
    /\ sent' = [sent EXCEPT ![k] = Append(@, s)]
    /\ UNCHANGED <<asked, aborted, calls>>

ChannelRecv(r, k) ==
    /\ aborted = {}
    /\ ~Accepted(r, asked)
    /\ asked' = [asked EXCEPT ![k] = Append(@, r)]
    /\ UNCHANGED <<sent, aborted, calls>>

ChannelAbort(a) ==
    /\ a \notin aborted
    /\ aborted' = aborted \cup {a}
    /\ UNCHANGED <<sent, asked, calls>>

\* The i-th receive of a key is called with the i-th send.
Deliver(r) ==
    /\ calls[r] = <<>>
    /\ \E k \in Key : \E i \in 1..Len(asked[k]) :
          /\ asked[k][i] = r
          /\ i <= Len(sent[k])
          /\ calls' = [calls EXCEPT
                         ![r] = <<[status |-> OK, value |-> sent[k][i]]>>]
    /\ UNCHANGED <<sent, asked, aborted>>

\* A receive with no send to match is called with the status of an abort.
Fail(r) ==
    /\ calls[r] = <<>>
    /\ \A k \in Key : \A i \in 1..Len(asked[k]) :
          asked[k][i] = r => i > Len(sent[k])
    /\ \E a \in aborted :
          calls' = [calls EXCEPT ![r] = <<[status |-> a, value |-> NoTensor]>>]
    /\ UNCHANGED <<sent, asked, aborted>>

ChannelNext ==
    \/ \E s \in SendId, k \in Key : ChannelSend(s, k)
    \/ \E r \in RecvId, k \in Key : ChannelRecv(r, k)
    \/ \E a \in AbortId : ChannelAbort(a)
    \/ \E r \in RecvId : Deliver(r) \/ Fail(r)

Spec == ChannelInit /\ [][ChannelNext]_cvars
=============================================================================
