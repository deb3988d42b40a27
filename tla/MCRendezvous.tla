---------------------------- MODULE MCRendezvous ----------------------------
(***************************************************************************)
(* Small instances of Rendezvous.                                          *)
(***************************************************************************)
EXTENDS Rendezvous

CONSTANTS k1, k2, s1, s2, r1, r2, a1, a2

\* Two keys, two sends; an asynchronous receive and a blocking one with a
\* timeout; two aborts, one of which may be the destructor's.
MCKey       == {k1, k2}
MCSendId    == {s1, s2}
MCRecvId    == {r1, r2}
MCSyncRecv  == {r2}
MCTimedRecv == {r2}
MCAbortId   == {a1, a2}
=============================================================================
