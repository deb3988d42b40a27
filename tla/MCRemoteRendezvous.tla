------------------------- MODULE MCRemoteRendezvous -------------------------
EXTENDS RemoteRendezvous, TLC

CONSTANTS q1, q2, c1, c2, k1, k2, a1, x1

MCKeyOf == [x \in Receiver |-> IF x = q1 THEN k1 ELSE k2]

\* Two requests, one of them foreign, before and after Initialize, and a tensor
\* for one of them; a request and calls of both kinds; all of them with a step
\* that is cancelled or cleaned up.
MCScripts == {{q1, q2, k1, a1, x1}, {q1, k1, c1, a1, x1}, {c1, c2, k2, a1}, {c1, c2, k2, x1}}
=============================================================================
