-------------------------- MODULE MCCancellableOps --------------------------
(***************************************************************************)
(* Small instances of CancellableOps.                                      *)
(***************************************************************************)
EXTENDS CancellableOps, TLC

CONSTANTS c1, c2, t1, t2, t3

\* Two operations of one step and one of another.
MCCMOf == (t1 :> c1) @@ (t2 :> c1) @@ (t3 :> c2)
=============================================================================
