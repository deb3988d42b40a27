---------------------------- MODULE MCFIFOQueue -----------------------------
(***************************************************************************)
(* Small instances of FIFOQueue.                                           *)
(***************************************************************************)
EXTENDS FIFOQueue, TLC

CONSTANTS c1, c2, d0, d1, d2, d3, e1, e2, e3, x1, x2

\* An EnqueueMany of three and a Close, against a DequeueMany and a DequeueUpTo
\* of two, or one of them and the cancellation of its step, or of both steps;
\* both against an Enqueue and the cancellation of their step; two enqueues and
\* a dequeue against a Close that cancels and the cancellation of their step;
\* and a batch of no elements.
MCScripts == {{e1, d1, d2, x1}, {e1, d1, x1, c1}, {e1, d2, x1, c1, c2},
              {e3, d1, d2, c1}, {e2, e3, d3, x2, c1}, {d0, x1}}
MCNum  == (e1 :> 3) @@ (d1 :> 2) @@ (d2 :> 2)
          @@ (e2 :> 2) @@ (e3 :> 1) @@ (d3 :> 1) @@ (d0 :> 0)
MCCMOf == [o \in DOMAIN MCNum |-> IF o = e1 THEN c2 ELSE c1]

\* Two enqueues and a dequeue of one step, and a Close.
RaceNum  == (e2 :> 2) @@ (e3 :> 1) @@ (d3 :> 1)
RaceCMOf == [o \in DOMAIN RaceNum |-> c1]

\* All threads meet.
All == {Thread}
=============================================================================
