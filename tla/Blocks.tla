------------------------------- MODULE Blocks -------------------------------
(***************************************************************************)
(* What an allocator promises (core/framework/allocator.h): a block that   *)
(* is handed out is large enough and overlaps no other that is in use, it  *)
(* has an id no block had before, and it stays as it is until it is        *)
(* returned.                                                               *)
(***************************************************************************)
EXTENDS Integers

VARIABLES
    blocks,  \* the blocks in use, [ptr, size, requested, id]
    ids      \* the ids that have been given out

Overlap(b, c) == b.ptr < c.ptr + c.size /\ c.ptr < b.ptr + b.size

Init == blocks = {} /\ ids = {}

Allocate ==
    /\ \E b \in blocks' \ blocks :
         /\ blocks' = blocks \cup {b}
         /\ b.ptr > 0 /\ b.requested > 0 /\ b.size >= b.requested
         /\ b.id \notin ids /\ ids' = ids \cup {b.id}
         /\ \A c \in blocks : ~Overlap(b, c)

Deallocate ==
    /\ \E b \in blocks : blocks' = blocks \ {b}
    /\ UNCHANGED ids

Next == Allocate \/ Deallocate

Spec == Init /\ [][Next]_<<blocks, ids>>
=============================================================================
