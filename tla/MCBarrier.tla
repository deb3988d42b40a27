----------------------------- MODULE MCBarrier ------------------------------
EXTENDS Barrier

\* i0 begins one key and i1 both; i2 completes one, i3 the other and then fails
\* if i2 was first.
MCKeys == [o \in Inserter |-> CASE o \in {"i0", "i2"} -> <<"a">> [] o = "i1" -> <<"a", "b">>
                                [] OTHER -> <<"b", "a">>]
MCComp == [o \in Inserter |-> IF o \in {"i0", "i1"} THEN 0 ELSE 1]
MCWant == [o \in Taker |-> IF o \in Small THEN 2 ELSE 1]
MCVictim == [c \in Canceller |-> IF c = "x1" THEN "t1" ELSE "i2"]
\* Takes of both kinds around a close; the two closes; a batch that fails; steps
\* that are cancelled; and a plain close that flushes what an insert has completed.
MCScripts == {{"i1", "i2", "t1", "t2", "c1"}, {"i1", "i2", "t1", "c1", "c2"},
              {"i1", "i2", "i3", "t1", "c2"}, {"i1", "i2", "t1", "t2", "x1"},
              {"i1", "i2", "t2", "c1", "x2"}, {"i1", "i3", "t2", "c1"}}
MCAll == {Thread}
MCThread == Op \cup Canceller
=============================================================================
