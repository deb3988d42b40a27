----------------------------- MODULE MCExecutor -----------------------------
(***************************************************************************)
(* Small graphs for Executor.                                              *)
(***************************************************************************)
EXTENDS Executor

D(d, slot, in) == [dst |-> d, slot |-> slot, in |-> in]
C(d) == [dst |-> d, slot |-> kControlSlot, in |-> -1]

(***************************************************************************)
(* A while loop with a counter i, an accumulator a and an invariant c:     *)
(*     while cond(i): i = i + 1; a = body(a, c)                            *)
(***************************************************************************)
WhileOut == [
    src  |-> <<D("ei", 0, 0), D("ea", 0, 0), D("ec", 0, 0)>>,
    ei   |-> <<D("mi", 0, 0)>>,
    ea   |-> <<D("ma", 0, 0)>>,
    ec   |-> <<D("body", 0, 1)>>,
    mi   |-> <<D("cond", 0, 0), D("si", 0, 0)>>,
    ma   |-> <<D("sa", 0, 0)>>,
    cond |-> <<D("si", 0, 1), D("sa", 0, 1)>>,
    si   |-> <<D("ni", 1, 0)>>,
    sa   |-> <<D("xa", 0, 0), D("body", 1, 0)>>,
    body |-> <<D("na", 0, 0)>>,
    ni   |-> <<D("mi", 0, 1)>>,
    na   |-> <<D("ma", 0, 1)>>,
    xa   |-> <<D("out", 0, 0)>>,
    out  |-> <<>>]
WhileNode == DOMAIN WhileOut
WhileKind == [n \in WhileNode |->
    CASE n \in {"ei", "ea"} -> "enter" [] n = "ec" -> "const_enter"
      [] n \in {"mi", "ma"} -> "merge" [] n \in {"si", "sa"} -> "switch"
      [] n \in {"ni", "na"} -> "next"  [] n = "xa" -> "exit"
      [] OTHER -> "op"]
WhileFrameName == [n \in WhileNode |->
    IF n \in {"src", "ei", "ea", "ec", "out"} THEN "" ELSE "w"]
WhileEnters == [n \in {"ei", "ea", "ec"} |-> "w"]

(***************************************************************************)
(* A conditional with a loop in one branch, and a node controlled by it:   *)
(*     y = (x > 0) ? (while x > 0: x = x - 1) : f(x)                       *)
(* The merge of the branches has a control input, a ControlTrigger fires   *)
(* after f, be it dead or not, and g consumes the result of the loop.      *)
(***************************************************************************)
CondOut == [
    csrc |-> <<D("sw", 0, 0), D("sw", 0, 1), C("ctl")>>,
    ctl  |-> <<C("mg")>>,
    sw   |-> <<D("f", 0, 0), D("e", 1, 0)>>,
    f    |-> <<D("mg", 0, 0), C("trig")>>,
    e    |-> <<D("m", 0, 0)>>,
    m    |-> <<D("s", 0, 0), D("s", 0, 1)>>,
    s    |-> <<D("x", 0, 0), D("n", 1, 0)>>,
    n    |-> <<D("m", 0, 1)>>,
    x    |-> <<D("mg", 0, 1), D("g", 0, 0)>>,
    g    |-> <<>>,
    mg   |-> <<D("cout", 0, 0)>>,
    trig |-> <<C("cout")>>,
    cout |-> <<>>]
CondNode == DOMAIN CondOut
CondKind == [n \in CondNode |->
    CASE n = "e" -> "enter" [] n \in {"m", "mg"} -> "merge"
      [] n \in {"s", "sw"} -> "switch" [] n = "n" -> "next" [] n = "x" -> "exit"
      [] n = "trig" -> "trigger" [] OTHER -> "op"]
CondFrameName == [n \in CondNode |-> IF n \in {"m", "s", "n", "x"} THEN "v" ELSE ""]
CondEnters == [n \in {"e"} |-> "v"]

(***************************************************************************)
(* A loop in a loop, with an invariant of the outer one:                   *)
(*     while cond(a): (while cond(a): a = a + c)                           *)
(***************************************************************************)
NestOut == [
    nsrc |-> <<D("eo", 0, 0), D("ce", 0, 0)>>,
    eo   |-> <<D("mo", 0, 0)>>,
    ce   |-> <<D("b", 0, 1)>>,
    mo   |-> <<D("so", 0, 0), D("so", 0, 1)>>,
    so   |-> <<D("xo", 0, 0), D("b", 1, 0)>>,
    b    |-> <<D("ie", 0, 0)>>,
    ie   |-> <<D("im", 0, 0)>>,
    im   |-> <<D("is", 0, 0), D("is", 0, 1)>>,
    is   |-> <<D("ix", 0, 0), D("in_", 1, 0)>>,
    in_  |-> <<D("im", 0, 1)>>,
    ix   |-> <<D("no", 0, 0)>>,
    no   |-> <<D("mo", 0, 1)>>,
    xo   |-> <<D("nout", 0, 0)>>,
    nout |-> <<>>]
NestNode == DOMAIN NestOut
NestKind == [n \in NestNode |->
    CASE n \in {"eo", "ie"} -> "enter" [] n = "ce" -> "const_enter"
      [] n \in {"mo", "im"} -> "merge" [] n \in {"so", "is"} -> "switch"
      [] n \in {"no", "in_"} -> "next"  [] n \in {"xo", "ix"} -> "exit"
      [] OTHER -> "op"]
NestFrameName == [n \in NestNode |->
    CASE n \in {"mo", "so", "b", "ie", "no", "xo"} -> "o"
      [] n \in {"im", "is", "in_", "ix"} -> "i"
      [] OTHER -> ""]
NestEnters == [n \in {"eo", "ce", "ie"} |-> IF n = "ie" THEN "i" ELSE "o"]

(***************************************************************************)
(* The three graphs; the loops of the first two run two iterations at a    *)
(* time.                                                                   *)
(***************************************************************************)
AllOut  == WhileOut @@ CondOut @@ NestOut
AllNode == DOMAIN AllOut
AllKind == WhileKind @@ CondKind @@ NestKind
AllFrameName == WhileFrameName @@ CondFrameName @@ NestFrameName
AllEnters    == WhileEnters @@ CondEnters @@ NestEnters
AllGraphOf   == [n \in AllNode |-> IF n \in WhileNode THEN "while"
                                   ELSE IF n \in CondNode THEN "cond" ELSE "nest"]
AllParallel  == [f \in {"", "w", "v", "o", "i"} |-> IF f \in {"w", "v"} THEN 2 ELSE 1]
AllMaxTrip   == [g \in {"while", "cond", "nest"} |-> IF g = "while" THEN 2 ELSE 1]
=============================================================================
