------------------------- MODULE SubsequenceProofs --------------------------
(***************************************************************************)
(* What Keep returns, for every sequence.  Induction over the length is    *)
(* the choice of a least counterexample: the set of counterexamples is a   *)
(* set of naturals, and WFMin gives it a minimal element.                  *)
(***************************************************************************)
EXTENDS Subsequences, WellFoundedInduction, SequenceTheorems, TLAPS

\* A set of naturals that is not empty has a least element.
LEMMA Least ==
  ASSUME NEW T \in SUBSET Nat, T # {}
  PROVE  \E x \in T : \A y \in T : x <= y
  <1> DEFINE R == {p \in Nat \X Nat : p[1] < p[2]}
  <1>1. IsWellFoundedOn(R, Nat)
    BY NatLessThanWellFounded DEF OpToRel
  <1>2. \A x, y \in T : ~(<<y, x>> \in R) => x <= y
    OBVIOUS
  <1> HIDE DEF R
  <1>3. \E x \in T : \A y \in T : ~(<<y, x>> \in R)
    BY <1>1, WFMin
  <1> QED
    BY <1>2, <1>3

\* Induction: a set that holds 0 and with n also n + 1 holds every natural.
LEMMA Induction ==
  ASSUME NEW T, 0 \in T, \A n \in Nat : n \in T => n + 1 \in T
  PROVE  Nat \subseteq T
  <1> SUFFICES ASSUME Nat \ T # {} PROVE FALSE
    OBVIOUS
  <1>1. PICK x \in Nat \ T : \A y \in Nat \ T : x <= y
    BY Least
  <1>2. x # 0
    OBVIOUS
  <1>3. x - 1 \in Nat /\ ~(x <= x - 1) /\ x = (x - 1) + 1
    BY <1>2
  <1>4. x - 1 \in T
    BY <1>1, <1>3
  <1> QED
    BY <1>3, <1>4

\* One step of Keep's recursion.
Next1(f, s, S, i) ==
    IF i = 0 THEN <<>>
    ELSE IF s[i] \in S THEN Append(f[i - 1], s[i]) ELSE f[i - 1]

\* f is the table of the first n steps.
Table(f, s, S, n) == f = [i \in 0..n |-> Next1(f, s, S, i)]

\* There is a table of every length.
LEMMA TableExists ==
  ASSUME NEW s, NEW S, NEW n \in Nat
  PROVE  \E f : Table(f, s, S, n)
  <1> DEFINE T == {m \in Nat : \E f : Table(f, s, S, m)}
  <1>1. 0 \in T
    <2>1. Table([i \in 0..0 |-> <<>>], s, S, 0)
      BY DEF Table, Next1
    <2> QED
      BY <2>1
  <1>2. ASSUME NEW m \in Nat, m \in T PROVE m + 1 \in T
    <2>1. PICK f : Table(f, s, S, m)
      BY <1>2
    <2> DEFINE g == [i \in 0..(m + 1) |-> IF i = m + 1 THEN Next1(f, s, S, m + 1) ELSE f[i]]
    <2>2. \A i \in 0..(m + 1) : i # 0 => i - 1 \in 0..m /\ i - 1 # m + 1 /\ i - 1 \in 0..(m + 1)
      OBVIOUS
    <2>3. \A i \in 0..m : g[i] = f[i]
      OBVIOUS
    <2>4. \A i \in 0..(m + 1) : Next1(g, s, S, i) = Next1(f, s, S, i)
      BY <2>2, <2>3 DEF Next1
    <2>5. \A i \in 0..m : f[i] = Next1(f, s, S, i)
      BY <2>1 DEF Table
    <2>6. \A i \in 0..(m + 1) : i = m + 1 \/ i \in 0..m
      OBVIOUS
    <2>7. \A i \in 0..(m + 1) : g[i] = Next1(g, s, S, i)
      BY <2>3, <2>4, <2>5, <2>6
    <2>8. g = [i \in 0..(m + 1) |-> g[i]]
      OBVIOUS
    <2> HIDE DEF g
    <2>9. g = [i \in 0..(m + 1) |-> Next1(g, s, S, i)]
      BY <2>7, <2>8
    <2> QED
      BY <2>9 DEF Table
  <1> HIDE DEF T
  <1>3. Nat \subseteq T
    BY <1>1, <1>2, Induction
  <1> QED
    BY <1>3 DEF T

\* Two tables agree where both are defined, if the sequences do.
LEMMA TablesAgree ==
  ASSUME NEW s, NEW t, NEW S, NEW m \in Nat,
         \A i \in 1..m : s[i] = t[i],
         NEW f, NEW g, Table(f, s, S, m), Table(g, t, S, m + 1)
  PROVE  \A i \in 0..m : f[i] = g[i]
  <1> DEFINE T == {i \in Nat : i <= m => f[i] = g[i]}
  <1>0. /\ \A i \in 0..m : f[i] = Next1(f, s, S, i)
        /\ \A i \in 0..(m + 1) : g[i] = Next1(g, t, S, i)
    BY DEF Table
  <1>1. 0 \in T
    BY <1>0 DEF Next1
  <1>2. ASSUME NEW i \in Nat, i \in T PROVE i + 1 \in T
    <2> SUFFICES ASSUME i + 1 <= m PROVE f[i + 1] = g[i + 1]
      OBVIOUS
    <2>1. i + 1 \in 0..m /\ i + 1 \in 0..(m + 1) /\ i + 1 \in 1..m /\ i + 1 # 0 /\ (i + 1) - 1 = i /\ i <= m
      OBVIOUS
    <2>2. f[i] = g[i] /\ s[i + 1] = t[i + 1]
      BY <1>2, <2>1
    <2>3. Next1(f, s, S, i + 1) = Next1(g, t, S, i + 1)
      BY <2>1, <2>2 DEF Next1
    <2> QED
      BY <2>1, <2>3, <1>0
  <1> HIDE DEF T
  <1>3. Nat \subseteq T
    BY <1>1, <1>2, Induction
  <1>4. \A i \in 0..m : i \in Nat /\ i <= m
    OBVIOUS
  <1> QED
    BY <1>3, <1>4 DEF T

\* Keep reads the last entry of such a table.
LEMMA KeepTable ==
  ASSUME NEW s, NEW S, Len(s) \in Nat
  PROVE  \E f : Table(f, s, S, Len(s)) /\ Keep(s, S) = f[Len(s)]
  <1> DEFINE f == CHOOSE k : k = [i \in 0..Len(s) |->
                     IF i = 0 THEN <<>>
                     ELSE IF s[i] \in S THEN Append(k[i - 1], s[i]) ELSE k[i - 1]]
  <1>1. Keep(s, S) = f[Len(s)]
    BY DEF Keep
  <1>2. \E k : k = [i \in 0..Len(s) |->
                     IF i = 0 THEN <<>>
                     ELSE IF s[i] \in S THEN Append(k[i - 1], s[i]) ELSE k[i - 1]]
    <2>1. PICK k : Table(k, s, S, Len(s))
      BY TableExists
    <2> QED
      BY <2>1, Zenon DEF Table, Next1
  <1>3. f = [i \in 0..Len(s) |->
                     IF i = 0 THEN <<>>
                     ELSE IF s[i] \in S THEN Append(f[i - 1], s[i]) ELSE f[i - 1]]
    BY <1>2, Zenon
  <1> HIDE DEF f
  <1>4. Table(f, s, S, Len(s))
    BY <1>3, Zenon DEF Table, Next1
  <1> QED
    BY <1>1, <1>4

\* Nothing is kept of the empty sequence.
LEMMA KeepEmpty == \A S : Keep(<<>>, S) = <<>>
  <1> SUFFICES ASSUME NEW S PROVE Keep(<<>>, S) = <<>>
    OBVIOUS
  <1>1. Len(<<>>) = 0 /\ Len(<<>>) \in Nat
    OBVIOUS
  <1>2. PICK f : Table(f, <<>>, S, Len(<<>>)) /\ Keep(<<>>, S) = f[Len(<<>>)]
    BY <1>1, KeepTable
  <1>3. 0 \in 0..0
    OBVIOUS
  <1> QED
    BY <1>1, <1>2, <1>3 DEF Table, Next1

\* What the last element adds.
LEMMA KeepAppend ==
  ASSUME NEW R, NEW s \in Seq(R), NEW x \in R, NEW S
  PROVE  Keep(Append(s, x), S) = IF x \in S THEN Append(Keep(s, S), x) ELSE Keep(s, S)
  <1> DEFINE t == Append(s, x)
             n == Len(s)
  <1>1. /\ t \in Seq(R) /\ Len(t) = n + 1 /\ n \in Nat /\ n + 1 \in Nat
        /\ t[n + 1] = x /\ \A i \in 1..n : s[i] = t[i]
    OBVIOUS
  <1> HIDE DEF t, n
  <1>2. PICK f : Table(f, s, S, n) /\ Keep(s, S) = f[n]
    BY <1>1, KeepTable DEF n
  <1>3. PICK g : Table(g, t, S, n + 1) /\ Keep(t, S) = g[n + 1]
    BY <1>1, KeepTable
  <1>4. \A i \in 0..n : f[i] = g[i]
    <2>1. Table(f, s, S, n) /\ Table(g, t, S, n + 1)
      BY <1>2, <1>3
    <2>2. n \in Nat /\ \A i \in 1..n : s[i] = t[i]
      BY <1>1
    <2> QED
      BY <2>1, <2>2, TablesAgree
  <1>5. n \in 0..n /\ n + 1 \in 0..(n + 1) /\ n + 1 # 0 /\ (n + 1) - 1 = n
    BY <1>1
  <1>6. g[n + 1] = Next1(g, t, S, n + 1)
    BY <1>3, <1>5 DEF Table
  <1> QED
    BY <1>1, <1>2, <1>3, <1>4, <1>5, <1>6 DEF Next1, t

\* Induction over sequences: a set that holds the empty sequence, and with s
\* also every extension of s by one element.
LEMMA SequenceInduction ==
  ASSUME NEW R, NEW T, <<>> \in T,
         \A s \in Seq(R), x \in R : s \in T => Append(s, x) \in T
  PROVE  Seq(R) \subseteq T
  <1> DEFINE N == {n \in Nat : \A s \in Seq(R) : Len(s) = n => s \in T}
  <1>1. 0 \in N
    <2>1. \A s \in Seq(R) : Len(s) = 0 => s = <<>>
      OBVIOUS
    <2> QED
      BY <2>1
  <1>2. ASSUME NEW n \in Nat, n \in N PROVE n + 1 \in N
    <2> SUFFICES ASSUME NEW s \in Seq(R), Len(s) = n + 1 PROVE s \in T
      OBVIOUS
    <2>1. s # <<>>
      OBVIOUS
    <2>2. \E t \in Seq(R), x \in R : s = Append(t, x)
      BY <2>1, SequenceEmptyOrAppend
    <2>3. PICK t \in Seq(R), x \in R : s = Append(t, x)
      BY <2>2
    <2>4. Len(s) = Len(t) + 1 /\ Len(t) \in Nat
      BY <2>3
    <2>5. Len(t) = n
      BY <2>4
    <2> QED
      BY <1>2, <2>3, <2>5
  <1> HIDE DEF N
  <1>3. Nat \subseteq N
    BY <1>1, <1>2, Induction
  <1>4. \A s \in Seq(R) : Len(s) \in Nat
    OBVIOUS
  <1> QED
    BY <1>3, <1>4 DEF N

\* Keep returns a sequence of elements of s that are in S.
LEMMA KeepType ==
  ASSUME NEW R, NEW S
  PROVE  \A s \in Seq(R) : Keep(s, S) \in Seq(R) /\ Keep(s, S) \in Seq(S)
  <1> DEFINE T == {s \in Seq(R) : Keep(s, S) \in Seq(R) /\ Keep(s, S) \in Seq(S)}
  <1>1. <<>> \in T
    <2>1. Keep(<<>>, S) = <<>> /\ <<>> \in Seq(R) /\ <<>> \in Seq(S)
      BY KeepEmpty
    <2> QED
      BY <2>1
  <1>2. ASSUME NEW s \in Seq(R), NEW x \in R, s \in T PROVE Append(s, x) \in T
    <2>1. Keep(s, S) \in Seq(R) /\ Keep(s, S) \in Seq(S)
      BY <1>2
    <2>2. Append(s, x) \in Seq(R)
      OBVIOUS
    <2>3. x \in S => Append(Keep(s, S), x) \in Seq(R) /\ Append(Keep(s, S), x) \in Seq(S)
      BY <2>1
    <2>4. Keep(Append(s, x), S) = IF x \in S THEN Append(Keep(s, S), x) ELSE Keep(s, S)
      BY KeepAppend
    <2> QED
      BY <2>1, <2>2, <2>3, <2>4
  <1> HIDE DEF T
  <1>3. Seq(R) \subseteq T
    BY <1>1, <1>2, SequenceInduction
  <1> QED
    BY <1>3 DEF T

\* Keep distributes over concatenation.
LEMMA KeepConcat ==
  ASSUME NEW R, NEW S, NEW s \in Seq(R)
  PROVE  \A t \in Seq(R) : Keep(s \o t, S) = Keep(s, S) \o Keep(t, S)
  <1> DEFINE T == {t \in Seq(R) : Keep(s \o t, S) = Keep(s, S) \o Keep(t, S)}
  <1>0. Keep(s, S) \in Seq(R)
    BY KeepType
  <1>1. <<>> \in T
    <2>1. s \o <<>> = s /\ Keep(s, S) \o <<>> = Keep(s, S)
      BY <1>0, ConcatEmptySeq
    <2>2. Keep(<<>>, S) = <<>> /\ <<>> \in Seq(R)
      BY KeepEmpty
    <2>3. Keep(s \o <<>>, S) = Keep(s, S) \o Keep(<<>>, S)
      BY <2>1, <2>2, Zenon
    <2> QED
      BY <2>2, <2>3
  <1>2. ASSUME NEW t \in Seq(R), NEW x \in R, t \in T PROVE Append(t, x) \in T
    <2>1. s \o Append(t, x) = Append(s \o t, x) /\ s \o t \in Seq(R)
      OBVIOUS
    <2>2. Keep(t, S) \in Seq(R)
      BY KeepType
    <2>3. Keep(s, S) \o Append(Keep(t, S), x) = Append(Keep(s, S) \o Keep(t, S), x)
      BY <1>0, <2>2
    <2>4. Keep(Append(t, x), S) = IF x \in S THEN Append(Keep(t, S), x) ELSE Keep(t, S)
      BY KeepAppend
    <2>5. Keep(Append(s \o t, x), S) = IF x \in S THEN Append(Keep(s \o t, S), x) ELSE Keep(s \o t, S)
      BY <2>1, KeepAppend
    <2>6. Keep(s \o t, S) = Keep(s, S) \o Keep(t, S)
      BY <1>2
    <2>7. Keep(s \o Append(t, x), S) = Keep(s, S) \o Keep(Append(t, x), S)
      BY <2>1, <2>3, <2>4, <2>5, <2>6, Zenon
    <2> QED
      BY <2>7
  <1> HIDE DEF T
  <1>3. Seq(R) \subseteq T
    BY <1>1, <1>2, SequenceInduction
  <1> QED
    BY <1>3 DEF T

\* Keeping elements twice keeps those that both sets hold.
LEMMA KeepTwice ==
  ASSUME NEW R, NEW S, NEW U
  PROVE  \A s \in Seq(R) : Keep(Keep(s, S), U) = Keep(s, S \cap U)
  <1> DEFINE T == {s \in Seq(R) : Keep(Keep(s, S), U) = Keep(s, S \cap U)}
  <1>1. <<>> \in T
    <2>1. /\ Keep(<<>>, S) = <<>> /\ Keep(<<>>, U) = <<>> /\ Keep(<<>>, S \cap U) = <<>>
          /\ <<>> \in Seq(R)
      BY KeepEmpty
    <2> QED
      BY <2>1
  <1>2. ASSUME NEW s \in Seq(R), NEW x \in R, s \in T PROVE Append(s, x) \in T
    <2>1. Append(s, x) \in Seq(R)
      OBVIOUS
    <2>2. Keep(s, S) \in Seq(R)
      BY KeepType
    <2>3. Keep(Append(s, x), S) = IF x \in S THEN Append(Keep(s, S), x) ELSE Keep(s, S)
      BY KeepAppend
    <2>4. Keep(Append(s, x), S \cap U) = IF x \in S \cap U THEN Append(Keep(s, S \cap U), x)
                                                           ELSE Keep(s, S \cap U)
      BY KeepAppend
    <2>5. Keep(Append(Keep(s, S), x), U) = IF x \in U THEN Append(Keep(Keep(s, S), U), x)
                                                      ELSE Keep(Keep(s, S), U)
      BY <2>2, KeepAppend
    <2>6. Keep(Keep(s, S), U) = Keep(s, S \cap U)
      BY <1>2
    <2>7. Keep(Keep(Append(s, x), S), U) = Keep(Append(s, x), S \cap U)
      <3>1. CASE x \notin S
        BY <3>1, <2>3, <2>4, <2>6
      <3>2. CASE x \in S /\ x \notin U
        BY <3>2, <2>3, <2>4, <2>5, <2>6
      <3>3. CASE x \in S /\ x \in U
        <4>1. Keep(Append(s, x), S) = Append(Keep(s, S), x)
          BY <3>3, <2>3
        <4>2. Keep(Append(Keep(s, S), x), U) = Append(Keep(Keep(s, S), U), x)
          BY <3>3, <2>5
        <4>3. Keep(Append(s, x), S \cap U) = Append(Keep(s, S \cap U), x)
          BY <3>3, <2>4
        <4> QED
          BY <4>1, <4>2, <4>3, <2>6, Zenon
      <3> QED
        BY <3>1, <3>2, <3>3
    <2> QED
      BY <2>1, <2>7
  <1> HIDE DEF T
  <1>3. Seq(R) \subseteq T
    BY <1>1, <1>2, SequenceInduction
  <1> QED
    BY <1>3 DEF T

\* The elements of Keep(s, S) are the elements of s that are in S.
LEMMA KeepElements ==
  ASSUME NEW R, NEW S
  PROVE  \A s \in Seq(R) : \A x :
           (\E i \in 1..Len(Keep(s, S)) : Keep(s, S)[i] = x)
             <=> x \in S /\ \E j \in 1..Len(s) : s[j] = x
  <1> DEFINE In(s, x) == \E j \in 1..Len(s) : s[j] = x
             T == {s \in Seq(R) : \A x : In(Keep(s, S), x) <=> x \in S /\ In(s, x)}
  <1>1. <<>> \in T
    <2>1. Keep(<<>>, S) = <<>> /\ <<>> \in Seq(R)
      BY KeepEmpty
    <2>2. \A x : ~In(<<>>, x)
      OBVIOUS
    <2> QED
      BY <2>1, <2>2
  <1>2. ASSUME NEW s \in Seq(R), NEW x \in R, s \in T PROVE Append(s, x) \in T
    <2>1. Append(s, x) \in Seq(R)
      OBVIOUS
    <2>2. Keep(s, S) \in Seq(R)
      BY KeepType
    <2>3. ASSUME NEW t \in Seq(R), NEW y PROVE In(Append(t, x), y) <=> In(t, y) \/ y = x
      <3>1. In(Append(t, x), x)
        OBVIOUS
      <3>2. In(t, y) => In(Append(t, x), y)
        OBVIOUS
      <3>3. In(Append(t, x), y) => In(t, y) \/ y = x
        OBVIOUS
      <3> QED
        BY <3>1, <3>2, <3>3
    <2>4. Keep(Append(s, x), S) = IF x \in S THEN Append(Keep(s, S), x) ELSE Keep(s, S)
      BY KeepAppend
    <2>5. \A y : In(Keep(s, S), y) <=> y \in S /\ In(s, y)
      BY <1>2
    <2> HIDE DEF In
    <2>6. ASSUME NEW y PROVE In(Keep(Append(s, x), S), y) <=> y \in S /\ In(Append(s, x), y)
      <3>1. In(Append(s, x), y) <=> In(s, y) \/ y = x
        BY <2>3
      <3>2. In(Append(Keep(s, S), x), y) <=> In(Keep(s, S), y) \/ y = x
        BY <2>2, <2>3
      <3>3. In(Keep(s, S), y) <=> y \in S /\ In(s, y)
        BY <2>5
      <3>4. CASE x \in S
        BY <3>1, <3>2, <3>3, <3>4, <2>4
      <3>5. CASE x \notin S
        BY <3>1, <3>3, <3>5, <2>4
      <3> QED
        BY <3>4, <3>5
    <2> QED
      BY <2>1, <2>6
  <1> HIDE DEF T
  <1>3. Seq(R) \subseteq T
    BY <1>1, <1>2, SequenceInduction
  <1> QED
    BY <1>3 DEF T

\* No element occurs twice.
Distinct(s) == \A i, j \in 1..Len(s) : s[i] = s[j] => i = j

\* Keep leaves distinct elements distinct.
LEMMA KeepDistinct ==
  ASSUME NEW R, NEW S
  PROVE  \A s \in Seq(R) : Distinct(s) => Distinct(Keep(s, S))
  <1> DEFINE T == {s \in Seq(R) : Distinct(s) => Distinct(Keep(s, S))}
  <1>1. <<>> \in T
    <2>1. Keep(<<>>, S) = <<>> /\ <<>> \in Seq(R)
      BY KeepEmpty
    <2> QED
      BY <2>1
  <1>2. ASSUME NEW s \in Seq(R), NEW x \in R, s \in T PROVE Append(s, x) \in T
    <2>1. Append(s, x) \in Seq(R)
      OBVIOUS
    <2> SUFFICES ASSUME Distinct(Append(s, x)) PROVE Distinct(Keep(Append(s, x), S))
      BY <2>1
    <2>2. Keep(s, S) \in Seq(R)
      BY KeepType
    <2>3. Distinct(s) /\ \A j \in 1..Len(s) : s[j] # x
      <3>1. \A j \in 1..Len(s) : /\ Append(s, x)[j] = s[j] /\ j \in 1..Len(Append(s, x))
                                 /\ j # Len(s) + 1
        OBVIOUS
      <3>2. Append(s, x)[Len(s) + 1] = x /\ Len(s) + 1 \in 1..Len(Append(s, x))
        OBVIOUS
      <3> QED
        BY <3>1, <3>2, Zenon DEF Distinct
    <2>4. Distinct(Keep(s, S))
      BY <1>2, <2>3
    <2>5. \A i \in 1..Len(Keep(s, S)) : Keep(s, S)[i] # x
      BY <2>3, KeepElements
    <2>6. Keep(Append(s, x), S) = IF x \in S THEN Append(Keep(s, S), x) ELSE Keep(s, S)
      BY KeepAppend
    <2> DEFINE k == Keep(s, S)
    <2> HIDE DEF k
    <2>7. Distinct(Append(k, x))
      <3>1. /\ k \in Seq(R)
            /\ \A i, j \in 1..Len(k) : k[i] = k[j] => i = j
            /\ \A i \in 1..Len(k) : k[i] # x
        BY <2>2, <2>4, <2>5 DEF k, Distinct
      <3>2. /\ Len(Append(k, x)) = Len(k) + 1 /\ Len(k) \in Nat
            /\ Append(k, x)[Len(k) + 1] = x
            /\ \A i \in 1..Len(k) : Append(k, x)[i] = k[i]
        BY <3>1
      <3>3. \A i \in 1..Len(Append(k, x)) : i \in 1..Len(k) \/ i = Len(k) + 1
        BY <3>2
      <3> QED
        BY <3>1, <3>2, <3>3, Zenon DEF Distinct
    <2> QED
      BY <2>4, <2>6, <2>7 DEF k
  <1> HIDE DEF T
  <1>3. Seq(R) \subseteq T
    BY <1>1, <1>2, SequenceInduction
  <1> QED
    BY <1>3 DEF T

\* Everything is kept if S holds everything there is.
LEMMA KeepAll ==
  ASSUME NEW R, NEW S
  PROVE  \A s \in Seq(R) : s \in Seq(S) => Keep(s, S) = s
  <1> DEFINE T == {s \in Seq(R) : s \in Seq(S) => Keep(s, S) = s}
  <1>1. <<>> \in T
    <2>1. Keep(<<>>, S) = <<>> /\ <<>> \in Seq(R)
      BY KeepEmpty
    <2> QED
      BY <2>1
  <1>2. ASSUME NEW s \in Seq(R), NEW x \in R, s \in T PROVE Append(s, x) \in T
    <2>1. Append(s, x) \in Seq(R)
      OBVIOUS
    <2> SUFFICES ASSUME Append(s, x) \in Seq(S) PROVE Keep(Append(s, x), S) = Append(s, x)
      BY <2>1
    <2>2. x \in S /\ s \in Seq(S)
      <3>1. Append(s, x)[Len(s) + 1] = x /\ Len(s) + 1 \in 1..Len(Append(s, x))
        OBVIOUS
      <3>2. \A j \in 1..Len(s) : Append(s, x)[j] = s[j] /\ j \in 1..Len(Append(s, x))
        OBVIOUS
      <3>3. \A j \in 1..Len(Append(s, x)) : Append(s, x)[j] \in S
        BY ElementOfSeq
      <3>4. x \in S /\ \A j \in 1..Len(s) : s[j] \in S
        BY <3>1, <3>2, <3>3
      <3>5. Len(s) \in Nat /\ s = [j \in 1..Len(s) |-> s[j]]
        OBVIOUS
      <3> QED
        BY <3>4, <3>5
    <2>3. Keep(s, S) = s
      BY <1>2, <2>2
    <2> QED
      BY <2>2, <2>3, KeepAppend
  <1> HIDE DEF T
  <1>3. Seq(R) \subseteq T
    BY <1>1, <1>2, SequenceInduction
  <1> QED
    BY <1>3 DEF T

\* Nothing is kept if S holds none of the elements.
LEMMA KeepNone ==
  ASSUME NEW R, NEW S, NEW s \in Seq(R), \A i \in 1..Len(s) : s[i] \notin S
  PROVE  Keep(s, S) = <<>>
  <1>1. Keep(s, S) \in Seq(R) /\ Keep(s, S) \in Seq(S)
    BY KeepType
  <1>2. \A i \in 1..Len(Keep(s, S)) : FALSE
    BY <1>1, KeepElements
  <1> QED
    BY <1>1, <1>2

=============================================================================
