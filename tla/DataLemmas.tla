----------------------------- MODULE DataLemmas -----------------------------
(***************************************************************************)
(* Induction and recursion over the natural numbers, for sets and          *)
(* functions in place of predicates and operators: facts about all n are   *)
(* the membership of all n in the set of those they hold for, and a step   *)
(* of a recursive definition is a function of its own.  With them, what a  *)
(* sequence is when it is built element by element.                        *)
(***************************************************************************)
EXTENDS SequencesExt, SequenceTheorems, WellFoundedInduction, TLAPS

\* Every set of naturals has a least element.
LEMMA LeastNat ==
  ASSUME NEW S \in SUBSET Nat, S # {}
  PROVE  \E m \in S : \A n \in S : m <= n
<1> DEFINE R == {p \in Nat \X Nat : p[1] < p[2]}
<1>1. IsWellFoundedOn(R, Nat)
  BY NatLessThanWellFounded, Zenon DEF OpToRel
<1>2. \E m \in S : \A n \in S : ~ (<<n, m>> \in R)
  <2> HIDE DEF R
  <2>1. QED
    BY <1>1, WFMin
<1>3. ASSUME NEW m \in S, NEW n \in S, ~ (<<n, m>> \in R) PROVE m <= n
  BY <1>3
<1> HIDE DEF R
<1>4. QED
  BY <1>2, <1>3

\* Induction.
LEMMA Induction ==
  ASSUME NEW S, 0 \in S, \A n \in Nat : n \in S => n + 1 \in S
  PROVE  Nat \subseteq S
<1> SUFFICES ASSUME Nat \ S # {} PROVE FALSE
  OBVIOUS
<1>1. PICK m \in Nat \ S : \A n \in Nat \ S : m <= n
  BY LeastNat
<1>2. m # 0 /\ m - 1 \in Nat /\ m - 1 \in S
  BY <1>1
<1>3. QED
  BY <1>1, <1>2

\* The least element of a set of naturals, and the one that every other is above.
LEMMA MinIsLeast ==
  ASSUME NEW S \in SUBSET Nat, S # {}
  PROVE  Min(S) \in S /\ \A n \in S : Min(S) <= n
BY LeastNat DEF Min

\* A least element is the minimum.
LEMMA MinUnique ==
  ASSUME NEW S \in SUBSET Nat, NEW m \in S, \A n \in S : m <= n
  PROVE  Min(S) = m
<1>1. Min(S) \in S /\ \A n \in S : Min(S) <= n
  BY MinIsLeast
<1>2. Min(S) \in Nat /\ m \in Nat /\ Min(S) <= m /\ m <= Min(S)
  BY <1>1
<1> HIDE DEF Min
<1>3. QED
  BY <1>2

\* A bounded set of naturals has a greatest element.
LEMMA MaxIsGreatest ==
  ASSUME NEW S \in SUBSET Nat, S # {}, NEW b \in Nat, \A n \in S : n <= b
  PROVE  Max(S) \in S /\ \A n \in S : Max(S) >= n
<1> DEFINE T == {k \in Nat : \A n \in S : n <= k}
<1>1. PICK m \in T : \A k \in T : m <= k
  <2>1. T \in SUBSET Nat /\ b \in T
    OBVIOUS
  <2> HIDE DEF T
  <2>2. QED
    BY <2>1, LeastNat
<1>2. m \in S
  <2> SUFFICES ASSUME m \notin S PROVE FALSE
    OBVIOUS
  <2>1. \A n \in S : n < m
    BY <1>1
  <2>2. m \in Nat /\ \A n \in S : n \in Nat /\ n <= m - 1
    BY <1>1, <2>1
  <2>3. m - 1 \in T
    <3>1. PICK n \in S : TRUE
      OBVIOUS
    <3>2. n \in Nat /\ n <= m - 1
      BY <2>2
    <3>3. m - 1 \in Nat
      BY <2>2, <3>2
    <3>4. QED
      BY <2>2, <3>3
  <2>4. QED
    BY <1>1, <2>2, <2>3
<1>3. \A n \in S : m >= n
  BY <1>1
<1>4. QED
  BY <1>2, <1>3 DEF Max

-----------------------------------------------------------------------------
\* f is a on m, and d[i] takes its value at i - 1 to its value at i, up to n.
Recurs(f, a, d, m, n) == f[m] = a /\ \A i \in m..n : i # m => f[i] = d[i][f[i - 1]]

\* There is such a function for every first value and every step.
LEMMA Recursion ==
  ASSUME NEW A, NEW a \in A, NEW m \in Nat, NEW n \in Nat, m <= n,
         NEW d \in [m..n -> [A -> A]]
  PROVE  \E f \in [m..n -> A] : Recurs(f, a, d, m, n)
<1> DEFINE Up(f, k) == f[m] = a /\ \A i \in m..k : i # m => f[i] = d[i][f[i - 1]]
           S == {j \in Nat : m + j <= n => \E f \in [m..(m + j) -> A] : Up(f, m + j)}
<1>1. 0 \in S
  <2>1. [i \in m..m |-> a] \in [m..(m + 0) -> A] /\ Up([i \in m..m |-> a], m + 0)
    OBVIOUS
  <2>2. QED
    BY <2>1
<1>2. ASSUME NEW j \in Nat, j \in S PROVE j + 1 \in S
  <2> SUFFICES ASSUME m + (j + 1) <= n
               PROVE  \E f \in [m..(m + (j + 1)) -> A] : Up(f, m + (j + 1))
    OBVIOUS
  <2>1. PICK k \in Nat : k = m + j
    OBVIOUS
  <2>2. PICK f \in [m..k -> A] : Up(f, k)
    BY <1>2, <2>1
  <2>3. /\ k + 1 \in m..n /\ k + 1 # m /\ k \in m..k /\ m + (j + 1) = k + 1
        /\ f[k] \in A /\ d[k + 1][f[k]] \in A
    BY <2>1
  <2> DEFINE g == [i \in m..(k + 1) |-> IF i = k + 1 THEN d[k + 1][f[k]] ELSE f[i]]
  <2>4. g \in [m..(k + 1) -> A]
    BY <2>3
  <2>5. g[m] = a /\ \A i \in m..(k + 1) : i # m => g[i] = d[i][g[i - 1]]
    <3>1. m \in m..k /\ m # k + 1 /\ f[m] = a
      BY <2>1, <2>2
    <3>2. \A i \in m..k : i # m => /\ i \in m..(k + 1) /\ i - 1 \in m..(k + 1)
                                   /\ i # k + 1 /\ i - 1 # k + 1
      BY <2>1
    <3>3. k + 1 \in m..(k + 1) /\ k \in m..(k + 1) /\ k # k + 1 /\ (k + 1) - 1 = k
      BY <2>1
    <3>4. \A i \in m..k : i # m => g[i] = d[i][g[i - 1]]
      BY <2>2, <3>2
    <3>5. g[k + 1] = d[k + 1][g[k]]
      BY <3>3
    <3>6. \A i \in m..(k + 1) : i \in m..k \/ i = k + 1
      BY <2>1
    <3>7. g[m] = a
      BY <2>1, <3>1
    <3> HIDE DEF g
    <3>8. QED
      BY <3>3, <3>4, <3>5, <3>6, <3>7
  <2>6. QED
    BY <2>3, <2>4, <2>5
<1>3. n - m \in Nat /\ m + (n - m) = n
  OBVIOUS
<1>4. n - m \in S
  <2> HIDE DEF S
  <2>1. QED
    BY <1>1, <1>2, <1>3, Induction
<1>5. QED
  BY <1>3, <1>4 DEF Recurs

\* What is in a sequence after Append.
LEMMA AppendRange ==
  ASSUME NEW T, NEW s \in Seq(T), NEW e \in T
  PROVE  Append(s, e) \in Seq(T) /\ Range(Append(s, e)) = Range(s) \cup {e}
<1>1. PICK t : t = <<e>>
  OBVIOUS
<1>2. Append(s, e) = s \o t /\ t \in Seq(T)
  BY <1>1, AppendIsConcat
<1>3. Range(t) = {e}
  BY <1>1 DEF Range
<1>4. Range(s \o t) = Range(s) \cup Range(t)
  BY <1>2, RangeConcatenation
<1>5. Append(s, e) \in Seq(T)
  BY AppendProperties
<1>6. QED
  BY <1>2, <1>3, <1>4, <1>5

\* What is in the concatenation of sequences.
LEMMA FlattenSeqRange ==
  ASSUME NEW T, NEW ss \in Seq(Seq(T))
  PROVE  /\ FlattenSeq(ss) \in Seq(T)
         /\ Range(FlattenSeq(ss)) = UNION {Range(ss[i]) : i \in DOMAIN ss}
<1> DEFINE n == Len(ss)
           Flat(g) == g = [i \in 1..n |-> IF i = 1 THEN ss[i] ELSE g[i - 1] \o ss[i]]
           f == CHOOSE g : Flat(g)
<1>1. n \in Nat /\ DOMAIN ss = 1..n /\ \A i \in 1..n : ss[i] \in Seq(T)
  OBVIOUS
<1>2. CASE n = 0
  <2>1. ss = << >> /\ FlattenSeq(ss) = << >>
    BY <1>2 DEF FlattenSeq
  <2>2. Range(<< >>) = {} /\ DOMAIN ss = {}
    BY <1>1, <1>2 DEF Range
  <2>3. << >> \in Seq(T) /\ UNION {Range(ss[i]) : i \in {}} = {}
    OBVIOUS
  <2>4. QED
    BY <2>1, <2>2, <2>3
<1>3. CASE n # 0
  <2>1. FlattenSeq(ss) = f[n] /\ 1 \in 1..n
    BY <1>1, <1>3 DEF FlattenSeq
  <2> HIDE DEF n
  <2>2. Flat(f)
    <3> DEFINE d == [i \in 1..n |-> [s \in Seq(T) |-> s \o ss[i]]]
    <3>1. d \in [1..n -> [Seq(T) -> Seq(T)]] /\ ss[1] \in Seq(T)
      BY <1>1, <2>1
    <3>2. 1 \in Nat /\ n \in Nat /\ 1 <= n
      BY <1>1, <2>1
    <3>3. PICK g \in [1..n -> Seq(T)] : Recurs(g, ss[1], d, 1, n)
      <4> HIDE DEF d
      <4>1. QED
        BY <3>1, <3>2, Recursion
    <3>4. ASSUME NEW i \in 1..n PROVE g[i] = IF i = 1 THEN ss[i] ELSE g[i - 1] \o ss[i]
      <4>1. CASE i = 1
        BY <3>3, <4>1 DEF Recurs
      <4>2. CASE i # 1
        <5>1. i - 1 \in 1..n /\ g[i - 1] \in Seq(T)
          BY <3>2, <3>3, <4>2
        <5>2. QED
          BY <3>3, <4>2, <5>1 DEF Recurs
      <4>3. QED
        BY <4>1, <4>2
    <3>5. Flat(g)
      <4> HIDE DEF d
      <4>1. QED
        BY <3>3, <3>4
    <3>6. QED
      BY <3>5
  <2>3. /\ f[1] = ss[1]
        /\ \A j \in Nat \ {0} : j + 1 \in 1..n => f[j + 1] = f[j] \o ss[j + 1]
    <3> HIDE DEF f
    <3>1. \A i \in 1..n : f[i] = IF i = 1 THEN ss[i] ELSE f[i - 1] \o ss[i]
      BY <2>2
    <3>2. \A j \in Nat \ {0} : j + 1 # 1 /\ (j + 1) - 1 = j
      OBVIOUS
    <3> HIDE DEF Flat
    <3>3. QED
      BY <2>1, <3>1, <3>2
  <2> HIDE DEF f
  <2> DEFINE P(j) == /\ f[j] \in Seq(T)
                     /\ Range(f[j]) = UNION {Range(ss[i]) : i \in 1..j}
             S == {j \in Nat : j \in 1..n => P(j)}
  <2>4. P(1)
    <3>1. 1..1 = {1}
      OBVIOUS
    <3>2. QED
      BY <1>1, <2>1, <2>3, <3>1
  <2>5. ASSUME NEW j \in Nat \ {0}, j + 1 \in 1..n, P(j) PROVE P(j + 1)
    <3>1. f[j] \in Seq(T) /\ ss[j + 1] \in Seq(T) /\ f[j + 1] = f[j] \o ss[j + 1]
      BY <1>1, <2>3, <2>5
    <3>2. Range(f[j + 1]) = Range(f[j]) \cup Range(ss[j + 1])
      BY <3>1, RangeConcatenation
    <3>3. 1..(j + 1) = 1..j \cup {j + 1}
      BY <2>5
    <3>4. f[j + 1] \in Seq(T)
      BY <3>1
    <3> HIDE DEF S
    <3>5. UNION {Range(ss[i]) : i \in 1..(j + 1)}
            = (UNION {Range(ss[i]) : i \in 1..j}) \cup Range(ss[j + 1])
      BY <3>3
    <3>6. QED
      BY <2>5, <3>2, <3>4, <3>5
  <2>6. Nat \subseteq S
    <3> HIDE DEF P
    <3>1. 0 \in S
      OBVIOUS
    <3>2. ASSUME NEW j \in Nat, j \in S PROVE j + 1 \in S
      <4>1. CASE j = 0
        BY <2>4, <4>1
      <4>2. CASE j # 0
        BY <1>1, <2>5, <3>2, <4>2
      <4>3. QED
        BY <4>1, <4>2
    <3> HIDE DEF S
    <3>3. QED
      BY <3>1, <3>2, Induction
  <2>7. P(n)
    <3>1. n \in Nat /\ n \in 1..n
      BY <1>1, <2>1
    <3>2. n \in S
      BY <2>6, <3>1
    <3>3. QED
      BY <3>1, <3>2
  <2>8. QED
    BY <1>1, <2>1, <2>7
<1>4. QED
  BY <1>2, <1>3

=============================================================================
