---------------------------- MODULE SequenceLemmas ----------------------------
(***************************************************************************)
(* Lemmas about numbers, counts, recursion and sequences, on which the     *)
(* proofs about Mesh and Report rest.                                      *)
(*                                                                         *)
(* Induction is done with sets: a set of numbers with 0 and the successor  *)
(* of each of its members has every number (SetInduction).  So an          *)
(* induction over the prefixes of a sequence defines the set of lengths    *)
(* for which the claim holds.                                              *)
(***************************************************************************)
EXTENDS Integers, Sequences, FiniteSets, SequencesExt, FiniteSetTheorems,
        SequenceTheorems, TLAPS

-----------------------------------------------------------------------------
(* Induction *)

\* A set of numbers has a least one.
LEMMA LeastNumber ==
  ASSUME NEW T, T \subseteq Nat, T # {}
  PROVE  \E m \in T : \A k \in T : m <= k
<1>1. PICK x \in T : \A y \in T : ~(<<y, x>> \in OpToRel(<, Nat))
  BY WFMin, NatLessThanWellFounded
<1>2. \A y \in T : ~(y < x)
  BY <1>1 DEF OpToRel
<1> QED BY <1>2

\* A set with 0 and all successors has every number.
LEMMA SetInduction ==
  ASSUME NEW T, 0 \in T, \A n \in Nat : n \in T => n + 1 \in T
  PROVE  Nat \subseteq T
<1> SUFFICES ASSUME Nat \ T # {} PROVE FALSE
  OBVIOUS
<1>1. PICK m \in Nat \ T : \A k \in Nat \ T : m <= k
  BY LeastNumber
<1>2. m # 0 /\ m - 1 \in Nat /\ m - 1 \in T
  BY <1>1
<1> QED BY <1>1, <1>2

\* The same up to a bound.
LEMMA SetInductionTo ==
  ASSUME NEW n \in Nat, NEW T, 0 \in T, \A i \in 0..(n - 1) : i \in T => i + 1 \in T
  PROVE  0..n \subseteq T
<1> DEFINE U == T \cup {k \in Nat : k > n}
<1>1. 0 \in U
  OBVIOUS
<1>2. \A i \in Nat : i \in U => i + 1 \in U
  OBVIOUS
<1>3. Nat \subseteq U
  BY <1>1, <1>2, SetInduction
<1> QED BY <1>3

LEMMA Successor ==
  ASSUME NEW n \in Nat, NEW i \in 0..(n - 1)
  PROVE  i \in 0..n /\ i + 1 \in 1..n /\ i + 1 \in 0..n /\ (i + 1) - 1 = i
OBVIOUS

LEMMA MaxIs ==
  ASSUME NEW n \in Nat, NEW t \in SUBSET (1..n), n \in t
  PROVE  Max(t) = n
<1>1. \A m \in t : (\A k \in t : m >= k) => m = n
  <2> SUFFICES ASSUME NEW m \in t, m >= n PROVE m = n
    OBVIOUS
  <2>1. m \in 1..n
    OBVIOUS
  <2> QED BY <2>1
<1>2. n \in t /\ \A k \in t : n >= k
  OBVIOUS
<1> QED BY <1>1, <1>2 DEF Max

-----------------------------------------------------------------------------
(* Recursion *)

\* The values of a recursion that starts with b; f leads from one to the next.
Recursion(a, n, b, f) == a[0] = b /\ \A i \in 1..n : a[i] = f[<<a[i - 1], i>>]

\* There is one.
LEMMA RecursionExists ==
  ASSUME NEW n \in Nat, NEW S, NEW b \in S, NEW f \in [S \X (1..n) -> S]
  PROVE  \E a \in [0..n -> S] : Recursion(a, n, b, f)
<1> DEFINE Good(m, a) == a[0] = b /\ \A i \in 1..m : a[i] = f[<<a[i - 1], i>>]
           T == {m \in Nat : \E a \in [0..m -> S] : Good(m, a)}
<1>1. 0 \in T
  <2> DEFINE a == [i \in 0..0 |-> b]
  <2>1. a \in [0..0 -> S] /\ Good(0, a)
    OBVIOUS
  <2> QED BY <2>1
<1>2. \A m \in 0..(n - 1) : m \in T => m + 1 \in T
  <2> SUFFICES ASSUME NEW m \in 0..(n - 1), NEW a \in [0..m -> S], Good(m, a)
               PROVE  m + 1 \in T
    OBVIOUS
  <2> DEFINE c == [i \in 0..(m + 1) |-> IF i <= m THEN a[i] ELSE f[<<a[m], m + 1>>]]
  <2>1. f[<<a[m], m + 1>>] \in S
    OBVIOUS
  <2>2. c \in [0..(m + 1) -> S]
    BY <2>1
  <2>3. Good(m + 1, c)
    <3>1. c[0] = b
      OBVIOUS
    <3>2. ASSUME NEW i \in 1..(m + 1) PROVE c[i] = f[<<c[i - 1], i>>]
      <4>1. CASE i <= m
        <5>1. c[i] = a[i] /\ c[i - 1] = a[i - 1] /\ i \in 1..m
          BY <4>1
        <5> QED BY <5>1
      <4>2. CASE i = m + 1
        <5>1. c[m + 1] = f[<<a[m], m + 1>>] /\ c[m] = a[m]
          OBVIOUS
        <5> HIDE DEF c
        <5>2. i - 1 = m
          BY <4>2
        <5> QED BY <4>2, <5>1, <5>2
      <4> QED BY <4>1, <4>2
    <3> QED BY <3>1, <3>2
  <2> HIDE DEF c
  <2> QED BY <2>2, <2>3
<1> HIDE DEF T
<1>3. n \in T
  BY <1>1, <1>2, SetInductionTo
<1> QED BY <1>3 DEF T, Recursion

-----------------------------------------------------------------------------
(* FlattenSeq *)

\* What the steps of a recursion preserve, all values have.
LEMMA RecursionType ==
  ASSUME NEW n \in Nat, NEW V, NEW F, F[0] \in V,
         \A i \in 1..n : F[i - 1] \in V => F[i] \in V
  PROVE  \A i \in 0..n : F[i] \in V
<1> DEFINE T == {i \in 0..n : F[i] \in V}
<1>1. 0 \in T
  OBVIOUS
<1>2. \A i \in 0..(n - 1) : i \in T => i + 1 \in T
  <2> SUFFICES ASSUME NEW i \in 0..(n - 1), F[i] \in V PROVE F[i + 1] \in V
    OBVIOUS
  <2>1. i + 1 \in 1..n /\ (i + 1) - 1 = i
    OBVIOUS
  <2> QED BY <2>1
<1> HIDE DEF T
<1>3. 0..n \subseteq T
  BY <1>1, <1>2, SetInductionTo
<1> QED BY <1>3 DEF T

\* F[i] is the first i sequences of ss, one behind the other and all behind e.
Joined(F, n, e, ss) == F[0] = e /\ \A i \in 1..n : F[i] = F[i - 1] \o ss[i]

\* The function that FlattenSeq defines.
Flatten(n, ss) ==
  CHOOSE h : h = [i \in 1..n |-> IF i = 1 THEN ss[i] ELSE h[i - 1] \o ss[i]]

\* The recursion of FlattenSeq, of which only what it does to members of V counts.
LEMMA FlattenRecursion ==
  ASSUME NEW n \in Nat, n > 0, NEW V, NEW ss \in [1..n -> V], NEW e \in V,
         \A x \in V : e \o x = x, \A x, y \in V : x \o y \in V
  PROVE  \E F \in [0..n -> V] : Joined(F, n, e, ss) /\ F[n] = Flatten(n, ss)[n]
<1> DEFINE P(h) == h = [i \in 1..n |-> IF i = 1 THEN ss[i] ELSE h[i - 1] \o ss[i]]
           c    == CHOOSE h : P(h)
           f    == [x \in V \X (1..n) |-> x[1] \o ss[x[2]]]
<1>1. f \in [V \X (1..n) -> V]
  <2>1. ASSUME NEW x \in V \X (1..n) PROVE x[1] \o ss[x[2]] \in V
    <3>1. x[1] \in V /\ ss[x[2]] \in V
      OBVIOUS
    <3> QED BY <3>1
  <2> QED BY <2>1
<1>2. PICK a \in [0..n -> V] : a[0] = e /\ \A i \in 1..n : a[i] = f[<<a[i - 1], i>>]
  <2> HIDE DEF f
  <2>1. \E a \in [0..n -> V] : Recursion(a, n, e, f)
    BY <1>1, RecursionExists
  <2> QED BY <2>1 DEF Recursion
<1>3. ASSUME NEW i \in 1..n PROVE a[i - 1] \in V /\ a[i] = a[i - 1] \o ss[i]
  <2>1. i - 1 \in 0..n
    OBVIOUS
  <2>2. a[i - 1] \in V
    BY <2>1
  <2>3. f[<<a[i - 1], i>>] = a[i - 1] \o ss[i]
    BY <2>2
  <2> HIDE DEF f
  <2> QED BY <1>2, <2>2, <2>3
<1> HIDE DEF f
<1> DEFINE g == [i \in 1..n |-> a[i]]
<1>4. P(g)
  <2>1. ASSUME NEW i \in 1..n
        PROVE  a[i] = IF i = 1 THEN ss[i] ELSE g[i - 1] \o ss[i]
    <3>1. CASE i = 1
      <4>1. ss[1] \in V /\ i - 1 = 0
        BY <3>1
      <4>2. a[1] = e \o ss[1]
        BY <1>2, <1>3, <3>1, <4>1
      <4> QED BY <3>1, <4>1, <4>2
    <3>2. CASE i # 1
      <4>1. i - 1 \in 1..n
        BY <3>2
      <4>2. g[i - 1] = a[i - 1]
        BY <4>1
      <4> QED BY <3>2, <4>2, <1>3
    <3> QED BY <3>1, <3>2
  <2> QED BY <2>1
<1>5. P(c)
  <2> HIDE DEF P, g
  <2> QED BY <1>4
<1>6. \A i \in 1..n : c[i] = IF i = 1 THEN ss[i] ELSE c[i - 1] \o ss[i]
  BY <1>5
<1> HIDE DEF c, P
<1> DEFINE F == [i \in 0..n |-> IF i = 0 THEN e ELSE c[i]]
<1>7. ASSUME NEW i \in 1..n PROVE F[i] = F[i - 1] \o ss[i]
  <2>1. CASE i = 1
    <3>1. F[1] = ss[1] /\ F[0] = e
      BY <1>6
    <3>4. ss[1] \in V
      BY <2>1
    <3>2. e \o ss[1] = ss[1]
      <4> HIDE DEF F
      <4> QED BY <3>4
    <3>3. i - 1 = 0
      BY <2>1
    <3> HIDE DEF F
    <3> QED BY <2>1, <3>1, <3>2, <3>3
  <2>2. CASE i # 1
    <3>1. i - 1 \in 1..n /\ F[i] = c[i] /\ F[i - 1] = c[i - 1]
      BY <2>2
    <3> QED BY <2>2, <3>1, <1>6
  <2> QED BY <2>1, <2>2
<1>8. F[0] = e /\ F[n] = c[n] /\ F = [i \in 0..n |-> F[i]]
  OBVIOUS
<1> HIDE DEF F
<1>9. \A i \in 0..n : F[i] \in V
  <2>1. \A i \in 1..n : F[i - 1] \in V => F[i] \in V
    <3> SUFFICES ASSUME NEW i \in 1..n, F[i - 1] \in V PROVE F[i] \in V
      OBVIOUS
    <3>1. ss[i] \in V
      OBVIOUS
    <3> QED BY <3>1, <1>7
  <2> QED BY <2>1, <1>8, RecursionType
<1>10. F \in [0..n -> V]
  BY <1>8, <1>9
<1> QED BY <1>7, <1>8, <1>10 DEF c, P, Joined, Flatten

LEMMA FunctionIsSeq ==
  ASSUME NEW V, NEW n \in Nat, NEW f \in [1..n -> V]
  PROVE  f \in Seq(V) /\ Len(f) = n
OBVIOUS

\* A sequence of sequences is flattened one by one.
LEMMA FlattenSteps ==
  ASSUME NEW S, NEW ss \in Seq(Seq(S))
  PROVE  \E F \in [0..Len(ss) -> Seq(S)] :
           Joined(F, Len(ss), <<>>, ss) /\ F[Len(ss)] = FlattenSeq(ss)
<1> DEFINE n == Len(ss)
           V == Seq(S)
<1>0. n \in Nat /\ ss \in [1..n -> V]
  OBVIOUS
<1>1. <<>> \in V /\ (\A x \in V : <<>> \o x = x) /\ (\A x, y \in V : x \o y \in V)
  OBVIOUS
<1>2. CASE n = 0
  <2> DEFINE F == [i \in 0..0 |-> <<>>]
  <2>1. ss = <<>>
    BY <1>2
  <2>2. FlattenSeq(ss) = <<>>
    BY <1>2, <2>1 DEF FlattenSeq
  <2>3. F \in [0..n -> V] /\ F[0] = <<>> /\ F[n] = <<>>
    BY <1>2
  <2>4. \A i \in 1..n : F[i] = F[i - 1] \o ss[i]
    BY <1>2
  <2> HIDE DEF F
  <2> QED BY <2>2, <2>3, <2>4 DEF Joined
<1>3. CASE n > 0
  <2>1. FlattenSeq(ss) = Flatten(n, ss)[n]
    BY <1>3 DEF FlattenSeq, Flatten
  <2>2. \E F \in [0..n -> V] : Joined(F, n, <<>>, ss) /\ F[n] = Flatten(n, ss)[n]
    <3> HIDE DEF n, V
    <3> QED BY <1>0, <1>1, <1>3, FlattenRecursion
  <2> QED BY <2>1, <2>2
<1> QED
  <2> HIDE DEF V
  <2>1. n = 0 \/ n > 0
    BY <1>0
  <2> QED BY <2>1, <1>2, <1>3 DEF V

\* What is flattened is a sequence of the same things.
LEMMA FlattenType ==
  ASSUME NEW S, NEW ss \in Seq(Seq(S))
  PROVE  FlattenSeq(ss) \in Seq(S)
<1>1. Len(ss) \in 0..Len(ss)
  OBVIOUS
<1>2. PICK F \in [0..Len(ss) -> Seq(S)] : FlattenSeq(ss) = F[Len(ss)]
  BY FlattenSteps
<1> QED BY <1>1, <1>2

-----------------------------------------------------------------------------
(* Counting *)

\* How many places of s hold a member of T.
Count(T, s) == Cardinality({j \in DOMAIN s : s[j] \in T})

LEMMA CountType ==
  ASSUME NEW S, NEW s \in Seq(S), NEW T
  PROVE  /\ IsFiniteSet({j \in DOMAIN s : s[j] \in T})
         /\ Count(T, s) \in 0..Len(s)
         /\ Count(T, s) = 0 <=> \A j \in DOMAIN s : s[j] \notin T
<1> DEFINE P == {j \in DOMAIN s : s[j] \in T}
<1>1. IsFiniteSet(1..Len(s)) /\ Cardinality(1..Len(s)) = Len(s)
  <2>1. Len(s) \in Nat
    OBVIOUS
  <2> QED BY <2>1, FS_Interval
<1>2. P \in SUBSET (1..Len(s))
  OBVIOUS
<1>3. IsFiniteSet(P) /\ Cardinality(P) <= Len(s)
  BY <1>1, <1>2, FS_Subset
<1>4. Cardinality(P) \in Nat /\ (Cardinality(P) = 0 <=> P = {})
  BY <1>3, FS_CardinalityType, FS_EmptySet
<1>5. Len(s) \in Nat
  OBVIOUS
<1> QED BY <1>3, <1>4, <1>5 DEF Count

LEMMA CountEmpty == ASSUME NEW T PROVE Count(T, <<>>) = 0
<1>1. {j \in DOMAIN <<>> : <<>>[j] \in T} = {}
  OBVIOUS
<1> QED BY <1>1, FS_EmptySet DEF Count

\* A set moved along the numbers has as many members.
LEMMA ShiftCardinality ==
  ASSUME NEW P, P \subseteq Int, IsFiniteSet(P), NEW k \in Int
  PROVE  LET Q == {j + k : j \in P}
         IN  IsFiniteSet(Q) /\ Cardinality(Q) = Cardinality(P)
<1> DEFINE Q == {j + k : j \in P}
           f == [j \in P |-> j + k]
<1>1. f \in Bijection(P, Q)
  BY DEF Bijection, Injection, Surjection, IsInjective
<1>2. ExistsBijection(P, Q)
  BY <1>1 DEF ExistsBijection
<1> QED BY <1>2, FS_Bijection

LEMMA CountConcat ==
  ASSUME NEW S, NEW s \in Seq(S), NEW t \in Seq(S), NEW T
  PROVE  Count(T, s \o t) = Count(T, s) + Count(T, t)
<1> DEFINE P == {j \in DOMAIN s : s[j] \in T}
           Q == {j \in DOMAIN t : t[j] \in T}
           R == {j + Len(s) : j \in Q}
           U == {j \in DOMAIN (s \o t) : (s \o t)[j] \in T}
<1>0. Len(s) \in Nat /\ Len(t) \in Nat /\ DOMAIN s = 1..Len(s) /\ DOMAIN t = 1..Len(t)
      /\ DOMAIN (s \o t) = 1..(Len(s) + Len(t))
  OBVIOUS
<1>1. IsFiniteSet(P) /\ IsFiniteSet(Q)
  BY CountType
<1>2. IsFiniteSet(R) /\ Cardinality(R) = Cardinality(Q)
  <2>1. Q \subseteq Int /\ Len(s) \in Int
    BY <1>0
  <2> HIDE DEF Q
  <2> QED BY <1>1, <2>1, ShiftCardinality
<1>3. U = P \cup R
  <2>1. \A j \in 1..Len(s) : (s \o t)[j] = s[j]
    OBVIOUS
  <2>2. \A j \in 1..Len(t) : (s \o t)[j + Len(s)] = t[j]
    OBVIOUS
  <2>3. ASSUME NEW j \in U PROVE j \in P \cup R
    <3>1. CASE j <= Len(s)
      BY <3>1, <2>1, <1>0
    <3>2. CASE j > Len(s)
      <4> DEFINE k == j - Len(s)
      <4>1. k \in 1..Len(t) /\ j = k + Len(s)
        BY <3>2, <1>0
      <4>2. k \in Q
        BY <4>1, <2>2, <1>0
      <4> QED BY <4>1, <4>2
    <3> QED BY <3>1, <3>2, <1>0
  <2>4. P \subseteq U
    BY <2>1, <1>0
  <2>5. R \subseteq U
    BY <2>2, <1>0
  <2> HIDE DEF P, R, U
  <2> QED BY <2>3, <2>4, <2>5
<1>4. P \cap R = {}
  BY <1>0
<1>5. Cardinality(P \cup R) = Cardinality(P) + Cardinality(R) - Cardinality(P \cap R)
  BY <1>1, <1>2, FS_Union
<1>6. Cardinality(P) \in Nat /\ Cardinality(R) \in Nat /\ Cardinality(P \cap R) = 0
  BY <1>1, <1>2, <1>4, FS_CardinalityType, FS_EmptySet
<1>7. Cardinality(U) = Cardinality(P) + Cardinality(Q)
  <2> HIDE DEF P, Q, R, U
  <2> QED BY <1>2, <1>3, <1>5, <1>6
<1> QED BY <1>7 DEF Count

\* One place more.
LEMMA CountOne ==
  ASSUME NEW x, NEW T
  PROVE  Count(T, <<x>>) = IF x \in T THEN 1 ELSE 0
<1>1. {j \in DOMAIN <<x>> : <<x>>[j] \in T} = IF x \in T THEN {1} ELSE {}
  OBVIOUS
<1> QED BY <1>1, FS_EmptySet, FS_Singleton DEF Count

\* What stands where in two sequences, one behind the other.
LEMMA StandsBehind ==
  ASSUME NEW S, NEW s \in Seq(S), NEW t \in Seq(S), NEW u, u = s \o t,
         NEW k \in 1..Len(t), NEW l, l = Len(s) + k
  PROVE  l \in 1..Len(u) /\ u[l] = t[k]
<1>1. Len(s) \in Nat /\ Len(t) \in Nat /\ Len(u) = Len(s) + Len(t)
  OBVIOUS
<1>2. l \in 1..Len(u) /\ ~(l <= Len(s)) /\ l - Len(s) = k
  BY <1>1
<1> QED BY <1>2

\* A member of a sequence that is flattened is in the result.
LEMMA FlattenHas ==
  ASSUME NEW S, NEW ss \in Seq(Seq(S)), NEW j \in DOMAIN ss, NEW k \in DOMAIN ss[j]
  PROVE  \E l \in DOMAIN FlattenSeq(ss) : FlattenSeq(ss)[l] = ss[j][k]
<1> DEFINE n == Len(ss)
           x == ss[j][k]
<1>0. n \in Nat /\ j \in 1..n /\ \A i \in 1..n : ss[i] \in Seq(S)
  OBVIOUS
<1>1. PICK F \in [0..n -> Seq(S)] : Joined(F, n, <<>>, ss) /\ F[n] = FlattenSeq(ss)
  BY FlattenSteps
<1> HIDE DEF n
<1>2. ASSUME NEW i \in 1..n PROVE F[i - 1] \in Seq(S) /\ F[i] = F[i - 1] \o ss[i]
  <2>1. i - 1 \in 0..n
    BY <1>0
  <2> QED BY <1>1, <2>1 DEF Joined
<1> DEFINE Has(i) == \E l \in 1..Len(F[i]) : F[i][l] = x
           T == {i \in 0..n : i >= j => Has(i)}
<1>3. 0 \in T
  BY <1>0
<1>4. \A i \in 0..(n - 1) : i \in T => i + 1 \in T
  <2> SUFFICES ASSUME NEW i \in 0..(n - 1), i \in T, i + 1 >= j PROVE Has(i + 1)
    BY <1>0
  <2>1. i + 1 \in 1..n /\ (i + 1) - 1 = i
    BY <1>0
  <2>2. F[i] \in Seq(S) /\ ss[i + 1] \in Seq(S) /\ F[i + 1] = F[i] \o ss[i + 1]
    BY <1>0, <1>2, <2>1
  <2>3. CASE i >= j
    <3>1. PICK l \in 1..Len(F[i]) : F[i][l] = x
      BY <2>3
    <3>2. l \in 1..Len(F[i + 1]) /\ F[i + 1][l] = F[i][l]
      BY <2>2, ConcatProperties
    <3> QED BY <3>1, <3>2
  <2>4. CASE i + 1 = j
    <3> DEFINE l == Len(F[i]) + k
    <3>1. k \in 1..Len(ss[i + 1]) /\ Len(F[i]) \in Nat
      BY <2>2, <2>4
    <3>2. l \in 1..Len(F[i + 1]) /\ F[i + 1][l] = ss[i + 1][k]
      <4> DEFINE p == F[i]
                 q == ss[i + 1]
                 u == F[i + 1]
      <4>1. p \in Seq(S) /\ q \in Seq(S) /\ u = p \o q /\ k \in 1..Len(q) /\ l = Len(p) + k
        BY <2>2, <3>1
      <4> HIDE DEF p, q, u, l
      <4>2. l \in 1..Len(u) /\ u[l] = q[k]
        BY <4>1, StandsBehind
      <4> QED BY <4>2 DEF p, q, u
    <3> QED BY <2>4, <3>2
  <2> QED BY <2>3, <2>4, <1>0
<1> HIDE DEF T
<1>5. n \in T
  <2>1. n \in Nat
    BY <1>0
  <2>2. 0..n \subseteq T
    BY <1>3, <1>4, <2>1, SetInductionTo
  <2> QED BY <2>1, <2>2
<1>6. Has(n)
  BY <1>0, <1>5 DEF T
<1>7. F[n] \in Seq(S)
  BY <1>0
<1> QED BY <1>1, <1>6, <1>7

LEMMA MemberType ==
  ASSUME NEW V, NEW s \in Seq(V), NEW p \in 1..Len(s)
  PROVE  s[p] \in V
OBVIOUS

\* The sequences of a and b together have the members of T that those of c have.
AddUp(T, n, a, b, c) == \A j \in 1..n : Count(T, a[j]) + Count(T, b[j]) = Count(T, c[j])

\* What three sequences of sequences count, piece by piece, they count together.
LEMMA CountFlattened ==
  ASSUME NEW S, NEW T, NEW n \in Nat,
         NEW a \in Seq(Seq(S)), NEW b \in Seq(Seq(S)), NEW c \in Seq(Seq(S)),
         Len(a) = n, Len(b) = n, Len(c) = n, AddUp(T, n, a, b, c)
  PROVE  Count(T, FlattenSeq(a)) + Count(T, FlattenSeq(b)) = Count(T, FlattenSeq(c))
<1>1. PICK A \in [0..n -> Seq(S)] : Joined(A, n, <<>>, a) /\ A[n] = FlattenSeq(a)
  BY FlattenSteps
<1>2. PICK B \in [0..n -> Seq(S)] : Joined(B, n, <<>>, b) /\ B[n] = FlattenSeq(b)
  BY FlattenSteps
<1>3. PICK C \in [0..n -> Seq(S)] : Joined(C, n, <<>>, c) /\ C[n] = FlattenSeq(c)
  BY FlattenSteps
<1> DEFINE R == {i \in 0..n : Count(T, A[i]) + Count(T, B[i]) = Count(T, C[i])}
<1>4. 0 \in R
  BY <1>1, <1>2, <1>3, CountEmpty DEF Joined
<1>5. \A i \in 0..(n - 1) : i \in R => i + 1 \in R
  <2> SUFFICES ASSUME NEW i \in 0..(n - 1), i \in R PROVE i + 1 \in R
    OBVIOUS
  <2>1. i + 1 \in 1..n /\ i + 1 \in 0..n /\ (i + 1) - 1 = i /\ i \in 0..n
    BY Successor
  <2>2. A[i] \in Seq(S) /\ B[i] \in Seq(S) /\ C[i] \in Seq(S)
    BY <2>1
  <2>3. a[i + 1] \in Seq(S) /\ b[i + 1] \in Seq(S) /\ c[i + 1] \in Seq(S)
    <3> DEFINE V == Seq(S)
               p == i + 1
    <3>1. /\ a \in Seq(V) /\ b \in Seq(V) /\ c \in Seq(V)
          /\ p \in 1..Len(a) /\ p \in 1..Len(b) /\ p \in 1..Len(c)
      BY <2>1
    <3> HIDE DEF V, p, R
    <3>2. a[p] \in V /\ b[p] \in V /\ c[p] \in V
      BY <3>1, MemberType, Zenon
    <3> QED BY <3>2 DEF V, p
  <2>4. /\ A[i + 1] = A[i] \o a[i + 1]
        /\ B[i + 1] = B[i] \o b[i + 1]
        /\ C[i + 1] = C[i] \o c[i + 1]
    BY <1>1, <1>2, <1>3, <2>1 DEF Joined
  <2>5. /\ Count(T, A[i + 1]) = Count(T, A[i]) + Count(T, a[i + 1])
        /\ Count(T, B[i + 1]) = Count(T, B[i]) + Count(T, b[i + 1])
        /\ Count(T, C[i + 1]) = Count(T, C[i]) + Count(T, c[i + 1])
    BY <2>2, <2>3, <2>4, CountConcat
  <2>6. \A s \in Seq(S) : Count(T, s) \in Nat
    <3> TAKE s \in Seq(S)
    <3>1. Count(T, s) \in 0..Len(s)
      BY CountType
    <3> QED BY <3>1
  <2>7. /\ Count(T, a[i + 1]) + Count(T, b[i + 1]) = Count(T, c[i + 1])
        /\ Count(T, A[i]) + Count(T, B[i]) = Count(T, C[i])
    BY <2>1 DEF AddUp
  <2>8. /\ Count(T, A[i]) \in Nat /\ Count(T, B[i]) \in Nat
        /\ Count(T, a[i + 1]) \in Nat /\ Count(T, b[i + 1]) \in Nat
    BY <2>2, <2>3, <2>6
  <2>9. Count(T, A[i + 1]) + Count(T, B[i + 1]) = Count(T, C[i + 1])
    BY <2>5, <2>7, <2>8
  <2> QED BY <2>1, <2>9
<1> HIDE DEF R
<1>6. n \in R
  <2>1. 0..n \subseteq R
    BY <1>4, <1>5, SetInductionTo
  <2> QED BY <2>1
<1> QED BY <1>1, <1>2, <1>3, <1>6 DEF R

-----------------------------------------------------------------------------
(* RemoveFirst *)

\* The first place with e is left out, and nothing else.
LEMMA RemoveFirstCount ==
  ASSUME NEW S, NEW s \in Seq(S), NEW i \in DOMAIN s, NEW T
  PROVE  /\ RemoveFirst(s, s[i]) \in Seq(S)
         /\ Count(T, RemoveFirst(s, s[i])) = Count(T, s) - (IF s[i] \in T THEN 1 ELSE 0)
<1> DEFINE e == s[i]
           n == Len(s)
           I == {j \in 1..Len(s) : s[j] = e}
           k == Min(I)
<1>0. n \in Nat /\ i \in 1..n /\ I \subseteq Nat /\ i \in I
  OBVIOUS
<1>1. k \in I
  <2> HIDE DEF I
  <2>1. \E m \in I : \A y \in I : m <= y
    BY <1>0, LeastNumber
  <2> QED BY <2>1 DEF Min
<1>2. RemoveFirst(s, e) = RemoveAt(s, k)
  <2>1. \E j \in 1..Len(s) : s[j] = e
    BY <1>0
  <2> QED BY <1>0, <2>1 DEF RemoveFirst, SelectInSeq
<1> HIDE DEF k
<1>3. k \in 1..n /\ s[k] = e
  BY <1>1
<1> DEFINE a == SubSeq(s, 1, k - 1)
           b == SubSeq(s, k + 1, n)
<1>4. a \in Seq(S) /\ b \in Seq(S) /\ <<s[k]>> \in Seq(S)
  <2>1. \A j \in 1..n : s[j] \in S
    OBVIOUS
  <2>2. (\A j \in 1..(k - 1) : s[j] \in S) /\ (\A j \in (k + 1)..n : s[j] \in S)
    BY <1>0, <1>3, <2>1
  <2>3. k - 1 \in Int /\ k + 1 \in Int /\ n \in Int
    BY <1>0, <1>3
  <2> HIDE DEF n
  <2>4. a \in Seq(S)
    BY <2>2, <2>3, SubSeqProperties
  <2>5. b \in Seq(S)
    BY <2>2, <2>3, SubSeqProperties
  <2> QED BY <2>1, <2>4, <2>5, <1>3
<1>5. s = (a \o <<s[k]>>) \o b
  <2>1. a \o <<s[k]>> = SubSeq(s, 1, k)
    BY <1>0, <1>3, SubSeqRecursiveSecond
  <2>2. SubSeq(s, 1, k) \o b = SubSeq(s, 1, n)
    BY <1>0, <1>3, ConcatAdjacentSubSeq
  <2>3. SubSeq(s, 1, n) = s
    BY SubSeqFull
  <2> QED BY <2>1, <2>2, <2>3
<1>6. RemoveFirst(s, e) = a \o b
  BY <1>2 DEF RemoveAt
<1> HIDE DEF a, b
<1>7. a \o <<s[k]>> \in Seq(S) /\ a \o b \in Seq(S)
  BY <1>4, ConcatProperties
<1>8. /\ Count(T, s) = Count(T, a \o <<s[k]>>) + Count(T, b)
      /\ Count(T, a \o <<s[k]>>) = Count(T, a) + Count(T, <<s[k]>>)
      /\ Count(T, a \o b) = Count(T, a) + Count(T, b)
  BY <1>4, <1>5, <1>7, CountConcat
<1>9. Count(T, a) \in Nat /\ Count(T, b) \in Nat
  <2>1. Count(T, a) \in 0..Len(a) /\ Count(T, b) \in 0..Len(b)
    BY <1>4, CountType
  <2> QED BY <2>1
<1>10. Count(T, <<s[k]>>) = IF e \in T THEN 1 ELSE 0
  BY <1>3, CountOne
<1> QED BY <1>6, <1>7, <1>8, <1>9, <1>10

-----------------------------------------------------------------------------
(* FoldLeft, which recurs over sets of places, from the greatest one down *)

\* A set of numbers up to n has a greatest one.
LEMMA MaxInRange ==
  ASSUME NEW n \in Nat, NEW t \in SUBSET (1..n), t # {}
  PROVE  Max(t) \in t
<1> DEFINE T == {k \in Nat : n - k \in t}
<1>1. T \subseteq Nat /\ T # {}
  <2>1. PICK k \in t : TRUE
    OBVIOUS
  <2>2. k \in 1..n
    BY <2>1
  <2>3. n - k \in Nat /\ n - (n - k) = k
    BY <2>2
  <2>4. n - k \in T
    BY <2>1, <2>3
  <2> QED BY <2>4
<1>2. PICK m \in T : \A k \in T : m <= k
  <2> HIDE DEF T
  <2> QED BY <1>1, LeastNumber
<1>3. ASSUME NEW k \in t PROVE n - m >= k
  <2>1. k \in 1..n
    OBVIOUS
  <2>2. n - k \in Nat /\ n - (n - k) = k
    BY <2>1
  <2>3. n - k \in T
    BY <2>2
  <2>4. m <= n - k
    BY <1>2, <2>3
  <2> QED BY <2>1, <2>4
<1>4. n - m \in t
  OBVIOUS
<1> QED BY <1>3, <1>4 DEF Max

\* The values of a fold over the sets of places.
Fold(g, n, b, f) ==
  \A t \in SUBSET (1..n) : g[t] = IF t = {} THEN b ELSE f[<<g[t \ {Max(t)}], Max(t)>>]

\* There are some.
LEMMA FoldExists ==
  ASSUME NEW n \in Nat, NEW S, NEW b \in S, NEW f \in [S \X (1..n) -> S]
  PROVE  \E g \in [SUBSET (1..n) -> S] : Fold(g, n, b, f)
<1> DEFINE T == {m \in 0..n : \E g \in [SUBSET (1..m) -> S] : Fold(g, m, b, f)}
<1>1. 0 \in T
  <2> DEFINE g == [t \in SUBSET (1..0) |-> b]
  <2>1. g \in [SUBSET (1..0) -> S]
    OBVIOUS
  <2>2. Fold(g, 0, b, f)
    <3>1. \A t \in SUBSET (1..0) : t = {} /\ g[t] = b
      OBVIOUS
    <3> HIDE DEF g
    <3> QED BY <3>1 DEF Fold
  <2> HIDE DEF g
  <2>3. 0 \in 0..n
    OBVIOUS
  <2> QED BY <2>1, <2>2, <2>3
<1>2. \A m \in 0..(n - 1) : m \in T => m + 1 \in T
  <2> SUFFICES ASSUME NEW m \in 0..(n - 1), NEW g \in [SUBSET (1..m) -> S], Fold(g, m, b, f)
               PROVE  m + 1 \in T
    OBVIOUS
  <2>0. m \in Nat /\ m + 1 \in 0..n /\ m + 1 \in 1..n
    OBVIOUS
  <2> DEFINE h == [t \in SUBSET (1..(m + 1)) |->
                     IF m + 1 \in t THEN f[<<g[t \ {m + 1}], m + 1>>] ELSE g[t]]
  <2>1. ASSUME NEW t \in SUBSET (1..(m + 1)), m + 1 \in t
        PROVE  /\ t \ {m + 1} \in SUBSET (1..m)
               /\ Max(t) = m + 1
               /\ h[t] = f[<<g[t \ {m + 1}], m + 1>>]
               /\ h[t \ {m + 1}] = g[t \ {m + 1}]
    <3>1. t \ {m + 1} \in SUBSET (1..m) /\ t \ {m + 1} \in SUBSET (1..(m + 1))
      BY <2>0
    <3>2. Max(t) = m + 1
      <4>1. m + 1 \in Nat
        BY <2>0
      <4> QED BY <2>1, <4>1, MaxIs
    <3>3. h[t] = f[<<g[t \ {m + 1}], m + 1>>]
      BY <2>1
    <3>4. h[t \ {m + 1}] = g[t \ {m + 1}]
      BY <3>1
    <3> QED BY <3>1, <3>2, <3>3, <3>4
  <2>2. ASSUME NEW t \in SUBSET (1..(m + 1)), m + 1 \notin t
        PROVE  /\ t \in SUBSET (1..m)
               /\ h[t] = g[t]
               /\ t # {} => h[t \ {Max(t)}] = g[t \ {Max(t)}]
    <3>1. t \in SUBSET (1..m)
      BY <2>0, <2>2
    <3>2. h[t] = g[t]
      BY <2>2
    <3>3. h[t \ {Max(t)}] = g[t \ {Max(t)}]
      BY <2>2
    <3> QED BY <3>1, <3>2, <3>3
  <2>3. \A t \in SUBSET (1..(m + 1)) : h[t] \in S
    <3> TAKE t \in SUBSET (1..(m + 1))
    <3>1. CASE m + 1 \in t
      <4>1. g[t \ {m + 1}] \in S
        BY <2>1, <3>1
      <4>2. <<g[t \ {m + 1}], m + 1>> \in S \X (1..n)
        BY <2>0, <4>1
      <4>3. h[t] = f[<<g[t \ {m + 1}], m + 1>>]
        BY <3>1
      <4> HIDE DEF h
      <4> QED BY <4>2, <4>3
    <3>2. CASE m + 1 \notin t
      <4>1. t \in SUBSET (1..m) /\ h[t] = g[t]
        BY <2>2, <3>2
      <4> HIDE DEF h
      <4> QED BY <4>1
    <3> QED BY <3>1, <3>2
  <2>4. h \in [SUBSET (1..(m + 1)) -> S]
    <3>1. h = [t \in SUBSET (1..(m + 1)) |-> h[t]]
      OBVIOUS
    <3> HIDE DEF h
    <3> QED BY <2>3, <3>1
  <2> HIDE DEF h
  <2>5. ASSUME NEW t \in SUBSET (1..(m + 1))
        PROVE  h[t] = IF t = {} THEN b ELSE f[<<h[t \ {Max(t)}], Max(t)>>]
    <3>1. CASE m + 1 \in t
      BY <2>1, <3>1
    <3>2. CASE m + 1 \notin t
      <4>1. t \in SUBSET (1..m)
        BY <2>2, <3>2
      <4>2. g[t] = IF t = {} THEN b ELSE f[<<g[t \ {Max(t)}], Max(t)>>]
        BY <4>1 DEF Fold
      <4> QED BY <2>2, <3>2, <4>2
    <3> QED BY <3>1, <3>2
  <2>6. Fold(h, m + 1, b, f)
    BY <2>5 DEF Fold
  <2> QED BY <2>0, <2>4, <2>6
<1> HIDE DEF T
<1>3. n \in T
  <2>1. 0..n \subseteq T
    BY <1>1, <1>2, SetInductionTo
  <2> QED BY <2>1
<1> QED BY <1>3 DEF T

\* The places up to i, without the last one.
LEMMA FoldPlaces ==
  ASSUME NEW n \in Nat, NEW i \in 1..n
  PROVE  /\ 1..i \in SUBSET (1..n) /\ 1..i # {}
         /\ Max(1..i) = i
         /\ (1..i) \ {i} = 1..(i - 1)
<1>1. 1..i \in SUBSET (1..n) /\ i \in 1..i /\ i \in Nat
  OBVIOUS
<1>2. Max(1..i) = i
  <2>1. 1..i \in SUBSET (1..i)
    OBVIOUS
  <2> QED BY <1>1, <2>1, MaxIs
<1>3. (1..i) \ {i} = 1..(i - 1)
  OBVIOUS
<1> QED BY <1>1, <1>2, <1>3
=============================================================================
