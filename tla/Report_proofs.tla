---------------------------- MODULE Report_proofs ----------------------------
(***************************************************************************)
(* Proofs about Report, for any number of points, errors and listings,     *)
(* whatever order the client's goroutines run in.                          *)
(***************************************************************************)
EXTENDS Report, SequenceLemmas

-----------------------------------------------------------------------------
(* What the folds compute *)

LEMMA PointType ==
  ASSUME NEW p \in Points
  PROVE  /\ p.reader \in Readers /\ p.created \in Nat /\ p.bytes \in Nat
         /\ p.figures \in Figures
         /\ \A c \in Columns : /\ p.figures[c].high \in 0..MaxInt64
                               /\ p.figures[c].low \in 0..MaxInt64
         /\ p.figures[SortBy].high \in 0..MaxInt64
BY ReportAssumption DEF Points

\* a[i] is the number of bytes in the first i points of s.
BytesUpTo(a, s) == a[0] = 0 /\ \A i \in 1..Len(s) : a[i] = a[i - 1] + s[i].bytes

LEMMA BytesUpToExists ==
  ASSUME NEW s \in Seq(Points)
  PROVE  \E a \in [0..Len(s) -> Nat] : BytesUpTo(a, s) /\ a[Len(s)] = Bytes(s)
<1> DEFINE n == Len(s)
           f == [x \in Nat \X (1..n) |-> x[1] + s[x[2]].bytes]
           P(h) == h = [t \in SUBSET DOMAIN s |->
                         IF t = {} THEN 0 ELSE h[t \ {Max(t)}] + s[Max(t)].bytes]
           c == CHOOSE h : P(h)
           a == [i \in 0..n |-> c[1..i]]
<1>1. n \in Nat /\ DOMAIN s = 1..n /\ \A i \in 1..n : s[i] \in Points
  OBVIOUS
<1>2. ASSUME NEW x \in Nat, NEW i \in 1..n PROVE x + s[i].bytes \in Nat
  BY <1>1, PointType
<1>3. f \in [Nat \X (1..n) -> Nat]
  <2>1. ASSUME NEW x \in Nat \X (1..n) PROVE x[1] + s[x[2]].bytes \in Nat
    <3>1. x[1] \in Nat /\ x[2] \in 1..n
      OBVIOUS
    <3> QED BY <1>2, <3>1
  <2> QED BY <2>1
<1>4. 0 \in Nat
  BY SMT
<1>5. PICK g \in [SUBSET (1..n) -> Nat] : Fold(g, n, 0, f)
  <2> HIDE DEF f, n
  <2> QED BY <1>1, <1>3, <1>4, FoldExists
<1>6. P(g)
  <2>1. ASSUME NEW t \in SUBSET (1..n), t # {}
        PROVE  g[t] = g[t \ {Max(t)}] + s[Max(t)].bytes
    <3>1. Max(t) \in 1..n
      BY <1>1, <2>1, MaxInRange
    <3>2. g[t \ {Max(t)}] \in Nat
      OBVIOUS
    <3>3. <<g[t \ {Max(t)}], Max(t)>> \in Nat \X (1..n)
      BY <3>1, <3>2
    <3>4. g[t] = f[<<g[t \ {Max(t)}], Max(t)>>]
      <4> HIDE DEF f
      <4> QED BY <1>5, <2>1 DEF Fold
    <3> QED BY <3>3, <3>4
  <2>2. g[{}] = 0
    <3> HIDE DEF f
    <3> QED BY <1>5 DEF Fold
  <2> HIDE DEF f, n
  <2> QED BY <1>1, <2>1, <2>2
<1>7. P(c)
  <2> HIDE DEF P
  <2> QED BY <1>6
<1>8. c[{}] = 0 /\ \A t \in SUBSET (1..n) : t # {} => c[t] = c[t \ {Max(t)}] + s[Max(t)].bytes
  <2>1. c = [t \in SUBSET DOMAIN s |-> IF t = {} THEN 0 ELSE c[t \ {Max(t)}] + s[Max(t)].bytes]
    BY <1>7
  <2> HIDE DEF c
  <2> QED BY <1>1, <2>1
<1>9. c[1..n] = Bytes(s)
  BY <1>1, SMT DEF Bytes, FoldLeft, MapThenFoldSet
<1> HIDE DEF c, P, f
<1>10. a[0] = 0
  <2>1. 1..0 = {}
    OBVIOUS
  <2> QED BY <1>1, <1>8, <2>1
<1>11. ASSUME NEW i \in 1..n PROVE a[i] = a[i - 1] + s[i].bytes
  <2>1. /\ 1..i \in SUBSET (1..n) /\ 1..i # {} /\ Max(1..i) = i
        /\ (1..i) \ {i} = 1..(i - 1)
    BY <1>1, FoldPlaces
  <2>2. a[i] = c[1..i] /\ a[i - 1] = c[1..(i - 1)]
    BY <1>1
  <2> HIDE DEF a
  <2> QED BY <1>8, <2>1, <2>2
<1>12. a = [i \in 0..n |-> a[i]] /\ a[n] = c[1..n]
  BY <1>1
<1> HIDE DEF a
<1>13. \A i \in 0..n : a[i] \in Nat
  <2>1. \A i \in 1..n : a[i - 1] \in Nat => a[i] \in Nat
    BY <1>2, <1>11
  <2> HIDE DEF n
  <2> QED BY <1>1, <1>4, <1>10, <2>1, RecursionType
<1>14. a \in [0..n -> Nat]
  BY <1>12, <1>13
<1> QED BY <1>9, <1>10, <1>11, <1>12, <1>14 DEF BytesUpTo

Rows == [high : [Columns -> Nat], low : [Columns -> Nat], total : Nat, errors : Nat, points : Nat]

LEMMA NoRowType == NoRow \in Rows
BY ReportAssumption DEF NoRow, Rows

LEMMA WidenIs ==
  ASSUME NEW x \in Rows, NEW p \in Points
  PROVE  /\ Widen(x, p) \in Rows
         /\ \A c \in Columns : /\ Widen(x, p).high[c] = Larger(x.high[c], p.figures[c].high)
                               /\ Widen(x, p).low[c] = Smaller(x.low[c], p.figures[c].low)
         /\ Widen(x, p).total = x.total + p.bytes
         /\ Widen(x, p).errors = x.errors
         /\ Widen(x, p).points = x.points + 1
<1>1. \A c \in Columns : p.figures[c].high \in Nat /\ p.figures[c].low \in Nat
  BY PointType, ReportAssumption
<1>2. p.bytes \in Nat
  BY PointType
<1>3. \A c \in Columns : /\ Larger(x.high[c], p.figures[c].high) \in Nat
                         /\ Smaller(x.low[c], p.figures[c].low) \in Nat
  BY <1>1 DEF Rows, Larger, Smaller
<1> QED BY <1>2, <1>3 DEF Rows, Widen

LEMMA WidenType ==
  ASSUME NEW x \in Rows, NEW p \in Points
  PROVE  Widen(x, p) \in Rows
BY WidenIs

\* a[i] is the row of the first i points of s, before it is shown.
RowUpTo(a, s) == a[0] = NoRow /\ \A i \in 1..Len(s) : a[i] = Widen(a[i - 1], s[i])

LEMMA RowUpToExists ==
  ASSUME NEW s \in Seq(Points)
  PROVE  \E a \in [0..Len(s) -> Rows] : RowUpTo(a, s) /\ a[Len(s)] = FoldLeft(Widen, NoRow, s)
<1> DEFINE n == Len(s)
           f == [x \in Rows \X (1..n) |-> Widen(x[1], s[x[2]])]
           P(h) == h = [t \in SUBSET DOMAIN s |->
                         IF t = {} THEN NoRow ELSE Widen(h[t \ {Max(t)}], s[Max(t)])]
           c == CHOOSE h : P(h)
           a == [i \in 0..n |-> c[1..i]]
<1>1. n \in Nat /\ DOMAIN s = 1..n /\ \A i \in 1..n : s[i] \in Points
  OBVIOUS
<1>2. ASSUME NEW x \in Rows, NEW i \in 1..n PROVE Widen(x, s[i]) \in Rows
  BY <1>1, WidenType
<1>3. f \in [Rows \X (1..n) -> Rows]
  <2>1. ASSUME NEW x \in Rows \X (1..n) PROVE Widen(x[1], s[x[2]]) \in Rows
    <3>1. x[1] \in Rows /\ x[2] \in 1..n
      OBVIOUS
    <3> QED BY <1>2, <3>1
  <2> QED BY <2>1
<1>4. NoRow \in Rows
  BY NoRowType
<1>5. PICK g \in [SUBSET (1..n) -> Rows] : Fold(g, n, NoRow, f)
  <2> HIDE DEF f, n
  <2> QED BY <1>1, <1>3, <1>4, FoldExists
<1>6. P(g)
  <2>1. ASSUME NEW t \in SUBSET (1..n), t # {}
        PROVE  g[t] = Widen(g[t \ {Max(t)}], s[Max(t)])
    <3>1. Max(t) \in 1..n
      BY <1>1, <2>1, MaxInRange
    <3>2. g[t \ {Max(t)}] \in Rows
      OBVIOUS
    <3>3. <<g[t \ {Max(t)}], Max(t)>> \in Rows \X (1..n)
      BY <3>1, <3>2
    <3>4. g[t] = f[<<g[t \ {Max(t)}], Max(t)>>]
      <4> HIDE DEF f
      <4> QED BY <1>5, <2>1 DEF Fold
    <3> QED BY <3>3, <3>4
  <2>2. g[{}] = NoRow
    <3> HIDE DEF f
    <3> QED BY <1>5 DEF Fold
  <2> HIDE DEF f, n
  <2> QED BY <1>1, <2>1, <2>2
<1>7. P(c)
  <2> HIDE DEF P
  <2> QED BY <1>6
<1>8. c[{}] = NoRow /\ \A t \in SUBSET (1..n) : t # {} => c[t] = Widen(c[t \ {Max(t)}], s[Max(t)])
  <2>1. c = [t \in SUBSET DOMAIN s |-> IF t = {} THEN NoRow ELSE Widen(c[t \ {Max(t)}], s[Max(t)])]
    BY <1>7
  <2> HIDE DEF c
  <2> QED BY <1>1, <2>1
<1>9. c[1..n] = FoldLeft(Widen, NoRow, s)
  BY <1>1, SMT DEF FoldLeft, MapThenFoldSet
<1> HIDE DEF c, P, f
<1>10. a[0] = NoRow
  <2>1. 1..0 = {}
    OBVIOUS
  <2> QED BY <1>1, <1>8, <2>1
<1>11. ASSUME NEW i \in 1..n PROVE a[i] = Widen(a[i - 1], s[i])
  <2>1. /\ 1..i \in SUBSET (1..n) /\ 1..i # {} /\ Max(1..i) = i
        /\ (1..i) \ {i} = 1..(i - 1)
    BY <1>1, FoldPlaces
  <2>2. a[i] = c[1..i] /\ a[i - 1] = c[1..(i - 1)]
    BY <1>1
  <2> HIDE DEF a
  <2> QED BY <1>8, <2>1, <2>2
<1>12. a = [i \in 0..n |-> a[i]] /\ a[n] = c[1..n]
  BY <1>1
<1> HIDE DEF a
<1>13. \A i \in 0..n : a[i] \in Rows
  <2>1. \A i \in 1..n : a[i - 1] \in Rows => a[i] \in Rows
    BY <1>2, <1>11
  <2> HIDE DEF n
  <2> QED BY <1>1, <1>4, <1>10, <2>1, RecursionType
<1>14. a \in [0..n -> Rows]
  BY <1>12, <1>13
<1> QED BY <1>9, <1>10, <1>11, <1>12, <1>14 DEF RowUpTo

Figs == [count : Nat, sum : Nat, low : Nat, avg : Nat, high : Nat]

LEMMA NoStatsType == NoStats \in Figs
BY ReportAssumption DEF NoStats, Figs

LEMMA UpdateType ==
  ASSUME NEW x \in Figs, NEW p \in Points
  PROVE  Update(x, p) \in Figs
<1>1. High(p) \in Nat
  BY PointType, ReportAssumption DEF High
<1>2. (x.sum + High(p)) \div (x.count + 1) \in Nat
  BY <1>1 DEF Figs
<1> QED BY <1>1, <1>2 DEF Figs, Update, Larger, Smaller

\* a[i] is the figures of the first i points of s.
StatsUpTo(a, s) == a[0] = NoStats /\ \A i \in 1..Len(s) : a[i] = Update(a[i - 1], s[i])

LEMMA StatsUpToExists ==
  ASSUME NEW s \in Seq(Points)
  PROVE  \E a \in [0..Len(s) -> Figs] : StatsUpTo(a, s) /\ a[Len(s)] = FoldLeft(Update, NoStats, s)
<1> DEFINE n == Len(s)
           f == [x \in Figs \X (1..n) |-> Update(x[1], s[x[2]])]
           P(h) == h = [t \in SUBSET DOMAIN s |->
                         IF t = {} THEN NoStats ELSE Update(h[t \ {Max(t)}], s[Max(t)])]
           c == CHOOSE h : P(h)
           a == [i \in 0..n |-> c[1..i]]
<1>1. n \in Nat /\ DOMAIN s = 1..n /\ \A i \in 1..n : s[i] \in Points
  OBVIOUS
<1>2. ASSUME NEW x \in Figs, NEW i \in 1..n PROVE Update(x, s[i]) \in Figs
  BY <1>1, UpdateType
<1>3. f \in [Figs \X (1..n) -> Figs]
  <2>1. ASSUME NEW x \in Figs \X (1..n) PROVE Update(x[1], s[x[2]]) \in Figs
    <3>1. x[1] \in Figs /\ x[2] \in 1..n
      OBVIOUS
    <3> QED BY <1>2, <3>1
  <2> QED BY <2>1
<1>4. NoStats \in Figs
  BY NoStatsType
<1>5. PICK g \in [SUBSET (1..n) -> Figs] : Fold(g, n, NoStats, f)
  <2> HIDE DEF f, n
  <2> QED BY <1>1, <1>3, <1>4, FoldExists
<1>6. P(g)
  <2>1. ASSUME NEW t \in SUBSET (1..n), t # {}
        PROVE  g[t] = Update(g[t \ {Max(t)}], s[Max(t)])
    <3>1. Max(t) \in 1..n
      BY <1>1, <2>1, MaxInRange
    <3>2. g[t \ {Max(t)}] \in Figs
      OBVIOUS
    <3>3. <<g[t \ {Max(t)}], Max(t)>> \in Figs \X (1..n)
      BY <3>1, <3>2
    <3>4. g[t] = f[<<g[t \ {Max(t)}], Max(t)>>]
      <4> HIDE DEF f
      <4> QED BY <1>5, <2>1 DEF Fold
    <3> QED BY <3>3, <3>4
  <2>2. g[{}] = NoStats
    <3> HIDE DEF f
    <3> QED BY <1>5 DEF Fold
  <2> HIDE DEF f, n
  <2> QED BY <1>1, <2>1, <2>2
<1>7. P(c)
  <2> HIDE DEF P
  <2> QED BY <1>6
<1>8. c[{}] = NoStats /\ \A t \in SUBSET (1..n) : t # {} => c[t] = Update(c[t \ {Max(t)}], s[Max(t)])
  <2>1. c = [t \in SUBSET DOMAIN s |-> IF t = {} THEN NoStats ELSE Update(c[t \ {Max(t)}], s[Max(t)])]
    BY <1>7
  <2> HIDE DEF c
  <2> QED BY <1>1, <2>1
<1>9. c[1..n] = FoldLeft(Update, NoStats, s)
  BY <1>1, SMT DEF FoldLeft, MapThenFoldSet
<1> HIDE DEF c, P, f
<1>10. a[0] = NoStats
  <2>1. 1..0 = {}
    OBVIOUS
  <2> QED BY <1>1, <1>8, <2>1
<1>11. ASSUME NEW i \in 1..n PROVE a[i] = Update(a[i - 1], s[i])
  <2>1. /\ 1..i \in SUBSET (1..n) /\ 1..i # {} /\ Max(1..i) = i
        /\ (1..i) \ {i} = 1..(i - 1)
    BY <1>1, FoldPlaces
  <2>2. a[i] = c[1..i] /\ a[i - 1] = c[1..(i - 1)]
    BY <1>1
  <2> HIDE DEF a
  <2> QED BY <1>8, <2>1, <2>2
<1>12. a = [i \in 0..n |-> a[i]] /\ a[n] = c[1..n]
  BY <1>1
<1> HIDE DEF a
<1>13. \A i \in 0..n : a[i] \in Figs
  <2>1. \A i \in 1..n : a[i - 1] \in Figs => a[i] \in Figs
    BY <1>2, <1>11
  <2> HIDE DEF n
  <2> QED BY <1>1, <1>4, <1>10, <2>1, RecursionType
<1>14. a \in [0..n -> Figs]
  BY <1>12, <1>13
<1> QED BY <1>9, <1>10, <1>11, <1>12, <1>14 DEF StatsUpTo

-----------------------------------------------------------------------------
(* What a loop picks *)

\* t are the members of s at the places P, in their order: t[k] is s[m[k]].
Places(m, t, s, P) ==
  /\ m \in [1..Len(t) -> P]
  /\ \A p \in P : \E k \in 1..Len(t) : m[k] = p
  /\ \A j, k \in 1..Len(t) : j < k => m[j] < m[k]
  /\ \A k \in 1..Len(t) : t[k] = s[m[k]]

LEMMA PlacesAppend ==
  ASSUME NEW S, NEW s \in Seq(S), NEW t \in Seq(S), NEW P \in SUBSET (DOMAIN s), NEW m,
         Places(m, t, s, P), NEW q \in DOMAIN s, \A p \in P : p < q
  PROVE  \E l : Places(l, t \o <<s[q]>>, s, P \cup {q})
<1> DEFINE n == Len(t)
           u == t \o <<s[q]>>
           l == [k \in 1..(n + 1) |-> IF k = n + 1 THEN q ELSE m[k]]
<1>1. n \in Nat /\ u \in Seq(S) /\ Len(u) = n + 1 /\ u[n + 1] = s[q]
      /\ \A k \in 1..n : u[k] = t[k]
  OBVIOUS
<1>2. /\ \A k \in 1..n : m[k] \in P /\ t[k] = s[m[k]]
      /\ \A p \in P : \E k \in 1..n : m[k] = p
      /\ \A j, k \in 1..n : j < k => m[j] < m[k]
  BY DEF Places
<1>3. /\ l[n + 1] = q
      /\ \A k \in 1..n : l[k] = m[k] /\ k \in 1..(n + 1)
      /\ n + 1 \in 1..(n + 1)
      /\ \A k \in 1..(n + 1) : k = n + 1 \/ k \in 1..n
  BY <1>1
<1>4. l = [k \in 1..(n + 1) |-> l[k]]
  OBVIOUS
<1> HIDE DEF l, n, u
<1>5. \A k \in 1..(n + 1) : l[k] \in P \cup {q} /\ u[k] = s[l[k]]
  BY <1>1, <1>2, <1>3
<1>6. l \in [1..(n + 1) -> P \cup {q}]
  BY <1>4, <1>5
<1>7. \A p \in P \cup {q} : \E k \in 1..(n + 1) : l[k] = p
  BY <1>2, <1>3
<1>8. ASSUME NEW j \in 1..(n + 1), NEW k \in 1..(n + 1), j < k
      PROVE  l[j] < l[k]
  <2>1. j \in 1..n
    BY <1>1, <1>8
  <2>2. CASE k = n + 1
    BY <1>2, <1>3, <2>1, <2>2
  <2>3. CASE k \in 1..n
    BY <1>2, <1>3, <1>8, <2>1, <2>3
  <2> QED BY <1>3, <2>2, <2>3
<1>9. Places(l, u, s, P \cup {q})
  BY <1>1, <1>5, <1>6, <1>7, <1>8 DEF Places
<1> QED BY <1>9 DEF u

LEMMA PickPlaces ==
  ASSUME NEW S, NEW s \in Seq(S), NEW P \in SUBSET (DOMAIN s)
  PROVE  Pick(s, P) \in Seq(S) /\ \E m : Places(m, Pick(s, P), s, P)
<1> DEFINE n  == Len(s)
           ss == [i \in DOMAIN s |-> IF i \in P THEN <<s[i]>> ELSE <<>>]
<1>1. n \in Nat /\ DOMAIN s = 1..n /\ \A i \in 1..n : s[i] \in S
  OBVIOUS
<1>2. ss \in Seq(Seq(S)) /\ Len(ss) = n
  <2> DEFINE V == Seq(S)
  <2>1. \A i \in 1..n : (IF i \in P THEN <<s[i]>> ELSE <<>>) \in V
    BY <1>1
  <2> HIDE DEF V
  <2>2. ss \in [1..n -> V]
    BY <1>1, <2>1
  <2>3. ss \in Seq(V) /\ Len(ss) = n
    <3> HIDE DEF ss, n
    <3> QED BY <1>1, <2>2, FunctionIsSeq
  <2> QED BY <2>3 DEF V
<1>3. \A i \in 1..n : ss[i] = IF i \in P THEN <<s[i]>> ELSE <<>>
  BY <1>1
<1>4. Pick(s, P) = FlattenSeq(ss)
  BY DEF Pick
<1> HIDE DEF ss
<1>5. PICK F \in [0..n -> Seq(S)] : Joined(F, n, <<>>, ss) /\ F[n] = FlattenSeq(ss)
  BY <1>2, FlattenSteps
<1> HIDE DEF n
<1> DEFINE T == {i \in 0..n : \E m : Places(m, F[i], s, P \cap 1..i)}
<1>6. 0 \in T
  <2>1. F[0] = <<>> /\ P \cap 1..0 = {}
    BY <1>5 DEF Joined
  <2>2. Places(<<>>, <<>>, s, {})
    BY DEF Places
  <2> QED BY <1>1, <2>1, <2>2
<1>7. ASSUME NEW i \in 0..(n - 1), i \in T PROVE i + 1 \in T
  <2>1. /\ i \in 0..n /\ i + 1 \in 1..n /\ i + 1 \in 0..n /\ (i + 1) - 1 = i
    BY <1>1, Successor
  <2>2. F[i + 1] = F[i] \o ss[i + 1]
    BY <1>5, <2>1 DEF Joined
  <2>3. F[i] \in Seq(S)
    BY <1>5, <2>1
  <2>4. PICK m : Places(m, F[i], s, P \cap 1..i)
    BY <1>7
  <2>5. CASE i + 1 \in P
    <3>1. F[i + 1] = F[i] \o <<s[i + 1]>>
      BY <1>3, <2>1, <2>2, <2>5
    <3>2. P \cap 1..(i + 1) = (P \cap 1..i) \cup {i + 1}
      BY <1>1, <2>1, <2>5
    <3>3. /\ P \cap 1..i \in SUBSET (DOMAIN s)
          /\ \A p \in P \cap 1..i : p < i + 1
          /\ i + 1 \in DOMAIN s
      BY <1>1, <2>1
    <3> DEFINE Q == P \cap 1..i
               q == i + 1
    <3>4. \E l : Places(l, F[i] \o <<s[q]>>, s, Q \cup {q})
      <4> HIDE DEF Q, q
      <4> QED BY <2>3, <2>4, <3>3, PlacesAppend DEF Q, q
    <3> QED BY <2>1, <3>1, <3>2, <3>4
  <2>6. CASE i + 1 \notin P
    <3>1. F[i + 1] = F[i] \o <<>>
      BY <1>3, <2>1, <2>2, <2>6
    <3>2. F[i + 1] = F[i]
      BY <2>3, <3>1
    <3>3. P \cap 1..(i + 1) = P \cap 1..i
      BY <1>1, <2>1, <2>6
    <3> QED BY <2>1, <2>4, <3>2, <3>3
  <2> QED BY <2>5, <2>6
<1>8. n \in T
  <2> HIDE DEF T
  <2>1. 0..n \subseteq T
    BY <1>1, <1>6, <1>7, SetInductionTo
  <2> QED BY <1>1, <2>1
<1>9. P \cap 1..n = P
  BY <1>1
<1>10. F[n] \in Seq(S)
  BY <1>1, <1>5
<1> QED BY <1>4, <1>5, <1>8, <1>9, <1>10

Members(s, P) == {s[i] : i \in P}

LEMMA PlacesCount ==
  ASSUME NEW S, NEW s \in Seq(S), NEW t \in Seq(S), NEW P \in SUBSET (DOMAIN s), NEW m,
         Places(m, t, s, P)
  PROVE  IsFiniteSet(P) /\ Len(t) = Cardinality(P) /\ ToSet(t) = Members(s, P)
<1> DEFINE n == Len(t)
<1>1. n \in Nat /\ DOMAIN t = 1..n
  OBVIOUS
<1>2. /\ m \in [1..n -> P]
      /\ \A p \in P : \E k \in 1..n : m[k] = p
      /\ \A j, k \in 1..n : j < k => m[j] < m[k]
      /\ \A k \in 1..n : t[k] = s[m[k]]
  BY DEF Places
<1> HIDE DEF n
<1>3. \A p \in P : p \in Int
  <2>1. DOMAIN s = 1..Len(s)
    OBVIOUS
  <2> QED BY <2>1
<1>4. ASSUME NEW j \in 1..n, NEW k \in 1..n, m[j] = m[k] PROVE j = k
  <2>1. m[j] \in Int /\ m[k] \in Int
    BY <1>2, <1>3
  <2>2. ~(j < k) /\ ~(k < j)
    BY <1>2, <1>4, <2>1
  <2> QED BY <1>1, <2>2
<1>5. m \in Bijection(1..n, P)
  BY <1>2, <1>4 DEF Bijection, Injection, Surjection, IsInjective
<1>6. ExistsBijection(1..n, P)
  BY <1>5 DEF ExistsBijection
<1>7. IsFiniteSet(1..n) /\ Cardinality(1..n) = n
  BY <1>1, FS_Interval
<1>8. IsFiniteSet(P) /\ n = Cardinality(P)
  BY <1>6, <1>7, FS_Bijection
<1>9. ToSet(t) = {s[i] : i \in P}
  <2>1. ASSUME NEW k \in 1..n PROVE t[k] \in {s[i] : i \in P}
    BY <1>2
  <2>2. ASSUME NEW i \in P PROVE \E k \in 1..n : t[k] = s[i]
    BY <1>2
  <2> QED BY <1>1, <2>1, <2>2 DEF ToSet
<1> QED BY <1>8, <1>9 DEF n, Members

\* Of what was picked, some is picked again.
LEMMA PlacesTwice ==
  ASSUME NEW S, NEW s \in Seq(S), NEW t \in Seq(S), NEW u \in Seq(S),
         NEW P \in SUBSET (DOMAIN s), NEW m, Places(m, t, s, P),
         NEW Q \in SUBSET (DOMAIN t), NEW l, Places(l, u, t, Q),
         NEW R, R = Members(m, Q)
  PROVE  \E x : Places(x, u, s, R)
<1> DEFINE n == Len(u)
           x == [k \in 1..n |-> m[l[k]]]
<1>1. \A k \in Q : k \in 1..Len(t)
  OBVIOUS
<1>2. /\ \A j, k \in 1..Len(t) : j < k => m[j] < m[k]
      /\ \A k \in 1..Len(t) : t[k] = s[m[k]]
  BY DEF Places
<1>3. /\ \A k \in 1..n : l[k] \in Q
      /\ \A q \in Q : \E k \in 1..n : l[k] = q
      /\ \A j, k \in 1..n : j < k => l[j] < l[k]
      /\ \A k \in 1..n : u[k] = t[l[k]]
  BY DEF Places
<1>0. R = {m[k] : k \in Q}
  BY DEF Members
<1> HIDE DEF n
<1>4. /\ x \in [1..n -> R]
      /\ \A q \in R : \E k \in 1..n : x[k] = q
      /\ \A j, k \in 1..n : j < k => x[j] < x[k]
      /\ \A k \in 1..n : u[k] = s[x[k]]
  BY <1>0, <1>1, <1>2, <1>3
<1> HIDE DEF x
<1>5. Places(x, u, s, R)
  BY <1>4 DEF Places, n
<1> QED BY <1>5

-----------------------------------------------------------------------------
(* What sorting gives *)

LEMMA Ascending ==
  ASSUME NEW n \in Nat, NEW f \in [1..n -> Int], \A i \in 1..(n - 1) : f[i] <= f[i + 1]
  PROVE  \A j \in 1..n : \A i \in 1..j : f[i] <= f[j]
<1> DEFINE T == {j \in 0..n : \A i \in 1..j : f[i] <= f[j]}
<1>1. 0 \in T
  OBVIOUS
<1>2. ASSUME NEW j \in 0..(n - 1), j \in T PROVE j + 1 \in T
  <2>1. j + 1 \in 0..n /\ j + 1 \in 1..n /\ \A i \in 1..(j + 1) : i \in 1..j \/ i = j + 1
    OBVIOUS
  <2>2. ASSUME NEW i \in 1..j PROVE f[i] <= f[j + 1]
    <3>1. j \in 1..(n - 1) /\ j \in 1..n /\ i \in 1..n
      BY <1>2
    <3>2. f[i] <= f[j] /\ f[j] <= f[j + 1]
      BY <1>2, <3>1
    <3> QED BY <2>1, <3>1, <3>2
  <2>3. f[j + 1] <= f[j + 1]
    BY <2>1
  <2> QED BY <2>1, <2>2, <2>3
<1>3. 0..n \subseteq T
  <2> HIDE DEF T
  <2> QED BY <1>1, <1>2, SetInductionTo
<1> QED BY <1>3

InOrder(t, key) == \A j \in 1..Len(t) : \A i \in 1..j : key[t[i]] <= key[t[j]]

\* t holds the members of s, each as often.
Rearranged(t, s) ==
  \E p \in [1..Len(s) -> 1..Len(s)] :
    \A i \in 1..Len(s) : /\ t[i] = s[p[i]]
                         /\ \A j \in 1..Len(s) : p[i] = p[j] => i = j

LEMMA SortedIs ==
  ASSUME NEW S, NEW s \in Seq(S), NEW key \in [ToSet(s) -> Int], NEW t \in Sorted(s, key)
  PROVE  /\ t \in Seq(S) /\ Len(t) = Len(s) /\ ToSet(t) = ToSet(s)
         /\ InOrder(t, key) /\ Rearranged(t, s)
<1> DEFINE n == Len(s)
<1>1. n \in Nat /\ DOMAIN s = 1..n /\ \A i \in 1..n : s[i] \in S
  OBVIOUS
<1>2. PICK p \in Bijection(DOMAIN s, DOMAIN s) : t = [i \in DOMAIN s |-> s[p[i]]]
  BY DEF Sorted
<1>3. \A i \in 1..(Len(t) - 1) : key[t[i]] <= key[t[i + 1]]
  BY DEF Sorted
<1>4. /\ p \in [1..n -> 1..n]
      /\ \A i, j \in 1..n : p[i] = p[j] => i = j
      /\ \A k \in 1..n : \E i \in 1..n : p[i] = k
  BY <1>1, <1>2 DEF Bijection, Injection, Surjection, IsInjective
<1> HIDE DEF n
<1>5. \A i \in 1..n : t[i] = s[p[i]] /\ t[i] \in S
  BY <1>1, <1>2, <1>4
<1>6. t \in [1..n -> S]
  BY <1>1, <1>2, <1>4
<1>7. t \in Seq(S) /\ Len(t) = n
  BY <1>1, <1>6, FunctionIsSeq
<1>8. ToSet(t) = ToSet(s)
  <2>1. DOMAIN t = 1..n
    BY <1>6
  <2> QED BY <1>1, <1>4, <1>5, <2>1 DEF ToSet
<1> DEFINE f == [i \in 1..n |-> key[t[i]]]
<1>9. f \in [1..n -> Int]
  <2>1. \A i \in 1..n : t[i] \in ToSet(s)
    BY <1>1, <1>4, <1>5 DEF ToSet
  <2> QED BY <2>1
<1>10. \A i \in 1..(n - 1) : f[i] <= f[i + 1]
  BY <1>1, <1>3, <1>7
<1>11. \A j \in 1..n : \A i \in 1..j : f[i] <= f[j]
  <2> HIDE DEF f
  <2> QED BY <1>1, <1>9, <1>10, Ascending
<1>12. ASSUME NEW j \in 1..n, NEW i \in 1..j PROVE key[t[i]] <= key[t[j]]
  <2>1. i \in 1..n
    BY <1>1
  <2>2. f[i] = key[t[i]] /\ f[j] = key[t[j]]
    BY <2>1
  <2> HIDE DEF f
  <2> QED BY <1>11, <2>2
<1> HIDE DEF f
<1>13. InOrder(t, key)
  BY <1>7, <1>12 DEF InOrder
<1>14. Rearranged(t, s)
  BY <1>4, <1>5 DEF Rearranged, n
<1> QED BY <1>7, <1>8, <1>13, <1>14 DEF n

\* What is in s once is in t once.
Distinct(s) == \A i, j \in 1..Len(s) : s[i].created = s[j].created => i = j

LEMMA StaysDistinct ==
  ASSUME NEW S, NEW s \in Seq(S), NEW t, Len(t) = Len(s), Rearranged(t, s), Distinct(s)
  PROVE  Distinct(t)
<1> DEFINE n == Len(s)
<1>1. PICK p \in [1..n -> 1..n] :
         \A i \in 1..n : t[i] = s[p[i]] /\ \A j \in 1..n : p[i] = p[j] => i = j
  BY DEF Rearranged
<1>2. \A i, j \in 1..n : s[i].created = s[j].created => i = j
  BY DEF Distinct
<1> HIDE DEF n
<1> SUFFICES ASSUME NEW i \in 1..n, NEW j \in 1..n, t[i].created = t[j].created PROVE i = j
  BY DEF Distinct, n
<1>3. p[i] \in 1..n /\ p[j] \in 1..n /\ t[i] = s[p[i]] /\ t[j] = s[p[j]]
  BY <1>1
<1>4. p[i] = p[j]
  BY <1>2, <1>3
<1> QED BY <1>1, <1>4

-----------------------------------------------------------------------------
(* The invariant *)

Letters == ({"0"} \X Points) \cup ({"1"} \X Errors)

\* A byte of a point: points are told apart by their times.
Units(Q) == UNION {{p.created} \X (1..p.bytes) : p \in Q}

\* All points that were made.
All == {m[2] : m \in {o \in flying : o[1] = "0"}} \cup ToSet(DPS)

Ordered(s) == \A j \in 1..Len(s) : \A i \in 1..j : s[i].created <= s[j].created

Rising(s) == \A j \in 1..Len(s) : \A i \in 1..j : High(s[i]) <= High(s[j])

Written(d, e) ==
  [i \in DOMAIN d |-> Line("0", d[i])] \o [i \in DOMAIN e |-> Line("1", e[i])]

\* What is on its way belongs to the command, and each phase to its command.
FlyInv ==
  /\ IsFiniteSet(flying)
  /\ command # "list" => flying \subseteq Letters
  /\ command = "list" => flying \subseteq {"list"} \X Hosts \X Listings
  /\ phase \in {"write", "analyze", "csv"} => command = "download"
  /\ phase \in {"print", "failed", "crashed"} => command = "list"

\* Every point and every error is in one place, once.
OnceInv ==
  command # "list" =>
    /\ \A m \in flying : m[2].created < clock
    /\ \A x \in ToSet(DPS) : x.created < clock
    /\ \A x \in ToSet(ERR) : x.created < clock
    /\ \A m, o \in flying : m[2].created = o[2].created => m = o
    /\ Distinct(DPS) /\ Distinct(ERR)
    /\ \A m \in flying : \A x \in ToSet(DPS) : m[2].created # x.created
    /\ \A m \in flying : \A x \in ToSet(ERR) : m[2].created # x.created
    /\ Len(DPS) + Len(ERR) + Cardinality(flying) = clock

\* No byte is lost, and none is counted twice.
MadeInv ==
  command # "list" => IsFiniteSet(Units(All)) /\ made = Cardinality(Units(All))

RowInv ==
  /\ row \in Rows
  /\ row.points <= Len(DPS)
  /\ row.total <= made
  /\ row.points > 0 =>
       /\ command = "latency"
       /\ row.points = Len(DPS) => row.total = Cardinality(Units(ToSet(DPS)))
  /\ RowIsExact

FileInv ==
  /\ punctual /\ command = "download" =>
       phase # "collect" /\ flying = {} /\ Ordered(DPS) /\ Ordered(ERR)
  /\ command = "download" /\ phase \in {"analyze", "done", "csv"} =>
       \E d \in Seq(Points), e \in Seq(Errors) :
         file = Written(d, e) /\ (punctual => d = DPS /\ e = ERR)
  /\ phase = "csv" => csv = Pick(Parsed(file), {i \in DOMAIN file : Head(file[i]) = "0"})

PickedInv ==
  /\ picked \in [filter : Hosts \cup {NoFilter}, points : Seq(Points)]
  /\ Rising(picked.points)
  /\ AnalysisComplete

ListInv ==
  command = "list" =>
    /\ IsFiniteSet(DOMAIN testList)
    /\ \A a \in answers : a \in Hosts \X Listings
    /\ \A m \in flying : <<m[2], m[3]>> \in answers
    /\ \A a \in answers : <<"list", a[1], a[2]>> \in flying \/ DOMAIN a[2] \subseteq DOMAIN testList
    /\ \A id \in DOMAIN testList :
         \E a \in answers : id \in DOMAIN a[2] /\ a[2][id] = testList[id]
    /\ phase = "print" =>
         /\ \A j \in 1..Len(keys) : \A i \in 1..j :
              testList[keys[i]] >= testList[keys[j]] /\ (keys[i] = keys[j] => i = j)
         /\ punctual => \A a \in answers : DOMAIN a[2] \subseteq ToSet(keys)
    /\ ListMerged

IInv == TypeOK /\ FlyInv /\ OnceInv /\ MadeInv /\ RowInv /\ FileInv /\ PickedInv /\ ListInv

-----------------------------------------------------------------------------
(* Bytes *)

LEMMA UnitsAdd ==
  ASSUME NEW Q, IsFiniteSet(Units(Q)), NEW p, p.bytes \in Nat,
         \A q \in Q : q.created # p.created
  PROVE  /\ IsFiniteSet(Units(Q \cup {p}))
         /\ Cardinality(Units(Q \cup {p})) = Cardinality(Units(Q)) + p.bytes
<1> DEFINE c == p.created
           n == p.bytes
           R == {c} \X (1..n)
           U == Units(Q)
<1>1. Units(Q \cup {p}) = U \cup R
  BY DEF Units
<1>2. U \cap R = {}
  BY DEF Units
<1>0. n \in Nat
  OBVIOUS
<1> HIDE DEF n, c
<1>3. IsFiniteSet(1..n) /\ Cardinality(1..n) = n
  BY <1>0, FS_Interval
<1> DEFINE f == [k \in 1..n |-> <<c, k>>]
<1>4. f \in Bijection(1..n, R)
  <2>1. \A k \in 1..n : f[k] = <<c, k>> /\ f[k] \in R
    OBVIOUS
  <2>2. f \in [1..n -> R]
    BY <2>1
  <2> HIDE DEF f
  <2>3. \A j, k \in 1..n : f[j] = f[k] => j = k
    BY <2>1
  <2>4. ASSUME NEW x \in R PROVE \E k \in 1..n : f[k] = x
    <3>1. PICK k \in 1..n : x = <<c, k>>
      OBVIOUS
    <3> QED BY <2>1, <3>1
  <2> HIDE DEF R
  <2> QED BY <2>2, <2>3, <2>4 DEF Bijection, Injection, Surjection, IsInjective
<1>5. IsFiniteSet(R) /\ Cardinality(R) = n
  <2>1. ExistsBijection(1..n, R)
    BY <1>4 DEF ExistsBijection
  <2> HIDE DEF R
  <2> QED BY <1>3, <2>1, FS_Bijection
<1> HIDE DEF R, U
<1>6. IsFiniteSet(U)
  BY DEF U
<1>7. IsFiniteSet(U \cup R) /\ Cardinality(U \cup R) = Cardinality(U) + Cardinality(R) - Cardinality(U \cap R)
  BY <1>5, <1>6, FS_Union
<1>8. Cardinality(U \cap R) = 0
  BY <1>2, FS_EmptySet
<1>9. Cardinality(U) \in Nat
  BY <1>6, FS_CardinalityType
<1>10. Cardinality(U \cup R) = Cardinality(U) + n
  BY <1>0, <1>3, <1>5, <1>7, <1>8, <1>9
<1> QED BY <1>1, <1>7, <1>10 DEF U, n

LEMMA UnitsPart ==
  ASSUME NEW P, NEW Q, P \subseteq Q, IsFiniteSet(Units(Q))
  PROVE  IsFiniteSet(Units(P)) /\ Cardinality(Units(P)) <= Cardinality(Units(Q))
<1>1. Units(P) \in SUBSET Units(Q)
  BY DEF Units
<1> QED BY <1>1, FS_Subset

\* The bytes of points that are all different are added up.
LEMMA BytesAreUnits ==
  ASSUME NEW s \in Seq(Points), Distinct(s)
  PROVE  IsFiniteSet(Units(ToSet(s))) /\ Cardinality(Units(ToSet(s))) = Bytes(s)
<1> DEFINE n == Len(s)
           Q(i) == {s[j] : j \in 1..i}
<1>1. n \in Nat /\ DOMAIN s = 1..n /\ \A i \in 1..n : s[i] \in Points
  OBVIOUS
<1>2. PICK a \in [0..n -> Nat] : BytesUpTo(a, s) /\ a[n] = Bytes(s)
  BY BytesUpToExists
<1> DEFINE T == {i \in 0..n : IsFiniteSet(Units(Q(i))) /\ Cardinality(Units(Q(i))) = a[i]}
<1>3. 0 \in T
  <2>1. Units(Q(0)) = {} /\ a[0] = 0
    BY <1>2 DEF Units, BytesUpTo
  <2> QED BY <1>1, <2>1, FS_EmptySet
<1>4. ASSUME NEW i \in 0..(n - 1), i \in T PROVE i + 1 \in T
  <2>1. i \in 0..n /\ i + 1 \in 1..n /\ i + 1 \in 0..n /\ (i + 1) - 1 = i
    BY <1>1, Successor
  <2>2. a[i + 1] = a[i] + s[i + 1].bytes
    <3> HIDE DEF T, n
    <3>1. \A k \in 1..n : a[k] = a[k - 1] + s[k].bytes
      BY <1>2 DEF BytesUpTo, n
    <3> QED BY <2>1, <3>1
  <2>3. Q(i + 1) = Q(i) \cup {s[i + 1]}
    <3>1. 1..(i + 1) = (1..i) \cup {i + 1}
      BY <2>1
    <3> QED BY <3>1
  <2>4. s[i + 1].bytes \in Nat
    BY <1>1, <2>1, PointType
  <2>5. \A q \in Q(i) : q.created # s[i + 1].created
    <3>1. \A j \in 1..i : j \in 1..n /\ j # i + 1
      BY <1>1, <2>1
    <3> QED BY <2>1, <3>1 DEF Distinct
  <2> DEFINE p == s[i + 1]
             P == Q(i)
  <2>6. /\ IsFiniteSet(Units(P \cup {p}))
        /\ Cardinality(Units(P \cup {p})) = Cardinality(Units(P)) + p.bytes
    <3>1. IsFiniteSet(Units(P))
      BY <1>4
    <3> HIDE DEF p, P
    <3> QED BY <2>4, <2>5, <3>1, UnitsAdd DEF p, P
  <2> QED BY <1>4, <2>1, <2>2, <2>3, <2>6
<1>5. n \in T
  <2> HIDE DEF T
  <2>1. 0..n \subseteq T
    BY <1>1, <1>3, <1>4, SetInductionTo
  <2> QED BY <1>1, <2>1
<1>6. Q(n) = ToSet(s)
  BY <1>1 DEF ToSet
<1> QED BY <1>2, <1>5, <1>6

-----------------------------------------------------------------------------
(* The file *)

LEMMA LineParts ==
  ASSUME NEW k, NEW b, NEW x, NEW l, l = <<k, b, x>>
  PROVE  Head(l) = k /\ Head(Tail(l)) = b /\ l[3] = x
<1> DEFINE V == {k, b, x}
<1>1. l \in Seq(V) /\ Len(l) = 3 /\ l # <<>> /\ l[1] = k /\ l[2] = b /\ l[3] = x
  OBVIOUS
<1> HIDE DEF V
<1>2. Tail(l) \in Seq(V) /\ Len(Tail(l)) = 2 /\ Tail(l)[1] = l[2]
  BY <1>1
<1> QED BY <1>1, <1>2

LEMMA WrittenLines ==
  ASSUME NEW d \in Seq(Points), NEW e \in Seq(Errors), NEW w, w = Written(d, e)
  PROVE  /\ DOMAIN w = 1..(Len(d) + Len(e)) /\ Len(w) = Len(d) + Len(e)
         /\ \A i \in 1..Len(d) : w[i] = <<"0", "brace", d[i]>>
         /\ \A i \in DOMAIN w : i \notin 1..Len(d) =>
              \E j \in 1..Len(e) : i = Len(d) + j /\ w[i] = <<"1", "brace", e[j]>>
         /\ \A i \in DOMAIN w : IsPointLine(w[i]) <=> i \in 1..Len(d)
         /\ \A i \in DOMAIN w : Head(w[i]) = "0" <=> i \in 1..Len(d)
         /\ \A i \in DOMAIN w : ~IsErrorLine(w[i])
         /\ Parsed(w) \in Seq(Points \cup Errors) /\ DOMAIN Parsed(w) = DOMAIN w
         /\ \A i \in DOMAIN w : Parsed(w)[i] = w[i][3]
<1> DEFINE n == Len(d)
           k == Len(e)
           V == {"0", "1"} \X {"brace"} \X (Points \cup Errors)
           x == [i \in DOMAIN d |-> Line("0", d[i])]
           y == [i \in DOMAIN e |-> Line("1", e[i])]
<1>1. /\ n \in Nat /\ DOMAIN d = 1..n /\ \A i \in 1..n : d[i] \in Points
      /\ k \in Nat /\ DOMAIN e = 1..k /\ \A i \in 1..k : e[i] \in Errors
  OBVIOUS
<1>2. x \in [1..n -> V] /\ y \in [1..k -> V]
  BY <1>1 DEF Line
<1>3. /\ \A i \in 1..n : x[i] = <<"0", "brace", d[i]>>
      /\ \A i \in 1..k : y[i] = <<"1", "brace", e[i]>>
  BY <1>1 DEF Line
<1>4. w = x \o y
  BY DEF Written
<1>5. x \in Seq(V) /\ Len(x) = n /\ y \in Seq(V) /\ Len(y) = k
  <2> HIDE DEF V, x, y, n, k
  <2> QED BY <1>1, <1>2, FunctionIsSeq
<1>6. /\ DOMAIN w = 1..(n + k) /\ Len(w) = n + k
      /\ \A i \in 1..n : w[i] = x[i]
      /\ \A i \in 1..k : w[n + i] = y[i]
  <2> HIDE DEF V, x, y, n, k
  <2>1. w \in Seq(V) /\ Len(w) = Len(x) + Len(y)
    BY <1>4, <1>5, ConcatProperties
  <2>2. DOMAIN w = 1..(n + k) /\ Len(w) = n + k
    BY <1>5, <2>1
  <2>3. ASSUME NEW i \in 1..n PROVE w[i] = x[i]
    BY <1>1, <1>4, <1>5, <2>3
  <2>4. ASSUME NEW i \in 1..k PROVE w[n + i] = y[i]
    <3>1. n + i \in 1..(n + k) /\ ~(n + i <= n) /\ (n + i) - n = i
      BY <1>1
    <3> DEFINE p == n + i
    <3>2. p \in 1..(Len(x) + Len(y)) /\ ~(p <= Len(x)) /\ p - Len(x) = i
      BY <1>5, <3>1
    <3> HIDE DEF p
    <3>3. (x \o y)[p] = IF p <= Len(x) THEN x[p] ELSE y[p - Len(x)]
      BY <1>5, <3>2, ConcatProperties
    <3>4. w[p] = y[i]
      BY <1>4, <3>2, <3>3
    <3> QED BY <3>4 DEF p
  <2> QED BY <2>2, <2>3, <2>4
<1> HIDE DEF x, y, V, n, k
<1>7. \A i \in 1..n : w[i] = <<"0", "brace", d[i]>>
  BY <1>3, <1>6
<1>8. \A i \in 1..k : w[n + i] = <<"1", "brace", e[i]>>
  BY <1>3, <1>6
<1>9. \A i \in 1..(n + k) : i \in 1..n \/ (i \notin 1..n /\ i - n \in 1..k /\ i = n + (i - n))
  BY <1>1
<1>10. ASSUME NEW i \in 1..(n + k)
       PROVE  /\ IsPointLine(w[i]) <=> i \in 1..n
              /\ Head(w[i]) = "0" <=> i \in 1..n
              /\ ~IsErrorLine(w[i])
              /\ w[i][3] \in Points \cup Errors
  <2>1. CASE i \in 1..n
    <3>1. w[i] = <<"0", "brace", d[i]>>
      BY <1>7, <2>1
    <3>2. Head(w[i]) = "0" /\ Head(Tail(w[i])) = "brace" /\ w[i][3] = d[i]
      BY <3>1, LineParts
    <3> QED BY <1>1, <2>1, <3>2 DEF IsPointLine, IsErrorLine
  <2>2. CASE i \notin 1..n /\ i - n \in 1..k
    <3> DEFINE j == i - n
    <3>1. w[i] = <<"1", "brace", e[j]>>
      BY <1>8, <1>9, <2>2
    <3>2. Head(w[i]) = "1" /\ Head(Tail(w[i])) = "brace" /\ w[i][3] = e[j]
      <4> HIDE DEF j
      <4> QED BY <3>1, LineParts
    <3>3. e[j] \in Errors
      BY <1>1, <2>2
    <3> HIDE DEF j
    <3> QED BY <2>2, <3>2, <3>3 DEF IsPointLine, IsErrorLine
  <2> QED BY <1>9, <2>1, <2>2
<1>11. /\ Parsed(w) \in Seq(Points \cup Errors) /\ DOMAIN Parsed(w) = DOMAIN w
       /\ \A i \in DOMAIN w : Parsed(w)[i] = w[i][3]
  <2> DEFINE q == Parsed(w)
             W == Points \cup Errors
             l == n + k
  <2>1. l \in Nat
    BY <1>1
  <2>2. DOMAIN w = 1..l /\ \A i \in 1..l : w[i][3] \in W
    BY <1>6, <1>10
  <2>3. q = [i \in 1..l |-> w[i][3]]
    BY <2>2 DEF Parsed
  <2> HIDE DEF q, W, l
  <2>4. q \in [1..l -> W] /\ \A i \in 1..l : q[i] = w[i][3]
    BY <2>2, <2>3
  <2>5. q \in Seq(W)
    BY <2>1, <2>4, FunctionIsSeq
  <2>6. DOMAIN q = 1..l
    BY <2>4
  <2> QED BY <2>2, <2>4, <2>5, <2>6 DEF q, W
<1>12. ASSUME NEW i \in 1..(n + k), i \notin 1..n
       PROVE  \E j \in 1..k : i = n + j /\ w[i] = <<"1", "brace", e[j]>>
  BY <1>8, <1>9, <1>12
<1> QED BY <1>6, <1>7, <1>10, <1>11, <1>12 DEF n, k

\* What the analysis and the CSV command read are the points that were
\* written, in their order, and the analysis finds no error.
LEMMA WhatIsRead ==
  ASSUME NEW d \in Seq(Points), NEW e \in Seq(Errors), NEW w, w = Written(d, e)
  PROVE  /\ ReadPoints(w) \in Seq(Points) /\ ReadErrors(w) = <<>>
         /\ \E m : Places(m, ReadPoints(w), Parsed(w), 1..Len(d))
         /\ \E m : Places(m, ReadPoints(w), d, 1..Len(d))
         /\ Pick(Parsed(w), {i \in DOMAIN w : Head(w[i]) = "0"}) = ReadPoints(w)
<1> DEFINE n == Len(d)
           q == Parsed(w)
           r == ReadPoints(w)
           A == {i \in DOMAIN w : IsPointLine(w[i])}
           B == {i \in DOMAIN w : IsErrorLine(w[i])}
           C == {i \in DOMAIN w : Head(w[i]) = "0"}
           W == Points \cup Errors
<1>1. /\ n \in Nat /\ DOMAIN d = 1..n /\ \A i \in 1..n : d[i] \in Points
      /\ Len(e) \in Nat
  OBVIOUS
<1>2. /\ DOMAIN w = 1..(Len(d) + Len(e))
      /\ \A i \in 1..n : w[i] = <<"0", "brace", d[i]>>
      /\ \A i \in DOMAIN w : IsPointLine(w[i]) <=> i \in 1..n
      /\ \A i \in DOMAIN w : Head(w[i]) = "0" <=> i \in 1..n
      /\ \A i \in DOMAIN w : ~IsErrorLine(w[i])
      /\ q \in Seq(W) /\ DOMAIN q = DOMAIN w
      /\ \A i \in DOMAIN w : q[i] = w[i][3]
  BY WrittenLines
<1>3. 1..n \subseteq DOMAIN w
  BY <1>1, <1>2
<1>4. A = 1..n /\ B = {} /\ C = 1..n
  BY <1>2, <1>3
<1>5. r = Pick(q, 1..n) /\ ReadErrors(w) = Pick(q, {}) /\ Pick(q, C) = r
  BY <1>4 DEF ReadPoints, ReadErrors
<1> HIDE DEF r, q, A, B, C, W, n
<1>6. r \in Seq(W) /\ \E m : Places(m, r, q, 1..n)
  <2>1. 1..n \in SUBSET (DOMAIN q)
    BY <1>2, <1>3
  <2> QED BY <1>2, <1>5, <2>1, PickPlaces
<1>7. PICK m : Places(m, r, q, 1..n)
  BY <1>6
<1>8. \A i \in 1..n : q[i] = d[i]
  BY <1>2, <1>3
<1>9. Len(r) \in Nat /\ \A i \in 1..Len(r) : m[i] \in 1..n /\ r[i] = q[m[i]]
  <2>1. Len(r) \in Nat
    BY <1>6
  <2>2. \A i \in 1..Len(r) : m[i] \in 1..n /\ r[i] = q[m[i]]
    BY <1>7 DEF Places
  <2> QED BY <2>1, <2>2
<1>10. \A i \in 1..Len(r) : r[i] = d[m[i]] /\ r[i] \in Points
  BY <1>1, <1>8, <1>9
<1>11. r \in Seq(Points)
  <2>1. r = [i \in 1..Len(r) |-> r[i]]
    BY <1>6
  <2>2. r \in [1..Len(r) -> Points]
    BY <1>10, <2>1
  <2> QED BY <1>9, <2>2, FunctionIsSeq
<1>12. Places(m, r, d, 1..n)
  BY <1>7, <1>10 DEF Places
<1>13. ReadErrors(w) = <<>>
  <2> DEFINE z == Pick(q, {})
  <2>1. {} \in SUBSET (DOMAIN q)
    OBVIOUS
  <2>2. z \in Seq(W) /\ \E l : Places(l, z, q, {})
    BY <1>2, <2>1, PickPlaces
  <2> HIDE DEF z
  <2>3. Len(z) \in Nat /\ \A i \in 1..Len(z) : FALSE
    BY <2>2 DEF Places
  <2>4. Len(z) = 0
    BY <2>3
  <2>5. z = <<>>
    BY <2>2, <2>4
  <2> QED BY <1>5, <2>5 DEF z
<1> QED BY <1>5, <1>7, <1>11, <1>12, <1>13 DEF r, q, n, C

-----------------------------------------------------------------------------
(* Rows *)

LEMMA ShownUp ==
  ASSUME NEW c, NEW u \in Nat, NEW v \in Nat, u <= v
  PROVE  Shown(c, u) \in Nat /\ Shown(c, u) <= Shown(c, v)
<1>1. u \div 1000 \in Nat /\ u \div 1000 <= v \div 1000
  OBVIOUS
<1> QED BY <1>1 DEF Shown

\* The figures of x are those of the first i points of s.
CoversAt(x, s, i, c) ==
  /\ \A j \in 1..i : /\ x.high[c] >= s[j].figures[c].high
                     /\ x.low[c] <= s[j].figures[c].low
  /\ i = 0 => x.high[c] = 0 /\ x.low[c] = MaxInt64
  /\ i > 0 => /\ \E j \in 1..i : x.high[c] = s[j].figures[c].high
              /\ \E j \in 1..i : x.low[c] = s[j].figures[c].low

Covers(x, s, i) == \A c \in Columns : CoversAt(x, s, i, c)

LEMMA CoversMore ==
  ASSUME NEW s \in Seq(Points), NEW i \in Nat, NEW k \in 1..Len(s), k = i + 1,
         NEW x \in Rows, Covers(x, s, i)
  PROVE  Covers(Widen(x, s[k]), s, k)
<1> DEFINE p == s[k]
           y == Widen(x, p)
<1>1. p \in Points
  OBVIOUS
<1> SUFFICES ASSUME NEW c \in Columns PROVE CoversAt(y, s, k, c)
  BY DEF Covers
<1> DEFINE h == p.figures[c].high
           l == p.figures[c].low
<1>2. h \in 0..MaxInt64 /\ l \in 0..MaxInt64 /\ MaxInt64 \in Nat
  BY <1>1, PointType, ReportAssumption
<1>3. y.high[c] = Larger(x.high[c], h) /\ y.low[c] = Smaller(x.low[c], l)
  <2> HIDE DEF p
  <2> QED BY <1>1, WidenIs
<1>4. x.high[c] \in Nat /\ x.low[c] \in Nat
  BY DEF Rows
<1>5. CoversAt(x, s, i, c)
  BY DEF Covers
<1>6. \A j \in 1..k : j \in 1..i \/ j = k
  OBVIOUS
<1> HIDE DEF y
<1> DEFINE H(j) == s[j].figures[c].high
           L(j) == s[j].figures[c].low
<1>7. H(k) = h /\ L(k) = l
  OBVIOUS
<1>8. \A j \in 1..i : H(j) \in Nat /\ L(j) \in Nat
  <2> SUFFICES ASSUME NEW j \in 1..i PROVE H(j) \in Nat /\ L(j) \in Nat
    OBVIOUS
  <2>1. s[j] \in Points
    OBVIOUS
  <2> QED BY <2>1, PointType, ReportAssumption
<1>9. /\ \A j \in 1..i : x.high[c] >= H(j) /\ x.low[c] <= L(j)
      /\ i = 0 => x.high[c] = 0 /\ x.low[c] = MaxInt64
      /\ i > 0 => (\E j \in 1..i : x.high[c] = H(j)) /\ (\E j \in 1..i : x.low[c] = L(j))
  BY <1>5 DEF CoversAt
<1> HIDE DEF h, l, p, H, L
<1>10. \A j \in 1..k : y.high[c] >= H(j) /\ y.low[c] <= L(j)
  <2> SUFFICES ASSUME NEW j \in 1..k PROVE y.high[c] >= H(j) /\ y.low[c] <= L(j)
    OBVIOUS
  <2>1. CASE j \in 1..i
    <3>1. H(j) \in Nat /\ L(j) \in Nat /\ x.high[c] >= H(j) /\ x.low[c] <= L(j)
      BY <1>8, <1>9, <2>1
    <3>2. y.high[c] >= x.high[c] /\ y.low[c] <= x.low[c] /\ y.high[c] \in Nat /\ y.low[c] \in Nat
      BY <1>2, <1>3, <1>4 DEF Larger, Smaller
    <3> QED BY <1>4, <3>1, <3>2
  <2>2. CASE j = k
    BY <1>2, <1>3, <1>4, <1>7, <2>2 DEF Larger, Smaller
  <2> QED BY <1>6, <2>1, <2>2
<1>11. k \in 1..k /\ k > 0 /\ \A j \in 1..i : j \in 1..k
  OBVIOUS
<1>12. \E j \in 1..k : y.high[c] = H(j)
  <2>1. CASE y.high[c] = h
    BY <1>7, <1>11, <2>1
  <2>2. CASE y.high[c] = x.high[c] /\ i > 0
    BY <1>9, <1>11, <2>2
  <2>3. y.high[c] = h \/ (y.high[c] = x.high[c] /\ i > 0)
    BY <1>2, <1>3, <1>4, <1>9 DEF Larger
  <2> QED BY <2>1, <2>2, <2>3
<1>13. \E j \in 1..k : y.low[c] = L(j)
  <2>1. CASE y.low[c] = l
    BY <1>7, <1>11, <2>1
  <2>2. CASE y.low[c] = x.low[c] /\ i > 0
    BY <1>9, <1>11, <2>2
  <2>3. y.low[c] = l \/ (y.low[c] = x.low[c] /\ i > 0)
    BY <1>2, <1>3, <1>4, <1>9 DEF Smaller
  <2> QED BY <2>1, <2>2, <2>3
<1>14. k # 0
  OBVIOUS
<1> QED BY <1>10, <1>12, <1>13, <1>14 DEF CoversAt, H, L, y

LEMMA FoldedRow ==
  ASSUME NEW s \in Seq(Points), NEW x, x = FoldLeft(Widen, NoRow, s)
  PROVE  x \in Rows /\ x.points = Len(s) /\ x.total = Bytes(s) /\ Covers(x, s, Len(s))
<1> DEFINE n == Len(s)
<1>1. n \in Nat /\ \A i \in 1..n : s[i] \in Points
  OBVIOUS
<1>2. PICK a \in [0..n -> Rows] : RowUpTo(a, s) /\ a[n] = x
  BY RowUpToExists
<1>3. PICK b \in [0..n -> Nat] : BytesUpTo(b, s) /\ b[n] = Bytes(s)
  BY BytesUpToExists
<1>4. /\ a[0] = NoRow /\ b[0] = 0
      /\ \A k \in 1..n : a[k] = Widen(a[k - 1], s[k]) /\ b[k] = b[k - 1] + s[k].bytes
  BY <1>2, <1>3 DEF RowUpTo, BytesUpTo
<1> HIDE DEF n
<1> DEFINE T == {i \in 0..n : a[i].points = i /\ a[i].total = b[i] /\ Covers(a[i], s, i)}
<1>5. 0 \in T
  <2>1. NoRow.points = 0 /\ NoRow.total = 0
    BY DEF NoRow
  <2>2. \A c \in Columns : NoRow.high[c] = 0 /\ NoRow.low[c] = MaxInt64
    BY DEF NoRow
  <2>3. Covers(NoRow, s, 0)
    BY <2>2 DEF Covers, CoversAt
  <2> QED BY <1>1, <1>4, <2>1, <2>3
<1>6. ASSUME NEW i \in 0..(n - 1), i \in T PROVE i + 1 \in T
  <2> DEFINE k == i + 1
  <2>1. i \in 0..n /\ k \in 1..n /\ k \in 0..n /\ k - 1 = i /\ i \in Nat
    BY <1>1, Successor
  <2>2. k = i + 1
    OBVIOUS
  <2> HIDE DEF k
  <2>3. a[k] = Widen(a[i], s[k]) /\ b[k] = b[i] + s[k].bytes
    BY <1>4, <2>1
  <2>4. a[i] \in Rows /\ s[k] \in Points
    BY <1>1, <1>2, <2>1
  <2>5. a[k].points = k /\ a[k].total = b[k]
    BY <1>6, <2>2, <2>3, <2>4, WidenIs
  <2>6. Covers(a[k], s, k)
    <3>1. Covers(a[i], s, i) /\ k \in 1..Len(s)
      BY <1>6, <2>1 DEF n
    <3> DEFINE y == a[i]
    <3>2. y \in Rows
      BY <2>4
    <3> HIDE DEF y
    <3>3. Covers(y, s, i)
      BY <3>1 DEF y
    <3>4. Covers(Widen(y, s[k]), s, k)
      BY <2>1, <2>2, <3>1, <3>2, <3>3, CoversMore
    <3> QED BY <2>3, <3>4 DEF y
  <2> QED BY <2>1, <2>2, <2>5, <2>6
<1>7. n \in T
  <2> HIDE DEF T
  <2>1. 0..n \subseteq T
    BY <1>1, <1>5, <1>6, SetInductionTo
  <2> QED BY <1>1, <2>1
<1>8. a[n] \in Rows
  BY <1>1, <1>2
<1> QED BY <1>2, <1>3, <1>7, <1>8 DEF n

LEMMA RowOfIs ==
  ASSUME NEW dps \in Seq(Points), Len(dps) > 0, NEW errs, Len(errs) \in Nat,
         NEW r, r = RowOf(dps, errs)
  PROVE  /\ r \in Rows /\ r.points = Len(dps) /\ r.total = Bytes(dps)
         /\ \A c \in Columns :
              /\ \A i \in 1..Len(dps) : /\ r.high[c] >= Shown(c, dps[i].figures[c].high)
                                        /\ r.low[c] <= Shown(c, dps[i].figures[c].low)
              /\ \E i \in 1..Len(dps) : r.high[c] = Shown(c, dps[i].figures[c].high)
              /\ \E i \in 1..Len(dps) : r.low[c] = Shown(c, dps[i].figures[c].low)
<1> DEFINE x == FoldLeft(Widen, NoRow, dps)
           n == Len(dps)
<1>1. n \in Nat /\ n > 0
  OBVIOUS
<1>2. x \in Rows /\ x.points = n /\ x.total = Bytes(dps) /\ Covers(x, dps, n)
  <2> HIDE DEF x
  <2>1. x = FoldLeft(Widen, NoRow, dps)
    BY DEF x
  <2> QED BY <2>1, FoldedRow
<1>3. r = [high   |-> [c \in Columns |-> Shown(c, x.high[c])],
           low    |-> [c \in Columns |-> Shown(c, x.low[c])],
           total  |-> x.total,
           errors |-> Len(errs),
           points |-> x.points]
  BY DEF RowOf
<1> HIDE DEF x
<1>4. /\ \A c \in Columns : r.high[c] = Shown(c, x.high[c]) /\ r.low[c] = Shown(c, x.low[c])
      /\ r.total = x.total /\ r.points = x.points
  BY <1>3
<1>5. \A c \in Columns : x.high[c] \in Nat /\ x.low[c] \in Nat
  BY <1>2 DEF Rows
<1>6. r \in Rows
  <2>1. \A c \in Columns : Shown(c, x.high[c]) \in Nat /\ Shown(c, x.low[c]) \in Nat
    BY <1>5, ShownUp
  <2>2. x.total \in Nat /\ x.points \in Nat
    BY <1>2 DEF Rows
  <2> QED BY <1>3, <2>1, <2>2 DEF Rows
<1> HIDE DEF n
<1>7. ASSUME NEW c \in Columns
      PROVE  /\ \A i \in 1..n : /\ r.high[c] >= Shown(c, dps[i].figures[c].high)
                                /\ r.low[c] <= Shown(c, dps[i].figures[c].low)
             /\ \E i \in 1..n : r.high[c] = Shown(c, dps[i].figures[c].high)
             /\ \E i \in 1..n : r.low[c] = Shown(c, dps[i].figures[c].low)
  <2>1. CoversAt(x, dps, n, c)
    BY <1>2 DEF Covers
  <2> DEFINE H(i) == dps[i].figures[c].high
             L(i) == dps[i].figures[c].low
  <2>2. /\ \A i \in 1..n : x.high[c] >= H(i) /\ x.low[c] <= L(i)
        /\ \E i \in 1..n : x.high[c] = H(i)
        /\ \E i \in 1..n : x.low[c] = L(i)
    BY <1>1, <2>1 DEF CoversAt
  <2>3. ASSUME NEW i \in 1..n PROVE H(i) \in Nat /\ L(i) \in Nat
    <3>1. dps[i] \in Points
      BY DEF n
    <3> QED BY <3>1, PointType, ReportAssumption
  <2> HIDE DEF H, L
  <2>4. ASSUME NEW i \in 1..n
        PROVE  Shown(c, x.high[c]) >= Shown(c, H(i)) /\ Shown(c, x.low[c]) <= Shown(c, L(i))
    <3>1. H(i) \in Nat /\ L(i) \in Nat /\ x.high[c] \in Nat /\ x.low[c] \in Nat
      BY <1>5, <2>3
    <3>2. H(i) <= x.high[c] /\ x.low[c] <= L(i)
      BY <2>2, <3>1
    <3>3. Shown(c, H(i)) \in Nat /\ Shown(c, x.high[c]) \in Nat
      BY <3>1, ShownUp
    <3>4. Shown(c, H(i)) <= Shown(c, x.high[c])
      BY <3>1, <3>2, ShownUp
    <3>5. Shown(c, x.low[c]) <= Shown(c, L(i))
      BY <3>1, <3>2, ShownUp
    <3> QED BY <3>3, <3>4, <3>5
  <2>5. \A i \in 1..n : r.high[c] >= Shown(c, H(i)) /\ r.low[c] <= Shown(c, L(i))
    BY <1>4, <2>4
  <2>6. \E i \in 1..n : r.high[c] = Shown(c, H(i))
    BY <1>4, <2>2
  <2>7. \E i \in 1..n : r.low[c] = Shown(c, L(i))
    BY <1>4, <2>2
  <2> QED BY <2>5, <2>6, <2>7 DEF H, L
<1>8. r.points = n /\ r.total = Bytes(dps)
  BY <1>2, <1>4
<1> QED BY <1>6, <1>7, <1>8 DEF n

-----------------------------------------------------------------------------
(* Percentiles *)

LEMMA HighType ==
  ASSUME NEW p \in Points
  PROVE  High(p) \in Nat /\ High(p) <= MaxInt64
BY PointType, ReportAssumption DEF High

LEMMA CutFacts ==
  ASSUME NEW n \in Nat, n > 0
  PROVE  /\ \A p \in Percentiles : Cut(p, n) \in 0..n
         /\ \A p \in {50, 90, 99} : Cut(p, n) < n
         /\ n - Cut(99, n) = (n + 99) \div 100
         /\ \A p, q \in Percentiles : p < q /\ Cut(p, n) < n => Cut(p, n) <= Cut(q, n)
<1>1. /\ n \in Early[50] => n > 57
      /\ n \in Early[90] => n > 57
  BY ReportAssumption
<1>2. Cut(10, n) = (n * 10 + 99) \div 100 /\ Cut(99, n) = (n * 99) \div 100
  BY DEF Cut
<1>3. /\ Cut(50, n) = (n * 50) \div 100 \/ (n > 57 /\ Cut(50, n) = (n * 50) \div 100 - 1)
      /\ Cut(90, n) = (n * 90) \div 100 \/ (n > 57 /\ Cut(90, n) = (n * 90) \div 100 - 1)
  BY <1>1 DEF Cut
<1>4. /\ (n * 10 + 99) \div 100 \in 0..n
      /\ (n * 50) \div 100 \in 0..(n - 1)
      /\ (n * 90) \div 100 \in 0..(n - 1)
      /\ (n * 99) \div 100 \in 0..(n - 1)
      /\ n - (n * 99) \div 100 = (n + 99) \div 100
      /\ (n * 50) \div 100 <= (n * 90) \div 100
      /\ (n * 90) \div 100 <= (n * 99) \div 100
  OBVIOUS
<1>5. n > 1 => (n * 10 + 99) \div 100 <= (n * 50) \div 100
  OBVIOUS
<1>6. n > 57 => /\ (n * 10 + 99) \div 100 <= (n * 50) \div 100 - 1
                /\ (n * 50) \div 100 <= (n * 90) \div 100 - 1
                /\ (n * 50) \div 100 - 1 >= 0
  OBVIOUS
<1>7. n = 1 => (n * 10 + 99) \div 100 = n
  OBVIOUS
<1>8. /\ Cut(10, n) \in 0..n /\ Cut(50, n) \in 0..(n - 1)
      /\ Cut(90, n) \in 0..(n - 1) /\ Cut(99, n) \in 0..(n - 1)
      /\ n - Cut(99, n) = (n + 99) \div 100
  BY <1>2, <1>3, <1>4, <1>6
<1>9. Cut(50, n) <= Cut(90, n) /\ Cut(90, n) <= Cut(99, n) /\ Cut(50, n) <= Cut(99, n)
  BY <1>2, <1>3, <1>4, <1>6
<1>10. Cut(10, n) < n => Cut(10, n) <= Cut(50, n)
  BY <1>2, <1>3, <1>5, <1>6, <1>7
<1> DEFINE c == [p \in Percentiles |-> Cut(p, n)]
<1>11. \A p \in Percentiles : c[p] = Cut(p, n)
  OBVIOUS
<1>12. Percentiles = {10, 50, 90, 99}
  BY DEF Percentiles
<1>13. /\ c[10] = Cut(10, n) /\ c[50] = Cut(50, n)
       /\ c[90] = Cut(90, n) /\ c[99] = Cut(99, n)
  BY <1>12
<1> HIDE DEF c
<1>14. \A p \in Percentiles : c[p] \in 0..n
  BY <1>8, <1>12, <1>13
<1>15. \A p \in {50, 90, 99} : c[p] < n
  BY <1>8, <1>13
<1>16. \A p, q \in Percentiles : p < q /\ c[p] < n => c[p] <= c[q]
  BY <1>8, <1>9, <1>10, <1>12, <1>13
<1> QED BY <1>8, <1>11, <1>12, <1>14, <1>15, <1>16

\* g[i] is the sum of the highs of the first i points.
Sums(g, s) == g[0] = 0 /\ \A i \in 1..Len(s) : g[i] = g[i - 1] + High(s[i])

LEMMA SumsExist ==
  ASSUME NEW s \in Seq(Points)
  PROVE  \E g \in [0..Len(s) -> Nat] : Sums(g, s)
<1> DEFINE n == Len(s)
           f == [x \in Nat \X (1..n) |-> x[1] + High(s[x[2]])]
<1>1. n \in Nat /\ \A i \in 1..n : High(s[i]) \in Nat
  <2>1. \A i \in 1..n : s[i] \in Points
    OBVIOUS
  <2> QED BY <2>1, HighType
<1>2. f \in [Nat \X (1..n) -> Nat]
  <2>1. ASSUME NEW x \in Nat \X (1..n) PROVE x[1] + High(s[x[2]]) \in Nat
    <3>1. x[1] \in Nat /\ x[2] \in 1..n
      OBVIOUS
    <3> QED BY <1>1, <3>1
  <2> QED BY <2>1
<1>3. 0 \in Nat
  BY SMT
<1>4. PICK g \in [0..n -> Nat] : Recursion(g, n, 0, f)
  <2> HIDE DEF f, n
  <2> QED BY <1>1, <1>2, <1>3, RecursionExists
<1>5. g[0] = 0
  BY <1>4 DEF Recursion
<1>6. ASSUME NEW i \in 1..n PROVE g[i] = g[i - 1] + High(s[i])
  <2>1. i - 1 \in 0..n
    BY <1>1
  <2>2. g[i - 1] \in Nat
    BY <1>4, <2>1
  <2>3. g[i] = f[<<g[i - 1], i>>]
    <3> HIDE DEF f, n
    <3> QED BY <1>4 DEF Recursion
  <2>4. <<g[i - 1], i>> \in Nat \X (1..n)
    BY <2>2
  <2> QED BY <2>3, <2>4
<1> QED BY <1>4, <1>5, <1>6 DEF Sums

LEMMA Times1 ==
  ASSUME NEW a \in Nat, NEW x \in Nat, NEW y \in Nat, x <= y
  PROVE  a * x <= a * y /\ (a + 1) * x = a * x + x
OBVIOUS

\* What lies between the places i and j is no more than the last, and no less
\* than the first, as often.
SumIs(g, s, i, j) ==
  /\ g[j] - g[i] \in Nat
  /\ i = j => g[j] - g[i] = 0
  /\ i < j => /\ g[j] - g[i] <= (j - i) * High(s[j])
              /\ (j - i) * High(s[i + 1]) <= g[j] - g[i]

LEMMA SumBounds ==
  ASSUME NEW s \in Seq(Points), Rising(s), NEW g \in [0..Len(s) -> Nat], Sums(g, s),
         NEW i \in 0..Len(s)
  PROVE  \A j \in i..Len(s) : SumIs(g, s, i, j)
<1> DEFINE n == Len(s)
           T == {j \in 0..n : j >= i => SumIs(g, s, i, j)}
<1>1. /\ n \in Nat /\ i \in 0..n /\ i \in Nat
      /\ \A j \in 1..n : High(s[j]) \in Nat
      /\ \A j \in 1..n : \A k \in 1..j : High(s[k]) <= High(s[j])
  <2>1. \A j \in 1..n : s[j] \in Points
    OBVIOUS
  <2> QED BY <2>1, HighType DEF Rising
<1>2. \A j \in 1..n : g[j] = g[j - 1] + High(s[j])
  BY DEF Sums
<1>3. \A j \in 0..n : g[j] \in Nat
  OBVIOUS
<1> HIDE DEF n
<1>4. SumIs(g, s, i, i)
  BY <1>1, <1>3 DEF SumIs
<1>5. 0 \in T
  BY <1>1, <1>4
<1>6. ASSUME NEW j \in 0..(n - 1), j \in T PROVE j + 1 \in T
  <2> DEFINE k == j + 1
  <2>1. j \in 0..n /\ k \in 1..n /\ k \in 0..n /\ k - 1 = j /\ j \in Nat
    BY <1>1, Successor
  <2>2. k = j + 1
    OBVIOUS
  <2> HIDE DEF k
  <2>3. CASE k < i
    BY <1>1, <2>1, <2>2, <2>3
  <2>4. CASE k = i
    BY <1>4, <2>1, <2>2, <2>4
  <2>5. CASE j >= i
    <3> DEFINE u == High(s[k])
               v == High(s[i + 1])
               w == High(s[j])
               d == g[j] - g[i]
    <3>1. i + 1 \in 1..n /\ i + 1 \in 1..k
      BY <1>1, <2>1, <2>2, <2>5
    <3>2. u \in Nat /\ v \in Nat /\ v <= u
      BY <1>1, <2>1, <3>1
    <3>3. g[k] = g[j] + u /\ g[k] \in Nat /\ g[j] \in Nat /\ g[i] \in Nat
      BY <1>1, <1>2, <1>3, <2>1
    <3>4. SumIs(g, s, i, j)
      BY <1>6, <2>5
    <3>5. j - i \in Nat /\ k - i = (j - i) + 1 /\ k > i /\ i # k
      BY <1>1, <2>1, <2>2, <2>5
    <3>6. d \in Nat /\ d <= (j - i) * u /\ (j - i) * v <= d
      <4>1. CASE i = j
        <5>1. d = 0 /\ j - i = 0
          BY <1>1, <3>4, <4>1 DEF SumIs
        <5> HIDE DEF u, v, w, d
        <5> QED BY <3>2, <5>1
      <4>2. CASE i < j
        <5>1. d \in Nat /\ d <= (j - i) * w /\ (j - i) * v <= d
          BY <3>4, <4>2 DEF SumIs
        <5>2. w \in Nat /\ w <= u
          <6>1. j \in 1..n /\ j \in 1..k
            BY <1>1, <2>1, <2>2, <4>2
          <6> QED BY <1>1, <2>1, <6>1
        <5> HIDE DEF u, v, w, d
        <5>3. (j - i) * w <= (j - i) * u
          BY <3>2, <3>5, <5>2, Times1
        <5> QED BY <3>2, <3>5, <5>1, <5>2, <5>3
      <4> QED BY <1>1, <2>1, <2>5, <4>1, <4>2
    <3>7. g[k] - g[i] = d + u
      BY <3>3
    <3>8. d + u \in Nat /\ d + u <= (k - i) * u /\ (k - i) * v <= d + u
      <4> HIDE DEF u, v, d
      <4> DEFINE a == j - i
      <4>1. a \in Nat /\ k - i = a + 1 /\ d <= a * u /\ a * v <= d
        BY <3>5, <3>6
      <4> HIDE DEF a
      <4>2. (a + 1) * u = a * u + u /\ (a + 1) * v = a * v + v
        BY <3>2, <4>1, Times1
      <4>3. a * u \in Nat /\ a * v \in Nat
        BY <3>2, <4>1
      <4> QED BY <3>2, <3>6, <4>1, <4>2, <4>3
    <3>9. SumIs(g, s, i, k)
      <4> HIDE DEF d
      <4> QED BY <3>5, <3>7, <3>8 DEF SumIs
    <3> QED BY <2>1, <2>2, <3>9
  <2>6. k < i \/ k = i \/ j >= i
    BY <1>1, <2>1, <2>2
  <2> QED BY <2>3, <2>4, <2>5, <2>6
<1>7. 0..n \subseteq T
  <2> HIDE DEF T
  <2> QED BY <1>1, <1>5, <1>6, SetInductionTo
<1>8. \A j \in i..n : j \in 0..n /\ j >= i
  BY <1>1
<1> QED BY <1>7, <1>8 DEF n

\* The figures of the i points of s behind the place c.
FiguresAre(x, s, g, c, i) ==
  /\ x.count = i
  /\ x.sum = g[c + i] - g[c]
  /\ i = 0 => x.low = MaxInt64 /\ x.high = 0
  /\ i > 0 => /\ x.low = High(s[c + 1])
              /\ x.high = High(s[c + i])
              /\ x.avg = x.sum \div i

LEMMA FiguresMore ==
  ASSUME NEW s \in Seq(Points), Rising(s), NEW g \in [0..Len(s) -> Nat], Sums(g, s),
         NEW c \in 0..Len(s), NEW i \in Nat, NEW k \in Nat, k = i + 1, c + k <= Len(s),
         NEW x \in Figs, FiguresAre(x, s, g, c, i)
  PROVE  FiguresAre(Update(x, s[c + k]), s, g, c, k)
<1> DEFINE n == Len(s)
           m == c + k
           h == High(s[m])
           v == High(s[c + 1])
           u == High(s[c + i])
           y == Update(x, s[m])
<1>1. /\ n \in Nat /\ m \in 1..n /\ m - 1 = c + i /\ c + 1 \in 1..m /\ c + i \in 0..n
      /\ c + 1 \in 1..n /\ c \in 0..n /\ (i > 0 => c + i \in 1..m) /\ k > 0 /\ k # 0
  OBVIOUS
<1>2. \A j \in 1..n : High(s[j]) \in Nat /\ High(s[j]) <= MaxInt64
  <2>1. \A j \in 1..n : s[j] \in Points
    OBVIOUS
  <2> QED BY <2>1, HighType
<1>3. \A j \in 1..m : High(s[j]) <= h
  <2> HIDE DEF m
  <2> QED BY <1>1 DEF Rising
<1>4. g[m] = g[c + i] + h /\ g[m] \in Nat /\ g[c + i] \in Nat /\ g[c] \in Nat
  <2>1. g[m] = g[m - 1] + h
    <3> HIDE DEF m
    <3> QED BY <1>1 DEF Sums
  <2>2. m \in 0..n
    BY <1>1
  <2> HIDE DEF m
  <2> QED BY <1>1, <2>1, <2>2
<1>5. h \in Nat /\ h <= MaxInt64 /\ v \in Nat /\ v <= h /\ (i > 0 => u <= h /\ u \in Nat)
  <2>1. i > 0 => c + i \in 1..n
    BY <1>1
  <2> HIDE DEF m
  <2> QED BY <1>1, <1>2, <1>3, <2>1
<1>6. /\ y.count = x.count + 1 /\ y.sum = x.sum + h
      /\ y.low = Smaller(x.low, h) /\ y.high = Larger(x.high, h)
      /\ y.avg = (x.sum + h) \div (x.count + 1)
  BY DEF Update
<1>7. /\ x.count = i /\ x.sum = g[c + i] - g[c]
      /\ i = 0 => x.low = MaxInt64 /\ x.high = 0
      /\ i > 0 => x.low = v /\ x.high = u
  BY DEF FiguresAre
<1>8. i = 0 => v = h
  BY <1>1
<1> HIDE DEF y, h, u, v, m
<1>9. y.count = k /\ y.sum = g[m] - g[c] /\ y.avg = y.sum \div k
  <2>1. y.count = k /\ x.count + 1 = k
    BY <1>6, <1>7
  <2>2. y.sum = g[m] - g[c]
    <3> DEFINE A == g[m]
               B == g[c + i]
               C == g[c]
    <3>1. A = B + h /\ A \in Nat /\ B \in Nat /\ C \in Nat /\ x.sum = B - C
      BY <1>4, <1>7
    <3> HIDE DEF A, B, C
    <3>2. y.sum = A - C
      BY <1>5, <1>6, <3>1
    <3> QED BY <3>2 DEF A, C
  <2> QED BY <1>6, <2>1, <2>2
<1>10. y.low = v /\ y.high = h
  <2>1. CASE i = 0
    BY <1>5, <1>6, <1>7, <1>8, <2>1, ReportAssumption DEF Smaller, Larger
  <2>2. CASE i > 0
    BY <1>5, <1>6, <1>7, <2>2 DEF Smaller, Larger
  <2> QED BY <2>1, <2>2
<1>11. FiguresAre(y, s, g, c, k)
  BY <1>1, <1>9, <1>10 DEF FiguresAre, h, v, m
<1> QED BY <1>11 DEF y, m

\* The figures of what is left of s behind the place c.
LEMMA TailFigures ==
  ASSUME NEW s \in Seq(Points), Rising(s), NEW g \in [0..Len(s) -> Nat], Sums(g, s),
         NEW c \in 0..Len(s), NEW x, x = FoldLeft(Update, NoStats, SubSeq(s, c + 1, Len(s)))
  PROVE  FiguresAre(x, s, g, c, Len(s) - c)
<1> DEFINE n == Len(s)
           k == n - c
           t == SubSeq(s, c + 1, n)
<1>1. n \in Nat /\ k \in Nat /\ c \in Nat
  OBVIOUS
<1>2. t \in Seq(Points) /\ Len(t) = k /\ \A i \in 1..k : t[i] = s[c + i]
  <2>1. t \in Seq(Points)
    OBVIOUS
  <2>2. Len(t) = k
    OBVIOUS
  <2>3. ASSUME NEW i \in 1..k PROVE t[i] = s[c + i]
    OBVIOUS
  <2> QED BY <2>1, <2>2, <2>3
<1> HIDE DEF t
<1>3. PICK a \in [0..k -> Figs] : StatsUpTo(a, t) /\ a[k] = FoldLeft(Update, NoStats, t)
  <2> HIDE DEF k
  <2>1. \E a \in [0..Len(t) -> Figs] : StatsUpTo(a, t) /\ a[Len(t)] = FoldLeft(Update, NoStats, t)
    BY <1>2, StatsUpToExists
  <2> QED BY <1>2, <2>1
<1>4. a[0] = NoStats /\ \A i \in 1..k : a[i] = Update(a[i - 1], t[i])
  <2> HIDE DEF k
  <2> QED BY <1>2, <1>3 DEF StatsUpTo
<1>5. a[k] = x
  BY <1>3 DEF t
<1> DEFINE T == {i \in 0..k : FiguresAre(a[i], s, g, c, i)}
<1>6. 0 \in T
  <2>1. g[c + 0] - g[c] = 0
    OBVIOUS
  <2>2. FiguresAre(NoStats, s, g, c, 0)
    BY <2>1 DEF FiguresAre, NoStats
  <2> QED BY <1>1, <1>4, <2>2
<1>7. ASSUME NEW i \in 0..(k - 1), i \in T PROVE i + 1 \in T
  <2> DEFINE j == i + 1
  <2>1. i \in 0..k /\ j \in 1..k /\ j \in 0..k /\ j - 1 = i /\ i \in Nat /\ j \in Nat
    BY <1>1, Successor
  <2>2. j = i + 1 /\ c + j <= n
    BY <1>1
  <2> HIDE DEF j
  <2>3. a[j] = Update(a[i], s[c + j])
    <3> HIDE DEF k
    <3> QED BY <1>2, <1>4, <2>1
  <2> DEFINE z == a[i]
  <2>4. z \in Figs /\ FiguresAre(z, s, g, c, i)
    BY <1>3, <1>7, <2>1
  <2> HIDE DEF z
  <2>5. FiguresAre(Update(z, s[c + j]), s, g, c, j)
    BY <2>1, <2>2, <2>4, FiguresMore
  <2> QED BY <2>1, <2>2, <2>3, <2>5 DEF z
<1>8. k \in T
  <2> HIDE DEF T, k
  <2>1. 0..k \subseteq T
    BY <1>1, <1>6, <1>7, SetInductionTo
  <2> QED BY <1>1, <2>1
<1> QED BY <1>5, <1>8

LEMMA StatsAre ==
  ASSUME NEW s \in Seq(Points), Rising(s), Len(s) > 0,
         NEW g \in [0..Len(s) -> Nat], Sums(g, s), NEW p \in Percentiles
  PROVE  /\ Cut(p, Len(s)) \in 0..Len(s)
         /\ FiguresAre(Stats(p, s), s, g, Cut(p, Len(s)), Len(s) - Cut(p, Len(s)))
<1> DEFINE c == Cut(p, Len(s))
           x == Stats(p, s)
<1>1. Len(s) \in Nat
  OBVIOUS
<1>2. c \in 0..Len(s)
  BY <1>1, CutFacts
<1>3. x = FoldLeft(Update, NoStats, SubSeq(s, c + 1, Len(s)))
  BY DEF Stats
<1> HIDE DEF c, x
<1>4. FiguresAre(x, s, g, c, Len(s) - c)
  BY <1>2, <1>3, TailFigures
<1> QED BY <1>2, <1>4 DEF c, x

LEMMA Quotient ==
  ASSUME NEW a \in Nat, NEW b \in Nat, b > 0
  PROVE  /\ a \div b \in Nat /\ b * (a \div b) <= a
         /\ \A x \in Nat : (b * x <= a => x <= a \div b) /\ (a <= b * x => a \div b <= x)
<1>1. a \div b \in Nat /\ b * (a \div b) <= a
  OBVIOUS
<1>2. ASSUME NEW x \in Nat, b * x <= a PROVE x <= a \div b
  BY <1>2
<1>3. ASSUME NEW x \in Nat, a <= b * x PROVE a \div b <= x
  BY <1>3
<1> QED BY <1>1, <1>2, <1>3

\* What is left when what is no more than x is taken away has no lower mean.
LEMMA MeanRises ==
  ASSUME NEW w \in Nat, NEW k \in Nat, k <= w, NEW a \in Nat, NEW b \in Nat,
         NEW x \in Nat, NEW q \in Nat,
         a <= (w - k) * x, k * x <= b, w * q <= a + b
  PROVE  k * q <= b
<1>1. CASE q <= x
  BY <1>1, Times1
<1>2. CASE x < q
  <2>1. (w - k) * x <= (w - k) * q
    <3>1. w - k \in Nat
      OBVIOUS
    <3> QED BY <1>2, <3>1, Times1
  <2>2. (w - k) * q = w * q - k * q
    OBVIOUS
  <2> QED BY <2>1, <2>2
<1> QED BY <1>1, <1>2

LEMMA OneIsOrdered ==
  ASSUME NEW s \in Seq(Points), Rising(s), NEW g \in [0..Len(s) -> Nat], Sums(g, s),
         NEW c \in 0..Len(s), c < Len(s), NEW x, FiguresAre(x, s, g, c, Len(s) - c)
  PROVE  x.low <= x.avg /\ x.avg <= x.high /\ x.avg \in Nat
<1> DEFINE n == Len(s)
           k == n - c
<1>1. n \in Nat /\ k \in Nat /\ k > 0 /\ c \in 0..n /\ n \in c..n /\ c + k = n /\ c + 1 \in 1..n /\ n \in 1..n
  OBVIOUS
<1>2. High(s[c + 1]) \in Nat /\ High(s[n]) \in Nat
  <2>1. s[c + 1] \in Points /\ s[n] \in Points
    BY <1>1
  <2> QED BY <2>1, HighType
<1>3. SumIs(g, s, c, n)
  BY <1>1, SumBounds
<1> HIDE DEF k
<1> DEFINE d == g[n] - g[c]
<1>4. d \in Nat /\ d <= (n - c) * High(s[n]) /\ (n - c) * High(s[c + 1]) <= d
  BY <1>1, <1>3 DEF SumIs
<1>5. d \in Nat /\ d <= k * High(s[n]) /\ k * High(s[c + 1]) <= d
  BY <1>4 DEF k
<1>6. x.sum = d /\ x.low = High(s[c + 1]) /\ x.high = High(s[n]) /\ x.avg = d \div k
  <2>1. FiguresAre(x, s, g, c, k)
    BY DEF k
  <2> QED BY <1>1, <2>1 DEF FiguresAre
<1> HIDE DEF d, n
<1>7. x.low <= d \div k /\ d \div k <= x.high /\ d \div k \in Nat
  <2>1. /\ d \div k \in Nat
        /\ \A z \in Nat : (k * z <= d => z <= d \div k) /\ (d <= k * z => d \div k <= z)
    BY <1>1, <1>5, Quotient
  <2> DEFINE u == High(s[n])
             v == High(s[c + 1])
  <2>2. u \in Nat /\ v \in Nat /\ d <= k * u /\ k * v <= d /\ x.low = v /\ x.high = u
    BY <1>2, <1>5, <1>6
  <2> HIDE DEF u, v
  <2> QED BY <2>1, <2>2
<1> QED BY <1>6, <1>7

-----------------------------------------------------------------------------
(* What the percentiles say of points that are sorted *)

LEMMA WorstTail ==
  ASSUME Rising(picked.points), picked.points \in Seq(Points)
  PROVE  TailIsWorst
<1> DEFINE s == picked.points
           n == Len(s)
<1> SUFFICES ASSUME n > 0
             PROVE  /\ Stats(99, s).count = (n + 99) \div 100
                    /\ \A p \in {50, 90, 99} : Stats(p, s).count > 0
                    /\ \A p \in Percentiles : \A i \in 1..Cut(p, n) :
                         Stats(p, s).count > 0 => High(s[i]) <= Stats(p, s).low
  BY DEF TailIsWorst
<1>1. n \in Nat /\ s \in Seq(Points) /\ Rising(s)
  OBVIOUS
<1>2. PICK g \in [0..n -> Nat] : Sums(g, s)
  BY SumsExist
<1>3. /\ \A p \in Percentiles : Cut(p, n) \in 0..n
      /\ \A p \in {50, 90, 99} : Cut(p, n) < n
      /\ n - Cut(99, n) = (n + 99) \div 100
  BY <1>1, CutFacts
<1> HIDE DEF s
<1>4. ASSUME NEW p \in Percentiles
      PROVE  FiguresAre(Stats(p, s), s, g, Cut(p, n), n - Cut(p, n))
  BY <1>1, <1>2, StatsAre
<1>5. \A p \in Percentiles : Stats(p, s).count = n - Cut(p, n)
  BY <1>4 DEF FiguresAre
<1>6. Stats(99, s).count = (n + 99) \div 100
  BY <1>3, <1>5 DEF Percentiles
<1>7. ASSUME NEW p \in {50, 90, 99} PROVE Stats(p, s).count > 0
  <2>1. p \in Percentiles
    BY DEF Percentiles
  <2>2. Cut(p, n) \in 0..n /\ Cut(p, n) < n /\ Stats(p, s).count = n - Cut(p, n)
    BY <1>3, <1>5, <2>1
  <2> QED BY <1>1, <2>2
<1>8. ASSUME NEW p \in Percentiles, NEW i \in 1..Cut(p, n), Stats(p, s).count > 0
      PROVE  High(s[i]) <= Stats(p, s).low
  <2> DEFINE c == Cut(p, n)
  <2>1. c \in 0..n /\ Stats(p, s).count = n - c /\ FiguresAre(Stats(p, s), s, g, c, n - c)
    BY <1>3, <1>4, <1>5
  <2>2. i \in 1..c
    OBVIOUS
  <2> HIDE DEF c, n
  <2>3. c + 1 \in 1..n /\ i \in 1..(c + 1) /\ n - c > 0
    BY <1>1, <1>8, <2>1, <2>2
  <2>4. Stats(p, s).low = High(s[c + 1])
    BY <2>1, <2>3 DEF FiguresAre
  <2>5. High(s[i]) <= High(s[c + 1])
    <3> DEFINE m == c + 1
    <3> HIDE DEF m
    <3>1. m \in 1..n /\ i \in 1..m
      BY <2>3 DEF m
    <3>2. High(s[i]) <= High(s[m])
      BY <1>1, <3>1 DEF Rising, n
    <3> QED BY <3>2 DEF m
  <2> QED BY <2>4, <2>5
<1> QED BY <1>6, <1>7, <1>8

LEMMA NestedTails ==
  ASSUME Rising(picked.points), picked.points \in Seq(Points)
  PROVE  PercentilesNested
<1> DEFINE s == picked.points
           n == Len(s)
<1>1. n \in Nat /\ s \in Seq(Points) /\ Rising(s)
  OBVIOUS
<1> SUFFICES ASSUME NEW p \in Percentiles, NEW q \in Percentiles, p < q,
                    Stats(p, s).count > 0, Stats(q, s).count > 0
             PROVE  /\ Stats(p, s).count >= Stats(q, s).count
                    /\ Stats(p, s).low <= Stats(q, s).low
                    /\ Stats(p, s).avg <= Stats(q, s).avg
                    /\ Stats(p, s).high = Stats(q, s).high
                    /\ Stats(p, s).low <= Stats(p, s).avg /\ Stats(p, s).avg <= Stats(p, s).high
  BY DEF PercentilesNested
<1> DEFINE x == Stats(p, s)
           y == Stats(q, s)
           c == Cut(p, n)
           e == Cut(q, n)
<1>2. CASE n = 0
  <2>1. SubSeq(s, Cut(p, n) + 1, n) = <<>>
    <3>1. n * p = 0 /\ p \in Nat
      BY <1>2 DEF Percentiles
    <3>2. n \notin Early[50] /\ n \notin Early[90]
      BY <1>2, ReportAssumption
    <3>3. Cut(p, n) = 0
      BY <3>1, <3>2, <1>2 DEF Cut, Percentiles
    <3> QED BY <1>1, <1>2, <3>3
  <2>2. FoldLeft(Update, NoStats, <<>>) = NoStats
    <3> DEFINE z == <<>>
    <3>1. z \in Seq(Points) /\ Len(z) = 0
      OBVIOUS
    <3>2. PICK a \in [0..0 -> Figs] : StatsUpTo(a, z) /\ a[0] = FoldLeft(Update, NoStats, z)
      BY <3>1, StatsUpToExists
    <3> QED BY <3>2 DEF StatsUpTo
  <2>3. x = NoStats
    BY <2>1, <2>2 DEF Stats
  <2> QED BY <2>3 DEF NoStats
<1>3. CASE n > 0
  <2>1. PICK g \in [0..n -> Nat] : Sums(g, s)
    BY SumsExist
  <2>2. /\ c \in 0..n /\ FiguresAre(x, s, g, c, n - c)
        /\ e \in 0..n /\ FiguresAre(y, s, g, e, n - e)
    <3> HIDE DEF s
    <3> QED BY <1>1, <1>3, <2>1, StatsAre
  <2>3. x.count = n - c /\ y.count = n - e
    BY <2>2 DEF FiguresAre
  <2>4. x.count > 0 /\ y.count > 0
    OBVIOUS
  <2>5. c < n => c <= e
    BY <1>1, <1>3, CutFacts
  <2>20. \A j \in 1..n : High(s[j]) \in Nat
    <3>1. \A j \in 1..n : s[j] \in Points
      OBVIOUS
    <3> QED BY <3>1, HighType
  <2>21. \A j \in 1..n : \A i \in 1..j : High(s[i]) <= High(s[j])
    BY DEF Rising
  <2> HIDE DEF x, y, c, e, s, n
  <2>6. c < n /\ e < n /\ c <= e
    BY <1>1, <2>2, <2>3, <2>4, <2>5
  <2>7. /\ n - c \in Nat /\ n - e \in Nat /\ n - c > 0 /\ n - e > 0 /\ n - e <= n - c
        /\ c + (n - c) = n /\ e + (n - e) = n
    BY <1>1, <2>2, <2>6
  <2>8. x.low = High(s[c + 1]) /\ x.high = High(s[n]) /\ x.avg = (g[n] - g[c]) \div (n - c)
    BY <2>2, <2>7 DEF FiguresAre
  <2>9. y.low = High(s[e + 1]) /\ y.high = High(s[n]) /\ y.avg = (g[n] - g[e]) \div (n - e)
    BY <2>2, <2>7 DEF FiguresAre
  <2>10. x.low <= y.low /\ y.low \in Nat
    <3> DEFINE m == e + 1
               k == c + 1
    <3>1. m \in 1..n /\ k \in 1..m
      BY <1>1, <2>2, <2>6
    <3>2. x.low = High(s[k]) /\ y.low = High(s[m])
      BY <2>8, <2>9
    <3> HIDE DEF m, k
    <3> QED BY <2>20, <2>21, <3>1, <3>2
  <2>11. x.low <= x.avg /\ x.avg <= x.high /\ x.avg \in Nat
    <3>1. c \in 0..Len(s) /\ c < Len(s) /\ FiguresAre(x, s, g, c, Len(s) - c)
          /\ g \in [0..Len(s) -> Nat]
      BY <2>1, <2>2, <2>6 DEF n
    <3> QED BY <1>1, <2>1, <3>1, OneIsOrdered
  <2>12. x.avg <= y.avg
    <3> DEFINE w == n - c
               k == n - e
               a == g[e] - g[c]
               b == g[n] - g[e]
    <3>1. SumIs(g, s, c, e) /\ SumIs(g, s, e, n) /\ SumIs(g, s, c, n)
      <4>1. c \in 0..Len(s) /\ e \in 0..Len(s) /\ e \in c..Len(s) /\ n \in e..Len(s) /\ n \in c..Len(s)
            /\ g \in [0..Len(s) -> Nat]
        BY <1>1, <2>1, <2>2, <2>6 DEF n
      <4> QED BY <1>1, <2>1, <4>1, SumBounds
    <3>2. a \in Nat /\ b \in Nat /\ k * y.low <= b
      BY <2>6, <2>9, <3>1 DEF SumIs
    <3>3. a <= (e - c) * y.low
      <4>1. CASE c = e
        <5>1. a = 0 /\ e - c = 0
          BY <2>2, <3>1, <4>1 DEF SumIs
        <5> HIDE DEF a
        <5> QED BY <2>10, <5>1
      <4>2. CASE c < e
        <5>1. a <= (e - c) * High(s[e])
          BY <3>1, <4>2 DEF SumIs
        <5>2. High(s[e]) \in Nat /\ High(s[e]) <= y.low
          <6> DEFINE m == e + 1
          <6>1. m \in 1..n /\ e \in 1..m /\ e \in 1..n
            BY <1>1, <2>2, <2>6, <4>2
          <6>2. y.low = High(s[m])
            BY <2>9
          <6> HIDE DEF m
          <6> QED BY <2>20, <2>21, <6>1, <6>2
        <5>3. e - c \in Nat
          BY <2>2, <4>2
        <5> HIDE DEF a
        <5> DEFINE h == High(s[e])
                   l == y.low
                   o == e - c
        <5>4. h \in Nat /\ l \in Nat /\ h <= l /\ o \in Nat /\ a <= o * h
          BY <2>10, <5>1, <5>2, <5>3
        <5> HIDE DEF h, l, o
        <5>5. o * h <= o * l /\ o * h \in Nat /\ o * l \in Nat
          BY <5>4, Times1
        <5>6. a <= o * l
          BY <3>2, <5>4, <5>5
        <5> QED BY <5>6 DEF l, o
      <4> QED BY <2>2, <2>6, <4>1, <4>2
    <3>4. w \in Nat /\ k \in Nat /\ k > 0 /\ w > 0 /\ k <= w /\ w - k = e - c
      BY <1>1, <2>2, <2>6
    <3>5. g[n] - g[c] = a + b
      <4>1. g[n] \in Nat /\ g[c] \in Nat /\ g[e] \in Nat
        <5>1. n \in 0..n
          BY <1>1
        <5> QED BY <2>1, <2>2, <5>1
      <4> QED BY <4>1
    <3>6. x.avg = (a + b) \div w /\ y.avg = b \div k
      BY <2>8, <2>9, <3>5
    <3>7. a <= (w - k) * y.low
      BY <3>3, <3>4
    <3> HIDE DEF a, b, w, k
    <3> DEFINE l == y.low
               z == x.avg
    <3>8. l \in Nat /\ z \in Nat /\ z = (a + b) \div w /\ a <= (w - k) * l /\ k * l <= b
      BY <2>10, <2>11, <3>2, <3>6, <3>7
    <3> HIDE DEF l, z
    <3>9. w * z <= a + b
      <4>1. a + b \in Nat
        BY <3>2
      <4> QED BY <3>4, <3>8, <4>1, Quotient
    <3>10. k * z <= b
      BY <3>2, <3>4, <3>8, <3>9, MeanRises
    <3>11. z <= b \div k
      BY <3>2, <3>4, <3>8, <3>10, Quotient
    <3> QED BY <3>6, <3>11 DEF z
  <2>13. x.count >= y.count /\ x.high = y.high
    BY <2>3, <2>7, <2>8, <2>9
  <2> QED BY <2>10, <2>11, <2>12, <2>13 DEF x, y
<1> QED BY <1>1, <1>2, <1>3

-----------------------------------------------------------------------------
(* What the commands sort *)

LEMMA ByTime ==
  ASSUME NEW S, \A x \in S : x.created \in Nat, NEW s \in Seq(S), NEW t \in Sorted(s, Created(s))
  PROVE  /\ t \in Seq(S) /\ Len(t) = Len(s) /\ ToSet(t) = ToSet(s) /\ Ordered(t)
         /\ Distinct(s) => Distinct(t)
<1> DEFINE key == Created(s)
<1>1. key = [x \in ToSet(s) |-> x.created] /\ ToSet(s) \subseteq S
  BY DEF Created, ToSet
<1>2. key \in [ToSet(s) -> Int]
  BY <1>1
<1>3. t \in Sorted(s, key)
  OBVIOUS
<1> HIDE DEF key
<1>4. /\ t \in Seq(S) /\ Len(t) = Len(s) /\ ToSet(t) = ToSet(s)
      /\ InOrder(t, key) /\ Rearranged(t, s)
  BY <1>2, <1>3, SortedIs
<1>5. DOMAIN t = 1..Len(t) /\ Len(t) \in Nat
  BY <1>4
<1>6. ASSUME NEW i \in 1..Len(t) PROVE key[t[i]] = t[i].created
  <2>1. t[i] \in ToSet(t)
    BY <1>5 DEF ToSet
  <2> QED BY <1>1, <1>4, <2>1
<1>7. Ordered(t)
  <2> SUFFICES ASSUME NEW j \in 1..Len(t), NEW i \in 1..j PROVE t[i].created <= t[j].created
    BY DEF Ordered
  <2>1. i \in 1..Len(t)
    BY <1>5
  <2>2. key[t[i]] <= key[t[j]]
    BY <1>4 DEF InOrder
  <2> QED BY <1>6, <2>1, <2>2
<1>8. Distinct(s) => Distinct(t)
  BY <1>4, StaysDistinct
<1> QED BY <1>4, <1>7, <1>8

LEMMA ByHigh ==
  ASSUME NEW s \in Seq(Points), NEW t \in Sorted(s, Highs(s))
  PROVE  /\ t \in Seq(Points) /\ Len(t) = Len(s) /\ ToSet(t) = ToSet(s) /\ Rising(t)
         /\ Distinct(s) => Distinct(t)
<1> DEFINE key == Highs(s)
<1>1. key = [x \in ToSet(s) |-> High(x)] /\ ToSet(s) \subseteq Points
  BY DEF Highs, ToSet
<1>2. key \in [ToSet(s) -> Int]
  <2>1. \A x \in ToSet(s) : High(x) \in Int
    BY <1>1, HighType
  <2> QED BY <1>1, <2>1
<1>3. t \in Sorted(s, key)
  OBVIOUS
<1> HIDE DEF key
<1>4. /\ t \in Seq(Points) /\ Len(t) = Len(s) /\ ToSet(t) = ToSet(s)
      /\ InOrder(t, key) /\ Rearranged(t, s)
  BY <1>2, <1>3, SortedIs
<1>5. DOMAIN t = 1..Len(t) /\ Len(t) \in Nat
  BY <1>4
<1>6. ASSUME NEW i \in 1..Len(t) PROVE key[t[i]] = High(t[i])
  <2>1. t[i] \in ToSet(t)
    BY <1>5 DEF ToSet
  <2> QED BY <1>1, <1>4, <2>1
<1>7. Rising(t)
  <2> SUFFICES ASSUME NEW j \in 1..Len(t), NEW i \in 1..j PROVE High(t[i]) <= High(t[j])
    BY DEF Rising
  <2>1. i \in 1..Len(t)
    BY <1>5
  <2>2. key[t[i]] <= key[t[j]]
    BY <1>4 DEF InOrder
  <2> QED BY <1>6, <2>1, <2>2
<1>8. Distinct(s) => Distinct(t)
  BY <1>4, StaysDistinct
<1> QED BY <1>4, <1>7, <1>8

\* The IDs of the tests, the newest first.
LEMMA NewestFirst ==
  ASSUME NEW D, IsFiniteSet(D), NEW f \in [D -> Nat],
         NEW t \in Sorted(SetToSeq(D), [id \in D |-> 0 - f[id]])
  PROVE  /\ t \in Seq(D) /\ ToSet(t) = D
         /\ \A j \in 1..Len(t) : \A i \in 1..j :
              f[t[i]] >= f[t[j]] /\ (t[i] = t[j] => i = j)
<1> DEFINE s   == SetToSeq(D)
           n   == Cardinality(D)
           key == [id \in D |-> 0 - f[id]]
<1>1. n \in Nat /\ IsFiniteSet(1..n) /\ Cardinality(1..n) = n
  <2>1. n \in Nat
    BY FS_CardinalityType
  <2> HIDE DEF n
  <2> QED BY <2>1, FS_Interval
<1>2. s \in [1..n -> D] /\ IsInjective(s)
  <2>1. ExistsBijection(1..n, D)
    BY FS_CardinalityType
  <2>2. PICK b : b \in Bijection(1..n, D)
    BY <2>1 DEF ExistsBijection
  <2>3. b \in [1..n -> D] /\ IsInjective(b)
    BY <2>2 DEF Bijection, Injection
  <2>4. \E x \in [1..n -> D] : IsInjective(x)
    BY <2>3
  <2> QED BY <2>4 DEF SetToSeq
<1>3. t \in Sorted(s, key)
  OBVIOUS
<1> HIDE DEF s, n, key
<1>4. s \in Seq(D) /\ Len(s) = n
  BY <1>1, <1>2, FunctionIsSeq
<1>5. \A i, j \in 1..n : s[i] = s[j] => i = j
  BY <1>2 DEF IsInjective
<1>6. ToSet(s) = D
  <2>1. s \in Injection(1..n, D)
    BY <1>2 DEF Injection
  <2>2. s \in Surjection(1..n, D)
    BY <1>1, <2>1, FS_Injection DEF n
  <2>3. \A x \in D : \E i \in 1..n : s[i] = x
    BY <2>2 DEF Surjection
  <2> QED BY <1>2, <2>3 DEF ToSet
<1>7. key \in [ToSet(s) -> Int]
  <2>1. \A id \in D : 0 - f[id] \in Int
    OBVIOUS
  <2> QED BY <1>6, <2>1 DEF key
<1>8. /\ t \in Seq(D) /\ Len(t) = Len(s) /\ ToSet(t) = ToSet(s)
      /\ InOrder(t, key) /\ Rearranged(t, s)
  BY <1>3, <1>4, <1>7, SortedIs
<1>9. PICK p \in [1..n -> 1..n] :
        \A i \in 1..n : t[i] = s[p[i]] /\ \A j \in 1..n : p[i] = p[j] => i = j
  BY <1>4, <1>8 DEF Rearranged
<1>10. ASSUME NEW j \in 1..n, NEW i \in 1..j
       PROVE  f[t[i]] >= f[t[j]] /\ (t[i] = t[j] => i = j)
  <2>1. i \in 1..n
    BY <1>1
  <2>2. t[i] \in D /\ t[j] \in D
    BY <1>4, <1>8, <2>1
  <2>3. key[t[i]] = 0 - f[t[i]] /\ key[t[j]] = 0 - f[t[j]] /\ f[t[i]] \in Nat /\ f[t[j]] \in Nat
    BY <2>2 DEF key
  <2>4. key[t[i]] <= key[t[j]]
    BY <1>4, <1>8 DEF InOrder
  <2>5. t[i] = t[j] => p[i] = p[j]
    BY <1>5, <1>9, <2>1
  <2> QED BY <1>9, <2>1, <2>3, <2>4, <2>5
<1> QED BY <1>4, <1>6, <1>8, <1>10

\* The places that the filter f lets through: among points, and in the file.
Hits(s, f)  == {i \in DOMAIN s : HostFilter(f, s[i])}
Lines(w, f) == {i \in DOMAIN w : Head(w[i]) = "0" /\ HostFilter(f, w[i][3])}

\* What AnalyzeTest sorts.
LEMMA Analyzed ==
  ASSUME NEW d \in Seq(Points), NEW e \in Seq(Errors), NEW w, w = Written(d, e),
         NEW f, NEW all, all = ReadPoints(w),
         NEW dps, dps = Pick(all, Hits(all, f)),
         NEW t \in Sorted(dps, Highs(dps)),
         NEW lines, lines = Lines(w, f)
  PROVE  /\ t \in Seq(Points) /\ Rising(t)
         /\ Len(t) = Cardinality(lines)
         /\ ToSet(t) = Members(Parsed(w), lines)
<1> DEFINE n == Len(d)
           q == Parsed(w)
           Q == Hits(all, f)
           W == Points \cup Errors
<1>1. /\ n \in Nat /\ Len(e) \in Nat
  OBVIOUS
<1>2. all \in Seq(Points) /\ \E m : Places(m, all, q, 1..n)
  BY WhatIsRead
<1>3. PICK m : Places(m, all, q, 1..n)
  BY <1>2
<1>4. /\ DOMAIN w = 1..(n + Len(e))
      /\ \A i \in DOMAIN w : Head(w[i]) = "0" <=> i \in 1..n
      /\ q \in Seq(W) /\ DOMAIN q = DOMAIN w
      /\ \A i \in DOMAIN w : q[i] = w[i][3]
  BY WrittenLines
<1>5. dps = Pick(all, Q) /\ Q = {i \in DOMAIN all : HostFilter(f, all[i])}
  BY DEF Hits
<1>0. lines = {i \in DOMAIN w : Head(w[i]) = "0" /\ HostFilter(f, w[i][3])}
  BY DEF Lines
<1> HIDE DEF Q, q, W, n
<1>18. Q \in SUBSET (DOMAIN all)
  BY <1>5
<1>6. dps \in Seq(Points) /\ \E l : Places(l, dps, all, Q)
  BY <1>2, <1>5, <1>18, PickPlaces
<1>7. PICK l : Places(l, dps, all, Q)
  BY <1>6
<1>8. 1..n \in SUBSET (DOMAIN q) /\ 1..n \subseteq DOMAIN w
  BY <1>1, <1>4
<1>9. all \in Seq(W) /\ dps \in Seq(W)
  BY <1>2, <1>6 DEF W
<1> DEFINE R == Members(m, Q)
<1>10. \E x : Places(x, dps, q, R)
  <2> HIDE DEF R
  <2>1. R = Members(m, Q)
    BY DEF R
  <2> QED BY <2>1, <1>3, <1>4, <1>18, <1>7, <1>8, <1>9, PlacesTwice
<1>11. \A k \in DOMAIN all : k \in 1..Len(all) /\ m[k] \in 1..n /\ all[k] = q[m[k]]
  <2>1. DOMAIN all = 1..Len(all)
    BY <1>2
  <2> QED BY <1>3, <2>1 DEF Places
<1>12. R = lines
  <2>1. ASSUME NEW k \in Q PROVE m[k] \in lines
    <3>1. k \in DOMAIN all /\ HostFilter(f, all[k])
      BY <1>5
    <3>2. m[k] \in 1..n /\ m[k] \in DOMAIN w /\ all[k] = w[m[k]][3]
      BY <1>4, <1>8, <1>11, <3>1
    <3> QED BY <1>0, <1>4, <3>1, <3>2
  <2>2. ASSUME NEW i \in lines PROVE \E k \in Q : m[k] = i
    <3>1. i \in DOMAIN w /\ i \in 1..n /\ HostFilter(f, w[i][3])
      BY <1>0, <1>4
    <3>2. PICK k \in 1..Len(all) : m[k] = i
      BY <1>3, <3>1 DEF Places
    <3>3. k \in DOMAIN all
      BY <1>2
    <3>4. all[k] = w[i][3]
      BY <1>4, <1>11, <3>1, <3>2, <3>3
    <3>5. k \in Q
      BY <1>5, <3>1, <3>3, <3>4
    <3> QED BY <3>2, <3>5
  <2> QED BY <2>1, <2>2 DEF Members
<1>13. PICK x : Places(x, dps, q, lines)
  BY <1>10, <1>12
<1>14. lines \in SUBSET (DOMAIN q)
  BY <1>0, <1>4
<1>15. Len(dps) = Cardinality(lines) /\ ToSet(dps) = Members(q, lines)
  BY <1>4, <1>9, <1>13, <1>14, PlacesCount
<1>17. t \in Seq(Points) /\ Len(t) = Len(dps) /\ ToSet(t) = ToSet(dps) /\ Rising(t)
  BY <1>6, ByHigh
<1> QED BY <1>15, <1>17 DEF q

-----------------------------------------------------------------------------
(* The initial states *)

LEMMA InitOK ==
  ASSUME Init
  PROVE  IInv
<1> USE DEF Init
<1>1. TypeOK
  <2>1. testList \in [DOMAIN testList -> Nat] /\ keys \in Seq(DOMAIN testList)
    OBVIOUS
  <2>2. DPS \in Seq(Points) /\ ERR \in Seq(Errors) /\ picked.points \in Seq(Points)
        /\ readErrs \in Seq(Errors) /\ csv \in Seq(Points)
    OBVIOUS
  <2> QED BY <2>1, <2>2 DEF TypeOK
<1>2. FlyInv
  BY FS_EmptySet, ReportAssumption DEF FlyInv
<1>3. OnceInv
  BY FS_EmptySet DEF OnceInv, Distinct, ToSet
<1>4. MadeInv
  <2>1. All = {}
    BY DEF All, ToSet
  <2>2. Units(All) = {}
    BY <2>1 DEF Units
  <2> QED BY <2>2, FS_EmptySet DEF MadeInv
<1>5. RowInv
  <2>1. row \in Rows /\ row.points = 0 /\ row.total = 0
    BY NoRowType DEF NoRow
  <2> QED BY <2>1 DEF RowInv, RowIsExact
<1>6. FileInv
  BY DEF FileInv
<1>7. PickedInv
  BY DEF PickedInv, AnalysisComplete, Rising
<1>8. ListInv
  <2>1. DOMAIN testList = {} /\ IsFiniteSet({})
    BY FS_EmptySet
  <2> QED BY <2>1 DEF ListInv, ListMerged
<1> QED BY <1>1, <1>2, <1>3, <1>4, <1>5, <1>6, <1>7, <1>8 DEF IInv

-----------------------------------------------------------------------------
(* The steps *)

LEMMA LetterIs ==
  ASSUME FlyInv, NEW m \in flying, m[1] # "list"
  PROVE  /\ command # "list" /\ m = <<m[1], m[2]>>
         /\ m[1] = "0" => m[2] \in Points
         /\ m[1] # "0" => m[1] = "1" /\ m[2] \in Errors
<1>1. command # "list"
  <2> SUFFICES ASSUME command = "list" PROVE FALSE
    OBVIOUS
  <2>1. m \in {"list"} \X Hosts \X Listings
    BY DEF FlyInv
  <2> QED BY <2>1
<1>2. m \in Letters
  BY <1>1 DEF FlyInv
<1>3. CASE m \in {"0"} \X Points
  BY <1>1, <1>3
<1>4. CASE m \in {"1"} \X Errors
  BY <1>1, <1>4
<1> QED BY <1>2, <1>3, <1>4 DEF Letters

LEMMA ListingIs ==
  ASSUME FlyInv, NEW m \in flying, m[1] = "list"
  PROVE  /\ command = "list" /\ m = <<"list", m[2], m[3]>> /\ m[2] \in Hosts /\ m[3] \in Listings
         /\ m[3] \in [DOMAIN m[3] -> Nat] /\ IsFiniteSet(DOMAIN m[3])
<1>1. command = "list"
  <2> SUFFICES ASSUME command # "list" PROVE FALSE
    OBVIOUS
  <2>1. m \in Letters
    BY DEF FlyInv
  <2> QED BY <2>1 DEF Letters
<1>2. m \in {"list"} \X Hosts \X Listings
  BY <1>1 DEF FlyInv
<1>3. m = <<"list", m[2], m[3]>> /\ m[2] \in Hosts /\ m[3] \in Listings
  BY <1>2
<1> QED BY <1>1, <1>3, ReportAssumption

\* t is s with x behind it.
Longer(t, s, x) ==
  /\ Len(t) = Len(s) + 1
  /\ \A i \in 1..Len(s) : t[i] = s[i]
  /\ \A i \in 1..Len(t) : i \in 1..Len(s) \/ (i = Len(t) /\ t[i] = x)
  /\ ToSet(t) = ToSet(s) \cup {x}

LEMMA AppendIs ==
  ASSUME NEW S, NEW s \in Seq(S), NEW x \in S, NEW t, t = Append(s, x)
  PROVE  t \in Seq(S) /\ Longer(t, s, x)
<1>1. Len(s) \in Nat /\ DOMAIN s = 1..Len(s)
  OBVIOUS
<1>2. t \in Seq(S) /\ Len(t) = Len(s) + 1 /\ DOMAIN t = 1..Len(t)
  OBVIOUS
<1>3. t[Len(t)] = x
  OBVIOUS
<1>4. \A i \in 1..Len(s) : t[i] = s[i]
  OBVIOUS
<1>5. \A i \in 1..Len(t) : i \in 1..Len(s) \/ i = Len(t)
  BY <1>1, <1>2
<1>6. \A i \in 1..Len(s) : i \in 1..Len(t)
  BY <1>1, <1>2
<1>7. Len(t) \in 1..Len(t)
  BY <1>1, <1>2
<1>8. ToSet(t) = ToSet(s) \cup {x}
  <2>1. ASSUME NEW i \in 1..Len(t) PROVE t[i] \in ToSet(s) \cup {x}
    BY <1>1, <1>3, <1>4, <1>5 DEF ToSet
  <2>2. ASSUME NEW i \in 1..Len(s) PROVE s[i] \in ToSet(t)
    BY <1>2, <1>4, <1>6 DEF ToSet
  <2>3. x \in ToSet(t)
    BY <1>2, <1>3, <1>7 DEF ToSet
  <2> QED BY <1>1, <1>2, <2>1, <2>2, <2>3 DEF ToSet
<1> QED BY <1>2, <1>3, <1>4, <1>5, <1>8 DEF Longer

LEMMA CollectIs ==
  ASSUME TypeOK, FlyInv, NEW m \in flying, Collect(m)
  PROVE  /\ command # "list" /\ m = <<m[1], m[2]>>
         /\ flying' = flying \ {m}
         /\ \/ /\ m[1] = "0" /\ m[2] \in Points /\ ERR' = ERR
               /\ DPS' \in Seq(Points) /\ Longer(DPS', DPS, m[2])
            \/ /\ m[1] = "1" /\ m[2] \in Errors /\ DPS' = DPS
               /\ ERR' \in Seq(Errors) /\ Longer(ERR', ERR, m[2])
<1>1. /\ command # "list" /\ m = <<m[1], m[2]>>
      /\ m[1] = "0" => m[2] \in Points
      /\ m[1] # "0" => m[1] = "1" /\ m[2] \in Errors
  BY LetterIs DEF Collect
<1>2. flying' = flying \ {m}
  BY DEF Collect
<1> DEFINE x == m[2]
<1>3. CASE m[1] = "0"
  <2>1. DPS' = Append(DPS, x) /\ ERR' = ERR /\ x \in Points
    BY <1>1, <1>3 DEF Collect
  <2>2. DPS \in Seq(Points)
    BY DEF TypeOK
  <2> HIDE DEF x
  <2>3. DPS' \in Seq(Points) /\ Longer(DPS', DPS, x)
    BY <2>1, <2>2, AppendIs
  <2> QED BY <1>1, <1>2, <1>3, <2>1, <2>3 DEF x
<1>4. CASE m[1] # "0"
  <2>1. ERR' = Append(ERR, x) /\ DPS' = DPS /\ x \in Errors
    BY <1>1, <1>4 DEF Collect
  <2>2. ERR \in Seq(Errors)
    BY DEF TypeOK
  <2> HIDE DEF x
  <2>3. ERR' \in Seq(Errors) /\ Longer(ERR', ERR, x)
    BY <2>1, <2>2, AppendIs
  <2> QED BY <1>1, <1>2, <1>4, <2>1, <2>3 DEF x
<1> QED BY <1>3, <1>4

\* What analyze makes of the file.
LEMMA AnalyzeIs ==
  ASSUME TypeOK, FlyInv, FileInv, AnalyzeFile
  PROVE  /\ command = "download" /\ readErrs' = <<>>
         /\ \E f \in Hosts \cup {NoFilter}, t \in Seq(Points) :
              /\ picked' = [filter |-> f, points |-> t]
              /\ Rising(t)
              /\ Len(t) = Cardinality(Lines(file, f))
              /\ ToSet(t) = Members(Parsed(file), Lines(file, f))
<1>1. command = "download"
  BY DEF AnalyzeFile, FlyInv
<1>2. PICK d \in Seq(Points), e \in Seq(Errors) : file = Written(d, e)
  BY <1>1 DEF FileInv, AnalyzeFile
<1>3. readErrs' = <<>>
  <2>1. readErrs' = ReadErrors(file)
    BY DEF AnalyzeFile
  <2> QED BY <1>2, <2>1, WhatIsRead
<1> DEFINE all    == ReadPoints(file)
           dps(f) == Pick(all, Hits(all, f))
<1>4. PICK f \in Hosts \cup {NoFilter} : \E t \in Sorted(dps(f), Highs(dps(f))) :
        picked' = [filter |-> f, points |-> t]
  BY DEF AnalyzeFile, Hits
<1>5. PICK t \in Sorted(dps(f), Highs(dps(f))) : picked' = [filter |-> f, points |-> t]
  BY <1>4
<1> DEFINE x == all
           y == dps(f)
           l == Lines(file, f)
<1>6. x = ReadPoints(file) /\ y = Pick(x, Hits(x, f))
      /\ t \in Sorted(y, Highs(y)) /\ l = Lines(file, f)
  OBVIOUS
<1> HIDE DEF x, y, l
<1>7. /\ t \in Seq(Points) /\ Rising(t)
      /\ Len(t) = Cardinality(l)
      /\ ToSet(t) = Members(Parsed(file), l)
  BY <1>2, <1>6, Analyzed
<1> QED BY <1>1, <1>3, <1>5, <1>7 DEF l

\* What the CSV command makes of the file.
LEMMA CSVIs ==
  ASSUME TypeOK, FlyInv, FileInv, MakeCSV
  PROVE  csv' = ReadPoints(file) /\ csv' \in Seq(Points)
<1>1. command = "download"
  BY DEF MakeCSV, FlyInv
<1>2. PICK d \in Seq(Points), e \in Seq(Errors) : file = Written(d, e)
  BY <1>1 DEF FileInv, MakeCSV
<1>3. csv' = Pick(Parsed(file), {i \in DOMAIN file : Head(file[i]) = "0"})
  BY DEF MakeCSV
<1> QED BY <1>2, <1>3, WhatIsRead

LEMMA SortAllIs ==
  ASSUME TypeOK, SortAll
  PROVE  /\ DPS' \in Seq(Points) /\ Len(DPS') = Len(DPS) /\ ToSet(DPS') = ToSet(DPS)
         /\ Ordered(DPS') /\ (Distinct(DPS) => Distinct(DPS'))
         /\ ERR' \in Seq(Errors) /\ Len(ERR') = Len(ERR) /\ ToSet(ERR') = ToSet(ERR)
         /\ Ordered(ERR') /\ (Distinct(ERR) => Distinct(ERR'))
<1>1. DPS' \in Sorted(DPS, Created(DPS)) /\ ERR' \in Sorted(ERR, Created(ERR))
  BY DEF SortAll
<1>2. DPS \in Seq(Points) /\ ERR \in Seq(Errors)
  BY DEF TypeOK
<1>3. (\A x \in Points : x.created \in Nat) /\ (\A x \in Errors : x.created \in Nat)
  BY DEF Points, Errors
<1> DEFINE s == DPS
           t == DPS'
           u == ERR
           v == ERR'
<1>4. s \in Seq(Points) /\ t \in Sorted(s, Created(s)) /\ u \in Seq(Errors) /\ v \in Sorted(u, Created(u))
  BY <1>1, <1>2
<1> HIDE DEF s, t, u, v
<1>5. /\ t \in Seq(Points) /\ Len(t) = Len(s) /\ ToSet(t) = ToSet(s)
      /\ Ordered(t) /\ (Distinct(s) => Distinct(t))
  BY <1>3, <1>4, ByTime
<1>6. /\ v \in Seq(Errors) /\ Len(v) = Len(u) /\ ToSet(v) = ToSet(u)
      /\ Ordered(v) /\ (Distinct(u) => Distinct(v))
  BY <1>3, <1>4, ByTime
<1> QED BY <1>5, <1>6 DEF s, t, u, v

LEMMA AnalyzeLiveIs ==
  ASSUME TypeOK, AnalyzeLive
  PROVE  /\ DPS' \in Seq(Points) /\ Len(DPS') = Len(DPS) /\ ToSet(DPS') = ToSet(DPS)
         /\ Rising(DPS') /\ (Distinct(DPS) => Distinct(DPS'))
<1> DEFINE s == DPS
           t == DPS'
<1>1. s \in Seq(Points) /\ t \in Sorted(s, Highs(s))
  BY DEF AnalyzeLive, TypeOK
<1> HIDE DEF s, t
<1>2. /\ t \in Seq(Points) /\ Len(t) = Len(s) /\ ToSet(t) = ToSet(s)
      /\ Rising(t) /\ (Distinct(s) => Distinct(t))
  BY <1>1, ByHigh
<1> QED BY <1>2 DEF s, t

LEMMA MergeIs ==
  ASSUME TypeOK, FlyInv, NEW m \in flying, ParseTestList(m)
  PROVE  /\ testList' \in [DOMAIN testList \cup DOMAIN m[3] -> Nat]
         /\ \A id \in DOMAIN testList : testList'[id] = testList[id]
         /\ \A id \in DOMAIN m[3] \ DOMAIN testList : testList'[id] = m[3][id]
<1>1. m[3] \in [DOMAIN m[3] -> Nat]
  BY ListingIs DEF ParseTestList
<1>2. testList \in [DOMAIN testList -> Nat]
  BY DEF TypeOK
<1>3. testList' = [id \in DOMAIN testList \cup DOMAIN m[3] |->
                     IF id \in DOMAIN testList THEN testList[id] ELSE m[3][id]]
  BY DEF ParseTestList
<1> QED BY <1>1, <1>2, <1>3

LEMMA ListSortIs ==
  ASSUME TypeOK, ListInv, ListSort
  PROVE  /\ keys' \in Seq(DOMAIN testList) /\ ToSet(keys') = DOMAIN testList
         /\ \A j \in 1..Len(keys') : \A i \in 1..j :
              testList[keys'[i]] >= testList[keys'[j]] /\ (keys'[i] = keys'[j] => i = j)
<1> DEFINE D == DOMAIN testList
           f == testList
           t == keys'
<1>1. /\ IsFiniteSet(D) /\ f \in [D -> Nat]
      /\ t \in Sorted(SetToSeq(D), [id \in D |-> 0 - f[id]])
  BY DEF ListSort, ListInv, TypeOK
<1> HIDE DEF D, f, t
<1>2. /\ t \in Seq(D) /\ ToSet(t) = D
      /\ \A j \in 1..Len(t) : \A i \in 1..j :
           f[t[i]] >= f[t[j]] /\ (t[i] = t[j] => i = j)
  BY <1>1, NewestFirst
<1> QED BY <1>2 DEF D, f, t

LEMMA TypeStep ==
  ASSUME IInv, [Next]_vars
  PROVE  TypeOK'
<1>1. TypeOK /\ FlyInv /\ FileInv /\ PickedInv /\ ListInv
  BY DEF IInv
<1>2. /\ command \in Commands
      /\ phase \in {"collect", "write", "analyze", "print", "done", "csv", "failed", "crashed"}
      /\ clock \in Nat /\ made \in Nat
      /\ DPS \in Seq(Points) /\ ERR \in Seq(Errors)
      /\ picked.points \in Seq(Points) /\ readErrs \in Seq(Errors) /\ csv \in Seq(Points)
      /\ testList \in [DOMAIN testList -> Nat] /\ keys \in Seq(DOMAIN testList)
      /\ punctual \in BOOLEAN
  BY <1>1 DEF TypeOK
<1>3. ASSUME NEW r \in Readers, MakePoint(r)
      PROVE  TypeOK'
  <2>1. clock' \in Nat
    BY <1>2, <1>3 DEF MakePoint
  <2>2. made' \in Nat
    BY <1>2, <1>3, ReportAssumption DEF MakePoint
  <2> QED BY <1>2, <1>3, <2>1, <2>2 DEF TypeOK, MakePoint, endVars, fileVars, listVars
<1>4. CASE MakeError
  <2>1. clock' \in Nat
    BY <1>2, <1>4 DEF MakeError
  <2> QED BY <1>2, <1>4, <2>1 DEF TypeOK, MakeError, endVars, fileVars, listVars
<1>5. ASSUME NEW m \in flying, Collect(m)
      PROVE  TypeOK'
  <2>1. DPS' \in Seq(Points) /\ ERR' \in Seq(Errors)
    BY <1>1, <1>2, <1>5, CollectIs
  <2> QED BY <1>2, <1>5, <2>1 DEF TypeOK, Collect, serverVars, endVars, fileVars, listVars
<1>6. CASE Tick
  BY <1>2, <1>6 DEF TypeOK, Tick, serverVars, endVars, fileVars, listVars
<1>7. CASE SortAll
  <2>1. DPS' \in Seq(Points) /\ ERR' \in Seq(Errors)
    BY <1>1, <1>7, SortAllIs
  <2>2. punctual' \in BOOLEAN
    BY <1>7 DEF SortAll
  <2> QED BY <1>2, <1>7, <2>1, <2>2 DEF TypeOK, SortAll, serverVars, fileVars, listVars
<1>8. CASE WriteFile
  BY <1>2, <1>8 DEF TypeOK, WriteFile, serverVars, listVars
<1>9. CASE AnalyzeLive
  <2>1. DPS' \in Seq(Points)
    BY <1>1, <1>9, AnalyzeLiveIs
  <2>2. picked' = [picked EXCEPT !.points = DPS']
    BY <1>9 DEF AnalyzeLive
  <2>3. picked'.points \in Seq(Points)
    BY <1>1, <2>1, <2>2 DEF PickedInv
  <2> QED BY <1>2, <1>9, <2>1, <2>3 DEF TypeOK, AnalyzeLive, serverVars, listVars
<1>10. CASE AnalyzeFile
  <2>1. picked'.points \in Seq(Points) /\ readErrs' \in Seq(Errors)
    <3>1. readErrs' = <<>>
      BY <1>1, <1>10, AnalyzeIs
    <3>2. picked'.points \in Seq(Points)
      BY <1>1, <1>10, AnalyzeIs
    <3> QED BY <3>1, <3>2
  <2> QED BY <1>2, <1>10, <2>1 DEF TypeOK, AnalyzeFile, serverVars, listVars
<1>11. CASE MakeCSV
  <2>1. csv' \in Seq(Points)
    BY <1>1, <1>11, CSVIs
  <2> QED BY <1>2, <1>11, <2>1 DEF TypeOK, MakeCSV, serverVars, listVars
<1>12. ASSUME NEW h \in Hosts, AnswerList(h)
       PROVE  TypeOK'
  BY <1>2, <1>12 DEF TypeOK, AnswerList, serverVars, endVars, fileVars
<1>13. ASSUME NEW m \in flying, ParseTestList(m)
       PROVE  TypeOK'
  <2>1. testList' \in [DOMAIN testList \cup DOMAIN m[3] -> Nat]
    BY <1>1, <1>13, MergeIs
  <2>2. DOMAIN testList' = DOMAIN testList \cup DOMAIN m[3]
    BY <2>1
  <2>3. testList' \in [DOMAIN testList' -> Nat]
    BY <2>1, <2>2
  <2>4. keys' = keys
    BY <1>13 DEF ParseTestList
  <2>5. keys' \in Seq(DOMAIN testList')
    <3> DEFINE D == DOMAIN testList
               E == DOMAIN testList'
    <3>1. keys \in Seq(D) /\ D \subseteq E
      BY <1>2, <2>2
    <3> HIDE DEF D, E
    <3>2. keys \in Seq(E)
      BY <3>1
    <3> QED BY <2>4, <3>2 DEF E
  <2> QED BY <1>2, <1>13, <2>3, <2>5 DEF TypeOK, ParseTestList, serverVars, endVars, fileVars
<1>14. CASE ListSort
  <2>1. keys' \in Seq(DOMAIN testList)
    BY <1>1, <1>14, ListSortIs
  <2>2. punctual' \in BOOLEAN
    BY <1>14 DEF ListSort
  <2> QED BY <1>2, <1>14, <2>1, <2>2 DEF TypeOK, ListSort, serverVars, fileVars
<1>15. CASE ListPrint
  BY <1>2, <1>15 DEF TypeOK, ListPrint, serverVars, endVars, fileVars
<1>16. CASE ListFails \/ ListRace
  BY <1>2, <1>16 DEF TypeOK, ListFails, ListRace, serverVars, endVars, fileVars, listVars
<1>17. CASE Finished \/ UNCHANGED vars
  BY <1>2, <1>17 DEF TypeOK, Finished, vars, serverVars, endVars, fileVars, listVars
<1> QED BY <1>3, <1>4, <1>5, <1>6, <1>7, <1>8, <1>9, <1>10, <1>11, <1>12, <1>13, <1>14,
           <1>15, <1>16, <1>17 DEF Next

\* What is on its way stays finite, and belongs to the command.
LEMMA FlyStep ==
  ASSUME IInv, [Next]_vars
  PROVE  FlyInv'
<1>1. TypeOK /\ FlyInv
  BY DEF IInv
<1>2. /\ IsFiniteSet(flying)
      /\ command # "list" => flying \subseteq Letters
      /\ command = "list" => flying \subseteq {"list"} \X Hosts \X Listings
      /\ phase \in {"write", "analyze", "csv"} => command = "download"
      /\ phase \in {"print", "failed", "crashed"} => command = "list"
  BY <1>1 DEF FlyInv
<1>3. ASSUME NEW r \in Readers, MakePoint(r)
      PROVE  FlyInv'
  <2>1. PICK n \in Sizes, f \in Figures :
          flying' = flying \cup
            {<<"0", [reader |-> r, created |-> clock, bytes |-> n, figures |-> f]>>}
    BY <1>3 DEF MakePoint
  <2> DEFINE p == [reader |-> r, created |-> clock, bytes |-> n, figures |-> f]
  <2>2. p \in Points
    BY <1>1, ReportAssumption DEF Points, TypeOK
  <2>3. <<"0", p>> \in Letters
    BY <2>2 DEF Letters
  <2>4. flying' = flying \cup {<<"0", p>>}
    BY <2>1
  <2> HIDE DEF p
  <2>5. IsFiniteSet(flying')
    BY <1>2, <2>4, FS_AddElement
  <2>6. command' # "list" /\ phase' = "collect" /\ command' = command
    BY <1>3 DEF MakePoint
  <2> QED BY <1>2, <2>3, <2>4, <2>5, <2>6 DEF FlyInv
<1>4. CASE MakeError
  <2> DEFINE p == [created |-> clock]
  <2>1. <<"1", p>> \in Letters
    BY <1>1 DEF Errors, TypeOK, Letters
  <2>2. flying' = flying \cup {<<"1", p>>}
    BY <1>4 DEF MakeError
  <2> HIDE DEF p
  <2>3. IsFiniteSet(flying')
    BY <1>2, <2>2, FS_AddElement
  <2>4. command' # "list" /\ phase' = "collect" /\ command' = command
    BY <1>4 DEF MakeError
  <2> QED BY <1>2, <2>1, <2>2, <2>3, <2>4 DEF FlyInv
<1>5. ASSUME NEW m \in flying, Collect(m) \/ ParseTestList(m)
      PROVE  FlyInv'
  <2>1. flying' = flying \ {m} /\ command' = command /\ phase' = phase
    BY <1>5 DEF Collect, ParseTestList
  <2>2. IsFiniteSet(flying')
    BY <1>2, <2>1, FS_RemoveElement
  <2> QED BY <1>2, <2>1, <2>2 DEF FlyInv
<1>6. ASSUME NEW h \in Hosts, AnswerList(h)
      PROVE  FlyInv'
  <2>1. PICK l \in Listings : flying' = flying \cup {<<"list", h, l>>}
    BY <1>6 DEF AnswerList
  <2>2. IsFiniteSet(flying')
    BY <1>2, <2>1, FS_AddElement
  <2>3. command' = "list" /\ phase' = "collect" /\ command = "list"
    BY <1>6 DEF AnswerList
  <2> QED BY <1>2, <2>1, <2>2, <2>3 DEF FlyInv
<1>7. CASE SortAll \/ WriteFile \/ AnalyzeFile \/ MakeCSV
  <2>1. flying' = flying /\ command' = command /\ command = "download"
    BY <1>2, <1>7 DEF SortAll, WriteFile, AnalyzeFile, MakeCSV
  <2>2. phase' \in {"write", "analyze", "done", "csv"}
    BY <1>7 DEF SortAll, WriteFile, AnalyzeFile, MakeCSV
  <2> QED BY <1>2, <2>1, <2>2 DEF FlyInv
<1>8. CASE Tick \/ AnalyzeLive
  <2>1. flying' = flying /\ command' = command /\ phase' \in {"collect", "done"}
    BY <1>8 DEF Tick, AnalyzeLive
  <2> QED BY <1>2, <2>1 DEF FlyInv
<1>9. CASE ListSort \/ ListPrint \/ ListFails \/ ListRace
  <2>1. flying' = flying /\ command' = command /\ command = "list"
    BY <1>2, <1>9 DEF ListSort, ListPrint, ListFails, ListRace
  <2>2. phase' \in {"print", "done", "failed", "crashed"}
    BY <1>9 DEF ListSort, ListPrint, ListFails, ListRace
  <2> QED BY <1>2, <2>1, <2>2 DEF FlyInv
<1>10. CASE Finished \/ UNCHANGED vars
  <2>1. flying' = flying /\ command' = command /\ phase' = phase
    BY <1>10 DEF Finished, vars
  <2> QED BY <1>2, <2>1 DEF FlyInv
<1> QED BY <1>3, <1>4, <1>5, <1>6, <1>7, <1>8, <1>9, <1>10 DEF Next

LEMMA DistinctLonger ==
  ASSUME NEW S, NEW s \in Seq(S), NEW x, NEW t, Longer(t, s, x), Distinct(s),
         \A y \in ToSet(s) : y.created # x.created
  PROVE  Distinct(t)
<1>1. /\ \A i \in 1..Len(s) : t[i] = s[i] /\ s[i] \in ToSet(s)
      /\ \A i \in 1..Len(t) : i \in 1..Len(s) \/ (i = Len(t) /\ t[i] = x)
  <2>1. DOMAIN s = 1..Len(s)
    OBVIOUS
  <2> QED BY <2>1 DEF Longer, ToSet
<1> SUFFICES ASSUME NEW i \in 1..Len(t), NEW j \in 1..Len(t), t[i].created = t[j].created
             PROVE  i = j
  BY DEF Distinct
<1>2. CASE i \in 1..Len(s) /\ j \in 1..Len(s)
  BY <1>1, <1>2 DEF Distinct
<1>3. CASE i \in 1..Len(s) /\ j = Len(t) /\ t[j] = x
  BY <1>1, <1>3
<1>4. CASE j \in 1..Len(s) /\ i = Len(t) /\ t[i] = x
  BY <1>1, <1>4
<1>5. CASE i = Len(t) /\ j = Len(t)
  BY <1>5
<1> QED BY <1>1, <1>2, <1>3, <1>4, <1>5

\* What is made gets a time that nothing else has.
LEMMA MakeOnce ==
  ASSUME TypeOK, FlyInv, OnceInv, command # "list", NEW k, NEW p, p.created = clock,
         flying' = flying \cup {<<k, p>>}, clock' = clock + 1,
         DPS' = DPS, ERR' = ERR, command' = command
  PROVE  OnceInv'
<1> DEFINE m == <<k, p>>
<1>1. m[2] = p /\ flying' = flying \cup {m}
  OBVIOUS
<1>2. clock \in Nat /\ Len(DPS) \in Nat /\ Len(ERR) \in Nat
  BY DEF TypeOK
<1> HIDE DEF m
<1>3. /\ \A o \in flying : o[2].created < clock
      /\ \A x \in ToSet(DPS) : x.created < clock
      /\ \A x \in ToSet(ERR) : x.created < clock
      /\ Len(DPS) + Len(ERR) + Cardinality(flying) = clock
  BY DEF OnceInv
<1>4. /\ \A o \in flying : o[2].created \in Int
      /\ \A x \in ToSet(DPS) : x.created \in Int
      /\ \A x \in ToSet(ERR) : x.created \in Int
  <2>1. ASSUME NEW o \in flying PROVE o[2].created \in Int
    <3>1. o \in Letters
      BY DEF FlyInv
    <3> QED BY <3>1 DEF Letters, Points, Errors
  <2>2. ToSet(DPS) \subseteq Points /\ ToSet(ERR) \subseteq Errors
    BY DEF TypeOK, ToSet
  <2> QED BY <2>1, <2>2 DEF Points, Errors
<1>5. m \notin flying
  <2> SUFFICES ASSUME m \in flying PROVE FALSE
    OBVIOUS
  <2>1. m[2].created < clock
    BY <1>3
  <2> QED BY <1>1, <1>2, <2>1
<1>6. Cardinality(flying') = Cardinality(flying) + 1 /\ Cardinality(flying) \in Nat
  BY <1>1, <1>5, FS_AddElement, FS_CardinalityType DEF FlyInv
<1>7. Len(DPS') + Len(ERR') + Cardinality(flying') = clock'
  BY <1>2, <1>3, <1>6
<1>8. /\ \A o \in flying' : o[2].created < clock'
      /\ \A x \in ToSet(DPS) : x.created < clock'
      /\ \A x \in ToSet(ERR) : x.created < clock'
  BY <1>1, <1>2, <1>3, <1>4
<1>9. /\ \A o \in flying : o[2].created # m[2].created
      /\ \A x \in ToSet(DPS) : m[2].created # x.created
      /\ \A x \in ToSet(ERR) : m[2].created # x.created
  BY <1>1, <1>2, <1>3, <1>4
<1>10. \A o, l \in flying' : o[2].created = l[2].created => o = l
  BY <1>1, <1>9 DEF OnceInv
<1>11. /\ \A o \in flying' : \A x \in ToSet(DPS) : o[2].created # x.created
       /\ \A o \in flying' : \A x \in ToSet(ERR) : o[2].created # x.created
  BY <1>1, <1>9 DEF OnceInv
<1> QED BY <1>7, <1>8, <1>10, <1>11 DEF OnceInv

LEMMA OnceStep ==
  ASSUME IInv, [Next]_vars
  PROVE  OnceInv'
<1>1. TypeOK /\ FlyInv /\ OnceInv /\ DPS \in Seq(Points) /\ ERR \in Seq(Errors)
  BY DEF IInv, TypeOK
<1>2. ASSUME NEW r \in Readers, MakePoint(r)
      PROVE  OnceInv'
  <2>1. PICK n \in Sizes, f \in Figures :
          flying' = flying \cup
            {<<"0", [reader |-> r, created |-> clock, bytes |-> n, figures |-> f]>>}
    BY <1>2 DEF MakePoint
  <2> DEFINE p == [reader |-> r, created |-> clock, bytes |-> n, figures |-> f]
  <2>2. p.created = clock /\ flying' = flying \cup {<<"0", p>>}
    BY <2>1
  <2>3. command # "list" /\ clock' = clock + 1 /\ DPS' = DPS /\ ERR' = ERR /\ command' = command
    BY <1>2 DEF MakePoint
  <2> HIDE DEF p
  <2> QED BY <1>1, <2>2, <2>3, MakeOnce
<1>3. CASE MakeError
  <2> DEFINE p == [created |-> clock]
  <2>1. p.created = clock /\ flying' = flying \cup {<<"1", p>>}
    BY <1>3 DEF MakeError
  <2>2. command # "list" /\ clock' = clock + 1 /\ DPS' = DPS /\ ERR' = ERR /\ command' = command
    BY <1>3 DEF MakeError
  <2> HIDE DEF p
  <2> QED BY <1>1, <2>1, <2>2, MakeOnce
<1>4. ASSUME NEW m \in flying, Collect(m)
      PROVE  OnceInv'
  <2>1. /\ command # "list" /\ flying' = flying \ {m}
        /\ \/ ERR' = ERR /\ Longer(DPS', DPS, m[2])
           \/ DPS' = DPS /\ Longer(ERR', ERR, m[2])
    BY <1>1, <1>4, CollectIs
  <2>2. /\ \A o \in flying : o[2].created < clock
        /\ \A x \in ToSet(DPS) : x.created < clock
        /\ \A x \in ToSet(ERR) : x.created < clock
        /\ \A o, l \in flying : o[2].created = l[2].created => o = l
        /\ Distinct(DPS) /\ Distinct(ERR)
        /\ \A o \in flying : \A x \in ToSet(DPS) : o[2].created # x.created
        /\ \A o \in flying : \A x \in ToSet(ERR) : o[2].created # x.created
        /\ Len(DPS) + Len(ERR) + Cardinality(flying) = clock
    BY <1>1, <2>1 DEF OnceInv
  <2>3. clock' = clock /\ command' = command
    BY <1>4 DEF Collect, serverVars
  <2>4. Cardinality(flying') = Cardinality(flying) - 1 /\ Cardinality(flying) \in Nat
        /\ Len(DPS) \in Nat /\ Len(ERR) \in Nat
    <3>1. IsFiniteSet(flying)
      BY <1>1 DEF FlyInv
    <3>2. Cardinality(flying) \in Nat /\ Cardinality(flying') = Cardinality(flying) - 1
      BY <2>1, <3>1, FS_RemoveElement, FS_CardinalityType
    <3>3. DPS \in Seq(Points) /\ ERR \in Seq(Errors)
      BY <1>1 DEF TypeOK
    <3> QED BY <3>2, <3>3
  <2>5. \A o \in flying' : o[2].created # m[2].created
    BY <2>1, <2>2
  <2>6. CASE ERR' = ERR /\ Longer(DPS', DPS, m[2])
    <3>1. Len(DPS') = Len(DPS) + 1 /\ ToSet(DPS') = ToSet(DPS) \cup {m[2]}
      BY <2>6 DEF Longer
    <3>2. Distinct(DPS')
      <4>1. \A y \in ToSet(DPS) : y.created # m[2].created
        BY <2>2
      <4> DEFINE x == m[2]
                 t == DPS'
                 s == DPS
      <4>2. s \in Seq(Points) /\ Longer(t, s, x) /\ Distinct(s) /\ \A y \in ToSet(s) : y.created # x.created
        BY <1>1, <2>2, <2>6, <4>1
      <4> HIDE DEF x, t, s
      <4>3. Distinct(t)
        BY <4>2, DistinctLonger
      <4> QED BY <4>3 DEF t
    <3>3. Len(DPS') + Len(ERR') + Cardinality(flying') = clock'
      BY <2>2, <2>3, <2>4, <2>6, <3>1
    <3> QED BY <2>1, <2>2, <2>3, <2>5, <2>6, <3>1, <3>2, <3>3 DEF OnceInv
  <2>7. CASE DPS' = DPS /\ Longer(ERR', ERR, m[2])
    <3>1. Len(ERR') = Len(ERR) + 1 /\ ToSet(ERR') = ToSet(ERR) \cup {m[2]}
      BY <2>7 DEF Longer
    <3>2. Distinct(ERR')
      <4>1. \A y \in ToSet(ERR) : y.created # m[2].created
        BY <2>2
      <4> DEFINE x == m[2]
                 t == ERR'
                 s == ERR
      <4>2. s \in Seq(Errors) /\ Longer(t, s, x) /\ Distinct(s) /\ \A y \in ToSet(s) : y.created # x.created
        BY <1>1, <2>2, <2>7, <4>1
      <4> HIDE DEF x, t, s
      <4>3. Distinct(t)
        BY <4>2, DistinctLonger
      <4> QED BY <4>3 DEF t
    <3>3. Len(DPS') + Len(ERR') + Cardinality(flying') = clock'
      BY <2>2, <2>3, <2>4, <2>7, <3>1
    <3> QED BY <2>1, <2>2, <2>3, <2>5, <2>7, <3>1, <3>2, <3>3 DEF OnceInv
  <2> QED BY <2>1, <2>6, <2>7
<1>5. CASE SortAll
  <2>1. /\ Len(DPS') = Len(DPS) /\ ToSet(DPS') = ToSet(DPS) /\ (Distinct(DPS) => Distinct(DPS'))
        /\ Len(ERR') = Len(ERR) /\ ToSet(ERR') = ToSet(ERR) /\ (Distinct(ERR) => Distinct(ERR'))
    BY <1>1, <1>5, SortAllIs
  <2>2. clock' = clock /\ command' = command /\ flying' = flying
    BY <1>5 DEF SortAll, serverVars
  <2> QED BY <1>1, <2>1, <2>2 DEF OnceInv
<1>6. CASE AnalyzeLive
  <2>1. Len(DPS') = Len(DPS) /\ ToSet(DPS') = ToSet(DPS) /\ (Distinct(DPS) => Distinct(DPS'))
    BY <1>1, <1>6, AnalyzeLiveIs
  <2>2. clock' = clock /\ command' = command /\ flying' = flying /\ ERR' = ERR
    BY <1>6 DEF AnalyzeLive, serverVars
  <2> QED BY <1>1, <2>1, <2>2 DEF OnceInv
<1>7. CASE Tick \/ WriteFile \/ AnalyzeFile \/ MakeCSV
  <2>1. UNCHANGED <<command, clock, flying, DPS, ERR>>
    BY <1>7 DEF Tick, WriteFile, AnalyzeFile, MakeCSV, serverVars
  <2> QED BY <1>1, <2>1 DEF OnceInv
<1>8. ASSUME NEW h \in Hosts, AnswerList(h)
      PROVE  OnceInv'
  BY <1>8 DEF AnswerList, OnceInv
<1>9. ASSUME NEW m \in flying, ParseTestList(m)
      PROVE  OnceInv'
  <2>1. command = "list" /\ command' = command
    BY <1>1, <1>9, ListingIs DEF ParseTestList
  <2> QED BY <2>1 DEF OnceInv
<1>10. CASE ListSort \/ ListPrint \/ ListFails \/ ListRace
  <2>1. UNCHANGED <<command, clock, flying, DPS, ERR>>
    BY <1>10 DEF ListSort, ListPrint, ListFails, ListRace, serverVars
  <2> QED BY <1>1, <2>1 DEF OnceInv
<1>11. CASE Finished \/ UNCHANGED vars
  <2>1. UNCHANGED <<command, clock, flying, DPS, ERR>>
    BY <1>11 DEF Finished, vars, serverVars
  <2> QED BY <1>1, <2>1 DEF OnceInv
<1> QED BY <1>2, <1>3, <1>4, <1>5, <1>6, <1>7, <1>8, <1>9, <1>10, <1>11 DEF Next

LEMMA MadeStep ==
  ASSUME IInv, [Next]_vars
  PROVE  MadeInv'
<1>1. TypeOK /\ FlyInv /\ OnceInv /\ MadeInv
  BY DEF IInv
<1>2. ASSUME UNCHANGED <<command, made>>, command # "list" => All' = All
      PROVE  MadeInv'
  <2>1. command # "list" => Units(All') = Units(All)
    BY <1>2
  <2> HIDE DEF All
  <2> QED BY <1>1, <1>2, <2>1 DEF MadeInv
<1>3. ASSUME NEW r \in Readers, MakePoint(r)
      PROVE  MadeInv'
  <2>1. PICK n \in Sizes, f \in Figures :
          /\ made' = made + n
          /\ flying' = flying \cup
               {<<"0", [reader |-> r, created |-> clock, bytes |-> n, figures |-> f]>>}
    BY <1>3 DEF MakePoint
  <2> DEFINE p == [reader |-> r, created |-> clock, bytes |-> n, figures |-> f]
  <2>2. p.created = clock /\ p.bytes = n /\ n \in Nat /\ flying' = flying \cup {<<"0", p>>}
    BY <2>1, ReportAssumption
  <2>3. command # "list" /\ DPS' = DPS /\ command' = command
    BY <1>3 DEF MakePoint
  <2> HIDE DEF p
  <2>4. All' = All \cup {p}
    <3> DEFINE M == {o \in flying : o[1] = "0"}
               N == {o \in flying' : o[1] = "0"}
               y == <<"0", p>>
    <3>1. N = M \cup {y} /\ y[2] = p
      BY <2>2
    <3> HIDE DEF M, N, y
    <3>2. {o[2] : o \in N} = {o[2] : o \in M} \cup {p}
      BY <3>1
    <3>3. All' = {o[2] : o \in N} \cup ToSet(DPS')
      BY DEF All, N
    <3>4. All = {o[2] : o \in M} \cup ToSet(DPS)
      BY DEF All, M
    <3> QED BY <2>3, <3>2, <3>3, <3>4
  <2>5. \A q \in All : q.created # p.created
    <3>1. ASSUME NEW q \in All PROVE q.created < clock
      <4>1. CASE q \in ToSet(DPS)
        BY <1>1, <2>3, <4>1 DEF OnceInv
      <4>2. CASE \E m \in flying : q = m[2]
        BY <1>1, <2>3, <4>2 DEF OnceInv
      <4> QED BY <4>1, <4>2 DEF All
    <3>2. clock \in Nat
      BY <1>1 DEF TypeOK
    <3> QED BY <2>2, <3>1, <3>2
  <2>6. IsFiniteSet(Units(All)) /\ made = Cardinality(Units(All))
    BY <1>1, <2>3 DEF MadeInv
  <2> DEFINE Q == All
             R == All'
  <2>7. R = Q \cup {p} /\ IsFiniteSet(Units(Q)) /\ \A q \in Q : q.created # p.created
    BY <2>4, <2>5, <2>6
  <2> HIDE DEF Q, R
  <2>8. IsFiniteSet(Units(R)) /\ Cardinality(Units(R)) = Cardinality(Units(Q)) + p.bytes
    BY <2>2, <2>7, UnitsAdd
  <2> QED BY <2>1, <2>2, <2>6, <2>8 DEF MadeInv, Q, R
<1>4. CASE MakeError
  <2>1. flying' = flying \cup {<<"1", [created |-> clock]>>} /\ DPS' = DPS
        /\ made' = made /\ command' = command
    BY <1>4 DEF MakeError
  <2>2. {o \in flying' : o[1] = "0"} = {o \in flying : o[1] = "0"}
    BY <2>1
  <2>3. All' = All
    BY <2>1, <2>2 DEF All
  <2> QED BY <1>2, <2>1, <2>3
<1>5. ASSUME NEW m \in flying, Collect(m)
      PROVE  MadeInv'
  <2>1. /\ flying' = flying \ {m}
        /\ \/ m[1] = "0" /\ Longer(DPS', DPS, m[2])
           \/ m[1] = "1" /\ DPS' = DPS
    BY <1>1, <1>5, CollectIs
  <2>2. made' = made /\ command' = command
    BY <1>5 DEF Collect, serverVars
  <2> DEFINE M == {o \in flying : o[1] = "0"}
             N == {o \in flying' : o[1] = "0"}
  <2>3. CASE m[1] = "0" /\ Longer(DPS', DPS, m[2])
    <3>1. N = M \ {m} /\ m \in M
      BY <2>1, <2>3
    <3>2. ToSet(DPS') = ToSet(DPS) \cup {m[2]}
      BY <2>3 DEF Longer
    <3> HIDE DEF M, N
    <3>3. {o[2] : o \in N} \cup {m[2]} = {o[2] : o \in M}
      BY <3>1
    <3>4. All' = {o[2] : o \in N} \cup ToSet(DPS')
      BY DEF All, N
    <3>5. All = {o[2] : o \in M} \cup ToSet(DPS)
      BY DEF All, M
    <3>6. All' = All
      BY <3>2, <3>3, <3>4, <3>5
    <3> QED BY <1>2, <2>2, <3>6
  <2>4. CASE m[1] = "1" /\ DPS' = DPS
    <3>1. N = M
      BY <2>1, <2>4
    <3>2. All' = All
      BY <2>4, <3>1 DEF All
    <3> QED BY <1>2, <2>2, <3>2
  <2> QED BY <2>1, <2>3, <2>4
<1>6. CASE SortAll \/ AnalyzeLive
  <2>1. ToSet(DPS') = ToSet(DPS)
    BY <1>1, <1>6, SortAllIs, AnalyzeLiveIs
  <2>2. UNCHANGED <<command, made, flying>>
    BY <1>6 DEF SortAll, AnalyzeLive, serverVars
  <2>3. All' = All
    BY <2>1, <2>2 DEF All
  <2> QED BY <1>2, <2>2, <2>3
<1>7. CASE Tick \/ WriteFile \/ AnalyzeFile \/ MakeCSV \/ ListSort \/ ListPrint \/ ListFails \/ ListRace
  <2>1. UNCHANGED <<command, made, flying, DPS>>
    BY <1>7 DEF Tick, WriteFile, AnalyzeFile, MakeCSV, ListSort, ListPrint, ListFails, ListRace,
       serverVars
  <2>2. All' = All
    BY <2>1 DEF All
  <2> QED BY <1>2, <2>1, <2>2
<1>8. ASSUME NEW h \in Hosts, AnswerList(h)
      PROVE  MadeInv'
  BY <1>8 DEF AnswerList, MadeInv
<1>9. ASSUME NEW m \in flying, ParseTestList(m)
      PROVE  MadeInv'
  <2>1. command = "list" /\ command' = command
    BY <1>1, <1>9, ListingIs DEF ParseTestList
  <2> QED BY <2>1 DEF MadeInv
<1>10. CASE Finished \/ UNCHANGED vars
  <2>1. UNCHANGED <<command, made, flying, DPS>>
    BY <1>10 DEF Finished, vars, serverVars
  <2>2. All' = All
    BY <2>1 DEF All
  <2> QED BY <1>2, <2>1, <2>2
<1> QED BY <1>3, <1>4, <1>5, <1>6, <1>7, <1>8, <1>9, <1>10 DEF Next

\* The bytes of the points that are held are bytes that were made.
LEMMA BytesHeld ==
  ASSUME TypeOK, OnceInv, MadeInv, command # "list"
  PROVE  /\ Bytes(DPS) = Cardinality(Units(ToSet(DPS)))
         /\ Bytes(DPS) <= made
<1>1. DPS \in Seq(Points) /\ Distinct(DPS)
  BY DEF TypeOK, OnceInv
<1>2. Cardinality(Units(ToSet(DPS))) = Bytes(DPS)
  BY <1>1, BytesAreUnits
<1> DEFINE P == ToSet(DPS)
           Q == All
<1>3. P \subseteq Q /\ IsFiniteSet(Units(Q)) /\ made = Cardinality(Units(Q))
  BY DEF All, MadeInv
<1> HIDE DEF P, Q
<1>4. Cardinality(Units(P)) <= Cardinality(Units(Q))
  BY <1>3, UnitsPart
<1> QED BY <1>2, <1>3, <1>4 DEF P

LEMMA RowStep ==
  ASSUME IInv, [Next]_vars
  PROVE  RowInv'
<1>1. TypeOK /\ FlyInv /\ OnceInv /\ MadeInv /\ RowInv
  BY DEF IInv
<1>2. /\ row \in Rows /\ row.points <= Len(DPS) /\ row.total <= made
      /\ row.points > 0 =>
           /\ command = "latency"
           /\ row.points = Len(DPS) => row.total = Cardinality(Units(ToSet(DPS)))
      /\ RowIsExact
  BY <1>1 DEF RowInv
<1>3. made \in Nat /\ Len(DPS) \in Nat /\ row.points \in Nat /\ row.total \in Nat
  BY <1>1, <1>2 DEF TypeOK, Rows
<1>4. ASSUME row' = row, DPS' = DPS, command' = command, made' \in Nat, made' >= made,
             phase' = "collect" => phase = "collect"
      PROVE  RowInv'
  <2>1. RowIsExact'
    BY <1>2, <1>4 DEF RowIsExact
  <2>2. row'.total <= made'
    BY <1>2, <1>3, <1>4
  <2> QED BY <1>2, <1>4, <2>1, <2>2 DEF RowInv
<1>5. ASSUME NEW r \in Readers, MakePoint(r)
      PROVE  RowInv'
  <2>1. made' \in Nat /\ made' >= made
    BY <1>3, <1>5, ReportAssumption DEF MakePoint
  <2> QED BY <1>4, <1>5, <2>1 DEF MakePoint
<1>6. CASE MakeError
  BY <1>3, <1>4, <1>6 DEF MakeError
<1>7. ASSUME NEW m \in flying, Collect(m)
      PROVE  RowInv'
  <2>1. UNCHANGED <<row, command, made, phase>>
    BY <1>7 DEF Collect, serverVars
  <2>2. DPS' = DPS \/ Longer(DPS', DPS, m[2])
    BY <1>1, <1>7, CollectIs
  <2>3. CASE DPS' = DPS
    BY <1>3, <1>4, <2>1, <2>3
  <2>4. CASE Longer(DPS', DPS, m[2])
    <3>1. Len(DPS') = Len(DPS) + 1 /\ \A i \in 1..Len(DPS) : DPS'[i] = DPS[i]
      BY <2>4 DEF Longer
    <3>2. row'.points <= Len(DPS') /\ row'.points # Len(DPS')
      BY <1>2, <1>3, <2>1, <3>1
    <3>3. \A i \in 1..row.points : DPS'[i] = DPS[i]
      BY <1>2, <1>3, <3>1
    <3>4. {DPS'[i].figures : i \in 1..row'.points} = {DPS[i].figures : i \in 1..row.points}
      BY <2>1, <3>3
    <3>5. RowIsExact'
      BY <1>2, <2>1, <3>4 DEF RowIsExact
    <3> QED BY <1>2, <2>1, <3>2, <3>5 DEF RowInv
  <2> QED BY <2>2, <2>3, <2>4
<1>8. CASE Tick
  <2>1. /\ command = "latency" /\ DPS # <<>> /\ row' = RowOf(DPS, ERR)
        /\ UNCHANGED <<command, phase, made, DPS>>
    BY <1>8 DEF Tick, serverVars
  <2>2. DPS \in Seq(Points) /\ Len(DPS) > 0 /\ Len(ERR) \in Nat
    BY <1>1, <2>1 DEF TypeOK
  <2>3. /\ row' \in Rows /\ row'.points = Len(DPS) /\ row'.total = Bytes(DPS)
        /\ \A c \in Columns :
              /\ \A i \in 1..Len(DPS) : /\ row'.high[c] >= Shown(c, DPS[i].figures[c].high)
                                        /\ row'.low[c] <= Shown(c, DPS[i].figures[c].low)
              /\ \E i \in 1..Len(DPS) : row'.high[c] = Shown(c, DPS[i].figures[c].high)
              /\ \E i \in 1..Len(DPS) : row'.low[c] = Shown(c, DPS[i].figures[c].low)
    BY <2>1, <2>2, RowOfIs
  <2>4. Bytes(DPS) = Cardinality(Units(ToSet(DPS))) /\ Bytes(DPS) <= made
    BY <1>1, <2>1, BytesHeld
  <2>5. RowIsExact'
    <3> DEFINE seen == {DPS'[i].figures : i \in 1..row'.points}
    <3>1. seen = {DPS[i].figures : i \in 1..Len(DPS)}
      BY <2>1, <2>3
    <3> HIDE DEF seen
    <3>2. ASSUME NEW c \in Columns
          PROVE  /\ \A f \in seen : /\ row'.high[c] >= Shown(c, f[c].high)
                                    /\ row'.low[c] <= Shown(c, f[c].low)
                 /\ \E f \in seen : row'.high[c] = Shown(c, f[c].high)
                 /\ \E f \in seen : row'.low[c] = Shown(c, f[c].low)
      BY <2>3, <3>1
    <3> QED BY <3>2 DEF RowIsExact, seen
  <2> QED BY <1>3, <2>1, <2>3, <2>4, <2>5 DEF RowInv
<1>9. CASE SortAll \/ AnalyzeLive
  <2>1. ToSet(DPS') = ToSet(DPS) /\ Len(DPS') = Len(DPS)
    BY <1>1, <1>9, SortAllIs, AnalyzeLiveIs
  <2>2. UNCHANGED <<command, made, row>> /\ phase' # "collect"
    BY <1>9 DEF SortAll, AnalyzeLive, serverVars
  <2> QED BY <1>2, <2>1, <2>2 DEF RowInv, RowIsExact
<1>10. CASE WriteFile \/ AnalyzeFile \/ MakeCSV \/ ListSort \/ ListPrint \/ ListFails \/ ListRace
  <2>1. UNCHANGED <<row, DPS, command, made>> /\ phase' # "collect"
    BY <1>10 DEF WriteFile, AnalyzeFile, MakeCSV, ListSort, ListPrint, ListFails, ListRace,
       serverVars
  <2> QED BY <1>3, <1>4, <2>1
<1>11. ASSUME NEW h \in Hosts, AnswerList(h)
       PROVE  RowInv'
  <2>1. UNCHANGED <<row, DPS, command, made, phase>>
    BY <1>11 DEF AnswerList, serverVars
  <2> QED BY <1>3, <1>4, <2>1
<1>12. ASSUME NEW m \in flying, ParseTestList(m)
       PROVE  RowInv'
  <2>1. UNCHANGED <<row, DPS, command, made, phase>>
    BY <1>12 DEF ParseTestList, serverVars
  <2> QED BY <1>3, <1>4, <2>1
<1>13. CASE Finished \/ UNCHANGED vars
  <2>1. UNCHANGED <<row, DPS, command, made, phase>>
    BY <1>13 DEF Finished, vars, serverVars
  <2> QED BY <1>3, <1>4, <2>1
<1> QED BY <1>5, <1>6, <1>7, <1>8, <1>9, <1>10, <1>11, <1>12, <1>13 DEF Next

LEMMA FileStep ==
  ASSUME IInv, [Next]_vars
  PROVE  FileInv'
<1>1. TypeOK /\ FlyInv /\ FileInv
  BY DEF IInv
<1>2. /\ punctual /\ command = "download" =>
           phase # "collect" /\ flying = {} /\ Ordered(DPS) /\ Ordered(ERR)
      /\ command = "download" /\ phase \in {"analyze", "done", "csv"} =>
           \E d \in Seq(Points), e \in Seq(Errors) :
             file = Written(d, e) /\ (punctual => d = DPS /\ e = ERR)
      /\ phase = "csv" => csv = Pick(Parsed(file), {i \in DOMAIN file : Head(file[i]) = "0"})
  BY <1>1 DEF FileInv
\* What changes neither the file nor what is sorted.
<1>3. ASSUME UNCHANGED <<command, flying, DPS, ERR, file, csv, punctual>>, phase' = phase
      PROVE  FileInv'
  BY <1>2, <1>3 DEF FileInv
\* What belongs to the other commands.
<1>4. ASSUME command' = command, command # "download", phase' # "csv"
      PROVE  FileInv'
  BY <1>4 DEF FileInv
<1>5. ASSUME phase = "collect", phase' = "collect", command' = command, punctual' = punctual
      PROVE  FileInv'
  BY <1>2, <1>5 DEF FileInv
<1>6. ASSUME NEW r \in Readers, MakePoint(r)
      PROVE  FileInv'
  BY <1>5, <1>6 DEF MakePoint, endVars
<1>7. CASE MakeError
  BY <1>5, <1>7 DEF MakeError, endVars
<1>8. ASSUME NEW m \in flying, Collect(m)
      PROVE  FileInv'
  <2>1. UNCHANGED <<command, phase, file, csv, punctual>>
    BY <1>8 DEF Collect, endVars, fileVars
  <2>2. ~(punctual /\ command = "download")
    BY <1>2
  <2> QED BY <1>2, <2>1, <2>2 DEF FileInv
<1>9. CASE Tick
  BY <1>5, <1>9 DEF Tick, endVars
<1>10. CASE SortAll
  <2>1. Ordered(DPS') /\ Ordered(ERR')
    BY <1>1, <1>10, SortAllIs
  <2>2. phase' = "write" /\ flying' = flying /\ punctual' = (flying = {}) /\ command' = command
    BY <1>10 DEF SortAll
  <2> QED BY <2>1, <2>2 DEF FileInv
<1>11. CASE WriteFile
  <2>1. /\ file' = Written(DPS, ERR) /\ phase' = "analyze"
        /\ UNCHANGED <<command, flying, DPS, ERR, punctual>>
    BY <1>11 DEF WriteFile, Written
  <2>2. DPS \in Seq(Points) /\ ERR \in Seq(Errors)
    BY <1>1 DEF TypeOK
  <2> HIDE DEF Written
  <2> QED BY <1>2, <2>1, <2>2 DEF FileInv
<1>12. CASE AnalyzeLive
  <2>1. command' = command /\ command # "download" /\ phase' # "csv"
    BY <1>12 DEF AnalyzeLive
  <2> QED BY <1>4, <2>1
<1>13. CASE AnalyzeFile
  <2>1. /\ UNCHANGED <<command, flying, DPS, ERR, file, punctual>>
        /\ phase = "analyze" /\ phase' = "done"
    BY <1>13 DEF AnalyzeFile
  <2> QED BY <1>2, <2>1 DEF FileInv
<1>14. CASE MakeCSV
  <2>1. /\ UNCHANGED <<command, flying, DPS, ERR, file, punctual>>
        /\ phase = "analyze" /\ phase' = "csv"
        /\ csv' = Pick(Parsed(file), {i \in DOMAIN file : Head(file[i]) = "0"})
    BY <1>14 DEF MakeCSV
  <2> QED BY <1>2, <2>1 DEF FileInv
<1>15. ASSUME NEW h \in Hosts, AnswerList(h)
       PROVE  FileInv'
  BY <1>5, <1>15 DEF AnswerList, endVars
<1>16. ASSUME NEW m \in flying, ParseTestList(m)
       PROVE  FileInv'
  <2>1. command = "list" /\ command' = command /\ phase' = phase /\ phase # "csv"
    BY <1>1, <1>16, ListingIs DEF ParseTestList, FlyInv
  <2> QED BY <1>4, <2>1
<1>17. CASE ListSort \/ ListPrint \/ ListFails \/ ListRace
  <2>1. command = "list" /\ command' = command /\ phase' # "csv"
    BY <1>1, <1>17 DEF ListSort, ListPrint, ListFails, ListRace, FlyInv
  <2> QED BY <1>4, <2>1
<1>18. CASE Finished \/ UNCHANGED vars
  <2>1. UNCHANGED <<command, phase, flying, DPS, ERR, file, csv, punctual>>
    BY <1>18 DEF Finished, vars, endVars, fileVars
  <2> QED BY <1>3, <2>1
<1> QED BY <1>6, <1>7, <1>8, <1>9, <1>10, <1>11, <1>12, <1>13, <1>14, <1>15, <1>16, <1>17, <1>18
       DEF Next

LEMMA PickedStep ==
  ASSUME IInv, [Next]_vars
  PROVE  PickedInv'
<1>1. TypeOK /\ FlyInv /\ FileInv /\ PickedInv
  BY DEF IInv
<1>2. ASSUME UNCHANGED <<command, picked, file>>, phase' = "done" => phase = "done"
      PROVE  PickedInv'
  BY <1>1, <1>2 DEF PickedInv, AnalysisComplete
<1>3. ASSUME NEW r \in Readers, MakePoint(r)
      PROVE  PickedInv'
  BY <1>2, <1>3 DEF MakePoint, endVars, fileVars
<1>4. ASSUME NEW m \in flying, Collect(m) \/ ParseTestList(m)
      PROVE  PickedInv'
  BY <1>2, <1>4 DEF Collect, ParseTestList, endVars, fileVars
<1>5. ASSUME NEW h \in Hosts, AnswerList(h)
      PROVE  PickedInv'
  BY <1>2, <1>5 DEF AnswerList, endVars, fileVars
<1>6. CASE MakeError \/ Tick \/ SortAll \/ MakeCSV
  BY <1>2, <1>6 DEF MakeError, Tick, SortAll, MakeCSV, endVars, fileVars
<1>7. CASE WriteFile
  <2>1. picked' = picked /\ phase' = "analyze"
    BY <1>7 DEF WriteFile
  <2> QED BY <1>1, <2>1 DEF PickedInv, AnalysisComplete
<1>8. CASE AnalyzeLive
  <2>1. DPS' \in Seq(Points) /\ Rising(DPS')
    BY <1>1, <1>8, AnalyzeLiveIs
  <2>2. picked' = [picked EXCEPT !.points = DPS'] /\ command' = "latency"
    BY <1>8 DEF AnalyzeLive
  <2>3. picked \in [filter : Hosts \cup {NoFilter}, points : Seq(Points)]
    BY <1>1 DEF PickedInv
  <2>4. picked' \in [filter : Hosts \cup {NoFilter}, points : Seq(Points)]
        /\ picked'.points = DPS'
    BY <2>1, <2>2, <2>3
  <2> QED BY <2>1, <2>2, <2>4 DEF PickedInv, AnalysisComplete
<1>9. CASE AnalyzeFile
  <2>1. PICK f \in Hosts \cup {NoFilter}, t \in Seq(Points) :
              /\ picked' = [filter |-> f, points |-> t]
              /\ Rising(t)
              /\ Len(t) = Cardinality(Lines(file, f))
              /\ ToSet(t) = Members(Parsed(file), Lines(file, f))
    BY <1>1, <1>9, AnalyzeIs
  <2>2. file' = file
    BY <1>9 DEF AnalyzeFile
  <2>3. picked'.filter = f /\ picked'.points = t
        /\ picked' \in [filter : Hosts \cup {NoFilter}, points : Seq(Points)]
    BY <2>1
  <2> DEFINE Near(p) == \/ f = NoFilter
                        \/ {p.reader[1], p.reader[2]} \cap Matching[f] # {}
             lines == {i \in DOMAIN file : Head(file[i]) = "0" /\ Near(file[i][3])}
  <2>4. \A p : Near(p) <=> HostFilter(f, p)
    BY DEF HostFilter
  <2> HIDE DEF Near
  <2>5. Lines(file, f) = lines
    BY <2>4 DEF Lines
  <2>6. Members(Parsed(file), lines) = {file[i][3] : i \in lines}
    BY DEF Members, Parsed
  <2>7. ToSet(t) = {t[i] : i \in DOMAIN t}
    BY DEF ToSet
  <2> HIDE DEF lines
  <2>8. Len(t) = Cardinality(lines) /\ {t[i] : i \in DOMAIN t} = {file[i][3] : i \in lines}
    BY <2>1, <2>5, <2>6, <2>7
  <2>9. AnalysisComplete'
    BY <2>2, <2>3, <2>8 DEF AnalysisComplete, lines, Near
  <2> QED BY <2>1, <2>3, <2>9 DEF PickedInv
<1>10. CASE ListSort \/ ListPrint \/ ListFails \/ ListRace
  <2>1. picked' = picked /\ command' = "list"
    BY <1>1, <1>10 DEF ListSort, ListPrint, ListFails, ListRace, FlyInv, endVars, fileVars
  <2> QED BY <1>1, <2>1 DEF PickedInv, AnalysisComplete
<1>11. CASE Finished \/ UNCHANGED vars
  BY <1>2, <1>11 DEF Finished, vars, endVars, fileVars
<1> QED BY <1>3, <1>4, <1>5, <1>6, <1>7, <1>8, <1>9, <1>10, <1>11 DEF Next

LEMMA ListStep ==
  ASSUME IInv, [Next]_vars
  PROVE  ListInv'
<1>1. TypeOK /\ FlyInv /\ ListInv
  BY DEF IInv
<1>2. ASSUME command' = command, command # "list"
      PROVE  ListInv'
  BY <1>2 DEF ListInv
<1>3. ASSUME UNCHANGED <<command, phase, punctual, flying, answers, testList, keys, printed>>
      PROVE  ListInv'
  BY <1>1, <1>3 DEF ListInv, ListMerged
<1>4. ASSUME NEW r \in Readers, MakePoint(r)
      PROVE  ListInv'
  BY <1>2, <1>4 DEF MakePoint
<1>5. ASSUME NEW m \in flying, Collect(m)
      PROVE  ListInv'
  <2>1. command # "list" /\ command' = command
    BY <1>1, <1>5, LetterIs DEF Collect
  <2> QED BY <1>2, <2>1
<1>6. CASE MakeError \/ Tick \/ SortAll \/ WriteFile \/ AnalyzeLive \/ AnalyzeFile \/ MakeCSV
  <2>1. command # "list" /\ command' = command
    BY <1>1, <1>6 DEF MakeError, Tick, SortAll, WriteFile, AnalyzeLive, AnalyzeFile, MakeCSV, FlyInv
  <2> QED BY <1>2, <2>1
<1>7. CASE Finished \/ UNCHANGED vars
  <2>1. UNCHANGED <<command, phase, punctual, flying, answers, testList, keys, printed>>
    BY <1>7 DEF Finished, vars, endVars, listVars
  <2> QED BY <1>3, <2>1
<1>8. CASE command = "list"
  <2>1. /\ IsFiniteSet(DOMAIN testList)
        /\ \A a \in answers : a \in Hosts \X Listings
        /\ \A m \in flying : <<m[2], m[3]>> \in answers
        /\ \A a \in answers : <<"list", a[1], a[2]>> \in flying \/ DOMAIN a[2] \subseteq DOMAIN testList
        /\ \A id \in DOMAIN testList :
             \E a \in answers : id \in DOMAIN a[2] /\ a[2][id] = testList[id]
        /\ phase = "print" =>
             /\ \A j \in 1..Len(keys) : \A i \in 1..j :
                  testList[keys[i]] >= testList[keys[j]] /\ (keys[i] = keys[j] => i = j)
             /\ punctual => \A a \in answers : DOMAIN a[2] \subseteq ToSet(keys)
        /\ ListMerged
    BY <1>1, <1>8 DEF ListInv
  <2>2. testList \in [DOMAIN testList -> Nat] /\ keys \in Seq(DOMAIN testList)
        /\ DOMAIN keys = 1..Len(keys) /\ Len(keys) \in Nat
    BY <1>1 DEF TypeOK
  <2>3. ASSUME NEW h \in Hosts, AnswerList(h)
        PROVE  ListInv'
    <3>1. PICK l \in Listings : /\ answers' = answers \cup {<<h, l>>}
                                /\ flying' = flying \cup {<<"list", h, l>>}
      BY <2>3 DEF AnswerList
    <3>2. testList' = testList /\ phase' = "collect"
      BY <2>3 DEF AnswerList
    <3> DEFINE b == <<h, l>>
               o == <<"list", h, l>>
    <3>3. b \in Hosts \X Listings /\ o = <<"list", b[1], b[2]>> /\ <<o[2], o[3]>> = b
          /\ answers' = answers \cup {b} /\ flying' = flying \cup {o}
      BY <3>1
    <3> HIDE DEF b, o
    <3>4. \A a \in answers' : a \in Hosts \X Listings
      BY <2>1, <3>3
    <3>5. \A m \in flying' : <<m[2], m[3]>> \in answers'
      BY <2>1, <3>3
    <3>6. \A a \in answers' : <<"list", a[1], a[2]>> \in flying' \/ DOMAIN a[2] \subseteq DOMAIN testList
      BY <2>1, <3>3
    <3>7. \A id \in DOMAIN testList :
             \E a \in answers' : id \in DOMAIN a[2] /\ a[2][id] = testList[id]
      BY <2>1, <3>3
    <3> QED BY <2>1, <3>2, <3>4, <3>5, <3>6, <3>7 DEF ListInv, ListMerged
  <2>4. ASSUME NEW m \in flying, ParseTestList(m)
        PROVE  ListInv'
    <3>1. /\ testList' \in [DOMAIN testList \cup DOMAIN m[3] -> Nat]
          /\ \A id \in DOMAIN testList : testList'[id] = testList[id]
          /\ \A id \in DOMAIN m[3] \ DOMAIN testList : testList'[id] = m[3][id]
      BY <1>1, <2>4, MergeIs
    <3>2. /\ flying' = flying \ {m}
          /\ UNCHANGED <<command, phase, punctual, answers, keys, printed>>
      BY <2>4 DEF ParseTestList, endVars
    <3>3. m = <<"list", m[2], m[3]>> /\ IsFiniteSet(DOMAIN m[3])
      BY <1>1, <2>4, ListingIs DEF ParseTestList
    <3>4. DOMAIN testList' = DOMAIN testList \cup DOMAIN m[3]
      BY <3>1
    <3> DEFINE D == DOMAIN testList
               E == DOMAIN m[3]
    <3>12. IsFiniteSet(D) /\ IsFiniteSet(E)
      BY <2>1, <3>3
    <3>13. IsFiniteSet(D \cup E)
      <4> HIDE DEF D, E
      <4> QED BY <3>12, FS_Union
    <3>5. IsFiniteSet(DOMAIN testList')
      BY <3>4, <3>13
    <3> HIDE DEF D, E
    <3>6. ASSUME NEW a \in answers
          PROVE  <<"list", a[1], a[2]>> \in flying' \/ DOMAIN a[2] \subseteq DOMAIN testList'
      <4>1. CASE <<"list", a[1], a[2]>> = m
        <5>1. a[2] = m[3]
          BY <4>1
        <5> QED BY <3>4, <5>1
      <4>2. CASE <<"list", a[1], a[2]>> # m
        BY <2>1, <3>2, <3>4, <4>2
      <4> QED BY <4>1, <4>2
    <3>7. ASSUME NEW id \in DOMAIN testList'
          PROVE  \E a \in answers : id \in DOMAIN a[2] /\ a[2][id] = testList'[id]
      <4>1. CASE id \in DOMAIN testList
        BY <2>1, <3>1, <4>1
      <4>2. CASE id \notin DOMAIN testList
        <5> DEFINE a == <<m[2], m[3]>>
        <5>1. a \in answers /\ a[2] = m[3]
          BY <2>1
        <5>2. id \in DOMAIN m[3] /\ testList'[id] = m[3][id]
          BY <3>1, <3>4, <4>2
        <5> HIDE DEF a
        <5> QED BY <5>1, <5>2
      <4> QED BY <4>1, <4>2
    <3>8. \A i \in 1..Len(keys) : testList'[keys[i]] = testList[keys[i]]
      BY <2>2, <3>1
    <3>9. ASSUME phase = "print"
          PROVE  /\ \A j \in 1..Len(keys) : \A i \in 1..j :
                      testList'[keys[i]] >= testList'[keys[j]] /\ (keys[i] = keys[j] => i = j)
                 /\ punctual => \A a \in answers : DOMAIN a[2] \subseteq ToSet(keys)
      <4>1. \A j \in 1..Len(keys) : \A i \in 1..j : i \in 1..Len(keys)
        BY <2>2
      <4> QED BY <2>1, <3>8, <3>9, <4>1
    <3>10. ListMerged'
      BY <2>1, <3>2 DEF ListMerged
    <3>11. \A o \in flying' : <<o[2], o[3]>> \in answers
      BY <2>1, <3>2
    <3> QED BY <2>1, <3>2, <3>5, <3>6, <3>7, <3>9, <3>10, <3>11 DEF ListInv
  <2>5. CASE ListSort
    <3>1. /\ keys' \in Seq(DOMAIN testList) /\ ToSet(keys') = DOMAIN testList
          /\ \A j \in 1..Len(keys') : \A i \in 1..j :
               testList[keys'[i]] >= testList[keys'[j]] /\ (keys'[i] = keys'[j] => i = j)
      BY <1>1, <2>5, ListSortIs
    <3>2. /\ punctual' = (flying = {}) /\ phase' = "print"
          /\ UNCHANGED <<command, flying, answers, testList>>
      BY <2>5 DEF ListSort
    <3>3. punctual' => \A a \in answers : DOMAIN a[2] \subseteq ToSet(keys')
      BY <2>1, <3>1, <3>2
    <3>4. ListMerged'
      BY <3>2 DEF ListMerged
    <3> QED BY <2>1, <3>1, <3>2, <3>3, <3>4 DEF ListInv
  <2>6. CASE ListPrint
    <3>1. /\ phase = "print" /\ phase' = "done"
          /\ printed' = [i \in DOMAIN keys |-> <<keys[i], testList[keys[i]]>>]
          /\ UNCHANGED <<command, flying, punctual, answers, testList>>
      BY <2>6 DEF ListPrint, endVars
    <3>2. DOMAIN printed' = 1..Len(keys)
          /\ \A i \in 1..Len(keys) : /\ printed'[i][1] = keys[i]
                                     /\ printed'[i][2] = testList[keys[i]]
                                     /\ keys[i] \in DOMAIN testList
      BY <2>2, <3>1
    <3>3. ASSUME NEW i \in 1..Len(keys), NEW j \in 1..Len(keys), i < j
          PROVE  printed'[i][1] # printed'[j][1] /\ printed'[i][2] >= printed'[j][2]
      <4>1. i \in 1..j /\ i # j
        BY <2>2, <3>3
      <4>2. testList[keys[i]] >= testList[keys[j]] /\ keys[i] # keys[j]
        BY <2>1, <3>1, <4>1
      <4> QED BY <3>2, <4>2
    <3>4. \A i \in 1..Len(keys) : \E a \in answers :
            printed'[i][1] \in DOMAIN a[2] /\ a[2][printed'[i][1]] = printed'[i][2]
      BY <2>1, <3>2
    <3>5. ToSet(keys) = {printed'[i][1] : i \in DOMAIN printed'}
      BY <2>2, <3>2 DEF ToSet
    <3>6. punctual => \A a \in answers :
            DOMAIN a[2] \subseteq {printed'[i][1] : i \in DOMAIN printed'}
      BY <2>1, <3>1, <3>5
    <3>7. ListMerged'
      BY <3>1, <3>2, <3>3, <3>4, <3>6 DEF ListMerged
    <3> QED BY <2>1, <3>1, <3>7 DEF ListInv
  <2>7. CASE ListFails \/ ListRace
    <3>1. UNCHANGED <<command, flying, answers, testList>> /\ phase' \notin {"print", "done"}
      BY <2>7 DEF ListFails, ListRace, listVars
    <3> QED BY <2>1, <3>1 DEF ListInv, ListMerged
  <2> QED BY <1>4, <1>5, <1>6, <1>7, <2>3, <2>4, <2>5, <2>6, <2>7 DEF Next
<1>9. CASE command # "list"
  <2>1. command' = command \/ UNCHANGED vars
    BY DEF Next, MakePoint, MakeError, Collect, Tick, SortAll, WriteFile, AnalyzeLive, AnalyzeFile,
       MakeCSV, AnswerList, ParseTestList, ListSort, ListPrint, ListFails, ListRace, Finished
  <2>2. command' = command
    BY <2>1 DEF vars
  <2> QED BY <1>2, <1>9, <2>2
<1> QED BY <1>8, <1>9

-----------------------------------------------------------------------------
(* The theorems *)

\* The invariant is inductive.
LEMMA Invariance == Spec => []IInv
<1>1. Init => IInv
  BY InitOK
<1>2. IInv /\ [Next]_vars => IInv'
  BY TypeStep, FlyStep, OnceStep, MadeStep, RowStep, FileStep, PickedStep, ListStep DEF IInv
<1> QED BY <1>1, <1>2, PTL DEF Spec

\* What is read of a file is every point that was written, once.
LEMMA ReadIsAll ==
  ASSUME NEW d \in Seq(Points), NEW e \in Seq(Errors), NEW w, w = Written(d, e), Distinct(d)
  PROVE  /\ ReadPoints(w) \in Seq(Points) /\ Len(ReadPoints(w)) = Len(d)
         /\ Bytes(ReadPoints(w)) = Cardinality(Units(ToSet(d)))
<1> DEFINE n == Len(d)
           r == ReadPoints(w)
           k == Len(r)
<1>1. n \in Nat /\ DOMAIN d = 1..n
  OBVIOUS
<1>2. r \in Seq(Points) /\ \E m : Places(m, r, d, 1..n)
  BY WhatIsRead
<1> HIDE DEF r
<1>3. PICK m : Places(m, r, d, 1..n)
  BY <1>2
<1>4. k \in Nat /\ DOMAIN r = 1..k
  BY <1>2
<1>5. Len(r) = Cardinality(1..n) /\ ToSet(r) = Members(d, 1..n)
  <2> DEFINE P == 1..n
  <2>1. P \in SUBSET (DOMAIN d) /\ Places(m, r, d, P)
    BY <1>1, <1>3
  <2> HIDE DEF P
  <2>2. Len(r) = Cardinality(P) /\ ToSet(r) = Members(d, P)
    BY <1>2, <2>1, PlacesCount
  <2> QED BY <2>2 DEF P
<1>6. Len(r) = n
  <2> HIDE DEF n
  <2> QED BY <1>1, <1>5, FS_Interval
<1>7. ToSet(r) = ToSet(d)
  BY <1>1, <1>5 DEF Members, ToSet
<1>8. /\ \A i \in 1..k : m[i] \in 1..n /\ r[i] = d[m[i]]
      /\ \A i, j \in 1..k : i < j => m[i] < m[j]
  BY <1>3 DEF Places
<1>9. Distinct(r)
  <2> HIDE DEF n, k
  <2>1. \A i, j \in 1..n : d[i].created = d[j].created => i = j
    BY DEF Distinct, n
  <2>2. ASSUME NEW i \in 1..k, NEW j \in 1..k, r[i].created = r[j].created
        PROVE  i = j
    <3>1. m[i] = m[j] /\ m[i] \in 1..n
      BY <1>8, <2>1, <2>2
    <3>2. ~(i < j) /\ ~(j < i)
      BY <1>1, <1>8, <3>1
    <3> QED BY <1>4, <3>2
  <2> QED BY <2>2 DEF Distinct, k
<1>10. Bytes(r) = Cardinality(Units(ToSet(r)))
  BY <1>2, <1>9, BytesAreUnits
<1> QED BY <1>2, <1>6, <1>7, <1>10 DEF r

\* Different times in order rise.
LEMMA OrderedRises ==
  ASSUME NEW s, Len(s) \in Nat, \A i \in 1..Len(s) : s[i].created \in Nat,
         Ordered(s), Distinct(s), NEW i \in 1..Len(s), NEW j \in 1..Len(s), i < j
  PROVE  s[i].created < s[j].created
<1>1. i \in 1..j
  OBVIOUS
<1>2. s[i].created <= s[j].created
  BY <1>1 DEF Ordered
<1>3. s[i].created # s[j].created
  BY DEF Distinct
<1>4. s[i].created \in Nat /\ s[j].created \in Nat
  OBVIOUS
<1> QED BY <1>2, <1>3, <1>4

LEMMA FileIsComplete ==
  ASSUME IInv
  PROVE  FileComplete
<1> SUFFICES ASSUME phase \in {"analyze", "done", "csv"}, command = "download", punctual
             PROVE  LET dps == ReadPoints(file)
                        n   == Len(dps)
                    IN /\ Bytes(dps) = made
                       /\ phase = "csv" => Bytes(csv) = made
                       /\ Len(file) = clock
                       /\ \A i, j \in DOMAIN file :
                            i < j /\ (i <= n <=> j <= n) => file[i][3].created < file[j][3].created
  BY DEF FileComplete
<1> DEFINE n == Len(DPS)
           k == Len(ERR)
<1>1. TypeOK /\ OnceInv /\ MadeInv /\ FileInv
  BY DEF IInv
<1>2. /\ DPS \in Seq(Points) /\ n \in Nat /\ ERR \in Seq(Errors) /\ k \in Nat /\ clock \in Nat
      /\ \A i \in 1..n : DPS[i].created \in Nat
      /\ \A i \in 1..k : ERR[i].created \in Nat
  <2>1. DPS \in Seq(Points) /\ ERR \in Seq(Errors) /\ clock \in Nat
    BY <1>1 DEF TypeOK
  <2>2. /\ n \in Nat /\ k \in Nat
        /\ \A i \in 1..n : DPS[i] \in Points
        /\ \A i \in 1..k : ERR[i] \in Errors
    BY <2>1
  <2>3. \A p \in Points : p.created \in Nat
    BY DEF Points
  <2>4. \A x \in Errors : x.created \in Nat
    BY DEF Errors
  <2> QED BY <2>1, <2>2, <2>3, <2>4
<1>3. flying = {} /\ Ordered(DPS) /\ Ordered(ERR) /\ file = Written(DPS, ERR)
  BY <1>1 DEF FileInv
<1>4. Distinct(DPS) /\ Distinct(ERR) /\ n + k + Cardinality(flying) = clock
  BY <1>1 DEF OnceInv
<1>5. n + k = clock
  BY <1>2, <1>3, <1>4, FS_EmptySet
<1>6. made = Cardinality(Units(ToSet(DPS)))
  <2>1. All = ToSet(DPS)
    BY <1>3 DEF All
  <2> QED BY <1>1, <2>1 DEF MadeInv
<1>7. ReadPoints(file) \in Seq(Points) /\ Len(ReadPoints(file)) = n /\ Bytes(ReadPoints(file)) = made
  BY <1>2, <1>3, <1>4, <1>6, ReadIsAll
<1>8. phase = "csv" => csv = ReadPoints(file)
  <2> HIDE DEF n, k
  <2>1. Pick(Parsed(file), {i \in DOMAIN file : Head(file[i]) = "0"}) = ReadPoints(file)
    BY <1>2, <1>3, WhatIsRead
  <2> QED BY <1>1, <2>1 DEF FileInv
<1>9. /\ DOMAIN file = 1..(n + k) /\ Len(file) = n + k
      /\ \A i \in 1..n : file[i] = <<"0", "brace", DPS[i]>>
      /\ \A i \in DOMAIN file : i \notin 1..n =>
           \E j \in 1..k : i = n + j /\ file[i] = <<"1", "brace", ERR[j]>>
  BY <1>2, <1>3, WrittenLines
<1>10. ASSUME NEW i \in DOMAIN file, NEW j \in DOMAIN file, i < j, i <= n <=> j <= n
       PROVE  file[i][3].created < file[j][3].created
  <2>1. CASE i <= n /\ j <= n
    <3>1. i \in 1..n /\ j \in 1..n
      BY <1>2, <1>9, <2>1
    <3>2. DPS[i].created < DPS[j].created
      BY <1>2, <1>3, <1>4, <1>10, <3>1, OrderedRises
    <3>3. file[i][3] = DPS[i] /\ file[j][3] = DPS[j]
      BY <1>9, <3>1
    <3> QED BY <3>2, <3>3
  <2>2. CASE ~(i <= n) /\ ~(j <= n)
    <3>1. i \notin 1..n /\ j \notin 1..n
      BY <1>2, <2>2
    <3>2. PICK a \in 1..k : i = n + a /\ file[i] = <<"1", "brace", ERR[a]>>
      BY <1>9, <3>1
    <3>3. PICK b \in 1..k : j = n + b /\ file[j] = <<"1", "brace", ERR[b]>>
      BY <1>9, <3>1
    <3>4. a < b
      BY <1>2, <1>10, <3>2, <3>3
    <3>5. ERR[a].created < ERR[b].created
      BY <1>2, <1>3, <1>4, <3>4, OrderedRises
    <3>6. file[i][3] = ERR[a] /\ file[j][3] = ERR[b]
      BY <3>2, <3>3
    <3> QED BY <3>5, <3>6
  <2> QED BY <1>10, <2>1, <2>2
<1> HIDE DEF n, k
<1> QED BY <1>5, <1>7, <1>8, <1>9, <1>10

LEMMA BytesAreReported ==
  ASSUME IInv
  PROVE  BytesReported
<1>1. TypeOK /\ OnceInv /\ MadeInv /\ RowInv
  BY DEF IInv
<1>2. row.total <= made
  BY <1>1 DEF RowInv
<1>3. ASSUME flying = {}, row.points > 0, row.points = Len(DPS)
      PROVE  row.total = made
  <2>1. command = "latency" /\ row.total = Cardinality(Units(ToSet(DPS)))
    BY <1>1, <1>3 DEF RowInv
  <2>2. All = ToSet(DPS)
    BY <1>3 DEF All
  <2> QED BY <1>1, <2>1, <2>2 DEF MadeInv
<1> QED BY <1>2, <1>3 DEF BytesReported

\* Every variable holds values of its Go type: whatever order the goroutines
\* of the client run in, responseDPS holds points, responseERR errors, and what
\* is read of a file is of the type it was written as.
THEOREM TypeCorrect == Spec => []TypeOK
<1>1. IInv => TypeOK
  BY DEF IInv
<1> QED BY <1>1, Invariance, PTL

\* printOnTick: every figure of a row bounds the points the row covers and is
\* the figure of one of them, in the unit that is shown.
THEOREM RowsExact == Spec => []RowIsExact
<1>1. IInv => RowIsExact
  BY DEF IInv, RowInv
<1> QED BY <1>1, Invariance, PTL

\* The bytes of a row are bytes that the servers counted, none twice, and all
\* of them once every point has been collected and shown.
THEOREM NoByteLost == Spec => []BytesReported
<1> QED BY BytesAreReported, Invariance, PTL

\* DownloadTest: a file that was written when nothing was on its way holds
\* every point and every error, in the order of creation, and the CSV made of
\* it every byte.
THEOREM DownloadComplete == Spec => []FileComplete
<1> QED BY FileIsComplete, Invariance, PTL

\* AnalyzeTest: what is analyzed of a file is every point the filter lets
\* through, each as often as the file has it.
THEOREM AnalysisLosesNothing == Spec => []AnalysisComplete
<1>1. IInv => AnalysisComplete
  BY DEF IInv, PickedInv
<1> QED BY <1>1, Invariance, PTL

\* analyzeLatencyTest: no point outside a percentile is slower than one inside,
\* P99 is over one percent of the points, rounded up, and P50, P90 and P99 are
\* never empty.
THEOREM TailsAreWorst == Spec => []TailIsWorst
<1>1. IInv => TailIsWorst
  <2>1. IInv => picked.points \in Seq(Points) /\ Rising(picked.points)
    BY DEF IInv, TypeOK, PickedInv
  <2> QED BY <2>1, WorstTail
<1> QED BY <1>1, Invariance, PTL

\* analyzeLatencyTest: a higher percentile is over fewer points and never looks
\* better, and the figures of one percentile are ordered.
THEOREM TailsNested == Spec => []PercentilesNested
<1>1. IInv => PercentilesNested
  <2>1. IInv => picked.points \in Seq(Points) /\ Rising(picked.points)
    BY DEF IInv, TypeOK, PickedInv
  <2> QED BY <2>1, NestedTails
<1> QED BY <1>1, Invariance, PTL

\* ListTests: no ID is printed twice, the newest comes first, every line is
\* what some server said, and none is missing when nothing was on its way.
THEOREM ListsMerge == Spec => []ListMerged
<1>1. IInv => ListMerged
  <2>1. IInv => (command = "list" => ListMerged)
    BY DEF IInv, ListInv
  <2>2. command # "list" => ListMerged
    BY DEF ListMerged
  <2> QED BY <2>1, <2>2
<1> QED BY <1>1, Invariance, PTL
=============================================================================
