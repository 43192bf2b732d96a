---------------------------- MODULE VarIntProofs -----------------------------
(* What writeVarInt writes readVarInt reads, for every number and every radix.  *)
(* The recursive functions of VarInt are shown to exist and to do what is       *)
(* claimed of them by induction on numbers, which is stated here with sets.     *)
EXTENDS VarInt, SequencesExt, WellFoundedInduction, TLAPS

(* Induction *)

LEMMA LeastNumber ==
  ASSUME NEW S, S \subseteq Nat, S # {}
  PROVE  \E n \in S : \A m \in S : n <= m
  <1> DEFINE less == OpToRel(<, Nat)
  <1>1. IsWellFoundedOn(less, Nat)
    BY NatLessThanWellFounded
  <1> HIDE DEF less
  <1>2. PICK n \in S : \A m \in S : <<m, n>> \notin less
    BY <1>1, WFMin
  <1>3. ASSUME NEW m \in S, m < n
        PROVE  FALSE
    <2>1. <<m, n>> \in less
      BY <1>2, <1>3 DEF less, OpToRel
    <2> QED  BY <1>2, <2>1
  <1> QED  BY <1>2, <1>3

\* A set that holds 0 and the successor of each of its numbers holds all.
LEMMA Induction ==
  ASSUME NEW S, 0 \in S, \A n \in Nat : n \in S => n + 1 \in S
  PROVE  \A n \in Nat : n \in S
  <1> SUFFICES ASSUME Nat \ S # {}
               PROVE  FALSE
    OBVIOUS
  <1>1. PICK n \in Nat \ S : \A m \in Nat \ S : n <= m
    BY LeastNumber
  <1>2. n # 0 /\ n - 1 \in Nat
    BY <1>1
  <1>3. n - 1 \in S
    BY <1>1, <1>2
  <1>4. (n - 1) + 1 \in S
    BY <1>2, <1>3
  <1> QED  BY <1>1, <1>4

\* The same with every smaller number at hand.
LEMMA Descent ==
  ASSUME NEW S, \A n \in Nat : (\A m \in Nat : m < n => m \in S) => n \in S
  PROVE  \A n \in Nat : n \in S
  <1> SUFFICES ASSUME Nat \ S # {}
               PROVE  FALSE
    OBVIOUS
  <1>1. PICK n \in Nat \ S : \A m \in Nat \ S : n <= m
    BY LeastNumber
  <1>2. \A m \in Nat : m < n => m \in S
    BY <1>1
  <1> QED  BY <1>1, <1>2

Unfolds(f, P, D, prev, base, step) ==
  \A x \in P : f[x] = IF x \in D THEN step[<<x, f[prev[x]]>>] ELSE base[x]

\* A function is defined on all of P when its value at a place of D depends on
\* that at one place of smaller rank, and on none elsewhere.
LEMMA RankedRecursion ==
  ASSUME NEW X, NEW P, NEW rank \in [P -> Nat], NEW D \in SUBSET P, NEW prev \in [D -> P],
         \A x \in D : rank[prev[x]] < rank[x],
         NEW base \in [P -> X], NEW step \in [D \X X -> X]
  PROVE  \E f \in [P -> X] : Unfolds(f, P, D, prev, base, step)
  <1> DEFINE value(f, x) == IF x \in D THEN step[<<x, f[prev[x]]>>] ELSE base[x]
             below(f, n) == \A x \in P : rank[x] < n => f[x] = value(f, x)
             S == {n \in Nat : \E f \in [P -> X] : below(f, n)}
  <1>1. \A f \in [P -> X], x \in P : value(f, x) \in X
    OBVIOUS
  <1>2. \A n \in Nat : n \in S
    <2>1. 0 \in S
      <3>1. below(base, 0)
        OBVIOUS
      <3> QED  BY <3>1
    <2>2. ASSUME NEW n \in Nat, n \in S
          PROVE  n + 1 \in S
      <3>1. PICK f \in [P -> X] : below(f, n)
        BY <2>2
      <3> DEFINE g == [x \in P |-> value(f, x)]
      <3>2. g \in [P -> X] /\ \A x \in P : g[x] = value(f, x)
        BY <1>1
      <3> HIDE DEF g
      <3>3. ASSUME NEW x \in P, rank[x] < n + 1
            PROVE  g[x] = value(g, x)
        <4>1. x \in D => f[prev[x]] = g[prev[x]]
          <5> SUFFICES ASSUME x \in D
                       PROVE  f[prev[x]] = g[prev[x]]
            OBVIOUS
          <5>1. prev[x] \in P /\ rank[prev[x]] < n
            BY <3>3
          <5>2. f[prev[x]] = value(f, prev[x])
            BY <3>1, <5>1
          <5> QED  BY <3>2, <5>1, <5>2
        <4> QED  BY <3>2, <4>1
      <3>4. below(g, n + 1)
        BY <3>3
      <3> QED  BY <3>2, <3>4
    <2> HIDE DEF S
    <2> QED  BY <2>1, <2>2, Induction
  <1>3. ASSUME NEW f \in [P -> X], NEW g \in [P -> X], NEW n \in Nat, below(f, n), below(g, n)
        PROVE  \A x \in P : rank[x] < n => f[x] = g[x]
    <2> DEFINE T == {m \in Nat : m < n => \A x \in P : rank[x] = m => f[x] = g[x]}
    <2>1. ASSUME NEW m \in Nat, \A k \in Nat : k < m => k \in T
          PROVE  m \in T
      <3> SUFFICES ASSUME m < n, NEW x \in P, rank[x] = m
                   PROVE  f[x] = g[x]
        OBVIOUS
      <3>1. x \in D => f[prev[x]] = g[prev[x]]
        <4> SUFFICES ASSUME x \in D
                     PROVE  f[prev[x]] = g[prev[x]]
          OBVIOUS
        <4>1. prev[x] \in P /\ rank[prev[x]] \in Nat /\ rank[prev[x]] < m
          OBVIOUS
        <4>2. rank[prev[x]] \in T /\ rank[prev[x]] < n
          BY <2>1, <4>1
        <4> QED  BY <4>1, <4>2
      <3>2. f[x] = value(f, x) /\ g[x] = value(g, x)
        BY <1>3
      <3> QED  BY <3>1, <3>2
    <2> HIDE DEF T
    <2>2. \A m \in Nat : m \in T
      BY <2>1, Descent
    <2> QED  BY <2>2 DEF T
  <1> HIDE DEF value
  <1> DEFINE F == [n \in Nat |-> CHOOSE f \in [P -> X] : below(f, n)]
             f == [x \in P |-> F[rank[x] + 1][x]]
  <1>4. \A n \in Nat : F[n] \in [P -> X] /\ below(F[n], n)
    BY <1>2
  <1> HIDE DEF F
  <1>5. f \in [P -> X] /\ \A x \in P : f[x] = F[rank[x] + 1][x]
    BY <1>4
  <1> HIDE DEF f
  <1>6. ASSUME NEW x \in P
        PROVE  f[x] = value(f, x)
    <2> DEFINE n == rank[x] + 1
    <2>1. n \in Nat /\ rank[x] < n
      OBVIOUS
    <2>2. x \in D => f[prev[x]] = F[n][prev[x]]
      <3> SUFFICES ASSUME x \in D
                   PROVE  f[prev[x]] = F[n][prev[x]]
        OBVIOUS
      <3> DEFINE y == prev[x]
                 m == rank[y] + 1
      <3>1. y \in P /\ m \in Nat /\ rank[y] < m /\ m <= n
        OBVIOUS
      <3>2. below(F[m], m) /\ below(F[n], m) /\ F[m] \in [P -> X] /\ F[n] \in [P -> X]
        <4>1. below(F[n], n) /\ below(F[m], m) /\ F[m] \in [P -> X] /\ F[n] \in [P -> X]
          BY <1>4, <2>1, <3>1
        <4> HIDE DEF y, m, n
        <4>2. below(F[n], m)
          BY <2>1, <3>1, <4>1
        <4> QED  BY <4>1, <4>2
      <3> HIDE DEF y, n
      <3>3. F[m][y] = F[n][y]
        <4> HIDE DEF m, below
        <4> QED  BY <1>3, <3>1, <3>2
      <3> QED  BY <1>5, <3>1, <3>3 DEF y
    <2>3. F[n][x] = value(F[n], x)
      BY <1>4, <2>1
    <2>4. value(f, x) = value(F[n], x)
      <3> HIDE DEF n
      <3> QED  BY <2>2 DEF value
    <2> QED  BY <1>5, <2>3, <2>4
  <1> QED  BY <1>5, <1>6 DEF value, Unfolds

Follows(f, D, prev, base, step) ==
  \A n \in Nat : f[n] = IF n \in D THEN step[<<n, f[prev[n]]>>] ELSE base[n]

\* The same for numbers.
LEMMA Recursion ==
  ASSUME NEW X, NEW D \in SUBSET Nat, NEW prev \in [D -> Nat],
         \A n \in D : prev[n] < n,
         NEW base \in [Nat -> X], NEW step \in [D \X X -> X]
  PROVE  \E f \in [Nat -> X] : Follows(f, D, prev, base, step)
  <1> DEFINE rank == [n \in Nat |-> n]
  <1>1. rank \in [Nat -> Nat] /\ \A n \in D : rank[prev[n]] < rank[n]
    OBVIOUS
  <1> HIDE DEF rank
  <1>2. \E f \in [Nat -> X] : Unfolds(f, Nat, D, prev, base, step)
    BY <1>1, RankedRecursion
  <1> QED  BY <1>2 DEF Unfolds, Follows
-----------------------------------------------------------------------------
(* writeVarInt and getVarIntSize *)

LEMMA Groups ==
  ASSUME NEW v \in Nat
  PROVE  /\ v % Radix \in 0 .. Radix - 1 /\ v \div Radix \in Nat
         /\ v = Radix * (v \div Radix) + (v % Radix)
         /\ v >= Radix => v \div Radix < v
  BY VarIntAssumption

LEMMA TopBit ==
  ASSUME NEW v \in 0 .. Radix - 1
  PROVE  (v + Radix) % Radix = v /\ v % Radix = v
  BY VarIntAssumption

LEMMA Prepended ==
  ASSUME NEW S, NEW b \in S, NEW t \in Seq(S)
  PROVE  /\ <<b>> \o t \in Seq(S) /\ Len(<<b>> \o t) = 1 + Len(t)
         /\ (<<b>> \o t)[1] = b /\ \A i \in 1 .. Len(t) : (<<b>> \o t)[i + 1] = t[i]
  OBVIOUS

\* The equations of the definitions hold: the recursion ends.
LEMMA WriteEquation ==
  /\ writeVarInt \in [Nat -> Seq(Nat)]
  /\ \A v \in Nat : writeVarInt[v] =
       IF v >= Radix THEN <<(v % Radix) + Radix>> \o writeVarInt[v \div Radix] ELSE <<v>>
  <1> DEFINE D == {v \in Nat : v >= Radix}
             prev == [v \in D |-> v \div Radix]
             base == [v \in Nat |-> <<v>>]
             step == [a \in D \X Seq(Nat) |-> <<(a[1] % Radix) + Radix>> \o a[2]]
             defines(f) == f = [v \in Nat |->
                IF v >= Radix THEN <<(v % Radix) + Radix>> \o f[v \div Radix] ELSE <<v>>]
  <1>1. Radix \in Nat /\ \A v \in Nat : (v % Radix) + Radix \in Nat
    BY Groups, VarIntAssumption
  <1>2. D \in SUBSET Nat /\ prev \in [D -> Nat] /\ \A v \in D : prev[v] < v
    BY Groups
  <1>3. base \in [Nat -> Seq(Nat)]
    OBVIOUS
  <1>4. step \in [D \X Seq(Nat) -> Seq(Nat)]
    <2>1. \A a \in D \X Seq(Nat) : <<(a[1] % Radix) + Radix>> \o a[2] \in Seq(Nat)
      BY <1>1
    <2> HIDE DEF D
    <2> QED  BY <2>1
  <1>5. PICK f \in [Nat -> Seq(Nat)] : Follows(f, D, prev, base, step)
    <2> HIDE DEF D, prev, base, step
    <2> QED  BY <1>2, <1>3, <1>4, Recursion
  <1>6. \A v \in Nat : f[v] =
          IF v >= Radix THEN <<(v % Radix) + Radix>> \o f[v \div Radix] ELSE <<v>>
    BY <1>5, Groups DEF Follows
  <1>7. defines(f)
    BY <1>6
  <1>8. writeVarInt = CHOOSE g : defines(g)
    BY DEF writeVarInt
  <1>9. defines(writeVarInt)
    <2> HIDE DEF defines
    <2> QED  BY <1>7, <1>8
  <1>10. \A v \in Nat : writeVarInt[v] =
          IF v >= Radix THEN <<(v % Radix) + Radix>> \o writeVarInt[v \div Radix] ELSE <<v>>
    BY <1>9
  <1> DEFINE T == {v \in Nat : writeVarInt[v] \in Seq(Nat)}
  <1>11. ASSUME NEW v \in Nat, \A m \in Nat : m < v => m \in T
         PROVE  v \in T
    <2>1. CASE v >= Radix
      <3>1. v \div Radix \in Nat /\ writeVarInt[v \div Radix] \in Seq(Nat)
        BY <1>11, <2>1, Groups
      <3>2. <<(v % Radix) + Radix>> \o writeVarInt[v \div Radix] \in Seq(Nat)
        BY <1>1, <3>1
      <3> QED  BY <1>10, <2>1, <3>2
    <2>2. CASE ~(v >= Radix)
      <3>1. <<v>> \in Seq(Nat)
        OBVIOUS
      <3> QED  BY <1>10, <2>2, <3>1
    <2> QED  BY <2>1, <2>2
  <1>12. \A v \in Nat : v \in T
    <2> HIDE DEF T
    <2> QED  BY <1>11, Descent
  <1>13. writeVarInt = [v \in Nat |-> writeVarInt[v]]
    BY <1>9
  <1> QED  BY <1>10, <1>12, <1>13

LEMMA SizeEquation ==
  /\ getVarIntSize \in [Nat -> Nat]
  /\ \A v \in Nat : getVarIntSize[v] =
       IF v >= Radix THEN 1 + getVarIntSize[v \div Radix] ELSE 1
  <1> DEFINE D == {v \in Nat : v >= Radix}
             prev == [v \in D |-> v \div Radix]
             base == [v \in Nat |-> 1]
             step == [a \in D \X Nat |-> 1 + a[2]]
             defines(f) ==
               f = [v \in Nat |-> IF v >= Radix THEN 1 + f[v \div Radix] ELSE 1]
  <1>1. D \in SUBSET Nat /\ prev \in [D -> Nat] /\ \A v \in D : prev[v] < v
    BY Groups
  <1>2. base \in [Nat -> Nat] /\ step \in [D \X Nat -> Nat]
    OBVIOUS
  <1>3. PICK f \in [Nat -> Nat] : Follows(f, D, prev, base, step)
    <2> HIDE DEF D, prev, base, step
    <2> QED  BY <1>1, <1>2, Recursion
  <1>4. defines(f)
    BY <1>3, Groups DEF Follows
  <1>5. getVarIntSize = CHOOSE g : defines(g)
    BY DEF getVarIntSize
  <1>6. defines(getVarIntSize)
    <2> HIDE DEF defines
    <2> QED  BY <1>4, <1>5
  <1> DEFINE T == {v \in Nat : getVarIntSize[v] \in Nat}
  <1>7. ASSUME NEW v \in Nat, \A m \in Nat : m < v => m \in T
        PROVE  v \in T
    BY <1>6, <1>7, Groups
  <1>8. \A v \in Nat : v \in T
    <2> HIDE DEF T
    <2> QED  BY <1>7, Descent
  <1> QED  BY <1>6, <1>8

\* The size is reckoned as it is written, only the last byte has no top bit, and
\* every byte is below twice the radix.
THEOREM Written ==
  ASSUME NEW v \in Nat
  PROVE  LET w == writeVarInt[v]
         IN  /\ w \in Seq(0 .. 2 * Radix - 1)
             /\ Len(w) = getVarIntSize[v] /\ Len(w) > 0
             /\ \A i \in 1 .. Len(w) : More(w[i]) <=> i < Len(w)
  <1> DEFINE good(w, n) == /\ w \in Seq(0 .. 2 * Radix - 1) /\ Len(w) = n /\ Len(w) > 0
                           /\ \A i \in 1 .. Len(w) : w[i] >= Radix <=> i < Len(w)
             T == {n \in Nat : good(writeVarInt[n], getVarIntSize[n])}
  <1>1. ASSUME NEW n \in Nat, \A m \in Nat : m < n => m \in T
        PROVE  n \in T
    <2>1. CASE n < Radix
      <3>1. ~(n >= Radix) /\ n \in 0 .. 2 * Radix - 1
        BY <2>1, VarIntAssumption
      <3>2. writeVarInt[n] = <<n>>
        BY <3>1, WriteEquation, Zenon
      <3>3. getVarIntSize[n] = 1
        BY <3>1, SizeEquation, Zenon
      <3>4. good(<<n>>, 1)
        BY <3>1
      <3> HIDE DEF good
      <3> QED  BY <3>2, <3>3, <3>4
    <2>2. CASE n >= Radix
      <3> DEFINE b == (n % Radix) + Radix
                 w == writeVarInt[n \div Radix]
      <3>1. writeVarInt[n] = <<b>> \o w /\ getVarIntSize[n] = 1 + getVarIntSize[n \div Radix]
        BY <2>2, WriteEquation, SizeEquation
      <3>2. good(w, getVarIntSize[n \div Radix])
        BY <1>1, <2>2, Groups
      <3>3. b \in 0 .. 2 * Radix - 1 /\ b >= Radix
        BY Groups, VarIntAssumption
      <3> HIDE DEF b, w
      <3>4. good(<<b>> \o w, 1 + getVarIntSize[n \div Radix])
        <4>1. /\ <<b>> \o w \in Seq(0 .. 2 * Radix - 1)
              /\ Len(<<b>> \o w) = 1 + Len(w)
              /\ (<<b>> \o w)[1] = b
              /\ \A i \in 2 .. 1 + Len(w) : (<<b>> \o w)[i] = w[i - 1]
          BY <3>2, <3>3
        <4>2. ASSUME NEW i \in 1 .. Len(<<b>> \o w)
              PROVE  (<<b>> \o w)[i] >= Radix <=> i < Len(<<b>> \o w)
          BY <3>2, <3>3, <4>1
        <4> DEFINE bw == <<b>> \o w
                   k == getVarIntSize[n \div Radix]
        <4>3. Len(w) = k /\ Len(w) > 0 /\ Len(w) \in Nat
          BY <3>2
        <4>4. Len(bw) = 1 + k /\ Len(bw) > 0 /\ bw \in Seq(0 .. 2 * Radix - 1)
          <5> HIDE DEF k, bw
          <5>1. Len(bw) = 1 + Len(w) /\ bw \in Seq(0 .. 2 * Radix - 1)
            BY <4>1 DEF bw
          <5> QED  BY <4>3, <5>1
        <4> HIDE DEF bw, k
        <4> QED  BY <4>2, <4>4 DEF bw, k
      <3> QED  BY <3>1, <3>4
    <2> QED  BY <2>1, <2>2, VarIntAssumption
  <1>2. v \in T
    <2> HIDE DEF T
    <2> QED  BY <1>1, Descent
  <1> QED  BY <1>2 DEF More
-----------------------------------------------------------------------------
(* readVarInt *)

LEMMA WrittenSeq ==
  ASSUME NEW v \in Nat
  PROVE  /\ writeVarInt[v] \in Seq(Nat)
         /\ Len(writeVarInt[v]) \in Nat /\ Len(writeVarInt[v]) > 0
  <1>1. writeVarInt[v] \in Seq(Nat)
    BY WriteEquation
  <1>2. Len(writeVarInt[v]) > 0
    BY Written, Zenon
  <1> QED  BY <1>1, <1>2

\* The value of the bytes from q to last, as readVarInt takes it together.
Takes(val, bytes, p, last) ==
  \A q \in p .. last :
    val[q] = (bytes[q] % Radix) + (IF q = last THEN 0 ELSE Radix * val[q + 1])

\* Groups that end at last have the value that was written as them, wherever
\* they begin.
LEMMA TakesWritten ==
  ASSUME NEW bytes, NEW p \in Nat, NEW last \in Nat, NEW val, Takes(val, bytes, p, last),
         NEW n \in Nat, NEW r \in p .. last, last = r + Len(writeVarInt[n]) - 1,
         \A i \in 1 .. Len(writeVarInt[n]) : bytes[r + i - 1] = writeVarInt[n][i]
  PROVE  val[r] = n
  <1> DEFINE written(q, m) ==
               /\ last = q + Len(writeVarInt[m]) - 1
               /\ \A i \in 1 .. Len(writeVarInt[m]) : bytes[q + i - 1] = writeVarInt[m][i]
             S == {m \in Nat : \A q \in p .. last : written(q, m) => val[q] = m}
  <1>1. ASSUME NEW m \in Nat, \A k \in Nat : k < m => k \in S
        PROVE  m \in S
    <2> SUFFICES ASSUME NEW q \in p .. last, written(q, m)
                 PROVE  val[q] = m
      OBVIOUS
    <2> DEFINE w == writeVarInt[m]
    <2>1. w \in Seq(Nat) /\ Len(w) \in Nat /\ Len(w) > 0
      BY WrittenSeq
    <2>2. bytes[q] = w[1]
      BY <2>1
    <2>3. val[q] = (bytes[q] % Radix) + (IF q = last THEN 0 ELSE Radix * val[q + 1])
      BY DEF Takes
    <2>4. CASE m < Radix
      <3>1. ~(m >= Radix) /\ m \in 0 .. Radix - 1
        BY <2>4, VarIntAssumption
      <3>2. w = <<m>>
        BY <3>1, WriteEquation, Zenon
      <3>3. w[1] = m /\ q = last
        BY <3>2
      <3>4. bytes[q] % Radix = m
        BY <2>2, <3>1, <3>3, TopBit
      <3> QED  BY <2>3, <3>3, <3>4
    <2>5. CASE m >= Radix
      <3> DEFINE k == m \div Radix
                 b == (m % Radix) + Radix
                 t == writeVarInt[k]
      <3>1. k \in Nat /\ k < m /\ m % Radix \in 0 .. Radix - 1 /\ m = Radix * k + (m % Radix)
        BY <2>5, Groups
      <3>2. w = <<b>> \o t
        BY <2>5, WriteEquation, Zenon
      <3>3. t \in Seq(Nat) /\ Len(t) \in Nat /\ Len(t) > 0
        BY <3>1, WrittenSeq
      <3>4. b \in Nat
        BY <3>1, VarIntAssumption
      <3> HIDE DEF w, t, b, k
      <3>5. Len(w) = 1 + Len(t) /\ w[1] = b /\ \A i \in 1 .. Len(t) : w[i + 1] = t[i]
        BY <3>2, <3>3, <3>4, Prepended
      <3>6. q + 1 \in p .. last /\ q # last
        <4>1. last = q + Len(w) - 1 /\ q \in Nat
          BY DEF w
        <4> QED  BY <3>3, <3>5, <4>1
      <3>7. \A i \in 1 .. Len(t) : bytes[(q + 1) + i - 1] = t[i]
        <4> SUFFICES ASSUME NEW i \in 1 .. Len(t)
                     PROVE  bytes[(q + 1) + i - 1] = t[i]
          OBVIOUS
        <4>1. i + 1 \in 1 .. Len(w) /\ (q + 1) + i - 1 = q + (i + 1) - 1
          <5>1. q \in Nat /\ i \in Nat
            OBVIOUS
          <5> QED  BY <3>3, <3>5, <5>1
        <4>2. bytes[q + (i + 1) - 1] = w[i + 1]
          BY <4>1 DEF w
        <4> QED  BY <3>5, <4>1, <4>2
      <3>8. last = (q + 1) + Len(t) - 1
        <4>1. last = q + Len(w) - 1 /\ q \in Nat
          BY DEF w
        <4> QED  BY <3>3, <3>5, <4>1
      <3>9. val[q + 1] = k
        BY <1>1, <3>1, <3>6, <3>7, <3>8 DEF t
      <3>10. bytes[q] % Radix = m % Radix
        BY <2>2, <3>1, <3>5, TopBit DEF b
      <3>11. val[q] = (m % Radix) + Radix * k
        BY <2>3, <3>6, <3>9, <3>10
      <3>12. Radix * k \in Nat
        BY <3>1, VarIntAssumption
      <3> QED  BY <3>1, <3>11, <3>12
    <2> QED  BY <2>4, <2>5, VarIntAssumption
  <1>2. n \in S
    <2> HIDE DEF S
    <2> QED  BY <1>1, Descent
  <1> QED  BY <1>2

\* The equation of the value holds: the recursion ends at the last byte.
LEMMA TakesExists ==
  ASSUME NEW bytes \in Seq(Nat), NEW p \in Nat \ {0}, NEW last \in Nat,
         p <= last, last <= Len(bytes)
  PROVE  \E val : val = [q \in p .. last |->
            (bytes[q] % Radix) + (IF q = last THEN 0 ELSE Radix * val[q + 1])]
  <1> DEFINE D == Nat \ {0}
             prev == [k \in D |-> k - 1]
             digit == [k \in Nat |-> IF k < last THEN bytes[last - k] % Radix ELSE 0]
             step == [a \in D \X Nat |-> digit[a[1]] + Radix * a[2]]
  <1>1. digit \in [Nat -> Nat]
    <2>1. \A k \in Nat : k < last => bytes[last - k] \in Nat
      OBVIOUS
    <2>2. \A x \in Nat : x % Radix \in Nat
      BY Groups, VarIntAssumption
    <2> QED  BY <2>1, <2>2
  <1>2. D \in SUBSET Nat /\ prev \in [D -> Nat] /\ \A k \in D : prev[k] < k
    OBVIOUS
  <1>3. step \in [D \X Nat -> Nat]
    <2>1. \A x \in Nat : Radix * x \in Nat
      BY VarIntAssumption
    <2> HIDE DEF digit
    <2>2. \A a \in D \X Nat : digit[a[1]] + Radix * a[2] \in Nat
      <3> SUFFICES ASSUME NEW a \in D \X Nat
                   PROVE  digit[a[1]] + Radix * a[2] \in Nat
        OBVIOUS
      <3>1. digit[a[1]] \in Nat /\ Radix * a[2] \in Nat
        BY <1>1, <2>1
      <3> QED  BY <3>1
    <2> QED  BY <2>2
  <1>4. PICK f \in [Nat -> Nat] : Follows(f, D, prev, digit, step)
    <2> HIDE DEF D, prev, digit, step
    <2> QED  BY <1>1, <1>2, <1>3, Recursion
  <1>5. f[0] = digit[0] /\ \A k \in D : f[k] = digit[k] + Radix * f[k - 1]
    <2> HIDE DEF digit
    <2>1. f[0] = digit[0]
      BY <1>4 DEF Follows
    <2>2. ASSUME NEW k \in D
          PROVE  f[k] = digit[k] + Radix * f[k - 1]
      <3>1. k \in Nat /\ k - 1 \in Nat /\ prev[k] = k - 1
        OBVIOUS
      <3>2. f[k] = step[<<k, f[k - 1]>>]
        BY <1>4, <3>1 DEF Follows
      <3>3. <<k, f[k - 1]>> \in D \X Nat
        BY <3>1
      <3> QED  BY <3>2, <3>3
    <2> QED  BY <2>1, <2>2
  <1> DEFINE val == [q \in p .. last |-> f[last - q]]
  <1>6. ASSUME NEW q \in p .. last
        PROVE  val[q] = (bytes[q] % Radix) + (IF q = last THEN 0 ELSE Radix * val[q + 1])
    <2>1. last - q \in Nat /\ digit[last - q] = bytes[q] % Radix
      <3>1. last - q \in Nat /\ last - q < last /\ last - (last - q) = q
        OBVIOUS
      <3> QED  BY <3>1
    <2>2. CASE q = last
      <3>1. val[q] = digit[0] /\ digit[0] = bytes[q] % Radix /\ digit[0] \in Nat
        BY <1>1, <1>5, <2>1, <2>2
      <3> QED  BY <2>2, <3>1
    <2>3. CASE q # last
      <3>1. last - q \in D /\ (last - q) - 1 = last - (q + 1) /\ q + 1 \in p .. last
        BY <2>3
      <3> HIDE DEF digit
      <3> QED  BY <1>5, <2>1, <2>3, <3>1
    <2> QED  BY <2>2, <2>3
  <1> QED  BY <1>6

\* What was written at a position is read there, whatever follows it, and the
\* reading ends where it ends.
THEOREM ReadsBack ==
  ASSUME NEW bytes \in Seq(Nat), NEW p \in Nat \ {0}, NEW v \in Nat,
         p + Len(writeVarInt[v]) - 1 <= Len(bytes),
         \A i \in 1 .. Len(writeVarInt[v]) : bytes[p + i - 1] = writeVarInt[v][i]
  PROVE  readVarInt(bytes, p) = [value |-> v, next |-> p + Len(writeVarInt[v])]
  <1> DEFINE w == writeVarInt[v]
             end == p + Len(w) - 1
             stops(q) == ~More(bytes[q]) /\ \A r \in p .. q - 1 : More(bytes[r])
             last == CHOOSE q \in p .. Len(bytes) : stops(q)
             equation(f) == f = [q \in p .. last |->
               (bytes[q] % Radix) + (IF q = last THEN 0 ELSE Radix * f[q + 1])]
             val == CHOOSE f : equation(f)
  <1>1. /\ w \in Seq(Nat) /\ Len(w) \in Nat /\ Len(w) > 0
        /\ \A i \in 1 .. Len(w) : More(w[i]) <=> i < Len(w)
    <2>1. \A i \in 1 .. Len(w) : More(w[i]) <=> i < Len(w)
      BY Written, Zenon
    <2> QED  BY <2>1, WrittenSeq
  <1>2. end \in p .. Len(bytes) /\ end \in Nat
    BY <1>1
  <1>3. \A r \in p .. end : More(bytes[r]) <=> r < end
    <2> SUFFICES ASSUME NEW r \in p .. end
                 PROVE  More(bytes[r]) <=> r < end
      OBVIOUS
    <2>1. r - p + 1 \in 1 .. Len(w) /\ p + (r - p + 1) - 1 = r
      BY <1>1
    <2>2. bytes[r] = w[r - p + 1]
      BY <2>1
    <2> HIDE DEF w
    <2> QED  BY <1>1, <2>1, <2>2
  <1>4. last = end
    <2> HIDE DEF end, w
    <2>1. stops(end)
      BY <1>2, <1>3
    <2>2. \A q \in p .. Len(bytes) : stops(q) => q = end
      BY <1>2, <1>3
    <2> HIDE DEF stops
    <2> QED  BY <1>2, <2>1, <2>2
  <1>5. \E f : equation(f)
    <2> HIDE DEF last, end
    <2>1. end \in Nat /\ p <= end /\ end <= Len(bytes)
      BY <1>2
    <2>2. \E f : f = [q \in p .. end |->
            (bytes[q] % Radix) + (IF q = end THEN 0 ELSE Radix * f[q + 1])]
      BY <2>1, TakesExists
    <2> QED  BY <1>4, <2>2
  <1>6. equation(val)
    <2> HIDE DEF equation
    <2> QED  BY <1>5
  <1> HIDE DEF val, last
  <1>7. Takes(val, bytes, p, end)
    BY <1>4, <1>6 DEF Takes
  <1>8. val[p] = v
    BY <1>1, <1>2, <1>7, TakesWritten
  <1>9. readVarInt(bytes, p) = [value |-> val[p], next |-> last + 1]
    BY DEF readVarInt, val, last
  <1> QED  BY <1>1, <1>4, <1>8, <1>9
-----------------------------------------------------------------------------
(* Rows of items *)

RowEquation(f, n, first, step) ==
  f = [i \in 1 .. n |-> IF i = 1 THEN first ELSE step[<<i, f[i - 1]>>]]

\* A function whose value at an item depends on that at the item before.
LEMMA RowRecursion ==
  ASSUME NEW X, NEW n \in Nat, NEW first \in X, NEW step \in [(2 .. n) \X X -> X]
  PROVE  /\ \E f : RowEquation(f, n, first, step)
         /\ \A f : RowEquation(f, n, first, step) => f \in [1 .. n -> X]
  <1> DEFINE D == 2 .. n
             prev == [i \in D |-> i - 1]
             base == [i \in Nat |-> first]
  <1>1. D \in SUBSET Nat /\ prev \in [D -> Nat] /\ \A i \in D : prev[i] < i
    OBVIOUS
  <1>2. base \in [Nat -> X] /\ step \in [D \X X -> X]
    OBVIOUS
  <1>3. PICK g \in [Nat -> X] : Follows(g, D, prev, base, step)
    <2> HIDE DEF D, prev, base
    <2> QED  BY <1>1, <1>2, Recursion
  <1> DEFINE f == [i \in 1 .. n |-> g[i]]
  <1>4. ASSUME NEW i \in 1 .. n
        PROVE  f[i] = IF i = 1 THEN first ELSE step[<<i, f[i - 1]>>]
    <2>1. CASE i = 1
      <3>1. 1 \in Nat /\ 1 \notin D /\ base[1] = first
        OBVIOUS
      <3>2. g[1] = first
        BY <1>3, <3>1 DEF Follows
      <3> QED  BY <2>1, <3>2
    <2>2. CASE i # 1
      <3>1. i \in D /\ i - 1 \in 1 .. n /\ i \in Nat /\ prev[i] = i - 1
        BY <2>2
      <3>2. g[i] = step[<<i, g[i - 1]>>]
        BY <1>3, <3>1 DEF Follows
      <3> QED  BY <2>2, <3>1, <3>2
    <2> QED  BY <2>1, <2>2
  <1>5. RowEquation(f, n, first, step)
    BY <1>4 DEF RowEquation
  <1>6. ASSUME NEW h, RowEquation(h, n, first, step)
        PROVE  h \in [1 .. n -> X]
    <2> DEFINE S == {i \in Nat : i \in 1 .. n => h[i] \in X}
    <2>1. \A i \in 1 .. n : h[i] = IF i = 1 THEN first ELSE step[<<i, h[i - 1]>>]
      BY <1>6 DEF RowEquation
    <2>2. ASSUME NEW i \in Nat, i \in S
          PROVE  i + 1 \in S
      <3> SUFFICES ASSUME i + 1 \in 1 .. n
                   PROVE  h[i + 1] \in X
        OBVIOUS
      <3>1. CASE i = 0
        <4>1. i + 1 = 1 /\ 1 \in 1 .. n
          BY <3>1
        <4>2. h[1] = first
          BY <2>1, <4>1
        <4> QED  BY <4>1, <4>2
      <3>2. CASE i # 0
        <4>1. i \in 1 .. n /\ h[i] \in X /\ i + 1 \in 2 .. n /\ (i + 1) - 1 = i /\ i + 1 # 1
          BY <2>2, <3>2
        <4>2. h[i + 1] = step[<<i + 1, h[i]>>]
          BY <2>1, <4>1
        <4> QED  BY <4>1, <4>2
      <3> QED  BY <3>1, <3>2
    <2>3. \A i \in Nat : i \in S
      <3>1. 0 \in S
        OBVIOUS
      <3> HIDE DEF S
      <3> QED  BY <2>2, <3>1, Induction
    <2>4. \A i \in 1 .. n : h[i] \in X
      BY <2>3
    <2> QED  BY <1>6, <2>4 DEF RowEquation
  <1> QED  BY <1>5, <1>6

\* at says where each of the items begins, in a row of items of these lengths.
Places(at, n, lengths) ==
  /\ at \in [1 .. n + 1 -> Nat]
  /\ \A i \in 1 .. n : at[i + 1] = at[i] + lengths[i]

\* Later items begin after the end of earlier ones.
LEMMA PlacesApart ==
  ASSUME NEW n \in Nat, NEW lengths \in [1 .. n -> Nat], NEW at, Places(at, n, lengths),
         NEW i \in 1 .. n, NEW j \in 1 .. n + 1, i < j
  PROVE  at[i] + lengths[i] <= at[j]
  <1> DEFINE S == {k \in Nat : k \in i + 1 .. n + 1 => at[i] + lengths[i] <= at[k]}
  <1>1. ASSUME NEW k \in Nat, k \in S
        PROVE  k + 1 \in S
    <2> SUFFICES ASSUME k + 1 \in i + 1 .. n + 1
                 PROVE  at[i] + lengths[i] <= at[k + 1]
      OBVIOUS
    <2>1. k \in 1 .. n /\ at[k + 1] = at[k] + lengths[k]
      BY DEF Places
    <2>2. at[k] \in Nat /\ lengths[k] \in Nat /\ at[i] \in Nat /\ lengths[i] \in Nat
      BY <2>1 DEF Places
    <2>3. CASE k = i
      BY <2>1, <2>2, <2>3
    <2>4. CASE k # i
      <3>1. k \in i + 1 .. n + 1
        BY <2>1, <2>4
      <3>2. at[i] + lengths[i] <= at[k]
        BY <1>1, <3>1
      <3> QED  BY <2>1, <2>2, <3>2
    <2> QED  BY <2>3, <2>4
  <1>2. \A k \in Nat : k \in S
    <2>1. 0 \in S
      OBVIOUS
    <2> HIDE DEF S
    <2> QED  BY <1>1, <2>1, Induction
  <1> QED  BY <1>2

PlacesEquation(f, n, start, sizes) ==
  f = [i \in 1 .. n + 1 |-> IF i = 1 THEN start ELSE f[i - 1] + sizes[i - 1]]

\* There is one way to place items of given sizes one after the other.
LEMMA PlacesExist ==
  ASSUME NEW start \in Nat, NEW n \in Nat, NEW sizes \in [1 .. n -> Nat]
  PROVE  /\ \E f : PlacesEquation(f, n, start, sizes)
         /\ \A f : PlacesEquation(f, n, start, sizes) => Places(f, n, sizes) /\ f[1] = start
  <1> DEFINE N == n + 1
             step == [a \in (2 .. N) \X Nat |-> a[2] + sizes[a[1] - 1]]
  <1>1. N \in Nat /\ step \in [(2 .. N) \X Nat -> Nat]
    OBVIOUS
  <1>2. PICK f : RowEquation(f, N, start, step) /\ f \in [1 .. N -> Nat]
    <2> HIDE DEF step, N
    <2> QED  BY <1>1, RowRecursion
  <1>3. PlacesEquation(f, n, start, sizes)
    <2>1. ASSUME NEW i \in 1 .. N
          PROVE  f[i] = IF i = 1 THEN start ELSE f[i - 1] + sizes[i - 1]
      <3>1. f[i] = IF i = 1 THEN start ELSE step[<<i, f[i - 1]>>]
        <4> HIDE DEF step
        <4> QED  BY <1>2 DEF RowEquation
      <3>2. ASSUME i # 1
            PROVE  step[<<i, f[i - 1]>>] = f[i - 1] + sizes[i - 1]
        <4>1. i \in 2 .. N /\ f[i - 1] \in Nat
          BY <1>2, <3>2
        <4> QED  BY <4>1
      <3> QED  BY <3>1, <3>2
    <2> QED  BY <1>2, <2>1 DEF PlacesEquation
  <1>4. ASSUME NEW at, PlacesEquation(at, n, start, sizes)
        PROVE  Places(at, n, sizes) /\ at[1] = start
    <2>1. \A i \in 1 .. N : at[i] = IF i = 1 THEN start ELSE at[i - 1] + sizes[i - 1]
      BY <1>4 DEF PlacesEquation
    <2>2. at[1] = start
      BY <2>1
    <2>3. \A i \in 1 .. n : at[i + 1] = at[i] + sizes[i]
      <3> SUFFICES ASSUME NEW i \in 1 .. n
                   PROVE  at[i + 1] = at[i] + sizes[i]
        OBVIOUS
      <3>1. i + 1 \in 1 .. N /\ i + 1 # 1 /\ (i + 1) - 1 = i
        OBVIOUS
      <3> QED  BY <2>1, <3>1
    <2> DEFINE S == {i \in Nat : i \in 1 .. N => at[i] \in Nat}
    <2>4. ASSUME NEW i \in Nat, i \in S
          PROVE  i + 1 \in S
      <3> SUFFICES ASSUME i + 1 \in 1 .. N
                   PROVE  at[i + 1] \in Nat
        OBVIOUS
      <3>1. CASE i = 0
        BY <2>2, <3>1
      <3>2. CASE i # 0
        BY <2>3, <2>4, <3>2
      <3> QED  BY <3>1, <3>2
    <2>5. \A i \in Nat : i \in S
      <3>1. 0 \in S
        OBVIOUS
      <3> HIDE DEF S
      <3> QED  BY <2>4, <3>1, Induction
    <2>6. at \in [1 .. N -> Nat]
      <3>1. \A i \in 1 .. N : at[i] \in Nat
        BY <2>5
      <3> QED  BY <1>4, <3>1 DEF PlacesEquation
    <2> QED  BY <2>2, <2>3, <2>6 DEF Places
  <1> QED  BY <1>3, <1>4

InPlace(row, at, n, items) ==
  \A i \in 1 .. n : \A j \in 1 .. Len(items[i]) : row[at[i] + j] = items[i][j]

\* In the row that FlattenSeq makes, each item stands at its place.
LEMMA Flattened ==
  ASSUME NEW S, NEW n \in Nat, NEW items \in [1 .. n -> Seq(S)],
         NEW lengths, \A i \in 1 .. n : lengths[i] = Len(items[i]),
         NEW at, Places(at, n, lengths), at[1] = 0
  PROVE  /\ FlattenSeq(items) \in Seq(S) /\ Len(FlattenSeq(items)) = at[n + 1]
         /\ InPlace(FlattenSeq(items), at, n, items)
  <1>1. Len(items) = n /\ items \in Seq(Seq(S))
    OBVIOUS
  <1>2. CASE n = 0
    <2>1. FlattenSeq(items) = items /\ items = <<>>
      BY <1>1, <1>2 DEF FlattenSeq
    <2> QED  BY <1>2, <2>1 DEF InPlace
  <1>3. CASE n # 0
    <2> DEFINE step == [a \in (2 .. n) \X Seq(S) |-> a[2] \o items[a[1]]]
               equation(f) ==
                 f = [i \in 1 .. n |-> IF i = 1 THEN items[i] ELSE f[i - 1] \o items[i]]
               flat == CHOOSE f : equation(f)
               good(i) == /\ Len(flat[i]) = at[i + 1]
                          /\ \A k \in 1 .. i : \A j \in 1 .. Len(items[k]) :
                               flat[i][at[k] + j] = items[k][j]
               T == {i \in Nat : i \in 1 .. n => good(i)}
    <2>1. items[1] \in Seq(S) /\ step \in [(2 .. n) \X Seq(S) -> Seq(S)]
      <3>1. \A a \in (2 .. n) \X Seq(S) : a[2] \o items[a[1]] \in Seq(S)
        <4> SUFFICES ASSUME NEW a \in (2 .. n) \X Seq(S)
                     PROVE  a[2] \o items[a[1]] \in Seq(S)
          OBVIOUS
        <4>1. a[2] \in Seq(S) /\ items[a[1]] \in Seq(S)
          OBVIOUS
        <4> QED  BY <4>1
      <3> QED  BY <1>3, <3>1
    <2>2. /\ \E f : RowEquation(f, n, items[1], step)
          /\ \A f : RowEquation(f, n, items[1], step) => f \in [1 .. n -> Seq(S)]
      <3> HIDE DEF step
      <3> QED  BY <2>1, RowRecursion
    <2>3. ASSUME NEW f, RowEquation(f, n, items[1], step)
          PROVE  equation(f)
      <3>1. f \in [1 .. n -> Seq(S)]
        BY <2>2, <2>3
      <3>2. ASSUME NEW i \in 1 .. n
            PROVE  f[i] = IF i = 1 THEN items[i] ELSE f[i - 1] \o items[i]
        <4>1. f[i] = IF i = 1 THEN items[1] ELSE step[<<i, f[i - 1]>>]
          <5> HIDE DEF step
          <5> QED  BY <2>3 DEF RowEquation
        <4>2. ASSUME i # 1
              PROVE  step[<<i, f[i - 1]>>] = f[i - 1] \o items[i]
          <5>1. i \in 2 .. n /\ f[i - 1] \in Seq(S)
            BY <3>1, <4>2
          <5> QED  BY <5>1
        <4> QED  BY <4>1, <4>2
      <3> QED  BY <3>1, <3>2
    <2>4. ASSUME NEW f, equation(f)
          PROVE  RowEquation(f, n, items[1], step)
      <3>1. ASSUME NEW i \in 1 .. n
            PROVE  f[i] = IF i = 1 THEN items[i] ELSE f[i - 1] \o items[i]
        BY <2>4
      <3> DEFINE U == {i \in Nat : i \in 1 .. n => f[i] \in Seq(S)}
      <3>2. ASSUME NEW i \in Nat, i \in U
            PROVE  i + 1 \in U
        <4> SUFFICES ASSUME i + 1 \in 1 .. n
                     PROVE  f[i + 1] \in Seq(S)
          OBVIOUS
        <4>1. items[i + 1] \in Seq(S)
          OBVIOUS
        <4>2. i # 0 => f[i] \in Seq(S)
          BY <3>2
        <4>3. f[i + 1] = IF i = 0 THEN items[i + 1] ELSE f[i] \o items[i + 1]
          BY <3>1
        <4> QED  BY <4>1, <4>2, <4>3
      <3>3. \A i \in Nat : i \in U
        <4>1. 0 \in U
          OBVIOUS
        <4> HIDE DEF U
        <4> QED  BY <3>2, <4>1, Induction
      <3>4. ASSUME NEW i \in 1 .. n, i # 1
            PROVE  step[<<i, f[i - 1]>>] = f[i - 1] \o items[i]
        <4>1. i \in 2 .. n /\ f[i - 1] \in Seq(S)
          BY <3>3, <3>4
        <4> QED  BY <4>1
      <3> HIDE DEF step
      <3>5. ASSUME NEW i \in 1 .. n
            PROVE  f[i] = IF i = 1 THEN items[1] ELSE step[<<i, f[i - 1]>>]
        BY <3>1, <3>4
      <3> QED  BY <2>4, <3>5 DEF RowEquation
    <2>5. equation(flat) /\ flat \in [1 .. n -> Seq(S)]
      <3> HIDE DEF equation, step
      <3>1. equation(flat)
        BY <2>2, <2>3
      <3> HIDE DEF flat
      <3> QED  BY <2>2, <2>4, <3>1
    <2> HIDE DEF flat
    <2>6. FlattenSeq(items) = flat[n]
      BY <1>1, <1>3 DEF FlattenSeq, flat
    <2>7. ASSUME NEW i \in Nat, i \in T
          PROVE  i + 1 \in T
      <3> SUFFICES ASSUME i + 1 \in 1 .. n
                   PROVE  good(i + 1)
        OBVIOUS
      <3> DEFINE item == items[i + 1]
      <3>1. item \in Seq(S) /\ Len(item) \in Nat /\ at[(i + 1) + 1] = at[i + 1] + Len(item)
        <4>1. i + 1 \in 1 .. n /\ items[i + 1] \in Seq(S) /\ lengths[i + 1] = Len(items[i + 1])
          OBVIOUS
        <4> QED  BY <4>1 DEF Places
      <3>2. CASE i = 0
        <4>1. flat[1] = items[1]
          BY <2>5, <3>2
        <4> QED  BY <3>1, <3>2, <4>1
      <3>3. CASE i # 0
        <4> DEFINE before == flat[i]
        <4>1. i \in 1 .. n /\ before \in Seq(S) /\ good(i)
          <5>1. i \in 1 .. n
            BY <3>3
          <5>2. good(i)
            BY <2>7, <5>1
          <5> HIDE DEF good
          <5> QED  BY <2>5, <5>1, <5>2
        <4>2. flat[i + 1] = before \o item
          <5>1. i + 1 # 1 /\ (i + 1) - 1 = i
            BY <3>3
          <5>2. \A m \in 1 .. n : flat[m] = IF m = 1 THEN items[m] ELSE flat[m - 1] \o items[m]
            BY <2>5
          <5> QED  BY <5>1, <5>2
        <4>3. /\ Len(before \o item) = Len(before) + Len(item)
              /\ \A j \in 1 .. Len(before) : (before \o item)[j] = before[j]
              /\ \A j \in 1 .. Len(item) : (before \o item)[Len(before) + j] = item[j]
          <5> HIDE DEF before, item
          <5> QED  BY <3>1, <4>1
        <4>4. ASSUME NEW k \in 1 .. i, NEW j \in 1 .. Len(items[k])
              PROVE  (before \o item)[at[k] + j] = items[k][j]
          <5>1. k \in 1 .. n /\ Len(items[k]) \in Nat /\ at[k] \in Nat /\ i + 1 \in 1 .. n + 1 /\ k < i + 1
            <6>1. k \in 1 .. n /\ k < i + 1 /\ i + 1 \in 1 .. n + 1 /\ k \in 1 .. n + 1
              BY <4>1
            <6>2. items[k] \in Seq(S) /\ at[k] \in Nat
              BY <6>1 DEF Places
            <6> QED  BY <6>1, <6>2
          <5>2. at[k] + Len(items[k]) <= at[i + 1]
            <6> DEFINE sizes == [m \in 1 .. n |-> Len(items[m])]
            <6>1. sizes \in [1 .. n -> Nat] /\ Places(at, n, sizes)
              <7>1. \A m \in 1 .. n : Len(items[m]) \in Nat /\ sizes[m] = lengths[m]
                OBVIOUS
              <7> HIDE DEF sizes
              <7>2. Places(at, n, sizes)
                BY <7>1 DEF Places
              <7> QED  BY <7>1, <7>2 DEF sizes
            <6>2. sizes[k] = Len(items[k])
              BY <5>1
            <6> HIDE DEF sizes
            <6>3. at[k] + sizes[k] <= at[i + 1]
              BY <5>1, <6>1, PlacesApart
            <6> QED  BY <6>2, <6>3
          <5>3. at[k] + j \in 1 .. Len(before)
            <6>1. Len(before) = at[i + 1] /\ j \in Nat /\ j >= 1 /\ j <= Len(items[k])
              BY <4>1, <5>1
            <6> HIDE DEF before
            <6> QED  BY <5>1, <5>2, <6>1
          <5> HIDE DEF item
          <5> QED  BY <4>1, <4>3, <5>3
        <4>5. Len(before) = at[i + 1]
          BY <4>1
        <4> HIDE DEF before, item
        <4>6. Len(flat[i + 1]) = at[(i + 1) + 1]
          BY <3>1, <4>2, <4>3, <4>5
        <4>7. ASSUME NEW k \in 1 .. i + 1, NEW j \in 1 .. Len(items[k])
              PROVE  flat[i + 1][at[k] + j] = items[k][j]
          <5>1. CASE k = i + 1
            BY <4>2, <4>3, <4>5, <5>1 DEF item
          <5>2. CASE k # i + 1
            <6>1. k \in 1 .. i
              BY <5>2
            <6> QED  BY <4>2, <4>4, <6>1
          <5> QED  BY <5>1, <5>2
        <4> QED  BY <4>6, <4>7
      <3> QED  BY <3>2, <3>3
    <2>8. \A i \in Nat : i \in T
      <3>1. 0 \in T
        OBVIOUS
      <3> HIDE DEF T
      <3> QED  BY <2>7, <3>1, Induction
    <2>9. n \in 1 .. n /\ good(n) /\ flat[n] \in Seq(S)
      <3>1. n \in 1 .. n
        BY <1>3
      <3>2. good(n)
        BY <2>8, <3>1
      <3> HIDE DEF good
      <3> QED  BY <2>5, <3>1, <3>2
    <2> QED  BY <2>6, <2>9 DEF InPlace
  <1> QED  BY <1>2, <1>3
=============================================================================
