----------------------------- MODULE QueryProofs ------------------------------
(* What a query finds, whatever is typed and however long it is: the merges are *)
(* operations on sets, evaluate computes with sets, and parser and evaluation   *)
(* together give a logical expression its meaning.                              *)
EXTENDS QueryEval, VarIntProofs

(* Sorted lists *)

\* the list l holds the numbers of S, each once and in order
Lists(l, S) ==
  /\ l \in Seq(Nat) /\ S = {l[i] : i \in 1 .. Len(l)}
  /\ \A i, j \in 1 .. Len(l) : i < j => l[i] < l[j]

\* the numbers of a list from position i on
From(l, i) == {l[k] : k \in i .. Len(l)}

LEMMA EmptyLists == Lists(<<>>, {})
  BY DEF Lists

LEMMA PrependLists ==
  ASSUME NEW l, NEW S, Lists(l, S), NEW a \in Nat, \A x \in S : a < x
  PROVE  Lists(<<a>> \o l, {a} \cup S)
  <1> DEFINE m == <<a>> \o l
  <1>1. /\ l \in Seq(Nat) /\ S = {l[i] : i \in 1 .. Len(l)} /\ Len(l) \in Nat
        /\ \A i, j \in 1 .. Len(l) : i < j => l[i] < l[j]
    BY DEF Lists
  <1>2. /\ m \in Seq(Nat) /\ Len(m) = 1 + Len(l)
        /\ m[1] = a /\ \A i \in 1 .. Len(l) : m[i + 1] = l[i]
    BY <1>1, Prepended
  <1> HIDE DEF m
  <1>3. \A i \in 1 .. Len(m) : i = 1 \/ (i - 1 \in 1 .. Len(l) /\ m[i] = l[i - 1])
    <2> SUFFICES ASSUME NEW i \in 1 .. Len(m), i # 1
                 PROVE  i - 1 \in 1 .. Len(l) /\ m[i] = l[i - 1]
      OBVIOUS
    <2>1. i - 1 \in 1 .. Len(l) /\ (i - 1) + 1 = i
      BY <1>1, <1>2
    <2> QED  BY <1>2, <2>1
  <1>4. {a} \cup S = {m[i] : i \in 1 .. Len(m)}
    <2>1. ASSUME NEW x \in {a} \cup S
          PROVE  x \in {m[i] : i \in 1 .. Len(m)}
      <3>1. CASE x = a
        BY <1>1, <1>2, <3>1
      <3>2. CASE x \in S
        <4>1. PICK i \in 1 .. Len(l) : x = l[i]
          BY <1>1, <3>2
        <4>2. i + 1 \in 1 .. Len(m) /\ m[i + 1] = x
          BY <1>1, <1>2, <4>1
        <4> QED  BY <4>2
      <3> QED  BY <3>1, <3>2
    <2>2. ASSUME NEW i \in 1 .. Len(m)
          PROVE  m[i] \in {a} \cup S
      BY <1>1, <1>2, <1>3
    <2> QED  BY <2>1, <2>2
  <1>5. ASSUME NEW i \in 1 .. Len(m), NEW j \in 1 .. Len(m), i < j
        PROVE  m[i] < m[j]
    <2>1. j - 1 \in 1 .. Len(l) /\ m[j] = l[j - 1]
      BY <1>1, <1>3, <1>5
    <2>2. CASE i = 1
      <3>1. m[j] \in S
        BY <1>1, <2>1
      <3> QED  BY <1>2, <2>2, <3>1
    <2>3. CASE i # 1
      <3>1. i - 1 \in 1 .. Len(l) /\ m[i] = l[i - 1] /\ i - 1 < j - 1
        BY <1>3, <1>5, <2>3
      <3> QED  BY <1>1, <2>1, <3>1
    <2> QED  BY <2>2, <2>3
  <1> QED  BY <1>2, <1>4, <1>5 DEF Lists, m

\* The head of what is left of a list is below the rest of it.
LEMMA HeadOfRest ==
  ASSUME NEW l, NEW S, Lists(l, S), NEW i \in 1 .. Len(l)
  PROVE  /\ l[i] \in Nat /\ From(l, i) = {l[i]} \cup From(l, i + 1)
         /\ \A x \in From(l, i + 1) : x \in Nat /\ l[i] < x
  <1>1. /\ l \in Seq(Nat) /\ Len(l) \in Nat
        /\ \A k, j \in 1 .. Len(l) : k < j => l[k] < l[j]
    BY DEF Lists
  <1>2. i .. Len(l) = {i} \cup (i + 1 .. Len(l))
    BY <1>1
  <1>3. \A k \in i + 1 .. Len(l) : k \in 1 .. Len(l) /\ i < k
    BY <1>1
  <1> QED  BY <1>1, <1>2, <1>3 DEF From

LEMMA RestLists ==
  ASSUME NEW l, NEW S, Lists(l, S), NEW i \in 1 .. Len(l) + 1
  PROVE  Lists(SubSeq(l, i, Len(l)), From(l, i))
  <1> DEFINE r == SubSeq(l, i, Len(l))
             n == Len(l) + 1 - i
  <1>1. /\ l \in Seq(Nat) /\ Len(l) \in Nat
        /\ \A k, j \in 1 .. Len(l) : k < j => l[k] < l[j]
    BY DEF Lists
  <1>2. n \in Nat /\ r \in Seq(Nat) /\ Len(r) = n /\ \A k \in 1 .. n : r[k] = l[i + k - 1]
    BY <1>1
  <1>3. \A k \in 1 .. n : i + k - 1 \in i .. Len(l) /\ i + k - 1 \in 1 .. Len(l)
    BY <1>1
  <1>4. \A k \in i .. Len(l) : k - i + 1 \in 1 .. n /\ i + (k - i + 1) - 1 = k
    BY <1>1
  <1> HIDE DEF r, n
  <1>5. From(l, i) = {r[k] : k \in 1 .. n}
    <2>1. ASSUME NEW k \in i .. Len(l)
          PROVE  \E j \in 1 .. n : r[j] = l[k]
      BY <1>2, <1>4
    <2>2. ASSUME NEW k \in 1 .. n
          PROVE  r[k] \in From(l, i)
      BY <1>2, <1>3 DEF From
    <2> QED  BY <2>1, <2>2 DEF From
  <1>6. ASSUME NEW k \in 1 .. n, NEW j \in 1 .. n, k < j
        PROVE  r[k] < r[j]
    <2>1. i + k - 1 < i + j - 1
      BY <1>2, <1>6
    <2> QED  BY <1>1, <1>2, <1>3, <2>1
  <1> QED  BY <1>2, <1>5, <1>6 DEF Lists, r

LEMMA WholeList ==
  ASSUME NEW l, NEW S, Lists(l, S)
  PROVE  From(l, 1) = S /\ From(l, Len(l) + 1) = {} /\ Len(l) \in Nat
  <1>1. Len(l) \in Nat /\ Len(l) + 1 .. Len(l) = {}
    BY DEF Lists
  <1> QED  BY <1>1 DEF Lists, From
-----------------------------------------------------------------------------
(* Merges *)

\* f at a place is what is at the next place, after the head when the place is in E.
Merges(f, P, D, E, next, head, base) ==
  \A x \in P : f[x] = IF x \in E THEN <<head[x]>> \o f[next[x]]
                      ELSE IF x \in D THEN f[next[x]] ELSE base[x]

LEMMA MergeExists ==
  ASSUME NEW P, NEW rank \in [P -> Nat], NEW D \in SUBSET P, NEW E \in SUBSET D,
         NEW next \in [D -> P], \A x \in D : rank[next[x]] < rank[x],
         NEW head \in [E -> Nat], NEW base \in [P -> Seq(Nat)]
  PROVE  \E f \in [P -> Seq(Nat)] : Merges(f, P, D, E, next, head, base)
  <1> DEFINE step == [a \in D \X Seq(Nat) |->
                        IF a[1] \in E THEN <<head[a[1]]>> \o a[2] ELSE a[2]]
  <1>1. step \in [D \X Seq(Nat) -> Seq(Nat)]
    <2> SUFFICES ASSUME NEW a \in D \X Seq(Nat)
                 PROVE  (IF a[1] \in E THEN <<head[a[1]]>> \o a[2] ELSE a[2]) \in Seq(Nat)
      OBVIOUS
    <2>1. a[2] \in Seq(Nat) /\ (a[1] \in E => head[a[1]] \in Nat)
      OBVIOUS
    <2> QED  BY <2>1
  <1>2. PICK f \in [P -> Seq(Nat)] : Unfolds(f, P, D, next, base, step)
    <2> HIDE DEF step
    <2> QED  BY <1>1, RankedRecursion
  <1>3. ASSUME NEW x \in P
        PROVE  f[x] = IF x \in E THEN <<head[x]>> \o f[next[x]]
                      ELSE IF x \in D THEN f[next[x]] ELSE base[x]
    <2>1. f[x] = IF x \in D THEN step[<<x, f[next[x]]>>] ELSE base[x]
      BY <1>2, Zenon DEF Unfolds
    <2>2. x \in D => step[<<x, f[next[x]]>>] =
                       IF x \in E THEN <<head[x]>> \o f[next[x]] ELSE f[next[x]]
      BY <1>2
    <2> HIDE DEF step
    <2> QED  BY <2>1, <2>2
  <1> QED  BY <1>3 DEF Merges

\* What is left to list is as the merge goes on: goal says it for the places of G.
LeftToList(goal, G, D, E, next, head, base) ==
  \A x \in G :
    /\ x \in D => next[x] \in G
    /\ x \notin D => Lists(base[x], goal[x])
    /\ x \in D \ E => goal[x] = goal[next[x]]
    /\ x \in E => /\ goal[x] = {head[x]} \cup goal[next[x]]
                  /\ \A y \in goal[next[x]] : head[x] < y

LEMMA MergeLists ==
  ASSUME NEW P, NEW rank \in [P -> Nat], NEW D \in SUBSET P, NEW E \in SUBSET D,
         NEW next \in [D -> P], \A x \in D : rank[next[x]] < rank[x],
         NEW head \in [E -> Nat], NEW base, NEW f, Merges(f, P, D, E, next, head, base),
         NEW goal, NEW G \in SUBSET P, LeftToList(goal, G, D, E, next, head, base)
  PROVE  \A x \in G : Lists(f[x], goal[x])
  <1> DEFINE T == {n \in Nat : \A x \in G : rank[x] = n => Lists(f[x], goal[x])}
  <1>1. ASSUME NEW n \in Nat, \A k \in Nat : k < n => k \in T
        PROVE  n \in T
    <2> SUFFICES ASSUME NEW x \in G, rank[x] = n
                 PROVE  Lists(f[x], goal[x])
      OBVIOUS
    <2>1. x \in D => next[x] \in G /\ Lists(f[next[x]], goal[next[x]])
      <3>1. x \in D => next[x] \in G
        BY DEF LeftToList
      <3> QED  BY <1>1, <3>1
    <2>2. /\ x \notin D => Lists(base[x], goal[x])
          /\ x \in D \ E => goal[x] = goal[next[x]]
          /\ x \in E => /\ goal[x] = {head[x]} \cup goal[next[x]]
                        /\ \A y \in goal[next[x]] : head[x] < y
      BY DEF LeftToList
    <2>3. f[x] = IF x \in E THEN <<head[x]>> \o f[next[x]]
                 ELSE IF x \in D THEN f[next[x]] ELSE base[x]
      BY Zenon DEF Merges
    <2>4. CASE x \in E
      <3>1. Lists(<<head[x]>> \o f[next[x]], {head[x]} \cup goal[next[x]])
        BY <2>1, <2>4, <2>2, PrependLists
      <3> QED  BY <2>3, <2>4, <2>2, <3>1
    <2>5. CASE x \in D \ E
      BY <2>1, <2>3, <2>5, <2>2
    <2>6. CASE x \notin D
      BY <2>3, <2>6, <2>2
    <2> QED  BY <2>4, <2>5, <2>6
  <1>2. \A n \in Nat : n \in T
    <2> HIDE DEF T
    <2> QED  BY <1>1, Descent
  <1> QED  BY <1>2
-----------------------------------------------------------------------------
(* The three operations *)

Inside(l1, l2) == {x \in Positions(l1, l2) : x[1] <= Len(l1) /\ x[2] <= Len(l2)}

\* which of the two positions move
Onward(l1, l2) ==
  [x \in Inside(l1, l2) |->
     IF l1[x[1]] < l2[x[2]] THEN <<x[1] + 1, x[2]>>
     ELSE IF l2[x[2]] < l1[x[1]] THEN <<x[1], x[2] + 1>>
     ELSE <<x[1] + 1, x[2] + 1>>]

Distance(l1, l2) ==
  [x \in Positions(l1, l2) |-> (Len(l1) + 1 - x[1]) + (Len(l2) + 1 - x[2])]

LEMMA OnwardEnds ==
  ASSUME NEW l1 \in Seq(Nat), NEW l2 \in Seq(Nat)
  PROVE  /\ Inside(l1, l2) \in SUBSET Positions(l1, l2)
         /\ Distance(l1, l2) \in [Positions(l1, l2) -> Nat]
         /\ Onward(l1, l2) \in [Inside(l1, l2) -> Positions(l1, l2)]
         /\ \A x \in Inside(l1, l2) :
              Distance(l1, l2)[Onward(l1, l2)[x]] < Distance(l1, l2)[x]
  <1> DEFINE n1 == Len(l1)
             n2 == Len(l2)
             P == Positions(l1, l2)
             D == Inside(l1, l2)
  <1>1. n1 \in Nat /\ n2 \in Nat
    OBVIOUS
  <1>2. \A x \in P : x[1] \in 1 .. n1 + 1 /\ x[2] \in 1 .. n2 + 1 /\ x = <<x[1], x[2]>>
    BY DEF Positions
  <1>3. \A i \in 1 .. n1 + 1, j \in 1 .. n2 + 1 :
          <<i, j>> \in P /\ Distance(l1, l2)[<<i, j>>] = (n1 + 1 - i) + (n2 + 1 - j)
    BY DEF Positions, Distance
  <1>4. D \in SUBSET P /\ \A x \in D : x[1] \in 1 .. n1 /\ x[2] \in 1 .. n2
    BY <1>1, <1>2 DEF Inside
  <1>5. Distance(l1, l2) \in [P -> Nat]
    <2>1. \A x \in P : (n1 + 1 - x[1]) + (n2 + 1 - x[2]) \in Nat
      BY <1>1, <1>2
    <2> QED  BY <2>1 DEF Distance
  <1>6. \A x \in D : Onward(l1, l2)[x] \in {<<x[1] + 1, x[2]>>, <<x[1], x[2] + 1>>,
                                            <<x[1] + 1, x[2] + 1>>}
    BY DEF Onward
  <1> HIDE DEF n1, n2, P, D
  <1>7. ASSUME NEW x \in D
        PROVE  /\ Onward(l1, l2)[x] \in P
               /\ Distance(l1, l2)[Onward(l1, l2)[x]] < Distance(l1, l2)[x]
    <2> DEFINE i == x[1]
               j == x[2]
    <2>1. i \in 1 .. n1 /\ j \in 1 .. n2 /\ x = <<i, j>>
      BY <1>2, <1>4
    <2>2. Distance(l1, l2)[x] = (n1 + 1 - i) + (n2 + 1 - j)
      BY <1>1, <1>3, <2>1
    <2>3. ASSUME NEW k \in {i, i + 1}, NEW m \in {j, j + 1}, k # i \/ m # j
          PROVE  <<k, m>> \in P /\ Distance(l1, l2)[<<k, m>>] < Distance(l1, l2)[x]
      <3>1. k \in 1 .. n1 + 1 /\ m \in 1 .. n2 + 1
        BY <1>1, <2>1, <2>3
      <3>2. <<k, m>> \in P /\ Distance(l1, l2)[<<k, m>>] = (n1 + 1 - k) + (n2 + 1 - m)
        BY <1>3, <3>1
      <3>3. (n1 + 1 - k) + (n2 + 1 - m) < (n1 + 1 - i) + (n2 + 1 - j)
        <4>1. i \in Nat /\ j \in Nat /\ k \in Nat /\ m \in Nat /\ i <= k /\ j <= m /\ i + j < k + m
          BY <2>1, <2>3, <3>1
        <4> HIDE DEF i, j
        <4> QED  BY <1>1, <4>1
      <3> QED  BY <2>2, <3>2, <3>3
    <2>4. i # i + 1 /\ j # j + 1
      BY <2>1
    <2>5. \/ Onward(l1, l2)[x] = <<i + 1, j>> \/ Onward(l1, l2)[x] = <<i, j + 1>>
          \/ Onward(l1, l2)[x] = <<i + 1, j + 1>>
      BY <1>6
    <2> HIDE DEF i, j
    <2> QED  BY <2>3, <2>4, <2>5
  <1>8. Onward(l1, l2) \in [D -> P]
    BY <1>7 DEF Onward, D
  <1> QED  BY <1>4, <1>5, <1>7, <1>8 DEF P, D

\* At a place inside both lists the heads and the rests are as the places say.
LEMMA HeadsApart ==
  ASSUME NEW l1, NEW S1, Lists(l1, S1), NEW l2, NEW S2, Lists(l2, S2),
         NEW x \in Inside(l1, l2)
  PROVE  LET a == l1[x[1]]
             b == l2[x[2]]
             A == From(l1, x[1] + 1)
             B == From(l2, x[2] + 1)
         IN  /\ x[1] \in 1 .. Len(l1) /\ x[2] \in 1 .. Len(l2)
             /\ a \in Nat /\ b \in Nat
             /\ From(l1, x[1]) = {a} \cup A /\ From(l2, x[2]) = {b} \cup B
             /\ \A y \in A : y \in Nat /\ a < y
             /\ \A y \in B : y \in Nat /\ b < y
             /\ Onward(l1, l2)[x] = IF a < b THEN <<x[1] + 1, x[2]>>
                                    ELSE IF b < a THEN <<x[1], x[2] + 1>>
                                    ELSE <<x[1] + 1, x[2] + 1>>
  <1>1. x[1] \in 1 .. Len(l1) /\ x[2] \in 1 .. Len(l2)
    BY DEF Inside, Positions
  <1>2. /\ l1[x[1]] \in Nat /\ From(l1, x[1]) = {l1[x[1]]} \cup From(l1, x[1] + 1)
        /\ \A y \in From(l1, x[1] + 1) : y \in Nat /\ l1[x[1]] < y
    BY <1>1, HeadOfRest
  <1>3. /\ l2[x[2]] \in Nat /\ From(l2, x[2]) = {l2[x[2]]} \cup From(l2, x[2] + 1)
        /\ \A y \in From(l2, x[2] + 1) : y \in Nat /\ l2[x[2]] < y
    BY <1>1, HeadOfRest
  <1>4. Onward(l1, l2)[x] = IF l1[x[1]] < l2[x[2]] THEN <<x[1] + 1, x[2]>>
                            ELSE IF l2[x[2]] < l1[x[1]] THEN <<x[1], x[2] + 1>>
                            ELSE <<x[1] + 1, x[2] + 1>>
    BY DEF Onward
  <1> QED  BY <1>1, <1>2, <1>3, <1>4

\* intersect_lists lists the documents of both lists.
THEOREM Intersected ==
  ASSUME NEW l1, NEW S1, Lists(l1, S1), NEW l2, NEW S2, Lists(l2, S2)
  PROVE  Lists(intersect_lists(l1, l2), S1 \cap S2)
  <1> DEFINE P == Positions(l1, l2)
             D == Inside(l1, l2)
             E == {x \in D : l1[x[1]] = l2[x[2]]}
             next == Onward(l1, l2)
             rank == Distance(l1, l2)
             head == [x \in E |-> l1[x[1]]]
             base == [x \in P |-> <<>>]
             body(f, x) == IF x[1] > Len(l1) \/ x[2] > Len(l2) THEN <<>>
                           ELSE IF l1[x[1]] < l2[x[2]] THEN f[<<x[1] + 1, x[2]>>]
                           ELSE IF l2[x[2]] < l1[x[1]] THEN f[<<x[1], x[2] + 1>>]
                           ELSE <<l1[x[1]]>> \o f[<<x[1] + 1, x[2] + 1>>]
             merged(f, x) == IF x \in E THEN <<head[x]>> \o f[next[x]]
                             ELSE IF x \in D THEN f[next[x]] ELSE base[x]
             equation(f) == f = [x \in P |-> body(f, x)]
             from == CHOOSE f : equation(f)
             goal == [x \in P |-> From(l1, x[1]) \cap From(l2, x[2])]
  <1>1. l1 \in Seq(Nat) /\ l2 \in Seq(Nat) /\ Len(l1) \in Nat /\ Len(l2) \in Nat
    BY DEF Lists
  <1>2. /\ D \in SUBSET P /\ rank \in [P -> Nat] /\ next \in [D -> P]
        /\ \A x \in D : rank[next[x]] < rank[x]
    BY <1>1, OnwardEnds
  <1>3. E \in SUBSET D /\ base \in [P -> Seq(Nat)]
    OBVIOUS
  <1>4. head \in [E -> Nat]
    <2>1. \A x \in E : l1[x[1]] \in Nat
      BY HeadsApart
    <2> QED  BY <2>1
  <1>5. ASSUME NEW f, NEW x \in P
        PROVE  body(f, x) = merged(f, x)
    <2>1. CASE x \in D
      <3>1. /\ x[1] \in 1 .. Len(l1) /\ x[2] \in 1 .. Len(l2)
            /\ l1[x[1]] \in Nat /\ l2[x[2]] \in Nat
            /\ next[x] = IF l1[x[1]] < l2[x[2]] THEN <<x[1] + 1, x[2]>>
                         ELSE IF l2[x[2]] < l1[x[1]] THEN <<x[1], x[2] + 1>>
                         ELSE <<x[1] + 1, x[2] + 1>>
        BY <2>1, HeadsApart
      <3>2. x \in E => head[x] = l1[x[1]]
        OBVIOUS
      <3>3. x \in E <=> l1[x[1]] = l2[x[2]]
        BY <2>1
      <3>4. ~(x[1] > Len(l1) \/ x[2] > Len(l2))
        BY <1>1, <3>1
      <3> DEFINE a == l1[x[1]]
                 b == l2[x[2]]
      <3>5. a = b <=> ~(a < b) /\ ~(b < a)
        BY <3>1
      <3>6. (x \in E <=> a = b) /\ (x \in E => head[x] = a)
        BY <3>2, <3>3
      <3>7. body(f, x) = IF a < b THEN f[<<x[1] + 1, x[2]>>]
                         ELSE IF b < a THEN f[<<x[1], x[2] + 1>>]
                         ELSE <<a>> \o f[<<x[1] + 1, x[2] + 1>>]
        BY <3>4
      <3>8. next[x] = IF a < b THEN <<x[1] + 1, x[2]>>
                      ELSE IF b < a THEN <<x[1], x[2] + 1>>
                      ELSE <<x[1] + 1, x[2] + 1>>
        BY <3>1
      <3> HIDE DEF a, b, E, head, next, D, P, base, body
      <3> QED  BY <2>1, <3>5, <3>6, <3>7, <3>8
    <2>2. CASE x \notin D
      <3>1. x[1] > Len(l1) \/ x[2] > Len(l2)
        BY <1>1, <2>2 DEF Inside, Positions
      <3> QED  BY <2>2, <3>1
    <2> QED  BY <2>1, <2>2
  <1> HIDE DEF E, D, P, next, rank, head, base, body
  <1>6. \E f : equation(f)
    <2>1. PICK f \in [P -> Seq(Nat)] : Merges(f, P, D, E, next, head, base)
      BY <1>2, <1>3, <1>4, MergeExists
    <2>2. \A x \in P : f[x] = body(f, x)
      BY <1>5, <2>1 DEF Merges
    <2>3. equation(f)
      BY <2>2
    <2> QED  BY <2>3
  <1>7. equation(from)
    <2> HIDE DEF equation
    <2> QED  BY <1>6
  <1>8. intersect_lists(l1, l2) = from[<<1, 1>>]
    BY DEF intersect_lists, body, P
  <1> HIDE DEF from
  <1>9. Merges(from, P, D, E, next, head, base)
    <2>1. \A x \in P : from[x] = body(from, x)
      BY <1>7
    <2> QED  BY <1>5, <2>1 DEF Merges
  <1>10. \A x \in P : x \notin D => Lists(base[x], goal[x])
    <2> SUFFICES ASSUME NEW x \in P, x \notin D
                 PROVE  Lists(base[x], goal[x])
      OBVIOUS
    <2>1. From(l1, x[1]) = {} \/ From(l2, x[2]) = {}
      <3>1. x[1] = Len(l1) + 1 \/ x[2] = Len(l2) + 1
        BY <1>1 DEF Inside, Positions, P, D
      <3> QED  BY <3>1, WholeList
    <2>2. base[x] = <<>> /\ goal[x] = {}
      BY <2>1 DEF base
    <2> QED  BY <2>2, EmptyLists
  <1>11. ASSUME NEW x \in D
         PROVE  /\ x \notin E => goal[x] = goal[next[x]]
                /\ x \in E => /\ goal[x] = {head[x]} \cup goal[next[x]]
                              /\ \A y \in goal[next[x]] : head[x] < y
    <2> DEFINE a == l1[x[1]]
               b == l2[x[2]]
               A == From(l1, x[1] + 1)
               B == From(l2, x[2] + 1)
    <2>1. /\ a \in Nat /\ b \in Nat
          /\ From(l1, x[1]) = {a} \cup A /\ From(l2, x[2]) = {b} \cup B
          /\ \A y \in A : y \in Nat /\ a < y
          /\ \A y \in B : y \in Nat /\ b < y
      BY HeadsApart DEF D
    <2>2. next[x] = IF a < b THEN <<x[1] + 1, x[2]>>
                    ELSE IF b < a THEN <<x[1], x[2] + 1>>
                    ELSE <<x[1] + 1, x[2] + 1>>
      BY HeadsApart DEF D, next
    <2>3. next[x] \in P /\ x \in P
      BY <1>2
    <2>4. goal[x] = ({a} \cup A) \cap ({b} \cup B)
      BY <2>1, <2>3
    <2>5. x \in E <=> a = b
      BY DEF E
    <2>6. x \in E => head[x] = a
      BY DEF head
    <2>7. goal[next[x]] = From(l1, next[x][1]) \cap From(l2, next[x][2])
      BY <2>3
    <2>8. goal[next[x]] = IF a < b THEN A \cap ({b} \cup B)
                          ELSE IF b < a THEN ({a} \cup A) \cap B
                          ELSE A \cap B
      <3>1. CASE a < b
        <4>1. next[x][1] = x[1] + 1 /\ next[x][2] = x[2]
          BY <2>2, <3>1
        <4> QED  BY <2>1, <2>7, <3>1, <4>1
      <3>2. CASE ~(a < b) /\ b < a
        <4>1. next[x][1] = x[1] /\ next[x][2] = x[2] + 1
          BY <2>2, <3>2
        <4> QED  BY <2>1, <2>7, <3>2, <4>1
      <3>3. CASE ~(a < b) /\ ~(b < a)
        <4>1. next[x][1] = x[1] + 1 /\ next[x][2] = x[2] + 1
          BY <2>2, <3>3
        <4> QED  BY <2>7, <3>3, <4>1
      <3> QED  BY <3>1, <3>2, <3>3
    <2> HIDE DEF a, b, A, B, goal
    <2> QED  BY <2>1, <2>4, <2>5, <2>6, <2>8
  <1> DEFINE one == <<1, 1>>
  <1>12. one \in P /\ goal[one] = S1 \cap S2
    <2>1. one \in P
      BY <1>1 DEF P, Positions
    <2>2. From(l1, 1) = S1 /\ From(l2, 1) = S2
      BY WholeList
    <2> QED  BY <2>1, <2>2
  <1> HIDE DEF goal, one
  <1>13. \A x \in P : Lists(from[x], goal[x])
    <2>1. LeftToList(goal, P, D, E, next, head, base)
      BY <1>2, <1>3, <1>10, <1>11 DEF LeftToList
    <2> QED  BY <1>2, <1>3, <1>4, <1>9, <2>1, MergeLists
  <1> QED  BY <1>8, <1>12, <1>13 DEF one

\* union_lists lists the documents of one list or the other.
THEOREM United ==
  ASSUME NEW l1, NEW S1, Lists(l1, S1), NEW l2, NEW S2, Lists(l2, S2)
  PROVE  Lists(union_lists(l1, l2), S1 \cup S2)
  <1> DEFINE P == Positions(l1, l2)
             D == Inside(l1, l2)
             next == Onward(l1, l2)
             rank == Distance(l1, l2)
             head == [x \in D |-> IF l1[x[1]] < l2[x[2]] THEN l1[x[1]]
                                  ELSE IF l2[x[2]] < l1[x[1]] THEN l2[x[2]] ELSE l1[x[1]]]
             base == [x \in P |-> IF x[1] > Len(l1) THEN SubSeq(l2, x[2], Len(l2))
                                  ELSE SubSeq(l1, x[1], Len(l1))]
             body(f, x) == IF x[1] > Len(l1) THEN SubSeq(l2, x[2], Len(l2))
                           ELSE IF x[2] > Len(l2) THEN SubSeq(l1, x[1], Len(l1))
                           ELSE IF l1[x[1]] < l2[x[2]] THEN <<l1[x[1]]>> \o f[<<x[1] + 1, x[2]>>]
                           ELSE IF l2[x[2]] < l1[x[1]] THEN <<l2[x[2]]>> \o f[<<x[1], x[2] + 1>>]
                           ELSE <<l1[x[1]]>> \o f[<<x[1] + 1, x[2] + 1>>]
             merged(f, x) == IF x \in D THEN <<head[x]>> \o f[next[x]]
                             ELSE IF x \in D THEN f[next[x]] ELSE base[x]
             equation(f) == f = [x \in P |-> body(f, x)]
             from == CHOOSE f : equation(f)
             goal == [x \in P |-> From(l1, x[1]) \cup From(l2, x[2])]
  <1>1. l1 \in Seq(Nat) /\ l2 \in Seq(Nat) /\ Len(l1) \in Nat /\ Len(l2) \in Nat
    BY DEF Lists
  <1>2. /\ D \in SUBSET P /\ rank \in [P -> Nat] /\ next \in [D -> P]
        /\ \A x \in D : rank[next[x]] < rank[x]
    BY <1>1, OnwardEnds
  <1>3. \A x \in P : x[1] \in 1 .. Len(l1) + 1 /\ x[2] \in 1 .. Len(l2) + 1
    BY DEF Positions
  <1>4. head \in [D -> Nat]
    <2>1. \A x \in D : l1[x[1]] \in Nat /\ l2[x[2]] \in Nat
      BY HeadsApart
    <2> HIDE DEF D
    <2> QED  BY <2>1
  <1>5. base \in [P -> Seq(Nat)]
    <2>1. ASSUME NEW x \in P
          PROVE  SubSeq(l1, x[1], Len(l1)) \in Seq(Nat) /\ SubSeq(l2, x[2], Len(l2)) \in Seq(Nat)
      BY <1>3, RestLists DEF Lists
    <2> QED  BY <2>1
  <1>6. ASSUME NEW f, NEW x \in P
        PROVE  body(f, x) = merged(f, x)
    <2>1. CASE x \in D
      <3> DEFINE a == l1[x[1]]
                 b == l2[x[2]]
      <3>1. /\ x[1] \in 1 .. Len(l1) /\ x[2] \in 1 .. Len(l2)
            /\ next[x] = IF a < b THEN <<x[1] + 1, x[2]>>
                         ELSE IF b < a THEN <<x[1], x[2] + 1>>
                         ELSE <<x[1] + 1, x[2] + 1>>
        BY <2>1, HeadsApart
      <3>2. head[x] = IF a < b THEN a ELSE IF b < a THEN b ELSE a
        BY <2>1
      <3>3. ~(x[1] > Len(l1)) /\ ~(x[2] > Len(l2))
        BY <1>1, <3>1
      <3>4. body(f, x) = IF a < b THEN <<a>> \o f[<<x[1] + 1, x[2]>>]
                         ELSE IF b < a THEN <<b>> \o f[<<x[1], x[2] + 1>>]
                         ELSE <<a>> \o f[<<x[1] + 1, x[2] + 1>>]
        BY <3>3
      <3> HIDE DEF a, b, head, next, D, P, base, body
      <3> QED  BY <2>1, <3>1, <3>2, <3>4
    <2>2. CASE x \notin D
      <3>1. x[1] > Len(l1) \/ x[2] > Len(l2)
        BY <1>1, <2>2 DEF Inside, Positions
      <3> QED  BY <2>2, <3>1
    <2> QED  BY <2>1, <2>2
  <1> HIDE DEF D, P, next, rank, head, base, body
  <1>7. \E f : equation(f)
    <2>1. PICK f \in [P -> Seq(Nat)] : Merges(f, P, D, D, next, head, base)
      <3>1. D \in SUBSET D
        OBVIOUS
      <3> QED  BY <1>2, <1>4, <1>5, <3>1, MergeExists
    <2>2. \A x \in P : f[x] = body(f, x)
      BY <1>6, <2>1 DEF Merges
    <2>3. equation(f)
      BY <2>2
    <2> QED  BY <2>3
  <1>8. equation(from)
    <2> HIDE DEF equation
    <2> QED  BY <1>7
  <1>9. union_lists(l1, l2) = from[<<1, 1>>]
    BY DEF union_lists, body, P
  <1> HIDE DEF from
  <1>10. Merges(from, P, D, D, next, head, base)
    <2>1. \A x \in P : from[x] = body(from, x)
      BY <1>8
    <2> QED  BY <1>6, <2>1 DEF Merges
  <1>11. \A x \in P : x \notin D => Lists(base[x], goal[x])
    <2> SUFFICES ASSUME NEW x \in P, x \notin D
                 PROVE  Lists(base[x], goal[x])
      OBVIOUS
    <2>1. CASE x[1] > Len(l1)
      <3>1. From(l1, x[1]) = {}
        <4>1. x[1] = Len(l1) + 1
          BY <1>1, <1>3, <2>1
        <4> QED  BY <4>1, WholeList
      <3>2. base[x] = SubSeq(l2, x[2], Len(l2)) /\ goal[x] = From(l2, x[2])
        BY <2>1, <3>1 DEF base
      <3> QED  BY <1>3, <3>2, RestLists
    <2>2. CASE ~(x[1] > Len(l1))
      <3>1. From(l2, x[2]) = {}
        <4>1. x[2] = Len(l2) + 1
          BY <1>1, <1>3, <2>2 DEF Inside, P, D
        <4> QED  BY <4>1, WholeList
      <3>2. base[x] = SubSeq(l1, x[1], Len(l1)) /\ goal[x] = From(l1, x[1])
        BY <2>2, <3>1 DEF base
      <3> QED  BY <1>3, <3>2, RestLists
    <2> QED  BY <2>1, <2>2
  <1>12. ASSUME NEW x \in D
         PROVE  /\ goal[x] = {head[x]} \cup goal[next[x]]
                /\ \A y \in goal[next[x]] : head[x] < y
    <2> DEFINE a == l1[x[1]]
               b == l2[x[2]]
               A == From(l1, x[1] + 1)
               B == From(l2, x[2] + 1)
    <2>1. /\ a \in Nat /\ b \in Nat
          /\ From(l1, x[1]) = {a} \cup A /\ From(l2, x[2]) = {b} \cup B
          /\ \A y \in A : y \in Nat /\ a < y
          /\ \A y \in B : y \in Nat /\ b < y
      BY HeadsApart DEF D
    <2>2. next[x] = IF a < b THEN <<x[1] + 1, x[2]>>
                    ELSE IF b < a THEN <<x[1], x[2] + 1>>
                    ELSE <<x[1] + 1, x[2] + 1>>
      BY HeadsApart DEF D, next
    <2>3. next[x] \in P /\ x \in P
      BY <1>2
    <2>4. goal[x] = ({a} \cup A) \cup ({b} \cup B)
      BY <2>1, <2>3
    <2>5. head[x] = IF a < b THEN a ELSE IF b < a THEN b ELSE a
      BY DEF head
    <2>6. goal[next[x]] = From(l1, next[x][1]) \cup From(l2, next[x][2])
      BY <2>3
    <2>7. goal[next[x]] = IF a < b THEN A \cup ({b} \cup B)
                          ELSE IF b < a THEN ({a} \cup A) \cup B
                          ELSE A \cup B
      <3>1. CASE a < b
        <4>1. next[x][1] = x[1] + 1 /\ next[x][2] = x[2]
          BY <2>2, <3>1
        <4> QED  BY <2>1, <2>6, <3>1, <4>1
      <3>2. CASE ~(a < b) /\ b < a
        <4>1. next[x][1] = x[1] /\ next[x][2] = x[2] + 1
          BY <2>2, <3>2
        <4> QED  BY <2>1, <2>6, <3>2, <4>1
      <3>3. CASE ~(a < b) /\ ~(b < a)
        <4>1. next[x][1] = x[1] + 1 /\ next[x][2] = x[2] + 1
          BY <2>2, <3>3
        <4> QED  BY <2>6, <3>3, <4>1
      <3> QED  BY <3>1, <3>2, <3>3
    <2> HIDE DEF a, b, A, B, goal
    <2> QED  BY <2>1, <2>4, <2>5, <2>7
  <1> DEFINE one == <<1, 1>>
  <1>13. one \in P /\ goal[one] = S1 \cup S2
    <2>1. one \in P
      BY <1>1 DEF P, Positions
    <2>2. From(l1, 1) = S1 /\ From(l2, 1) = S2
      BY WholeList
    <2> QED  BY <2>1, <2>2
  <1> HIDE DEF goal, one
  <1>14. \A x \in P : Lists(from[x], goal[x])
    <2>1. LeftToList(goal, P, D, D, next, head, base)
      BY <1>2, <1>11, <1>12 DEF LeftToList
    <2>2. D \in SUBSET D /\ P \in SUBSET P
      OBVIOUS
    <2> QED  BY <1>2, <1>4, <1>10, <2>1, <2>2, MergeLists
  <1> QED  BY <1>9, <1>13, <1>14 DEF one

\* not_list lists the documents that are not in the list.
THEOREM Complemented ==
  ASSUME NEW l, NEW S, Lists(l, S), NEW n \in Nat
  PROVE  Lists(not_list(l, n), (0 .. n - 1) \ S)
  <1> DEFINE P == (0 .. n) \X (1 .. Len(l) + 1)
             D == {x \in P : x[1] # n}
             meets(x) == x[2] <= Len(l) /\ l[x[2]] = x[1]
             E == {x \in D : ~meets(x)}
             next == [x \in D |-> IF meets(x) THEN <<x[1] + 1, x[2] + 1>> ELSE <<x[1] + 1, x[2]>>]
             rank == [x \in P |-> n - x[1]]
             head == [x \in E |-> x[1]]
             base == [x \in P |-> <<>>]
             body(f, x) == IF x[1] = n THEN <<>>
                           ELSE IF x[2] <= Len(l) /\ l[x[2]] = x[1] THEN f[<<x[1] + 1, x[2] + 1>>]
                           ELSE <<x[1]>> \o f[<<x[1] + 1, x[2]>>]
             merged(f, x) == IF x \in E THEN <<head[x]>> \o f[next[x]]
                             ELSE IF x \in D THEN f[next[x]] ELSE base[x]
             equation(f) == f = [x \in P |-> body(f, x)]
             from == CHOOSE f : equation(f)
             goal == [x \in P |-> (x[1] .. n - 1) \ From(l, x[2])]
             G == {x \in P : \A y \in From(l, x[2]) : y >= x[1]}
  <1>1. l \in Seq(Nat) /\ Len(l) \in Nat
    BY DEF Lists
  <1>2. /\ \A x \in P : x[1] \in 0 .. n /\ x[2] \in 1 .. Len(l) + 1
        /\ \A x \in D : x[1] \in 0 .. n - 1 /\ x[1] + 1 \in 0 .. n /\ x[1] \in Nat
    OBVIOUS
  <1>3. ASSUME NEW x \in D
        PROVE  /\ next[x] \in P /\ next[x][1] = x[1] + 1
               /\ next[x][2] = IF meets(x) THEN x[2] + 1 ELSE x[2]
    <2>1. x[1] + 1 \in 0 .. n /\ x[2] \in 1 .. Len(l) + 1
      BY <1>2
    <2>2. meets(x) => x[2] + 1 \in 1 .. Len(l) + 1
      BY <1>1, <2>1
    <2>3. next[x] = IF meets(x) THEN <<x[1] + 1, x[2] + 1>> ELSE <<x[1] + 1, x[2]>>
      OBVIOUS
    <2> HIDE DEF next, meets, D
    <2> QED  BY <2>1, <2>2, <2>3
  <1>4. /\ D \in SUBSET P /\ E \in SUBSET D /\ G \in SUBSET P
        /\ head \in [E -> Nat] /\ base \in [P -> Seq(Nat)]
    BY <1>2
  <1>5. rank \in [P -> Nat]
    BY <1>2
  <1>6. next \in [D -> P]
    <2>1. \A x \in D : next[x] \in P
      BY <1>3
    <2> QED  BY <2>1
  <1>7. \A x \in D : rank[next[x]] < rank[x]
    <2> SUFFICES ASSUME NEW x \in D
                 PROVE  rank[next[x]] < rank[x]
      OBVIOUS
    <2>1. x \in P /\ next[x] \in P /\ next[x][1] = x[1] + 1 /\ x[1] \in Nat
      BY <1>2, <1>3
    <2> HIDE DEF next, D, P
    <2>2. rank[next[x]] = n - (x[1] + 1) /\ rank[x] = n - x[1]
      BY <2>1
    <2> QED  BY <2>1, <2>2
  <1>8. ASSUME NEW f, NEW x \in P
        PROVE  body(f, x) = merged(f, x)
    OBVIOUS
  <1>9. ASSUME NEW x \in G
        PROVE  /\ x \notin D => Lists(base[x], goal[x])
               /\ x \in D => next[x] \in G
               /\ x \in D \ E => goal[x] = goal[next[x]]
               /\ x \in E => /\ goal[x] = {head[x]} \cup goal[next[x]]
                             /\ \A y \in goal[next[x]] : head[x] < y
    <2> DEFINE doc == x[1]
               i == x[2]
    <2>1. x \in P /\ doc \in 0 .. n /\ i \in 1 .. Len(l) + 1 /\ \A y \in From(l, i) : y >= doc
      BY <1>2
    <2>2. CASE x \notin D
      <3>1. doc = n
        BY <2>1, <2>2
      <3>2. goal[x] = {} /\ base[x] = <<>>
        BY <2>1, <3>1
      <3> QED  BY <2>2, <3>2, EmptyLists
    <2>3. CASE x \in D
      <3> DEFINE rest == From(l, next[x][2])
      <3>1. /\ next[x] \in P /\ next[x][1] = doc + 1 /\ doc \in Nat
            /\ next[x][2] = IF meets(x) THEN i + 1 ELSE i
        BY <1>2, <1>3, <2>3
      <3>2. /\ \A y \in rest : y \in Nat /\ y > doc
            /\ From(l, i) = IF meets(x) THEN {doc} \cup rest ELSE rest
        <4>1. CASE i \in 1 .. Len(l)
          <5>1. /\ l[i] \in Nat /\ From(l, i) = {l[i]} \cup From(l, i + 1)
                /\ \A y \in From(l, i + 1) : y \in Nat /\ l[i] < y
            BY <4>1, HeadOfRest
          <5>2. l[i] >= doc /\ (meets(x) <=> l[i] = doc)
            BY <1>1, <2>1, <4>1, <5>1
          <5> DEFINE a == l[i]
                     A == From(l, i + 1)
          <5>3. /\ a \in Nat /\ From(l, i) = {a} \cup A /\ \A y \in A : y \in Nat /\ a < y
                /\ a >= doc /\ (meets(x) <=> a = doc)
            BY <5>1, <5>2
          <5>4. rest = IF meets(x) THEN A ELSE From(l, i)
            BY <3>1
          <5> HIDE DEF a, A, rest, meets, doc
          <5> QED  BY <3>1, <5>3, <5>4
        <4>2. CASE i \notin 1 .. Len(l)
          <5>1. i = Len(l) + 1 /\ ~meets(x)
            BY <1>1, <2>1, <4>2
          <5>2. From(l, i) = {} /\ next[x][2] = i
            BY <3>1, <5>1, WholeList
          <5> QED  BY <5>1, <5>2
        <4> QED  BY <4>1, <4>2
      <3>3. goal[next[x]] = (doc + 1 .. n - 1) \ rest /\ goal[x] = (doc .. n - 1) \ From(l, i)
        <4> HIDE DEF next, P
        <4> QED  BY <2>1, <3>1
      <3>4. next[x] \in G
        <4>1. \A y \in rest : y >= doc + 1
          <5>1. doc \in Nat /\ \A y \in rest : y \in Nat /\ y > doc
            BY <3>1, <3>2
          <5> HIDE DEF doc, rest
          <5> QED  BY <5>1
        <4> HIDE DEF next, P
        <4> QED  BY <3>1, <4>1
      <3>5. doc \in doc .. n - 1 /\ doc .. n - 1 = {doc} \cup (doc + 1 .. n - 1)
        BY <1>2, <2>3
      <3>6. \A y \in doc + 1 .. n - 1 : doc < y
        BY <3>1
      <3>7. (x \in E <=> ~meets(x)) /\ (x \in E => head[x] = doc)
        BY <2>3
      <3>8. doc \notin rest
        BY <3>1, <3>2
      <3> HIDE DEF doc, rest, meets, next, head, E, G, D, goal
      <3> QED  BY <2>3, <3>2, <3>3, <3>4, <3>5, <3>6, <3>7, <3>8
    <2> QED  BY <2>2, <2>3
  <1> DEFINE start == <<0, 1>>
  <1>10. start \in G /\ goal[start] = (0 .. n - 1) \ S
    <2>1. From(l, 1) = S /\ \A y \in S : y >= 0
      <3>1. From(l, 1) = S
        BY WholeList
      <3>2. \A i \in 1 .. Len(l) : l[i] >= 0
        BY <1>1
      <3> QED  BY <3>1, <3>2 DEF Lists
    <2>2. start \in P /\ start[1] = 0 /\ start[2] = 1
      BY <1>1
    <2> QED  BY <2>1, <2>2
  <1> HIDE DEF P, D, E, next, rank, head, base, body, goal, G
  <1>11. \E f : equation(f)
    <2>1. PICK f \in [P -> Seq(Nat)] : Merges(f, P, D, E, next, head, base)
      BY <1>4, <1>5, <1>6, <1>7, MergeExists
    <2>2. \A x \in P : f[x] = body(f, x)
      BY <1>8, <2>1 DEF Merges
    <2>3. equation(f)
      BY <2>2
    <2> QED  BY <2>3
  <1>12. equation(from)
    <2> HIDE DEF equation
    <2> QED  BY <1>11
  <1>13. not_list(l, n) = from[<<0, 1>>]
    BY DEF not_list, body, P
  <1> HIDE DEF from
  <1>14. Merges(from, P, D, E, next, head, base)
    <2>1. \A x \in P : from[x] = body(from, x)
      BY <1>12
    <2> QED  BY <1>8, <2>1 DEF Merges
  <1>15. \A x \in G : Lists(from[x], goal[x])
    <2>1. LeftToList(goal, G, D, E, next, head, base)
      BY <1>9 DEF LeftToList
    <2> QED  BY <1>4, <1>5, <1>6, <1>7, <1>14, <2>1, MergeLists
  <1> HIDE DEF start
  <1> QED  BY <1>10, <1>13, <1>15 DEF start
-----------------------------------------------------------------------------
(* Folds *)

LEMMA MaxOf ==
  ASSUME NEW n \in Nat, NEW s \in SUBSET (1 .. n), s # {}
  PROVE  Max(s) \in s /\ \A x \in s : x <= Max(s)
  <1> DEFINE T == {n - x : x \in s}
  <1>1. \A x \in s : x \in Nat /\ n - x \in Nat /\ n - (n - x) = x
    OBVIOUS
  <1>2. T \subseteq Nat /\ T # {}
    BY <1>1
  <1>3. PICK m \in T : \A k \in T : m <= k
    <2> HIDE DEF T
    <2> QED  BY <1>2, LeastNumber
  <1>4. PICK y \in s : m = n - y
    BY <1>3
  <1>5. \A x \in s : y >= x
    BY <1>1, <1>3, <1>4
  <1>6. Max(s) \in s /\ \A x \in s : Max(s) >= x
    BY <1>5 DEF Max
  <1> QED  BY <1>1, <1>6

LEMMA MaxOfInterval ==
  ASSUME NEW n \in Nat, NEW i \in 1 .. n
  PROVE  /\ 1 .. i \in SUBSET (1 .. n) /\ 1 .. i # {} /\ Max(1 .. i) = i
         /\ (1 .. i) \ {i} = 1 .. i - 1
  <1>1. 1 .. i \in SUBSET (1 .. n) /\ i \in 1 .. i
    OBVIOUS
  <1>2. Max(1 .. i) \in 1 .. i /\ i <= Max(1 .. i)
    BY <1>1, MaxOf
  <1> QED  BY <1>1, <1>2

\* what FoldLeft computes for a set of positions, as far as it stays in X
FoldsOver(iter, X, n, base, step) ==
  \A s \in SUBSET (1 .. n) :
    /\ s = {} => iter[s] = base
    /\ s # {} /\ iter[s \ {Max(s)}] \in X => iter[s] = step[<<Max(s), iter[s \ {Max(s)}]>>]

\* what it has computed before and after each element
Row(row, n, base, step) ==
  row[0] = base /\ \A i \in 1 .. n : row[i] = step[<<i, row[i - 1]>>]

RowReaches(end, X, n, base, step) ==
  \E row \in [0 .. n -> X] : Row(row, n, base, step) /\ end = row[n]

LEMMA FoldExists ==
  ASSUME NEW X, NEW n \in Nat, NEW base \in X, NEW step \in [(1 .. n) \X X -> X]
  PROVE  \E iter \in [SUBSET (1 .. n) -> X] : FoldsOver(iter, X, n, base, step)
  <1> DEFINE P == SUBSET (1 .. n)
             D == P \ {{}}
             rank == [s \in P |-> IF s = {} THEN 0 ELSE Max(s)]
             prev == [s \in D |-> s \ {Max(s)}]
             first == [s \in P |-> base]
             turn == [a \in D \X X |-> step[<<Max(a[1]), a[2]>>]]
  <1>1. \A s \in D : Max(s) \in 1 .. n /\ \A x \in s : x <= Max(s)
    BY MaxOf
  <1>2. rank \in [P -> Nat] /\ D \in SUBSET P
    BY <1>1
  <1>3. prev \in [D -> P] /\ first \in [P -> X]
    OBVIOUS
  <1>4. ASSUME NEW s \in D
        PROVE  rank[prev[s]] < rank[s]
    <2> DEFINE r == s \ {Max(s)}
    <2>1. r \in P /\ prev[s] = r /\ rank[s] = Max(s)
      OBVIOUS
    <2>2. CASE r = {}
      BY <1>1, <2>1, <2>2
    <2>3. CASE r # {}
      <3>1. Max(r) \in r /\ rank[r] = Max(r)
        BY <2>1, <2>3, MaxOf
      <3>2. Max(r) \in s /\ Max(r) # Max(s)
        BY <3>1
      <3>3. Max(r) \in 1 .. n /\ Max(s) \in 1 .. n /\ Max(r) <= Max(s)
        BY <1>1, <3>2
      <3> HIDE DEF r, rank, prev
      <3> QED  BY <2>1, <3>1, <3>2, <3>3
    <2> QED  BY <2>2, <2>3
  <1>5. turn \in [D \X X -> X]
    <2>1. \A a \in D \X X : Max(a[1]) \in 1 .. n /\ a[2] \in X
      BY <1>1
    <2> QED  BY <2>1
  <1>6. PICK f \in [P -> X] : Unfolds(f, P, D, prev, first, turn)
    <2> HIDE DEF P, D, rank, prev, first, turn
    <2> QED  BY <1>2, <1>3, <1>4, <1>5, RankedRecursion
  <1>7. ASSUME NEW s \in P
        PROVE  /\ s = {} => f[s] = base
               /\ s # {} => f[s] = step[<<Max(s), f[s \ {Max(s)}]>>]
    <2>1. f[s] = IF s \in D THEN turn[<<s, f[prev[s]]>>] ELSE first[s]
      BY <1>6, Zenon DEF Unfolds
    <2>2. s # {} => f[prev[s]] \in X /\ prev[s] = s \ {Max(s)}
      BY <1>3, <1>6
    <2>3. s # {} => turn[<<s, f[prev[s]]>>] = step[<<Max(s), f[prev[s]]>>]
      BY <2>2
    <2>4. s = {} => first[s] = base
      OBVIOUS
    <2> HIDE DEF turn, prev, first
    <2> QED  BY <2>1, <2>2, <2>3, <2>4
  <1> QED  BY <1>6, <1>7 DEF FoldsOver

LEMMA FoldRow ==
  ASSUME NEW X, NEW n \in Nat, NEW base \in X, NEW step \in [(1 .. n) \X X -> X],
         NEW iter, FoldsOver(iter, X, n, base, step)
  PROVE  RowReaches(iter[1 .. n], X, n, base, step)
  <1> DEFINE row == [i \in 0 .. n |-> iter[1 .. i]]
             T == {i \in Nat : i <= n => iter[1 .. i] \in X}
  <1>1. iter[1 .. 0] = base
    <2>1. {} \in SUBSET (1 .. n) /\ 1 .. 0 = {}
      OBVIOUS
    <2> QED  BY <2>1 DEF FoldsOver
  <1>2. ASSUME NEW i \in 1 .. n, iter[1 .. i - 1] \in X
        PROVE  iter[1 .. i] = step[<<i, iter[1 .. i - 1]>>]
    <2>1. 1 .. i \in SUBSET (1 .. n) /\ 1 .. i # {} /\ Max(1 .. i) = i /\ (1 .. i) \ {i} = 1 .. i - 1
      BY MaxOfInterval
    <2>2. (1 .. i) \ {Max(1 .. i)} = 1 .. i - 1
      BY <2>1
    <2> DEFINE s == 1 .. i
    <2>3. iter[s] = step[<<Max(s), iter[s \ {Max(s)}]>>]
      <3>1. s \in SUBSET (1 .. n) /\ s # {} /\ iter[s \ {Max(s)}] \in X
        BY <1>2, <2>1, <2>2
      <3> HIDE DEF s
      <3> QED  BY <3>1 DEF FoldsOver
    <2> QED  BY <2>1, <2>2, <2>3
  <1>3. ASSUME NEW i \in Nat, i \in T
        PROVE  i + 1 \in T
    <2> SUFFICES ASSUME i + 1 <= n
                 PROVE  iter[1 .. i + 1] \in X
      OBVIOUS
    <2>1. i + 1 \in 1 .. n /\ (i + 1) - 1 = i /\ iter[1 .. i] \in X
      BY <1>3
    <2>2. iter[1 .. i + 1] = step[<<i + 1, iter[1 .. i]>>]
      BY <1>2, <2>1
    <2> QED  BY <2>1, <2>2
  <1>4. \A i \in Nat : i \in T
    <2>1. 0 \in T
      BY <1>1
    <2> HIDE DEF T
    <2> QED  BY <1>3, <2>1, Induction
  <1>5. row \in [0 .. n -> X]
    BY <1>4
  <1>6. Row(row, n, base, step)
    <2>1. row[0] = base
      BY <1>1
    <2>2. ASSUME NEW i \in 1 .. n
          PROVE  row[i] = step[<<i, row[i - 1]>>]
      <3>1. i - 1 \in 0 .. n /\ row[i - 1] = iter[1 .. i - 1] /\ row[i] = iter[1 .. i]
        OBVIOUS
      <3>2. row[i - 1] \in X
        BY <1>5, <3>1
      <3> HIDE DEF row
      <3> QED  BY <1>2, <3>1, <3>2
    <2> QED  BY <2>1, <2>2 DEF Row
  <1> QED  BY <1>5, <1>6 DEF RowReaches
-----------------------------------------------------------------------------
(* evaluate *)

\* one token of evaluate
Applied(stack, token, idx, total) ==
  LET n == Len(stack)
  IN  CASE ~isOperator(token) -> Append(stack, Postings(idx, token))
        [] isOperator(token) /\ n < (IF token = "!" THEN 1 ELSE 2) -> stack
        [] token = "!" /\ n >= 1 ->
             Append(Front(stack), not_list(Last(stack), total))
        [] isOperator(token) /\ token # "!" /\ n >= 2 ->
             SubSeq(stack, 1, n - 2) \o Combined(token, stack[n - 1], stack[n])

\* the stacks of lists, of X, that evaluate goes through
ListRow(row, X, rpn, idx, total) ==
  /\ row \in [0 .. Len(rpn) -> X] /\ row[0] = <<>>
  /\ \A i \in 1 .. Len(rpn) : row[i] = Applied(row[i - 1], rpn[i], idx, total)
  /\ evaluate(rpn, idx, total) =
       IF row[Len(rpn)] = <<>> THEN <<>> ELSE Last(row[Len(rpn)])

\* stacks of X stay in X
StaysIn(X, U, idx, total) ==
  <<>> \in X /\ \A stack \in X, token \in U : Applied(stack, token, idx, total) \in X

LEMMA EvaluateRow ==
  ASSUME NEW idx, NEW total, NEW X, NEW U, NEW rpn \in Seq(U), StaysIn(X, U, idx, total)
  PROVE  \E row : ListRow(row, X, rpn, idx, total)
  <1> DEFINE n == Len(rpn)
             step == [a \in (1 .. n) \X X |-> Applied(a[2], rpn[a[1]], idx, total)]
             equation(f) ==
               f = [s \in SUBSET (1 .. n) |->
                      IF s = {} THEN <<>>
                      ELSE Applied(f[s \ {Max(s)}], rpn[Max(s)], idx, total)]
             iter == CHOOSE f : equation(f)
  <1>1. n \in Nat /\ DOMAIN rpn = 1 .. n /\ \A i \in 1 .. n : rpn[i] \in U
    OBVIOUS
  <1>2. step \in [(1 .. n) \X X -> X]
    <2>1. \A a \in (1 .. n) \X X : Applied(a[2], rpn[a[1]], idx, total) \in X
      BY <1>1 DEF StaysIn
    <2> QED  BY <2>1
  <1>3. \A i \in 1 .. n, y \in X : step[<<i, y>>] = Applied(y, rpn[i], idx, total)
    OBVIOUS
  <1> HIDE DEF step
  <1>4. \A s \in SUBSET (1 .. n) : s # {} => Max(s) \in 1 .. n
    BY <1>1, MaxOf
  <1>5. \E f : equation(f)
    <2>1. PICK f \in [SUBSET (1 .. n) -> X] : FoldsOver(f, X, n, <<>>, step)
      BY <1>1, <1>2, FoldExists DEF StaysIn
    <2>2. ASSUME NEW s \in SUBSET (1 .. n)
          PROVE  f[s] = IF s = {} THEN <<>>
                        ELSE Applied(f[s \ {Max(s)}], rpn[Max(s)], idx, total)
      <3>1. s \ {Max(s)} \in SUBSET (1 .. n)
        OBVIOUS
      <3>2. f[s \ {Max(s)}] \in X
        BY <2>1, <3>1
      <3> QED  BY <1>3, <1>4, <2>1, <3>2 DEF FoldsOver
    <2>3. equation(f)
      BY <2>1, <2>2
    <2> QED  BY <2>3
  <1>6. equation(iter)
    <2> HIDE DEF equation
    <2> QED  BY <1>5
  <1>7. evaluate(rpn, idx, total) = IF iter[1 .. n] = <<>> THEN <<>> ELSE Last(iter[1 .. n])
    BY <1>1 DEF evaluate, FoldLeft, MapThenFoldSet, Applied
  <1> HIDE DEF iter
  <1>8. FoldsOver(iter, X, n, <<>>, step)
    <2>1. \A s \in SUBSET (1 .. n) :
            iter[s] = IF s = {} THEN <<>>
                      ELSE Applied(iter[s \ {Max(s)}], rpn[Max(s)], idx, total)
      BY <1>6
    <2> QED  BY <1>3, <1>4, <2>1 DEF FoldsOver
  <1>9. PICK row \in [0 .. n -> X] : Row(row, n, <<>>, step) /\ iter[1 .. n] = row[n]
    <2> DEFINE base == <<>>
    <2>1. n \in Nat /\ base \in X
      BY <1>1 DEF StaysIn
    <2>2. FoldsOver(iter, X, n, base, step)
      BY <1>8
    <2> HIDE DEF n, base
    <2>3. RowReaches(iter[1 .. n], X, n, base, step)
      BY <1>2, <2>1, <2>2, FoldRow, Zenon
    <2> QED  BY <2>3 DEF base, RowReaches
  <1>10. \A i \in 1 .. n : row[i] = Applied(row[i - 1], rpn[i], idx, total)
    <2> SUFFICES ASSUME NEW i \in 1 .. n
                 PROVE  row[i] = Applied(row[i - 1], rpn[i], idx, total)
      OBVIOUS
    <2>1. i - 1 \in 0 .. n /\ row[i - 1] \in X
      BY <1>1, <1>9
    <2> QED  BY <1>3, <1>9, <2>1 DEF Row
  <1> QED  BY <1>7, <1>9, <1>10 DEF Row, ListRow
-----------------------------------------------------------------------------
(* evaluate on sets *)

Held(holding, token) == IF token \in DOMAIN holding THEN holding[token] ELSE {}

\* one token of evaluate, had it sets of documents instead of lists
AppliedToSets(sets, token, holding, docs) ==
  LET n == Len(sets)
      left == sets[n - 1]
      right == sets[n]
  IN  IF ~isOperator(token) THEN Append(sets, Held(holding, token))
      ELSE IF n < (IF token = "!" THEN 1 ELSE 2) THEN sets
      ELSE IF token = "!" THEN Append(SubSeq(sets, 1, n - 1), docs \ right)
      ELSE IF token = "&" THEN Append(SubSeq(sets, 1, n - 2), left \cap right)
      ELSE IF token = "|" THEN Append(SubSeq(sets, 1, n - 2), left \cup right)
      ELSE SubSeq(sets, 1, n - 2)

\* a stack of lists that hold the sets of a stack of sets
StackLists(stack, sets, docs) ==
  /\ stack \in Seq(Seq(Nat)) /\ sets \in Seq(SUBSET docs) /\ Len(stack) = Len(sets)
  /\ \A i \in 1 .. Len(sets) : Lists(stack[i], sets[i])

LEMMA PushLists ==
  ASSUME NEW docs, NEW stack, NEW sets, StackLists(stack, sets, docs),
         NEW l, NEW S \in SUBSET docs, Lists(l, S)
  PROVE  StackLists(Append(stack, l), Append(sets, S), docs)
  <1>1. l \in Seq(Nat)
    BY DEF Lists
  <1>2. /\ stack \in Seq(Seq(Nat)) /\ sets \in Seq(SUBSET docs) /\ Len(stack) = Len(sets)
        /\ \A i \in 1 .. Len(sets) : Lists(stack[i], sets[i])
    BY DEF StackLists
  <1> DEFINE a == Append(stack, l)
             b == Append(sets, S)
  <1>3. a \in Seq(Seq(Nat)) /\ b \in Seq(SUBSET docs) /\ Len(a) = Len(b) /\ Len(b) = Len(sets) + 1
    BY <1>1, <1>2
  <1>4. ASSUME NEW i \in 1 .. Len(b)
        PROVE  Lists(a[i], b[i])
    <2>1. CASE i = Len(b)
      <3>1. a[i] = l /\ b[i] = S
        BY <1>1, <1>2, <2>1
      <3> QED  BY <3>1
    <2>2. CASE i # Len(b)
      <3>1. i \in 1 .. Len(sets)
        BY <1>2, <1>3, <2>2
      <3>2. a[i] = stack[i] /\ b[i] = sets[i]
        BY <1>1, <1>2, <3>1
      <3> QED  BY <1>2, <3>1, <3>2
    <2> QED  BY <2>1, <2>2
  <1> HIDE DEF a, b
  <1>5. StackLists(a, b, docs)
    BY <1>3, <1>4 DEF StackLists
  <1> QED  BY <1>5 DEF a, b

LEMMA PopLists ==
  ASSUME NEW docs, NEW stack, NEW sets, StackLists(stack, sets, docs), NEW n \in 0 .. Len(sets)
  PROVE  StackLists(SubSeq(stack, 1, n), SubSeq(sets, 1, n), docs)
  <1>1. /\ stack \in Seq(Seq(Nat)) /\ sets \in Seq(SUBSET docs) /\ Len(stack) = Len(sets)
        /\ \A i \in 1 .. Len(sets) : Lists(stack[i], sets[i])
    BY DEF StackLists
  <1> DEFINE a == SubSeq(stack, 1, n)
             b == SubSeq(sets, 1, n)
  <1>2. a \in Seq(Seq(Nat)) /\ b \in Seq(SUBSET docs) /\ Len(a) = Len(b) /\ Len(b) = n
    BY <1>1
  <1>3. \A i \in 1 .. n : i \in 1 .. Len(sets) /\ a[i] = stack[i] /\ b[i] = sets[i]
    BY <1>1
  <1> HIDE DEF a, b
  <1>4. StackLists(a, b, docs)
    BY <1>1, <1>2, <1>3 DEF StackLists
  <1> QED  BY <1>4 DEF a, b

\* the postings of every token list the documents that hold it
PostingsList(idx, holding, docs) ==
  \A t : Held(holding, t) \in SUBSET docs /\ Lists(Postings(idx, t), Held(holding, t))

LEMMA AppliedLists ==
  ASSUME NEW total \in Nat, NEW docs, docs = 0 .. total - 1,
         NEW idx, NEW holding, PostingsList(idx, holding, docs),
         NEW stack, NEW sets, StackLists(stack, sets, docs), NEW token
  PROVE  StackLists(Applied(stack, token, idx, total),
                    AppliedToSets(sets, token, holding, docs), docs)
  <1> DEFINE n == Len(sets)
             result == Applied(stack, token, idx, total)
             resultSets == AppliedToSets(sets, token, holding, docs)
  <1>1. /\ stack \in Seq(Seq(Nat)) /\ sets \in Seq(SUBSET docs) /\ Len(stack) = n /\ n \in Nat
        /\ \A i \in 1 .. n : Lists(stack[i], sets[i])
    BY DEF StackLists
  <1>2. isOperator("!") /\ isOperator("&") /\ isOperator("|")
    BY DEF isOperator, Operators
  <1>3. CASE ~isOperator(token)
    <2>1. /\ result = Append(stack, Postings(idx, token))
          /\ resultSets = Append(sets, Held(holding, token))
      BY <1>1, <1>2, <1>3 DEF Applied, AppliedToSets
    <2>2. Held(holding, token) \in SUBSET docs /\ Lists(Postings(idx, token), Held(holding, token))
      BY DEF PostingsList
    <2> HIDE DEF result, resultSets
    <2>3. StackLists(result, resultSets, docs)
      BY <2>1, <2>2, PushLists
    <2> QED  BY <2>3 DEF result, resultSets
  <1>4. CASE isOperator(token) /\ n < (IF token = "!" THEN 1 ELSE 2)
    <2>1. CASE token = "!"
      <3>1. n < 1 /\ ~(n >= 1)
        BY <1>1, <1>4, <2>1
      <3> QED  BY <1>1, <1>2, <2>1, <3>1 DEF Applied, AppliedToSets
    <2>2. CASE token # "!"
      <3>1. n < 2 /\ ~(n >= 2)
        BY <1>1, <1>4, <2>2
      <3> QED  BY <1>1, <1>4, <2>2, <3>1 DEF Applied, AppliedToSets
    <2> QED  BY <2>1, <2>2
  <1>5. CASE token = "!" /\ n >= 1
    <2>1. n \in 1 .. n /\ n - 1 \in 0 .. n
      BY <1>1, <1>5
    <2>2. result = Append(SubSeq(stack, 1, n - 1), not_list(stack[n], total))
      BY <1>1, <1>2, <1>5 DEF Applied, Front, Last
    <2>3. resultSets = Append(SubSeq(sets, 1, n - 1), docs \ sets[n])
      BY <1>1, <1>2, <1>5 DEF AppliedToSets
    <2>4. StackLists(SubSeq(stack, 1, n - 1), SubSeq(sets, 1, n - 1), docs)
      BY <2>1, PopLists
    <2>5. Lists(not_list(stack[n], total), docs \ sets[n])
      BY <1>1, <2>1, Complemented
    <2>6. docs \ sets[n] \in SUBSET docs
      OBVIOUS
    <2> DEFINE rest == SubSeq(stack, 1, n - 1)
               restSets == SubSeq(sets, 1, n - 1)
               l == not_list(stack[n], total)
               S == docs \ sets[n]
    <2> HIDE DEF rest, restSets, l, S
    <2>7. StackLists(Append(rest, l), Append(restSets, S), docs)
      BY <2>4, <2>5, <2>6, PushLists DEF rest, restSets, l, S
    <2> QED  BY <2>2, <2>3, <2>7 DEF rest, restSets, l, S
  <1>6. CASE isOperator(token) /\ token # "!" /\ n >= 2
    <2>1. n - 1 \in 1 .. n /\ n \in 1 .. n /\ n - 2 \in 0 .. n
      BY <1>1, <1>6
    <2> DEFINE rest == SubSeq(stack, 1, n - 2)
               restSets == SubSeq(sets, 1, n - 2)
               l1 == stack[n - 1]
               l2 == stack[n]
               S1 == sets[n - 1]
               S2 == sets[n]
    <2>2. result = rest \o Combined(token, l1, l2)
      <3>1. ~(n < 2)
        BY <1>1, <1>6
      <3> HIDE DEF rest, l1, l2
      <3>2. result = SubSeq(stack, 1, n - 2) \o Combined(token, stack[n - 1], stack[n])
        BY <1>1, <1>6, <3>1 DEF Applied
      <3> QED  BY <3>2 DEF rest, l1, l2
    <2>3. resultSets = IF token = "&" THEN Append(restSets, S1 \cap S2)
                       ELSE IF token = "|" THEN Append(restSets, S1 \cup S2) ELSE restSets
      BY <1>1, <1>6 DEF AppliedToSets
    <2>4. StackLists(rest, restSets, docs)
      BY <2>1, PopLists
    <2>5. rest \in Seq(Seq(Nat))
      BY <2>4 DEF StackLists
    <2>6. Lists(l1, S1) /\ Lists(l2, S2) /\ S1 \in SUBSET docs /\ S2 \in SUBSET docs
      <3>1. \A i \in 1 .. n : sets[i] \in SUBSET docs
        BY <1>1
      <3> HIDE DEF n
      <3> QED  BY <1>1, <2>1, <3>1, Zenon
    <2> HIDE DEF rest, restSets, l1, l2, S1, S2, result, resultSets, n
    <2>7. CASE token = "&"
      <3> DEFINE l == intersect_lists(l1, l2)
      <3>1. Lists(l, S1 \cap S2)
        BY <2>6, Intersected
      <3>2. l \in Seq(Nat)
        BY <3>1 DEF Lists
      <3>3. S1 \cap S2 \in SUBSET docs
        BY <2>6
      <3>4. Combined(token, l1, l2) = <<l>>
        BY <2>7 DEF Combined
      <3> HIDE DEF l
      <3>5. result = Append(rest, l)
        BY <2>2, <2>5, <3>2, <3>4
      <3>6. resultSets = Append(restSets, S1 \cap S2)
        BY <2>3, <2>7
      <3>7. StackLists(Append(rest, l), Append(restSets, S1 \cap S2), docs)
        BY <2>4, <3>1, <3>3, PushLists
      <3>8. StackLists(result, resultSets, docs)
        BY <3>5, <3>6, <3>7
      <3> QED  BY <3>8 DEF result, resultSets
    <2>8. CASE token = "|"
      <3> DEFINE l == union_lists(l1, l2)
      <3>1. Lists(l, S1 \cup S2)
        BY <2>6, United
      <3>2. l \in Seq(Nat)
        BY <3>1 DEF Lists
      <3>3. S1 \cup S2 \in SUBSET docs
        BY <2>6
      <3>4. Combined(token, l1, l2) = <<l>>
        BY <2>8 DEF Combined
      <3> HIDE DEF l
      <3>5. result = Append(rest, l)
        BY <2>2, <2>5, <3>2, <3>4
      <3>6. resultSets = Append(restSets, S1 \cup S2)
        BY <2>3, <2>8
      <3>7. StackLists(Append(rest, l), Append(restSets, S1 \cup S2), docs)
        BY <2>4, <3>1, <3>3, PushLists
      <3>8. StackLists(result, resultSets, docs)
        BY <3>5, <3>6, <3>7
      <3> QED  BY <3>8 DEF result, resultSets
    <2>9. CASE token \notin {"&", "|"}
      <3>1. Combined(token, l1, l2) = <<>>
        BY <2>9 DEF Combined
      <3>2. result = rest /\ resultSets = restSets
        BY <2>2, <2>3, <2>5, <2>9, <3>1
      <3> QED  BY <2>4, <3>2 DEF result, resultSets
    <2> QED  BY <2>7, <2>8, <2>9
  <1> HIDE DEF n
  <1> QED  BY <1>1, <1>3, <1>4, <1>5, <1>6

AsSets(stack) == [i \in 1 .. Len(stack) |-> From(stack[i], 1)]

LEMMA AsSetsOf ==
  ASSUME NEW docs, NEW stack, NEW sets, StackLists(stack, sets, docs)
  PROVE  sets = AsSets(stack)
  <1>1. /\ sets \in Seq(SUBSET docs) /\ Len(stack) = Len(sets)
        /\ \A i \in 1 .. Len(sets) : Lists(stack[i], sets[i])
    BY DEF StackLists
  <1>2. \A i \in 1 .. Len(sets) : sets[i] = From(stack[i], 1)
    BY <1>1 DEF Lists, From
  <1>3. sets = [i \in 1 .. Len(sets) |-> sets[i]]
    BY <1>1
  <1> QED  BY <1>1, <1>2, <1>3 DEF AsSets

\* the stacks of sets that evaluate goes through
SetRow(row, rpn, holding, docs) ==
  /\ row \in [0 .. Len(rpn) -> Seq(SUBSET docs)] /\ row[0] = <<>>
  /\ \A i \in 1 .. Len(rpn) : row[i] = AppliedToSets(row[i - 1], rpn[i], holding, docs)

OnTop(stack) == IF stack = <<>> THEN {} ELSE Last(stack)

(* evaluate (searcher.cpp) answers any sequence of words and operators with the *)
(* strictly sorted list of the set that the same steps compute on sets of       *)
(* documents: a word pushes the documents that hold it, NOT takes the           *)
(* complement, AND the intersection, OR the union, an operator without its      *)
(* operands does nothing, a parenthesis drops two sets.                         *)
THEOREM Evaluated ==
  ASSUME NEW total \in Nat, NEW docs, docs = 0 .. total - 1,
         NEW idx, NEW holding, PostingsList(idx, holding, docs), NEW U, NEW rpn \in Seq(U)
  PROVE  \E row : /\ SetRow(row, rpn, holding, docs)
                  /\ Lists(evaluate(rpn, idx, total), OnTop(row[Len(rpn)]))
  <1> DEFINE X == {stack \in Seq(Seq(Nat)) : StackLists(stack, AsSets(stack), docs)}
             n == Len(rpn)
  <1>1. ASSUME NEW stack, NEW sets, StackLists(stack, sets, docs)
        PROVE  stack \in X /\ AsSets(stack) = sets
    <2>1. sets = AsSets(stack) /\ stack \in Seq(Seq(Nat))
      BY <1>1, AsSetsOf DEF StackLists
    <2> QED  BY <1>1, <2>1
  <1>2. ASSUME NEW stack \in X, NEW token
        PROVE  StackLists(Applied(stack, token, idx, total),
                          AppliedToSets(AsSets(stack), token, holding, docs), docs)
    BY AppliedLists
  <1>3. StackLists(<<>>, <<>>, docs)
    BY DEF StackLists
  <1>4. <<>> \in X /\ AsSets(<<>>) = <<>>
    BY <1>1, <1>3
  <1>5. StaysIn(X, U, idx, total)
    <2> HIDE DEF X
    <2> QED  BY <1>1, <1>2, <1>4 DEF StaysIn
  <1>6. \A stack \in X : stack \in Seq(Seq(Nat)) /\ StackLists(stack, AsSets(stack), docs)
    OBVIOUS
  <1>7. n \in Nat
    OBVIOUS
  <1> HIDE DEF X
  <1>8. PICK lists \in [0 .. n -> X] :
          /\ lists[0] = <<>>
          /\ \A i \in 1 .. n : lists[i] = Applied(lists[i - 1], rpn[i], idx, total)
          /\ evaluate(rpn, idx, total) =
               IF lists[n] = <<>> THEN <<>> ELSE Last(lists[n])
    <2>1. \E lists : ListRow(lists, X, rpn, idx, total)
      BY <1>5, EvaluateRow
    <2> QED  BY <2>1 DEF ListRow
  <1> DEFINE row == [i \in 0 .. n |-> AsSets(lists[i])]
  <1>9. \A i \in 0 .. n : lists[i] \in X /\ StackLists(lists[i], row[i], docs)
    BY <1>6, <1>8
  <1>10. row \in [0 .. n -> Seq(SUBSET docs)]
    BY <1>9 DEF StackLists
  <1>11. row[0] = <<>>
    BY <1>4, <1>7, <1>8
  <1>12. ASSUME NEW i \in 1 .. n
         PROVE  row[i] = AppliedToSets(row[i - 1], rpn[i], holding, docs)
    <2>1. i - 1 \in 0 .. n /\ i \in 0 .. n
      BY <1>7
    <2>2. lists[i - 1] \in X /\ row[i - 1] = AsSets(lists[i - 1]) /\ row[i] = AsSets(lists[i])
      BY <1>9, <2>1
    <2>3. lists[i] = Applied(lists[i - 1], rpn[i], idx, total)
      BY <1>8
    <2> HIDE DEF row
    <2>4. StackLists(lists[i], AppliedToSets(row[i - 1], rpn[i], holding, docs), docs)
      BY <1>2, <2>2, <2>3
    <2> QED  BY <1>1, <2>2, <2>4
  <1>13. Lists(evaluate(rpn, idx, total), OnTop(row[n]))
    <2>1. n \in 0 .. n
      BY <1>7
    <2>2. StackLists(lists[n], row[n], docs)
      BY <1>9, <2>1
    <2> HIDE DEF row
    <2>3. /\ lists[n] \in Seq(Seq(Nat)) /\ row[n] \in Seq(SUBSET docs) /\ Len(lists[n]) = Len(row[n])
          /\ \A i \in 1 .. Len(row[n]) : Lists(lists[n][i], row[n][i])
      BY <2>2 DEF StackLists
    <2>4. CASE row[n] = <<>>
      <3>1. lists[n] = <<>>
        BY <2>3, <2>4
      <3> QED  BY <1>8, <2>4, <3>1, EmptyLists DEF OnTop
    <2>5. CASE row[n] # <<>>
      <3>1. lists[n] # <<>> /\ Len(row[n]) \in 1 .. Len(row[n])
        BY <2>3, <2>5
      <3> QED  BY <1>8, <2>3, <2>5, <3>1 DEF OnTop, Last
    <2> QED  BY <2>4, <2>5
  <1>14. SetRow(row, rpn, holding, docs)
    <2> HIDE DEF row
    <2> QED  BY <1>10, <1>11, <1>12 DEF SetRow
  <1> HIDE DEF row
  <1> QED  BY <1>13, <1>14
-----------------------------------------------------------------------------
(* The implied ANDs *)

\* one token of addTokenWithImplicitAnd
WithToken(processed, new) ==
  IF processed # <<>> /\ ImpliesAnd(Last(processed), new)
    THEN processed \o <<"&", new>> ELSE Append(processed, new)

\* the token lists that the loop of parseQuery goes through
TokenRow(row, U, tokens) ==
  /\ row \in [0 .. Len(tokens) -> Seq(U)] /\ row[0] = <<>>
  /\ \A i \in 1 .. Len(tokens) : row[i] = WithToken(row[i - 1], tokens[i])
  /\ WithImplicitAnd(tokens) = row[Len(tokens)]

LEMMA ImplicitRow ==
  ASSUME NEW U, "&" \in U, NEW tokens \in Seq(U)
  PROVE  \E row : TokenRow(row, U, tokens)
  <1> DEFINE n == Len(tokens)
             X == Seq(U)
             base == <<>>
             step == [a \in (1 .. n) \X X |-> WithToken(a[2], tokens[a[1]])]
             equation(f) ==
               f = [s \in SUBSET (1 .. n) |->
                      IF s = {} THEN base ELSE WithToken(f[s \ {Max(s)}], tokens[Max(s)])]
             iter == CHOOSE f : equation(f)
  <1>1. n \in Nat /\ DOMAIN tokens = 1 .. n /\ \A i \in 1 .. n : tokens[i] \in U
    OBVIOUS
  <1>2. step \in [(1 .. n) \X X -> X]
    <2>1. \A processed \in X, new \in U : WithToken(processed, new) \in X
      BY DEF WithToken
    <2> HIDE DEF X
    <2>2. \A a \in (1 .. n) \X X : WithToken(a[2], tokens[a[1]]) \in X
      BY <1>1, <2>1
    <2> QED  BY <2>2
  <1>3. \A i \in 1 .. n, y \in X : step[<<i, y>>] = WithToken(y, tokens[i])
    OBVIOUS
  <1>4. base \in X
    OBVIOUS
  <1> HIDE DEF step, X
  <1>5. \A s \in SUBSET (1 .. n) : s # {} => Max(s) \in 1 .. n
    BY <1>1, MaxOf
  <1>6. \E f : equation(f)
    <2>1. PICK f \in [SUBSET (1 .. n) -> X] : FoldsOver(f, X, n, base, step)
      <3> HIDE DEF n, base
      <3> QED  BY <1>1, <1>2, <1>4, FoldExists
    <2>2. ASSUME NEW s \in SUBSET (1 .. n)
          PROVE  f[s] = IF s = {} THEN base ELSE WithToken(f[s \ {Max(s)}], tokens[Max(s)])
      <3>1. s \ {Max(s)} \in SUBSET (1 .. n)
        OBVIOUS
      <3>2. f[s \ {Max(s)}] \in X
        BY <2>1, <3>1
      <3> QED  BY <1>3, <1>5, <2>1, <3>2 DEF FoldsOver
    <2>3. equation(f)
      BY <2>1, <2>2
    <2> QED  BY <2>3
  <1>7. equation(iter)
    <2> HIDE DEF equation
    <2> QED  BY <1>6
  <1>8. WithImplicitAnd(tokens) = iter[1 .. n]
    BY <1>1 DEF WithImplicitAnd, FoldLeft, MapThenFoldSet, WithToken
  <1> HIDE DEF iter
  <1>9. FoldsOver(iter, X, n, base, step)
    <2>1. \A s \in SUBSET (1 .. n) :
            iter[s] = IF s = {} THEN base ELSE WithToken(iter[s \ {Max(s)}], tokens[Max(s)])
      BY <1>7
    <2> QED  BY <1>3, <1>5, <2>1 DEF FoldsOver
  <1>10. PICK row \in [0 .. n -> X] : Row(row, n, base, step) /\ iter[1 .. n] = row[n]
    <2> HIDE DEF n, base
    <2>1. RowReaches(iter[1 .. n], X, n, base, step)
      BY <1>1, <1>2, <1>4, <1>9, FoldRow, Zenon
    <2> QED  BY <2>1 DEF RowReaches
  <1>11. ASSUME NEW i \in 1 .. n
         PROVE  row[i] = WithToken(row[i - 1], tokens[i])
    <2>1. i - 1 \in 0 .. n /\ row[i - 1] \in X
      BY <1>1, <1>10
    <2> QED  BY <1>3, <1>10, <2>1 DEF Row
  <1>12. TokenRow(row, U, tokens)
    BY <1>8, <1>10, <1>11 DEF Row, TokenRow, X
  <1> QED  BY <1>12
-----------------------------------------------------------------------------
(* sortingStation *)

\* one token of sortingStation
Taken(station, token) ==
  IF ~isOperator(token) THEN [station EXCEPT !.out = Append(@, token)]
  ELSE IF token = "(" THEN [station EXCEPT !.ops = Append(@, "(")]
  ELSE IF token = ")" THEN
    LET popped == PopWhile(station, Operators \ {"("})
    IN  [popped EXCEPT !.ops = IF @ = <<>> THEN @ ELSE Front(@)]
  ELSE
    LET popped == PopWhile(station,
                    {op \in Operators \ {"("} : getPriority(op) >= getPriority(token)})
    IN  [popped EXCEPT !.ops = Append(@, token)]

Stations(U) == [out : Seq(U), ops : Seq(Operators)]
Start == [out |-> <<>>, ops |-> <<>>]

\* The operators on top, all of these, move to the output in reverse.
LEMMA Pops ==
  ASSUME NEW U, Operators \subseteq U, NEW out \in Seq(U),
         NEW below \in Seq(Operators), NEW above \in Seq(Operators), NEW these,
         \A i \in 1 .. Len(above) : above[i] \in these,
         below = <<>> \/ Last(below) \notin these
  PROVE  PopWhile([out |-> out, ops |-> below \o above], these) =
           [out |-> out \o Reverse(above), ops |-> below]
  <1> DEFINE ops == below \o above
             m == Len(below)
             n == Len(above)
             I == {i \in 1 .. Len(ops) : ops[i] \notin these}
             kept == IF I # {} THEN Max(I) ELSE 0
  <1>1. /\ m \in Nat /\ n \in Nat /\ Len(ops) = m + n /\ ops \in Seq(Operators)
        /\ \A i \in 1 .. m : ops[i] = below[i]
        /\ \A i \in 1 .. n : ops[m + i] = above[i]
    OBVIOUS
  <1>2. \A i \in 1 .. m + n : i <= m \/ (i - m \in 1 .. n /\ m + (i - m) = i)
    BY <1>1
  <1>3. I \subseteq 1 .. m
    <2> SUFFICES ASSUME NEW i \in I
                 PROVE  i \in 1 .. m
      OBVIOUS
    <2>1. i \in 1 .. m + n /\ ops[i] \notin these
      BY <1>1
    <2>2. ~(i - m \in 1 .. n /\ m + (i - m) = i)
      BY <1>1, <2>1
    <2> QED  BY <1>1, <1>2, <2>1, <2>2
  <1>4. kept = m
    <2>1. CASE m = 0
      BY <1>3, <2>1
    <2>2. CASE m # 0
      <3>1. m \in 1 .. m /\ below # <<>> /\ Last(below) = below[m]
        BY <1>1, <2>2 DEF Last
      <3>2. m \in I
        BY <1>1, <3>1
      <3>3. \A i \in I : m >= i
        BY <1>1, <1>3
      <3>4. I \in SUBSET (1 .. m) /\ I # {}
        BY <1>3, <3>2
      <3>5. Max(I) \in I /\ Max(I) \in 1 .. m /\ \A i \in I : Max(I) >= i
        BY <1>1, <3>4, MaxOf
      <3>6. Max(I) = m
        <4> HIDE DEF I
        <4>1. Max(I) <= m /\ Max(I) >= m /\ Max(I) \in Nat
          BY <1>1, <3>2, <3>5
        <4> QED  BY <1>1, <4>1
      <3> QED  BY <3>2, <3>6
    <2> QED  BY <2>1, <2>2
  <1>5. SubSeq(ops, 1, m) = below
    BY <1>1
  <1>6. SubSeq(ops, m + 1, Len(ops)) = above
    BY <1>1, <1>2
  <1>7. PopWhile([out |-> out, ops |-> ops], these) =
          [out |-> out \o Reverse(SubSeq(ops, kept + 1, Len(ops))), ops |-> SubSeq(ops, 1, kept)]
    BY DEF PopWhile, SelectLastInSeq
  <1> HIDE DEF kept, ops
  <1> QED  BY <1>4, <1>5, <1>6, <1>7 DEF ops

LEMMA PopTyped ==
  ASSUME NEW U, Operators \subseteq U, NEW station \in Stations(U), NEW these
  PROVE  PopWhile(station, these) \in Stations(U)
  <1> DEFINE ops == station.ops
             I == {i \in 1 .. Len(ops) : ops[i] \notin these}
             kept == IF I # {} THEN Max(I) ELSE 0
             moved == SubSeq(ops, kept + 1, Len(ops))
  <1>1. ops \in Seq(Operators) /\ station.out \in Seq(U) /\ Len(ops) \in Nat
    BY DEF Stations
  <1>2. kept \in 0 .. Len(ops)
    <2>1. I \in SUBSET (1 .. Len(ops))
      OBVIOUS
    <2> HIDE DEF I
    <2>2. I # {} => Max(I) \in 1 .. Len(ops)
      BY <1>1, <2>1, MaxOf
    <2> QED  BY <1>1, <2>2
  <1> HIDE DEF kept
  <1>3. moved \in Seq(Operators) /\ SubSeq(ops, 1, kept) \in Seq(Operators)
    BY <1>1, <1>2
  <1>4. PopWhile(station, these) =
          [out |-> station.out \o Reverse(moved), ops |-> SubSeq(ops, 1, kept)]
    BY DEF PopWhile, SelectLastInSeq, kept
  <1> HIDE DEF moved
  <1>5. Reverse(moved) \in Seq(U)
    BY <1>3 DEF Reverse
  <1>6. station.out \o Reverse(moved) \in Seq(U)
    BY <1>1, <1>5
  <1> QED  BY <1>3, <1>4, <1>6 DEF Stations

LEMMA TakenTyped ==
  ASSUME NEW U, Operators \subseteq U, NEW station \in Stations(U), NEW token \in U
  PROVE  Taken(station, token) \in Stations(U)
  <1>1. CASE ~isOperator(token)
    BY <1>1 DEF Taken, Stations
  <1>2. CASE token = "("
    BY <1>2 DEF Taken, Stations, isOperator, Operators
  <1>3. CASE token = ")"
    <2> DEFINE popped == PopWhile(station, Operators \ {"("})
    <2>1. popped \in Stations(U)
      BY PopTyped
    <2>2. Taken(station, token) =
            [popped EXCEPT !.ops = IF @ = <<>> THEN @ ELSE Front(@)]
      BY <1>3 DEF Taken, isOperator, Operators
    <2> HIDE DEF popped
    <2>3. popped.ops # <<>> => Front(popped.ops) \in Seq(Operators)
      BY <2>1 DEF Stations, Front
    <2> QED  BY <2>1, <2>2, <2>3 DEF Stations
  <1>4. CASE isOperator(token) /\ token \notin {"(", ")"}
    <2> DEFINE popped == PopWhile(station,
                  {op \in Operators \ {"("} : getPriority(op) >= getPriority(token)})
    <2>1. popped \in Stations(U)
      BY PopTyped
    <2>2. Taken(station, token) = [popped EXCEPT !.ops = Append(@, token)]
      BY <1>4 DEF Taken
    <2> HIDE DEF popped
    <2>3. popped.ops \in Seq(Operators) /\ token \in Operators
      BY <1>4, <2>1 DEF Stations, isOperator
    <2>4. Append(popped.ops, token) \in Seq(Operators)
      BY <2>3
    <2> QED  BY <2>1, <2>2, <2>4 DEF Stations
  <1> QED  BY <1>1, <1>2, <1>3, <1>4

\* the stations that the loop of sortingStation goes through
StationRow(row, U, tokens) ==
  /\ row \in [0 .. Len(tokens) -> Stations(U)] /\ row[0] = Start
  /\ \A i \in 1 .. Len(tokens) : row[i] = Taken(row[i - 1], tokens[i])
  /\ sortingStation(tokens) = PopWhile(row[Len(tokens)], Operators).out

LEMMA SortingRow ==
  ASSUME NEW U, Operators \subseteq U, NEW tokens \in Seq(U)
  PROVE  \E row : StationRow(row, U, tokens)
  <1> DEFINE n == Len(tokens)
             X == Stations(U)
             base == Start
             step == [a \in (1 .. n) \X X |-> Taken(a[2], tokens[a[1]])]
             equation(f) ==
               f = [s \in SUBSET (1 .. n) |->
                      IF s = {} THEN base ELSE Taken(f[s \ {Max(s)}], tokens[Max(s)])]
             iter == CHOOSE f : equation(f)
  <1>1. n \in Nat /\ DOMAIN tokens = 1 .. n /\ \A i \in 1 .. n : tokens[i] \in U
    OBVIOUS
  <1>2. step \in [(1 .. n) \X X -> X]
    <2>1. \A a \in (1 .. n) \X X : Taken(a[2], tokens[a[1]]) \in X
      BY <1>1, TakenTyped
    <2> QED  BY <2>1
  <1>3. \A i \in 1 .. n, y \in X : step[<<i, y>>] = Taken(y, tokens[i])
    OBVIOUS
  <1>4. base \in X
    BY DEF Start, Stations
  <1> HIDE DEF step, X
  <1>5. \A s \in SUBSET (1 .. n) : s # {} => Max(s) \in 1 .. n
    BY <1>1, MaxOf
  <1>6. \E f : equation(f)
    <2>1. PICK f \in [SUBSET (1 .. n) -> X] : FoldsOver(f, X, n, base, step)
      <3> HIDE DEF n, base
      <3> QED  BY <1>1, <1>2, <1>4, FoldExists
    <2>2. ASSUME NEW s \in SUBSET (1 .. n)
          PROVE  f[s] = IF s = {} THEN base ELSE Taken(f[s \ {Max(s)}], tokens[Max(s)])
      <3>1. s \ {Max(s)} \in SUBSET (1 .. n)
        OBVIOUS
      <3>2. f[s \ {Max(s)}] \in X
        BY <2>1, <3>1
      <3> QED  BY <1>3, <1>5, <2>1, <3>2 DEF FoldsOver
    <2>3. equation(f)
      BY <2>1, <2>2
    <2> QED  BY <2>3
  <1>7. equation(iter)
    <2> HIDE DEF equation
    <2> QED  BY <1>6
  <1>8. sortingStation(tokens) = PopWhile(iter[1 .. n], Operators).out
    BY <1>1 DEF sortingStation, FoldLeft, MapThenFoldSet, Taken, Start
  <1> HIDE DEF iter
  <1>9. FoldsOver(iter, X, n, base, step)
    <2>1. \A s \in SUBSET (1 .. n) :
            iter[s] = IF s = {} THEN base ELSE Taken(iter[s \ {Max(s)}], tokens[Max(s)])
      BY <1>7
    <2> QED  BY <1>3, <1>5, <2>1 DEF FoldsOver
  <1>10. PICK row \in [0 .. n -> X] : Row(row, n, base, step) /\ iter[1 .. n] = row[n]
    <2> HIDE DEF n, base
    <2>1. RowReaches(iter[1 .. n], X, n, base, step)
      BY <1>1, <1>2, <1>4, <1>9, FoldRow, Zenon
    <2> QED  BY <2>1 DEF RowReaches
  <1>11. ASSUME NEW i \in 1 .. n
         PROVE  row[i] = Taken(row[i - 1], tokens[i])
    <2>1. i - 1 \in 0 .. n /\ row[i - 1] \in X
      BY <1>1, <1>10
    <2> QED  BY <1>3, <1>10, <2>1 DEF Row
  <1>12. StationRow(row, U, tokens)
    BY <1>8, <1>10, <1>11 DEF Row, StationRow, X
  <1> QED  BY <1>12

LEMMA Sorting ==
  ASSUME NEW U, Operators \subseteq U, NEW tokens \in Seq(U)
  PROVE  /\ WithImplicitAnd(tokens) \in Seq(U)
         /\ sortingStation(WithImplicitAnd(tokens)) \in Seq(U)
  <1>1. PICK row : TokenRow(row, U, tokens)
    BY ImplicitRow DEF Operators
  <1>2. Len(tokens) \in 0 .. Len(tokens)
    OBVIOUS
  <1>3. WithImplicitAnd(tokens) \in Seq(U)
    BY <1>1, <1>2 DEF TokenRow
  <1> DEFINE processed == WithImplicitAnd(tokens)
  <1> HIDE DEF processed
  <1>4. PICK stations : StationRow(stations, U, processed)
    BY <1>3, SortingRow DEF processed
  <1>5. stations[Len(processed)] \in Stations(U)
    BY <1>3, <1>4 DEF StationRow, processed
  <1>6. PopWhile(stations[Len(processed)], Operators) \in Stations(U)
    BY <1>5, PopTyped
  <1>7. sortingStation(processed) \in Seq(U)
    BY <1>4, <1>6 DEF StationRow, Stations
  <1> QED  BY <1>3, <1>7 DEF processed
-----------------------------------------------------------------------------
(* The answer *)

\* the postings of an index of the searcher: for each term a sorted list of documents
SortedIndex(idx, total) ==
  /\ total \in Nat
  /\ \A t \in DOMAIN idx :
       /\ idx[t] \in Seq(0 .. total - 1)
       /\ \A i, j \in DOMAIN idx[t] : i < j => idx[t][i] < idx[t][j]

\* the documents of each term
Documented(idx) == [t \in DOMAIN idx |-> Range(idx[t])]

LEMMA IndexListed ==
  ASSUME NEW idx, NEW total, SortedIndex(idx, total)
  PROVE  PostingsList(idx, Documented(idx), 0 .. total - 1)
  <1> DEFINE H == Documented(idx)
             D == 0 .. total - 1
  <1> SUFFICES ASSUME NEW t
               PROVE  /\ Held(H, t) \in SUBSET D
                      /\ Lists(Postings(idx, t), Held(H, t))
    BY DEF PostingsList
  <1>1. CASE t \in DOMAIN idx
    <2> DEFINE l == idx[t]
    <2>1. /\ l \in Seq(0 .. total - 1) /\ total \in Nat
          /\ \A i, j \in DOMAIN l : i < j => l[i] < l[j]
      BY <1>1 DEF SortedIndex
    <2>2. Held(H, t) = Range(l) /\ Postings(idx, t) = l
      BY <1>1 DEF Held, Documented, Postings
    <2> HIDE DEF l, H
    <2>3. 0 .. total - 1 \subseteq Nat /\ DOMAIN l = 1 .. Len(l)
      BY <2>1
    <2>4. l \in Seq(Nat) /\ Range(l) \subseteq 0 .. total - 1
      BY <2>1, <2>3 DEF Range
    <2>5. Lists(l, Range(l))
      BY <2>1, <2>3, <2>4 DEF Lists, Range
    <2> QED  BY <2>2, <2>4, <2>5
  <1>2. CASE t \notin DOMAIN idx
    <2>1. Held(H, t) = {} /\ Postings(idx, t) = <<>>
      BY <1>2 DEF Held, Documented, Postings
    <2> QED  BY <2>1, EmptyLists
  <1> QED  BY <1>1, <1>2

(* findDocument (searcher.cpp:93) answers any sequence of words and operators,  *)
(* well formed or not, with a strictly sorted list of documents that exist.     *)
THEOREM AnswerWellFormed ==
  ASSUME NEW idx, NEW total, SortedIndex(idx, total), NEW U, NEW tokens \in Seq(U)
  PROVE  LET answer == findDocument(tokens, idx, total)
         IN  /\ Range(answer) \subseteq 0 .. total - 1
             /\ \A i, j \in DOMAIN answer : i < j => answer[i] < answer[j]
  <1> DEFINE V == U \cup Operators
             rpn == sortingStation(WithImplicitAnd(tokens))
             answer == findDocument(tokens, idx, total)
             D == 0 .. total - 1
             H == Documented(idx)
  <1>1. tokens \in Seq(V) /\ Operators \subseteq V
    OBVIOUS
  <1> HIDE DEF V
  <1>2. rpn \in Seq(V)
    BY <1>1, Sorting
  <1> HIDE DEF rpn
  <1>3. total \in Nat /\ D = 0 .. total - 1 /\ PostingsList(idx, H, D)
    BY IndexListed DEF SortedIndex
  <1> HIDE DEF D, H
  <1>4. PICK row : /\ SetRow(row, rpn, H, D)
                   /\ Lists(evaluate(rpn, idx, total), OnTop(row[Len(rpn)]))
    BY <1>2, <1>3, Evaluated
  <1>5. answer = evaluate(rpn, idx, total)
    BY DEF findDocument, rpn
  <1> HIDE DEF answer
  <1>6. OnTop(row[Len(rpn)]) \subseteq D
    <2> DEFINE top == row[Len(rpn)]
    <2>1. top \in Seq(SUBSET D)
      <3>1. Len(rpn) \in 0 .. Len(rpn)
        BY <1>2
      <3>2. row \in [0 .. Len(rpn) -> Seq(SUBSET D)]
        BY <1>4 DEF SetRow
      <3> QED  BY <3>1, <3>2
    <2> HIDE DEF top
    <2>2. top # <<>> => top[Len(top)] \in SUBSET D
      BY <2>1
    <2>3. OnTop(top) \subseteq D
      BY <2>2 DEF OnTop, Last
    <2> QED  BY <2>3 DEF top
  <1>7. Lists(answer, OnTop(row[Len(rpn)]))
    BY <1>4, <1>5
  <1>8. /\ DOMAIN answer = 1 .. Len(answer)
        /\ OnTop(row[Len(rpn)]) = {answer[i] : i \in 1 .. Len(answer)}
        /\ \A i, j \in 1 .. Len(answer) : i < j => answer[i] < answer[j]
    BY <1>7 DEF Lists
  <1>9. Range(answer) = OnTop(row[Len(rpn)])
    BY <1>8 DEF Range
  <1>10. /\ Range(answer) \subseteq D
         /\ \A i, j \in DOMAIN answer : i < j => answer[i] < answer[j]
    BY <1>6, <1>8, <1>9
  <1> QED  BY <1>10 DEF answer, D
-----------------------------------------------------------------------------
(* What the three loops of a query do with one token more *)

\* two rows start alike and go on alike
SameSteps(r1, r2, n) ==
  r1[0] = r2[0] /\ \A i \in 1 .. n : r1[i - 1] = r2[i - 1] => r1[i] = r2[i]

LEMMA RowsAgree ==
  ASSUME NEW r1, NEW r2, NEW n \in Nat, SameSteps(r1, r2, n)
  PROVE  r1[n] = r2[n]
  <1> DEFINE T == {i \in Nat : i <= n => r1[i] = r2[i]}
  <1>1. 0 \in T
    BY DEF SameSteps
  <1>2. ASSUME NEW i \in Nat, i \in T
        PROVE  i + 1 \in T
    <2> SUFFICES ASSUME i + 1 <= n
                 PROVE  r1[i + 1] = r2[i + 1]
      OBVIOUS
    <2>1. i + 1 \in 1 .. n /\ (i + 1) - 1 = i /\ r1[i] = r2[i]
      BY <1>2
    <2> QED  BY <2>1 DEF SameSteps
  <1>3. \A i \in Nat : i \in T
    <2> HIDE DEF T
    <2> QED  BY <1>1, <1>2, Induction
  <1> QED  BY <1>3

LEMMA Appended ==
  ASSUME NEW U, NEW tokens \in Seq(U), NEW t \in U
  PROVE  /\ Append(tokens, t) \in Seq(U) /\ Len(tokens) \in Nat
         /\ Len(Append(tokens, t)) = Len(tokens) + 1
         /\ Append(tokens, t)[Len(tokens) + 1] = t
         /\ \A i \in 1 .. Len(tokens) : Append(tokens, t)[i] = tokens[i]
  OBVIOUS

LEMMA ImplicitSnoc ==
  ASSUME NEW U, Operators \subseteq U, NEW tokens \in Seq(U), NEW t \in U
  PROVE  WithImplicitAnd(Append(tokens, t)) = WithToken(WithImplicitAnd(tokens), t)
  <1> DEFINE longer == Append(tokens, t)
             n == Len(tokens)
  <1>1. /\ longer \in Seq(U) /\ n \in Nat /\ Len(longer) = n + 1
        /\ longer[n + 1] = t /\ \A i \in 1 .. n : longer[i] = tokens[i]
    BY Appended
  <1> HIDE DEF longer, n
  <1>2. PICK r1 : TokenRow(r1, U, tokens)
    BY ImplicitRow DEF Operators
  <1>3. PICK r2 : TokenRow(r2, U, longer)
    BY <1>1, ImplicitRow DEF Operators
  <1>4. /\ r1[0] = <<>> /\ WithImplicitAnd(tokens) = r1[n]
        /\ \A i \in 1 .. n : r1[i] = WithToken(r1[i - 1], tokens[i])
    BY <1>2 DEF TokenRow, n
  <1>5. /\ r2[0] = <<>> /\ WithImplicitAnd(longer) = r2[n + 1]
        /\ \A i \in 1 .. n + 1 : r2[i] = WithToken(r2[i - 1], longer[i])
    BY <1>1, <1>3 DEF TokenRow
  <1>6. \A i \in 1 .. n : i \in 1 .. n + 1
    BY <1>1
  <1>7. SameSteps(r1, r2, n)
    BY <1>1, <1>4, <1>5, <1>6 DEF SameSteps
  <1>8. r1[n] = r2[n]
    BY <1>1, <1>7, RowsAgree
  <1>9. n + 1 \in 1 .. n + 1 /\ (n + 1) - 1 = n
    BY <1>1
  <1>10. r2[n + 1] = WithToken(r2[n], t)
    BY <1>1, <1>5, <1>9
  <1> QED  BY <1>4, <1>5, <1>8, <1>10 DEF longer

\* the station after some tokens
Station(U, tokens) == (CHOOSE row : StationRow(row, U, tokens))[Len(tokens)]

LEMMA StationSnoc ==
  ASSUME NEW U, Operators \subseteq U, NEW tokens \in Seq(U), NEW t \in U
  PROVE  /\ Station(U, tokens) \in Stations(U)
         /\ sortingStation(tokens) = PopWhile(Station(U, tokens), Operators).out
         /\ Station(U, Append(tokens, t)) = Taken(Station(U, tokens), t)
  <1> DEFINE longer == Append(tokens, t)
             n == Len(tokens)
             r1 == CHOOSE row : StationRow(row, U, tokens)
             r2 == CHOOSE row : StationRow(row, U, longer)
  <1>1. /\ longer \in Seq(U) /\ n \in Nat /\ Len(longer) = n + 1
        /\ longer[n + 1] = t /\ \A i \in 1 .. n : longer[i] = tokens[i]
    BY Appended
  <1> HIDE DEF longer, n
  <1>2. StationRow(r1, U, tokens)
    BY SortingRow
  <1>3. StationRow(r2, U, longer)
    BY <1>1, SortingRow
  <1>4. Station(U, tokens) = r1[n] /\ Station(U, longer) = r2[n + 1]
    BY <1>1 DEF Station, n
  <1> HIDE DEF r1, r2
  <1>5. /\ r1 \in [0 .. n -> Stations(U)] /\ r1[0] = Start
        /\ \A i \in 1 .. n : r1[i] = Taken(r1[i - 1], tokens[i])
        /\ sortingStation(tokens) = PopWhile(r1[n], Operators).out
    BY <1>2 DEF StationRow, n
  <1>6. /\ r2[0] = Start /\ \A i \in 1 .. n + 1 : r2[i] = Taken(r2[i - 1], longer[i])
    BY <1>1, <1>3 DEF StationRow
  <1>7. n \in 0 .. n /\ n + 1 \in 1 .. n + 1 /\ (n + 1) - 1 = n /\ \A i \in 1 .. n : i \in 1 .. n + 1
    BY <1>1
  <1>8. SameSteps(r1, r2, n)
    BY <1>1, <1>5, <1>6, <1>7 DEF SameSteps
  <1>9. r1[n] = r2[n]
    BY <1>1, <1>8, RowsAgree
  <1>10. r2[n + 1] = Taken(r2[n], t)
    BY <1>1, <1>6, <1>7
  <1>11. r1[n] \in Stations(U)
    BY <1>5, <1>7
  <1> QED  BY <1>4, <1>5, <1>9, <1>10, <1>11 DEF longer

LEMMA EmptyStation ==
  ASSUME NEW U, Operators \subseteq U
  PROVE  WithImplicitAnd(<<>>) = <<>> /\ Station(U, <<>>) = Start
  <1> DEFINE none == <<>>
  <1>1. none \in Seq(U) /\ Len(none) = 0
    OBVIOUS
  <1> HIDE DEF none
  <1>2. PICK r1 : TokenRow(r1, U, none)
    BY <1>1, ImplicitRow DEF Operators
  <1>3. WithImplicitAnd(none) = <<>>
    BY <1>1, <1>2 DEF TokenRow
  <1>4. \E r2 : StationRow(r2, U, none)
    BY <1>1, SortingRow
  <1>5. Station(U, none) = Start
    BY <1>1, <1>4 DEF Station, StationRow
  <1> QED  BY <1>3, <1>5 DEF none

\* some index of the searcher, of documents numbered from 0, holds this
Serves(idx, total, H, D) ==
  total \in Nat /\ D = 0 .. total - 1 /\ PostingsList(idx, H, D)

Served(H, D) == \E idx, total : Serves(idx, total, H, D)

\* the sets on the stack after some tokens in reverse Polish notation
SetStack(rpn, H, D) == (CHOOSE row : SetRow(row, rpn, H, D))[Len(rpn)]

LEMMA SetStackLists ==
  ASSUME NEW idx, NEW total, NEW H, NEW D, Serves(idx, total, H, D), NEW U, NEW rpn \in Seq(U)
  PROVE  /\ SetRow(CHOOSE row : SetRow(row, rpn, H, D), rpn, H, D)
         /\ Lists(evaluate(rpn, idx, total), OnTop(SetStack(rpn, H, D)))
  <1> DEFINE r1 == CHOOSE row : SetRow(row, rpn, H, D)
             n == Len(rpn)
  <1>1. n \in Nat
    OBVIOUS
  <1> HIDE DEF n
  <1>2. PICK r0 : /\ SetRow(r0, rpn, H, D)
                  /\ Lists(evaluate(rpn, idx, total), OnTop(r0[n]))
    BY Evaluated DEF Serves, n
  <1>3. SetRow(r1, rpn, H, D)
    BY <1>2
  <1>4. SetStack(rpn, H, D) = r1[n]
    BY DEF SetStack, n
  <1> HIDE DEF r1
  <1>5. /\ r1[0] = <<>>
        /\ \A i \in 1 .. n : r1[i] = AppliedToSets(r1[i - 1], rpn[i], H, D)
    BY <1>3 DEF SetRow, n
  <1>6. /\ r0[0] = <<>>
        /\ \A i \in 1 .. n : r0[i] = AppliedToSets(r0[i - 1], rpn[i], H, D)
    BY <1>2 DEF SetRow, n
  <1>7. SameSteps(r1, r0, n)
    BY <1>5, <1>6 DEF SameSteps
  <1>8. r1[n] = r0[n]
    BY <1>1, <1>7, RowsAgree
  <1> QED  BY <1>2, <1>3, <1>4, <1>8 DEF r1

LEMMA SetStackSnoc ==
  ASSUME NEW H, NEW D, Served(H, D), NEW U, NEW rpn \in Seq(U), NEW t \in U
  PROVE  /\ SetStack(rpn, H, D) \in Seq(SUBSET D)
         /\ SetStack(Append(rpn, t), H, D) = AppliedToSets(SetStack(rpn, H, D), t, H, D)
  <1> DEFINE longer == Append(rpn, t)
             n == Len(rpn)
             r1 == CHOOSE row : SetRow(row, rpn, H, D)
             r2 == CHOOSE row : SetRow(row, longer, H, D)
  <1>1. /\ longer \in Seq(U) /\ n \in Nat /\ Len(longer) = n + 1
        /\ longer[n + 1] = t /\ \A i \in 1 .. n : longer[i] = rpn[i]
    BY Appended
  <1> HIDE DEF longer, n
  <1>2. SetRow(r1, rpn, H, D) /\ SetRow(r2, longer, H, D)
    <2>1. PICK idx, total : Serves(idx, total, H, D)
      BY DEF Served
    <2>2. SetRow(r1, rpn, H, D)
      BY <2>1, SetStackLists
    <2>3. SetRow(r2, longer, H, D)
      BY <1>1, <2>1, SetStackLists
    <2> QED  BY <2>2, <2>3
  <1>3. SetStack(rpn, H, D) = r1[n] /\ SetStack(longer, H, D) = r2[n + 1]
    BY <1>1 DEF SetStack, n
  <1> HIDE DEF r1, r2
  <1>4. /\ r1 \in [0 .. n -> Seq(SUBSET D)] /\ r1[0] = <<>>
        /\ \A i \in 1 .. n : r1[i] = AppliedToSets(r1[i - 1], rpn[i], H, D)
    BY <1>2 DEF SetRow, n
  <1>5. /\ r2[0] = <<>>
        /\ \A i \in 1 .. n + 1 : r2[i] = AppliedToSets(r2[i - 1], longer[i], H, D)
    BY <1>1, <1>2 DEF SetRow
  <1>6. n \in 0 .. n /\ n + 1 \in 1 .. n + 1 /\ (n + 1) - 1 = n /\ \A i \in 1 .. n : i \in 1 .. n + 1
    BY <1>1
  <1>7. SameSteps(r1, r2, n)
    BY <1>1, <1>4, <1>5, <1>6 DEF SameSteps
  <1>8. r1[n] = r2[n]
    BY <1>1, <1>7, RowsAgree
  <1>9. r2[n + 1] = AppliedToSets(r2[n], t, H, D)
    BY <1>1, <1>5, <1>6
  <1>10. r1[n] \in Seq(SUBSET D)
    BY <1>4, <1>6
  <1> QED  BY <1>3, <1>8, <1>9, <1>10 DEF longer

LEMMA EmptySetStack ==
  ASSUME NEW H, NEW D, Served(H, D)
  PROVE  SetStack(<<>>, H, D) = <<>>
  <1> DEFINE none == <<>>
  <1>1. none \in Seq({}) /\ Len(none) = 0
    OBVIOUS
  <1> HIDE DEF none
  <1>2. PICK idx, total : Serves(idx, total, H, D)
    BY DEF Served
  <1>3. SetRow(CHOOSE row : SetRow(row, none, H, D), none, H, D)
    BY <1>1, <1>2, SetStackLists
  <1>4. SetStack(none, H, D) = <<>>
    BY <1>1, <1>3 DEF SetStack, SetRow
  <1> QED  BY <1>4 DEF none

(* The station after each token of a query *)

Prefix(s, i) == SubSeq(s, 1, i)

LEMMA PrefixSnoc ==
  ASSUME NEW U, NEW s \in Seq(U), NEW i \in 1 .. Len(s)
  PROVE  /\ Prefix(s, i - 1) \in Seq(U) /\ s[i] \in U
         /\ Prefix(s, i) = Append(Prefix(s, i - 1), s[i])
  BY DEF Prefix

LEMMA WithTokenEnds ==
  ASSUME NEW U, "&" \in U, NEW processed \in Seq(U), NEW new \in U
  PROVE  /\ WithToken(processed, new) \in Seq(U) /\ WithToken(processed, new) # <<>>
         /\ Last(WithToken(processed, new)) = new
         /\ processed \o <<"&", new>> = Append(Append(processed, "&"), new)
  BY DEF WithToken, Last

LEMMA EndsInToken ==
  ASSUME NEW U, Operators \subseteq U, NEW s \in Seq(U), NEW i \in 1 .. Len(s)
  PROVE  LET processed == WithImplicitAnd(Prefix(s, i))
         IN  processed # <<>> /\ Last(processed) = s[i]
  <1> DEFINE before == WithImplicitAnd(Prefix(s, i - 1))
  <1>1. /\ Prefix(s, i - 1) \in Seq(U) /\ s[i] \in U
        /\ Prefix(s, i) = Append(Prefix(s, i - 1), s[i])
    BY PrefixSnoc
  <1>2. before \in Seq(U)
    BY <1>1, Sorting
  <1>3. WithImplicitAnd(Prefix(s, i)) = WithToken(before, s[i])
    BY <1>1, ImplicitSnoc
  <1> HIDE DEF before
  <1>4. WithToken(before, s[i]) # <<>> /\ Last(WithToken(before, s[i])) = s[i]
    BY <1>1, <1>2, WithTokenEnds DEF Operators
  <1> QED  BY <1>3, <1>4

\* the station that token i meets, after the AND that may come before it
Entry(M, s, i) ==
  IF i > 1 /\ ImpliesAnd(s[i - 1], s[i]) THEN Taken(M[i - 1], "&") ELSE M[i - 1]

\* M[i] is the station after i tokens of s
Machine(M, U, s) ==
  /\ M \in [0 .. Len(s) -> Stations(U)] /\ M[0] = Start
  /\ \A i \in 1 .. Len(s) : M[i] = Taken(Entry(M, s, i), s[i])
  /\ sortingStation(WithImplicitAnd(s)) = PopWhile(M[Len(s)], Operators).out

LEMMA MachineExists ==
  ASSUME NEW U, Operators \subseteq U, NEW s \in Seq(U)
  PROVE  \E M : Machine(M, U, s)
  <1> DEFINE n == Len(s)
             processed(i) == WithImplicitAnd(Prefix(s, i))
             M == [i \in 0 .. n |-> Station(U, processed(i))]
  <1>1. n \in Nat /\ Prefix(s, n) = s /\ Prefix(s, 0) = <<>>
    BY DEF Prefix
  <1>2. ASSUME NEW i \in 0 .. n
        PROVE  /\ processed(i) \in Seq(U) /\ Station(U, processed(i)) \in Stations(U)
               /\ sortingStation(processed(i)) = PopWhile(Station(U, processed(i)), Operators).out
    <2>1. Prefix(s, i) \in Seq(U)
      BY DEF Prefix
    <2>2. processed(i) \in Seq(U)
      BY <2>1, Sorting
    <2>3. "&" \in U
      BY DEF Operators
    <2> HIDE DEF processed
    <2> QED  BY <2>2, <2>3, StationSnoc
  <1>3. processed(0) = <<>> /\ Station(U, <<>>) = Start
    BY <1>1, EmptyStation
  <1>4. ASSUME NEW i \in 1 .. n
        PROVE  Station(U, processed(i)) =
                 Taken(IF i > 1 /\ ImpliesAnd(s[i - 1], s[i])
                         THEN Taken(Station(U, processed(i - 1)), "&")
                         ELSE Station(U, processed(i - 1)), s[i])
    <2> DEFINE before == processed(i - 1)
               t == s[i]
    <2>1. i - 1 \in 0 .. n /\ i - 1 \in Nat
      BY <1>1
    <2>2. before \in Seq(U)
      BY <1>2, <2>1
    <2>3. /\ Prefix(s, i - 1) \in Seq(U) /\ t \in U
          /\ Prefix(s, i) = Append(Prefix(s, i - 1), t)
      BY PrefixSnoc
    <2>4. processed(i) = WithToken(before, t)
      BY <2>3, ImplicitSnoc
    <2>5. (before # <<>> /\ ImpliesAnd(Last(before), t)) <=> (i > 1 /\ ImpliesAnd(s[i - 1], t))
      <3>1. CASE i = 1
        BY <1>3, <3>1
      <3>2. CASE i # 1
        <4>1. i - 1 \in 1 .. n /\ i > 1
          BY <1>1, <3>2
        <4>2. before # <<>> /\ Last(before) = s[i - 1]
          BY <4>1, EndsInToken
        <4> HIDE DEF before, t
        <4> QED  BY <4>1, <4>2
      <3> QED  BY <3>1, <3>2
    <2>6. "&" \in U
      BY DEF Operators
    <2> HIDE DEF before, t
    <2>7. Station(U, WithToken(before, t)) =
            Taken(IF before # <<>> /\ ImpliesAnd(Last(before), t)
                    THEN Taken(Station(U, before), "&") ELSE Station(U, before), t)
      <3>1. CASE before # <<>> /\ ImpliesAnd(Last(before), t)
        <4> DEFINE joined == Append(before, "&")
        <4>1. WithToken(before, t) = Append(joined, t)
          BY <2>2, <2>3, <2>6, <3>1, WithTokenEnds DEF WithToken
        <4>2. joined \in Seq(U) /\ Station(U, joined) = Taken(Station(U, before), "&")
          BY <2>2, <2>6, StationSnoc
        <4> HIDE DEF joined
        <4>3. Station(U, Append(joined, t)) = Taken(Station(U, joined), t)
          BY <2>3, <4>2, StationSnoc
        <4> QED  BY <3>1, <4>1, <4>2, <4>3
      <3>2. CASE ~(before # <<>> /\ ImpliesAnd(Last(before), t))
        <4>1. WithToken(before, t) = Append(before, t)
          BY <3>2 DEF WithToken
        <4>2. Station(U, Append(before, t)) = Taken(Station(U, before), t)
          BY <2>2, <2>3, StationSnoc
        <4> QED  BY <3>2, <4>1, <4>2
      <3> QED  BY <3>1, <3>2
    <2> QED  BY <2>4, <2>5, <2>7 DEF before, t
  <1> HIDE DEF processed
  <1>5. M \in [0 .. n -> Stations(U)]
    BY <1>2
  <1>6. M[0] = Start
    BY <1>1, <1>3
  <1>7. ASSUME NEW i \in 1 .. n
        PROVE  M[i] = Taken(Entry(M, s, i), s[i])
    <2>1. i \in 0 .. n /\ i - 1 \in 0 .. n
      BY <1>1
    <2>2. M[i] = Station(U, processed(i)) /\ M[i - 1] = Station(U, processed(i - 1))
      BY <2>1
    <2> HIDE DEF M
    <2> QED  BY <1>4, <2>2 DEF Entry
  <1>8. sortingStation(WithImplicitAnd(s)) = PopWhile(M[n], Operators).out
    <2>1. n \in 0 .. n
      BY <1>1
    <2>2. M[n] = Station(U, processed(n)) /\ processed(n) = WithImplicitAnd(s)
      BY <1>1, <2>1 DEF processed
    <2> QED  BY <1>2, <2>1, <2>2
  <1>9. Machine(M, U, s)
    <2> HIDE DEF M
    <2> QED  BY <1>5, <1>6, <1>7, <1>8 DEF Machine
  <1> QED  BY <1>9
-----------------------------------------------------------------------------
(* Operators that wait for their operands *)

\* no operator of this priority waits on top
Open(ops, level) == ops = <<>> \/ getPriority(Last(ops)) < level

\* From one station to a later one an expression was read that denotes x. The
\* operators it left above what was there have the priority level or a higher one;
\* once they move to the output, x is on top of the sets.
Pending(before, after, level, x, H, D) ==
  \E above \in Seq(Operators) :
    /\ \A k \in 1 .. Len(above) : getPriority(above[k]) >= level
    /\ after.ops = before.ops \o above
    /\ SetStack(after.out \o Reverse(above), H, D) = Append(SetStack(before.out, H, D), x)

LEMMA Priorities ==
  /\ getPriority("!") = 3 /\ getPriority("&") = 2 /\ getPriority("|") = 1
  /\ getPriority("(") = 0 /\ getPriority(")") = 0
  /\ \A op : getPriority(op) \in 0 .. 3
  BY DEF getPriority

LEMMA ApplyNegation ==
  ASSUME NEW H, NEW D, NEW S, NEW W, NEW x, W \in Seq(S), x \in S
  PROVE  AppliedToSets(Append(W, x), "!", H, D) = Append(W, D \ x)
  <1> DEFINE one == Append(W, x)
  <1>1. /\ Len(one) = Len(W) + 1 /\ Len(W) \in Nat /\ one[Len(W) + 1] = x
        /\ SubSeq(one, 1, Len(one) - 1) = W
    OBVIOUS
  <1>2. isOperator("!")
    BY DEF isOperator, Operators
  <1> HIDE DEF one
  <1>3. AppliedToSets(one, "!", H, D) = Append(W, D \ x)
    BY <1>1, <1>2 DEF AppliedToSets
  <1> QED  BY <1>3 DEF one

\* what an AND or an OR makes of two sets
JoinsSets(op, x, y, z) ==
  \/ op = "&" /\ z = x \cap y
  \/ op = "|" /\ z = x \cup y

LEMMA ApplyBinary ==
  ASSUME NEW H, NEW D, NEW S, NEW W, NEW x, NEW y, W \in Seq(S), x \in S, y \in S,
         NEW op, NEW z, JoinsSets(op, x, y, z)
  PROVE  AppliedToSets(Append(Append(W, x), y), op, H, D) = Append(W, z)
  <1> DEFINE two == Append(Append(W, x), y)
  <1>1. /\ Len(two) = Len(W) + 2 /\ Len(W) \in Nat
        /\ two[Len(two)] = y /\ two[Len(two) - 1] = x
        /\ SubSeq(two, 1, Len(two) - 2) = W
    OBVIOUS
  <1>2. isOperator("&") /\ isOperator("|")
    BY DEF isOperator, Operators
  <1> HIDE DEF two
  <1>3. CASE op = "&" /\ z = x \cap y
    BY <1>1, <1>2, <1>3 DEF AppliedToSets
  <1>4. CASE op = "|" /\ z = x \cup y
    BY <1>1, <1>2, <1>4 DEF AppliedToSets
  <1> QED  BY <1>3, <1>4 DEF two, JoinsSets

LEMMA ReverseTyped ==
  ASSUME NEW U, NEW q \in Seq(U), NEW op \in U
  PROVE  /\ Reverse(q) \in Seq(U)
         /\ Reverse(<<op>> \o q) = Append(Reverse(q), op)
  <1> DEFINE r == Reverse(q)
             longer == <<op>> \o q
             n == Len(q)
  <1>1. n \in Nat /\ r = [i \in 1 .. n |-> q[n - i + 1]]
    BY DEF Reverse
  <1>2. \A i \in 1 .. n : n - i + 1 \in 1 .. n
    BY <1>1
  <1>3. r \in [1 .. n -> U] /\ r \in Seq(U)
    BY <1>1, <1>2
  <1>4. /\ longer \in Seq(U) /\ Len(longer) = n + 1
        /\ longer[1] = op /\ \A i \in 1 .. n : longer[i + 1] = q[i]
    OBVIOUS
  <1>5. Reverse(longer) = [i \in 1 .. n + 1 |-> longer[(n + 1) - i + 1]]
    BY <1>4 DEF Reverse
  <1>6. /\ Append(r, op) \in Seq(U) /\ Len(Append(r, op)) = n + 1
        /\ \A i \in 1 .. n + 1 : Append(r, op)[i] = IF i = n + 1 THEN op ELSE r[i]
    BY <1>1, <1>3
  <1> HIDE DEF r, longer, n
  <1>7. ASSUME NEW i \in 1 .. n + 1
        PROVE  longer[(n + 1) - i + 1] = IF i = n + 1 THEN op ELSE r[i]
    <2>1. CASE i = n + 1
      <3>1. (n + 1) - i + 1 = 1
        BY <1>1, <2>1
      <3> QED  BY <1>4, <2>1, <3>1
    <2>2. CASE i # n + 1
      <3>1. i \in 1 .. n /\ n - i + 1 \in 1 .. n /\ (n + 1) - i + 1 = (n - i + 1) + 1
        BY <1>1, <2>2
      <3> QED  BY <1>1, <1>4, <2>2, <3>1
    <2> QED  BY <2>1, <2>2
  <1>8. Reverse(longer) = Append(r, op)
    <2> DEFINE a == Append(r, op)
    <2>1. \A i \in 1 .. n + 1 : longer[(n + 1) - i + 1] = a[i]
      BY <1>6, <1>7
    <2>2. a \in Seq(U) /\ Len(a) = n + 1
      BY <1>6
    <2> HIDE DEF a
    <2>3. a = [i \in 1 .. n + 1 |-> a[i]]
      BY <2>2
    <2>4. Reverse(longer) = a
      BY <1>5, <2>1, <2>3
    <2> QED  BY <2>4 DEF a
  <1> QED  BY <1>3, <1>8 DEF r, longer

LEMMA Joining ==
  ASSUME NEW U, NEW a \in Seq(U), NEW op \in U, NEW b \in Seq(U)
  PROVE  /\ Append(a, op) \o b = a \o (<<op>> \o b)
         /\ a \o Append(b, op) = Append(a \o b, op) /\ a \o b \in Seq(U)
  OBVIOUS

LEMMA FrontOfAppend ==
  ASSUME NEW U, NEW a \in Seq(U), NEW op \in U
  PROVE  Append(a, op) # <<>> /\ Front(Append(a, op)) = a
  BY DEF Front

\* Nothing is pending after an expression that left no operator.
LEMMA NothingPending ==
  ASSUME NEW H, NEW D,
         NEW U, NEW before \in Stations(U), NEW after \in Stations(U), NEW level, NEW x,
         after.ops = before.ops, SetStack(after.out, H, D) = Append(SetStack(before.out, H, D), x)
  PROVE  Pending(before, after, level, x, H, D)
  <1> DEFINE none == <<>>
  <1>1. /\ none \in Seq(Operators) /\ Len(none) = 0 /\ Reverse(none) = none
        /\ before.ops \o none = before.ops /\ after.out \o none = after.out
    BY DEF Reverse, Stations
  <1> HIDE DEF none
  <1>2. \A k \in 1 .. Len(none) : getPriority(none[k]) >= level
    BY <1>1
  <1> QED  BY <1>1, <1>2 DEF Pending

LEMMA LowerLevel ==
  ASSUME NEW H, NEW D,
         NEW before, NEW after, NEW x, NEW high \in 1 .. 3, NEW low \in 1 .. 3, low <= high,
         Pending(before, after, high, x, H, D)
  PROVE  Pending(before, after, low, x, H, D)
  <1>1. PICK above \in Seq(Operators) :
          /\ \A k \in 1 .. Len(above) : getPriority(above[k]) >= high
          /\ after.ops = before.ops \o above
          /\ SetStack(after.out \o Reverse(above), H, D) = Append(SetStack(before.out, H, D), x)
    BY DEF Pending
  <1>2. ASSUME NEW k \in 1 .. Len(above)
        PROVE  getPriority(above[k]) >= low
    <2>1. getPriority(above[k]) \in 0 .. 3 /\ getPriority(above[k]) >= high
      BY <1>1, Priorities
    <2> QED  BY <2>1
  <1> QED  BY <1>1, <1>2 DEF Pending

\* Operators that wait move to the output when none below them does.
LEMMA PopPending ==
  ASSUME NEW H, NEW D, Served(H, D),
         NEW U, Operators \subseteq U, NEW before \in Stations(U), NEW after \in Stations(U),
         NEW level, NEW x, NEW these, Pending(before, after, level, x, H, D),
         \A op \in Operators : getPriority(op) >= level => op \in these,
         before.ops = <<>> \/ Last(before.ops) \notin these
  PROVE  \E out \in Seq(U) : /\ PopWhile(after, these) = [out |-> out, ops |-> before.ops]
                             /\ SetStack(out, H, D) = Append(SetStack(before.out, H, D), x)
  <1>1. PICK above \in Seq(Operators) :
          /\ \A k \in 1 .. Len(above) : getPriority(above[k]) >= level
          /\ after.ops = before.ops \o above
          /\ SetStack(after.out \o Reverse(above), H, D) = Append(SetStack(before.out, H, D), x)
    BY DEF Pending
  <1>2. before.ops \in Seq(Operators) /\ after.out \in Seq(U)
    BY DEF Stations
  <1>3. \A k \in 1 .. Len(above) : above[k] \in these
    BY <1>1
  <1>4. PopWhile([out |-> after.out, ops |-> before.ops \o above], these) =
          [out |-> after.out \o Reverse(above), ops |-> before.ops]
    <2> DEFINE out == after.out
               below == before.ops
    <2>1. out \in Seq(U) /\ below \in Seq(Operators) /\ (below = <<>> \/ Last(below) \notin these)
      BY <1>2
    <2> HIDE DEF out, below
    <2>2. PopWhile([out |-> out, ops |-> below \o above], these) =
            [out |-> out \o Reverse(above), ops |-> below]
      BY <1>3, <2>1, Pops
    <2> QED  BY <2>2 DEF out, below
  <1>5. after = [out |-> after.out, ops |-> before.ops \o above]
    BY <1>1 DEF Stations
  <1>6. Reverse(above) \in Seq(U)
    BY DEF Reverse
  <1>7. after.out \o Reverse(above) \in Seq(U)
    BY <1>2, <1>6
  <1> QED  BY <1>1, <1>4, <1>5, <1>7

\* what an operator moves to the output before it is put on top
Higher(op) == {o \in Operators \ {"("} : getPriority(o) >= getPriority(op)}

LEMMA TakenOperator ==
  ASSUME NEW st, NEW op \in {"!", "&", "|"}
  PROVE  /\ Taken(st, op) = [PopWhile(st, Higher(op)) EXCEPT !.ops = Append(@, op)]
         /\ \A o \in Operators : getPriority(o) >= getPriority(op) => o \in Higher(op)
  <1>1. isOperator(op) /\ op # "(" /\ op # ")"
    BY DEF isOperator, Operators
  <1>2. getPriority(op) >= 1 /\ getPriority("(") = 0
    BY Priorities
  <1>3. Taken(st, op) = [PopWhile(st, Higher(op)) EXCEPT !.ops = Append(@, op)]
    BY <1>1 DEF Taken, Higher
  <1>4. ASSUME NEW o \in Operators, getPriority(o) >= getPriority(op)
        PROVE  o \in Higher(op)
    <2>1. getPriority(o) \in 0 .. 3 /\ getPriority(op) \in 0 .. 3
      BY Priorities
    <2>2. o # "("
      BY <1>2, <1>4, <2>1
    <2> QED  BY <1>4, <2>2 DEF Higher
  <1> QED  BY <1>3, <1>4

LEMMA OpenBelow ==
  ASSUME NEW ops, NEW op \in {"!", "&", "|"}, Open(ops, getPriority(op))
  PROVE  ops = <<>> \/ Last(ops) \notin Higher(op)
  <1>1. getPriority(op) \in 0 .. 3 /\ getPriority(Last(ops)) \in 0 .. 3
    BY Priorities
  <1> QED  BY <1>1 DEF Open, Higher

LEMMA OpenAbove ==
  ASSUME NEW ops \in Seq(Operators), NEW op \in Operators, NEW level, getPriority(op) < level
  PROVE  Open(Append(ops, op), level)
  BY DEF Open, Last

LEMMA ReadOperand ==
  ASSUME NEW H, NEW D, Served(H, D),
         NEW U, Operators \subseteq U, NEW st \in Stations(U), NEW t \in U, ~isOperator(t)
  PROVE  Pending(st, Taken(st, t), 3, Held(H, t), H, D)
  <1>1. Taken(st, t) = [st EXCEPT !.out = Append(@, t)]
    BY DEF Taken
  <1>2. st.out \in Seq(U) /\ st.ops \in Seq(Operators)
    BY DEF Stations
  <1>3. Taken(st, t).out = Append(st.out, t) /\ Taken(st, t).ops = st.ops
    BY <1>1 DEF Stations
  <1>4. SetStack(Append(st.out, t), H, D) = AppliedToSets(SetStack(st.out, H, D), t, H, D)
    BY <1>2, SetStackSnoc
  <1>5. SetStack(Append(st.out, t), H, D) = Append(SetStack(st.out, H, D), Held(H, t))
    BY <1>4 DEF AppliedToSets
  <1>6. Taken(st, t) \in Stations(U)
    BY TakenTyped
  <1> QED  BY <1>3, <1>5, <1>6, NothingPending

LEMMA ReadParentheses ==
  ASSUME NEW H, NEW D, Served(H, D),
         NEW U, Operators \subseteq U, NEW st \in Stations(U), NEW last \in Stations(U),
         NEW x, Pending(Taken(st, "("), last, 1, x, H, D)
  PROVE  Pending(st, Taken(last, ")"), 3, x, H, D)
  <1> DEFINE inner == Taken(st, "(")
             these == Operators \ {"("}
  <1>1. inner = [st EXCEPT !.ops = Append(@, "(")]
    BY DEF Taken, isOperator, Operators
  <1>2. st.out \in Seq(U) /\ st.ops \in Seq(Operators)
    BY DEF Stations
  <1>3. inner.ops = Append(st.ops, "(") /\ inner.out = st.out
    BY <1>1 DEF Stations
  <1>4. inner \in Stations(U)
    <2>1. "(" \in U
      BY DEF Operators
    <2> QED  BY <2>1, TakenTyped
  <1>5. Last(inner.ops) \notin these
    BY <1>2, <1>3 DEF Last, Operators
  <1>6. \A op \in Operators : getPriority(op) >= 1 => op \in these
    BY Priorities
  <1> HIDE DEF inner, these
  <1>7. PICK out \in Seq(U) : /\ PopWhile(last, these) = [out |-> out, ops |-> inner.ops]
                              /\ SetStack(out, H, D) = Append(SetStack(inner.out, H, D), x)
    BY <1>4, <1>5, <1>6, PopPending DEF inner
  <1> DEFINE popped == PopWhile(last, these)
  <1>8. Taken(last, ")") = [popped EXCEPT !.ops = IF @ = <<>> THEN @ ELSE Front(@)]
    BY DEF Taken, isOperator, Operators, these
  <1>9. popped.ops # <<>> /\ Front(popped.ops) = st.ops
    <2>1. popped.ops = Append(st.ops, "(")
      BY <1>3, <1>7
    <2>2. "(" \in Operators
      BY DEF Operators
    <2>3. Append(st.ops, "(") # <<>> /\ Front(Append(st.ops, "(")) = st.ops
      BY <1>2, <2>2, FrontOfAppend
    <2> HIDE DEF popped
    <2> QED  BY <2>1, <2>3
  <1>10. Taken(last, ")").ops = st.ops /\ Taken(last, ")").out = out
    BY <1>7, <1>8, <1>9
  <1>11. Taken(last, ")") \in Stations(U)
    <2>1. ")" \in U
      BY DEF Operators
    <2> QED  BY <2>1, TakenTyped
  <1> QED  BY <1>3, <1>7, <1>10, <1>11, NothingPending

\* What is pending above an operator is pending together with it.
LEMMA UnderOperator ==
  ASSUME NEW H, NEW D, Served(H, D),
         NEW U, Operators \subseteq U, NEW before \in Stations(U), NEW inner \in Stations(U),
         NEW after \in Stations(U), NEW op \in Operators, inner.ops = Append(before.ops, op),
         NEW low \in 1 .. 3, NEW high \in 1 .. 3, low <= high, low <= getPriority(op),
         NEW x, Pending(inner, after, high, x, H, D), NEW z,
         AppliedToSets(Append(SetStack(inner.out, H, D), x), op, H, D) =
           Append(SetStack(before.out, H, D), z)
  PROVE  Pending(before, after, low, z, H, D)
  <1>1. PICK above \in Seq(Operators) :
          /\ \A k \in 1 .. Len(above) : getPriority(above[k]) >= high
          /\ after.ops = inner.ops \o above
          /\ SetStack(after.out \o Reverse(above), H, D) = Append(SetStack(inner.out, H, D), x)
    BY DEF Pending
  <1> DEFINE longer == <<op>> \o above
             rev == Reverse(above)
             out == after.out \o rev
             ops == before.ops
  <1>2. /\ longer \in Seq(Operators) /\ Len(longer) = Len(above) + 1 /\ Len(above) \in Nat
        /\ longer[1] = op /\ \A k \in 1 .. Len(above) : longer[k + 1] = above[k]
    OBVIOUS
  <1>3. /\ above \in Seq(U) /\ after.out \in Seq(U) /\ op \in U /\ ops \in Seq(Operators)
    BY DEF Stations
  <1>4. rev \in Seq(U) /\ Reverse(longer) = Append(rev, op)
    BY <1>3, ReverseTyped
  <1>5. Append(ops, op) \o above = ops \o longer
    <2> HIDE DEF ops
    <2>1. Append(ops, op) \o above = ops \o (<<op>> \o above)
      <3> DEFINE V == Operators
      <3>1. ops \in Seq(V) /\ op \in V /\ above \in Seq(V)
        BY <1>1, <1>3
      <3> HIDE DEF V
      <3> QED  BY <3>1, Joining
    <2> QED  BY <2>1
  <1> HIDE DEF longer, ops, rev
  <1>6. ASSUME NEW k \in 1 .. Len(longer)
        PROVE  getPriority(longer[k]) >= low
    <2>1. CASE k = 1
      BY <1>2, <2>1
    <2>2. CASE k # 1
      <3>1. k - 1 \in 1 .. Len(above) /\ (k - 1) + 1 = k
        BY <1>2, <2>2
      <3>2. getPriority(longer[k]) >= high /\ getPriority(longer[k]) \in 0 .. 3
        BY <1>1, <1>2, <3>1, Priorities
      <3> QED  BY <3>2
    <2> QED  BY <2>1, <2>2
  <1>7. after.out \o Reverse(longer) = Append(out, op) /\ out \in Seq(U)
    <2> DEFINE a == after.out
    <2> HIDE DEF a
    <2>1. a \in Seq(U)
      BY <1>3 DEF a
    <2>2. a \o Append(rev, op) = Append(a \o rev, op) /\ a \o rev \in Seq(U)
      BY <1>3, <1>4, <2>1, Joining
    <2> QED  BY <1>4, <2>2 DEF a
  <1> HIDE DEF out
  <1>8. SetStack(Append(out, op), H, D) = AppliedToSets(SetStack(out, H, D), op, H, D)
    BY <1>3, <1>7, SetStackSnoc
  <1>9. SetStack(out, H, D) = Append(SetStack(inner.out, H, D), x)
    BY <1>1 DEF out, rev
  <1>10. SetStack(after.out \o Reverse(longer), H, D) = Append(SetStack(before.out, H, D), z)
    BY <1>7, <1>8, <1>9
  <1>11. after.ops = before.ops \o longer
    BY <1>1, <1>5 DEF ops
  <1> QED  BY <1>2, <1>6, <1>10, <1>11 DEF Pending

LEMMA ReadNegation ==
  ASSUME NEW H, NEW D, Served(H, D),
         NEW U, Operators \subseteq U, NEW st \in Stations(U), NEW last \in Stations(U),
         NEW x \in SUBSET D, Open(st.ops, 3), Pending(Taken(st, "!"), last, 3, x, H, D)
  PROVE  Pending(st, last, 3, D \ x, H, D)
  <1> DEFINE out == st.out
             ops == st.ops
             inner == Taken(st, "!")
             none == <<>>
  <1>1. out \in Seq(U) /\ ops \in Seq(Operators) /\ st = [out |-> out, ops |-> ops]
    BY DEF Stations
  <1>2. ops = <<>> \/ Last(ops) \notin Higher("!")
    BY OpenBelow, Priorities
  <1>3. /\ none \in Seq(Operators) /\ Reverse(none) = none /\ Len(none) = 0
        /\ ops \o none = ops /\ out \o none = out
    BY <1>1 DEF Reverse
  <1>4. PopWhile(st, Higher("!")) = st
    <2>1. \A i \in 1 .. Len(none) : none[i] \in Higher("!")
      BY <1>3
    <2> HIDE DEF out, ops, none
    <2>2. PopWhile([out |-> out, ops |-> ops \o none], Higher("!")) =
            [out |-> out \o Reverse(none), ops |-> ops]
      BY <1>1, <1>2, <1>3, <2>1, Pops
    <2> QED  BY <1>1, <1>3, <2>2
  <1>5. Taken(st, "!") = [st EXCEPT !.ops = Append(@, "!")]
    BY <1>4, TakenOperator
  <1>6. inner.ops = Append(st.ops, "!") /\ inner.out = st.out
    BY <1>1, <1>5
  <1>7. "!" \in Operators /\ "!" \in U
    BY DEF Operators
  <1>8. inner \in Stations(U)
    BY <1>7, TakenTyped
  <1>9. SetStack(st.out, H, D) \in Seq(SUBSET D)
    BY <1>1, <1>7, SetStackSnoc
  <1> HIDE DEF inner
  <1>10. AppliedToSets(Append(SetStack(inner.out, H, D), x), "!", H, D) =
           Append(SetStack(st.out, H, D), D \ x)
    <2> DEFINE S == SUBSET D
               W == SetStack(st.out, H, D)
    <2>1. W \in Seq(S) /\ x \in S
      BY <1>9
    <2> HIDE DEF S, W
    <2>2. AppliedToSets(Append(W, x), "!", H, D) = Append(W, D \ x)
      BY <2>1, ApplyNegation
    <2> QED  BY <1>6, <2>2 DEF W
  <1>11. Pending(inner, last, 3, x, H, D)
    BY DEF inner
  <1> DEFINE three == 3
             z == D \ x
  <1>12. three \in 1 .. 3 /\ three <= three /\ three <= getPriority("!")
    BY Priorities
  <1>13. Pending(st, last, three, z, H, D)
    <2> HIDE DEF three, z
    <2>1. Pending(inner, last, three, x, H, D)
      BY <1>11 DEF three
    <2>2. AppliedToSets(Append(SetStack(inner.out, H, D), x), "!", H, D) =
            Append(SetStack(st.out, H, D), z)
      BY <1>10 DEF z
    <2> QED  BY <1>6, <1>7, <1>8, <1>12, <2>1, <2>2, UnderOperator
  <1> QED  BY <1>13

\* An operator between two operands moves to the output what it does not bind
\* tighter than, and waits.
LEMMA MeetsOperator ==
  ASSUME NEW H, NEW D, Served(H, D),
         NEW U, Operators \subseteq U, NEW op \in {"&", "|"},
         NEW st \in Stations(U), NEW middle \in Stations(U), NEW x \in SUBSET D,
         Open(st.ops, getPriority(op)), Pending(st, middle, getPriority(op), x, H, D)
  PROVE  LET inner == Taken(middle, op)
         IN  /\ inner \in Stations(U) /\ inner.ops = Append(st.ops, op)
             /\ Open(inner.ops, getPriority(op) + 1)
             /\ SetStack(inner.out, H, D) = Append(SetStack(st.out, H, D), x)
  <1> DEFINE inner == Taken(middle, op)
             level == getPriority(op)
             W == SetStack(st.out, H, D)
  <1>1. level \in 1 .. 3 /\ level < level + 1
    BY Priorities
  <1>2. op \in Operators /\ op \in U
    BY DEF Operators
  <1>3. st.ops = <<>> \/ Last(st.ops) \notin Higher(op)
    BY OpenBelow
  <1>4. \A o \in Operators : getPriority(o) >= level => o \in Higher(op)
    BY TakenOperator
  <1>5. PICK out \in Seq(U) : /\ PopWhile(middle, Higher(op)) = [out |-> out, ops |-> st.ops]
                              /\ SetStack(out, H, D) = Append(W, x)
    <2> HIDE DEF level
    <2>1. Pending(st, middle, level, x, H, D)
      BY DEF level
    <2> QED  BY <1>3, <1>4, <2>1, PopPending
  <1>6. inner = [PopWhile(middle, Higher(op)) EXCEPT !.ops = Append(@, op)]
    BY TakenOperator
  <1>7. inner.out = out /\ inner.ops = Append(st.ops, op)
    BY <1>5, <1>6
  <1>8. inner \in Stations(U)
    BY <1>2, TakenTyped
  <1>9. st.ops \in Seq(Operators)
    BY DEF Stations
  <1>10. Open(inner.ops, level + 1)
    <2> HIDE DEF inner
    <2> QED  BY <1>1, <1>2, <1>7, <1>9, OpenAbove
  <1> QED  BY <1>5, <1>7, <1>8, <1>10

LEMMA ReadBinary ==
  ASSUME NEW H, NEW D, Served(H, D),
         NEW U, Operators \subseteq U, NEW op \in {"&", "|"},
         NEW st \in Stations(U), NEW middle \in Stations(U), NEW last \in Stations(U),
         NEW x \in SUBSET D, NEW y \in SUBSET D, Open(st.ops, getPriority(op)),
         Pending(st, middle, getPriority(op), x, H, D),
         Pending(Taken(middle, op), last, getPriority(op) + 1, y, H, D)
  PROVE  Pending(st, last, getPriority(op), IF op = "&" THEN x \cap y ELSE x \cup y, H, D)
  <1> DEFINE inner == Taken(middle, op)
             level == getPriority(op)
             W == SetStack(st.out, H, D)
             z == IF op = "&" THEN x \cap y ELSE x \cup y
  <1>1. level \in 1 .. 3 /\ level + 1 \in 1 .. 3 /\ level <= level + 1 /\ level <= getPriority(op)
    BY Priorities
  <1>2. op \in Operators /\ op \in U
    BY DEF Operators
  <1>3. inner \in Stations(U) /\ inner.ops = Append(st.ops, op) /\ SetStack(inner.out, H, D) = Append(W, x)
    BY MeetsOperator
  <1>4. st.out \in Seq(U)
    BY DEF Stations
  <1>5. W \in Seq(SUBSET D)
    BY <1>2, <1>4, SetStackSnoc
  <1>6. AppliedToSets(Append(SetStack(inner.out, H, D), y), op, H, D) = Append(W, z)
    <2> DEFINE S == SUBSET D
    <2>1. W \in Seq(S) /\ x \in S /\ y \in S
      BY <1>5
    <2> HIDE DEF W, inner, S
    <2>2. JoinsSets(op, x, y, z)
      BY DEF JoinsSets
    <2> HIDE DEF z
    <2>3. AppliedToSets(Append(Append(W, x), y), op, H, D) = Append(W, z)
      BY <2>1, <2>2, ApplyBinary
    <2> QED  BY <1>3, <2>3
  <1>7. Pending(inner, last, level + 1, y, H, D)
    OBVIOUS
  <1>8. Pending(st, last, level, z, H, D)
    <2> DEFINE high == level + 1
    <2> HIDE DEF level, inner, z, high
    <2> QED  BY <1>1, <1>2, <1>3, <1>6, <1>7, UnderOperator DEF high
  <1> QED  BY <1>8
-----------------------------------------------------------------------------
(* The meanings of a query *)

\* the documents that tokens i to j denote as each part, from those of fewer tokens
MeantOr(m, s, i, j) ==
  m[<<"and", i, j>>] \cup
  (UNION {Unions(m[<<"or", i, k - 1>>], m[<<"and", k + 1, j>>]) :
            k \in Standing(s, "|", i, j)})

MeantAnd(m, s, i, j) ==
  m[<<"not", i, j>>] \cup
  (UNION {Intersections(m[<<"and", i, k - 1>>], m[<<"not", k + 1, j>>]) :
            k \in Standing(s, "&", i, j)}) \cup
  (UNION {Intersections(m[<<"and", i, k>>], m[<<"not", k + 1, j>>]) : k \in i .. j - 1})

MeantNot(m, s, i, j, H, D) ==
  IF s[i] = "!" THEN {D \ x : x \in m[<<"not", i + 1, j>>]}
  ELSE IF s[i] = "(" /\ s[j] = ")" THEN m[<<"or", i + 1, j - 1>>]
  ELSE IF i = j /\ ~isOperator(s[i]) THEN {Held(H, s[i])}
  ELSE {}

Meant(m, s, at, H, D) ==
  LET i == at[2]
      j == at[3]
  IN  IF j < i THEN {}
      ELSE IF at[1] = "or" THEN MeantOr(m, s, i, j)
      ELSE IF at[1] = "and" THEN MeantAnd(m, s, i, j)
      ELSE MeantNot(m, s, i, j, H, D)

IsMeaning(m, s, H, D) == m = [at \in Parts(s) |-> Meant(m, s, at, H, D)]

Tables(s, D) == [Parts(s) -> SUBSET SUBSET D]

\* fewer tokens, or a part that binds tighter
Size(at) ==
  IF at[3] < at[2] THEN 0
  ELSE 3 * (at[3] - at[2]) + (IF at[1] = "or" THEN 3 ELSE IF at[1] = "and" THEN 2 ELSE 1)

LEMMA PartAt ==
  ASSUME NEW U, NEW s \in Seq(U), NEW part \in {"or", "and", "not"},
         NEW i \in 1 .. Len(s) + 1, NEW j \in 0 .. Len(s)
  PROVE  /\ <<part, i, j>> \in Parts(s)
         /\ Size(<<part, i, j>>) =
              IF j < i THEN 0
              ELSE 3 * (j - i) + (IF part = "or" THEN 3 ELSE IF part = "and" THEN 2 ELSE 1)
  BY DEF Parts, Size

LEMMA AtPart ==
  ASSUME NEW U, NEW s \in Seq(U), NEW at \in Parts(s)
  PROVE  /\ at = <<at[1], at[2], at[3]>> /\ at[1] \in {"or", "and", "not"}
         /\ at[2] \in 1 .. Len(s) + 1 /\ at[3] \in 0 .. Len(s)
         /\ Size(at) \in 0 .. 3 * Len(s)
  BY DEF Parts, Size

\* two tables agree on the parts of less than this size
Agree(f, g, s, r) == \A at \in Parts(s) : Size(at) < r => f[at] = g[at]

LEMMA MeantLocal ==
  ASSUME NEW H, NEW D,
         NEW U, NEW s \in Seq(U), NEW f, NEW g, NEW r \in Nat, Agree(f, g, s, r),
         NEW at \in Parts(s), Size(at) <= r
  PROVE  Meant(f, s, at, H, D) = Meant(g, s, at, H, D)
  <1> DEFINE part == at[1]
             i == at[2]
             j == at[3]
             n == Len(s)
  <1>1. /\ part \in {"or", "and", "not"} /\ i \in 1 .. n + 1 /\ j \in 0 .. n /\ n \in Nat
        /\ at = <<part, i, j>>
    BY AtPart
  <1> HIDE DEF part, i, j, n
  <1>2. Size(at) = IF j < i THEN 0
                   ELSE 3 * (j - i) + (IF part = "or" THEN 3 ELSE IF part = "and" THEN 2 ELSE 1)
    BY DEF Size, part, i, j
  <1>3. ASSUME NEW p \in {"or", "and", "not"}, NEW a \in 1 .. n + 1, NEW b \in 0 .. n,
               j >= i,
               \/ b < a
               \/ b - a < j - i
               \/ b - a = j - i /\ p = "and" /\ part = "or"
               \/ b - a = j - i /\ p = "not" /\ part = "and"
        PROVE  f[<<p, a, b>>] = g[<<p, a, b>>]
    <2> DEFINE x == <<p, a, b>>
    <2>1. /\ x \in Parts(s)
          /\ Size(x) = IF b < a THEN 0
                       ELSE 3 * (b - a) + (IF p = "or" THEN 3 ELSE IF p = "and" THEN 2 ELSE 1)
      BY PartAt DEF n
    <2>2. Size(at) \in Nat /\ Size(at) >= 3 * (j - i) + 1
      BY <1>1, <1>2, <1>3
    <2>3. Size(x) < Size(at)
      <3> HIDE DEF x
      <3>1. CASE b < a
        BY <1>1, <1>3, <2>1, <2>2, <3>1
      <3>2. CASE b >= a /\ b - a < j - i
        BY <1>1, <1>3, <2>1, <2>2, <3>2
      <3>3. CASE b >= a /\ b - a = j - i
        BY <1>1, <1>2, <1>3, <2>1, <3>3
      <3> QED  BY <1>1, <1>3, <3>1, <3>2, <3>3
    <2>4. Size(x) < r
      <3>1. Size(x) \in Int
        BY <1>1, <2>1
      <3> QED  BY <2>2, <2>3, <3>1
    <2> HIDE DEF x
    <2> QED  BY <2>1, <2>4 DEF Agree, x
  <1>4. \A k : k \in i + 1 .. j - 1 =>
          /\ i \in 1 .. n + 1 /\ j \in 0 .. n /\ k + 1 \in 1 .. n + 1 /\ k - 1 \in 0 .. n
          /\ (k - 1) - i < j - i /\ j - (k + 1) < j - i /\ j >= i
    BY <1>1
  <1>5. \A k : k \in i .. j - 1 =>
          /\ i \in 1 .. n + 1 /\ j \in 0 .. n /\ k + 1 \in 1 .. n + 1 /\ k \in 0 .. n
          /\ k - i < j - i /\ j - (k + 1) < j - i /\ j >= i
    BY <1>1
  <1>6. CASE j >= i /\ part = "or"
    <2>1. f[<<"and", i, j>>] = g[<<"and", i, j>>]
      BY <1>1, <1>3, <1>6
    <2>2. ASSUME NEW k \in Standing(s, "|", i, j)
          PROVE  /\ f[<<"or", i, k - 1>>] = g[<<"or", i, k - 1>>]
                 /\ f[<<"and", k + 1, j>>] = g[<<"and", k + 1, j>>]
      BY <1>3, <1>4 DEF Standing
    <2>3. MeantOr(f, s, i, j) = MeantOr(g, s, i, j)
      BY <2>1, <2>2 DEF MeantOr
    <2> QED  BY <1>6, <2>3 DEF Meant, part, i, j
  <1>7. CASE j >= i /\ part = "and"
    <2>1. f[<<"not", i, j>>] = g[<<"not", i, j>>]
      BY <1>1, <1>3, <1>7
    <2>2. ASSUME NEW k \in Standing(s, "&", i, j)
          PROVE  /\ f[<<"and", i, k - 1>>] = g[<<"and", i, k - 1>>]
                 /\ f[<<"not", k + 1, j>>] = g[<<"not", k + 1, j>>]
      BY <1>3, <1>4 DEF Standing
    <2>3. ASSUME NEW k \in i .. j - 1
          PROVE  /\ f[<<"and", i, k>>] = g[<<"and", i, k>>]
                 /\ f[<<"not", k + 1, j>>] = g[<<"not", k + 1, j>>]
      BY <1>3, <1>5
    <2>4. MeantAnd(f, s, i, j) = MeantAnd(g, s, i, j)
      BY <2>1, <2>2, <2>3 DEF MeantAnd
    <2> QED  BY <1>7, <2>4 DEF Meant, part, i, j
  <1>8. CASE j >= i /\ part = "not"
    <2>1. f[<<"not", i + 1, j>>] = g[<<"not", i + 1, j>>]
      <3>1. i + 1 \in 1 .. n + 1 /\ j - (i + 1) < j - i
        BY <1>1, <1>8
      <3> QED  BY <1>1, <1>3, <1>8, <3>1
    <2>2. f[<<"or", i + 1, j - 1>>] = g[<<"or", i + 1, j - 1>>]
      <3>1. i + 1 \in 1 .. n + 1 /\ j - 1 \in 0 .. n /\ (j - 1) - (i + 1) < j - i
        BY <1>1, <1>8
      <3> QED  BY <1>1, <1>3, <1>8, <3>1
    <2>3. MeantNot(f, s, i, j, H, D) = MeantNot(g, s, i, j, H, D)
      BY <2>1, <2>2 DEF MeantNot
    <2> QED  BY <1>8, <2>3 DEF Meant, part, i, j
  <1>9. CASE j < i
    BY <1>9 DEF Meant, part, i, j
  <1> QED  BY <1>1, <1>6, <1>7, <1>8, <1>9

\* what a word denotes is a set of documents
Typed(H, D) == \A t : Held(H, t) \in SUBSET D

LEMMA ServedTyped ==
  ASSUME NEW H, NEW D, Served(H, D)
  PROVE  Typed(H, D)
  BY DEF Served, Serves, PostingsList, Typed

LEMMA MeantTyped ==
  ASSUME NEW H, NEW D, Typed(H, D),
         NEW U, NEW s \in Seq(U), NEW m \in Tables(s, D), NEW at \in Parts(s)
  PROVE  Meant(m, s, at, H, D) \in SUBSET SUBSET D
  <1> DEFINE part == at[1]
             i == at[2]
             j == at[3]
             n == Len(s)
  <1>1. /\ part \in {"or", "and", "not"} /\ i \in 1 .. n + 1 /\ j \in 0 .. n /\ n \in Nat
        /\ at = <<part, i, j>>
    BY AtPart
  <1> HIDE DEF part, i, j, n
  <1>2. ASSUME NEW p \in {"or", "and", "not"}, NEW a \in 1 .. n + 1, NEW b \in 0 .. n
        PROVE  m[<<p, a, b>>] \in SUBSET SUBSET D
    <2>1. <<p, a, b>> \in Parts(s)
      BY PartAt DEF n
    <2> QED  BY <2>1 DEF Tables
  <1>3. \A k : k \in i + 1 .. j - 1 =>
          i \in 1 .. n + 1 /\ j \in 0 .. n /\ k + 1 \in 1 .. n + 1 /\ k - 1 \in 0 .. n
    BY <1>1
  <1>4. \A k : k \in i .. j - 1 =>
          i \in 1 .. n + 1 /\ j \in 0 .. n /\ k + 1 \in 1 .. n + 1 /\ k \in 0 .. n
    BY <1>1
  <1> DEFINE S == SUBSET SUBSET D
  <1>5. ASSUME NEW X \in S, NEW Y \in S
        PROVE  Unions(X, Y) \in S /\ Intersections(X, Y) \in S
    BY DEF Unions, Intersections
  <1>6. CASE j >= i /\ part = "or"
    <2> DEFINE family == {Unions(m[<<"or", i, k - 1>>], m[<<"and", k + 1, j>>]) :
                            k \in Standing(s, "|", i, j)}
    <2>1. m[<<"and", i, j>>] \in S
      BY <1>1, <1>2
    <2>2. ASSUME NEW k \in Standing(s, "|", i, j)
          PROVE  Unions(m[<<"or", i, k - 1>>], m[<<"and", k + 1, j>>]) \in S
      <3>1. /\ i \in 1 .. n + 1 /\ j \in 0 .. n
            /\ k + 1 \in 1 .. n + 1 /\ k - 1 \in 0 .. n
        BY <1>3 DEF Standing
      <3>2. m[<<"or", i, k - 1>>] \in S /\ m[<<"and", k + 1, j>>] \in S
        BY <1>2, <3>1
      <3> HIDE DEF S
      <3> QED  BY <1>5, <3>2
    <2>3. \A X \in family : X \in S
      <3> HIDE DEF S
      <3> QED  BY <2>2
    <2>4. MeantOr(m, s, i, j) = m[<<"and", i, j>>] \cup (UNION family)
      BY DEF MeantOr
    <2> HIDE DEF family
    <2>5. MeantOr(m, s, i, j) \in S
      BY <2>1, <2>3, <2>4
    <2> QED  BY <1>6, <2>5 DEF Meant, part, i, j
  <1>7. CASE j >= i /\ part = "and"
    <2> DEFINE family == {Intersections(m[<<"and", i, k - 1>>], m[<<"not", k + 1, j>>]) :
                            k \in Standing(s, "&", i, j)}
               implied == {Intersections(m[<<"and", i, k>>], m[<<"not", k + 1, j>>]) :
                             k \in i .. j - 1}
    <2>1. m[<<"not", i, j>>] \in S
      BY <1>1, <1>2
    <2>2. ASSUME NEW k \in Standing(s, "&", i, j)
          PROVE  Intersections(m[<<"and", i, k - 1>>], m[<<"not", k + 1, j>>]) \in S
      <3>1. /\ i \in 1 .. n + 1 /\ j \in 0 .. n
            /\ k + 1 \in 1 .. n + 1 /\ k - 1 \in 0 .. n
        BY <1>3 DEF Standing
      <3>2. m[<<"and", i, k - 1>>] \in S /\ m[<<"not", k + 1, j>>] \in S
        BY <1>2, <3>1
      <3> HIDE DEF S
      <3> QED  BY <1>5, <3>2
    <2>3. ASSUME NEW k \in i .. j - 1
          PROVE  Intersections(m[<<"and", i, k>>], m[<<"not", k + 1, j>>]) \in S
      <3>1. m[<<"and", i, k>>] \in S /\ m[<<"not", k + 1, j>>] \in S
        BY <1>2, <1>4
      <3> HIDE DEF S
      <3> QED  BY <1>5, <3>1
    <2>4. (\A X \in family : X \in S) /\ (\A X \in implied : X \in S)
      <3> HIDE DEF S
      <3> QED  BY <2>2, <2>3
    <2>5. MeantAnd(m, s, i, j) = m[<<"not", i, j>>] \cup (UNION family) \cup (UNION implied)
      BY DEF MeantAnd
    <2> HIDE DEF family, implied
    <2>6. UNION family \in S /\ UNION implied \in S
      BY <2>4
    <2>7. MeantAnd(m, s, i, j) \in S
      <3>1. \A X, Y, Z \in S : X \cup Y \cup Z \in S
        OBVIOUS
      <3> HIDE DEF S
      <3>2. m[<<"not", i, j>>] \cup (UNION family) \cup (UNION implied) \in S
        BY <2>1, <2>6, <3>1, Zenon
      <3> QED  BY <2>5, <3>2
    <2> QED  BY <1>7, <2>7 DEF Meant, part, i, j
  <1>8. CASE j >= i /\ part = "not"
    <2>1. m[<<"not", i + 1, j>>] \in SUBSET SUBSET D /\ m[<<"or", i + 1, j - 1>>] \in SUBSET SUBSET D
      <3>1. i + 1 \in 1 .. n + 1 /\ j - 1 \in 0 .. n
        BY <1>1, <1>8
      <3> QED  BY <1>1, <1>2, <3>1
    <2>2. Held(H, s[i]) \in SUBSET D
      BY DEF Typed
    <2>3. {D \ x : x \in m[<<"not", i + 1, j>>]} \in SUBSET SUBSET D
      OBVIOUS
    <2>4. {Held(H, s[i])} \in SUBSET SUBSET D /\ {} \in SUBSET SUBSET D
      BY <2>2
    <2>5. MeantNot(m, s, i, j, H, D) \in SUBSET SUBSET D
      BY <2>1, <2>3, <2>4, Zenon DEF MeantNot
    <2> QED  BY <1>8, <2>5 DEF Meant, part, i, j
  <1>9. CASE j < i
    <2>1. ~(j >= i)
      BY <1>1, <1>9
    <2>2. Meant(m, s, at, H, D) = {}
      BY <1>9, <2>1 DEF Meant, part, i, j
    <2> QED  BY <2>2
  <1> QED  BY <1>1, <1>6, <1>7, <1>8, <1>9

LEMMA MeaningsAgree ==
  ASSUME NEW H, NEW D,
         NEW U, NEW s \in Seq(U), NEW f, NEW g, IsMeaning(f, s, H, D), IsMeaning(g, s, H, D)
  PROVE  f = g
  <1> DEFINE T == {r \in Nat : Agree(f, g, s, r)}
  <1>1. 0 \in T
    <2>1. \A at \in Parts(s) : ~(Size(at) < 0)
      <3> SUFFICES ASSUME NEW at \in Parts(s)
                   PROVE  ~(Size(at) < 0)
        OBVIOUS
      <3>1. Size(at) \in 0 .. 3 * Len(s)
        BY AtPart
      <3> QED  BY <3>1
    <2> QED  BY <2>1 DEF Agree
  <1>2. ASSUME NEW r \in Nat, r \in T
        PROVE  r + 1 \in T
    <2>1. ASSUME NEW at \in Parts(s), Size(at) < r + 1
          PROVE  f[at] = g[at]
      <3>1. Size(at) \in Nat
        <4>1. Size(at) \in 0 .. 3 * Len(s)
          BY AtPart
        <4> QED  BY <4>1
      <3>2. Size(at) <= r
        BY <2>1, <3>1
      <3>3. Meant(f, s, at, H, D) = Meant(g, s, at, H, D)
        BY <1>2, <3>2, MeantLocal
      <3> QED  BY <3>3 DEF IsMeaning
    <2> QED  BY <2>1 DEF Agree
  <1>3. \A r \in Nat : r \in T
    <2> HIDE DEF T
    <2> QED  BY <1>1, <1>2, Induction
  <1>4. ASSUME NEW at \in Parts(s)
        PROVE  f[at] = g[at]
    <2>1. Size(at) \in Nat
      <3>1. Size(at) \in 0 .. 3 * Len(s)
        BY AtPart
      <3> QED  BY <3>1
    <2>2. Size(at) + 1 \in T /\ Size(at) < Size(at) + 1
      BY <1>3, <2>1
    <2> QED  BY <2>2 DEF Agree
  <1> QED  BY <1>4 DEF IsMeaning

LEMMA MeaningExists ==
  ASSUME NEW H, NEW D, Typed(H, D),
         NEW U, NEW s \in Seq(U)
  PROVE  \E m \in Tables(s, D) : IsMeaning(m, s, H, D)
  <1> DEFINE n == 3 * Len(s) + 2
             X == Tables(s, D)
             first == [at \in Parts(s) |-> {}]
             step == [a \in (2 .. n) \X X |-> [at \in Parts(s) |-> Meant(a[2], s, at, H, D)]]
  <1>1. n \in Nat /\ n >= 2
    OBVIOUS
  <1>2. first \in X
    BY DEF Tables
  <1>3. step \in [(2 .. n) \X X -> X]
    <2>1. \A m \in X : [at \in Parts(s) |-> Meant(m, s, at, H, D)] \in X
      BY MeantTyped DEF Tables
    <2> HIDE DEF X
    <2>2. \A a \in (2 .. n) \X X : [at \in Parts(s) |-> Meant(a[2], s, at, H, D)] \in X
      BY <2>1
    <2> QED  BY <2>2
  <1> HIDE DEF n, X, first
  <1>4. PICK row \in [1 .. n -> X] : RowEquation(row, n, first, step)
    <2> HIDE DEF step
    <2> QED  BY <1>1, <1>2, <1>3, RowRecursion
  <1>5. ASSUME NEW i \in 2 .. n, NEW at \in Parts(s)
        PROVE  row[i][at] = Meant(row[i - 1], s, at, H, D)
    <2>1. i - 1 \in 1 .. n /\ i \in 1 .. n /\ i # 1
      BY <1>1
    <2>2. row[i] = step[<<i, row[i - 1]>>]
      BY <1>4, <2>1 DEF RowEquation
    <2>3. row[i - 1] \in X
      BY <1>4, <2>1
    <2>4. step[<<i, row[i - 1]>>] = [b \in Parts(s) |-> Meant(row[i - 1], s, b, H, D)]
      BY <2>3
    <2> QED  BY <2>2, <2>4
  <1> DEFINE S == {r \in Nat : r + 2 <= n => Agree(row[r + 1], row[r + 2], s, r)}
  <1>6. 0 \in S
    <2>1. \A at \in Parts(s) : ~(Size(at) < 0)
      <3> SUFFICES ASSUME NEW at \in Parts(s)
                   PROVE  ~(Size(at) < 0)
        OBVIOUS
      <3>1. Size(at) \in 0 .. 3 * Len(s)
        BY AtPart
      <3> QED  BY <3>1
    <2> QED  BY <2>1 DEF Agree
  <1>7. ASSUME NEW r \in Nat, r \in S
        PROVE  r + 1 \in S
    <2> SUFFICES ASSUME (r + 1) + 2 <= n
                 PROVE  Agree(row[(r + 1) + 1], row[(r + 1) + 2], s, r + 1)
      OBVIOUS
    <2> DEFINE f == row[r + 1]
               g == row[r + 2]
               h == row[r + 3]
    <2>1. /\ (r + 1) + 1 = r + 2 /\ (r + 1) + 2 = r + 3 /\ r + 2 \in 2 .. n /\ r + 3 \in 2 .. n
          /\ (r + 2) - 1 = r + 1 /\ (r + 3) - 1 = r + 2
      BY <1>1
    <2>2. Agree(f, g, s, r)
      BY <1>7, <2>1
    <2>3. \A at \in Parts(s) : g[at] = Meant(f, s, at, H, D) /\ h[at] = Meant(g, s, at, H, D)
      BY <1>5, <2>1
    <2> HIDE DEF f, g, h
    <2>4. ASSUME NEW at \in Parts(s), Size(at) < r + 1
          PROVE  g[at] = h[at]
      <3>1. Size(at) \in 0 .. 3 * Len(s)
        BY AtPart
      <3>2. Size(at) <= r
        BY <2>4, <3>1
      <3>3. Meant(f, s, at, H, D) = Meant(g, s, at, H, D)
        BY <2>2, <3>2, MeantLocal
      <3> QED  BY <2>3, <3>3
    <2>5. Agree(g, h, s, r + 1)
      BY <2>4 DEF Agree
    <2> QED  BY <2>1, <2>5 DEF g, h
  <1>8. \A r \in Nat : r \in S
    <2> HIDE DEF S
    <2> QED  BY <1>6, <1>7, Induction
  <1> DEFINE m == row[n - 1]
             last == row[n]
  <1>9. n - 1 \in 1 .. n /\ n \in 2 .. n /\ n - 2 \in Nat /\ (n - 2) + 1 = n - 1 /\ (n - 2) + 2 = n
    BY <1>1
  <1>10. Agree(m, last, s, n - 2) /\ m \in X
    <2>1. n - 2 \in S
      BY <1>8, <1>9
    <2> QED  BY <1>4, <1>9, <2>1
  <1>11. \A at \in Parts(s) : last[at] = Meant(m, s, at, H, D)
    BY <1>5, <1>9
  <1> HIDE DEF m, last
  <1>12. ASSUME NEW at \in Parts(s)
         PROVE  Meant(m, s, at, H, D) = Meant(last, s, at, H, D)
    <2>1. Size(at) <= n - 2 /\ n - 2 \in Nat
      <3>1. Size(at) \in 0 .. 3 * Len(s)
        BY AtPart
      <3> QED  BY <1>9, <3>1 DEF n
    <2> QED  BY <1>10, <2>1, MeantLocal
  <1>13. IsMeaning(last, s, H, D) /\ last \in X
    <2>1. last \in X
      BY <1>4, <1>9 DEF last
    <2>2. last = [at \in Parts(s) |-> last[at]]
      BY <2>1 DEF X, Tables
    <2> QED  BY <1>11, <1>12, <2>1, <2>2 DEF IsMeaning
  <1> QED  BY <1>13 DEF X

LEMMA MeaningsTable ==
  ASSUME NEW H, NEW D, Typed(H, D),
         NEW U, NEW s \in Seq(U)
  PROVE  \E m \in Tables(s, D) : /\ IsMeaning(m, s, H, D)
                              /\ Meanings(s, H, D) = m[<<"or", 1, Len(s)>>]
  <1> DEFINE m == CHOOSE m : IsMeaning(m, s, H, D)
  <1>1. PICK f \in Tables(s, D) : IsMeaning(f, s, H, D)
    BY MeaningExists
  <1>2. IsMeaning(m, s, H, D)
    BY <1>1
  <1>3. Meanings(s, H, D) = m[<<"or", 1, Len(s)>>]
    BY DEF Meanings, IsMeaning, Meant, MeantOr, MeantAnd, MeantNot, Held
  <1> HIDE DEF m
  <1>4. m = f
    BY <1>1, <1>2, MeaningsAgree
  <1> QED  BY <1>1, <1>2, <1>3, <1>4
-----------------------------------------------------------------------------
(* An expression is read as what it denotes *)

Level(part) == IF part = "or" THEN 1 ELSE IF part = "and" THEN 2 ELSE 3

\* tokens that an operand begins and ends with
Begins(t) == ~isOperator(t) \/ t \in {"(", "!"}
Ends(t) == ~isOperator(t) \/ t = ")"

\* Tokens i to j, which denote x as this part, leave x pending.
ReadsAs(M, s, part, i, j, x, H, D) ==
  /\ i <= j /\ Begins(s[i]) /\ Ends(s[j])
  /\ (part = "not" /\ s[i] # "!") \/ Open(Entry(M, s, i).ops, Level(part)) =>
       Pending(Entry(M, s, i), M[j], Level(part), x, H, D)

LEMMA AndBetween ==
  /\ \A last, new : ImpliesAnd(last, new) <=> Ends(last) /\ Begins(new)
  /\ Begins("!") /\ Begins("(") /\ ~Begins("&") /\ ~Begins("|") /\ ~Begins(")")
  /\ Ends(")") /\ ~Ends("&") /\ ~Ends("|") /\ ~Ends("!") /\ ~Ends("(")
  BY DEF ImpliesAnd, Begins, Ends, isOperator, Operators

LEMMA EntryTyped ==
  ASSUME NEW U, Operators \subseteq U, NEW s \in Seq(U), NEW M, Machine(M, U, s),
         NEW i \in 1 .. Len(s)
  PROVE  /\ M[i] \in Stations(U) /\ Entry(M, s, i) \in Stations(U)
         /\ M[i] = Taken(Entry(M, s, i), s[i]) /\ s[i] \in U
         /\ ~Begins(s[i]) => Entry(M, s, i) = M[i - 1]
         /\ i > 1 /\ ~Ends(s[i - 1]) => Entry(M, s, i) = M[i - 1]
         /\ i > 1 /\ Ends(s[i - 1]) /\ Begins(s[i]) => Entry(M, s, i) = Taken(M[i - 1], "&")
  <1>1. i \in 0 .. Len(s) /\ i - 1 \in 0 .. Len(s)
    OBVIOUS
  <1>2. M[i] \in Stations(U) /\ M[i - 1] \in Stations(U) /\ M[i] = Taken(Entry(M, s, i), s[i])
    BY <1>1 DEF Machine
  <1>3. Taken(M[i - 1], "&") \in Stations(U)
    <2>1. "&" \in U
      BY DEF Operators
    <2> QED  BY <1>2, <2>1, TakenTyped
  <1> QED  BY <1>2, <1>3, AndBetween DEF Entry

LEMMA ReadsBinary ==
  ASSUME NEW H, NEW D, Served(H, D),
         NEW U, Operators \subseteq U, NEW s \in Seq(U), NEW M, Machine(M, U, s),
         NEW op \in {"&", "|"}, NEW part \in {"or", "and"}, NEW right \in {"and", "not"},
         Level(part) = getPriority(op), Level(right) = getPriority(op) + 1,
         NEW i \in 1 .. Len(s), NEW k \in 1 .. Len(s), NEW l \in 1 .. Len(s), NEW j \in 1 .. Len(s),
         k < l, Entry(M, s, l) = Taken(M[k], op),
         NEW x \in SUBSET D, ReadsAs(M, s, part, i, k, x, H, D),
         NEW y \in SUBSET D, ReadsAs(M, s, right, l, j, y, H, D)
  PROVE  ReadsAs(M, s, part, i, j, IF op = "&" THEN x \cap y ELSE x \cup y, H, D)
  <1> DEFINE z == IF op = "&" THEN x \cap y ELSE x \cup y
             st == Entry(M, s, i)
             level == getPriority(op)
  <1>1. i <= j /\ Begins(s[i]) /\ Ends(s[j])
    BY DEF ReadsAs
  <1>2. ASSUME Open(st.ops, Level(part))
        PROVE  Pending(st, M[j], Level(part), z, H, D)
    <2>1. st \in Stations(U) /\ M[k] \in Stations(U) /\ M[j] \in Stations(U)
      BY EntryTyped
    <2>2. Pending(st, M[k], level, x, H, D) /\ Open(st.ops, level)
      BY <1>2 DEF ReadsAs
    <2> HIDE DEF st
    <2>3. Open(Taken(M[k], op).ops, level + 1)
      BY <2>1, <2>2, MeetsOperator
    <2>4. Pending(Taken(M[k], op), M[j], level + 1, y, H, D)
      BY <2>3 DEF ReadsAs
    <2>5. Pending(st, M[j], level, z, H, D)
      BY <2>1, <2>2, <2>4, ReadBinary
    <2> QED  BY <2>5
  <1>3. part # "not"
    OBVIOUS
  <1> HIDE DEF z
  <1>4. ReadsAs(M, s, part, i, j, z, H, D)
    BY <1>1, <1>2, <1>3 DEF ReadsAs
  <1> QED  BY <1>4 DEF z

LEMMA ReadsLooser ==
  ASSUME NEW H, NEW D,
         NEW M, NEW s, NEW i, NEW j, NEW x
  PROVE  /\ ReadsAs(M, s, "and", i, j, x, H, D) => ReadsAs(M, s, "or", i, j, x, H, D)
         /\ ReadsAs(M, s, "not", i, j, x, H, D) => ReadsAs(M, s, "and", i, j, x, H, D)
  <1> DEFINE st == Entry(M, s, i)
  <1>1. /\ Open(st.ops, 1) => Open(st.ops, 2)
        /\ Open(st.ops, 2) => Open(st.ops, 3)
    BY Priorities DEF Open
  <1>2. /\ Pending(st, M[j], 2, x, H, D) => Pending(st, M[j], 1, x, H, D)
        /\ Pending(st, M[j], 3, x, H, D) => Pending(st, M[j], 2, x, H, D)
    BY LowerLevel
  <1> HIDE DEF st
  <1> QED  BY <1>1, <1>2 DEF ReadsAs, Level, st

LEMMA ReadsWord ==
  ASSUME NEW H, NEW D, Served(H, D),
         NEW U, Operators \subseteq U, NEW s \in Seq(U), NEW M, Machine(M, U, s),
         NEW i \in 1 .. Len(s), ~isOperator(s[i])
  PROVE  ReadsAs(M, s, "not", i, i, Held(H, s[i]), H, D)
  <1>1. /\ Entry(M, s, i) \in Stations(U) /\ M[i] = Taken(Entry(M, s, i), s[i]) /\ s[i] \in U
    BY EntryTyped
  <1>2. Pending(Entry(M, s, i), M[i], 3, Held(H, s[i]), H, D)
    BY <1>1, ReadOperand
  <1>3. i <= i
    OBVIOUS
  <1> QED  BY <1>2, <1>3 DEF ReadsAs, Level, Begins, Ends

LEMMA ReadsNegation ==
  ASSUME NEW H, NEW D, Served(H, D),
         NEW U, Operators \subseteq U, NEW s \in Seq(U), NEW M, Machine(M, U, s),
         NEW i \in 1 .. Len(s), NEW l \in 1 .. Len(s), NEW j \in 1 .. Len(s), l = i + 1,
         s[i] = "!", s[l] # "!", NEW x \in SUBSET D, ReadsAs(M, s, "not", l, j, x, H, D)
  PROVE  ReadsAs(M, s, "not", i, j, D \ x, H, D)
  <1> DEFINE st == Entry(M, s, i)
             z == D \ x
  <1>1. i <= j /\ Begins(s[i]) /\ Ends(s[j])
    <2>1. l <= j /\ Ends(s[j])
      BY DEF ReadsAs
    <2> QED  BY <2>1, AndBetween
  <1>2. st \in Stations(U) /\ M[i] = Taken(st, "!") /\ M[j] \in Stations(U)
    BY EntryTyped
  <1>3. Entry(M, s, l) = Taken(st, "!")
    <2>1. l > 1 /\ l - 1 = i
      OBVIOUS
    <2>2. ~Ends(s[l - 1])
      BY <2>1, AndBetween
    <2> QED  BY <1>2, <2>1, <2>2, EntryTyped
  <1>4. Pending(Taken(st, "!"), M[j], 3, x, H, D)
    BY <1>3 DEF ReadsAs, Level
  <1>5. Open(st.ops, 3) => Pending(st, M[j], 3, z, H, D)
    BY <1>2, <1>4, ReadNegation
  <1> HIDE DEF z
  <1>6. ReadsAs(M, s, "not", i, j, z, H, D)
    BY <1>1, <1>5 DEF ReadsAs, Level
  <1> QED  BY <1>6 DEF z

LEMMA ReadsParentheses ==
  ASSUME NEW H, NEW D, Served(H, D),
         NEW U, Operators \subseteq U, NEW s \in Seq(U), NEW M, Machine(M, U, s),
         NEW i \in 1 .. Len(s), NEW l \in 1 .. Len(s), NEW k \in 1 .. Len(s), NEW j \in 1 .. Len(s),
         l = i + 1, k = j - 1, s[i] = "(", s[j] = ")",
         NEW x \in SUBSET D, ReadsAs(M, s, "or", l, k, x, H, D)
  PROVE  ReadsAs(M, s, "not", i, j, x, H, D)
  <1> DEFINE st == Entry(M, s, i)
  <1>1. i <= j /\ Begins(s[i]) /\ Ends(s[j])
    <2>1. l <= k
      BY DEF ReadsAs
    <2> QED  BY <2>1, AndBetween
  <1>2. st \in Stations(U) /\ M[i] = Taken(st, "(") /\ M[k] \in Stations(U)
    BY EntryTyped
  <1>3. Entry(M, s, l) = Taken(st, "(")
    <2>1. l > 1 /\ l - 1 = i
      OBVIOUS
    <2>2. ~Ends(s[l - 1])
      BY <2>1, AndBetween
    <2> QED  BY <1>2, <2>1, <2>2, EntryTyped
  <1>4. M[j] = Taken(M[k], ")")
    <2>1. ~Begins(s[j])
      BY AndBetween
    <2>2. Entry(M, s, j) = M[j - 1]
      BY <2>1, EntryTyped
    <2> QED  BY <2>2, EntryTyped
  <1>5. Open(Taken(st, "(").ops, 1)
    <2>1. Taken(st, "(").ops = Append(st.ops, "(") /\ st.ops \in Seq(Operators)
      BY <1>2 DEF Taken, isOperator, Operators, Stations
    <2>2. "(" \in Operators /\ getPriority("(") < 1
      BY Priorities DEF Operators
    <2> QED  BY <2>1, <2>2, OpenAbove
  <1>6. Pending(Taken(st, "("), M[k], 1, x, H, D)
    BY <1>3, <1>5 DEF ReadsAs, Level
  <1>7. Pending(st, M[j], 3, x, H, D)
    BY <1>2, <1>4, <1>6, ReadParentheses
  <1> QED  BY <1>1, <1>7 DEF ReadsAs, Level

LEMMA Combine ==
  /\ \A X, Y, x : x \in Unions(X, Y) => \E y \in X, z \in Y : x = y \cup z
  /\ \A X, Y, x : x \in Intersections(X, Y) => \E y \in X, z \in Y : x = y \cap z
  BY DEF Unions, Intersections

LEMMA Between ==
  ASSUME NEW n \in Nat, NEW i \in 1 .. n, NEW j \in 1 .. n, NEW k \in i .. j - 1
  PROVE  /\ k \in 1 .. n /\ k + 1 \in 1 .. n /\ k < k + 1 /\ k + 1 > 1 /\ (k + 1) - 1 = k
         /\ i > 1 => i - 1 \in 1 .. n
         /\ k > i => k - 1 \in 1 .. n /\ k - 1 < k + 1 /\ k > 1
  OBVIOUS

PartRead(m, M, s, at, H, D) == \A x \in m[at] : ReadsAs(M, s, at[1], at[2], at[3], x, H, D)

LEMMA AllRead ==
  ASSUME NEW H, NEW D, Served(H, D),
         NEW U, Operators \subseteq U, NEW s \in Seq(U), NEW M, Machine(M, U, s),
         NEW m \in Tables(s, D), IsMeaning(m, s, H, D), ~DoubleNegation(s), NEW at \in Parts(s),
         \A b \in Parts(s) : Size(b) < Size(at) => PartRead(m, M, s, b, H, D)
  PROVE  PartRead(m, M, s, at, H, D)
  <1> DEFINE part == at[1]
             i == at[2]
             j == at[3]
             n == Len(s)
  <1>1. /\ part \in {"or", "and", "not"} /\ i \in 1 .. n + 1 /\ j \in 0 .. n /\ n \in Nat
        /\ at = <<part, i, j>>
    BY AtPart
  <1> HIDE DEF part, i, j, n
  <1>2. Size(at) = IF j < i THEN 0
                   ELSE 3 * (j - i) + (IF part = "or" THEN 3 ELSE IF part = "and" THEN 2 ELSE 1)
    BY DEF Size, part, i, j
  <1>3. m[at] = Meant(m, s, at, H, D)
    BY DEF IsMeaning
  <1>4. ASSUME NEW p \in {"or", "and", "not"}, NEW a \in 1 .. n + 1, NEW b \in 0 .. n,
               j >= i,
               \/ b < a
               \/ b - a < j - i
               \/ b - a = j - i /\ p = "and" /\ part = "or"
               \/ b - a = j - i /\ p = "not" /\ part = "and",
               NEW x \in m[<<p, a, b>>]
        PROVE  x \in SUBSET D /\ ReadsAs(M, s, p, a, b, x, H, D) /\ a <= b
    <2> DEFINE c == <<p, a, b>>
    <2>1. /\ c \in Parts(s)
          /\ Size(c) = IF b < a THEN 0
                       ELSE 3 * (b - a) + (IF p = "or" THEN 3 ELSE IF p = "and" THEN 2 ELSE 1)
      BY PartAt DEF n
    <2>2. Size(at) \in Nat /\ Size(at) >= 3 * (j - i) + 1
      BY <1>1, <1>2, <1>4
    <2>3. Size(c) < Size(at)
      <3> HIDE DEF c
      <3>1. CASE b < a
        BY <1>1, <1>4, <2>1, <2>2, <3>1
      <3>2. CASE b >= a /\ b - a < j - i
        BY <1>1, <1>4, <2>1, <2>2, <3>2
      <3>3. CASE b >= a /\ b - a = j - i
        BY <1>1, <1>2, <1>4, <2>1, <3>3
      <3> QED  BY <1>1, <1>4, <3>1, <3>2, <3>3
    <2>4. c[1] = p /\ c[2] = a /\ c[3] = b
      OBVIOUS
    <2>5. m[c] \in SUBSET SUBSET D
      <3> HIDE DEF c
      <3> QED  BY <2>1 DEF Tables
    <2>6. x \in SUBSET D
      BY <2>5
    <2> HIDE DEF c
    <2>7. PartRead(m, M, s, c, H, D)
      BY <2>1, <2>3
    <2>8. ReadsAs(M, s, p, a, b, x, H, D)
      BY <1>4, <2>4, <2>7 DEF PartRead, c
    <2>9. a <= b
      BY <2>8 DEF ReadsAs
    <2> QED  BY <2>6, <2>8, <2>9
  <1> SUFFICES ASSUME NEW x \in m[at]
               PROVE  ReadsAs(M, s, part, i, j, x, H, D)
    BY DEF PartRead, part, i, j
  <1>5. j >= i /\ i \in 1 .. n /\ j \in 1 .. n
    <2>1. ~(j < i)
      BY <1>3 DEF Meant, part, i, j
    <2> QED  BY <1>1, <2>1
  <1>6. CASE part = "or"
    <2>1. x \in MeantOr(m, s, i, j)
      BY <1>1, <1>3, <1>5, <1>6 DEF Meant, part, i, j
    <2>2. CASE x \in m[<<"and", i, j>>]
      <3>1. ReadsAs(M, s, "and", i, j, x, H, D)
        BY <1>1, <1>4, <1>5, <1>6, <2>2
      <3> QED  BY <1>6, <3>1, ReadsLooser
    <2>3. ASSUME NEW k \in Standing(s, "|", i, j),
                 x \in Unions(m[<<"or", i, k - 1>>], m[<<"and", k + 1, j>>])
          PROVE  ReadsAs(M, s, part, i, j, x, H, D)
      <3>1. PICK y \in m[<<"or", i, k - 1>>], z \in m[<<"and", k + 1, j>>] : x = y \cup z
        BY <2>3, Combine
      <3>2. /\ k \in i + 1 .. j - 1 /\ s[k] = "|" /\ k - 1 \in 0 .. n /\ k + 1 \in 1 .. n + 1
            /\ (k - 1) - i < j - i /\ j - (k + 1) < j - i
        BY <1>1, <1>5 DEF Standing
      <3>3. y \in SUBSET D /\ ReadsAs(M, s, "or", i, k - 1, y, H, D)
        BY <1>1, <1>4, <1>5, <3>1, <3>2
      <3>4. z \in SUBSET D /\ ReadsAs(M, s, "and", k + 1, j, z, H, D)
        BY <1>1, <1>4, <1>5, <3>1, <3>2
      <3>5. /\ k \in 1 .. n /\ k - 1 \in 1 .. n /\ k + 1 \in 1 .. n
            /\ k - 1 < k + 1 /\ k + 1 > 1 /\ (k + 1) - 1 = k
        <4>1. k \in i + 1 .. j - 1
          BY <3>2
        <4>2. k \in i .. j - 1 /\ k > i
          BY <1>1, <4>1
        <4> QED  BY <1>1, <1>5, <4>2, Between
      <3>6. Entry(M, s, k + 1) = Taken(M[k - 1], "|")
        <4>1. Entry(M, s, k + 1) = M[k]
          BY <3>2, <3>5, AndBetween, EntryTyped DEF n
        <4>2. M[k] = Taken(M[k - 1], "|")
          BY <3>2, <3>5, AndBetween, EntryTyped DEF n
        <4> QED  BY <4>1, <4>2
      <3> DEFINE l == k - 1
                 r == k + 1
                 op == "|"
      <3>7. /\ op \in {"&", "|"} /\ Level("or") = getPriority(op)
            /\ Level("and") = getPriority(op) + 1 /\ op # "&"
        BY Priorities DEF Level
      <3> HIDE DEF l, r, op
      <3>8. ReadsAs(M, s, "or", i, j, IF op = "&" THEN y \cap z ELSE y \cup z, H, D)
        BY <1>5, <3>3, <3>4, <3>5, <3>6, <3>7, ReadsBinary DEF l, r, op, n
      <3> QED  BY <1>6, <3>1, <3>7, <3>8
    <2> QED  BY <2>1, <2>2, <2>3 DEF MeantOr
  <1>7. CASE part = "and"
    <2>1. x \in MeantAnd(m, s, i, j)
      BY <1>1, <1>3, <1>5, <1>7 DEF Meant, part, i, j
    <2>2. CASE x \in m[<<"not", i, j>>]
      <3>1. ReadsAs(M, s, "not", i, j, x, H, D)
        BY <1>1, <1>4, <1>5, <1>7, <2>2
      <3> QED  BY <1>7, <3>1, ReadsLooser
    <2> DEFINE op == "&"
    <2>3. /\ op \in {"&", "|"} /\ Level("and") = getPriority(op)
          /\ Level("not") = getPriority(op) + 1 /\ op = "&"
      BY Priorities DEF Level
    <2> HIDE DEF op
    <2>4. ASSUME NEW k \in Standing(s, "&", i, j),
                 x \in Intersections(m[<<"and", i, k - 1>>], m[<<"not", k + 1, j>>])
          PROVE  ReadsAs(M, s, part, i, j, x, H, D)
      <3>1. PICK y \in m[<<"and", i, k - 1>>], z \in m[<<"not", k + 1, j>>] : x = y \cap z
        BY <2>4, Combine
      <3>2. /\ k \in i + 1 .. j - 1 /\ s[k] = "&" /\ k - 1 \in 0 .. n /\ k + 1 \in 1 .. n + 1
            /\ (k - 1) - i < j - i /\ j - (k + 1) < j - i
        BY <1>1, <1>5 DEF Standing
      <3>3. y \in SUBSET D /\ ReadsAs(M, s, "and", i, k - 1, y, H, D)
        BY <1>1, <1>4, <1>5, <3>1, <3>2
      <3>4. z \in SUBSET D /\ ReadsAs(M, s, "not", k + 1, j, z, H, D)
        BY <1>1, <1>4, <1>5, <3>1, <3>2
      <3>5. /\ k \in 1 .. n /\ k - 1 \in 1 .. n /\ k + 1 \in 1 .. n
            /\ k - 1 < k + 1 /\ k + 1 > 1 /\ (k + 1) - 1 = k
        <4>1. k \in i + 1 .. j - 1
          BY <3>2
        <4>2. k \in i .. j - 1 /\ k > i
          BY <1>1, <4>1
        <4> QED  BY <1>1, <1>5, <4>2, Between
      <3>6. Entry(M, s, k + 1) = Taken(M[k - 1], op)
        <4>1. Entry(M, s, k + 1) = M[k]
          BY <3>2, <3>5, AndBetween, EntryTyped DEF n
        <4>2. M[k] = Taken(M[k - 1], "&")
          BY <3>2, <3>5, AndBetween, EntryTyped DEF n
        <4> QED  BY <2>3, <4>1, <4>2
      <3> DEFINE l == k - 1
                 r == k + 1
      <3> HIDE DEF l, r
      <3>7. ReadsAs(M, s, "and", i, j, IF op = "&" THEN y \cap z ELSE y \cup z, H, D)
        BY <1>5, <2>3, <3>3, <3>4, <3>5, <3>6, ReadsBinary DEF l, r, n
      <3> QED  BY <1>7, <2>3, <3>1, <3>7
    <2>5. ASSUME NEW k \in i .. j - 1,
                 x \in Intersections(m[<<"and", i, k>>], m[<<"not", k + 1, j>>])
          PROVE  ReadsAs(M, s, part, i, j, x, H, D)
      <3>1. PICK y \in m[<<"and", i, k>>], z \in m[<<"not", k + 1, j>>] : x = y \cap z
        BY <2>5, Combine
      <3>2. /\ k \in 0 .. n /\ k + 1 \in 1 .. n + 1 /\ k - i < j - i /\ j - (k + 1) < j - i
        BY <1>1, <1>5
      <3>3. y \in SUBSET D /\ ReadsAs(M, s, "and", i, k, y, H, D)
        BY <1>1, <1>4, <1>5, <3>1, <3>2
      <3>4. z \in SUBSET D /\ ReadsAs(M, s, "not", k + 1, j, z, H, D)
        BY <1>1, <1>4, <1>5, <3>1, <3>2
      <3>5. k \in 1 .. n /\ k + 1 \in 1 .. n /\ k < k + 1 /\ k + 1 > 1 /\ (k + 1) - 1 = k
        BY <1>1, <1>5, Between
      <3>6. Entry(M, s, k + 1) = Taken(M[k], op)
        <4>1. Ends(s[k]) /\ Begins(s[k + 1])
          BY <3>3, <3>4 DEF ReadsAs
        <4> QED  BY <2>3, <3>5, <4>1, EntryTyped DEF n
      <3> DEFINE r == k + 1
      <3> HIDE DEF r
      <3>7. ReadsAs(M, s, "and", i, j, IF op = "&" THEN y \cap z ELSE y \cup z, H, D)
        BY <1>5, <2>3, <3>3, <3>4, <3>5, <3>6, ReadsBinary DEF r, n
      <3> QED  BY <1>7, <2>3, <3>1, <3>7
    <2> QED  BY <2>1, <2>2, <2>4, <2>5 DEF MeantAnd
  <1>8. CASE part = "not"
    <2>1. x \in MeantNot(m, s, i, j, H, D)
      BY <1>1, <1>3, <1>5, <1>8 DEF Meant, part, i, j
    <2>2. i + 1 \in 1 .. n + 1 /\ j - (i + 1) < j - i /\ j - 1 \in 0 .. n /\ (j - 1) - (i + 1) < j - i
      BY <1>1, <1>5
    <2>3. CASE s[i] = "!"
      <3>1. PICK y \in m[<<"not", i + 1, j>>] : x = D \ y
        BY <2>1, <2>3 DEF MeantNot
      <3>2. y \in SUBSET D /\ ReadsAs(M, s, "not", i + 1, j, y, H, D) /\ i + 1 <= j
        BY <1>1, <1>4, <1>5, <2>2, <3>1
      <3>3. i + 1 \in 1 .. n /\ i \in 1 .. n - 1
        BY <1>1, <1>5, <3>2
      <3>4. s[i + 1] # "!"
        BY <2>3, <3>3 DEF DoubleNegation, n
      <3> DEFINE l == i + 1
      <3>5. l \in 1 .. n /\ l = i + 1
        BY <3>3
      <3> HIDE DEF l
      <3>6. ReadsAs(M, s, "not", i, j, D \ y, H, D)
        BY <1>5, <2>3, <3>2, <3>4, <3>5, ReadsNegation DEF n
      <3> QED  BY <1>8, <3>1, <3>6
    <2>4. CASE s[i] = "(" /\ s[j] = ")"
      <3>1. x \in m[<<"or", i + 1, j - 1>>]
        BY <2>1, <2>4 DEF MeantNot
      <3>2. x \in SUBSET D /\ ReadsAs(M, s, "or", i + 1, j - 1, x, H, D) /\ i + 1 <= j - 1
        BY <1>1, <1>4, <1>5, <2>2, <3>1
      <3> DEFINE l == i + 1
                 k == j - 1
      <3>3. l \in 1 .. n /\ k \in 1 .. n /\ l = i + 1 /\ k = j - 1
        BY <1>1, <1>5, <3>2
      <3> HIDE DEF l, k
      <3>4. ReadsAs(M, s, "not", i, j, x, H, D)
        BY <1>5, <2>4, <3>2, <3>3, ReadsParentheses DEF n
      <3> QED  BY <1>8, <3>4
    <2>5. CASE s[i] # "!" /\ ~(s[i] = "(" /\ s[j] = ")")
      <3>1. i = j /\ ~isOperator(s[i]) /\ x = Held(H, s[i])
        BY <2>1, <2>5 DEF MeantNot
      <3>2. ReadsAs(M, s, "not", i, i, Held(H, s[i]), H, D)
        BY <1>5, <3>1, ReadsWord DEF n
      <3> QED  BY <1>8, <3>1, <3>2
    <2> QED  BY <2>3, <2>4, <2>5
  <1> QED  BY <1>1, <1>6, <1>7, <1>8

LEMMA Answered ==
  ASSUME NEW idx, NEW total, NEW H, NEW D, Serves(idx, total, H, D),
         NEW U, Operators \subseteq U, NEW s \in Seq(U), ~DoubleNegation(s),
         NEW x \in Meanings(s, H, D)
  PROVE  Range(findDocument(s, idx, total)) = x
  <1> DEFINE n == Len(s)
             rpn == sortingStation(WithImplicitAnd(s))
  <1>0. Served(H, D)
    BY DEF Served
  <1>1. PICK m \in Tables(s, D) : /\ IsMeaning(m, s, H, D)
                               /\ Meanings(s, H, D) = m[<<"or", 1, n>>]
    <2>1. Typed(H, D)
      BY <1>0, ServedTyped
    <2> QED  BY <2>1, MeaningsTable
  <1>2. PICK M : Machine(M, U, s)
    BY MachineExists
  <1> DEFINE T == {r \in Nat : \A at \in Parts(s) : Size(at) < r => PartRead(m, M, s, at, H, D)}
  <1>3. \A at \in Parts(s) : Size(at) \in Nat
    <2> SUFFICES ASSUME NEW at \in Parts(s)
                 PROVE  Size(at) \in Nat
      OBVIOUS
    <2>1. Size(at) \in 0 .. 3 * Len(s)
      BY AtPart
    <2> QED  BY <2>1
  <1>4. 0 \in T
    BY <1>3
  <1>5. ASSUME NEW r \in Nat, r \in T
        PROVE  r + 1 \in T
    <2>1. ASSUME NEW at \in Parts(s), Size(at) < r + 1
          PROVE  PartRead(m, M, s, at, H, D)
      <3>1. ASSUME NEW b \in Parts(s), Size(b) < Size(at)
            PROVE  PartRead(m, M, s, b, H, D)
        <4>1. Size(b) < r
          BY <1>3, <2>1, <3>1
        <4> QED  BY <1>5, <4>1
      <3> QED  BY <1>0, <1>1, <1>2, <3>1, AllRead
    <2> QED  BY <2>1
  <1>6. \A r \in Nat : r \in T
    <2> HIDE DEF T
    <2> QED  BY <1>4, <1>5, Induction
  <1> DEFINE at == <<"or", 1, n>>
  <1>7. n \in Nat /\ at \in Parts(s) /\ (n < 1 => Size(at) = 0)
    <2>1. 1 \in 1 .. n + 1 /\ n \in 0 .. n /\ n \in Nat
      OBVIOUS
    <2> QED  BY <2>1, PartAt
  <1>8. at[1] = "or" /\ at[2] = 1 /\ at[3] = n
    OBVIOUS
  <1> HIDE DEF at, n
  <1>9. PartRead(m, M, s, at, H, D)
    <2>1. Size(at) + 1 \in Nat /\ Size(at) < Size(at) + 1
      BY <1>3, <1>7
    <2>2. Size(at) + 1 \in T
      BY <1>6, <2>1
    <2> QED  BY <1>7, <2>1, <2>2
  <1>10. x \in SUBSET D /\ ReadsAs(M, s, "or", 1, n, x, H, D)
    <2>1. x \in m[at]
      BY <1>1 DEF at
    <2>2. m[at] \in SUBSET SUBSET D
      BY <1>1, <1>7 DEF Tables
    <2> QED  BY <1>8, <1>9, <2>1, <2>2 DEF PartRead
  <1>11. n >= 1
    BY <1>10 DEF ReadsAs
  <1>12. Entry(M, s, 1) = Start /\ Start \in Stations(U)
    <2>1. ~(1 > 1) /\ 1 - 1 = 0
      OBVIOUS
    <2> QED  BY <1>2, <2>1 DEF Entry, Machine, Start, Stations
  <1>13. Pending(Start, M[n], 1, x, H, D)
    <2>1. Open(Start.ops, 1)
      BY DEF Open, Start
    <2> QED  BY <1>10, <1>12, <2>1 DEF ReadsAs, Level
  <1>14. M[n] \in Stations(U) /\ rpn = PopWhile(M[n], Operators).out
    <2>1. n \in 0 .. n
      BY <1>7
    <2> QED  BY <1>2, <2>1 DEF Machine, n
  <1>15. PICK out \in Seq(U) : /\ PopWhile(M[n], Operators) = [out |-> out, ops |-> Start.ops]
                               /\ SetStack(out, H, D) = Append(SetStack(Start.out, H, D), x)
    <2> DEFINE level == 1
               these == Operators
    <2>1. Start.ops = <<>> \/ Last(Start.ops) \notin these
      BY DEF Start
    <2>2. \A op \in Operators : getPriority(op) >= level => op \in these
      OBVIOUS
    <2>3. Pending(Start, M[n], level, x, H, D)
      BY <1>13
    <2> HIDE DEF level, these
    <2>4. \E out \in Seq(U) : /\ PopWhile(M[n], these) = [out |-> out, ops |-> Start.ops]
                              /\ SetStack(out, H, D) = Append(SetStack(Start.out, H, D), x)
      BY <1>0, <1>12, <1>14, <2>1, <2>2, <2>3, PopPending
    <2> QED  BY <2>4 DEF these
  <1>16. SetStack(rpn, H, D) = <<x>> /\ rpn \in Seq(U)
    <2>1. rpn = out
      BY <1>14, <1>15
    <2>2. Append(<<>>, x) = <<x>>
      OBVIOUS
    <2> QED  BY <1>0, <1>15, <2>1, <2>2, EmptySetStack DEF Start
  <1>17. OnTop(SetStack(rpn, H, D)) = x
    <2> HIDE DEF rpn
    <2>1. <<x>> # <<>> /\ <<x>>[Len(<<x>>)] = x
      OBVIOUS
    <2> QED  BY <1>16, <2>1 DEF OnTop, Last
  <1>18. Lists(evaluate(rpn, idx, total), x)
    <2> HIDE DEF rpn
    <2>1. Lists(evaluate(rpn, idx, total), OnTop(SetStack(rpn, H, D)))
      BY <1>16, SetStackLists
    <2> QED  BY <1>17, <2>1
  <1> DEFINE answer == findDocument(s, idx, total)
  <1>19. answer = evaluate(rpn, idx, total)
    BY DEF findDocument
  <1> HIDE DEF answer, rpn
  <1>20. Lists(answer, x)
    BY <1>18, <1>19
  <1>21. DOMAIN answer = 1 .. Len(answer) /\ x = {answer[i] : i \in 1 .. Len(answer)}
    BY <1>20 DEF Lists
  <1>22. Range(answer) = x
    BY <1>21 DEF Range
  <1> QED  BY <1>22 DEF answer

(* A query that is a logical expression, whatever its length and its nesting of *)
(* parentheses, NOT, AND (written or implied) and OR, is answered with exactly  *)
(* the documents it denotes, unless a negation directly follows another: the    *)
(* implied ANDs of parseQuery, the stack of sortingStation and the merges of    *)
(* evaluate (searcher.cpp:118) agree with the grammar.                          *)
THEOREM AnswerMeans ==
  ASSUME NEW idx, NEW total, SortedIndex(idx, total), NEW U, NEW tokens \in Seq(U),
         ~DoubleNegation(tokens),
         NEW found \in Meanings(tokens, Documented(idx), 0 .. total - 1)
  PROVE  Range(findDocument(tokens, idx, total)) = found
  <1> DEFINE V == U \cup Operators
  <1>1. tokens \in Seq(V) /\ Operators \subseteq V
    OBVIOUS
  <1>2. Serves(idx, total, Documented(idx), 0 .. total - 1)
    BY IndexListed DEF Serves, SortedIndex
  <1> HIDE DEF V
  <1> QED  BY <1>1, <1>2, Answered
-----------------------------------------------------------------------------
(* The documents under other names *)

\* what phi makes of a set of documents, and of a set of such sets
ImageOf(phi, x) == {phi[k] : k \in x}
ImagesOf(phi, X) == {ImageOf(phi, x) : x \in X}

\* different documents of D have different names
OneToOne(phi, D) == \A k, l \in D : phi[k] = phi[l] => k = l

\* phi gives each document of D a name of its own in E, and each word that holds x in
\* D holds the names of x in E.
Renames(phi, H, D, G, E) ==
  /\ E = ImageOf(phi, D) /\ OneToOne(phi, D)
  /\ \A t : Held(G, t) = ImageOf(phi, Held(H, t))

LEMMA ImageCup ==
  ASSUME NEW phi, NEW x, NEW y
  PROVE  ImageOf(phi, x \cup y) = ImageOf(phi, x) \cup ImageOf(phi, y)
  BY DEF ImageOf

LEMMA ImageCap ==
  ASSUME NEW phi, NEW D, OneToOne(phi, D), NEW x, x \subseteq D, NEW y, y \subseteq D
  PROVE  ImageOf(phi, x \cap y) = ImageOf(phi, x) \cap ImageOf(phi, y)
  BY DEF ImageOf, OneToOne

LEMMA ImageWithout ==
  ASSUME NEW phi, NEW D, OneToOne(phi, D), NEW x, x \subseteq D
  PROVE  ImageOf(phi, D \ x) = ImageOf(phi, D) \ ImageOf(phi, x)
  BY DEF ImageOf, OneToOne

\* the negations of the members of X
Complements(D, X) == {D \ x : x \in X}

LEMMA ImagesOfUnions ==
  ASSUME NEW phi, NEW D, OneToOne(phi, D),
         NEW X, X \subseteq SUBSET D, NEW Y, Y \subseteq SUBSET D
  PROVE  ImagesOf(phi, Unions(X, Y)) = Unions(ImagesOf(phi, X), ImagesOf(phi, Y))
  <1> DEFINE S == SUBSET D
             im(x) == ImageOf(phi, x)
             joined(x, y) == x \cup y
  <1>1. ASSUME NEW x \in S, NEW y \in S
        PROVE  im(joined(x, y)) = joined(im(x), im(y))
    <2>1. x \subseteq D /\ y \subseteq D
      OBVIOUS
    <2> QED  BY <2>1, ImageCup
  <1>2. X \subseteq S /\ Y \subseteq S
    OBVIOUS
  <1> DEFINE left == {im(z) : z \in {joined(x, y) : x \in X, y \in Y}}
             right == {joined(v, w) : v \in {im(x) : x \in X}, w \in {im(y) : y \in Y}}
  <1>3. ImagesOf(phi, Unions(X, Y)) = left /\ Unions(ImagesOf(phi, X), ImagesOf(phi, Y)) = right
    BY DEF ImagesOf, Unions
  <1> HIDE DEF S, im, joined
  <1>4. left \subseteq right
    BY <1>1, <1>2
  <1>5. right \subseteq left
    BY <1>1, <1>2
  <1> QED  BY <1>3, <1>4, <1>5

LEMMA ImagesOfIntersections ==
  ASSUME NEW phi, NEW D, OneToOne(phi, D),
         NEW X, X \subseteq SUBSET D, NEW Y, Y \subseteq SUBSET D
  PROVE  ImagesOf(phi, Intersections(X, Y)) = Intersections(ImagesOf(phi, X), ImagesOf(phi, Y))
  <1> DEFINE S == SUBSET D
             im(x) == ImageOf(phi, x)
             joined(x, y) == x \cap y
  <1>1. ASSUME NEW x \in S, NEW y \in S
        PROVE  im(joined(x, y)) = joined(im(x), im(y))
    <2>1. x \subseteq D /\ y \subseteq D
      OBVIOUS
    <2> QED  BY <2>1, ImageCap
  <1>2. X \subseteq S /\ Y \subseteq S
    OBVIOUS
  <1> DEFINE left == {im(z) : z \in {joined(x, y) : x \in X, y \in Y}}
             right == {joined(v, w) : v \in {im(x) : x \in X}, w \in {im(y) : y \in Y}}
  <1>3. ImagesOf(phi, Intersections(X, Y)) = left /\ Intersections(ImagesOf(phi, X), ImagesOf(phi, Y)) = right
    BY DEF ImagesOf, Intersections
  <1> HIDE DEF S, im, joined
  <1>4. left \subseteq right
    BY <1>1, <1>2
  <1>5. right \subseteq left
    BY <1>1, <1>2
  <1> QED  BY <1>3, <1>4, <1>5

LEMMA ImagesOfComplements ==
  ASSUME NEW phi, NEW D, OneToOne(phi, D), NEW X, X \subseteq SUBSET D
  PROVE  ImagesOf(phi, Complements(D, X)) = Complements(ImageOf(phi, D), ImagesOf(phi, X))
  <1> DEFINE S == SUBSET D
             im(x) == ImageOf(phi, x)
             without(y, x) == y \ x
  <1>1. ASSUME NEW x \in S
        PROVE  im(without(D, x)) = without(im(D), im(x))
    <2>1. x \subseteq D
      OBVIOUS
    <2> QED  BY <2>1, ImageWithout
  <1>2. X \subseteq S
    OBVIOUS
  <1> DEFINE left == {im(z) : z \in {without(D, x) : x \in X}}
             right == {without(im(D), v) : v \in {im(x) : x \in X}}
  <1>3. /\ ImagesOf(phi, Complements(D, X)) = left
        /\ Complements(ImageOf(phi, D), ImagesOf(phi, X)) = right
    BY DEF ImagesOf, Complements
  <1> HIDE DEF S, im, without
  <1>4. left = right
    BY <1>1, <1>2
  <1> QED  BY <1>3, <1>4

LEMMA ImagesCup ==
  ASSUME NEW phi, NEW X, NEW Y
  PROVE  ImagesOf(phi, X \cup Y) = ImagesOf(phi, X) \cup ImagesOf(phi, Y)
  BY DEF ImagesOf

\* Each step of the grammar commutes with the change of names.
LEMMA MeantRenamed ==
  ASSUME NEW phi, NEW H, NEW D, NEW G, NEW E, Typed(H, D), Renames(phi, H, D, G, E),
         NEW U, NEW s \in Seq(U), NEW m \in Tables(s, D), NEW at \in Parts(s)
  PROVE  Meant([a \in Parts(s) |-> ImagesOf(phi, m[a])], s, at, G, E)
           = ImagesOf(phi, Meant(m, s, at, H, D))
  <1> DEFINE part == at[1]
             i == at[2]
             j == at[3]
             n == Len(s)
             r == [a \in Parts(s) |-> ImagesOf(phi, m[a])]
  <1>1. /\ part \in {"or", "and", "not"} /\ i \in 1 .. n + 1 /\ j \in 0 .. n /\ n \in Nat
        /\ at = <<part, i, j>>
    BY AtPart
  <1> SUFFICES Meant(r, s, at, G, E) = ImagesOf(phi, Meant(m, s, at, H, D))
    OBVIOUS
  <1>10. r = [a \in Parts(s) |-> ImagesOf(phi, m[a])]
    OBVIOUS
  <1> HIDE DEF part, i, j, n, r
  <1>2. ASSUME NEW p \in {"or", "and", "not"}, NEW a \in 1 .. n + 1, NEW b \in 0 .. n
        PROVE  /\ m[<<p, a, b>>] \in SUBSET SUBSET D
               /\ r[<<p, a, b>>] = ImagesOf(phi, m[<<p, a, b>>])
    <2>1. <<p, a, b>> \in Parts(s)
      BY PartAt DEF n
    <2> QED  BY <1>10, <2>1 DEF Tables
  <1>3. \A k : k \in i + 1 .. j - 1 =>
          i \in 1 .. n + 1 /\ j \in 0 .. n /\ k + 1 \in 1 .. n + 1 /\ k - 1 \in 0 .. n
    BY <1>1
  <1>4. \A k : k \in i .. j - 1 =>
          i \in 1 .. n + 1 /\ j \in 0 .. n /\ k + 1 \in 1 .. n + 1 /\ k \in 0 .. n
    BY <1>1
  <1>5. OneToOne(phi, D)
    BY DEF Renames
  <1>6. CASE j >= i /\ part = "or"
    <2> DEFINE f(k) == Unions(m[<<"or", i, k - 1>>], m[<<"and", k + 1, j>>])
               g(k) == Unions(r[<<"or", i, k - 1>>], r[<<"and", k + 1, j>>])
               K == Standing(s, "|", i, j)
    <2>1. r[<<"and", i, j>>] = ImagesOf(phi, m[<<"and", i, j>>])
      BY <1>1, <1>2
    <2>2. ASSUME NEW k \in K
          PROVE  ImagesOf(phi, f(k)) = g(k)
      <3>1. /\ i \in 1 .. n + 1 /\ j \in 0 .. n
            /\ k + 1 \in 1 .. n + 1 /\ k - 1 \in 0 .. n
        BY <1>3 DEF Standing
      <3> DEFINE X == m[<<"or", i, k - 1>>]
                 Y == m[<<"and", k + 1, j>>]
      <3>2. /\ X \subseteq SUBSET D /\ Y \subseteq SUBSET D
            /\ r[<<"or", i, k - 1>>] = ImagesOf(phi, X)
            /\ r[<<"and", k + 1, j>>] = ImagesOf(phi, Y)
        BY <1>2, <3>1
      <3> HIDE DEF X, Y
      <3>3. ImagesOf(phi, Unions(X, Y)) = Unions(ImagesOf(phi, X), ImagesOf(phi, Y))
        BY <1>5, <3>2, ImagesOfUnions
      <3> QED  BY <3>2, <3>3 DEF X, Y
    <2>3. /\ MeantOr(m, s, i, j) = m[<<"and", i, j>>] \cup (UNION {f(k) : k \in K})
          /\ MeantOr(r, s, i, j) = r[<<"and", i, j>>] \cup (UNION {g(k) : k \in K})
      BY DEF MeantOr
    <2> HIDE DEF f, g, K
    <2>4. ImagesOf(phi, UNION {f(k) : k \in K}) = UNION {g(k) : k \in K}
      BY <2>2 DEF ImagesOf
    <2> DEFINE a == m[<<"and", i, j>>]
               b == UNION {f(k) : k \in K}
    <2>5. /\ ImagesOf(phi, a \cup b) = ImagesOf(phi, a) \cup ImagesOf(phi, b)
          /\ ImagesOf(phi, a) = r[<<"and", i, j>>] /\ ImagesOf(phi, b) = UNION {g(k) : k \in K}
          /\ MeantOr(m, s, i, j) = a \cup b
          /\ MeantOr(r, s, i, j) = r[<<"and", i, j>>] \cup (UNION {g(k) : k \in K})
      BY <2>1, <2>3, <2>4, ImagesCup
    <2> DEFINE all == a \cup b
               renamed == r[<<"and", i, j>>] \cup (UNION {g(k) : k \in K})
    <2> HIDE DEF a, b
    <2>6. ImagesOf(phi, all) = renamed /\ MeantOr(m, s, i, j) = all /\ MeantOr(r, s, i, j) = renamed
      BY <2>5
    <2> HIDE DEF all, renamed
    <2>7. ImagesOf(phi, MeantOr(m, s, i, j)) = MeantOr(r, s, i, j)
      BY <2>6
    <2> DEFINE old == Meant(m, s, at, H, D)
               new == Meant(r, s, at, G, E)
    <2>8. old = MeantOr(m, s, i, j) /\ new = MeantOr(r, s, i, j)
      BY <1>1, <1>6 DEF Meant, part, i, j
    <2> HIDE DEF old, new
    <2>9. new = ImagesOf(phi, old)
      BY <2>7, <2>8
    <2> QED  BY <2>9 DEF old, new
  <1>7. CASE j >= i /\ part = "and"
    <2> DEFINE f(k) == Intersections(m[<<"and", i, k - 1>>], m[<<"not", k + 1, j>>])
               g(k) == Intersections(r[<<"and", i, k - 1>>], r[<<"not", k + 1, j>>])
               K == Standing(s, "&", i, j)
               u(k) == Intersections(m[<<"and", i, k>>], m[<<"not", k + 1, j>>])
               v(k) == Intersections(r[<<"and", i, k>>], r[<<"not", k + 1, j>>])
               L == i .. j - 1
    <2>1. r[<<"not", i, j>>] = ImagesOf(phi, m[<<"not", i, j>>])
      BY <1>1, <1>2
    <2>2. ASSUME NEW k \in K
          PROVE  ImagesOf(phi, f(k)) = g(k)
      <3>1. /\ i \in 1 .. n + 1 /\ j \in 0 .. n
            /\ k + 1 \in 1 .. n + 1 /\ k - 1 \in 0 .. n
        BY <1>3 DEF Standing
      <3> DEFINE X == m[<<"and", i, k - 1>>]
                 Y == m[<<"not", k + 1, j>>]
      <3>2. /\ X \subseteq SUBSET D /\ Y \subseteq SUBSET D
            /\ r[<<"and", i, k - 1>>] = ImagesOf(phi, X)
            /\ r[<<"not", k + 1, j>>] = ImagesOf(phi, Y)
        BY <1>2, <3>1
      <3> HIDE DEF X, Y
      <3>3. ImagesOf(phi, Intersections(X, Y)) = Intersections(ImagesOf(phi, X), ImagesOf(phi, Y))
        BY <1>5, <3>2, ImagesOfIntersections
      <3> QED  BY <3>2, <3>3 DEF X, Y
    <2>3. ASSUME NEW k \in L
          PROVE  ImagesOf(phi, u(k)) = v(k)
      <3> DEFINE X == m[<<"and", i, k>>]
                 Y == m[<<"not", k + 1, j>>]
      <3>2. /\ X \subseteq SUBSET D /\ Y \subseteq SUBSET D
            /\ r[<<"and", i, k>>] = ImagesOf(phi, X)
            /\ r[<<"not", k + 1, j>>] = ImagesOf(phi, Y)
        BY <1>2, <1>4
      <3> HIDE DEF X, Y
      <3>3. ImagesOf(phi, Intersections(X, Y)) = Intersections(ImagesOf(phi, X), ImagesOf(phi, Y))
        BY <1>5, <3>2, ImagesOfIntersections
      <3> QED  BY <3>2, <3>3 DEF X, Y
    <2>4. /\ MeantAnd(m, s, i, j) = m[<<"not", i, j>>] \cup (UNION {f(k) : k \in K})
                                       \cup (UNION {u(k) : k \in L})
          /\ MeantAnd(r, s, i, j) = r[<<"not", i, j>>] \cup (UNION {g(k) : k \in K})
                                       \cup (UNION {v(k) : k \in L})
      BY DEF MeantAnd
    <2> HIDE DEF f, g, K, u, v, L
    <2>5. /\ ImagesOf(phi, UNION {f(k) : k \in K}) = UNION {g(k) : k \in K}
          /\ ImagesOf(phi, UNION {u(k) : k \in L}) = UNION {v(k) : k \in L}
      BY <2>2, <2>3 DEF ImagesOf
    <2> DEFINE a == m[<<"not", i, j>>]
               b == UNION {f(k) : k \in K}
               c == UNION {u(k) : k \in L}
               d == r[<<"not", i, j>>]
               e == UNION {g(k) : k \in K}
               h == UNION {v(k) : k \in L}
    <2>6. /\ ImagesOf(phi, a) = d /\ ImagesOf(phi, b) = e /\ ImagesOf(phi, c) = h
          /\ MeantAnd(m, s, i, j) = a \cup b \cup c
          /\ MeantAnd(r, s, i, j) = d \cup e \cup h
      BY <2>1, <2>4, <2>5
    <2> HIDE DEF a, b, c, d, e, h
    <2> DEFINE two == a \cup b
               all == two \cup c
               renamed == (d \cup e) \cup h
    <2>7. ImagesOf(phi, two) = ImagesOf(phi, a) \cup ImagesOf(phi, b)
      BY ImagesCup
    <2>8. ImagesOf(phi, two) = d \cup e
      BY <2>6, <2>7
    <2>9. MeantAnd(m, s, i, j) = all
      BY <2>6
    <2>10. MeantAnd(r, s, i, j) = renamed
      BY <2>6
    <2> HIDE DEF two
    <2>11. ImagesOf(phi, all) = ImagesOf(phi, two) \cup ImagesOf(phi, c)
      BY ImagesCup
    <2>12. ImagesOf(phi, all) = renamed
      BY <2>6, <2>8, <2>11
    <2> HIDE DEF all, renamed
    <2>13. ImagesOf(phi, MeantAnd(m, s, i, j)) = MeantAnd(r, s, i, j)
      BY <2>9, <2>10, <2>12
    <2> DEFINE old == Meant(m, s, at, H, D)
               new == Meant(r, s, at, G, E)
    <2>14. old = MeantAnd(m, s, i, j) /\ new = MeantAnd(r, s, i, j)
      BY <1>1, <1>7 DEF Meant, part, i, j
    <2> HIDE DEF old, new
    <2>15. new = ImagesOf(phi, old)
      BY <2>13, <2>14
    <2> QED  BY <2>15 DEF old, new
  <1>8. CASE j >= i /\ part = "not"
    <2>1. /\ m[<<"not", i + 1, j>>] \in SUBSET SUBSET D
          /\ r[<<"not", i + 1, j>>] = ImagesOf(phi, m[<<"not", i + 1, j>>])
          /\ r[<<"or", i + 1, j - 1>>] = ImagesOf(phi, m[<<"or", i + 1, j - 1>>])
      <3>1. i + 1 \in 1 .. n + 1 /\ j - 1 \in 0 .. n
        BY <1>1, <1>8
      <3> QED  BY <1>1, <1>2, <3>1
    <2>2. /\ ImagesOf(phi, Complements(D, m[<<"not", i + 1, j>>]))
               = Complements(E, r[<<"not", i + 1, j>>])
          /\ ImagesOf(phi, {Held(H, s[i])}) = {Held(G, s[i])}
          /\ ImagesOf(phi, {}) = {}
      <3> DEFINE X == m[<<"not", i + 1, j>>]
      <3>1. X \subseteq SUBSET D /\ r[<<"not", i + 1, j>>] = ImagesOf(phi, X)
        BY <2>1
      <3> HIDE DEF X
      <3>2. ImagesOf(phi, Complements(D, X)) = Complements(ImageOf(phi, D), ImagesOf(phi, X))
        BY <1>5, <3>1, ImagesOfComplements
      <3>3. E = ImageOf(phi, D) /\ Held(G, s[i]) = ImageOf(phi, Held(H, s[i]))
        BY DEF Renames
      <3>4. ImagesOf(phi, {Held(H, s[i])}) = {ImageOf(phi, Held(H, s[i]))} /\ ImagesOf(phi, {}) = {}
        BY DEF ImagesOf
      <3> QED  BY <3>1, <3>2, <3>3, <3>4 DEF X
    <2>3. /\ MeantNot(m, s, i, j, H, D) =
               IF s[i] = "!" THEN Complements(D, m[<<"not", i + 1, j>>])
               ELSE IF s[i] = "(" /\ s[j] = ")" THEN m[<<"or", i + 1, j - 1>>]
               ELSE IF i = j /\ ~isOperator(s[i]) THEN {Held(H, s[i])} ELSE {}
          /\ MeantNot(r, s, i, j, G, E) =
               IF s[i] = "!" THEN Complements(E, r[<<"not", i + 1, j>>])
               ELSE IF s[i] = "(" /\ s[j] = ")" THEN r[<<"or", i + 1, j - 1>>]
               ELSE IF i = j /\ ~isOperator(s[i]) THEN {Held(G, s[i])} ELSE {}
      BY DEF MeantNot, Complements
    <2>4. r[<<"or", i + 1, j - 1>>] = ImagesOf(phi, m[<<"or", i + 1, j - 1>>])
      BY <2>1
    <2> DEFINE a == Complements(D, m[<<"not", i + 1, j>>])
               b == {Held(H, s[i])}
               c == Complements(E, r[<<"not", i + 1, j>>])
               d == {Held(G, s[i])}
               none == {}
               isNot == s[i] = "!"
               isOpen == s[i] = "(" /\ s[j] = ")"
               isWord == i = j /\ ~isOperator(s[i])
    <2> HIDE DEF a, b, c, d, none, isNot, isOpen, isWord
    <2>5. ImagesOf(phi, MeantNot(m, s, i, j, H, D)) = MeantNot(r, s, i, j, G, E)
      <3>1. ImagesOf(phi, a) = c /\ ImagesOf(phi, b) = d /\ ImagesOf(phi, none) = none
        BY <2>2 DEF a, b, c, d, none
      <3>2. /\ MeantNot(m, s, i, j, H, D) =
                 IF isNot THEN a ELSE IF isOpen THEN m[<<"or", i + 1, j - 1>>]
                 ELSE IF isWord THEN b ELSE none
            /\ MeantNot(r, s, i, j, G, E) =
                 IF isNot THEN c ELSE IF isOpen THEN r[<<"or", i + 1, j - 1>>]
                 ELSE IF isWord THEN d ELSE none
        BY <2>3 DEF a, b, c, d, none, isNot, isOpen, isWord
      <3> DEFINE x == m[<<"or", i + 1, j - 1>>]
                 y == r[<<"or", i + 1, j - 1>>]
                 f == MeantNot(m, s, i, j, H, D)
                 g == MeantNot(r, s, i, j, G, E)
      <3>3. /\ f = IF isNot THEN a ELSE IF isOpen THEN x ELSE IF isWord THEN b ELSE none
            /\ g = IF isNot THEN c ELSE IF isOpen THEN y ELSE IF isWord THEN d ELSE none
            /\ ImagesOf(phi, x) = y
        BY <2>4, <3>2
      <3> HIDE DEF f, g, x, y
      <3>4. CASE isNot
        BY <3>1, <3>3, <3>4 DEF f, g
      <3>5. CASE ~isNot /\ isOpen
        BY <3>1, <3>3, <3>5 DEF f, g
      <3>6. CASE ~isNot /\ ~isOpen /\ isWord
        BY <3>1, <3>3, <3>6 DEF f, g
      <3>7. CASE ~isNot /\ ~isOpen /\ ~isWord
        BY <3>1, <3>3, <3>7 DEF f, g
      <3> QED  BY <3>4, <3>5, <3>6, <3>7
    <2> DEFINE old == Meant(m, s, at, H, D)
               new == Meant(r, s, at, G, E)
    <2>6. old = MeantNot(m, s, i, j, H, D) /\ new = MeantNot(r, s, i, j, G, E)
      BY <1>1, <1>8 DEF Meant, part, i, j
    <2> HIDE DEF old, new
    <2>7. new = ImagesOf(phi, old)
      BY <2>5, <2>6
    <2> QED  BY <2>7 DEF old, new
  <1>9. CASE j < i
    <2>1. ImagesOf(phi, {}) = {}
      BY DEF ImagesOf
    <2> QED  BY <1>9, <2>1 DEF Meant, part, i, j
  <1> QED  BY <1>1, <1>6, <1>7, <1>8, <1>9

LEMMA RenamedTyped ==
  ASSUME NEW phi, NEW H, NEW D, NEW G, NEW E, Typed(H, D), Renames(phi, H, D, G, E)
  PROVE  Typed(G, E)
  <1> SUFFICES ASSUME NEW t
               PROVE  Held(G, t) \in SUBSET E
    BY DEF Typed
  <1>1. Held(H, t) \in SUBSET D /\ E = ImageOf(phi, D) /\ Held(G, t) = ImageOf(phi, Held(H, t))
    BY DEF Typed, Renames
  <1> QED  BY <1>1 DEF ImageOf

\* What a query denotes does not depend on the names of the documents.
LEMMA MeaningsRenamed ==
  ASSUME NEW phi, NEW H, NEW D, NEW G, NEW E, Typed(H, D), Renames(phi, H, D, G, E),
         NEW U, NEW s \in Seq(U)
  PROVE  Meanings(s, G, E) = ImagesOf(phi, Meanings(s, H, D))
  <1> DEFINE all == <<"or", 1, Len(s)>>
  <1>1. PICK m \in Tables(s, D) : IsMeaning(m, s, H, D) /\ Meanings(s, H, D) = m[all]
    BY MeaningsTable
  <1>2. PICK f \in Tables(s, E) : IsMeaning(f, s, G, E) /\ Meanings(s, G, E) = f[all]
    BY RenamedTyped, MeaningsTable
  <1>3. all \in Parts(s)
    <2>1. 1 \in 1 .. Len(s) + 1 /\ Len(s) \in 0 .. Len(s)
      OBVIOUS
    <2> QED  BY <2>1, PartAt
  <1> DEFINE r == [a \in Parts(s) |-> ImagesOf(phi, m[a])]
  <1>4. ASSUME NEW at \in Parts(s)
        PROVE  r[at] = Meant(r, s, at, G, E)
    <2>1. Meant(r, s, at, G, E) = ImagesOf(phi, Meant(m, s, at, H, D))
      BY MeantRenamed
    <2>2. m[at] = Meant(m, s, at, H, D)
      BY <1>1 DEF IsMeaning
    <2> QED  BY <2>1, <2>2
  <1>5. IsMeaning(r, s, G, E)
    <2> DEFINE x == [at \in Parts(s) |-> Meant(r, s, at, G, E)]
    <2>1. r = [at \in Parts(s) |-> r[at]]
      OBVIOUS
    <2> QED  BY <1>4, <2>1 DEF IsMeaning
  <1>6. r[all] = ImagesOf(phi, m[all])
    BY <1>3
  <1> HIDE DEF r, all
  <1>7. f = r
    BY <1>2, <1>5, MeaningsAgree
  <1> QED  BY <1>1, <1>2, <1>6, <1>7

(* The documents of an answer, under whatever names a collection has for them, are *)
(* what the query denotes in the collection.                                    *)
THEOREM AnswerNames ==
  ASSUME NEW idx, NEW total, SortedIndex(idx, total), NEW U, NEW tokens \in Seq(U),
         ~DoubleNegation(tokens),
         NEW phi, NEW G, NEW E, Renames(phi, Documented(idx), 0 .. total - 1, G, E),
         NEW found \in Meanings(tokens, G, E)
  PROVE  found = ImageOf(phi, Range(findDocument(tokens, idx, total)))
  <1> DEFINE H == Documented(idx)
             D == 0 .. total - 1
             answer == findDocument(tokens, idx, total)
  <1>1. Typed(H, D)
    BY IndexListed DEF PostingsList, Typed
  <1>2. Renames(phi, H, D, G, E)
    OBVIOUS
  <1> HIDE DEF H, D
  <1>3. found \in ImagesOf(phi, Meanings(tokens, H, D))
    BY <1>1, <1>2, MeaningsRenamed
  <1>4. PICK x \in Meanings(tokens, H, D) : found = ImageOf(phi, x)
    BY <1>3 DEF ImagesOf
  <1>5. Range(answer) = x
    BY <1>4, AnswerMeans DEF H, D
  <1> QED  BY <1>4, <1>5
=============================================================================
