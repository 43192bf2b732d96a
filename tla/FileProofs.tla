----------------------------- MODULE FileProofs ------------------------------
(* What a process finds in a file that was written to its end is what was in  *)
(* the index when the file was written: for all terms, documents, hashes,     *)
(* sizes and radices, packed or not, in every order that std::sort may choose *)
(* for equal hashes.                                                          *)
EXTENDS IndexProofs, VarIntProofs

(* Places in the file *)

\* Offsets places items of the given sizes one after the other.
LEMMA OffsetsPlace ==
  ASSUME NEW start \in Nat, NEW n \in Nat, NEW sizes \in [1 .. n -> Nat]
  PROVE  Places(Offsets(start, sizes), n, sizes) /\ Offsets(start, sizes)[1] = start
  <1>1. Len(sizes) = n
    OBVIOUS
  <1>2. Offsets(start, sizes) = CHOOSE f : PlacesEquation(f, n, start, sizes)
    BY <1>1 DEF Offsets, PlacesEquation
  <1>3. \E f : PlacesEquation(f, n, start, sizes)
    BY PlacesExist, Zenon
  <1>4. PlacesEquation(Offsets(start, sizes), n, start, sizes)
    BY <1>2, <1>3
  <1> QED  BY <1>4, PlacesExist, Zenon

\* A row that starts elsewhere is the same row, moved.
LEMMA PlacesMoved ==
  ASSUME NEW n \in Nat, NEW sizes \in [1 .. n -> Nat], NEW at, NEW bt,
         Places(at, n, sizes), Places(bt, n, sizes), bt[1] = 0, NEW i \in 1 .. n + 1
  PROVE  at[i] = at[1] + bt[i]
  <1> DEFINE S == {k \in Nat : k \in 1 .. n + 1 => at[k] = at[1] + bt[k]}
  <1>1. ASSUME NEW k \in Nat, k \in S
        PROVE  k + 1 \in S
    <2> SUFFICES ASSUME k + 1 \in 1 .. n + 1
                 PROVE  at[k + 1] = at[1] + bt[k + 1]
      OBVIOUS
    <2>1. CASE k = 0
      BY <2>1 DEF Places
    <2>2. CASE k # 0
      <3>1. k \in 1 .. n /\ at[k] = at[1] + bt[k]
        BY <1>1, <2>2
      <3>2. /\ at[k + 1] = at[k] + sizes[k] /\ bt[k + 1] = bt[k] + sizes[k]
            /\ at[1] \in Nat /\ bt[k] \in Nat /\ sizes[k] \in Nat
        BY <3>1 DEF Places
      <3> QED  BY <3>1, <3>2
    <2> QED  BY <2>1, <2>2
  <1>2. \A k \in Nat : k \in S
    <2>1. 0 \in S
      OBVIOUS
    <2> HIDE DEF S
    <2> QED  BY <1>1, <2>1, Induction
  <1> QED  BY <1>2

\* A row sorted from each item to the next is sorted.
LEMMA SortedThroughout ==
  ASSUME NEW n \in Nat, NEW f \in [1 .. n -> Nat], \A i \in 1 .. n - 1 : f[i] <= f[i + 1],
         NEW i \in 1 .. n, NEW j \in 1 .. n, i <= j
  PROVE  f[i] <= f[j]
  <1> DEFINE S == {k \in Nat : k \in i .. n => f[i] <= f[k]}
  <1>1. ASSUME NEW k \in Nat, k \in S
        PROVE  k + 1 \in S
    <2> SUFFICES ASSUME k + 1 \in i .. n
                 PROVE  f[i] <= f[k + 1]
      OBVIOUS
    <2>1. CASE k + 1 = i
      BY <2>1
    <2>2. CASE k + 1 # i
      <3>1. k \in i .. n /\ k \in 1 .. n - 1 /\ k \in 1 .. n /\ k + 1 \in 1 .. n
        BY <2>2
      <3>2. f[i] <= f[k] /\ f[k] <= f[k + 1] /\ f[i] \in Nat /\ f[k] \in Nat /\ f[k + 1] \in Nat
        BY <1>1, <3>1
      <3> QED  BY <3>2
    <2> QED  BY <2>1, <2>2
  <1>2. \A k \in Nat : k \in S
    <2>1. 0 \in S
      OBVIOUS
    <2> HIDE DEF S
    <2> QED  BY <1>1, <2>1, Induction
  <1> QED  BY <1>2
LEMMA Joined ==
  ASSUME NEW S, NEW s \in Seq(S), NEW t \in Seq(S)
  PROVE  /\ s \o t \in Seq(S) /\ Len(s \o t) = Len(s) + Len(t)
         /\ \A j \in 1 .. Len(s) : (s \o t)[j] = s[j]
         /\ \A j \in 1 .. Len(t) : (s \o t)[Len(s) + j] = t[j]
  OBVIOUS
-----------------------------------------------------------------------------
(* A list of postings in the file *)

Ascending(p) == \A i, j \in DOMAIN p : i < j => p[i].doc_id < p[j].doc_id

LEMMA DeltaTyped ==
  ASSUME NEW p \in Seq(Posting), Ascending(p), NEW i \in 1 .. Len(p)
  PROVE  /\ Delta(p, i) \in Nat /\ p[i].doc_id \in Nat /\ p[i].tf \in Nat
         /\ p[i] = [doc_id |-> p[i].doc_id, tf |-> p[i].tf]
         /\ p[i].doc_id = (IF i = 1 THEN 0 ELSE p[i - 1].doc_id) + Delta(p, i)
  <1>1. \A k \in 1 .. Len(p) : p[k] \in Posting
    OBVIOUS
  <1>2. \A k \in 1 .. Len(p) : p[k].doc_id \in Nat
    BY <1>1 DEF Posting
  <1>3. p[i].tf \in Nat /\ p[i] = [doc_id |-> p[i].doc_id, tf |-> p[i].tf]
    BY <1>1 DEF Posting
  <1>4. i # 1 => i - 1 \in 1 .. Len(p) /\ p[i - 1].doc_id < p[i].doc_id
    BY DEF Ascending
  <1> QED  BY <1>2, <1>3, <1>4 DEF Delta

\* The bytes of one posting of a packed list.
Packed(p, i) == writeVarInt[Delta(p, i)] \o writeVarInt[p[i].tf]

LEMMA PackedTyped ==
  ASSUME NEW p \in Seq(Posting), Ascending(p), NEW i \in 1 .. Len(p)
  PROVE  LET v == writeVarInt[Delta(p, i)]
             w == writeVarInt[p[i].tf]
         IN  /\ Packed(p, i) \in Seq(Nat) /\ Len(Packed(p, i)) = PostingSize(p, i)
             /\ PostingSize(p, i) \in Nat
             /\ PostingSize(p, i) = Len(v) + Len(w) /\ Len(v) \in Nat /\ Len(w) \in Nat
             /\ \A j \in 1 .. Len(v) : Packed(p, i)[j] = v[j]
             /\ \A j \in 1 .. Len(w) : Packed(p, i)[Len(v) + j] = w[j]
  <1> DEFINE v == writeVarInt[Delta(p, i)]
             w == writeVarInt[p[i].tf]
  <1>1. Delta(p, i) \in Nat /\ p[i].tf \in Nat
    BY DeltaTyped
  <1>2. v \in Seq(Nat) /\ w \in Seq(Nat) /\ Len(v) \in Nat /\ Len(w) \in Nat
    BY <1>1, WrittenSeq
  <1>3. Len(v) = getVarIntSize[Delta(p, i)]
    BY <1>1, Written, Zenon
  <1>4. Len(w) = getVarIntSize[p[i].tf]
    BY <1>1, Written, Zenon
  <1>5. Packed(p, i) = v \o w
    BY DEF Packed
  <1>6. PostingSize(p, i) = Len(v) + Len(w)
    BY <1>3, <1>4 DEF PostingSize
  <1> HIDE DEF v, w
  <1>7. /\ v \o w \in Seq(Nat) /\ Len(v \o w) = Len(v) + Len(w)
        /\ \A j \in 1 .. Len(v) : (v \o w)[j] = v[j]
        /\ \A j \in 1 .. Len(w) : (v \o w)[Len(v) + j] = w[j]
    BY <1>2
  <1>8. /\ Packed(p, i) \in Seq(Nat) /\ Len(Packed(p, i)) = PostingSize(p, i)
        /\ PostingSize(p, i) \in Nat
        /\ PostingSize(p, i) = Len(v) + Len(w) /\ Len(v) \in Nat /\ Len(w) \in Nat
        /\ \A j \in 1 .. Len(v) : Packed(p, i)[j] = v[j]
        /\ \A j \in 1 .. Len(w) : Packed(p, i)[Len(v) + j] = w[j]
    BY <1>2, <1>5, <1>6, <1>7
  <1> QED  BY <1>8, Zenon DEF v, w

\* where the postings of a packed list begin in it
PostingAt(p) == Offsets(0, [i \in DOMAIN p |-> PostingSize(p, i)])

LEMMA EncodedPacked ==
  ASSUME NEW p \in Seq(Posting), Ascending(p)
  PROVE  /\ Places(PostingAt(p), Len(p), [i \in 1 .. Len(p) |-> PostingSize(p, i)])
         /\ PostingAt(p)[1] = 0
         /\ Encoded(p, TRUE) \in Seq(Nat) /\ Len(Encoded(p, TRUE)) = EncodedSize(p, TRUE)
         /\ EncodedSize(p, TRUE) = PostingAt(p)[Len(p) + 1]
         /\ \A i \in 1 .. Len(p) : \A j \in 1 .. PostingSize(p, i) :
              Encoded(p, TRUE)[PostingAt(p)[i] + j] = Packed(p, i)[j]
  <1> DEFINE n == Len(p)
             sizes == [i \in 1 .. n |-> PostingSize(p, i)]
             items == [i \in 1 .. n |-> Packed(p, i)]
             at == PostingAt(p)
  <1>1. n \in Nat /\ DOMAIN p = 1 .. n
    OBVIOUS
  <1>2. \A i \in 1 .. n : /\ Packed(p, i) \in Seq(Nat) /\ PostingSize(p, i) \in Nat
                          /\ Len(Packed(p, i)) = PostingSize(p, i)
    BY PackedTyped
  <1>3. sizes \in [1 .. n -> Nat] /\ items \in [1 .. n -> Seq(Nat)]
    BY <1>2
  <1>4. at = Offsets(0, sizes)
    BY <1>1 DEF PostingAt
  <1>5. Encoded(p, TRUE) = FlattenSeq(items)
    BY <1>1 DEF Encoded, Packed
  <1>6. EncodedSize(p, TRUE) = at[n + 1]
    BY DEF EncodedSize, PostingAt
  <1>7. \A i \in 1 .. n : sizes[i] = Len(items[i])
    BY <1>2
  <1> HIDE DEF at, sizes, n
  <1>8. Places(at, n, sizes) /\ at[1] = 0
    BY <1>1, <1>3, <1>4, OffsetsPlace
  <1>9. /\ FlattenSeq(items) \in Seq(Nat) /\ Len(FlattenSeq(items)) = at[n + 1]
         /\ InPlace(FlattenSeq(items), at, n, items)
    <2> HIDE DEF items
    <2> QED  BY <1>1, <1>3, <1>7, <1>8, Flattened
  <1>10. \A i \in 1 .. n : items[i] = Packed(p, i)
    OBVIOUS
  <1> HIDE DEF items
  <1>11. \A i \in 1 .. n : \A j \in 1 .. PostingSize(p, i) :
           Encoded(p, TRUE)[at[i] + j] = Packed(p, i)[j]
    BY <1>2, <1>5, <1>9, <1>10 DEF InPlace
  <1>12. Places(at, Len(p), [i \in 1 .. Len(p) |-> PostingSize(p, i)])
    BY <1>8 DEF sizes, n
  <1> QED  BY <1>5, <1>6, <1>8, <1>9, <1>11, <1>12 DEF n, at

\* A list that is not packed takes two words for each posting.
LEMMA EncodedPlain ==
  ASSUME NEW p \in Seq(Posting), Ascending(p)
  PROVE  /\ Encoded(p, FALSE) \in Seq(Nat) /\ Len(Encoded(p, FALSE)) = EncodedSize(p, FALSE)
         /\ EncodedSize(p, FALSE) = 8 * Len(p)
         /\ \A i \in 1 .. Len(p) : /\ Encoded(p, FALSE)[8 * (i - 1) + 1] = p[i].doc_id
                                   /\ Encoded(p, FALSE)[8 * (i - 1) + 5] = p[i].tf
  <1> DEFINE n == Len(p)
             items == [i \in 1 .. n |-> Word(p[i].doc_id) \o Word(p[i].tf)]
             at == [i \in 1 .. n + 1 |-> 8 * (i - 1)]
  <1>1. n \in Nat /\ DOMAIN p = 1 .. n
    OBVIOUS
  <1>2. ASSUME NEW i \in 1 .. n
        PROVE  /\ items[i] \in Seq(Nat) /\ Len(items[i]) = 8
               /\ items[i][1] = p[i].doc_id /\ items[i][5] = p[i].tf
    <2>1. items[i] = <<p[i].doc_id, 0, 0, 0>> \o <<p[i].tf, 0, 0, 0>>
      BY DEF Word
    <2>2. p[i].doc_id \in Nat /\ p[i].tf \in Nat
      BY DeltaTyped
    <2> DEFINE d == <<p[i].doc_id, 0, 0, 0>>
               t == <<p[i].tf, 0, 0, 0>>
    <2>3. /\ d \in Seq(Nat) /\ Len(d) = 4 /\ d[1] = p[i].doc_id
          /\ t \in Seq(Nat) /\ Len(t) = 4 /\ t[1] = p[i].tf
      BY <2>2
    <2> HIDE DEF items, d, t
    <2>4. d \in Seq(Nat) /\ t \in Seq(Nat)
      BY <2>3
    <2>5. /\ d \o t \in Seq(Nat) /\ Len(d \o t) = Len(d) + Len(t)
          /\ (d \o t)[1] = d[1] /\ (d \o t)[4 + 1] = t[1]
      <3>1. /\ d \o t \in Seq(Nat) /\ Len(d \o t) = Len(d) + Len(t)
            /\ \A k \in 1 .. Len(d) : (d \o t)[k] = d[k]
            /\ \A k \in 1 .. Len(t) : (d \o t)[Len(d) + k] = t[k]
        BY <2>4, Joined
      <3> QED  BY <2>3, <3>1
    <2>6. items[i] = d \o t
      BY <2>1 DEF d, t
    <2> QED  BY <2>3, <2>5, <2>6
  <1>3. items \in [1 .. n -> Seq(Nat)]
    BY <1>2
  <1>4. Encoded(p, FALSE) = FlattenSeq(items)
    BY <1>1 DEF Encoded
  <1>5. at \in [1 .. n + 1 -> Nat] /\ at[1] = 0 /\ at[n + 1] = 8 * n
    OBVIOUS
  <1>6. \A i \in 1 .. n : at[i] = 8 * (i - 1) /\ at[i + 1] = at[i] + 8
    OBVIOUS
  <1> HIDE DEF at
  <1>7. Places(at, n, [i \in 1 .. n |-> 8]) /\ \A i \in 1 .. n : [k \in 1 .. n |-> 8][i] = Len(items[i])
    <2> HIDE DEF items
    <2> QED  BY <1>2, <1>5, <1>6 DEF Places
  <1>8. /\ FlattenSeq(items) \in Seq(Nat) /\ Len(FlattenSeq(items)) = at[n + 1]
        /\ InPlace(FlattenSeq(items), at, n, items)
    <2> HIDE DEF items
    <2> QED  BY <1>1, <1>3, <1>5, <1>7, Flattened
  <1> HIDE DEF items
  <1>9. ASSUME NEW i \in 1 .. n
        PROVE  /\ Encoded(p, FALSE)[8 * (i - 1) + 1] = p[i].doc_id
               /\ Encoded(p, FALSE)[8 * (i - 1) + 5] = p[i].tf
    <2>1. 1 \in 1 .. Len(items[i]) /\ 5 \in 1 .. Len(items[i]) /\ at[i] = 8 * (i - 1)
      BY <1>2, <1>6
    <2>2. FlattenSeq(items)[at[i] + 1] = items[i][1] /\ FlattenSeq(items)[at[i] + 5] = items[i][5]
      BY <1>8, <2>1 DEF InPlace
    <2> QED  BY <1>2, <1>4, <2>1, <2>2
  <1>10. EncodedSize(p, FALSE) = 8 * n
    BY <1>1 DEF EncodedSize
  <1> QED  BY <1>4, <1>5, <1>8, <1>9, <1>10

\* Reading the bytes of one posting gives the difference and the count, and ends
\* where the next posting begins.
LEMMA PostingRead ==
  ASSUME NEW p \in Seq(Posting), Ascending(p), NEW data \in Seq(Nat), NEW from \in Nat \ {0},
         from + Len(Encoded(p, TRUE)) - 1 <= Len(data),
         \A k \in 1 .. Len(Encoded(p, TRUE)) : data[from + k - 1] = Encoded(p, TRUE)[k],
         NEW i \in 1 .. Len(p)
  PROVE  LET delta == readVarInt(data, from + PostingAt(p)[i])
             tf == readVarInt(data, delta.next)
         IN  /\ delta.value = Delta(p, i) /\ tf.value = p[i].tf
             /\ tf.next = from + PostingAt(p)[i + 1]
  <1> DEFINE e == Encoded(p, TRUE)
             at == PostingAt(p)
             n == Len(p)
             size == PostingSize(p, i)
             v == writeVarInt[Delta(p, i)]
             w == writeVarInt[p[i].tf]
             q == from + at[i]
  <1>1. /\ size \in Nat /\ size = Len(v) + Len(w) /\ Len(v) \in Nat /\ Len(w) \in Nat
        /\ \A j \in 1 .. Len(v) : Packed(p, i)[j] = v[j]
        /\ \A j \in 1 .. Len(w) : Packed(p, i)[Len(v) + j] = w[j]
    BY PackedTyped, Zenon
  <1>2. /\ Places(at, n, [k \in 1 .. n |-> PostingSize(p, k)]) /\ at[1] = 0
        /\ Len(e) = at[n + 1]
        /\ \A k \in 1 .. n : \A j \in 1 .. PostingSize(p, k) : e[at[k] + j] = Packed(p, k)[j]
    BY EncodedPacked
  <1>3. n \in Nat /\ [k \in 1 .. n |-> PostingSize(p, k)] \in [1 .. n -> Nat]
    <2>1. \A k \in 1 .. n : PostingSize(p, k) \in Nat
      BY PackedTyped
    <2> QED  BY <2>1
  <1>4. /\ at[i] \in Nat /\ at[i + 1] \in Nat /\ at[n + 1] \in Nat
        /\ at[i + 1] = at[i] + size /\ at[i + 1] <= at[n + 1]
    <2> DEFINE sizes == [k \in 1 .. n |-> PostingSize(p, k)]
    <2>1. sizes[i] = size
      OBVIOUS
    <2> HIDE DEF sizes, at, size, n
    <2>2. i \in 1 .. n /\ n + 1 \in 1 .. n + 1 /\ i < n + 1
      BY <1>3 DEF n
    <2>3. at[i] + sizes[i] <= at[n + 1]
      BY <1>2, <1>3, <2>2, PlacesApart DEF sizes
    <2>4. at[i + 1] = at[i] + sizes[i] /\ at[i] \in Nat /\ at[i + 1] \in Nat /\ at[n + 1] \in Nat
      BY <1>2, <2>2 DEF Places, sizes
    <2> QED  BY <2>1, <2>3, <2>4
  <1>5. Delta(p, i) \in Nat /\ p[i].tf \in Nat
    BY DeltaTyped
  <1> DEFINE len == Len(e)
             lv == Len(v)
             lw == Len(w)
             a == at[i]
  <1> HIDE DEF e, at, n, size, v, w
  <1>6. /\ a \in Nat /\ size \in Nat /\ lv \in Nat /\ lw \in Nat /\ size = lv + lw
         /\ len \in Nat /\ a + size <= len /\ from + len - 1 <= Len(data)
         /\ q \in Nat \ {0} /\ q = from + a /\ Len(data) \in Nat /\ from \in Nat
    <2>1. len = at[n + 1]
      BY <1>2
    <2>2. from + len - 1 <= Len(data)
      BY DEF e
    <2> HIDE DEF len
    <2> QED  BY <1>1, <1>4, <2>1, <2>2
  <1> HIDE DEF len, lv, lw, a, q
  <1>7. \A j \in 1 .. size : data[q + j - 1] = Packed(p, i)[j]
    <2> SUFFICES ASSUME NEW j \in 1 .. size
                 PROVE  data[q + j - 1] = Packed(p, i)[j]
      OBVIOUS
    <2>1. a + j \in 1 .. len /\ from + (a + j) - 1 = q + j - 1
      BY <1>6
    <2>2. data[from + (a + j) - 1] = e[a + j]
      BY <2>1 DEF e, len
    <2>3. e[a + j] = Packed(p, i)[j]
      BY <1>2 DEF n, size, a
    <2> QED  BY <2>1, <2>2, <2>3
  <1>8. readVarInt(data, q) = [value |-> Delta(p, i), next |-> q + lv]
    <2>1. q + lv - 1 <= Len(data)
      BY <1>6
    <2>2. \A j \in 1 .. lv : data[q + j - 1] = v[j]
      BY <1>1, <1>7, <1>6 DEF lv
    <2> QED  BY <1>5, <1>6, <2>1, <2>2, ReadsBack DEF v, lv
  <1>9. readVarInt(data, q + lv) = [value |-> p[i].tf, next |-> (q + lv) + lw]
    <2> DEFINE r == q + lv
    <2>1. r + lw - 1 <= Len(data) /\ r \in Nat \ {0}
      BY <1>6
    <2>2. \A j \in 1 .. lw : data[r + j - 1] = w[j]
      <3> SUFFICES ASSUME NEW j \in 1 .. lw
                   PROVE  data[r + j - 1] = w[j]
        OBVIOUS
      <3>1. lv + j \in 1 .. size /\ q + (lv + j) - 1 = r + j - 1
        BY <1>6
      <3>2. data[q + (lv + j) - 1] = Packed(p, i)[lv + j]
        BY <1>7, <3>1
      <3>3. Packed(p, i)[lv + j] = w[j]
        BY <1>1 DEF lv, lw
      <3> QED  BY <3>1, <3>2, <3>3
    <2> HIDE DEF r
    <2>3. readVarInt(data, r) = [value |-> p[i].tf, next |-> r + lw]
      BY <1>5, <1>6, <2>1, <2>2, ReadsBack DEF w, lw
    <2> QED  BY <2>3 DEF r
  <1>10. (q + lv) + lw = from + at[i + 1]
    <2>1. at[i + 1] = a + size
      BY <1>4 DEF a
    <2> QED  BY <1>6, <2>1
  <1> QED  BY <1>8, <1>9, <1>10 DEF at, a, q

\* Reading a packed list gives the list.
LEMMA UnzippedRead ==
  ASSUME NEW p \in Seq(Posting), Ascending(p), NEW data \in Seq(Nat), NEW from \in Nat \ {0},
         from + Len(Encoded(p, TRUE)) - 1 <= Len(data),
         \A k \in 1 .. Len(Encoded(p, TRUE)) : data[from + k - 1] = Encoded(p, TRUE)[k]
  PROVE  Unzipped(data, from, Len(p)) = p
  <1> DEFINE n == Len(p)
             at == PostingAt(p)
             turn(r) ==
               LET delta == readVarInt(data, r.at)
                   tf == readVarInt(data, delta.next)
                   id == r.id + delta.value
               IN  [at |-> tf.next, id |-> id,
                    out |-> Append(r.out, [doc_id |-> id, tf |-> tf.value])]
             start == [at |-> from, id |-> 0, out |-> <<>>]
             equation(f) ==
               f = [i \in 0 .. n |-> IF i = 0 THEN start ELSE turn(f[i - 1])]
             read == CHOOSE f : equation(f)
             id(i) == IF i = 0 THEN 0 ELSE p[i].doc_id
             state(i) == [at |-> from + at[i + 1], id |-> id(i), out |-> SubSeq(p, 1, i)]
             g == [i \in 0 .. n |-> state(i)]
  <1>1. n \in Nat /\ at[1] = 0
    <2>1. at[1] = 0
      BY EncodedPacked, Zenon
    <2> QED  BY <2>1
  <1>2. state(0) = start
    <2>1. SubSeq(p, 1, 0) = <<>>
      OBVIOUS
    <2> QED  BY <1>1, <2>1
  <1>3. ASSUME NEW i \in 1 .. n
        PROVE  turn(state(i - 1)) = state(i)
    <2> DEFINE r == state(i - 1)
               delta == readVarInt(data, r.at)
               tf == readVarInt(data, delta.next)
    <2>1. r.at = from + at[i] /\ r.id = id(i - 1) /\ r.out = SubSeq(p, 1, i - 1)
      OBVIOUS
    <2>2. delta.value = Delta(p, i) /\ tf.value = p[i].tf /\ tf.next = from + at[i + 1]
      <3>1. LET d == readVarInt(data, from + at[i])
                t == readVarInt(data, d.next)
            IN  d.value = Delta(p, i) /\ t.value = p[i].tf /\ t.next = from + at[i + 1]
        BY PostingRead, Zenon
      <3> HIDE DEF r, at
      <3> QED  BY <2>1, <3>1
    <2>3. id(i - 1) + Delta(p, i) = p[i].doc_id /\ id(i) = p[i].doc_id
      <3>1. p[i].doc_id = (IF i = 1 THEN 0 ELSE p[i - 1].doc_id) + Delta(p, i)
        BY DeltaTyped, Zenon
      <3> QED  BY <3>1
    <2>4. Append(SubSeq(p, 1, i - 1), p[i]) = SubSeq(p, 1, i)
      OBVIOUS
    <2>5. p[i] = [doc_id |-> p[i].doc_id, tf |-> p[i].tf]
      BY DeltaTyped, Zenon
    <2>6. turn(r) = [at |-> tf.next, id |-> r.id + delta.value,
                     out |-> Append(r.out, [doc_id |-> r.id + delta.value, tf |-> tf.value])]
      OBVIOUS
    <2> HIDE DEF r, delta, tf, id, turn
    <2>7. turn(r) = [at |-> from + at[i + 1], id |-> id(i), out |-> SubSeq(p, 1, i)]
      BY <2>1, <2>2, <2>3, <2>4, <2>5, <2>6
    <2> QED  BY <2>7 DEF r
  <1> HIDE DEF turn, start, state
  <1>4. equation(g)
    <2>1. ASSUME NEW i \in 0 .. n
          PROVE  g[i] = IF i = 0 THEN start ELSE turn(g[i - 1])
      <3>1. CASE i = 0
        BY <1>2, <3>1
      <3>2. CASE i # 0
        <4>1. i \in 1 .. n /\ i - 1 \in 0 .. n
          BY <3>2
        <4>2. g[i] = state(i) /\ g[i - 1] = state(i - 1)
          BY <4>1
        <4> QED  BY <1>3, <3>2, <4>1, <4>2
      <3> QED  BY <3>1, <3>2
    <2> QED  BY <2>1
  <1>5. equation(read)
    <2> HIDE DEF equation
    <2> QED  BY <1>4
  <1>6. Unzipped(data, from, n) = read[n].out
    BY DEF Unzipped, turn, start
  <1> HIDE DEF read
  <1>7. \A i \in 0 .. n : read[i] = IF i = 0 THEN start ELSE turn(read[i - 1])
    BY <1>5
  <1> DEFINE T == {i \in Nat : i <= n => read[i] = state(i)}
  <1>8. ASSUME NEW i \in Nat, i \in T
        PROVE  i + 1 \in T
    <2> SUFFICES ASSUME i + 1 <= n
                 PROVE  read[i + 1] = state(i + 1)
      OBVIOUS
    <2>1. i + 1 \in 1 .. n /\ i + 1 \in 0 .. n /\ i + 1 # 0 /\ (i + 1) - 1 = i /\ read[i] = state(i)
      BY <1>1, <1>8
    <2>2. read[i + 1] = turn(read[i])
      BY <1>7, <2>1
    <2>3. turn(state(i)) = state(i + 1)
      BY <1>3, <2>1
    <2> QED  BY <2>1, <2>2, <2>3
  <1>9. \A i \in Nat : i \in T
    <2>1. 0 \in T
      BY <1>1, <1>2, <1>7
    <2> HIDE DEF T
    <2> QED  BY <1>8, <2>1, Induction
  <1>10. read[n] = state(n)
    BY <1>1, <1>9
  <1>11. state(n).out = SubSeq(p, 1, n) /\ SubSeq(p, 1, n) = p
    BY DEF state
  <1> QED  BY <1>6, <1>10, <1>11
-----------------------------------------------------------------------------
(* The image of an index *)

\* std::sort puts every term at one place, whichever of equal hashes comes first.
LEMMA OrderOf ==
  ASSUME NEW T \in SUBSET Terms, NEW order \in SortedByHash(T)
  PROVE  /\ Len(order) \in Nat /\ order \in [1 .. Len(order) -> T]
         /\ \A t \in T : \E i \in 1 .. Len(order) : order[i] = t
         /\ \A i, j \in 1 .. Len(order) : order[i] = order[j] => i = j
         /\ \A i, j \in 1 .. Len(order) : i <= j => stringHash[order[i]] <= stringHash[order[j]]
  <1> DEFINE n == Cardinality(T)
  <1>1. IsFiniteSet(T) /\ n \in Nat
    BY IndexAssumption, FS_Subset, FS_CardinalityType
  <1>2. /\ order \in [1 .. n -> T] /\ {order[i] : i \in DOMAIN order} = T
        /\ \A i \in 1 .. n - 1 : stringHash[order[i]] <= stringHash[order[i + 1]]
    BY DEF SortedByHash
  <1> HIDE DEF n
  <1>3. Len(order) = n /\ DOMAIN order = 1 .. n
    BY <1>1, <1>2
  <1>4. \A t \in T : \E i \in 1 .. n : order[i] = t
    BY <1>2, <1>3
  <1>5. \A i, j \in 1 .. n : order[i] = order[j] => i = j
    <2>1. order \in Surjection(1 .. n, T)
      BY <1>2, <1>4 DEF Surjection
    <2>2. IsFiniteSet(1 .. n) /\ Cardinality(1 .. n) = n
      <3>1. /\ IsFiniteSet(1 .. n)
            /\ Cardinality(1 .. n) = IF 1 > n THEN 0 ELSE n - 1 + 1
        BY <1>1, FS_Interval
      <3> QED  BY <1>1, <3>1
    <2>3. order \in Injection(1 .. n, T)
      BY <2>1, <2>2, FS_SurjSameCardinalityImpliesInj DEF n
    <2> QED  BY <2>3 DEF Injection, IsInjective
  <1>6. \A i, j \in 1 .. n : i <= j => stringHash[order[i]] <= stringHash[order[j]]
    <2> DEFINE hash == [i \in 1 .. n |-> stringHash[order[i]]]
    <2>1. hash \in [1 .. n -> Nat]
      BY <1>2, IndexAssumption
    <2>2. \A i \in 1 .. n - 1 : hash[i] <= hash[i + 1]
      BY <1>1, <1>2
    <2>3. \A i, j \in 1 .. n : i <= j => hash[i] <= hash[j]
      <3> HIDE DEF hash
      <3> QED  BY <1>1, <2>1, <2>2, SortedThroughout
    <2> QED  BY <2>3
  <1> QED  BY <1>1, <1>2, <1>3, <1>4, <1>5, <1>6

LEMMA ListsTyped ==
  ASSUME TypeOK, PostingsSorted, NEW t \in Terms
  PROVE  index[t] \in Seq(Posting) /\ Ascending(index[t])
  BY DEF TypeOK, PostingsSorted, Ascending

TermPlaces(terms) == Offsets(0, [i \in 1 .. Len(terms) |-> TermSize[terms[i]] + 1])

\* Every string of the file is at an offset of its own.
LEMMA TermsApart ==
  ASSUME NEW order, Len(order) \in Nat, order \in [1 .. Len(order) -> Terms]
  PROVE  /\ TermPlaces(order) \in [1 .. Len(order) + 1 -> Nat]
         /\ \A i, j \in 1 .. Len(order) : TermPlaces(order)[i] = TermPlaces(order)[j] => i = j
  <1> DEFINE n == Len(order)
             sizes == [i \in 1 .. n |-> TermSize[order[i]] + 1]
             at == TermPlaces(order)
  <1>1. \A i \in 1 .. n : TermSize[order[i]] \in Nat
    BY IndexAssumption
  <1>2. sizes \in [1 .. n -> Nat] /\ \A i \in 1 .. n : sizes[i] > 0
    BY <1>1
  <1>3. at = Offsets(0, sizes)
    BY DEF TermPlaces
  <1> HIDE DEF sizes, at
  <1>4. Places(at, n, sizes)
    BY <1>2, <1>3, OffsetsPlace
  <1>5. ASSUME NEW i \in 1 .. n, NEW j \in 1 .. n, i < j
        PROVE  at[i] < at[j]
    <2>1. i \in 1 .. n /\ j \in 1 .. n + 1 /\ i \in 1 .. n + 1 /\ n \in Nat
      OBVIOUS
    <2> HIDE DEF n
    <2>2. at[i] + sizes[i] <= at[j]
      BY <1>2, <1>4, <1>5, <2>1, PlacesApart
    <2>3. at[i] \in Nat /\ at[j] \in Nat /\ sizes[i] \in Nat /\ sizes[i] > 0
      BY <1>2, <1>4, <2>1 DEF Places
    <2> QED  BY <2>2, <2>3
  <1>6. at \in [1 .. n + 1 -> Nat]
    BY <1>4 DEF Places
  <1>7. \A i \in 1 .. n : at[i] \in Nat
    BY <1>6
  <1>8. ASSUME NEW i \in 1 .. n, NEW j \in 1 .. n, at[i] = at[j]
        PROVE  i = j
    BY <1>5, <1>7, <1>8
  <1> QED  BY <1>6, <1>8 DEF at

ListPlaces(terms, zip) ==
  Offsets(TermPlaces(terms)[Len(terms) + 1],
          [i \in 1 .. Len(terms) |-> EncodedSize(index[terms[i]], zip)])

EntryOf(entry, terms, zip, i) ==
  /\ entry.term_hash = stringHash[terms[i]]
  /\ entry.term_offset = TermPlaces(terms)[i]
  /\ entry.data_offset = ListPlaces(terms, zip)[i]
  /\ entry.doc_count = Len(index[terms[i]])

LEMMA ImageFields ==
  ASSUME NEW order, NEW zip \in BOOLEAN, image = Image(order, zip), Len(order) \in Nat
  PROVE  /\ image.version = (IF zip THEN 2 ELSE 1)
         /\ image.urls = [i \in DOMAIN docs |-> docs[i].url]
         /\ Len(image.directory) = Len(order)
         /\ \A i \in 1 .. Len(order) : EntryOf(image.directory[i], order, zip, i)
         /\ image.strings = [o \in {TermPlaces(order)[i] : i \in 1 .. Len(order)} |->
                               order[CHOOSE i \in 1 .. Len(order) : TermPlaces(order)[i] = o]]
         /\ image.dataStart = TermPlaces(order)[Len(order) + 1]
         /\ image.data = FlattenSeq([i \in 1 .. Len(order) |-> Encoded(index[order[i]], zip)])
  <1> DEFINE n == Len(order)
             directory == [i \in 1 .. n |-> [term_hash   |-> stringHash[order[i]],
                                             term_offset |-> TermPlaces(order)[i],
                                             data_offset |-> ListPlaces(order, zip)[i],
                                             doc_count   |-> Len(index[order[i]])]]
             fields ==
               [version   |-> IF zip THEN 2 ELSE 1,
                urls      |-> [i \in DOMAIN docs |-> docs[i].url],
                directory |-> directory,
                strings   |-> [o \in {TermPlaces(order)[i] : i \in 1 .. n} |->
                                 order[CHOOSE i \in 1 .. n : TermPlaces(order)[i] = o]],
                dataStart |-> TermPlaces(order)[n + 1],
                data      |-> FlattenSeq([i \in 1 .. n |-> Encoded(index[order[i]], zip)])]
  <1>1. image = fields
    BY DEF Image, TermPlaces, ListPlaces
  <1>2. Len(directory) = n
    OBVIOUS
  <1>3. \A i \in 1 .. n : EntryOf(directory[i], order, zip, i)
    BY DEF EntryOf
  <1>4. image.directory = directory
    <2> HIDE DEF directory
    <2> QED  BY <1>1
  <1>5. /\ image.version = (IF zip THEN 2 ELSE 1)
        /\ image.urls = [i \in DOMAIN docs |-> docs[i].url]
        /\ image.strings = [o \in {TermPlaces(order)[i] : i \in 1 .. n} |->
                               order[CHOOSE i \in 1 .. n : TermPlaces(order)[i] = o]]
        /\ image.dataStart = TermPlaces(order)[n + 1]
        /\ image.data = FlattenSeq([i \in 1 .. n |-> Encoded(index[order[i]], zip)])
    BY <1>1
  <1> HIDE DEF directory
  <1> QED  BY <1>2, <1>3, <1>4, <1>5

\* lower_bound and the walk through equal hashes find the entry of a term, and
\* none when the file has none, though other terms have its hash.
LEMMA TermFound ==
  ASSUME TypeOK, NEW zip \in BOOLEAN, NEW order \in SortedByHash(Kept),
         image = Image(order, zip), NEW t \in Terms
  PROVE  findTermEntry(t) = {i \in 1 .. Len(order) : order[i] = t}
  <1> DEFINE n == Len(order)
             dir == image.directory
             h == stringHash[t]
             bound(i) == /\ \A j \in 1 .. i - 1 : dir[j].term_hash < h
                         /\ i <= n => dir[i].term_hash >= h
             from == CHOOSE i \in 1 .. n + 1 : bound(i)
  <1>1. Kept \in SUBSET Terms
    BY DEF Kept, TypeOK
  <1>2. /\ n \in Nat /\ order \in [1 .. n -> Kept]
        /\ \A i, j \in 1 .. n : order[i] = order[j] => i = j
        /\ \A i, j \in 1 .. n : i <= j => stringHash[order[i]] <= stringHash[order[j]]
    BY <1>1, OrderOf
  <1>3. Len(dir) = n /\ \A i \in 1 .. n : /\ dir[i].term_hash = stringHash[order[i]]
                                          /\ dir[i].term_offset = TermPlaces(order)[i]
    <2>1. Len(dir) = n /\ \A i \in 1 .. n : EntryOf(dir[i], order, zip, i)
      BY <1>2, ImageFields, Zenon
    <2> QED  BY <2>1 DEF EntryOf
  <1>4. h \in Nat /\ \A i \in 1 .. n : stringHash[order[i]] \in Nat
    BY <1>1, <1>2, IndexAssumption
  <1>5. \A i \in 1 .. n : image.strings[dir[i].term_offset] = order[i]
    <2> SUFFICES ASSUME NEW i \in 1 .. n
                 PROVE  image.strings[dir[i].term_offset] = order[i]
      OBVIOUS
    <2> DEFINE at == TermPlaces(order)
               o == at[i]
               k == CHOOSE j \in 1 .. n : at[j] = o
    <2>1. image.strings = [x \in {at[j] : j \in 1 .. n} |->
                             order[CHOOSE j \in 1 .. n : at[j] = x]]
      BY <1>2, ImageFields
    <2>2. o \in {at[j] : j \in 1 .. n} /\ dir[i].term_offset = o
      BY <1>3
    <2>3. image.strings[o] = order[k]
      <3> HIDE DEF at, o
      <3> QED  BY <2>1, <2>2
    <2>4. k = i
      <3>1. \A j \in 1 .. n : at[j] = at[i] => j = i
        BY <1>1, <1>2, TermsApart
      <3> HIDE DEF at
      <3> QED  BY <3>1
    <2> QED  BY <2>2, <2>3, <2>4
  <1>6. from \in 1 .. n + 1 /\ bound(from)
    <2> DEFINE S == {i \in 1 .. n + 1 : i <= n => dir[i].term_hash >= h}
    <2>1. n + 1 \in S /\ S \subseteq Nat
      BY <1>2
    <2>2. PICK i \in S : \A j \in S : i <= j
      <3> HIDE DEF S
      <3> QED  BY <2>1, LeastNumber
    <2>3. \A j \in 1 .. i - 1 : dir[j].term_hash < h
      <3> SUFFICES ASSUME NEW j \in 1 .. i - 1
                   PROVE  dir[j].term_hash < h
        OBVIOUS
      <3>1. j \in 1 .. n /\ j \notin S
        BY <1>2, <2>2
      <3>2. ~(dir[j].term_hash >= h)
        BY <3>1
      <3>3. dir[j].term_hash \in Nat /\ h \in Nat
        BY <1>3, <1>4, <3>1
      <3> HIDE DEF dir, h
      <3> QED  BY <3>2, <3>3
    <2>4. i \in 1 .. n + 1 /\ bound(i)
      BY <2>2, <2>3
    <2> HIDE DEF bound
    <2> QED  BY <2>4
  <1>7. findTermEntry(t) = {i \in from .. n : /\ \A j \in from .. i : dir[j].term_hash = h
                                              /\ image.strings[dir[i].term_offset] = t}
    BY <1>3 DEF findTermEntry
  <1> HIDE DEF from, dir, h, n
  <1>8. ASSUME NEW i \in 1 .. n, order[i] = t
        PROVE  i >= from /\ \A j \in from .. i : dir[j].term_hash = h
    <2>1. dir[i].term_hash = h
      BY <1>3, <1>8 DEF h
    <2>2. i >= from
      <3> SUFFICES ASSUME i < from
                   PROVE  FALSE
        BY <1>6
      <3>1. i \in 1 .. from - 1
        BY <1>6
      <3>2. dir[i].term_hash < h
        BY <1>6, <3>1
      <3> QED  BY <1>4, <2>1, <3>2
    <2>3. ASSUME NEW j \in from .. i
          PROVE  dir[j].term_hash = h
      <3>1. from \in 1 .. n /\ j \in 1 .. n /\ from <= j /\ j <= i
        BY <1>2, <1>6, <2>2
      <3>2. dir[from].term_hash >= h
        BY <1>2, <1>6, <3>1
      <3>3. /\ stringHash[order[from]] <= stringHash[order[j]]
            /\ stringHash[order[j]] <= stringHash[order[i]]
        BY <1>2, <3>1
      <3>4. /\ dir[from].term_hash = stringHash[order[from]]
            /\ dir[j].term_hash = stringHash[order[j]] /\ dir[i].term_hash = stringHash[order[i]]
        BY <1>3, <3>1
      <3>5. stringHash[order[from]] \in Nat /\ stringHash[order[j]] \in Nat
        BY <1>4, <3>1
      <3> QED  BY <1>4, <2>1, <3>2, <3>3, <3>4, <3>5
    <2> QED  BY <2>2, <2>3
  <1>9. ASSUME NEW i \in 1 .. n, order[i] = t
        PROVE  i \in findTermEntry(t)
    <2>1. i \in from .. n
      BY <1>2, <1>6, <1>8, <1>9
    <2> QED  BY <1>5, <1>7, <1>8, <1>9, <2>1
  <1>10. ASSUME NEW i \in findTermEntry(t)
         PROVE  i \in 1 .. n /\ order[i] = t
    <2>1. i \in from .. n /\ image.strings[dir[i].term_offset] = t
      BY <1>7
    <2>2. i \in 1 .. n
      BY <1>2, <1>6, <2>1
    <2> QED  BY <1>5, <2>1, <2>2
  <1> QED  BY <1>9, <1>10 DEF n

\* The list of a term stands where its entry of the directory says.
LEMMA ListFound ==
  ASSUME TypeOK, PostingsSorted, NEW zip \in BOOLEAN, NEW order \in SortedByHash(Kept),
         image = Image(order, zip), NEW i \in 1 .. Len(order)
  PROVE  LET p == index[order[i]]
             from == image.directory[i].data_offset - image.dataStart + 1
         IN  /\ image.data \in Seq(Nat) /\ from \in Nat \ {0}
             /\ from + Len(Encoded(p, zip)) - 1 <= Len(image.data)
             /\ \A k \in 1 .. Len(Encoded(p, zip)) :
                  image.data[from + k - 1] = Encoded(p, zip)[k]
  <1> DEFINE n == Len(order)
             list(j) == index[order[j]]
             sizes == [j \in 1 .. n |-> EncodedSize(list(j), zip)]
             items == [j \in 1 .. n |-> Encoded(list(j), zip)]
             at == ListPlaces(order, zip)
             bt == Offsets(0, sizes)
             start == TermPlaces(order)[n + 1]
             from == image.directory[i].data_offset - image.dataStart + 1
             len == Len(items[i])
  <1>1. Kept \in SUBSET Terms
    BY DEF Kept, TypeOK
  <1>2. n \in Nat /\ order \in [1 .. n -> Terms]
    BY <1>1, OrderOf
  <1>3. ASSUME NEW j \in 1 .. n
        PROVE  /\ Encoded(list(j), zip) \in Seq(Nat)
               /\ Len(Encoded(list(j), zip)) = EncodedSize(list(j), zip)
    <2>1. list(j) \in Seq(Posting) /\ Ascending(list(j))
      BY <1>2, ListsTyped
    <2> HIDE DEF list
    <2>2. CASE zip
      <3>1. zip = TRUE
        BY <2>2
      <3> QED  BY <2>1, <3>1, EncodedPacked, Zenon
    <2>3. CASE ~zip
      <3>1. zip = FALSE
        BY <2>3
      <3> QED  BY <2>1, <3>1, EncodedPlain, Zenon
    <2> QED  BY <2>2, <2>3
  <1>4. /\ items \in [1 .. n -> Seq(Nat)] /\ sizes \in [1 .. n -> Nat]
        /\ \A j \in 1 .. n : sizes[j] = Len(items[j])
    <2> HIDE DEF list
    <2>1. \A j \in 1 .. n : EncodedSize(list(j), zip) \in Nat
      BY <1>3
    <2> QED  BY <1>3, <2>1
  <1>5. start \in Nat
    <2>1. TermPlaces(order) \in [1 .. n + 1 -> Nat]
      BY <1>2, TermsApart
    <2> QED  BY <1>2, <2>1
  <1>6. at = Offsets(start, sizes)
    BY DEF ListPlaces
  <1>7. /\ image.data = FlattenSeq(items)
        /\ from = at[i] - start + 1
    <2>1. image.data = FlattenSeq(items)
      BY <1>2, ImageFields, Zenon
    <2>2. image.directory[i].data_offset = at[i]
      <3>1. EntryOf(image.directory[i], order, zip, i)
        BY <1>2, ImageFields, Zenon
      <3> QED  BY <3>1 DEF EntryOf
    <2>3. image.dataStart = start
      BY <1>2, ImageFields, Zenon
    <2> QED  BY <2>1, <2>2, <2>3
  <1>8. items[i] = Encoded(index[order[i]], zip)
    OBVIOUS
  <1> HIDE DEF sizes, items, at, bt, start, from, n
  <1>9. i \in 1 .. n /\ i \in 1 .. n + 1 /\ n + 1 \in 1 .. n + 1 /\ (i = n \/ i < n)
    <2>1. i \in 1 .. n
      BY DEF n
    <2>2. n \in Nat
      BY <1>2
    <2> QED  BY <2>1, <2>2
  <1>10. Places(at, n, sizes) /\ at[1] = start
    BY <1>2, <1>4, <1>5, <1>6, OffsetsPlace
  <1>11. Places(bt, n, sizes) /\ bt[1] = 0
    BY <1>2, <1>4, OffsetsPlace DEF bt
  <1>12. at[i] = start + bt[i]
    <2>1. n \in Nat /\ sizes \in [1 .. n -> Nat] /\ i \in 1 .. n + 1
      BY <1>2, <1>4, <1>9
    <2>2. Places(at, n, sizes) /\ Places(bt, n, sizes) /\ bt[1] = 0
      BY <1>10, <1>11
    <2>3. at[i] = at[1] + bt[i]
      BY <2>1, <2>2, PlacesMoved
    <2> QED  BY <1>10, <2>3
  <1>13. /\ FlattenSeq(items) \in Seq(Nat) /\ Len(FlattenSeq(items)) = bt[n + 1]
         /\ InPlace(FlattenSeq(items), bt, n, items)
    BY <1>2, <1>4, <1>11, Flattened
  <1>14. len \in Nat /\ sizes[i] = len
    BY <1>4, <1>9
  <1>15. bt[i] + len <= bt[n + 1] /\ bt[i] \in Nat /\ bt[n + 1] \in Nat
    <2>1. i < n + 1
      BY <1>2, <1>9
    <2>2. bt[i] + sizes[i] <= bt[n + 1]
      BY <1>2, <1>4, <1>9, <1>11, <2>1, PlacesApart
    <2> QED  BY <1>9, <1>11, <1>14, <2>2 DEF Places
  <1> HIDE DEF len
  <1>16. from = bt[i] + 1
    BY <1>5, <1>7, <1>12, <1>15
  <1>17. from \in Nat \ {0} /\ from + len - 1 <= bt[n + 1]
    BY <1>14, <1>15, <1>16
  <1>18. ASSUME NEW k \in 1 .. len
         PROVE  FlattenSeq(items)[from + k - 1] = items[i][k]
    <2>1. from + k - 1 = bt[i] + k
      BY <1>14, <1>15, <1>16
    <2>2. FlattenSeq(items)[bt[i] + k] = items[i][k]
      BY <1>9, <1>13 DEF InPlace, len
    <2> QED  BY <2>1, <2>2
  <1>19. /\ image.data \in Seq(Nat) /\ from \in Nat \ {0}
         /\ from + Len(items[i]) - 1 <= Len(image.data)
         /\ \A k \in 1 .. Len(items[i]) : image.data[from + k - 1] = items[i][k]
    BY <1>7, <1>13, <1>17, <1>18 DEF len
  <1> QED  BY <1>8, <1>19, Zenon DEF from

\* What the file says of a term is what the index said.
LEMMA PostingsFound ==
  ASSUME TypeOK, PostingsSorted, NEW zip \in BOOLEAN, NEW order \in SortedByHash(Kept),
         image = Image(order, zip), NEW t \in Terms
  PROVE  getPostings(t) = IF t \in Kept THEN index[t] ELSE <<>>
  <1> DEFINE n == Len(order)
             found == findTermEntry(t)
  <1>1. Kept \in SUBSET Terms
    BY DEF Kept, TypeOK
  <1>2. /\ n \in Nat /\ order \in [1 .. n -> Kept]
        /\ \A s \in Kept : \E i \in 1 .. n : order[i] = s
        /\ \A i, j \in 1 .. n : order[i] = order[j] => i = j
    BY <1>1, OrderOf
  <1>3. found = {i \in 1 .. n : order[i] = t}
    BY TermFound
  <1>4. CASE t \notin Kept
    <2>1. found = {}
      BY <1>2, <1>3, <1>4
    <2> QED  BY <1>4, <2>1 DEF getPostings
  <1>5. CASE t \in Kept
    <2>1. PICK i \in 1 .. n : order[i] = t
      BY <1>2, <1>5
    <2> DEFINE entry == image.directory[i]
               p == index[t]
               from == entry.data_offset - image.dataStart + 1
    <2>2. found = {i}
      BY <1>2, <1>3, <2>1
    <2>3. (CHOOSE k \in found : \A j \in found : k <= j) = i
      <3> HIDE DEF found
      <3> QED  BY <1>2, <2>2
    <2>4. getPostings(t) =
            IF image.version = 1
              THEN [k \in 1 .. entry.doc_count |->
                      [doc_id |-> image.data[from + 8 * (k - 1)],
                       tf |-> image.data[from + 8 * (k - 1) + 4]]]
              ELSE Unzipped(image.data, from, entry.doc_count)
      <3> DEFINE pick == CHOOSE k \in found : \A j \in found : k <= j
                 e == image.directory[pick]
                 q == e.data_offset - image.dataStart + 1
      <3>1. getPostings(t) =
              IF found = {} THEN <<>>
              ELSE IF image.version = 1
                THEN [k \in 1 .. e.doc_count |->
                        [doc_id |-> image.data[q + 8 * (k - 1)],
                         tf |-> image.data[q + 8 * (k - 1) + 4]]]
                ELSE Unzipped(image.data, q, e.doc_count)
        BY DEF getPostings
      <3>2. pick = i /\ found # {}
        <4> HIDE DEF found
        <4> QED  BY <2>2, <2>3
      <3> HIDE DEF pick, found
      <3> QED  BY <3>1, <3>2
    <2>5. entry.doc_count = Len(p) /\ image.version = IF zip THEN 2 ELSE 1
      <3>1. entry.doc_count = Len(p)
        <4>1. n \in Nat
          BY <1>2
        <4>2. \A k \in 1 .. n : EntryOf(image.directory[k], order, zip, k)
          BY <4>1, ImageFields, Zenon
        <4>3. EntryOf(entry, order, zip, i)
          BY <4>2
        <4> QED  BY <2>1, <4>3 DEF EntryOf
      <3>2. image.version = IF zip THEN 2 ELSE 1
        BY <1>2, ImageFields, Zenon
      <3> QED  BY <3>1, <3>2
    <2>6. p \in Seq(Posting) /\ Ascending(p)
      BY ListsTyped
    <2>7. /\ image.data \in Seq(Nat) /\ from \in Nat \ {0}
          /\ from + Len(Encoded(p, zip)) - 1 <= Len(image.data)
          /\ \A k \in 1 .. Len(Encoded(p, zip)) :
               image.data[from + k - 1] = Encoded(p, zip)[k]
      BY <2>1, ListFound, Zenon
    <2> HIDE DEF from, p, entry
    <2>8. CASE zip
      <3>1. zip = TRUE /\ image.version # 1
        BY <2>5, <2>8
      <3>2. Unzipped(image.data, from, Len(p)) = p
        BY <2>6, <2>7, <3>1, UnzippedRead
      <3> QED  BY <1>5, <2>4, <2>5, <3>1, <3>2 DEF p
    <2>9. CASE ~zip
      <3>1. zip = FALSE /\ image.version = 1
        BY <2>5, <2>9
      <3>2. /\ Len(Encoded(p, FALSE)) = 8 * Len(p)
            /\ \A k \in 1 .. Len(p) : /\ Encoded(p, FALSE)[8 * (k - 1) + 1] = p[k].doc_id
                                      /\ Encoded(p, FALSE)[8 * (k - 1) + 5] = p[k].tf
        BY <2>6, EncodedPlain
      <3>3. ASSUME NEW k \in 1 .. Len(p)
            PROVE  p[k] = [doc_id |-> image.data[from + 8 * (k - 1)],
                           tf |-> image.data[from + 8 * (k - 1) + 4]]
        <4>1. Len(p) \in Nat /\ k \in Nat /\ from \in Nat
          BY <2>6, <2>7
        <4>2. /\ 8 * (k - 1) + 1 \in 1 .. 8 * Len(p) /\ 8 * (k - 1) + 5 \in 1 .. 8 * Len(p)
              /\ from + (8 * (k - 1) + 1) - 1 = from + 8 * (k - 1)
              /\ from + (8 * (k - 1) + 5) - 1 = from + 8 * (k - 1) + 4
          BY <4>1
        <4>3. /\ image.data[from + (8 * (k - 1) + 1) - 1] = p[k].doc_id
              /\ image.data[from + (8 * (k - 1) + 5) - 1] = p[k].tf
          BY <2>7, <3>1, <3>2, <4>2
        <4>4. p[k] = [doc_id |-> p[k].doc_id, tf |-> p[k].tf]
          BY <2>6, DeltaTyped, Zenon
        <4> QED  BY <4>2, <4>3, <4>4
      <3>4. p = [k \in 1 .. Len(p) |-> [doc_id |-> image.data[from + 8 * (k - 1)],
                                        tf |-> image.data[from + 8 * (k - 1) + 4]]]
        <4>1. p = [k \in 1 .. Len(p) |-> p[k]]
          BY <2>6
        <4> QED  BY <3>3, <4>1
      <3> QED  BY <1>5, <2>4, <2>5, <3>1, <3>4 DEF p
    <2> QED  BY <2>8, <2>9
  <1> QED  BY <1>4, <1>5
-----------------------------------------------------------------------------
(* The file through time *)

JustDumped ==
  /\ \E zip \in BOOLEAN : \E order \in SortedByHash(Kept) : image = Image(order, zip)
  /\ dumped = [index |-> index, kept |-> Kept, docs |-> docs]

LEMMA AnswersJustDumped == TypeOK /\ PostingsSorted /\ JustDumped => Answers
  <1> SUFFICES ASSUME TypeOK, PostingsSorted, JustDumped
               PROVE  Answers
    OBVIOUS
  <1>1. PICK zip \in BOOLEAN : \E order \in SortedByHash(Kept) : image = Image(order, zip)
    BY DEF JustDumped
  <1>2. PICK order \in SortedByHash(Kept) : image = Image(order, zip)
    BY <1>1
  <1>3. dumped.index = index /\ dumped.kept = Kept /\ dumped.docs = docs
    BY DEF JustDumped
  <1>4. \A t \in Terms : getPostings(t) = IF t \in Kept THEN index[t] ELSE <<>>
    BY <1>2, PostingsFound
  <1>5. image.urls = [i \in DOMAIN docs |-> docs[i].url]
    <2>1. Len(order) \in Nat
      <3>1. Kept \in SUBSET Terms
        BY DEF Kept, TypeOK
      <3> QED  BY <3>1, OrderOf, Zenon
    <2> QED  BY <1>2, <2>1, ImageFields, Zenon
  <1>6. Len(image.urls) = Len(docs) /\ \A n \in DOMAIN docs : getUrl(n - 1) = docs[n].url
    <2>1. docs \in Seq(Documents)
      BY DEF TypeOK
    <2>2. \A n \in DOMAIN docs : (n - 1) + 1 = n
      BY <2>1
    <2>3. DOMAIN docs = 1 .. Len(docs) /\ Len(docs) \in Nat
      BY <2>1
    <2> DEFINE urls == [i \in DOMAIN docs |-> docs[i].url]
    <2>4. DOMAIN urls = DOMAIN docs /\ \A n \in DOMAIN docs : urls[n] = docs[n].url
      OBVIOUS
    <2>5. Len(urls) = Len(docs)
      BY <2>3
    <2> HIDE DEF urls
    <2>6. \A n \in DOMAIN docs : getUrl(n - 1) = docs[n].url
      BY <1>5, <2>2, <2>4 DEF getUrl, urls
    <2> QED  BY <1>5, <2>5, <2>6 DEF urls
  <1> QED  BY <1>3, <1>4, <1>6 DEF Answers

LEMMA AnswersSame ==
  ASSUME Answers, UNCHANGED <<image, dumped>>
  PROVE  Answers'
  <1>1. \A t \in Terms : findTermEntry(t)' = findTermEntry(t)
    BY DEF findTermEntry
  <1>2. \A t \in Terms : getPostings(t)' = getPostings(t)
    <2> DEFINE postings(file, found) ==
                 LET entry == file.directory[CHOOSE i \in found : \A j \in found : i <= j]
                     p == entry.data_offset - file.dataStart + 1
                 IN  IF found = {} THEN <<>>
                     ELSE IF file.version = 1
                       THEN [i \in 1 .. entry.doc_count |->
                               [doc_id |-> file.data[p + 8 * (i - 1)],
                                tf |-> file.data[p + 8 * (i - 1) + 4]]]
                       ELSE Unzipped(file.data, p, entry.doc_count)
    <2>1. \A t \in Terms : getPostings(t) = postings(image, findTermEntry(t))
      BY DEF getPostings
    <2>2. \A t \in Terms : getPostings(t)' = postings(image', findTermEntry(t)')
      BY DEF getPostings
    <2> HIDE DEF postings
    <2> QED  BY <1>1, <2>1, <2>2
  <1>3. \A n : getUrl(n)' = getUrl(n)
    BY DEF getUrl
  <1> QED  BY <1>2, <1>3 DEF Answers

LEMMA DumpOpenStep ==
  ASSUME DumpOpen
  PROVE  JustDumped'
  <1>1. index' = index /\ docs' = docs /\ nodes' = nodes
    BY DEF DumpOpen, ramVars
  <1>2. Kept' = Kept /\ SortedByHash(Kept)' = SortedByHash(Kept)
    BY <1>1 DEF Kept, TotalDocs, SortedByHash
  <1>3. \A zip \in BOOLEAN : \A order \in SortedByHash(Kept) :
          Image(order, zip)' = Image(order, zip)
    BY <1>1 DEF Image
  <1> QED  BY <1>1, <1>2, <1>3 DEF DumpOpen, JustDumped

LEMMA FileAnswersStep ==
  ASSUME FileAnswers, Next \/ UNCHANGED vars, JustDumped' => Answers'
  PROVE  FileAnswers'
  <1>1. CASE DumpOpen
    BY <1>1, DumpOpenStep DEF FileAnswers
  <1>2. CASE ~DumpOpen
    <2>1. UNCHANGED <<image, dumped>>
      BY <1>2 DEF Next, AddUrl, AddToken, AddEnds, RamQuery, DumpDies, DumpBlock, Restart, Load,
                  vars, ramVars, fileVars
    <2>2. pc' = "dumping" \/ blocks' > 0 \/ mapped' > 0
            => pc = "dumping" \/ blocks > 0 \/ mapped > 0
      BY <1>2 DEF Next, AddUrl, AddToken, AddEnds, RamQuery, DumpDies, DumpBlock, Restart, Load,
                  vars, ramVars, fileVars
    <2> QED  BY <2>1, <2>2, AnswersSame DEF FileAnswers
  <1> QED  BY <1>1, <1>2

\* From the moment dump has chosen what it writes, what is in the file or mapped
\* is part of an image that answers for the index that was dumped.
THEOREM FileHolds == Spec => []FileAnswers
  <1>1. Init => FileAnswers
    BY DEF Init, FileAnswers
  <1>2. IInv' /\ JustDumped' => Answers'
    <2>1. (TypeOK /\ PostingsSorted /\ JustDumped => Answers)'
      BY AnswersJustDumped, PTL
    <2> QED  BY <2>1 DEF IInv
  <1>3. IInv' /\ FileAnswers /\ [Next]_vars => FileAnswers'
    BY <1>2, FileAnswersStep
  <1> QED  BY <1>1, <1>3, Invariance, PTL DEF Spec

\* A file that was written to its end gives back what was in the index.
THEOREM FileRoundTrip == Spec => []RoundTrip
  <1>1. FileAnswers => RoundTrip
    BY DEF FileAnswers, RoundTrip, AllBlocks
  <1> QED  BY <1>1, FileHolds, PTL
-----------------------------------------------------------------------------
(* The promise of the index *)

LEMMA DumpInStepInit == Init => DumpInStep
  BY DEF Init, DumpInStep

\* One posting more does not leave a list empty, nor a term without a node.
LEMMA AddTokenInStep ==
  ASSUME IInv, DumpInStep, AddToken
  PROVE  DumpInStep'
  <1>1. pc = "adding" /\ pc' = "adding" /\ mapped' = mapped
    BY DEF AddToken
  <1>2. PICK i \in rest :
          /\ index' = [index EXCEPT ![Last(docs).text[i]] =
                         Post(@, Len(docs) - 1,
                              IF countsTf THEN Count(Last(docs).text, Last(docs).text[i]) ELSE 1)]
          /\ nodes' = nodes \cup {Last(docs).text[i]}
    BY DEF AddToken
  <1>3. \A t \in Terms : t # Last(docs).text[i] => index'[t] = index[t]
    BY <1>2 DEF IInv, TypeOK
  <1> QED  BY <1>1, <1>2, <1>3 DEF DumpInStep

LEMMA DumpInStepStep ==
  ASSUME IInv, DumpInStep, Next \/ UNCHANGED vars
  PROVE  DumpInStep'
  <1>1. CASE AddToken
    BY <1>1, AddTokenInStep
  <1>2. CASE DumpOpen
    <2>1. index' = index /\ docs' = docs /\ nodes' = nodes /\ mapped' = mapped /\ mapped = 0
      BY <1>2 DEF DumpOpen, ramVars
    <2>2. Kept' = Kept
      BY <2>1 DEF Kept, TotalDocs
    <2>3. /\ blocks' = 0 /\ dumped' = [index |-> index, kept |-> Kept, docs |-> docs]
          /\ \A t \in nodes : index[t] # <<>>
      BY <1>2 DEF DumpOpen
    <2> QED  BY <2>1, <2>2, <2>3 DEF DumpInStep, AllBlocks
  <1>3. CASE DumpBlock \/ UNCHANGED vars
    <2>1. /\ index' = index /\ docs' = docs /\ nodes' = nodes /\ mapped' = mapped
          /\ dumped' = dumped /\ blocks' \in Nat
          /\ pc' \in {"adding", "dumping"} => pc' = pc
          /\ pc' = "dumping" => blocks' < AllBlocks
      BY <1>3 DEF DumpBlock, vars, ramVars, fileVars, IInv, TypeOK, AllBlocks, DumpInStep
    <2>2. Kept' = Kept
      BY <2>1 DEF Kept, TotalDocs
    <2> QED  BY <2>1, <2>2 DEF DumpInStep
  <1>4. CASE Restart
    BY <1>4 DEF Restart, DumpInStep
  <1>5. CASE (\E d \in Documents : AddUrl(d)) \/ AddEnds \/ RamQuery \/ DumpDies \/ Load
    <2>1. /\ index' = index /\ nodes \subseteq nodes' /\ pc' # "dumping"
          /\ pc' = "adding" => mapped' = 0
      BY <1>5 DEF AddUrl, AddEnds, RamQuery, DumpDies, Load, ramVars
    <2> QED  BY <2>1 DEF DumpInStep
  <1> QED  BY <1>1, <1>2, <1>3, <1>4, <1>5 DEF Next

\* While it is dumped the index stands still, and every node has postings.
THEOREM DumpStandsStill == Spec => []DumpInStep
  <1>1. IInv /\ DumpInStep /\ [Next]_vars => DumpInStep'
    BY DumpInStepStep
  <1> QED  BY <1>1, DumpInStepInit, Invariance, PTL DEF Spec

\* From the start of dump to the last lookup in the file, whatever happens to the
\* processes, the file is that of one index.
THEOREM FileInvariance == Spec => []FileInv
  BY DumpStandsStill, FileHolds, PTL DEF FileInv

\* Behind the last posting of a list there is none of a later document.
LEMMA LastPosting ==
  ASSUME IInv, NEW t \in Terms
  PROVE  /\ index[t] \in Seq(Posting) /\ Len(index[t]) \in Nat
         /\ DOMAIN index[t] = 1 .. Len(index[t])
         /\ \A i \in DOMAIN index[t] :
              /\ index[t][i].doc_id \in Nat /\ index[t][i].doc_id < Len(docs)
              /\ index[t][i].doc_id = Len(docs) - 1 => i = Len(index[t])
  <1>1. index[t] \in Seq(Posting) /\ docs \in Seq(Documents)
    BY DEF IInv, TypeOK
  <1>2. \A i \in DOMAIN index[t] : index[t][i].doc_id \in Nat /\ index[t][i].doc_id < Len(docs)
    BY <1>1, PostingTyped DEF IInv, PostingsSorted
  <1>3. ASSUME NEW i \in DOMAIN index[t], index[t][i].doc_id = Len(docs) - 1
        PROVE  i = Len(index[t])
    <2>1. i < Len(index[t]) => index[t][i].doc_id < index[t][Len(index[t])].doc_id
      BY <1>1 DEF IInv, PostingsSorted
    <2> QED  BY <1>1, <1>2, <1>3, <2>1
  <1> QED  BY <1>1, <1>2, <1>3

\* When every token of a document has been passed, each of its terms has got one
\* posting at the end of its list, and no other term has.
LEMMA AddEndsPromised ==
  ASSUME IInv, DumpInStep, AddEnds
  PROVE  \E d \in Documents : Promise!Add(d)
  <1> DEFINE n == Len(docs)
  <1>1. /\ pc = "adding" /\ pc' = "ready" /\ rest = {} /\ mapped = 0
        /\ UNCHANGED <<countsTf, docs, index, blocks, mapped, dumped>>
    BY DEF AddEnds, ramVars, fileVars, DumpInStep
  <1>2. /\ docs \in Seq(Documents) /\ n \in Nat /\ n > 0 /\ n \in DOMAIN docs
    BY <1>1 DEF IInv, TypeOK, Adding
  <1> PICK d \in Documents : d = docs[n]
    BY <1>2
  <1>3. /\ AddedDocs \in Seq(Documents) /\ Len(AddedDocs) = n - 1
        /\ \A i \in 1 .. n - 1 : AddedDocs[i] = docs[i]
        /\ AddedDocs' = docs
    <2>1. AddedDocs = [i \in 1 .. n - 1 |-> docs[i]] /\ AddedDocs' = docs
      BY <1>1 DEF AddedDocs, Front
    <2>2. \A i \in 1 .. n - 1 : docs[i] \in Documents
      BY <1>2
    <2> QED  BY <1>2, <2>1, <2>2
  <1>4. [i \in DOMAIN AddedDocs' |-> AddedDocs'[i].url] =
          Append([i \in DOMAIN AddedDocs |-> AddedDocs[i].url], d.url)
    BY <1>2, <1>3
  <1>5. Len([i \in DOMAIN AddedDocs |-> AddedDocs[i].url]) = n - 1
    BY <1>2, <1>3
  <1>6. ASSUME NEW t \in Terms
        PROVE  AddedPostings'[t] =
                 IF Promise!Times(d, t) > 0
                   THEN Append(AddedPostings[t], Promise!PostingIn(d, t))
                   ELSE AddedPostings[t]
    <2>1. AddedPostings'[t] = index[t]
      BY <1>1 DEF AddedPostings
    <2>2. Promise!Times(d, t) = Count(docs[n].text, t)
      <3>1. Promise!Times(d, t) = Count(d.text, t)
        BY DEF Promise!Times, Count, Promise!Cardinality, Cardinality
      <3> QED  BY <3>1
    <2>3. n \in Added(t) <=> Count(docs[n].text, t) > 0
      <3>1. Count(docs[n].text, t) > 0
              <=> \E i \in TokensToAdd(docs[n].text) : docs[n].text[i] = t
        BY <1>2, DocumentTyped, AllTermsPassed DEF IInv, TypeOK
      <3> QED  BY <1>1, <1>2, <3>1 DEF Added
    <2>4. Promise!PostingIn(d, t) = PostingOf(n, t)
      BY <1>2, <1>5, <2>2 DEF Promise!PostingIn, PostingOf
    <2>5. {index[t][i] : i \in DOMAIN index[t]} = {PostingOf(e, t) : e \in Added(t)}
      BY DEF IInv, HoldsAdded
    <2>6. CASE Count(docs[n].text, t) > 0
      <3>1. PICK i \in DOMAIN index[t] : index[t][i] = PostingOf(n, t)
        BY <2>3, <2>5, <2>6
      <3>2. PostingOf(n, t).doc_id = n - 1
        BY DEF PostingOf
      <3>3. index[t] \in Seq(Posting) /\ i = Len(index[t]) /\ index[t] # <<>>
        BY <3>1, <3>2, LastPosting
      <3>4. Last(index[t]) = PostingOf(n, t)
        BY <3>1, <3>3 DEF Last
      <3>5. AddedPostings[t] = Front(index[t])
        BY <1>1, <3>2, <3>3, <3>4 DEF AddedPostings
      <3>6. index[t] = Append(Front(index[t]), Last(index[t]))
        BY <3>3 DEF Front, Last
      <3> QED  BY <2>1, <2>2, <2>4, <2>6, <3>4, <3>5, <3>6
    <2>7. CASE ~(Count(docs[n].text, t) > 0)
      <3>1. \A i \in DOMAIN index[t] : index[t][i].doc_id # n - 1
        <4> SUFFICES ASSUME NEW i \in DOMAIN index[t], index[t][i].doc_id = n - 1
                     PROVE  FALSE
          OBVIOUS
        <4>1. PICK e \in Added(t) : index[t][i] = PostingOf(e, t)
          BY <2>5
        <4>2. e \in DOMAIN docs /\ e - 1 = n - 1
          BY <4>1 DEF PostingOf, Added
        <4>3. e = n
          BY <1>2, <4>2
        <4> QED  BY <2>3, <2>7, <4>1, <4>3
      <3>2. index[t] # <<>> => Last(index[t]).doc_id # n - 1
        BY <3>1, LastPosting DEF Last
      <3>3. AddedPostings[t] = index[t]
        BY <3>2 DEF AddedPostings
      <3> QED  BY <2>1, <2>2, <2>7, <3>3
    <2> QED  BY <2>6, <2>7
  <1>7. AddedPostings' = [t \in Terms |-> AddedPostings'[t]]
    BY DEF AddedPostings
  <1>8. AddedPostings' = [t \in Terms |->
          IF Promise!Times(d, t) > 0 THEN Append(AddedPostings[t], Promise!PostingIn(d, t))
                                     ELSE AddedPostings[t]]
    BY <1>6, <1>7
  <1>9. Saved' = Saved
    BY <1>1 DEF Saved
  <1>10. Promise!Add(d)
    <2>1. /\ (IF mapped = AllBlocks THEN Saved ELSE NoFile) = NoFile
          /\ UNCHANGED <<countsTf, IF blocks = AllBlocks THEN Saved ELSE NoFile,
                         IF mapped = AllBlocks THEN Saved ELSE NoFile>>
      BY <1>1, <1>9 DEF AllBlocks
    <2> QED  BY <1>4, <1>8, <2>1, Zenon DEF Promise!Add
  <1> QED  BY <1>10

\* What processTokens does to the last document is not yet promised.
LEMMA AddTokenPromised ==
  ASSUME IInv, AddToken
  PROVE  UNCHANGED Promise!promiseVars
  <1> DEFINE n == Len(docs)
             text == Last(docs).text
  <1>1. PICK i \in rest :
          index' = [index EXCEPT ![text[i]] =
                      Post(@, n - 1, IF countsTf THEN Count(text, text[i]) ELSE 1)]
    BY DEF AddToken
  <1>2. /\ pc = "adding" /\ pc' = "adding"
        /\ UNCHANGED <<countsTf, docs, blocks, mapped, dumped>>
    BY DEF AddToken, fileVars
  <1>3. AddedDocs' = AddedDocs /\ Saved' = Saved
    BY <1>2 DEF AddedDocs, Saved
  <1> DEFINE u == text[i]
             e == [doc_id |-> n - 1, tf |-> IF countsTf THEN Count(text, u) ELSE 1]
  <1>4. ASSUME NEW t \in Terms
        PROVE  AddedPostings'[t] = AddedPostings[t]
    <2>1. CASE index'[t] = index[t]
      BY <1>2, <2>1 DEF AddedPostings
    <2>2. CASE index'[t] # index[t]
      <3>1. index'[t] = Post(index[t], n - 1, IF countsTf THEN Count(text, u) ELSE 1)
        BY <1>1, <2>2 DEF IInv, TypeOK
      <3>2. /\ index'[t] = Append(index[t], e)
            /\ index[t] = <<>> \/ Last(index[t]).doc_id # n - 1
        BY <2>2, <3>1 DEF Post
      <3>3. AddedPostings[t] = index[t]
        BY <3>2 DEF AddedPostings
      <3>4. index[t] \in Seq(Posting)
        BY DEF IInv, TypeOK
      <3>5. e.doc_id = n - 1
        OBVIOUS
      <3> HIDE DEF e, n
      <3>6. /\ index'[t] # <<>> /\ Last(index'[t]) = e /\ Front(index'[t]) = index[t]
        <4>1. Len(Append(index[t], e)) = Len(index[t]) + 1 /\ Len(index[t]) \in Nat
          BY <3>4
        <4>2. Append(index[t], e)[Len(index[t]) + 1] = e
          BY <3>4
        <4>3. Front(Append(index[t], e)) = index[t]
          BY <3>4 DEF Front
        <4> QED  BY <3>2, <4>1, <4>2, <4>3 DEF Last
      <3>7. AddedPostings'[t] = Front(index'[t])
        BY <1>2, <3>5, <3>6 DEF AddedPostings, n
      <3> QED  BY <3>3, <3>6, <3>7
    <2> QED  BY <2>1, <2>2
  <1>5. AddedPostings' = AddedPostings
    <2>1. /\ AddedPostings' = [t \in Terms |-> AddedPostings'[t]]
          /\ AddedPostings = [t \in Terms |-> AddedPostings[t]]
      BY DEF AddedPostings
    <2> QED  BY <1>4, <2>1
  <1> QED  BY <1>2, <1>3, <1>5 DEF Promise!promiseVars

\* The last block makes the file whole: it holds the index, as dump found it.
LEMMA DumpBlockPromised ==
  ASSUME IInv, DumpInStep, DumpBlock
  PROVE  Promise!Save \/ UNCHANGED Promise!promiseVars
  <1>1. /\ pc = "dumping" /\ pc' \in {"ready", "dumping"} /\ blocks' = blocks + 1 /\ mapped = 0
        /\ blocks < AllBlocks /\ blocks \in Nat
        /\ UNCHANGED <<countsTf, docs, index, mapped, dumped>>
    BY DEF DumpBlock, DumpInStep, ramVars, IInv, TypeOK, AllBlocks
  <1>2. /\ AddedDocs = docs /\ AddedDocs' = docs
        /\ AddedPostings' = AddedPostings /\ \A t \in Terms : AddedPostings[t] = index[t]
    BY <1>1 DEF AddedDocs, AddedPostings
  <1>3. Saved' = Saved
    BY <1>1 DEF Saved
  <1>4. ASSUME NEW t \in Terms
        PROVE  t \in dumped.kept <=> Promise!Worth(t)
    <2>1. dumped.kept = Kept /\ nodes \subseteq Terms
      BY <1>1 DEF DumpInStep, IInv, TypeOK
    <2>2. t \in nodes <=> index[t] # <<>>
      BY <1>1 DEF DumpInStep
    <2>3. Len([i \in DOMAIN AddedDocs |-> AddedDocs[i].url]) = TotalDocs
      BY <1>2 DEF TotalDocs, IInv, TypeOK
    <2> QED  BY <1>2, <2>1, <2>2, <2>3 DEF Kept, Promise!Worth
  <1>5. Saved = [urls |-> [n \in DOMAIN AddedDocs |-> AddedDocs[n].url],
                 postings |-> [t \in Terms |-> IF Promise!Worth(t) THEN AddedPostings[t] ELSE <<>>]]
    <2>1. dumped.docs = docs /\ dumped.index = index
      BY <1>1 DEF DumpInStep
    <2>2. [t \in Terms |-> IF t \in dumped.kept THEN dumped.index[t] ELSE <<>>] =
            [t \in Terms |-> IF Promise!Worth(t) THEN AddedPostings[t] ELSE <<>>]
      BY <1>2, <1>4, <2>1
    <2> QED  BY <1>2, <2>1, <2>2 DEF Saved
  <1>6. CASE blocks' = AllBlocks
    BY <1>1, <1>2, <1>3, <1>5, <1>6 DEF Promise!Save, AllBlocks
  <1>7. CASE blocks' # AllBlocks
    BY <1>1, <1>2, <1>3, <1>7 DEF Promise!promiseVars, AllBlocks
  <1> QED  BY <1>6, <1>7

\* What was added stays as it was when a document is begun.
LEMMA AddUrlPromised ==
  ASSUME IInv, NEW d \in Documents, AddUrl(d)
  PROVE  UNCHANGED Promise!promiseVars
  <1>1. /\ pc = "ready" /\ pc' = "adding" /\ docs' = Append(docs, d)
        /\ UNCHANGED <<countsTf, index, blocks, mapped, dumped>>
    BY DEF AddUrl, fileVars
  <1>2. docs \in Seq(Documents) /\ Len(docs') = Len(docs) + 1 /\ Len(docs) \in Nat
    BY <1>1 DEF IInv, TypeOK
  <1>3. AddedDocs' = AddedDocs
    <2>1. Front(docs') = docs
      BY <1>1, <1>2 DEF Front
    <2> QED  BY <1>1, <2>1 DEF AddedDocs
  <1>4. ASSUME NEW t \in Terms
        PROVE  index[t] # <<>> => Last(index[t]).doc_id # Len(docs') - 1
    BY <1>2, LastPosting DEF Last
  <1>5. AddedPostings' = AddedPostings
    BY <1>1, <1>4 DEF AddedPostings
  <1>6. Saved' = Saved
    BY <1>1 DEF Saved
  <1> QED  BY <1>1, <1>3, <1>5, <1>6 DEF Promise!promiseVars

LEMMA OtherPromised ==
  ASSUME IInv, DumpInStep,
         RamQuery \/ DumpDies \/ DumpOpen \/ Restart \/ Load \/ UNCHANGED vars
  PROVE  Promise!Next \/ UNCHANGED Promise!promiseVars
  <1>1. CASE RamQuery \/ UNCHANGED vars
    <2>1. UNCHANGED <<pc, countsTf, docs, index, blocks, mapped, dumped>>
      BY <1>1 DEF RamQuery, vars, ramVars, fileVars
    <2>2. AddedDocs' = AddedDocs /\ AddedPostings' = AddedPostings /\ Saved' = Saved
      BY <2>1 DEF AddedDocs, AddedPostings, Saved
    <2> QED  BY <2>1, <2>2 DEF Promise!promiseVars
  <1>2. CASE DumpDies \/ DumpOpen
    <2>1. /\ pc = "ready" /\ pc' # "adding" /\ mapped = 0 /\ mapped' = 0 /\ blocks' = 0
          /\ UNCHANGED <<countsTf, docs, index>>
      BY <1>2 DEF DumpDies, DumpOpen, ramVars
    <2>2. AddedDocs' = AddedDocs /\ AddedPostings' = AddedPostings
      BY <2>1 DEF AddedDocs, AddedPostings
    <2>3. Promise!Truncate
      BY <2>1, <2>2 DEF Promise!Truncate, AllBlocks
    <2> QED  BY <2>3 DEF Promise!Next
  <1>3. CASE Restart
    <2>1. /\ pc' = "ready" /\ mapped' = 0 /\ countsTf' \in BOOLEAN /\ docs' = <<>>
          /\ index' = [t \in Terms |-> <<>>] /\ UNCHANGED <<blocks, dumped>>
      BY <1>3 DEF Restart, fileVars
    <2>2. AddedDocs' = <<>> /\ AddedPostings' = [t \in Terms |-> <<>>] /\ Saved' = Saved
      BY <2>1 DEF AddedDocs, AddedPostings, Saved
    <2>3. Promise!End
      BY <2>1, <2>2 DEF Promise!End, Promise!Empty, AllBlocks
    <2> QED  BY <2>3 DEF Promise!Next
  <1>4. CASE Load
    <2>1. /\ mapped = 0 /\ mapped' = blocks
          /\ UNCHANGED <<pc, countsTf, docs, index, blocks, dumped>>
      BY <1>4 DEF Load, ramVars, fileVars
    <2>2. AddedDocs' = AddedDocs /\ AddedPostings' = AddedPostings /\ Saved' = Saved
      BY <2>1 DEF AddedDocs, AddedPostings, Saved
    <2>3. Promise!Open
      BY <2>1, <2>2 DEF Promise!Open, AllBlocks
    <2> QED  BY <2>3 DEF Promise!Next
  <1> QED  BY <1>1, <1>2, <1>3, <1>4

LEMMA PromiseStep ==
  ASSUME IInv, DumpInStep, Next \/ UNCHANGED vars
  PROVE  Promise!Next \/ UNCHANGED Promise!promiseVars
  BY AddUrlPromised, AddTokenPromised, AddEndsPromised, DumpBlockPromised, OtherPromised
     DEF Next, Promise!Next

\* The index implements IndexPromise, whatever its terms, documents and hashes are.
THEOREM PromiseKept == Spec => KeepsPromise
  <1>1. Init => Promise!Init
    BY DEF Init, Promise!Init, Promise!Empty, AddedDocs, AddedPostings, AllBlocks
  <1>2. IInv /\ DumpInStep /\ [Next]_vars => [Promise!Next]_(Promise!promiseVars)
    BY PromiseStep
  <1> QED  BY <1>1, <1>2, Invariance, DumpStandsStill, PTL DEF Spec, KeepsPromise, Promise!Spec
-----------------------------------------------------------------------------
(* The promise, as the readers of the file see it *)

\* what a file that was written to its end tells whoever maps it
Told ==
  [urls     |-> [n \in 1 .. Len(image.urls) |-> getUrl(n - 1)],
   postings |-> [t \in Terms |-> getPostings(t)]]

Reading == INSTANCE IndexPromise WITH
  counts <- countsTf,
  urls <- [n \in DOMAIN AddedDocs |-> AddedDocs[n].url],
  ram <- AddedPostings,
  file <- IF blocks = AllBlocks THEN Told ELSE NoFile,
  view <- IF mapped = AllBlocks THEN Told ELSE NoFile,
  Nothing <- NoFile

InFile == pc = "dumping" \/ blocks > 0 \/ mapped > 0

DumpedTyped == InFile => dumped.docs \in Seq(Documents)

LEMMA DumpedTypedStep ==
  ASSUME IInv, DumpedTyped, Next \/ UNCHANGED vars
  PROVE  DumpedTyped'
  <1>1. CASE DumpOpen
    BY <1>1 DEF DumpOpen, DumpedTyped, IInv, TypeOK
  <1>2. CASE ~DumpOpen
    BY <1>2 DEF DumpedTyped, InFile, Next, AddUrl, AddToken, AddEnds, RamQuery, DumpDies,
                DumpBlock, Restart, Load, vars, ramVars, fileVars
  <1> QED  BY <1>1, <1>2

\* the answers of a whole file, and what was saved in it
ToldIsSaved == blocks = AllBlocks \/ mapped = AllBlocks => Told = Saved

LEMMA ToldSaved == FileAnswers /\ DumpedTyped => ToldIsSaved
  <1> SUFFICES ASSUME FileAnswers, DumpedTyped, blocks = AllBlocks \/ mapped = AllBlocks
               PROVE  Told = Saved
    BY DEF ToldIsSaved
  <1>1. Answers /\ dumped.docs \in Seq(Documents)
    BY DEF FileAnswers, DumpedTyped, InFile, AllBlocks
  <1>2. [n \in 1 .. Len(image.urls) |-> getUrl(n - 1)] =
          [n \in DOMAIN dumped.docs |-> dumped.docs[n].url]
    <2>1. DOMAIN dumped.docs = 1 .. Len(image.urls)
      BY <1>1 DEF Answers
    <2>2. \A n \in DOMAIN dumped.docs : getUrl(n - 1) = dumped.docs[n].url
      BY <1>1 DEF Answers
    <2> QED  BY <2>1, <2>2
  <1>3. [t \in Terms |-> getPostings(t)] =
          [t \in Terms |-> IF t \in dumped.kept THEN dumped.index[t] ELSE <<>>]
    BY <1>1 DEF Answers
  <1> QED  BY <1>2, <1>3 DEF Told, Saved

\* Where files tell what was saved in them, both readings have the same steps.
LEMMA ReadingStep ==
  ASSUME ToldIsSaved, ToldIsSaved', Promise!Next \/ UNCHANGED Promise!promiseVars
  PROVE  Reading!Next \/ UNCHANGED Reading!promiseVars
  <1> DEFINE file == IF blocks = AllBlocks THEN Saved ELSE NoFile
             view == IF mapped = AllBlocks THEN Saved ELSE NoFile
             fileTold == IF blocks = AllBlocks THEN Told ELSE NoFile
             viewTold == IF mapped = AllBlocks THEN Told ELSE NoFile
  <1>1. fileTold = file /\ viewTold = view /\ fileTold' = file' /\ viewTold' = view'
    BY DEF ToldIsSaved
  <1>2. \A d, t : Reading!Times(d, t) = Promise!Times(d, t)
    BY DEF Reading!Times, Promise!Times, Reading!Cardinality, Promise!Cardinality
  <1>3. ASSUME NEW d \in Documents, Promise!Add(d)
        PROVE  Reading!Add(d)
    BY <1>1, <1>2, <1>3 DEF Promise!Add, Reading!Add, Promise!PostingIn, Reading!PostingIn
  <1>4. CASE Promise!Truncate
    <2>1. Reading!Truncate
      BY <1>1, <1>4 DEF Promise!Truncate, Reading!Truncate
    <2> QED  BY <2>1 DEF Reading!Next
  <1>5. CASE Promise!Save
    <2>1. Reading!Save
      BY <1>1, <1>5 DEF Promise!Save, Reading!Save, Promise!Worth, Reading!Worth
    <2> QED  BY <2>1 DEF Reading!Next
  <1>6. CASE Promise!Open
    <2>1. Reading!Open
      BY <1>1, <1>6 DEF Promise!Open, Reading!Open
    <2> QED  BY <2>1 DEF Reading!Next
  <1>7. CASE Promise!End
    <2>1. Reading!End
      BY <1>1, <1>7 DEF Promise!End, Reading!End, Promise!Empty, Reading!Empty
    <2> QED  BY <2>1 DEF Reading!Next
  <1>8. CASE UNCHANGED Promise!promiseVars
    BY <1>1, <1>8 DEF Promise!promiseVars, Reading!promiseVars
  <1> QED  BY <1>3, <1>4, <1>5, <1>6, <1>7, <1>8 DEF Promise!Next, Reading!Next

\* The promise holds of what lookups find in the bytes of the file, through hashes,
\* offsets and packed numbers: what a mapped file answers for every term and every
\* document is the index of the moment of its dump.
THEOREM PromiseRead == Spec => Reading!Spec
  <1>1. Init => Reading!Init /\ DumpedTyped
    BY DEF Init, Reading!Init, Reading!Empty, AddedDocs, AddedPostings, AllBlocks,
           DumpedTyped, InFile
  <1>2. IInv /\ DumpedTyped /\ [Next]_vars => DumpedTyped'
    BY DumpedTypedStep
  <1>3. FileAnswers /\ DumpedTyped => ToldIsSaved
    BY ToldSaved
  <1>4. IInv /\ DumpInStep /\ ToldIsSaved /\ ToldIsSaved' /\ [Next]_vars
          => [Reading!Next]_(Reading!promiseVars)
    BY PromiseStep, ReadingStep
  <1> QED  BY <1>1, <1>2, <1>3, <1>4, Invariance, DumpStandsStill, FileHolds, PTL
           DEF Spec, Reading!Spec
=============================================================================
