----------------------------- MODULE InputProofs ------------------------------
(* What is read, of whatever size: streams of numbers, in any radix, and the     *)
(* tokens of queries.                                                            *)
EXTENDS SearchInput, QueryProofs

NumbersTyped == subject = "numbers" => input \in Seq(Nat)

LEMMA NumbersInit == Init => NumbersTyped
  <1>1. <<>> \in Seq(Nat)
    OBVIOUS
  <1> QED  BY <1>1 DEF Init, NumbersTyped

LEMMA NumbersStep == NumbersTyped /\ [Next]_vars => NumbersTyped'
  <1> SUFFICES ASSUME NumbersTyped, [Next]_vars
               PROVE  NumbersTyped'
    OBVIOUS
  <1>1. CASE Write
    <2>1. PICK n \in Numbers : input' = Append(input, n)
      BY <1>1 DEF Write
    <2>2. subject = "numbers" /\ subject' = subject /\ input \in Seq(Nat) /\ n \in Nat
      BY <1>1, SearchInputAssumption DEF Write, Another, NumbersTyped
    <2>3. Append(input, n) \in Seq(Nat)
      BY <2>2
    <2> QED  BY <2>1, <2>3 DEF NumbersTyped
  <1>2. CASE Spell \/ Compose \/ Type
    <2>1. subject \in {"word", "text", "query"} /\ subject' = subject
      BY <1>2 DEF Spell, Compose, Type, Another
    <2> QED  BY <2>1 DEF NumbersTyped
  <1>3. CASE UNCHANGED vars
    BY <1>3 DEF NumbersTyped, vars
  <1> QED  BY <1>1, <1>2, <1>3 DEF Next

\* where the bytes of each number of the stream begin
NumberPlaces(at) ==
  /\ Places(at, Len(input), [i \in 1 .. Len(input) |-> Len(writeVarInt[input[i]])])
  /\ at[1] = 0

LEMMA PlacesOfNumbers ==
  ASSUME input \in Seq(Nat)
  PROVE  \E at : NumberPlaces(at)
  <1> DEFINE n == Len(input)
             sizes == [i \in 1 .. n |-> Len(writeVarInt[input[i]])]
  <1>1. n \in Nat /\ sizes \in [1 .. n -> Nat]
    BY WrittenSeq
  <1> HIDE DEF n, sizes
  <1>2. \E f : PlacesEquation(f, n, 0, sizes)
    BY <1>1, PlacesExist, 0 \in Nat
  <1>3. \A f : PlacesEquation(f, n, 0, sizes) => Places(f, n, sizes) /\ f[1] = 0
    BY <1>1, PlacesExist, 0 \in Nat
  <1> QED  BY <1>2, <1>3 DEF NumberPlaces, n, sizes

\* Each number's bytes stand at its place, and nothing else is written.
LEMMA BytesInPlace ==
  ASSUME input \in Seq(Nat), NEW at, NumberPlaces(at)
  PROVE  /\ Bytes \in Seq(Nat) /\ Bytes \in Seq(0 .. 2 * Radix - 1)
         /\ Len(Bytes) = at[Len(input) + 1]
         /\ InPlace(Bytes, at, Len(input), [i \in 1 .. Len(input) |-> writeVarInt[input[i]]])
  <1> DEFINE n == Len(input)
             items == [i \in 1 .. n |-> writeVarInt[input[i]]]
             sizes == [i \in 1 .. n |-> Len(writeVarInt[input[i]])]
  <1>1. n \in Nat /\ \A i \in 1 .. n : sizes[i] = Len(items[i])
    OBVIOUS
  <1>2. items \in [1 .. n -> Seq(Nat)]
    BY WrittenSeq
  <1>3. items \in [1 .. n -> Seq(0 .. 2 * Radix - 1)]
    <2>1. ASSUME NEW v \in Nat
          PROVE  writeVarInt[v] \in Seq(0 .. 2 * Radix - 1)
      BY Written, Zenon
    <2> DEFINE bytes == Seq(0 .. 2 * Radix - 1)
    <2>2. \A v \in Nat : writeVarInt[v] \in bytes
      BY <2>1
    <2> HIDE DEF bytes
    <2>3. items \in [1 .. n -> bytes]
      BY <1>1, <2>2
    <2> QED  BY <2>3 DEF bytes
  <1>4. Places(at, n, sizes) /\ at[1] = 0
    BY DEF NumberPlaces
  <1>5. Bytes = FlattenSeq(items)
    BY DEF Bytes
  <1> HIDE DEF items, sizes, n
  <1>6. /\ FlattenSeq(items) \in Seq(Nat) /\ Len(FlattenSeq(items)) = at[n + 1]
        /\ InPlace(FlattenSeq(items), at, n, items)
    BY <1>1, <1>2, <1>4, Flattened
  <1>7. FlattenSeq(items) \in Seq(0 .. 2 * Radix - 1)
    BY <1>1, <1>3, <1>4, Flattened
  <1> QED  BY <1>5, <1>6, <1>7 DEF n, items

\* One call of readVarInt at the place of a number takes that number.
LEMMA NumberRead ==
  ASSUME input \in Seq(Nat), NEW at, NumberPlaces(at), NEW i \in 1 .. Len(input)
  PROVE  readVarInt(Bytes, 1 + at[i]) = [value |-> input[i], next |-> 1 + at[i + 1]]
  <1> DEFINE n == Len(input)
             w == writeVarInt[input[i]]
             sizes == [k \in 1 .. n |-> Len(writeVarInt[input[k]])]
             items == [k \in 1 .. n |-> writeVarInt[input[k]]]
             here == at[i]
             there == at[i + 1]
  <1>1. /\ n \in Nat /\ input[i] \in Nat /\ i \in 1 .. n /\ n + 1 \in 1 .. n + 1 /\ i < n + 1
        /\ sizes[i] = Len(w) /\ items[i] = w
    OBVIOUS
  <1>2. w \in Seq(Nat) /\ Len(w) \in Nat /\ Len(w) > 0
    BY <1>1, WrittenSeq
  <1>3. sizes \in [1 .. n -> Nat]
    BY WrittenSeq
  <1>4. Places(at, n, sizes)
    BY DEF NumberPlaces
  <1>5. InPlace(Bytes, at, n, items) /\ Len(Bytes) = at[n + 1] /\ Bytes \in Seq(Nat)
    BY BytesInPlace
  <1> HIDE DEF n, sizes, items, w
  <1>6. here \in Nat /\ there \in Nat /\ there = here + Len(w)
    BY <1>1, <1>4 DEF Places
  <1>7. at[i] + sizes[i] <= at[n + 1]
    BY <1>1, <1>3, <1>4, PlacesApart
  <1>8. \A j \in 1 .. Len(w) : Bytes[at[i] + j] = w[j]
    BY <1>1, <1>5 DEF InPlace
  <1>9. here + Len(w) <= Len(Bytes)
    BY <1>1, <1>5, <1>7
  <1>10. \A j \in 1 .. Len(w) : Bytes[here + j] = w[j]
    BY <1>8
  <1> HIDE DEF here, there
  <1>11. 1 + here \in Nat \ {0} /\ (1 + here) + Len(w) - 1 <= Len(Bytes)
    BY <1>2, <1>6, <1>9, <1>5
  <1>12. \A j \in 1 .. Len(w) : Bytes[(1 + here) + j - 1] = w[j]
    <2>1. ASSUME NEW j \in 1 .. Len(w)
          PROVE  (1 + here) + j - 1 = here + j
      BY <1>2, <1>6
    <2> QED  BY <1>10, <2>1
  <1>13. readVarInt(Bytes, 1 + here) = [value |-> input[i], next |-> (1 + here) + Len(w)]
    BY <1>1, <1>5, <1>11, <1>12, ReadsBack DEF w
  <1>14. (1 + here) + Len(w) = 1 + there
    BY <1>2, <1>6
  <1> QED  BY <1>13, <1>14 DEF here, there

\* The readings that follow one another are those of the whole stream.
LEMMA StreamRead ==
  ASSUME input \in Seq(Nat), NEW at, NumberPlaces(at)
  PROVE  \A i \in 0 .. Len(input) :
           ReadBack[i].out = SubSeq(input, 1, i) /\ ReadBack[i].next = 1 + at[i + 1]
  <1> DEFINE n == Len(input)
             turn(r) == LET x == readVarInt(Bytes, r.next)
                        IN  [out |-> Append(r.out, x.value), next |-> x.next]
             start == [out |-> <<>>, next |-> 1]
             equation(f) ==
               f = [i \in 0 .. n |-> IF i = 0 THEN start ELSE turn(f[i - 1])]
             read == CHOOSE f : equation(f)
             state(i) == [out |-> SubSeq(input, 1, i), next |-> 1 + at[i + 1]]
             g == [i \in 0 .. n |-> state(i)]
  <1>1. n \in Nat /\ at[1] = 0
    BY DEF NumberPlaces
  <1>2. state(0) = start
    <2>1. SubSeq(input, 1, 0) = <<>>
      OBVIOUS
    <2> QED  BY <1>1, <2>1
  <1>3. ASSUME NEW i \in 1 .. n
        PROVE  turn(state(i - 1)) = state(i)
    <2> DEFINE r == state(i - 1)
               x == readVarInt(Bytes, r.next)
    <2>1. r.out = SubSeq(input, 1, i - 1) /\ r.next = 1 + at[i]
      OBVIOUS
    <2>2. readVarInt(Bytes, 1 + at[i]) = [value |-> input[i], next |-> 1 + at[i + 1]]
      BY NumberRead, Zenon
    <2>3. Append(SubSeq(input, 1, i - 1), input[i]) = SubSeq(input, 1, i)
      OBVIOUS
    <2>4. turn(r) = [out |-> Append(r.out, x.value), next |-> x.next]
      OBVIOUS
    <2> HIDE DEF r, turn
    <2>5. x.value = input[i] /\ x.next = 1 + at[i + 1]
      BY <2>1, <2>2
    <2> HIDE DEF x
    <2>6. turn(r) = [out |-> SubSeq(input, 1, i), next |-> 1 + at[i + 1]]
      BY <2>1, <2>3, <2>4, <2>5
    <2> QED  BY <2>6 DEF r
  <1> HIDE DEF turn, start, state
  <1>4. equation(g)
    <2>1. ASSUME NEW i \in 0 .. n
          PROVE  g[i] = IF i = 0 THEN start ELSE turn(g[i - 1])
      <3>1. CASE i = 0
        BY <1>2, <3>1
      <3>2. CASE i # 0
        <4>1. i \in 1 .. n /\ i - 1 \in 0 .. n
          BY <3>2
        <4>2. g[i] = state(i) /\ g[i - 1] = state(i - 1)
          BY <4>1
        <4> QED  BY <1>3, <3>2, <4>1, <4>2
      <3> QED  BY <3>1, <3>2
    <2> QED  BY <2>1
  <1>5. equation(read)
    <2> HIDE DEF equation
    <2> QED  BY <1>4
  <1>6. ReadBack = read
    BY DEF ReadBack, turn, start
  <1> HIDE DEF read
  <1>7. \A i \in 0 .. n : read[i] = IF i = 0 THEN start ELSE turn(read[i - 1])
    BY <1>5
  <1> DEFINE T == {i \in Nat : i <= n => read[i] = state(i)}
  <1>8. ASSUME NEW i \in Nat, i \in T
        PROVE  i + 1 \in T
    <2> SUFFICES ASSUME i + 1 <= n
                 PROVE  read[i + 1] = state(i + 1)
      OBVIOUS
    <2>1. i + 1 \in 1 .. n /\ i + 1 \in 0 .. n /\ i + 1 # 0 /\ (i + 1) - 1 = i /\ read[i] = state(i)
      BY <1>1, <1>8
    <2>2. read[i + 1] = turn(read[i])
      BY <1>7, <2>1
    <2>3. turn(state(i)) = state(i + 1)
      BY <1>3, <2>1
    <2> QED  BY <2>1, <2>2, <2>3
  <1>9. \A i \in Nat : i \in T
    <2>1. 0 \in T
      BY <1>1, <1>2, <1>7
    <2> HIDE DEF T
    <2> QED  BY <1>8, <2>1, Induction
  <1>10. \A i \in 0 .. n : read[i] = state(i)
    BY <1>1, <1>9
  <1>11. ASSUME NEW i \in 0 .. n
         PROVE  read[i].out = SubSeq(input, 1, i) /\ read[i].next = 1 + at[i + 1]
    <2>1. read[i] = state(i)
      BY <1>10
    <2> QED  BY <2>1 DEF state
  <1> QED  BY <1>6, <1>11

LEMMA NumbersReadBack == NumbersTyped => StreamReadsBack
  <1> SUFFICES ASSUME NumbersTyped, subject = "numbers"
               PROVE  /\ \A i \in 0 .. Len(input) : ReadBack[i].out = SubSeq(input, 1, i)
                      /\ \A i \in DOMAIN input :
                           ReadBack[i].next = ReadBack[i - 1].next + getVarIntSize[input[i]]
                      /\ ReadBack[Len(input)].next = Len(Bytes) + 1
                      /\ \A i \in DOMAIN Bytes : Bytes[i] \in 0 .. 2 * Radix - 1
    BY DEF StreamReadsBack
  <1> DEFINE n == Len(input)
  <1>1. input \in Seq(Nat) /\ n \in Nat /\ DOMAIN input = 1 .. n
    BY DEF NumbersTyped
  <1>2. PICK at : NumberPlaces(at)
    BY <1>1, PlacesOfNumbers
  <1>3. \A i \in 0 .. n : ReadBack[i].out = SubSeq(input, 1, i) /\ ReadBack[i].next = 1 + at[i + 1]
    BY <1>1, <1>2, StreamRead
  <1>4. /\ Bytes \in Seq(0 .. 2 * Radix - 1) /\ Len(Bytes) = at[n + 1]
    BY <1>1, <1>2, BytesInPlace
  <1>5. \A i \in 1 .. n : at[i] \in Nat /\ at[i + 1] = at[i] + getVarIntSize[input[i]]
    <2>1. ASSUME NEW i \in 1 .. n
          PROVE  at[i] \in Nat /\ at[i + 1] = at[i] + Len(writeVarInt[input[i]])
      BY <1>1, <1>2 DEF NumberPlaces, Places
    <2>2. \A v \in Nat : Len(writeVarInt[v]) = getVarIntSize[v]
      BY Written, Zenon
    <2> QED  BY <1>1, <2>1, <2>2
  <1>6. \A v \in Nat : getVarIntSize[v] \in Nat
    BY SizeEquation
  <1>7. at[n + 1] \in Nat
    BY <1>1, <1>2 DEF NumberPlaces, Places
  <1> HIDE DEF n
  <1>8. ASSUME NEW i \in 1 .. n
        PROVE  ReadBack[i].next = ReadBack[i - 1].next + getVarIntSize[input[i]]
    <2>1. i \in 0 .. n /\ i - 1 \in 0 .. n /\ (i - 1) + 1 = i
      BY <1>1
    <2>2. ReadBack[i].next = 1 + at[i + 1] /\ ReadBack[i - 1].next = 1 + at[i]
      BY <1>3, <2>1
    <2> DEFINE here == at[i]
               there == at[i + 1]
               size == getVarIntSize[input[i]]
    <2>3. here \in Nat /\ there = here + size /\ size \in Nat
      BY <1>1, <1>5, <1>6 DEF n
    <2>4. 1 + there = (1 + here) + size
      <3> HIDE DEF here, there, size
      <3> QED  BY <2>3
    <2> QED  BY <2>2, <2>4
  <1>9. ReadBack[n].next = Len(Bytes) + 1
    <2>1. n \in 0 .. n
      BY <1>1
    <2>2. ReadBack[n].next = 1 + at[n + 1]
      BY <1>3, <2>1
    <2> QED  BY <1>4, <1>7, <2>2
  <1>10. \A i \in 0 .. n : ReadBack[i].out = SubSeq(input, 1, i)
    BY <1>3, Zenon
  <1>11. \A i \in DOMAIN Bytes : Bytes[i] \in 0 .. 2 * Radix - 1
    <2> DEFINE byte == 0 .. 2 * Radix - 1
    <2>1. Bytes \in Seq(byte)
      BY <1>4
    <2> HIDE DEF byte
    <2>2. \A i \in DOMAIN Bytes : Bytes[i] \in byte
      BY <2>1
    <2> QED  BY <2>2 DEF byte
  <1> QED  BY <1>1, <1>8, <1>9, <1>10, <1>11 DEF n

\* Whatever numbers dump writes one after the other, readVarInt, called again and
\* again, takes the same numbers, begins each where the one before ends, and ends
\* where the bytes end; the sizes are those that getVarIntSize reckons.
THEOREM StreamHolds == Spec => []StreamReadsBack
  <1>1. Spec => []NumbersTyped
    BY NumbersInit, NumbersStep, PTL DEF Spec
  <1> QED  BY <1>1, NumbersReadBack, PTL
-----------------------------------------------------------------------------
(* Queries *)

LEMMA IndexSorted == SortedIndex(index, TotalDocs) /\ Holding = Documented(index)
  BY SearchInputAssumption DEF SortedIndex, Documented, Holding

(* What the program does with the text of a query, once the tokenizer has made  *)
(* a sequence of it, of whatever tokens: the answer is sorted and within the    *)
(* documents (findDocument, searcher.cpp:93).                                   *)
THEOREM QuerySorted ==
  ASSUME NEW U, Tokenized(input, Porter) \in Seq(U)
  PROVE  ResultWellFormed
  <1> DEFINE tokens == Tokenized(input, Porter)
             answer == findDocument(tokens, index, TotalDocs)
  <1>1. /\ Range(answer) \subseteq 0 .. TotalDocs - 1
        /\ \A i, j \in DOMAIN answer : i < j => answer[i] < answer[j]
    BY IndexSorted, AnswerWellFormed
  <1>2. Result = answer
    BY DEF Result
  <1> HIDE DEF answer
  <1>3. IsAscending(Result)
    BY <1>1, <1>2 DEF IsAscending, Docs
  <1> QED  BY <1>3 DEF ResultWellFormed

(* And it is what the query denotes.                                            *)
THEOREM QueryAnswered ==
  ASSUME NEW U, Tokenized(input, Porter) \in Seq(U)
  PROVE  AnswerIsMeaning
  <1> DEFINE tokens == Tokenized(input, Porter)
  <1>1. ASSUME ~DoubleNegation(tokens), NEW docs \in Meanings(tokens, Holding, Docs)
        PROVE  Range(Result) = docs
    <2>1. docs \in Meanings(tokens, Documented(index), 0 .. TotalDocs - 1)
      BY <1>1, IndexSorted DEF Docs
    <2> HIDE DEF tokens
    <2>2. Range(findDocument(tokens, index, TotalDocs)) = docs
      BY <1>1, <2>1, IndexSorted, AnswerMeans DEF tokens
    <2> QED  BY <2>2 DEF Result, tokens
  <1> QED  BY <1>1 DEF AnswerIsMeaning
=============================================================================
