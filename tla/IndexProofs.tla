----------------------------- MODULE IndexProofs -----------------------------
(* Theorems about the building of the index in InvertedIndex, for all terms,  *)
(* documents, hashes and sizes, both indexators and every number of documents. *)
EXTENDS InvertedIndex, FiniteSetTheorems, WellFoundedInduction, TLAPS

(* Tokens of a text *)

\* The positions of a term are finitely many.
LEMMA CountTyped ==
  ASSUME NEW text \in Seq(Terms), NEW t
  PROVE  /\ Count(text, t) \in Nat
         /\ Count(text, t) > 0 <=> \E i \in DOMAIN text : text[i] = t
  <1> DEFINE at == {i \in DOMAIN text : text[i] = t}
  <1>1. IsFiniteSet(1 .. Len(text)) /\ at \subseteq 1 .. Len(text)
    BY FS_Interval
  <1>2. IsFiniteSet(at)
    BY <1>1, FS_Subset
  <1>3. Cardinality(at) \in Nat /\ (Cardinality(at) = 0 <=> at = {})
    BY <1>2, FS_CardinalityType, FS_EmptySet
  <1>4. Count(text, t) = Cardinality(at)
    BY DEF Count
  <1> HIDE DEF at
  <1>5. Cardinality(at) > 0 <=> at # {}
    BY <1>3
  <1> QED  BY <1>3, <1>4, <1>5 DEF at

\* A term that occurs has a first occurrence.
LEMMA FirstOccurrence ==
  ASSUME NEW text \in Seq(Terms), NEW k \in DOMAIN text
  PROVE  \E i \in DOMAIN text :
            text[i] = text[k] /\ \A j \in 1 .. i - 1 : text[j] # text[i]
  <1> DEFINE at == {i \in DOMAIN text : text[i] = text[k]}
             less == OpToRel(<, Nat)
  <1>1. IsWellFoundedOn(less, Nat)
    BY NatLessThanWellFounded
  <1>2. at \subseteq Nat /\ at # {}
    OBVIOUS
  <1> HIDE DEF less
  <1>3. PICK i \in at : \A j \in at : <<j, i>> \notin less
    BY <1>1, <1>2, WFMin
  <1>4. ASSUME NEW j \in 1 .. i - 1
        PROVE  text[j] # text[i]
    <2>1. j \in DOMAIN text /\ j \in Nat /\ i \in Nat /\ j < i
      BY <1>3, <1>4
    <2>2. <<j, i>> \in less
      BY <2>1 DEF less, OpToRel
    <2> QED  BY <1>3, <2>1, <2>2
  <1> QED  BY <1>3, <1>4

\* Both indexators pass every term of a text, and no other.
LEMMA AllTermsPassed ==
  ASSUME countsTf \in BOOLEAN, NEW text \in Seq(Terms), NEW t
  PROVE  /\ TokensToAdd(text) \subseteq DOMAIN text
         /\ Count(text, t) > 0 <=> \E i \in TokensToAdd(text) : text[i] = t
  BY CountTyped, FirstOccurrence DEF TokensToAdd
-----------------------------------------------------------------------------
(* The steps that add a document *)

LEMMA DocumentTyped ==
  ASSUME TypeOK, NEW n \in DOMAIN docs
  PROVE  docs[n].text \in Seq(Terms)
  BY IndexAssumption DEF TypeOK

LEMMA PostingTyped ==
  ASSUME TypeOK, NEW t \in Terms, NEW i \in DOMAIN index[t]
  PROVE  index[t][i] \in Posting /\ index[t][i].doc_id \in Nat
  <1>1. index[t] \in Seq(Posting)
    BY DEF TypeOK
  <1>2. index[t][i] \in Posting
    BY <1>1
  <1> QED  BY <1>2 DEF Posting

\* The postings of a term match its documents after a step that changes neither.
LEMMA HoldsSame ==
  ASSUME HoldsAdded, UNCHANGED <<index, countsTf>>, NEW t \in Terms, Added(t)' = Added(t),
         \A d \in Added(t) : docs'[d] = docs[d]
  PROVE  {index'[t][i] : i \in DOMAIN index'[t]} = {PostingOf(d, t)' : d \in Added(t)'}
  <1>1. \A d \in Added(t) : PostingOf(d, t)' = PostingOf(d, t)
    BY DEF PostingOf, Count
  <1>2. {PostingOf(d, t)' : d \in Added(t)} = {PostingOf(d, t) : d \in Added(t)}
    BY <1>1
  <1>3. {index[t][i] : i \in DOMAIN index[t]} = {PostingOf(d, t) : d \in Added(t)}
    BY DEF HoldsAdded
  <1> QED  BY <1>2, <1>3

\* What addDocument makes of a sorted list of earlier and present documents.
LEMMA PostEffect ==
  ASSUME NEW p \in Seq(Posting), NEW d \in Nat, NEW tf \in Nat \ {0},
         \A i \in DOMAIN p : p[i].doc_id <= d,
         \A i, j \in DOMAIN p : i < j => p[i].doc_id < p[j].doc_id
  PROVE  LET q == Post(p, d, tf)
         IN  /\ q \in Seq(Posting)
             /\ \A i \in DOMAIN q : q[i].doc_id <= d
             /\ \A i, j \in DOMAIN q : i < j => q[i].doc_id < q[j].doc_id
             /\ \/ /\ \A i \in DOMAIN p : p[i].doc_id # d
                   /\ {q[i] : i \in DOMAIN q} =
                        {p[i] : i \in DOMAIN p} \cup {[doc_id |-> d, tf |-> tf]}
                \/ q = p /\ \E i \in DOMAIN p : p[i].doc_id = d
  <1> DEFINE e == [doc_id |-> d, tf |-> tf]
             n == Len(p)
  <1>1. e \in Posting /\ n \in Nat /\ DOMAIN p = 1 .. n
    BY DEF Posting
  <1>2. \A i \in DOMAIN p : p[i] \in Posting /\ p[i].doc_id \in Nat
    <2>1. \A i \in DOMAIN p : p[i] \in Posting
      BY <1>1
    <2> QED  BY <2>1 DEF Posting
  <1>3. CASE p # <<>> /\ Last(p).doc_id = d
    <2>1. n \in DOMAIN p /\ p[n].doc_id = d
      BY <1>1, <1>3 DEF Last
    <2>2. Post(p, d, tf) = p
      BY <1>3 DEF Post
    <2> QED  BY <2>1, <2>2
  <1>4. CASE p = <<>> \/ Last(p).doc_id # d
    <2> DEFINE q == Append(p, e)
    <2>1. Post(p, d, tf) = q
      BY <1>4 DEF Post
    <2>2. /\ q \in Seq(Posting) /\ Len(q) = n + 1 /\ DOMAIN q = 1 .. n + 1
          /\ \A i \in 1 .. n : q[i] = p[i]
          /\ q[n + 1] = e
      BY <1>1
    <2>3. \A i \in DOMAIN p : p[i].doc_id < d
      <3> SUFFICES ASSUME NEW i \in DOMAIN p
                   PROVE  p[i].doc_id < d
        OBVIOUS
      <3>1. p # <<>> /\ n \in DOMAIN p /\ p[n].doc_id # d /\ p[n].doc_id <= d
        BY <1>1, <1>4 DEF Last
      <3>2. i = n \/ p[i].doc_id < p[n].doc_id
        BY <1>1, <3>1
      <3> QED  BY <1>2, <3>1, <3>2
    <2>4. e.doc_id = d
      OBVIOUS
    <2>5. \A i \in DOMAIN q : q[i].doc_id <= d
      BY <1>1, <1>2, <2>2, <2>3, <2>4
    <2>6. \A i, j \in DOMAIN q : i < j => q[i].doc_id < q[j].doc_id
      BY <1>1, <2>2, <2>3, <2>4
    <2>7. {q[i] : i \in DOMAIN q} = {p[i] : i \in DOMAIN p} \cup {e}
      BY <1>1, <2>2
    <2>8. \A i \in DOMAIN p : p[i].doc_id # d
      BY <1>2, <2>3
    <2> QED  BY <2>1, <2>2, <2>5, <2>6, <2>7, <2>8
  <1> QED  BY <1>3, <1>4

LEMMA AddUrlStep ==
  ASSUME IInv, NEW d \in Documents, AddUrl(d)
  PROVE  IInv'
  <1> USE DEF IInv
  <1>1. /\ docs \in Seq(Documents) /\ docs' \in Seq(Documents) /\ docs' # <<>>
        /\ Len(docs) \in Nat /\ Len(docs') = Len(docs) + 1
        /\ DOMAIN docs = 1 .. Len(docs) /\ DOMAIN docs' = 1 .. Len(docs')
        /\ docs'[Len(docs')] = d
        /\ \A n \in DOMAIN docs : n \in DOMAIN docs' /\ docs'[n] = docs[n] /\ n < Len(docs')
    BY DEF AddUrl, TypeOK
  <1>2. /\ pc = "ready" /\ pc' = "adding" /\ countsTf' = countsTf /\ index' = index
        /\ rest' = TokensToAdd(d.text) /\ UNCHANGED <<nodes, blocks, mapped>>
    BY DEF AddUrl, fileVars
  <1>3. Last(docs') = d /\ TokensToAdd(d.text)' = TokensToAdd(d.text)
    BY <1>1, <1>2 DEF Last, TokensToAdd
  <1>4. TokensToAdd(d.text) \subseteq DOMAIN d.text
    BY IndexAssumption, AllTermsPassed DEF TypeOK
  <1>5. TypeOK' /\ Adding'
    BY <1>1, <1>2, <1>3, <1>4 DEF TypeOK, Adding
  <1>6. PostingsSorted'
    <2>1. \A t \in Terms : \A i \in DOMAIN index[t] : index[t][i].doc_id \in Nat
      BY PostingTyped
    <2> QED  BY <1>1, <1>2, <2>1 DEF PostingsSorted
  <1>7. ASSUME NEW t \in Terms
        PROVE  {index'[t][i] : i \in DOMAIN index'[t]} = {PostingOf(n, t)' : n \in Added(t)'}
    <2>1. Added(t)' = Added(t)
      <3>1. Len(docs') \notin Added(t)'
        BY <1>1, <1>2, <1>3 DEF Added
      <3>2. \A n \in DOMAIN docs : n \in Added(t)' <=> n \in Added(t)
        <4> SUFFICES ASSUME NEW n \in DOMAIN docs
                     PROVE  n \in Added(t)' <=> n \in Added(t)
          OBVIOUS
        <4>1. n \in DOMAIN docs' /\ docs'[n] = docs[n] /\ n # Len(docs')
          BY <1>1
        <4>2. n \in Added(t)' <=> Count(docs[n].text, t) > 0
          BY <4>1 DEF Added, Count
        <4>3. n \in Added(t) <=> Count(docs[n].text, t) > 0
          BY <1>2 DEF Added
        <4> QED  BY <4>2, <4>3
      <3> QED  BY <1>1, <3>1, <3>2 DEF Added
    <2>2. \A n \in Added(t) : docs'[n] = docs[n]
      BY <1>1 DEF Added
    <2> QED  BY <1>2, <2>1, <2>2, HoldsSame
  <1> QED  BY <1>5, <1>6, <1>7 DEF HoldsAdded

LEMMA AddTokenStep ==
  ASSUME IInv, AddToken
  PROVE  IInv'
  <1> USE DEF IInv
  <1> DEFINE n == Len(docs)
             text == Last(docs).text
  <1>1. PICK i \in rest :
          /\ index' = [index EXCEPT ![text[i]] =
                         Post(@, n - 1, IF countsTf THEN Count(text, text[i]) ELSE 1)]
          /\ nodes' = nodes \cup {text[i]}
          /\ rest' = rest \ {i}
    BY DEF AddToken
  <1> DEFINE t == text[i]
             tf == IF countsTf THEN Count(text, t) ELSE 1
  <1>2. /\ pc = "adding" /\ pc' = "adding" /\ countsTf' = countsTf /\ docs' = docs
        /\ UNCHANGED <<blocks, mapped>>
    BY DEF AddToken, fileVars
  <1>3. n \in Nat /\ n > 0 /\ n \in DOMAIN docs /\ text = docs[n].text /\ DOMAIN docs = 1 .. n
    BY <1>2 DEF Adding, TypeOK, Last
  <1>4. text \in Seq(Terms)
    BY <1>3, DocumentTyped
  <1>5. i \in TokensToAdd(text) /\ i \in DOMAIN text /\ t \in Terms
    BY <1>2, <1>4, AllTermsPassed DEF Adding, TypeOK
  <1>6. tf \in Nat \ {0} /\ n - 1 \in Nat
    BY <1>3, <1>4, <1>5, CountTyped
  <1>7. /\ index[t] \in Seq(Posting)
        /\ \A j \in DOMAIN index[t] : index[t][j].doc_id <= n - 1
        /\ \A j, k \in DOMAIN index[t] : j < k => index[t][j].doc_id < index[t][k].doc_id
    <2>1. index[t] \in Seq(Posting)
      BY <1>5 DEF TypeOK
    <2>2. \A j \in DOMAIN index[t] : index[t][j].doc_id \in Nat
      <3>1. \A j \in DOMAIN index[t] : index[t][j] \in Posting
        BY <2>1
      <3> QED  BY <3>1 DEF Posting
    <2> QED  BY <1>3, <1>5, <2>1, <2>2 DEF PostingsSorted
  <1>8. /\ index'[t] = Post(index[t], n - 1, tf)
        /\ \A s \in Terms : s # t => index'[s] = index[s]
    BY <1>1, <1>5 DEF TypeOK
  <1> HIDE DEF text, t, tf, n
  <1>9. /\ index'[t] \in Seq(Posting)
        /\ \A j \in DOMAIN index'[t] : index'[t][j].doc_id <= n - 1
        /\ \A j, k \in DOMAIN index'[t] : j < k => index'[t][j].doc_id < index'[t][k].doc_id
        /\ \/ /\ \A j \in DOMAIN index[t] : index[t][j].doc_id # n - 1
              /\ {index'[t][j] : j \in DOMAIN index'[t]} =
                   {index[t][j] : j \in DOMAIN index[t]} \cup {[doc_id |-> n - 1, tf |-> tf]}
           \/ index'[t] = index[t] /\ \E j \in DOMAIN index[t] : index[t][j].doc_id = n - 1
    <2> DEFINE q == Post(index[t], n - 1, tf)
    <2>1. /\ q \in Seq(Posting)
          /\ \A j \in DOMAIN q : q[j].doc_id <= n - 1
          /\ \A j, k \in DOMAIN q : j < k => q[j].doc_id < q[k].doc_id
          /\ \/ /\ \A j \in DOMAIN index[t] : index[t][j].doc_id # n - 1
                /\ {q[j] : j \in DOMAIN q} =
                     {index[t][j] : j \in DOMAIN index[t]} \cup {[doc_id |-> n - 1, tf |-> tf]}
             \/ q = index[t] /\ \E j \in DOMAIN index[t] : index[t][j].doc_id = n - 1
      BY <1>6, <1>7, PostEffect, Zenon
    <2>2. index'[t] = q
      BY <1>8
    <2> HIDE DEF q
    <2> QED  BY <2>1, <2>2
  <1>10. TypeOK' /\ Adding'
    <2>1. index' \in [Terms -> Seq(Posting)]
      <3>1. Post(index[t], n - 1, tf) \in Seq(Posting)
        BY <1>8, <1>9
      <3> QED  BY <1>1, <1>5, <3>1 DEF TypeOK, t, tf, n, text
    <2>2. nodes' \subseteq Terms /\ rest' \subseteq rest
      BY <1>1, <1>5 DEF TypeOK, t, text
    <2> QED  BY <1>2, <2>1, <2>2 DEF TypeOK, Adding, TokensToAdd
  <1>11. PostingsSorted'
    <2>1. \A j \in DOMAIN index'[t] : index'[t][j].doc_id < n
      <3>1. \A j \in DOMAIN index'[t] : index'[t][j].doc_id \in Nat
        <4>1. \A j \in DOMAIN index'[t] : index'[t][j] \in Posting
          BY <1>9
        <4> QED  BY <4>1 DEF Posting
      <3> QED  BY <1>3, <1>9, <3>1
    <2> QED  BY <1>2, <1>8, <1>9, <2>1 DEF PostingsSorted, n
  <1>12. ASSUME NEW s \in Terms
         PROVE  {index'[s][j] : j \in DOMAIN index'[s]} = {PostingOf(d, s)' : d \in Added(s)'}
    <2>1. \A d \in DOMAIN docs : PostingOf(d, s)' = PostingOf(d, s)
      BY <1>2 DEF PostingOf, Count
    <2>2. {index[s][j] : j \in DOMAIN index[s]} = {PostingOf(d, s) : d \in Added(s)}
      BY DEF HoldsAdded
    <2>3. \A d \in DOMAIN docs : d # n => (d \in Added(s)' <=> d \in Added(s))
      BY <1>2 DEF Added, Count, n
    <2>4. n \in Added(s) <=> \E j \in TokensToAdd(text) \ rest : text[j] = s
      BY <1>2, <1>3 DEF Added, n
    <2>5. n \in Added(s)' <=> \E j \in TokensToAdd(text) \ rest' : text[j] = s
      BY <1>2, <1>3 DEF Added, TokensToAdd, n
    <2>6. CASE s # t
      <3>1. n \in Added(s)' <=> n \in Added(s)
        BY <1>1, <2>4, <2>5, <2>6 DEF t
      <3>2. Added(s)' = Added(s)
        BY <1>2, <2>3, <3>1 DEF Added
      <3> QED  BY <1>8, <2>1, <2>2, <2>6, <3>2 DEF Added
    <2>7. CASE s = t
      <3>1. n \in Added(s)'
        BY <1>1, <1>5, <2>5, <2>7 DEF t
      <3>2. Added(s)' = Added(s) \cup {n}
        BY <1>2, <1>3, <2>3, <3>1 DEF Added
      <3>3. PostingOf(n, s) = [doc_id |-> n - 1, tf |-> tf]
        BY <1>3, <2>7 DEF PostingOf, tf
      <3>4. {PostingOf(d, s)' : d \in Added(s)'} =
              {PostingOf(d, s) : d \in Added(s)} \cup {PostingOf(n, s)}
        BY <1>3, <2>1, <3>2 DEF Added
      <3>5. CASE \E j \in DOMAIN index[t] : index[t][j].doc_id = n - 1
        <4>1. PICK d \in Added(s) : PostingOf(d, s).doc_id = n - 1
          BY <2>2, <2>7, <3>5
        <4>2. d \in Nat /\ d - 1 = n - 1
          BY <1>3, <4>1 DEF PostingOf, Added
        <4>3. d = n
          BY <1>3, <4>2
        <4>4. index'[t] = index[t]
          BY <1>9, <3>5
        <4> QED  BY <2>2, <2>7, <3>4, <4>1, <4>3, <4>4
      <3>6. CASE \A j \in DOMAIN index[t] : index[t][j].doc_id # n - 1
        <4>1. {index'[t][j] : j \in DOMAIN index'[t]} =
                {index[t][j] : j \in DOMAIN index[t]} \cup {PostingOf(n, s)}
          BY <1>9, <3>3, <3>6
        <4>2. {index[t][j] : j \in DOMAIN index[t]} = {PostingOf(d, s) : d \in Added(s)}
          BY <2>2, <2>7
        <4>3. {index'[t][j] : j \in DOMAIN index'[t]} = {PostingOf(d, s)' : d \in Added(s)'}
          BY <3>4, <4>1, <4>2
        <4> QED  BY <2>7, <4>3
      <3> QED  BY <3>5, <3>6
    <2> QED  BY <2>6, <2>7
  <1> QED  BY <1>10, <1>11, <1>12 DEF HoldsAdded

\* When processTokens has passed every token, the document is as any other.
LEMMA AddEndsStep ==
  ASSUME IInv, AddEnds
  PROVE  IInv'
  <1> USE DEF IInv
  <1>1. /\ pc = "adding" /\ pc' = "ready" /\ rest = {}
        /\ UNCHANGED <<countsTf, docs, rest, nodes, index, blocks, mapped>>
    BY DEF AddEnds, ramVars, fileVars
  <1>2. TypeOK' /\ Adding' /\ PostingsSorted'
    BY <1>1 DEF TypeOK, Adding, PostingsSorted
  <1>3. ASSUME NEW t \in Terms
        PROVE  Added(t)' = Added(t)
    <2>1. \A d \in DOMAIN docs : Count(docs[d].text, t) > 0
                                   <=> \E i \in TokensToAdd(docs[d].text) : docs[d].text[i] = t
      BY DocumentTyped, AllTermsPassed DEF TypeOK
    <2> QED  BY <1>1, <2>1 DEF Added, Count
  <1>4. HoldsAdded'
    BY <1>1, <1>3, HoldsSame DEF HoldsAdded
  <1> QED  BY <1>2, <1>4

LEMMA RestartStep ==
  ASSUME IInv, Restart
  PROVE  IInv'
  <1>1. TypeOK'
    BY DEF IInv, Restart, TypeOK, fileVars, AllBlocks
  <1>2. Adding' /\ PostingsSorted'
    BY DEF Restart, Adding, PostingsSorted
  <1>3. HoldsAdded'
    BY DEF Restart, HoldsAdded, Added
  <1> QED  BY <1>1, <1>2, <1>3 DEF IInv

\* Queries, dump and load leave documents and postings alone.
LEMMA OtherStep ==
  ASSUME IInv, RamQuery \/ DumpDies \/ DumpOpen \/ DumpBlock \/ Load \/ UNCHANGED vars
  PROVE  IInv'
  <1> USE DEF IInv
  <1>1. /\ UNCHANGED <<countsTf, docs, rest, index>> /\ nodes' \subseteq Terms
        /\ blocks' \in 0 .. AllBlocks /\ mapped' \in 0 .. AllBlocks
        /\ pc' \in {"ready", "adding", "dumping", "dead"}
        /\ pc' = "adding" <=> pc = "adding"
    BY DEF RamQuery, DumpDies, DumpOpen, DumpBlock, Load, vars, ramVars, fileVars, TypeOK, AllBlocks
  <1>2. TypeOK' /\ Adding' /\ PostingsSorted'
    BY <1>1 DEF TypeOK, Adding, PostingsSorted, TokensToAdd
  <1>3. \A t \in Terms : Added(t)' = Added(t)
    BY <1>1 DEF Added, Count, TokensToAdd
  <1>4. HoldsAdded'
    BY <1>1, <1>3, HoldsSame DEF HoldsAdded
  <1> QED  BY <1>2, <1>4
-----------------------------------------------------------------------------
(* The theorems *)

LEMMA InitIInv == Init => IInv
  <1> SUFFICES ASSUME Init
               PROVE  IInv
    OBVIOUS
  <1> USE DEF Init
  <1>1. TypeOK
    BY DEF TypeOK, AllBlocks
  <1>2. Adding /\ PostingsSorted /\ HoldsAdded
    BY DEF Adding, PostingsSorted, HoldsAdded, Added
  <1> QED  BY <1>1, <1>2 DEF IInv

LEMMA IInvStep == IInv /\ [Next]_vars => IInv'
  BY AddUrlStep, AddTokenStep, AddEndsStep, RestartStep, OtherStep DEF Next

\* At every moment the index holds exactly what processTokens has passed, in
\* sorted lists, whichever indexator is used and whatever has failed before.
THEOREM Invariance == Spec => []IInv
  BY InitIInv, IInvStep, PTL DEF Spec

\* Postings have positive counts and numbers of documents, and only terms that
\* occur have nodes.
THEOREM TypeCorrect == Spec => []TypeOK
  BY Invariance, PTL DEF IInv

\* The lists are strictly increasing and below the number of documents.
THEOREM Sorted == Spec => []PostingsSorted
  BY Invariance, PTL DEF IInv

\* Between two calls the index is what the documents hold.
THEOREM MatchesDocs == Spec => []IndexMatchesDocs
  <1>1. IInv => IndexMatchesDocs
    BY DEF IInv, IndexMatchesDocs, HoldsAdded, Added, Occurrences
  <1> QED  BY <1>1, Invariance, PTL
=============================================================================
