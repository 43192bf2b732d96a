----------------------------- MODULE EngineProofs ----------------------------
(* The search program uses its index as InvertedIndex says, so that what is    *)
(* proved there holds here; and what it downloads and dumps is what it should  *)
(* be, for every collection, limit and tokenizer.                              *)
EXTENDS SearchEngine, FileProofs, QueryProofs

\* what this program does with the index: no query before the file is mapped
IndexStep ==
  \/ \E d \in Documents : AddUrl(d)
  \/ AddToken \/ AddEnds \/ DumpOpen \/ DumpBlock \/ Restart \/ Load
  \/ UNCHANGED vars

LEMMA EngineStepUsesIndex ==
  ASSUME EngineNext \/ UNCHANGED engineVars
  PROVE  IndexStep
  <1>1. ASSUME NEW d \in Collection, Download(d)
        PROVE  IndexStep
    <2>1. d \in Usable /\ AddUrl(Downloaded(d))
      BY <1>1 DEF Download, Usable
    <2>2. Downloaded(d) \in Documents
      BY <2>1, DownloadAssumption
    <2> QED  BY <2>1, <2>2 DEF IndexStep
  <1>2. CASE \E d \in Collection : Download(d) \/ PassOver(d)
    BY <1>1, <1>2 DEF PassOver, IndexStep
  <1>3. CASE IndexToken \/ DownloadedOne \/ Dump \/ DumpMore \/ Map \/ StartAgain
    BY <1>3 DEF IndexToken, DownloadedOne, Dump, DumpMore, Map, StartAgain, IndexStep
  <1>4. CASE StartDownload \/ StartWithFile \/ CursorEnds \/ MapFails \/ UNCHANGED engineVars
    BY <1>4 DEF StartDownload, StartWithFile, CursorEnds, MapFails, engineVars, IndexStep
  <1> QED  BY <1>2, <1>3, <1>4 DEF EngineNext

\* Whatever the program does with the index is a step of InvertedIndex or leaves
\* the index and its file alone.
THEOREM EngineUsesIndex == EngineSpec => Spec
  <1>1. EngineInit => Init
    BY DEF EngineInit
  <1>2. [EngineNext]_engineVars => [Next]_vars
    BY EngineStepUsesIndex DEF IndexStep, Next
  <1> QED  BY <1>1, <1>2, PTL DEF EngineSpec, Spec
-----------------------------------------------------------------------------
(* The collection and the index *)

LEMMA UsableFinite ==
  ASSUME NEW S \in SUBSET Usable
  PROVE  IsFiniteSet(S) /\ Cardinality(S) \in Nat /\ Cardinality(S) <= Cardinality(Usable)
  <1>1. Usable \subseteq Collection
    BY DEF Usable
  <1>2. IsFiniteSet(Usable)
    BY <1>1, CollectionAssumption, FS_Subset
  <1>3. IsFiniteSet(S) /\ Cardinality(S) <= Cardinality(Usable)
    BY <1>2, FS_Subset
  <1> QED  BY <1>3, FS_CardinalityType

Filled == \A t \in nodes : index[t] # <<>>

Threshold ==
  pc = "dumping" \/ blocks > 0 \/ mapped > 0 =>
    /\ SnapshotOfCollection /\ dumped.index \in [Terms -> Seq(Posting)]
    /\ dumped.kept \subseteq Terms
    /\ \A t \in dumped.kept : 100 * Len(dumped.index[t]) < 95 * Len(dumped.docs)

LEMMA EngineInvParts ==
  EngineInv <=> EngineTypeOK /\ AddedOnce /\ CountInStep /\ Filled /\ Threshold
  BY DEF EngineInv, Filled, Threshold

\* A token gives its term a posting, so that no node is left without one.
LEMMA FilledAfterToken ==
  ASSUME IInv, Filled, AddToken
  PROVE  Filled'
  <1> DEFINE text == Last(docs).text
  <1>1. PICK i \in rest :
          /\ index' = [index EXCEPT ![text[i]] =
                         Post(@, Len(docs) - 1, IF countsTf THEN Count(text, text[i]) ELSE 1)]
          /\ nodes' = nodes \cup {text[i]}
    BY DEF AddToken
  <1>2. text[i] \in Terms
    <2>1. docs # <<>> /\ docs \in Seq(Documents) /\ rest \subseteq TokensToAdd(text)
      BY DEF AddToken, IInv, Adding, TypeOK
    <2>2. text \in Seq(Terms)
      <3>1. Last(docs) \in Documents
        BY <2>1 DEF Last
      <3> QED  BY <3>1, IndexAssumption
    <2> QED  BY <2>1, <2>2, AllTermsPassed DEF IInv, TypeOK
  <1> DEFINE t == text[i]
             p == index[t]
             q == Post(p, Len(docs) - 1, IF countsTf THEN Count(text, t) ELSE 1)
  <1>3. p \in Seq(Posting) /\ index \in [Terms -> Seq(Posting)]
    BY <1>2 DEF IInv, TypeOK
  <1>4. q # <<>>
    <2>1. \A e : Append(p, e) # <<>>
      BY <1>3
    <2> HIDE DEF p
    <2> QED  BY <2>1 DEF Post
  <1>5. index' = [index EXCEPT ![t] = q] /\ nodes' = nodes \cup {t}
    BY <1>1
  <1> HIDE DEF t, q
  <1>6. index'[t] = q /\ \A s \in Terms \ {t} : index'[s] = index[s]
    BY <1>2, <1>3, <1>5 DEF t
  <1>7. nodes \subseteq Terms
    BY DEF IInv, TypeOK
  <1> QED  BY <1>4, <1>5, <1>6, <1>7 DEF Filled

\* The index that dump finds is one of the documents added so far.
LEMMA DumpedSnapshot ==
  ASSUME IInv, AddedOnce, DumpOpen
  PROVE  SnapshotOfCollection'
  <1>1. /\ dumped' = [index |-> index, kept |-> Kept, docs |-> docs]
        /\ pc = "ready"
    BY DEF DumpOpen
  <1>2. /\ docs \in Seq(Documents) /\ index \in [Terms -> Seq(Posting)]
        /\ \A n \in DOMAIN docs : \E d \in Usable : docs[n] = Downloaded(d)
        /\ \A n, k \in DOMAIN docs : docs[n].url = docs[k].url => n = k
    BY DEF IInv, TypeOK, AddedOnce
  <1>3. ASSUME NEW t \in Terms
        PROVE  LET ids == [i \in DOMAIN index[t] |-> index[t][i].doc_id]
               IN  /\ \A i, j \in DOMAIN ids : i < j => ids[i] < ids[j]
                   /\ Range(ids) = {n - 1 : n \in {k \in DOMAIN docs :
                                                     t \in Range(docs[k].text)}}
    <2> DEFINE p == index[t]
               ids == [i \in DOMAIN p |-> p[i].doc_id]
    <2>1. \A i, j \in DOMAIN p : i < j => p[i].doc_id < p[j].doc_id
      BY DEF IInv, PostingsSorted
    <2>2. \A n \in DOMAIN docs : n \in Added(t) <=> t \in Range(docs[n].text)
      <3> SUFFICES ASSUME NEW n \in DOMAIN docs
                   PROVE  n \in Added(t) <=> t \in Range(docs[n].text)
        OBVIOUS
      <3>1. docs[n].text \in Seq(Terms)
        <4>1. docs[n] \in Documents
          BY <1>2
        <4> QED  BY <4>1, IndexAssumption
      <3>2. n \in Added(t) <=> Count(docs[n].text, t) > 0
        BY <1>1 DEF Added
      <3>3. Count(docs[n].text, t) > 0 <=> \E i \in DOMAIN docs[n].text : docs[n].text[i] = t
        BY <3>1, CountTyped
      <3> QED  BY <3>2, <3>3 DEF Range
    <2>3. {p[i] : i \in DOMAIN p} = {PostingOf(n, t) : n \in Added(t)}
      BY DEF IInv, HoldsAdded
    <2>4. \A n : PostingOf(n, t).doc_id = n - 1
      BY DEF PostingOf
    <2> HIDE DEF p
    <2>5. ASSUME NEW x
          PROVE  (\E i \in DOMAIN p : x = p[i].doc_id) <=> (\E n \in Added(t) : x = n - 1)
      <3>1. ASSUME NEW i \in DOMAIN p, x = p[i].doc_id
            PROVE  \E n \in Added(t) : x = n - 1
        <4>1. PICK n \in Added(t) : p[i] = PostingOf(n, t)
          BY <2>3
        <4> QED  BY <2>4, <3>1, <4>1
      <3>2. ASSUME NEW n \in Added(t), x = n - 1
            PROVE  \E i \in DOMAIN p : x = p[i].doc_id
        <4>1. PICK i \in DOMAIN p : p[i] = PostingOf(n, t)
          BY <2>3
        <4> QED  BY <2>4, <3>2, <4>1
      <3> QED  BY <3>1, <3>2
    <2>6. Added(t) = {k \in DOMAIN docs : t \in Range(docs[k].text)}
      BY <2>2 DEF Added
    <2> DEFINE holders == {k \in DOMAIN docs : t \in Range(docs[k].text)}
    <2>7. Range(ids) = {n - 1 : n \in holders}
      <3> HIDE DEF holders
      <3>1. \A x : x \in Range(ids) <=> \E i \in DOMAIN p : x = p[i].doc_id
        BY DEF Range
      <3>2. \A x : x \in {n - 1 : n \in holders} <=> \E n \in Added(t) : x = n - 1
        BY <2>6 DEF holders
      <3>3. \A x : x \in Range(ids) <=> x \in {n - 1 : n \in holders}
        BY <2>5, <3>1, <3>2
      <3> QED  BY <3>3
    <2>8. \A i, j \in DOMAIN ids : i < j => ids[i] < ids[j]
      BY <2>1 DEF p
    <2> QED  BY <2>7, <2>8 DEF p
  <1> QED  BY <1>1, <1>2, <1>3 DEF SnapshotOfCollection

\* Filled and Threshold speak of the index alone.
LEMMA IndexParts ==
  ASSUME IInv, AddedOnce, Filled, Threshold, IndexStep
  PROVE  Filled' /\ Threshold'
  <1>1. Filled'
    <2>1. CASE AddToken
      BY <2>1, FilledAfterToken
    <2>2. CASE Restart
      BY <2>2 DEF Restart, Filled
    <2>3. CASE ~AddToken /\ ~Restart
      <3>1. UNCHANGED <<nodes, index>>
        BY <2>3 DEF IndexStep, AddUrl, AddEnds, DumpOpen, DumpBlock, Load, vars, ramVars
      <3> QED  BY <3>1 DEF Filled
    <2> QED  BY <2>1, <2>2, <2>3
  <1>2. Threshold'
    <2>1. CASE DumpOpen
      <3>1. dumped' = [index |-> index, kept |-> Kept, docs |-> docs]
        BY <2>1 DEF DumpOpen
      <3>2. \A t \in Kept : t \in Terms /\ 100 * Len(index[t]) < 95 * Len(docs)
        BY DEF Kept, TotalDocs, IInv, TypeOK
      <3>3. index \in [Terms -> Seq(Posting)] /\ docs \in Seq(Documents)
        BY DEF IInv, TypeOK
      <3>4. SnapshotOfCollection'
        BY <2>1, DumpedSnapshot
      <3> QED  BY <3>1, <3>2, <3>3, <3>4 DEF Threshold
    <2>2. CASE ~DumpOpen
      <3>1. dumped' = dumped
        BY <2>2 DEF IndexStep, AddUrl, AddToken, AddEnds, DumpBlock, Restart, Load,
                    vars, fileVars
      <3>2. pc' = "dumping" \/ blocks' > 0 \/ mapped' > 0
              => pc = "dumping" \/ blocks > 0 \/ mapped > 0
        BY <2>2 DEF IndexStep, AddUrl, AddToken, AddEnds, DumpBlock, Restart, Load,
                    vars, ramVars, fileVars
      <3>3. SnapshotOfCollection' <=> SnapshotOfCollection
        BY <3>1 DEF SnapshotOfCollection
      <3> QED  BY <3>1, <3>2, <3>3 DEF Threshold
    <2> QED  BY <2>1, <2>2
  <1> QED  BY <1>1, <1>2
-----------------------------------------------------------------------------
(* The download *)

LEMMA StartDownloadStep ==
  ASSUME EngineTypeOK, AddedOnce, CountInStep, StartDownload
  PROVE  EngineTypeOK' /\ AddedOnce' /\ CountInStep'
  <1>1. /\ phase = "start" /\ phase' = "download" /\ unread' = Collection /\ counter' = 0
        /\ limit' \in Limits /\ countsTf' = countsTf /\ docs' = docs /\ docs = <<>> /\ pc' = pc
    BY DEF StartDownload, vars, ramVars, CountInStep
  <1>2. EngineTypeOK'
    BY <1>1 DEF EngineTypeOK
  <1>3. AddedOnce'
    BY <1>1 DEF AddedOnce
  <1>4. Cardinality(Usable \ Collection) = 0
    <2>1. Usable \ Collection = {}
      BY DEF Usable
    <2> QED  BY <2>1, FS_EmptySet
  <1>5. limit' \in Nat /\ Len(docs') = 0
    BY <1>1, CollectionAssumption
  <1> QED  BY <1>1, <1>2, <1>3, <1>4, <1>5 DEF CountInStep

LEMMA DownloadStep ==
  ASSUME EngineTypeOK, AddedOnce, CountInStep, docs \in Seq(Documents),
         NEW d \in Collection, Download(d)
  PROVE  EngineTypeOK' /\ AddedOnce' /\ CountInStep'
  <1>1. /\ phase = "download" /\ phase' = "download" /\ d \in Usable /\ d \in unread
        /\ unread' = unread \ {d} /\ counter' = counter + 1 /\ limit' = limit
        /\ countsTf' = countsTf /\ pc = "ready" /\ pc' = "adding"
        /\ docs' = Append(docs, Downloaded(d))
    BY DEF Download, AddUrl, Usable
  <1>2. /\ counter \in Nat /\ limit \in Nat /\ counter = Len(docs)
        /\ counter = Cardinality(Usable \ unread) /\ (limit # 0 => counter < limit)
    BY <1>1, CollectionAssumption DEF EngineTypeOK, CountInStep
  <1>3. EngineTypeOK'
    BY <1>1, <1>2 DEF EngineTypeOK
  <1>4. /\ Len(docs') = Len(docs) + 1 /\ docs'[Len(docs) + 1] = Downloaded(d)
        /\ \A i \in DOMAIN docs' : i = Len(docs) + 1 \/ (i \in DOMAIN docs /\ docs'[i] = docs[i])
    <2>1. Downloaded(d) \in Documents /\ Len(docs) \in Nat /\ DOMAIN docs = 1 .. Len(docs)
      BY <1>1, DownloadAssumption
    <2>2. /\ Len(docs') = Len(docs) + 1 /\ DOMAIN docs' = 1 .. Len(docs) + 1
          /\ \A i \in 1 .. Len(docs) : docs'[i] = docs[i]
          /\ docs'[Len(docs) + 1] = Downloaded(d)
      BY <1>1, <2>1
    <2> QED  BY <2>1, <2>2
  <1>5. AddedOnce'
    <2>1. \A i \in DOMAIN docs : \E e \in Usable \ unread : docs[i] = Downloaded(e)
      BY <1>1 DEF AddedOnce
    <2>2. \A i \in DOMAIN docs : docs[i].url # Downloaded(d).url
      <3> SUFFICES ASSUME NEW i \in DOMAIN docs
                   PROVE  docs[i].url # Downloaded(d).url
        OBVIOUS
      <3>1. PICK e \in Usable \ unread : docs[i] = Downloaded(e)
        BY <2>1
      <3>2. e # d /\ e \in Collection
        BY <1>1 DEF Usable
      <3>3. e.url # d.url
        BY <3>2, CollectionAssumption
      <3> QED  BY <3>1, <3>3 DEF Downloaded
    <2>3. \A i \in DOMAIN docs' : \E e \in Usable \ unread' : docs'[i] = Downloaded(e)
      <3>1. \A i \in DOMAIN docs : \E e \in Usable \ unread' : docs[i] = Downloaded(e)
        BY <1>1, <2>1
      <3>2. d \in Usable \ unread'
        BY <1>1
      <3> QED  BY <1>4, <3>1, <3>2
    <2>4. \A i, j \in DOMAIN docs' : docs'[i].url = docs'[j].url => i = j
      <3>1. \A i, j \in DOMAIN docs : docs[i].url = docs[j].url => i = j
        BY DEF AddedOnce
      <3> QED  BY <1>4, <2>2, <3>1
    <2> QED  BY <1>1, <2>3, <2>4 DEF AddedOnce
  <1>6. Cardinality(Usable \ unread') = Cardinality(Usable \ unread) + 1
    <2>1. Usable \ unread' = (Usable \ unread) \cup {d} /\ d \notin Usable \ unread
      BY <1>1
    <2>2. IsFiniteSet(Usable \ unread)
      BY UsableFinite
    <2> QED  BY <2>1, <2>2, FS_AddElement
  <1>7. CountInStep'
    <2>1. counter' = Len(docs') /\ counter' = Cardinality(Usable \ unread')
      BY <1>1, <1>2, <1>4, <1>6
    <2>2. limit' # 0 => counter' <= limit'
      BY <1>1, <1>2
    <2> QED  BY <1>1, <2>1, <2>2 DEF CountInStep
  <1> QED  BY <1>3, <1>5, <1>7

LEMMA PassOverStep ==
  ASSUME EngineTypeOK, AddedOnce, CountInStep, NEW d \in Collection, PassOver(d)
  PROVE  EngineTypeOK' /\ AddedOnce' /\ CountInStep'
  <1>1. /\ phase = "download" /\ phase' = "download" /\ d.content = NoText
        /\ unread' = unread \ {d} /\ UNCHANGED <<counter, limit, countsTf, docs, pc>>
    BY DEF PassOver, vars, ramVars
  <1>2. Usable \ unread' = Usable \ unread
    BY <1>1 DEF Usable
  <1> QED  BY <1>1, <1>2 DEF EngineTypeOK, AddedOnce, CountInStep

LEMMA DownloadedOneStep ==
  ASSUME EngineTypeOK, AddedOnce, CountInStep, docs # <<>>, docs \in Seq(Documents), DownloadedOne
  PROVE  EngineTypeOK' /\ AddedOnce' /\ CountInStep'
  <1>1. /\ phase = "download" /\ phase' = IF counter = limit THEN "dump" ELSE "download"
        /\ pc' = "ready" /\ UNCHANGED <<unread, counter, limit, countsTf, docs>>
    BY DEF DownloadedOne, AddEnds, ramVars
  <1>2. /\ counter \in Nat /\ limit \in Nat /\ counter = Len(docs) /\ counter > 0
        /\ counter = Cardinality(Usable \ unread) /\ (limit # 0 => counter <= limit)
    BY <1>1, CollectionAssumption DEF EngineTypeOK, CountInStep
  <1>3. EngineTypeOK' /\ AddedOnce'
    BY <1>1 DEF EngineTypeOK, AddedOnce
  <1>4. /\ Cardinality(Usable) \in Nat /\ Cardinality(Usable \ unread) <= Cardinality(Usable)
    BY UsableFinite
  <1>5. CountInStep'
    BY <1>1, <1>2, <1>4 DEF CountInStep
  <1> QED  BY <1>3, <1>5

LEMMA CursorEndsStep ==
  ASSUME EngineTypeOK, AddedOnce, CountInStep, CursorEnds
  PROVE  EngineTypeOK' /\ AddedOnce' /\ CountInStep'
  <1>1. /\ phase = "download" /\ phase' = "dump" /\ pc = "ready" /\ unread = {}
        /\ UNCHANGED <<unread, counter, limit, countsTf, docs, pc>>
    BY DEF CursorEnds, vars, ramVars
  <1>2. /\ counter \in Nat /\ limit \in Nat /\ counter = Len(docs)
        /\ counter = Cardinality(Usable) /\ (limit # 0 => counter < limit)
    <2>1. Usable \ unread = Usable
      BY <1>1
    <2> QED  BY <1>1, <2>1, CollectionAssumption DEF EngineTypeOK, CountInStep
  <1>3. EngineTypeOK' /\ AddedOnce'
    BY <1>1 DEF EngineTypeOK, AddedOnce
  <1>4. CountInStep'
    BY <1>1, <1>2 DEF CountInStep
  <1> QED  BY <1>3, <1>4

LEMMA StartAgainStep ==
  ASSUME StartAgain
  PROVE  EngineTypeOK' /\ AddedOnce' /\ CountInStep'
  BY DEF StartAgain, Restart, EngineTypeOK, AddedOnce, CountInStep

\* The other steps add no document and begin no phase that counts them.
LEMMA OtherEngineStep ==
  ASSUME EngineTypeOK, AddedOnce, CountInStep,
         \/ StartWithFile \/ IndexToken \/ Dump \/ DumpMore \/ Map \/ MapFails
         \/ UNCHANGED engineVars
  PROVE  EngineTypeOK' /\ AddedOnce' /\ CountInStep'
  <1>1. UNCHANGED <<unread, counter, limit, countsTf, docs>>
    BY DEF StartWithFile, IndexToken, Dump, DumpMore, Map, MapFails, engineVars, vars, ramVars,
           AddToken, DumpOpen, DumpBlock, Load
  <1>2. \/ phase' = phase /\ (phase = "download" => pc' = pc)
        \/ phase # "download" /\ phase' \in {"load", "serve", "ended"}
    BY DEF StartWithFile, IndexToken, Dump, DumpMore, Map, MapFails, engineVars, vars, AddToken
  <1> QED  BY <1>1, <1>2 DEF EngineTypeOK, AddedOnce, CountInStep

LEMMA EngineInvStep ==
  ASSUME IInv, EngineInv, EngineNext \/ UNCHANGED engineVars
  PROVE  EngineInv'
  <1>1. EngineTypeOK /\ AddedOnce /\ CountInStep /\ Filled /\ Threshold
    BY EngineInvParts
  <1>2. Filled' /\ Threshold'
    BY <1>1, EngineStepUsesIndex, IndexParts
  <1>3. docs \in Seq(Documents) /\ (DownloadedOne => docs # <<>>)
    BY DEF IInv, TypeOK, Adding, DownloadedOne, AddEnds
  <1>4. EngineTypeOK' /\ AddedOnce' /\ CountInStep'
    BY <1>1, <1>3, StartDownloadStep, DownloadStep, PassOverStep, DownloadedOneStep,
       CursorEndsStep, StartAgainStep, OtherEngineStep DEF EngineNext
  <1> QED  BY <1>2, <1>4 DEF EngineInv, Filled, Threshold

LEMMA EngineInitInv ==
  ASSUME EngineInit
  PROVE  EngineInv
  BY DEF EngineInit, Init, EngineInv, EngineTypeOK, AddedOnce, CountInStep
-----------------------------------------------------------------------------
(* The theorems *)

\* The index of the program is at all times what InvertedIndex promises, the
\* documents are those the cursor has given, each once, and what dump kept is
\* below its threshold.
THEOREM EngineInvariance == EngineSpec => [](IInv /\ EngineInv)
  <1>1. IInv /\ EngineInv /\ [EngineNext]_engineVars => EngineInv'
    BY EngineInvStep
  <1>2. EngineInit => EngineInv
    BY EngineInitInv
  <1> QED  BY <1>1, <1>2, EngineUsesIndex, Invariance, PTL DEF EngineSpec

\* The download ends with every usable document, each once, or with as many as
\* the limit allows.
THEOREM DownloadComplete == EngineSpec => []DownloadsCollection
  <1>1. EngineInv => DownloadsCollection
    BY DEF EngineInv, AddedOnce, CountInStep, DownloadsCollection
  <1> QED  BY <1>1, EngineInvariance, PTL

\* dump meets no term without postings.
THEOREM DumpSafe == EngineSpec => []DumpFindsPostings
  <1>1. EngineInv => DumpFindsPostings
    BY DEF EngineInv, DumpFindsPostings
  <1> QED  BY <1>1, EngineInvariance, PTL

\* The program finds in a whole file what its index, or that of an earlier
\* process, held when the file was written.
THEOREM EngineRoundTrip == EngineSpec => []RoundTrip
  BY EngineUsesIndex, FileRoundTrip, PTL

\* In the program the index keeps its promise, also as it is read from the file.
THEOREM EngineKeepsPromise == EngineSpec => KeepsPromise /\ Reading!Spec
  BY EngineUsesIndex, PromiseKept, PromiseRead, PTL

\* No document is ranked lower for holding a term of the query.
THEOREM IdfSafe == EngineSpec => []IdfNonNegative
  <1>1. EngineInv /\ RoundTrip => IdfNonNegative
    <2> SUFFICES ASSUME EngineInv, RoundTrip, Serving, NEW t \in Terms, getPostings(t) # <<>>
                 PROVE  1 + Len(getPostings(t)) <= Len(image.urls)
      BY DEF IdfNonNegative
    <2>1. mapped = AllBlocks /\ mapped > 0
      BY DEF Serving, AllBlocks
    <2>2. /\ Len(image.urls) = Len(dumped.docs)
          /\ getPostings(t) = IF t \in dumped.kept THEN dumped.index[t] ELSE <<>>
      BY <2>1 DEF RoundTrip, Answers
    <2>3. t \in dumped.kept /\ getPostings(t) = dumped.index[t]
      BY <2>2
    <2>4. /\ 100 * Len(dumped.index[t]) < 95 * Len(dumped.docs)
          /\ dumped.index \in [Terms -> Seq(Posting)] /\ dumped.docs \in Seq(Documents)
      BY <2>1, <2>3 DEF EngineInv, SnapshotOfCollection
    <2>5. Len(dumped.index[t]) \in Nat /\ Len(dumped.docs) \in Nat
      <3>1. dumped.index[t] \in Seq(Posting)
        BY <2>4
      <3> QED  BY <2>4, <3>1
    <2>6. 1 + Len(dumped.index[t]) <= Len(dumped.docs)
      BY <2>4, <2>5
    <2> QED  BY <2>2, <2>3, <2>6
  <1> QED  BY <1>1, EngineInvariance, EngineRoundTrip, PTL
-----------------------------------------------------------------------------
(* From the collection to the answer *)

\* the documents in which dump found t
NumbersOf(t) == {n - 1 : n \in {k \in DOMAIN dumped.docs : t \in Range(dumped.docs[k].text)}}

\* what a mapped whole file holds
LEMMA FileServed ==
  ASSUME EngineInv, RoundTrip, Serving
  PROVE  /\ SnapshotOfCollection /\ dumped.kept \subseteq Terms
         /\ Len(image.urls) = Len(dumped.docs)
         /\ \A n \in DOMAIN dumped.docs : getUrl(n - 1) = dumped.docs[n].url
         /\ dumped.index \in [Terms -> Seq(Posting)]
         /\ \A t \in Terms :
              getPostings(t) = IF t \in dumped.kept THEN dumped.index[t] ELSE <<>>
  <1>1. mapped = AllBlocks /\ mapped > 0
    BY DEF Serving, AllBlocks
  <1>2. Answers
    BY <1>1 DEF RoundTrip
  <1> QED  BY <1>1, <1>2 DEF EngineInv, Answers

LEMMA ListedNumbers ==
  ASSUME EngineInv, RoundTrip, Serving, NEW t \in Terms
  PROVE  /\ \A i, j \in DOMAIN Listed[t] : i < j => Listed[t][i] < Listed[t][j]
         /\ Listed[t] \in Seq(Nat)
         /\ Range(Listed[t]) = IF t \in dumped.kept THEN NumbersOf(t) ELSE {}
  <1> DEFINE p == getPostings(t)
             l == Listed[t]
  <1>1. l = [i \in DOMAIN p |-> p[i].doc_id]
    BY DEF Listed
  <1>2. CASE t \in dumped.kept
    <2> DEFINE q == dumped.index[t]
    <2>1. p = q /\ q \in Seq(Posting)
      BY <1>2, FileServed
    <2>2. l = [i \in DOMAIN q |-> q[i].doc_id]
      BY <1>1, <2>1
    <2>3. SnapshotOfCollection
      BY FileServed
    <2>4. \A i, j \in DOMAIN l : i < j => l[i] < l[j]
      BY <2>2, <2>3 DEF SnapshotOfCollection
    <2>5. Range(l) = NumbersOf(t)
      BY <2>2, <2>3 DEF SnapshotOfCollection, NumbersOf
    <2>6. l \in Seq(Nat)
      <3> HIDE DEF q, l
      <3>1. \A i \in 1 .. Len(q) : q[i].doc_id \in Nat
        <4>1. \A i \in 1 .. Len(q) : q[i] \in Posting
          BY <2>1
        <4>2. \A x \in Posting : x.doc_id \in Nat
          BY DEF Posting
        <4> QED  BY <4>1, <4>2
      <3>2. l \in [1 .. Len(q) -> Nat] /\ Len(q) \in Nat
        BY <2>1, <2>2, <3>1
      <3> QED  BY <3>2
    <2> QED  BY <1>2, <2>4, <2>5, <2>6
  <1>3. CASE t \notin dumped.kept
    <2>1. p = <<>>
      BY <1>3, FileServed
    <2>2. l = <<>>
      BY <1>1, <2>1
    <2> HIDE DEF l
    <2> QED  BY <1>3, <2>2 DEF Range, l
  <1> QED  BY <1>2, <1>3

LEMMA FileSorted ==
  ASSUME EngineInv, RoundTrip, Serving
  PROVE  SortedIndex(Listed, Len(image.urls))
  <1> DEFINE total == Len(image.urls)
  <1>1. total = Len(dumped.docs) /\ dumped.docs \in Seq(Documents)
    BY FileServed DEF SnapshotOfCollection
  <1>2. total \in Nat /\ DOMAIN dumped.docs = 1 .. total
    BY <1>1
  <1> HIDE DEF total
  <1>3. ASSUME NEW t \in Terms
        PROVE  Listed[t] \in Seq(0 .. total - 1)
    <2> DEFINE l == Listed[t]
    <2>1. l \in Seq(Nat) /\ Range(l) = IF t \in dumped.kept THEN NumbersOf(t) ELSE {}
      BY ListedNumbers
    <2>2. NumbersOf(t) \subseteq 0 .. total - 1
      BY <1>2 DEF NumbersOf
    <2> HIDE DEF l
    <2>3. \A i \in 1 .. Len(l) : l[i] \in Range(l)
      BY <2>1 DEF Range
    <2>4. \A i \in 1 .. Len(l) : l[i] \in 0 .. total - 1
      BY <2>1, <2>2, <2>3
    <2> DEFINE S == 0 .. total - 1
    <2>5. \A i \in 1 .. Len(l) : l[i] \in S
      BY <2>4
    <2> HIDE DEF S
    <2>6. l \in Seq(S)
      BY <2>1, <2>5
    <2> QED  BY <2>6 DEF l, S
  <1>4. \A t \in Terms : \A i, j \in DOMAIN Listed[t] : i < j => Listed[t][i] < Listed[t][j]
    BY ListedNumbers
  <1>5. DOMAIN Listed = Terms
    BY DEF Listed
  <1> QED  BY <1>2, <1>3, <1>4, <1>5 DEF SortedIndex, total

\* the document of the collection that has this number in the file
DocumentAt ==
  [k \in 0 .. Len(image.urls) - 1 |-> CHOOSE d \in Usable : dumped.docs[k + 1] = Downloaded(d)]

LEMMA DocumentOfNumber ==
  ASSUME EngineInv, RoundTrip, Serving, NEW k \in 0 .. Len(image.urls) - 1
  PROVE  /\ DocumentAt[k] \in Usable /\ dumped.docs[k + 1] = Downloaded(DocumentAt[k])
         /\ k + 1 \in DOMAIN dumped.docs /\ getUrl(k) = DocumentAt[k].url
  <1>1. Len(image.urls) = Len(dumped.docs) /\ dumped.docs \in Seq(Documents)
    BY FileServed DEF SnapshotOfCollection
  <1>2. k + 1 \in DOMAIN dumped.docs /\ (k + 1) - 1 = k
    BY <1>1
  <1>3. \E d \in Usable : dumped.docs[k + 1] = Downloaded(d)
    BY <1>2, FileServed DEF SnapshotOfCollection
  <1>4. DocumentAt[k] \in Usable /\ dumped.docs[k + 1] = Downloaded(DocumentAt[k])
    BY <1>3 DEF DocumentAt
  <1>5. getUrl(k) = dumped.docs[k + 1].url
    BY <1>2, FileServed
  <1> QED  BY <1>2, <1>4, <1>5 DEF Downloaded

LEMMA DownloadedOnce ==
  ASSUME NEW d \in Usable, NEW e \in Usable, Downloaded(d).url = Downloaded(e).url
  PROVE  d = e
  <1>1. d \in Collection /\ e \in Collection /\ d.url = e.url
    BY DEF Usable, Downloaded
  <1> QED  BY <1>1, CollectionAssumption

\* The numbers of the file stand for the indexed documents of the collection.
LEMMA FileRenames ==
  ASSUME EngineInv, RoundTrip, Serving
  PROVE  Renames(DocumentAt, Documented(Listed), 0 .. Len(image.urls) - 1, Holders, Indexed)
  <1> DEFINE D == 0 .. Len(image.urls) - 1
             phi == DocumentAt
  <1>1. /\ Len(image.urls) = Len(dumped.docs) /\ dumped.docs \in Seq(Documents)
        /\ \A n, k \in DOMAIN dumped.docs : dumped.docs[n].url = dumped.docs[k].url => n = k
    BY FileServed DEF SnapshotOfCollection
  <1>2. \A n \in DOMAIN dumped.docs : n - 1 \in D /\ (n - 1) + 1 = n
    BY <1>1
  <1>3. \A k \in D : /\ phi[k] \in Usable /\ dumped.docs[k + 1] = Downloaded(phi[k])
                     /\ k + 1 \in DOMAIN dumped.docs /\ k \in Int
    BY DocumentOfNumber
  <1> HIDE DEF D, phi
  <1>4. \A k \in D : phi[k] \in Indexed
    BY <1>3 DEF Indexed, Range
  <1>5. ASSUME NEW d \in Indexed
        PROVE  \E k \in D : d = phi[k]
    <2>1. d \in Usable /\ Downloaded(d) \in Range(dumped.docs)
      BY DEF Indexed
    <2>2. PICK n \in DOMAIN dumped.docs : dumped.docs[n] = Downloaded(d)
      BY <2>1 DEF Range
    <2>3. n - 1 \in D /\ dumped.docs[n] = Downloaded(phi[n - 1]) /\ phi[n - 1] \in Usable
      BY <1>2, <1>3
    <2>4. d = phi[n - 1]
      BY <2>1, <2>2, <2>3, DownloadedOnce
    <2> QED  BY <2>3, <2>4
  <1>6. Indexed = ImageOf(phi, D)
    BY <1>4, <1>5 DEF ImageOf
  <1>7. OneToOne(phi, D)
    <2> SUFFICES ASSUME NEW k \in D, NEW l \in D, phi[k] = phi[l]
                 PROVE  k = l
      BY DEF OneToOne
    <2>1. dumped.docs[k + 1] = dumped.docs[l + 1]
      BY <1>3
    <2>2. k + 1 = l + 1
      BY <1>1, <1>3, <2>1
    <2> QED  BY <1>3, <2>2
  <1>8. ASSUME NEW t
        PROVE  Held(Holders, t) = ImageOf(phi, Held(Documented(Listed), t))
    <2>1. CASE t \in dumped.kept
      <3>1. t \in Terms
        BY <2>1, FileServed
      <3>2. Held(Documented(Listed), t) = NumbersOf(t)
        <4>1. t \in DOMAIN Listed
          BY <3>1 DEF Listed
        <4>2. Range(Listed[t]) = NumbersOf(t)
          BY <2>1, <3>1, ListedNumbers
        <4>3. Held(Documented(Listed), t) = Range(Listed[t])
          BY <4>1 DEF Held, Documented
        <4> QED  BY <4>2, <4>3
      <3>3. Held(Holders, t) = {d \in Indexed : t \in Range(TokensOf[d])}
        BY <2>1 DEF Held, Holders
      <3>4. \A k \in D : dumped.docs[k + 1].text = TokensOf[phi[k]]
        <4>1. \A d : Downloaded(d).text = TokensOf[d]
          BY DEF Downloaded
        <4> QED  BY <1>3, <4>1
      <3>5. ASSUME NEW k
            PROVE  k \in NumbersOf(t) <=> k \in D /\ t \in Range(TokensOf[phi[k]])
        <4>1. ASSUME k \in NumbersOf(t)
              PROVE  k \in D /\ t \in Range(TokensOf[phi[k]])
          <5>1. PICK n \in DOMAIN dumped.docs : t \in Range(dumped.docs[n].text) /\ k = n - 1
            BY <4>1 DEF NumbersOf
          <5>2. k \in D /\ k + 1 = n
            BY <1>2, <5>1
          <5> QED  BY <3>4, <5>1, <5>2
        <4>2. ASSUME k \in D, t \in Range(TokensOf[phi[k]])
              PROVE  k \in NumbersOf(t)
          <5>1. k + 1 \in DOMAIN dumped.docs /\ (k + 1) - 1 = k
            BY <1>3, <4>2
          <5>2. t \in Range(dumped.docs[k + 1].text)
            BY <3>4, <4>2
          <5> QED  BY <5>1, <5>2 DEF NumbersOf
        <4> QED  BY <4>1, <4>2
      <3>6. ASSUME NEW d
            PROVE  d \in {e \in Indexed : t \in Range(TokensOf[e])}
                     <=> \E k \in NumbersOf(t) : d = phi[k]
        BY <1>4, <1>5, <3>5
      <3>7. {e \in Indexed : t \in Range(TokensOf[e])} = ImageOf(phi, NumbersOf(t))
        BY <3>6 DEF ImageOf
      <3> QED  BY <3>2, <3>3, <3>7
    <2>2. CASE t \notin dumped.kept
      <3>1. Held(Holders, t) = {}
        BY <2>2 DEF Held, Holders
      <3>2. Held(Documented(Listed), t) = {}
        <4>1. CASE t \in Terms
          <5>1. t \in DOMAIN Listed /\ Range(Listed[t]) = {}
            BY <2>2, <4>1, ListedNumbers DEF Listed
          <5> QED  BY <5>1 DEF Held, Documented
        <4>2. CASE t \notin Terms
          BY <4>2 DEF Held, Documented, Listed
        <4> QED  BY <4>1, <4>2
      <3> QED  BY <3>1, <3>2 DEF ImageOf
    <2> QED  BY <2>1, <2>2
  <1> QED  BY <1>6, <1>7, <1>8 DEF Renames, D, phi

\* Whatever the collection, the limit, the hashes and the order of the download, and
\* however often the program was killed and started before, a query that is an
\* expression is answered from a whole file with the URLs of exactly the downloaded
\* documents that satisfy it (main of searcher/lab3/searcher.cpp:17).
THEOREM AnswersHold == EngineSpec => []AnswerFromCollection
  <1>1. EngineInv /\ RoundTrip => AnswerFromCollection
    <2> SUFFICES ASSUME EngineInv, RoundTrip, Serving, NEW q \in Queries,
                        ~DoubleNegation(ParsedQuery[q]),
                        NEW found \in Meanings(ParsedQuery[q], Holders, Indexed)
                 PROVE  AnswerURLs(q) = {d.url : d \in found}
      BY DEF AnswerFromCollection
    <2> DEFINE tokens == ParsedQuery[q]
               total == Len(image.urls)
               answer == findDocument(tokens, Listed, total)
    <2>1. tokens \in Seq(STRING)
      BY QueriesAssumption
    <2>2. SortedIndex(Listed, total)
      BY FileSorted
    <2>3. Renames(DocumentAt, Documented(Listed), 0 .. total - 1, Holders, Indexed)
      BY FileRenames
    <2>4. AnswerURLs(q) = {getUrl(answer[i]) : i \in DOMAIN answer}
      BY DEF AnswerURLs
    <2>5. \A k \in 0 .. total - 1 : getUrl(k) = DocumentAt[k].url
      BY DocumentOfNumber
    <2>6. ~DoubleNegation(tokens) /\ found \in Meanings(tokens, Holders, Indexed)
      OBVIOUS
    <2> HIDE DEF tokens, total
    <2>7. found = ImageOf(DocumentAt, Range(answer))
      BY <2>1, <2>2, <2>3, <2>6, AnswerNames
    <2>8. Range(answer) \subseteq 0 .. total - 1
      BY <2>1, <2>2, AnswerWellFormed
    <2> HIDE DEF answer
    <2>9. \A i \in DOMAIN answer : getUrl(answer[i]) = DocumentAt[answer[i]].url
      BY <2>5, <2>8 DEF Range
    <2>10. {getUrl(answer[i]) : i \in DOMAIN answer}
             = {DocumentAt[answer[i]].url : i \in DOMAIN answer}
      BY <2>9
    <2>11. {d.url : d \in ImageOf(DocumentAt, Range(answer))}
             = {DocumentAt[answer[i]].url : i \in DOMAIN answer}
      BY DEF ImageOf, Range
    <2> QED  BY <2>4, <2>7, <2>10, <2>11
  <1> QED  BY <1>1, EngineInvariance, EngineRoundTrip, PTL
=============================================================================
