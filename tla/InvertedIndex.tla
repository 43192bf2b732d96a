--------------------------- MODULE InvertedIndex ----------------------------
(* The inverted index of searcher/: RamIndexSource filled by an indexator,   *)
(* its dump to a file, and MappedIndexSource, which answers queries from the *)
(* file. The process can be killed at any moment, also inside dump.          *)
(*                                                                           *)
(* A document is its URL and the sequence of its tokens. The offsets of the   *)
(* file count from the end of the directory.                                 *)
EXTENDS Integers, Sequences, FiniteSets, SequencesExt, VarInt

CONSTANTS
  Terms,      \* the tokens of the documents and queries
  Documents,  \* the documents that may be added: [url, text], text being tokens
  MaxDocs,    \* bound: documents added in one run
  TermSize,   \* term.size()
  stringHash, \* the 32-bit hash of a term: different terms may share it
  NoFile      \* no file has been written, or none is mapped

ASSUME IndexAssumption ==
  /\ IsFiniteSet(Terms) /\ \A d \in Documents : d.text \in Seq(Terms)
  /\ MaxDocs \in Nat
  /\ TermSize \in [Terms -> Nat] /\ stringHash \in [Terms -> Nat]

VARIABLES
  pc,      \* what the process does: "ready", "adding", "dumping", "dead"
  countsTf, \* the process uses TFIDFIndexator, not BooleanIndexator
  docs,    \* the documents added, by number from 1 (doc_id is one less)
  rest,    \* positions of the last document that processTokens has still to add
  nodes,   \* the terms that have a node in the hash table
  index,   \* the postings of each term
  image,   \* what dump writes into the file
  blocks,  \* how many of the four blocks of image are in the file
  mapped,  \* the blocks of the file when it was mapped, 0 if it is not
  dumped   \* history: the index at the last dump, and the terms it keeps

ramVars == <<docs, rest, nodes, index>>
fileVars == <<image, blocks, dumped>>
vars == <<pc, countsTf, ramVars, fileVars, mapped>>

Posting == [doc_id : Nat, tf : Nat \ {0}]
TotalDocs == Len(docs)
AllBlocks == 4

Init ==
  /\ pc = "ready" /\ countsTf \in BOOLEAN
  /\ docs = <<>> /\ rest = {} /\ nodes = {} /\ index = [t \in Terms |-> <<>>]
  /\ image = NoFile /\ blocks = 0 /\ mapped = 0 /\ dumped = NoFile
-----------------------------------------------------------------------------
(* RamIndexSource and the indexators *)

Count(text, t) == Cardinality({i \in DOMAIN text : text[i] = t})

\* The boolean indexator adds every token; the other one adds each term once,
\* with its count, in the order of its own hash table.
TokensToAdd(text) ==
  IF countsTf THEN {i \in DOMAIN text : \A j \in 1 .. i - 1 : text[j] # text[i]}
              ELSE DOMAIN text

\* IIndexator::addDocument up to the loop of processTokens
AddUrl(d) ==
  /\ pc = "ready" /\ mapped = 0 /\ Len(docs) < MaxDocs
  /\ docs' = Append(docs, d) /\ rest' = TokensToAdd(d.text)
  /\ pc' = "adding"
  /\ UNCHANGED <<countsTf, nodes, index, fileVars, mapped>>

\* (error) a term that has postings gets no more
PostOnce(postings, d, tf) ==
  IF postings = <<>> THEN Append(postings, [doc_id |-> d, tf |-> tf]) ELSE postings

\* (error) no comparison with the last posting
PostAlways(postings, d, tf) == Append(postings, [doc_id |-> d, tf |-> tf])

\* (error) a token that occurs once in a document is not worth a posting
PostRepeated(postings, d, tf) ==
  IF tf > 1 THEN Append(postings, [doc_id |-> d, tf |-> tf]) ELSE postings

\* RamIndexSource::addDocument
Post(postings, d, tf) ==
  IF postings = <<>> \/ Last(postings).doc_id # d
    THEN Append(postings, [doc_id |-> d, tf |-> tf])
    ELSE postings

\* One turn of the loop of processTokens. The tokens of a document come in any
\* order here: no two of them change the same list, or the second changes nothing.
AddToken ==
  /\ pc = "adding"
  /\ \E i \in rest :
       LET text == Last(docs).text
           t == text[i]
       IN  /\ index' = [index EXCEPT ![t] =
                          Post(@, Len(docs) - 1, IF countsTf THEN Count(text, t) ELSE 1)]
           /\ nodes' = nodes \cup {t}
           /\ rest' = rest \ {i}
  /\ UNCHANGED <<countsTf, pc, docs, fileVars, mapped>>

AddEnds ==
  /\ pc = "adding" /\ rest = {}
  /\ pc' = "ready"
  /\ UNCHANGED <<countsTf, ramVars, fileVars, mapped>>

\* RamIndexSource::getPostings: getNode makes the node it does not find
RamQuery ==
  /\ pc = "ready" /\ mapped = 0
  /\ \E t \in Terms : nodes' = nodes \cup {t}
  /\ UNCHANGED <<countsTf, pc, docs, rest, index, fileVars, mapped>>
-----------------------------------------------------------------------------
(* dump *)

\* (error) a term of nearly all documents is kept
KeptFrequent ==
  {t \in nodes : Len(index[t]) > 1 \/ index[t][1].tf > 1}

\* the terms that go into the file
Kept ==
  {t \in nodes : /\ Len(index[t]) > 1 \/ index[t][1].tf > 1
                 /\ 100 * Len(index[t]) < 95 * TotalDocs}

\* (error) the terms stay in the order of the hash table
UnsortedTerms(terms) ==
  {s \in [1 .. Cardinality(terms) -> terms] : {s[i] : i \in DOMAIN s} = terms}

\* std::sort by hash leaves the order of equal hashes open
SortedByHash(terms) ==
  {s \in [1 .. Cardinality(terms) -> terms] :
     /\ {s[i] : i \in DOMAIN s} = terms
     /\ \A i \in 1 .. Cardinality(terms) - 1 : stringHash[s[i]] <= stringHash[s[i + 1]]}

\* the difference to the number of the document before
Delta(postings, i) ==
  postings[i].doc_id - (IF i = 1 THEN 0 ELSE postings[i - 1].doc_id)

\* a uint32_t, lowest byte first
Word(n) == <<n, 0, 0, 0>>

Encoded(postings, zip) ==
  FlattenSeq([i \in DOMAIN postings |->
    IF zip THEN writeVarInt[Delta(postings, i)] \o writeVarInt[postings[i].tf]
           ELSE Word(postings[i].doc_id) \o Word(postings[i].tf)])

\* where each item of a row that starts at start begins, and where the row ends
Offsets(start, sizes) ==
  LET at[i \in 1 .. Len(sizes) + 1] ==
        IF i = 1 THEN start ELSE at[i - 1] + sizes[i - 1]
  IN  at

\* (error) the size of the packed numbers of the documents alone
EncodedSizeOfIds(postings, zip) ==
  IF zip THEN Offsets(0, [i \in DOMAIN postings |->
                getVarIntSize[Delta(postings, i)]])[Len(postings) + 1]
         ELSE Len(postings) * 4 * 2

\* the size of one posting of a packed list
PostingSize(postings, i) ==
  getVarIntSize[Delta(postings, i)] + getVarIntSize[postings[i].tf]

\* the size dump reckons with when it fills the directory
EncodedSize(postings, zip) ==
  IF zip THEN Offsets(0, [i \in DOMAIN postings |-> PostingSize(postings, i)])
                [Len(postings) + 1]
         ELSE Len(postings) * 4 * 2

Image(terms, zip) ==
  LET n == Len(terms)
      termAt == Offsets(0, [i \in 1 .. n |-> TermSize[terms[i]] + 1])
      dataAt == Offsets(termAt[n + 1],
                        [i \in 1 .. n |-> EncodedSize(index[terms[i]], zip)])
  IN  [version   |-> IF zip THEN 2 ELSE 1,
       urls      |-> [i \in DOMAIN docs |-> docs[i].url],
       directory |-> [i \in 1 .. n |-> [term_hash   |-> stringHash[terms[i]],
                                        term_offset |-> termAt[i],
                                        data_offset |-> dataAt[i],
                                        doc_count   |-> Len(index[terms[i]])]],
       strings   |-> [o \in {termAt[i] : i \in 1 .. n} |->
                        terms[CHOOSE i \in 1 .. n : termAt[i] = o]],
       dataStart |-> termAt[n + 1],
       data      |-> FlattenSeq([i \in 1 .. n |-> Encoded(index[terms[i]], zip)])]

\* the condition of the traverse callback reads docs[0]: a node without
\* postings is read through a null pointer, and the process dies, after the
\* file has been truncated
DumpDies ==
  /\ pc = "ready" /\ mapped = 0
  /\ \E t \in nodes : index[t] = <<>>
  /\ pc' = "dead" /\ blocks' = 0
  /\ UNCHANGED <<countsTf, ramVars, image, dumped, mapped>>

\* the file is opened, which truncates it, and the terms are chosen and sorted
DumpOpen ==
  /\ pc = "ready" /\ mapped = 0
  /\ \A t \in nodes : index[t] # <<>>
  /\ \E zip \in BOOLEAN : \E order \in SortedByHash(Kept) : image' = Image(order, zip)
  /\ blocks' = 0 /\ dumped' = [index |-> index, kept |-> Kept, docs |-> docs]
  /\ pc' = "dumping"
  /\ UNCHANGED <<countsTf, ramVars, mapped>>

\* header with URLs, then directory, strings and data reach the file
DumpBlock ==
  /\ pc = "dumping" /\ blocks < AllBlocks
  /\ blocks' = blocks + 1
  /\ pc' = IF blocks' = AllBlocks THEN "ready" ELSE "dumping"
  /\ UNCHANGED <<countsTf, ramVars, image, dumped, mapped>>

\* The process is killed, or has died; another one starts with an empty index.
Restart ==
  /\ pc' = "ready" /\ countsTf' \in BOOLEAN /\ mapped' = 0
  /\ docs' = <<>> /\ rest' = {} /\ nodes' = {} /\ index' = [t \in Terms |-> <<>>]
  /\ UNCHANGED fileVars
-----------------------------------------------------------------------------
(* MappedIndexSource *)

\* (error) the file is mapped while it is written
LoadWhileDumping ==
  /\ pc \in {"ready", "dumping"} /\ mapped = 0 /\ blocks > 0
  /\ mapped' = blocks
  /\ UNCHANGED <<countsTf, pc, ramVars, fileVars>>

\* load: an empty file cannot be mapped; the magic number is in the first block
Load ==
  /\ pc = "ready" /\ mapped = 0 /\ blocks > 0
  /\ mapped' = blocks
  /\ UNCHANGED <<countsTf, pc, ramVars, fileVars>>

\* (error) the documents in the table count from 1
UrlFromOne(doc_id) == IF doc_id \in DOMAIN image.urls THEN image.urls[doc_id] ELSE ""

\* the URL of the document with this number
getUrl(doc_id) == IF doc_id + 1 \in DOMAIN image.urls THEN image.urls[doc_id + 1] ELSE ""

\* std::lower_bound, then the entries with the same hash
findTermEntry(term) ==
  LET dir == image.directory
      h == stringHash[term]
      from == CHOOSE i \in 1 .. Len(dir) + 1 :
                /\ \A j \in 1 .. i - 1 : dir[j].term_hash < h
                /\ i <= Len(dir) => dir[i].term_hash >= h
  IN  {i \in from .. Len(dir) :
         /\ \A j \in from .. i : dir[j].term_hash = h
         /\ image.strings[dir[i].term_offset] = term}

\* the postings read from position p of the data, n of them, in version 2
Unzipped(data, p, n) ==
  LET read[i \in 0 .. n] ==
        IF i = 0 THEN [at |-> p, id |-> 0, out |-> <<>>]
        ELSE LET delta == readVarInt(data, read[i - 1].at)
                 tf == readVarInt(data, delta.next)
                 id == read[i - 1].id + delta.value
             IN  [at |-> tf.next, id |-> id,
                  out |-> Append(read[i - 1].out, [doc_id |-> id, tf |-> tf.value])]
  IN  read[n].out

getPostings(term) ==
  LET found == findTermEntry(term)
      entry == image.directory[CHOOSE i \in found : \A j \in found : i <= j]
      p == entry.data_offset - image.dataStart + 1
  IN  IF found = {} THEN <<>>
      ELSE IF image.version = 1
        THEN [i \in 1 .. entry.doc_count |->
                [doc_id |-> image.data[p + 8 * (i - 1)],
                 tf |-> image.data[p + 8 * (i - 1) + 4]]]
        ELSE Unzipped(image.data, p, entry.doc_count)
-----------------------------------------------------------------------------
Next ==
  \/ \E d \in Documents : AddUrl(d)
  \/ AddToken \/ AddEnds \/ RamQuery
  \/ DumpDies \/ DumpOpen \/ DumpBlock \/ Restart \/ Load

Spec == Init /\ [][Next]_vars
-----------------------------------------------------------------------------
(* Properties *)

TypeOK ==
  /\ pc \in {"ready", "adding", "dumping", "dead"}
  /\ countsTf \in BOOLEAN /\ docs \in Seq(Documents) /\ nodes \subseteq Terms
  /\ rest \subseteq (IF docs = <<>> THEN {} ELSE DOMAIN Last(docs).text)
  /\ index \in [Terms -> Seq(Posting)]
  /\ blocks \in 0 .. AllBlocks /\ mapped \in 0 .. AllBlocks

\* Every list of postings is strictly increasing in doc_id and stays below the
\* number of documents, which the merges of the searcher and the delta code of
\* dump rely on. addDocument only compares with the last posting.
PostingsSorted ==
  \A t \in Terms :
    /\ \A i \in DOMAIN index[t] : index[t][i].doc_id < Len(docs)
    /\ \A i, j \in DOMAIN index[t] : i < j => index[t][i].doc_id < index[t][j].doc_id

\* Between two calls the index holds exactly the occurrences of the documents
\* added so far, with their counts when the indexator counts them.
PostingOf(d, t) ==
  [doc_id |-> d - 1, tf |-> IF countsTf THEN Count(docs[d].text, t) ELSE 1]

Occurrences(t) ==
  {PostingOf(d, t) : d \in {e \in DOMAIN docs : Count(docs[e].text, t) > 0}}

IndexMatchesDocs ==
  pc = "ready" => \A t \in Terms : {index[t][i] : i \in DOMAIN index[t]} = Occurrences(t)

\* What image says of the index that was dumped: the URL of every document, the
\* postings of every term that dump kept, and none of any other term.
Answers ==
  /\ Len(image.urls) = Len(dumped.docs)
  /\ \A n \in DOMAIN dumped.docs : getUrl(n - 1) = dumped.docs[n].url
  /\ \A t \in Terms :
       getPostings(t) = IF t \in dumped.kept THEN dumped.index[t] ELSE <<>>

\* A mapped file that was written to its end answers every term that dump kept
\* with the postings of the index that was dumped, packed or not, and every
\* other term with nothing, whatever the hashes collide; and it knows the URL
\* of every document.
RoundTrip == mapped = AllBlocks => Answers
-----------------------------------------------------------------------------
(* The promise that the index keeps *)

\* the documents added to their ends, and their postings
AddedDocs == IF pc = "adding" THEN Front(docs) ELSE docs

AddedPostings ==
  [t \in Terms |->
     IF pc = "adding" /\ index[t] # <<>> /\ Last(index[t]).doc_id = Len(docs) - 1
       THEN Front(index[t])
       ELSE index[t]]

\* what the file says once it is written to its end (RoundTrip)
Saved ==
  [urls     |-> [n \in DOMAIN dumped.docs |-> dumped.docs[n].url],
   postings |-> [t \in Terms |-> IF t \in dumped.kept THEN dumped.index[t] ELSE <<>>]]

Promise == INSTANCE IndexPromise WITH
  counts <- countsTf,
  urls <- [n \in DOMAIN AddedDocs |-> AddedDocs[n].url],
  ram <- AddedPostings,
  file <- IF blocks = AllBlocks THEN Saved ELSE NoFile,
  view <- IF mapped = AllBlocks THEN Saved ELSE NoFile,
  Nothing <- NoFile

\* Token by token and block by block, with kills and files cut short, the index
\* keeps the promise of IndexPromise: a document is added as if at once; a whole
\* file holds the index of one moment, with the URLs of all documents, and dump is
\* that moment; and what is mapped is what was in the file.
KeepsPromise == Promise!Spec
-----------------------------------------------------------------------------
(* The inductive invariant *)

\* the documents whose postings of term t have been made: while a document is
\* being added, those of its tokens that processTokens has passed
Added(t) ==
  {d \in DOMAIN docs :
     IF pc = "adding" /\ d = Len(docs)
       THEN \E i \in TokensToAdd(docs[d].text) \ rest : docs[d].text[i] = t
       ELSE Count(docs[d].text, t) > 0}

HoldsAdded ==
  \A t \in Terms :
    {index[t][i] : i \in DOMAIN index[t]} = {PostingOf(d, t) : d \in Added(t)}

Adding ==
  pc = "adding" => docs # <<>> /\ rest \subseteq TokensToAdd(Last(docs).text)

\* At every step of processTokens the index holds what has been passed so far, and
\* the lists are sorted, so that the last posting is all that has to be compared.
IInv == TypeOK /\ Adding /\ PostingsSorted /\ HoldsAdded

\* The blocks that are in the file or mapped are those of an image that answers,
\* whatever becomes of the index and the process after dump has made it.
FileAnswers == pc = "dumping" \/ blocks > 0 \/ mapped > 0 => Answers

\* The nodes are where the postings are; the index stands still while it is dumped,
\* and it is not filled or dumped by a process that has mapped a file.
DumpInStep ==
  /\ \A t \in Terms : index[t] # <<>> => t \in nodes
  /\ pc = "dumping" =>
       /\ blocks < AllBlocks /\ \A t \in nodes : index[t] # <<>>
       /\ dumped = [index |-> index, kept |-> Kept, docs |-> docs]
  /\ pc \in {"adding", "dumping"} => mapped = 0

\* Together they are inductive: what dump was going to write, and all that can
\* be read of it afterwards.
FileInv == DumpInStep /\ FileAnswers
-----------------------------------------------------------------------------
(* What tests and report say, and the code does not keep: each is refuted by   *)
(* a run.                                                                      *)

\* A term of several documents is still found after dump and load.
SharedTermsKept ==
  mapped = AllBlocks =>
    \A t \in Terms : Len(dumped.index[t]) > 1 => getPostings(t) # <<>>

\* A query leaves nothing behind in the index: dump never meets a term without
\* postings.
DumpSurvivesQueries == pc # "dead"
=============================================================================
