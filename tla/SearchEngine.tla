---------------------------- MODULE SearchEngine -----------------------------
(* The search program searcher/lab3/searcher.cpp from the collection to the   *)
(* answer: started with -i it downloads documents (db_downloader.cpp), adds   *)
(* them to the index and dumps it; then, or at once without -i, it maps the   *)
(* file and answers queries. It can be killed and started again at any time,  *)
(* with other options. The index is that of InvertedIndex with the TF-IDF     *)
(* indexator, words are those of Tokenizer, queries those of QueryEval.       *)
EXTENDS InvertedIndex, Tokenizer

CONSTANTS
  Collection,  \* what MongoDB holds: [url, content], the content a text
  NoText,      \* the content of a document without html_content
  Limits,      \* values of --limit
  Queries      \* queries that are asked

\* the crawler keeps an index that makes normalized_url unique
ASSUME CollectionAssumption ==
  /\ Limits \subseteq Nat
  /\ IsFiniteSet(Collection) /\ \A d, e \in Collection : d.url = e.url => d = e

VARIABLES
  phase,    \* "start", "download", "dump", "load", "serve" or "ended"
  unread,   \* documents the cursor has not given yet
  counter,  \* documents added
  limit     \* max_documents

engineVars == <<vars, phase, unread, counter, limit>>

Usable == {d \in Collection : d.content # NoText}

\* what addDocument makes of each usable document: its tokens
TokensOf == [d \in Usable |-> tokenize(d.content, TRUE)]
Downloaded(d) == [url |-> d.url, text |-> TokensOf[d]]

ASSUME DownloadAssumption == \A d \in Usable : Downloaded(d) \in Documents

EngineInit ==
  /\ Init /\ countsTf = TRUE
  /\ phase = "start" /\ unread = {} /\ counter = 0 /\ limit = 0
-----------------------------------------------------------------------------
(* main *)

\* with -i
StartDownload ==
  /\ phase = "start"
  /\ phase' = "download" /\ unread' = Collection /\ counter' = 0 /\ limit' \in Limits
  /\ UNCHANGED vars

StartWithFile ==
  /\ phase = "start"
  /\ phase' = "load"
  /\ UNCHANGED <<vars, unread, counter, limit>>

\* the next document of the cursor, and addDocument for it
Download(d) ==
  /\ phase = "download" /\ d \in unread /\ d.content # NoText
  /\ AddUrl(Downloaded(d))
  /\ unread' = unread \ {d} /\ counter' = counter + 1
  /\ UNCHANGED <<phase, limit>>

\* a document without a text is passed over, and not counted
PassOver(d) ==
  /\ phase = "download" /\ pc = "ready" /\ d \in unread /\ d.content = NoText
  /\ unread' = unread \ {d}
  /\ UNCHANGED <<vars, phase, counter, limit>>

IndexToken == phase = "download" /\ AddToken /\ UNCHANGED <<phase, unread, counter, limit>>

\* (error) the limit is tested before the document is counted
DownloadedOneMore ==
  /\ phase = "download" /\ AddEnds
  /\ phase' = IF counter - 1 = limit THEN "dump" ELSE "download"
  /\ UNCHANGED <<unread, counter, limit>>

\* addDocument returns, the document is counted and the limit is tested
DownloadedOne ==
  /\ phase = "download" /\ AddEnds
  /\ phase' = IF counter = limit THEN "dump" ELSE "download"
  /\ UNCHANGED <<unread, counter, limit>>

CursorEnds ==
  /\ phase = "download" /\ pc = "ready" /\ unread = {}
  /\ phase' = "dump"
  /\ UNCHANGED <<vars, unread, counter, limit>>

\* dump begins; it would die if it met a term without postings (DumpFindsPostings)
Dump == phase = "dump" /\ DumpOpen /\ UNCHANGED <<phase, unread, counter, limit>>

DumpMore ==
  /\ phase = "dump" /\ DumpBlock
  /\ phase' = IF pc' = "ready" THEN "load" ELSE "dump"
  /\ UNCHANGED <<unread, counter, limit>>

\* the file is mapped, and from now on queries are answered
Map == phase = "load" /\ Load /\ phase' = "serve" /\ UNCHANGED <<unread, counter, limit>>

\* without a file that can be mapped, load throws and nobody catches
MapFails ==
  /\ phase = "load" /\ blocks = 0
  /\ phase' = "ended"
  /\ UNCHANGED <<vars, unread, counter, limit>>

\* the process is killed, or has ended, and the program is started again
StartAgain ==
  /\ Restart /\ countsTf' = TRUE
  /\ phase' = "start" /\ unread' = {} /\ counter' = 0 /\ limit' = 0
-----------------------------------------------------------------------------
EngineNext ==
  \/ StartDownload \/ StartWithFile
  \/ \E d \in Collection : Download(d) \/ PassOver(d)
  \/ IndexToken \/ DownloadedOne \/ CursorEnds
  \/ Dump \/ DumpMore \/ Map \/ MapFails \/ StartAgain

EngineSpec == EngineInit /\ [][EngineNext]_engineVars

ParsedQuery == [q \in Queries |-> Tokenized(q, TRUE)]

ASSUME QueriesAssumption == \A q \in Queries : ParsedQuery[q] \in Seq(STRING)

\* the numbers that the file gives each term
Listed ==
  [t \in Terms |-> LET postings == getPostings(t)
                   IN  [i \in DOMAIN postings |-> postings[i].doc_id]]

\* the URLs that processResults makes of an answer, in whatever order
AnswerURLs(query) ==
  LET answer == findDocument(ParsedQuery[query], Listed, Len(image.urls))
  IN  {getUrl(answer[i]) : i \in DOMAIN answer}
-----------------------------------------------------------------------------
(* Properties *)

\* A whole file is served.
Serving == phase = "serve" /\ mapped = AllBlocks

Indexed == {d \in Usable : Downloaded(d) \in Range(dumped.docs)}

\* the indexed documents that hold each of the terms that dump kept
Holders == [t \in dumped.kept |-> {d \in Indexed : t \in Range(TokensOf[d])}]

\* Every query that is an expression is answered with the URLs of exactly those
\* downloaded documents whose texts satisfy it: from the collection through
\* tokenizer, stemmer, indexator, dump, mapping, parser and merges to the table of
\* URLs, also when the file is that of an earlier process. Terms that dump did not
\* keep count as if they occurred nowhere. (A negation of a negation is not read as
\* two: EveryAnswerIsMeaning of SearchInput.)
AnswerFromCollection ==
  Serving =>
    \A q \in Queries :
      ~DoubleNegation(ParsedQuery[q]) =>
        \A found \in Meanings(ParsedQuery[q], Holders, Indexed) :
          AnswerURLs(q) = {d.url : d \in found}

\* When the download is over, every usable document of the collection was added
\* once, or as many as the limit allows; a limit of 0 is none.
DownloadsCollection ==
  phase = "dump" =>
    LET n == Cardinality(Usable)
    IN  /\ \A i \in DOMAIN docs : docs[i] \in {Downloaded(d) : d \in Usable}
        /\ \A i, j \in DOMAIN docs : docs[i].url = docs[j].url => i = j
        /\ Len(docs) = IF limit = 0 \/ limit > n THEN n ELSE limit

\* dump reads the first posting of every term it meets: in the program, other
\* than in the tests, none is without postings.
DumpFindsPostings == phase = "dump" => \A t \in nodes : index[t] # <<>>

\* The logarithm of N / (1 + n) that ranks the answers is never negative, so that
\* a document is not ranked lower for holding a term of the query. It is
\* the threshold of dump that ensures it: the ranking itself would give a term of
\* all documents a negative weight.
IdfNonNegative ==
  Serving => \A t \in Terms :
    getPostings(t) # <<>> => 1 + Len(getPostings(t)) <= Len(image.urls)
-----------------------------------------------------------------------------
(* The inductive invariant *)

EngineTypeOK ==
  /\ countsTf /\ phase \in {"start", "download", "dump", "load", "serve", "ended"}
  /\ unread \subseteq Collection /\ counter \in Nat /\ limit \in Limits \cup {0}

\* every document of the index is one that the cursor has given, and given once
AddedOnce ==
  /\ \A i \in DOMAIN docs :
       \E d \in Usable \ (IF phase = "download" THEN unread ELSE {}) : docs[i] = Downloaded(d)
  /\ \A i, j \in DOMAIN docs : docs[i].url = docs[j].url => i = j

\* as many as it has given, and, between two of them, fewer than the limit
CountInStep ==
  /\ phase = "start" => docs = <<>>
  /\ phase = "download" =>
       /\ counter = Len(docs) /\ counter = Cardinality(Usable \ unread)
       /\ limit # 0 => counter <= limit /\ (pc = "ready" => counter < limit)
  /\ phase = "dump" =>
       LET n == Cardinality(Usable)
       IN  Len(docs) = IF limit = 0 \/ limit > n THEN n ELSE limit

\* What was dumped is an index of downloaded documents, each there once: its list of
\* a term has the numbers of the documents that hold the term, in increasing order.
\* This outlives the index itself, in the file and in the processes that map it.
SnapshotOfCollection ==
  /\ dumped.docs \in Seq(Documents)
  /\ \A n \in DOMAIN dumped.docs : \E d \in Usable : dumped.docs[n] = Downloaded(d)
  /\ \A n, k \in DOMAIN dumped.docs : dumped.docs[n].url = dumped.docs[k].url => n = k
  /\ \A t \in Terms :
       LET ids == [i \in DOMAIN dumped.index[t] |-> dumped.index[t][i].doc_id]
       IN  /\ \A i, j \in DOMAIN ids : i < j => ids[i] < ids[j]
           /\ Range(ids) = {n - 1 : n \in {k \in DOMAIN dumped.docs :
                                             t \in Range(dumped.docs[k].text)}}

\* No node of this program was made by a query, and what dump kept was below
\* its threshold; what it dropped is not in the file.
EngineInv ==
  /\ EngineTypeOK /\ AddedOnce /\ CountInStep
  /\ \A t \in nodes : index[t] # <<>>
  /\ pc = "dumping" \/ blocks > 0 \/ mapped > 0 =>
       /\ SnapshotOfCollection /\ dumped.index \in [Terms -> Seq(Posting)]
       /\ dumped.kept \subseteq Terms
       /\ \A t \in dumped.kept : 100 * Len(dumped.index[t]) < 95 * Len(dumped.docs)
=============================================================================
