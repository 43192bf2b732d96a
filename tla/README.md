# Verification of web_spider

TLA+ models of the crawler (`src/robot`, Go) and of the search engine
(`src/searcher`, C++), checked with TLC. The main properties of the crawler, the
document store, the index in memory and in the file, the search program and the
evaluation of queries are also proved with TLAPS, for instances of any size.

Run inside this directory:

    tlc -workers 2 -config MCSpider.cfg MCSpider      # a model-checking run
    tlapm SpiderProofs.tla                            # the proofs of one module

`PROJECT.json` lists all runs, the source lines behind each definition, for every
checked property a mutation of the model that breaks it (the operators marked
`(error)`), the findings and the hazards.

## 1. The system

### Components

| component | source | state | operations |
|---|---|---|---|
| spider | `robot/internal/app/spider.go` | `visited`, counters, context, `paused`, `saveChan`, `batchWG`, `wgSave`, `doneChan` | `Start`, `runPhases`, the callbacks `OnRequest`, `OnHTML`, `OnError`, `processLinks`, `startWriter`, `cliControlLoop`, `shutdown` |
| colly (library) | used by `spider.go` | URLs marked visited, WaitGroup of fetch goroutines | `Request`, `Wait` |
| document store | `robot/internal/db/mongo.go` | collection of documents by normalized URL | `GetStaleDocuments`, `SaveDocument` (find, then upsert) |
| URL helpers | `robot/internal/utils/utils.go` | none | `NormalizeURL`, `ComputeContentHash` (the others are called by nothing) |
| start, configuration | `robot/cmd/main.go`, `config`, `models` | none | builds the start URLs, calls `Start`, returns |
| inverted index | `searcher/src/index.cpp`, `include/index.h` | hash table of postings, table of URLs; the file; the mapping | `addUrl`, `addDocument`, `getPostings` (two), `dump`, `load`, `findTermEntry` |
| packed numbers | `index.cpp:25-52` | none | `writeVarInt`, `getVarIntSize`, `readVarInt` |
| indexators | `searcher/src/indexator.cpp` | none | `addDocument`, `processTokens` (TF-IDF, boolean) |
| queries | `searcher/src/searcher.cpp` | none | `parseQuery`, `sortingStation`, `evaluate`, the merges, `rankResults` |
| tokenizer, stemmer | `searcher/src/tokenizer.cpp` | tokens of the last text | `getRawTokens`, `tokenize`, the Porter steps |
| downloader | `searcher/src/db_downloader.cpp` | counters | `downloadDocuments` |
| programs | `searcher/lab3` | none | build and dump an index, answer queries from a file |

The robot writes documents to MongoDB; the downloader reads them there and feeds
the indexator; `dump` writes the index to a file; the search program maps the file
and answers boolean queries.

### What is hard

* **Crawler.** Four kinds of goroutines (keyboard, phases, one per fetch, writer)
  meet on a bounded channel, two WaitGroups, a closed-once channel, an atomic flag
  and a context. The order "colly idle, `doneChan`, Enter, `close(saveChan)`,
  `wgSave.Wait`, report" is what prevents a send on a closed channel and a report
  that comes too early; the order "colly idle, `batchWG` zero" is what keeps the
  second question of phase 1 from seeing old answers. Pause and stop arrive
  anywhere in between, saves may fail, requests may be refused.
* **Store.** `SaveDocument` decides by the answer of one call what it sends with the
  next; an error says nothing of what the server did; two URLs can share a record; the
  process can be killed at any point.
* **Index.** Postings stay sorted only because of the order of calls; `dump`
  computes offsets with one piece of code and writes with another; hashes collide;
  the process can die inside `dump`; a query of the in-memory index changes it.
* **Words.** The stemmer keeps the index of the last letter in step by hand, at fifteen
  places; the tokenizer remembers the points of a token; a text is cut in one way as
  a document and in two steps as a query.
* **Queries.** Implied ANDs, a prefix operator in an algorithm for infix operators,
  queries that are no expressions at all.

The full list, at its lines, is under `hazards` in `PROJECT.json`.

### What makes each component correct

* spider: no panic (send on a closed channel, negative WaitGroup, `Add` during
  `Wait`), no goroutine stuck, no document lost or written twice, a true report, a
  prompt pause, an end of discovery, no link forgotten.
* store: records are complete, count their saves, hold what was fetched, and their times
  move as they should.
* index: postings match the documents, and a file answers as the index did.
* tokenizer and stemmer: the same text gives the same tokens everywhere; a word and its
  plural meet; nothing else vanishes.
* queries: the answer is the meaning of the expression; any other input is harmless.
* search program: an answer is about the documents that were downloaded.

## 2. The modules

| module | role |
|---|---|
| `Spider` | the crawler: state, actions, fairness, properties, inductive invariant |
| `DocPipeline` | abstract specification: what the crawler promises about documents |
| `SpiderProofs` | theorems about `Spider` and their proofs |
| `MCSpider` | small instances of `Spider` |
| `AtomicStore` | abstract specification: a save is one step |
| `MongoStore` | the collection, `SaveDocument`, restarts, failures, late updates |
| `StoreProofs` | theorems about `MongoStore` |
| `MCStore` | a small instance of it |
| `VarInt` | the packed number format, as recursive functions |
| `VarIntProofs` | induction and recursion on numbers; what is written is read back |
| `IndexPromise` | abstract specification: documents are added, and files written, in one step |
| `InvertedIndex` | indexators, in-memory index, dump, crash, load, lookup |
| `IndexProofs` | theorems about the building of the index |
| `FileProofs` | theorems about the file: directory, strings and data are found again; the index keeps its promise |
| `MCIndex` | small instances of `InvertedIndex` |
| `PorterStemmer` | the stemmer, as operators |
| `QueryEval` | parsing and evaluation of boolean queries, and their meaning, as operators |
| `Tokenizer` | the two ways of cutting a text, as operators |
| `SearchInput` | inputs of these functions, put together piece by piece |
| `QueryProofs` | theorems about merges, parser and evaluation, for any index |
| `InputProofs` | theorems about `SearchInput`: streams of numbers, the text of a query |
| `MCSearchInput` | letters, suffixes, characters, numbers, queries |
| `SearchEngine` | the search program: download, index, dump, load, answers |
| `EngineProofs` | theorems about the search program |
| `MCSearchEngine` | a collection of four documents |

How they are put together: `Spider` is related to `DocPipeline` by the mapping
`count <- pageCount`, `end <- End` (`outcome` is shared); `MongoStore` to `AtomicStore` by the
identity on four of its variables; `InvertedIndex` to `IndexPromise` by `AddedDocs` and
`AddedPostings` (what was added to the end) and `Saved` (what is in a whole file).
`MongoStore` refines what is one
step in `Spider` (`Saved`, `SaveFailed`) and leaves out how pages reach the writer.
`InvertedIndex` and `SearchInput` extend `VarInt`; `Tokenizer` extends `PorterStemmer` and
`QueryEval`; `SearchEngine` extends `InvertedIndex` and `Tokenizer`, so that every
action and operator of the search program runs in one behaviour.

### Spider

A page is its URL. What the web contains is constant: `Kind` (article, category,
unknown), `Site`, `Links`, `NormalizeURL`. Choices are made where the code depends
on the network or the database: `OnError`, a refused request in `CollyRequest`, a
text that is too short (`OnHTMLOther` for an article), `SaveFailed`, an error of the
query in `PhaseQuery`, which of the stale pages the limited query returns.

The program counters are `main` (keyboard loop), `phase` (`runPhases`), `fetch[u]`
(the goroutine of the request of `u`) and `writer`. One action is one access to shared
state:

| code | actions |
|---|---|
| `cliControlLoop`, `shutdown` | `Pause`, `Resume`, `Stop`, `Exit`, `Enter`, `CloseChan`, `Report` |
| `runPhases` | `PhaseWait`, `PhaseCheck`, `PhaseQuery`, `PhaseRequest`, `PhaseGiveUp`, `PhaseLoopEnds`, `PhaseCollected`, `PhaseBatchWritten`, `PhaseClose` |
| `OnRequest` | `OnRequestCtx`, `OnRequestPause`, `OnRequestCap` |
| `OnHTML`, `OnError` | `OnHTMLDocument` (`batchWG.Add`), `Send`, `OnHTMLOther`, `OnError` |
| `processLinks` | `FollowLink` (`LoadOrStore` and the type test) and `RequestLink` for each link, `LinksDone` |
| `startWriter` | `Receive`, `WriterWait`, `Saved`, `SaveFailed`, `BatchDone`, `WriterExit` |
| time | `Age`: a page saved in this run becomes stale in this run |

Simplifications: `articleCount` moves with `pageCount` and is not kept apart.
`Collector.Request` marks a URL and starts its fetch in one step (colly asks and marks
in two calls, so that two requests of one URL at the same instant could both be
fetched). The test of the context and the request in the loops of `runPhases` are joined
likewise (a stop between them is a stop after them). A redirect counts as the page it leads
to. The limits of the library on parallel requests only restrict the
interleavings. `r.Abort` ends the goroutine. The links of one page are followed in any
order. Two history variables serve the properties: `outcome` (what became of the document
of each page) and `pauseMark` (`pageCount` when `p` was pressed).

A save that fails may still have been done by the server, so `SaveFailed` leaves open
whether the page is stale afterwards.

### MongoStore

`OnHTMLDocument` makes a page of the text that is on the site at that time; `Receive`,
`FindOne` and `UpdateOne` are the writer and `SaveDocument`. `Branch` is the choice between
the three updates, `Applied` what the server makes of the record with each (an upsert of
a missing record, or a change of some fields). `FindFails` and `UpdateFails` are the error
returns: a failed update was not done, was done, or will be done later
(`CarriedOutLate`, only in behaviours with `slow`). `Restart` kills the process, with its
pages, its set of visited URLs and its pending update; the collection and late
updates stay. `Tick` and `SiteChanges` are the world. The model differs from the code in
two ways: a text is its `content_hash` (title, text and length are written in the same
updates), and the two calls of `time.Now` in `SaveDocument` are taken at the time
of the answer of `FindOne`.

`SavesAtomically` relates this to `AtomicStore`, where a page is compared and merged with its
record in one step: an update that is carried out for its caller is `Save`, a fetched page is
`Fetch`, everything else a stutter. It is claimed of behaviours without `slow`, as late updates
really break it.

Three history variables serve the properties: `scraped` (what was fetched when),
`reported` and `doubtful` (saves that returned no error, and updates that returned one).

### InvertedIndex

A document is its URL and its sequence of tokens. `AddUrl`, then one `AddToken` per entry,
then `AddEnds` are `IIndexator::addDocument`. `DumpOpen` truncates the file and fixes what
will be written (`Image`: header, URLs, directory with all offsets, strings, data); four
`DumpBlock` steps write it; `Restart` kills the process at any point. `DumpDies` is the
read of `docs[0]` of an empty list. `Load`, `getUrl`, `findTermEntry` and `getPostings` read
the image by its offsets, packed (version 2) or not (version 1). The strings are values
at offsets; a term has a size and a hash of the instance's choice.

`KeepsPromise` relates this to `IndexPromise`: the step `Add` is `AddEnds`, `Save` is the last
`DumpBlock`, `Truncate` is `DumpOpen` or `DumpDies`, `Open` is `Load` of a whole file, `End` is
`Restart`; single tokens, the first blocks and queries are stutters. The file and the mapping are
mapped to what `dump` saved (the history variable `dumped`), because TLC is too slow at decoding a
file twice in every step; that the bytes tell the same is `RoundTrip`, and `PromiseRead` proves
the refinement for what is decoded.

### PorterStemmer, Tokenizer, QueryEval

Pure operators on TLA+ strings. The stemmer's state is `[word, end]`, as in the code, where
`end` is not recomputed but kept in step; `Steps` gives the state after each of the five
steps. `tokenize` is a fold of `Read` over the characters, with `flush_token` as in the
lambda of the code; `getRawTokens` and `Tokenized` are the first half of `parseQuery`,
`WithImplicitAnd` the second; `sortingStation` and `evaluate` use stacks as the code does,
and the merges are the two-position loops, as functions of the pair of positions. Characters beyond ASCII are separators in the code
(`isalnum` in the C locale); there are none in the instances.

These operators were also compared, once and outside this directory, with the compiled
functions: 4000 words, 3000 texts and 6000 queries, all with equal results.

`Meanings` is the reference for queries: the denotation of the tokens by a grammar with NOT
over AND over OR, computed for every interval of positions: a table over triples (a level of the
grammar, the first and the last token).

### SearchInput

The state is an input that grows by a number, a suffix, a character or a word; every
prefix is an input of its own, so that the properties are about all inputs up to a length.

### SearchEngine

`main` of `lab3/searcher.cpp` as phases: with `-i` `StartDownload`, then `Download`,
`PassOver`, `IndexToken` and `DownloadedOne` (`downloadDocuments` around the actions of
`InvertedIndex`), `CursorEnds` or the limit, `Dump`, `DumpMore`; without it, or afterwards,
`Map` or `MapFails`. `StartAgain` kills the program at any point and starts it with other
options, so that a file may be served that another process has written, with another
limit and another format. In phase `serve` the answers to `Queries` are functions of the
state (`AnswerURLs`), since a query changes nothing in a mapped index. The content of a
document is its text after the removal of HTML.

## 3. The runs

| run | what it shows | bounds |
|---|---|---|
| `spider_safety` | all safety properties, the refinement, and the invariant of the proofs | 5 URLs (category, two articles of two sites, a stored page that is the normal form of another, an unknown page), depth 2, channel of 1, batch limit 1, page limit 2 |
| `spider_liveness` | `DocumentsGetWritten`, `DiscoveryEnds` under `FairSpec` | 3 URLs, ageing allowed |
| `spider_recrawl` | refutes `RecrawlEnds` | 3 URLs |
| `spider_enter` | refutes `EnterLeadsToReport` | 3 URLs |
| `spider_stop` | refutes `StopKeepsDocuments` | 3 URLs |
| `store` | the store's properties, the refinement of `AtomicStore`, and the invariant of the proofs | 2 URLs of one key, 2 texts, times 0 to 2, 2 processes; records of different keys do not meet |
| `text` | numbers, words, texts and queries | 3 of 14 numbers, radix 128; words of 3 pieces (letters and suffixes); texts of 5 pieces; queries of 6 words and operators over 3 terms and 8 documents |
| `query_double_negation` | refutes `EveryAnswerIsMeaning` | the same |
| `index` | with either indexator: type, order and content of postings, round trip through the file, the refinement of `IndexPromise`, the invariants of the proofs | 3 terms (two with one hash), 3 documents to choose from, 3 added, radix 2 |
| `index_shared`, `index_queries` | refute what a test and a comment in code say of the dump | 2 documents |
| `engine` | the search program from the collection to the answer, and the invariant of its proofs | 4 documents, one without a text; limits 0 and 2; 9 queries; both formats; any number of restarts |

Why the bounds are enough. A channel of one place is full and empty in turn, with two
senders waiting for it; two articles can be in the channel and with the writer at
once; the depth limit, the page limit and the batch limit are all reached; pages link to
themselves, in cycles, two of them to the same third, and to a page that is stored under
another's key. With radix 2 the
numbers of three documents need encodings of one and two digits, so that the packed
lists have different lengths and all offsets move; the real radix is checked by `text`
up to 2^31 - 1, where TLC's integers end. Eight documents hold every combination of three
terms, so that expressions that are not equivalent differ in a document. Three pieces of a word
pass through every step of the stemmer (each suffix of steps 1 to 4 that matters for `end` is a
piece, and shorter words are left alone); five pieces of a text hold two numbers with points, or a
word between two separators. In `store` two processes, three times and two texts are enough for a page
to be saved before and after a change, by either process, and for two URLs of a key to
overtake each other; the proofs cover the rest.

Deadlock is not checked as such: the crawler really stops after its report, and
waits for the keyboard for as long as the person likes. `Quiescence` says instead where it may
come to rest. The other models end at their bounds.

Fairness (`FairSpec`): weak fairness of main after a key was read, of `runPhases`, of
the writer and of each fetch goroutine, because the Go runtime schedules every
goroutine that can run, timeouts bound every database call and every request
ends. Nothing is assumed of the person (no key need ever be pressed), and the
liveness properties assume only that the crawler is not paused for ever.

### Findings

Each is a run that must find a counterexample, with its quotation in `PROJECT.json`.

1. Phase 1 may never end: a stale page that is not saved stays stale, and colly does not
   request it twice (`spider_recrawl`).
2. Enter after a finished crawl blocks when the crawler is paused with a document to
   write (`spider_enter`).
3. `s` loses the documents in the channel (`spider_stop`).
4. A term of 95 % of the documents or more is not in the file, also when there are only two
   documents, against a test (`index_shared`).
5. A query of the in-memory index for an absent term makes the next `dump` read
   postings that do not exist (`index_queries`).
6. A negation of a negation is answered as one negation (`query_double_negation`).

## 4. The proofs

### The crawler

`SpiderProofs` proves, for every finite set of URLs, every web, every depth and every
capacity (`SpiderAssumption`, no other assumption), the invariants and the action
property checked by `spider_safety`, and the refinement of `DocPipeline`. Of `Quiescence`
it proves `NoneStuck` (`NoGoroutineStuck`): the guards of what `runPhases`, the writer and the
fetch goroutines do next are written out (`CanMove`), and unless the crawler is paused or finished
one of them is true. That such a guard enables a step, the other half, is `ENABLED`.

None of the properties is inductive alone. The inductive invariant `IInv` has these parts:

* `Control` ties the five program counters: `doneChan` is closed exactly when
  `runPhases` has ended; without a stop it ends only when no fetch is active; the channel
  is closed only after Enter with `doneChan` closed, which a stop excludes. From it follow
  `NoSendOnClosedChannel` and most of `RecrawlBarrier`.
* `BatchAccounting`: `batchWG` equals the documents with senders, in the channel and
  with the writer. It needs `Places` to know that a new sender is new.
* `Places`: a fetch that has not sent has no outcome, one that was started is marked by
  colly, and a queued document is in exactly one place (`NoDocumentLost`).
* `Counted`: `pageCount` is the number of saved pages.
* `PauseWindow`: one document may be finished after `p`, and then the writer is not
  about to save.
* `Handed`: what discovery has entered in `visited` has been handed to colly, or is in the hand
  of a page that is still at its links, for which `collector.Wait` waits.

Each part has a lemma "`IInv /\ [Next]_vars => Part'`" with one step per action;
`Invariance` combines them, the others follow. For the refinement, `PipelineStep` shows
that `OnHTMLDocument` is `Queue`, `Saved` is `Write`, `SaveFailed` is `Refuse`, `Report`
is `Report` (by `Places` and `Control` nothing is queued then), `Exit` is `Abandon`, and
every other step a stutter.

### The store

`StoreProofs` proves, for all sets of URLs, keys and texts, every `NormalizeURL` and every number
of processes (`StoreAssumption`, `NoDocAssumption`), all properties of the run `store`, and
`FirstScrapedFixed`.
The inductive invariant `IInv` says why an answer of `FindOne` may be used later:

* `Pending`: the update under way is that of the page held; without `slow` nothing is late.
* `Grounded`: an update other than an insertion finds its record, since records stay;
  `TypeOK` needs it, because only an insertion sets `first_scraped`.
* `StillTrue`: without late updates nobody else changes the record, so the branch that was
  chosen is still the right one. `StoredIsFetched`, `FirstScrapedFixed` and `ModifiedWithText`
  follow from it by the lemma `BranchFields`.
* `Counting`: saves in the record, and updates that may still come, are at most the
  reported and the doubtful ones; a late update is counted as doubtful when it fails, which
  pays for it when it comes.
* `Snapshots`, `Times`: pages on their way are what was fetched, and no time is ahead.
* `Fresh`: a process has one page per URL, and a page is older than the record of its key
  only after another URL of the key came in between: `ScrapeTimeAdvances`.

`AtomicSaves` is the refinement: `StillTrue` and `AppliedMerges` say that the update does what
`Merged` does, `Snapshots` and `Times` that the page was fetched and the time of the decision lies
between its fetch and now.

### The index

`IndexProofs` proves `TypeOK`, `PostingsSorted` and `IndexMatchesDocs` of `InvertedIndex`, for
every corpus and both indexators (`IndexAssumption`). `IndexMatchesDocs` is about the time
between two calls; `HoldsAdded` strengthens it to every step of `processTokens`: the index holds
what has been passed of the last document, and all of the others. `PostEffect` is what
`addDocument` does with a sorted list, where the comparison with the last posting
is enough; `FirstOccurrence` and `AllTermsPassed` say that both indexators pass every term of a
text.

### Numbers, and induction

The library states induction with an operator as a parameter, which the provers cannot
instantiate. `VarIntProofs` therefore states it with sets: `NatLessThanWellFounded` and
`WFMin` of the library give the least element of a set of numbers (`LeastNumber`), and from it
come `Induction` and `Descent` (a set that holds a number when it holds all smaller
ones holds all). A recursive function is a `CHOOSE`, so it must be shown to exist before
anything can be said of it: `RankedRecursion` builds one by stages for every recursion whose
argument falls in some rank, and `Recursion`, `RowRecursion` and, for folds, `FoldExists` are
its cases. Everything below about recursive functions rests on these lemmas.

`Written` says what `writeVarInt` produces (as many digits as `getVarIntSize` says, all
but the last marked), `ReadsBack` that `readVarInt` finds the number again wherever it
stands, for every number and radix. The width of the C++ types is not in these
theorems: the numbers are those of documents and counts. `StreamHolds` (`InputProofs`) is
`StreamReadsBack` for streams of any length: each reading ends where the next number begins.

### The file

`FileProofs` proves `RoundTrip`, for every corpus, every size and hash of a term, both
formats and both indexators (`IndexAssumption`, `VarIntAssumption`). `RoundTrip` is about a
mapped file and says nothing of how it came to be; the inductive invariant `FileAnswers` (a
part of `FileInv`) says that an image answers from the moment `dump` has made it, whatever
then happens to the index and the process. The step that needs work is `DumpOpen` (`AnswersJustDumped`):
`OffsetsPlace` and `PlacesMoved` say that the offsets of the directory are where
the pieces start, since `EncodedSize` is the length of `Encoded` (`EncodedPacked`,
`EncodedPlain`, from `Written`); `UnzippedRead` reads a list back one posting after the other
(from `ReadsBack`; here `PostingsSorted` is needed, or a difference would be negative);
`TermFound` and `ListFound` say that `lower_bound` and the walk over equal hashes meet the entry of
a term exactly when there is one, whatever hashes are equal.

`PromiseKept` is the refinement of `IndexPromise`. It needs `IInv` (at the end of `processTokens`
each term of the document has one posting more, the last of its list: `AddEndsPromised`) and a
second invariant, `DumpInStep` (the other part of `FileInv`): while blocks are written the
index is still the one that `dump` found, and only terms with postings have nodes, so that
`Kept` is what `IndexPromise` calls `Worth`. `PromiseRead` states the same of what `getUrl` and `getPostings` decode (`ToldSaved`, from
`FileAnswers`).

### The search program

`EngineUsesIndex`: what the program does with the index is what `InvertedIndex` allows, so that all
of the above holds for it. `EngineInvariance` proves the inductive invariant `EngineInv`, for
every finite collection, limit and tokenizer (`CollectionAssumption`: URLs are unique, by the
index that `mongo.go:60` makes; `DownloadAssumption`: tokens are terms of the model). `AddedOnce`
and `CountInStep` tie the index to the cursor: what has been added is what the cursor has
given, each once, and the counter is their number, below the limit between two documents. From
it follow `DownloadsCollection`, `DumpFindsPostings` (no node without postings, since nobody asks
the index before it is mapped) and `IdfNonNegative`, which also needs `FileAnswers`: what
is found in the file was below the threshold of `dump` when it was written, maybe by an earlier
process. `EngineKeepsPromise` carries the refinement of `IndexPromise` over.

`AnswersHold` is the property of the whole: `AnswerFromCollection`. What a file says must be known
without the index it came from, which is gone when another process maps it; `SnapshotOfCollection`,
a part of `EngineInv`, says that its documents are downloaded ones, each once, and that the list of a
term has the numbers of the documents that hold it. So the lists that lookups return are sorted
(`FileSorted`, with `FileAnswers`), and numbering the documents is one to one, since URLs are unique
(`FileRenames`). `AnswerNames` of `QueryProofs` does the rest: an answer computed on numbers is, under
their names, what the query means in the collection. Of the queries it is assumed that the tokenizer
makes sequences of strings of them (`QueriesAssumption`); TLC evaluates it for those of the run. Like
`AnswerIsMeaning`, the property leaves out double negations.

### Queries

`QueryProofs` is about token sequences of any length over any words, and any index of sorted lists
(`SortedIndex`): the constant one of `SearchInput`, or that of a file in a state of `SearchEngine`.

* `Intersected`, `United`, `Complemented`: a merge of sorted lists is the sorted list of the
  intersection, union or complement. All three are cases of `MergeLists`, by descent on the distance of
  the two positions from the ends.
* `Evaluated`: `evaluate` computes with sets, on any input. It is a fold, and a proof follows
  it as a row of states (`EvaluateRow`; `ImplicitRow` and `SortingRow` likewise).
* `AnswerWellFormed`: the answer to any sequence of tokens is sorted and within the documents.
* `AnswerMeans`: a logical expression without a double negation is answered with what it
  means. The induction is over the parts of the expression, by size (`Size`, `AllRead`), and what
  it claims of a part is `Pending`: reading the part puts its tokens on the output and, on
  top of what was on the stack, operators of the part's level or above, such that the output
  followed by these operators evaluates to what was there before and the part's set. `Open` says
  when a part may start: nothing on the stack binds as tightly. Operators that
  are still on the stack are the reason why a simpler claim is not inductive. The double negation
  is the one place where a part starts while it is not open, and there the program is
  wrong (finding 6). That the table of `Meanings` exists is a lemma too (`MeaningExists`).
* `AnswerNames`: a meaning does not depend on what the documents are called. `MeaningsRenamed`
  carries the table of meanings over a one-to-one renaming, entry by entry (images commute with union
  and, as the renaming is one to one, with intersection and complement).
* `QuerySorted`, `QueryAnswered` (`InputProofs`): the same for the text of a query, `ResultWellFormed` and
  `AnswerIsMeaning`. They keep one hypothesis, that the tokenizer returns a sequence
  for that text: the provers know nothing of the letters of a TLA+ string. `TokensWellFormed`
  and the run `text` are about that.

### Only model-checked

* `DocumentsGetWritten`, `DiscoveryEnds` (fairness), and the half of `Quiescence` that says
  `ENABLED`; the other half is `NoGoroutineStuck`.
* `EndInStep`, `OnlySuffixesVanish`, `PluralMeetsSingular`, `TokensWellFormed` and
  `QueryWordsAreTextWords`: they are about letters of strings, of which the provers know
  nothing but equality.

## 5. Not modelled

* How a URL is classified and links are selected: comparisons of strings with the
  layouts of two sites. Text extraction from HTML: the work of libraries.
* The amount by which a crawl exceeds the page limit, which is read long before a page is
  counted; `main` passes 10^9 and no document gives a meaning to it.
* Which pages a crawl reaches: it depends on the order of answers, since a page
  keeps the depth of the link that was met first.
* Two requests of one URL at the same instant, between two calls of colly's storage.
* Ranking, beyond the sign of a weight (`IdfNonNegative`): sums of logarithms in floating
  point, and a sort.
* Files that are not whole (a kill inside `dump`, a full disk) or that another process
  truncates while they are mapped: lookups then read beyond the mapping, which has no
  outcome to model. `load` accepts such a file; `RoundTrip` and `AnswerFromCollection` are
  about whole ones.
* Copies and destruction of `MappedIndexSource`: nothing copies one.
* The end of the input of the search program, after which it answers empty queries for ever.
* `GetDocument`, `DocumentExists`, `ExtractLinksFromHTML`, `URLShouldBeFollowed` and
  `URLMatchesPattern`, which nothing calls.
* Tests, reports, build files, the statistics of `lab3/main.cpp`, the plotting script.

## 6. Plan

Done, in order of importance: `Spider` with `DocPipeline` and its proofs; `InvertedIndex`,
`VarInt` and their proofs, up to the round trip through the file, with `IndexPromise`; `QueryEval` and its proofs;
`MongoStore` with `AtomicStore` and its proofs; `PorterStemmer` and `Tokenizer`; `SearchEngine`, which composes
the modules of the search program, and its proofs, up to `AnswerFromCollection`.

Left, in the order of what they would add:

1. A composition of `Spider` and `MongoStore` with a restart of the robot on the collection of an
   earlier run: what is fetched again. The product of the two state spaces is beyond TLC as they
   stand; `AtomicStore` could take the place of `MongoStore`.
2. `PageType`: the classification of URLs over a small set of path shapes, with the two
   callers (page and link) that must agree.
