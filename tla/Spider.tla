------------------------------- MODULE Spider -------------------------------
(***************************************************************************)
(* The crawler of robot/internal/app/spider.go: one process made of        *)
(*   - main, which reads the keyboard (cliControlLoop, shutdown),          *)
(*   - the goroutine of runPhases: recrawl of stale pages, then discovery, *)
(*   - one fetch goroutine of colly per requested URL, which runs the      *)
(*     callbacks OnRequest, OnHTML and OnError,                            *)
(*   - the writer of startWriter, which saves documents to MongoDB,        *)
(* joined by the channel saveChan, the WaitGroup batchWG, the channel      *)
(* doneChan, the flag paused and the cancelled context.                    *)
(*                                                                         *)
(* A page is its URL. The content of the web is constant: what kind of     *)
(* page a URL is, which site it is on, which (cleaned) URLs its selected   *)
(* links lead to and under which normalized URL it is stored. Whether a    *)
(* request is refused or fails, whether the text is long enough and        *)
(* whether the database answers are choices.                               *)
(***************************************************************************)
EXTENDS Integers, Sequences, FiniteSets

CONSTANTS
  Urls,           \* the URLs of the run
  StartURLs,      \* the argument of Start
  StoredURLs,     \* the normalized URLs in the database before the run
  Kind,           \* determinePageTypeWiki / determinePageTypeGuardian
  Site,           \* the branch of the strings.Contains tests on the URL
  Links,          \* the cleaned URLs of the links the selector finds
  NormalizeURL,   \* the key a page is stored under
  MaxDepth, MaxPages, ChanCap, StaleLimit,
  Aging,          \* may a page saved in this run become stale in this run?
  NoDoc           \* no document (the writer's variable before the first)

ASSUME SpiderAssumption ==
  /\ IsFiniteSet(Urls) /\ NoDoc \notin Urls
  /\ StartURLs \subseteq Urls /\ StoredURLs \subseteq Urls
  /\ Kind \in [Urls -> {"article", "category", "unknown"}]
  /\ Site \in [Urls -> {"wiki", "guardian"}]
  /\ Links \in [Urls -> SUBSET Urls]
  /\ NormalizeURL \in [Urls -> Urls]
  /\ MaxDepth \in Nat /\ MaxPages \in Nat
  /\ ChanCap \in Nat \ {0} /\ StaleLimit \in Nat \ {0}
  /\ Aging \in BOOLEAN

VARIABLES
  main,       \* where cliControlLoop is
  paused,     \* w.paused
  stopped,    \* w.ctx is cancelled
  doneChan,   \* w.doneChan is closed
  phase,      \* where runPhases is
  todo,       \* URLs the running loop of runPhases has still to request
  visited,    \* w.visited, filled by processLinks
  seen,       \* the URLs colly has marked as visited
  fetch,      \* where the fetch goroutine of each URL is
  reqCtx,     \* the colly context of each request
  toFollow,   \* links processLinks has not reached yet
  toRequest,  \* the link entered in visited and not yet handed to colly
  saveChan,   \* w.saveChan
  chanClosed, \* w.saveChan is closed
  batchWG,    \* the counter of w.batchWG
  writer,     \* where the writer is
  cur,        \* the document the writer has taken
  pageCount,  \* w.pageCount (articleCount always moves with it)
  stale,      \* normalized URLs with last_scraped below the cutoff
  outcome,    \* history: what became of the document made from each page
  pauseMark   \* history: pageCount when p was last pressed

mainVars   == <<main, paused, stopped, pauseMark>>
phaseVars  == <<phase, todo, doneChan>>
collyVars  == <<seen, fetch, reqCtx>>
linkVars   == <<visited, toFollow, toRequest>>
queueVars  == <<saveChan, batchWG>>
writerVars == <<writer, cur, pageCount, stale>>
vars == <<mainVars, phaseVars, collyVars, linkVars, queueVars, chanClosed,
          writerVars, outcome>>

Contexts == [recrawl : BOOLEAN, depth : 0 .. MaxDepth]
RecrawlCtx == [recrawl |-> TRUE, depth |-> 0]
DepthCtx(d) == [recrawl |-> FALSE, depth |-> d]

\* fetch goroutines that exist: colly's WaitGroup counts exactly these
FetchPoints == {"ctx", "pause", "cap", "get", "send", "links"}
Active == {u \in Urls : fetch[u] \in FetchPoints}

\* the process dies when main returns, and every goroutine with it
Running == main \notin {"reported", "exited"}

TypeOK ==
  /\ main \in {"scan", "returning", "exited", "close", "waitSave", "reported"}
  /\ paused \in BOOLEAN /\ stopped \in BOOLEAN /\ doneChan \in BOOLEAN
  /\ phase \in {"wait", "check", "query", "recrawl", "collWait1", "batchWait",
                "check2", "discover", "collWait2", "closing", "ended"}
  /\ todo \subseteq Urls /\ visited \subseteq Urls /\ seen \subseteq Urls
  /\ fetch \in [Urls -> FetchPoints \cup {"idle", "done"}]
  /\ reqCtx \in [Urls -> Contexts]
  /\ toFollow \in [Urls -> SUBSET Urls] /\ toRequest \in [Urls -> SUBSET Urls]
  /\ saveChan \in Seq(Urls) /\ chanClosed \in BOOLEAN
  /\ batchWG \in Nat
  /\ writer \in {"recv", "pause", "save", "done", "exit"}
  /\ cur \in Urls \cup {NoDoc}
  /\ pageCount \in Nat /\ pauseMark \in Nat
  /\ stale \subseteq Urls
  /\ outcome \in [Urls -> {"none", "queued", "saved", "failed"}]

Init ==
  /\ main = "scan" /\ paused = FALSE /\ stopped = FALSE /\ doneChan = FALSE
  /\ phase = "wait" /\ todo = {}
  /\ visited = {} /\ seen = {}
  /\ fetch = [u \in Urls |-> "idle"]
  /\ reqCtx = [u \in Urls |-> DepthCtx(0)]
  /\ toFollow = [u \in Urls |-> {}] /\ toRequest = [u \in Urls |-> {}]
  /\ saveChan = <<>> /\ chanClosed = FALSE /\ batchWG = 0
  /\ writer = "recv" /\ cur = NoDoc /\ pageCount = 0
  /\ stale \in SUBSET StoredURLs
  /\ outcome = [u \in Urls |-> "none"]
  /\ pauseMark = 0
-----------------------------------------------------------------------------
(* main: cliControlLoop and shutdown *)

Unmoved == UNCHANGED <<phaseVars, collyVars, linkVars, queueVars, writerVars,
                       outcome>>

Pause ==
  /\ main = "scan" /\ ~paused
  /\ paused' = TRUE /\ pauseMark' = pageCount
  /\ UNCHANGED <<main, stopped, chanClosed>> /\ Unmoved

Resume ==
  /\ main = "scan" /\ paused
  /\ paused' = FALSE
  /\ UNCHANGED <<main, stopped, pauseMark, chanClosed>> /\ Unmoved

\* (error) the loop goes round once more and sees the cancelled context
StopShutsDown ==
  /\ main = "scan"
  /\ stopped' = TRUE /\ main' = "close"
  /\ UNCHANGED <<paused, pauseMark, chanClosed>> /\ Unmoved

\* s or q: cancelFunc, then the loop returns without a call of shutdown
Stop ==
  /\ main = "scan"
  /\ stopped' = TRUE /\ main' = "returning"
  /\ UNCHANGED <<paused, pauseMark, chanClosed>> /\ Unmoved

Exit ==
  /\ main = "returning" /\ main' = "exited"
  /\ UNCHANGED <<paused, stopped, pauseMark, chanClosed>> /\ Unmoved

\* (error) Enter ends the program whether or not doneChan is closed
EnterAtOnce ==
  /\ main = "scan"
  /\ main' = "close"
  /\ UNCHANGED <<paused, stopped, pauseMark, chanClosed>> /\ Unmoved

\* an empty line: Scanln fails; shutdown is called once doneChan is closed
Enter ==
  /\ main = "scan" /\ doneChan
  /\ main' = "close"
  /\ UNCHANGED <<paused, stopped, pauseMark, chanClosed>> /\ Unmoved

CloseChan ==
  /\ main = "close"
  /\ main' = "waitSave" /\ chanClosed' = TRUE
  /\ UNCHANGED <<paused, stopped, pauseMark>> /\ Unmoved

\* (error) shutdown without wgSave.Wait
ReportAtOnce ==
  /\ main = "waitSave"
  /\ main' = "reported"
  /\ UNCHANGED <<paused, stopped, pauseMark, chanClosed>> /\ Unmoved

\* wgSave.Wait returns, the report is printed and main returns
Report ==
  /\ main = "waitSave" /\ writer = "exit"
  /\ main' = "reported"
  /\ UNCHANGED <<paused, stopped, pauseMark, chanClosed>> /\ Unmoved

User == Pause \/ Resume \/ Stop \/ Enter
MainStep == Exit \/ CloseChan \/ Report
-----------------------------------------------------------------------------
(* colly: Collector.Request and Collector.Wait *)

\* A URL already marked gives ErrAlreadyVisited, which every caller ignores.
\* A new URL is marked first; it may then still be refused (domain,
\* robots.txt), or its fetch goroutine starts.
CollyRequest(u, ctx) ==
  \/ /\ u \in seen
     /\ UNCHANGED collyVars
  \/ /\ u \notin seen
     /\ seen' = seen \cup {u}
     /\ \/ UNCHANGED <<fetch, reqCtx>>
        \/ /\ fetch' = [fetch EXCEPT ![u] = "ctx"]
           /\ reqCtx' = [reqCtx EXCEPT ![u] = ctx]

CollyIdle == Active = {}
-----------------------------------------------------------------------------
(* runPhases *)

PhaseGoes(to) ==
  /\ phase' = to
  /\ UNCHANGED <<mainVars, linkVars, queueVars, chanClosed, writerVars, outcome>>

\* waitIfPaused
PhaseWait ==
  /\ phase = "wait" /\ (~paused \/ stopped)
  /\ PhaseGoes("check")
  /\ UNCHANGED <<todo, doneChan, collyVars>>

PhaseCheck ==
  /\ phase \in {"check", "check2"}
  /\ IF stopped
       THEN PhaseGoes("closing") /\ UNCHANGED todo
       ELSE IF phase = "check"
              THEN PhaseGoes("query") /\ UNCHANGED todo
              ELSE PhaseGoes("discover") /\ todo' = StartURLs
  /\ UNCHANGED <<doneChan, collyVars>>

\* what GetStaleDocuments(recrawlHours, StaleLimit) may return
StaleBatches ==
  {b \in SUBSET stale : Cardinality(b) <= StaleLimit
                        /\ (b = stale \/ Cardinality(b) = StaleLimit)}

\* an error and an empty answer both end phase 1
PhaseQuery ==
  /\ phase = "query"
  /\ \/ PhaseGoes("check2") /\ UNCHANGED todo
     \/ \E b \in StaleBatches :
          b # {} /\ PhaseGoes("recrawl") /\ todo' = b
  /\ UNCHANGED <<doneChan, collyVars>>

PhaseContext == IF phase = "recrawl" THEN RecrawlCtx ELSE DepthCtx(0)

PhaseRequest ==
  /\ phase \in {"recrawl", "discover"} /\ ~stopped
  /\ \E u \in todo : CollyRequest(u, PhaseContext) /\ todo' = todo \ {u}
  /\ PhaseGoes(phase)
  /\ UNCHANGED doneChan

\* isStopped inside a request loop returns from runPhases
PhaseGiveUp ==
  /\ phase \in {"recrawl", "discover"} /\ stopped /\ todo # {}
  /\ PhaseGoes("closing")
  /\ UNCHANGED <<todo, doneChan, collyVars>>

\* (error) phase 1 without collector.Wait
LoopEndsUncollected ==
  /\ phase \in {"recrawl", "discover"} /\ todo = {}
  /\ PhaseGoes(IF phase = "recrawl" THEN "batchWait" ELSE "collWait2")
  /\ UNCHANGED <<todo, doneChan, collyVars>>

PhaseLoopEnds ==
  /\ phase \in {"recrawl", "discover"} /\ todo = {}
  /\ PhaseGoes(IF phase = "recrawl" THEN "collWait1" ELSE "collWait2")
  /\ UNCHANGED <<todo, doneChan, collyVars>>

\* (error) phase 1 without batchWG.Wait
CollectedUnwritten ==
  /\ phase \in {"collWait1", "collWait2"} /\ CollyIdle
  /\ PhaseGoes(IF phase = "collWait1" THEN "wait" ELSE "closing")
  /\ UNCHANGED <<todo, doneChan, collyVars>>

\* collector.Wait returns
PhaseCollected ==
  /\ phase \in {"collWait1", "collWait2"} /\ CollyIdle
  /\ PhaseGoes(IF phase = "collWait1" THEN "batchWait" ELSE "closing")
  /\ UNCHANGED <<todo, doneChan, collyVars>>

\* batchWG.Wait returns
PhaseBatchWritten ==
  /\ phase = "batchWait" /\ batchWG = 0
  /\ PhaseGoes("wait")
  /\ UNCHANGED <<todo, doneChan, collyVars>>

\* the deferred close(doneChan)
PhaseClose ==
  /\ phase = "closing"
  /\ PhaseGoes("ended") /\ doneChan' = TRUE
  /\ UNCHANGED <<todo, collyVars>>

PhaseStep ==
  /\ Running
  /\ \/ PhaseWait \/ PhaseCheck \/ PhaseQuery \/ PhaseRequest \/ PhaseGiveUp
     \/ PhaseLoopEnds \/ PhaseCollected \/ PhaseBatchWritten \/ PhaseClose
-----------------------------------------------------------------------------
(* a fetch goroutine: OnRequest, the HTTP exchange, OnHTML or OnError *)

FetchGoes(u, to) ==
  /\ fetch' = [fetch EXCEPT ![u] = to]
  /\ UNCHANGED <<mainVars, phaseVars, seen, reqCtx, visited, toRequest,
                 chanClosed, writerVars>>

OnRequestCtx(u) ==
  /\ fetch[u] = "ctx"
  /\ FetchGoes(u, IF stopped THEN "done" ELSE "pause")
  /\ UNCHANGED <<toFollow, queueVars, outcome>>

OnRequestPause(u) ==
  /\ fetch[u] = "pause" /\ (~paused \/ stopped)
  /\ FetchGoes(u, IF paused THEN "done" ELSE "cap")
  /\ UNCHANGED <<toFollow, queueVars, outcome>>

OnRequestCap(u) ==
  /\ fetch[u] = "cap"
  /\ FetchGoes(u, IF ~reqCtx[u].recrawl /\ pageCount >= MaxPages
                    THEN "done" ELSE "get")
  /\ UNCHANGED <<toFollow, queueVars, outcome>>

\* (error) OnError retries the request
OnErrorRetries(u) ==
  /\ fetch[u] = "get"
  /\ FetchGoes(u, "ctx")
  /\ UNCHANGED <<toFollow, queueVars, outcome>>

\* OnError, or a response colly does not hand to OnHTML
OnError(u) ==
  /\ fetch[u] = "get"
  /\ FetchGoes(u, "done")
  /\ UNCHANGED <<toFollow, queueVars, outcome>>

\* the conditions of the returns at the head of processLinks
FollowsLinks(u) ==
  /\ ~reqCtx[u].recrawl
  /\ reqCtx[u].depth < MaxDepth
  /\ Site[u] = "guardian" \/ Kind[u] = "category"

AfterDocument(u) == IF FollowsLinks(u) THEN "links" ELSE "done"
LinksOf(u) == IF FollowsLinks(u) THEN Links[u] ELSE {}

\* (error) no batchWG.Add
DocumentNotCounted(u) ==
  /\ fetch[u] = "get" /\ Kind[u] = "article"
  /\ FetchGoes(u, "send")
  /\ outcome' = [outcome EXCEPT ![u] = "queued"]
  /\ UNCHANGED <<toFollow, queueVars>>

\* OnHTML for a page that gives a document: batchWG.Add, then the send
OnHTMLDocument(u) ==
  /\ fetch[u] = "get" /\ Kind[u] = "article"
  /\ FetchGoes(u, "send")
  /\ batchWG' = batchWG + 1
  /\ outcome' = [outcome EXCEPT ![u] = "queued"]
  /\ UNCHANGED <<toFollow, saveChan>>

\* OnHTML for another type of page, or a text that is too short
OnHTMLOther(u) ==
  /\ fetch[u] = "get"
  /\ FetchGoes(u, AfterDocument(u))
  /\ toFollow' = [toFollow EXCEPT ![u] = LinksOf(u)]
  /\ UNCHANGED <<queueVars, outcome>>

\* (error) a send with a default branch, which drops the document
SendOrDrop(u) ==
  /\ fetch[u] = "send"
  /\ saveChan' = IF Len(saveChan) < ChanCap THEN Append(saveChan, u) ELSE saveChan
  /\ FetchGoes(u, AfterDocument(u))
  /\ toFollow' = [toFollow EXCEPT ![u] = LinksOf(u)]
  /\ UNCHANGED <<batchWG, outcome>>

\* the send completes only while the channel has room
Send(u) ==
  /\ fetch[u] = "send" /\ Len(saveChan) < ChanCap
  /\ saveChan' = Append(saveChan, u)
  /\ FetchGoes(u, AfterDocument(u))
  /\ toFollow' = [toFollow EXCEPT ![u] = LinksOf(u)]
  /\ UNCHANGED <<batchWG, outcome>>

\* processLinks after the tests at its head: one link goes through LoadOrStore
\* and the type test, then it is handed to colly, then the next one comes
FollowLink(u, v) ==
  /\ fetch[u] = "links" /\ toRequest[u] = {} /\ v \in toFollow[u]
  /\ toFollow' = [toFollow EXCEPT ![u] = @ \ {v}]
  /\ visited' = visited \cup {v}
  /\ toRequest' = IF v \in visited \/ Kind[v] = "unknown"
                    THEN toRequest ELSE [toRequest EXCEPT ![u] = {v}]
  /\ UNCHANGED <<mainVars, phaseVars, collyVars, queueVars, chanClosed, writerVars,
                 outcome>>

RequestLink(u, v) ==
  /\ v \in toRequest[u]
  /\ toRequest' = [toRequest EXCEPT ![u] = @ \ {v}]
  /\ CollyRequest(v, DepthCtx(reqCtx[u].depth + 1))
  /\ UNCHANGED <<mainVars, phaseVars, visited, toFollow, queueVars, chanClosed,
                 writerVars, outcome>>

\* (error) each request is made by a goroutine of its own, which colly does not
\* wait for: the callback returns before the link is handed over
LinksDoneAhead(u) ==
  /\ fetch[u] = "links" /\ toFollow[u] = {}
  /\ FetchGoes(u, "done")
  /\ UNCHANGED <<toFollow, queueVars, outcome>>

LinksDone(u) ==
  /\ fetch[u] = "links" /\ toFollow[u] = {} /\ toRequest[u] = {}
  /\ FetchGoes(u, "done")
  /\ UNCHANGED <<toFollow, queueVars, outcome>>

FetchStep(u) ==
  /\ Running
  /\ \/ OnRequestCtx(u) \/ OnRequestPause(u) \/ OnRequestCap(u) \/ OnError(u)
     \/ OnHTMLDocument(u) \/ OnHTMLOther(u) \/ Send(u)
     \/ (\E v \in Urls : FollowLink(u, v) \/ RequestLink(u, v)) \/ LinksDone(u)
-----------------------------------------------------------------------------
(* the writer *)

WriterGoes(to) ==
  /\ writer' = to
  /\ UNCHANGED <<mainVars, phaseVars, collyVars, linkVars, chanClosed>>

\* range over the channel
Receive ==
  /\ writer = "recv" /\ saveChan # <<>>
  /\ cur' = Head(saveChan) /\ saveChan' = Tail(saveChan)
  /\ WriterGoes("pause")
  /\ UNCHANGED <<batchWG, pageCount, stale, outcome>>

\* (error) the loop ends when the channel is found empty
WriterExitsIdle ==
  /\ writer = "recv" /\ saveChan = <<>>
  /\ WriterGoes("exit")
  /\ UNCHANGED <<queueVars, cur, pageCount, stale, outcome>>

\* the range ends on a closed and empty channel; wgSave.Done
WriterExit ==
  /\ writer = "recv" /\ saveChan = <<>> /\ chanClosed
  /\ WriterGoes("exit")
  /\ UNCHANGED <<queueVars, cur, pageCount, stale, outcome>>

\* (error) the writer does not look at the pause
WriterNeverWaits ==
  /\ writer = "pause"
  /\ WriterGoes("save")
  /\ UNCHANGED <<queueVars, cur, pageCount, stale, outcome>>

\* waitIfPaused
WriterWait ==
  /\ writer = "pause" /\ (~paused \/ stopped)
  /\ WriterGoes("save")
  /\ UNCHANGED <<queueVars, cur, pageCount, stale, outcome>>

Saved ==
  /\ writer = "save"
  /\ WriterGoes("done")
  /\ pageCount' = pageCount + 1
  /\ stale' = stale \ {NormalizeURL[cur]}
  /\ outcome' = [outcome EXCEPT ![cur] = "saved"]
  /\ UNCHANGED <<queueVars, cur>>

\* (error) an error of the database skips batchWG.Done
SaveFailedContinues ==
  /\ writer = "save"
  /\ WriterGoes("recv")
  /\ outcome' = [outcome EXCEPT ![cur] = "failed"]
  /\ UNCHANGED <<queueVars, cur, pageCount, stale>>

\* (error) an error of the database ends the writer
SaveFailedReturns ==
  /\ writer = "save"
  /\ WriterGoes("exit")
  /\ outcome' = [outcome EXCEPT ![cur] = "failed"]
  /\ UNCHANGED <<queueVars, cur, pageCount, stale>>

\* (error) the counters go up before the error is looked at
SaveFailedCounted ==
  /\ writer = "save"
  /\ WriterGoes("done")
  /\ pageCount' = pageCount + 1
  /\ outcome' = [outcome EXCEPT ![cur] = "failed"]
  /\ UNCHANGED <<queueVars, cur, stale>>

\* The error is printed and the document dropped. When the answer of the
\* database was lost or late, the page has been stored all the same.
SaveFailed ==
  /\ writer = "save"
  /\ WriterGoes("done")
  /\ stale' \in {stale, stale \ {NormalizeURL[cur]}}
  /\ outcome' = [outcome EXCEPT ![cur] = "failed"]
  /\ UNCHANGED <<queueVars, cur, pageCount>>

BatchDone ==
  /\ writer = "done"
  /\ batchWG' = batchWG - 1
  /\ WriterGoes("recv")
  /\ UNCHANGED <<saveChan, cur, pageCount, stale, outcome>>

WriterStep ==
  /\ Running
  /\ Receive \/ WriterExit \/ WriterWait \/ Saved \/ SaveFailed \/ BatchDone

\* a page saved in this run grows older than the recrawl threshold
Age ==
  /\ Running /\ Aging
  /\ \E u \in Urls : outcome[u] = "saved" /\ stale' = stale \cup {NormalizeURL[u]}
  /\ UNCHANGED <<mainVars, phaseVars, collyVars, linkVars, queueVars, chanClosed,
                 writer, cur, pageCount, outcome>>
-----------------------------------------------------------------------------
Next ==
  \/ User \/ MainStep \/ PhaseStep \/ WriterStep \/ Age
  \/ \E u \in Urls : FetchStep(u)

\* The Go scheduler runs every goroutine that can take a step; nothing is
\* assumed of the person at the keyboard or of the age of the documents.
Fairness ==
  /\ WF_vars(MainStep) /\ WF_vars(PhaseStep) /\ WF_vars(WriterStep)
  /\ \A u \in Urls : WF_vars(FetchStep(u))

Spec == Init /\ [][Next]_vars
FairSpec == Spec /\ Fairness
-----------------------------------------------------------------------------
(* Properties *)

Sending == {u \in Urls : fetch[u] = "send"}
Queued == {saveChan[i] : i \in DOMAIN saveChan}
InHand == IF writer \in {"pause", "save"} THEN {cur} ELSE {}
Unwritten == Sending \cup Queued \cup InHand

EachOnce == \A i, j \in DOMAIN saveChan : saveChan[i] = saveChan[j] => i = j

\* The WaitGroup batchWG counts the documents between batchWG.Add in OnHTML
\* and batchWG.Done in the writer, in whatever order senders, channel and
\* writer move: it is never negative (Go would panic), and zero only when no
\* document is on its way.
BatchAccounting ==
  batchWG = Cardinality(Sending) + Len(saveChan)
            + (IF writer \in {"pause", "save", "done"} THEN 1 ELSE 0)

\* No goroutine is about to send on saveChan, or can still come to send on it,
\* once shutdown has closed it (Go would panic). It holds because shutdown is
\* only reached after runPhases has waited for colly.
NoSendOnClosedChannel == chanClosed => Active = {}

\* When runPhases asks the database for stale pages again, nothing of the
\* previous batch is on its way: every recrawled page is written or given up,
\* so the answer cannot name a page whose new version is still in the queue.
\* The same holds when discovery starts.
RecrawlBarrier ==
  phase \in {"wait", "check", "query", "check2"} =>
    Active = {} /\ Unwritten = {} /\ batchWG = 0

\* batchWG.Add is never called while runPhases is in batchWG.Wait: the
\* sync.WaitGroup contract that calls of Add from zero precede Wait.
NoAddDuringWait == [][phase = "batchWait" => batchWG' <= batchWG]_vars

\* When the report is printed every document that was made from a page has
\* been written or refused by the database, and the two counters it prints
\* are the number of pages written, each once.
ReportComplete ==
  main = "reported" =>
    /\ Unwritten = {} /\ writer = "exit"
    /\ \A u \in Urls : outcome[u] # "queued"
    /\ pageCount = Cardinality({u \in Urls : outcome[u] = "saved"})

\* While the crawler is paused the writer finishes at most the one document
\* it held when p was pressed (waitIfPaused is passed before SaveDocument).
PauseHoldsWriter == paused /\ ~stopped => pageCount - pauseMark \in {0, 1}

\* A document that was queued is neither dropped nor duplicated between the
\* callback and the database: until it is written or refused it is in exactly
\* one place, with its sender, once in the channel or with the writer.
NoDocumentLost ==
  /\ Unwritten = {u \in Urls : outcome[u] = "queued"}
  /\ Sending \cap Queued = {}
  /\ InHand \cap (Sending \cup Queued) = {}
  /\ EachOnce

\* When a crawl that was not stopped has ended, every link of a page whose
\* links were read has been entered in visited, and every known page among
\* the links has been handed to colly: no link falls between the two sets, though
\* whoever meets a link that another page has entered leaves it alone, and
\* collector.Wait may come while that link is not yet with colly.
DiscoveryClosed ==
  phase = "ended" /\ ~stopped =>
    /\ \A u \in Urls : toFollow[u] = {} /\ toRequest[u] = {}
    /\ \A v \in visited : Kind[v] # "unknown" => v \in seen
    /\ StartURLs \subseteq seen

\* what each goroutine waits for before its next step
PhaseCanMove ==
  \/ phase = "wait" /\ (~paused \/ stopped)
  \/ phase \in {"check", "query", "recrawl", "check2", "discover", "closing"}
  \/ phase \in {"collWait1", "collWait2"} /\ CollyIdle
  \/ phase = "batchWait" /\ batchWG = 0

WriterCanMove ==
  \/ writer = "recv" /\ (saveChan # <<>> \/ chanClosed)
  \/ writer = "pause" /\ (~paused \/ stopped)
  \/ writer \in {"save", "done"}

FetchCanMove(u) ==
  \/ fetch[u] \in {"ctx", "cap", "get", "links"}
  \/ fetch[u] = "pause" /\ (~paused \/ stopped)
  \/ fetch[u] = "send" /\ Len(saveChan) < ChanCap

CanMove == PhaseCanMove \/ WriterCanMove \/ \E u \in Urls : FetchCanMove(u)

Finished == doneChan /\ Unwritten = {} /\ Active = {}

\* No goroutine is stuck for good: when the person does nothing and no
\* goroutine can move, the crawler is paused or it has finished and waits for
\* Enter with every document written. In particular senders blocked on the
\* full channel, the writer and the two Waits never wait for each other.
NoneStuck == main = "scan" => CanMove \/ paused \/ Finished

\* NoneStuck, and who can move has a step to take.
Quiescence ==
  /\ NoneStuck
  /\ main = "scan" /\ CanMove =>
       ENABLED (PhaseStep \/ WriterStep \/ \E u \in Urls : FetchStep(u))

\* Once the crawler is not paused for ever, every document handed to the
\* writer is written or refused, unless the process ends first.
DocumentsGetWritten ==
  <>[]~paused =>
    \A u \in Urls : outcome[u] = "queued" ~> (outcome[u] # "queued" \/ ~Running)

\* Once the crawler is not paused for ever, discovery comes to an end.
DiscoveryEnds ==
  <>[]~paused => (phase = "discover" ~> (doneChan \/ ~Running))
-----------------------------------------------------------------------------
(* The abstract specification *)

End == CASE main = "reported" -> "reported" [] main = "exited" -> "abandoned"
         [] OTHER -> "open"

Pipeline == INSTANCE DocPipeline WITH count <- pageCount, end <- End

\* Whatever the interleaving of callbacks, channel, writer and keyboard, the
\* crawler keeps the promise of DocPipeline: no document is queued or written
\* twice, the report is final and comes when nothing is queued.
ImplementsPipeline == Pipeline!Spec

-----------------------------------------------------------------------------
(* The inductive invariant of the proofs, in named parts *)

\* how the five actors are synchronised
Control ==
  /\ main \in {"returning", "exited"} <=> stopped
  /\ main \in {"close", "waitSave", "reported"} => doneChan
  /\ doneChan <=> phase = "ended"
  /\ chanClosed <=> main \in {"waitSave", "reported"}
  /\ main = "reported" => writer = "exit"
  /\ writer = "exit" => chanClosed /\ saveChan = <<>>
  /\ phase \in {"closing", "ended"} /\ ~stopped => Active = {}
  /\ phase \in {"batchWait", "wait", "check", "query", "check2"} => Active = {}
  /\ phase \in {"wait", "check", "query", "check2"} => batchWG = 0

\* where the documents are, and what has become of each page
Places ==
  /\ \A u \in Urls : fetch[u] # "idle" => u \in seen
  /\ \A u \in Urls : fetch[u] \in {"idle", "ctx", "pause", "cap", "get"}
                      => outcome[u] = "none"
  /\ writer \in {"pause", "save", "done"} => cur \in Urls
  /\ NoDocumentLost

\* the counters of the report
Counted == pageCount = Cardinality({u \in Urls : outcome[u] = "saved"})

\* the document the writer may still finish after p was pressed
PauseWindow ==
  paused /\ ~stopped =>
    \/ pageCount = pauseMark
    \/ pageCount = pauseMark + 1 /\ writer # "save"

\* which URLs discovery has already handed to colly
Handed ==
  /\ \A u \in Urls : toFollow[u] # {} => fetch[u] = "links" /\ FollowsLinks(u)
  /\ \A u \in Urls : toRequest[u] # {} => fetch[u] = "links" /\ FollowsLinks(u)
  /\ \A v \in visited : Kind[v] # "unknown" =>
       v \in seen \/ \E u \in Urls : v \in toRequest[u]
  /\ phase = "discover" => StartURLs \subseteq seen \cup todo
  /\ phase = "collWait2" => StartURLs \subseteq seen
  /\ phase \in {"closing", "ended"} /\ ~stopped => StartURLs \subseteq seen

IInv == /\ TypeOK /\ Control /\ BatchAccounting /\ Places /\ Counted
        /\ PauseWindow /\ Handed
-----------------------------------------------------------------------------
(* What the report and the messages of the program promise, and the code does  *)
(* not keep: each of these is refuted by a run.                                *)

\* The algorithm of the report goes from the stale documents to the main loop:
\* phase 1 comes to an end. It does not while the answer of the database is
\* not empty, and a page that was not saved in this run stays in the answer,
\* although colly refuses to request it again.
RecrawlEnds ==
  <>[]~paused =>
    <>(phase \notin {"wait", "check", "query", "recrawl", "collWait1", "batchWait"}
       \/ ~Running)

\* "Crawling finished. Press Enter to exit report...": Enter leads to the
\* report. It does not when the writer waits for the end of a pause, because
\* main, the only reader of the keyboard, waits for the writer.
EnterLeadsToReport == main = "close" ~> main = "reported"

\* The crawler can be stopped at any moment and goes on from the document it
\* stopped at: a stop leaves no fetched document unwritten. Stop returns
\* without shutdown, so what is in the channel dies with the process.
StopKeepsDocuments == main = "exited" => Unwritten = {}
=============================================================================
