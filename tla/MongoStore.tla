------------------------------ MODULE MongoStore ------------------------------
(* The collection of documents that robot/internal/db/mongo.go keeps: the     *)
(* fetched pages of one crawler process wait to be saved, its writer saves    *)
(* them one at a time (SaveDocument: find, then upsert), sites change and     *)
(* time passes meanwhile. A call can fail, before or after the server has     *)
(* done its part, and the process can be killed and started again.            *)
(*                                                                            *)
(* A text is its content_hash: title, html_content and content_length are     *)
(* always set with it. How pages are fetched and queued is the subject of     *)
(* Spider; here any page is fetched at any time, once per process.            *)
EXTENDS Naturals, FiniteSets

CONSTANTS
  Urls,          \* the URLs under which pages are fetched
  Keys,          \* normalized URLs
  NormalizeURL,  \* several URLs may have the same normalized one
  Hashes,        \* the texts a page may have
  NoDoc,         \* no document is stored under a key, or none is being saved
  MaxTime,       \* bound: the clock
  MaxRuns        \* bound: processes, one after the other

ASSUME StoreAssumption ==
  /\ NormalizeURL \in [Urls -> Keys]
  /\ MaxTime \in Nat /\ MaxRuns \in Nat

\* what the crawler knows of a page it has fetched (models.Document)
Page == [url : Urls, content_hash : Hashes, last_scraped : Nat]

\* what is stored under a key
Record == [content_hash : Hashes, first_scraped : Nat, last_scraped : Nat,
           last_modified : Nat, scraped_count : Nat]

\* an upsert of one document, as decided by SaveDocument at time now
Update == [branch : {"new", "same", "changed"}, doc : Page, now : Nat]

ASSUME NoDocAssumption == NoDoc \notin Page \cup Record \cup Update

VARIABLES
  documents,  \* the collection, by normalized URL
  late,       \* updates the server may still carry out, though the client gave up
  slow,       \* may the server carry out an update after the client gave up?
  clock,      \* time.Now().Unix()
  content,    \* the text that is on the site now, by normalized URL
  waiting,    \* fetched pages on their way to the writer
  visited,    \* URLs this process has fetched
  runs,       \* processes started
  doc,        \* the page SaveDocument is called with
  update,     \* the update it has decided on
  scraped,    \* history: the pages fetched, as <<key, text, time>>
  reported,   \* history: saves of a key that returned no error
  doubtful    \* history: updates of a key that were sent and returned an error

site == <<clock, content>>
process == <<waiting, visited, runs>>
writer == <<doc, update>>
history == <<scraped, reported, doubtful>>
vars == <<documents, late, slow, site, process, writer, history>>

Init ==
  /\ documents = [k \in Keys |-> NoDoc] /\ late = {} /\ slow \in BOOLEAN
  /\ clock = 0 /\ content \in [Keys -> Hashes]
  /\ waiting = {} /\ visited = {} /\ runs = 1
  /\ doc = NoDoc /\ update = NoDoc
  /\ scraped = {}
  /\ reported = [k \in Keys |-> 0] /\ doubtful = [k \in Keys |-> 0]

Key(page) == NormalizeURL[page.url]
-----------------------------------------------------------------------------
(* The world *)

Tick ==
  /\ clock < MaxTime
  /\ clock' = clock + 1
  /\ UNCHANGED <<documents, late, slow, content, process, writer, history>>

SiteChanges ==
  /\ \E k \in Keys, h \in Hashes : content' = [content EXCEPT ![k] = h]
  /\ UNCHANGED <<documents, late, slow, clock, process, writer, history>>

\* (error) a URL may be fetched again while its first page waits
FetchedAgain(u) ==
  /\ Cardinality(scraped) < 4
  /\ visited' = visited \cup {u}
  /\ LET k == NormalizeURL[u]
     IN  /\ waiting' = waiting \cup
              {[url |-> u, content_hash |-> content[k], last_scraped |-> clock]}
         /\ scraped' = scraped \cup {<<k, content[k], clock>>}
  /\ UNCHANGED <<documents, late, slow, site, runs, writer, reported, doubtful>>

\* The callback for an article makes its document; what follows until the writer
\* receives it, in whatever order, is left out.
OnHTMLDocument(u) ==
  /\ u \notin visited
  /\ visited' = visited \cup {u}
  /\ LET k == NormalizeURL[u]
     IN  /\ waiting' = waiting \cup
              {[url |-> u, content_hash |-> content[k], last_scraped |-> clock]}
         /\ scraped' = scraped \cup {<<k, content[k], clock>>}
  /\ UNCHANGED <<documents, late, slow, site, runs, writer, reported, doubtful>>

\* The process is killed, or stopped with s, and started again.
Restart ==
  /\ runs < MaxRuns
  /\ runs' = runs + 1
  /\ waiting' = {} /\ visited' = {} /\ doc' = NoDoc /\ update' = NoDoc
  /\ UNCHANGED <<documents, late, slow, site, history>>
-----------------------------------------------------------------------------
(* SaveDocument *)

Receive ==
  /\ doc = NoDoc
  /\ doc' \in waiting
  /\ waiting' = waiting \ {doc'}
  /\ UNCHANGED <<documents, late, slow, site, visited, runs, update, history>>

\* (error) a page that is stored is never compared with what was fetched
BranchWithoutHash(existing, page) == IF existing = NoDoc THEN "new" ELSE "same"

\* (error) every page that is stored counts as changed
BranchAlwaysChanged(existing, page) == IF existing = NoDoc THEN "new" ELSE "changed"

\* which update SaveDocument builds from the answer of FindOne
Branch(existing, page) ==
  IF existing = NoDoc THEN "new"
  ELSE IF existing.content_hash = page.content_hash THEN "same" ELSE "changed"

FindOne ==
  /\ doc # NoDoc /\ update = NoDoc
  /\ update' = [branch |-> Branch(documents[Key(doc)], doc), doc |-> doc, now |-> clock]
  /\ UNCHANGED <<documents, late, slow, site, process, doc, history>>

\* an error other than ErrNoDocuments ends SaveDocument before it wrote anything
FindFails ==
  /\ doc # NoDoc /\ update = NoDoc
  /\ doc' = NoDoc
  /\ UNCHANGED <<documents, late, slow, site, process, update, history>>

\* (error) the counter of a new document is left to the next save
InsertedUncounted(r, u) ==
  [content_hash  |-> u.doc.content_hash, first_scraped |-> u.now,
   last_scraped  |-> u.doc.last_scraped, last_modified |-> u.doc.last_scraped,
   scraped_count |-> IF r = NoDoc THEN 0 ELSE r.scraped_count]

\* (error) first_scraped is set in the document only, not in the update
InsertedUndated(r, u) ==
  [content_hash  |-> u.doc.content_hash,
   last_scraped  |-> u.doc.last_scraped, last_modified |-> u.doc.last_scraped,
   scraped_count |-> (IF r = NoDoc THEN 0 ELSE r.scraped_count) + 1]

\* the update for a document that was not found: every field is set
Inserted(r, u) ==
  [content_hash  |-> u.doc.content_hash, first_scraped |-> u.now,
   last_scraped  |-> u.doc.last_scraped, last_modified |-> u.doc.last_scraped,
   scraped_count |-> (IF r = NoDoc THEN 0 ELSE r.scraped_count) + 1]

\* what update u makes of record r
Applied(r, u) ==
  CASE u.branch = "new" -> Inserted(r, u)
    [] u.branch = "same" ->
         [r EXCEPT !.last_scraped = u.doc.last_scraped, !.scraped_count = @ + 1]
    [] u.branch = "changed" ->
         [r EXCEPT !.content_hash = u.doc.content_hash, !.last_scraped = u.doc.last_scraped,
                   !.last_modified = u.now, !.scraped_count = @ + 1]

Carry(u) == documents' = [documents EXCEPT ![Key(u.doc)] = Applied(@, u)]

Returns == update # NoDoc /\ doc' = NoDoc /\ update' = NoDoc

UpdateOne ==
  /\ Returns
  /\ Carry(update)
  /\ reported' = [reported EXCEPT ![Key(doc)] = @ + 1]
  /\ UNCHANGED <<late, slow, site, process, scraped, doubtful>>

\* (error) SaveDocument does not look at the error of the update
UpdateFailsUnnoticed ==
  /\ Returns
  /\ UNCHANGED <<documents, late>> \/ (Carry(update) /\ UNCHANGED late)
  /\ reported' = [reported EXCEPT ![Key(doc)] = @ + 1]
  /\ UNCHANGED <<slow, site, process, scraped, doubtful>>

\* The error of a connection or of the 5 s timeout says nothing about what the
\* server did: nothing, the update, or the update at a later time.
UpdateFails ==
  /\ Returns
  /\ \/ UNCHANGED <<documents, late>>
     \/ Carry(update) /\ UNCHANGED late
     \/ slow /\ late' = late \cup {update} /\ UNCHANGED documents
  /\ doubtful' = [doubtful EXCEPT ![Key(doc)] = @ + 1]
  /\ UNCHANGED <<slow, site, process, scraped, reported>>

CarriedOutLate ==
  /\ \E u \in late : Carry(u) /\ late' = late \ {u}
  /\ UNCHANGED <<slow, site, process, writer, history>>
-----------------------------------------------------------------------------
Next ==
  \/ Tick \/ SiteChanges \/ Restart
  \/ \E u \in Urls : OnHTMLDocument(u)
  \/ Receive \/ FindOne \/ FindFails \/ UpdateOne \/ UpdateFails \/ CarriedOutLate

Spec == Init /\ [][Next]_vars
-----------------------------------------------------------------------------
(* Properties *)

Records == Record \cup {NoDoc}

\* Every record is complete, though only the first update of a key sets
\* first_scraped: an update never meets a key that was not there when the
\* collection was asked.
TypeOK ==
  /\ documents \in [Keys -> Records] /\ late \subseteq Update /\ slow \in BOOLEAN
  /\ clock \in Nat /\ content \in [Keys -> Hashes]
  /\ waiting \subseteq Page /\ visited \subseteq Urls /\ runs \in Nat
  /\ doc \in Page \cup {NoDoc} /\ update \in Update \cup {NoDoc}
  /\ scraped \subseteq Keys \X Hashes \X Nat
  /\ reported \in [Keys -> Nat] /\ doubtful \in [Keys -> Nat]

SavesOf(k) == IF documents[k] = NoDoc THEN 0 ELSE documents[k].scraped_count

\* scraped_count never misses a save that SaveDocument reported, so that such a
\* save is in the collection, and counts beyond these only saves whose update
\* failed without a certain answer; restarts and late updates included.
CountsSaves ==
  \A k \in Keys : reported[k] <= SavesOf(k) /\ SavesOf(k) <= reported[k] + doubtful[k]

\* What is stored is a snapshot: the text, and the time at which exactly this
\* text was fetched under this key. The branch of SaveDocument that only sets
\* last_scraped relies on the answer of an earlier call; it is enough that the
\* server carries out nothing after the client gave up.
StoredIsFetched ==
  ~slow => \A k \in Keys : documents[k] # NoDoc =>
             <<k, documents[k].content_hash, documents[k].last_scraped>> \in scraped

\* A stored document stays, and first_scraped is never set again, although
\* the branch that sets it is an upsert. (It follows from SavesAtomically.)
FirstScrapedFixed ==
  [][~slow => \A k \in Keys : documents[k] # NoDoc =>
        /\ documents'[k] # NoDoc
        /\ documents'[k].first_scraped = documents[k].first_scraped]_vars

\* last_modified moves exactly with the text: a save of the same text leaves it
\* alone, a save of another text dates the change no earlier than the fetch
\* that found it and no earlier than the change before.
ModifiedWithText ==
  [][~slow => \A k \in Keys : documents[k] # NoDoc =>
       LET r == documents[k]
           s == documents'[k]
       IN  IF s.content_hash = r.content_hash
             THEN s.last_modified = r.last_modified
             ELSE s.last_modified >= s.last_scraped /\ s.last_modified >= r.last_modified]_vars

\* two URLs of this key have been fetched by this process
TwoUrls(k) == \E u, v \in visited : u # v /\ NormalizeURL[u] = k /\ NormalizeURL[v] = k

\* last_scraped of a key goes back only if the process has fetched two URLs of
\* this key, whose pages can overtake each other on their way to the writer;
\* otherwise a restart or a failed save cannot bring an older time.
ScrapeTimeAdvances ==
  [][~slow => \A k \in Keys :
       documents[k] # NoDoc /\ documents'[k].last_scraped < documents[k].last_scraped
         => TwoUrls(k)]_vars

Atomic == INSTANCE AtomicStore

\* SaveDocument asks, decides and writes in calls of its own, without a
\* transaction, and every one of them may fail; still the collection changes as
\* if a save were one step: as in AtomicStore, unless the server carries out
\* updates late.
SavesAtomically ==
  Atomic!Init /\ [][~slow => [Atomic!Next]_(Atomic!storeVars)]_vars
-----------------------------------------------------------------------------
(* The inductive invariant: why these properties hold. *)

\* pages this process still has to save
Pages == waiting \cup ({doc} \ {NoDoc})

\* updates that were decided and are not carried out
Decided == late \cup ({update} \ {NoDoc})

\* the update that is under way is that of doc; nothing is late unless slow
Pending ==
  /\ update # NoDoc => doc # NoDoc /\ update.doc = doc
  /\ IsFiniteSet(late) /\ (~slow => late = {})

\* an update that is not an insertion finds its record: records are never removed
Grounded == \A u \in Decided : u.branch # "new" => documents[Key(u.doc)] # NoDoc

\* what FindOne was told still holds when the update is sent
StillTrue == ~slow /\ update # NoDoc => update.branch = Branch(documents[Key(doc)], doc)

\* every save that may still come was counted as doubtful when it failed
LateOf(k) == {u \in late : Key(u.doc) = k}
Counting ==
  \A k \in Keys :
    /\ reported[k] <= SavesOf(k)
    /\ SavesOf(k) + Cardinality(LateOf(k)) <= reported[k] + doubtful[k]

\* pages were fetched as they are
Snapshots ==
  \A p \in Pages : <<Key(p), p.content_hash, p.last_scraped>> \in scraped

\* no time is ahead of the clock, and the time of an update is between those of
\* its page and record and the clock
Times ==
  /\ \A p \in Pages : p.last_scraped <= clock
  /\ ~slow => \A k \in Keys : documents[k] # NoDoc =>
       documents[k].last_modified <= clock /\ documents[k].last_scraped <= clock
  /\ ~slow /\ update # NoDoc =>
       /\ doc.last_scraped <= update.now /\ update.now <= clock
       /\ documents[Key(doc)] # NoDoc => documents[Key(doc)].last_modified <= update.now

\* one page of a URL per process; a page is not older than what is stored, unless
\* another URL of its key came in between
Fresh ==
  /\ \A p \in Pages : p.url \in visited
  /\ \A p, q \in Pages : p.url = q.url => p = q
  /\ doc \notin waiting
  /\ ~slow => \A p \in Pages :
       documents[Key(p)] # NoDoc /\ p.last_scraped < documents[Key(p)].last_scraped
         => TwoUrls(Key(p))

\* All of it together holds in every state: what SaveDocument was told stays
\* true, and what is on its way is what was fetched.
IInv ==
  /\ TypeOK /\ Pending /\ Grounded /\ StillTrue /\ Counting
  /\ Snapshots /\ StoredIsFetched /\ Times /\ Fresh
=============================================================================
