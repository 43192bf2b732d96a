----------------------------- MODULE StoreProofs -----------------------------
(* Theorems about MongoStore, for all sets of URLs, keys and texts, every     *)
(* NormalizeURL, every clock and every number of processes. IInv is proved    *)
(* inductive part by part; the properties follow from it.                     *)
EXTENDS MongoStore, FiniteSetTheorems, TLAPS

LEMMA KeyTyped ==
  ASSUME NEW p \in Page
  PROVE  Key(p) \in Keys
  BY StoreAssumption DEF Key, Page

LEMMA NoDocIsNone == NoDoc \notin Page /\ NoDoc \notin Record /\ NoDoc \notin Update
  BY NoDocAssumption

\* What an update makes of a record, if it finds one or inserts one.
LEMMA AppliedTyped ==
  ASSUME NEW u \in Update, NEW r \in Records, u.branch # "new" => r # NoDoc
  PROVE  /\ Applied(r, u) \in Record
         /\ Applied(r, u).scraped_count = (IF r = NoDoc THEN 0 ELSE r.scraped_count) + 1
         /\ Applied(r, u).last_scraped = u.doc.last_scraped
  <1>1. u.doc \in Page /\ u.now \in Nat /\ u.branch \in {"new", "same", "changed"}
    BY DEF Update
  <1>2. u.doc.content_hash \in Hashes /\ u.doc.last_scraped \in Nat
    BY <1>1 DEF Page
  <1>3. CASE u.branch = "new"
    <2>1. (IF r = NoDoc THEN 0 ELSE r.scraped_count) \in Nat
      BY DEF Records, Record
    <2>2. Applied(r, u) = Inserted(r, u)
      BY <1>3 DEF Applied
    <2> QED  BY <1>1, <1>2, <2>1, <2>2 DEF Inserted, Record
  <1>4. CASE u.branch = "same"
    <2>1. r \in Record
      BY <1>4 DEF Records
    <2>2. Applied(r, u) =
            [r EXCEPT !.last_scraped = u.doc.last_scraped, !.scraped_count = @ + 1]
      BY <1>4 DEF Applied
    <2>3. r # NoDoc
      BY <2>1, NoDocIsNone
    <2>4. Applied(r, u) \in Record
      <3>1. Applied(r, u) =
              [content_hash |-> r.content_hash, first_scraped |-> r.first_scraped,
               last_scraped |-> u.doc.last_scraped, last_modified |-> r.last_modified,
               scraped_count |-> r.scraped_count + 1]
        BY <2>1, <2>2 DEF Record
      <3>2. /\ r.first_scraped \in Nat /\ r.last_modified \in Nat
            /\ r.content_hash \in Hashes /\ r.scraped_count + 1 \in Nat
        BY <2>1 DEF Record
      <3> QED  BY <1>1, <1>2, <3>1, <3>2 DEF Record
    <2>5. Applied(r, u).scraped_count = r.scraped_count + 1
      BY <2>1, <2>2 DEF Record
    <2>6. Applied(r, u).last_scraped = u.doc.last_scraped
      BY <2>1, <2>2 DEF Record
    <2> QED  BY <2>3, <2>4, <2>5, <2>6
  <1>5. CASE u.branch = "changed"
    <2>1. r \in Record
      BY <1>5 DEF Records
    <2>2. Applied(r, u) =
            [r EXCEPT !.content_hash = u.doc.content_hash, !.last_scraped = u.doc.last_scraped,
                      !.last_modified = u.now, !.scraped_count = @ + 1]
      BY <1>5 DEF Applied
    <2>3. r # NoDoc
      BY <2>1, NoDocIsNone
    <2>4. Applied(r, u) \in Record
      <3>1. Applied(r, u) =
              [content_hash |-> u.doc.content_hash, first_scraped |-> r.first_scraped,
               last_scraped |-> u.doc.last_scraped, last_modified |-> u.now,
               scraped_count |-> r.scraped_count + 1]
        BY <2>1, <2>2 DEF Record
      <3>2. /\ r.first_scraped \in Nat /\ r.last_modified \in Nat
            /\ r.content_hash \in Hashes /\ r.scraped_count + 1 \in Nat
        BY <2>1 DEF Record
      <3> QED  BY <1>1, <1>2, <3>1, <3>2 DEF Record
    <2>5. Applied(r, u).scraped_count = r.scraped_count + 1
      BY <2>1, <2>2 DEF Record
    <2>6. Applied(r, u).last_scraped = u.doc.last_scraped
      BY <2>1, <2>2 DEF Record
    <2> QED  BY <2>3, <2>4, <2>5, <2>6
  <1> QED  BY <1>1, <1>3, <1>4, <1>5

\* An update that finds its record changes the record of its key and no other.
LEMMA CarryEffect ==
  ASSUME TypeOK, Grounded, NEW u \in Decided, Carry(u)
  PROVE  /\ u \in Update /\ Key(u.doc) \in Keys
         /\ documents' \in [Keys -> Records]
         /\ documents'[Key(u.doc)] = Applied(documents[Key(u.doc)], u)
         /\ documents'[Key(u.doc)] \in Record
         /\ \A k \in Keys : k # Key(u.doc) => documents'[k] = documents[k]
  <1>1. u \in Update
    BY DEF TypeOK, Decided
  <1>2. Key(u.doc) \in Keys
    BY <1>1, KeyTyped DEF Update
  <1>3. Applied(documents[Key(u.doc)], u) \in Record
    BY <1>1, <1>2, AppliedTyped DEF TypeOK, Grounded
  <1> QED  BY <1>1, <1>2, <1>3 DEF Carry, TypeOK, Records
-----------------------------------------------------------------------------
(* The type invariant *)

LEMMA TypeStep ==
  ASSUME IInv, [Next]_vars
  PROVE  TypeOK'
  <1> USE DEF IInv
  <1>1. CASE Tick
    BY <1>1 DEF Tick, TypeOK, process, writer, history
  <1>2. CASE SiteChanges
    BY <1>2 DEF SiteChanges, TypeOK, process, writer, history
  <1>3. CASE Restart
    BY <1>3 DEF Restart, TypeOK, site, history
  <1>4. ASSUME NEW u \in Urls, OnHTMLDocument(u)
        PROVE  TypeOK'
    <2> DEFINE k == NormalizeURL[u]
               page == [url |-> u, content_hash |-> content[k], last_scraped |-> clock]
    <2>1. k \in Keys
      BY StoreAssumption
    <2>2. page \in Page
      BY <2>1 DEF TypeOK, Page
    <2>3. <<k, content[k], clock>> \in Keys \X Hashes \X Nat
      BY <2>1 DEF TypeOK
    <2>4. waiting' \subseteq Page /\ scraped' \subseteq Keys \X Hashes \X Nat
      BY <1>4, <2>2, <2>3 DEF OnHTMLDocument, TypeOK
    <2> QED  BY <1>4, <2>4 DEF OnHTMLDocument, TypeOK, site, writer
  <1>5. CASE Receive
    BY <1>5 DEF Receive, TypeOK, site, history
  <1>6. CASE FindOne
    <2>1. doc \in Page
      BY <1>6 DEF FindOne, TypeOK
    <2>2. [branch |-> Branch(documents[Key(doc)], doc), doc |-> doc, now |-> clock] \in Update
      BY <2>1 DEF Update, Branch, TypeOK
    <2> QED  BY <1>6, <2>2 DEF FindOne, TypeOK, site, process, history
  <1>7. CASE FindFails
    BY <1>7 DEF FindFails, TypeOK, site, process, history
  <1>8. CASE UpdateOne
    <2>1. update \in Decided /\ doc \in Page
      BY <1>8 DEF UpdateOne, Returns, Decided, Pending, TypeOK
    <2>2. documents' \in [Keys -> Records]
      BY <1>8, <2>1, CarryEffect DEF UpdateOne
    <2>3. reported' \in [Keys -> Nat]
      BY <1>8, <2>1, KeyTyped DEF UpdateOne, TypeOK
    <2> QED  BY <1>8, <2>2, <2>3 DEF UpdateOne, Returns, TypeOK, site, process
  <1>9. CASE UpdateFails
    <2>1. update \in Decided /\ update \in Update /\ doc \in Page
      BY <1>9 DEF UpdateFails, Returns, Decided, Pending, TypeOK
    <2>2. documents' \in [Keys -> Records] /\ late' \subseteq Update
      <3>1. CASE UNCHANGED <<documents, late>>
        BY <3>1 DEF TypeOK
      <3>2. CASE Carry(update) /\ UNCHANGED late
        BY <3>2, <2>1, CarryEffect DEF TypeOK
      <3>3. CASE late' = late \cup {update} /\ UNCHANGED documents
        BY <3>3, <2>1 DEF TypeOK
      <3> QED  BY <1>9, <3>1, <3>2, <3>3 DEF UpdateFails
    <2>3. doubtful' \in [Keys -> Nat]
      BY <1>9, <2>1, KeyTyped DEF UpdateFails, TypeOK
    <2> QED  BY <1>9, <2>2, <2>3 DEF UpdateFails, Returns, TypeOK, site, process
  <1>10. CASE CarriedOutLate
    <2>1. PICK u \in late : Carry(u) /\ late' = late \ {u}
      BY <1>10 DEF CarriedOutLate
    <2>2. documents' \in [Keys -> Records]
      BY <2>1, CarryEffect DEF Decided
    <2> QED  BY <1>10, <2>1, <2>2 DEF CarriedOutLate, TypeOK, site, process, writer, history
  <1>11. CASE UNCHANGED vars
    BY <1>11 DEF vars, TypeOK, site, process, writer, history
  <1> QED  BY <1>1, <1>2, <1>3, <1>4, <1>5, <1>6, <1>7, <1>8, <1>9, <1>10, <1>11 DEF Next
-----------------------------------------------------------------------------
(* What is on its way *)

LEMMA PendingStep ==
  ASSUME IInv, [Next]_vars
  PROVE  Pending'
  <1> USE DEF IInv, Pending
  <1>1. CASE FindOne
    BY <1>1 DEF FindOne, site, process, history
  <1>2. CASE UpdateFails
    BY <1>2, FS_AddElement DEF UpdateFails, Returns, site, process
  <1>3. CASE CarriedOutLate
    <2>1. PICK u \in late : late' = late \ {u}
      BY <1>3 DEF CarriedOutLate
    <2>2. IsFiniteSet(late')
      BY <2>1, FS_RemoveElement
    <2> QED  BY <1>3, <2>1, <2>2 DEF CarriedOutLate, writer
  <1>4. CASE Receive
    BY <1>4, NoDocIsNone DEF Receive, TypeOK, site, history
  <1>5. CASE Tick \/ SiteChanges \/ Restart \/ FindFails \/ UpdateOne \/ UNCHANGED vars
              \/ \E u \in Urls : OnHTMLDocument(u)
    BY <1>5 DEF Tick, SiteChanges, Restart, FindFails, UpdateOne, Returns, vars,
                OnHTMLDocument, site, process, writer, history
  <1> QED  BY <1>1, <1>2, <1>3, <1>4, <1>5 DEF Next

\* Records stay.
LEMMA DocumentsStay ==
  ASSUME IInv, [Next]_vars, NEW k \in Keys, documents[k] # NoDoc
  PROVE  documents'[k] # NoDoc
  <1> USE DEF IInv
  <1>1. ASSUME NEW u \in Decided, Carry(u)
        PROVE  documents'[k] # NoDoc
    BY <1>1, CarryEffect, NoDocIsNone
  <1>2. CASE UpdateOne \/ UpdateFails
    <2>1. update \in Decided
      BY <1>2 DEF UpdateOne, UpdateFails, Returns, Decided
    <2> QED  BY <1>1, <1>2, <2>1 DEF UpdateOne, UpdateFails
  <1>3. CASE CarriedOutLate
    BY <1>1, <1>3 DEF CarriedOutLate, Decided
  <1>4. CASE UNCHANGED documents
    BY <1>4
  <1> QED  BY <1>2, <1>3, <1>4 DEF Next, Tick, SiteChanges, Restart, OnHTMLDocument,
                                    Receive, FindOne, FindFails, vars

\* Every update of the next state was decided before, or found its record now.
LEMMA GroundedStep ==
  ASSUME IInv, [Next]_vars
  PROVE  Grounded'
  <1> USE DEF IInv
  <1>1. ASSUME NEW u \in Decided', u.branch # "new"
        PROVE  documents'[Key(u.doc)] # NoDoc
    <2>1. CASE u \in Decided
      <3>1. u \in Update /\ documents[Key(u.doc)] # NoDoc
        BY <1>1, <2>1 DEF Grounded, Decided, TypeOK
      <3>2. Key(u.doc) \in Keys
        BY <3>1, KeyTyped DEF Update
      <3> QED  BY <3>1, <3>2, DocumentsStay
    <2>2. CASE u \notin Decided
      <3>1. FindOne /\ u = update'
        BY <1>1, <2>2 DEF Next, Tick, SiteChanges, Restart, OnHTMLDocument, Receive, FindOne,
          FindFails, UpdateOne, UpdateFails, CarriedOutLate, Returns, vars, Decided,
          site, process, writer, history
      <3>2. u.branch = Branch(documents[Key(doc)], doc) /\ u.doc = doc
        BY <3>1 DEF FindOne
      <3> QED  BY <1>1, <3>1, <3>2 DEF Branch, FindOne
    <2> QED  BY <2>1, <2>2
  <1> QED  BY <1>1 DEF Grounded, Key

LEMMA StillTrueStep ==
  ASSUME IInv, [Next]_vars
  PROVE  StillTrue'
  <1> USE DEF IInv
  <1> SUFFICES ASSUME ~slow', update' # NoDoc
               PROVE  update'.branch = Branch(documents'[Key(doc')], doc')
    BY DEF StillTrue, Key
  <1>1. CASE FindOne
    BY <1>1 DEF FindOne
  <1>2. CASE UpdateOne \/ UpdateFails \/ Restart
    BY <1>2 DEF UpdateOne, UpdateFails, Returns, Restart
  <1>3. CASE CarriedOutLate
    BY <1>3 DEF CarriedOutLate, Pending
  <1>4. CASE Receive \/ FindFails
    BY <1>4 DEF Receive, FindFails, Pending, TypeOK
  <1>5. CASE Tick \/ SiteChanges \/ UNCHANGED vars \/ \E u \in Urls : OnHTMLDocument(u)
    BY <1>5 DEF Tick, SiteChanges, vars, OnHTMLDocument, StillTrue, site, process, writer
  <1> QED  BY <1>1, <1>2, <1>3, <1>4, <1>5 DEF Next
-----------------------------------------------------------------------------
(* The counter of saves *)

\* Carrying out one update is one save of its key, and none of another.
LEMMA OneSave ==
  ASSUME TypeOK, Grounded, NEW u \in Decided, Carry(u), NEW k \in Keys
  PROVE  /\ SavesOf(k) \in Nat
         /\ SavesOf(k)' = SavesOf(k) + (IF k = Key(u.doc) THEN 1 ELSE 0)
  <1>1. SavesOf(k) \in Nat
    BY DEF SavesOf, TypeOK, Records, Record
  <1>2. CASE k # Key(u.doc)
    BY <1>1, <1>2, CarryEffect DEF SavesOf
  <1>3. CASE k = Key(u.doc)
    <2>1. u \in Update /\ documents[k] \in Records
      BY <1>3, CarryEffect DEF TypeOK
    <2>2. u.branch # "new" => documents[k] # NoDoc
      BY <1>3 DEF Grounded
    <2>3. Applied(documents[k], u).scraped_count = SavesOf(k) + 1
      BY <2>1, <2>2, AppliedTyped DEF SavesOf
    <2>4. documents'[k] = Applied(documents[k], u) /\ documents'[k] # NoDoc
      BY <1>3, CarryEffect, NoDocIsNone
    <2> QED  BY <1>1, <1>3, <2>3, <2>4 DEF SavesOf
  <1> QED  BY <1>1, <1>2, <1>3

LEMMA CountingStep ==
  ASSUME IInv, [Next]_vars
  PROVE  Counting'
  <1> USE DEF IInv
  <1> SUFFICES ASSUME NEW k \in Keys
               PROVE  /\ reported'[k] <= SavesOf(k)'
                      /\ SavesOf(k)' + Cardinality(LateOf(k)') <= reported'[k] + doubtful'[k]
    BY DEF Counting
  <1>1. IsFiniteSet(LateOf(k)) /\ Cardinality(LateOf(k)) \in Nat
    BY FS_Subset, FS_CardinalityType DEF LateOf, Pending
  <1>2. reported[k] \in Nat /\ doubtful[k] \in Nat /\ SavesOf(k) \in Nat
    BY DEF TypeOK, SavesOf, Records, Record
  <1>3. /\ reported[k] <= SavesOf(k)
        /\ SavesOf(k) + Cardinality(LateOf(k)) <= reported[k] + doubtful[k]
    BY DEF Counting
  <1>4. CASE UpdateOne
    <2>1. update \in Decided /\ update.doc = doc
      BY <1>4 DEF UpdateOne, Returns, Decided, Pending
    <2>2. SavesOf(k)' = SavesOf(k) + (IF k = Key(doc) THEN 1 ELSE 0)
      BY <1>4, <2>1, OneSave DEF UpdateOne
    <2>3. reported'[k] = reported[k] + (IF k = Key(doc) THEN 1 ELSE 0)
      BY <1>2, <1>4 DEF UpdateOne, TypeOK
    <2>4. doubtful' = doubtful /\ LateOf(k)' = LateOf(k)
      BY <1>4 DEF UpdateOne, LateOf, Key
    <2> QED  BY <1>1, <1>2, <1>3, <2>2, <2>3, <2>4
  <1>5. CASE UpdateFails
    <2>1. update \in Decided /\ update.doc = doc
      BY <1>5 DEF UpdateFails, Returns, Decided, Pending
    <2>2. reported' = reported /\ doubtful'[k] = doubtful[k] + (IF k = Key(doc) THEN 1 ELSE 0)
      BY <1>2, <1>5 DEF UpdateFails, TypeOK
    <2>3. CASE UNCHANGED <<documents, late>>
      <3>1. SavesOf(k)' = SavesOf(k) /\ LateOf(k)' = LateOf(k)
        BY <2>3 DEF SavesOf, LateOf, Key
      <3> QED  BY <1>1, <1>2, <1>3, <2>2, <3>1
    <2>4. CASE Carry(update) /\ UNCHANGED late
      <3>1. SavesOf(k)' = SavesOf(k) + (IF k = Key(doc) THEN 1 ELSE 0)
        BY <2>1, <2>4, OneSave
      <3>2. LateOf(k)' = LateOf(k)
        BY <2>4 DEF LateOf, Key
      <3> QED  BY <1>1, <1>2, <1>3, <2>2, <3>1, <3>2
    <2>5. CASE late' = late \cup {update} /\ UNCHANGED documents
      <3>1. SavesOf(k)' = SavesOf(k)
        BY <2>5 DEF SavesOf
      <3>2. CASE k = Key(doc)
        <4>1. LateOf(k)' = LateOf(k) \cup {update}
          BY <2>1, <2>5, <3>2 DEF LateOf, Key
        <4>2. Cardinality(LateOf(k) \cup {update}) =
                IF update \in LateOf(k) THEN Cardinality(LateOf(k))
                                        ELSE Cardinality(LateOf(k)) + 1
          BY <1>1, FS_AddElement
        <4>3. /\ Cardinality(LateOf(k)') \in Nat
              /\ Cardinality(LateOf(k)') <= Cardinality(LateOf(k)) + 1
          BY <1>1, <4>1, <4>2
        <4> QED  BY <1>1, <1>2, <1>3, <2>2, <3>1, <3>2, <4>3
      <3>3. CASE k # Key(doc)
        <4>1. LateOf(k)' = LateOf(k)
          BY <2>1, <2>5, <3>3 DEF LateOf, Key
        <4> QED  BY <1>1, <1>2, <1>3, <2>2, <3>1, <3>3, <4>1
      <3> QED  BY <3>2, <3>3
    <2> QED  BY <1>5, <2>3, <2>4, <2>5 DEF UpdateFails
  <1>6. CASE CarriedOutLate
    <2>1. PICK u \in late : Carry(u) /\ late' = late \ {u}
      BY <1>6 DEF CarriedOutLate
    <2>2. SavesOf(k)' = SavesOf(k) + (IF k = Key(u.doc) THEN 1 ELSE 0)
      BY <2>1, OneSave DEF Decided
    <2>3. reported' = reported /\ doubtful' = doubtful
      BY <1>6 DEF CarriedOutLate, history
    <2>4. CASE k = Key(u.doc)
      <3>1. LateOf(k)' = LateOf(k) \ {u} /\ u \in LateOf(k)
        BY <2>1, <2>4 DEF LateOf, Key
      <3>2. Cardinality(LateOf(k)') = Cardinality(LateOf(k)) - 1
        BY <1>1, <3>1, FS_RemoveElement
      <3> QED  BY <1>1, <1>2, <1>3, <2>2, <2>3, <2>4, <3>2
    <2>5. CASE k # Key(u.doc)
      <3>1. LateOf(k)' = LateOf(k)
        BY <2>1, <2>5 DEF LateOf, Key
      <3> QED  BY <1>1, <1>2, <1>3, <2>2, <2>3, <2>5, <3>1
    <2> QED  BY <2>4, <2>5
  <1>7. CASE UNCHANGED <<documents, late, reported, doubtful>>
    <2>1. SavesOf(k)' = SavesOf(k) /\ LateOf(k)' = LateOf(k)
      BY <1>7 DEF SavesOf, LateOf, Key
    <2> QED  BY <1>3, <1>7, <2>1
  <1> QED  BY <1>4, <1>5, <1>6, <1>7 DEF Next, Tick, SiteChanges, Restart, OnHTMLDocument,
             Receive, FindOne, FindFails, vars, history
-----------------------------------------------------------------------------
(* Texts and times *)

LEMMA SlowStays ==
  ASSUME [Next]_vars
  PROVE  slow' = slow
  BY DEF Next, Tick, SiteChanges, Restart, OnHTMLDocument, Receive, FindOne, FindFails,
         UpdateOne, UpdateFails, CarriedOutLate, vars

LEMMA ScrapedGrows ==
  ASSUME [Next]_vars
  PROVE  scraped \subseteq scraped'
  BY DEF Next, Tick, SiteChanges, Restart, OnHTMLDocument, Receive, FindOne, FindFails,
         UpdateOne, UpdateFails, CarriedOutLate, vars, history

\* A page of the next state was there before, or has just been fetched.
LEMMA PagesStep ==
  ASSUME IInv, [Next]_vars, NEW p \in Pages'
  PROVE  /\ p \in Page
         /\ \/ p \in Pages /\ UNCHANGED runs
            \/ /\ OnHTMLDocument(p.url) /\ p.last_scraped = clock
               /\ p.content_hash = content[Key(p)]
  <1> USE DEF IInv
  <1>1. Pages \subseteq Page
    BY DEF Pages, TypeOK
  <1>2. ASSUME NEW u \in Urls, OnHTMLDocument(u), p \notin Pages
        PROVE  /\ p.url = u /\ p.last_scraped = clock /\ p.content_hash = content[Key(p)]
               /\ p \in Page
    <2> DEFINE page == [url |-> u, content_hash |-> content[NormalizeURL[u]],
                        last_scraped |-> clock]
    <2>1. p = page
      BY <1>2 DEF OnHTMLDocument, Pages, writer
    <2>2. page \in Page
      BY StoreAssumption DEF Page, TypeOK
    <2> QED  BY <2>1, <2>2 DEF Key
  <1>3. CASE \E u \in Urls : OnHTMLDocument(u)
    <2>1. UNCHANGED runs
      BY <1>3 DEF OnHTMLDocument
    <2> QED  BY <1>1, <1>2, <1>3, <2>1
  <1>4. CASE Receive
    BY <1>1, <1>4 DEF Receive, Pages
  <1>5. CASE Restart
    BY <1>5 DEF Restart, Pages
  <1>6. CASE UpdateOne \/ UpdateFails \/ FindFails
    BY <1>1, <1>6 DEF UpdateOne, UpdateFails, FindFails, Returns, Pages, process
  <1>7. CASE Tick \/ SiteChanges \/ FindOne \/ CarriedOutLate \/ UNCHANGED vars
    BY <1>1, <1>7 DEF Tick, SiteChanges, FindOne, CarriedOutLate, vars, Pages, process, writer
  <1> QED  BY <1>3, <1>4, <1>5, <1>6, <1>7 DEF Next

LEMMA SnapshotsStep ==
  ASSUME IInv, [Next]_vars
  PROVE  Snapshots'
  <1> USE DEF IInv
  <1>1. scraped \subseteq scraped'
    BY ScrapedGrows
  <1>2. ASSUME NEW p \in Pages'
        PROVE  <<Key(p), p.content_hash, p.last_scraped>> \in scraped'
    <2>1. CASE p \in Pages
      BY <1>1, <2>1 DEF Snapshots
    <2>2. CASE p \notin Pages
      BY <1>2, <2>2, PagesStep DEF OnHTMLDocument, Key
    <2> QED  BY <2>1, <2>2
  <1> QED  BY <1>2 DEF Snapshots, Key

\* Without slow updates a record changes only when the update of doc is carried
\* out, and FindOne's answer was true.
LEMMA OnlyWriterChanges ==
  ASSUME IInv, [Next]_vars, ~slow, NEW k \in Keys, documents'[k] # documents[k]
  PROVE  /\ UpdateOne \/ UpdateFails
         /\ doc \in Pages /\ doc \in Page /\ update \in Update /\ update.doc = doc
         /\ k = Key(doc)
         /\ documents'[k] = Applied(documents[k], update)
         /\ update.branch = Branch(documents[k], doc)
         /\ UNCHANGED <<clock, scraped, visited>>
  <1> USE DEF IInv
  <1>1. UpdateOne \/ UpdateFails
    BY DEF Next, Tick, SiteChanges, Restart, OnHTMLDocument, Receive, FindOne, FindFails,
           CarriedOutLate, Pending, vars
  <1>2. Carry(update) /\ update # NoDoc
    BY <1>1 DEF UpdateOne, UpdateFails, Returns
  <1>3. doc # NoDoc /\ update.doc = doc /\ update \in Decided
    BY <1>2 DEF Pending, Decided
  <1>4. k = Key(doc) /\ documents'[k] = Applied(documents[k], update) /\ update \in Update
    BY <1>2, <1>3, CarryEffect
  <1>5. doc \in Pages /\ doc \in Page
    BY <1>3 DEF Pages, TypeOK
  <1>6. update.branch = Branch(documents[k], doc)
    BY <1>2, <1>4 DEF StillTrue
  <1>7. UNCHANGED <<clock, scraped, visited>>
    BY <1>1 DEF UpdateOne, UpdateFails, site, process
  <1> QED  BY <1>1, <1>3, <1>4, <1>5, <1>6, <1>7

\* The three branches, field by field.
LEMMA BranchFields ==
  ASSUME NEW r \in Records, NEW u \in Update, u.branch = Branch(r, u.doc)
  PROVE  LET s == Applied(r, u)
         IN  /\ s.content_hash = u.doc.content_hash
             /\ s.last_scraped = u.doc.last_scraped
             /\ r # NoDoc => s.first_scraped = r.first_scraped
             /\ r # NoDoc /\ s.content_hash = r.content_hash
                  => s.last_modified = r.last_modified
             /\ r # NoDoc /\ s.content_hash # r.content_hash => s.last_modified = u.now
             /\ r = NoDoc => s.last_modified = u.doc.last_scraped
  <1>1. CASE r = NoDoc
    <2>1. Applied(r, u) = Inserted(r, u)
      BY <1>1 DEF Branch, Applied
    <2> QED  BY <1>1, <2>1 DEF Inserted
  <1>2. CASE r # NoDoc /\ r.content_hash = u.doc.content_hash
    <2>1. u.branch = "same" /\ r \in Record
      BY <1>2 DEF Branch, Records
    <2>2. Applied(r, u) =
            [r EXCEPT !.last_scraped = u.doc.last_scraped, !.scraped_count = @ + 1]
      BY <2>1 DEF Applied
    <2> QED  BY <1>2, <2>1, <2>2 DEF Record
  <1>3. CASE r # NoDoc /\ r.content_hash # u.doc.content_hash
    <2>1. u.branch = "changed" /\ r \in Record
      BY <1>3 DEF Branch, Records
    <2>2. Applied(r, u) =
            [r EXCEPT !.content_hash = u.doc.content_hash, !.last_scraped = u.doc.last_scraped,
                      !.last_modified = u.now, !.scraped_count = @ + 1]
      BY <2>1 DEF Applied
    <2> QED  BY <1>3, <2>1, <2>2 DEF Record
  <1> QED  BY <1>1, <1>2, <1>3
-----------------------------------------------------------------------------
LEMMA StoredStep ==
  ASSUME IInv, [Next]_vars
  PROVE  StoredIsFetched'
  <1> USE DEF IInv
  <1> SUFFICES ASSUME ~slow, NEW k \in Keys, documents'[k] # NoDoc
               PROVE  <<k, documents'[k].content_hash, documents'[k].last_scraped>> \in scraped'
    BY SlowStays DEF StoredIsFetched
  <1>1. CASE documents'[k] = documents[k]
    BY <1>1, ScrapedGrows DEF StoredIsFetched
  <1>2. CASE documents'[k] # documents[k]
    <2>1. /\ doc \in Pages /\ update \in Update /\ update.doc = doc /\ k = Key(doc)
          /\ documents'[k] = Applied(documents[k], update)
          /\ update.branch = Branch(documents[k], doc) /\ scraped' = scraped
      BY <1>2, OnlyWriterChanges
    <2>2. documents[k] \in Records
      BY DEF TypeOK
    <2>3. /\ documents'[k].content_hash = doc.content_hash
          /\ documents'[k].last_scraped = doc.last_scraped
      BY <2>1, <2>2, BranchFields
    <2> QED  BY <2>1, <2>3 DEF Snapshots
  <1> QED  BY <1>1, <1>2

LEMMA TimesStep ==
  ASSUME IInv, [Next]_vars
  PROVE  Times'
  <1> USE DEF IInv
  <1>1. clock \in Nat /\ clock' \in Nat /\ clock <= clock'
    BY DEF TypeOK, Next, Tick, SiteChanges, Restart, OnHTMLDocument, Receive, FindOne,
           FindFails, UpdateOne, UpdateFails, CarriedOutLate, vars, site
  <1>2. ASSUME NEW p \in Pages'
        PROVE  p.last_scraped <= clock'
    <2>1. p \in Page
      BY <1>2, PagesStep
    <2>2. p.last_scraped \in Nat /\ p.last_scraped <= clock
      BY <1>1, <1>2, <2>1, PagesStep DEF Times, Page
    <2> QED  BY <1>1, <2>2
  <1>3. ASSUME ~slow, NEW k \in Keys, documents'[k] # NoDoc
        PROVE  documents'[k].last_modified <= clock' /\ documents'[k].last_scraped <= clock'
    <2>1. documents[k] \in Records /\ (documents[k] # NoDoc => documents[k] \in Record)
      BY DEF TypeOK, Records
    <2>2. documents[k] # NoDoc => /\ documents[k].last_modified \in Nat
                                  /\ documents[k].last_modified <= clock
                                  /\ documents[k].last_scraped \in Nat
                                  /\ documents[k].last_scraped <= clock
      BY <1>3, <2>1 DEF Times, Record
    <2>3. CASE documents'[k] = documents[k]
      BY <1>1, <1>3, <2>2, <2>3
    <2>4. CASE documents'[k] # documents[k]
      <3>1. /\ UpdateOne \/ UpdateFails
            /\ doc \in Pages /\ doc \in Page /\ update \in Update /\ update.doc = doc
            /\ k = Key(doc)
            /\ documents'[k] = Applied(documents[k], update)
            /\ update.branch = Branch(documents[k], doc) /\ clock' = clock
        BY <1>3, <2>4, OnlyWriterChanges
      <3>2. update # NoDoc
        BY <3>1 DEF UpdateOne, UpdateFails, Returns
      <3>3. doc.last_scraped <= clock /\ update.now <= clock
        BY <1>3, <3>1, <3>2 DEF Times
      <3>4. /\ documents'[k].last_scraped = doc.last_scraped
            /\ \/ documents'[k].last_modified = documents[k].last_modified
                  /\ documents[k] # NoDoc
               \/ documents'[k].last_modified = update.now
               \/ documents'[k].last_modified = doc.last_scraped
        BY <2>1, <3>1, BranchFields
      <3> QED  BY <2>2, <3>1, <3>3, <3>4
    <2> QED  BY <2>3, <2>4
  <1>4. ASSUME ~slow, update' # NoDoc
        PROVE  /\ doc'.last_scraped <= update'.now /\ update'.now <= clock'
               /\ documents'[Key(doc')] # NoDoc =>
                    documents'[Key(doc')].last_modified <= update'.now
    <2>1. CASE FindOne
      <3>1. /\ doc' = doc /\ update'.now = clock /\ documents' = documents
            /\ clock' = clock /\ doc \in Pages /\ doc \in Page
        BY <2>1 DEF FindOne, site, Pages, TypeOK
      <3>2. Key(doc) \in Keys
        BY <3>1, KeyTyped
      <3> QED  BY <1>1, <1>4, <3>1, <3>2 DEF Times
    <2>2. CASE ~FindOne
      <3>1. update' = update /\ doc' = doc /\ update # NoDoc
        BY <1>4, <2>2 DEF Next, Tick, SiteChanges, Restart, OnHTMLDocument, Receive,
             FindFails, UpdateOne, UpdateFails, Returns, CarriedOutLate, Pending, vars, writer
      <3>2. documents' = documents
        BY <1>4, <2>2, <3>1 DEF Next, Tick, SiteChanges, Restart, OnHTMLDocument, Receive,
             FindFails, UpdateOne, UpdateFails, Returns, CarriedOutLate, Pending, vars
      <3>3. update.now \in Nat
        BY <3>1 DEF TypeOK, Update
      <3> QED  BY <1>1, <1>4, <3>1, <3>2, <3>3 DEF Times
    <2> QED  BY <2>1, <2>2
  <1> QED  BY <1>2, <1>3, <1>4, SlowStays DEF Times, Key
-----------------------------------------------------------------------------
(* One page of a URL per process *)

\* Only a restart forgets what has been fetched.
LEMMA VisitedGrows ==
  ASSUME TypeOK, [Next]_vars, UNCHANGED runs
  PROVE  visited \subseteq visited'
  BY DEF TypeOK, Next, Tick, SiteChanges, Restart, OnHTMLDocument, Receive, FindOne,
         FindFails, UpdateOne, UpdateFails, CarriedOutLate, vars, process

LEMMA FreshStep ==
  ASSUME IInv, [Next]_vars
  PROVE  Fresh'
  <1> USE DEF IInv
  <1>1. Pages \subseteq Page
    BY DEF Pages, TypeOK
  <1>2. ASSUME NEW p \in Pages'
        PROVE  p.url \in visited'
    <2>1. CASE p \in Pages /\ UNCHANGED runs
      BY <2>1, VisitedGrows DEF Fresh
    <2>2. CASE OnHTMLDocument(p.url)
      BY <2>2 DEF OnHTMLDocument
    <2> QED  BY <1>2, <2>1, <2>2, PagesStep
  <1>3. ASSUME NEW p \in Pages', NEW q \in Pages', p.url = q.url
        PROVE  p = q
    <2>1. CASE p \in Pages /\ q \in Pages
      BY <1>3, <2>1 DEF Fresh
    <2>2. CASE p \notin Pages /\ q \notin Pages
      <3>1. /\ p \in Page /\ q \in Page
            /\ p.last_scraped = clock /\ q.last_scraped = clock
            /\ p.content_hash = content[Key(p)] /\ q.content_hash = content[Key(q)]
        BY <1>3, <2>2, PagesStep
      <3>2. p.content_hash = q.content_hash /\ p.last_scraped = q.last_scraped
        BY <1>3, <3>1 DEF Key
      <3>3. /\ p = [url |-> p.url, content_hash |-> p.content_hash,
                    last_scraped |-> p.last_scraped]
            /\ q = [url |-> q.url, content_hash |-> q.content_hash,
                    last_scraped |-> q.last_scraped]
        BY <3>1 DEF Page
      <3> QED  BY <1>3, <3>2, <3>3
    <2>3. ASSUME NEW r \in Pages', r \in Pages, NEW s \in Pages', s \notin Pages
          PROVE  r.url # s.url
      BY <2>3, PagesStep DEF Fresh, OnHTMLDocument
    <2> QED  BY <1>3, <2>1, <2>2, <2>3
  <1>4. doc' \notin waiting'
    <2>1. doc \notin waiting /\ NoDoc \notin waiting
      BY NoDocIsNone DEF Fresh, TypeOK
    <2>2. ASSUME NEW u \in Urls, OnHTMLDocument(u)
          PROVE  doc' \notin waiting'
      <3>1. CASE doc = NoDoc
        <4>1. doc' = NoDoc /\ waiting' \subseteq Page
          BY <2>2, <3>1, TypeStep DEF OnHTMLDocument, writer, TypeOK
        <4> QED  BY <4>1, NoDocIsNone
      <3>2. CASE doc # NoDoc
        <4>1. doc.url \in visited
          BY <3>2 DEF Fresh, Pages
        <4> QED  BY <2>1, <2>2, <4>1 DEF OnHTMLDocument, writer
      <3> QED  BY <3>1, <3>2
    <2>3. CASE Receive \/ Restart
      BY <2>3 DEF Receive, Restart
    <2>4. CASE UpdateOne \/ UpdateFails \/ FindFails
      BY <2>1, <2>4 DEF UpdateOne, UpdateFails, FindFails, Returns, process
    <2>5. CASE Tick \/ SiteChanges \/ FindOne \/ CarriedOutLate \/ UNCHANGED vars
      BY <2>1, <2>5 DEF Tick, SiteChanges, FindOne, CarriedOutLate, vars, process, writer
    <2> QED  BY <2>2, <2>3, <2>4, <2>5 DEF Next
  <1>5. ASSUME ~slow, NEW p \in Pages', documents'[Key(p)] # NoDoc,
               p.last_scraped < documents'[Key(p)].last_scraped
        PROVE  TwoUrls(Key(p))'
    <2> DEFINE k == Key(p)
    <2>1. p \in Page /\ k \in Keys
      BY <1>5, PagesStep, KeyTyped
    <2>2. CASE p \notin Pages
      <3>1. p.last_scraped = clock /\ documents' = documents
        BY <1>5, <2>2, PagesStep DEF OnHTMLDocument
      <3>2. documents[k] # NoDoc /\ documents[k].last_scraped <= clock
        BY <1>5, <2>1, <3>1 DEF Times
      <3>3. documents[k].last_scraped \in Nat /\ clock \in Nat
        BY <2>1, <3>2 DEF TypeOK, Records, Record
      <3> QED  BY <1>5, <3>1, <3>2, <3>3
    <2>3. CASE p \in Pages /\ documents'[k] = documents[k]
      <3>1. TwoUrls(k)
        BY <1>5, <2>3 DEF Fresh
      <3>2. visited \subseteq visited'
        BY <1>5, <2>3, PagesStep, VisitedGrows DEF OnHTMLDocument
      <3> QED  BY <3>1, <3>2 DEF TwoUrls
    <2>4. CASE p \in Pages /\ documents'[k] # documents[k]
      <3>1. /\ UpdateOne \/ UpdateFails
            /\ doc \in Pages /\ doc \in Page /\ k = Key(doc) /\ visited' = visited
        BY <1>5, <2>1, <2>4, OnlyWriterChanges
      <3>2. p \in waiting
        BY <1>5, <3>1 DEF UpdateOne, UpdateFails, Returns, Pages, process
      <3>3. p # doc
        BY <3>2 DEF Fresh
      <3>4. p.url # doc.url /\ p.url \in visited /\ doc.url \in visited
        BY <2>4, <3>1, <3>3 DEF Fresh
      <3>5. NormalizeURL[p.url] = k /\ NormalizeURL[doc.url] = k
        BY <3>1 DEF Key
      <3> QED  BY <3>1, <3>4, <3>5 DEF TwoUrls
    <2> QED  BY <2>2, <2>3, <2>4
  <1>6. ASSUME ~slow', NEW p \in Pages', documents'[Key(p)] # NoDoc,
               p.last_scraped < documents'[Key(p)].last_scraped
        PROVE  TwoUrls(Key(p))'
    BY <1>5, <1>6, SlowStays
  <1> QED  BY <1>2, <1>3, <1>4, <1>6 DEF Fresh, Key
-----------------------------------------------------------------------------
(* The theorems *)

LEMMA InitIInv == Init => IInv
  <1> SUFFICES ASSUME Init
               PROVE  IInv
    OBVIOUS
  <1> USE DEF Init
  <1>1. TypeOK
    BY DEF TypeOK, Records
  <1>2. Pages = {} /\ Decided = {}
    BY DEF Pages, Decided
  <1>3. Pending /\ Grounded /\ StillTrue
    BY <1>2, FS_EmptySet DEF Pending, Grounded, StillTrue
  <1>4. ASSUME NEW k \in Keys
        PROVE  SavesOf(k) = 0 /\ LateOf(k) = {}
    BY DEF SavesOf, LateOf
  <1>5. Counting
    BY <1>4, FS_EmptySet DEF Counting
  <1>6. Snapshots /\ StoredIsFetched /\ Times
    BY <1>2 DEF Snapshots, StoredIsFetched, Times
  <1>7. Fresh
    BY <1>2 DEF Fresh
  <1> QED  BY <1>1, <1>3, <1>5, <1>6, <1>7 DEF IInv

LEMMA IInvStep == IInv /\ [Next]_vars => IInv'
  <1> SUFFICES ASSUME IInv, [Next]_vars
               PROVE  IInv'
    OBVIOUS
  <1> QED  BY TypeStep, PendingStep, GroundedStep, StillTrueStep, CountingStep,
              SnapshotsStep, StoredStep, TimesStep, FreshStep DEF IInv

\* The inductive invariant of SaveDocument: what FindOne answered stays true
\* until the update is sent, what is on its way was fetched, and no save is lost.
THEOREM Invariance == Spec => []IInv
  BY InitIInv, IInvStep, PTL DEF Spec

\* Every stored record has all its fields, whatever failed or came late.
THEOREM TypeCorrect == Spec => []TypeOK
  BY Invariance, PTL DEF IInv

\* scraped_count counts every save that was reported, and beyond these only
\* saves whose update failed.
THEOREM SavesCounted == Spec => []CountsSaves
  <1>1. IInv => CountsSaves
    <2> SUFFICES ASSUME IInv, NEW k \in Keys
                 PROVE  reported[k] <= SavesOf(k) /\ SavesOf(k) <= reported[k] + doubtful[k]
      BY DEF CountsSaves
    <2> USE DEF IInv
    <2>1. Cardinality(LateOf(k)) \in Nat
      BY FS_Subset, FS_CardinalityType DEF LateOf, Pending
    <2>2. reported[k] \in Nat /\ doubtful[k] \in Nat /\ SavesOf(k) \in Nat
      BY DEF TypeOK, SavesOf, Records, Record
    <2>3. /\ reported[k] <= SavesOf(k)
          /\ SavesOf(k) + Cardinality(LateOf(k)) <= reported[k] + doubtful[k]
      BY DEF Counting
    <2> QED  BY <2>1, <2>2, <2>3
  <1> QED  BY <1>1, Invariance, PTL

\* What is stored was fetched, text and time together.
THEOREM Stored == Spec => []StoredIsFetched
  BY Invariance, PTL DEF IInv

\* first_scraped is set once, and no document disappears.
THEOREM FirstScraped == Spec => FirstScrapedFixed
  <1>1. ASSUME IInv, [Next]_vars, ~slow, NEW k \in Keys, documents[k] # NoDoc
        PROVE  documents'[k] # NoDoc /\ documents'[k].first_scraped = documents[k].first_scraped
    <2>1. documents'[k] # NoDoc
      BY <1>1, DocumentsStay
    <2>2. CASE documents'[k] # documents[k]
      <3>1. /\ update \in Update /\ update.doc = doc
            /\ documents'[k] = Applied(documents[k], update)
            /\ update.branch = Branch(documents[k], doc)
        BY <1>1, <2>2, OnlyWriterChanges
      <3>2. documents[k] \in Records
        BY <1>1 DEF IInv, TypeOK
      <3> QED  BY <1>1, <2>1, <3>1, <3>2, BranchFields
    <2> QED  BY <2>1, <2>2
  <1>2. IInv /\ [Next]_vars =>
          [~slow => \A k \in Keys : documents[k] # NoDoc =>
             /\ documents'[k] # NoDoc
             /\ documents'[k].first_scraped = documents[k].first_scraped]_vars
    BY <1>1
  <1> QED  BY <1>2, Invariance, PTL DEF Spec, FirstScrapedFixed

\* last_modified moves exactly with the text, and forward.
THEOREM Modified == Spec => ModifiedWithText
  <1>1. ASSUME IInv, [Next]_vars, ~slow, NEW k \in Keys, documents[k] # NoDoc
        PROVE  IF documents'[k].content_hash = documents[k].content_hash
                 THEN documents'[k].last_modified = documents[k].last_modified
                 ELSE /\ documents'[k].last_modified >= documents'[k].last_scraped
                      /\ documents'[k].last_modified >= documents[k].last_modified
    <2>1. CASE documents'[k] = documents[k]
      BY <2>1
    <2>2. CASE documents'[k] # documents[k]
      <3>1. /\ UpdateOne \/ UpdateFails
            /\ doc \in Page /\ update \in Update /\ update.doc = doc /\ k = Key(doc)
            /\ documents'[k] = Applied(documents[k], update)
            /\ update.branch = Branch(documents[k], doc)
        BY <1>1, <2>2, OnlyWriterChanges
      <3>2. documents[k] \in Record /\ documents[k] \in Records
        BY <1>1 DEF IInv, TypeOK, Records
      <3>3. update # NoDoc
        BY <3>1 DEF UpdateOne, UpdateFails, Returns
      <3>4. doc.last_scraped <= update.now /\ documents[k].last_modified <= update.now
        BY <1>1, <3>1, <3>3 DEF IInv, Times
      <3>5. /\ documents'[k].last_scraped = doc.last_scraped
            /\ documents'[k].content_hash = documents[k].content_hash
                 => documents'[k].last_modified = documents[k].last_modified
            /\ documents'[k].content_hash # documents[k].content_hash
                 => documents'[k].last_modified = update.now
        BY <1>1, <3>1, <3>2, BranchFields
      <3>6. doc.last_scraped \in Nat /\ update.now \in Nat /\ documents[k].last_modified \in Nat
        BY <3>1, <3>2 DEF Page, Update, Record
      <3> QED  BY <3>4, <3>5, <3>6
    <2> QED  BY <2>1, <2>2
  <1>2. IInv /\ [Next]_vars =>
          [~slow => \A k \in Keys : documents[k] # NoDoc =>
             LET r == documents[k]
                 s == documents'[k]
             IN  IF s.content_hash = r.content_hash
                   THEN s.last_modified = r.last_modified
                   ELSE s.last_modified >= s.last_scraped /\ s.last_modified >= r.last_modified]_vars
    BY <1>1
  <1> QED  BY <1>2, Invariance, PTL DEF Spec, ModifiedWithText

\* A key's last_scraped goes back only when two of its URLs were fetched.
THEOREM ScrapeTime == Spec => ScrapeTimeAdvances
  <1>1. ASSUME IInv, [Next]_vars, ~slow, NEW k \in Keys, documents[k] # NoDoc,
               documents'[k].last_scraped < documents[k].last_scraped
        PROVE  TwoUrls(k)
    <2>1. documents[k] \in Record /\ documents[k] \in Records
      BY <1>1 DEF IInv, TypeOK, Records
    <2>2. documents'[k] # documents[k]
      BY <1>1, <2>1 DEF Record
    <2>3. /\ doc \in Pages /\ update \in Update /\ update.doc = doc /\ k = Key(doc)
          /\ documents'[k] = Applied(documents[k], update)
          /\ update.branch = Branch(documents[k], doc)
      BY <1>1, <2>2, OnlyWriterChanges
    <2>4. documents'[k].last_scraped = doc.last_scraped
      BY <2>1, <2>3, BranchFields
    <2> QED  BY <1>1, <2>3, <2>4 DEF IInv, Fresh
  <1>2. IInv /\ [Next]_vars =>
          [~slow => \A k \in Keys :
             documents[k] # NoDoc /\ documents'[k].last_scraped < documents[k].last_scraped
               => TwoUrls(k)]_vars
    BY <1>1
  <1> QED  BY <1>2, Invariance, PTL DEF Spec, ScrapeTimeAdvances
-----------------------------------------------------------------------------
(* The save as one step *)

\* An update that still answers to the record merges the page with it.
LEMMA AppliedMerges ==
  ASSUME NEW r \in Records, NEW u \in Update, u.branch = Branch(r, u.doc)
  PROVE  Applied(r, u) = Atomic!Merged(r, u.doc.content_hash, u.doc.last_scraped, u.now)
  <1>1. CASE r = NoDoc
    BY <1>1 DEF Branch, Applied, Inserted, Atomic!Merged
  <1>2. CASE r # NoDoc /\ r.content_hash = u.doc.content_hash
    BY <1>2 DEF Branch, Applied, Atomic!Merged
  <1>3. CASE r # NoDoc /\ r.content_hash # u.doc.content_hash
    BY <1>3 DEF Branch, Applied, Atomic!Merged
  <1> QED  BY <1>1, <1>2, <1>3

\* When the update is carried out for its caller, it saves the page at the time
\* of its decision.
LEMMA CarrySaves ==
  ASSUME IInv, ~slow, Returns, Carry(update), UNCHANGED <<scraped, clock>>,
         NEW k \in Keys, k = Key(doc),
         reported' = [reported EXCEPT ![k] = @ + 1] \/ UNCHANGED reported
  PROVE  Atomic!Next
  <1> USE DEF IInv
  <1>1. /\ update \in Update /\ doc \in Page /\ update.doc = doc /\ doc \in Pages
        /\ update # NoDoc
    BY NoDocIsNone DEF Returns, TypeOK, Pending, Pages
  <1>2. /\ doc.content_hash \in Hashes /\ doc.last_scraped \in Nat /\ update.now \in Nat
        /\ clock \in Nat
    BY <1>1 DEF Page, Update, TypeOK
  <1>3. doc.last_scraped <= update.now /\ update.now <= clock
    BY <1>1 DEF Times
  <1> PICK h \in Hashes : h = doc.content_hash
    BY <1>2
  <1> PICK t \in Nat : t = doc.last_scraped
    BY <1>2
  <1> PICK n \in Nat : n = update.now
    BY <1>2
  <1>4. t \in 0 .. clock /\ n \in t .. clock
    BY <1>2, <1>3
  <1>5. <<k, h, t>> \in scraped
    BY <1>1 DEF Snapshots
  <1>6. documents[k] \in Records /\ update.branch = Branch(documents[k], doc)
    BY <1>1 DEF TypeOK, StillTrue
  <1>7. Applied(documents[k], update) = Atomic!Merged(documents[k], h, t, n)
    BY <1>1, <1>6, AppliedMerges
  <1>8. documents' = [documents EXCEPT ![k] = Atomic!Merged(documents[k], h, t, n)]
    BY <1>1, <1>7 DEF Carry, Key
  <1>9. Atomic!Save(k, h, t)
    BY <1>4, <1>5, <1>8 DEF Atomic!Save
  <1> QED  BY <1>4, <1>9 DEF Atomic!Next

LEMMA AtomicStep ==
  ASSUME IInv, [Next]_vars, ~slow
  PROVE  [Atomic!Next]_(Atomic!storeVars)
  <1>1. CASE Tick
    <2>1. Atomic!Pass
      BY <1>1 DEF Tick, history, Atomic!Pass
    <2> QED  BY <2>1 DEF Atomic!Next
  <1>2. ASSUME NEW u \in Urls, OnHTMLDocument(u)
        PROVE  Atomic!Next
    <2>1. NormalizeURL[u] \in Keys /\ content[NormalizeURL[u]] \in Hashes
      BY StoreAssumption DEF IInv, TypeOK
    <2> PICK k \in Keys : k = NormalizeURL[u]
      BY <2>1
    <2> PICK h \in Hashes : h = content[k]
      BY <2>1
    <2>2. Atomic!Fetch(k, h)
      BY <1>2 DEF OnHTMLDocument, site, Atomic!Fetch
    <2> QED  BY <2>2 DEF Atomic!Next
  <1>3. CASE UpdateOne \/ UpdateFails
    <2>1. /\ doc # NoDoc /\ Key(doc) \in Keys
      BY <1>3, KeyTyped, NoDocIsNone DEF UpdateOne, UpdateFails, Returns, IInv, Pending, TypeOK
    <2> PICK k \in Keys : k = Key(doc)
      BY <2>1
    <2>2. UNCHANGED <<scraped, clock>> /\ Returns
      BY <1>3 DEF UpdateOne, UpdateFails, site
    <2>3. CASE Carry(update)
      <3>1. reported' = [reported EXCEPT ![k] = @ + 1] \/ UNCHANGED reported
        BY <1>3 DEF UpdateOne, UpdateFails
      <3> QED  BY <2>2, <2>3, <3>1, CarrySaves
    <2>4. CASE ~Carry(update)
      BY <1>3, <2>2, <2>4 DEF UpdateOne, UpdateFails, Atomic!storeVars
    <2> QED  BY <2>3, <2>4
  <1>4. CASE SiteChanges \/ Restart \/ Receive \/ FindOne \/ FindFails \/ UNCHANGED vars
    BY <1>4 DEF SiteChanges, Restart, Receive, FindOne, FindFails, vars, site, history,
                Atomic!storeVars
  <1>5. ~CarriedOutLate
    BY DEF CarriedOutLate, IInv, Pending
  <1> QED  BY <1>1, <1>2, <1>3, <1>4, <1>5 DEF Next

\* What SaveDocument does in three calls, any of which may fail, is a save in one
\* step, as long as nothing is carried out late.
THEOREM AtomicSaves == Spec => SavesAtomically
  <1>1. Init => Atomic!Init
    BY DEF Init, Atomic!Init
  <1>2. IInv /\ [Next]_vars => [~slow => [Atomic!Next]_(Atomic!storeVars)]_vars
    BY AtomicStep
  <1> QED  BY <1>1, <1>2, Invariance, PTL DEF Spec, SavesAtomically
=============================================================================
