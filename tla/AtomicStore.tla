---------------------------- MODULE AtomicStore -----------------------------
(* What SaveDocument promises when the server does nothing behind the back   *)
(* of its client: a page that was fetched is compared with what is stored    *)
(* and merged with it in one step, and no save is reported that was not done. *)
EXTENDS Naturals

CONSTANTS Keys, Hashes, NoDoc

VARIABLES
  documents,  \* the record of each key, or NoDoc
  scraped,    \* the pages fetched so far, as <<key, text, time>>
  clock,
  reported    \* how many saves of each key were reported

storeVars == <<documents, scraped, clock, reported>>

Init ==
  /\ documents = [k \in Keys |-> NoDoc] /\ scraped = {} /\ clock = 0
  /\ reported = [k \in Keys |-> 0]

Pass ==
  /\ clock' = clock + 1
  /\ UNCHANGED <<documents, scraped, reported>>

Fetch(k, h) ==
  /\ scraped' = scraped \cup {<<k, h, clock>>}
  /\ UNCHANGED <<documents, clock, reported>>

\* record r after text h, fetched at time t, was saved at time n
Merged(r, h, t, n) ==
  IF r = NoDoc
    THEN [content_hash |-> h, first_scraped |-> n, last_scraped |-> t,
          last_modified |-> t, scraped_count |-> 1]
  ELSE IF r.content_hash = h
    THEN [r EXCEPT !.last_scraped = t, !.scraped_count = @ + 1]
    ELSE [r EXCEPT !.content_hash = h, !.last_scraped = t, !.last_modified = n,
                   !.scraped_count = @ + 1]

Save(k, h, t) ==
  /\ <<k, h, t>> \in scraped
  /\ \E n \in t .. clock : documents' = [documents EXCEPT ![k] = Merged(@, h, t, n)]
  /\ \/ reported' = [reported EXCEPT ![k] = @ + 1]
     \/ UNCHANGED reported
  /\ UNCHANGED <<scraped, clock>>

Next ==
  \/ Pass
  \/ \E k \in Keys, h \in Hashes : Fetch(k, h)
  \/ \E k \in Keys, h \in Hashes, t \in 0 .. clock : Save(k, h, t)
=============================================================================
