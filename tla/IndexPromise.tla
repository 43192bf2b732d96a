---------------------------- MODULE IndexPromise ----------------------------
(* What the inverted index promises its users, without tokens, nodes, blocks *)
(* and bytes: a document is added at once and for good, with all its terms;  *)
(* a file appears whole and holds the index as it then is, less the terms    *)
(* that are too rare or too frequent; what is mapped is such a file, and     *)
(* nothing changes it while it is mapped.                                    *)
EXTENDS Naturals, Sequences, FiniteSets

CONSTANTS Terms, Documents, Nothing

VARIABLES
  counts,  \* how often a term occurs is counted
  urls,    \* the URLs of the documents added
  ram,     \* the postings of each term in memory
  file,    \* what a whole file holds, or Nothing
  view     \* what the mapped file holds, or Nothing

promiseVars == <<counts, urls, ram, file, view>>

Empty == [t \in Terms |-> <<>>]

Init ==
  /\ counts \in BOOLEAN
  /\ urls = <<>> /\ ram = Empty
  /\ file = Nothing /\ view = Nothing

Times(d, t) == Cardinality({i \in DOMAIN d.text : d.text[i] = t})

PostingIn(d, t) == [doc_id |-> Len(urls), tf |-> IF counts THEN Times(d, t) ELSE 1]

Add(d) ==
  /\ view = Nothing
  /\ urls' = Append(urls, d.url)
  /\ ram' = [t \in Terms |->
               IF Times(d, t) > 0 THEN Append(ram[t], PostingIn(d, t)) ELSE ram[t]]
  /\ UNCHANGED <<counts, file, view>>

\* A term goes into the file unless it occurs once in all, or is in 95 of 100
\* documents.
Worth(t) ==
  /\ ram[t] # <<>> /\ (Len(ram[t]) > 1 \/ ram[t][1].tf > 1)
  /\ 100 * Len(ram[t]) < 95 * Len(urls)

\* The old file is gone before the new one is there.
Truncate ==
  /\ view = Nothing
  /\ file' = Nothing
  /\ UNCHANGED <<counts, urls, ram, view>>

Save ==
  /\ view = Nothing /\ file = Nothing
  /\ file' = [urls |-> urls, postings |-> [t \in Terms |-> IF Worth(t) THEN ram[t] ELSE <<>>]]
  /\ UNCHANGED <<counts, urls, ram, view>>

Open ==
  /\ view = Nothing
  /\ view' = file
  /\ UNCHANGED <<counts, urls, ram, file>>

\* The process ends; the file stays.
End ==
  /\ counts' \in BOOLEAN
  /\ urls' = <<>> /\ ram' = Empty /\ view' = Nothing
  /\ UNCHANGED file

Next == Truncate \/ Save \/ Open \/ End \/ \E d \in Documents : Add(d)

Spec == Init /\ [][Next]_promiseVars
=============================================================================
