---------------------------- MODULE DocPipeline ----------------------------
(* What the crawler promises about the documents it makes, without its      *)
(* goroutines: the document of a page is queued at most once, then written  *)
(* or refused once; the report is printed only when nothing is queued and   *)
(* is final; a stop may abandon what is queued.                             *)
EXTENDS Naturals

CONSTANT Urls

VARIABLES
  outcome,  \* what became of the document of each page
  count,    \* the number of documents written
  end       \* how the process has ended, if it has

docVars == <<outcome, count, end>>

Init ==
  /\ outcome = [u \in Urls |-> "none"]
  /\ count = 0
  /\ end = "open"

Queue(u) ==
  /\ end = "open" /\ outcome[u] = "none"
  /\ outcome' = [outcome EXCEPT ![u] = "queued"]
  /\ UNCHANGED <<count, end>>

Write(u) ==
  /\ end = "open" /\ outcome[u] = "queued"
  /\ outcome' = [outcome EXCEPT ![u] = "saved"]
  /\ count' = count + 1
  /\ UNCHANGED end

Refuse(u) ==
  /\ end = "open" /\ outcome[u] = "queued"
  /\ outcome' = [outcome EXCEPT ![u] = "failed"]
  /\ UNCHANGED <<count, end>>

Report ==
  /\ end = "open" /\ \A u \in Urls : outcome[u] # "queued"
  /\ end' = "reported"
  /\ UNCHANGED <<outcome, count>>

Abandon ==
  /\ end = "open"
  /\ end' = "abandoned"
  /\ UNCHANGED <<outcome, count>>

Next == Report \/ Abandon \/ \E u \in Urls : Queue(u) \/ Write(u) \/ Refuse(u)

Spec == Init /\ [][Next]_docVars
=============================================================================
