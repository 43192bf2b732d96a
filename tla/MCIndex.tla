------------------------------ MODULE MCIndex -------------------------------
(* Small instances of InvertedIndex. *)
EXTENDS InvertedIndex

CONSTANTS a, b, c

\* a and b have the same hash, c a smaller one
SmallTerms == {a, b, c}
SmallHash == [t \in Terms |-> IF t = c THEN 1 ELSE 2]
SmallSize == [t \in Terms |-> IF t = a THEN 1 ELSE 2]

\* an empty document, repeated tokens, and a token shared by two documents
SmallDocuments ==
  {[url |-> "empty", text |-> <<>>], [url |-> "aba", text |-> <<a, b, a>>],
   [url |-> "cbc", text |-> <<c, b, c>>]}
=============================================================================
