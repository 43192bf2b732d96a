--------------------------- MODULE MCSearchEngine ----------------------------
(* A collection of four documents, one without a text. Of the terms one is in  *)
(* every text, two in two of them, one twice in one of them, one once.         *)
EXTENDS SearchEngine

SmallCollection ==
  {[url |-> "/a", content |-> "Hoping, b"], [url |-> "/b", content |-> "well-known hope b"],
   [url |-> "/c", content |-> "known hopes 1.5 1.5"], [url |-> "/d", content |-> NoText]}

Downloads == {Downloaded(d) : d \in Usable}

\* the tokens of the collection, as the tokenizer makes them
Tokens == {"b", "hope", "known", "well", "1.5"}
ASSUME SmallTokens == Tokens = UNION {Range(TokensOf[d]) : d \in Usable}

SmallHash == [t \in Tokens |-> IF t \in {"b", "known"} THEN 2 ELSE 1]
SmallSize == [t \in Tokens |-> Len(t)]

SmallQueries ==
  {"b", "!b", "hope | known", "!(b | known)", "B well-known", "!hoping & 1.5",
   "(b | 1.5) !known", "ness known", ""}
=============================================================================
