------------------------------ MODULE QueryEval ------------------------------
(* Boolean queries of searcher/src/searcher.cpp as operators: the implied     *)
(* ANDs of parseQuery, sortingStation, which turns tokens into reverse Polish *)
(* notation, and evaluate on lists of postings. Of a posting only doc_id      *)
(* matters. index is a function from terms to sorted lists of doc_ids.        *)
EXTENDS Integers, Sequences, FiniteSets, SequencesExt

Operators == {"!", "&", "|", "(", ")"}
-----------------------------------------------------------------------------
(* The merges of two sorted lists, by two positions that move to the right.  *)

Positions(l1, l2) == (1 .. Len(l1) + 1) \X (1 .. Len(l2) + 1)

intersect_lists(l1, l2) ==
  LET from[at \in Positions(l1, l2)] ==
        LET i == at[1]
            j == at[2]
        IN  IF i > Len(l1) \/ j > Len(l2) THEN <<>>
            ELSE IF l1[i] < l2[j] THEN from[<<i + 1, j>>]
            ELSE IF l2[j] < l1[i] THEN from[<<i, j + 1>>]
            ELSE <<l1[i]>> \o from[<<i + 1, j + 1>>]
  IN  from[<<1, 1>>]

\* (error) equal heads: only the left position moves
UnionTwice(l1, l2) ==
  LET from[at \in Positions(l1, l2)] ==
        LET i == at[1]
            j == at[2]
        IN  IF i > Len(l1) THEN SubSeq(l2, j, Len(l2))
            ELSE IF j > Len(l2) THEN SubSeq(l1, i, Len(l1))
            ELSE IF l2[j] < l1[i] THEN <<l2[j]>> \o from[<<i, j + 1>>]
            ELSE <<l1[i]>> \o from[<<i + 1, j>>]
  IN  from[<<1, 1>>]

union_lists(l1, l2) ==
  LET from[at \in Positions(l1, l2)] ==
        LET i == at[1]
            j == at[2]
        IN  IF i > Len(l1) THEN SubSeq(l2, j, Len(l2))
            ELSE IF j > Len(l2) THEN SubSeq(l1, i, Len(l1))
            ELSE IF l1[i] < l2[j] THEN <<l1[i]>> \o from[<<i + 1, j>>]
            ELSE IF l2[j] < l1[i] THEN <<l2[j]>> \o from[<<i, j + 1>>]
            ELSE <<l1[i]>> \o from[<<i + 1, j + 1>>]
  IN  from[<<1, 1>>]

\* current_doc runs through all documents, it through the list
not_list(l, total_docs) ==
  LET from[at \in (0 .. total_docs) \X (1 .. Len(l) + 1)] ==
        LET doc == at[1]
            i == at[2]
        IN  IF doc = total_docs THEN <<>>
            ELSE IF i <= Len(l) /\ l[i] = doc THEN from[<<doc + 1, i + 1>>]
            ELSE <<doc>> \o from[<<doc + 1, i>>]
  IN  from[<<0, 1>>]
-----------------------------------------------------------------------------
getPriority(op) == CASE op = "!" -> 3 [] op = "&" -> 2 [] op = "|" -> 1 [] OTHER -> 0

isOperator(token) == token \in Operators

\* (error) no AND between a word and a negation
JoinsWordsOnly(last, new) ==
  (~isOperator(last) \/ last = ")") /\ (~isOperator(new) \/ new = "(")

\* between which neighbours addTokenWithImplicitAnd puts an AND
ImpliesAnd(last, new) ==
  (~isOperator(last) \/ last = ")") /\ (~isOperator(new) \/ new \in {"(", "!"})

\* processedTokens of parseQuery for the operators and tokens of a query
WithImplicitAnd(tokens) ==
  LET addTokenWithImplicitAnd(processed, new) ==
        IF processed # <<>> /\ ImpliesAnd(Last(processed), new)
          THEN processed \o <<"&", new>> ELSE Append(processed, new)
  IN  FoldLeft(addTokenWithImplicitAnd, <<>>, tokens)

\* operators move from the stack to the output while the top is one of these
PopWhile(station, these) ==
  LET ops == station.ops
      kept == SelectLastInSeq(ops, LAMBDA op : op \notin these)
  IN  [out |-> station.out \o Reverse(SubSeq(ops, kept + 1, Len(ops))),
       ops |-> SubSeq(ops, 1, kept)]

sortingStation(tokens) ==
  LET Take(station, token) ==
        IF ~isOperator(token) THEN [station EXCEPT !.out = Append(@, token)]
        ELSE IF token = "(" THEN [station EXCEPT !.ops = Append(@, "(")]
        ELSE IF token = ")" THEN
          LET popped == PopWhile(station, Operators \ {"("})
          IN  [popped EXCEPT !.ops = IF @ = <<>> THEN @ ELSE Front(@)]
        ELSE
          LET popped == PopWhile(station,
                          {op \in Operators \ {"("} : getPriority(op) >= getPriority(token)})
          IN  [popped EXCEPT !.ops = Append(@, token)]
  IN  PopWhile(FoldLeft(Take, [out |-> <<>>, ops |-> <<>>], tokens),
               Operators).out

\* What an operator leaves of two lists. A "(" without its partner reaches the
\* output of sortingStation, takes two lists and leaves none.
Combined(op, left, right) ==
  CASE op = "&" -> <<intersect_lists(left, right)>>
    [] op = "|" -> <<union_lists(left, right)>>
    [] OTHER -> <<>>

\* getPostings of the source
Postings(index, token) == IF token \in DOMAIN index THEN index[token] ELSE <<>>

\* operators that miss an operand are skipped
evaluate(rpn, index, total_docs) ==
  LET Apply(stack, token) ==
        LET n == Len(stack)
        IN  CASE ~isOperator(token) -> Append(stack, Postings(index, token))
              [] isOperator(token) /\ n < (IF token = "!" THEN 1 ELSE 2) -> stack
              [] token = "!" /\ n >= 1 ->
                   Append(Front(stack), not_list(Last(stack), total_docs))
              [] isOperator(token) /\ token # "!" /\ n >= 2 ->
                   SubSeq(stack, 1, n - 2) \o Combined(token, stack[n - 1], stack[n])
      stack == FoldLeft(Apply, <<>>, rpn)
  IN  IF stack = <<>> THEN <<>> ELSE Last(stack)

\* the documents findDocument hands to processResults
findDocument(tokens, index, total_docs) ==
  evaluate(sortingStation(WithImplicitAnd(tokens)), index, total_docs)
-----------------------------------------------------------------------------
(* The meaning of a query as a logical expression: NOT binds tighter than     *)
(* AND, written or implied by two operands side by side, and AND tighter      *)
(* than OR; AND and OR group to the left. m[<<part, i, j>>] holds the set of  *)
(* documents that tokens i to j of s denote as a part of an expression; it is *)
(* empty when they are no such part.                                          *)

Unions(X, Y) == {x \cup y : x \in X, y \in Y}
Intersections(X, Y) == {x \cap y : x \in X, y \in Y}

Parts(s) == {"or", "and", "not"} \X (1 .. Len(s) + 1) \X (0 .. Len(s))

\* where the operator op stands inside tokens i to j
Standing(s, op, i, j) == {k \in i + 1 .. j - 1 : s[k] = op}

Meanings(s, holding, docs) ==
  LET m[at \in Parts(s)] ==
        LET i == at[2]
            j == at[3]
        IN  IF j < i THEN {}
            ELSE IF at[1] = "or" THEN
              m[<<"and", i, j>>] \cup
              (UNION {Unions(m[<<"or", i, k - 1>>], m[<<"and", k + 1, j>>]) :
                        k \in Standing(s, "|", i, j)})
            ELSE IF at[1] = "and" THEN
              m[<<"not", i, j>>] \cup
              (UNION {Intersections(m[<<"and", i, k - 1>>], m[<<"not", k + 1, j>>]) :
                        k \in Standing(s, "&", i, j)}) \cup
              (UNION {Intersections(m[<<"and", i, k>>], m[<<"not", k + 1, j>>]) :
                        k \in i .. j - 1})
            ELSE IF s[i] = "!" THEN {docs \ x : x \in m[<<"not", i + 1, j>>]}
            ELSE IF s[i] = "(" /\ s[j] = ")" THEN m[<<"or", i + 1, j - 1>>]
            ELSE IF i = j /\ ~isOperator(s[i])
              THEN {IF s[i] \in DOMAIN holding THEN holding[s[i]] ELSE {}}
            ELSE {}
  IN  m[<<"or", 1, Len(s)>>]

\* a negation right after another, which the program does not read as two
DoubleNegation(s) == \E i \in 1 .. Len(s) - 1 : s[i] = "!" /\ s[i + 1] = "!"
=============================================================================
