----------------------------- MODULE SearchInput -----------------------------
(* What the search engine reads, piece by piece: numbers written into the     *)
(* index, a word to be stemmed, a text to be tokenized, a query. The          *)
(* functions under test are those of VarInt, PorterStemmer, Tokenizer and     *)
(* QueryEval; whatever has been put together so far is an input of its own.   *)
EXTENDS Tokenizer, VarInt

CONSTANTS
  Numbers, WordPieces, TextPieces, QueryPieces,  \* what inputs are made of
  MaxPieces,    \* bound: pieces of an input, by subject
  Porter,       \* the stemmer that texts and queries are tokenized with
  index,        \* the sorted doc_ids of each term, for queries
  TotalDocs     \* documents are numbered from 0

Subjects == {"numbers", "word", "text", "query"}

ASSUME SearchInputAssumption ==
  /\ Numbers \subseteq Nat
  /\ MaxPieces \in [Subjects -> Nat] /\ Porter \in BOOLEAN
  /\ TotalDocs \in Nat
  /\ \A t \in DOMAIN index :
       /\ index[t] \in Seq(0 .. TotalDocs - 1)
       /\ \A i, j \in DOMAIN index[t] : i < j => index[t][i] < index[t][j]

VARIABLES
  subject,  \* what is read
  input,    \* a sequence of numbers, or a string
  pieces    \* how many pieces the input is made of

vars == <<subject, input, pieces>>

Init ==
  /\ subject \in Subjects
  /\ input = IF subject = "numbers" THEN <<>> ELSE ""
  /\ pieces = 0

Another(what) ==
  /\ subject = what /\ pieces < MaxPieces[what]
  /\ pieces' = pieces + 1 /\ UNCHANGED subject

\* dump writes another number
Write == Another("numbers") /\ \E n \in Numbers : input' = Append(input, n)

\* a word gets longer
Spell == Another("word") /\ \E w \in WordPieces : input' = input \o w

\* the text of a document gets longer
Compose == Another("text") /\ \E w \in TextPieces : input' = input \o w

\* a query gets longer
Type == Another("query") /\ \E w \in QueryPieces : input' = input \o w

Next == Write \/ Spell \/ Compose \/ Type

Spec == Init /\ [][Next]_vars
-----------------------------------------------------------------------------
(* Numbers *)

Bytes == FlattenSeq([i \in DOMAIN input |-> writeVarInt[input[i]]])

\* the numbers read back by one call of readVarInt after the other
ReadBack ==
  LET read[i \in 0 .. Len(input)] ==
        IF i = 0 THEN [out |-> <<>>, next |-> 1]
        ELSE LET r == readVarInt(Bytes, read[i - 1].next)
             IN  [out |-> Append(read[i - 1].out, r.value), next |-> r.next]
  IN  read

\* A stream of numbers is read back as it was written, each reading ends where
\* the next number starts, and the size reckoned beforehand, from which dump
\* computes the offsets of the directory, is the size of the bytes.
StreamReadsBack ==
  subject = "numbers" =>
    /\ \A i \in 0 .. Len(input) : ReadBack[i].out = SubSeq(input, 1, i)
    /\ \A i \in DOMAIN input :
         ReadBack[i].next = ReadBack[i - 1].next + getVarIntSize[input[i]]
    /\ ReadBack[Len(input)].next = Len(Bytes) + 1
    /\ \A i \in DOMAIN Bytes : Bytes[i] \in 0 .. 2 * Radix - 1
-----------------------------------------------------------------------------
(* Words *)

startsWith(w, prefix) == Len(prefix) <= Len(w) /\ SubSeq(w, 1, Len(prefix)) = prefix

\* Before and after every step of the stemmer, end is the index of the last
\* letter, although one place counts it down, another recomputes it and a third
\* leaves it alone: the vowel test of the next step relies on it.
EndInStep ==
  subject = "word" => LET states == Steps(input)
                      IN  \A i \in DOMAIN states : states[i].end = Len(states[i].word) - 1

\* The stemmer leaves nothing of a word only when the word begins with one of
\* the suffixes of step 3 that vanish; such a word finds nothing and drops out of
\* a query.
OnlySuffixesVanish ==
  subject = "word" /\ input # "" /\ stem(input) = "" =>
    \E suffix \in {"ative", "ful", "ness"} : startsWith(input, suffix)

\* A word of three letters or more and its plural have one stem, so that each
\* finds the other, unless the word ends in s, ie or sse.
PluralMeetsSingular ==
  subject = "word" /\ Len(input) > 2
    /\ (\A ending \in {"s", "ie", "sse"} : ~endsWith(input, ending))
      => stem(input \o "s") = stem(input)
-----------------------------------------------------------------------------
(* Texts *)

Separators == {".", ","}

IsToken(t) ==
  LET seps == {i \in 1 .. Len(t) : Char(t, i) \in Separators}
  IN  /\ t # "" /\ isalnum(Char(t, 1)) /\ isalnum(back(t))
      /\ Cardinality(seps) <= 1
      /\ \A i \in seps : isdigit(Char(t, i - 1)) /\ isdigit(Char(t, i + 1))
      /\ \A i \in (2 .. Len(t)) \ seps :
           IF isalnum(Char(t, i)) /\ isalnum(Char(t, i - 1))
             THEN isdigit(Char(t, i)) = isdigit(Char(t, i - 1))
             ELSE \A c \in {Char(t, i), Char(t, i - 1)} :
                    isalnum(c) \/ c \in {"'"} \cup Separators

\* A token, before it is stemmed, begins and ends with a letter or digit, holds
\* one point or comma at most, and that between two digits, apostrophes only
\* between two letters or digits, and no digit next to a letter. Stemmed, it
\* still ends with a letter or digit.
TokensWellFormed ==
  subject = "text" =>
    /\ \A t \in Range(tokenize(input, FALSE)) : IsToken(t)
    /\ \A t \in Range(tokenize(input, TRUE)) : t # "" /\ isalnum(back(t))

\* The same text has the same tokens as a document and as a query, where it is
\* first cut at spaces and operators and each part is tokenized for itself. What
\* is counted or remembered while a token is read must not reach the next one.
QueryWordsAreTextWords ==
  subject = "text" =>
    SelectSeq(Tokenized(input, Porter), LAMBDA t : ~isOperator(t)) = tokenize(input, Porter)
-----------------------------------------------------------------------------
(* Queries *)

Docs == 0 .. TotalDocs - 1
Holding == [t \in DOMAIN index |-> Range(index[t])]
Result == findDocument(Tokenized(input, Porter), index, TotalDocs)

IsAscending(list) ==
  /\ Range(list) \subseteq Docs
  /\ \A i, j \in DOMAIN list : i < j => list[i] < list[j]

\* Whatever is typed, also operators without operands and parentheses without
\* a partner, the answer is a strictly sorted list of documents that exist:
\* the merges never repeat a document, and no document is beyond the table of
\* URLs, which processResults indexes.
ResultWellFormed == subject = "query" => IsAscending(Result)

\* A query that is a logical expression is answered with exactly the documents
\* it denotes, in any nesting of parentheses, NOT, AND (written or implied) and
\* OR, unless one negation directly follows another.
AnswerIsMeaning ==
  subject = "query" =>
    LET tokens == Tokenized(input, Porter)
    IN  ~DoubleNegation(tokens) =>
          \A docs \in Meanings(tokens, Holding, Docs) : Range(Result) = docs
-----------------------------------------------------------------------------
(* What the report says, and the code does not keep: refuted by a run. *)

\* The answer to a logical expression is exactly the set of documents that
\* satisfy it.
EveryAnswerIsMeaning ==
  subject = "query" =>
    \A docs \in Meanings(Tokenized(input, Porter), Holding, Docs) : Range(Result) = docs
=============================================================================
