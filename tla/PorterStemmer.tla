---------------------------- MODULE PorterStemmer ----------------------------
(* PorterStemmer::stem of searcher/src/tokenizer.cpp. The stemmer works on    *)
(* word and on end, the index of its last letter, which it keeps in step by   *)
(* hand; positions count from 0, as in the code. A text is a TLA+ string,     *)
(* which is a sequence of characters.                                         *)
EXTENDS Integers, Sequences, FiniteSets, SequencesExt

\* character i of a word
At(w, i) == SubSeq(w, i + 1, i + 1)

Vowels == {"a", "e", "i", "o", "u"}

isVowel(s, i) ==
  /\ 0 <= i /\ i <= s.end
  /\ \/ At(s.word, i) \in Vowels
     \/ At(s.word, i) = "y" /\ i > 0 /\ At(s.word, i - 1) \notin Vowels

\* how often a vowel is followed by a consonant up to limit
getMeasure(s, limit) ==
  Cardinality({i \in 1 .. limit : isVowel(s, i - 1) /\ ~isVowel(s, i)})

hasVowel(s, j) == \E i \in 0 .. j : isVowel(s, i)

isDoubleConsonant(s, i) ==
  /\ i >= 1 /\ ~isVowel(s, i) /\ ~isVowel(s, i - 1)
  /\ At(s.word, i) = At(s.word, i - 1)

isCVC(s, i) ==
  /\ i >= 2 /\ ~isVowel(s, i) /\ isVowel(s, i - 1) /\ ~isVowel(s, i - 2)
  /\ At(s.word, i) \notin {"w", "x", "y"}

endsWith(w, suffix) ==
  Len(suffix) <= Len(w) /\ SubSeq(w, Len(w) - Len(suffix) + 1, Len(w)) = suffix

\* the position before a suffix of n letters
Before(s, n) == Len(s.word) - n - 1

\* the word without its last n letters, which takes end along
Cut(s, n) == [word |-> SubSeq(s.word, 1, Len(s.word) - n), end |-> s.end - n]

\* the word with something instead of its last n letters, and end computed anew
Replaced(s, n, replacement) ==
  [word |-> SubSeq(s.word, 1, Len(s.word) - n) \o replacement,
   end  |-> Len(s.word) - n + Len(replacement) - 1]

\* the letter e is put back
AddE(s) == [word |-> s.word \o "e", end |-> s.end + 1]
-----------------------------------------------------------------------------
(* Step 1 *)

\* (error) end loses the three letters of ies and forgets the i
PluralForgetsI(s) ==
  IF endsWith(s.word, "sses") THEN Cut(s, 2)
  ELSE IF endsWith(s.word, "ies") THEN [word |-> Replaced(s, 3, "i").word, end |-> s.end - 3]
  ELSE s

\* (error) a plain s stays
PluralKeepsS(s) ==
  IF endsWith(s.word, "sses") THEN Cut(s, 2)
  ELSE IF endsWith(s.word, "ies") THEN [word |-> Replaced(s, 3, "i").word, end |-> s.end - 2]
  ELSE s

\* plurals
Plural(s) ==
  IF endsWith(s.word, "sses") THEN Cut(s, 2)
  ELSE IF endsWith(s.word, "ies") THEN [word |-> Replaced(s, 3, "i").word, end |-> s.end - 2]
  ELSE IF /\ endsWith(s.word, "s") /\ ~endsWith(s.word, "ss")
          /\ s.end > 0 /\ At(s.word, s.end - 1) # "s" THEN Cut(s, 1)
  ELSE s

\* what is left of a word without ed or ing gets its spelling back
Respelt(s) ==
  IF \E ending \in {"at", "bl", "iz"} : endsWith(s.word, ending) THEN AddE(s)
  ELSE IF isDoubleConsonant(s, s.end) /\ At(s.word, Len(s.word) - 1) \notin {"l", "s", "z"}
    THEN Cut(s, 1)
  ELSE IF getMeasure(s, s.end) = 1 /\ isCVC(s, s.end) THEN AddE(s)
  ELSE s

\* eed, ed and ing; the measure 0 that eed asks for is always there
PastOrGerund(s) ==
  IF endsWith(s.word, "eed") THEN Replaced(s, 3, "ee")
  ELSE IF endsWith(s.word, "ed") /\ hasVowel(s, Before(s, 2)) THEN Respelt(Replaced(s, 2, ""))
  ELSE IF endsWith(s.word, "ing") /\ hasVowel(s, Before(s, 3)) THEN Respelt(Replaced(s, 3, ""))
  ELSE s

FinalY(s) ==
  IF s.end > 0 /\ At(s.word, Len(s.word) - 1) = "y" /\ hasVowel(s, s.end - 1)
    THEN [s EXCEPT !.word = SubSeq(@, 1, Len(@) - 1) \o "i"]
    ELSE s

step1(s) == IF s.end < 0 THEN s ELSE FinalY(PastOrGerund(Plural(s)))
-----------------------------------------------------------------------------
(* Steps 2 to 4: tables of suffixes and what replaces them *)

\* (error) the letters before the suffix are not measured
FitsAnyMeasure(s, suffix, minM) == endsWith(s.word, suffix)

\* replaceSuffixIfMeasure, and the test of its own that ion has
Fits(s, suffix, minM) ==
  /\ endsWith(s.word, suffix)
  /\ suffix = "ion" => \E c \in {"s", "t"} : endsWith(s.word, c \o suffix)
  /\ getMeasure(s, Before(s, Len(suffix))) >= minM

Apply(rule, s) == IF rule[1] = "ion" THEN Cut(s, 3) ELSE Replaced(s, Len(rule[1]), rule[2])

\* the first rule that fits is applied; short words are left alone
ApplyFirst(rules, minM, s) ==
  LET first == SelectInSeq(rules, LAMBDA rule : Fits(s, rule[1], minM))
  IN  IF Len(s.word) <= 2 \/ first = 0 THEN s ELSE Apply(rules[first], s)

step2Rules == <<
  <<"ational", "ate">>, <<"tional", "tion">>, <<"enci", "ence">>, <<"anci", "ance">>,
  <<"izer", "ize">>, <<"abli", "able">>, <<"alli", "al">>, <<"entli", "ent">>,
  <<"eli", "e">>, <<"ousli", "ous">>, <<"ization", "ize">>, <<"ation", "ate">>,
  <<"ator", "ate">>, <<"alism", "al">>, <<"iveness", "ive">>, <<"fulness", "ful">>,
  <<"ousness", "ous">>, <<"aliti", "al">>, <<"iviti", "ive">>, <<"biliti", "ble">>,
  <<"logi", "log">> >>

step3Rules == <<
  <<"icate", "ic">>, <<"ative", "">>, <<"alize", "al">>, <<"iciti", "ic">>,
  <<"ical", "ic">>, <<"ful", "">>, <<"ness", "">> >>

step4Rules == <<
  <<"al", "">>, <<"ance", "">>, <<"ence", "">>, <<"er", "">>, <<"ic", "">>,
  <<"able", "">>, <<"ible", "">>, <<"ant", "">>, <<"ement", "">>, <<"ment", "">>,
  <<"ent", "">>, <<"ion", "">>, <<"ou", "">>, <<"ism", "">>, <<"ate", "">>,
  <<"iti", "">>, <<"ous", "">>, <<"ive", "">>, <<"ize", "">> >>

step2(s) == ApplyFirst(step2Rules, 0, s)
step3(s) == ApplyFirst(step3Rules, 0, s)
step4(s) == ApplyFirst(step4Rules, 1, s)
-----------------------------------------------------------------------------
(* Step 5, and the whole *)

FinalE(s) ==
  LET m == getMeasure(s, s.end - 1)
  IN  IF /\ At(s.word, Len(s.word) - 1) = "e"
         /\ m > 1 \/ (m = 1 /\ ~isCVC(s, s.end - 1))
        THEN Cut(s, 1) ELSE s

FinalLL(s) ==
  IF endsWith(s.word, "ll") /\ getMeasure(s, s.end - 1) > 1 THEN Cut(s, 1) ELSE s

step5(s) == IF s.end < 0 THEN s ELSE FinalLL(FinalE(s))

Step(n, s) ==
  CASE n = 1 -> step1(s) [] n = 2 -> step2(s) [] n = 3 -> step3(s)
    [] n = 4 -> step4(s) [] n = 5 -> step5(s)

\* the state of the stemmer before step 1 and after each of the five steps
Steps(input_word) ==
  FoldLeft(LAMBDA states, n : Append(states, Step(n, Last(states))),
           <<[word |-> input_word, end |-> Len(input_word) - 1]>>,
           IF Len(input_word) <= 2 THEN <<>> ELSE <<1, 2, 3, 4, 5>>)

stem(input_word) == Last(Steps(input_word)).word
=============================================================================
