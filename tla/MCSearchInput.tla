---------------------------- MODULE MCSearchInput ----------------------------
(* Numbers around every boundary of the length of their encoding (TLC's       *)
(* integers end at 2^31 - 1); words of letters and suffixes; texts of every   *)
(* class of characters; queries over three terms and eight documents, one for *)
(* each set of terms, so that two expressions that differ are told apart by a *)
(* document. One word of a query has two tokens.                              *)
EXTENDS SearchInput

BoundaryNumbers ==
  {0, 1, 127, 128, 129, 255, 256, 16383, 16384, 2097151, 2097152, 268435455,
   268435456, 2147483647}

LettersAndSuffixes ==
  {"a", "b", "e", "l", "o", "y", "s", "t", "at", "ies", "sses", "eed", "ed", "ing",
   "ational", "iveness", "ful", "ness", "ative", "ion", "ize", "al"}

Characters == {"a", "1", ".", "1.", "'", " ", "-", "!", "ing"}

OperatorsAndWords == {"a ", "b ", "b-C ", "!", "&", "|", "(", ")"}

SmallMax == [s \in Subjects |->
  CASE s = "numbers" -> 3 [] s = "word" -> 3 [] s = "text" -> 5 [] s = "query" -> 6]

\* document d holds the terms of its binary digits
SmallIndex == [t \in {"a", "b", "c"} |->
  CASE t = "a" -> <<1, 3, 5, 7>> [] t = "b" -> <<2, 3, 6, 7>> [] t = "c" -> <<4, 5, 6, 7>>]
=============================================================================
