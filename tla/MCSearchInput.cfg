CONSTANTS
  Radix = 128  Numbers <- BoundaryNumbers
  WordPieces <- LettersAndSuffixes  TextPieces <- Characters
  QueryPieces <- OperatorsAndWords  MaxPieces <- SmallMax
  Porter = TRUE  index <- SmallIndex  TotalDocs = 8
SPECIFICATION Spec
INVARIANTS StreamReadsBack EndInStep OnlySuffixesVanish PluralMeetsSingular
  TokensWellFormed QueryWordsAreTextWords ResultWellFormed AnswerIsMeaning
CHECK_DEADLOCK FALSE
