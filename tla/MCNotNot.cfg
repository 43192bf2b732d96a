CONSTANTS
  Radix = 128  Numbers <- BoundaryNumbers
  WordPieces <- LettersAndSuffixes  TextPieces <- Characters
  QueryPieces <- OperatorsAndWords  MaxPieces <- SmallMax
  Porter = TRUE  index <- SmallIndex  TotalDocs = 8
SPECIFICATION Spec
INVARIANT EveryAnswerIsMeaning
CHECK_DEADLOCK FALSE
