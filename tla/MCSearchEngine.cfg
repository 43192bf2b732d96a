CONSTANTS
  Terms <- Tokens  Documents <- Downloads
  TermSize <- SmallSize  stringHash <- SmallHash
  MaxDocs = 3  Radix = 2  NoFile = NoFile
  Collection <- SmallCollection  NoText = NoText
  Limits = {0, 2}  Queries <- SmallQueries
SPECIFICATION EngineSpec
INVARIANTS AnswerFromCollection DownloadsCollection DumpFindsPostings IdfNonNegative EngineInv
CHECK_DEADLOCK FALSE
