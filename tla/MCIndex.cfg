CONSTANTS
  a = a  b = b  c = c
  Terms <- SmallTerms  Documents <- SmallDocuments
  TermSize <- SmallSize  stringHash <- SmallHash
  MaxDocs = 3  Radix = 2  NoFile = NoFile
SPECIFICATION Spec
INVARIANTS IInv PostingsSorted IndexMatchesDocs RoundTrip FileInv
PROPERTY KeepsPromise
CHECK_DEADLOCK FALSE
