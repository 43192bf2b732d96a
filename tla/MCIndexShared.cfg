CONSTANTS
  a = a  b = b  c = c
  Terms <- SmallTerms  Documents <- SmallDocuments
  TermSize <- SmallSize  stringHash <- SmallHash
  MaxDocs = 2  Radix = 2  NoFile = NoFile
SPECIFICATION Spec
INVARIANT SharedTermsKept
CHECK_DEADLOCK FALSE
