CONSTANTS
  a = a  wwwa = wwwa  h1 = h1  h2 = h2
  Urls = {a, wwwa}  Keys = {a}  NormalizeURL <- NormalForm
  Hashes = {h1, h2}
  NoDoc = NoDoc
  MaxTime = 2  MaxRuns = 2
SPECIFICATION Spec
INVARIANTS IInv TypeOK CountsSaves StoredIsFetched
PROPERTIES ModifiedWithText ScrapeTimeAdvances SavesAtomically
CHECK_DEADLOCK FALSE
