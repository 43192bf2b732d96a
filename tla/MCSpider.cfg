CONSTANTS
  s = s  a = a  b = b  n = n  x = x
  Urls <- LargeUrls  StartURLs <- Start  StoredURLs <- Stored
  Kind <- KindOf  Site <- SiteOf  Links <- LinksFrom
  NormalizeURL <- NormalForm
  MaxDepth = 2  MaxPages = 2  ChanCap = 1  StaleLimit = 1  Aging = FALSE
  NoDoc = NoDoc
SPECIFICATION Spec
INVARIANTS IInv TypeOK BatchAccounting NoSendOnClosedChannel RecrawlBarrier
  ReportComplete PauseHoldsWriter NoDocumentLost DiscoveryClosed Quiescence
PROPERTIES NoAddDuringWait ImplementsPipeline
CHECK_DEADLOCK FALSE
