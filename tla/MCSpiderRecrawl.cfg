CONSTANTS
  s = s  a = a  b = b  n = n  x = x
  Urls <- SmallUrls  StartURLs <- Start  StoredURLs <- Stored
  Kind <- KindOf  Site <- SiteOf  Links <- LinksFrom
  NormalizeURL <- NormalForm
  MaxDepth = 1  MaxPages = 2  ChanCap = 1  StaleLimit = 1  Aging = FALSE
  NoDoc = NoDoc
SPECIFICATION FairSpec
PROPERTY RecrawlEnds
CHECK_DEADLOCK FALSE
