CONSTANTS
  s = s  a = a  b = b  n = n  x = x
  Urls <- SmallUrls  StartURLs <- Start  StoredURLs <- Stored
  Kind <- KindOf  Site <- SiteOf  Links <- LinksFrom
  NormalizeURL <- NormalForm
  MaxDepth = 2  MaxPages = 2  ChanCap = 1  StaleLimit = 1  Aging = TRUE
  NoDoc = NoDoc
SPECIFICATION FairSpec
PROPERTIES DocumentsGetWritten DiscoveryEnds
CHECK_DEADLOCK FALSE
