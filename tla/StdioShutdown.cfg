SPECIFICATION FairSpec
CONSTANTS
  CodecId = "jsonl"
  Features = {"typed", "extra"}
  RequiredFeatures = {"typed"}
  LocalLimits <- TightOrRoomy
  Offers <- MCOffers
  RequestIds = {id1, id2, id3, id4}
  Tasks = {t1, t2, t3, t4}
  HasResources = FALSE
  IsJsonl = TRUE
  ReplySize = 2
CHECK_DEADLOCK FALSE
PROPERTIES
  InputEndStops
  ShutdownReleases
