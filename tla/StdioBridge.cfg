SPECIFICATION Spec
CONSTANTS
  CodecId = "jsonl"
  Features = {"typed", "extra"}
  RequiredFeatures = {"typed"}
  LocalLimits <- TightOrRoomy
  Offers <- MCOffers
  RequestIds = {id1, id2, id3, id4, id5}
  Tasks = {t1, t2, t3, t4, t5}
  HasResources = TRUE
  IsJsonl = TRUE
  ReplySize = 2
SYMMETRY Symmetry
CHECK_DEADLOCK FALSE
INVARIANTS
  TypeOK
  ReservationsMatch
  WithinCapacity
  ManagementAdmitted
  InlineLimitKeepsServing
PROPERTIES
  LimitsChangeWhenIdle
