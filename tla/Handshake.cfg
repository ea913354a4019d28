SPECIFICATION Spec
CONSTANTS
  CodecId = "binary"
  Features = {"typed", "extra"}
  RequiredFeatures = {"typed"}
  LocalLimits <- MCLocalLimits
  Offers <- MCOffers
INVARIANTS
  BothSidesAgree
  HostTakesAcknowledgement
  PeersAgree
PROPERTIES
  AgreedOnce
