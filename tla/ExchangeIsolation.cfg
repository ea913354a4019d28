CONSTANTS
  CodecId = "binary"
  Features = {"typed"}
  RequiredFeatures = {"typed"}
  HeaderSize = 24
  EnvelopeSize = 50
  MaxNestingDepth = 10
  MaxContainerItems = 22
  Messages <- MCMessages
  Contract <- MCContract
  HostLimits <- MCHostLimits
  RunnerLimits <- MCRunnerLimits
  Outcomes <- MCOutcomes
  ReplySizes <- MCReplySizes
  Depth <- CodecDepth
  Width <- CodecWidth
  LongestBytes <- CodecLongestBytes
  Jsonable <- CodecJsonable
  FromJson <- CodecFromJson
  ToJson <- CodecToJson
  RequestFromJson <- CodecRequestFromJson
SPECIFICATION Spec
INVARIANT
  DecodingIsolated
