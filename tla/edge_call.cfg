SPECIFICATION FairSpec
CONSTANTS
  pc1 = pc1
  pc2 = pc2
  Peer <- MCPeer
  Caller = pc1
  Callee = pc2
  NumLines = 2
  MaxNegotiations = 1
  MaxCandidates <- MCMaxCandidates
  Codecs <- MCCodecs
  Streams <- MCStreams
  OfferOptions <- MCOfferOptions
  Handlers = {}
INVARIANTS
  SendersAreUnderstood
  CandidatesMatchLines
PROPERTIES
  ImplementsOfferAnswer
  CallCompletes
  CandidatesArrive
  GatheringCompletes
CHECK_DEADLOCK FALSE
