SPECIFICATION Spec
CONSTANTS
  pc = pc
  Peer <- MCPeer
  NumLines = 2
  MaxNegotiations = 2
  MaxCandidates <- MCMaxCandidates
  Codecs <- MCCodecs
  Streams <- MCStreams
  OfferOptions <- MCOfferOptions
  Handlers = {"onaddstream"}
  RemoteCodecs <- MCRemoteCodecs
  MaxTransceivers = 2
  MaxTimeouts = 1
  MaxEvents = 4
  MaxMoving = 1
  IceStates <- MCIceStates
  DtlsStates <- MCDtlsStates
INVARIANTS
  TypeOK
  NothingBeforeLocalDescription
  CandidatesInOrder
  NoCandidateLost
  NullEndsTheAnswer
  StableMeansStarted
  ConnectedMeansAll
  BufferIsFlushed
  StreamsAreAnnounced
CHECK_DEADLOCK FALSE
