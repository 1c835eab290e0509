SPECIFICATION Spec
CONSTANTS
  front = front
  back = back
  Candidates <- MCCandidates
  Capabilities <- MCCapabilities
  Transceivers <- MCTransceivers
  Announcements <- MCAnnouncements
  Sessions <- MCSessions
  Constraints <- MCConstraints
  Names <- MCNames
  Numbers <- MCNumbers
  Values <- MCValues
INVARIANTS
  CandidatesSurvive
  OffersSurvive
  AnswersNumberAsOffered
  SectionsAreRead
  AskTheSame
CHECK_DEADLOCK FALSE
