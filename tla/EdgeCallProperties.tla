------------------------- MODULE EdgeCallProperties -------------------------
(* What two peers of the Edge shim achieve together.                        *)
EXTENDS EdgePeerProperties, EdgeCall

\* What the media of p settled on: line by line the codecs, with their payload
\* types, of its RTP senders and receivers.
Elements(s) == {s[i] : i \in DOMAIN s}
Settled(p) ==
  IF signalingState[p] # "stable" \/ remoteDescription[p].type = "none" THEN {}
  ELSE {UNION {{o[3]} \X (Elements(object[o].sending) \union
                          Elements(object[o].receiving)) :
               o \in Objects(p, transceivers[p])}}

OfferedCodecs == UNION {Elements(Codecs[Caller][kind]) : kind \in Kind}
Abstract == INSTANCE OfferAnswer WITH
  Lines <- Line, CodecsOfOffer <- OfferedCodecs,
  state <- signalingState, agreed <- [p \in Peer |-> Settled(p)]

\* The two shims run the offer/answer protocol and end with the same codecs
\* and payload types on each line.
ImplementsOfferAnswer == Abstract!Spec

\* While both are stable each peer only sends codecs, with their payload types,
\* that the other receives on that line, unless the other wants nothing there
\* (the shim does not look at the direction of an offer, 1501).
SendersAreUnderstood ==
  (\A p \in Peer : signalingState[p] = "stable") =>
    \A p \in Peer : \A o \in Objects(p, transceivers[p]) :
      LET there == object[Other(p), transceivers[Other(p)][o[3]], o[3]]
      IN there.receiver =>
           Elements(object[o].sending) \subseteq Elements(there.receiving)

\* A candidate is only given to the transport of the m-line it was found for.
CandidatesMatchLines ==
  \A p \in Peer : \A o \in Objects(p, transceivers[p]) :
    \A c \in object[o].remoteCandidates :
      /\ c.mid = object[o].mid
      /\ c.n <= object[Other(p), 1, o[3]].found

\* Whether the callee can send on each line that is offered, or on none: 1493
\* makes a sender without a track for the line after the last track of a
\* shorter stream, and createAnswer then throws (942).
CalleeHasTracks ==
  \/ localStreams[Callee] = <<>>
  \/ Len(FirstStream(Callee)) >= Cardinality(Objects(Caller, transceivers[Caller]))

\* A call that was offered to a callee without a stream, or with a track for
\* each offered line, ends with both peers stable.
CallCompletes ==
  signalingState[Caller] = "have-local-offer" /\ CalleeHasTracks ~>
    /\ \A p \in Peer : signalingState[p] = "stable"
    /\ \A p \in Peer : remoteDescription[p].type # "none"

\* Once a call was offered, each candidate a gatherer finds, before or after
\* the descriptions are set, comes to the transport at the other end.
CandidatesArrive ==
  \A p \in Peer : \A l \in Line : \A n \in 1 .. MaxCandidates[p][l] :
    (localDescription[Caller].type # "none" /\ object[p, 1, l].found >= n) ~>
      [mid |-> object[p, 1, l].mid, n |-> n] \in object[Other(p), 1, l].remoteCandidates

\* Gathering comes to its end at both peers of such a call, although the null
\* candidates may have been buffered before anything was known to be missing.
GatheringCompletes ==
  signalingState[Caller] = "have-local-offer" /\ CalleeHasTracks ~>
    \A p \in Peer : iceGatheringState[p] = "complete"
=============================================================================
