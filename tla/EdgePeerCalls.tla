---------------------------- MODULE EdgePeerCalls ----------------------------
(***************************************************************************)
(* Peer connections of the Edge shim used on their own: an application     *)
(* that keeps to the offer/answer order of the standard, remote ends that  *)
(* are any other browser, and the ORTC objects underneath.  A remote end   *)
(* may reject m-lines; the application may answer an offer that arrives    *)
(* after it called createOffer, renegotiate, and close at any moment.      *)
(***************************************************************************)
EXTENDS EdgePeerConnection

CONSTANTS
  RemoteCodecs,    \* RemoteCodecs[kind]: what the remote ends can do
  MaxTransceivers, \* bound: transceivers a peer makes
  MaxTimeouts,     \* bound: pending timeouts when a description is set
  MaxEvents,       \* bound: events emitted when an offer is set again
  MaxMoving,       \* bound: negotiations whose transports change state
  IceStates,       \* the states ICE transports are seen in
  DtlsStates

ASSUME TransportsAssumption ==
  /\ IceStates \union DtlsStates \subseteq TransportState
  /\ MaxMoving \in 0 .. MaxNegotiations

KindOfLine(l) == IF l % 2 = 1 THEN "audio" ELSE "video"

\* An m-section another browser wrote; a rejected one has port 0.
RemoteSection(k, l, rejected) ==
  [kind |-> KindOfLine(l), mid |-> <<"remote", k, l>>,
   codecs |-> IF rejected THEN <<>> ELSE RemoteCodecs[KindOfLine(l)],
   rejected |-> rejected, send |-> TRUE, receive |-> TRUE]

RemoteDescriptions(type, k, lengths) ==
  {[type |-> type, sections |-> [l \in DOMAIN rejected |->
                                   RemoteSection(k, l, rejected[l])]] :
     rejected \in UNION {[1 .. n -> BOOLEAN] : n \in lengths}}

-----------------------------------------------------------------------------
(* The application.                                                         *)

Adds(p) ==
  /\ localStreams[p] = <<>> /\ negotiations[p] = 0
  /\ \E stream \in Streams : AddStream(p, stream)

Removes(p) == signalingState[p] # "closed" /\ \E i \in {1} : RemoveStream(p, i)

Made(p) == Cardinality({o \in DOMAIN object :
                          o[1] = p /\ object[o].gatherer # "none"})

CreatesOffer(p) ==
  /\ signalingState[p] # "closed"
  /\ \E options \in OfferOptions :
       /\ Made(p) + Len(OfferedLines(FirstStream(p), options)) <= MaxTransceivers
       /\ CreateOffer(p, options)

\* It sets the offer createOffer gave it, or the one that is set already.
SetsLocalOffer(p) ==
  /\ signalingState[p] \in {"stable", "have-local-offer"}
  /\ flushes[p] + Len(tasks[p]) < MaxTimeouts
  /\ \E hasCallback \in BOOLEAN :
       \/ \E list \in pendingOffer[p] :
            SetLocalOffer(p, OfferOf(p, list), hasCallback)
       \/ /\ pendingOffer[p] = {} /\ signalingState[p] = "have-local-offer"
          /\ Len(emitted[p]) < MaxEvents
          /\ SetLocalOffer(p, localDescription[p], hasCallback)

GetsOffer(p) ==
  /\ signalingState[p] \in {"stable", "have-remote-offer"}
  /\ \E d \in RemoteDescriptions("offer", negotiations[p] + 1, Line) :
       /\ Made(p) + Len(d.sections) <= MaxTransceivers
       /\ SetRemoteOffer(p, d)

SetsLocalAnswer(p) ==
  /\ signalingState[p] = "have-remote-offer"
  /\ flushes[p] + Len(tasks[p]) < MaxTimeouts
  /\ CanCreateAnswer(p)
  /\ \E hasCallback \in BOOLEAN : SetLocalAnswer(p, AnswerOf(p), hasCallback)

GetsAnswer(p) ==
  /\ signalingState[p] = "have-local-offer"
  /\ \E d \in RemoteDescriptions("answer", negotiations[p],
                {Len(localDescription[p].sections)}) : SetRemoteAnswer(p, d)

Closes(p) == signalingState[p] # "closed" /\ Close(p)

-----------------------------------------------------------------------------
(* The browser.                                                             *)

Gathers(p) == \E k \in Negotiation, l \in Line, end \in BOOLEAN :
  LocalCandidate(p, k, l, end)
TransportChanges(p) == \E k \in 1 .. MaxMoving, l \in Line :
  \/ \E ice \in IceStates : IceStateChange(p, k, l, ice)
  \/ \E dtls \in DtlsStates : DtlsStateChange(p, k, l, dtls)

Next == \E p \in Peer :
  \/ Adds(p) \/ Removes(p) \/ CreatesOffer(p) \/ SetsLocalOffer(p)
  \/ GetsOffer(p) \/ SetsLocalAnswer(p) \/ GetsAnswer(p) \/ Closes(p)
  \/ Gathers(p) \/ TransportChanges(p) \/ TransportStopped(p)
  \/ RunTask(p) \/ RunFlush(p)

Spec == Init /\ [][Next]_pcVars
=============================================================================
