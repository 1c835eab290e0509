------------------------- MODULE EdgePeerProperties -------------------------
(* What a peer connection of the Edge shim promises the application.        *)
EXTENDS EdgePeerConnection

Candidate == [k : Negotiation, l : Line, n : Nat]
Events(p) == emitted[p] \o buffer[p]

\* The values of the state.
TypeOK ==
  /\ signalingState \in [Peer -> {"stable", "have-local-offer",
                                  "have-remote-offer", "closed"}]
  /\ iceGatheringState \in [Peer -> {"new", "gathering", "complete"}]
  /\ iceConnectionState \in [Peer -> {"new", "connecting", "connected", "failed"}]
  /\ negotiations \in [Peer -> 0 .. MaxNegotiations]
  /\ transceivers \in [Peer -> [Line -> 0 .. MaxNegotiations]]
  /\ \A p \in Peer :
       /\ pendingOffer[p] \subseteq [Line -> 0 .. negotiations[p]]
       /\ \A i \in DOMAIN Events(p) : Events(p)[i] \in Candidate \union {Null}
  /\ \A o \in DOMAIN object :
       /\ object[o].gatherer \in {"none", "gathering", "completed"}
       /\ object[o].found \in 0 .. MaxCandidates[o[1]][o[3]]
       /\ object[o].role \in {"none", "controlling", "controlled"}
       /\ {object[o].ice, object[o].dtls} \subseteq TransportState

\* No candidate reaches the application before a local description is set,
\* whenever the gatherers find them: the buffer of createOffer (1087-1090).
NothingBeforeLocalDescription ==
  \A p \in Peer : emitted[p] # <<>> => localDescription[p].type # "none"

\* Candidates of one gatherer leave in the order they were found, none twice
\* and its end last, however direct emission and the emission of the buffer
\* alternate; for applications that put up with the null candidate.
CandidatesInOrder ==
  \A p \in Peer : ~nullThrows[p] =>
    \A i, j \in DOMAIN Events(p) :
      LET c == Events(p)[i]
          d == Events(p)[j]
      IN i < j /\ c # Null /\ <<c.k, c.l>> = <<d.k, d.l>>
         => c.n # 0 /\ (d.n = 0 \/ c.n < d.n)

\* In the first negotiation no candidate is lost between the gatherer and
\* the application (1199-1252).
NoCandidateLost ==
  \A p \in Peer : ~nullThrows[p] /\ negotiations[p] = 1 =>
    \A l \in Line : \A n \in 1 .. object[p, 1, l].found :
      \E i \in DOMAIN Events(p) : Events(p)[i] = [k |-> 1, l |-> l, n |-> n]

\* The null candidate of a peer that answers is its last event, and by then
\* every gatherer is done (1223: "when all gatherers are complete").
NullEndsTheAnswer ==
  \A p \in Peer :
    ~nullThrows[p] /\ negotiations[p] = 1 /\ remoteDescription[p].type = "offer" =>
    \A i \in DOMAIN Events(p) : Events(p)[i] = Null =>
      i = Len(Events(p)) /\ AllGathered(p, object)

\* A peer is stable only with an offer of one side and an answer of the other,
\* and then each line the remote end accepts has its transports started in
\* the role of that side, whatever was thrown on the way.
StableMeansStarted ==
  \A p \in Peer : signalingState[p] = "stable" /\ localDescription[p].type # "none" =>
    /\ {localDescription[p].type, remoteDescription[p].type} = {"offer", "answer"}
    /\ \A l \in DOMAIN remoteDescription[p].sections :
         ~remoteDescription[p].sections[l].rejected =>
           /\ transceivers[p][l] # 0
           /\ object[p, transceivers[p][l], l].role =
                IF remoteDescription[p].type = "offer" THEN "controlled"
                ELSE "controlling"

\* In the first negotiation "connected" is reported only while no transport of
\* any m-line is new, on its way, or failed.
ConnectedMeansAll ==
  \A p \in Peer : iceConnectionState[p] = "connected" /\ negotiations[p] = 1 =>
    \A o \in Objects(p, transceivers[p]) :
      {object[o].ice, object[o].dtls} \intersect
        {"new", "checking", "connecting", "failed"} = {}

\* Nothing is pending on a timeout of p.
Quiet(p) == tasks[p] = <<>> /\ flushes[p] = 0

\* Once a local description is set and the timeouts have run nothing is left in
\* the buffer, although no gatherer may ever call again (1376-1398).
BufferIsFlushed ==
  \A p \in Peer : localDescription[p].type # "none" /\ ~nullThrows[p] /\ Quiet(p)
    => buffer[p] = <<>>

\* When the timeouts have run each remote stream was announced to onaddstream
\* once, over all the descriptions that were set meanwhile (1574-1601).
StreamsAreAnnounced ==
  "onaddstream" \in Handlers => \A p \in Peer : Quiet(p) =>
    announced[p].onaddstream = announced[p].streams
=============================================================================
