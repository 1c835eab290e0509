------------------------- MODULE EdgePeerConnection -------------------------
(***************************************************************************)
(* RTCPeerConnection as lib/adapter.js builds it for Edge (edge_shim,      *)
(* lines 986-1930) out of the ORTC objects of the browser: ICE gatherers,  *)
(* ICE and DTLS transports, RTP senders and receivers.  This module has    *)
(* its state and one operator per method, timeout and ORTC callback; the   *)
(* modules that extend it say who calls them.                              *)
(*                                                                         *)
(* The page runs one task at a time, so an action is one whole task: a     *)
(* method with the promise continuations that follow it at once, a         *)
(* timeout, or an ORTC callback.                                           *)
(*                                                                         *)
(* The transceiver of peer p for m-line l made in the k-th negotiation of  *)
(* p is the object <<p, k, l>>.  _pendingOffer, transceivers and the ORTC  *)
(* callbacks may each refer to objects of different negotiations, so a     *)
(* list of transceivers is a function from lines to negotiation numbers,   *)
(* 0 where the array has no element.                                       *)
(***************************************************************************)
EXTENDS Integers, Sequences, FiniteSets, Selection

CONSTANTS
  Peer,             \* the RTCPeerConnection objects
  NumLines,         \* bound: m-lines in a description
  MaxNegotiations,  \* bound: offers a peer makes or receives
  MaxCandidates,    \* bound: candidates a gatherer of p for line l finds, [p][l]
  Codecs,           \* Codecs[p][kind]: the codecs of p, [name, pt] records
  Streams,          \* the local streams, each a sequence of kinds of track
  OfferOptions,     \* [audio, video]: offerToReceive..., -1 for undefined
  Handlers          \* which of onaddstream and ontrack the application sets

ASSUME BoundsAssumption ==
  /\ NumLines \in Nat \ {0}
  /\ MaxNegotiations \in Nat \ {0}
  /\ MaxCandidates \in [Peer -> [1 .. NumLines -> Nat]]

\* What the page and the browser hand to the shim.
ASSUME InputsAssumption ==
  /\ \A p \in Peer, kind \in {"audio", "video"} :
       LET codecs == Codecs[p][kind]
       IN codecs \in Seq({codecs[i] : i \in DOMAIN codecs})
  /\ Streams \subseteq Seq({"audio", "video"})
  /\ OfferOptions \subseteq [{"audio", "video"} -> Int]

VARIABLES
  signalingState, iceGatheringState, iceConnectionState,
  localDescription,   \* type and m-sections
  remoteDescription,
  described,          \* candidate lines appended to localDescription.sdp
  localStreams,
  negotiations,       \* how often transceivers were made
  pendingOffer,       \* {} or {the transceivers createOffer made}
  transceivers,
  object,             \* the transceiver <<p, k, l>>; gatherer "none" before it is made
  buffer,             \* _localIceCandidatesBuffer
  emitted,            \* the icecandidate events, in their order
  tasks,              \* timeouts of 0 ms, first come first served
  flushes,            \* timeouts of 500 ms that emit the buffer
  announced,          \* calls of onaddstream and ontrack
  nullThrows          \* does onicecandidate throw at the null candidate?

gathering == <<iceGatheringState, described, buffer, emitted>>
signaling == <<signalingState, localDescription, remoteDescription>>
media == <<localStreams, negotiations, pendingOffer, transceivers>>
timeouts == <<tasks, flushes, announced>>
pcVars == <<gathering, signaling, media, timeouts, iceConnectionState,
            object, nullThrows>>

Line == 1 .. NumLines
Negotiation == 1 .. MaxNegotiations
Kind == {"audio", "video"}

\* The states ICE and DTLS transports report; the table of counts has all of
\* them but "disconnected".
TransportState == {"new", "checking", "connecting", "connected", "completed",
                   "disconnected", "failed", "closed"}

\* An icecandidate event [k, l, n]: the n-th candidate of a gatherer, its end
\* (n = 0, "typ endOfCandidates"), or the event without candidate.
Null == [k |-> 0, l |-> 0, n |-> 0]

\* Before there is a description its type is the empty text, "none" here.
NoDescription == [type |-> "none", sections |-> <<>>]
NoTransceivers == [l \in Line |-> 0]
NothingDescribed == [lines |-> {}, ended |-> FALSE]

\* A transceiver: its gatherer, its two transports, and what the RTP sender
\* and receiver were given.  remote is {} while remoteCapabilities is null.
NewTransceiver(kind, mid, local, sender, receiver) ==
  [kind |-> kind, mid |-> mid, local |-> local, remote |-> {},
   sender |-> sender, receiver |-> receiver, sending |-> <<>>,
   receiving |-> <<>>, gatherer |-> "gathering", found |-> 0,
   role |-> "none", ice |-> "new", dtls |-> "new", remoteCandidates |-> {}]

\* A timeout of 0 ms.
Task(calls, tracks) == [calls |-> calls, tracks |-> tracks]

\* The objects that transceivers, or _pendingOffer, of p refers to.
Objects(p, list) == {<<p, list[l], l>> : l \in {m \in Line : list[m] # 0}}

Init ==
  /\ signalingState = [p \in Peer |-> "stable"]
  /\ iceConnectionState = [p \in Peer |-> "new"]
  /\ iceGatheringState = [p \in Peer |-> "new"]
  /\ localDescription = [p \in Peer |-> NoDescription]
  /\ remoteDescription = [p \in Peer |-> NoDescription]
  /\ described = [p \in Peer |-> NothingDescribed]
  /\ localStreams = [p \in Peer |-> <<>>]
  /\ negotiations = [p \in Peer |-> 0]
  /\ pendingOffer = [p \in Peer |-> {}]
  /\ transceivers = [p \in Peer |-> NoTransceivers]
  /\ object = [o \in Peer \X Negotiation \X Line |->
                 [NewTransceiver("audio", o, <<>>, "none", FALSE)
                    EXCEPT !.gatherer = "none"]]
  /\ buffer = [p \in Peer |-> <<>>]
  /\ emitted = [p \in Peer |-> <<>>]
  /\ tasks = [p \in Peer |-> <<>>]
  /\ flushes = [p \in Peer |-> 0]
  /\ announced = [p \in Peer |-> [streams |-> 0, onaddstream |-> 0, ontrack |-> 0]]
  /\ nullThrows \in [Peer -> BOOLEAN]

-----------------------------------------------------------------------------
(* Local streams.  Only a clone is kept, so removeStream of the stream that *)
(* was added finds nothing; it removes what getLocalStreams returned.       *)

AddStream(p, stream) ==
  /\ localStreams' = [localStreams EXCEPT ![p] = Append(@, stream)]
  /\ UNCHANGED <<gathering, signaling, timeouts, negotiations, pendingOffer,
                 transceivers, iceConnectionState, object, nullThrows>>

RemoveStream(p, i) ==
  /\ i \in DOMAIN localStreams[p]
  /\ localStreams' = [localStreams EXCEPT ![p] =
       SubSeq(@, 1, i - 1) \o SubSeq(@, i + 1, Len(@))]
  /\ UNCHANGED <<gathering, signaling, timeouts, negotiations, pendingOffer,
                 transceivers, iceConnectionState, object, nullThrows>>

-----------------------------------------------------------------------------
(* Offers and answers.                                                      *)

\* The m-lines createOffer writes: one per track of the first local stream,
\* then lines that only receive, audio and video in turn.
OfferedLines(stream, options) ==
  LET Count(kind, n) == Cardinality({i \in 1 .. n : stream[i] = kind})
      Wanted(kind) == IF options[kind] = -1 THEN Count(kind, Len(stream))
                      ELSE options[kind]
      Left(kind) == LET n == Wanted(kind) - Count(kind, Len(stream))
                    IN IF n > 0 THEN n ELSE 0
      Last == IF Left("audio") > Left("video") THEN "audio" ELSE "video"
      paired == IF Last = "audio" THEN 2 * Left("video") ELSE 2 * Left("audio")
  IN [i \in DOMAIN stream |->
        [kind |-> stream[i], track |-> TRUE,
         wantReceive |-> Wanted(stream[i]) > Count(stream[i], i - 1)]]
     \o [j \in 1 .. Left("audio") + Left("video") |->
          [kind |-> IF j > paired THEN Last
                    ELSE IF j % 2 = 1 THEN "audio" ELSE "video",
           track |-> FALSE, wantReceive |-> TRUE]]

FirstStream(p) == IF localStreams[p] = <<>> THEN <<>> ELSE localStreams[p][1]

\* The codecs both sides have, in the order of local, each as remote names it.
Named(remote, name) == {j \in DOMAIN remote : remote[j].name = name}
FirstNamed(remote, name) ==
  remote[CHOOSE j \in Named(remote, name) : \A m \in Named(remote, name) : j <= m]
Shared(local, remote) == {i \in DOMAIN local : Named(remote, local[i].name) # {}}
CommonCodecsOwn(local, remote) ==
  LET shared == Shared(local, remote)
  IN [i \in 1 .. Cardinality(shared) |-> local[Nth(shared, i)]]
CommonCodecs(local, remote) ==
  LET shared == Shared(local, remote)
  IN [i \in 1 .. Cardinality(shared) |->
        FirstNamed(remote, local[Nth(shared, i)].name)]

\* An m-section; port 0, which means rejected, is written without codecs.
MediaSection(t, codecs) ==
  [kind |-> t.kind, mid |-> t.mid, codecs |-> codecs, rejected |-> codecs = <<>>,
   send |-> t.sender # "none", receive |-> t.receiver]

OfferOf(p, list) ==
  [type |-> "offer",
   sections |-> [l \in 1 .. Cardinality(Objects(p, list)) |->
                   MediaSection(object[p, list[l], l], object[p, list[l], l].local)]]

\* createOffer throws while there is a pending offer.
CreateOffer(p, options) ==
  LET lines == OfferedLines(FirstStream(p), options)
      k == negotiations[p] + 1
  IN /\ pendingOffer[p] = {}
     /\ k <= MaxNegotiations
     /\ Len(lines) <= NumLines
     /\ negotiations' = [negotiations EXCEPT ![p] = k]
     /\ pendingOffer' = [pendingOffer EXCEPT ![p] =
          {[l \in Line |-> IF l <= Len(lines) THEN k ELSE 0]}]
     /\ object' = [o \in DOMAIN object |->
          IF o[1] = p /\ o[2] = k /\ o[3] <= Len(lines)
          THEN NewTransceiver(lines[o[3]].kind, o, Codecs[p][lines[o[3]].kind],
                 IF lines[o[3]].track THEN "track" ELSE "none",
                 lines[o[3]].wantReceive)
          ELSE object[o]]
     /\ UNCHANGED <<gathering, signaling, timeouts, localStreams, transceivers,
                    iceConnectionState, nullThrows>>

\* createAnswer reads the remote capabilities of every transceiver, and of
\* every sender the track and the first local stream: it throws without them.
CanCreateAnswer(p) ==
  \A o \in Objects(p, transceivers[p]) :
    /\ object[o].remote # {}
    /\ object[o].sender # "empty"
    /\ object[o].sender = "track" => localStreams[p] # <<>>

\* Lines without a transceiver are passed over, so the answer may have fewer
\* m-sections than the offer.
AnswerOf(p) ==
  LET present == {l \in Line : transceivers[p][l] # 0}
      Section(l) ==
        LET t == object[p, transceivers[p][l], l]
        IN MediaSection(t, CommonCodecs(t.local, CHOOSE codecs \in t.remote : TRUE))
  IN [type |-> "answer",
      sections |-> [i \in 1 .. Cardinality(present) |-> Section(Nth(present, i))]]

-----------------------------------------------------------------------------
(* Candidates.                                                              *)

\* every() over the transceivers: are all their gatherers done?  True of none.
AnyGathered(p, obj) ==
  \E o \in Objects(p, transceivers[p]) : obj[o].gatherer = "completed"
AllGathered(p, obj) ==
  \A o \in Objects(p, transceivers[p]) : obj[o].gatherer = "completed"

\* _emitBufferedCandidates.  The loop writes each event to localDescription
\* and dispatches it; at the null candidate it also tests for the end of
\* gathering.  A handler that throws leaves the loop: the buffer is kept.
NullsIn(events) == {i \in DOMAIN events : events[i] = Null}
LoopThrows(p) == nullThrows[p] /\ NullsIn(buffer[p]) # {}
LoopedBackwards(p) == [i \in DOMAIN buffer[p] |-> buffer[p][Len(buffer[p]) + 1 - i]]
LoopedToNull(p) ==
  LET nulls == NullsIn(buffer[p])
  IN IF nulls = {} THEN buffer[p]
     ELSE SubSeq(buffer[p], 1, CHOOSE i \in nulls : \A j \in nulls : i <= j)
Looped(p) ==
  IF LoopThrows(p)
  THEN SubSeq(buffer[p], 1, CHOOSE i \in NullsIn(buffer[p]) :
                              \A j \in NullsIn(buffer[p]) : i <= j)
  ELSE buffer[p]
KeptAlways(p) == buffer[p]
Kept(p) == IF LoopThrows(p) THEN buffer[p] ELSE <<>>

Written(d, events) ==
  [lines |-> d.lines \union
     {events[i] : i \in {j \in DOMAIN events : events[j].n # 0}},
   ended |-> d.ended \/ NullsIn(events) # {}]

GatheringOn(p, state, obj) == state
Gathering(p, state, obj) ==
  IF /\ NullsIn(buffer[p]) # {} /\ ~nullThrows[p] /\ AllGathered(p, obj)
  THEN "complete" ELSE state

EmitBufferedCandidates(p, state) ==
  /\ described' = [described EXCEPT ![p] = Written(@, Looped(p))]
  /\ emitted' = [emitted EXCEPT ![p] = @ \o Looped(p)]
  /\ buffer' = [buffer EXCEPT ![p] = Kept(p)]
  /\ iceGatheringState' = [iceGatheringState EXCEPT ![p] =
       Gathering(p, state, object)]

\* onlocalcandidate of the gatherer of <<p, k, l>>: its next candidate, or its
\* end, which an old Edge makes known by nothing else (the state is set here).
LocalCandidate(p, k, l, end) ==
  LET t == object[p, k, l]
      event == [k |-> k, l |-> l, n |-> IF end THEN 0 ELSE t.found + 1]
      obj == [object EXCEPT ![<<p, k, l>>] =
                IF end THEN [t EXCEPT !.gatherer = "completed"]
                ELSE [t EXCEPT !.found = t.found + 1]]
      complete == AllGathered(p, obj)
      After == IF LoopThrows(p) THEN <<>>
               ELSE IF complete THEN <<event, Null>> ELSE <<event>>
  IN /\ t.gatherer = "gathering"
     /\ end \/ t.found < MaxCandidates[p][l]
     /\ object' = obj
     /\ \/ /\ iceGatheringState[p] = "new"
           /\ buffer' = [buffer EXCEPT ![p] =
                @ \o (IF end /\ complete THEN <<event, Null>> ELSE <<event>>)]
           /\ UNCHANGED <<iceGatheringState, described, emitted>>
        \/ /\ iceGatheringState[p] = "gathering"
           /\ described' = [described EXCEPT ![p] = Written(@, Looped(p))]
           /\ emitted' = [emitted EXCEPT ![p] = @ \o Looped(p) \o After]
           /\ buffer' = [buffer EXCEPT ![p] = Kept(p)]
           /\ iceGatheringState' = [iceGatheringState EXCEPT ![p] =
                IF complete /\ ~nullThrows[p] THEN "complete" ELSE @]
        \/ /\ iceGatheringState[p] = "complete"
           /\ UNCHANGED gathering
     /\ UNCHANGED <<signaling, media, timeouts, iceConnectionState, nullThrows>>

\* addIceCandidate: the line is looked up by mid, else taken from the event.
\* The loop reads the mid of every element before the one it finds, and
\* throws at a hole; a candidate for a line without transceiver is dropped.
MidLines(p, mid) ==
  {l \in Line : transceivers[p][l] # 0 /\ object[p, transceivers[p][l], l].mid = mid}
CandidateLineFirst(p, mid, l) == 1
CandidateLine(p, mid, l) ==
  IF MidLines(p, mid) = {} THEN l
  ELSE CHOOSE m \in MidLines(p, mid) : \A n \in MidLines(p, mid) : m <= n
HoleBefore(p, mid) ==
  \E hole, last \in Line :
    /\ transceivers[p][hole] = 0 /\ transceivers[p][last] # 0 /\ hole < last
    /\ \A m \in MidLines(p, mid) : hole < m

AddIceCandidate(p, mid, l, n) ==
  LET line == CandidateLine(p, mid, l)
  IN /\ IF HoleBefore(p, mid) \/ transceivers[p][line] = 0
        THEN UNCHANGED object
        ELSE object' = [object EXCEPT
               ![<<p, transceivers[p][line], line>>].remoteCandidates =
                 @ \union {[mid |-> mid, n |-> n]}]
     /\ UNCHANGED <<gathering, signaling, media, timeouts, iceConnectionState,
                    nullThrows>>

-----------------------------------------------------------------------------
(* Descriptions.                                                            *)

\* What follows every setLocalDescription.  With a success callback it is
\* called from a timeout that also starts the emission; without, the promise
\* starts the gathering state at once and the emission follows in 500 ms.
LocalDescriptionSet(p, d, state, hasCallback) ==
  /\ localDescription' = [localDescription EXCEPT ![p] = d]
  /\ described' = [described EXCEPT ![p] = NothingDescribed]
  /\ signalingState' = [signalingState EXCEPT ![p] = state]
  /\ IF hasCallback
     THEN /\ tasks' = [tasks EXCEPT ![p] = Append(@, Task("success", 0))]
          /\ UNCHANGED <<iceGatheringState, flushes>>
     ELSE /\ iceGatheringState' = [iceGatheringState EXCEPT ![p] =
               IF @ = "new" THEN "gathering" ELSE @]
          /\ flushes' = [flushes EXCEPT ![p] = @ + 1]
          /\ UNCHANGED tasks
  /\ UNCHANGED <<remoteDescription, buffer, emitted, announced, localStreams,
                 negotiations, iceConnectionState, nullThrows>>

\* An offer installs what createOffer made, with the codecs as they are in
\* the description now; without a pending offer only the description is set.
SetLocalOffer(p, d, hasCallback) ==
  /\ \/ /\ pendingOffer[p] = {}
        /\ UNCHANGED <<pendingOffer, transceivers, object>>
     \/ \E list \in pendingOffer[p] :
          /\ object' = [o \in DOMAIN object |->
               IF o \in Objects(p, list) /\ o[3] \in DOMAIN d.sections
               THEN [object[o] EXCEPT !.local = d.sections[o[3]].codecs]
               ELSE object[o]]
          /\ transceivers' = [transceivers EXCEPT ![p] = list]
          /\ pendingOffer' = [pendingOffer EXCEPT ![p] = {}]
  /\ LocalDescriptionSet(p, d, "have-local-offer", hasCallback)

\* The m-sections a forEach comes to before it throws at one of these lines.
BeforeFromSecond(missing, sections) ==
  {l \in DOMAIN sections : l > 1 /\ \A m \in missing : l < m}
Before(missing, sections) ==
  {l \in DOMAIN sections : \A m \in missing : l < m}

\* An answer starts the transports of each line the remote offer accepts and
\* sends on it, if there is a codec in common.  The loop reads the
\* transceiver of rejected lines as well: it throws where there is none, with
\* the lines before it started and the description not set.
SetLocalAnswer(p, d, hasCallback) ==
  LET offer == remoteDescription[p].sections
      missing == {l \in DOMAIN offer : transceivers[p][l] = 0}
      started == {l \in Before(missing, offer) : ~offer[l].rejected}
      Start(t) ==
        LET codecs == CommonCodecs(t.local, CHOOSE c \in t.remote : TRUE)
        IN [t EXCEPT !.role = "controlled",
                     !.sending = IF codecs # <<>> /\ t.sender # "none"
                                 THEN codecs ELSE @]
  IN /\ object' = [o \in DOMAIN object |->
          IF o \in Objects(p, transceivers[p]) /\ o[3] \in started
          THEN Start(object[o]) ELSE object[o]]
     /\ UNCHANGED <<pendingOffer, transceivers>>
     /\ \/ /\ missing = {}
           /\ LocalDescriptionSet(p, d, "stable", hasCallback)
        \/ /\ missing # {}
           /\ UNCHANGED <<gathering, signaling, timeouts, localStreams,
                          negotiations, iceConnectionState, nullThrows>>

\* What follows every setRemoteDescription: a stream with the tracks of the
\* receivers, if there are any, is announced from a timeout.
RemoteDescriptionGathers(p, d, state, receivers) ==
  /\ remoteDescription' = [remoteDescription EXCEPT ![p] = d]
  /\ signalingState' = [signalingState EXCEPT ![p] = state]
  /\ iceGatheringState' = [iceGatheringState EXCEPT ![p] = "gathering"]
  /\ UNCHANGED <<described, buffer, emitted, timeouts, localDescription,
                 localStreams, pendingOffer, iceConnectionState, nullThrows>>
RemoteDescriptionSet(p, d, state, receivers) ==
  /\ remoteDescription' = [remoteDescription EXCEPT ![p] = d]
  /\ signalingState' = [signalingState EXCEPT ![p] = state]
  /\ IF receivers = 0 THEN UNCHANGED <<tasks, announced>>
     ELSE /\ tasks' = [tasks EXCEPT ![p] = Append(@, Task("addstream", receivers))]
          /\ announced' = [announced EXCEPT ![p].streams = @ + 1]
  /\ UNCHANGED <<gathering, localDescription, flushes, localStreams,
                 pendingOffer, iceConnectionState, nullThrows>>

\* The sender of line l gets the l-th track of the first local stream.  The
\* length test lets one line too many through, which then has no track.
AnsweringSenderShort(p, l) ==
  IF localStreams[p] = <<>> \/ Len(FirstStream(p)) < l THEN "none"
  ELSE IF l < Len(FirstStream(p)) THEN "track" ELSE "empty"
AnsweringSender(p, l) ==
  IF localStreams[p] = <<>> \/ Len(FirstStream(p)) < l - 1 THEN "none"
  ELSE IF l <= Len(FirstStream(p)) THEN "track" ELSE "empty"

\* An offer makes a transceiver for each line it accepts, and receives there;
\* a rejected line keeps the transceiver it had, if any.
SetRemoteOffer(p, d) ==
  LET k == negotiations[p] + 1
      accepted == {l \in DOMAIN d.sections : ~d.sections[l].rejected}
      Answering(l) ==
        LET s == d.sections[l]
            t == NewTransceiver(s.kind, s.mid, Codecs[p][s.kind],
                                AnsweringSender(p, l), TRUE)
        IN [t EXCEPT !.remote = {s.codecs},
                     !.receiving = IF s.send THEN CommonCodecs(t.local, s.codecs)
                                   ELSE <<>>]
  IN /\ k <= MaxNegotiations
     /\ negotiations' = [negotiations EXCEPT ![p] = k]
     /\ transceivers' = [transceivers EXCEPT ![p] =
          [l \in Line |-> IF l \in accepted THEN k ELSE @[l]]]
     /\ object' = [o \in DOMAIN object |->
          IF o[1] = p /\ o[2] = k /\ o[3] \in accepted
          THEN Answering(o[3]) ELSE object[o]]
     /\ RemoteDescriptionSet(p, d, "have-remote-offer", Cardinality(accepted))

\* An answer starts the transports of each line it accepts, sends and
\* receives there as its direction says, and drops a receiver it does not
\* feed.  Lines it rejects keep their transports as they are.
SetRemoteAnswer(p, d) ==
  LET accepted == {l \in DOMAIN d.sections : ~d.sections[l].rejected}
      missing == {l \in accepted : transceivers[p][l] = 0}
      started == Before(missing, d.sections) \intersect accepted
      Start(t, s) ==
        LET codecs == CommonCodecs(t.local, s.codecs)
        IN [t EXCEPT !.remote = {s.codecs}, !.role = "controlling",
                     !.sending = IF s.receive /\ t.sender # "none"
                                 THEN codecs ELSE @,
                     !.receiving = IF s.send /\ t.receiver THEN codecs ELSE @,
                     !.receiver = s.send /\ t.receiver]
      obj == [o \in DOMAIN object |->
                IF o \in Objects(p, transceivers[p]) /\ o[3] \in started
                THEN Start(object[o], d.sections[o[3]]) ELSE object[o]]
      receivers == {l \in started : obj[p, transceivers[p][l], l].receiver}
  IN /\ object' = obj
     /\ UNCHANGED <<negotiations, transceivers>>
     /\ \/ /\ missing = {}
           /\ RemoteDescriptionSet(p, d, "stable", Cardinality(receivers))
        \/ /\ missing # {}
           /\ UNCHANGED <<gathering, signaling, timeouts, localStreams,
                          pendingOffer, iceConnectionState, nullThrows>>

\* close stops the transports, senders and receivers of the transceivers.
Close(p) ==
  /\ object' = [o \in DOMAIN object |->
       IF o \in Objects(p, transceivers[p])
       THEN [object[o] EXCEPT !.ice = "closed", !.dtls = "closed",
                              !.sending = <<>>, !.receiving = <<>>]
       ELSE object[o]]
  /\ signalingState' = [signalingState EXCEPT ![p] = "closed"]
  /\ UNCHANGED <<gathering, localDescription, remoteDescription, media,
                 timeouts, iceConnectionState, nullThrows>>

-----------------------------------------------------------------------------
(* Timeouts and transport events.                                           *)

\* The timeouts the announcement of a stream with n tracks leaves: one for
\* onaddstream and one per track for ontrack.
AnnouncementsPerTrack(n) ==
  IF "onaddstream" \in Handlers
  THEN [i \in 1 .. n |-> Task("onaddstream", 0)] ELSE <<>>
Announcements(n) ==
  (IF "onaddstream" \in Handlers THEN <<Task("onaddstream", 0)>> ELSE <<>>)
    \o (IF "ontrack" \in Handlers
        THEN [i \in 1 .. n |-> Task("ontrack", 0)] ELSE <<>>)

\* The 0 ms timeout at the head of the queue.  "success" is the callback of
\* setLocalDescription; "addstream" announces a stream to the listeners.
RunTask(p) ==
  LET task == Head(tasks[p])
  IN /\ tasks[p] # <<>>
     /\ \/ /\ task.calls = "success"
           /\ tasks' = [tasks EXCEPT ![p] = Tail(@)]
           /\ EmitBufferedCandidates(p,
                IF iceGatheringState[p] = "new" THEN "gathering"
                ELSE iceGatheringState[p])
           /\ UNCHANGED announced
        \/ /\ task.calls = "addstream"
           /\ tasks' = [tasks EXCEPT ![p] =
                Tail(@) \o Announcements(task.tracks)]
           /\ UNCHANGED <<announced, gathering>>
        \/ /\ task.calls \in {"onaddstream", "ontrack"}
           /\ tasks' = [tasks EXCEPT ![p] = Tail(@)]
           /\ announced' = [announced EXCEPT ![p][task.calls] = @ + 1]
           /\ UNCHANGED gathering
     /\ UNCHANGED <<flushes, signaling, media, iceConnectionState, object,
                    nullThrows>>

RunFlush(p) ==
  /\ flushes[p] > 0
  /\ flushes' = [flushes EXCEPT ![p] = @ - 1]
  /\ EmitBufferedCandidates(p, iceGatheringState[p])
  /\ UNCHANGED <<tasks, announced, signaling, media, iceConnectionState,
                 object, nullThrows>>

\* _updateConnectionState.  The table of counts has no entry "disconnected":
\* its count is not a number, and the branch for it is never taken.
ConnectionStateHasty(p, obj) ==
  LET states == UNION {{obj[o].ice, obj[o].dtls} : o \in Objects(p, transceivers[p])}
  IN IF "failed" \in states THEN "failed"
     ELSE IF states \intersect {"connected", "completed"} # {} THEN "connected"
     ELSE IF states \intersect {"connecting", "checking"} # {} THEN "connecting"
     ELSE "new"
ConnectionStateOfOne(p, obj) ==
  IF Objects(p, transceivers[p]) = {} THEN "new"
  ELSE obj[CHOOSE o \in Objects(p, transceivers[p]) : TRUE].ice
ConnectionState(p, obj) ==
  LET states == UNION {{obj[o].ice, obj[o].dtls} : o \in Objects(p, transceivers[p])}
  IN IF "failed" \in states THEN "failed"
     ELSE IF states \intersect {"connecting", "checking"} # {} THEN "connecting"
     ELSE IF "new" \in states THEN "new"
     ELSE IF states \intersect {"connected", "completed"} # {} THEN "connected"
     ELSE "new"

UpdateConnectionState(p, obj) ==
  iceConnectionState' = [iceConnectionState EXCEPT ![p] = ConnectionState(p, obj)]

\* onicestatechange of an ICE transport that was started and not stopped.
IceStateChange(p, k, l, ice) ==
  /\ object[p, k, l].role # "none"
  /\ object[p, k, l].ice \notin {ice, "closed"}
  /\ object' = [object EXCEPT ![<<p, k, l>>].ice = ice]
  /\ UpdateConnectionState(p, object')
  /\ UNCHANGED <<gathering, signaling, media, timeouts, nullThrows>>

\* ondtlsstatechange, and onerror, which sets the state "failed" itself.
DtlsStateChange(p, k, l, dtls) ==
  /\ object[p, k, l].role # "none"
  /\ object[p, k, l].dtls \notin {dtls, "closed"}
  /\ object' = [object EXCEPT ![<<p, k, l>>].dtls = dtls]
  /\ UpdateConnectionState(p, object')
  /\ UNCHANGED <<gathering, signaling, media, timeouts, nullThrows>>

\* The event of a transport that close stopped.
TransportStopped(p) ==
  /\ \E o \in Objects(p, transceivers[p]) : object[o].ice = "closed"
  /\ UpdateConnectionState(p, object)
  /\ UNCHANGED <<gathering, signaling, media, timeouts, object, nullThrows>>
=============================================================================
