------------------------------ MODULE EdgeCall ------------------------------
(***************************************************************************)
(* A call between two peer connections of the Edge shim.  The application  *)
(* at each end, and the service that carries their messages in order, are  *)
(* external: the caller offers its stream, the callee answers, and each    *)
(* end sends the candidates it is given to the other.                      *)
(***************************************************************************)
EXTENDS EdgePeerConnection

CONSTANTS Caller, Callee

ASSUME CallAssumption == Caller # Callee /\ Peer = {Caller, Callee}

VARIABLES
  carried,   \* carried[p]: the descriptions of p on their way
  delivered  \* delivered[p]: how many events of p reached the other end

vars == <<pcVars, carried, delivered>>

Other(p) == IF p = Caller THEN Callee ELSE Caller

CallInit ==
  /\ Init
  /\ nullThrows = [p \in Peer |-> FALSE]
  /\ carried = [p \in Peer |-> {}]
  /\ delivered = [p \in Peer |-> 0]

\* A peer adds a stream before the call.
AddsBefore(p) ==
  /\ localStreams[p] = <<>> /\ \A q \in Peer : negotiations[q] = 0
  /\ \E stream \in Streams : AddStream(p, stream)
  /\ UNCHANGED <<carried, delivered>>

CallerCreatesOffer ==
  /\ negotiations[Caller] = 0
  /\ \E options \in OfferOptions :
       /\ OfferedLines(FirstStream(Caller), options) # <<>>
       /\ CreateOffer(Caller, options)
  /\ UNCHANGED <<carried, delivered>>

\* The offer is set and sent in one task, so no candidate goes before it.
CallerSendsOffer ==
  /\ \E list \in pendingOffer[Caller] :
       /\ SetLocalOffer(Caller, OfferOf(Caller, list), FALSE)
       /\ carried' = [carried EXCEPT ![Caller] = {OfferOf(Caller, list)}]
  /\ UNCHANGED delivered

CalleeGetsOffer ==
  /\ \E d \in carried[Caller] : SetRemoteOffer(Callee, d)
  /\ carried' = [carried EXCEPT ![Caller] = {}]
  /\ UNCHANGED delivered

\* The answer is sent when setLocalDescription did not throw.
CalleeSendsAnswer ==
  /\ signalingState[Callee] = "have-remote-offer"
  /\ CanCreateAnswer(Callee)
  /\ SetLocalAnswer(Callee, AnswerOf(Callee), FALSE)
  /\ carried' = [carried EXCEPT ![Callee] =
       IF signalingState'[Callee] = "stable" THEN {AnswerOf(Callee)} ELSE @]
  /\ UNCHANGED delivered

CallerGetsAnswer ==
  /\ \E d \in carried[Callee] : SetRemoteAnswer(Caller, d)
  /\ carried' = [carried EXCEPT ![Callee] = {}]
  /\ UNCHANGED delivered

\* An event of p reaches the other application, after the description that
\* was sent before it; the null candidate is kept from addIceCandidate.
GetsCandidate(p) ==
  LET event == emitted[p][delivered[p] + 1]
  IN /\ delivered[p] < Len(emitted[p]) /\ carried[p] = {}
     /\ delivered' = [delivered EXCEPT ![p] = @ + 1]
     /\ IF event = Null THEN UNCHANGED pcVars
        ELSE AddIceCandidate(Other(p), object[p, event.k, event.l].mid,
                             event.l, event.n)
     /\ UNCHANGED carried

GathersInCall(p) ==
  /\ \E k \in Negotiation, l \in Line, end \in BOOLEAN : LocalCandidate(p, k, l, end)
  /\ UNCHANGED <<carried, delivered>>
Times(p) ==
  /\ RunTask(p) \/ RunFlush(p)
  /\ UNCHANGED <<carried, delivered>>

Signals == \/ CallerSendsOffer \/ CalleeGetsOffer
           \/ CalleeSendsAnswer \/ CallerGetsAnswer

CallNext ==
  \/ CallerCreatesOffer \/ Signals
  \/ \E p \in Peer : AddsBefore(p) \/ GetsCandidate(p) \/ GathersInCall(p) \/ Times(p)

CallSpec == CallInit /\ [][CallNext]_vars

\* The applications and the service do their part, timeouts run, and every
\* gatherer comes to its end; the caller need not call.  One condition is
\* enough, in which no action need come before another: each of them can only
\* be taken finitely often.
Ends(p) ==
  /\ \E k \in Negotiation, l \in Line : LocalCandidate(p, k, l, TRUE)
  /\ UNCHANGED <<carried, delivered>>
Proceeds == (\E p \in Peer : Times(p) \/ Ends(p) \/ GetsCandidate(p)) \/ Signals
FairSpec == CallSpec /\ WF_vars(Proceeds)
=============================================================================
