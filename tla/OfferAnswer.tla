---------------------------- MODULE OfferAnswer ----------------------------
(* What a call promises two peers: one offers, the other answers, and when  *)
(* the caller has accepted the answer both use the same codecs, under the   *)
(* same payload types, on every m-line.                                     *)
EXTENDS Naturals

CONSTANTS Caller, Callee, Lines, CodecsOfOffer

VARIABLES
  state,    \* signalling state of each peer
  agreed    \* {S} once a peer settled on the pairs S of m-line and codec

vars == <<state, agreed>>

Init ==
  /\ state = [p \in {Caller, Callee} |-> "stable"]
  /\ agreed = [p \in {Caller, Callee} |-> {}]

Offer ==
  /\ state = [p \in {Caller, Callee} |-> "stable"]
  /\ agreed[Callee] = {}
  /\ state' = [state EXCEPT ![Caller] = "have-local-offer"]
  /\ UNCHANGED agreed

Receive ==
  /\ state[Caller] = "have-local-offer" /\ state[Callee] = "stable"
  /\ agreed[Callee] = {}
  /\ state' = [state EXCEPT ![Callee] = "have-remote-offer"]
  /\ UNCHANGED agreed

\* The answer takes some of what was offered, line by line.
Answer ==
  /\ state[Callee] = "have-remote-offer"
  /\ state' = [state EXCEPT ![Callee] = "stable"]
  /\ \E chosen \in SUBSET (Lines \X CodecsOfOffer) :
       agreed' = [agreed EXCEPT ![Callee] = {chosen}]

Accept ==
  /\ state[Caller] = "have-local-offer"
  /\ state[Callee] = "stable" /\ agreed[Callee] # {}
  /\ state' = [state EXCEPT ![Caller] = "stable"]
  /\ agreed' = [agreed EXCEPT ![Caller] = agreed[Callee]]

Next == Offer \/ Receive \/ Answer \/ Accept

Spec == Init /\ [][Next]_vars
=============================================================================
