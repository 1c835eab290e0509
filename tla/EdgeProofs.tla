----------------------------- MODULE EdgeProofs -----------------------------
(***************************************************************************)
(* The peer connection of the Edge shim, alone and in a call.               *)
(*                                                                         *)
(* The first two parts are about the invariants of peer connections, for    *)
(* any number of peers, lines, negotiations, candidates and timeouts.       *)
(*                                                                         *)
(* The first part shows that nothing is emitted before the first local      *)
(* description and that nothing stays in the buffer after it: before the    *)
(* description no timeout that emits is pending and the gathering state is  *)
(* new; after it, whatever is in the buffer has such a timeout, and a       *)
(* state that is still new has the one of the success callback.             *)
(*                                                                         *)
(* The second part has an inductive invariant of each peer.  Its events     *)
(* are of gatherers that found them, in their order; before the first       *)
(* description nothing is installed; in the first negotiation all that was  *)
(* made is installed with the description, so that a null candidate comes   *)
(* when all of it is done; the signaling state is about the descriptions    *)
(* that are set; each announcement not made yet has its timeout.  A step    *)
(* leaves every other peer as it is.                                        *)
(*                                                                         *)
(* The third part is about a call between two peers, for any number of      *)
(* lines, negotiations and candidates, any codecs at the two ends, any      *)
(* streams and offer options.  Its inductive invariant has two parts.       *)
(* Candidates: every transceiver of a call is of the first negotiation and  *)
(* has the mid the caller gave the line; events name what a gatherer found, *)
(* and a transport was given nothing else (Exchanged).  Signaling: the call *)
(* is in one of six stages, and each says what the descriptions on their    *)
(* way contain and what the transceivers of both ends have from them        *)
(* (Progress).                                                              *)
(*                                                                         *)
(* Both ends end with the same codecs because the caller reads the answer,  *)
(* which lists the codecs in common, with the function that made it: this   *)
(* names the same codecs again, whatever the order of the two lists and     *)
(* however often a name is in one (CommonAgain).                            *)
(***************************************************************************)
EXTENDS EdgeCallProperties, EdgePeerCalls, TLAPS, FunctionTheorems,
        FiniteSetTheorems, SequenceTheorems, WellFoundedInduction

\* A callback of setLocalDescription is among these timeouts.
HasSuccess(s) == \E i \in DOMAIN s : s[i].calls = "success"
Pending(p) == HasSuccess(tasks[p])

ValidTask == [calls : {"success", "addstream", "onaddstream", "ontrack"}, tracks : Nat]

EmissionTypes ==
  /\ tasks \in [Peer -> Seq(ValidTask)]
  /\ flushes \in [Peer -> Nat]
  /\ DOMAIN localDescription = Peer
  /\ DOMAIN signalingState = Peer
  /\ DOMAIN iceGatheringState = Peer
  /\ DOMAIN emitted = Peer
  /\ DOMAIN buffer = Peer

OfferIsSet(p) ==
  signalingState[p] = "have-local-offer" =>
    localDescription[p].type # "none" /\ Len(localDescription[p].sections) \in Nat

SilentBefore(p) ==
  localDescription[p].type = "none" =>
    /\ emitted[p] = <<>> /\ iceGatheringState[p] = "new"
    /\ ~Pending(p) /\ flushes[p] = 0

FlushedAfter(p) ==
  localDescription[p].type # "none" /\ ~nullThrows[p] =>
    /\ iceGatheringState[p] = "new" => Pending(p)
    /\ buffer[p] # <<>> => Pending(p) \/ flushes[p] > 0

\* The inductive invariant.
EmissionInv ==
  /\ EmissionTypes
  /\ \A p \in Peer : OfferIsSet(p) /\ SilentBefore(p) /\ FlushedAfter(p)

\* What the invariant reads of one peer.
emission == <<tasks, flushes, localDescription, signalingState,
              iceGatheringState, emitted, buffer, nullThrows>>

\* A step that touches none of this keeps the invariant.
LEMMA EmissionStutters ==
  ASSUME EmissionInv, UNCHANGED emission PROVE EmissionInv'
BY DEF EmissionInv, EmissionTypes, OfferIsSet, SilentBefore, FlushedAfter,
       Pending, HasSuccess, emission

\* A new peer has emitted nothing.
LEMMA EmissionStarts == ASSUME Init PROVE EmissionInv
<1>1. EmissionTypes
  BY DEF Init, EmissionTypes
<1>2. ASSUME NEW p \in Peer
      PROVE  /\ signalingState[p] = "stable" /\ localDescription[p].type = "none"
             /\ emitted[p] = <<>> /\ iceGatheringState[p] = "new"
             /\ tasks[p] = <<>> /\ flushes[p] = 0
  BY <1>2 DEF Init, NoDescription
<1>. QED BY <1>1, <1>2
     DEF EmissionInv, OfferIsSet, SilentBefore, FlushedAfter, Pending, HasSuccess

\* A peer whose part of the state a step leaves alone keeps its invariants.
LEMMA EmissionElsewhere ==
  ASSUME NEW q \in Peer, OfferIsSet(q), SilentBefore(q), FlushedAfter(q),
         tasks'[q] = tasks[q], flushes'[q] = flushes[q],
         localDescription'[q] = localDescription[q],
         signalingState'[q] = signalingState[q],
         iceGatheringState'[q] = iceGatheringState[q],
         emitted'[q] = emitted[q], buffer'[q] = buffer[q],
         nullThrows'[q] = nullThrows[q]
  PROVE  (OfferIsSet(q) /\ SilentBefore(q) /\ FlushedAfter(q))'
BY DEF OfferIsSet, SilentBefore, FlushedAfter, Pending, HasSuccess

\* setLocalDescription: the callback, or the 500 ms timeout, is pending.
LEMMA EmissionDescribed ==
  ASSUME EmissionInv, NEW p \in Peer, NEW d, NEW state, NEW hasCallback \in BOOLEAN,
         d.type # "none",
         state = "have-local-offer" => Len(d.sections) \in Nat,
         LocalDescriptionSet(p, d, state, hasCallback)
  PROVE  EmissionInv'
<1>1. EmissionTypes
  BY DEF EmissionInv
<1>2. /\ localDescription' = [localDescription EXCEPT ![p] = d]
      /\ signalingState' = [signalingState EXCEPT ![p] = state]
      /\ emitted' = emitted /\ buffer' = buffer /\ nullThrows' = nullThrows
  BY DEF LocalDescriptionSet
<1>3. CASE hasCallback
  <2>1. /\ tasks' = [tasks EXCEPT ![p] = Append(@, Task("success", 0))]
        /\ iceGatheringState' = iceGatheringState /\ flushes' = flushes
    BY <1>3 DEF LocalDescriptionSet
  <2>2. /\ Task("success", 0) \in ValidTask
        /\ Task("success", 0).calls = "success"
    BY DEF Task, ValidTask
  <2>3. EmissionTypes'
    BY <1>1, <1>2, <2>1, <2>2 DEF EmissionTypes
  <2>4. tasks[p] \in Seq(ValidTask) /\ tasks'[p] = Append(tasks[p], Task("success", 0))
    BY <1>1, <2>1 DEF EmissionTypes
  <2>5. /\ Len(tasks[p]) + 1 \in DOMAIN tasks'[p]
        /\ tasks'[p][Len(tasks[p]) + 1] = Task("success", 0)
    BY <2>2, <2>4
  <2>6. Pending(p)'
    BY <2>2, <2>5 DEF Pending, HasSuccess
  <2>. QED BY <1>1, <1>2, <2>1, <2>3, <2>6, EmissionElsewhere
       DEF EmissionInv, EmissionTypes, OfferIsSet, SilentBefore, FlushedAfter
<1>4. CASE ~hasCallback
  <2>1. /\ tasks' = tasks /\ flushes' = [flushes EXCEPT ![p] = @ + 1]
        /\ iceGatheringState' = [iceGatheringState EXCEPT ![p] =
             IF @ = "new" THEN "gathering" ELSE @]
    BY <1>4 DEF LocalDescriptionSet
  <2>2. EmissionTypes'
    BY <1>1, <1>2, <2>1 DEF EmissionTypes
  <2>3. flushes'[p] > 0 /\ iceGatheringState'[p] # "new"
    BY <1>1, <2>1 DEF EmissionTypes
  <2>. QED BY <1>1, <1>2, <2>1, <2>2, <2>3, EmissionElsewhere
       DEF EmissionInv, EmissionTypes, OfferIsSet, SilentBefore, FlushedAfter
<1>. QED BY <1>3, <1>4

\* Other timeouts behind those of a peer make no callback, and take none away.
LEMMA SuccessAppended ==
  ASSUME NEW s \in Seq(ValidTask), NEW t \in Seq(ValidTask), ~HasSuccess(t)
  PROVE  s \o t \in Seq(ValidTask) /\ (HasSuccess(s \o t) <=> HasSuccess(s))
<1>1. /\ s \o t \in Seq(ValidTask) /\ Len(s \o t) = Len(s) + Len(t)
      /\ \A i \in 1 .. Len(s) + Len(t) :
           (s \o t)[i] = IF i <= Len(s) THEN s[i] ELSE t[i - Len(s)]
  OBVIOUS
<1>2. ASSUME HasSuccess(s) PROVE HasSuccess(s \o t)
  <2>1. PICK i \in 1 .. Len(s) : s[i].calls = "success"
    BY <1>2 DEF HasSuccess
  <2>. QED BY <1>1, <2>1 DEF HasSuccess
<1>3. ASSUME HasSuccess(s \o t) PROVE HasSuccess(s)
  <2>1. PICK i \in 1 .. Len(s) + Len(t) : (s \o t)[i].calls = "success"
    BY <1>1, <1>3 DEF HasSuccess
  <2>2. CASE i <= Len(s)
    BY <1>1, <2>1, <2>2 DEF HasSuccess
  <2>3. CASE i > Len(s)
    <3>1. i - Len(s) \in 1 .. Len(t) /\ t[i - Len(s)].calls = "success"
      BY <1>1, <2>1, <2>3
    <3>. QED BY <3>1 DEF HasSuccess
  <2>. QED BY <2>2, <2>3
<1>. QED BY <1>1, <1>2, <1>3

\* Nor does taking a timeout that is none from the head of the queue.
LEMMA SuccessInTail ==
  ASSUME NEW s \in Seq(ValidTask), s # <<>>, Head(s).calls # "success"
  PROVE  Tail(s) \in Seq(ValidTask) /\ (HasSuccess(Tail(s)) <=> HasSuccess(s))
<1>1. /\ Tail(s) \in Seq(ValidTask) /\ DOMAIN Tail(s) = 1 .. Len(s) - 1
      /\ \A i \in 1 .. Len(s) - 1 : Tail(s)[i] = s[i + 1]
      /\ s[1].calls # "success"
  OBVIOUS
<1>2. ASSUME HasSuccess(s) PROVE HasSuccess(Tail(s))
  <2>1. PICK i \in 1 .. Len(s) : s[i].calls = "success"
    BY <1>2 DEF HasSuccess
  <2>2. i - 1 \in 1 .. Len(s) - 1 /\ Tail(s)[i - 1].calls = "success"
    BY <1>1, <2>1
  <2>3. i - 1 \in DOMAIN Tail(s)
    BY <1>1, <2>2
  <2>. QED BY <2>2, <2>3 DEF HasSuccess
<1>3. ASSUME HasSuccess(Tail(s)) PROVE HasSuccess(s)
  <2>1. PICK i \in 1 .. Len(s) - 1 : Tail(s)[i].calls = "success"
    BY <1>1, <1>3 DEF HasSuccess
  <2>2. i + 1 \in 1 .. Len(s) /\ s[i + 1].calls = "success"
    BY <1>1, <2>1
  <2>. QED BY <2>2 DEF HasSuccess
<1>. QED BY <1>1, <1>2, <1>3

\* setRemoteDescription: at most an announcement is added to the timeouts.
LEMMA EmissionRemote ==
  ASSUME EmissionInv, NEW p \in Peer, NEW d, NEW state, NEW receivers \in Nat,
         state # "have-local-offer",
         RemoteDescriptionSet(p, d, state, receivers)
  PROVE  EmissionInv'
<1>1. EmissionTypes
  BY DEF EmissionInv
<1>2. /\ signalingState' = [signalingState EXCEPT ![p] = state]
      /\ localDescription' = localDescription /\ flushes' = flushes
      /\ iceGatheringState' = iceGatheringState
      /\ emitted' = emitted /\ buffer' = buffer /\ nullThrows' = nullThrows
      /\ \/ tasks' = tasks
         \/ tasks' = [tasks EXCEPT ![p] = Append(@, Task("addstream", receivers))]
  BY DEF RemoteDescriptionSet, gathering
<1>3. /\ tasks' \in [Peer -> Seq(ValidTask)]
      /\ \A q \in Peer : Pending(q)' <=> Pending(q)
  <2>1. CASE tasks' = tasks
    BY <1>1, <2>1 DEF EmissionTypes, Pending, HasSuccess
  <2>2. CASE tasks' = [tasks EXCEPT ![p] = Append(@, Task("addstream", receivers))]
    <3>. DEFINE t == <<Task("addstream", receivers)>>
    <3>1. t \in Seq(ValidTask) /\ ~HasSuccess(t)
      BY DEF Task, ValidTask, HasSuccess
    <3>2. tasks[p] \in Seq(ValidTask) /\ tasks'[p] = tasks[p] \o t
      BY <1>1, <2>2, <3>1 DEF EmissionTypes
    <3>3. tasks'[p] \in Seq(ValidTask) /\ (HasSuccess(tasks'[p]) <=> HasSuccess(tasks[p]))
      BY <3>1, <3>2, SuccessAppended
    <3>. QED BY <1>1, <2>2, <3>3 DEF EmissionTypes, Pending, HasSuccess
  <2>. QED BY <1>2, <2>1, <2>2
<1>4. EmissionTypes'
  BY <1>1, <1>2, <1>3 DEF EmissionTypes
<1>. QED BY <1>1, <1>2, <1>3, <1>4
     DEF EmissionInv, EmissionTypes, OfferIsSet, SilentBefore, FlushedAfter

\* The announcement of a stream makes no callback of setLocalDescription.
LEMMA AnnouncementsCallBackNothing ==
  ASSUME NEW n \in Nat
  PROVE  Announcements(n) \in Seq(ValidTask) /\ ~HasSuccess(Announcements(n))
<1>. DEFINE a == IF "onaddstream" \in Handlers
                 THEN <<Task("onaddstream", 0)>> ELSE <<>>
            b == IF "ontrack" \in Handlers
                 THEN [i \in 1 .. n |-> Task("ontrack", 0)] ELSE <<>>
<1>1. Announcements(n) = a \o b
  BY DEF Announcements
<1>2. /\ Task("onaddstream", 0) \in ValidTask
      /\ Task("ontrack", 0) \in ValidTask
      /\ Task("onaddstream", 0).calls # "success"
      /\ Task("ontrack", 0).calls # "success"
  BY DEF Task, ValidTask
<1>3. a \in Seq(ValidTask) /\ ~HasSuccess(a)
  <2>1. <<Task("onaddstream", 0)>> \in Seq(ValidTask) /\ <<>> \in Seq(ValidTask)
    BY <1>2
  <2>2. ~HasSuccess(<<Task("onaddstream", 0)>>)
    BY <1>2 DEF HasSuccess
  <2>3. ~HasSuccess(<<>>)
    BY DEF HasSuccess
  <2>. QED BY <2>1, <2>2, <2>3
<1>4. b \in Seq(ValidTask) /\ ~HasSuccess(b)
  <2>. DEFINE f == [i \in 1 .. n |-> Task("ontrack", 0)]
  <2>1. f \in [1 .. n -> ValidTask]
    BY <1>2
  <2>2. f \in Seq(ValidTask)
    BY <2>1, SeqDef
  <2>3. ~HasSuccess(f)
    BY <1>2 DEF HasSuccess
  <2>4. <<>> \in Seq(ValidTask) /\ ~HasSuccess(<<>>)
    BY DEF HasSuccess
  <2>. QED BY <2>2, <2>3, <2>4
<1>. HIDE DEF a, b
<1>. QED BY <1>1, <1>3, <1>4, SuccessAppended

\* A timeout: the callback of setLocalDescription empties the buffer, unless a
\* handler throws; the others only announce streams.
LEMMA EmissionTimed ==
  ASSUME EmissionInv, NEW p \in Peer, RunTask(p)
  PROVE  EmissionInv'
<1>. DEFINE task == Head(tasks[p])
<1>1. EmissionTypes
  BY DEF EmissionInv
<1>2. /\ tasks[p] \in Seq(ValidTask) /\ tasks[p] # <<>> /\ task \in ValidTask
      /\ Tail(tasks[p]) \in Seq(ValidTask)
      /\ UNCHANGED <<flushes, localDescription, signalingState, nullThrows>>
  BY <1>1 DEF RunTask, EmissionTypes, signaling
<1>3. CASE task.calls = "success"
  <2>1. /\ tasks' = [tasks EXCEPT ![p] = Tail(@)]
        /\ EmitBufferedCandidates(p, IF iceGatheringState[p] = "new"
                                     THEN "gathering" ELSE iceGatheringState[p])
    BY <1>3 DEF RunTask
  <2>2. /\ emitted' = [emitted EXCEPT ![p] = @ \o Looped(p)]
        /\ buffer' = [buffer EXCEPT ![p] = Kept(p)]
        /\ iceGatheringState' = [iceGatheringState EXCEPT ![p] =
             Gathering(p, IF iceGatheringState[p] = "new" THEN "gathering"
                          ELSE iceGatheringState[p], object)]
    BY <2>1 DEF EmitBufferedCandidates
  <2>3. Pending(p)
    <3>1. 1 \in DOMAIN tasks[p] /\ tasks[p][1] = task
      BY <1>2
    <3>. QED BY <1>3, <3>1 DEF Pending, HasSuccess
  <2>4. localDescription[p].type # "none"
    BY <2>3 DEF EmissionInv, SilentBefore
  <2>5. ~nullThrows[p] => Kept(p) = <<>>
    BY DEF Kept, LoopThrows
  <2>6. iceGatheringState'[p] # "new"
    BY <1>1, <2>2 DEF Gathering, EmissionTypes
  <2>7. EmissionTypes'
    BY <1>1, <1>2, <2>1, <2>2 DEF EmissionTypes
  <2>8. (OfferIsSet(p) /\ SilentBefore(p) /\ FlushedAfter(p))'
    BY <1>1, <1>2, <2>2, <2>4, <2>5, <2>6
    DEF EmissionInv, EmissionTypes, OfferIsSet, SilentBefore, FlushedAfter
  <2>9. ASSUME NEW q \in Peer, q # p
        PROVE  (OfferIsSet(q) /\ SilentBefore(q) /\ FlushedAfter(q))'
    BY <1>1, <1>2, <2>1, <2>2, <2>9, EmissionElsewhere DEF EmissionInv, EmissionTypes
  <2>. QED BY <2>7, <2>8, <2>9 DEF EmissionInv
<1>4. CASE task.calls # "success"
  <2>1. UNCHANGED <<iceGatheringState, emitted, buffer>>
    BY <1>4 DEF RunTask, gathering
  <2>2. PICK t \in Seq(ValidTask) :
          ~HasSuccess(t) /\ tasks' = [tasks EXCEPT ![p] = Tail(@) \o t]
    <3>1. CASE task.calls = "addstream"
      <4>1. tasks' = [tasks EXCEPT ![p] = Tail(@) \o Announcements(task.tracks)]
        BY <3>1 DEF RunTask
      <4>2. task.tracks \in Nat
        BY <1>2 DEF ValidTask
      <4>. QED BY <4>1, <4>2, AnnouncementsCallBackNothing
    <3>2. CASE task.calls \in {"onaddstream", "ontrack"}
      <4>1. tasks' = [tasks EXCEPT ![p] = Tail(@)]
        BY <3>2 DEF RunTask
      <4>2. Tail(tasks[p]) = Tail(tasks[p]) \o <<>>
        BY <1>2
      <4>3. <<>> \in Seq(ValidTask) /\ ~HasSuccess(<<>>)
        BY DEF HasSuccess
      <4>. QED BY <4>1, <4>2, <4>3
    <3>. QED BY <1>2, <1>4, <3>1, <3>2 DEF ValidTask
  <2>3. tasks'[p] = Tail(tasks[p]) \o t
    BY <1>1, <2>2 DEF EmissionTypes
  <2>4. tasks'[p] \in Seq(ValidTask) /\ (HasSuccess(tasks'[p]) <=> HasSuccess(tasks[p]))
    <3>1. /\ Tail(tasks[p]) \in Seq(ValidTask)
          /\ HasSuccess(Tail(tasks[p])) <=> HasSuccess(tasks[p])
      BY <1>2, <1>4, SuccessInTail
    <3>. DEFINE s == Tail(tasks[p])
    <3>2. s \in Seq(ValidTask)
      BY <3>1
    <3>3. s \o t \in Seq(ValidTask) /\ (HasSuccess(s \o t) <=> HasSuccess(s))
      <4>. HIDE DEF s
      <4>. QED BY <3>2, <2>2, SuccessAppended
    <3>. QED BY <2>3, <3>1, <3>3
  <2>5. /\ tasks' \in [Peer -> Seq(ValidTask)]
        /\ \A q \in Peer : Pending(q)' <=> Pending(q)
    BY <1>1, <2>2, <2>4 DEF EmissionTypes, Pending, HasSuccess
  <2>. QED BY <1>1, <1>2, <2>1, <2>5
       DEF EmissionInv, EmissionTypes, OfferIsSet, SilentBefore, FlushedAfter
<1>. QED BY <1>3, <1>4

\* The timeout of 500 ms.
LEMMA EmissionFlushed ==
  ASSUME EmissionInv, NEW p \in Peer, RunFlush(p)
  PROVE  EmissionInv'
<1>1. EmissionTypes
  BY DEF EmissionInv
<1>2. /\ flushes[p] > 0 /\ flushes' = [flushes EXCEPT ![p] = @ - 1]
      /\ emitted' = [emitted EXCEPT ![p] = @ \o Looped(p)]
      /\ buffer' = [buffer EXCEPT ![p] = Kept(p)]
      /\ iceGatheringState' = [iceGatheringState EXCEPT ![p] =
           Gathering(p, iceGatheringState[p], object)]
      /\ UNCHANGED <<tasks, localDescription, signalingState, nullThrows>>
  BY DEF RunFlush, EmitBufferedCandidates, signaling
<1>3. localDescription[p].type # "none"
  BY <1>1, <1>2 DEF EmissionInv, EmissionTypes, SilentBefore
<1>4. ~nullThrows[p] => Kept(p) = <<>>
  BY DEF Kept, LoopThrows
<1>5. iceGatheringState'[p] = "new" => iceGatheringState[p] = "new"
  BY <1>1, <1>2 DEF Gathering, EmissionTypes
<1>6. Pending(p)' <=> Pending(p)
  BY <1>2 DEF Pending, HasSuccess
<1>7. EmissionTypes'
  BY <1>1, <1>2 DEF EmissionTypes
<1>8. (OfferIsSet(p) /\ SilentBefore(p) /\ FlushedAfter(p))'
  BY <1>1, <1>2, <1>3, <1>4, <1>5, <1>6
  DEF EmissionInv, EmissionTypes, OfferIsSet, SilentBefore, FlushedAfter
<1>9. ASSUME NEW q \in Peer, q # p
      PROVE  (OfferIsSet(q) /\ SilentBefore(q) /\ FlushedAfter(q))'
  BY <1>1, <1>2, <1>9, EmissionElsewhere DEF EmissionInv, EmissionTypes
<1>. QED BY <1>7, <1>8, <1>9 DEF EmissionInv

\* A gatherer calls: what it finds waits in the buffer for the callback, or
\* leaves at once behind what was waiting.
LEMMA EmissionCandidate ==
  ASSUME EmissionInv, NEW p \in Peer, NEW k, NEW l, NEW end \in BOOLEAN,
         LocalCandidate(p, k, l, end)
  PROVE  EmissionInv'
<1>1. EmissionTypes
  BY DEF EmissionInv
<1>2. UNCHANGED <<tasks, flushes, localDescription, signalingState, nullThrows>>
  BY DEF LocalCandidate, signaling, timeouts
<1>3. Pending(p)' <=> Pending(p)
  BY <1>2 DEF Pending, HasSuccess
<1>4. CASE iceGatheringState[p] = "new"
  <2>1. PICK events : buffer' = [buffer EXCEPT ![p] = @ \o events]
    BY <1>4 DEF LocalCandidate
  <2>2. UNCHANGED <<iceGatheringState, emitted>>
    BY <1>4 DEF LocalCandidate
  <2>3. EmissionTypes'
    BY <1>1, <1>2, <2>1, <2>2 DEF EmissionTypes
  <2>4. (OfferIsSet(p) /\ SilentBefore(p) /\ FlushedAfter(p))'
    BY <1>2, <1>3, <1>4, <2>2
    DEF EmissionInv, OfferIsSet, SilentBefore, FlushedAfter
  <2>5. ASSUME NEW q \in Peer, q # p
        PROVE  (OfferIsSet(q) /\ SilentBefore(q) /\ FlushedAfter(q))'
    BY <1>1, <1>2, <2>1, <2>2, <2>5, EmissionElsewhere DEF EmissionInv, EmissionTypes
  <2>. QED BY <2>3, <2>4, <2>5 DEF EmissionInv
<1>5. CASE iceGatheringState[p] = "gathering"
  <2>1. /\ buffer' = [buffer EXCEPT ![p] = Kept(p)]
        /\ \E events : emitted' = [emitted EXCEPT ![p] = @ \o Looped(p) \o events]
        /\ \E done : iceGatheringState' = [iceGatheringState EXCEPT ![p] =
                        IF done THEN "complete" ELSE @]
    BY <1>5 DEF LocalCandidate
  <2>2. localDescription[p].type # "none"
    BY <1>5 DEF EmissionInv, SilentBefore
  <2>3. ~nullThrows[p] => Kept(p) = <<>>
    BY DEF Kept, LoopThrows
  <2>4. iceGatheringState'[p] # "new"
    BY <1>1, <1>5, <2>1 DEF EmissionTypes
  <2>5. EmissionTypes'
    BY <1>1, <1>2, <2>1 DEF EmissionTypes
  <2>6. (OfferIsSet(p) /\ SilentBefore(p) /\ FlushedAfter(p))'
    BY <1>1, <1>2, <1>3, <2>1, <2>2, <2>3, <2>4
    DEF EmissionInv, EmissionTypes, OfferIsSet, SilentBefore, FlushedAfter
  <2>7. ASSUME NEW q \in Peer, q # p
        PROVE  (OfferIsSet(q) /\ SilentBefore(q) /\ FlushedAfter(q))'
    BY <1>1, <1>2, <2>1, <2>7, EmissionElsewhere DEF EmissionInv, EmissionTypes
  <2>. QED BY <2>5, <2>6, <2>7 DEF EmissionInv
<1>6. CASE iceGatheringState[p] = "complete"
  BY <1>2, <1>6, EmissionStutters DEF LocalCandidate, gathering, emission
<1>. QED BY <1>4, <1>5, <1>6 DEF LocalCandidate

\* The offers and answers a page sets locally are descriptions with sections.
LEMMA EmissionOffered ==
  ASSUME EmissionInv, NEW p \in Peer, SetsLocalOffer(p)
  PROVE  EmissionInv'
<1>1. PICK hasCallback \in BOOLEAN :
        \/ \E list \in pendingOffer[p] :
             SetLocalOffer(p, OfferOf(p, list), hasCallback)
        \/ /\ signalingState[p] = "have-local-offer"
           /\ SetLocalOffer(p, localDescription[p], hasCallback)
  BY DEF SetsLocalOffer
<1>2. PICK d : /\ SetLocalOffer(p, d, hasCallback)
               /\ d.type # "none" /\ Len(d.sections) \in Nat
  <2>1. ASSUME NEW list \in pendingOffer[p]
        PROVE  OfferOf(p, list).type # "none" /\ Len(OfferOf(p, list).sections) \in Nat
    <3>1. /\ NumLines \in Nat /\ IsFiniteSet(Line)
      BY BoundsAssumption, FS_Interval DEF Line
    <3>2. IsFiniteSet({m \in Line : list[m] # 0})
      BY <3>1, FS_Subset
    <3>3. IsFiniteSet(Objects(p, list))
      <4>. DEFINE T == {m \in Line : list[m] # 0}
      <4>1. Objects(p, list) = {<<p, list[l], l>> : l \in T}
        BY DEF Objects
      <4>. HIDE DEF T
      <4>2. IsFiniteSet(T)
        BY <3>2 DEF T
      <4>. DEFINE f == [l \in T |-> <<p, list[l], l>>]
      <4>3. f \in Surjection(T, Objects(p, list))
        BY <4>1 DEF Surjection
      <4>. QED BY <4>2, <4>3, FS_Surjection
    <3>4. Cardinality(Objects(p, list)) \in Nat
      BY <3>3, FS_CardinalityType
    <3>. QED BY <3>4 DEF OfferOf
  <2>2. CASE \E list \in pendingOffer[p] :
               SetLocalOffer(p, OfferOf(p, list), hasCallback)
    BY <2>1, <2>2
  <2>3. CASE /\ signalingState[p] = "have-local-offer"
             /\ SetLocalOffer(p, localDescription[p], hasCallback)
    BY <2>3 DEF EmissionInv, OfferIsSet
  <2>. QED BY <1>1, <2>2, <2>3
<1>3. LocalDescriptionSet(p, d, "have-local-offer", hasCallback)
  BY <1>2 DEF SetLocalOffer
<1>. QED BY <1>2, <1>3, EmissionDescribed

\* An answer sets the description, or throws and leaves it as it was.
LEMMA EmissionAnswers ==
  ASSUME EmissionInv, NEW p \in Peer, SetsLocalAnswer(p)
  PROVE  EmissionInv'
<1>1. PICK hasCallback \in BOOLEAN : SetLocalAnswer(p, AnswerOf(p), hasCallback)
  BY DEF SetsLocalAnswer
<1>2. AnswerOf(p).type # "none"
  BY DEF AnswerOf
<1>3. \/ LocalDescriptionSet(p, AnswerOf(p), "stable", hasCallback)
      \/ UNCHANGED <<gathering, signaling, timeouts, nullThrows>>
  BY <1>1 DEF SetLocalAnswer
<1>4. CASE LocalDescriptionSet(p, AnswerOf(p), "stable", hasCallback)
  BY <1>2, <1>4, EmissionDescribed
<1>5. CASE UNCHANGED <<gathering, signaling, timeouts, nullThrows>>
  BY <1>5, EmissionStutters DEF emission, gathering, signaling, timeouts
<1>. QED BY <1>3, <1>4, <1>5

\* The lines of a description of n m-sections are finitely many.
LEMMA RemoteLinesAreFinite ==
  ASSUME NEW type, NEW k, NEW lengths, lengths \subseteq Nat,
         NEW d \in RemoteDescriptions(type, k, lengths)
  PROVE  IsFiniteSet(DOMAIN d.sections)
<1>1. PICK n \in lengths : \E rejected \in [1 .. n -> BOOLEAN] :
        d = [type |-> type, sections |-> [l \in DOMAIN rejected |->
                                            RemoteSection(k, l, rejected[l])]]
  BY DEF RemoteDescriptions
<1>2. DOMAIN d.sections = 1 .. n
  BY <1>1
<1>. QED BY <1>2, FS_Interval

\* An offer of the remote end.
LEMMA EmissionOffer ==
  ASSUME EmissionInv, NEW p \in Peer, GetsOffer(p)
  PROVE  EmissionInv'
<1>1. PICK d \in RemoteDescriptions("offer", negotiations[p] + 1, Line) :
        SetRemoteOffer(p, d)
  BY DEF GetsOffer
<1>. DEFINE accepted == {l \in DOMAIN d.sections : ~d.sections[l].rejected}
<1>2. Line \subseteq Nat
  BY BoundsAssumption DEF Line
<1>3. IsFiniteSet(accepted)
  BY <1>2, RemoteLinesAreFinite, FS_Subset
<1>4. Cardinality(accepted) \in Nat
  BY <1>3, FS_CardinalityType
<1>5. RemoteDescriptionSet(p, d, "have-remote-offer", Cardinality(accepted))
  BY <1>1 DEF SetRemoteOffer
<1>. QED BY <1>4, <1>5, EmissionRemote

\* An answer of the remote end.
LEMMA EmissionAnswer ==
  ASSUME EmissionInv, NEW p \in Peer, GetsAnswer(p)
  PROVE  EmissionInv'
<1>1. PICK d \in RemoteDescriptions("answer", negotiations[p],
                    {Len(localDescription[p].sections)}) : SetRemoteAnswer(p, d)
  BY DEF GetsAnswer
<1>2. {Len(localDescription[p].sections)} \subseteq Nat
  BY DEF GetsAnswer, EmissionInv, OfferIsSet
<1>3. IsFiniteSet(DOMAIN d.sections)
  BY <1>2, RemoteLinesAreFinite
<1>4. PICK receivers \in SUBSET DOMAIN d.sections :
        \/ RemoteDescriptionSet(p, d, "stable", Cardinality(receivers))
        \/ UNCHANGED <<gathering, signaling, timeouts, nullThrows>>
  BY <1>1 DEF SetRemoteAnswer, Before
<1>5. Cardinality(receivers) \in Nat
  BY <1>3, FS_Subset, FS_CardinalityType
<1>6. CASE RemoteDescriptionSet(p, d, "stable", Cardinality(receivers))
  BY <1>5, <1>6, EmissionRemote
<1>7. CASE UNCHANGED <<gathering, signaling, timeouts, nullThrows>>
  BY <1>7, EmissionStutters DEF emission, gathering, signaling, timeouts
<1>. QED BY <1>4, <1>6, <1>7

\* close leaves every candidate and timeout where it was.
LEMMA EmissionCloses ==
  ASSUME EmissionInv, NEW p \in Peer, Close(p)
  PROVE  EmissionInv'
<1>1. /\ signalingState' = [signalingState EXCEPT ![p] = "closed"]
      /\ UNCHANGED <<tasks, flushes, localDescription, iceGatheringState,
                     emitted, buffer, nullThrows>>
  BY DEF Close, gathering, timeouts
<1>. QED BY <1>1
     DEF EmissionInv, EmissionTypes, OfferIsSet, SilentBefore, FlushedAfter,
         Pending, HasSuccess

\* Every step keeps the invariant.
LEMMA EmissionStep == EmissionInv /\ [Next]_pcVars => EmissionInv'
<1>. SUFFICES ASSUME EmissionInv, [Next]_pcVars PROVE EmissionInv'
  OBVIOUS
<1>1. CASE UNCHANGED pcVars
  BY <1>1, EmissionStutters DEF pcVars, gathering, signaling, timeouts, emission
<1>2. ASSUME NEW p \in Peer, Adds(p) PROVE EmissionInv'
  BY <1>2, EmissionStutters
  DEF Adds, AddStream, gathering, signaling, timeouts, emission
<1>3. ASSUME NEW p \in Peer, Removes(p) PROVE EmissionInv'
  BY <1>3, EmissionStutters
  DEF Removes, RemoveStream, gathering, signaling, timeouts, emission
<1>4. ASSUME NEW p \in Peer, CreatesOffer(p) PROVE EmissionInv'
  <2>1. PICK options : CreateOffer(p, options)
    BY <1>4 DEF CreatesOffer
  <2>. QED BY <2>1, EmissionStutters
       DEF CreateOffer, gathering, signaling, timeouts, emission
<1>5. ASSUME NEW p \in Peer, Gathers(p) PROVE EmissionInv'
  BY <1>5, EmissionCandidate DEF Gathers
<1>6. ASSUME NEW p \in Peer, TransportChanges(p) PROVE EmissionInv'
  <2>1. PICK k, l, state : IceStateChange(p, k, l, state) \/ DtlsStateChange(p, k, l, state)
    BY <1>6 DEF TransportChanges
  <2>. QED BY <2>1, EmissionStutters
       DEF IceStateChange, DtlsStateChange, gathering, signaling, timeouts, emission
<1>7. ASSUME NEW p \in Peer, TransportStopped(p) PROVE EmissionInv'
  BY <1>7, EmissionStutters
  DEF TransportStopped, gathering, signaling, timeouts, emission
<1>8. ASSUME NEW p \in Peer, Closes(p) PROVE EmissionInv'
  BY <1>8, EmissionCloses DEF Closes
<1>. QED BY <1>1, <1>2, <1>3, <1>4, <1>5, <1>6, <1>7, <1>8, EmissionOffered,
         EmissionAnswers, EmissionOffer, EmissionAnswer, EmissionTimed,
         EmissionFlushed DEF Next

\* The invariant holds in every state of every behaviour.
LEMMA EmissionInvariant == Spec => []EmissionInv
<1>. QED BY EmissionStarts, EmissionStep, PTL DEF Spec

-----------------------------------------------------------------------------
(* The transceivers.                                                        *)

Event == Candidate \union {Null}
Fields == {"kind", "mid", "local", "remote", "sender", "receiver", "sending",
           "receiving", "gatherer", "found", "role", "ice", "dtls",
           "remoteCandidates"}

IsTransceiver(o, t) ==
  /\ DOMAIN t = Fields
  /\ t.gatherer \in {"none", "gathering", "completed"}
  /\ t.found \in 0 .. MaxCandidates[o[1]][o[3]]
  /\ t.role \in {"none", "controlling", "controlled"}
  /\ t.ice \in TransportState /\ t.dtls \in TransportState

AllTransceivers(obj) ==
  /\ DOMAIN obj = Peer \X Negotiation \X Line
  /\ \A o \in DOMAIN obj : IsTransceiver(o, obj[o])

\* TypeOK, with the domains and the structure it leaves open.
Typed ==
  /\ signalingState \in [Peer -> {"stable", "have-local-offer",
                                  "have-remote-offer", "closed"}]
  /\ iceGatheringState \in [Peer -> {"new", "gathering", "complete"}]
  /\ iceConnectionState \in [Peer -> {"new", "connecting", "connected", "failed"}]
  /\ negotiations \in [Peer -> 0 .. MaxNegotiations]
  /\ transceivers \in [Peer -> [Line -> 0 .. MaxNegotiations]]
  /\ pendingOffer \in [Peer -> SUBSET [Line -> 0 .. MaxNegotiations]]
  /\ \A p \in Peer :
       /\ \A l \in Line : transceivers[p][l] <= negotiations[p]
       /\ \A list \in pendingOffer[p], l \in Line : list[l] <= negotiations[p]
  /\ emitted \in [Peer -> Seq(Event)]
  /\ buffer \in [Peer -> Seq(Event)]
  /\ AllTransceivers(object)
  /\ announced \in [Peer -> [streams : Nat, onaddstream : Nat, ontrack : Nat]]
  /\ DOMAIN localDescription = Peer /\ DOMAIN remoteDescription = Peer
  /\ DOMAIN nullThrows = Peer /\ DOMAIN tasks = Peer /\ DOMAIN flushes = Peer
  /\ DOMAIN localStreams = Peer /\ DOMAIN described = Peer

\* The peer q is as it was.
SameAt(q) ==
  /\ signalingState'[q] = signalingState[q]
  /\ iceGatheringState'[q] = iceGatheringState[q]
  /\ iceConnectionState'[q] = iceConnectionState[q]
  /\ localDescription'[q] = localDescription[q]
  /\ remoteDescription'[q] = remoteDescription[q]
  /\ negotiations'[q] = negotiations[q]
  /\ pendingOffer'[q] = pendingOffer[q]
  /\ transceivers'[q] = transceivers[q]
  /\ \A k \in Negotiation, l \in Line : object'[<<q, k, l>>] = object[<<q, k, l>>]
  /\ buffer'[q] = buffer[q]
  /\ emitted'[q] = emitted[q]
  /\ tasks'[q] = tasks[q]
  /\ flushes'[q] = flushes[q]
  /\ announced'[q] = announced[q]
  /\ nullThrows'[q] = nullThrows[q]

SameGatherer(t, u) == u.gatherer = t.gatherer /\ u.found = t.found
SameTransports(t, u) == u.ice = t.ice /\ u.dtls = t.dtls

\* The transceivers of a list are the ones it names, one for each line it does not leave
\* out.
LEMMA WhichObjects ==
  ASSUME NEW p, NEW list, NEW o \in Peer \X Negotiation \X Line
  PROVE  o \in Objects(p, list) <=>
           o[1] = p /\ list[o[3]] # 0 /\ o[2] = list[o[3]]
<1>1. ASSUME o \in Objects(p, list)
      PROVE  o[1] = p /\ list[o[3]] # 0 /\ o[2] = list[o[3]]
  BY <1>1 DEF Objects
<1>2. ASSUME o[1] = p, list[o[3]] # 0, o[2] = list[o[3]]
      PROVE  o \in Objects(p, list)
  <2>1. o[3] \in {m \in Line : list[m] # 0} /\ o = <<p, list[o[3]], o[3]>>
    BY <1>2
  <2>. QED BY <2>1 DEF Objects
<1>. QED BY <1>1, <1>2

\* setLocalDescription of an offer makes no transport and starts none.
LEMMA LocalOfferObjects ==
  ASSUME Typed, NEW p \in Peer, NEW d, NEW has, SetLocalOffer(p, d, has)
  PROVE  /\ AllTransceivers(object')
         /\ \A o \in DOMAIN object :
              /\ o[1] # p => object'[o] = object[o]
              /\ SameGatherer(object[o], object'[o])
              /\ SameTransports(object[o], object'[o])
              /\ object'[o].role = object[o].role
<1>1. AllTransceivers(object)
  BY DEF Typed
<1>2. CASE object' = object
  BY <1>1, <1>2 DEF SameGatherer, SameTransports
<1>3. ASSUME NEW list, object' = [o \in DOMAIN object |->
               IF o \in Objects(p, list) /\ o[3] \in DOMAIN d.sections
               THEN [object[o] EXCEPT !.local = d.sections[o[3]].codecs]
               ELSE object[o]]
      PROVE  /\ AllTransceivers(object')
         /\ \A o \in DOMAIN object :
              /\ o[1] # p => object'[o] = object[o]
              /\ SameGatherer(object[o], object'[o])
              /\ SameTransports(object[o], object'[o])
              /\ object'[o].role = object[o].role
  BY <1>1, <1>3, WhichObjects DEF AllTransceivers, IsTransceiver, Fields, SameGatherer, SameTransports
<1>. QED BY <1>2, <1>3 DEF SetLocalOffer

\* An answer set locally starts transports in the role "controlled".
LEMMA LocalAnswerObjects ==
  ASSUME Typed, NEW p \in Peer, NEW d, NEW has, SetLocalAnswer(p, d, has)
  PROVE  /\ AllTransceivers(object')
         /\ \A o \in DOMAIN object :
              /\ o[1] # p => object'[o] = object[o]
              /\ SameGatherer(object[o], object'[o])
              /\ SameTransports(object[o], object'[o])
              /\ o \notin Objects(p, transceivers[p]) => object'[o] = object[o]
              /\ /\ o \in Objects(p, transceivers[p])
                 /\ \A l \in DOMAIN remoteDescription[p].sections : transceivers[p][l] # 0
                 /\ o[3] \in DOMAIN remoteDescription[p].sections
                 /\ ~remoteDescription[p].sections[o[3]].rejected
                 => object'[o].role = "controlled"
<1>1. AllTransceivers(object)
  BY DEF Typed
<1> DEFINE offer == remoteDescription[p].sections
           missing == {l \in DOMAIN offer : transceivers[p][l] = 0}
           started == {l \in Before(missing, offer) : ~offer[l].rejected}
           Start(t) ==
             LET codecs == CommonCodecs(t.local, CHOOSE c \in t.remote : TRUE)
             IN [t EXCEPT !.role = "controlled",
                          !.sending = IF codecs # <<>> /\ t.sender # "none"
                                      THEN codecs ELSE @]
<1>2. object' = [o \in DOMAIN object |->
          IF o \in Objects(p, transceivers[p]) /\ o[3] \in started
          THEN Start(object[o]) ELSE object[o]]
  BY DEF SetLocalAnswer
<1>3. ASSUME NEW t, DOMAIN t = Fields
      PROVE  /\ DOMAIN Start(t) = Fields /\ SameGatherer(t, Start(t))
             /\ SameTransports(t, Start(t)) /\ Start(t).role = "controlled"
  BY <1>3 DEF Fields, SameGatherer, SameTransports
<1>4. missing = {} => \A l \in DOMAIN offer : ~offer[l].rejected => l \in started
  BY DEF Before
<1> HIDE DEF Start, started
<1>. QED BY <1>1, <1>2, <1>3, <1>4, WhichObjects
     DEF AllTransceivers, IsTransceiver, SameGatherer, SameTransports

\* An answer of the remote end starts them in the role "controlling".
LEMMA RemoteAnswerObjects ==
  ASSUME Typed, NEW p \in Peer, NEW d, SetRemoteAnswer(p, d)
  PROVE  /\ AllTransceivers(object')
         /\ \A o \in DOMAIN object :
              /\ o[1] # p => object'[o] = object[o]
              /\ SameGatherer(object[o], object'[o])
              /\ SameTransports(object[o], object'[o])
              /\ o \notin Objects(p, transceivers[p]) => object'[o] = object[o]
              /\ /\ o \in Objects(p, transceivers[p])
                 /\ \A l \in DOMAIN d.sections : ~d.sections[l].rejected => transceivers[p][l] # 0
                 /\ o[3] \in DOMAIN d.sections /\ ~d.sections[o[3]].rejected
                 => object'[o].role = "controlling"
<1>1. AllTransceivers(object)
  BY DEF Typed
<1> DEFINE accepted == {l \in DOMAIN d.sections : ~d.sections[l].rejected}
           missing == {l \in accepted : transceivers[p][l] = 0}
           started == Before(missing, d.sections) \intersect accepted
           Start(t, s) ==
             LET codecs == CommonCodecs(t.local, s.codecs)
             IN [t EXCEPT !.remote = {s.codecs}, !.role = "controlling",
                          !.sending = IF s.receive /\ t.sender # "none"
                                      THEN codecs ELSE @,
                          !.receiving = IF s.send /\ t.receiver THEN codecs ELSE @,
                          !.receiver = s.send /\ t.receiver]
<1>2. object' = [o \in DOMAIN object |->
                IF o \in Objects(p, transceivers[p]) /\ o[3] \in started
                THEN Start(object[o], d.sections[o[3]]) ELSE object[o]]
  BY DEF SetRemoteAnswer
<1>3. ASSUME NEW t, NEW s, DOMAIN t = Fields
      PROVE  /\ DOMAIN Start(t, s) = Fields /\ SameGatherer(t, Start(t, s))
             /\ SameTransports(t, Start(t, s)) /\ Start(t, s).role = "controlling"
  BY <1>3 DEF Fields, SameGatherer, SameTransports
<1>4. missing = {} => \A l \in accepted : l \in started
  BY DEF Before
<1> HIDE DEF Start, started
<1>. QED BY <1>1, <1>2, <1>3, <1>4, WhichObjects
     DEF AllTransceivers, IsTransceiver, SameGatherer, SameTransports

\* close leaves the gatherers as they are.
LEMMA CloseObjects ==
  ASSUME Typed, NEW p \in Peer, Close(p)
  PROVE  /\ AllTransceivers(object')
         /\ \A o \in DOMAIN object :
              /\ o[1] # p => object'[o] = object[o]
              /\ SameGatherer(object[o], object'[o])
              /\ object'[o].role = object[o].role
              /\ o \in Objects(p, transceivers[p]) =>
                   object'[o].ice = "closed" /\ object'[o].dtls = "closed"
<1>1. AllTransceivers(object)
  BY DEF Typed
<1> DEFINE New(t) == [t EXCEPT !.ice = "closed", !.dtls = "closed",
                              !.sending = <<>>, !.receiving = <<>>]
<1>2. object' = [o \in DOMAIN object |->
                   IF o \in Objects(p, transceivers[p]) THEN New(object[o])
                   ELSE object[o]]
  BY DEF Close
<1>3. ASSUME NEW t, DOMAIN t = Fields
      PROVE  /\ DOMAIN New(t) = Fields /\ SameGatherer(t, New(t)) /\ New(t).role = t.role
             /\ New(t).ice = "closed" /\ New(t).dtls = "closed"
  BY <1>3 DEF Fields, SameGatherer
<1> HIDE DEF New
<1>. QED BY <1>1, <1>2, <1>3, WhichObjects
     DEF AllTransceivers, IsTransceiver, SameGatherer, TransportState

\* A transport changes its state.
LEMMA TransportObjects ==
  ASSUME Typed, NEW p \in Peer, NEW k \in Negotiation, NEW l \in Line,
         NEW state \in TransportState,
         IceStateChange(p, k, l, state) \/ DtlsStateChange(p, k, l, state)
  PROVE  /\ AllTransceivers(object')
         /\ \A o \in DOMAIN object :
              /\ o # <<p, k, l>> => object'[o] = object[o]
              /\ SameGatherer(object[o], object'[o])
              /\ object'[o].role = object[o].role
<1>1. AllTransceivers(object)
  BY DEF Typed
<1>2. <<p, k, l>> \in DOMAIN object
  BY <1>1 DEF AllTransceivers
<1>3. \E new : /\ object' = [object EXCEPT ![<<p, k, l>>] = new]
               /\ DOMAIN new = Fields /\ SameGatherer(object[<<p, k, l>>], new)
               /\ new.role = object[<<p, k, l>>].role
               /\ new.ice \in TransportState /\ new.dtls \in TransportState
  <2>1. CASE IceStateChange(p, k, l, state)
    <3> DEFINE new == [object[<<p, k, l>>] EXCEPT !.ice = state]
    <3>1. object' = [object EXCEPT ![<<p, k, l>>] = new]
      BY <2>1 DEF IceStateChange
    <3>2. /\ DOMAIN new = Fields /\ SameGatherer(object[<<p, k, l>>], new)
          /\ new.role = object[<<p, k, l>>].role
          /\ new.ice \in TransportState /\ new.dtls \in TransportState
      BY <1>1, <1>2 DEF AllTransceivers, IsTransceiver, Fields, SameGatherer
    <3>. QED BY <3>1, <3>2
  <2>2. CASE DtlsStateChange(p, k, l, state)
    <3> DEFINE new == [object[<<p, k, l>>] EXCEPT !.dtls = state]
    <3>1. object' = [object EXCEPT ![<<p, k, l>>] = new]
      BY <2>2 DEF DtlsStateChange
    <3>2. /\ DOMAIN new = Fields /\ SameGatherer(object[<<p, k, l>>], new)
          /\ new.role = object[<<p, k, l>>].role
          /\ new.ice \in TransportState /\ new.dtls \in TransportState
      BY <1>1, <1>2 DEF AllTransceivers, IsTransceiver, Fields, SameGatherer
    <3>. QED BY <3>1, <3>2
  <2>. QED BY <2>1, <2>2
<1>. QED BY <1>1, <1>2, <1>3
     DEF AllTransceivers, IsTransceiver, SameGatherer

\* A gatherer of p calls.
LEMMA CandidateObjects ==
  ASSUME Typed, NEW p \in Peer, NEW k \in Negotiation, NEW l \in Line,
         NEW end \in BOOLEAN, LocalCandidate(p, k, l, end)
  PROVE  /\ AllTransceivers(object')
         /\ \A o \in DOMAIN object :
              /\ o # <<p, k, l>> => object'[o] = object[o]
              /\ SameTransports(object[o], object'[o])
              /\ object'[o].role = object[o].role
         /\ object'[<<p, k, l>>].found = IF end THEN object[<<p, k, l>>].found
                                     ELSE object[<<p, k, l>>].found + 1
         /\ object'[<<p, k, l>>].gatherer = IF end THEN "completed" ELSE "gathering"
<1>1. AllTransceivers(object) /\ <<p, k, l>> \in DOMAIN object
  BY DEF Typed, AllTransceivers
<1>2. /\ object[<<p, k, l>>].found \in 0 .. MaxCandidates[p][l]
      /\ MaxCandidates[p][l] \in Nat /\ DOMAIN object[<<p, k, l>>] = Fields
  BY <1>1, BoundsAssumption DEF AllTransceivers, IsTransceiver, Line
<1> DEFINE new == IF end THEN [object[<<p, k, l>>] EXCEPT !.gatherer = "completed"]
                  ELSE [object[<<p, k, l>>] EXCEPT !.found = object[<<p, k, l>>].found + 1]
<1>3. /\ object' = [object EXCEPT ![<<p, k, l>>] = new]
      /\ object[<<p, k, l>>].gatherer = "gathering"
      /\ end \/ object[<<p, k, l>>].found < MaxCandidates[p][l]
  BY DEF LocalCandidate
<1>4. /\ DOMAIN new = Fields /\ SameTransports(object[<<p, k, l>>], new)
      /\ new.role = object[<<p, k, l>>].role
      /\ new.found = IF end THEN object[<<p, k, l>>].found ELSE object[<<p, k, l>>].found + 1
      /\ new.gatherer = IF end THEN "completed" ELSE "gathering"
  BY <1>2, <1>3 DEF Fields, SameTransports
<1> HIDE DEF new
<1>5. IsTransceiver(<<p, k, l>>, new)
  <2>1. /\ object[<<p, k, l>>].role \in {"none", "controlling", "controlled"}
        /\ object[<<p, k, l>>].ice \in TransportState
        /\ object[<<p, k, l>>].dtls \in TransportState
    BY <1>1 DEF AllTransceivers, IsTransceiver
  <2>2. new.found \in 0 .. MaxCandidates[p][l]
    <3>1. CASE end
      BY <1>2, <1>4, <3>1
    <3>2. CASE ~end
      <4>1. /\ new.found = object[<<p, k, l>>].found + 1
            /\ object[<<p, k, l>>].found < MaxCandidates[p][l]
        BY <1>3, <1>4, <3>2
      <4>2. ASSUME NEW m \in Nat, NEW f \in 0 .. m, f < m PROVE f + 1 \in 0 .. m
        BY <4>2
      <4>. QED BY <1>2, <4>1, <4>2
    <3>. QED BY <3>1, <3>2
  <2>3. new.ice = object[<<p, k, l>>].ice /\ new.dtls = object[<<p, k, l>>].dtls
    BY <1>4 DEF SameTransports
  <2>. QED BY <1>4, <2>1, <2>2, <2>3 DEF IsTransceiver
<1>6. AllTransceivers(object')
  BY <1>1, <1>3, <1>5 DEF AllTransceivers
<1>. QED BY <1>1, <1>3, <1>4, <1>6 DEF AllTransceivers, SameTransports

\* createOffer, and an offer of the remote end, make transceivers of a new
\* negotiation.
LEMMA NewObjects ==
  ASSUME Typed, NEW p \in Peer,
         (\E options : CreateOffer(p, options)) \/ (\E d : SetRemoteOffer(p, d))
  PROVE  /\ AllTransceivers(object')
         /\ negotiations[p] + 1 \in Negotiation
         /\ negotiations' = [negotiations EXCEPT ![p] = @ + 1]
         /\ \A o \in DOMAIN object :
              \/ object'[o] = object[o]
              \/ /\ o[1] = p /\ o[2] = negotiations[p] + 1
                 /\ object'[o].gatherer = "gathering" /\ object'[o].found = 0
                 /\ object'[o].role = "none"
<1>1. /\ AllTransceivers(object) /\ negotiations[p] \in 0 .. MaxNegotiations
      /\ DOMAIN negotiations = Peer
      /\ MaxNegotiations \in Nat
  BY BoundsAssumption DEF Typed
<1> DEFINE JustMade(t) == /\ DOMAIN t = Fields /\ t.gatherer = "gathering" /\ t.found = 0
                      /\ t.role = "none" /\ t.ice = "new" /\ t.dtls = "new"
<1>2. ASSUME NEW o \in DOMAIN object, NEW t, JustMade(t)
      PROVE  IsTransceiver(o, t)
  <2>1. 0 \in 0 .. MaxCandidates[o[1]][o[3]]
    BY <1>1, BoundsAssumption DEF AllTransceivers, Line
  <2>. QED BY <1>2, <2>1 DEF IsTransceiver, TransportState
<1>3. ASSUME NEW options, CreateOffer(p, options)
      PROVE  /\ negotiations[p] + 1 <= MaxNegotiations
             /\ negotiations' = [negotiations EXCEPT ![p] = @ + 1]
             /\ DOMAIN object' = DOMAIN object
             /\ \A o \in DOMAIN object :
                  \/ object'[o] = object[o]
                  \/ o[1] = p /\ o[2] = negotiations[p] + 1 /\ JustMade(object'[o])
  <2> DEFINE lines == OfferedLines(FirstStream(p), options)
             New(o) == NewTransceiver(lines[o[3]].kind, o, Codecs[p][lines[o[3]].kind],
                         IF lines[o[3]].track THEN "track" ELSE "none",
                         lines[o[3]].wantReceive)
  <2>1. object' = [o \in DOMAIN object |->
          IF o[1] = p /\ o[2] = negotiations[p] + 1 /\ o[3] <= Len(lines)
          THEN New(o) ELSE object[o]]
    BY <1>3 DEF CreateOffer
  <2>2. /\ negotiations[p] + 1 <= MaxNegotiations
        /\ negotiations' = [negotiations EXCEPT ![p] = @ + 1]
    BY <1>1, <1>3 DEF CreateOffer
  <2>3. ASSUME NEW o PROVE JustMade(New(o))
    BY DEF NewTransceiver, Fields
  <2> HIDE DEF lines, New, Made
  <2>. QED BY <2>1, <2>2, <2>3
<1>4. ASSUME NEW d, SetRemoteOffer(p, d)
      PROVE  /\ negotiations[p] + 1 <= MaxNegotiations
             /\ negotiations' = [negotiations EXCEPT ![p] = @ + 1]
             /\ DOMAIN object' = DOMAIN object
             /\ \A o \in DOMAIN object :
                  \/ object'[o] = object[o]
                  \/ o[1] = p /\ o[2] = negotiations[p] + 1 /\ JustMade(object'[o])
  <2> DEFINE accepted == {l \in DOMAIN d.sections : ~d.sections[l].rejected}
             New(l) == NewTransceiver(d.sections[l].kind, d.sections[l].mid,
                         Codecs[p][d.sections[l].kind], AnsweringSender(p, l), TRUE)
             Answering(l) ==
               [New(l) EXCEPT !.remote = {d.sections[l].codecs},
                  !.receiving = IF d.sections[l].send
                    THEN CommonCodecs(New(l).local, d.sections[l].codecs) ELSE <<>>]
  <2>1. object' = [o \in DOMAIN object |->
                     IF o[1] = p /\ o[2] = negotiations[p] + 1 /\ o[3] \in accepted
                     THEN Answering(o[3]) ELSE object[o]]
    BY <1>4 DEF SetRemoteOffer
  <2>2. /\ negotiations[p] + 1 <= MaxNegotiations
        /\ negotiations' = [negotiations EXCEPT ![p] = @ + 1]
    BY <1>1, <1>4 DEF SetRemoteOffer
  <2>3. ASSUME NEW l PROVE JustMade(Answering(l))
    <3>1. JustMade(New(l))
      BY DEF NewTransceiver, Fields
    <3> HIDE DEF New
    <3>. QED BY <3>1 DEF Fields
  <2> HIDE DEF Answering, accepted, Made
  <2>. QED BY <2>1, <2>2, <2>3
<1>5. \A o \in DOMAIN object :
        \/ object'[o] = object[o]
        \/ o[1] = p /\ o[2] = negotiations[p] + 1 /\ JustMade(object'[o])
  <2> HIDE DEF Made
  <2>. QED BY <1>3, <1>4
<1>6. /\ negotiations[p] + 1 <= MaxNegotiations
      /\ negotiations' = [negotiations EXCEPT ![p] = @ + 1]
      /\ DOMAIN object' = DOMAIN object
  <2> HIDE DEF Made
  <2>. QED BY <1>3, <1>4
<1>7. AllTransceivers(object')
  <2> HIDE DEF Made
  <2>. QED BY <1>1, <1>2, <1>5, <1>6 DEF AllTransceivers
<1>. QED BY <1>1, <1>5, <1>6, <1>7 DEF Negotiation

-----------------------------------------------------------------------------
(* A step of p leaves the other peers as they are.                          *)

\* There is an object for every peer, negotiation and line.
LEMMA ObjectsExist ==
  ASSUME Typed, NEW p \in Peer, NEW k \in Negotiation, NEW l \in Line
  PROVE  <<p, k, l>> \in DOMAIN object
BY DEF Typed, AllTransceivers

\* What holds of all objects that are not p's.
LEMMA OtherObjects ==
  ASSUME Typed, NEW p, NEW q \in Peer, q # p,
         \A o \in DOMAIN object : o[1] # p => object'[o] = object[o]
  PROVE  \A k \in Negotiation, l \in Line : object'[<<q, k, l>>] = object[<<q, k, l>>]
BY ObjectsExist

\* createOffer leaves the other peers alone.
LEMMA OfferIsLocal ==
  ASSUME Typed, NEW p \in Peer, NEW options, CreateOffer(p, options),
         NEW q \in Peer, q # p
  PROVE  SameAt(q)
BY DEF Typed, AllTransceivers, CreateOffer, SameAt, gathering, signaling, timeouts

\* What setLocalDescription does last leaves the other peers and the buffers alone.
LEMMA DescribedIsLocal ==
  ASSUME Typed, NEW p \in Peer, NEW d, NEW state, NEW has,
         LocalDescriptionSet(p, d, state, has), NEW q \in Peer, q # p
  PROVE  /\ UNCHANGED <<iceConnectionState, remoteDescription, negotiations, buffer,
                        emitted, announced, nullThrows, localStreams>>
         /\ signalingState'[q] = signalingState[q]
         /\ iceGatheringState'[q] = iceGatheringState[q]
         /\ localDescription'[q] = localDescription[q]
         /\ tasks'[q] = tasks[q] /\ flushes'[q] = flushes[q]
BY DEF Typed, LocalDescriptionSet

\* setLocalDescription of an offer leaves the other peers alone.
LEMMA LocalOfferIsLocal ==
  ASSUME Typed, NEW p \in Peer, NEW d, NEW has, SetLocalOffer(p, d, has),
         NEW q \in Peer, q # p
  PROVE  SameAt(q)
<1>1. LocalDescriptionSet(p, d, "have-local-offer", has)
  BY DEF SetLocalOffer
<1>2. transceivers'[q] = transceivers[q] /\ pendingOffer'[q] = pendingOffer[q]
  BY DEF SetLocalOffer, Typed
<1>3. \A k \in Negotiation, l \in Line : object'[<<q, k, l>>] = object[<<q, k, l>>]
  <2>1. \A o \in DOMAIN object : o[1] # p => object'[o] = object[o]
    BY LocalOfferObjects
  <2>. QED BY <2>1, OtherObjects
<1>. QED BY <1>1, <1>2, <1>3, DescribedIsLocal DEF SameAt

\* setLocalDescription of an answer leaves the other peers alone.
LEMMA LocalAnswerIsLocal ==
  ASSUME Typed, NEW p \in Peer, NEW d, NEW has, SetLocalAnswer(p, d, has),
         NEW q \in Peer, q # p
  PROVE  SameAt(q)
<1>1. \/ LocalDescriptionSet(p, d, "stable", has)
      \/ UNCHANGED <<gathering, signaling, timeouts, localStreams, negotiations,
                     iceConnectionState, nullThrows>>
  BY DEF SetLocalAnswer
<1>2. UNCHANGED <<transceivers, pendingOffer>>
  BY DEF SetLocalAnswer
<1>3. \A k \in Negotiation, l \in Line : object'[<<q, k, l>>] = object[<<q, k, l>>]
  <2>1. \A o \in DOMAIN object : o[1] # p => object'[o] = object[o]
    BY LocalAnswerObjects
  <2>. QED BY <2>1, OtherObjects
<1>4. CASE LocalDescriptionSet(p, d, "stable", has)
  BY <1>2, <1>3, <1>4, DescribedIsLocal DEF SameAt
<1>5. CASE UNCHANGED <<gathering, signaling, timeouts, localStreams, negotiations,
                       iceConnectionState, nullThrows>>
  BY <1>2, <1>3, <1>5 DEF SameAt, gathering, signaling, timeouts
<1>. QED BY <1>1, <1>4, <1>5

\* setRemoteDescription of an offer leaves the other peers alone.
LEMMA RemoteOfferIsLocal ==
  ASSUME Typed, NEW p \in Peer, NEW d, SetRemoteOffer(p, d),
         NEW q \in Peer, q # p
  PROVE  SameAt(q)
BY DEF Typed, AllTransceivers, SetRemoteOffer, RemoteDescriptionSet, SameAt,
   gathering

\* setRemoteDescription of an answer leaves the other peers alone.
LEMMA RemoteAnswerIsLocal ==
  ASSUME Typed, NEW p \in Peer, NEW d, SetRemoteAnswer(p, d),
         NEW q \in Peer, q # p
  PROVE  SameAt(q)
<1>1. \/ \E n : RemoteDescriptionSet(p, d, "stable", n)
      \/ UNCHANGED <<gathering, signaling, timeouts, localStreams,
                     pendingOffer, iceConnectionState, nullThrows>>
  BY DEF SetRemoteAnswer
<1>2. UNCHANGED <<transceivers, negotiations>>
  BY DEF SetRemoteAnswer
<1>3. \A k \in Negotiation, l \in Line : object'[<<q, k, l>>] = object[<<q, k, l>>]
  <2>1. \A o \in DOMAIN object : o[1] # p => object'[o] = object[o]
    BY RemoteAnswerObjects
  <2>. QED BY <2>1, OtherObjects
<1>4. ASSUME NEW n, RemoteDescriptionSet(p, d, "stable", n) PROVE SameAt(q)
  BY <1>2, <1>3, <1>4 DEF SameAt, Typed, RemoteDescriptionSet, gathering
<1>5. CASE UNCHANGED <<gathering, signaling, timeouts, localStreams,
                       pendingOffer, iceConnectionState, nullThrows>>
  BY <1>2, <1>3, <1>5 DEF SameAt, gathering, signaling, timeouts
<1>. QED BY <1>1, <1>4, <1>5

\* onlocalcandidate leaves the other peers alone.
LEMMA CandidateIsLocal ==
  ASSUME Typed, NEW p \in Peer, NEW k \in Negotiation, NEW l \in Line,
         NEW end \in BOOLEAN, LocalCandidate(p, k, l, end),
         NEW q \in Peer, q # p
  PROVE  SameAt(q)
BY DEF Typed, AllTransceivers, LocalCandidate, SameAt,
   gathering, signaling, media, timeouts

\* The timeouts of a peer leave the other peers alone.
LEMMA TimeIsLocal ==
  ASSUME Typed, NEW p \in Peer, RunTask(p) \/ RunFlush(p),
         NEW q \in Peer, q # p
  PROVE  SameAt(q)
BY DEF Typed, AllTransceivers, RunTask, RunFlush, EmitBufferedCandidates, SameAt,
   gathering, signaling, media, timeouts

\* The state changes of a transport leave the other peers alone.
LEMMA TransportIsLocal ==
  ASSUME Typed, NEW p \in Peer, NEW k \in Negotiation, NEW l \in Line,
         NEW state \in TransportState,
         IceStateChange(p, k, l, state) \/ DtlsStateChange(p, k, l, state),
         NEW q \in Peer, q # p
  PROVE  SameAt(q)
<1>1. UNCHANGED <<gathering, signaling, media, timeouts, nullThrows>>
  BY DEF IceStateChange, DtlsStateChange
<1>2. iceConnectionState'[q] = iceConnectionState[q]
  BY DEF IceStateChange, DtlsStateChange, UpdateConnectionState, Typed
<1>3. \A i \in Negotiation, m \in Line : object'[<<q, i, m>>] = object[<<q, i, m>>]
  <2>1. \A o \in DOMAIN object : o # <<p, k, l>> => object'[o] = object[o]
    BY TransportObjects
  <2>2. \A o \in DOMAIN object : o[1] # p => o # <<p, k, l>>
    OBVIOUS
  <2>. QED BY <2>1, <2>2, OtherObjects
<1>. QED BY <1>1, <1>2, <1>3 DEF SameAt, gathering, signaling, media, timeouts

\* close leaves the other peers alone.
LEMMA CloseIsLocal ==
  ASSUME Typed, NEW p \in Peer, Close(p), NEW q \in Peer, q # p
  PROVE  SameAt(q)
<1>1. /\ UNCHANGED <<gathering, localDescription, remoteDescription, media,
                     timeouts, iceConnectionState, nullThrows>>
      /\ signalingState'[q] = signalingState[q]
  BY DEF Close, Typed
<1>2. \A i \in Negotiation, m \in Line : object'[<<q, i, m>>] = object[<<q, i, m>>]
  <2>1. \A o \in DOMAIN object : o[1] # p => object'[o] = object[o]
    BY CloseObjects
  <2>. QED BY <2>1, OtherObjects
<1>. QED BY <1>1, <1>2 DEF SameAt, gathering, media, timeouts

\* The end of a stopped transport leaves the other peers alone.
LEMMA StoppedIsLocal ==
  ASSUME Typed, NEW p \in Peer, TransportStopped(p), NEW q \in Peer, q # p
  PROVE  SameAt(q)
BY DEF Typed, TransportStopped, UpdateConnectionState, SameAt,
   gathering, signaling, media, timeouts

-----------------------------------------------------------------------------
(* The inductive invariant of one peer.                                     *)

\* Transceivers of negotiations to come are not made.
Begun(p) == \A k \in Negotiation, l \in Line :
  /\ object[<<p, k, l>>].gatherer = "none" => object[<<p, k, l>>].found = 0
  /\ k > negotiations[p] => object[<<p, k, l>>].gatherer = "none"

\* An event is of a gatherer that found it.
FoundBefore(p) == ~nullThrows[p] =>
  \A i \in DOMAIN Events(p) : LET c == Events(p)[i] IN c # Null =>
    /\ c.k <= negotiations[p]
    /\ c.n <= object[<<p, c.k, c.l>>].found
    /\ c.n = 0 => object[<<p, c.k, c.l>>].gatherer = "completed"

InOrder(p) == ~nullThrows[p] =>
  \A i, j \in DOMAIN Events(p) :
    LET c == Events(p)[i]
        d == Events(p)[j]
    IN i < j /\ c # Null /\ <<c.k, c.l>> = <<d.k, d.l>>
       => c.n # 0 /\ (d.n = 0 \/ c.n < d.n)

NoneLost(p) == ~nullThrows[p] /\ negotiations[p] = 1 =>
  \A l \in Line : \A n \in 1 .. object[<<p, 1, l>>].found :
    \E i \in DOMAIN Events(p) : Events(p)[i] = [k |-> 1, l |-> l, n |-> n]

Gathered(p) == \A l \in Line : transceivers[p][l] # 0 =>
  object[<<p, transceivers[p][l], l>>].gatherer = "completed"

NullIsLast(p) ==
  ~nullThrows[p] /\ negotiations[p] = 1 /\ remoteDescription[p].type = "offer" =>
    \A i \in DOMAIN Events(p) :
      Events(p)[i] = Null => i = Len(Events(p)) /\ Gathered(p)

\* No description of the first negotiation is set yet.
Fresh(p) == negotiations[p] = 0 \/ (negotiations[p] = 1 /\ pendingOffer[p] # {})

Untouched(p) ==
  /\ Fresh(p) =>
       /\ localDescription[p].type = "none" /\ remoteDescription[p].type = "none"
       /\ signalingState[p] # "have-local-offer" /\ iceConnectionState[p] = "new"
       /\ \A l \in Line : transceivers[p][l] = 0
       /\ \A k \in Negotiation, l \in Line : object[<<p, k, l>>].role = "none"
  /\ negotiations[p] = 0 =>
       pendingOffer[p] = {} /\ emitted[p] = <<>> /\ buffer[p] = <<>>

\* In the first negotiation the transceivers are all that is made, and
\* gathering ends when all of them are done.
FirstMade(p) == negotiations[p] = 1 =>
  /\ \A l \in Line : object[<<p, 1, l>>].gatherer # "none" =>
       /\ pendingOffer[p] = {} => transceivers[p][l] = 1
       /\ \A list \in pendingOffer[p] : list[l] = 1
  /\ iceGatheringState[p] = "complete" =>
       \A l \in Line : object[<<p, 1, l>>].gatherer # "gathering"

\* The signaling state is about the descriptions that are set.
Agreed(p) ==
  /\ signalingState[p] = "have-local-offer" =>
       /\ localDescription[p].type = "offer"
       /\ Len(localDescription[p].sections) \in 0 .. NumLines
  /\ signalingState[p] = "have-remote-offer" => remoteDescription[p].type = "offer"
  /\ DOMAIN remoteDescription[p].sections \subseteq Line

Accepts(p, l) == /\ l \in DOMAIN remoteDescription[p].sections
                 /\ ~remoteDescription[p].sections[l].rejected
LinesStarted(p) == \A l \in Line : Accepts(p, l) =>
  /\ transceivers[p][l] # 0
  /\ object[<<p, transceivers[p][l], l>>].role =
       IF remoteDescription[p].type = "offer" THEN "controlled" ELSE "controlling"
Started(p) == signalingState[p] = "stable" /\ localDescription[p].type # "none" =>
  /\ {localDescription[p].type, remoteDescription[p].type} = {"offer", "answer"}
  /\ LinesStarted(p)

OnTheWay == {"new", "checking", "connecting", "failed"}
Connected(p) == iceConnectionState[p] = "connected" /\ negotiations[p] = 1 =>
  \A l \in Line : transceivers[p][l] # 0 =>
    /\ object[<<p, transceivers[p][l], l>>].ice \notin OnTheWay
    /\ object[<<p, transceivers[p][l], l>>].dtls \notin OnTheWay

\* A stream that is not announced yet has its timeout, the one that will make
\* the other included.
Waiting(s) == {i \in DOMAIN s : s[i].calls \in {"addstream", "onaddstream"}}
Awaited(p) == "onaddstream" \in Handlers =>
  announced[p].streams = announced[p].onaddstream + Cardinality(Waiting(tasks[p]))

EventsInv(p) ==
  Begun(p) /\ FoundBefore(p) /\ InOrder(p) /\ NoneLost(p) /\ NullIsLast(p)
SignalingInv(p) ==
  Untouched(p) /\ FirstMade(p) /\ Agreed(p) /\ Started(p) /\ Connected(p)
PeerInv(p) == EventsInv(p) /\ SignalingInv(p) /\ Awaited(p)

IInv == Typed /\ EmissionInv /\ \A p \in Peer : PeerInv(p)

-----------------------------------------------------------------------------

\* Emitted and buffered events are of gatherers there may be.
LEMMA EventTypes ==
  ASSUME Typed, NEW p \in Peer
  PROVE  /\ emitted[p] \in Seq(Event) /\ buffer[p] \in Seq(Event)
         /\ Events(p) \in Seq(Event)
         /\ \A i \in DOMAIN Events(p) :
              /\ Events(p)[i] \in Event
              /\ Events(p)[i] # Null =>
                   Events(p)[i].k \in Negotiation /\ Events(p)[i].l \in Line
BY DEF Typed, Events, Event, Candidate

\* A line points to a negotiation that has begun.
LEMMA LineTypes ==
  ASSUME Typed, NEW p \in Peer, NEW l \in Line
  PROVE  /\ transceivers[p][l] \in Nat /\ transceivers[p][l] <= negotiations[p]
         /\ negotiations[p] \in 0 .. MaxNegotiations
         /\ MaxNegotiations \in Nat \ {0} /\ 1 \in Negotiation
         /\ transceivers[p][l] # 0 => transceivers[p][l] \in Negotiation
BY BoundsAssumption DEF Typed, Negotiation

\* Nothing is found, and nothing that a null candidate ends is made.
EventsStay(p) ==
  /\ nullThrows'[p] = nullThrows[p] /\ negotiations'[p] = negotiations[p]
  /\ ~nullThrows[p] => Events(p)' = Events(p)
  /\ \A k \in Negotiation, l \in Line : SameGatherer(object[<<p, k, l>>], object'[<<p, k, l>>])
  /\ negotiations[p] = 1 /\ remoteDescription'[p].type = "offer" =>
       remoteDescription[p].type = "offer" /\ transceivers'[p] = transceivers[p]

\* What the gatherers found stays in order when neither they nor the events change.
LEMMA FoundStays ==
  ASSUME Typed, NEW p \in Peer, EventsStay(p), EventsInv(p)
  PROVE  EventsInv(p)'
<1>1. Begun(p)'
  BY DEF EventsInv, Begun, EventsStay, SameGatherer
<1>2. FoundBefore(p)'
  <2> SUFFICES ASSUME ~nullThrows'[p], NEW i \in DOMAIN Events(p)',
                      Events(p)'[i] # Null
               PROVE  /\ Events(p)'[i].k <= negotiations'[p]
                      /\ Events(p)'[i].n <= object'[<<p, Events(p)'[i].k, Events(p)'[i].l>>].found
                      /\ Events(p)'[i].n = 0 =>
                           object'[<<p, Events(p)'[i].k, Events(p)'[i].l>>].gatherer = "completed"
    BY DEF FoundBefore, Null
  <2>1. Events(p)' = Events(p) /\ ~nullThrows[p]
    BY DEF EventsStay
  <2> DEFINE c == Events(p)[i]
  <2>2. c.k \in Negotiation /\ c.l \in Line
    BY <2>1, EventTypes
  <2>3. /\ c.k <= negotiations[p] /\ c.n <= object[<<p, c.k, c.l>>].found
        /\ c.n = 0 => object[<<p, c.k, c.l>>].gatherer = "completed"
    BY <2>1 DEF EventsInv, FoundBefore
  <2>4. SameGatherer(object[<<p, c.k, c.l>>], object'[<<p, c.k, c.l>>])
    BY <2>2 DEF EventsStay
  <2>. QED BY <2>1, <2>3, <2>4 DEF EventsStay, SameGatherer
<1>3. InOrder(p)'
  BY DEF EventsInv, InOrder, EventsStay, Null
<1>4. NoneLost(p)'
  <2> SUFFICES ASSUME ~nullThrows'[p], negotiations'[p] = 1, NEW l \in Line,
                      NEW n \in 1 .. object'[<<p, 1, l>>].found
               PROVE  \E i \in DOMAIN Events(p)' :
                        Events(p)'[i] = [k |-> 1, l |-> l, n |-> n]
    BY DEF NoneLost
  <2>1. Events(p)' = Events(p) /\ ~nullThrows[p] /\ negotiations[p] = 1
    BY DEF EventsStay
  <2>2. SameGatherer(object[<<p, 1, l>>], object'[<<p, 1, l>>])
    BY LineTypes DEF EventsStay
  <2>. QED BY <2>1, <2>2 DEF EventsInv, NoneLost, SameGatherer
<1>5. NullIsLast(p)'
  <2> SUFFICES ASSUME ~nullThrows'[p], negotiations'[p] = 1,
                      remoteDescription'[p].type = "offer",
                      NEW i \in DOMAIN Events(p)', Events(p)'[i] = Null
               PROVE  i = Len(Events(p)') /\ Gathered(p)'
    BY DEF NullIsLast, Null
  <2>1. /\ Events(p)' = Events(p) /\ ~nullThrows[p] /\ negotiations[p] = 1
        /\ remoteDescription[p].type = "offer" /\ transceivers'[p] = transceivers[p]
    BY DEF EventsStay
  <2>2. i = Len(Events(p)) /\ Gathered(p)
    BY <2>1 DEF EventsInv, NullIsLast
  <2>3. Gathered(p)'
    BY <2>1, <2>2, LineTypes DEF Gathered, EventsStay, SameGatherer
  <2>. QED BY <2>1, <2>2, <2>3
<1>. QED BY <1>1, <1>2, <1>3, <1>4, <1>5 DEF EventsInv

\* The descriptions stay, and the lines they are about.
LEMMA StartedStays ==
  ASSUME Typed, NEW p \in Peer, Started(p),
         signalingState'[p] = "stable" => signalingState[p] = "stable",
         localDescription'[p] = localDescription[p],
         remoteDescription'[p] = remoteDescription[p],
         transceivers'[p] = transceivers[p],
         \A l \in Line : transceivers[p][l] # 0 =>
           object'[<<p, transceivers[p][l], l>>].role = object[<<p, transceivers[p][l], l>>].role
  PROVE  Started(p)'
<1>1. LinesStarted(p) => LinesStarted(p)'
  <2> SUFFICES ASSUME LinesStarted(p), NEW l \in Line, Accepts(p, l)'
               PROVE  /\ transceivers'[p][l] # 0
                      /\ object'[<<p, transceivers'[p][l], l>>].role =
                           IF remoteDescription'[p].type = "offer"
                           THEN "controlled" ELSE "controlling"
    BY DEF LinesStarted
  <2>1. Accepts(p, l)
    BY DEF Accepts
  <2>. QED BY <2>1 DEF LinesStarted
<1>. QED BY <1>1 DEF Started

\* The signaling of a peer that a step leaves alone stays as it is.
LEMMA SignaledElsewhere ==
  ASSUME Typed, NEW q \in Peer, SameAt(q), SignalingInv(q)
  PROVE  SignalingInv(q)'
<1>1. Untouched(q)'
  BY DEF SignalingInv, Untouched, Fresh, SameAt
<1>2. FirstMade(q)'
  BY LineTypes DEF SignalingInv, FirstMade, SameAt
<1>3. Agreed(q)'
  BY DEF SignalingInv, Agreed, SameAt
<1>4. Started(q)'
  BY LineTypes, StartedStays DEF SignalingInv, SameAt
<1>5. Connected(q)'
  BY LineTypes DEF SignalingInv, Connected, SameAt
<1>. QED BY <1>1, <1>2, <1>3, <1>4, <1>5 DEF SignalingInv

\* A step that leaves a peer as it is keeps the peer's invariant.
LEMMA Elsewhere ==
  ASSUME Typed, NEW q \in Peer, SameAt(q), PeerInv(q)
  PROVE  PeerInv(q)'
<1>1. Awaited(q)'
  BY DEF PeerInv, Awaited, Waiting, SameAt
<1>2. EventsStay(q)
  BY DEF EventsStay, SameAt, SameGatherer, Events
<1>. QED BY <1>1, <1>2, FoundStays, SignaledElsewhere DEF PeerInv

-----------------------------------------------------------------------------
(* The events.                                                              *)

\* Negotiations and lines are numbers, and the first negotiation is among them.
LEMMA PeerTypes ==
  ASSUME Typed, NEW p \in Peer
  PROVE  /\ negotiations[p] \in Nat /\ DOMAIN negotiations = Peer
         /\ \A k \in Negotiation : k \in Nat /\ k >= 1
         /\ 1 \in Negotiation /\ \A l \in Line : l \in Nat
BY BoundsAssumption DEF Typed, Negotiation, Line

\* The values the parts of a transceiver take.
LEMMA ObjectTypes ==
  ASSUME Typed, NEW p \in Peer, NEW k \in Negotiation, NEW l \in Line
  PROVE  /\ object[<<p, k, l>>].gatherer \in {"none", "gathering", "completed"}
         /\ object[<<p, k, l>>].found \in Nat
         /\ object[<<p, k, l>>].role \in {"none", "controlling", "controlled"}
         /\ object[<<p, k, l>>].ice \in TransportState
         /\ object[<<p, k, l>>].dtls \in TransportState
<1>1. IsTransceiver(<<p, k, l>>, object[<<p, k, l>>])
  BY ObjectsExist DEF Typed, AllTransceivers
<1>2. MaxCandidates[p][l] \in Nat
  BY BoundsAssumption DEF Line
<1>3. /\ object[<<p, k, l>>].found \in 0 .. MaxCandidates[p][l]
      /\ object[<<p, k, l>>].gatherer \in {"none", "gathering", "completed"}
      /\ object[<<p, k, l>>].role \in {"none", "controlling", "controlled"}
      /\ object[<<p, k, l>>].ice \in TransportState
      /\ object[<<p, k, l>>].dtls \in TransportState
  BY <1>1 DEF IsTransceiver
<1>4. ASSUME NEW m \in Nat, NEW n \in 0 .. m PROVE n \in Nat
  BY <1>4
<1>. QED BY <1>2, <1>3, <1>4

\* onlocalcandidate's test for the end of gathering, said line by line.
LEMMA GatheredLines ==
  ASSUME Typed, NEW p \in Peer
  PROVE  AllGathered(p, object) <=> Gathered(p)
BY DEF AllGathered, Objects, Gathered

\* A transceiver made in an offer has found nothing.
LEMMA EventsMade ==
  ASSUME Typed, NEW p \in Peer, EventsInv(p), Untouched(p),
         (\E options : CreateOffer(p, options)) \/ (\E d : SetRemoteOffer(p, d))
  PROVE  EventsInv(p)'
<1>1. /\ emitted' = emitted /\ buffer' = buffer /\ nullThrows' = nullThrows
      /\ remoteDescription'[p].type = "offer" =>
           remoteDescription[p].type = "offer" \/ \E d : SetRemoteOffer(p, d)
  BY DEF CreateOffer, SetRemoteOffer, RemoteDescriptionSet, gathering, signaling
<1>2. Events(p)' = Events(p)
  BY <1>1 DEF Events
<1>3. /\ negotiations'[p] = negotiations[p] + 1 /\ negotiations[p] \in Nat
      /\ \A k \in Negotiation : k \in Nat /\ k >= 1
      /\ 1 \in Negotiation
  <2>1. negotiations' = [negotiations EXCEPT ![p] = @ + 1]
    BY NewObjects
  <2>. QED BY <2>1, PeerTypes
<1>4. ASSUME NEW k \in Negotiation, NEW l \in Line
      PROVE  \/ object'[<<p, k, l>>] = object[<<p, k, l>>]
             \/ /\ k = negotiations[p] + 1 /\ object'[<<p, k, l>>].gatherer = "gathering"
                /\ object'[<<p, k, l>>].found = 0
  <2>1. <<p, k, l>> \in DOMAIN object
    BY ObjectsExist
  <2>2. \A o \in DOMAIN object :
          \/ object'[o] = object[o]
          \/ /\ o[1] = p /\ o[2] = negotiations[p] + 1
             /\ object'[o].gatherer = "gathering" /\ object'[o].found = 0
    BY NewObjects
  <2>. QED BY <2>1, <2>2
<1>5. Begun(p)'
  <2> SUFFICES ASSUME NEW k \in Negotiation, NEW l \in Line
               PROVE  /\ object'[<<p, k, l>>].gatherer = "none" => object'[<<p, k, l>>].found = 0
                      /\ k > negotiations'[p] => object'[<<p, k, l>>].gatherer = "none"
    BY DEF Begun
  <2>1. /\ object[<<p, k, l>>].gatherer = "none" => object[<<p, k, l>>].found = 0
        /\ k > negotiations[p] => object[<<p, k, l>>].gatherer = "none"
    BY DEF EventsInv, Begun
  <2>2. CASE object'[<<p, k, l>>] = object[<<p, k, l>>]
    BY <1>3, <2>1, <2>2
  <2>3. CASE /\ k = negotiations[p] + 1 /\ object'[<<p, k, l>>].gatherer = "gathering"
    BY <1>3, <2>3
  <2>. QED BY <1>4, <2>2, <2>3
<1>6. FoundBefore(p)'
  <2> SUFFICES ASSUME ~nullThrows[p], NEW i \in DOMAIN Events(p), Events(p)[i] # Null
               PROVE  /\ Events(p)[i].k <= negotiations'[p]
                      /\ Events(p)[i].n <= object'[<<p, Events(p)[i].k, Events(p)[i].l>>].found
                      /\ Events(p)[i].n = 0 =>
                           object'[<<p, Events(p)[i].k, Events(p)[i].l>>].gatherer = "completed"
    BY <1>1, <1>2 DEF FoundBefore, Null
  <2> DEFINE c == Events(p)[i]
  <2>1. c.k \in Negotiation /\ c.l \in Line
    BY EventTypes
  <2>2. /\ c.k <= negotiations[p] /\ c.n <= object[<<p, c.k, c.l>>].found
        /\ c.n = 0 => object[<<p, c.k, c.l>>].gatherer = "completed"
    BY DEF EventsInv, FoundBefore
  <2>3. object'[<<p, c.k, c.l>>] = object[<<p, c.k, c.l>>]
    BY <1>3, <1>4, <2>1, <2>2
  <2>. QED BY <1>3, <2>1, <2>2, <2>3
<1>7. InOrder(p)'
  BY <1>1, <1>2 DEF EventsInv, InOrder, Null
<1>8. NoneLost(p)'
  <2> SUFFICES ASSUME negotiations'[p] = 1, NEW l \in Line,
                      NEW n \in 1 .. object'[<<p, 1, l>>].found
               PROVE  FALSE
    BY DEF NoneLost
  <2>1. object[<<p, 1, l>>].found = 0
    BY <1>3 DEF EventsInv, Begun
  <2>2. object'[<<p, 1, l>>].found = 0
    BY <1>3, <1>4, <2>1
  <2>. QED BY <2>2
<1>9. NullIsLast(p)'
  <2> SUFFICES ASSUME negotiations'[p] = 1, NEW i \in DOMAIN Events(p) PROVE FALSE
    BY <1>2 DEF NullIsLast
  <2>1. Events(p) = <<>>
    BY <1>3 DEF Untouched, Events
  <2>. QED BY <2>1
<1>. QED BY <1>5, <1>6, <1>7, <1>8, <1>9 DEF EventsInv

\* What the emission of the buffer leaves of its events, and where.
LEMMA LoopedAll ==
  ASSUME Typed, NEW p \in Peer, ~nullThrows[p]
  PROVE  Looped(p) = buffer[p] /\ Kept(p) = <<>>
BY DEF Looped, Kept, LoopThrows

\* The events of p after a gatherer called: e, and then it may be the end.
LEMMA EventsFound ==
  ASSUME Typed, NEW p \in Peer, NEW k \in Negotiation, NEW l \in Line,
         NEW end \in BOOLEAN, LocalCandidate(p, k, l, end), ~nullThrows[p]
  PROVE  LET e == [k |-> k, l |-> l,
                   n |-> IF end THEN 0 ELSE object[<<p, k, l>>].found + 1]
         IN \/ iceGatheringState[p] = "complete" /\ Events(p)' = Events(p)
            \/ Events(p)' = Events(p) \o <<e>>
            \/ AllGathered(p, object') /\ Events(p)' = Events(p) \o <<e, Null>>
<1> DEFINE e == [k |-> k, l |-> l,
                 n |-> IF end THEN 0 ELSE object[<<p, k, l>>].found + 1]
<1>1. ~LoopThrows(p) /\ Looped(p) = buffer[p] /\ Kept(p) = <<>>
  BY LoopedAll DEF LoopThrows
<1>2. /\ DOMAIN emitted = Peer /\ DOMAIN buffer = Peer
      /\ emitted[p] \in Seq(Event) /\ buffer[p] \in Seq(Event)
  BY DEF Typed
<1>3. e \in Event /\ Null \in Event
  <2>1. object[<<p, k, l>>].found + 1 \in Nat
    BY ObjectTypes
  <2>. QED BY <2>1 DEF Event, Candidate
<1>4. \E after \in {<<e>>, <<e, Null>>} :
        /\ after = <<e, Null>> => AllGathered(p, object')
        /\ \/ /\ buffer' = [buffer EXCEPT ![p] = @ \o after] /\ emitted' = emitted
           \/ /\ emitted' = [emitted EXCEPT ![p] = @ \o buffer[p] \o after]
              /\ buffer' = [buffer EXCEPT ![p] = <<>>]
           \/ /\ iceGatheringState[p] = "complete"
              /\ emitted' = emitted /\ buffer' = buffer
  BY <1>1 DEF LocalCandidate, gathering
<1> HIDE DEF e
<1>5. PICK after \in Seq(Event) :
        /\ after = <<e>> \/ (after = <<e, Null>> /\ AllGathered(p, object'))
        /\ \/ /\ buffer' = [buffer EXCEPT ![p] = @ \o after] /\ emitted' = emitted
           \/ /\ emitted' = [emitted EXCEPT ![p] = @ \o buffer[p] \o after]
              /\ buffer' = [buffer EXCEPT ![p] = <<>>]
           \/ /\ iceGatheringState[p] = "complete"
              /\ emitted' = emitted /\ buffer' = buffer
  <2>1. <<e>> \in Seq(Event) /\ <<e, Null>> \in Seq(Event)
    BY <1>3
  <2>. QED BY <1>4, <2>1
<1>6. \/ iceGatheringState[p] = "complete" /\ Events(p)' = Events(p)
      \/ Events(p)' = Events(p) \o after
  <2>1. CASE buffer' = [buffer EXCEPT ![p] = @ \o after] /\ emitted' = emitted
    BY <1>2, <2>1 DEF Events
  <2>2. CASE /\ emitted' = [emitted EXCEPT ![p] = @ \o buffer[p] \o after]
             /\ buffer' = [buffer EXCEPT ![p] = <<>>]
    BY <1>2, <2>2 DEF Events
  <2>3. CASE iceGatheringState[p] = "complete" /\ emitted' = emitted /\ buffer' = buffer
    BY <2>3 DEF Events
  <2>. QED BY <1>5, <2>1, <2>2, <2>3
<1>. QED BY <1>5, <1>6 DEF e

\* What a gatherer finds now it has not found before, and it was not done.
LEMMA EventsGathered ==
  ASSUME Typed, NEW p \in Peer, EventsInv(p), Untouched(p), FirstMade(p),
         NEW k \in Negotiation, NEW l \in Line, NEW end \in BOOLEAN,
         LocalCandidate(p, k, l, end)
  PROVE  EventsInv(p)'
<1> DEFINE t == object[<<p, k, l>>]
           u == object'[<<p, k, l>>]
           m == IF end THEN 0 ELSE t.found + 1
           e == [k |-> k, l |-> l, n |-> m]
<1>1. /\ u.found = IF end THEN t.found ELSE t.found + 1
      /\ u.gatherer = IF end THEN "completed" ELSE "gathering"
      /\ \A i \in Negotiation, j \in Line :
           i # k \/ j # l => object'[<<p, i, j>>] = object[<<p, i, j>>]
  <2>1. \A o \in DOMAIN object : o # <<p, k, l>> => object'[o] = object[o]
    BY CandidateObjects
  <2>2. \A i \in Negotiation, j \in Line :
          i # k \/ j # l => object'[<<p, i, j>>] = object[<<p, i, j>>]
    BY <2>1, ObjectsExist
  <2>. QED BY <2>2, CandidateObjects
<1>2. /\ t.gatherer = "gathering" /\ nullThrows' = nullThrows
      /\ UNCHANGED <<negotiations, pendingOffer, transceivers, remoteDescription>>
  BY DEF LocalCandidate, media, signaling
<1>3. t.found \in Nat /\ u.found \in Nat /\ u.found >= t.found
  BY <1>1, ObjectTypes
<1>4. m \in Nat /\ (m = 0 => u.gatherer = "completed") /\ m <= u.found
      /\ (m = 0 \/ m > t.found) /\ (m = 0 => u.found = t.found)
      /\ (m # 0 => u.found = m /\ m = t.found + 1)
  <2>1. CASE end
    BY <1>1, <1>3, <2>1
  <2>2. CASE ~end
    BY <1>1, <1>3, <2>2
  <2>. QED BY <2>1, <2>2
<1> HIDE DEF m, t, u
<1>5. k <= negotiations[p]
  BY <1>2, PeerTypes DEF EventsInv, Begun, t
<1>6. Begun(p)'
  <2> SUFFICES ASSUME NEW i \in Negotiation, NEW j \in Line
               PROVE  /\ object'[<<p, i, j>>].gatherer = "none" =>
                           object'[<<p, i, j>>].found = 0
                      /\ i > negotiations[p] => object'[<<p, i, j>>].gatherer = "none"
    BY <1>2 DEF Begun
  <2>1. CASE i = k /\ j = l
    BY <1>1, <1>5, <2>1, PeerTypes DEF u
  <2>2. CASE i # k \/ j # l
    BY <1>1, <2>2 DEF EventsInv, Begun
  <2>. QED BY <2>1, <2>2
<1>7. CASE nullThrows[p]
  BY <1>2, <1>6, <1>7 DEF EventsInv, FoundBefore, InOrder, NoneLost, NullIsLast
<1>8. CASE ~nullThrows[p]
  <2>1. \/ iceGatheringState[p] = "complete" /\ Events(p)' = Events(p)
        \/ Events(p)' = Events(p) \o <<e>>
        \/ AllGathered(p, object') /\ Events(p)' = Events(p) \o <<e, Null>>
    BY <1>8, EventsFound DEF m, t
  <2>2. Events(p) \in Seq(Event) /\ e \in Event /\ Null \in Event
    BY <1>4, EventTypes DEF Event, Candidate
  \* No event of this gatherer says that it is done, and none is ahead of it.
  <2>3. \A i \in DOMAIN Events(p) :
          Events(p)[i] # Null /\ Events(p)[i].k = k /\ Events(p)[i].l = l =>
            Events(p)[i].n # 0 /\ Events(p)[i].n <= t.found
    BY <1>2, <1>8 DEF EventsInv, FoundBefore, t
  \* What an event says stays true.
  <2> DEFINE Said(c) == c # Null =>
               /\ c.k <= negotiations[p] /\ c.n <= object'[<<p, c.k, c.l>>].found
               /\ c.n = 0 => object'[<<p, c.k, c.l>>].gatherer = "completed"
  <2>4. \A i \in DOMAIN Events(p) : Said(Events(p)[i])
    <3> SUFFICES ASSUME NEW i \in DOMAIN Events(p), Events(p)[i] # Null
                 PROVE  Said(Events(p)[i])
      OBVIOUS
    <3> DEFINE c == Events(p)[i]
    <3>1. /\ c.k <= negotiations[p] /\ c.n <= object[<<p, c.k, c.l>>].found
          /\ c.n = 0 => object[<<p, c.k, c.l>>].gatherer = "completed"
      BY <1>8 DEF EventsInv, FoundBefore
    <3>2. c.k \in Negotiation /\ c.l \in Line /\ c.n \in Nat
      BY EventTypes DEF Event, Candidate
    <3> HIDE DEF c
    <3>3. CASE c.k = k /\ c.l = l
      <4>1. c.n # 0 /\ c.n <= t.found
        BY <2>3, <3>3 DEF c
      <4>2. c.n <= u.found
        BY <1>3, <3>2, <4>1
      <4>. QED BY <3>1, <3>3, <4>1, <4>2 DEF c, u
    <3>4. CASE c.k # k \/ c.l # l
      BY <1>1, <3>1, <3>2, <3>4 DEF c
    <3>. QED BY <3>3, <3>4
  <2>5. Said(e) /\ e # Null
    BY <1>4, <1>5, PeerTypes DEF u, Null
  <2> DEFINE old == Events(p)
             new == Events(p)'
             n == Len(old)
  <2>6. /\ n \in Nat /\ DOMAIN old = 1 .. n
        /\ \A i \in DOMAIN old : i \in DOMAIN new /\ new[i] = old[i]
        /\ \A i \in DOMAIN new : \/ i \in DOMAIN old /\ new[i] = old[i]
                                 \/ i = n + 1 /\ new[i] = e
                                 \/ /\ i = n + 2 /\ i = Len(new) /\ new[i] = Null
                                    /\ AllGathered(p, object')
        /\ \/ iceGatheringState[p] = "complete" /\ new = old
           \/ n + 1 \in DOMAIN new /\ new[n + 1] = e
    <3> HIDE DEF e
    <3>1. CASE iceGatheringState[p] = "complete" /\ new = old
      BY <2>2, <3>1
    <3>2. CASE new = old \o <<e>>
      BY <2>2, <3>2
    <3>3. CASE AllGathered(p, object') /\ new = old \o <<e, Null>>
      BY <2>2, <3>3
    <3>. QED BY <2>1, <3>1, <3>2, <3>3
  <2> HIDE DEF old, new, n
  <2>7. FoundBefore(p)'
    <3>1. Null = Null' /\ Said(Null)
      BY DEF Null
    <3>2. \A i \in DOMAIN new : Said(new[i])
      BY <2>4, <2>5, <2>6, <3>1 DEF old
    <3>. QED BY <1>2, <3>1, <3>2 DEF FoundBefore, new
  <2>8. InOrder(p)'
    <3> SUFFICES ASSUME NEW i \in DOMAIN new, NEW j \in DOMAIN new, i < j,
                        new[i] # Null, new[i].k = new[j].k, new[i].l = new[j].l
                 PROVE  new[i].n # 0 /\ (new[j].n = 0 \/ new[i].n < new[j].n)
      BY DEF InOrder, new, Null
    <3>1. CASE j \in DOMAIN old
      <4>1. i \in DOMAIN old /\ new[i] = old[i] /\ new[j] = old[j]
        BY <2>6, <3>1
      <4>2. InOrder(p)
        BY DEF EventsInv
      <4>3. \A a, b \in DOMAIN old :
              a < b /\ old[a] # Null /\ old[a].k = old[b].k /\ old[a].l = old[b].l
                => old[a].n # 0 /\ (old[b].n = 0 \/ old[a].n < old[b].n)
        BY <1>8, <4>2 DEF InOrder, old
      <4>. QED BY <3>1, <4>1, <4>3
    <3>2. CASE j = n + 1 /\ new[j] = e
      <4>1. i \in DOMAIN old /\ new[i] = old[i]
        BY <2>6, <3>2
      <4>2. new[i].n # 0 /\ new[i].n <= t.found /\ new[i].n \in Nat
        BY <2>2, <2>3, <3>2, <4>1, EventTypes DEF old, Event, Candidate
      <4>3. new[j].n = m
        BY <3>2
      <4>4. m = 0 \/ new[i].n < m
        BY <1>3, <1>4, <4>2
      <4>. QED BY <4>2, <4>3, <4>4
    <3>3. CASE j = n + 2 /\ new[j] = Null
      <4>1. new[i].k \in Negotiation
        <5>1. CASE i \in DOMAIN old /\ new[i] = old[i]
          BY <5>1, EventTypes DEF old
        <5>2. CASE new[i] = e
          BY <5>2
        <5>. QED BY <2>6, <5>1, <5>2
      <4>2. new[i].k # 0
        BY <4>1, PeerTypes
      <4>3. new[j].k = 0
        BY <3>3 DEF Null
      <4>. QED BY <4>2, <4>3
    <3>. QED BY <2>6, <3>1, <3>2, <3>3
  <2>9. NoneLost(p)'
    <3> SUFFICES ASSUME negotiations[p] = 1, NEW j \in Line,
                        NEW f \in 1 .. object'[<<p, 1, j>>].found
                 PROVE  \E i \in DOMAIN new : new[i] = [k |-> 1, l |-> j, n |-> f]
      BY <1>2 DEF NoneLost, new
    <3>1. k = 1
      BY <1>5, PeerTypes
    <3>2. CASE j = l /\ f > t.found
      <4>1. object'[<<p, 1, j>>].found = u.found
        BY <3>1, <3>2 DEF u
      <4>2. f = m
        BY <1>3, <1>4, <3>2, <4>1
      <4>3. iceGatheringState[p] # "complete"
        BY <1>2, <3>1 DEF FirstMade, t
      <4>. QED BY <2>6, <3>1, <3>2, <4>2, <4>3
    <3>3. CASE ~(j = l /\ f > t.found)
      <4>1. f \in 1 .. object[<<p, 1, j>>].found
        <5>1. CASE j = l
          <6>1. t = object[<<p, 1, j>>]
            BY <3>1, <5>1 DEF t
          <6>2. f \in Nat /\ f >= 1 /\ f <= t.found
            BY <1>3, <3>1, <3>3, <5>1 DEF u
          <6>. QED BY <1>3, <6>1, <6>2
        <5>2. CASE j # l
          BY <1>1, <3>1, <5>2
        <5>. QED BY <5>1, <5>2
      <4>2. PICK i \in DOMAIN old : old[i] = [k |-> 1, l |-> j, n |-> f]
        BY <1>8, <4>1 DEF EventsInv, NoneLost, old
      <4>. QED BY <2>6, <4>2
    <3>. QED BY <3>2, <3>3
  <2>10. NullIsLast(p)'
    <3> SUFFICES ASSUME negotiations[p] = 1, remoteDescription[p].type = "offer",
                        NEW i \in DOMAIN new, new[i] = Null
                 PROVE  i = Len(new) /\ Gathered(p)'
      BY <1>2 DEF NullIsLast, new, Null
    <3>1. k = 1 /\ transceivers[p][l] = 1
      BY <1>2, <1>5, PeerTypes DEF Untouched, Fresh, FirstMade, t
    <3>2. ~Gathered(p)
      BY <1>2, <3>1 DEF Gathered, t
    <3>3. ~(i \in DOMAIN old /\ old[i] = Null)
      BY <1>8, <3>2 DEF EventsInv, NullIsLast, old
    <3>4. i = Len(new) /\ AllGathered(p, object')
      BY <2>5, <2>6, <3>3
    <3>. QED BY <1>2, <3>4 DEF AllGathered, Gathered, Objects
  <2>. QED BY <1>6, <2>7, <2>8, <2>9, <2>10 DEF EventsInv
<1>. QED BY <1>7, <1>8

\* A set of natural numbers has a smallest one.
LEMMA Smallest ==
  ASSUME NEW S \in SUBSET Nat, S # {}
  PROVE  \E i \in S : \A j \in S : i <= j
<1> DEFINE Less == OpToRel(<, Nat)
<1>1. IsWellFoundedOn(Less, Nat)
  BY NatLessThanWellFounded
<1>2. PICK i \in S : \A j \in S : ~(<<j, i>> \in Less)
  BY <1>1, WFMin
<1>3. \A m, n \in Nat : <<m, n>> \in Less <=> m < n
  BY DEF OpToRel
<1>4. i \in Nat /\ \A j \in S : j \in Nat /\ ~(j < i)
  BY <1>2, <1>3
<1>. QED BY <1>4

-----------------------------------------------------------------------------
(* The types.                                                               *)

\* addStream and removeStream keep the types and touch nothing but the streams.
LEMMA TypedStreams ==
  ASSUME Typed, NEW p \in Peer,
         (\E stream : AddStream(p, stream)) \/ (\E i : RemoveStream(p, i))
  PROVE  Typed' /\ \A q \in Peer : SameAt(q)
<1>1. /\ DOMAIN localStreams' = Peer
      /\ UNCHANGED <<signalingState, iceGatheringState, iceConnectionState,
                     localDescription, remoteDescription, described, negotiations,
                     pendingOffer, transceivers, object, buffer, emitted, tasks,
                     flushes, announced, nullThrows>>
  BY DEF AddStream, RemoveStream, gathering, signaling, timeouts, Typed
<1>. QED BY <1>1 DEF Typed, AllTransceivers, IsTransceiver, SameAt

\* A negotiation more.
LEMMA Negotiated ==
  ASSUME Typed, NEW p \in Peer, negotiations[p] + 1 \in Negotiation,
         negotiations' = [negotiations EXCEPT ![p] = @ + 1]
  PROVE  /\ negotiations' \in [Peer -> 0 .. MaxNegotiations]
         /\ negotiations'[p] = negotiations[p] + 1
         /\ \A q \in Peer : negotiations'[q] \in Nat /\ negotiations[q] <= negotiations'[q]
<1>1. negotiations \in [Peer -> 0 .. MaxNegotiations] /\ MaxNegotiations \in Nat
  BY BoundsAssumption DEF Typed
<1>2. negotiations[p] + 1 \in 0 .. MaxNegotiations
  BY <1>1 DEF Negotiation
<1>. QED BY <1>1, <1>2

\* A list of transceivers of this negotiation.
LEMMA TypedOffered ==
  ASSUME Typed, NEW p \in Peer, NEW options, CreateOffer(p, options)
  PROVE  Typed'
<1>1. /\ AllTransceivers(object') /\ negotiations[p] + 1 \in Negotiation
      /\ negotiations' = [negotiations EXCEPT ![p] = @ + 1]
  BY NewObjects
<1>2. /\ negotiations' \in [Peer -> 0 .. MaxNegotiations]
      /\ negotiations'[p] = negotiations[p] + 1
      /\ \A q \in Peer : negotiations'[q] \in Nat /\ negotiations[q] <= negotiations'[q]
  BY <1>1, Negotiated
<1>3. UNCHANGED <<signalingState, iceGatheringState, iceConnectionState,
                  localDescription, remoteDescription, described, localStreams,
                  transceivers, buffer, emitted, tasks, flushes, announced, nullThrows>>
  BY DEF CreateOffer, gathering, signaling, timeouts
<1>4. PICK list \in [Line -> {0, negotiations'[p]}] :
        pendingOffer' = [pendingOffer EXCEPT ![p] = {list}]
  BY <1>2 DEF CreateOffer
<1>5. pendingOffer' \in [Peer -> SUBSET [Line -> 0 .. MaxNegotiations]]
  <2>1. list \in [Line -> 0 .. MaxNegotiations]
    BY <1>2, BoundsAssumption
  <2>. QED BY <1>4, <2>1 DEF Typed
<1>6. ASSUME NEW q \in Peer, NEW m \in pendingOffer'[q], NEW l \in Line
      PROVE  m[l] <= negotiations'[q]
  <2>1. CASE q = p
    <3>1. m = list
      BY <1>4, <1>6, <2>1 DEF Typed
    <3>. QED BY <1>2, <2>1, <3>1
  <2>2. CASE q # p
    <3>1. m \in pendingOffer[q] /\ m[l] \in Nat
      BY <1>4, <1>6, <2>2, BoundsAssumption DEF Typed
    <3>2. m[l] <= negotiations[q] /\ negotiations[q] \in Nat
      BY <3>1, PeerTypes DEF Typed
    <3>. QED BY <1>2, <3>1, <3>2
  <2>. QED BY <2>1, <2>2
<1>7. ASSUME NEW q \in Peer, NEW l \in Line
      PROVE  transceivers'[q][l] <= negotiations'[q]
  BY <1>2, <1>3, LineTypes, PeerTypes
<1>. QED BY <1>1, <1>2, <1>3, <1>5, <1>6, <1>7 DEF Typed

\* setLocalDescription keeps the types.
LEMMA TypedDescribed ==
  ASSUME Typed, NEW p \in Peer, NEW d, NEW has \in BOOLEAN,
         SetLocalOffer(p, d, has) \/ SetLocalAnswer(p, d, has)
  PROVE  Typed'
<1>1. AllTransceivers(object')
  BY LocalOfferObjects, LocalAnswerObjects
<1>2. /\ \/ signalingState' = [signalingState EXCEPT ![p] = "have-local-offer"]
         \/ signalingState' = [signalingState EXCEPT ![p] = "stable"]
         \/ signalingState' = signalingState
      /\ \/ iceGatheringState' = [iceGatheringState EXCEPT ![p] =
                                    IF @ = "new" THEN "gathering" ELSE @]
         \/ iceGatheringState' = iceGatheringState
      /\ UNCHANGED <<remoteDescription, buffer, emitted, announced, localStreams,
                     negotiations, iceConnectionState, nullThrows>>
      /\ DOMAIN localDescription' = DOMAIN localDescription
      /\ DOMAIN described' = DOMAIN described
      /\ DOMAIN tasks' = DOMAIN tasks /\ DOMAIN flushes' = DOMAIN flushes
  BY DEF SetLocalOffer, SetLocalAnswer, LocalDescriptionSet, gathering, signaling,
         timeouts
<1>3. \/ pendingOffer' = pendingOffer /\ transceivers' = transceivers
      \/ \E list \in pendingOffer[p] :
           /\ transceivers' = [transceivers EXCEPT ![p] = list]
           /\ pendingOffer' = [pendingOffer EXCEPT ![p] = {}]
  BY DEF SetLocalOffer, SetLocalAnswer
<1>4. /\ transceivers' \in [Peer -> [Line -> 0 .. MaxNegotiations]]
      /\ pendingOffer' \in [Peer -> SUBSET [Line -> 0 .. MaxNegotiations]]
      /\ \A q \in Peer :
           /\ \A l \in Line : transceivers'[q][l] <= negotiations[q]
           /\ \A list \in pendingOffer'[q], l \in Line : list[l] <= negotiations[q]
  <2>1. CASE pendingOffer' = pendingOffer /\ transceivers' = transceivers
    BY <2>1 DEF Typed
  <2>2. ASSUME NEW list \in pendingOffer[p],
               transceivers' = [transceivers EXCEPT ![p] = list],
               pendingOffer' = [pendingOffer EXCEPT ![p] = {}]
        PROVE  <1>4
    <3>1. /\ list \in [Line -> 0 .. MaxNegotiations]
          /\ \A l \in Line : list[l] <= negotiations[p]
      BY DEF Typed
    <3>. QED BY <2>2, <3>1 DEF Typed
  <2>. QED BY <1>3, <2>1, <2>2
<1>5. /\ signalingState' \in [Peer -> {"stable", "have-local-offer",
                                       "have-remote-offer", "closed"}]
      /\ iceGatheringState' \in [Peer -> {"new", "gathering", "complete"}]
  BY <1>2 DEF Typed
<1>. QED BY <1>1, <1>2, <1>4, <1>5 DEF Typed

\* What setRemoteDescription does last keeps the types of what it changes.
LEMMA TypedRemote ==
  ASSUME Typed, NEW p \in Peer, NEW d, NEW state \in {"stable", "have-remote-offer"},
         NEW n, RemoteDescriptionSet(p, d, state, n)
  PROVE  /\ signalingState' \in [Peer -> {"stable", "have-local-offer",
                                          "have-remote-offer", "closed"}]
         /\ announced' \in [Peer -> [streams : Nat, onaddstream : Nat, ontrack : Nat]]
         /\ DOMAIN remoteDescription' = Peer /\ DOMAIN tasks' = Peer
         /\ UNCHANGED <<iceGatheringState, described, buffer, emitted, localDescription,
                        flushes, localStreams, pendingOffer, iceConnectionState,
                        nullThrows>>
<1>1. /\ signalingState' = [signalingState EXCEPT ![p] = state]
      /\ remoteDescription' = [remoteDescription EXCEPT ![p] = d]
      /\ tasks' = tasks \/ tasks' = [tasks EXCEPT ![p] = Append(@, Task("addstream", n))]
      /\ announced' = announced \/ announced' = [announced EXCEPT ![p].streams = @ + 1]
      /\ UNCHANGED <<iceGatheringState, described, buffer, emitted, localDescription,
                     flushes, localStreams, pendingOffer, iceConnectionState,
                     nullThrows>>
  BY DEF RemoteDescriptionSet, gathering
<1>2. announced' \in [Peer -> [streams : Nat, onaddstream : Nat, ontrack : Nat]]
  <2>1. announced \in [Peer -> [streams : Nat, onaddstream : Nat, ontrack : Nat]]
    BY DEF Typed
  <2>2. CASE announced' = announced
    BY <2>1, <2>2
  <2>3. CASE announced' = [announced EXCEPT ![p].streams = @ + 1]
    <3> DEFINE new == [announced[p] EXCEPT !.streams = announced[p].streams + 1]
    <3>1. announced' = [announced EXCEPT ![p] = new]
      BY <2>3
    <3>2. announced[p] \in [streams : Nat, onaddstream : Nat, ontrack : Nat]
      BY <2>1
    <3>3. new \in [streams : Nat, onaddstream : Nat, ontrack : Nat]
      BY <3>2
    <3> HIDE DEF new
    <3>. QED BY <2>1, <3>1, <3>3
  <2>. QED BY <1>1, <2>2, <2>3
<1>. QED BY <1>1, <1>2 DEF Typed

\* setRemoteDescription of an offer keeps the types.
LEMMA TypedRemoteOffer ==
  ASSUME Typed, NEW p \in Peer, NEW d, SetRemoteOffer(p, d)
  PROVE  Typed'
<1>1. /\ AllTransceivers(object') /\ negotiations[p] + 1 \in Negotiation
      /\ negotiations' = [negotiations EXCEPT ![p] = @ + 1]
  BY NewObjects
<1>2. /\ negotiations' \in [Peer -> 0 .. MaxNegotiations]
      /\ negotiations'[p] = negotiations[p] + 1
      /\ \A q \in Peer : negotiations'[q] \in Nat /\ negotiations[q] <= negotiations'[q]
  BY <1>1, Negotiated
<1>3. PICK n : RemoteDescriptionSet(p, d, "have-remote-offer", n)
  BY DEF SetRemoteOffer
<1>4. PICK accepted : transceivers' = [transceivers EXCEPT ![p] =
        [l \in Line |-> IF l \in accepted THEN negotiations'[p] ELSE @[l]]]
  BY <1>2 DEF SetRemoteOffer
<1>5. transceivers' \in [Peer -> [Line -> 0 .. MaxNegotiations]]
  BY <1>2, <1>4 DEF Typed
<1>6. ASSUME NEW q \in Peer, NEW l \in Line
      PROVE  transceivers'[q][l] <= negotiations'[q]
  <2>1. \/ transceivers'[q][l] = transceivers[q][l]
        \/ q = p /\ transceivers'[q][l] = negotiations'[p]
    BY <1>4 DEF Typed
  <2>. QED BY <1>2, <2>1, LineTypes, PeerTypes
<1>7. ASSUME NEW q \in Peer, NEW list \in pendingOffer[q], NEW l \in Line
      PROVE  list[l] <= negotiations'[q]
  <2>1. list[l] <= negotiations[q] /\ list[l] \in Nat
    BY BoundsAssumption DEF Typed
  <2>. QED BY <1>2, <2>1, PeerTypes
<1>. QED BY <1>1, <1>2, <1>3, <1>5, <1>6, <1>7, TypedRemote DEF Typed

\* setRemoteDescription of an answer keeps the types.
LEMMA TypedRemoteAnswer ==
  ASSUME Typed, NEW p \in Peer, NEW d, SetRemoteAnswer(p, d)
  PROVE  Typed'
<1>1. AllTransceivers(object')
  BY RemoteAnswerObjects
<1>2. UNCHANGED <<negotiations, transceivers>>
  BY DEF SetRemoteAnswer
<1>3. \/ \E n : RemoteDescriptionSet(p, d, "stable", n)
      \/ UNCHANGED <<gathering, signaling, timeouts, localStreams,
                     pendingOffer, iceConnectionState, nullThrows>>
  BY DEF SetRemoteAnswer
<1>4. CASE \E n : RemoteDescriptionSet(p, d, "stable", n)
  BY <1>1, <1>2, <1>4, TypedRemote DEF Typed
<1>5. CASE UNCHANGED <<gathering, signaling, timeouts, localStreams,
                       pendingOffer, iceConnectionState, nullThrows>>
  BY <1>1, <1>2, <1>5 DEF Typed, gathering, signaling, timeouts
<1>. QED BY <1>3, <1>4, <1>5

\* The transport states of four kinds make one of four connection states.
LEMMA TypedConnection ==
  ASSUME Typed, NEW p \in Peer, NEW obj,
         iceConnectionState' = [iceConnectionState EXCEPT ![p] = ConnectionState(p, obj)],
         AllTransceivers(object'),
         UNCHANGED <<gathering, signaling, media, timeouts, nullThrows>>
  PROVE  Typed'
<1>1. ConnectionState(p, obj) \in {"new", "connecting", "connected", "failed"}
  BY DEF ConnectionState
<1>2. iceConnectionState' \in [Peer -> {"new", "connecting", "connected", "failed"}]
  BY <1>1 DEF Typed
<1>. QED BY <1>2 DEF Typed, gathering, signaling, media, timeouts

\* The state changes of a transport keep the types.
LEMMA TypedTransport ==
  ASSUME Typed, NEW p \in Peer, NEW k \in Negotiation, NEW l \in Line,
         NEW state \in TransportState,
         IceStateChange(p, k, l, state) \/ DtlsStateChange(p, k, l, state)
  PROVE  Typed'
<1>1. AllTransceivers(object')
  BY TransportObjects
<1>2. /\ iceConnectionState' = [iceConnectionState EXCEPT ![p] = ConnectionState(p, object')]
      /\ UNCHANGED <<gathering, signaling, media, timeouts, nullThrows>>
  BY DEF IceStateChange, DtlsStateChange, UpdateConnectionState
<1>. QED BY <1>1, <1>2, TypedConnection

\* The end of a stopped transport keeps the types.
LEMMA TypedStopped ==
  ASSUME Typed, NEW p \in Peer, TransportStopped(p)
  PROVE  Typed'
<1>1. /\ iceConnectionState' = [iceConnectionState EXCEPT ![p] = ConnectionState(p, object)]
      /\ UNCHANGED <<gathering, signaling, media, timeouts, nullThrows>>
      /\ object' = object
  BY DEF TransportStopped, UpdateConnectionState
<1>2. AllTransceivers(object')
  BY <1>1 DEF Typed
<1>. QED BY <1>1, <1>2, TypedConnection

\* close keeps the types.
LEMMA TypedClosed ==
  ASSUME Typed, NEW p \in Peer, Close(p)
  PROVE  Typed'
<1>1. AllTransceivers(object')
  BY CloseObjects
<1>2. /\ signalingState' = [signalingState EXCEPT ![p] = "closed"]
      /\ UNCHANGED <<gathering, localDescription, remoteDescription, media,
                     timeouts, iceConnectionState, nullThrows>>
  BY DEF Close
<1>. QED BY <1>1, <1>2 DEF Typed, gathering, media, timeouts

\* What the loop of the emission sends, and what it leaves, are events.
LEMMA LoopedTypes ==
  ASSUME Typed, NEW p \in Peer
  PROVE  Looped(p) \in Seq(Event) /\ Kept(p) \in Seq(Event)
<1>1. buffer[p] \in Seq(Event)
  BY DEF Typed
<1>2. CASE LoopThrows(p)
  <2>1. /\ NullsIn(buffer[p]) \subseteq 1 .. Len(buffer[p]) /\ NullsIn(buffer[p]) # {}
        /\ Len(buffer[p]) \in Nat
    BY <1>1, <1>2 DEF LoopThrows, NullsIn
  <2>2. PICK i \in NullsIn(buffer[p]) : \A j \in NullsIn(buffer[p]) : i <= j
    BY <2>1, Smallest
  <2> DEFINE first == CHOOSE m \in NullsIn(buffer[p]) :
                        \A j \in NullsIn(buffer[p]) : m <= j
  <2>3. first \in NullsIn(buffer[p])
    BY <2>2
  <2>4. first \in 1 .. Len(buffer[p])
    BY <2>1, <2>3
  <2> HIDE DEF first
  <2>5. SubSeq(buffer[p], 1, first) \in Seq(Event)
    BY <1>1, <2>4
  <2>6. Looped(p) = SubSeq(buffer[p], 1, first) /\ Kept(p) = buffer[p]
    BY <1>2 DEF Looped, Kept, first
  <2>. QED BY <1>1, <2>5, <2>6
<1>3. CASE ~LoopThrows(p)
  BY <1>1, <1>3 DEF Looped, Kept
<1>. QED BY <1>2, <1>3

\* The timeouts keep the types.
LEMMA TypedTimed ==
  ASSUME Typed, tasks \in [Peer -> Seq(ValidTask)], NEW p \in Peer,
         RunTask(p) \/ RunFlush(p)
  PROVE  Typed'
<1>1. UNCHANGED <<signaling, media, iceConnectionState, object, nullThrows>>
  BY DEF RunTask, RunFlush
<1>2. /\ buffer' \in [Peer -> Seq(Event)] /\ emitted' \in [Peer -> Seq(Event)]
      /\ iceGatheringState' \in [Peer -> {"new", "gathering", "complete"}]
      /\ DOMAIN described' = Peer
  <2>1. \/ UNCHANGED <<buffer, emitted, iceGatheringState, described>>
        \/ \E state \in {iceGatheringState[p], "gathering"} : EmitBufferedCandidates(p, state)
    BY DEF RunTask, RunFlush, gathering
  <2>2. CASE UNCHANGED <<buffer, emitted, iceGatheringState, described>>
    BY <2>2 DEF Typed
  <2>3. ASSUME NEW state \in {iceGatheringState[p], "gathering"},
               EmitBufferedCandidates(p, state)
        PROVE  <1>2
    <3>1. /\ described' = [described EXCEPT ![p] = Written(@, Looped(p))]
          /\ emitted' = [emitted EXCEPT ![p] = @ \o Looped(p)]
          /\ buffer' = [buffer EXCEPT ![p] = Kept(p)]
          /\ iceGatheringState' = [iceGatheringState EXCEPT ![p] = Gathering(p, state, object)]
      BY <2>3 DEF EmitBufferedCandidates
    <3>2. /\ iceGatheringState \in [Peer -> {"new", "gathering", "complete"}]
          /\ buffer \in [Peer -> Seq(Event)] /\ emitted \in [Peer -> Seq(Event)]
          /\ DOMAIN described = Peer
      BY DEF Typed
    <3>3. Gathering(p, state, object) \in {"new", "gathering", "complete"}
      BY <3>2 DEF Gathering
    <3>. QED BY <3>1, <3>2, <3>3, LoopedTypes
  <2>. QED BY <2>1, <2>2, <2>3
<1>3. DOMAIN tasks' = Peer /\ DOMAIN flushes' = Peer
  BY DEF RunTask, RunFlush, Typed
<1>4. announced' \in [Peer -> [streams : Nat, onaddstream : Nat, ontrack : Nat]]
  <2>1. announced \in [Peer -> [streams : Nat, onaddstream : Nat, ontrack : Nat]]
    BY DEF Typed
  <2>2. \/ announced' = announced
        \/ \E calls \in {"onaddstream", "ontrack"} :
             announced' = [announced EXCEPT ![p][calls] = @ + 1]
    BY DEF RunTask, RunFlush
  <2>3. ASSUME NEW calls \in {"onaddstream", "ontrack"},
               announced' = [announced EXCEPT ![p][calls] = @ + 1]
        PROVE  <1>4
    <3> DEFINE new == [announced[p] EXCEPT ![calls] = announced[p][calls] + 1]
    <3>1. announced' = [announced EXCEPT ![p] = new]
      BY <2>3
    <3>2. announced[p] \in [streams : Nat, onaddstream : Nat, ontrack : Nat]
      BY <2>1
    <3>3. new \in [streams : Nat, onaddstream : Nat, ontrack : Nat]
      <4>1. CASE calls = "onaddstream"
        BY <3>2, <4>1
      <4>2. CASE calls = "ontrack"
        <5>1. new = [announced[p] EXCEPT !.ontrack = announced[p].ontrack + 1]
          BY <4>2
        <5>2. announced[p].ontrack + 1 \in Nat
          BY <3>2
        <5>. QED BY <3>2, <5>1, <5>2
      <4>. QED BY <4>1, <4>2
    <3> HIDE DEF new
    <3>. QED BY <2>1, <3>1, <3>3
  <2>. QED BY <2>1, <2>2, <2>3
<1>. QED BY <1>1, <1>2, <1>3, <1>4 DEF Typed, signaling, media

\* onlocalcandidate keeps the types.
LEMMA TypedGathered ==
  ASSUME Typed, NEW p \in Peer, NEW k \in Negotiation, NEW l \in Line,
         NEW end \in BOOLEAN, LocalCandidate(p, k, l, end)
  PROVE  Typed'
<1>1. AllTransceivers(object')
  BY CandidateObjects
<1>2. UNCHANGED <<signaling, media, timeouts, iceConnectionState, nullThrows>>
  BY DEF LocalCandidate
<1> DEFINE e == [k |-> k, l |-> l,
                 n |-> IF end THEN 0 ELSE object[<<p, k, l>>].found + 1]
<1>3. e \in Event /\ Null \in Event
  <2>1. object[<<p, k, l>>].found + 1 \in Nat
    BY ObjectTypes
  <2>. QED BY <2>1 DEF Event, Candidate
<1>4. \E after \in {<<>>, <<e>>, <<e, Null>>} :
        \/ /\ buffer' = [buffer EXCEPT ![p] = @ \o after]
           /\ UNCHANGED <<iceGatheringState, described, emitted>>
        \/ /\ described' = [described EXCEPT ![p] = Written(@, Looped(p))]
           /\ emitted' = [emitted EXCEPT ![p] = @ \o Looped(p) \o after]
           /\ buffer' = [buffer EXCEPT ![p] = Kept(p)]
           /\ \/ iceGatheringState' = iceGatheringState
              \/ iceGatheringState' = [iceGatheringState EXCEPT ![p] = "complete"]
              \/ iceGatheringState' = [iceGatheringState EXCEPT ![p] = @]
        \/ UNCHANGED gathering
  BY DEF LocalCandidate
<1> HIDE DEF e
<1>5. \A after \in {<<>>, <<e>>, <<e, Null>>} : after \in Seq(Event)
  <2>1. <<>> \in Seq(Event) /\ <<e>> \in Seq(Event) /\ <<e, Null>> \in Seq(Event)
    BY <1>3
  <2>. QED BY <2>1
<1>6. /\ iceGatheringState \in [Peer -> {"new", "gathering", "complete"}]
      /\ buffer \in [Peer -> Seq(Event)] /\ emitted \in [Peer -> Seq(Event)]
      /\ DOMAIN described = Peer
  BY DEF Typed
<1>7. /\ iceGatheringState' \in [Peer -> {"new", "gathering", "complete"}]
      /\ buffer' \in [Peer -> Seq(Event)] /\ emitted' \in [Peer -> Seq(Event)]
      /\ DOMAIN described' = Peer
  <2>1. PICK after \in Seq(Event) :
          \/ /\ buffer' = [buffer EXCEPT ![p] = @ \o after]
             /\ UNCHANGED <<iceGatheringState, described, emitted>>
          \/ /\ described' = [described EXCEPT ![p] = Written(@, Looped(p))]
             /\ emitted' = [emitted EXCEPT ![p] = @ \o Looped(p) \o after]
             /\ buffer' = [buffer EXCEPT ![p] = Kept(p)]
             /\ \/ iceGatheringState' = iceGatheringState
                \/ iceGatheringState' = [iceGatheringState EXCEPT ![p] = "complete"]
                \/ iceGatheringState' = [iceGatheringState EXCEPT ![p] = @]
          \/ UNCHANGED gathering
    BY <1>4, <1>5
  <2>2. CASE /\ buffer' = [buffer EXCEPT ![p] = @ \o after]
             /\ UNCHANGED <<iceGatheringState, described, emitted>>
    BY <1>6, <2>2
  <2>3. CASE /\ described' = [described EXCEPT ![p] = Written(@, Looped(p))]
             /\ emitted' = [emitted EXCEPT ![p] = @ \o Looped(p) \o after]
             /\ buffer' = [buffer EXCEPT ![p] = Kept(p)]
             /\ \/ iceGatheringState' = iceGatheringState
                \/ iceGatheringState' = [iceGatheringState EXCEPT ![p] = "complete"]
                \/ iceGatheringState' = [iceGatheringState EXCEPT ![p] = @]
    <3>1. emitted[p] \o Looped(p) \o after \in Seq(Event)
      BY <1>6, LoopedTypes
    <3>. QED BY <1>6, <2>3, <3>1, LoopedTypes
  <2>4. CASE UNCHANGED gathering
    BY <1>6, <2>4 DEF gathering
  <2>. QED BY <2>1, <2>2, <2>3, <2>4
<1>. QED BY <1>1, <1>2, <1>7 DEF Typed, signaling, media, timeouts

-----------------------------------------------------------------------------
(* The descriptions.                                                        *)

\* The gatherers that are made stay made, and those of this negotiation.
LEMMA MadeStays ==
  ASSUME Typed, NEW p \in Peer, FirstMade(p),
         negotiations'[p] = negotiations[p], pendingOffer'[p] = pendingOffer[p],
         transceivers'[p] = transceivers[p],
         \A k \in Negotiation, l \in Line :
           SameGatherer(object[<<p, k, l>>], object'[<<p, k, l>>]),
         iceGatheringState'[p] = "complete" => iceGatheringState[p] = "complete"
  PROVE  FirstMade(p)'
BY PeerTypes DEF FirstMade, SameGatherer

\* A step that moves no transport of a peer leaves a reported connection true.
LEMMA ConnectedStays ==
  ASSUME Typed, NEW p \in Peer, Connected(p),
         negotiations'[p] = negotiations[p], transceivers'[p] = transceivers[p],
         iceConnectionState'[p] = iceConnectionState[p],
         \A k \in Negotiation, l \in Line :
           SameTransports(object[<<p, k, l>>], object'[<<p, k, l>>])
  PROVE  Connected(p)'
<1> SUFFICES ASSUME iceConnectionState'[p] = "connected", negotiations'[p] = 1,
                    NEW l \in Line, transceivers[p][l] # 0
             PROVE  /\ object'[<<p, transceivers[p][l], l>>].ice \notin OnTheWay
                    /\ object'[<<p, transceivers[p][l], l>>].dtls \notin OnTheWay
  BY DEF Connected, OnTheWay
<1>1. transceivers[p][l] \in Negotiation
  BY LineTypes
<1>. QED BY <1>1 DEF Connected, SameTransports

\* createOffer: the transceivers are in the pending offer.
LEMMA SignaledOffer ==
  ASSUME Typed, NEW p \in Peer, EventsInv(p), SignalingInv(p), SilentBefore(p),
         NEW options, CreateOffer(p, options)
  PROVE  SignalingInv(p)'
<1>1. /\ negotiations' = [negotiations EXCEPT ![p] = @ + 1]
      /\ UNCHANGED <<signalingState, iceGatheringState, localDescription,
                     remoteDescription, transceivers, iceConnectionState>>
  BY NewObjects DEF CreateOffer, gathering, signaling
<1>2. /\ negotiations'[p] = negotiations[p] + 1 /\ negotiations[p] \in Nat
      /\ negotiations'[p] # 0 /\ (negotiations'[p] = 1 <=> negotiations[p] = 0)
  BY <1>1, PeerTypes
<1>3. \A k \in Negotiation, l \in Line :
        \/ object'[<<p, k, l>>] = object[<<p, k, l>>]
        \/ /\ k = negotiations[p] + 1
           /\ object'[<<p, k, l>>].role = "none"
           /\ \A list \in pendingOffer'[p] : list[l] = k
  <2> SUFFICES ASSUME NEW k \in Negotiation, NEW l \in Line,
                      object'[<<p, k, l>>] # object[<<p, k, l>>]
               PROVE  /\ k = negotiations[p] + 1
                      /\ object'[<<p, k, l>>].role = "none"
                      /\ \A list \in pendingOffer'[p] : list[l] = k
    OBVIOUS
  <2>1. <<p, k, l>> \in DOMAIN object
    BY ObjectsExist
  <2>2. k = negotiations[p] + 1 /\ object'[<<p, k, l>>].role = "none"
    <3>1. \A o \in DOMAIN object :
            \/ object'[o] = object[o]
            \/ o[1] = p /\ o[2] = negotiations[p] + 1 /\ object'[o].role = "none"
      BY NewObjects
    <3>. QED BY <2>1, <3>1
  <2> DEFINE lines == OfferedLines(FirstStream(p), options)
  <2>3. /\ pendingOffer' = [pendingOffer EXCEPT ![p] =
             {[m \in Line |-> IF m <= Len(lines) THEN negotiations[p] + 1 ELSE 0]}]
        /\ \A o \in DOMAIN object : ~(o[3] <= Len(lines)) => object'[o] = object[o]
    BY DEF CreateOffer
  <2> HIDE DEF lines
  <2>4. l <= Len(lines)
    BY <2>1, <2>3
  <2>. QED BY <2>2, <2>3, <2>4 DEF Typed
<1>4. pendingOffer'[p] # {}
  BY DEF CreateOffer, Typed
<1>5. Fresh(p)' => Fresh(p)
  BY <1>2 DEF Fresh
<1>6. Untouched(p)'
  BY <1>1, <1>2, <1>3, <1>5 DEF SignalingInv, Untouched
<1>7. FirstMade(p)'
  <2> SUFFICES ASSUME negotiations[p] = 0
               PROVE  /\ \A l \in Line : object'[<<p, 1, l>>].gatherer # "none" =>
                           /\ pendingOffer'[p] # {}
                           /\ \A list \in pendingOffer'[p] : list[l] = 1
                      /\ iceGatheringState'[p] # "complete"
    BY <1>2 DEF FirstMade
  <2>1. iceGatheringState[p] = "new"
    BY DEF SignalingInv, Untouched, Fresh, SilentBefore
  <2>2. \A l \in Line : object[<<p, 1, l>>].gatherer = "none"
    BY <1>2, PeerTypes DEF EventsInv, Begun
  <2>. QED BY <1>1, <1>3, <1>4, <2>1, <2>2, PeerTypes
<1>8. Agreed(p)'
  BY <1>1 DEF SignalingInv, Agreed
<1>9. Started(p)'
  <2>1. \A l \in Line : transceivers[p][l] # 0 =>
          object'[<<p, transceivers[p][l], l>>] = object[<<p, transceivers[p][l], l>>]
    BY <1>2, <1>3, LineTypes
  <2>. QED BY <1>1, <2>1, StartedStays DEF SignalingInv
<1>10. Connected(p)'
  BY <1>1, <1>2 DEF SignalingInv, Untouched, Fresh, Connected
<1>. QED BY <1>6, <1>7, <1>8, <1>9, <1>10 DEF SignalingInv

\* The lines of an offer are at most all lines.
LEMMA OfferLength ==
  ASSUME NEW p, NEW list
  PROVE  OfferOf(p, list).type = "offer" /\ Len(OfferOf(p, list).sections) \in 0 .. NumLines
<1> DEFINE T == {m \in Line : list[m] # 0}
           f == [l \in T |-> <<p, list[l], l>>]
<1>1. NumLines \in Nat /\ IsFiniteSet(Line) /\ Cardinality(Line) = NumLines
  BY BoundsAssumption, FS_Interval DEF Line
<1>2. IsFiniteSet(T) /\ Cardinality(T) <= NumLines /\ Cardinality(T) \in Nat
  BY <1>1, FS_Subset, FS_CardinalityType
<1>3. f \in Surjection(T, Objects(p, list))
  BY DEF Surjection, Objects
<1>4. IsFiniteSet(Objects(p, list)) /\ Cardinality(Objects(p, list)) <= Cardinality(T)
  <2> HIDE DEF T, f
  <2>. QED BY <1>2, <1>3, FS_Surjection
<1>5. Cardinality(Objects(p, list)) \in 0 .. NumLines
  <2>1. Cardinality(Objects(p, list)) \in Nat
    BY <1>4, FS_CardinalityType
  <2> HIDE DEF T
  <2>. QED BY <1>1, <1>2, <1>4, <2>1
<1>. QED BY <1>5 DEF OfferOf

\* After an offer is set the first negotiation is not fresh any more.
LEMMA SignaledLocalOffer ==
  ASSUME Typed, NEW p \in Peer, SignalingInv(p), SetsLocalOffer(p)
  PROVE  SignalingInv(p)'
<1>1. PICK d, has :
        /\ SetLocalOffer(p, d, has)
        /\ \/ pendingOffer[p] # {} /\ \E list : d = OfferOf(p, list)
           \/ /\ pendingOffer[p] = {} /\ signalingState[p] = "have-local-offer"
              /\ d = localDescription[p]
  BY DEF SetsLocalOffer
<1>2. /\ localDescription' = [localDescription EXCEPT ![p] = d]
      /\ signalingState' = [signalingState EXCEPT ![p] = "have-local-offer"]
      /\ UNCHANGED <<remoteDescription, negotiations, iceConnectionState>>
      /\ \/ iceGatheringState' = [iceGatheringState EXCEPT ![p] =
                                    IF @ = "new" THEN "gathering" ELSE @]
         \/ iceGatheringState' = iceGatheringState
  BY <1>1 DEF SetLocalOffer, LocalDescriptionSet
<1>3. /\ localDescription'[p] = d /\ signalingState'[p] = "have-local-offer"
      /\ iceGatheringState'[p] = "complete" => iceGatheringState[p] = "complete"
  BY <1>2 DEF Typed
<1>4. \A k \in Negotiation, l \in Line :
        /\ SameGatherer(object[<<p, k, l>>], object'[<<p, k, l>>])
        /\ SameTransports(object[<<p, k, l>>], object'[<<p, k, l>>])
  <2>1. \A o \in DOMAIN object : /\ SameGatherer(object[o], object'[o])
                                 /\ SameTransports(object[o], object'[o])
    BY <1>1, LocalOfferObjects
  <2>. QED BY <2>1, ObjectsExist
<1>5. d.type = "offer" /\ Len(d.sections) \in 0 .. NumLines
  BY <1>1, OfferLength DEF SignalingInv, Agreed
<1>6. Agreed(p)'
  BY <1>2, <1>3, <1>5 DEF SignalingInv, Agreed
<1>7. Started(p)'
  BY <1>3 DEF Started
<1>8. CASE pendingOffer[p] # {}
  <2>1. PICK list \in pendingOffer[p] :
          /\ transceivers' = [transceivers EXCEPT ![p] = list]
          /\ pendingOffer' = [pendingOffer EXCEPT ![p] = {}]
    BY <1>1, <1>8 DEF SetLocalOffer
  <2>2. transceivers'[p] = list /\ pendingOffer'[p] = {} /\ negotiations[p] # 0
    BY <1>8, <2>1 DEF Typed, SignalingInv, Untouched
  <2>3. Untouched(p)'
    BY <1>2, <2>2 DEF Untouched, Fresh
  <2>4. FirstMade(p)'
    BY <1>2, <1>3, <1>4, <2>2, PeerTypes DEF SignalingInv, FirstMade, SameGatherer
  <2>5. Connected(p)'
    BY <1>2, <1>8 DEF SignalingInv, Untouched, Fresh, Connected
  <2>. QED BY <1>6, <1>7, <2>3, <2>4, <2>5 DEF SignalingInv
<1>9. CASE pendingOffer[p] = {}
  <2>1. signalingState[p] = "have-local-offer"
        /\ UNCHANGED <<transceivers, pendingOffer>>
    BY <1>1, <1>9 DEF SetLocalOffer
  <2>2. Untouched(p)'
    BY <1>2, <2>1 DEF SignalingInv, Untouched, Fresh
  <2>3. FirstMade(p)'
    BY <1>2, <1>3, <1>4, <2>1, MadeStays DEF SignalingInv
  <2>4. Connected(p)'
    BY <1>2, <1>4, <2>1, ConnectedStays DEF SignalingInv
  <2>. QED BY <1>6, <1>7, <2>2, <2>3, <2>4 DEF SignalingInv
<1>. QED BY <1>8, <1>9

\* An answer: each line of the offer that is not rejected is started.
LEMMA SignaledLocalAnswer ==
  ASSUME Typed, NEW p \in Peer, SignalingInv(p), SetsLocalAnswer(p)
  PROVE  SignalingInv(p)'
<1>1. PICK has \in BOOLEAN : SetLocalAnswer(p, AnswerOf(p), has)
  BY DEF SetsLocalAnswer
<1>2. /\ signalingState[p] = "have-remote-offer" /\ remoteDescription[p].type = "offer"
      /\ ~Fresh(p)
  BY DEF SetsLocalAnswer, SignalingInv, Agreed, Untouched
<1>3. /\ UNCHANGED <<remoteDescription, negotiations, iceConnectionState,
                     transceivers, pendingOffer>>
      /\ \/ iceGatheringState' = [iceGatheringState EXCEPT ![p] =
                                    IF @ = "new" THEN "gathering" ELSE @]
         \/ iceGatheringState' = iceGatheringState
  BY <1>1 DEF SetLocalAnswer, LocalDescriptionSet, gathering, signaling
<1>4. iceGatheringState'[p] = "complete" => iceGatheringState[p] = "complete"
  BY <1>3 DEF Typed
<1>5. \A o \in DOMAIN object :
        /\ SameGatherer(object[o], object'[o])
        /\ SameTransports(object[o], object'[o])
        /\ /\ o \in Objects(p, transceivers[p])
           /\ \A l \in DOMAIN remoteDescription[p].sections : transceivers[p][l] # 0
           /\ o[3] \in DOMAIN remoteDescription[p].sections
           /\ ~remoteDescription[p].sections[o[3]].rejected
           => object'[o].role = "controlled"
  BY <1>1, LocalAnswerObjects
<1>6. \A k \in Negotiation, l \in Line :
        /\ SameGatherer(object[<<p, k, l>>], object'[<<p, k, l>>])
        /\ SameTransports(object[<<p, k, l>>], object'[<<p, k, l>>])
  BY <1>5, ObjectsExist
<1>7. Untouched(p)'
  BY <1>2, <1>3 DEF SignalingInv, Untouched, Fresh
<1>8. FirstMade(p)' /\ Connected(p)'
  BY <1>3, <1>4, <1>6, MadeStays, ConnectedStays DEF SignalingInv
<1>9. CASE /\ \A l \in DOMAIN remoteDescription[p].sections : transceivers[p][l] # 0
           /\ localDescription' = [localDescription EXCEPT ![p] = AnswerOf(p)]
           /\ signalingState' = [signalingState EXCEPT ![p] = "stable"]
  <2>1. localDescription'[p].type = "answer" /\ signalingState'[p] = "stable"
    BY <1>9 DEF Typed, AnswerOf
  <2>2. Agreed(p)'
    BY <1>3, <2>1 DEF SignalingInv, Agreed
  <2>3. LinesStarted(p)'
    <3> SUFFICES ASSUME NEW l \in Line, Accepts(p, l)
                 PROVE  /\ transceivers[p][l] # 0
                        /\ object'[<<p, transceivers[p][l], l>>].role = "controlled"
      BY <1>2, <1>3 DEF LinesStarted, Accepts
    <3>1. transceivers[p][l] # 0 /\ transceivers[p][l] \in Negotiation
      BY <1>9, LineTypes DEF Accepts
    <3> DEFINE o == <<p, transceivers[p][l], l>>
    <3>2. o \in DOMAIN object /\ o \in Objects(p, transceivers[p]) /\ o[3] = l
      BY <3>1, ObjectsExist DEF Objects
    <3> HIDE DEF o
    <3>3. object'[o].role = "controlled"
      BY <1>5, <1>9, <3>2 DEF Accepts
    <3>. QED BY <3>1, <3>3 DEF o
  <2>4. Started(p)'
    BY <1>2, <1>3, <2>1, <2>3 DEF Started
  <2>. QED BY <1>7, <1>8, <2>2, <2>4 DEF SignalingInv
<1>10. CASE UNCHANGED <<localDescription, signalingState>>
  <2>1. Agreed(p)'
    BY <1>3, <1>10 DEF SignalingInv, Agreed
  <2>2. Started(p)'
    BY <1>2, <1>10 DEF Started
  <2>. QED BY <1>7, <1>8, <2>1, <2>2 DEF SignalingInv
<1>11. \/ /\ \A l \in DOMAIN remoteDescription[p].sections : transceivers[p][l] # 0
          /\ localDescription' = [localDescription EXCEPT ![p] = AnswerOf(p)]
          /\ signalingState' = [signalingState EXCEPT ![p] = "stable"]
       \/ UNCHANGED <<localDescription, signalingState>>
  BY <1>1 DEF SetLocalAnswer, LocalDescriptionSet, signaling
<1>. QED BY <1>9, <1>10, <1>11

\* A description of the remote end is about lines there are.
LEMMA RemoteLines ==
  ASSUME NEW type, NEW k, NEW lengths, lengths \subseteq 0 .. NumLines,
         NEW d \in RemoteDescriptions(type, k, lengths)
  PROVE  d.type = type /\ DOMAIN d.sections \subseteq Line
<1>1. PICK n \in lengths : \E rejected \in [1 .. n -> BOOLEAN] :
        d = [type |-> type, sections |-> [l \in DOMAIN rejected |->
                                            RemoteSection(k, l, rejected[l])]]
  BY DEF RemoteDescriptions
<1>2. d.type = type /\ DOMAIN d.sections = 1 .. n
  BY <1>1
<1>3. n \in 0 .. NumLines /\ NumLines \in Nat
  BY BoundsAssumption
<1>. QED BY <1>2, <1>3 DEF Line

\* An offer of the remote end: its transceivers are installed at once.
LEMMA SignaledOfferReceived ==
  ASSUME Typed, NEW p \in Peer, EventsInv(p), SignalingInv(p), SilentBefore(p),
         GetsOffer(p)
  PROVE  SignalingInv(p)'
<1>1. PICK d \in RemoteDescriptions("offer", negotiations[p] + 1, Line) :
        SetRemoteOffer(p, d)
  BY DEF GetsOffer
<1>2. d.type = "offer" /\ DOMAIN d.sections \subseteq Line
  <2>1. Line \subseteq 0 .. NumLines
    BY BoundsAssumption DEF Line
  <2>. QED BY <2>1, RemoteLines
<1>3. /\ remoteDescription' = [remoteDescription EXCEPT ![p] = d]
      /\ signalingState' = [signalingState EXCEPT ![p] = "have-remote-offer"]
      /\ UNCHANGED <<iceGatheringState, localDescription, pendingOffer,
                     iceConnectionState>>
  BY <1>1 DEF SetRemoteOffer, RemoteDescriptionSet, gathering
<1>4. /\ negotiations'[p] = negotiations[p] + 1 /\ negotiations[p] \in Nat
      /\ negotiations'[p] # 0 /\ (negotiations'[p] = 1 <=> negotiations[p] = 0)
  <2>1. negotiations' = [negotiations EXCEPT ![p] = @ + 1]
    BY <1>1, NewObjects
  <2>. QED BY <2>1, PeerTypes
<1>5. remoteDescription'[p] = d /\ signalingState'[p] = "have-remote-offer"
  BY <1>3 DEF Typed
<1>6. Untouched(p)'
  BY <1>3, <1>4 DEF SignalingInv, Untouched, Fresh
<1>7. FirstMade(p)'
  <2> SUFFICES ASSUME negotiations[p] = 0
               PROVE  /\ \A l \in Line : object'[<<p, 1, l>>].gatherer # "none" =>
                           transceivers'[p][l] = 1
                      /\ pendingOffer'[p] = {}
                      /\ iceGatheringState'[p] # "complete"
    BY <1>4 DEF FirstMade
  <2>1. iceGatheringState[p] = "new" /\ pendingOffer[p] = {}
    BY DEF SignalingInv, Untouched, Fresh, SilentBefore
  <2>2. \A l \in Line : object[<<p, 1, l>>].gatherer = "none"
    BY <1>4, PeerTypes DEF EventsInv, Begun
  <2>3. \A l \in Line : object'[<<p, 1, l>>] # object[<<p, 1, l>>] => transceivers'[p][l] = 1
    <3> DEFINE accepted == {l \in DOMAIN d.sections : ~d.sections[l].rejected}
    <3>1. /\ transceivers' = [transceivers EXCEPT ![p] =
               [l \in Line |-> IF l \in accepted THEN negotiations[p] + 1 ELSE @[l]]]
          /\ \A o \in DOMAIN object : o[3] \notin accepted => object'[o] = object[o]
      BY <1>1 DEF SetRemoteOffer
    <3> HIDE DEF accepted
    <3>2. \A l \in Line : l \notin accepted => object'[<<p, 1, l>>] = object[<<p, 1, l>>]
      BY <3>1, ObjectsExist, PeerTypes
    <3>3. \A l \in accepted \intersect Line : transceivers'[p][l] = negotiations[p] + 1
      BY <3>1 DEF Typed
    <3>. QED BY <1>4, <3>2, <3>3
  <2>. QED BY <1>3, <2>1, <2>2, <2>3
<1>8. Agreed(p)'
  BY <1>2, <1>5 DEF Agreed
<1>9. Started(p)'
  BY <1>5 DEF Started
<1>10. Connected(p)'
  BY <1>3, <1>4 DEF SignalingInv, Untouched, Fresh, Connected
<1>. QED BY <1>6, <1>7, <1>8, <1>9, <1>10 DEF SignalingInv

\* An answer of the remote end: the lines it accepts are started.
LEMMA SignaledAnswerReceived ==
  ASSUME Typed, NEW p \in Peer, SignalingInv(p), GetsAnswer(p)
  PROVE  SignalingInv(p)'
<1>1. PICK d \in RemoteDescriptions("answer", negotiations[p],
                    {Len(localDescription[p].sections)}) : SetRemoteAnswer(p, d)
  BY DEF GetsAnswer
<1>2. /\ signalingState[p] = "have-local-offer" /\ localDescription[p].type = "offer"
      /\ Len(localDescription[p].sections) \in 0 .. NumLines /\ ~Fresh(p)
  BY DEF GetsAnswer, SignalingInv, Agreed, Untouched
<1>3. d.type = "answer" /\ DOMAIN d.sections \subseteq Line
  BY <1>2, RemoteLines
<1>4. UNCHANGED <<localDescription, negotiations, iceConnectionState,
                  transceivers, pendingOffer, iceGatheringState>>
  BY <1>1 DEF SetRemoteAnswer, RemoteDescriptionSet, gathering, signaling
<1>5. \A o \in DOMAIN object :
        /\ SameGatherer(object[o], object'[o])
        /\ SameTransports(object[o], object'[o])
        /\ /\ o \in Objects(p, transceivers[p])
           /\ \A l \in DOMAIN d.sections : ~d.sections[l].rejected => transceivers[p][l] # 0
           /\ o[3] \in DOMAIN d.sections /\ ~d.sections[o[3]].rejected
           => object'[o].role = "controlling"
  BY <1>1, RemoteAnswerObjects
<1>6. \A k \in Negotiation, l \in Line :
        /\ SameGatherer(object[<<p, k, l>>], object'[<<p, k, l>>])
        /\ SameTransports(object[<<p, k, l>>], object'[<<p, k, l>>])
  BY <1>5, ObjectsExist
<1>7. Untouched(p)'
  BY <1>2, <1>4 DEF SignalingInv, Untouched, Fresh
<1>8. FirstMade(p)' /\ Connected(p)'
  BY <1>4, <1>6, MadeStays, ConnectedStays DEF SignalingInv
<1>9. CASE /\ \A l \in DOMAIN d.sections : ~d.sections[l].rejected => transceivers[p][l] # 0
           /\ remoteDescription' = [remoteDescription EXCEPT ![p] = d]
           /\ signalingState' = [signalingState EXCEPT ![p] = "stable"]
  <2>1. remoteDescription'[p] = d /\ signalingState'[p] = "stable"
    BY <1>9 DEF Typed
  <2>2. Agreed(p)'
    BY <1>3, <2>1 DEF Agreed
  <2>3. LinesStarted(p)'
    <3> SUFFICES ASSUME NEW l \in Line, l \in DOMAIN d.sections, ~d.sections[l].rejected
                 PROVE  /\ transceivers[p][l] # 0
                        /\ object'[<<p, transceivers[p][l], l>>].role = "controlling"
      BY <1>3, <1>4, <2>1 DEF LinesStarted, Accepts
    <3>1. transceivers[p][l] # 0 /\ transceivers[p][l] \in Negotiation
      BY <1>9, LineTypes
    <3> DEFINE o == <<p, transceivers[p][l], l>>
    <3>2. o \in DOMAIN object /\ o \in Objects(p, transceivers[p]) /\ o[3] = l
      BY <3>1, ObjectsExist DEF Objects
    <3> HIDE DEF o
    <3>3. object'[o].role = "controlling"
      BY <1>5, <1>9, <3>2
    <3>. QED BY <3>1, <3>3 DEF o
  <2>4. Started(p)'
    BY <1>2, <1>3, <1>4, <2>1, <2>3 DEF Started
  <2>. QED BY <1>7, <1>8, <2>2, <2>4 DEF SignalingInv
<1>10. CASE UNCHANGED <<remoteDescription, signalingState>>
  <2>1. Agreed(p)'
    BY <1>4, <1>10 DEF SignalingInv, Agreed
  <2>2. Started(p)'
    BY <1>2, <1>10 DEF Started
  <2>. QED BY <1>7, <1>8, <2>1, <2>2 DEF SignalingInv
<1>11. \/ /\ \A l \in DOMAIN d.sections : ~d.sections[l].rejected => transceivers[p][l] # 0
          /\ remoteDescription' = [remoteDescription EXCEPT ![p] = d]
          /\ signalingState' = [signalingState EXCEPT ![p] = "stable"]
       \/ UNCHANGED <<remoteDescription, signalingState>>
  BY <1>1 DEF SetRemoteAnswer, RemoteDescriptionSet, signaling
<1>. QED BY <1>9, <1>10, <1>11

\* What close, the transports and the timeouts leave of the descriptions.
SignalingStays(p) ==
  /\ localDescription'[p] = localDescription[p]
  /\ remoteDescription'[p] = remoteDescription[p]
  /\ negotiations'[p] = negotiations[p] /\ pendingOffer'[p] = pendingOffer[p]
  /\ transceivers'[p] = transceivers[p]
  /\ signalingState'[p] \in {signalingState[p], "closed"}

\* A step that leaves signaling and roles alone leaves the started lines started.
LEMMA AgreedStays ==
  ASSUME Typed, NEW p \in Peer, SignalingInv(p), SignalingStays(p),
         \A l \in Line : transceivers[p][l] # 0 =>
           object'[<<p, transceivers[p][l], l>>].role =
             object[<<p, transceivers[p][l], l>>].role
  PROVE  Agreed(p)' /\ Started(p)'
<1>1. Agreed(p)'
  BY DEF SignalingInv, Agreed, SignalingStays
<1>2. signalingState'[p] = "stable" => signalingState[p] = "stable"
  BY DEF SignalingStays
<1>3. Started(p)'
  BY <1>2, StartedStays DEF SignalingInv, SignalingStays
<1>. QED BY <1>1, <1>3

\* In the first negotiation all gatherers made are done when the transceivers'
\* are, once there is a local description.
LEMMA AllDone ==
  ASSUME Typed, NEW p \in Peer, SignalingInv(p), negotiations[p] = 1,
         localDescription[p].type # "none"
  PROVE  \A l \in Line : object[<<p, 1, l>>].gatherer # "none" =>
           <<p, 1, l>> \in Objects(p, transceivers[p])
<1>1. pendingOffer[p] = {}
  BY DEF SignalingInv, Untouched, Fresh
<1>2. \A l \in Line : object[<<p, 1, l>>].gatherer # "none" => transceivers[p][l] = 1
  BY <1>1 DEF SignalingInv, FirstMade
<1>. QED BY <1>2 DEF Objects

\* onlocalcandidate leaves the signaling of its peer as it is.
LEMMA SignaledCandidate ==
  ASSUME Typed, NEW p \in Peer, EventsInv(p), SignalingInv(p), SilentBefore(p),
         NEW k \in Negotiation, NEW l \in Line, NEW end \in BOOLEAN,
         LocalCandidate(p, k, l, end)
  PROVE  SignalingInv(p)'
<1>1. /\ UNCHANGED <<localDescription, remoteDescription, signalingState, negotiations,
                     pendingOffer, transceivers, iceConnectionState>>
      /\ object[<<p, k, l>>].gatherer = "gathering"
  BY DEF LocalCandidate, signaling, media
<1>2. /\ \A o \in DOMAIN object :
           /\ o # <<p, k, l>> => object'[o] = object[o]
           /\ SameTransports(object[o], object'[o])
           /\ object'[o].role = object[o].role
      /\ object'[<<p, k, l>>].gatherer \in {"gathering", "completed"}
  BY CandidateObjects
<1>3. \A i \in Negotiation, j \in Line :
        /\ SameTransports(object[<<p, i, j>>], object'[<<p, i, j>>])
        /\ object'[<<p, i, j>>].role = object[<<p, i, j>>].role
        /\ object'[<<p, i, j>>].gatherer # "none" => object[<<p, i, j>>].gatherer # "none"
        /\ object'[<<p, i, j>>].gatherer = "gathering" =>
             object[<<p, i, j>>].gatherer = "gathering"
  BY <1>1, <1>2, ObjectsExist
<1>4. k <= negotiations[p] /\ negotiations[p] # 0
  BY <1>1, PeerTypes DEF EventsInv, Begun
<1>5. Untouched(p)'
  BY <1>1, <1>3, <1>4 DEF SignalingInv, Untouched, Fresh
<1>6. FirstMade(p)'
  <2> SUFFICES ASSUME negotiations[p] = 1
               PROVE  /\ \A j \in Line : object'[<<p, 1, j>>].gatherer # "none" =>
                           /\ pendingOffer[p] = {} => transceivers[p][j] = 1
                           /\ \A list \in pendingOffer[p] : list[j] = 1
                      /\ iceGatheringState'[p] = "complete" =>
                           \A j \in Line : object'[<<p, 1, j>>].gatherer # "gathering"
    BY <1>1 DEF FirstMade
  <2>1. \A j \in Line : object'[<<p, 1, j>>].gatherer # "none" =>
          /\ pendingOffer[p] = {} => transceivers[p][j] = 1
          /\ \A list \in pendingOffer[p] : list[j] = 1
    BY <1>3, PeerTypes DEF SignalingInv, FirstMade
  <2>2. CASE iceGatheringState'[p] = "complete" /\ iceGatheringState[p] = "complete"
    BY <1>3, <2>2, PeerTypes DEF SignalingInv, FirstMade
  <2>3. CASE iceGatheringState'[p] = "complete" /\ iceGatheringState[p] # "complete"
    <3>1. AllGathered(p, object') /\ iceGatheringState[p] = "gathering"
      <4>1. iceGatheringState \in [Peer -> {"new", "gathering", "complete"}]
        BY DEF Typed
      <4>2. \/ iceGatheringState' = iceGatheringState
            \/ /\ iceGatheringState[p] = "gathering"
               /\ iceGatheringState' = [iceGatheringState EXCEPT ![p] =
                    IF AllGathered(p, object') /\ ~nullThrows[p] THEN "complete" ELSE @]
        BY DEF LocalCandidate, gathering
      <4>. QED BY <2>3, <4>1, <4>2
    <3>2. localDescription[p].type # "none"
      BY <3>1 DEF SilentBefore
    <3>3. \A j \in Line : object[<<p, 1, j>>].gatherer # "none" =>
            object'[<<p, 1, j>>].gatherer = "completed"
      BY <3>1, <3>2, AllDone DEF AllGathered
    <3>. QED BY <1>3, <2>1, <3>3, PeerTypes
  <2>. QED BY <2>1, <2>2, <2>3
<1>7. Agreed(p)' /\ Started(p)'
  <2>1. SignalingStays(p)
    BY <1>1 DEF SignalingStays
  <2>. QED BY <1>3, <2>1, AgreedStays, LineTypes
<1>8. Connected(p)'
  BY <1>1, <1>3, ConnectedStays DEF SignalingInv
<1>. QED BY <1>5, <1>6, <1>7, <1>8 DEF SignalingInv

\* A timeout may emit the buffer; it leaves the rest as it is.
LEMMA SignaledTimed ==
  ASSUME Typed, NEW p \in Peer, SignalingInv(p), EmissionInv,
         RunTask(p) \/ RunFlush(p)
  PROVE  SignalingInv(p)'
<1>1. UNCHANGED <<localDescription, remoteDescription, signalingState, negotiations,
                  pendingOffer, transceivers, iceConnectionState, object>>
  BY DEF RunTask, RunFlush, signaling, media
<1>2. \/ UNCHANGED <<iceGatheringState, emitted, buffer>>
      \/ /\ localDescription[p].type # "none"
         /\ \E state \in {iceGatheringState[p], "gathering"} : EmitBufferedCandidates(p, state)
  <2>1. CASE RunFlush(p)
    BY <2>1 DEF RunFlush, EmissionInv, EmissionTypes, SilentBefore
  <2>2. CASE RunTask(p) /\ Head(tasks[p]).calls = "success"
    <3>1. tasks[p] \in Seq(ValidTask) /\ tasks[p] # <<>>
      BY <2>2 DEF RunTask, EmissionInv, EmissionTypes
    <3>2. 1 \in DOMAIN tasks[p] /\ tasks[p][1].calls = "success"
      BY <2>2, <3>1
    <3>3. Pending(p)
      BY <3>2 DEF Pending, HasSuccess
    <3>4. localDescription[p].type # "none"
      BY <3>3 DEF EmissionInv, SilentBefore
    <3>. QED BY <2>2, <3>4 DEF RunTask
  <2>3. CASE RunTask(p) /\ Head(tasks[p]).calls # "success"
    BY <2>3 DEF RunTask, gathering
  <2>. QED BY <2>1, <2>2, <2>3
<1>3. CASE UNCHANGED <<iceGatheringState, emitted, buffer>>
  BY <1>1, <1>3 DEF SignalingInv, Untouched, Fresh, FirstMade, Agreed, Started,
     LinesStarted, Accepts, Connected
<1>4. CASE localDescription[p].type # "none"
  <2>1. ~Fresh(p)
    BY <1>4 DEF SignalingInv, Untouched
  <2>2. Untouched(p)'
    BY <1>1, <2>1 DEF Untouched, Fresh
  <2>3. FirstMade(p)'
    <3> SUFFICES ASSUME negotiations[p] = 1, iceGatheringState'[p] = "complete"
                 PROVE  \A l \in Line : object[<<p, 1, l>>].gatherer # "gathering"
      BY <1>1 DEF SignalingInv, FirstMade
    <3>1. CASE iceGatheringState[p] = "complete"
      BY <3>1 DEF SignalingInv, FirstMade
    <3>2. CASE iceGatheringState[p] # "complete"
      <4>1. AllGathered(p, object)
        <5>1. PICK state \in {iceGatheringState[p], "gathering"} :
                EmitBufferedCandidates(p, state)
          BY <1>2, <3>2
        <5>2. Gathering(p, state, object) = "complete"
          BY <5>1 DEF EmitBufferedCandidates, Typed
        <5>. QED BY <3>2, <5>2 DEF Gathering
      <4>. QED BY <1>4, <4>1, AllDone DEF AllGathered
    <3>. QED BY <3>1, <3>2
  <2>4. Agreed(p)' /\ Started(p)' /\ Connected(p)'
    BY <1>1 DEF SignalingInv, Agreed, Started, LinesStarted, Accepts, Connected
  <2>. QED BY <2>2, <2>3, <2>4 DEF SignalingInv
<1>. QED BY <1>2, <1>3, <1>4

\* A connection is reported when every transport that counts has one.
LEMMA ConnectedStates ==
  ASSUME NEW p, NEW obj, ConnectionState(p, obj) = "connected",
         NEW o \in Objects(p, transceivers[p])
  PROVE  obj[o].ice \notin OnTheWay /\ obj[o].dtls \notin OnTheWay
<1> DEFINE states == UNION {{obj[q].ice, obj[q].dtls} : q \in Objects(p, transceivers[p])}
<1>1. "failed" \notin states /\ "connecting" \notin states /\ "checking" \notin states
      /\ "new" \notin states
  BY DEF ConnectionState
<1>2. obj[o].ice \in states /\ obj[o].dtls \in states
  OBVIOUS
<1>. QED BY <1>1, <1>2 DEF OnTheWay

\* _updateConnectionState reports a connection only where all lines have one.
LEMMA ConnectedReported ==
  ASSUME Typed, NEW p \in Peer, transceivers' = transceivers,
         iceConnectionState'[p] = ConnectionState(p, object')
  PROVE  Connected(p)'
<1> SUFFICES ASSUME ConnectionState(p, object') = "connected",
                    NEW l \in Line, transceivers[p][l] # 0
             PROVE  /\ object'[<<p, transceivers[p][l], l>>].ice \notin OnTheWay
                    /\ object'[<<p, transceivers[p][l], l>>].dtls \notin OnTheWay
  BY DEF Connected, OnTheWay
<1>1. <<p, transceivers[p][l], l>> \in Objects(p, transceivers[p])
  BY DEF Objects
<1>. QED BY <1>1, ConnectedStates

\* Transports change state only after a description started them.
LEMMA SignaledTransport ==
  ASSUME Typed, NEW p \in Peer, SignalingInv(p),
         NEW k \in Negotiation, NEW l \in Line, NEW state \in TransportState,
         IceStateChange(p, k, l, state) \/ DtlsStateChange(p, k, l, state)
  PROVE  SignalingInv(p)'
<1>1. /\ UNCHANGED <<localDescription, remoteDescription, signalingState, negotiations,
                     pendingOffer, transceivers, iceGatheringState>>
      /\ iceConnectionState' = [iceConnectionState EXCEPT ![p] = ConnectionState(p, object')]
      /\ object[<<p, k, l>>].role # "none"
  BY DEF IceStateChange, DtlsStateChange, UpdateConnectionState, gathering, signaling, media
<1>2. \A i \in Negotiation, j \in Line :
        /\ SameGatherer(object[<<p, i, j>>], object'[<<p, i, j>>])
        /\ object'[<<p, i, j>>].role = object[<<p, i, j>>].role
  <2>1. \A o \in DOMAIN object : /\ SameGatherer(object[o], object'[o])
                                 /\ object'[o].role = object[o].role
    BY TransportObjects
  <2>. QED BY <2>1, ObjectsExist
<1>3. Untouched(p)'
  BY <1>1 DEF SignalingInv, Untouched, Fresh
<1>4. FirstMade(p)'
  BY <1>1, <1>2, MadeStays DEF SignalingInv
<1>5. Agreed(p)' /\ Started(p)'
  <2>1. SignalingStays(p)
    BY <1>1 DEF SignalingStays
  <2>. QED BY <1>2, <2>1, AgreedStays, LineTypes
<1>6. Connected(p)'
  BY <1>1, ConnectedReported DEF Typed
<1>. QED BY <1>3, <1>4, <1>5, <1>6 DEF SignalingInv

\* The end of a stopped transport leaves the signaling of its peer as it is.
LEMMA SignaledStopped ==
  ASSUME Typed, NEW p \in Peer, SignalingInv(p), TransportStopped(p)
  PROVE  SignalingInv(p)'
<1>1. /\ UNCHANGED <<localDescription, remoteDescription, signalingState, negotiations,
                     pendingOffer, transceivers, iceGatheringState, object>>
      /\ iceConnectionState' = [iceConnectionState EXCEPT ![p] = ConnectionState(p, object)]
      /\ \E l \in Line : transceivers[p][l] # 0
  BY DEF TransportStopped, UpdateConnectionState, gathering, signaling, media, Objects
<1>2. Untouched(p)'
  BY <1>1 DEF SignalingInv, Untouched, Fresh
<1>3. FirstMade(p)' /\ Agreed(p)' /\ Started(p)'
  BY <1>1 DEF SignalingInv, FirstMade, Agreed, Started, LinesStarted, Accepts
<1>4. Connected(p)'
  BY <1>1, ConnectedReported DEF Typed
<1>. QED BY <1>2, <1>3, <1>4 DEF SignalingInv

\* close: the transports of the lines count as closed.
LEMMA SignaledClosed ==
  ASSUME Typed, NEW p \in Peer, SignalingInv(p), Close(p)
  PROVE  SignalingInv(p)'
<1>1. /\ UNCHANGED <<localDescription, remoteDescription, negotiations, pendingOffer,
                     transceivers, iceGatheringState, iceConnectionState, emitted, buffer>>
      /\ signalingState' = [signalingState EXCEPT ![p] = "closed"]
  BY DEF Close, gathering, media
<1>2. \A o \in DOMAIN object :
        /\ SameGatherer(object[o], object'[o])
        /\ object'[o].role = object[o].role
        /\ o \in Objects(p, transceivers[p]) =>
             object'[o].ice = "closed" /\ object'[o].dtls = "closed"
  BY CloseObjects
<1>3. \A i \in Negotiation, j \in Line :
        /\ SameGatherer(object[<<p, i, j>>], object'[<<p, i, j>>])
        /\ object'[<<p, i, j>>].role = object[<<p, i, j>>].role
  BY <1>2, ObjectsExist
<1>4. signalingState'[p] = "closed"
  BY <1>1 DEF Typed
<1>5. Untouched(p)'
  BY <1>1, <1>3, <1>4 DEF SignalingInv, Untouched, Fresh
<1>6. FirstMade(p)'
  BY <1>1, <1>3, MadeStays DEF SignalingInv
<1>7. Agreed(p)' /\ Started(p)'
  <2>1. SignalingStays(p)
    BY <1>1, <1>4 DEF SignalingStays
  <2>. QED BY <1>3, <2>1, AgreedStays, LineTypes
<1>8. Connected(p)'
  <2>1. \A l \in Line : transceivers[p][l] # 0 =>
          /\ <<p, transceivers[p][l], l>> \in Objects(p, transceivers[p])
          /\ <<p, transceivers[p][l], l>> \in DOMAIN object
    BY LineTypes, ObjectsExist DEF Objects
  <2>. QED BY <1>1, <1>2, <2>1 DEF Connected, OnTheWay
<1>. QED BY <1>5, <1>6, <1>7, <1>8 DEF SignalingInv

-----------------------------------------------------------------------------
(* The announcements that wait.                                             *)

\* The announcements that wait in a list of timeouts can be counted.
LEMMA WaitingFinite ==
  ASSUME NEW s \in Seq(ValidTask)
  PROVE  IsFiniteSet(Waiting(s)) /\ Cardinality(Waiting(s)) \in Nat
<1>1. Waiting(s) \in SUBSET (1 .. Len(s)) /\ Len(s) \in Nat
  BY DEF Waiting
<1>2. IsFiniteSet(1 .. Len(s))
  BY <1>1, FS_Interval
<1>. QED BY <1>1, <1>2, FS_Subset, FS_CardinalityType

\* Two queues one behind the other wait for what both wait for.
LEMMA WaitingJoined ==
  ASSUME NEW s \in Seq(ValidTask), NEW t \in Seq(ValidTask)
  PROVE  Cardinality(Waiting(s \o t)) = Cardinality(Waiting(s)) + Cardinality(Waiting(t))
<1> DEFINE shifted == {i \in 1 .. Len(s) + Len(t) : i - Len(s) \in Waiting(t)}
           f == [i \in Waiting(t) |-> i + Len(s)]
<1>1. /\ s \o t \in Seq(ValidTask) /\ Len(s \o t) = Len(s) + Len(t)
      /\ Len(s) \in Nat /\ Len(t) \in Nat
      /\ \A i \in 1 .. Len(s) + Len(t) :
           (s \o t)[i] = IF i <= Len(s) THEN s[i] ELSE t[i - Len(s)]
  OBVIOUS
<1>2. Waiting(s) \subseteq 1 .. Len(s) /\ Waiting(t) \subseteq 1 .. Len(t)
  BY DEF Waiting
<1>3. Waiting(s \o t) = Waiting(s) \union shifted
  <2>1. ASSUME NEW i \in Waiting(s \o t) PROVE i \in Waiting(s) \union shifted
    <3>1. /\ i \in 1 .. Len(s) + Len(t)
          /\ (s \o t)[i].calls \in {"addstream", "onaddstream"}
      BY <1>1, <2>1 DEF Waiting
    <3>2. CASE i <= Len(s)
      BY <1>1, <3>1, <3>2 DEF Waiting
    <3>3. CASE i > Len(s)
      <4>1. i - Len(s) \in 1 .. Len(t) /\ t[i - Len(s)].calls \in {"addstream", "onaddstream"}
        BY <1>1, <3>1, <3>3
      <4>. QED BY <3>1, <4>1 DEF Waiting
    <3>. QED BY <1>1, <3>1, <3>2, <3>3
  <2>2. ASSUME NEW i \in Waiting(s) PROVE i \in Waiting(s \o t)
    <3>1. i \in 1 .. Len(s) + Len(t) /\ (s \o t)[i] = s[i]
      BY <1>1, <1>2, <2>2
    <3>. QED BY <1>1, <2>2, <3>1 DEF Waiting
  <2>3. ASSUME NEW i \in shifted PROVE i \in Waiting(s \o t)
    <3>1. i \in 1 .. Len(s) + Len(t) /\ i - Len(s) \in Waiting(t) /\ i > Len(s)
      BY <1>1, <1>2, <2>3
    <3>2. (s \o t)[i] = t[i - Len(s)]
      BY <1>1, <3>1
    <3>. QED BY <1>1, <3>1, <3>2 DEF Waiting
  <2>. QED BY <2>1, <2>2, <2>3
<1>4. Waiting(s) \intersect shifted = {}
  BY <1>1, <1>2
<1>5. IsFiniteSet(shifted) /\ Cardinality(shifted) = Cardinality(Waiting(t))
  <2>1. f \in [Waiting(t) -> shifted]
    BY <1>1, <1>2
  <2>2. \A i, j \in Waiting(t) : f[i] = f[j] => i = j
    BY <1>1, <1>2
  <2>3. \A j \in shifted : \E i \in Waiting(t) : f[i] = j
    BY <1>1, <1>2
  <2>4. f \in Bijection(Waiting(t), shifted)
    BY <2>1, <2>2, <2>3, Fun_IsBij
  <2>5. ExistsBijection(Waiting(t), shifted)
    BY <2>4, Fun_ExistsBij
  <2>. QED BY <2>5, WaitingFinite, FS_Bijection
<1>6. IsFiniteSet(Waiting(s)) /\ Cardinality(Waiting(s)) \in Nat
      /\ Cardinality(Waiting(t)) \in Nat
  BY WaitingFinite
<1>7. Cardinality(Waiting(s) \union shifted)
        = Cardinality(Waiting(s)) + Cardinality(shifted)
          - Cardinality(Waiting(s) \intersect shifted)
  BY <1>5, <1>6, FS_Union
<1>8. Cardinality(Waiting(s) \intersect shifted) = 0
  BY <1>4, FS_EmptySet
<1>. HIDE DEF shifted, f
<1>9. Cardinality(Waiting(s \o t)) = Cardinality(Waiting(s) \union shifted)
  BY <1>3
<1>. QED BY <1>5, <1>6, <1>7, <1>8, <1>9

\* A list of one timeout holds one announcement or none.
LEMMA WaitingOne ==
  ASSUME NEW x \in ValidTask
  PROVE  /\ <<x>> \in Seq(ValidTask) /\ <<>> \in Seq(ValidTask)
         /\ Cardinality(Waiting(<<x>>)) =
              IF x.calls \in {"addstream", "onaddstream"} THEN 1 ELSE 0
         /\ Cardinality(Waiting(<<>>)) = 0
<1>1. <<x>> \in Seq(ValidTask) /\ <<>> \in Seq(ValidTask)
  OBVIOUS
<1>2. Waiting(<<x>>) = IF x.calls \in {"addstream", "onaddstream"} THEN {1} ELSE {}
  BY DEF Waiting
<1>3. Waiting(<<>>) = {}
  BY DEF Waiting
<1>. QED BY <1>1, <1>2, <1>3, FS_EmptySet, FS_Singleton

\* Running the first timeout takes its announcements off those that wait.
LEMMA WaitingTail ==
  ASSUME NEW s \in Seq(ValidTask), s # <<>>
  PROVE  /\ Head(s) \in ValidTask /\ Tail(s) \in Seq(ValidTask)
         /\ Cardinality(Waiting(s)) = Cardinality(Waiting(<<Head(s)>>))
                                        + Cardinality(Waiting(Tail(s)))
<1>1. Head(s) \in ValidTask /\ Tail(s) \in Seq(ValidTask)
  OBVIOUS
<1>2. <<Head(s)>> \in Seq(ValidTask)
  BY <1>1
<1>3. s = <<Head(s)>> \o Tail(s)
  BY <1>1
<1>4. Cardinality(Waiting(<<Head(s)>> \o Tail(s)))
        = Cardinality(Waiting(<<Head(s)>>)) + Cardinality(Waiting(Tail(s)))
  BY <1>1, <1>2, WaitingJoined
<1>. QED BY <1>1, <1>3, <1>4

\* The announcement of a stream waits for onaddstream once, if that is set.
LEMMA WaitingAnnounced ==
  ASSUME NEW n \in Nat, "onaddstream" \in Handlers
  PROVE  Announcements(n) \in Seq(ValidTask) /\ Cardinality(Waiting(Announcements(n))) = 1
<1> DEFINE a == <<Task("onaddstream", 0)>>
           b == IF "ontrack" \in Handlers
                THEN [i \in 1 .. n |-> Task("ontrack", 0)] ELSE <<>>
<1>1. Announcements(n) = a \o b
  BY DEF Announcements
<1>2. /\ Task("onaddstream", 0) \in ValidTask /\ Task("ontrack", 0) \in ValidTask
      /\ Task("onaddstream", 0).calls = "onaddstream"
      /\ Task("ontrack", 0).calls = "ontrack"
  BY DEF Task, ValidTask
<1>3. a \in Seq(ValidTask) /\ Cardinality(Waiting(a)) = 1
  BY <1>2, WaitingOne
<1>4. b \in Seq(ValidTask) /\ Waiting(b) = {}
  <2>1. [i \in 1 .. n |-> Task("ontrack", 0)] \in Seq(ValidTask)
    BY <1>2, SeqDef
  <2>2. Waiting([i \in 1 .. n |-> Task("ontrack", 0)]) = {} /\ Waiting(<<>>) = {}
    BY <1>2 DEF Waiting
  <2>3. <<>> \in Seq(ValidTask)
    OBVIOUS
  <2>. QED BY <2>1, <2>2, <2>3
<1>5. Cardinality(Waiting(b)) = 0
  BY <1>4, FS_EmptySet
<1>. HIDE DEF a, b
<1>6. Cardinality(Waiting(a \o b)) = Cardinality(Waiting(a)) + Cardinality(Waiting(b))
  BY <1>3, <1>4, WaitingJoined
<1>7. Cardinality(Waiting(a \o b)) = 1
  BY <1>3, <1>5, <1>6
<1>. QED BY <1>1, <1>7, AnnouncementsCallBackNothing

\* A step that runs and adds no timeout leaves the announcements as they are.
LEMMA AwaitedStays ==
  ASSUME NEW p, Awaited(p), tasks'[p] = tasks[p], announced'[p] = announced[p]
  PROVE  Awaited(p)'
BY DEF Awaited, Waiting

\* Announcements are counted in natural numbers.
LEMMA AnnouncedTypes ==
  ASSUME Typed, NEW p \in Peer
  PROVE  announced[p].streams \in Nat /\ announced[p].onaddstream \in Nat
BY DEF Typed

\* The callback of setLocalDescription is not waited for.
LEMMA AwaitedDescribed ==
  ASSUME Typed, tasks \in [Peer -> Seq(ValidTask)], NEW p \in Peer, Awaited(p),
         NEW d, NEW state, NEW has, LocalDescriptionSet(p, d, state, has)
  PROVE  Awaited(p)'
<1>1. announced' = announced
  BY DEF LocalDescriptionSet
<1>2. CASE tasks' = tasks
  BY <1>1, <1>2, AwaitedStays
<1>3. CASE tasks' = [tasks EXCEPT ![p] = Append(@, Task("success", 0))]
  <2> DEFINE x == Task("success", 0)
  <2>1. x \in ValidTask /\ x.calls = "success"
    BY DEF Task, ValidTask
  <2>2. tasks[p] \in Seq(ValidTask) /\ tasks'[p] = tasks[p] \o <<x>>
    BY <1>3, <2>1
  <2> HIDE DEF x
  <2>3. Cardinality(Waiting(<<x>>)) = 0 /\ <<x>> \in Seq(ValidTask)
    BY <2>1, WaitingOne
  <2>4. Cardinality(Waiting(tasks[p])) \in Nat
    BY <2>2, WaitingFinite
  <2>5. Cardinality(Waiting(tasks[p] \o <<x>>)) =
          Cardinality(Waiting(tasks[p])) + Cardinality(Waiting(<<x>>))
    BY <2>2, <2>3, WaitingJoined
  <2>6. Cardinality(Waiting(tasks'[p])) = Cardinality(Waiting(tasks[p]))
    BY <2>2, <2>3, <2>4, <2>5
  <2>. QED BY <1>1, <2>6 DEF Awaited, Waiting
<1>. QED BY <1>2, <1>3 DEF LocalDescriptionSet

\* A stream that is to be announced is waited for.
LEMMA AwaitedRemote ==
  ASSUME Typed, tasks \in [Peer -> Seq(ValidTask)], NEW p \in Peer, Awaited(p),
         NEW d, NEW state, NEW n \in Nat, RemoteDescriptionSet(p, d, state, n)
  PROVE  Awaited(p)'
<1>1. CASE UNCHANGED <<tasks, announced>>
  BY <1>1, AwaitedStays
<1>2. CASE /\ tasks' = [tasks EXCEPT ![p] = Append(@, Task("addstream", n))]
           /\ announced' = [announced EXCEPT ![p].streams = @ + 1]
  <2> DEFINE x == Task("addstream", n)
             new == [announced[p] EXCEPT !.streams = @ + 1]
             W(s) == Cardinality(Waiting(s))
  <2>1. x \in ValidTask /\ x.calls = "addstream"
    BY DEF Task, ValidTask
  <2>2. tasks[p] \in Seq(ValidTask) /\ tasks'[p] = tasks[p] \o <<x>>
    BY <1>2, <2>1
  <2>3. announced[p] \in [streams : Nat, onaddstream : Nat, ontrack : Nat]
        /\ announced'[p] = new
    BY <1>2 DEF Typed
  <2>4. /\ announced'[p].streams = announced[p].streams + 1
        /\ announced'[p].onaddstream = announced[p].onaddstream
    BY <2>3
  <2> HIDE DEF x, new
  <2>5. W(<<x>>) = 1 /\ <<x>> \in Seq(ValidTask)
    BY <2>1, WaitingOne
  <2>6. W(tasks[p]) \in Nat
    BY <2>2, WaitingFinite
  <2>7. W(tasks[p] \o <<x>>) =
          W(tasks[p]) + W(<<x>>)
    BY <2>2, <2>5, WaitingJoined
  <2>8. W(tasks'[p]) = W(tasks[p]) + 1
    BY <2>2, <2>5, <2>7
  <2>10. SUFFICES ASSUME "onaddstream" \in Handlers
                  PROVE  announced'[p].streams = announced'[p].onaddstream
                           + W(tasks'[p])
    BY DEF Awaited, Waiting
  <2>11. announced[p].streams = announced[p].onaddstream + W(tasks[p])
    BY <2>10 DEF Awaited
  <2>12. announced[p].streams \in Nat /\ announced[p].onaddstream \in Nat
    BY AnnouncedTypes
  <2> HIDE DEF W
  <2>13. announced[p].streams + 1 = announced[p].onaddstream + (W(tasks[p]) + 1)
    BY <2>6, <2>11, <2>12
  <2>. QED BY <2>4, <2>8, <2>13
<1>. QED BY <1>1, <1>2 DEF RemoteDescriptionSet

\* Announcing a stream leaves one call of onaddstream to wait for, and that
\* call none.
LEMMA AwaitedTimed ==
  ASSUME Typed, tasks \in [Peer -> Seq(ValidTask)], NEW p \in Peer, Awaited(p),
         RunTask(p)
  PROVE  Awaited(p)'
<1> DEFINE x == Head(tasks[p])
           W(s) == Cardinality(Waiting(s))
<1>1. tasks[p] \in Seq(ValidTask) /\ tasks[p] # <<>>
  BY DEF RunTask
<1>2. /\ x \in ValidTask /\ Tail(tasks[p]) \in Seq(ValidTask)
      /\ W(tasks[p]) = W(<<x>>) + W(Tail(tasks[p]))
      /\ W(Tail(tasks[p])) \in Nat
  BY <1>1, WaitingTail, WaitingFinite
<1>3. W(<<x>>) = IF x.calls \in {"addstream", "onaddstream"} THEN 1 ELSE 0
  BY <1>2, WaitingOne
<1>4. SUFFICES ASSUME "onaddstream" \in Handlers
               PROVE  announced'[p].streams = announced'[p].onaddstream + W(tasks'[p])
  BY DEF Awaited, Waiting
<1>5. announced[p].streams = announced[p].onaddstream + W(tasks[p])
  BY <1>4 DEF Awaited
<1>. announced[p].streams \in Nat /\ announced[p].onaddstream \in Nat
  BY AnnouncedTypes
<1>6. CASE x.calls = "success"
  <2>1. announced' = announced /\ tasks'[p] = Tail(tasks[p])
    BY <1>6 DEF RunTask
  <2>2. W(<<x>>) = 0
    BY <1>3, <1>6
  <2> HIDE DEF x, W
  <2>. QED BY <1>2, <1>5, <2>1, <2>2
<1>7. CASE x.calls = "addstream"
  <2>1. announced' = announced /\ tasks'[p] = Tail(tasks[p]) \o Announcements(x.tracks)
    BY <1>7 DEF RunTask
  <2>2. W(<<x>>) = 1
    BY <1>3, <1>7
  <2>3. x.tracks \in Nat
    BY <1>2 DEF ValidTask
  <2>4. /\ Announcements(x.tracks) \in Seq(ValidTask)
        /\ W(Announcements(x.tracks)) = 1
    BY <1>4, <2>3, WaitingAnnounced
  <2>5. W(Tail(tasks[p]) \o Announcements(x.tracks))
          = W(Tail(tasks[p])) + W(Announcements(x.tracks))
    BY <1>2, <2>4, WaitingJoined
  <2> HIDE DEF x, W
  <2>. QED BY <1>2, <1>5, <2>1, <2>2, <2>4, <2>5
<1>8. CASE x.calls \in {"onaddstream", "ontrack"}
  <2> DEFINE new == [announced[p] EXCEPT ![x.calls] = @ + 1]
  <2>1. /\ announced' = [announced EXCEPT ![p][x.calls] = @ + 1]
        /\ tasks'[p] = Tail(tasks[p])
    BY <1>8 DEF RunTask
  <2>2. announced[p] \in [streams : Nat, onaddstream : Nat, ontrack : Nat]
        /\ announced'[p] = new
    BY <2>1 DEF Typed
  <2>3. CASE x.calls = "onaddstream"
    <3>1. W(<<x>>) = 1
      BY <1>3, <2>3
    <3>2. /\ announced'[p].streams = announced[p].streams
          /\ announced'[p].onaddstream = announced[p].onaddstream + 1
      BY <2>2, <2>3
    <3> HIDE DEF x, W, new
    <3>. QED BY <1>2, <1>5, <2>1, <3>1, <3>2
  <2>4. CASE x.calls = "ontrack"
    <3>1. W(<<x>>) = 0
      BY <1>3, <2>4
    <3>2. /\ announced'[p].streams = announced[p].streams
          /\ announced'[p].onaddstream = announced[p].onaddstream
      BY <2>2, <2>4
    <3> HIDE DEF x, W, new
    <3>. QED BY <1>2, <1>5, <2>1, <3>1, <3>2
  <2>. QED BY <1>8, <2>3, <2>4
<1>. QED BY <1>6, <1>7, <1>8 DEF RunTask

-----------------------------------------------------------------------------
(* The actions that find and make nothing.                                  *)

\* The offer of the first negotiation is set before there is a remote one.
LEMMA EventsLocalOffer ==
  ASSUME Typed, NEW p \in Peer, EventsInv(p), SignalingInv(p), NEW d,
         NEW has \in BOOLEAN, SetLocalOffer(p, d, has)
  PROVE  EventsInv(p)'
<1>1. UNCHANGED <<nullThrows, negotiations, emitted, buffer, remoteDescription>>
  BY DEF SetLocalOffer, LocalDescriptionSet
<1>2. \A k \in Negotiation, l \in Line : SameGatherer(object[<<p, k, l>>], object'[<<p, k, l>>])
  BY LocalOfferObjects, ObjectsExist
<1>3. negotiations[p] = 1 /\ remoteDescription[p].type = "offer" =>
        transceivers'[p] = transceivers[p]
  <2>1. CASE transceivers' = transceivers
    BY <2>1
  <2>2. CASE pendingOffer[p] # {}
    BY <2>2 DEF SignalingInv, Untouched, Fresh
  <2>. QED BY <2>1, <2>2 DEF SetLocalOffer
<1>4. EventsStay(p)
  BY <1>1, <1>2, <1>3 DEF EventsStay, Events
<1>. QED BY <1>4, FoundStays

\* setLocalDescription of an answer keeps the order of events.
LEMMA EventsLocalAnswer ==
  ASSUME Typed, NEW p \in Peer, EventsInv(p), NEW d, NEW has \in BOOLEAN,
         SetLocalAnswer(p, d, has)
  PROVE  EventsInv(p)'
<1>1. UNCHANGED <<nullThrows, negotiations, emitted, buffer, remoteDescription, transceivers>>
  BY DEF SetLocalAnswer, LocalDescriptionSet, gathering, signaling
<1>2. \A k \in Negotiation, l \in Line : SameGatherer(object[<<p, k, l>>], object'[<<p, k, l>>])
  BY LocalAnswerObjects, ObjectsExist
<1>3. EventsStay(p)
  BY <1>1, <1>2 DEF EventsStay, Events
<1>. QED BY <1>3, FoundStays

\* A remote answer is no offer.
LEMMA EventsRemoteAnswer ==
  ASSUME Typed, NEW p \in Peer, EventsInv(p), NEW d, d.type = "answer",
         SetRemoteAnswer(p, d)
  PROVE  EventsInv(p)'
<1>1. UNCHANGED <<nullThrows, negotiations, emitted, buffer, transceivers>>
  BY DEF SetRemoteAnswer, RemoteDescriptionSet, gathering
<1>2. remoteDescription'[p] = d \/ remoteDescription' = remoteDescription
  BY DEF SetRemoteAnswer, RemoteDescriptionSet, signaling, Typed
<1>3. \A k \in Negotiation, l \in Line : SameGatherer(object[<<p, k, l>>], object'[<<p, k, l>>])
  BY RemoteAnswerObjects, ObjectsExist
<1>4. EventsStay(p)
  BY <1>1, <1>2, <1>3 DEF EventsStay, Events
<1>. QED BY <1>4, FoundStays

\* close keeps the order of events.
LEMMA EventsClosed ==
  ASSUME Typed, NEW p \in Peer, EventsInv(p), Close(p)
  PROVE  EventsInv(p)'
<1>1. UNCHANGED <<nullThrows, negotiations, emitted, buffer, remoteDescription, transceivers>>
  BY DEF Close, gathering, media
<1>2. \A k \in Negotiation, l \in Line : SameGatherer(object[<<p, k, l>>], object'[<<p, k, l>>])
  BY CloseObjects, ObjectsExist
<1>3. EventsStay(p)
  BY <1>1, <1>2 DEF EventsStay, Events
<1>. QED BY <1>3, FoundStays

\* The state changes of a transport keep the order of events.
LEMMA EventsTransport ==
  ASSUME Typed, NEW p \in Peer, EventsInv(p),
         NEW k \in Negotiation, NEW l \in Line, NEW state \in TransportState,
         IceStateChange(p, k, l, state) \/ DtlsStateChange(p, k, l, state)
  PROVE  EventsInv(p)'
<1>1. UNCHANGED <<nullThrows, negotiations, emitted, buffer, remoteDescription, transceivers>>
  BY DEF IceStateChange, DtlsStateChange, gathering, signaling, media
<1>2. \A i \in Negotiation, j \in Line : SameGatherer(object[<<p, i, j>>], object'[<<p, i, j>>])
  BY TransportObjects, ObjectsExist
<1>3. EventsStay(p)
  BY <1>1, <1>2 DEF EventsStay, Events
<1>. QED BY <1>3, FoundStays

\* The end of a stopped transport keeps the order of events.
LEMMA EventsStopped ==
  ASSUME Typed, NEW p \in Peer, EventsInv(p), TransportStopped(p)
  PROVE  EventsInv(p)'
<1>1. UNCHANGED <<nullThrows, negotiations, emitted, buffer, remoteDescription,
                  transceivers, object>>
  BY DEF TransportStopped, gathering, signaling, media
<1>2. EventsStay(p)
  BY <1>1 DEF EventsStay, Events, SameGatherer
<1>. QED BY <1>2, FoundStays

\* The emission of the buffer moves its events to those that are emitted.
LEMMA EventsEmitted ==
  ASSUME Typed, NEW p \in Peer, NEW state, ~nullThrows[p],
         EmitBufferedCandidates(p, state)
  PROVE  Events(p)' = Events(p)
<1>1. /\ emitted' = [emitted EXCEPT ![p] = @ \o Looped(p)]
      /\ buffer' = [buffer EXCEPT ![p] = Kept(p)]
  BY DEF EmitBufferedCandidates
<1>2. Looped(p) = buffer[p] /\ Kept(p) = <<>>
  BY LoopedAll
<1>3. emitted \in [Peer -> Seq(Event)] /\ buffer \in [Peer -> Seq(Event)]
  BY DEF Typed
<1>4. emitted'[p] = emitted[p] \o buffer[p] /\ buffer'[p] = <<>>
  BY <1>1, <1>2, <1>3
<1>5. emitted[p] \o buffer[p] \in Seq(Event)
  BY <1>3
<1>. QED BY <1>4, <1>5 DEF Events

\* The timeouts keep the order of events.
LEMMA EventsTimed ==
  ASSUME Typed, NEW p \in Peer, EventsInv(p), RunTask(p) \/ RunFlush(p)
  PROVE  EventsInv(p)'
<1>1. UNCHANGED <<nullThrows, negotiations, remoteDescription, transceivers, object>>
  BY DEF RunTask, RunFlush, signaling, media
<1>2. \/ UNCHANGED <<emitted, buffer>>
      \/ \E state : EmitBufferedCandidates(p, state)
  BY DEF RunTask, RunFlush, gathering
<1>3. ~nullThrows[p] => Events(p)' = Events(p)
  BY <1>2, EventsEmitted DEF Events
<1>4. EventsStay(p)
  BY <1>1, <1>3 DEF EventsStay, SameGatherer
<1>. QED BY <1>4, FoundStays

-----------------------------------------------------------------------------
(* The steps.                                                               *)

\* A new peer satisfies the invariant.
LEMMA PeerStarts == ASSUME Init PROVE IInv
<1>1. EmissionInv
  BY EmissionStarts
<1>2. 0 \in 0 .. MaxNegotiations /\ MaxNegotiations \in Nat
  BY BoundsAssumption
<1>3. AllTransceivers(object)
  <2>1. ASSUME NEW o \in Peer \X Negotiation \X Line
        PROVE  0 \in 0 .. MaxCandidates[o[1]][o[3]]
    BY BoundsAssumption DEF Line
  <2>2. "new" \in TransportState
    BY DEF TransportState
  <2>. QED BY <2>1, <2>2
       DEF Init, AllTransceivers, IsTransceiver, NewTransceiver, Fields
<1>4. Typed
  <2>1. <<>> \in Seq(Event)
    OBVIOUS
  <2>2. transceivers \in [Peer -> [Line -> 0 .. MaxNegotiations]]
        /\ \A p \in Peer, l \in Line : transceivers[p][l] <= negotiations[p]
    BY <1>2 DEF Init, NoTransceivers
  <2>. QED BY <1>2, <1>3, <2>1, <2>2 DEF Init, Typed
<1>5. ASSUME NEW p \in Peer PROVE PeerInv(p)
  <2>1. /\ negotiations[p] = 0 /\ pendingOffer[p] = {} /\ signalingState[p] = "stable"
        /\ localDescription[p].type = "none" /\ remoteDescription[p].type = "none"
        /\ DOMAIN remoteDescription[p].sections = {}
        /\ iceConnectionState[p] = "new" /\ iceGatheringState[p] = "new"
        /\ \A l \in Line : transceivers[p][l] = 0
        /\ emitted[p] = <<>> /\ buffer[p] = <<>> /\ tasks[p] = <<>>
        /\ announced[p].streams = 0 /\ announced[p].onaddstream = 0
    BY DEF Init, NoDescription, NoTransceivers
  <2>2. \A k \in Negotiation, l \in Line :
          /\ object[<<p, k, l>>].gatherer = "none" /\ object[<<p, k, l>>].found = 0
          /\ object[<<p, k, l>>].role = "none"
    BY DEF Init, NewTransceiver
  <2>3. Events(p) = <<>> /\ DOMAIN Events(p) = {}
    BY <2>1 DEF Events
  <2>4. EventsInv(p)
    BY <2>1, <2>2, <2>3
    DEF EventsInv, Begun, FoundBefore, InOrder, NoneLost, NullIsLast
  <2>5. SignalingInv(p)
    BY <2>1, <2>2
    DEF SignalingInv, Untouched, FirstMade, Agreed, Started, Connected
  <2>6. Waiting(tasks[p]) = {}
    BY <2>1 DEF Waiting
  <2>7. Cardinality(Waiting(tasks[p])) = 0
    BY <2>6, FS_EmptySet
  <2>8. Awaited(p)
    BY <2>1, <2>7 DEF Awaited
  <2>. QED BY <2>4, <2>5, <2>8 DEF PeerInv
<1>. QED BY <1>1, <1>4, <1>5 DEF IInv

\* A step of one peer keeps what it keeps of that peer.
LEMMA OthersKeep ==
  ASSUME IInv, NEW p \in Peer, EventsInv(p)', SignalingInv(p)', Awaited(p)',
         \A q \in Peer : q # p => SameAt(q)
  PROVE  \A q \in Peer : PeerInv(q)'
<1>1. PeerInv(p)'
  BY DEF PeerInv
<1>. QED BY <1>1, Elsewhere DEF IInv

\* What the invariant says of one peer, for the steps below.
LEMMA StepAt ==
  ASSUME IInv, NEW p \in Peer
  PROVE  /\ Typed /\ EmissionInv /\ tasks \in [Peer -> Seq(ValidTask)]
         /\ EventsInv(p) /\ SignalingInv(p) /\ Awaited(p) /\ SilentBefore(p)
         /\ Untouched(p) /\ FirstMade(p)
BY DEF IInv, PeerInv, SignalingInv, EmissionInv, EmissionTypes

\* createOffer keeps the invariant of every peer.
LEMMA CreatesOfferStep ==
  ASSUME IInv, NEW p \in Peer, CreatesOffer(p)
  PROVE  Typed' /\ \A q \in Peer : PeerInv(q)'
<1>1. PICK options : CreateOffer(p, options)
  BY DEF CreatesOffer
<1>2. /\ Typed /\ EventsInv(p) /\ SignalingInv(p) /\ Awaited(p) /\ SilentBefore(p)
      /\ Untouched(p)
  BY StepAt
<1>3. Typed' /\ EventsInv(p)' /\ SignalingInv(p)'
  BY <1>1, <1>2, TypedOffered, EventsMade, SignaledOffer
<1>4. Awaited(p)'
  BY <1>1, <1>2, AwaitedStays DEF CreateOffer, timeouts
<1>5. \A q \in Peer : q # p => SameAt(q)
  BY <1>1, <1>2, OfferIsLocal
<1>. QED BY <1>3, <1>4, <1>5, OthersKeep

\* setLocalDescription of an offer keeps the invariant of every peer.
LEMMA SetsLocalOfferStep ==
  ASSUME IInv, NEW p \in Peer, SetsLocalOffer(p)
  PROVE  Typed' /\ \A q \in Peer : PeerInv(q)'
<1>1. PICK has \in BOOLEAN : \E d : SetLocalOffer(p, d, has)
  BY DEF SetsLocalOffer
<1>2. PICK d : SetLocalOffer(p, d, has)
  BY <1>1
<1>3. /\ Typed /\ EventsInv(p) /\ SignalingInv(p) /\ Awaited(p)
      /\ tasks \in [Peer -> Seq(ValidTask)]
  BY StepAt
<1>4. Typed' /\ EventsInv(p)' /\ SignalingInv(p)'
  BY <1>2, <1>3, TypedDescribed, EventsLocalOffer, SignaledLocalOffer
<1>5. Awaited(p)'
  BY <1>2, <1>3, AwaitedDescribed DEF SetLocalOffer
<1>6. \A q \in Peer : q # p => SameAt(q)
  BY <1>2, <1>3, LocalOfferIsLocal
<1>. QED BY <1>4, <1>5, <1>6, OthersKeep

\* setLocalDescription of an answer keeps the invariant of every peer.
LEMMA SetsLocalAnswerStep ==
  ASSUME IInv, NEW p \in Peer, SetsLocalAnswer(p)
  PROVE  Typed' /\ \A q \in Peer : PeerInv(q)'
<1>1. PICK has \in BOOLEAN : SetLocalAnswer(p, AnswerOf(p), has)
  BY DEF SetsLocalAnswer
<1>2. /\ Typed /\ EventsInv(p) /\ SignalingInv(p) /\ Awaited(p)
      /\ tasks \in [Peer -> Seq(ValidTask)]
  BY StepAt
<1>3. Typed' /\ EventsInv(p)' /\ SignalingInv(p)'
  BY <1>1, <1>2, TypedDescribed, EventsLocalAnswer, SignaledLocalAnswer
<1>4. Awaited(p)'
  <2>1. \/ LocalDescriptionSet(p, AnswerOf(p), "stable", has)
        \/ UNCHANGED timeouts
    BY <1>1 DEF SetLocalAnswer
  <2>. QED BY <1>2, <2>1, AwaitedDescribed, AwaitedStays DEF timeouts
<1>5. \A q \in Peer : q # p => SameAt(q)
  BY <1>1, <1>2, LocalAnswerIsLocal
<1>. QED BY <1>3, <1>4, <1>5, OthersKeep

\* setRemoteDescription of an offer keeps the invariant of every peer.
LEMMA GetsOfferStep ==
  ASSUME IInv, NEW p \in Peer, GetsOffer(p)
  PROVE  Typed' /\ \A q \in Peer : PeerInv(q)'
<1>1. PICK d \in RemoteDescriptions("offer", negotiations[p] + 1, Line) :
        SetRemoteOffer(p, d)
  BY DEF GetsOffer
<1>2. /\ Typed /\ EventsInv(p) /\ SignalingInv(p) /\ Awaited(p) /\ SilentBefore(p)
      /\ Untouched(p) /\ tasks \in [Peer -> Seq(ValidTask)]
  BY StepAt
<1>3. Typed' /\ EventsInv(p)' /\ SignalingInv(p)'
  BY <1>1, <1>2, TypedRemoteOffer, EventsMade, SignaledOfferReceived
<1>4. Awaited(p)'
  <2> DEFINE accepted == {l \in DOMAIN d.sections : ~d.sections[l].rejected}
  <2>1. Line \subseteq Nat
    BY DEF Line
  <2>2. IsFiniteSet(accepted)
    BY <2>1, RemoteLinesAreFinite, FS_Subset
  <2>3. Cardinality(accepted) \in Nat
    BY <2>2, FS_CardinalityType
  <2>4. RemoteDescriptionSet(p, d, "have-remote-offer", Cardinality(accepted))
    BY <1>1 DEF SetRemoteOffer
  <2> HIDE DEF accepted
  <2>. QED BY <1>2, <2>3, <2>4, AwaitedRemote
<1>5. \A q \in Peer : q # p => SameAt(q)
  BY <1>1, <1>2, RemoteOfferIsLocal
<1>. QED BY <1>3, <1>4, <1>5, OthersKeep

\* setRemoteDescription of an answer keeps the invariant of every peer.
LEMMA GetsAnswerStep ==
  ASSUME IInv, NEW p \in Peer, GetsAnswer(p)
  PROVE  Typed' /\ \A q \in Peer : PeerInv(q)'
<1>1. PICK d \in RemoteDescriptions("answer", negotiations[p],
                   {Len(localDescription[p].sections)}) : SetRemoteAnswer(p, d)
  BY DEF GetsAnswer
<1>2. /\ Typed /\ EventsInv(p) /\ SignalingInv(p) /\ Awaited(p)
      /\ tasks \in [Peer -> Seq(ValidTask)]
  BY StepAt
<1>3. {Len(localDescription[p].sections)} \subseteq 0 .. NumLines
  BY <1>2 DEF SignalingInv, Agreed, GetsAnswer
<1>4. d.type = "answer"
  BY <1>3, RemoteLines
<1>5. Typed' /\ EventsInv(p)' /\ SignalingInv(p)'
  BY <1>1, <1>2, <1>4, TypedRemoteAnswer, EventsRemoteAnswer, SignaledAnswerReceived
<1>6. Awaited(p)'
  <2>1. IsFiniteSet(DOMAIN d.sections)
    BY <1>3, RemoteLinesAreFinite
  <2>2. \/ \E R \in SUBSET DOMAIN d.sections :
             RemoteDescriptionSet(p, d, "stable", Cardinality(R))
        \/ UNCHANGED timeouts
    BY <1>1 DEF SetRemoteAnswer, Before
  <2>3. CASE UNCHANGED timeouts
    BY <1>2, <2>3, AwaitedStays DEF timeouts
  <2>4. ASSUME NEW R \in SUBSET DOMAIN d.sections,
               RemoteDescriptionSet(p, d, "stable", Cardinality(R))
        PROVE  Awaited(p)'
    <3>1. Cardinality(R) \in Nat
      BY <2>1, FS_Subset, FS_CardinalityType
    <3>. QED BY <1>2, <2>4, <3>1, AwaitedRemote
  <2>. QED BY <2>2, <2>3, <2>4
<1>7. \A q \in Peer : q # p => SameAt(q)
  BY <1>1, <1>2, RemoteAnswerIsLocal
<1>. QED BY <1>5, <1>6, <1>7, OthersKeep

\* close keeps the invariant of every peer.
LEMMA ClosesStep ==
  ASSUME IInv, NEW p \in Peer, Close(p)
  PROVE  Typed' /\ \A q \in Peer : PeerInv(q)'
<1>1. Typed /\ EventsInv(p) /\ SignalingInv(p) /\ Awaited(p)
  BY StepAt
<1>2. Typed' /\ EventsInv(p)' /\ SignalingInv(p)'
  BY <1>1, TypedClosed, EventsClosed, SignaledClosed
<1>3. Awaited(p)'
  BY <1>1, AwaitedStays DEF Close, timeouts
<1>4. \A q \in Peer : q # p => SameAt(q)
  BY <1>1, CloseIsLocal
<1>. QED BY <1>2, <1>3, <1>4, OthersKeep

\* onlocalcandidate keeps the invariant of every peer.
LEMMA GathersStep ==
  ASSUME IInv, NEW p \in Peer, Gathers(p)
  PROVE  Typed' /\ \A q \in Peer : PeerInv(q)'
<1>1. PICK k \in Negotiation, l \in Line, end \in BOOLEAN : LocalCandidate(p, k, l, end)
  BY DEF Gathers
<1>2. /\ Typed /\ EventsInv(p) /\ SignalingInv(p) /\ Awaited(p) /\ SilentBefore(p)
      /\ Untouched(p) /\ FirstMade(p)
  BY StepAt
<1>3. Typed' /\ EventsInv(p)' /\ SignalingInv(p)'
  BY <1>1, <1>2, TypedGathered, EventsGathered, SignaledCandidate
<1>4. UNCHANGED timeouts
  BY <1>1 DEF LocalCandidate
<1>5. Awaited(p)'
  BY <1>2, <1>4, AwaitedStays DEF timeouts
<1>6. \A q \in Peer : q # p => SameAt(q)
  BY <1>1, <1>2, CandidateIsLocal
<1>. QED BY <1>3, <1>5, <1>6, OthersKeep

\* The state changes of a transport keep the invariant of every peer.
LEMMA TransportChangesStep ==
  ASSUME IInv, NEW p \in Peer, TransportChanges(p)
  PROVE  Typed' /\ \A q \in Peer : PeerInv(q)'
<1>1. PICK k \in 1 .. MaxMoving, l \in Line :
        \/ \E ice \in IceStates : IceStateChange(p, k, l, ice)
        \/ \E dtls \in DtlsStates : DtlsStateChange(p, k, l, dtls)
  BY DEF TransportChanges
<1>2. PICK state \in TransportState :
        IceStateChange(p, k, l, state) \/ DtlsStateChange(p, k, l, state)
  BY <1>1, TransportsAssumption
<1>3. k \in Negotiation
  BY TransportsAssumption, BoundsAssumption DEF Negotiation
<1>4. Typed /\ EventsInv(p) /\ SignalingInv(p) /\ Awaited(p)
  BY StepAt
<1>5. Typed' /\ EventsInv(p)' /\ SignalingInv(p)'
  BY <1>2, <1>3, <1>4, TypedTransport, EventsTransport, SignaledTransport
<1>6. Awaited(p)'
  BY <1>2, <1>4, AwaitedStays DEF IceStateChange, DtlsStateChange, timeouts
<1>7. \A q \in Peer : q # p => SameAt(q)
  BY <1>2, <1>3, <1>4, TransportIsLocal
<1>. QED BY <1>5, <1>6, <1>7, OthersKeep

\* The end of a stopped transport keeps the invariant of every peer.
LEMMA TransportStoppedStep ==
  ASSUME IInv, NEW p \in Peer, TransportStopped(p)
  PROVE  Typed' /\ \A q \in Peer : PeerInv(q)'
<1>1. Typed /\ EventsInv(p) /\ SignalingInv(p) /\ Awaited(p)
  BY StepAt
<1>2. Typed' /\ EventsInv(p)' /\ SignalingInv(p)'
  BY <1>1, TypedStopped, EventsStopped, SignaledStopped
<1>3. Awaited(p)'
  BY <1>1, AwaitedStays DEF TransportStopped, timeouts
<1>4. \A q \in Peer : q # p => SameAt(q)
  BY <1>1, StoppedIsLocal
<1>. QED BY <1>2, <1>3, <1>4, OthersKeep

\* The timeouts keep the invariant of every peer.
LEMMA TimedStep ==
  ASSUME IInv, NEW p \in Peer, RunTask(p) \/ RunFlush(p)
  PROVE  Typed' /\ \A q \in Peer : PeerInv(q)'
<1>1. /\ Typed /\ EmissionInv /\ tasks \in [Peer -> Seq(ValidTask)]
      /\ EventsInv(p) /\ SignalingInv(p) /\ Awaited(p)
  BY StepAt
<1>2. Typed' /\ EventsInv(p)' /\ SignalingInv(p)'
  BY <1>1, TypedTimed, EventsTimed, SignaledTimed
<1>3. RunFlush(p) => Awaited(p)'
  BY <1>1, AwaitedStays DEF RunFlush
<1>4. Awaited(p)'
  BY <1>1, <1>3, AwaitedTimed
<1>5. \A q \in Peer : q # p => SameAt(q)
  BY <1>1, TimeIsLocal
<1>. QED BY <1>2, <1>4, <1>5, OthersKeep

\* addStream and removeStream keep the invariant of every peer.
LEMMA StreamsStep ==
  ASSUME IInv, NEW p \in Peer, Adds(p) \/ Removes(p)
  PROVE  Typed' /\ \A q \in Peer : PeerInv(q)'
<1>1. (\E stream : AddStream(p, stream)) \/ (\E i : RemoveStream(p, i))
  BY DEF Adds, Removes
<1>2. Typed' /\ \A q \in Peer : SameAt(q)
  BY <1>1, TypedStreams DEF IInv
<1>. QED BY <1>2, Elsewhere DEF IInv

\* A step of something else keeps the invariant of every peer.
LEMMA PeerStutters ==
  ASSUME IInv, UNCHANGED pcVars
  PROVE  Typed' /\ \A q \in Peer : PeerInv(q)'
<1>1. UNCHANGED <<signalingState, iceGatheringState, iceConnectionState, localDescription,
                  remoteDescription, described, localStreams, negotiations, pendingOffer,
                  transceivers, object, buffer, emitted, tasks, flushes, announced, nullThrows>>
  BY DEF pcVars, gathering, signaling, media, timeouts
<1>2. Typed'
  BY <1>1 DEF IInv, Typed, AllTransceivers, IsTransceiver
<1>3. \A q \in Peer : SameAt(q)
  BY <1>1 DEF SameAt
<1>. QED BY <1>2, <1>3, Elsewhere DEF IInv

\* Every step of the page and of the browser keeps the invariant.
LEMMA PeerStep == IInv /\ [Next]_pcVars => IInv'
<1>. SUFFICES ASSUME IInv, [Next]_pcVars PROVE IInv'
  OBVIOUS
<1>1. EmissionInv'
  BY EmissionStep DEF IInv
<1>2. Typed' /\ \A q \in Peer : PeerInv(q)'
  <2>1. CASE UNCHANGED pcVars
    BY <2>1, PeerStutters
  <2>2. CASE Next
    <3>1. PICK p \in Peer :
            \/ Adds(p) \/ Removes(p) \/ CreatesOffer(p) \/ SetsLocalOffer(p)
            \/ GetsOffer(p) \/ SetsLocalAnswer(p) \/ GetsAnswer(p) \/ Closes(p)
            \/ Gathers(p) \/ TransportChanges(p) \/ TransportStopped(p)
            \/ RunTask(p) \/ RunFlush(p)
      BY <2>2 DEF Next
    <3>2. CASE Adds(p) \/ Removes(p)
      BY <3>2, StreamsStep
    <3>3. CASE CreatesOffer(p) \/ SetsLocalOffer(p) \/ SetsLocalAnswer(p)
      BY <3>3, CreatesOfferStep, SetsLocalOfferStep, SetsLocalAnswerStep
    <3>4. CASE GetsOffer(p) \/ GetsAnswer(p)
      BY <3>4, GetsOfferStep, GetsAnswerStep
    <3>5. CASE Closes(p)
      BY <3>5, ClosesStep DEF Closes
    <3>6. CASE Gathers(p)
      BY <3>6, GathersStep
    <3>7. CASE TransportChanges(p) \/ TransportStopped(p)
      BY <3>7, TransportChangesStep, TransportStoppedStep
    <3>8. CASE RunTask(p) \/ RunFlush(p)
      BY <3>8, TimedStep
    <3>. QED BY <3>1, <3>2, <3>3, <3>4, <3>5, <3>6, <3>7, <3>8
  <2>. QED BY <2>1, <2>2
<1>. QED BY <1>1, <1>2 DEF IInv

\* The inductive invariant holds of every peer in every state.
LEMMA PeerInvariant == Spec => []IInv
<1>. QED BY PeerStarts, PeerStep, PTL DEF Spec

-----------------------------------------------------------------------------
(* What a peer connection promises.                                         *)

\* The state keeps its types: an event is of a transceiver that may be made, a
\* gatherer finds no more than there is, no list is of a negotiation to come.
THEOREM TypesAreKept == Spec => []TypeOK
<1>1. ASSUME Typed PROVE TypeOK
  <2>1. ASSUME NEW p \in Peer
        PROVE  /\ pendingOffer[p] \subseteq [Line -> 0 .. negotiations[p]]
               /\ \A i \in DOMAIN Events(p) : Events(p)[i] \in Candidate \union {Null}
    <3>1. ASSUME NEW list \in pendingOffer[p]
          PROVE  list \in [Line -> 0 .. negotiations[p]]
      <4>1. list \in [Line -> 0 .. MaxNegotiations] /\ negotiations[p] \in Nat
            /\ \A l \in Line : list[l] <= negotiations[p]
        BY <1>1, PeerTypes DEF Typed
      <4>2. \A l \in Line : list[l] \in 0 .. negotiations[p]
        BY <4>1
      <4>. QED BY <4>1, <4>2
    <3>. QED BY <1>1, <3>1, EventTypes DEF Event
  <2>2. \A o \in DOMAIN object : IsTransceiver(o, object[o])
    BY <1>1 DEF Typed, AllTransceivers
  <2>. QED BY <1>1, <2>1, <2>2 DEF Typed, TypeOK, IsTransceiver
<1>2. IInv => TypeOK
  BY <1>1 DEF IInv
<1>. QED BY <1>2, PeerInvariant, PTL

\* The events of one gatherer keep their order, and its end is the last.
THEOREM OrderIsKept == Spec => []CandidatesInOrder
<1>1. IInv => CandidatesInOrder
  BY DEF IInv, PeerInv, EventsInv, InOrder, CandidatesInOrder
<1>. QED BY <1>1, PeerInvariant, PTL

\* Each candidate of the first negotiation is emitted or in the buffer.
THEOREM CandidatesReachTheApplication == Spec => []NoCandidateLost
<1>1. IInv => NoCandidateLost
  BY DEF IInv, PeerInv, EventsInv, NoneLost, NoCandidateLost
<1>. QED BY <1>1, PeerInvariant, PTL

\* The null candidate of an answering peer is the last event, and all its
\* gatherers are done.
THEOREM NullIsTheEnd == Spec => []NullEndsTheAnswer
<1>1. ASSUME IInv PROVE NullEndsTheAnswer
  <2>1. \A p \in Peer : AllGathered(p, object) <=> Gathered(p)
    BY <1>1, GatheredLines DEF IInv
  <2>. QED BY <1>1, <2>1 DEF IInv, PeerInv, EventsInv, NullIsLast, NullEndsTheAnswer
<1>. QED BY <1>1, PeerInvariant, PTL

\* A peer that is stable again has an offer and an answer, and has started
\* each line the remote end accepts in the role it takes.
THEOREM StableIsStarted == Spec => []StableMeansStarted
<1>1. ASSUME IInv PROVE StableMeansStarted
  <2> SUFFICES ASSUME NEW p \in Peer, signalingState[p] = "stable",
                      localDescription[p].type # "none"
               PROVE  /\ {localDescription[p].type, remoteDescription[p].type}
                           = {"offer", "answer"}
                      /\ \A l \in DOMAIN remoteDescription[p].sections :
                           ~remoteDescription[p].sections[l].rejected =>
                             /\ transceivers[p][l] # 0
                             /\ object[<<p, transceivers[p][l], l>>].role =
                                  IF remoteDescription[p].type = "offer"
                                  THEN "controlled" ELSE "controlling"
    BY DEF StableMeansStarted
  <2>1. Started(p) /\ DOMAIN remoteDescription[p].sections \subseteq Line
    BY <1>1 DEF IInv, PeerInv, SignalingInv, Agreed
  <2>. QED BY <2>1 DEF Started, LinesStarted, Accepts
<1>. QED BY <1>1, PeerInvariant, PTL

\* A first connection is reported when the transports of all its lines are up.
THEOREM ConnectedIsComplete == Spec => []ConnectedMeansAll
<1>1. ASSUME IInv PROVE ConnectedMeansAll
  <2> SUFFICES ASSUME NEW p \in Peer, iceConnectionState[p] = "connected",
                      negotiations[p] = 1, NEW o \in Objects(p, transceivers[p])
               PROVE  {object[o].ice, object[o].dtls} \intersect OnTheWay = {}
    BY DEF ConnectedMeansAll, OnTheWay
  <2>1. PICK l \in Line : transceivers[p][l] # 0 /\ o = <<p, transceivers[p][l], l>>
    BY DEF Objects
  <2>2. Connected(p)
    BY <1>1 DEF IInv, PeerInv, SignalingInv
  <2>. QED BY <2>1, <2>2 DEF Connected
<1>. QED BY <1>1, PeerInvariant, PTL

\* No announcement is left out and none made twice, however the timeouts of
\* several descriptions follow each other.
THEOREM StreamsReachTheApplication == Spec => []StreamsAreAnnounced
<1>1. ASSUME IInv PROVE StreamsAreAnnounced
  <2> SUFFICES ASSUME "onaddstream" \in Handlers, NEW p \in Peer, tasks[p] = <<>>
               PROVE  announced[p].onaddstream = announced[p].streams
    BY DEF StreamsAreAnnounced, Quiet
  <2>1. announced[p].streams = announced[p].onaddstream + Cardinality(Waiting(tasks[p]))
    BY <1>1 DEF IInv, PeerInv, Awaited
  <2>2. Waiting(tasks[p]) = {}
    BY DEF Waiting
  <2>3. Cardinality(Waiting(tasks[p])) = 0
    BY <2>2, FS_EmptySet
  <2>4. announced[p].streams \in Nat /\ announced[p].onaddstream \in Nat
    BY <1>1, AnnouncedTypes DEF IInv
  <2>. QED BY <2>1, <2>3, <2>4
<1>. QED BY <1>1, PeerInvariant, PTL

\* No candidate reaches the application before the local description is set.
THEOREM CandidatesWait == Spec => []NothingBeforeLocalDescription
<1>1. EmissionInv => NothingBeforeLocalDescription
  BY DEF EmissionInv, SilentBefore, NothingBeforeLocalDescription
<1>. QED BY <1>1, EmissionInvariant, PTL

\* When the timeouts of a peer with a local description have run its buffer is
\* empty.
THEOREM BufferEmpties == Spec => []BufferIsFlushed
<1>1. EmissionInv => BufferIsFlushed
  BY DEF EmissionInv, FlushedAfter, Pending, HasSuccess, BufferIsFlushed, Quiet
<1>. QED BY <1>1, EmissionInvariant, PTL

-----------------------------------------------------------------------------
(* A call.                                                                  *)

(* The members of a finite set of numbers are numbered from the least.      *)

UpToIn(S, n) == {m \in S : m <= n}
Rank(S, n) == Cardinality(UpToIn(S, n))

\* Of two members the smaller has the smaller rank.
LEMMA RanksDiffer ==
  ASSUME NEW S \in SUBSET Nat, IsFiniteSet(S), NEW m \in S, NEW n \in S, m < n
  PROVE  /\ Rank(S, m) \in 1 .. Cardinality(S)
         /\ Rank(S, m) < Rank(S, n)
<1>1. ASSUME NEW i \in S
      PROVE  /\ IsFiniteSet(UpToIn(S, i)) /\ Rank(S, i) \in Nat
             /\ Rank(S, i) <= Cardinality(S) /\ Rank(S, i) # 0
  <2>1. UpToIn(S, i) \in SUBSET S /\ i \in UpToIn(S, i)
    BY DEF UpToIn
  <2>. QED BY <2>1, FS_Subset, FS_CardinalityType, FS_EmptySet DEF Rank
<1>2. UpToIn(S, m) \in SUBSET UpToIn(S, n) /\ UpToIn(S, m) # UpToIn(S, n)
  <2>1. n \in UpToIn(S, n) /\ n \notin UpToIn(S, m)
    BY DEF UpToIn
  <2>2. \A i \in S : i <= m => i <= n
    OBVIOUS
  <2>. QED BY <2>1, <2>2 DEF UpToIn
<1>3. Rank(S, m) <= Rank(S, n) /\ Rank(S, m) # Rank(S, n)
  BY <1>1, <1>2, FS_Subset DEF Rank
<1>4. Cardinality(S) \in Nat
  BY FS_CardinalityType
<1>5. Rank(S, m) \in Nat /\ Rank(S, n) \in Nat /\ Rank(S, m) # 0 /\ Rank(S, m) <= Cardinality(S)
  BY <1>1
<1>. QED BY <1>3, <1>4, <1>5

\* The ranks are all the numbers up to the size of the set, each once.
LEMMA RankIsBijection ==
  ASSUME NEW S \in SUBSET Nat, IsFiniteSet(S)
  PROVE  /\ \A n \in S : Rank(S, n) \in 1 .. Cardinality(S)
         /\ \A m, n \in S : Rank(S, m) = Rank(S, n) => m = n
         /\ \A i \in 1 .. Cardinality(S) : \E n \in S : Rank(S, n) = i
<1> DEFINE f == [n \in S |-> Rank(S, n)]
           c == Cardinality(S)
<1>1. c \in Nat
  BY FS_CardinalityType
<1>2. ASSUME NEW n \in S PROVE Rank(S, n) \in 1 .. c
  <2>1. UpToIn(S, n) \in SUBSET S /\ n \in UpToIn(S, n)
    BY DEF UpToIn
  <2>2. Rank(S, n) \in Nat /\ Rank(S, n) <= c /\ Rank(S, n) # 0
    BY <2>1, FS_Subset, FS_CardinalityType, FS_EmptySet DEF Rank
  <2>. QED BY <1>1, <2>2
<1>3. ASSUME NEW m \in S, NEW n \in S, Rank(S, m) = Rank(S, n) PROVE m = n
  <2>1. ~(m < n) /\ ~(n < m)
    BY <1>1, <1>2, <1>3, RanksDiffer
  <2>2. m \in Nat /\ n \in Nat
    OBVIOUS
  <2>. QED BY <2>1, <2>2
<1>4. f \in Injection(S, 1 .. c)
  BY <1>2, <1>3 DEF Injection, IsInjective
<1>5. IsFiniteSet(1 .. c) /\ Cardinality(1 .. c) = c
  BY <1>1, FS_Interval
<1>6. f \in Surjection(S, 1 .. c)
  BY <1>4, <1>5, FS_Injection
<1>7. ASSUME NEW i \in 1 .. c PROVE \E n \in S : Rank(S, n) = i
  BY <1>6 DEF Surjection
<1>. QED BY <1>2, <1>3, <1>7

\* Nth, which is a CHOOSE, does find a member.
LEMMA NthHasRank ==
  ASSUME NEW S \in SUBSET Nat, IsFiniteSet(S), NEW i \in 1 .. Cardinality(S)
  PROVE  Nth(S, i) \in S /\ Rank(S, Nth(S, i)) = i
<1>1. \E n \in S : Rank(S, n) = i
  BY RankIsBijection
<1>2. \E n \in S : Cardinality({m \in S : m <= n}) = i
  BY <1>1 DEF Rank, UpToIn
<1>. QED BY <1>2 DEF Nth, Rank, UpToIn

\* The numbering leaves none out.
LEMMA EachIsNth ==
  ASSUME NEW S \in SUBSET Nat, IsFiniteSet(S), NEW n \in S
  PROVE  \E i \in 1 .. Cardinality(S) : Nth(S, i) = n
<1>1. Rank(S, n) \in 1 .. Cardinality(S)
  BY RankIsBijection
<1>2. Nth(S, Rank(S, n)) \in S /\ Rank(S, Nth(S, Rank(S, n))) = Rank(S, n)
  BY <1>1, NthHasRank
<1>3. Nth(S, Rank(S, n)) = n
  <2>1. \A k, m \in S : Rank(S, k) = Rank(S, m) => k = m
    BY RankIsBijection
  <2>. QED BY <1>2, <2>1
<1>. QED BY <1>1, <1>3

\* Of 1 .. n the i-th is i.
LEMMA NthOfFirst ==
  ASSUME NEW n \in Nat, NEW i \in 1 .. n
  PROVE  Cardinality(1 .. n) = n /\ Nth(1 .. n, i) = i
<1>1. IsFiniteSet(1 .. n) /\ Cardinality(1 .. n) = n /\ 1 .. n \in SUBSET Nat
  BY FS_Interval
<1>2. UpToIn(1 .. n, i) = 1 .. i
  BY DEF UpToIn
<1>3. i \in Int /\ 1 \in Int /\ i >= 1
  OBVIOUS
<1>4. Rank(1 .. n, i) = i
  <2>1. Cardinality(1 .. i) = i
    BY <1>3, FS_Interval
  <2>. QED BY <1>2, <2>1 DEF Rank
<1>5. Nth(1 .. n, i) \in 1 .. n /\ Rank(1 .. n, Nth(1 .. n, i)) = i
  BY <1>1, NthHasRank
<1>. QED BY <1>1, <1>4, <1>5, RankIsBijection

(* The codecs two lists have in common.                                     *)

\* FirstNamed is an element of the list, the first with that name.
LEMMA FirstIsNamed ==
  ASSUME NEW remote, DOMAIN remote \in SUBSET Nat, NEW name,
         Named(remote, name) # {}
  PROVE  \E j \in Named(remote, name) :
           /\ \A m \in Named(remote, name) : j <= m
           /\ FirstNamed(remote, name) = remote[j]
<1>1. Named(remote, name) \in SUBSET Nat
  BY DEF Named
<1>2. \E j \in Named(remote, name) : \A m \in Named(remote, name) : j <= m
  BY <1>1, Smallest
<1>. QED BY <1>2 DEF FirstNamed

IsList(s) == \E n \in Nat : DOMAIN s = 1 .. n

\* The codecs in common are those of remote whose name local has.
LEMMA CommonElements ==
  ASSUME NEW local, NEW remote, IsList(local)
  PROVE  /\ Elements(CommonCodecs(local, remote)) =
              {FirstNamed(remote, local[i].name) : i \in Shared(local, remote)}
         /\ IsList(CommonCodecs(local, remote))
<1> DEFINE S == Shared(local, remote)
           c == Cardinality(S)
           Nths == CommonCodecs(local, remote)
<1>1. S \in SUBSET Nat /\ IsFiniteSet(S)
  <2>1. PICK n \in Nat : DOMAIN local = 1 .. n
    BY DEF IsList
  <2>2. IsFiniteSet(1 .. n) /\ S \in SUBSET (1 .. n)
    BY <2>1, FS_Interval DEF Shared
  <2>. QED BY <2>2, FS_Subset
<1>2. c \in Nat
  BY <1>1, FS_CardinalityType
<1>3. Nths = [i \in 1 .. c |-> FirstNamed(remote, local[Nth(S, i)].name)]
  BY DEF CommonCodecs
<1>4. Elements(Nths) = {FirstNamed(remote, local[Nth(S, i)].name) : i \in 1 .. c}
  BY <1>3 DEF Elements
<1>5. \A i \in 1 .. c : Nth(S, i) \in S
  BY <1>1, NthHasRank
<1>6. \A n \in S : \E i \in 1 .. c : Nth(S, i) = n
  BY <1>1, EachIsNth
<1>7. DOMAIN Nths = 1 .. c
  BY <1>3
<1> HIDE DEF S, c, Nths
<1>8. {FirstNamed(remote, local[Nth(S, i)].name) : i \in 1 .. c} =
        {FirstNamed(remote, local[n].name) : n \in S}
  BY <1>5, <1>6
<1>9. IsList(Nths)
  BY <1>2, <1>7 DEF IsList
<1>. QED BY <1>4, <1>8, <1>9 DEF S, Nths

\* The offer's answer, read by the side that offered, names the same codecs:
\* whatever the order of the lists, and however often a name is in one.
LEMMA CommonAgain ==
  ASSUME NEW mine, NEW theirs, IsList(mine), IsList(theirs)
  PROVE  Elements(CommonCodecs(mine, CommonCodecs(theirs, mine))) =
           Elements(CommonCodecs(theirs, mine))
<1> DEFINE A == CommonCodecs(theirs, mine)
<1>1. DOMAIN mine \in SUBSET Nat
  BY DEF IsList
<1>2. /\ Elements(A) = {FirstNamed(mine, theirs[i].name) : i \in Shared(theirs, mine)}
      /\ IsList(A)
  BY CommonElements
<1>3. DOMAIN A \in SUBSET Nat
  BY <1>2 DEF IsList
<1>4. Elements(CommonCodecs(mine, A)) =
        {FirstNamed(A, mine[i].name) : i \in Shared(mine, A)}
  BY CommonElements
<1>5. \A j \in DOMAIN A : A[j] \in Elements(A)
  BY DEF Elements
<1>6. \A e \in Elements(A) : \E j \in DOMAIN A : A[j] = e
  BY DEF Elements
<1> HIDE DEF A
\* each element is the first of mine that has its name
<1>7. ASSUME NEW e \in Elements(A)
      PROVE  /\ e = FirstNamed(mine, e.name)
             /\ \E i \in DOMAIN mine : mine[i].name = e.name
  <2>1. PICK i \in Shared(theirs, mine) : e = FirstNamed(mine, theirs[i].name)
    BY <1>2
  <2>2. Named(mine, theirs[i].name) # {}
    BY DEF Shared
  <2>3. PICK j \in Named(mine, theirs[i].name) : e = mine[j]
    BY <1>1, <2>1, <2>2, FirstIsNamed
  <2>4. j \in DOMAIN mine /\ mine[j].name = theirs[i].name
    BY DEF Named
  <2>. QED BY <2>1, <2>3, <2>4
<1>8. ASSUME NEW i \in Shared(mine, A)
      PROVE  FirstNamed(A, mine[i].name) \in Elements(A)
  <2>1. Named(A, mine[i].name) # {}
    BY DEF Shared
  <2>2. PICK j \in Named(A, mine[i].name) : FirstNamed(A, mine[i].name) = A[j]
    BY <1>3, <2>1, FirstIsNamed
  <2>. QED BY <1>5, <2>2 DEF Named
<1>9. ASSUME NEW e \in Elements(A)
      PROVE  \E i \in Shared(mine, A) : e = FirstNamed(A, mine[i].name)
  <2>1. PICK i \in DOMAIN mine : mine[i].name = e.name
    BY <1>7
  <2>2. PICK m \in DOMAIN A : A[m] = e
    BY <1>6
  <2>3. m \in Named(A, mine[i].name)
    BY <2>1, <2>2 DEF Named
  <2>4. i \in Shared(mine, A)
    BY <2>3 DEF Shared
  <2>5. PICK j \in Named(A, mine[i].name) : FirstNamed(A, mine[i].name) = A[j]
    BY <1>3, <2>3, FirstIsNamed
  <2>6. A[j].name = e.name /\ A[j] \in Elements(A)
    BY <1>5, <2>1, <2>5 DEF Named
  <2>7. A[j] = e
    BY <1>7, <2>6
  <2>. QED BY <2>4, <2>5, <2>7
<1>. QED BY <1>4, <1>8, <1>9 DEF A

-----------------------------------------------------------------------------
(* The inductive invariant.                                                 *)

EventInCall == [k : Negotiation, l : Line, n : Nat] \union {Null}

\* The objects of the first negotiation; there is no other one in a call.
First(p, l) == object[<<p, 1, l>>]

CallTyped ==
  /\ DOMAIN object = Peer \X Negotiation \X Line
  /\ \A o \in DOMAIN object : DOMAIN object[o] = Fields
  /\ emitted \in [Peer -> Seq(EventInCall)]
  /\ buffer \in [Peer -> Seq(EventInCall)]
  /\ nullThrows = [p \in Peer |-> FALSE]
  /\ delivered \in [Peer -> Nat]
  /\ DOMAIN localStreams = Peer
  /\ \A p \in Peer : localStreams[p] = <<>> \/ \E s \in Streams : localStreams[p] = <<s>>
  /\ DOMAIN remoteDescription = Peer

\* What a gatherer found, and what its transport was given.
NothingMade(p) == negotiations[p] = 0 =>
  \A l \in Line : First(p, l).gatherer = "none"
Paired(p, l) ==
  /\ First(p, l).found \in Nat
  /\ First(p, l).gatherer = "none" =>
       First(p, l).found = 0 /\ First(p, l).remoteCandidates = {}
  /\ First(p, l).gatherer # "none" => First(p, l).mid = <<Caller, 1, l>>
  /\ \A c \in First(p, l).remoteCandidates :
       /\ c.mid = <<Caller, 1, l>>
       /\ c.n \in Nat /\ c.n <= First(Other(p), l).found
Installed(p, l) ==
  /\ transceivers[p][l] \in {0, 1}
  /\ transceivers[p][l] = 1 => First(p, l).gatherer # "none"
FoundBy(p, e) == e # Null =>
  /\ e.k = 1 /\ First(p, e.l).gatherer # "none"
  /\ e.n <= First(p, e.l).found
GathersOnce(p) ==
  \A k \in Negotiation, l \in Line : k # 1 => object[<<p, k, l>>].gatherer = "none"
Exchanged(p) ==
  /\ NothingMade(p) /\ GathersOnce(p)
  /\ \A l \in Line : Paired(p, l) /\ Installed(p, l)
  /\ \A e \in Elements(emitted[p]) \union Elements(buffer[p]) : FoundBy(p, e)

\* How far the call has come.  The values of caller and callee:
Pair(a, b) == [p \in Peer |-> IF p = Caller THEN a ELSE b]
UpTo(n) == [l \in Line |-> IF l <= n THEN 1 ELSE 0]

Stage(states, counts, pending, lists, parcels) ==
  /\ signalingState = states
  /\ negotiations = counts
  /\ pendingOffer = pending
  /\ transceivers = lists
  /\ carried = parcels
Unheard(p) == remoteDescription[p].type = "none"

Mine(l) == Codecs[Caller][First(Caller, l).kind]
Theirs(l) == Codecs[Callee][First(Caller, l).kind]
Common(l) == CommonCodecs(Theirs(l), Mine(l))

\* Line l of the caller, as createOffer made it.
Offering(l) ==
  LET t == First(Caller, l)
  IN /\ t.kind \in Kind /\ t.mid = <<Caller, 1, l>> /\ t.local = Mine(l)
     /\ t.sender \in {"none", "track"} /\ t.receiver \in BOOLEAN
     /\ t.sender = "none" => t.receiver
     /\ t.sending = <<>> /\ t.receiving = <<>>
     /\ t.gatherer # "none"

IsOffer(d, n) ==
  /\ d.type = "offer" /\ DOMAIN d.sections = 1 .. n
  /\ \A l \in 1 .. n :
       LET t == First(Caller, l)
           s == d.sections[l]
       IN /\ s.kind = t.kind /\ s.mid = t.mid /\ s.codecs = Mine(l)
          /\ s.rejected = (Mine(l) = <<>>) /\ s.send = (t.sender # "none")

\* Line l of the callee, as the offer made it; it sends when the answer is set,
\* or failed to be set behind it.
Answering(l) ==
  LET t == First(Callee, l)
  IN /\ t.kind = First(Caller, l).kind /\ t.mid = <<Caller, 1, l>>
     /\ t.local = Theirs(l) /\ t.remote = {Mine(l)} /\ t.receiver = TRUE
     /\ t.receiving = IF First(Caller, l).sender # "none" THEN Common(l) ELSE <<>>
     /\ t.gatherer # "none"
Sends(l) ==
  First(Callee, l).sending =
    IF Common(l) # <<>> /\ First(Callee, l).sender # "none" THEN Common(l) ELSE <<>>

IsAnswer(d, n) ==
  /\ d.type = "answer" /\ DOMAIN d.sections = 1 .. n
  /\ \A l \in 1 .. n :
       LET s == d.sections[l]
       IN /\ s.codecs = Common(l) /\ s.rejected = (Common(l) = <<>>)
          /\ s.send = (First(Callee, l).sender # "none") /\ s.receive = TRUE

\* Line l at both ends, when the caller has accepted the answer.
Matched(l) ==
  LET t == First(Caller, l)
      u == First(Callee, l)
  IN /\ Elements(t.sending) \union Elements(t.receiving) =
          Elements(u.sending) \union Elements(u.receiving)
     /\ u.receiver => Elements(t.sending) \subseteq Elements(u.receiving)
     /\ t.receiver => Elements(u.sending) \subseteq Elements(t.receiving)

Idle ==
  /\ Stage(Pair("stable", "stable"), Pair(0, 0), Pair({}, {}),
           Pair(NoTransceivers, NoTransceivers), Pair({}, {}))
  /\ Unheard(Caller) /\ Unheard(Callee)

Created(n) ==
  /\ Stage(Pair("stable", "stable"), Pair(1, 0), Pair({UpTo(n)}, {}),
           Pair(NoTransceivers, NoTransceivers), Pair({}, {}))
  /\ Unheard(Caller) /\ Unheard(Callee)
  /\ \A l \in 1 .. n : Offering(l)

Offered(n) ==
  /\ \E d : /\ IsOffer(d, n)
            /\ Stage(Pair("have-local-offer", "stable"), Pair(1, 0), Pair({}, {}),
                     Pair(UpTo(n), NoTransceivers), Pair({d}, {}))
  /\ Unheard(Caller) /\ Unheard(Callee)
  /\ \A l \in 1 .. n : Offering(l)

\* A line without codecs is rejected: it gets no transceiver.
Received(n) ==
  LET lines == [l \in Line |-> IF l \in 1 .. n /\ Mine(l) # <<>> THEN 1 ELSE 0]
  IN /\ Stage(Pair("have-local-offer", "have-remote-offer"), Pair(1, 1),
              Pair({}, {}), Pair(UpTo(n), lines), Pair({}, {}))
     /\ Unheard(Caller) /\ IsOffer(remoteDescription[Callee], n)
     /\ \A l \in 1 .. n :
          /\ Offering(l)
          /\ Mine(l) # <<>> =>
               Answering(l) /\ (First(Callee, l).sending = <<>> \/ Sends(l))

Answered(n) ==
  /\ \E d : /\ IsAnswer(d, n)
            /\ Stage(Pair("have-local-offer", "stable"), Pair(1, 1), Pair({}, {}),
                     Pair(UpTo(n), UpTo(n)), Pair({}, {d}))
  /\ Unheard(Caller) /\ remoteDescription[Callee].type = "offer"
  /\ \A l \in 1 .. n : Offering(l) /\ Answering(l) /\ Sends(l)

Accepted(n) ==
  /\ Stage(Pair("stable", "stable"), Pair(1, 1), Pair({}, {}),
           Pair(UpTo(n), UpTo(n)), Pair({}, {}))
  /\ remoteDescription[Caller].type = "answer"
  /\ remoteDescription[Callee].type = "offer"
  /\ \A l \in 1 .. n : Matched(l)

Progress ==
  Idle \/ \E n \in Line : \/ Created(n) \/ Offered(n) \/ Received(n)
                          \/ Answered(n) \/ Accepted(n)

CallInv == CallTyped /\ (\A p \in Peer : Exchanged(p)) /\ Progress

-----------------------------------------------------------------------------
(* Who and what there is.                                                   *)

\* Caller and callee are all the peers there are.
LEMMA TwoEnds ==
  /\ Caller \in Peer /\ Callee \in Peer /\ Caller # Callee
  /\ \A p \in Peer : p = Caller \/ p = Callee
  /\ \A p \in Peer : Other(p) \in Peer /\ Other(p) # p /\ Other(Other(p)) = p
  /\ Other(Caller) = Callee /\ Other(Callee) = Caller
BY CallAssumption DEF Other

\* There is a first negotiation, and lines are counted from 1.
LEMMA Counts ==
  /\ 1 \in Negotiation /\ Line \in SUBSET (Nat \ {0})
BY BoundsAssumption DEF Negotiation, Line

\* First(p, l) is a transceiver, made or not.
LEMMA ObjectsOfFirst ==
  ASSUME CallTyped, NEW p \in Peer, NEW l \in Line
  PROVE  <<p, 1, l>> \in DOMAIN object /\ DOMAIN First(p, l) = Fields
BY Counts DEF CallTyped, First

\* The objects of a list whose lines are of the first negotiation.
LEMMA ObjectsOfList ==
  ASSUME NEW p \in Peer, NEW list, \A l \in Line : list[l] \in {0, 1}
  PROVE  Objects(p, list) = {<<p, 1, l>> : l \in {m \in Line : list[m] = 1}}
<1>1. {m \in Line : list[m] # 0} = {m \in Line : list[m] = 1}
  OBVIOUS
<1>2. \A l \in {m \in Line : list[m] = 1} : <<p, list[l], l>> = <<p, 1, l>>
  OBVIOUS
<1>. QED BY <1>1, <1>2 DEF Objects

\* The elements of two sequences, one after the other.
LEMMA ElementsTogether ==
  ASSUME NEW S, NEW s \in Seq(S), NEW t \in Seq(S)
  PROVE  /\ s \o t \in Seq(S)
         /\ Elements(s \o t) = Elements(s) \union Elements(t)
         /\ Elements(s) \in SUBSET S
<1>1. /\ s \o t \in Seq(S) /\ Len(s \o t) = Len(s) + Len(t)
      /\ DOMAIN (s \o t) = 1 .. Len(s) + Len(t)
      /\ DOMAIN s = 1 .. Len(s) /\ DOMAIN t = 1 .. Len(t)
      /\ Len(s) \in Nat /\ Len(t) \in Nat
      /\ \A i \in 1 .. Len(s) + Len(t) :
           (s \o t)[i] = IF i <= Len(s) THEN s[i] ELSE t[i - Len(s)]
  OBVIOUS
<1>2. ASSUME NEW i \in DOMAIN (s \o t)
      PROVE  (s \o t)[i] \in Elements(s) \union Elements(t)
  <2>1. CASE i <= Len(s)
    <3>1. i \in DOMAIN s /\ (s \o t)[i] = s[i]
      BY <1>1, <2>1
    <3>. QED BY <3>1 DEF Elements
  <2>2. CASE ~(i <= Len(s))
    <3>1. i - Len(s) \in DOMAIN t /\ (s \o t)[i] = t[i - Len(s)]
      BY <1>1, <2>2
    <3>. QED BY <3>1 DEF Elements
  <2>. QED BY <2>1, <2>2
<1>3. ASSUME NEW i \in DOMAIN s PROVE s[i] \in Elements(s \o t)
  <2>1. i \in DOMAIN (s \o t) /\ (s \o t)[i] = s[i]
    BY <1>1
  <2>. QED BY <2>1 DEF Elements
<1>4. ASSUME NEW i \in DOMAIN t PROVE t[i] \in Elements(s \o t)
  <2>1. /\ i + Len(s) \in 1 .. Len(s) + Len(t) /\ ~(i + Len(s) <= Len(s))
        /\ i + Len(s) - Len(s) = i
    BY <1>1
  <2>2. i + Len(s) \in DOMAIN (s \o t) /\ (s \o t)[i + Len(s)] = t[i]
    BY <1>1, <2>1
  <2>. QED BY <2>2 DEF Elements
<1>5. Elements(s) \in SUBSET S
  BY <1>1 DEF Elements
<1>. QED BY <1>1, <1>2, <1>3, <1>4, <1>5 DEF Elements

\* The elements of the shortest sequences.
LEMMA ElementsOfFew ==
  ASSUME NEW a, NEW b
  PROVE  /\ Elements(<<>>) = {} /\ Elements(<<a>>) = {a}
         /\ Elements(<<a, b>>) = {a, b}
<1>1. DOMAIN <<a>> = {1} /\ DOMAIN <<a, b>> = {1, 2}
  OBVIOUS
<1>. QED BY <1>1 DEF Elements

-----------------------------------------------------------------------------
(* What was found and what was given.                                       *)

\* What a step may do to line l of p.
Grows(p, l) ==
  LET t == First(p, l)
      u == First(p, l)'
  IN /\ u.found \in Nat /\ t.found <= u.found
     /\ t.gatherer # "none" => u.gatherer # "none"
     /\ u.gatherer = "none" => u.found = 0 /\ u.remoteCandidates = {}
     /\ u.gatherer # "none" => u.mid = <<Caller, 1, l>>
     /\ \A c \in u.remoteCandidates :
          \/ c \in t.remoteCandidates
          \/ c.mid = <<Caller, 1, l>> /\ c.n \in Nat /\ c.n <= First(Other(p), l).found

\* Exchanged stays when each line grows and what is emitted was found.
LEMMA ExchangeGoesOn ==
  ASSUME CallTyped, \A p \in Peer : Exchanged(p),
         \A p \in Peer, l \in Line : Grows(p, l),
         \A p \in Peer : NothingMade(p)' /\ GathersOnce(p)',
         \A p \in Peer, l \in Line : Installed(p, l)',
         \A p \in Peer : Elements(emitted'[p]) \union Elements(buffer'[p]) \in SUBSET EventInCall,
         \A p \in Peer : \A e \in Elements(emitted'[p]) \union Elements(buffer'[p]) :
           e \in Elements(emitted[p]) \union Elements(buffer[p]) \/ FoundBy(p, e)'
  PROVE  \A p \in Peer : Exchanged(p)'
<1> SUFFICES ASSUME NEW p \in Peer PROVE Exchanged(p)'
  OBVIOUS
<1>1. ASSUME NEW l \in Line PROVE Paired(p, l)'
  <2>1. Grows(p, l) /\ Grows(Other(p), l) /\ Paired(p, l) /\ Paired(Other(p), l)
    BY TwoEnds DEF Exchanged
  <2>2. First(Other(p), l).found \in Nat /\ First(Other(p), l)'.found \in Nat
        /\ First(Other(p), l).found <= First(Other(p), l)'.found
    BY <2>1 DEF Grows, Paired
  <2>3. ASSUME NEW c \in First(p, l)'.remoteCandidates
        PROVE  /\ c.mid = <<Caller, 1, l>>
               /\ c.n \in Nat /\ c.n <= First(Other(p), l)'.found
    <3>1. /\ c.mid = <<Caller, 1, l>>
          /\ c.n \in Nat /\ c.n <= First(Other(p), l).found
      BY <2>1, <2>3 DEF Grows, Paired
    <3>. QED BY <2>2, <3>1
  <2>. QED BY <2>1, <2>3 DEF Grows, Paired
<1>2. ASSUME NEW e \in Elements(emitted'[p]) \union Elements(buffer'[p])
      PROVE  FoundBy(p, e)'
  <2>1. CASE FoundBy(p, e)'
    BY <2>1
  <2>2. CASE e \in Elements(emitted[p]) \union Elements(buffer[p]) /\ e # Null
    <3>1. e.l \in Line /\ e.n \in Nat
      BY <1>2, <2>2 DEF EventInCall
    <3>2. FoundBy(p, e)
      BY <2>2 DEF Exchanged
    <3>3. Grows(p, e.l) /\ Paired(p, e.l)
      BY <3>1 DEF Exchanged
    <3>4. First(p, e.l).found \in Nat /\ First(p, e.l)'.found \in Nat
          /\ First(p, e.l).found <= First(p, e.l)'.found /\ e.n <= First(p, e.l).found
      BY <2>2, <3>2, <3>3 DEF FoundBy, Grows, Paired
    <3>5. e.n <= First(p, e.l)'.found
      BY <3>1, <3>4
    <3>. QED BY <2>2, <3>2, <3>3, <3>5 DEF FoundBy, Grows
  <2>3. CASE e = Null
    BY <2>3 DEF FoundBy
  <2>. QED BY <2>1, <2>2, <2>3
<1>. QED BY <1>1, <1>2 DEF Exchanged

-----------------------------------------------------------------------------
(* The steps that leave the signaling alone: a stream is added, a gatherer  *)
(* calls, a timeout runs, a candidate arrives.                              *)

\* What the descriptions settle about a transceiver stays.
SameMedia(t, u) ==
  /\ u.kind = t.kind /\ u.mid = t.mid /\ u.local = t.local /\ u.remote = t.remote
  /\ u.sender = t.sender /\ u.receiver = t.receiver
  /\ u.sending = t.sending /\ u.receiving = t.receiving
  /\ u.gatherer = "none" <=> t.gatherer = "none"

TypedInCall(obj) ==
  /\ DOMAIN obj = Peer \X Negotiation \X Line
  /\ \A o \in DOMAIN obj : DOMAIN obj[o] = Fields

\* A gatherer finds a candidate or comes to its end.
LEMMA GatheredObjects ==
  ASSUME CallTyped, NEW p \in Peer, NEW k \in Negotiation, NEW l \in Line,
         NEW end \in BOOLEAN, LocalCandidate(p, k, l, end)
  PROVE  /\ TypedInCall(object')
         /\ object[<<p, k, l>>].gatherer = "gathering"
         /\ \A o \in DOMAIN object :
              /\ o # <<p, k, l>> => object'[o] = object[o]
              /\ SameMedia(object[o], object'[o])
              /\ object'[o].remoteCandidates = object[o].remoteCandidates
         /\ object'[<<p, k, l>>].found = IF end THEN object[<<p, k, l>>].found
                                         ELSE object[<<p, k, l>>].found + 1
<1> DEFINE new == IF end THEN [object[<<p, k, l>>] EXCEPT !.gatherer = "completed"]
                  ELSE [object[<<p, k, l>>] EXCEPT !.found = object[<<p, k, l>>].found + 1]
<1>1. /\ object' = [object EXCEPT ![<<p, k, l>>] = new]
      /\ object[<<p, k, l>>].gatherer = "gathering"
  BY DEF LocalCandidate
<1>2. <<p, k, l>> \in DOMAIN object /\ DOMAIN object[<<p, k, l>>] = Fields
  BY DEF CallTyped
<1>3. /\ DOMAIN new = Fields /\ SameMedia(object[<<p, k, l>>], new)
      /\ new.remoteCandidates = object[<<p, k, l>>].remoteCandidates
      /\ new.found = IF end THEN object[<<p, k, l>>].found ELSE object[<<p, k, l>>].found + 1
  BY <1>1, <1>2 DEF Fields, SameMedia
<1> HIDE DEF new
<1>. QED BY <1>1, <1>2, <1>3 DEF CallTyped, TypedInCall, SameMedia

\* A candidate is given to a transport.
LEMMA GivenObjects ==
  ASSUME CallTyped, NEW p \in Peer, NEW mid, NEW l \in Line, NEW n,
         \A m \in Line : transceivers[p][m] \in {0, 1},
         AddIceCandidate(p, mid, l, n)
  PROVE  /\ TypedInCall(object')
         /\ \/ object' = object
            \/ /\ CandidateLine(p, mid, l) \in Line
               /\ transceivers[p][CandidateLine(p, mid, l)] = 1
               /\ \A o \in DOMAIN object :
                    /\ SameMedia(object[o], object'[o])
                    /\ object'[o].found = object[o].found
                    /\ object'[o].gatherer = object[o].gatherer
                    /\ object'[o].remoteCandidates =
                         IF o = <<p, 1, CandidateLine(p, mid, l)>>
                         THEN object[o].remoteCandidates \union {[mid |-> mid, n |-> n]}
                         ELSE object[o].remoteCandidates
<1> DEFINE line == CandidateLine(p, mid, l)
<1>1. CASE object' = object
  BY <1>1 DEF CallTyped, TypedInCall
<1>2. CASE object' # object
  <2>1. line \in Line
    <3>1. MidLines(p, mid) \in SUBSET Line /\ Line \in SUBSET Nat
      BY Counts DEF MidLines
    <3>2. CASE MidLines(p, mid) = {}
      BY <3>2 DEF CandidateLine
    <3>3. CASE MidLines(p, mid) # {}
      <4>1. \E m \in MidLines(p, mid) : \A j \in MidLines(p, mid) : m <= j
        BY <3>1, <3>3, Smallest
      <4>. QED BY <3>1, <3>3, <4>1 DEF CandidateLine
    <3>. QED BY <3>2, <3>3
  <2> DEFINE new == [object[<<p, 1, line>>] EXCEPT !.remoteCandidates =
                       @ \union {[mid |-> mid, n |-> n]}]
  <2>2. transceivers[p][line] = 1 /\ object' = [object EXCEPT ![<<p, 1, line>>] = new]
    BY <1>2, <2>1 DEF AddIceCandidate
  <2>3. <<p, 1, line>> \in DOMAIN object /\ DOMAIN object[<<p, 1, line>>] = Fields
    BY <2>1, Counts DEF CallTyped
  <2>4. /\ DOMAIN new = Fields /\ SameMedia(object[<<p, 1, line>>], new)
        /\ new.found = object[<<p, 1, line>>].found
        /\ new.gatherer = object[<<p, 1, line>>].gatherer
        /\ new.remoteCandidates =
             object[<<p, 1, line>>].remoteCandidates \union {[mid |-> mid, n |-> n]}
    BY <2>3 DEF Fields, SameMedia
  <2> HIDE DEF new
  <2>. QED BY <2>1, <2>2, <2>3, <2>4 DEF CallTyped, TypedInCall, SameMedia
<1>. QED BY <1>1, <1>2

\* The signaling of a call.
signals == <<signalingState, negotiations, pendingOffer, transceivers, carried,
             remoteDescription>>

\* What a stage says of its lines only depends on what is settled about them.
LEMMA OfferedLinesStay ==
  ASSUME \A l \in Line : SameMedia(First(Caller, l), First(Caller, l)')
  PROVE  /\ \A l \in Line :
              /\ Mine(l)' = Mine(l) /\ Theirs(l)' = Theirs(l) /\ Common(l)' = Common(l)
              /\ Offering(l) => Offering(l)'
         /\ \A n \in Line : \A d : IsOffer(d, n) => IsOffer(d, n)'
<1>1. ASSUME NEW l \in Line
      PROVE  /\ Mine(l)' = Mine(l) /\ Theirs(l)' = Theirs(l) /\ Common(l)' = Common(l)
             /\ Offering(l) => Offering(l)'
  <2>1. SameMedia(First(Caller, l), First(Caller, l)')
    OBVIOUS
  <2>2. /\ Mine(l)' = Mine(l) /\ Theirs(l)' = Theirs(l) /\ Common(l)' = Common(l)
    BY <2>1 DEF Mine, Theirs, Common, SameMedia
  <2>. QED BY <2>1, <2>2 DEF SameMedia, Offering
<1>2. \A n \in Line : 1 .. n \in SUBSET Line
  BY BoundsAssumption DEF Line
<1>3. ASSUME NEW n \in Line, NEW d PROVE IsOffer(d, n) => IsOffer(d, n)'
  BY <1>1, <1>2 DEF IsOffer, SameMedia
<1>. QED BY <1>1, <1>3

\* The same for what the stages say of both ends.
LEMMA LinesStay ==
  ASSUME CallTyped, \A o \in DOMAIN object : SameMedia(object[o], object'[o])
  PROVE  /\ \A p \in Peer, l \in Line : SameMedia(First(p, l), First(p, l)')
         /\ \A l \in Line :
              /\ Mine(l)' = Mine(l) /\ Theirs(l)' = Theirs(l) /\ Common(l)' = Common(l)
              /\ Offering(l) => Offering(l)'
              /\ Answering(l) => Answering(l)'
              /\ Sends(l) => Sends(l)'
              /\ Matched(l) => Matched(l)'
              /\ First(Callee, l).sending = <<>> => First(Callee, l)'.sending = <<>>
         /\ \A n \in Line : \A d : /\ IsOffer(d, n) => IsOffer(d, n)'
                                   /\ IsAnswer(d, n) => IsAnswer(d, n)'
<1>1. \A p \in Peer, l \in Line : SameMedia(First(p, l), First(p, l)')
  BY ObjectsOfFirst DEF First
<1>2. /\ \A l \in Line : SameMedia(First(Caller, l), First(Caller, l)')
      /\ \A l \in Line : SameMedia(First(Callee, l), First(Callee, l)')
  BY <1>1, TwoEnds
<1>3. ASSUME NEW l \in Line
      PROVE  /\ Mine(l)' = Mine(l) /\ Theirs(l)' = Theirs(l) /\ Common(l)' = Common(l)
             /\ Offering(l) => Offering(l)'
             /\ Answering(l) => Answering(l)'
             /\ Sends(l) => Sends(l)'
             /\ Matched(l) => Matched(l)'
             /\ First(Callee, l).sending = <<>> => First(Callee, l)'.sending = <<>>
  <2>1. /\ SameMedia(First(Caller, l), First(Caller, l)')
        /\ SameMedia(First(Callee, l), First(Callee, l)')
    BY <1>2
  <2>2. /\ Mine(l)' = Mine(l) /\ Theirs(l)' = Theirs(l) /\ Common(l)' = Common(l)
        /\ Offering(l) => Offering(l)'
    BY <1>2, OfferedLinesStay
  <2>. QED BY <2>1, <2>2 DEF SameMedia, Answering, Sends, Matched
<1>4. \A n \in Line : 1 .. n \in SUBSET Line
  BY BoundsAssumption DEF Line
<1>5. ASSUME NEW n \in Line, NEW d PROVE IsAnswer(d, n) => IsAnswer(d, n)'
  BY <1>2, <1>3, <1>4 DEF IsAnswer, SameMedia
<1>. QED BY <1>1, <1>2, <1>3, <1>5, OfferedLinesStay

\* A step outside the signaling stays in its stage.
LEMMA ProgressStays ==
  ASSUME CallTyped, Progress, UNCHANGED signals,
         \A o \in DOMAIN object : SameMedia(object[o], object'[o])
  PROVE  Progress'
<1>1. UNCHANGED <<signalingState, negotiations, pendingOffer, transceivers, carried,
                  remoteDescription>>
  BY DEF signals
<1>3. \A s, c, d, t, u : Stage(s, c, d, t, u) => Stage(s, c, d, t, u)'
  BY <1>1 DEF Stage
<1>4. \A p \in Peer : Unheard(p) => Unheard(p)'
  BY <1>1 DEF Unheard
<1>5. ASSUME NEW l \in Line
      PROVE  /\ Mine(l)' = Mine(l)
             /\ Offering(l) => Offering(l)'
             /\ Answering(l) => Answering(l)'
             /\ Sends(l) => Sends(l)'
             /\ Matched(l) => Matched(l)'
             /\ First(Callee, l).sending = <<>> => First(Callee, l)'.sending = <<>>
  BY LinesStay
<1>6. \A n \in Line : 1 .. n \in SUBSET Line
  BY BoundsAssumption DEF Line
<1>7. ASSUME NEW n \in Line, NEW d
      PROVE  /\ IsOffer(d, n) => IsOffer(d, n)'
             /\ IsAnswer(d, n) => IsAnswer(d, n)'
  BY LinesStay
<1>8. CASE Idle
  BY <1>3, <1>4, <1>8, TwoEnds DEF Idle, Progress
<1>9. ASSUME NEW n \in Line, Created(n) PROVE Created(n)'
  BY <1>3, <1>4, <1>5, <1>6, <1>9, TwoEnds DEF Created
<1>10. ASSUME NEW n \in Line, Offered(n) PROVE Offered(n)'
  BY <1>3, <1>4, <1>5, <1>6, <1>7, <1>10, TwoEnds DEF Offered
<1>11. ASSUME NEW n \in Line, Received(n) PROVE Received(n)'
  BY <1>1, <1>3, <1>4, <1>5, <1>6, <1>7, <1>11, TwoEnds DEF Received
<1>12. ASSUME NEW n \in Line, Answered(n) PROVE Answered(n)'
  BY <1>1, <1>3, <1>4, <1>5, <1>6, <1>7, <1>12, TwoEnds DEF Answered
<1>13. ASSUME NEW n \in Line, Accepted(n) PROVE Accepted(n)'
  BY <1>1, <1>3, <1>5, <1>6, <1>13 DEF Accepted
<1>. QED BY <1>8, <1>9, <1>10, <1>11, <1>12, <1>13 DEF Progress

\* Lines of the same negotiation with the same list stay made and installed.
LEMMA CountsStay ==
  ASSUME CallTyped, \A p \in Peer : Exchanged(p),
         UNCHANGED <<negotiations, transceivers>>,
         \A o \in DOMAIN object : SameMedia(object[o], object'[o])
  PROVE  /\ \A p \in Peer : NothingMade(p)' /\ GathersOnce(p)'
         /\ \A p \in Peer, l \in Line : Installed(p, l)'
<1>1. \A p \in Peer, l \in Line :
        First(p, l)'.gatherer = "none" <=> First(p, l).gatherer = "none"
  BY ObjectsOfFirst DEF First, SameMedia
<1>2. \A p \in Peer, k \in Negotiation, l \in Line :
        object'[<<p, k, l>>].gatherer = "none" <=> object[<<p, k, l>>].gatherer = "none"
  BY DEF CallTyped, SameMedia
<1>. QED BY <1>1, <1>2 DEF Exchanged, NothingMade, GathersOnce, Installed

\* A line that stays as it is grows, by nothing.
LEMMA GrowsNot ==
  ASSUME NEW p \in Peer, NEW l \in Line, Exchanged(p), First(p, l)' = First(p, l)
  PROVE  Grows(p, l)
BY DEF Exchanged, Paired, Grows

\* The events of a peer; no handler throws in a call, so none is kept.
LEMMA EventsOf ==
  ASSUME CallTyped, NEW p \in Peer
  PROVE  /\ emitted[p] \in Seq(EventInCall) /\ buffer[p] \in Seq(EventInCall)
         /\ Elements(emitted[p]) \in SUBSET EventInCall /\ Elements(buffer[p]) \in SUBSET EventInCall
         /\ Null \in EventInCall /\ nullThrows[p] = FALSE
         /\ Looped(p) = buffer[p] /\ Kept(p) = <<>>
BY ElementsTogether DEF CallTyped, EventInCall, Looped, Kept, LoopThrows

\* A stream is added before the call.
LEMMA AddingStays ==
  ASSUME CallInv, NEW p \in Peer, AddsBefore(p)
  PROVE  CallInv'
<1>0. CallTyped /\ (\A q \in Peer : Exchanged(q)) /\ Progress
  BY DEF CallInv
<1>1. PICK stream \in Streams : AddStream(p, stream)
  BY DEF AddsBefore
<1>2. /\ UNCHANGED <<gathering, signaling, timeouts, negotiations, pendingOffer,
                     transceivers, iceConnectionState, object, nullThrows>>
      /\ localStreams' = [localStreams EXCEPT ![p] = Append(@, stream)]
      /\ UNCHANGED <<carried, delivered>> /\ localStreams[p] = <<>>
  BY <1>1 DEF AddStream, AddsBefore
<1>3. UNCHANGED <<emitted, buffer, signalingState, remoteDescription>>
  BY <1>2 DEF gathering, signaling
<1>4. Append(<<>>, stream) = <<stream>>
  OBVIOUS
<1>5. CallTyped'
  BY <1>0, <1>2, <1>3, <1>4 DEF CallTyped
<1>6. \A o \in DOMAIN object : SameMedia(object[o], object'[o])
  BY <1>2 DEF SameMedia
<1>7. Progress'
  BY <1>0, <1>2, <1>3, <1>6, ProgressStays DEF signals
<1>8. ASSUME NEW q \in Peer PROVE Exchanged(q)'
  <2>1. NothingMade(q)' /\ GathersOnce(q)' /\ \A l \in Line : Paired(q, l)' /\ Installed(q, l)'
    BY <1>0, <1>2 DEF Exchanged, NothingMade, GathersOnce, Paired, Installed, First
  <2>2. \A e \in Elements(emitted'[q]) \union Elements(buffer'[q]) : FoundBy(q, e)'
    BY <1>0, <1>2, <1>3 DEF Exchanged, FoundBy, First
  <2>. QED BY <2>1, <2>2 DEF Exchanged
<1>. QED BY <1>5, <1>7, <1>8 DEF CallInv

\* Emission moves events out of the buffer and makes none.
LEMMA EmissionStays ==
  ASSUME CallTyped, NEW p \in Peer, NEW state, EmitBufferedCandidates(p, state)
  PROVE  /\ emitted' \in [Peer -> Seq(EventInCall)] /\ buffer' \in [Peer -> Seq(EventInCall)]
         /\ \A q \in Peer : Elements(emitted'[q]) \union Elements(buffer'[q]) \in
              SUBSET (Elements(emitted[q]) \union Elements(buffer[q]))
<1>1. /\ emitted' = [emitted EXCEPT ![p] = @ \o buffer[p]]
      /\ buffer' = [buffer EXCEPT ![p] = <<>>]
  BY EventsOf DEF EmitBufferedCandidates
<1>2. \A q \in Peer : emitted[q] \in Seq(EventInCall) /\ buffer[q] \in Seq(EventInCall)
  BY EventsOf
<1>3. emitted[p] \o buffer[p] \in Seq(EventInCall)
      /\ Elements(emitted[p] \o buffer[p]) = Elements(emitted[p]) \union Elements(buffer[p])
  BY <1>2, ElementsTogether
<1>4. <<>> \in Seq(EventInCall)
  OBVIOUS
<1>5. emitted' \in [Peer -> Seq(EventInCall)] /\ buffer' \in [Peer -> Seq(EventInCall)]
  BY <1>1, <1>3, <1>4 DEF CallTyped
<1>6. ASSUME NEW q \in Peer
      PROVE  Elements(emitted'[q]) \union Elements(buffer'[q]) \in
              SUBSET (Elements(emitted[q]) \union Elements(buffer[q]))
  <2>1. CASE q = p
    <3>1. emitted'[q] = emitted[p] \o buffer[p] /\ buffer'[q] = <<>>
      BY <1>1, <2>1 DEF CallTyped
    <3>. QED BY <1>3, <2>1, <3>1, ElementsOfFew
  <2>2. CASE q # p
    <3>1. emitted'[q] = emitted[q] /\ buffer'[q] = buffer[q]
      BY <1>1, <2>2 DEF CallTyped
    <3>. QED BY <3>1
  <2>. QED BY <2>1, <2>2
<1>. QED BY <1>5, <1>6

\* A timeout runs.
LEMMA TimeoutStays ==
  ASSUME CallInv, NEW p \in Peer, Times(p)
  PROVE  CallInv'
<1>0. CallTyped /\ (\A q \in Peer : Exchanged(q)) /\ Progress
  BY DEF CallInv
<1>1. UNCHANGED <<signaling, media, object, nullThrows, carried, delivered>>
  BY DEF Times, RunTask, RunFlush
<1>2. UNCHANGED <<signalingState, remoteDescription, localStreams, negotiations,
                  pendingOffer, transceivers, object, nullThrows, carried, delivered>>
  BY <1>1 DEF signaling, media
<1>3. \/ UNCHANGED <<emitted, buffer>>
      \/ \E state : EmitBufferedCandidates(p, state)
  BY DEF Times, RunTask, RunFlush, gathering
<1>4. /\ emitted' \in [Peer -> Seq(EventInCall)] /\ buffer' \in [Peer -> Seq(EventInCall)]
      /\ \A q \in Peer : Elements(emitted'[q]) \union Elements(buffer'[q]) \in
              SUBSET (Elements(emitted[q]) \union Elements(buffer[q]))
  <2>1. CASE UNCHANGED <<emitted, buffer>>
    BY <1>0, <2>1 DEF CallTyped
  <2>2. CASE \E state : EmitBufferedCandidates(p, state)
    BY <1>0, <2>2, EmissionStays
  <2>. QED BY <1>3, <2>1, <2>2
<1>5. CallTyped'
  BY <1>0, <1>2, <1>4 DEF CallTyped
<1>6. \A o \in DOMAIN object : SameMedia(object[o], object'[o])
  BY <1>2 DEF SameMedia
<1>7. Progress'
  BY <1>0, <1>2, <1>6, ProgressStays DEF signals
<1>8. ASSUME NEW q \in Peer PROVE Exchanged(q)'
  <2>1. NothingMade(q)' /\ GathersOnce(q)' /\ \A l \in Line : Paired(q, l)' /\ Installed(q, l)'
    BY <1>0, <1>2 DEF Exchanged, NothingMade, GathersOnce, Paired, Installed, First
  <2>2. \A e \in Elements(emitted'[q]) \union Elements(buffer'[q]) : FoundBy(q, e)'
    BY <1>0, <1>2, <1>4 DEF Exchanged, FoundBy, First
  <2>. QED BY <2>1, <2>2 DEF Exchanged
<1>. QED BY <1>5, <1>7, <1>8 DEF CallInv

\* The events a gatherer adds.
LEMMA GatheredEvents ==
  ASSUME CallTyped, NEW p \in Peer, NEW k \in Negotiation, NEW l \in Line,
         NEW end \in BOOLEAN, LocalCandidate(p, k, l, end),
         object[<<p, k, l>>].found \in Nat
  PROVE  LET event == [k |-> k, l |-> l,
                       n |-> IF end THEN 0 ELSE object[<<p, k, l>>].found + 1]
         IN /\ event \in EventInCall
            /\ emitted' \in [Peer -> Seq(EventInCall)] /\ buffer' \in [Peer -> Seq(EventInCall)]
            /\ \A q \in Peer : Elements(emitted'[q]) \union Elements(buffer'[q]) \in
                 SUBSET (Elements(emitted[q]) \union Elements(buffer[q]) \union
                         (IF q = p THEN {event, Null} ELSE {}))
<1> DEFINE event == [k |-> k, l |-> l,
                     n |-> IF end THEN 0 ELSE object[<<p, k, l>>].found + 1]
<1>1. event \in EventInCall /\ Null \in EventInCall
  BY DEF EventInCall
<1> HIDE DEF event
<1>2. \A q \in Peer : emitted[q] \in Seq(EventInCall) /\ buffer[q] \in Seq(EventInCall)
  BY EventsOf
<1>3. <<event>> \in Seq(EventInCall) /\ <<event, Null>> \in Seq(EventInCall) /\ <<>> \in Seq(EventInCall)
  BY <1>1
<1>4. \/ UNCHANGED <<emitted, buffer>>
      \/ \E some \in {<<event>>, <<event, Null>>} :
           /\ emitted' = emitted
           /\ buffer' = [buffer EXCEPT ![p] = @ \o some]
      \/ \E some \in {<<event>>, <<event, Null>>} :
           /\ emitted' = [emitted EXCEPT ![p] = @ \o buffer[p] \o some]
           /\ buffer' = [buffer EXCEPT ![p] = <<>>]
  BY EventsOf DEF LocalCandidate, event, gathering, LoopThrows
<1>5. ASSUME NEW some \in {<<event>>, <<event, Null>>}
      PROVE  /\ some \in Seq(EventInCall) /\ Elements(some) \in SUBSET {event, Null}
             /\ buffer[p] \o some \in Seq(EventInCall)
             /\ Elements(buffer[p] \o some) = Elements(buffer[p]) \union Elements(some)
             /\ (emitted[p] \o buffer[p]) \o some \in Seq(EventInCall)
             /\ Elements((emitted[p] \o buffer[p]) \o some) =
                  Elements(emitted[p]) \union Elements(buffer[p]) \union Elements(some)
  <2>1. some \in Seq(EventInCall)
    BY <1>3
  <2>2. Elements(some) \in SUBSET {event, Null}
    <3>1. Elements(<<event>>) = {event} /\ Elements(<<event, Null>>) = {event, Null}
      BY ElementsOfFew
    <3>2. some = <<event>> \/ some = <<event, Null>>
      OBVIOUS
    <3>. QED BY <3>1, <3>2
  <2>3. /\ emitted[p] \o buffer[p] \in Seq(EventInCall)
        /\ Elements(emitted[p] \o buffer[p]) = Elements(emitted[p]) \union Elements(buffer[p])
    BY <1>2, ElementsTogether
  <2>4. /\ buffer[p] \o some \in Seq(EventInCall)
        /\ Elements(buffer[p] \o some) = Elements(buffer[p]) \union Elements(some)
    BY <1>2, <2>1, ElementsTogether
  <2>5. /\ (emitted[p] \o buffer[p]) \o some \in Seq(EventInCall)
        /\ Elements((emitted[p] \o buffer[p]) \o some) =
             Elements(emitted[p] \o buffer[p]) \union Elements(some)
    <3> DEFINE s == emitted[p] \o buffer[p]
    <3>1. s \in Seq(EventInCall)
      BY <2>3
    <3> HIDE DEF s
    <3>2. s \o some \in Seq(EventInCall) /\ Elements(s \o some) = Elements(s) \union Elements(some)
      BY <2>1, <3>1, ElementsTogether
    <3>. QED BY <3>2 DEF s
  <2>6. Elements((emitted[p] \o buffer[p]) \o some) =
          Elements(emitted[p]) \union Elements(buffer[p]) \union Elements(some)
    BY <2>3, <2>5
  <2>. QED BY <2>1, <2>2, <2>4, <2>5, <2>6
<1>6. ASSUME NEW some \in {<<event>>, <<event, Null>>},
             emitted' = emitted, buffer' = [buffer EXCEPT ![p] = @ \o some]
      PROVE  /\ emitted' \in [Peer -> Seq(EventInCall)] /\ buffer' \in [Peer -> Seq(EventInCall)]
             /\ \A q \in Peer : Elements(emitted'[q]) \union Elements(buffer'[q]) \in
                 SUBSET (Elements(emitted[q]) \union Elements(buffer[q]) \union
                         (IF q = p THEN {event, Null} ELSE {}))
  <2>1. emitted' \in [Peer -> Seq(EventInCall)] /\ buffer' \in [Peer -> Seq(EventInCall)]
    BY <1>5, <1>6 DEF CallTyped
  <2>2. ASSUME NEW q \in Peer
        PROVE  Elements(emitted'[q]) \union Elements(buffer'[q]) \in
                 SUBSET (Elements(emitted[q]) \union Elements(buffer[q]) \union
                         (IF q = p THEN {event, Null} ELSE {}))
    <3>1. CASE q = p
      <4>1. emitted'[q] = emitted[q] /\ buffer'[q] = buffer[p] \o some
        BY <1>6, <3>1 DEF CallTyped
      <4>. QED BY <1>5, <3>1, <4>1
    <3>2. CASE q # p
      <4>1. emitted'[q] = emitted[q] /\ buffer'[q] = buffer[q]
        BY <1>6, <3>2 DEF CallTyped
      <4>. QED BY <4>1
    <3>. QED BY <3>1, <3>2
  <2>. QED BY <2>1, <2>2
<1>7. ASSUME NEW some \in {<<event>>, <<event, Null>>},
             emitted' = [emitted EXCEPT ![p] = @ \o buffer[p] \o some],
             buffer' = [buffer EXCEPT ![p] = <<>>]
      PROVE  /\ emitted' \in [Peer -> Seq(EventInCall)] /\ buffer' \in [Peer -> Seq(EventInCall)]
             /\ \A q \in Peer : Elements(emitted'[q]) \union Elements(buffer'[q]) \in
                 SUBSET (Elements(emitted[q]) \union Elements(buffer[q]) \union
                         (IF q = p THEN {event, Null} ELSE {}))
  <2>1. emitted' \in [Peer -> Seq(EventInCall)] /\ buffer' \in [Peer -> Seq(EventInCall)]
    BY <1>3, <1>5, <1>7 DEF CallTyped
  <2>2. ASSUME NEW q \in Peer
        PROVE  Elements(emitted'[q]) \union Elements(buffer'[q]) \in
                 SUBSET (Elements(emitted[q]) \union Elements(buffer[q]) \union
                         (IF q = p THEN {event, Null} ELSE {}))
    <3>1. CASE q = p
      <4>1. emitted'[q] = (emitted[p] \o buffer[p]) \o some /\ buffer'[q] = <<>>
        BY <1>7, <3>1 DEF CallTyped
      <4>2. Elements(buffer'[q]) = {}
        BY <4>1, ElementsOfFew
      <4>3. Elements((emitted[p] \o buffer[p]) \o some) =
              Elements(emitted[p]) \union Elements(buffer[p]) \union Elements(some)
        BY <1>5
      <4>4. Elements(emitted'[q]) =
              Elements(emitted[p]) \union Elements(buffer[p]) \union Elements(some)
        BY <4>1, <4>3
      <4>5. Elements(some) \in SUBSET {event, Null}
        BY <1>5
      <4>. QED BY <3>1, <4>2, <4>4, <4>5
    <3>2. CASE q # p
      <4>1. emitted'[q] = emitted[q] /\ buffer'[q] = buffer[q]
        BY <1>7, <3>2 DEF CallTyped
      <4>. QED BY <4>1
    <3>. QED BY <3>1, <3>2
  <2>. QED BY <2>1, <2>2
<1>8. CASE UNCHANGED <<emitted, buffer>>
  BY <1>1, <1>8 DEF CallTyped, event
<1>. QED BY <1>1, <1>4, <1>6, <1>7, <1>8 DEF event

\* A step that only changes objects, not what the descriptions settle.
LEMMA QuietStays ==
  ASSUME CallInv, UNCHANGED signals, UNCHANGED <<nullThrows, localStreams>>,
         delivered' \in [Peer -> Nat],
         TypedInCall(object'), \A o \in DOMAIN object : SameMedia(object[o], object'[o]),
         \A p \in Peer, l \in Line : Grows(p, l),
         emitted' \in [Peer -> Seq(EventInCall)], buffer' \in [Peer -> Seq(EventInCall)],
         \A p \in Peer : \A e \in Elements(emitted'[p]) \union Elements(buffer'[p]) :
           e \in Elements(emitted[p]) \union Elements(buffer[p]) \/ FoundBy(p, e)'
  PROVE  CallInv'
<1>0. CallTyped /\ (\A q \in Peer : Exchanged(q)) /\ Progress
  BY DEF CallInv
<1>1. UNCHANGED <<negotiations, transceivers, remoteDescription>>
  BY DEF signals
<1>2. CallTyped'
  BY <1>0, <1>1 DEF CallTyped, TypedInCall
<1>3. Progress'
  BY <1>0, ProgressStays
<1>4. \A p \in Peer : Elements(emitted'[p]) \union Elements(buffer'[p]) \in SUBSET EventInCall
  <2>1. \A p \in Peer : emitted'[p] \in Seq(EventInCall) /\ buffer'[p] \in Seq(EventInCall)
    OBVIOUS
  <2>. QED BY <2>1, ElementsTogether
<1>5. \A q \in Peer : Exchanged(q)'
  BY <1>0, <1>1, <1>4, CountsStay, ExchangeGoesOn
<1>. QED BY <1>2, <1>3, <1>5 DEF CallInv

\* A gatherer calls: the event names a candidate that was found.
LEMMA GathererStays ==
  ASSUME CallInv, NEW p \in Peer, NEW k \in Negotiation, NEW l \in Line,
         NEW end \in BOOLEAN, LocalCandidate(p, k, l, end),
         UNCHANGED <<carried, delivered>>
  PROVE  CallInv'
<1>0. CallTyped /\ (\A q \in Peer : Exchanged(q)) /\ Progress
  BY DEF CallInv
<1>1. /\ TypedInCall(object')
      /\ object[<<p, k, l>>].gatherer = "gathering"
      /\ \A o \in DOMAIN object :
           /\ o # <<p, k, l>> => object'[o] = object[o]
           /\ SameMedia(object[o], object'[o])
           /\ object'[o].remoteCandidates = object[o].remoteCandidates
      /\ object'[<<p, k, l>>].found = IF end THEN object[<<p, k, l>>].found
                                      ELSE object[<<p, k, l>>].found + 1
  BY <1>0, GatheredObjects
<1>2. k = 1
  BY <1>0, <1>1 DEF Exchanged, GathersOnce
<1>3. UNCHANGED signals /\ UNCHANGED <<nullThrows, localStreams>>
  BY DEF LocalCandidate, signaling, media, signals
<1>4. First(p, l).found \in Nat /\ First(p, l).mid = <<Caller, 1, l>>
  BY <1>0, <1>1, <1>2 DEF Exchanged, Paired, First
<1>5. ASSUME NEW q \in Peer, NEW m \in Line PROVE Grows(q, m)
  <2>1. CASE <<q, 1, m>> = <<p, k, l>>
    <3>1. q = p /\ m = l
      BY <2>1
    <3>2. /\ First(p, l)'.found = IF end THEN First(p, l).found ELSE First(p, l).found + 1
          /\ SameMedia(First(p, l), First(p, l)')
          /\ First(p, l)'.remoteCandidates = First(p, l).remoteCandidates
          /\ First(p, l).gatherer = "gathering"
      BY <1>0, <1>1, <1>2, ObjectsOfFirst DEF First
    <3>3. First(p, l)'.found \in Nat /\ First(p, l).found <= First(p, l)'.found
      BY <1>4, <3>2
    <3>. QED BY <1>4, <3>1, <3>2, <3>3 DEF Grows, SameMedia
  <2>2. CASE <<q, 1, m>> # <<p, k, l>>
    BY <1>0, <1>1, <2>2, ObjectsOfFirst, GrowsNot DEF First
  <2>. QED BY <2>1, <2>2
<1> DEFINE event == [k |-> k, l |-> l,
                     n |-> IF end THEN 0 ELSE object[<<p, k, l>>].found + 1]
<1>6. /\ event \in EventInCall
      /\ emitted' \in [Peer -> Seq(EventInCall)] /\ buffer' \in [Peer -> Seq(EventInCall)]
      /\ \A q \in Peer : Elements(emitted'[q]) \union Elements(buffer'[q]) \in
           SUBSET (Elements(emitted[q]) \union Elements(buffer[q]) \union
                   (IF q = p THEN {event, Null} ELSE {}))
  <2>1. object[<<p, k, l>>].found \in Nat
    BY <1>2, <1>4 DEF First
  <2>. QED BY <1>0, <2>1, GatheredEvents
<1>7. ASSUME NEW e \in {event, Null} PROVE FoundBy(p, e)'
  <2>1. CASE e = Null
    BY <2>1 DEF FoundBy
  <2>2. CASE e = event
    <3>1. Grows(p, l) /\ First(p, l).gatherer # "none"
      BY <1>1, <1>2, <1>5 DEF First
    <3>2. e.k = 1 /\ e.l = l
      BY <1>2, <2>2
    <3>3. e.n <= First(p, l)'.found
      <4>1. First(p, l)'.found = IF end THEN First(p, l).found ELSE First(p, l).found + 1
        BY <1>1, <1>2 DEF First
      <4>2. e.n = IF end THEN 0 ELSE First(p, l).found + 1
        BY <1>2, <2>2 DEF First
      <4>. QED BY <1>4, <4>1, <4>2
    <3>. QED BY <3>1, <3>2, <3>3 DEF FoundBy, Grows
  <2>. QED BY <2>1, <2>2
<1> HIDE DEF event
<1>8. ASSUME NEW q \in Peer, NEW e \in Elements(emitted'[q]) \union Elements(buffer'[q])
      PROVE  e \in Elements(emitted[q]) \union Elements(buffer[q]) \/ FoundBy(q, e)'
  BY <1>6, <1>7
<1>9. delivered' \in [Peer -> Nat]
  BY <1>0 DEF CallTyped
<1>. QED BY <1>0, <1>1, <1>3, <1>5, <1>6, <1>8, <1>9, QuietStays

\* The m-line addIceCandidate finds for a candidate is the one it was found for.
LEMMA CandidateLineIsOwn ==
  ASSUME CallTyped, NEW q \in Peer, Exchanged(q), NEW l \in Line
  PROVE  CandidateLine(q, <<Caller, 1, l>>, l) = l
<1> DEFINE mid == <<Caller, 1, l>>
<1>1. ASSUME NEW m \in MidLines(q, mid) PROVE m = l
  <2>1. m \in Line /\ transceivers[q][m] # 0 /\ object[<<q, transceivers[q][m], m>>].mid = mid
    BY DEF MidLines
  <2>2. transceivers[q][m] = 1 /\ First(q, m).gatherer # "none"
    BY <2>1 DEF Exchanged, Installed
  <2>3. First(q, m).mid = <<Caller, 1, m>>
    BY <2>1, <2>2 DEF Exchanged, Paired
  <2>4. <<Caller, 1, m>> = <<Caller, 1, l>>
    BY <2>1, <2>2, <2>3 DEF First
  <2>. QED BY <2>4
<1>2. CASE MidLines(q, mid) = {}
  BY <1>2 DEF CandidateLine
<1>3. CASE MidLines(q, mid) # {}
  <2>1. MidLines(q, mid) = {l} /\ l \in Nat
    BY <1>1, <1>3, Counts
  <2>2. \E m \in MidLines(q, mid) : \A n \in MidLines(q, mid) : m <= n
    BY <2>1
  <2>. QED BY <2>1, <2>2 DEF CandidateLine
<1>. QED BY <1>2, <1>3

\* A candidate arrives: it goes to the line it was found for.
LEMMA CandidateStays ==
  ASSUME CallInv, NEW p \in Peer, GetsCandidate(p)
  PROVE  CallInv'
<1>0. CallTyped /\ (\A q \in Peer : Exchanged(q)) /\ Progress
  BY DEF CallInv
<1> DEFINE event == emitted[p][delivered[p] + 1]
           q == Other(p)
<1>1. /\ delivered' = [delivered EXCEPT ![p] = @ + 1] /\ carried' = carried
      /\ IF event = Null THEN UNCHANGED pcVars
         ELSE AddIceCandidate(q, object[<<p, event.k, event.l>>].mid, event.l, event.n)
  BY DEF GetsCandidate
<1>2. /\ UNCHANGED signals /\ UNCHANGED <<nullThrows, localStreams, emitted, buffer>>
  BY <1>1 DEF AddIceCandidate, pcVars, gathering, signaling, media, signals
<1>3. delivered' \in [Peer -> Nat]
  BY <1>0, <1>1 DEF CallTyped
<1>4. event \in Elements(emitted[p]) /\ event \in EventInCall
  <2>1. /\ delivered[p] \in Nat /\ delivered[p] < Len(emitted[p])
        /\ emitted[p] \in Seq(EventInCall)
    BY <1>0 DEF CallTyped, GetsCandidate
  <2>2. delivered[p] + 1 \in DOMAIN emitted[p]
    BY <2>1
  <2>. QED BY <2>1, <2>2 DEF Elements
<1> HIDE DEF event
<1>5. CASE event = Null
  <2>1. object' = object
    BY <1>1, <1>5 DEF pcVars
  <2>2. \A r \in Peer, l \in Line : Grows(r, l)
    BY <1>0, <2>1, GrowsNot DEF First
  <2>3. TypedInCall(object') /\ \A o \in DOMAIN object : SameMedia(object[o], object'[o])
    BY <1>0, <2>1 DEF CallTyped, TypedInCall, SameMedia
  <2>4. emitted' \in [Peer -> Seq(EventInCall)] /\ buffer' \in [Peer -> Seq(EventInCall)]
    BY <1>0, <1>2 DEF CallTyped
  <2>. QED BY <1>2, <1>3, <2>2, <2>3, <2>4, QuietStays
<1>6. CASE event # Null
  <2> DEFINE l == event.l
             mid == object[<<p, event.k, event.l>>].mid
  <2>1. l \in Line /\ event.n \in Nat
    BY <1>4, <1>6 DEF EventInCall
  <2>2. event.k = 1 /\ First(p, l).gatherer # "none" /\ event.n <= First(p, l).found
    BY <1>0, <1>4, <1>6 DEF Exchanged, FoundBy
  <2>3. mid = <<Caller, 1, l>>
    <3>1. mid = First(p, l).mid
      BY <2>2 DEF First
    <3>2. Paired(p, l)
      BY <1>0, <2>1 DEF Exchanged
    <3> HIDE DEF l, mid
    <3>. QED BY <2>2, <3>1, <3>2 DEF Paired
  <2>4. q \in Peer /\ Other(q) = p
    BY TwoEnds
  <2>5. CandidateLine(q, mid, l) = l
    BY <1>0, <2>1, <2>3, <2>4, CandidateLineIsOwn
  <2>6. AddIceCandidate(q, mid, l, event.n)
    BY <1>1, <1>6
  <2>7. \A m \in Line : transceivers[q][m] \in {0, 1}
    BY <1>0, <2>4 DEF Exchanged, Installed
  <2> HIDE DEF l, mid, q
  <2>8. /\ TypedInCall(object')
        /\ \/ object' = object
           \/ /\ transceivers[q][l] = 1
              /\ \A o \in DOMAIN object :
                    /\ SameMedia(object[o], object'[o])
                    /\ object'[o].found = object[o].found
                    /\ object'[o].gatherer = object[o].gatherer
                    /\ object'[o].remoteCandidates =
                         IF o = <<q, 1, l>>
                         THEN object[o].remoteCandidates \union {[mid |-> mid, n |-> event.n]}
                         ELSE object[o].remoteCandidates
    BY <1>0, <2>1, <2>4, <2>5, <2>6, <2>7, GivenObjects
  <2>9. \A o \in DOMAIN object : SameMedia(object[o], object'[o])
    BY <2>8 DEF SameMedia
  <2>10. ASSUME NEW r \in Peer, NEW m \in Line PROVE Grows(r, m)
    <3>1. CASE object' = object
      BY <1>0, <3>1, GrowsNot DEF First
    <3>2. CASE object' # object
      <4>0. <<r, 1, m>> \in DOMAIN object /\ Exchanged(r)
        BY <1>0, ObjectsOfFirst
      <4>1. /\ SameMedia(First(r, m), First(r, m)')
            /\ First(r, m)'.found = First(r, m).found
            /\ First(r, m)'.gatherer = First(r, m).gatherer
            /\ First(r, m)'.remoteCandidates =
                 IF <<r, 1, m>> = <<q, 1, l>>
                 THEN First(r, m).remoteCandidates \union {[mid |-> mid, n |-> event.n]}
                 ELSE First(r, m).remoteCandidates
        BY <2>8, <3>2, <4>0 DEF First
      <4>2. CASE <<r, 1, m>> = <<q, 1, l>>
        <5>1. r = q /\ m = l
          BY <4>2
        <5>2. First(r, m).gatherer # "none"
          BY <2>8, <3>2, <4>0, <5>1 DEF Exchanged, Installed
        <5>3. Paired(r, m)
          BY <4>0 DEF Exchanged
        <5>4. ASSUME NEW c \in First(r, m)'.remoteCandidates
              PROVE  \/ c \in First(r, m).remoteCandidates
                     \/ c.mid = <<Caller, 1, m>> /\ c.n \in Nat
                        /\ c.n <= First(Other(r), m).found
          BY <2>1, <2>2, <2>3, <2>4, <4>1, <4>2, <5>1
        <5>5. First(r, m)'.mid = First(r, m).mid
          BY <4>1 DEF SameMedia
        <5>6. First(r, m).found <= First(r, m)'.found /\ First(r, m)'.found \in Nat
          BY <4>1, <5>3 DEF Paired
        <5>. QED BY <4>1, <5>2, <5>3, <5>4, <5>5, <5>6 DEF Grows, Paired
      <4>3. CASE <<r, 1, m>> # <<q, 1, l>>
        <5>3. Paired(r, m)
          BY <4>0 DEF Exchanged
        <5>5. First(r, m)'.mid = First(r, m).mid
              /\ First(r, m)'.remoteCandidates = First(r, m).remoteCandidates
          BY <4>1, <4>3 DEF SameMedia
        <5>6. First(r, m).found <= First(r, m)'.found /\ First(r, m)'.found \in Nat
          BY <4>1, <5>3 DEF Paired
        <5>. QED BY <4>1, <5>3, <5>5, <5>6 DEF Grows, Paired
      <4>. QED BY <4>2, <4>3
    <3>. QED BY <3>1, <3>2
  <2>11. emitted' \in [Peer -> Seq(EventInCall)] /\ buffer' \in [Peer -> Seq(EventInCall)]
    BY <1>0, <1>2 DEF CallTyped
  <2>. QED BY <1>2, <1>3, <2>8, <2>9, <2>10, <2>11, QuietStays
<1>. QED BY <1>5, <1>6

-----------------------------------------------------------------------------
(* Stages.                                                                  *)

\* Values of caller and callee, and how one of them changes.
LEMMA PairFacts ==
  ASSUME NEW a, NEW b
  PROVE  /\ Pair(a, b)[Caller] = a /\ Pair(a, b)[Callee] = b
         /\ \A c : [Pair(a, b) EXCEPT ![Caller] = c] = Pair(c, b)
         /\ \A c : [Pair(a, b) EXCEPT ![Callee] = c] = Pair(a, c)
         /\ DOMAIN Pair(a, b) = Peer
BY TwoEnds DEF Pair

\* The list of the lines 1 .. n, and the empty one.
LEMMA ListFacts ==
  ASSUME NEW n \in Line
  PROVE  /\ n \in Nat /\ n # 0 /\ 1 .. n \in SUBSET Line
         /\ \A l \in Line : UpTo(n)[l] = (IF l \in 1 .. n THEN 1 ELSE 0)
         /\ \A l \in Line : UpTo(n)[l] \in {0, 1} /\ NoTransceivers[l] = 0
BY BoundsAssumption DEF UpTo, Line, NoTransceivers

\* The lines of an offer.
OfferedLine == {s \in [kind : Kind, track : BOOLEAN, wantReceive : BOOLEAN] :
                  s.track = FALSE => s.wantReceive = TRUE}

\* Whatever the stream and the options, the offer has lines of that form.
LEMMA OfferedLinesAre ==
  ASSUME NEW stream \in Seq(Kind), NEW options \in [Kind -> Int]
  PROVE  OfferedLines(stream, options) \in Seq(OfferedLine)
<1> DEFINE Count(kind, n) == Cardinality({i \in 1 .. n : stream[i] = kind})
           Wanted(kind) == IF options[kind] = -1 THEN Count(kind, Len(stream))
                           ELSE options[kind]
           Left(kind) == LET n == Wanted(kind) - Count(kind, Len(stream))
                         IN IF n > 0 THEN n ELSE 0
           Last == IF Left("audio") > Left("video") THEN "audio" ELSE "video"
           paired == IF Last = "audio" THEN 2 * Left("video") ELSE 2 * Left("audio")
           A == [i \in DOMAIN stream |->
                  [kind |-> stream[i], track |-> TRUE,
                   wantReceive |-> Wanted(stream[i]) > Count(stream[i], i - 1)]]
           B == [j \in 1 .. Left("audio") + Left("video") |->
                  [kind |-> IF j > paired THEN Last
                            ELSE IF j % 2 = 1 THEN "audio" ELSE "video",
                   track |-> FALSE, wantReceive |-> TRUE]]
<1>1. OfferedLines(stream, options) = A \o B
  BY DEF OfferedLines
<1>2. ASSUME NEW kind, NEW n \in Int PROVE Count(kind, n) \in Nat
  <2>1. IsFiniteSet(1 .. n) /\ {i \in 1 .. n : stream[i] = kind} \in SUBSET (1 .. n)
    BY FS_Interval
  <2>. QED BY <2>1, FS_Subset, FS_CardinalityType
<1>3. Len(stream) \in Nat /\ DOMAIN stream = 1 .. Len(stream)
      /\ \A i \in DOMAIN stream : stream[i] \in Kind
  OBVIOUS
<1> HIDE DEF Count
<1>4. ASSUME NEW kind \in Kind PROVE Left(kind) \in Nat
  <2>1. Count(kind, Len(stream)) \in Int /\ options[kind] \in Int
    BY <1>2, <1>3
  <2>2. Wanted(kind) \in Int
    BY <2>1
  <2> HIDE DEF Wanted
  <2>. QED BY <2>1, <2>2
<1>5. A \in Seq(OfferedLine)
  <2> HIDE DEF Wanted
  <2>1. A \in [1 .. Len(stream) -> OfferedLine]
    BY <1>3 DEF OfferedLine
  <2>. QED BY <1>3, <2>1, SeqDef
<1>6. B \in Seq(OfferedLine)
  <2>1. Left("audio") + Left("video") \in Nat
    <3>1. Left("audio") \in Nat /\ Left("video") \in Nat
      BY <1>4 DEF Kind
    <3> HIDE DEF Left
    <3>. QED BY <3>1
  <2>2. Last \in Kind
    BY DEF Kind
  <2> HIDE DEF Left, Last, paired
  <2>3. ASSUME NEW j \in 1 .. Left("audio") + Left("video") PROVE B[j] \in OfferedLine
    BY <2>2, <2>3 DEF OfferedLine, Kind
  <2> HIDE DEF B
  <2>4. B \in [1 .. Left("audio") + Left("video") -> OfferedLine]
    <3>1. B = [j \in 1 .. Left("audio") + Left("video") |-> B[j]]
      BY DEF B
    <3>. QED BY <2>3, <3>1
  <2>5. \E n \in Nat : B \in [1 .. n -> OfferedLine]
    BY <2>1, <2>4
  <2>. QED BY <2>5, SeqDef
<1> HIDE DEF A, B
<1>. QED BY <1>1, <1>5, <1>6

\* The first stream is a sequence of kinds.
LEMMA StreamOfCaller ==
  ASSUME CallTyped
  PROVE  \A p \in Peer : FirstStream(p) \in Seq(Kind)
<1> SUFFICES ASSUME NEW p \in Peer PROVE FirstStream(p) \in Seq(Kind)
  OBVIOUS
<1>1. CASE localStreams[p] = <<>>
  BY <1>1 DEF FirstStream
<1>2. ASSUME NEW s \in Streams, localStreams[p] = <<s>>
      PROVE  FirstStream(p) \in Seq(Kind)
  <2>1. <<s>>[1] = s /\ <<s>> # <<>> /\ s \in Seq(Kind)
    BY InputsAssumption DEF Kind
  <2>. QED BY <1>2, <2>1 DEF FirstStream
<1>. QED BY <1>1, <1>2 DEF CallTyped

\* Signals carry no candidate and leave the timeouts' part of the state alone.
LEMMA SignalStays ==
  ASSUME CallInv, TypedInCall(object'), Progress',
         UNCHANGED <<nullThrows, localStreams, delivered, emitted, buffer>>,
         DOMAIN remoteDescription' = Peer,
         \A p \in Peer, l \in Line : Grows(p, l),
         \A p \in Peer : NothingMade(p)' /\ GathersOnce(p)',
         \A p \in Peer, l \in Line : Installed(p, l)'
  PROVE  CallInv'
<1>0. CallTyped /\ (\A q \in Peer : Exchanged(q)) /\ Progress
  BY DEF CallInv
<1>1. CallTyped'
  BY <1>0 DEF CallTyped, TypedInCall
<1>2. \A p \in Peer : Elements(emitted'[p]) \union Elements(buffer'[p]) \in SUBSET EventInCall
  BY <1>0, EventsOf
<1>3. \A q \in Peer : Exchanged(q)'
  BY <1>0, <1>2, ExchangeGoesOn
<1>. QED BY <1>1, <1>3 DEF CallInv

\* Only an idle call has not been offered.
LEMMA WhichStage ==
  ASSUME Progress
  PROVE  /\ negotiations[Caller] = 0 => Idle
         /\ pendingOffer[Caller] # {} => \E n \in Line : Created(n)
         /\ carried[Caller] # {} => \E n \in Line : Offered(n)
         /\ signalingState[Callee] = "have-remote-offer" => \E n \in Line : Received(n)
         /\ carried[Callee] # {} => \E n \in Line : Answered(n)
<1>1. \A s, t, c, d, e, f, g, h, i, j :
        Stage(Pair(s, t), Pair(c, d), Pair(e, f), Pair(g, h), Pair(i, j)) =>
          /\ signalingState[Callee] = t /\ negotiations[Caller] = c
          /\ pendingOffer[Caller] = e /\ carried[Caller] = i /\ carried[Callee] = j
  BY PairFacts DEF Stage
<1>2. CASE Idle
  BY <1>1, <1>2 DEF Idle
<1>3. ASSUME NEW n \in Line, Created(n)
      PROVE  /\ negotiations[Caller] # 0 /\ pendingOffer[Caller] # {}
             /\ carried[Caller] = {} /\ carried[Callee] = {}
             /\ signalingState[Callee] # "have-remote-offer"
  BY <1>1, <1>3 DEF Created
<1>4. ASSUME NEW n \in Line, Offered(n)
      PROVE  /\ negotiations[Caller] # 0 /\ pendingOffer[Caller] = {}
             /\ carried[Callee] = {}
             /\ signalingState[Callee] # "have-remote-offer"
  BY <1>1, <1>4 DEF Offered
<1>5. ASSUME NEW n \in Line, Received(n)
      PROVE  /\ negotiations[Caller] # 0 /\ pendingOffer[Caller] = {}
             /\ carried[Caller] = {} /\ carried[Callee] = {}
  BY <1>1, <1>5 DEF Received
<1>6. ASSUME NEW n \in Line, Answered(n)
      PROVE  /\ negotiations[Caller] # 0 /\ pendingOffer[Caller] = {}
             /\ carried[Caller] = {}
             /\ signalingState[Callee] # "have-remote-offer"
  BY <1>1, <1>6 DEF Answered
<1>7. ASSUME NEW n \in Line, Accepted(n)
      PROVE  /\ negotiations[Caller] # 0 /\ pendingOffer[Caller] = {}
             /\ carried[Caller] = {} /\ carried[Callee] = {}
             /\ signalingState[Callee] # "have-remote-offer"
  BY <1>1, <1>7 DEF Accepted
<1>. QED BY <1>2, <1>3, <1>4, <1>5, <1>6, <1>7 DEF Progress

-----------------------------------------------------------------------------
(* The offer, from the caller to the callee.                                *)

\* What an m-section says.
LEMMA SectionFacts ==
  ASSUME NEW t, NEW codecs
  PROVE  LET s == MediaSection(t, codecs)
         IN /\ s.kind = t.kind /\ s.mid = t.mid /\ s.codecs = codecs
            /\ s.rejected = (codecs = <<>>) /\ s.send = (t.sender # "none")
            /\ s.receive = t.receiver
BY DEF MediaSection

\* createOffer: an idle call gets its transceivers.
LEMMA CreatesOfferStays ==
  ASSUME CallInv, CallerCreatesOffer
  PROVE  CallInv' /\ Idle /\ \E n \in Line : Created(n)'
<1>0. CallTyped /\ (\A q \in Peer : Exchanged(q)) /\ Progress
  BY DEF CallInv
<1>1. Idle
  BY <1>0, WhichStage DEF CallerCreatesOffer
<1>2. PICK options \in OfferOptions :
        OfferedLines(FirstStream(Caller), options) # <<>> /\ CreateOffer(Caller, options)
  BY DEF CallerCreatesOffer
<1> DEFINE lines == OfferedLines(FirstStream(Caller), options)
<1>n. PICK n : n = Len(lines)
  OBVIOUS
<1> DEFINE New(o) == NewTransceiver(lines[o[3]].kind, o, Codecs[Caller][lines[o[3]].kind],
                 IF lines[o[3]].track THEN "track" ELSE "none",
                 lines[o[3]].wantReceive)
<1>3. lines \in Seq(OfferedLine)
  <2>1. options \in [Kind -> Int]
    BY InputsAssumption DEF Kind
  <2>. QED BY <1>0, <2>1, TwoEnds, StreamOfCaller, OfferedLinesAre
<1>4. /\ lines # <<>> /\ n <= NumLines /\ negotiations[Caller] = 0
      /\ negotiations' = [negotiations EXCEPT ![Caller] = 1]
      /\ pendingOffer' = [pendingOffer EXCEPT ![Caller] =
            {[l \in Line |-> IF l <= n THEN 1 ELSE 0]}]
      /\ object' = [o \in DOMAIN object |->
            IF o[1] = Caller /\ o[2] = 1 /\ o[3] <= n THEN New(o) ELSE object[o]]
      /\ UNCHANGED <<gathering, signaling, timeouts, localStreams, transceivers,
                     iceConnectionState, nullThrows, carried, delivered>>
  <2>1. negotiations[Caller] = 0 /\ negotiations[Caller] + 1 = 1
    BY DEF CallerCreatesOffer
  <2>2. UNCHANGED <<carried, delivered>>
    BY DEF CallerCreatesOffer
  <2>. QED BY <1>2, <1>n, <2>1, <2>2 DEF CreateOffer
<1>5. n \in Line /\ n \in Nat
  <2>1. n \in Nat /\ n # 0
    BY <1>3, <1>4, <1>n
  <2>. QED BY <1>4, <2>1, BoundsAssumption DEF Line
<1>6. \A l \in 1 .. n : lines[l] \in OfferedLine
  BY <1>3, <1>n
<1> HIDE DEF lines
<1>7. UNCHANGED <<emitted, buffer, signalingState, remoteDescription>>
  BY <1>4 DEF gathering, signaling
<1>8. ASSUME NEW o PROVE DOMAIN New(o) = Fields
  BY DEF NewTransceiver, Fields
<1>9. ASSUME NEW l \in Line
      PROVE  /\ First(Callee, l)' = First(Callee, l)
             /\ First(Caller, l)' = IF l \in 1 .. n THEN New(<<Caller, 1, l>>)
                                    ELSE First(Caller, l)
  <2>1. <<Callee, 1, l>> \in DOMAIN object /\ <<Caller, 1, l>> \in DOMAIN object
    BY <1>0, TwoEnds, ObjectsOfFirst
  <2>2. l \in 1 .. n <=> l <= n
    BY <1>5, Counts
  <2> HIDE DEF New
  <2>. QED BY <1>4, <2>1, <2>2, TwoEnds DEF First
<1>10. TypedInCall(object')
  <2> HIDE DEF New
  <2>. QED BY <1>0, <1>4, <1>8 DEF CallTyped, TypedInCall
<1>11. ASSUME NEW l \in 1 .. n
       PROVE  /\ First(Caller, l)'.kind = lines[l].kind
              /\ First(Caller, l)'.mid = <<Caller, 1, l>>
              /\ First(Caller, l)'.local = Codecs[Caller][lines[l].kind]
              /\ First(Caller, l)'.sender = (IF lines[l].track THEN "track" ELSE "none")
              /\ First(Caller, l)'.receiver = lines[l].wantReceive
              /\ First(Caller, l)'.sending = <<>> /\ First(Caller, l)'.receiving = <<>>
              /\ First(Caller, l)'.gatherer = "gathering"
              /\ First(Caller, l)'.found = 0 /\ First(Caller, l)'.remoteCandidates = {}
  <2>1. l \in Line
    BY <1>5, ListFacts
  <2>. QED BY <1>9, <2>1 DEF NewTransceiver
<1>12. ASSUME NEW l \in 1 .. n PROVE Offering(l)'
  BY <1>6, <1>11 DEF Offering, Mine, OfferedLine
<1>13. Created(n)'
  <2>1. Stage(Pair("stable", "stable"), Pair(0, 0), Pair({}, {}),
           Pair(NoTransceivers, NoTransceivers), Pair({}, {}))
    BY <1>1 DEF Idle
  <2>2. pendingOffer' = [pendingOffer EXCEPT ![Caller] = {UpTo(n)}]
    BY <1>4 DEF UpTo
  <2>3. Stage(Pair("stable", "stable"), Pair(1, 0), Pair({UpTo(n)}, {}),
           Pair(NoTransceivers, NoTransceivers), Pair({}, {}))'
    <3>1. signalingState' = Pair("stable", "stable") /\ transceivers' = Pair(NoTransceivers, NoTransceivers)
          /\ carried' = Pair({}, {})
      BY <1>4, <1>7, <2>1 DEF Stage
    <3>2. negotiations' = Pair(1, 0)
      BY <1>4, <2>1, PairFacts DEF Stage
    <3>3. pendingOffer' = Pair({UpTo(n)}, {})
      <4>1. pendingOffer = Pair({}, {})
        BY <2>1 DEF Stage
      <4>2. \A c : [Pair({}, {}) EXCEPT ![Caller] = c] = Pair(c, {})
        BY PairFacts
      <4>. QED BY <2>2, <4>1, <4>2
    <3>. QED BY <3>1, <3>2, <3>3 DEF Stage
  <2>4. Unheard(Caller)' /\ Unheard(Callee)'
    BY <1>1, <1>7 DEF Idle, Unheard
  <2>. QED BY <1>12, <2>3, <2>4 DEF Created
<1>14. Progress'
  BY <1>5, <1>13 DEF Progress
<1>15. ASSUME NEW p \in Peer, NEW l \in Line PROVE Grows(p, l)
  <2>1. CASE p = Caller /\ l \in 1 .. n
    <3>1. First(p, l).gatherer = "none" /\ Paired(p, l)
      BY <1>0, <1>4, <2>1 DEF Exchanged, NothingMade
    <3>. QED BY <1>11, <2>1, <3>1 DEF Grows, Paired
  <2>2. CASE ~(p = Caller /\ l \in 1 .. n)
    <3>1. First(p, l)' = First(p, l)
      BY <1>9, <2>2, TwoEnds
    <3>. QED BY <1>0, <3>1, GrowsNot
  <2>. QED BY <2>1, <2>2
<1>16. ASSUME NEW p \in Peer PROVE NothingMade(p)' /\ GathersOnce(p)'
  <2>1. GathersOnce(p)'
    <3> HIDE DEF New
    <3>. QED BY <1>0, <1>4 DEF Exchanged, GathersOnce, CallTyped
  <2>2. negotiations'[Caller] = 1 /\ negotiations'[Callee] = negotiations[Callee]
    BY <1>1, <1>4, PairFacts, TwoEnds DEF Idle, Stage
  <2>3. CASE p = Caller
    BY <2>1, <2>2, <2>3 DEF NothingMade
  <2>4. CASE p = Callee
    BY <1>0, <1>9, <2>1, <2>2, <2>4 DEF NothingMade, Exchanged
  <2>. QED BY <2>3, <2>4, TwoEnds
<1>17. ASSUME NEW p \in Peer, NEW l \in Line PROVE Installed(p, l)'
  <2>1. transceivers[p][l] = 0
    <3>1. transceivers = Pair(NoTransceivers, NoTransceivers)
      BY <1>1 DEF Idle, Stage
    <3>. QED BY <3>1, TwoEnds, PairFacts DEF NoTransceivers
  <2>. QED BY <1>4, <2>1 DEF Installed
<1>18. UNCHANGED <<nullThrows, localStreams, delivered, emitted, buffer>>
  BY <1>4, <1>7
<1>19. DOMAIN remoteDescription' = Peer
  BY <1>0, <1>7 DEF CallTyped
<1>20. CallInv'
  BY <1>10, <1>14, <1>15, <1>16, <1>17, <1>18, <1>19, SignalStays
<1>. QED BY <1>1, <1>5, <1>13, <1>20

\* A step of the signaling that makes no transceiver.
LEMMA KeptStays ==
  ASSUME CallInv, TypedInCall(object'), Progress',
         UNCHANGED <<nullThrows, localStreams, delivered, emitted, buffer, negotiations>>,
         DOMAIN remoteDescription' = Peer,
         \A o \in DOMAIN object :
           /\ object'[o].mid = object[o].mid /\ object'[o].gatherer = object[o].gatherer
           /\ object'[o].found = object[o].found
           /\ object'[o].remoteCandidates = object[o].remoteCandidates,
         \A p \in Peer, l \in Line :
           /\ transceivers'[p][l] \in {0, 1}
           /\ transceivers'[p][l] = 1 => First(p, l).gatherer # "none"
  PROVE  CallInv'
<1>0. CallTyped /\ (\A q \in Peer : Exchanged(q)) /\ Progress
  BY DEF CallInv
<1>1. ASSUME NEW p \in Peer, NEW l \in Line
      PROVE  /\ First(p, l)'.mid = First(p, l).mid
             /\ First(p, l)'.gatherer = First(p, l).gatherer
             /\ First(p, l)'.found = First(p, l).found
             /\ First(p, l)'.remoteCandidates = First(p, l).remoteCandidates
  BY <1>0, ObjectsOfFirst DEF First
<1>2. ASSUME NEW p \in Peer, NEW l \in Line PROVE Grows(p, l)
  <2>1. Paired(p, l)
    BY <1>0 DEF Exchanged
  <2>2. First(p, l).found <= First(p, l).found
    BY <2>1 DEF Paired
  <2>. QED BY <1>1, <2>1, <2>2 DEF Paired, Grows
<1>3. \A p \in Peer : NothingMade(p)' /\ GathersOnce(p)'
  <2>1. \A p \in Peer : NothingMade(p)'
    BY <1>0, <1>1 DEF Exchanged, NothingMade
  <2>2. \A p \in Peer : GathersOnce(p)'
    BY <1>0 DEF Exchanged, GathersOnce, CallTyped
  <2>. QED BY <2>1, <2>2
<1>4. \A p \in Peer, l \in Line : Installed(p, l)'
  BY <1>1 DEF Installed
<1>. QED BY <1>2, <1>3, <1>4, SignalStays

\* The objects of the lines 1 .. n.
LEMMA ObjectsOfUpTo ==
  ASSUME NEW p \in Peer, NEW n \in Line
  PROVE  /\ Objects(p, UpTo(n)) = {<<p, 1, l>> : l \in 1 .. n}
         /\ Cardinality(Objects(p, UpTo(n))) = n
<1>1. Objects(p, UpTo(n)) = {<<p, 1, l>> : l \in 1 .. n}
  <2>1. \A l \in Line : UpTo(n)[l] \in {0, 1}
    BY ListFacts
  <2>2. {m \in Line : UpTo(n)[m] = 1} = 1 .. n
    BY ListFacts
  <2>. QED BY <2>1, <2>2, ObjectsOfList
<1> DEFINE f == [l \in 1 .. n |-> <<p, 1, l>>]
           T == {<<p, 1, l>> : l \in 1 .. n}
<1>2. f \in Bijection(1 .. n, T)
  BY DEF Bijection, Injection, Surjection, IsInjective
<1>3. ExistsBijection(1 .. n, T)
  BY <1>2 DEF ExistsBijection
<1>4. IsFiniteSet(1 .. n) /\ Cardinality(1 .. n) = n
  BY ListFacts, FS_Interval
<1> HIDE DEF T
<1>5. Cardinality(T) = n
  BY <1>3, <1>4, FS_Bijection
<1>. QED BY <1>1, <1>5 DEF T

\* The offer is set and sent: it says what the transceivers are.
LEMMA SendsOfferStays ==
  ASSUME CallInv, CallerSendsOffer
  PROVE  CallInv' /\ \E n \in Line : Created(n) /\ Offered(n)'
<1>0. CallTyped /\ (\A q \in Peer : Exchanged(q)) /\ Progress
  BY DEF CallInv
<1>1. PICK list \in pendingOffer[Caller] :
        /\ SetLocalOffer(Caller, OfferOf(Caller, list), FALSE)
        /\ carried' = [carried EXCEPT ![Caller] = {OfferOf(Caller, list)}]
  BY DEF CallerSendsOffer
<1>2. PICK n \in Line : Created(n)
  BY <1>0, <1>1, WhichStage
<1>3. Stage(Pair("stable", "stable"), Pair(1, 0), Pair({UpTo(n)}, {}),
            Pair(NoTransceivers, NoTransceivers), Pair({}, {}))
  BY <1>2 DEF Created
<1>4. pendingOffer[Caller] = {UpTo(n)} /\ list = UpTo(n)
  BY <1>1, <1>3, PairFacts DEF Stage
<1>d. PICK d : d = OfferOf(Caller, UpTo(n))
  OBVIOUS
<1>5. /\ object' = [o \in DOMAIN object |->
               IF o \in Objects(Caller, UpTo(n)) /\ o[3] \in DOMAIN d.sections
               THEN [object[o] EXCEPT !.local = d.sections[o[3]].codecs]
               ELSE object[o]]
      /\ transceivers' = [transceivers EXCEPT ![Caller] = UpTo(n)]
      /\ pendingOffer' = [pendingOffer EXCEPT ![Caller] = {}]
      /\ LocalDescriptionSet(Caller, d, "have-local-offer", FALSE)
  BY <1>1, <1>4, <1>d DEF SetLocalOffer
<1>6. /\ carried' = [carried EXCEPT ![Caller] = {d}] /\ delivered' = delivered
  BY <1>1, <1>4, <1>d DEF CallerSendsOffer
<1>7. /\ signalingState' = [signalingState EXCEPT ![Caller] = "have-local-offer"]
      /\ UNCHANGED <<remoteDescription, buffer, emitted, localStreams, negotiations, nullThrows>>
  BY <1>5 DEF LocalDescriptionSet
<1>8. \A l \in 1 .. n : l \in Line /\ UpTo(n)[l] = 1 /\ Offering(l)
  BY <1>2, ListFacts DEF Created
<1>9. d = [type |-> "offer",
           sections |-> [l \in 1 .. n |-> MediaSection(object[<<Caller, UpTo(n)[l], l>>],
                                            object[<<Caller, UpTo(n)[l], l>>].local)]]
  BY <1>d, ObjectsOfUpTo, TwoEnds DEF OfferOf
<1>10. /\ d.type = "offer" /\ DOMAIN d.sections = 1 .. n
       /\ \A l \in 1 .. n : d.sections[l] = MediaSection(First(Caller, l), First(Caller, l).local)
  BY <1>8, <1>9 DEF First
<1>11. IsOffer(d, n)
  <2>1. ASSUME NEW l \in 1 .. n
        PROVE  LET t == First(Caller, l)
                   s == d.sections[l]
               IN /\ s.kind = t.kind /\ s.mid = t.mid /\ s.codecs = t.local
                  /\ s.rejected = (t.local = <<>>) /\ s.send = (t.sender # "none")
    BY <1>10, SectionFacts
  <2>2. \A l \in 1 .. n : First(Caller, l).local = Mine(l)
    BY <1>8 DEF Offering
  <2>. QED BY <1>10, <2>1, <2>2 DEF IsOffer
<1>12. ASSUME NEW o \in DOMAIN object
       PROVE  /\ DOMAIN object'[o] = Fields /\ SameMedia(object[o], object'[o])
              /\ object'[o].gatherer = object[o].gatherer /\ object'[o].found = object[o].found
              /\ object'[o].remoteCandidates = object[o].remoteCandidates
  <2>1. DOMAIN object[o] = Fields
    BY <1>0 DEF CallTyped
  <2>2. CASE o \in Objects(Caller, UpTo(n)) /\ o[3] \in DOMAIN d.sections
    <3>1. PICK l \in 1 .. n : o = <<Caller, 1, l>>
      BY <2>2, ObjectsOfUpTo, TwoEnds
    <3>2. object'[o] = [object[o] EXCEPT !.local = d.sections[l].codecs]
      BY <1>5, <2>2, <3>1
    <3>3. d.sections[l].codecs = object[o].local
      BY <1>10, <3>1, SectionFacts DEF First
    <3>. QED BY <2>1, <3>2, <3>3 DEF SameMedia, Fields
  <2>3. CASE ~(o \in Objects(Caller, UpTo(n)) /\ o[3] \in DOMAIN d.sections)
    <3>1. object'[o] = object[o]
      BY <1>5, <2>3
    <3>. QED BY <2>1, <3>1 DEF SameMedia
  <2>. QED BY <2>2, <2>3
<1>13. TypedInCall(object')
  BY <1>0, <1>5, <1>12 DEF CallTyped, TypedInCall
<1>14. Offered(n)'
  <2>1. Stage(Pair("have-local-offer", "stable"), Pair(1, 0), Pair({}, {}),
                     Pair(UpTo(n), NoTransceivers), Pair({d}, {}))'
    <3>1. signalingState' = Pair("have-local-offer", "stable") /\ negotiations' = Pair(1, 0)
      BY <1>3, <1>7, PairFacts DEF Stage
    <3>2. pendingOffer' = Pair({}, {})
      BY <1>3, <1>5, PairFacts DEF Stage
    <3>3. transceivers' = Pair(UpTo(n), NoTransceivers)
      BY <1>3, <1>5, PairFacts DEF Stage
    <3>4. carried' = Pair({d}, {})
      BY <1>3, <1>6, PairFacts DEF Stage
    <3>. QED BY <3>1, <3>2, <3>3, <3>4 DEF Stage
  <2>2. \A e : IsOffer(e, n) => IsOffer(e, n)'
    BY <1>0, <1>12, LinesStay
  <2>3. \A l \in 1 .. n : Offering(l)'
    BY <1>0, <1>8, <1>12, LinesStay
  <2>4. Unheard(Caller)' /\ Unheard(Callee)'
    BY <1>2, <1>7 DEF Created, Unheard
  <2>5. \E e : /\ IsOffer(e, n)'
               /\ Stage(Pair("have-local-offer", "stable"), Pair(1, 0), Pair({}, {}),
                     Pair(UpTo(n), NoTransceivers), Pair({e}, {}))'
    BY <1>11, <2>1, <2>2
  <2>. QED BY <2>3, <2>4, <2>5 DEF Offered
<1>15. Progress'
  BY <1>14 DEF Progress
<1>16. ASSUME NEW p \in Peer, NEW l \in Line
       PROVE  /\ transceivers'[p][l] \in {0, 1}
              /\ transceivers'[p][l] = 1 => First(p, l).gatherer # "none"
  <2>1. transceivers' = Pair(UpTo(n), NoTransceivers)
    BY <1>3, <1>5, PairFacts DEF Stage
  <2>2. CASE p = Caller
    BY <1>8, <2>1, <2>2, ListFacts, PairFacts DEF Offering
  <2>3. CASE p = Callee
    BY <2>1, <2>3, ListFacts, PairFacts
  <2>. QED BY <2>2, <2>3, TwoEnds
<1>17. CallInv'
  <2>1. \A o \in DOMAIN object :
           /\ object'[o].mid = object[o].mid /\ object'[o].gatherer = object[o].gatherer
           /\ object'[o].found = object[o].found
           /\ object'[o].remoteCandidates = object[o].remoteCandidates
    BY <1>12 DEF SameMedia
  <2>2. UNCHANGED <<nullThrows, localStreams, delivered, emitted, buffer, negotiations>>
    BY <1>6, <1>7
  <2>3. DOMAIN remoteDescription' = Peer
    BY <1>0, <1>7 DEF CallTyped
  <2>. QED BY <1>13, <1>15, <1>16, <2>1, <2>2, <2>3, KeptStays
<1>. QED BY <1>2, <1>14, <1>17

\* The callee sets the offer: each line it accepts gets its transceiver.
LEMMA GetsOfferStays ==
  ASSUME CallInv, CalleeGetsOffer
  PROVE  CallInv' /\ \E n \in Line : Offered(n) /\ Received(n)'
<1>0. CallTyped /\ (\A q \in Peer : Exchanged(q)) /\ Progress
  BY DEF CallInv
<1>1. PICK d \in carried[Caller] : SetRemoteOffer(Callee, d)
  BY DEF CalleeGetsOffer
<1>2. PICK n \in Line : Offered(n)
  BY <1>0, <1>1, WhichStage
<1>3. /\ Stage(Pair("have-local-offer", "stable"), Pair(1, 0), Pair({}, {}),
               Pair(UpTo(n), NoTransceivers), Pair({d}, {}))
      /\ IsOffer(d, n)
  <2>1. PICK e : /\ IsOffer(e, n)
                 /\ Stage(Pair("have-local-offer", "stable"), Pair(1, 0), Pair({}, {}),
                          Pair(UpTo(n), NoTransceivers), Pair({e}, {}))
    BY <1>2 DEF Offered
  <2>2. carried[Caller] = {e}
    BY <2>1, PairFacts DEF Stage
  <2>3. d = e
    BY <1>1, <2>2
  <2>. QED BY <2>1, <2>3
<1>4. /\ negotiations[Callee] = 0 /\ transceivers[Callee] = NoTransceivers
      /\ negotiations = Pair(1, 0) /\ transceivers = Pair(UpTo(n), NoTransceivers)
  BY <1>3, PairFacts DEF Stage
<1> DEFINE accepted == {l \in DOMAIN d.sections : ~d.sections[l].rejected}
           list == [l \in Line |-> IF l \in accepted THEN 1 ELSE 0]
           Plain(l) == NewTransceiver(d.sections[l].kind, d.sections[l].mid,
                         Codecs[Callee][d.sections[l].kind], AnsweringSender(Callee, l), TRUE)
           New(l) == [Plain(l) EXCEPT !.remote = {d.sections[l].codecs},
                        !.receiving = IF d.sections[l].send
                          THEN CommonCodecs(Plain(l).local, d.sections[l].codecs) ELSE <<>>]
<1>5. /\ negotiations' = [negotiations EXCEPT ![Callee] = 1]
      /\ transceivers' = [transceivers EXCEPT ![Callee] =
           [l \in Line |-> IF l \in accepted THEN 1 ELSE transceivers[Callee][l]]]
      /\ object' = [o \in DOMAIN object |->
           IF o[1] = Callee /\ o[2] = 1 /\ o[3] \in accepted
           THEN New(o[3]) ELSE object[o]]
      /\ RemoteDescriptionSet(Callee, d, "have-remote-offer", Cardinality(accepted))
  <2>1. negotiations[Callee] + 1 = 1
    BY <1>4
  <2>2. DOMAIN transceivers = Peer
    BY <1>4, PairFacts
  <2>. QED BY <1>1, <2>1, <2>2, TwoEnds DEF SetRemoteOffer
<1>6. /\ remoteDescription' = [remoteDescription EXCEPT ![Callee] = d]
      /\ signalingState' = [signalingState EXCEPT ![Callee] = "have-remote-offer"]
      /\ UNCHANGED <<emitted, buffer, localStreams, pendingOffer, nullThrows>>
  BY <1>5 DEF RemoteDescriptionSet, gathering
<1>7. carried' = [carried EXCEPT ![Caller] = {}] /\ delivered' = delivered
  BY DEF CalleeGetsOffer
<1>8. \A l \in 1 .. n : l \in Line /\ Offering(l)
  BY <1>2, ListFacts DEF Offered
<1>9. /\ DOMAIN d.sections = 1 .. n
      /\ \A l \in 1 .. n : /\ d.sections[l].kind = First(Caller, l).kind
                           /\ d.sections[l].mid = <<Caller, 1, l>>
                           /\ d.sections[l].codecs = Mine(l)
                           /\ d.sections[l].rejected <=> Mine(l) = <<>>
                           /\ d.sections[l].send <=> First(Caller, l).sender # "none"
  BY <1>3, <1>8 DEF IsOffer, Offering
<1>10. accepted \in SUBSET (1 .. n) /\ \A l \in 1 .. n : l \in accepted <=> Mine(l) # <<>>
  BY <1>9
<1>11. transceivers' = [transceivers EXCEPT ![Callee] = list]
  <2>1. \A l \in Line : transceivers[Callee][l] = 0
    BY <1>4, ListFacts, <1>2
  <2>. QED BY <1>5, <2>1
<1>12. \A l : DOMAIN Plain(l) = Fields
  BY DEF NewTransceiver, Fields
<1>13. ASSUME NEW l PROVE DOMAIN New(l) = Fields
  <2>1. DOMAIN Plain(l) = Fields
    BY <1>12
  <2> HIDE DEF Plain
  <2>. QED BY <2>1
<1>14. ASSUME NEW l \in accepted
       PROVE  LET u == New(l)
              IN /\ u.kind = First(Caller, l).kind /\ u.mid = <<Caller, 1, l>>
                 /\ u.local = Theirs(l) /\ u.remote = {Mine(l)} /\ u.receiver = TRUE
                 /\ u.receiving = IF First(Caller, l).sender # "none" THEN Common(l) ELSE <<>>
                 /\ u.sending = <<>> /\ u.gatherer = "gathering" /\ u.found = 0
                 /\ u.remoteCandidates = {}
  <2>1. LET u == Plain(l)
        IN /\ u.kind = First(Caller, l).kind /\ u.mid = <<Caller, 1, l>>
           /\ u.local = Theirs(l) /\ u.receiver = TRUE
           /\ u.sending = <<>> /\ u.gatherer = "gathering" /\ u.found = 0
           /\ u.remoteCandidates = {}
    BY <1>9, <1>10 DEF NewTransceiver, Theirs
  <2>2. DOMAIN Plain(l) = Fields
    BY <1>12
  <2> HIDE DEF Plain
  <2>3. New(l).remote = {Mine(l)}
    BY <1>9, <1>10, <2>2 DEF Fields
  <2>4. New(l).receiving = IF First(Caller, l).sender # "none" THEN Common(l) ELSE <<>>
    <3>1. New(l).receiving = IF d.sections[l].send
                          THEN CommonCodecs(Plain(l).local, d.sections[l].codecs) ELSE <<>>
      BY <2>2 DEF Fields
    <3> HIDE DEF New
    <3>. QED BY <1>9, <1>10, <2>1, <3>1 DEF Common
  <2>. QED BY <2>1, <2>2, <2>3, <2>4 DEF Fields
<1> HIDE DEF New, Plain, accepted
<1>15. ASSUME NEW l \in Line
       PROVE  /\ First(Caller, l)' = First(Caller, l)
              /\ First(Callee, l)' = IF l \in accepted THEN New(l) ELSE First(Callee, l)
  <2>1. <<Callee, 1, l>> \in DOMAIN object /\ <<Caller, 1, l>> \in DOMAIN object
    BY <1>0, TwoEnds, ObjectsOfFirst
  <2>. QED BY <1>5, <2>1, TwoEnds DEF First
<1>16. TypedInCall(object')
  BY <1>0, <1>5, <1>13 DEF CallTyped, TypedInCall
<1>17. /\ \A l \in Line : Mine(l)' = Mine(l) /\ Theirs(l)' = Theirs(l) /\ Common(l)' = Common(l)
                          /\ (Offering(l) => Offering(l)')
       /\ IsOffer(d, n) => IsOffer(d, n)'
  <2>1. \A l \in Line : SameMedia(First(Caller, l), First(Caller, l)')
    BY <1>15 DEF SameMedia
  <2>. QED BY <2>1, OfferedLinesStay
<1>18. ASSUME NEW l \in 1 .. n, Mine(l) # <<>>
       PROVE  Answering(l)' /\ First(Callee, l)'.sending = <<>>
  <2>1. l \in Line /\ l \in accepted
    BY <1>8, <1>10, <1>18
  <2>2. First(Callee, l)' = New(l) /\ First(Caller, l)' = First(Caller, l)
    BY <1>15, <2>1
  <2>3. Mine(l)' = Mine(l) /\ Theirs(l)' = Theirs(l) /\ Common(l)' = Common(l)
    BY <1>17, <2>1
  <2>. QED BY <1>14, <2>1, <2>2, <2>3 DEF Answering
<1>19. transceivers' = Pair(UpTo(n), list)
  <2> HIDE DEF list
  <2>. QED BY <1>4, <1>11, PairFacts
<1>20. Received(n)'
  <2>1. Stage(Pair("have-local-offer", "have-remote-offer"), Pair(1, 1),
              Pair({}, {}), Pair(UpTo(n), list), Pair({}, {}))'
    <3>1. signalingState' = Pair("have-local-offer", "have-remote-offer")
      BY <1>3, <1>6, PairFacts DEF Stage
    <3>2. negotiations' = Pair(1, 1)
      BY <1>4, <1>5, PairFacts
    <3>3. pendingOffer' = Pair({}, {})
      BY <1>3, <1>6 DEF Stage
    <3>4. carried' = Pair({}, {})
      BY <1>3, <1>7, PairFacts DEF Stage
    <3>. QED BY <1>19, <3>1, <3>2, <3>3, <3>4 DEF Stage, accepted
  <2>2. list = [l \in Line |-> IF l \in 1 .. n /\ Mine(l)' # <<>> THEN 1 ELSE 0]
    <3>1. ASSUME NEW l \in Line
          PROVE  l \in accepted <=> l \in 1 .. n /\ Mine(l)' # <<>>
      BY <1>10, <1>17
    <3>. QED BY <3>1
  <2>3. remoteDescription'[Callee] = d /\ Unheard(Caller)'
    BY <1>0, <1>2, <1>6, TwoEnds DEF CallTyped, Offered, Unheard
  <2>4. IsOffer(d, n)'
    BY <1>3, <1>17
  <2>5. ASSUME NEW l \in 1 .. n
        PROVE  /\ Offering(l)'
               /\ Mine(l)' # <<>> =>
                    Answering(l)' /\ (First(Callee, l)'.sending = <<>> \/ Sends(l)')
    BY <1>8, <1>17, <1>18
  <2>6. IsOffer(remoteDescription[Callee], n)'
    BY <2>3, <2>4 DEF IsOffer
  <2> HIDE DEF list
  <2>. QED BY <2>1, <2>2, <2>3, <2>5, <2>6 DEF Received
<1>21. Progress'
  BY <1>20 DEF Progress
<1>22. ASSUME NEW p \in Peer, NEW l \in Line PROVE Grows(p, l)
  <2>1. CASE p = Callee /\ l \in accepted
    <3>1. First(p, l).gatherer = "none" /\ Paired(p, l)
      BY <1>0, <1>4, <2>1 DEF Exchanged, NothingMade
    <3>2. First(p, l)' = New(l)
      BY <1>15, <2>1
    <3>3. /\ First(p, l)'.mid = <<Caller, 1, l>> /\ First(p, l)'.gatherer = "gathering"
          /\ First(p, l)'.found = 0 /\ First(p, l)'.remoteCandidates = {}
      BY <1>14, <2>1, <3>2
    <3>4. First(p, l).found = 0
      BY <3>1 DEF Paired
    <3>. QED BY <3>1, <3>3, <3>4 DEF Grows
  <2>2. CASE ~(p = Callee /\ l \in accepted)
    <3>1. First(p, l)' = First(p, l)
      BY <1>15, <2>2, TwoEnds
    <3>. QED BY <1>0, <3>1, GrowsNot
  <2>. QED BY <2>1, <2>2
<1>23. ASSUME NEW p \in Peer PROVE NothingMade(p)' /\ GathersOnce(p)'
  <2>1. GathersOnce(p)'
    BY <1>0, <1>5 DEF Exchanged, GathersOnce, CallTyped
  <2>2. negotiations'[p] = 1
    BY <1>4, <1>5, PairFacts, TwoEnds
  <2>. QED BY <2>1, <2>2 DEF NothingMade
<1>24. ASSUME NEW p \in Peer, NEW l \in Line PROVE Installed(p, l)'
  <2>1. CASE p = Caller
    <3>1. transceivers'[p][l] = transceivers[p][l] /\ First(p, l)' = First(p, l)
      BY <1>4, <1>15, <1>19, <2>1, PairFacts
    <3>. QED BY <1>0, <3>1 DEF Exchanged, Installed
  <2>2. CASE p = Callee
    <3>1. transceivers'[p][l] = IF l \in accepted THEN 1 ELSE 0
      BY <1>19, <2>2, PairFacts
    <3>2. l \in accepted => First(p, l)'.gatherer = "gathering"
      BY <1>14, <1>15, <2>2
    <3>. QED BY <3>1, <3>2 DEF Installed
  <2>. QED BY <2>1, <2>2, TwoEnds
<1>25. UNCHANGED <<nullThrows, localStreams, delivered, emitted, buffer>>
  BY <1>6, <1>7
<1>26. DOMAIN remoteDescription' = Peer
  BY <1>0, <1>6 DEF CallTyped
<1>27. CallInv'
  BY <1>16, <1>21, <1>22, <1>23, <1>24, <1>25, <1>26, SignalStays
<1>. QED BY <1>2, <1>20, <1>27

-----------------------------------------------------------------------------
(* The answer, from the callee to the caller.                               *)

\* With a transceiver on each line the answer has a section for each line.
LEMMA AnswerSent ==
  ASSUME NEW n \in Line, transceivers[Callee] = UpTo(n),
         \A l \in 1 .. n : Answering(l)
  PROVE  IsAnswer(AnswerOf(Callee), n)
<1> DEFINE present == {l \in Line : transceivers[Callee][l] # 0}
           Section(l) ==
             LET t == object[<<Callee, transceivers[Callee][l], l>>]
             IN MediaSection(t, CommonCodecs(t.local, CHOOSE codecs \in t.remote : TRUE))
<1>1. present = 1 .. n
  BY ListFacts
<1>2. Cardinality(present) = n /\ \A i \in 1 .. n : Nth(present, i) = i
  <2>1. n \in Nat /\ 1 \in 1 .. n
    BY ListFacts
  <2>2. Cardinality(1 .. n) = n /\ \A i \in 1 .. n : Nth(1 .. n, i) = i
    BY <2>1, NthOfFirst
  <2>. QED BY <1>1, <2>2
<1>3. /\ AnswerOf(Callee).type = "answer"
      /\ AnswerOf(Callee).sections = [i \in 1 .. Cardinality(present) |-> Section(Nth(present, i))]
  BY DEF AnswerOf
<1> HIDE DEF present, Section
<1>4. /\ DOMAIN AnswerOf(Callee).sections = 1 .. n
      /\ \A i \in 1 .. n : AnswerOf(Callee).sections[i] = Section(i)
  BY <1>2, <1>3
<1>5. ASSUME NEW l \in 1 .. n PROVE Section(l) = MediaSection(First(Callee, l), Common(l))
  <2>1. transceivers[Callee][l] = 1
    BY ListFacts
  <2>2. Section(l) = MediaSection(First(Callee, l),
          CommonCodecs(First(Callee, l).local, CHOOSE c \in First(Callee, l).remote : TRUE))
    BY <2>1 DEF Section, First
  <2>3. First(Callee, l).local = Theirs(l) /\ First(Callee, l).remote = {Mine(l)}
    BY DEF Answering
  <2>4. (CHOOSE c \in First(Callee, l).remote : TRUE) = Mine(l)
    BY <2>3
  <2>. QED BY <2>2, <2>3, <2>4 DEF Common
<1>6. ASSUME NEW l \in 1 .. n
      PROVE  LET s == AnswerOf(Callee).sections[l]
             IN /\ s.codecs = Common(l) /\ s.rejected = (Common(l) = <<>>)
                /\ s.send = (First(Callee, l).sender # "none") /\ s.receive = TRUE
  <2>1. AnswerOf(Callee).sections[l] = MediaSection(First(Callee, l), Common(l))
    BY <1>4, <1>5
  <2>2. First(Callee, l).receiver = TRUE
    BY DEF Answering
  <2>. QED BY <2>1, <2>2, SectionFacts
<1>. QED BY <1>3, <1>4, <1>6 DEF IsAnswer

\* The answer is set and sent, or setLocalDescription throws behind some lines.
LEMMA SendsAnswerStays ==
  ASSUME CallInv, CalleeSendsAnswer
  PROVE  /\ CallInv'
         /\ \E n \in Line : Received(n) /\ (Answered(n)' \/ Received(n)')
<1>0. CallTyped /\ (\A q \in Peer : Exchanged(q)) /\ Progress
  BY DEF CallInv
<1>1. PICK n \in Line : Received(n)
  BY <1>0, WhichStage DEF CalleeSendsAnswer
<1>d. PICK d : d = AnswerOf(Callee)
  OBVIOUS
<1> DEFINE lines == [l \in Line |-> IF l \in 1 .. n /\ Mine(l) # <<>> THEN 1 ELSE 0]
           offer == remoteDescription[Callee].sections
           missing == {l \in DOMAIN offer : transceivers[Callee][l] = 0}
           started == {l \in Before(missing, offer) : ~offer[l].rejected}
           Start(t) ==
             LET codecs == CommonCodecs(t.local, CHOOSE c \in t.remote : TRUE)
             IN [t EXCEPT !.role = "controlled",
                          !.sending = IF codecs # <<>> /\ t.sender # "none"
                                      THEN codecs ELSE @]
<1>2. /\ Stage(Pair("have-local-offer", "have-remote-offer"), Pair(1, 1),
              Pair({}, {}), Pair(UpTo(n), lines), Pair({}, {}))
      /\ Unheard(Caller) /\ IsOffer(remoteDescription[Callee], n)
      /\ \A l \in 1 .. n :
          /\ Offering(l)
          /\ Mine(l) # <<>> =>
               Answering(l) /\ (First(Callee, l).sending = <<>> \/ Sends(l))
  BY <1>1 DEF Received
<1>3. /\ object' = [o \in DOMAIN object |->
            IF o \in Objects(Callee, transceivers[Callee]) /\ o[3] \in started
            THEN Start(object[o]) ELSE object[o]]
      /\ UNCHANGED <<pendingOffer, transceivers>>
      /\ \/ /\ missing = {}
            /\ LocalDescriptionSet(Callee, d, "stable", FALSE)
         \/ /\ missing # {}
            /\ UNCHANGED <<gathering, signaling, timeouts, localStreams,
                           negotiations, iceConnectionState, nullThrows>>
  BY <1>d DEF CalleeSendsAnswer, SetLocalAnswer
<1>4. /\ signalingState[Callee] = "have-remote-offer" /\ delivered' = delivered
      /\ carried' = [carried EXCEPT ![Callee] =
           IF signalingState'[Callee] = "stable" THEN {d} ELSE @]
  BY <1>d DEF CalleeSendsAnswer
<1>5. UNCHANGED <<remoteDescription, localStreams, negotiations, nullThrows, emitted, buffer>>
  BY <1>3 DEF LocalDescriptionSet, gathering, signaling
<1>6. transceivers[Callee] = lines /\ transceivers = Pair(UpTo(n), lines)
  <2> HIDE DEF lines
  <2>. QED BY <1>2, PairFacts DEF Stage
<1>7. /\ DOMAIN offer = 1 .. n
      /\ \A l \in 1 .. n : l \in Line /\ (offer[l].rejected <=> Mine(l) = <<>>)
  BY <1>2, ListFacts DEF IsOffer
<1>8. /\ missing = {l \in 1 .. n : Mine(l) = <<>>}
      /\ \A l \in started : l \in 1 .. n /\ Mine(l) # <<>>
      /\ missing = {} => started = 1 .. n
  <2>1. ASSUME NEW l \in 1 .. n PROVE transceivers[Callee][l] = 0 <=> Mine(l) = <<>>
    BY <1>6, <1>7
  <2>2. missing = {l \in 1 .. n : Mine(l) = <<>>}
    BY <1>7, <2>1
  <2>3. \A l \in started : l \in 1 .. n /\ Mine(l) # <<>>
    BY <1>7 DEF Before
  <2>4. ASSUME missing = {} PROVE started = 1 .. n
    <3>1. Before(missing, offer) = 1 .. n
      BY <1>7, <2>4 DEF Before
    <3>2. \A l \in 1 .. n : ~offer[l].rejected
      BY <1>7, <2>2, <2>4
    <3>. QED BY <3>1, <3>2
  <2>. QED BY <2>2, <2>3, <2>4
<1>9. ASSUME NEW t, DOMAIN t = Fields
      PROVE  /\ DOMAIN Start(t) = Fields
             /\ Start(t).kind = t.kind /\ Start(t).mid = t.mid /\ Start(t).local = t.local
             /\ Start(t).remote = t.remote /\ Start(t).sender = t.sender
             /\ Start(t).receiver = t.receiver /\ Start(t).receiving = t.receiving
             /\ Start(t).gatherer = t.gatherer /\ Start(t).found = t.found
             /\ Start(t).remoteCandidates = t.remoteCandidates
             /\ Start(t).sending =
                  LET codecs == CommonCodecs(t.local, CHOOSE c \in t.remote : TRUE)
                  IN IF codecs # <<>> /\ t.sender # "none" THEN codecs ELSE t.sending
  BY <1>9 DEF Fields
<1> HIDE DEF Start, missing, started, offer
<1>10. ASSUME NEW o \in DOMAIN object
       PROVE  LET t == object[o]
                  u == object'[o]
              IN /\ DOMAIN u = Fields
                 /\ u.kind = t.kind /\ u.mid = t.mid /\ u.local = t.local
                 /\ u.remote = t.remote /\ u.sender = t.sender /\ u.receiver = t.receiver
                 /\ u.receiving = t.receiving /\ u.gatherer = t.gatherer
                 /\ u.found = t.found /\ u.remoteCandidates = t.remoteCandidates
                 /\ o[1] # Callee => u.sending = t.sending
  <2>0. DOMAIN object[o] = Fields /\ o \in Peer \X Negotiation \X Line
    BY <1>0 DEF CallTyped
  <2>1. CASE o \in Objects(Callee, transceivers[Callee]) /\ o[3] \in started
    <3>1. object'[o] = Start(object[o]) /\ o[1] = Callee
      BY <1>3, <2>0, <2>1, WhichObjects
    <3>. QED BY <1>9, <2>0, <3>1
  <2>2. CASE ~(o \in Objects(Callee, transceivers[Callee]) /\ o[3] \in started)
    <3>1. object'[o] = object[o]
      BY <1>3, <2>2
    <3>. QED BY <2>0, <3>1
  <2>. QED BY <2>1, <2>2
<1>11. ASSUME NEW p \in Peer, NEW l \in Line
       PROVE  LET t == First(p, l)
                  u == First(p, l)'
              IN /\ u.kind = t.kind /\ u.mid = t.mid /\ u.local = t.local
                 /\ u.remote = t.remote /\ u.sender = t.sender /\ u.receiver = t.receiver
                 /\ u.receiving = t.receiving /\ u.gatherer = t.gatherer
                 /\ p = Caller => u.sending = t.sending
  BY <1>0, <1>10, ObjectsOfFirst, TwoEnds DEF First
<1>12. ASSUME NEW l \in 1 .. n, Mine(l) # <<>>
       PROVE  /\ l \in started => Sends(l)'
              /\ l \notin started => First(Callee, l)'.sending = First(Callee, l).sending
  <2>0. l \in Line /\ <<Callee, 1, l>> \in DOMAIN object /\ DOMAIN First(Callee, l) = Fields
    BY <1>0, <1>7, ObjectsOfFirst, TwoEnds
  <2>1. <<Callee, 1, l>> \in Objects(Callee, transceivers[Callee])
    <3>1. transceivers[Callee][l] = 1
      BY <1>6, <1>12, <2>0
    <3>2. l \in {m \in Line : transceivers[Callee][m] # 0}
      BY <2>0, <3>1
    <3>3. <<Callee, 1, l>> = <<Callee, transceivers[Callee][l], l>>
      BY <3>1
    <3>. QED BY <3>2, <3>3 DEF Objects
  <2>2. CASE l \in started
    <3>1. First(Callee, l)' = Start(First(Callee, l))
      BY <1>3, <2>0, <2>1, <2>2 DEF First
    <3>2. /\ First(Callee, l).local = Theirs(l) /\ First(Callee, l).remote = {Mine(l)}
          /\ First(Callee, l).sending = <<>> \/ Sends(l)
      BY <1>2, <1>12 DEF Answering
    <3>3. (CHOOSE c \in First(Callee, l).remote : TRUE) = Mine(l)
      BY <3>2
    <3>4. First(Callee, l)'.sending =
            IF Common(l) # <<>> /\ First(Callee, l).sender # "none" THEN Common(l)
            ELSE First(Callee, l).sending
      BY <1>9, <2>0, <3>1, <3>2, <3>3 DEF Common
    <3>5. First(Callee, l)'.sending =
            IF Common(l) # <<>> /\ First(Callee, l).sender # "none" THEN Common(l)
            ELSE <<>>
      BY <3>2, <3>4 DEF Sends
    <3>6. Common(l)' = Common(l) /\ First(Callee, l)'.sender = First(Callee, l).sender
      BY <1>11, <2>0, TwoEnds DEF Common, Mine, Theirs
    <3>. QED BY <2>2, <3>5, <3>6 DEF Sends
  <2>3. CASE l \notin started
    <3>1. First(Callee, l)' = First(Callee, l)
      BY <1>3, <2>0, <2>3 DEF First
    <3>. QED BY <2>3, <3>1
  <2>. QED BY <2>2, <2>3
<1>13. /\ \A l \in Line : Mine(l)' = Mine(l) /\ Theirs(l)' = Theirs(l) /\ Common(l)' = Common(l)
                          /\ (Offering(l) => Offering(l)')
       /\ \A e : IsOffer(e, n) => IsOffer(e, n)'
  <2>1. \A l \in Line : SameMedia(First(Caller, l), First(Caller, l)')
    BY <1>11, TwoEnds DEF SameMedia
  <2>. QED BY <2>1, OfferedLinesStay
<1>14. ASSUME NEW l \in 1 .. n, Answering(l)
       PROVE  Answering(l)'
  BY <1>7, <1>11, <1>13, <1>14, TwoEnds DEF Answering
<1>15. TypedInCall(object')
  BY <1>0, <1>3, <1>10 DEF CallTyped, TypedInCall
<1>16. ASSUME missing = {} PROVE Answered(n)'
  <2>1. \A l \in 1 .. n : Mine(l) # <<>> /\ l \in started
    BY <1>8, <1>16
  <2>2. transceivers[Callee] = UpTo(n) /\ transceivers = Pair(UpTo(n), UpTo(n))
    <3>1. lines = UpTo(n)
      <4>1. \A l \in Line : (l \in 1 .. n /\ Mine(l) # <<>>) <=> l <= n
        BY <2>1, ListFacts, BoundsAssumption DEF Line
      <4>. QED BY <4>1 DEF UpTo
    <3> HIDE DEF lines
    <3>. QED BY <1>6, <3>1
  <2>3. IsAnswer(d, n)
    BY <1>2, <1>d, <2>1, <2>2, AnswerSent
  <2>4. IsAnswer(d, n)'
    BY <1>7, <1>11, <1>13, <2>3, TwoEnds DEF IsAnswer
  <2>5. LocalDescriptionSet(Callee, d, "stable", FALSE)
    BY <1>3, <1>16
  <2>6. signalingState' = Pair("have-local-offer", "stable")
    <3>1. signalingState' = [signalingState EXCEPT ![Callee] = "stable"]
      BY <2>5 DEF LocalDescriptionSet
    <3>. QED BY <1>2, <3>1, PairFacts DEF Stage
  <2>7. carried' = Pair({}, {d})
    <3>1. signalingState'[Callee] = "stable" /\ carried = Pair({}, {})
      BY <1>2, <2>6, PairFacts DEF Stage
    <3>2. carried' = [Pair({}, {}) EXCEPT ![Callee] = {d}]
      BY <1>4, <3>1
    <3>3. \A c : [Pair({}, {}) EXCEPT ![Callee] = c] = Pair({}, c)
      BY PairFacts
    <3>. QED BY <3>2, <3>3
  <2>8. /\ negotiations' = Pair(1, 1) /\ pendingOffer' = Pair({}, {})
        /\ transceivers' = Pair(UpTo(n), UpTo(n))
    BY <1>2, <1>3, <1>5, <2>2 DEF Stage
  <2>9. Unheard(Caller)' /\ remoteDescription'[Callee].type = "offer"
    <3>1. remoteDescription' = remoteDescription
      BY <1>5
    <3>2. Unheard(Caller) /\ remoteDescription[Callee].type = "offer"
      BY <1>2 DEF IsOffer
    <3>. QED BY <3>1, <3>2 DEF Unheard
  <2>10. \A l \in 1 .. n : Offering(l)' /\ Answering(l)' /\ Sends(l)'
    BY <1>2, <1>7, <1>12, <1>13, <1>14, <2>1
  <2>. QED
    BY <2>4, <2>6, <2>7, <2>8, <2>9, <2>10 DEF Answered, Stage
<1>17. ASSUME missing # {} PROVE Received(n)'
  <2>1. UNCHANGED <<signaling, negotiations>>
    BY <1>3, <1>17
  <2>2. signalingState' = signalingState /\ negotiations' = negotiations
    BY <2>1 DEF signaling
  <2>3. carried' = carried
    <3>1. signalingState'[Callee] # "stable"
      BY <1>4, <2>2
    <3>2. carried' = [carried EXCEPT ![Callee] = carried[Callee]]
      BY <1>4, <3>1
    <3>3. carried = [p \in Peer |-> carried[p]]
      BY <1>2 DEF Stage, Pair
    <3>. QED BY <3>2, <3>3
  <2>d. PICK list : list = lines
    OBVIOUS
  <2>4. list = [l \in Line |-> IF l \in 1 .. n /\ Mine(l)' # <<>> THEN 1 ELSE 0]
    <3>1. ASSUME NEW l \in Line PROVE Mine(l)' = Mine(l)
      BY <1>13
    <3>. QED BY <2>d, <3>1
  <2>5. Stage(Pair("have-local-offer", "have-remote-offer"), Pair(1, 1), Pair({}, {}),
              Pair(UpTo(n), list), Pair({}, {}))'
    <3> HIDE DEF lines
    <3>. QED BY <1>2, <1>3, <2>2, <2>3, <2>d DEF Stage
  <2>6. Unheard(Caller)' /\ IsOffer(remoteDescription[Callee], n)'
    BY <1>2, <1>5, <1>13 DEF Unheard, IsOffer
  <2>7. ASSUME NEW l \in 1 .. n
        PROVE  /\ Offering(l)'
               /\ Mine(l)' # <<>> =>
                    Answering(l)' /\ (First(Callee, l)'.sending = <<>> \/ Sends(l)')
    <3>1. l \in Line /\ Mine(l)' = Mine(l) /\ Offering(l)'
      BY <1>2, <1>7, <1>13
    <3>2. CASE Mine(l) # <<>>
      <4>1. Answering(l)' /\ (First(Callee, l).sending = <<>> \/ Sends(l))
        BY <1>2, <1>14, <3>2
      <4>2. CASE l \in started
        BY <1>12, <3>1, <3>2, <4>1, <4>2
      <4>3. CASE l \notin started
        <5>1. First(Callee, l)'.sending = First(Callee, l).sending
          BY <1>12, <3>2, <4>3
        <5>2. Sends(l) => Sends(l)'
          BY <1>11, <1>13, <3>1, <5>1, TwoEnds DEF Sends
        <5>. QED BY <3>1, <4>1, <5>1, <5>2
      <4>. QED BY <4>2, <4>3
    <3>. QED BY <3>1, <3>2
  <2>. QED BY <2>4, <2>5, <2>6, <2>7 DEF Received
<1>18. Answered(n)' \/ Received(n)'
  BY <1>16, <1>17
<1>19. Progress'
  BY <1>18 DEF Progress
<1>20. ASSUME NEW p \in Peer, NEW l \in Line
       PROVE  /\ transceivers'[p][l] \in {0, 1}
              /\ transceivers'[p][l] = 1 => First(p, l).gatherer # "none"
  BY <1>0, <1>3 DEF Exchanged, Installed
<1>21. CallInv'
  <2>1. \A o \in DOMAIN object :
           /\ object'[o].mid = object[o].mid /\ object'[o].gatherer = object[o].gatherer
           /\ object'[o].found = object[o].found
           /\ object'[o].remoteCandidates = object[o].remoteCandidates
    BY <1>10
  <2>2. UNCHANGED <<nullThrows, localStreams, delivered, emitted, buffer, negotiations>>
    BY <1>4, <1>5
  <2>3. DOMAIN remoteDescription' = Peer
    BY <1>0, <1>5 DEF CallTyped
  <2>. QED BY <1>15, <1>19, <1>20, <2>1, <2>2, <2>3, KeptStays
<1>. QED BY <1>1, <1>18, <1>21

\* The codecs of a line are lists at both ends.
LEMMA CodecsAreLists ==
  ASSUME NEW l, Offering(l)
  PROVE  IsList(Mine(l)) /\ IsList(Theirs(l))
<1>1. \A p \in Peer, kind \in Kind : IsList(Codecs[p][kind])
  <2>1. \A s, S : s \in Seq(S) => DOMAIN s = 1 .. Len(s) /\ Len(s) \in Nat
    OBVIOUS
  <2>. QED BY <2>1, InputsAssumption DEF Kind, IsList
<1>2. First(Caller, l).kind \in Kind
  BY DEF Offering
<1>. QED BY <1>1, <1>2, TwoEnds DEF Mine, Theirs

\* The caller sets the answer, and the two ends of each line match.
LEMMA GetsAnswerStays ==
  ASSUME CallInv, CallerGetsAnswer
  PROVE  /\ CallInv'
         /\ \E n \in Line :
              /\ Answered(n) /\ Accepted(n)'
              /\ \A l \in 1 .. n : First(Callee, l)' = First(Callee, l)
<1>0. CallTyped /\ (\A q \in Peer : Exchanged(q)) /\ Progress
  BY DEF CallInv
<1>1. PICK d \in carried[Callee] : SetRemoteAnswer(Caller, d)
  BY DEF CallerGetsAnswer
<1>2. PICK n \in Line : Answered(n)
  BY <1>0, <1>1, WhichStage
<1>3. /\ IsAnswer(d, n)
      /\ Stage(Pair("have-local-offer", "stable"), Pair(1, 1), Pair({}, {}),
               Pair(UpTo(n), UpTo(n)), Pair({}, {d}))
  <2>1. PICK e : /\ IsAnswer(e, n)
                 /\ Stage(Pair("have-local-offer", "stable"), Pair(1, 1), Pair({}, {}),
                          Pair(UpTo(n), UpTo(n)), Pair({}, {e}))
    BY <1>2 DEF Answered
  <2>2. carried[Callee] = {e}
    BY <2>1, PairFacts DEF Stage
  <2>3. d = e
    BY <1>1, <2>2
  <2>. QED BY <2>1, <2>3
<1>4. /\ remoteDescription[Callee].type = "offer"
      /\ \A l \in 1 .. n : l \in Line /\ Offering(l) /\ Answering(l) /\ Sends(l)
  BY <1>2, ListFacts DEF Answered
<1>5. transceivers = Pair(UpTo(n), UpTo(n)) /\ transceivers[Caller] = UpTo(n)
  BY <1>3, PairFacts DEF Stage
<1>6. /\ d.type = "answer" /\ DOMAIN d.sections = 1 .. n
      /\ \A l \in 1 .. n :
           /\ d.sections[l].codecs = Common(l)
           /\ d.sections[l].rejected <=> Common(l) = <<>>
           /\ d.sections[l].send <=> First(Callee, l).sender # "none"
           /\ d.sections[l].receive
  BY <1>3 DEF IsAnswer
<1> DEFINE accepted == {l \in DOMAIN d.sections : ~d.sections[l].rejected}
           missing == {l \in accepted : transceivers[Caller][l] = 0}
           started == Before(missing, d.sections) \intersect accepted
           Start(t, s) ==
             LET codecs == CommonCodecs(t.local, s.codecs)
             IN [t EXCEPT !.remote = {s.codecs}, !.role = "controlling",
                          !.sending = IF s.receive /\ t.sender # "none"
                                      THEN codecs ELSE @,
                          !.receiving = IF s.send /\ t.receiver THEN codecs ELSE @,
                          !.receiver = s.send /\ t.receiver]
           receivers == {l \in started :
             object'[<<Caller, transceivers[Caller][l], l>>].receiver}
<1>7. /\ object' = [o \in DOMAIN object |->
            IF o \in Objects(Caller, transceivers[Caller]) /\ o[3] \in started
            THEN Start(object[o], d.sections[o[3]]) ELSE object[o]]
      /\ UNCHANGED <<negotiations, transceivers>>
      /\ \/ /\ missing = {}
            /\ RemoteDescriptionSet(Caller, d, "stable", Cardinality(receivers))
         \/ /\ missing # {}
            /\ UNCHANGED <<gathering, signaling, timeouts, localStreams,
                           pendingOffer, iceConnectionState, nullThrows>>
  BY <1>1 DEF SetRemoteAnswer
<1>8. missing = {} /\ started = {l \in 1 .. n : Common(l) # <<>>}
  <2>1. \A l \in 1 .. n : transceivers[Caller][l] = 1
    BY <1>5, ListFacts
  <2>2. missing = {}
    BY <1>6, <2>1
  <2> HIDE DEF missing
  <2>3. Before(missing, d.sections) = DOMAIN d.sections
    BY <2>2 DEF Before
  <2>. QED BY <1>6, <2>2, <2>3
<1>9. \A t, s : DOMAIN Start(t, s) = DOMAIN t
  OBVIOUS
<1>10. ASSUME NEW t, NEW s, DOMAIN t = Fields
       PROVE  LET u == Start(t, s)
              IN /\ u.kind = t.kind /\ u.mid = t.mid /\ u.local = t.local
                 /\ u.sender = t.sender /\ u.gatherer = t.gatherer
                 /\ u.found = t.found /\ u.remoteCandidates = t.remoteCandidates
                 /\ u.sending = (IF s.receive /\ t.sender # "none"
                                 THEN CommonCodecs(t.local, s.codecs) ELSE t.sending)
                 /\ u.receiving = (IF s.send /\ t.receiver
                                   THEN CommonCodecs(t.local, s.codecs) ELSE t.receiving)
                 /\ u.receiver = (s.send /\ t.receiver)
  BY <1>10 DEF Fields
<1>11. RemoteDescriptionSet(Caller, d, "stable", Cardinality(receivers))
  BY <1>7, <1>8
<1> HIDE DEF Start, missing, started, accepted, receivers
<1>12. ASSUME NEW o \in DOMAIN object
       PROVE  LET t == object[o]
                  u == object'[o]
              IN /\ DOMAIN u = Fields
                 /\ u.mid = t.mid /\ u.gatherer = t.gatherer
                 /\ u.found = t.found /\ u.remoteCandidates = t.remoteCandidates
  <2>1. DOMAIN object[o] = Fields
    BY <1>0 DEF CallTyped
  <2>2. CASE o \in Objects(Caller, transceivers[Caller]) /\ o[3] \in started
    <3>1. object'[o] = Start(object[o], d.sections[o[3]])
      BY <1>7, <2>2
    <3>. QED BY <1>9, <1>10, <2>1, <3>1
  <2>3. CASE ~(o \in Objects(Caller, transceivers[Caller]) /\ o[3] \in started)
    <3>1. object'[o] = object[o]
      BY <1>7, <2>3
    <3>. QED BY <2>1, <3>1
  <2>. QED BY <2>2, <2>3
<1>13. ASSUME NEW l \in 1 .. n
       PROVE  /\ First(Callee, l)' = First(Callee, l)
              /\ First(Caller, l)' = IF Common(l) # <<>>
                                     THEN Start(First(Caller, l), d.sections[l])
                                     ELSE First(Caller, l)
  <2>1. <<Callee, 1, l>> \in DOMAIN object /\ <<Caller, 1, l>> \in DOMAIN object
    BY <1>0, <1>4, TwoEnds, ObjectsOfFirst
  <2>2. /\ <<Caller, 1, l>> \in Objects(Caller, transceivers[Caller])
        /\ <<Callee, 1, l>> \notin Objects(Caller, transceivers[Caller])
    BY <1>5, ObjectsOfUpTo, TwoEnds
  <2>3. l \in started <=> Common(l) # <<>>
    BY <1>8
  <2>. QED BY <1>7, <2>1, <2>2, <2>3 DEF First
<1>14. ASSUME NEW l \in 1 .. n PROVE Matched(l)'
  <2>1. Offering(l) /\ Answering(l) /\ Sends(l) /\ l \in Line
    BY <1>4
  <2> DEFINE t == First(Caller, l)
             u == First(Callee, l)
             back == CommonCodecs(Mine(l), Common(l))
  <2>2. /\ t.local = Mine(l) /\ t.sending = <<>> /\ t.receiving = <<>>
        /\ t.sender = "none" => t.receiver
        /\ t.receiver \in BOOLEAN
        /\ u.receiver = TRUE
        /\ u.receiving = IF t.sender # "none" THEN Common(l) ELSE <<>>
        /\ u.sending = IF Common(l) # <<>> /\ u.sender # "none" THEN Common(l) ELSE <<>>
    BY <2>1 DEF Offering, Answering, Sends
  <2>3. Elements(back) = Elements(Common(l))
    BY <2>1, CodecsAreLists, CommonAgain DEF Common
  <2>4. Elements(<<>>) = {}
    BY ElementsOfFew
  <2>5. CASE Common(l) = <<>>
    <3>1. First(Caller, l)' = First(Caller, l) /\ First(Callee, l)' = First(Callee, l)
      BY <1>13, <2>5
    <3>2. t.sending = <<>> /\ t.receiving = <<>> /\ u.sending = <<>> /\ u.receiving = <<>>
      BY <2>2, <2>5
    <3>. QED BY <2>4, <3>1, <3>2 DEF Matched
  <2>6. CASE Common(l) # <<>>
    <3> DEFINE s == d.sections[l]
               new == Start(First(Caller, l), s)
    <3>1. First(Caller, l)' = new /\ First(Callee, l)' = First(Callee, l)
      BY <1>13, <2>6
    <3>2. DOMAIN First(Caller, l) = Fields
      BY <1>0, <2>1, ObjectsOfFirst, TwoEnds
    <3>3. s.codecs = Common(l) /\ s.receive /\ (s.send <=> u.sender # "none")
      BY <1>6
    <3>4. /\ new.sending = (IF t.sender # "none" THEN back ELSE <<>>)
          /\ new.receiving = (IF u.sender # "none" /\ t.receiver THEN back ELSE <<>>)
          /\ new.receiver <=> u.sender # "none" /\ t.receiver
      <4> HIDE DEF s, new
      <4>1. /\ new.sending = (IF s.receive /\ t.sender # "none"
                              THEN CommonCodecs(t.local, s.codecs) ELSE t.sending)
            /\ new.receiving = (IF s.send /\ t.receiver
                                THEN CommonCodecs(t.local, s.codecs) ELSE t.receiving)
            /\ new.receiver = (s.send /\ t.receiver)
        BY <1>10, <3>2 DEF new
      <4>2. CommonCodecs(t.local, s.codecs) = back
        BY <2>2, <3>3
      <4> HIDE DEF t, u, back
      <4>3. new.receiver <=> u.sender # "none" /\ t.receiver
        BY <3>3, <4>1, Zenon
      <4>. QED BY <2>2, <3>3, <4>1, <4>2, <4>3
    <3>5. u.sending = IF u.sender # "none" THEN Common(l) ELSE <<>>
      BY <2>2, <2>6
    <3> HIDE DEF new, t, u, back
    <3>6. /\ Elements(new.sending) \union Elements(new.receiving) =
               Elements(u.sending) \union Elements(u.receiving)
          /\ u.receiver => Elements(new.sending) \subseteq Elements(u.receiving)
          /\ new.receiver => Elements(u.sending) \subseteq Elements(new.receiving)
      <4>1. CASE t.sender # "none"
        BY <2>2, <2>3, <2>4, <3>4, <3>5, <4>1
      <4>2. CASE t.sender = "none"
        BY <2>2, <2>3, <2>4, <3>4, <3>5, <4>2
      <4>. QED BY <4>1, <4>2
    <3>. QED BY <3>1, <3>6 DEF Matched, u
  <2>. QED BY <2>5, <2>6
<1>15. /\ remoteDescription' = [remoteDescription EXCEPT ![Caller] = d]
       /\ signalingState' = [signalingState EXCEPT ![Caller] = "stable"]
       /\ UNCHANGED <<emitted, buffer, localStreams, pendingOffer, nullThrows>>
  BY <1>11 DEF RemoteDescriptionSet, gathering
<1>16. carried' = [carried EXCEPT ![Callee] = {}] /\ delivered' = delivered
  BY DEF CallerGetsAnswer
<1>17. Accepted(n)'
  <2>1. Stage(Pair("stable", "stable"), Pair(1, 1), Pair({}, {}),
              Pair(UpTo(n), UpTo(n)), Pair({}, {}))'
    <3>1. signalingState' = Pair("stable", "stable")
      BY <1>3, <1>15, PairFacts DEF Stage
    <3>2. /\ negotiations' = Pair(1, 1) /\ pendingOffer' = Pair({}, {})
          /\ transceivers' = Pair(UpTo(n), UpTo(n))
      BY <1>3, <1>7, <1>15 DEF Stage
    <3>3. carried' = Pair({}, {})
      BY <1>3, <1>16, PairFacts DEF Stage
    <3>. QED BY <3>1, <3>2, <3>3 DEF Stage
  <2>2. remoteDescription'[Caller] = d /\ remoteDescription'[Callee] = remoteDescription[Callee]
    BY <1>0, <1>15, TwoEnds DEF CallTyped
  <2>. QED BY <1>4, <1>6, <1>14, <2>1, <2>2 DEF Accepted
<1>18. Progress'
  BY <1>17 DEF Progress
<1>19. TypedInCall(object')
  BY <1>0, <1>7, <1>12 DEF CallTyped, TypedInCall
<1>20. CallInv'
  <2>1. UNCHANGED <<nullThrows, localStreams, delivered, emitted, buffer, negotiations>>
    BY <1>7, <1>15, <1>16
  <2>2. DOMAIN remoteDescription' = Peer
    BY <1>0, <1>15 DEF CallTyped
  <2>3. ASSUME NEW p \in Peer, NEW l \in Line
        PROVE  /\ transceivers'[p][l] \in {0, 1}
               /\ transceivers'[p][l] = 1 => First(p, l).gatherer # "none"
    BY <1>0, <1>7 DEF Exchanged, Installed
  <2>. QED BY <1>12, <1>18, <1>19, <2>1, <2>2, <2>3, KeptStays
<1>. QED BY <1>2, <1>13, <1>17, <1>20

-----------------------------------------------------------------------------
(* The theorems.                                                            *)

\* The call starts idle.
LEMMA InitCallInv == CallInit => CallInv
<1> SUFFICES ASSUME CallInit PROVE CallInv
  OBVIOUS
<1> DEFINE MadeHere(o) == [NewTransceiver("audio", o, <<>>, "none", FALSE)
                         EXCEPT !.gatherer = "none"]
<1>1. /\ signalingState = [p \in Peer |-> "stable"]
      /\ remoteDescription = [p \in Peer |-> NoDescription]
      /\ localStreams = [p \in Peer |-> <<>>]
      /\ negotiations = [p \in Peer |-> 0]
      /\ pendingOffer = [p \in Peer |-> {}]
      /\ transceivers = [p \in Peer |-> NoTransceivers]
      /\ object = [o \in Peer \X Negotiation \X Line |-> MadeHere(o)]
      /\ buffer = [p \in Peer |-> <<>>] /\ emitted = [p \in Peer |-> <<>>]
      /\ nullThrows = [p \in Peer |-> FALSE]
      /\ carried = [p \in Peer |-> {}] /\ delivered = [p \in Peer |-> 0]
  BY DEF CallInit, Init
<1>2. ASSUME NEW o
      PROVE  /\ DOMAIN MadeHere(o) = Fields /\ MadeHere(o).gatherer = "none"
             /\ MadeHere(o).found = 0 /\ MadeHere(o).remoteCandidates = {}
  BY DEF NewTransceiver, Fields
<1> HIDE DEF MadeHere
<1>3. CallTyped
  <2>1. <<>> \in Seq(EventInCall)
    OBVIOUS
  <2>. QED BY <1>1, <1>2, <2>1 DEF CallTyped
<1>4. ASSUME NEW p \in Peer PROVE Exchanged(p)
  <2>1. Elements(emitted[p]) \union Elements(buffer[p]) = {}
    BY <1>1, ElementsOfFew
  <2>2. \A k \in Negotiation, l \in Line :
          LET t == object[<<p, k, l>>]
          IN t.gatherer = "none" /\ t.found = 0 /\ t.remoteCandidates = {}
    BY <1>1, <1>2
  <2>3. \A l \in Line : First(p, l).gatherer = "none" /\ First(p, l).found = 0
                        /\ First(p, l).remoteCandidates = {}
    BY <2>2, Counts DEF First
  <2>4. \A l \in Line : transceivers[p][l] = 0
    BY <1>1 DEF NoTransceivers
  <2>. QED BY <2>1, <2>2, <2>3, <2>4 DEF Exchanged, NothingMade, GathersOnce, Paired, Installed
<1>5. Idle
  <2>1. \A a : [p \in Peer |-> a] = Pair(a, a)
    BY DEF Pair
  <2>2. Unheard(Caller) /\ Unheard(Callee)
    BY <1>1, TwoEnds DEF Unheard, NoDescription
  <2>. QED BY <1>1, <2>1, <2>2 DEF Idle, Stage
<1>. QED BY <1>3, <1>4, <1>5 DEF CallInv, Progress

\* A step that changes nothing.
LEMMA NothingStays ==
  ASSUME CallInv, UNCHANGED vars
  PROVE  CallInv'
<1>0. CallTyped /\ (\A q \in Peer : Exchanged(q)) /\ Progress
  BY DEF CallInv
<1>1. /\ UNCHANGED <<gathering, signaling, media, object, nullThrows, carried, delivered>>
  BY DEF vars, pcVars
<1>2. UNCHANGED <<buffer, emitted, signalingState, remoteDescription, localStreams,
                  negotiations, pendingOffer, transceivers, object, nullThrows,
                  carried, delivered>>
  BY <1>1 DEF gathering, signaling, media
<1>3. TypedInCall(object') /\ \A o \in DOMAIN object : SameMedia(object[o], object'[o])
  BY <1>0, <1>2 DEF CallTyped, TypedInCall, SameMedia
<1>4. ASSUME NEW p \in Peer, NEW l \in Line PROVE Grows(p, l)
  BY <1>0, <1>2, GrowsNot DEF First
<1>. QED BY <1>0, <1>2, <1>3, <1>4, QuietStays DEF CallTyped, signals

\* Each step of the call keeps the invariant.
LEMMA NextCallInv ==
  ASSUME CallInv, [CallNext]_vars
  PROVE  CallInv'
<1>1. CASE CallerCreatesOffer
  BY <1>1, CreatesOfferStays
<1>2. CASE Signals
  BY <1>2, SendsOfferStays, GetsOfferStays, SendsAnswerStays, GetsAnswerStays DEF Signals
<1>3. ASSUME NEW p \in Peer, AddsBefore(p) \/ GetsCandidate(p) \/ GathersInCall(p) \/ Times(p)
      PROVE  CallInv'
  <2>1. CASE AddsBefore(p)
    BY <2>1, AddingStays
  <2>2. CASE GetsCandidate(p)
    BY <2>2, CandidateStays
  <2>3. CASE GathersInCall(p)
    BY <2>3, GathererStays DEF GathersInCall
  <2>4. CASE Times(p)
    BY <2>4, TimeoutStays
  <2>. QED BY <1>3, <2>1, <2>2, <2>3, <2>4
<1>4. CASE UNCHANGED vars
  BY <1>4, NothingStays
<1>. QED BY <1>1, <1>2, <1>3, <1>4 DEF CallNext

\* The invariant of a call: candidates are exchanged line by line, and the
\* signaling is in one of six stages.
THEOREM CallInvariance == CallSpec => []CallInv
<1>1. CallInv /\ [CallNext]_vars => CallInv'
  BY NextCallInv
<1>. QED BY <1>1, InitCallInv, PTL DEF CallSpec

\* addIceCandidate of either shim gives a candidate to the transport of the
\* m-line it was found for, and only candidates the other end found.
THEOREM CandidatesAreMatched == CallSpec => []CandidatesMatchLines
<1>1. ASSUME CallInv PROVE CandidatesMatchLines
  <2>0. CallTyped /\ (\A q \in Peer : Exchanged(q))
    BY <1>1 DEF CallInv
  <2> SUFFICES ASSUME NEW p \in Peer, NEW o \in Objects(p, transceivers[p]),
                      NEW c \in object[o].remoteCandidates
               PROVE  /\ c.mid = object[o].mid
                      /\ c.n <= object[<<Other(p), 1, o[3]>>].found
    BY DEF CandidatesMatchLines
  <2>1. PICK l \in Line : o = <<p, 1, l>> /\ transceivers[p][l] = 1
    BY <2>0, ObjectsOfList DEF Exchanged, Installed
  <2>2. Paired(p, l) /\ First(p, l).gatherer # "none"
    BY <2>0, <2>1 DEF Exchanged, Installed
  <2>. QED BY <2>1, <2>2 DEF Paired, First
<1>2. CallInv => CandidatesMatchLines
  BY <1>1
<1>. QED BY <1>2, CallInvariance, PTL

\* When the call is stable at both ends, each RTP sender sends codecs the RTP
\* receiver at the other end was given, with their payload types.
THEOREM SendersAreHeard == CallSpec => []SendersAreUnderstood
<1>1. ASSUME CallInv PROVE SendersAreUnderstood
  <2> SUFFICES ASSUME \A p \in Peer : signalingState[p] = "stable",
                      NEW p \in Peer, NEW o \in Objects(p, transceivers[p]),
                      object[<<Other(p), transceivers[Other(p)][o[3]], o[3]>>].receiver
               PROVE  Elements(object[o].sending) \subseteq
                        Elements(object[<<Other(p), transceivers[Other(p)][o[3]], o[3]>>].receiving)
    BY DEF SendersAreUnderstood
  <2>1. signalingState[Caller] = "stable" /\ signalingState[Callee] = "stable"
    BY TwoEnds
  <2>2. \A s, t, c, d, e, f, h, i : \A b \in {"have-local-offer"} :
          ~Stage(Pair(b, t), Pair(c, d), e, Pair(f, h), i)
    BY <2>1, PairFacts DEF Stage
  <2>3. \A s, c, e, i : Stage(s, c, e, Pair(NoTransceivers, NoTransceivers), i) =>
          Objects(p, transceivers[p]) = {}
    <3>1. \A l \in Line : NoTransceivers[l] = 0
      BY DEF NoTransceivers
    <3>. QED BY <3>1, PairFacts, TwoEnds DEF Stage, Objects
  <2>4. PICK n \in Line : Accepted(n)
    BY <1>1, <2>2, <2>3 DEF CallInv, Progress, Idle, Created, Offered, Received, Answered
  <2>5. transceivers[p] = UpTo(n) /\ transceivers[Other(p)] = UpTo(n)
    BY <2>4, PairFacts, TwoEnds DEF Accepted, Stage
  <2>6. PICK l \in 1 .. n : o = <<p, 1, l>>
    BY <2>5, ObjectsOfUpTo
  <2>7. UpTo(n)[l] = 1 /\ Matched(l)
    BY <2>4, ListFacts DEF Accepted
  <2>8. /\ object[o] = First(p, l)
        /\ object[<<Other(p), transceivers[Other(p)][o[3]], o[3]>>] = First(Other(p), l)
    BY <2>5, <2>6, <2>7 DEF First
  <2>9. First(Other(p), l).receiver
    BY <2>8
  <2>10. Elements(First(p, l).sending) \subseteq Elements(First(Other(p), l).receiving)
    <3>1. CASE p = Caller
      BY <2>7, <2>9, <3>1, TwoEnds DEF Matched
    <3>2. CASE p = Callee
      BY <2>7, <2>9, <3>2, TwoEnds DEF Matched
    <3>. QED BY <3>1, <3>2, TwoEnds
  <2>. QED BY <2>8, <2>10
<1>2. CallInv => SendersAreUnderstood
  BY <1>1
<1>. QED BY <1>2, CallInvariance, PTL

-----------------------------------------------------------------------------
(* The call implements the abstract specification.                          *)

\* What the peers settled on, as the abstract specification sees it.
CallAgreed == [p \in Peer |-> Settled(p)]
Media(p, n) ==
  UNION {{l} \X (Elements(First(p, l).sending) \union Elements(First(p, l).receiving)) :
         l \in 1 .. n}

\* What two lists have in common is taken from remote.
LEMMA CommonIsOffered ==
  ASSUME NEW local, NEW remote, IsList(local), IsList(remote)
  PROVE  Elements(CommonCodecs(local, remote)) \in SUBSET Elements(remote)
<1>1. DOMAIN remote \in SUBSET Nat
  BY DEF IsList
<1>2. ASSUME NEW i \in Shared(local, remote)
      PROVE  FirstNamed(remote, local[i].name) \in Elements(remote)
  <2>1. Named(remote, local[i].name) # {}
    BY DEF Shared
  <2>2. PICK j \in Named(remote, local[i].name) :
          FirstNamed(remote, local[i].name) = remote[j]
    BY <1>1, <2>1, FirstIsNamed
  <2>. QED BY <2>2 DEF Named, Elements
<1>. QED BY <1>2, CommonElements

\* What a peer with n lines settled on.
LEMMA SettledMedia ==
  ASSUME NEW p \in Peer, NEW n \in Line, transceivers[p] = UpTo(n),
         signalingState[p] = "stable", ~Unheard(p)
  PROVE  Settled(p) = {Media(p, n)}
<1> DEFINE M(o) == {o[3]} \X (Elements(object[o].sending) \union
                              Elements(object[o].receiving))
           N(l) == {l} \X (Elements(First(p, l).sending) \union
                           Elements(First(p, l).receiving))
<1>1. Settled(p) = {UNION {M(o) : o \in Objects(p, transceivers[p])}}
  BY DEF Settled, Unheard
<1>2. Objects(p, transceivers[p]) = {<<p, 1, l>> : l \in 1 .. n}
  BY ObjectsOfUpTo
<1>3. \A l \in 1 .. n : M(<<p, 1, l>>) = N(l)
  BY DEF First
<1> HIDE DEF M, N
<1>4. {M(o) : o \in {<<p, 1, l>> : l \in 1 .. n}} = {N(l) : l \in 1 .. n}
  BY <1>3
<1>. QED BY <1>1, <1>2, <1>4 DEF Media, N

\* Without a remote description, or before it is stable, nothing is settled.
LEMMA NothingSettled ==
  \A p \in Peer : Unheard(p) \/ signalingState[p] # "stable" => Settled(p) = {}
BY DEF Settled, Unheard

\* The values of the abstract specification's variables at each stage.
Shows(states, agreements) == signalingState = states /\ CallAgreed = agreements

\* What both settled on, as a pair.
LEMMA AgreedIs ==
  ASSUME NEW a, NEW b, Settled(Caller) = a, Settled(Callee) = b
  PROVE  CallAgreed = Pair(a, b)
BY TwoEnds DEF CallAgreed, Pair

StagesShow ==
  /\ Idle => Shows(Pair("stable", "stable"), Pair({}, {}))
  /\ \A n \in Line :
       /\ Created(n) => Shows(Pair("stable", "stable"), Pair({}, {}))
       /\ Offered(n) => Shows(Pair("have-local-offer", "stable"), Pair({}, {}))
       /\ Received(n) => Shows(Pair("have-local-offer", "have-remote-offer"), Pair({}, {}))
       /\ Answered(n) => /\ Shows(Pair("have-local-offer", "stable"),
                                  Pair({}, {Media(Callee, n)}))
                         /\ Media(Callee, n) \in SUBSET (Line \X OfferedCodecs)
       /\ Accepted(n) => Shows(Pair("stable", "stable"),
                               Pair({Media(Callee, n)}, {Media(Callee, n)}))

\* What the abstract specification sees of a call.
LEMMA WhatStagesShow == StagesShow
<1>1. \A s, c, e, t, i : Stage(s, c, e, t, i) => signalingState = s /\ transceivers = t
  BY DEF Stage
<1>2. ASSUME Unheard(Caller), Unheard(Callee) PROVE CallAgreed = Pair({}, {})
  BY <1>2, TwoEnds, NothingSettled, AgreedIs
<1>3. ASSUME Idle PROVE Shows(Pair("stable", "stable"), Pair({}, {}))
  BY <1>1, <1>2, <1>3 DEF Idle, Shows
<1>4. ASSUME NEW n \in Line, Created(n)
      PROVE  Shows(Pair("stable", "stable"), Pair({}, {}))
  BY <1>1, <1>2, <1>4 DEF Created, Shows
<1>5. ASSUME NEW n \in Line, Offered(n)
      PROVE  Shows(Pair("have-local-offer", "stable"), Pair({}, {}))
  BY <1>1, <1>2, <1>5 DEF Offered, Shows
<1>6. ASSUME NEW n \in Line, Received(n)
      PROVE  Shows(Pair("have-local-offer", "have-remote-offer"), Pair({}, {}))
  <2>1. signalingState = Pair("have-local-offer", "have-remote-offer") /\ Unheard(Caller)
    BY <1>1, <1>6 DEF Received
  <2>2. signalingState[Callee] # "stable"
    BY <2>1, PairFacts
  <2>3. CallAgreed = Pair({}, {})
    BY <2>1, <2>2, TwoEnds, NothingSettled, AgreedIs
  <2>. QED BY <2>1, <2>3 DEF Shows
<1>7. ASSUME NEW n \in Line, Answered(n)
      PROVE  /\ Shows(Pair("have-local-offer", "stable"), Pair({}, {Media(Callee, n)}))
             /\ Media(Callee, n) \in SUBSET (Line \X OfferedCodecs)
  <2>1. /\ signalingState = Pair("have-local-offer", "stable")
        /\ transceivers = Pair(UpTo(n), UpTo(n))
        /\ Unheard(Caller) /\ ~Unheard(Callee)
    BY <1>1, <1>7 DEF Answered, Unheard
  <2>2. signalingState[Callee] = "stable" /\ transceivers[Callee] = UpTo(n)
    BY <2>1, PairFacts
  <2>3. Settled(Caller) = {} /\ Settled(Callee) = {Media(Callee, n)}
    BY <2>1, <2>2, TwoEnds, NothingSettled, SettledMedia
  <2>4. ASSUME NEW l \in 1 .. n
        PROVE  /\ l \in Line
               /\ Elements(First(Callee, l).sending) \union
                    Elements(First(Callee, l).receiving) \in SUBSET OfferedCodecs
    <3>1. Offering(l) /\ Answering(l) /\ Sends(l) /\ l \in Line
      BY <1>7, ListFacts DEF Answered
    <3>2. Elements(Common(l)) \in SUBSET Elements(Mine(l))
      BY <3>1, CodecsAreLists, CommonIsOffered DEF Common
    <3>3. Elements(Mine(l)) \in SUBSET OfferedCodecs
      BY <3>1 DEF Offering, Mine, OfferedCodecs
    <3>4. /\ First(Callee, l).sending \in {<<>>, Common(l)}
          /\ First(Callee, l).receiving \in {<<>>, Common(l)}
      BY <3>1 DEF Answering, Sends
    <3>. QED BY <3>1, <3>2, <3>3, <3>4, ElementsOfFew
  <2>5. Media(Callee, n) \in SUBSET (Line \X OfferedCodecs)
    BY <2>4 DEF Media
  <2>. QED BY <2>1, <2>3, <2>5, AgreedIs DEF Shows
<1>8. ASSUME NEW n \in Line, Accepted(n)
      PROVE  Shows(Pair("stable", "stable"),
                   Pair({Media(Callee, n)}, {Media(Callee, n)}))
  <2>1. /\ signalingState = Pair("stable", "stable")
        /\ transceivers = Pair(UpTo(n), UpTo(n))
        /\ ~Unheard(Caller) /\ ~Unheard(Callee) /\ \A l \in 1 .. n : Matched(l)
    BY <1>1, <1>8 DEF Accepted, Unheard
  <2>2. /\ signalingState[Callee] = "stable" /\ transceivers[Callee] = UpTo(n)
        /\ signalingState[Caller] = "stable" /\ transceivers[Caller] = UpTo(n)
    BY <2>1, PairFacts
  <2>3. Settled(Caller) = {Media(Caller, n)} /\ Settled(Callee) = {Media(Callee, n)}
    BY <2>1, <2>2, TwoEnds, SettledMedia
  <2>4. Media(Caller, n) = Media(Callee, n)
    <3>1. ASSUME NEW l \in 1 .. n
          PROVE  Elements(First(Caller, l).sending) \union Elements(First(Caller, l).receiving) =
                   Elements(First(Callee, l).sending) \union Elements(First(Callee, l).receiving)
      BY <2>1 DEF Matched
    <3>. QED BY <3>1 DEF Media
  <2>. QED BY <2>1, <2>3, <2>4, AgreedIs DEF Shows
<1>. QED BY <1>3, <1>4, <1>5, <1>6, <1>7, <1>8 DEF StagesShow

\* The steps outside the signaling do not show.
LEMMA QuietSteps ==
  ASSUME CallInv, NEW p \in Peer, AddsBefore(p) \/ GetsCandidate(p) \/ GathersInCall(p) \/ Times(p)
  PROVE  /\ UNCHANGED <<signalingState, remoteDescription, transceivers>>
         /\ \A o \in DOMAIN object : SameMedia(object[o], object'[o])
<1>0. CallTyped /\ (\A q \in Peer : Exchanged(q))
  BY DEF CallInv
<1>1. object' = object => \A o \in DOMAIN object : SameMedia(object[o], object'[o])
  BY DEF SameMedia
<1>2. CASE AddsBefore(p)
  BY <1>1, <1>2 DEF AddsBefore, AddStream, signaling
<1>3. CASE Times(p)
  BY <1>1, <1>3 DEF Times, RunTask, RunFlush, signaling, media
<1>4. ASSUME NEW k \in Negotiation, NEW l \in Line, NEW end \in BOOLEAN,
             LocalCandidate(p, k, l, end)
      PROVE  /\ UNCHANGED <<signalingState, remoteDescription, transceivers>>
             /\ \A o \in DOMAIN object : SameMedia(object[o], object'[o])
  <2>1. UNCHANGED <<signalingState, remoteDescription, transceivers>>
    BY <1>4 DEF LocalCandidate, signaling, media
  <2>. QED BY <1>0, <1>4, <2>1, GatheredObjects
<1>5. CASE GetsCandidate(p)
  <2>1. CASE UNCHANGED pcVars
    BY <1>1, <2>1 DEF pcVars, signaling, media
  <2> DEFINE event == emitted[p][delivered[p] + 1]
             mid == object[<<p, event.k, event.l>>].mid
  <2>2. CASE AddIceCandidate(Other(p), mid, event.l, event.n) /\ event # Null
    <3>1. event.l \in Line
      <4>1. delivered[p] + 1 \in DOMAIN emitted[p]
        <5>1. delivered[p] \in Nat /\ emitted[p] \in Seq(EventInCall)
          BY <1>0 DEF CallTyped
        <5>2. delivered[p] < Len(emitted[p])
          BY <1>5 DEF GetsCandidate
        <5>. QED BY <5>1, <5>2
      <4>2. event \in EventInCall
        BY <1>0, <4>1 DEF CallTyped
      <4> HIDE DEF event
      <4>. QED BY <2>2, <4>2 DEF EventInCall
    <3>2. \A l \in Line : transceivers[Other(p)][l] \in {0, 1}
      BY <1>0, TwoEnds DEF Exchanged, Installed
    <3>3. UNCHANGED <<signalingState, remoteDescription, transceivers>>
      BY <2>2 DEF AddIceCandidate, signaling, media
    <3> HIDE DEF event, mid
    <3>4. \A o \in DOMAIN object : SameMedia(object[o], object'[o])
      BY <1>0, <1>1, <2>2, <3>1, <3>2, TwoEnds, GivenObjects
    <3>. QED BY <3>3, <3>4
  <2>. QED BY <1>5, <2>1, <2>2 DEF GetsCandidate
<1>. QED BY <1>2, <1>3, <1>4, <1>5 DEF GathersInCall

\* A quiet step settles nothing.
LEMMA QuietShowsNothing ==
  ASSUME CallInv, UNCHANGED <<signalingState, remoteDescription, transceivers>>,
         \A o \in DOMAIN object : SameMedia(object[o], object'[o])
  PROVE  CallAgreed' = CallAgreed
<1>0. CallTyped /\ (\A q \in Peer : Exchanged(q))
  BY DEF CallInv
<1>1. ASSUME NEW p \in Peer PROVE Settled(p)' = Settled(p)
  <2> DEFINE M(o) == {o[3]} \X (Elements(object[o].sending) \union
                                Elements(object[o].receiving))
             N(o) == {o[3]} \X (Elements(object'[o].sending) \union
                                Elements(object'[o].receiving))
  <2>1. ASSUME NEW o \in Objects(p, transceivers[p]) PROVE M(o) = N(o)
    <3>1. PICK l \in Line : o = <<p, 1, l>>
      BY <1>0, ObjectsOfList DEF Exchanged, Installed
    <3>2. o \in DOMAIN object
      BY <1>0, <3>1, ObjectsOfFirst
    <3>. QED BY <3>2 DEF SameMedia
  <2>2. Settled(p) = IF signalingState[p] # "stable" \/ remoteDescription[p].type = "none"
                     THEN {} ELSE {UNION {M(o) : o \in Objects(p, transceivers[p])}}
    BY DEF Settled
  <2>3. Settled(p)' = IF signalingState'[p] # "stable" \/ remoteDescription'[p].type = "none"
                      THEN {} ELSE {UNION {N(o) : o \in Objects(p, transceivers'[p])}}
    BY DEF Settled
  <2> HIDE DEF M, N
  <2>4. {M(o) : o \in Objects(p, transceivers[p])} = {N(o) : o \in Objects(p, transceivers[p])}
    BY <2>1
  <2>. QED BY <2>2, <2>3, <2>4
<1>. QED BY <1>1 DEF CallAgreed

\* The same after a step.
LEMMA WhatStagesShowNext == StagesShow'
BY WhatStagesShow, PTL

\* From what they show, the steps of the abstract specification.
LEMMA AbstractNext ==
  ASSUME NEW st, NEW ag, NEW st2, NEW ag2,
         Shows(st, ag), Shows(st2, ag2)',
         \/ st2 = st /\ ag2 = ag
         \/ \E m : \E chosen \in SUBSET (Line \X OfferedCodecs) :
              \/ /\ st = Pair("stable", "stable") /\ ag = Pair({}, {})
                 /\ st2 = Pair("have-local-offer", "stable") /\ ag2 = ag
              \/ /\ st = Pair("have-local-offer", "stable") /\ ag = Pair({}, {})
                 /\ st2 = Pair("have-local-offer", "have-remote-offer") /\ ag2 = ag
              \/ /\ st = Pair("have-local-offer", "have-remote-offer") /\ ag = Pair({}, {})
                 /\ st2 = Pair("have-local-offer", "stable") /\ ag2 = Pair({}, {chosen})
              \/ /\ st = Pair("have-local-offer", "stable") /\ ag = Pair({}, {m})
                 /\ st2 = Pair("stable", "stable") /\ ag2 = Pair({m}, {m})
  PROVE  [Abstract!Next]_(Abstract!vars)
<1>0. /\ signalingState = st /\ signalingState' = st2
      /\ [p \in Peer |-> Settled(p)] = ag /\ [p \in Peer |-> Settled(p)]' = ag2
  BY DEF Shows, CallAgreed
<1>1. CASE st2 = st /\ ag2 = ag
  BY <1>0, <1>1 DEF Abstract!vars
<1>2. \A a, b : [p \in {Caller, Callee} |-> a] = Pair(a, a) /\ Pair(a, b)[Caller] = a /\ Pair(a, b)[Callee] = b
  BY PairFacts, CallAssumption DEF Pair
<1>3. CASE /\ st = Pair("stable", "stable") /\ ag = Pair({}, {})
           /\ st2 = Pair("have-local-offer", "stable") /\ ag2 = ag
  <2>1. st2 = [st EXCEPT ![Caller] = "have-local-offer"]
    BY <1>3, PairFacts
  <2>2. Abstract!Offer
    <3>1. [p \in {Caller, Callee} |-> "stable"] = Pair("stable", "stable")
      BY <1>2
    <3>2. Pair({}, {})[Callee] = {}
      BY PairFacts
    <3>3. signalingState = [p \in {Caller, Callee} |-> "stable"]
      BY <1>0, <1>3, <3>1
    <3>4. signalingState' = [signalingState EXCEPT ![Caller] = "have-local-offer"]
      BY <1>0, <2>1
    <3>. QED BY <1>0, <1>3, <3>2, <3>3, <3>4 DEF Abstract!Offer
  <2>. QED BY <2>2 DEF Abstract!Next
<1>4. CASE /\ st = Pair("have-local-offer", "stable") /\ ag = Pair({}, {})
           /\ st2 = Pair("have-local-offer", "have-remote-offer") /\ ag2 = ag
  <2>1. st2 = [st EXCEPT ![Callee] = "have-remote-offer"]
    BY <1>4, PairFacts
  <2>2. Abstract!Receive
    BY <1>0, <1>2, <1>4, <2>1 DEF Abstract!Receive
  <2>. QED BY <2>2 DEF Abstract!Next
<1>5. ASSUME NEW chosen \in SUBSET (Line \X OfferedCodecs),
             st = Pair("have-local-offer", "have-remote-offer"), ag = Pair({}, {}),
             st2 = Pair("have-local-offer", "stable"), ag2 = Pair({}, {chosen})
      PROVE  Abstract!Next
  <2>1. st2 = [st EXCEPT ![Callee] = "stable"]
    BY <1>5, PairFacts
  <2>2. ag2 = [ag EXCEPT ![Callee] = {chosen}]
    <3>1. \A c : [Pair({}, {}) EXCEPT ![Callee] = c] = Pair({}, c)
      BY PairFacts
    <3>. QED BY <1>5, <3>1
  <2>3. Abstract!Answer
    BY <1>0, <1>2, <1>5, <2>1, <2>2 DEF Abstract!Answer
  <2>. QED BY <2>3 DEF Abstract!Next
<1>6. ASSUME NEW m,
             st = Pair("have-local-offer", "stable"), ag = Pair({}, {m}),
             st2 = Pair("stable", "stable"), ag2 = Pair({m}, {m})
      PROVE  Abstract!Next
  <2>1. st2 = [st EXCEPT ![Caller] = "stable"]
    BY <1>6, PairFacts
  <2>2. ag[Callee] = {m} /\ ag2 = [ag EXCEPT ![Caller] = {m}]
    <3>1. \A c, d : [Pair({}, d) EXCEPT ![Caller] = c] = Pair(c, d)
      BY PairFacts
    <3>. QED BY <1>2, <1>6, <3>1
  <2>3. Abstract!Accept
    BY <1>0, <1>2, <1>6, <2>1, <2>2 DEF Abstract!Accept
  <2>. QED BY <2>3 DEF Abstract!Next
<1>. QED BY <1>1, <1>3, <1>4, <1>5, <1>6

\* A step that does not show is a stutter.
LEMMA NothingShows ==
  ASSUME signalingState' = signalingState, CallAgreed' = CallAgreed
  PROVE  [Abstract!Next]_(Abstract!vars)
BY DEF Abstract!vars, CallAgreed

\* Each step of the call is one of the abstract specification, or a stutter.
LEMMA NextImplements ==
  ASSUME CallInv, [CallNext]_vars
  PROVE  [Abstract!Next]_(Abstract!vars)
<1> DEFINE None == {}
<1>0. None \in SUBSET (Line \X OfferedCodecs)
  OBVIOUS
<1>1. CASE CallerCreatesOffer
  <2>1. PICK n \in Line : Idle /\ Created(n)'
    BY <1>1, CreatesOfferStays
  <2>2. /\ Shows(Pair("stable", "stable"), Pair({}, {}))
        /\ Shows(Pair("stable", "stable"), Pair({}, {}))'
    BY <2>1, WhatStagesShow, WhatStagesShowNext DEF StagesShow
  <2>. QED BY <2>2, NothingShows DEF Shows
<1>2. CASE CallerSendsOffer
  <2>1. PICK n \in Line : Created(n) /\ Offered(n)'
    BY <1>2, SendsOfferStays
  <2>2. /\ Shows(Pair("stable", "stable"), Pair({}, {}))
        /\ Shows(Pair("have-local-offer", "stable"), Pair({}, {}))'
    BY <2>1, WhatStagesShow, WhatStagesShowNext DEF StagesShow
  <2>. QED BY <1>0, <2>2, AbstractNext
<1>3. CASE CalleeGetsOffer
  <2>1. PICK n \in Line : Offered(n) /\ Received(n)'
    BY <1>3, GetsOfferStays
  <2>2. /\ Shows(Pair("have-local-offer", "stable"), Pair({}, {}))
        /\ Shows(Pair("have-local-offer", "have-remote-offer"), Pair({}, {}))'
    BY <2>1, WhatStagesShow, WhatStagesShowNext DEF StagesShow
  <2>. QED BY <1>0, <2>2, AbstractNext
<1>4. CASE CalleeSendsAnswer
  <2>1. PICK n \in Line : Received(n) /\ (Answered(n)' \/ Received(n)')
    BY <1>4, SendsAnswerStays
  <2>2. Shows(Pair("have-local-offer", "have-remote-offer"), Pair({}, {}))
    BY <2>1, WhatStagesShow DEF StagesShow
  <2>3. CASE Answered(n)'
    <3>1. PICK chosen : chosen = Media(Callee, n)'
      OBVIOUS
    <3>2. /\ Shows(Pair("have-local-offer", "stable"), Pair({}, {Media(Callee, n)}))'
          /\ chosen \in SUBSET (Line \X OfferedCodecs)
      BY <2>3, <3>1, WhatStagesShowNext DEF StagesShow
    <3>3. Shows(Pair("have-local-offer", "stable"), Pair({}, {chosen}))'
      BY <3>1, <3>2 DEF Shows
    <3>. QED BY <2>2, <3>2, <3>3, AbstractNext
  <2>4. CASE Received(n)'
    <3>1. Shows(Pair("have-local-offer", "have-remote-offer"), Pair({}, {}))'
      BY <2>4, WhatStagesShowNext DEF StagesShow
    <3>. QED BY <2>2, <3>1, NothingShows DEF Shows
  <2>. QED BY <2>1, <2>3, <2>4
<1>5. CASE CallerGetsAnswer
  <2>1. PICK n \in Line : /\ Answered(n) /\ Accepted(n)'
                          /\ \A l \in 1 .. n : First(Callee, l)' = First(Callee, l)
    BY <1>5, GetsAnswerStays
  <2>2. PICK m : m = Media(Callee, n)
    OBVIOUS
  <2>3. Media(Callee, n)' = m
    BY <2>1, <2>2 DEF Media
  <2>4. Shows(Pair("have-local-offer", "stable"), Pair({}, {m}))
    BY <2>1, <2>2, WhatStagesShow DEF StagesShow
  <2>5. Shows(Pair("stable", "stable"), Pair({Media(Callee, n)}, {Media(Callee, n)}))'
    BY <2>1, WhatStagesShowNext DEF StagesShow
  <2>6. Shows(Pair("stable", "stable"), Pair({m}, {m}))'
    BY <2>3, <2>5 DEF Shows
  <2>. QED BY <1>0, <2>4, <2>6, AbstractNext
<1>6. ASSUME NEW p \in Peer, AddsBefore(p) \/ GetsCandidate(p) \/ GathersInCall(p) \/ Times(p)
      PROVE  [Abstract!Next]_(Abstract!vars)
  BY <1>6, QuietSteps, QuietShowsNothing, NothingShows
<1>7. CASE UNCHANGED vars
  <2>1. UNCHANGED <<signalingState, remoteDescription, transceivers>> /\ object' = object
    BY <1>7 DEF vars, pcVars, signaling, media
  <2>2. \A o \in DOMAIN object : SameMedia(object[o], object'[o])
    BY <2>1 DEF SameMedia
  <2>. QED BY <2>1, <2>2, QuietShowsNothing, NothingShows
<1>. QED BY <1>1, <1>2, <1>3, <1>4, <1>5, <1>6, <1>7 DEF CallNext, Signals

\* The call starts where the abstract specification starts.
LEMMA InitImplements == CallInit => Abstract!Init
<1> SUFFICES ASSUME CallInit PROVE Abstract!Init
  OBVIOUS
<1>1. /\ signalingState = [p \in Peer |-> "stable"]
      /\ remoteDescription = [p \in Peer |-> NoDescription]
  BY DEF CallInit, Init
<1>2. \A p \in Peer : Settled(p) = {}
  BY <1>1, NothingSettled DEF Unheard, NoDescription
<1>. QED BY <1>1, <1>2, CallAssumption DEF Abstract!Init

\* The shims at both ends run the offer/answer protocol: an answer takes some
\* of what was offered, and the caller ends with what the callee settled on.
THEOREM CallImplementsOfferAnswer == CallSpec => ImplementsOfferAnswer
<1>1. CallInv /\ [CallNext]_vars => [Abstract!Next]_(Abstract!vars)
  BY NextImplements
<1>. QED BY <1>1, InitImplements, CallInvariance, PTL
         DEF CallSpec, ImplementsOfferAnswer, Abstract!Spec
=============================================================================
