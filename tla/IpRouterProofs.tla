--------------------------- MODULE IpRouterProofs ---------------------------
(***************************************************************************)
(* That the router's threads implement forwarding and give the handles     *)
(* they open back, for any number of interfaces, packets and handles.      *)
(*                                                                         *)
(* The argument: the number of a packet is at one place, on the wire of    *)
(* the interface it came to or in the hand of that interface's thread; at  *)
(* each stage the thread's variables are what the code made of that        *)
(* packet; and what handles are open is paid for by injecting threads and  *)
(* by expired packets that left the wire.                                  *)
(***************************************************************************)
EXTENDS IpRouterProperties, TLAPS, FiniteSetTheorems, SequenceTheorems

\* What is waiting at d are packets that came to d, each once.
Waiting(d) ==
  \A i \in 1..Len(wire[d]) :
    /\ wire[d][i] \in 1..Len(received)
    /\ received[wire[d][i]].ifname = d
    /\ \A j \in 1..Len(wire[d]) : wire[d][i] = wire[d][j] => i = j

\* The thread of d holds a packet that came to d and waits there no more.
Holding(d) ==
  /\ stage[d] = "capture" <=> hand[d] = 0
  /\ hand[d] # 0 =>
       /\ hand[d] \in 1..Len(received)
       /\ received[hand[d]].ifname = d
       /\ \A i \in 1..Len(wire[d]) : wire[d][i] # hand[d]

\* The frame became a message to the sender, or is on its way.
Rewritten(d) ==
  /\ received[hand[d]].ttl = 1
  /\ to[d] = "sender" /\ ttl[d] = 64 /\ ifname[d] \in {d, "garbage"}

Routed(d) ==
  LET p == received[hand[d]]
  IN /\ ttl[d] = CountDown(p.ttl) /\ ttl[d] # 0
     /\ to[d] = Route(p.dst).next_hop /\ ifname[d] = Route(p.dst).ifname

Staged(d) ==
  /\ stage[d] = "expire" => received[hand[d]].ttl = 1
  /\ stage[d] = "open" => Rewritten(d) \/ Routed(d)
  /\ stage[d] = "resolve" => Routed(d) /\ ifname[d] \in Ifnames
  /\ stage[d] = "send" => (Rewritten(d) \/ Routed(d)) /\ ifname[d] \in Ifnames

Injecting == {d \in Ifnames : stage[d] \in {"resolve", "send"}}
Expiring == {d \in Ifnames : stage[d] = "expire"}
Expired == {n \in DOMAIN received : received[n].ttl = 1} \ OnWire

\* An expired packet that left the wire pays for one handle at most.
HandlesPaid ==
  /\ Cardinality(Injecting) <= handles
  /\ handles + Cardinality(Expiring) <= Cardinality(Injecting) + Cardinality(Expired)

\* The inductive invariant.
RouterInv ==
  /\ TypeOK
  /\ \A d \in Ifnames : Waiting(d) /\ Holding(d) /\ Staged(d)
  /\ HandlesPaid

-----------------------------------------------------------------------------
(* The functions of the code.                                              *)

\* A number below the modulus is its own remainder.
LEMMA SmallRemainder ==
  ASSUME NEW R \in Nat, R > 1, NEW x \in 0..(R - 1) PROVE x % R = x
BY SMTT(60)

\* A ttl of 0 less one is the largest the field holds.
LEMMA WrappedRemainder ==
  ASSUME NEW R \in Nat, R > 1 PROVE (-1) % R = R - 1
BY SMTT(60)

\* One less, except that 0 becomes the largest value: it is 0 only from 1.
LEMMA CountDownFacts ==
  ASSUME NEW t \in 0..(TtlRange - 1)
  PROVE  /\ CountDown(t) \in 0..(TtlRange - 1)
         /\ CountDown(t) = 0 <=> t = 1
         /\ t # 0 => CountDown(t) = t - 1
<1>1. TtlRange \in Nat /\ TtlRange > 1
  BY RouterAssumption
<1>2. CASE t = 0
  <2>1. t - 1 = -1
    BY <1>2
  <2>2. CountDown(t) = TtlRange - 1
    BY <1>1, <2>1, WrappedRemainder DEF CountDown
  <2>. QED BY <1>1, <1>2, <2>2
<1>3. CASE t # 0
  <2>1. t - 1 \in 0..(TtlRange - 1)
    BY <1>1, <1>3
  <2>2. CountDown(t) = t - 1
    BY <1>1, <2>1, SmallRemainder DEF CountDown
  <2>. QED BY <1>1, <1>3, <2>1, <2>2
<1>. QED BY <1>2, <1>3

\* A route leads to a neighbour by eth1 or eth2, unless there is none.
LEMMA RouteFacts ==
  ASSUME NEW net
  PROVE  \/ Route(net) = NoRoute
         \/ /\ Route(net).next_hop \in NextHops
            /\ Route(net).ifname \in Ifnames
            /\ Route(net) # NoRoute
<1> DEFINE hits == {r \in DOMAIN Routes : Routes[r].net = net}
<1>1. DOMAIN Routes = 1..3
  BY DEF Routes
<1>2. CASE hits = {}
  BY <1>2 DEF Route
<1>3. CASE hits # {}
  <2>1. \E r \in hits : \A q \in hits : r <= q
    BY <1>1, <1>3
  <2>2. PICK r \in 1..3 : Route(net) = Routes[r]
    BY <1>1, <1>3, <2>1 DEF Route
  <2>3. Routes[r].ifname \in {"eth1", "eth2"}
    BY DEF Routes
  <2>4. Routes[r].next_hop \in NextHops
    BY <1>1 DEF NextHops
  <2>. QED BY <2>2, <2>3, <2>4, RouterAssumption DEF NoRoute
<1>. QED BY <1>2, <1>3

\* No neighbour is called "sender", and no route leads there.
LEMMA SenderIsNoHop ==
  /\ "sender" \notin NextHops /\ "none" \notin NextHops
  /\ \A net : Route(net).next_hop # "sender"
<1>1. NextHops = {"10.10.1.1", "10.10.3.2"}
  BY DEF NextHops, Routes
<1>2. ASSUME NEW net PROVE Route(net).next_hop # "sender"
  <2>1. CASE Route(net) = NoRoute
    BY <2>1 DEF NoRoute
  <2>2. CASE Route(net).next_hop \in NextHops
    BY <1>1, <2>2
  <2>. QED BY <2>1, <2>2, RouteFacts
<1>3. "sender" \notin NextHops /\ "none" \notin NextHops
  BY <1>1
<1>. QED BY <1>2, <1>3

-----------------------------------------------------------------------------
(* Places.                                                                 *)

\* The packets on their way can be counted.
LEMMA FiniteParts ==
  ASSUME RouterInv
  PROVE  /\ IsFiniteSet(Injecting) /\ IsFiniteSet(Expiring) /\ IsFiniteSet(Expired)
         /\ Cardinality(Injecting) \in Nat /\ Cardinality(Expiring) \in Nat
         /\ Cardinality(Expired) \in Nat
<1>1. IsFiniteSet(Injecting) /\ IsFiniteSet(Expiring)
  BY RouterAssumption, FS_Subset DEF Injecting, Expiring
<1>2. DOMAIN received = 1..Len(received) /\ Len(received) \in Nat
  BY DEF RouterInv, TypeOK
<1>3. IsFiniteSet(DOMAIN received)
  BY <1>2, FS_Interval
<1>4. Expired \subseteq DOMAIN received
  BY DEF Expired
<1>5. IsFiniteSet(Expired)
  BY <1>3, <1>4, FS_Subset
<1>. QED BY <1>1, <1>5, FS_CardinalityType

\* A packet is on a wire if a wire holds it at some place.
LEMMA OnWires ==
  ASSUME NEW S, NEW w \in [Ifnames -> Seq(S)]
  PROVE  \A n : n \in UNION {{w[d][k] : k \in DOMAIN w[d]} : d \in Ifnames}
                 <=> \E d \in Ifnames : \E i \in 1..Len(w[d]) : w[d][i] = n
<1>1. \A d \in Ifnames : DOMAIN w[d] = 1..Len(w[d])
  OBVIOUS
<1>. QED BY <1>1

\* The same of the wires after a step.
LEMMA OnWiresNext ==
  ASSUME wire' \in [Ifnames -> Seq(1..Last)]
  PROVE  \A n : n \in OnWire' <=> \E d \in Ifnames : \E i \in 1..Len(wire'[d]) : wire'[d][i] = n
BY OnWires DEF OnWire

\* What waits or is held is at the interface it came to: nowhere else.
LEMMA OnePlace ==
  ASSUME RouterInv
  PROVE  /\ \A n : n \in OnWire <=> \E d \in Ifnames : \E i \in 1..Len(wire[d]) : wire[d][i] = n
         /\ \A d \in Ifnames : hand[d] # 0 => hand[d] \notin OnWire
         /\ \A d, e \in Ifnames : hand[d] # 0 /\ hand[d] = hand[e] => d = e
<1>2. \A n : n \in OnWire <=> \E d \in Ifnames : \E i \in 1..Len(wire[d]) : wire[d][i] = n
  BY OnWires DEF OnWire, RouterInv, TypeOK
<1>3. ASSUME NEW d \in Ifnames, hand[d] # 0, hand[d] \in OnWire PROVE FALSE
  <2>1. PICK e \in Ifnames : \E i \in 1..Len(wire[e]) : wire[e][i] = hand[d]
    BY <1>2, <1>3
  <2>2. d = e
    BY <1>3, <2>1 DEF RouterInv, Waiting, Holding
  <2>. QED BY <1>3, <2>1, <2>2 DEF RouterInv, Holding
<1>4. \A d, e \in Ifnames : hand[d] # 0 /\ hand[d] = hand[e] => d = e
  BY DEF RouterInv, Holding
<1>. QED BY <1>2, <1>3, <1>4

\* A step that moves no packet onto a wire or off one.
LEMMA WiresStay ==
  ASSUME UNCHANGED <<received, wire>>
  PROVE  OnWire' = OnWire /\ Expired' = Expired
BY DEF OnWire, Expired

\* Only the thread of d changes its stage: who injects, who has an expired packet.
LEMMA StageCounts ==
  ASSUME RouterInv, NEW d \in Ifnames, \A e \in Ifnames \ {d} : stage'[e] = stage[e]
  PROVE  /\ Cardinality(Injecting') =
              Cardinality(Injecting)
              + (IF stage'[d] \in {"resolve", "send"} THEN 1 ELSE 0)
              - (IF stage[d] \in {"resolve", "send"} THEN 1 ELSE 0)
         /\ Cardinality(Expiring') =
              Cardinality(Expiring)
              + (IF stage'[d] = "expire" THEN 1 ELSE 0)
              - (IF stage[d] = "expire" THEN 1 ELSE 0)
<1>1. Injecting' = IF stage'[d] \in {"resolve", "send"} THEN Injecting \union {d}
                   ELSE Injecting \ {d}
  BY DEF Injecting
<1>2. Expiring' = IF stage'[d] = "expire" THEN Expiring \union {d} ELSE Expiring \ {d}
  BY DEF Expiring
<1>3. /\ Cardinality(Injecting \union {d}) =
            IF d \in Injecting THEN Cardinality(Injecting) ELSE Cardinality(Injecting) + 1
      /\ Cardinality(Injecting \ {d}) =
            IF d \in Injecting THEN Cardinality(Injecting) - 1 ELSE Cardinality(Injecting)
      /\ Cardinality(Expiring \union {d}) =
            IF d \in Expiring THEN Cardinality(Expiring) ELSE Cardinality(Expiring) + 1
      /\ Cardinality(Expiring \ {d}) =
            IF d \in Expiring THEN Cardinality(Expiring) - 1 ELSE Cardinality(Expiring)
  BY FiniteParts, FS_AddElement, FS_RemoveElement
<1>4. /\ d \in Injecting <=> stage[d] \in {"resolve", "send"}
      /\ d \in Expiring <=> stage[d] = "expire"
  BY DEF Injecting, Expiring
<1>. QED BY <1>1, <1>2, <1>3, <1>4, FiniteParts

-----------------------------------------------------------------------------
(* The invariant holds at first.                                           *)

\* A router that starts holds no packet.
LEMMA RouterStarts == ASSUME Init PROVE RouterInv
<1>1. TypeOK
  BY RouterAssumption DEF Init, TypeOK
<1>2. \A d \in Ifnames : Waiting(d) /\ Holding(d) /\ Staged(d)
  BY DEF Init, Waiting, Holding, Staged
<1>3. Injecting = {} /\ Expiring = {} /\ Expired = {}
  BY DEF Init, Injecting, Expiring, Expired
<1>4. HandlesPaid
  BY <1>3, FS_EmptySet DEF Init, HandlesPaid
<1>. QED BY <1>1, <1>2, <1>4 DEF RouterInv

-----------------------------------------------------------------------------
(* Each action keeps it.                                                   *)

\* The variables of the thread of e stay, and the packets it refers to.
Untouched(e) ==
  /\ wire'[e] = wire[e]
  /\ stage'[e] = stage[e] /\ hand'[e] = hand[e] /\ ttl'[e] = ttl[e]
  /\ ifname'[e] = ifname[e] /\ to'[e] = to[e]

\* An interface whose queue and threads a step leaves alone keeps its part of the
\* invariant.
LEMMA UntouchedKeeps ==
  ASSUME NEW e \in Ifnames, Waiting(e), Holding(e), Staged(e), Untouched(e),
         UNCHANGED received
  PROVE  Waiting(e)' /\ Holding(e)' /\ Staged(e)'
BY DEF Waiting, Holding, Staged, Rewritten, Routed, Untouched

\* A step of the thread of d on its own packet.
LEMMA OwnStep ==
  ASSUME RouterInv, NEW d \in Ifnames, UNCHANGED <<received, wire>>,
         \A e \in Ifnames \ {d} : Untouched(e),
         Holding(d)', Staged(d)'
  PROVE  \A e \in Ifnames : Waiting(e)' /\ Holding(e)' /\ Staged(e)'
<1>1. Waiting(d)'
  BY DEF RouterInv, Waiting
<1>2. ASSUME NEW e \in Ifnames, e # d PROVE Waiting(e)' /\ Holding(e)' /\ Staged(e)'
  BY <1>2, UntouchedKeeps DEF RouterInv
<1>. QED BY <1>1, <1>2

\* A packet that arrives waits at its interface.
LEMMA ArrivesOnWire ==
  ASSUME RouterInv, NEW p \in Packet, Arrive(p)
  PROVE  OnWire' = OnWire \union {Len(received) + 1}
<1> DEFINE n == Len(received) + 1
<1>1. p.ifname \in Ifnames /\ Len(received) \in Nat /\ n \in 1..Last
  BY RouterAssumption DEF RouterInv, TypeOK, Arrive, Packet
<1>2. /\ wire' \in [Ifnames -> Seq(1..Last)]
      /\ \A e \in Ifnames \ {p.ifname} : wire'[e] = wire[e]
      /\ wire'[p.ifname] = Append(wire[p.ifname], n)
  BY <1>1 DEF RouterInv, TypeOK, Arrive
<1>3. \A k : k \in OnWire <=> \E d \in Ifnames : \E i \in 1..Len(wire[d]) : wire[d][i] = k
  BY OnePlace
<1>4. \A k : k \in OnWire' <=> \E d \in Ifnames : \E i \in 1..Len(wire'[d]) : wire'[d][i] = k
  BY <1>2, OnWiresNext
<1>5. wire[p.ifname] \in Seq(1..Last)
  BY <1>1 DEF RouterInv, TypeOK
<1>6. /\ Len(wire[p.ifname]) \in Nat
      /\ Len(wire'[p.ifname]) = Len(wire[p.ifname]) + 1
      /\ \A i \in 1..Len(wire[p.ifname]) : wire'[p.ifname][i] = wire[p.ifname][i]
      /\ wire'[p.ifname][Len(wire[p.ifname]) + 1] = n
  BY <1>2, <1>5
<1>7. \A k : (\E i \in 1..Len(wire'[p.ifname]) : wire'[p.ifname][i] = k)
              <=> k = n \/ \E i \in 1..Len(wire[p.ifname]) : wire[p.ifname][i] = k
  <2>1. Len(wire[p.ifname]) + 1 \in 1..Len(wire'[p.ifname])
    BY <1>6
  <2>2. \A i \in 1..Len(wire'[p.ifname]) :
          i \in 1..Len(wire[p.ifname]) \/ i = Len(wire[p.ifname]) + 1
    BY <1>6
  <2>3. 1..Len(wire[p.ifname]) \subseteq 1..Len(wire'[p.ifname])
    BY <1>6
  <2>. QED BY <1>6, <2>1, <2>2, <2>3
<1>8. \A k : k \in OnWire' <=> k = n \/ k \in OnWire
  <2> SUFFICES ASSUME NEW k PROVE k \in OnWire' <=> k = n \/ k \in OnWire
    OBVIOUS
  <2>1. /\ p.ifname \in Ifnames
        /\ \A d \in Ifnames \ {p.ifname} : wire'[d] = wire[d]
    BY <1>1, <1>2
  <2>2. (\E i \in 1..Len(wire'[p.ifname]) : wire'[p.ifname][i] = k)
          <=> k = n \/ \E i \in 1..Len(wire[p.ifname]) : wire[p.ifname][i] = k
    BY <1>7
  <2>. QED BY <1>3, <1>4, <2>1, <2>2, Zenon
<1>. QED BY <1>8

\* A packet that arrives keeps the invariant.
LEMMA ArriveKeeps ==
  ASSUME RouterInv, NEW p \in Packet, Arrive(p) PROVE RouterInv'
<1> DEFINE n == Len(received) + 1
<1>1. /\ p.ifname \in Ifnames /\ Len(received) \in Nat /\ n \in 1..Last
      /\ received' \in Seq(Packet) /\ Len(received') = n
      /\ \A k \in 1..Len(received) : received'[k] = received[k]
      /\ received'[n] = p
      /\ DOMAIN received = 1..Len(received) /\ DOMAIN received' = 1..n
  BY RouterAssumption DEF RouterInv, TypeOK, Arrive, Packet
<1>2. /\ wire' \in [Ifnames -> Seq(1..Last)]
      /\ \A e \in Ifnames \ {p.ifname} : wire'[e] = wire[e]
      /\ wire'[p.ifname] = Append(wire[p.ifname], n)
  BY <1>1 DEF RouterInv, TypeOK, Arrive
<1>3. TypeOK'
  BY <1>1, <1>2 DEF RouterInv, TypeOK, Arrive, locals
<1>4. ASSUME NEW e \in Ifnames PROVE Waiting(e)' /\ Holding(e)' /\ Staged(e)'
  <2>1. /\ wire[e] \in Seq(1..Last)
        /\ \A i \in 1..Len(wire[e]) : wire[e][i] \in 1..Len(received)
    BY DEF RouterInv, TypeOK, Waiting
  <2>2. CASE e = p.ifname
    <3>1. /\ Len(wire'[e]) = Len(wire[e]) + 1
          /\ \A i \in 1..Len(wire[e]) : wire'[e][i] = wire[e][i]
          /\ wire'[e][Len(wire[e]) + 1] = n
      BY <1>2, <2>1, <2>2
    <3>2. Waiting(e)'
      <4> SUFFICES ASSUME NEW i \in 1..(Len(wire[e]) + 1)
                   PROVE  /\ wire'[e][i] \in 1..n /\ received'[wire'[e][i]].ifname = e
                          /\ \A j \in 1..(Len(wire[e]) + 1) :
                               wire'[e][i] = wire'[e][j] => i = j
        BY <1>1, <3>1 DEF Waiting
      <4>1. Len(wire[e]) \in Nat
        BY <2>1
      <4>2. ASSUME NEW j \in 1..Len(wire[e])
            PROVE  /\ wire'[e][j] = wire[e][j] /\ wire'[e][j] \in 1..Len(received)
                   /\ wire'[e][j] # n /\ received'[wire'[e][j]] = received[wire[e][j]]
        <5>1. wire'[e][j] = wire[e][j]
          BY <3>1
        <5>2. wire[e][j] \in 1..Len(received)
          BY <2>1
        <5>3. Len(received) \in Nat /\ received'[wire[e][j]] = received[wire[e][j]]
          BY <1>1, <5>2
        <5>. QED BY <5>1, <5>2, <5>3
      <4>3. CASE i = Len(wire[e]) + 1
        BY <1>1, <2>2, <3>1, <4>1, <4>2, <4>3
      <4>4. CASE i \in 1..Len(wire[e])
        <5>1. /\ received[wire[e][i]].ifname = e
              /\ \A j \in 1..Len(wire[e]) : wire[e][i] = wire[e][j] => i = j
          BY <4>4 DEF RouterInv, Waiting
        <5>2. /\ wire'[e][i] \in 1..n /\ received'[wire'[e][i]].ifname = e
              /\ wire'[e][i] = wire[e][i] /\ wire'[e][i] # n
          BY <1>1, <4>2, <4>4, <5>1
        <5>3. ASSUME NEW j \in 1..(Len(wire[e]) + 1), wire'[e][i] = wire'[e][j] PROVE i = j
          <6>1. CASE j = Len(wire[e]) + 1
            BY <3>1, <5>2, <5>3, <6>1
          <6>2. CASE j \in 1..Len(wire[e])
            BY <3>1, <4>4, <5>1, <5>2, <5>3, <6>2
          <6>. QED BY <4>1, <6>1, <6>2
        <5>. QED BY <5>2, <5>3
      <4>. QED BY <4>1, <4>3, <4>4
    <3>3. Holding(e)'
      BY <1>1, <2>1, <3>1 DEF RouterInv, Holding, Arrive, locals
    <3>. QED BY <1>1, <3>2, <3>3 DEF RouterInv, Holding, Staged, Rewritten, Routed,
                                   Arrive, locals
  <2>3. CASE e # p.ifname
    <3>1. wire'[e] = wire[e]
      BY <1>2, <2>3
    <3>2. Waiting(e)'
      BY <1>1, <2>1, <3>1 DEF RouterInv, Waiting
    <3>3. Holding(e)'
      BY <1>1, <3>1 DEF RouterInv, Holding, Arrive, locals
    <3>. QED BY <1>1, <3>2, <3>3 DEF RouterInv, Holding, Staged, Rewritten, Routed,
                                   Arrive, locals
  <2>. QED BY <2>2, <2>3
<1>5. OnWire' = OnWire \union {n}
  BY ArrivesOnWire
<1>6. Expired' = Expired
  BY <1>1, <1>5 DEF Expired
<1>7. HandlesPaid'
  BY <1>6 DEF RouterInv, HandlesPaid, Injecting, Expiring, Arrive, locals
<1>. QED BY <1>3, <1>4, <1>7 DEF RouterInv

\* A change of the ARP table keeps the invariant.
LEMMA ArpKeeps == ASSUME RouterInv, ArpChanges PROVE RouterInv'
<1>1. TypeOK'
  BY DEF RouterInv, TypeOK, ArpChanges, locals
<1>2. \A e \in Ifnames : Waiting(e)' /\ Holding(e)' /\ Staged(e)'
  BY UntouchedKeeps DEF RouterInv, Untouched, ArpChanges, locals
<1>3. HandlesPaid'
  BY WiresStay DEF RouterInv, HandlesPaid, Injecting, Expiring, ArpChanges, locals
<1>. QED BY <1>1, <1>2, <1>3 DEF RouterInv

\* The packet in the hand of d.
LEMMA HeldPacket ==
  ASSUME RouterInv, NEW d \in Ifnames, stage[d] # "capture"
  PROVE  /\ hand[d] \in 1..Last /\ hand[d] \in 1..Len(received) /\ hand[d] # 0
         /\ received[hand[d]] \in Packet /\ received[hand[d]].ifname = d
         /\ received[hand[d]].ttl \in 0..(TtlRange - 1)
<1>1. received \in Seq(Packet) /\ hand[d] \in 0..Last
  BY DEF RouterInv, TypeOK
<1>2. /\ hand[d] # 0 /\ hand[d] \in 1..Len(received)
      /\ received[hand[d]].ifname = d
  BY DEF RouterInv, Holding
<1>3. received[hand[d]] \in Packet
  BY <1>1, <1>2
<1>4. received[hand[d]].ttl \in Ttls
  BY <1>3 DEF Packet
<1>5. received[hand[d]].ttl \in 0..(TtlRange - 1)
  BY <1>4, RouterAssumption
<1>6. hand[d] \in 1..Last
  BY <1>1, <1>2, RouterAssumption
<1>. QED BY <1>2, <1>3, <1>5, <1>6

\* The thread of d goes to stage s with the packet it has.
LEMMA StageMoves ==
  ASSUME RouterInv, NEW d \in Ifnames, stage[d] # "capture", NEW s, s # "capture",
         stage' = [stage EXCEPT ![d] = s], UNCHANGED <<received, wire, hand>>
  PROVE  Holding(d)' /\ stage'[d] = s
BY HeldPacket DEF RouterInv, TypeOK, Holding

\* Answering a packet whose time is over keeps the invariant.
LEMMA ExpireKeeps ==
  ASSUME RouterInv, NEW d \in Ifnames, Expire(d) PROVE RouterInv'
<1>1. PICK name \in {d, "garbage"} : ifname' = [ifname EXCEPT ![d] = name]
  BY DEF Expire
<1>2. TypeOK'
  BY <1>1, RouterAssumption DEF RouterInv, TypeOK, Expire
<1>3. Staged(d)'
  BY <1>1 DEF RouterInv, TypeOK, Staged, Expire, Rewritten
<1>4. Holding(d)'
  BY StageMoves DEF Expire
<1>5. \A e \in Ifnames \ {d} : Untouched(e)
  BY <1>1 DEF Untouched, Expire
<1>6. \A e \in Ifnames : Waiting(e)' /\ Holding(e)' /\ Staged(e)'
  BY <1>3, <1>4, <1>5, OwnStep DEF Expire
<1>7. HandlesPaid'
  <2>1. /\ Cardinality(Injecting') = Cardinality(Injecting)
        /\ Cardinality(Expiring') = Cardinality(Expiring) - 1
    <3>1. /\ stage'[d] = "open" /\ stage[d] = "expire"
          /\ \A e \in Ifnames \ {d} : stage'[e] = stage[e]
      BY DEF Expire, RouterInv, TypeOK
    <3>. QED BY <3>1, StageCounts, FiniteParts
  <2>2. handles \in Int /\ handles' = handles + 1 /\ Expired' = Expired
    BY WiresStay DEF RouterInv, TypeOK, Expire
  <2>. QED BY <2>1, <2>2, FiniteParts DEF RouterInv, HandlesPaid
<1>. QED BY <1>2, <1>6, <1>7 DEF RouterInv

\* Opening the output device keeps the invariant.
LEMMA OpenKeeps ==
  ASSUME RouterInv, NEW d \in Ifnames, Open(d) PROVE RouterInv'
<1> DEFINE s == IF to[d] = "sender" THEN "send" ELSE "resolve"
<1>1. TypeOK'
  BY RouterAssumption DEF RouterInv, TypeOK, Open
<1>2. stage'[d] = s /\ Holding(d)'
  BY StageMoves DEF Open
<1>3. Staged(d)'
  <2>1. /\ Rewritten(d) \/ Routed(d)
        /\ to[d] # "sender" => Routed(d)
        /\ ifname[d] \in Ifnames
    BY DEF RouterInv, Staged, Open, Rewritten
  <2>2. (Rewritten(d) <=> Rewritten(d)') /\ (Routed(d) <=> Routed(d)')
    BY DEF Open, Rewritten, Routed
  <2>. QED BY <1>2, <2>1, <2>2 DEF Staged, Open
<1>4. \A e \in Ifnames \ {d} : Untouched(e)
  BY DEF Untouched, Open, RouterInv, TypeOK
<1>5. \A e \in Ifnames : Waiting(e)' /\ Holding(e)' /\ Staged(e)'
  BY <1>2, <1>3, <1>4, OwnStep DEF Open
<1>6. HandlesPaid'
  <2>1. /\ Cardinality(Injecting') = Cardinality(Injecting) + 1
        /\ Cardinality(Expiring') = Cardinality(Expiring)
    <3>1. /\ stage'[d] \in {"resolve", "send"} /\ stage[d] = "open"
          /\ \A e \in Ifnames \ {d} : stage'[e] = stage[e]
      BY DEF Open, RouterInv, TypeOK
    <3>. QED BY <3>1, StageCounts, FiniteParts
  <2>2. handles \in Int /\ handles' = handles + 1 /\ Expired' = Expired
    BY WiresStay DEF RouterInv, TypeOK, Open
  <2>. QED BY <2>1, <2>2, FiniteParts DEF RouterInv, HandlesPaid
<1>. QED BY <1>1, <1>5, <1>6 DEF RouterInv

\* Finding the next hop's address keeps the invariant.
LEMMA ResolveKeeps ==
  ASSUME RouterInv, NEW d \in Ifnames, Resolve(d) PROVE RouterInv'
<1>1. TypeOK'
  BY DEF RouterInv, TypeOK, Resolve
<1>2. stage'[d] = "send" /\ Holding(d)'
  BY StageMoves DEF Resolve
<1>3. Staged(d)'
  BY <1>2 DEF RouterInv, Staged, Resolve, Routed
<1>4. \A e \in Ifnames \ {d} : Untouched(e)
  BY DEF Untouched, Resolve, RouterInv, TypeOK
<1>5. \A e \in Ifnames : Waiting(e)' /\ Holding(e)' /\ Staged(e)'
  BY <1>2, <1>3, <1>4, OwnStep DEF Resolve
<1>6. HandlesPaid'
  <2>1. /\ Cardinality(Injecting') = Cardinality(Injecting)
        /\ Cardinality(Expiring') = Cardinality(Expiring)
    <3>1. /\ stage'[d] = "send" /\ stage[d] = "resolve"
          /\ \A e \in Ifnames \ {d} : stage'[e] = stage[e]
      BY DEF Resolve, RouterInv, TypeOK
    <3>. QED BY <3>1, StageCounts, FiniteParts
  <2>. QED BY <2>1, WiresStay DEF RouterInv, HandlesPaid, Resolve
<1>. QED BY <1>1, <1>5, <1>6 DEF RouterInv

\* A process that dies keeps the invariant.
LEMMA DiesKeeps ==
  ASSUME RouterInv, Dies PROVE RouterInv'
<1>1. TypeOK'
  BY DEF RouterInv, TypeOK, Dies, locals
<1>2. \A e \in Ifnames : Waiting(e)' /\ Holding(e)' /\ Staged(e)'
  BY UntouchedKeeps DEF RouterInv, Untouched, Dies, locals
<1>3. HandlesPaid'
  BY WiresStay DEF RouterInv, HandlesPaid, Injecting, Expiring, Dies, locals
<1>. QED BY <1>1, <1>2, <1>3 DEF RouterInv

\* The end of callback, on any path.
LEMMA ReturnFacts ==
  ASSUME RouterInv, NEW d \in Ifnames, Return(d), UNCHANGED <<received, wire>>
  PROVE  /\ stage' \in [Ifnames -> {"capture", "expire", "open", "resolve", "send"}]
         /\ hand' \in [Ifnames -> 0..Last]
         /\ \A e \in Ifnames : hand'[e] = IF e = d THEN 0 ELSE hand[e]
         /\ \A e \in Ifnames : Waiting(e)' /\ Holding(e)' /\ Staged(e)'
<1>1. /\ stage' \in [Ifnames -> {"capture", "expire", "open", "resolve", "send"}]
      /\ hand' \in [Ifnames -> 0..Last] /\ stage'[d] = "capture"
      /\ \A e \in Ifnames : hand'[e] = IF e = d THEN 0 ELSE hand[e]
  BY RouterAssumption DEF RouterInv, TypeOK, Return
<1>2. Holding(d)' /\ Staged(d)'
  BY <1>1 DEF Holding, Staged
<1>3. \A e \in Ifnames \ {d} : Untouched(e)
  BY DEF RouterInv, TypeOK, Return, Untouched
<1>. QED BY <1>1, <1>2, <1>3, OwnStep

\* Failing to open the device for an answer keeps the invariant.
LEMMA ExpireUnopenedKeeps ==
  ASSUME RouterInv, NEW d \in Ifnames, ExpireUnopened(d) PROVE RouterInv'
<1>1. TypeOK'
  BY ReturnFacts DEF RouterInv, TypeOK, ExpireUnopened, Return
<1>2. \A e \in Ifnames : Waiting(e)' /\ Holding(e)' /\ Staged(e)'
  BY ReturnFacts DEF ExpireUnopened
<1>3. HandlesPaid'
  <2>1. /\ Cardinality(Injecting') = Cardinality(Injecting)
        /\ Cardinality(Expiring') = Cardinality(Expiring) - 1
    <3>1. /\ stage'[d] = "capture" /\ stage[d] = "expire"
          /\ \A e \in Ifnames \ {d} : stage'[e] = stage[e]
      BY DEF ExpireUnopened, Return, RouterInv, TypeOK
    <3>. QED BY <3>1, StageCounts, FiniteParts
  <2>. QED BY <2>1, WiresStay, FiniteParts
           DEF RouterInv, TypeOK, HandlesPaid, ExpireUnopened
<1>. QED BY <1>1, <1>2, <1>3 DEF RouterInv

\* Failing to open the output device keeps the invariant.
LEMMA CannotOpenKeeps ==
  ASSUME RouterInv, NEW d \in Ifnames, CannotOpen(d) PROVE RouterInv'
<1>1. TypeOK'
  BY ReturnFacts DEF RouterInv, TypeOK, CannotOpen, Return
<1>2. \A e \in Ifnames : Waiting(e)' /\ Holding(e)' /\ Staged(e)'
  BY ReturnFacts DEF CannotOpen
<1>3. HandlesPaid'
  <2>1. /\ Cardinality(Injecting') = Cardinality(Injecting)
        /\ Cardinality(Expiring') = Cardinality(Expiring)
    <3>1. /\ stage'[d] = "capture" /\ stage[d] = "open"
          /\ \A e \in Ifnames \ {d} : stage'[e] = stage[e]
      BY DEF CannotOpen, Return, RouterInv, TypeOK
    <3>. QED BY <3>1, StageCounts, FiniteParts
  <2>. QED BY <2>1, WiresStay DEF RouterInv, HandlesPaid, CannotOpen
<1>. QED BY <1>1, <1>2, <1>3 DEF RouterInv

\* Injecting a packet keeps the invariant.
LEMMA SendKeeps ==
  ASSUME RouterInv, NEW d \in Ifnames, Send(d) PROVE RouterInv'
<1>1. d \in Injecting /\ Cardinality(Injecting) \in Nat \ {0}
  <2>1. d \in Injecting
    BY DEF Injecting, Send
  <2>. QED BY <2>1, FiniteParts, FS_EmptySet
<1>2. handles' \in 0..Handles /\ handles' = handles - 1 /\ handles \in Int
  BY <1>1, RouterAssumption DEF RouterInv, TypeOK, HandlesPaid, Send, Close
<1>3. /\ hand[d] \in 1..Last /\ ifname[d] \in Ifnames
      /\ to[d] \in NextHops \cup {"sender"}
      /\ ttl[d] \in 1..(TtlRange - 1) \cup {64}
  <2>1. hand[d] \in 1..Last /\ ifname[d] \in Ifnames /\ (Rewritten(d) \/ Routed(d))
    BY HeldPacket DEF RouterInv, Staged, Send
  <2>2. CASE Rewritten(d)
    BY <2>1, <2>2 DEF Rewritten
  <2>3. CASE Routed(d)
    <3>1. ttl[d] \in 0..(TtlRange - 1) \cup {64} /\ ttl[d] # 0
      BY <2>3 DEF RouterInv, TypeOK, Routed
    <3>2. Route(received[hand[d]].dst) # NoRoute
      <4>1. NoRoute.ifname \notin Ifnames
        BY RouterAssumption DEF NoRoute
      <4>. QED BY <2>1, <2>3, <4>1 DEF Routed
    <3>3. to[d] \in NextHops
      BY <2>3, <3>2, RouteFacts DEF Routed
    <3>. QED BY <2>1, <3>1, <3>3, RouterAssumption
  <2>. QED BY <2>1, <2>2, <2>3
<1>4. TypeOK'
  <2>1. sent' \subseteq [packet : 1..Last, ifname : Ifnames, to : NextHops \cup {"sender"},
                         ttl : 1..(TtlRange - 1) \cup {64}]
    BY <1>3 DEF RouterInv, TypeOK, Send
  <2>. QED BY <1>2, <2>1, ReturnFacts DEF RouterInv, TypeOK, Send, Return
<1>5. \A e \in Ifnames : Waiting(e)' /\ Holding(e)' /\ Staged(e)'
  BY ReturnFacts DEF Send
<1>6. HandlesPaid'
  <2>1. /\ Cardinality(Injecting') = Cardinality(Injecting) - 1
        /\ Cardinality(Expiring') = Cardinality(Expiring)
    <3>1. /\ stage'[d] = "capture" /\ stage[d] = "send"
          /\ \A e \in Ifnames \ {d} : stage'[e] = stage[e]
      BY DEF Send, Return, RouterInv, TypeOK
    <3>. QED BY <3>1, StageCounts, FiniteParts
  <2>2. Expired' = Expired
    BY WiresStay DEF Send
  <2>. QED BY <1>2, <2>1, <2>2, FiniteParts DEF RouterInv, HandlesPaid
<1>. QED BY <1>4, <1>5, <1>6 DEF RouterInv

\* The first packet that waits at d leaves the wire, and no other.
LEMMA HeadLeaves ==
  ASSUME RouterInv, NEW d \in Ifnames, wire[d] # <<>>,
         wire' = [wire EXCEPT ![d] = Tail(@)], UNCHANGED received
  PROVE  /\ Head(wire[d]) \in 1..Len(received) /\ Head(wire[d]) \in 1..Last
         /\ received[Head(wire[d])] \in Packet /\ received[Head(wire[d])].ifname = d
         /\ received[Head(wire[d])].ttl \in 0..(TtlRange - 1)
         /\ wire' \in [Ifnames -> Seq(1..Last)]
         /\ \A i \in 1..Len(wire'[d]) : wire'[d][i] # Head(wire[d])
         /\ Waiting(d)'
         /\ Head(wire[d]) \in OnWire /\ OnWire' = OnWire \ {Head(wire[d])}
<1> DEFINE n == Head(wire[d])
<1>1. /\ wire[d] \in Seq(1..Last) /\ Len(wire[d]) \in Nat \ {0}
      /\ n = wire[d][1] /\ 1 \in 1..Len(wire[d])
  BY DEF RouterInv, TypeOK
<1>2. /\ wire'[d] = Tail(wire[d]) /\ Tail(wire[d]) \in Seq(1..Last)
      /\ Len(wire'[d]) = Len(wire[d]) - 1
      /\ \A i \in 1..Len(wire'[d]) :
           i + 1 \in 1..Len(wire[d]) /\ wire'[d][i] = wire[d][i + 1]
  BY <1>1 DEF RouterInv, TypeOK
<1>3. wire' \in [Ifnames -> Seq(1..Last)] /\ \A e \in Ifnames \ {d} : wire'[e] = wire[e]
  BY <1>2 DEF RouterInv, TypeOK
<1>4. /\ \A i \in 1..Len(wire[d]) :
           wire[d][i] \in 1..Len(received) /\ received[wire[d][i]].ifname = d
      /\ \A i, j \in 1..Len(wire[d]) : wire[d][i] = wire[d][j] => i = j
  BY DEF RouterInv, Waiting
<1>5. n \in 1..Len(received) /\ n \in 1..Last /\ received[n].ifname = d
  <2>1. wire[d][1] \in 1..Last
    BY <1>1, ElementOfSeq
  <2>2. n \in 1..Len(received) /\ received[n].ifname = d
    BY <1>1, <1>4
  <2>. QED BY <1>1, <2>1, <2>2
<1>6. received[n] \in Packet /\ received[n].ttl \in 0..(TtlRange - 1)
  <2>1. received \in Seq(Packet)
    BY DEF RouterInv, TypeOK
  <2>2. received[n] \in Packet
    BY <1>5, <2>1
  <2>. QED BY <2>2, RouterAssumption DEF Packet
<1>7. \A i \in 1..Len(wire'[d]) : wire'[d][i] # n
  <2> SUFFICES ASSUME NEW i \in 1..Len(wire'[d]), wire'[d][i] = n PROVE FALSE
    OBVIOUS
  <2>1. i + 1 \in 1..Len(wire[d]) /\ wire[d][i + 1] = wire[d][1]
    BY <1>1, <1>2
  <2>2. i + 1 = 1
    BY <1>1, <1>4, <2>1
  <2>. QED BY <2>2
<1>8. Waiting(d)'
  <2> SUFFICES ASSUME NEW i \in 1..Len(wire'[d])
               PROVE  /\ wire'[d][i] \in 1..Len(received)
                      /\ received[wire'[d][i]].ifname = d
                      /\ \A j \in 1..Len(wire'[d]) : wire'[d][i] = wire'[d][j] => i = j
    BY DEF Waiting
  <2>1. i + 1 \in 1..Len(wire[d]) /\ wire'[d][i] = wire[d][i + 1]
    BY <1>2
  <2>2. ASSUME NEW j \in 1..Len(wire'[d]), wire'[d][i] = wire'[d][j] PROVE i = j
    <3>1. j + 1 \in 1..Len(wire[d]) /\ wire'[d][j] = wire[d][j + 1]
      BY <1>2
    <3>2. i + 1 = j + 1
      BY <1>4, <2>1, <2>2, <3>1
    <3>. QED BY <3>2
  <2>. QED BY <1>4, <2>1, <2>2
<1>9. n \in OnWire
  BY <1>1, OnePlace
<1>10. \A k : k \in OnWire' <=> \E e \in Ifnames : \E i \in 1..Len(wire'[e]) : wire'[e][i] = k
  BY <1>3, OnWiresNext
<1>11. ASSUME NEW k PROVE k \in OnWire' <=> k \in OnWire /\ k # n
  <2>1. k \in OnWire <=> \E e \in Ifnames : \E i \in 1..Len(wire[e]) : wire[e][i] = k
    BY OnePlace
  <2>2. k \in OnWire' <=> \E e \in Ifnames : \E i \in 1..Len(wire'[e]) : wire'[e][i] = k
    BY <1>10
  <2>3. ASSUME NEW e \in Ifnames, NEW i \in 1..Len(wire'[e]), wire'[e][i] = k
        PROVE  k # n /\ \E j \in 1..Len(wire[e]) : wire[e][j] = k
    <3>1. CASE e = d
      BY <1>2, <1>7, <2>3, <3>1
    <3>2. CASE e # d
      <4>1. wire'[e] = wire[e]
        BY <1>3, <3>2
      <4>2. received[k].ifname = e
        BY <2>3, <4>1 DEF RouterInv, Waiting
      <4>. QED BY <1>5, <2>3, <3>2, <4>1, <4>2
    <3>. QED BY <3>1, <3>2
  <2>4. ASSUME NEW e \in Ifnames, NEW i \in 1..Len(wire[e]), wire[e][i] = k, k # n
        PROVE  \E j \in 1..Len(wire'[e]) : wire'[e][j] = k
    <3>1. CASE e = d
      <4>1. i # 1
        BY <1>1, <2>4, <3>1
      <4>2. i - 1 \in 1..Len(wire'[d]) /\ wire'[d][i - 1] = wire[d][(i - 1) + 1]
        BY <1>1, <1>2, <2>4, <3>1, <4>1
      <4>3. (i - 1) + 1 = i
        OBVIOUS
      <4>. QED BY <2>4, <3>1, <4>2, <4>3
    <3>2. CASE e # d
      BY <1>3, <2>4, <3>2
    <3>. QED BY <3>1, <3>2
  <2>. QED BY <2>1, <2>2, <2>3, <2>4
<1>12. OnWire' = OnWire \ {n}
  BY <1>11
<1>. QED BY <1>3, <1>5, <1>6, <1>7, <1>8, <1>9, <1>12

\* Taking a packet from the wire keeps the invariant.
LEMMA CaptureKeeps ==
  ASSUME RouterInv, NEW d \in Ifnames, Capture(d) PROVE RouterInv'
<1> DEFINE n == Head(wire[d])
           left == CountDown(received[n].ttl)
<1>1. /\ wire' = [wire EXCEPT ![d] = Tail(@)] /\ UNCHANGED received
      /\ wire[d] # <<>> /\ stage[d] = "capture"
  BY DEF Capture
<1>2. /\ n \in 1..Len(received) /\ n \in 1..Last
      /\ received[n] \in Packet /\ received[n].ifname = d
      /\ received[n].ttl \in 0..(TtlRange - 1)
      /\ wire' \in [Ifnames -> Seq(1..Last)]
      /\ \A i \in 1..Len(wire'[d]) : wire'[d][i] # n
      /\ Waiting(d)'
      /\ n \in OnWire /\ OnWire' = OnWire \ {n}
  BY <1>1, HeadLeaves
<1>3. left \in 0..(TtlRange - 1) /\ (left = 0 <=> received[n].ttl = 1)
  BY <1>2, CountDownFacts
<1>4. /\ hand' = [hand EXCEPT ![d] = n] /\ ttl' = [ttl EXCEPT ![d] = left]
      /\ UNCHANGED <<arp, handles, sent, running>>
      /\ \/ /\ left = 0
            /\ stage' = [stage EXCEPT ![d] = "expire"]
            /\ UNCHANGED <<ifname, to>>
         \/ /\ left # 0
            /\ stage' = [stage EXCEPT ![d] = "open"]
            /\ ifname' = [ifname EXCEPT ![d] = Route(received[n].dst).ifname]
            /\ to' = [to EXCEPT ![d] = Route(received[n].dst).next_hop]
  BY DEF Capture
<1>5. /\ stage \in [Ifnames -> {"capture", "expire", "open", "resolve", "send"}]
      /\ hand \in [Ifnames -> 0..Last]
      /\ ttl \in [Ifnames -> 0..(TtlRange - 1) \cup {64}]
      /\ ifname \in [Ifnames -> Ifnames \cup {"none", "garbage"}]
      /\ to \in [Ifnames -> NextHops \cup {"none", "sender"}]
  BY DEF RouterInv, TypeOK
<1>6. /\ Route(received[n].dst).ifname \in Ifnames \cup {"none", "garbage"}
      /\ Route(received[n].dst).next_hop \in NextHops \cup {"none", "sender"}
  BY RouteFacts DEF NoRoute
<1>7. TypeOK'
  <2>1. hand' \in [Ifnames -> 0..Last]
    BY <1>2, <1>4, <1>5
  <2>2. ttl' \in [Ifnames -> 0..(TtlRange - 1) \cup {64}]
    BY <1>3, <1>4, <1>5
  <2>3. /\ stage' \in [Ifnames -> {"capture", "expire", "open", "resolve", "send"}]
        /\ ifname' \in [Ifnames -> Ifnames \cup {"none", "garbage"}]
        /\ to' \in [Ifnames -> NextHops \cup {"none", "sender"}]
    BY <1>4, <1>5, <1>6
  <2>. QED BY <1>1, <1>2, <1>4, <2>1, <2>2, <2>3 DEF RouterInv, TypeOK
<1>8. Holding(d)'
  BY <1>1, <1>2, <1>4, <1>5 DEF Holding
<1>9. Staged(d)'
  <2>1. hand'[d] = n /\ ttl'[d] = left
    BY <1>4, <1>5
  <2>2. CASE left = 0
    BY <1>1, <1>3, <1>4, <1>5, <2>1, <2>2 DEF Staged
  <2>3. CASE left # 0
    <3>1. /\ stage'[d] = "open" /\ ifname'[d] = Route(received[n].dst).ifname
          /\ to'[d] = Route(received[n].dst).next_hop
      BY <1>4, <1>5, <2>3
    <3>2. Routed(d)'
      BY <1>1, <2>1, <2>3, <3>1 DEF Routed
    <3>. QED BY <3>1, <3>2 DEF Staged
  <2>. QED BY <2>2, <2>3
<1>10. ASSUME NEW e \in Ifnames, e # d PROVE Waiting(e)' /\ Holding(e)' /\ Staged(e)'
  <2>1. Untouched(e)
    BY <1>1, <1>4, <1>5, <1>10 DEF RouterInv, TypeOK, Untouched
  <2>. QED BY <1>1, <2>1, UntouchedKeeps DEF RouterInv
<1>11. HandlesPaid'
  <2>1. \A e \in Ifnames \ {d} : stage'[e] = stage[e]
    BY <1>4, <1>5
  <2>2. CASE left = 0
    <3>1. stage'[d] = "expire"
      BY <1>4, <1>5, <2>2
    <3>2. /\ Cardinality(Injecting') = Cardinality(Injecting)
          /\ Cardinality(Expiring') = Cardinality(Expiring) + 1
      BY <1>1, <2>1, <3>1, StageCounts, FiniteParts
    <3>3. Expired' = Expired \union {n} /\ n \notin Expired
      BY <1>1, <1>2, <1>3, <2>2 DEF Expired, RouterInv, TypeOK
    <3>4. Cardinality(Expired') = Cardinality(Expired) + 1
      BY <3>3, FiniteParts, FS_AddElement
    <3>. QED BY <1>4, <3>2, <3>4, FiniteParts DEF RouterInv, TypeOK, HandlesPaid
  <2>3. CASE left # 0
    <3>1. stage'[d] = "open"
      BY <1>4, <1>5, <2>3
    <3>2. /\ Cardinality(Injecting') = Cardinality(Injecting)
          /\ Cardinality(Expiring') = Cardinality(Expiring)
      BY <1>1, <2>1, <3>1, StageCounts, FiniteParts
    <3>3. Expired' = Expired
      BY <1>1, <1>2, <1>3, <2>3 DEF Expired
    <3>. QED BY <1>4, <3>2, <3>3 DEF RouterInv, HandlesPaid
  <2>. QED BY <2>2, <2>3
<1>. QED BY <1>2, <1>7, <1>8, <1>9, <1>10, <1>11 DEF RouterInv

\* Every step of the router and of its surroundings keeps the invariant.
LEMMA RouterStep == ASSUME RouterInv, [Next]_vars PROVE RouterInv'
<1>1. CASE UNCHANGED vars
  <2>1. TypeOK'
    BY <1>1 DEF RouterInv, TypeOK, vars
  <2>2. \A e \in Ifnames : Waiting(e)' /\ Holding(e)' /\ Staged(e)'
    BY <1>1, UntouchedKeeps DEF RouterInv, Untouched, vars
  <2>3. HandlesPaid'
    BY <1>1, WiresStay DEF RouterInv, HandlesPaid, Injecting, Expiring, vars
  <2>. QED BY <2>1, <2>2, <2>3 DEF RouterInv
<1>2. ASSUME NEW p \in Packet, Arrive(p) PROVE RouterInv'
  BY <1>2, ArriveKeeps
<1>3. CASE ArpChanges
  BY <1>3, ArpKeeps
<1>4. ASSUME NEW d \in Ifnames, Callback(d) PROVE RouterInv'
  BY <1>4, CaptureKeeps, ExpireKeeps, ExpireUnopenedKeeps, OpenKeeps, CannotOpenKeeps,
     ResolveKeeps, DiesKeeps, SendKeeps
  DEF Callback, ExpireUnaddressed, OpenUnaddressed, Unresolved
<1>. QED BY <1>1, <1>2, <1>3, <1>4 DEF Next

-----------------------------------------------------------------------------
(* The theorems.                                                           *)

\* In every state the packets that wait at an interface, and the one its thread holds,
\* came to that interface and are in one place; what the thread made of its packet
\* follows from the stage it is in; and each handle left open was opened for a packet
\* that expired (callback in Custom_IP_ARP.c).
THEOREM RouterInvariance == Spec => []RouterInv
BY RouterStarts, RouterStep, PTL DEF Spec

\* Every variable has its type: no more handles are open than there are, no
\* closing of one that is not open, and no frame leaves by an interface that
\* does not exist, without a neighbour, or with no time to live.
THEOREM RouterTypeCorrect == Spec => []TypeOK
<1>1. RouterInv => TypeOK
  BY DEF RouterInv
<1>. QED BY <1>1, RouterInvariance, PTL

\* Handles come back: what is open and not in a callback that injects is no more
\* than the packets whose time to live was over, whatever the threads' order.
THEOREM HandlesComeBack == Spec => []HandlesReturned
<1>1. RouterInv => HandlesReturned
  <2> SUFFICES ASSUME RouterInv PROVE HandlesReturned
    OBVIOUS
  <2>1. /\ handles \in Int /\ Cardinality(Injecting) <= handles
        /\ handles <= Cardinality(Injecting) + Cardinality(Expired)
    BY FiniteParts DEF RouterInv, TypeOK, HandlesPaid
  <2>. QED BY <2>1 DEF HandlesReturned, Injecting, Expired
<1>. QED BY <1>1, RouterInvariance, PTL

-----------------------------------------------------------------------------
(* The threads implement IpForwarding.  A time to live of 0 would be       *)
(* counted down to the largest value and forwarded: the theorem assumes    *)
(* that none arrives.                                                      *)

Pending == OnWire \cup InHand

\* The end of callback is what disposes of a packet.
LEMMA PacketLeaves ==
  ASSUME RouterInv, NEW d \in Ifnames, stage[d] # "capture", Return(d),
         UNCHANGED <<received, wire>>
  PROVE  hand[d] \in Pending /\ Pending' = Pending \ {hand[d]}
<1>1. \A e \in Ifnames : hand'[e] = IF e = d THEN 0 ELSE hand[e]
  BY ReturnFacts
<1>2. hand[d] # 0 /\ hand[d] \notin OnWire /\ \A e \in Ifnames \ {d} : hand[e] # hand[d]
  BY HeldPacket, OnePlace
<1>3. InHand' = InHand \ {hand[d]} /\ hand[d] \in InHand
  BY <1>1, <1>2 DEF InHand
<1>4. OnWire' = OnWire
  BY WiresStay
<1>. QED BY <1>2, <1>3, <1>4 DEF Pending

\* What is not moved stays pending.
LEMMA PacketsStay ==
  ASSUME UNCHANGED <<received, wire, hand>> PROVE Pending' = Pending
BY WiresStay DEF Pending, InHand

\* From the wire into the hand.
LEMMA PacketTaken ==
  ASSUME RouterInv, NEW d \in Ifnames, Capture(d) PROVE Pending' = Pending
<1> DEFINE n == Head(wire[d])
<1>1. /\ wire' = [wire EXCEPT ![d] = Tail(@)] /\ UNCHANGED received
      /\ wire[d] # <<>> /\ stage[d] = "capture"
  BY DEF Capture
<1>2. n \in 1..Last /\ n \in OnWire /\ OnWire' = OnWire \ {n}
  BY <1>1, HeadLeaves
<1>3. hand' = [hand EXCEPT ![d] = n] /\ hand \in [Ifnames -> 0..Last] /\ hand[d] = 0
  BY <1>1 DEF Capture, RouterInv, TypeOK, Holding
<1>4. n # 0
  BY <1>2, RouterAssumption
<1>5. InHand' = InHand \union {n}
  BY <1>3, <1>4 DEF InHand
<1>. QED BY <1>2, <1>5 DEF Pending

\* What is injected is the message or the packet that IpForwarding names.
LEMMA FrameIsRight ==
  ASSUME 0 \notin Ttls, RouterInv, NEW d \in Ifnames, Send(d)
  PROVE  Forwarding!Forward(hand[d]) \/ Forwarding!TimeExceeded(hand[d]) \/ Forwarding!Discard
<1> DEFINE p == received[hand[d]]
           frame == [packet |-> hand[d], ifname |-> ifname[d], to |-> to[d], ttl |-> ttl[d]]
<1>1. /\ p.ifname = d /\ p \in Packet /\ p.ttl \in 0..(TtlRange - 1) /\ p.ttl # 0
      /\ ifname[d] \in Ifnames /\ (Rewritten(d) \/ Routed(d))
  <2>1. p \in Packet /\ p.ifname = d /\ p.ttl \in 0..(TtlRange - 1)
    BY HeldPacket DEF Send
  <2>2. p.ttl # 0
    BY <2>1 DEF Packet
  <2>. QED BY <2>1, <2>2 DEF RouterInv, Staged, Send
<1>2. CASE sent' = sent
  BY <1>2 DEF Forwarding!Discard
<1>3. CASE sent' = sent \cup {frame} /\ Rewritten(d)
  <2>1. p.ttl = 1 /\ frame = [packet |-> hand[d], ifname |-> p.ifname,
                              to |-> "sender", ttl |-> 64]
    BY <1>1, <1>3, RouterAssumption DEF Rewritten
  <2>. QED BY <1>3, <2>1 DEF Forwarding!TimeExceeded
<1>4. CASE sent' = sent \cup {frame} /\ Routed(d)
  <2>1. p.ttl > 1 /\ ttl[d] = p.ttl - 1
    BY <1>1, <1>4, CountDownFacts DEF Routed
  <2>2. Route(p.dst) # NoRoute
    <3>1. NoRoute.ifname \notin Ifnames
      BY RouterAssumption DEF NoRoute
    <3>. QED BY <1>1, <1>4, <3>1 DEF Routed
  <2>. QED BY <1>4, <2>1, <2>2 DEF Routed, Forwarding!Forward
<1>. QED BY <1>1, <1>2, <1>3, <1>4 DEF Send

\* A router that starts is an abstract one that starts.
LEMMA ForwardingStarts == ASSUME Init PROVE Forwarding!Init
BY DEF Init, Forwarding!Init, OnWire, InHand

\* Every step of the router is one of the abstract router, or changes nothing it shows.
LEMMA ForwardingStep ==
  ASSUME 0 \notin Ttls, RouterInv, [Next]_vars
  PROVE  [Forwarding!Next]_<<received, Pending, sent>>
<1>1. CASE UNCHANGED vars
  BY <1>1, PacketsStay DEF vars
<1>2. ASSUME NEW p \in Packet, Arrive(p) PROVE Forwarding!Next
  <2> DEFINE n == Len(received) + 1
  <2>1. n \in 1..Last /\ DOMAIN received = 1..(n - 1) /\ received \in Seq(Packet)
    BY <1>2, RouterAssumption DEF RouterInv, TypeOK, Arrive
  <2>2. received' = [k \in 1..n |-> IF k = n THEN p ELSE received[k]]
    <3>1. received' = Append(received, p)
      BY <1>2 DEF Arrive
    <3>2. /\ received' \in Seq(Packet) /\ Len(received') = n
          /\ \A k \in 1..Len(received) : received'[k] = received[k]
          /\ received'[n] = p
      BY <1>2, <2>1, <3>1
    <3>3. received' \in [1..n -> Packet]
      BY <3>2
    <3>4. \A k \in 1..n : received'[k] = IF k = n THEN p ELSE received[k]
      BY <2>1, <3>2
    <3>. QED BY <3>3, <3>4
  <2>3. OnWire' = OnWire \union {n} /\ InHand' = InHand
    BY <1>2, ArrivesOnWire DEF Arrive, locals, InHand
  <2>4. Forwarding!Receive(n, p)
    BY <1>2, <2>1, <2>2, <2>3 DEF Forwarding!Receive, Arrive
  <2>. QED BY <1>2, <2>1, <2>4 DEF Forwarding!Next, Forwarding!Packet, Packet
<1>3. CASE ArpChanges
  BY <1>3, PacketsStay DEF ArpChanges, locals
<1>4. ASSUME NEW d \in Ifnames, Callback(d)
      PROVE  Forwarding!Next \/ UNCHANGED <<received, Pending, sent>>
  <2>1. CASE Capture(d)
    BY <1>4, <2>1, PacketTaken DEF Capture
  <2>2. CASE Expire(d) \/ Open(d) \/ Resolve(d)
    BY <2>2, PacketsStay DEF Expire, Open, Resolve, locals
  <2>3. CASE ExpireUnopened(d) \/ CannotOpen(d) \/ Send(d)
    <3>1. /\ stage[d] # "capture" /\ Return(d) /\ UNCHANGED <<received, wire>>
      BY <2>3 DEF ExpireUnopened, CannotOpen, Send
    <3>2. hand[d] \in 1..Last
      BY <3>1, HeldPacket
    <3>3. hand[d] \in OnWire \cup InHand /\ (OnWire \cup InHand)' = (OnWire \cup InHand) \ {hand[d]}
      BY <3>1, PacketLeaves DEF Pending
    <3>4. \/ Forwarding!Forward(hand[d]) \/ Forwarding!TimeExceeded(hand[d])
          \/ Forwarding!Discard
      <4>1. CASE ExpireUnopened(d) \/ CannotOpen(d)
        BY <4>1 DEF ExpireUnopened, CannotOpen, Forwarding!Discard
      <4>2. CASE Send(d)
        BY <4>2, FrameIsRight
      <4>. QED BY <2>3, <4>1, <4>2
    <3>5. Forwarding!Dispose(hand[d])
      BY <3>1, <3>3, <3>4 DEF Forwarding!Dispose
    <3>. QED BY <3>2, <3>5 DEF Forwarding!Next
  <2>4. CASE ExpireUnaddressed(d) \/ OpenUnaddressed(d) \/ Unresolved(d)
    BY <2>4, PacketsStay DEF ExpireUnaddressed, OpenUnaddressed, Unresolved, Dies, locals
  <2>. QED BY <1>4, <2>1, <2>2, <2>3, <2>4 DEF Callback
<1>. QED BY <1>1, <1>2, <1>3, <1>4 DEF Next

\* Whatever the threads do to the table of neighbours and to the handles under
\* each other, each packet is forwarded once as the table says, or answered to
\* the neighbour it came from, or dropped, if no time to live is 0.
THEOREM ForwardingImplemented == ASSUME 0 \notin Ttls PROVE Spec => ImplementsForwarding
<1>1. Init => Forwarding!Init
  BY ForwardingStarts
<1>2. RouterInv /\ [Next]_vars => [Forwarding!Next]_(Forwarding!forwardingVars)
  BY ForwardingStep DEF Forwarding!forwardingVars, Pending
<1>. QED BY <1>1, <1>2, RouterInvariance, PTL DEF Spec, ImplementsForwarding, Forwarding!Spec
=============================================================================
