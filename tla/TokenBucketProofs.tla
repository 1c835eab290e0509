------------------------- MODULE TokenBucketProofs -------------------------
(***************************************************************************)
(* The traffic shaper's invariants, for every number of packets, bucket    *)
(* depth and set of packet sizes.                                          *)
(***************************************************************************)
EXTENDS TokenBucketProperties, TLAPS

(* Queues: what append and unlink do to the serial numbers and their order. *)

\* The serial numbers of a queue are those of its elements.
LEMMA SerialsFacts ==
  ASSUME NEW q \in Seq(Packets)
  PROVE  /\ \A i \in DOMAIN q : /\ q[i] \in Packets
                               /\ q[i].serial_number \in 1..PacketNumber
                               /\ q[i].serial_number \in Serials(q)
         /\ \A k : k \in Serials(q) <=> \E i \in DOMAIN q : k = q[i].serial_number
         /\ Serials(q) \subseteq 1..PacketNumber
         /\ \A n \in Int : Ahead(n, q) => n \notin Serials(q)
  <1>1. \A i \in DOMAIN q : q[i] \in Packets
    OBVIOUS
  <1>2. \A i \in DOMAIN q : q[i].serial_number \in 1..PacketNumber
    BY <1>1 DEF Packets
  <1>3. \A k : k \in Serials(q) <=> \E i \in DOMAIN q : k = q[i].serial_number
    BY ZenonT(30) DEF Serials
  <1>4. ASSUME NEW n \in Int, Ahead(n, q)  PROVE n \notin Serials(q)
    BY <1>2, <1>3, <1>4 DEF Ahead
  <1>5. QED  BY <1>1, <1>2, <1>3, <1>4

\* An appended queue holds one more packet, at its end.
LEMMA AppendFacts ==
  ASSUME NEW q \in Seq(Packets), NEW p \in Packets
  PROVE  /\ Append(q, p) \in Seq(Packets)
         /\ DOMAIN Append(q, p) = 1..(Len(q) + 1)
         /\ DOMAIN q = 1..Len(q)
         /\ Len(q) \in Nat
         /\ \A i \in DOMAIN q : Append(q, p)[i] = q[i]
         /\ Append(q, p)[Len(q) + 1] = p
         /\ Serials(Append(q, p)) = Serials(q) \cup {p.serial_number}
  <1>1. /\ Append(q, p) \in Seq(Packets)
        /\ DOMAIN Append(q, p) = 1..(Len(q) + 1)
        /\ DOMAIN q = 1..Len(q)
        /\ Len(q) \in Nat
        /\ \A i \in DOMAIN q : Append(q, p)[i] = q[i]
        /\ Append(q, p)[Len(q) + 1] = p
    OBVIOUS
  <1>2. Serials(Append(q, p)) = Serials(q) \cup {p.serial_number}
    <2>1. DOMAIN Append(q, p) = DOMAIN q \cup {Len(q) + 1}
      BY <1>1
    <2>2. ASSUME NEW k
          PROVE  k \in Serials(Append(q, p)) <=> k \in Serials(q) \cup {p.serial_number}
      <3>1. k \in Serials(q) <=> \E i \in DOMAIN q : k = q[i].serial_number
        BY SerialsFacts
      <3>2. k \in Serials(Append(q, p))
              <=> \E i \in DOMAIN Append(q, p) : k = Append(q, p)[i].serial_number
        BY <1>1, SerialsFacts
      <3>3. QED  BY <1>1, <2>1, <3>1, <3>2
    <2>3. QED  BY <2>2
  <1>3. QED  BY <1>1, <1>2

\* A queue that is not empty is its head followed by its tail.
LEMMA TailFacts ==
  ASSUME NEW q \in Seq(Packets), q # <<>>
  PROVE  /\ Tail(q) \in Seq(Packets)
         /\ Head(q) \in Packets
         /\ 1 \in DOMAIN q
         /\ Head(q) = q[1]
         /\ DOMAIN q = 1..Len(q)
         /\ Len(q) \in Nat
         /\ DOMAIN Tail(q) = 1..(Len(q) - 1)
         /\ \A i \in DOMAIN Tail(q) : i + 1 \in DOMAIN q /\ Tail(q)[i] = q[i + 1]
         /\ Serials(q) = {Head(q).serial_number} \cup Serials(Tail(q))
  <1>1. /\ Tail(q) \in Seq(Packets)
        /\ Head(q) \in Packets
        /\ 1 \in DOMAIN q
        /\ Head(q) = q[1]
        /\ DOMAIN q = 1..Len(q)
        /\ Len(q) \in Nat
        /\ DOMAIN Tail(q) = 1..(Len(q) - 1)
        /\ \A i \in DOMAIN Tail(q) : i + 1 \in DOMAIN q /\ Tail(q)[i] = q[i + 1]
    OBVIOUS
  <1>2. \A i \in DOMAIN q : i = 1 \/ (i - 1 \in DOMAIN Tail(q) /\ q[i] = Tail(q)[i - 1])
    BY <1>1
  <1>3. ASSUME NEW k
        PROVE  k \in Serials(q)
                 <=> k \in {Head(q).serial_number} \cup Serials(Tail(q))
    <2>1. k \in Serials(q) <=> \E i \in DOMAIN q : k = q[i].serial_number
      BY SerialsFacts
    <2>2. k \in Serials(Tail(q))
            <=> \E i \in DOMAIN Tail(q) : k = Tail(q)[i].serial_number
      BY <1>1, SerialsFacts
    <2>3. QED  BY <1>1, <1>2, <2>1, <2>2
  <1>4. QED  BY <1>1, <1>3

\* Taking the head away keeps the order, and the head was ahead of the rest.
LEMMA TailKeepsOrder ==
  ASSUME NEW q \in Seq(Packets), q # <<>>, Increasing(q)
  PROVE  /\ Increasing(Tail(q))
         /\ Ahead(Head(q).serial_number, Tail(q))
         /\ Head(q).serial_number \notin Serials(Tail(q))
         /\ Head(q).serial_number \in 1..PacketNumber
  <1>1. /\ 1 \in DOMAIN q
        /\ Head(q) = q[1]
        /\ DOMAIN q = 1..Len(q)
        /\ \A i \in DOMAIN Tail(q) : i + 1 \in DOMAIN q /\ Tail(q)[i] = q[i + 1]
        /\ DOMAIN Tail(q) = 1..(Len(q) - 1)
        /\ Len(q) \in Nat
        /\ Tail(q) \in Seq(Packets)
    BY TailFacts
  <1>2. Increasing(Tail(q))
    BY <1>1 DEF Increasing
  <1>3. Ahead(Head(q).serial_number, Tail(q))
    BY <1>1 DEF Ahead, Increasing
  <1>4. Head(q).serial_number \in 1..PacketNumber
    BY <1>1, SerialsFacts
  <1>5. Head(q).serial_number \in Int
    BY <1>4, ParameterAssumption
  <1>6. Head(q).serial_number \notin Serials(Tail(q))
    BY <1>1, <1>3, <1>5, SerialsFacts
  <1>7. QED  BY <1>2, <1>3, <1>4, <1>6

\* Moving the head of q to the end of r keeps q and r in order, r ahead of q.
LEMMA MoveKeepsOrder ==
  ASSUME NEW q \in Seq(Packets), NEW r \in Seq(Packets), q # <<>>,
         Increasing(q), Increasing(r), Before(r, q)
  PROVE  /\ Increasing(Append(r, Head(q)))
         /\ Before(Append(r, Head(q)), Tail(q))
  <1> DEFINE h == Head(q)
  <1>1. /\ Append(r, h) \in Seq(Packets)
        /\ DOMAIN Append(r, h) = 1..(Len(r) + 1)
        /\ DOMAIN r = 1..Len(r)
        /\ Len(r) \in Nat
        /\ \A i \in DOMAIN r : Append(r, h)[i] = r[i]
        /\ Append(r, h)[Len(r) + 1] = h
    BY AppendFacts, TailFacts
  <1>2. /\ 1 \in DOMAIN q
        /\ h = q[1]
        /\ \A i \in DOMAIN Tail(q) : i + 1 \in DOMAIN q /\ Tail(q)[i] = q[i + 1]
    BY TailFacts
  <1>3. Ahead(h.serial_number, Tail(q))
    BY TailKeepsOrder
  <1> HIDE DEF h
  <1>4. Increasing(Append(r, h))
    <2> SUFFICES ASSUME NEW i \in DOMAIN Append(r, h), NEW j \in DOMAIN Append(r, h), i < j
                 PROVE  Append(r, h)[i].serial_number < Append(r, h)[j].serial_number
      BY DEF Increasing
    <2>1. i \in DOMAIN r
      BY <1>1
    <2>2. CASE j \in DOMAIN r
      BY <1>1, <2>1, <2>2 DEF Increasing
    <2>3. CASE j = Len(r) + 1
      BY <1>1, <1>2, <2>1, <2>3 DEF Before
    <2>4. QED  BY <1>1, <2>2, <2>3
  <1>5. Before(Append(r, h), Tail(q))
    <2> SUFFICES ASSUME NEW i \in DOMAIN Append(r, h), NEW j \in DOMAIN Tail(q)
                 PROVE  Append(r, h)[i].serial_number < Tail(q)[j].serial_number
      BY DEF Before
    <2>1. CASE i \in DOMAIN r
      BY <1>1, <1>2, <2>1 DEF Before
    <2>2. CASE i = Len(r) + 1
      BY <1>1, <1>3, <2>2 DEF Ahead
    <2>3. QED  BY <1>1, <2>1, <2>2
  <1>6. QED  BY <1>4, <1>5 DEF h

----------------------------------------------------------------------------
(* The inductive invariant.                                                *)

\* The arrival thread stops with, and only with, the last packet.
Arriving == packet_thread = "done" <=> serial_number_packet = PacketNumber

\* A server has a packet in hand exactly while it serves it.
Holding ==
  \A s \in Servers :
    /\ server[s] \in {"serve", "depart"} => cur_val[s] # 0
    /\ server[s] \in {"lock", "wait", "exit"} => cur_val[s] = 0

\* Every packet that arrived is somewhere ...
Everywhere ==
  dropped \cup lost \cup Serials(list_Q1) \cup Serials(list_Q2) \cup InHand
    \cup departed = 1..serial_number_packet
\* ... and what is dropped, lost or departed is nowhere else.  That the queues and
\* the servers' hands are apart follows from InOrder.
Queued == Serials(list_Q1) \cup Serials(list_Q2) \cup InHand
Apart ==
  /\ \A n \in dropped : n \notin Queued /\ n \notin lost /\ n \notin departed
  /\ \A n \in lost : n \notin Queued /\ n \notin departed
  /\ \A n \in departed : n \notin Queued
\* Only an append that finds no memory loses a packet.
LostForMemory == ~MallocFails => lost = {}
DistinctHands == cur_val["s1"] = cur_val["s2"] => cur_val["s1"] = 0

IInv ==
  /\ TypeOK
  /\ Arriving
  /\ Holding
  /\ InOrder
  /\ Everywhere
  /\ Apart
  /\ LostForMemory
  /\ DistinctHands
  /\ NoLostWakeup
  /\ DrainedAtEnd

\* With two servers the packets in hand are written out.
LEMMA InHandFacts ==
  /\ InHand = {cur_val["s1"], cur_val["s2"]} \ {0}
  /\ InHand' = {cur_val'["s1"], cur_val'["s2"]} \ {0}
  BY DEF InHand, Servers

\* The parts of the invariant about packets give Accounted.
LEMMA AccountedFromParts ==
  ASSUME TypeOK, InOrder, Everywhere, Apart, LostForMemory, DistinctHands
  PROVE  Accounted
  <1>1. list_Q1 \in Seq(Packets) /\ list_Q2 \in Seq(Packets)
    BY DEF TypeOK
  <1>2. \A s, t \in Servers : s # t /\ cur_val[s] # 0 => cur_val[s] # cur_val[t]
    BY DEF DistinctHands, Servers
  <1>3. \A n \in InHand : n \notin Serials(list_Q1) /\ n \notin Serials(list_Q2)
    <2>1. \A s \in Servers : /\ cur_val[s] \in Int
                             /\ Ahead(cur_val[s], list_Q1)
                             /\ Ahead(cur_val[s], list_Q2)
      BY ParameterAssumption DEF TypeOK, InOrder
    <2>2. \A s \in Servers : /\ cur_val[s] \notin Serials(list_Q1)
                             /\ cur_val[s] \notin Serials(list_Q2)
      BY <1>1, <2>1, SerialsFacts
    <2>3. QED  BY <2>2 DEF InHand, Servers
  <1>4. \A n \in Serials(list_Q2) : n \notin Serials(list_Q1)
    <2>1. ASSUME NEW i \in DOMAIN list_Q2, NEW j \in DOMAIN list_Q1
          PROVE  list_Q2[i].serial_number # list_Q1[j].serial_number
      <3>1. /\ list_Q2[i].serial_number \in 1..PacketNumber
            /\ list_Q1[j].serial_number \in 1..PacketNumber
        BY <1>1, SerialsFacts
      <3>2. list_Q2[i].serial_number < list_Q1[j].serial_number
        BY DEF InOrder, Before
      <3>3. QED  BY <3>1, <3>2, ParameterAssumption
    <2>2. QED  BY <1>1, <2>1, SerialsFacts
  <1>5. ASSUME NEW i \in 1..6, NEW j \in 1..6, i # j
        PROVE  LET places == <<dropped, lost, Serials(list_Q1), Serials(list_Q2), InHand,
                               departed>>
               IN places[i] \cap places[j] = {}
    BY <1>3, <1>4, <1>5 DEF Apart, Queued
  <1>6. QED  BY <1>2, <1>5 DEF Accounted, Everywhere, LostForMemory

----------------------------------------------------------------------------
(* The steps.                                                              *)

\* The invariant holds before any thread has run.
LEMMA InitEstablishes == Init => IInv
  <1> SUFFICES ASSUME Init PROVE IInv
    OBVIOUS
  <1> USE DEF Init
  <1>1. TypeOK
    BY ParameterAssumption DEF TypeOK, Servers
  <1>2. Arriving /\ Holding /\ DistinctHands
    BY ParameterAssumption DEF Arriving, Holding, DistinctHands, Servers
  <1>3. InOrder
    BY DEF InOrder, Increasing, Before, Ahead
  <1>4. Serials(list_Q1) = {} /\ Serials(list_Q2) = {}
    BY DEF Serials
  <1>5. Everywhere /\ Apart /\ LostForMemory
    BY <1>4 DEF Everywhere, Apart, InHand, LostForMemory
  <1>6. NoLostWakeup /\ DrainedAtEnd
    BY DEF NoLostWakeup, DrainedAtEnd, Ended
  <1>7. QED  BY <1>1, <1>2, <1>3, <1>5, <1>6 DEF IInv

\* An append adds the packet to the list, or to what is listed nowhere.
LEMMA ListAppendFacts ==
  ASSUME NEW q \in Seq(Packets), NEW p \in Packets, NEW memory \in Memory
  PROVE  /\ ListAppend(q, p, memory) \in Seq(Packets)
         /\ Serials(ListAppend(q, p, memory)) \cup Unlisted(p, memory)
              = Serials(q) \cup {p.serial_number}
         /\ p.serial_number \in Serials(q)
              \/ Serials(ListAppend(q, p, memory)) \cap Unlisted(p, memory) = {}
         /\ Serials(q) \subseteq Serials(ListAppend(q, p, memory))
         /\ Unlisted(p, memory) \subseteq {p.serial_number}
         /\ ~MallocFails => Unlisted(p, memory) = {}
  <1>1. memory \in BOOLEAN /\ (~MallocFails => memory)
    BY DEF Memory
  <1>2. CASE memory
    BY <1>2, AppendFacts DEF ListAppend, Unlisted
  <1>3. CASE ~memory
    BY <1>1, <1>3 DEF ListAppend, Unlisted
  <1>4. QED  BY <1>1, <1>2, <1>3

\* The body of MoveHead, for what malloc finds.
MoveHeadWith(q, tokens, gone, memory) ==
  /\ list_Q1' = UnlinkFirst(q)
  /\ token_count' = tokens - Head(q).tokens_required
  /\ list_Q2' = ListAppend(list_Q2, Head(q), memory)
  /\ lost' = lost \cup gone \cup Unlisted(Head(q), memory)
  /\ server' = Broadcast(list_Q2)

\* Packet n enters Q2 or is missing there; those gone before it are lost too.
LeavesQ1(n, gone, missing) ==
  /\ missing \subseteq {n}
  /\ Serials(list_Q2') \cup missing = Serials(list_Q2) \cup {n}
  /\ Serials(list_Q2') \cap missing = {}
  /\ lost' = lost \cup gone \cup missing
  /\ ~MallocFails => missing = {}

\* Moving the head of q, whose packets and those of Q2 are in order, keeps the
\* order, wakes every waiting server and takes one serial number from q to Q2,
\* or to the packets lost when there is no memory.
LEMMA MoveHeadFacts ==
  ASSUME NEW q \in Seq(Packets), NEW tokens \in Int, NEW gone,
         list_Q2 \in Seq(Packets),
         server \in [Servers -> {"lock", "wait", "serve", "depart", "exit", "dead"}],
         cur_val \in [Servers -> 0..PacketNumber],
         q # <<>>, Increasing(q), Increasing(list_Q2), Before(list_Q2, q),
         \A s \in Servers : Ahead(cur_val[s], q) /\ Ahead(cur_val[s], list_Q2),
         NoLostWakeup, MoveHead(q, tokens, gone), cur_val' = cur_val
  PROVE  /\ list_Q1' \in Seq(Packets)
         /\ list_Q2' \in Seq(Packets)
         /\ token_count' \in Int
         /\ InOrder'
         /\ NoLostWakeup'
         /\ Serials(q) = Serials(list_Q1') \cup {Head(q).serial_number}
         /\ Head(q).serial_number \notin Serials(list_Q1')
         /\ \E missing : LeavesQ1(Head(q).serial_number, gone, missing)
         /\ server' = Broadcast(list_Q2)
         /\ Ended' = Ended
  <1> DEFINE h == Head(q).serial_number
  <1>1. PICK memory \in Memory : MoveHeadWith(q, tokens, gone, memory)
    BY DEF MoveHead, MoveHeadWith
  <1>2. /\ list_Q1' = Tail(q)
        /\ list_Q2' = ListAppend(list_Q2, Head(q), memory)
        /\ lost' = lost \cup gone \cup Unlisted(Head(q), memory)
        /\ token_count' = tokens - Head(q).tokens_required
        /\ server' = Broadcast(list_Q2)
    BY <1>1 DEF MoveHeadWith, UnlinkFirst
  <1>3. /\ Tail(q) \in Seq(Packets)
        /\ Head(q) \in Packets
        /\ Head(q) = q[1] /\ 1 \in DOMAIN q
        /\ Serials(q) = {h} \cup Serials(Tail(q))
    BY TailFacts
  <1>4. /\ Increasing(Tail(q))
        /\ Increasing(Append(list_Q2, Head(q)))
        /\ Before(Append(list_Q2, Head(q)), Tail(q))
        /\ h \notin Serials(Tail(q))
    BY MoveKeepsOrder, TailKeepsOrder
  <1>5. list_Q2' = Append(list_Q2, Head(q)) \/ list_Q2' = list_Q2
    BY <1>2 DEF ListAppend
  <1>6. Increasing(list_Q2') /\ Before(list_Q2', Tail(q))
    <2>1. Before(list_Q2, Tail(q))
      BY TailFacts DEF Before
    <2>2. QED  BY <1>4, <1>5, <2>1
  <1>7. ASSUME NEW s \in Servers
        PROVE  Ahead(cur_val[s], Tail(q)) /\ Ahead(cur_val[s], list_Q2')
    <2>1. Ahead(cur_val[s], Tail(q))
      BY TailFacts DEF Ahead
    <2>2. Ahead(cur_val[s], Append(list_Q2, Head(q)))
      BY <1>3, AppendFacts DEF Ahead
    <2>3. QED  BY <1>5, <2>1, <2>2
  <1>8. InOrder'
    BY <1>2, <1>4, <1>6, <1>7 DEF InOrder
  <1>9. \A s \in Servers : server'[s] # "wait" /\ (server'[s] = "exit" <=> server[s] = "exit")
    BY <1>2 DEF Broadcast, NoLostWakeup
  <1>10. h \notin Serials(list_Q2)
    <2>1. \A i \in DOMAIN list_Q2 : list_Q2[i].serial_number < h
      BY <1>3 DEF Before
    <2>2. h \in Int /\ \A i \in DOMAIN list_Q2 : list_Q2[i].serial_number \in Int
      BY <1>3, SerialsFacts, ParameterAssumption DEF Packets
    <2>3. QED  BY <2>1, <2>2, SerialsFacts
  <1>11. /\ list_Q2' \in Seq(Packets)
         /\ Serials(list_Q2') \cup Unlisted(Head(q), memory) = Serials(list_Q2) \cup {h}
         /\ Serials(list_Q2') \cap Unlisted(Head(q), memory) = {}
         /\ Unlisted(Head(q), memory) \in SUBSET {h}
         /\ ~MallocFails => Unlisted(Head(q), memory) = {}
    BY <1>2, <1>3, <1>10, ListAppendFacts
  <1>12. token_count' \in Int
    BY <1>2, <1>3, ParameterAssumption DEF Packets
  <1>13. NoLostWakeup' /\ Ended' = Ended
    BY <1>9 DEF NoLostWakeup, Ended
  <1>14. LeavesQ1(h, gone, Unlisted(Head(q), memory))
    BY <1>2, <1>11 DEF LeavesQ1
  <1>15. QED  BY <1>2, <1>3, <1>4, <1>8, <1>11, <1>12, <1>13, <1>14

\* A step that moves no packet keeps the parts of the invariant about packets.
LEMMA NothingMoves ==
  ASSUME IInv,
         UNCHANGED <<list_Q1, list_Q2, lost, cur_val, dropped, departed,
                     serial_number_packet>>
  PROVE  InOrder' /\ Everywhere' /\ Apart' /\ LostForMemory' /\ DistinctHands'
  BY DEF IInv, InOrder, Everywhere, Apart, Queued, LostForMemory, DistinctHands, InHand,
         Serials

\* Reading a line of the trace file touches nothing the invariant relates.
LEMMA ReadFileKeeps == IInv /\ ReadFile => IInv'
  <1> SUFFICES ASSUME IInv, ReadFile PROVE IInv'
    OBVIOUS
  <1>1. InOrder' /\ Everywhere' /\ Apart' /\ LostForMemory' /\ DistinctHands'
    BY NothingMoves DEF ReadFile
  <1>2. TypeOK'
    BY DEF IInv, TypeOK, ReadFile
  <1>3. Arriving' /\ Holding' /\ NoLostWakeup'
    BY DEF IInv, Arriving, Holding, NoLostWakeup, ReadFile
  <1>4. DrainedAtEnd'
    BY DEF IInv, DrainedAtEnd, Ended, ReadFile
  <1>5. QED  BY <1>1, <1>2, <1>3, <1>4 DEF IInv

\* The steps of the token thread that move no packet, main's, and the death of
\* the process for lack of memory.
LEMMA TokenSleepKeeps ==
  IInv /\ (TokenWake \/ TokenDiesAsleep \/ TokenDiesPrinting \/ DisplayStatistics
            \/ ArriveWithoutMemory)
    => IInv'
  <1> SUFFICES ASSUME IInv,
                      TokenWake \/ TokenDiesAsleep \/ TokenDiesPrinting \/ DisplayStatistics
                        \/ ArriveWithoutMemory
               PROVE  IInv'
    OBVIOUS
  <1> USE DEF TokenWake, TokenDiesAsleep, TokenDiesPrinting, DisplayStatistics,
              ArriveWithoutMemory
  <1>1. InOrder' /\ Everywhere' /\ Apart' /\ LostForMemory' /\ DistinctHands'
    BY NothingMoves
  <1>2. TypeOK'
    <2>1. token_count' = token_count \/ token_count' = Deposit(token_count)
      OBVIOUS
    <2>2. token_count' \in Int
      BY <2>1, ParameterAssumption DEF IInv, TypeOK, Deposit
    <2>3. QED  BY <2>2 DEF IInv, TypeOK
  <1>3. Arriving' /\ Holding' /\ NoLostWakeup'
    BY DEF IInv, Arriving, Holding, NoLostWakeup
  <1>4. DrainedAtEnd'
    BY DEF IInv, DrainedAtEnd, Ended
  <1>5. QED  BY <1>1, <1>2, <1>3, <1>4 DEF IInv

\* The steps of a server that move no packet.
LEMMA ServerWaitKeeps ==
  ASSUME IInv, NEW s \in Servers,
         \/ Wait(s) \/ SpuriousWakeup(s) \/ EndService(s)
         \/ ServerDiesServing(s) \/ ServerDiesWaiting(s)
  PROVE  IInv'
  <1> USE DEF Wait, SpuriousWakeup, EndService, ServerDiesServing,
              ServerDiesWaiting, OthersUnchanged
  <1>1. InOrder' /\ Everywhere' /\ Apart' /\ LostForMemory' /\ DistinctHands'
    BY NothingMoves
  <1>2. TypeOK'
    BY DEF IInv, TypeOK
  <1>3. Arriving' /\ Holding' /\ NoLostWakeup'
    BY DEF IInv, TypeOK, Arriving, Holding, NoLostWakeup
  <1>4. Ended' = Ended
    BY DEF IInv, TypeOK, Ended
  <1>5. DrainedAtEnd'
    BY <1>4 DEF IInv, DrainedAtEnd, Cancelled
  <1>6. QED  BY <1>1, <1>2, <1>3, <1>5 DEF IInv

\* The head of Q2 goes into the hand of a server, which was empty.
LEMMA BeginServiceKeeps ==
  ASSUME IInv, NEW s \in Servers, BeginService(s)
  PROVE  IInv'
  <1> DEFINE h == Head(list_Q2).serial_number
  <1> USE DEF BeginService, OthersUnchanged, UnlinkFirst
  <1>1. /\ list_Q2 \in Seq(Packets) /\ list_Q2 # <<>> /\ list_Q2' = Tail(list_Q2)
        /\ list_Q1 \in Seq(Packets) /\ list_Q1' = list_Q1
        /\ cur_val' = [cur_val EXCEPT ![s] = h]
        /\ cur_val \in [Servers -> 0..PacketNumber]
        /\ UNCHANGED <<dropped, lost, departed, serial_number_packet>>
    BY DEF IInv, TypeOK
  <1>2. /\ Tail(list_Q2) \in Seq(Packets)
        /\ Head(list_Q2) = list_Q2[1] /\ 1 \in DOMAIN list_Q2
        /\ \A i \in DOMAIN Tail(list_Q2) :
             i + 1 \in DOMAIN list_Q2 /\ Tail(list_Q2)[i] = list_Q2[i + 1]
        /\ Serials(list_Q2) = {h} \cup Serials(Tail(list_Q2))
    BY <1>1, TailFacts
  <1>3. /\ Increasing(Tail(list_Q2)) /\ Ahead(h, Tail(list_Q2))
        /\ h \notin Serials(Tail(list_Q2))
        /\ h \in 1..PacketNumber
    BY <1>1, TailKeepsOrder DEF IInv, InOrder
  <1>4. Ahead(h, list_Q1) /\ Before(Tail(list_Q2), list_Q1)
    BY <1>2 DEF IInv, InOrder, Before, Ahead
  <1>5. h \notin Serials(list_Q1)
    BY <1>1, <1>3, <1>4, SerialsFacts, ParameterAssumption
  <1>6. \A t \in Servers : cur_val[t] < h /\ Ahead(cur_val[t], Tail(list_Q2))
    BY <1>2 DEF IInv, InOrder, Ahead
  <1>7. cur_val[s] = 0
    BY DEF IInv, Holding
  <1> HIDE DEF h
  <1>8. InHand' = InHand \cup {h}
    BY <1>1, <1>3, <1>7, InHandFacts DEF Servers
  <1>9. TypeOK'
    BY <1>1, <1>2, <1>3 DEF IInv, TypeOK
  <1>10. Holding'
    BY <1>1, <1>3 DEF IInv, TypeOK, Holding
  <1>11. InOrder'
    BY <1>1, <1>3, <1>4, <1>6 DEF IInv, InOrder
  <1>12. Everywhere'
    BY <1>1, <1>2, <1>8 DEF IInv, Everywhere
  <1>13. Apart' /\ LostForMemory'
    <2>1. Queued' = Queued
      BY <1>1, <1>2, <1>8 DEF Queued
    <2>2. QED  BY <1>1, <2>1 DEF IInv, Apart, LostForMemory
  <1>14. DistinctHands'
    BY <1>1, <1>3, <1>6, ParameterAssumption DEF IInv, DistinctHands, Servers
  <1>15. Ended' = Ended
    BY DEF IInv, TypeOK, Ended
  <1>16. Arriving' /\ NoLostWakeup' /\ DrainedAtEnd'
    BY <1>1, <1>15 DEF IInv, TypeOK, Arriving, NoLostWakeup, DrainedAtEnd
  <1>17. QED
    BY <1>9, <1>10, <1>11, <1>12, <1>13, <1>14, <1>16 DEF IInv

\* The packet in a server's hand departs; it is ahead of both queues, so the
\* last one leaves them empty.
LEMMA DepartKeeps ==
  ASSUME IInv, NEW s \in Servers, Depart(s) \/ ServerDiesPrinting(s)
  PROVE  IInv'
  <1> DEFINE c == cur_val[s]
  <1>1. /\ list_Q2 \in Seq(Packets) /\ list_Q2' = list_Q2
        /\ list_Q1 \in Seq(Packets) /\ list_Q1' = list_Q1
        /\ cur_val' = [cur_val EXCEPT ![s] = 0]
        /\ cur_val \in [Servers -> 0..PacketNumber]
        /\ departed' = departed \cup {c}
        /\ server[s] = "depart"
        /\ server \in [Servers -> {"lock", "wait", "serve", "depart", "exit", "dead"}]
        /\ m1' \in {"free", s}
        /\ UNCHANGED <<dropped, lost, serial_number_packet, packet_thread,
                       packet_size, token_count, token_thread, main>>
    BY DEF IInv, TypeOK, Depart, ServerDiesPrinting, OthersUnchanged
  <1>2. c \in 1..PacketNumber
    BY <1>1, ParameterAssumption DEF IInv, Holding
  <1>3. /\ Ahead(c, list_Q1) /\ Ahead(c, list_Q2)
        /\ c \notin Serials(list_Q1) /\ c \notin Serials(list_Q2)
    BY <1>1, <1>2, SerialsFacts, ParameterAssumption DEF IInv, InOrder
  <1>4. c \in InHand
    BY <1>2 DEF InHand
  <1>5. InHand' = InHand \ {c} /\ DistinctHands'
    BY <1>1, <1>2, InHandFacts DEF IInv, DistinctHands, Servers
  <1> HIDE DEF c
  <1>6. InOrder'
    <2>1. Ahead(0, list_Q1) /\ Ahead(0, list_Q2)
      BY <1>1, SerialsFacts, ParameterAssumption DEF Ahead
    <2>2. QED  BY <1>1, <2>1 DEF IInv, InOrder
  <1>7. Everywhere'
    BY <1>1, <1>4, <1>5 DEF IInv, Everywhere
  <1>8. Apart' /\ LostForMemory'
    <2>1. Queued' = Queued \ {c} /\ c \in Queued
      BY <1>1, <1>3, <1>4, <1>5 DEF Queued
    <2>2. QED  BY <1>1, <2>1 DEF IInv, Apart, LostForMemory
  <1>9. CASE Depart(s)
    <2>1. server' = [server EXCEPT ![s] = IF LastDeparture(c) THEN "exit" ELSE "lock"]
      BY <1>9 DEF Depart, c
    <2>2. TypeOK'
      <3>1. server' \in [Servers -> {"lock", "wait", "serve", "depart", "exit", "dead"}]
        BY <1>1, <2>1
      <3>2. cur_val' \in [Servers -> 0..PacketNumber] /\ departed' \subseteq 1..PacketNumber
        BY <1>1, <1>2, ParameterAssumption DEF IInv, TypeOK
      <3>3. QED  BY <1>1, <3>1, <3>2 DEF IInv, TypeOK
    <2>3. Arriving' /\ Holding' /\ NoLostWakeup'
      BY <1>1, <2>1 DEF IInv, Arriving, Holding, NoLostWakeup
    <2>4. Ended => Ended'
      BY <1>1, <2>1 DEF Ended
    <2>5. DrainedAtEnd'
      <3>1. CASE LastDeparture(c)
        <4>1. c \in 1..serial_number_packet /\ c = PacketNumber
          BY <1>4, <3>1 DEF IInv, Everywhere, LastDeparture
        <4>2. serial_number_packet = PacketNumber
          BY <4>1, ParameterAssumption DEF IInv, TypeOK
        <4>3. packet_thread = "done"
          BY <4>2 DEF IInv, Arriving
        <4>4. DOMAIN list_Q1 = {} /\ DOMAIN list_Q2 = {}
          <5>1. /\ \A i \in DOMAIN list_Q1 : list_Q1[i].serial_number \in 1..PacketNumber
                /\ \A i \in DOMAIN list_Q2 : list_Q2[i].serial_number \in 1..PacketNumber
            BY <1>1, SerialsFacts
          <5>2. \A i \in DOMAIN list_Q1 : PacketNumber < list_Q1[i].serial_number
            BY <1>3, <4>1 DEF Ahead
          <5>3. \A i \in DOMAIN list_Q2 : PacketNumber < list_Q2[i].serial_number
            BY <1>3, <4>1 DEF Ahead
          <5>4. ASSUME NEW i \in DOMAIN list_Q1 PROVE FALSE
            BY <5>1, <5>2, ParameterAssumption
          <5>5. ASSUME NEW i \in DOMAIN list_Q2 PROVE FALSE
            BY <5>1, <5>3, ParameterAssumption
          <5>6. QED  BY <5>4, <5>5
        <4>5. list_Q1 = <<>> /\ list_Q2 = <<>>
          BY <1>1, <4>4
        <4>6. QED  BY <1>1, <4>3, <4>5 DEF DrainedAtEnd
      <3>2. CASE ~LastDeparture(c)
        <4>1. Ended' => Ended
          BY <1>1, <2>1, <3>2 DEF Ended
        <4>2. QED  BY <1>1, <4>1 DEF IInv, DrainedAtEnd
      <3>3. QED  BY <3>1, <3>2
    <2>6. QED
      BY <1>5, <1>6, <1>7, <1>8, <2>2, <2>3, <2>5 DEF IInv
  <1>10. CASE ServerDiesPrinting(s)
    <2>1. server' = [server EXCEPT ![s] = "dead"] /\ Ended
      BY <1>10 DEF ServerDiesPrinting, Cancelled
    <2>2. TypeOK'
      <3>1. server' \in [Servers -> {"lock", "wait", "serve", "depart", "exit", "dead"}]
        BY <1>1, <2>1
      <3>2. cur_val' \in [Servers -> 0..PacketNumber] /\ departed' \subseteq 1..PacketNumber
        BY <1>1, <1>2, ParameterAssumption DEF IInv, TypeOK
      <3>3. QED  BY <1>1, <3>1, <3>2 DEF IInv, TypeOK
    <2>3. Arriving' /\ Holding' /\ NoLostWakeup'
      BY <1>1, <2>1 DEF IInv, Arriving, Holding, NoLostWakeup
    <2>4. Ended'
      BY <1>1, <2>1 DEF Ended
    <2>5. DrainedAtEnd'
      BY <1>1, <2>1, <2>4 DEF IInv, DrainedAtEnd
    <2>6. QED
      BY <1>5, <1>6, <1>7, <1>8, <2>2, <2>3, <2>5 DEF IInv
  <1>11. QED  BY <1>9, <1>10

\* A packet moves from q to Q2 or is lost; q and the packets gone before it hold
\* the serial numbers of Q1 and possibly that of the packet that arrives.  The
\* parts about packets are kept.
LEMMA MoveKeepsAccount ==
  ASSUME IInv, NEW q \in Seq(Packets), NEW tokens \in Int, NEW gone,
         Increasing(q), Before(list_Q2, q),
         \A s \in Servers : Ahead(cur_val[s], q),
         Serials(q) \cup gone
           = Serials(list_Q1) \cup (1..serial_number_packet' \ 1..serial_number_packet),
         gone \subseteq 1..serial_number_packet' \ 1..serial_number_packet,
         gone \cap Serials(q) = {}, ~MallocFails => gone = {},
         serial_number_packet' \in serial_number_packet..PacketNumber,
         \/ q # <<>> /\ MoveHead(q, tokens, gone)
         \/ MoveNothing(q, tokens, gone),
         UNCHANGED <<cur_val, dropped, departed>>
  PROVE  /\ list_Q1' \in Seq(Packets) /\ list_Q2' \in Seq(Packets)
         /\ lost' \subseteq 1..PacketNumber
         /\ token_count' \in Int
         /\ server' \in [Servers -> {"lock", "wait", "serve", "depart", "exit", "dead"}]
         /\ Ended' = Ended
         /\ Holding' /\ InOrder' /\ Everywhere' /\ Apart' /\ LostForMemory'
         /\ DistinctHands' /\ NoLostWakeup'
  <1> DEFINE new == 1..serial_number_packet' \ 1..serial_number_packet
  <1>1. /\ list_Q2 \in Seq(Packets)
        /\ server \in [Servers -> {"lock", "wait", "serve", "depart", "exit", "dead"}]
        /\ cur_val \in [Servers -> 0..PacketNumber]
        /\ Increasing(list_Q2) /\ NoLostWakeup
        /\ \A s \in Servers : Ahead(cur_val[s], q) /\ Ahead(cur_val[s], list_Q2)
    BY DEF IInv, TypeOK, InOrder
  <1>2. /\ 1..serial_number_packet' = 1..serial_number_packet \cup new
        /\ 1..serial_number_packet' \subseteq 1..PacketNumber
        /\ InHand' = InHand
        /\ dropped \cup lost \cup departed \cup Serials(list_Q2) \cup InHand
             \subseteq 1..serial_number_packet
    BY ParameterAssumption DEF IInv, TypeOK, InHand, Everywhere
  <1>3. DistinctHands'
    BY DEF IInv, DistinctHands
  <1>4. \A n \in InHand : n \notin Serials(q)
    <2>1. \A s \in Servers : cur_val[s] \in Int /\ Ahead(cur_val[s], q)
      BY <1>1, ParameterAssumption
    <2>2. \A s \in Servers : cur_val[s] \notin Serials(q)
      BY <2>1, SerialsFacts
    <2>3. QED  BY <2>2 DEF InHand
  <1>5. /\ \A n \in dropped : n \notin Serials(q) \cup gone \cup Queued \cup lost \cup departed
        /\ \A n \in lost : n \notin Serials(q) \cup gone \cup Queued \cup departed
        /\ \A n \in departed : n \notin Serials(q) \cup gone \cup Queued
        /\ \A n \in gone : n \notin Serials(list_Q2) \cup InHand \cup Serials(q)
    BY <1>2 DEF IInv, Apart, Queued
  <1>6. CASE q # <<>> /\ MoveHead(q, tokens, gone)
    <2> DEFINE h == Head(q).serial_number
    <2>1. /\ list_Q1' \in Seq(Packets) /\ list_Q2' \in Seq(Packets)
          /\ token_count' \in Int
          /\ InOrder' /\ NoLostWakeup'
          /\ Serials(q) = Serials(list_Q1') \cup {h}
          /\ h \notin Serials(list_Q1')
          /\ server' = Broadcast(list_Q2)
          /\ Ended' = Ended
      BY <1>1, <1>6, MoveHeadFacts
    <2>2. PICK missing : LeavesQ1(h, gone, missing)
      BY <1>1, <1>6, MoveHeadFacts
    <2>3. \A s \in Servers : server'[s] = server[s] \/ (server[s] = "wait" /\ server'[s] = "lock")
      BY <2>1 DEF Broadcast
    <2>4. server' \in [Servers -> {"lock", "wait", "serve", "depart", "exit", "dead"}]
      BY <1>1, <2>1 DEF Broadcast
    <2>5. Holding'
      BY <2>3 DEF IInv, Holding
    <2> HIDE DEF h
    <2>6. Everywhere'
      BY <1>2, <2>1, <2>2 DEF IInv, Everywhere, LeavesQ1
    <2>7. Queued' \subseteq Serials(q) \cup Queued /\ lost' \subseteq lost \cup gone \cup {h}
      BY <1>2, <2>1, <2>2 DEF Queued, LeavesQ1
    <2>8. h \in Serials(q) /\ h \notin gone
      BY <2>1
    <2>9. Apart'
      <3>1. \A n \in dropped' : n \notin Queued' /\ n \notin lost' /\ n \notin departed'
        BY <1>5, <2>7, <2>8
      <3>2. \A n \in departed' : n \notin Queued'
        BY <1>5, <2>7
      <3>3. \A n \in lost' : n \notin departed'
        BY <1>5, <2>7, <2>8
      <3>4. \A n \in missing : n \notin Queued'
        BY <1>2, <1>4, <2>1, <2>2 DEF Queued, LeavesQ1
      <3>5. \A n \in lost : n \notin Queued'
        BY <1>5, <2>7
      <3>6. \A n \in gone : n \notin Queued'
        BY <1>2, <1>5, <2>1, <2>2, <2>8 DEF Queued, LeavesQ1
      <3>7. QED  BY <2>2, <3>1, <3>2, <3>3, <3>4, <3>5, <3>6 DEF Apart, LeavesQ1
    <2>10. LostForMemory'
      BY <2>2 DEF IInv, LostForMemory, LeavesQ1
    <2>11. lost' \subseteq 1..PacketNumber
      BY <1>2, <2>6 DEF Everywhere
    <2>12. QED
      BY <1>3, <2>1, <2>4, <2>5, <2>6, <2>9, <2>10, <2>11
  <1>7. CASE MoveNothing(q, tokens, gone)
    <2>1. /\ list_Q1' = q /\ list_Q2' = list_Q2 /\ token_count' = tokens
          /\ server' = server /\ lost' = lost \cup gone
      BY <1>7 DEF MoveNothing
    <2>2. Holding' /\ NoLostWakeup' /\ Ended' = Ended /\ LostForMemory'
      BY <2>1 DEF IInv, Holding, NoLostWakeup, Ended, LostForMemory
    <2>3. InOrder'
      BY <1>1, <2>1 DEF InOrder
    <2>4. Everywhere'
      BY <1>2, <2>1 DEF IInv, Everywhere
    <2>5. Apart'
      <3>1. Queued' = Serials(q) \cup Serials(list_Q2) \cup InHand
        BY <1>2, <2>1 DEF Queued
      <3>2. Queued' \subseteq Serials(q) \cup Queued
        BY <3>1 DEF Queued
      <3>3. QED  BY <1>5, <2>1, <3>1, <3>2 DEF Apart
    <2>6. lost' \subseteq 1..PacketNumber
      BY <1>2, <2>4 DEF Everywhere
    <2>7. QED
      BY <1>1, <1>3, <2>1, <2>2, <2>3, <2>4, <2>5, <2>6
  <1>8. QED  BY <1>6, <1>7

\* The packet that arrives, Q1 if it entered it, and what an append makes of both.
NewPacket == [serial_number |-> serial_number_packet + 1, tokens_required |-> packet_size]
LongerQ1 == Append(list_Q1, NewPacket)
Entered(memory) == ListAppend(list_Q1, NewPacket, memory)
NotEntered(memory) == Unlisted(NewPacket, memory)

\* What an arrival does to Q1, to the bucket and to the packets dropped.
LEMMA ArrivalFacts ==
  ASSUME IInv, Arrive
  PROVE  /\ serial_number_packet < PacketNumber
         /\ serial_number_packet' = serial_number_packet + 1
         /\ \/ /\ packet_size <= BucketSize
               /\ dropped' = dropped
               /\ \E memory \in Memory :
                    \/ /\ Entered(memory) # <<>> /\ token_count > packet_size
                       /\ MoveHead(Entered(memory), token_count, NotEntered(memory))
                    \/ MoveNothing(Entered(memory), token_count, NotEntered(memory))
            \/ /\ packet_size > BucketSize
               /\ dropped' = dropped \cup {serial_number_packet + 1}
               /\ MoveNothing(list_Q1, token_count, {})
  <1>1. serial_number_packet < PacketNumber
    BY ParameterAssumption DEF IInv, TypeOK, Arriving, Arrive, ArriveLocked
  <1>2. NewPacket.tokens_required = packet_size
    BY DEF NewPacket
  <1>3. CASE Enqueue
    <2>1. /\ packet_size <= BucketSize
          /\ dropped' = dropped
          /\ \E memory \in Memory :
               \/ /\ Entered(memory) # <<>> /\ MoreThanEnough(token_count, NewPacket)
                  /\ MoveHead(Entered(memory), token_count, NotEntered(memory))
               \/ MoveNothing(Entered(memory), token_count, NotEntered(memory))
      BY <1>3 DEF Enqueue, Entered, NotEntered, NewPacket
    <2>2. MoreThanEnough(token_count, NewPacket) => token_count > packet_size
      BY <1>2 DEF MoreThanEnough
    <2>3. QED  BY <1>1, <2>1, <2>2 DEF Arrive, ArriveLocked
  <1>4. CASE Drop
    BY <1>1, <1>4 DEF Drop, Arrive, ArriveLocked
  <1>5. QED  BY <1>3, <1>4 DEF Arrive, ArriveLocked

\* The packet that arrives has the largest number of all, whether it enters Q1
\* or is lost.
LEMMA EntersLast ==
  ASSUME IInv, Arrive, packet_size <= BucketSize, NEW memory \in Memory
  PROVE  /\ NewPacket \in Packets
         /\ LongerQ1 \in Seq(Packets)
         /\ Entered(memory) \in Seq(Packets)
         /\ Increasing(Entered(memory))
         /\ Before(list_Q2, Entered(memory))
         /\ \A s \in Servers : Ahead(cur_val[s], Entered(memory))
         /\ Serials(Entered(memory)) \cup NotEntered(memory)
              = Serials(list_Q1) \cup {serial_number_packet + 1}
         /\ NotEntered(memory) \subseteq {serial_number_packet + 1}
         /\ NotEntered(memory) \cap Serials(Entered(memory)) = {}
         /\ ~MallocFails => NotEntered(memory) = {} /\ Entered(memory) = LongerQ1
  <1> DEFINE n == serial_number_packet + 1
  <1>1. /\ list_Q1 \in Seq(Packets) /\ list_Q2 \in Seq(Packets)
        /\ serial_number_packet \in 0..PacketNumber /\ n \in 1..PacketNumber
        /\ packet_size \in PacketSizes
    BY ArrivalFacts, ParameterAssumption DEF IInv, TypeOK
  <1>2. NewPacket \in Packets /\ NewPacket.serial_number = n
    BY <1>1 DEF NewPacket, Packets
  <1>3. \A k \in Serials(list_Q1) \cup Serials(list_Q2) \cup InHand :
          k \in 1..serial_number_packet
    BY DEF IInv, Everywhere
  <1>4. \A k \in 1..serial_number_packet : k < n
    BY <1>1, ParameterAssumption
  <1> HIDE DEF n
  <1>5. /\ \A i \in DOMAIN list_Q1 : list_Q1[i].serial_number < n
        /\ \A i \in DOMAIN list_Q2 : list_Q2[i].serial_number < n
    BY <1>1, <1>3, <1>4, SerialsFacts
  <1>6. \A s \in Servers : cur_val[s] < n
    <2>1. \A s \in Servers : cur_val[s] = 0 \/ cur_val[s] \in InHand
      BY DEF InHand
    <2>2. 0 < n
      BY <1>1, ParameterAssumption
    <2>3. QED  BY <1>3, <1>4, <2>1, <2>2
  <1>7. /\ LongerQ1 \in Seq(Packets)
        /\ DOMAIN LongerQ1 = 1..(Len(list_Q1) + 1) /\ DOMAIN list_Q1 = 1..Len(list_Q1)
        /\ Len(list_Q1) \in Nat
        /\ \A i \in DOMAIN list_Q1 : LongerQ1[i] = list_Q1[i]
        /\ LongerQ1[Len(list_Q1) + 1] = NewPacket
    BY <1>1, <1>2, AppendFacts DEF LongerQ1
  <1>8. Increasing(list_Q1) /\ Before(list_Q2, list_Q1)
        /\ \A s \in Servers : Ahead(cur_val[s], list_Q1)
    BY DEF IInv, InOrder
  <1>9. Increasing(LongerQ1)
    <2> SUFFICES ASSUME NEW i \in DOMAIN LongerQ1, NEW j \in DOMAIN LongerQ1, i < j
                 PROVE  LongerQ1[i].serial_number < LongerQ1[j].serial_number
      BY DEF Increasing
    <2>1. i \in DOMAIN list_Q1
      BY <1>7
    <2>2. CASE j \in DOMAIN list_Q1
      BY <1>7, <1>8, <2>1, <2>2 DEF Increasing
    <2>3. CASE j = Len(list_Q1) + 1
      BY <1>2, <1>5, <1>7, <2>1, <2>3
    <2>4. QED  BY <1>7, <2>2, <2>3
  <1>10. Before(list_Q2, LongerQ1)
    BY <1>2, <1>5, <1>7, <1>8 DEF Before
  <1>11. \A s \in Servers : Ahead(cur_val[s], LongerQ1)
    BY <1>2, <1>6, <1>7, <1>8 DEF Ahead
  <1>12. Entered(memory) = LongerQ1 \/ Entered(memory) = list_Q1
    BY DEF Entered, ListAppend, LongerQ1
  <1>13. n \notin Serials(list_Q1)
    BY <1>1, <1>3, <1>4, ParameterAssumption
  <1>14. /\ Serials(Entered(memory)) \cup NotEntered(memory) = Serials(list_Q1) \cup {n}
         /\ NotEntered(memory) \subseteq {n}
         /\ NotEntered(memory) \cap Serials(Entered(memory)) = {}
         /\ ~MallocFails => NotEntered(memory) = {}
    BY <1>1, <1>2, <1>13, ListAppendFacts DEF Entered, NotEntered
  <1>15. ~MallocFails => Entered(memory) = LongerQ1
    BY DEF Memory, Entered, ListAppend, LongerQ1
  <1>16. QED
    BY <1>1, <1>2, <1>7, <1>8, <1>9, <1>10, <1>11, <1>12, <1>14, <1>15 DEF n

\* A packet arrives: its number is larger than every other in the system.
LEMMA ArriveKeeps == IInv /\ Arrive => IInv'
  <1> SUFFICES ASSUME IInv, Arrive PROVE IInv'
    OBVIOUS
  <1> DEFINE n == serial_number_packet + 1
  <1>1. /\ packet_thread = "arrive" /\ serial_number_packet' = n
        /\ packet_thread' = IF n = PacketNumber THEN "done" ELSE "read"
        /\ UNCHANGED <<m1, packet_size, token_thread, cur_val, departed, main>>
    BY DEF Arrive, ArriveLocked, LastArrival
  <1>2. serial_number_packet \in 0..PacketNumber /\ n \in 1..PacketNumber
    BY ArrivalFacts, ParameterAssumption DEF IInv, TypeOK
  <1>3. Arriving' /\ ~Ended
    BY <1>1 DEF IInv, Arriving, DrainedAtEnd
  <1>4. 1..n = 1..serial_number_packet \cup {n} /\ n \notin 1..serial_number_packet
    BY <1>2, ParameterAssumption
  <1>5. CASE packet_size <= BucketSize
    <2>1. packet_size > BucketSize => FALSE
      BY <1>5, ParameterAssumption DEF IInv, TypeOK
    <2>2. PICK memory \in Memory :
            /\ dropped' = dropped
            /\ \/ /\ Entered(memory) # <<>>
                  /\ MoveHead(Entered(memory), token_count, NotEntered(memory))
               \/ MoveNothing(Entered(memory), token_count, NotEntered(memory))
      BY <2>1, ArrivalFacts
    <2>3. /\ Entered(memory) \in Seq(Packets)
          /\ Increasing(Entered(memory))
          /\ Before(list_Q2, Entered(memory))
          /\ \A s \in Servers : Ahead(cur_val[s], Entered(memory))
          /\ Serials(Entered(memory)) \cup NotEntered(memory) = Serials(list_Q1) \cup {n}
          /\ NotEntered(memory) \subseteq {n}
          /\ NotEntered(memory) \cap Serials(Entered(memory)) = {}
          /\ ~MallocFails => NotEntered(memory) = {}
      BY <1>5, EntersLast
    <2>4. 1..serial_number_packet' \ 1..serial_number_packet = {n}
      BY <1>1, <1>4
    <2>5. serial_number_packet' \in serial_number_packet..PacketNumber
      BY <1>1, <1>2, ParameterAssumption
    <2>6. token_count \in Int
      BY DEF IInv, TypeOK
    <2> HIDE DEF n
    <2>7. /\ list_Q1' \in Seq(Packets) /\ list_Q2' \in Seq(Packets)
          /\ lost' \subseteq 1..PacketNumber
          /\ token_count' \in Int
          /\ server' \in [Servers -> {"lock", "wait", "serve", "depart", "exit", "dead"}]
          /\ Ended' = Ended
          /\ Holding' /\ InOrder' /\ Everywhere' /\ Apart' /\ LostForMemory'
          /\ DistinctHands' /\ NoLostWakeup'
      BY <1>1, <2>2, <2>3, <2>4, <2>5, <2>6, MoveKeepsAccount
    <2>8. TypeOK'
      BY <1>1, <1>2, <2>2, <2>7 DEF IInv, TypeOK, n
    <2>9. DrainedAtEnd'
      BY <1>3, <2>7 DEF DrainedAtEnd
    <2>10. QED  BY <1>3, <2>7, <2>8, <2>9 DEF IInv
  <1>6. CASE ~(packet_size <= BucketSize)
    <2>1. /\ dropped' = dropped \cup {n}
          /\ UNCHANGED <<list_Q1, list_Q2, lost, token_count, server>>
      BY <1>6, ArrivalFacts DEF MoveNothing
    <2>2. InHand' = InHand
      BY <1>1 DEF InHand
    <2>3. Everywhere'
      BY <1>1, <1>4, <2>1, <2>2 DEF IInv, Everywhere
    <2>4. Apart' /\ LostForMemory'
      <3>1. Queued' = Queued
        BY <2>1, <2>2 DEF Queued, Serials
      <3>2. n \notin Queued /\ n \notin lost /\ n \notin departed
        BY <1>4 DEF IInv, Everywhere, Queued
      <3>3. QED  BY <1>1, <2>1, <3>1, <3>2 DEF IInv, Apart, LostForMemory
    <2>5. TypeOK'
      BY <1>1, <1>2, <2>1 DEF IInv, TypeOK
    <2>6. Holding' /\ InOrder' /\ DistinctHands' /\ NoLostWakeup'
      BY <1>1, <2>1 DEF IInv, Holding, InOrder, DistinctHands, NoLostWakeup
    <2>7. DrainedAtEnd'
      BY <1>3, <2>1 DEF DrainedAtEnd, Ended
    <2>8. QED  BY <1>3, <2>3, <2>4, <2>5, <2>6, <2>7 DEF IInv
  <1>7. QED  BY <1>5, <1>6

\* A token may move the head of Q1, which keeps the order and the account.
LEMMA TokenArriveKeeps == IInv /\ TokenArrive => IInv'
  <1> SUFFICES ASSUME IInv, TokenArrive PROVE IInv'
    OBVIOUS
  <1> DEFINE tokens == Deposit(token_count)
  <1>1. /\ token_thread' = "sleep"
        /\ UNCHANGED <<m1, packet_thread, packet_size, serial_number_packet,
                       dropped, cur_val, departed, main>>
        /\ \/ list_Q1 # <<>> /\ MoveHead(list_Q1, tokens, {})
           \/ MoveNothing(list_Q1, tokens, {})
    BY DEF TokenArrive
  <1>2. tokens \in Int
    BY ParameterAssumption DEF IInv, TypeOK, Deposit
  <1> HIDE DEF tokens
  <1>3. /\ list_Q1 \in Seq(Packets) /\ Increasing(list_Q1) /\ Before(list_Q2, list_Q1)
        /\ \A s \in Servers : Ahead(cur_val[s], list_Q1)
        /\ serial_number_packet' \in serial_number_packet..PacketNumber
    BY <1>1, ParameterAssumption DEF IInv, TypeOK, InOrder
  <1>4. 1..serial_number_packet' \ 1..serial_number_packet = {}
    BY <1>1
  <1>5. /\ list_Q1' \in Seq(Packets) /\ list_Q2' \in Seq(Packets)
        /\ lost' \subseteq 1..PacketNumber
        /\ token_count' \in Int
        /\ server' \in [Servers -> {"lock", "wait", "serve", "depart", "exit", "dead"}]
        /\ Ended' = Ended
        /\ Holding' /\ InOrder' /\ Everywhere' /\ Apart' /\ LostForMemory'
        /\ DistinctHands' /\ NoLostWakeup'
    BY <1>1, <1>2, <1>3, <1>4, MoveKeepsAccount
  <1>6. TypeOK'
    BY <1>1, <1>5 DEF IInv, TypeOK
  <1>7. Arriving'
    BY <1>1 DEF IInv, Arriving
  <1>8. DrainedAtEnd'
    <2>1. CASE Ended
      <3>1. list_Q1 = <<>> /\ list_Q2 = <<>> /\ packet_thread = "done"
        BY <2>1 DEF IInv, DrainedAtEnd
      <3>2. QED  BY <1>1, <3>1 DEF MoveNothing, DrainedAtEnd
    <2>2. CASE ~Ended
      BY <1>5, <2>2 DEF DrainedAtEnd
    <2>3. QED  BY <2>1, <2>2
  <1>9. QED  BY <1>5, <1>6, <1>7, <1>8 DEF IInv

\* Every step of every thread keeps the invariant.
LEMMA NextKeeps == IInv /\ [Next]_vars => IInv'
  <1> SUFFICES ASSUME IInv, [Next]_vars PROVE IInv'
    OBVIOUS
  <1>1. CASE PacketThread
    BY <1>1, ReadFileKeeps, ArriveKeeps, TokenSleepKeeps DEF PacketThread
  <1>2. CASE TokenThread
    BY <1>2, TokenSleepKeeps, TokenArriveKeeps DEF TokenThread
  <1>3. ASSUME NEW s \in Servers, ServerThread(s) \/ SpuriousWakeup(s)
        PROVE  IInv'
    BY <1>3, ServerWaitKeeps, BeginServiceKeeps, DepartKeeps DEF ServerThread
  <1>4. CASE DisplayStatistics
    BY <1>4, TokenSleepKeeps
  <1>5. CASE UNCHANGED vars
    <2> USE <1>5 DEF vars
    <2>1. InOrder' /\ Everywhere' /\ Apart' /\ LostForMemory' /\ DistinctHands'
      BY NothingMoves
    <2>2. TypeOK' /\ Arriving' /\ Holding' /\ NoLostWakeup'
      BY DEF IInv, TypeOK, Arriving, Holding, NoLostWakeup
    <2>3. DrainedAtEnd'
      BY DEF IInv, DrainedAtEnd, Ended
    <2>4. QED  BY <2>1, <2>2, <2>3 DEF IInv
  <1>6. QED  BY <1>1, <1>2, <1>3, <1>4, <1>5 DEF Next

\* Every reachable state satisfies the inductive invariant.
THEOREM Invariance == Spec => []IInv
  BY InitEstablishes, NextKeeps, PTL DEF Spec

\* The state is well typed, whatever the sizes and the depth.
THEOREM TypeCorrect == Spec => []TypeOK
  <1>1. IInv => TypeOK
    BY DEF IInv
  <1>2. QED  BY <1>1, Invariance, PTL

\* No server sleeps on cv while Q2 holds a packet.
THEOREM NeverLostWakeup == Spec => []NoLostWakeup
  <1>1. IInv => NoLostWakeup
    BY DEF IInv
  <1>2. QED  BY <1>1, Invariance, PTL

\* Q2 is ahead of Q1, both are in order, and what is served is ahead of both.
THEOREM FirstInFirstOut == Spec => []InOrder
  <1>1. IInv => InOrder
    BY DEF IInv
  <1>2. QED  BY <1>1, Invariance, PTL

\* Every packet that arrived is in exactly one place, or was lost by an append
\* that found no memory.
THEOREM NoPacketLost == Spec => []Accounted
  <1>1. IInv => Accounted
    BY AccountedFromParts DEF IInv
  <1>2. QED  BY <1>1, Invariance, PTL

\* The server that finishes the last packet leaves both queues empty.
THEOREM EndsDrained == Spec => []DrainedAtEnd
  <1>1. IInv => DrainedAtEnd
    BY DEF IInv
  <1>2. QED  BY <1>1, Invariance, PTL

----------------------------------------------------------------------------
(* The bucket.                                                             *)

\* What the command line and the trace file are meant to hold.
SizesNatural == BucketSize \in Nat /\ PacketSizes \subseteq Nat

\* A move pays with the tokens of the packet that moves.
LEMMA MovePays ==
  ASSUME NEW q \in Seq(Packets), NEW tokens \in Int, NEW gone,
         \/ q # <<>> /\ MoveHead(q, tokens, gone)
         \/ MoveNothing(q, tokens, gone)
  PROVE  \/ token_count' = tokens
         \/ \E size \in PacketSizes : size = Head(q).tokens_required /\ token_count' = tokens - size
  <1>1. CASE q # <<>> /\ MoveHead(q, tokens, gone)
    BY <1>1, TailFacts DEF MoveHead, Packets
  <1>2. CASE MoveNothing(q, tokens, gone)
    BY <1>2 DEF MoveNothing
  <1>3. QED  BY <1>1, <1>2

\* Only an arrival and a token touch Q1; nobody else takes a token away.
LEMMA OtherSteps ==
  ASSUME IInv, [Next]_vars
  PROVE  \/ Arrive
         \/ TokenArrive
         \/ /\ UNCHANGED <<serial_number_packet, dropped, list_Q1>>
            /\ token_count' \in {token_count, Deposit(token_count)}
  <1> USE DEF OthersUnchanged
  <1>1. CASE PacketThread
    BY <1>1 DEF PacketThread, ReadFile, ArriveWithoutMemory
  <1>2. CASE TokenThread
    BY <1>2 DEF TokenThread, TokenWake, TokenDiesAsleep, TokenDiesPrinting
  <1>3. ASSUME NEW s \in Servers, ServerThread(s) \/ SpuriousWakeup(s)
        PROVE  UNCHANGED <<serial_number_packet, dropped, list_Q1, token_count>>
    BY <1>3 DEF ServerThread, SpuriousWakeup, Wait, BeginService, EndService,
                Depart, ServerDiesServing, ServerDiesWaiting, ServerDiesPrinting
  <1>4. CASE DisplayStatistics
    BY <1>4 DEF DisplayStatistics
  <1>5. CASE UNCHANGED vars
    BY <1>5 DEF vars
  <1>6. QED  BY <1>1, <1>2, <1>3, <1>4, <1>5 DEF Next

\* What a token adds to the count, when the bucket has a size.
LEMMA DepositFacts ==
  ASSUME NEW tokens \in Int, tokens <= BucketSize
  PROVE  /\ Deposit(tokens) \in Int
         /\ tokens <= Deposit(tokens) /\ Deposit(tokens) <= BucketSize
         /\ tokens < BucketSize => Deposit(tokens) = tokens + 1
         /\ tokens = BucketSize => Deposit(tokens) = tokens
  BY ParameterAssumption DEF Deposit

\* Sizes are not negative, so only a token fills the bucket, and never above
\* its depth.
THEOREM NeverOverfull ==
  ASSUME SizesNatural
  PROVE  Spec => []BucketNotOverfull
  <1>1. Init => BucketNotOverfull
    BY DEF Init, BucketNotOverfull, SizesNatural
  <1>2. IInv /\ BucketNotOverfull /\ [Next]_vars => BucketNotOverfull'
    <2> SUFFICES ASSUME IInv, BucketNotOverfull, [Next]_vars
                 PROVE  BucketNotOverfull'
      OBVIOUS
    <2>1. list_Q1 \in Seq(Packets) /\ token_count \in Int /\ token_count <= BucketSize
      BY DEF IInv, TypeOK, BucketNotOverfull
    <2>2. ASSUME NEW q \in Seq(Packets), NEW tokens \in Int, NEW gone, tokens <= BucketSize,
                 \/ q # <<>> /\ MoveHead(q, tokens, gone)
                 \/ MoveNothing(q, tokens, gone)
          PROVE  BucketNotOverfull'
      BY <2>2, MovePays, ParameterAssumption DEF SizesNatural, BucketNotOverfull
    <2>3. CASE Arrive
      <3>1. ASSUME NEW memory \in Memory, packet_size <= BucketSize
            PROVE  Entered(memory) \in Seq(Packets)
        BY <2>3, <3>1, EntersLast
      <3>2. QED  BY <2>1, <2>2, <2>3, <3>1, ArrivalFacts
    <2>4. CASE TokenArrive
      BY <2>1, <2>2, <2>4, DepositFacts DEF TokenArrive
    <2>5. CASE token_count' \in {token_count, Deposit(token_count)}
      BY <2>1, <2>5, DepositFacts DEF BucketNotOverfull
    <2>6. QED  BY <2>3, <2>4, <2>5, OtherSteps
  <1>3. QED  BY <1>1, <1>2, Invariance, PTL DEF Spec

\* Without a trace file every packet has the size -P names; with one, those that
\* are not dropped may still all have the same.
OneSizeFits ==
  /\ BucketSize \in Nat
  /\ \E size \in Nat : \A z \in PacketSizes : z <= BucketSize => z = size

\* The packets that wait, and the one that arrives to wait, have that size.
LEMMA OneSizeFacts ==
  ASSUME IInv, NEW size \in Nat, \A z \in PacketSizes : z <= BucketSize => z = size
  PROVE  /\ packet_size <= BucketSize => packet_size = size
         /\ \A q \in Seq(Packets) : q # <<>> => Head(q).tokens_required = size
  <1>1. packet_size \in PacketSizes
    BY DEF IInv, TypeOK
  <1>2. ASSUME NEW q \in Seq(Packets), q # <<>>
        PROVE  Head(q).tokens_required = size
    BY <1>2, TailFacts DEF Packets
  <1>3. QED  BY <1>1, <1>2

\* With one size that fits a step keeps the count within the bucket.
LEMMA OneSizeStep ==
  ASSUME OneSizeFits, IInv, TokensInBounds, [Next]_vars
  PROVE  TokensInBounds'
  <1>1. /\ list_Q1 \in Seq(Packets) /\ packet_size \in PacketSizes
        /\ token_count \in Int /\ token_count <= BucketSize /\ 0 <= token_count
    BY ParameterAssumption DEF IInv, TypeOK, TokensInBounds
  <1>2. PICK size \in Nat : \A z \in PacketSizes : z <= BucketSize => z = size
    BY DEF OneSizeFits
  <1>3. ASSUME NEW q \in Seq(Packets), NEW tokens \in 0..BucketSize, NEW gone,
               \/ q # <<>> /\ tokens >= size /\ MoveHead(q, tokens, gone)
               \/ MoveNothing(q, tokens, gone)
        PROVE  TokensInBounds'
    <2>1. CASE q # <<>> /\ tokens >= size /\ MoveHead(q, tokens, gone)
      <3>1. Head(q).tokens_required = size
        BY <1>2, <2>1, OneSizeFacts
      <3>2. token_count' = tokens - size
        BY <2>1, <3>1 DEF MoveHead
      <3>3. QED  BY <2>1, <3>2, ParameterAssumption DEF TokensInBounds
    <2>2. CASE MoveNothing(q, tokens, gone)
      BY <2>2 DEF MoveNothing, TokensInBounds
    <2>3. QED  BY <1>3, <2>1, <2>2
  <1>4. /\ token_count \in 0..BucketSize
        /\ Deposit(token_count) \in 0..BucketSize
    <2>1. BucketSize \in Int
      BY ParameterAssumption
    <2>2. /\ Deposit(token_count) \in Int
          /\ token_count <= Deposit(token_count) /\ Deposit(token_count) <= BucketSize
      BY <1>1, DepositFacts
    <2>3. QED  BY <1>1, <2>1, <2>2
  <1>5. CASE Arrive
    <2>1. packet_size <= BucketSize => packet_size = size
      BY <1>2, OneSizeFacts
    <2>2. packet_size <= BucketSize /\ token_count > packet_size => token_count >= size
      BY <1>1, <2>1
    <2>3. ASSUME NEW memory \in Memory, packet_size <= BucketSize
          PROVE  Entered(memory) \in Seq(Packets)
      BY <1>5, <2>3, EntersLast
    <2>4. QED  BY <1>1, <1>3, <1>4, <1>5, <2>2, <2>3, ArrivalFacts
  <1>6. CASE TokenArrive
    <2>1. ExactlyEnough(Deposit(token_count), Head(list_Q1)) /\ list_Q1 # <<>>
            => Deposit(token_count) >= size
      <3>1. list_Q1 # <<>> => Head(list_Q1).tokens_required = size
        BY <1>1, <1>2, OneSizeFacts
      <3>2. Deposit(token_count) \in Int
        BY <1>4
      <3>3. QED  BY <1>2, <3>1, <3>2 DEF ExactlyEnough
    <2>2. QED  BY <1>1, <1>3, <1>4, <1>6, <2>1 DEF TokenArrive
  <1>7. CASE token_count' \in {token_count, Deposit(token_count)}
    BY <1>4, <1>7 DEF TokensInBounds
  <1>8. QED  BY <1>5, <1>6, <1>7, OtherSteps

\* With one size that fits a packet that moves is paid for.
THEOREM TokensBounded ==
  ASSUME OneSizeFits
  PROVE  Spec => []TokensInBounds
  <1>1. Init => TokensInBounds
    BY DEF Init, TokensInBounds, OneSizeFits
  <1>2. IInv /\ TokensInBounds /\ [Next]_vars => TokensInBounds'
    BY OneSizeStep
  <1>3. QED  BY <1>1, <1>2, Invariance, PTL DEF Spec

----------------------------------------------------------------------------
(* The refinement of the token bucket filter.                              *)

\* A move or its absence is a settlement of the filter, when what moves is
\* paid for; q holds Q1 and the packet that arrives, if one does.
LEMMA MoveSettles ==
  ASSUME IInv, NEW q \in Seq(Packets), NEW tokens \in Int, NEW gone,
         Serials(q) = Serials(list_Q1) \cup (1..serial_number_packet' \ 1..serial_number_packet),
         serial_number_packet' \in serial_number_packet..PacketNumber,
         Increasing(q), dropped' = dropped,
         \/ q # <<>> /\ Head(q).tokens_required <= tokens /\ MoveHead(q, tokens, gone)
         \/ MoveNothing(q, tokens, gone)
  PROVE  Filter!Settle(q, tokens)
  <1> DEFINE n == serial_number_packet
             new == 1..n' \ 1..n
  <1>1. /\ 1..n' = 1..n \cup new
        /\ \A k \in dropped : k \notin new /\ k \notin Serials(list_Q1)
        /\ Serials(list_Q1) \subseteq 1..n
    BY ParameterAssumption DEF IInv, TypeOK, Everywhere, Apart, Queued
  <1>2. CASE q # <<>> /\ Head(q).tokens_required <= tokens /\ MoveHead(q, tokens, gone)
    <2> DEFINE h == Head(q).serial_number
    <2>1. /\ list_Q1' = Tail(q) /\ token_count' = tokens - Head(q).tokens_required
          /\ Serials(q) = {h} \cup Serials(list_Q1')
          /\ h \notin Serials(list_Q1')
      BY <1>2, TailFacts, TailKeepsOrder DEF MoveHead, UnlinkFirst
    <2>2. LeftQ1' = LeftQ1 \cup {h}
      BY <1>1, <2>1 DEF LeftQ1
    <2>3. QED  BY <1>2, <2>1, <2>2 DEF Filter!Settle
  <1>3. CASE MoveNothing(q, tokens, gone)
    <2>1. list_Q1' = q /\ token_count' = tokens
      BY <1>3 DEF MoveNothing
    <2>2. LeftQ1' = LeftQ1
      BY <1>1, <2>1 DEF LeftQ1
    <2>3. QED  BY <2>1, <2>2 DEF Filter!Settle
  <1>4. QED  BY <1>2, <1>3

\* With one size that fits every step is a step of the filter or leaves it alone.
LEMMA StepImplementsFilter ==
  ASSUME OneSizeFits, ~MallocFails, IInv, TokensInBounds, [Next]_vars
  PROVE  [Filter!Next]_(Filter!filterVars)
  <1>1. /\ list_Q1 \in Seq(Packets) /\ packet_size \in PacketSizes
        /\ token_count \in Int /\ token_count <= BucketSize /\ 0 <= token_count
        /\ serial_number_packet \in 0..PacketNumber
    BY ParameterAssumption DEF IInv, TypeOK, TokensInBounds
  <1>2. PICK size \in Nat : \A z \in PacketSizes : z <= BucketSize => z = size
    BY DEF OneSizeFits
  <1>3. ASSUME NEW q \in Seq(Packets), q # <<>>
        PROVE  Head(q).tokens_required = size
    BY <1>2, <1>3, OneSizeFacts
  <1>4. CASE Arrive
    <2> DEFINE n == serial_number_packet + 1
    <2>1. /\ serial_number_packet < PacketNumber
          /\ serial_number_packet' = n
      BY <1>4, ArrivalFacts
    <2>2. /\ 1..n = 1..serial_number_packet \cup {n}
          /\ n \notin 1..serial_number_packet
          /\ n \in serial_number_packet..PacketNumber
      BY <1>1, <2>1, ParameterAssumption
    <2>3. CASE packet_size <= BucketSize
      <3>1. ~(packet_size > BucketSize)
        BY <1>1, <2>3, ParameterAssumption
      <3>2. PICK memory \in Memory :
              /\ dropped' = dropped
              /\ \/ /\ Entered(memory) # <<>> /\ token_count > packet_size
                    /\ MoveHead(Entered(memory), token_count, NotEntered(memory))
                 \/ MoveNothing(Entered(memory), token_count, NotEntered(memory))
        BY <1>4, <3>1, ArrivalFacts
      <3>3. /\ Entered(memory) = LongerQ1 /\ LongerQ1 \in Seq(Packets)
            /\ Increasing(LongerQ1)
            /\ Serials(LongerQ1) = Serials(list_Q1) \cup {n}
        BY <1>4, <2>3, EntersLast
      <3>4. packet_size = size
        BY <1>1, <1>2, <2>3
      <3>5. \/ /\ LongerQ1 # <<>> /\ Head(LongerQ1).tokens_required <= token_count
               /\ MoveHead(LongerQ1, token_count, NotEntered(memory))
            \/ MoveNothing(LongerQ1, token_count, NotEntered(memory))
        BY <1>1, <1>3, <3>2, <3>3, <3>4
      <3>6. Serials(LongerQ1)
              = Serials(list_Q1) \cup (1..serial_number_packet' \ 1..serial_number_packet)
        BY <2>1, <2>2, <3>3
      <3>7. Filter!Settle(LongerQ1, token_count)
        BY <1>1, <2>1, <2>2, <3>2, <3>3, <3>5, <3>6, MoveSettles
      <3>8. Filter!Arrive(packet_size)
        BY <2>1, <2>3, <3>7 DEF Filter!Arrive, LongerQ1, NewPacket
      <3>9. QED  BY <1>1, <3>8 DEF Filter!Next
    <2>4. CASE ~(packet_size <= BucketSize)
      <3>1. /\ dropped' = dropped \cup {n} /\ list_Q1' = list_Q1
            /\ token_count' = token_count
        BY <1>4, <2>4, ArrivalFacts DEF MoveNothing
      <3>2. LeftQ1' = LeftQ1
        BY <2>1, <2>2, <3>1 DEF LeftQ1
      <3>3. packet_size > BucketSize
        BY <1>1, <2>4, ParameterAssumption
      <3>4. Filter!Arrive(packet_size)
        BY <2>1, <3>1, <3>2, <3>3 DEF Filter!Arrive
      <3>5. QED  BY <1>1, <3>4 DEF Filter!Next
    <2>5. QED  BY <2>3, <2>4
  <1>5. CASE TokenArrive
    <2>1. /\ Deposit(token_count) \in Int
          /\ token_count < BucketSize => Deposit(token_count) = token_count + 1
          /\ token_count = BucketSize => Deposit(token_count) = token_count
      BY <1>1, DepositFacts
    <2>2. /\ dropped' = dropped /\ serial_number_packet' = serial_number_packet
          /\ \/ /\ list_Q1 # <<>> /\ Head(list_Q1).tokens_required <= Deposit(token_count)
                /\ MoveHead(list_Q1, Deposit(token_count), {})
             \/ MoveNothing(list_Q1, Deposit(token_count), {})
      BY <1>1, <1>2, <1>3, <1>5, <2>1 DEF TokenArrive, ExactlyEnough
    <2>3. Filter!Settle(list_Q1, Deposit(token_count))
      <3>1. Increasing(list_Q1)
        BY DEF IInv, InOrder
      <3>2. serial_number_packet' \in serial_number_packet..PacketNumber
        BY <1>1, <2>2, ParameterAssumption
      <3>3. Serials(list_Q1)
              = Serials(list_Q1) \cup (1..serial_number_packet' \ 1..serial_number_packet)
        BY <2>2
      <3>4. QED  BY <1>1, <2>1, <2>2, <3>1, <3>2, <3>3, MoveSettles
    <2>4. token_count < BucketSize \/ token_count = BucketSize
      BY <1>1, ParameterAssumption
    <2>5. Filter!AddToken
      BY <2>1, <2>2, <2>3, <2>4 DEF Filter!AddToken
    <2>6. QED  BY <2>5 DEF Filter!Next
  <1>6. CASE /\ UNCHANGED <<serial_number_packet, dropped, list_Q1>>
             /\ token_count' \in {token_count, Deposit(token_count)}
    <2>1. LeftQ1' = LeftQ1
      BY <1>6 DEF LeftQ1
    <2>2. CASE token_count' = token_count
      BY <1>6, <2>1, <2>2 DEF Filter!filterVars
    <2>3. CASE token_count' = Deposit(token_count)
      <3>1. Filter!AddToken
        BY <1>1, <1>6, <2>1, <2>3, DepositFacts, ParameterAssumption
        DEF Filter!AddToken, Filter!Settle
      <3>2. QED  BY <3>1 DEF Filter!Next
    <2>4. QED  BY <1>6, <2>2, <2>3
  <1>7. QED  BY <1>4, <1>5, <1>6, OtherSteps

\* With one size that fits, and memory for every packet, the four threads
\* implement the token bucket filter.
THEOREM FilterImplemented ==
  ASSUME OneSizeFits, ~MallocFails
  PROVE  Spec => ImplementsFilter
  <1>1. Init => Filter!Init
    BY DEF Init, Filter!Init, LeftQ1
  <1>2. IInv /\ TokensInBounds /\ [Next]_vars => [Filter!Next]_(Filter!filterVars)
    BY StepImplementsFilter
  <1>3. QED
    BY <1>1, <1>2, Invariance, TokensBounded, PTL DEF Spec, ImplementsFilter, Filter!Spec
=============================================================================
