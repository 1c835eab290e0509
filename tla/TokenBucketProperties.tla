----------------------- MODULE TokenBucketProperties -----------------------
(***************************************************************************)
(* What the traffic shaper must satisfy, and what its documentation says   *)
(* of it and the code does not do.                                         *)
(***************************************************************************)
EXTENDS TokenBucket

\* Type invariant of the shaper's state.
TypeOK ==
  /\ m1 \in {"free", "token"} \cup Servers
  /\ packet_thread \in {"read", "arrive", "done"}
  /\ packet_size \in PacketSizes
  /\ serial_number_packet \in 0..PacketNumber
  /\ dropped \subseteq 1..PacketNumber
  /\ list_Q1 \in Seq(Packets)
  /\ list_Q2 \in Seq(Packets)
  /\ lost \subseteq 1..PacketNumber
  /\ token_count \in Int
  /\ token_thread \in {"sleep", "lock", "dead"}
  /\ server \in [Servers -> {"lock", "wait", "serve", "depart", "exit", "dead"}]
  /\ cur_val \in [Servers -> 0..PacketNumber]
  /\ departed \subseteq 1..PacketNumber
  /\ main \in {"join", "stats", "killed"}

\* No lost wakeup: a server sleeps on cv only while Q2 is empty, although
\* moving_packet_Q1_to_Q2 broadcasts only when Q2 was empty.
NoLostWakeup == \A s \in Servers : server[s] = "wait" => list_Q2 = <<>>

Increasing(q) ==
  \A i, j \in DOMAIN q : i < j => q[i].serial_number < q[j].serial_number
Before(q, r) ==
  \A i \in DOMAIN q, j \in DOMAIN r : q[i].serial_number < r[j].serial_number
Ahead(n, q) == \A i \in DOMAIN q : n < q[i].serial_number

\* Packets overtake nobody: both queues are in order of arrival, Q2 is ahead
\* of Q1, and a packet in service is ahead of both.
InOrder ==
  /\ Increasing(list_Q1)
  /\ Increasing(list_Q2)
  /\ Before(list_Q2, list_Q1)
  /\ \A s \in Servers : Ahead(cur_val[s], list_Q1) /\ Ahead(cur_val[s], list_Q2)

InHand == {cur_val[s] : s \in Servers} \ {0}

\* No packet is duplicated, and none is lost between the threads except through
\* an append that found no memory (91, 98 and 176 do not look at what it
\* returns): each packet that arrived is in exactly one of Q1, Q2, a server's
\* hand, departed, dropped and the packets such an append left nowhere.
Accounted ==
  /\ ~MallocFails => lost = {}
  /\ dropped \cup lost \cup Serials(list_Q1) \cup Serials(list_Q2) \cup InHand
       \cup departed = 1..serial_number_packet
  /\ \A s, t \in Servers : s # t /\ cur_val[s] # 0 => cur_val[s] # cur_val[t]
  /\ LET places == <<dropped, lost, Serials(list_Q1), Serials(list_Q2), InHand,
                     departed>>
     IN \A i, j \in DOMAIN places : i # j => places[i] \cap places[j] = {}

\* When the server of the last packet ends the emulation no packet is left in
\* a queue and none is still to arrive (the test at 281 looks at one number).
DrainedAtEnd ==
  Ended => packet_thread = "done" /\ list_Q1 = <<>> /\ list_Q2 = <<>>

\* The bucket never holds more than bucket_size tokens (sizes not negative).
BucketNotOverfull == token_count <= BucketSize

\* When one packet size fits the bucket a packet that moves is always paid
\* for: the count stays within 0 .. bucket_size, although the arrival thread
\* tests the new packet and moves the head of Q1.
TokensInBounds == token_count \in 0..BucketSize

LeftQ1 == (1..serial_number_packet) \ (dropped \cup Serials(list_Q1))

Filter == INSTANCE TokenBucketFilter
  WITH Depth <- BucketSize, Sizes <- PacketSizes, Last <- PacketNumber,
       credit <- token_count, arrived <- serial_number_packet,
       waiting <- list_Q1, released <- LeftQ1

\* When one packet size fits the bucket and memory never runs out, the four
\* threads implement the filter.
ImplementsFilter == Filter!Spec

Reached(n) == n \in departed \/ \E s \in Servers : cur_val[s] = n

\* A packet that entered a queue eventually reaches a server.  The doc promises
\* it (the token thread moves the head when it has "sufficient tokens").
AdmittedReachesServer ==
  \A n \in 1..PacketNumber :
    n \in Serials(list_Q1) \cup Serials(list_Q2) ~> Reached(n)

\* The emulation ends once every packet arrived (doc, server threads, c).
EmulationEnds == packet_thread = "done" ~> Ended

\* A thread that m1, owned by a dead one, keeps from ever ending.
Blocked ==
  /\ m1 # "free"
  /\ \/ token_thread = "lock"
     \/ \E s \in Servers : server[s] \in {"lock", "wait", "depart"}

\* After the end main returns from its joins and prints the statistics, unless
\* the mutex was orphaned by a cancelled thread while another one still needs
\* it: nothing else keeps the cancelled threads from ending.
StatisticsUnlessBlocked == Ended ~> (main = "stats" \/ Blocked)
=============================================================================
