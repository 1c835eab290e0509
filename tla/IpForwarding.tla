---------------------------- MODULE IpForwarding ----------------------------
(***************************************************************************)
(* What a router promises for each packet it receives: to forward it once, *)
(* on the interface and to the neighbour its table names, with one hop     *)
(* less to live; or, when that was its last hop, to tell its sender, on    *)
(* the interface it came from; or to discard it.                           *)
(***************************************************************************)
EXTENDS Naturals

CONSTANTS Ifnames,   \* the interfaces
          Nets,      \* the networks a packet can be bound for
          Ttls,      \* the times to live a packet can arrive with
          Last,      \* the number of the last packet
          NoRoute,
          Route(_)   \* the route to a network, or NoRoute: a record with the
                     \* fields ifname and next_hop

VARIABLES received,  \* what arrived: a function from 1..n to packets
          pending,   \* the numbers of the packets not yet dealt with
          sent       \* the frames sent

forwardingVars == <<received, pending, sent>>

Packet == [ifname : Ifnames, dst : Nets, ttl : Ttls]

Init == received = <<>> /\ pending = {} /\ sent = {}

Receive(n, p) ==
  /\ DOMAIN received = 1..(n - 1)
  /\ received' = [k \in 1..n |-> IF k = n THEN p ELSE received[k]]
  /\ pending' = pending \cup {n}
  /\ sent' = sent

Forward(n) ==
  LET p == received[n]
  IN /\ p.ttl > 1
     /\ Route(p.dst) # NoRoute
     /\ sent' = sent \cup {[packet |-> n, ifname |-> Route(p.dst).ifname,
                            to |-> Route(p.dst).next_hop, ttl |-> p.ttl - 1]}

TimeExceeded(n) ==
  /\ received[n].ttl = 1
  /\ sent' = sent \cup {[packet |-> n, ifname |-> received[n].ifname,
                         to |-> "sender", ttl |-> 64]}

Discard == sent' = sent

Dispose(n) ==
  /\ n \in pending
  /\ pending' = pending \ {n}
  /\ received' = received
  /\ Forward(n) \/ TimeExceeded(n) \/ Discard

Next == \E n \in 1..Last : Dispose(n) \/ \E p \in Packet : Receive(n, p)

Spec == Init /\ [][Next]_forwardingVars
=============================================================================
