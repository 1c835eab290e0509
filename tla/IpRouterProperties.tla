------------------------- MODULE IpRouterProperties -------------------------
(***************************************************************************)
(* What the router must satisfy.                                           *)
(***************************************************************************)
EXTENDS IpRouter

\* Type invariant of the threads and of the kernel's tables.
TypeOK ==
  /\ received \in Seq(Packet)
  /\ Len(received) <= Last
  /\ wire \in [Ifnames -> Seq(1..Last)]
  /\ stage \in [Ifnames -> {"capture", "expire", "open", "resolve", "send"}]
  /\ hand \in [Ifnames -> 0..Last]
  /\ ttl \in [Ifnames -> 0..(TtlRange - 1) \cup {64}]
  /\ ifname \in [Ifnames -> Ifnames \cup {"none", "garbage"}]
  /\ to \in [Ifnames -> NextHops \cup {"none", "sender"}]
  /\ arp \subseteq NextHops
  /\ handles \in 0..Handles
  /\ sent \subseteq [packet : 1..Last, ifname : Ifnames,
                     to : NextHops \cup {"sender"}, ttl : 1..(TtlRange - 1) \cup {64}]
  /\ running \in BOOLEAN

OnWire == UNION {{wire[d][k] : k \in DOMAIN wire[d]} : d \in Ifnames}
InHand == {hand[d] : d \in Ifnames} \ {0}

Forwarding == INSTANCE IpForwarding WITH pending <- OnWire \cup InHand

\* The threads implement a router: each packet is forwarded at most once, as
\* the table says and with one hop less to live, or answered to the neighbour
\* it came from, or dropped; whatever another thread does in the meantime.
ImplementsForwarding == Forwarding!Spec

\* Only packets whose time to live was over cost a handle for good: otherwise
\* as many are open as callbacks are injecting.
HandlesReturned ==
  LET injecting == {d \in Ifnames : stage[d] \in {"resolve", "send"}}
      expired == {n \in DOMAIN received : received[n].ttl = 1} \ OnWire
  IN /\ handles >= Cardinality(injecting)
     /\ handles <= Cardinality(injecting) + Cardinality(expired)
=============================================================================
