------------------------------ MODULE IpRouter ------------------------------
(***************************************************************************)
(* The router of "SIMPLE IP ROUTER/Custom_IP_ARP.c": one thread per        *)
(* interface captures frames, and callback rewrites each in place and      *)
(* injects it into the interface of the next hop, or, when its time to     *)
(* live is over, turns it into an ICMP message to the neighbour it came    *)
(* from.  The threads share what the kernel gives them: the ARP table and  *)
(* a limited number of capture handles.                                    *)
(***************************************************************************)
EXTENDS Integers, Sequences, FiniteSets

CONSTANTS Ifnames,       \* the interfaces with an address 10.x, one thread each
          Ttls,          \* the times to live packets arrive with
          TtlRange,      \* the values of u_char: 256
          Handles,       \* how many handles pcap_open_live can have open
          Last,          \* how many packets arrive
          StackIsFresh   \* whether the byte after the four copied to ifname was
                         \* zero on the stack, or may hold anything

ASSUME RouterAssumption ==
  /\ IsFiniteSet(Ifnames) /\ {"eth1", "eth2"} \subseteq Ifnames
  /\ Ifnames \intersect {"none", "garbage"} = {}
  /\ TtlRange \in Nat \ {0, 1}
  /\ Ttls \subseteq 0..(TtlRange - 1)
  /\ Handles \in Nat
  /\ Last \in Nat
  /\ StackIsFresh \in BOOLEAN

VARIABLES
  received,  \* the packets that arrived, in order
  wire,      \* per interface, the numbers of those not yet captured
  stage,     \* per thread: "capture": in pcap_loop; "expire": before 191;
             \* "open": before 270; "resolve": before 297; "send": before 315
  hand,      \* per thread: the number of its packet, or 0
  ttl,       \* per thread: ip_ttl of its packet
  ifname,    \* per thread: the interface to inject the packet into
  to,        \* per thread: whose hardware address the frame gets
  arp,       \* the neighbours with a complete entry in the ARP table
  handles,   \* how many handles of callbacks are open
  sent,      \* the frames injected
  running    \* FALSE once the process has died

vars == <<received, wire, stage, hand, ttl, ifname, to, arp, handles, sent, running>>
locals == <<stage, hand, ttl, ifname, to>>

----------------------------------------------------------------------------
(* The routing table that main builds.                                     *)

Routes ==
  <<[net |-> "10.1.0",  next_hop |-> "10.10.1.1", ifname |-> "eth2"],
    [net |-> "10.10.1", next_hop |-> "10.10.1.1", ifname |-> "eth2"],
    [net |-> "10.10.3", next_hop |-> "10.10.3.2", ifname |-> "eth1"]>>

NextHops == {Routes[r].next_hop : r \in DOMAIN Routes}
Nets == {Routes[r].net : r \in DOMAIN Routes} \cup {"elsewhere"}
Packet == [ifname : Ifnames, dst : Nets, ttl : Ttls]

\* The first route whose network is that of the destination.
NoRoute == [net |-> "none", next_hop |-> "none", ifname |-> "none"]
Route(net) ==
  LET hits == {r \in DOMAIN Routes : Routes[r].net = net}
  IN IF hits = {} THEN NoRoute
     ELSE Routes[CHOOSE r \in hits : \A q \in hits : r <= q]

Init ==
  /\ received = <<>>
  /\ wire = [d \in Ifnames |-> <<>>]
  /\ stage = [d \in Ifnames |-> "capture"]
  /\ hand = [d \in Ifnames |-> 0]
  /\ ttl = [d \in Ifnames |-> 0]
  /\ ifname = [d \in Ifnames |-> "none"]
  /\ to = [d \in Ifnames |-> "none"]
  /\ arp \in SUBSET NextHops
  /\ handles = 0
  /\ sent = {}
  /\ running = TRUE

----------------------------------------------------------------------------
(* The neighbours and the kernel.                                          *)

Arrive(p) ==
  /\ Len(received) < Last
  /\ received' = Append(received, p)
  /\ wire' = [wire EXCEPT ![p.ifname] = Append(@, Len(received) + 1)]
  /\ UNCHANGED <<arp, handles, sent, running, locals>>

\* Entries are learned, and time out.
ArpChanges ==
  /\ \E hop \in NextHops : arp' \in {arp \cup {hop}, arp \ {hop}}
  /\ arp' # arp
  /\ UNCHANGED <<received, wire, handles, sent, running, locals>>

----------------------------------------------------------------------------
(* callback, on the thread of interface d.                                 *)

\* The end of callback: back to pcap_loop.
Return(d) ==
  /\ stage' = [stage EXCEPT ![d] = "capture"]
  /\ hand' = [hand EXCEPT ![d] = 0]
  /\ UNCHANGED <<ttl, ifname, to>>

\* An address is read through NULL: the process dies with all its threads.
Dies ==
  /\ running' = FALSE
  /\ UNCHANGED <<received, wire, arp, handles, sent, locals>>

\* The time to live is counted down, in eight bits, and the table is searched
\* unless it is over.
TestBeforeCount(t) == t
CountDown(t) == (t - 1) % TtlRange
Capture(d) ==
  LET n == Head(wire[d])
      left == CountDown(received[n].ttl)
  IN /\ running
     /\ stage[d] = "capture"
     /\ wire[d] # <<>>
     /\ wire' = [wire EXCEPT ![d] = Tail(@)]
     /\ hand' = [hand EXCEPT ![d] = n]
     /\ ttl' = [ttl EXCEPT ![d] = left]
     /\ \/ /\ left = 0
           /\ stage' = [stage EXCEPT ![d] = "expire"]
           /\ UNCHANGED <<ifname, to>>
        \/ /\ left # 0
           /\ stage' = [stage EXCEPT ![d] = "open"]
           /\ ifname' = [ifname EXCEPT ![d] = Route(received[n].dst).ifname]
           /\ to' = [to EXCEPT ![d] = Route(received[n].dst).next_hop]
     /\ UNCHANGED <<received, arp, handles, sent, running>>

\* The packet becomes a message to its sender.  The handle opened to ask for
\* the interface's addresses goes out of scope open.  Of the interface's name
\* four bytes are copied, without the zero that ends it.
Expire(d) ==
  /\ running
  /\ stage[d] = "expire"
  /\ handles < Handles
  /\ handles' = handles + 1
  /\ ttl' = [ttl EXCEPT ![d] = 64]
  /\ \E name \in IF StackIsFresh THEN {d} ELSE {d, "garbage"} :
       ifname' = [ifname EXCEPT ![d] = name]
  /\ to' = [to EXCEPT ![d] = "sender"]
  /\ stage' = [stage EXCEPT ![d] = "open"]
  /\ UNCHANGED <<received, wire, hand, arp, sent, running>>

\* The kernel does not give the interface's address.
ExpireUnaddressed(d) ==
  /\ running
  /\ stage[d] = "expire"
  /\ handles < Handles
  /\ Dies

ExpireUnopened(d) ==
  /\ running
  /\ stage[d] = "expire"
  /\ handles = Handles
  /\ Return(d)
  /\ UNCHANGED <<received, wire, arp, handles, sent, running>>

\* The interface is opened for injection, if there is one of that name.  An
\* ICMP message keeps the hardware address of the frame it is made from.
Open(d) ==
  /\ running
  /\ stage[d] = "open"
  /\ ifname[d] \in Ifnames
  /\ handles < Handles
  /\ handles' = handles + 1
  /\ stage' = [stage EXCEPT ![d] = IF to[d] = "sender" THEN "send" ELSE "resolve"]
  /\ UNCHANGED <<received, wire, hand, ttl, ifname, to, arp, sent, running>>

\* The kernel does not give the interface's hardware address, nor did it in
\* Expire if the frame is an ICMP message.
OpenUnaddressed(d) ==
  /\ running
  /\ stage[d] = "open"
  /\ ifname[d] \in Ifnames
  /\ handles < Handles
  /\ Dies

CannotOpen(d) ==
  /\ running
  /\ stage[d] = "open"
  /\ ifname[d] \notin Ifnames \/ handles = Handles
  /\ Return(d)
  /\ UNCHANGED <<received, wire, arp, handles, sent, running>>

Resolve(d) ==
  /\ running
  /\ stage[d] = "resolve"
  /\ to[d] \in arp
  /\ stage' = [stage EXCEPT ![d] = "send"]
  /\ UNCHANGED <<received, wire, hand, ttl, ifname, to, arp, handles, sent, running>>

\* Without an entry the hardware address is copied from NULL.
Unresolved(d) ==
  /\ running
  /\ stage[d] = "resolve"
  /\ to[d] \notin arp
  /\ Dies

\* The frame is injected, or that fails; the handle is closed in both cases.
KeepOpen(open) == open
Close(open) == open - 1
Send(d) ==
  /\ running
  /\ stage[d] = "send"
  /\ sent' \in {sent, sent \cup {[packet |-> hand[d], ifname |-> ifname[d],
                                  to |-> to[d], ttl |-> ttl[d]]}}
  /\ handles' = Close(handles)
  /\ Return(d)
  /\ UNCHANGED <<received, wire, arp, running>>

Callback(d) ==
  \/ Capture(d)
  \/ Expire(d) \/ ExpireUnaddressed(d) \/ ExpireUnopened(d)
  \/ Open(d) \/ OpenUnaddressed(d) \/ CannotOpen(d)
  \/ Resolve(d) \/ Unresolved(d) \/ Send(d)

Next ==
  \/ \E p \in Packet : Arrive(p)
  \/ ArpChanges
  \/ \E d \in Ifnames : Callback(d)

Spec == Init /\ [][Next]_vars
=============================================================================
