---------------------------- MODULE ReliableFtp ----------------------------
(***************************************************************************)
(* One file transfer of "RELIABLE FTP": server_final_1.c sends a file as   *)
(* numbered packets over raw IP, client_final_1.c writes them into a mapped *)
(* file and asks for the missing ones in NACKs of at most NackCapacity     *)
(* numbers, until none is missing; then it sends its final ACK four times. *)
(*                                                                         *)
(* The network is the one the doc describes, a link that delays packets,   *)
(* loses some and keeps their order.  A timeout may come while packets are *)
(* under way: the client waits 350 ms, a round trip takes 400 ms.  What a  *)
(* packet holds besides its number is the piece of the file of that number. *)
(***************************************************************************)
EXTENDS Integers, Sequences, FiniteSets

CONSTANTS FullPackets,   \* num_of_packets = filesize / 1475
          HasRemainder,  \* remaining # 0: packet FullPackets + 1 has data
          NackCapacity,  \* how many numbers fit in one NACK: 367
          HeapIsFresh,   \* whether what malloc returned for nack was zeroed
                         \* memory, or may hold what was written there before
          InFlight       \* how many packets of one direction can be under way
                         \* or in the receiver's socket before one is lost

ASSUME TransferAssumption ==
  /\ FullPackets \in Nat
  /\ HasRemainder \in BOOLEAN
  /\ FullPackets > 0 \/ HasRemainder  \* an empty file cannot be mapped
  /\ NackCapacity \in Nat \ {0}
  /\ HeapIsFresh \in BOOLEAN
  /\ InFlight \in Nat \ {0}

VARIABLES
  to_client,     \* the packets on the way: 0 is the header with the file size
  to_server,     \* the ACKs and NACKs on the way
  server,        \* "header", "await", "data", "nacks", "resend", "done"
  seq,           \* the last number the server sent in its first pass
  lost_seq,      \* the numbers it will send again.  One NACKed twice is sent
                 \* twice; the repetition is left out, it changes nothing
  client,        \* "header", "receive", "scan", "nack", "repair", "ack", "done"
  i,             \* how many more packets the receive loop takes, less one
  nack,          \* the numbers k with nack[k] = '1'
  file,          \* the pieces written into the mapped file
  batches,       \* the NACKs still to be sent in this round
  acks           \* how many final ACKs were sent

vars == <<to_client, to_server, server, seq, lost_seq, client, i, nack, file,
          batches, acks>>

LastPacket == FullPackets + 1
Numbers == 1..LastPacket

\* The pieces the file consists of, and so the packets of the first pass.
LastPiece == IF HasRemainder THEN LastPacket ELSE FullPackets
Pieces == 1..LastPiece

Ack == [zero |-> TRUE, nums |-> {}]
Nack(nums) == [zero |-> FALSE, nums |-> nums]

Init ==
  /\ to_client = <<>>
  /\ to_server = <<>>
  /\ server = "header"
  /\ seq = 0
  /\ lost_seq = {}
  /\ client = "header"
  /\ i = FullPackets
  /\ nack = {}
  /\ file = {}
  /\ batches = <<>>
  /\ acks = 0

----------------------------------------------------------------------------
(* The link.                                                               *)

\* The channels after a packet was sent: it is lost, or it arrives in its turn.
Sent(channel, packet) ==
  {channel} \cup IF Len(channel) < InFlight THEN {Append(channel, packet)} ELSE {}

----------------------------------------------------------------------------
(* The server: header, one pass over the file, then what NACKs ask for.    *)

ClientUnchanged == UNCHANGED <<client, i, nack, file, batches, acks>>

SendHeader ==
  /\ server = "header"
  /\ to_client' \in Sent(to_client, 0)
  /\ server' = "await"
  /\ UNCHANGED <<to_server, seq, lost_seq>>
  /\ ClientUnchanged

GoOnWithoutAck ==
  /\ server = "await"
  /\ server' = "data"
  /\ UNCHANGED <<to_client, to_server, seq, lost_seq>>
  /\ ClientUnchanged

\* Whatever arrives first starts the transfer: ack_recvd is never read.  There
\* is no timeout, and the header is not sent again.
AwaitAck ==
  /\ server = "await"
  /\ to_server # <<>>
  /\ to_server' = Tail(to_server)
  /\ server' = "data"
  /\ UNCHANGED <<to_client, seq, lost_seq>>
  /\ ClientUnchanged

SendData ==
  /\ server = "data"
  /\ to_client' \in Sent(to_client, seq + 1)
  /\ seq' = seq + 1
  /\ server' = IF seq + 1 = LastPiece THEN "nacks" ELSE "data"
  /\ UNCHANGED <<to_server, lost_seq>>
  /\ ClientUnchanged

\* NACKs are collected until one is not full; any packet that begins with '0'
\* is the end.
EmptyOnly(nums) == nums = {}
Complete(nums) == Cardinality(nums) < NackCapacity

ReceiveNack ==
  /\ server = "nacks"
  /\ to_server # <<>>
  /\ ~Head(to_server).zero
  /\ to_server' = Tail(to_server)
  /\ LET nums == Head(to_server).nums
     IN /\ lost_seq' = lost_seq \cup nums
        /\ server' = IF Complete(nums) /\ lost_seq' # {} THEN "resend" ELSE "nacks"
  /\ UNCHANGED <<to_client, seq>>
  /\ ClientUnchanged

ReceiveFinalAck ==
  /\ server = "nacks"
  /\ to_server # <<>>
  /\ Head(to_server).zero
  /\ to_server' = Tail(to_server)
  /\ server' = "done"
  /\ UNCHANGED <<to_client, seq, lost_seq>>
  /\ ClientUnchanged

Resend(n) ==
  /\ server = "resend"
  /\ n \in lost_seq
  /\ to_client' \in Sent(to_client, n)
  /\ lost_seq' = lost_seq \ {n}
  /\ server' = IF lost_seq' = {} THEN "nacks" ELSE "resend"
  /\ UNCHANGED <<to_server, seq>>
  /\ ClientUnchanged

----------------------------------------------------------------------------
(* The client.                                                             *)

ServerUnchanged == UNCHANGED <<server, seq, lost_seq>>

\* The header is answered, and the file and the table of what has arrived are
\* set up.  memset covers nack[0 .. FullPackets-1] only, and malloc no more: the
\* two last cells hold what the heap held.
ReceiveHeader ==
  /\ client = "header"
  /\ to_client # <<>>
  /\ Head(to_client) = 0
  /\ to_client' = Tail(to_client)
  /\ to_server' \in Sent(to_server, Ack)
  /\ nack' \in IF HeapIsFresh THEN {{}} ELSE SUBSET ({FullPackets, LastPacket} \cap Numbers)
  /\ client' = "receive"
  /\ UNCHANGED <<i, file, batches, acks>>
  /\ ServerUnchanged

\* The first FullPackets + 1 packets, or those before a timeout.
ReceiveData(n) ==
  /\ client = "receive"
  /\ to_client # <<>>
  /\ n = Head(to_client)
  /\ to_client' = Tail(to_client)
  /\ nack' = nack \cup {n}
  /\ file' = file \cup {n}
  /\ i' = i - 1
  /\ client' = IF i = 0 THEN "scan" ELSE "receive"
  /\ UNCHANGED <<to_server, batches, acks>>
  /\ ServerUnchanged

TimeOut ==
  /\ client \in {"receive", "repair"}
  /\ client' = "scan"
  /\ UNCHANGED <<to_client, to_server, i, nack, file, batches, acks>>
  /\ ServerUnchanged

\* The NACKs for what is missing, in ascending order: full ones, and after the
\* last cell one with the rest, which is empty if the missing numbers just
\* filled the ones before; unless the last cell's number filled one itself.
MissingBelowLast == 1..FullPackets \ nack
Missing == Numbers \ nack

Rank(k, missing) == Cardinality({j \in missing : j <= k})

Batches(missing) ==
  LET full == Cardinality(missing) \div NackCapacity
      flushed == LastPacket \in missing /\ Cardinality(missing) % NackCapacity = 0
      Batch(b) == {k \in missing : (Rank(k, missing) - 1) \div NackCapacity = b - 1}
  IN [b \in 1..(IF flushed THEN full ELSE full + 1) |-> Batch(b)]

Scan ==
  /\ client = "scan"
  /\ client' = IF Missing = {} THEN "ack" ELSE "nack"
  /\ batches' = IF Missing = {} THEN <<>> ELSE Batches(Missing)
  /\ UNCHANGED <<to_client, to_server, i, nack, file, acks>>
  /\ ServerUnchanged

SendNack ==
  /\ client = "nack"
  /\ to_server' \in Sent(to_server, Nack(Head(batches)))
  /\ batches' = Tail(batches)
  /\ client' = IF batches' = <<>> THEN "repair" ELSE "nack"
  /\ UNCHANGED <<to_client, i, nack, file, acks>>
  /\ ServerUnchanged

\* What comes before the next timeout.
ReceiveLost(n) ==
  /\ client = "repair"
  /\ to_client # <<>>
  /\ n = Head(to_client)
  /\ to_client' = Tail(to_client)
  /\ nack' = nack \cup {n}
  /\ file' = file \cup {n}
  /\ UNCHANGED <<to_server, client, i, batches, acks>>
  /\ ServerUnchanged

Enough(sent) == sent = 4

SendFinalAck ==
  /\ client = "ack"
  /\ to_server' \in Sent(to_server, Ack)
  /\ acks' = acks + 1
  /\ client' = IF Enough(acks + 1) THEN "done" ELSE "ack"
  /\ UNCHANGED <<to_client, i, nack, file, batches>>
  /\ ServerUnchanged

----------------------------------------------------------------------------
Next ==
  \/ SendHeader \/ AwaitAck \/ SendData \/ ReceiveNack \/ ReceiveFinalAck
  \/ \E n \in Numbers : Resend(n)
  \/ ReceiveHeader \/ TimeOut \/ Scan \/ SendNack \/ SendFinalAck
  \/ \E n \in Numbers : ReceiveData(n) \/ ReceiveLost(n)

Spec == Init /\ [][Next]_vars

\* Both programs run on; what has arrived is received in spite of timeouts; and
\* the losses are not selective for ever: of a packet that is sent again and
\* again, one arrives.
Fairness ==
  /\ WF_vars(SendHeader) /\ WF_vars(SendData)
  /\ WF_vars(\E n \in Numbers : Resend(n))
  /\ WF_vars(AwaitAck) /\ WF_vars(ReceiveNack) /\ WF_vars(ReceiveFinalAck)
  /\ WF_vars(ReceiveHeader) /\ WF_vars(TimeOut) /\ WF_vars(Scan)
  /\ WF_vars(SendNack) /\ WF_vars(SendFinalAck)
  /\ SF_vars(\E n \in Numbers : ReceiveData(n) \/ ReceiveLost(n))
  /\ SF_vars(SendNack /\ to_server' # to_server)
  /\ \A n \in Numbers : SF_vars(Resend(n) /\ to_client' # to_client)

FairSpec == Spec /\ Fairness
=============================================================================
