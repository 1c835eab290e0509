------------------------- MODULE ReliableFtpProofs -------------------------
(***************************************************************************)
(* The transfer's safety, for every file size, NACK capacity and link.     *)
(***************************************************************************)
EXTENDS ReliableFtpProperties, FiniteSetTheorems, TLAPS

----------------------------------------------------------------------------
(* The inductive invariant.                                                *)

\* Until the header has arrived the server has heard nothing.
Handshake ==
  /\ server = "header" => client = "header" /\ to_client = <<>>
  /\ client = "header" => to_server = <<>> /\ server \in {"header", "await"}

\* While the server waits for the ACK of the header that is the first packet
\* on the way to it, or was lost; later no '0' is under way but the final one.
FirstMayBeHeaderAck ==
  server = "await"
    => \A r \in DOMAIN to_server : to_server[r].zero => r = 1 \/ ClientFinished

\* A client that is finished marked everything, and a server that is finished
\* heard so.
Finished ==
  /\ ClientFinished => Missing = {}
  /\ server = "done" => ClientFinished

\* The counters of the loops.
Counters ==
  /\ server \in {"header", "await"} => seq = 0
  /\ server = "data" => seq < LastPiece
  /\ client \in {"header", "receive"} => i >= 0
  /\ client = "nack" => batches # <<>>
  /\ client # "done" => acks < 4

IInv ==
  /\ TypeOK
  /\ Counters
  /\ Handshake
  /\ FirstMayBeHeaderAck
  /\ ZeroMeansFinished
  /\ Finished

\* What is marked as arrived was written into the file: this needs the table
\* to be zero when the transfer begins.
MarkedWereWritten == nack \subseteq file

----------------------------------------------------------------------------
(* Numbers, packets and batches.                                           *)

\* There is a piece to send, and every piece has the number of a packet.
LEMMA NumbersFacts ==
  /\ LastPacket \in Nat \ {0}
  /\ LastPiece \in 1..LastPacket
  /\ Pieces \subseteq Numbers
<1>1. FullPackets \in Nat /\ (FullPackets > 0 \/ HasRemainder)
  BY TransferAssumption
<1>2. LastPacket \in Nat \ {0}
  BY <1>1 DEF LastPacket
<1>3. LastPiece \in 1..LastPacket
  <2>1. CASE HasRemainder
    BY <2>1, <1>2 DEF LastPiece
  <2>2. CASE ~HasRemainder
    BY <2>2, <1>1, <1>2 DEF LastPiece, LastPacket
  <2> QED BY <2>1, <2>2
<1> QED BY <1>2, <1>3 DEF Pieces, Numbers

\* A packet that was sent is at the end of the channel or lost.
LEMMA SentFacts ==
  ASSUME NEW T, NEW channel \in Seq(T), NEW packet \in T,
         NEW after \in Sent(channel, packet)
  PROVE  /\ after \in Seq(T)
         /\ \A r \in DOMAIN after :
              \/ r \in DOMAIN channel /\ after[r] = channel[r]
              \/ r = Len(channel) + 1 /\ after[r] = packet
<1>1. CASE after = channel
  BY <1>1
<1>2. CASE after = Append(channel, packet)
  BY <1>2
<1> QED BY <1>1, <1>2 DEF Sent

\* What is left when the first packet was received.
LEMMA ReceivedFacts ==
  ASSUME NEW T, NEW channel \in Seq(T), channel # <<>>
  PROVE  /\ Head(channel) \in T
         /\ Head(channel) = channel[1]
         /\ 1 \in DOMAIN channel
         /\ Tail(channel) \in Seq(T)
         /\ \A r \in DOMAIN Tail(channel) :
              r \in Nat \ {0} /\ r + 1 \in DOMAIN channel
                /\ Tail(channel)[r] = channel[r + 1]
OBVIOUS

\* A round of NACKs has at least one.
LEMMA RoundFacts ==
  ASSUME NEW missing \in SUBSET Numbers, missing # {}
  PROVE  Batches(missing) \in Seq(SUBSET Numbers) /\ Batches(missing) # <<>>
<1> DEFINE n == Cardinality(missing)
           full == n \div NackCapacity
           flushed == LastPacket \in missing /\ n % NackCapacity = 0
           rounds == IF flushed THEN full ELSE full + 1
           Batch(b) == {k \in missing : (Rank(k, missing) - 1) \div NackCapacity = b - 1}
<1>1. n \in Nat \ {0}
  <2>1. IsFiniteSet(Numbers)
    BY FS_Interval, NumbersFacts DEF Numbers
  <2>2. IsFiniteSet(missing)
    BY <2>1, FS_Subset
  <2> QED BY <2>2, FS_CardinalityType, FS_EmptySet
<1>2. NackCapacity \in Nat \ {0}
  BY TransferAssumption
<1>3. full \in Nat /\ (n % NackCapacity = 0 => full > 0)
  <2> HIDE DEF n
  <2> QED BY <1>1, <1>2
<1>4. rounds \in Nat \ {0}
  <2> HIDE DEF full, n
  <2> QED BY <1>3
<1>5. Batches(missing) = [b \in 1..rounds |-> Batch(b)]
  BY DEF Batches
<1>6. \A b \in 1..rounds : Batch(b) \in SUBSET Numbers
  OBVIOUS
<1> HIDE DEF rounds, Batch
<1>7. Batches(missing) \in [1..rounds -> SUBSET Numbers]
  BY <1>5, <1>6
<1>8. Batches(missing) \in Seq(SUBSET Numbers) /\ Len(Batches(missing)) = rounds
  BY <1>7, <1>4
<1> QED BY <1>8, <1>4

----------------------------------------------------------------------------
(* The initial states and the steps.                                       *)

\* The invariant holds at first.
LEMMA InitEstablishes == Init => IInv /\ MarkedWereWritten
<1> SUFFICES ASSUME Init PROVE IInv /\ MarkedWereWritten
  OBVIOUS
<1>1. TypeOK
  BY NumbersFacts, TransferAssumption DEF Init, TypeOK, Numbers
<1>2. Counters
  BY TransferAssumption DEF Init, Counters
<1>3. Handshake /\ FirstMayBeHeaderAck /\ ZeroMeansFinished
  BY DEF Init, Handshake, FirstMayBeHeaderAck, ZeroMeansFinished
<1>4. Finished /\ MarkedWereWritten
  BY DEF Init, Finished, ClientFinished, MarkedWereWritten
<1> QED BY <1>1, <1>2, <1>3, <1>4 DEF IInv

\* A step that sends a packet to the client, and nothing else to it.
LEMMA ToClientTyped ==
  ASSUME TypeOK, NEW n \in 0..LastPacket, to_client' \in Sent(to_client, n)
  PROVE  to_client' \in Seq(0..LastPacket)
BY SentFacts DEF TypeOK

\* The server sends the header.
LEMMA SendHeaderKeeps == ASSUME IInv, SendHeader PROVE IInv'
<1> USE DEF SendHeader, ClientUnchanged
<1>1. TypeOK'
  BY ToClientTyped, NumbersFacts DEF IInv, TypeOK
<1>2. Counters' /\ Handshake'
  BY DEF IInv, Counters, Handshake
<1>3. (FirstMayBeHeaderAck /\ ZeroMeansFinished)'
  BY DEF IInv, Handshake, FirstMayBeHeaderAck, ZeroMeansFinished
<1>4. Finished'
  BY DEF IInv, Finished, ClientFinished, Missing
<1> QED BY <1>1, <1>2, <1>3, <1>4 DEF IInv

\* The server takes the first packet that arrives for the ACK of the header.
LEMMA AwaitAckKeeps == ASSUME IInv, AwaitAck PROVE IInv'
<1> USE DEF AwaitAck, ClientUnchanged
<1>0. /\ to_server \in Seq(Replies) /\ to_server # <<>>
      /\ ClientFinished' = ClientFinished
  BY DEF IInv, TypeOK, ClientFinished
<1>1. TypeOK'
  BY <1>0, ReceivedFacts DEF IInv, TypeOK
<1>2. Counters'
  BY NumbersFacts DEF IInv, Counters
<1>3. Handshake'
  BY DEF IInv, Handshake
<1>4. ASSUME NEW r \in DOMAIN to_server', to_server'[r].zero PROVE ClientFinished
  <2>1. r \in Nat \ {0} /\ r + 1 \in DOMAIN to_server /\ to_server'[r] = to_server[r + 1]
    BY <1>0, ReceivedFacts
  <2> QED BY <2>1, <1>4 DEF IInv, FirstMayBeHeaderAck
<1>5. (FirstMayBeHeaderAck /\ ZeroMeansFinished)'
  BY <1>0, <1>4 DEF FirstMayBeHeaderAck, ZeroMeansFinished
<1>6. Finished'
  BY DEF IInv, Finished, ClientFinished, Missing
<1> QED BY <1>1, <1>2, <1>3, <1>5, <1>6 DEF IInv

\* The server sends the next piece of the file.
LEMMA SendDataKeeps == ASSUME IInv, SendData PROVE IInv'
<1> USE DEF SendData, ClientUnchanged
<1>0. seq + 1 \in 1..LastPacket
  BY NumbersFacts DEF IInv, Counters, TypeOK
<1>1. TypeOK'
  <2>1. to_client' \in Seq(0..LastPacket)
    BY <1>0, ToClientTyped, NumbersFacts DEF IInv
  <2>2. seq' \in 0..LastPacket
    BY <1>0, NumbersFacts
  <2> QED BY <2>1, <2>2 DEF IInv, TypeOK
<1>2. Counters'
  BY NumbersFacts DEF IInv, Counters, TypeOK
<1>3. (Handshake /\ FirstMayBeHeaderAck /\ ZeroMeansFinished)'
  BY DEF IInv, Handshake, FirstMayBeHeaderAck, ZeroMeansFinished, ClientFinished
<1>4. Finished'
  BY DEF IInv, Finished, ClientFinished, Missing
<1> QED BY <1>1, <1>2, <1>3, <1>4 DEF IInv

\* The rest of the packets to the server, when it has received one.
LEMMA RestOfReplies ==
  ASSUME IInv, to_server # <<>>, to_server' = Tail(to_server),
         server \in {"data", "nacks", "resend"}, ClientUnchanged
  PROVE  /\ to_server' \in Seq(Replies)
         /\ \A r \in DOMAIN to_server' : to_server'[r].zero => ClientFinished'
<1>1. to_server \in Seq(Replies)
  BY DEF IInv, TypeOK
<1>2. ClientFinished' = ClientFinished
  BY DEF ClientUnchanged, ClientFinished
<1>3. ASSUME NEW r \in DOMAIN to_server', to_server'[r].zero PROVE ClientFinished
  <2>1. r + 1 \in DOMAIN to_server /\ to_server'[r] = to_server[r + 1]
    BY <1>1, ReceivedFacts
  <2> QED BY <2>1, <1>3 DEF IInv, ZeroMeansFinished
<1>4. to_server' \in Seq(Replies)
  BY <1>1, ReceivedFacts
<1> QED BY <1>2, <1>3, <1>4

\* The server notes the numbers of a NACK.
LEMMA ReceiveNackKeeps == ASSUME IInv, ReceiveNack PROVE IInv'
<1> DEFINE nums == Head(to_server).nums
<1>0. /\ to_server # <<>> /\ to_server' = Tail(to_server) /\ server = "nacks"
      /\ ClientUnchanged /\ UNCHANGED <<to_client, seq>>
      /\ lost_seq' = lost_seq \cup nums /\ server' \in {"nacks", "resend"}
  BY DEF ReceiveNack
<1> USE DEF ClientUnchanged
<1>1. nums \subseteq Numbers
  <2>1. Head(to_server) \in Replies
    BY <1>0, ReceivedFacts DEF IInv, TypeOK
  <2> QED BY <2>1 DEF Replies
<1>2. TypeOK'
  <2>1. lost_seq' \subseteq Numbers
    BY <1>0, <1>1 DEF IInv, TypeOK
  <2>2. to_server' \in Seq(Replies)
    BY <1>0, RestOfReplies
  <2> HIDE DEF nums
  <2> QED BY <1>0, <2>1, <2>2 DEF IInv, TypeOK
<1>3. Counters' /\ Handshake'
  BY <1>0 DEF IInv, Counters, Handshake
<1>4. (FirstMayBeHeaderAck /\ ZeroMeansFinished)'
  BY <1>0, RestOfReplies DEF FirstMayBeHeaderAck, ZeroMeansFinished
<1>5. Finished'
  BY <1>0 DEF IInv, Finished, ClientFinished, Missing
<1> QED BY <1>2, <1>3, <1>4, <1>5 DEF IInv

\* The server takes a '0' for the end, and rightly.
LEMMA ReceiveFinalAckKeeps ==
  ASSUME IInv, ReceiveFinalAck PROVE IInv' /\ ClientFinished
<1> USE DEF ReceiveFinalAck, ClientUnchanged
<1>0. ClientFinished
  <2>1. 1 \in DOMAIN to_server /\ Head(to_server) = to_server[1]
    BY ReceivedFacts DEF IInv, TypeOK
  <2> QED BY <2>1 DEF IInv, ZeroMeansFinished
<1>1. TypeOK'
  BY RestOfReplies DEF IInv, TypeOK
<1>2. Counters' /\ Handshake'
  BY DEF IInv, Counters, Handshake
<1>3. (FirstMayBeHeaderAck /\ ZeroMeansFinished)'
  BY DEF FirstMayBeHeaderAck, ZeroMeansFinished
<1>4. Finished'
  BY <1>0 DEF IInv, Finished, ClientFinished, Missing
<1> QED BY <1>0, <1>1, <1>2, <1>3, <1>4 DEF IInv

\* The server sends a packet again.
LEMMA ResendKeeps == ASSUME IInv, NEW n \in Numbers, Resend(n) PROVE IInv'
<1>0. /\ server = "resend" /\ to_client' \in Sent(to_client, n)
      /\ lost_seq' = lost_seq \ {n} /\ server' \in {"nacks", "resend"}
      /\ UNCHANGED <<to_server, seq>> /\ ClientUnchanged
  BY DEF Resend
<1> USE DEF ClientUnchanged
<1>1. TypeOK'
  <2>1. to_client' \in Seq(0..LastPacket)
    BY <1>0, ToClientTyped, NumbersFacts DEF IInv, Numbers
  <2> QED BY <1>0, <2>1 DEF IInv, TypeOK
<1>2. Counters' /\ Handshake'
  BY <1>0 DEF IInv, Counters, Handshake
<1>3. (FirstMayBeHeaderAck /\ ZeroMeansFinished)'
  BY <1>0 DEF IInv, FirstMayBeHeaderAck, ZeroMeansFinished, ClientFinished
<1>4. Finished'
  BY <1>0 DEF IInv, Finished, ClientFinished, Missing
<1> QED BY <1>1, <1>2, <1>3, <1>4 DEF IInv

\* The client answers the header, and a table of what has arrived is there.
LEMMA ReceiveHeaderKeeps == ASSUME IInv, ReceiveHeader PROVE IInv'
<1> USE DEF ReceiveHeader, ServerUnchanged
<1>0. /\ server = "await" /\ to_server = <<>>
      /\ ~ClientFinished'
  BY DEF IInv, Handshake, ClientFinished
<1>1. Ack \in Replies /\ to_server \in Seq(Replies)
  BY DEF IInv, TypeOK, Ack, Replies
<1>2. TypeOK'
  <2>1. to_client' \in Seq(0..LastPacket)
    BY ReceivedFacts DEF IInv, TypeOK
  <2>2. to_server' \in Seq(Replies)
    BY <1>1, SentFacts
  <2>3. nack' \subseteq Numbers
    OBVIOUS
  <2> QED BY <2>1, <2>2, <2>3 DEF IInv, TypeOK
<1>3. Counters' /\ Handshake'
  BY <1>0 DEF IInv, Counters, Handshake
<1>4. (FirstMayBeHeaderAck /\ ZeroMeansFinished)'
  <2>1. \A r \in DOMAIN to_server' : r \in DOMAIN to_server \/ r = Len(to_server) + 1
    BY <1>1, SentFacts
  <2>2. \A r \in DOMAIN to_server' : r = 1
    BY <2>1, <1>0
  <2> QED BY <2>2, <1>0 DEF FirstMayBeHeaderAck, ZeroMeansFinished
<1>5. Finished'
  BY <1>0 DEF IInv, Finished
<1> QED BY <1>2, <1>3, <1>4, <1>5 DEF IInv

\* The client writes a packet of data, in the first pass or after it.
LEMMA ReceivePieceKeeps ==
  ASSUME IInv, NEW n \in Numbers, ReceiveData(n) \/ ReceiveLost(n) PROVE IInv'
<1>0. /\ client \in {"receive", "repair"} /\ client' \in {"receive", "repair", "scan"}
      /\ to_client # <<>> /\ to_client' = Tail(to_client)
      /\ nack' = nack \cup {n} /\ file' = file \cup {n}
      /\ UNCHANGED <<to_server, batches, acks>> /\ ServerUnchanged
      /\ i' \in -1..FullPackets /\ (client' = "receive" => i' >= 0)
  <2>1. CASE ReceiveData(n)
    BY <2>1, TransferAssumption DEF ReceiveData, IInv, Counters, TypeOK
  <2>2. CASE ReceiveLost(n)
    BY <2>2 DEF ReceiveLost, IInv, TypeOK
  <2> QED BY <2>1, <2>2
<1> USE DEF ServerUnchanged
<1>1. ~ClientFinished /\ ~ClientFinished'
  BY <1>0 DEF ClientFinished
<1>2. TypeOK'
  <2>1. to_client' \in Seq(0..LastPacket)
    BY <1>0, ReceivedFacts DEF IInv, TypeOK
  <2> QED BY <1>0, <2>1 DEF IInv, TypeOK
<1>3. Counters' /\ Handshake'
  BY <1>0 DEF IInv, Counters, Handshake
<1>4. (FirstMayBeHeaderAck /\ ZeroMeansFinished)'
  BY <1>0, <1>1 DEF IInv, FirstMayBeHeaderAck, ZeroMeansFinished
<1>5. Finished'
  BY <1>0, <1>1 DEF IInv, Finished
<1> QED BY <1>2, <1>3, <1>4, <1>5 DEF IInv

\* The client stops waiting for packets.
LEMMA TimeOutKeeps == ASSUME IInv, TimeOut PROVE IInv'
<1> USE DEF TimeOut, ServerUnchanged
<1>1. ~ClientFinished /\ ~ClientFinished'
  BY DEF ClientFinished
<1>2. TypeOK' /\ Counters' /\ Handshake'
  BY DEF IInv, TypeOK, Counters, Handshake
<1>3. (FirstMayBeHeaderAck /\ ZeroMeansFinished)'
  BY <1>1 DEF IInv, FirstMayBeHeaderAck, ZeroMeansFinished
<1>4. Finished'
  BY <1>1 DEF IInv, Finished
<1> QED BY <1>2, <1>3, <1>4 DEF IInv

\* The client finds nothing missing, or has a round of NACKs to send.
LEMMA ScanKeeps == ASSUME IInv, Scan PROVE IInv'
<1> USE DEF Scan, ServerUnchanged
<1>0. ~ClientFinished /\ (ClientFinished' => Missing = {}) /\ Missing' = Missing
  BY DEF ClientFinished, Missing
<1>1. /\ batches' \in Seq(SUBSET Numbers)
      /\ client' = "nack" => batches' # <<>>
  <2>1. Missing \in SUBSET Numbers
    BY DEF Missing
  <2> QED BY <2>1, RoundFacts
<1>2. TypeOK'
  BY <1>1 DEF IInv, TypeOK
<1>3. Counters' /\ Handshake'
  BY <1>1 DEF IInv, Counters, Handshake
<1>4. (FirstMayBeHeaderAck /\ ZeroMeansFinished)'
  BY <1>0 DEF IInv, FirstMayBeHeaderAck, ZeroMeansFinished
<1>5. Finished'
  BY <1>0 DEF IInv, Finished
<1> QED BY <1>2, <1>3, <1>4, <1>5 DEF IInv

\* What the client sends is of the right type, and is a '0' only if the client
\* is finished.
LEMMA RepliesFacts ==
  ASSUME IInv, NEW reply \in Replies, reply.zero => ClientFinished,
         to_server' \in Sent(to_server, reply), ServerUnchanged,
         ClientFinished' = ClientFinished
  PROVE  to_server' \in Seq(Replies) /\ (FirstMayBeHeaderAck /\ ZeroMeansFinished)'
<1>1. to_server \in Seq(Replies)
  BY DEF IInv, TypeOK
<1>2. to_server' \in Seq(Replies)
  BY <1>1, SentFacts
<1>3. ASSUME NEW r \in DOMAIN to_server', to_server'[r].zero, ~ClientFinished
      PROVE  r \in DOMAIN to_server /\ to_server[r].zero
  BY <1>1, <1>3, SentFacts
<1>4. ASSUME server = "await"
      PROVE  \A r \in DOMAIN to_server' :
               to_server'[r].zero => r = 1 \/ ClientFinished
  BY <1>3, <1>4 DEF IInv, FirstMayBeHeaderAck
<1>5. ASSUME server \in {"data", "nacks", "resend"}
      PROVE  \A r \in DOMAIN to_server' : to_server'[r].zero => ClientFinished
  BY <1>3, <1>5 DEF IInv, ZeroMeansFinished
<1>6. FirstMayBeHeaderAck' /\ ZeroMeansFinished'
  BY <1>4, <1>5 DEF FirstMayBeHeaderAck, ZeroMeansFinished, ServerUnchanged
<1> QED BY <1>2, <1>6

\* The client sends a NACK of its round.
LEMMA SendNackKeeps == ASSUME IInv, SendNack PROVE IInv'
<1> USE DEF SendNack, ServerUnchanged
<1>1. /\ Head(batches) \in SUBSET Numbers /\ batches' \in Seq(SUBSET Numbers)
      /\ ~ClientFinished /\ ~ClientFinished' /\ ClientFinished' = ClientFinished
  <2>1. batches \in Seq(SUBSET Numbers) /\ batches # <<>>
    BY DEF IInv, TypeOK, Counters
  <2> QED BY <2>1, ReceivedFacts DEF ClientFinished
<1>2. Nack(Head(batches)) \in Replies /\ ~Nack(Head(batches)).zero
  BY <1>1 DEF Nack, Replies
<1>3. to_server' \in Seq(Replies) /\ (FirstMayBeHeaderAck /\ ZeroMeansFinished)'
  BY <1>1, <1>2, RepliesFacts
<1>4. TypeOK'
  BY <1>1, <1>3 DEF IInv, TypeOK
<1>5. Counters' /\ Handshake'
  BY DEF IInv, Counters, Handshake
<1>6. Finished'
  BY <1>1 DEF IInv, Finished
<1> QED BY <1>3, <1>4, <1>5, <1>6 DEF IInv

\* The client sends a final ACK.
LEMMA SendFinalAckKeeps ==
  ASSUME IInv, SendFinalAck PROVE IInv' /\ ClientFinished' = ClientFinished
<1> USE DEF SendFinalAck, ServerUnchanged
<1>1. ClientFinished /\ ClientFinished'
  BY DEF ClientFinished
<1>2. Ack \in Replies
  BY DEF Ack, Replies
<1>3. to_server' \in Seq(Replies) /\ (FirstMayBeHeaderAck /\ ZeroMeansFinished)'
  BY <1>1, <1>2, RepliesFacts
<1>4. acks \in 0..3 /\ acks' \in 0..4 /\ (client' # "done" => acks' < 4)
  BY DEF IInv, TypeOK, Counters, Enough
<1>5. TypeOK'
  BY <1>3, <1>4 DEF IInv, TypeOK
<1>6. Counters' /\ Handshake'
  BY <1>4 DEF IInv, Counters, Handshake
<1>7. Finished'
  BY <1>1 DEF IInv, Finished, Missing
<1> QED BY <1>1, <1>3, <1>5, <1>6, <1>7 DEF IInv

\* Every step keeps the invariant.
LEMMA NextKeeps == ASSUME IInv, [Next]_vars PROVE IInv'
<1>1. CASE Next
  <2>1. CASE SendHeader \/ AwaitAck \/ SendData \/ ReceiveNack \/ ReceiveFinalAck
    BY <2>1, SendHeaderKeeps, AwaitAckKeeps, SendDataKeeps, ReceiveNackKeeps,
       ReceiveFinalAckKeeps
  <2>2. CASE \E n \in Numbers : Resend(n)
    BY <2>2, ResendKeeps
  <2>3. CASE ReceiveHeader \/ TimeOut \/ Scan \/ SendNack \/ SendFinalAck
    BY <2>3, ReceiveHeaderKeeps, TimeOutKeeps, ScanKeeps, SendNackKeeps,
       SendFinalAckKeeps
  <2>4. CASE \E n \in Numbers : ReceiveData(n) \/ ReceiveLost(n)
    BY <2>4, ReceivePieceKeeps
  <2> QED BY <1>1, <2>1, <2>2, <2>3, <2>4 DEF Next
<1>2. CASE UNCHANGED vars
  BY <1>2 DEF vars, IInv, TypeOK, Counters, Handshake, FirstMayBeHeaderAck,
     ZeroMeansFinished, Finished, ClientFinished, Missing
<1> QED BY <1>1, <1>2

----------------------------------------------------------------------------
(* What the steps do to the transfer.                                      *)

\* If the table begins zeroed, what is marked in it was written into the file.
LEMMA MarkedKept ==
  ASSUME IInv, MarkedWereWritten, HeapIsFresh, [Next]_vars
  PROVE  MarkedWereWritten'
<1> USE DEF MarkedWereWritten
<1>1. ASSUME SendHeader \/ AwaitAck \/ SendData \/ ReceiveNack \/ ReceiveFinalAck
      PROVE  MarkedWereWritten'
  BY <1>1 DEF SendHeader, AwaitAck, SendData, ReceiveNack, ReceiveFinalAck,
     ClientUnchanged
<1>2. ASSUME NEW n \in Numbers, Resend(n) \/ ReceiveData(n) \/ ReceiveLost(n)
      PROVE  MarkedWereWritten'
  BY <1>2 DEF Resend, ReceiveData, ReceiveLost, ClientUnchanged
<1>3. ASSUME TimeOut \/ Scan \/ SendNack \/ SendFinalAck PROVE MarkedWereWritten'
  BY <1>3 DEF TimeOut, Scan, SendNack, SendFinalAck
<1>4. ASSUME ReceiveHeader PROVE MarkedWereWritten'
  BY <1>4 DEF ReceiveHeader
<1>5. ASSUME UNCHANGED vars PROVE MarkedWereWritten'
  BY <1>5 DEF vars
<1> QED BY <1>1, <1>2, <1>3, <1>4, <1>5 DEF Next

\* A step that leaves the client and the end of the server alone is a stutter
\* of the transfer.
LEMMA Stutter ==
  ASSUME UNCHANGED <<client, file>>, (server = "done")' = (server = "done")
  PROVE  UNCHANGED Transfer!transferVars
BY DEF Transfer!transferVars, ClientFinished

\* Writing a packet delivers its piece; the number after the last piece of a
\* file without remainder has none.
LEMMA DeliverStep ==
  ASSUME NEW n \in Numbers, ReceiveData(n) \/ ReceiveLost(n)
  PROVE  [Transfer!Next]_(Transfer!transferVars)
<1>1. /\ file' = file \cup {n} /\ server' = server
      /\ ~ClientFinished /\ ClientFinished' = ClientFinished
  BY DEF ReceiveData, ReceiveLost, ServerUnchanged, ClientFinished
<1>2. Pieces' = Pieces
  BY DEF Pieces, LastPiece, LastPacket
<1>3. CASE n \in Pieces
  <2>1. (file \cap Pieces)' = (file \cap Pieces) \cup {n}
    BY <1>1, <1>2, <1>3
  <2>2. Transfer!Deliver(n)
    BY <1>1, <2>1 DEF Transfer!Deliver
  <2> QED BY <2>2, <1>3 DEF Transfer!Next
<1>4. CASE n \notin Pieces
  <2>1. (file \cap Pieces)' = (file \cap Pieces)
    BY <1>1, <1>2, <1>4
  <2> QED BY <1>1, <2>1 DEF Transfer!transferVars
<1> QED BY <1>3, <1>4

\* Every step is one of the transfer or leaves it alone.
LEMMA StepImplementsTransfer ==
  ASSUME IInv, MarkedWereWritten, [Next]_vars
  PROVE  [Transfer!Next]_(Transfer!transferVars)
<1>1. ASSUME SendHeader \/ AwaitAck \/ SendData \/ ReceiveNack
      PROVE  UNCHANGED Transfer!transferVars
  <2>1. UNCHANGED <<client, file>> /\ server # "done" /\ server' # "done"
    BY <1>1 DEF SendHeader, AwaitAck, SendData, ReceiveNack, ClientUnchanged
  <2> QED BY <2>1, Stutter
<1>2. ASSUME NEW n \in Numbers, Resend(n) PROVE UNCHANGED Transfer!transferVars
  <2>1. UNCHANGED <<client, file>> /\ server # "done" /\ server' # "done"
    BY <1>2 DEF Resend, ClientUnchanged
  <2> QED BY <2>1, Stutter
<1>3. ASSUME ReceiveFinalAck PROVE Transfer!SenderFinishes
  <2>1. ClientFinished
    BY <1>3, ReceiveFinalAckKeeps
  <2>2. UNCHANGED <<client, file>> /\ server' = "done"
    BY <1>3 DEF ReceiveFinalAck, ClientUnchanged
  <2> QED BY <2>1, <2>2 DEF Transfer!SenderFinishes, ClientFinished
<1>4. ASSUME ReceiveHeader \/ TimeOut \/ SendNack \/ SendFinalAck
      PROVE  UNCHANGED Transfer!transferVars
  <2>1. UNCHANGED <<file, server>> /\ ClientFinished' = ClientFinished
    BY <1>4 DEF ReceiveHeader, TimeOut, SendNack, SendFinalAck, ServerUnchanged,
       ClientFinished
  <2> QED BY <2>1 DEF Transfer!transferVars
<1>5. ASSUME Scan, Missing # {} PROVE UNCHANGED Transfer!transferVars
  BY <1>5 DEF Scan, ServerUnchanged, ClientFinished, Transfer!transferVars
<1>6. ASSUME Scan, Missing = {} PROVE Transfer!ReceiverFinishes
  <2>1. Numbers \subseteq file
    BY <1>6 DEF Missing, MarkedWereWritten
  <2>2. file \cap Pieces = Pieces
    BY <2>1, NumbersFacts
  <2>3. UNCHANGED <<file, server>> /\ ClientFinished'
    BY <1>6 DEF Scan, ServerUnchanged, ClientFinished
  <2> QED BY <2>2, <2>3 DEF Transfer!ReceiverFinishes, ClientFinished
<1>7. ASSUME UNCHANGED vars PROVE UNCHANGED Transfer!transferVars
  BY <1>7, Stutter DEF vars
<1> QED BY <1>1, <1>2, <1>3, <1>4, <1>5, <1>6, <1>7, DeliverStep DEF Next, Transfer!Next

----------------------------------------------------------------------------
(* The theorems.                                                           *)

\* The inductive invariant holds in every reachable state.
THEOREM TransferInvariance == Spec => []IInv
<1>1. Init => IInv
  BY InitEstablishes
<1>2. IInv /\ [Next]_vars => IInv'
  BY NextKeeps
<1> QED BY <1>1, <1>2, PTL DEF Spec

\* Both programs and the link keep their types.
THEOREM TransferTypeCorrect == Spec => []TypeOK
<1>1. IInv => TypeOK
  BY DEF IInv
<1> QED BY <1>1, TransferInvariance, PTL

\* The server never takes the ACK of the header, or anything else but a final
\* ACK, for the end of the transfer (server_final_1.c, 248), although both
\* look the same to it and it reads no sequence number in them.
THEOREM HeaderAckNeverEndsTransfer == Spec => []ZeroMeansFinished
<1>1. IInv => ZeroMeansFinished
  BY DEF IInv
<1> QED BY <1>1, TransferInvariance, PTL

\* If the heap is zero where the client allocates its table, what is marked in
\* the table was written into the file.
THEOREM TableHonest ==
  ASSUME HeapIsFresh PROVE Spec => []MarkedWereWritten
<1>1. Init => MarkedWereWritten
  BY InitEstablishes
<1>2. IInv /\ MarkedWereWritten /\ [Next]_vars => MarkedWereWritten'
  BY MarkedKept
<1> QED BY <1>1, <1>2, TransferInvariance, PTL DEF Spec

\* Then the protocol is a file transfer: the client ends with the whole file,
\* and the server only after it.
THEOREM TransferImplemented ==
  ASSUME HeapIsFresh PROVE Spec => ImplementsTransfer
<1>1. Init => Transfer!Init
  BY DEF Init, Transfer!Init, ClientFinished
<1>2. IInv /\ MarkedWereWritten /\ [Next]_vars => [Transfer!Next]_(Transfer!transferVars)
  BY StepImplementsTransfer
<1> QED BY <1>1, <1>2, TransferInvariance, TableHonest, PTL
        DEF Spec, ImplementsTransfer, Transfer!Spec

\* And the file a finished client leaves is the one that was sent.
THEOREM FileNotCorrupted ==
  ASSUME HeapIsFresh PROVE Spec => []NotCorrupted
<1>1. IInv /\ MarkedWereWritten => NotCorrupted
  BY NumbersFacts DEF IInv, Finished, ClientFinished, Missing, MarkedWereWritten, NotCorrupted
<1> QED BY <1>1, TransferInvariance, TableHonest, PTL
=============================================================================
