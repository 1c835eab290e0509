------------------------ MODULE ReliableFtpProperties ------------------------
(***************************************************************************)
(* What a transfer must satisfy, and what it promises and does not keep.   *)
(***************************************************************************)
EXTENDS ReliableFtp

Replies == [zero : BOOLEAN, nums : SUBSET Numbers]

\* Type invariant of both programs and of the link.
TypeOK ==
  /\ to_client \in Seq(0..LastPacket)
  /\ to_server \in Seq(Replies)
  /\ server \in {"header", "await", "data", "nacks", "resend", "done"}
  /\ seq \in 0..LastPacket
  /\ lost_seq \subseteq Numbers
  /\ client \in {"header", "receive", "scan", "nack", "repair", "ack", "done"}
  /\ i \in -1..FullPackets
  /\ nack \subseteq Numbers
  /\ file \subseteq Numbers
  /\ batches \in Seq(SUBSET Numbers)
  /\ acks \in 0..4

ClientFinished == client \in {"ack", "done"}

\* A '0' that reaches the loop that collects NACKs is the final ACK, never the
\* ACK of the header: both look the same to the server.
ZeroMeansFinished ==
  server \in {"data", "nacks", "resend"}
    => \A r \in DOMAIN to_server : to_server[r].zero => ClientFinished

Transfer == INSTANCE FileTransfer
  WITH File <- Pieces, held <- file \cap Pieces,
       receiverFinished <- ClientFinished, senderFinished <- server = "done"

\* The protocol is a file transfer.
ImplementsTransfer == Transfer!Spec

\* Once the client knows the file size it comes to its end, whatever the link
\* loses, as long as one NACK holds every number: it goes on asking, and what it
\* asks for is sent again.
ClientEnds == client = "receive" ~> client = "done"

\* The file that a finished client leaves is the one that was sent ("to ensure
\* that the files were not corrupted", doc, 29).
NotCorrupted == client = "done" => Pieces \subseteq file
=============================================================================
