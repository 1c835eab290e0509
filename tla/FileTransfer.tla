---------------------------- MODULE FileTransfer ----------------------------
(***************************************************************************)
(* What a file transfer promises: the receiver is finished only when it    *)
(* holds every piece of the file, and the sender only after the receiver.  *)
(***************************************************************************)
CONSTANT File  \* the pieces the file consists of

VARIABLES held, receiverFinished, senderFinished

transferVars == <<held, receiverFinished, senderFinished>>

Init ==
  /\ held = {}
  /\ receiverFinished = FALSE
  /\ senderFinished = FALSE

Deliver(piece) ==
  /\ ~receiverFinished
  /\ held' = held \cup {piece}
  /\ UNCHANGED <<receiverFinished, senderFinished>>

ReceiverFinishes ==
  /\ held = File
  /\ receiverFinished' = TRUE
  /\ UNCHANGED <<held, senderFinished>>

SenderFinishes ==
  /\ receiverFinished
  /\ senderFinished' = TRUE
  /\ UNCHANGED <<held, receiverFinished>>

Next == (\E piece \in File : Deliver(piece)) \/ ReceiverFinishes \/ SenderFinishes

Spec == Init /\ [][Next]_transferVars
=============================================================================
