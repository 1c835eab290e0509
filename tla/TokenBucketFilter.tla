------------------------- MODULE TokenBucketFilter -------------------------
(***************************************************************************)
(* What a token bucket promises, whatever threads it is built from: packets *)
(* wait in order of arrival, tokens accumulate one at a time up to Depth,   *)
(* and the packet at the head is released only against the tokens it asks   *)
(* for, which are spent by its release.  At most one packet is released by  *)
(* an arrival or by a token; nothing says that it must be.                  *)
(***************************************************************************)
EXTENDS Integers, Sequences

CONSTANTS Depth,  \* the number of tokens the bucket holds
          Sizes,  \* the sizes packets may have
          Last    \* the number of the last packet

VARIABLES credit,   \* the tokens in the bucket
          arrived,  \* the number of packets that arrived
          waiting,  \* those that wait, as records [serial_number, tokens_required]
          released  \* the set of the serial numbers released

filterVars == <<credit, arrived, waiting, released>>

Init ==
  /\ credit = 0
  /\ arrived = 0
  /\ waiting = <<>>
  /\ released = {}

\* With the packets of q waiting and c tokens, the head may be released.
Settle(q, c) ==
  \/ /\ waiting' = q
     /\ credit' = c
     /\ UNCHANGED released
  \/ /\ q # <<>>
     /\ Head(q).tokens_required <= c
     /\ waiting' = Tail(q)
     /\ credit' = c - Head(q).tokens_required
     /\ released' = released \cup {Head(q).serial_number}

\* A packet no bucket could ever pay for is refused, the others wait.
Arrive(size) ==
  /\ arrived < Last
  /\ arrived' = arrived + 1
  /\ \/ /\ size <= Depth
        /\ Settle(Append(waiting, [serial_number |-> arrived + 1,
                                   tokens_required |-> size]), credit)
     \/ /\ size > Depth
        /\ UNCHANGED <<credit, waiting, released>>

\* A token is lost only when the bucket is full.
AddToken ==
  /\ \/ credit < Depth /\ Settle(waiting, credit + 1)
     \/ credit = Depth /\ Settle(waiting, credit)
  /\ UNCHANGED arrived

Next == AddToken \/ \E size \in Sizes : Arrive(size)

Spec == Init /\ [][Next]_filterVars
=============================================================================
