------------------------- MODULE PongGameProperties -------------------------
(***************************************************************************)
(* What the ball must satisfy.                                             *)
(***************************************************************************)
EXTENDS PongGame

\* Type invariant of the game.
TypeOK ==
  /\ window \in Windows
  /\ left \in Int /\ top \in Int
  /\ Xspeed \in {5, delta, -delta}
  /\ Yspeed \in {5, delta, -delta}
  /\ mouse_x \in MouseXs \cup {0}
  /\ moved \in BOOLEAN
  /\ running \in BOOLEAN

\* The ball stays within sight of the windows the game has had: the narrowest,
\* the widest and the highest bound where it can be.  A ball that touches a side
\* wall, or is outside of one since the window became narrower, is not tested
\* against top and bottom; it moves away from that wall by single steps, while
\* its first flight may go on downwards in steps of 5.
StaysNear(narrow, wide, high) ==
  LET untested == wide - narrow + 5
  IN /\ left \in 0..(wide + 4 - Side)
     /\ top >= -untested
     /\ Bottom <= high + 4 + 5 * untested

NearWindow ==
  \A narrow, wide \in Widths, high \in Heights :
    /\ \A width \in Widths : width \in narrow..wide
    /\ \A height \in Heights : height <= high
    /\ Start + Side < wide /\ Start + Side < high
    => StaysNear(narrow, wide, high)

InWindow == left < window.right /\ Right > 0 /\ top < window.bottom /\ Bottom > 0

\* A ball that a smaller window has left outside comes back, if the window then
\* keeps its size and the game goes on: it is turned towards the inside, not
\* mirrored.
BallReturns ==
  <>[][window' = window]_vars /\ []running => []<>InWindow
=============================================================================
