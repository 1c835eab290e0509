------------------------------ MODULE PongGame ------------------------------
(***************************************************************************)
(* The callbacks of "Ping Pong Multiplayer Game": Timer moves the ball,    *)
(* Render tests it against the window and the player's paddle and turns    *)
(* it, MouseMotion moves the paddle and reshape sets the window.           *)
(*                                                                         *)
(* GLUT calls them one at a time.  A round of its loop handles the events, *)
(* the timers that were due when it began, and then calls the idle         *)
(* function: Timer sets itself anew, so between two calls of it there is a *)
(* call of Render.                                                         *)
(*                                                                         *)
(* A step of the ball is half its speed: lengths are in half pixels, and   *)
(* what the floats hold is exact.                                          *)
(***************************************************************************)
EXTENDS Integers

CONSTANTS Side,           \* the ball's width and height: 40
          Start,          \* where it starts, on both axes: 200
          PaddleTop,      \* where the player's paddle is: 980
          PaddleLeft,     \* how far it reaches to both sides of the mouse:
          PaddleRight,    \* 40 and 80
          Widths,         \* the sizes the window can have: at first 1500 by
          Heights,        \* 1000
          MouseXs,        \* the positions the mouse can have in it
          UnsignedRange   \* the values of unsigned int, in half pixels: 2^33

\* The window is never so small that the ball fills it: in a narrower one it
\* touches a side wall in every test, and is never turned at top and bottom.
ASSUME GameAssumption ==
  /\ Side \in Nat \ {0} /\ Start \in Nat \ {0}
  /\ PaddleTop \in Nat /\ PaddleLeft \in Nat /\ PaddleRight \in Nat
  /\ PaddleTop > Side
  /\ Widths \subseteq Nat /\ \A width \in Widths : width >= Side + 2
  /\ Heights \subseteq Nat /\ \A height \in Heights : height > Side
  /\ MouseXs \subseteq Nat
  /\ UnsignedRange \in Nat \ {0}

VARIABLES
  window,   \* WINDOW_WIDTH and WINDOW_HEIGHT, which Render copies to wall
  left,     \* of the ball; its right side is always Side to the right
  top,      \* of the ball; its bottom is always Side below
  Xspeed, Yspeed,
  mouse_x,
  moved,    \* whether Timer was called since the last call of Render
  running   \* FALSE after the key that ends the game

vars == <<window, left, top, Xspeed, Yspeed, mouse_x, moved, running>>

Windows == [right : Widths, bottom : Heights]

Right == left + Side
Bottom == top + Side

delta == 1

Init ==
  /\ window \in Windows
  /\ left = Start
  /\ top = Start
  /\ Xspeed = 5
  /\ Yspeed = 5
  /\ mouse_x = 0
  /\ moved = FALSE
  /\ running = TRUE

----------------------------------------------------------------------------
(* The events.                                                             *)

BallUnchanged == UNCHANGED <<left, top, Xspeed, Yspeed, moved>>

reshape ==
  /\ running
  /\ window' \in Windows
  /\ UNCHANGED <<mouse_x, running>>
  /\ BallUnchanged

MouseMotion ==
  /\ running
  /\ mouse_x' \in MouseXs
  /\ UNCHANGED <<window, running>>
  /\ BallUnchanged

keyboard ==
  /\ running
  /\ running' = FALSE
  /\ UNCHANGED <<window, mouse_x>>
  /\ BallUnchanged

----------------------------------------------------------------------------
(* The ball.                                                               *)

Timer ==
  /\ running
  /\ ~moved
  /\ left' = left + Xspeed
  /\ top' = top + Yspeed
  /\ moved' = TRUE
  /\ UNCHANGED <<window, Xspeed, Yspeed, mouse_x, running>>

\* The first side of the window that the ball touches, in the order of the
\* tests: a ball in a corner only touches the left or the right one.
TouchedExactly ==
  IF Right = window.right THEN "right" ELSE IF left = 0 THEN "left"
  ELSE IF top = 0 THEN "top" ELSE IF Bottom = window.bottom THEN "bottom"
  ELSE "none"
Test_Ball_Wall ==
  IF Right >= window.right THEN "right" ELSE IF left <= 0 THEN "left"
  ELSE IF top <= 0 THEN "top" ELSE IF Bottom >= window.bottom THEN "bottom"
  ELSE "none"

\* The paddle's left side is computed in unsigned int: it wraps for a mouse
\* nearer to the edge than half the paddle.
Test_Ball_Player ==
  /\ Bottom >= PaddleTop
  /\ left >= (mouse_x - PaddleLeft) % UnsignedRange
  /\ Right <= mouse_x + PaddleRight

\* The speed after a wall was touched: delta towards the inside, whatever it
\* was before.
Mirrored(speed, at, low, high) == IF at \in {low, high} THEN -speed ELSE speed
Turned(speed, at, low, high) ==
  IF at = high THEN -delta ELSE IF at = low THEN delta ELSE speed

\* The exchange with the other player only moves the paddle that is drawn for
\* him, which no test reads.
Render ==
  /\ running
  /\ Xspeed' = Turned(Xspeed, Test_Ball_Wall, "left", "right")
  /\ Yspeed' = IF Test_Ball_Player THEN -delta
               ELSE Turned(Yspeed, Test_Ball_Wall, "top", "bottom")
  /\ moved' = FALSE
  /\ UNCHANGED <<window, left, top, mouse_x, running>>

Next == reshape \/ MouseMotion \/ keyboard \/ Timer \/ Render

Spec == Init /\ [][Next]_vars

\* GLUT's loop runs on and its timers expire.
FairSpec == Spec /\ WF_vars(Timer) /\ WF_vars(Render)
=============================================================================
