--------------------------- MODULE PongGameProofs ---------------------------
(***************************************************************************)
(* How far the ball can get, for every ball, paddle and set of windows.    *)
(***************************************************************************)
EXTENDS PongGameProperties, TLAPS

----------------------------------------------------------------------------
(* The inductive invariant, for windows between narrow and wide that are   *)
(* at most as high as high.                                                *)

Fits(narrow, wide, high) ==
  /\ narrow \in Widths /\ wide \in Widths /\ high \in Heights
  /\ \A width \in Widths : width \in narrow..wide
  /\ \A height \in Heights : height <= high
  /\ Start + Side < wide /\ Start + Side < high

\* For how many more steps a ball that goes to the left at delta can touch the
\* right wall, at most.
Touching(narrow) == IF Right >= narrow THEN Right - narrow + 1 ELSE 0

\* For how many it can at the most.
Longest(narrow, wide) == wide - narrow + 5

\* Across: Render leaves no ball that goes on outwards.
Across(wide) ==
  /\ left >= 0
  /\ Right <= wide + 4
  /\ ~moved /\ Xspeed # -delta => Right < wide
  /\ ~moved /\ Xspeed = -delta => left > 0
  /\ moved /\ Xspeed # -delta => left > 0 /\ Right - Xspeed < wide

\* Upwards: above the window the ball goes on up only while it touches a side
\* wall, and it cannot for longer than it takes to leave that wall.
Upwards(narrow, wide) ==
  /\ top >= -Longest(narrow, wide)
  /\ ~moved /\ top <= 0 /\ Yspeed = -delta
       => \/ /\ Xspeed = -delta /\ Right >= narrow
             /\ top - Touching(narrow) >= -Longest(narrow, wide)
          \/ Xspeed = delta /\ left = 0 /\ top > -Longest(narrow, wide)
  /\ moved /\ top < 0 /\ Yspeed = -delta
       => \/ /\ Xspeed = -delta /\ Right >= narrow - 1
             /\ top - Touching(narrow) >= -Longest(narrow, wide)
          \/ Xspeed = delta /\ left = 1

\* Downwards, likewise, with Yspeed of the first flight or of a later one.
Lowest(narrow, wide, high) == high + 4 + 5 * Longest(narrow, wide)

SinksFor(steps, limit) ==
  IF Yspeed = 5 THEN Bottom + 5 * steps <= limit ELSE Bottom + steps <= limit

Downwards(narrow, wide, high) ==
  LET limit == Lowest(narrow, wide, high)
  IN /\ Bottom <= limit
     /\ ~moved /\ Bottom >= high /\ Yspeed # -delta
          => \/ /\ Xspeed = -delta /\ Right >= narrow
                /\ SinksFor(Touching(narrow), limit)
             \/ Xspeed = delta /\ left = 0 /\ SinksFor(1, limit)
     /\ moved /\ Bottom - Yspeed >= high /\ Yspeed # -delta
          => \/ /\ Xspeed = -delta /\ Right >= narrow - 1
                /\ SinksFor(Touching(narrow), limit)
             \/ Xspeed = delta /\ left = 1

IInv(narrow, wide, high) ==
  /\ TypeOK
  /\ Across(wide)
  /\ Upwards(narrow, wide)
  /\ Downwards(narrow, wide, high)

----------------------------------------------------------------------------
(* Types.                                                                  *)

\* The speeds are those of the first flight or delta, whatever is touched.
THEOREM GameTypeCorrect == Spec => []TypeOK
<1>1. Init => TypeOK
  <2>1. Init => /\ left \in Int /\ top \in Int
                /\ Xspeed \in {5, delta, -delta} /\ Yspeed \in {5, delta, -delta}
    BY GameAssumption DEF Init
  <2>2. Init => moved \in BOOLEAN /\ running \in BOOLEAN
    BY DEF Init
  <2>3. Init => window \in Windows /\ mouse_x \in MouseXs \cup {0}
    BY DEF Init
  <2>4. QED  BY <2>1, <2>2, <2>3 DEF TypeOK
<1>2. TypeOK /\ [Next]_vars => TypeOK'
  <2> SUFFICES ASSUME TypeOK, [Next]_vars PROVE TypeOK'
    OBVIOUS
  <2>1. CASE reshape \/ MouseMotion \/ keyboard
    BY <2>1 DEF TypeOK, reshape, MouseMotion, keyboard, BallUnchanged
  <2>2. CASE Timer
    BY <2>2 DEF TypeOK, Timer, delta
  <2>3. CASE Render
    BY <2>3 DEF TypeOK, Render, Turned, delta
  <2>4. CASE UNCHANGED vars
    BY <2>4 DEF TypeOK, vars
  <2>5. QED  BY <2>1, <2>2, <2>3, <2>4 DEF Next
<1>3. QED  BY <1>1, <1>2, PTL DEF Spec

----------------------------------------------------------------------------
(* The bound.                                                              *)

\* What is known of the sizes.
LEMMA SizesFacts ==
  ASSUME NEW narrow, NEW wide, NEW high, Fits(narrow, wide, high), TypeOK
  PROVE  /\ narrow \in Nat /\ wide \in Nat /\ high \in Nat /\ Side \in Nat /\ Start \in Nat
         /\ Side > 0 /\ Start > 0
         /\ narrow >= Side + 2 /\ narrow <= wide /\ high > Side
         /\ window.right \in narrow..wide
         /\ window.bottom \in Nat /\ window.bottom > Side /\ window.bottom <= high
         /\ PaddleTop \in Nat /\ PaddleTop > Side
<1>1. window.right \in Widths /\ window.bottom \in Heights
  BY DEF TypeOK, Windows
<1>2. /\ narrow \in Widths /\ wide \in Widths /\ high \in Heights
      /\ \A width \in Widths : width \in Nat /\ width >= Side + 2 /\ width \in narrow..wide
      /\ \A height \in Heights : height \in Nat /\ height > Side /\ height <= high
  BY GameAssumption DEF Fits
<1>3. /\ Side \in Nat /\ Start \in Nat /\ PaddleTop \in Nat
      /\ Side > 0 /\ Start > 0 /\ PaddleTop > Side
  BY GameAssumption
<1>4. QED  BY <1>1, <1>2, <1>3

\* At first the ball is inside of the widest and highest window.
LEMMA StartsNear ==
  ASSUME NEW narrow, NEW wide, NEW high, Fits(narrow, wide, high), Init, TypeOK
  PROVE  IInv(narrow, wide, high)
<1>1. /\ left = Start /\ top = Start /\ Xspeed = 5 /\ Yspeed = 5 /\ moved = FALSE
      /\ Start + Side < wide /\ Start + Side < high
  BY DEF Init, Fits
<1>2. Across(wide)
  BY <1>1, SizesFacts DEF Across, Right, delta
<1>3. Upwards(narrow, wide)
  BY <1>1, SizesFacts DEF Upwards, Longest, delta
<1>4. Downwards(narrow, wide, high)
  BY <1>1, SizesFacts DEF Downwards, Lowest, Longest, Bottom, delta
<1>5. QED  BY <1>2, <1>3, <1>4 DEF IInv

\* A step of the ball uses up one of the steps for which it can touch the wall.
LEMMA TimerKeepsNear ==
  ASSUME NEW narrow, NEW wide, NEW high, Fits(narrow, wide, high),
         IInv(narrow, wide, high), Timer
  PROVE  Across(wide)' /\ Upwards(narrow, wide)' /\ Downwards(narrow, wide, high)'
<1>1. /\ left \in Int /\ top \in Int /\ Xspeed \in {5, 1, -1} /\ Yspeed \in {5, 1, -1}
      /\ Across(wide) /\ Upwards(narrow, wide) /\ Downwards(narrow, wide, high) /\ TypeOK
  BY DEF IInv, TypeOK, delta
<1>2. /\ moved = FALSE /\ moved' = TRUE /\ left' = left + Xspeed /\ top' = top + Yspeed
      /\ Xspeed' = Xspeed /\ Yspeed' = Yspeed
  BY <1>1 DEF Timer, TypeOK
<1>3. Across(wide)'
  BY <1>1, <1>2, SizesFacts DEF Across, Right, delta
<1>4. Upwards(narrow, wide)'
  BY <1>1, <1>2, SizesFacts DEF Across, Upwards, Longest, Touching, Right, delta
<1>5. Downwards(narrow, wide, high)'
  BY <1>1, <1>2, SizesFacts
     DEF Across, Downwards, Lowest, Longest, SinksFor, Touching, Right, Bottom, delta
<1>6. QED  BY <1>3, <1>4, <1>5

\* Render turns the ball inwards at the wall it touches.
LEMMA RenderKeepsNear ==
  ASSUME NEW narrow, NEW wide, NEW high, Fits(narrow, wide, high),
         IInv(narrow, wide, high), Render
  PROVE  Across(wide)' /\ Upwards(narrow, wide)' /\ Downwards(narrow, wide, high)'
<1>1. /\ left \in Int /\ top \in Int /\ Xspeed \in {5, 1, -1} /\ Yspeed \in {5, 1, -1}
      /\ Across(wide) /\ Upwards(narrow, wide) /\ Downwards(narrow, wide, high) /\ TypeOK
  BY DEF IInv, TypeOK, delta
<1>2. /\ moved' = FALSE /\ left' = left /\ top' = top
      /\ Xspeed' = IF Right >= window.right THEN -1 ELSE IF left <= 0 THEN 1 ELSE Xspeed
  BY DEF Render, Turned, Test_Ball_Wall, delta
<1>3. \/ Right >= window.right
      \/ left <= 0
      \/ top <= 0 /\ Yspeed' = 1
      \/ top > 0 /\ Bottom >= window.bottom /\ Yspeed' = -1
      \/ top > 0 /\ Bottom < window.bottom
  BY <1>1, SizesFacts DEF Render, Turned, Test_Ball_Wall, Test_Ball_Player, delta, Bottom, Right
<1>4. \/ Yspeed' = Yspeed
      \/ Yspeed' = 1 /\ top <= 0
      \/ Yspeed' = -1 /\ Bottom > Side
  <2>1. CASE Test_Ball_Player
    BY <1>1, <2>1, SizesFacts DEF Render, Test_Ball_Player, delta, Bottom
  <2>2. CASE ~Test_Ball_Player
    BY <1>1, <2>2, SizesFacts DEF Render, Turned, Test_Ball_Wall, delta, Bottom, Right
  <2>3. QED  BY <2>1, <2>2
<1>5. Across(wide)'
  BY <1>1, <1>2, SizesFacts DEF Across, Right, delta
<1>6. Upwards(narrow, wide)'
  BY <1>1, <1>2, <1>3, <1>4, SizesFacts
     DEF Across, Upwards, Longest, Touching, Right, Bottom, delta
<1>7. Downwards(narrow, wide, high)'
  BY <1>1, <1>2, <1>3, <1>4, SizesFacts
     DEF Across, Downwards, Lowest, Longest, SinksFor, Touching, Right, Bottom, delta
<1>8. QED  BY <1>5, <1>6, <1>7

\* The other steps leave the ball where it is.
LEMMA OthersKeepNear ==
  ASSUME NEW narrow, NEW wide, NEW high,
         IInv(narrow, wide, high), UNCHANGED <<left, top, Xspeed, Yspeed, moved>>
  PROVE  Across(wide)' /\ Upwards(narrow, wide)' /\ Downwards(narrow, wide, high)'
BY DEF IInv, Across, Upwards, Downwards, Lowest, Longest, SinksFor, Touching, Right, Bottom

\* The ball stays near the windows, whatever their sizes and whenever they
\* change, as long as none is so small that the ball fills it.
THEOREM BallStaysNear == Spec => []NearWindow
<1> DEFINE Near ==
      \A narrow, wide \in Widths, high \in Heights :
        Fits(narrow, wide, high) => IInv(narrow, wide, high)
<1>1. Init /\ TypeOK => Near
  BY StartsNear
<1>2. Near /\ TypeOK' /\ [Next]_vars => Near'
  <2> SUFFICES ASSUME Near, TypeOK', [Next]_vars,
                      NEW narrow \in Widths, NEW wide \in Widths, NEW high \in Heights,
                      Fits(narrow, wide, high)
               PROVE  IInv(narrow, wide, high)'
    BY DEF Fits
  <2>1. IInv(narrow, wide, high)
    OBVIOUS
  <2>2. CASE Timer
    BY <2>1, <2>2, TimerKeepsNear DEF IInv
  <2>3. CASE Render
    BY <2>1, <2>3, RenderKeepsNear DEF IInv
  <2>4. CASE UNCHANGED <<left, top, Xspeed, Yspeed, moved>>
    BY <2>1, <2>4, OthersKeepNear DEF IInv
  <2>5. QED
    BY <2>2, <2>3, <2>4 DEF Next, vars, reshape, MouseMotion, keyboard, BallUnchanged
<1>3. Near => NearWindow
  <2> SUFFICES ASSUME Near,
                      NEW narrow \in Widths, NEW wide \in Widths, NEW high \in Heights,
                      Fits(narrow, wide, high)
               PROVE  StaysNear(narrow, wide, high)
    BY DEF NearWindow, Fits
  <2>1. IInv(narrow, wide, high)
    OBVIOUS
  <2>2. TypeOK
    BY <2>1 DEF IInv
  <2>3. QED
    BY <2>1, <2>2, SizesFacts
       DEF IInv, TypeOK, Across, Upwards, Downwards, StaysNear, Lowest, Longest, Right, Bottom
<1>4. QED  BY <1>1, <1>2, <1>3, GameTypeCorrect, PTL DEF Spec
=============================================================================
