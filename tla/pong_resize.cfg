SPECIFICATION FairSpec
CONSTANTS
  Side = 4
  Start = 6
  PaddleTop = 24
  PaddleLeft = 2
  PaddleRight = 6
  Widths = {10, 24}
  Heights = {12, 28}
  MouseXs = {0, 6, 12}
  UnsignedRange = 100
INVARIANTS
  NearWindow
PROPERTIES
  BallReturns
CHECK_DEADLOCK FALSE
