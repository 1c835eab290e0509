SPECIFICATION Spec
CONSTANTS
  Elems = {e1, e2, e3}
  Objs = {a, b}
  Anchor = anchor
  NULL = null
INVARIANTS
  LoopsSeeEveryElement
PROPERTIES
  ImplementsSequence
