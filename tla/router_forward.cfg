SPECIFICATION Spec
CONSTANTS
  Ifnames = {"eth1", "eth2"}
  Ttls = {1, 2, 255}
  TtlRange = 256
  Handles = 2
  Last = 2
  StackIsFresh = FALSE
INVARIANTS
  HandlesReturned
PROPERTIES
  ImplementsForwarding
CHECK_DEADLOCK FALSE
