CONSTANTS
  n1 = n1
  n2 = n2
  n3 = n3
  Nil = Nil
  NodeId = {n1, n2, n3}
  Trials <- HastyTrial
SPECIFICATION HarnessSpec
SYMMETRY Symmetry
CHECK_DEADLOCK FALSE
INVARIANTS
  OutboundIsDurable
