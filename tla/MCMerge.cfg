CONSTANTS
  n1 = n1
  n2 = n2
  n3 = n3
  Nil = Nil
  NodeId = {n1, n2, n3}
  Boot <- FoundedBoot
  Past <- FoundedPast
  VoterChanges <- None
  NonVoterChanges <- None
  Creations <- None
  Batching = "free"
  Splitting = FALSE
  Duplication = FALSE
  Crashing = {}
  Heartbeats = FALSE
  Snapshots = FALSE
  MaxTerm = 3
  MaxIndex = 4
  MaxInFlight = 2
SPECIFICATION Spec
SYMMETRY Symmetry
CHECK_DEADLOCK FALSE
INVARIANTS
  AppendAnchorContained
