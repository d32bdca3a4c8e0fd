CONSTANTS
  n1 = n1
  n2 = n2
  n3 = n3
  Nil = Nil
  NodeId = {n1, n2, n3}
  Boot <- FoundedBoot
  Past <- FoundedPast
  VoterChanges <- None
  NonVoterChanges <- None
  Creations <- None
  Batching = "within term"
  Splitting = FALSE
  Duplication = FALSE
  Crashing = {n1, n2, n3}
  Heartbeats = FALSE
  Snapshots = FALSE
  MaxTerm = 3
  MaxIndex = 3
  MaxInFlight = 1
SPECIFICATION Spec
SYMMETRY Symmetry
CHECK_DEADLOCK FALSE
INVARIANTS
  ElectionSafety
  DebugAssertionsHold
  SentTermsStored
  AppendAnchorStored
  UnsavedQueued
