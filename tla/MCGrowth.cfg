CONSTANTS
  n1 = n1
  n2 = n2
  n3 = n3
  Nil = Nil
  NodeId = {n1, n2}
  Boot <- FreshBoot
  Past <- None
  VoterChanges <- AddOrReplace
  NonVoterChanges <- LearnN2
  Creations <- AnyVoters
  Batching = "none"
  Splitting = FALSE
  Duplication = TRUE
  Crashing = {n1, n2}
  Heartbeats = FALSE
  Snapshots = TRUE
  MaxTerm = 3
  MaxIndex = 3
  MaxInFlight = 1
SPECIFICATION Spec
CHECK_DEADLOCK FALSE
INVARIANTS
  CommittedOnMajority
  SnapshotBoundaryCommitted
  DebugAssertionsHold
PROPERTIES
  StorageMonotonic
