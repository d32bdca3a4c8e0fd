CONSTANTS
  n1 = n1
  n2 = n2
  n3 = n3
  Nil = Nil
  NodeId = {n1, n2, n3}
  Boot <- PairBoot
  Past <- FoundedPast
  VoterChanges <- ReplaceVoters
  NonVoterChanges <- LearnN3
  Creations <- None
  Batching = "none"
  Splitting = FALSE
  Duplication = TRUE
  Crashing = {n1, n2}
  Heartbeats = TRUE
  Snapshots = FALSE
  MaxTerm = 3
  MaxIndex = 4
  MaxInFlight = 1
SPECIFICATION Spec
CHECK_DEADLOCK FALSE
INVARIANTS
  TypeOK
  JointCommittedFirst
  RemovedLeaderStepsDown
  VoterTimerRuns
PROPERTIES
  LeaderMonotonic
  ImplementsReplicatedLog
