CONSTANTS
  n1 = n1
  n2 = n2
  n3 = n3
  Nil = Nil
  NodeId = {n1, n2, n3}
  Boot <- DivergedBoot
  Past <- DivergedPast
  VoterChanges <- ShrinkToN3
  NonVoterChanges <- None
  Creations <- None
  Batching = "none"
  Splitting = TRUE
  Duplication = TRUE
  Crashing = {}
  Heartbeats = FALSE
  Snapshots = FALSE
  MaxTerm = 5
  MaxIndex = 5
  MaxInFlight = 1
SPECIFICATION Spec
CHECK_DEADLOCK FALSE
INVARIANTS
  StateMachineSafety
  LeaderCompleteness
  CommittedOnMajority
  CommitStatusAgrees
  LogMatching
  MatchIndexDurable
