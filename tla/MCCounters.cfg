CONSTANTS
  n1 = n1
  n2 = n2
  n3 = n3
  Nil = Nil
  NodeId = {n1, n2, n3}
  Boot <- PairBoot
  Past <- FoundedPast
  VoterChanges <- ReplaceVoters
  NonVoterChanges <- LearnN3
  Creations <- None
  Batching = "none"
  Splitting = FALSE
  Duplication = FALSE
  Crashing = {}
  Heartbeats = FALSE
  Snapshots = TRUE
  MaxTerm = 3
  MaxIndex = 4
  MaxInFlight = 1
  Counters <- AllCounters
  MaxCount = 3
SPECIFICATION MeteredSpec
CHECK_DEADLOCK FALSE
INVARIANTS
  CountersAccount
  NoAlarmWithoutLoss
  IgnoredIsCounted
