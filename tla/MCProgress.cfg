CONSTANTS
  n1 = n1
  n2 = n2
  n3 = n3
  Nil = Nil
  NodeId = {n1, n2, n3}
  Trials <- AllTrials
  MaxTerm = 9
  MaxInFlight = 1
  MaxAge = 2
SPECIFICATION Spec
INVARIANTS
  TermsSuffice
PROPERTIES
  ProposalsSettle
  CreationSucceeds
  JointConsensusEnds
  LeaderKept
