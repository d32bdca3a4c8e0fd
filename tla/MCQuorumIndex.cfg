CONSTANTS
  Id = {1, 2, 3, 4}
  MaxMatch = 2
SPECIFICATION QuorumSpec
INVARIANTS
  QuotaKept
  SmallestMajorityIndexCorrect
