CONSTANTS
  n1 = n1
  Configs <- OneConfig
  MaxTerm = 2
  MaxIndex = 3
SPECIFICATION Spec
INVARIANTS
  RepresentationOK
  QueriesAgree
  StripLosesNothing
PROPERTIES
  ImplementsSequences
