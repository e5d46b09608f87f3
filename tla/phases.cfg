SPECIFICATION Spec
CONSTANTS
  Explicit <- MCExplicit
  DependencyNames <- MCDependencyNames
  Null = Null
  Empty = Empty
  Scalar = Scalar
  Revision <- AllRevisions
  NoRevision = NoRevision
  Specs <- OddSpecs
  MaxMatches = 1
  MaxAttempts = 2
  MaxIncarnations = 1
  Disturbances = {"define", "edit", "cluster", "objects", "saveFault"}
  MaxDisturbances = 2
  WritesPerDisturbance = 5
  InitialRevision = "plain"
INVARIANTS
  TypeOK
  StatusTruthful
CHECK_DEADLOCK FALSE
