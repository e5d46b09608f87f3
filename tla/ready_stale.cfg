SPECIFICATION Spec
CONSTANTS
  Explicit <- MCExplicit
  DependencyNames <- MCDependencyNames
  Null = Null
  Empty = Empty
  Scalar = Scalar
  Revision <- BrokenRevisions
  NoRevision = NoRevision
  Specs <- FullSpecs
  MaxMatches = 1
  MaxAttempts = 2
  MaxIncarnations = 1
  Disturbances = {"define"}
  MaxDisturbances = 2
  WritesPerDisturbance = 5
  InitialRevision = "bad"
INVARIANTS
  ReadyIsSummary
CHECK_DEADLOCK FALSE
