SPECIFICATION Spec
CONSTANTS
  Explicit <- MCExplicit
  DependencyNames <- MCDependencyNames
  Null = Null
  Empty = Empty
  Scalar = Scalar
  Revision <- ValuesRevisions
  NoRevision = NoRevision
  Specs <- FullSpecs
  MaxMatches = 1
  MaxAttempts = 2
  MaxIncarnations = 1
  Disturbances = {}
  MaxDisturbances = 2
  WritesPerDisturbance = 5
  InitialRevision = "strict"
INVARIANTS
  OutputRefDescribes
CHECK_DEADLOCK FALSE
