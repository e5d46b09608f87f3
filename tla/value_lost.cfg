SPECIFICATION Spec
CONSTANTS
  Explicit <- MCExplicit
  DependencyNames <- MCDependencyNames
  Null = Null
  Empty = Empty
  Scalar = Scalar
  Revision <- PlainRevision
  NoRevision = NoRevision
  Specs <- FullSpecs
  MaxMatches = 1
  MaxAttempts = 2
  MaxIncarnations = 1
  Disturbances = {"edit"}
  MaxDisturbances = 2
  WritesPerDisturbance = 5
  InitialRevision = "plain"
PROPERTIES
  ExplicitValuesPreserved
CHECK_DEADLOCK FALSE
