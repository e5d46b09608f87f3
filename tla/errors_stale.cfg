SPECIFICATION Spec
CONSTANTS
  Explicit <- MCExplicit
  DependencyNames <- MCDependencyNames
  Null = Null
  Empty = Empty
  Scalar = Scalar
  Revision <- SchemaRevisions
  NoRevision = NoRevision
  Specs <- FullSpecs
  MaxMatches = 1
  MaxAttempts = 2
  MaxIncarnations = 1
  Disturbances = {"define"}
  MaxDisturbances = 2
  WritesPerDisturbance = 5
  InitialRevision = "plain"
INVARIANTS
  FieldErrorsExist
CHECK_DEADLOCK FALSE
