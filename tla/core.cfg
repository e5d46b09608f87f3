SPECIFICATION Spec
CONSTANTS
  Explicit <- MCExplicit
  DependencyNames <- MCDependencyNames
  Null = Null
  Empty = Empty
  Scalar = Scalar
  Revision <- ValuesRevisions
  NoRevision = NoRevision
  Specs <- FullSpecs
  MaxMatches = 1
  MaxAttempts = 2
  MaxIncarnations = 2
  Disturbances = {"create", "edit", "delete", "restart", "fault", "foreign", "define", "undefine", "resync"}
  MaxDisturbances = 2
  WritesPerDisturbance = 6
  InitialRevision = "plain"
INVARIANTS
  RestMeansReconciled
  WritesBounded
  OutputFromValidConfig
  RestMeansPersisted
PROPERTIES
  ForeignConditionsPreserved
  ReportsObservedGeneration
CHECK_DEADLOCK FALSE
