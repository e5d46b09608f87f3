SPECIFICATION FairSpec
CONSTANTS
  Explicit <- MCExplicit
  DependencyNames <- MCDependencyNames
  Null = Null
  Empty = Empty
  Scalar = Scalar
  Revision <- DependentRevisions
  NoRevision = NoRevision
  Specs <- FullSpecs
  MaxMatches = 1
  MaxAttempts = 2
  MaxIncarnations = 1
  Disturbances = {"objects"}
  MaxDisturbances = 2
  WritesPerDisturbance = 5
  InitialRevision = "dependent"
PROPERTIES
  DependencyRecovers
CHECK_DEADLOCK FALSE
