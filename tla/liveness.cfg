SPECIFICATION FairSpec
CONSTANTS
  Explicit <- MCExplicit
  DependencyNames <- MCDependencyNames
  Null = Null
  Empty = Empty
  Scalar = Scalar
  Revision <- DependentRevisions
  NoRevision = NoRevision
  Specs <- FullSpecs
  MaxMatches = 2
  MaxAttempts = 2
  MaxIncarnations = 1
  Disturbances = {"define", "edit", "cluster", "objects", "fault"}
  MaxDisturbances = 2
  WritesPerDisturbance = 5
  InitialRevision = "plain"
PROPERTIES
  Converges
  StatusCatchesUp
CHECK_DEADLOCK FALSE
