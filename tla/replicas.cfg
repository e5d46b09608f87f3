SPECIFICATION FairSpec
CONSTANTS
  Explicit <- MCExplicit
  DependencyNames = {}
  Null = Null
  Empty = Empty
  Scalar = Scalar
  Revision <- MCRevisions
  NoRevision = NoRevision
  Managers = {m1, m2}
  LeaderElect = {TRUE, FALSE}
  Specs <- MCSpecs
  InitialSpec <- Complete
  InitialRevision = "plain"
  MaxAttempts = 2
  MaxLag = 1
  MaxEdits = 1
  MaxStops <- MCMaxStops
INVARIANTS
  ReplicasAgree
PROPERTIES
  ReplicasSettle
CHECK_DEADLOCK FALSE
