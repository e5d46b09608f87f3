SPECIFICATION FairSpec
CONSTANTS
  Configs = {c1, c2}
  Definitions = {d1, d2}
  Installed = {d1}
  ClusterOf <- MCApart
  NoUID = NoUID
  NoOutput = NoOutput
  MaxChanges = 2
INVARIANTS
  QuietMeansCurrent
PROPERTIES
  EveryoneServed
CHECK_DEADLOCK FALSE
