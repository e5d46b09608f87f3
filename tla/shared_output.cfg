SPECIFICATION Spec
CONSTANTS
  Configs = {c1, c2}
  Definitions = {d1, d2}
  Installed = {d1}
  ClusterOf <- MCTogether
  NoUID = NoUID
  NoOutput = NoOutput
  MaxChanges = 1
INVARIANTS
  OutputIsOwn
CHECK_DEADLOCK FALSE
