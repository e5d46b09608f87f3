SPECIFICATION Spec
CONSTANTS
  Types <- MCTypes
  Owned <- MCOwned
  Orders <- MCOrders
  States <- MCStates
  ReadyLists <- MCReadyLists
  Counted <- MCCounted
  Initial <- MCInitial
  Alphabet <- MCAlphabet
  MaxTime = 2
  MaxEdits = 2
  MaxForeign = 2
  MaxAttempts = 2
INVARIANTS
  ListsOrdered
  SummariesAgree
PROPERTIES
  ImplementsMap
  DatedByTransition
  NothingOverwritten
