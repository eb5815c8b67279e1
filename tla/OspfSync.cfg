\* One fault at any point.  A synchronised pair has nothing left to do: the Hellos
\* that only keep it alive are left out.
CONSTANTS
  NULL = NULL
  MaxHeaders = 2
  Foreign <- Same
  Restartable <- OnlyOne
  MaxFaults = 1
  MaxForeign = 2
SPECIFICATION FairSpec
INVARIANTS TypeOK AssertsHold FullHoldsNothingBack OwnLsaTruthful NothingForgotten
PROPERTIES DbNeverRegresses AdjacencyForms
CHECK_DEADLOCK FALSE
