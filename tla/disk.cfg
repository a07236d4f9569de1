SPECIFICATION FairSpec
CONSTANTS
  Kinds    <- MCKinds
  Requests <- MCRequests
INVARIANTS
  ReadsTheBlockAsked
PROPERTIES
  ReadsReturn
CHECK_DEADLOCK FALSE
