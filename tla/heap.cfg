SPECIFICATION Spec
CONSTANTS
  realInit   = 8
  endAddress = 160
  maxLength  = 2
  Amounts    = {0, 9}
INVARIANTS
  TypeOK
  HolesAreListed
  WholeAgain
PROPERTIES
  KeepsPromise
CHECK_DEADLOCK FALSE
