SPECIFICATION Spec
CONSTANTS
  Elements = {p, q}
  NoElement = null
  Garbage = garbage
  InitialCount = 2
  MaxElements = 4
INVARIANT TypeOK
PROPERTY IsFifo
