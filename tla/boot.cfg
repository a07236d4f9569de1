SPECIFICATION BootSpec
CONSTANTS
  Memories <- MCMemories
  Starts   <- MCStarts
  Sizes    <- MCSizes
INVARIANTS
  NoFault
  RootFindsItsFiles
  KernelStays
CHECK_DEADLOCK FALSE
