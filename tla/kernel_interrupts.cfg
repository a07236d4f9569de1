SPECIFICATION Spec
CONSTANTS
  MaxThreads  = 2
  Vectors     <- MCVectors
  ClockVector <- MCClock
  Words       = {0, w}
PROPERTIES
  InterruptsAreDelivered
  KeepsPromise
\* The kernel stops the machine on an interrupt that nobody handles.
CHECK_DEADLOCK FALSE
