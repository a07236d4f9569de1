SPECIFICATION Spec
CONSTANTS
  Root        = 3
  Clock       = 4
  Sleepers    <- MCOneSleeper
  MaxEntries  = 2
  HalfRange   = 512
  Requests    <- MCTwoTicks
  ClockVector = 48
PROPERTY SleepsAtLeast
