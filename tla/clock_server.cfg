SPECIFICATION FairSpec
CONSTANTS
  Root        = 3
  Clock       = 4
  Sleepers    <- MCSleepers
  MaxEntries  = 2
  HalfRange   = 64
  Requests    <- MCRequests
  ClockVector = 48
INVARIANTS
  TypeOK
  SleepersAccounted
  AnswersNeverBlock
PROPERTIES
  AtMostOneTickEarly
  EverySleeperWakes
