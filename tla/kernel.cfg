SPECIFICATION Spec
CONSTANTS
  MaxThreads  = 3
  Vectors     <- MCClockOnly
  ClockVector <- MCClock
  Words       = {0}
INVARIANTS
  TypeOK
  NoThreadLost
  RunsAReadyThread
  SendersQueuedOnce
  NoMissedRendezvous
PROPERTIES
  InterruptsAreDelivered
  RoundRobin
  KeepsPromise
