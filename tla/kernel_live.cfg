SPECIFICATION ServersSpec
CONSTANTS
  MaxThreads  = 3
  Vectors     <- MCClockOnly
  ClockVector <- MCClock
  Words       = {0}
PROPERTIES
  ReadyThreadsRun
