SPECIFICATION FairSpec
CONSTANTS
  Root    = 3
  FS      = 5
  Console = 6
  Clients <- MCClients
  MAX_DEVICE_COUNT = 2
  Counts  <- MCCounts
  SIZE_BUFFER_TECLADO = 2
  tecladoEsp <- MCTecladoEsp
  Chars   <- MCChars
  Keys    <- MCKeys
  KeyboardVector = 49
INVARIANTS
  TypeOK
  KeyboardLives
  NoCircle
  OneReadAtATime
PROPERTIES
  WriteTellsTheTruth
  ReadTellsTheTruthLater
  CallsReturn
