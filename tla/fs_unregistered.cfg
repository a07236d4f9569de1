SPECIFICATION Spec
CONSTANTS
  Root    = 3
  FS      = 5
  Console = 6
  Clients <- MCClients
  MAX_DEVICE_COUNT = 2
  Counts  <- MCCounts
  SIZE_BUFFER_TECLADO = 2
  tecladoEsp <- MCTecladoEsp
  Chars   <- MCChars
  Keys    <- MCKeys
  KeyboardVector = 49
PROPERTY ReadTellsTheTruth
