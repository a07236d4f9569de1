SPECIFICATION Spec
CONSTANTS
  SIZE_BUFFER_TECLADO = 3
  tecladoEsp <- MCTecladoEsp
  Chars      <- MCChars
  Rows       = 2
  Cols       = 2
  Keys       <- MCKeys
  Modifiers  <- MCModifiers
  Texts      <- MCTexts
  Messages   <- MCMessages
  MaxWanted  = 3
INVARIANTS
  TypeOK
  ShowsLastLines
  NoReadForgotten
  AltGrIsRightAlt
PROPERTIES
  TypedInOrder
  EnterEndsTheRead
