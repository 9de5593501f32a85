\* Texts are printed one after the other, until one is refused.
SPECIFICATION Spec
CONSTANTS
  Pieces <- MCPieces
  Arguments <- MCArguments
  MaxPieces = 3
  MaxArguments = 2
  MaxLength = 7
  Windows <- MCWindows
  Ints = 64
CHECK_DEADLOCK FALSE
INVARIANTS
  TypeOK
  LooksAsFormatted
PROPERTY CentredOrRefused
