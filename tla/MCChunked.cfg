SPECIFICATION ChunkedSpec
CONSTANTS
  CR = "CR"
  LF = "LF"
  Base = 2
  MaxDigits = 3
  Half = 4
  Symbol <- Symbols
  Digit <- Digits
  Value <- Values
  Text <- Bodies
INVARIANTS
  ChunkedTypeOK
  AsSymbolBySymbol
  VerdictIsDue
PROPERTIES
  DecodingEnds
