SPECIFICATION MCSpec
CONSTANTS
  None = None
  MaxTypes = 3
  Decls <- CompilerDecls
  FirstCapacity = 2
  ReallocMoves = TRUE
  SixDigits <- ShortTexts
INVARIANT
  PhisNameTheirBlocks
CHECK_DEADLOCK FALSE
