SPECIFICATION MCFrontSpec
CONSTANTS
  None = None
  MaxTypes = 3
  Decls <- FrontDecls
  FirstCapacity = 2
  ReallocMoves = TRUE
INVARIANTS
  ExhaustivenessReported
CHECK_DEADLOCK FALSE
