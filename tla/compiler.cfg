SPECIFICATION MCSpec
CONSTANTS
  None = None
  MaxTypes = 3
  Decls <- CompilerDecls
  FirstCapacity = 2
  ReallocMoves = TRUE
  SixDigits <- ShortTexts
INVARIANTS
  RecordPointersValid
  ExhaustivenessInPlace
  ConstructorsKept
  TypeNamesResolved
  UseBeforeDeclaration
  EffectsComplete
  TypesSound
  CompilerTypeOK
  OptimizedIsSource
  AcceptedLLVMIsRight
  AcceptedCIsRight
  FirstOrderCompiles
PROPERTY
  ImplementsTypeTables
CHECK_DEADLOCK FALSE
