SPECIFICATION Spec
CONSTANTS
  a = a
  b = b
  Jobs <- TwoJobs
  Requests <- Commands
  Programs <- AllPrograms
  Facts <- AllFacts
  Disks <- AllDisks
  NoFile = NoFile
  NoPath = NoPath
  MayFail = {"open", "cc", "lower", "mkdir", "kill"}
  Users = {TRUE, FALSE}
SYMMETRY Symmetry
INVARIANTS
  TypeOK
  BuiltFromOwnProgram
  NoLitter
  CreatedWhole
CHECK_DEADLOCK FALSE
