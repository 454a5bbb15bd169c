SPECIFICATION Spec
CONSTANTS
  a = a
  b = b
  Jobs <- OneJob
  Requests <- DefaultCommands
  Programs <- AllPrograms
  Facts <- AllFacts
  Disks <- AllDisks
  NoFile = NoFile
  NoPath = NoPath
  MayFail = {}
  Users = {TRUE}
INVARIANTS
  DefaultEntryBuilds
CHECK_DEADLOCK FALSE
