SPECIFICATION Spec
CONSTANTS
  e1 = e1
  e2 = e2
  e3 = e3
  e4 = e4
  number = number
  string = string
  Exprs <- FourExprs
  Infos <- Types
  Null = Null
  Hash <- Colliding
  FirstCapacity = 2
  MayFail = {"index"}
  MaxItems = 4
INVARIANTS
  TypeOK
  EveryKeyIsFound
  RoomToProbe
PROPERTIES
  ImplementsExprInfo
SYMMETRY Symmetry
CHECK_DEADLOCK FALSE
