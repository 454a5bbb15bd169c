SPECIFICATION Spec
CONSTANTS
  o1 = o1
  o2 = o2
  o3 = o3
  s1 = s1
  s2 = s2
  Null = Null
  Objects <- ThreeObjects
  Slots <- TwoSlots
  Sizes = {400}
  Budgets = {1, 3}
  AllocBudget = 2
  CollectBudget = 2
  RootChunk = 2
  MarkChunk = 2
  InitialThreshold = 800
  GrowthPercent = 150
  MaxRoots = 2
  MaxChildren = 1
  MayFail = {"roots"}
  Liberties = {}
SYMMETRY Symmetry
INVARIANTS
  ReachableStaysLive
  NoStaleMarks
  SurvivorsExact
  QuietInv
