SPECIFICATION SteppingSpec
CONSTANTS
  o1 = o1
  o2 = o2
  o3 = o3
  s1 = s1
  s2 = s2
  Null = Null
  Objects <- TwoObjects
  Slots <- TwoSlots
  Sizes = {400}
  Budgets = {0}
  AllocBudget = 2
  CollectBudget = 2
  RootChunk = 1
  MarkChunk = 2
  InitialThreshold = 400
  GrowthPercent = 150
  MaxRoots = 2
  MaxChildren = 1
  MayFail = {"roots"}
  Liberties = {}
PROPERTIES
  ImplementsManagedHeap
  CallReturns
  CycleFinishes
  GarbageFreed
