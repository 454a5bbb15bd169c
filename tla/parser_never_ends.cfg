SPECIFICATION MCFairSpec
CONSTANTS
  MaxDepth = 100
  Longest = 2
CHECK_DEADLOCK FALSE
PROPERTY
  Terminates
