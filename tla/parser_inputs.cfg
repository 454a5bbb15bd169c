SPECIFICATION MCFairSpec
CONSTANTS
  MaxDepth = 96
  Longest = 5
CHECK_DEADLOCK FALSE
INVARIANTS
  TypeOK
  ErrorsReported
  DeclarationsKept
  AcceptedIsGrammatical
  OverflowsOnlyAtTheEnd
  LexesGrammar
  HoverFindsToken
PROPERTY
  GrammaticalIsAccepted
