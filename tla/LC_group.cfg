SPECIFICATION Spec
CONSTANTS
  a = a
  b = b
  c = c
  Node <- MCNode
  Configs <- MCConfigs
  Explore <- MCExplore
  NoTest = NoTest
  Forkers <- MCForkers
  MaxWorktrees = 2
  MaxTries = 2
INVARIANT GroupStopped
