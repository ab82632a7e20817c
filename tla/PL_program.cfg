SPECIFICATION Spec
CONSTANTS
  a = a
  b = b
  c = c
  Node <- MCNode
  Configs <- MCConfigs
  Explore <- MCExplore
  NoTest = NoTest
  Forkers <- MCForkers
  MaxWorktrees = 2
  MaxTries = 2
INVARIANTS
  ChildrenFirst
  PlanSound
  HashCovers
  HeldWorktreesStay
  ExitClean
  TeardownAfterUse
  SuccessMeansDone
PROPERTIES
  ShutdownEnds
  OneShotEnds
