SPECIFICATION Spec
CONSTANTS
  c1 = c1
  c2 = c2
  c3 = c3
  c4 = c4
  w1 = w1
  w2 = w2
  u1 = u1
  u2 = u2
  token = token
  Worktree = Worktree
  Clients = {c1, c2, c3, c4}
  Keys <- MCKeys
  Tokens <- MCTokens
  KeyOf <- MCKeyOf
  Initial <- MCInitial
  Want <- MCWant
CHECK_DEADLOCK FALSE
INVARIANTS WorktreesRemovedAlways
