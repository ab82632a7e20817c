CONSTANTS
  c1 = c1
  c2 = c2
  build = build
  check = check
  worktree = worktree
  Commits = {c1}
  Tests = {build, check}
  Keys = {worktree}
  Deps <- ChainDeps
  Entries <- EntriesByCommit
  EntryAt <- ByCommit
  Cacheable = {}
  Needs <- OneWorktreeEach
  PoolSize <- OneOfEach
  Permits = 1
  MaxCalls = 3
  NoJob = NoJob
SPECIFICATION FairSpec
PROPERTY ShutdownSettles
CHECK_DEADLOCK FALSE
