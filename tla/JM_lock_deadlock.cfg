CONSTANTS
  c1 = c1
  c2 = c2
  build = build
  check = check
  worktree = worktree
  Commits = {c1}
  Tests = {build}
  Keys = {worktree}
  Deps <- NoDeps
  Entries <- EntriesByCommit
  EntryAt <- ByCommit
  Cacheable = {}
  Needs <- OneWorktreeEach
  PoolSize <- OneOfEach
  Permits = 2
  MaxCalls = 3
  NoJob = NoJob
SPECIFICATION FairSpec
PROPERTY JobsFinish
CHECK_DEADLOCK FALSE
