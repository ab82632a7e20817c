CONSTANTS
  c1 = c1
  c2 = c2
  build = build
  check = check
  worktree = worktree
  Commits = {c1}
  Tests = {build, check}
  Keys = {worktree}
  Deps <- ChainDeps
  Entries <- EntriesByCommit
  EntryAt <- ByCommit
  Cacheable = {build, check}
  Needs <- OneWorktreeEach
  PoolSize <- TwoOfEach
  Permits = 2
  MaxCalls = 3
  NoJob = NoJob
SPECIFICATION FairSpec
INVARIANTS OneRunnerPerEntry CachedEntryCurrent
PROPERTIES ShutdownSettles JobsFinish
