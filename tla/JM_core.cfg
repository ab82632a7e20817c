CONSTANTS
  c1 = c1
  c2 = c2
  build = build
  check = check
  worktree = worktree
  Commits = {c1}
  Tests = {build, check}
  Keys = {worktree}
  Deps <- ChainDeps
  Entries <- EntriesByCommit
  EntryAt <- ByCommit
  Cacheable = {check}
  Needs <- OneWorktreeEach
  PoolSize <- OneOfEach
  Permits = 2
  MaxCalls = 3
  NoJob = NoJob
SPECIFICATION Spec
INVARIANTS TypeOK BatchesClose UncancelledTracked DepArtifactsStable LocksExclude PoolBalance SettledQuiet
PROPERTIES CachedResultKept PoolContract EntryContract
CHECK_DEADLOCK FALSE
