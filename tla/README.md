# A verification project for Limmat

Limmat watches a git repository and runs the tests of a configuration file on every commit of
a range, in parallel, in worktrees of its own; results go to a database on disk that several
processes share. This directory models it in TLA+: `.tla` modules translated from the Rust
source under `src/src/`, TLC configurations that check them on small instances, and TLAPS
proofs for all instances. All paths below are relative to the repository.

1. [Inventory](#1-inventory): the system's parts
2. [Modules](#2-modules): what models what
3. [Runs](#3-runs): what TLC checks, with which bounds
4. [Fairness](#4-fairness)
5. [Theorems](#5-theorems)
6. [Disagreements with the code's own documentation](#6-disagreements)
7. [Limits](#7-limits)
8. [Plan](#8-plan)

## 1. Inventory

    git ──watch_refs──▶ watch_loop ──set_revisions──▶ Manager ──spawn──▶ TestJob (one task each)
                           ▲   │                        ▲                  │ │ │
                           │   └──▶ StatusViewer        │ JobToken         │ │ └─▶ child process group
                           │             ▲              └──── dropped ─────┤ └───▶ Pools (resources)
                           └─────────────┴──── Notification channel ───────┘──────▶ Database (flock)

**Test manager** (`test.rs`, `Manager`). State: `job_cts`, a map from test case (commit and
test) to the cancellation token of the job tracked for it; a counter of live jobs; a semaphore
of 64 permits; the notification channel. `set_commits` (under the map's lock) cancels the jobs
of cases outside the new range, spawns jobs for untracked cases, and subscribes each new job to
those it depends on; `cancel_running` is the same with an empty range; `settled` waits until no
job is alive. Hard: ranges that shrink and grow, so that several generations of one case are
alive at once. Correct when: batches of new cases are closed under dependencies, an uncancelled
job is the tracked one, and `settled` returns, and only when nothing is alive.

**Test jobs** (`test.rs`, `TestJob`, `TestStatusNotifier`, `JobCounter`). One task per job:
wait for the dependencies' outcomes, take a permit, look the case up, wait for resources or the
cancellation, check out, run the child, store the result, publish the outcome, drop everything.
State: outcomes received with the `DatabaseEntry` each keeps locked, the permit, the
`DatabaseOutput`, `Resources`, the child. Hard: it holds up to four things and waits for others,
most waits do not observe cancellation, and ownership moves through channels. Correct when:
whatever way it ends everything goes back exactly once, jobs of one entry do not run together,
and a dependent's artifacts do not change under it.

**Result database** (`database.rs`, `flock.rs`). One directory per tree or commit and test:
`result.json`, whose flock guards the entry, `stdout.txt`, `stderr.txt`, `artifacts/`. `lookup`
returns a result under a shared lock or a `DatabaseOutput` under the exclusive one; `set_result`
stores and downgrades. Shared by processes. Hard: conversions of the lock are not atomic, the
process can die at any point, configurations differ between runs. Correct when: a lookup is
atomic to its callers, results are neither lost nor recomputed, and what is read belongs together.

**Resource pools** (`resource.rs`). A mutex over a map from resource keys to tokens, and a
condition variable. `get` waits for a combination of tokens; the drop of `Resources` puts them
back; `add` and `try_remove_worktrees` bring worktrees and take them away. Hard: lost wakeups,
cancelled waiters, a key that is gone when tokens come back. Correct when: tokens are conserved,
a request is served whole or not at all, and nobody waits for what is there.

**Watch loop and lifecycle** (`main.rs`, `util.rs`). `watch` runs an `ErrGroup` of tasks: the
web UI, one creator for each worktree, `watch_loop`. The loop selects between shutdown, new
revisions, notifications and resizes; on shutdown it cancels and waits for `settled`. The first
task that fails cancels the others' token; when all have ended, worktrees are removed. SIGINT
cancels the same token, at any time. Hard: errors at every `?`, worktrees that are still being
created. Correct when: jobs are gone before worktrees, nothing is left behind, limmat ends.

**One-shot commands** (`main.rs`: `test`, `get`, `artifacts`, `ensure_tests_run`). The same jobs
without a manager, in an `ErrGroup`; the first failure cancels the rest. `test` then runs its
target in the user's own worktree, with tokens it waits for outside every `select!`. Correct when: exactly the dependencies run, and success is
reported only if they succeeded.

**Git** (`git.rs`, `process.rs`). Commands under a semaphore; `watch_refs`, a debounced stream of
resolved ranges; `TempWorktree`, created with retries and cleaned up when dropped. Hard: events
that arrive while a range is resolved; cancellation while `git worktree add` runs. Correct when:
the last change of the range is always seen; git has no worktree of limmat's when it has exited.

**Dependency graph** (`dag.rs`) and **configuration** (`config.rs`). `Dag::new` rejects
duplicates, missing children and cycles by an iterative depth-first search, which also orders the
jobs; the parser maps resources and tests and hashes each test with its dependencies' hashes.
Hard: a node sits on the search's stack several times; parser and commands unwrap what its order
should provide. Correct when: children come first and once, no unwrap fails, a hash covers every
configuration it depends on.

**Status viewer** (`ui.rs`, `text.rs`, `terminal.rs`) and **web UI** (`http.rs`). The viewer keeps
the last status of each case from a bounded broadcast channel and renders it beside git's log;
the web UI pushes the last rendering over websockets and serves the database as files. Hard:
notifications of several generations, lagging, a repaint while a socket sends. Correct when: the
screen comes to show the range, the newest statuses, and sockets come to show the screen.

## 2. Modules

| module | models | role |
|---|---|---|
| `JobManager` | `Manager`, `TestJob`, `JobCounter`, the end of `watch_loop` | the core; uses the database and the pools through their contracts |
| `EntryStore` | what one database entry promises | abstract specification |
| `ResultDatabase` | `lookup`, `DatabaseOutput`, flock conversions of one entry | implements `EntryStore` |
| `ResourceAlloc` | what the pools promise | abstract specification |
| `ResourcePools` | `Pools`, `Resources` | implements `ResourceAlloc` |
| `TopologicalSort` | the iterator of `dag.rs` | extended by `Config` |
| `Config` | `config.rs`, `Dag::new`, the selection and planning of jobs in `main.rs` | extended by `Lifecycle` |
| `Lifecycle` | `watch`, `test`, `get`, `artifacts`, `ErrGroup`, `TempWorktree`, process groups | the whole run of a command |
| `RefWatcher` | `watch_refs`, `rev_list` | extended by `View` |
| `View` | `watch_loop`'s select, `StatusViewer`, the notification channel, sockets of the web UI | what the user sees |
| `MC...` | constants of the instances | |
| `..._proofs` | theorems | |

**How they compose.** `JobManager` treats a lookup, a grant and a return of resources as single
steps. That this is right is shown from both sides. From below, `ResultDatabase` implements
`EntryStore` (`StoreContract`) and `ResourcePools` implements `ResourceAlloc` (`AllocFair`), with
every lock and wakeup modelled. From above, `JobManager` implements the same two modules, for
its pool and for each of its entries (`PoolContract`, `EntryContract`): what it does to them is
what the contracts let a client do, at the points where they let it.

### JobManager

A job is a test case and the number of the `set_commits` call that spawned it, its generation.
`phase[j]` is the `await` point the job is at; each action runs it from one to the next:

| phase | code | leaves by |
|---|---|---|
| `deps` | `await_dep_success`, then the semaphore | `DepSucceeds`, `DepFails`, `AcquirePermit` |
| `lookup` | `Database::lookup` | `LookupFound`, `LookupRun`, `LookupFails` |
| `waiting`, `polled` | the biased `select!` | `ObserveCancel`, `PollGet`, `Grant`, `Block` |
| `starting` | checkout, output files, spawn | `StartChild`, `StartFails` |
| `running` | the child runs | `ChildExits`, `ChildErrors`, `StoreFails`, `CancelChild` |
| `stopping` | cancelled, the child is dying | `ChildStopped` |
| `downgrade` | result written, shared lock awaited | `DowngradeDone`, `DowngradeFails` |
| `returned`, `notified`, `untokened` | completion and drops | `NotifyCompletion`, `DropJob`, `DropOutcome` |

`Return` is the end of `do_run`: its locals are dropped, in one step because nothing another
task does between these drops depends on their order. `refs[j]` is the set of owners of the
`Arc<DatabaseEntry>` of job `j`'s outcome; the entry stays locked shared while it is not empty,
and it moves with the outcome: from the job to the receivers of its completion channel, and away
when they return or are dropped. `ex[e]` is the job with the `DatabaseOutput` of `e`.

`set_commits` is one step: it runs under the lock of `job_cts`, and the tokens it cancels and the
counter it increments one by one commute with what other tasks do meanwhile. A poll of the
`select!` is two steps, since a cancellation by another thread may fall between the poll of the
token and the poll of the pools. `JobCounter::zero` is three, as its comment says it must be.
Finished cases stay in `job_cts` as long as their commit stays in the range, as in the code.

### ResultDatabase and EntryStore

Clients are jobs of any process, each with the configuration hash (`config`) of the test it looks
up. `json` is a result with the configuration it was made with and,
as a ghost, the client whose run it is; a torn or empty file is no result. `output` is the client
that last created the output files. Taking the shared lock, reading, and deciding are one step:
nobody can write meanwhile. `Stop` is every way to let go: an error, a cancellation, the drop of
an entry, the death of the process, between any two steps, between truncation and write too.
flock(2) and its non-atomic conversion are external; they are modelled as `flock.rs` describes.

### ResourcePools and ResourceAlloc

A client is a job and calls `get` once. Every operation runs under the mutex and is one step;
`waiting` is the wait set of the condition variable, `trying` a client about to lock the mutex.
`PutPanics` is `put` when a key is gone: some keys are back, the other tokens are dropped. The
vectors are sets, `get` taking any tokens of a key where the code takes the last.
`TryRemove` is the removal after `watch_loop` has waited for all jobs, `TryRemoveEarly` after it
ended by an error and did not; `closed` tells them apart, and the properties that only hold of
the first say so.

### TopologicalSort and Config

`TopologicalSort` is `try_next` cut into its pushes and pops: `Open` and `FindCycle` are the arm of
a `New` node, `Push` one element of `extend`, `Close` and `Skip` the other arms. Nodes stand for
their indices. `sources` and `edges` are variables because one run of limmat walks three or four
graphs. `Config` runs it as a coroutine of the program: `pc` is how far `do_main` is (`check` and
`fold` in `parse_tests`, `select`, `check_jobs` and `fold_jobs` in a one-shot command), and `Walk`
lets the iterator run until it has emitted the next node, which `Parse` or `BuildJob` consumes.
Where the code unwraps, the action has the condition as its guard, and `PlanSound` says that no
state lacks it. The errors a user can make are actions that end in `Fail`. A configuration hash is
the set of tests whose configurations went into it (a resource is a name and a count), so that equal hashes mean equal sets (SHA-3
does not collide) and `HashCovers` can say what a hash depends on.

### Lifecycle

| variable | code |
|---|---|
| `run` | where the command's function is: creating worktrees, in `ErrGroup::wait` (`waiting`, then `joining` after an error), removing worktrees, running `test`'s target, looking up, returning, gone |
| `canceled` | the token SIGINT and `ErrGroup` cancel |
| `serve`, `loop` | the tasks of `watch` |
| `wt`, `reg`, `tries`, `late` | a `TempWorktree`; what git has registered for it; attempts; `git worktree add` processes that were dropped but not stopped |
| `job`, `uses` | a job's phase or outcome; the worktree it holds |
| `leader`, `member` | the process spawned, and one other process of its group |

A worktree goes `starting`, `working` (registered, being filled), `added`, `pooled`, `held` and
back, `removing`, `gone`; `failed` leads to a retry and `cleanup` is cancellation. `GiveBack`
covers both ends of `Resources::drop`: the pool takes the worktree, or it is gone, `put` panics
and `TempWorktree::drop` removes the worktree. `Exit` is the runtime dropping everything, with the
drop guards of children that were never reaped. Processes are external: they exit, fork and ignore
SIGTERM as they like, but not SIGKILL. User tokens are counted, not named: what is free is what the
file defines (`Tokens`) less what jobs from their grant to their end have asked for (`Used`), so they
need no variable. A job waits for them and for a worktree in phase `pool`; `test` waits for those of
its target in `run = "main"` before `MainStarts`, whose guard is the whole of that wait: unlike
`PoolCanceled` for the jobs, no action there looks at `canceled`. The select between token and pools is two steps, as in
`JobManager`; dependencies' waits, permits and lookups are shortened to `DepsEnd`.

### RefWatcher and View

`watch_refs` is a stream: it proceeds when it is polled, and `watch_loop` polls it only at its
`select!` (`Polled`), while git processes and inotify go on by themselves (`Alone`). `events` is
the length of the unbounded channel, `timer` the one-second sleep. A change of the range is seen
by inotify in the same step if the watcher is installed; what a file event means is not modelled,
only that there is at least one after each change, and others (`Noise`). `View` adds the handling
of the update in its three awaits (`revs`: `set_revisions`; `range`: the two logs, each of which
reads refs at its own moment), spawned jobs with their notifications, the channel that drops its
oldest message, and the sockets. A line of the screen is a commit and its status. `copy[b]` keeps
of what a socket sent only whether it is the last screen painted.

## 3. Runs

Each property is also checked against a mutated definition, named in `PROJECT.json`, that breaks
it: the mutants stand in the modules beside the definitions they replace.

| run | instance | checks |
|---|---|---|
| `jm_core` | 1 commit, `check` (cached) depends on `build` (uncached), 1 worktree, 2 permits, 3 calls | `TypeOK`, `BatchesClose`, `UncancelledTracked`, `DepArtifactsStable`, `LocksExclude`, `CachedResultKept`, `PoolBalance`, `SettledQuiet`, `PoolContract`, `EntryContract` |
| `jm_live` | as `jm_core`, both cached, 2 worktrees | `OneRunnerPerEntry`, `CachedEntryCurrent`; `ShutdownSettles`, without assuming that children end; `JobsFinish`, assuming that they do |
| `rp_pools` | 4 jobs, 2 worktrees added late, 2 tokens | conservation, all-or-nothing, no lost wakeup, no panic, `AllocFair`, `RequestsServed` |
| `rd_entry` | 4 clients, a cached and an uncached configuration, 2 rounds | `TypeOK`, `OutputMatches`, `SecondRoundFinds`, `StoreContract`, `LookupEnds` |
| `pl_program` | all 343 graphs of 3 tests over 7 lists, 24 files with mistakes; 5 configurations followed to the exit, with 0 to 2 worktrees, 2 attempts | `ChildrenFirst`, `PlanSound`, `HashCovers`; `HeldWorktreesStay`, `ExitClean`, `TeardownAfterUse`, `SuccessMeansDone`; `ShutdownEnds`, with its one exception; `OneShotEnds`, assuming that test commands end |
| `vw_view` | 2 commits, 2 ranges and an invalid one, 2 changes, 1 commit tested, a channel of 1, 1 browser | `NoUpdateMissed`, `StatusFollows`, `BrowserCurrent`, `RangeFollows` |
| `jm_permit_deadlock`, `jm_lock_deadlock`, `rp_teardown`, `rd_output`, `lc_group`, `vw_survives` | see [6](#6-disagreements) | one property each, violated |

**Bounds.** `MaxCalls` bounds the calls of `set_commits`. Three are enough for a case to be
tracked, dropped and tracked again with the first job still alive, and then once more; every
property relates at most two generations. Two tests in a chain have every kind of dependency
wait. Several generations of two jobs are more than the two permits, so that these are contended
(the code has 64), and in `jm_core` there is one worktree for all; `jm_live` has two, so that it
is the lock and not the pool that keeps two jobs of an entry apart. The entry shared by
the commits of one tree is not an instance of its own: the generations of `build`, uncached,
meet in one entry in the same way, and the theorems hold for any `EntryAt`. `rd_entry` takes two
rounds instead of five because with four clients five are never used up, and one outcome because
the lookup does not look at it. `rp_pools` has more requests than tokens of either kind. Symmetry
is not used: the instances are small, and liveness is checked on most.

In `pl_program` every list of at most two dependencies that differs in what the search does with
it is there: self-loops, cycles of two and three, duplicates, both orders of a pair. Only five
configurations are followed further (`Explore`), to keep the product of planning and running
small: a test without a worktree, a pair in two worktrees, two dependencies that compete for
one worktree, two that compete for one token of which their dependent wants two, and a test that
wants a worktree where `num_worktrees` is 0. In the last two, jobs of `watch` and `get --run`, and
the target of `test`, wait for what never comes. Two attempts at `git worktree add` have a retry and a giving up, as five do. One
process besides the leader is enough for a group: they are told apart only by outliving it.
`vw_view` has the smallest channel that can drop a message, and truncates a range of two to one, so
that displayed and tested commits differ. Two changes give every order of a change with listing,
timer, yield and the logs, and a third generation of a commit is not needed: statuses relate a job
to one earlier one.

`CHECK_DEADLOCK FALSE` is set where the system may stop: when all clients are done
(`rp_*`, `rd_*`), and with an uncached test, where the two deadlocks of section 6 are real
(`jm_core` and those runs). `jm_live` checks for deadlock; the `Finished` step of `JobManager` is
the idle process after shutdown.

## 4. Fairness

`TaskFairness`: each job that can take a step of its own takes one, and so does the waiter of
`settled`. tokio polls every task that was woken; a woken waiter of the semaphore or of a lock
proceeds; a child that was signalled dies, of SIGKILL at the latest after the grace period.
Nothing is assumed about children that are not signalled, nor about faults. `ChildFairness`, used
for `JobsFinish` only, is that tests end; it is the premise of the property, not part of the
specification. In `ResourcePools`, `FairSpec` polls woken tasks and
lets holders hold for ever; `Busy`, which `RequestsServed` assumes, adds that jobs end and worktrees get created. In
`ResultDatabase`, `HolderFairness` is that runs and readers end, without which a lookup waits by
design; flock need not be fair among waiters, since there are finitely many clients.

In `Lifecycle`, `WF(Plan)` and `WF(Live)`: the program, its timers and git go on. One condition
for all of them is enough because each such step brings something nearer to its end, and it is
weaker than fairness to each task. SIGINT, failures, the end of the test's processes and late
registrations may happen or not. `OneShotEnds` has the end of the leaders as its premise;
`ShutdownEnds` has none: SIGKILL ends them. Their goals name the states in which limmat waits for
what does not exist: `TargetStarves` (`main.rs:564`), in which even SIGINT does not end it, and
`JobStarves`, which a cancellation ends. Without the first TLC refutes `ShutdownEnds`, without the
second `OneShotEnds`. `Stopped` lets limmat stay in the first for ever. Database
lookups end in this model; where they do not is the subject of `jm_permit_deadlock`. In `View`, fairness of the stream's steps, the timer, the handling of
an update and the spawning of its jobs; none of jobs, notifications, resizes or browsers, although
`select!` polls the stream before the notifications (`biased`), so that they cannot hold it up.

## 5. Theorems

Proved by TLAPS for every value of the constants that satisfies the modules' assumptions (finite
sets of commits and tests; acyclic dependencies, which `Dag::new` guarantees; entries that belong
to one test, because the path of an entry ends in the test's name; a file is a sequence of tests,
whose resources are sequences of names and counts; the notification channel has a capacity, without which
`broadcast::channel` panics). Every safety invariant and every refinement that a run checks is
proved, fairness apart. The strengthened invariants were checked by TLC on the runs' instances
before they were proved.

`JobManager_proofs`:

| theorem | establishes |
|---|---|
| `TypeCorrect` | `TypeOK`; no permit is released twice, no counter goes below zero |
| `BatchesCloseHolds`, `UncancelledTrackedHolds` | `BatchesClose`, `UncancelledTracked` |
| `LocksExcludeHolds`, `OneRunner`, `DepArtifactsHold` | `LocksExclude`, `OneRunnerPerEntry`, `DepArtifactsStable` |
| `CachedEntryCurrentHolds`, `CachedResultKeptHolds` | `CachedEntryCurrent`, `CachedResultKept` |
| `SettledQuietHolds` | `SettledQuiet` |

The argument has layers, each inductive relative to the ones before it. `JobInv` is inductive by
itself: types; the exclusive lock of an entry and the phase of its holder agree; a job's entry is
referenced only after the job returned a result; outcomes a job has received, and those on their
way to it, keep the dependency's entry referenced; jobs are numbered by calls already made. The
exclusion of locks needs all of it, since the right to convert a lock is known only by phase.
`TrackInv` adds that the cases of a commit are tracked together: this is the "strong implicit
assumption" the comment in `set_commits` speaks of, and what makes `BatchesClose` inductive.
`CacheInv` adds that while a cacheable test runs there is no result to overwrite. `CountInv`
relates the semaphore and the job counter to the cardinality of the sets of jobs they count, and
`SettledInv` the return of `settled` to the counter.

`Contracts_proofs`: `PoolContractHolds` and `EntryContractHolds`, that the manager keeps to
`ResourceAlloc` and to `EntryStore`, and `PoolBalanceHolds` (`PoolBalance`). The contract does not
imply the balance, since it lets worktrees be supplied and retired. What jobs have been granted is
a set of pairs of a job and a number; a grant adds and a return removes one job's pairs, so that its
cardinality follows from those of disjoint unions and needs no induction. The contracts classify the steps of a job by what they do to its
standing with the pools, and with one entry. A job's return drops its references to entries of
*other* jobs too, which is a step of those entries' contracts; that it is one step of each rests
on the entry assumption and on the acyclic dependencies.

`ResourcePools_proofs`, for finitely many tokens of known kinds, and any requests:

| theorem | establishes |
|---|---|
| `TokensExclusiveHolds`, `TokensKeptHolds` | conservation: no token is in two places, none vanishes |
| `AllOrNothingHolds`, `NoStrandedWaiterHolds` | a request is served whole; who waits cannot be served |
| `PutSucceedsHolds`, `WorktreesRemovedHolds` | no panic and no worktree left, if the jobs ended first |
| `AllocSafeHolds` | every step is one of `ResourceAlloc` or a stutter |

`PoolsInv` is the conjunction of those invariants with two facts: the map has the key of every
token that will come back, but for worktrees after an abrupt end (`KeysPresent`), and after an
orderly end nobody holds or waits (`EndedQuiet`). The first is what `put`'s lookup of the key
relies on; where it fails `put` panics, and conservation counts the tokens it loses.

`ResultDatabase_proofs`:

| theorem | establishes |
|---|---|
| `TypeCorrect` | `TypeOK` |
| `OutputMatchesHolds`, `SecondRoundHolds` | `OutputMatches`, `SecondRoundFinds` |
| `StoreContractHolds` | every step is one of `EntryStore` or a stutter |

`EntryInv` says who has which lock at which step (`LocksAgree`), which configuration and result a
step implies (`PhasesAgree`), that whoever may run the test found no result of its configuration
and that no other run has touched the output files meanwhile (`RunnersNeeded`), and, as long as
one configuration has been asked for, that result and output files are of one run
(`OneConfigAgrees`). The last part is what fails in `rd_output`.

`TopologicalSort_proofs`, for every finite graph and any sources:

| theorem | establishes |
|---|---|
| `SortTypes` | `SortTypeOK` |
| `EmittedInOrder` | `ChildrenFirst` |
| `EmittedComplete` | `EmitsReachable`: exactly the sources and what they reach |
| `CyclesFound` | `VerdictRight`: a cycle is reported exactly if there is one (among the nodes walked from) |

The invariant, `SortInv`, is that of a depth-first search, made for a stack with duplicates. A child
of an opened node is closed, or lies above that node on the stack, or is being pushed (`OpenAhead`);
opened nodes are on the stack (`OpenOnStack`); closed nodes have only closed children
(`ClosedBelow`) and are exactly the emitted ones (`OutIsClosed`); a source is closed or on the stack
(`SourcesAhead`); everything met is reachable from the sources (`AllReached`). In every ranking of
the graph, what lies above an opened node or is being pushed ranks below it (`StackRanked`), which
is why a cycle found refutes every ranking (`CycleUnranked`). `AcyclicAssumption` of `JobManager` is what
`CyclesFound` gives for a graph that was accepted.

`Config_proofs`, for any configuration files and commands:

| theorem | establishes |
|---|---|
| `PlanSoundHolds` | `PlanSound`: no unwrap between the file and the jobs fails, and the jobs are those asked for |
| `HashCoversHolds` | `HashCovers` |
| `AcceptedAcyclic` | the tests of an accepted file satisfy `AcyclicAssumption` of `JobManager` |

`ConfigInv` contains `SortInv` for the walk that is under way, with the graph and the sources that
the phase gives it (`GraphOfPhase`). A fold has consumed a prefix of what its walk has emitted
(`Follows`), and what is consumed has all its dependencies consumed before it, because the walk
emits children first: this is what the unwraps rely on (`Parsing`, `Building`). An accepted file
has a ranking (`FileRanked`, from `CyclesFound`'s argument), so that no later walk, over the same
graph or a part of it, finds a cycle and `Dag::new` does not refuse the selection. From a ranking
follows that a test has more descendants than each of its dependencies (`RankedHeights`), and their
numbers are the heights that `JobManager` assumes: what is proved of the manager rests on an
assumption that is proved of the configuration.
`HashCovers` needs the descendants of a test to be itself and those of its dependencies.

`Lifecycle_proofs`, for any configuration and numbers of worktrees and attempts:

| theorem | establishes |
|---|---|
| `HeldWorktreesStayHolds` | `HeldWorktreesStay` |
| `TeardownAfterUseHolds`, `ExitCleanHolds` | `TeardownAfterUse`, `ExitClean` |
| `SuccessMeansDoneHolds` | `SuccessMeansDone` |
| `PlanHolds` | `PlanSound` and `HashCovers` in the whole program, whose other steps leave the plan alone |

`LifeInv` has one part per thing that the tasks keep in agreement without a common lock: a
worktree, git's registration and late registrations (`Registered`); a live child and the job that
waits for it (`ChildrenWatched`); a job's phase, the worktree it holds and that worktree's state, and
that nobody else holds it (`Holding`); where the command is and what its tasks have done
(`InOrder`, `JobsPlanned`, `Torn`); its result and its jobs' outcomes (`ResultSays`, `JobsDone`).
`TeardownAfterUse` and `SuccessMeansDone` also use that the jobs of the plan are tests of the
file, from `ConfigInv`. The proof found two places where conditions of the model's `CASE` expressions overlapped
(`RemovalDone`, `Lookup`), which TLA+ leaves open and TLC resolves by order; they are disjoint now.

`View_proofs`: `NothingMissed` (`NoUpdateMissed`), `BrowsersCurrent` (`BrowserCurrent`) and
`StatusFollowsHolds` (`StatusFollows`), for any ranges, commits, capacities and browsers. The first
rests on: if the stream is past its listing and what it listed is not the range, there is an event
in the channel or the timer runs. The second on: a socket whose receiver has seen the screen holds
the last one. The third on `StatusInv`: of each commit about which nothing was dropped, the newest
notification in the channel, or the status taken if there is none, is that of its newest job or what
an earlier one has come to.

## 6. Disagreements

Each is a run TLC must find violated.

- `jm_permit_deadlock` (`test.rs:653`). With a `no_caching` dependency, a new generation of the
  dependency can hold the last permit while it waits for its entry, which the old generation's
  dependents keep locked while they wait for a permit. Lookup does not observe cancellation, so
  `settled` never returns either. It takes as many such jobs as there are permits.
- `jm_lock_deadlock` (`test.rs:805`). With an uncached test, a new job can take the exclusive lock
  in the gap of the old one's downgrade and then wait for resources that the old one holds until
  it gets its lock.
- `rp_teardown` (`main.rs:249`). An error in `watch_loop` skips the wait for jobs; worktrees they
  hold are never handed out for cleanup, `put` panics, and they are removed one by one, blocking,
  by `TempWorktree::drop`. `ExitClean` shows that this much still happens.
- `rd_output` (`database.rs:262`). A cancelled run with a changed configuration leaves its partial
  output beside the previous configuration's result, which is found again when the configuration
  is changed back.

- `lc_group` (`test.rs:817`). The README says the process group gets SIGTERM and, if it does not
  shut down, SIGKILL. The code waits for the group's leader only: once that is dead, other
  processes of the group that ignored SIGTERM live on, in a worktree that goes to another job.
- `vw_survives` (`git.rs:312`). `rev_list` has code for the exit status git uses for a range that
  does not resolve, but runs git through `execute`, which has failed by then; deleting the base of
  the range ends limmat. The two logs of `set_range` are another way to the same end: when refs
  change between them, the info of a commit of the graph is missing (`ui.rs:330`).

Met while modelling, without a run of its own:

`limmat test` takes the tokens of its target with `resource_pools.get(needs_resources).await`
(`main.rs:564`), in no `select!`, while nothing compares what a test asks for with what there is
(`config.rs:257` looks for names). With a target that asks for more, limmat waits there for ever; SIGINT
cancels a token that nobody looks at, and the handler keeps it from killing the process. `main.rs:693` says
"Set up shutdown first, to ensure we correctly handle early signals.", and `config.rs:92` of
the grace period that it "also affects the overall shutdown of limmat so do not set this to longer than
you are willing to wait". `ShutdownEnds` shows that this wait is the only one of its kind: wherever
else limmat is, jobs that wait for what does not exist included, SIGINT ends it (database lookups
taken to end, see section 4).

`README.md:110` calls the field `needs_worktree`, the parser
`requires_worktree` (`config.rs:87`). `get --run` of a `no_caching` test runs it and then fails
(`main.rs:620`), the database having no result. `git.rs:570` says that `--force --force` removes a worktree
"even if we were in the middle of creating it": not if `git worktree add` has not registered it yet,
since the dropped process goes on (`LateAdd`; `ExitClean` leaves such worktrees out). SIGINT while
worktrees are created makes `limmat watch` exit with failure ("canceled"), later it exits with
success. The range on the screen is read after the one that is tested, and may be a newer one until the
next update (`RangeFollows` is about the end only).

## 7. Limits

Only model-checked: liveness, with the fairness of `AllocFair` and what follows from it (the provers
know neither fairness nor `ENABLED`).

Not modelled: the text that is rendered (`text.rs`, the layout in `ui.rs`), logging, HTML and the
files served, the command line and TOML, environment variables of tests, the path of a result that
is printed, what tests do; git's own work. I/O errors appear as the steps that fail. A lookup that
waits for another process's lock holds up the exit of the runtime (`flock.rs:54`); `Exit` is one
step. A commit that disappears between its listing and its lookup fails `set_revisions`, which in
`Lifecycle` is one of the errors of `LoopFails`. `Lifecycle` starts its jobs once; generations are
`JobManager`'s and `View`'s subject. When `put` panics because
the worktrees' key is gone, `Lifecycle` counts the user tokens as returned, though some may be lost
(`PutPanics` of `ResourcePools`); limmat is then about to exit. That
tokens asked for exist, and worktrees if they are needed, is not checked by the parser
(`config.rs:262`): such a test waits for ever, and for the target of `test` the claim that SIGINT ends
limmat fails with it (section 6). The liveness runs of `JobManager` and `ResourcePools` are about requests
that can be met.

## 8. Plan

All modules of section 2 are written, and every safety property of the runs is proved. Left:

1. More action properties with proofs: an outcome of a job is final and its status on the screen
   does not go back to `Enqueued` or `Started` of the same job; a worktree that is gone stays gone.
2. The step from `Lifecycle`'s pool of worktrees to `ResourceAlloc`, of which it is a third user.

Further modelling would have to be about formatting or about git.
