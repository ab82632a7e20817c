----------------------------- MODULE JobManager -----------------------------
(***************************************************************************)
(* The test manager of test.rs: Manager::set_commits spawns one TestJob    *)
(* per commit and test, cancels the jobs of commits that left the watched  *)
(* range, and lets the jobs of one call wait for each other along the test *)
(* dependencies.  A job waits for its dependencies, takes a semaphore      *)
(* permit, looks its result up in the shared database and, unless it finds *)
(* one, takes resources from the pools and runs a child process.           *)
(*                                                                         *)
(* The result database and the resource pools are used through what they  *)
(* promise: a lookup finds a result under a shared lock or leaves the      *)
(* caller with the exclusive lock (ResultDatabase), and a pool grants all  *)
(* of a request or nothing (ResourcePools).                                *)
(***************************************************************************)
EXTENDS Naturals, FiniteSets

CONSTANTS
  Commits,    \* commits the watched range may hold
  Tests,      \* tests of the configuration
  Deps,       \* Deps[t]: the tests t depends on
  Entries,    \* entries (directories) of the result database
  EntryAt,    \* EntryAt[c, t]: the entry test t of commit c is stored under
  Cacheable,  \* tests whose cache policy accepts an existing result
  Keys,       \* kinds of resource (worktrees and the user's tokens)
  Needs,      \* Needs[t][k]: how many resources of kind k test t needs
  PoolSize,   \* PoolSize[k]: how many there are
  Permits,    \* initial permits of job_sem (64 in the code)
  MaxCalls,   \* bound: how often set_commits is called before shutdown
  NoJob       \* not a job

ASSUME DepsAssumption ==
  /\ Deps \in [Tests -> SUBSET Tests]
  /\ Cacheable \subseteq Tests
\* The tests come from a Dag, which has no cycle.
ASSUME AcyclicAssumption ==
  \E height \in [Tests -> 0..Cardinality(Tests)] :
    \A t \in Tests : \A d \in Deps[t] : height[d] < height[t]
\* The path of an entry ends in the test's name.
ASSUME EntryAssumption ==
  /\ EntryAt \in [Commits \X Tests -> Entries]
  /\ \A x, y \in Commits \X Tests : EntryAt[x] = EntryAt[y] => x[2] = y[2]
ASSUME PoolAssumption ==
  /\ Needs \in [Tests -> [Keys -> Nat]]
  /\ PoolSize \in [Keys -> Nat]
  /\ Permits \in Nat
  /\ MaxCalls \in Nat
ASSUME FiniteAssumption == IsFiniteSet(Commits) /\ IsFiniteSet(Tests)

Case == Commits \X Tests
\* A job is a test case and the number of the set_commits call that spawned it.
Job == Commits \X Tests \X (1..MaxCalls)

ASSUME NoJobAssumption == NoJob \notin Job

CaseOf(j) == <<j[1], j[2]>>
TestOf(j) == j[2]
EntryOf(j) == EntryAt[CaseOf(j)]

\* set_commits subscribes a job to the dependencies of its own commit that the
\* same call builds.
DepJobs(j) == {<<j[1], d, j[3]>> : d \in Deps[TestOf(j)]}
Dependents(j) == {k \in Job : j \in DepJobs(k)}

Outcomes == {"pending", "pass", "fail", "canceled", "error"}
Stored == {"pass", "fail"}   \* outcomes that carry a DatabaseEntry

Phases == {"none",       \* not spawned
           "deps",       \* await_dep_success, then waiting for a permit
           "lookup",     \* Database::lookup
           "waiting",    \* select! on cancellation and Pools::get
           "polled",     \* the same poll, past its check of the cancellation
           "starting",   \* resources granted: checkout and spawn
           "running",    \* child process alive
           "stopping",   \* cancelled: waiting for the child to die
           "downgrade",  \* result written, waiting for the shared lock
           "returned",   \* do_run returned, its locals are dropped
           "notified",   \* outcome sent to observers and dependents
           "untokened",  \* the TestJob is dropped, its outcome not yet
           "done"}

\* Mutant: set_result's wait for the shared lock leaks the resources.
ResourcePhasesLeak == {"starting", "running", "stopping"}
ResourcePhases == {"starting", "running", "stopping", "downgrade"}
\* Mutant: a job that never got a permit releases one.
PermitPhasesAll == Phases \ {"none"}
PermitPhases == {"lookup", "waiting", "polled"} \cup ResourcePhases
\* The TestJob, and with it its JobToken and its receivers, exists.
LivePhases == Phases \ {"none", "untokened", "done"}
\* The outcome has been sent on the completion channel.
SentPhases == {"notified", "untokened", "done"}

VARIABLES
  job_cts,   \* job_cts[x]: call that spawned the tracked job of case x, or 0
  calls,     \* set_commits calls so far
  panicked,  \* Dag::new refused a batch: the expect in set_commits failed
  phase,     \* phase[j]
  ct,        \* jobs whose cancellation token is cancelled
  got,       \* got[j]: dependencies whose successful outcome j has received
  outcome,   \* outcome[j], once known
  refs,      \* refs[j]: who holds a reference to j's DatabaseEntry
  file,      \* file[e]: result stored in entry e, or "none"
  ex,        \* ex[e]: job whose DatabaseOutput has entry e locked, or NoJob
  sem,       \* free permits
  pool,      \* pool[k]: free resources of kind k
  count,     \* JobCounter: tokens alive
  settle,    \* the caller of Manager::settled
  dirty,     \* the counter's channel has a change the caller has not seen
  closing    \* the watch loop has ended

jobVars == <<phase, got, outcome, refs, file, ex, sem, pool>>
mgrVars == <<job_cts, calls, panicked, ct, closing>>
cntVars == <<count, settle, dirty>>
vars == <<job_cts, calls, panicked, phase, ct, got, outcome, refs, file, ex,
          sem, pool, count, settle, dirty, closing>>

Init ==
  /\ job_cts = [x \in Case |-> 0]
  /\ calls = 0
  /\ panicked = FALSE
  /\ phase = [j \in Job |-> "none"]
  /\ ct = {}
  /\ got = [j \in Job |-> {}]
  /\ outcome = [j \in Job |-> "pending"]
  /\ refs = [j \in Job |-> {}]
  /\ file \in [Entries -> {"none"} \cup Stored]
  /\ ex = [e \in Entries |-> NoJob]
  /\ sem = Permits
  /\ pool = PoolSize
  /\ count = 0
  /\ settle = "idle"
  /\ dirty = FALSE
  /\ closing = FALSE

-----------------------------------------------------------------------------
(* Manager::set_commits.  The call runs under the lock of job_cts and is    *)
(* one step: cancellations and counter increments that other tasks see one  *)
(* by one commute with every step those tasks take in between.              *)

NewCases(C) == {x \in C \X Tests : job_cts[x] = 0}
\* Every dependency of a new case is itself new, as Dag::new demands.
BatchClosed(new) == \A x \in new : \A d \in Deps[x[2]] : <<x[1], d>> \in new
\* A case is tracked while its commit stays in the range, finished or not.
\* Mutant: finished jobs are forgotten.
KeptCasesUnfinished(C) ==
  {x \in C \X Tests : \E j \in Job : CaseOf(j) = x /\ job_cts[x] = j[3] /\ phase[j] \in LivePhases}
KeptCases(C) == {x \in C \X Tests : job_cts[x] # 0}
\* Mutant: only jobs whose child runs are cancelled.
DroppedRunning(C) ==
  {j \in Job : /\ job_cts[CaseOf(j)] = j[3] /\ CaseOf(j) \notin C \X Tests
               /\ phase[j] = "running"}
Dropped(C) == {j \in Job : job_cts[CaseOf(j)] = j[3] /\ CaseOf(j) \notin C \X Tests}

SetCommits(C) ==
  LET new   == NewCases(C)
      batch == IF BatchClosed(new) THEN {<<x[1], x[2], calls + 1>> : x \in new} ELSE {}
  IN /\ ~closing
     /\ calls < MaxCalls
     /\ calls' = calls + 1
     /\ panicked' = (panicked \/ ~BatchClosed(new))
     /\ ct' = ct \cup Dropped(C)
     /\ job_cts' = [x \in Case |-> IF x \in KeptCases(C) THEN job_cts[x]
                                   ELSE IF <<x[1], x[2], calls + 1>> \in batch
                                        THEN calls + 1 ELSE 0]
     /\ phase' = [j \in Job |-> IF j \in batch THEN "deps" ELSE phase[j]]
     /\ count' = count + Cardinality(batch)
     /\ dirty' = (dirty \/ (count = 0 /\ batch # {}))
     /\ UNCHANGED <<got, outcome, refs, file, ex, sem, pool, settle, closing>>

\* Mutant: cancel_running, and no wait for settled.
ShutdownUnsettled ==
  /\ ~closing
  /\ closing' = TRUE
  /\ ct' = ct \cup Dropped({})
  /\ job_cts' = [x \in Case |-> 0]
  /\ settle' = "settled"
  /\ UNCHANGED <<calls, panicked, count, dirty, jobVars>>

\* The end of watch_loop: cancel_running is set_revisions([]), then settled.
Shutdown ==
  /\ ~closing
  /\ closing' = TRUE
  /\ ct' = ct \cup Dropped({})
  /\ job_cts' = [x \in Case |-> 0]
  /\ settle' = "check"
  /\ UNCHANGED <<calls, panicked, count, dirty, jobVars>>

-----------------------------------------------------------------------------
(* Database entries: an entry is locked shared by every DatabaseEntry that  *)
(* is still referenced, exclusively by a DatabaseOutput.                    *)

SharedHolders(e) == {j \in Job : EntryOf(j) = e /\ refs[j] # {}}
ExFree(e) == ex[e] = NoJob
\* Mutants: the exclusive lock ignores readers, or other writers.
UnlockedByWriter(e) == ExFree(e)
UnlockedByReaders(e) == SharedHolders(e) = {}
Unlocked(e) == ExFree(e) /\ SharedHolders(e) = {}
\* Mutant: only passing results count as results.
FoundPassing(j) == TestOf(j) \in Cacheable /\ file[EntryOf(j)] = "pass"
\* parse_result in Database::lookup.
Found(j) == TestOf(j) \in Cacheable /\ file[EntryOf(j)] # "none"

Fits(j) == \A k \in Keys : Needs[TestOf(j)][k] <= pool[k]

\* References left when j drops those it holds to the entries of D.
DropRefs(j, D) == [d \in Job |-> IF d \in D THEN refs[d] \ {j} ELSE refs[d]]

\* do_run returns outcome o.  Its locals go: the dependencies' entries it
\* received, the exclusive lock, the resources and the permit.  An Ok outcome is
\* a new DatabaseEntry, held by the job.
Return(j, o) ==
  /\ phase' = [phase EXCEPT ![j] = "returned"]
  /\ outcome' = [outcome EXCEPT ![j] = o]
  /\ refs' = [DropRefs(j, got[j]) EXCEPT ![j] = IF o \in Stored THEN {j} ELSE {}]
  /\ ex' = [e \in Entries |-> IF ex[e] = j THEN NoJob ELSE ex[e]]
  /\ sem' = IF phase[j] \in PermitPhases THEN sem + 1 ELSE sem
  /\ pool' = IF phase[j] \in ResourcePhases
             THEN [k \in Keys |-> pool[k] + Needs[TestOf(j)][k]] ELSE pool
  /\ UNCHANGED <<mgrVars, cntVars, got>>

Move(j, from, to) ==
  /\ phase[j] = from
  /\ phase' = [phase EXCEPT ![j] = to]

-----------------------------------------------------------------------------
(* TestJob::do_run, up to the child.                                        *)

\* await_dep_success receives outcomes in any order and gives up on the first
\* that is not a result with exit code 0.  It does not look at the cancellation.
DepSucceeds(j, d) ==
  /\ phase[j] = "deps"
  /\ d \in DepJobs(j) \ got[j]
  /\ phase[d] \in SentPhases
  /\ outcome[d] = "pass"
  /\ got' = [got EXCEPT ![j] = @ \cup {d}]
  /\ UNCHANGED <<mgrVars, cntVars, phase, outcome, refs, file, ex, sem, pool>>

\* Mutant: a cancelled dependency is not a failed one.
DepFailsUnlessCanceled(j, d) ==
  /\ phase[j] = "deps"
  /\ d \in DepJobs(j) \ got[j]
  /\ phase[d] \in SentPhases
  /\ outcome[d] \in {"fail", "error"}
  /\ Return(j, "error")
  /\ UNCHANGED file

DepFails(j, d) ==
  /\ phase[j] = "deps"
  /\ d \in DepJobs(j) \ got[j]
  /\ phase[d] \in SentPhases
  /\ outcome[d] # "pass"
  /\ Return(j, "error")
  /\ UNCHANGED file

DepsSucceeded(j) == got[j] = DepJobs(j)

AcquirePermit(j) ==
  /\ DepsSucceeded(j)
  /\ sem > 0
  /\ Move(j, "deps", "lookup")
  /\ sem' = sem - 1
  /\ UNCHANGED <<mgrVars, cntVars, got, outcome, refs, file, ex, pool>>

LookupFound(j) ==
  /\ phase[j] = "lookup"
  /\ Found(j)
  /\ ExFree(EntryOf(j))
  /\ Return(j, file[EntryOf(j)])
  /\ UNCHANGED file

LookupRun(j) ==
  /\ ~Found(j)
  /\ Unlocked(EntryOf(j))
  /\ Move(j, "lookup", "waiting")
  /\ ex' = [ex EXCEPT ![EntryOf(j)] = j]
  /\ UNCHANGED <<mgrVars, cntVars, got, outcome, refs, file, sem, pool>>

\* An I/O error, or too much contention on the entry.
LookupFails(j) ==
  /\ phase[j] = "lookup"
  /\ Return(j, "error")
  /\ UNCHANGED file

\* The biased select!: a poll looks at the cancellation, then tries to get the
\* resources.  A cancellation may arrive between the two.
ObserveCancel(j) ==
  /\ phase[j] = "waiting"
  /\ j \in ct
  /\ Return(j, "canceled")
  /\ UNCHANGED file

PollGet(j) ==
  /\ j \notin ct
  /\ Move(j, "waiting", "polled")
  /\ UNCHANGED <<mgrVars, cntVars, got, outcome, refs, file, ex, sem, pool>>

Grant(j) ==
  /\ Fits(j)
  /\ Move(j, "polled", "starting")
  /\ pool' = [k \in Keys |-> pool[k] - Needs[TestOf(j)][k]]
  /\ UNCHANGED <<mgrVars, cntVars, got, outcome, refs, file, ex, sem>>

Block(j) ==
  /\ ~Fits(j)
  /\ Move(j, "polled", "waiting")
  /\ UNCHANGED <<mgrVars, cntVars, got, outcome, refs, file, ex, sem, pool>>

-----------------------------------------------------------------------------
(* TestJob::execute_child.                                                  *)

StartChild(j) ==
  /\ Move(j, "starting", "running")
  /\ UNCHANGED <<mgrVars, cntVars, got, outcome, refs, file, ex, sem, pool>>

\* The checkout, the output files or the spawn fail.
StartFails(j) ==
  /\ phase[j] = "starting"
  /\ Return(j, "error")
  /\ UNCHANGED file

\* The child exits with a code that is a result.  set_result writes the file and
\* converts the lock: the exclusive lock is gone before the shared one is there.
ChildExits(j, o) ==
  /\ Move(j, "running", "downgrade")
  /\ outcome' = [outcome EXCEPT ![j] = o]
  /\ file' = [file EXCEPT ![EntryOf(j)] = o]
  /\ ex' = [ex EXCEPT ![EntryOf(j)] = NoJob]
  /\ UNCHANGED <<mgrVars, cntVars, got, refs, sem, pool>>

\* Killed by a signal, or an exit code the test declares to be an error.
ChildErrors(j) ==
  /\ phase[j] = "running"
  /\ Return(j, "error")
  /\ UNCHANGED file

\* set_content truncates the file before it writes: a failure leaves no result.
StoreFails(j) ==
  /\ phase[j] = "running"
  /\ Return(j, "error")
  /\ file' = [file EXCEPT ![EntryOf(j)] = "none"]

DowngradeDone(j) ==
  /\ phase[j] = "downgrade"
  /\ ExFree(EntryOf(j))
  /\ Return(j, outcome[j])
  /\ UNCHANGED file

DowngradeFails(j) ==
  /\ phase[j] = "downgrade"
  /\ Return(j, "error")
  /\ UNCHANGED file

CancelChild(j) ==
  /\ j \in ct
  /\ Move(j, "running", "stopping")
  /\ UNCHANGED <<mgrVars, cntVars, got, outcome, refs, file, ex, sem, pool>>

\* The child has died of SIGTERM, or of SIGKILL after the grace period.
ChildStopped(j) ==
  /\ phase[j] = "stopping"
  /\ Return(j, "canceled")
  /\ UNCHANGED file

-----------------------------------------------------------------------------
(* TestJob::run after do_run, and the drop of the job.                      *)

\* Mutant: dependents get the outcome without its lock.
ReceiversNone(j) == {}

\* notify_completion: every dependent whose receiver still exists gets a
\* reference to the entry along with the outcome.
Receivers(j) == {k \in Dependents(j) : phase[k] \in LivePhases}

NotifyCompletion(j) ==
  /\ Move(j, "returned", "notified")
  /\ refs' = [refs EXCEPT ![j] = IF outcome[j] \in Stored THEN @ \cup Receivers(j) ELSE @]
  /\ UNCHANGED <<mgrVars, cntVars, got, outcome, file, ex, sem, pool>>

\* The TestJob goes: its JobToken, and outcomes it has not received.
DropJob(j) ==
  /\ Move(j, "notified", "untokened")
  /\ refs' = DropRefs(j, DepJobs(j))
  /\ count' = count - 1
  /\ dirty' = (dirty \/ count = 1)
  /\ UNCHANGED <<mgrVars, settle, got, outcome, file, ex, sem, pool>>

\* The spawned task drops the outcome that run returned.
DropOutcome(j) ==
  /\ Move(j, "untokened", "done")
  /\ refs' = [refs EXCEPT ![j] = @ \ {j}]
  /\ UNCHANGED <<mgrVars, cntVars, got, outcome, file, ex, sem, pool>>

-----------------------------------------------------------------------------
(* JobCounter::zero.  The channel reports a change only when the count      *)
(* becomes zero or stops being zero.                                        *)

SettleCheck ==
  /\ settle = "check"
  /\ settle' = IF count = 0 THEN "settled" ELSE "subscribe"
  /\ UNCHANGED <<mgrVars, jobVars, count, dirty>>

\* Mutant: wait_for blocks without looking at the value first.
SettleSubscribeBlind ==
  /\ settle = "subscribe"
  /\ settle' = "blocked"
  /\ dirty' = FALSE
  /\ UNCHANGED <<mgrVars, jobVars, count>>

SettleSubscribe ==
  /\ settle = "subscribe"
  /\ settle' = IF count = 0 THEN "settled" ELSE "blocked"
  /\ dirty' = FALSE
  /\ UNCHANGED <<mgrVars, jobVars, count>>

SettleWake ==
  /\ settle = "blocked"
  /\ dirty
  /\ settle' = IF count = 0 THEN "settled" ELSE "blocked"
  /\ dirty' = FALSE
  /\ UNCHANGED <<mgrVars, jobVars, count>>

Settle == SettleCheck \/ SettleSubscribe \/ SettleWake

-----------------------------------------------------------------------------

\* Steps the runtime takes for a job, whatever its child does.
Dependency(j) == \E d \in DepJobs(j) : DepSucceeds(j, d) \/ DepFails(j, d)
JobProgress(j) ==
  \/ Dependency(j) \/ AcquirePermit(j) \/ LookupFound(j) \/ LookupRun(j)
  \/ ObserveCancel(j) \/ PollGet(j) \/ Grant(j) \/ Block(j) \/ StartChild(j)
  \/ CancelChild(j) \/ ChildStopped(j) \/ DowngradeDone(j)
  \/ NotifyCompletion(j) \/ DropJob(j) \/ DropOutcome(j)

ChildEnds(j) == \/ \E o \in Stored : ChildExits(j, o)
                \/ ChildErrors(j)

JobFaults(j) == LookupFails(j) \/ StartFails(j) \/ StoreFails(j) \/ DowngradeFails(j)

JobStep(j) == JobProgress(j) \/ ChildEnds(j) \/ JobFaults(j)

\* The process has nothing left to do.
Finished ==
  /\ settle = "settled"
  /\ \A j \in Job : phase[j] \in {"none", "done"}
  /\ UNCHANGED vars

Next ==
  \/ \E C \in SUBSET Commits : SetCommits(C)
  \/ Shutdown
  \/ Settle
  \/ \E j \in Job : JobStep(j)
  \/ Finished

Spec == Init /\ [][Next]_vars

\* tokio keeps polling tasks that are woken; it says nothing of the child.
TaskFairness == WF_vars(Settle) /\ \A j \in Job : WF_vars(JobProgress(j))
\* Every test ends on its own.
ChildFairness == \A j \in Job : WF_vars(ChildEnds(j))

FairSpec == Spec /\ TaskFairness
-----------------------------------------------------------------------------
(* Properties.                                                              *)

TypeOK ==
  /\ job_cts \in [Case -> 0..MaxCalls]
  /\ calls \in 0..MaxCalls
  /\ panicked \in BOOLEAN
  /\ phase \in [Job -> Phases]
  /\ ct \in SUBSET Job
  /\ got \in [Job -> SUBSET Job]
  /\ outcome \in [Job -> Outcomes]
  /\ refs \in [Job -> SUBSET Job]
  /\ file \in [Entries -> {"none"} \cup Stored]
  /\ ex \in [Entries -> Job \cup {NoJob}]
  /\ sem \in 0..Permits
  /\ pool \in [Keys -> Nat]
  /\ count \in Nat
  /\ settle \in {"idle", "check", "subscribe", "blocked", "settled"}
  /\ dirty \in BOOLEAN
  /\ closing \in BOOLEAN

Live(j) == phase[j] \in LivePhases
HoldsResources(j) == phase[j] \in ResourcePhases
\* The resources of kind k that jobs have been granted: the n-th of job j.
Granted(k) == UNION {{j} \X (1..Needs[TestOf(j)][k]) : j \in {i \in Job : HoldsResources(i)}}
\* j has what it needs of its dependencies and still uses it.
UsesDeps(j) == phase[j] \in PermitPhases

\* set_commits never asks Dag::new for a case whose dependency is not in the same
\* batch: its expect("failed to build test case DAG") is never hit, although
\* job_cts mixes finished, running and cancelled generations.
BatchesClose == ~panicked

\* A job that is not cancelled is the tracked job of its test case: no job escapes
\* the next cancellation, and a case never has two jobs in earnest.
UncancelledTracked ==
  \A j \in Job : phase[j] # "none" /\ j \notin ct => job_cts[CaseOf(j)] = j[3]

\* From its permit to its return, a job's dependencies have all passed, and it
\* keeps their entries locked: no one runs a dependency's test, rewriting the
\* artifacts the job was pointed at.
DepArtifactsStable ==
  \A j \in Job : UsesDeps(j) =>
    \A d \in DepJobs(j) : /\ outcome[d] = "pass"
                          /\ j \in refs[d]
                          /\ ExFree(EntryOf(d))

\* A database entry is locked exclusively by one job or shared by others: nobody
\* holds a DatabaseEntry while the test that produces it runs.
LocksExclude == \A e \in Entries : ex[e] = NoJob \/ SharedHolders(e) = {}

\* Two jobs stored under one entry, of two generations or of two commits with one
\* tree, never have their children alive at the same time.
OneRunnerPerEntry ==
  \A j, k \in Job :
    /\ phase[j] \in {"starting", "running", "stopping"}
    /\ phase[k] \in {"starting", "running", "stopping"}
    /\ EntryOf(j) = EntryOf(k)
    => j = k

\* Every resource is in the pool or with a job that was granted it, along each way
\* a job can end.
PoolBalance == \A k \in Keys : pool[k] + Cardinality(Granted(k)) = PoolSize[k]

\* Once settled has returned, no job is alive, so that none has a child or
\* resources, no permit is taken and no entry locked exclusively: the caller may
\* tear everything down.
SettledQuiet ==
  settle = "settled" =>
    /\ \A j \in Job : ~Live(j)
    /\ sem = Permits
    /\ \A e \in Entries : ExFree(e)

\* While anyone holds a job's DatabaseEntry, the result it carries is the one in
\* the file, despite the gap in set_result's downgrade.  Not so where a test is
\* never cached: another generation may rerun it in the gap.
CachedEntryCurrent ==
  \A j \in Job : TestOf(j) \in Cacheable /\ refs[j] # {}
                   => file[EntryOf(j)] = outcome[j]

\* A stored result of a cacheable test is never overwritten or lost.
CachedResultKept ==
  [][\A j \in Job : TestOf(j) \in Cacheable /\ file[EntryOf(j)] # "none"
                    => file'[EntryOf(j)] = file[EntryOf(j)]]_vars

\* After the watch loop ends, settled returns, whether or not the children end on
\* their own, and whatever the jobs were waiting for.
ShutdownSettles == closing ~> settle = "settled"

\* If children end on their own, every job that is spawned ends (calls are bounded,
\* so that in the end there are no more jobs): neither permits, database locks,
\* resources nor dependencies leave jobs waiting for each other.
JobsFinish == ChildFairness => <>[](\A j \in Job : phase[j] \in {"none", "done"})

\* The manager uses the pools as ResourceAlloc has it: a job asks once, and gives
\* back all it was granted exactly once, however it ends.
Alloc == INSTANCE ResourceAlloc WITH
  Clients <- Job, Keys <- Keys, Initial <- PoolSize,
  Want    <- [j \in Job |-> Needs[TestOf(j)]],
  free    <- pool,
  asking  <- {j \in Job : phase[j] \in {"waiting", "polled"}},
  holding <- {j \in Job : HoldsResources(j)},
  retired <- {}
PoolContract == Alloc!Spec

\* The jobs of an entry, of all generations and commits, use it as EntryStore has
\* it.
StateAt(p, holders) ==
  CASE holders # {} -> "reading"
    [] holders = {} /\ p \in {"waiting", "polled", "starting", "running", "stopping"} -> "running"
    [] holders = {} /\ p = "downgrade" -> "storing"
    [] holders = {} /\ p = "lookup" -> "asking"
    [] OTHER -> "idle"
StateOf(j) == StateAt(phase[j], refs[j])
JobsOf(e) == {j \in Job : EntryOf(j) = e}
Store(e) == INSTANCE EntryStore WITH
  Clients  <- JobsOf(e), Outcomes <- Stored, Configs <- {e},
  config   <- [j \in JobsOf(e) |-> e],
  Caching  <- IF \E j \in JobsOf(e) : TestOf(j) \in Cacheable THEN {e} ELSE {},
  NoResult <- <<>>,
  stored   <- IF file[e] = "none" THEN <<>> ELSE <<e, file[e]>>,
  state    <- [j \in JobsOf(e) |-> StateOf(j)],
  entry    <- [j \in JobsOf(e) |-> IF StateOf(j) \in {"reading", "storing"}
                                   THEN <<e, outcome[j]>> ELSE <<>>]
EntryContract ==
  /\ \A e \in Entries : Store(e)!Init
  /\ [][\A e \in Entries : Store(e)!Next \/ UNCHANGED Store(e)!vars]_vars
=============================================================================
