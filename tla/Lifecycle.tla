------------------------------ MODULE Lifecycle ------------------------------
(***************************************************************************)
(* A run of limmat from its command line to its exit: the commands of      *)
(* main.rs, the ErrGroup of tasks they wait for (util.rs), the temporary   *)
(* worktrees they create and remove (git.rs), and the process groups of    *)
(* the tests (test.rs).  SIGINT may come at any time.                      *)
(*                                                                         *)
(* Of a job the model keeps what the life of worktrees and processes       *)
(* depends on; JobManager has the rest.  The watch loop spawns its jobs    *)
(* once.  Of the pools, worktrees are followed one by one and the tokens of *)
(* the file counted.                                                       *)
(***************************************************************************)
EXTENDS Config

CONSTANTS
  Explore,        \* bound: the configurations whose commands are followed to the end
  Forkers,        \* bound: the tests whose commands start another process
  MaxWorktrees,   \* bound: no configuration asks for more worktrees
  MaxTries        \* attempts at `git worktree add` (5 in the code)

ASSUME BoundAssumption == MaxWorktrees \in Nat /\ MaxTries \in Nat

Worktree == 1..MaxWorktrees
NoTree == 0

VARIABLES
  run,       \* what the command is doing
  canceled,  \* the cancellation token, which SIGINT cancels
  result,    \* what the command will return: "ok", "err" or "code50"
  serve,     \* the task that serves the web UI
  loop,      \* the task of watch_loop
  wt,        \* wt[w]: the worktree, from the process that creates it on
  reg,       \* reg[w]: does git have it registered?
  tries,     \* tries[w]: attempts made
  late,      \* worktrees whose `git worktree add` outlived the TempWorktree
  job,       \* job[t]: the job of test t
  uses,      \* uses[t]: the worktree it holds
  leader,    \* leader[t]: the process it spawned
  member     \* member[t]: another process of its process group

runVars == <<run, canceled, result, serve, loop>>
treeVars == <<wt, reg, tries, late>>
jobVars == <<job, uses, leader, member>>
lifeVars == <<run, canceled, result, serve, loop, wt, reg, tries, late, job, uses, leader, member>>
vars == <<planVars, lifeVars>>

Outcomes == {"ok", "bad", "err", "canceled"}   \* "bad": a result other than exit code 0
Spawned == IF command = "watch" THEN ToSet(parsed) ELSE ToSet(jobs)
OneShot == command \in {"test", "get_run", "get"}

LifeInit ==
  /\ run = "start"
  /\ canceled = FALSE
  /\ result = "ok"
  /\ serve = "off"
  /\ loop = "off"
  /\ wt = [w \in Worktree |-> "none"]
  /\ reg = [w \in Worktree |-> "no"]
  /\ tries = [w \in Worktree |-> 0]
  /\ late = {}
  /\ job = [t \in Node |-> "none"]
  /\ uses = [t \in Node |-> NoTree]
  /\ leader = [t \in Node |-> "none"]
  /\ member = [t \in Node |-> "none"]

Followed == pc = "planned" /\ file \in Explore

-----------------------------------------------------------------------------
(* The command: watch, test, lookup and ensure_tests_run of main.rs *)

Sigint ==
  /\ file \in Explore
  /\ run # "exited"
  /\ ~canceled
  /\ canceled' = TRUE
  /\ UNCHANGED <<run, result, serve, loop, treeVars, jobVars>>

Begin ==
  /\ Followed
  /\ run = "start"
  /\ run' = CASE command = "get" -> "lookup"
              [] command = "test" /\ jobs = <<>> -> "main"
              [] OTHER -> "building"
  /\ serve' = IF command = "watch" THEN "on" ELSE "off"
  /\ UNCHANGED <<canceled, result, loop, treeVars, jobVars>>

\* One-shot commands create no more worktrees than their tests can use.
Wanted == LET needy == Cardinality({t \in ToSet(jobs) : NeedsWorktree(t)})
          IN IF command = "watch" \/ needy > file.num_worktrees THEN file.num_worktrees ELSE needy
Built == {w \in Worktree : wt[w] # "none"}

\* The directory is made, and a task spawned that runs TempWorktree::new in it.
Build ==
  /\ run = "building"
  /\ Cardinality(Built) < Wanted
  /\ LET w == Cardinality(Built) + 1
     IN /\ wt' = [wt EXCEPT ![w] = "starting"]
        /\ tries' = [tries EXCEPT ![w] = 1]
  /\ UNCHANGED <<runVars, reg, late, jobVars>>

\* worktree_builder.build()? leaves the function, and the ErrGroup is dropped.
BuildFails ==
  /\ run = "building"
  /\ Cardinality(Built) < Wanted
  /\ run' = "exiting"
  /\ result' = "err"
  /\ UNCHANGED <<canceled, serve, loop, treeVars, jobVars>>

SpawnRest ==
  /\ run = "building"
  /\ Cardinality(Built) = Wanted
  /\ run' = "waiting"
  /\ IF command = "watch"
       THEN loop' = "run" /\ UNCHANGED job
       ELSE job' = [t \in Node |-> IF t \in Spawned THEN "deps" ELSE job[t]] /\ UNCHANGED loop
  /\ UNCHANGED <<canceled, result, serve, treeVars, uses, leader, member>>

-----------------------------------------------------------------------------
(* TempWorktree *)

Creating == {"starting", "working", "added", "failed", "cleanup"}

\* `git worktree add` registers the worktree, then fills it.
AddRegisters(w) ==
  /\ wt[w] = "starting"
  /\ wt' = [wt EXCEPT ![w] = "working"]
  /\ reg' = [reg EXCEPT ![w] = "yes"]
  /\ UNCHANGED <<runVars, tries, late, jobVars>>

AddEnds(w) ==
  /\ wt[w] = "working"
  /\ wt' = [wt EXCEPT ![w] = "added"]
  /\ UNCHANGED <<runVars, reg, tries, late, jobVars>>

\* When it fails, git undoes the registration.
AddFails(w) ==
  /\ wt[w] \in {"starting", "working"}
  /\ wt' = [wt EXCEPT ![w] = "failed"]
  /\ reg' = [reg EXCEPT ![w] = "no"]
  /\ UNCHANGED <<runVars, tries, late, jobVars>>

\* The task puts the new worktree into the pool.
CreateDone(w) ==
  /\ run # "exited"
  /\ wt[w] = "added"
  /\ wt' = [wt EXCEPT ![w] = "pooled"]
  /\ UNCHANGED <<runVars, reg, tries, late, jobVars>>

Retry(w) ==
  /\ run # "exited"
  /\ wt[w] = "failed"
  /\ tries[w] < MaxTries
  /\ tries' = [tries EXCEPT ![w] = @ + 1]
  /\ wt' = [wt EXCEPT ![w] = "starting"]
  /\ UNCHANGED <<runVars, reg, late, jobVars>>

GiveUp(w) ==
  /\ run # "exited"
  /\ wt[w] = "failed"
  /\ tries[w] >= MaxTries
  /\ wt' = [wt EXCEPT ![w] = "gone"]
  /\ UNCHANGED <<runVars, reg, tries, late, jobVars>>

\* select! sees the token; dropping the command does not stop its process.
CancelCreate(w) ==
  /\ run # "exited"
  /\ canceled
  /\ wt[w] \in Creating \ {"cleanup"}
  /\ wt' = [wt EXCEPT ![w] = "cleanup"]
  /\ late' = IF wt[w] = "starting" THEN late \cup {w} ELSE late
  /\ UNCHANGED <<runVars, reg, tries, jobVars>>

\* `git worktree remove --force --force`, which fails on a worktree that is not
\* registered (yet).
Unregister(r, W) == [w \in Worktree |-> IF w \in W /\ r[w] = "yes" THEN "no" ELSE r[w]]

Clean(w) ==
  /\ wt[w] = "cleanup"
  /\ wt' = [wt EXCEPT ![w] = "gone"]
  /\ reg' = Unregister(reg, {w})
  /\ UNCHANGED <<runVars, tries, late, jobVars>>

\* The process nobody waits for registers the worktree, or fails.
LateAdd(w) ==
  /\ w \in late
  /\ late' = late \ {w}
  /\ \/ reg' = [reg EXCEPT ![w] = IF wt[w] = "gone" THEN "leaked" ELSE "yes"]
     \/ UNCHANGED reg
  /\ UNCHANGED <<runVars, wt, tries, jobVars>>

-----------------------------------------------------------------------------
(* The tasks of watch *)

ServeEnds ==
  /\ run # "exited"
  /\ serve = "on"
  /\ canceled
  /\ serve' = "off"
  /\ UNCHANGED <<run, canceled, result, loop, treeVars, jobVars>>

\* The watch loop starts the jobs of its range.
LoopSpawns ==
  /\ run # "exited"
  /\ loop = "run"
  /\ \A t \in Spawned : job[t] = "none"
  /\ job' = [t \in Node |-> IF t \in Spawned THEN "deps" ELSE job[t]]
  /\ UNCHANGED <<runVars, treeVars, uses, leader, member>>

\* It sees the token, cancels the jobs and waits for Manager::settled ...
LoopStops ==
  /\ run # "exited"
  /\ loop = "run"
  /\ canceled
  /\ loop' = "settling"
  /\ UNCHANGED <<run, canceled, result, serve, treeVars, jobVars>>

LoopSettled ==
  /\ run # "exited"
  /\ loop = "settling"
  /\ \A t \in Spawned : job[t] \in Outcomes \cup {"none"}
  /\ loop' = "ended"
  /\ UNCHANGED <<run, canceled, result, serve, treeVars, jobVars>>

\* ... or returns through one of its question marks, its jobs uncancelled.
LoopFails ==
  /\ run # "exited"
  /\ loop = "run"
  /\ loop' = "failed"
  /\ UNCHANGED <<run, canceled, result, serve, treeVars, jobVars>>

-----------------------------------------------------------------------------
(* Pools::get, for the tokens of the configuration file *)

Asked(t, n) == IF \E r \in Asks(t) : r.name = n THEN (CHOOSE r \in Asks(t) : r.name = n).count
                                               ELSE 0
Users == {t \in Node : job[t] \in {"granted", "child", "stopping"}}
Used(n) == Cardinality(UNION {{t} \X (1..Asked(t, n)) : t \in Users})

TokensFree(t) == \A r \in Asks(t) : r.count <= Tokens(r.name) - Used(r.name)
\* The parser compares names only: a test may ask for more than there will ever be.
TokensExist(t) == \A r \in Asks(t) : r.count <= Tokens(r.name)

-----------------------------------------------------------------------------
(* ErrGroup::wait and what follows it *)

TaskFailed ==
  \/ \E w \in Worktree : wt[w] = "gone"
  \/ loop = "failed"
  \/ command # "watch" /\ \E t \in Spawned : job[t] \in Outcomes \ {"ok"}

TasksEnded ==
  /\ \A w \in Worktree : wt[w] \notin Creating
  /\ loop \notin {"run", "settling"}
  /\ serve = "off"
  /\ command # "watch" => \A t \in Spawned : job[t] \in Outcomes

\* Mutant: the error is not kept.
FirstErrorLost ==
  /\ run' = "joining"
  /\ canceled' = TRUE
  /\ UNCHANGED result
\* Mutant: the other tasks are waited for, but not cancelled.
FirstErrorAlone ==
  /\ run' = "joining"
  /\ result' = "err"
  /\ UNCHANGED canceled
\* The first error cancels the other tasks.
FirstError ==
  /\ run' = "joining"
  /\ canceled' = TRUE
  /\ result' = "err"

WaitFails ==
  /\ run = "waiting"
  /\ TaskFailed
  /\ FirstError
  /\ UNCHANGED <<serve, loop, treeVars, jobVars>>

\* try_remove_worktrees takes the worktrees that are in the pool.
\* Mutant: wait returns the first error without joining the other tasks.
GroupEndedEarly == IF run = "waiting" THEN TasksEnded /\ ~TaskFailed ELSE run = "joining"
GroupEnded == TasksEnded /\ ((run = "waiting" /\ ~TaskFailed) \/ run = "joining")

TakeWorktrees ==
  /\ run \in {"waiting", "joining"}
  /\ GroupEnded
  /\ run' = "removing"
  /\ wt' = [w \in Worktree |-> IF wt[w] = "pooled" THEN "removing" ELSE wt[w]]
  /\ UNCHANGED <<canceled, result, serve, loop, reg, tries, late, jobVars>>

Removed(w) ==
  /\ wt[w] = "removing"
  /\ wt' = [wt EXCEPT ![w] = "gone"]
  /\ reg' = Unregister(reg, {w})
  /\ UNCHANGED <<runVars, tries, late, jobVars>>

RemovalDone ==
  /\ run = "removing"
  /\ \A w \in Worktree : wt[w] # "removing"
  /\ run' = CASE command = "watch" \/ result = "err" -> "exiting"
              [] command = "test" /\ result # "err" -> "main"
              [] OTHER -> "lookup"
  /\ UNCHANGED <<canceled, result, serve, loop, treeVars, jobVars>>

\* test runs the target itself in the repository's own worktree.  It waits for
\* the target's tokens without looking at the cancellation.
MainStarts ==
  /\ run = "main"
  /\ job[target] = "none"
  /\ TokensFree(target)
  /\ \/ /\ job' = [job EXCEPT ![target] = "child"]
        /\ leader' = [leader EXCEPT ![target] = "alive"]
     \/ /\ job' = [job EXCEPT ![target] = "err"]     \* the spawn fails
        /\ UNCHANGED leader
  /\ UNCHANGED <<runVars, treeVars, uses, member>>

MainEnds ==
  /\ run = "main"
  /\ job[target] \in Outcomes
  /\ run' = "exiting"
  /\ result' = IF job[target] \in {"ok", "bad"} THEN "ok" ELSE "err"
  /\ UNCHANGED <<canceled, serve, loop, treeVars, jobVars>>

\* Without --run the database may or may not have a result; after a run it has
\* one if the test's results are cached at all.  Reading it may fail.
Lookup ==
  /\ run = "lookup"
  /\ run' = "exiting"
  /\ result' \in CASE command = "get" -> {"ok", "code50", "err"}
                   [] command # "get" /\ TestNamed(target).caches -> {"ok", "err"}
                   [] OTHER -> {"err"}
  /\ UNCHANGED <<canceled, serve, loop, treeVars, jobVars>>

-----------------------------------------------------------------------------
(* Jobs: TestJob::do_run and execute_child of test.rs *)

\* watch gives its jobs tokens of their own, which cancel_running cancels.
JobCanceled(t) == IF command = "watch" THEN loop \in {"settling", "ended"} ELSE canceled
Running == run # "exited"

\* A worktree goes back to the pool; if the pool is gone, put panics, and the
\* worktree is dropped and removed.
GiveBack(t) ==
  LET w == uses[t]
      kept == run \in {"building", "waiting", "joining"}
  IN /\ uses' = [uses EXCEPT ![t] = NoTree]
     /\ IF w = NoTree THEN UNCHANGED <<wt, reg>>
        ELSE /\ wt' = [wt EXCEPT ![w] = IF kept THEN "pooled" ELSE "gone"]
             /\ reg' = IF kept THEN reg ELSE Unregister(reg, {w})

DepsEnd(t) ==
  /\ Running
  /\ job[t] = "deps"
  /\ \/ /\ \E d \in ToSet(DependsOn[t]) : job[d] \in Outcomes \ {"ok"}
        /\ job' = [job EXCEPT ![t] = "err"]
     \/ /\ \A d \in ToSet(DependsOn[t]) : job[d] = "ok"
        /\ \/ job' = [job EXCEPT ![t] = "pool"]
           \/ job' = [job EXCEPT ![t] = "err"]     \* the database lookup fails
           \/ /\ TestNamed(t).caches               \* or has a result
              /\ \E r \in {"ok", "bad"} : job' = [job EXCEPT ![t] = r]
  /\ UNCHANGED <<runVars, treeVars, uses, leader, member>>

\* select! is biased: it polls the token, then the pools.
PoolCanceled(t) ==
  /\ Running
  /\ job[t] = "pool"
  /\ JobCanceled(t)
  /\ job' = [job EXCEPT ![t] = "canceled"]
  /\ UNCHANGED <<runVars, treeVars, uses, leader, member>>

Available(t) ==
  /\ NeedsWorktree(t) => \E w \in Worktree : wt[w] = "pooled"
  /\ TokensFree(t)

\* A poll of the pools that would block leaves nothing behind.
PollGet(t) ==
  /\ Running
  /\ job[t] = "pool"
  /\ ~JobCanceled(t)
  /\ Available(t)
  /\ job' = [job EXCEPT ![t] = "polled"]
  /\ UNCHANGED <<runVars, treeVars, uses, leader, member>>

\* The token may have been cancelled since.
Grant(t) ==
  /\ Running
  /\ job[t] = "polled"
  /\ Available(t)
  /\ job' = [job EXCEPT ![t] = "granted"]
  /\ IF NeedsWorktree(t)
       THEN \E w \in Worktree : /\ wt[w] = "pooled"
                                /\ wt' = [wt EXCEPT ![w] = "held"]
                                /\ uses' = [uses EXCEPT ![t] = w]
       ELSE UNCHANGED <<wt, uses>>
  /\ UNCHANGED <<runVars, reg, tries, late, leader, member>>

Block(t) ==
  /\ Running
  /\ job[t] = "polled"
  /\ ~Available(t)
  /\ job' = [job EXCEPT ![t] = "pool"]
  /\ UNCHANGED <<runVars, treeVars, uses, leader, member>>

\* The commit is checked out and the command spawned, or one of the two fails.
Spawn(t) ==
  /\ Running
  /\ job[t] = "granted"
  /\ job' = [job EXCEPT ![t] = "child"]
  /\ leader' = [leader EXCEPT ![t] = "alive"]
  /\ UNCHANGED <<runVars, treeVars, uses, member>>

SpawnFails(t) ==
  /\ Running
  /\ job[t] = "granted"
  /\ job' = [job EXCEPT ![t] = "err"]
  /\ GiveBack(t)
  /\ UNCHANGED <<runVars, tries, late, leader, member>>

\* The test command forks, its processes end.
Fork(t) ==
  /\ t \in Forkers
  /\ leader[t] = "alive"
  /\ member[t] = "none"
  /\ member' = [member EXCEPT ![t] = "alive"]
  /\ UNCHANGED <<runVars, treeVars, job, uses, leader>>

LeaderExits(t) ==
  /\ leader[t] = "alive"
  /\ leader' = [leader EXCEPT ![t] = "dead"]
  /\ UNCHANGED <<runVars, treeVars, job, uses, member>>

MemberExits(t) ==
  /\ member[t] = "alive"
  /\ member' = [member EXCEPT ![t] = "dead"]
  /\ UNCHANGED <<runVars, treeVars, job, uses, leader>>

\* The child is reaped: its result is stored, or an error reported.
ChildDone(t) ==
  /\ Running
  /\ job[t] = "child"
  /\ leader[t] = "dead"
  /\ \E r \in {"ok", "bad", "err"} : job' = [job EXCEPT ![t] = r]
  /\ GiveBack(t)
  /\ UNCHANGED <<runVars, tries, late, leader, member>>

\* SIGTERM to the process group, which its processes may heed or not.
\* Mutant: the worktree is given back at once.
ToldToStopFree(t) == GiveBack(t)
ToldToStop(t) == UNCHANGED <<wt, reg, uses>>

ChildCanceled(t) ==
  /\ Running
  /\ job[t] = "child"
  /\ leader[t] = "alive"
  /\ IF run = "main" THEN canceled ELSE JobCanceled(t)
  /\ job' = [job EXCEPT ![t] = "stopping"]
  /\ ToldToStop(t)
  /\ UNCHANGED <<runVars, tries, late, leader, member>>

ChildStopped(t) ==
  /\ Running
  /\ job[t] = "stopping"
  /\ leader[t] = "dead"
  /\ job' = [job EXCEPT ![t] = "canceled"]
  /\ GiveBack(t)
  /\ UNCHANGED <<runVars, tries, late, leader, member>>

Killed(alive) == IF alive = "alive" THEN "dead" ELSE alive
\* Mutant: SIGTERM again instead of SIGKILL.
GraceOverMild(t) == UNCHANGED <<leader, member>>
\* shutdown_grace_period is over: SIGKILL to the process group.
GraceOver(t) ==
  /\ leader' = [leader EXCEPT ![t] = Killed(@)]
  /\ member' = [member EXCEPT ![t] = Killed(@)]

Timeout(t) ==
  /\ Running
  /\ job[t] = "stopping"
  /\ leader[t] = "alive"
  /\ GraceOver(t)
  /\ UNCHANGED <<runVars, treeVars, job, uses>>

-----------------------------------------------------------------------------
(* The end of the process *)

\* ChildDropGuard: children not reaped yet are killed with their group.
\* Mutant: no drop guard; dropping a tokio Child leaves its process alone.
DroppedNothing == {}
Dropped == {t \in Node : job[t] \in {"child", "stopping"}}

\* do_main returns and the runtime drops what is left of the tasks, among it
\* the pools and with them the worktrees.
Exit ==
  /\ run = "exiting"
  /\ run' = "exited"
  /\ leader' = [t \in Node |-> IF t \in Dropped THEN Killed(leader[t]) ELSE leader[t]]
  /\ member' = [t \in Node |-> IF t \in Dropped THEN Killed(member[t]) ELSE member[t]]
  /\ wt' = [w \in Worktree |-> IF wt[w] = "none" THEN "none" ELSE "gone"]
  /\ reg' = Unregister(reg, Worktree)
  /\ late' = late \cup {w \in Worktree : wt[w] = "starting"}
  /\ UNCHANGED <<canceled, result, serve, loop, tries, job, uses>>

-----------------------------------------------------------------------------

\* What goes on by itself: tasks, timers, git.
TreeStep(w) ==
  \/ AddRegisters(w) \/ AddEnds(w) \/ CreateDone(w) \/ Retry(w) \/ GiveUp(w)
  \/ CancelCreate(w) \/ Clean(w) \/ Removed(w)
JobStep(t) ==
  \/ DepsEnd(t) \/ PoolCanceled(t) \/ PollGet(t) \/ Grant(t) \/ Block(t) \/ Spawn(t)
  \/ ChildDone(t) \/ ChildCanceled(t) \/ ChildStopped(t) \/ Timeout(t)
MainStep ==
  \/ Begin \/ Build \/ SpawnRest \/ ServeEnds \/ LoopSpawns \/ LoopStops \/ LoopSettled
  \/ WaitFails \/ TakeWorktrees \/ RemovalDone \/ MainStarts \/ MainEnds \/ Lookup \/ Exit

LifeStep ==
  \/ MainStep
  \/ \E w \in Worktree : TreeStep(w)
  \/ \E t \in Node : JobStep(t)

\* What may happen but need not.
MayHappen ==
  \/ Sigint \/ BuildFails \/ LoopFails
  \/ \E w \in Worktree : AddFails(w) \/ LateAdd(w)
  \/ \E t \in Node : SpawnFails(t) \/ Fork(t) \/ LeaderExits(t) \/ MemberExits(t)

Init == ConfigInit /\ LifeInit
Plan == PlanStep /\ UNCHANGED lifeVars
Live == LifeStep /\ UNCHANGED planVars

\* What waits for more tokens than there are, or for a worktree where none is made.
TargetStarves == run = "main" /\ job[target] = "none" /\ ~TokensExist(target)
JobStarves(t) ==
  /\ job[t] = "pool"
  /\ ~TokensExist(t) \/ (NeedsWorktree(t) /\ file.num_worktrees = 0)

Stopped ==
  \/ pc = "error"
  \/ run = "exited"
  \/ pc = "planned" /\ file \notin Explore
  \/ TargetStarves

Next ==
  \/ Plan
  \/ Live
  \/ MayHappen /\ UNCHANGED planVars
  \/ Stopped /\ UNCHANGED vars

Spec == Init /\ [][Next]_vars /\ WF_vars(Plan) /\ WF_vars(Live)

-----------------------------------------------------------------------------
(* Properties *)

\* A test's child never works in a worktree that has been removed or given to
\* somebody else.
HeldWorktreesStay ==
  \A t \in Node : leader[t] = "alive" /\ NeedsWorktree(t) /\ run # "main" =>
    /\ uses[t] # NoTree
    /\ wt[uses[t]] = "held"
    /\ reg[uses[t]] = "yes"
    /\ \A s \in Node \ {t} : uses[s] # uses[t]

\* When limmat has exited, the children it was responsible for are dead and git
\* has no worktree of its registered, but for those whose `git worktree add`
\* had been cancelled before it registered them.
ExitClean ==
  run = "exited" =>
    /\ \A t \in Node : leader[t] # "alive"
    /\ \A w \in Worktree : reg[w] # "yes"

\* ErrGroup::wait returns when every task of the group has ended, error or not:
\* from then on nobody adds worktrees, and no dependency job runs.
TeardownAfterUse ==
  run \in {"removing", "main", "lookup"} =>
    /\ \A w \in Worktree : wt[w] \notin Creating \cup {"pooled"}
    /\ command # "watch" => \A t \in ToSet(jobs) : job[t] \in Outcomes /\ leader[t] # "alive"

\* A one-shot command that succeeds has had every dependency succeed, and `get
\* --run` the target too.
SuccessMeansDone ==
  run = "exited" /\ result = "ok" /\ OneShot => \A t \in ToSet(jobs) : job[t] = "ok"

\* After SIGINT, and after the first error of a task, limmat exits, even if the
\* tests' processes ignore SIGTERM and jobs wait for what does not exist; with one
\* exception, `test` waiting for tokens of its target that do not exist.
ShutdownEnds == canceled /\ Followed ~> run = "exited" \/ TargetStarves

\* A one-shot command ends if the commands of its tests do, unless a test asks for
\* more than there is.
OneShotEnds ==
  (\A t \in Node : WF_vars(LeaderExits(t) /\ UNCHANGED planVars))
    => (OneShot /\ Followed ~>
          run = "exited" \/ TargetStarves \/ \E t \in ToSet(jobs) : JobStarves(t))

\* README.md: "the test command's process group will receive SIGTERM ... If it
\* doesn't shut down after a timeout then it will receive SIGKILL instead".
GroupStopped == \A t \in Node : job[t] = "canceled" => member[t] # "alive"
=============================================================================
