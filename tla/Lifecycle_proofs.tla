-------------------------- MODULE Lifecycle_proofs --------------------------
(***************************************************************************)
(* A run of limmat, for every configuration file, every number of tests    *)
(* and worktrees: nobody touches the worktree a child works in, teardown   *)
(* starts when everything that uses worktrees has ended, nothing is left   *)
(* at the exit, and success means that every dependency succeeded.         *)
(***************************************************************************)
EXTENDS Lifecycle, Config_proofs

-----------------------------------------------------------------------------
(* The invariant *)

Runs == {"start", "building", "waiting", "joining", "removing", "main", "lookup", "exiting",
         "exited"}
TreeStates == Creating \cup {"none", "pooled", "held", "removing", "gone"}
JobStates == Outcomes \cup {"none", "deps", "pool", "polled", "granted", "child", "stopping"}
ProcStates == {"none", "alive", "dead"}

LifeTypeOK ==
  /\ run \in Runs
  /\ result \in {"ok", "err", "code50"}
  /\ loop \in {"off", "run", "settling", "ended", "failed"}
  /\ wt \in [Worktree -> TreeStates]
  /\ reg \in [Worktree -> {"no", "yes", "leaked"}]
  /\ late \subseteq Worktree
  /\ job \in [Node -> JobStates]
  /\ uses \in [Node -> Worktree \cup {NoTree}]
  /\ leader \in [Node -> ProcStates]
  /\ member \in [Node -> ProcStates]

\* Nothing starts before the plan is made, no job before the worktrees are
\* ordered, and those are ordered one after the other.
InOrder ==
  /\ run # "start" => pc = "planned"
  /\ run = "start" => \A w \in Worktree : wt[w] = "none"
  /\ run \in {"start", "building"} =>
       /\ loop = "off"
       /\ \A t \in Node : job[t] = "none"
       /\ \E n \in 0..MaxWorktrees : \A w \in Worktree : wt[w] # "none" <=> w <= n

\* Only the tests of the plan have jobs, and the target in the end.
JobsPlanned ==
  /\ loop # "off" => command = "watch"
  /\ run = "main" => command = "test"
  /\ run \notin {"main", "exiting", "exited"} => \A t \in Node \ Spawned : job[t] = "none"
  /\ run = "main" =>
       \A t \in Node : t = target => job[t] \in Outcomes \cup {"none", "child", "stopping"}

\* git's registration follows the worktree, but for a `git worktree add` that
\* nobody waits for.
Registered ==
  \A w \in Worktree :
    /\ wt[w] \in {"none", "starting", "failed"} => reg[w] = "no"
    /\ wt[w] \in {"working", "added", "pooled", "held", "removing"} => reg[w] = "yes"
    /\ wt[w] = "gone" => reg[w] # "yes"
    /\ w \in late => wt[w] \in {"cleanup", "gone"}

\* A child that lives has a job that waits for it.
ChildrenWatched ==
  \A t \in Node : leader[t] = "alive" => run # "exited" /\ job[t] \in {"child", "stopping"}

\* From the grant of its resources to the end of its child a job has a worktree,
\* if its test needs one and is not the target that `test` runs by itself.
Holds(t) ==
  /\ job[t] \in {"granted", "child", "stopping"}
  /\ NeedsWorktree(t)
  /\ ~(run = "main" /\ t = target)
Holding ==
  run # "exited" =>
    \A t \in Node :
      /\ Holds(t) => uses[t] \in Worktree /\ wt[uses[t]] = "held"
      /\ ~Holds(t) => uses[t] = NoTree
      /\ \A s \in Node : uses[s] = uses[t] /\ uses[t] # NoTree => s = t

\* What the command has seen so far.
ResultSays ==
  /\ run \in {"start", "building", "waiting", "main", "lookup"} => result = "ok"
  /\ run = "joining" => result = "err"
  /\ run = "removing" => result \in {"ok", "err"}

\* The group has ended; in the end the worktrees have, too.
Torn ==
  /\ run \in {"removing", "main", "lookup"} =>
       /\ \A w \in Worktree : wt[w] \notin Creating \cup {"pooled"}
       /\ command # "watch" => \A t \in ToSet(jobs) : t \in Node => job[t] \in Outcomes
  /\ run = "exited" => \A w \in Worktree : wt[w] \in {"none", "gone"}

\* It has ended well, unless there is an error to return.
JobsDone ==
  run \in {"removing", "main", "lookup", "exiting", "exited"} /\ result = "ok" /\ OneShot =>
    \A t \in ToSet(jobs) : t \in Node => job[t] = "ok"

LifeInv ==
  /\ LifeTypeOK
  /\ InOrder
  /\ JobsPlanned
  /\ Registered
  /\ ChildrenWatched
  /\ Holding
  /\ ResultSays
  /\ Torn
  /\ JobsDone

-----------------------------------------------------------------------------
(* The plan *)

\* The life of the program changes nothing in the plan.
LEMMA StepsOfPlan == [Next]_vars => [PlanStep]_planVars
  BY DEF Next, Plan, Live, vars

\* The plan keeps its invariant in the whole program.
LEMMA PlanInvariant == Spec => []ConfigInv
<1>1. ConfigInv /\ [Next]_vars => ConfigInv'
  BY StepsOfPlan, PlanStepKeeps
<1>2. Init => ConfigInv
  BY ConfigInitHolds DEF Init
<1> QED
  BY <1>1, <1>2, PTL DEF Spec

\* No worktree is zero.
LEMMA TreeNotZero == NoTree \notin Worktree
  BY BoundAssumption DEF NoTree, Worktree

\* The program starts in the invariant.
LEMMA LifeInitHolds == LifeInit => LifeInv
<1> SUFFICES ASSUME LifeInit PROVE LifeInv
  OBVIOUS
<1>1. LifeTypeOK
  BY DEF LifeInit, LifeTypeOK, Runs, TreeStates, JobStates, ProcStates
<1>2. InOrder
  <2>1. \A w \in Worktree : wt[w] # "none" <=> w <= 0
    BY BoundAssumption DEF LifeInit, Worktree
  <2>2. 0 \in 0..MaxWorktrees
    BY BoundAssumption
  <2> QED
    BY <2>1, <2>2 DEF LifeInit, InOrder
<1>3. JobsPlanned /\ Registered /\ ChildrenWatched /\ ResultSays /\ Torn /\ JobsDone
  BY DEF LifeInit, JobsPlanned, Registered, ChildrenWatched, ResultSays, Torn, JobsDone
<1>4. Holding
  BY DEF LifeInit, Holding, Holds
<1> QED
  BY <1>1, <1>2, <1>3, <1>4 DEF LifeInv

\* While the plan is made nothing lives.
LEMMA PlanKeeps ==
  ASSUME LifeInv, Plan
  PROVE  LifeInv'
<1>0. /\ UNCHANGED <<run, result, loop, wt, reg, late, job, uses, leader, member>>
      /\ pc # "planned"
  BY DEF Plan, lifeVars, PlanStep, NewDag, NewDagFails, Walk, Cyclic, Fold, Parse, CanParse,
         ParseFails, Accept, UndefinedResource, FoldEnds, Dispatch, Select, FoldJobs, BuildJob,
         CanBuild, Planned
<1>1. run = "start"
  BY <1>0 DEF LifeInv, InOrder
<1>2. LifeTypeOK' /\ InOrder' /\ Registered' /\ ChildrenWatched'
  BY <1>0, <1>1 DEF LifeInv, LifeTypeOK, InOrder, Registered, ChildrenWatched
<1>3. \A t \in Node : job[t] = "none" /\ uses[t] = NoTree
  BY <1>1 DEF LifeInv, InOrder, Holding, Holds
<1>4. JobsPlanned' /\ ResultSays' /\ Torn' /\ JobsDone' /\ Holding'
  BY <1>0, <1>1, <1>3 DEF LifeInv, InOrder, JobsPlanned, ResultSays, Torn, JobsDone, Holding, Holds
<1> QED
  BY <1>2, <1>4 DEF LifeInv

-----------------------------------------------------------------------------
(* Worktrees *)

TreeAct(w) == TreeStep(w) \/ AddFails(w) \/ LateAdd(w)

\* What a step of a worktree may do: it is neither the first nor one of a
\* worktree that a job holds, in the teardown none is created or pooled, and what
\* is gone stays so.
TreeMove(w) ==
  /\ wt[w] \notin {"none", "held"}
  /\ wt' = [wt EXCEPT ![w] = wt'[w]]
  /\ wt'[w] \in TreeStates \ {"none", "held"}
  /\ wt'[w] \in Creating \cup {"pooled"} => wt[w] \in Creating
  /\ wt[w] = "gone" => wt'[w] = "gone"
  /\ reg' = [reg EXCEPT ![w] = reg'[w]]
  /\ reg'[w] \in {"no", "yes", "leaked"}
  /\ late' \subseteq late \cup {w}

\* Removing one registered worktree changes that worktree's registration.
LEMMA UnregisterOne ==
  ASSUME LifeTypeOK, NEW w \in Worktree
  PROVE  Unregister(reg, {w}) = [reg EXCEPT ![w] = IF @ = "yes" THEN "no" ELSE @]
BY DEF LifeTypeOK, Unregister

\* Every step of a worktree is such a move.
LEMMA TreeActMoves ==
  ASSUME LifeInv, NEW w \in Worktree, TreeAct(w)
  PROVE  /\ TreeMove(w)
         /\ UNCHANGED <<runVars, jobVars>>
         /\ Registered'
<1>0. LifeTypeOK /\ Registered /\ w \in Worktree
  BY DEF LifeInv
<1>t. wt \in [Worktree -> TreeStates] /\ reg \in [Worktree -> {"no", "yes", "leaked"}] /\ late \subseteq Worktree
  BY <1>0 DEF LifeTypeOK
<1> USE DEF Creating, TreeStates
<1>1. CASE AddRegisters(w)
  BY <1>0, <1>t, <1>1 DEF AddRegisters, TreeMove, Registered
<1>2. CASE AddEnds(w)
  BY <1>0, <1>t, <1>2 DEF AddEnds, TreeMove, Registered
<1>3. CASE CreateDone(w)
  BY <1>0, <1>t, <1>3 DEF CreateDone, TreeMove, Registered
<1>4. CASE Retry(w)
  BY <1>0, <1>t, <1>4 DEF Retry, TreeMove, Registered
<1>5. CASE GiveUp(w)
  BY <1>0, <1>t, <1>5 DEF GiveUp, TreeMove, Registered
<1>6. CASE CancelCreate(w)
  BY <1>0, <1>t, <1>6 DEF CancelCreate, TreeMove, Registered
<1>7. CASE Clean(w)
  BY <1>0, <1>t, <1>7, UnregisterOne DEF Clean, TreeMove, Registered
<1>8. CASE Removed(w)
  BY <1>0, <1>t, <1>8, UnregisterOne DEF Removed, TreeMove, Registered
<1>9. CASE AddFails(w)
  BY <1>0, <1>t, <1>9 DEF AddFails, TreeMove, Registered
<1>10. CASE LateAdd(w)
  <2>1. wt[w] \in {"cleanup", "gone"} /\ wt' = wt /\ late' = late \ {w}
    BY <1>0, <1>10 DEF LateAdd, Registered
  <2>2. CASE reg' = reg
    BY <1>0, <1>t, <1>10, <2>1, <2>2 DEF LateAdd, TreeMove, Registered
  <2>3. CASE reg' = [reg EXCEPT ![w] = IF wt[w] = "gone" THEN "leaked" ELSE "yes"]
    BY <1>0, <1>t, <1>10, <2>1, <2>3 DEF LateAdd, TreeMove, Registered
  <2> QED
    BY <1>10, <2>2, <2>3 DEF LateAdd
<1> QED
  BY <1>1, <1>2, <1>3, <1>4, <1>5, <1>6, <1>7, <1>8, <1>9, <1>10 DEF TreeAct, TreeStep

\* So it keeps the invariant.
LEMMA TreeActKeeps ==
  ASSUME LifeInv, NEW w \in Worktree, TreeAct(w), UNCHANGED planVars
  PROVE  LifeInv'
<1>0. /\ TreeMove(w) /\ UNCHANGED <<run, canceled, result, serve, loop, job, uses, leader, member>>
      /\ UNCHANGED <<file, pc, parsed, command, target, jobs>>
      /\ LifeTypeOK
  BY TreeActMoves DEF runVars, jobVars, planVars, LifeInv
<1>s. Spawned' = Spawned /\ OneShot' = OneShot
  BY <1>0 DEF Spawned, OneShot
<1>h. \A t \in Node : Holds(t)' = Holds(t)
  BY <1>0 DEF Holds, NeedsWorktree, TestNamed
<1>n. \A v \in Worktree : wt'[v] = "none" <=> wt[v] = "none"
  BY <1>0 DEF TreeMove, LifeTypeOK
<1>1. LifeTypeOK'
  BY <1>0 DEF LifeTypeOK, TreeMove
<1>2. InOrder'
  BY <1>0, <1>n DEF LifeInv, InOrder
<1>3. JobsPlanned' /\ ChildrenWatched' /\ ResultSays' /\ JobsDone'
  BY <1>0, <1>s DEF LifeInv, JobsPlanned, ChildrenWatched, ResultSays, JobsDone
<1>4. Registered'
  BY TreeActMoves
<1>5. Holding'
  BY <1>0, <1>h DEF LifeInv, Holding, TreeMove, LifeTypeOK
<1>6. Torn'
  BY <1>0 DEF LifeInv, Torn, TreeMove, LifeTypeOK
<1> QED
  BY <1>1, <1>2, <1>3, <1>4, <1>5, <1>6 DEF LifeInv

-----------------------------------------------------------------------------
(* Jobs *)

\* The parts of the invariant that are about the order of things.
Ordered == InOrder /\ JobsPlanned /\ ResultSays /\ Torn /\ JobsDone

\* In what a job may do to worktrees none appears or vanishes, and in the
\* teardown none is pooled.
TreesKept ==
  \A w \in Worktree :
    /\ wt'[w] = "none" <=> wt[w] = "none"
    /\ wt'[w] \in Creating \cup {"pooled"} =>
         wt[w] \in Creating \cup {"pooled"} \/ run \notin {"removing", "main", "lookup"}

\* A job under way that moves on leaves the order of things alone.
LEMMA JobMoves ==
  ASSUME LifeInv, NEW t \in Node, NEW y \in JobStates \ {"none"},
         job[t] \notin Outcomes \cup {"none"}, run # "exited",
         job' = [job EXCEPT ![t] = y],
         run = "main" /\ t = target => y \in Outcomes \cup {"child", "stopping"},
         UNCHANGED planVars, UNCHANGED runVars, TreesKept
  PROVE  Ordered'
<1>0. /\ UNCHANGED <<run, canceled, result, serve, loop, file, pc, parsed, command, target, jobs>>
      /\ job \in [Node -> JobStates]
  BY DEF runVars, planVars, LifeInv, LifeTypeOK
<1>s. Spawned' = Spawned /\ OneShot' = OneShot
  BY <1>0 DEF Spawned, OneShot
<1>1. InOrder'
  BY <1>0 DEF LifeInv, InOrder, TreesKept
<1>2. JobsPlanned'
  BY <1>0, <1>s DEF LifeInv, JobsPlanned
<1>3. ResultSays'
  BY <1>0 DEF LifeInv, ResultSays
<1>4. Torn'
  <2>1. run \in {"removing", "main", "lookup"} => \A w \in Worktree : wt'[w] \notin Creating \cup {"pooled"}
    BY DEF LifeInv, Torn, TreesKept
  <2>2. run \in {"removing", "main", "lookup"} /\ command # "watch" =>
          \A u \in ToSet(jobs) : u \in Node => job'[u] \in Outcomes
    BY <1>0 DEF LifeInv, Torn
  <2> QED
    BY <1>0, <2>1, <2>2 DEF Torn
<1>5. JobsDone'
  <2>1. \A u \in Node : job[u] = "ok" => job'[u] = "ok"
    BY <1>0 DEF Outcomes
  <2> QED
    BY <1>0, <1>s, <2>1 DEF LifeInv, JobsDone
<1> QED
  BY <1>1, <1>2, <1>3, <1>4, <1>5 DEF Ordered

\* Giving back frees the worktree of t, and touches nobody else's.
LEMMA GiveBackLemma ==
  ASSUME LifeInv, NEW t \in Node, GiveBack(t), UNCHANGED late, run # "exited"
  PROVE  /\ uses' = [uses EXCEPT ![t] = NoTree]
         /\ wt' \in [Worktree -> TreeStates]
         /\ reg' \in [Worktree -> {"no", "yes", "leaked"}]
         /\ \A s \in Node \ {t} : uses[s] # NoTree => wt'[uses[s]] = wt[uses[s]]
         /\ Registered'
         /\ TreesKept
<1>0. /\ wt \in [Worktree -> TreeStates] /\ reg \in [Worktree -> {"no", "yes", "leaked"}]
      /\ uses \in [Node -> Worktree \cup {NoTree}]
      /\ Registered
  BY DEF LifeInv, LifeTypeOK
<1>1. uses' = [uses EXCEPT ![t] = NoTree]
  BY DEF GiveBack
<1>2. CASE uses[t] = NoTree
  <2>1. wt' = wt /\ reg' = reg
    BY <1>2 DEF GiveBack
  <2>2. Registered'
    BY <1>0, <2>1 DEF Registered
  <2> QED
    BY <1>0, <1>1, <2>1, <2>2 DEF TreesKept
<1>3. CASE uses[t] # NoTree
  <2> DEFINE w == uses[t]
             kept == run \in {"building", "waiting", "joining"}
  <2>1. /\ w \in Worktree /\ wt[w] = "held"
        /\ \A s \in Node \ {t} : uses[s] # w
    BY <1>0, <1>3 DEF LifeInv, Holding
  <2>2. wt' = [wt EXCEPT ![w] = IF kept THEN "pooled" ELSE "gone"]
    BY <1>3 DEF GiveBack
  <2>3. reg[w] = "yes" /\ w \notin late
    BY <1>0, <2>1 DEF Registered
  <2>4. reg' = [reg EXCEPT ![w] = IF kept THEN "yes" ELSE "no"]
    <3>1. kept => reg' = reg
      BY <1>3 DEF GiveBack
    <3>2. ~kept => reg' = Unregister(reg, {w})
      BY <1>3 DEF GiveBack
    <3>3. Unregister(reg, {w}) = [reg EXCEPT ![w] = "no"]
      BY <1>0, <2>1, <2>3 DEF Unregister
    <3> HIDE DEF kept, w
    <3> QED
      BY <1>0, <2>1, <2>3, <3>1, <3>2, <3>3
  <2> HIDE DEF w, kept
  <2>5. wt' \in [Worktree -> TreeStates] /\ reg' \in [Worktree -> {"no", "yes", "leaked"}]
    BY <1>0, <2>2, <2>4 DEF TreeStates
  <2>6. \A s \in Node \ {t} : uses[s] # NoTree => wt'[uses[s]] = wt[uses[s]]
    BY <1>0, <2>1, <2>2
  <2>7. Registered'
    BY <1>0, <2>1, <2>2, <2>3, <2>4 DEF Registered
  <2>8. TreesKept
    BY <1>0, <2>1, <2>2 DEF TreesKept, Creating, kept
  <2> QED
    BY <1>1, <2>5, <2>6, <2>7, <2>8
<1> QED
  BY <1>2, <1>3

\* A step of a job that holds nothing, and will hold nothing.
LEMMA UnholdingKeeps ==
  ASSUME LifeInv, NEW t \in Node, NEW y \in JobStates \ {"none", "granted", "child", "stopping"},
         job[t] \in {"deps", "pool", "polled"}, run # "exited",
         job' = [job EXCEPT ![t] = y],
         UNCHANGED planVars, UNCHANGED runVars, UNCHANGED treeVars,
         UNCHANGED <<uses, leader, member>>
  PROVE  LifeInv'
<1>0. /\ UNCHANGED <<run, canceled, result, serve, loop, file, target, wt, reg, late>>
      /\ LifeTypeOK
  BY DEF runVars, treeVars, planVars, LifeInv
<1>m. ~(run = "main" /\ t = target)
  BY DEF LifeInv, JobsPlanned, Outcomes
<1>1. Ordered'
  <2>1. TreesKept
    BY <1>0 DEF TreesKept
  <2> QED
    BY <1>m, <2>1, JobMoves DEF Outcomes
<1>2. LifeTypeOK'
  BY <1>0 DEF LifeTypeOK
<1>3. Registered'
  BY <1>0 DEF LifeInv, Registered
<1>4. ChildrenWatched'
  BY <1>0 DEF LifeInv, ChildrenWatched, LifeTypeOK
<1>5. Holding'
  <2>1. \A s \in Node : Holds(s)' = Holds(s)
    BY <1>0 DEF Holds, NeedsWorktree, TestNamed, LifeTypeOK
  <2> QED
    BY <1>0, <2>1 DEF LifeInv, Holding
<1> QED
  BY <1>1, <1>2, <1>3, <1>4, <1>5 DEF Ordered, LifeInv

\* A job that ends, or never started its child, gives back what it holds.
LEMMA EndingKeeps ==
  ASSUME LifeInv, NEW t \in Node, NEW y \in Outcomes,
         run # "exited",
         job[t] \in {"granted", "child", "stopping"},
         leader[t] # "alive",
         job' = [job EXCEPT ![t] = y],
         GiveBack(t),
         UNCHANGED planVars, UNCHANGED runVars, UNCHANGED <<tries, late, leader, member>>
  PROVE  LifeInv'
<1>0. /\ UNCHANGED <<run, canceled, result, serve, loop, file, target, late>>
      /\ LifeTypeOK /\ y \in JobStates
  BY DEF runVars, planVars, LifeInv, JobStates
<1>g. /\ uses' = [uses EXCEPT ![t] = NoTree]
      /\ wt' \in [Worktree -> TreeStates]
      /\ reg' \in [Worktree -> {"no", "yes", "leaked"}]
      /\ \A s \in Node \ {t} : uses[s] # NoTree => wt'[uses[s]] = wt[uses[s]]
      /\ Registered'
      /\ TreesKept
  BY GiveBackLemma
<1>1. Ordered'
  BY <1>g, JobMoves DEF Outcomes, JobStates
<1>2. LifeTypeOK'
  BY <1>0, <1>g DEF LifeTypeOK
<1>3. ChildrenWatched'
  BY <1>0 DEF LifeInv, ChildrenWatched, LifeTypeOK
<1>4. Holding'
  <2>1. \A s \in Node \ {t} : Holds(s)' = Holds(s) /\ uses'[s] = uses[s]
    BY <1>0, <1>g DEF Holds, NeedsWorktree, TestNamed, LifeTypeOK
  <2>2. ~Holds(t)' /\ uses'[t] = NoTree
    BY <1>0, <1>g DEF Holds, LifeTypeOK, Outcomes
  <2>3. \A s \in Node \ {t} : Holds(s) => uses[s] # NoTree
    BY TreeNotZero DEF LifeInv, Holding
  <2> QED
    BY <1>0, <1>g, <2>1, <2>2, <2>3 DEF LifeInv, Holding
<1> QED
  BY <1>1, <1>2, <1>3, <1>4, <1>g DEF Ordered, LifeInv

\* A grant takes a worktree from the pool, which nobody else has.
LEMMA GrantKeeps ==
  ASSUME LifeInv, NEW t \in Node, Grant(t), UNCHANGED planVars
  PROVE  LifeInv'
<1>0. /\ UNCHANGED <<run, canceled, result, serve, loop, file, target, reg, late, leader, member>>
      /\ LifeTypeOK /\ run # "exited" /\ job[t] = "polled"
      /\ job' = [job EXCEPT ![t] = "granted"]
      /\ UNCHANGED runVars
  BY DEF Grant, Running, runVars, planVars, LifeInv
<1>m. ~(run = "main" /\ t = target)
  BY <1>0 DEF LifeInv, JobsPlanned, Outcomes
<1>u. ~Holds(t) /\ uses[t] = NoTree
  BY <1>0 DEF LifeInv, Holding, Holds
<1>2. Holds(t)' <=> NeedsWorktree(t)
  BY <1>0, <1>m DEF Holds, NeedsWorktree, TestNamed, LifeTypeOK
<1>3. \A s \in Node \ {t} : Holds(s)' = Holds(s)
  BY <1>0 DEF Holds, NeedsWorktree, TestNamed, LifeTypeOK
<1>4. ChildrenWatched'
  BY <1>0 DEF LifeInv, ChildrenWatched, LifeTypeOK
<1>5. CASE ~NeedsWorktree(t)
  <2>1. wt' = wt /\ uses' = uses
    BY <1>5 DEF Grant
  <2>2. Ordered'
    BY <1>0, <1>m, <2>1, JobMoves DEF TreesKept, JobStates, Outcomes
  <2>3. LifeTypeOK' /\ Registered'
    BY <1>0, <2>1 DEF LifeTypeOK, LifeInv, Registered, JobStates
  <2>4. Holding'
    BY <1>0, <1>u, <1>2, <1>3, <1>5, <2>1 DEF LifeInv, Holding
  <2> QED
    BY <1>4, <2>2, <2>3, <2>4 DEF Ordered, LifeInv
<1>6. CASE NeedsWorktree(t)
  <2>1. PICK w \in Worktree : /\ wt[w] = "pooled"
                              /\ wt' = [wt EXCEPT ![w] = "held"]
                              /\ uses' = [uses EXCEPT ![t] = w]
    BY <1>6 DEF Grant
  <2>2. TreesKept
    BY <1>0, <2>1 DEF TreesKept, LifeTypeOK, Creating
  <2>3. Ordered'
    BY <1>0, <1>m, <2>2, JobMoves DEF JobStates, Outcomes
  <2>4. LifeTypeOK' /\ Registered'
    BY <1>0, <2>1 DEF LifeTypeOK, LifeInv, Registered, JobStates, TreeStates
  <2>5. Holding'
    <3>1. \A s \in Node : uses[s] # NoTree => uses[s] \in Worktree /\ wt[uses[s]] = "held"
      BY <1>0 DEF LifeInv, Holding
    <3>2. \A s \in Node \ {t} : Holds(s) => uses[s] # NoTree
      BY <1>0, TreeNotZero DEF LifeInv, Holding
    <3>3. wt'[w] = "held" /\ uses'[t] = w /\ \A s \in Node \ {t} : uses'[s] = uses[s] /\ uses[s] # w
      BY <1>0, <2>1, <3>1, TreeNotZero DEF LifeTypeOK
    <3>4. \A s \in Node : uses[s] # NoTree => wt'[uses[s]] = "held"
      BY <1>0, <2>1, <3>1 DEF LifeTypeOK
    <3> QED
      BY <1>0, <1>2, <1>3, <1>6, <3>1, <3>2, <3>3, <3>4 DEF LifeInv, Holding
  <2> QED
    BY <1>4, <2>3, <2>4, <2>5 DEF Ordered, LifeInv
<1> QED
  BY <1>5, <1>6

\* A job keeps what it holds while its child is spawned or told to stop.
LEMMA HoldingOnKeeps ==
  ASSUME LifeInv, NEW t \in Node, NEW y \in {"child", "stopping"},
         run # "exited",
         job[t] \in {"granted", "child"},
         job' = [job EXCEPT ![t] = y],
         leader' \in [Node -> ProcStates],
         \A s \in Node \ {t} : leader'[s] = leader[s],
         UNCHANGED planVars, UNCHANGED runVars, UNCHANGED treeVars, UNCHANGED <<uses, member>>
  PROVE  LifeInv'
<1>0. /\ UNCHANGED <<run, canceled, result, serve, loop, file, target, wt, reg, late>>
      /\ LifeTypeOK
  BY DEF runVars, treeVars, planVars, LifeInv
<1>1. Ordered'
  <2>1. TreesKept
    BY <1>0 DEF TreesKept
  <2> QED
    BY <2>1, JobMoves DEF JobStates, Outcomes
<1>2. LifeTypeOK' /\ Registered'
  BY <1>0 DEF LifeTypeOK, LifeInv, Registered, JobStates
<1>3. ChildrenWatched'
  BY <1>0 DEF LifeInv, ChildrenWatched, LifeTypeOK
<1>4. Holding'
  <2>1. \A s \in Node : Holds(s)' = Holds(s)
    BY <1>0 DEF Holds, NeedsWorktree, TestNamed, LifeTypeOK
  <2> QED
    BY <1>0, <2>1 DEF LifeInv, Holding
<1> QED
  BY <1>1, <1>2, <1>3, <1>4 DEF Ordered, LifeInv

\* Processes fork and die without a job taking part; none is born.
LEMMA ProcessesKeep ==
  ASSUME LifeInv,
         leader' \in [Node -> ProcStates], member' \in [Node -> ProcStates],
         \A t \in Node : leader'[t] = "alive" => leader[t] = "alive",
         UNCHANGED planVars, UNCHANGED runVars, UNCHANGED treeVars, UNCHANGED <<job, uses>>
  PROVE  LifeInv'
<1>0. /\ UNCHANGED <<run, canceled, result, serve, loop, wt, reg, late>>
      /\ UNCHANGED <<file, pc, parsed, command, target, jobs>>
      /\ LifeTypeOK
  BY DEF runVars, treeVars, planVars, LifeInv
<1>s. Spawned' = Spawned /\ OneShot' = OneShot
  BY <1>0 DEF Spawned, OneShot
<1>1. LifeTypeOK' /\ InOrder' /\ Registered' /\ ResultSays' /\ Torn'
  BY <1>0 DEF LifeTypeOK, LifeInv, InOrder, Registered, ResultSays, Torn
<1>2. JobsPlanned' /\ JobsDone' /\ ChildrenWatched'
  BY <1>0, <1>s DEF LifeInv, JobsPlanned, JobsDone, ChildrenWatched
<1>3. Holding'
  <2>1. \A s \in Node : Holds(s)' = Holds(s)
    BY <1>0 DEF Holds, NeedsWorktree, TestNamed
  <2> QED
    BY <1>0, <2>1 DEF LifeInv, Holding
<1> QED
  BY <1>1, <1>2, <1>3 DEF LifeInv

JobAct(t) ==
  JobStep(t) \/ SpawnFails(t) \/ Fork(t) \/ LeaderExits(t) \/ MemberExits(t)

\* Every step of a job or its processes keeps the invariant.
LEMMA JobActKeeps ==
  ASSUME LifeInv, NEW t \in Node, JobAct(t), UNCHANGED planVars
  PROVE  LifeInv'
<1>0. LifeTypeOK
  BY DEF LifeInv
<1>t. leader \in [Node -> ProcStates] /\ member \in [Node -> ProcStates]
  BY <1>0 DEF LifeTypeOK
<1>1. CASE DepsEnd(t)
  <2>1. PICK y \in {"pool"} \cup Outcomes : job' = [job EXCEPT ![t] = y]
    BY <1>1 DEF DepsEnd, Outcomes
  <2> QED
    BY <1>1, <2>1, UnholdingKeeps DEF DepsEnd, Running, JobStates, Outcomes
<1>2. CASE PoolCanceled(t)
  BY <1>2, UnholdingKeeps DEF PoolCanceled, Running, JobStates, Outcomes
<1>3. CASE PollGet(t)
  BY <1>3, UnholdingKeeps DEF PollGet, Running, JobStates, Outcomes
<1>4. CASE Grant(t)
  BY <1>4, GrantKeeps
<1>5. CASE Block(t)
  BY <1>5, UnholdingKeeps DEF Block, Running, JobStates, Outcomes
<1>6. CASE Spawn(t)
  BY <1>6, <1>t, HoldingOnKeeps DEF Spawn, Running, ProcStates
<1>7. CASE SpawnFails(t)
  <2>1. leader[t] # "alive"
    BY <1>7 DEF SpawnFails, LifeInv, ChildrenWatched
  <2> QED
    BY <1>7, <2>1, EndingKeeps DEF SpawnFails, Running, Outcomes
<1>8. CASE ChildDone(t)
  <2>1. PICK y \in Outcomes : job' = [job EXCEPT ![t] = y]
    BY <1>8 DEF ChildDone, Outcomes
  <2> QED
    BY <1>8, <2>1, EndingKeeps DEF ChildDone, Running
<1>9. CASE ChildCanceled(t)
  BY <1>9, <1>t, HoldingOnKeeps DEF ChildCanceled, ToldToStop, Running, treeVars
<1>10. CASE ChildStopped(t)
  BY <1>10, EndingKeeps DEF ChildStopped, Running, Outcomes
<1>11. CASE Timeout(t)
  BY <1>11, <1>t, ProcessesKeep DEF Timeout, GraceOver, Killed, ProcStates
<1>12. CASE Fork(t) \/ LeaderExits(t) \/ MemberExits(t)
  BY <1>12, <1>t, ProcessesKeep DEF Fork, LeaderExits, MemberExits, ProcStates
<1> QED
  BY <1>1, <1>2, <1>3, <1>4, <1>5, <1>6, <1>7, <1>8, <1>9, <1>10, <1>11, <1>12 DEF JobAct, JobStep

-----------------------------------------------------------------------------
(* The command and its tasks *)

\* What only the command and its tasks know of each other, when one of them
\* moves, leaves worktrees and jobs as they are.
LEMMA CommandMoves ==
  ASSUME LifeInv, UNCHANGED planVars, UNCHANGED treeVars, UNCHANGED jobVars,
         run' \in Runs \ {"exited"}, run # "exited",
         result' \in {"ok", "err", "code50"},
         loop' \in {"off", "run", "settling", "ended", "failed"},
         run # run' /\ "main" \in {run, run'} =>
           \A t \in Node : t = target => job[t] \in Outcomes \cup {"none"}
  PROVE  LifeTypeOK' /\ Registered' /\ ChildrenWatched' /\ Holding'
<1>0. /\ UNCHANGED <<wt, reg, late, job, uses, leader, member, file, target>>
      /\ LifeTypeOK
  BY DEF treeVars, jobVars, planVars, LifeInv
<1>1. LifeTypeOK' /\ Registered' /\ ChildrenWatched'
  BY <1>0 DEF LifeTypeOK, LifeInv, Registered, ChildrenWatched
<1>2. \A t \in Node : Holds(t)' = Holds(t)
  BY <1>0 DEF Holds, NeedsWorktree, TestNamed, Outcomes, LifeTypeOK
<1>3. Holding'
  BY <1>0, <1>2 DEF LifeInv, Holding
<1> QED
  BY <1>1, <1>3

\* limmat begins.
LEMMA BeginKeeps ==
  ASSUME LifeInv, ConfigInv, Begin, UNCHANGED planVars
  PROVE  LifeInv'
<1>0. /\ UNCHANGED <<result, loop, wt, reg, late, job, file, pc, parsed, command, target, jobs>>
      /\ pc = "planned" /\ run = "start"
      /\ run' \in {"building", "lookup", "main"}
      /\ UNCHANGED treeVars /\ UNCHANGED jobVars
      /\ result = "ok" /\ loop = "off"
      /\ \A w \in Worktree : wt[w] = "none"
      /\ \A t \in Node : job[t] = "none"
  BY DEF Begin, Followed, treeVars, jobVars, planVars, LifeInv, InOrder, ResultSays
<1>1. LifeTypeOK' /\ Registered' /\ ChildrenWatched' /\ Holding'
  BY <1>0, CommandMoves DEF LifeInv, LifeTypeOK, Runs
<1>2. run' = "main" => command = "test" /\ ToSet(jobs) = {}
  BY <1>0 DEF Begin, ToSet
<1>3. run' = "lookup" => ToSet(jobs) = {}
  <2>1. run' = "lookup" => command = "get"
    BY DEF Begin
  <2> QED
    BY <1>0, <2>1 DEF ConfigInv, Building, JobsFor
<1>4. InOrder'
  BY <1>0 DEF LifeInv, InOrder
<1>5. JobsPlanned'
  BY <1>0, <1>2 DEF JobsPlanned
<1>6. ResultSays'
  BY <1>0 DEF ResultSays
<1>7. Torn' /\ JobsDone'
  BY <1>0, <1>2, <1>3 DEF Torn, JobsDone, Creating
<1> QED
  BY <1>1, <1>4, <1>5, <1>6, <1>7 DEF LifeInv

\* A worktree is ordered: the next one, of which nothing is known yet.
LEMMA BuildKeeps ==
  ASSUME LifeInv, Build, UNCHANGED planVars
  PROVE  LifeInv'
<1> DEFINE w == Cardinality(Built) + 1
<1>0. /\ UNCHANGED <<run, canceled, result, serve, loop, reg, late, job, uses, leader, member>>
      /\ UNCHANGED <<file, pc, parsed, command, target, jobs>>
      /\ run = "building"
      /\ wt' = [wt EXCEPT ![w] = "starting"]
      /\ LifeTypeOK
  BY DEF Build, runVars, jobVars, planVars, LifeInv
<1>1. PICK n \in 0..MaxWorktrees : \A v \in Worktree : wt[v] # "none" <=> v <= n
  BY <1>0 DEF LifeInv, InOrder
<1>2. w = n + 1
  <2>1. Built = 1..n
    BY <1>1, BoundAssumption DEF Built, Worktree
  <2>2. Cardinality(1..n) = n
    BY <1>1, FS_Interval
  <2> QED
    BY <2>1, <2>2
<1> HIDE DEF w
<1>3. w \in Worktree => wt[w] = "none"
  BY <1>1, <1>2
<1>4. \A v \in Worktree : wt'[v] = IF v = w THEN "starting" ELSE wt[v]
  BY <1>0 DEF LifeTypeOK
<1>5. LifeTypeOK'
  BY <1>0 DEF LifeTypeOK, TreeStates, Creating
<1>6. InOrder'
  <2>1. CASE w \in Worktree
    <3>1. w \in 0..MaxWorktrees
      BY <2>1 DEF Worktree
    <3>2. \A v \in Worktree : wt'[v] # "none" <=> v <= w
      BY <1>1, <1>2, <1>4, <2>1 DEF Worktree
    <3> QED
      BY <1>0, <3>1, <3>2 DEF LifeInv, InOrder
  <2>2. CASE w \notin Worktree
    <3>1. \A v \in Worktree : wt'[v] # "none" <=> v <= n
      BY <1>1, <1>4, <2>2
    <3> QED
      BY <1>0, <3>1 DEF LifeInv, InOrder
  <2> QED
    BY <2>1, <2>2
<1>7. Registered'
  BY <1>0, <1>3, <1>4 DEF LifeInv, Registered
<1>8. JobsPlanned' /\ ChildrenWatched' /\ ResultSays' /\ Torn' /\ JobsDone'
  BY <1>0 DEF LifeInv, JobsPlanned, ChildrenWatched, ResultSays, Torn, JobsDone, Spawned
<1>9. Holding'
  <2>1. \A t \in Node : ~Holds(t) /\ ~Holds(t)' /\ uses[t] = NoTree
    BY <1>0 DEF LifeInv, InOrder, Holding, Holds
  <2> QED
    BY <1>0, <2>1 DEF Holding
<1> QED
  BY <1>5, <1>6, <1>7, <1>8, <1>9 DEF LifeInv

\* All worktrees are ordered: the jobs start.
LEMMA SpawnRestKeeps ==
  ASSUME LifeInv, SpawnRest, UNCHANGED planVars
  PROVE  LifeInv'
<1>0. /\ UNCHANGED <<canceled, result, serve, wt, reg, late, uses, leader, member>>
      /\ UNCHANGED <<file, pc, parsed, command, target, jobs>>
      /\ run = "building" /\ run' = "waiting"
      /\ LifeTypeOK
      /\ \A t \in Node : job[t] = "none"
  BY DEF SpawnRest, treeVars, planVars, LifeInv, InOrder
<1>s. Spawned' = Spawned
  BY <1>0 DEF Spawned
<1>1. /\ job' \in [Node -> {"none", "deps"}]
      /\ \A t \in Node \ Spawned : job'[t] = "none"
      /\ loop' \in {"off", "run"}
      /\ loop' # "off" => command = "watch"
  BY <1>0 DEF SpawnRest, LifeInv, InOrder, LifeTypeOK
<1>2. LifeTypeOK' /\ InOrder' /\ Registered' /\ ResultSays' /\ Torn' /\ JobsDone'
  BY <1>0, <1>1 DEF LifeInv, LifeTypeOK, Runs, JobStates, InOrder, Registered, ResultSays, Torn,
                    JobsDone
<1>3. JobsPlanned'
  BY <1>0, <1>1, <1>s DEF JobsPlanned
<1>4. ChildrenWatched'
  BY <1>0 DEF LifeInv, ChildrenWatched
<1>5. Holding'
  <2>1. \A t \in Node : ~Holds(t) /\ ~Holds(t)' /\ uses[t] = NoTree
    BY <1>0, <1>1 DEF LifeInv, Holding, Holds
  <2> QED
    BY <1>0, <2>1 DEF Holding
<1> QED
  BY <1>2, <1>3, <1>4, <1>5 DEF LifeInv

\* The watch loop starts its jobs.
LEMMA LoopSpawnsKeeps ==
  ASSUME LifeInv, LoopSpawns, UNCHANGED planVars
  PROVE  LifeInv'
<1>0. /\ UNCHANGED <<run, canceled, result, serve, loop, wt, reg, late, uses, leader, member>>
      /\ UNCHANGED <<file, pc, parsed, command, target, jobs>>
      /\ run # "exited" /\ loop = "run"
      /\ job' = [t \in Node |-> IF t \in Spawned THEN "deps" ELSE job[t]]
      /\ \A t \in Spawned : job[t] = "none"
      /\ LifeTypeOK
  BY DEF LoopSpawns, runVars, treeVars, planVars, LifeInv
<1>s. Spawned' = Spawned
  BY <1>0 DEF Spawned
<1>w. command = "watch" /\ run \notin {"start", "building", "main"}
  BY <1>0 DEF LifeInv, JobsPlanned, InOrder
<1>1. LifeTypeOK' /\ InOrder' /\ Registered' /\ ResultSays'
  BY <1>0, <1>w DEF LifeInv, LifeTypeOK, JobStates, InOrder, Registered, ResultSays
<1>2. JobsPlanned'
  BY <1>0, <1>s, <1>w DEF LifeInv, JobsPlanned
<1>3. ChildrenWatched'
  BY <1>0 DEF LifeInv, ChildrenWatched
<1>4. Torn' /\ JobsDone'
  BY <1>0, <1>w DEF LifeInv, Torn, JobsDone, OneShot
<1>5. Holding'
  <2>1. \A t \in Node : Holds(t)' = Holds(t)
    BY <1>0 DEF Holds, NeedsWorktree, TestNamed
  <2> QED
    BY <1>0, <2>1 DEF LifeInv, Holding
<1> QED
  BY <1>1, <1>2, <1>3, <1>4, <1>5 DEF LifeInv

\* Tasks of `watch` end, or the token is cancelled: the command itself waits on.
LEMMA AsideKeeps ==
  ASSUME LifeInv, Sigint \/ ServeEnds \/ LoopStops \/ LoopSettled \/ LoopFails, UNCHANGED planVars
  PROVE  LifeInv'
<1>0. /\ UNCHANGED <<run, result, wt, reg, late, job, uses, leader, member>>
      /\ UNCHANGED <<file, pc, parsed, command, target, jobs>>
      /\ run # "exited"
      /\ UNCHANGED treeVars /\ UNCHANGED jobVars
      /\ loop' \in {loop, "settling", "ended", "failed"}
      /\ loop' # loop => loop # "off"
  BY DEF Sigint, ServeEnds, LoopStops, LoopSettled, LoopFails, treeVars, jobVars, planVars
<1>1. LifeTypeOK' /\ Registered' /\ ChildrenWatched' /\ Holding'
  BY <1>0, CommandMoves DEF LifeInv, LifeTypeOK
<1>2. InOrder' /\ JobsPlanned' /\ ResultSays' /\ Torn' /\ JobsDone'
  BY <1>0 DEF LifeInv, InOrder, JobsPlanned, ResultSays, Torn, JobsDone, Spawned, OneShot
<1> QED
  BY <1>1, <1>2 DEF LifeInv

\* An error on the way: no more worktrees, or a task has failed.
LEMMA FailuresKeep ==
  ASSUME LifeInv, BuildFails \/ WaitFails, UNCHANGED planVars
  PROVE  LifeInv'
<1>0. /\ UNCHANGED <<loop, wt, reg, late, job, uses, leader, member>>
      /\ UNCHANGED <<file, pc, parsed, command, target, jobs>>
      /\ \/ run = "building" /\ run' = "exiting"
         \/ run = "waiting" /\ run' = "joining"
      /\ UNCHANGED treeVars /\ UNCHANGED jobVars
      /\ result' = "err"
  BY DEF BuildFails, WaitFails, FirstError, treeVars, jobVars, planVars
<1>1. LifeTypeOK' /\ Registered' /\ ChildrenWatched' /\ Holding'
  BY <1>0, CommandMoves DEF LifeInv, LifeTypeOK, Runs
<1>2. InOrder' /\ JobsPlanned' /\ ResultSays' /\ Torn' /\ JobsDone'
  BY <1>0 DEF LifeInv, InOrder, JobsPlanned, ResultSays, Torn, JobsDone, Spawned
<1> QED
  BY <1>1, <1>2 DEF LifeInv

\* The group has ended, and gives its worktrees up.
LEMMA TakeWorktreesKeeps ==
  ASSUME LifeInv, TakeWorktrees, UNCHANGED planVars
  PROVE  LifeInv'
<1>0. /\ UNCHANGED <<canceled, result, serve, loop, reg, late, job, uses, leader, member>>
      /\ UNCHANGED <<file, pc, parsed, command, target, jobs>>
      /\ run \in {"waiting", "joining"} /\ run' = "removing"
      /\ GroupEnded /\ TasksEnded
      /\ wt' = [w \in Worktree |-> IF wt[w] = "pooled" THEN "removing" ELSE wt[w]]
      /\ LifeTypeOK
  BY DEF TakeWorktrees, GroupEnded, jobVars, planVars, LifeInv
<1>s. Spawned' = Spawned /\ OneShot' = OneShot
  BY <1>0 DEF Spawned, OneShot
<1>1. LifeTypeOK' /\ InOrder' /\ Registered' /\ ResultSays' /\ ChildrenWatched'
  BY <1>0 DEF LifeInv, LifeTypeOK, Runs, TreeStates, InOrder, Registered, ResultSays, ChildrenWatched
<1>2. JobsPlanned'
  BY <1>0, <1>s DEF LifeInv, JobsPlanned
<1>3. command # "watch" => \A t \in ToSet(jobs) : job[t] \in Outcomes
  BY <1>0 DEF TasksEnded, Spawned
<1>4. Torn'
  BY <1>0, <1>3 DEF TasksEnded, Torn, Creating
<1>5. JobsDone'
  <2> SUFFICES ASSUME result = "ok", OneShot PROVE \A t \in ToSet(jobs) : job[t] = "ok"
    BY <1>0, <1>s DEF JobsDone
  <2>1. command # "watch"
    BY DEF OneShot
  <2>2. ~TaskFailed
    BY <1>0 DEF GroupEnded, LifeInv, ResultSays
  <2> QED
    BY <1>3, <2>1, <2>2 DEF TaskFailed, Spawned
<1>6. Holding'
  <2>1. \A t \in Node : Holds(t)' = Holds(t)
    BY <1>0 DEF Holds, NeedsWorktree, TestNamed
  <2> QED
    BY <1>0, <2>1 DEF LifeInv, Holding, LifeTypeOK
<1> QED
  BY <1>1, <1>2, <1>4, <1>5, <1>6 DEF LifeInv

\* The worktrees are removed: the command returns its error, or goes on.
LEMMA RemovalDoneKeeps ==
  ASSUME LifeInv, RemovalDone, UNCHANGED planVars
  PROVE  LifeInv'
<1>0. /\ UNCHANGED <<canceled, result, serve, loop, wt, reg, late, job, uses, leader, member>>
      /\ UNCHANGED <<file, pc, parsed, command, target, jobs>>
      /\ UNCHANGED treeVars /\ UNCHANGED jobVars
      /\ run = "removing"
      /\ \/ run' = "exiting"
         \/ run' = "main" /\ command = "test" /\ result = "ok"
         \/ run' = "lookup" /\ command # "watch" /\ result = "ok"
      /\ LifeTypeOK
  <2>1. /\ UNCHANGED <<canceled, result, serve, loop>>
        /\ UNCHANGED treeVars /\ UNCHANGED jobVars
        /\ run = "removing"
        /\ LifeTypeOK /\ result \in {"ok", "err"}
    BY DEF RemovalDone, LifeInv, ResultSays
  <2>2. \/ run' = "exiting"
        \/ run' = "main" /\ command = "test" /\ result = "ok"
        \/ run' = "lookup" /\ command # "watch" /\ result = "ok"
    <3>1. CASE command = "watch" \/ result = "err"
      BY <3>1 DEF RemovalDone
    <3>2. CASE command = "test" /\ result = "ok"
      BY <3>2 DEF RemovalDone
    <3>3. CASE command \notin {"watch", "test"} /\ result = "ok"
      BY <3>3 DEF RemovalDone
    <3> QED
      BY <2>1, <3>1, <3>2, <3>3
  <2> QED
    BY <2>1, <2>2 DEF treeVars, jobVars, planVars
<1>j. run' = "main" => \A t \in Node : job[t] \in Outcomes \cup {"none"}
  <2> SUFFICES ASSUME run' = "main", NEW t \in Node PROVE job[t] \in Outcomes \cup {"none"}
    OBVIOUS
  <2>1. command = "test" /\ Spawned = ToSet(jobs)
    BY <1>0 DEF Spawned
  <2>2. t \in ToSet(jobs) => job[t] \in Outcomes
    BY <1>0, <2>1 DEF LifeInv, Torn
  <2>3. t \notin ToSet(jobs) => job[t] = "none"
    BY <1>0, <2>1 DEF LifeInv, JobsPlanned
  <2> QED
    BY <2>2, <2>3
<1>1. LifeTypeOK' /\ Registered' /\ ChildrenWatched' /\ Holding'
  BY <1>0, <1>j, CommandMoves DEF LifeTypeOK, Runs
<1>2. InOrder' /\ ResultSays'
  BY <1>0 DEF LifeInv, InOrder, ResultSays
<1>3. JobsPlanned'
  <2>1. Spawned' = Spawned
    BY <1>0 DEF Spawned
  <2> QED
    BY <1>0, <1>j, <2>1 DEF LifeInv, JobsPlanned
<1>4. Torn' /\ JobsDone'
  BY <1>0 DEF LifeInv, Torn, JobsDone, OneShot
<1> QED
  BY <1>1, <1>2, <1>3, <1>4 DEF LifeInv

\* `test` starts the target's child, and returns what becomes of it.
LEMMA MainKeeps ==
  ASSUME LifeInv, MainStarts \/ MainEnds, UNCHANGED planVars
  PROVE  LifeInv'
<1>0. /\ UNCHANGED <<file, pc, parsed, command, target, jobs, loop, wt, reg, late, uses, member>>
      /\ UNCHANGED treeVars
      /\ run = "main"
      /\ LifeTypeOK
  BY DEF MainStarts, MainEnds, runVars, treeVars, jobVars, planVars, LifeInv
<1>s. Spawned' = Spawned /\ OneShot' = OneShot
  BY <1>0 DEF Spawned, OneShot
<1>1. CASE MainStarts
  <2>0. /\ run' = run /\ result' = result
        /\ job[target] = "none"
        /\ \E y \in {"child", "err"} :
             /\ job' = [job EXCEPT ![target] = y]
             /\ leader' = IF y = "child" THEN [leader EXCEPT ![target] = "alive"] ELSE leader
    BY <1>1 DEF MainStarts, runVars
  <2>1. PICK y \in {"child", "err"} :
             /\ job' = [job EXCEPT ![target] = y]
             /\ leader' = IF y = "child" THEN [leader EXCEPT ![target] = "alive"] ELSE leader
    BY <2>0
  <2>2. LifeTypeOK'
    BY <1>0, <2>0, <2>1 DEF LifeTypeOK, JobStates, Outcomes, ProcStates
  <2>3. InOrder' /\ Registered' /\ ResultSays'
    BY <1>0, <2>0 DEF LifeInv, InOrder, Registered, ResultSays
  <2>4. JobsPlanned'
    BY <1>0, <1>s, <2>0, <2>1 DEF LifeInv, JobsPlanned, LifeTypeOK, Outcomes
  <2>5. ChildrenWatched'
    BY <1>0, <2>0, <2>1 DEF LifeInv, ChildrenWatched, LifeTypeOK
  <2>6. \A t \in Node : t # target => job'[t] = job[t]
    BY <1>0, <2>1 DEF LifeTypeOK
  <2>7. Torn' /\ JobsDone'
    BY <1>0, <1>s, <2>0, <2>6 DEF LifeInv, Torn, JobsDone, Outcomes
  <2>8. Holding'
    <3>1. \A t \in Node : Holds(t)' = Holds(t)
      BY <1>0, <2>0, <2>6 DEF Holds, NeedsWorktree, TestNamed
    <3> QED
      BY <1>0, <2>0, <3>1 DEF LifeInv, Holding
  <2> QED
    BY <2>2, <2>3, <2>4, <2>5, <2>7, <2>8 DEF LifeInv
<1>2. CASE MainEnds
  <2>0. /\ run' = "exiting" /\ result' \in {"ok", "err"}
        /\ job[target] \in Outcomes
        /\ UNCHANGED jobVars /\ job' = job
    BY <1>2 DEF MainEnds, jobVars
  <2>1. LifeTypeOK' /\ Registered' /\ ChildrenWatched' /\ Holding'
    BY <1>0, <2>0, CommandMoves DEF LifeTypeOK, Runs
  <2>2. InOrder' /\ JobsPlanned' /\ ResultSays' /\ Torn'
    BY <1>0, <2>0 DEF LifeInv, InOrder, JobsPlanned, ResultSays, Torn
  <2>3. JobsDone'
    BY <1>0, <1>s, <2>0 DEF LifeInv, JobsDone, ResultSays
  <2> QED
    BY <2>1, <2>2, <2>3 DEF LifeInv
<1> QED
  BY <1>1, <1>2

\* The result is looked up and shown.
LEMMA LookupKeeps ==
  ASSUME LifeInv, Lookup, UNCHANGED planVars
  PROVE  LifeInv'
<1>0. /\ UNCHANGED <<file, pc, parsed, command, target, jobs>>
      /\ UNCHANGED <<loop, wt, reg, late, job, uses, leader, member>>
      /\ UNCHANGED treeVars /\ UNCHANGED jobVars
      /\ run = "lookup" /\ run' = "exiting"
      /\ result' \in {"ok", "code50", "err"}
      /\ LifeTypeOK
  BY DEF Lookup, treeVars, jobVars, planVars, LifeInv
<1>1. LifeTypeOK' /\ Registered' /\ ChildrenWatched' /\ Holding'
  BY <1>0, CommandMoves DEF LifeTypeOK, Runs
<1>2. InOrder' /\ JobsPlanned' /\ ResultSays' /\ Torn'
  BY <1>0 DEF LifeInv, InOrder, JobsPlanned, ResultSays, Torn
<1>3. JobsDone'
  BY <1>0 DEF LifeInv, JobsDone, ResultSays, OneShot
<1> QED
  BY <1>1, <1>2, <1>3 DEF LifeInv

\* The process ends: the drop guards kill, the worktrees drop.
LEMMA ExitKeeps ==
  ASSUME LifeInv, Exit, UNCHANGED planVars
  PROVE  LifeInv'
<1>0. /\ UNCHANGED <<file, pc, parsed, command, target, jobs, result, loop, job, uses>>
      /\ run = "exiting" /\ run' = "exited"
      /\ leader' = [t \in Node |-> IF t \in Dropped THEN Killed(leader[t]) ELSE leader[t]]
      /\ member' = [t \in Node |-> IF t \in Dropped THEN Killed(member[t]) ELSE member[t]]
      /\ wt' = [w \in Worktree |-> IF wt[w] = "none" THEN "none" ELSE "gone"]
      /\ reg' = Unregister(reg, Worktree)
      /\ late' = late \cup {w \in Worktree : wt[w] = "starting"}
      /\ LifeTypeOK
  BY DEF Exit, planVars, LifeInv
<1>1. LifeTypeOK'
  <2>1. reg' \in [Worktree -> {"no", "yes", "leaked"}]
    BY <1>0 DEF Unregister, LifeTypeOK
  <2>2. leader' \in [Node -> ProcStates] /\ member' \in [Node -> ProcStates]
    BY <1>0 DEF LifeTypeOK, ProcStates, Killed
  <2> QED
    BY <1>0, <2>1, <2>2 DEF LifeTypeOK, Runs, TreeStates
<1>2. InOrder' /\ JobsPlanned' /\ ResultSays' /\ Torn'
  BY <1>0 DEF LifeInv, InOrder, JobsPlanned, ResultSays, Torn
<1>3. JobsDone'
  BY <1>0 DEF LifeInv, JobsDone, OneShot
<1>4. Registered'
  BY <1>0 DEF LifeInv, Registered, Unregister
<1>5. ChildrenWatched'
  BY <1>0 DEF LifeInv, ChildrenWatched, Dropped, Killed
<1>6. Holding'
  BY <1>0 DEF Holding
<1> QED
  BY <1>1, <1>2, <1>3, <1>4, <1>5, <1>6 DEF LifeInv

-----------------------------------------------------------------------------
(* Theorems *)

\* Every step keeps the invariant.
LEMMA LifeStepKeeps ==
  ASSUME LifeInv, ConfigInv, [Next]_vars
  PROVE  LifeInv'
<1>1. CASE Plan
  BY <1>1, PlanKeeps
<1>2. CASE MainStep /\ UNCHANGED planVars
  BY <1>2, BeginKeeps, BuildKeeps, SpawnRestKeeps, AsideKeeps, LoopSpawnsKeeps, FailuresKeep,
     TakeWorktreesKeeps, RemovalDoneKeeps, MainKeeps, LookupKeeps, ExitKeeps DEF MainStep
<1>3. ASSUME NEW w \in Worktree, TreeAct(w), UNCHANGED planVars
      PROVE  LifeInv'
  BY <1>3, TreeActKeeps
<1>4. ASSUME NEW t \in Node, JobAct(t), UNCHANGED planVars
      PROVE  LifeInv'
  BY <1>4, JobActKeeps
<1>5. CASE (Sigint \/ BuildFails \/ LoopFails) /\ UNCHANGED planVars
  BY <1>5, AsideKeeps, FailuresKeep
<1>6. CASE UNCHANGED vars
  <2>1. /\ UNCHANGED planVars /\ UNCHANGED runVars /\ UNCHANGED treeVars /\ UNCHANGED jobVars
        /\ UNCHANGED <<run, result, loop, wt, reg, late, job, uses, leader, member>>
        /\ UNCHANGED <<file, pc, parsed, command, target, jobs>>
    BY <1>6 DEF vars, lifeVars, planVars, runVars, treeVars, jobVars
  <2>2. \A t \in Node : Holds(t)' = Holds(t)
    BY <2>1 DEF Holds, NeedsWorktree, TestNamed
  <2> QED
    BY <2>1, <2>2 DEF LifeInv, LifeTypeOK, InOrder, JobsPlanned, Registered, ChildrenWatched,
                      Holding, ResultSays, Torn, JobsDone, Spawned, OneShot
<1>7. CASE Live
  <2>1. LifeStep /\ UNCHANGED planVars
    BY <1>7 DEF Live
  <2> QED
    BY <2>1, <1>2, <1>3, <1>4 DEF LifeStep, TreeAct, JobAct
<1>8. CASE MayHappen /\ UNCHANGED planVars
  BY <1>8, <1>3, <1>4, <1>5 DEF MayHappen, TreeAct, JobAct
<1> QED
  BY <1>1, <1>6, <1>7, <1>8 DEF Next

\* The life of the program keeps its invariant.
THEOREM LifeInvariant == Spec => []LifeInv
<1>1. Init => LifeInv
  BY LifeInitHolds DEF Init
<1>2. LifeInv /\ ConfigInv /\ [Next]_vars => LifeInv'
  BY LifeStepKeeps
<1> QED
  BY <1>1, <1>2, PlanInvariant, PTL DEF Spec

\* In a state of the invariant a child that lives has its worktree to itself.
LEMMA InvHeld == LifeInv => HeldWorktreesStay
<1> SUFFICES ASSUME LifeInv, NEW t \in Node,
                    leader[t] = "alive", NeedsWorktree(t), run # "main"
             PROVE  /\ uses[t] # NoTree
                    /\ wt[uses[t]] = "held"
                    /\ reg[uses[t]] = "yes"
                    /\ \A s \in Node \ {t} : uses[s] # uses[t]
  BY DEF HeldWorktreesStay
<1>1. run # "exited" /\ Holds(t)
  BY DEF LifeInv, ChildrenWatched, Holds
<1>2. uses[t] \in Worktree /\ wt[uses[t]] = "held" /\ uses[t] # NoTree
  BY <1>1, TreeNotZero DEF LifeInv, Holding
<1> QED
  BY <1>1, <1>2 DEF LifeInv, Registered, Holding

\* A test's child has a worktree that is registered and nobody else's, from its
\* start to its end, however limmat ends, for any number of tests and worktrees.
THEOREM HeldWorktreesStayHolds == Spec => []HeldWorktreesStay
  BY LifeInvariant, InvHeld, PTL

\* In a state of the invariant what limmat leaves behind is no worktree of its
\* own doing, and no child.
LEMMA InvExit == LifeInv => ExitClean
BY DEF LifeInv, ExitClean, ChildrenWatched, Torn, Registered

\* When limmat has exited, whatever interrupted it, its children are dead and
\* its worktrees unregistered, for any number of tests and worktrees.
THEOREM ExitCleanHolds == Spec => []ExitClean
  BY LifeInvariant, InvExit, PTL

\* The tests with jobs are tests.
LEMMA JobsAreNodes == ConfigInv => ToSet(jobs) \subseteq Node
BY ToSetLemma DEF ConfigInv, ConfigTypeOK

\* In a state of the invariants the group's tasks have ended before the removal.
LEMMA InvTeardown == LifeInv /\ ConfigInv => TeardownAfterUse
<1> SUFFICES ASSUME LifeInv, ConfigInv, run \in {"removing", "main", "lookup"}
             PROVE  /\ \A w \in Worktree : wt[w] \notin Creating \cup {"pooled"}
                    /\ command # "watch" =>
                         \A t \in ToSet(jobs) : job[t] \in Outcomes /\ leader[t] # "alive"
  BY DEF TeardownAfterUse
<1>1. \A t \in Node : job[t] \in Outcomes => leader[t] # "alive"
  BY DEF LifeInv, ChildrenWatched, Outcomes
<1> QED
  BY <1>1, JobsAreNodes DEF LifeInv, Torn

\* Worktrees are removed only when no task creates one, no job of a one-shot
\* command runs and no child of theirs lives, for any number of them.
THEOREM TeardownAfterUseHolds == Spec => []TeardownAfterUse
  BY LifeInvariant, PlanInvariant, InvTeardown, PTL

\* In a state of the invariants success is success of the dependencies.
LEMMA InvSuccess == LifeInv /\ ConfigInv => SuccessMeansDone
BY JobsAreNodes DEF LifeInv, JobsDone, SuccessMeansDone

\* A one-shot command that exits with success has run, or found the results of,
\* all the tests it had to, for any configuration.
THEOREM SuccessMeansDoneHolds == Spec => []SuccessMeansDone
  BY LifeInvariant, PlanInvariant, InvSuccess, PTL

\* What the configuration's own invariant promises holds in the whole program.
THEOREM PlanHolds == Spec => [](PlanSound /\ HashCovers)
  BY PlanInvariant, InvPlanSound, InvHashCovers, PTL
=============================================================================
