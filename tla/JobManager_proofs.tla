-------------------------- MODULE JobManager_proofs --------------------------
(***************************************************************************)
(* Proofs about JobManager, for any commits, tests, dependencies, entries, *)
(* pools, number of permits and number of calls.                           *)
(***************************************************************************)
EXTENDS JobManager, FiniteSetTheorems, TLAPS

-----------------------------------------------------------------------------
(* The inductive invariant, in named parts.                                 *)

\* The types that need no counting argument.
Shape ==
  /\ job_cts \in [Case -> 0..MaxCalls]
  /\ calls \in 0..MaxCalls
  /\ panicked \in BOOLEAN
  /\ phase \in [Job -> Phases]
  /\ ct \in SUBSET Job
  /\ got \in [Job -> SUBSET Job]
  /\ outcome \in [Job -> Outcomes]
  /\ refs \in [Job -> SUBSET Job]
  /\ file \in [Entries -> {"none"} \cup Stored]
  /\ ex \in [Entries -> Job \cup {NoJob}]
  /\ pool \in [Keys -> Nat]
  /\ settle \in {"idle", "check", "subscribe", "blocked", "settled"}
  /\ dirty \in BOOLEAN
  /\ closing \in BOOLEAN

ExPhases == {"waiting", "polled", "starting", "running", "stopping"}
DonePhases == {"returned"} \cup SentPhases
ActivePhases == {"deps"} \cup PermitPhases

\* The exclusive lock of an entry and the phase of the job that holds it agree.
ExOwner ==
  /\ \A e \in Entries : ex[e] # NoJob => /\ EntryOf(ex[e]) = e
                                         /\ phase[ex[e]] \in ExPhases
  /\ \A j \in Job : phase[j] \in ExPhases => ex[EntryOf(j)] = j

\* An entry is referenced only after its job has returned a result, and by the
\* job until it drops that result.
RefsOwned ==
  \A j \in Job :
    /\ refs[j] # {} => phase[j] \in DonePhases /\ outcome[j] \in Stored
    /\ phase[j] \in {"returned", "notified", "untokened"} /\ outcome[j] \in Stored
         => j \in refs[j]

\* Outcomes received, and those on the way to a job still waiting, keep the
\* dependency's entry referenced.
DepsReferenced ==
  \A j \in Job :
    /\ got[j] \subseteq DepJobs(j)
    /\ phase[j] = "none" => got[j] = {}
    /\ phase[j] \in ActivePhases =>
         \A d \in got[j] : /\ phase[d] \in SentPhases
                           /\ outcome[d] = "pass"
                           /\ j \in refs[d]
    /\ phase[j] \in PermitPhases => got[j] = DepJobs(j)
    /\ phase[j] = "deps" =>
         \A d \in DepJobs(j) : phase[d] \in SentPhases /\ outcome[d] = "pass" => j \in refs[d]

\* Jobs are numbered by calls already made.
CallsPast == \A j \in Job : phase[j] # "none" => j[3] <= calls

LockInv == ExOwner /\ RefsOwned /\ LocksExclude
JobInv == Shape /\ LockInv /\ DepsReferenced /\ CallsPast

-----------------------------------------------------------------------------
(* Lemmas about jobs.                                                       *)

\* The parts of a job have the types of test.rs's TestCase.
LEMMA JobParts ==
  ASSUME NEW j \in Job
  PROVE  /\ TestOf(j) \in Tests
         /\ CaseOf(j) \in Case
         /\ CaseOf(j)[2] = TestOf(j)
         /\ j[3] \in 1..MaxCalls
         /\ EntryOf(j) \in Entries
  BY EntryAssumption DEF Job, TestOf, CaseOf, Case, EntryOf

\* What a job waits for are jobs.
LEMMA DepJobsAreJobs ==
  ASSUME NEW j \in Job
  PROVE  DepJobs(j) \subseteq Job
  BY DepsAssumption DEF Job, DepJobs, TestOf

\* No job waits for itself.
LEMMA DepsIrreflexive ==
  ASSUME NEW j \in Job
  PROVE  j \notin DepJobs(j)
  <1>1. TestOf(j) \notin Deps[TestOf(j)]
    <2>1. PICK height \in [Tests -> 0..Cardinality(Tests)] :
             \A t \in Tests : \A d \in Deps[t] : height[d] < height[t]
      BY AcyclicAssumption
    <2>2. Cardinality(Tests) \in Nat
      BY FiniteAssumption, FS_CardinalityType
    <2>3. height[TestOf(j)] \in Nat
      BY <2>2, JobParts
    <2> QED
      BY <2>1, <2>3, JobParts
  <1> QED
    BY <1>1 DEF DepJobs, TestOf, Job

-----------------------------------------------------------------------------
(* Type correctness, up to the two counters.                                *)

\* The state of a new Manager is well formed.
LEMMA InitShape == Init => Shape
  <1> SUFFICES ASSUME Init PROVE Shape
    OBVIOUS
  <1>1. calls \in 0..MaxCalls /\ job_cts \in [Case -> 0..MaxCalls]
    BY PoolAssumption DEF Init
  <1>2. phase \in [Job -> Phases] /\ outcome \in [Job -> Outcomes]
    BY DEF Init, Phases, Outcomes
  <1>3. pool \in [Keys -> Nat]
    BY PoolAssumption DEF Init
  <1>4. /\ got \in [Job -> SUBSET Job] /\ refs \in [Job -> SUBSET Job]
        /\ ex \in [Entries -> Job \cup {NoJob}]
    BY DEF Init
  <1> QED
    BY <1>1, <1>2, <1>3, <1>4 DEF Init, Shape

\* Returning from do_run keeps the state well formed, from any phase.
LEMMA ReturnShape ==
  ASSUME Shape, NEW j \in Job, NEW o \in Outcomes, Return(j, o),
         file' \in [Entries -> {"none"} \cup Stored]
  PROVE  Shape'
  <1> USE DEF Shape
  <1>1. phase' \in [Job -> Phases] /\ outcome' \in [Job -> Outcomes]
    BY DEF Return, Phases
  <1>2. refs' \in [Job -> SUBSET Job]
    BY DEF Return, DropRefs
  <1>3. ex' \in [Entries -> Job \cup {NoJob}]
    BY DEF Return
  <1>4. pool' \in [Keys -> Nat]
    BY JobParts, PoolAssumption DEF Return
  <1> QED
    BY <1>1, <1>2, <1>3, <1>4 DEF Return, mgrVars, cntVars

\* A set_commits call keeps the state well formed.
LEMMA SetCommitsShape ==
  ASSUME Shape, NEW C \in SUBSET Commits, SetCommits(C)
  PROVE  Shape'
  <1> USE DEF Shape
  <1> DEFINE new == NewCases(C)
             batch == IF BatchClosed(new) THEN {<<x[1], x[2], calls + 1>> : x \in new} ELSE {}
  <1>1. calls' = calls + 1 /\ calls' \in 0..MaxCalls
    BY PoolAssumption DEF SetCommits
  <1>2. job_cts' = [x \in Case |-> IF x \in KeptCases(C) THEN job_cts[x]
                                   ELSE IF <<x[1], x[2], calls + 1>> \in batch
                                        THEN calls + 1 ELSE 0]
    BY DEF SetCommits
  <1>3. job_cts' \in [Case -> 0..MaxCalls]
    <2>1. 0 \in 0..MaxCalls /\ calls + 1 \in 0..MaxCalls
      BY <1>1, PoolAssumption
    <2> HIDE DEF batch
    <2> QED
      BY <1>2, <2>1
  <1>4. phase' = [j \in Job |-> IF j \in batch THEN "deps" ELSE phase[j]]
    BY DEF SetCommits
  <1>5. phase' \in [Job -> Phases]
    <2> HIDE DEF batch
    <2> QED
      BY <1>4 DEF Phases
  <1>6. ct' \in SUBSET Job
    BY DEF SetCommits, Dropped
  <1>7. panicked' \in BOOLEAN /\ dirty' \in BOOLEAN
    BY DEF SetCommits
  <1> QED
    BY <1>1, <1>3, <1>5, <1>6, <1>7 DEF SetCommits

\* Ending the watch loop keeps the state well formed.
LEMMA ShutdownShape ==
  ASSUME Shape, Shutdown
  PROVE  Shape'
  <1>1. job_cts' \in [Case -> 0..MaxCalls]
    BY PoolAssumption DEF Shutdown, Shape
  <1>2. ct' \in SUBSET Job
    BY DEF Shutdown, Shape, Dropped
  <1> QED
    BY <1>1, <1>2 DEF Shutdown, Shape, jobVars

\* Waiting for the jobs to settle keeps the state well formed.
LEMMA SettleShape ==
  ASSUME Shape, Settle
  PROVE  Shape'
  BY DEF Shape, Settle, SettleCheck, SettleSubscribe, SettleWake, mgrVars, jobVars

\* Every step of a job keeps the state well formed.
LEMMA JobStepShape ==
  ASSUME Shape, NEW j \in Job, JobStep(j)
  PROVE  Shape'
  <1>a. {"error", "canceled", "pass", "fail"} \subseteq Outcomes
    BY DEF Outcomes
  <1>b. file \in [Entries -> {"none"} \cup Stored]
    BY DEF Shape
  <1>1. ASSUME NEW d \in DepJobs(j), DepSucceeds(j, d) PROVE Shape'
    BY <1>1, DepJobsAreJobs DEF Shape, DepSucceeds, mgrVars, cntVars
  <1>2. ASSUME NEW d \in DepJobs(j), DepFails(j, d) PROVE Shape'
    BY <1>2, <1>a, <1>b, ReturnShape DEF DepFails
  <1>3. CASE AcquirePermit(j)
    BY <1>3 DEF Shape, AcquirePermit, Move, Phases, mgrVars, cntVars
  <1>4. CASE LookupFound(j)
    <2>1. file[EntryOf(j)] \in Outcomes
      BY <1>4, <1>b, JobParts DEF LookupFound, Found, Outcomes, Stored
    <2> QED
      BY <1>4, <1>b, <2>1, ReturnShape DEF LookupFound
  <1>5. CASE LookupRun(j)
    BY <1>5 DEF Shape, LookupRun, Move, Phases, mgrVars, cntVars
  <1>6. CASE ObserveCancel(j) \/ ChildStopped(j)
    BY <1>6, <1>a, <1>b, ReturnShape DEF ObserveCancel, ChildStopped
  <1>7. CASE LookupFails(j) \/ StartFails(j) \/ ChildErrors(j) \/ DowngradeFails(j)
    BY <1>7, <1>a, <1>b, ReturnShape DEF LookupFails, StartFails, ChildErrors, DowngradeFails
  <1>8. CASE PollGet(j) \/ Block(j) \/ StartChild(j) \/ CancelChild(j)
    BY <1>8 DEF Shape, PollGet, Block, StartChild, CancelChild, Move, Phases, mgrVars, cntVars
  <1>9. CASE Grant(j)
    <2>1. pool' \in [Keys -> Nat]
      BY <1>9, JobParts, PoolAssumption DEF Shape, Grant, Fits
    <2> QED
      BY <1>9, <2>1 DEF Shape, Grant, Move, Phases, mgrVars, cntVars
  <1>10. ASSUME NEW o \in Stored, ChildExits(j, o) PROVE Shape'
    BY <1>10 DEF Shape, ChildExits, Move, Phases, Outcomes, Stored, mgrVars, cntVars
  <1>11. CASE StoreFails(j)
    <2>1. file' \in [Entries -> {"none"} \cup Stored]
      BY <1>11, <1>b DEF StoreFails
    <2> QED
      BY <1>11, <1>a, <2>1, ReturnShape DEF StoreFails
  <1>12. CASE DowngradeDone(j)
    <2>1. outcome[j] \in Outcomes
      BY DEF Shape
    <2> QED
      BY <1>12, <1>b, <2>1, ReturnShape DEF DowngradeDone
  <1>13. CASE NotifyCompletion(j)
    BY <1>13 DEF Shape, NotifyCompletion, Receivers, Dependents, Move, Phases, mgrVars, cntVars
  <1>14. CASE DropJob(j)
    BY <1>14 DEF Shape, DropJob, DropRefs, Move, Phases, mgrVars, cntVars
  <1>15. CASE DropOutcome(j)
    BY <1>15 DEF Shape, DropOutcome, Move, Phases, mgrVars, cntVars
  <1> QED
    BY <1>1, <1>2, <1>3, <1>4, <1>5, <1>6, <1>7, <1>8, <1>9, <1>10, <1>11,
       <1>12, <1>13, <1>14, <1>15
    DEF JobStep, JobProgress, ChildEnds, JobFaults, Dependency

\* Every step of the manager keeps the state well formed.
LEMMA ShapeInductive == Shape /\ [Next]_vars => Shape'
  <1> SUFFICES ASSUME Shape, [Next]_vars PROVE Shape'
    OBVIOUS
  <1>1. CASE UNCHANGED vars
    BY <1>1 DEF vars, Shape
  <1>2. CASE Finished
    BY <1>2 DEF Finished, vars, Shape
  <1> QED
    BY <1>1, <1>2, SetCommitsShape, ShutdownShape, SettleShape, JobStepShape DEF Next

-----------------------------------------------------------------------------
(* Locks and references to database entries.                                *)

\* A new Manager holds no lock and no reference.
LEMMA InitLocks == Init => LockInv /\ DepsReferenced /\ CallsPast
  BY NoJobAssumption
  DEF Init, LockInv, ExOwner, RefsOwned, LocksExclude, SharedHolders, DepsReferenced,
      CallsPast, ExPhases, DonePhases, SentPhases, PermitPhases, ResourcePhases

\* do_run may return a result only while nobody has its entry locked exclusively;
\* then its locals' drops disturb no lock and no other job's references.
LEMMA ReturnLocks ==
  ASSUME Shape, LockInv, DepsReferenced,
         NEW j \in Job, NEW o \in Outcomes, Return(j, o),
         phase[j] \in ActivePhases,
         o \in Stored => ExFree(EntryOf(j))
  PROVE  LockInv' /\ DepsReferenced'
  <1>0. /\ \A k \in Job : phase'[k] = IF k = j THEN "returned" ELSE phase[k]
        /\ \A k \in Job : outcome'[k] = IF k = j THEN o ELSE outcome[k]
        /\ \A k \in Job : refs'[k] = IF k = j THEN IF o \in Stored THEN {j} ELSE {}
                                     ELSE IF k \in got[j] THEN refs[k] \ {j} ELSE refs[k]
        /\ \A e \in Entries : ex'[e] = IF ex[e] = j THEN NoJob ELSE ex[e]
        /\ got' = got
    BY DEF Return, DropRefs, Shape
  <1>1. phase[j] \notin DonePhases /\ "returned" \notin SentPhases \cup ActivePhases \cup ExPhases
    BY DEF ActivePhases, DonePhases, SentPhases, PermitPhases, ResourcePhases, ExPhases
  <1>2. ExOwner'
    BY <1>0, <1>1, NoJobAssumption, JobParts DEF ExOwner, LockInv, EntryOf, CaseOf, Shape
  <1>3. RefsOwned'
    BY <1>0, <1>1 DEF RefsOwned, LockInv, DonePhases, Shape
  <1>4. LocksExclude'
    <2> SUFFICES ASSUME NEW e \in Entries, ex'[e] # NoJob, NEW k \in Job,
                        EntryOf(k) = e, refs'[k] # {}
                 PROVE  FALSE
      BY DEF LocksExclude, SharedHolders, EntryOf, CaseOf
    <2>1. ex[e] # NoJob
      BY <1>0
    <2>2. k # j
      BY <1>0, <2>1 DEF ExFree
    <2>3. refs[k] # {}
      BY <1>0, <2>2
    <2> QED
      BY <2>1, <2>3 DEF LockInv, LocksExclude, SharedHolders
  <1>5. DepsReferenced'
    <2> SUFFICES ASSUME NEW k \in Job
                 PROVE  /\ got[k] \subseteq DepJobs(k)
                        /\ phase'[k] = "none" => got[k] = {}
                        /\ phase'[k] \in ActivePhases =>
                             \A d \in got[k] : /\ phase'[d] \in SentPhases
                                               /\ outcome'[d] = "pass"
                                               /\ k \in refs'[d]
                        /\ phase'[k] \in PermitPhases => got[k] = DepJobs(k)
                        /\ phase'[k] = "deps" =>
                             \A d \in DepJobs(k) :
                                phase'[d] \in SentPhases /\ outcome'[d] = "pass" => k \in refs'[d]
      BY <1>0 DEF DepsReferenced, DepJobs, TestOf
    <2>1. CASE k = j
      <3>1. phase'[k] \notin ActivePhases
        BY <1>0, <2>1 DEF ActivePhases, PermitPhases, ResourcePhases
      <3> QED
        BY <1>0, <2>1, <3>1 DEF DepsReferenced, ActivePhases
    <2>2. CASE k # j
      <3>1. \A d \in DepJobs(k) : d \in Job /\ (phase'[d] \in SentPhases => d # j)
        BY <1>0, <1>1, DepJobsAreJobs
      <3>2. phase'[k] = phase[k]
        BY <1>0, <2>2
      <3>3. \A d \in DepJobs(k) : d # j =>
              /\ phase'[d] = phase[d]
              /\ outcome'[d] = outcome[d]
              /\ k \in refs[d] => k \in refs'[d]
        BY <1>0, <2>2, <3>1
      <3>4. phase[j] \notin SentPhases
        BY <1>1 DEF DonePhases
      <3>5. got[k] \subseteq DepJobs(k)
        BY DEF DepsReferenced
      <3>6. ASSUME phase[k] \in ActivePhases, NEW d \in got[k]
            PROVE  phase'[d] \in SentPhases /\ outcome'[d] = "pass" /\ k \in refs'[d]
        <4>1. phase[d] \in SentPhases /\ outcome[d] = "pass" /\ k \in refs[d]
          BY <3>6 DEF DepsReferenced
        <4> QED
          BY <3>3, <3>4, <3>5, <4>1
      <3>7. ASSUME phase[k] = "deps", NEW d \in DepJobs(k),
                   phase'[d] \in SentPhases, outcome'[d] = "pass"
            PROVE  k \in refs'[d]
        BY <3>1, <3>3, <3>7 DEF DepsReferenced
      <3>8. phase[k] = "none" => got[k] = {}
        BY DEF DepsReferenced
      <3>9. phase[k] \in PermitPhases => got[k] = DepJobs(k)
        BY DEF DepsReferenced
      <3> QED
        BY <3>2, <3>5, <3>6, <3>7, <3>8, <3>9
    <2> QED
      BY <2>1, <2>2
  <1> QED
    BY <1>2, <1>3, <1>4, <1>5 DEF LockInv

\* A move of one job that keeps its locks and references disturbs nothing.
LEMMA MoveLocks ==
  ASSUME Shape, LockInv, DepsReferenced, NEW j \in Job, NEW to \in Phases,
         phase' = [phase EXCEPT ![j] = to],
         got' = got, outcome' = outcome, refs' = refs, ex' = ex,
         \/ phase[j] = "deps" /\ to = "lookup" /\ got[j] = DepJobs(j)
         \/ phase[j] \in ExPhases /\ to \in ExPhases
  PROVE  LockInv' /\ DepsReferenced'
  <1>1. \A k \in Job : phase'[k] = IF k = j THEN to ELSE phase[k]
    BY DEF Shape
  <1>2. /\ phase[j] \notin DonePhases /\ to \notin DonePhases
        /\ to \in PermitPhases /\ to # "deps"
        /\ phase[j] \in ActivePhases
        /\ phase[j] \in ExPhases <=> to \in ExPhases
    BY DEF ExPhases, DonePhases, SentPhases, ActivePhases, PermitPhases, ResourcePhases
  <1>3. ExOwner'
    BY <1>1, <1>2, NoJobAssumption DEF ExOwner, LockInv, EntryOf, CaseOf, Shape
  <1>4. RefsOwned'
    BY <1>1, <1>2 DEF RefsOwned, LockInv, DonePhases, SentPhases
  <1>5. LocksExclude'
    BY DEF LocksExclude, LockInv, SharedHolders, EntryOf, CaseOf
  <1>6. \A d \in Job : phase[d] \in SentPhases <=> phase'[d] \in SentPhases
    BY <1>1, <1>2 DEF DonePhases
  <1>7. got[j] = DepJobs(j)
    BY <1>2 DEF DepsReferenced, ExPhases, PermitPhases, ResourcePhases
  <1>8. DepsReferenced'
    <2> SUFFICES ASSUME NEW k \in Job
                 PROVE  /\ got[k] \subseteq DepJobs(k)
                        /\ phase'[k] = "none" => got[k] = {}
                        /\ phase'[k] \in ActivePhases =>
                             \A d \in got[k] : /\ phase'[d] \in SentPhases
                                               /\ outcome[d] = "pass"
                                               /\ k \in refs[d]
                        /\ phase'[k] \in PermitPhases => got[k] = DepJobs(k)
                        /\ phase'[k] = "deps" =>
                             \A d \in DepJobs(k) :
                                phase'[d] \in SentPhases /\ outcome[d] = "pass" => k \in refs[d]
      BY DEF DepsReferenced, DepJobs, TestOf
    <2>1. DepJobs(k) \subseteq Job /\ got[k] \subseteq DepJobs(k)
      BY DepJobsAreJobs DEF DepsReferenced
    <2>2. phase[k] \in ActivePhases =>
            \A d \in got[k] : phase[d] \in SentPhases /\ outcome[d] = "pass" /\ k \in refs[d]
      BY DEF DepsReferenced
    <2>3. phase'[k] \in ActivePhases =>
            \A d \in got[k] : phase'[d] \in SentPhases /\ outcome[d] = "pass" /\ k \in refs[d]
      BY <1>1, <1>2, <1>6, <2>1, <2>2
    <2>4. /\ phase'[k] \in PermitPhases => got[k] = DepJobs(k)
          /\ phase'[k] = "none" => got[k] = {}
      BY <1>1, <1>7, <1>2 DEF DepsReferenced, PermitPhases, ResourcePhases
    <2>5. phase'[k] = "deps" =>
            \A d \in DepJobs(k) : phase'[d] \in SentPhases /\ outcome[d] = "pass" => k \in refs[d]
      BY <1>1, <1>2, <1>6, <2>1 DEF DepsReferenced
    <2> QED
      BY <2>1, <2>3, <2>4, <2>5
  <1> QED
    BY <1>3, <1>4, <1>5, <1>8 DEF LockInv

\* Receiving a dependency's success turns the reference that was on the way into
\* one that the job holds.
LEMMA DepSucceedsLocks ==
  ASSUME Shape, LockInv, DepsReferenced, NEW j \in Job, NEW d \in DepJobs(j), DepSucceeds(j, d)
  PROVE  LockInv' /\ DepsReferenced'
  <1>1. LockInv'
    BY DEF DepSucceeds, LockInv, ExOwner, RefsOwned, LocksExclude, SharedHolders, EntryOf, CaseOf
  <1>2. DepsReferenced'
    <2>1. \A k \in Job : got'[k] = IF k = j THEN got[j] \cup {d} ELSE got[k]
      BY DEF DepSucceeds, Shape
    <2>2. phase[d] \in SentPhases /\ outcome[d] = "pass" /\ j \in refs[d] /\ phase[j] = "deps"
      BY DEF DepSucceeds, DepsReferenced
    <2>3. "deps" \notin PermitPhases
      BY DEF PermitPhases, ResourcePhases
    <2>4. phase' = phase /\ outcome' = outcome /\ refs' = refs
      BY DEF DepSucceeds
    <2> QED
      BY <2>1, <2>2, <2>3, <2>4 DEF DepsReferenced, DepJobs, TestOf
  <1> QED
    BY <1>1, <1>2

\* If one job's step leaves its role towards its dependencies and every reference
\* held by active jobs alone, and gives its dependents a reference when it sends a
\* success, dependencies stay referenced.
LEMMA DepsFrame ==
  ASSUME DepsReferenced, NEW j \in Job,
         got' = got,
         \A k \in Job : k # j => phase'[k] = phase[k] /\ outcome'[k] = outcome[k],
         phase[j] \notin {"none", "deps"}, phase'[j] \notin {"none", "deps"},
         phase'[j] \in PermitPhases => phase[j] \in PermitPhases,
         phase[j] \in SentPhases => phase'[j] \in SentPhases /\ outcome'[j] = outcome[j],
         phase'[j] \in SentPhases /\ phase[j] \notin SentPhases /\ outcome'[j] = "pass" =>
           \A k \in Job : phase[k] = "deps" /\ j \in DepJobs(k) => k \in refs'[j],
         \A k, d \in Job :
           k # j \/ phase[j] \in PermitPhases => (k \in refs[d] => k \in refs'[d])
  PROVE  DepsReferenced'
  <1> SUFFICES ASSUME NEW k \in Job
               PROVE  /\ got[k] \subseteq DepJobs(k)
                      /\ phase'[k] = "none" => got[k] = {}
                      /\ phase'[k] \in ActivePhases =>
                           \A d \in got[k] : /\ phase'[d] \in SentPhases
                                             /\ outcome'[d] = "pass"
                                             /\ k \in refs'[d]
                      /\ phase'[k] \in PermitPhases => got[k] = DepJobs(k)
                      /\ phase'[k] = "deps" =>
                           \A d \in DepJobs(k) :
                              phase'[d] \in SentPhases /\ outcome'[d] = "pass" => k \in refs'[d]
    BY DEF DepsReferenced, DepJobs, TestOf
  <1>1. DepJobs(k) \subseteq Job /\ got[k] \subseteq DepJobs(k)
    BY DepJobsAreJobs DEF DepsReferenced
  <1>2. /\ phase'[k] = "none" => phase[k] = "none"
        /\ phase'[k] = "deps" => phase[k] = "deps" /\ k # j
        /\ phase'[k] \in PermitPhases => phase[k] \in PermitPhases
    OBVIOUS
  <1>3. ASSUME phase'[k] \in ActivePhases, NEW d \in got[k]
        PROVE  phase'[d] \in SentPhases /\ outcome'[d] = "pass" /\ k \in refs'[d]
    <2>1. phase[k] \in ActivePhases /\ (k # j \/ phase[j] \in PermitPhases)
      BY <1>2, <1>3 DEF ActivePhases
    <2>2. phase[d] \in SentPhases /\ outcome[d] = "pass" /\ k \in refs[d]
      BY <2>1 DEF DepsReferenced
    <2> QED
      BY <1>1, <2>1, <2>2
  <1>4. ASSUME phase'[k] = "deps", NEW d \in DepJobs(k),
               phase'[d] \in SentPhases, outcome'[d] = "pass"
        PROVE  k \in refs'[d]
    <2>1. phase[k] = "deps" /\ k # j /\ d \in Job
      BY <1>1, <1>2, <1>4
    <2>2. CASE phase[d] \in SentPhases
      <3>1. outcome[d] = "pass"
        BY <1>4, <2>1, <2>2
      <3>2. k \in refs[d]
        BY <2>1, <2>2, <3>1 DEF DepsReferenced
      <3> QED
        BY <2>1, <3>2
    <2>3. CASE phase[d] \notin SentPhases
      BY <1>4, <2>1, <2>3
    <2> QED
      BY <2>2, <2>3
  <1>5. /\ phase[k] = "none" => got[k] = {}
        /\ phase[k] \in PermitPhases => got[k] = DepJobs(k)
    BY DEF DepsReferenced
  <1> QED
    BY <1>1, <1>2, <1>3, <1>4, <1>5

\* YouRunIt: the exclusive lock is taken while the entry has no holder at all.
LEMMA LookupRunLocks ==
  ASSUME Shape, LockInv, DepsReferenced, NEW j \in Job, LookupRun(j)
  PROVE  LockInv' /\ DepsReferenced'
  <1> DEFINE e == EntryOf(j)
  <1>0. e \in Entries
    BY JobParts
  <1>1. \A k \in Job : phase'[k] = IF k = j THEN "waiting" ELSE phase[k]
    BY DEF LookupRun, Move, Shape
  <1>2. \A f \in Entries : ex'[f] = IF f = e THEN j ELSE ex[f]
    BY DEF LookupRun, Shape
  <1>3. refs' = refs /\ outcome' = outcome /\ got' = got /\ phase[j] = "lookup"
    BY DEF LookupRun, Move
  <1>4. ex[e] = NoJob /\ SharedHolders(e) = {}
    BY DEF LookupRun, Unlocked, ExFree
  <1>5. ExOwner'
    <2>1. \A f \in Entries : ex'[f] # NoJob => EntryOf(ex'[f]) = f /\ phase'[ex'[f]] \in ExPhases
      BY <1>1, <1>2, <1>4 DEF LockInv, ExOwner, ExPhases, Shape
    <2>2. \A k \in Job : phase'[k] \in ExPhases => ex'[EntryOf(k)] = k
      BY <1>1, <1>2, <1>4, JobParts, NoJobAssumption DEF LockInv, ExOwner
    <2> QED
      BY <2>1, <2>2 DEF ExOwner, EntryOf, CaseOf
  <1>6. RefsOwned'
    BY <1>1, <1>3 DEF LockInv, RefsOwned, DonePhases, SentPhases
  <1>7. LocksExclude'
    BY <1>2, <1>3, <1>4 DEF LockInv, LocksExclude, SharedHolders, EntryOf, CaseOf
  <1>8. DepsReferenced'
    BY <1>1, <1>3, DepsFrame DEF PermitPhases, ResourcePhases, SentPhases
  <1> QED
    BY <1>5, <1>6, <1>7, <1>8 DEF LockInv

\* set_result gives the exclusive lock up before it has a shared one.
LEMMA ChildExitsLocks ==
  ASSUME Shape, LockInv, DepsReferenced, NEW j \in Job, NEW o \in Stored, ChildExits(j, o)
  PROVE  LockInv' /\ DepsReferenced'
  <1> DEFINE e == EntryOf(j)
  <1>0. e \in Entries
    BY JobParts
  <1>1. \A k \in Job : phase'[k] = IF k = j THEN "downgrade" ELSE phase[k]
    BY DEF ChildExits, Move, Shape
  <1>2. \A f \in Entries : ex'[f] = IF f = e THEN NoJob ELSE ex[f]
    BY DEF ChildExits, Shape
  <1>3. refs' = refs /\ got' = got /\ phase[j] = "running"
    BY DEF ChildExits, Move
  <1>4. \A k \in Job : k # j => outcome'[k] = outcome[k]
    BY DEF ChildExits, Shape
  <1>5. ExOwner'
    <2>1. ex[e] = j
      BY <1>3 DEF LockInv, ExOwner, ExPhases
    <2>2. \A f \in Entries : ex'[f] # NoJob => EntryOf(ex'[f]) = f /\ phase'[ex'[f]] \in ExPhases
      BY <1>1, <1>2, <2>1 DEF LockInv, ExOwner, Shape
    <2>3. \A k \in Job : phase'[k] \in ExPhases => ex'[EntryOf(k)] = k
      BY <1>1, <1>2, <2>1, JobParts DEF LockInv, ExOwner, ExPhases
    <2> QED
      BY <2>2, <2>3 DEF ExOwner, EntryOf, CaseOf
  <1>6. RefsOwned'
    <2>1. refs[j] = {}
      BY <1>3 DEF LockInv, RefsOwned, DonePhases, SentPhases
    <2> QED
      BY <1>1, <1>3, <1>4, <2>1 DEF LockInv, RefsOwned, DonePhases, SentPhases
  <1>7. LocksExclude'
    BY <1>2, <1>3 DEF LockInv, LocksExclude, SharedHolders, EntryOf, CaseOf
  <1>8. DepsReferenced'
    BY <1>1, <1>3, <1>4, DepsFrame DEF PermitPhases, ResourcePhases, SentPhases
  <1> QED
    BY <1>5, <1>6, <1>7, <1>8 DEF LockInv

\* notify_completion adds references to entries that are referenced already.
LEMMA NotifyLocks ==
  ASSUME Shape, LockInv, DepsReferenced, NEW j \in Job, NotifyCompletion(j)
  PROVE  LockInv' /\ DepsReferenced'
  <1>1. \A k \in Job : phase'[k] = IF k = j THEN "notified" ELSE phase[k]
    BY DEF NotifyCompletion, Move, Shape
  <1>2. \A k \in Job : refs'[k] = IF k = j /\ outcome[j] \in Stored
                                  THEN refs[j] \cup Receivers(j) ELSE refs[k]
    BY DEF NotifyCompletion, Shape
  <1>3. outcome' = outcome /\ got' = got /\ ex' = ex /\ phase[j] = "returned"
    BY DEF NotifyCompletion, Move
  <1>4. outcome[j] \in Stored => j \in refs[j]
    BY <1>3 DEF LockInv, RefsOwned
  <1>5. ExOwner'
    BY <1>1, <1>3, NoJobAssumption DEF LockInv, ExOwner, ExPhases, EntryOf, CaseOf, Shape
  <1>6. RefsOwned'
    <2> SUFFICES ASSUME NEW k \in Job
                 PROVE  /\ refs'[k] # {} => phase'[k] \in DonePhases /\ outcome[k] \in Stored
                        /\ phase'[k] \in {"returned", "notified", "untokened"} /\ outcome[k] \in Stored
                             => k \in refs'[k]
      BY <1>3 DEF RefsOwned
    <2>1. CASE k = j
      BY <1>1, <1>2, <1>4, <2>1 DEF LockInv, RefsOwned, DonePhases, SentPhases
    <2>2. CASE k # j
      BY <1>1, <1>2, <2>2 DEF LockInv, RefsOwned
    <2> QED
      BY <2>1, <2>2
  <1>7. LocksExclude'
    BY <1>2, <1>3, <1>4 DEF LockInv, LocksExclude, SharedHolders, EntryOf, CaseOf
  <1>8. DepsReferenced'
    <2>1. \A k \in Job : phase[k] = "deps" /\ j \in DepJobs(k) => k \in Receivers(j)
      BY DEF Receivers, Dependents, LivePhases, Phases
    <2>2. outcome'[j] = "pass" =>
            \A k \in Job : phase[k] = "deps" /\ j \in DepJobs(k) => k \in refs'[j]
      BY <1>2, <1>3, <2>1 DEF Stored
    <2>3. \A k, d \in Job : k \in refs[d] => k \in refs'[d]
      BY <1>2
    <2> QED
      BY <1>1, <1>3, <2>2, <2>3, DepsFrame DEF PermitPhases, ResourcePhases, SentPhases
  <1> QED
    BY <1>5, <1>6, <1>7, <1>8 DEF LockInv

\* Dropping the TestJob gives up references that only an active job needs.
LEMMA DropJobLocks ==
  ASSUME Shape, LockInv, DepsReferenced, NEW j \in Job, DropJob(j)
  PROVE  LockInv' /\ DepsReferenced'
  <1>1. \A k \in Job : phase'[k] = IF k = j THEN "untokened" ELSE phase[k]
    BY DEF DropJob, Move, Shape
  <1>2. \A k \in Job : refs'[k] = IF k \in DepJobs(j) THEN refs[k] \ {j} ELSE refs[k]
    BY DEF DropJob, DropRefs
  <1>3. outcome' = outcome /\ got' = got /\ ex' = ex /\ phase[j] = "notified"
    BY DEF DropJob, Move
  <1>4. j \notin DepJobs(j)
    BY DepsIrreflexive
  <1>5. ExOwner'
    BY <1>1, <1>3, NoJobAssumption DEF LockInv, ExOwner, ExPhases, EntryOf, CaseOf, Shape
  <1>6. RefsOwned'
    BY <1>1, <1>2, <1>3, <1>4 DEF LockInv, RefsOwned, DonePhases, SentPhases
  <1>7. LocksExclude'
    BY <1>2, <1>3 DEF LockInv, LocksExclude, SharedHolders, EntryOf, CaseOf
  <1>8. DepsReferenced'
    BY <1>1, <1>2, <1>3, DepsFrame DEF PermitPhases, ResourcePhases, SentPhases
  <1> QED
    BY <1>5, <1>6, <1>7, <1>8 DEF LockInv

\* The task's own reference goes last.
LEMMA DropOutcomeLocks ==
  ASSUME Shape, LockInv, DepsReferenced, NEW j \in Job, DropOutcome(j)
  PROVE  LockInv' /\ DepsReferenced'
  <1>1. \A k \in Job : phase'[k] = IF k = j THEN "done" ELSE phase[k]
    BY DEF DropOutcome, Move, Shape
  <1>2. \A k \in Job : refs'[k] = IF k = j THEN refs[k] \ {j} ELSE refs[k]
    BY DEF DropOutcome, Shape
  <1>3. outcome' = outcome /\ got' = got /\ ex' = ex /\ phase[j] = "untokened"
    BY DEF DropOutcome, Move
  <1>5. ExOwner'
    BY <1>1, <1>3, NoJobAssumption DEF LockInv, ExOwner, ExPhases, EntryOf, CaseOf, Shape
  <1>6. RefsOwned'
    BY <1>1, <1>2, <1>3 DEF LockInv, RefsOwned, DonePhases, SentPhases
  <1>7. LocksExclude'
    BY <1>2, <1>3 DEF LockInv, LocksExclude, SharedHolders, EntryOf, CaseOf
  <1>8. DepsReferenced'
    BY <1>1, <1>2, <1>3, DepsFrame DEF PermitPhases, ResourcePhases, SentPhases
  <1> QED
    BY <1>5, <1>6, <1>7, <1>8 DEF LockInv

\* Every step of a job keeps locks and references in order.
LEMMA JobStepLocks ==
  ASSUME Shape, LockInv, DepsReferenced, NEW j \in Job, JobStep(j)
  PROVE  LockInv' /\ DepsReferenced'
  <1> DEFINE Goal == LockInv' /\ DepsReferenced'
  <1>a. /\ {"error", "canceled"} \cap Stored = {}
        /\ {"error", "canceled"} \subseteq Outcomes
        /\ Stored \subseteq Outcomes
    BY DEF Stored, Outcomes
  <1>b. {"deps", "lookup", "waiting", "starting", "running", "stopping", "downgrade"}
          \subseteq ActivePhases
    BY DEF ActivePhases, PermitPhases, ResourcePhases
  <1>c. ExPhases \subseteq Phases /\ "lookup" \in Phases
    BY DEF ExPhases, Phases
  <1>1. ASSUME NEW d \in DepJobs(j), DepSucceeds(j, d) PROVE Goal
    BY <1>1, DepSucceedsLocks
  <1>2. ASSUME NEW d \in DepJobs(j), DepFails(j, d) PROVE Goal
    BY <1>2, <1>a, <1>b, ReturnLocks DEF DepFails
  <1>3. CASE AcquirePermit(j)
    BY <1>3, <1>c, MoveLocks DEF AcquirePermit, Move, DepsSucceeded
  <1>4. CASE LookupFound(j)
    <2>1. file[EntryOf(j)] \in Stored
      BY <1>4, JobParts DEF LookupFound, Found, Shape
    <2> QED
      BY <1>4, <1>a, <1>b, <2>1, ReturnLocks DEF LookupFound
  <1>5. CASE LookupRun(j)
    BY <1>5, LookupRunLocks
  <1>6. CASE ObserveCancel(j) \/ ChildStopped(j)
    BY <1>6, <1>a, <1>b, ReturnLocks DEF ObserveCancel, ChildStopped
  <1>7. CASE LookupFails(j) \/ StartFails(j) \/ ChildErrors(j) \/ StoreFails(j) \/ DowngradeFails(j)
    BY <1>7, <1>a, <1>b, ReturnLocks
    DEF LookupFails, StartFails, ChildErrors, StoreFails, DowngradeFails
  <1>8. CASE PollGet(j) \/ Grant(j) \/ Block(j) \/ StartChild(j) \/ CancelChild(j)
    <2>1. PICK to \in ExPhases : phase[j] \in ExPhases /\ phase' = [phase EXCEPT ![j] = to]
      BY <1>8 DEF PollGet, Grant, Block, StartChild, CancelChild, Move, ExPhases
    <2>2. got' = got /\ outcome' = outcome /\ refs' = refs /\ ex' = ex
      BY <1>8 DEF PollGet, Grant, Block, StartChild, CancelChild
    <2> QED
      BY <1>c, <2>1, <2>2, MoveLocks
  <1>9. ASSUME NEW o \in Stored, ChildExits(j, o) PROVE Goal
    BY <1>9, ChildExitsLocks
  <1>10. CASE DowngradeDone(j)
    <2>1. outcome[j] \in Outcomes
      BY DEF Shape
    <2> QED
      BY <1>10, <1>b, <2>1, ReturnLocks DEF DowngradeDone
  <1>11. CASE NotifyCompletion(j) \/ DropJob(j) \/ DropOutcome(j)
    BY <1>11, NotifyLocks, DropJobLocks, DropOutcomeLocks
  <1> QED
    BY <1>1, <1>2, <1>3, <1>4, <1>5, <1>6, <1>7, <1>8, <1>9, <1>10, <1>11
    DEF JobStep, JobProgress, ChildEnds, JobFaults, Dependency

\* A set_commits call spawns jobs with a number of their own, none of whose
\* dependencies can have finished.
LEMMA SetCommitsLocks ==
  ASSUME Shape, LockInv, DepsReferenced, CallsPast, NEW C \in SUBSET Commits, SetCommits(C)
  PROVE  LockInv' /\ DepsReferenced' /\ CallsPast'
  <1> DEFINE new == NewCases(C)
             batch == IF BatchClosed(new) THEN {<<x[1], x[2], calls + 1>> : x \in new} ELSE {}
  <1>1. \A k \in Job : phase'[k] = IF k \in batch THEN "deps" ELSE phase[k]
    BY DEF SetCommits
  <1>2. \A k \in batch : k[3] = calls + 1
    OBVIOUS
  <1>3. calls \in Nat /\ calls' = calls + 1
    BY PoolAssumption DEF SetCommits, Shape
  <1>4. \A k \in Job : k \in batch => phase[k] = "none"
    <2> HIDE DEF batch
    <2> QED
      BY <1>2, <1>3, JobParts DEF CallsPast
  <1>5. refs' = refs /\ outcome' = outcome /\ got' = got /\ ex' = ex
    BY DEF SetCommits
  <1> HIDE DEF batch
  <1>6. ExOwner'
    BY <1>1, <1>4, <1>5, NoJobAssumption DEF LockInv, ExOwner, ExPhases, EntryOf, CaseOf, Shape
  <1>7. RefsOwned'
    BY <1>1, <1>4, <1>5 DEF LockInv, RefsOwned, DonePhases, SentPhases
  <1>8. LocksExclude'
    BY <1>5 DEF LockInv, LocksExclude, SharedHolders, EntryOf, CaseOf
  <1>9. \A d \in Job : phase'[d] \in SentPhases => phase'[d] = phase[d]
    BY <1>1 DEF SentPhases
  <1>10. DepsReferenced'
    <2> SUFFICES ASSUME NEW k \in Job
                 PROVE  /\ got[k] \subseteq DepJobs(k)
                        /\ phase'[k] = "none" => got[k] = {}
                        /\ phase'[k] \in ActivePhases =>
                             \A d \in got[k] : /\ phase'[d] \in SentPhases
                                               /\ outcome[d] = "pass"
                                               /\ k \in refs[d]
                        /\ phase'[k] \in PermitPhases => got[k] = DepJobs(k)
                        /\ phase'[k] = "deps" =>
                             \A d \in DepJobs(k) :
                                phase'[d] \in SentPhases /\ outcome[d] = "pass" => k \in refs[d]
      BY <1>5 DEF DepsReferenced, DepJobs, TestOf
    <2>1. DepJobs(k) \subseteq Job /\ got[k] \subseteq DepJobs(k)
      BY DepJobsAreJobs DEF DepsReferenced
    <2>2. CASE k \in batch
      <3>1. got[k] = {} /\ phase'[k] = "deps" /\ "deps" \notin PermitPhases
        BY <1>1, <1>4, <2>2 DEF DepsReferenced, PermitPhases, ResourcePhases
      <3>2. \A d \in DepJobs(k) : d[3] = k[3]
        BY DEF DepJobs
      <3>3. \A d \in DepJobs(k) : phase[d] = "none"
        BY <1>2, <1>3, <2>1, <2>2, <3>2, JobParts DEF CallsPast
      <3>4. \A d \in DepJobs(k) : phase'[d] \notin SentPhases
        BY <1>9, <2>1, <3>3 DEF SentPhases
      <3> QED
        BY <2>1, <3>1, <3>4
    <2>3. CASE k \notin batch
      <3>1. phase'[k] = phase[k]
        BY <1>1, <2>3
      <3>2. \A d \in DepJobs(k) : phase[d] \in SentPhases <=> phase'[d] \in SentPhases
        BY <1>1, <1>4, <1>9, <2>1 DEF SentPhases
      <3> QED
        BY <2>1, <3>1, <3>2 DEF DepsReferenced
    <2> QED
      BY <2>2, <2>3
  <1>11. CallsPast'
    BY <1>1, <1>2, <1>3, JobParts DEF CallsPast
  <1> QED
    BY <1>6, <1>7, <1>8, <1>10, <1>11 DEF LockInv

\* A job's step spawns nothing.
LEMMA JobStepFrame ==
  ASSUME Shape, NEW j \in Job, JobStep(j)
  PROVE  /\ job_cts' = job_cts /\ calls' = calls /\ panicked' = panicked
         /\ ct' = ct /\ closing' = closing /\ settle' = settle
         /\ phase[j] # "none" /\ phase'[j] # "none"
         /\ \A k \in Job : k # j => phase'[k] = phase[k]
  <1>1. ASSUME NEW d \in DepJobs(j), DepSucceeds(j, d) \/ DepFails(j, d)
        PROVE  /\ mgrVars' = mgrVars /\ settle' = settle
               /\ phase[j] # "none" /\ phase'[j] # "none"
               /\ \A k \in Job : k # j => phase'[k] = phase[k]
    BY <1>1 DEF DepSucceeds, DepFails, Return, mgrVars, cntVars, Shape
  <1>2. CASE AcquirePermit(j) \/ LookupRun(j) \/ PollGet(j) \/ Grant(j) \/ Block(j)
    BY <1>2 DEF AcquirePermit, LookupRun, PollGet, Grant, Block, Move, mgrVars, cntVars, Shape
  <1>3. CASE \/ LookupFound(j) \/ LookupFails(j) \/ ObserveCancel(j) \/ StartFails(j)
             \/ ChildErrors(j) \/ StoreFails(j) \/ DowngradeDone(j) \/ DowngradeFails(j)
             \/ ChildStopped(j)
    BY <1>3 DEF LookupFound, LookupFails, ObserveCancel, StartFails, ChildErrors, StoreFails,
                DowngradeDone, DowngradeFails, ChildStopped, Return, mgrVars, cntVars, Shape
  <1>4. CASE \/ StartChild(j) \/ CancelChild(j) \/ NotifyCompletion(j)
             \/ DropJob(j) \/ DropOutcome(j) \/ \E o \in Stored : ChildExits(j, o)
    BY <1>4 DEF StartChild, CancelChild, NotifyCompletion, DropJob, DropOutcome, ChildExits,
                Move, mgrVars, cntVars, Shape
  <1> QED
    BY <1>1, <1>2, <1>3, <1>4
    DEF JobStep, JobProgress, ChildEnds, JobFaults, Dependency, mgrVars, Shape

\* Settling and ending the watch loop leave the jobs alone.
LEMMA OtherStepsFrame ==
  ASSUME Shutdown \/ Settle \/ Finished \/ UNCHANGED vars
  PROVE  /\ phase' = phase /\ got' = got /\ outcome' = outcome /\ refs' = refs /\ ex' = ex
         /\ file' = file /\ sem' = sem /\ pool' = pool /\ calls' = calls
         /\ panicked' = panicked /\ count' = count
  BY DEF Shutdown, Settle, SettleCheck, SettleSubscribe, SettleWake, Finished, vars, jobVars, mgrVars

\* JobInv is inductive.
LEMMA JobInvInductive == JobInv /\ [Next]_vars => JobInv'
  <1> SUFFICES ASSUME JobInv, [Next]_vars PROVE JobInv'
    OBVIOUS
  <1>1. Shape'
    BY ShapeInductive DEF JobInv
  <1>2. ASSUME NEW C \in SUBSET Commits, SetCommits(C) PROVE JobInv'
    BY <1>1, <1>2, SetCommitsLocks DEF JobInv
  <1>3. ASSUME NEW j \in Job, JobStep(j) PROVE JobInv'
    <2>1. LockInv' /\ DepsReferenced'
      BY <1>3, JobStepLocks DEF JobInv
    <2>2. CallsPast'
      BY <1>3, JobStepFrame DEF JobInv, CallsPast
    <2> QED
      BY <1>1, <2>1, <2>2 DEF JobInv
  <1>4. CASE Shutdown \/ Settle \/ Finished \/ UNCHANGED vars
    <2>1. LockInv' /\ DepsReferenced' /\ CallsPast'
      BY <1>4, OtherStepsFrame
      DEF JobInv, LockInv, ExOwner, RefsOwned, LocksExclude, SharedHolders, DepsReferenced,
          CallsPast, EntryOf, CaseOf, DepJobs, TestOf
    <2> QED
      BY <1>1, <2>1 DEF JobInv
  <1> QED
    BY <1>2, <1>3, <1>4 DEF Next

\* JobInv holds in every reachable state.
THEOREM JobInvHolds == Spec => []JobInv
  <1>1. Init => JobInv
    BY InitShape, InitLocks DEF JobInv
  <1> QED
    BY <1>1, JobInvInductive, PTL DEF Spec

\* A database entry is locked exclusively by one job or shared by others, never
\* both, through every conversion of its locks.
THEOREM LocksExcludeHolds == Spec => []LocksExclude
  <1>1. JobInv => LocksExclude
    BY DEF JobInv, LockInv
  <1> QED
    BY <1>1, JobInvHolds, PTL

\* No two jobs stored under one entry have a child at the same time.
THEOREM OneRunner == Spec => []OneRunnerPerEntry
  <1>1. JobInv => OneRunnerPerEntry
    BY DEF JobInv, LockInv, ExOwner, ExPhases, OneRunnerPerEntry
  <1> QED
    BY <1>1, JobInvHolds, PTL

\* While a job works, its dependencies have passed and their artifacts stay locked
\* against a rerun.
THEOREM DepArtifactsHold == Spec => []DepArtifactsStable
  <1>1. JobInv => DepArtifactsStable
    <2> SUFFICES ASSUME JobInv, NEW j \in Job, UsesDeps(j), NEW d \in DepJobs(j)
                 PROVE  outcome[d] = "pass" /\ j \in refs[d] /\ ExFree(EntryOf(d))
      BY DEF DepArtifactsStable
    <2>1. d \in got[j] /\ outcome[d] = "pass" /\ j \in refs[d]
      BY DEF JobInv, DepsReferenced, UsesDeps, ActivePhases
    <2>2. d \in Job /\ EntryOf(d) \in Entries
      BY DepJobsAreJobs, JobParts
    <2>3. d \in SharedHolders(EntryOf(d))
      BY <2>1, <2>2 DEF SharedHolders
    <2> QED
      BY <2>1, <2>2, <2>3 DEF JobInv, LockInv, LocksExclude, ExFree
  <1> QED
    BY <1>1, JobInvHolds, PTL

-----------------------------------------------------------------------------
(* Which jobs are tracked.                                                  *)

\* The "pretty strong implicit assumption" about job_cts: the cases of one commit
\* are tracked together.
CommitsWhole ==
  \A c \in Commits : \A t, u \in Tests : job_cts[<<c, t>>] # 0 => job_cts[<<c, u>>] # 0

TrackInv == CommitsWhole /\ UncancelledTracked /\ BatchesClose

\* With the commits' cases tracked together, a batch contains its dependencies, and
\* what leaves job_cts is cancelled.
LEMMA SetCommitsTrack ==
  ASSUME Shape, CallsPast, TrackInv, NEW C \in SUBSET Commits, SetCommits(C)
  PROVE  TrackInv'
  <1> DEFINE new == NewCases(C)
             batch == IF BatchClosed(new) THEN {<<x[1], x[2], calls + 1>> : x \in new} ELSE {}
  <1>1. BatchClosed(new)
    <2> SUFFICES ASSUME NEW x \in C \X Tests, job_cts[x] = 0, NEW d \in Deps[x[2]]
                 PROVE  job_cts[<<x[1], d>>] = 0 /\ <<x[1], d>> \in C \X Tests
      BY DEF BatchClosed, NewCases
    <2>1. x[1] \in C /\ x[2] \in Tests /\ x = <<x[1], x[2]>> /\ d \in Tests
      BY DepsAssumption
    <2> QED
      BY <2>1 DEF TrackInv, CommitsWhole
  <1>2. batch = {<<x[1], x[2], calls + 1>> : x \in new}
    BY <1>1
  <1>3. \A x \in Case : job_cts'[x] = IF x \in KeptCases(C) THEN job_cts[x]
                                      ELSE IF <<x[1], x[2], calls + 1>> \in batch
                                           THEN calls + 1 ELSE 0
    BY DEF SetCommits
  <1>4. calls \in Nat /\ calls + 1 # 0
    BY PoolAssumption DEF Shape
  <1>8. \A k \in Job : phase'[k] = IF k \in batch THEN "deps" ELSE phase[k]
    BY DEF SetCommits
  <1>5. \A x \in Case : <<x[1], x[2], calls + 1>> \in batch <=> x \in new
    <2> SUFFICES ASSUME NEW x \in Case, <<x[1], x[2], calls + 1>> \in batch PROVE x \in new
      BY <1>2
    <2>1. PICK y \in new : <<x[1], x[2], calls + 1>> = <<y[1], y[2], calls + 1>>
      BY <1>2
    <2>2. x = y
      BY <2>1 DEF NewCases, Case
    <2> QED
      BY <2>2
  <1> HIDE DEF batch
  <1>6. \A x \in Case : /\ x \in C \X Tests /\ job_cts[x] # 0 => job_cts'[x] = job_cts[x]
                        /\ x \in C \X Tests /\ job_cts[x] = 0 => job_cts'[x] = calls + 1
                        /\ x \notin C \X Tests => job_cts'[x] = 0
    BY <1>3, <1>5 DEF KeptCases, NewCases
  <1>7. CommitsWhole'
    <2> SUFFICES ASSUME NEW c \in Commits, NEW t \in Tests, NEW u \in Tests,
                        job_cts'[<<c, t>>] # 0
                 PROVE  job_cts'[<<c, u>>] # 0
      BY DEF CommitsWhole
    <2>1. <<c, t>> \in Case /\ <<c, u>> \in Case
      BY DEF Case
    <2>2. <<c, t>> \in C \X Tests /\ <<c, u>> \in C \X Tests
      BY <1>6, <2>1
    <2> QED
      BY <1>4, <1>6, <2>1, <2>2
  <1>9. UncancelledTracked'
    <2> SUFFICES ASSUME NEW k \in Job, phase'[k] # "none", k \notin ct'
                 PROVE  job_cts'[CaseOf(k)] = k[3]
      BY DEF UncancelledTracked, CaseOf
    <2>1. CaseOf(k) \in Case /\ k = <<CaseOf(k)[1], CaseOf(k)[2], k[3]>> /\ k[3] # 0
      BY JobParts DEF Job, CaseOf, Case
    <2>2. CASE k \in batch
      <3>1. PICK y \in new : k = <<y[1], y[2], calls + 1>>
        BY <1>2, <2>2
      <3>2. CaseOf(k) = y /\ k[3] = calls + 1
        BY <3>1 DEF CaseOf, NewCases
      <3> QED
        BY <1>6, <2>1, <3>2 DEF NewCases
    <2>3. CASE k \notin batch
      <3>1. k \notin ct /\ k \notin Dropped(C)
        BY DEF SetCommits
      <3>2. job_cts[CaseOf(k)] = k[3]
        BY <1>8, <2>3, <3>1 DEF TrackInv, UncancelledTracked
      <3>3. CaseOf(k) \in C \X Tests
        BY <3>1, <3>2 DEF Dropped
      <3> QED
        BY <1>6, <2>1, <3>2, <3>3
    <2> QED
      BY <2>2, <2>3
  <1>10. BatchesClose'
    BY <1>1 DEF SetCommits, BatchesClose, TrackInv
  <1> QED
    BY <1>7, <1>9, <1>10 DEF TrackInv

\* Tracking is preserved by every step.
LEMMA TrackInductive == JobInv /\ TrackInv /\ [Next]_vars => TrackInv'
  <1> SUFFICES ASSUME JobInv, TrackInv, [Next]_vars PROVE TrackInv'
    OBVIOUS
  <1>1. ASSUME NEW C \in SUBSET Commits, SetCommits(C) PROVE TrackInv'
    BY <1>1, SetCommitsTrack DEF JobInv
  <1>2. ASSUME NEW j \in Job, JobStep(j) PROVE TrackInv'
    BY <1>2, JobStepFrame DEF JobInv, TrackInv, CommitsWhole, UncancelledTracked, BatchesClose, CaseOf
  <1>3. CASE Shutdown
    <2>1. /\ \A x \in Case : job_cts'[x] = 0
          /\ ct' = ct \cup Dropped({}) /\ phase' = phase /\ panicked' = panicked
      BY <1>3 DEF Shutdown, jobVars
    <2>2. \A k \in Job : phase[k] # "none" => k \in ct'
      BY <2>1 DEF TrackInv, UncancelledTracked, Dropped
    <2> QED
      BY <2>1, <2>2 DEF TrackInv, CommitsWhole, UncancelledTracked, BatchesClose, Case, CaseOf
  <1>4. CASE Settle \/ Finished \/ UNCHANGED vars
    <2>1. job_cts' = job_cts /\ ct' = ct /\ phase' = phase /\ panicked' = panicked
      BY <1>4 DEF Settle, SettleCheck, SettleSubscribe, SettleWake, Finished, vars, jobVars, mgrVars
    <2> QED
      BY <2>1 DEF TrackInv, CommitsWhole, UncancelledTracked, BatchesClose, CaseOf
  <1> QED
    BY <1>1, <1>2, <1>3, <1>4 DEF Next

\* The implicit assumption of set_commits holds for good.
THEOREM TrackInvHolds == Spec => []TrackInv
  <1>1. Init => TrackInv
    BY DEF Init, TrackInv, CommitsWhole, UncancelledTracked, BatchesClose, Case
  <1> QED
    BY <1>1, TrackInductive, JobInvHolds, PTL DEF Spec

\* The expect("failed to build test case DAG") in set_commits is never hit.
THEOREM BatchesCloseHolds == Spec => []BatchesClose
  <1>1. TrackInv => BatchesClose
    BY DEF TrackInv
  <1> QED
    BY <1>1, TrackInvHolds, PTL

\* Every job is cancelled or the tracked job of its case.
THEOREM UncancelledTrackedHolds == Spec => []UncancelledTracked
  <1>1. TrackInv => UncancelledTracked
    BY DEF TrackInv
  <1> QED
    BY <1>1, TrackInvHolds, PTL

-----------------------------------------------------------------------------
(* Results of cacheable tests.                                              *)

\* While a cacheable test runs its entry has no result; what its job is about to
\* return, or returned, is in the file.
CacheInv ==
  /\ \A e \in Entries : ex[e] # NoJob /\ TestOf(ex[e]) \in Cacheable => file[e] = "none"
  /\ \A j \in Job : TestOf(j) \in Cacheable /\ phase[j] = "downgrade" =>
       outcome[j] \in Stored /\ file[EntryOf(j)] = outcome[j]
  /\ CachedEntryCurrent

\* Only a job with the exclusive lock writes the file, so a cacheable result stays.
LEMMA WriterHasLock ==
  ASSUME JobInv, CacheInv, NEW j \in Job, NEW k \in Job, TestOf(k) \in Cacheable,
         phase[j] = "running", file[EntryOf(k)] # "none"
  PROVE  EntryOf(j) # EntryOf(k)
  <1> SUFFICES ASSUME EntryOf(j) = EntryOf(k) PROVE FALSE
    OBVIOUS
  <1>1. ex[EntryOf(j)] = j
    BY DEF JobInv, LockInv, ExOwner, ExPhases
  <1>2. TestOf(j) = TestOf(k)
    BY EntryAssumption, JobParts DEF EntryOf, Case
  <1> QED
    BY <1>1, <1>2, JobParts, NoJobAssumption DEF CacheInv

\* A step changes an entry's file only when the job it belongs to runs.
LEMMA FileFrame ==
  ASSUME Shape, NEW j \in Job, JobStep(j)
  PROVE  file' = file \/ (/\ phase[j] = "running"
                          /\ \A e \in Entries : e # EntryOf(j) => file'[e] = file[e])
  <1>1. ASSUME NEW d \in DepJobs(j), DepSucceeds(j, d) \/ DepFails(j, d) PROVE file' = file
    BY <1>1 DEF DepSucceeds, DepFails
  <1>2. CASE ChildEnds(j) \/ StoreFails(j)
    BY <1>2 DEF ChildEnds, ChildExits, ChildErrors, StoreFails, Move, Shape
  <1>3. CASE \/ AcquirePermit(j) \/ LookupFound(j) \/ LookupRun(j)
             \/ ObserveCancel(j) \/ PollGet(j) \/ Grant(j) \/ Block(j) \/ StartChild(j)
             \/ CancelChild(j) \/ ChildStopped(j) \/ DowngradeDone(j)
             \/ NotifyCompletion(j) \/ DropJob(j) \/ DropOutcome(j)
             \/ LookupFails(j) \/ StartFails(j) \/ DowngradeFails(j)
    BY <1>3 DEF AcquirePermit, LookupFound, LookupRun, ObserveCancel, PollGet, Grant, Block,
                StartChild, CancelChild, ChildStopped, DowngradeDone, NotifyCompletion,
                DropJob, DropOutcome, LookupFails, StartFails, DowngradeFails
  <1> QED
    BY <1>1, <1>2, <1>3 DEF JobStep, JobProgress, JobFaults, Dependency

\* No step overwrites or loses a stored result of a cacheable test.
LEMMA KeptByStep ==
  ASSUME JobInv, CacheInv, [Next]_vars, NEW k \in Job, TestOf(k) \in Cacheable,
         file[EntryOf(k)] # "none"
  PROVE  file'[EntryOf(k)] = file[EntryOf(k)]
  <1>1. ASSUME NEW j \in Job, JobStep(j) PROVE file'[EntryOf(k)] = file[EntryOf(k)]
    BY <1>1, FileFrame, WriterHasLock, JobParts DEF JobInv
  <1>2. ASSUME NEW C \in SUBSET Commits, SetCommits(C) PROVE file' = file
    BY <1>2 DEF SetCommits
  <1> QED
    BY <1>1, <1>2, OtherStepsFrame DEF Next

\* What a step must leave in place for CacheInv to survive it.
LEMMA CacheFrame ==
  ASSUME JobInv, CacheInv, [Next]_vars, JobInv',
         \A e \in Entries : ex'[e] # NoJob /\ TestOf(ex'[e]) \in Cacheable =>
            file'[e] = "none",
         \A k \in Job : phase'[k] = "downgrade" =>
            \/ phase[k] = "downgrade" /\ outcome'[k] = outcome[k]
            \/ outcome'[k] \in Stored /\ file'[EntryOf(k)] = outcome'[k],
         \A k \in Job : refs'[k] # {} =>
            \/ refs[k] # {} /\ outcome'[k] = outcome[k]
            \/ TestOf(k) \in Cacheable => file'[EntryOf(k)] = outcome'[k]
  PROVE  CacheInv'
  <1>1. "none" \notin Stored
    BY DEF Stored
  <1>2. ASSUME NEW k \in Job, TestOf(k) \in Cacheable, phase'[k] = "downgrade"
        PROVE  outcome'[k] \in Stored /\ file'[EntryOf(k)] = outcome'[k]
    <2>1. CASE phase[k] = "downgrade" /\ outcome'[k] = outcome[k]
      BY <1>1, <1>2, <2>1, KeptByStep DEF CacheInv
    <2> QED
      BY <1>2, <2>1
  <1>3. ASSUME NEW k \in Job, TestOf(k) \in Cacheable, refs'[k] # {}
        PROVE  file'[EntryOf(k)] = outcome'[k]
    <2>1. CASE refs[k] # {} /\ outcome'[k] = outcome[k]
      <3>1. outcome[k] \in Stored
        BY <2>1 DEF JobInv, LockInv, RefsOwned
      <3>2. file[EntryOf(k)] = outcome[k]
        BY <1>3, <2>1 DEF CacheInv, CachedEntryCurrent
      <3> QED
        BY <1>1, <1>3, <2>1, <3>1, <3>2, KeptByStep
    <2> QED
      BY <1>3, <2>1
  <1> QED
    BY <1>2, <1>3 DEF CacheInv, CachedEntryCurrent, EntryOf, CaseOf, TestOf

\* Returning from do_run preserves CacheInv when the result returned is the stored one.
LEMMA ReturnCache ==
  ASSUME JobInv, CacheInv, [Next]_vars, JobInv', NEW j \in Job, NEW o \in Outcomes,
         Return(j, o), phase[j] \in ActivePhases,
         \/ file' = file
         \/ phase[j] = "running" /\ file' = [file EXCEPT ![EntryOf(j)] = "none"],
         o \in Stored /\ TestOf(j) \in Cacheable => file'[EntryOf(j)] = o
  PROVE  CacheInv'
  <1>0. /\ \A k \in Job : phase'[k] = IF k = j THEN "returned" ELSE phase[k]
        /\ \A k \in Job : outcome'[k] = IF k = j THEN o ELSE outcome[k]
        /\ \A k \in Job : refs'[k] = IF k = j THEN IF o \in Stored THEN {j} ELSE {}
                                     ELSE IF k \in got[j] THEN refs[k] \ {j} ELSE refs[k]
        /\ \A e \in Entries : ex'[e] = IF ex[e] = j THEN NoJob ELSE ex[e]
    BY DEF Return, DropRefs, JobInv, Shape
  <1>1. ASSUME NEW e \in Entries, ex'[e] # NoJob, TestOf(ex'[e]) \in Cacheable
        PROVE  file'[e] = "none"
    <2>1. ex[e] # NoJob /\ ex'[e] = ex[e] /\ file[e] = "none"
      BY <1>0, <1>1 DEF CacheInv
    <2> QED
      BY <2>1 DEF JobInv, Shape
  <1>2. \A k \in Job : phase'[k] = "downgrade" => phase[k] = "downgrade" /\ outcome'[k] = outcome[k]
    BY <1>0
  <1>3. \A k \in Job : refs'[k] # {} =>
            \/ refs[k] # {} /\ outcome'[k] = outcome[k]
            \/ TestOf(k) \in Cacheable => file'[EntryOf(k)] = outcome'[k]
    BY <1>0
  <1> QED
    BY <1>1, <1>2, <1>3, CacheFrame

\* CacheInv is inductive relative to JobInv.
LEMMA CacheInductive == JobInv /\ CacheInv /\ [Next]_vars => CacheInv'
  <1> SUFFICES ASSUME JobInv, CacheInv, [Next]_vars PROVE CacheInv'
    OBVIOUS
  <1>0. JobInv'
    BY JobInvInductive
  <1>a. /\ {"error", "canceled"} \cap Stored = {}
        /\ {"error", "canceled"} \subseteq Outcomes
        /\ Stored \subseteq Outcomes
    BY DEF Stored, Outcomes
  <1>b. {"deps", "lookup", "waiting", "starting", "running", "stopping", "downgrade"}
          \subseteq ActivePhases
    BY DEF ActivePhases, PermitPhases, ResourcePhases
  <1>1. ASSUME NEW j \in Job, NEW d \in DepJobs(j), DepFails(j, d) PROVE CacheInv'
    BY <1>0, <1>1, <1>a, <1>b, ReturnCache DEF DepFails
  <1>2. ASSUME NEW j \in Job,
               \/ ObserveCancel(j) \/ ChildStopped(j) \/ LookupFails(j) \/ StartFails(j)
               \/ ChildErrors(j) \/ StoreFails(j) \/ DowngradeFails(j)
        PROVE  CacheInv'
    BY <1>0, <1>2, <1>a, <1>b, ReturnCache
    DEF ObserveCancel, ChildStopped, LookupFails, StartFails, ChildErrors, StoreFails, DowngradeFails
  <1>3. ASSUME NEW j \in Job, LookupFound(j) PROVE CacheInv'
    <2>1. file[EntryOf(j)] \in Stored
      BY <1>3, JobParts DEF LookupFound, Found, JobInv, Shape
    <2> QED
      BY <1>0, <1>3, <1>a, <1>b, <2>1, ReturnCache DEF LookupFound
  <1>4. ASSUME NEW j \in Job, DowngradeDone(j) PROVE CacheInv'
    <2>1. outcome[j] \in Outcomes /\ phase[j] = "downgrade" /\ file' = file
      BY <1>4 DEF DowngradeDone, JobInv, Shape
    <2>2. TestOf(j) \in Cacheable => file'[EntryOf(j)] = outcome[j]
      BY <2>1 DEF CacheInv
    <2> QED
      BY <1>0, <1>4, <1>b, <2>1, <2>2, ReturnCache DEF DowngradeDone
  <1>5. ASSUME NEW j \in Job, LookupRun(j) PROVE CacheInv'
    <2>1. /\ \A e \in Entries : ex'[e] = IF e = EntryOf(j) THEN j ELSE ex[e]
          /\ file' = file /\ refs' = refs /\ outcome' = outcome
          /\ \A k \in Job : phase'[k] = IF k = j THEN "waiting" ELSE phase[k]
          /\ TestOf(j) \in Cacheable => file[EntryOf(j)] = "none"
      BY <1>5 DEF LookupRun, Found, Move, JobInv, Shape
    <2> QED
      BY <1>0, <2>1, CacheFrame DEF CacheInv
  <1>6. ASSUME NEW j \in Job, NEW o \in Stored, ChildExits(j, o) PROVE CacheInv'
    <2>1. /\ \A e \in Entries : ex'[e] = IF e = EntryOf(j) THEN NoJob ELSE ex[e]
          /\ \A e \in Entries : file'[e] = IF e = EntryOf(j) THEN o ELSE file[e]
          /\ refs' = refs /\ phase[j] = "running"
          /\ \A k \in Job : outcome'[k] = IF k = j THEN o ELSE outcome[k]
          /\ \A k \in Job : phase'[k] = IF k = j THEN "downgrade" ELSE phase[k]
      BY <1>6 DEF ChildExits, Move, JobInv, Shape
    <2>2. refs[j] = {}
      BY <2>1 DEF JobInv, LockInv, RefsOwned, DonePhases, SentPhases
    <2>3. EntryOf(j) \in Entries
      BY JobParts
    <2> QED
      BY <1>0, <2>1, <2>2, <2>3, CacheFrame DEF CacheInv
  <1>7. ASSUME NEW j \in Job, NotifyCompletion(j) \/ DropJob(j) \/ DropOutcome(j) PROVE CacheInv'
    <2>1. /\ file' = file /\ ex' = ex /\ outcome' = outcome
          /\ \A k \in Job : phase'[k] # "downgrade" \/ phase[k] = "downgrade"
      BY <1>7 DEF NotifyCompletion, DropJob, DropOutcome, Move, JobInv, Shape
    <2>2. \A k \in Job : refs'[k] # {} => refs[k] # {}
      <3>1. CASE NotifyCompletion(j)
        <4>1. outcome[j] \in Stored => j \in refs[j]
          BY <3>1 DEF NotifyCompletion, Move, JobInv, LockInv, RefsOwned
        <4> QED
          BY <3>1, <4>1 DEF NotifyCompletion, JobInv, Shape
      <3>2. CASE DropJob(j) \/ DropOutcome(j)
        BY <3>2 DEF DropJob, DropOutcome, DropRefs, JobInv, Shape
      <3> QED
        BY <1>7, <3>1, <3>2
    <2> QED
      BY <1>0, <2>1, <2>2, CacheFrame DEF CacheInv
  <1>8. ASSUME NEW j \in Job,
               \/ AcquirePermit(j) \/ PollGet(j) \/ Grant(j) \/ Block(j)
               \/ StartChild(j) \/ CancelChild(j) \/ \E d \in DepJobs(j) : DepSucceeds(j, d)
        PROVE  CacheInv'
    <2>1. /\ file' = file /\ ex' = ex /\ outcome' = outcome /\ refs' = refs
          /\ \A k \in Job : phase'[k] # "downgrade" \/ phase[k] = "downgrade"
      BY <1>8 DEF AcquirePermit, PollGet, Grant, Block, StartChild, CancelChild, DepSucceeds,
                  Move, JobInv, Shape
    <2> QED
      BY <1>0, <2>1, CacheFrame DEF CacheInv
  <1>9. ASSUME NEW C \in SUBSET Commits, SetCommits(C) PROVE CacheInv'
    <2>1. /\ file' = file /\ ex' = ex /\ outcome' = outcome /\ refs' = refs
          /\ \A k \in Job : phase'[k] # "downgrade" \/ phase[k] = "downgrade"
      BY <1>9 DEF SetCommits
    <2> QED
      BY <1>0, <2>1, CacheFrame DEF CacheInv
  <1>10. CASE Shutdown \/ Settle \/ Finished \/ UNCHANGED vars
    BY <1>0, <1>10, OtherStepsFrame, CacheFrame DEF CacheInv
  <1> QED
    BY <1>1, <1>2, <1>3, <1>4, <1>5, <1>6, <1>7, <1>8, <1>9, <1>10
    DEF Next, JobStep, JobProgress, ChildEnds, JobFaults, Dependency

\* CacheInv holds in every reachable state.
THEOREM CacheInvHolds == Spec => []CacheInv
  <1>1. Init => CacheInv
    BY DEF Init, CacheInv, CachedEntryCurrent
  <1> QED
    BY <1>1, CacheInductive, JobInvHolds, PTL DEF Spec

\* Whoever holds a DatabaseEntry of a cacheable test holds what the file says.
THEOREM CachedEntryCurrentHolds == Spec => []CachedEntryCurrent
  <1>1. CacheInv => CachedEntryCurrent
    BY DEF CacheInv
  <1> QED
    BY <1>1, CacheInvHolds, PTL

\* A stored result of a cacheable test is final.
THEOREM CachedResultKeptHolds == Spec => CachedResultKept
  <1>1. JobInv /\ CacheInv /\ [Next]_vars =>
          [\A j \in Job : TestOf(j) \in Cacheable /\ file[EntryOf(j)] # "none"
                    => file'[EntryOf(j)] = file[EntryOf(j)]]_vars
    BY KeptByStep
  <1> QED
    BY <1>1, CacheInvHolds, JobInvHolds, PTL DEF Spec, CachedResultKept

-----------------------------------------------------------------------------
(* The counters: permits and job tokens.                                    *)

PermitHolders == {j \in Job : phase[j] \in PermitPhases}
LiveJobs == {j \in Job : phase[j] \in LivePhases}

PermitsBalance == sem \in Nat /\ sem + Cardinality(PermitHolders) = Permits
TokensBalance == count = Cardinality(LiveJobs)
CountInv == PermitsBalance /\ TokensBalance

\* There are finitely many jobs.
LEMMA JobFinite == IsFiniteSet(Job)
  <1> DEFINE Pairs == (Commits \X Tests) \X (1..MaxCalls)
             f == [j \in Job |-> <<<<j[1], j[2]>>, j[3]>>]
  <1>1. IsFiniteSet(1..MaxCalls)
    BY FS_Interval, PoolAssumption
  <1>2. IsFiniteSet(Pairs)
    BY <1>1, FiniteAssumption, FS_Product
  <1>3. f \in [Job -> Pairs]
    BY DEF Job
  <1>4. \A a, b \in Job : f[a] = f[b] => a = b
    BY DEF Job
  <1>5. f \in Injection(Job, Pairs)
    BY <1>3, <1>4, Zenon DEF Injection, IsInjective
  <1> QED
    BY <1>2, <1>5, FS_Injection

\* The sets that are counted are finite, and an element more or less counts one.
LEMMA CountSets ==
  /\ IsFiniteSet(PermitHolders) /\ Cardinality(PermitHolders) \in Nat
  /\ IsFiniteSet(LiveJobs) /\ Cardinality(LiveJobs) \in Nat
  <1>1. PermitHolders \in SUBSET Job /\ LiveJobs \in SUBSET Job
    BY DEF PermitHolders, LiveJobs
  <1> QED
    BY <1>1, JobFinite, FS_Subset, FS_CardinalityType

\* Returning from do_run gives back the permit the job holds, if any.
LEMMA ReturnCounts ==
  ASSUME Shape, CountInv, NEW j \in Job, NEW o, Return(j, o), phase[j] \in ActivePhases
  PROVE  CountInv'
  <1>1. \A k \in Job : phase'[k] = IF k = j THEN "returned" ELSE phase[k]
    BY DEF Return, Shape
  <1>2. /\ "returned" \notin PermitPhases /\ "returned" \in LivePhases
        /\ ActivePhases \subseteq LivePhases
    BY DEF PermitPhases, ResourcePhases, LivePhases, ActivePhases, Phases
  <1>3. PermitHolders' = PermitHolders \ {j}
    BY <1>1, <1>2 DEF PermitHolders
  <1>4. LiveJobs' = LiveJobs
    BY <1>1, <1>2 DEF LiveJobs
  <1>5. Cardinality(PermitHolders') = IF phase[j] \in PermitPhases
                                      THEN Cardinality(PermitHolders) - 1
                                      ELSE Cardinality(PermitHolders)
    BY <1>3, CountSets, FS_RemoveElement DEF PermitHolders
  <1>6. sem' = (IF phase[j] \in PermitPhases THEN sem + 1 ELSE sem) /\ count' = count
    BY DEF Return, cntVars
  <1>7. PermitsBalance'
    BY <1>5, <1>6, CountSets DEF CountInv, PermitsBalance
  <1> QED
    BY <1>4, <1>6, <1>7 DEF CountInv, TokensBalance

\* Every step of a job keeps the counters right.
LEMMA JobStepCounts ==
  ASSUME Shape, CountInv, NEW j \in Job, JobStep(j)
  PROVE  CountInv'
  <1>b. {"deps", "lookup", "waiting", "starting", "running", "stopping", "downgrade"}
          \subseteq ActivePhases
    BY DEF ActivePhases, PermitPhases, ResourcePhases
  <1>1. ASSUME NEW d \in DepJobs(j), DepFails(j, d) PROVE CountInv'
    BY <1>1, <1>b, ReturnCounts DEF DepFails
  <1>2. ASSUME \/ ObserveCancel(j) \/ ChildStopped(j) \/ LookupFails(j) \/ StartFails(j)
               \/ ChildErrors(j) \/ StoreFails(j) \/ DowngradeFails(j)
               \/ LookupFound(j) \/ DowngradeDone(j)
        PROVE  CountInv'
    BY <1>2, <1>b, ReturnCounts
    DEF ObserveCancel, ChildStopped, LookupFails, StartFails, ChildErrors, StoreFails,
        DowngradeFails, LookupFound, DowngradeDone
  <1>3. CASE AcquirePermit(j)
    <2>1. \A k \in Job : phase'[k] = IF k = j THEN "lookup" ELSE phase[k]
      BY <1>3 DEF AcquirePermit, Move, Shape
    <2>2. PermitHolders' = PermitHolders \cup {j} /\ LiveJobs' = LiveJobs /\ j \notin PermitHolders
      BY <1>3, <2>1
      DEF AcquirePermit, Move, PermitHolders, LiveJobs, PermitPhases, ResourcePhases, LivePhases, Phases
    <2>3. Cardinality(PermitHolders') = Cardinality(PermitHolders) + 1
      BY <2>2, CountSets, FS_AddElement
    <2>4. sem' = sem - 1 /\ sem > 0 /\ count' = count
      BY <1>3 DEF AcquirePermit, cntVars
    <2>5. PermitsBalance'
      BY <2>3, <2>4, CountSets DEF CountInv, PermitsBalance
    <2> QED
      BY <2>2, <2>4, <2>5 DEF CountInv, TokensBalance
  <1>4. ASSUME \/ LookupRun(j) \/ PollGet(j) \/ Grant(j) \/ Block(j) \/ StartChild(j)
               \/ CancelChild(j) \/ NotifyCompletion(j) \/ DropOutcome(j)
               \/ (\E o \in Stored : ChildExits(j, o)) \/ \E d \in DepJobs(j) : DepSucceeds(j, d)
        PROVE  CountInv'
    <2>1. /\ \A k \in Job : k # j => phase'[k] = phase[k]
          /\ phase'[j] \in PermitPhases <=> phase[j] \in PermitPhases
          /\ phase'[j] \in LivePhases <=> phase[j] \in LivePhases
          /\ sem' = sem /\ count' = count
      BY <1>4
      DEF LookupRun, PollGet, Grant, Block, StartChild, CancelChild, NotifyCompletion, DropOutcome,
          ChildExits, DepSucceeds, Move, Shape, PermitPhases, ResourcePhases, LivePhases, Phases, cntVars
    <2>2. PermitHolders' = PermitHolders /\ LiveJobs' = LiveJobs
      BY <2>1 DEF PermitHolders, LiveJobs
    <2> QED
      BY <2>1, <2>2 DEF CountInv, PermitsBalance, TokensBalance
  <1>5. CASE DropJob(j)
    <2>1. \A k \in Job : phase'[k] = IF k = j THEN "untokened" ELSE phase[k]
      BY <1>5 DEF DropJob, Move, Shape
    <2>2. PermitHolders' = PermitHolders /\ LiveJobs' = LiveJobs \ {j} /\ j \in LiveJobs
      BY <1>5, <2>1
      DEF DropJob, Move, PermitHolders, LiveJobs, PermitPhases, ResourcePhases, LivePhases, Phases
    <2>3. Cardinality(LiveJobs') = Cardinality(LiveJobs) - 1
      BY <2>2, CountSets, FS_RemoveElement
    <2>4. sem' = sem /\ count' = count - 1
      BY <1>5 DEF DropJob
    <2> QED
      BY <2>2, <2>3, <2>4 DEF CountInv, PermitsBalance, TokensBalance
  <1> QED
    BY <1>1, <1>2, <1>3, <1>4, <1>5 DEF JobStep, JobProgress, ChildEnds, JobFaults, Dependency

\* A set_commits call takes one token for each job it spawns.
LEMMA SetCommitsCounts ==
  ASSUME Shape, CallsPast, CountInv, NEW C \in SUBSET Commits, SetCommits(C)
  PROVE  CountInv'
  <1> DEFINE new == NewCases(C)
             batch == IF BatchClosed(new) THEN {<<x[1], x[2], calls + 1>> : x \in new} ELSE {}
  <1>1. /\ \A k \in Job : phase'[k] = IF k \in batch THEN "deps" ELSE phase[k]
        /\ count' = count + Cardinality(batch)
        /\ sem' = sem
    BY DEF SetCommits
  <1>2. \A k \in batch : k[3] = calls + 1
    OBVIOUS
  <1>3. calls \in Nat /\ calls + 1 \in 1..MaxCalls
    BY PoolAssumption DEF SetCommits, Shape
  <1>4. batch \in SUBSET Job
    BY <1>3 DEF NewCases, Job
  <1> HIDE DEF batch
  <1>5. \A k \in batch : phase[k] = "none"
    BY <1>2, <1>3, <1>4, JobParts DEF CallsPast
  <1>6. /\ "deps" \in LivePhases /\ "deps" \notin PermitPhases
        /\ "none" \notin LivePhases /\ "none" \notin PermitPhases
    BY DEF LivePhases, Phases, PermitPhases, ResourcePhases
  <1>7. /\ PermitHolders' = PermitHolders
        /\ LiveJobs' = LiveJobs \cup batch
        /\ LiveJobs \cap batch = {}
    BY <1>1, <1>4, <1>5, <1>6 DEF PermitHolders, LiveJobs
  <1>8. IsFiniteSet(batch) /\ Cardinality(batch) \in Nat
    BY <1>4, JobFinite, FS_Subset, FS_CardinalityType
  <1>9. Cardinality(LiveJobs \cup batch)
          = Cardinality(LiveJobs) + Cardinality(batch) - Cardinality(LiveJobs \cap batch)
    BY <1>8, CountSets, FS_Union
  <1>10. Cardinality(LiveJobs \cap batch) = 0
    BY <1>7, FS_EmptySet
  <1>11. Cardinality(LiveJobs') = Cardinality(LiveJobs) + Cardinality(batch)
    <2>1. Cardinality(LiveJobs') = Cardinality(LiveJobs \cup batch)
      BY <1>7
    <2> QED
      BY <2>1, <1>8, <1>9, <1>10, CountSets
  <1> QED
    BY <1>1, <1>7, <1>11 DEF CountInv, PermitsBalance, TokensBalance

\* The counters stay right.
LEMMA CountInductive == JobInv /\ CountInv /\ [Next]_vars => CountInv'
  <1> SUFFICES ASSUME JobInv, CountInv, [Next]_vars PROVE CountInv'
    OBVIOUS
  <1>1. ASSUME NEW C \in SUBSET Commits, SetCommits(C) PROVE CountInv'
    BY <1>1, SetCommitsCounts DEF JobInv
  <1>2. ASSUME NEW j \in Job, JobStep(j) PROVE CountInv'
    BY <1>2, JobStepCounts DEF JobInv
  <1>3. CASE Shutdown \/ Settle \/ Finished \/ UNCHANGED vars
    BY <1>3, OtherStepsFrame
    DEF CountInv, PermitsBalance, TokensBalance, PermitHolders, LiveJobs
  <1> QED
    BY <1>1, <1>2, <1>3 DEF Next

\* Permits and tokens are counted right in every reachable state.
THEOREM CountInvHolds == Spec => []CountInv
  <1>1. Init => CountInv
    <2> SUFFICES ASSUME Init PROVE CountInv
      OBVIOUS
    <2>1. PermitHolders = {} /\ LiveJobs = {}
      BY DEF Init, PermitHolders, LiveJobs, PermitPhases, ResourcePhases, LivePhases
    <2> QED
      BY <2>1, FS_EmptySet, PoolAssumption DEF Init, CountInv, PermitsBalance, TokensBalance
  <1> QED
    BY <1>1, CountInductive, JobInvHolds, PTL DEF Spec

\* Every variable of the manager keeps its type: no permit is released twice and no
\* counter goes below zero.
THEOREM TypeCorrect == Spec => []TypeOK
  <1>1. JobInv /\ CountInv => TypeOK
    <2> SUFFICES ASSUME JobInv, CountInv PROVE TypeOK
      OBVIOUS
    <2>1. sem \in 0..Permits
      BY CountSets, PoolAssumption DEF CountInv, PermitsBalance
    <2>2. count \in Nat
      BY CountSets DEF CountInv, TokensBalance
    <2> QED
      BY <2>1, <2>2 DEF TypeOK, JobInv, Shape
  <1> QED
    BY <1>1, JobInvHolds, CountInvHolds, PTL

-----------------------------------------------------------------------------
(* Shutdown.                                                                *)

\* settled returns only after the end of the watch loop, when no job is left; none
\* is spawned any more.
SettledInv ==
  /\ settle # "idle" => closing
  /\ settle = "settled" => count = 0

\* SettledInv is inductive relative to the counters.
LEMMA SettledInductive == JobInv /\ CountInv /\ SettledInv /\ [Next]_vars => SettledInv'
  <1> SUFFICES ASSUME JobInv, CountInv, SettledInv, [Next]_vars PROVE SettledInv'
    OBVIOUS
  <1>1. ASSUME NEW C \in SUBSET Commits, SetCommits(C) PROVE SettledInv'
    BY <1>1 DEF SetCommits, SettledInv
  <1>2. ASSUME NEW j \in Job, JobStep(j) PROVE SettledInv'
    <2>1. closing' = closing /\ settle' = settle
      BY <1>2, JobStepFrame DEF JobInv
    <2>2. ASSUME count = 0 PROVE count' = 0
      <3>1. LiveJobs = {}
        BY <2>2, CountSets, FS_EmptySet DEF CountInv, TokensBalance
      <3>2. phase[j] \notin LivePhases
        BY <3>1 DEF LiveJobs
      <3>3. phase[j] # "none"
        BY <1>2, JobStepFrame DEF JobInv
      <3>4. LiveJobs' = {}
        <4>1. \A k \in Job : k # j => phase'[k] = phase[k]
          BY <1>2, JobStepFrame DEF JobInv
        <4>2. phase[j] \in {"untokened", "done"}
          BY <3>2, <3>3 DEF JobInv, Shape, LivePhases
        <4>3. phase'[j] = "done"
          BY <1>2, <4>2
          DEF JobStep, JobProgress, ChildEnds, JobFaults, Dependency, DepSucceeds, DepFails,
              AcquirePermit, LookupFound, LookupRun, ObserveCancel, PollGet, Grant, Block,
              StartChild, CancelChild, ChildStopped, DowngradeDone, NotifyCompletion, DropJob,
              DropOutcome, ChildExits, ChildErrors, LookupFails, StartFails, StoreFails,
              DowngradeFails, Move, JobInv, Shape
        <4> QED
          BY <3>1, <4>1, <4>3 DEF LiveJobs, LivePhases
      <3>5. CountInv'
        BY CountInductive
      <3> QED
        BY <3>4, <3>5, FS_EmptySet DEF CountInv, TokensBalance
    <2> QED
      BY <2>1, <2>2 DEF SettledInv
  <1>3. CASE Shutdown
    BY <1>3 DEF Shutdown, SettledInv
  <1>4. CASE Settle \/ Finished \/ UNCHANGED vars
    BY <1>4
    DEF Settle, SettleCheck, SettleSubscribe, SettleWake, Finished, vars, mgrVars, SettledInv
  <1> QED
    BY <1>1, <1>2, <1>3, <1>4 DEF Next

\* Once settled has returned, no job is alive, no permit taken and no entry locked
\* exclusively.
THEOREM SettledQuietHolds == Spec => []SettledQuiet
  <1>1. Init => SettledInv
    BY DEF Init, SettledInv
  <1>2. Spec => []SettledInv
    BY <1>1, SettledInductive, JobInvHolds, CountInvHolds, PTL DEF Spec
  <1>3. JobInv /\ CountInv /\ SettledInv => SettledQuiet
    <2> SUFFICES ASSUME JobInv, CountInv, SettledInv, settle = "settled"
                 PROVE  /\ \A j \in Job : ~Live(j)
                        /\ sem = Permits
                        /\ \A e \in Entries : ExFree(e)
      BY DEF SettledQuiet
    <2>1. LiveJobs = {}
      BY CountSets, FS_EmptySet DEF CountInv, TokensBalance, SettledInv
    <2>2. \A j \in Job : ~Live(j)
      BY <2>1 DEF LiveJobs, Live
    <2>3. PermitHolders = {}
      BY <2>1 DEF LiveJobs, PermitHolders, PermitPhases, ResourcePhases, LivePhases, Phases
    <2>4. sem = Permits
      BY <2>3, FS_EmptySet DEF CountInv, PermitsBalance
    <2>5. \A e \in Entries : ExFree(e)
      BY <2>2 DEF JobInv, Shape, LockInv, ExOwner, ExPhases, ExFree, Live, LivePhases, Phases
    <2> QED
      BY <2>2, <2>4, <2>5
  <1> QED
    BY <1>2, <1>3, JobInvHolds, CountInvHolds, PTL
=============================================================================
