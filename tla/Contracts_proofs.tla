-------------------------- MODULE Contracts_proofs ---------------------------
(***************************************************************************)
(* The test manager keeps to the contracts of the components it uses, for  *)
(* any jobs, entries, pools and schedules: it asks the pools and gives     *)
(* back as ResourceAlloc has it, and the jobs of each entry of the result  *)
(* database find, run and share it as EntryStore has it.                   *)
(***************************************************************************)
EXTENDS JobManager_proofs

-----------------------------------------------------------------------------
(* The resource pools.                                                      *)

Asking == {j \in Job : phase[j] \in {"waiting", "polled"}}
Holding == {j \in Job : HoldsResources(j)}

\* Where a job stands with the pools, by its phase.
AskPhases == {"waiting", "polled"}

\* A change of one job's phase changes only its own standing.
LEMMA StandingMoves ==
  ASSUME NEW j \in Job,
         \A k \in Job : k # j => phase'[k] = phase[k]
  PROVE  /\ Asking' = IF phase'[j] \in AskPhases THEN Asking \cup {j} ELSE Asking \ {j}
         /\ Holding' = IF phase'[j] \in ResourcePhases THEN Holding \cup {j} ELSE Holding \ {j}
  BY DEF Asking, AskPhases, Holding, HoldsResources

\* A phase outside both kinds neither asks nor holds, and no phase does both.
LEMMA StandingPhases ==
  /\ AskPhases \cap ResourcePhases = {}
  /\ {"none", "deps", "lookup", "returned", "notified", "untokened", "done"}
       \cap (AskPhases \cup ResourcePhases) = {}
  /\ Phases = {"none", "deps", "lookup", "returned", "notified", "untokened", "done"}
                \cup AskPhases \cup ResourcePhases
  BY DEF AskPhases, ResourcePhases, Phases

\* do_run returns: a job that held resources gives all of them back, one that asked
\* gives up, and any other had nothing to do with the pools.
LEMMA ReturnStanding ==
  ASSUME Shape, NEW j \in Job, NEW o, Return(j, o)
  PROVE  [Alloc!Next]_(Alloc!vars)
  <1>1. /\ \A k \in Job : k # j => phase'[k] = phase[k]
        /\ phase'[j] = "returned"
        /\ pool' = IF phase[j] \in ResourcePhases
                   THEN [k \in Keys |-> pool[k] + Needs[TestOf(j)][k]] ELSE pool
    BY DEF Return, Shape
  <1>2. Asking' = Asking \ {j} /\ Holding' = Holding \ {j}
    BY <1>1, StandingMoves, StandingPhases
  <1>3. CASE phase[j] \in ResourcePhases
    <2>1. j \in Holding /\ j \notin Asking
      BY <1>3, StandingPhases DEF Asking, Holding, HoldsResources, AskPhases
    <2>2. Asking' = Asking
      BY <1>2, <2>1
    <2>3. pool' = [k \in Keys |-> IF k \in Keys THEN pool[k] + Needs[TestOf(j)][k] ELSE pool[k]]
      BY <1>1, <1>3
    <2>4. \A k \in Keys : [i \in Job |-> Needs[TestOf(i)]][j][k] = Needs[TestOf(j)][k]
      OBVIOUS
    <2>5. Alloc!GiveBack(j)
      BY <1>2, <2>1, <2>2, <2>3, <2>4 DEF Alloc!GiveBack, Asking, Holding
    <2> QED
      BY <2>5 DEF Alloc!Next
  <1>4. CASE phase[j] \in AskPhases
    <2>1. j \in Asking /\ j \notin Holding /\ phase[j] \notin ResourcePhases
      BY <1>4, StandingPhases DEF Asking, Holding, HoldsResources, AskPhases
    <2>2. Holding' = Holding /\ pool' = pool
      BY <1>1, <1>2, <2>1
    <2>3. Alloc!GiveUp(j)
      BY <1>2, <2>1, <2>2 DEF Alloc!GiveUp, Asking, Holding
    <2> QED
      BY <2>3 DEF Alloc!Next
  <1>5. CASE phase[j] \notin AskPhases \cup ResourcePhases
    <2>1. j \notin Asking /\ j \notin Holding
      BY <1>5 DEF Asking, Holding, HoldsResources, AskPhases
    <2>2. Asking' = Asking /\ Holding' = Holding /\ pool' = pool
      BY <1>1, <1>2, <1>5, <2>1
    <2> QED
      BY <2>2 DEF Alloc!vars, Asking, Holding
  <1> QED
    BY <1>3, <1>4, <1>5

\* A step of a job that leaves the pool and the job's standing alone.
LEMMA QuietStep ==
  ASSUME NEW j \in Job, pool' = pool,
         \A k \in Job : k # j => phase'[k] = phase[k],
         \/ phase[j] \in AskPhases /\ phase'[j] \in AskPhases
         \/ phase[j] \in ResourcePhases /\ phase'[j] \in ResourcePhases
         \/ /\ phase[j] \notin AskPhases \cup ResourcePhases
            /\ phase'[j] \notin AskPhases \cup ResourcePhases
  PROVE  UNCHANGED Alloc!vars
  <1>1. Asking' = Asking /\ Holding' = Holding
    BY StandingPhases DEF Asking, AskPhases, Holding, HoldsResources
  <1> QED
    BY <1>1 DEF Alloc!vars, Asking, Holding

\* Every step of a job is one that ResourceAlloc allows, or none of its concern.
LEMMA JobStepStanding ==
  ASSUME Shape, NEW j \in Job, JobStep(j)
  PROVE  [Alloc!Next]_(Alloc!vars)
  <1>0. \A k \in Job : k # j => phase'[k] = phase[k]
    BY JobStepFrame
  <1>1. CASE \/ \E d \in DepJobs(j) : DepFails(j, d)
             \/ LookupFound(j) \/ LookupFails(j) \/ ObserveCancel(j) \/ StartFails(j)
             \/ ChildErrors(j) \/ StoreFails(j) \/ DowngradeDone(j) \/ DowngradeFails(j)
             \/ ChildStopped(j)
    <2>1. PICK o : Return(j, o)
      BY <1>1 DEF DepFails, LookupFound, LookupFails, ObserveCancel, StartFails, ChildErrors,
                  StoreFails, DowngradeDone, DowngradeFails, ChildStopped
    <2> QED
      BY <2>1, ReturnStanding
  <1>2. CASE LookupRun(j)
    <2>1. phase[j] = "lookup" /\ phase'[j] = "waiting" /\ pool' = pool
      BY <1>2 DEF LookupRun, Move, Shape
    <2>2. /\ Asking' = Asking \cup {j} /\ Holding' = Holding \ {j}
          /\ j \notin Asking /\ j \notin Holding
      BY <1>0, <2>1, StandingMoves, StandingPhases
      DEF Asking, Holding, HoldsResources, AskPhases
    <2>3. Alloc!Ask(j)
      BY <2>1, <2>2 DEF Alloc!Ask, Asking, Holding
    <2> QED
      BY <2>3 DEF Alloc!Next
  <1>3. CASE Grant(j)
    <2>1. /\ phase[j] = "polled" /\ phase'[j] = "starting"
          /\ pool' = [k \in Keys |-> pool[k] - Needs[TestOf(j)][k]]
          /\ \A k \in Keys : Needs[TestOf(j)][k] <= pool[k]
      BY <1>3 DEF Grant, Move, Fits, Shape
    <2>2. Asking' = Asking \ {j} /\ Holding' = Holding \cup {j} /\ j \in Asking
      <3>1. "starting" \in ResourcePhases /\ "starting" \notin AskPhases
        BY DEF ResourcePhases, AskPhases
      <3> QED
        BY <1>0, <2>1, <3>1, StandingMoves DEF Asking, AskPhases
    <2>3. [i \in Job |-> Needs[TestOf(i)]][j] = Needs[TestOf(j)]
      OBVIOUS
    <2>4. Alloc!Serve(j)
      BY <2>1, <2>2, <2>3 DEF Alloc!Serve, Alloc!Servable, Asking, Holding
    <2> QED
      BY <2>4 DEF Alloc!Next
  <1>4. CASE \/ \E d \in DepJobs(j) : DepSucceeds(j, d)
             \/ AcquirePermit(j) \/ PollGet(j) \/ Block(j) \/ StartChild(j) \/ CancelChild(j)
             \/ (\E o \in Stored : ChildExits(j, o))
             \/ NotifyCompletion(j) \/ DropJob(j) \/ DropOutcome(j)
    <2>1. /\ pool' = pool
          /\ \/ phase'[j] = phase[j]
             \/ phase[j] = "deps" /\ phase'[j] = "lookup"
             \/ phase[j] \in AskPhases /\ phase'[j] \in AskPhases
             \/ phase[j] \in ResourcePhases /\ phase'[j] \in ResourcePhases
             \/ phase[j] = "returned" /\ phase'[j] = "notified"
             \/ phase[j] = "notified" /\ phase'[j] = "untokened"
             \/ phase[j] = "untokened" /\ phase'[j] = "done"
      BY <1>4 DEF DepSucceeds, AcquirePermit, PollGet, Block, StartChild, CancelChild, ChildExits,
                  NotifyCompletion, DropJob, DropOutcome, Move, Shape, AskPhases, ResourcePhases
    <2>2. UNCHANGED Alloc!vars
      BY <1>0, <2>1, StandingPhases, QuietStep
    <2> QED
      BY <2>2
  <1> QED
    BY <1>1, <1>2, <1>3, <1>4 DEF JobStep, JobProgress, ChildEnds, JobFaults, Dependency

\* A set_commits call spawns jobs, which have not asked for anything yet.
LEMMA SetCommitsStanding ==
  ASSUME Shape, CallsPast, NEW C \in SUBSET Commits, SetCommits(C)
  PROVE  UNCHANGED Alloc!vars
  <1> DEFINE new == NewCases(C)
             batch == IF BatchClosed(new) THEN {<<x[1], x[2], calls + 1>> : x \in new} ELSE {}
  <1>1. /\ \A k \in Job : phase'[k] = IF k \in batch THEN "deps" ELSE phase[k]
        /\ pool' = pool
    BY DEF SetCommits
  <1>2. \A k \in batch : k[3] = calls + 1
    OBVIOUS
  <1>3. calls \in Nat
    BY PoolAssumption DEF Shape
  <1> HIDE DEF batch
  <1>4. \A k \in Job : k \in batch => phase[k] = "none"
    BY <1>2, <1>3, JobParts DEF CallsPast
  <1>5. Asking' = Asking /\ Holding' = Holding
    BY <1>1, <1>4 DEF Asking, Holding, HoldsResources, ResourcePhases
  <1> QED
    BY <1>1, <1>5 DEF Alloc!vars, Asking, Holding

\* A job asks the pools once, is served whole, and gives back all it was granted
\* exactly once, along every way it can end.
THEOREM PoolContractHolds == Spec => PoolContract
  <1>1. Init => Alloc!Init
    BY DEF Init, Alloc!Init, HoldsResources, ResourcePhases
  <1>2. JobInv /\ [Next]_vars => [Alloc!Next]_(Alloc!vars)
    <2> SUFFICES ASSUME JobInv, [Next]_vars PROVE [Alloc!Next]_(Alloc!vars)
      OBVIOUS
    <2>1. ASSUME NEW C \in SUBSET Commits, SetCommits(C) PROVE [Alloc!Next]_(Alloc!vars)
      BY <2>1, SetCommitsStanding DEF JobInv
    <2>2. ASSUME NEW j \in Job, JobStep(j) PROVE [Alloc!Next]_(Alloc!vars)
      BY <2>2, JobStepStanding DEF JobInv
    <2>3. CASE Shutdown \/ Settle \/ Finished \/ UNCHANGED vars
      BY <2>3, OtherStepsFrame DEF Alloc!vars, HoldsResources
    <2> QED
      BY <2>1, <2>2, <2>3 DEF Next
  <1> QED
    BY <1>1, <1>2, JobInvHolds, PTL DEF Spec, PoolContract, Alloc!Spec

-----------------------------------------------------------------------------
(* The balance of the pools.  A resource that a job has been granted is a    *)
(* pair of the job and a number, so that what jobs hold is counted by        *)
(* adding or removing one job's pairs.                                       *)

Share(j, k) == {j} \X (1..Needs[TestOf(j)][k])

BalanceInv ==
  /\ PoolBalance
  /\ \A k \in Keys : IsFiniteSet(Granted(k))

\* What jobs have been granted is the shares of those that hold some.
LEMMA GrantedShares ==
  ASSUME NEW k \in Keys
  PROVE  Granted(k) = UNION {Share(j, k) : j \in Holding}
  BY DEF Granted, Share, Holding

\* A job's share has as many resources as its test needs.
LEMMA ShareSize ==
  ASSUME NEW j \in Job, NEW k \in Keys
  PROVE  /\ IsFiniteSet(Share(j, k))
         /\ Cardinality(Share(j, k)) = Needs[TestOf(j)][k]
         /\ Needs[TestOf(j)][k] \in Nat
  <1> DEFINE n == Needs[TestOf(j)][k]
  <1>1. n \in Nat
    BY JobParts, PoolAssumption
  <1>2. IsFiniteSet({j}) /\ Cardinality({j}) = 1
    BY FS_Singleton
  <1>3. IsFiniteSet(1..n) /\ Cardinality(1..n) = n
    <2>1. 1 \in Int /\ n \in Int
      BY <1>1
    <2>2. IsFiniteSet(1..n) /\ Cardinality(1..n) = IF 1 > n THEN 0 ELSE n - 1 + 1
      BY <2>1, FS_Interval
    <2> QED
      BY <1>1, <2>2
  <1> HIDE DEF n
  <1> DEFINE J == {j}
             N == 1..n
  <1> HIDE DEF J, N
  <1>4. IsFiniteSet(J \X N) /\ Cardinality(J \X N) = Cardinality(J) * Cardinality(N)
    BY <1>2, <1>3, FS_Product DEF J, N
  <1>5. Cardinality(J \X N) = n
    BY <1>1, <1>2, <1>3, <1>4 DEF J, N
  <1> QED
    BY <1>1, <1>4, <1>5 DEF Share, J, N, n

\* Two jobs share nothing.
LEMMA SharesDisjoint ==
  ASSUME NEW j \in Job, NEW H \in SUBSET Job, j \notin H, NEW k \in Keys
  PROVE  Share(j, k) \cap UNION {Share(i, k) : i \in H} = {}
  BY DEF Share

\* A job that is granted its resources takes them out of the pools.
LEMMA GrantBalances ==
  ASSUME BalanceInv, Shape, NEW j \in Job \ Holding, Holding' = Holding \cup {j},
         pool' = [k \in Keys |-> pool[k] - Needs[TestOf(j)][k]]
  PROVE  BalanceInv'
  <1> SUFFICES ASSUME NEW k \in Keys
               PROVE  /\ pool'[k] + Cardinality(Granted(k)') = PoolSize[k]
                      /\ IsFiniteSet(Granted(k)')
    BY DEF BalanceInv, PoolBalance
  <1> DEFINE G == Granted(k)
             S == Share(j, k)
             n == Needs[TestOf(j)][k]
  <1>1. Holding \in SUBSET Job
    BY DEF Holding
  <1>2. G = UNION {Share(i, k) : i \in Holding}
    BY GrantedShares
  <1>3. Granted(k)' = UNION {Share(i, k) : i \in Holding'}
    BY DEF Granted, Share, Holding, HoldsResources, TestOf
  <1>4. Granted(k)' = G \cup S
    BY <1>2, <1>3
  <1>5. G \cap S = {}
    BY <1>1, <1>2, SharesDisjoint
  <1>6. IsFiniteSet(G) /\ pool[k] + Cardinality(G) = PoolSize[k]
    BY DEF BalanceInv, PoolBalance
  <1>7. IsFiniteSet(S) /\ Cardinality(S) = n /\ n \in Nat
    BY ShareSize
  <1>8. pool[k] \in Nat /\ PoolSize[k] \in Nat /\ pool'[k] = pool[k] - n
    BY PoolAssumption DEF Shape
  <1> HIDE DEF G, S, n
  <1>9. /\ IsFiniteSet(G \cup S)
        /\ Cardinality(G \cup S) = Cardinality(G) + Cardinality(S) - Cardinality(G \cap S)
    BY <1>6, <1>7, FS_Union
  <1>10. Cardinality(G \cap S) = 0 /\ Cardinality(G) \in Nat
    BY <1>5, <1>6, FS_EmptySet, FS_CardinalityType
  <1> QED
    BY <1>4, <1>6, <1>7, <1>8, <1>9, <1>10

\* A job that returns puts back all it was granted.
LEMMA ReturnBalances ==
  ASSUME BalanceInv, Shape, NEW j \in Holding, Holding' = Holding \ {j},
         pool' = [k \in Keys |-> pool[k] + Needs[TestOf(j)][k]]
  PROVE  BalanceInv'
  <1> SUFFICES ASSUME NEW k \in Keys
               PROVE  /\ pool'[k] + Cardinality(Granted(k)') = PoolSize[k]
                      /\ IsFiniteSet(Granted(k)')
    BY DEF BalanceInv, PoolBalance
  <1> DEFINE G == Granted(k)
             H == UNION {Share(i, k) : i \in Holding \ {j}}
             S == Share(j, k)
             n == Needs[TestOf(j)][k]
  <1>1. Holding \ {j} \in SUBSET Job /\ j \in Job
    BY DEF Holding
  <1>2. G = UNION {Share(i, k) : i \in Holding}
    BY GrantedShares
  <1>3. Granted(k)' = UNION {Share(i, k) : i \in Holding'}
    BY DEF Granted, Share, Holding, HoldsResources, TestOf
  <1>4. Granted(k)' = H
    BY <1>3
  <1>5. G = H \cup S
    BY <1>2
  <1>6. H \cap S = {}
    BY <1>1, SharesDisjoint
  <1>7. IsFiniteSet(G) /\ pool[k] + Cardinality(G) = PoolSize[k]
    BY DEF BalanceInv, PoolBalance
  <1>8. IsFiniteSet(S) /\ Cardinality(S) = n /\ n \in Nat
    BY <1>1, ShareSize
  <1>9. pool[k] \in Nat /\ PoolSize[k] \in Nat /\ pool'[k] = pool[k] + n
    BY PoolAssumption DEF Shape
  <1> HIDE DEF G, H, S, n
  <1>10. IsFiniteSet(H)
    BY <1>5, <1>7, FS_Subset
  <1>11. Cardinality(H \cup S) = Cardinality(H) + Cardinality(S) - Cardinality(H \cap S)
    BY <1>8, <1>10, FS_Union
  <1>12. Cardinality(H \cap S) = 0 /\ Cardinality(H) \in Nat
    BY <1>6, <1>10, FS_EmptySet, FS_CardinalityType
  <1> QED
    BY <1>4, <1>5, <1>7, <1>8, <1>9, <1>10, <1>11, <1>12

\* Nothing is granted or put back.
LEMMA QuietBalances ==
  ASSUME BalanceInv, Holding' = Holding, pool' = pool
  PROVE  BalanceInv'
  <1>1. ASSUME NEW k \in Keys PROVE Granted(k)' = Granted(k)
    <2>1. Granted(k)' = UNION {Share(i, k) : i \in Holding'}
      BY DEF Granted, Share, Holding, HoldsResources, TestOf
    <2> QED
      BY <2>1, GrantedShares
  <1> QED
    BY <1>1 DEF BalanceInv, PoolBalance

\* A job's step grants it its resources, puts them back or does neither.
LEMMA JobStepBalances ==
  ASSUME Shape, BalanceInv, NEW j \in Job, JobStep(j)
  PROVE  BalanceInv'
  <1>0. \A k \in Job : k # j => phase'[k] = phase[k]
    BY JobStepFrame
  <1>1. CASE \/ \E d \in DepJobs(j) : DepFails(j, d)
             \/ LookupFound(j) \/ LookupFails(j) \/ ObserveCancel(j) \/ StartFails(j)
             \/ ChildErrors(j) \/ StoreFails(j) \/ DowngradeDone(j) \/ DowngradeFails(j)
             \/ ChildStopped(j)
    <2>1. PICK o : Return(j, o)
      BY <1>1 DEF DepFails, LookupFound, LookupFails, ObserveCancel, StartFails, ChildErrors,
                  StoreFails, DowngradeDone, DowngradeFails, ChildStopped
    <2>2. /\ phase'[j] = "returned"
          /\ pool' = IF phase[j] \in ResourcePhases
                     THEN [k \in Keys |-> pool[k] + Needs[TestOf(j)][k]] ELSE pool
      BY <2>1 DEF Return, Shape
    <2>3. Holding' = Holding \ {j}
      BY <1>0, <2>2, StandingMoves, StandingPhases
    <2>4. CASE phase[j] \in ResourcePhases
      <3>1. j \in Holding
        BY <2>4 DEF Holding, HoldsResources
      <3> QED
        BY <2>2, <2>3, <2>4, <3>1, ReturnBalances
    <2>5. CASE phase[j] \notin ResourcePhases
      <3>1. Holding' = Holding
        BY <2>3, <2>5 DEF Holding, HoldsResources
      <3> QED
        BY <2>2, <2>5, <3>1, QuietBalances
    <2> QED
      BY <2>4, <2>5
  <1>2. CASE Grant(j)
    <2>1. /\ phase[j] = "polled" /\ phase'[j] = "starting"
          /\ pool' = [k \in Keys |-> pool[k] - Needs[TestOf(j)][k]]
      BY <1>2 DEF Grant, Move, Shape
    <2>2. Holding' = Holding \cup {j} /\ j \notin Holding
      <3>1. "starting" \in ResourcePhases /\ "polled" \notin ResourcePhases
        BY DEF ResourcePhases
      <3> QED
        BY <1>0, <2>1, <3>1, StandingMoves DEF Holding, HoldsResources
    <2> QED
      BY <2>1, <2>2, GrantBalances
  <1>3. CASE \/ \E d \in DepJobs(j) : DepSucceeds(j, d)
             \/ AcquirePermit(j) \/ LookupRun(j) \/ PollGet(j) \/ Block(j) \/ StartChild(j)
             \/ CancelChild(j) \/ (\E o \in Stored : ChildExits(j, o))
             \/ NotifyCompletion(j) \/ DropJob(j) \/ DropOutcome(j)
    <2>1. pool' = pool /\ (phase'[j] \in ResourcePhases <=> phase[j] \in ResourcePhases)
      BY <1>3 DEF DepSucceeds, AcquirePermit, LookupRun, PollGet, Block, StartChild, CancelChild,
                  ChildExits, NotifyCompletion, DropJob, DropOutcome, Move, Shape, ResourcePhases
    <2>2. Holding' = Holding
      BY <1>0, <2>1 DEF Holding, HoldsResources
    <2> QED
      BY <2>1, <2>2, QuietBalances
  <1> QED
    BY <1>1, <1>2, <1>3 DEF JobStep, JobProgress, ChildEnds, JobFaults, Dependency

\* Every step keeps the balance.
LEMMA BalanceKept == JobInv /\ BalanceInv /\ [Next]_vars => BalanceInv'
  <1> SUFFICES ASSUME JobInv, BalanceInv, [Next]_vars PROVE BalanceInv'
    OBVIOUS
  <1>1. ASSUME NEW C \in SUBSET Commits, SetCommits(C) PROVE BalanceInv'
    <2>1. UNCHANGED Alloc!vars
      BY <1>1, SetCommitsStanding DEF JobInv
    <2> QED
      BY <2>1, QuietBalances DEF Alloc!vars, Holding
  <1>2. ASSUME NEW j \in Job, JobStep(j) PROVE BalanceInv'
    BY <1>2, JobStepBalances DEF JobInv
  <1>3. CASE Shutdown \/ Settle \/ Finished \/ UNCHANGED vars
    <2>1. phase' = phase /\ pool' = pool
      BY <1>3, OtherStepsFrame
    <2> QED
      BY <2>1, QuietBalances DEF Holding, HoldsResources
  <1> QED
    BY <1>1, <1>2, <1>3 DEF Next

\* Every resource is in the pool or with a job that was granted it, along every
\* way a job can end: whatever fails, none is lost and none given back twice.
THEOREM PoolBalanceHolds == Spec => []PoolBalance
  <1>1. Init => BalanceInv
    <2> SUFFICES ASSUME Init, NEW k \in Keys
                 PROVE  /\ pool[k] + Cardinality(Granted(k)) = PoolSize[k]
                        /\ IsFiniteSet(Granted(k))
      BY DEF BalanceInv, PoolBalance
    <2>1. Granted(k) = {}
      BY DEF Init, Granted, HoldsResources, ResourcePhases
    <2>2. pool[k] = PoolSize[k] /\ PoolSize[k] \in Nat
      BY PoolAssumption DEF Init
    <2> QED
      BY <2>1, <2>2, FS_EmptySet
  <1>2. BalanceInv => PoolBalance
    BY DEF BalanceInv
  <1> QED
    BY <1>1, <1>2, BalanceKept, JobInvHolds, PTL DEF Spec

-----------------------------------------------------------------------------
(* The entries of the result database.                                      *)

AbsStored(e) == IF file[e] = "none" THEN <<>> ELSE <<e, file[e]>>
AbsState(e) == [j \in JobsOf(e) |-> StateOf(j)]
AbsEntry(e) == [j \in JobsOf(e) |-> IF StateOf(j) \in {"reading", "storing"}
                                    THEN <<e, outcome[j]>> ELSE <<>>]
AbsConfig(e) == [j \in JobsOf(e) |-> e]

\* A result is not the absence of one.
LEMMA ResultIsNotNone == \A e, o : <<e, o>> # <<>>
  OBVIOUS

\* The values of StateAt.
LEMMA StateAtValues ==
  ASSUME NEW p, NEW H
  PROVE  /\ H # {} => StateAt(p, H) = "reading"
         /\ H = {} /\ p \in ExPhases => StateAt(p, H) = "running"
         /\ H = {} /\ p = "downgrade" => StateAt(p, H) = "storing"
         /\ H = {} /\ p = "lookup" => StateAt(p, H) = "asking"
         /\ H = {} /\ p \notin ExPhases \cup {"downgrade", "lookup"} => StateAt(p, H) = "idle"
  BY DEF StateAt, ExPhases

\* What an entry's jobs do is told by the phase and references of each.
LEMMA OneJobMoves ==
  ASSUME NEW e \in Entries, NEW j \in JobsOf(e),
         \A k \in JobsOf(e) : k # j =>
            phase'[k] = phase[k] /\ refs'[k] = refs[k] /\ outcome'[k] = outcome[k]
  PROVE  /\ AbsState(e)' = [AbsState(e) EXCEPT ![j] = StateAt(phase'[j], refs'[j])]
         /\ StateAt(phase'[j], refs'[j]) \in {"reading", "storing"} =>
              AbsEntry(e)' = [AbsEntry(e) EXCEPT ![j] = <<e, outcome'[j]>>]
         /\ StateAt(phase'[j], refs'[j]) \notin {"reading", "storing"} =>
              AbsEntry(e)' = [AbsEntry(e) EXCEPT ![j] = <<>>]
  <1>1. JobsOf(e)' = JobsOf(e)
    BY DEF JobsOf, EntryOf, CaseOf
  <1>2. \A k \in JobsOf(e) : k # j => StateOf(k)' = StateOf(k)
    BY DEF StateOf
  <1>3. StateOf(j)' = StateAt(phase'[j], refs'[j])
    BY DEF StateOf
  <1>4. AbsState(e)' = [AbsState(e) EXCEPT ![j] = StateAt(phase'[j], refs'[j])]
    BY <1>1, <1>2, <1>3 DEF AbsState
  <1>5. AbsEntry(e)' = [AbsEntry(e) EXCEPT ![j] =
           IF StateAt(phase'[j], refs'[j]) \in {"reading", "storing"}
           THEN <<e, outcome'[j]>> ELSE <<>>]
    BY <1>1, <1>2, <1>3 DEF AbsEntry
  <1> QED
    BY <1>4, <1>5

\* Nothing of the entry's concern happens.
LEMMA QuietEntry ==
  ASSUME NEW e \in Entries, file'[e] = file[e],
         \A k \in JobsOf(e) : /\ StateOf(k)' = StateOf(k)
                              /\ StateOf(k) \in {"reading", "storing"} => outcome'[k] = outcome[k]
  PROVE  UNCHANGED Store(e)!vars
  <1>1. JobsOf(e)' = JobsOf(e)
    BY DEF JobsOf, EntryOf, CaseOf
  <1>2. AbsState(e)' = AbsState(e) /\ AbsEntry(e)' = AbsEntry(e) /\ AbsStored(e)' = AbsStored(e)
    BY <1>1 DEF AbsState, AbsEntry, AbsStored
  <1>3. AbsConfig(e)' = AbsConfig(e)
    BY <1>1 DEF AbsConfig
  <1> QED
    BY <1>2, <1>3 DEF Store!vars, AbsState, AbsEntry, AbsStored, AbsConfig

\* A job leaves an entry alone: with no result, or with its write broken off.
LEMMA EntryStops ==
  ASSUME NEW e \in Entries, NEW j \in JobsOf(e),
         \A k \in JobsOf(e) : k # j =>
            phase'[k] = phase[k] /\ refs'[k] = refs[k] /\ outcome'[k] = outcome[k],
         StateOf(j) # "idle", StateAt(phase'[j], refs'[j]) = "idle",
         \/ file'[e] = file[e]
         \/ StateOf(j) = "running" /\ file'[e] = "none"
  PROVE  Store(e)!Stop(j)
  <1>1. /\ AbsState(e)' = [AbsState(e) EXCEPT ![j] = "idle"]
        /\ AbsEntry(e)' = [AbsEntry(e) EXCEPT ![j] = <<>>]
    BY OneJobMoves DEF AbsState, AbsEntry, StateOf, JobsOf, EntryOf, CaseOf
  <1>2. AbsState(e)[j] = StateOf(j)
    BY DEF AbsState
  <1>3. AbsConfig(e)' = AbsConfig(e)
    BY DEF AbsConfig, JobsOf, EntryOf, CaseOf
  <1>4. \/ AbsStored(e)' = AbsStored(e)
        \/ AbsState(e)[j] = "running" /\ AbsStored(e)' = <<>>
    BY <1>2 DEF AbsStored
  <1> QED
    BY <1>1, <1>2, <1>3, <1>4 DEF Store!Stop, AbsState, AbsEntry, AbsStored, AbsConfig

\* The test of an entry's jobs is the same, so that one job never depends on two
\* jobs of an entry, nor on one of its own entry.
LEMMA EntryOfDeps ==
  ASSUME NEW e \in Entries, NEW j \in Job
  PROVE  /\ \A k, l \in JobsOf(e) : TestOf(k) = TestOf(l)
         /\ \A k, l \in JobsOf(e) \cap DepJobs(j) : k = l
         /\ EntryOf(j) = e => JobsOf(e) \cap DepJobs(j) = {}
  <1>1. \A k, l \in JobsOf(e) : TestOf(k) = TestOf(l)
    BY JobParts, EntryAssumption DEF JobsOf, EntryOf, Case
  <1>2. \A k \in DepJobs(j) : k = <<j[1], TestOf(k), j[3]>>
    BY DEF DepJobs, TestOf
  <1>3. \A k, l \in JobsOf(e) \cap DepJobs(j) : k = l
    BY <1>1, <1>2
  <1>4. ASSUME EntryOf(j) = e, NEW k \in JobsOf(e) \cap DepJobs(j) PROVE FALSE
    <2>1. TestOf(k) = TestOf(j)
      BY <1>1, <1>4 DEF JobsOf
    <2>2. k = j
      BY <1>2, <2>1 DEF TestOf, Job
    <2> QED
      BY <2>2, DepsIrreflexive
  <1> QED
    BY <1>1, <1>3, <1>4

\* A step of job j touches other jobs only by dropping references to its
\* dependencies, and files only of its own entry.
LEMMA StepTouches ==
  ASSUME Shape, DepsReferenced, NEW j \in Job, JobStep(j)
  PROVE  /\ \A k \in Job : k # j =>
              /\ phase'[k] = phase[k] /\ outcome'[k] = outcome[k]
              /\ \/ refs'[k] = refs[k]
                 \/ k \in DepJobs(j) /\ refs'[k] = refs[k] \ {j}
         /\ \A e \in Entries : e # EntryOf(j) => file'[e] = file[e]
  <1>0. \A k \in Job : k # j => phase'[k] = phase[k]
    BY JobStepFrame
  <1>1. got[j] \subseteq DepJobs(j)
    BY DEF DepsReferenced
  <1>2. ASSUME NEW o, Return(j, o)
        PROVE  \A k \in Job : k # j =>
                  /\ outcome'[k] = outcome[k]
                  /\ \/ refs'[k] = refs[k]
                     \/ k \in DepJobs(j) /\ refs'[k] = refs[k] \ {j}
    BY <1>1, <1>2 DEF Return, DropRefs, Shape
  <1>3. CASE \/ \E d \in DepJobs(j) : DepFails(j, d)
             \/ LookupFound(j) \/ LookupFails(j) \/ ObserveCancel(j) \/ StartFails(j)
             \/ ChildErrors(j) \/ StoreFails(j) \/ DowngradeDone(j) \/ DowngradeFails(j)
             \/ ChildStopped(j)
    <2>1. PICK o : Return(j, o)
      BY <1>3 DEF DepFails, LookupFound, LookupFails, ObserveCancel, StartFails, ChildErrors,
                  StoreFails, DowngradeDone, DowngradeFails, ChildStopped
    <2>2. \A e \in Entries : e # EntryOf(j) => file'[e] = file[e]
      BY <1>3 DEF DepFails, LookupFound, LookupFails, ObserveCancel, StartFails, ChildErrors,
                  StoreFails, DowngradeDone, DowngradeFails, ChildStopped, Shape
    <2> QED
      BY <1>0, <1>2, <2>1, <2>2
  <1>4. CASE \/ \E d \in DepJobs(j) : DepSucceeds(j, d)
             \/ AcquirePermit(j) \/ LookupRun(j) \/ PollGet(j) \/ Grant(j) \/ Block(j)
             \/ StartChild(j) \/ CancelChild(j)
    BY <1>0, <1>4 DEF DepSucceeds, AcquirePermit, LookupRun, PollGet, Grant, Block, StartChild,
                      CancelChild
  <1>5. CASE \/ (\E o \in Stored : ChildExits(j, o))
             \/ NotifyCompletion(j) \/ DropJob(j) \/ DropOutcome(j)
    BY <1>0, <1>5 DEF ChildExits, NotifyCompletion, DropJob, DropOutcome, DropRefs, Shape
  <1> QED
    BY <1>3, <1>4, <1>5 DEF JobStep, JobProgress, ChildEnds, JobFaults, Dependency

\* Another entry sees of a step of job j at most that j drops its reference to a
\* job stored there.
LEMMA OtherEntry ==
  ASSUME JobInv, NEW j \in Job, JobStep(j), NEW e \in Entries, e # EntryOf(j)
  PROVE  Store(e)!Next \/ UNCHANGED Store(e)!vars
  <1>1. /\ file'[e] = file[e]
        /\ \A k \in JobsOf(e) :
              /\ k # j
              /\ phase'[k] = phase[k] /\ outcome'[k] = outcome[k]
              /\ \/ refs'[k] = refs[k]
                 \/ k \in DepJobs(j) /\ refs'[k] = refs[k] \ {j}
    BY StepTouches DEF JobsOf, JobInv
  <1>2. CASE \A k \in JobsOf(e) : refs'[k] = refs[k]
    <2>1. \A k \in JobsOf(e) : StateOf(k)' = StateOf(k)
      BY <1>1, <1>2 DEF StateOf
    <2> QED
      BY <1>1, <2>1, QuietEntry
  <1>3. ASSUME NEW d \in JobsOf(e), refs'[d] # refs[d]
        PROVE  Store(e)!Next \/ UNCHANGED Store(e)!vars
    <2>1. /\ d \in DepJobs(j) /\ refs'[d] = refs[d] \ {j} /\ refs[d] # {}
          /\ \A k \in JobsOf(e) : k # d => refs'[k] = refs[k]
      <3>1. d \in DepJobs(j) /\ refs'[d] = refs[d] \ {j}
        BY <1>1, <1>3
      <3>2. refs[d] # {}
        BY <1>3, <3>1
      <3>3. ASSUME NEW k \in JobsOf(e), k # d PROVE refs'[k] = refs[k]
        <4>1. k \notin DepJobs(j)
          BY <3>1, <3>3, EntryOfDeps
        <4> QED
          BY <1>1, <4>1
      <3> QED
        BY <3>1, <3>2, <3>3
    <2>2. StateOf(d) = "reading"
      BY <2>1, StateAtValues DEF StateOf
    <2>3. CASE refs'[d] # {}
      <3>1. StateOf(d)' = "reading"
        BY <2>3, StateAtValues DEF StateOf
      <3>2. \A k \in JobsOf(e) : StateOf(k)' = StateOf(k)
        BY <1>1, <2>1, <2>2, <3>1 DEF StateOf
      <3> QED
        BY <1>1, <3>2, QuietEntry
    <2>4. CASE refs'[d] = {}
      <3>1. phase'[d] = phase[d] /\ phase[d] \in DonePhases
        BY <1>1, <2>1 DEF JobInv, LockInv, RefsOwned, JobsOf
      <3>2. phase[d] \notin ExPhases \cup {"downgrade", "lookup"}
        BY <3>1 DEF DonePhases, SentPhases, ExPhases
      <3>3. StateAt(phase'[d], refs'[d]) = "idle"
        BY <2>4, <3>1, <3>2, StateAtValues
      <3>4. \A k \in JobsOf(e) : k # d =>
               phase'[k] = phase[k] /\ refs'[k] = refs[k] /\ outcome'[k] = outcome[k]
        BY <1>1, <2>1
      <3>5. StateOf(d) # "idle" /\ file'[e] = file[e]
        BY <1>1, <2>2
      <3>6. Store(e)!Stop(d)
        BY <3>3, <3>4, <3>5, EntryStops
      <3> QED
        BY <3>6 DEF Store!Next
    <2> QED
      BY <2>3, <2>4
  <1> QED
    BY <1>2, <1>3

\* The state of an entry's jobs agrees with its locks.
LEMMA LocksTell ==
  ASSUME JobInv, NEW e \in Entries
  PROVE  /\ ExFree(e) => Store(e)!NoRunner
         /\ SharedHolders(e) = {} => Store(e)!NoReader
  <1>1. \A k \in JobsOf(e) : StateOf(k) = "running" => phase[k] \in ExPhases
    <2> SUFFICES ASSUME NEW k \in JobsOf(e), phase[k] \notin ExPhases
                 PROVE  StateOf(k) # "running"
      OBVIOUS
    <2> QED
      BY StateAtValues DEF StateOf
  <1>2. \A k \in JobsOf(e) : StateOf(k) = "reading" => refs[k] # {}
    <2> SUFFICES ASSUME NEW k \in JobsOf(e), refs[k] = {}
                 PROVE  StateOf(k) # "reading"
      OBVIOUS
    <2> QED
      BY StateAtValues DEF StateOf
  <1>3. ASSUME ExFree(e), NEW k \in JobsOf(e) PROVE StateOf(k) # "running"
    BY <1>1, <1>3, NoJobAssumption DEF ExFree, JobsOf, JobInv, LockInv, ExOwner
  <1>4. ASSUME SharedHolders(e) = {}, NEW k \in JobsOf(e) PROVE StateOf(k) # "reading"
    BY <1>2, <1>4 DEF SharedHolders, JobsOf
  <1> QED
    BY <1>3, <1>4 DEF Store!NoRunner, Store!NoReader

\* A stored result matches the jobs of a cacheable test.
LEMMA MatchesIsFound ==
  ASSUME NEW e \in Entries, NEW j \in JobsOf(e)
  PROVE  Store(e)!Matches(j) <=> Found(j)
  <1>1. (\E k \in JobsOf(e) : TestOf(k) \in Cacheable) <=> TestOf(j) \in Cacheable
    BY EntryOfDeps DEF JobsOf
  <1>2. EntryOf(j) = e
    BY DEF JobsOf
  <1>3. <<e, file[e]>> # <<>> /\ <<e, file[e]>>[1] = e
    BY ResultIsNotNone
  <1>4. CASE file[e] = "none"
    BY <1>2, <1>4 DEF Store!Matches, Found
  <1>5. CASE file[e] # "none"
    BY <1>1, <1>2, <1>3, <1>5 DEF Store!Matches, Found
  <1> QED
    BY <1>4, <1>5

\* Where job j stands with its entry, by its phase.
LEMMA Standing ==
  ASSUME JobInv, NEW j \in Job
  PROVE  /\ phase[j] \in ExPhases => StateOf(j) = "running"
         /\ phase[j] = "lookup" => StateOf(j) = "asking"
         /\ phase[j] = "downgrade" => StateOf(j) = "storing"
         /\ phase[j] \in {"none", "deps"} => StateOf(j) = "idle"
  <1>1. phase[j] \in ExPhases \cup {"lookup", "downgrade", "none", "deps"} => refs[j] = {}
    BY DEF JobInv, LockInv, RefsOwned, DonePhases, SentPhases, ExPhases
  <1>2. {"none", "deps"} \cap (ExPhases \cup {"downgrade", "lookup"}) = {}
    BY DEF ExPhases
  <1> QED
    BY <1>1, <1>2, StateAtValues DEF StateOf

\* do_run returns outcome o without writing the file: the job leaves its entry,
\* unless o is a result.
LEMMA ReturnWithoutResult ==
  ASSUME JobInv, NEW j \in Job, JobStep(j), NEW o, o \notin Stored, Return(j, o),
         StateOf(j) # "idle",
         \/ file'[EntryOf(j)] = file[EntryOf(j)]
         \/ StateOf(j) = "running" /\ file'[EntryOf(j)] = "none"
  PROVE  Store(EntryOf(j))!Stop(j)
  <1> DEFINE e == EntryOf(j)
  <1>1. e \in Entries /\ j \in JobsOf(e)
    BY JobParts DEF JobsOf
  <1>2. \A k \in JobsOf(e) : k # j =>
          phase'[k] = phase[k] /\ refs'[k] = refs[k] /\ outcome'[k] = outcome[k]
    BY <1>1, StepTouches, EntryOfDeps DEF JobsOf, JobInv
  <1>3. phase'[j] = "returned" /\ refs'[j] = {}
    BY DEF Return, DropRefs, JobInv, Shape
  <1>4. StateAt(phase'[j], refs'[j]) = "idle"
    BY <1>3, StateAtValues DEF ExPhases
  <1> HIDE DEF e
  <1>5. Store(e)!Stop(j)
    BY <1>1, <1>2, <1>4, EntryStops DEF e
  <1> QED
    BY <1>5 DEF e

\* do_run returns a result: the job comes to share its entry.
LEMMA ReturnWithResult ==
  ASSUME JobInv, NEW j \in Job, JobStep(j), NEW o \in Stored, Return(j, o),
         ExFree(EntryOf(j)), file'[EntryOf(j)] = file[EntryOf(j)],
         \/ StateOf(j) = "asking" /\ Found(j) /\ o = file[EntryOf(j)]
         \/ StateOf(j) = "storing" /\ o = outcome[j]
  PROVE  Store(EntryOf(j))!Find(j) \/ Store(EntryOf(j))!Keep(j)
  <1> DEFINE e == EntryOf(j)
  <1>1. e \in Entries /\ j \in JobsOf(e)
    BY JobParts DEF JobsOf
  <1>2. \A k \in JobsOf(e) : k # j =>
          phase'[k] = phase[k] /\ refs'[k] = refs[k] /\ outcome'[k] = outcome[k]
    BY <1>1, StepTouches, EntryOfDeps DEF JobsOf, JobInv
  <1>3. refs'[j] # {} /\ outcome'[j] = o
    BY DEF Return, DropRefs, JobInv, Shape
  <1>4. StateAt(phase'[j], refs'[j]) = "reading"
    BY <1>3, StateAtValues
  <1>5. /\ AbsState(e)' = [AbsState(e) EXCEPT ![j] = "reading"]
        /\ AbsEntry(e)' = [AbsEntry(e) EXCEPT ![j] = <<e, o>>]
    BY <1>1, <1>2, <1>3, <1>4, OneJobMoves DEF AbsState, AbsEntry, StateOf, JobsOf, EntryOf, CaseOf
  <1>6. AbsConfig(e)' = AbsConfig(e) /\ AbsStored(e)' = AbsStored(e)
    BY DEF AbsConfig, AbsStored, JobsOf, EntryOf, CaseOf
  <1>7. Store(e)!NoRunner
    BY <1>1, LocksTell
  <1>8. AbsState(e)[j] = StateOf(j)
    BY <1>1 DEF AbsState
  <1>9. CASE StateOf(j) = "asking" /\ Found(j) /\ o = file[e]
    <2>1. Store(e)!Matches(j)
      BY <1>1, <1>9, MatchesIsFound
    <2>2. AbsStored(e) = <<e, o>>
      BY <1>9 DEF AbsStored, Found
    <2>3. Store(e)!Find(j)
      BY <1>5, <1>6, <1>7, <1>8, <1>9, <2>1, <2>2
      DEF Store!Find, Store!Move, AbsState, AbsEntry, AbsStored, AbsConfig
    <2> QED
      BY <2>3
  <1>10. CASE StateOf(j) = "storing" /\ o = outcome[j]
    <2>1. AbsEntry(e)[j] = <<e, o>>
      BY <1>1, <1>10 DEF AbsEntry
    <2>2. AbsEntry(e)' = AbsEntry(e)
      BY <1>1, <1>5, <2>1 DEF AbsEntry
    <2>3. Store(e)!Keep(j)
      BY <1>5, <1>6, <1>7, <1>8, <1>10, <2>2
      DEF Store!Keep, Store!Move, AbsState, AbsEntry, AbsStored, AbsConfig
    <2> QED
      BY <2>3
  <1> QED
    BY <1>9, <1>10

\* do_run returns, in each of its ways.
LEMMA ReturnsToEntry ==
  ASSUME JobInv, NEW j \in Job, JobStep(j),
         \/ \E d \in DepJobs(j) : DepFails(j, d)
         \/ LookupFound(j) \/ LookupFails(j) \/ ObserveCancel(j) \/ StartFails(j)
         \/ ChildErrors(j) \/ StoreFails(j) \/ DowngradeDone(j) \/ DowngradeFails(j)
         \/ ChildStopped(j)
  PROVE  Store(EntryOf(j))!Next \/ UNCHANGED Store(EntryOf(j))!vars
  <1> DEFINE e == EntryOf(j)
  <1>a. e \in Entries /\ j \in JobsOf(e)
    BY JobParts DEF JobsOf
  <1>b. {"error", "canceled"} \cap Stored = {}
    BY DEF Stored
  <1>1. CASE \E d \in DepJobs(j) : DepFails(j, d)
    <2>1. /\ phase[j] = "deps" /\ phase'[j] = "returned" /\ refs'[j] = {}
          /\ file' = file
      BY <1>1, <1>b DEF DepFails, Return, DropRefs, JobInv, Shape
    <2>2. StateOf(j) = "idle" /\ StateAt(phase'[j], refs'[j]) = "idle"
      BY <2>1, Standing, StateAtValues DEF ExPhases
    <2>3. \A k \in JobsOf(e) : k # j =>
            phase'[k] = phase[k] /\ refs'[k] = refs[k] /\ outcome'[k] = outcome[k]
      BY <1>a, StepTouches, EntryOfDeps DEF JobsOf, JobInv
    <2>4. \A k \in JobsOf(e) : /\ StateOf(k)' = StateOf(k)
                               /\ StateOf(k) \in {"reading", "storing"} => outcome'[k] = outcome[k]
      BY <2>2, <2>3 DEF StateOf
    <2> QED
      BY <1>a, <2>1, <2>4, QuietEntry
  <1>2. CASE LookupFound(j)
    <2>1. /\ StateOf(j) = "asking" /\ Found(j) /\ ExFree(e) /\ file'[e] = file[e]
          /\ Return(j, file[e])
      BY <1>2, Standing DEF LookupFound
    <2>2. file[e] \in Stored
      BY <1>a, <2>1 DEF Found, JobInv, Shape
    <2>3. Store(e)!Find(j) \/ Store(e)!Keep(j)
      BY <2>1, <2>2, ReturnWithResult
    <2> QED
      BY <1>a, <2>3 DEF Store!Next
  <1>3. CASE \/ LookupFails(j) \/ ObserveCancel(j) \/ StartFails(j) \/ ChildErrors(j)
             \/ StoreFails(j) \/ DowngradeFails(j) \/ ChildStopped(j)
    <2>1. PICK o \in {"error", "canceled"} : Return(j, o)
      BY <1>3 DEF LookupFails, ObserveCancel, StartFails, ChildErrors, StoreFails,
                  DowngradeFails, ChildStopped
    <2>2. StateOf(j) # "idle"
      BY <1>3, Standing DEF LookupFails, ObserveCancel, StartFails, ChildErrors, StoreFails,
                            DowngradeFails, ChildStopped, ExPhases
    <2>3. \/ file'[e] = file[e]
          \/ StateOf(j) = "running" /\ file'[e] = "none"
      <3>1. CASE StoreFails(j)
        BY <1>a, <3>1, Standing DEF StoreFails, ExPhases, JobInv, Shape
      <3> QED
        BY <1>3, <3>1 DEF LookupFails, ObserveCancel, StartFails, ChildErrors, DowngradeFails,
                          ChildStopped
    <2>4. Store(e)!Stop(j)
      BY <1>b, <2>1, <2>2, <2>3, ReturnWithoutResult
    <2> QED
      BY <1>a, <2>4 DEF Store!Next
  <1>4. CASE DowngradeDone(j)
    <2>1. /\ StateOf(j) = "storing" /\ ExFree(e) /\ file'[e] = file[e]
          /\ Return(j, outcome[j])
      BY <1>4, Standing DEF DowngradeDone
    <2>2. CASE outcome[j] \in Stored
      <3>1. Store(e)!Find(j) \/ Store(e)!Keep(j)
        BY <2>1, <2>2, ReturnWithResult
      <3> QED
        BY <1>a, <3>1 DEF Store!Next
    <2>3. CASE outcome[j] \notin Stored
      <3>1. Store(e)!Stop(j)
        BY <2>1, <2>3, ReturnWithoutResult
      <3> QED
        BY <1>a, <3>1 DEF Store!Next
    <2> QED
      BY <2>2, <2>3
  <1> QED
    BY <1>1, <1>2, <1>3, <1>4

\* The steps between lookup and return that are of the entry's concern.
LEMMA MovesOfEntry ==
  ASSUME JobInv, NEW j \in Job, JobStep(j),
         AcquirePermit(j) \/ LookupRun(j) \/ \E o \in Stored : ChildExits(j, o)
  PROVE  Store(EntryOf(j))!Next
  <1> DEFINE e == EntryOf(j)
  <1>a. e \in Entries /\ j \in JobsOf(e)
    BY JobParts DEF JobsOf
  <1>b. \A k \in JobsOf(e) : k # j =>
          phase'[k] = phase[k] /\ refs'[k] = refs[k] /\ outcome'[k] = outcome[k]
    BY <1>a, StepTouches, EntryOfDeps DEF JobsOf, JobInv
  <1>c. AbsState(e)[j] = StateOf(j) /\ AbsConfig(e)' = AbsConfig(e)
    BY <1>a DEF AbsState, AbsConfig, JobsOf, EntryOf, CaseOf
  <1>d. phase[j] \in {"deps", "lookup", "running"} => refs[j] = {}
    BY DEF JobInv, LockInv, RefsOwned, DonePhases, SentPhases
  <1>1. CASE AcquirePermit(j)
    <2>1. /\ phase[j] = "deps" /\ phase'[j] = "lookup" /\ refs' = refs /\ outcome' = outcome
          /\ file' = file
      BY <1>1 DEF AcquirePermit, Move, JobInv, Shape
    <2>2. StateOf(j) = "idle" /\ StateAt(phase'[j], refs'[j]) = "asking"
      BY <1>d, <2>1, Standing, StateAtValues
    <2>3. /\ AbsState(e)' = [AbsState(e) EXCEPT ![j] = "asking"]
          /\ AbsEntry(e)' = [AbsEntry(e) EXCEPT ![j] = <<>>]
      BY <1>a, <1>b, <2>2, OneJobMoves DEF AbsState, AbsEntry, StateOf, JobsOf, EntryOf, CaseOf
    <2>4. AbsEntry(e)' = AbsEntry(e) /\ AbsStored(e)' = AbsStored(e)
      BY <1>a, <2>1, <2>2, <2>3 DEF AbsEntry, AbsStored
    <2>5. AbsConfig(e)' = [AbsConfig(e) EXCEPT ![j] = e]
      BY <1>a, <1>c DEF AbsConfig
    <2>6. Store(e)!Ask(j, e)
      BY <1>c, <2>2, <2>3, <2>4, <2>5
      DEF Store!Ask, Store!Move, AbsState, AbsEntry, AbsStored, AbsConfig
    <2> QED
      BY <1>a, <2>6 DEF Store!Next
  <1>2. CASE LookupRun(j)
    <2>1. /\ phase[j] = "lookup" /\ phase'[j] = "waiting" /\ refs' = refs /\ outcome' = outcome
          /\ file' = file /\ ~Found(j) /\ ExFree(e) /\ SharedHolders(e) = {}
      BY <1>2 DEF LookupRun, Move, Unlocked, JobInv, Shape
    <2>2. StateOf(j) = "asking" /\ StateAt(phase'[j], refs'[j]) = "running"
      BY <1>d, <2>1, Standing, StateAtValues DEF ExPhases
    <2>3. /\ AbsState(e)' = [AbsState(e) EXCEPT ![j] = "running"]
          /\ AbsEntry(e)' = [AbsEntry(e) EXCEPT ![j] = <<>>]
      BY <1>a, <1>b, <2>2, OneJobMoves DEF AbsState, AbsEntry, StateOf, JobsOf, EntryOf, CaseOf
    <2>4. AbsEntry(e)' = AbsEntry(e) /\ AbsStored(e)' = AbsStored(e)
      BY <1>a, <2>1, <2>2, <2>3 DEF AbsEntry, AbsStored
    <2>5. Store(e)!NoRunner /\ Store(e)!NoReader /\ ~Store(e)!Matches(j)
      BY <1>a, <2>1, LocksTell, MatchesIsFound
    <2>6. Store(e)!Start(j)
      BY <1>c, <2>2, <2>3, <2>4, <2>5
      DEF Store!Start, Store!Move, AbsState, AbsEntry, AbsStored, AbsConfig
    <2> QED
      BY <1>a, <2>6 DEF Store!Next
  <1>3. ASSUME NEW o \in Stored, ChildExits(j, o) PROVE Store(e)!Next
    <2>1. /\ phase[j] = "running" /\ phase'[j] = "downgrade" /\ refs' = refs
          /\ outcome'[j] = o /\ file'[e] = o /\ o # "none"
      BY <1>3, <1>a DEF ChildExits, Move, JobInv, Shape, Stored
    <2>2. StateOf(j) = "running" /\ StateAt(phase'[j], refs'[j]) = "storing"
      BY <1>d, <2>1, Standing, StateAtValues DEF ExPhases
    <2>3. /\ AbsState(e)' = [AbsState(e) EXCEPT ![j] = "storing"]
          /\ AbsEntry(e)' = [AbsEntry(e) EXCEPT ![j] = <<e, o>>]
      <3>1. AbsState(e)' = [AbsState(e) EXCEPT ![j] = "storing"]
        BY <1>a, <1>b, <2>2, OneJobMoves DEF AbsState, StateOf, JobsOf, EntryOf, CaseOf
      <3>2. AbsEntry(e)' = [AbsEntry(e) EXCEPT ![j] = <<e, outcome'[j]>>]
        BY <1>a, <1>b, <2>2, OneJobMoves DEF AbsEntry, StateOf, JobsOf, EntryOf, CaseOf
      <3> QED
        BY <2>1, <3>1, <3>2
    <2>4. AbsStored(e)' = <<e, o>> /\ AbsConfig(e)[j] = e
      BY <1>a, <2>1 DEF AbsStored, AbsConfig, EntryOf, CaseOf
    <2>5. Store(e)!Finish(j, o)
      BY <1>c, <2>2, <2>3, <2>4
      DEF Store!Finish, Store!Move, AbsState, AbsEntry, AbsStored, AbsConfig
    <2> QED
      BY <1>a, <2>5 DEF Store!Next
  <1> QED
    BY <1>1, <1>2, <1>3

\* The steps of a job that do not concern its entry, except that the last drop of
\* its outcome may end the sharing of it.
LEMMA RestOfEntry ==
  ASSUME JobInv, NEW j \in Job, JobStep(j),
         \/ \E d \in DepJobs(j) : DepSucceeds(j, d)
         \/ PollGet(j) \/ Grant(j) \/ Block(j) \/ StartChild(j) \/ CancelChild(j)
         \/ NotifyCompletion(j) \/ DropJob(j) \/ DropOutcome(j)
  PROVE  Store(EntryOf(j))!Next \/ UNCHANGED Store(EntryOf(j))!vars
  <1> DEFINE e == EntryOf(j)
  <1>a. e \in Entries /\ j \in JobsOf(e)
    BY JobParts DEF JobsOf
  <1>b. \A k \in JobsOf(e) : k # j =>
          phase'[k] = phase[k] /\ refs'[k] = refs[k] /\ outcome'[k] = outcome[k]
    BY <1>a, StepTouches, EntryOfDeps DEF JobsOf, JobInv
  <1>c. file' = file /\ outcome' = outcome
    BY DEF DepSucceeds, PollGet, Grant, Block, StartChild, CancelChild, NotifyCompletion, DropJob,
           DropOutcome
  <1>d. ASSUME StateAt(phase'[j], refs'[j]) = StateOf(j) PROVE UNCHANGED Store(e)!vars
    <2>1. \A k \in JobsOf(e) : StateOf(k)' = StateOf(k)
      BY <1>b, <1>d DEF StateOf
    <2> QED
      BY <1>a, <1>c, <2>1, QuietEntry
  <1>1. CASE \E d \in DepJobs(j) : DepSucceeds(j, d)
    <2>1. phase' = phase /\ refs' = refs
      BY <1>1 DEF DepSucceeds
    <2> QED
      BY <1>d, <2>1 DEF StateOf
  <1>2. CASE PollGet(j) \/ Grant(j) \/ Block(j) \/ StartChild(j) \/ CancelChild(j)
    <2>1. phase[j] \in ExPhases /\ phase'[j] \in ExPhases /\ refs' = refs
      BY <1>2 DEF PollGet, Grant, Block, StartChild, CancelChild, Move, ExPhases, JobInv, Shape
    <2>2. refs[j] = {}
      BY <2>1 DEF JobInv, LockInv, RefsOwned, DonePhases, SentPhases, ExPhases
    <2>3. StateAt(phase'[j], refs'[j]) = StateOf(j)
      BY <2>1, <2>2, Standing, StateAtValues
    <2> QED
      BY <1>d, <2>3
  <1>3. CASE NotifyCompletion(j) \/ DropJob(j) \/ DropOutcome(j)
    <2>1. /\ phase[j] \in DonePhases /\ phase'[j] \in DonePhases
          /\ refs[j] = {} => refs'[j] = {}
      <3>1. refs[j] = {} => ~(NotifyCompletion(j) /\ outcome[j] \in Stored)
        BY DEF JobInv, LockInv, RefsOwned, NotifyCompletion, Move
      <3>2. j \notin DepJobs(j)
        BY DepsIrreflexive
      <3> QED
        BY <1>3, <3>1, <3>2 DEF NotifyCompletion, DropJob, DropOutcome, DropRefs, Move,
                                DonePhases, SentPhases, JobInv, Shape
    <2>2. DonePhases \cap (ExPhases \cup {"downgrade", "lookup"}) = {}
      BY DEF DonePhases, SentPhases, ExPhases
    <2>3. CASE refs[j] = {} \/ refs'[j] # {}
      <3>1. StateAt(phase'[j], refs'[j]) = StateOf(j)
        BY <2>1, <2>2, <2>3, StateAtValues DEF StateOf
      <3> QED
        BY <1>d, <3>1
    <2>4. CASE refs[j] # {} /\ refs'[j] = {}
      <3>1. StateOf(j) = "reading" /\ StateAt(phase'[j], refs'[j]) = "idle"
        BY <2>1, <2>2, <2>4, StateAtValues DEF StateOf
      <3>2. StateOf(j) # "idle" /\ file'[e] = file[e]
        BY <1>c, <3>1
      <3>3. Store(e)!Stop(j)
        BY <1>a, <1>b, <3>1, <3>2, EntryStops
      <3> QED
        BY <1>a, <3>3 DEF Store!Next
    <2> QED
      BY <2>3, <2>4
  <1> QED
    BY <1>1, <1>2, <1>3

\* A set_commits call spawns jobs that do not use their entries yet.
LEMMA SetCommitsEntry ==
  ASSUME JobInv, NEW C \in SUBSET Commits, SetCommits(C), NEW e \in Entries
  PROVE  UNCHANGED Store(e)!vars
  <1> DEFINE new == NewCases(C)
             batch == IF BatchClosed(new) THEN {<<x[1], x[2], calls + 1>> : x \in new} ELSE {}
  <1>1. /\ \A k \in Job : phase'[k] = IF k \in batch THEN "deps" ELSE phase[k]
        /\ file' = file /\ refs' = refs /\ outcome' = outcome
    BY DEF SetCommits
  <1>2. \A k \in batch : k[3] = calls + 1
    OBVIOUS
  <1>3. calls \in Nat
    BY PoolAssumption DEF JobInv, Shape
  <1> HIDE DEF batch
  <1>4. \A k \in Job : k \in batch => phase[k] = "none"
    BY <1>2, <1>3, JobParts DEF JobInv, CallsPast
  <1>5. ASSUME NEW k \in Job PROVE StateAt(phase'[k], refs'[k]) = StateOf(k)
    <2>1. CASE k \in batch
      <3>1. phase[k] = "none" /\ phase'[k] = "deps" /\ refs'[k] = refs[k]
        BY <1>1, <1>4, <2>1
      <3>2. refs[k] = {}
        BY <3>1 DEF JobInv, LockInv, RefsOwned, DonePhases, SentPhases
      <3> QED
        BY <3>1, <3>2, Standing, StateAtValues DEF ExPhases
    <2>2. CASE k \notin batch
      BY <1>1, <2>2 DEF StateOf
    <2> QED
      BY <2>1, <2>2
  <1>6. \A k \in JobsOf(e) : StateOf(k)' = StateOf(k)
    BY <1>5 DEF StateOf, JobsOf
  <1> QED
    BY <1>1, <1>6, QuietEntry

\* At first no job uses an entry.
LEMMA InitEntry ==
  ASSUME Init, NEW e \in Entries
  PROVE  Store(e)!Init
  <1>1. \A k \in JobsOf(e) : phase[k] = "none" /\ refs[k] = {}
    BY DEF Init, JobsOf
  <1>2. \A k \in JobsOf(e) : StateOf(k) = "idle"
    BY <1>1, StateAtValues DEF StateOf, ExPhases
  <1>3. AbsStored(e) \in {e} \X Stored \cup {<<>>}
    BY DEF Init, AbsStored
  <1>4. /\ AbsState(e) = [k \in JobsOf(e) |-> "idle"]
        /\ AbsEntry(e) = [k \in JobsOf(e) |-> <<>>]
    BY <1>2 DEF AbsState, AbsEntry
  <1>5. AbsConfig(e) \in [JobsOf(e) -> {e} \cup {<<>>}]
    BY DEF AbsConfig
  <1> QED
    BY <1>3, <1>4, <1>5 DEF Store!Init, Store!Results, AbsState, AbsEntry, AbsStored, AbsConfig

\* The jobs of an entry, of all generations and of all commits with its tree, find
\* its result or run its test one at a time, and no one runs it while others use it.
THEOREM EntryContractHolds == Spec => EntryContract
  <1>1. Init => \A e \in Entries : Store(e)!Init
    BY InitEntry
  <1>2. JobInv /\ [Next]_vars => [\A e \in Entries : Store(e)!Next \/ UNCHANGED Store(e)!vars]_vars
    <2> SUFFICES ASSUME JobInv, Next, NEW e \in Entries
                 PROVE  Store(e)!Next \/ UNCHANGED Store(e)!vars
      OBVIOUS
    <2>1. ASSUME NEW C \in SUBSET Commits, SetCommits(C) PROVE UNCHANGED Store(e)!vars
      BY <2>1, SetCommitsEntry
    <2>2. ASSUME NEW j \in Job, JobStep(j) PROVE Store(e)!Next \/ UNCHANGED Store(e)!vars
      <3>1. CASE e # EntryOf(j)
        BY <2>2, <3>1, OtherEntry
      <3>2. CASE e = EntryOf(j)
        <4>1. Store(EntryOf(j))!Next \/ UNCHANGED Store(EntryOf(j))!vars
          BY <2>2, ReturnsToEntry, MovesOfEntry, RestOfEntry
          DEF JobStep, JobProgress, ChildEnds, JobFaults, Dependency
        <4> QED
          BY <3>2, <4>1
      <3> QED
        BY <3>1, <3>2
    <2>3. CASE Shutdown \/ Settle \/ Finished
      <3>1. phase' = phase /\ refs' = refs /\ outcome' = outcome /\ file' = file
        BY <2>3, OtherStepsFrame
      <3>2. \A k \in JobsOf(e) : StateOf(k)' = StateOf(k)
        BY <3>1 DEF StateOf
      <3> QED
        BY <3>1, <3>2, QuietEntry
    <2> QED
      BY <2>1, <2>2, <2>3 DEF Next
  <1> QED
    BY <1>1, <1>2, JobInvHolds, PTL DEF Spec, EntryContract
=============================================================================
