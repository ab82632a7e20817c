---------------------------- MODULE Config_proofs ----------------------------
(***************************************************************************)
(* The way from the configuration file to the jobs of a command, for every *)
(* configuration file: each step finds what it unwraps, the jobs are those *)
(* the command wants, and a test's hash covers all it depends on.  Each of *)
(* the five walks obeys SortInv of TopologicalSort_proofs.                 *)
(***************************************************************************)
EXTENDS Config, TopologicalSort_proofs

-----------------------------------------------------------------------------
(* The file and the sequences made of it *)

\* The names and dependencies of a file's tests are what a Dag is made of.
LEMMA FileTypes ==
  ASSUME file \in Configs
  PROVE  /\ Names \in Seq(Node)
         /\ DependsOn \in [Node -> Seq(Node)]
<1>1. file.tests \in Seq(RawTest)
  BY ConfigAssumption
<1>2. Names \in Seq(Node)
  <2>1. \A i \in 1..Len(file.tests) : file.tests[i].name \in Node
    <3>1. \A r \in RawTest : r.name \in Node
      BY DEF RawTest
    <3>2. \A i \in 1..Len(file.tests) : file.tests[i] \in RawTest
      BY <1>1
    <3> QED
      BY <3>1, <3>2
  <2>2. DOMAIN file.tests = 1..Len(file.tests) /\ Len(file.tests) \in Nat
    BY <1>1
  <2> QED
    BY <2>1, <2>2 DEF Names, NamesOf
<1>3. ASSUME NEW t \in ToSet(Names) PROVE TestNamed(t).depends_on \in Seq(Node)
  <2>1. \E i \in DOMAIN file.tests : file.tests[i].name = t
    BY DEF Names, NamesOf, ToSet
  <2>2. TestNamed(t) \in RawTest
    BY <1>1, <2>1 DEF TestNamed
  <2> QED
    BY <2>2 DEF RawTest
<1>4. <<>> \in Seq(Node)
  OBVIOUS
<1> QED
  BY <1>2, <1>3, <1>4 DEF DependsOn

\* The members of a sequence of nodes are nodes.
LEMMA ToSetLemma ==
  ASSUME NEW s \in Seq(Node)
  PROVE  /\ ToSet(s) \subseteq Node
         /\ DOMAIN s = 1..Len(s)
         /\ Len(s) \in Nat
         /\ \A i \in 1..Len(s) : s[i] \in ToSet(s)
         /\ \A v \in ToSet(s) : \E i \in 1..Len(s) : s[i] = v
BY DEF ToSet

\* Appending adds a member.
LEMMA AppendToSet ==
  ASSUME NEW s \in Seq(Node), NEW v \in Node
  PROVE  ToSet(Append(s, v)) = ToSet(s) \cup {v}
<1>1. ASSUME NEW u \in ToSet(Append(s, v)) PROVE u \in ToSet(s) \cup {v}
  BY AppendLemma, ToSetLemma DEF ToSet
<1>2. ASSUME NEW u \in ToSet(s) \cup {v} PROVE u \in ToSet(Append(s, v))
  BY AppendLemma, ToSetLemma DEF ToSet
<1> QED
  BY <1>1, <1>2

\* A sequence read backwards, and without the first element of that.
LEMMA ReverseLemma ==
  ASSUME NEW s \in Seq(Node)
  PROVE  /\ Reverse(s) \in Seq(Node)
         /\ Len(Reverse(s)) = Len(s)
         /\ \A i \in 1..Len(s) : Reverse(s)[i] = s[Len(s) - i + 1]
         /\ s # <<>> => /\ Tail(Reverse(s)) \in Seq(Node)
                        /\ Len(Tail(Reverse(s))) = Len(s) - 1
                        /\ \A i \in 1..(Len(s) - 1) : Tail(Reverse(s))[i] = s[Len(s) - i]
<1>1. /\ Reverse(s) \in Seq(Node)
      /\ Len(Reverse(s)) = Len(s)
      /\ \A i \in 1..Len(s) : Reverse(s)[i] = s[Len(s) - i + 1]
  BY DEF Reverse
<1>2. ASSUME s # <<>>
      PROVE  /\ Tail(Reverse(s)) \in Seq(Node)
             /\ Len(Tail(Reverse(s))) = Len(s) - 1
             /\ \A i \in 1..(Len(s) - 1) : Tail(Reverse(s))[i] = s[Len(s) - i]
  BY <1>1, <1>2
<1> QED
  BY <1>1, <1>2

\* The rows of an adjacency list.
LEMMA AdjacencyLemma ==
  ASSUME file \in Configs, NEW s \in Seq(Node)
  PROVE  /\ Adjacency(s, DependsOn) \in [Node -> Seq(Node)]
         /\ \A t \in ToSet(s) : Adjacency(s, DependsOn)[t] = DependsOn[t]
         /\ \A t \in Node \ ToSet(s) : Adjacency(s, DependsOn)[t] = <<>>
         /\ Adjacency(Names, DependsOn) = DependsOn
<1>1. DependsOn \in [Node -> Seq(Node)] /\ Names \in Seq(Node)
  BY FileTypes
<1>2. <<>> \in Seq(Node)
  OBVIOUS
<1>3. \A t \in Node \ ToSet(Names) : DependsOn[t] = <<>>
  BY DEF DependsOn
<1> QED
  BY <1>1, <1>2, <1>3, ToSetLemma DEF Adjacency

\* What a test depends on: itself and what its dependencies depend on.
LEMMA DescendantsUnfold ==
  ASSUME file \in Configs, NEW t \in Node
  PROVE  Descendants(t) = {t} \cup UNION {Descendants(d) : d \in ToSet(DependsOn[t])}
<1> DEFINE Below(S) == \A v \in S : ToSet(DependsOn[v]) \subseteq S
           D == {t} \cup UNION {Descendants(d) : d \in ToSet(DependsOn[t])}
<1>1. \A v \in Node : ToSet(DependsOn[v]) \subseteq Node
  BY FileTypes, ToSetLemma
<1>2. \A v \in Node : /\ Descendants(v) \subseteq Node
                      /\ v \in Descendants(v)
                      /\ \A S \in SUBSET Node : v \in S /\ Below(S) => Descendants(v) \subseteq S
  BY DEF Descendants
<1>3. ASSUME NEW v \in Node PROVE Below(Descendants(v))
  <2> SUFFICES ASSUME NEW u \in Descendants(v), NEW w \in ToSet(DependsOn[u]),
                      NEW S \in SUBSET Node, v \in S, Below(S)
               PROVE  w \in S
    BY <1>1, <1>2 DEF Descendants
  <2>1. u \in S
    BY <1>2
  <2> QED
    BY <2>1
<1>4. D \subseteq Descendants(t)
  <2>1. \A d \in ToSet(DependsOn[t]) : d \in Descendants(t) /\ d \in Node
    BY <1>1, <1>2, <1>3
  <2>2. \A d \in ToSet(DependsOn[t]) : Descendants(d) \subseteq Descendants(t)
    BY <1>2, <1>3, <2>1
  <2> QED
    BY <1>2, <2>2
<1>5. Descendants(t) \subseteq D
  <2>1. D \subseteq Node
    BY <1>1, <1>2
  <2>2. Below(D)
    <3> SUFFICES ASSUME NEW v \in D PROVE ToSet(DependsOn[v]) \subseteq D
      OBVIOUS
    <3>1. CASE v = t
      BY <3>1, <1>1, <1>2
    <3>2. CASE v # t
      <4>1. PICK d \in ToSet(DependsOn[t]) : v \in Descendants(d)
        BY <3>2
      <4>2. ToSet(DependsOn[v]) \subseteq Descendants(d)
        BY <4>1, <1>1, <1>3
      <4> QED
        BY <4>2
    <3> QED
      BY <3>1, <3>2
  <2> HIDE DEF D
  <2>3. t \in D
    BY DEF D
  <2> QED
    BY <1>2, <2>1, <2>2, <2>3
<1> QED
  BY <1>4, <1>5

-----------------------------------------------------------------------------
(* Walks *)

\* The present walk has emitted s, and perhaps more.
Follows(s) == Len(s) <= Len(out) /\ \A i \in 1..Len(s) : s[i] = out[i]

\* A walk changes neither its graph nor its sources, and what it has emitted
\* stays.
LEMMA StepExtends ==
  ASSUME SortTypeOK, SortStep
  PROVE  /\ UNCHANGED <<edges, sources>>
         /\ Len(out) <= Len(out')
         /\ \A i \in 1..Len(out) : out'[i] = out[i]
<1>1. CASE Close
  <2>1. Top \in Node /\ out \in Seq(Node)
    BY <1>1, TopLemma DEF Close, Popping, SortTypeOK
  <2> QED
    BY <1>1, <2>1, AppendLemma DEF Close
<1>2. CASE Open \/ FindCycle \/ Push \/ Skip \/ Exhaust
  <2>1. out' = out /\ UNCHANGED <<edges, sources>>
    BY <1>2 DEF Open, FindCycle, Push, Skip, Exhaust
  <2> QED
    BY <2>1 DEF SortTypeOK
<1> QED
  BY <1>1, <1>2 DEF SortStep

\* A sequence that follows the walk still does after a step of it.
LEMMA FollowsKept ==
  ASSUME SortTypeOK, SortStep, NEW s \in Seq(Node), Follows(s)
  PROVE  Len(s) <= Len(out') /\ \A i \in 1..Len(s) : s[i] = out'[i]
<1>1. out \in Seq(Node) /\ Len(out) \in Nat /\ Len(s) \in Nat
  BY DEF SortTypeOK
<1>2. out' \in Seq(Node) /\ Len(out') \in Nat
  <2>1. CASE Close
    BY <2>1, <1>1, TopLemma, AppendLemma DEF Close, Popping
  <2>2. CASE Open \/ FindCycle \/ Push \/ Skip \/ Exhaust
    BY <2>2, <1>1 DEF Open, FindCycle, Push, Skip, Exhaust
  <2> QED
    BY <2>1, <2>2 DEF SortStep
<1> QED
  BY <1>1, <1>2, StepExtends DEF Follows

\* The children of an emitted node have been emitted before it.
LEMMA EmittedBefore ==
  ASSUME SortInv, NEW i \in 1..Len(out), NEW u \in Children(out[i])
  PROVE  \E j \in 1..Len(out) : j < i /\ out[j] = u
BY DEF SortInv, SortTypeOK, ChildrenFirst

\* A walk stays within a set of nodes that holds its sources and is closed
\* under children.
LEMMA StaysWithin ==
  ASSUME SortInv, NEW S \in SUBSET Node, ToSet(sources) \subseteq S,
         \A v \in S : Children(v) \subseteq S
  PROVE  ToSet(out) \subseteq S
<1>1. ClosedSet(S)
  BY DEF ClosedSet, ToSet
<1>2. Reached(S)
  BY <1>1 DEF SortInv, AllReached
<1> QED
  BY <1>2 DEF Reached, ToSet

\* When it is done it has emitted its sources, and with each node its children.
LEMMA DoneEmits ==
  ASSUME SortInv, verdict = "done"
  PROVE  /\ ToSet(sources) \subseteq ToSet(out)
         /\ \A v \in ToSet(out) : Children(v) \subseteq ToSet(out)
BY InvComplete DEF EmitsReachable, Emitted, ToSet

\* What is emitted is emitted once.
LEMMA EmittedOnce ==
  ASSUME SortInv
  PROVE  IsInjective(out)
BY DEF SortInv, ChildrenFirst, IsInjective

\* A walk over some of the tests finds no cycle if their dependencies can be
\* ranked.
LEMMA NoCycle ==
  ASSUME SortInv, NEW f \in [Node -> Nat],
         \A v \in Node : \A u \in ToSet(DependsOn[v]) : f[u] < f[v],
         \A v \in Node : edges[v] = DependsOn[v] \/ edges[v] = <<>>
  PROVE  verdict # "cycle"
<1>1. Ranks(f)
  BY DEF Ranks, Children, ToSet
<1> QED
  BY <1>1 DEF SortInv, CycleUnranked

-----------------------------------------------------------------------------
(* The invariant *)

Phases == {"new", "error", "check", "fold", "accepted", "select", "check_jobs", "fold_jobs",
           "planned"}

ConfigTypeOK ==
  /\ file \in Configs
  /\ pc \in Phases
  /\ parsed \in Seq(Node)
  /\ covers \in [Node -> SUBSET Node]
  /\ command \in Commands \cup {"none"}
  /\ jobs \in Seq(Node)

\* What has been accepted has no cycle.
FileRanked ==
  \E f \in [Node -> Nat] : \A v \in Node : \A u \in ToSet(DependsOn[v]) : f[u] < f[v]

\* What the walk of each phase goes over.
GraphOfPhase ==
  /\ pc \in {"check", "fold", "accepted", "select"} => edges = DependsOn
  /\ pc \in {"check", "fold"} => sources = Names
  /\ pc = "select" => sources = <<target>>
  /\ pc \in {"check_jobs", "fold_jobs", "planned"} =>
       \A v \in Node : edges[v] = DependsOn[v] \/ edges[v] = <<>>
  /\ pc \in {"check_jobs", "fold_jobs"} =>
       /\ edges = Adjacency(sources, DependsOn)
       /\ DagAccepts(sources, DependsOn)
       /\ ToSet(sources) = JobsFor

Accepted ==
  /\ pc \notin {"new", "check", "error"} => FileRanked
  /\ pc = "new" => verdict = "running"

\* The fold of the file: it keeps pace with its walk, and every test parsed
\* covers what it depends on.
Parsing ==
  /\ pc \in {"new", "check"} => parsed = <<>>
  /\ pc = "fold" => Follows(parsed)
  /\ \A t \in ToSet(parsed) : covers[t] = Descendants(t)

\* The same of the jobs.
Building ==
  /\ pc \notin {"fold_jobs", "planned", "error"} => jobs = <<>>
  /\ pc = "fold_jobs" => Follows(jobs)
  /\ pc = "planned" => ToSet(jobs) = JobsFor
  /\ pc = "select" => target \in Node /\ command \in {"test", "get_run"}

ConfigInv ==
  /\ SortInv
  /\ ConfigTypeOK
  /\ GraphOfPhase
  /\ Accepted
  /\ Parsing
  /\ Building

\* No walk finds a cycle once the file has been accepted.
LEMMA NoLaterCycle ==
  ASSUME ConfigInv, pc \notin {"check", "error"}
  PROVE  verdict # "cycle"
<1>1. CASE pc = "new"
  BY <1>1 DEF ConfigInv, Accepted
<1>2. CASE pc # "new"
  <2>1. \A v \in Node : edges[v] = DependsOn[v] \/ edges[v] = <<>>
    BY <1>2 DEF ConfigInv, GraphOfPhase, ConfigTypeOK, Phases
  <2>2. PICK f \in [Node -> Nat] : \A v \in Node : \A u \in ToSet(DependsOn[v]) : f[u] < f[v]
    BY <1>2 DEF ConfigInv, Accepted, FileRanked
  <2> QED
    BY <2>1, <2>2, NoCycle DEF ConfigInv
<1> QED
  BY <1>1, <1>2

-----------------------------------------------------------------------------
(* Steps *)

\* What is said of the file stays true while the file stays.
LEMMA FileKept ==
  ASSUME file' = file
  PROVE  /\ Names' = Names
         /\ DependsOn' = DependsOn
         /\ \A t \in Node : Descendants(t)' = Descendants(t)
<1>1. Names' = Names /\ \A t : TestNamed(t)' = TestNamed(t)
  BY DEF Names, NamesOf, TestNamed
<1>2. DependsOn' = DependsOn
  BY <1>1 DEF DependsOn
<1> QED
  BY <1>1, <1>2 DEF Descendants

\* TopologicalSort::new brings about the invariant of the walk.
LEMMA StartHolds ==
  ASSUME NEW e \in [Node -> Seq(Node)], NEW s \in Seq(Node), StartSort(e, s)
  PROVE  SortInv'
<1>1. SortInit' => SortInv'
  BY InitHolds, PTL
<1>2. SortInit'
  BY DEF SortInit, StartSort
<1> QED
  BY <1>1, <1>2

\* The tests a command runs are the same as long as the command is.
LEMMA JobsForKept ==
  ASSUME file' = file, command' = command, target' = target
  PROVE  JobsFor' = JobsFor
BY FileKept DEF JobsFor, Descendants

\* An error ends it all.
LEMMA FailKeeps ==
  ASSUME ConfigInv, Fail
  PROVE  ConfigInv'
<1>1. SortInv'
  BY SortInvKept DEF Fail, ConfigInv
<1>2. ConfigTypeOK'
  BY DEF Fail, ConfigInv, ConfigTypeOK, Phases
<1>3. GraphOfPhase' /\ Accepted' /\ Building'
  BY DEF Fail, GraphOfPhase, Accepted, Building
<1>4. Parsing'
  <2>1. \A t \in ToSet(parsed) : t \in Node
    BY ToSetLemma DEF ConfigInv, ConfigTypeOK
  <2> QED
    BY <2>1, FileKept DEF Fail, ConfigInv, Parsing
<1> QED
  BY <1>1, <1>2, <1>3, <1>4 DEF ConfigInv

\* Dag::new accepts the file's tests and starts to look for cycles.
LEMMA NewDagKeeps ==
  ASSUME ConfigInv, NewDag
  PROVE  ConfigInv'
<1>0. /\ file \in Configs /\ file' = file
      /\ pc = "new" /\ pc' = "check"
      /\ UNCHANGED <<parsed, covers, command, jobs>>
      /\ StartSort(DependsOn, Names)
  BY AdjacencyLemma, FileTypes DEF NewDag, ConfigInv, ConfigTypeOK
<1>1. SortInv'
  BY <1>0, FileTypes, StartHolds
<1>2. ConfigTypeOK'
  BY <1>0 DEF ConfigInv, ConfigTypeOK, Phases
<1>3. GraphOfPhase'
  BY <1>0, FileKept DEF StartSort, GraphOfPhase
<1>4. Accepted'
  BY <1>0 DEF StartSort, Accepted
<1>5. Parsing'
  BY <1>0 DEF ConfigInv, Parsing, ToSet
<1>6. Building'
  BY <1>0 DEF ConfigInv, Building
<1> QED
  BY <1>1, <1>2, <1>3, <1>4, <1>5, <1>6 DEF ConfigInv

\* There is none: the file is folded.
LEMMA FoldKeeps ==
  ASSUME ConfigInv, Fold
  PROVE  ConfigInv'
<1>0. /\ file \in Configs /\ file' = file
      /\ pc = "check" /\ pc' = "fold" /\ verdict = "done"
      /\ UNCHANGED <<parsed, covers, command, jobs>>
      /\ edges = DependsOn /\ sources = Names
      /\ parsed = <<>>
      /\ StartSort(DependsOn, Names)
  BY DEF Fold, ConfigInv, ConfigTypeOK, GraphOfPhase, Parsing
<1>1. SortInv'
  BY <1>0, FileTypes, StartHolds
<1>2. ConfigTypeOK'
  BY <1>0 DEF ConfigInv, ConfigTypeOK, Phases
<1>3. GraphOfPhase'
  BY <1>0, FileKept DEF StartSort, GraphOfPhase
<1>4. Accepted'
  <2>1. \A v \in Node : edges[v] = <<>> \/ \E i \in DOMAIN sources : sources[i] = v
    BY <1>0 DEF DependsOn, ToSet
  <2>2. Acyclic
    BY <1>0, <2>1, InvVerdict DEF ConfigInv, VerdictRight
  <2>3. PICK f \in [Node -> 0..Cardinality(Node)] : Ranks(f)
    BY <2>2 DEF Acyclic
  <2>4. f \in [Node -> Nat]
    BY <2>3, FS_CardinalityType, NodeAssumption
  <2>5. FileRanked
    BY <1>0, <2>3, <2>4 DEF FileRanked, Ranks, Children, ToSet
  <2>6. FileRanked'
    BY <2>5, <1>0, FileKept DEF FileRanked
  <2> QED
    BY <1>0, <2>6 DEF Accepted
<1>5. Parsing'
  BY <1>0 DEF StartSort, Parsing, Follows, ToSet
<1>6. Building'
  BY <1>0 DEF ConfigInv, Building
<1> QED
  BY <1>1, <1>2, <1>3, <1>4, <1>5, <1>6 DEF ConfigInv

\* A step of the present walk.
LEMMA WalkKeeps ==
  ASSUME ConfigInv, Walk
  PROVE  ConfigInv'
<1>0. /\ SortStep /\ SortInv /\ SortTypeOK
      /\ UNCHANGED <<file, pc, parsed, covers, command, target, jobs>>
      /\ UNCHANGED <<edges, sources>>
      /\ pc \in {"check", "fold", "select", "check_jobs", "fold_jobs"}
  BY StepExtends DEF Walk, configVars, ConfigInv, SortInv
<1>f. Names' = Names /\ DependsOn' = DependsOn /\ JobsFor' = JobsFor
  BY <1>0, FileKept, JobsForKept
<1>1. SortInv'
  BY <1>0, SortInvKept
<1>2. ConfigTypeOK'
  BY <1>0 DEF ConfigInv, ConfigTypeOK
<1>3. GraphOfPhase'
  <2>1. DagAccepts(sources, DependsOn)' = DagAccepts(sources, DependsOn)
    BY <1>0, <1>f DEF DagAccepts
  <2>2. Adjacency(sources, DependsOn)' = Adjacency(sources, DependsOn)
    BY <1>0, <1>f DEF Adjacency
  <2> QED
    BY <1>0, <1>f, <2>1, <2>2 DEF ConfigInv, GraphOfPhase
<1>4. Accepted'
  BY <1>0, <1>f DEF ConfigInv, Accepted, FileRanked
<1>5. Parsing'
  <2>1. \A t \in ToSet(parsed) : t \in Node
    BY ToSetLemma DEF ConfigInv, ConfigTypeOK
  <2>2. \A t \in ToSet(parsed)' : covers'[t] = Descendants(t)'
    BY <1>0, <2>1, FileKept DEF ConfigInv, Parsing
  <2>3. pc = "fold" => Follows(parsed)'
    <3> SUFFICES ASSUME pc = "fold" PROVE Follows(parsed)'
      OBVIOUS
    <3>1. Follows(parsed) /\ parsed \in Seq(Node)
      BY DEF ConfigInv, Parsing, ConfigTypeOK
    <3>2. Len(parsed) <= Len(out') /\ \A i \in 1..Len(parsed) : parsed[i] = out'[i]
      BY <1>0, <3>1, FollowsKept
    <3> QED
      BY <3>2, <1>0 DEF Follows
  <2> QED
    BY <1>0, <2>2, <2>3 DEF ConfigInv, Parsing
<1>6. Building'
  <2>1. pc = "fold_jobs" => Follows(jobs)'
    <3> SUFFICES ASSUME pc = "fold_jobs" PROVE Follows(jobs)'
      OBVIOUS
    <3>1. Follows(jobs) /\ jobs \in Seq(Node)
      BY DEF ConfigInv, Building, ConfigTypeOK
    <3>2. Len(jobs) <= Len(out') /\ \A i \in 1..Len(jobs) : jobs[i] = out'[i]
      BY <1>0, <3>1, FollowsKept
    <3> QED
      BY <3>2, <1>0 DEF Follows
  <2> QED
    BY <1>0, <2>1 DEF ConfigInv, Building
<1> QED
  BY <1>1, <1>2, <1>3, <1>4, <1>5, <1>6 DEF ConfigInv

\* A test's hash takes in those of its dependencies, which cover what those
\* depend on.
LEMMA ParseKeeps ==
  ASSUME ConfigInv, Parse
  PROVE  ConfigInv'
<1> DEFINE t == ParseNext
<1>0. /\ UNCHANGED <<file, pc, command, target, jobs, sortVars>>
      /\ pc = "fold" /\ Len(parsed) < Len(out)
      /\ DepsParsed(t)
      /\ covers' = [covers EXCEPT ![t] = Hashed(t)]
      /\ parsed' = Append(parsed, t)
      /\ Follows(parsed)
      /\ file \in Configs /\ parsed \in Seq(Node) /\ out \in Seq(Node)
      /\ covers \in [Node -> SUBSET Node]
  BY DEF Parse, CanParse, ConfigInv, Parsing, ConfigTypeOK, SortInv, SortTypeOK
<1>t. t \in Node /\ Len(parsed) \in Nat
  BY <1>0 DEF ParseNext
<1>1. SortInv'
  BY <1>0, SortInvKept DEF ConfigInv
<1>h. Hashed(t) = Descendants(t)
  <2>1. \A d \in ToSet(DependsOn[t]) : covers[d] = Descendants(d)
    BY <1>0 DEF DepsParsed, ConfigInv, Parsing
  <2> QED
    BY <2>1, <1>0, <1>t, DescendantsUnfold DEF Hashed
<1>2. ConfigTypeOK'
  <2>1. Hashed(t) \in SUBSET Node
    BY <1>h DEF Descendants
  <2>2. parsed' \in Seq(Node) /\ covers' \in [Node -> SUBSET Node]
    BY <2>1, <1>0, <1>t
  <2> QED
    BY <2>2, <1>0 DEF ConfigInv, ConfigTypeOK
<1>3. GraphOfPhase'
  BY <1>0, FileKept DEF ConfigInv, GraphOfPhase, sortVars
<1>4. Accepted'
  BY <1>0, FileKept DEF ConfigInv, Accepted, FileRanked, sortVars
<1>5. Parsing'
  <2>1. ToSet(parsed') = ToSet(parsed) \cup {t}
    BY <1>0, <1>t, AppendToSet
  <2>2. \A u \in ToSet(parsed)' : u \in Node /\ covers'[u] = Descendants(u)
    BY <2>1, <1>0, <1>t, <1>h, ToSetLemma DEF ConfigInv, Parsing
  <2>3. Follows(parsed)'
    <3> HIDE DEF t
    <3>1. Len(parsed') = Len(parsed) + 1
      BY <1>0, <1>t, AppendLemma
    <3>2. \A i \in 1..Len(parsed) : parsed'[i] = out[i]
      BY <1>0, <1>t, AppendLemma DEF Follows
    <3>3. parsed'[Len(parsed) + 1] = out[Len(parsed) + 1]
      BY <1>0, <1>t, AppendLemma DEF t, ParseNext
    <3>4. Len(out) \in Nat /\ out' = out
      BY <1>0 DEF sortVars
    <3> QED
      BY <3>1, <3>2, <3>3, <3>4, <1>0, <1>t DEF Follows
  <2> QED
    BY <2>2, <2>3, <1>0, FileKept DEF Parsing
<1>6. Building'
  BY <1>0 DEF ConfigInv, Building
<1> QED
  BY <1>1, <1>2, <1>3, <1>4, <1>5, <1>6 DEF ConfigInv

\* The file is accepted.
LEMMA AcceptKeeps ==
  ASSUME ConfigInv, Accept
  PROVE  ConfigInv'
<1>0. /\ UNCHANGED <<file, parsed, covers, command, target, jobs, sortVars>>
      /\ pc = "fold" /\ pc' = "accepted"
  BY DEF Accept, FoldEnds
<1>1. SortInv'
  BY <1>0, SortInvKept DEF ConfigInv
<1>2. ConfigTypeOK'
  BY <1>0 DEF ConfigInv, ConfigTypeOK, Phases
<1>3. GraphOfPhase' /\ Accepted' /\ Building'
  BY <1>0, FileKept DEF ConfigInv, GraphOfPhase, Accepted, FileRanked, Building, sortVars
<1>4. Parsing'
  <2>1. \A t \in ToSet(parsed) : t \in Node
    BY ToSetLemma DEF ConfigInv, ConfigTypeOK
  <2> QED
    BY <1>0, <2>1, FileKept DEF ConfigInv, Parsing
<1> QED
  BY <1>1, <1>2, <1>3, <1>4 DEF ConfigInv

\* A command that needs no walk is planned at once, the others select.
LEMMA DispatchKeeps ==
  ASSUME ConfigInv, Dispatch
  PROVE  ConfigInv'
<1>0. /\ UNCHANGED <<file, parsed, covers, jobs>>
      /\ file \in Configs /\ parsed \in Seq(Node)
      /\ pc = "accepted" /\ edges = DependsOn /\ jobs = <<>>
      /\ command' \in Commands
      /\ edges \in [Node -> Seq(Node)]
  BY DEF Dispatch, ConfigInv, ConfigTypeOK, GraphOfPhase, Building, SortInv, SortTypeOK
<1>t. \A t \in ToSet(parsed) : t \in Node
  BY <1>0, ToSetLemma
<1>p. \A t \in ToSet(parsed)' : covers'[t] = Descendants(t)'
  BY <1>0, <1>t, FileKept DEF ConfigInv, Parsing
<1>r. FileRanked'
  BY <1>0, FileKept DEF ConfigInv, Accepted, FileRanked
<1>1. CASE pc' = "planned" /\ command' \in {"watch", "get"} /\ UNCHANGED sortVars
  <2>1. SortInv'
    BY <1>1, SortInvKept DEF ConfigInv
  <2>2. ConfigTypeOK'
    BY <1>0, <1>1 DEF ConfigInv, ConfigTypeOK, Phases
  <2>3. GraphOfPhase' /\ Accepted' /\ Parsing'
    BY <1>0, <1>1, <1>p, <1>r, FileKept DEF GraphOfPhase, Accepted, Parsing, sortVars
  <2>4. Building'
    BY <1>0, <1>1 DEF Building, JobsFor, ToSet
  <2> QED
    BY <2>1, <2>2, <2>3, <2>4 DEF ConfigInv
<1>2. CASE /\ pc' = "select" /\ command' \in {"test", "get_run"} /\ target' \in ToSet(parsed)
           /\ StartSort(edges, <<target'>>)
  <2>0. target' \in Node /\ <<target'>> \in Seq(Node)
    BY <1>2, <1>t
  <2>1. SortInv'
    BY <1>0, <1>2, <2>0, StartHolds
  <2>2. ConfigTypeOK'
    BY <1>0, <1>2 DEF ConfigInv, ConfigTypeOK, Phases
  <2>3. GraphOfPhase' /\ Accepted' /\ Parsing'
    BY <1>0, <1>2, <1>p, <1>r, FileKept DEF GraphOfPhase, Accepted, Parsing, StartSort
  <2>4. Building'
    BY <1>0, <1>2, <2>0 DEF Building
  <2> QED
    BY <2>1, <2>2, <2>3, <2>4 DEF ConfigInv
<1>3. CASE pc' = "error" /\ UNCHANGED sortVars
  <2>1. SortInv'
    BY <1>3, SortInvKept DEF ConfigInv
  <2>2. ConfigTypeOK'
    BY <1>0, <1>3 DEF ConfigInv, ConfigTypeOK, Phases
  <2>3. GraphOfPhase' /\ Accepted' /\ Parsing' /\ Building'
    BY <1>3, <1>p DEF GraphOfPhase, Accepted, Parsing, Building
  <2> QED
    BY <2>1, <2>2, <2>3 DEF ConfigInv
<1> QED
  BY <1>1, <1>2, <1>3 DEF Dispatch, Commands

\* The walk from the target ends with the target, having emitted what it
\* depends on.
LEMMA TargetLast ==
  ASSUME ConfigInv, pc = "select", verdict = "done"
  PROVE  /\ ToSet(out) = Descendants(target)
         /\ out # <<>> /\ out[Len(out)] = target
<1>0. /\ SortInv /\ edges = DependsOn /\ sources = <<target>> /\ target \in Node
      /\ out \in Seq(Node) /\ edges \in [Node -> Seq(Node)]
  BY DEF ConfigInv, GraphOfPhase, Building, SortInv, SortTypeOK
<1>1. \A v \in Node : Children(v) = ToSet(DependsOn[v]) /\ Children(v) \subseteq Node
  BY <1>0, ToSetLemma DEF Children, ToSet
<1>2. ToSet(sources) = {target}
  BY <1>0 DEF ToSet
<1>3. target \in ToSet(out) /\ \A v \in ToSet(out) : Children(v) \subseteq ToSet(out)
  BY <1>0, <1>2, DoneEmits
<1>o. ToSet(out) \subseteq Node
  BY <1>0, ToSetLemma
<1>4. \A S \in SUBSET Node :
        target \in S /\ (\A v \in S : Children(v) \subseteq S) => ToSet(out) \subseteq S
  BY <1>0, <1>2, StaysWithin
<1>5. ToSet(out) = Descendants(target)
  <2>1. Descendants(target) \subseteq ToSet(out)
    <3>1. \A v \in ToSet(out) : ToSet(DependsOn[v]) \subseteq ToSet(out)
      BY <1>1, <1>3, <1>o
    <3> QED
      BY <3>1, <1>3, <1>o DEF Descendants
  <2>2. ToSet(out) \subseteq Descendants(target)
    BY <1>1, <1>4, <1>o DEF Descendants
  <2> QED
    BY <2>1, <2>2
<1>6. PICK k \in 1..Len(out) : out[k] = target
  BY <1>0, <1>3, ToSetLemma
<1>7. ToSet(out) \subseteq {out[i] : i \in 1..k}
  <2> DEFINE S == {out[i] : i \in 1..k}
  <2>1. S \subseteq Node /\ target \in S
    BY <1>0, <1>6
  <2>2. ASSUME NEW v \in S, NEW u \in Children(v) PROVE u \in S
    <3>1. PICK i \in 1..k : out[i] = v
      OBVIOUS
    <3>2. i \in 1..Len(out) /\ i <= k
      BY <1>0
    <3>3. PICK j \in 1..Len(out) : j < i /\ out[j] = u
      BY <1>0, <3>1, <3>2, EmittedBefore
    <3>4. j \in 1..k
      BY <3>2, <3>3
    <3> QED
      BY <3>3, <3>4
  <2> HIDE DEF S
  <2> QED
    BY <2>1, <2>2, <1>4 DEF S
<1>8. Len(out) \in 1..Len(out) /\ Len(out) \in Nat
  BY <1>0, <1>6
<1>9. PICK i \in 1..k : out[i] = out[Len(out)]
  <2>1. out[Len(out)] \in ToSet(out)
    BY <1>0, <1>8, ToSetLemma
  <2> QED
    BY <2>1, <1>7
<1>10. i = Len(out)
  BY <1>0, <1>6, <1>8, <1>9, EmittedOnce DEF IsInjective
<1>11. k = Len(out)
  BY <1>6, <1>8, <1>9, <1>10
<1> QED
  BY <1>0, <1>5, <1>6, <1>8, <1>11

\* top_down_from, skip(1) included, yields the tests the command wants, in an
\* order of which Dag::new finds nothing to refuse.
LEMMA SelectedRight ==
  ASSUME ConfigInv, pc = "select", verdict = "done"
  PROVE  /\ Selected \in Seq(Node)
         /\ DagAccepts(Selected, DependsOn)
         /\ ToSet(Selected) = JobsFor
<1>0. /\ SortInv /\ edges = DependsOn /\ target \in Node
      /\ out \in Seq(Node) /\ edges \in [Node -> Seq(Node)]
      /\ command \in {"test", "get_run"}
  BY DEF ConfigInv, GraphOfPhase, Building, SortInv, SortTypeOK
<1> DEFINE n == Len(out)
<1>1. /\ ToSet(out) = Descendants(target)
      /\ out # <<>> /\ out[n] = target
      /\ n \in Nat \ {0} /\ DOMAIN out = 1..n
  BY <1>0, TargetLast
<1>2. \A v \in Node : Children(v) = ToSet(DependsOn[v])
  BY <1>0 DEF Children, ToSet
<1>3. \A i, j \in 1..n : out[i] = out[j] => i = j
  BY <1>0, <1>1, EmittedOnce DEF IsInjective
<1>4. \A i \in 1..n : out[i] \in Node
  BY <1>0, <1>1
<1>5. \A i \in 1..n : \A u \in ToSet(DependsOn[out[i]]) : \E j \in 1..n : j < i /\ out[j] = u
  BY <1>0, <1>2, <1>4, EmittedBefore
<1>6. CASE command = "get_run"
  <2> DEFINE r == Reverse(out)
  <2>1. /\ r \in Seq(Node) /\ DOMAIN r = 1..n
        /\ \A i \in 1..n : r[i] = out[n - i + 1]
    BY <1>0, ReverseLemma
  <2> HIDE DEF r
  <2>2. ToSet(r) = ToSet(out)
    <3>1. \A i \in 1..n : n - i + 1 \in 1..n /\ r[i] = out[n - i + 1] /\ out[i] = r[n - i + 1]
      BY <1>1, <2>1
    <3> QED
      BY <1>1, <2>1, <3>1 DEF ToSet
  <2>3. IsInjective(r)
    BY <1>1, <1>3, <2>1 DEF IsInjective
  <2>4. \A t \in ToSet(r) : ToSet(DependsOn[t]) \subseteq ToSet(r)
    <3> SUFFICES ASSUME NEW t \in ToSet(out), NEW u \in ToSet(DependsOn[t]) PROVE u \in ToSet(out)
      BY <2>2
    <3>1. PICK i \in 1..n : out[i] = t
      BY <1>0, ToSetLemma
    <3>2. PICK j \in 1..n : out[j] = u
      BY <1>5, <3>1
    <3> QED
      BY <1>0, <3>2, ToSetLemma
  <2>5. Selected = r
    BY <1>6 DEF Selected, r
  <2>6. JobsFor = Descendants(target)
    BY <1>6 DEF JobsFor
  <2> QED
    BY <2>1, <2>2, <2>3, <2>4, <2>5, <2>6, <1>1 DEF DagAccepts
<1>7. CASE command = "test"
  <2> DEFINE r == Tail(Reverse(out))
  <2>1. /\ r \in Seq(Node) /\ DOMAIN r = 1..(n - 1)
        /\ \A i \in 1..(n - 1) : r[i] = out[n - i]
    BY <1>0, <1>1, ReverseLemma
  <2> HIDE DEF r
  <2>2. ToSet(r) = {out[i] : i \in 1..(n - 1)}
    <3>1. \A i \in 1..(n - 1) : n - i \in 1..(n - 1) /\ r[i] = out[n - i] /\ out[i] = r[n - i]
      BY <1>1, <2>1
    <3>2. ToSet(r) = {r[i] : i \in 1..(n - 1)}
      BY <2>1 DEF ToSet
    <3> HIDE DEF n
    <3> QED
      BY <3>1, <3>2
  <2>3. IsInjective(r)
    BY <1>1, <1>3, <2>1 DEF IsInjective
  <2>4. ASSUME NEW t \in ToSet(r), NEW u \in ToSet(DependsOn[t]) PROVE u \in ToSet(r)
    <3>1. PICK i \in 1..(n - 1) : out[i] = t
      BY <2>2
    <3>2. i \in 1..n
      BY <1>1
    <3>3. PICK j \in 1..n : j < i /\ out[j] = u
      BY <1>5, <3>1, <3>2
    <3>4. j \in 1..(n - 1)
      BY <1>1, <3>2, <3>3
    <3> QED
      BY <2>2, <3>3, <3>4
  <2>5. Selected = r
    BY <1>7 DEF Selected, r
  <2>6. ToSet(r) = ToSet(out) \ {target}
    <3>1. ASSUME NEW i \in 1..(n - 1) PROVE i \in 1..n /\ out[i] # target
      BY <1>1, <1>3
    <3>2. ASSUME NEW i \in 1..n, out[i] # target PROVE i \in 1..(n - 1)
      BY <1>1, <3>2
    <3> QED
      BY <1>1, <2>2, <3>1, <3>2 DEF ToSet
  <2>7. JobsFor = Descendants(target) \ {target}
    BY <1>7 DEF JobsFor
  <2> QED
    BY <2>1, <2>3, <2>4, <2>5, <2>6, <2>7, <1>1 DEF DagAccepts
<1> QED
  BY <1>0, <1>6, <1>7

\* A Dag of the selected tests is made, unless there are none.
LEMMA SelectKeeps ==
  ASSUME ConfigInv, Select
  PROVE  ConfigInv'
<1>0. /\ UNCHANGED <<file, parsed, covers, command, target, jobs>>
      /\ file \in Configs /\ parsed \in Seq(Node)
      /\ pc = "select" /\ verdict = "done"
      /\ edges = DependsOn /\ jobs = <<>>
  BY DEF Select, ConfigInv, ConfigTypeOK, GraphOfPhase, Building
<1>s. Selected \in Seq(Node) /\ DagAccepts(Selected, DependsOn) /\ ToSet(Selected) = JobsFor
  BY <1>0, SelectedRight
<1>f. DependsOn' = DependsOn /\ JobsFor' = JobsFor
  BY <1>0, FileKept, JobsForKept
<1>p. \A t \in ToSet(parsed)' : covers'[t] = Descendants(t)'
  <2>1. \A t \in ToSet(parsed) : t \in Node
    BY <1>0, ToSetLemma
  <2> QED
    BY <1>0, <2>1, FileKept DEF ConfigInv, Parsing
<1>r. FileRanked'
  BY <1>0, <1>f DEF ConfigInv, Accepted, FileRanked
<1>1. CASE Selected = <<>> /\ pc' = "planned" /\ UNCHANGED sortVars
  <2>1. SortInv'
    BY <1>1, SortInvKept DEF ConfigInv
  <2>2. ConfigTypeOK'
    BY <1>0, <1>1 DEF ConfigInv, ConfigTypeOK, Phases
  <2>3. GraphOfPhase' /\ Accepted' /\ Parsing'
    BY <1>0, <1>1, <1>p, <1>r, <1>f DEF GraphOfPhase, Accepted, Parsing, sortVars
  <2>4. Building'
    BY <1>0, <1>1, <1>s, <1>f DEF Building, ToSet
  <2> QED
    BY <2>1, <2>2, <2>3, <2>4 DEF ConfigInv
<1>2. CASE pc' = "check_jobs" /\ StartSort(Adjacency(Selected, DependsOn), Selected)
  <2> DEFINE s == Selected
             e == Adjacency(s, DependsOn)
  <2>0. /\ s \in Seq(Node) /\ e \in [Node -> Seq(Node)]
        /\ \A t \in ToSet(s) : e[t] = DependsOn[t]
        /\ \A t \in Node \ ToSet(s) : e[t] = <<>>
    BY <1>0, <1>s, AdjacencyLemma
  <2>e. sources' = s /\ edges' = e
    BY <1>2 DEF StartSort
  <2>1. SortInv'
    BY <1>2, <2>0, StartHolds
  <2>2. ConfigTypeOK'
    BY <1>0, <1>2 DEF ConfigInv, ConfigTypeOK, Phases
  <2>3. GraphOfPhase'
    <3> HIDE DEF s, e
    <3>1. edges' = Adjacency(sources', DependsOn)
      BY <2>e DEF e
    <3>2. Adjacency(sources, DependsOn)' = Adjacency(sources', DependsOn)
      BY <1>f DEF Adjacency
    <3>3. DagAccepts(sources, DependsOn)' /\ ToSet(sources)' = JobsFor'
      BY <1>s, <1>f, <2>e DEF DagAccepts, s
    <3>4. \A v \in Node : edges'[v] = DependsOn'[v] \/ edges'[v] = <<>>
      BY <2>0, <2>e, <1>f
    <3> QED
      BY <1>2, <3>1, <3>2, <3>3, <3>4 DEF GraphOfPhase
  <2>4. Accepted' /\ Parsing'
    BY <1>0, <1>2, <1>p, <1>r DEF Accepted, Parsing
  <2>5. Building'
    BY <1>0, <1>2 DEF Building
  <2> QED
    BY <2>1, <2>2, <2>3, <2>4, <2>5 DEF ConfigInv
<1> QED
  BY <1>1, <1>2 DEF Select

\* The same Dag is folded.
LEMMA FoldJobsKeeps ==
  ASSUME ConfigInv, FoldJobs
  PROVE  ConfigInv'
<1>0. /\ UNCHANGED <<file, parsed, covers, command, target, jobs>>
      /\ file \in Configs /\ parsed \in Seq(Node)
      /\ pc = "check_jobs" /\ pc' = "fold_jobs"
      /\ StartSort(edges, sources)
      /\ edges' = edges /\ sources' = sources
      /\ edges \in [Node -> Seq(Node)] /\ sources \in Seq(Node)
      /\ jobs = <<>>
  BY DEF FoldJobs, StartSort, ConfigInv, ConfigTypeOK, Building, SortInv, SortTypeOK
<1>f. DependsOn' = DependsOn /\ JobsFor' = JobsFor
  BY <1>0, FileKept, JobsForKept
<1>1. SortInv'
  BY <1>0, StartHolds
<1>2. ConfigTypeOK'
  BY <1>0 DEF ConfigInv, ConfigTypeOK, Phases
<1>3. GraphOfPhase'
  BY <1>0, <1>f DEF ConfigInv, GraphOfPhase, Adjacency, DagAccepts
<1>4. Accepted'
  BY <1>0, <1>f DEF ConfigInv, Accepted, FileRanked
<1>5. Parsing'
  <2>1. \A t \in ToSet(parsed) : t \in Node
    BY <1>0, ToSetLemma
  <2> QED
    BY <1>0, <2>1, FileKept DEF ConfigInv, Parsing
<1>6. Building'
  BY <1>0 DEF StartSort, Building, Follows
<1> QED
  BY <1>1, <1>2, <1>3, <1>4, <1>5, <1>6 DEF ConfigInv

\* One more job keeps pace with the walk.
LEMMA BuildJobKeeps ==
  ASSUME ConfigInv, BuildJob
  PROVE  ConfigInv'
<1> DEFINE t == JobNext
<1>0. /\ UNCHANGED <<file, pc, parsed, covers, command, target, sortVars>>
      /\ UNCHANGED <<edges, sources, out>>
      /\ pc = "fold_jobs" /\ Len(jobs) < Len(out)
      /\ jobs' = Append(jobs, t)
      /\ Follows(jobs)
      /\ jobs \in Seq(Node) /\ out \in Seq(Node) /\ parsed \in Seq(Node)
  BY DEF BuildJob, CanBuild, sortVars, ConfigInv, Building, ConfigTypeOK, SortInv, SortTypeOK
<1>t. t \in Node /\ Len(jobs) \in Nat /\ Len(out) \in Nat
  BY <1>0 DEF JobNext
<1>f. DependsOn' = DependsOn /\ JobsFor' = JobsFor
  BY <1>0, FileKept, JobsForKept
<1>1. SortInv'
  BY <1>0, SortInvKept DEF ConfigInv
<1>2. ConfigTypeOK'
  BY <1>0, <1>t DEF ConfigInv, ConfigTypeOK
<1>3. GraphOfPhase'
  BY <1>0, <1>f DEF ConfigInv, GraphOfPhase, Adjacency, DagAccepts
<1>4. Accepted'
  BY <1>0, <1>f DEF ConfigInv, Accepted, FileRanked
<1>5. Parsing'
  <2>1. \A u \in ToSet(parsed) : u \in Node
    BY <1>0, ToSetLemma
  <2> QED
    BY <1>0, <2>1, FileKept DEF ConfigInv, Parsing
<1>6. Building'
  <2> HIDE DEF t
  <2>1. Len(jobs') = Len(jobs) + 1
    BY <1>0, <1>t, AppendLemma
  <2>2. \A i \in 1..Len(jobs) : jobs'[i] = out[i]
    BY <1>0, <1>t, AppendLemma DEF Follows
  <2>3. jobs'[Len(jobs) + 1] = out[Len(jobs) + 1]
    BY <1>0, <1>t, AppendLemma DEF t, JobNext
  <2>4. Follows(jobs)'
    BY <2>1, <2>2, <2>3, <1>0, <1>t DEF Follows
  <2> QED
    BY <2>4, <1>0 DEF Building
<1> QED
  BY <1>1, <1>2, <1>3, <1>4, <1>5, <1>6 DEF ConfigInv

\* All jobs are built: they are those of the tests selected.
LEMMA PlannedKeeps ==
  ASSUME ConfigInv, Planned
  PROVE  ConfigInv'
<1>0. /\ UNCHANGED <<file, parsed, covers, command, target, jobs, sortVars>>
      /\ UNCHANGED <<edges, sources>>
      /\ pc = "fold_jobs" /\ pc' = "planned" /\ verdict = "done"
      /\ Len(jobs) = Len(out) /\ Follows(jobs)
      /\ jobs \in Seq(Node) /\ out \in Seq(Node) /\ parsed \in Seq(Node) /\ sources \in Seq(Node)
      /\ edges = Adjacency(sources, DependsOn) /\ DagAccepts(sources, DependsOn)
      /\ ToSet(sources) = JobsFor
      /\ file \in Configs
  BY DEF Planned, sortVars, ConfigInv, Building, ConfigTypeOK, SortInv, SortTypeOK, GraphOfPhase
<1>f. DependsOn' = DependsOn /\ JobsFor' = JobsFor
  BY <1>0, FileKept, JobsForKept
<1>1. SortInv'
  BY <1>0, SortInvKept DEF ConfigInv
<1>2. ConfigTypeOK'
  BY <1>0 DEF ConfigInv, ConfigTypeOK, Phases
<1>3. GraphOfPhase'
  BY <1>0, <1>f DEF ConfigInv, GraphOfPhase
<1>4. Accepted'
  BY <1>0, <1>f DEF ConfigInv, Accepted, FileRanked
<1>5. Parsing'
  <2>1. \A t \in ToSet(parsed) : t \in Node
    BY <1>0, ToSetLemma
  <2> QED
    BY <1>0, <2>1, FileKept DEF ConfigInv, Parsing
<1>6. ToSet(jobs) = JobsFor
  <2>1. jobs = out
    BY <1>0 DEF Follows
  <2>2. ToSet(sources) \subseteq Node
    BY <1>0, ToSetLemma
  <2>3. ASSUME NEW v \in ToSet(sources) PROVE Children(v) \subseteq ToSet(sources)
    <3>1. edges[v] = DependsOn[v]
      BY <1>0, AdjacencyLemma
    <3>2. Children(v) = ToSet(DependsOn[v])
      BY <3>1 DEF Children, ToSet
    <3> QED
      BY <1>0, <3>2 DEF DagAccepts
  <2>4. ToSet(out) \subseteq ToSet(sources)
    BY <2>2, <2>3, StaysWithin DEF ConfigInv
  <2>5. ToSet(sources) \subseteq ToSet(out)
    BY <1>0, DoneEmits DEF ConfigInv
  <2> QED
    BY <1>0, <2>1, <2>4, <2>5
<1>7. Building'
  BY <1>0, <1>6, <1>f DEF Building, ToSet
<1> QED
  BY <1>1, <1>2, <1>3, <1>4, <1>5, <1>7 DEF ConfigInv

-----------------------------------------------------------------------------
(* Theorems *)

\* The invariant holds before the file is read.
LEMMA ConfigInitHolds == ConfigInit => ConfigInv
<1> SUFFICES ASSUME ConfigInit PROVE ConfigInv
  OBVIOUS
<1>1. SortInv
  <2>1. SortInit
    BY DEF ConfigInit, SortInit
  <2> QED
    BY <2>1, InitHolds
<1>2. ConfigTypeOK
  BY DEF ConfigInit, ConfigTypeOK, Phases
<1>3. GraphOfPhase /\ Accepted /\ Parsing /\ Building
  BY DEF ConfigInit, GraphOfPhase, Accepted, Parsing, Building, ToSet
<1> QED
  BY <1>1, <1>2, <1>3 DEF ConfigInv

\* Every step keeps the invariant.
LEMMA PlanStepKeeps ==
  ASSUME ConfigInv, [PlanStep]_planVars
  PROVE  ConfigInv'
<1>1. CASE UNCHANGED planVars
  <2>0. UNCHANGED <<file, pc, parsed, covers, command, target, jobs>> /\ UNCHANGED sortVars
    BY <1>1 DEF planVars, sortVars
  <2>1. SortInv'
    BY <2>0, SortInvKept DEF ConfigInv
  <2>2. ConfigTypeOK'
    BY <2>0 DEF ConfigInv, ConfigTypeOK
  <2>f. Names' = Names /\ DependsOn' = DependsOn /\ JobsFor' = JobsFor
    BY <2>0, FileKept, JobsForKept
  <2>3. GraphOfPhase' /\ Accepted' /\ Building'
    BY <2>0, <2>f DEF ConfigInv, GraphOfPhase, Accepted, Building, FileRanked, sortVars,
                      DagAccepts, Adjacency, Follows
  <2>4. Parsing'
    <3>1. \A t \in ToSet(parsed) : t \in Node
      BY ToSetLemma DEF ConfigInv, ConfigTypeOK
    <3> QED
      BY <2>0, <3>1, FileKept DEF ConfigInv, Parsing, sortVars, Follows
  <2> QED
    BY <2>1, <2>2, <2>3, <2>4 DEF ConfigInv
<1>2. CASE NewDagFails \/ Cyclic \/ ParseFails \/ UndefinedResource
  BY <1>2, FailKeeps DEF NewDagFails, Cyclic, ParseFails, UndefinedResource
<1> QED
  BY <1>1, <1>2, NewDagKeeps, WalkKeeps, FoldKeeps, ParseKeeps, AcceptKeeps, DispatchKeeps,
     SelectKeeps, FoldJobsKeeps, BuildJobKeeps, PlannedKeeps DEF PlanStep

\* The configuration and the selection keep their invariant.
THEOREM ConfigInvariant == ConfigSpec => []ConfigInv
<1>1. ConfigInv /\ [PlanStep]_planVars => ConfigInv'
  BY PlanStepKeeps
<1> QED
  BY <1>1, ConfigInitHolds, PTL DEF ConfigSpec

\* In a state of the invariant nothing that is unwrapped is missing.
LEMMA InvPlanSound == ConfigInv => PlanSound
<1> SUFFICES ASSUME ConfigInv PROVE PlanSound
  OBVIOUS
<1>0. /\ SortInv /\ out \in Seq(Node) /\ edges \in [Node -> Seq(Node)] /\ sources \in Seq(Node)
      /\ file \in Configs /\ parsed \in Seq(Node) /\ jobs \in Seq(Node)
  BY DEF ConfigInv, SortInv, SortTypeOK, ConfigTypeOK
<1>1. ASSUME CanParse PROVE DepsParsed(ParseNext)
  <2> DEFINE n == Len(parsed) + 1
  <2>1. n \in 1..Len(out) /\ Follows(parsed) /\ edges = DependsOn
    BY <1>0, <1>1 DEF CanParse, ConfigInv, Parsing, GraphOfPhase
  <2>2. ASSUME NEW u \in ToSet(DependsOn[out[n]]) PROVE u \in ToSet(parsed)
    <3>1. u \in Children(out[n])
      BY <2>1 DEF Children, ToSet
    <3>2. PICK j \in 1..Len(out) : j < n /\ out[j] = u
      BY <1>0, <2>1, <3>1, EmittedBefore
    <3>3. j \in 1..Len(parsed) /\ parsed[j] = u
      BY <1>0, <2>1, <3>2 DEF Follows
    <3> QED
      BY <1>0, <3>3, ToSetLemma
  <2> QED
    BY <2>2 DEF DepsParsed, ParseNext
<1>2. ASSUME CanBuild PROVE DepsBuilt(JobNext)
  <2> DEFINE n == Len(jobs) + 1
  <2>1. /\ n \in 1..Len(out) /\ Follows(jobs)
        /\ edges = Adjacency(sources, DependsOn) /\ DagAccepts(sources, DependsOn)
    BY <1>0, <1>2 DEF CanBuild, ConfigInv, Building, GraphOfPhase
  <2>2. ToSet(sources) \subseteq Node /\ \A v \in ToSet(sources) : Children(v) \subseteq ToSet(sources)
    <3>1. ToSet(sources) \subseteq Node
      BY <1>0, ToSetLemma
    <3>2. ASSUME NEW v \in ToSet(sources) PROVE Children(v) \subseteq ToSet(sources)
      <4>1. edges[v] = DependsOn[v]
        BY <1>0, <2>1, AdjacencyLemma
      <4>2. Children(v) = ToSet(DependsOn[v])
        BY <4>1 DEF Children, ToSet
      <4> QED
        BY <2>1, <4>2 DEF DagAccepts
    <3> QED
      BY <3>1, <3>2
  <2>3. out[n] \in ToSet(sources)
    BY <1>0, <2>1, <2>2, StaysWithin, ToSetLemma
  <2>4. ASSUME NEW u \in ToSet(DependsOn[out[n]]) PROVE u \in ToSet(jobs)
    <3>0. edges[out[n]] = DependsOn[out[n]]
      BY <1>0, <2>1, <2>3, AdjacencyLemma
    <3>1. u \in Children(out[n])
      BY <2>4, <3>0 DEF Children, ToSet
    <3>2. PICK j \in 1..Len(out) : j < n /\ out[j] = u
      BY <1>0, <2>1, <3>1, EmittedBefore
    <3>3. j \in 1..Len(jobs) /\ jobs[j] = u
      BY <1>0, <2>1, <3>2 DEF Follows
    <3> QED
      BY <1>0, <3>3, ToSetLemma
  <2> QED
    BY <2>4 DEF DepsBuilt, JobNext
<1>3. verdict = "cycle" => pc \in {"check", "error"}
  BY NoLaterCycle
<1>4. pc = "select" /\ verdict = "done" => DagAccepts(Selected, DependsOn)
  BY SelectedRight
<1>5. pc = "planned" => ToSet(jobs) = JobsFor
  BY DEF ConfigInv, Building
<1> QED
  BY <1>1, <1>2, <1>3, <1>4, <1>5 DEF PlanSound

\* Nothing config.rs, main.rs and test.rs unwrap on the way from the file to
\* the jobs is missing, and the jobs are those the command asks for.
THEOREM PlanSoundHolds == ConfigSpec => []PlanSound
  BY ConfigInvariant, InvPlanSound, PTL

\* In a state of the invariant the hashes cover what they have to.
LEMMA InvHashCovers == ConfigInv => HashCovers
  BY DEF ConfigInv, Parsing, HashCovers

\* A test's configuration hash depends on the configuration of each test it
\* depends on, directly or not, and on no other's.
THEOREM HashCoversHolds == ConfigSpec => []HashCovers
  BY ConfigInvariant, InvHashCovers, PTL

-----------------------------------------------------------------------------
(* What the manager gets.  JobManager assumes that heights no greater than   *)
(* the number of tests can be given to them, such that a test is higher than *)
(* those it depends on (its AcyclicAssumption, for the tests of the file).   *)

HeightsExist ==
  \E height \in [Node -> 0..Cardinality(Node)] :
    \A t \in Node : \A d \in ToSet(DependsOn[t]) : height[d] < height[t]

\* A test is not among what its dependencies depend on, so that those have fewer
\* descendants.
LEMMA RankedHeights ==
  ASSUME file \in Configs, FileRanked
  PROVE  HeightsExist
<1>1. PICK f \in [Node -> Nat] : \A v \in Node : \A u \in ToSet(DependsOn[v]) : f[u] < f[v]
  BY DEF FileRanked
<1>2. \A v \in Node : ToSet(DependsOn[v]) \subseteq Node
  BY FileTypes, ToSetLemma
<1>3. \A v \in Node : Descendants(v) \subseteq Node /\ v \in Descendants(v)
  BY DEF Descendants
<1>4. /\ Cardinality(Node) \in Nat
      /\ \A v \in Node : /\ IsFiniteSet(Descendants(v))
                         /\ Cardinality(Descendants(v)) \in 0..Cardinality(Node)
  <2>1. Cardinality(Node) \in Nat
    BY NodeAssumption, FS_CardinalityType
  <2>2. ASSUME NEW v \in Node
        PROVE  /\ IsFiniteSet(Descendants(v))
               /\ Cardinality(Descendants(v)) \in 0..Cardinality(Node)
    <3>1. IsFiniteSet(Descendants(v)) /\ Cardinality(Descendants(v)) <= Cardinality(Node)
      BY <1>3, NodeAssumption, FS_Subset
    <3>2. Cardinality(Descendants(v)) \in Nat
      BY <3>1, FS_CardinalityType
    <3> QED
      BY <2>1, <3>1, <3>2
  <2> QED
    BY <2>1, <2>2
<1> DEFINE height == [t \in Node |-> Cardinality(Descendants(t))]
<1>5. ASSUME NEW t \in Node, NEW d \in ToSet(DependsOn[t])
      PROVE  height[d] < height[t]
  <2>1. d \in Node /\ f[d] < f[t] /\ f[d] \in Nat /\ f[t] \in Nat
    BY <1>1, <1>2
  <2>2. t \notin Descendants(d)
    <3> DEFINE L == {u \in Node : f[u] <= f[d]}
    <3>1. \A v \in L : ToSet(DependsOn[v]) \subseteq L
      <4> SUFFICES ASSUME NEW v \in L, NEW u \in ToSet(DependsOn[v]) PROVE u \in L
        OBVIOUS
      <4>1. u \in Node /\ f[u] < f[v] /\ f[v] <= f[d]
        BY <1>1, <1>2
      <4>2. f[u] \in Nat /\ f[v] \in Nat
        BY <4>1
      <4> QED
        BY <2>1, <4>1, <4>2
    <3>2. d \in L /\ t \notin L /\ L \in SUBSET Node
      BY <2>1
    <3> HIDE DEF L
    <3> QED
      BY <3>1, <3>2 DEF Descendants
  <2>3. Descendants(d) \subseteq Descendants(t) /\ t \in Descendants(t)
    BY <1>3, DescendantsUnfold
  <2>4. /\ Cardinality(Descendants(d)) <= Cardinality(Descendants(t))
        /\ Cardinality(Descendants(d)) # Cardinality(Descendants(t))
    BY <1>4, <2>2, <2>3, FS_Subset
  <2>5. Cardinality(Descendants(d)) \in Nat /\ Cardinality(Descendants(t)) \in Nat
    BY <1>4, <2>1
  <2> QED
    BY <2>1, <2>4, <2>5
<1>6. height \in [Node -> 0..Cardinality(Node)]
  BY <1>4
<1> HIDE DEF height
<1> QED
  BY <1>5, <1>6 DEF HeightsExist

\* A file that parse_tests has accepted fulfils what the test manager is proved
\* right under: the dependencies of its tests can be waited for one after another.
THEOREM AcceptedAcyclic ==
  ConfigSpec => [](pc \in {"accepted", "select", "check_jobs", "fold_jobs", "planned"}
                     => HeightsExist)
<1>1. ConfigInv => (pc \in {"accepted", "select", "check_jobs", "fold_jobs", "planned"}
                     => HeightsExist)
  BY RankedHeights DEF ConfigInv, ConfigTypeOK, Accepted
<1> QED
  BY <1>1, ConfigInvariant, PTL
=============================================================================
