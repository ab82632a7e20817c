------------------------------- MODULE Config -------------------------------
(***************************************************************************)
(* From the configuration file to the jobs of a command: config.rs parses  *)
(* the file into a Dag of tests, main.rs selects the tests a one-shot      *)
(* command needs and ensure_tests_run builds a job for each.  Both steps   *)
(* build a Dag, check it, and fold over it bottom up (TopologicalSort),    *)
(* unwrapping what the order of the walk should have provided.  Where an   *)
(* unwrap would panic the model has no step; PlanSound says that no state  *)
(* of that kind is reached.                                                *)
(*                                                                         *)
(* A configuration hash is modelled as the set of tests whose              *)
(* configuration has gone into it.                                         *)
(***************************************************************************)
EXTENDS TopologicalSort, SequencesExt

CONSTANTS
  NoTest,   \* not a test
  Configs   \* configuration files: [tests |-> sequence of tests,
            \* resources |-> sequence of resources, num_worktrees |-> number]

\* A resource of the file, or what a test asks for: a bare name counts once, and
\* a list of tokens as many times as it has tokens.
Resource == [name : STRING, count : Nat]

\* A test as the file has it; code_zero: it lists 0 among its error exit codes,
\* caches: its cache policy is not no_caching.
RawTest == [name : Node, depends_on : Seq(Node), resources : Seq(Resource),
            requires_worktree : BOOLEAN, code_zero : BOOLEAN, caches : BOOLEAN]

\* What the deserialiser of the file makes sure of.
ASSUME ConfigAssumption ==
  \A f \in Configs : f.tests \in Seq(RawTest) /\ f.resources \in Seq(Resource)

Commands == {"watch", "test", "get_run", "get"}

VARIABLES
  file,      \* the configuration file read
  pc,        \* how far do_main is
  parsed,    \* parsed_dag: the tests parsed, in order
  covers,    \* covers[t]: tests whose configuration config_hash of t covers
  command,   \* the command line's command
  target,    \* its test
  jobs       \* tests ensure_tests_run has built a TestJob for, in order

configVars == <<file, pc, parsed, covers, command, target, jobs>>
planVars == <<file, pc, parsed, covers, command, target, jobs,
              edges, sources, dfs_stack, node_state, pushing, out, verdict>>

NamesOf(items) == [i \in DOMAIN items |-> items[i].name]
Names == NamesOf(file.tests)
TestNamed(t) == file.tests[CHOOSE i \in DOMAIN file.tests : file.tests[i].name = t]
NeedsWorktree(t) == TestNamed(t).requires_worktree
Asks(t) == ToSet(TestNamed(t).resources)
\* parse_resource_tokens collects a map: the last resource of a name counts.
Tokens(n) ==
  file.resources[Max({i \in DOMAIN file.resources : file.resources[i].name = n})].count

ConfigInit ==
  /\ file \in Configs
  /\ pc = "new"
  /\ parsed = <<>>
  /\ covers = [t \in Node |-> {}]
  /\ command = "none"
  /\ target = NoTest
  /\ jobs = <<>>
  /\ edges = [t \in Node |-> <<>>]
  /\ sources = <<>>
  /\ dfs_stack = <<>>
  /\ node_state = [t \in Node |-> "New"]
  /\ pushing = <<>>
  /\ out = <<>>
  /\ verdict = "running"

-----------------------------------------------------------------------------
(* Dag::new over a sequence of nodes; deps[t] are the child ids of t. *)

DagAccepts(nodes, deps) ==
  /\ IsInjective(nodes)                                             \* else DuplicateId
  /\ \A t \in ToSet(nodes) : ToSet(deps[t]) \subseteq ToSet(nodes)   \* else NoSuchChild
\* The adjacency list, of which a walk uses the rows of its nodes.
Adjacency(nodes, deps) == [t \in Node |-> IF t \in ToSet(nodes) THEN deps[t] ELSE <<>>]

DependsOn == [t \in Node |-> IF t \in ToSet(Names) THEN TestNamed(t).depends_on ELSE <<>>]

Fail == /\ pc' = "error"
        /\ UNCHANGED <<file, parsed, covers, command, target, jobs, sortVars>>
\* A walk of the current phase goes on.
Walk ==
  /\ pc \in {"check", "fold", "select", "check_jobs", "fold_jobs"}
  /\ pc = "fold" => Len(parsed) = Len(out)        \* the fold consumes each node as it is emitted
  /\ pc = "fold_jobs" => Len(jobs) = Len(out)
  /\ SortStep
  /\ UNCHANGED configVars

\* Config::parse_tests begins with Dag::new, whose last step is check_cycles ...
NewDag ==
  /\ pc = "new"
  /\ DagAccepts(Names, DependsOn)
  /\ StartSort(Adjacency(Names, DependsOn), Names)
  /\ pc' = "check"
  /\ UNCHANGED <<file, parsed, covers, command, target, jobs>>

NewDagFails == pc = "new" /\ ~DagAccepts(Names, DependsOn) /\ Fail

Cyclic == pc = "check" /\ verdict = "cycle" /\ Fail

\* ... and goes on to bottom_up().try_fold().
Fold ==
  /\ pc = "check"
  /\ verdict = "done"
  /\ StartSort(edges, Names)
  /\ pc' = "fold"
  /\ UNCHANGED <<file, parsed, covers, command, target, jobs>>

-----------------------------------------------------------------------------
(* Test::parse and the checks after it *)

ParseNext == out[Len(parsed) + 1]
CanParse == pc = "fold" /\ Len(parsed) < Len(out)
Refused(t) == ~IsInjective(NamesOf(TestNamed(t).resources)) \/ TestNamed(t).code_zero
DepsParsed(t) == ToSet(DependsOn[t]) \subseteq ToSet(parsed)

\* Mutant: only the configurations of the dependencies go into the hash.
HashedOneLevel(t) == {t} \cup ToSet(DependsOn[t])
\* The configuration of t and the hashes of its dependencies.
Hashed(t) == {t} \cup UNION {covers[d] : d \in ToSet(DependsOn[t])}

Parse ==
  /\ CanParse
  /\ DepsParsed(ParseNext)
  /\ ~Refused(ParseNext)
  /\ covers' = [covers EXCEPT ![ParseNext] = Hashed(ParseNext)]
  /\ parsed' = Append(parsed, ParseNext)
  /\ UNCHANGED <<file, pc, command, target, jobs, sortVars>>

ParseFails == CanParse /\ Refused(ParseNext) /\ Fail

ResourcesDefined ==
  \A t \in ToSet(parsed) :
    ToSet(NamesOf(TestNamed(t).resources)) \subseteq ToSet(NamesOf(file.resources))

FoldEnds == pc = "fold" /\ verdict = "done" /\ Len(parsed) = Len(out)

Accept ==
  /\ FoldEnds
  /\ ResourcesDefined
  /\ pc' = "accepted"
  /\ UNCHANGED <<file, parsed, covers, command, target, jobs, sortVars>>

UndefinedResource == FoldEnds /\ ~ResourcesDefined /\ Fail

-----------------------------------------------------------------------------
(* The commands *)

\* do_main dispatches.  watch spawns jobs later; get looks its test up;
\* test and get --run walk from the target first.
Dispatch ==
  /\ pc = "accepted"
  /\ command' \in Commands
  /\ target' \in IF command' = "watch" THEN {NoTest} ELSE Node
  /\ CASE command' = "watch" \/ (command' = "get" /\ target' \in ToSet(parsed)) ->
              pc' = "planned" /\ UNCHANGED sortVars
       [] command' \in {"test", "get_run"} /\ target' \in ToSet(parsed) ->
              pc' = "select" /\ StartSort(edges, <<target'>>)
       [] OTHER ->                                   \* no such test
              pc' = "error" /\ UNCHANGED sortVars
  /\ UNCHANGED <<file, parsed, covers, jobs>>

\* Mutant: skip(1) applies to the walk as emitted.
SelectedUnreversed == IF command = "test" THEN Reverse(Tail(out)) ELSE Reverse(out)
\* top_down_from reverses the walk; test drops the target with skip(1).
Selected == IF command = "test" THEN Tail(Reverse(out)) ELSE Reverse(out)

\* ensure_tests_run builds a Dag of the selected tests, unless there are none.
Select ==
  /\ pc = "select"
  /\ verdict = "done"
  /\ \/ /\ Selected = <<>>
        /\ pc' = "planned"
        /\ UNCHANGED sortVars
     \/ /\ Selected # <<>>
        /\ DagAccepts(Selected, DependsOn)
        /\ StartSort(Adjacency(Selected, DependsOn), Selected)
        /\ pc' = "check_jobs"
  /\ UNCHANGED <<file, parsed, covers, command, target, jobs>>

FoldJobs ==
  /\ pc = "check_jobs"
  /\ verdict = "done"
  /\ StartSort(edges, sources)
  /\ pc' = "fold_jobs"
  /\ UNCHANGED <<file, parsed, covers, command, target, jobs>>

JobNext == out[Len(jobs) + 1]
CanBuild == pc = "fold_jobs" /\ Len(jobs) < Len(out)
DepsBuilt(t) == ToSet(DependsOn[t]) \subseteq ToSet(jobs)

\* A job subscribes to the completion of its dependencies' jobs.
BuildJob ==
  /\ CanBuild
  /\ DepsBuilt(JobNext)
  /\ jobs' = Append(jobs, JobNext)
  /\ UNCHANGED <<file, pc, parsed, covers, command, target, sortVars>>

Planned ==
  /\ pc = "fold_jobs"
  /\ verdict = "done"
  /\ Len(jobs) = Len(out)
  /\ pc' = "planned"
  /\ UNCHANGED <<file, parsed, covers, command, target, jobs, sortVars>>

PlanStep ==
  \/ NewDag \/ NewDagFails \/ Walk \/ Cyclic \/ Fold \/ Parse \/ ParseFails
  \/ Accept \/ UndefinedResource \/ Dispatch \/ Select \/ FoldJobs \/ BuildJob \/ Planned

ConfigSpec == ConfigInit /\ [][PlanStep]_planVars

-----------------------------------------------------------------------------
(* Properties *)

\* The tests t depends on, directly or not, and t itself.
Descendants(t) ==
  {u \in Node : \A S \in SUBSET Node :
     (t \in S /\ \A v \in S : ToSet(DependsOn[v]) \subseteq S) => u \in S}

\* The tests that a command runs, but for the target of `test`.
JobsFor == CASE command = "test" -> Descendants(target) \ {target}
             [] command = "get_run" -> Descendants(target)
             [] OTHER -> {}

\* None of the places where the code unwraps, expects or indexes what an
\* accepted Dag should provide can panic, nor can the second Dag::new fail: the
\* dependency of a test being parsed is parsed, that of a job being built is
\* built, no later walk finds a cycle, and what a command runs is exactly the
\* target's dependencies, with the target itself for `get --run` only.
PlanSound ==
  /\ CanParse /\ IsInjective(NamesOf(TestNamed(ParseNext).resources)) => DepsParsed(ParseNext)
  /\ CanBuild => DepsBuilt(JobNext)
  /\ verdict = "cycle" => pc \in {"check", "error"}
  /\ pc = "select" /\ verdict = "done" => DagAccepts(Selected, DependsOn)
  /\ pc = "planned" => ToSet(jobs) = JobsFor

\* README.md: "The configuration for each test and its dependencies are hashed";
\* a change to any of them must make the stored result unusable.
HashCovers ==
  pc = "accepted" => \A t \in ToSet(parsed) : covers[t] = Descendants(t)
=============================================================================
