--------------------------- MODULE TopologicalSort ---------------------------
(***************************************************************************)
(* dag.rs: the iterator that walks the nodes reachable from some sources,  *)
(* children before their parents, and finds a cycle if there is one.  It   *)
(* is an iterative depth-first search over an explicit stack, on which a   *)
(* node can sit several times.  Dag::new runs it once to reject cyclic     *)
(* graphs; config.rs and test.rs then build tests and jobs in the order it *)
(* emits.                                                                  *)
(***************************************************************************)
EXTENDS Naturals, Sequences, FiniteSets

CONSTANT Node   \* the nodes of the graph

ASSUME NodeAssumption == IsFiniteSet(Node)

NodeState == {"New", "Opened", "Closed"}

VARIABLES
  edges,       \* edges[v]: the children of v in their listed order
  sources,     \* the nodes the walk was started from
  dfs_stack,   \* the stack, its top at the end
  node_state,  \* node_state[v]
  pushing,     \* children of the node just opened that extend() has yet to look at
  out,         \* nodes emitted so far
  verdict      \* "running", "done" (no more nodes) or "cycle"

sortVars == <<edges, sources, dfs_stack, node_state, pushing, out, verdict>>

Children(v) == {edges[v][i] : i \in DOMAIN edges[v]}
Top == dfs_stack[Len(dfs_stack)]
Popped == SubSeq(dfs_stack, 1, Len(dfs_stack) - 1)
Emitted == {out[i] : i \in DOMAIN out}

\* TopologicalSort::new over the children listed in e, from the nodes in s.
StartSort(e, s) ==
  /\ edges' = e
  /\ sources' = s
  /\ dfs_stack' = s
  /\ node_state' = [v \in Node |-> "New"]
  /\ pushing' = <<>>
  /\ out' = <<>>
  /\ verdict' = "running"

\* try_next pops the top of the stack, unless it is busy pushing children.
Popping(state) ==
  /\ verdict = "running"
  /\ pushing = <<>>
  /\ dfs_stack # <<>>
  /\ node_state[Top] = state

\* A child that is Opened, v itself included, lies on the path to v.
ClosesCycle(v) == v \in Children(v) \/ \E u \in Children(v) : node_state[u] = "Opened"

\* A New node is opened, stays on the stack, and its children are pushed.
Open ==
  /\ Popping("New")
  /\ ~ClosesCycle(Top)
  /\ node_state' = [node_state EXCEPT ![Top] = "Opened"]
  /\ pushing' = edges[Top]
  /\ UNCHANGED <<edges, sources, dfs_stack, out, verdict>>

FindCycle ==
  /\ Popping("New")
  /\ ClosesCycle(Top)
  /\ node_state' = [node_state EXCEPT ![Top] = "Opened"]
  /\ dfs_stack' = <<>>
  /\ verdict' = "cycle"
  /\ UNCHANGED <<edges, sources, pushing, out>>

\* The filter of the children pushed.
\* Mutant: a child that already waits on the stack is not pushed again.
PushableOnce(u) ==
  /\ node_state[u] = "New"
  /\ \A i \in DOMAIN dfs_stack : dfs_stack[i] # u
Pushable(u) == node_state[u] = "New"

\* One element of dfs_stack.extend(children that are New).
Push ==
  /\ pushing # <<>>
  /\ dfs_stack' = IF Pushable(Head(pushing)) THEN Append(dfs_stack, Head(pushing)) ELSE dfs_stack
  /\ pushing' = Tail(pushing)
  /\ UNCHANGED <<edges, sources, node_state, out, verdict>>

\* An Opened node on top has all its descendants closed: it is emitted.
Close ==
  /\ Popping("Opened")
  /\ node_state' = [node_state EXCEPT ![Top] = "Closed"]
  /\ dfs_stack' = Popped
  /\ out' = Append(out, Top)
  /\ UNCHANGED <<edges, sources, pushing, verdict>>

Skip ==
  /\ Popping("Closed")
  /\ dfs_stack' = Popped
  /\ UNCHANGED <<edges, sources, node_state, pushing, out, verdict>>

Exhaust ==
  /\ verdict = "running"
  /\ pushing = <<>>
  /\ dfs_stack = <<>>
  /\ verdict' = "done"
  /\ UNCHANGED <<edges, sources, dfs_stack, node_state, pushing, out>>

SortStep == Open \/ FindCycle \/ Push \/ Close \/ Skip \/ Exhaust

SortInit ==
  /\ edges \in [Node -> Seq(Node)]
  /\ sources \in Seq(Node)
  /\ dfs_stack = sources
  /\ node_state = [v \in Node |-> "New"]
  /\ pushing = <<>>
  /\ out = <<>>
  /\ verdict = "running"

SortSpec == SortInit /\ [][SortStep]_sortVars

-----------------------------------------------------------------------------
(* Properties *)

SortTypeOK ==
  /\ edges \in [Node -> Seq(Node)]
  /\ sources \in Seq(Node)
  /\ dfs_stack \in Seq(Node)
  /\ node_state \in [Node -> NodeState]
  /\ pushing \in Seq(Node)
  /\ out \in Seq(Node)
  /\ verdict \in {"running", "done", "cycle"}

\* A numbering of the nodes in which every parent is above its children.
Ranks(f) == \A v \in Node : \A u \in Children(v) : f[u] < f[v]
Acyclic == \E f \in [Node -> 0..Cardinality(Node)] : Ranks(f)

\* Every node is emitted once and after all its children: Test::parse unwraps
\* the parsed form of each dependency, and ensure_tests_run indexes its job.
ChildrenFirst ==
  \A i \in DOMAIN out :
    /\ \A j \in DOMAIN out : out[i] = out[j] => i = j
    /\ \A u \in Children(out[i]) : \E j \in DOMAIN out : j < i /\ out[j] = u

\* A walk that ends has emitted the sources and their descendants, no others:
\* top_down_from selects exactly the tests that `limmat test` must run.
EmitsReachable ==
  LET Closed(S) ==
        /\ \A i \in DOMAIN sources : sources[i] \in S
        /\ \A v \in S : Children(v) \subseteq S
  IN verdict = "done" =>
       /\ Closed(Emitted)
       /\ \A S \in SUBSET Node : Closed(S) => Emitted \subseteq S

\* Dag::new's check_cycles, which starts from every node of its graph, rejects
\* the graphs with a cycle and no others: an accepted one can be ranked, as the
\* test manager assumes of its tests.
VerdictRight ==
  LET Everywhere == \A v \in Node : edges[v] = <<>> \/ \E i \in DOMAIN sources : sources[i] = v
  IN /\ verdict = "cycle" => ~Acyclic
     /\ verdict = "done" /\ Everywhere => Acyclic
=============================================================================
