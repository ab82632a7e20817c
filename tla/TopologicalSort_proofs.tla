------------------------ MODULE TopologicalSort_proofs ------------------------
(***************************************************************************)
(* The walk of dag.rs, for every finite graph and every list of sources:   *)
(* what it emits is in order and complete, and it reports a cycle exactly  *)
(* when no numbering of the nodes puts every parent above its children.    *)
(***************************************************************************)
EXTENDS TopologicalSort, FiniteSetTheorems, TLAPS

IsOn(v, s) == \E p \in DOMAIN s : s[p] = v

\* A child of an opened node is closed, or will be met before the node is.
OpenAhead ==
  \A p \in DOMAIN dfs_stack : node_state[dfs_stack[p]] = "Opened" =>
    \A u \in Children(dfs_stack[p]) :
      \/ node_state[u] = "Closed"
      \/ \E q \in DOMAIN dfs_stack : q > p /\ dfs_stack[q] = u
      \/ IsOn(u, pushing)

OpenOnStack ==
  verdict # "cycle" => \A v \in Node : node_state[v] = "Opened" => IsOn(v, dfs_stack)

ClosedBelow ==
  \A v \in Node : node_state[v] = "Closed" => \A u \in Children(v) : node_state[u] = "Closed"

OutIsClosed == \A v \in Node : node_state[v] = "Closed" <=> IsOn(v, out)

SourcesAhead ==
  verdict # "cycle" =>
    \A i \in DOMAIN sources : node_state[sources[i]] = "Closed" \/ IsOn(sources[i], dfs_stack)

PushingNew ==
  /\ \A i \in DOMAIN pushing : node_state[pushing[i]] # "Opened"
  /\ pushing # <<>> => verdict = "running"

\* Everything the walk has met is reachable from the sources.
ClosedSet(S) ==
  /\ \A i \in DOMAIN sources : sources[i] \in S
  /\ \A v \in S : Children(v) \subseteq S
Reached(S) ==
  /\ \A p \in DOMAIN dfs_stack : dfs_stack[p] \in S
  /\ \A i \in DOMAIN pushing : pushing[i] \in S
  /\ \A i \in DOMAIN out : out[i] \in S
AllReached == \A S \in SUBSET Node : ClosedSet(S) => Reached(S)

\* Whatever lies above an opened node on the stack, or is being pushed, is a
\* descendant of it, so it ranks below it in every ranking.
RankedUnder(f, v) ==
  /\ verdict # "cycle" =>
       \E p \in DOMAIN dfs_stack :
         /\ dfs_stack[p] = v
         /\ \A q \in DOMAIN dfs_stack : q > p => f[dfs_stack[q]] < f[v]
  /\ \A i \in DOMAIN pushing : f[pushing[i]] < f[v]
StackRanked ==
  \A f \in [Node -> Nat] : Ranks(f) =>
    \A v \in Node : node_state[v] = "Opened" => RankedUnder(f, v)

CycleUnranked == verdict = "cycle" => \A f \in [Node -> Nat] : ~Ranks(f)

DoneEmpty == verdict # "running" => dfs_stack = <<>>

SortInv ==
  /\ SortTypeOK
  /\ OpenAhead
  /\ OpenOnStack
  /\ ClosedBelow
  /\ OutIsClosed
  /\ ChildrenFirst
  /\ SourcesAhead
  /\ PushingNew
  /\ AllReached
  /\ StackRanked
  /\ CycleUnranked
  /\ DoneEmpty

-----------------------------------------------------------------------------
(* Sequences *)

\* Without its last element a sequence keeps the others in place.
LEMMA PopLemma ==
  ASSUME NEW s \in Seq(Node), s # <<>>
  PROVE  /\ SubSeq(s, 1, Len(s) - 1) \in Seq(Node)
         /\ DOMAIN SubSeq(s, 1, Len(s) - 1) = 1..(Len(s) - 1)
         /\ \A i \in 1..(Len(s) - 1) : SubSeq(s, 1, Len(s) - 1)[i] = s[i]
         /\ Len(s) \in DOMAIN s
         /\ Len(s) \in Nat \ {0}
         /\ DOMAIN s = 1..Len(s)
         /\ s[Len(s)] \in Node
  OBVIOUS

\* The last element added by Append, and the others.
LEMMA AppendLemma ==
  ASSUME NEW s \in Seq(Node), NEW v \in Node
  PROVE  /\ Append(s, v) \in Seq(Node)
         /\ Len(Append(s, v)) = Len(s) + 1
         /\ Len(s) \in Nat
         /\ DOMAIN s = 1..Len(s)
         /\ DOMAIN Append(s, v) = 1..(Len(s) + 1)
         /\ \A i \in 1..Len(s) : Append(s, v)[i] = s[i]
         /\ Append(s, v)[Len(s) + 1] = v
  OBVIOUS

\* A sequence is its head and its tail.
LEMMA TailLemma ==
  ASSUME NEW s \in Seq(Node), s # <<>>
  PROVE  /\ Tail(s) \in Seq(Node)
         /\ Head(s) \in Node
         /\ Head(s) = s[1]
         /\ 1 \in DOMAIN s
         /\ DOMAIN s = 1..Len(s)
         /\ DOMAIN Tail(s) = 1..(Len(s) - 1)
         /\ \A i \in DOMAIN Tail(s) : i + 1 \in DOMAIN s /\ Tail(s)[i] = s[i + 1]
         /\ \A i \in DOMAIN s : i # 1 => i - 1 \in DOMAIN Tail(s) /\ Tail(s)[i - 1] = s[i]
  OBVIOUS

-----------------------------------------------------------------------------
(* The steps preserve the invariant. *)

\* The walk starts with nothing opened and only the sources on the stack.
LEMMA InitHolds == SortInit => SortInv
<1> SUFFICES ASSUME SortInit PROVE SortInv
    OBVIOUS
<1>1. SortTypeOK
    BY DEF SortInit, SortTypeOK, NodeState
<1>2. ChildrenFirst
    BY DEF SortInit, ChildrenFirst
<1>3. AllReached
    BY DEF SortInit, AllReached, ClosedSet, Reached
<1>4. OutIsClosed
    BY DEF SortInit, OutIsClosed, IsOn
<1>5. SourcesAhead
    BY DEF SortInit, SourcesAhead, IsOn
<1>6. OpenAhead /\ OpenOnStack /\ ClosedBelow /\ PushingNew
    BY <1>1 DEF SortInit, SortTypeOK, OpenAhead, OpenOnStack, ClosedBelow, PushingNew
<1>7. StackRanked /\ CycleUnranked /\ DoneEmpty
    BY <1>1 DEF SortInit, StackRanked, CycleUnranked, DoneEmpty
<1> QED
    BY <1>1, <1>2, <1>3, <1>4, <1>5, <1>6, <1>7 DEF SortInv

\* What a step that takes the top of the stack starts from.
LEMMA TopLemma ==
  ASSUME SortTypeOK, dfs_stack # <<>>
  PROVE  /\ Top \in Node
         /\ Popped \in Seq(Node)
         /\ DOMAIN dfs_stack = 1..Len(dfs_stack)
         /\ Len(dfs_stack) \in Nat \ {0}
         /\ DOMAIN Popped = 1..(Len(dfs_stack) - 1)
         /\ \A i \in 1..(Len(dfs_stack) - 1) : Popped[i] = dfs_stack[i]
         /\ dfs_stack[Len(dfs_stack)] = Top
BY PopLemma DEF SortTypeOK, Top, Popped

\* The children of a node are nodes.
LEMMA ChildLemma ==
  ASSUME SortTypeOK, NEW v \in Node
  PROVE  /\ edges[v] \in Seq(Node)
         /\ Children(v) \subseteq Node
         /\ \A u : u \in Children(v) <=> IsOn(u, edges[v])
BY DEF SortTypeOK, Children, IsOn

\* A node is opened while its children are new or closed.
LEMMA OpenKeeps == SortInv /\ Open => SortInv'
<1> SUFFICES ASSUME SortInv, Open PROVE SortInv'
    OBVIOUS
<1> DEFINE v == Top
<1>1. SortTypeOK /\ dfs_stack # <<>> /\ verdict = "running" /\ pushing = <<>>
    BY DEF SortInv, Open, Popping
<1>2. /\ v \in Node
      /\ DOMAIN dfs_stack = 1..Len(dfs_stack)
      /\ Len(dfs_stack) \in Nat \ {0}
      /\ dfs_stack[Len(dfs_stack)] = v
    BY <1>1, TopLemma
<1>3. /\ node_state[v] = "New"
      /\ node_state' = [node_state EXCEPT ![v] = "Opened"]
      /\ pushing' = edges[v]
      /\ edges' = edges /\ sources' = sources /\ dfs_stack' = dfs_stack
      /\ out' = out /\ verdict' = verdict
    BY DEF Open, Popping
<1>4. /\ node_state'[v] = "Opened"
      /\ \A u \in Node : u # v => node_state'[u] = node_state[u]
    BY <1>1, <1>2, <1>3 DEF SortTypeOK
<1>5. edges[v] \in Seq(Node) /\ \A u : u \in Children(v) <=> IsOn(u, edges[v])
    BY <1>1, <1>2, ChildLemma
<1>6. \A u \in Children(v) : u # v /\ node_state[u] # "Opened"
    BY DEF Open, ClosesCycle
<1>7. \A u : Children(u)' = Children(u)
    BY <1>3 DEF Children
<1>8. \A p \in DOMAIN dfs_stack : dfs_stack[p] \in Node
    BY <1>1 DEF SortTypeOK
<1>9. \A u \in Node : Children(u) \subseteq Node
    BY <1>1, ChildLemma
<1>a. SortTypeOK'
    BY <1>1, <1>2, <1>3, <1>5 DEF SortTypeOK, NodeState
<1>b. OpenAhead'
  <2> SUFFICES ASSUME NEW p \in DOMAIN dfs_stack, node_state'[dfs_stack[p]] = "Opened",
                      NEW u \in Children(dfs_stack[p])
               PROVE  \/ node_state'[u] = "Closed"
                      \/ \E q \in DOMAIN dfs_stack : q > p /\ dfs_stack[q] = u
                      \/ IsOn(u, pushing')
      BY <1>3, <1>7 DEF OpenAhead, IsOn
  <2>1. CASE dfs_stack[p] = v
      BY <2>1, <1>3, <1>5
  <2>2. CASE dfs_stack[p] # v
    <3>1. node_state[dfs_stack[p]] = "Opened"
        BY <2>2, <1>4, <1>8
    <3>2. node_state[u] = "Closed" \/ \E q \in DOMAIN dfs_stack : q > p /\ dfs_stack[q] = u
        BY <3>1, <1>1 DEF SortInv, OpenAhead, IsOn
    <3>3. u \in Node
        BY <1>8, <1>9
    <3> QED
        BY <3>2, <3>3, <1>3, <1>4
  <2> QED
      BY <2>1, <2>2
<1>c. OpenOnStack'
    BY <1>1, <1>2, <1>3, <1>4 DEF SortInv, OpenOnStack, IsOn
<1>d. ClosedBelow'
    BY <1>3, <1>4, <1>7, <1>9 DEF SortInv, ClosedBelow
<1>e. OutIsClosed'
    BY <1>3, <1>4 DEF SortInv, OutIsClosed, IsOn
<1>f. ChildrenFirst'
    BY <1>3, <1>7 DEF SortInv, ChildrenFirst
<1>g. SourcesAhead'
  <2>1. \A i \in DOMAIN sources : sources[i] \in Node
      BY <1>1 DEF SortTypeOK
  <2> QED
      BY <2>1, <1>1, <1>3, <1>4 DEF SortInv, SourcesAhead, IsOn
<1>h. PushingNew'
    BY <1>1, <1>3, <1>4, <1>5, <1>6, <1>9, <1>2 DEF PushingNew, IsOn
<1>i. AllReached'
  <2> SUFFICES ASSUME NEW S \in SUBSET Node, ClosedSet(S) PROVE Reached(S)'
      BY <1>3, <1>7 DEF AllReached, ClosedSet
  <2>1. Reached(S)
      BY DEF SortInv, AllReached
  <2>2. v \in S
      BY <2>1, <1>2 DEF Reached
  <2>3. \A i \in DOMAIN edges[v] : edges[v][i] \in S
      BY <2>2 DEF ClosedSet, Children
  <2> QED
      BY <2>1, <2>3, <1>3 DEF Reached
<1>j. StackRanked'
  <2> SUFFICES ASSUME NEW f \in [Node -> Nat], Ranks(f),
                      NEW w \in Node, node_state'[w] = "Opened"
               PROVE  /\ \E p \in DOMAIN dfs_stack :
                           /\ dfs_stack[p] = w
                           /\ \A q \in DOMAIN dfs_stack : q > p => f[dfs_stack[q]] < f[w]
                      /\ \A i \in DOMAIN edges[v] : f[edges[v][i]] < f[w]
      BY <1>3, <1>7 DEF StackRanked, Ranks, RankedUnder
  <2>1. \A i \in DOMAIN edges[v] : edges[v][i] \in Node /\ f[edges[v][i]] < f[v]
      BY <1>2, <1>5, <1>9 DEF Ranks, IsOn
  <2>2. CASE w = v
      BY <2>1, <2>2, <1>2
  <2>3. CASE w # v
    <3>1. PICK p \in DOMAIN dfs_stack :
             /\ dfs_stack[p] = w
             /\ \A q \in DOMAIN dfs_stack : q > p => f[dfs_stack[q]] < f[w]
        BY <2>3, <1>1, <1>4 DEF SortInv, StackRanked, RankedUnder
    <3>2. f[v] < f[w]
        BY <3>1, <2>3, <1>2
    <3>3. f[v] \in Nat /\ f[w] \in Nat /\ \A i \in DOMAIN edges[v] : f[edges[v][i]] \in Nat
        BY <2>1, <1>2
    <3>4. \A i \in DOMAIN edges[v] : f[edges[v][i]] < f[w]
        BY <3>2, <3>3, <2>1
    <3> QED
        BY <3>1, <3>4
  <2> QED
      BY <2>2, <2>3
<1>k. CycleUnranked' /\ DoneEmpty'
    BY <1>1, <1>3 DEF SortInv, CycleUnranked, DoneEmpty
<1> QED
    BY <1>a, <1>b, <1>c, <1>d, <1>e, <1>f, <1>g, <1>h, <1>i, <1>j, <1>k DEF SortInv

\* Opening a node that closes a cycle ends the walk: the node and one above it
\* on the stack would have to rank below each other.
LEMMA FindCycleKeeps == SortInv /\ FindCycle => SortInv'
<1> SUFFICES ASSUME SortInv, FindCycle PROVE SortInv'
    OBVIOUS
<1> DEFINE v == Top
<1>1. SortTypeOK /\ dfs_stack # <<>> /\ verdict = "running" /\ pushing = <<>>
    BY DEF SortInv, FindCycle, Popping
<1>2. /\ v \in Node
      /\ DOMAIN dfs_stack = 1..Len(dfs_stack)
      /\ Len(dfs_stack) \in Nat \ {0}
      /\ dfs_stack[Len(dfs_stack)] = v
    BY <1>1, TopLemma
<1>3. /\ node_state[v] = "New"
      /\ node_state' = [node_state EXCEPT ![v] = "Opened"]
      /\ edges' = edges /\ sources' = sources /\ dfs_stack' = <<>>
      /\ pushing' = pushing /\ out' = out /\ verdict' = "cycle"
    BY DEF FindCycle, Popping
<1>4. /\ node_state'[v] = "Opened"
      /\ \A u \in Node : u # v => node_state'[u] = node_state[u]
    BY <1>1, <1>2, <1>3 DEF SortTypeOK
<1>5. \A u : Children(u)' = Children(u)
    BY <1>3 DEF Children
<1>6. \A u \in Node : Children(u) \subseteq Node
    BY <1>1, ChildLemma
<1>a. SortTypeOK'
    BY <1>1, <1>2, <1>3 DEF SortTypeOK, NodeState
<1>b. OpenAhead' /\ OpenOnStack' /\ SourcesAhead' /\ PushingNew' /\ DoneEmpty'
    BY <1>1, <1>3 DEF OpenAhead, OpenOnStack, SourcesAhead, PushingNew, DoneEmpty
<1>c. ClosedBelow'
    BY <1>3, <1>4, <1>5, <1>6 DEF SortInv, ClosedBelow
<1>d. OutIsClosed'
    BY <1>3, <1>4 DEF SortInv, OutIsClosed, IsOn
<1>e. ChildrenFirst'
    BY <1>3, <1>5 DEF SortInv, ChildrenFirst
<1>f. AllReached'
    BY <1>1, <1>3, <1>5 DEF SortInv, AllReached, ClosedSet, Reached
<1>g. StackRanked'
    BY <1>1, <1>3 DEF StackRanked, RankedUnder
<1>h. CycleUnranked'
  <2> SUFFICES ASSUME NEW f \in [Node -> Nat], Ranks(f) PROVE FALSE
      BY <1>3, <1>5 DEF CycleUnranked, Ranks
  <2>1. PICK u \in Children(v) : u = v \/ node_state[u] = "Opened"
      BY DEF FindCycle, ClosesCycle
  <2>2. u \in Node /\ f[u] < f[v] /\ f[u] \in Nat /\ f[v] \in Nat
      BY <1>2, <1>6 DEF Ranks
  <2>3. u # v /\ node_state[u] = "Opened"
      BY <2>1, <2>2
  <2>4. PICK p \in DOMAIN dfs_stack :
           dfs_stack[p] = u /\ \A q \in DOMAIN dfs_stack : q > p => f[dfs_stack[q]] < f[u]
      BY <2>2, <2>3, <1>1 DEF SortInv, StackRanked, RankedUnder
  <2>5. f[v] < f[u]
      BY <2>3, <2>4, <1>2
  <2> QED
      BY <2>2, <2>5
<1> QED
    BY <1>a, <1>b, <1>c, <1>d, <1>e, <1>f, <1>g, <1>h DEF SortInv

\* extend() looks at one child: the child is new and goes on top, or it is
\* closed.
LEMMA PushKeeps == SortInv /\ Push => SortInv'
<1> SUFFICES ASSUME SortInv, Push PROVE SortInv'
    OBVIOUS
<1> DEFINE h == Head(pushing)
<1>1. SortTypeOK /\ pushing # <<>> /\ verdict = "running"
    BY DEF SortInv, Push, PushingNew
<1>2. /\ h \in Node /\ h = pushing[1] /\ 1 \in DOMAIN pushing
      /\ Tail(pushing) \in Seq(Node)
      /\ \A i \in DOMAIN Tail(pushing) :
           i + 1 \in DOMAIN pushing /\ Tail(pushing)[i] = pushing[i + 1]
      /\ \A i \in DOMAIN pushing :
           i # 1 => i - 1 \in DOMAIN Tail(pushing) /\ Tail(pushing)[i - 1] = pushing[i]
    BY <1>1, TailLemma DEF SortTypeOK
<1>3. /\ dfs_stack' = IF Pushable(h) THEN Append(dfs_stack, h) ELSE dfs_stack
      /\ pushing' = Tail(pushing)
      /\ edges' = edges /\ sources' = sources /\ node_state' = node_state
      /\ out' = out /\ verdict' = verdict
    BY DEF Push
<1>4. /\ Append(dfs_stack, h) \in Seq(Node)
      /\ Len(dfs_stack) \in Nat
      /\ DOMAIN dfs_stack = 1..Len(dfs_stack)
      /\ DOMAIN Append(dfs_stack, h) = 1..(Len(dfs_stack) + 1)
      /\ \A i \in 1..Len(dfs_stack) : Append(dfs_stack, h)[i] = dfs_stack[i]
      /\ Append(dfs_stack, h)[Len(dfs_stack) + 1] = h
    BY <1>1, <1>2, AppendLemma DEF SortTypeOK
<1>5. node_state[h] = "New" \/ node_state[h] = "Closed"
    BY <1>1, <1>2 DEF SortInv, PushingNew, SortTypeOK, NodeState
<1>6. \A u : Children(u)' = Children(u)
    BY <1>3 DEF Children
\* What was on the stack still is, at its place; what is new is the child.
<1>7. /\ DOMAIN dfs_stack \subseteq DOMAIN dfs_stack'
      /\ \A i \in DOMAIN dfs_stack : dfs_stack'[i] = dfs_stack[i]
      /\ \A i \in DOMAIN dfs_stack' : i \in DOMAIN dfs_stack \/ dfs_stack'[i] = h
    BY <1>3, <1>4
<1>8. node_state[h] = "New" =>
        Len(dfs_stack) + 1 \in DOMAIN dfs_stack' /\ dfs_stack'[Len(dfs_stack) + 1] = h
    BY <1>3, <1>4 DEF Pushable
<1>9. \A i \in DOMAIN dfs_stack' : i \in DOMAIN dfs_stack \/ node_state[h] = "New"
    BY <1>3, <1>4 DEF Pushable
<1>a. SortTypeOK'
    BY <1>1, <1>2, <1>3, <1>4 DEF SortTypeOK
<1>b. OpenAhead'
  <2> SUFFICES ASSUME NEW p \in DOMAIN dfs_stack', node_state[dfs_stack'[p]] = "Opened",
                      NEW u \in Children(dfs_stack'[p])
               PROVE  \/ node_state[u] = "Closed"
                      \/ \E q \in DOMAIN dfs_stack' : q > p /\ dfs_stack'[q] = u
                      \/ IsOn(u, pushing')
      BY <1>3, <1>6 DEF OpenAhead, IsOn
  <2>1. p \in DOMAIN dfs_stack /\ dfs_stack'[p] = dfs_stack[p]
      BY <1>5, <1>7
  <2>2. \/ node_state[u] = "Closed"
        \/ \E q \in DOMAIN dfs_stack : q > p /\ dfs_stack[q] = u
        \/ IsOn(u, pushing)
      BY <2>1 DEF SortInv, OpenAhead
  <2>3. CASE \E q \in DOMAIN dfs_stack : q > p /\ dfs_stack[q] = u
      BY <2>3, <1>7
  <2>4. CASE IsOn(u, pushing) /\ u # h
    <3>1. PICK i \in DOMAIN pushing : pushing[i] = u
        BY <2>4 DEF IsOn
    <3>2. i - 1 \in DOMAIN pushing' /\ pushing'[i - 1] = u
        BY <3>1, <2>4, <1>2, <1>3
    <3> QED
        BY <3>2 DEF IsOn
  <2>5. CASE u = h /\ node_state[h] = "New"
    <3>1. p < Len(dfs_stack) + 1
        BY <2>1, <1>4
    <3> QED
        BY <3>1, <2>5, <1>8
  <2> QED
      BY <2>2, <2>3, <2>4, <2>5, <1>5
<1>c. OpenOnStack'
    BY <1>1, <1>3, <1>7 DEF SortInv, OpenOnStack, IsOn
<1>d. ClosedBelow' /\ OutIsClosed' /\ ChildrenFirst'
    BY <1>3, <1>6 DEF SortInv, ClosedBelow, OutIsClosed, ChildrenFirst, IsOn
<1>e. SourcesAhead'
    BY <1>1, <1>3, <1>7 DEF SortInv, SourcesAhead, IsOn
<1>f. PushingNew'
    BY <1>1, <1>2, <1>3 DEF SortInv, PushingNew
<1>g. AllReached'
  <2> SUFFICES ASSUME NEW S \in SUBSET Node, ClosedSet(S) PROVE Reached(S)'
      BY <1>3, <1>6 DEF AllReached, ClosedSet
  <2>1. Reached(S)
      BY DEF SortInv, AllReached
  <2>2. \A p \in DOMAIN dfs_stack' : dfs_stack'[p] \in S
      BY <2>1, <1>2, <1>7 DEF Reached
  <2>3. \A i \in DOMAIN pushing' : pushing'[i] \in S
      BY <2>1, <1>2, <1>3 DEF Reached
  <2> QED
      BY <2>1, <2>2, <2>3, <1>3 DEF Reached
<1>h. StackRanked'
  <2> SUFFICES ASSUME NEW f \in [Node -> Nat], Ranks(f),
                      NEW w \in Node, node_state[w] = "Opened"
               PROVE  /\ \E p \in DOMAIN dfs_stack' :
                           /\ dfs_stack'[p] = w
                           /\ \A q \in DOMAIN dfs_stack' : q > p => f[dfs_stack'[q]] < f[w]
                      /\ \A i \in DOMAIN pushing' : f[pushing'[i]] < f[w]
      BY <1>3, <1>6 DEF StackRanked, Ranks, RankedUnder
  <2>1. RankedUnder(f, w)
      BY DEF SortInv, StackRanked
  <2>2. PICK p \in DOMAIN dfs_stack :
           dfs_stack[p] = w /\ \A q \in DOMAIN dfs_stack : q > p => f[dfs_stack[q]] < f[w]
      BY <2>1, <1>1 DEF RankedUnder
  <2>3. f[h] < f[w]
      BY <2>1, <1>2 DEF RankedUnder
  <2>4. \A q \in DOMAIN dfs_stack' : q > p => f[dfs_stack'[q]] < f[w]
      BY <2>2, <2>3, <1>7
  <2>5. \A i \in DOMAIN pushing' : f[pushing'[i]] < f[w]
      BY <2>1, <1>2, <1>3 DEF RankedUnder
  <2> QED
      BY <2>2, <2>4, <2>5, <1>7
<1>i. CycleUnranked' /\ DoneEmpty'
    BY <1>1, <1>3 DEF CycleUnranked, DoneEmpty
<1> QED
    BY <1>a, <1>b, <1>c, <1>d, <1>e, <1>f, <1>g, <1>h, <1>i DEF SortInv

\* An opened node on top has no child left to meet: all of them are closed.
LEMMA CloseKeeps == SortInv /\ Close => SortInv'
<1> SUFFICES ASSUME SortInv, Close PROVE SortInv'
    OBVIOUS
<1> DEFINE v == Top
           n == Len(dfs_stack)
           m == Len(out)
<1>1. SortTypeOK /\ dfs_stack # <<>> /\ verdict = "running" /\ pushing = <<>>
    BY DEF SortInv, Close, Popping
<1>2. /\ v \in Node
      /\ Popped \in Seq(Node)
      /\ DOMAIN dfs_stack = 1..n
      /\ n \in Nat \ {0}
      /\ DOMAIN Popped = 1..(n - 1)
      /\ \A i \in 1..(n - 1) : Popped[i] = dfs_stack[i]
      /\ dfs_stack[n] = v
    BY <1>1, TopLemma
<1>3. /\ node_state[v] = "Opened"
      /\ node_state' = [node_state EXCEPT ![v] = "Closed"]
      /\ dfs_stack' = Popped /\ out' = Append(out, v)
      /\ edges' = edges /\ sources' = sources
      /\ pushing' = pushing /\ verdict' = verdict
    BY DEF Close, Popping
<1>4. /\ node_state'[v] = "Closed"
      /\ \A u \in Node : u # v => node_state'[u] = node_state[u]
    BY <1>1, <1>2, <1>3 DEF SortTypeOK
<1>5. \A u : Children(u)' = Children(u)
    BY <1>3 DEF Children
<1>6. \A u \in Node : Children(u) \subseteq Node
    BY <1>1, ChildLemma
<1>7. /\ out' \in Seq(Node)
      /\ m \in Nat
      /\ DOMAIN out = 1..m
      /\ DOMAIN out' = 1..(m + 1)
      /\ \A i \in 1..m : out'[i] = out[i]
      /\ out'[m + 1] = v
    BY <1>1, <1>2, <1>3, AppendLemma DEF SortTypeOK
<1>8. \A i \in DOMAIN out : out[i] \in Node
    BY <1>1 DEF SortTypeOK
\* Nothing is above the top, and nothing is being pushed.
<1>9. \A u \in Children(v) : node_state[u] = "Closed"
  <2> SUFFICES ASSUME NEW u \in Children(v) PROVE node_state[u] = "Closed"
      OBVIOUS
  <2>1. n \in DOMAIN dfs_stack /\ ~ \E q \in DOMAIN dfs_stack : q > n
      BY <1>2
  <2>2. ~IsOn(u, pushing)
      BY <1>1 DEF IsOn
  <2> QED
      BY <2>1, <2>2, <1>2, <1>3 DEF SortInv, OpenAhead
<1>a. SortTypeOK'
    BY <1>1, <1>2, <1>3, <1>7 DEF SortTypeOK, NodeState
<1>b. OpenAhead'
  <2> SUFFICES ASSUME NEW p \in DOMAIN Popped, node_state'[Popped[p]] = "Opened",
                      NEW u \in Children(Popped[p])
               PROVE  \/ node_state'[u] = "Closed"
                      \/ \E q \in DOMAIN Popped : q > p /\ Popped[q] = u
      BY <1>2, <1>3, <1>5 DEF OpenAhead, IsOn
  <2>1. p \in DOMAIN dfs_stack /\ Popped[p] = dfs_stack[p] /\ dfs_stack[p] \in Node
      BY <1>1, <1>2 DEF SortTypeOK
  <2>2. node_state[dfs_stack[p]] = "Opened"
      BY <2>1, <1>4
  <2>3. u \in Node
      BY <2>1, <1>6
  <2>4. CASE u = v
      BY <2>4, <1>4
  <2>5. CASE u # v
    <3>1. node_state[u] = "Closed" \/ \E q \in DOMAIN dfs_stack : q > p /\ dfs_stack[q] = u
        BY <2>1, <2>2, <1>1 DEF SortInv, OpenAhead, IsOn
    <3> QED
        BY <3>1, <2>3, <2>5, <1>2, <1>4
  <2> QED
      BY <2>4, <2>5
<1>c. OpenOnStack'
  <2> SUFFICES ASSUME NEW w \in Node, node_state'[w] = "Opened"
               PROVE  \E p \in 1..(n - 1) : Popped[p] = w
      BY <1>2, <1>3 DEF OpenOnStack, IsOn
  <2>1. w # v /\ node_state[w] = "Opened"
      BY <1>4
  <2>2. PICK p \in DOMAIN dfs_stack : dfs_stack[p] = w
      BY <2>1, <1>1 DEF SortInv, OpenOnStack, IsOn
  <2> QED
      BY <2>1, <2>2, <1>2
<1>d. ClosedBelow'
    BY <1>4, <1>5, <1>6, <1>9 DEF SortInv, ClosedBelow
<1>e. OutIsClosed'
  <2> SUFFICES ASSUME NEW w \in Node
               PROVE  node_state'[w] = "Closed" <=> \E i \in 1..(m + 1) : out'[i] = w
      BY <1>7 DEF OutIsClosed, IsOn
  <2>1. node_state[w] = "Closed" <=> \E i \in 1..m : out[i] = w
      BY <1>7 DEF SortInv, OutIsClosed, IsOn
  <2>2. CASE w = v
      BY <2>2, <1>4, <1>7
  <2>3. CASE w # v
      BY <2>1, <2>3, <1>4, <1>7
  <2> QED
      BY <2>2, <2>3
<1>f. ChildrenFirst'
  <2>1. ChildrenFirst
      BY DEF SortInv
  <2>2. \A i \in 1..m : out[i] # v
      BY <1>2, <1>3, <1>7 DEF SortInv, OutIsClosed, IsOn
  <2>3. \A u \in Children(v) : \E j \in 1..m : out[j] = u
      BY <1>2, <1>6, <1>7, <1>9 DEF SortInv, OutIsClosed, IsOn
  <2> SUFFICES ASSUME NEW i \in 1..(m + 1)
               PROVE  /\ \A j \in 1..(m + 1) : out'[i] = out'[j] => i = j
                      /\ \A u \in Children(out'[i]) : \E j \in 1..(m + 1) : j < i /\ out'[j] = u
      BY <1>5, <1>7 DEF ChildrenFirst
  <2>4. CASE i = m + 1
      BY <2>2, <2>3, <2>4, <1>7
  <2>5. CASE i \in 1..m
    <3>1. \A j \in 1..(m + 1) : out'[i] = out'[j] => i = j
        BY <2>1, <2>2, <2>5, <1>7 DEF ChildrenFirst
    <3>2. \A u \in Children(out[i]) : \E j \in 1..m : j < i /\ out[j] = u
        BY <2>1, <2>5, <1>7 DEF ChildrenFirst
    <3> QED
        BY <3>1, <3>2, <2>5, <1>7
  <2> QED
      BY <2>4, <2>5, <1>7
<1>g. SourcesAhead'
  <2> SUFFICES ASSUME NEW i \in DOMAIN sources
               PROVE  node_state'[sources[i]] = "Closed" \/ IsOn(sources[i], Popped)
      BY <1>3 DEF SourcesAhead
  <2>1. sources[i] \in Node
      BY <1>1 DEF SortTypeOK
  <2>2. node_state[sources[i]] = "Closed" \/ \E p \in DOMAIN dfs_stack : dfs_stack[p] = sources[i]
      BY <1>1 DEF SortInv, SourcesAhead, IsOn
  <2> QED
      BY <2>1, <2>2, <1>2, <1>4 DEF IsOn
<1>h. PushingNew' /\ DoneEmpty' /\ CycleUnranked'
    BY <1>1, <1>3 DEF PushingNew, DoneEmpty, CycleUnranked
<1>i. AllReached'
  <2> SUFFICES ASSUME NEW S \in SUBSET Node, ClosedSet(S) PROVE Reached(S)'
      BY <1>3, <1>5 DEF AllReached, ClosedSet
  <2>1. Reached(S)
      BY DEF SortInv, AllReached
  <2>2. v \in S /\ \A p \in 1..(n - 1) : Popped[p] \in S
      BY <2>1, <1>2 DEF Reached
  <2>3. \A i \in 1..(m + 1) : out'[i] \in S
      BY <2>1, <2>2, <1>7 DEF Reached
  <2> QED
      BY <2>2, <2>3, <1>1, <1>2, <1>3, <1>7 DEF Reached
<1>j. StackRanked'
  <2> SUFFICES ASSUME NEW f \in [Node -> Nat], Ranks(f),
                      NEW w \in Node, node_state'[w] = "Opened"
               PROVE  \E p \in DOMAIN Popped :
                        /\ Popped[p] = w
                        /\ \A q \in DOMAIN Popped : q > p => f[Popped[q]] < f[w]
    <3>1. \A i \in DOMAIN pushing' : FALSE
        BY <1>1, <1>3
    <3> QED
        BY <3>1, <1>3, <1>5 DEF StackRanked, Ranks, RankedUnder
  <2>1. w # v /\ node_state[w] = "Opened"
      BY <1>4
  <2>2. PICK p \in DOMAIN dfs_stack :
           dfs_stack[p] = w /\ \A q \in DOMAIN dfs_stack : q > p => f[dfs_stack[q]] < f[w]
      BY <2>1, <1>1 DEF SortInv, StackRanked, RankedUnder
  <2>3. p \in DOMAIN Popped
      BY <2>1, <2>2, <1>2
  <2>4. \A q \in DOMAIN Popped : q \in DOMAIN dfs_stack /\ Popped[q] = dfs_stack[q]
      BY <1>2
  <2> QED
      BY <2>2, <2>3, <2>4
<1> QED
    BY <1>a, <1>b, <1>c, <1>d, <1>e, <1>f, <1>g, <1>h, <1>i, <1>j DEF SortInv

\* A closed node on top is dropped: what it stood for has been met.
LEMMA SkipKeeps == SortInv /\ Skip => SortInv'
<1> SUFFICES ASSUME SortInv, Skip PROVE SortInv'
    OBVIOUS
<1> DEFINE v == Top
           n == Len(dfs_stack)
<1>1. SortTypeOK /\ dfs_stack # <<>> /\ verdict = "running" /\ pushing = <<>>
    BY DEF SortInv, Skip, Popping
<1>2. /\ v \in Node
      /\ Popped \in Seq(Node)
      /\ DOMAIN dfs_stack = 1..n
      /\ n \in Nat \ {0}
      /\ DOMAIN Popped = 1..(n - 1)
      /\ \A i \in 1..(n - 1) : Popped[i] = dfs_stack[i]
      /\ dfs_stack[n] = v
    BY <1>1, TopLemma
<1>3. /\ node_state[v] = "Closed"
      /\ dfs_stack' = Popped
      /\ node_state' = node_state /\ out' = out /\ edges' = edges /\ sources' = sources
      /\ pushing' = pushing /\ verdict' = verdict
    BY DEF Skip, Popping
<1>4. \A u : Children(u)' = Children(u)
    BY <1>3 DEF Children
<1>a. SortTypeOK'
    BY <1>1, <1>2, <1>3 DEF SortTypeOK
<1>b. OpenAhead'
  <2> SUFFICES ASSUME NEW p \in DOMAIN Popped, node_state[Popped[p]] = "Opened",
                      NEW u \in Children(Popped[p])
               PROVE  \/ node_state[u] = "Closed"
                      \/ \E q \in DOMAIN Popped : q > p /\ Popped[q] = u
      BY <1>2, <1>3, <1>4 DEF OpenAhead, IsOn
  <2>1. p \in DOMAIN dfs_stack /\ Popped[p] = dfs_stack[p]
      BY <1>2
  <2>2. node_state[u] = "Closed" \/ \E q \in DOMAIN dfs_stack : q > p /\ dfs_stack[q] = u
      BY <2>1, <1>1 DEF SortInv, OpenAhead, IsOn
  <2> QED
      BY <2>2, <1>2, <1>3
<1>c. OpenOnStack' /\ SourcesAhead'
  <2>1. \A w : node_state[w] # "Closed" /\ IsOn(w, dfs_stack) => IsOn(w, Popped)
      BY <1>2, <1>3 DEF IsOn
  <2> QED
      BY <2>1, <1>1, <1>3 DEF SortInv, OpenOnStack, SourcesAhead
<1>d. ClosedBelow' /\ OutIsClosed' /\ ChildrenFirst'
    BY <1>3, <1>4 DEF SortInv, ClosedBelow, OutIsClosed, ChildrenFirst, IsOn
<1>e. PushingNew' /\ DoneEmpty' /\ CycleUnranked'
    BY <1>1, <1>3 DEF PushingNew, DoneEmpty, CycleUnranked
<1>f. AllReached'
  <2> SUFFICES ASSUME NEW S \in SUBSET Node, ClosedSet(S) PROVE Reached(S)'
      BY <1>3, <1>4 DEF AllReached, ClosedSet
  <2>1. Reached(S)
      BY DEF SortInv, AllReached
  <2> QED
      BY <2>1, <1>2, <1>3 DEF Reached
<1>g. StackRanked'
  <2> SUFFICES ASSUME NEW f \in [Node -> Nat], Ranks(f),
                      NEW w \in Node, node_state[w] = "Opened"
               PROVE  \E p \in DOMAIN Popped :
                        /\ Popped[p] = w
                        /\ \A q \in DOMAIN Popped : q > p => f[Popped[q]] < f[w]
    <3>1. \A i \in DOMAIN pushing' : FALSE
        BY <1>1, <1>3
    <3> QED
        BY <3>1, <1>3, <1>4 DEF StackRanked, Ranks, RankedUnder
  <2>1. PICK p \in DOMAIN dfs_stack :
           dfs_stack[p] = w /\ \A q \in DOMAIN dfs_stack : q > p => f[dfs_stack[q]] < f[w]
      BY <1>1 DEF SortInv, StackRanked, RankedUnder
  <2>2. p \in DOMAIN Popped
      BY <2>1, <1>2, <1>3
  <2>3. \A q \in DOMAIN Popped : q \in DOMAIN dfs_stack /\ Popped[q] = dfs_stack[q]
      BY <1>2
  <2> QED
      BY <2>1, <2>2, <2>3
<1> QED
    BY <1>a, <1>b, <1>c, <1>d, <1>e, <1>f, <1>g DEF SortInv

\* The end of the walk changes nothing else.
LEMMA ExhaustKeeps == SortInv /\ Exhaust => SortInv'
<1> SUFFICES ASSUME SortInv, Exhaust PROVE SortInv'
    OBVIOUS
<1>1. /\ verdict = "running" /\ verdict' = "done" /\ dfs_stack = <<>> /\ pushing = <<>>
      /\ edges' = edges /\ sources' = sources /\ dfs_stack' = dfs_stack
      /\ node_state' = node_state /\ pushing' = pushing /\ out' = out
    BY DEF Exhaust
<1>2. \A u : Children(u)' = Children(u)
    BY <1>1 DEF Children
<1>3. SortTypeOK' /\ PushingNew' /\ DoneEmpty' /\ CycleUnranked'
    BY <1>1 DEF SortInv, SortTypeOK, PushingNew, DoneEmpty, CycleUnranked
<1>4. OpenAhead' /\ OpenOnStack' /\ SourcesAhead'
    BY <1>1, <1>2 DEF SortInv, OpenAhead, OpenOnStack, SourcesAhead, IsOn
<1>5. ClosedBelow' /\ OutIsClosed' /\ ChildrenFirst'
    BY <1>1, <1>2 DEF SortInv, ClosedBelow, OutIsClosed, ChildrenFirst, IsOn
<1>6. AllReached'
    BY <1>1, <1>2 DEF SortInv, AllReached, ClosedSet, Reached
<1>7. StackRanked'
    BY <1>1, <1>2 DEF SortInv, StackRanked, Ranks, RankedUnder
<1> QED
    BY <1>3, <1>4, <1>5, <1>6, <1>7 DEF SortInv

-----------------------------------------------------------------------------
(* What the walk promises. *)

\* No step of the walk breaks the invariant.
LEMMA SortInvKept == SortInv /\ [SortStep]_sortVars => SortInv'
<1>1. SortInv /\ UNCHANGED sortVars => SortInv'
  <2> SUFFICES ASSUME SortInv, UNCHANGED sortVars PROVE SortInv'
      OBVIOUS
  <2>1. /\ edges' = edges /\ sources' = sources /\ dfs_stack' = dfs_stack
        /\ node_state' = node_state /\ pushing' = pushing /\ out' = out /\ verdict' = verdict
      BY DEF sortVars
  <2>2. \A u : Children(u)' = Children(u)
      BY <2>1 DEF Children
  <2>3. SortTypeOK' /\ PushingNew' /\ DoneEmpty'
      BY <2>1 DEF SortInv, SortTypeOK, PushingNew, DoneEmpty
  <2>4. OpenAhead' /\ OpenOnStack' /\ SourcesAhead'
      BY <2>1, <2>2 DEF SortInv, OpenAhead, OpenOnStack, SourcesAhead, IsOn
  <2>5. ClosedBelow' /\ OutIsClosed' /\ ChildrenFirst'
      BY <2>1, <2>2 DEF SortInv, ClosedBelow, OutIsClosed, ChildrenFirst, IsOn
  <2>6. AllReached'
      BY <2>1, <2>2 DEF SortInv, AllReached, ClosedSet, Reached
  <2>7. StackRanked' /\ CycleUnranked'
      BY <2>1, <2>2 DEF SortInv, StackRanked, CycleUnranked, Ranks, RankedUnder
  <2> QED
      BY <2>3, <2>4, <2>5, <2>6, <2>7 DEF SortInv
<1>2. SortInv /\ SortStep => SortInv'
    BY OpenKeeps, FindCycleKeeps, PushKeeps, CloseKeeps, SkipKeeps, ExhaustKeeps DEF SortStep
<1> QED
    BY <1>1, <1>2

\* The invariant holds in every state of the walk.
THEOREM SortInvariant == SortSpec => []SortInv
    BY InitHolds, SortInvKept, PTL DEF SortSpec

\* Every state of the walk is well typed.
THEOREM SortTypes == SortSpec => []SortTypeOK
<1>1. SortInv => SortTypeOK
    BY DEF SortInv
<1> QED
    BY SortInvariant, <1>1, PTL

\* Every node is emitted at most once, after all its children.
THEOREM EmittedInOrder == SortSpec => []ChildrenFirst
<1>1. SortInv => ChildrenFirst
    BY DEF SortInv
<1> QED
    BY SortInvariant, <1>1, PTL

\* In a state of the invariant the walk has emitted what the sources reach.
LEMMA InvComplete == SortInv => EmitsReachable
<1> SUFFICES ASSUME SortInv, verdict = "done"
             PROVE  /\ ClosedSet(Emitted)
                    /\ \A S \in SUBSET Node : ClosedSet(S) => Emitted \subseteq S
    BY DEF EmitsReachable, ClosedSet
<1>1. SortTypeOK /\ \A p \in DOMAIN dfs_stack : FALSE
    BY DEF SortInv, DoneEmpty
<1>2. \A w \in Node : w \in Emitted <=> node_state[w] = "Closed"
    BY DEF SortInv, OutIsClosed, IsOn, Emitted
<1>3. Emitted \subseteq Node
    BY <1>1 DEF SortTypeOK, Emitted
<1>4. ClosedSet(Emitted)
  <2>1. \A i \in DOMAIN sources : sources[i] \in Emitted
      BY <1>1, <1>2 DEF SortInv, SourcesAhead, IsOn, SortTypeOK
  <2>2. \A w \in Emitted : Children(w) \subseteq Emitted
      BY <1>1, <1>2, <1>3, ChildLemma DEF SortInv, ClosedBelow
  <2> QED
      BY <2>1, <2>2 DEF ClosedSet
<1>5. \A S \in SUBSET Node : ClosedSet(S) => Emitted \subseteq S
    BY DEF SortInv, AllReached, Reached, Emitted
<1> QED
    BY <1>4, <1>5

\* The walk emits exactly what the sources reach.
THEOREM EmittedComplete == SortSpec => []EmitsReachable
    BY SortInvariant, InvComplete, PTL

\* A walk over every node with children that ends has put them in an order,
\* and their positions rank them.
LEMMA OrderRanks ==
  ASSUME SortInv, verdict = "done",
         \A v \in Node : edges[v] = <<>> \/ \E i \in DOMAIN sources : sources[i] = v
  PROVE  Acyclic
<1>1. SortTypeOK /\ \A p \in DOMAIN dfs_stack : FALSE
    BY DEF SortInv, DoneEmpty
<1>2. \A v \in Node : Children(v) = {} \/ \E i \in DOMAIN out : out[i] = v
  <2> SUFFICES ASSUME NEW v \in Node, edges[v] # <<>>
               PROVE  \E i \in DOMAIN out : out[i] = v
      BY DEF Children
  <2> QED
      BY <1>1 DEF SortInv, SourcesAhead, OutIsClosed, IsOn
<1>3. DOMAIN out = 1..Len(out) /\ Len(out) \in Nat
    BY <1>1 DEF SortTypeOK
<1>4. Len(out) <= Cardinality(Node)
  <2>1. out \in Injection(1..Len(out), Node)
    <3>1. out \in [1..Len(out) -> Node]
        BY <1>1, <1>3 DEF SortTypeOK
    <3>2. \A i, j \in 1..Len(out) : out[i] = out[j] => i = j
        BY <1>3 DEF SortInv, ChildrenFirst
    <3> QED
        BY <3>1, <3>2 DEF Injection, IsInjective
  <2>2. Cardinality(1..Len(out)) <= Cardinality(Node)
      BY <2>1, FS_Injection, NodeAssumption
  <2>3. Cardinality(1..Len(out)) = Len(out)
    <3> DEFINE l == Len(out)
    <3>1. 1 \in Int /\ l \in Int /\ l >= 0
        BY <1>3
    <3> HIDE DEF l
    <3>2. Cardinality(1..l) = IF 1 > l THEN 0 ELSE l - 1 + 1
        BY <3>1, FS_Interval
    <3>3. Cardinality(1..l) = l
        BY <3>1, <3>2
    <3> QED
        BY <3>3 DEF l
  <2> QED
      BY <2>2, <2>3
<1> DEFINE at == [v \in Node |-> CHOOSE i \in DOMAIN out : out[i] = v]
           f == [v \in Node |-> IF Children(v) = {} THEN 0 ELSE at[v]]
<1>a. \A v \in Node : (\E i \in DOMAIN out : out[i] = v) => at[v] \in DOMAIN out /\ out[at[v]] = v
    OBVIOUS
<1>5. \A v \in Node :
        \/ Children(v) # {} /\ f[v] \in DOMAIN out /\ out[f[v]] = v
        \/ Children(v) = {} /\ f[v] = 0
  <2> HIDE DEF at
  <2> QED
      BY <1>2, <1>a
<1>6. Cardinality(Node) \in Nat
    BY FS_CardinalityType, NodeAssumption
<1>7. f \in [Node -> 0..Cardinality(Node)]
    BY <1>3, <1>4, <1>5, <1>6
<1>8. Ranks(f)
  <2> SUFFICES ASSUME NEW v \in Node, NEW u \in Children(v) PROVE f[u] < f[v]
      BY DEF Ranks
  <2>1. u \in Node /\ f[v] \in DOMAIN out /\ out[f[v]] = v
      BY <1>1, <1>5, ChildLemma
  <2>2. PICK j \in DOMAIN out : j < f[v] /\ out[j] = u
      BY <2>1 DEF SortInv, ChildrenFirst
  <2>3. CASE Children(u) = {}
      BY <2>1, <2>3, <1>3, <1>5
  <2>4. CASE Children(u) # {}
    <3>1. f[u] \in DOMAIN out /\ out[f[u]] = u
        BY <2>1, <2>4, <1>5
    <3>2. j = f[u]
        BY <2>2, <3>1 DEF SortInv, ChildrenFirst
    <3> QED
        BY <2>2, <3>2
  <2> QED
      BY <2>3, <2>4
<1> QED
    BY <1>7, <1>8 DEF Acyclic

\* In a state of the invariant the verdict is right.
LEMMA InvVerdict == SortInv => VerdictRight
<1> SUFFICES ASSUME SortInv PROVE VerdictRight
    OBVIOUS
<1>1. ASSUME verdict = "cycle" PROVE ~Acyclic
  <2> SUFFICES ASSUME NEW f \in [Node -> 0..Cardinality(Node)], Ranks(f) PROVE FALSE
      BY DEF Acyclic
  <2>1. f \in [Node -> Nat]
      BY FS_CardinalityType, NodeAssumption
  <2> QED
      BY <2>1, <1>1 DEF SortInv, CycleUnranked
<1> QED
    BY <1>1, OrderRanks DEF VerdictRight

\* A graph is rejected exactly if it has a cycle; one that is accepted is
\* ranked as JobManager's AcyclicAssumption has it.
THEOREM CyclesFound == SortSpec => []VerdictRight
    BY SortInvariant, InvVerdict, PTL
=============================================================================
