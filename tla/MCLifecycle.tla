----------------------------- MODULE MCLifecycle -----------------------------
(***************************************************************************)
(* Configuration files for TLC: every graph of three tests whose lists of  *)
(* dependencies are in Lists, and some files with other mistakes in them.  *)
(***************************************************************************)
EXTENDS Lifecycle, TLC

CONSTANTS a, b, c

R(n, k) == [name |-> n, count |-> k]

MCNode == {a, b, c}

\* A test called n that depends on d and asks for the resources r.
Test(n, d, r, worktree) ==
  [name |-> n, depends_on |-> d, resources |-> r, requires_worktree |-> worktree,
   code_zero |-> FALSE, caches |-> n # b]

Lists == {<<>>, <<a>>, <<b>>, <<c>>, <<b, c>>, <<c, b>>, <<b, b>>}

Graphs == {[tests |-> <<Test(a, x, <<>>, TRUE), Test(b, y, <<>>, TRUE), Test(c, z, <<>>, FALSE)>>,
            resources |-> <<>>, num_worktrees |-> 1] : x \in Lists, y \in Lists, z \in Lists}

\* Two tests; the second one's name, resources, dependencies and exit codes vary.
Mistakes == {[tests |-> <<Test(a, <<>>, <<R("r", 1)>>, TRUE),
                          [Test(n, d, r, TRUE) EXCEPT !.code_zero = z]>>,
              resources |-> <<R("r", 1), R("s", 1)>>, num_worktrees |-> 1] :
               n \in {a, b}, d \in {<<a>>, <<c>>}, z \in BOOLEAN,
               r \in {<<R("q", 1)>>, <<R("r", 1), R("r", 2)>>, <<R("s", 1)>>}}

\* a depends on b, with two worktrees; a depends on b and c, all in one worktree;
\* one test that needs none.  Then a asks for two tokens where there is one (the
\* last resource of a name counts) that b and c compete for; and a asks for a
\* worktree where none is made.
MCExplore ==
  {[tests |-> <<Test(a, <<>>, <<>>, FALSE)>>, resources |-> <<>>, num_worktrees |-> 1],
   [tests |-> <<Test(a, <<b>>, <<>>, TRUE), Test(b, <<>>, <<>>, TRUE)>>,
    resources |-> <<>>, num_worktrees |-> 2],
   [tests |-> <<Test(a, <<b, c>>, <<>>, TRUE), Test(b, <<>>, <<>>, TRUE), Test(c, <<>>, <<>>, TRUE)>>,
    resources |-> <<>>, num_worktrees |-> 1],
   [tests |-> <<Test(a, <<b, c>>, <<R("r", 2)>>, FALSE), Test(b, <<>>, <<R("r", 1)>>, FALSE),
                Test(c, <<>>, <<R("r", 1)>>, FALSE)>>,
    resources |-> <<R("r", 2), R("r", 1)>>, num_worktrees |-> 0],
   [tests |-> <<Test(a, <<>>, <<>>, TRUE)>>, resources |-> <<>>, num_worktrees |-> 0]}

MCForkers == {b}

MCConfigs == Graphs \cup Mistakes \cup MCExplore
=============================================================================
