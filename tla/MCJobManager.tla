---------------------------- MODULE MCJobManager ----------------------------
(* Small instances of JobManager for TLC.                                   *)
EXTENDS JobManager

CONSTANTS c1, c2, build, check, worktree

\* check depends on build, both need a worktree.
ChainDeps == [t \in Tests |-> IF t = check THEN {build} ELSE {}]
NoDeps == [t \in Tests |-> {}]
OneWorktreeEach == [t \in Tests |-> [k \in Keys |-> 1]]
OneOfEach == [k \in Keys |-> 1]
TwoOfEach == [k \in Keys |-> 2]

\* Results stored by commit: one entry for each case.
ByCommit == [x \in Commits \X Tests |-> x]
\* Results stored by tree, the commits having the same tree.
ByTree == [x \in Commits \X Tests |-> x[2]]
EntriesByCommit == Commits \X Tests
EntriesByTree == Tests
=============================================================================
