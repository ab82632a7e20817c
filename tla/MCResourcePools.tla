--------------------------- MODULE MCResourcePools ---------------------------
(* Instances of ResourcePools for TLC: four jobs over worktrees, which      *)
(* are created while jobs already ask for them, and user tokens. *)
EXTENDS ResourcePools, TLC

CONSTANTS c1, c2, c3, c4, w1, w2, u1, u2, token

MCKeys == {Worktree, token}
MCKeyOf == (w1 :> Worktree) @@ (w2 :> Worktree) @@ (u1 :> token) @@ (u2 :> token)
MCTokens == DOMAIN MCKeyOf
MCInitial == {u1, u2}
\* One job wants a worktree, two a worktree and a token, one both tokens and no
\* worktree.
MCWant == (c1 :> ((Worktree :> 1) @@ (token :> 0)))
       @@ (c2 :> ((Worktree :> 1) @@ (token :> 1)))
       @@ (c3 :> ((Worktree :> 0) @@ (token :> 2)))
       @@ (c4 :> ((Worktree :> 1) @@ (token :> 1)))
=============================================================================
