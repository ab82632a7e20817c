---------------------------- MODULE ResourcePools ----------------------------
(***************************************************************************)
(* Pools and Resources of resource.rs: a mutex-protected map from resource *)
(* keys to tokens and a condition variable.  Pools::get takes all it wants *)
(* under the mutex or waits; dropping a Resources puts its tokens back and *)
(* wakes every waiter; worktrees are added while jobs run and removed at   *)
(* the end.  Clients are jobs: each calls get once, holds the Resources it *)
(* returned, and is done, or gives up while it waits.                      *)
(***************************************************************************)
EXTENDS Naturals, FiniteSets

CONSTANTS
  Clients,       \* concurrent users
  Keys,          \* ResourceKeys
  Worktree,      \* the key of worktrees
  Tokens,        \* Resources (worktrees and user tokens)
  KeyOf,         \* KeyOf[t]: the pool token t belongs to
  Initial,       \* tokens given to Pools::new; the others are added later
  Want           \* Want[c][k]: how many tokens of key k client c asks for

ASSUME KeysAssumption ==
  /\ Worktree \in Keys
  /\ KeyOf \in [Tokens -> Keys]
  /\ Initial \subseteq Tokens
ASSUME FiniteAssumption == IsFiniteSet(Tokens)
ASSUME WantAssumption == Want \in [Clients -> [Keys -> Nat]]

OfKey(S, k) == {t \in S : KeyOf[t] = k}
Wanted(c) == {k \in Keys : Want[c][k] > 0}

VARIABLES
  keys,      \* keys present in the map
  avail,     \* tokens in the map
  pc,        \* "idle", "trying" (about to lock the mutex), "waiting" on the
             \* condition variable, "holding" a Resources, or "done"
  held,      \* held[c]: tokens of c's Resources
  later,     \* tokens not added yet
  removed,   \* tokens try_remove_worktrees returned
  lost,      \* tokens dropped by a put that panicked
  closed     \* the end of watch_loop, after which try_remove_worktrees was called:
             \* "orderly", once the jobs had settled, "abrupt", or "no" end yet

vars == <<keys, avail, pc, held, later, removed, lost, closed>>

Init ==
  /\ keys = {KeyOf[t] : t \in Initial}
  /\ avail = Initial
  /\ pc = [c \in Clients |-> "idle"]
  /\ held = [c \in Clients |-> {}]
  /\ later = Tokens \ Initial
  /\ removed = {}
  /\ lost = {}
  /\ closed = "no"

\* Condvar::notify_all: every waiter will lock the mutex again and check.
Woken == [c \in Clients |-> IF pc[c] = "waiting" THEN "trying" ELSE pc[c]]

Fits(c) == \A k \in Keys : Want[c][k] <= Cardinality(OfKey(avail, k))

-----------------------------------------------------------------------------
(* Pools::get.                                                              *)

Call(c) ==
  /\ pc[c] = "idle"
  /\ closed # "orderly"
  /\ pc' = [pc EXCEPT ![c] = "trying"]
  /\ UNCHANGED <<keys, avail, held, later, removed, lost, closed>>

\* Mutants: take what there is of each key; leave the tokens in the map.
TakeUpTo(c) ==
  /\ pc[c] = "trying"
  /\ \A k \in Wanted(c) : OfKey(avail, k) # {}
  /\ \E S \in SUBSET avail :
       /\ \A k \in Keys : Cardinality(OfKey(S, k)) <= Want[c][k]
       /\ avail' = avail \ S
       /\ held' = [held EXCEPT ![c] = S]
  /\ pc' = [pc EXCEPT ![c] = "holding"]
  /\ UNCHANGED <<keys, later, removed, lost, closed>>
TakeCopies(c) ==
  /\ pc[c] = "trying"
  /\ Fits(c)
  /\ \E S \in SUBSET avail :
       /\ \A k \in Keys : Cardinality(OfKey(S, k)) = Want[c][k]
       /\ held' = [held EXCEPT ![c] = S]
  /\ pc' = [pc EXCEPT ![c] = "holding"]
  /\ UNCHANGED <<keys, avail, later, removed, lost, closed>>

\* Everything there: the last Want[c][k] tokens of each vector leave the map.
Take(c) ==
  /\ pc[c] = "trying"
  /\ Fits(c)
  /\ \E S \in SUBSET avail :
       /\ \A k \in Keys : Cardinality(OfKey(S, k)) = Want[c][k]
       /\ avail' = avail \ S
       /\ held' = [held EXCEPT ![c] = S]
  /\ pc' = [pc EXCEPT ![c] = "holding"]
  /\ UNCHANGED <<keys, later, removed, lost, closed>>

\* Something missing: wait, having taken nothing.
Wait(c) ==
  /\ pc[c] = "trying"
  /\ ~Fits(c)
  /\ pc' = [pc EXCEPT ![c] = "waiting"]
  /\ UNCHANGED <<keys, avail, held, later, removed, lost, closed>>

\* The future is dropped, as when the job observes its cancellation.
Abandon(c) ==
  /\ pc[c] \in {"trying", "waiting"}
  /\ pc' = [pc EXCEPT ![c] = "done"]
  /\ UNCHANGED <<keys, avail, held, later, removed, lost, closed>>

-----------------------------------------------------------------------------
(* Pools::put, from the drop of a Resources.                                *)

\* Mutants: the returned tokens replace those of their keys in the map; only one
\* waiter is notified.
PutReplaces(c) ==
  /\ pc[c] = "holding"
  /\ Wanted(c) \subseteq keys
  /\ avail' = {t \in avail : KeyOf[t] \notin Wanted(c)} \cup held[c]
  /\ held' = [held EXCEPT ![c] = {}]
  /\ pc' = [Woken EXCEPT ![c] = "done"]
  /\ UNCHANGED <<keys, later, removed, lost, closed>>
PutNotifiesOne(c) ==
  /\ pc[c] = "holding"
  /\ Wanted(c) \subseteq keys
  /\ avail' = avail \cup held[c]
  /\ held' = [held EXCEPT ![c] = {}]
  /\ \E w \in Clients :
       /\ pc[w] = "waiting" \/ \A x \in Clients : pc[x] # "waiting"
       /\ pc' = [pc EXCEPT ![w] = IF @ = "waiting" THEN "trying" ELSE @, ![c] = "done"]
  /\ UNCHANGED <<keys, later, removed, lost, closed>>

Put(c) ==
  /\ pc[c] = "holding"
  /\ Wanted(c) \subseteq keys
  /\ avail' = avail \cup held[c]
  /\ held' = [held EXCEPT ![c] = {}]
  /\ pc' = [Woken EXCEPT ![c] = "done"]
  /\ UNCHANGED <<keys, later, removed, lost, closed>>

\* A key is gone from the map: the expect fails.  The keys that the map's order
\* puts first have been given back, the other tokens are lost, nobody is notified.
PutPanics(c) ==
  /\ pc[c] = "holding"
  /\ \E K \in SUBSET (Wanted(c) \cap keys) :
       /\ ~(Wanted(c) \subseteq keys)
       /\ avail' = avail \cup {t \in held[c] : KeyOf[t] \in K}
       /\ lost' = lost \cup {t \in held[c] : KeyOf[t] \notin K}
  /\ held' = [held EXCEPT ![c] = {}]
  /\ pc' = [pc EXCEPT ![c] = "done"]
  /\ UNCHANGED <<keys, later, removed, closed>>

-----------------------------------------------------------------------------
(* Pools::add and Pools::try_remove_worktrees.                              *)

\* Mutant: add trusts that nobody can be waiting yet.
AddSilently(t) ==
  /\ t \in later
  /\ closed = "no"
  /\ keys' = keys \cup {KeyOf[t]}
  /\ avail' = avail \cup {t}
  /\ later' = later \ {t}
  /\ UNCHANGED <<pc, held, removed, lost, closed>>

Add(t) ==
  /\ t \in later
  /\ closed = "no"
  /\ keys' = keys \cup {KeyOf[t]}
  /\ avail' = avail \cup {t}
  /\ later' = later \ {t}
  /\ pc' = Woken
  /\ UNCHANGED <<held, removed, lost, closed>>

RemoveWorktrees ==
  /\ closed = "no"
  /\ keys' = keys \ {Worktree}
  /\ avail' = avail \ OfKey(avail, Worktree)
  /\ removed' = removed \cup OfKey(avail, Worktree)
  /\ UNCHANGED <<pc, held, later, lost>>

\* watch_loop ended by a shutdown and waited for the jobs.  Mutant: it did not.
TryRemoveUnsettled ==
  /\ closed' = "orderly"
  /\ RemoveWorktrees
TryRemove ==
  /\ \A c \in Clients : pc[c] \in {"idle", "done"}
  /\ closed' = "orderly"
  /\ RemoveWorktrees

\* watch_loop ended by an error: jobs may be anywhere, and more may start.
TryRemoveEarly ==
  /\ closed' = "abrupt"
  /\ RemoveWorktrees

Next ==
  \/ \E c \in Clients :
       Call(c) \/ Take(c) \/ Wait(c) \/ Abandon(c) \/ Put(c) \/ PutPanics(c)
  \/ \E t \in Tokens : Add(t)
  \/ TryRemove
  \/ TryRemoveEarly

Spec == Init /\ [][Next]_vars

\* A task that was woken is polled again; holders may hold for ever.
FairSpec == Spec /\ \A c \in Clients : WF_vars(Take(c) \/ Wait(c))
\* Jobs end and worktrees get created.
Busy == (\A c \in Clients : WF_vars(Put(c))) /\ \A t \in Tokens : WF_vars(Add(t))
-----------------------------------------------------------------------------
(* Properties.                                                              *)

TypeOK ==
  /\ keys \in SUBSET Keys
  /\ avail \in SUBSET Tokens
  /\ pc \in [Clients -> {"idle", "trying", "waiting", "holding", "done"}]
  /\ held \in [Clients -> SUBSET Tokens]
  /\ later \in SUBSET Tokens
  /\ removed \in SUBSET Tokens
  /\ lost \in SUBSET Tokens
  /\ closed \in {"no", "orderly", "abrupt"}

\* No token is duplicated: one that is in the map, removed, lost or not added yet
\* is with no client, and no two clients have the same one.
TokensExclusive ==
  /\ \A c, d \in Clients : c # d => held[c] \cap held[d] = {}
  /\ \A c \in Clients : held[c] \cap (avail \cup later \cup removed \cup lost) = {}
  /\ avail \cap (later \cup removed \cup lost) = {}
  /\ later \cap (removed \cup lost) = {}
  /\ removed \cap lost = {}

\* No token vanishes, whatever the order of calls.
TokensKept == Tokens = avail \cup later \cup removed \cup lost \cup UNION {held[c] : c \in Clients}

\* A client has exactly what it asked for, or nothing: nobody waits with part of
\* a request in hand, the way two clients could block each other.
AllOrNothing ==
  \A c \in Clients :
    IF pc[c] = "holding"
    THEN \A k \in Keys : Cardinality(OfKey(held[c], k)) = Want[c][k]
    ELSE held[c] = {}

\* No wakeup is lost: whoever waits on the condition variable could not be served
\* from what is in the map now (a put that panics after an abrupt end notifies
\* nobody).
NoStrandedWaiter ==
  closed # "abrupt" => \A c \in Clients : pc[c] = "waiting" => ~Fits(c)

\* Unless the end is abrupt, put finds the key of every token it gives back, so
\* that its expect("invalid resource key") is never hit and no token is lost.
PutSucceeds ==
  closed # "abrupt" => /\ \A c \in Clients : pc[c] = "holding" => Wanted(c) \subseteq keys
                       /\ lost = {}

\* After try_remove_worktrees every worktree that was ever created has been
\* returned for cleanup: if the jobs had settled, or, as the comments in watch
\* have it, always.
AllRemoved == \A t \in Tokens : KeyOf[t] = Worktree => t \in removed \cup later
WorktreesRemoved == closed = "orderly" => AllRemoved
WorktreesRemovedAlways == closed # "no" => AllRemoved

\* If jobs end and worktrees get created, every request is served, unless its
\* client gives up or the end is abrupt.
RequestsServed ==
  Busy => \A c \in Clients : pc[c] = "trying" ~> pc[c] \in {"holding", "done"} \/ closed = "abrupt"

\* The pools do what ResourceAlloc promises, underutilization included.
Alloc == INSTANCE ResourceAlloc WITH
  Clients <- Clients, Keys <- Keys, Want <- Want,
  Initial <- [k \in Keys |-> Cardinality(OfKey(Initial, k))],
  free    <- [k \in Keys |-> Cardinality(OfKey(avail, k))],
  asking  <- {c \in Clients : pc[c] \in {"trying", "waiting"}},
  holding <- {c \in Clients : pc[c] = "holding"},
  retired <- IF closed = "no" THEN {} ELSE {Worktree}
AllocSafe == Alloc!Spec
AllocFair == Alloc!FairSpec
=============================================================================
