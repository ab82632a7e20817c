------------------------ MODULE ResourcePools_proofs ------------------------
(***************************************************************************)
(* Proofs about ResourcePools, for any clients, keys, tokens and requests. *)
(***************************************************************************)
EXTENDS ResourcePools, FiniteSetTheorems, TLAPS

-----------------------------------------------------------------------------
(* Counting the tokens of a key.                                            *)

\* Sets of tokens are finite and have a number of tokens of each key.
LEMMA OfKeyFinite ==
  ASSUME NEW S \in SUBSET Tokens, NEW k
  PROVE  IsFiniteSet(OfKey(S, k)) /\ Cardinality(OfKey(S, k)) \in Nat
<1>1. OfKey(S, k) \in SUBSET Tokens
  BY DEF OfKey
<1>2. IsFiniteSet(OfKey(S, k))
  BY <1>1, FiniteAssumption, FS_Subset
<1> QED
  BY <1>2, FS_CardinalityType

\* A set with no token of a key: its count is zero, and conversely.
LEMMA OfKeyEmpty ==
  ASSUME NEW S \in SUBSET Tokens, NEW k
  PROVE  Cardinality(OfKey(S, k)) = 0 <=> OfKey(S, k) = {}
BY OfKeyFinite, FS_EmptySet

\* Counts of disjoint sets of tokens add up.
LEMMA OfKeyUnion ==
  ASSUME NEW S \in SUBSET Tokens, NEW T \in SUBSET Tokens, S \cap T = {}, NEW k
  PROVE  Cardinality(OfKey(S \cup T, k)) = Cardinality(OfKey(S, k)) + Cardinality(OfKey(T, k))
<1>1. OfKey(S \cup T, k) = OfKey(S, k) \cup OfKey(T, k) /\ OfKey(S, k) \cap OfKey(T, k) = {}
  BY DEF OfKey
<1>2. IsFiniteSet(OfKey(S, k)) /\ IsFiniteSet(OfKey(T, k))
  BY OfKeyFinite
<1>3. Cardinality(OfKey(S, k) \cup OfKey(T, k))
        = Cardinality(OfKey(S, k)) + Cardinality(OfKey(T, k)) - Cardinality(OfKey(S, k) \cap OfKey(T, k))
  BY <1>2, FS_Union
<1>4. Cardinality({}) = 0
  BY FS_EmptySet
<1>5. Cardinality(OfKey(S, k)) \in Nat /\ Cardinality(OfKey(T, k)) \in Nat
  BY OfKeyFinite
<1>6. Cardinality(OfKey(S, k) \cap OfKey(T, k)) = 0
  BY <1>1, <1>4
<1>7. Cardinality(OfKey(S, k) \cup OfKey(T, k)) = Cardinality(OfKey(S, k)) + Cardinality(OfKey(T, k))
  BY <1>3, <1>5, <1>6
<1> QED
  BY <1>1, <1>7

\* Taking tokens out lowers the count by their number.
LEMMA OfKeyMinus ==
  ASSUME NEW A \in SUBSET Tokens, NEW S \in SUBSET A, NEW k
  PROVE  Cardinality(OfKey(A \ S, k)) = Cardinality(OfKey(A, k)) - Cardinality(OfKey(S, k))
<1>1. A = (A \ S) \cup S /\ (A \ S) \cap S = {}
  OBVIOUS
<1>2. Cardinality(OfKey((A \ S) \cup S, k)) = Cardinality(OfKey(A \ S, k)) + Cardinality(OfKey(S, k))
  BY <1>1, OfKeyUnion, A \ S \in SUBSET Tokens, S \in SUBSET Tokens
<1>3. /\ Cardinality(OfKey(A \ S, k)) \in Nat
      /\ Cardinality(OfKey(S, k)) \in Nat
      /\ Cardinality(OfKey(A, k)) \in Nat
  BY OfKeyFinite, A \ S \in SUBSET Tokens, S \in SUBSET Tokens
<1>4. OfKey((A \ S) \cup S, k) = OfKey(A, k)
  BY DEF OfKey
<1>5. Cardinality(OfKey(A, k)) = Cardinality(OfKey(A \ S, k)) + Cardinality(OfKey(S, k))
  BY <1>2, <1>4
<1> QED
  BY <1>3, <1>5

-----------------------------------------------------------------------------
(* The inductive invariant.                                                 *)

\* The map has the key of each of its tokens, and the keys of all tokens that will
\* come back, unless these are worktrees and the end was abrupt.
KeysPresent ==
  /\ \A c \in Clients : pc[c] = "holding" => Wanted(c) \subseteq keys \cup {Worktree}
  /\ \A t \in avail : KeyOf[t] \in keys
  /\ closed # "abrupt" => \A c \in Clients : pc[c] = "holding" => Wanted(c) \subseteq keys
  /\ closed # "abrupt" => lost = {}

\* After an orderly end nobody uses the pools and no worktree is left in them.
EndedQuiet ==
  closed = "orderly" => /\ \A c \in Clients : pc[c] \in {"idle", "done"}
                        /\ OfKey(avail, Worktree) = {}

PoolsInv ==
  /\ TypeOK
  /\ TokensExclusive
  /\ TokensKept
  /\ AllOrNothing
  /\ NoStrandedWaiter
  /\ KeysPresent
  /\ EndedQuiet

\* Tokens that a client holds are of the keys it wanted.
LEMMA HeldWanted ==
  ASSUME TypeOK, AllOrNothing, NEW c \in Clients, NEW t \in held[c]
  PROVE  pc[c] = "holding" /\ KeyOf[t] \in Wanted(c)
<1>1. pc[c] = "holding"
  BY DEF AllOrNothing
<1>2. held[c] \in SUBSET Tokens /\ t \in Tokens /\ KeyOf[t] \in Keys
  BY KeysAssumption DEF TypeOK
<1>3. t \in OfKey(held[c], KeyOf[t])
  BY DEF OfKey
<1>4. Cardinality(OfKey(held[c], KeyOf[t])) # 0
  BY <1>2, <1>3, OfKeyEmpty
<1>5. Want[c][KeyOf[t]] # 0 /\ Want[c][KeyOf[t]] \in Nat
  BY <1>1, <1>2, <1>4, WantAssumption DEF AllOrNothing
<1> QED
  BY <1>1, <1>2, <1>5 DEF Wanted

\* New pools satisfy the invariant.
LEMMA PoolsInvInit == Init => PoolsInv
<1> SUFFICES ASSUME Init PROVE PoolsInv
  OBVIOUS
<1> USE DEF Init
<1>1. TypeOK
  BY KeysAssumption DEF TypeOK
<1>2. TokensExclusive
  BY DEF TokensExclusive
<1>3. TokensKept
  BY KeysAssumption DEF TokensKept
<1>4. AllOrNothing /\ NoStrandedWaiter /\ KeysPresent /\ EndedQuiet
  BY DEF AllOrNothing, NoStrandedWaiter, KeysPresent, EndedQuiet
<1> QED
  BY <1>1, <1>2, <1>3, <1>4 DEF PoolsInv

\* Waiting clients that still wait have as little as before when the map shrinks.
LEMMA FitsMonotone ==
  ASSUME NEW A \in SUBSET Tokens, NEW B \in SUBSET A, NEW c \in Clients,
         \A k \in Keys : Want[c][k] <= Cardinality(OfKey(B, k))
  PROVE  \A k \in Keys : Want[c][k] <= Cardinality(OfKey(A, k))
<1> TAKE k \in Keys
<1>1. OfKey(B, k) \in SUBSET OfKey(A, k)
  BY DEF OfKey
<1>2. Cardinality(OfKey(B, k)) <= Cardinality(OfKey(A, k))
  BY <1>1, OfKeyFinite, FS_Subset
<1>3. /\ Cardinality(OfKey(A, k)) \in Nat
      /\ Cardinality(OfKey(B, k)) \in Nat
      /\ Want[c][k] \in Nat
  BY OfKeyFinite, WantAssumption
<1>4. Want[c][k] <= Cardinality(OfKey(B, k))
  OBVIOUS
<1> QED
  BY <1>2, <1>3, <1>4

-----------------------------------------------------------------------------
(* Every step preserves the invariant.                                      *)

\* Clients that move between phases without tokens.
LEMMA MoveInv ==
  ASSUME PoolsInv, NEW c \in Clients, Call(c) \/ Wait(c) \/ Abandon(c)
  PROVE  PoolsInv'
<1>1. /\ pc[c] \in {"idle", "trying", "waiting"}
      /\ UNCHANGED <<keys, avail, held, later, removed, lost, closed>>
      /\ pc' \in [Clients -> {"idle", "trying", "waiting", "holding", "done"}]
      /\ pc'[c] \in {"trying", "waiting", "done"}
      /\ \A d \in Clients : d # c => pc'[d] = pc[d]
      /\ pc'[c] = "waiting" => ~Fits(c)
      /\ closed = "orderly" => pc'[c] = "done"
  BY DEF Call, Wait, Abandon, PoolsInv, TypeOK, EndedQuiet
<1>2. TypeOK' /\ TokensExclusive' /\ TokensKept'
  BY <1>1 DEF PoolsInv, TypeOK, TokensExclusive, TokensKept
<1>3. AllOrNothing'
  BY <1>1 DEF PoolsInv, AllOrNothing, OfKey
<1>4. NoStrandedWaiter'
  BY <1>1 DEF PoolsInv, NoStrandedWaiter, Fits, OfKey
<1>5. KeysPresent'
  BY <1>1 DEF PoolsInv, KeysPresent, Wanted
<1>6. EndedQuiet'
  BY <1>1 DEF PoolsInv, EndedQuiet, OfKey
<1> QED
  BY <1>2, <1>3, <1>4, <1>5, <1>6 DEF PoolsInv

\* get's grant moves the tokens it counted from the pool to the client, keeping the
\* invariant.
LEMMA TakeInv ==
  ASSUME PoolsInv, NEW c \in Clients, Take(c)
  PROVE  PoolsInv'
<1>1. PICK S \in SUBSET avail :
        /\ \A k \in Keys : Cardinality(OfKey(S, k)) = Want[c][k]
        /\ avail' = avail \ S
        /\ held' = [held EXCEPT ![c] = S]
  BY DEF Take
<1>2. /\ pc[c] = "trying" /\ held[c] = {}
      /\ pc' = [pc EXCEPT ![c] = "holding"]
      /\ UNCHANGED <<keys, later, removed, lost, closed>>
      /\ closed # "orderly"
  BY DEF Take, PoolsInv, AllOrNothing, EndedQuiet
<1>3. /\ pc'[c] = "holding" /\ held'[c] = S
      /\ \A d \in Clients : d # c => pc'[d] = pc[d] /\ held'[d] = held[d]
      /\ avail \in SUBSET Tokens /\ S \in SUBSET Tokens
  BY <1>1, <1>2 DEF PoolsInv, TypeOK
<1>4. TypeOK'
  BY <1>1, <1>2 DEF PoolsInv, TypeOK
<1>5. TokensExclusive'
  BY <1>1, <1>2, <1>3 DEF PoolsInv, TokensExclusive
<1>6. TokensKept'
  <2>1. \A t \in Tokens : t \in avail' \cup later \cup removed \cup lost \/ \E d \in Clients : t \in held'[d]
    BY <1>1, <1>2, <1>3 DEF PoolsInv, TokensKept
  <2> QED
    BY <2>1, <1>2, <1>4 DEF TokensKept, TypeOK
<1>7. AllOrNothing'
  BY <1>1, <1>3 DEF PoolsInv, AllOrNothing, OfKey
<1>8. NoStrandedWaiter'
  <2> SUFFICES ASSUME closed # "abrupt", NEW d \in Clients, pc'[d] = "waiting"
               PROVE  ~ \A k \in Keys : Want[d][k] <= Cardinality(OfKey(avail \ S, k))
    BY <1>1, <1>2 DEF NoStrandedWaiter, Fits, OfKey
  <2>1. ~Fits(d)
    BY <1>3 DEF PoolsInv, NoStrandedWaiter
  <2>2. avail \ S \in SUBSET avail
    OBVIOUS
  <2> QED
    BY <2>1, <2>2, <1>3, FitsMonotone DEF Fits
<1>9. KeysPresent'
  <2>1. \A k \in Wanted(c) : k \in keys
    <3> TAKE k \in Wanted(c)
    <3>1. k \in Keys /\ Cardinality(OfKey(S, k)) # 0
      BY <1>1, WantAssumption DEF Wanted
    <3>2. OfKey(S, k) # {}
      BY <3>1, <1>3, OfKeyEmpty
    <3> QED
      BY <3>2, <1>1 DEF OfKey, PoolsInv, KeysPresent
  <2> QED
    BY <2>1, <1>1, <1>2, <1>3 DEF PoolsInv, KeysPresent, Wanted
<1>10. EndedQuiet'
  BY <1>2 DEF EndedQuiet
<1> QED
  BY <1>4, <1>5, <1>6, <1>7, <1>8, <1>9, <1>10 DEF PoolsInv

\* The drop of Resources moves the client's tokens back, keeping the invariant.
LEMMA PutInv ==
  ASSUME PoolsInv, NEW c \in Clients, Put(c)
  PROVE  PoolsInv'
<1>1. /\ pc[c] = "holding" /\ Wanted(c) \subseteq keys
      /\ avail' = avail \cup held[c]
      /\ held' = [held EXCEPT ![c] = {}]
      /\ pc' = [Woken EXCEPT ![c] = "done"]
      /\ UNCHANGED <<keys, later, removed, lost, closed>>
      /\ closed # "orderly"
  BY DEF Put, PoolsInv, EndedQuiet
<1>2. /\ pc'[c] = "done" /\ held'[c] = {}
      /\ \A d \in Clients : d # c => /\ held'[d] = held[d]
                                     /\ pc'[d] = IF pc[d] = "waiting" THEN "trying" ELSE pc[d]
      /\ held[c] \in SUBSET Tokens
      /\ pc' \in [Clients -> {"idle", "trying", "waiting", "holding", "done"}]
  BY <1>1 DEF Woken, PoolsInv, TypeOK
<1>3. TypeOK'
  BY <1>1, <1>2 DEF PoolsInv, TypeOK
<1>4. TokensExclusive'
  BY <1>1, <1>2 DEF PoolsInv, TokensExclusive
<1>5. TokensKept'
  <2>1. \A t \in Tokens : t \in avail' \cup later \cup removed \cup lost \/ \E d \in Clients : t \in held'[d]
    BY <1>1, <1>2 DEF PoolsInv, TokensKept
  <2> QED
    BY <2>1, <1>1, <1>3 DEF TokensKept, TypeOK
<1>6. AllOrNothing'
  BY <1>2 DEF PoolsInv, AllOrNothing, OfKey
<1>7. NoStrandedWaiter'
  BY <1>2 DEF NoStrandedWaiter
<1>8. KeysPresent'
  <2>1. \A t \in held[c] : KeyOf[t] \in keys
    BY <1>1, HeldWanted DEF PoolsInv
  <2> QED
    BY <2>1, <1>1, <1>2 DEF PoolsInv, KeysPresent, Wanted
<1>9. EndedQuiet'
  BY <1>1 DEF EndedQuiet
<1> QED
  BY <1>3, <1>4, <1>5, <1>6, <1>7, <1>8, <1>9 DEF PoolsInv

\* put when a key is gone: what it did not put back is dropped, and stays accounted
\* for.
LEMMA PutPanicsInv ==
  ASSUME PoolsInv, NEW c \in Clients, PutPanics(c)
  PROVE  PoolsInv'
<1>1. PICK K \in SUBSET (Wanted(c) \cap keys) :
        /\ ~(Wanted(c) \subseteq keys)
        /\ avail' = avail \cup {t \in held[c] : KeyOf[t] \in K}
        /\ lost' = lost \cup {t \in held[c] : KeyOf[t] \notin K}
  BY DEF PutPanics
<1>2. /\ pc[c] = "holding"
      /\ held' = [held EXCEPT ![c] = {}]
      /\ pc' = [pc EXCEPT ![c] = "done"]
      /\ UNCHANGED <<keys, later, removed, closed>>
  BY DEF PutPanics
<1>3. closed = "abrupt"
  BY <1>1, <1>2 DEF PoolsInv, KeysPresent
<1>4. /\ pc'[c] = "done" /\ held'[c] = {}
      /\ \A d \in Clients : d # c => held'[d] = held[d] /\ pc'[d] = pc[d]
      /\ held[c] \in SUBSET Tokens
  BY <1>2 DEF PoolsInv, TypeOK
<1>5. TypeOK'
  BY <1>1, <1>2, <1>4 DEF PoolsInv, TypeOK
<1>6. TokensExclusive'
  BY <1>1, <1>2, <1>4 DEF PoolsInv, TokensExclusive
<1>7. TokensKept'
  <2>1. \A t \in Tokens : t \in avail' \cup later \cup removed \cup lost' \/ \E d \in Clients : t \in held'[d]
    BY <1>1, <1>2, <1>4 DEF PoolsInv, TokensKept
  <2> QED
    BY <2>1, <1>2, <1>5 DEF TokensKept, TypeOK
<1>8. AllOrNothing'
  BY <1>4 DEF PoolsInv, AllOrNothing, OfKey
<1>9. NoStrandedWaiter' /\ EndedQuiet'
  BY <1>2, <1>3 DEF NoStrandedWaiter, EndedQuiet
<1>10. KeysPresent'
  BY <1>1, <1>2, <1>3 DEF PoolsInv, KeysPresent
<1> QED
  BY <1>5, <1>6, <1>7, <1>8, <1>9, <1>10 DEF PoolsInv

\* A worktree added to the pools is a new token.
LEMMA AddInv ==
  ASSUME PoolsInv, NEW t \in Tokens, Add(t)
  PROVE  PoolsInv'
<1>1. /\ t \in later /\ closed = "no"
      /\ keys' = keys \cup {KeyOf[t]}
      /\ avail' = avail \cup {t}
      /\ later' = later \ {t}
      /\ pc' = Woken
      /\ UNCHANGED <<held, removed, lost, closed>>
  BY DEF Add
<1>2. /\ \A d \in Clients : pc'[d] = IF pc[d] = "waiting" THEN "trying" ELSE pc[d]
      /\ pc' \in [Clients -> {"idle", "trying", "waiting", "holding", "done"}]
  BY <1>1 DEF Woken, PoolsInv, TypeOK
<1>3. TypeOK'
  BY <1>1, <1>2, KeysAssumption DEF PoolsInv, TypeOK
<1>4. TokensExclusive' /\ TokensKept'
  BY <1>1 DEF PoolsInv, TokensExclusive, TokensKept
<1>5. AllOrNothing'
  BY <1>1, <1>2 DEF PoolsInv, AllOrNothing, OfKey
<1>6. NoStrandedWaiter' /\ EndedQuiet'
  BY <1>1, <1>2 DEF NoStrandedWaiter, EndedQuiet
<1>7. KeysPresent'
  BY <1>1, <1>2 DEF PoolsInv, KeysPresent, Wanted
<1> QED
  BY <1>3, <1>4, <1>5, <1>6, <1>7 DEF PoolsInv

\* Removing the worktrees takes the pool's, after all users are done or under them.
LEMMA RemoveInv ==
  ASSUME PoolsInv, TryRemove \/ TryRemoveEarly
  PROVE  PoolsInv'
<1>1. /\ closed = "no" /\ closed' \in {"orderly", "abrupt"}
      /\ closed' = "orderly" => \A c \in Clients : pc[c] \in {"idle", "done"}
      /\ keys' = keys \ {Worktree}
      /\ avail' = avail \ OfKey(avail, Worktree)
      /\ removed' = removed \cup OfKey(avail, Worktree)
      /\ UNCHANGED <<pc, held, later, lost>>
  BY DEF TryRemove, TryRemoveEarly, RemoveWorktrees
<1>2. OfKey(avail, Worktree) = {t \in avail : KeyOf[t] = Worktree}
  BY DEF OfKey
<1>3. TypeOK'
  BY <1>1, <1>2 DEF PoolsInv, TypeOK
<1>4. TokensExclusive' /\ TokensKept'
  BY <1>1, <1>2 DEF PoolsInv, TokensExclusive, TokensKept
<1>5. AllOrNothing'
  BY <1>1 DEF PoolsInv, AllOrNothing, OfKey
<1>6. NoStrandedWaiter'
  BY <1>1 DEF NoStrandedWaiter
<1>7. KeysPresent'
  BY <1>1, <1>2 DEF PoolsInv, KeysPresent, Wanted
<1>8. EndedQuiet'
  BY <1>1, <1>2 DEF EndedQuiet, OfKey
<1> QED
  BY <1>3, <1>4, <1>5, <1>6, <1>7, <1>8 DEF PoolsInv

\* The invariant of the pools is inductive.
LEMMA PoolsInvNext == PoolsInv /\ [Next]_vars => PoolsInv'
<1> SUFFICES ASSUME PoolsInv, [Next]_vars PROVE PoolsInv'
  OBVIOUS
<1>1. CASE UNCHANGED vars
  BY <1>1 DEF vars, PoolsInv, TypeOK, TokensExclusive, TokensKept, AllOrNothing,
              NoStrandedWaiter, KeysPresent, EndedQuiet, OfKey, Fits, Wanted
<1>2. CASE Next
  BY <1>2, MoveInv, TakeInv, PutInv, PutPanicsInv, AddInv, RemoveInv DEF Next
<1> QED
  BY <1>1, <1>2

-----------------------------------------------------------------------------
(* The theorems.                                                            *)

\* The invariant holds for any requests, tokens and order of calls.
THEOREM PoolsInvHolds == Spec => []PoolsInv
<1>1. Init => PoolsInv
  BY PoolsInvInit
<1>2. PoolsInv /\ [Next]_vars => PoolsInv'
  BY PoolsInvNext
<1> QED
  BY <1>1, <1>2, PTL DEF Spec

\* No token is ever in two places.
THEOREM TokensExclusiveHolds == Spec => []TokensExclusive
BY PoolsInvHolds, PTL DEF PoolsInv

\* No token vanishes, worktrees torn down under their users included.
THEOREM TokensKeptHolds == Spec => []TokensKept
BY PoolsInvHolds, PTL DEF PoolsInv

\* Who uses the pools has its whole request or nothing.
THEOREM AllOrNothingHolds == Spec => []AllOrNothing
BY PoolsInvHolds, PTL DEF PoolsInv

\* No wakeup is lost.
THEOREM NoStrandedWaiterHolds == Spec => []NoStrandedWaiter
BY PoolsInvHolds, PTL DEF PoolsInv

\* put never fails unless worktrees were removed under their users.
THEOREM PutSucceedsHolds == Spec => []PutSucceeds
<1>1. PoolsInv => PutSucceeds
  BY DEF PoolsInv, KeysPresent, PutSucceeds
<1> QED
  BY <1>1, PoolsInvHolds, PTL

\* After an orderly end every worktree is handed out for cleanup.
THEOREM WorktreesRemovedHolds == Spec => []WorktreesRemoved
<1>1. PoolsInv => WorktreesRemoved
  <2> SUFFICES ASSUME PoolsInv, closed = "orderly", NEW t \in Tokens, KeyOf[t] = Worktree
               PROVE  t \in removed \cup later
    BY DEF WorktreesRemoved, AllRemoved
  <2>1. t \notin avail
    BY DEF PoolsInv, EndedQuiet, OfKey
  <2>2. \A c \in Clients : held[c] = {}
    BY DEF PoolsInv, EndedQuiet, AllOrNothing
  <2>3. lost = {}
    BY DEF PoolsInv, KeysPresent
  <2> QED
    BY <2>1, <2>2, <2>3 DEF PoolsInv, TokensKept
<1> QED
  BY <1>1, PoolsInvHolds, PTL

-----------------------------------------------------------------------------
(* ResourcePools implements ResourceAlloc.                                  *)

\* New pools are ResourceAlloc's initial state.
LEMMA AllocInit == Init => Alloc!Init
BY DEF Init, Alloc!Init

\* What the variables of ResourceAlloc stand for.
Free == [k \in Keys |-> Cardinality(OfKey(avail, k))]
Asking == {c \in Clients : pc[c] \in {"trying", "waiting"}}
Holding == {c \in Clients : pc[c] = "holding"}
Retired == IF closed = "no" THEN {} ELSE {Worktree}

\* get's grant serves the request.
LEMMA TakeServes ==
  ASSUME PoolsInv, NEW c \in Clients, Take(c)
  PROVE  Alloc!Serve(c)
<1>1. PICK S \in SUBSET avail :
        /\ \A k \in Keys : Cardinality(OfKey(S, k)) = Want[c][k]
        /\ avail' = avail \ S
  BY DEF Take
<1>2. /\ pc[c] = "trying" /\ pc' = [pc EXCEPT ![c] = "holding"]
      /\ closed' = closed /\ Fits(c)
  BY DEF Take
<1>3. \A k \in Keys : Cardinality(OfKey(avail', k)) = Cardinality(OfKey(avail, k)) - Want[c][k]
  BY <1>1, OfKeyMinus DEF PoolsInv, TypeOK
<1>4. Free' = [k \in Keys |-> Free[k] - Want[c][k]]
  BY <1>3 DEF Free
<1>5. Asking' = Asking \ {c} /\ Holding' = Holding \cup {c} /\ c \in Asking /\ Retired' = Retired
  BY <1>2 DEF Asking, Holding, Retired, PoolsInv, TypeOK
<1>6. Alloc!Servable(c)
  BY <1>2 DEF Alloc!Servable, Fits
<1> QED
  BY <1>4, <1>5, <1>6 DEF Alloc!Serve, Free, Asking, Holding, Retired

\* The whole request comes back, or, after an abrupt end, the tokens of some keys.
LEMMA PutGivesBack ==
  ASSUME PoolsInv, NEW c \in Clients, Put(c) \/ PutPanics(c)
  PROVE  Alloc!GiveBack(c)
<1>1. /\ pc[c] = "holding"
      /\ held[c] \in SUBSET Tokens /\ avail \in SUBSET Tokens
      /\ avail \cap held[c] = {}
      /\ \A k \in Keys : Cardinality(OfKey(held[c], k)) = Want[c][k]
      /\ closed' = closed
      /\ pc'[c] = "done"
      /\ \A d \in Clients : d # c => pc'[d] = IF pc[d] = "waiting" /\ Put(c) THEN "trying" ELSE pc[d]
  BY DEF Put, PutPanics, Woken, PoolsInv, TypeOK, TokensExclusive, AllOrNothing
<1>2. \E K \in SUBSET Keys :
        /\ (\A k \in Retired : Want[c][k] = 0) => K = Keys
        /\ avail' = avail \cup {t \in held[c] : KeyOf[t] \in K}
  <2>1. CASE Put(c)
    <3>1. avail' = avail \cup {t \in held[c] : KeyOf[t] \in Keys}
      BY <2>1, <1>1, KeysAssumption DEF Put
    <3> QED
      BY <3>1
  <2>2. CASE PutPanics(c)
    <3>1. PICK K \in SUBSET (Wanted(c) \cap keys) :
            /\ ~(Wanted(c) \subseteq keys)
            /\ avail' = avail \cup {t \in held[c] : KeyOf[t] \in K}
      BY <2>2 DEF PutPanics
    <3>2. Worktree \in Wanted(c) /\ closed = "abrupt"
      BY <1>1, <3>1 DEF PoolsInv, KeysPresent
    <3>3. Worktree \in Retired /\ Want[c][Worktree] # 0
      BY <3>2, WantAssumption DEF Retired, Wanted
    <3>4. K \in SUBSET Keys
      BY DEF Wanted
    <3> QED
      BY <3>1, <3>3, <3>4
  <2> QED
    BY <2>1, <2>2
<1>3. PICK K \in SUBSET Keys :
        /\ (\A k \in Retired : Want[c][k] = 0) => K = Keys
        /\ avail' = avail \cup {t \in held[c] : KeyOf[t] \in K}
  BY <1>2
<1>4. \A k \in Keys : Cardinality(OfKey(avail', k))
        = IF k \in K THEN Cardinality(OfKey(avail, k)) + Want[c][k] ELSE Cardinality(OfKey(avail, k))
  <2> TAKE k \in Keys
  <2> DEFINE T == {t \in held[c] : KeyOf[t] \in K}
  <2>1. T \in SUBSET Tokens /\ avail \cap T = {} /\ avail' = avail \cup T
    BY <1>1, <1>3
  <2>2. OfKey(T, k) = IF k \in K THEN OfKey(held[c], k) ELSE {}
    BY DEF OfKey
  <2>3. Cardinality(OfKey(T, k)) = IF k \in K THEN Want[c][k] ELSE 0
    BY <2>2, <1>1, FS_EmptySet
  <2> HIDE DEF T
  <2>4. Cardinality(OfKey(avail', k)) = Cardinality(OfKey(avail, k)) + Cardinality(OfKey(T, k))
    BY <2>1, <1>1, OfKeyUnion
  <2>5. Cardinality(OfKey(avail, k)) \in Nat
    BY <1>1, OfKeyFinite
  <2> QED
    BY <2>3, <2>4, <2>5
<1>5. Free' = [k \in Keys |-> IF k \in K THEN Free[k] + Want[c][k] ELSE Free[k]]
  BY <1>4 DEF Free
<1>6. Asking' = Asking /\ Holding' = Holding \ {c} /\ c \in Holding /\ Retired' = Retired
  BY <1>1 DEF Asking, Holding, Retired
<1> QED
  BY <1>3, <1>5, <1>6 DEF Alloc!GiveBack, Free, Asking, Holding, Retired

\* add supplies one token of the worktree key.
LEMMA AddSupplies ==
  ASSUME PoolsInv, NEW t \in Tokens, Add(t)
  PROVE  Alloc!Supply(KeyOf[t])
<1>1. /\ avail' = avail \cup {t} /\ t \notin avail /\ closed' = closed
      /\ avail \in SUBSET Tokens
      /\ \A d \in Clients : pc'[d] = IF pc[d] = "waiting" THEN "trying" ELSE pc[d]
  BY DEF Add, Woken, PoolsInv, TypeOK, TokensExclusive
<1>2. \A k \in Keys : Cardinality(OfKey(avail', k))
        = IF k = KeyOf[t] THEN Cardinality(OfKey(avail, k)) + 1 ELSE Cardinality(OfKey(avail, k))
  <2> TAKE k \in Keys
  <2>1. Cardinality(OfKey(avail', k)) = Cardinality(OfKey(avail, k)) + Cardinality(OfKey({t}, k))
    BY <1>1, OfKeyUnion
  <2>2. OfKey({t}, k) = IF k = KeyOf[t] THEN {t} ELSE {}
    BY DEF OfKey
  <2>3. Cardinality({t}) = 1 /\ Cardinality({}) = 0
    BY FS_Singleton, FS_EmptySet
  <2>4. Cardinality(OfKey(avail, k)) \in Nat
    BY <1>1, OfKeyFinite
  <2>5. Cardinality(OfKey({t}, k)) = IF k = KeyOf[t] THEN 1 ELSE 0
    BY <2>2, <2>3
  <2> QED
    BY <2>1, <2>4, <2>5
<1>3. Free' = [Free EXCEPT ![KeyOf[t]] = @ + 1]
  BY <1>2, KeysAssumption DEF Free
<1>4. Asking' = Asking /\ Holding' = Holding /\ Retired' = Retired
  BY <1>1 DEF Asking, Holding, Retired
<1> QED
  BY <1>3, <1>4 DEF Alloc!Supply, Free, Asking, Holding, Retired

\* try_remove_worktrees retires the worktree key.
LEMMA RemoveRetires ==
  ASSUME PoolsInv, TryRemove \/ TryRemoveEarly
  PROVE  Alloc!Retire(Worktree)
<1>1. /\ avail' = avail \ OfKey(avail, Worktree) /\ pc' = pc
      /\ closed = "no" /\ closed' \in {"orderly", "abrupt"}
  BY DEF TryRemove, TryRemoveEarly, RemoveWorktrees
<1>2. \A k \in Keys : OfKey(avail', k) = IF k = Worktree THEN {} ELSE OfKey(avail, k)
  BY <1>1 DEF OfKey
<1>3. Free' = [Free EXCEPT ![Worktree] = 0]
  BY <1>2, KeysAssumption, FS_EmptySet DEF Free
<1>4. Asking' = Asking /\ Holding' = Holding /\ Retired' = Retired \cup {Worktree}
  BY <1>1 DEF Asking, Holding, Retired
<1> QED
  BY <1>3, <1>4 DEF Alloc!Retire, Free, Asking, Holding, Retired

\* Every step of the pools is one of ResourceAlloc or none of its concern.
LEMMA AllocStep == PoolsInv /\ [Next]_vars => [Alloc!Next]_(Alloc!vars)
<1> SUFFICES ASSUME PoolsInv, [Next]_vars PROVE [Alloc!Next]_(Alloc!vars)
  OBVIOUS
<1>1. CASE UNCHANGED vars
  BY <1>1 DEF vars, Alloc!vars, OfKey
<1>2. ASSUME NEW c \in Clients, Call(c) PROVE Alloc!Ask(c)
  <2>1. /\ pc[c] = "idle" /\ pc' = [pc EXCEPT ![c] = "trying"]
        /\ UNCHANGED <<avail, closed>>
    BY <1>2 DEF Call
  <2>2. Asking' = Asking \cup {c} /\ Holding' = Holding /\ c \notin Asking \cup Holding
    BY <2>1 DEF Asking, Holding, PoolsInv, TypeOK
  <2>3. Free' = Free /\ Retired' = Retired
    BY <2>1 DEF Free, Retired, OfKey
  <2> QED
    BY <2>2, <2>3 DEF Alloc!Ask, Free, Asking, Holding, Retired
<1>3. ASSUME NEW c \in Clients, Abandon(c) PROVE Alloc!GiveUp(c)
  <2>1. /\ pc[c] \in {"trying", "waiting"} /\ pc' = [pc EXCEPT ![c] = "done"]
        /\ UNCHANGED <<avail, closed>>
    BY <1>3 DEF Abandon
  <2>2. Asking' = Asking \ {c} /\ Holding' = Holding /\ c \in Asking
    BY <2>1 DEF Asking, Holding, PoolsInv, TypeOK
  <2>3. Free' = Free /\ Retired' = Retired
    BY <2>1 DEF Free, Retired, OfKey
  <2> QED
    BY <2>2, <2>3 DEF Alloc!GiveUp, Free, Asking, Holding, Retired
<1>4. ASSUME NEW c \in Clients, Wait(c) PROVE UNCHANGED Alloc!vars
  <2>1. /\ pc[c] = "trying" /\ pc' = [pc EXCEPT ![c] = "waiting"]
        /\ UNCHANGED <<avail, closed>>
    BY <1>4 DEF Wait
  <2>2. Asking' = Asking /\ Holding' = Holding
    BY <2>1 DEF Asking, Holding, PoolsInv, TypeOK
  <2>3. Free' = Free /\ Retired' = Retired
    BY <2>1 DEF Free, Retired, OfKey
  <2> QED
    BY <2>2, <2>3 DEF Alloc!vars, Free, Asking, Holding, Retired
<1>5. CASE \E c \in Clients : Call(c) \/ Take(c) \/ Abandon(c) \/ Put(c) \/ PutPanics(c)
  BY <1>5, <1>2, <1>3, TakeServes, PutGivesBack DEF Alloc!Next
<1>6. CASE \E c \in Clients : Wait(c)
  BY <1>6, <1>4
<1>7. CASE (\E t \in Tokens : Add(t)) \/ TryRemove \/ TryRemoveEarly
  BY <1>7, AddSupplies, RemoveRetires, KeysAssumption DEF Alloc!Next
<1> QED
  BY <1>1, <1>5, <1>6, <1>7 DEF Next

\* The pools implement ResourceAlloc: each request is served at once and whole, and
\* gives back what it got.
THEOREM AllocSafeHolds == Spec => AllocSafe
<1>1. Init => Alloc!Init
  BY AllocInit
<1>2. PoolsInv /\ [Next]_vars => [Alloc!Next]_(Alloc!vars)
  BY AllocStep
<1> QED
  BY <1>1, <1>2, PoolsInvHolds, PTL DEF Spec, AllocSafe, Alloc!Spec
=============================================================================
