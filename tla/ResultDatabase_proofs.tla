------------------------ MODULE ResultDatabase_proofs -----------------------
(***************************************************************************)
(* Proofs about ResultDatabase, for any clients, outcomes, configurations  *)
(* and number of rounds.                                                   *)
(***************************************************************************)
EXTENDS ResultDatabase, TLAPS

-----------------------------------------------------------------------------
(* The inductive invariant, in named parts.                                 *)

RunPhases == {"output", "executing", "truncated"}
EntryPhases == {"downgrade", "held"}

\* Who has which lock, and that the two kinds exclude each other.
LocksAgree ==
  /\ \A c \in Clients : pc[c] \in RunPhases <=> exl = c
  /\ \A c \in Clients : pc[c] = "held" <=> c \in sh
  /\ exl # Nobody => sh = {}

\* What a client's phase says of its configuration, its rounds and its entry.
PhasesAgree ==
  \A c \in Clients :
    /\ pc[c] # "idle" => config[c] \in Configs /\ tries[c] \in 1..MaxTries
    /\ pc[c] = "idle" => config[c] = NoResult
    /\ IF pc[c] \in EntryPhases
       THEN entry[c] \in Results /\ entry[c][1] = config[c]
       ELSE entry[c] = NoResult

\* A client that runs the test still has reason to, and the output is its own.
RunnersNeeded ==
  \A c \in Clients :
    /\ pc[c] \in RunPhases => ~Matches(c)
    /\ pc[c] \in {"executing", "truncated"} => output = c

Only(g) == \A c \in Clients : config[c] \in {g, NoResult}

\* While there is one configuration: the output belongs to the stored result, which
\* is that of every entry held, and nobody reaches a second upgrade.
OneConfigAgrees ==
  \A g \in Caching : Only(g) =>
    /\ json # NoResult /\ json[1] = g => output = json[3]
    /\ \A c \in Clients : pc[c] \in EntryPhases => entry[c] = json
    /\ \A c \in Clients : pc[c] \in {"open", "upgrade"} /\ tries[c] > 1
                            => pc[c] = "open" /\ Matches(c)

EntryInv ==
  /\ TypeOK
  /\ LocksAgree
  /\ PhasesAgree
  /\ RunnersNeeded
  /\ OneConfigAgrees

\* Results are triples that differ from the null value.
LEMMA ResultShape ==
  ASSUME NEW r \in Results
  PROVE  /\ r # NoResult
         /\ r[1] \in Configs /\ r[2] \in Outcomes /\ r[3] \in Clients \cup {Nobody}
         /\ <<r[1], r[2]>> # NoResult
BY NullAssumption DEF Results

\* An entry before any lookup satisfies the invariant.
LEMMA EntryInvInit == Init => EntryInv
<1> SUFFICES ASSUME Init PROVE EntryInv
  OBVIOUS
<1>1. TypeOK
  BY TriesAssumption DEF Init, TypeOK, Phases, Results
<1>2. LocksAgree /\ PhasesAgree /\ RunnersNeeded
  BY NullAssumption DEF Init, LocksAgree, PhasesAgree, RunnersNeeded, RunPhases, EntryPhases
<1>3. OneConfigAgrees
  BY DEF Init, OneConfigAgrees, EntryPhases
<1> QED
  BY <1>1, <1>2, <1>3 DEF EntryInv

-----------------------------------------------------------------------------
(* Every step preserves the invariant.                                      *)

\* Opening the entry, at first or again, keeps the invariant.
LEMMA OpenInv ==
  ASSUME EntryInv, NEW c \in Clients, NEW g \in Configs, Open(c, g)
  PROVE  EntryInv'
<1>1. /\ pc[c] = "idle" /\ pc' = [pc EXCEPT ![c] = "open"]
      /\ config' = [config EXCEPT ![c] = g]
      /\ tries' = [tries EXCEPT ![c] = 1]
      /\ UNCHANGED <<json, output, sh, exl, entry>>
  BY DEF Open, Move
<1>2. /\ pc'[c] = "open" /\ config'[c] = g /\ tries'[c] = 1 /\ config[c] = NoResult
      /\ \A d \in Clients : d # c => pc'[d] = pc[d] /\ config'[d] = config[d] /\ tries'[d] = tries[d]
  BY <1>1 DEF EntryInv, TypeOK, PhasesAgree
<1>3. TypeOK'
  BY <1>1, TriesAssumption DEF EntryInv, TypeOK, Phases
<1>4. LocksAgree'
  BY <1>1, <1>2 DEF EntryInv, LocksAgree, RunPhases
<1>5. PhasesAgree'
  BY <1>1, <1>2, TriesAssumption DEF EntryInv, PhasesAgree, EntryPhases
<1>6. RunnersNeeded'
  BY <1>1, <1>2 DEF EntryInv, RunnersNeeded, RunPhases, Matches
<1>7. OneConfigAgrees'
  <2> SUFFICES ASSUME NEW h \in Caching, Only(h)'
               PROVE  /\ json # NoResult /\ json[1] = h => output = json[3]
                      /\ \A d \in Clients : pc'[d] \in EntryPhases => entry[d] = json
                      /\ \A d \in Clients : pc'[d] \in {"open", "upgrade"} /\ tries'[d] > 1
                                              => pc'[d] = "open" /\ Matches(d)'
    BY <1>1 DEF OneConfigAgrees
  <2>1. Only(h)
    BY <1>2 DEF Only
  <2> QED
    BY <2>1, <1>1, <1>2 DEF EntryInv, OneConfigAgrees, Matches, EntryPhases
<1> QED
  BY <1>3, <1>4, <1>5, <1>6, <1>7 DEF EntryInv

\* Returning a result under the shared lock keeps the invariant.
LEMMA FindSharedInv ==
  ASSUME EntryInv, NEW c \in Clients, FindShared(c)
  PROVE  EntryInv'
<1>1. /\ Matches(c) /\ exl = Nobody
      /\ pc[c] = "open" /\ pc' = [pc EXCEPT ![c] = "held"]
      /\ sh' = sh \cup {c}
      /\ entry' = [entry EXCEPT ![c] = json]
      /\ UNCHANGED <<json, output, config, tries, exl>>
  BY DEF FindShared, Move
<1>2. /\ pc'[c] = "held" /\ entry'[c] = json /\ json \in Results /\ json[1] = config[c]
      /\ \A d \in Clients : d # c => pc'[d] = pc[d] /\ entry'[d] = entry[d]
  BY <1>1 DEF EntryInv, TypeOK, Matches
<1>3. TypeOK'
  BY <1>1 DEF EntryInv, TypeOK, Phases
<1>4. LocksAgree'
  BY <1>1, <1>2 DEF EntryInv, LocksAgree, RunPhases
<1>5. PhasesAgree'
  BY <1>1, <1>2 DEF EntryInv, PhasesAgree, EntryPhases
<1>6. RunnersNeeded'
  BY <1>1, <1>2 DEF EntryInv, RunnersNeeded, RunPhases, Matches
<1>7. OneConfigAgrees'
  BY <1>1, <1>2 DEF EntryInv, OneConfigAgrees, Only, Matches, EntryPhases
<1> QED
  BY <1>3, <1>4, <1>5, <1>6, <1>7 DEF EntryInv

\* Giving up the shared lock for the exclusive one, or going round the loop, keeps
\* the invariant.
LEMMA UpgradeInv ==
  ASSUME EntryInv, NEW c \in Clients, StartUpgrade(c) \/ Retry(c)
  PROVE  EntryInv'
<1>1. /\ pc[c] \in {"open", "upgrade"}
      /\ pc'[c] \in {"open", "upgrade", "done"}
      /\ pc' \in [Clients -> Phases]
      /\ \A d \in Clients : d # c => pc'[d] = pc[d] /\ tries'[d] = tries[d]
      /\ tries' \in [Clients -> 0..MaxTries]
      /\ tries'[c] \in 1..MaxTries
      /\ UNCHANGED <<json, output, config, sh, exl, entry>>
  BY TriesAssumption DEF StartUpgrade, Retry, Move, EntryInv, TypeOK, Phases, PhasesAgree
<1>2. \/ StartUpgrade(c) /\ pc'[c] = "upgrade" /\ ~Matches(c) /\ pc[c] = "open" /\ tries'[c] = tries[c]
      \/ Retry(c) /\ pc'[c] \in {"open", "done"} /\ Matches(c)
  BY DEF StartUpgrade, Retry, Move, EntryInv, TypeOK
<1>3. TypeOK'
  BY <1>1 DEF EntryInv, TypeOK
<1>4. LocksAgree'
  BY <1>1 DEF EntryInv, LocksAgree, RunPhases
<1>5. PhasesAgree'
  BY <1>1 DEF EntryInv, PhasesAgree, EntryPhases
<1>6. RunnersNeeded'
  BY <1>1 DEF EntryInv, RunnersNeeded, RunPhases, Matches
<1>7. OneConfigAgrees'
  BY <1>1, <1>2 DEF EntryInv, OneConfigAgrees, Only, Matches, EntryPhases
<1> QED
  BY <1>3, <1>4, <1>5, <1>6, <1>7 DEF EntryInv

\* Leaving the caller with the exclusive lock keeps the invariant.
LEMMA YouRunItInv ==
  ASSUME EntryInv, NEW c \in Clients, YouRunIt(c)
  PROVE  EntryInv'
<1>1. /\ ~Matches(c) /\ exl = Nobody /\ sh = {} /\ exl' = c
      /\ pc[c] = "upgrade" /\ pc' = [pc EXCEPT ![c] = "output"]
      /\ UNCHANGED <<json, output, config, tries, sh, entry>>
  BY DEF YouRunIt, Move
<1>2. /\ pc'[c] = "output"
      /\ \A d \in Clients : d # c => pc'[d] = pc[d]
  BY <1>1 DEF EntryInv, TypeOK
<1>3. TypeOK'
  BY <1>1 DEF EntryInv, TypeOK, Phases
<1>4. LocksAgree'
  BY <1>1, <1>2, NullAssumption DEF EntryInv, LocksAgree, RunPhases
<1>5. PhasesAgree'
  BY <1>1, <1>2 DEF EntryInv, PhasesAgree, EntryPhases
<1>6. RunnersNeeded'
  BY <1>1, <1>2 DEF EntryInv, RunnersNeeded, RunPhases, Matches
<1>7. OneConfigAgrees'
  BY <1>1, <1>2 DEF EntryInv, OneConfigAgrees, Only, Matches, EntryPhases
<1> QED
  BY <1>3, <1>4, <1>5, <1>6, <1>7 DEF EntryInv

\* Creating the output files keeps the invariant: no result of the configuration is
\* stored beside them.
LEMMA ExecuteInv ==
  ASSUME EntryInv, NEW c \in Clients, Execute(c)
  PROVE  EntryInv'
<1>1. /\ pc[c] = "output" /\ pc' = [pc EXCEPT ![c] = "executing"]
      /\ output' = c
      /\ UNCHANGED <<json, config, tries, sh, exl, entry>>
      /\ ~Matches(c) /\ exl = c
  BY DEF Execute, Move, EntryInv, RunnersNeeded, LocksAgree, RunPhases
<1>2. /\ pc'[c] = "executing"
      /\ \A d \in Clients : d # c => pc'[d] = pc[d] /\ pc[d] \notin RunPhases
  BY <1>1 DEF EntryInv, TypeOK, LocksAgree
<1>3. TypeOK'
  BY <1>1 DEF EntryInv, TypeOK, Phases
<1>4. LocksAgree'
  BY <1>1, <1>2 DEF EntryInv, LocksAgree, RunPhases
<1>5. PhasesAgree'
  BY <1>1, <1>2 DEF EntryInv, PhasesAgree, EntryPhases
<1>6. RunnersNeeded'
  BY <1>1, <1>2 DEF EntryInv, RunnersNeeded, RunPhases, Matches
<1>7. OneConfigAgrees'
  <2>1. \A g \in Caching : Only(g) => ~(json # NoResult /\ json[1] = g)
    BY <1>1, NullAssumption DEF Only, Matches, EntryInv, PhasesAgree
  <2> QED
    BY <2>1, <1>1, <1>2 DEF EntryInv, OneConfigAgrees, Only, Matches, EntryPhases
<1> QED
  BY <1>3, <1>4, <1>5, <1>6, <1>7 DEF EntryInv

\* While c runs the test in the one configuration there is, no entry is held and no
\* client is past its first round.
LEMMA RunnerAlone ==
  ASSUME EntryInv, NEW c \in Clients, pc[c] \in RunPhases, NEW g \in Caching, Only(g)
  PROVE  /\ config[c] = g
         /\ \A d \in Clients : pc[d] \notin EntryPhases
         /\ \A d \in Clients : ~(pc[d] \in {"open", "upgrade"} /\ tries[d] > 1)
<1>1. config[c] = g /\ ~Matches(c)
  BY NullAssumption DEF EntryInv, PhasesAgree, RunnersNeeded, RunPhases, Only
<1>2. ~(json # NoResult /\ json[1] = g)
  BY <1>1 DEF Matches
<1>3. ASSUME NEW d \in Clients, pc[d] \in EntryPhases PROVE FALSE
  <2>1. entry[d] = json /\ entry[d] \in Results /\ entry[d][1] = config[d] /\ config[d] \in Configs
    BY <1>3 DEF EntryInv, OneConfigAgrees, PhasesAgree, EntryPhases
  <2>2. json # NoResult /\ config[d] = g
    BY <2>1, ResultShape, NullAssumption DEF Only
  <2> QED
    BY <1>2, <2>1, <2>2
<1>4. ASSUME NEW d \in Clients, pc[d] \in {"open", "upgrade"}, tries[d] > 1 PROVE FALSE
  <2>1. Matches(d) /\ config[d] = g
    BY <1>4, NullAssumption DEF EntryInv, OneConfigAgrees, PhasesAgree, Only
  <2> QED
    BY <1>2, <2>1 DEF Matches
<1> QED
  BY <1>1, <1>3, <1>4

\* Truncating the result file keeps the invariant.
LEMMA TruncateInv ==
  ASSUME EntryInv, NEW c \in Clients, Truncate(c)
  PROVE  EntryInv'
<1>1. /\ pc[c] = "executing" /\ pc' = [pc EXCEPT ![c] = "truncated"]
      /\ json' = NoResult
      /\ UNCHANGED <<output, config, tries, sh, exl, entry>>
      /\ pc[c] \in RunPhases
  BY DEF Truncate, Move, RunPhases
<1>2. /\ pc'[c] = "truncated"
      /\ \A d \in Clients : d # c => pc'[d] = pc[d]
  BY <1>1 DEF EntryInv, TypeOK
<1>3. TypeOK'
  BY <1>1 DEF EntryInv, TypeOK, Phases
<1>4. LocksAgree'
  BY <1>1, <1>2 DEF EntryInv, LocksAgree, RunPhases
<1>5. PhasesAgree'
  BY <1>1, <1>2 DEF EntryInv, PhasesAgree, EntryPhases
<1>6. RunnersNeeded'
  BY <1>1, <1>2 DEF EntryInv, RunnersNeeded, Matches
<1>7. OneConfigAgrees'
  <2> SUFFICES ASSUME NEW g \in Caching, Only(g)
               PROVE  /\ \A d \in Clients : pc'[d] \notin EntryPhases
                      /\ \A d \in Clients : ~(pc'[d] \in {"open", "upgrade"} /\ tries[d] > 1)
    BY <1>1 DEF OneConfigAgrees, Only
  <2> QED
    BY <1>1, <1>2, RunnerAlone DEF EntryPhases
<1> QED
  BY <1>3, <1>4, <1>5, <1>6, <1>7 DEF EntryInv

\* Writing the result keeps the invariant: it is the one of the output files.
LEMMA StoreInv ==
  ASSUME EntryInv, NEW c \in Clients, NEW o \in Outcomes, Store(c, o)
  PROVE  EntryInv'
<1>1. /\ pc[c] = "truncated" /\ pc' = [pc EXCEPT ![c] = "downgrade"]
      /\ json' = <<config[c], o, c>>
      /\ entry' = [entry EXCEPT ![c] = <<config[c], o, c>>]
      /\ exl' = Nobody
      /\ UNCHANGED <<output, config, tries, sh>>
      /\ pc[c] \in RunPhases
  BY DEF Store, Move, RunPhases
<1>2. /\ pc'[c] = "downgrade" /\ entry'[c] = json'
      /\ \A d \in Clients : d # c => pc'[d] = pc[d] /\ entry'[d] = entry[d] /\ pc[d] \notin RunPhases
      /\ json' \in Results /\ output = c /\ exl = c
  BY <1>1 DEF EntryInv, TypeOK, PhasesAgree, RunnersNeeded, LocksAgree, RunPhases, Results
<1>3. TypeOK'
  BY <1>1, <1>2 DEF EntryInv, TypeOK, Phases
<1>4. LocksAgree'
  BY <1>1, <1>2, NullAssumption DEF EntryInv, LocksAgree, RunPhases
<1>5. PhasesAgree'
  BY <1>1, <1>2 DEF EntryInv, PhasesAgree, EntryPhases
<1>6. RunnersNeeded'
  BY <1>1, <1>2 DEF EntryInv, RunnersNeeded, RunPhases, Matches
<1>7. OneConfigAgrees'
  <2> SUFFICES ASSUME NEW g \in Caching, Only(g)
               PROVE  /\ json' # NoResult /\ json'[1] = g => output = json'[3]
                      /\ \A d \in Clients : pc'[d] \in EntryPhases => entry'[d] = json'
                      /\ \A d \in Clients : ~(pc'[d] \in {"open", "upgrade"} /\ tries[d] > 1)
    BY <1>1 DEF OneConfigAgrees, Only
  <2>1. \A d \in Clients : pc[d] \notin EntryPhases
    BY <1>1, RunnerAlone
  <2>2. \A d \in Clients : ~(pc[d] \in {"open", "upgrade"} /\ tries[d] > 1)
    BY <1>1, RunnerAlone
  <2> QED
    BY <1>1, <1>2, <2>1, <2>2
<1> QED
  BY <1>3, <1>4, <1>5, <1>6, <1>7 DEF EntryInv

\* Getting the shared lock after storing keeps the invariant.
LEMMA DowngradedInv ==
  ASSUME EntryInv, NEW c \in Clients, Downgraded(c)
  PROVE  EntryInv'
<1>1. /\ exl = Nobody
      /\ pc[c] = "downgrade" /\ pc' = [pc EXCEPT ![c] = "held"]
      /\ sh' = sh \cup {c}
      /\ UNCHANGED <<json, output, config, tries, exl, entry>>
  BY DEF Downgraded, Move
<1>2. /\ pc'[c] = "held"
      /\ \A d \in Clients : d # c => pc'[d] = pc[d]
  BY <1>1 DEF EntryInv, TypeOK
<1>3. TypeOK'
  BY <1>1 DEF EntryInv, TypeOK, Phases
<1>4. LocksAgree'
  BY <1>1, <1>2 DEF EntryInv, LocksAgree, RunPhases
<1>5. PhasesAgree'
  BY <1>1, <1>2 DEF EntryInv, PhasesAgree, EntryPhases
<1>6. RunnersNeeded'
  BY <1>1, <1>2 DEF EntryInv, RunnersNeeded, RunPhases, Matches
<1>7. OneConfigAgrees'
  BY <1>1, <1>2 DEF EntryInv, OneConfigAgrees, Only, Matches, EntryPhases
<1> QED
  BY <1>3, <1>4, <1>5, <1>6, <1>7 DEF EntryInv

\* Letting go at any step, the death of the process included, keeps the invariant.
LEMMA StopInv ==
  ASSUME EntryInv, NEW c \in Clients, Stop(c)
  PROVE  EntryInv'
<1>1. /\ pc[c] # "idle" /\ pc' = [pc EXCEPT ![c] = "done"]
      /\ sh' = sh \ {c}
      /\ exl' = IF exl = c THEN Nobody ELSE exl
      /\ entry' = [entry EXCEPT ![c] = NoResult]
      /\ UNCHANGED <<json, output, config, tries>>
  BY DEF Stop
<1>2. /\ pc'[c] = "done" /\ entry'[c] = NoResult
      /\ \A d \in Clients : d # c => pc'[d] = pc[d] /\ entry'[d] = entry[d]
  BY <1>1 DEF EntryInv, TypeOK
<1>3. TypeOK'
  BY <1>1 DEF EntryInv, TypeOK, Phases
<1>4. LocksAgree'
  BY <1>1, <1>2, NullAssumption DEF EntryInv, LocksAgree, RunPhases
<1>5. PhasesAgree'
  BY <1>1, <1>2 DEF EntryInv, PhasesAgree, EntryPhases
<1>6. RunnersNeeded'
  BY <1>1, <1>2 DEF EntryInv, RunnersNeeded, RunPhases, Matches
<1>7. OneConfigAgrees'
  BY <1>1, <1>2 DEF EntryInv, OneConfigAgrees, Only, Matches, EntryPhases
<1> QED
  BY <1>3, <1>4, <1>5, <1>6, <1>7 DEF EntryInv

\* The invariant of an entry is inductive.
LEMMA EntryInvNext == EntryInv /\ [Next]_vars => EntryInv'
<1> SUFFICES ASSUME EntryInv, [Next]_vars PROVE EntryInv'
  OBVIOUS
<1>1. CASE UNCHANGED vars
  BY <1>1 DEF vars, EntryInv, TypeOK, LocksAgree, PhasesAgree, RunnersNeeded,
              OneConfigAgrees, Only, Matches
<1>2. CASE \E c \in Clients : (\E g \in Configs : Open(c, g)) \/ Lookup(c)
  BY <1>2, OpenInv, FindSharedInv, UpgradeInv, YouRunItInv DEF Lookup
<1>3. CASE \E c \in Clients : SetResult(c) \/ Stop(c)
  BY <1>3, ExecuteInv, TruncateInv, StoreInv, DowngradedInv, StopInv DEF SetResult
<1> QED
  BY <1>1, <1>2, <1>3 DEF Next

-----------------------------------------------------------------------------
(* The theorems.                                                            *)

\* The invariant holds whoever stops when.
THEOREM EntryInvHolds == Spec => []EntryInv
<1>1. Init => EntryInv
  BY EntryInvInit
<1>2. EntryInv /\ [Next]_vars => EntryInv'
  BY EntryInvNext
<1> QED
  BY <1>1, <1>2, PTL DEF Spec

\* Every variable keeps its type: no lookup goes beyond its last round.
THEOREM TypeCorrect == Spec => []TypeOK
BY EntryInvHolds, PTL DEF EntryInv

\* Output files and result belong together while the configuration stays the same.
THEOREM OutputMatchesHolds == Spec => []OutputMatches
<1>1. EntryInv => OutputMatches
  <2> SUFFICES ASSUME EntryInv, NEW g \in Caching, Only(g), NEW c \in Clients, pc[c] = "held"
               PROVE  output = entry[c][3]
    BY DEF OutputMatches, OutputMatchesAlways, OneConfig, Only
  <2>1. entry[c] = json /\ entry[c] \in Results /\ entry[c][1] = config[c] /\ config[c] \in Configs
    BY DEF EntryInv, OneConfigAgrees, PhasesAgree, EntryPhases
  <2>2. json # NoResult /\ json[1] = g
    BY <2>1, ResultShape, NullAssumption DEF Only
  <2> QED
    BY <2>1, <2>2 DEF EntryInv, OneConfigAgrees
<1> QED
  BY <1>1, EntryInvHolds, PTL

\* One configuration needs no third round.
THEOREM SecondRoundHolds == Spec => []SecondRoundFinds
<1>1. EntryInv => SecondRoundFinds
  BY DEF EntryInv, OneConfigAgrees, SecondRoundFinds, OneConfig, Only
<1> QED
  BY <1>1, EntryInvHolds, PTL

-----------------------------------------------------------------------------
(* ResultDatabase implements EntryStore.                                    *)

\* What the variables of EntryStore stand for.
AbsStored == Plain(json)
AbsState == [c \in Clients |-> StateAt(pc[c])]
AbsEntry == [c \in Clients |-> Plain(entry[c])]

\* An entry before any lookup is EntryStore's initial state.
LEMMA StoreInit == Init => EStore!Init
<1> SUFFICES ASSUME Init PROVE EStore!Init
  OBVIOUS
<1>1. AbsStored \in (Configs \X Outcomes) \cup {NoResult}
  BY ResultShape DEF Init, AbsStored, Plain, Results
<1>2. AbsState = [c \in Clients |-> "idle"]
  BY DEF Init, AbsState, StateAt
<1>3. AbsEntry = [c \in Clients |-> NoResult]
  BY DEF Init, AbsEntry, Plain
<1>4. config \in [Clients -> Configs \cup {NoResult}]
  BY DEF Init
<1> QED
  BY <1>1, <1>2, <1>3, <1>4 DEF EStore!Init, EStore!Results, AbsStored, AbsState, AbsEntry

\* Both levels agree on whether the stored result is one c accepts.
LEMMA MatchesAgree ==
  ASSUME EntryInv, NEW c \in Clients
  PROVE  EStore!Matches(c) <=> Matches(c)
BY ResultShape DEF EStore!Matches, Matches, Plain, EntryInv, TypeOK

\* Without the exclusive lock nobody runs, and without shared locks nobody reads.
LEMMA LocksSay ==
  ASSUME EntryInv
  PROVE  /\ exl = Nobody => EStore!NoRunner
         /\ sh = {} => EStore!NoReader
<1>1. \A c \in Clients : /\ AbsState[c] = "running" => pc[c] \in RunPhases
                         /\ AbsState[c] = "reading" => pc[c] = "held"
  BY DEF AbsState, StateAt, RunPhases, EntryInv, TypeOK, Phases
<1> QED
  BY <1>1, NullAssumption DEF EStore!NoRunner, EStore!NoReader, AbsState, EntryInv, LocksAgree

\* A client's change of phase changes its abstract state and no other.
LEMMA StateMoves ==
  ASSUME EntryInv, NEW c \in Clients, NEW p, NEW q \in Phases,
         pc[c] = p, pc' = [pc EXCEPT ![c] = q]
  PROVE  AbsState[c] = StateAt(p) /\ AbsState' = [AbsState EXCEPT ![c] = StateAt(q)]
<1>1. pc'[c] = q /\ \A d \in Clients : d # c => pc'[d] = pc[d]
  BY DEF EntryInv, TypeOK
<1>2. AbsState' = [d \in Clients |-> StateAt(pc'[d])]
  BY DEF AbsState, StateAt
<1>3. AbsState[c] = StateAt(p)
  BY DEF AbsState
<1>4. \A d \in Clients : StateAt(pc'[d]) = IF d = c THEN StateAt(q) ELSE StateAt(pc[d])
  BY <1>1
<1>5. [AbsState EXCEPT ![c] = StateAt(q)] = [d \in Clients |-> IF d = c THEN StateAt(q) ELSE StateAt(pc[d])]
  BY DEF AbsState
<1> QED
  BY <1>2, <1>3, <1>4, <1>5

\* Every step of a lookup or of its caller is one of EntryStore or none of its
\* concern.
LEMMA StoreStep == EntryInv /\ [Next]_vars => [EStore!Next]_(EStore!vars)
<1> SUFFICES ASSUME EntryInv, [Next]_vars PROVE [EStore!Next]_(EStore!vars)
  OBVIOUS
<1>1. CASE UNCHANGED vars
  BY <1>1 DEF vars, EStore!vars, StateAt, Plain
<1>2. ASSUME NEW c \in Clients, NEW g \in Configs, Open(c, g) PROVE EStore!Ask(c, g)
  <2>0. pc[c] = "idle" /\ pc' = [pc EXCEPT ![c] = "open"]
    BY <1>2 DEF Open, Move
  <2>1. AbsState[c] = "idle" /\ AbsState' = [AbsState EXCEPT ![c] = "asking"]
    BY <2>0, StateMoves DEF StateAt, Phases
  <2>2. AbsStored' = AbsStored /\ AbsEntry' = AbsEntry /\ config' = [config EXCEPT ![c] = g]
    BY <1>2 DEF Open, AbsStored, AbsEntry, Plain
  <2> QED
    BY <2>1, <2>2 DEF EStore!Ask, EStore!Move, AbsStored, AbsState, AbsEntry
<1>3. ASSUME NEW c \in Clients, FindShared(c) PROVE EStore!Find(c)
  <2>0. pc[c] = "open" /\ pc' = [pc EXCEPT ![c] = "held"]
    BY <1>3 DEF FindShared, Move
  <2>1. AbsState[c] = "asking" /\ AbsState' = [AbsState EXCEPT ![c] = "reading"]
    BY <2>0, StateMoves DEF StateAt, Phases
  <2>2. AbsStored' = AbsStored /\ config' = config
    BY <1>3 DEF FindShared, AbsStored, Plain
  <2>3. AbsEntry' = [AbsEntry EXCEPT ![c] = AbsStored]
    BY <1>3 DEF FindShared, AbsStored, AbsEntry, Plain, EntryInv, TypeOK
  <2>4. EStore!Matches(c) /\ EStore!NoRunner
    BY <1>3, MatchesAgree, LocksSay DEF FindShared
  <2> QED
    BY <2>1, <2>2, <2>3, <2>4 DEF EStore!Find, EStore!Move, AbsStored, AbsState, AbsEntry
<1>4. ASSUME NEW c \in Clients, YouRunIt(c) PROVE EStore!Start(c)
  <2>0. pc[c] = "upgrade" /\ pc' = [pc EXCEPT ![c] = "output"]
    BY <1>4 DEF YouRunIt, Move
  <2>1. AbsState[c] = "asking" /\ AbsState' = [AbsState EXCEPT ![c] = "running"]
    BY <2>0, StateMoves DEF StateAt, Phases
  <2>2. AbsStored' = AbsStored /\ config' = config /\ AbsEntry' = AbsEntry
    BY <1>4 DEF YouRunIt, AbsStored, AbsEntry, Plain
  <2>3. ~EStore!Matches(c) /\ EStore!NoRunner /\ EStore!NoReader
    BY <1>4, MatchesAgree, LocksSay DEF YouRunIt
  <2> QED
    BY <2>1, <2>2, <2>3 DEF EStore!Start, EStore!Move, AbsStored, AbsState, AbsEntry
<1>5. ASSUME NEW c \in Clients, StartUpgrade(c) \/ Execute(c) PROVE UNCHANGED EStore!vars
  <2>0. /\ pc' = [pc EXCEPT ![c] = pc'[c]]
        /\ <<pc[c], pc'[c]>> \in {<<"open", "upgrade">>, <<"output", "executing">>}
    BY <1>5 DEF StartUpgrade, Execute, Move, EntryInv, TypeOK
  <2>1. AbsState' = [AbsState EXCEPT ![c] = AbsState[c]]
    BY <2>0, StateMoves DEF StateAt, Phases
  <2>2. AbsStored' = AbsStored /\ config' = config /\ AbsEntry' = AbsEntry
    BY <1>5 DEF StartUpgrade, Execute, AbsStored, AbsEntry, Plain
  <2>3. AbsState' = AbsState
    BY <2>1 DEF AbsState
  <2> QED
    BY <2>2, <2>3 DEF EStore!vars, AbsStored, AbsState, AbsEntry
<1>6. ASSUME NEW c \in Clients, Retry(c) PROVE EStore!Stop(c) \/ UNCHANGED EStore!vars
  <2>0. /\ pc[c] = "upgrade" /\ pc' = [pc EXCEPT ![c] = pc'[c]]
        /\ pc'[c] \in {"open", "done"}
    BY <1>6 DEF Retry, Move, EntryInv, TypeOK
  <2>4. /\ AbsState[c] = "asking"
        /\ \/ AbsState' = [AbsState EXCEPT ![c] = "asking"]
           \/ AbsState' = [AbsState EXCEPT ![c] = "idle"]
    BY <2>0, StateMoves DEF StateAt, Phases
  <2>1. AbsState' = AbsState \/ AbsState' = [AbsState EXCEPT ![c] = "idle"]
    BY <2>4 DEF AbsState
  <2>2. AbsStored' = AbsStored /\ config' = config /\ AbsEntry' = AbsEntry
    BY <1>6 DEF Retry, AbsStored, AbsEntry, Plain
  <2>3. AbsEntry' = [AbsEntry EXCEPT ![c] = NoResult]
    BY <1>6, <2>2 DEF Retry, Move, AbsEntry, Plain, EntryInv, PhasesAgree, EntryPhases
  <2> QED
    BY <2>1, <2>2, <2>3, <2>4 DEF EStore!Stop, EStore!vars, AbsStored, AbsState, AbsEntry
<1>7. ASSUME NEW c \in Clients, Truncate(c) PROVE EStore!Erase(c)
  <2>0. pc[c] = "executing" /\ pc' = [pc EXCEPT ![c] = "truncated"]
    BY <1>7 DEF Truncate, Move
  <2>3. AbsState[c] = "running" /\ AbsState' = [AbsState EXCEPT ![c] = "running"]
    BY <2>0, StateMoves DEF StateAt, Phases
  <2>1. AbsState[c] = "running" /\ AbsState' = AbsState
    BY <2>3 DEF AbsState
  <2>2. AbsStored' = NoResult /\ config' = config /\ AbsEntry' = AbsEntry
    BY <1>7 DEF Truncate, AbsStored, AbsEntry, Plain
  <2> QED
    BY <2>1, <2>2 DEF EStore!Erase, AbsStored, AbsState, AbsEntry
<1>8. ASSUME NEW c \in Clients, NEW o \in Outcomes, Store(c, o) PROVE EStore!Finish(c, o)
  <2>0. pc[c] = "truncated" /\ pc' = [pc EXCEPT ![c] = "downgrade"]
    BY <1>8 DEF Store, Move
  <2>1. AbsState[c] = "running" /\ AbsState' = [AbsState EXCEPT ![c] = "storing"]
    BY <2>0, StateMoves DEF StateAt, Phases
  <2>2. <<config[c], o, c>> \in Results
    BY <1>8 DEF Store, Move, Results, EntryInv, PhasesAgree
  <2>3. Plain(<<config[c], o, c>>) = <<config[c], o>>
    BY <2>2, ResultShape DEF Plain
  <2>4. AbsStored' = <<config[c], o>> /\ config' = config
    BY <1>8, <2>3 DEF Store, AbsStored, Plain
  <2>5. AbsEntry' = [AbsEntry EXCEPT ![c] = <<config[c], o>>]
    BY <1>8, <2>3 DEF Store, AbsEntry, Plain, EntryInv, TypeOK
  <2> QED
    BY <2>1, <2>4, <2>5 DEF EStore!Finish, EStore!Move, AbsStored, AbsState, AbsEntry
<1>9. ASSUME NEW c \in Clients, Downgraded(c) PROVE EStore!Keep(c)
  <2>0. pc[c] = "downgrade" /\ pc' = [pc EXCEPT ![c] = "held"]
    BY <1>9 DEF Downgraded, Move
  <2>1. AbsState[c] = "storing" /\ AbsState' = [AbsState EXCEPT ![c] = "reading"]
    BY <2>0, StateMoves DEF StateAt, Phases
  <2>2. AbsStored' = AbsStored /\ config' = config /\ AbsEntry' = AbsEntry
    BY <1>9 DEF Downgraded, AbsStored, AbsEntry, Plain
  <2>3. EStore!NoRunner
    BY <1>9, LocksSay DEF Downgraded
  <2> QED
    BY <2>1, <2>2, <2>3 DEF EStore!Keep, EStore!Move, AbsStored, AbsState, AbsEntry
<1>10. ASSUME NEW c \in Clients, Stop(c) PROVE EStore!Stop(c)
  <2>0. /\ pc[c] \in Phases \ {"idle", "done"} /\ pc' = [pc EXCEPT ![c] = "done"]
    BY <1>10 DEF Stop, EntryInv, TypeOK
  <2>1. AbsState[c] # "idle" /\ AbsState' = [AbsState EXCEPT ![c] = "idle"]
    BY <2>0, StateMoves DEF StateAt, Phases
  <2>2. AbsStored' = AbsStored /\ config' = config
    BY <1>10 DEF Stop, AbsStored, Plain
  <2>3. AbsEntry' = [AbsEntry EXCEPT ![c] = NoResult]
    BY <1>10 DEF Stop, AbsEntry, Plain, EntryInv, TypeOK
  <2> QED
    BY <2>1, <2>2, <2>3 DEF EStore!Stop, AbsStored, AbsState, AbsEntry
<1>11. CASE \E c \in Clients : (\E g \in Configs : Open(c, g)) \/ Lookup(c)
  BY <1>11, <1>2, <1>3, <1>4, <1>5, <1>6 DEF Lookup, EStore!Next
<1>12. CASE \E c \in Clients : SetResult(c) \/ Stop(c)
  BY <1>12, <1>5, <1>7, <1>8, <1>9, <1>10 DEF SetResult, EStore!Next
<1> QED
  BY <1>1, <1>11, <1>12 DEF Next

\* The lock conversions, the second look at the file and the loop implement what
\* EntryStore promises.
THEOREM StoreContractHolds == Spec => StoreContract
<1>1. Init => EStore!Init
  BY StoreInit
<1>2. EntryInv /\ [Next]_vars => [EStore!Next]_(EStore!vars)
  BY StoreStep
<1> QED
  BY <1>1, <1>2, EntryInvHolds, PTL DEF Spec, StoreContract, EStore!Spec
=============================================================================
