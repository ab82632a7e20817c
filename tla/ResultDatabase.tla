--------------------------- MODULE ResultDatabase ----------------------------
(***************************************************************************)
(* One entry of the result database: its directory, and the result.json in *)
(* it whose flock guards it.  Clients are test jobs, in one process or in  *)
(* several, that look the entry up, possibly with different test           *)
(* configurations, run the test if they must, and store a result.          *)
(*                                                                         *)
(* flock(2) is external: each lookup opens the file anew, so that clients  *)
(* exclude each other; a conversion drops the lock that is held before it  *)
(* waits for the other kind, as flock.rs says of upgrade and downgrade;    *)
(* death of a process drops its locks.                                     *)
(***************************************************************************)
EXTENDS Naturals, FiniteSets

CONSTANTS
  Clients, Outcomes, Configs, Caching, NoResult,  \* as in EntryStore
  Nobody,      \* not a client
  MaxTries     \* rounds of the loop in Database::lookup (5 in the code)

ASSUME ConfigAssumption == Caching \subseteq Configs
ASSUME NullAssumption ==
  /\ Nobody \notin Clients
  /\ NoResult \notin Configs
  /\ NoResult \notin Configs \X Outcomes
  /\ NoResult \notin Configs \X Outcomes \X (Clients \cup {Nobody})
ASSUME TriesAssumption == MaxTries \in Nat \ {0}

\* A result carries the client whose run it is of; Nobody's run came before.
Results == Configs \X Outcomes \X (Clients \cup {Nobody})

VARIABLES
  json,     \* content of result.json: a result, or nothing that parses as one
  output,   \* the client whose child last had stdout.txt and stderr.txt created
  config,   \* config[c]: the config hash of c's test, or NoResult before its lookup
  pc,       \* pc[c], see Phases
  tries,    \* tries[c]: rounds of the lookup loop begun
  sh,       \* clients whose file is locked shared
  exl,      \* client whose file is locked exclusively, or Nobody
  entry     \* entry[c]: the result of c's DatabaseEntry, or NoResult

vars == <<json, output, config, pc, tries, sh, exl, entry>>

Phases == {"idle",
           "open",       \* file opened, waiting for the shared lock
           "upgrade",    \* no result: waiting for the exclusive lock
           "output",     \* has a DatabaseOutput
           "executing",  \* its child runs
           "truncated",  \* set_content has emptied the file
           "downgrade",  \* result written, waiting for the shared lock
           "held",       \* has a DatabaseEntry
           "done"}

Init ==
  /\ json \in {NoResult} \cup (Configs \X Outcomes \X {Nobody})
  /\ output = Nobody
  /\ config = [c \in Clients |-> NoResult]
  /\ pc = [c \in Clients |-> "idle"]
  /\ tries = [c \in Clients |-> 0]
  /\ sh = {}
  /\ exl = Nobody
  /\ entry = [c \in Clients |-> NoResult]

Move(c, from, to) ==
  /\ pc[c] = from
  /\ pc' = [pc EXCEPT ![c] = to]

\* parse_result finds a result that c accepts.  Mutant: only when c reads the file
\* again under the exclusive lock.
MatchesReread(c) ==
  /\ pc[c] = "upgrade"
  /\ config[c] \in Caching /\ json # NoResult /\ json[1] = config[c]
Matches(c) == config[c] \in Caching /\ json # NoResult /\ json[1] = config[c]

-----------------------------------------------------------------------------
(* Database::lookup.                                                        *)

Open(c, g) ==
  /\ Move(c, "idle", "open")
  /\ config' = [config EXCEPT ![c] = g]
  /\ tries' = [tries EXCEPT ![c] = 1]
  /\ UNCHANGED <<json, output, sh, exl, entry>>

\* SharedFlock::new, and the result is there: c keeps the lock with the entry.
FindShared(c) ==
  /\ Matches(c)
  /\ exl = Nobody
  /\ Move(c, "open", "held")
  /\ sh' = sh \cup {c}
  /\ entry' = [entry EXCEPT ![c] = json]
  /\ UNCHANGED <<json, output, config, tries, exl>>

\* It is not there: the shared lock is given up for the exclusive one.
StartUpgrade(c) ==
  /\ ~Matches(c)
  /\ exl = Nobody
  /\ Move(c, "open", "upgrade")
  /\ UNCHANGED <<json, output, config, tries, sh, exl, entry>>

\* Mutant: one round too many.
RetryOnceMore(c) ==
  /\ Matches(c)
  /\ exl = Nobody /\ sh = {}
  /\ IF tries[c] <= MaxTries
     THEN /\ Move(c, "upgrade", "open")
          /\ tries' = [tries EXCEPT ![c] = @ + 1]
     ELSE /\ Move(c, "upgrade", "done")
          /\ UNCHANGED tries
  /\ UNCHANGED <<json, output, config, sh, exl, entry>>

\* The file is read again under the exclusive lock.  Someone ran the test in
\* between: drop the lock and go round the loop, or give up.
Retry(c) ==
  /\ Matches(c)
  /\ exl = Nobody /\ sh = {}
  /\ IF tries[c] < MaxTries
     THEN /\ Move(c, "upgrade", "open")
          /\ tries' = [tries EXCEPT ![c] = @ + 1]
     ELSE /\ Move(c, "upgrade", "done")
          /\ UNCHANGED tries
  /\ UNCHANGED <<json, output, config, sh, exl, entry>>

\* Mutants: the exclusive lock is not waited for; the file is not read again.
YouRunItUnlocked(c) ==
  /\ ~Matches(c)
  /\ Move(c, "upgrade", "output")
  /\ exl' = c
  /\ UNCHANGED <<json, output, config, tries, sh, entry>>
YouRunItUnread(c) ==
  /\ exl = Nobody /\ sh = {}
  /\ Move(c, "upgrade", "output")
  /\ exl' = c
  /\ UNCHANGED <<json, output, config, tries, sh, entry>>

YouRunIt(c) ==
  /\ ~Matches(c)
  /\ exl = Nobody /\ sh = {}
  /\ Move(c, "upgrade", "output")
  /\ exl' = c
  /\ UNCHANGED <<json, output, config, tries, sh, entry>>

-----------------------------------------------------------------------------
(* DatabaseOutput: execute_child and set_result.                            *)

\* stdout() and stderr() create the files anew, and the child is spawned.
Execute(c) ==
  /\ Move(c, "output", "executing")
  /\ output' = c
  /\ UNCHANGED <<json, config, tries, sh, exl, entry>>

\* ExclusiveFlock::set_content, in two system calls.
Truncate(c) ==
  /\ Move(c, "executing", "truncated")
  /\ json' = NoResult
  /\ UNCHANGED <<output, config, tries, sh, exl, entry>>

\* Mutant: the downgrade keeps the exclusive lock for ever.
StoreLocked(c, o) ==
  /\ Move(c, "truncated", "downgrade")
  /\ json' = <<config[c], o, c>>
  /\ entry' = [entry EXCEPT ![c] = <<config[c], o, c>>]
  /\ UNCHANGED <<output, config, tries, sh, exl>>

Store(c, o) ==
  /\ Move(c, "truncated", "downgrade")
  /\ json' = <<config[c], o, c>>
  /\ entry' = [entry EXCEPT ![c] = <<config[c], o, c>>]
  /\ exl' = Nobody
  /\ UNCHANGED <<output, config, tries, sh>>

Downgraded(c) ==
  /\ exl = Nobody
  /\ Move(c, "downgrade", "held")
  /\ sh' = sh \cup {c}
  /\ UNCHANGED <<json, output, config, tries, exl, entry>>

-----------------------------------------------------------------------------

\* The client stops: its DatabaseEntry is dropped, its job fails or is cancelled,
\* or its process dies.  Its lock goes, the files stay as they are.
Stop(c) ==
  /\ pc[c] \notin {"idle", "done"}
  /\ pc' = [pc EXCEPT ![c] = "done"]
  /\ sh' = sh \ {c}
  /\ exl' = IF exl = c THEN Nobody ELSE exl
  /\ entry' = [entry EXCEPT ![c] = NoResult]
  /\ UNCHANGED <<json, output, config, tries>>

Lookup(c) == FindShared(c) \/ StartUpgrade(c) \/ Retry(c) \/ YouRunIt(c)
SetResult(c) ==
  \/ Execute(c) \/ Truncate(c)
  \/ \E o \in Outcomes : Store(c, o)
  \/ Downgraded(c)

Next == \E c \in Clients : (\E g \in Configs : Open(c, g)) \/ Lookup(c) \/ SetResult(c) \/ Stop(c)

Spec == Init /\ [][Next]_vars

\* Every holder of a lock gets on with its run or drops its entry.
HolderFairness == \A c \in Clients : WF_vars(SetResult(c)) /\ WF_vars(pc[c] = "held" /\ Stop(c))
FairSpec == Spec /\ HolderFairness /\ \A c \in Clients : WF_vars(Lookup(c))
-----------------------------------------------------------------------------
(* Properties.                                                              *)

TypeOK ==
  /\ json \in Results \cup {NoResult}
  /\ output \in Clients \cup {Nobody}
  /\ config \in [Clients -> Configs \cup {NoResult}]
  /\ pc \in [Clients -> Phases]
  /\ tries \in [Clients -> 0..MaxTries]
  /\ sh \in SUBSET Clients
  /\ exl \in Clients \cup {Nobody}
  /\ entry \in [Clients -> Results \cup {NoResult}]

\* All lookups so far were for one configuration, of a test with a cache policy.
OneConfig == \E g \in Caching : \A c \in Clients : config[c] \in {g, NoResult}

\* The output files beside a result are those of the run it is the result of.
OutputMatchesAlways ==
  \A c \in Clients : pc[c] = "held" => output = entry[c][3]
OutputMatches == OneConfig => OutputMatchesAlways

\* With one configuration a lookup goes round its loop at most twice: who finds
\* the test run in the upgrade's gap then finds the result, whoever crashed
\* meanwhile, and the bound on the rounds is never what stops a lookup.
SecondRoundFinds ==
  OneConfig => \A c \in Clients : pc[c] \in {"open", "upgrade"} /\ tries[c] > 1
                                   => pc[c] = "open" /\ Matches(c)

\* Every lookup ends, with several configurations too.
LookupEnds == \A c \in Clients : pc[c] = "open" ~> pc[c] \in {"output", "held", "done"}

\* The entry does what EntryStore promises.
Plain(r) == IF r = NoResult THEN NoResult ELSE <<r[1], r[2]>>
StateAt(p) ==
  CASE p \in {"open", "upgrade"} -> "asking"
    [] p \in {"output", "executing", "truncated"} -> "running"
    [] p = "downgrade" -> "storing"
    [] p = "held" -> "reading"
    [] p \in {"idle", "done"} -> "idle"
EStore == INSTANCE EntryStore WITH
  stored <- Plain(json),
  state <- [c \in Clients |-> StateAt(pc[c])],
  entry <- [c \in Clients |-> Plain(entry[c])]
StoreContract == EStore!Spec
=============================================================================
