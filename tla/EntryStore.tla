----------------------------- MODULE EntryStore ------------------------------
(***************************************************************************)
(* What one entry of the result database promises to those who look it up  *)
(* (database.rs): a lookup either finds the stored result, as of that      *)
(* moment, and keeps it from being rewritten while it is held, or makes    *)
(* the caller the only one who may run the test.  The one thing it does    *)
(* not promise is that a runner keeps the entry once it has stored its     *)
(* result: between storing it and holding it there is a gap.               *)
(***************************************************************************)

CONSTANTS
  Clients,    \* test jobs, of all limmat processes
  Outcomes,   \* results
  Configs,    \* config hashes
  Caching,    \* config hashes whose cache policy accepts results
  NoResult    \* neither a result nor a config hash

VARIABLES
  stored,     \* the result and the config hash it is of, or NoResult
  config,     \* config[c]: the config hash of the test c asks for
  state,      \* state[c]: "idle", "asking", "running", "storing" or "reading"
  entry       \* entry[c]: the result c found or stored, or NoResult

vars == <<stored, config, state, entry>>

Results == Configs \X Outcomes

Init ==
  /\ stored \in Results \cup {NoResult}
  /\ config \in [Clients -> Configs \cup {NoResult}]
  /\ state = [c \in Clients |-> "idle"]
  /\ entry = [c \in Clients |-> NoResult]

Matches(c) ==
  /\ config[c] \in Caching
  /\ stored # NoResult
  /\ stored[1] = config[c]
NoRunner == \A c \in Clients : state[c] # "running"
NoReader == \A c \in Clients : state[c] # "reading"

Move(c, from, to) ==
  /\ state[c] = from
  /\ state' = [state EXCEPT ![c] = to]

Ask(c, g) ==
  /\ Move(c, "idle", "asking")
  /\ config' = [config EXCEPT ![c] = g]
  /\ UNCHANGED <<stored, entry>>

Find(c) ==
  /\ Move(c, "asking", "reading")
  /\ Matches(c)
  /\ NoRunner
  /\ entry' = [entry EXCEPT ![c] = stored]
  /\ UNCHANGED <<stored, config>>

Start(c) ==
  /\ Move(c, "asking", "running")
  /\ ~Matches(c)
  /\ NoRunner
  /\ NoReader
  /\ UNCHANGED <<stored, config, entry>>

\* Storing a result is not atomic: the old one goes first.
Erase(c) ==
  /\ state[c] = "running"
  /\ stored' = NoResult
  /\ UNCHANGED <<config, state, entry>>

Finish(c, o) ==
  /\ Move(c, "running", "storing")
  /\ stored' = <<config[c], o>>
  /\ entry' = [entry EXCEPT ![c] = <<config[c], o>>]
  /\ UNCHANGED config

Keep(c) ==
  /\ Move(c, "storing", "reading")
  /\ NoRunner
  /\ UNCHANGED <<stored, config, entry>>

\* The client stops without a result: an error, a cancellation or a crash.
Stop(c) ==
  /\ state[c] # "idle"
  /\ state' = [state EXCEPT ![c] = "idle"]
  /\ entry' = [entry EXCEPT ![c] = NoResult]
  /\ UNCHANGED config
  /\ \/ UNCHANGED stored
     \/ state[c] = "running" /\ stored' = NoResult

Next == \E c \in Clients :
  \/ \E g \in Configs : Ask(c, g)
  \/ Find(c) \/ Start(c) \/ Erase(c)
  \/ \E o \in Outcomes : Finish(c, o)
  \/ Keep(c) \/ Stop(c)

Spec == Init /\ [][Next]_vars
=============================================================================
