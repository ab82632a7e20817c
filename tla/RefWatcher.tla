----------------------------- MODULE RefWatcher -----------------------------
(***************************************************************************)
(* Worktree::watch_refs of git.rs: a stream of the commits in a range,     *)
(* listed anew when something changes under the git directories.  File     *)
(* events arrive in an unbounded channel; the first one arms a timer of    *)
(* one second, and when it expires `git rev-list` runs.  The stream makes  *)
(* progress only while its consumer polls it (module View), the events and *)
(* a git process that has been started do so by themselves.                *)
(***************************************************************************)
EXTENDS Naturals, Sequences, FiniteSets

CONSTANTS
  Ranges,      \* what the range can be: sequences of commits, the newest first
  First,       \* the range at the start
  Invalid,     \* the range when it names something that does not exist
  Unread,      \* no range read yet
  MaxChanges,  \* bound: changes to what the range means
  MaxNoise     \* bound: events queued for other files, or for a second file of a change

VARIABLES
  refs,      \* what the range is at present
  changes,   \* changes so far
  events,    \* file events that rx.next() has yet to return
  stream,    \* where the stream is: "setup", "list", "listed", "select" or "ended"
  timer,     \* sleep_fut: "off" (terminated) or "on"
  listed     \* what rev_list read last

watcherVars == <<refs, changes, events, stream, timer, listed>>

WatcherInit ==
  /\ refs = First
  /\ changes = 0
  /\ events = 0
  /\ stream = "setup"
  /\ timer = "off"
  /\ listed = Unread

\* The stream installs its watchers before it lists the range for the first time.
Watched == stream # "setup"

\* Somebody moves HEAD, the base of the range, or removes it.
Change ==
  /\ changes < MaxChanges
  /\ changes' = changes + 1
  /\ refs' \in (Ranges \cup {Invalid}) \ {refs}
  /\ events' = IF Watched THEN events + 1 ELSE events
  /\ UNCHANGED <<stream, timer, listed>>

Noise ==
  /\ Watched
  /\ events < MaxNoise
  /\ events' = events + 1
  /\ UNCHANGED <<refs, changes, stream, timer, listed>>

Install ==
  /\ stream = "setup"
  /\ stream' = "list"
  /\ UNCHANGED <<refs, changes, events, timer, listed>>

\* git reads the refs.
List ==
  /\ stream = "list"
  /\ stream' = "listed"
  /\ listed' = refs
  /\ UNCHANGED <<refs, changes, events, timer>>

\* Mutant: the events that came while git was running are thrown away.
EventsLeftNone == 0
EventsLeft == events

\* The update is yielded.
Yield ==
  /\ stream = "listed"
  /\ listed # Invalid
  /\ stream' = "select"
  /\ events' = EventsLeft
  /\ UNCHANGED <<refs, changes, timer, listed>>

\* git exits with 128, on which execute() fails, and with it the stream.
YieldError ==
  /\ stream = "listed"
  /\ listed = Invalid
  /\ stream' = "ended"
  /\ UNCHANGED <<refs, changes, events, timer, listed>>

\* An event arms the timer unless it is running.
TakeEvent ==
  /\ stream = "select"
  /\ events > 0
  /\ events' = events - 1
  /\ timer' = "on"
  /\ UNCHANGED <<refs, changes, stream, listed>>

Expire ==
  /\ stream = "select"
  /\ timer = "on"
  /\ timer' = "off"
  /\ stream' = "list"
  /\ UNCHANGED <<refs, changes, events, listed>>

-----------------------------------------------------------------------------
(* Properties *)

\* A stream with nothing left to do has seen the range as it is: no change
\* escapes it, whether it comes before the watchers are installed, while the
\* timer runs, or between the moment git reads the refs and the select.
NoUpdateMissed == stream = "select" /\ timer = "off" /\ events = 0 => listed = refs
=============================================================================
