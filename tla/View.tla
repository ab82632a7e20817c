-------------------------------- MODULE View --------------------------------
(***************************************************************************)
(* What the user of `limmat watch` sees.  watch_loop (main.rs) takes the   *)
(* updates of the range, hands them to the test manager, has the           *)
(* StatusViewer (ui.rs) read the log of the range and repaints it; it      *)
(* takes the manager's notifications from a broadcast channel of limited   *)
(* capacity and repaints.  Every repaint goes to the terminal and to the   *)
(* sockets of the web UI (http.rs).  Once the loop has failed the model    *)
(* stands still; Lifecycle has the rest, and the errors that the state of  *)
(* the repository does not explain.                                        *)
(*                                                                         *)
(* There is one test.  Of the manager and its jobs the model has what is   *)
(* sent on the channel; JobManager has the rest.  Of a line of the screen  *)
(* it has the commit and the status, and of a copy of the screen whether   *)
(* it is the last one painted.                                             *)
(***************************************************************************)
EXTENDS RefWatcher, SequencesExt

CONSTANTS
  Commit,    \* the commits of the ranges
  MaxRevs,   \* commits of a range that are tested (1024 in the code)
  Cap,       \* capacity of the notification channel (4096 in the code)
  Browser,   \* browsers showing the web UI
  Starting   \* the page before the first repaint

\* broadcast::channel panics without a capacity.
ASSUME CapAssumption == Cap \in Nat \ {0}

VARIABLES
  loop,      \* watch_loop: "select", "revs", "range" or "failed"
  spawning,  \* commits whose jobs set_commits has yet to spawn
  job_cts,   \* commits with a job that has not been cancelled
  jobs,      \* jobs[c]: the jobs of c so far, [status, canceled]
  notifs,    \* the channel: pairs of a commit and a status
  lagged,    \* has the channel dropped a notification since the last recv?
  dropped,   \* commits about which it ever has
  graph,     \* the range as `git log --graph` of GraphBuffer::new read it
  info,      \* the range as the `git log` of CommitInfoBuffer::new did
  output_buf,     \* the commits on the screen
  tracked_cases,  \* tracked_cases[c]: the status to show for c
  painted,   \* log_html_pre: the commits and statuses last painted
  seen,      \* seen[b]: has the receiver of b's socket seen painted?
  browser,   \* browser[b]: "off", "borrow", "send" or "waiting"
  copy       \* copy[b]: what its socket sends, or has sent last: "none", "last" or "old"

manVars == <<job_cts, jobs>>
chanVars == <<notifs, lagged, dropped>>
viewerVars == <<graph, info, output_buf, tracked_cases>>
webVars == <<painted, seen, browser, copy>>
vars == <<watcherVars, loop, spawning, manVars, chanVars, viewerVars, webVars>>

Unfinished == {"Enqueued", "Started"}

Init ==
  /\ WatcherInit
  /\ loop = "select"
  /\ spawning = {}
  /\ job_cts = {}
  /\ jobs = [c \in Commit |-> <<>>]
  /\ notifs = <<>>
  /\ lagged = FALSE
  /\ dropped = {}
  /\ graph = Unread
  /\ info = Unread
  /\ output_buf = <<>>
  /\ tracked_cases = [c \in Commit |-> "none"]
  /\ painted = Starting
  /\ seen = [b \in Browser |-> FALSE]
  /\ browser = [b \in Browser |-> "off"]
  /\ copy = [b \in Browser |-> "none"]

-----------------------------------------------------------------------------
(* The notifications of the manager and its jobs *)

\* A full broadcast channel drops its oldest message.
Notify(c, status) ==
  IF Len(notifs) < Cap
    THEN /\ notifs' = Append(notifs, <<c, status>>)
         /\ UNCHANGED <<lagged, dropped>>
    ELSE /\ notifs' = Append(Tail(notifs), <<c, status>>)
         /\ lagged' = TRUE
         /\ dropped' = dropped \cup {Head(notifs)[1]}

\* The pools may grant a job its resources just after it has been cancelled.
JobStarts(c, i) ==
  /\ jobs[c][i].status = "Enqueued"
  /\ jobs' = [jobs EXCEPT ![c][i].status = "Started"]
  /\ Notify(c, "Started")
  /\ UNCHANGED <<watcherVars, loop, spawning, job_cts, viewerVars, webVars>>

\* With a result, perhaps one from the database, or cancelled.
JobFinishes(c, i) ==
  /\ jobs[c][i].status \in Unfinished
  /\ \E s \in {"result"} \cup (IF jobs[c][i].canceled THEN {"canceled"} ELSE {}) :
       /\ jobs' = [jobs EXCEPT ![c][i].status = s]
       /\ Notify(c, s)
  /\ UNCHANGED <<watcherVars, loop, spawning, job_cts, viewerVars, webVars>>

-----------------------------------------------------------------------------
(* StatusViewer *)

\* Mutant: the first status of a commit's test stays.
TrackedOnce(notif) ==
  [tracked_cases EXCEPT ![notif[1]] = IF @ = "none" THEN notif[2] ELSE @]
\* update_tracked_cases replaces the status of the commit's test.
Tracked(notif) == [tracked_cases EXCEPT ![notif[1]] = notif[2]]

Screen(lines, statuses) == [i \in DOMAIN lines |-> <<lines[i], statuses[lines[i]]>>]

\* repaint renders the buffer with the statuses into the watch channel.
Repaint ==
  /\ painted' = Screen(output_buf', tracked_cases')
  /\ seen' = [b \in Browser |-> FALSE]
  /\ copy' = [b \in Browser |-> IF copy[b] = "last" THEN "old" ELSE copy[b]]
  /\ UNCHANGED browser

-----------------------------------------------------------------------------
(* watch_loop; it polls the stream only at its select. *)

Polled(step) ==
  /\ loop = "select"
  /\ step
  /\ UNCHANGED <<loop, spawning, manVars, chanVars, viewerVars, webVars>>
Alone(step) ==
  /\ step
  /\ UNCHANGED <<loop, spawning, manVars, chanVars, viewerVars, webVars>>

TakeRevs ==
  /\ loop = "select"
  /\ Yield
  /\ loop' = "revs"
  /\ UNCHANGED <<spawning, manVars, chanVars, viewerVars, webVars>>

StreamFails ==
  /\ loop = "select"
  /\ YieldError
  /\ loop' = "failed"
  /\ UNCHANGED <<spawning, manVars, chanVars, viewerVars, webVars>>

\* revs.truncate(1024)
Truncated(r) == SubSeq(r, 1, IF Len(r) < MaxRevs THEN Len(r) ELSE MaxRevs)

\* set_revisions has looked the commits up: set_commits cancels the jobs that
\* are no longer wanted ...
SetRevisions ==
  /\ loop = "revs"
  /\ LET revs == ToSet(Truncated(listed))
     IN /\ jobs' = [c \in Commit |->
                      IF c \in job_cts \ revs
                        THEN [jobs[c] EXCEPT ![Len(jobs[c])].canceled = TRUE]
                        ELSE jobs[c]]
        /\ job_cts' = revs
        /\ spawning' = revs \ job_cts
  /\ loop' = "range"
  /\ UNCHANGED <<watcherVars, chanVars, viewerVars, webVars>>

\* ... and spawns the missing ones.
SpawnJob(c) ==
  /\ c \in spawning
  /\ spawning' = spawning \ {c}
  /\ jobs' = [jobs EXCEPT ![c] = Append(@, [status |-> "Enqueued", canceled |-> FALSE])]
  /\ Notify(c, "Enqueued")
  /\ UNCHANGED <<watcherVars, loop, job_cts, viewerVars, webVars>>

\* The two `git log` of OutputBuffer::new, which run at the same time.
ReadGraph ==
  /\ loop = "range" /\ spawning = {}
  /\ graph = Unread
  /\ graph' = refs
  /\ UNCHANGED <<watcherVars, loop, spawning, manVars, chanVars,
                 info, output_buf, tracked_cases, webVars>>

ReadInfo ==
  /\ loop = "range" /\ spawning = {}
  /\ info = Unread
  /\ info' = refs
  /\ UNCHANGED <<watcherVars, loop, spawning, manVars, chanVars,
                 graph, output_buf, tracked_cases, webVars>>

BothRead == graph \in Ranges /\ info \in Ranges
InfoComplete == ToSet(graph) \subseteq ToSet(info)

SetRange ==
  /\ BothRead
  /\ InfoComplete
  /\ output_buf' = graph
  /\ graph' = Unread
  /\ info' = Unread
  /\ UNCHANGED tracked_cases
  /\ Repaint
  /\ loop' = "select"
  /\ UNCHANGED <<watcherVars, spawning, manVars, chanVars>>

\* A `git log` fails, or there is "missing commit info" for a commit of the graph.
SetRangeFails ==
  /\ loop = "range"
  /\ Invalid \in {graph, info} \/ (BothRead /\ ~InfoComplete)
  /\ loop' = "failed"
  /\ UNCHANGED <<watcherVars, spawning, manVars, chanVars, viewerVars, webVars>>

TakeNotif ==
  /\ loop = "select"
  /\ ~lagged
  /\ notifs # <<>>
  /\ notifs' = Tail(notifs)
  /\ tracked_cases' = Tracked(Head(notifs))
  /\ UNCHANGED <<output_buf, graph, info>>
  /\ Repaint
  /\ UNCHANGED <<watcherVars, loop, spawning, manVars, lagged, dropped>>

\* RecvError::Lagged is logged.
TakeLagged ==
  /\ loop = "select"
  /\ lagged
  /\ lagged' = FALSE
  /\ UNCHANGED <<watcherVars, loop, spawning, manVars, notifs, dropped, viewerVars, webVars>>

\* The terminal was resized.
TakeResize ==
  /\ loop = "select"
  /\ UNCHANGED <<output_buf, tracked_cases, graph, info>>
  /\ Repaint
  /\ UNCHANGED <<watcherVars, loop, spawning, manVars, chanVars>>

-----------------------------------------------------------------------------
(* The web UI: the page, and the socket that replaces its <pre> *)

\* The page comes with the screen in it, and will open the socket.
Home(b) ==
  /\ browser[b] = "off"
  /\ browser' = [browser EXCEPT ![b] = "borrow"]
  /\ UNCHANGED <<painted, seen, copy>>

\* Mutant: the value is marked as seen when it has been sent.
SeenUpdateLate(b, step) == seen' = IF step = "send" THEN [seen EXCEPT ![b] = TRUE] ELSE seen
SeenUpdate(b, step) == seen' = IF step = "borrow" THEN [seen EXCEPT ![b] = TRUE] ELSE seen

BorrowAndUpdate(b) ==
  /\ browser[b] = "borrow"
  /\ browser' = [browser EXCEPT ![b] = "send"]
  /\ copy' = [copy EXCEPT ![b] = "last"]
  /\ SeenUpdate(b, "borrow")
  /\ UNCHANGED painted

Send(b) ==
  /\ browser[b] = "send"
  /\ browser' = [browser EXCEPT ![b] = "waiting"]
  /\ SeenUpdate(b, "send")
  /\ UNCHANGED <<painted, copy>>

\* Client disconnected.
SendFails(b) ==
  /\ browser[b] = "send"
  /\ browser' = [browser EXCEPT ![b] = "off"]
  /\ copy' = [copy EXCEPT ![b] = "none"]
  /\ seen' = [seen EXCEPT ![b] = FALSE]
  /\ UNCHANGED painted

Changed(b) ==
  /\ browser[b] = "waiting"
  /\ ~seen[b]
  /\ browser' = [browser EXCEPT ![b] = "borrow"]
  /\ copy' = [copy EXCEPT ![b] = "none"]
  /\ UNCHANGED <<painted, seen>>

WebStep(b) ==
  /\ Home(b) \/ BorrowAndUpdate(b) \/ Send(b) \/ SendFails(b) \/ Changed(b)
  /\ UNCHANGED <<watcherVars, loop, spawning, manVars, chanVars, viewerVars>>

-----------------------------------------------------------------------------

GitStep == Polled(Install) \/ Alone(List) \/ Polled(TakeEvent)
RangeStep == TakeRevs \/ StreamFails \/ SetRevisions \/ ReadGraph \/ ReadInfo \/ SetRange \/ SetRangeFails

JobStep(c) == \E i \in DOMAIN jobs[c] : JobStarts(c, i) \/ JobFinishes(c, i)

Next ==
  \/ /\ loop # "failed"
     /\ \/ Alone(Change) \/ Alone(Noise)
        \/ GitStep \/ Polled(Expire) \/ RangeStep
        \/ TakeNotif \/ TakeLagged \/ TakeResize
        \/ \E c \in Commit : SpawnJob(c) \/ JobStep(c)
        \/ \E b \in Browser : WebStep(b)
  \/ loop = "failed" /\ UNCHANGED vars

Spec ==
  /\ Init
  /\ [][Next]_vars
  /\ WF_vars(GitStep)
  /\ WF_vars(Polled(Expire))
  /\ WF_vars(RangeStep)
  /\ \A c \in Commit : WF_vars(SpawnJob(c))

-----------------------------------------------------------------------------
(* Properties *)

\* Once the range stays as it is, the manager comes to test its commits, as many
\* as are tested, and the screen to list them, unless the loop has failed: main.rs
\* says of the range "Whenever HEAD changes, this string will be re-evaluated".
RangeFollows ==
  \A r \in Ranges :
    <>[](refs = r /\ loop # "failed") =>
      <>[](job_cts = ToSet(Truncated(r)) /\ output_buf = r)

\* When the viewer has taken every notification, the status it has for a commit
\* is the present one of its newest job, or of a cancelled earlier job that
\* started or finished late; but for commits the lagging channel has dropped
\* notifications about.
StatusFollows ==
  loop = "select" /\ notifs = <<>> =>
    \A c \in Commit \ dropped : jobs[c] # <<>> =>
      \/ tracked_cases[c] = Last(jobs[c]).status
      \/ \E i \in 1..(Len(jobs[c]) - 1) :
           jobs[c][i].status = tracked_cases[c] /\ tracked_cases[c] # "Enqueued"

\* A socket that waits has sent what the viewer has to show, or is about to wake
\* up: a repaint while it sends is not missed.
BrowserCurrent ==
  /\ loop = "select" /\ painted # Starting => painted = Screen(output_buf, tracked_cases)
  /\ \A b \in Browser : browser[b] = "waiting" /\ seen[b] => copy[b] = "last"

\* git.rs means to treat the exit code 128 of `git rev-list` as an empty range:
\* no state of the repository makes watch_loop return an error.
WatchSurvives == loop # "failed"
=============================================================================
