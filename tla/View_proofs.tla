----------------------------- MODULE View_proofs -----------------------------
(***************************************************************************)
(* What the stream of the range and the sockets of the web UI promise, for *)
(* every number of commits, changes, events, browsers and messages.        *)
(***************************************************************************)
EXTENDS View, TLAPS

-----------------------------------------------------------------------------
(* The stream.  A git process that has read the refs has read the present   *)
(* ones unless an event is waiting to be taken.                             *)

StreamInv ==
  /\ events \in Nat
  /\ NoUpdateMissed
  /\ stream = "listed" /\ events = 0 => listed = refs

\* Every step that leaves the watcher alone, or is one of its own, keeps it.
WatcherStep ==
  \/ Change \/ Noise \/ Install \/ List \/ Yield \/ YieldError \/ TakeEvent \/ Expire
  \/ UNCHANGED watcherVars

\* A step of the watcher keeps StreamInv.
LEMMA StreamKept ==
  ASSUME StreamInv, WatcherStep
  PROVE  StreamInv'
<1>1. CASE Change
  <2>1. CASE Watched
    BY <1>1, <2>1 DEF StreamInv, Change, NoUpdateMissed
  <2>2. CASE ~Watched
    BY <1>1, <2>2 DEF StreamInv, Change, NoUpdateMissed, Watched
  <2> QED BY <2>1, <2>2
<1>2. CASE Noise
  BY <1>2 DEF StreamInv, Noise, NoUpdateMissed
<1>3. CASE Install
  BY <1>3 DEF StreamInv, Install, NoUpdateMissed
<1>4. CASE List
  BY <1>4 DEF StreamInv, List, NoUpdateMissed
<1>5. CASE Yield
  BY <1>5 DEF StreamInv, Yield, EventsLeft, NoUpdateMissed
<1>6. CASE YieldError
  BY <1>6 DEF StreamInv, YieldError, NoUpdateMissed
<1>7. CASE TakeEvent
  BY <1>7 DEF StreamInv, TakeEvent, NoUpdateMissed
<1>8. CASE Expire
  BY <1>8 DEF StreamInv, Expire, NoUpdateMissed
<1>9. CASE UNCHANGED watcherVars
  BY <1>9 DEF StreamInv, watcherVars, NoUpdateMissed
<1> QED
  BY <1>1, <1>2, <1>3, <1>4, <1>5, <1>6, <1>7, <1>8, <1>9 DEF WatcherStep

\* Whatever the loop, the jobs and the browsers do, the watcher sees one of its
\* own steps or none.
LEMMA StepsOfWatcher ==
  ASSUME [Next]_vars
  PROVE  WatcherStep
<1>1. CASE Alone(Change) \/ Alone(Noise) \/ Polled(Expire)
  BY <1>1 DEF Alone, Polled, WatcherStep
<1>2. CASE GitStep
  BY <1>2 DEF GitStep, Alone, Polled, WatcherStep
<1>3. CASE RangeStep
  BY <1>3 DEF RangeStep, TakeRevs, StreamFails, SetRevisions, ReadGraph, ReadInfo, SetRange,
              SetRangeFails, WatcherStep
<1>4. CASE TakeNotif \/ TakeLagged \/ TakeResize
  BY <1>4 DEF TakeNotif, TakeLagged, TakeResize, WatcherStep
<1>5. ASSUME NEW c \in Commit, SpawnJob(c) \/ JobStep(c)
      PROVE  WatcherStep
  BY <1>5 DEF SpawnJob, JobStep, JobStarts, JobFinishes, WatcherStep
<1>6. ASSUME NEW b \in Browser, WebStep(b)
      PROVE  WatcherStep
  BY <1>6 DEF WebStep, WatcherStep
<1>7. CASE UNCHANGED vars
  BY <1>7 DEF vars, watcherVars, WatcherStep
<1> QED
  BY <1>1, <1>2, <1>3, <1>4, <1>5, <1>6, <1>7 DEF Next

\* No change to the range escapes the stream of watch_refs: when it has nothing
\* left to do, it has listed the range as it is.
THEOREM NothingMissed == Spec => []NoUpdateMissed
<1>1. Init => StreamInv
  BY DEF Init, WatcherInit, StreamInv, NoUpdateMissed
<1>2. StreamInv /\ [Next]_vars => StreamInv'
  BY StreamKept, StepsOfWatcher
<1>3. StreamInv => NoUpdateMissed
  BY DEF StreamInv
<1> QED
  BY <1>1, <1>2, <1>3, PTL DEF Spec

-----------------------------------------------------------------------------
(* The screen and its copies *)

Holding(b) == browser[b] \in {"send", "waiting"}

ScreenInv ==
  /\ painted # Starting => painted = Screen(output_buf, tracked_cases)
  /\ seen \in [Browser -> BOOLEAN]
  /\ DOMAIN browser = Browser
  /\ DOMAIN copy = Browser
  /\ \A b \in Browser : Holding(b) /\ seen[b] => copy[b] = "last"

\* A repaint makes every copy old and unseen.
LEMMA RepaintKeeps ==
  ASSUME ScreenInv, Repaint
  PROVE  ScreenInv'
BY DEF ScreenInv, Repaint, Holding

\* A step that changes neither the screen nor the web UI keeps ScreenInv.
LEMMA AsideKeeps ==
  ASSUME ScreenInv, UNCHANGED <<output_buf, tracked_cases, webVars>>
  PROVE  ScreenInv'
BY DEF ScreenInv, webVars, Holding, Screen

\* So does a step of a socket.
LEMMA SocketKeeps ==
  ASSUME ScreenInv, NEW b \in Browser, WebStep(b)
  PROVE  ScreenInv'
<1>1. UNCHANGED <<output_buf, tracked_cases, painted>>
  BY DEF WebStep, Home, BorrowAndUpdate, Send, SendFails, Changed, viewerVars
<1>2. painted' # Starting => painted' = Screen(output_buf, tracked_cases)'
  BY <1>1 DEF ScreenInv, Screen
<1>3. CASE Home(b)
  BY <1>2, <1>3 DEF ScreenInv, Home, Holding
<1>4. CASE BorrowAndUpdate(b)
  BY <1>2, <1>4 DEF ScreenInv, BorrowAndUpdate, SeenUpdate, Holding
<1>5. CASE Send(b)
  BY <1>2, <1>5 DEF ScreenInv, Send, SeenUpdate, Holding
<1>6. CASE SendFails(b)
  BY <1>2, <1>6 DEF ScreenInv, SendFails, Holding
<1>7. CASE Changed(b)
  BY <1>2, <1>7 DEF ScreenInv, Changed, Holding
<1> QED
  BY <1>3, <1>4, <1>5, <1>6, <1>7 DEF WebStep

\* Every step keeps ScreenInv.
LEMMA ScreenKept ==
  ASSUME ScreenInv, [Next]_vars
  PROVE  ScreenInv'
<1>1. CASE Alone(Change) \/ Alone(Noise) \/ Polled(Expire) \/ GitStep
  BY <1>1, AsideKeeps DEF Alone, Polled, GitStep, viewerVars
<1>2. CASE SetRange \/ TakeNotif \/ TakeResize
  BY <1>2, RepaintKeeps DEF SetRange, TakeNotif, TakeResize
<1>3. CASE RangeStep /\ ~SetRange
  BY <1>3, AsideKeeps DEF RangeStep, TakeRevs, StreamFails, SetRevisions, ReadGraph, ReadInfo,
                          SetRangeFails, viewerVars
<1>4. CASE TakeLagged
  BY <1>4, AsideKeeps DEF TakeLagged, viewerVars
<1>5. ASSUME NEW c \in Commit, SpawnJob(c) \/ JobStep(c)
      PROVE  ScreenInv'
  BY <1>5, AsideKeeps DEF SpawnJob, JobStep, JobStarts, JobFinishes, viewerVars
<1>6. CASE UNCHANGED vars
  BY <1>6, AsideKeeps DEF vars, viewerVars
<1> QED
  BY <1>1, <1>2, <1>3, <1>4, <1>5, <1>6, SocketKeeps DEF Next, RangeStep

\* A socket that waits with the screen seen has sent the last one: no repaint is
\* missed between a borrow, the send and the wait.
THEOREM BrowsersCurrent == Spec => []BrowserCurrent
<1>1. Init => ScreenInv
  BY DEF Init, ScreenInv, Holding
<1>2. ScreenInv /\ [Next]_vars => ScreenInv'
  BY ScreenKept
<1>3. ScreenInv => BrowserCurrent
  BY DEF ScreenInv, BrowserCurrent, Holding
<1> QED
  BY <1>1, <1>2, <1>3, PTL DEF Spec

-----------------------------------------------------------------------------
(* The statuses.  The newest notification about a commit, in the channel or *)
(* taken, says what has become of the job it is about, and of an earlier    *)
(* job only that it has started or finished.                                *)

Statuses == {"Enqueued", "Started", "result", "canceled"}
JobRecord == [status : Statuses, canceled : BOOLEAN]
Notif == Commit \X Statuses

StatusTypeOK ==
  /\ jobs \in [Commit -> Seq(JobRecord)]
  /\ notifs \in Seq(Notif)
  /\ tracked_cases \in [Commit -> Statuses \cup {"none"}]

\* Is s a status that the jobs of c justify?
Justified(c, s) ==
  jobs[c] # <<>> =>
    \/ s = jobs[c][Len(jobs[c])].status
    \/ s # "Enqueued" /\ \E i \in 1..(Len(jobs[c]) - 1) : jobs[c][i].status = s

\* Nothing follows the k-th message about c.
NewestAbout(c, k) == notifs[k][1] = c /\ \A m \in 1..Len(notifs) : m > k => notifs[m][1] # c
NoneAbout(c) == \A k \in 1..Len(notifs) : notifs[k][1] # c

NewestJustified(c) ==
  /\ \A k \in 1..Len(notifs) : NewestAbout(c, k) => Justified(c, notifs[k][2])
  /\ NoneAbout(c) => Justified(c, tracked_cases[c])

StatusInv == StatusTypeOK /\ \A c \in Commit \ dropped : NewestJustified(c)

\* What Notify does to the channel: its last message is the new one, and what
\* is missing of the others is counted as dropped.
LEMMA NotifyLemma ==
  ASSUME StatusTypeOK, NEW c \in Commit, NEW s \in Statuses, Notify(c, s)
  PROVE  /\ notifs' \in Seq(Notif)
         /\ Len(notifs) \in Nat
         /\ \/ /\ Len(notifs') = Len(notifs) + 1
               /\ dropped' = dropped
               /\ \A k \in 1..Len(notifs) : notifs'[k] = notifs[k]
            \/ /\ Len(notifs') = Len(notifs)
               /\ Len(notifs) >= 1
               /\ dropped' = dropped \cup {notifs[1][1]}
               /\ \A k \in 1..(Len(notifs) - 1) : notifs'[k] = notifs[k + 1]
         /\ notifs'[Len(notifs')] = <<c, s>>
<1>0. notifs \in Seq(Notif) /\ <<c, s>> \in Notif /\ Len(notifs) \in Nat
  BY DEF StatusTypeOK, Notif
<1>1. CASE Len(notifs) < Cap
  <2>1. notifs' = Append(notifs, <<c, s>>) /\ dropped' = dropped
    BY <1>1 DEF Notify
  <2>2. /\ notifs' \in Seq(Notif)
        /\ Len(notifs') = Len(notifs) + 1
        /\ notifs'[Len(notifs) + 1] = <<c, s>>
        /\ \A k \in 1..Len(notifs) : notifs'[k] = notifs[k]
    BY <1>0, <2>1
  <2> QED
    BY <1>0, <2>1, <2>2
<1>2. CASE ~(Len(notifs) < Cap)
  <2>1. notifs # <<>> /\ Len(notifs) >= 1
    BY <1>0, <1>2, CapAssumption
  <2>2. /\ notifs' = Append(Tail(notifs), <<c, s>>)
        /\ dropped' = dropped \cup {Head(notifs)[1]}
    BY <1>2 DEF Notify
  <2>3. /\ Tail(notifs) \in Seq(Notif)
        /\ Len(Tail(notifs)) = Len(notifs) - 1
        /\ \A k \in 1..(Len(notifs) - 1) : Tail(notifs)[k] = notifs[k + 1]
        /\ Head(notifs) = notifs[1]
    BY <1>0, <2>1
  <2>4. /\ notifs' \in Seq(Notif)
        /\ Len(notifs') = Len(Tail(notifs)) + 1
        /\ notifs'[Len(Tail(notifs)) + 1] = <<c, s>>
        /\ \A k \in 1..Len(Tail(notifs)) : notifs'[k] = Tail(notifs)[k]
    BY <1>0, <2>2, <2>3
  <2>5. Len(notifs') = Len(notifs) /\ notifs'[Len(notifs')] = <<c, s>>
    BY <1>0, <2>1, <2>3, <2>4
  <2>6. \A k \in 1..(Len(notifs) - 1) : notifs'[k] = notifs[k + 1]
    BY <1>0, <2>1, <2>3, <2>4
  <2> QED
    BY <1>0, <2>1, <2>2, <2>3, <2>4, <2>5, <2>6
<1> QED
  BY <1>1, <1>2

\* A job's news are sent as they happen: the newest message about its commit is
\* the right one, and the messages about others stay as they were.
LEMMA NewsKeeps ==
  ASSUME StatusInv, NEW c \in Commit, NEW s \in Statuses, Notify(c, s),
         jobs' \in [Commit -> Seq(JobRecord)],
         \A d \in Commit \ {c} : jobs'[d] = jobs[d],
         Justified(c, s)',
         tracked_cases' = tracked_cases
  PROVE  StatusInv'
<1>0. StatusTypeOK
  BY DEF StatusInv
<1> DEFINE n == Len(notifs)
           m == Len(notifs')
<1>1. /\ notifs' \in Seq(Notif) /\ m \in Nat /\ m >= 1 /\ n \in Nat
      /\ notifs'[m] = <<c, s>>
      /\ \/ /\ m = n + 1 /\ dropped' = dropped
            /\ \A k \in 1..n : notifs'[k] = notifs[k]
         \/ /\ m = n /\ dropped' = dropped \cup {notifs[1][1]}
            /\ \A k \in 1..(n - 1) : notifs'[k] = notifs[k + 1]
  BY <1>0, NotifyLemma
<1>2. StatusTypeOK'
  BY <1>0, <1>1 DEF StatusTypeOK
<1>3. NewestJustified(c)'
  <2>1. ~NoneAbout(c)'
    BY <1>1 DEF NoneAbout
  <2>2. ASSUME NEW k \in 1..m, NewestAbout(c, k)' PROVE Justified(c, notifs[k][2])'
    <3>1. k = m
      BY <1>1, <2>2 DEF NewestAbout
    <3> QED
      BY <1>1, <3>1
  <2> QED
    BY <2>1, <2>2 DEF NewestJustified
<1>4. ASSUME NEW d \in Commit \ {c}, d \notin dropped' PROVE NewestJustified(d)'
  <2>0. NewestJustified(d) /\ jobs'[d] = jobs[d]
    BY <1>1, <1>4 DEF StatusInv
  <2>1. \A t : Justified(d, t)' = Justified(d, t)
    BY <2>0 DEF Justified
  <2>2. CASE m = n + 1 /\ \A k \in 1..n : notifs'[k] = notifs[k]
    <3>1. NoneAbout(d)' => NoneAbout(d)
      BY <1>1, <2>2 DEF NoneAbout
    <3>2. ASSUME NEW k \in 1..m, NewestAbout(d, k)' PROVE Justified(d, notifs[k][2])'
      <4>1. k \in 1..n
        BY <1>1, <2>2, <3>2 DEF NewestAbout
      <4>2. NewestAbout(d, k)
        BY <1>1, <2>2, <3>2, <4>1 DEF NewestAbout
      <4> QED
        BY <2>0, <2>1, <2>2, <4>1, <4>2 DEF NewestJustified
    <3> QED
      BY <2>0, <2>1, <3>1, <3>2 DEF NewestJustified
  <2>3. CASE m = n /\ notifs[1][1] # d /\ \A k \in 1..(n - 1) : notifs'[k] = notifs[k + 1]
    <3>1. NoneAbout(d)' => NoneAbout(d)
      <4> SUFFICES ASSUME NoneAbout(d)', NEW k \in 1..n PROVE notifs[k][1] # d
        BY DEF NoneAbout
      <4>1. CASE k = 1
        BY <2>3, <4>1
      <4>2. CASE k # 1
        <5>1. k - 1 \in 1..(n - 1) /\ k - 1 \in 1..m /\ notifs'[k - 1] = notifs[(k - 1) + 1]
          BY <1>1, <2>3, <4>2
        <5> QED
          BY <1>1, <5>1 DEF NoneAbout
      <4> QED
        BY <4>1, <4>2
    <3>2. ASSUME NEW k \in 1..m, NewestAbout(d, k)' PROVE Justified(d, notifs[k][2])'
      <4>1. k \in 1..(n - 1) /\ k + 1 \in 1..n /\ notifs'[k] = notifs[k + 1]
        BY <1>1, <2>3, <3>2 DEF NewestAbout
      <4>2. ASSUME NEW j \in 1..n, j > k + 1 PROVE notifs[j][1] # d
        <5>1. j - 1 \in 1..(n - 1) /\ j - 1 \in 1..m /\ j - 1 > k /\ notifs'[j - 1] = notifs[(j - 1) + 1]
          BY <1>1, <2>3, <4>1, <4>2
        <5> QED
          BY <1>1, <3>2, <5>1 DEF NewestAbout
      <4>3. NewestAbout(d, k + 1)
        BY <3>2, <4>1, <4>2 DEF NewestAbout
      <4> QED
        BY <2>0, <2>1, <4>1, <4>3 DEF NewestJustified
    <3> QED
      BY <2>0, <2>1, <3>1, <3>2 DEF NewestJustified
  <2> QED
    BY <1>1, <1>4, <2>2, <2>3
<1> QED
  BY <1>2, <1>3, <1>4 DEF StatusInv

\* A job that starts or finishes sends its new status.
LEMMA JobStepKeeps ==
  ASSUME StatusInv, NEW c \in Commit, JobStep(c)
  PROVE  StatusInv'
<1>0. StatusTypeOK
  BY DEF StatusInv
<1>1. PICK i \in DOMAIN jobs[c], s \in Statuses :
        /\ jobs' = [jobs EXCEPT ![c][i].status = s]
        /\ s # "Enqueued"
        /\ Notify(c, s)
        /\ tracked_cases' = tracked_cases
  BY DEF JobStep, JobStarts, JobFinishes, Statuses, viewerVars
<1> DEFINE rec == [jobs[c][i] EXCEPT !.status = s]
           js == [jobs[c] EXCEPT ![i] = rec]
<1>2. jobs[c] \in Seq(JobRecord) /\ i \in 1..Len(jobs[c]) /\ Len(jobs[c]) \in Nat
  BY <1>0, <1>1 DEF StatusTypeOK
<1>3. jobs' = [jobs EXCEPT ![c] = js]
  BY <1>1
<1>4. rec \in JobRecord /\ rec.status = s
  <2>1. jobs[c][i] \in JobRecord
    BY <1>2
  <2> QED
    BY <1>1, <2>1 DEF JobRecord
<1>5. js \in Seq(JobRecord) /\ Len(js) = Len(jobs[c]) /\ js[i].status = s
  BY <1>2, <1>4
<1>6. jobs' \in [Commit -> Seq(JobRecord)] /\ jobs'[c] = js
  BY <1>0, <1>3, <1>5 DEF StatusTypeOK
<1>7. \A d \in Commit \ {c} : jobs'[d] = jobs[d]
  BY <1>0, <1>3 DEF StatusTypeOK
<1> HIDE DEF js
<1>8. Justified(c, s)'
  <2>1. i = Len(js) \/ i \in 1..(Len(js) - 1)
    BY <1>2, <1>5
  <2> QED
    BY <1>1, <1>5, <1>6, <2>1 DEF Justified
<1> QED
  BY <1>1, <1>6, <1>7, <1>8, NewsKeeps

\* So does a job that is spawned.
LEMMA SpawnKeeps ==
  ASSUME StatusInv, NEW c \in Commit, SpawnJob(c)
  PROVE  StatusInv'
<1>0. StatusTypeOK
  BY DEF StatusInv
<1> DEFINE rec == [status |-> "Enqueued", canceled |-> FALSE]
           js == Append(jobs[c], rec)
<1>1. /\ jobs' = [jobs EXCEPT ![c] = js]
      /\ Notify(c, "Enqueued")
      /\ tracked_cases' = tracked_cases
  BY DEF SpawnJob, viewerVars
<1>2. jobs[c] \in Seq(JobRecord) /\ rec \in JobRecord /\ "Enqueued" \in Statuses
  BY <1>0 DEF StatusTypeOK, JobRecord, Statuses
<1>3. js \in Seq(JobRecord) /\ js[Len(js)] = rec
  BY <1>2
<1>4. jobs' \in [Commit -> Seq(JobRecord)] /\ jobs'[c] = js
  BY <1>0, <1>1, <1>3 DEF StatusTypeOK
<1>5. \A d \in Commit \ {c} : jobs'[d] = jobs[d]
  BY <1>0, <1>1 DEF StatusTypeOK
<1>6. Justified(c, "Enqueued")'
  BY <1>3, <1>4 DEF Justified
<1> QED
  BY <1>1, <1>2, <1>4, <1>5, <1>6, NewsKeeps

\* set_commits cancels jobs; their statuses stay.
LEMMA CancelsKeep ==
  ASSUME StatusInv, SetRevisions
  PROVE  StatusInv'
<1>0. StatusTypeOK
  BY DEF StatusInv
<1>1. notifs' = notifs /\ dropped' = dropped /\ tracked_cases' = tracked_cases
  BY DEF SetRevisions, chanVars, viewerVars
<1>2. PICK C \in SUBSET Commit :
        jobs' = [c \in Commit |-> IF c \in C
                                    THEN [jobs[c] EXCEPT ![Len(jobs[c])].canceled = TRUE]
                                    ELSE jobs[c]]
  <2> DEFINE C0 == {c \in Commit : c \in job_cts \ ToSet(Truncated(listed))}
  <2>1. jobs' = [c \in Commit |-> IF c \in C0
                                    THEN [jobs[c] EXCEPT ![Len(jobs[c])].canceled = TRUE]
                                    ELSE jobs[c]]
    BY DEF SetRevisions
  <2> QED
    BY <2>1
<1>3. ASSUME NEW c \in Commit
      PROVE  /\ jobs'[c] \in Seq(JobRecord) /\ Len(jobs'[c]) = Len(jobs[c])
             /\ \A i \in 1..Len(jobs[c]) : jobs'[c][i].status = jobs[c][i].status
  <2>0. jobs[c] \in Seq(JobRecord) /\ Len(jobs[c]) \in Nat
    BY <1>0 DEF StatusTypeOK
  <2>1. CASE c \notin C
    BY <1>2, <2>0, <2>1
  <2>2. CASE c \in C /\ Len(jobs[c]) = 0
    <3>1. jobs[c] = <<>>
      BY <2>0, <2>2
    <3>2. jobs'[c] = [<<>> EXCEPT ![0].canceled = TRUE]
      BY <1>2, <2>2, <3>1
    <3>3. jobs'[c] = [x \in {} |-> <<>>[x]]
      BY <3>2
    <3>4. jobs'[c] = <<>>
      BY <3>3
    <3> QED
      BY <2>0, <3>1, <3>4
  <2>3. CASE c \in C /\ Len(jobs[c]) # 0
    <3> DEFINE n == Len(jobs[c])
               rec == [jobs[c][n] EXCEPT !.canceled = TRUE]
               js == [jobs[c] EXCEPT ![n] = rec]
    <3>1. n \in 1..Len(jobs[c]) /\ jobs[c][n] \in JobRecord
      BY <2>0, <2>3
    <3>2. rec \in JobRecord /\ rec.status = jobs[c][n].status
      BY <3>1 DEF JobRecord
    <3>3. jobs'[c] = js
      BY <1>2, <2>3
    <3>4. js \in Seq(JobRecord) /\ Len(js) = Len(jobs[c])
      BY <2>0, <3>1, <3>2
    <3>5. \A i \in 1..Len(jobs[c]) : js[i].status = jobs[c][i].status
      BY <2>0, <3>1, <3>2
    <3> HIDE DEF js
    <3> QED
      BY <3>3, <3>4, <3>5
  <2> QED
    BY <2>1, <2>2, <2>3
<1>4. StatusTypeOK'
  BY <1>0, <1>1, <1>2, <1>3 DEF StatusTypeOK
<1>5. ASSUME NEW c \in Commit, NEW s, Justified(c, s)
      PROVE  Justified(c, s)'
  <2>0. jobs[c] \in Seq(JobRecord) /\ Len(jobs[c]) \in Nat
    BY <1>0 DEF StatusTypeOK
  <2>1. CASE jobs[c] = <<>>
    BY <1>3, <2>0, <2>1 DEF Justified
  <2>2. CASE jobs[c] # <<>>
    <3>1. Len(jobs[c]) \in 1..Len(jobs[c]) /\ Len(jobs'[c]) = Len(jobs[c])
      BY <1>3, <2>0, <2>2
    <3>2. \A i \in 1..Len(jobs[c]) : jobs'[c][i].status = jobs[c][i].status
      BY <1>3
    <3>3. CASE s = jobs[c][Len(jobs[c])].status
      BY <3>1, <3>2, <3>3 DEF Justified
    <3>4. CASE s # "Enqueued" /\ \E i \in 1..(Len(jobs[c]) - 1) : jobs[c][i].status = s
      <4>1. PICK i \in 1..(Len(jobs[c]) - 1) : jobs[c][i].status = s
        BY <3>4
      <4>2. i \in 1..Len(jobs[c]) /\ i \in 1..(Len(jobs'[c]) - 1)
        BY <2>0, <3>1
      <4>3. jobs'[c][i].status = s
        BY <3>2, <4>1, <4>2
      <4> QED
        BY <3>4, <4>2, <4>3 DEF Justified
    <3> QED
      BY <1>5, <2>2, <3>3, <3>4 DEF Justified
  <2> QED
    BY <2>1, <2>2
<1>6. ASSUME NEW c \in Commit \ dropped
      PROVE  NewestJustified(c)'
  <2>1. NewestJustified(c)
    BY DEF StatusInv
  <2>2. ASSUME NEW k \in 1..Len(notifs), NewestAbout(c, k)
        PROVE  Justified(c, notifs[k][2])'
    <3>1. Justified(c, notifs[k][2])
      BY <2>1, <2>2 DEF NewestJustified
    <3>2. PICK t : t = notifs[k][2]
      OBVIOUS
    <3>3. Justified(c, t)'
      BY <1>5, <3>1, <3>2
    <3> QED
      BY <1>1, <3>2, <3>3 DEF Justified
  <2>3. ASSUME NoneAbout(c)
        PROVE  Justified(c, tracked_cases[c])'
    <3>1. Justified(c, tracked_cases[c])
      BY <2>1, <2>3 DEF NewestJustified
    <3>2. PICK t : t = tracked_cases[c]
      OBVIOUS
    <3>3. Justified(c, t)'
      BY <1>5, <3>1, <3>2
    <3> QED
      BY <1>1, <3>2, <3>3 DEF Justified
  <2> QED
    BY <1>1, <2>2, <2>3 DEF NewestJustified, NewestAbout, NoneAbout
<1> QED
  BY <1>1, <1>4, <1>6 DEF StatusInv

\* The viewer takes the oldest message; when nothing about its commit follows,
\* the status taken is the justified one.
LEMMA TakeKeeps ==
  ASSUME StatusInv, TakeNotif
  PROVE  StatusInv'
<1>0. StatusTypeOK
  BY DEF StatusInv
<1> DEFINE n == Len(notifs)
           h == notifs[1]
<1>1. /\ notifs # <<>> /\ notifs' = Tail(notifs) /\ dropped' = dropped /\ jobs' = jobs
      /\ tracked_cases' = [tracked_cases EXCEPT ![Head(notifs)[1]] = Head(notifs)[2]]
  BY DEF TakeNotif, Tracked, manVars
<1>2. /\ notifs \in Seq(Notif) /\ n \in Nat /\ n >= 1 /\ h \in Notif
      /\ Head(notifs) = h
      /\ notifs' \in Seq(Notif) /\ Len(notifs') = n - 1
      /\ \A k \in 1..(n - 1) : notifs'[k] = notifs[k + 1]
  BY <1>0, <1>1 DEF StatusTypeOK
<1>3. h[1] \in Commit /\ h[2] \in Statuses
  BY <1>2 DEF Notif
<1>4. StatusTypeOK'
  BY <1>0, <1>1, <1>2, <1>3 DEF StatusTypeOK
<1>5. ASSUME NEW c \in Commit \ dropped
      PROVE  NewestJustified(c)'
  <2>1. NewestJustified(c)
    BY DEF StatusInv
  <2>2. ASSUME NEW k \in 1..(n - 1), NewestAbout(c, k)'
        PROVE  Justified(c, notifs[k][2])'
    <3>1. k + 1 \in 1..n /\ notifs'[k] = notifs[k + 1]
      BY <1>2
    <3>2. ASSUME NEW j \in 1..n, j > k + 1 PROVE notifs[j][1] # c
      <4>1. j - 1 \in 1..(n - 1) /\ j - 1 > k /\ notifs'[j - 1] = notifs[(j - 1) + 1]
        BY <1>2, <3>2
      <4> QED
        BY <1>2, <2>2, <4>1 DEF NewestAbout
    <3>3. NewestAbout(c, k + 1)
      BY <2>2, <3>1, <3>2 DEF NewestAbout
    <3>4. Justified(c, notifs[k + 1][2])
      BY <2>1, <3>1, <3>3 DEF NewestJustified
    <3> QED
      BY <1>1, <3>1, <3>4 DEF Justified
  <2>3. ASSUME NoneAbout(c)'
        PROVE  Justified(c, tracked_cases[c])'
    <3>1. ASSUME NEW j \in 1..n, j > 1 PROVE notifs[j][1] # c
      <4>1. j - 1 \in 1..(n - 1) /\ notifs'[j - 1] = notifs[(j - 1) + 1]
        BY <1>2, <3>1
      <4> QED
        BY <1>2, <2>3, <4>1 DEF NoneAbout
    <3>2. CASE h[1] = c
      <4>1. NewestAbout(c, 1) /\ 1 \in 1..n
        BY <1>2, <3>1, <3>2 DEF NewestAbout
      <4>2. Justified(c, h[2])
        BY <2>1, <4>1 DEF NewestJustified
      <4>3. tracked_cases'[c] = h[2]
        BY <1>0, <1>1, <1>2, <3>2 DEF StatusTypeOK
      <4> QED
        BY <1>1, <4>2, <4>3 DEF Justified
    <3>3. CASE h[1] # c
      <4>1. NoneAbout(c)
        BY <1>2, <3>1, <3>3 DEF NoneAbout
      <4>2. Justified(c, tracked_cases[c])
        BY <2>1, <4>1 DEF NewestJustified
      <4>3. tracked_cases'[c] = tracked_cases[c]
        BY <1>0, <1>1, <1>2, <3>3 DEF StatusTypeOK
      <4> QED
        BY <1>1, <4>2, <4>3 DEF Justified
    <3> QED
      BY <3>2, <3>3
  <2> QED
    BY <1>2, <2>2, <2>3 DEF NewestJustified
<1> QED
  BY <1>1, <1>4, <1>5 DEF StatusInv

\* Nobody else touches the jobs, the channel or the statuses.
LEMMA ElsewhereKeeps ==
  ASSUME StatusInv, UNCHANGED <<jobs, notifs, dropped, tracked_cases>>
  PROVE  StatusInv'
BY DEF StatusInv, StatusTypeOK, NewestJustified, NewestAbout, NoneAbout, Justified

\* Every step keeps StatusInv.
LEMMA StatusKept ==
  ASSUME StatusInv, [Next]_vars
  PROVE  StatusInv'
<1>1. CASE Alone(Change) \/ Alone(Noise) \/ Polled(Expire) \/ GitStep
  BY <1>1, ElsewhereKeeps DEF Alone, Polled, GitStep, manVars, chanVars, viewerVars
<1>2. CASE RangeStep /\ ~SetRevisions
  BY <1>2, ElsewhereKeeps DEF RangeStep, TakeRevs, StreamFails, ReadGraph, ReadInfo, SetRange,
                              SetRangeFails, manVars, chanVars, viewerVars
<1>3. CASE SetRevisions
  BY <1>3, CancelsKeep
<1>4. CASE TakeNotif
  BY <1>4, TakeKeeps
<1>5. CASE TakeLagged \/ TakeResize
  BY <1>5, ElsewhereKeeps DEF TakeLagged, TakeResize, manVars, chanVars, viewerVars
<1>6. ASSUME NEW c \in Commit, SpawnJob(c) \/ JobStep(c)
      PROVE  StatusInv'
  BY <1>6, SpawnKeeps, JobStepKeeps
<1>7. ASSUME NEW b \in Browser, WebStep(b)
      PROVE  StatusInv'
  BY <1>7, ElsewhereKeeps DEF WebStep, manVars, chanVars, viewerVars
<1>8. CASE UNCHANGED vars
  BY <1>8, ElsewhereKeeps DEF vars, manVars, chanVars, viewerVars
<1> QED
  BY <1>1, <1>2, <1>3, <1>4, <1>5, <1>6, <1>7, <1>8 DEF Next

\* Once the viewer has taken every notification, the status it shows of a commit
\* is one its jobs justify, however the manager cancels and spawns them, the jobs
\* start and finish, and the viewer keeps up; only about a commit of a dropped
\* notification may it be wrong.
THEOREM StatusFollowsHolds == Spec => []StatusFollows
<1>1. Init => StatusInv
  BY DEF Init, StatusInv, StatusTypeOK, NewestJustified, NewestAbout, NoneAbout, Justified
<1>2. StatusInv /\ [Next]_vars => StatusInv'
  BY StatusKept
<1>3. StatusInv => StatusFollows
  <2> SUFFICES ASSUME StatusInv, notifs = <<>>,
                      NEW c \in Commit \ dropped, jobs[c] # <<>>
               PROVE  \/ tracked_cases[c] = Last(jobs[c]).status
                      \/ \E i \in 1..(Len(jobs[c]) - 1) :
                           jobs[c][i].status = tracked_cases[c] /\ tracked_cases[c] # "Enqueued"
    BY DEF StatusFollows
  <2>1. NoneAbout(c)
    BY DEF NoneAbout
  <2>2. Justified(c, tracked_cases[c])
    BY <2>1 DEF StatusInv, NewestJustified
  <2> QED
    BY <2>2 DEF Justified, Last
<1> QED
  BY <1>1, <1>2, <1>3, PTL DEF Spec
=============================================================================
