------------------------- MODULE AttendanceSchedule ------------------------
(***************************************************************************)
(* The attendance scheduler of the announcing bot.  Its loop reloads the   *)
(* schedule every thirty seconds, keeps the recap message of the running   *)
(* evening up to date, and sleeps until the next boundary or thirty        *)
(* seconds, whichever is first.  At the end of the evening it launches the *)
(* final recap beside itself, which saves the evening's attendance.  The   *)
(* settings may be edited and the process may be restarted at any moment.  *)
(***************************************************************************)
EXTENDS Payroll

CONSTANTS
  Day,        \* thirty-second units in a day
  LastTime,   \* bound on the clock
  Schedules,  \* the [start, end] an administrator may try to save
  Characters, \* of the one account that plays
  Visits,     \* the visits of each character
  Required,   \* playtime_threshold
  MaxRecapFaults,  \* bound on restarts, failures and slow loads
  MaxEdits    \* bound on edits of the schedule

\* parseClockTime and Validate: two different times of the day.
ValidSchedule(s) == {s.start, s.end} \subseteq 0..(Day - 1) /\ s.start # s.end

\* A time is HH:MM, so an evening and the gap after it last two units or more.
ASSUME ScheduleAssumption ==
  /\ {Day, LastTime, Required, MaxRecapFaults, MaxEdits} \subseteq Nat
  /\ \A s \in Schedules : ValidSchedule(s) => (s.end - s.start) % Day \in 2..(Day - 2)
  /\ \A c \in Characters :
       IsFiniteSet(Visits[c]) /\ \A v \in Visits[c] : {v.from, v.to, v.last} \subseteq Int

VARIABLES
  time,      \* the clock, in units; the run begins at the second midnight
  settings, \* the saved schedule
  loop,     \* where Scheduler.Run is, with its lastUpdate and lastWindow
  recaps,   \* the publishRecap calls in progress
  memory,   \* recapMessageID and recapWindow
  posts,  \* the recap messages Discord accepted, in order
  logs,     \* attendance_logs
  fired,    \* history: the boundaries the loop fired, in order
  ended,    \* history: the evenings whose end the clock passed
  recapFaults, edits
attendanceVars == <<time, settings, loop, recaps, memory, posts, logs, fired, ended, recapFaults, edits>>

Never == -Day
NoMessage == [message |-> 0, window |-> Never]
Midnight(t) == t - (t % Day)

-----------------------------------------------------------------------------
\* The start of the evening that t belongs to, and its end.
EveningStart(t, s) ==
  LET today == Midnight(t) + s.start IN IF today > t THEN today - Day ELSE today
EveningEnd(start, s) ==
  LET sameDay == Midnight(start) + s.end IN IF sameDay <= start THEN sameDay + Day ELSE sameDay
ActiveWindow(t, s) == t < EveningEnd(EveningStart(t, s), s)

\* AttendanceWindow: an evening that has not ended ends now.
AttendanceWindow(t, s) ==
  LET start == EveningStart(t, s)
  IN  [start |-> start, finish |-> Min({t, EveningEnd(start, s)})]

NextDailyRun(t, clock) ==
  LET today == Midnight(t) + clock IN IF today <= t THEN today + Day ELSE today

NextBoundary(t, s) ==
  LET first == NextDailyRun(t, s.start)
      last == NextDailyRun(t, s.end)
  IN  IF last < first THEN [command |-> "end", runAt |-> last]
                      ELSE [command |-> "start", runAt |-> first]

-----------------------------------------------------------------------------
Loading(l) == [pc |-> "loading", lastUpdate |-> l.lastUpdate, lastWindow |-> l.lastWindow]
Started == [pc |-> "loading", lastUpdate |-> Never, lastWindow |-> Never]

\* Fault: the boundary is looked for after the live recap, from the clock then.
ArmFromClock(l, t, s) ==
  LET next == NextBoundary(time, s)
  IN  [pc |-> "armed", lastUpdate |-> l.lastUpdate, lastWindow |-> l.lastWindow,
       command |-> next.command, runAt |-> next.runAt, wake |-> Min({time + 1, next.runAt})]

\* The boundary after the clock as it was read, and a timer for thirty seconds
\* or less; one that is due already fires at once.
Armed(l, t, s) ==
  LET next == NextBoundary(t, s)
  IN  [pc |-> "armed", lastUpdate |-> l.lastUpdate, lastWindow |-> l.lastWindow,
       command |-> next.command, runAt |-> next.runAt, wake |-> Min({time + 1, next.runAt})]

Call(kind) == [kind |-> kind, at |-> time, pc |-> "waiting", window |-> AttendanceWindow(time, settings), age |-> 0]

AttendanceInit ==
  /\ time = Day
  /\ settings \in {s \in Schedules : ValidSchedule(s)}
  /\ loop = Started
  /\ recaps = {}
  /\ memory = NoMessage
  /\ posts = <<>>
  /\ logs = {}
  /\ fired = <<>>
  /\ ended = {}
  /\ recapFaults = 0 /\ edits = 0

Fault == recapFaults < MaxRecapFaults /\ recapFaults' = recapFaults + 1

\* loadTimes returns: a live recap of the running evening when its window is new
\* or a minute has passed, and the timer otherwise.
LoadTimes ==
  /\ loop.pc = "loading"
  /\ LET window == EveningStart(time, settings)
         due == /\ ActiveWindow(time, settings)
                /\ window # loop.lastWindow \/ time - loop.lastUpdate >= 2
     IN  IF due
         THEN /\ loop' = [pc |-> "updating", lastUpdate |-> time, lastWindow |-> window,
                          at |-> time, times |-> settings]
              /\ recaps' = recaps \cup {Call("live")}
         ELSE loop' = Armed(loop, time, settings) /\ UNCHANGED recaps
  /\ UNCHANGED <<time, settings, memory, posts, logs, fired, ended, recapFaults, edits>>

\* The schedule cannot be loaded: the loop tries again in thirty seconds.
LoadFails ==
  /\ loop.pc = "loading"
  /\ Fault
  /\ loop' = [pc |-> "retrying", lastUpdate |-> loop.lastUpdate, lastWindow |-> loop.lastWindow,
              wake |-> time + 1]
  /\ UNCHANGED <<time, settings, recaps, memory, posts, logs, fired, ended, edits>>

\* The live recap returned, with or without an error.
LiveRecapReturns ==
  /\ loop.pc = "updating"
  /\ \A r \in recaps : r.kind # "live"
  /\ loop' = Armed(loop, loop.at, loop.times)
  /\ UNCHANGED <<time, settings, recaps, memory, posts, logs, fired, ended, recapFaults, edits>>

\* The timer fires before the boundary, or at or after it.  The start is only
\* broadcast; the end launches the final recap beside the loop.
TimerFires ==
  /\ loop.pc \in {"armed", "retrying"}
  /\ loop.wake <= time
  /\ loop' = Loading(loop)
  /\ IF loop.pc = "retrying" \/ time < loop.runAt
     THEN UNCHANGED <<fired, recaps>>
     ELSE /\ fired' = Append(fired, <<loop.command, loop.runAt>>)
          /\ recaps' = IF loop.command = "end" THEN recaps \cup {Call("final")} ELSE recaps
  /\ UNCHANGED <<time, settings, memory, posts, logs, ended, recapFaults, edits>>

-----------------------------------------------------------------------------
Becomes(r, s) == recaps' = (recaps \ {r}) \cup {s}
Ends(r) == recaps' = recaps \ {r}

\* publishRecap takes its mutex and reloads the settings; the window is that of
\* the moment it was called at.
TakeMutex(r) ==
  /\ r.pc = "waiting"
  /\ \A q \in recaps : q.pc = "waiting"
  /\ Becomes(r, [r EXCEPT !.pc = "reading", !.window = AttendanceWindow(r.at, settings)])
  /\ UNCHANGED <<time, settings, loop, memory, posts, logs, fired, ended, recapFaults, edits>>

AttendanceLog(c, w, playtime) ==
  [character |-> c, start |-> w.start, finish |-> w.finish, playtime |-> playtime,
   attended |-> IsAttended(playtime, Required)]

\* SaveAttendanceRecap: one row per character that played, replacing the row
\* of the same window.
Upserted(w) ==
  LET playtime == [c \in Characters |-> PlaytimeRecap(Visits[c], w.start, w.finish)]
      rows == {AttendanceLog(c, w, playtime[c]) : c \in {c \in Characters : playtime[c] > 0}}
  IN  rows \cup {l \in logs : ~\E r \in rows : /\ r.character = l.character
                                              /\ r.start = l.start /\ r.finish = l.finish}

Store(r) ==
  /\ r.pc = "reading"
  /\ logs' = IF r.kind = "final" THEN Upserted(r.window) ELSE logs
  /\ Becomes(r, [r EXCEPT !.pc = "publishing"])
  /\ UNCHANGED <<time, settings, loop, memory, posts, fired, ended, recapFaults, edits>>

Message(r) == [window |-> r.window.start, final |-> r.kind = "final"]
IsNew(r) == memory.message = 0 \/ memory.window # r.window.start

\* Fault: the window of the message is not remembered with its id.
PublishForgetful(r) ==
  /\ r.pc = "publishing"
  /\ IF IsNew(r)
     THEN /\ posts' = Append(posts, Message(r))
          /\ memory' = [memory EXCEPT !.message = Len(posts) + 1]
     ELSE posts' = [posts EXCEPT ![memory.message] = Message(r)] /\ UNCHANGED memory
  /\ Ends(r)
  /\ UNCHANGED <<time, settings, loop, logs, fired, ended, recapFaults, edits>>

\* The first recap of a window is a message of its own; the others edit it.
Publish(r) ==
  /\ r.pc = "publishing"
  /\ IF IsNew(r)
     THEN /\ posts' = Append(posts, Message(r))
          /\ memory' = [message |-> Len(posts) + 1, window |-> r.window.start]
     ELSE posts' = [posts EXCEPT ![memory.message] = Message(r)] /\ UNCHANGED memory
  /\ Ends(r)
  /\ UNCHANGED <<time, settings, loop, logs, fired, ended, recapFaults, edits>>

\* The reload, the query, the save, the send or the edit fails: no second try.
RecapFails(r) ==
  /\ Fault
  /\ r.pc = "waiting" => \A q \in recaps : q.pc = "waiting"
  /\ Ends(r)
  /\ UNCHANGED <<time, settings, loop, memory, posts, logs, fired, ended, edits>>

\* Discord accepts the message or the edit, and the answer is lost.
LoseAnswer(r) ==
  /\ r.pc = "publishing"
  /\ Fault
  /\ posts' = IF IsNew(r) THEN Append(posts, Message(r))
                ELSE [posts EXCEPT ![memory.message] = Message(r)]
  /\ Ends(r)
  /\ UNCHANGED <<time, settings, loop, memory, logs, fired, ended, edits>>

-----------------------------------------------------------------------------
\* The process is replaced: its timer, its calls and its memory are gone.
Restart ==
  /\ Fault
  /\ loop' = Started
  /\ recaps' = {}
  /\ memory' = NoMessage
  /\ UNCHANGED <<time, settings, posts, logs, fired, ended, edits>>

\* updateSettings: an administrator saves the form, if it is valid.
EditSchedule(s) ==
  /\ edits < MaxEdits
  /\ ValidSchedule(s)
  /\ s # settings
  /\ settings' = s
  /\ edits' = edits + 1
  /\ UNCHANGED <<time, loop, recaps, memory, posts, logs, fired, ended, recapFaults>>

\* A due timer fires within the unit, and a recap takes at most one.  A load
\* takes none, unless it is slow or the process is still starting: a fault.
TimePasses ==
  /\ time < LastTime
  /\ loop.pc \in {"armed", "retrying"} => time < loop.wake
  /\ loop.pc = "updating" => \E r \in recaps : r.kind = "live"
  /\ \A r \in recaps : r.age = 0
  /\ IF loop.pc = "loading" THEN Fault ELSE UNCHANGED recapFaults
  /\ time' = time + 1
  /\ recaps' = {[r EXCEPT !.age = 1] : r \in recaps}
  /\ LET start == EveningStart(time, settings)
     IN  ended' = IF EveningEnd(start, settings) = time + 1
                  THEN ended \cup {[start |-> start, finish |-> time + 1]} ELSE ended
  /\ UNCHANGED <<settings, loop, memory, posts, logs, fired, edits>>

Recap(r) == TakeMutex(r) \/ Store(r) \/ Publish(r) \/ RecapFails(r) \/ LoseAnswer(r)

AttendanceNext ==
  \/ LoadTimes \/ LoadFails \/ LiveRecapReturns \/ TimerFires
  \/ \E r \in recaps : Recap(r)
  \/ Restart
  \/ \E s \in Schedules : EditSchedule(s)
  \/ TimePasses

AttendanceSpec == AttendanceInit /\ [][AttendanceNext]_attendanceVars

-----------------------------------------------------------------------------
DateOf(t) == t \div Day
Settled(w) == w.finish + 2 <= time
Attends(w) ==
  \E c \in Characters : IsAttended(PlaytimeRecap(Visits[c], w.start, w.finish), Required)
MonthlyLogs == {[account |-> "account", date |-> DateOf(l.start), attended |-> l.attended] : l \in logs}
DaysAttended(dates) == TotalAttended(MonthlyLogs, "account", dates)

(***************************************************************************)
(* Every evening the account attended is a day of its report, whatever the *)
(* live recaps and the reloads were doing when it ended, and an evening    *)
(* counts once.  One is lost only to a fault of its own, since the final   *)
(* recap is tried once and startup does not backfill, or to an edit: that  *)
(* of the evening that is ending, and of one whose new end is nearer than  *)
(* the next reload.  A second row of an evening, or one that ends early,   *)
(* needs an edit too (Run, publishRecap, SaveAttendanceRecap, getMonthly). *)
(* And no boundary fires twice, over reloads, edits and restarts while it  *)
(* is being announced (nextDailyRun: strictly later than the clock read).  *)
(***************************************************************************)
EveningsCountOnce ==
  LET attended == {w \in ended : Settled(w) /\ Attends(w)}
      missed == {w \in attended : DaysAttended({DateOf(w.start)}) = 0}
  IN  /\ \A m, n \in DOMAIN fired : fired[m] = fired[n] => m = n
      /\ Cardinality(missed) <= recapFaults + 2 * edits
      /\ \A l \in logs :
           Cardinality({k \in logs : k.character = l.character /\ k.start = l.start}) <= 1 + edits
      /\ edits = 0 =>
           /\ DaysAttended(0..DateOf(time)) <= Cardinality({w \in ended : Attends(w)})
           /\ \A l \in logs : [start |-> l.start, finish |-> l.finish] \in ended

(***************************************************************************)
(* An evening has one recap message, unless a restart forgot it, its       *)
(* answer was lost or the schedule was edited; and once the final result   *)
(* is shown no late live recap replaces it ("editing the same message",    *)
(* README; the mutex and the order of Run's calls).                        *)
(***************************************************************************)
OneRecapMessage ==
  /\ \A n \in DOMAIN posts :
       Cardinality({k \in DOMAIN posts : posts[k].window = posts[n].window})
         <= 1 + recapFaults + edits
  /\ recapFaults = 0 /\ edits = 0 =>
       \A w \in {w \in ended : Settled(w)} :
         \E n \in DOMAIN posts : posts[n] = [window |-> w.start, final |-> TRUE]
=============================================================================
