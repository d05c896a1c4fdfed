----------------------------- MODULE PeakReport -----------------------------
(***************************************************************************)
(* The evening's peak report.  Every thirty seconds a bot process samples  *)
(* who is on the server, keeps the largest sample of the evening in        *)
(* player_peak_reports, and then posts the oldest evening whose peak the   *)
(* channel was not told: it deletes the post before and sends a new one    *)
(* while it holds the row.  During a deployment two processes do so.       *)
(***************************************************************************)
EXTENDS Integers, Sequences, FiniteSets, FiniteSetsExt

CONSTANTS
  Bots,        \* bot processes
  Evenings,    \* the dates 1..n of the run
  MaxMembers,  \* bound on the connected members of a sample
  Shunned,     \* evenings whose posts Discord refuses for ever
  MaxFaults,   \* bound on crashes, refusals and lost answers
  MaxPosts     \* bound on the messages of one evening

ASSUME PeakAssumption ==
  /\ {MaxMembers, MaxFaults, MaxPosts} \subseteq Nat
  /\ Evenings \subseteq Nat \ {0}
  /\ Shunned \subseteq Evenings

VARIABLES
  now,      \* half days: Daytime, then the evening, then the next daytime
  peaks,    \* player_peak_reports, by date
  posts,    \* the report messages Discord accepted, by date and in order
  job,      \* what each process is doing in its tick
  beat,     \* job's ticker has a tick waiting in its channel
  samples,  \* history: the committed samples, with the date they were taken on
  faults,   \* crashes, refusals and lost answers so far
  untracked \* history: posts Discord accepted whose record was never committed
vars == <<now, peaks, posts, job, beat, samples, faults, untracked>>

LastTime == 2 * Max(Evenings)
Asleep == [pc |-> "asleep"]
NoMessage == 0

\* WindowDate: the date, and whether it is past nine in the evening.
Date(t) == t \div 2 + 1
Active(t) == t % 2 = 1

Counted(d, n) == posts[d][n].count
Up(d) == {n \in DOMAIN posts[d] : posts[d][n].up}

-----------------------------------------------------------------------------
Init ==
  /\ now = 1
  /\ peaks = [d \in Evenings |-> [count |-> -1, posted |-> -1, message |-> NoMessage, wait |-> 0]]
  /\ posts = [d \in Evenings |-> <<>>]
  /\ job = [b \in Bots |-> Asleep]
  /\ beat = [b \in Bots |-> TRUE]
  /\ samples = {}
  /\ faults = 0
  /\ untracked = [d \in Evenings |-> 0]

TimePasses ==
  /\ now < LastTime
  /\ now' = now + 1
  /\ UNCHANGED <<peaks, posts, job, beat, samples, faults, untracked>>

\* Thirty seconds.  A process that sleeps has taken its last tick by then, and
\* a tick has forty seconds at most, so its work sees one more beat.
Beat ==
  /\ \A b \in Bots : IF job[b] = Asleep THEN ~beat[b] ELSE job[b].age = 0
  /\ beat' = [b \in Bots |-> TRUE]
  /\ job' = [b \in Bots |-> IF job[b] = Asleep THEN Asleep ELSE [job[b] EXCEPT !.age = 1]]
  /\ peaks' = [d \in Evenings |-> [peaks[d] EXCEPT !.wait = IF @ = 0 THEN 0 ELSE @ - 1]]
  /\ UNCHANGED <<now, posts, samples, faults, untracked>>

Sampling(b) == job[b].pc \in {"sampling", "captured", "idle"}
Holds(b, d) == job[b].pc \in {"claimed", "deleted", "sent", "refused"} /\ job[b].row = d

Goes(b, work) == job' = [job EXCEPT ![b] = work]

\* pg_try_advisory_xact_lock: a process that does not get it skips the tick,
\* the delivery included.
Begin(b) ==
  /\ job[b] = Asleep
  /\ beat[b]
  /\ beat' = [beat EXCEPT ![b] = FALSE]
  /\ Goes(b, IF \E c \in Bots : Sampling(c) THEN Asleep
             ELSE [pc |-> IF Active(now) THEN "sampling" ELSE "idle",
                   date |-> Date(now), age |-> 0])
  /\ UNCHANGED <<now, peaks, posts, samples, faults, untracked>>

\* Fault: a sample counts for the evening the tick began in.
CaptureAnyTime(b, count) ==
  /\ job[b].pc = "sampling"
  /\ Goes(b, [pc |-> "captured", date |-> job[b].date, count |-> count,
              at |-> Date(now), age |-> job[b].age])
  /\ UNCHANGED <<now, peaks, posts, beat, samples, faults, untracked>>

\* currentPlayerReport: a sample completed after midnight counts for no evening.
Capture(b, count) ==
  /\ job[b].pc = "sampling"
  /\ Goes(b, IF Active(now) /\ Date(now) = job[b].date
             THEN [pc |-> "captured", date |-> job[b].date, count |-> count,
                   at |-> Date(now), age |-> job[b].age]
             ELSE [pc |-> "idle", date |-> job[b].date, age |-> job[b].age])
  /\ UNCHANGED <<now, peaks, posts, beat, samples, faults, untracked>>

Saved(row, count) ==
  IF count > row.count THEN [row EXCEPT !.count = count, !.wait = 0] ELSE row

\* savePlayerPeak, which waits for the process that is posting the row, and
\* the commit that makes the sample survive a failed post.
Save(b) ==
  /\ job[b].pc = "captured"
  /\ ~\E c \in Bots : Holds(c, job[b].date)
  /\ peaks' = [peaks EXCEPT ![job[b].date] = Saved(@, job[b].count)]
  /\ samples' = samples \cup {<<job[b].at, job[b].count>>}
  /\ Goes(b, [pc |-> "idle", date |-> job[b].date, age |-> job[b].age])
  /\ UNCHANGED <<now, posts, beat, faults, untracked>>

\* Fault: only the evening of today is posted.
DueToday(b) ==
  {d \in Evenings :
     /\ d = job[b].date
     /\ peaks[d].count > peaks[d].posted
     /\ peaks[d].wait = 0
     /\ ~\E c \in Bots : Holds(c, d)}

\* Fault: a row that another process is posting is claimed as well.
DueLocked(b) ==
  {d \in Evenings : d <= job[b].date /\ peaks[d].count > peaks[d].posted /\ peaks[d].wait = 0}

\* The rows FOR UPDATE SKIP LOCKED chooses from.
Due(b) ==
  {d \in Evenings :
     /\ d <= job[b].date
     /\ peaks[d].count > peaks[d].posted
     /\ peaks[d].wait = 0
     /\ ~\E c \in Bots : Holds(c, d)}

\* deliverPlayerPeak: the oldest such row, or nothing to do.
Claim(b) ==
  /\ job[b].pc = "idle"
  /\ Goes(b, IF Due(b) = {} THEN Asleep
             ELSE LET d == Min(Due(b))
                  IN  [pc |-> "claimed", row |-> d, count |-> peaks[d].count,
                       previous |-> peaks[d].message, begun |-> job[b].age,
                       age |-> job[b].age])
  /\ UNCHANGED <<now, peaks, posts, beat, samples, faults, untracked>>

Fault == faults < MaxFaults /\ faults' = faults + 1

Removed(d, n) ==
  IF n = NoMessage THEN posts ELSE [posts EXCEPT ![d][n].up = FALSE]

\* The post before is deleted; one that is already gone is no error.
Delete(b) ==
  /\ job[b].pc = "claimed"
  /\ posts' = Removed(job[b].row, job[b].previous)
  /\ Goes(b, [job[b] EXCEPT !.pc = "deleted"])
  /\ UNCHANGED <<now, peaks, beat, samples, faults, untracked>>

Accepted(d, count) ==
  /\ Len(posts[d]) < MaxPosts
  /\ posts' = [posts EXCEPT ![d] = Append(@, [count |-> count, up |-> TRUE])]

Send(b) ==
  /\ job[b].pc = "deleted"
  /\ job[b].row \notin Shunned
  /\ Accepted(job[b].row, job[b].count)
  /\ Goes(b, [job[b] EXCEPT !.pc = "sent"])
  /\ UNCHANGED <<now, peaks, beat, samples, faults, untracked>>

\* Discord refuses the deletion or the post, or the renderer fails.
Refuse(b) ==
  /\ job[b].pc \in {"claimed", "deleted"}
  /\ IF job[b].row \in Shunned THEN UNCHANGED faults ELSE Fault
  /\ Goes(b, [job[b] EXCEPT !.pc = "refused"])
  /\ UNCHANGED <<now, peaks, posts, beat, samples, untracked>>

\* Discord does as it is asked and the answer is lost.
LoseAnswer(b) ==
  /\ \/ /\ job[b].pc = "claimed"
        /\ posts' = Removed(job[b].row, job[b].previous)
        /\ UNCHANGED untracked
     \/ /\ job[b].pc = "deleted"
        /\ job[b].row \notin Shunned
        /\ Accepted(job[b].row, job[b].count)
        /\ untracked' = [untracked EXCEPT ![job[b].row] = @ + 1]
  /\ Fault
  /\ Goes(b, [job[b] EXCEPT !.pc = "refused"])
  /\ UNCHANGED <<now, peaks, beat, samples>>

\* next_attempt_at is a minute after the row's transaction began: two beats,
\* less the one it may have seen.
Postpone(b) ==
  /\ job[b].pc = "refused"
  /\ peaks' = [peaks EXCEPT ![job[b].row].wait = 2 - (job[b].age - job[b].begun)]
  /\ Goes(b, Asleep)
  /\ UNCHANGED <<now, posts, beat, samples, faults, untracked>>

\* The message and the count are recorded, and the row is released.
Record(b) ==
  /\ job[b].pc = "sent"
  /\ peaks' = [peaks EXCEPT ![job[b].row] =
       [@ EXCEPT !.posted = peaks[job[b].row].count, !.message = Len(posts[job[b].row])]]
  /\ Goes(b, Asleep)
  /\ UNCHANGED <<now, posts, beat, samples, faults, untracked>>

\* The process dies, its forty seconds pass, or a statement fails: rolled back.
Abort(b) ==
  /\ job[b] # Asleep
  /\ Fault
  /\ untracked' = IF job[b].pc = "sent" THEN [untracked EXCEPT ![job[b].row] = @ + 1]
                                       ELSE untracked
  /\ Goes(b, Asleep)
  /\ UNCHANGED <<now, peaks, posts, beat, samples>>

\* Somebody removes a post by hand.
Moderate(d) ==
  /\ Fault
  /\ \E n \in Up(d) : posts' = Removed(d, n)
  /\ UNCHANGED <<now, peaks, job, beat, samples, untracked>>

Works(b) ==
  \/ Begin(b)
  \/ \E count \in 0..MaxMembers : Capture(b, count)
  \/ Save(b) \/ Claim(b) \/ Delete(b) \/ Send(b) \/ Postpone(b) \/ Record(b)
  \/ job[b].pc = "deleted" /\ job[b].row \in Shunned /\ Refuse(b)

Next ==
  \/ TimePasses \/ Beat
  \/ \E b \in Bots : Works(b) \/ Refuse(b) \/ LoseAnswer(b) \/ Abort(b)
  \/ \E d \in Evenings : Moderate(d)

\* The tickers run, and a tick's work goes on.
Spec == Init /\ [][Next]_vars /\ WF_vars(Beat) /\ \A b \in Bots : WF_vars(Works(b))

-----------------------------------------------------------------------------
(***************************************************************************)
(* The recorded peak of an evening is the best sample committed for it and *)
(* taken in it, whichever process took it and however the ticks overlapped *)
(* midnight or a delivery (playerReportTick, savePlayerPeak).              *)
(***************************************************************************)
PeakIsBestSample ==
  \A d \in Evenings :
    peaks[d].count = Max({-1} \cup {s[2] : s \in {s \in samples : s[1] = d}})

(***************************************************************************)
(* One post per evening: two are up only when a process died or lost an    *)
(* answer between Discord's acceptance and the commit, one for each time   *)
(* ("a crash in between can duplicate one report", deliverPlayerPeak).     *)
(***************************************************************************)
OnePostUp == \A d \in Evenings : Cardinality(Up(d)) <= 1 + untracked[d]

\* What the channel was told of an evening.
Told(d) == Max({-1} \cup {Counted(d, n) : n \in DOMAIN posts[d]})

Board == INSTANCE EveningBoard WITH
           peak <- [d \in Evenings |-> peaks[d].count],
           shown <- [d \in Evenings |-> Told(d)]

(***************************************************************************)
(* The report implements EveningBoard: a post tells the peak as it stands, *)
(* since the row is held while it is sent, and every evening's last peak   *)
(* is told, the refused posts of another evening notwithstanding.          *)
(***************************************************************************)
ImplementsBoard == Board!Spec
=============================================================================
