--------------------------- MODULE DiscordWitness ---------------------------
(***************************************************************************)
(* The visits the bot infers from one member's Discord activity and stores *)
(* beside the webhook's, under the source 'discord'.  On every tick the    *)
(* bot's main loop records a due server restart and then reads the gateway *)
(* cache; what it has seen in earlier ticks is in its memory only.  While  *)
(* a new version is deployed two processes do this over one table.         *)
(*                                                                         *)
(* The member plays, hides his activity or himself, and switches           *)
(* characters as he likes.  An activity that is being rewritten may be     *)
(* read as none, MaxTorn times in a row, and his presence may be missing   *)
(* from the cache while it fills.  The other members count for the size of *)
(* the snapshot only.                                                      *)
(***************************************************************************)
EXTENDS Integers, Sequences, FiniteSets, FiniteSetsExt, SequencesExt

CONSTANTS
  Processes,     \* the bot processes
  Characters,    \* the characters of the member
  Restarts,      \* instants of the restart schedule
  AbsenceStreak, \* discordAbsenceStreak
  MaxTorn,       \* bound: reads in a row that a rewrite may spoil
  Others,        \* sizes the rest of a snapshot may have
  MaxTime,       \* bound: the clock
  MaxChanges     \* bound: what the member and the deployments do

\* A streak is longer than a rewrite: that is what it is there for.
ASSUME WitnessAssumption ==
  /\ {MaxTorn, MaxChanges} \cup Others \subseteq Nat
  /\ {AbsenceStreak, MaxTime} \cup Restarts \subseteq Nat \ {0}
  /\ MaxTorn < AbsenceStreak

VARIABLES
  now,
  game,       \* what the member does on the game server
  activity,   \* what his client tells Discord, also when it lags behind
  sharing,    \* whether he lets Discord show it
  visible,    \* online, idle or dnd; else offline or invisible
  character,  \* the character discordCharacters attributes him to
  changes,
  rows,       \* server_logs with source 'discord'
  memory,     \* memory[p]: discordAbsence, discordObserved and the restart fields
  writing,    \* writing[p]: the row a process is about to insert
  spoilt,     \* spoilt[p]: reads in a row that a rewrite spoilt
  lit,        \* history: reads of p in a row, none held stale, of a shown activity
  parted      \* history: p read him online without the activity since it recorded a restart

member == <<game, activity, sharing, visible, character>>
vars == <<now, member, changes, rows, memory, writing, spoilt, lit, parted>>

None == [phase |-> "none", since |-> 0]
NoRow == [status |-> "none"]
Started == [absence |-> 0, observed |-> 0, checked |-> now, boundary |-> 0, cleared |-> FALSE]
Shown == IF sharing THEN activity ELSE None

-----------------------------------------------------------------------------
RowsOf(log, s) == {n \in DOMAIN log : log[n].session = s}
Closed(log, s) == \E n \in RowsOf(log, s) : log[n].status = "disconnected"
OpenSessions(log) == {s \in {log[n].session : n \in DOMAIN log} : ~Closed(log, s)}

\* Of some rows, the one the queries put first: ORDER BY occurred_at DESC, id DESC.
Newest(log, in) ==
  CHOOSE n \in in : \A m \in in \ {n} :
    log[m].at < log[n].at \/ (log[m].at = log[n].at /\ m < n)

\* Fault: the open visit is looked for on the character the member has now.
OpenVisitOfCharacter(log) ==
  LET open == {n \in DOMAIN log : log[n].session \in OpenSessions(log) /\ log[n].character = character}
  IN  IF open = {} THEN NoRow ELSE log[Newest(log, open)]

\* openDiscordVisit, by account: the newest row of a visit without an exit.
OpenVisit(log) ==
  LET open == {n \in DOMAIN log : log[n].session \in OpenSessions(log)}
  IN  IF open = {} THEN NoRow ELSE log[Newest(log, open)]

\* A row of this observation: an opening is dated to the start of the activity.
Opening(seen) ==
  [status |-> seen.phase, session |-> Len(rows) + 1, character |-> character,
   at |-> IF seen.since # 0 THEN seen.since ELSE now,
   dated |-> IF seen.since # 0 THEN "activity" ELSE "poll"]

\* An open visit is continued on the character it opened on.
Continuing(open, status) ==
  [status |-> status, session |-> open.session, character |-> open.character,
   at |-> now, dated |-> "poll"]

\* discordTransition: what an observation writes, given the open visit.
Transition(seen, open) ==
  CASE seen # None /\ open = NoRow -> Opening(seen)
    [] seen # None /\ open.status = "connecting" /\ seen.phase = "connected" ->
         Continuing(open, "connected")
    [] seen = None /\ open # NoRow -> Continuing(open, "disconnected")
    [] OTHER -> NoRow

\* ON CONFLICT (payload): a row dated by a poll is never a repetition.
Repeats(row) ==
  \E n \in DOMAIN rows :
    /\ row.dated = "activity" /\ rows[n].dated = "activity"
    /\ <<rows[n].status, rows[n].at, rows[n].character>> = <<row.status, row.at, row.character>>

-----------------------------------------------------------------------------
Init ==
  /\ now = 1
  /\ game = "away" /\ activity = None /\ sharing = TRUE /\ visible = TRUE
  /\ character \in Characters
  /\ changes = 0
  /\ rows = <<>>
  /\ memory = [p \in Processes |-> Started]
  /\ writing = [p \in Processes |-> NoRow]
  /\ spoilt = [p \in Processes |-> 0]
  /\ lit = [p \in Processes |-> 0]
  /\ parted = [p \in Processes |-> FALSE]

\* A restart of the game server throws everybody out; his activity may linger.
Tick ==
  /\ now < MaxTime
  /\ now' = now + 1
  /\ game' = IF now' \in Restarts THEN "away" ELSE game
  /\ UNCHANGED <<activity, sharing, visible, character, changes, rows, memory, writing, spoilt,
                lit, parted>>

Changes ==
  /\ changes < MaxChanges
  /\ changes' = changes + 1
  /\ UNCHANGED <<now, rows, writing, spoilt, lit, parted>>

\* Two activities do not begin in one instant.
Launch ==
  /\ Changes
  /\ \A n \in DOMAIN rows : rows[n].dated = "activity" => rows[n].at < now
  /\ game = "away"
  /\ game' = "joining"
  /\ activity' \in [phase : {"connecting"}, since : {0, now}]
  /\ UNCHANGED <<sharing, visible, character, memory>>
Arrive ==
  /\ Changes
  /\ game = "joining"
  /\ game' = "playing"
  /\ activity' = [activity EXCEPT !.phase = "connected"]
  /\ UNCHANGED <<sharing, visible, character, memory>>
Leave ==
  /\ Changes
  /\ activity # None
  /\ game' = "away" /\ activity' = None
  /\ UNCHANGED <<sharing, visible, character, memory>>
ShowOrHide ==
  /\ Changes
  /\ \/ sharing' = ~sharing /\ UNCHANGED visible
     \/ visible' = ~visible /\ UNCHANGED sharing
  /\ UNCHANGED <<game, activity, character, memory>>
SwitchCharacter ==
  /\ Changes
  /\ character' \in Characters \ {character}
  /\ UNCHANGED <<game, activity, sharing, visible, memory>>

\* A deployment or a crash: the process starts again with nothing in memory.
Reboot(p) ==
  /\ changes < MaxChanges
  /\ changes' = changes + 1
  /\ memory' = [memory EXCEPT ![p] = Started]
  /\ writing' = [writing EXCEPT ![p] = NoRow]
  /\ parted' = [parted EXCEPT ![p] = FALSE]
  /\ UNCHANGED <<now, member, rows, spoilt, lit>>

-----------------------------------------------------------------------------
Due(p) == {at \in Restarts : memory[p].checked < at /\ at <= now}
PreviousRestart(at) == Max({0} \cup {r \in Restarts : r < at})

\* What the restart ends: each character's newest row since the restart before.
EndedByRestart(at) ==
  LET in(c) == {n \in DOMAIN rows : rows[n].character = c /\ rows[n].at <= at
                                      /\ rows[n].at > PreviousRestart(at)}
  IN  {rows[Newest(rows, in(c))] : c \in {c \in Characters : in(c) # {}}}

\* Fault: who was read apart from his activity stays so over the next restart.
AfterRestartCleared(m, at) == [m EXCEPT !.boundary = at, !.checked = now]

\* checkServerRestart and CloseForRestart.
AfterRestart(m, at) == [m EXCEPT !.boundary = at, !.cleared = FALSE, !.checked = now]
CheckServerRestart(p) ==
  /\ writing[p] = NoRow
  /\ Due(p) # {}
  /\ LET at == Max(Due(p))
         ended == {r \in EndedByRestart(at) : r.status # "disconnected" /\ ~Closed(rows, r.session)}
     IN  /\ rows' = rows \o SetToSeq({[Continuing(r, "disconnected") EXCEPT !.at = at] : r \in ended})
         /\ memory' = [memory EXCEPT ![p] = AfterRestart(@, at)]
  /\ parted' = [parted EXCEPT ![p] = FALSE]
  /\ UNCHANGED <<now, member, changes, writing, spoilt, lit>>

\* staleRestartActivity
StaleRestartActivity(p, seen) ==
  /\ memory[p].boundary # 0
  /\ seen # None
  /\ IF seen.since # 0 THEN seen.since <= memory[p].boundary ELSE ~memory[p].cleared

\* discordAbsence after a read: seen, unknown, or absent once more.  The count
\* goes no further than the streak here; nothing tells larger ones apart.
Absence(p, seen) ==
  IF StaleRestartActivity(p, seen) THEN memory[p].absence
  ELSE IF ~visible \/ seen # None THEN 0
  ELSE Min({AbsenceStreak, memory[p].absence + 1})

\* Fault: an absence is believed at once.
ActsAtOnce(p, seen, filling) == visible /\ ~StaleRestartActivity(p, seen)

\* observeDiscordPresence and presenceCacheFilling: whether a read is acted on.
Acts(p, seen, filling) ==
  /\ visible
  /\ ~StaleRestartActivity(p, seen)
  /\ seen = None => Absence(p, seen) >= AbsenceStreak /\ ~filling

AfterRead(m, absence, observed, cleared) ==
  [m EXCEPT !.absence = absence, !.observed = observed, !.cleared = cleared]

\* A presence is in the snapshot: as it is, or its activity lost in a rewrite.
Read(p, seen, others) ==
  LET filling == others + 1 < memory[p].observed
      act == Acts(p, seen, filling)
  IN  /\ memory' = [memory EXCEPT ![p] = AfterRead(@, Absence(p, seen), others + 1,
           @.cleared \/ (@.boundary # 0 /\ seen = None /\ visible))]
      /\ writing' = [writing EXCEPT ![p] =
           IF act THEN Transition(seen, OpenVisit(rows)) ELSE NoRow]
      /\ parted' = [parted EXCEPT ![p] = @ \/ (memory[p].boundary # 0 /\ seen = None /\ visible)]

\* An offline member never plays, whatever the activity list says.
Truth == IF visible THEN Shown ELSE None

\* A tick of the main loop; a failed snapshot changes nothing.
Poll(p, others) ==
  /\ writing[p] = NoRow
  /\ Read(p, Truth, others)
  /\ spoilt' = [spoilt EXCEPT ![p] = 0]
  /\ lit' = [lit EXCEPT ![p] =
       IF Shown = None \/ StaleRestartActivity(p, Truth) THEN 0 ELSE Min({AbsenceStreak, @ + 1})]
  /\ UNCHANGED <<now, member, changes, rows>>
PollSpoilt(p, others) ==
  /\ writing[p] = NoRow
  /\ visible /\ Shown # None /\ spoilt[p] < MaxTorn
  /\ Read(p, None, others)
  /\ spoilt' = [spoilt EXCEPT ![p] = @ + 1]
  /\ lit' = [lit EXCEPT ![p] = Min({AbsenceStreak, @ + 1})]
  /\ UNCHANGED <<now, member, changes, rows>>
PollMissing(p, others) ==
  /\ writing[p] = NoRow
  /\ memory' = [memory EXCEPT ![p].observed = others]
  /\ UNCHANGED <<now, member, changes, rows, writing, spoilt, lit, parted>>

\* RecordDiscordPresence: the row is inserted, or it is a repetition.
Insert(p) ==
  /\ writing[p] # NoRow
  /\ rows' = IF Repeats(writing[p]) THEN rows ELSE Append(rows, writing[p])
  /\ writing' = [writing EXCEPT ![p] = NoRow]
  /\ UNCHANGED <<now, member, changes, memory, spoilt, lit, parted>>

\* The insert fails; a later tick finds the same disagreement.
InsertFails(p) ==
  /\ writing[p] # NoRow
  /\ writing' = [writing EXCEPT ![p] = NoRow]
  /\ UNCHANGED <<now, member, changes, rows, memory, spoilt, lit, parted>>

Next ==
  \/ Tick
  \/ Launch \/ Arrive \/ Leave \/ ShowOrHide \/ SwitchCharacter
  \/ \E p \in Processes :
       \/ Reboot(p)
       \/ CheckServerRestart(p)
       \/ \E others \in Others : Poll(p, others) \/ PollSpoilt(p, others) \/ PollMissing(p, others)
       \/ Insert(p) \/ InsertFails(p)

Spec == Init /\ [][Next]_vars

-----------------------------------------------------------------------------
TypeOK ==
  /\ game \in {"away", "joining", "playing"}
  /\ activity \in [phase : {"none", "connecting", "connected"}, since : 0..MaxTime]
  /\ \A n \in DOMAIN rows : rows[n].status \in {"connecting", "connected", "disconnected"} /\ rows[n].at \in 1..now
  /\ \A p \in Processes :
       /\ memory[p].absence \in 0..AbsenceStreak
       /\ memory[p].boundary \in {0} \cup Restarts
       /\ spoilt[p] \in 0..MaxTorn

Inserts(p) == writing[p] # NoRow /\ Len(rows') > Len(rows)

(***************************************************************************)
(* A rewrite of the activity does not end a visit: whoever was shown to    *)
(* play at each of the last AbsenceStreak reads, none of them held stale,  *)
(* gets no exit from a poll (observeDiscordActivity).                      *)
(***************************************************************************)
NoFalseExit ==
  [][\A p \in Processes :
       writing'[p].status = "disconnected" /\ writing[p] = NoRow => lit'[p] < AbsenceStreak]_vars

(***************************************************************************)
(* "A Discord visit always closes on the character it opened on", whatever *)
(* character the member is attributed to in between; and one process never *)
(* has two visits of an account open, so a visit cannot be left behind for *)
(* twelve hours (openDiscordVisit, by account).                            *)
(***************************************************************************)
OneOpenVisit ==
  /\ Cardinality(OpenSessions(rows)) <= 1
  /\ \A m, n \in DOMAIN rows :
       rows[m].session = rows[n].session => rows[m].character = rows[n].character

(***************************************************************************)
(* An activity that outlived a server restart opens a visit only in a      *)
(* process that has not recorded that restart, after a reboot or an error; *)
(* or, if it does not tell its start, in one that has since read the       *)
(* member online without it, for which a single read that a rewrite spoils *)
(* is enough (staleRestartActivity and its restartCleared, after           *)
(* checkServerRestart in the same tick).                                   *)
(***************************************************************************)
StaleNeedsALapse ==
  [][\A p \in Processes :
       (/\ Inserts(p)
        /\ writing[p].status # "disconnected"
        /\ game = "away" /\ activity # None)
       => \/ memory[p].boundary < PreviousRestart(now + 1)
          \/ activity.since = 0 /\ parted[p]]_vars
=============================================================================
