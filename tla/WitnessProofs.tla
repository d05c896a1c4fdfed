---------------------------- MODULE WitnessProofs ---------------------------
(***************************************************************************)
(* What holds of the visits the bot infers from Discord, however long a    *)
(* streak has to be and whenever the game server restarts.                 *)
(*                                                                         *)
(* An exit from a poll needs as many reads in a row without the activity   *)
(* as the streak is long.  Those reads are either spoilt by a rewrite, of  *)
(* which there are fewer in a row, or reach back to a read that showed no  *)
(* activity or one held stale: Streaks keeps that every absence counted is *)
(* a spoilt read, or that nothing was shown before the spoilt ones.        *)
(*                                                                         *)
(* A stale activity is older than the restart that left it behind: Thrown. *)
(* A process that has recorded that restart does not act on it, and one    *)
(* that is already inserting a row keeps the restart it has recorded until *)
(* the row is stored: Lapses.  One that does not tell its start is refused *)
(* until the process has read the member online without it: Undated.       *)
(*                                                                         *)
(* With one process nothing is stored between the lookup of the open visit *)
(* and the row that continues it or opens another: Lookups.                *)
(***************************************************************************)
EXTENDS DiscordWitness, CommonLemmas

Statuses == {"connecting", "connected", "disconnected"}
Stored == [status : Statuses, session : Nat \ {0}, character : Characters,
           at : 1..MaxTime, dated : {"activity", "poll"}]
Flags == BOOLEAN
Memory == [absence : 0..AbsenceStreak, observed : Nat, checked : 1..MaxTime,
           boundary : {0} \cup Restarts, cleared : Flags]

MemberTypes ==
  /\ now \in 1..MaxTime
  /\ game \in {"away", "joining", "playing"}
  /\ activity \in [phase : {"none", "connecting", "connected"}, since : 0..MaxTime]
  /\ activity.phase = "none" => activity = None
  /\ game = "joining" => activity # None
  /\ activity.since <= now
  /\ sharing \in BOOLEAN /\ visible \in BOOLEAN
  /\ character \in Characters

ProcessTypes ==
  /\ memory \in [Processes -> Memory]
  /\ \A p \in Processes : memory[p].boundary <= now /\ memory[p].checked <= now
  /\ spoilt \in [Processes -> 0..MaxTorn]
  /\ lit \in [Processes -> 0..AbsenceStreak]

RowsAre ==
  /\ rows \in Seq(Stored)
  /\ \A n \in DOMAIN rows : rows[n].at <= now
  /\ writing \in [Processes -> Stored \cup {NoRow}]
  /\ \A p \in Processes : writing[p] # NoRow => writing[p].at <= now

WitnessTypes == MemberTypes /\ ProcessTypes /\ RowsAre

Streaks == \A p \in Processes : memory[p].absence <= spoilt[p] \/ lit[p] <= spoilt[p]

LeftBehind == game = "away" /\ activity.since # 0
Thrown == LeftBehind => activity.since < PreviousRestart(now + 1)
OpensVisit(p) == writing[p] # NoRow /\ writing[p].status # "disconnected"
Lapses ==
  LeftBehind => \A p \in Processes : OpensVisit(p) => memory[p].boundary < PreviousRestart(now + 1)

WitnessInv == WitnessTypes /\ Streaks /\ Thrown /\ Lapses

-----------------------------------------------------------------------------
Whole(log) ==
  /\ \A n \in DOMAIN log : log[n].session <= n
  /\ \A m, n \in DOMAIN log : log[m].session = log[n].session => log[m].character = log[n].character
  /\ \A s, t \in OpenSessions(log) : s = t

OpensOn(log, row) ==
  /\ OpenSessions(log) = {}
  /\ row.status # "disconnected"
  /\ row.session = Len(log) + 1
ContinuesOn(log, row) ==
  /\ row.session \in OpenSessions(log)
  /\ \E n \in DOMAIN log : log[n].session = row.session /\ log[n].character = row.character

Lookups ==
  \A p \in Processes : writing[p] # NoRow => OpensOn(rows, writing[p]) \/ ContinuesOn(rows, writing[p])

VisitsInv == Whole(rows) /\ Lookups

-----------------------------------------------------------------------------
\* The restart before an instant.
LEMMA PreviousIs ==
  ASSUME NEW at \in Nat
  PROVE  /\ PreviousRestart(at) \in Nat
         /\ PreviousRestart(at) = 0 \/ (PreviousRestart(at) \in Restarts /\ PreviousRestart(at) < at)
         /\ \A r \in Restarts : r < at => r <= PreviousRestart(at)
  <1> DEFINE T == {0} \cup {r \in Restarts : r < at}
  <1>1. T \in SUBSET (0..at) /\ T # {}
    BY WitnessAssumption
  <1>2. PreviousRestart(at) = Max(T)
    BY Zenon DEF PreviousRestart
  <1> HIDE DEF T
  <1>3. Max(T) \in T /\ \A j \in T : j <= Max(T)
    BY <1>1, MaxIsLargest
  <1>4. QED
    BY <1>1, <1>2, <1>3 DEF T

\* A unit without a restart leaves it as it was; one with a restart makes it that.
LEMMA PreviousPasses ==
  ASSUME NEW at \in Nat
  PROVE  /\ at \notin Restarts => PreviousRestart(at + 1) = PreviousRestart(at)
         /\ at \in Restarts => PreviousRestart(at + 1) = at
  <1>1. ASSUME at \notin Restarts PROVE PreviousRestart(at + 1) = PreviousRestart(at)
    <2>1. \A r \in Restarts : r < at + 1 <=> r < at
      BY <1>1, WitnessAssumption
    <2>2. {r \in Restarts : r < at + 1} = {r \in Restarts : r < at}
      BY <2>1
    <2>3. QED
      BY <2>2, Zenon DEF PreviousRestart
  <1>2. ASSUME at \in Restarts PROVE PreviousRestart(at + 1) = at
    <2> DEFINE before == PreviousRestart(at + 1)
    <2>1. /\ before \in Nat /\ (before = 0 \/ before < at + 1)
          /\ \A r \in Restarts : r < at + 1 => r <= before
      <3>1. at + 1 \in Nat
        OBVIOUS
      <3>2. QED
        BY <3>1, PreviousIs
    <2> HIDE DEF before
    <2>2. at <= before
      BY <1>2, <2>1
    <2>3. before = at
      BY <2>1, <2>2
    <2>4. QED
      BY <2>3 DEF before
  <1>3. QED
    BY <1>1, <1>2

\* The newest of some rows is one of them.
LEMMA NewestIs ==
  ASSUME NEW log \in Seq(Stored), NEW in \in SUBSET DOMAIN log, in # {}
  PROVE  Newest(log, in) \in in
  <1> DEFINE times == {log[n].at : n \in in}
  <1>0. MaxTime \in Nat /\ Len(log) \in Nat /\ DOMAIN log = 1..Len(log)
    BY WitnessAssumption
  <1>1. \A n \in in : n \in 1..Len(log) /\ log[n] \in Stored /\ log[n].at \in 1..MaxTime
    <2> TAKE n \in in
    <2>1. n \in 1..Len(log) /\ log[n] \in Stored
      BY <1>0
    <2>2. QED
      BY <2>1 DEF Stored
  <1>2. times \in SUBSET (0..MaxTime) /\ times # {}
    BY <1>0, <1>1
  <1> DEFINE last == Max(times)
  <1>3. last \in times /\ \A t \in times : t <= last
    <2> HIDE DEF times
    <2>1. QED
      BY <1>0, <1>2, MaxIsLargest
  <1> HIDE DEF last
  <1> DEFINE latest == {n \in in : log[n].at = last}
  <1>4. latest \in SUBSET (0..Len(log)) /\ latest # {}
    BY <1>0, <1>1, <1>3
  <1> DEFINE top == Max(latest)
  <1>5. top \in latest /\ \A n \in latest : n <= top
    <2> HIDE DEF latest
    <2>1. QED
      BY <1>0, <1>4, MaxIsLargest
  <1> HIDE DEF top
  <1>6. top \in in /\ \A m \in in \ {top} :
           log[m].at < log[top].at \/ (log[m].at = log[top].at /\ m < top)
    <2>1. top \in in /\ log[top].at = last
      BY <1>5
    <2>2. ASSUME NEW m \in in \ {top}
          PROVE  log[m].at < log[top].at \/ (log[m].at = log[top].at /\ m < top)
      <3>1. log[m].at <= last /\ log[m].at \in Nat /\ last \in Nat
        BY <1>0, <1>1, <1>2, <1>3
      <3>2. log[m].at = last => m <= top
        BY <1>5
      <3>3. m \in Nat /\ top \in Nat /\ m # top
        BY <1>1, <2>1
      <3>4. QED
        BY <2>1, <3>1, <3>2, <3>3
    <2>3. QED
      BY <2>1, <2>2
  <1>7. QED
    BY <1>6, Zenon DEF Newest

\* The lookup finds a row of an open visit, unless there is none.
LEMMA OpenVisitIs ==
  ASSUME NEW log \in Seq(Stored)
  PROVE  \/ OpenVisit(log) = NoRow /\ OpenSessions(log) = {}
         \/ \E n \in DOMAIN log : OpenVisit(log) = log[n] /\ log[n].session \in OpenSessions(log)
  <1> DEFINE open == {n \in DOMAIN log : log[n].session \in OpenSessions(log)}
  <1>1. OpenVisit(log) = IF open = {} THEN NoRow ELSE log[Newest(log, open)]
    BY Zenon DEF OpenVisit
  <1>2. open = {} => OpenSessions(log) = {}
    BY DEF OpenSessions
  <1>3. open # {} => Newest(log, open) \in open
    <2>1. open \in SUBSET DOMAIN log
      OBVIOUS
    <2> HIDE DEF open
    <2>2. QED
      BY <2>1, NewestIs
  <1>4. QED
    BY <1>1, <1>2, <1>3, Zenon

\* What an observation writes: the first row of a new visit or the next of an open one.
LEMMA TransitionIs ==
  ASSUME WitnessTypes, NEW seen \in {None, activity}, NEW row,
         row = Transition(seen, OpenVisit(rows)), row # NoRow
  PROVE  /\ row \in Stored /\ row.at <= now
         /\ row.status # "disconnected" => seen # None
         /\ row.status = "disconnected" => seen = None
         /\ OpensOn(rows, row) \/ ContinuesOn(rows, row)
  <1> USE DEF WitnessTypes
  <1> DEFINE open == OpenVisit(rows)
  <1>1. rows \in Seq(Stored) /\ Len(rows) \in Nat
    BY DEF RowsAre
  <1>2. \/ open = NoRow /\ OpenSessions(rows) = {}
        \/ \E n \in DOMAIN rows : open = rows[n] /\ rows[n].session \in OpenSessions(rows)
    BY <1>1, OpenVisitIs
  <1>3. now \in 1..MaxTime /\ MaxTime \in Nat /\ character \in Characters
    BY WitnessAssumption DEF MemberTypes
  <1> HIDE DEF open
  <1>4. row = Transition(seen, open)
    BY DEF open
  <1>5. CASE seen # None /\ open = NoRow
    <2>1. row = Opening(seen)
      <3>1. open.status # "connecting"
        BY <1>5 DEF NoRow
      <3>2. QED
        BY <1>4, <1>5, <3>1, Zenon DEF Transition
    <2>2. /\ seen.phase \in {"connecting", "connected"} /\ seen.since \in 0..MaxTime
          /\ seen.since <= now
      BY <1>5 DEF MemberTypes
    <2>3. /\ row.status = seen.phase /\ row.session = Len(rows) + 1 /\ row.character = character
          /\ row.at = (IF seen.since # 0 THEN seen.since ELSE now)
      BY <2>1 DEF Opening
    <2>4. row \in Stored
      <3>1. (IF seen.since # 0 THEN seen.since ELSE now) \in 1..MaxTime
        BY <1>3, <2>2
      <3>2. (IF seen.since # 0 THEN "activity" ELSE "poll") \in {"activity", "poll"}
        OBVIOUS
      <3>3. Len(rows) + 1 \in Nat \ {0}
        BY <1>1
      <3>4. seen.phase \in Statuses
        BY <2>2 DEF Statuses
      <3>5. QED
        BY <1>3, <2>1, <3>1, <3>2, <3>3, <3>4 DEF Opening, Stored
    <2>5. open = NoRow => OpenSessions(rows) = {}
      <3>1. \A n \in DOMAIN rows : rows[n].status # "none"
        <4> TAKE n \in DOMAIN rows
        <4>1. rows[n] \in Stored
          BY <1>1
        <4>2. QED
          BY <4>1 DEF Stored, Statuses
      <3>2. QED
        BY <1>2, <3>1 DEF NoRow
    <2>6. row.at <= now
      BY <1>3, <2>2, <2>3
    <2>7. QED
      BY <1>5, <2>2, <2>3, <2>4, <2>5, <2>6 DEF OpensOn
  <1>6. ASSUME open # NoRow, NEW status \in {"connected", "disconnected"}, row = Continuing(open, status)
        PROVE  /\ row \in Stored /\ row.at <= now /\ row.status = status
               /\ ContinuesOn(rows, row)
    <2>1. PICK n \in DOMAIN rows : open = rows[n] /\ rows[n].session \in OpenSessions(rows)
      BY <1>2, <1>6
    <2>2. open \in Stored
      BY <1>1, <2>1
    <2>3. row \in Stored
      BY <1>3, <1>6, <2>2 DEF Continuing, Stored, Statuses
    <2>4. row.session = open.session /\ row.character = open.character /\ row.at = now /\ row.status = status
      BY <1>6 DEF Continuing
    <2>5. QED
      BY <1>3, <2>1, <2>3, <2>4 DEF ContinuesOn
  <1>7. CASE ~(seen # None /\ open = NoRow)
    <2>1. \/ /\ seen # None /\ open # NoRow
             /\ row = Continuing(open, "connected")
          \/ /\ seen = None /\ open # NoRow
             /\ row = Continuing(open, "disconnected")
      BY <1>4, <1>7, Zenon DEF Transition
    <2>2. QED
      BY <1>6, <2>1
  <1>8. QED
    BY <1>5, <1>7

-----------------------------------------------------------------------------
LEMMA Ticks ==
  ASSUME WitnessInv, Tick
  PROVE  WitnessInv'
  <1> USE DEF WitnessInv, WitnessTypes
  <1>1. now \in 1..MaxTime /\ MaxTime \in Nat /\ now < MaxTime /\ now' = now + 1
    BY WitnessAssumption DEF MemberTypes, Tick
  <1>2. now' \in 1..MaxTime /\ now <= now' /\ now + 1 \in Nat
    BY <1>1
  <1>3. /\ UNCHANGED <<activity, sharing, visible, character, rows, memory, writing, spoilt, lit>>
        /\ game' = IF now + 1 \in Restarts THEN "away" ELSE game
    BY <1>1 DEF Tick
  <1>4. MemberTypes'
    <2>1. game' \in {"away", "joining", "playing"} /\ (game' = "joining" => game = "joining")
      BY <1>3 DEF MemberTypes
    <2>2. activity.since \in Nat /\ activity.since <= now
      BY DEF MemberTypes
    <2>3. activity.since <= now'
      BY <1>1, <2>2
    <2>4. QED
      BY <1>2, <1>3, <2>1, <2>3 DEF MemberTypes, None
  <1>5. ProcessTypes'
    <2>1. \A p \in Processes : memory[p].boundary <= now' /\ memory[p].checked <= now'
      <3> TAKE p \in Processes
      <3>1. memory[p] \in Memory
        BY DEF ProcessTypes
      <3>2. memory[p].boundary \in Nat /\ memory[p].checked \in Nat
        BY <3>1, WitnessAssumption DEF Memory
      <3>3. memory[p].boundary <= now /\ memory[p].checked <= now
        BY DEF ProcessTypes
      <3>4. QED
        BY <1>1, <3>2, <3>3
    <2>2. QED
      BY <1>3, <2>1 DEF ProcessTypes
  <1>6. RowsAre'
    <2>1. \A r \in Stored : r.at <= now => r.at <= now'
      BY <1>1 DEF Stored
    <2>2. \A n \in DOMAIN rows : rows[n] \in Stored
      BY DEF RowsAre
    <2>3. \A p \in Processes : writing[p] # NoRow => writing[p] \in Stored
      BY DEF RowsAre
    <2>4. QED
      BY <1>3, <2>1, <2>2, <2>3 DEF RowsAre
  <1>7. Streaks'
    BY <1>3 DEF Streaks
  <1> DEFINE then == PreviousRestart(now + 1)
             next == PreviousRestart((now + 1) + 1)
  <1>8. /\ now + 1 \notin Restarts => next = then
        /\ now + 1 \in Restarts => next = now + 1
    BY <1>2, PreviousPasses
  <1>9. /\ activity.since \in Nat /\ activity.since <= now
        /\ \A p \in Processes : memory[p].boundary \in Nat /\ memory[p].boundary <= now
    <2>1. \A p \in Processes : memory[p].boundary \in Nat
      BY WitnessAssumption DEF ProcessTypes, Memory
    <2>2. QED
      BY <2>1 DEF MemberTypes, ProcessTypes
  <1>10. /\ LeftBehind => activity.since < then
         /\ LeftBehind => \A p \in Processes : OpensVisit(p) => memory[p].boundary < then
    BY DEF Thrown, Lapses
  <1>11. LeftBehind' => activity.since # 0 /\ (now + 1 \notin Restarts => LeftBehind)
    BY <1>3 DEF LeftBehind
  <1>12. \A p \in Processes : OpensVisit(p)' => OpensVisit(p)
    BY <1>3 DEF OpensVisit
  <1> HIDE DEF then, next
  <1>13. /\ LeftBehind' => activity.since < next
         /\ LeftBehind' => \A p \in Processes : OpensVisit(p)' => memory[p].boundary < next
    <2>1. CASE now + 1 \in Restarts
      BY <1>1, <1>8, <1>9, <2>1
    <2>2. CASE now + 1 \notin Restarts
      BY <1>8, <1>10, <1>11, <1>12, <2>2
    <2>3. QED
      BY <2>1, <2>2
  <1>14. Thrown' /\ Lapses'
    BY <1>1, <1>3, <1>13, Zenon DEF Thrown, Lapses, next
  <1>15. QED
    BY <1>4, <1>5, <1>6, <1>7, <1>14

LEMMA MemberActs ==
  ASSUME WitnessInv, Launch \/ Arrive \/ Leave \/ ShowOrHide \/ SwitchCharacter
  PROVE  WitnessInv'
  <1> USE DEF WitnessInv, WitnessTypes
  <1>1. UNCHANGED <<now, rows, writing, spoilt, lit, memory>>
    BY DEF Changes, Launch, Arrive, Leave, ShowOrHide, SwitchCharacter
  <1>2. ProcessTypes' /\ RowsAre' /\ Streaks'
    BY <1>1 DEF ProcessTypes, RowsAre, Streaks
  <1>3. now \in 1..MaxTime /\ MaxTime \in Nat
    BY WitnessAssumption DEF MemberTypes
  <1>4. MemberTypes' /\ (LeftBehind' => LeftBehind) /\ (LeftBehind' => activity' = activity)
    <2>1. CASE Launch
      <3>1. now \in 0..MaxTime /\ 0 \in 0..MaxTime /\ 0 <= now /\ now <= now
        BY <1>3
      <3>2. PICK since \in {0, now} : activity' = [phase |-> "connecting", since |-> since]
        BY <2>1, <1>1 DEF Launch
      <3>3. game' = "joining" /\ UNCHANGED <<sharing, visible, character>>
        BY <2>1 DEF Launch
      <3>4. since \in 0..MaxTime /\ since <= now
        BY <3>1
      <3>5. QED
        BY <1>1, <3>2, <3>3, <3>4 DEF MemberTypes, LeftBehind, None
    <2>2. CASE Arrive
      <3>1. /\ activity' = [activity EXCEPT !.phase = "connected"]
            /\ game' = "playing" /\ UNCHANGED <<sharing, visible, character>>
        BY <2>2 DEF Arrive
      <3>2. activity' = [phase |-> "connected", since |-> activity.since]
        BY <3>1 DEF MemberTypes
      <3>3. QED
        BY <1>1, <3>1, <3>2 DEF MemberTypes, LeftBehind, None
    <2>3. CASE Leave
      <3>1. game' = "away" /\ activity' = None /\ UNCHANGED <<sharing, visible, character>>
        BY <2>3 DEF Leave
      <3>2. None \in [phase : {"none", "connecting", "connected"}, since : 0..MaxTime]
        BY <1>3 DEF None
      <3>3. None' = None /\ None.since = 0 /\ 0 <= now
        BY <1>3 DEF None
      <3>4. QED
        BY <1>1, <3>1, <3>2, <3>3 DEF MemberTypes, LeftBehind
    <2>4. CASE ShowOrHide
      BY <1>1, <2>4 DEF ShowOrHide, MemberTypes, LeftBehind, None
    <2>5. CASE SwitchCharacter
      BY <1>1, <2>5 DEF SwitchCharacter, MemberTypes, LeftBehind, None
    <2>6. QED
      BY <2>1, <2>2, <2>3, <2>4, <2>5
  <1>5. \A p \in Processes : OpensVisit(p)' <=> OpensVisit(p)
    BY <1>1 DEF OpensVisit
  <1>6. Thrown' /\ Lapses'
    BY <1>1, <1>4, <1>5, Zenon DEF Thrown, Lapses
  <1>7. QED
    BY <1>2, <1>4, <1>6

-----------------------------------------------------------------------------
\* The steps of a process leave the member alone.
LEMMA Unmoved ==
  ASSUME WitnessInv, UNCHANGED <<now, member>>
  PROVE  /\ MemberTypes' /\ Thrown' /\ (LeftBehind' <=> LeftBehind)
         /\ now \in 1..MaxTime /\ MaxTime \in Nat
  <1>1. UNCHANGED <<now, game, activity, sharing, visible, character>>
    BY DEF member
  <1>2. MemberTypes' /\ (LeftBehind' <=> LeftBehind)
    BY <1>1 DEF WitnessInv, WitnessTypes, MemberTypes, LeftBehind, None
  <1>3. Thrown'
    BY <1>1, <1>2, Zenon DEF WitnessInv, Thrown
  <1>4. QED
    BY <1>2, <1>3, WitnessAssumption DEF WitnessInv, WitnessTypes, MemberTypes

\* What one process remembers changes, and perhaps the row it is inserting.
LEMMA ProcessSteps ==
  ASSUME WitnessInv, UNCHANGED <<now, member>>, NEW p \in Processes,
         NEW m \in Memory, m.boundary <= now, m.checked <= now, memory' = [memory EXCEPT ![p] = m],
         NEW w \in Stored \cup {NoRow}, w # NoRow => w.at <= now, writing' = [writing EXCEPT ![p] = w],
         NEW torn \in 0..MaxTorn, spoilt' = [spoilt EXCEPT ![p] = torn],
         NEW reads \in 0..AbsenceStreak, lit' = [lit EXCEPT ![p] = reads],
         m.absence <= torn \/ reads <= torn,
         LeftBehind /\ w # NoRow /\ w.status # "disconnected" => m.boundary < PreviousRestart(now + 1),
         rows' \in Seq(Stored), \A n \in DOMAIN rows' : rows'[n].at <= now
  PROVE  WitnessInv'
  <1> USE DEF WitnessInv, WitnessTypes
  <1>1. MemberTypes' /\ Thrown' /\ (LeftBehind' <=> LeftBehind) /\ now' = now
    BY Unmoved
  <1>2. /\ memory \in [Processes -> Memory] /\ writing \in [Processes -> Stored \cup {NoRow}]
        /\ spoilt \in [Processes -> 0..MaxTorn] /\ lit \in [Processes -> 0..AbsenceStreak]
    BY DEF ProcessTypes, RowsAre
  <1>3. /\ memory' \in [Processes -> Memory] /\ writing' \in [Processes -> Stored \cup {NoRow}]
        /\ spoilt' \in [Processes -> 0..MaxTorn] /\ lit' \in [Processes -> 0..AbsenceStreak]
    BY <1>2
  <1>4. \A q \in Processes :
          /\ memory'[q] = (IF q = p THEN m ELSE memory[q])
          /\ writing'[q] = (IF q = p THEN w ELSE writing[q])
          /\ spoilt'[q] = (IF q = p THEN torn ELSE spoilt[q])
          /\ lit'[q] = (IF q = p THEN reads ELSE lit[q])
    BY <1>2
  <1>5. ProcessTypes'
    BY <1>1, <1>3, <1>4 DEF ProcessTypes
  <1>6. RowsAre'
    BY <1>1, <1>3, <1>4 DEF RowsAre, NoRow
  <1>7. Streaks'
    BY <1>4 DEF Streaks
  <1>8. Lapses'
    <2>1. \A q \in Processes : LeftBehind /\ OpensVisit(q)' => memory'[q].boundary < PreviousRestart(now + 1)
      BY <1>4 DEF Lapses, OpensVisit, NoRow
    <2>2. QED
      BY <1>1, <2>1, Zenon DEF Lapses
  <1>9. QED
    BY <1>1, <1>5, <1>6, <1>7, <1>8

\* A process as it is.
LEMMA ProcessIs ==
  ASSUME WitnessInv, NEW p \in Processes
  PROVE  /\ memory[p] \in Memory /\ memory[p].boundary <= now /\ memory[p].checked <= now
         /\ writing[p] \in Stored \cup {NoRow} /\ (writing[p] # NoRow => writing[p].at <= now)
         /\ spoilt[p] \in 0..MaxTorn /\ lit[p] \in 0..AbsenceStreak
         /\ memory[p].absence <= spoilt[p] \/ lit[p] <= spoilt[p]
         /\ LeftBehind /\ OpensVisit(p) => memory[p].boundary < PreviousRestart(now + 1)
         /\ rows \in Seq(Stored) /\ \A n \in DOMAIN rows : rows[n].at <= now
         /\ memory = [memory EXCEPT ![p] = memory[p]] /\ writing = [writing EXCEPT ![p] = writing[p]]
         /\ spoilt = [spoilt EXCEPT ![p] = spoilt[p]] /\ lit = [lit EXCEPT ![p] = lit[p]]
  BY DEF WitnessInv, WitnessTypes, ProcessTypes, RowsAre, Streaks, Lapses

LEMMA Reboots ==
  ASSUME WitnessInv, NEW p \in Processes, Reboot(p)
  PROVE  WitnessInv'
  <1>1. UNCHANGED <<now, member, rows, spoilt, lit>>
    BY DEF Reboot
  <1>2. now \in 1..MaxTime /\ MaxTime \in Nat
    BY <1>1, Unmoved
  <1>3. Started \in Memory /\ Started.boundary <= now /\ Started.checked <= now /\ Started.absence = 0
    BY <1>2, WitnessAssumption DEF Started, Memory, Flags
  <1>4. memory' = [memory EXCEPT ![p] = Started] /\ writing' = [writing EXCEPT ![p] = NoRow]
    BY DEF Reboot
  <1>5. /\ spoilt[p] \in 0..MaxTorn /\ lit[p] \in 0..AbsenceStreak
        /\ rows' \in Seq(Stored) /\ \A n \in DOMAIN rows' : rows'[n].at <= now
        /\ spoilt' = [spoilt EXCEPT ![p] = spoilt[p]] /\ lit' = [lit EXCEPT ![p] = lit[p]]
    BY <1>1, ProcessIs
  <1>6. Started.absence <= spoilt[p]
    BY <1>3, <1>5, WitnessAssumption
  <1> DEFINE m == Started
             torn == spoilt[p]
             reads == lit[p]
  <1>7. /\ m \in Memory /\ m.boundary <= now /\ m.checked <= now /\ memory' = [memory EXCEPT ![p] = m]
        /\ torn \in 0..MaxTorn /\ spoilt' = [spoilt EXCEPT ![p] = torn]
        /\ reads \in 0..AbsenceStreak /\ lit' = [lit EXCEPT ![p] = reads]
        /\ m.absence <= torn
    BY <1>3, <1>4, <1>5, <1>6
  <1> HIDE DEF m, torn, reads
  <1>8. QED
    BY <1>1, <1>4, <1>5, <1>7, ProcessSteps

-----------------------------------------------------------------------------
\* What a restart ends, and the rows that end it.
Ended(at) == {r \in EndedByRestart(at) : r.status # "disconnected" /\ ~Closed(rows, r.session)}
Exit(r, at) == [status |-> "disconnected", session |-> r.session, character |-> r.character,
                at |-> at, dated |-> "poll"]
Exits(at) == {Exit(r, at) : r \in Ended(at)}

LEMMA EndedIs ==
  ASSUME rows \in Seq(Stored), NEW at \in 1..MaxTime
  PROVE  /\ \A r \in Ended(at) : \E n \in DOMAIN rows :
              r = rows[n] /\ rows[n].session \in OpenSessions(rows)
         /\ IsFiniteSet(Exits(at))
         /\ \A x \in Exits(at) : x \in Stored /\ x.at = at
  <1> DEFINE in(c) == {n \in DOMAIN rows : rows[n].character = c /\ rows[n].at <= at
                                             /\ rows[n].at > PreviousRestart(at)}
             among == {c \in Characters : in(c) # {}}
  <1>1. EndedByRestart(at) = {rows[Newest(rows, in(c))] : c \in among}
    BY Zenon DEF EndedByRestart
  <1>2. \A c \in among : Newest(rows, in(c)) \in DOMAIN rows
    <2> TAKE c \in among
    <2> DEFINE these == in(c)
    <2>1. these \in SUBSET DOMAIN rows /\ these # {}
      OBVIOUS
    <2> HIDE DEF these
    <2>2. Newest(rows, these) \in these
      BY <2>1, NewestIs
    <2>3. QED
      BY <2>1, <2>2, Zenon DEF these
  <1> HIDE DEF among, in
  <1>3. \A r \in EndedByRestart(at) : \E n \in DOMAIN rows : r = rows[n]
    BY <1>1, <1>2
  <1>4. \A r \in Ended(at) : \E n \in DOMAIN rows :
          r = rows[n] /\ rows[n].session \in OpenSessions(rows)
    BY <1>3 DEF Ended, OpenSessions
  <1>5. Exits(at) \subseteq {Exit(rows[n], at) : n \in DOMAIN rows}
    BY <1>4, Zenon DEF Exits
  <1>6. IsFiniteSet({Exit(rows[n], at) : n \in DOMAIN rows})
    <2> DEFINE f == [n \in DOMAIN rows |-> Exit(rows[n], at)]
    <2>1. IsFiniteSet(DOMAIN rows)
      <3>1. DOMAIN rows = 1..Len(rows) /\ Len(rows) \in Nat
        OBVIOUS
      <3>2. QED
        BY <3>1, FS_Interval
    <2>2. IsFiniteSet({f[n] : n \in DOMAIN rows})
      <3>1. f \in [DOMAIN rows -> {f[n] : n \in DOMAIN rows}]
        OBVIOUS
      <3>2. {f[n] : n \in DOMAIN rows} \subseteq {f[n] : n \in DOMAIN rows}
        OBVIOUS
      <3>3. f \in Surjection(DOMAIN rows, {f[n] : n \in DOMAIN rows})
        BY <3>1 DEF Surjection
      <3> HIDE DEF f
      <3>4. QED
        BY <2>1, <3>3, FS_Surjection
    <2>3. QED
      BY <2>2, Zenon
  <1>7. IsFiniteSet(Exits(at))
    BY <1>5, <1>6, FS_Subset
  <1>8. ASSUME NEW x \in Exits(at) PROVE x \in Stored /\ x.at = at
    <2>1. PICK n \in DOMAIN rows : x = Exit(rows[n], at)
      BY <1>5
    <2>2. rows[n] \in Stored
      OBVIOUS
    <2>3. QED
      BY <2>1, <2>2 DEF Exit, Stored, Statuses
  <1>9. QED
    BY <1>4, <1>7, <1>8

\* A due restart is one of the past, and its exits are added to the rows.
LEMMA RestartIs ==
  ASSUME WitnessInv, NEW p \in Processes, CheckServerRestart(p)
  PROVE  \E at \in Restarts :
           /\ at \in 1..MaxTime /\ at <= now
           /\ rows' = rows \o SetToSeq(Exits(at))
           /\ memory' = [memory EXCEPT ![p] = AfterRestart(memory[p], at)]
           /\ writing[p] = NoRow
           /\ UNCHANGED <<now, member, changes, writing, spoilt, lit>>
  <1> DEFINE at == Max(Due(p))
  <1>1. now \in 1..MaxTime /\ MaxTime \in Nat
    BY WitnessAssumption DEF WitnessInv, WitnessTypes, MemberTypes
  <1>2. Due(p) \in SUBSET (0..MaxTime) /\ Due(p) # {}
    BY <1>1, WitnessAssumption DEF CheckServerRestart, Due
  <1>3. at \in Due(p)
    BY <1>1, <1>2, MaxIsLargest
  <1>4. at \in Restarts /\ at \in 1..MaxTime /\ at <= now
    BY <1>1, <1>3, WitnessAssumption DEF Due
  <1>5. /\ rows' = rows \o SetToSeq({[Continuing(r, "disconnected") EXCEPT !.at = at] :
                                      r \in {r \in EndedByRestart(at) :
                                               r.status # "disconnected" /\ ~Closed(rows, r.session)}})
        /\ memory' = [memory EXCEPT ![p] = AfterRestart(memory[p], at)]
        /\ writing[p] = NoRow
        /\ UNCHANGED <<now, member, changes, writing, spoilt, lit>>
    BY Zenon DEF CheckServerRestart
  <1>6. {[Continuing(r, "disconnected") EXCEPT !.at = at] : r \in Ended(at)} = Exits(at)
    <2>1. \A r : [Continuing(r, "disconnected") EXCEPT !.at = at] = Exit(r, at)
      BY DEF Continuing, Exit
    <2>2. QED
      BY <2>1, Zenon DEF Exits
  <1> HIDE DEF at
  <1>7. rows' = rows \o SetToSeq(Exits(at))
    BY <1>5, <1>6, Zenon DEF Ended
  <1>8. QED
    BY <1>4, <1>5, <1>7

\* What is remembered, field by field.
Known(absence, observed, checked, boundary, cleared) ==
  [absence |-> absence, observed |-> observed, checked |-> checked, boundary |-> boundary, cleared |-> cleared]

LEMMA FieldsOf ==
  ASSUME NEW x \in Memory
  PROVE  /\ x.absence \in 0..AbsenceStreak /\ x.observed \in Nat /\ x.checked \in 1..MaxTime
         /\ x.boundary \in {0} \cup Restarts /\ x.cleared \in Flags
  <1>1. x.absence \in 0..AbsenceStreak /\ x.observed \in Nat /\ x.checked \in 1..MaxTime
    BY DEF Memory
  <1>2. x.boundary \in {0} \cup Restarts
    BY DEF Memory
  <1>3. x.cleared \in Flags
    BY DEF Memory
  <1>4. QED
    BY <1>1, <1>2, <1>3

LEMMA RecordsRestart ==
  ASSUME NEW x \in Memory, NEW at, NEW no, no = FALSE
  PROVE  AfterRestart(x, at) = Known(x.absence, x.observed, now, at, no)
  <1> DEFINE y == Known(x.absence, x.observed, x.checked, at, x.cleared)
             z == Known(x.absence, x.observed, x.checked, at, no)
  <1>1. AfterRestart(x, at) =
           [[[x EXCEPT !.boundary = at] EXCEPT !.cleared = no] EXCEPT !.checked = now]
    BY Zenon DEF AfterRestart
  <1>2. [x EXCEPT !.boundary = at] = y
    BY DEF Memory, Known
  <1>3. [y EXCEPT !.cleared = no] = z
    BY DEF Known
  <1>4. [z EXCEPT !.checked = now] = Known(x.absence, x.observed, now, at, no)
    BY DEF Known
  <1>5. QED
    BY <1>1, <1>2, <1>3, <1>4

LEMMA RecordsRead ==
  ASSUME NEW x \in Memory, NEW a, NEW b, NEW c
  PROVE  AfterRead(x, a, b, c) = Known(a, b, x.checked, x.boundary, c)
  <1> DEFINE y == Known(a, x.observed, x.checked, x.boundary, x.cleared)
             z == Known(a, b, x.checked, x.boundary, x.cleared)
  <1>1. AfterRead(x, a, b, c) = [[[x EXCEPT !.absence = a] EXCEPT !.observed = b] EXCEPT !.cleared = c]
    BY Zenon DEF AfterRead
  <1>2. [x EXCEPT !.absence = a] = y
    BY DEF Memory, Known
  <1>3. [y EXCEPT !.observed = b] = z
    BY DEF Known
  <1>4. [z EXCEPT !.cleared = c] = Known(a, b, x.checked, x.boundary, c)
    BY DEF Known
  <1>5. QED
    BY <1>1, <1>2, <1>3, <1>4

LEMMA ServerRestarts ==
  ASSUME WitnessInv, NEW p \in Processes, CheckServerRestart(p)
  PROVE  WitnessInv'
  <1>1. PICK at \in Restarts :
           /\ at \in 1..MaxTime /\ at <= now
           /\ rows' = rows \o SetToSeq(Exits(at))
           /\ memory' = [memory EXCEPT ![p] = AfterRestart(memory[p], at)]
           /\ writing[p] = NoRow
           /\ UNCHANGED <<now, member, changes, writing, spoilt, lit>>
    BY RestartIs
  <1>2. now \in 1..MaxTime /\ MaxTime \in Nat
    BY <1>1, Unmoved
  <1> DEFINE m == AfterRestart(memory[p], at)
             w == writing[p]
             torn == spoilt[p]
             reads == lit[p]
  <1>3. memory[p] \in Memory /\ rows \in Seq(Stored) /\ \A n \in DOMAIN rows : rows[n].at <= now
    BY ProcessIs
  <1>4. m \in Memory /\ m.boundary <= now /\ m.checked <= now /\ m.absence = memory[p].absence
    <2>1. PICK no \in Flags : no = FALSE
      BY Zenon DEF Flags
    <2>3. m = Known(memory[p].absence, memory[p].observed, now, at, no)
      BY <1>3, <2>1, RecordsRestart
    <2>4. memory[p].absence \in 0..AbsenceStreak /\ memory[p].observed \in Nat /\ now <= now
      BY <1>2, <1>3, FieldsOf
    <2> HIDE DEF m
    <2>2. at \in {0} \cup Restarts
      OBVIOUS
    <2>5. m \in Memory /\ m.boundary = at /\ m.checked = now /\ m.absence = memory[p].absence
      <3>1. m \in Memory
        BY <1>2, <2>1, <2>2, <2>3, <2>4 DEF Known, Memory
      <3>2. m.boundary = at
        BY <2>3 DEF Known
      <3>3. m.checked = now /\ m.absence = memory[p].absence
        BY <2>3 DEF Known
      <3>4. QED
        BY <3>1, <3>2, <3>3
    <2>6. QED
      BY <1>1, <2>4, <2>5
  <1>5. /\ memory' = [memory EXCEPT ![p] = m] /\ w = NoRow /\ w \in Stored \cup {NoRow}
        /\ writing' = [writing EXCEPT ![p] = w]
        /\ torn \in 0..MaxTorn /\ spoilt' = [spoilt EXCEPT ![p] = torn]
        /\ reads \in 0..AbsenceStreak /\ lit' = [lit EXCEPT ![p] = reads]
        /\ m.absence <= torn \/ reads <= torn
    BY <1>1, <1>4, ProcessIs
  <1>6. rows' \in Seq(Stored) /\ \A n \in DOMAIN rows' : rows'[n].at <= now
    <2> DEFINE new == SetToSeq(Exits(at))
    <2>1. /\ new \in Seq(Exits(at))
          /\ \A x \in Exits(at) : x \in Stored /\ x.at = at
      BY <1>1, <1>3, EndedIs, SetInSequence
    <2> HIDE DEF new
    <2>2. new \in Seq(Stored) /\ \A n \in DOMAIN new : new[n] \in Exits(at)
      BY <2>1, SeqMonotonic
    <2>3. \A n \in DOMAIN new : new[n].at <= now
      BY <1>1, <2>1, <2>2
    <2>4. rows' = rows \o new
      BY <1>1 DEF new
    <2>5. rows' \in Seq(Stored)
      BY <1>3, <2>2, <2>4
    <2>6. \A n \in DOMAIN rows' : rows'[n].at <= now
      BY <1>3, <2>2, <2>3, <2>4
    <2>7. QED
      BY <2>5, <2>6
  <1> HIDE DEF m, w, torn, reads
  <1>7. UNCHANGED <<now, member>>
    BY <1>1
  <1>8. QED
    BY <1>4, <1>5, <1>6, <1>7, ProcessSteps

-----------------------------------------------------------------------------
LEMMA AbsenceIs ==
  ASSUME WitnessInv, NEW p \in Processes, NEW seen
  PROVE  /\ Absence(p, seen) \in 0..AbsenceStreak
         /\ ~StaleRestartActivity(p, seen) /\ (~visible \/ seen # None) => Absence(p, seen) = 0
         /\ Absence(p, seen) <= memory[p].absence + 1
         /\ Absence(p, seen) = 0 \/ Absence(p, seen) >= memory[p].absence
  <1> DEFINE a == memory[p].absence
             b == Min({AbsenceStreak, memory[p].absence + 1})
  <1>1. a \in 0..AbsenceStreak /\ AbsenceStreak \in Nat
    BY ProcessIs, FieldsOf, WitnessAssumption
  <1>2. b = IF AbsenceStreak <= a + 1 THEN AbsenceStreak ELSE a + 1
    <2>1. AbsenceStreak \in Int /\ a + 1 \in Int
      BY <1>1
    <2> HIDE DEF a
    <2>2. b = Min({AbsenceStreak, a + 1})
      BY DEF a
    <2> HIDE DEF b
    <2>3. AbsenceStreak <= a + 1 => b = AbsenceStreak
      BY <2>1, <2>2, MinOfTwo
    <2>4. a + 1 <= AbsenceStreak => b = a + 1
      BY <2>1, <2>2, MinOfTwo
    <2>5. QED
      BY <1>1, <2>3, <2>4
  <1>3. Absence(p, seen) = IF StaleRestartActivity(p, seen) THEN a
                           ELSE IF ~visible \/ seen # None THEN 0 ELSE b
    BY DEF Absence
  <1> HIDE DEF a, b
  <1>4. /\ Absence(p, seen) \in 0..AbsenceStreak
        /\ ~StaleRestartActivity(p, seen) /\ (~visible \/ seen # None) => Absence(p, seen) = 0
        /\ Absence(p, seen) <= a + 1
        /\ Absence(p, seen) = 0 \/ Absence(p, seen) >= a
    BY <1>1, <1>2, <1>3
  <1>5. QED
    BY <1>4 DEF a

\* A read: what is remembered of it, and the row it leads to.
LEMMA Reading ==
  ASSUME WitnessInv, NEW p \in Processes, NEW others \in Others, NEW seen \in {None, activity},
         Read(p, seen, others)
  PROVE  \E m \in Memory, w \in Stored \cup {NoRow} :
           /\ memory' = [memory EXCEPT ![p] = m] /\ writing' = [writing EXCEPT ![p] = w]
           /\ m.absence = Absence(p, seen) /\ m.boundary = memory[p].boundary
           /\ m.boundary <= now /\ m.checked <= now
           /\ w # NoRow =>
                /\ w.at <= now
                /\ visible /\ ~StaleRestartActivity(p, seen)
                /\ w.status # "disconnected" => seen # None
                /\ w.status = "disconnected" => seen = None /\ Absence(p, seen) >= AbsenceStreak
                /\ OpensOn(rows, w) \/ ContinuesOn(rows, w)
  <1> DEFINE filling == others + 1 < memory[p].observed
             flag == memory[p].cleared \/ (memory[p].boundary # 0 /\ seen = None /\ visible)
             m == AfterRead(memory[p], Absence(p, seen), others + 1, flag)
             w == IF Acts(p, seen, filling) THEN Transition(seen, OpenVisit(rows)) ELSE NoRow
  <1>1. memory' = [memory EXCEPT ![p] = m]
    BY Zenon DEF Read
  <1>2. writing' = [writing EXCEPT ![p] = w]
    BY Zenon DEF Read
  <1>3. /\ m \in Memory /\ m.absence = Absence(p, seen) /\ m.boundary = memory[p].boundary
        /\ m.checked = memory[p].checked
    <2> DEFINE f == flag
    <2>1. f \in Flags
      BY Zenon DEF Flags
    <2>2. memory[p] \in Memory
      BY ProcessIs
    <2>3. others + 1 \in Nat /\ Absence(p, seen) \in 0..AbsenceStreak
      BY AbsenceIs, WitnessAssumption
    <2>4. m = AfterRead(memory[p], Absence(p, seen), others + 1, f)
      BY Zenon
    <2> HIDE DEF f, m
    <2>5. m = Known(Absence(p, seen), others + 1, memory[p].checked, memory[p].boundary, f)
      BY <2>2, <2>4, RecordsRead
    <2>6. memory[p].checked \in 1..MaxTime /\ memory[p].boundary \in {0} \cup Restarts
      BY <2>2, FieldsOf
    <2>7. m \in Memory
      BY <2>1, <2>3, <2>5, <2>6 DEF Known, Memory
    <2>8. m.absence = Absence(p, seen) /\ m.boundary = memory[p].boundary /\ m.checked = memory[p].checked
      BY <2>5 DEF Known
    <2>9. QED
      BY <2>7, <2>8
  <1>4. m.boundary <= now /\ m.checked <= now
    BY <1>3, ProcessIs
  <1>5. ASSUME w # NoRow
        PROVE  /\ w \in Stored
               /\ w.at <= now
               /\ visible /\ ~StaleRestartActivity(p, seen)
               /\ w.status # "disconnected" => seen # None
               /\ w.status = "disconnected" => seen = None /\ Absence(p, seen) >= AbsenceStreak
               /\ OpensOn(rows, w) \/ ContinuesOn(rows, w)
    <2>1. Acts(p, seen, filling) /\ w = Transition(seen, OpenVisit(rows))
      BY <1>5, Zenon
    <2> HIDE DEF w
    <2>2. /\ w \in Stored /\ w.at <= now
          /\ w.status # "disconnected" => seen # None
          /\ w.status = "disconnected" => seen = None
          /\ OpensOn(rows, w) \/ ContinuesOn(rows, w)
      BY <1>5, <2>1, TransitionIs DEF WitnessInv
    <2>3. visible /\ ~StaleRestartActivity(p, seen) /\ (seen = None => Absence(p, seen) >= AbsenceStreak)
      BY <2>1, Zenon DEF Acts
    <2>4. QED
      BY <2>2, <2>3
  <1>6. w \in Stored \cup {NoRow}
    BY <1>5
  <1> HIDE DEF m, w
  <1>7. QED
    BY <1>1, <1>2, <1>3, <1>4, <1>5, <1>6

\* A read of the member as he is shown, or one that a rewrite spoils: a visit is
\* ended by it only if the streak of reads that showed the activity is broken,
\* and none is opened on an activity from before a restart the process recorded.
Observed(p) ==
  \E m \in Memory, w \in Stored \cup {NoRow}, torn \in 0..MaxTorn, reads \in 0..AbsenceStreak :
    /\ memory' = [memory EXCEPT ![p] = m] /\ writing' = [writing EXCEPT ![p] = w]
    /\ spoilt' = [spoilt EXCEPT ![p] = torn] /\ lit' = [lit EXCEPT ![p] = reads]
    /\ m.boundary <= now /\ m.checked <= now
    /\ m.absence <= torn \/ reads <= torn
    /\ w # NoRow => w.at <= now /\ (OpensOn(rows, w) \/ ContinuesOn(rows, w))
    /\ w # NoRow /\ w.status = "disconnected" => reads < AbsenceStreak
    /\ LeftBehind /\ w # NoRow /\ w.status # "disconnected" => m.boundary < PreviousRestart(now + 1)

LEMMA Streak ==
  ASSUME WitnessInv, NEW p \in Processes
  PROVE  Min({AbsenceStreak, lit[p] + 1}) \in 0..AbsenceStreak
         /\ Min({AbsenceStreak, lit[p] + 1}) <= lit[p] + 1
  <1> DEFINE a == lit[p]
  <1>1. a \in 0..AbsenceStreak /\ AbsenceStreak \in Int /\ a + 1 \in Int
    BY ProcessIs, WitnessAssumption
  <1> HIDE DEF a
  <1>2. /\ AbsenceStreak <= a + 1 => Min({AbsenceStreak, a + 1}) = AbsenceStreak
        /\ a + 1 <= AbsenceStreak => Min({AbsenceStreak, a + 1}) = a + 1
    BY <1>1, MinOfTwo
  <1>3. Min({AbsenceStreak, a + 1}) \in 0..AbsenceStreak /\ Min({AbsenceStreak, a + 1}) <= a + 1
    BY <1>1, <1>2
  <1>4. QED
    BY <1>3 DEF a

LEMMA PollObserves ==
  ASSUME WitnessInv, NEW p \in Processes, NEW others \in Others, Poll(p, others)
  PROVE  Observed(p)
  <1>1. UNCHANGED <<now, member>> /\ Read(p, Truth, others)
    BY DEF Poll
  <1>2. Truth \in {None, activity}
    BY Zenon DEF Truth, Shown
  <1>3. PICK m \in Memory, w \in Stored \cup {NoRow} :
           /\ memory' = [memory EXCEPT ![p] = m] /\ writing' = [writing EXCEPT ![p] = w]
           /\ m.absence = Absence(p, Truth) /\ m.boundary = memory[p].boundary
           /\ m.boundary <= now /\ m.checked <= now
           /\ w # NoRow =>
                /\ w.at <= now
                /\ visible /\ ~StaleRestartActivity(p, Truth)
                /\ w.status # "disconnected" => Truth # None
                /\ w.status = "disconnected" => Truth = None /\ Absence(p, Truth) >= AbsenceStreak
                /\ OpensOn(rows, w) \/ ContinuesOn(rows, w)
    BY <1>1, <1>2, Reading
  <1> DEFINE more == Min({AbsenceStreak, lit[p] + 1})
             reads == IF Shown = None \/ StaleRestartActivity(p, Truth) THEN 0 ELSE more
  <1>4. spoilt' = [spoilt EXCEPT ![p] = 0] /\ lit' = [lit EXCEPT ![p] = reads]
    BY Zenon DEF Poll
  <1>5. more \in 0..AbsenceStreak /\ 0 \in 0..MaxTorn /\ 0 \in 0..AbsenceStreak /\ AbsenceStreak > 0
    BY Streak, WitnessAssumption
  <1> HIDE DEF more
  <1>6. reads \in 0..AbsenceStreak
    BY <1>5
  <1>7. m.absence <= 0 \/ reads <= 0
    <2>1. Shown # None /\ ~StaleRestartActivity(p, Truth) => Absence(p, Truth) = 0
      <3>1. Shown # None => ~visible \/ Truth # None
        BY DEF Truth
      <3>2. QED
        BY <3>1, AbsenceIs
    <2>2. QED
      BY <1>3, <2>1
  <1>8. w # NoRow /\ w.status = "disconnected" => reads < AbsenceStreak
    <2>1. visible /\ Truth = None => Shown = None
      BY DEF Truth
    <2>2. QED
      BY <1>3, <1>5, <2>1
  <1>9. LeftBehind /\ w # NoRow /\ w.status # "disconnected" => m.boundary < PreviousRestart(now + 1)
    <2>1. SUFFICES ASSUME LeftBehind, w # NoRow, w.status # "disconnected"
                   PROVE  m.boundary < PreviousRestart(now + 1)
      OBVIOUS
    <2>2. Truth = activity /\ Truth # None /\ activity.since # 0
      BY <1>2, <1>3, <2>1 DEF LeftBehind
    <2>3. ~(memory[p].boundary # 0 /\ activity.since <= memory[p].boundary)
      BY <1>3, <2>1, <2>2 DEF StaleRestartActivity
    <2>4. activity.since < PreviousRestart(now + 1) /\ activity.since \in Nat /\ now + 1 \in Nat
      BY <2>1 DEF WitnessInv, WitnessTypes, MemberTypes, Thrown
    <2>5. PreviousRestart(now + 1) \in Nat
      BY <2>4, PreviousIs
    <2>6. memory[p].boundary \in Nat
      BY ProcessIs, FieldsOf, WitnessAssumption
    <2>7. QED
      BY <1>3, <2>3, <2>4, <2>5, <2>6
  <1> HIDE DEF reads
  <1>10. w # NoRow => w.at <= now /\ (OpensOn(rows, w) \/ ContinuesOn(rows, w))
    BY <1>3
  <1>11. QED
    BY <1>3, <1>4, <1>5, <1>6, <1>7, <1>8, <1>9, <1>10, Zenon DEF Observed

LEMMA SpoiltObserves ==
  ASSUME WitnessInv, NEW p \in Processes, NEW others \in Others, PollSpoilt(p, others)
  PROVE  Observed(p)
  <1>1. UNCHANGED <<now, member>> /\ Read(p, None, others)
    BY DEF PollSpoilt
  <1>2. None \in {None, activity}
    OBVIOUS
  <1>3. PICK m \in Memory, w \in Stored \cup {NoRow} :
           /\ memory' = [memory EXCEPT ![p] = m] /\ writing' = [writing EXCEPT ![p] = w]
           /\ m.absence = Absence(p, None) /\ m.boundary = memory[p].boundary
           /\ m.boundary <= now /\ m.checked <= now
           /\ w # NoRow =>
                /\ w.at <= now
                /\ visible /\ ~StaleRestartActivity(p, None)
                /\ w.status # "disconnected" => None # None
                /\ w.status = "disconnected" => None = None /\ Absence(p, None) >= AbsenceStreak
                /\ OpensOn(rows, w) \/ ContinuesOn(rows, w)
    BY <1>1, <1>2, Reading
  <1> DEFINE torn == spoilt[p] + 1
             reads == Min({AbsenceStreak, lit[p] + 1})
  <1>4. spoilt' = [spoilt EXCEPT ![p] = torn] /\ lit' = [lit EXCEPT ![p] = reads]
    BY Zenon DEF PollSpoilt
  <1>5. /\ spoilt[p] \in Nat /\ spoilt[p] < MaxTorn /\ MaxTorn \in Nat /\ MaxTorn < AbsenceStreak
        /\ AbsenceStreak \in Nat /\ lit[p] \in Nat /\ memory[p].absence \in Nat
        /\ memory[p].absence <= spoilt[p] \/ lit[p] <= spoilt[p]
    BY ProcessIs, FieldsOf, WitnessAssumption DEF PollSpoilt
  <1>6. reads \in 0..AbsenceStreak /\ reads <= lit[p] + 1
    BY Streak
  <1>7. m.absence \in Nat /\ m.absence <= memory[p].absence + 1
    BY <1>3, <1>5, AbsenceIs
  <1> HIDE DEF reads
  <1>8. torn \in 0..MaxTorn /\ (m.absence <= torn \/ reads <= torn)
    BY <1>5, <1>6, <1>7
  <1>9. w # NoRow /\ w.status = "disconnected" => reads < AbsenceStreak
    <2>1. w # NoRow /\ w.status = "disconnected" => m.absence >= AbsenceStreak
      BY <1>3
    <2>2. QED
      BY <1>5, <1>6, <1>7, <1>8, <2>1
  <1>10. ~(w # NoRow /\ w.status # "disconnected")
    BY <1>3
  <1> HIDE DEF torn
  <1>11. w # NoRow => w.at <= now /\ (OpensOn(rows, w) \/ ContinuesOn(rows, w))
    BY <1>3
  <1>12. QED
    BY <1>3, <1>4, <1>6, <1>8, <1>9, <1>10, <1>11, Zenon DEF Observed

LEMMA Polls ==
  ASSUME WitnessInv, NEW p \in Processes, NEW others \in Others, Poll(p, others) \/ PollSpoilt(p, others)
  PROVE  WitnessInv'
  <1>1. Observed(p)
    BY PollObserves, SpoiltObserves
  <1>2. UNCHANGED <<now, member, rows>>
    BY DEF Poll, PollSpoilt
  <1>3. rows' \in Seq(Stored) /\ \A n \in DOMAIN rows' : rows'[n].at <= now
    BY <1>2, ProcessIs
  <1>4. PICK m \in Memory, w \in Stored \cup {NoRow}, torn \in 0..MaxTorn, reads \in 0..AbsenceStreak :
           /\ memory' = [memory EXCEPT ![p] = m] /\ writing' = [writing EXCEPT ![p] = w]
           /\ spoilt' = [spoilt EXCEPT ![p] = torn] /\ lit' = [lit EXCEPT ![p] = reads]
           /\ m.boundary <= now /\ m.checked <= now
           /\ m.absence <= torn \/ reads <= torn
           /\ w # NoRow => w.at <= now
           /\ LeftBehind /\ w # NoRow /\ w.status # "disconnected" => m.boundary < PreviousRestart(now + 1)
    BY <1>1, ZenonT(40) DEF Observed
  <1>5. QED
    BY <1>2, <1>3, <1>4, ProcessSteps

LEMMA Misses ==
  ASSUME WitnessInv, NEW p \in Processes, NEW others \in Others, PollMissing(p, others)
  PROVE  WitnessInv'
  <1>1. /\ memory' = [memory EXCEPT ![p].observed = others]
        /\ UNCHANGED <<now, member, rows, writing, spoilt, lit>>
    BY DEF PollMissing
  <1> DEFINE m == [memory[p] EXCEPT !.observed = others]
             w == writing[p]
             torn == spoilt[p]
             reads == lit[p]
  <1>2. /\ memory[p] \in Memory /\ memory[p].boundary <= now /\ memory[p].checked <= now
        /\ w \in Stored \cup {NoRow} /\ (w # NoRow => w.at <= now)
        /\ torn \in 0..MaxTorn /\ reads \in 0..AbsenceStreak
        /\ memory[p].absence <= torn \/ reads <= torn
        /\ LeftBehind /\ w # NoRow /\ w.status # "disconnected" => memory[p].boundary < PreviousRestart(now + 1)
        /\ rows' \in Seq(Stored) /\ \A n \in DOMAIN rows' : rows'[n].at <= now
        /\ writing' = [writing EXCEPT ![p] = w]
        /\ spoilt' = [spoilt EXCEPT ![p] = torn] /\ lit' = [lit EXCEPT ![p] = reads]
    BY <1>1, ProcessIs DEF OpensVisit
  <1>3. /\ m \in Memory /\ m.boundary = memory[p].boundary /\ m.checked = memory[p].checked
        /\ m.absence = memory[p].absence
    <2>1. others \in Nat
      BY WitnessAssumption
    <2>2. QED
      BY <1>2, <2>1 DEF Memory
  <1>4. memory' = [memory EXCEPT ![p] = m]
    BY <1>1
  <1> HIDE DEF m, w, torn, reads
  <1>5. /\ m.boundary <= now /\ m.checked <= now /\ (m.absence <= torn \/ reads <= torn)
        /\ LeftBehind /\ w # NoRow /\ w.status # "disconnected" => m.boundary < PreviousRestart(now + 1)
        /\ UNCHANGED <<now, member>>
    BY <1>1, <1>2, <1>3
  <1>6. QED
    BY <1>2, <1>3, <1>4, <1>5, ProcessSteps

LEMMA Stores ==
  ASSUME WitnessInv, NEW p \in Processes, Insert(p) \/ InsertFails(p)
  PROVE  WitnessInv'
  <1>1. /\ writing' = [writing EXCEPT ![p] = NoRow]
        /\ UNCHANGED <<now, member, memory, spoilt, lit>>
        /\ writing[p] # NoRow
        /\ rows' = rows \/ rows' = Append(rows, writing[p])
    BY DEF Insert, InsertFails
  <1> DEFINE m == memory[p]
             row == writing[p]
             torn == spoilt[p]
             reads == lit[p]
  <1>2. /\ m \in Memory /\ m.boundary <= now /\ m.checked <= now
        /\ row \in Stored /\ row.at <= now
        /\ torn \in 0..MaxTorn /\ reads \in 0..AbsenceStreak
        /\ m.absence <= torn \/ reads <= torn
        /\ rows \in Seq(Stored) /\ \A n \in DOMAIN rows : rows[n].at <= now
        /\ memory' = [memory EXCEPT ![p] = m]
        /\ spoilt' = [spoilt EXCEPT ![p] = torn] /\ lit' = [lit EXCEPT ![p] = reads]
    BY <1>1, ProcessIs
  <1> HIDE DEF m, torn, reads
  <1>3. rows' \in Seq(Stored) /\ \A n \in DOMAIN rows' : rows'[n].at <= now
    <2>1. CASE rows' = rows
      BY <1>2, <2>1
    <2>2. CASE rows' = Append(rows, row)
      <3> HIDE DEF row
      <3>1. /\ rows' \in Seq(Stored) /\ DOMAIN rows' = 1..Len(rows) + 1 /\ DOMAIN rows = 1..Len(rows)
            /\ rows'[Len(rows) + 1] = row /\ \A n \in 1..Len(rows) : rows'[n] = rows[n]
            /\ Len(rows) \in Nat
        BY <1>2, <2>2, AppendProperties
      <3>2. QED
        BY <1>2, <3>1
    <2>3. QED
      BY <1>1, <2>1, <2>2
  <1> HIDE DEF row
  <1>4. QED
    BY <1>1, <1>2, <1>3, ProcessSteps

-----------------------------------------------------------------------------
LEMMA WitnessStarts ==
  ASSUME Init
  PROVE  WitnessInv
  <1>1. 1 \in 1..MaxTime /\ 0 \in 0..MaxTime /\ 0 \in 0..MaxTorn /\ 0 \in 0..AbsenceStreak
    BY WitnessAssumption
  <1>2. now = 1 /\ activity = None
    BY DEF Init
  <1>3. Started \in Memory /\ Started.boundary <= now /\ Started.checked <= now
    BY <1>1, <1>2, WitnessAssumption DEF Started, Memory, Flags
  <1>4. MemberTypes
    BY <1>1 DEF Init, MemberTypes, None
  <1>5. ProcessTypes
    BY <1>1, <1>3 DEF Init, ProcessTypes
  <1>6. RowsAre
    BY DEF Init, RowsAre
  <1>7. Streaks
    BY DEF Init, Streaks
  <1>8. ~LeftBehind
    BY DEF Init, LeftBehind, None
  <1>9. QED
    BY <1>4, <1>5, <1>6, <1>7, <1>8 DEF WitnessInv, WitnessTypes, Thrown, Lapses

LEMMA WitnessStands ==
  ASSUME WitnessInv, UNCHANGED vars
  PROVE  WitnessInv'
  <1>1. UNCHANGED <<now, game, activity, sharing, visible, character, rows, memory, writing, spoilt, lit>>
    BY DEF vars, member
  <1>2. UNCHANGED <<now, member>>
    BY DEF vars
  <1>3. MemberTypes' /\ Thrown' /\ (LeftBehind' <=> LeftBehind)
    BY <1>2, Unmoved
  <1>4. ProcessTypes' /\ RowsAre' /\ Streaks'
    BY <1>1 DEF WitnessInv, WitnessTypes, ProcessTypes, RowsAre, Streaks
  <1>5. Lapses'
    <2>1. \A p \in Processes : OpensVisit(p)' <=> OpensVisit(p)
      BY <1>1 DEF OpensVisit
    <2>2. QED
      BY <1>1, <1>3, <2>1, Zenon DEF WitnessInv, Lapses
  <1>6. QED
    BY <1>3, <1>4, <1>5 DEF WitnessInv, WitnessTypes

LEMMA WitnessSteps ==
  ASSUME WitnessInv, [Next]_vars
  PROVE  WitnessInv'
  <1>1. CASE Tick
    BY <1>1, Ticks
  <1>2. CASE Launch \/ Arrive \/ Leave \/ ShowOrHide \/ SwitchCharacter
    BY <1>2, MemberActs
  <1>3. ASSUME NEW p \in Processes, Reboot(p) PROVE WitnessInv'
    BY <1>3, Reboots
  <1>4. ASSUME NEW p \in Processes, CheckServerRestart(p) PROVE WitnessInv'
    BY <1>4, ServerRestarts
  <1>5. ASSUME NEW p \in Processes, NEW others \in Others, Poll(p, others) \/ PollSpoilt(p, others)
        PROVE  WitnessInv'
    BY <1>5, Polls
  <1>6. ASSUME NEW p \in Processes, NEW others \in Others, PollMissing(p, others) PROVE WitnessInv'
    BY <1>6, Misses
  <1>7. ASSUME NEW p \in Processes, Insert(p) \/ InsertFails(p) PROVE WitnessInv'
    BY <1>7, Stores
  <1>8. CASE UNCHANGED vars
    BY <1>8, WitnessStands
  <1>9. QED
    BY <1>1, <1>2, <1>3, <1>4, <1>5, <1>6, <1>7, <1>8, Zenon DEF Next

(***************************************************************************)
(* The inductive invariant: what processes remember of their reads and of  *)
(* restarts is never behind what they act on (recordDiscordPresence).      *)
(***************************************************************************)
THEOREM WitnessInvariant == Spec => []WitnessInv
  <1>1. Init => WitnessInv
    BY WitnessStarts
  <1>2. WitnessInv /\ [Next]_vars => WitnessInv'
    BY WitnessSteps
  <1>3. QED
    BY <1>1, <1>2, PTL DEF Spec

(***************************************************************************)
(* Every state is well typed: rows are dated to no later than now, a       *)
(* process remembers a restart of the schedule, and no more reads in a row *)
(* are spoilt than a rewrite can spoil (recordDiscordPresence).            *)
(***************************************************************************)
THEOREM WitnessTypeCorrect == Spec => []TypeOK
  <1>1. WitnessInv => TypeOK
    <2> SUFFICES ASSUME WitnessInv PROVE TypeOK
      OBVIOUS
    <2>1. /\ game \in {"away", "joining", "playing"}
          /\ activity \in [phase : {"none", "connecting", "connected"}, since : 0..MaxTime]
      BY DEF WitnessInv, WitnessTypes, MemberTypes
    <2>2. now \in 1..MaxTime /\ MaxTime \in Nat
      BY WitnessAssumption DEF WitnessInv, WitnessTypes, MemberTypes
    <2>3. ASSUME NEW n \in DOMAIN rows
          PROVE  rows[n].status \in {"connecting", "connected", "disconnected"} /\ rows[n].at \in 1..now
      <3>1. rows[n] \in Stored /\ rows[n].at <= now
        BY DEF WitnessInv, WitnessTypes, RowsAre
      <3>2. rows[n].at \in 1..MaxTime /\ rows[n].status \in Statuses
        BY <3>1 DEF Stored
      <3>3. QED
        BY <2>2, <3>1, <3>2 DEF Statuses
    <2>4. ASSUME NEW p \in Processes
          PROVE  /\ memory[p].absence \in 0..AbsenceStreak
                 /\ memory[p].boundary \in {0} \cup Restarts
                 /\ spoilt[p] \in 0..MaxTorn
      BY ProcessIs, FieldsOf
    <2>5. QED
      BY <2>1, <2>3, <2>4 DEF TypeOK
  <1>2. QED
    BY <1>1, WitnessInvariant, PTL

(***************************************************************************)
(* However long the streak, as long as a rewrite spoils fewer reads in a   *)
(* row: no poll writes the exit of somebody who was shown to play at each  *)
(* of the last AbsenceStreak reads (observeDiscordActivity).               *)
(***************************************************************************)
THEOREM NoFalseExitCorrect == Spec => NoFalseExit
  <1> DEFINE Honest == \A p \in Processes :
                         writing'[p].status = "disconnected" /\ writing[p] = NoRow => lit'[p] < AbsenceStreak
  <1>1. WitnessInv /\ [Next]_vars => [Honest]_vars
    <2> SUFFICES ASSUME WitnessInv, Next, NEW q \in Processes,
                        writing'[q].status = "disconnected", writing[q] = NoRow
                 PROVE  lit'[q] < AbsenceStreak
      BY Zenon
    <2>0. writing \in [Processes -> Stored \cup {NoRow}] /\ lit \in [Processes -> 0..AbsenceStreak]
      BY DEF WitnessInv, WitnessTypes, ProcessTypes, RowsAre
    <2>1. writing[q].status # "disconnected" /\ NoRow.status # "disconnected"
      BY DEF NoRow
    <2>2. ASSUME writing' = writing \/ \E p \in Processes : writing' = [writing EXCEPT ![p] = NoRow]
          PROVE  FALSE
      <3>1. writing'[q] = writing[q] \/ writing'[q] = NoRow
        BY <2>0, <2>2
      <3>2. QED
        BY <2>1, <3>1
    <2>3. ASSUME NEW p \in Processes, Observed(p) PROVE lit'[q] < AbsenceStreak
      <3>1. PICK w \in Stored \cup {NoRow}, reads \in 0..AbsenceStreak :
               /\ writing' = [writing EXCEPT ![p] = w]
               /\ lit' = [lit EXCEPT ![p] = reads]
               /\ w # NoRow /\ w.status = "disconnected" => reads < AbsenceStreak
        BY <2>3, Zenon DEF Observed
      <3>2. p = q
        BY <2>1, <3>1
      <3>3. writing'[q] = w /\ lit'[q] = reads
        BY <2>0, <3>1, <3>2
      <3>4. QED
        BY <2>1, <3>1, <3>3
    <2>4. \/ writing' = writing
          \/ \E p \in Processes : writing' = [writing EXCEPT ![p] = NoRow]
          \/ \E p \in Processes, others \in Others : Poll(p, others) \/ PollSpoilt(p, others)
      BY Zenon DEF Next, Tick, Launch, Arrive, Leave, ShowOrHide, SwitchCharacter, Changes, Reboot,
        CheckServerRestart, PollMissing, Insert, InsertFails
    <2>5. QED
      BY <2>2, <2>3, <2>4, PollObserves, SpoiltObserves
  <1>2. QED
    BY <1>1, WitnessInvariant, PTL DEF Spec, NoFalseExit

-----------------------------------------------------------------------------
\* An activity left behind that does not tell its start is not believed either
\* before the process has read the member online without it: what is remembered
\* of that (restartCleared) is never ahead of what was read.
Lingers == game = "away" /\ activity # None
Threw == Lingers => 0 < PreviousRestart(now + 1)
Apart == /\ parted \in [Processes -> Flags]
         /\ \A p \in Processes : memory[p].cleared = TRUE => parted[p] = TRUE
Waits(p) == memory[p].boundary < PreviousRestart(now + 1) \/ parted[p] = TRUE
Undated == Lingers /\ activity.since = 0 => \A p \in Processes : OpensVisit(p) => Waits(p)

ApartInv == Threw /\ Apart /\ Undated

LEMMA ApartStarts ==
  ASSUME Init
  PROVE  ApartInv
  <1>1. ~Lingers
    BY DEF Init, Lingers
  <1>2. PICK no \in Flags : no = FALSE
    BY Zenon DEF Flags
  <1>3. parted = [p \in Processes |-> no]
    BY <1>2, Zenon DEF Init
  <1>4. parted \in [Processes -> Flags]
    BY <1>2, <1>3
  <1>5. \A p \in Processes : memory[p] = Started
    BY DEF Init
  <1>6. Started.cleared = FALSE
    BY DEF Started
  <1>7. \A p \in Processes : memory[p].cleared # TRUE
    BY <1>5, <1>6
  <1>8. QED
    BY <1>1, <1>4, <1>7, Zenon DEF ApartInv, Threw, Apart, Undated

\* The clock: a restart that comes is one nobody has recorded.
LEMMA ApartTicks ==
  ASSUME WitnessInv, ApartInv, Tick
  PROVE  ApartInv'
  <1>1. /\ now' = now + 1 /\ UNCHANGED <<activity, memory, writing, parted>>
        /\ game' = IF now + 1 \in Restarts THEN "away" ELSE game
    BY DEF Tick
  <1>2. now \in 1..MaxTime /\ MaxTime \in Nat
    BY WitnessAssumption DEF WitnessInv, WitnessTypes, MemberTypes
  <1> DEFINE then == PreviousRestart(now + 1)
             next == PreviousRestart((now + 1) + 1)
  <1>3. /\ now + 1 \notin Restarts => next = then
        /\ now + 1 \in Restarts => next = now + 1
    BY <1>2, PreviousPasses
  <1>4. \A p \in Processes : memory[p].boundary \in Nat /\ memory[p].boundary <= now
    BY ProcessIs, FieldsOf, WitnessAssumption
  <1>5. Lingers' => (now + 1 \notin Restarts => Lingers)
    BY <1>1 DEF Lingers, None
  <1>6. Threw /\ Undated
    BY DEF ApartInv
  <1>7. \A p \in Processes : OpensVisit(p)' <=> OpensVisit(p)
    BY <1>1 DEF OpensVisit, NoRow
  <1>8. Apart'
    BY <1>1, Zenon DEF ApartInv, Apart
  <1>9. CASE now + 1 \notin Restarts
    <2>1. PreviousRestart(now' + 1) = PreviousRestart(now + 1)
      BY <1>1, <1>3, <1>9
    <2>2. Lingers' => Lingers
      BY <1>5, <1>9
    <2>3. Threw'
      BY <1>6, <2>1, <2>2 DEF Threw
    <2>4. \A p \in Processes : Waits(p) => Waits(p)'
      BY <1>1, <2>1, Zenon DEF Waits
    <2>5. Undated'
      BY <1>1, <1>6, <1>7, <2>2, <2>4, Zenon DEF Undated
    <2>6. QED
      BY <1>8, <2>3, <2>5 DEF ApartInv
  <1>10. CASE now + 1 \in Restarts
    <2>1. PreviousRestart(now' + 1) = now + 1
      BY <1>1, <1>3, <1>10
    <2>2. 0 < now + 1 /\ \A p \in Processes : memory[p].boundary < now + 1
      BY <1>2, <1>4
    <2>3. Threw'
      BY <2>1, <2>2 DEF Threw
    <2>4. \A p \in Processes : Waits(p)'
      <3> TAKE p \in Processes
      <3>1. memory'[p].boundary < PreviousRestart(now' + 1)
        BY <1>1, <2>1, <2>2
      <3>2. QED
        BY <3>1 DEF Waits
    <2>5. Undated'
      BY <2>4, Zenon DEF Undated
    <2>6. QED
      BY <1>8, <2>3, <2>5 DEF ApartInv
  <1>11. QED
    BY <1>9, <1>10

LEMMA ApartMember ==
  ASSUME WitnessInv, ApartInv, Launch \/ Arrive \/ Leave \/ ShowOrHide \/ SwitchCharacter
  PROVE  ApartInv'
  <1>1. UNCHANGED <<now, memory, writing, parted>>
    BY DEF Changes, Launch, Arrive, Leave, ShowOrHide, SwitchCharacter
  <1>2. Lingers' => Lingers /\ activity' = activity
    <2>1. CASE Launch \/ Arrive
      BY <2>1 DEF Launch, Arrive, Lingers
    <2>2. CASE Leave
      BY <2>2 DEF Leave, Lingers, None
    <2>3. CASE ShowOrHide \/ SwitchCharacter
      BY <2>3 DEF ShowOrHide, SwitchCharacter, Lingers, None
    <2>4. QED
      BY <2>1, <2>2, <2>3
  <1>3. Threw'
    BY <1>1, <1>2, Zenon DEF ApartInv, Threw
  <1>4. Apart'
    BY <1>1, Zenon DEF ApartInv, Apart
  <1>5. \A p \in Processes : (OpensVisit(p)' <=> OpensVisit(p)) /\ (Waits(p)' <=> Waits(p))
    BY <1>1, Zenon DEF OpensVisit, Waits, NoRow
  <1>6. Undated'
    BY <1>2, <1>5, Zenon DEF ApartInv, Undated
  <1>7. QED
    BY <1>3, <1>4, <1>6 DEF ApartInv

\* A step of process p, which leaves the others and the member alone.
LEMMA ApartProcess ==
  ASSUME WitnessInv, ApartInv, UNCHANGED <<now, member>>, NEW p \in Processes,
         NEW m, memory' = [memory EXCEPT ![p] = m],
         NEW w, writing' = [writing EXCEPT ![p] = w],
         NEW flag \in Flags, parted' = [parted EXCEPT ![p] = flag],
         m.cleared = TRUE => flag = TRUE,
         Lingers /\ activity.since = 0 /\ w # NoRow /\ w.status # "disconnected"
           => m.boundary < PreviousRestart(now + 1) \/ flag = TRUE
  PROVE  ApartInv'
  <1>1. now' = now /\ game' = game /\ activity' = activity
    BY DEF member
  <1>2. (Lingers' <=> Lingers) /\ Threw'
    BY <1>1, Zenon DEF ApartInv, Threw, Lingers, None
  <1>3. memory \in [Processes -> Memory] /\ writing \in [Processes -> Stored \cup {NoRow}]
    BY DEF WitnessInv, WitnessTypes, ProcessTypes, RowsAre
  <1>4. parted \in [Processes -> Flags] /\ \A q \in Processes : memory[q].cleared = TRUE => parted[q] = TRUE
    BY DEF ApartInv, Apart
  <1>5. \A q \in Processes :
          /\ memory'[q] = (IF q = p THEN m ELSE memory[q])
          /\ writing'[q] = (IF q = p THEN w ELSE writing[q])
    BY <1>3
  <1>6. \A q \in Processes : q # p => parted'[q] = parted[q]
    BY <1>4
  <1>7. parted'[p] = flag /\ parted' \in [Processes -> Flags]
    BY <1>4
  <1>8. Apart'
    BY <1>4, <1>5, <1>6, <1>7, Zenon DEF Apart
  <1>9. Undated'
    <2> SUFFICES ASSUME Lingers, activity.since = 0, NEW q \in Processes, OpensVisit(q)'
                 PROVE  Waits(q)'
      BY <1>1, <1>2, Zenon DEF Undated
    <2>1. CASE q = p
      <3>1. w # NoRow /\ w.status # "disconnected"
        BY <1>5, <2>1, Zenon DEF OpensVisit, NoRow
      <3>2. memory'[q] = m /\ parted'[q] = flag
        BY <1>5, <1>7, <2>1
      <3>3. QED
        BY <1>1, <3>1, <3>2, Zenon DEF Waits
    <2>2. CASE q # p
      <3>1. writing'[q] = writing[q] /\ memory'[q] = memory[q] /\ parted'[q] = parted[q]
        BY <1>5, <1>6, <2>2
      <3>2. OpensVisit(q)
        BY <3>1, Zenon DEF OpensVisit, NoRow
      <3>3. Waits(q)
        BY <3>2, Zenon DEF ApartInv, Undated
      <3>4. QED
        BY <1>1, <3>1, <3>3, Zenon DEF Waits
    <2>3. QED
      BY <2>1, <2>2
  <1>10. QED
    BY <1>2, <1>8, <1>9 DEF ApartInv

\* A read: a visit is opened on an activity without a start only if no restart
\* was recorded, or after a read that showed him online without it.
LEMMA ApartReads ==
  ASSUME WitnessInv, ApartInv, UNCHANGED <<now, member>>,
         NEW p \in Processes, NEW others \in Others, NEW seen \in {None, activity},
         Read(p, seen, others)
  PROVE  ApartInv'
  <1>1. PICK m \in Memory, w \in Stored \cup {NoRow} :
           /\ memory' = [memory EXCEPT ![p] = m] /\ writing' = [writing EXCEPT ![p] = w]
           /\ m.boundary = memory[p].boundary
           /\ w # NoRow => /\ ~StaleRestartActivity(p, seen)
                           /\ w.status # "disconnected" => seen # None
    BY Reading
  <1> DEFINE apart == memory[p].boundary # 0 /\ seen = None /\ visible
             mark == AfterRead(memory[p], Absence(p, seen), others + 1, memory[p].cleared \/ apart)
  <1>2. /\ memory' = [memory EXCEPT ![p] = mark]
        /\ parted' = [parted EXCEPT ![p] = parted[p] \/ apart]
    BY Zenon DEF Read
  <1>3. PICK flag \in Flags : flag = (parted[p] \/ apart)
    BY Zenon DEF Flags
  <1>4. PICK known \in Flags : known = (memory[p].cleared \/ apart)
    BY Zenon DEF Flags
  <1>5. parted' = [parted EXCEPT ![p] = flag]
    BY <1>2, <1>3, Zenon
  <1>6. memory[p] \in Memory /\ memory \in [Processes -> Memory]
    BY ProcessIs DEF WitnessInv, WitnessTypes, ProcessTypes
  <1>7. mark = AfterRead(memory[p], Absence(p, seen), others + 1, known)
    BY <1>4, Zenon
  <1>8. mark.cleared = known
    <2> HIDE DEF mark
    <2>1. mark = Known(Absence(p, seen), others + 1, memory[p].checked, memory[p].boundary, known)
      BY <1>6, <1>7, RecordsRead
    <2>2. QED
      BY <2>1 DEF Known
  <1> HIDE DEF mark
  <1>9. m = mark
    <2>1. memory'[p] = m
      BY <1>1, <1>6
    <2>2. memory'[p] = mark
      BY <1>2, <1>6
    <2>3. QED
      BY <2>1, <2>2
  <1>10. parted[p] \in Flags /\ memory[p].cleared \in Flags
         /\ (memory[p].cleared = TRUE => parted[p] = TRUE)
    BY <1>6, FieldsOf DEF ApartInv, Apart
  <1>11. m.cleared = TRUE => flag = TRUE
    BY <1>3, <1>4, <1>8, <1>9, <1>10, Zenon DEF Flags
  <1>12. Lingers /\ activity.since = 0 /\ w # NoRow /\ w.status # "disconnected"
           => m.boundary < PreviousRestart(now + 1) \/ flag = TRUE
    <2> SUFFICES ASSUME Lingers, activity.since = 0, w # NoRow, w.status # "disconnected",
                        ~(m.boundary < PreviousRestart(now + 1))
                 PROVE  flag = TRUE
      OBVIOUS
    <2>1. seen = activity /\ seen # None /\ seen.since = 0 /\ ~StaleRestartActivity(p, seen)
      BY <1>1
    <2>2. 0 < PreviousRestart(now + 1)
      BY DEF ApartInv, Threw
    <2>3. memory[p].boundary # 0
      BY <1>1, <2>2
    <2>4. memory[p].cleared
      BY <2>1, <2>3, Zenon DEF StaleRestartActivity
    <2>5. memory[p].cleared = TRUE
      BY <1>10, <2>4, Zenon DEF Flags
    <2>6. QED
      BY <1>3, <1>10, <2>5, Zenon
  <1>13. QED
    BY <1>1, <1>5, <1>11, <1>12, ApartProcess

LEMMA ApartSteps ==
  ASSUME WitnessInv, ApartInv, [Next]_vars
  PROVE  ApartInv'
  <1>1. CASE Tick
    BY <1>1, ApartTicks
  <1>2. CASE Launch \/ Arrive \/ Leave \/ ShowOrHide \/ SwitchCharacter
    BY <1>2, ApartMember
  <1>3. PICK no \in Flags : no = FALSE
    BY Zenon DEF Flags
  <1>4. ASSUME NEW p \in Processes, Reboot(p) PROVE ApartInv'
    <2>1. /\ memory' = [memory EXCEPT ![p] = Started] /\ writing' = [writing EXCEPT ![p] = NoRow]
          /\ parted' = [parted EXCEPT ![p] = no] /\ UNCHANGED <<now, member>>
      BY <1>3, <1>4, Zenon DEF Reboot
    <2>2. Started.cleared = FALSE
      BY DEF Started
    <2>3. QED
      BY <2>1, <2>2, ApartProcess
  <1>5. ASSUME NEW p \in Processes, CheckServerRestart(p) PROVE ApartInv'
    <2>1. PICK at \in Restarts :
            /\ memory' = [memory EXCEPT ![p] = AfterRestart(memory[p], at)]
            /\ writing[p] = NoRow /\ UNCHANGED <<now, member, writing>>
      BY <1>5, RestartIs
    <2>2. parted' = [parted EXCEPT ![p] = no]
      BY <1>3, <1>5, Zenon DEF CheckServerRestart
    <2>3. writing' = [writing EXCEPT ![p] = NoRow]
      BY <2>1 DEF WitnessInv, WitnessTypes, RowsAre
    <2> DEFINE m == AfterRestart(memory[p], at)
    <2>4. m = Known(memory[p].absence, memory[p].observed, now, at, no)
      BY <1>3, ProcessIs, RecordsRestart
    <2> HIDE DEF m
    <2>5. m.cleared = FALSE
      BY <1>3, <2>4 DEF Known
    <2>6. memory' = [memory EXCEPT ![p] = m]
      BY <2>1 DEF m
    <2>7. QED
      BY <2>1, <2>2, <2>3, <2>5, <2>6, ApartProcess
  <1>6. ASSUME NEW p \in Processes, NEW others \in Others, Poll(p, others) PROVE ApartInv'
    <2>1. UNCHANGED <<now, member>> /\ Read(p, Truth, others)
      BY <1>6 DEF Poll
    <2>2. Truth \in {None, activity}
      BY Zenon DEF Truth, Shown
    <2>3. QED
      BY <2>1, <2>2, ApartReads
  <1>7. ASSUME NEW p \in Processes, NEW others \in Others, PollSpoilt(p, others) PROVE ApartInv'
    <2>1. UNCHANGED <<now, member>> /\ Read(p, None, others)
      BY <1>7 DEF PollSpoilt
    <2>2. QED
      BY <2>1, ApartReads
  <1>8. ASSUME NEW p \in Processes, NEW others \in Others, PollMissing(p, others) PROVE ApartInv'
    <2> DEFINE m == [memory[p] EXCEPT !.observed = others]
    <2>1. memory' = [memory EXCEPT ![p] = m] /\ UNCHANGED <<now, member, writing, parted>>
      BY <1>8 DEF PollMissing
    <2>2. m.cleared = memory[p].cleared /\ m.boundary = memory[p].boundary
      <3>1. memory[p] \in Memory
        BY ProcessIs
      <3>2. QED
        BY <3>1 DEF Memory
    <2> HIDE DEF m
    <2>3. PICK flag \in Flags : flag = parted[p]
      BY DEF ApartInv, Apart
    <2>4. writing' = [writing EXCEPT ![p] = writing[p]] /\ parted' = [parted EXCEPT ![p] = flag]
      BY <2>1, <2>3 DEF WitnessInv, WitnessTypes, RowsAre, ApartInv, Apart
    <2>5. m.cleared = TRUE => flag = TRUE
      BY <2>2, <2>3 DEF ApartInv, Apart
    <2>6. Lingers /\ activity.since = 0 /\ writing[p] # NoRow /\ writing[p].status # "disconnected"
            => m.boundary < PreviousRestart(now + 1) \/ flag = TRUE
      BY <2>2, <2>3, Zenon DEF ApartInv, Undated, OpensVisit, Waits
    <2>7. QED
      BY <2>1, <2>3, <2>4, <2>5, <2>6, ApartProcess
  <1>9. ASSUME NEW p \in Processes, Insert(p) \/ InsertFails(p) PROVE ApartInv'
    <2>1. /\ writing' = [writing EXCEPT ![p] = NoRow]
          /\ UNCHANGED <<now, member, memory, parted>>
      BY <1>9 DEF Insert, InsertFails
    <2>2. PICK flag \in Flags : flag = parted[p]
      BY DEF ApartInv, Apart
    <2>3. parted' = [parted EXCEPT ![p] = flag] /\ memory' = [memory EXCEPT ![p] = memory[p]]
      BY <2>1, <2>2 DEF ApartInv, Apart, WitnessInv, WitnessTypes, ProcessTypes
    <2>4. memory[p].cleared = TRUE => flag = TRUE
      BY <2>2 DEF ApartInv, Apart
    <2>5. QED
      BY <2>1, <2>2, <2>3, <2>4, ApartProcess
  <1>10. CASE UNCHANGED vars
    <2>1. UNCHANGED <<now, game, activity, memory, writing, parted>>
      BY <1>10 DEF vars, member
    <2>2. \A p \in Processes : (OpensVisit(p)' <=> OpensVisit(p)) /\ (Waits(p)' <=> Waits(p))
      BY <2>1, Zenon DEF OpensVisit, Waits, NoRow
    <2>3. (Lingers' <=> Lingers) /\ Threw' /\ Apart'
      BY <2>1, Zenon DEF ApartInv, Threw, Apart, Lingers, None
    <2>4. Undated'
      BY <2>1, <2>2, <2>3, Zenon DEF ApartInv, Undated
    <2>5. QED
      BY <2>3, <2>4 DEF ApartInv
  <1>11. QED
    BY <1>1, <1>2, <1>4, <1>5, <1>6, <1>7, <1>8, <1>9, <1>10, Zenon DEF Next

LEMMA ApartInvariant == Spec => []ApartInv
  <1>1. Init => ApartInv
    BY ApartStarts
  <1>2. WitnessInv /\ ApartInv /\ [Next]_vars => ApartInv'
    BY ApartSteps
  <1>3. QED
    BY <1>1, <1>2, WitnessInvariant, PTL DEF Spec

(***************************************************************************)
(* Whatever the restart schedule and the member do: the row that opens a   *)
(* visit on an activity left over from before a restart is inserted only   *)
(* by a process that has not recorded that restart, or, on an activity     *)
(* without a start, by one that read the member online without it after it *)
(* had recorded it (staleRestartActivity, restartCleared).                 *)
(***************************************************************************)
THEOREM StaleNeedsALapseCorrect == Spec => StaleNeedsALapse
  <1> DEFINE Lapsed == \A p \in Processes :
                         (/\ Inserts(p)
                          /\ writing[p].status # "disconnected"
                          /\ game = "away" /\ activity # None)
                         => \/ memory[p].boundary < PreviousRestart(now + 1)
                            \/ activity.since = 0 /\ parted[p]
  <1>1. WitnessInv /\ ApartInv => [Lapsed]_vars
    <2> SUFFICES ASSUME WitnessInv, ApartInv, NEW p \in Processes, OpensVisit(p), Lingers
                 PROVE  \/ memory[p].boundary < PreviousRestart(now + 1)
                        \/ activity.since = 0 /\ parted[p]
      BY Zenon DEF OpensVisit, Lingers, Inserts
    <2>1. CASE activity.since # 0
      BY <2>1, Zenon DEF WitnessInv, Lapses, LeftBehind, Lingers
    <2>2. CASE activity.since = 0
      BY <2>2, Zenon DEF ApartInv, Undated, Waits
    <2>3. QED
      BY <2>1, <2>2
  <1>2. QED
    BY <1>1, WitnessInvariant, ApartInvariant, PTL DEF Spec, StaleNeedsALapse

-----------------------------------------------------------------------------
\* A visit is open if it has rows and none of them ends it.
LEMMA OpenIs ==
  ASSUME NEW log, NEW s
  PROVE  s \in OpenSessions(log) <=>
           /\ \E n \in DOMAIN log : log[n].session = s
           /\ \A n \in DOMAIN log : log[n].session = s => log[n].status # "disconnected"
  BY DEF OpenSessions, Closed, RowsOf

\* One row more, which opens a visit or continues one that is open.
LEMMA OneRowMore ==
  ASSUME NEW log \in Seq(Stored), NEW row \in Stored, Whole(log), OpensOn(log, row) \/ ContinuesOn(log, row)
  PROVE  Whole(Append(log, row))
  <1> DEFINE t == Append(log, row)
  <1>1. /\ DOMAIN t = 1..Len(log) + 1 /\ DOMAIN log = 1..Len(log) /\ Len(log) \in Nat
        /\ t[Len(log) + 1] = row /\ \A n \in 1..Len(log) : t[n] = log[n]
    BY AppendProperties
  <1> HIDE DEF t
  <1> DEFINE k == Len(log) + 1
  <1>2. /\ \A n : n \in DOMAIN t <=> n \in DOMAIN log \/ n = k
        /\ k \notin DOMAIN log /\ t[k] = row /\ \A n \in DOMAIN log : t[n] = log[n] /\ n < k
    BY <1>1
  <1>3. /\ \A n \in DOMAIN log : log[n].session <= n
        /\ \A m, n \in DOMAIN log : log[m].session = log[n].session => log[m].character = log[n].character
        /\ \A s, u \in OpenSessions(log) : s = u
    BY DEF Whole
  <1>4. \A n \in DOMAIN log : log[n].session \in Nat /\ n \in Nat
    <2> TAKE n \in DOMAIN log
    <2>1. log[n] \in Stored
      OBVIOUS
    <2>2. QED
      BY <1>1, <2>1 DEF Stored
  <1>5. k \in Nat /\ row.session \in Nat
    BY <1>1 DEF Stored
  <1>6. CASE OpensOn(log, row)
    <2>1. row.session = k /\ OpenSessions(log) = {} /\ row.status # "disconnected"
      BY <1>6 DEF OpensOn
    <2>2. \A n \in DOMAIN log : log[n].session # k
      BY <1>2, <1>3, <1>4, <1>5
    <2>3. \A n \in DOMAIN t : t[n].session <= n
      BY <1>2, <1>3, <1>5, <2>1
    <2>4. \A m, n \in DOMAIN t : t[m].session = t[n].session => t[m].character = t[n].character
      BY <1>2, <1>3, <2>1, <2>2
    <2>5. \A s \in OpenSessions(t) : s = k
      <3> SUFFICES ASSUME NEW s \in OpenSessions(t), s # k PROVE FALSE
        OBVIOUS
      <3>1. /\ \E n \in DOMAIN t : t[n].session = s
            /\ \A n \in DOMAIN t : t[n].session = s => t[n].status # "disconnected"
        BY OpenIs
      <3>2. /\ \E n \in DOMAIN log : log[n].session = s
            /\ \A n \in DOMAIN log : log[n].session = s => log[n].status # "disconnected"
        BY <1>2, <2>1, <3>1
      <3>3. s \in OpenSessions(log)
        BY <3>2, OpenIs
      <3>4. QED
        BY <2>1, <3>3
    <2>6. QED
      BY <2>3, <2>4, <2>5 DEF Whole, t
  <1>7. CASE ContinuesOn(log, row)
    <2>1. PICK o \in DOMAIN log : log[o].session = row.session /\ log[o].character = row.character
      BY <1>7 DEF ContinuesOn
    <2>2. \A n \in DOMAIN t : t[n].session <= n
      <3>1. log[o].session <= o /\ o < k /\ log[o].session \in Nat /\ o \in Nat
        BY <1>2, <1>3, <1>4
      <3>2. row.session <= k
        BY <1>5, <2>1, <3>1
      <3>3. QED
        BY <1>2, <1>3, <3>2
    <2>3. \A m, n \in DOMAIN t : t[m].session = t[n].session => t[m].character = t[n].character
      BY <1>2, <1>3, <2>1
    <2>4. \A s \in OpenSessions(t) : s \in OpenSessions(log)
      <3> TAKE s \in OpenSessions(t)
      <3>1. /\ \E n \in DOMAIN t : t[n].session = s
            /\ \A n \in DOMAIN t : t[n].session = s => t[n].status # "disconnected"
        BY OpenIs
      <3>2. /\ \E n \in DOMAIN log : log[n].session = s
            /\ \A n \in DOMAIN log : log[n].session = s => log[n].status # "disconnected"
        BY <1>2, <2>1, <3>1
      <3>3. QED
        BY <3>2, OpenIs
    <2>5. QED
      BY <1>3, <2>2, <2>3, <2>4 DEF Whole, t
  <1>8. QED
    BY <1>6, <1>7

\* What a restart ends is one visit at most, and its exit continues it.
LEMMA OneExit ==
  ASSUME rows \in Seq(Stored), Whole(rows), NEW at \in 1..MaxTime
  PROVE  \/ SetToSeq(Exits(at)) = <<>>
         \/ \E x \in Stored : SetToSeq(Exits(at)) = <<x>> /\ ContinuesOn(rows, x)
  <1>1. /\ \A r \in Ended(at) : \E n \in DOMAIN rows :
             r = rows[n] /\ rows[n].session \in OpenSessions(rows)
        /\ \A x \in Exits(at) : x \in Stored
    BY EndedIs
  <1>2. CASE Exits(at) = {}
    BY <1>2, NoneInSequence
  <1>3. ASSUME NEW x \in Exits(at)
        PROVE  x \in Stored /\ SetToSeq(Exits(at)) = <<x>> /\ ContinuesOn(rows, x)
    <2>1. \A y \in Exits(at) : \E n \in DOMAIN rows :
            y = Exit(rows[n], at) /\ rows[n].session \in OpenSessions(rows)
      BY <1>1 DEF Exits
    <2>2. PICK n \in DOMAIN rows : x = Exit(rows[n], at) /\ rows[n].session \in OpenSessions(rows)
      BY <2>1
    <2>3. ASSUME NEW y \in Exits(at) PROVE y = x
      <3>1. PICK m \in DOMAIN rows : y = Exit(rows[m], at) /\ rows[m].session \in OpenSessions(rows)
        BY <2>1
      <3>2. rows[m].session = rows[n].session
        BY <2>2, <3>1 DEF Whole
      <3>3. rows[m].character = rows[n].character
        BY <3>2 DEF Whole
      <3>4. QED
        BY <2>2, <3>1, <3>2, <3>3 DEF Exit
    <2>4. Exits(at) = {x}
      BY <2>3
    <2>5. ContinuesOn(rows, x)
      <3>1. x.session = rows[n].session /\ x.character = rows[n].character
        BY <2>2 DEF Exit
      <3>2. QED
        BY <2>2, <3>1 DEF ContinuesOn
    <2>6. QED
      BY <1>1, <2>4, <2>5, OneInSequence
  <1>4. QED
    BY <1>2, <1>3

OneProcess == \A p, q \in Processes : p = q

LEMMA VisitsStart ==
  ASSUME Init
  PROVE  VisitsInv
  <1>1. rows = <<>> /\ \A p \in Processes : writing[p] = NoRow
    BY DEF Init
  <1>2. Whole(rows)
    BY <1>1 DEF Whole, OpenSessions
  <1>3. QED
    BY <1>1, <1>2 DEF VisitsInv, Lookups

LEMMA VisitsStep ==
  ASSUME WitnessInv, VisitsInv, OneProcess, [Next]_vars
  PROVE  VisitsInv'
  <1>0. rows \in Seq(Stored) /\ writing \in [Processes -> Stored \cup {NoRow}] /\ Whole(rows)
    BY DEF WitnessInv, WitnessTypes, RowsAre, VisitsInv
  <1>1. ASSUME rows' = rows, writing' = writing \/ \E p \in Processes : writing' = [writing EXCEPT ![p] = NoRow]
        PROVE  VisitsInv'
    <2>1. Whole(rows)'
      BY <1>0, <1>1 DEF Whole, OpenSessions, Closed, RowsOf
    <2>2. \A p \in Processes : writing'[p] = NoRow \/ writing'[p] = writing[p]
      BY <1>0, <1>1
    <2>3. Lookups'
      <3>1. ASSUME NEW p \in Processes, writing'[p] # NoRow
            PROVE  OpensOn(rows', writing'[p]) \/ ContinuesOn(rows', writing'[p])
        <4>1. writing'[p] = writing[p]
          BY <2>2, <3>1
        <4>2. OpensOn(rows, writing[p]) \/ ContinuesOn(rows, writing[p])
          BY <3>1, <4>1 DEF VisitsInv, Lookups
        <4>3. QED
          BY <1>1, <4>1, <4>2, Zenon
      <3>2. NoRow' = NoRow
        BY DEF NoRow
      <3>3. QED
        BY <3>1, <3>2, Zenon DEF Lookups
    <2>4. QED
      BY <2>1, <2>3 DEF VisitsInv
  <1>2. ASSUME NEW p \in Processes, Observed(p), rows' = rows
        PROVE  VisitsInv'
    <2>1. Whole(rows)'
      BY <1>0, <1>2 DEF Whole, OpenSessions, Closed, RowsOf
    <2>2. PICK w \in Stored \cup {NoRow} :
             /\ writing' = [writing EXCEPT ![p] = w]
             /\ w # NoRow => (OpensOn(rows, w) \/ ContinuesOn(rows, w))
      BY <1>2, Zenon DEF Observed
    <2>3. \A q \in Processes : writing'[q] = w
      BY <1>0, <2>2 DEF OneProcess
    <2>4. \A q \in Processes : writing'[q] # NoRow =>
            OpensOn(rows', writing'[q]) \/ ContinuesOn(rows', writing'[q])
      BY <1>2, <2>2, <2>3, Zenon
    <2>5. NoRow' = NoRow
      BY DEF NoRow
    <2>6. Lookups'
      BY <2>4, <2>5, Zenon DEF Lookups
    <2>7. QED
      BY <2>1, <2>6 DEF VisitsInv
  <1>3. ASSUME NEW p \in Processes, NEW row \in Stored, rows' = Append(rows, row),
               OpensOn(rows, row) \/ ContinuesOn(rows, row),
               \A q \in Processes : writing'[q] = NoRow
        PROVE  VisitsInv'
    <2>1. Whole(Append(rows, row))
      BY <1>0, <1>3, OneRowMore
    <2>2. Whole(rows')
      BY <1>3, <2>1, Zenon
    <2>3. Lookups'
      BY <1>3 DEF Lookups, NoRow
    <2>4. QED
      BY <2>2, <2>3, Zenon DEF VisitsInv
  <1>4. ASSUME NEW p \in Processes, CheckServerRestart(p) PROVE VisitsInv'
    <2>1. PICK at \in Restarts :
             /\ at \in 1..MaxTime
             /\ rows' = rows \o SetToSeq(Exits(at))
             /\ writing[p] = NoRow /\ writing' = writing
      BY <1>4, RestartIs
    <2>2. CASE SetToSeq(Exits(at)) = <<>>
      <3>1. rows' = rows
        BY <1>0, <2>1, <2>2
      <3>2. QED
        BY <1>1, <2>1, <3>1
    <2>3. CASE \E x \in Stored : SetToSeq(Exits(at)) = <<x>> /\ ContinuesOn(rows, x)
      <3>1. PICK x \in Stored : SetToSeq(Exits(at)) = <<x>> /\ ContinuesOn(rows, x)
        BY <2>3
      <3>2. rows' = Append(rows, x)
        BY <1>0, <2>1, <3>1, AppendIsConcat
      <3>3. \A q \in Processes : writing'[q] = NoRow
        BY <2>1 DEF OneProcess
      <3>4. QED
        BY <1>3, <3>1, <3>2, <3>3
    <2>4. QED
      BY <1>0, <2>1, <2>2, <2>3, OneExit
  <1>5. ASSUME NEW p \in Processes, Insert(p) PROVE VisitsInv'
    <2>1. /\ writing[p] # NoRow /\ writing' = [writing EXCEPT ![p] = NoRow]
          /\ rows' = rows \/ rows' = Append(rows, writing[p])
      BY <1>5 DEF Insert
    <2>2. \A q \in Processes : writing'[q] = NoRow
      BY <1>0, <2>1 DEF OneProcess
    <2>3. writing[p] \in Stored /\ (OpensOn(rows, writing[p]) \/ ContinuesOn(rows, writing[p]))
      BY <1>0, <2>1 DEF VisitsInv, Lookups
    <2> DEFINE row == writing[p]
    <2>4. row \in Stored /\ (OpensOn(rows, row) \/ ContinuesOn(rows, row))
      BY <2>3
    <2>5. rows' = rows \/ rows' = Append(rows, row)
      BY <2>1
    <2> HIDE DEF row
    <2>6. QED
      BY <1>1, <1>3, <2>1, <2>2, <2>4, <2>5
  <1>6. \/ rows' = rows /\ (writing' = writing \/ \E p \in Processes : writing' = [writing EXCEPT ![p] = NoRow])
        \/ \E p \in Processes : CheckServerRestart(p) \/ Insert(p)
        \/ \E p \in Processes, others \in Others :
             (Poll(p, others) \/ PollSpoilt(p, others)) /\ rows' = rows
    BY Zenon DEF Next, vars, Tick, Launch, Arrive, Leave, ShowOrHide, SwitchCharacter, Changes, Reboot,
      PollMissing, InsertFails, Poll, PollSpoilt
  <1>7. QED
    BY <1>1, <1>2, <1>4, <1>5, <1>6, PollObserves, SpoiltObserves

(***************************************************************************)
(* While one process of the bot runs, an account never has two visits      *)
(* open, and all rows of a visit are of the character it opened on:        *)
(* whatever the cache shows, whichever inserts fail and whenever the       *)
(* process starts again (openDiscordVisit, RecordDiscordPresence and       *)
(* CloseForRestart).                                                       *)
(***************************************************************************)
THEOREM OneOpenVisitCorrect ==
  ASSUME OneProcess
  PROVE  Spec => []OneOpenVisit
  <1>1. Init => VisitsInv
    BY VisitsStart
  <1>2. WitnessInv /\ VisitsInv /\ [Next]_vars => VisitsInv'
    BY VisitsStep
  <1>3. VisitsInv => OneOpenVisit
    <2> SUFFICES ASSUME VisitsInv PROVE OneOpenVisit
      OBVIOUS
    <2>1. \A s, t \in OpenSessions(rows) : s = t
      BY DEF VisitsInv, Whole
    <2>2. OpenSessions(rows) = {} \/ \E s : OpenSessions(rows) = {s}
      BY <2>1
    <2>3. Cardinality(OpenSessions(rows)) <= 1
      <3>1. CASE OpenSessions(rows) = {}
        <4>1. Cardinality(OpenSessions(rows)) = 0
          BY <3>1, FS_EmptySet
        <4>2. QED
          BY <4>1
      <3>2. CASE \E s : OpenSessions(rows) = {s}
        <4>1. Cardinality(OpenSessions(rows)) = 1
          BY <3>2, FS_Singleton
        <4>2. QED
          BY <4>1
      <3>3. QED
        BY <2>2, <3>1, <3>2
    <2>4. QED
      BY <2>3 DEF OneOpenVisit, VisitsInv, Whole
  <1>4. QED
    BY <1>1, <1>2, <1>3, WitnessInvariant, PTL DEF Spec
=============================================================================
