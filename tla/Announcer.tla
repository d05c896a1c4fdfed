----------------------------- MODULE Announcer ------------------------------
(***************************************************************************)
(* The player log channel.  The bot polls server_logs for rows beyond a    *)
(* cursor and posts each, or edits the message in which another witness    *)
(* already reported the same change, or drops what a weaker witness says   *)
(* against a stronger one.  Cursor and posted messages are in memory.      *)
(*                                                                         *)
(* The rows are one character's.  The webhook stores them in transactions, *)
(* which may commit in another order than their ids; the Discord witness   *)
(* stores one row in a statement, and may date the opening of a visit      *)
(* back to the start of the activity.  Both go through connecting,         *)
(* connected and disconnected, and may leave out any but the first.        *)
(***************************************************************************)
EXTENDS Integers, Sequences, FiniteSets, FiniteSetsExt, SequencesExt

CONSTANTS
  MergeWindow,  \* announcementMergeWindow
  OpenAge,      \* the twelve hours an open visit counts for
  Limit,        \* serverLogAnnounceLimit
  Corroborates, \* what the gateway may say of him when a pass begins
  MaxTime,      \* bound: the clock
  MaxRows,      \* bound: rows
  MaxFaults,    \* bound: lost answers of Discord
  MaxReboots    \* bound: restarts of the bot

ASSUME AnnouncerAssumption ==
  /\ Limit \in Nat \ {0}
  /\ {MergeWindow, OpenAge, MaxTime, MaxRows, MaxFaults, MaxReboots} \subseteq Nat

VARIABLES
  now,
  rows,      \* server_logs; the position is the id
  poller,    \* the goroutine of runServerLogPoller
  cursor,    \* serverLogCursor
  posted,    \* announcementMerger.posted, for each status; told is history
  pass,      \* the rows this pass has still to announce
  channel,   \* the messages, in the order they were sent
  skipped,   \* history: rows dropped for a stronger witness
  overtaken, \* history: rows still uncommitted when a later one was read
  seed,      \* history: the cursor this process was seeded with
  faults, reboots

vars == <<now, rows, poller, cursor, posted, pass, channel, skipped, overtaken, seed,
          faults, reboots>>

StatusSet == {"connecting", "connected", "disconnected"}
Phase(status) == CASE status = "connecting" -> 1 [] status = "connected" -> 2 [] OTHER -> 3
Sources == {"server", "discord"}
Nothing == [message |-> 0]

\* sourceTrust: the less, the more trusted.
SourceTrust(source) == IF source = "server" THEN 0 ELSE 2

Committed == {id \in DOMAIN rows : rows[id].state = "committed"}
Latest == Max({0} \cup Committed)

-----------------------------------------------------------------------------
Init ==
  /\ now = 1
  /\ rows = <<>> /\ poller = "starting" /\ cursor = 0 /\ seed = 0
  /\ posted = [status \in StatusSet |-> Nothing]
  /\ pass = <<>> /\ channel = <<>>
  /\ skipped = {} /\ overtaken = {}
  /\ faults = 0 /\ reboots = 0

Tick == /\ now < MaxTime
        /\ now' = now + 1
        /\ UNCHANGED <<rows, poller, cursor, posted, pass, channel, skipped, overtaken, seed, faults, reboots>>

\* The rows of a source so far, its last session, and how far that one is.
Of(source) == {id \in DOMAIN rows : rows[id].source = source /\ rows[id].state # "gone"}
LastSession(source) == IF Of(source) = {} THEN 0 ELSE rows[Max(Of(source))].session
Continues(source, status) ==
  /\ Of(source) # {}
  /\ Phase(rows[Max(Of(source))].status) < Phase(status)
Opens(source, status) ==
  /\ status # "disconnected"
  /\ Of(source) # {} => rows[Max(Of(source))].status = "disconnected"

Row(source, status, at, state) ==
  [source |-> source, status |-> status, at |-> at, state |-> state,
   session |-> IF Continues(source, status) THEN LastSession(source) ELSE LastSession(source) + 1]

Stores(row) ==
  /\ Len(rows) < MaxRows
  /\ rows' = Append(rows, row)
  /\ UNCHANGED <<now, poller, cursor, posted, pass, channel, skipped, overtaken, seed, faults, reboots>>

\* Store has taken an id; RecordDiscordPresence has inserted a row.
WebhookInserts ==
  /\ \E status \in StatusSet :
       /\ Continues("server", status) \/ Opens("server", status)
       /\ Stores(Row("server", status, now, "open"))
WitnessInserts ==
  /\ \E status \in StatusSet :
       \/ Continues("discord", status) /\ Stores(Row("discord", status, now, "committed"))
       \/ Opens("discord", status) /\ \E at \in 1..now : Stores(Row("discord", status, at, "committed"))

WebhookEnds(id, state) ==
  /\ rows[id].state = "open"
  /\ rows' = [rows EXCEPT ![id] = [@ EXCEPT !.state = state]]
  /\ UNCHANGED <<now, poller, cursor, posted, pass, channel, skipped, overtaken, seed, faults, reboots>>

-----------------------------------------------------------------------------
\* The start of the earliest visit the webhook has open at a weaker row's time.
TrustedOpenSince(r) ==
  LET in(s) == {id \in Committed : /\ rows[id].source = "server" /\ rows[id].session = s
                                   /\ rows[id].at <= r.at /\ rows[id].at > r.at - OpenAge}
      open == {s \in {rows[id].session : id \in Committed} :
                 in(s) # {} /\ \A id \in in(s) : rows[id].status # "disconnected"}
      starts == {rows[id].at : id \in UNION {in(s) : s \in open}}
  IN  IF r.source = "server" \/ starts = {} THEN 0 ELSE Min(starts)

\* corroborateServerEvent: the witnesses a row is announced with.
Witnesses(r, seen) ==
  IF r.source = "server" /\ r.status = seen /\ now - r.at <= MergeWindow
  THEN {"server", "discord"} ELSE {r.source}

\* ORDER BY id.
InOrder(ids) ==
  CHOOSE seq \in [1..Cardinality(ids) -> ids] :
    \A m, n \in DOMAIN seq : m < n => seq[m] < seq[n]

\* AnnouncementsAfter, and the presence the pass goes by.
ReadAnnouncements(seen) ==
  LET after == {id \in Committed : id > cursor}
      ids == InOrder(after)
      read == [n \in 1..Min({Limit, Cardinality(after)}) |->
                 [id |-> ids[n], since |-> TrustedOpenSince(rows[ids[n]]),
                  sources |-> Witnesses(rows[ids[n]], seen), refused |-> FALSE]]
  IN  /\ poller = "running" /\ pass = <<>> /\ after # {}
      /\ pass' = read
      /\ overtaken' = overtaken \cup
           {id \in DOMAIN rows : rows[id].state = "open" /\ id < read[Len(read)].id}
      /\ UNCHANGED <<now, rows, poller, cursor, posted, channel, skipped, seed, faults, reboots>>

Current == Head(pass)
CurrentRow == rows[Current.id]
Previous == posted[CurrentRow.status]
Abs(n) == IF n < 0 THEN -n ELSE n

\* plan: another witness reported this change within the window.
Joins ==
  /\ Previous # Nothing
  /\ Abs(CurrentRow.at - Previous.at) <= MergeWindow
  /\ CurrentRow.source \notin Previous.sources

\* plan: a weaker witness contradicts a stronger one.
Contradicts ==
  /\ Current.since # 0
  /\ CurrentRow.status = "disconnected" \/ CurrentRow.at - Current.since > MergeWindow

\* Fault: the latest report's details are shown.
RenderLatest ==
  [status |-> CurrentRow.status, shown |-> Current.id,
   sources |-> Current.sources \cup (IF Joins THEN Previous.sources ELSE {})]

\* What is sent: the row, or the message it joins with the better details.
Render ==
  [status |-> CurrentRow.status,
   sources |-> Current.sources \cup (IF Joins THEN Previous.sources ELSE {}),
   shown |-> IF Joins /\ SourceTrust(CurrentRow.source) >= SourceTrust(rows[Previous.shown].source)
             THEN Previous.shown ELSE Current.id]

\* The rows that tells of.
Tells == {Current.id} \cup (IF Joins THEN Previous.told ELSE {})

Told(rendered, rowsTold) == [rendered |-> rendered, told |-> rowsTold, deleted |-> FALSE]

\* prune, after the last row of a pass.
Pruned(p) == [status \in StatusSet |->
  IF p[status] # Nothing /\ now - p[status].at > 2 * MergeWindow THEN Nothing ELSE p[status]]

\* The row is done with: record, the cursor, and the end of the pass.
Advance(remembered) ==
  /\ cursor' = Current.id
  /\ pass' = Tail(pass)
  /\ posted' = IF Len(pass) = 1 THEN Pruned(remembered) ELSE remembered
  /\ UNCHANGED <<now, rows, poller, overtaken, seed, reboots>>
Recorded(message) ==
  [posted EXCEPT ![CurrentRow.status] =
     [message |-> message, shown |-> Render.shown, sources |-> Render.sources,
      at |-> CurrentRow.at, told |-> Tells]]

Skip ==
  /\ pass # <<>> /\ ~Current.refused
  /\ ~Joins /\ Contradicts
  /\ skipped' = skipped \cup {Current.id}
  /\ Advance(posted)
  /\ UNCHANGED <<channel, faults>>

Edited(message) == [channel EXCEPT ![message] = Told(Render, Tells)]

Edit ==
  /\ pass # <<>> /\ ~Current.refused
  /\ Joins
  /\ ~channel[Previous.message].deleted
  /\ channel' = Edited(Previous.message)
  /\ Advance(Recorded(Previous.message))
  /\ UNCHANGED <<skipped, faults>>

\* Fault: a refused edit ends the pass.
EditStops(lost) ==
  /\ pass # <<>> /\ ~Current.refused
  /\ Joins
  /\ IF lost THEN ~channel[Previous.message].deleted /\ faults < MaxFaults /\ faults' = faults + 1
             ELSE channel[Previous.message].deleted /\ UNCHANGED faults
  /\ pass' = <<>>
  /\ UNCHANGED <<now, rows, poller, cursor, posted, channel, skipped, overtaken, seed, reboots>>

\* The edit is refused, the message being gone, or its answer is lost: a fresh
\* message is posted.
EditFails(lost) ==
  /\ pass # <<>> /\ ~Current.refused
  /\ Joins
  /\ IF lost THEN /\ ~channel[Previous.message].deleted
                  /\ faults < MaxFaults /\ faults' = faults + 1
                  /\ channel' = Edited(Previous.message)
             ELSE channel[Previous.message].deleted /\ UNCHANGED <<faults, channel>>
  /\ pass' = [pass EXCEPT ![1] = [@ EXCEPT !.refused = TRUE]]
  /\ UNCHANGED <<now, rows, poller, cursor, posted, skipped, overtaken, seed, reboots>>

MustPost == pass # <<>> /\ (Current.refused \/ (~Joins /\ ~Contradicts))

Post ==
  /\ MustPost
  /\ channel' = Append(channel, Told(Render, Tells))
  /\ Advance(Recorded(Len(channel) + 1))
  /\ UNCHANGED <<skipped, faults>>

\* Fault: a row that cannot be posted is passed over.
PostSkips(lost) ==
  /\ MustPost
  /\ faults < MaxFaults /\ faults' = faults + 1
  /\ Advance(posted)
  /\ UNCHANGED <<channel, skipped>>

\* The post fails, or only its answer does: the pass ends, the cursor stays.
PostFails(lost) ==
  /\ MustPost
  /\ faults < MaxFaults /\ faults' = faults + 1
  /\ channel' = IF lost THEN Append(channel, Told(Render, Tells)) ELSE channel
  /\ pass' = <<>>
  /\ UNCHANGED <<now, rows, poller, cursor, posted, skipped, overtaken, seed, reboots>>

\* Somebody deletes a message.
DeleteMessage(n) ==
  /\ faults < MaxFaults /\ faults' = faults + 1
  /\ channel' = [channel EXCEPT ![n] = [@ EXCEPT !.deleted = TRUE]]
  /\ UNCHANGED <<now, rows, poller, cursor, posted, pass, skipped, overtaken, seed, reboots>>

\* The bot stops and starts: nothing of it is stored.
Reboot ==
  /\ reboots < MaxReboots /\ reboots' = reboots + 1
  /\ poller' = "starting" /\ cursor' = 0 /\ seed' = 0
  /\ posted' = [status \in StatusSet |-> Nothing]
  /\ pass' = <<>>
  /\ UNCHANGED <<now, rows, channel, skipped, overtaken, faults>>

\* LatestEventID seeds the cursor.
Seed ==
  /\ poller = "starting" /\ poller' = "running"
  /\ cursor' = Latest /\ seed' = Latest
  /\ UNCHANGED <<now, rows, posted, pass, channel, skipped, overtaken, faults, reboots>>

\* LatestEventID fails: the goroutine returns, and this process announces nothing.
SeedFails ==
  /\ poller = "starting" /\ poller' = "ended"
  /\ faults < MaxFaults /\ faults' = faults + 1
  /\ UNCHANGED <<now, rows, cursor, posted, pass, channel, skipped, overtaken, seed, reboots>>

Next ==
  \/ Tick
  \/ WebhookInserts \/ WitnessInserts
  \/ \E id \in DOMAIN rows, state \in {"committed", "gone"} : WebhookEnds(id, state)
  \/ \E seen \in Corroborates : ReadAnnouncements(seen)
  \/ Skip \/ Edit \/ Post
  \/ \E lost \in BOOLEAN : EditFails(lost) \/ PostFails(lost)
  \/ \E n \in DOMAIN channel : DeleteMessage(n)
  \/ Reboot \/ Seed \/ SeedFails

Spec == Init /\ [][Next]_vars

\* The first query ends; then a pass every ten seconds, and Discord does not
\* fail for ever.
Announces ==
  \/ Seed \/ SeedFails
  \/ \E seen \in Corroborates : ReadAnnouncements(seen)
  \/ Skip \/ Edit \/ Post \/ \E lost \in BOOLEAN : EditFails(lost)
FairSpec == Spec /\ WF_vars(Announces)

-----------------------------------------------------------------------------
TypeOK ==
  /\ poller \in {"starting", "running", "ended"}
  /\ cursor \in 0..Len(rows) /\ seed \in 0..cursor
  /\ \A status \in StatusSet : posted[status].message \in 0..Len(channel)
  /\ \A n \in DOMAIN channel :
       channel[n].rendered \in [status : StatusSet, shown : 1..Len(rows), sources : SUBSET Sources]

(***************************************************************************)
(* Each change is posted: a row the cursor has passed since the process    *)
(* started is in a message, or was dropped for a stronger witness, or its  *)
(* transaction had not committed when a later row was read, or when the    *)
(* process seeded its cursor (announceServerLogs stops at a failure and    *)
(* leaves the cursor behind the row).                                      *)
(***************************************************************************)
NothingPassedOver ==
  \A id \in Committed \ overtaken :
    id > seed /\ id <= cursor =>
      \/ id \in skipped /\ rows[id].source # "server"
      \/ \E n \in DOMAIN channel : id \in channel[n].told

(***************************************************************************)
(* A message tells of one change: its rows have one status, are no two of  *)
(* one witness, and lie within the window; and it tells it at its best:    *)
(* with the details of the most trusted witness that reported the change,  *)
(* naming every witness whose row it tells of (announcementMerger.plan).   *)
(***************************************************************************)
MessageIsOneChange ==
  \A n \in DOMAIN channel : \A q, r \in channel[n].told :
    /\ rows[q].status = channel[n].rendered.status
    /\ q # r => /\ rows[q].source # rows[r].source
                /\ Abs(rows[q].at - rows[r].at) <= MergeWindow
    /\ SourceTrust(rows[channel[n].rendered.shown].source) <= SourceTrust(rows[q].source)
    /\ rows[q].source \in channel[n].rendered.sources

(***************************************************************************)
(* The cursor comes again and again to the last row that was committed,    *)
(* and to stay once no more are stored, in every process, although a       *)
(* message that is to be edited may have been deleted (announceServerLogs) *)
(* -- unless the first query of that process failed, which ends its        *)
(* announcer for good (runServerLogPoller).                                *)
(***************************************************************************)
CursorCatchesUp == []<>(cursor >= Latest \/ poller = "ended")
=============================================================================
