---------------------------- MODULE VisitIngest ----------------------------
(***************************************************************************)
(* How the webhook's events become visits.  The game server reports that a *)
(* character is connecting, connected or disconnected; the reports may be  *)
(* lost, repeated and reordered within the freshness window.  Store runs   *)
(* one transaction per delivery and derives the session of the event from  *)
(* the rows already stored; the bot closes what is open at each scheduled  *)
(* restart.  The module is one character's rows: sessions of different     *)
(* characters share nothing.                                               *)
(***************************************************************************)
EXTENDS WebhookGate

CONSTANTS
  Deliveries,   \* webhook requests being served at once
  MaxTime,      \* bound on the clock
  Skew,         \* TimestampSkew
  ConnectGrace, \* connectGrace
  VisitMaxAge,  \* visitMaxAge
  Restarts      \* the instants of the restart schedule

ASSUME TimeAssumption ==
  /\ {MaxTime, Skew, ConnectGrace, VisitMaxAge} \subseteq Nat
  /\ Skew < ConnectGrace
  /\ Restarts \subseteq 1..MaxTime

VARIABLES
  now,       \* the clock of the backend
  player,    \* what the character really does: "away", "joining", "playing"
  visit,     \* history: the visit the character is on, or was on last
  reported,  \* events the game server has sent out
  rows,      \* committed server_logs of the character, in id order
  store,     \* what each Store transaction has decided
  answered,  \* history: the session every accepted delivery was answered
  boundary   \* the restart the bot has recorded last

vars == <<now, player, visit, reported, rows, store, answered, boundary>>
gameVars == <<player, visit, reported>>

Served == [pc |-> "done"]

-----------------------------------------------------------------------------
\* The rows of a session; a session is named by the delivery that opened it.
RowsOf(log, s) == {n \in DOMAIN log : log[n].session = s}
SessionsOf(log) == {log[n].session : n \in DOMAIN log}
Has(log, s, status) == \E n \in RowsOf(log, s) : log[n].event.status = status
NewestAt(log, s) == Max({log[n].event.at : n \in RowsOf(log, s)})

\* Fault: a connected event joins a session that already has one.
NoShapeRule(log, e) ==
  {s \in SessionsOf(log) :
     /\ ~Has(log, s, "disconnected")
     /\ NewestAt(log, s) > e.at - (IF e.status = "connected" THEN ConnectGrace ELSE VisitMaxAge)}

\* The sessions findOpenSession may return for a connected or disconnected event.
Joinable(log, e) ==
  {s \in SessionsOf(log) :
     /\ ~Has(log, s, "disconnected")
     /\ e.status = "connected" => ~Has(log, s, "connected")
     /\ NewestAt(log, s) > e.at - (IF e.status = "connected" THEN ConnectGrace ELSE VisitMaxAge)}

\* ORDER BY MAX(occurred_at) DESC, MAX(id) DESC LIMIT 1.
MostRecent(log, S) ==
  CHOOSE s \in S : \A t \in S \ {s} :
    \/ NewestAt(log, s) > NewestAt(log, t)
    \/ NewestAt(log, s) = NewestAt(log, t) /\ Max(RowsOf(log, s)) > Max(RowsOf(log, t))

\* resolveSession: a connecting event always opens a session of its own.
Resolve(log, e, fresh) ==
  IF e.status = "connecting" \/ Joinable(log, e) = {}
  THEN fresh ELSE MostRecent(log, Joinable(log, e))

Row(e, s) == [event |-> e, session |-> s]
StoredAs(log, e) == {log[n].session : n \in {n \in DOMAIN log : log[n].event = e}}

\* What the handler finds wrong with a delivery: only its age can be.
FlawsOf(e) == IF Fresh(e.at, now, Skew) THEN {} ELSE {"expired"}

-----------------------------------------------------------------------------
Init ==
  /\ now = 0
  /\ player = "away"
  /\ visit = 0
  /\ reported = {}
  /\ rows = <<>>
  /\ store = [p \in Deliveries |-> Served]
  /\ answered = {}
  /\ boundary = 0

\* One instant stands for the freshness window; no request is served that long.
Tick ==
  /\ now < MaxTime
  /\ \A p \in Deliveries : store[p] = Served
  /\ now' = now + 1
  /\ UNCHANGED <<gameVars, rows, store, answered, boundary>>

\* The game server reports a step of the character, one per instant.
Report(status, after) ==
  /\ \A e \in reported : e.at # now
  /\ player' = after
  /\ visit' = IF status = "connecting" THEN visit + 1 ELSE visit
  /\ reported' = reported \cup {[status |-> status, at |-> now, visit |-> visit']}
  /\ UNCHANGED <<now, rows, store, answered, boundary>>

Connecting == player = "away" /\ Report("connecting", "joining")
Connected == player = "joining" /\ Report("connected", "playing")
Disconnected == player # "away" /\ Report("disconnected", "away")

\* The game server dies and reports no exit.
GameServerCrash ==
  /\ player # "away"
  /\ player' = "away"
  /\ UNCHANGED <<now, visit, reported, rows, store, answered, boundary>>

\* Fault: two copies of an event are served at once.
ReceiveUnlocked(p, e) ==
  /\ store[p] = Served
  /\ e \in reported
  /\ Outcome(Body, FlawsOf(e)) = "store"
  /\ IF StoredAs(rows, e) = {}
     THEN /\ store' = [store EXCEPT ![p] = [pc |-> "new", event |-> e]]
          /\ UNCHANGED answered
     ELSE /\ answered' = answered \cup {<<e, s>> : s \in StoredAs(rows, e)}
          /\ UNCHANGED store
  /\ UNCHANGED <<now, gameVars, rows, boundary>>

\* A delivery, or a redelivery, that is fresh enough: lockEvent, then findEvent.
Receive(p, e) ==
  /\ store[p] = Served
  /\ e \in reported
  /\ Outcome(Body, FlawsOf(e)) = "store"
  /\ \A q \in Deliveries : store[q] # Served => store[q].event # e
  /\ IF StoredAs(rows, e) = {}
     THEN /\ store' = [store EXCEPT ![p] = [pc |-> "new", event |-> e]]
          /\ UNCHANGED answered
     ELSE /\ answered' = answered \cup {<<e, s>> : s \in StoredAs(rows, e)}
          /\ UNCHANGED store
  /\ UNCHANGED <<now, gameVars, rows, boundary>>

\* Fault: the session is resolved before the character's row is locked.
ResolveUnlocked(p) ==
  /\ store[p].pc = "new"
  /\ store' = [store EXCEPT ![p] =
       [pc |-> "resolved", event |-> store[p].event,
        session |-> Resolve(rows, store[p].event, <<store[p].event.at, p>>)]]
  /\ UNCHANGED <<now, gameVars, rows, answered, boundary>>

\* upsertMember holds the character's row to the end of the transaction, so
\* only one delivery of the character is past this point.
UpsertAndResolve(p) ==
  /\ store[p].pc = "new"
  /\ \A q \in Deliveries : store[q].pc # "resolved"
  /\ store' = [store EXCEPT ![p] =
       [pc |-> "resolved", event |-> store[p].event,
        session |-> Resolve(rows, store[p].event, <<store[p].event.at, p>>)]]
  /\ UNCHANGED <<now, gameVars, rows, answered, boundary>>

\* insertLog, ON CONFLICT (payload) DO NOTHING, and the commit.
InsertAndCommit(p) ==
  /\ store[p].pc = "resolved"
  /\ rows' = IF StoredAs(rows, store[p].event) = {}
             THEN Append(rows, Row(store[p].event, store[p].session)) ELSE rows
  /\ answered' = answered \cup {<<store[p].event, store[p].session>>}
  /\ store' = [store EXCEPT ![p] = Served]
  /\ UNCHANGED <<now, gameVars, boundary>>

\* The request is cancelled or the database fails: rolled back, not accepted.
Rollback(p) ==
  /\ store[p] # Served
  /\ store' = [store EXCEPT ![p] = Served]
  /\ UNCHANGED <<now, gameVars, rows, answered, boundary>>

\* The restart before an instant of the schedule, or the day it is derived from.
PreviousRestart(at) == LET before == {r \in Restarts : r < at}
                       IN  IF before = {} THEN 0 ELSE Max(before)

\* The row DISTINCT ON picks: the newest of the character since that restart.
NewestBefore(log, at) ==
  LET in == {n \in DOMAIN log : log[n].event.at <= at /\ log[n].event.at > PreviousRestart(at)}
  IN  {n \in in : \A m \in in \ {n} :
         \/ log[m].event.at < log[n].event.at
         \/ log[m].event.at = log[n].event.at /\ m < n}

\* The session a restart ends: that of the newest row, if it is still open.
EndedByRestart(log, at) ==
  {log[n].session : n \in {n \in NewestBefore(log, at) :
                             /\ log[n].event.status # "disconnected"
                             /\ ~Has(log, log[n].session, "disconnected")}}

\* checkServerRestart, CloseForRestart: one statement, which waits for no Store.
\* The boundary is the latest one since the last check; a bot that was down
\* then never records it.
CloseForRestart(at) ==
  /\ at \in Restarts
  /\ boundary < at
  /\ at <= now
  /\ \A r \in Restarts : r > at => r > now
  /\ boundary' = at
  /\ rows' = rows \o SetToSeq({Row([status |-> "disconnected", at |-> at, visit |-> 0], s) :
                                 s \in EndedByRestart(rows, at)})
  /\ UNCHANGED <<now, gameVars, store, answered>>

Next ==
  \/ Tick
  \/ Connecting \/ Connected \/ Disconnected \/ GameServerCrash
  \/ \E p \in Deliveries :
       \/ \E e \in reported : Receive(p, e)
       \/ UpsertAndResolve(p) \/ InsertAndCommit(p) \/ Rollback(p)
  \/ \E at \in Restarts : CloseForRestart(at)

Spec == Init /\ [][Next]_vars

-----------------------------------------------------------------------------
TypeOK ==
  /\ now \in 0..MaxTime
  /\ player \in {"away", "joining", "playing"}
  /\ \A e \in reported : e.status \in {"connecting", "connected", "disconnected"} /\ e.at \in 0..now
  /\ \A n \in DOMAIN rows : rows[n].event.at \in 0..now
  /\ \A p \in Deliveries : store[p].pc \in {"done", "new", "resolved"}
  /\ boundary \in {0} \cup Restarts

LongestRestart == Max({0} \cup {at - PreviousRestart(at) : at \in Restarts})

(***************************************************************************)
(* A session stays a visit however deliveries race and whatever is lost,   *)
(* repeated or late: "a visit has exactly one connected event, so a second *)
(* is a second visit" (findOpenSession's shape rule under upsertMember's   *)
(* row lock); and playtime is never overstated without bound, since a      *)
(* session spans no more than the two windows of findOpenSession, or the   *)
(* restart that closed it.                                                 *)
(***************************************************************************)
SessionIsOneVisit ==
  \A m, n \in DOMAIN rows :
    rows[m].session = rows[n].session =>
      /\ m # n /\ rows[m].event.status = "connected" => rows[n].event.status # "connected"
      /\ rows[n].event.at - rows[m].event.at < ConnectGrace + Max({VisitMaxAge, LongestRestart})

(***************************************************************************)
(* Every answer to a delivery of an event names the one session its row is *)
(* in, so a retry is told what the first delivery was told (Store).        *)
(***************************************************************************)
AnswersAgree ==
  \A a \in answered : StoredAs(rows, a[1]) = {a[2]}

(***************************************************************************)
(* A sender is refused exactly when one more request would exceed the      *)
(* published limit in some window, requests refused before the bucket      *)
(* count for nobody, and who waits as long as he is told is admitted       *)
(* (rateLimiter.allow behind Authenticate).  Checked over every short      *)
(* sequence.                                                               *)
(***************************************************************************)
LimitIsKept ==
  Init =>
    \A gap \in [1..4 -> {0, 1, 4}], flaws \in [1..4 -> {{}, {"secret"}, {"media type", "expired"}}] :
      KeepsLimit([n \in 1..4 |-> [at |-> SumFunctionOnSet(gap, 1..n), flaws |-> flaws[n]]])

\* The events the webhook stored, as the visits they were split into.
Visits(log) == {{log[n].event : n \in {n \in RowsOf(log, s) : log[n].event.visit # 0}} :
                  s \in SessionsOf(log)}

DeliveredInOrder ==
  /\ \A e \in reported : StoredAs(rows, e) # {}
  /\ \A m, n \in DOMAIN rows : m < n => rows[m].event.at < rows[n].event.at
  /\ \A e, f \in reported :
       /\ e.visit = f.visit
       /\ e.at < f.at
       => f.at - e.at < (IF f.status = "connected" THEN ConnectGrace ELSE VisitMaxAge)

(***************************************************************************)
(* Where nothing was lost or reordered a session is exactly a visit: every *)
(* report stored in the order of the events, each within its window of the *)
(* one before, and no restart in between (resolveSession).                 *)
(***************************************************************************)
WholeVisits ==
  (boundary = 0 /\ DeliveredInOrder) =>
    Visits(rows) = {{e \in reported : e.visit = v} : v \in {e.visit : e \in reported}}

\* The log that results when the same events are stored in the order they happened.
Replayed(log) ==
  FoldLeft(LAMBDA done, e : Append(done, Row(e, Resolve(done, e, <<e.at>>))), <<>>,
           SetToSortSeq({log[n].event : n \in DOMAIN log}, LAMBDA e, f : e.at < f.at))

(***************************************************************************)
(* "replaying events in any order reaches the same answer" (README.md:98): *)
(* a late event never puts together what the order of the events keeps     *)
(* apart, where no restart was recorded (findOpenSession).                 *)
(***************************************************************************)
OrderNeverMerges ==
  boundary = 0 =>
    \A e, f \in {rows[n].event : n \in DOMAIN rows} :
      StoredAs(rows, e) = StoredAs(rows, f)
        => StoredAs(Replayed(rows), e) = StoredAs(Replayed(rows), f)
=============================================================================
