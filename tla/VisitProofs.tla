----------------------------- MODULE VisitProofs -----------------------------
(***************************************************************************)
(* Proofs about the visits the webhook stores (VisitIngest), for any       *)
(* deliveries, windows and restart schedule, and about the token bucket in *)
(* front of them (WebhookGate), for any rate and sequence of requests.     *)
(*                                                                         *)
(* VisitInv is inductive.  That answers agree rests on the event lock:     *)
(* while a delivery is served its event has no row, and no other delivery  *)
(* of it is served (Pending).  That a session is one visit rests on the    *)
(* row lock: nobody stores a row of the character between the look for an  *)
(* open session and the insert, and the restart statement, which waits for *)
(* no lock, adds only an exit that is later than a row already there       *)
(* (Joins).                                                                *)
(*                                                                         *)
(* The bucket holds the least that a window has left of the published      *)
(* limit, or is full (BucketFits), so it has a token when every window     *)
(* does.                                                                   *)
(***************************************************************************)
EXTENDS VisitIngest, CommonLemmas

StatusSet == {"connecting", "connected", "disconnected"}
Longest == Max({VisitMaxAge, LongestRestart})

\* What the character has really done, as far as it was reported.
GameTypes ==
  /\ now \in 0..MaxTime /\ visit \in Nat
  /\ reported \subseteq [status : StatusSet, at : 0..now, visit : 1..visit]
  /\ \A e, f \in reported : e.at = f.at => e = f

Phase(status) == CASE status = "connecting" -> 1 [] status = "connected" -> 2 [] OTHER -> 3

\* A visit goes through its phases, and nothing comes between two of them.
VisitsInOrder ==
  /\ \A e, f \in reported : e.visit = f.visit /\ f.at < e.at => Phase(f.status) < Phase(e.status)
  /\ \A e \in reported : e.status # "connecting" =>
       \E f \in reported : /\ f.visit = e.visit /\ f.at < e.at
                           /\ \A g \in reported : g.at <= f.at \/ g.at >= e.at
  /\ player \in {"away", "joining", "playing"}
  /\ player # "away" =>
       \E f \in reported : /\ f.visit = visit /\ \A g \in reported : g.at <= f.at
                           /\ f.status = IF player = "joining" THEN "connecting" ELSE "connected"

GameInv == GameTypes /\ VisitsInOrder

\* The rows: what was reported, each event once, and the exits of restarts.
IsLog(log) == log \in Seq({log[n] : n \in DOMAIN log})
RestartExit(e, until) ==
  e \in [status : {"disconnected"}, at : Restarts \cap (0..until), visit : {0}]
RowTypes ==
  /\ IsLog(rows)
  /\ \A n \in DOMAIN rows :
       /\ rows[n] = Row(rows[n].event, rows[n].session)
       /\ rows[n].event \in reported \/ (RestartExit(rows[n].event, now) /\ boundary # 0)
       \* The row of the delivery that opened the session is there.
       /\ \E k \in RowsOf(rows, rows[n].session), p \in Deliveries :
            rows[k].event \in reported /\ rows[n].session = <<rows[k].event.at, p>>
  /\ \A m, n \in DOMAIN rows : rows[m].event = rows[n].event /\ rows[m].event \in reported => m = n

\* Two rows of a session.
Together(d, e) ==
  /\ d.status \in {"connecting", "connected"} => d.status # e.status
  /\ (d.status # "disconnected" /\ e.status # "disconnected") => e.at - d.at < ConnectGrace
  /\ e.at - d.at < ConnectGrace + Longest
SessionsFit ==
  \A m, n \in DOMAIN rows :
    rows[m].session = rows[n].session /\ m # n => Together(rows[m].event, rows[n].event)

\* A delivery that is served: its event has no row, and nobody else serves it.
Pending(p) ==
  /\ store[p].event \in reported /\ StoredAs(rows, store[p].event) = {}
  /\ now - store[p].event.at <= Skew
  /\ \A q \in Deliveries \ {p} : store[q] # Served => store[q].event # store[p].event

\* A delivery that has found a session, and holds the character's row.
Joins(p) ==
  LET e == store[p].event
  IN  /\ store[p].session = <<e.at, p>> \/ store[p].session \in SessionsOf(rows)
      /\ \A n \in RowsOf(rows, store[p].session) :
           /\ e.status # "connecting"
           /\ e.status = "connected" =>
                rows[n].event.status # "connected" /\ e.at - rows[n].event.at < ConnectGrace
           /\ e.at - rows[n].event.at < ConnectGrace + VisitMaxAge
      /\ \A q \in Deliveries \ {p} : store[q].pc # "resolved"

StoreInv ==
  /\ DOMAIN store = Deliveries
  /\ \A p \in Deliveries :
       /\ \/ store[p] = Served
          \/ store[p] = [pc |-> "new", event |-> store[p].event]
          \/ store[p] = [pc |-> "resolved", event |-> store[p].event, session |-> store[p].session]
       /\ store[p] # Served => Pending(p)
       /\ store[p].pc = "resolved" => Joins(p)

AnswerInv ==
  \A a \in answered : a[1] \in reported /\ StoredAs(rows, a[1]) = {a[2]}

\* While nothing was lost or reordered, the sessions are the visits.
InOrder(log, events, last) ==
  /\ last = 0
  /\ \A m, n \in DOMAIN log : m < n => log[m].event.at < log[n].event.at
  /\ \A e \in events, n \in DOMAIN log : e.at <= log[n].event.at => StoredAs(log, e) # {}
  /\ \A e, f \in events :
       e.visit = f.visit /\ e.at < f.at =>
         f.at - e.at < (IF f.status = "connected" THEN ConnectGrace ELSE VisitMaxAge)
SplitRight(log) ==
  \A m, n \in DOMAIN log :
    log[m].session = log[n].session <=> log[m].event.visit = log[n].event.visit
WholeLog(log, events, last) == InOrder(log, events, last) => SplitRight(log)
Resulting(p) == Append(rows, Row(store[p].event, store[p].session))
WholeInv ==
  /\ WholeLog(rows, reported, boundary)
  /\ \A p \in Deliveries :
       store[p].pc = "resolved" => WholeLog(Resulting(p), reported, boundary)

VisitInv ==
  /\ GameInv
  /\ RowTypes
  /\ boundary \in Nat
  /\ SessionsFit
  /\ StoreInv
  /\ AnswerInv
  /\ WholeInv

-----------------------------------------------------------------------------
\* The game server knows nothing of the rows, and its visits go on in order.
\* A report continues the visit that was reported of last, or begins one.
MayReport(status) ==
  status = "connecting" \/
    \E f \in reported : /\ f.visit = visit /\ \A g \in reported : g.at <= f.at
                        /\ Phase(f.status) < Phase(status)

LEMMA Reports ==
  ASSUME GameInv, NEW status \in StatusSet, NEW after, Report(status, after), MayReport(status)
  PROVE  /\ GameTypes'
         /\ \A e \in reported : e.at < now /\ e.visit \in 1..visit
         /\ reported' = reported \cup {[status |-> status, at |-> now, visit |-> visit']}
         /\ visit' = IF status = "connecting" THEN visit + 1 ELSE visit
         /\ now' = now /\ player' = after
  <1> DEFINE new == [status |-> status, at |-> now, visit |-> visit']
  <1>1. /\ reported' = reported \cup {new} /\ now' = now /\ player' = after
        /\ visit' = IF status = "connecting" THEN visit + 1 ELSE visit
        /\ \A e \in reported : e.at # now
    BY DEF Report
  <1>2. /\ now \in 0..MaxTime /\ visit \in Nat
        /\ \A e \in reported : /\ e = [status |-> e.status, at |-> e.at, visit |-> e.visit]
                               /\ e.status \in StatusSet /\ e.at \in 0..now /\ e.visit \in 1..visit
        /\ \A e, f \in reported : e.at = f.at => e = f
    BY DEF GameInv, GameTypes
  <1>3. \A e \in reported : e.at < now
    BY <1>1, <1>2, TimeAssumption
  <1>4. visit' \in Nat /\ visit <= visit' /\ visit' >= 1
    <2>1. CASE status = "connecting"
      BY <1>1, <1>2, <2>1
    <2>2. CASE status # "connecting"
      BY <1>1, <1>2, <2>2 DEF MayReport
    <2>3. QED
      BY <2>1, <2>2
  <1>5. new \in [status : StatusSet, at : 0..now, visit : 1..visit']
    BY <1>2, <1>4
  <1>6. \A e \in reported : e \in [status : StatusSet, at : 0..now, visit : 1..visit']
    BY <1>2, <1>4
  <1>7. \A e, f \in reported' : e.at = f.at => e = f
    <2>1. \A e \in reported : e.at # new.at
      BY <1>1
    <2>2. QED
      BY <1>1, <1>2, <2>1
  <1>8. GameTypes'
    BY <1>1, <1>2, <1>4, <1>5, <1>6, <1>7 DEF GameTypes
  <1>9. QED
    BY <1>1, <1>2, <1>3, <1>8

LEMMA ReportKeepsGame ==
  ASSUME GameInv, NEW status \in StatusSet, NEW after, Report(status, after), MayReport(status),
         after = "away" \/ (after = "joining" /\ status = "connecting")
           \/ (after = "playing" /\ status = "connected")
  PROVE  GameInv'
  <1> DEFINE new == [status |-> status, at |-> now, visit |-> visit']
  <1>1. /\ GameTypes' /\ now' = now /\ player' = after
        /\ \A e \in reported : e.at < now /\ e.visit \in 1..visit
        /\ reported' = reported \cup {new}
        /\ visit' = IF status = "connecting" THEN visit + 1 ELSE visit
    BY Reports
  <1>2. /\ now \in Nat /\ visit \in Nat
        /\ \A e \in reported : e.status \in StatusSet /\ e.at \in Nat
        /\ \A e, f \in reported : e.at = f.at => e = f
    BY DEF GameInv, GameTypes
  <1>3. new.status = status /\ new.at = now /\ new.visit = visit' /\ new \in reported'
    BY <1>1
  <1> HIDE DEF new
  <1>4. /\ \A e, f \in reported : e.visit = f.visit /\ f.at < e.at => Phase(f.status) < Phase(e.status)
        /\ \A e \in reported : e.status # "connecting" =>
             \E f \in reported : /\ f.visit = e.visit /\ f.at < e.at
                                 /\ \A g \in reported : g.at <= f.at \/ g.at >= e.at
    BY DEF GameInv, VisitsInOrder
  <1>5. \A s \in StatusSet : Phase(s) \in 1..3
    BY DEF Phase, StatusSet
  <1>6. \A f \in reported : f.visit = new.visit => Phase(f.status) < Phase(new.status)
    <2>1. CASE status = "connecting"
      BY <1>1, <1>2, <1>3, <2>1
    <2>2. ASSUME status # "connecting", NEW f \in reported, f.visit = new.visit
          PROVE  Phase(f.status) < Phase(new.status)
      <3>1. PICK h \in reported : /\ h.visit = visit /\ \A g \in reported : g.at <= h.at
                                  /\ Phase(h.status) < Phase(status)
        BY <2>2 DEF MayReport
      <3>2. f.visit = h.visit /\ f.at <= h.at
        BY <1>1, <1>3, <2>2, <3>1
      <3>3. CASE f = h
        BY <1>3, <3>1, <3>3
      <3>4. CASE f # h
        <4>1. f.at < h.at
          BY <1>2, <3>2, <3>4
        <4>2. Phase(f.status) < Phase(h.status)
          BY <1>4, <3>2, <4>1
        <4>3. QED
          BY <1>2, <1>3, <1>5, <3>1, <4>2
      <3>5. QED
        BY <3>3, <3>4
    <2>3. QED
      BY <2>1, <2>2
  <1>7. \A e, f \in reported' : e.visit = f.visit /\ f.at < e.at => Phase(f.status) < Phase(e.status)
    <2>1. \A e \in reported : ~(new.at < e.at)
      BY <1>1, <1>2, <1>3
    <2>2. ~(new.at < new.at)
      BY <1>2, <1>3
    <2>3. QED
      BY <1>1, <1>4, <1>6, <2>1, <2>2
  <1>8. ASSUME NEW e \in reported', e.status # "connecting"
        PROVE  \E f \in reported' : /\ f.visit = e.visit /\ f.at < e.at
                                    /\ \A g \in reported' : g.at <= f.at \/ g.at >= e.at
    <2>1. CASE e \in reported
      <3>1. PICK f \in reported : /\ f.visit = e.visit /\ f.at < e.at
                                  /\ \A g \in reported : g.at <= f.at \/ g.at >= e.at
        BY <1>4, <1>8, <2>1
      <3>2. new.at >= e.at
        BY <1>1, <1>2, <1>3, <2>1
      <3>3. QED
        BY <1>1, <3>1, <3>2
    <2>2. CASE e = new
      <3>1. PICK f \in reported : f.visit = visit /\ \A g \in reported : g.at <= f.at
        BY <1>3, <1>8, <2>2 DEF MayReport
      <3>2. new.visit = visit /\ f.at < new.at
        BY <1>1, <1>3, <1>8, <2>2, <3>1
      <3>3. new.at >= new.at
        BY <1>2, <1>3
      <3>4. QED
        BY <1>1, <2>2, <3>1, <3>2, <3>3
    <2>3. QED
      BY <1>1, <2>1, <2>2
  <1>9. player' # "away" =>
          \E f \in reported' : /\ f.visit = visit' /\ \A g \in reported' : g.at <= f.at
                               /\ f.status = IF player' = "joining" THEN "connecting" ELSE "connected"
    <2>1. \A g \in reported' : g.at <= new.at
      BY <1>1, <1>2, <1>3
    <2>2. player' # "away" => new.status = IF player' = "joining" THEN "connecting" ELSE "connected"
      BY <1>1, <1>3
    <2>3. QED
      BY <1>3, <2>1, <2>2
  <1>10. player' \in {"away", "joining", "playing"}
    BY <1>1
  <1>11. VisitsInOrder'
    BY <1>7, <1>8, <1>9, <1>10 DEF VisitsInOrder
  <1>12. QED
    BY <1>1, <1>11 DEF GameInv

LEMMA GameGoesOn ==
  ASSUME GameInv, [Next]_vars
  PROVE  GameInv' /\ reported \subseteq reported' /\ now \in Nat /\ now' \in Nat /\ now <= now'
  <1>0. now \in Nat /\ now <= now /\ reported \subseteq reported
    BY DEF GameInv, GameTypes
  <1>1. ASSUME now' = now, UNCHANGED gameVars PROVE GameInv'
    BY <1>1 DEF GameInv, GameTypes, VisitsInOrder, gameVars
  <1>2. CASE Tick
    <2>1. now' = now + 1 /\ now < MaxTime /\ UNCHANGED gameVars
      BY <1>2 DEF Tick
    <2>2. now \in 0..MaxTime /\ now' \in 0..MaxTime
      BY <2>1, TimeAssumption DEF GameInv, GameTypes
    <2>3. 0..now \subseteq 0..now'
      BY <2>1, <2>2
    <2>4. GameTypes'
      <3>1. reported' = reported /\ visit' = visit
        BY <2>1 DEF gameVars
      <3>2. \A e \in reported : e \in [status : StatusSet, at : 0..now', visit : 1..visit]
        BY <2>3 DEF GameInv, GameTypes
      <3>3. QED
        BY <2>2, <3>1, <3>2 DEF GameInv, GameTypes
    <2>5. VisitsInOrder'
      BY <2>1 DEF GameInv, VisitsInOrder, gameVars
    <2>6. QED
      BY <2>1, <2>2, <2>4, <2>5 DEF GameInv, gameVars
  <1>3. \A s \in StatusSet : Phase(s) \in 1..3
    BY DEF Phase, StatusSet
  <1>4. CASE Connecting
    <2>1. Report("connecting", "joining") /\ MayReport("connecting")
      BY <1>4 DEF Connecting, MayReport
    <2>2. GameInv'
      BY <2>1, ReportKeepsGame DEF StatusSet
    <2>3. QED
      BY <1>0, <2>1, <2>2 DEF Report
  <1>5. CASE Connected
    <2>1. Report("connected", "playing") /\ player = "joining"
      BY <1>5 DEF Connected
    <2>2. MayReport("connected")
      BY <2>1 DEF GameInv, VisitsInOrder, MayReport, Phase
    <2>3. GameInv'
      BY <2>1, <2>2, ReportKeepsGame DEF StatusSet
    <2>4. QED
      BY <1>0, <2>1, <2>3 DEF Report
  <1>6. CASE Disconnected
    <2>1. Report("disconnected", "away") /\ player # "away"
      BY <1>6 DEF Disconnected
    <2>2. MayReport("disconnected")
      <3>1. Phase("connecting") < Phase("disconnected") /\ Phase("connected") < Phase("disconnected")
        BY DEF Phase
      <3>2. QED
        BY <2>1, <3>1 DEF GameInv, VisitsInOrder, MayReport
    <2>3. GameInv'
      BY <2>1, <2>2, ReportKeepsGame DEF StatusSet
    <2>4. QED
      BY <1>0, <2>1, <2>3 DEF Report
  <1>7. CASE GameServerCrash
    <2>1. now' = now /\ UNCHANGED <<visit, reported>> /\ player' = "away"
      BY <1>7 DEF GameServerCrash
    <2>2. GameInv'
      BY <2>1 DEF GameInv, GameTypes, VisitsInOrder
    <2>3. QED
      BY <1>0, <2>1, <2>2
  <1>8. ASSUME NEW p \in Deliveries,
               \/ \E e \in reported : Receive(p, e)
               \/ UpsertAndResolve(p) \/ InsertAndCommit(p) \/ Rollback(p)
        PROVE  now' = now /\ UNCHANGED gameVars
    BY <1>8 DEF Receive, UpsertAndResolve, InsertAndCommit, Rollback
  <1>9. ASSUME NEW at \in Restarts, CloseForRestart(at) PROVE now' = now /\ UNCHANGED gameVars
    BY <1>9 DEF CloseForRestart
  <1>10. CASE UNCHANGED vars
    BY <1>0, <1>1, <1>10 DEF vars, gameVars
  <1>11. ASSUME now' = now, UNCHANGED gameVars
         PROVE  GameInv' /\ reported \subseteq reported' /\ now \in Nat /\ now' \in Nat /\ now <= now'
    BY <1>0, <1>1, <1>11 DEF gameVars
  <1>12. QED
    BY <1>2, <1>4, <1>5, <1>6, <1>7, <1>8, <1>9, <1>10, <1>11 DEF Next

-----------------------------------------------------------------------------
\* What one more row does to what the queries see.
LEMMA OneMoreRow ==
  ASSUME NEW log, IsLog(log), NEW e, NEW s
  PROVE  LET new == Append(log, Row(e, s))
             end == Len(log) + 1
         IN  /\ IsLog(new)
             /\ DOMAIN new = DOMAIN log \cup {end} /\ new[end] = Row(e, s)
             /\ new[end].event = e /\ new[end].session = s
             /\ \A n \in DOMAIN log : new[n] = log[n] /\ n # end /\ n < end /\ n \in Nat
             /\ \A f : StoredAs(new, f) = StoredAs(log, f) \cup (IF f = e THEN {s} ELSE {})
             /\ \A t : RowsOf(new, t) = RowsOf(log, t) \cup (IF t = s THEN {end} ELSE {})
             /\ SessionsOf(new) = SessionsOf(log) \cup {s}
             /\ end \in Nat /\ DOMAIN log = 1..Len(log)
  <1> DEFINE new == Append(log, Row(e, s))
             end == Len(log) + 1
  <1>1. /\ IsLog(new)
        /\ Len(log) \in Nat /\ DOMAIN log = 1..Len(log)
        /\ DOMAIN new = DOMAIN log \cup {end} /\ new[end] = Row(e, s)
        /\ \A n \in DOMAIN log : new[n] = log[n] /\ n # end
    BY RowAppended DEF IsLog
  <1>2. \A n \in DOMAIN log : n < end /\ n \in Nat
    BY <1>1
  <1>3. new[end].event = e /\ new[end].session = s
    BY <1>1 DEF Row
  <1> HIDE DEF new, end
  <1>4. \A f : StoredAs(new, f) = StoredAs(log, f) \cup (IF f = e THEN {s} ELSE {})
    BY <1>1, <1>3, Zenon DEF StoredAs
  <1>5. \A t : RowsOf(new, t) = RowsOf(log, t) \cup (IF t = s THEN {end} ELSE {})
    BY <1>1, <1>3 DEF RowsOf
  <1>6. SessionsOf(new) = SessionsOf(log) \cup {s}
    BY <1>1, <1>3 DEF SessionsOf
  <1>7. QED
    BY <1>1, <1>2, <1>3, <1>4, <1>5, <1>6 DEF new, end

LEMMA RowsGrow ==
  ASSUME RowTypes, NEW e, NEW s, rows' = Append(rows, Row(e, s))
  PROVE  LET end == Len(rows) + 1
         IN  /\ IsLog(rows')
             /\ DOMAIN rows' = DOMAIN rows \cup {end} /\ rows'[end] = Row(e, s)
             /\ rows'[end].event = e /\ rows'[end].session = s
             /\ \A n \in DOMAIN rows : rows'[n] = rows[n] /\ n # end /\ n < end /\ n \in Nat
             /\ \A f : StoredAs(rows', f) = StoredAs(rows, f) \cup (IF f = e THEN {s} ELSE {})
             /\ \A t : RowsOf(rows', t) = RowsOf(rows, t) \cup (IF t = s THEN {end} ELSE {})
             /\ SessionsOf(rows') = SessionsOf(rows) \cup {s}
             /\ end \in Nat /\ DOMAIN rows = 1..Len(rows)
  <1>1. IsLog(rows)
    BY DEF RowTypes
  <1> DEFINE new == Append(rows, Row(e, s))
             end == Len(rows) + 1
  <1>2. /\ IsLog(new)
        /\ DOMAIN new = DOMAIN rows \cup {end} /\ new[end] = Row(e, s)
        /\ new[end].event = e /\ new[end].session = s
        /\ \A n \in DOMAIN rows : new[n] = rows[n] /\ n # end /\ n < end /\ n \in Nat
        /\ \A f : StoredAs(new, f) = StoredAs(rows, f) \cup (IF f = e THEN {s} ELSE {})
        /\ \A t : RowsOf(new, t) = RowsOf(rows, t) \cup (IF t = s THEN {end} ELSE {})
        /\ SessionsOf(new) = SessionsOf(rows) \cup {s}
        /\ end \in Nat /\ DOMAIN rows = 1..Len(rows)
    BY ONLY <1>1, OneMoreRow
  <1>3. rows' = new
    OBVIOUS
  <1> HIDE DEF new, end
  <1>4. QED
    BY <1>2, <1>3, Zenon DEF end

\* The exit a restart adds, to the session of a row it finds.
RestartRow(at, s) == Row([status |-> "disconnected", at |-> at, visit |-> 0], s)
Closes(at, n) ==
  /\ rows[n].event.at <= at /\ rows[n].event.at > PreviousRestart(at)
  /\ \A k \in RowsOf(rows, rows[n].session) : rows[k].event.status # "disconnected"

\* The newest row since the restart before is one row: at most one session ends.
LEMMA OneIsNewest ==
  ASSUME NEW log, \A n \in DOMAIN log : n \in Nat /\ log[n].event.at \in Nat, NEW at,
         NEW m \in NewestBefore(log, at), NEW n \in NewestBefore(log, at)
  PROVE  m = n
  <1>1. m \in DOMAIN log /\ n \in DOMAIN log
    BY DEF NewestBefore
  <1>2. m # n =>
          /\ log[m].event.at < log[n].event.at \/ (log[m].event.at = log[n].event.at /\ m < n)
          /\ log[n].event.at < log[m].event.at \/ (log[n].event.at = log[m].event.at /\ n < m)
    BY DEF NewestBefore
  <1>3. QED
    BY <1>1, <1>2

LEMMA RestartAddsAnExit ==
  ASSUME GameTypes, RowTypes, NEW at \in Restarts, CloseForRestart(at)
  PROVE  rows' = rows \/
           \E n \in DOMAIN rows : /\ Closes(at, n)
                                  /\ rows' = Append(rows, RestartRow(at, rows[n].session))
  <1>1. rows' = rows \o SetToSeq({RestartRow(at, s) : s \in EndedByRestart(rows, at)})
    BY DEF CloseForRestart, RestartRow
  <1>2. \A n \in DOMAIN rows : n \in Nat /\ rows[n].event.at \in Nat
    <2>1. DOMAIN rows = 1..Len(rows) /\ Len(rows) \in Nat
      BY OneRow DEF RowTypes, IsLog
    <2>2. now \in Nat
      BY TimeAssumption DEF GameTypes
    <2>3. Restarts \subseteq Nat
      BY TimeAssumption
    <2>4. \A n \in DOMAIN rows : rows[n].event.at \in Nat
      BY <2>2, <2>3 DEF RowTypes, GameTypes, RestartExit
    <2>5. QED
      BY <2>1, <2>4
  <1>3. CASE EndedByRestart(rows, at) = {}
    <2>1. {RestartRow(at, s) : s \in EndedByRestart(rows, at)} = {}
      BY <1>3
    <2>2. rows' = rows \o <<>>
      BY <1>1, <2>1, NoneInSequence
    <2>3. QED
      BY <2>2 DEF RowTypes, IsLog
  <1>4. ASSUME NEW s \in EndedByRestart(rows, at)
        PROVE  \E n \in DOMAIN rows : /\ Closes(at, n)
                                      /\ rows' = Append(rows, RestartRow(at, rows[n].session))
    <2>1. PICK n \in NewestBefore(rows, at) :
            rows[n].session = s /\ rows[n].event.status # "disconnected" /\ ~Has(rows, s, "disconnected")
      BY DEF EndedByRestart
    <2>2. EndedByRestart(rows, at) = {s}
      <3>1. \A m \in NewestBefore(rows, at) : m = n
        BY <1>2, <2>1, OneIsNewest
      <3>2. QED
        BY <2>1, <3>1 DEF EndedByRestart
    <2>3. {RestartRow(at, t) : t \in EndedByRestart(rows, at)} = {RestartRow(at, s)}
      BY <2>2
    <2>4. rows' = rows \o <<RestartRow(at, s)>>
      BY <1>1, <2>3, OneInSequence
    <2>5. rows' = Append(rows, RestartRow(at, s))
      BY <2>4, AppendIsConcat DEF RowTypes, IsLog
    <2>6. n \in DOMAIN rows /\ Closes(at, n)
      BY <2>1 DEF NewestBefore, Closes, Has
    <2>7. QED
      BY <2>1, <2>5, <2>6
  <1>5. QED
    BY <1>3, <1>4

\* A delivery that commits finds no row of its event.
LEMMA CommitAddsARow ==
  ASSUME StoreInv, NEW p \in Deliveries, InsertAndCommit(p)
  PROVE  /\ rows' = Append(rows, Row(store[p].event, store[p].session))
         /\ store[p] # Served /\ store[p].pc = "resolved" /\ Pending(p) /\ Joins(p)
         /\ store' = [store EXCEPT ![p] = Served]
         /\ answered' = answered \cup {<<store[p].event, store[p].session>>}
         /\ UNCHANGED <<now, gameVars, boundary>>
  <1>1. store[p].pc = "resolved"
    BY DEF InsertAndCommit
  <1>2. store[p] # Served
    BY <1>1 DEF Served
  <1>3. QED
    BY <1>1, <1>2 DEF StoreInv, InsertAndCommit, Pending

-----------------------------------------------------------------------------
\* The rows stay what they are; a step adds one, or none.
LEMMA ReportedAreNoExits ==
  ASSUME GameTypes
  PROVE  \A e \in reported : e.visit # 0 /\ e.at \in Nat /\ e.at <= now /\ e.status \in StatusSet
  BY TimeAssumption DEF GameTypes

LEMMA RowsAreEvents ==
  ASSUME GameTypes, RowTypes
  PROVE  \A n \in DOMAIN rows : /\ rows[n].event.status \in StatusSet
                                /\ rows[n].event.at \in Nat /\ rows[n].event.at <= now
                                /\ rows[n].session \in SessionsOf(rows)
                                /\ n \in RowsOf(rows, rows[n].session)
  <1>1. Restarts \subseteq Nat /\ now \in Nat
    BY TimeAssumption DEF GameTypes
  <1>2. ASSUME NEW n \in DOMAIN rows
        PROVE  rows[n].event.status \in StatusSet /\ rows[n].event.at \in Nat /\ rows[n].event.at <= now
    <2>1. CASE rows[n].event \in reported
      BY <2>1, ReportedAreNoExits
    <2>2. CASE RestartExit(rows[n].event, now)
      BY <1>1, <2>2 DEF RestartExit, StatusSet
    <2>3. QED
      BY <2>1, <2>2 DEF RowTypes
  <1>3. QED
    BY <1>2 DEF SessionsOf, RowsOf

\* The same rows, of a game that went on.
LEMMA OldRowsStay ==
  ASSUME GameTypes, GameTypes', RowTypes, reported \subseteq reported', now <= now', now \in Nat,
         now' \in Nat, boundary \in Nat, boundary' \in Nat, boundary <= boundary'
  PROVE  \A n \in DOMAIN rows :
           /\ rows[n].event \in reported' \/ (RestartExit(rows[n].event, now') /\ boundary' # 0)
           /\ rows[n].event \in reported' => rows[n].event \in reported
  <1>1. 0..now \subseteq 0..now'
    OBVIOUS
  <1>2. \A e : RestartExit(e, now) => RestartExit(e, now')
    BY <1>1 DEF RestartExit
  <1>3. \A e \in reported' : e.visit # 0
    BY DEF GameTypes
  <1>4. \A e : RestartExit(e, now) => e.visit = 0
    BY DEF RestartExit
  <1> TAKE n \in DOMAIN rows
  <1>5. rows[n].event \in reported \/ (RestartExit(rows[n].event, now) /\ boundary # 0)
    BY DEF RowTypes
  <1>6. boundary # 0 => boundary' # 0
    OBVIOUS
  <1>7. RestartExit(rows[n].event, now) => RestartExit(rows[n].event, now')
    BY <1>1 DEF RestartExit
  <1>8. QED
    BY <1>3, <1>4, <1>5, <1>6, <1>7

LEMMA SameRowsStayTyped ==
  ASSUME GameTypes, GameTypes', RowTypes, reported \subseteq reported', now <= now', now \in Nat,
         now' \in Nat, boundary \in Nat, boundary' \in Nat, boundary <= boundary', rows' = rows
  PROVE  RowTypes'
  <1>1. \A n \in DOMAIN rows :
          /\ rows[n].event \in reported' \/ (RestartExit(rows[n].event, now') /\ boundary' # 0)
          /\ rows[n].event \in reported' => rows[n].event \in reported
    BY OldRowsStay
  <1>2. \A n \in DOMAIN rows' :
          rows'[n].event \in reported' \/ (RestartExit(rows[n].event, now') /\ boundary' # 0)
    BY <1>1
  <1>3. \A n \in DOMAIN rows' : rows'[n] = Row(rows'[n].event, rows'[n].session)
    BY DEF RowTypes
  <1>4. \A n \in DOMAIN rows' : \E k \in RowsOf(rows', rows'[n].session), p \in Deliveries :
          rows'[k].event \in reported' /\ rows'[n].session = <<rows'[k].event.at, p>>
    BY DEF RowTypes
  <1>5. \A m, n \in DOMAIN rows' :
          rows'[m].event = rows'[n].event /\ rows'[m].event \in reported' => m = n
    BY <1>1 DEF RowTypes
  <1>6. IsLog(rows')
    BY DEF RowTypes
  <1>7. QED
    BY <1>2, <1>3, <1>4, <1>5, <1>6 DEF RowTypes

LEMMA OneMoreRowIsTyped ==
  ASSUME GameTypes, GameTypes', RowTypes, reported' = reported, now' = now, now \in Nat,
         boundary \in Nat, boundary' \in Nat, boundary <= boundary',
         NEW e, NEW s, rows' = Append(rows, Row(e, s)),
         (e \in reported /\ StoredAs(rows, e) = {}) \/ (RestartExit(e, now) /\ boundary' # 0),
         s \in SessionsOf(rows) \/ (e \in reported /\ \E p \in Deliveries : s = <<e.at, p>>)
  PROVE  RowTypes'
  <1> DEFINE end == Len(rows) + 1
  <1>1. /\ IsLog(rows')
        /\ DOMAIN rows' = DOMAIN rows \cup {end} /\ rows'[end] = Row(e, s)
        /\ rows'[end].event = e /\ rows'[end].session = s
        /\ \A n \in DOMAIN rows : rows'[n] = rows[n] /\ n # end
        /\ \A t : RowsOf(rows', t) = RowsOf(rows, t) \cup (IF t = s THEN {end} ELSE {})
    BY RowsGrow
  <1> HIDE DEF end
  <1>2. \A n \in DOMAIN rows :
          /\ rows[n].event \in reported' \/ (RestartExit(rows[n].event, now') /\ boundary' # 0)
          /\ rows[n].event \in reported' => rows[n].event \in reported
    BY OldRowsStay
  <1>3. \A f : RestartExit(f, now') <=> RestartExit(f, now)
    BY DEF RestartExit
  <1>4. \A n \in DOMAIN rows' : rows'[n] = Row(rows'[n].event, rows'[n].session)
    BY <1>1 DEF RowTypes
  <1>5. ASSUME NEW n \in DOMAIN rows'
        PROVE  rows'[n].event \in reported' \/ (RestartExit(rows'[n].event, now') /\ boundary' # 0)
    <2>1. CASE n = end
      <3>1. RestartExit(e, now') <=> RestartExit(e, now)
        BY DEF RestartExit
      <3>2. rows'[n].event = e
        BY <1>1, <2>1
      <3>3. RestartExit(rows'[n].event, now') <=> RestartExit(e, now)
        BY <3>2 DEF RestartExit
      <3>4. QED
        BY <3>2, <3>3
    <2>2. CASE n \in DOMAIN rows
      <3>1. rows'[n] = rows[n]
        BY <1>1, <2>2
      <3>2. RestartExit(rows'[n].event, now') <=> RestartExit(rows[n].event, now')
        BY <3>1 DEF RestartExit
      <3>3. QED
        BY <1>2, <2>2, <3>1, <3>2
    <2>3. QED
      BY <1>1, <2>1, <2>2
  <1>6. ASSUME NEW n \in DOMAIN rows'
        PROVE  \E k \in RowsOf(rows', rows'[n].session), p \in Deliveries :
                 rows'[k].event \in reported' /\ rows'[n].session = <<rows'[k].event.at, p>>
    <2>1. ASSUME NEW m \in DOMAIN rows, rows'[n].session = rows[m].session
          PROVE  \E k \in RowsOf(rows', rows'[n].session), p \in Deliveries :
                   rows'[k].event \in reported' /\ rows'[n].session = <<rows'[k].event.at, p>>
      <3>1. PICK k \in RowsOf(rows, rows[m].session), p \in Deliveries :
              rows[k].event \in reported /\ rows[m].session = <<rows[k].event.at, p>>
        BY DEF RowTypes
      <3>2. k \in RowsOf(rows', rows'[n].session) /\ rows'[k] = rows[k]
        BY <1>1, <2>1, <3>1 DEF RowsOf
      <3>3. QED
        BY <2>1, <3>1, <3>2
    <2>2. CASE n \in DOMAIN rows
      BY <1>1, <2>1, <2>2
    <2>3. CASE n = end
      <3>1. CASE s \in SessionsOf(rows)
        <4>1. PICK m \in DOMAIN rows : rows[m].session = s
          BY <3>1 DEF SessionsOf
        <4>2. QED
          BY <1>1, <2>1, <2>3, <4>1
      <3>2. CASE e \in reported /\ \E p \in Deliveries : s = <<e.at, p>>
        <4>1. end \in RowsOf(rows', rows'[n].session)
          BY <1>1, <2>3
        <4>2. QED
          BY <1>1, <2>3, <3>2, <4>1
      <3>3. QED
        BY <3>1, <3>2
    <2>4. QED
      BY <1>1, <2>2, <2>3
  <1>7. \A n \in DOMAIN rows : e \in reported => rows[n].event # e
    <2>1. e \in reported => StoredAs(rows, e) = {}
      BY DEF RestartExit, GameTypes
    <2>2. QED
      BY <2>1 DEF StoredAs
  <1>8. ASSUME NEW m \in DOMAIN rows', NEW n \in DOMAIN rows',
               rows'[m].event = rows'[n].event, rows'[m].event \in reported'
        PROVE  m = n
    BY <1>1, <1>2, <1>7, <1>8 DEF RowTypes
  <1>9. QED
    BY <1>1, <1>4, <1>5, <1>6, <1>8 DEF RowTypes

-----------------------------------------------------------------------------
\* How long a session may be.
LEMMA WindowFacts ==
  /\ Longest \in Nat /\ VisitMaxAge <= Longest
  /\ VisitMaxAge \in Nat /\ ConnectGrace \in Nat /\ Skew \in Nat /\ Skew < ConnectGrace
  /\ \A at \in Restarts : /\ at \in Nat /\ at >= 1
                          /\ PreviousRestart(at) \in Nat /\ at - PreviousRestart(at) <= Longest
  <1>1. /\ MaxTime \in Nat /\ Restarts \subseteq 1..MaxTime
        /\ VisitMaxAge \in Nat /\ ConnectGrace \in Nat /\ Skew \in Nat /\ Skew < ConnectGrace
    BY TimeAssumption
  <1>2. ASSUME NEW at \in Restarts
        PROVE  PreviousRestart(at) \in 0..MaxTime /\ PreviousRestart(at) < at
    <2> DEFINE before == {r \in Restarts : r < at}
    <2>1. at \in 1..MaxTime
      BY <1>1
    <2>2. CASE before = {}
      BY <1>1, <2>1, <2>2 DEF PreviousRestart
    <2>3. CASE before # {}
      <3>1. \A r \in before : r \in 0..MaxTime /\ r < at
        <4> TAKE r \in before
        <4>1. r \in 1..MaxTime /\ r < at
          BY <1>1
        <4>2. QED
          BY <4>1
      <3>2. PreviousRestart(at) = Max(before)
        BY <2>3 DEF PreviousRestart
      <3> HIDE DEF before
      <3>3. before \in SUBSET (0..MaxTime)
        BY <3>1
      <3>4. Max(before) \in before
        BY <1>1, <2>3, <3>3, MaxIsLargest
      <3>5. QED
        BY <3>1, <3>2, <3>4
    <2>4. QED
      BY <2>2, <2>3
  <1> DEFINE gaps == {0} \cup {at - PreviousRestart(at) : at \in Restarts}
  <1>3. gaps \in SUBSET (0..MaxTime)
    <2>1. \A at \in Restarts : at - PreviousRestart(at) \in 0..MaxTime
      <3> TAKE at \in Restarts
      <3>1. at \in 1..MaxTime /\ PreviousRestart(at) \in 0..MaxTime /\ PreviousRestart(at) < at
        BY <1>1, <1>2
      <3>2. QED
        BY <1>1, <3>1
    <2>2. QED
      BY <1>1, <2>1
  <1>4. /\ LongestRestart \in 0..MaxTime
        /\ \A at \in Restarts : at - PreviousRestart(at) <= LongestRestart
    <2>1. Max(gaps) \in gaps /\ \A j \in gaps : j <= Max(gaps)
      <3>1. 0 \in gaps
        OBVIOUS
      <3> HIDE DEF gaps
      <3>2. QED
        BY <1>1, <1>3, <3>1, MaxIsLargest
    <2>2. LongestRestart = Max(gaps)
      BY DEF LongestRestart
    <2>3. \A at \in Restarts : at - PreviousRestart(at) \in gaps
      OBVIOUS
    <2> HIDE DEF gaps
    <2>4. QED
      BY <1>3, <2>1, <2>2, <2>3
  <1>5. Longest \in Nat /\ VisitMaxAge <= Longest /\ LongestRestart <= Longest
    <2> DEFINE T == {VisitMaxAge, LongestRestart}
    <2>1. T \in SUBSET (0..(VisitMaxAge + MaxTime)) /\ T # {} /\ VisitMaxAge + MaxTime \in Nat
      BY <1>1, <1>4
    <2>2. Max(T) \in T /\ \A j \in T : j <= Max(T)
      <3> HIDE DEF T
      <3>1. QED
        BY <2>1, MaxIsLargest
    <2>3. QED
      BY <1>1, <1>4, <2>2 DEF Longest
  <1>6. \A at \in Restarts : /\ at \in Nat /\ at >= 1
                             /\ PreviousRestart(at) \in Nat /\ at - PreviousRestart(at) <= Longest
    <2> TAKE at \in Restarts
    <2>1. at \in 1..MaxTime /\ PreviousRestart(at) \in 0..MaxTime
      BY <1>1, <1>2
    <2>2. at - PreviousRestart(at) <= LongestRestart /\ LongestRestart \in Nat
      BY <1>4
    <2>3. QED
      BY <1>5, <2>1, <2>2
  <1>7. QED
    BY <1>1, <1>5, <1>6

\* A delivery's row fits the session it joins.
LEMMA CommitKeepsSessions ==
  ASSUME GameTypes, RowTypes, SessionsFit, StoreInv, NEW p \in Deliveries, InsertAndCommit(p)
  PROVE  SessionsFit'
  <1> DEFINE e == store[p].event
             s == store[p].session
             end == Len(rows) + 1
  <1>1. rows' = Append(rows, Row(e, s)) /\ Pending(p) /\ Joins(p)
    BY CommitAddsARow
  <1>2. /\ e \in reported /\ now - e.at <= Skew
        /\ \A n \in RowsOf(rows, s) :
             /\ e.status # "connecting"
             /\ e.status = "connected" =>
                  rows[n].event.status # "connected" /\ e.at - rows[n].event.at < ConnectGrace
             /\ e.at - rows[n].event.at < ConnectGrace + VisitMaxAge
    BY <1>1 DEF Pending, Joins
  <1> HIDE DEF e, s
  <1>3. /\ DOMAIN rows' = DOMAIN rows \cup {end}
        /\ rows'[end].event = e /\ rows'[end].session = s
        /\ \A n \in DOMAIN rows : rows'[n] = rows[n] /\ n # end
    BY <1>1, RowsGrow
  <1> HIDE DEF end
  <1>4. e.at \in Nat /\ e.at <= now /\ e.status \in StatusSet /\ now \in Nat
    BY <1>2, ReportedAreNoExits, TimeAssumption DEF GameTypes
  <1>5. ASSUME NEW n \in DOMAIN rows, rows[n].session = s
        PROVE  Together(rows[n].event, e) /\ Together(e, rows[n].event)
    <2> DEFINE d == rows[n].event
    <2>1. n \in RowsOf(rows, s)
      BY <1>5 DEF RowsOf
    <2>2. d.status \in StatusSet /\ d.at \in Nat /\ d.at <= now
      BY RowsAreEvents
    <2>3. /\ e.status # "connecting"
          /\ e.status = "connected" => d.status # "connected" /\ e.at - d.at < ConnectGrace
          /\ e.at - d.at < ConnectGrace + VisitMaxAge
      BY <1>2, <2>1
    <2> HIDE DEF d
    <2>4. d.at - e.at < ConnectGrace /\ e.at - d.at < ConnectGrace + Longest
          /\ d.at - e.at < ConnectGrace + Longest
      BY <1>2, <1>4, <2>2, <2>3, WindowFacts
    <2>5. Together(d, e) /\ Together(e, d)
      BY <1>4, <2>2, <2>3, <2>4 DEF Together, StatusSet
    <2>6. QED
      BY <2>5 DEF d
  <1>6. QED
    BY <1>3, <1>5 DEF SessionsFit

\* The exit of a restart fits the session it closes.
LEMMA RestartKeepsSessions ==
  ASSUME GameTypes, RowTypes, SessionsFit, NEW at \in Restarts, CloseForRestart(at)
  PROVE  SessionsFit'
  <1>1. CASE rows' = rows
    BY <1>1 DEF SessionsFit
  <1>2. ASSUME NEW n \in DOMAIN rows, Closes(at, n), rows' = Append(rows, RestartRow(at, rows[n].session))
        PROVE  SessionsFit'
    <2> DEFINE r == [status |-> "disconnected", at |-> at, visit |-> 0]
               s == rows[n].session
               end == Len(rows) + 1
    <2>1. r.status = "disconnected" /\ r.at = at
      OBVIOUS
    <2>2. rows' = Append(rows, Row(r, s))
      BY <1>2 DEF RestartRow
    <2>3. /\ rows[n].event.at <= at /\ rows[n].event.at > PreviousRestart(at)
          /\ \A k \in RowsOf(rows, s) : rows[k].event.status # "disconnected"
      BY <1>2 DEF Closes
    <2> HIDE DEF r
    <2>4. /\ DOMAIN rows' = DOMAIN rows \cup {end}
          /\ rows'[end].event = r /\ rows'[end].session = s
          /\ \A k \in DOMAIN rows : rows'[k] = rows[k] /\ k # end
      BY <2>2, RowsGrow
    <2> HIDE DEF end
    <2>5. ASSUME NEW m \in DOMAIN rows, rows[m].session = s
          PROVE  Together(rows[m].event, r) /\ Together(r, rows[m].event)
      <3> DEFINE d == rows[m].event
                 a == rows[n].event.at
      <3>1. d.status # "disconnected" /\ rows[n].event.status # "disconnected"
        BY <2>3, <2>5 DEF RowsOf
      <3>2. d.at \in Nat /\ a \in Nat
        BY RowsAreEvents
      <3>3. /\ at \in Nat /\ PreviousRestart(at) \in Nat /\ at - PreviousRestart(at) <= Longest
            /\ ConnectGrace \in Nat /\ ConnectGrace > 0 /\ Longest \in Nat
        BY WindowFacts
      <3>4. d.at - a < ConnectGrace /\ a - d.at < ConnectGrace
        <4>1. CASE m = n
          BY <3>2, <3>3, <4>1
        <4>2. CASE m # n
          <5>1. Together(rows[m].event, rows[n].event) /\ Together(rows[n].event, rows[m].event)
            BY <2>5, <4>2 DEF SessionsFit
          <5>2. QED
            BY <3>1, <5>1 DEF Together
        <4>3. QED
          BY <4>1, <4>2
      <3> HIDE DEF d
      <3>5. a <= at /\ a > PreviousRestart(at)
        BY <2>3
      <3> HIDE DEF a
      <3>6. at - d.at < ConnectGrace + Longest /\ d.at - at < ConnectGrace + Longest
        BY <3>2, <3>3, <3>4, <3>5
      <3>7. Together(d, r) /\ Together(r, d)
        BY <2>1, <3>1, <3>6 DEF Together
      <3>8. QED
        BY <3>7 DEF d
    <2>6. QED
      BY <2>4, <2>5 DEF SessionsFit
  <1>3. QED
    BY <1>1, <1>2, RestartAddsAnExit

-----------------------------------------------------------------------------
\* What findOpenSession's query returns.
LEMMA NewestRow ==
  ASSUME GameTypes, RowTypes, NEW s \in SessionsOf(rows)
  PROVE  /\ \E k \in RowsOf(rows, s) : rows[k].event.at = NewestAt(rows, s)
         /\ \A n \in RowsOf(rows, s) : rows[n].event.at <= NewestAt(rows, s)
         /\ NewestAt(rows, s) \in 0..now
         /\ RowsOf(rows, s) # {} /\ RowsOf(rows, s) \subseteq DOMAIN rows
         /\ Max(RowsOf(rows, s)) \in RowsOf(rows, s)
         /\ RowsOf(rows, s) \in SUBSET (0..Len(rows)) /\ Len(rows) \in Nat
  <1> DEFINE T == {rows[n].event.at : n \in RowsOf(rows, s)}
  <1>1. now \in Nat
    BY TimeAssumption DEF GameTypes
  <1>2. RowsOf(rows, s) \subseteq DOMAIN rows /\ RowsOf(rows, s) # {}
    BY DEF RowsOf, SessionsOf
  <1>3. \A n \in RowsOf(rows, s) : rows[n].event.at \in 0..now
    BY <1>1, <1>2, RowsAreEvents
  <1>4. T \in SUBSET (0..now) /\ T # {}
    BY <1>2, <1>3
  <1>5. NewestAt(rows, s) = Max(T)
    BY DEF NewestAt
  <1>6. \A n \in RowsOf(rows, s) : rows[n].event.at \in T
    OBVIOUS
  <1>7. \A a \in T : \E k \in RowsOf(rows, s) : rows[k].event.at = a
    OBVIOUS
  <1> HIDE DEF T
  <1>8. Max(T) \in T /\ \A j \in T : j <= Max(T)
    BY <1>1, <1>4, MaxIsLargest
  <1>9. RowsOf(rows, s) \in SUBSET (0..Len(rows)) /\ Len(rows) \in Nat
    <2>1. DOMAIN rows = 1..Len(rows) /\ Len(rows) \in Nat
      BY OneRow DEF RowTypes, IsLog
    <2>2. QED
      BY <1>2, <2>1
  <1>10. Max(RowsOf(rows, s)) \in RowsOf(rows, s)
    BY <1>2, <1>9, MaxIsLargest
  <1>11. QED
    BY <1>2, <1>4, <1>5, <1>6, <1>7, <1>8, <1>9, <1>10

LEMMA MostRecentIsOne ==
  ASSUME GameTypes, RowTypes, NEW S \in SUBSET SessionsOf(rows), S # {}
  PROVE  /\ MostRecent(rows, S) \in S
         /\ \A t \in S : NewestAt(rows, t) <= NewestAt(rows, MostRecent(rows, S))
  <1> DEFINE ats == {NewestAt(rows, s) : s \in S}
  <1>1. \A s \in S : NewestAt(rows, s) \in 0..now
    BY NewestRow
  <1>2. PICK s1 \in S : \A t \in S : NewestAt(rows, t) <= NewestAt(rows, s1)
    <2>1. ats \in SUBSET (0..now) /\ ats # {} /\ now \in Nat
      BY <1>1, TimeAssumption DEF GameTypes
    <2>2. \A s \in S : NewestAt(rows, s) \in ats
      OBVIOUS
    <2>3. \A a \in ats : \E s \in S : NewestAt(rows, s) = a
      OBVIOUS
    <2> HIDE DEF ats
    <2>4. PICK a \in ats : \A b \in ats : b <= a
      BY <2>1, NoEndlessClimb
    <2>5. QED
      BY <2>2, <2>3, <2>4
  <1> DEFINE T == {s \in S : NewestAt(rows, s) = NewestAt(rows, s1)}
             ends == {Max(RowsOf(rows, s)) : s \in T}
  <1>3. PICK s2 \in T : \A t \in T : Max(RowsOf(rows, t)) <= Max(RowsOf(rows, s2))
    <2>1. \A s \in T : Max(RowsOf(rows, s)) \in 0..Len(rows) /\ Len(rows) \in Nat
      BY NewestRow
    <2>2. s1 \in T
      OBVIOUS
    <2>3. ends \in SUBSET (0..Len(rows)) /\ ends # {} /\ Len(rows) \in Nat
      BY <2>1, <2>2
    <2>4. \A s \in T : Max(RowsOf(rows, s)) \in ends
      OBVIOUS
    <2>5. \A a \in ends : \E s \in T : Max(RowsOf(rows, s)) = a
      OBVIOUS
    <2> HIDE DEF ends
    <2>6. PICK a \in ends : \A b \in ends : b <= a
      BY <2>3, NoEndlessClimb
    <2>7. QED
      BY <2>4, <2>5, <2>6
  <1> DEFINE IsMostRecent(s) ==
        \A t \in S \ {s} :
          \/ NewestAt(rows, s) > NewestAt(rows, t)
          \/ NewestAt(rows, s) = NewestAt(rows, t) /\ Max(RowsOf(rows, s)) > Max(RowsOf(rows, t))
  <1>4. IsMostRecent(s2)
    <2> TAKE t \in S \ {s2}
    <2>1. CASE NewestAt(rows, t) = NewestAt(rows, s1)
      <3>1. t \in T /\ Max(RowsOf(rows, t)) <= Max(RowsOf(rows, s2))
        BY <1>3, <2>1
      <3>2. Max(RowsOf(rows, t)) \in RowsOf(rows, t) /\ Max(RowsOf(rows, s2)) \in RowsOf(rows, s2)
        BY NewestRow
      <3>3. Max(RowsOf(rows, t)) # Max(RowsOf(rows, s2))
        BY <3>2 DEF RowsOf
      <3>4. Max(RowsOf(rows, t)) \in Int /\ Max(RowsOf(rows, s2)) \in Int
        <4>1. \A s \in S : Max(RowsOf(rows, s)) \in 0..Len(rows)
          BY NewestRow
        <4>2. QED
          BY <4>1
      <3>5. Max(RowsOf(rows, s2)) > Max(RowsOf(rows, t))
        BY <3>1, <3>3, <3>4
      <3>6. QED
        BY <2>1, <3>5
    <2>2. CASE NewestAt(rows, t) # NewestAt(rows, s1)
      BY <1>1, <1>2, <2>2
    <2>3. QED
      BY <2>1, <2>2
  <1>5. s2 \in S
    OBVIOUS
  <1>6. MostRecent(rows, S) = CHOOSE s \in S : IsMostRecent(s)
    BY DEF MostRecent
  <1>7. MostRecent(rows, S) \in S /\ IsMostRecent(MostRecent(rows, S))
    <2> HIDE DEF IsMostRecent
    <2>1. QED
      BY <1>4, <1>5, <1>6
  <1>8. \A t \in S : NewestAt(rows, t) <= NewestAt(rows, MostRecent(rows, S))
    BY <1>1, <1>7
  <1>9. QED
    BY <1>7, <1>8

\* A session that may be joined: its rows are of the events that come before.
LEMMA JoinableFits ==
  ASSUME GameTypes, RowTypes, SessionsFit, NEW e \in reported, e.status # "connecting",
         NEW s \in Joinable(rows, e), NEW n \in RowsOf(rows, s)
  PROVE  /\ e.status = "connected" =>
              rows[n].event.status # "connected" /\ e.at - rows[n].event.at < ConnectGrace
         /\ e.at - rows[n].event.at < ConnectGrace + VisitMaxAge
  <1>1. /\ s \in SessionsOf(rows) /\ ~Has(rows, s, "disconnected")
        /\ e.status = "connected" => ~Has(rows, s, "connected")
        /\ NewestAt(rows, s) > e.at - (IF e.status = "connected" THEN ConnectGrace ELSE VisitMaxAge)
    BY DEF Joinable
  <1>2. PICK k \in RowsOf(rows, s) : rows[k].event.at = NewestAt(rows, s)
    BY <1>1, NewestRow
  <1>3. /\ n \in DOMAIN rows /\ k \in DOMAIN rows
        /\ rows[n].session = s /\ rows[k].session = s
        /\ rows[n].event.status # "disconnected" /\ rows[k].event.status # "disconnected"
        /\ e.status = "connected" =>
             rows[n].event.status # "connected" /\ rows[k].event.status # "connected"
    BY <1>1, <1>2 DEF RowsOf, Has
  <1> DEFINE d == rows[n].event
             c == rows[k].event
  <1>4. /\ d.status \in StatusSet /\ d.at \in Nat /\ c.status \in StatusSet /\ c.at \in Nat
        /\ e.at \in Nat /\ ConnectGrace \in Nat /\ VisitMaxAge \in Nat /\ ConnectGrace > 0
    BY <1>3, RowsAreEvents, ReportedAreNoExits, WindowFacts
  <1>5. n # k => Together(d, c)
    BY <1>3 DEF SessionsFit
  <1>6. c.at - d.at < ConnectGrace
    BY <1>3, <1>4, <1>5 DEF Together
  <1>7. e.status = "connected" => d.at = c.at
    <2>1. e.status = "connected" => d.status = "connecting" /\ c.status = "connecting"
      BY <1>3, <1>4 DEF StatusSet
    <2>2. QED
      BY <1>5, <2>1 DEF Together
  <1>8. c.at > e.at - (IF e.status = "connected" THEN ConnectGrace ELSE VisitMaxAge)
    BY <1>1, <1>2
  <1>9. d.status # "connected" \/ e.status # "connected"
    BY <1>3
  <1> HIDE DEF d, c
  <1>10. /\ e.status = "connected" => e.at - d.at < ConnectGrace
         /\ e.at - d.at < ConnectGrace + VisitMaxAge
    BY <1>4, <1>6, <1>7, <1>8
  <1>11. QED
    BY <1>9, <1>10 DEF d

\* The session a delivery gets is a new one, or one it may join.
LEMMA FreshIsNew ==
  ASSUME GameTypes, RowTypes, NEW e \in reported, StoredAs(rows, e) = {}, NEW p
  PROVE  RowsOf(rows, <<e.at, p>>) = {} /\ <<e.at, p>> \notin SessionsOf(rows)
  <1>1. SUFFICES ASSUME NEW n \in DOMAIN rows, rows[n].session = <<e.at, p>> PROVE FALSE
    BY DEF RowsOf, SessionsOf
  <1>2. PICK k \in RowsOf(rows, rows[n].session), q \in Deliveries :
          rows[k].event \in reported /\ rows[n].session = <<rows[k].event.at, q>>
    BY DEF RowTypes
  <1>3. rows[k].event.at = e.at
    BY <1>1, <1>2
  <1>4. rows[k].event = e
    BY <1>2, <1>3 DEF GameTypes
  <1>5. k \in DOMAIN rows
    BY <1>2 DEF RowsOf
  <1>6. QED
    BY <1>4, <1>5 DEF StoredAs

LEMMA ResolvedJoins ==
  ASSUME GameTypes, RowTypes, SessionsFit, StoreInv, NEW p \in Deliveries, UpsertAndResolve(p)
  PROVE  /\ Joins(p)'
         /\ store' = [store EXCEPT ![p] =
              [pc |-> "resolved", event |-> store[p].event,
               session |-> Resolve(rows, store[p].event, <<store[p].event.at, p>>)]]
         /\ Pending(p) /\ store[p] # Served
         /\ UNCHANGED <<now, gameVars, rows, answered, boundary>>
  <1> DEFINE e == store[p].event
             s == Resolve(rows, e, <<e.at, p>>)
  <1>1. /\ store[p].pc = "new" /\ \A q \in Deliveries : store[q].pc # "resolved"
        /\ store' = [store EXCEPT ![p] = [pc |-> "resolved", event |-> e, session |-> s]]
        /\ UNCHANGED <<now, gameVars, rows, answered, boundary>>
    BY DEF UpsertAndResolve
  <1>2. store[p] # Served /\ Pending(p) /\ DOMAIN store = Deliveries
    BY <1>1 DEF StoreInv, Served
  <1>3. e \in reported /\ StoredAs(rows, e) = {}
    BY <1>2 DEF Pending
  <1>4. /\ store'[p].event = e /\ store'[p].session = s
        /\ \A q \in Deliveries \ {p} : store'[q] = store[q]
    BY <1>1, <1>2
  <1> HIDE DEF e
  <1>5. CASE e.status = "connecting" \/ Joinable(rows, e) = {}
    <2>1. s = <<e.at, p>> /\ RowsOf(rows, s) = {}
      BY <1>3, <1>5, FreshIsNew DEF Resolve
    <2> HIDE DEF s
    <2>2. Joins(p)'
      BY <1>1, <1>4, <2>1 DEF Joins
    <2>3. QED
      BY <1>1, <1>2, <2>2 DEF e, s
  <1>6. CASE e.status # "connecting" /\ Joinable(rows, e) # {}
    <2>1. s = MostRecent(rows, Joinable(rows, e)) /\ Joinable(rows, e) \in SUBSET SessionsOf(rows)
      BY <1>6 DEF Resolve, Joinable
    <2>2. s \in Joinable(rows, e) /\ s \in SessionsOf(rows)
      BY <1>6, <2>1, MostRecentIsOne
    <2> HIDE DEF s
    <2>3. \A n \in RowsOf(rows, s) :
            /\ e.status # "connecting"
            /\ e.status = "connected" =>
                 rows[n].event.status # "connected" /\ e.at - rows[n].event.at < ConnectGrace
            /\ e.at - rows[n].event.at < ConnectGrace + VisitMaxAge
      BY <1>3, <1>6, <2>2, JoinableFits
    <2>4. Joins(p)'
      BY <1>1, <1>4, <2>2, <2>3 DEF Joins
    <2>5. QED
      BY <1>1, <1>2, <2>4 DEF e, s
  <1>7. QED
    BY <1>5, <1>6

\* A delivery that is not served in a step waits as it did.
LEMMA OthersWait ==
  ASSUME NEW p \in Deliveries, Pending(p), reported \subseteq reported', now' = now,
         store'[p].event = store[p].event,
         StoredAs(rows', store[p].event) = StoredAs(rows, store[p].event),
         \A q \in Deliveries \ {p} :
           store'[q] = store[q] \/ store'[q] = Served \/ store'[q].event # store[p].event
  PROVE  Pending(p)'
  BY DEF Pending

LEMMA SameRowsSameStore ==
  ASSUME StoreInv, store' = store, rows' = rows, reported \subseteq reported',
         now' = now \/ \A p \in Deliveries : store[p] = Served
  PROVE  StoreInv'
  <1>1. DOMAIN store' = Deliveries
    BY DEF StoreInv
  <1>2. ASSUME NEW p \in Deliveries
        PROVE  /\ \/ store'[p] = Served
                  \/ store'[p] = [pc |-> "new", event |-> store'[p].event]
                  \/ store'[p] = [pc |-> "resolved", event |-> store'[p].event,
                                  session |-> store'[p].session]
               /\ store'[p] # Served => Pending(p)'
               /\ store'[p].pc = "resolved" => Joins(p)'
    <2>1. /\ \/ store[p] = Served
             \/ store[p] = [pc |-> "new", event |-> store[p].event]
             \/ store[p] = [pc |-> "resolved", event |-> store[p].event, session |-> store[p].session]
          /\ store[p] # Served => Pending(p)
          /\ store[p].pc = "resolved" => Joins(p)
      BY DEF StoreInv
    <2>2. Pending(p) /\ now' = now => Pending(p)'
      BY DEF Pending
    <2>3. Joins(p) => Joins(p)'
      BY DEF Joins
    <2>4. QED
      BY <2>1, <2>2, <2>3
  <1>3. QED
    BY <1>1, <1>2 DEF StoreInv

\* One delivery is served in a step; the others wait as they did.
StoreFits(p) ==
  /\ \/ store[p] = Served
     \/ store[p] = [pc |-> "new", event |-> store[p].event]
     \/ store[p] = [pc |-> "resolved", event |-> store[p].event, session |-> store[p].session]
  /\ store[p] # Served => Pending(p)
  /\ store[p].pc = "resolved" => Joins(p)

LEMMA ServedFits ==
  ASSUME NEW p, store[p] = Served
  PROVE  StoreFits(p)
  BY DEF StoreFits, Served

LEMMA RestFits ==
  ASSUME StoreInv, NEW p \in Deliveries, NEW w, store' = [store EXCEPT ![p] = w],
         reported' = reported, now' = now,
         StoreFits(p)',
         w = Served \/ \A q \in Deliveries \ {p} : store[q] # Served => store[q].event # w.event,
         \A q \in Deliveries \ {p} : store[q] # Served =>
           StoredAs(rows', store[q].event) = StoredAs(rows, store[q].event),
         \A q \in Deliveries \ {p} : store[q].pc = "resolved" => rows' = rows /\ w.pc # "resolved"
  PROVE  StoreInv'
  <1>1. DOMAIN store' = Deliveries /\ \A q \in Deliveries \ {p} : store'[q] = store[q]
    BY DEF StoreInv
  <1>2. store'[p] = w
    BY DEF StoreInv
  <1>3. ASSUME NEW q \in Deliveries \ {p} PROVE StoreFits(q)'
    <2>1. StoreFits(q)
      BY DEF StoreInv, StoreFits
    <2>2. CASE store[q] = Served
      BY <1>1, <2>2 DEF StoreFits, Served
    <2>3. CASE store[q] # Served
      <3>1. Pending(q)'
        <4>1. Pending(q) /\ store'[q] = store[q]
          BY <1>1, <2>1, <2>3 DEF StoreFits
        <4>2. \A r \in Deliveries \ {q} :
                store'[r] = store[r] \/ store'[r] = Served \/ store'[r].event # store[q].event
          BY <1>1, <1>2, <2>3
        <4>3. QED
          BY <2>3, <4>1, <4>2, OthersWait
      <3>2. store[q].pc = "resolved" => Joins(q)'
        <4>1. SUFFICES ASSUME store[q].pc = "resolved" PROVE Joins(q)'
          OBVIOUS
        <4>2. Joins(q) /\ rows' = rows /\ store'[q] = store[q] /\ w.pc # "resolved"
          BY <1>1, <2>1, <4>1 DEF StoreFits
        <4>3. \A r \in Deliveries \ {q} : store'[r].pc # "resolved"
          BY <1>1, <1>2, <4>2 DEF Joins
        <4>4. QED
          BY <4>2, <4>3 DEF Joins
      <3>3. QED
        BY <1>1, <2>1, <2>3, <3>1, <3>2 DEF StoreFits
    <2>4. QED
      BY <2>2, <2>3
  <1>4. \A q \in Deliveries : StoreFits(q)'
    BY <1>3
  <1>5. QED
    BY <1>1, <1>4 DEF StoreInv, StoreFits

LEMMA RollbackKeepsStore ==
  ASSUME StoreInv, NEW p \in Deliveries, Rollback(p)
  PROVE  StoreInv'
  <1>1. store' = [store EXCEPT ![p] = Served] /\ rows' = rows /\ now' = now /\ reported' = reported
    BY DEF Rollback, gameVars
  <1>2. store'[p] = Served /\ Served.pc # "resolved"
    BY <1>1 DEF StoreInv, Served
  <1>3. StoreFits(p)'
    BY <1>2, ServedFits DEF StoreFits, Served
  <1>4. QED
    BY <1>1, <1>2, <1>3, RestFits

LEMMA ResolveKeepsStore ==
  ASSUME GameTypes, RowTypes, SessionsFit, StoreInv, NEW p \in Deliveries, UpsertAndResolve(p)
  PROVE  StoreInv'
  <1> DEFINE w == [pc |-> "resolved", event |-> store[p].event,
                   session |-> Resolve(rows, store[p].event, <<store[p].event.at, p>>)]
  <1>1. /\ Joins(p)' /\ Pending(p) /\ store' = [store EXCEPT ![p] = w]
        /\ UNCHANGED <<now, gameVars, rows, answered, boundary>>
        /\ DOMAIN store = Deliveries /\ store[p] # Served
    BY ResolvedJoins DEF StoreInv
  <1>2. store'[p] = w /\ w.event = store[p].event
    BY <1>1
  <1>3. w = [pc |-> "resolved", event |-> w.event, session |-> w.session] /\ w.pc = "resolved"
    OBVIOUS
  <1> HIDE DEF w
  <1>4. \A q \in Deliveries \ {p} : store'[q] = store[q]
    BY <1>1
  <1>5. Pending(p)'
    BY <1>1, <1>2, <1>4 DEF Pending, gameVars
  <1>6. StoreFits(p)'
    BY <1>1, <1>2, <1>3, <1>5 DEF StoreFits
  <1>7. \A q \in Deliveries \ {p} : store[q] # Served => store[q].event # w.event
    BY <1>1, <1>2 DEF Pending
  <1>8. \A q \in Deliveries \ {p} : store[q].pc # "resolved"
    BY DEF UpsertAndResolve
  <1>9. QED
    BY <1>1, <1>6, <1>7, <1>8, RestFits DEF gameVars

\* Nothing is stored that has expired.
LEMMA ExpiredIsRefused ==
  Outcome(Body, {"expired"}) = "expired"
  <1> DEFINE wrong == {n \in 1..Len(Body) : Body[n] \in {"expired"}}
  <1>1. Len(Body) = 6 /\ DOMAIN Body = 1..6
    BY DEF Body
  <1>2. /\ Body[1] # "expired" /\ Body[2] # "expired" /\ Body[3] # "expired"
        /\ Body[4] # "expired" /\ Body[5] = "expired" /\ Body[6] # "expired"
    BY DEF Body
  <1>3. \A n \in 1..6 : n = 1 \/ n = 2 \/ n = 3 \/ n = 4 \/ n = 5 \/ n = 6
    OBVIOUS
  <1>4. wrong = {5}
    <2>1. \A n : n \in wrong <=> n = 5
      BY <1>1, <1>2, <1>3
    <2> HIDE DEF wrong
    <2>2. QED
      BY <2>1
  <1>5. Min(wrong) = 5
    BY <1>4 DEF Min
  <1>6. SelectInSeq(Body, LAMBDA c : c \in {"expired"}) = 5
    <2>1. SelectInSeq(Body, LAMBDA c : c \in {"expired"}) = IF wrong # {} THEN Min(wrong) ELSE 0
      BY Zenon DEF SelectInSeq
    <2> HIDE DEF wrong
    <2>2. QED
      BY <1>4, <1>5, <2>1
  <1>7. FirstFlaw(Body, {"expired"}) = 5
    <2>1. \E n \in DOMAIN Body : Body[n] \in {"expired"}
      BY <1>1, <1>2
    <2>2. QED
      BY <1>6, <2>1, Zenon DEF FirstFlaw
  <1>8. QED
    BY <1>2, <1>7 DEF Outcome

LEMMA ReceiveKeepsStore ==
  ASSUME StoreInv, NEW p \in Deliveries, NEW e \in reported, now \in Nat, e.at \in Nat, Receive(p, e)
  PROVE  StoreInv'
  <1>1. /\ \A q \in Deliveries : store[q] # Served => store[q].event # e
        /\ UNCHANGED <<now, gameVars, rows, boundary>>
        /\ Outcome(Body, FlawsOf(e)) = "store"
    BY DEF Receive
  <1>2. CASE store' = store
    BY <1>1, <1>2, SameRowsSameStore DEF gameVars
  <1>3. CASE StoredAs(rows, e) = {} /\ store' = [store EXCEPT ![p] = [pc |-> "new", event |-> e]]
    <2>1. store'[p] = [pc |-> "new", event |-> e] /\ \A q \in Deliveries \ {p} : store'[q] = store[q]
      BY <1>3 DEF StoreInv
    <2>2. now - e.at <= Skew
      <3>1. Fresh(e.at, now, Skew)
        <4>1. SUFFICES ASSUME ~Fresh(e.at, now, Skew) PROVE FALSE
          OBVIOUS
        <4>2. FlawsOf(e) = {"expired"}
          BY <4>1 DEF FlawsOf
        <4>3. Outcome(Body, {"expired"}) = "expired"
          BY ExpiredIsRefused
        <4>4. QED
          BY <1>1, <4>2, <4>3
      <3>2. QED
        BY <3>1, TimeAssumption DEF Fresh
    <2>3. Pending(p)'
      BY <1>1, <1>3, <2>1, <2>2 DEF Pending, gameVars
    <2>4. StoreFits(p)'
      BY <2>1, <2>3 DEF StoreFits
    <2> DEFINE w == [pc |-> "new", event |-> e]
    <2>5. w.event = e /\ w.pc # "resolved" /\ store' = [store EXCEPT ![p] = w]
      BY <1>3
    <2> HIDE DEF w
    <2>6. reported' = reported /\ now' = now /\ rows' = rows
      BY <1>1 DEF gameVars
    <2>7. QED
      BY <1>1, <2>4, <2>5, <2>6, RestFits
  <1>4. QED
    BY <1>2, <1>3 DEF Receive

LEMMA CommitKeepsStore ==
  ASSUME RowTypes, StoreInv, NEW p \in Deliveries, InsertAndCommit(p)
  PROVE  StoreInv'
  <1>1. /\ rows' = Append(rows, Row(store[p].event, store[p].session))
        /\ Pending(p) /\ Joins(p) /\ store[p] # Served
        /\ store' = [store EXCEPT ![p] = Served]
        /\ reported' = reported /\ now' = now
    BY CommitAddsARow DEF gameVars
  <1>2. store'[p] = Served /\ Served.pc # "resolved"
    BY <1>1 DEF StoreInv, Served
  <1>3. StoreFits(p)'
    BY <1>2, ServedFits DEF StoreFits, Served
  <1>4. \A q \in Deliveries \ {p} : store[q] # Served => store[q].event # store[p].event
    BY <1>1 DEF Pending
  <1>5. \A q \in Deliveries \ {p} : store[q] # Served =>
          StoredAs(rows', store[q].event) = StoredAs(rows, store[q].event)
    <2> DEFINE e == store[p].event
               s == store[p].session
    <2>1. rows' = Append(rows, Row(e, s)) /\ \A q \in Deliveries \ {p} : store[q] # Served => store[q].event # e
      BY <1>1, <1>4
    <2> HIDE DEF e, s
    <2>2. \A f : StoredAs(rows', f) = StoredAs(rows, f) \cup (IF f = e THEN {s} ELSE {})
      BY <2>1, RowsGrow
    <2>3. QED
      BY <2>1, <2>2
  <1>6. \A q \in Deliveries \ {p} : store[q].pc # "resolved"
    BY <1>1 DEF Joins
  <1> DEFINE w == Served
  <1>7. /\ store' = [store EXCEPT ![p] = w] /\ w = Served
        /\ \A q \in Deliveries \ {p} : store[q].pc = "resolved" => rows' = rows /\ w.pc # "resolved"
    BY <1>1, <1>6
  <1> HIDE DEF w
  <1>8. QED
    BY ONLY p \in Deliveries, StoreInv, <1>1, <1>3, <1>5, <1>7, RestFits

\* The exit of a restart is no delivery's event, and comes after a row of the
\* session it closes: a delivery that joins the session still fits.
LEMMA RestartKeepsStore ==
  ASSUME GameTypes, RowTypes, StoreInv, NEW at \in Restarts, CloseForRestart(at)
  PROVE  StoreInv'
  <1>0. store' = store /\ UNCHANGED gameVars /\ now' = now
    BY DEF CloseForRestart
  <1>1. CASE rows' = rows
    BY <1>0, <1>1, SameRowsSameStore DEF gameVars
  <1>2. ASSUME NEW n \in DOMAIN rows, Closes(at, n), rows' = Append(rows, RestartRow(at, rows[n].session))
        PROVE  StoreInv'
    <2> DEFINE r == [status |-> "disconnected", at |-> at, visit |-> 0]
               s == rows[n].session
               end == Len(rows) + 1
    <2>1. r.status = "disconnected" /\ r.at = at /\ r \notin reported
      <3>1. r.visit = 0
        OBVIOUS
      <3>2. QED
        BY <3>1, ReportedAreNoExits
    <2>2. rows' = Append(rows, Row(r, s))
      BY <1>2 DEF RestartRow
    <2>3. rows[n].event.at <= at /\ n \in RowsOf(rows, s)
      BY <1>2 DEF Closes, RowsOf
    <2> HIDE DEF r, s
    <2>4. /\ DOMAIN rows' = DOMAIN rows \cup {end}
          /\ rows'[end].event = r /\ rows'[end].session = s
          /\ \A k \in DOMAIN rows : rows'[k] = rows[k] /\ k # end
          /\ \A f : StoredAs(rows', f) = StoredAs(rows, f) \cup (IF f = r THEN {s} ELSE {})
          /\ \A t : RowsOf(rows', t) = RowsOf(rows, t) \cup (IF t = s THEN {end} ELSE {})
          /\ SessionsOf(rows') = SessionsOf(rows) \cup {s}
      BY <2>2, RowsGrow
    <2> HIDE DEF end
    <2>5. ASSUME NEW p \in Deliveries PROVE StoreFits(p)'
      <3>1. StoreFits(p) /\ store'[p] = store[p]
        BY <1>0 DEF StoreInv, StoreFits
      <3>2. store[p] # Served => Pending(p)'
        <4>1. SUFFICES ASSUME store[p] # Served PROVE Pending(p)'
          OBVIOUS
        <4>2. Pending(p)
          BY <3>1, <4>1 DEF StoreFits
        <4>3. StoredAs(rows', store[p].event) = StoredAs(rows, store[p].event)
          BY <2>1, <2>4, <4>2 DEF Pending
        <4>4. QED
          BY <1>0, <4>2, <4>3, OthersWait DEF gameVars
      <3>3. store[p].pc = "resolved" => Joins(p)'
        <4>1. SUFFICES ASSUME store[p].pc = "resolved" PROVE Joins(p)'
          OBVIOUS
        <4> DEFINE e == store[p].event
                   t == store[p].session
        <4>2. Joins(p)
          BY <3>1, <4>1 DEF StoreFits
        <4>3. /\ t = <<e.at, p>> \/ t \in SessionsOf(rows)
              /\ \A k \in RowsOf(rows, t) :
                   /\ e.status # "connecting"
                   /\ e.status = "connected" =>
                        rows[k].event.status # "connected" /\ e.at - rows[k].event.at < ConnectGrace
                   /\ e.at - rows[k].event.at < ConnectGrace + VisitMaxAge
              /\ \A q \in Deliveries \ {p} : store[q].pc # "resolved"
          BY <4>2 DEF Joins
        <4>4. e \in reported
          <5>1. store[p] # Served
            BY <4>1 DEF Served
          <5>2. QED
            BY <3>1, <5>1 DEF StoreFits, Pending
        <4> HIDE DEF e, t
        <4>5. \A k \in RowsOf(rows, t) : k \in DOMAIN rows
          BY DEF RowsOf
        <4>6. t = s => /\ e.status # "connecting"
                       /\ e.status = "connected" => e.at - at < ConnectGrace
                       /\ e.at - at < ConnectGrace + VisitMaxAge
          <5>1. SUFFICES ASSUME t = s PROVE /\ e.status # "connecting"
                                            /\ e.status = "connected" => e.at - at < ConnectGrace
                                            /\ e.at - at < ConnectGrace + VisitMaxAge
            OBVIOUS
          <5>2. /\ e.status # "connecting"
                /\ e.status = "connected" => e.at - rows[n].event.at < ConnectGrace
                /\ e.at - rows[n].event.at < ConnectGrace + VisitMaxAge
            BY <2>3, <4>3, <5>1
          <5>3. rows[n].event.at \in Nat /\ at \in Nat /\ e.at \in Nat /\ rows[n].event.at <= at
                /\ ConnectGrace \in Nat /\ VisitMaxAge \in Nat
            BY <2>3, <4>4, RowsAreEvents, ReportedAreNoExits, WindowFacts
          <5>4. QED
            BY <5>2, <5>3
        <4>7. \A k \in RowsOf(rows', t) :
                /\ e.status # "connecting"
                /\ e.status = "connected" =>
                     rows'[k].event.status # "connected" /\ e.at - rows'[k].event.at < ConnectGrace
                /\ e.at - rows'[k].event.at < ConnectGrace + VisitMaxAge
          <5> TAKE k \in RowsOf(rows', t)
          <5>1. k \in RowsOf(rows, t) \/ (t = s /\ k = end)
            BY <2>4
          <5>2. CASE k \in RowsOf(rows, t)
            BY <2>4, <4>3, <4>5, <5>2
          <5>3. CASE t = s /\ k = end
            BY <2>1, <2>4, <4>6, <5>3
          <5>4. QED
            BY <5>1, <5>2, <5>3
        <4>8. store'[p].event = e /\ store'[p].session = t
          BY <3>1 DEF e, t
        <4>9. /\ t = <<e.at, p>> \/ t \in SessionsOf(rows')
              /\ \A q \in Deliveries \ {p} : store'[q].pc # "resolved"
          BY <1>0, <2>4, <4>3
        <4>10. QED
          BY <4>7, <4>8, <4>9 DEF Joins
      <3>4. QED
        BY <1>0, <3>1, <3>2, <3>3 DEF StoreFits
    <2>6. DOMAIN store' = Deliveries
      BY <1>0 DEF StoreInv
    <2>7. QED
      BY <2>5, <2>6 DEF StoreInv, StoreFits
  <1>3. QED
    BY <1>1, <1>2, RestartAddsAnExit

-----------------------------------------------------------------------------
\* An answer names the session its event's row is in, and stays true.
LEMMA AnswersStayTrue ==
  ASSUME GameTypes, RowTypes, StoreInv, AnswerInv, GameTypes', reported \subseteq reported', [Next]_vars
  PROVE  AnswerInv'
  <1>1. ASSUME answered' = answered, rows' = rows PROVE AnswerInv'
    BY <1>1 DEF AnswerInv
  <1>2. CASE Tick
    BY <1>1, <1>2 DEF Tick
  <1>3. CASE Connecting \/ Connected \/ Disconnected \/ GameServerCrash
    BY <1>1, <1>3 DEF Connecting, Connected, Disconnected, Report, GameServerCrash
  <1>4. ASSUME NEW p \in Deliveries, NEW e \in reported, Receive(p, e) PROVE AnswerInv'
    <2>1. rows' = rows /\ reported' = reported
      BY <1>4 DEF Receive, gameVars
    <2>2. CASE answered' = answered
      BY <1>1, <2>1, <2>2
    <2>3. CASE StoredAs(rows, e) # {} /\ answered' = answered \cup {<<e, s>> : s \in StoredAs(rows, e)}
      <3>1. \A s, t \in StoredAs(rows, e) : s = t
        BY DEF StoredAs, RowTypes
      <3>2. \A s \in StoredAs(rows, e) : StoredAs(rows, e) = {s}
        BY <3>1
      <3>3. QED
        BY <2>1, <2>3, <3>2 DEF AnswerInv
    <2>4. QED
      BY <1>4, <2>2, <2>3 DEF Receive
  <1>5. ASSUME NEW p \in Deliveries, UpsertAndResolve(p) \/ Rollback(p) PROVE AnswerInv'
    BY <1>1, <1>5 DEF UpsertAndResolve, Rollback
  <1>6. ASSUME NEW p \in Deliveries, InsertAndCommit(p) PROVE AnswerInv'
    <2> DEFINE e == store[p].event
               s == store[p].session
    <2>1. /\ rows' = Append(rows, Row(e, s)) /\ Pending(p)
          /\ answered' = answered \cup {<<e, s>>}
      BY <1>6, CommitAddsARow
    <2>2. e \in reported /\ StoredAs(rows, e) = {}
      BY <2>1 DEF Pending
    <2> HIDE DEF e, s
    <2>3. \A f : StoredAs(rows', f) = StoredAs(rows, f) \cup (IF f = e THEN {s} ELSE {})
      BY <2>1, RowsGrow
    <2>4. ASSUME NEW a \in answered PROVE a[1] \in reported' /\ StoredAs(rows', a[1]) = {a[2]}
      <3>1. a[1] \in reported /\ StoredAs(rows, a[1]) = {a[2]}
        BY DEF AnswerInv
      <3>2. a[1] # e
        BY <2>2, <3>1
      <3>3. QED
        BY <2>3, <3>1, <3>2
    <2>5. StoredAs(rows', e) = {s}
      BY <2>2, <2>3
    <2>6. QED
      BY <2>1, <2>2, <2>4, <2>5 DEF AnswerInv
  <1>7. ASSUME NEW at \in Restarts, CloseForRestart(at) PROVE AnswerInv'
    <2>1. answered' = answered
      BY <1>7 DEF CloseForRestart
    <2>2. ASSUME NEW n \in DOMAIN rows, rows' = Append(rows, RestartRow(at, rows[n].session))
          PROVE  AnswerInv'
      <3> DEFINE r == [status |-> "disconnected", at |-> at, visit |-> 0]
      <3>1. r \notin reported
        <4>1. r.visit = 0
          OBVIOUS
        <4>2. QED
          BY <4>1, ReportedAreNoExits
      <3>2. rows' = Append(rows, Row(r, rows[n].session))
        BY <2>2 DEF RestartRow
      <3> HIDE DEF r
      <3>3. \A f : StoredAs(rows', f) =
                    StoredAs(rows, f) \cup (IF f = r THEN {rows[n].session} ELSE {})
        BY <3>2, RowsGrow
      <3>4. \A f \in reported : StoredAs(rows', f) = StoredAs(rows, f)
        BY <3>1, <3>3
      <3>5. QED
        BY <2>1, <3>4 DEF AnswerInv
    <2>3. QED
      BY <1>1, <1>7, <2>1, <2>2, RestartAddsAnExit
  <1>8. CASE UNCHANGED vars
    BY <1>1, <1>8 DEF vars
  <1>9. QED
    BY <1>2, <1>3, <1>4, <1>5, <1>6, <1>7, <1>8 DEF Next

-----------------------------------------------------------------------------
\* In order, what is stored is what was reported up to the last row.
LEMMA OrderBefore ==
  ASSUME GameTypes, RowTypes, NEW e \in reported, NEW s,
         InOrder(Append(rows, Row(e, s)), reported, boundary)
  PROVE  /\ InOrder(rows, reported, boundary)
         /\ \A n \in DOMAIN rows : rows[n].event \in reported /\ rows[n].event.at < e.at
         /\ \A f \in reported : f.at < e.at => \E n \in DOMAIN rows : rows[n].event = f
  <1> DEFINE log == Append(rows, Row(e, s))
             end == Len(rows) + 1
  <1>1. /\ DOMAIN log = DOMAIN rows \cup {end}
        /\ log[end].event = e /\ log[end].session = s
        /\ \A n \in DOMAIN rows : log[n] = rows[n] /\ n # end /\ n < end /\ n \in Nat
        /\ \A f : StoredAs(log, f) = StoredAs(rows, f) \cup (IF f = e THEN {s} ELSE {})
    <2>1. IsLog(rows)
      BY DEF RowTypes
    <2>2. QED
      BY <2>1, OneMoreRow
  <1>2. InOrder(log, reported, boundary)
    OBVIOUS
  <1> HIDE DEF log, end
  <1>3. /\ boundary = 0
        /\ \A m, n \in DOMAIN log : m < n => log[m].event.at < log[n].event.at
        /\ \A f \in reported, n \in DOMAIN log : f.at <= log[n].event.at => StoredAs(log, f) # {}
        /\ \A d, f \in reported :
             d.visit = f.visit /\ d.at < f.at =>
               f.at - d.at < (IF f.status = "connected" THEN ConnectGrace ELSE VisitMaxAge)
    BY <1>2 DEF InOrder
  <1>4. \A n \in DOMAIN rows : rows[n].event \in reported /\ rows[n].event.at < e.at
    BY <1>1, <1>3 DEF RowTypes
  <1>5. e.at \in Nat /\ \A f \in reported : f.at \in Nat
    BY ReportedAreNoExits
  <1>6. ASSUME NEW f \in reported, f.at < e.at PROVE StoredAs(rows, f) # {}
    <2>1. f # e /\ f.at <= log[end].event.at /\ end \in DOMAIN log
      BY <1>1, <1>5, <1>6
    <2>2. QED
      BY <1>1, <1>3, <2>1
  <1>7. \A f \in reported : f.at < e.at => \E n \in DOMAIN rows : rows[n].event = f
    BY <1>6 DEF StoredAs
  <1>8. \A f \in reported, n \in DOMAIN rows : f.at <= rows[n].event.at => StoredAs(rows, f) # {}
    <2> TAKE f \in reported, n \in DOMAIN rows
    <2>1. rows[n].event.at \in Nat /\ rows[n].event.at < e.at
      BY <1>4, <1>5
    <2>2. f.at <= rows[n].event.at => f.at < e.at
      BY <1>5, <2>1
    <2>3. QED
      BY <1>6, <2>2
  <1>9. \A m, n \in DOMAIN rows : m < n => rows[m].event.at < rows[n].event.at
    BY <1>1, <1>3
  <1>10. InOrder(rows, reported, boundary)
    BY <1>3, <1>8, <1>9 DEF InOrder
  <1>11. QED
    BY <1>4, <1>7, <1>10

\* Then an event that continues a visit finds the session of that visit.
LEMMA FindsItsVisit ==
  ASSUME GameInv, RowTypes, NEW e \in reported, e.status # "connecting",
         InOrder(rows, reported, boundary), SplitRight(rows),
         \A n \in DOMAIN rows : rows[n].event \in reported /\ rows[n].event.at < e.at,
         \A f \in reported : f.at < e.at => \E n \in DOMAIN rows : rows[n].event = f
  PROVE  \E k \in DOMAIN rows : /\ rows[k].event.visit = e.visit
                                /\ Joinable(rows, e) # {}
                                /\ MostRecent(rows, Joinable(rows, e)) = rows[k].session
  <1>0. GameTypes /\ VisitsInOrder
    BY DEF GameInv
  <1>1. PICK f \in reported : /\ f.visit = e.visit /\ f.at < e.at
                              /\ \A g \in reported : g.at <= f.at \/ g.at >= e.at
    BY <1>0 DEF VisitsInOrder
  <1>2. PICK k \in DOMAIN rows : rows[k].event = f
    BY <1>1
  <1> DEFINE s == rows[k].session
             width == IF e.status = "connected" THEN ConnectGrace ELSE VisitMaxAge
  <1>3. /\ e.at \in Nat /\ f.at \in Nat /\ width \in Nat /\ e.status \in StatusSet
        /\ \A n \in DOMAIN rows : rows[n].event.at \in Nat /\ rows[n].event.at <= f.at
                                    /\ rows[n].event.status \in StatusSet
    <2>1. e.at \in Nat /\ f.at \in Nat /\ width \in Nat /\ e.status \in StatusSet
      BY <1>0, WindowFacts, ReportedAreNoExits
    <2>2. \A n \in DOMAIN rows : rows[n].event.at \in Nat /\ rows[n].event.status \in StatusSet
      BY <1>0, RowsAreEvents
    <2>3. QED
      BY <1>1, <2>1, <2>2
  <1>4. e.at - f.at < width
    BY <1>1 DEF InOrder
  <1>5. s \in SessionsOf(rows) /\ k \in RowsOf(rows, s)
    BY <1>2 DEF SessionsOf, RowsOf
  <1> HIDE DEF width
  <1>6. \A n \in RowsOf(rows, s) :
          /\ rows[n].event.status # "disconnected"
          /\ e.status = "connected" => rows[n].event.status # "connected"
    <2> TAKE n \in RowsOf(rows, s)
    <2>1. n \in DOMAIN rows /\ rows[n].session = rows[k].session
      BY DEF RowsOf
    <2>2. rows[n].event.visit = e.visit
      BY <1>1, <1>2, <2>1 DEF SplitRight
    <2>3. Phase(rows[n].event.status) < Phase(e.status)
      BY <1>0, <2>1, <2>2 DEF VisitsInOrder
    <2>4. QED
      BY <1>3, <2>1, <2>3 DEF Phase, StatusSet
  <1>7. \A t \in SessionsOf(rows) : /\ NewestAt(rows, t) \in Nat /\ NewestAt(rows, t) <= f.at
                                    /\ NewestAt(rows, t) = f.at => t = s
    <2> TAKE t \in SessionsOf(rows)
    <2>1. PICK n \in RowsOf(rows, t) : rows[n].event.at = NewestAt(rows, t)
      BY <1>0, NewestRow
    <2>2. n \in DOMAIN rows /\ rows[n].session = t
      BY <2>1 DEF RowsOf
    <2>3. rows[n].event.at = f.at => n = k
      <3>1. rows[n].event.at = f.at => rows[n].event = f
        BY <1>0, <2>2 DEF GameTypes
      <3>2. QED
        BY <1>1, <1>2, <2>2, <3>1 DEF RowTypes
    <2>4. QED
      BY <1>3, <2>1, <2>2, <2>3
  <1>8. NewestAt(rows, s) = f.at
    <2>1. f.at <= NewestAt(rows, s)
      BY <1>0, <1>2, <1>5, NewestRow
    <2>2. QED
      BY <1>3, <1>5, <1>7, <2>1
  <1> HIDE DEF s
  <1>9. s \in Joinable(rows, e)
    <2>1. NewestAt(rows, s) > e.at - width
      BY <1>3, <1>4, <1>8
    <2>2. ~Has(rows, s, "disconnected") /\ (e.status = "connected" => ~Has(rows, s, "connected"))
      BY <1>6 DEF Has
    <2>3. QED
      BY <1>5, <2>1, <2>2 DEF Joinable, width
  <1>10. Joinable(rows, e) \in SUBSET SessionsOf(rows) /\ Joinable(rows, e) # {}
    BY <1>9 DEF Joinable
  <1> DEFINE best == MostRecent(rows, Joinable(rows, e))
  <1>11. best \in Joinable(rows, e) /\ NewestAt(rows, s) <= NewestAt(rows, best)
    BY <1>0, <1>9, <1>10, MostRecentIsOne
  <1>12. best \in SessionsOf(rows)
    BY <1>10, <1>11
  <1> HIDE DEF best
  <1>13. best = s
    BY <1>3, <1>7, <1>8, <1>11, <1>12
  <1>14. QED
    BY <1>1, <1>2, <1>10, <1>13 DEF best, s

LEMMA ResolvesRight ==
  ASSUME GameInv, RowTypes, WholeLog(rows, reported, boundary),
         NEW e \in reported, StoredAs(rows, e) = {}, NEW p
  PROVE  WholeLog(Append(rows, Row(e, Resolve(rows, e, <<e.at, p>>))), reported, boundary)
  <1> DEFINE s == Resolve(rows, e, <<e.at, p>>)
             log == Append(rows, Row(e, s))
             end == Len(rows) + 1
  <1>0. GameTypes /\ VisitsInOrder
    BY DEF GameInv
  <1>1. SUFFICES ASSUME InOrder(log, reported, boundary) PROVE SplitRight(log)
    BY DEF WholeLog
  <1>2. /\ DOMAIN log = DOMAIN rows \cup {end}
        /\ log[end].event = e /\ log[end].session = s
        /\ \A n \in DOMAIN rows : log[n] = rows[n] /\ n # end
    <2>1. IsLog(rows)
      BY DEF RowTypes
    <2> HIDE DEF s
    <2>2. QED
      BY <2>1, OneMoreRow
  <1>3. /\ InOrder(rows, reported, boundary)
        /\ \A n \in DOMAIN rows : rows[n].event \in reported /\ rows[n].event.at < e.at
        /\ \A f \in reported : f.at < e.at => \E n \in DOMAIN rows : rows[n].event = f
    <2> HIDE DEF s
    <2>1. QED
      BY <1>0, <1>1, OrderBefore
  <1>4. SplitRight(rows)
    BY <1>3 DEF WholeLog
  <1>5. \A n \in DOMAIN rows : rows[n].session = s <=> rows[n].event.visit = e.visit
    <2>1. CASE e.status = "connecting"
      <3>1. s = <<e.at, p>> /\ s \notin SessionsOf(rows)
        BY <1>0, <2>1, FreshIsNew DEF Resolve
      <3> HIDE DEF s
      <3>2. \A n \in DOMAIN rows : rows[n].session # s
        BY <3>1 DEF SessionsOf
      <3>3. \A n \in DOMAIN rows : rows[n].event.visit # e.visit
        <4> TAKE n \in DOMAIN rows
        <4>1. rows[n].event.visit = e.visit => Phase(rows[n].event.status) < Phase(e.status)
          BY <1>0, <1>3 DEF VisitsInOrder
        <4>2. QED
          BY <2>1, <4>1 DEF Phase
      <3>4. QED
        BY <3>2, <3>3
    <2>2. CASE e.status # "connecting"
      <3>1. PICK k \in DOMAIN rows : /\ rows[k].event.visit = e.visit
                                     /\ Joinable(rows, e) # {}
                                     /\ MostRecent(rows, Joinable(rows, e)) = rows[k].session
        BY <1>3, <1>4, <2>2, FindsItsVisit
      <3>2. s = rows[k].session
        BY <2>2, <3>1 DEF Resolve
      <3>3. QED
        BY <1>4, <3>1, <3>2 DEF SplitRight
    <2>3. QED
      BY <2>1, <2>2
  <1> HIDE DEF log, s, end
  <1>6. ASSUME NEW m \in DOMAIN log, NEW n \in DOMAIN log
        PROVE  log[m].session = log[n].session <=> log[m].event.visit = log[n].event.visit
    <2>1. CASE m \in DOMAIN rows /\ n \in DOMAIN rows
      BY <1>2, <1>4, <2>1 DEF SplitRight
    <2>2. CASE m \in DOMAIN rows /\ n = end
      BY <1>2, <1>5, <2>2
    <2>3. CASE m = end /\ n \in DOMAIN rows
      BY <1>2, <1>5, <2>3
    <2>4. CASE m = end /\ n = end
      BY <2>4
    <2>5. QED
      BY <1>2, <2>1, <2>2, <2>3, <2>4
  <1>7. QED
    BY <1>6 DEF SplitRight

LEMMA MoreIsReported ==
  ASSUME NEW log, NEW events, NEW more, events \subseteq more, NEW last,
         WholeLog(log, events, last)
  PROVE  WholeLog(log, more, last)
  <1>1. InOrder(log, more, last) => InOrder(log, events, last)
    BY DEF InOrder
  <1>2. QED
    BY <1>1 DEF WholeLog

LEMMA VisitsStayWhole ==
  ASSUME GameInv, RowTypes, SessionsFit, StoreInv, WholeInv, reported \subseteq reported', [Next]_vars
  PROVE  WholeInv'
  <1>1. ASSUME rows' = rows, boundary' = boundary,
               \A p \in Deliveries : store'[p].pc = "resolved" =>
                 store'[p] = store[p] \/ WholeLog(Resulting(p)', reported, boundary)
        PROVE  WholeInv'
    <2>1. WholeLog(rows', reported', boundary')
      BY <1>1, MoreIsReported DEF WholeInv
    <2>2. ASSUME NEW p \in Deliveries, store'[p].pc = "resolved"
          PROVE  WholeLog(Resulting(p)', reported', boundary')
      <3>1. WholeLog(Resulting(p)', reported, boundary)
        BY <1>1, <2>2 DEF WholeInv, Resulting
      <3>2. QED
        BY <1>1, <3>1, MoreIsReported
    <2>3. QED
      BY <2>1, <2>2 DEF WholeInv
  <1>2. ASSUME rows' = rows, boundary' = boundary, store' = store PROVE WholeInv'
    BY <1>1, <1>2
  <1>3. CASE Tick
    BY <1>2, <1>3 DEF Tick
  <1>4. CASE Connecting \/ Connected \/ Disconnected \/ GameServerCrash
    BY <1>2, <1>4 DEF Connecting, Connected, Disconnected, Report, GameServerCrash
  <1>5. ASSUME NEW p \in Deliveries, NEW e \in reported, Receive(p, e) PROVE WholeInv'
    <2>1. rows' = rows /\ boundary' = boundary
      BY <1>5 DEF Receive
    <2>2. store' = store \/ store' = [store EXCEPT ![p] = [pc |-> "new", event |-> e]]
      BY <1>5 DEF Receive
    <2>3. \A q \in Deliveries : store'[q].pc = "resolved" => store'[q] = store[q]
      BY <2>2 DEF StoreInv
    <2>4. QED
      BY <1>1, <2>1, <2>3
  <1>6. ASSUME NEW p \in Deliveries, UpsertAndResolve(p) PROVE WholeInv'
    <2> DEFINE e == store[p].event
               s == Resolve(rows, e, <<e.at, p>>)
    <2>1. /\ store' = [store EXCEPT ![p] = [pc |-> "resolved", event |-> e, session |-> s]]
          /\ Pending(p) /\ rows' = rows /\ boundary' = boundary
      BY <1>6, ResolvedJoins DEF GameInv
    <2>2. e \in reported /\ StoredAs(rows, e) = {}
      BY <2>1 DEF Pending
    <2>3. WholeLog(Append(rows, Row(e, s)), reported, boundary)
      <3> HIDE DEF e
      <3>1. QED
        BY <2>2, ResolvesRight DEF WholeInv
    <2> HIDE DEF e, s
    <2>4. store'[p].event = e /\ store'[p].session = s /\ \A q \in Deliveries \ {p} : store'[q] = store[q]
      BY <2>1 DEF StoreInv
    <2>5. Resulting(p)' = Append(rows, Row(e, s))
      BY <2>1, <2>4 DEF Resulting
    <2>6. QED
      BY <1>1, <2>1, <2>3, <2>4, <2>5
  <1>7. ASSUME NEW p \in Deliveries, InsertAndCommit(p) PROVE WholeInv'
    <2>1. /\ rows' = Resulting(p) /\ store[p].pc = "resolved" /\ Joins(p)
          /\ store' = [store EXCEPT ![p] = Served] /\ reported' = reported /\ boundary' = boundary
      BY <1>7, CommitAddsARow DEF Resulting, gameVars
    <2>2. WholeLog(rows', reported', boundary')
      BY <2>1 DEF WholeInv
    <2>3. \A q \in Deliveries : store'[q].pc # "resolved"
      BY <2>1 DEF Joins, StoreInv, Served
    <2>4. QED
      BY <2>2, <2>3 DEF WholeInv
  <1>8. ASSUME NEW p \in Deliveries, Rollback(p) PROVE WholeInv'
    <2>1. rows' = rows /\ boundary' = boundary /\ store' = [store EXCEPT ![p] = Served]
      BY <1>8 DEF Rollback
    <2>2. \A q \in Deliveries : store'[q].pc = "resolved" => store'[q] = store[q]
      BY <2>1 DEF StoreInv, Served
    <2>3. QED
      BY <1>1, <2>1, <2>2
  <1>9. ASSUME NEW at \in Restarts, CloseForRestart(at) PROVE WholeInv'
    <2>1. boundary' # 0
      BY <1>9, WindowFacts DEF CloseForRestart
    <2>2. QED
      BY <2>1 DEF WholeInv, WholeLog, InOrder
  <1>10. CASE UNCHANGED vars
    BY <1>2, <1>10 DEF vars
  <1>11. QED
    BY <1>3, <1>4, <1>5, <1>6, <1>7, <1>8, <1>9, <1>10 DEF Next

-----------------------------------------------------------------------------
LEMMA VisitInvStarts ==
  Init => VisitInv
  <1> SUFFICES ASSUME Init PROVE VisitInv
    OBVIOUS
  <1>1. /\ now = 0 /\ player = "away" /\ visit = 0 /\ reported = {} /\ rows = <<>>
        /\ store = [p \in Deliveries |-> Served] /\ answered = {} /\ boundary = 0
    BY DEF Init
  <1>2. GameInv
    BY <1>1, TimeAssumption DEF GameInv, GameTypes, VisitsInOrder
  <1>3. IsLog(rows) /\ DOMAIN rows = {}
    BY <1>1 DEF IsLog
  <1>4. RowTypes /\ SessionsFit /\ WholeLog(rows, reported, boundary)
    BY <1>3 DEF RowTypes, SessionsFit, WholeLog, SplitRight
  <1>5. \A p \in Deliveries : store[p] = Served /\ store[p].pc # "resolved"
    BY <1>1 DEF Served
  <1>6. StoreInv /\ WholeInv
    BY <1>1, <1>4, <1>5 DEF StoreInv, WholeInv
  <1>7. AnswerInv
    BY <1>1 DEF AnswerInv
  <1>8. QED
    BY <1>1, <1>2, <1>4, <1>6, <1>7 DEF VisitInv

LEMMA RowsStayTyped ==
  ASSUME VisitInv, GameTypes', reported \subseteq reported', now \in Nat, now' \in Nat, now <= now',
         [Next]_vars
  PROVE  RowTypes' /\ boundary' \in Nat
  <1>1. GameTypes /\ RowTypes /\ StoreInv /\ boundary \in Nat
    BY DEF VisitInv, GameInv
  <1>2. ASSUME rows' = rows, boundary' = boundary PROVE RowTypes' /\ boundary' \in Nat
    <2>1. boundary' \in Nat /\ boundary <= boundary'
      BY <1>1, <1>2
    <2>2. QED
      BY <1>1, <1>2, <2>1, SameRowsStayTyped
  <1>3. CASE Tick
    BY <1>2, <1>3 DEF Tick
  <1>4. CASE Connecting \/ Connected \/ Disconnected \/ GameServerCrash
    BY <1>2, <1>4 DEF Connecting, Connected, Disconnected, Report, GameServerCrash
  <1>5. ASSUME NEW p \in Deliveries,
               (\E e \in reported : Receive(p, e)) \/ UpsertAndResolve(p) \/ Rollback(p)
        PROVE  RowTypes' /\ boundary' \in Nat
    BY <1>2, <1>5 DEF Receive, UpsertAndResolve, Rollback
  <1>6. ASSUME NEW p \in Deliveries, InsertAndCommit(p) PROVE RowTypes' /\ boundary' \in Nat
    <2> DEFINE e == store[p].event
               s == store[p].session
    <2>1. /\ rows' = Append(rows, Row(e, s)) /\ Pending(p) /\ Joins(p)
          /\ reported' = reported /\ now' = now /\ boundary' = boundary
      BY <1>1, <1>6, CommitAddsARow DEF gameVars
    <2>2. /\ e \in reported /\ StoredAs(rows, e) = {}
          /\ s \in SessionsOf(rows) \/ (e \in reported /\ \E q \in Deliveries : s = <<e.at, q>>)
      BY <2>1 DEF Pending, Joins
    <2> HIDE DEF e, s
    <2>3. boundary' \in Nat /\ boundary <= boundary'
      BY <1>1, <2>1
    <2>4. RowTypes'
      BY <1>1, <2>1, <2>2, <2>3, OneMoreRowIsTyped
    <2>5. QED
      BY <2>3, <2>4
  <1>7. ASSUME NEW at \in Restarts, CloseForRestart(at) PROVE RowTypes' /\ boundary' \in Nat
    <2>1. /\ boundary' = at /\ boundary < at /\ at <= now /\ at \in Nat /\ at # 0
          /\ reported' = reported /\ now' = now
      BY <1>7, WindowFacts DEF CloseForRestart, gameVars
    <2>2. boundary' \in Nat /\ boundary <= boundary'
      BY <1>1, <2>1
    <2>3. CASE rows' = rows
      BY <1>1, <2>1, <2>2, <2>3, SameRowsStayTyped
    <2>4. ASSUME NEW n \in DOMAIN rows, rows' = Append(rows, RestartRow(at, rows[n].session))
          PROVE  RowTypes'
      <3> DEFINE r == [status |-> "disconnected", at |-> at, visit |-> 0]
                 s == rows[n].session
      <3>1. RestartExit(r, now) /\ boundary' # 0
        BY <2>1 DEF RestartExit
      <3>2. s \in SessionsOf(rows)
        BY DEF SessionsOf
      <3>3. rows' = Append(rows, Row(r, s))
        BY <2>4 DEF RestartRow
      <3> HIDE DEF r, s
      <3>4. QED
        BY <1>1, <2>1, <2>2, <3>1, <3>2, <3>3, OneMoreRowIsTyped
    <2>5. QED
      BY <1>1, <1>7, <2>2, <2>3, <2>4, RestartAddsAnExit
  <1>8. CASE UNCHANGED vars
    BY <1>2, <1>8 DEF vars
  <1>9. QED
    BY <1>3, <1>4, <1>5, <1>6, <1>7, <1>8 DEF Next

LEMMA SessionsStayFit ==
  ASSUME VisitInv, [Next]_vars
  PROVE  SessionsFit'
  <1>1. GameTypes /\ RowTypes /\ StoreInv /\ SessionsFit
    BY DEF VisitInv, GameInv
  <1>2. ASSUME rows' = rows PROVE SessionsFit'
    BY <1>1, <1>2 DEF SessionsFit
  <1>3. CASE Tick
    BY <1>2, <1>3 DEF Tick
  <1>4. CASE Connecting \/ Connected \/ Disconnected \/ GameServerCrash
    BY <1>2, <1>4 DEF Connecting, Connected, Disconnected, Report, GameServerCrash
  <1>5. ASSUME NEW p \in Deliveries,
               (\E e \in reported : Receive(p, e)) \/ UpsertAndResolve(p) \/ Rollback(p)
        PROVE  SessionsFit'
    BY <1>2, <1>5 DEF Receive, UpsertAndResolve, Rollback
  <1>6. ASSUME NEW p \in Deliveries, InsertAndCommit(p) PROVE SessionsFit'
    BY <1>1, <1>6, CommitKeepsSessions
  <1>7. ASSUME NEW at \in Restarts, CloseForRestart(at) PROVE SessionsFit'
    BY <1>1, <1>7, RestartKeepsSessions
  <1>8. CASE UNCHANGED vars
    BY <1>2, <1>8 DEF vars
  <1>9. QED
    BY <1>3, <1>4, <1>5, <1>6, <1>7, <1>8 DEF Next

LEMMA StoreStaysFit ==
  ASSUME VisitInv, reported \subseteq reported', [Next]_vars
  PROVE  StoreInv'
  <1>1. GameTypes /\ RowTypes /\ StoreInv /\ SessionsFit
    BY DEF VisitInv, GameInv
  <1>2. CASE Tick
    BY <1>1, <1>2, SameRowsSameStore DEF Tick, gameVars
  <1>3. CASE Connecting \/ Connected \/ Disconnected \/ GameServerCrash
    <2>1. store' = store /\ rows' = rows /\ now' = now
      BY <1>3 DEF Connecting, Connected, Disconnected, Report, GameServerCrash
    <2>2. QED
      BY <1>1, <2>1, SameRowsSameStore
  <1>4. ASSUME NEW p \in Deliveries, NEW e \in reported, Receive(p, e) PROVE StoreInv'
    <2>1. now \in Nat /\ e.at \in Nat
      BY <1>1, ReportedAreNoExits, TimeAssumption DEF GameTypes
    <2>2. QED
      BY <1>1, <1>4, <2>1, ReceiveKeepsStore
  <1>5. ASSUME NEW p \in Deliveries, UpsertAndResolve(p) PROVE StoreInv'
    BY <1>1, <1>5, ResolveKeepsStore
  <1>6. ASSUME NEW p \in Deliveries, InsertAndCommit(p) PROVE StoreInv'
    BY <1>1, <1>6, CommitKeepsStore
  <1>7. ASSUME NEW p \in Deliveries, Rollback(p) PROVE StoreInv'
    BY <1>1, <1>7, RollbackKeepsStore
  <1>8. ASSUME NEW at \in Restarts, CloseForRestart(at) PROVE StoreInv'
    BY <1>1, <1>8, RestartKeepsStore
  <1>9. CASE UNCHANGED vars
    BY <1>1, <1>9, SameRowsSameStore DEF vars
  <1>10. QED
    BY <1>2, <1>3, <1>4, <1>5, <1>6, <1>7, <1>8, <1>9 DEF Next

LEMMA VisitInvHolds ==
  Spec => []VisitInv
  <1>1. Init => VisitInv
    BY VisitInvStarts
  <1>2. VisitInv /\ [Next]_vars => VisitInv'
    <2> SUFFICES ASSUME VisitInv, [Next]_vars PROVE VisitInv'
      OBVIOUS
    <2>1. GameInv /\ GameTypes /\ RowTypes /\ SessionsFit /\ StoreInv /\ AnswerInv /\ WholeInv
      BY DEF VisitInv, GameInv
    <2>2. /\ GameInv' /\ reported \subseteq reported'
          /\ now \in Nat /\ now' \in Nat /\ now <= now'
      BY <2>1, GameGoesOn
    <2>3. GameTypes'
      BY <2>2 DEF GameInv
    <2>4. RowTypes' /\ boundary' \in Nat
      BY <2>2, <2>3, RowsStayTyped
    <2>5. SessionsFit'
      BY SessionsStayFit
    <2>6. StoreInv'
      BY <2>2, StoreStaysFit
    <2>7. AnswerInv'
      BY <2>1, <2>2, <2>3, AnswersStayTrue
    <2>8. WholeInv'
      BY <2>1, <2>2, VisitsStayWhole
    <2>9. QED
      BY <2>2, <2>4, <2>5, <2>6, <2>7, <2>8 DEF VisitInv
  <1>3. QED
    BY <1>1, <1>2, PTL DEF Spec

(***************************************************************************)
(* A session stays a visit: it has one connected event at most, and its    *)
(* rows lie within the two windows of findOpenSession or the restart that  *)
(* closed it, for any number of deliveries, whatever is lost, repeated,    *)
(* late or rolled back (Store under upsertMember's row lock, and           *)
(* CloseForRestart, which takes no lock).                                  *)
(***************************************************************************)
THEOREM SessionsCorrect == Spec => []SessionIsOneVisit
  <1>1. VisitInv => SessionIsOneVisit
    <2> SUFFICES ASSUME VisitInv, NEW m \in DOMAIN rows, NEW n \in DOMAIN rows,
                        rows[m].session = rows[n].session
                 PROVE  /\ m # n /\ rows[m].event.status = "connected" =>
                             rows[n].event.status # "connected"
                        /\ rows[n].event.at - rows[m].event.at < ConnectGrace + Longest
      BY DEF SessionIsOneVisit, Longest
    <2>1. GameTypes /\ RowTypes /\ SessionsFit
      BY DEF VisitInv, GameInv
    <2>2. CASE m # n
      BY <2>1, <2>2 DEF SessionsFit, Together
    <2>3. CASE m = n
      <3>1. rows[m].event.at \in Nat /\ ConnectGrace \in Nat /\ ConnectGrace > 0 /\ Longest \in Nat
        BY <2>1, RowsAreEvents, WindowFacts
      <3>2. QED
        BY <2>3, <3>1
    <2>4. QED
      BY <2>2, <2>3
  <1>2. QED
    BY <1>1, VisitInvHolds, PTL

(***************************************************************************)
(* Every answer to a delivery of an event names the one session its row is *)
(* in, however many deliveries of it race (Store under lockEvent).         *)
(***************************************************************************)
THEOREM AnswersCorrect == Spec => []AnswersAgree
  <1>1. VisitInv => AnswersAgree
    BY DEF VisitInv, AnswerInv, AnswersAgree
  <1>2. QED
    BY <1>1, VisitInvHolds, PTL

(***************************************************************************)
(* Where nothing was lost or reordered, the sessions are exactly the       *)
(* visits, for any number of visits (resolveSession, findOpenSession).     *)
(***************************************************************************)
THEOREM VisitsCorrect == Spec => []WholeVisits
  <1>1. VisitInv => WholeVisits
    <2> SUFFICES ASSUME VisitInv, boundary = 0, DeliveredInOrder
                 PROVE  Visits(rows) =
                          {{e \in reported : e.visit = v} : v \in {e.visit : e \in reported}}
      BY DEF WholeVisits
    <2>1. InOrder(rows, reported, boundary)
      BY DEF DeliveredInOrder, InOrder
    <2>2. SplitRight(rows) /\ RowTypes /\ GameTypes
      BY <2>1 DEF VisitInv, GameInv, WholeInv, WholeLog
    <2>3. \A n \in DOMAIN rows : rows[n].event \in reported /\ rows[n].event.visit # 0
      BY <2>2, ReportedAreNoExits DEF RowTypes
    <2>4. \A e \in reported : \E n \in DOMAIN rows : rows[n].event = e
      BY DEF DeliveredInOrder, StoredAs
    <2> DEFINE Of(s) == {rows[n].event : n \in {n \in RowsOf(rows, s) : rows[n].event.visit # 0}}
               In(v) == {e \in reported : e.visit = v}
    <2>5. \A k \in DOMAIN rows : Of(rows[k].session) = In(rows[k].event.visit)
      <3> TAKE k \in DOMAIN rows
      <3>1. \A n \in DOMAIN rows : n \in RowsOf(rows, rows[k].session) <=>
                                     rows[n].event.visit = rows[k].event.visit
        BY <2>2 DEF SplitRight, RowsOf
      <3>2. RowsOf(rows, rows[k].session) \subseteq DOMAIN rows
        BY DEF RowsOf
      <3>3. \A e : e \in Of(rows[k].session) <=> e \in In(rows[k].event.visit)
        BY <2>3, <2>4, <3>1, <3>2
      <3> HIDE DEF Of, In
      <3>4. QED
        BY <3>3
    <2>6. Visits(rows) = {Of(s) : s \in SessionsOf(rows)}
      BY Zenon DEF Visits
    <2>7. \A s \in SessionsOf(rows) : \E k \in DOMAIN rows : rows[k].session = s
      BY DEF SessionsOf
    <2>8. \A k \in DOMAIN rows : rows[k].session \in SessionsOf(rows)
      BY DEF SessionsOf
    <2> HIDE DEF Of, In
    <2>9. {Of(s) : s \in SessionsOf(rows)} = {In(v) : v \in {e.visit : e \in reported}}
      <3>1. \A s \in SessionsOf(rows) : \E e \in reported : Of(s) = In(e.visit)
        BY <2>3, <2>5, <2>7
      <3>2. \A e \in reported : \E s \in SessionsOf(rows) : Of(s) = In(e.visit)
        BY <2>4, <2>5, <2>8
      <3>3. QED
        BY <3>1, <3>2
    <2>10. QED
      BY <2>6, <2>9, Zenon DEF In
  <1>2. QED
    BY <1>1, VisitInvHolds, PTL

-----------------------------------------------------------------------------
(***************************************************************************)
(* The token bucket.                                                       *)
(***************************************************************************)
BucketSet == [tokens : 0..(Burst * Token), last : Int]
FromSender(r) == Outcome(Unread, r.flaws) = "store"

\* Requests in the order of their instants.
InOrderOfTime(requests) ==
  /\ \E len \in Nat : DOMAIN requests = 1..len
  /\ \A n \in DOMAIN requests : requests[n].at \in Int
  /\ \A m, n \in DOMAIN requests : m <= n => requests[m].at <= requests[n].at

LEMMA RefilledIs ==
  ASSUME NEW b \in BucketSet, NEW at \in Int, b.last <= at
  PROVE  LET r == Refilled(b, at)
         IN  /\ r \in BucketSet /\ r.last = at /\ r.tokens <= b.tokens + (at - b.last)
             /\ r.tokens = Burst * Token \/ r.tokens = b.tokens + (at - b.last)
  <1>1. PICK full \in Nat : full = Burst * Token
    BY GateAssumption
  <1>2. PICK x \in 0..full, y \in Int : b = [tokens |-> x, last |-> y]
    BY <1>1 DEF BucketSet
  <1>3. y <= at
    BY <1>2
  <1>4. CASE at > y
    <2> DEFINE s == x + (at - y)
               t == Min({full, s})
    <2>1. s \in Int /\ s >= x
      BY <1>2, <1>4
    <2>2. t \in 0..full /\ t <= s /\ (t = full \/ t = s)
      <3> HIDE DEF s
      <3>1. (full <= s => t = full) /\ (s <= full => t = s)
        BY <1>1, <2>1, MinOfTwo
      <3> HIDE DEF t
      <3>2. QED
        BY <1>1, <1>2, <2>1, <3>1
    <2>3. Refilled(b, at) = [tokens |-> t, last |-> at]
      BY <1>1, <1>2, <1>4 DEF Refilled
    <2> HIDE DEF t
    <2>4. QED
      BY <1>1, <1>2, <2>2, <2>3 DEF BucketSet
  <1>5. CASE at = y
    <2>1. Refilled(b, at) = b /\ x <= x + (at - y) /\ x = x + (at - y)
      BY <1>2, <1>5 DEF Refilled
    <2>2. QED
      BY <1>2, <1>5, <2>1
  <1>6. QED
    BY <1>2, <1>3, <1>4, <1>5

\* The longer of two waits.
LEMMA MaxOfTwo ==
  ASSUME NEW a \in Int, NEW b \in Int
  PROVE  Max({a, b}) \in {a, b} /\ Max({a, b}) >= a /\ Max({a, b}) >= b
  <1>1. \E x \in {a, b} : \A z \in {a, b} : x >= z
    <2>1. CASE a >= b
      BY <2>1
    <2>2. CASE b >= a
      BY <2>2
    <2>3. QED
      BY <2>1, <2>2
  <1>2. QED
    BY <1>1, Zenon DEF Max

\* allow: a token of the refilled bucket, or how long to wait for one.
LEMMA AllowIs ==
  ASSUME NEW b \in BucketSet, NEW at \in Int, b.last <= at
  PROVE  LET r == Refilled(b, at)
             a == Allow(b, at)
         IN  /\ r.tokens >= Token =>
                  /\ a.wait = 0 /\ a.bucket \in BucketSet
                  /\ a.bucket.tokens = r.tokens - Token /\ a.bucket.last = at
             /\ ~(r.tokens >= Token) =>
                  a.bucket = r /\ a.wait \in Int /\ a.wait > 0 /\ a.wait >= Token - r.tokens
  <1> DEFINE r == Refilled(b, at)
             a == Allow(b, at)
  <1>1. PICK full \in Nat : full = Burst * Token
    BY GateAssumption
  <1>2. r \in BucketSet /\ r.last = at
    BY RefilledIs
  <1> HIDE DEF r
  <1>3. PICK x \in 0..full : r = [tokens |-> x, last |-> at]
    BY <1>1, <1>2 DEF BucketSet
  <1>4. Token \in Nat /\ Token > 0 /\ Second \in Nat /\ Second > 0
    BY GateAssumption
  <1>5. CASE x >= Token
    <2>1. a = [wait |-> 0, bucket |-> [tokens |-> x - Token, last |-> at]]
      BY <1>3, <1>5 DEF Allow, r
    <2>2. x - Token \in 0..full
      BY <1>3, <1>4, <1>5
    <2>3. QED
      BY <1>1, <1>3, <1>5, <2>1, <2>2 DEF BucketSet, r
  <1>6. CASE ~(x >= Token)
    <2> DEFINE w == Max({Second, Token - x})
    <2>1. a = [wait |-> w, bucket |-> r]
      BY <1>3, <1>6 DEF Allow, r
    <2>2. w \in Int /\ w >= Second /\ w >= Token - x
      <3>1. PICK y \in Int : y = Token - x
        BY <1>3, <1>4
      <3>2. PICK z \in Int : z = Second
        BY <1>4
      <3>3. Max({z, y}) \in {z, y} /\ Max({z, y}) >= z /\ Max({z, y}) >= y
        BY ONLY y \in Int, z \in Int, MaxOfTwo, Zenon
      <3>4. w = Max({z, y})
        BY ONLY <3>1, <3>2, Zenon
      <3> HIDE DEF w
      <3>5. w \in {z, y} /\ w >= z /\ w >= y
        BY ONLY <3>3, <3>4, Zenon
      <3>6. QED
        BY <3>1, <3>2, <3>5
    <2> HIDE DEF w
    <2>3. w > 0
      BY <1>4, <2>2
    <2>4. QED
      BY <1>3, <1>6, <2>1, <2>2, <2>3 DEF r
  <1>7. QED
    BY <1>5, <1>6, <1>3 DEF r

\* Who waits as long as he is told is admitted.
LEMMA WaitIsEnough ==
  ASSUME NEW b \in BucketSet, NEW w \in Int, w > 0, w >= Token - b.tokens
  PROVE  Allow(b, b.last + w).wait = 0
  <1>1. PICK full \in Nat : full = Burst * Token /\ full >= Token /\ Token \in Nat
    <2>1. Burst \in Nat /\ Burst >= 1 /\ Token \in Nat /\ Token >= 1
      BY GateAssumption
    <2>2. Burst * Token \in Nat /\ Burst * Token >= Token
      BY <2>1
    <2>3. QED
      BY <2>1, <2>2
  <1>2. PICK x \in 0..full, y \in Int : x = b.tokens /\ y = b.last
    BY <1>1 DEF BucketSet
  <1> DEFINE at == y + w
             r == Refilled(b, at)
  <1>3. at \in Int /\ b.last <= at /\ at - b.last = w
    BY <1>2
  <1> HIDE DEF at
  <1>4. r \in BucketSet /\ (r.tokens = full \/ r.tokens = x + w)
    BY <1>1, <1>2, <1>3, RefilledIs
  <1>5. r.tokens >= Token
    BY <1>1, <1>2, <1>4
  <1>6. Allow(b, at).wait = 0
    BY <1>3, <1>5, AllowIs
  <1>7. QED
    BY <1>2, <1>6 DEF at

-----------------------------------------------------------------------------
\* The body is never refused for the rate.
LEMMA FlawIs ==
  ASSUME NEW flaws
  PROVE  Outcome(Body, flaws) # "rate"
  <1> DEFINE I == {i \in 1..Len(Body) : Body[i] \in flaws}
  <1>1. DOMAIN Body = 1..6 /\ Len(Body) = 6 /\ \A n \in 1..6 : Body[n] # "rate"
    BY DEF Body
  <1>2. CASE \E n \in DOMAIN Body : Body[n] \in flaws
    <2>1. I # {} /\ I \subseteq 1..6
      BY <1>1, <1>2
    <2>2. FirstFlaw(Body, flaws) = Min(I)
      BY <1>2, <2>1 DEF FirstFlaw, SelectInSeq
    <2>3. Min(I) \in I
      <3>1. PICK k \in I : \A j \in I : k <= j
        <4>1. \A K \in SUBSET (1..6) : K # {} => \E k \in K : \A j \in K : k <= j
          <5> TAKE K \in SUBSET (1..6)
          <5> HAVE K # {}
          <5>1. PICK x \in K : x \in 1..6
            OBVIOUS
          <5>2. x = 1 \/ x = 2 \/ x = 3 \/ x = 4 \/ x = 5 \/ x = 6
            BY <5>1
          <5>3. 1 \in K \/ 2 \in K \/ 3 \in K \/ 4 \in K \/ 5 \in K \/ 6 \in K
            BY <5>1, <5>2
          <5>4. QED
            BY <5>3
        <4>2. QED
          BY <2>1, <4>1
      <3>2. QED
        BY <3>1 DEF Min
    <2>4. QED
      BY <1>1, <2>1, <2>2, <2>3 DEF Outcome
  <1>3. CASE ~\E n \in DOMAIN Body : Body[n] \in flaws
    BY <1>3 DEF Outcome, FirstFlaw
  <1>4. QED
    BY <1>2, <1>3

\* What the request of a sender does to the bucket, and that of anyone else.
LEMMA ServeIs ==
  ASSUME NEW b \in BucketSet, NEW q, q.at \in Int, b.last <= q.at
  PROVE  LET r == Refilled(b, q.at)
             done == Serve(b, q)
         IN  /\ ~FromSender(q) => done.bucket = b
             /\ FromSender(q) /\ r.tokens >= Token =>
                  /\ done.outcome # "rate" /\ done.bucket \in BucketSet
                  /\ done.bucket.tokens = r.tokens - Token /\ done.bucket.last = q.at
             /\ FromSender(q) /\ ~(r.tokens >= Token) =>
                  /\ done.outcome = "rate" /\ done.bucket = r
                  /\ done.wait \in Int /\ done.wait > 0 /\ done.wait >= Token - r.tokens
  <1> DEFINE r == Refilled(b, q.at)
             a == Allow(b, q.at)
             done == Serve(b, q)
  <1>1. /\ r.tokens >= Token =>
             /\ a.wait = 0 /\ a.bucket \in BucketSet
             /\ a.bucket.tokens = r.tokens - Token /\ a.bucket.last = q.at
        /\ ~(r.tokens >= Token) =>
             a.bucket = r /\ a.wait \in Int /\ a.wait > 0 /\ a.wait >= Token - r.tokens
    BY AllowIs
  <1>2. ~FromSender(q) => done.bucket = b
    BY DEF Serve, FromSender
  <1>3. FromSender(q) => done = [outcome |-> IF a.wait > 0 THEN "rate" ELSE Outcome(Body, q.flaws),
                                 wait |-> a.wait, bucket |-> a.bucket]
    BY DEF Serve, FromSender
  <1> HIDE DEF a, r, done
  <1>4. FromSender(q) => /\ done.wait = a.wait /\ done.bucket = a.bucket
                         /\ a.wait > 0 => done.outcome = "rate"
                         /\ ~(a.wait > 0) => done.outcome # "rate"
    BY <1>3, FlawIs
  <1>5. QED
    BY <1>1, <1>2, <1>4 DEF r, done

-----------------------------------------------------------------------------
\* The recursion over the requests has a solution.
NextBucket(requests, n, g) ==
  IF n = 1 THEN Full(requests[1].at) ELSE Serve(g[n - 1], requests[n - 1]).bucket

LEMMA BucketsAre ==
  ASSUME NEW requests, NEW len \in Nat, DOMAIN requests = 1..len
  PROVE  \A n \in 1..len : Buckets(requests)[n] = NextBucket(requests, n, Buckets(requests))
  <1> DEFINE P == {k \in Nat : \E g : \A n \in 1..k : g[n] = NextBucket(requests, n, g)}
  <1>1. 0 \in P
    OBVIOUS
  <1>2. ASSUME NEW k \in Nat, k \in P PROVE k + 1 \in P
    <2>1. PICK g : \A n \in 1..k : g[n] = NextBucket(requests, n, g)
      BY <1>2
    <2> DEFINE h == [n \in 1..(k + 1) |-> NextBucket(requests, n, g)]
    <2>2. \A n \in 1..k : n \in 1..(k + 1) /\ h[n] = g[n]
      BY <2>1
    <2>3. ASSUME NEW n \in 1..(k + 1) PROVE h[n] = NextBucket(requests, n, h)
      <3>1. CASE n = 1
        BY <3>1 DEF NextBucket
      <3>2. CASE n # 1
        <4> DEFINE m == n - 1
        <4>1. m \in 1..k
          BY <3>2
        <4>2. h[m] = g[m]
          BY <2>2, <4>1
        <4>3. h[n] = NextBucket(requests, n, g)
          OBVIOUS
        <4> HIDE DEF h
        <4>4. QED
          BY <4>2, <4>3 DEF NextBucket
      <3>3. QED
        BY <3>1, <3>2
    <2> HIDE DEF h
    <2>4. \E f : \A n \in 1..(k + 1) : f[n] = NextBucket(requests, n, f)
      BY <2>3
    <2>5. QED
      BY <2>4
  <1>3. len \in P
    <2> HIDE DEF P
    <2>1. QED
      BY <1>1, <1>2, Climb
  <1>4. PICK g : \A n \in 1..len : g[n] = NextBucket(requests, n, g)
    BY <1>3
  <1> DEFINE G == [n \in DOMAIN requests |-> g[n]]
             S == CHOOSE before : before = [n \in DOMAIN requests |->
                    IF n = 1 THEN Full(requests[1].at) ELSE Serve(before[n - 1], requests[n - 1]).bucket]
  <1>5. G = [n \in DOMAIN requests |->
               IF n = 1 THEN Full(requests[1].at) ELSE Serve(G[n - 1], requests[n - 1]).bucket]
    <2>1. ASSUME NEW n \in DOMAIN requests
          PROVE  G[n] = IF n = 1 THEN Full(requests[1].at) ELSE Serve(G[n - 1], requests[n - 1]).bucket
      <3>1. n \in 1..len /\ G[n] = NextBucket(requests, n, g)
        BY <1>4
      <3>2. CASE n = 1
        BY <3>1, <3>2 DEF NextBucket
      <3>3. CASE n # 1
        <4> DEFINE m == n - 1
        <4>1. m \in DOMAIN requests
          BY <3>1, <3>3
        <4>2. G[m] = g[m]
          BY <4>1
        <4> HIDE DEF G
        <4>3. QED
          BY <3>1, <3>3, <4>2 DEF NextBucket
      <3>4. QED
        BY <3>2, <3>3
    <2>2. QED
      BY <2>1
  <1> HIDE DEF G
  <1>6. S = [n \in DOMAIN requests |->
               IF n = 1 THEN Full(requests[1].at) ELSE Serve(S[n - 1], requests[n - 1]).bucket]
    BY <1>5, Zenon
  <1>7. Buckets(requests) = S
    BY Zenon DEF Buckets
  <1> HIDE DEF S
  <1>8. ASSUME NEW n \in 1..len PROVE S[n] = NextBucket(requests, n, S)
    BY <1>6 DEF NextBucket
  <1>9. QED
    BY <1>7, <1>8

-----------------------------------------------------------------------------
\* The requests admitted since k, and what a window that began at k has left.
Admitted(took, k, n) == Cardinality({i \in took : k <= i /\ i < n})
Left(requests, took, k, n, at) ==
  Burst * Token + (at - requests[k].at) - Admitted(took, k, n) * Token
Room(requests, took, k, n, at) ==
  (Admitted(took, k, n) + 1) * Token <= Burst * Token + (at - requests[k].at)

LEMMA AdmittedIs ==
  ASSUME NEW len \in Nat, NEW took \in SUBSET (1..len), NEW k \in 1..len, NEW n \in 1..len, k <= n
  PROVE  /\ Admitted(took, k, n) \in Nat
         /\ Admitted(took, k, n + 1) = IF n \in took THEN Admitted(took, k, n) + 1 ELSE Admitted(took, k, n)
  <1> DEFINE A == {i \in took : k <= i /\ i < n}
             B == {i \in took : k <= i /\ i < n + 1}
  <1>1. IsFiniteSet(A) /\ Cardinality(A) \in Nat
    <2>1. 1 \in Int /\ len \in Int
      OBVIOUS
    <2>2. IsFiniteSet(1..len)
      BY <2>1, FS_Interval
    <2>3. A \in SUBSET (1..len)
      OBVIOUS
    <2>4. QED
      BY <2>2, <2>3, FS_Subset, FS_CardinalityType
  <1>2. B = IF n \in took THEN A \cup {n} ELSE A
    <2>1. ASSUME NEW i \in took PROVE i < n + 1 <=> i < n \/ i = n
      <3>1. i \in Nat /\ n \in Nat
        OBVIOUS
      <3>2. QED
        BY <3>1
    <2>2. k <= n
      OBVIOUS
    <2>3. QED
      BY <2>1, <2>2
  <1>3. n \notin A
    OBVIOUS
  <1>4. Cardinality(A \cup {n}) = Cardinality(A) + 1
    <2> HIDE DEF A
    <2>1. QED
      BY <1>1, <1>3, FS_AddElement
  <1>5. QED
    BY <1>1, <1>2, <1>4 DEF Admitted

\* Before each request the bucket is the least that a window has left, or full.
BucketFits(requests, took, n, b) ==
  /\ b \in BucketSet /\ b.last <= requests[n].at
  /\ \A k \in took : k < n => b.tokens <= Left(requests, took, k, n, b.last)
  /\ b.tokens = Burst * Token \/ \E k \in took : k < n /\ b.tokens = Left(requests, took, k, n, b.last)

\* What is left of a window grows with the clock, and a request takes a token of it.
LEMMA LeftIs ==
  ASSUME NEW requests, InOrderOfTime(requests), NEW len \in Nat, DOMAIN requests = 1..len,
         NEW took \in SUBSET (1..len), NEW k \in 1..len, NEW n \in 1..len, k <= n, NEW at \in Int
  PROVE  /\ Left(requests, took, k, n, at) \in Int
         /\ \A d \in Int : Left(requests, took, k, n, at + d) = Left(requests, took, k, n, at) + d
         /\ Left(requests, took, k, n + 1, at) =
              IF n \in took THEN Left(requests, took, k, n, at) - Token ELSE Left(requests, took, k, n, at)
         /\ Room(requests, took, k, n, at) <=> Token <= Left(requests, took, k, n, at)
  <1>1. PICK full \in Nat, t \in Nat : full = Burst * Token /\ t = Token
    BY GateAssumption
  <1>2. PICK x \in Int, y \in Int : x = requests[k].at /\ y = requests[n].at
    BY DEF InOrderOfTime
  <1>3. PICK c \in Nat : c = Admitted(took, k, n)
    BY AdmittedIs
  <1>4. PICK p \in Nat : p = c * t /\ (c + 1) * t = p + t
    BY <1>1, <1>3
  <1>5. \A z \in Int : Left(requests, took, k, n, z) = full + (z - x) - p
    BY <1>1, <1>2, <1>3, <1>4 DEF Left
  <1>6. Left(requests, took, k, n + 1, at) = full + (at - x) - (IF n \in took THEN p + t ELSE p)
    <2>1. Admitted(took, k, n + 1) = IF n \in took THEN c + 1 ELSE c
      BY <1>3, AdmittedIs
    <2>2. CASE n \in took
      <3>1. Left(requests, took, k, n + 1, at) = full + (at - x) - (c + 1) * t
        BY <1>1, <1>2, <2>1, <2>2 DEF Left
      <3>2. QED
        BY <1>4, <2>2, <3>1
    <2>3. CASE n \notin took
      <3>1. Left(requests, took, k, n + 1, at) = full + (at - x) - c * t
        BY <1>1, <1>2, <2>1, <2>3 DEF Left
      <3>2. QED
        BY <1>4, <2>3, <3>1
    <2>4. QED
      BY <2>2, <2>3
  <1>8. Room(requests, took, k, n, at) <=> p + t <= full + (at - x)
    BY <1>1, <1>2, <1>3, <1>4 DEF Room
  <1> DEFINE L(z) == Left(requests, took, k, n, z)
             L2 == Left(requests, took, k, n + 1, at)
  <1>9. L(at) = full + (at - x) - p
    BY <1>5
  <1>10. \A d \in Int : L(at + d) = L(at) + d
    <2>1. ASSUME NEW d \in Int PROVE L(at + d) = L(at) + d
      <3>1. PICK e \in Int : e = at + d
        OBVIOUS
      <3>2. L(e) = full + (e - x) - p
        BY <1>5, <3>1
      <3> HIDE DEF L
      <3>3. QED
        BY <1>2, <1>9, <3>1, <3>2
    <2>2. QED
      BY <2>1
  <1>11. L2 = IF n \in took THEN L(at) - Token ELSE L(at)
    <2> HIDE DEF L, L2
    <2>1. QED
      BY <1>1, <1>2, <1>4, <1>6, <1>9, SMTT(30) DEF L2
  <1>12. L(at) \in Int /\ (p + t <= full + (at - x) <=> t <= L(at))
    <2> HIDE DEF L
    <2>1. QED
      BY <1>2, <1>9, SMTT(30)
  <1>13. QED
    BY <1>1, <1>8, <1>10, <1>11, <1>12

\* A window that begins with the request itself has everything left.
LEMMA LeftOfOwn ==
  ASSUME NEW requests, InOrderOfTime(requests), NEW len \in Nat, DOMAIN requests = 1..len,
         NEW took \in SUBSET (1..len), NEW n \in 1..len
  PROVE  Left(requests, took, n, n, requests[n].at) = Burst * Token
  <1>1. PICK full \in Nat, t \in Nat : full = Burst * Token /\ t = Token
    BY GateAssumption
  <1>2. PICK y \in Int : y = requests[n].at
    BY DEF InOrderOfTime
  <1>3. {i \in took : n <= i /\ i < n} = {}
    <2>1. \A i \in 1..len : ~(n <= i /\ i < n)
      OBVIOUS
    <2>2. QED
      BY <2>1
  <1>4. Admitted(took, n, n) = 0
    BY <1>3, FS_EmptySet DEF Admitted
  <1>5. Left(requests, took, n, n, requests[n].at) = full + (y - y) - 0 * t
    BY <1>1, <1>2, <1>4 DEF Left
  <1>6. QED
    BY <1>1, <1>2, <1>5

\* Refilled up to the instant of the request, the bucket still fits.
LEMMA RefilledFits ==
  ASSUME NEW requests, InOrderOfTime(requests), NEW len \in Nat, DOMAIN requests = 1..len,
         NEW took \in SUBSET (1..len), NEW n \in 1..len, NEW b, BucketFits(requests, took, n, b)
  PROVE  LET r == Refilled(b, requests[n].at)
         IN  BucketFits(requests, took, n, r) /\ r.last = requests[n].at
  <1>1. PICK at \in Int : at = requests[n].at
    BY DEF InOrderOfTime
  <1> DEFINE r == Refilled(b, at)
  <1>2. b \in BucketSet /\ b.last <= at /\ b.last \in Int
    BY <1>1 DEF BucketFits, BucketSet
  <1>3. PICK d \in Nat : d = at - b.last /\ b.last + d = at
    BY <1>1, <1>2
  <1>4. r \in BucketSet /\ r.last = at /\ r.tokens <= b.tokens + d
        /\ (r.tokens = Burst * Token \/ r.tokens = b.tokens + d)
    BY <1>2, <1>3, RefilledIs
  <1>5. PICK full \in Nat : full = Burst * Token
    BY GateAssumption
  <1>6. b.tokens \in 0..full /\ r.tokens \in 0..full
    BY <1>2, <1>4, <1>5 DEF BucketSet
  <1> HIDE DEF r
  <1>7. ASSUME NEW k \in took, k < n
        PROVE  /\ Left(requests, took, k, n, at) = Left(requests, took, k, n, b.last) + d
               /\ Left(requests, took, k, n, b.last) \in Int
    <2>1. k \in 1..len /\ k <= n
      BY <1>7
    <2>2. /\ Left(requests, took, k, n, b.last) \in Int
          /\ Left(requests, took, k, n, b.last + d) = Left(requests, took, k, n, b.last) + d
      BY <1>2, <2>1, LeftIs
    <2>3. QED
      BY <1>3, <2>2
  <1>8. ASSUME NEW k \in took, k < n PROVE r.tokens <= Left(requests, took, k, n, at)
    <2>1. b.tokens <= Left(requests, took, k, n, b.last)
      BY <1>8 DEF BucketFits
    <2>2. QED
      BY <1>4, <1>6, <1>7, <1>8, <2>1
  <1>9. r.tokens = full \/ \E k \in took : k < n /\ r.tokens = Left(requests, took, k, n, at)
    <2>1. CASE r.tokens = full
      BY <2>1
    <2>2. CASE r.tokens = b.tokens + d /\ b.tokens = full
      BY <1>6, <2>2
    <2>3. CASE r.tokens = b.tokens + d /\ b.tokens # full
      <3>1. PICK k \in took : k < n /\ b.tokens = Left(requests, took, k, n, b.last)
        BY <1>5, <2>3 DEF BucketFits
      <3>2. QED
        BY <1>7, <2>3, <3>1
    <2>4. QED
      BY <1>4, <1>5, <2>1, <2>2, <2>3
  <1>10. at <= at
    OBVIOUS
  <1>11. QED
    BY <1>1, <1>4, <1>5, <1>8, <1>9, <1>10 DEF BucketFits, r

\* A full bucket, or one that some window leaves, has a token when every window does.
LEMMA HasTokenWithin ==
  ASSUME NEW requests, InOrderOfTime(requests), NEW len \in Nat, DOMAIN requests = 1..len,
         NEW took \in SUBSET (1..len), NEW n \in 1..len, NEW r, BucketFits(requests, took, n, r),
         r.last = requests[n].at
  PROVE  r.tokens >= Token <=> WithinLimit(requests, took, n)
  <1>1. PICK full \in Nat, t \in Nat : full = Burst * Token /\ t = Token /\ full >= t
    <2>1. Burst \in Nat /\ Burst >= 1 /\ Token \in Nat /\ Token >= 1
      BY GateAssumption
    <2>2. Burst * Token \in Nat /\ Burst * Token >= Token
      BY <2>1
    <2>3. QED
      BY <2>1, <2>2
  <1>2. PICK at \in Int : at = requests[n].at
    BY DEF InOrderOfTime
  <1>3. r.tokens \in 0..full
    BY <1>1 DEF BucketFits, BucketSet
  <1> DEFINE L(k) == Left(requests, took, k, n, at)
             Ok(k) == Room(requests, took, k, n, at)
  <1>4. ASSUME NEW k \in took \cup {n}, k <= n PROVE L(k) \in Int /\ (Ok(k) <=> t <= L(k))
    <2>1. k \in 1..len
      OBVIOUS
    <2>2. L(k) \in Int /\ (Ok(k) <=> Token <= L(k))
      BY <1>2, <1>4, <2>1, LeftIs
    <2>3. QED
      BY <1>1, <2>2
  <1>5. L(n) = full
    BY <1>1, <1>2, LeftOfOwn
  <1>6. WithinLimit(requests, took, n) <=> \A k \in took \cup {n} : k <= n => Ok(k)
    BY <1>2 DEF WithinLimit, Admitted, Room
  <1>7. /\ \A k \in took : k < n => r.tokens <= L(k)
        /\ r.tokens = full \/ \E k \in took : k < n /\ r.tokens = L(k)
    BY <1>1, <1>2 DEF BucketFits
  <1> HIDE DEF L, Ok
  <1>8. ASSUME r.tokens >= t PROVE \A k \in took \cup {n} : k <= n => Ok(k)
    <2>1. ASSUME NEW k \in took \cup {n}, k <= n PROVE Ok(k)
      <3>1. CASE k = n
        BY <1>1, <1>4, <1>5, <2>1, <3>1
      <3>2. CASE k # n
        <4>1. k \in took /\ k \in Nat
          BY <2>1, <3>2
        <4>2. k < n
          BY <2>1, <3>2, <4>1
        <4>3. r.tokens <= L(k) /\ L(k) \in Int
          BY <1>4, <1>7, <2>1, <4>1, <4>2
        <4>4. t <= L(k)
          BY <1>1, <1>3, <1>8, <4>3
        <4>5. QED
          BY <1>4, <2>1, <4>4
      <3>3. QED
        BY <3>1, <3>2
    <2>2. QED
      BY <2>1
  <1>9. ASSUME \A k \in took \cup {n} : k <= n => Ok(k) PROVE r.tokens >= t
    <2>1. CASE r.tokens = full
      BY <1>1, <2>1
    <2>2. CASE \E k \in took : k < n /\ r.tokens = L(k)
      <3>1. PICK k \in took : k < n /\ r.tokens = L(k)
        BY <2>2
      <3>2. k \in took \cup {n} /\ k <= n
        BY <3>1
      <3>3. t <= L(k) /\ L(k) \in Int
        BY <1>4, <1>9, <3>2
      <3>4. QED
        BY <1>1, <3>1, <3>3
    <2>3. QED
      BY <1>7, <2>1, <2>2
  <1>10. QED
    BY <1>1, <1>6, <1>8, <1>9

\* After the request it fits the next one.
LEMMA NextFits ==
  ASSUME NEW requests, InOrderOfTime(requests), NEW len \in Nat, DOMAIN requests = 1..len,
         NEW took \in SUBSET (1..len), NEW n \in 1..len, n + 1 \in 1..len,
         NEW b, BucketFits(requests, took, n, b), NEW b2 \in BucketSet, b2.last = b.last,
         IF n \in took THEN b2.tokens = b.tokens - Token /\ b.last = requests[n].at
                       ELSE b2.tokens = b.tokens
  PROVE  BucketFits(requests, took, n + 1, b2)
  <1>1. PICK full \in Nat, t \in Nat : full = Burst * Token /\ t = Token
    BY GateAssumption
  <1>2. PICK at \in Int, next \in Int : at = requests[n].at /\ next = requests[n + 1].at
    BY DEF InOrderOfTime
  <1>3. n <= n + 1 /\ n \in DOMAIN requests /\ n + 1 \in DOMAIN requests
    OBVIOUS
  <1>4. at <= next
    BY <1>2, <1>3 DEF InOrderOfTime
  <1>5. PICK last \in Int : last = b.last /\ last = b2.last /\ last <= at
    BY <1>2 DEF BucketFits, BucketSet
  <1>6. b.tokens \in 0..full /\ b2.tokens \in 0..full
    BY <1>1 DEF BucketFits, BucketSet
  <1> DEFINE L(k) == Left(requests, took, k, n, last)
             M(k) == Left(requests, took, k, n + 1, last)
  <1>7. ASSUME NEW k \in took, k <= n PROVE L(k) \in Int /\ M(k) = IF n \in took THEN L(k) - t ELSE L(k)
    <2>1. k \in 1..len
      OBVIOUS
    <2> HIDE DEF L, M
    <2>2. L(k) \in Int /\ M(k) = IF n \in took THEN L(k) - Token ELSE L(k)
      BY ONLY InOrderOfTime(requests), len \in Nat, DOMAIN requests = 1..len, took \in SUBSET (1..len),
              n \in 1..len, <1>7, <2>1, last \in Int, LeftIs DEF L, M
    <2>3. QED
      BY <1>1, <2>2
  <1>8. n \in took => L(n) = full
    <2>1. Left(requests, took, n, n, requests[n].at) = full
      BY <1>1, LeftOfOwn
    <2>2. QED
      BY <1>5, <2>1
  <1>9. /\ \A k \in took : k < n => b.tokens <= L(k)
        /\ b.tokens = full \/ \E k \in took : k < n /\ b.tokens = L(k)
    BY <1>1, <1>5 DEF BucketFits
  <1> HIDE DEF L, M
  <1>10. \A k \in took : k < n + 1 => k < n \/ k = n
    <2>1. \A k \in 1..len : k < n + 1 => k < n \/ k = n
      OBVIOUS
    <2>2. QED
      BY <2>1
  <1>11. ASSUME NEW k \in took, k < n + 1 PROVE b2.tokens <= M(k)
    <2>1. k <= n
      BY <1>10, <1>11
    <2>2. b.tokens <= L(k)
      <3>1. CASE k < n
        BY <1>9, <3>1
      <3>2. CASE k = n
        BY <1>6, <1>8, <3>2
      <3>3. QED
        BY <1>10, <1>11, <3>1, <3>2
    <2>3. QED
      BY <1>1, <1>6, <1>7, <2>1, <2>2
  <1>12. b2.tokens = full \/ \E k \in took : k < n + 1 /\ b2.tokens = M(k)
    <2>1. CASE n \notin took
      <3>1. \A k \in took : k < n => k < n + 1 /\ M(k) = L(k)
        <4>1. \A k \in 1..len : k < n => k < n + 1 /\ k <= n
          OBVIOUS
        <4>2. QED
          BY <1>7, <2>1, <4>1
      <3>2. QED
        BY <1>9, <2>1, <3>1
    <2>2. CASE n \in took
      <3>1. \E k \in took : k <= n /\ b.tokens = L(k)
        <4>1. CASE b.tokens = full
          BY <1>8, <2>2, <4>1
        <4>2. CASE \E k \in took : k < n /\ b.tokens = L(k)
          <5>1. \A k \in 1..len : k < n => k <= n
            OBVIOUS
          <5>2. QED
            BY <4>2, <5>1
        <4>3. QED
          BY <1>9, <4>1, <4>2
      <3>2. PICK k \in took : k <= n /\ b.tokens = L(k)
        BY <3>1
      <3>3. M(k) = b2.tokens
        BY <1>1, <1>7, <2>2, <3>2
      <3>4. k < n + 1
        <4>1. \A j \in 1..len : j <= n => j < n + 1
          OBVIOUS
        <4>2. QED
          BY <3>2, <4>1
      <3>5. QED
        BY <3>3, <3>4
    <2>3. QED
      BY <2>1, <2>2
  <1>13. last <= next
    BY <1>2, <1>4, <1>5
  <1>14. QED
    BY <1>1, <1>2, <1>5, <1>11, <1>12, <1>13 DEF BucketFits, M

LEMMA BucketServed ==
  ASSUME NEW requests, InOrderOfTime(requests), NEW len \in Nat, DOMAIN requests = 1..len,
         NEW took \in SUBSET (1..len), NEW n \in 1..len, n + 1 \in 1..len,
         NEW b, BucketFits(requests, took, n, b),
         n \in took <=> FromSender(requests[n]) /\ Serve(b, requests[n]).outcome # "rate"
  PROVE  BucketFits(requests, took, n + 1, Serve(b, requests[n]).bucket)
  <1> DEFINE q == requests[n]
             r == Refilled(b, q.at)
             done == Serve(b, q)
  <1>1. b \in BucketSet /\ b.last <= q.at /\ q.at \in Int
    BY DEF BucketFits, InOrderOfTime
  <1>2. BucketFits(requests, took, n, r) /\ r.last = requests[n].at /\ r \in BucketSet
    BY RefilledFits DEF BucketFits
  <1>3. /\ ~FromSender(q) => done.bucket = b
        /\ FromSender(q) /\ r.tokens >= Token =>
             /\ done.outcome # "rate" /\ done.bucket \in BucketSet
             /\ done.bucket.tokens = r.tokens - Token /\ done.bucket.last = q.at
        /\ FromSender(q) /\ ~(r.tokens >= Token) => done.outcome = "rate" /\ done.bucket = r
    BY <1>1, ServeIs
  <1>4. n \in took <=> FromSender(q) /\ done.outcome # "rate"
    OBVIOUS
  <1> HIDE DEF q, r, done
  <1>5. CASE ~FromSender(q)
    <2>1. BucketFits(requests, took, n + 1, b)
      BY <1>1, <1>4, <1>5, NextFits
    <2>2. QED
      BY <1>3, <1>5, <2>1 DEF done, q
  <1>6. CASE FromSender(q) /\ r.tokens >= Token
    <2> DEFINE b2 == done.bucket
    <2>1. n \in took /\ b2 \in BucketSet /\ b2.tokens = r.tokens - Token /\ b2.last = r.last
      BY <1>2, <1>3, <1>4, <1>6 DEF q
    <2> HIDE DEF b2
    <2>2. BucketFits(requests, took, n + 1, b2)
      BY <1>2, <2>1, NextFits
    <2>3. QED
      BY <2>2 DEF b2, done, q
  <1>7. CASE FromSender(q) /\ ~(r.tokens >= Token)
    <2>1. n \notin took /\ done.bucket = r
      BY <1>3, <1>4, <1>7
    <2>2. BucketFits(requests, took, n + 1, r)
      BY <1>2, <2>1, NextFits
    <2>3. QED
      BY <2>1, <2>2 DEF done, q
  <1>8. QED
    BY <1>5, <1>6, <1>7

LEMMA FirstFits ==
  ASSUME NEW requests, InOrderOfTime(requests), NEW len \in Nat, DOMAIN requests = 1..len,
         NEW took \in SUBSET (1..len), 1 \in 1..len
  PROVE  BucketFits(requests, took, 1, Full(requests[1].at))
  <1>1. PICK full \in Nat : full = Burst * Token
    BY GateAssumption
  <1>2. PICK at \in Int : at = requests[1].at
    BY DEF InOrderOfTime
  <1>3. Full(at) = [tokens |-> full, last |-> at]
    BY <1>1 DEF Full
  <1>4. \A k \in took : ~(k < 1)
    <2>1. \A k \in 1..len : ~(k < 1)
      OBVIOUS
    <2>2. QED
      BY <2>1
  <1>5. Full(at) \in BucketSet /\ Full(at).last <= at /\ Full(at).tokens = full
    BY <1>1, <1>2, <1>3 DEF BucketSet
  <1>6. QED
    BY <1>1, <1>2, <1>4, <1>5 DEF BucketFits

(***************************************************************************)
(* The token bucket keeps the published limit, for any rate, burst and     *)
(* sequence of requests in the order of their instants: a sender is        *)
(* refused exactly when one more request would exceed it in some window,   *)
(* and who waits as long as he is told is admitted (rateLimiter.allow,     *)
(* after Authenticate in serverLogWebhook).                                *)
(***************************************************************************)
THEOREM RateLimitIsKept ==
  ASSUME NEW requests, InOrderOfTime(requests)
  PROVE  KeepsLimit(requests)
  <1>1. PICK len \in Nat : DOMAIN requests = 1..len
    BY DEF InOrderOfTime
  <1> DEFINE B == Buckets(requests)
             served == ServeAll(requests)
             senders == {n \in DOMAIN requests : Outcome(Unread, requests[n].flaws) = "store"}
             took == {n \in senders : served[n].outcome # "rate"}
  <1>2. \A n \in 1..len : served[n] = Serve(B[n], requests[n])
    BY <1>1 DEF ServeAll
  <1>3. took \in SUBSET (1..len)
    BY <1>1
  <1>4. \A n \in 1..len : /\ n \in senders <=> FromSender(requests[n])
                          /\ n \in took <=> FromSender(requests[n]) /\ served[n].outcome # "rate"
    BY <1>1 DEF FromSender
  <1>5. \A n \in 1..len : B[n] = NextBucket(requests, n, B)
    BY <1>1, BucketsAre
  <1>6. KeepsLimit(requests) <=>
          \A n \in senders :
            /\ n \in took <=> WithinLimit(requests, took, n)
            /\ n \notin took => Allow(served[n].bucket, requests[n].at + served[n].wait).wait = 0
    BY DEF KeepsLimit
  <1>7. senders \subseteq 1..len
    BY <1>1
  <1> HIDE DEF B, served, senders, took
  <1> DEFINE P == {k \in Nat : k + 1 \in 1..len => BucketFits(requests, took, k + 1, B[k + 1])}
  <1>8. 0 \in P
    <2>1. ASSUME 1 \in 1..len PROVE BucketFits(requests, took, 1, B[1])
      <3>1. B[1] = Full(requests[1].at)
        BY <1>5, <2>1 DEF NextBucket
      <3>2. QED
        BY <1>1, <1>3, <2>1, <3>1, FirstFits
    <2>2. 0 + 1 = 1
      OBVIOUS
    <2>3. QED
      BY <2>1, <2>2
  <1>9. ASSUME NEW k \in Nat, k \in P PROVE k + 1 \in P
    <2> DEFINE n == k + 1
    <2>1. ASSUME n + 1 \in 1..len PROVE BucketFits(requests, took, n + 1, B[n + 1])
      <3>1. n \in 1..len /\ (n + 1) - 1 = n /\ n + 1 # 1
        BY <2>1
      <3>2. BucketFits(requests, took, n, B[n])
        BY <1>9, <3>1
      <3> HIDE DEF n
      <3>3. B[n + 1] = Serve(B[n], requests[n]).bucket
        BY <1>5, <2>1, <3>1 DEF NextBucket
      <3>4. n \in took <=> FromSender(requests[n]) /\ Serve(B[n], requests[n]).outcome # "rate"
        BY <1>2, <1>4, <3>1
      <3>5. QED
        BY <1>1, <1>3, <2>1, <3>1, <3>2, <3>3, <3>4, BucketServed
    <2>2. QED
      BY <2>1
  <1>10. Nat \subseteq P
    <2> HIDE DEF P
    <2>1. QED
      BY <1>8, <1>9, Climb
  <1>11. ASSUME NEW n \in senders
         PROVE  /\ n \in took <=> WithinLimit(requests, took, n)
                /\ n \notin took => Allow(served[n].bucket, requests[n].at + served[n].wait).wait = 0
    <2>1. n \in 1..len
      BY <1>7
    <2>2. BucketFits(requests, took, n, B[n])
      <3> DEFINE k == n - 1
      <3>1. k \in Nat /\ k + 1 = n
        BY <2>1
      <3> HIDE DEF k
      <3>2. k \in P
        BY <1>10, <3>1
      <3>3. QED
        BY <2>1, <3>1, <3>2
    <2> DEFINE b == B[n]
               q == requests[n]
               r == Refilled(b, q.at)
    <2>3. BucketFits(requests, took, n, r) /\ r.last = q.at /\ r \in BucketSet
      BY <1>1, <1>3, <2>1, <2>2, RefilledFits DEF BucketFits
    <2>4. b \in BucketSet /\ b.last <= q.at /\ q.at \in Int
      BY <1>1, <2>1, <2>2 DEF BucketFits, InOrderOfTime
    <2>5. /\ r.tokens >= Token => Serve(b, q).outcome # "rate"
          /\ ~(r.tokens >= Token) =>
               /\ Serve(b, q).outcome = "rate" /\ Serve(b, q).bucket = r
               /\ Serve(b, q).wait \in Int /\ Serve(b, q).wait > 0 /\ Serve(b, q).wait >= Token - r.tokens
      BY <1>4, <2>1, <2>4, ServeIs
    <2>6. served[n] = Serve(b, q)
      BY <1>2, <2>1
    <2>7. r.tokens >= Token <=> WithinLimit(requests, took, n)
      BY <1>1, <1>3, <2>1, <2>3, HasTokenWithin
    <2> HIDE DEF b, q, r
    <2>8. n \in took <=> r.tokens >= Token
      BY <1>4, <2>1, <2>5, <2>6
    <2>9. ASSUME n \notin took PROVE Allow(served[n].bucket, q.at + served[n].wait).wait = 0
      <3>1. PICK w \in Int : w = served[n].wait /\ w > 0 /\ w >= Token - r.tokens /\ served[n].bucket = r
        BY <2>5, <2>6, <2>8, <2>9
      <3>2. Allow(r, r.last + w).wait = 0
        BY <2>3, <3>1, WaitIsEnough
      <3>3. QED
        BY <2>3, <3>1, <3>2
    <2>10. QED
      BY <2>7, <2>8, <2>9 DEF q
  <1>12. QED
    BY <1>6, <1>11

\* The instants of the sequences the run goes through.
LEMMA SumsClimb ==
  ASSUME NEW len \in Nat, NEW gap \in [1..len -> Nat]
  PROVE  /\ \A n \in 1..len : SumFunctionOnSet(gap, 1..n) \in Nat
         /\ \A m, n \in 1..len : m <= n => SumFunctionOnSet(gap, 1..m) <= SumFunctionOnSet(gap, 1..n)
  <1> DEFINE S(n) == SumFunctionOnSet(gap, 1..n)
  <1>1. IsFiniteSet(1..len)
    <2>1. 1 \in Int /\ len \in Int
      OBVIOUS
    <2>2. QED
      BY <2>1, FS_Interval
  <1>2. \A x \in 1..len : gap[x] \in Nat
    OBVIOUS
  <1>3. \A T \in SUBSET (1..len) : SumFunctionOnSet(gap, T) \in Nat
    BY <1>1, <1>2, SumCovers
  <1>4. \A n \in 1..len : 1..n \in SUBSET (1..len)
    OBVIOUS
  <1>5. \A n \in 1..len : S(n) \in Nat
    BY <1>3, <1>4
  <1>6. ASSUME NEW n \in 1..len, n + 1 \in 1..len PROVE S(n + 1) = gap[n + 1] + S(n)
    <2> DEFINE p == n + 1
    <2>1. p \in 1..len /\ p - 1 = n
      BY <1>6
    <2>2. \A k \in 1..len : gap[k] \in Int
      BY <1>2
    <2> HIDE DEF p
    <2>3. SumFunctionOnSet(gap, 1..p) = gap[p] + SumFunctionOnSet(gap, 1..(p - 1))
      BY <2>1, <2>2, SumOfFirst
    <2>4. QED
      BY <2>1, <2>3 DEF p
  <1> HIDE DEF S
  <1> DEFINE P == {d \in Nat : \A m \in 1..len : m + d \in 1..len => S(m) <= S(m + d)}
  <1>7. 0 \in P
    BY <1>5
  <1>8. ASSUME NEW d \in Nat, d \in P PROVE d + 1 \in P
    <2>1. ASSUME NEW m \in 1..len, m + (d + 1) \in 1..len PROVE S(m) <= S(m + (d + 1))
      <3> DEFINE n == m + d
      <3>1. n \in 1..len /\ n + 1 = m + (d + 1) /\ n + 1 \in 1..len
        BY <2>1
      <3>2. S(m) <= S(n)
        BY <1>8, <3>1
      <3> HIDE DEF n
      <3>3. S(n + 1) = gap[n + 1] + S(n) /\ gap[n + 1] \in Nat
        BY <1>2, <1>6, <3>1
      <3>4. S(m) \in Nat /\ S(n) \in Nat
        BY <1>5, <3>1
      <3>5. S(m) <= S(n + 1)
        BY <3>2, <3>3, <3>4
      <3>6. QED
        BY <3>1, <3>5
    <2>2. QED
      BY <2>1
  <1>9. Nat \subseteq P
    <2> HIDE DEF P
    <2>1. QED
      BY <1>7, <1>8, Climb
  <1>10. ASSUME NEW m \in 1..len, NEW n \in 1..len, m <= n PROVE S(m) <= S(n)
    <2> DEFINE d == n - m
    <2>1. d \in Nat /\ m + d = n
      BY <1>10
    <2> HIDE DEF d
    <2>2. d \in P
      BY <1>9, <2>1
    <2>3. QED
      BY <2>1, <2>2
  <1>11. QED
    BY <1>5, <1>10 DEF S

(***************************************************************************)
(* So it does over the sequences the run goes through (rateLimiter.allow). *)
(***************************************************************************)
THEOREM LimitIsKeptCorrect == Spec => []LimitIsKept
  <1>1. LimitIsKept
    <2>1. ASSUME NEW gap \in [1..4 -> {0, 1, 4}], NEW flaws
          PROVE  KeepsLimit([n \in 1..4 |-> [at |-> SumFunctionOnSet(gap, 1..n), flaws |-> flaws[n]]])
      <3> DEFINE S(n) == SumFunctionOnSet(gap, 1..n)
                 requests == [n \in 1..4 |-> [at |-> S(n), flaws |-> flaws[n]]]
      <3>1. gap \in [1..4 -> Nat]
        OBVIOUS
      <3>2. /\ \A n \in 1..4 : S(n) \in Nat
            /\ \A m, n \in 1..4 : m <= n => S(m) <= S(n)
        BY <3>1, SumsClimb
      <3> HIDE DEF S
      <3>3. DOMAIN requests = 1..4 /\ \A n \in 1..4 : requests[n].at = S(n)
        OBVIOUS
      <3> HIDE DEF requests
      <3>4. InOrderOfTime(requests)
        BY <3>2, <3>3 DEF InOrderOfTime
      <3>5. KeepsLimit(requests)
        BY <3>4, RateLimitIsKept
      <3>6. QED
        BY <3>5 DEF requests, S
    <2>2. QED
      BY <2>1 DEF LimitIsKept
  <1>2. QED
    BY <1>1, PTL
=============================================================================
