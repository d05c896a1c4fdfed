---------------------------- MODULE BotLoopProofs ----------------------------
(***************************************************************************)
(* Proofs about the loops of the bot: the announcer, which posts the rows  *)
(* of server_logs (Announcer), the member sync (MemberRoster), what they   *)
(* are for, playtime and payslips (Payroll), and the attendance scheduler  *)
(* (AttendanceSchedule); for any limits, clocks, guilds, visits, schedules *)
(* and numbers of faults and edits.                                        *)
(*                                                                         *)
(* The announcer.  AnnounceInv is inductive.  That no row is passed over   *)
(* rests on the pass being in the order of the ids, without a gap but for  *)
(* rows that had not committed (PassIsWhole), and on an edit keeping what  *)
(* the message told: the posted message that is edited is known with every *)
(* row it tells of (Kept).  That a message is one change rests on the      *)
(* remembered message being one, with the time of one of its rows (Fits).  *)
(*                                                                         *)
(* The scheduler.  ScheduleInv is inductive.  A call lasts a unit at most  *)
(* (CallFits), and the loop waits for the boundary that follows the time   *)
(* it read (LoopFits), so none fires twice (FiredFits).  An evening that   *)
(* ended and is not saved is carried by the loop or by its final recap     *)
(* (Carried), or is lost; what is lost, and the end the loop is about to   *)
(* oversleep (Debt), is paid for by the faults and the edits (Paid).       *)
(*                                                                         *)
(* The recap messages.  RecapInv strengthens ScheduleInv: the messages of  *)
(* a window and those it may still get (Owes) are one and one more per     *)
(* fault and edit (Few); an evening that ended shows its result or has a   *)
(* call that brings it (Brought), and no live call is behind a final       *)
(* result, whose evening is past (ResultsFit).                             *)
(***************************************************************************)
EXTENDS Announcer, MCAttendance, CommonLemmas

\* A sequence, typed by its own elements.
IsList(s) == s \in Seq({s[n] : n \in DOMAIN s})

RowsFit ==
  /\ IsList(rows)
  /\ \A id \in DOMAIN rows : /\ rows[id].source \in Sources
                             /\ rows[id].status \in StatusSet
                             /\ rows[id].at \in Nat
                             /\ rows[id].state \in {"open", "committed", "gone"}
                             /\ "state" \in DOMAIN rows[id]

CursorsFit ==
  /\ now \in Nat
  /\ cursor \in 0..Len(rows) /\ seed \in 0..cursor

\* The pass goes up from the cursor, through committed rows.
PassGoesUp ==
  /\ IsList(pass)
  /\ \A m, n \in DOMAIN pass : m < n => pass[m].id < pass[n].id
  /\ \A n \in DOMAIN pass :
       /\ pass[n].id \in DOMAIN rows /\ rows[pass[n].id].state = "committed"
       /\ cursor < pass[n].id
       /\ rows[pass[n].id].source \in pass[n].sources /\ pass[n].sources \subseteq Sources
       /\ pass[n].since # 0 => rows[pass[n].id].source # "server"

InPass(id) == \E n \in DOMAIN pass : pass[n].id = id

\* What the pass leaves out below its last row had not committed.
PassIsWhole ==
  \A n \in DOMAIN pass, id \in DOMAIN rows :
    cursor < id /\ id <= pass[n].id /\ rows[id].state # "gone" => id \in overtaken \/ InPass(id)

\* The rows told, in the table rs, are one change, and are told at their best.
OneChange(rs, told, rendered) ==
  \A q, r \in told :
    /\ rs[q].status = rendered.status
    /\ q # r => /\ rs[q].source # rs[r].source
                /\ Abs(rs[q].at - rs[r].at) <= MergeWindow
    /\ SourceTrust(rs[rendered.shown].source) <= SourceTrust(rs[q].source)
    /\ rs[q].source \in rendered.sources

\* A rendering of the rows told.
Renders(rs, told, rendered) ==
  /\ told \subseteq DOMAIN rs
  /\ rendered \in [status : StatusSet, shown : DOMAIN rs, sources : SUBSET Sources]
  /\ OneChange(rs, told, rendered)

Remembered(status, record) == [status |-> status, shown |-> record.shown, sources |-> record.sources]

\* A message the bot remembers is up, and is remembered as a rendering.
Fits(rs, messages, status, record) ==
  /\ record.message \in DOMAIN messages
  /\ messages[record.message].rendered.status = status
  /\ Renders(rs, record.told, Remembered(status, record))
  /\ \E q \in record.told : record.at = rs[q].at

MessagesFit(rs, messages) ==
  /\ IsList(messages)
  /\ \A n \in DOMAIN messages : Renders(rs, messages[n].told, messages[n].rendered)

\* The table of remembered messages.
TableFits(rs, messages, table) ==
  /\ DOMAIN table = StatusSet
  /\ \A status \in StatusSet :
       table[status] = Nothing \/ Fits(rs, messages, status, table[status])

\* A message tells of the row, and goes on to: an edit of it keeps the row.
Kept(messages, table, id) ==
  \E n \in DOMAIN messages :
    /\ id \in messages[n].told
    /\ \A status \in StatusSet :
         table[status] # Nothing /\ table[status].message = n => id \in table[status].told

Dropped(id) == id \in skipped /\ rows[id].source # "server"

\* What became of the rows behind the cursor.
Accounted ==
  \A id \in DOMAIN rows :
    seed < id /\ id <= cursor /\ rows[id].state # "gone" =>
      id \in overtaken \/ Dropped(id) \/ Kept(channel, posted, id)

AnnounceInv ==
  /\ RowsFit /\ CursorsFit
  /\ PassGoesUp /\ PassIsWhole
  /\ MessagesFit(rows, channel) /\ TableFits(rows, channel, posted)
  /\ Accounted

-----------------------------------------------------------------------------
\* A set of numbers can be put in order, and InOrder leaves none out.
LEMMA InOrderIsWhole ==
  ASSUME NEW ids \in SUBSET Int, IsFiniteSet(ids)
  PROVE  LET k == Cardinality(ids)
             seq == InOrder(ids)
         IN  /\ k \in Nat
             /\ seq \in [1..k -> ids]
             /\ \A m, n \in 1..k : m < n => seq[m] < seq[n]
             /\ \A x \in ids : \E n \in 1..k : seq[n] = x
  <1> DEFINE k == Cardinality(ids)
             Below(x) == {y \in ids : y <= x}
             rank == [x \in ids |-> Cardinality(Below(x))]
  <1>0. \A x \in ids : x \in Int
    OBVIOUS
  <1>1. k \in Nat /\ IsFiniteSet(1..k) /\ Cardinality(1..k) = k
    BY FS_CardinalityType, FS_Interval
  <1>2. \A x \in ids : Below(x) \in SUBSET ids /\ IsFiniteSet(Below(x))
    BY FS_Subset
  <1>3. ASSUME NEW x \in ids PROVE Cardinality(Below(x)) \in 1..k
    <2>1. {x} \in SUBSET Below(x) /\ Cardinality({x}) = 1
      BY FS_Singleton
    <2>2. Cardinality(Below(x)) \in Nat /\ Cardinality(Below(x)) <= k
      BY <1>2, FS_Subset, FS_CardinalityType
    <2> HIDE DEF Below
    <2>3. Cardinality({x}) <= Cardinality(Below(x))
      BY <1>2, <2>1, FS_Subset
    <2>4. QED
      BY <1>1, <2>1, <2>2, <2>3
  <1>4. ASSUME NEW x \in ids, NEW z \in ids, x < z
        PROVE  Cardinality(Below(x)) < Cardinality(Below(z))
    <2>0. \A y \in ids : y <= x => y <= z
      BY <1>0, <1>4
    <2>1. Below(x) \in SUBSET Below(z) /\ z \in Below(z) /\ z \notin Below(x)
      <3>1. z <= z /\ ~(z <= x)
        BY <1>0, <1>4
      <3>2. QED
        BY <2>0, <3>1, Zenon
    <2>2. Cardinality(Below(x)) \in Nat /\ Cardinality(Below(z)) \in Nat
      BY <1>3, <1>1
    <2>3. Below(x) # Below(z)
      BY <2>1
    <2>4. IsFiniteSet(Below(z))
      BY <1>2
    <2> HIDE DEF Below
    <2>5. Cardinality(Below(x)) <= Cardinality(Below(z)) /\ Cardinality(Below(x)) # Cardinality(Below(z))
      BY <2>1, <2>3, <2>4, FS_Subset
    <2>6. QED
      BY <2>2, <2>5
  <1> HIDE DEF Below
  <1>5. \A x \in ids : rank[x] \in 1..k
    BY <1>3
  <1>6. \A x, z \in ids : x < z => rank[x] < rank[z]
    BY <1>4
  <1>7. rank \in [ids -> 1..k]
    BY <1>3
  <1> HIDE DEF rank
  <1>8. \A x, z \in ids : rank[x] = rank[z] => x = z
    BY <1>1, <1>5, <1>6
  <1>9. rank \in Injection(ids, 1..k)
    BY <1>7, <1>8, Zenon DEF Injection, IsInjective
  <1>10. rank \in Surjection(ids, 1..k)
    BY <1>1, <1>9, FS_Injection
  <1>11. \A n \in 1..k : \E x \in ids : rank[x] = n
    BY <1>10, Zenon DEF Surjection
  <1> DEFINE place == [n \in 1..k |-> CHOOSE x \in ids : rank[x] = n]
  <1>12. \A n \in 1..k : place[n] \in ids /\ rank[place[n]] = n
    BY <1>11, Zenon
  <1>13. place \in [1..k -> ids] /\ DOMAIN place = 1..k
    BY <1>12
  <1> HIDE DEF place
  <1>14. \A m, n \in DOMAIN place : m < n => place[m] < place[n]
    <2> SUFFICES ASSUME NEW m \in 1..k, NEW n \in 1..k, m < n
                 PROVE  place[m] < place[n]
      BY <1>13
    <2>1. place[m] \in ids /\ place[n] \in ids /\ rank[place[m]] = m /\ rank[place[n]] = n
      BY <1>12
    <2>2. m \in Int /\ n \in Int
      BY <1>1
    <2>3. place[m] \in Int /\ place[n] \in Int
      BY <1>0, <2>1
    <2>4. QED
      BY <1>6, <2>1, <2>2, <2>3
  <1> DEFINE seq == InOrder(ids)
  <1>15. seq \in [1..k -> ids] /\ \A m, n \in DOMAIN seq : m < n => seq[m] < seq[n]
    BY <1>13, <1>14, Zenon DEF InOrder
  <1> HIDE DEF seq
  <1>16. \A m, n \in 1..k : m < n => seq[m] < seq[n]
    BY <1>15
  <1>17. \A m, n \in 1..k : seq[m] = seq[n] => m = n
    <2> SUFFICES ASSUME NEW m \in 1..k, NEW n \in 1..k, seq[m] = seq[n] PROVE m = n
      OBVIOUS
    <2>1. m \in Int /\ n \in Int
      BY <1>1
    <2>2. seq[m] \in Int /\ seq[n] \in Int
      BY <1>0, <1>15
    <2>3. QED
      BY <1>16, <2>1, <2>2
  <1>18. seq \in Injection(1..k, ids)
    BY <1>15, <1>17, Zenon DEF Injection, IsInjective
  <1>19. seq \in Surjection(1..k, ids)
    BY <1>1, <1>18, FS_Injection
  <1>20. \A x \in ids : \E n \in 1..k : seq[n] = x
    BY <1>19, Zenon DEF Surjection
  <1> HIDE DEF k
  <1>21. QED
    BY <1>1, <1>15, <1>16, <1>20 DEF k, seq

\* What is left of a sequence without its first element.
LEMMA FirstTaken ==
  ASSUME NEW s, IsList(s), s # <<>>
  PROVE  /\ DOMAIN s = 1..Len(s) /\ Len(s) \in Nat \ {0} /\ 1 \in DOMAIN s /\ Head(s) = s[1]
         /\ IsList(Tail(s)) /\ DOMAIN Tail(s) = 1..(Len(s) - 1)
         /\ \A n \in DOMAIN Tail(s) : n + 1 \in DOMAIN s /\ n + 1 # 1 /\ Tail(s)[n] = s[n + 1]
         /\ \A n \in DOMAIN s : n # 1 => n - 1 \in DOMAIN Tail(s) /\ Tail(s)[n - 1] = s[n]
  <1> DEFINE T == {s[n] : n \in DOMAIN s}
             t == Tail(s)
  <1>1. s \in Seq(T)
    BY DEF IsList
  <1>2. DOMAIN s = 1..Len(s) /\ Len(s) \in Nat
    BY <1>1
  <1>3. Len(s) # 0
    BY <1>1
  <1>4. Head(s) = s[1] /\ t \in Seq(T) /\ Len(t) = Len(s) - 1 /\ \A n \in 1..Len(t) : t[n] = s[n + 1]
    BY <1>1, HeadTailProperties
  <1> HIDE DEF t, T
  <1>5. DOMAIN t = 1..Len(t) /\ Len(t) \in Nat
    BY <1>4
  <1>6. t \in Seq({t[n] : n \in DOMAIN t})
    <2>1. t \in [1..Len(t) -> {t[n] : n \in DOMAIN t}]
      BY <1>4, <1>5
    <2>2. QED
      BY <1>5, <2>1, SeqDef
  <1>7. IsList(t)
    BY <1>6 DEF IsList
  <1>8. \A n \in DOMAIN t : n + 1 \in DOMAIN s /\ n + 1 # 1 /\ t[n] = s[n + 1]
    BY <1>2, <1>4, <1>5
  <1>9. \A n \in DOMAIN s : n # 1 => n - 1 \in DOMAIN t /\ t[n - 1] = s[n]
    <2> SUFFICES ASSUME NEW n \in DOMAIN s, n # 1 PROVE n - 1 \in DOMAIN t /\ t[n - 1] = s[n]
      OBVIOUS
    <2>1. n \in Int /\ n - 1 \in 1..Len(t) /\ (n - 1) + 1 = n
      BY <1>2, <1>4
    <2>2. QED
      BY <1>4, <1>5, <2>1
  <1>10. QED
    BY <1>2, <1>3, <1>4, <1>5, <1>7, <1>8, <1>9 DEF t


-----------------------------------------------------------------------------
\* The row a pass is at.
LEMMA CurrentFits ==
  ASSUME AnnounceInv, pass # <<>>
  PROVE  /\ Current = pass[1] /\ 1 \in DOMAIN pass
         /\ Current.id \in DOMAIN rows /\ cursor < Current.id
         /\ CurrentRow.source \in Sources /\ CurrentRow.status \in StatusSet
         /\ CurrentRow.at \in Nat
         /\ CurrentRow.source \in Current.sources /\ Current.sources \subseteq Sources
         /\ Current.since # 0 => CurrentRow.source # "server"
  <1>1. IsList(pass)
    BY DEF AnnounceInv, PassGoesUp
  <1>2. Current = pass[1] /\ 1 \in DOMAIN pass
    BY <1>1, FirstTaken DEF Current
  <1>3. QED
    BY <1>2 DEF AnnounceInv, PassGoesUp, RowsFit, CurrentRow

\* What is sent is a rendering of the rows it tells of.
LEMMA RenderIsRight ==
  ASSUME AnnounceInv, pass # <<>>
  PROVE  /\ Renders(rows, Tells, Render) /\ Current.id \in Tells
         /\ Render.status = CurrentRow.status
  <1> USE DEF SourceTrust
  <1>0. Current.id \in Tells /\ Render.status = CurrentRow.status
    BY DEF Tells, Render
  <1>r. /\ Render.shown \in DOMAIN rows /\ Render.sources \subseteq Sources
        /\ CurrentRow.status \in StatusSet
        => Render \in [status : StatusSet, shown : DOMAIN rows, sources : SUBSET Sources]
    BY <1>0 DEF Render
  <1>1. /\ Current.id \in DOMAIN rows
        /\ CurrentRow.source \in Sources /\ CurrentRow.status \in StatusSet
        /\ CurrentRow.at \in Nat
        /\ CurrentRow.source \in Current.sources /\ Current.sources \subseteq Sources
        /\ CurrentRow = rows[Current.id]
    BY CurrentFits DEF CurrentRow
  <1>2. CASE ~Joins
    <2>1. Tells = {Current.id} /\ Render.shown = Current.id /\ Render.sources = Current.sources
      BY <1>2 DEF Tells, Render
    <2>2. OneChange(rows, Tells, Render)
      BY <1>0, <1>1, <2>1 DEF OneChange
    <2>3. QED
      BY <1>0, <1>r, <1>1, <2>1, <2>2 DEF Renders
  <1>3. CASE Joins
    <2> DEFINE p == Previous
               first == Remembered(CurrentRow.status, p)
    <2>1. Fits(rows, channel, CurrentRow.status, p)
      BY <1>1, <1>3 DEF Joins, Previous, AnnounceInv, TableFits
    <2>2. /\ Renders(rows, p.told, first)
          /\ \E q \in p.told : p.at = rows[q].at
          /\ first.status = CurrentRow.status /\ first.shown = p.shown /\ first.sources = p.sources
      BY <2>1 DEF Fits, Remembered
    <2>3. /\ p.told \subseteq DOMAIN rows /\ p.shown \in DOMAIN rows /\ p.sources \subseteq Sources
          /\ \A q, r \in p.told :
               /\ rows[q].status = CurrentRow.status
               /\ q # r => rows[q].source # rows[r].source
               /\ SourceTrust(rows[p.shown].source) <= SourceTrust(rows[q].source)
               /\ rows[q].source \in p.sources
      BY <2>2, Zenon DEF Renders, OneChange
    <2>4. CurrentRow.source \notin p.sources /\ Abs(CurrentRow.at - p.at) <= MergeWindow
      BY <1>3 DEF Joins
    <2>5. /\ Tells = {Current.id} \cup p.told
          /\ Render.sources = Current.sources \cup p.sources
          /\ Render.shown = IF SourceTrust(CurrentRow.source) >= SourceTrust(rows[p.shown].source)
                            THEN p.shown ELSE Current.id
      BY <1>3 DEF Tells, Render
    <2>6. \A id \in DOMAIN rows : rows[id].source \in Sources /\ rows[id].at \in Nat
      BY DEF AnnounceInv, RowsFit
    <2> HIDE DEF p, first
    \* There are two witnesses: the message told of one row, of the other one.
    <2>7. PICK q \in p.told : p.told = {q} /\ p.at = rows[q].at
      <3>1. \A q, r \in p.told : rows[q].source = rows[r].source
        BY <1>1, <2>3, <2>4, <2>6 DEF Sources
      <3>2. \A q, r \in p.told : q = r
        BY <2>3, <3>1
      <3>3. QED
        BY <2>2, <3>2
    <2>8. /\ q \in DOMAIN rows /\ rows[q].status = CurrentRow.status
          /\ rows[q].source \in p.sources /\ rows[q].source # CurrentRow.source
          /\ SourceTrust(rows[p.shown].source) <= SourceTrust(rows[q].source)
          /\ rows[q].at \in Nat
      BY <2>3, <2>4, <2>6
    <2>9. Tells = {Current.id, q}
      BY <2>5, <2>7
    <2>10. /\ Abs(CurrentRow.at - rows[q].at) <= MergeWindow
           /\ Abs(rows[q].at - CurrentRow.at) <= MergeWindow
      <3>1. CurrentRow.at \in Int /\ rows[q].at \in Int
        BY <1>1, <2>8
      <3>2. Abs(CurrentRow.at - rows[q].at) = Abs(rows[q].at - CurrentRow.at)
        BY <3>1 DEF Abs
      <3>3. Abs(CurrentRow.at - rows[q].at) <= MergeWindow
        BY <2>4, <2>7
      <3>4. QED
        BY <3>2, <3>3
    <2>11. /\ Render.shown \in DOMAIN rows
           /\ SourceTrust(rows[Render.shown].source) <= SourceTrust(rows[q].source)
           /\ SourceTrust(rows[Render.shown].source) <= SourceTrust(CurrentRow.source)
      <3>1. /\ SourceTrust(CurrentRow.source) \in Int
            /\ SourceTrust(rows[p.shown].source) \in Int /\ SourceTrust(rows[q].source) \in Int
        OBVIOUS
      <3> HIDE DEF SourceTrust
      <3>2. QED
        BY <1>1, <2>3, <2>5, <2>8, <3>1
    <2>12. /\ rows[q].source \in Render.sources /\ CurrentRow.source \in Render.sources
           /\ Render.sources \subseteq Sources
      BY <1>1, <2>3, <2>5, <2>8
    <2> HIDE DEF SourceTrust
    <2>13. OneChange(rows, Tells, Render)
      <3> SUFFICES ASSUME NEW x \in Tells, NEW y \in Tells
                   PROVE  /\ rows[x].status = Render.status
                          /\ x # y => /\ rows[x].source # rows[y].source
                                      /\ Abs(rows[x].at - rows[y].at) <= MergeWindow
                          /\ SourceTrust(rows[Render.shown].source) <= SourceTrust(rows[x].source)
                          /\ rows[x].source \in Render.sources
        BY Zenon DEF OneChange
      <3>1. CASE x = q
        BY <1>0, <1>1, <2>8, <2>9, <2>10, <2>11, <2>12, <3>1
      <3>2. CASE x = Current.id
        BY <1>0, <1>1, <2>8, <2>9, <2>10, <2>11, <2>12, <3>2
      <3>3. QED
        BY <2>9, <3>1, <3>2
    <2>14. QED
      BY <1>0, <1>r, <1>1, <2>8, <2>9, <2>11, <2>12, <2>13 DEF Renders
  <1>4. QED
    BY <1>2, <1>3

\* What is remembered of a message that was sent.
LEMMA RecordFits ==
  ASSUME AnnounceInv, pass # <<>>, NEW messages, NEW m \in DOMAIN messages,
         messages[m].rendered = Render,
         NEW record, record.message = m, record.shown = Render.shown,
         record.sources = Render.sources, record.at = CurrentRow.at, record.told = Tells
  PROVE  Fits(rows, messages, CurrentRow.status, record)
  <1>1. Renders(rows, Tells, Render) /\ Current.id \in Tells /\ Render.status = CurrentRow.status
    BY RenderIsRight
  <1>2. Remembered(CurrentRow.status, record) = Render
    BY <1>1 DEF Remembered, Render
  <1>3. record.at = rows[Current.id].at
    BY DEF CurrentRow
  <1>4. QED
    BY <1>1, <1>2, <1>3 DEF Fits


-----------------------------------------------------------------------------
\* Rows are added, and no row changes what it reports.
RowsKeep(rs, rs2) ==
  /\ DOMAIN rs \subseteq DOMAIN rs2
  /\ \A id \in DOMAIN rs : /\ rs2[id].source = rs[id].source
                           /\ rs2[id].status = rs[id].status
                           /\ rs2[id].at = rs[id].at

LEMMA RendersKeep ==
  ASSUME NEW rs, NEW rs2, RowsKeep(rs, rs2), NEW told, NEW rendered, Renders(rs, told, rendered)
  PROVE  Renders(rs2, told, rendered)
  <1>1. OneChange(rs2, told, rendered)
    <2> SUFFICES ASSUME NEW q \in told, NEW r \in told
                 PROVE  /\ rs2[q].status = rendered.status
                        /\ q # r => /\ rs2[q].source # rs2[r].source
                                    /\ Abs(rs2[q].at - rs2[r].at) <= MergeWindow
                        /\ SourceTrust(rs2[rendered.shown].source) <= SourceTrust(rs2[q].source)
                        /\ rs2[q].source \in rendered.sources
      BY Zenon DEF OneChange
    <2>1. q \in DOMAIN rs /\ r \in DOMAIN rs /\ rendered.shown \in DOMAIN rs
      BY DEF Renders
    <2>2. /\ rs2[q].source = rs[q].source /\ rs2[r].source = rs[r].source
          /\ rs2[q].status = rs[q].status
          /\ rs2[q].at = rs[q].at /\ rs2[r].at = rs[r].at
          /\ rs2[rendered.shown].source = rs[rendered.shown].source
      BY <2>1, Zenon DEF RowsKeep
    <2>3. QED
      BY <2>2, Zenon DEF Renders, OneChange
  <1>2. QED
    BY <1>1 DEF Renders, RowsKeep

LEMMA FitsKeep ==
  ASSUME NEW rs, NEW rs2, RowsKeep(rs, rs2),
         NEW messages, NEW status, NEW record, Fits(rs, messages, status, record)
  PROVE  Fits(rs2, messages, status, record)
  <1>1. Renders(rs2, record.told, Remembered(status, record))
    BY RendersKeep DEF Fits
  <1>2. PICK q \in record.told : record.at = rs[q].at
    BY DEF Fits
  <1>3. record.at = rs2[q].at
    BY <1>2 DEF Fits, Renders, RowsKeep
  <1>4. QED
    BY <1>1, <1>3 DEF Fits

LEMMA TableKeeps ==
  ASSUME NEW rs, NEW rs2, RowsKeep(rs, rs2), NEW messages, NEW table, TableFits(rs, messages, table)
  PROVE  TableFits(rs2, messages, table)
  BY FitsKeep, Zenon DEF TableFits

\* Messages are added, and none changes which status it is about.
MessagesKeep(messages, messages2) ==
  /\ DOMAIN messages \subseteq DOMAIN messages2
  /\ \A n \in DOMAIN messages : messages2[n].rendered.status = messages[n].rendered.status

LEMMA TableStays ==
  ASSUME NEW rs, NEW messages, NEW messages2, MessagesKeep(messages, messages2),
         NEW table, TableFits(rs, messages, table)
  PROVE  TableFits(rs, messages2, table)
  <1>1. ASSUME NEW status, NEW record, Fits(rs, messages, status, record)
        PROVE  Fits(rs, messages2, status, record)
    BY <1>1 DEF Fits, MessagesKeep
  <1>2. QED
    BY <1>1, Zenon DEF TableFits

\* A message is remembered for its status.
LEMMA TableRecords ==
  ASSUME NEW rs, NEW messages, NEW table, TableFits(rs, messages, table),
         NEW status \in StatusSet, NEW record, Fits(rs, messages, status, record)
  PROVE  TableFits(rs, messages, [table EXCEPT ![status] = record])
  BY Zenon DEF TableFits

\* The table forgets some messages.
Forgets(table, table2) ==
  /\ DOMAIN table2 = StatusSet
  /\ \A status \in StatusSet : table2[status] = Nothing \/ table2[status] = table[status]

LEMMA TableForgets ==
  ASSUME NEW rs, NEW messages, NEW table, NEW table2, Forgets(table, table2)
  PROVE  /\ TableFits(rs, messages, table) => TableFits(rs, messages, table2)
         /\ \A id : Kept(messages, table, id) => Kept(messages, table2, id)
  <1>1. TableFits(rs, messages, table) => TableFits(rs, messages, table2)
    BY Zenon DEF TableFits, Forgets
  <1>2. ASSUME NEW id, Kept(messages, table, id)
        PROVE  Kept(messages, table2, id)
    <2>1. PICK n \in DOMAIN messages :
            /\ id \in messages[n].told
            /\ \A status \in StatusSet :
                 table[status] # Nothing /\ table[status].message = n => id \in table[status].told
      BY <1>2, Zenon DEF Kept
    <2>2. \A status \in StatusSet :
            table2[status] # Nothing /\ table2[status].message = n => id \in table2[status].told
      BY <2>1, Zenon DEF Forgets
    <2>3. QED
      BY <2>1, <2>2, Zenon DEF Kept
  <1>3. QED
    BY <1>1, <1>2

LEMMA AdvanceForgets ==
  ASSUME NEW remembered, DOMAIN remembered = StatusSet, Advance(remembered)
  PROVE  Forgets(remembered, posted')
  <1>1. Forgets(remembered, Pruned(remembered))
    BY Zenon DEF Forgets, Pruned
  <1>2. Forgets(remembered, remembered)
    BY DEF Forgets
  <1>3. posted' = Pruned(remembered) \/ posted' = remembered
    BY DEF Advance
  <1>4. QED
    BY <1>1, <1>2, <1>3


\* The lists of the library of lemmas.
LEMMA MessageAdded ==
  ASSUME NEW s, IsList(s), NEW r
  PROVE  /\ IsList(Append(s, r)) /\ DOMAIN s = 1..Len(s) /\ Len(s) \in Nat
         /\ DOMAIN Append(s, r) = DOMAIN s \cup {Len(s) + 1} /\ Append(s, r)[Len(s) + 1] = r
         /\ Len(Append(s, r)) = Len(s) + 1
         /\ \A n \in DOMAIN s : Append(s, r)[n] = s[n] /\ n # Len(s) + 1
  <1>1. s \in Seq({s[n] : n \in DOMAIN s})
    BY DEF IsList
  <1>2. /\ Append(s, r) \in Seq({Append(s, r)[n] : n \in DOMAIN Append(s, r)})
        /\ Len(s) \in Nat /\ DOMAIN s = 1..Len(s)
        /\ DOMAIN Append(s, r) = DOMAIN s \cup {Len(s) + 1} /\ Append(s, r)[Len(s) + 1] = r
        /\ \A n \in DOMAIN s : Append(s, r)[n] = s[n] /\ n # Len(s) + 1
    BY <1>1, RowAppended
  <1>3. Len(Append(s, r)) = Len(s) + 1
    <2>1. s \in Seq({s[n] : n \in DOMAIN s} \cup {r}) /\ r \in {s[n] : n \in DOMAIN s} \cup {r}
      BY <1>1, SeqMonotonic
    <2>2. QED
      BY <2>1, AppendProperties
  <1>4. QED
    BY <1>2, <1>3 DEF IsList

LEMMA MessageChanged ==
  ASSUME NEW s, IsList(s), NEW k \in DOMAIN s, NEW r
  PROVE  /\ IsList([s EXCEPT ![k] = r])
         /\ DOMAIN [s EXCEPT ![k] = r] = DOMAIN s /\ Len([s EXCEPT ![k] = r]) = Len(s)
         /\ \A n \in DOMAIN s : [s EXCEPT ![k] = r][n] = IF n = k THEN r ELSE s[n]
  <1>1. s \in Seq({s[n] : n \in DOMAIN s})
    BY DEF IsList
  <1> DEFINE t == [s EXCEPT ![k] = r]
  <1>2. /\ t \in Seq({t[n] : n \in DOMAIN t})
        /\ DOMAIN t = DOMAIN s /\ Len(t) = Len(s)
        /\ \A n \in DOMAIN s : t[n] = IF n = k THEN r ELSE s[n]
    BY <1>1, RowChanged, ZenonT(40)
  <1>3. QED
    BY <1>2 DEF IsList

-----------------------------------------------------------------------------
\* What record writes: one entry of the table.
LEMMA RecordedIs ==
  ASSUME AnnounceInv, pass # <<>>, NEW m
  PROVE  /\ DOMAIN Recorded(m) = StatusSet
         /\ CurrentRow.status \in StatusSet
         /\ Recorded(m)[CurrentRow.status].message = m
         /\ Recorded(m)[CurrentRow.status].shown = Render.shown
         /\ Recorded(m)[CurrentRow.status].sources = Render.sources
         /\ Recorded(m)[CurrentRow.status].at = CurrentRow.at
         /\ Recorded(m)[CurrentRow.status].told = Tells
         /\ Recorded(m) = [posted EXCEPT ![CurrentRow.status] = Recorded(m)[CurrentRow.status]]
         /\ \A status \in StatusSet : status # CurrentRow.status => Recorded(m)[status] = posted[status]
  <1>1. CurrentRow.status \in StatusSet
    BY CurrentFits
  <1>2. DOMAIN posted = StatusSet
    BY DEF AnnounceInv, TableFits
  <1> DEFINE record == [message |-> m, shown |-> Render.shown, sources |-> Render.sources,
                        at |-> CurrentRow.at, told |-> Tells]
  <1>3. Recorded(m) = [posted EXCEPT ![CurrentRow.status] = record]
    BY DEF Recorded
  <1>4. /\ record.message = m /\ record.shown = Render.shown /\ record.sources = Render.sources
        /\ record.at = CurrentRow.at /\ record.told = Tells
    OBVIOUS
  <1> HIDE DEF record
  <1>5. QED
    BY <1>1, <1>2, <1>3, <1>4

\* A message was sent, as m; the others are as they were.
Sends(messages, messages2, m) ==
  /\ IsList(messages2) /\ m \in DOMAIN messages2
  /\ messages2[m].rendered = Render /\ messages2[m].told = Tells
  /\ DOMAIN messages \subseteq DOMAIN messages2 /\ DOMAIN messages2 \subseteq DOMAIN messages \cup {m}
  /\ \A n \in DOMAIN messages : n # m => messages2[n] = messages[n]

\* It is the one that was remembered for the status, or a new one.
LEMMA SentFits ==
  ASSUME AnnounceInv, pass # <<>>, NEW messages2, NEW m, Sends(channel, messages2, m),
         m \in DOMAIN channel => Joins /\ m = Previous.message
  PROVE  /\ MessagesFit(rows, messages2)
         /\ TableFits(rows, messages2, posted)
         /\ TableFits(rows, messages2, Recorded(m))
         /\ \A id : Kept(channel, posted, id) =>
                      Kept(messages2, posted, id) /\ Kept(messages2, Recorded(m), id)
         /\ Kept(messages2, Recorded(m), Current.id)
  <1>1. /\ Renders(rows, Tells, Render) /\ Current.id \in Tells
        /\ Render.status = CurrentRow.status
    BY RenderIsRight
  <1>2. MessagesFit(rows, channel) /\ TableFits(rows, channel, posted)
    BY DEF AnnounceInv
  <1>3. MessagesFit(rows, messages2)
    <2>1. ASSUME NEW n \in DOMAIN messages2
          PROVE  Renders(rows, messages2[n].told, messages2[n].rendered)
      <3>1. CASE n = m
        BY <1>1, <3>1 DEF Sends
      <3>2. CASE n # m
        BY <1>2, <3>2 DEF Sends, MessagesFit
      <3>3. QED
        BY <3>1, <3>2
    <2>2. QED
      BY <2>1 DEF MessagesFit, Sends
  \* The table remembers a message for its status only.
  <1>4. \A status \in StatusSet :
          posted[status] # Nothing =>
            /\ posted[status].message \in DOMAIN channel
            /\ channel[posted[status].message].rendered.status = status
    BY <1>2 DEF TableFits, Fits
  <1>5. CurrentRow.status \in StatusSet
    BY CurrentFits
  <1>6. m \in DOMAIN channel =>
          /\ posted[CurrentRow.status] # Nothing /\ posted[CurrentRow.status].message = m
          /\ posted[CurrentRow.status].told \subseteq Tells
    BY DEF Joins, Previous, Tells
  <1>7. MessagesKeep(channel, messages2)
    BY <1>1, <1>4, <1>5, <1>6 DEF Sends, MessagesKeep
  <1>8. TableFits(rows, messages2, posted)
    BY <1>2, <1>7, TableStays
  <1> DEFINE record == Recorded(m)[CurrentRow.status]
  <1>9. /\ DOMAIN Recorded(m) = StatusSet
        /\ record.message = m /\ record.shown = Render.shown /\ record.sources = Render.sources
        /\ record.at = CurrentRow.at /\ record.told = Tells
        /\ Recorded(m) = [posted EXCEPT ![CurrentRow.status] = record]
        /\ \A status \in StatusSet : status # CurrentRow.status => Recorded(m)[status] = posted[status]
    BY RecordedIs
  <1>10. m \in DOMAIN messages2 /\ messages2[m].rendered = Render
    BY DEF Sends
  <1> HIDE DEF record
  <1>11. Fits(rows, messages2, CurrentRow.status, record)
    BY <1>9, <1>10, RecordFits
  <1>12. TableFits(rows, messages2, Recorded(m))
    <2>1. TableFits(rows, messages2, [posted EXCEPT ![CurrentRow.status] = record])
      BY <1>5, <1>8, <1>11, TableRecords
    <2>2. QED
      BY <1>9, <2>1
  <1>13. ASSUME NEW id, Kept(channel, posted, id)
         PROVE  Kept(messages2, posted, id) /\ Kept(messages2, Recorded(m), id)
    <2>1. PICK n \in DOMAIN channel :
            /\ id \in channel[n].told
            /\ \A status \in StatusSet :
                 posted[status] # Nothing /\ posted[status].message = n => id \in posted[status].told
      BY <1>13, Zenon DEF Kept
    <2>2. n \in DOMAIN messages2
      BY DEF Sends
    <2>3. id \in messages2[n].told
      BY <1>5, <1>6, <2>1 DEF Sends
    <2>4. \A status \in StatusSet :
            Recorded(m)[status] # Nothing /\ Recorded(m)[status].message = n =>
              id \in Recorded(m)[status].told
      <3> SUFFICES ASSUME NEW status \in StatusSet,
                          Recorded(m)[status] # Nothing, Recorded(m)[status].message = n
                   PROVE  id \in Recorded(m)[status].told
        OBVIOUS
      <3>1. CASE status # CurrentRow.status
        BY <1>9, <2>1, <3>1
      <3>2. CASE status = CurrentRow.status
        <4>1. n = m
          BY <1>9, <3>2 DEF record
        <4>2. id \in Tells
          BY <1>5, <1>6, <2>1, <4>1
        <4>3. QED
          BY <1>9, <3>2, <4>2 DEF record
      <3>3. QED
        BY <3>1, <3>2
    <2>5. QED
      BY <2>1, <2>2, <2>3, <2>4, Zenon DEF Kept
  <1>14. Kept(messages2, Recorded(m), Current.id)
    <2>1. Current.id \in messages2[m].told /\ m \in DOMAIN messages2
      BY <1>1 DEF Sends
    <2>2. \A status \in StatusSet :
            Recorded(m)[status] # Nothing /\ Recorded(m)[status].message = m =>
              Current.id \in Recorded(m)[status].told
      <3> SUFFICES ASSUME NEW status \in StatusSet,
                          Recorded(m)[status] # Nothing, Recorded(m)[status].message = m
                   PROVE  Current.id \in Recorded(m)[status].told
        OBVIOUS
      <3>1. CASE status = CurrentRow.status
        BY <1>1, <1>9, <3>1 DEF record
      <3>2. CASE status # CurrentRow.status
        <4>1. posted[status] # Nothing /\ posted[status].message = m
          BY <1>9, <3>2
        <4>2. m \in DOMAIN channel /\ channel[m].rendered.status = status
          BY <1>4, <4>1
        <4>3. channel[m].rendered.status = CurrentRow.status
          BY <1>4, <1>5, <1>6, <4>2
        <4>4. QED
          BY <3>2, <4>2, <4>3
      <3>3. QED
        BY <3>1, <3>2
    <2>3. QED
      BY <2>1, <2>2, Zenon DEF Kept
  <1>15. QED
    BY <1>3, <1>8, <1>12, <1>13, <1>14

\* The two ways to send: an edit and a post.
LEMMA EditSends ==
  ASSUME AnnounceInv, pass # <<>>, Joins
  PROVE  Previous.message \in DOMAIN channel /\ Sends(channel, Edited(Previous.message), Previous.message)
  <1>1. CurrentRow.status \in StatusSet
    BY CurrentFits
  <1>2. Previous.message \in DOMAIN channel
    BY <1>1 DEF AnnounceInv, TableFits, Fits, Joins, Previous
  <1> DEFINE m == Previous.message
             r == Told(Render, Tells)
  <1>3. IsList(channel)
    BY DEF AnnounceInv, MessagesFit
  <1>4. r.rendered = Render /\ r.told = Tells
    BY DEF Told
  <1>5. Edited(m) = [channel EXCEPT ![m] = r]
    BY DEF Edited
  <1> HIDE DEF m, r
  <1>6. m \in DOMAIN channel
    BY <1>2 DEF m
  <1>7. /\ IsList([channel EXCEPT ![m] = r])
        /\ DOMAIN [channel EXCEPT ![m] = r] = DOMAIN channel
        /\ \A n \in DOMAIN channel : [channel EXCEPT ![m] = r][n] = IF n = m THEN r ELSE channel[n]
    BY <1>3, <1>6, MessageChanged
  <1>8. Sends(channel, Edited(m), m)
    BY <1>4, <1>5, <1>6, <1>7 DEF Sends
  <1>9. QED
    BY <1>6, <1>8 DEF m

LEMMA PostSends ==
  ASSUME AnnounceInv
  PROVE  /\ Len(channel) + 1 \notin DOMAIN channel
         /\ Sends(channel, Append(channel, Told(Render, Tells)), Len(channel) + 1)
  <1> DEFINE r == Told(Render, Tells)
  <1>1. IsList(channel)
    BY DEF AnnounceInv, MessagesFit
  <1>2. r.rendered = Render /\ r.told = Tells
    BY DEF Told
  <1> HIDE DEF r
  <1>3. /\ IsList(Append(channel, r)) /\ DOMAIN channel = 1..Len(channel) /\ Len(channel) \in Nat
        /\ DOMAIN Append(channel, r) = DOMAIN channel \cup {Len(channel) + 1}
        /\ Append(channel, r)[Len(channel) + 1] = r
        /\ \A n \in DOMAIN channel : Append(channel, r)[n] = channel[n] /\ n # Len(channel) + 1
    BY <1>1, MessageAdded
  <1>4. Sends(channel, Append(channel, r), Len(channel) + 1)
    BY <1>2, <1>3 DEF Sends
  <1>5. QED
    BY <1>3, <1>4 DEF r


-----------------------------------------------------------------------------
\* The pass goes on to its next row, and what it leaves behind is accounted for.
LEMMA PassGoesOn ==
  ASSUME AnnounceInv, pass # <<>>, cursor' = Current.id, pass' = Tail(pass),
         UNCHANGED <<now, rows, overtaken, seed>>
  PROVE  CursorsFit' /\ PassGoesUp' /\ PassIsWhole'
  <1>1. /\ Current = pass[1] /\ 1 \in DOMAIN pass
        /\ Current.id \in DOMAIN rows /\ cursor < Current.id
    BY CurrentFits
  <1>2. /\ DOMAIN pass = 1..Len(pass) /\ Len(pass) \in Nat
        /\ IsList(pass')
        /\ \A n \in DOMAIN pass' : n + 1 \in DOMAIN pass /\ n + 1 # 1 /\ pass'[n] = pass[n + 1]
        /\ \A n \in DOMAIN pass : n # 1 => n - 1 \in DOMAIN pass' /\ pass'[n - 1] = pass[n]
        /\ DOMAIN pass' = 1..(Len(pass) - 1)
    BY FirstTaken DEF AnnounceInv, PassGoesUp
  <1>3. RowsFit /\ CursorsFit /\ PassGoesUp /\ PassIsWhole
    BY DEF AnnounceInv
  <1>4. DOMAIN rows = 1..Len(rows) /\ Len(rows) \in Nat
    BY <1>3, OneRow DEF RowsFit, IsList
  <1>5. CursorsFit'
    <2>1. now \in Nat /\ seed \in 0..cursor /\ cursor \in 0..Len(rows)
      BY <1>3 DEF CursorsFit
    <2>2. seed \in 0..Current.id /\ Current.id \in 0..Len(rows)
      BY <1>1, <1>4, <2>1
    <2>3. QED
      BY <2>1, <2>2 DEF CursorsFit
  <1>6. \A m, n \in DOMAIN pass' : m < n => pass'[m].id < pass'[n].id
    <2> SUFFICES ASSUME NEW m \in DOMAIN pass', NEW n \in DOMAIN pass', m < n
                 PROVE  pass'[m].id < pass'[n].id
      OBVIOUS
    <2>1. m \in Int /\ n \in Int /\ m + 1 < n + 1
      BY <1>2
    <2>2. QED
      BY <1>2, <1>3, <2>1 DEF PassGoesUp
  <1>7. \A n \in DOMAIN pass' :
          /\ pass'[n].id \in DOMAIN rows /\ rows[pass'[n].id].state = "committed"
          /\ Current.id < pass'[n].id
          /\ rows[pass'[n].id].source \in pass'[n].sources /\ pass'[n].sources \subseteq Sources
          /\ pass'[n].since # 0 => rows[pass'[n].id].source # "server"
    <2> TAKE n \in DOMAIN pass'
    <2>1. n + 1 \in DOMAIN pass /\ pass'[n] = pass[n + 1] /\ n \in Int /\ 1 < n + 1
      BY <1>2
    <2>2. Current.id < pass[n + 1].id
      BY <1>1, <1>3, <2>1 DEF PassGoesUp
    <2>3. QED
      BY <1>3, <2>1, <2>2 DEF PassGoesUp
  <1>8. PassGoesUp'
    <2>1. rows' = rows /\ cursor' = Current.id
      OBVIOUS
    <2>2. QED
      BY <1>2, <1>6, <1>7, <2>1 DEF PassGoesUp
  <1>9. PassIsWhole'
    <2> SUFFICES ASSUME NEW n \in DOMAIN pass', NEW id \in DOMAIN rows,
                        Current.id < id, id <= pass'[n].id, rows[id].state # "gone",
                        id \notin overtaken
                 PROVE  InPass(id)'
      BY DEF PassIsWhole
    <2>1. n + 1 \in DOMAIN pass /\ pass'[n] = pass[n + 1]
      BY <1>2
    <2>2. cursor < id
      BY <1>1, <1>3, <1>4 DEF CursorsFit
    <2>3. PICK k \in DOMAIN pass : pass[k].id = id
      BY <1>3, <2>1, <2>2 DEF PassIsWhole, InPass
    <2>4. k # 1
      BY <1>1, <1>4, <2>3
    <2>5. k - 1 \in DOMAIN pass' /\ pass'[k - 1] = pass[k]
      BY <1>2, <2>4
    <2>6. QED
      BY <2>3, <2>5 DEF InPass
  <1>10. QED
    BY <1>5, <1>8, <1>9

LEMMA BehindIsAccounted ==
  ASSUME AnnounceInv, pass # <<>>, cursor' = Current.id,
         UNCHANGED <<rows, overtaken, seed>>, skipped \subseteq skipped',
         \A id : Kept(channel, posted, id) => Kept(channel', posted', id),
         \/ Current.id \in skipped' /\ CurrentRow.source # "server"
         \/ Kept(channel', posted', Current.id)
  PROVE  Accounted'
  <1>1. /\ Current = pass[1] /\ 1 \in DOMAIN pass
        /\ Current.id \in DOMAIN rows /\ cursor < Current.id
    BY CurrentFits
  <1>2. DOMAIN rows = 1..Len(rows) /\ Len(rows) \in Nat
    BY OneRow DEF AnnounceInv, RowsFit, IsList
  <1>3. cursor \in Int
    BY <1>2 DEF AnnounceInv, CursorsFit
  <1> SUFFICES ASSUME NEW id \in DOMAIN rows,
                      seed < id, id <= Current.id, rows[id].state # "gone", id \notin overtaken
               PROVE  Dropped(id)' \/ Kept(channel', posted', id)
    <2>1. rows' = rows /\ seed' = seed /\ overtaken' = overtaken /\ cursor' = Current.id
      OBVIOUS
    <2>2. QED
      BY <2>1 DEF Accounted
  <1>4. CASE id = Current.id
    BY <1>4 DEF Dropped, CurrentRow
  <1>5. CASE id # Current.id
    <2>1. id \in Int /\ Current.id \in Int /\ id < Current.id
      BY <1>1, <1>2, <1>5
    <2>2. CASE id <= cursor
      <3>1. Dropped(id) \/ Kept(channel, posted, id)
        BY <2>2 DEF AnnounceInv, Accounted
      <3>2. Dropped(id) => Dropped(id)'
        BY DEF Dropped
      <3>3. QED
        BY <3>1, <3>2
    <2>3. CASE cursor < id
      <3>1. InPass(id)
        BY <1>1, <2>1, <2>3 DEF AnnounceInv, PassIsWhole
      <3>2. PICK k \in DOMAIN pass : pass[k].id = id
        BY <3>1 DEF InPass
      <3>3. DOMAIN pass = 1..Len(pass) /\ Len(pass) \in Nat
        BY FirstTaken DEF AnnounceInv, PassGoesUp
      <3>4. k = 1 \/ 1 < k
        BY <3>2, <3>3
      <3>5. k = 1 \/ Current.id < id
        BY <1>1, <3>2, <3>4 DEF AnnounceInv, PassGoesUp
      <3>6. QED
        BY <1>1, <1>5, <2>1, <3>2, <3>5
    <2>4. QED
      BY <1>3, <2>1, <2>2, <2>3
  <1>6. QED
    BY <1>4, <1>5

LEMMA EmptyList == IsList(<<>>) /\ DOMAIN <<>> = {}
  <1>1. DOMAIN <<>> = {}
    OBVIOUS
  <1>2. \A T : <<>> \in Seq(T)
    OBVIOUS
  <1>3. QED
    BY <1>1, <1>2, Zenon DEF IsList

\* A pass that has ended asks for nothing.
LEMMA NoPass ==
  ASSUME pass' = <<>>
  PROVE  PassGoesUp' /\ PassIsWhole'
  BY EmptyList DEF PassGoesUp, PassIsWhole

LEMMA AccountedStays ==
  ASSUME Accounted, UNCHANGED <<rows, cursor, seed>>,
         overtaken \subseteq overtaken', skipped \subseteq skipped',
         \A id : Kept(channel, posted, id) => Kept(channel', posted', id)
  PROVE  Accounted'
  <1>1. \A id : Dropped(id) => Dropped(id)'
    BY DEF Dropped
  <1>2. rows' = rows /\ cursor' = cursor /\ seed' = seed
    OBVIOUS
  <1>3. QED
    BY <1>1, <1>2 DEF Accounted


-----------------------------------------------------------------------------
\* A row that is done with: the table and the channel may have changed before.
LEMMA AdvanceKeeps ==
  ASSUME AnnounceInv, pass # <<>>, NEW remembered,
         cursor' = Current.id, pass' = Tail(pass), UNCHANGED <<now, rows, overtaken, seed>>,
         skipped \subseteq skipped', Forgets(remembered, posted'),
         MessagesFit(rows, channel'), TableFits(rows, channel', remembered),
         \A id : Kept(channel, posted, id) => Kept(channel', remembered, id),
         \/ Current.id \in skipped' /\ CurrentRow.source # "server"
         \/ Kept(channel', remembered, Current.id)
  PROVE  AnnounceInv'
  <1>1. CursorsFit' /\ PassGoesUp' /\ PassIsWhole'
    BY PassGoesOn
  <1>2. TableFits(rows, channel', posted') /\ \A id : Kept(channel', remembered, id) => Kept(channel', posted', id)
    BY TableForgets
  <1>3. Accounted'
    <2>1. /\ \A id : Kept(channel, posted, id) => Kept(channel', posted', id)
          /\ \/ Current.id \in skipped' /\ CurrentRow.source # "server"
             \/ Kept(channel', posted', Current.id)
      BY <1>2
    <2>2. QED
      BY <2>1, BehindIsAccounted
  <1>4. RowsFit' /\ rows' = rows
    BY DEF AnnounceInv, RowsFit
  <1>5. MessagesFit(rows', channel') /\ TableFits(rows', channel', posted')
    BY <1>2, <1>4
  <1>6. QED
    BY <1>1, <1>3, <1>4, <1>5 DEF AnnounceInv

LEMMA TableForgetsItself ==
  ASSUME NEW remembered, DOMAIN remembered = StatusSet
  PROVE  Forgets(remembered, remembered) /\ Forgets(remembered, Pruned(remembered))
  BY Zenon DEF Forgets, Pruned

LEMMA SkipKeeps ==
  ASSUME AnnounceInv, Skip
  PROVE  AnnounceInv'
  <1>1. /\ pass # <<>> /\ skipped' = skipped \cup {Current.id} /\ Contradicts
        /\ cursor' = Current.id /\ pass' = Tail(pass) /\ UNCHANGED <<now, rows, overtaken, seed>>
        /\ channel' = channel /\ (posted' = Pruned(posted) \/ posted' = posted)
    BY DEF Skip, Advance
  <1>2. DOMAIN posted = StatusSet /\ MessagesFit(rows, channel) /\ TableFits(rows, channel, posted)
    BY DEF AnnounceInv, TableFits
  <1>3. Forgets(posted, posted')
    BY <1>1, <1>2, TableForgetsItself
  <1>4. Current.id \in skipped' /\ CurrentRow.source # "server" /\ skipped \subseteq skipped'
    BY <1>1, CurrentFits DEF Contradicts
  <1>5. /\ MessagesFit(rows, channel') /\ TableFits(rows, channel', posted)
        /\ \A id : Kept(channel, posted, id) => Kept(channel', posted, id)
    BY <1>1, <1>2
  <1>6. QED
    BY <1>1, <1>3, <1>4, <1>5, AdvanceKeeps

\* A message was sent, as m, and recorded.
LEMMA SentKeeps ==
  ASSUME AnnounceInv, pass # <<>>, NEW m,
         Sends(channel, channel', m), m \in DOMAIN channel => Joins /\ m = Previous.message,
         cursor' = Current.id, pass' = Tail(pass), UNCHANGED <<now, rows, overtaken, seed, skipped>>,
         posted' = Pruned(Recorded(m)) \/ posted' = Recorded(m)
  PROVE  AnnounceInv'
  <1>1. /\ MessagesFit(rows, channel') /\ TableFits(rows, channel', Recorded(m))
        /\ \A id : Kept(channel, posted, id) => Kept(channel', Recorded(m), id)
        /\ Kept(channel', Recorded(m), Current.id)
    BY SentFits
  <1>2. DOMAIN Recorded(m) = StatusSet
    BY RecordedIs
  <1>3. Forgets(Recorded(m), posted')
    BY <1>2, TableForgetsItself
  <1>4. skipped \subseteq skipped' /\ UNCHANGED <<now, rows, overtaken, seed>>
    OBVIOUS
  <1>5. QED
    BY <1>1, <1>3, <1>4, AdvanceKeeps

LEMMA EditKeeps ==
  ASSUME AnnounceInv, Edit
  PROVE  AnnounceInv'
  <1> DEFINE m == Previous.message
  <1>1. /\ pass # <<>> /\ Joins /\ channel' = Edited(m)
        /\ cursor' = Current.id /\ pass' = Tail(pass)
        /\ UNCHANGED <<now, rows, overtaken, seed, skipped>>
        /\ posted' = Pruned(Recorded(m)) \/ posted' = Recorded(m)
    BY DEF Edit, Advance
  <1>2. Sends(channel, channel', m)
    BY <1>1, EditSends
  <1>3. m \in DOMAIN channel => Joins /\ m = Previous.message
    BY <1>1
  <1> HIDE DEF m
  <1>4. QED
    BY <1>1, <1>2, <1>3, SentKeeps

LEMMA PostKeeps ==
  ASSUME AnnounceInv, Post
  PROVE  AnnounceInv'
  <1> DEFINE m == Len(channel) + 1
  <1>1. /\ pass # <<>> /\ channel' = Append(channel, Told(Render, Tells))
        /\ cursor' = Current.id /\ pass' = Tail(pass)
        /\ UNCHANGED <<now, rows, overtaken, seed, skipped>>
        /\ posted' = Pruned(Recorded(m)) \/ posted' = Recorded(m)
    BY DEF Post, MustPost, Advance
  <1>2. Sends(channel, channel', m) /\ m \notin DOMAIN channel
    BY <1>1, PostSends
  <1>3. m \in DOMAIN channel => Joins /\ m = Previous.message
    BY <1>2
  <1> HIDE DEF m
  <1>4. QED
    BY <1>1, <1>2, <1>3, SentKeeps

\* Steps that leave the cursor and the table alone.
LEMMA ChannelKeeps ==
  ASSUME AnnounceInv, UNCHANGED <<now, rows, cursor, posted, skipped, overtaken, seed>>,
         MessagesFit(rows, channel'), TableFits(rows, channel', posted),
         \A id : Kept(channel, posted, id) => Kept(channel', posted, id),
         PassGoesUp' /\ PassIsWhole'
  PROVE  AnnounceInv'
  <1>1. RowsFit' /\ CursorsFit'
    BY DEF AnnounceInv, RowsFit, CursorsFit
  <1>2. MessagesFit(rows', channel') /\ TableFits(rows', channel', posted')
    OBVIOUS
  <1>3. Accounted'
    <2>1. \A id : Kept(channel, posted, id) => Kept(channel', posted', id)
      OBVIOUS
    <2>2. Accounted /\ overtaken \subseteq overtaken' /\ skipped \subseteq skipped'
      BY DEF AnnounceInv
    <2>3. QED
      BY <2>1, <2>2, AccountedStays
  <1>4. QED
    BY <1>1, <1>2, <1>3 DEF AnnounceInv

\* What is up stays up, or one more message is.
LEMMA MayBeSent ==
  ASSUME AnnounceInv, pass # <<>>,
         \/ channel' = channel
         \/ \E m : Sends(channel, channel', m) /\ (m \in DOMAIN channel => Joins /\ m = Previous.message)
  PROVE  /\ MessagesFit(rows, channel') /\ TableFits(rows, channel', posted)
         /\ \A id : Kept(channel, posted, id) => Kept(channel', posted, id)
  <1>1. CASE channel' = channel
    BY <1>1 DEF AnnounceInv
  <1>2. ASSUME NEW m, Sends(channel, channel', m), m \in DOMAIN channel => Joins /\ m = Previous.message
        PROVE  /\ MessagesFit(rows, channel') /\ TableFits(rows, channel', posted)
               /\ \A id : Kept(channel, posted, id) => Kept(channel', posted, id)
    BY <1>2, SentFits
  <1>3. QED
    BY <1>1, <1>2

LEMMA PostFailsKeeps ==
  ASSUME AnnounceInv, NEW lost \in BOOLEAN, PostFails(lost)
  PROVE  AnnounceInv'
  <1>1. /\ pass # <<>> /\ pass' = <<>>
        /\ UNCHANGED <<now, rows, cursor, posted, skipped, overtaken, seed>>
        /\ channel' = channel \/ channel' = Append(channel, Told(Render, Tells))
    BY DEF PostFails, MustPost
  <1>2. PassGoesUp' /\ PassIsWhole'
    BY <1>1, NoPass
  <1>3. Len(channel) + 1 \notin DOMAIN channel /\ Sends(channel, Append(channel, Told(Render, Tells)), Len(channel) + 1)
    BY PostSends
  <1>4. \/ channel' = channel
        \/ \E m : Sends(channel, channel', m) /\ (m \in DOMAIN channel => Joins /\ m = Previous.message)
    BY <1>1, <1>3
  <1>5. /\ MessagesFit(rows, channel') /\ TableFits(rows, channel', posted)
        /\ \A id : Kept(channel, posted, id) => Kept(channel', posted, id)
    BY <1>1, <1>4, MayBeSent
  <1>6. QED
    BY <1>1, <1>2, <1>5, ChannelKeeps


LEMMA EditFailsKeeps ==
  ASSUME AnnounceInv, NEW lost \in BOOLEAN, EditFails(lost)
  PROVE  AnnounceInv'
  <1>1. /\ pass # <<>> /\ pass' = [pass EXCEPT ![1] = [@ EXCEPT !.refused = TRUE]]
        /\ UNCHANGED <<now, rows, cursor, posted, skipped, overtaken, seed>>
        /\ Joins /\ (channel' = channel \/ channel' = Edited(Previous.message))
    BY DEF EditFails
  <1>2. Previous.message \in DOMAIN channel /\ Sends(channel, Edited(Previous.message), Previous.message)
    BY <1>1, EditSends
  <1>3. \/ channel' = channel
        \/ \E m : Sends(channel, channel', m) /\ (m \in DOMAIN channel => Joins /\ m = Previous.message)
    BY <1>1, <1>2
  <1>4. /\ MessagesFit(rows, channel') /\ TableFits(rows, channel', posted)
        /\ \A id : Kept(channel, posted, id) => Kept(channel', posted, id)
    BY <1>1, <1>3, MayBeSent
  <1> DEFINE c == [pass[1] EXCEPT !.refused = TRUE]
  <1>5. PassGoesUp /\ PassIsWhole /\ IsList(pass) /\ 1 \in DOMAIN pass
    BY CurrentFits, <1>1 DEF AnnounceInv, PassGoesUp
  <1>6. c.id = pass[1].id /\ c.sources = pass[1].sources /\ c.since = pass[1].since
    OBVIOUS
  <1>7. pass' = [pass EXCEPT ![1] = c]
    BY <1>1
  <1> HIDE DEF c
  <1>8. /\ IsList(pass') /\ DOMAIN pass' = DOMAIN pass
        /\ \A n \in DOMAIN pass : pass'[n] = IF n = 1 THEN c ELSE pass[n]
    BY <1>5, <1>7, MessageChanged
  <1>9. \A n \in DOMAIN pass : /\ pass'[n].id = pass[n].id
                               /\ pass'[n].sources = pass[n].sources
                               /\ pass'[n].since = pass[n].since
    BY <1>6, <1>8
  <1>10. PassGoesUp'
    BY <1>1, <1>5, <1>8, <1>9 DEF PassGoesUp
  <1>11. PassIsWhole'
    BY <1>1, <1>5, <1>8, <1>9 DEF PassIsWhole, InPass
  <1>12. QED
    BY <1>1, <1>4, <1>10, <1>11, ChannelKeeps

LEMMA PassStays ==
  ASSUME PassGoesUp, PassIsWhole, UNCHANGED <<pass, rows, cursor, overtaken>>
  PROVE  PassGoesUp' /\ PassIsWhole'
  BY DEF PassGoesUp, PassIsWhole, InPass

LEMMA DeleteKeeps ==
  ASSUME AnnounceInv, NEW n \in DOMAIN channel, DeleteMessage(n)
  PROVE  AnnounceInv'
  <1> DEFINE c == [channel[n] EXCEPT !.deleted = TRUE]
  <1>1. /\ channel' = [channel EXCEPT ![n] = c]
        /\ UNCHANGED <<now, rows, cursor, posted, pass, skipped, overtaken, seed>>
    BY DEF DeleteMessage
  <1>2. c.rendered = channel[n].rendered /\ c.told = channel[n].told
    OBVIOUS
  <1>3. /\ IsList(channel) /\ MessagesFit(rows, channel) /\ TableFits(rows, channel, posted)
        /\ PassGoesUp /\ PassIsWhole
    BY DEF AnnounceInv, MessagesFit
  <1> HIDE DEF c
  <1>4. /\ IsList(channel') /\ DOMAIN channel' = DOMAIN channel
        /\ \A m \in DOMAIN channel : channel'[m] = IF m = n THEN c ELSE channel[m]
    BY <1>1, <1>3, MessageChanged
  <1>5. \A m \in DOMAIN channel : /\ channel'[m].rendered = channel[m].rendered
                                  /\ channel'[m].told = channel[m].told
    BY <1>2, <1>4
  <1>6. MessagesFit(rows, channel')
    BY <1>3, <1>4, <1>5 DEF MessagesFit
  <1>7. MessagesKeep(channel, channel')
    BY <1>4, <1>5 DEF MessagesKeep
  <1>8. TableFits(rows, channel', posted)
    BY <1>3, <1>7, TableStays
  <1>9. \A id : Kept(channel, posted, id) => Kept(channel', posted, id)
    BY <1>4, <1>5 DEF Kept
  <1>10. PassGoesUp' /\ PassIsWhole'
    BY <1>1, <1>3, PassStays
  <1>11. QED
    BY <1>1, <1>6, <1>8, <1>9, <1>10, ChannelKeeps

LEMMA TickKeeps ==
  ASSUME AnnounceInv, Tick
  PROVE  AnnounceInv'
  <1>1. now' = now + 1 /\ UNCHANGED <<rows, cursor, posted, pass, channel, skipped, overtaken, seed>>
    BY DEF Tick
  <1>2. RowsFit' /\ CursorsFit'
    BY <1>1 DEF AnnounceInv, RowsFit, CursorsFit
  <1>3. PassGoesUp' /\ PassIsWhole'
    BY <1>1, PassStays DEF AnnounceInv
  <1>4. Accounted'
    BY <1>1, AccountedStays DEF AnnounceInv
  <1>5. MessagesFit(rows', channel') /\ TableFits(rows', channel', posted')
    BY <1>1 DEF AnnounceInv
  <1>6. QED
    BY <1>2, <1>3, <1>4, <1>5 DEF AnnounceInv

\* The newest committed row.
LEMMA LatestFits ==
  ASSUME AnnounceInv
  PROVE  Latest \in 0..Len(rows)
  <1>1. DOMAIN rows = 1..Len(rows) /\ Len(rows) \in Nat
    BY OneRow DEF AnnounceInv, RowsFit, IsList
  <1>2. {0} \cup Committed \in SUBSET (0..Len(rows)) /\ {0} \cup Committed # {}
    BY <1>1 DEF Committed
  <1>3. Max({0} \cup Committed) \in {0} \cup Committed
    BY <1>1, <1>2, MaxIsLargest
  <1>4. QED
    BY <1>2, <1>3 DEF Latest

\* A process starts without a cursor and without a pass.
LEMMA FreshPollerKeeps ==
  ASSUME AnnounceInv, UNCHANGED <<now, rows, channel, skipped, overtaken>>,
         pass' = <<>>, seed' = cursor', cursor' \in 0..Len(rows),
         TableFits(rows, channel, posted')
  PROVE  AnnounceInv'
  <1>1. RowsFit'
    BY DEF AnnounceInv, RowsFit
  <1>2. DOMAIN rows = 1..Len(rows) /\ Len(rows) \in Nat
    BY OneRow DEF AnnounceInv, RowsFit, IsList
  <1>3. CursorsFit'
    BY <1>2 DEF AnnounceInv, CursorsFit
  <1>4. PassGoesUp' /\ PassIsWhole'
    BY NoPass
  <1>5. MessagesFit(rows', channel') /\ TableFits(rows', channel', posted')
    BY DEF AnnounceInv
  <1>6. Accounted'
    <2>1. \A id \in DOMAIN rows' : ~(seed' < id /\ id <= cursor')
      BY <1>2
    <2>2. QED
      BY <2>1 DEF Accounted
  <1>7. QED
    BY <1>1, <1>3, <1>4, <1>5, <1>6 DEF AnnounceInv

LEMMA RebootKeeps ==
  ASSUME AnnounceInv, Reboot
  PROVE  AnnounceInv'
  <1>1. /\ cursor' = 0 /\ seed' = 0 /\ posted' = [status \in StatusSet |-> Nothing]
        /\ pass' = <<>> /\ UNCHANGED <<now, rows, channel, skipped, overtaken>>
    BY DEF Reboot
  <1>2. cursor' \in 0..Len(rows)
    BY <1>1, OneRow DEF AnnounceInv, RowsFit, IsList
  <1>3. DOMAIN posted' = StatusSet /\ \A status \in StatusSet : posted'[status] = Nothing
    BY <1>1
  <1>4. TableFits(rows, channel, posted')
    BY <1>3, Zenon DEF TableFits
  <1>5. QED
    BY <1>1, <1>2, <1>4, FreshPollerKeeps

\* Before the cursor is seeded there is no pass.
PollerFits ==
  /\ poller \in {"starting", "running", "ended"}
  /\ poller # "running" => pass = <<>>

LEMMA PollerFitsNext == PollerFits /\ [Next]_vars => PollerFits'
  <1> SUFFICES ASSUME PollerFits, [Next]_vars PROVE PollerFits'
    OBVIOUS
  <1>1. CASE Tick \/ Skip \/ Edit \/ Post
    BY <1>1 DEF Tick, Skip, Edit, Post, MustPost, Advance, PollerFits
  <1>2. CASE WebhookInserts \/ WitnessInserts
    BY <1>2 DEF WebhookInserts, WitnessInserts, Stores, PollerFits
  <1>3. CASE \E id \in DOMAIN rows, state \in {"committed", "gone"} : WebhookEnds(id, state)
    BY <1>3 DEF WebhookEnds, PollerFits
  <1>4. CASE \E seen \in Corroborates : ReadAnnouncements(seen)
    BY <1>4 DEF ReadAnnouncements, PollerFits
  <1>5. CASE \E lost \in BOOLEAN : EditFails(lost) \/ PostFails(lost)
    BY <1>5 DEF EditFails, PostFails, MustPost, PollerFits
  <1>6. CASE \E n \in DOMAIN channel : DeleteMessage(n)
    BY <1>6 DEF DeleteMessage, PollerFits
  <1>7. CASE Reboot \/ Seed \/ SeedFails
    BY <1>7 DEF Reboot, Seed, SeedFails, PollerFits
  <1>8. CASE UNCHANGED vars
    BY <1>8 DEF vars, PollerFits
  <1>9. QED
    BY <1>1, <1>2, <1>3, <1>4, <1>5, <1>6, <1>7, <1>8, Zenon DEF Next

LEMMA PollerInvariant == Spec => []PollerFits
  <1>1. Init => PollerFits
    BY DEF Init, PollerFits
  <1>2. QED
    BY <1>1, PollerFitsNext, PTL DEF Spec

LEMMA SeedKeeps ==
  ASSUME AnnounceInv, PollerFits, Seed
  PROVE  AnnounceInv'
  <1>1. /\ cursor' = Latest /\ seed' = Latest /\ pass' = <<>>
        /\ UNCHANGED <<now, rows, posted, channel, skipped, overtaken>>
    BY DEF Seed, PollerFits
  <1>2. TableFits(rows, channel, posted')
    BY <1>1 DEF AnnounceInv
  <1>3. QED
    BY <1>1, <1>2, LatestFits, FreshPollerKeeps

\* A row is added or ends: no message says anything else than before.
LEMMA RowsKeepInv ==
  ASSUME AnnounceInv, UNCHANGED <<now, cursor, posted, pass, channel, skipped, overtaken, seed>>,
         RowsFit', RowsKeep(rows, rows'), Len(rows') \in Nat, Len(rows) <= Len(rows'),
         \A id \in DOMAIN rows :
           /\ rows'[id].state # "gone" => rows[id].state # "gone"
           /\ rows[id].state = "committed" => rows'[id].state = "committed",
         \A id \in DOMAIN rows' : id \in DOMAIN rows \/ id = Len(rows) + 1
  PROVE  AnnounceInv'
  <1>1. DOMAIN rows = 1..Len(rows) /\ Len(rows) \in Nat
    BY OneRow DEF AnnounceInv, RowsFit, IsList
  <1>2. CursorsFit'
    BY <1>1 DEF AnnounceInv, CursorsFit
  <1>3. PassGoesUp'
    <2>1. PassGoesUp
      BY DEF AnnounceInv
    <2>2. \A id \in DOMAIN rows : id \in DOMAIN rows' /\ rows'[id].source = rows[id].source
      BY DEF RowsKeep
    <2>3. QED
      BY <2>1, <2>2 DEF PassGoesUp
  <1>4. \A n \in DOMAIN pass : pass[n].id \in 1..Len(rows)
    BY <1>1 DEF AnnounceInv, PassGoesUp
  <1>5. PassIsWhole'
    <2> SUFFICES ASSUME NEW n \in DOMAIN pass, NEW id \in DOMAIN rows',
                        cursor < id, id <= pass[n].id, rows'[id].state # "gone"
                 PROVE  id \in overtaken \/ InPass(id)
      BY DEF PassIsWhole, InPass
    <2>1. id \in DOMAIN rows
      BY <1>1, <1>4
    <2>2. QED
      BY <2>1 DEF AnnounceInv, PassIsWhole
  <1>6. MessagesFit(rows', channel)
    BY RendersKeep, Zenon DEF AnnounceInv, MessagesFit
  <1>7. TableFits(rows', channel, posted)
    BY TableKeeps DEF AnnounceInv
  <1>8. Accounted'
    <2> SUFFICES ASSUME NEW id \in DOMAIN rows', seed < id, id <= cursor, rows'[id].state # "gone"
                 PROVE  id \in overtaken \/ Dropped(id)' \/ Kept(channel, posted, id)
      BY DEF Accounted
    <2>1. id \in DOMAIN rows
      BY <1>1 DEF AnnounceInv, CursorsFit
    <2>2. id \in overtaken \/ Dropped(id) \/ Kept(channel, posted, id)
      BY <2>1 DEF AnnounceInv, Accounted
    <2>3. Dropped(id) => Dropped(id)'
      BY <2>1 DEF Dropped, RowsKeep
    <2>4. QED
      BY <2>2, <2>3
  <1>9. MessagesFit(rows', channel') /\ TableFits(rows', channel', posted')
    BY <1>6, <1>7
  <1>10. QED
    BY <1>2, <1>3, <1>5, <1>8, <1>9 DEF AnnounceInv

LEMMA StoresKeeps ==
  ASSUME AnnounceInv, NEW row, Stores(row),
         row.source \in Sources, row.status \in StatusSet, row.at \in Nat,
         row.state \in {"open", "committed", "gone"}, "state" \in DOMAIN row
  PROVE  AnnounceInv'
  <1>1. /\ rows' = Append(rows, row)
        /\ UNCHANGED <<now, cursor, posted, pass, channel, skipped, overtaken, seed>>
    BY DEF Stores
  <1>2. /\ IsList(rows') /\ DOMAIN rows = 1..Len(rows) /\ Len(rows) \in Nat
        /\ DOMAIN rows' = DOMAIN rows \cup {Len(rows) + 1} /\ rows'[Len(rows) + 1] = row
        /\ Len(rows') = Len(rows) + 1
        /\ \A n \in DOMAIN rows : rows'[n] = rows[n]
    BY <1>1, MessageAdded DEF AnnounceInv, RowsFit
  <1>3. RowsFit'
    BY <1>2 DEF AnnounceInv, RowsFit
  <1>4. RowsKeep(rows, rows')
    BY <1>2 DEF RowsKeep
  <1>5. /\ Len(rows') \in Nat /\ Len(rows) <= Len(rows')
        /\ \A id \in DOMAIN rows :
             /\ rows'[id].state # "gone" => rows[id].state # "gone"
             /\ rows[id].state = "committed" => rows'[id].state = "committed"
        /\ \A id \in DOMAIN rows' : id \in DOMAIN rows \/ id = Len(rows) + 1
    BY <1>2
  <1>6. QED
    BY <1>1, <1>3, <1>4, <1>5, RowsKeepInv

LEMMA InsertsKeep ==
  ASSUME AnnounceInv, WebhookInserts \/ WitnessInserts
  PROVE  AnnounceInv'
  <1>1. PICK source \in Sources, status \in StatusSet, at \in Nat, state \in {"open", "committed"} :
          Stores(Row(source, status, at, state))
    <2>1. now \in Nat
      BY DEF AnnounceInv, CursorsFit
    <2>2. "server" \in Sources /\ "discord" \in Sources
      BY DEF Sources
    <2>3. CASE WebhookInserts
      BY <2>1, <2>2, <2>3 DEF WebhookInserts
    <2>4. CASE WitnessInserts
      <3>1. \A at \in 1..now : at \in Nat
        BY <2>1
      <3>2. QED
        BY <2>1, <2>2, <2>4, <3>1 DEF WitnessInserts
    <2>5. QED
      BY <2>3, <2>4
  <1> DEFINE row == Row(source, status, at, state)
  <1>2. row.source = source /\ row.status = status /\ row.at = at /\ row.state = state
        /\ "state" \in DOMAIN row
    BY DEF Row
  <1>3. Stores(row)
    BY <1>1
  <1> HIDE DEF row
  <1>4. QED
    BY <1>2, <1>3, StoresKeeps

LEMMA WebhookEndsKeeps ==
  ASSUME AnnounceInv, NEW id \in DOMAIN rows, NEW state \in {"committed", "gone"}, WebhookEnds(id, state)
  PROVE  AnnounceInv'
  <1> DEFINE row == [rows[id] EXCEPT !.state = state]
  <1>1. /\ rows[id].state = "open" /\ rows' = [rows EXCEPT ![id] = row]
        /\ UNCHANGED <<now, cursor, posted, pass, channel, skipped, overtaken, seed>>
    BY DEF WebhookEnds
  <1>2. row.source = rows[id].source /\ row.status = rows[id].status /\ row.at = rows[id].at
    OBVIOUS
  <1>3. row.state = state /\ "state" \in DOMAIN row
    BY DEF AnnounceInv, RowsFit
  <1> HIDE DEF row
  <1>4. /\ IsList(rows') /\ DOMAIN rows' = DOMAIN rows /\ Len(rows') = Len(rows)
        /\ \A n \in DOMAIN rows : rows'[n] = IF n = id THEN row ELSE rows[n]
    BY <1>1, MessageChanged DEF AnnounceInv, RowsFit
  <1>5. RowsKeep(rows, rows')
    BY <1>2, <1>4 DEF RowsKeep
  <1>6. RowsFit'
    BY <1>3, <1>4, <1>5 DEF AnnounceInv, RowsFit, RowsKeep
  <1>7. /\ Len(rows') \in Nat /\ Len(rows) <= Len(rows')
        /\ \A n \in DOMAIN rows :
             /\ rows'[n].state # "gone" => rows[n].state # "gone"
             /\ rows[n].state = "committed" => rows'[n].state = "committed"
        /\ \A n \in DOMAIN rows' : n \in DOMAIN rows \/ n = Len(rows) + 1
    <2>1. Len(rows) \in Nat
      BY OneRow DEF AnnounceInv, RowsFit, IsList
    <2>2. QED
      BY <1>1, <1>3, <1>4, <2>1
  <1>8. QED
    BY <1>1, <1>5, <1>6, <1>7, RowsKeepInv

\* A pass is read: the rows that are committed, in the order of their ids.
LEMMA ReadKeeps ==
  ASSUME AnnounceInv, NEW seen \in Corroborates, ReadAnnouncements(seen)
  PROVE  AnnounceInv'
  <1> DEFINE after == {id \in Committed : id > cursor}
             ids == InOrder(after)
             count == Cardinality(after)
             size == Min({Limit, count})
             Entry(id) == [id |-> id, since |-> TrustedOpenSince(rows[id]),
                           sources |-> Witnesses(rows[id], seen), refused |-> FALSE]
             read == [n \in 1..size |-> Entry(ids[n])]
  <1>1. /\ after # {} /\ pass' = read
        /\ overtaken' = overtaken \cup
             {id \in DOMAIN rows : rows[id].state = "open" /\ id < read[Len(read)].id}
        /\ UNCHANGED <<now, rows, cursor, posted, channel, skipped, seed>>
    BY DEF ReadAnnouncements
  <1>2. DOMAIN rows = 1..Len(rows) /\ Len(rows) \in Nat /\ cursor \in Int
    BY OneRow DEF AnnounceInv, RowsFit, IsList, CursorsFit
  <1>3. after \in SUBSET (1..Len(rows)) /\ after \in SUBSET Int /\ IsFiniteSet(after)
    <2>1. after \in SUBSET (1..Len(rows))
      BY <1>2 DEF Committed
    <2>2. IsFiniteSet(1..Len(rows))
      BY <1>2, FS_Interval
    <2>3. QED
      BY <1>2, <2>1, <2>2, FS_Subset
  <1>4. \A id : id \in after <=> id \in DOMAIN rows /\ rows[id].state = "committed" /\ id > cursor
    BY DEF Committed
  <1>5. \A id \in DOMAIN rows :
          /\ rows[id].source \in Witnesses(rows[id], seen)
          /\ Witnesses(rows[id], seen) \subseteq Sources
          /\ TrustedOpenSince(rows[id]) # 0 => rows[id].source # "server"
    <2> TAKE id \in DOMAIN rows
    <2>1. rows[id].source \in Sources
      BY DEF AnnounceInv, RowsFit
    <2>2. rows[id].source \in Witnesses(rows[id], seen) /\ Witnesses(rows[id], seen) \subseteq Sources
      BY <2>1 DEF Witnesses, Sources
    <2>3. rows[id].source = "server" => TrustedOpenSince(rows[id]) = 0
      BY Zenon DEF TrustedOpenSince
    <2>4. QED
      BY <2>2, <2>3
  <1> HIDE DEF after
  <1>6. /\ count \in Nat
        /\ ids \in [1..count -> after]
        /\ \A m, n \in 1..count : m < n => ids[m] < ids[n]
        /\ \A x \in after : \E n \in 1..count : ids[n] = x
    BY <1>3, InOrderIsWhole
  <1>7. count # 0
    BY <1>1, <1>3, FS_EmptySet
  <1> HIDE DEF ids, count
  <1>8. size \in 1..count
    <2>1. Limit \in Int /\ count \in Int /\ Limit >= 1 /\ count >= 1
      BY <1>6, <1>7, AnnouncerAssumption
    <2>2. (size = Limit /\ Limit <= count) \/ size = count
      BY <2>1, MinOfTwo
    <2>3. QED
      BY <2>1, <2>2
  <1> HIDE DEF size
  <1>9. \A n \in 1..size : n \in 1..count /\ ids[n] \in after
    BY <1>6, <1>8
  <1>10. DOMAIN read = 1..size /\ IsList(read) /\ Len(read) = size
    <2>1. read \in [1..size -> {read[n] : n \in DOMAIN read}]
      OBVIOUS
    <2>2. size \in Nat
      BY <1>6, <1>8
    <2>3. read \in Seq({read[n] : n \in DOMAIN read})
      BY <2>1, <2>2, SeqDef
    <2>4. DOMAIN read = 1..size
      OBVIOUS
    <2> HIDE DEF read
    <2>5. QED
      BY <2>2, <2>3, <2>4 DEF IsList
  <1>11. \A n \in 1..size : /\ read[n].id = ids[n]
                            /\ read[n].since = TrustedOpenSince(rows[ids[n]])
                            /\ read[n].sources = Witnesses(rows[ids[n]], seen)
    OBVIOUS
  <1> HIDE DEF read
  <1>12. PassGoesUp'
    <2>1. \A m, n \in DOMAIN read : m < n => read[m].id < read[n].id
      BY <1>6, <1>9, <1>10, <1>11
    <2>2. \A n \in DOMAIN read :
            /\ read[n].id \in DOMAIN rows /\ rows[read[n].id].state = "committed"
            /\ cursor < read[n].id
            /\ rows[read[n].id].source \in read[n].sources /\ read[n].sources \subseteq Sources
            /\ read[n].since # 0 => rows[read[n].id].source # "server"
      <3> TAKE n \in DOMAIN read
      <3>1. n \in 1..size /\ ids[n] \in after
        BY <1>9, <1>10
      <3>2. ids[n] \in DOMAIN rows /\ rows[ids[n]].state = "committed" /\ ids[n] > cursor
        BY <1>4, <3>1
      <3>3. cursor < ids[n]
        BY <1>2, <3>2
      <3>4. QED
        BY <1>5, <1>11, <3>1, <3>2, <3>3
    <2>3. QED
      BY <1>1, <1>10, <2>1, <2>2 DEF PassGoesUp
  <1>13. PassIsWhole'
    <2> SUFFICES ASSUME NEW n \in DOMAIN read, NEW id \in DOMAIN rows,
                        cursor < id, id <= read[n].id, rows[id].state # "gone",
                        id \notin overtaken'
                 PROVE  \E m \in DOMAIN read : read[m].id = id
      BY <1>1 DEF PassIsWhole, InPass
    <2>0. /\ n \in 1..count /\ n \in 1..size /\ size \in 1..count
          /\ ids[n] \in DOMAIN rows /\ ids[size] \in DOMAIN rows
          /\ read[n].id = ids[n] /\ read[size].id = ids[size]
          /\ rows[ids[n]].state = "committed" /\ rows[ids[size]].state = "committed"
      <3>1. n \in 1..size /\ size \in 1..size
        BY <1>6, <1>8, <1>10
      <3>2. QED
        BY <1>4, <1>8, <1>9, <1>11, <3>1
    <2>1. ids[n] <= ids[size]
      <3>1. n = size \/ n < size
        BY <2>0
      <3>2. ids[n] = ids[size] \/ ids[n] < ids[size]
        BY <1>6, <2>0, <3>1
      <3>3. QED
        BY <1>2, <2>0, <3>2
    <2>2. id <= ids[size]
      BY <1>2, <2>0, <2>1
    \* It is not open: it would have been overtaken.
    <2>3. rows[id].state # "open" \/ id = ids[size]
      <3>1. rows[id].state = "open" => ~(id < read[Len(read)].id)
        BY <1>1
      <3>2. QED
        BY <1>2, <1>10, <2>0, <2>2, <3>1
    <2>4. rows[id].state = "committed"
      BY <2>0, <2>3 DEF AnnounceInv, RowsFit
    <2>5. id \in after
      BY <1>2, <1>4, <2>4
    <2>6. PICK m \in 1..count : ids[m] = id
      BY <1>6, <2>5
    <2>7. ~(n < m)
      <3>1. n < m => ids[n] < ids[m]
        BY <1>6, <2>0
      <3>2. QED
        BY <1>2, <2>0, <2>6, <3>1
    <2>8. m \in 1..size
      BY <2>0, <2>7
    <2>9. QED
      BY <1>10, <1>11, <2>6, <2>8
  <1>14. Accounted'
    <2>1. /\ Accounted /\ UNCHANGED <<rows, cursor, seed>> /\ overtaken \subseteq overtaken'
          /\ skipped \subseteq skipped'
          /\ \A id : Kept(channel, posted, id) => Kept(channel', posted', id)
      BY <1>1 DEF AnnounceInv
    <2>2. QED
      BY <2>1, AccountedStays
  <1>15. RowsFit' /\ CursorsFit' /\ MessagesFit(rows', channel') /\ TableFits(rows', channel', posted')
    BY <1>1 DEF AnnounceInv, RowsFit, CursorsFit
  <1>16. QED
    BY <1>12, <1>13, <1>14, <1>15 DEF AnnounceInv


-----------------------------------------------------------------------------
LEMMA AnnounceInvInit == Init => AnnounceInv
  <1> SUFFICES ASSUME Init PROVE AnnounceInv
    OBVIOUS
  <1>1. /\ now = 1 /\ rows = <<>> /\ cursor = 0 /\ seed = 0 /\ pass = <<>> /\ channel = <<>>
        /\ posted = [status \in StatusSet |-> Nothing]
    BY DEF Init
  <1>2. IsList(<<>>) /\ DOMAIN <<>> = {} /\ Len(<<>>) = 0
    BY EmptyList
  <1>3. RowsFit /\ MessagesFit(rows, channel) /\ Accounted /\ PassGoesUp /\ PassIsWhole
    BY <1>1, <1>2 DEF RowsFit, MessagesFit, Accounted, PassGoesUp, PassIsWhole
  <1>4. CursorsFit
    BY <1>1, <1>2 DEF CursorsFit
  <1>5. DOMAIN posted = StatusSet /\ \A status \in StatusSet : posted[status] = Nothing
    BY <1>1
  <1>6. TableFits(rows, channel, posted)
    BY <1>5, Zenon DEF TableFits
  <1>7. QED
    BY <1>3, <1>4, <1>6 DEF AnnounceInv

LEMMA AnnounceInvNext == AnnounceInv /\ PollerFits /\ [Next]_vars => AnnounceInv'
  <1> SUFFICES ASSUME AnnounceInv, PollerFits, [Next]_vars PROVE AnnounceInv'
    OBVIOUS
  <1>1. CASE Tick
    BY <1>1, TickKeeps
  <1>2. CASE WebhookInserts \/ WitnessInserts
    BY <1>2, InsertsKeep
  <1>3. CASE \E id \in DOMAIN rows, state \in {"committed", "gone"} : WebhookEnds(id, state)
    BY <1>3, WebhookEndsKeeps
  <1>4. CASE \E seen \in Corroborates : ReadAnnouncements(seen)
    BY <1>4, ReadKeeps
  <1>5. CASE Skip
    BY <1>5, SkipKeeps
  <1>6. CASE Edit
    BY <1>6, EditKeeps
  <1>7. CASE Post
    BY <1>7, PostKeeps
  <1>8. CASE \E lost \in BOOLEAN : EditFails(lost) \/ PostFails(lost)
    BY <1>8, EditFailsKeeps, PostFailsKeeps
  <1>9. CASE \E n \in DOMAIN channel : DeleteMessage(n)
    BY <1>9, DeleteKeeps
  <1>10. CASE Reboot
    BY <1>10, RebootKeeps
  <1>11. CASE Seed
    BY <1>11, SeedKeeps
  <1>12. CASE SeedFails \/ UNCHANGED vars
    <2>1. UNCHANGED <<now, rows, cursor, posted, pass, channel, skipped, overtaken, seed>>
      BY <1>12 DEF SeedFails, vars
    <2>2. PassGoesUp' /\ PassIsWhole'
      BY <2>1, PassStays DEF AnnounceInv
    <2>3. /\ MessagesFit(rows, channel') /\ TableFits(rows, channel', posted)
          /\ \A id : Kept(channel, posted, id) => Kept(channel', posted, id)
      BY <2>1 DEF AnnounceInv
    <2>4. QED
      BY <2>1, <2>2, <2>3, ChannelKeeps
  <1>13. QED
    BY <1>1, <1>2, <1>3, <1>4, <1>5, <1>6, <1>7, <1>8, <1>9, <1>10, <1>11, <1>12, Zenon DEF Next

(***************************************************************************)
(* The inductive invariant of the announcer (announceServerLogs).          *)
(***************************************************************************)
THEOREM AnnouncerInvariant == Spec => []AnnounceInv
  BY AnnounceInvInit, AnnounceInvNext, PollerInvariant, PTL DEF Spec

(***************************************************************************)
(* Cursor, table and messages stay what they are declared as, for any      *)
(* window, limit, clock and number of faults: a remembered message is one  *)
(* that was sent (announcementMerger).                                     *)
(***************************************************************************)
THEOREM AnnouncerTypeCorrect == Spec => []TypeOK
  <1>1. AnnounceInv /\ PollerFits => TypeOK
    <2> SUFFICES ASSUME AnnounceInv, PollerFits PROVE TypeOK
      OBVIOUS
    <2>1. /\ DOMAIN rows = 1..Len(rows) /\ Len(rows) \in Nat
          /\ DOMAIN channel = 1..Len(channel) /\ Len(channel) \in Nat
      BY OneRow DEF AnnounceInv, RowsFit, MessagesFit, IsList
    <2>2. cursor \in 0..Len(rows) /\ seed \in 0..cursor
      BY DEF AnnounceInv, CursorsFit
    <2>3. \A status \in StatusSet : posted[status].message \in 0..Len(channel)
      <3> TAKE status \in StatusSet
      <3>1. CASE posted[status] = Nothing
        BY <2>1, <3>1 DEF Nothing
      <3>2. CASE posted[status] # Nothing
        BY <2>1, <3>2 DEF AnnounceInv, TableFits, Fits
      <3>3. QED
        BY <3>1, <3>2
    <2>4. \A n \in DOMAIN channel :
            channel[n].rendered \in [status : StatusSet, shown : 1..Len(rows), sources : SUBSET Sources]
      BY <2>1 DEF AnnounceInv, MessagesFit, Renders
    <2>5. QED
      BY <2>2, <2>3, <2>4 DEF TypeOK, PollerFits
  <1>2. QED
    BY <1>1, AnnouncerInvariant, PollerInvariant, PTL

(***************************************************************************)
(* A row the cursor has passed is in a message, or was dropped for a       *)
(* stronger witness, or had not committed when a later one was read,       *)
(* however often posts and edits fail or only their answers are lost,      *)
(* messages are deleted and transactions commit out of order               *)
(* (announceServerLogs, AnnouncementsAfter).                               *)
(***************************************************************************)
THEOREM NothingPassedOverCorrect == Spec => []NothingPassedOver
  <1>1. AnnounceInv => NothingPassedOver
    <2> SUFFICES ASSUME AnnounceInv, NEW id \in Committed \ overtaken, id > seed, id <= cursor
                 PROVE  \/ id \in skipped /\ rows[id].source # "server"
                        \/ \E n \in DOMAIN channel : id \in channel[n].told
      BY DEF NothingPassedOver
    <2>1. DOMAIN rows = 1..Len(rows) /\ Len(rows) \in Nat
      BY OneRow DEF AnnounceInv, RowsFit, IsList
    <2>2. id \in DOMAIN rows /\ rows[id].state = "committed" /\ seed < id
      BY <2>1 DEF Committed, AnnounceInv, CursorsFit
    <2>3. Dropped(id) \/ Kept(channel, posted, id)
      BY <2>2 DEF AnnounceInv, Accounted
    <2>4. QED
      BY <2>3, Zenon DEF Dropped, Kept
  <1>2. QED
    BY <1>1, AnnouncerInvariant, PTL

(***************************************************************************)
(* A message tells of one change, at its best, however the reports of the  *)
(* two witnesses interleave with failures (announcementMerger.plan).       *)
(***************************************************************************)
THEOREM MessageIsOneChangeCorrect == Spec => []MessageIsOneChange
  <1>1. AnnounceInv => MessageIsOneChange
    BY Zenon DEF AnnounceInv, MessagesFit, Renders, OneChange, MessageIsOneChange
  <1>2. QED
    BY <1>1, AnnouncerInvariant, PTL


-----------------------------------------------------------------------------
(***************************************************************************)
(* The member sync.                                                        *)
(***************************************************************************)
RosterSet == [People -> Kinds \cup {Gone}]
HasRoster == {"fetched", "upserted", "reconciled"}
Flags == BOOLEAN
AccountSet == [known : Flags, role : {"SOT CR Guest", "SOT CR", NoRole}, admin : Flags]

\* Once a sync has written its accounts, each member it fetched has one; no
\* other sync takes it away.
MembersKnown(roster, table) == \A x \in People : IsPlayer(roster[x]) => table[x].known = TRUE

SyncFits(s, table) ==
  /\ s.pc \in {"free", "fetching"} \cup HasRoster
  /\ s.pc \in HasRoster => s.roster \in RosterSet
  /\ s.pc \in {"upserted", "reconciled"} => MembersKnown(s.roster, table)

RosterInv ==
  /\ guild \in RosterSet
  /\ accounts \in [People -> AccountSet]
  /\ DOMAIN sync = Processes
  /\ \A p \in Processes : SyncFits(sync[p], accounts)

\* No account is taken away, and the administrators are as they were.
AccountsKeep(table, table2) ==
  \A x \in People : table[x].known = TRUE => table2[x].known = TRUE

LEMMA RosterAccountsKeep ==
  ASSUME NEW s, NEW table, NEW table2, AccountsKeep(table, table2), SyncFits(s, table)
  PROVE  SyncFits(s, table2)
  BY Zenon DEF SyncFits, MembersKnown, AccountsKeep

\* The sync of one process goes on; the accounts may have changed.
LEMMA RosterWorks ==
  ASSUME RosterInv, NEW p \in Processes, NEW s, sync' = [sync EXCEPT ![p] = s],
         guild' = guild, accounts' \in [People -> AccountSet], AccountsKeep(accounts, accounts'),
         SyncFits(s, accounts')
  PROVE  RosterInv'
  <1>1. \A q \in Processes : SyncFits(sync[q], accounts')
    BY RosterAccountsKeep DEF RosterInv
  <1>2. DOMAIN sync' = Processes /\ \A q \in Processes : sync'[q] = IF q = p THEN s ELSE sync[q]
    BY DEF RosterInv
  <1>3. \A q \in Processes : SyncFits(sync'[q], accounts')
    BY <1>1, <1>2
  <1>4. QED
    BY <1>2, <1>3 DEF RosterInv

LEMMA RosterUnlocks ==
  ASSUME RosterInv, NEW p \in Processes, Unlock(p), guild' = guild,
         accounts' \in [People -> AccountSet], AccountsKeep(accounts, accounts')
  PROVE  RosterInv'
  <1>1. SyncFits(Unsynced, accounts')
    BY DEF SyncFits, Unsynced, HasRoster
  <1>2. QED
    BY <1>1, RosterWorks DEF Unlock

\* One field of an account is written.
LEMMA KnownAccount ==
  ASSUME NEW a \in AccountSet, NEW flag \in Flags
  PROVE  /\ [a EXCEPT !.known = flag] \in AccountSet /\ [a EXCEPT !.known = flag].known = flag
         /\ [a EXCEPT !.known = flag].admin = a.admin
  BY DEF AccountSet

LEMMA AdminAccount ==
  ASSUME NEW a \in AccountSet, NEW flag \in Flags
  PROVE  /\ [a EXCEPT !.admin = flag] \in AccountSet /\ [a EXCEPT !.admin = flag].known = a.known
         /\ [a EXCEPT !.admin = flag].admin = flag
  BY DEF AccountSet

LEMMA RoleAccount ==
  ASSUME NEW a \in AccountSet, NEW role \in {"SOT CR Guest", "SOT CR", NoRole}
  PROVE  /\ [a EXCEPT !.role = role] \in AccountSet /\ [a EXCEPT !.role = role].known = a.known
         /\ [a EXCEPT !.role = role].admin = a.admin
  BY DEF AccountSet

LEMMA SelectedIsRole ==
  ASSUME NEW roles
  PROVE  SelectedMemberRole(roles) \in {"SOT CR Guest", "SOT CR", NoRole}
  BY Zenon DEF SelectedMemberRole


LEMMA RosterInvInit == RosterInit => RosterInv
  <1> SUFFICES ASSUME RosterInit PROVE RosterInv
    OBVIOUS
  <1>1. guild \in RosterSet
    BY DEF RosterInit, RosterSet
  <1>2. [known |-> FALSE, role |-> NoRole, admin |-> FALSE] \in AccountSet
    BY DEF AccountSet, Flags
  <1>3. accounts \in [People -> AccountSet]
    BY <1>2 DEF RosterInit
  <1>4. DOMAIN sync = Processes /\ \A p \in Processes : sync[p] = Unsynced
    BY DEF RosterInit
  <1>5. SyncFits(Unsynced, accounts)
    BY DEF SyncFits, Unsynced, HasRoster
  <1>6. QED
    BY <1>1, <1>3, <1>4, <1>5 DEF RosterInv

\* Each step of a sync, and what it does to the administrators.
LEMMA FetchKeeps ==
  ASSUME RosterInv, NEW p \in Processes, Begin(p) \/ FetchGuildMembers(p)
  PROVE  RosterInv' /\ accounts' = accounts
  <1>1. /\ accounts' = accounts /\ guild' = guild /\ accounts' \in [People -> AccountSet]
        /\ AccountsKeep(accounts, accounts')
    BY DEF Begin, FetchGuildMembers, RosterInv, AccountsKeep
  <1> DEFINE s == IF Begin(p) THEN [pc |-> "fetching"] ELSE [pc |-> "fetched", roster |-> guild]
  <1>2. sync' = [sync EXCEPT ![p] = s]
    BY DEF Begin, FetchGuildMembers, Working
  <1>3. SyncFits(s, accounts')
    BY DEF SyncFits, HasRoster, RosterInv
  <1> HIDE DEF s
  <1>4. QED
    BY <1>1, <1>2, <1>3, RosterWorks

LEMMA UpsertKeeps ==
  ASSUME RosterInv, NEW p \in Processes, UpsertGuildMembers(p)
  PROVE  /\ RosterInv'
         /\ \A x \in People : accounts'[x].admin = accounts[x].admin
  <1> DEFINE roster == sync[p].roster
             Known(x) == accounts[x].known \/ IsPlayer(roster[x])
             s == [pc |-> "upserted", roster |-> roster]
  <1>1. /\ sync[p].pc = "fetched" /\ guild' = guild
        /\ accounts' = [x \in People |-> [accounts[x] EXCEPT !.known = Known(x)]]
        /\ sync' = [sync EXCEPT ![p] = s]
    BY DEF UpsertGuildMembers, Working
  <1>2. roster \in RosterSet
    BY <1>1 DEF RosterInv, SyncFits, HasRoster
  <1>3. \A x \in People : accounts[x] \in AccountSet /\ accounts[x].known \in Flags
    BY DEF RosterInv, AccountSet
  <1>4. \A x \in People : Known(x) \in Flags
    BY Zenon DEF Flags
  <1>5. \A x \in People : accounts[x].known = TRUE \/ IsPlayer(roster[x]) => Known(x) = TRUE
    <2> SUFFICES ASSUME NEW x \in People, accounts[x].known = TRUE \/ IsPlayer(roster[x])
                 PROVE  Known(x) = TRUE
      OBVIOUS
    <2>1. CASE accounts[x].known = TRUE
      BY <2>1, Zenon
    <2>2. CASE IsPlayer(roster[x])
      BY <2>2, Zenon
    <2>3. QED
      BY <2>1, <2>2
  <1> HIDE DEF Known, roster
  <1>6. \A x \in People : /\ accounts'[x] \in AccountSet
                          /\ accounts'[x].known = Known(x)
                          /\ accounts'[x].admin = accounts[x].admin
    <2> TAKE x \in People
    <2>1. accounts'[x] = [accounts[x] EXCEPT !.known = Known(x)]
      BY <1>1
    <2>2. QED
      <3>1. accounts[x] \in AccountSet /\ Known(x) \in Flags
        BY <1>3, <1>4
      <3>2. PICK flag \in Flags : Known(x) = flag
        BY <3>1, Zenon
      <3>3. accounts'[x] = [accounts[x] EXCEPT !.known = flag]
        BY <2>1, <3>2, Zenon
      <3>4. QED
        BY <3>1, <3>2, <3>3, KnownAccount
  <1>7. accounts' \in [People -> AccountSet]
    BY <1>1, <1>6
  <1>8. AccountsKeep(accounts, accounts')
    BY <1>5, <1>6 DEF AccountsKeep
  <1>9. SyncFits(s, accounts')
    <2>1. s.pc = "upserted" /\ s.roster = roster
      OBVIOUS
    <2>2. MembersKnown(roster, accounts')
      BY <1>5, <1>6 DEF MembersKnown
    <2> HIDE DEF s
    <2>3. QED
      BY <1>2, <2>1, <2>2 DEF SyncFits, HasRoster
  <1> HIDE DEF s
  <1>10. QED
    BY <1>1, <1>6, <1>7, <1>8, <1>9, RosterWorks

LEMMA SyncRolesKeeps ==
  ASSUME RosterInv, NEW p \in Processes, SyncRoles(p)
  PROVE  /\ RosterInv'
         /\ \A x \in People : accounts'[x].admin = accounts[x].admin
  <1> DEFINE roster == sync[p].roster
             s == [pc |-> "reconciled", roster |-> roster]
  <1>1. /\ sync[p].pc = "upserted" /\ guild' = guild /\ sync' = [sync EXCEPT ![p] = s]
        /\ accounts' = [x \in People |->
                          IF accounts[x].known
                          THEN [accounts[x] EXCEPT !.role = SelectedMemberRole(roster[x])]
                          ELSE accounts[x]]
    BY DEF SyncRoles, Working
  <1>2. roster \in RosterSet /\ MembersKnown(roster, accounts)
    BY <1>1 DEF RosterInv, SyncFits, HasRoster
  <1> HIDE DEF roster
  <1>3. \A x \in People : /\ accounts'[x] \in AccountSet
                          /\ accounts'[x].known = accounts[x].known
                          /\ accounts'[x].admin = accounts[x].admin
    <2> TAKE x \in People
    <2>1. \/ accounts'[x] = accounts[x]
          \/ accounts'[x] = [accounts[x] EXCEPT !.role = SelectedMemberRole(roster[x])]
      BY <1>1
    <2>2. accounts[x] \in AccountSet /\ SelectedMemberRole(roster[x]) \in {"SOT CR Guest", "SOT CR", NoRole}
      BY SelectedIsRole DEF RosterInv
    <2>3. QED
      BY <2>1, <2>2, RoleAccount, ZenonT(40)
  <1>4. accounts' \in [People -> AccountSet]
    BY <1>1, <1>3
  <1>5. AccountsKeep(accounts, accounts')
    BY <1>3 DEF AccountsKeep
  <1>6. SyncFits(s, accounts')
    <2>1. s.pc = "reconciled" /\ s.roster = roster
      OBVIOUS
    <2>2. MembersKnown(roster, accounts')
      BY <1>2, <1>3 DEF MembersKnown
    <2> HIDE DEF s
    <2>3. QED
      BY <1>2, <2>1, <2>2 DEF SyncFits, HasRoster
  <1> HIDE DEF s
  <1>7. QED
    BY <1>1, <1>3, <1>4, <1>5, <1>6, RosterWorks

\* A member among the administrators the sync found has an account.
LEMMA SyncAdminsKeeps ==
  ASSUME RosterInv, NEW p \in Processes, SyncAdmins(p)
  PROVE  /\ RosterInv'
         /\ HasAdministrator /\ ~HasAdministrator' => NamesStrangersOnly(sync[p].roster)
  <1> DEFINE roster == sync[p].roster
             Admin(x) == accounts[x].known /\ x \in Administrators(roster)
  <1>1. /\ sync[p].pc = "reconciled" /\ guild' = guild /\ Unlock(p)
        /\ Administrators(roster) = {} => accounts' = accounts
        /\ Administrators(roster) # {} =>
             accounts' = [x \in People |-> [accounts[x] EXCEPT !.admin = Admin(x)]]
    BY DEF SyncAdmins
  <1>2. roster \in RosterSet /\ MembersKnown(roster, accounts)
    BY <1>1 DEF RosterInv, SyncFits, HasRoster
  <1>3. \A x \in People : accounts[x] \in AccountSet
    BY DEF RosterInv
  <1>4. CASE Administrators(roster) = {}
    <2>1. accounts' = accounts
      BY <1>1, <1>4
    <2>2. accounts' \in [People -> AccountSet] /\ AccountsKeep(accounts, accounts')
      BY <2>1 DEF RosterInv, AccountsKeep
    <2>3. HasAdministrator => HasAdministrator'
      BY <2>1 DEF HasAdministrator
    <2>4. QED
      BY <1>1, <2>2, <2>3, RosterUnlocks
  <1>5. CASE Administrators(roster) # {}
    <2>1. accounts' = [x \in People |-> [accounts[x] EXCEPT !.admin = Admin(x)]]
      BY <1>1, <1>5
    <2>2. \A x \in People : Admin(x) \in Flags
      BY Zenon DEF Flags
    <2>3. ASSUME NEW y \in Administrators(roster), IsPlayer(roster[y])
          PROVE  y \in People /\ Admin(y) = TRUE
      <3>1. y \in People
        BY DEF Administrators
      <3>2. accounts[y].known = TRUE
        BY <1>2, <2>3, <3>1 DEF MembersKnown
      <3>3. QED
        BY <3>1, <3>2, Zenon
    <2> HIDE DEF Admin
    <2>4. \A x \in People : /\ accounts'[x] \in AccountSet
                            /\ accounts'[x].known = accounts[x].known
                            /\ accounts'[x].admin = Admin(x)
      <3> TAKE x \in People
      <3>1. accounts'[x] = [accounts[x] EXCEPT !.admin = Admin(x)]
        BY <2>1
      <3>2. accounts[x] \in AccountSet /\ Admin(x) \in Flags
        BY <1>3, <2>2
      <3>3. PICK flag \in Flags : Admin(x) = flag
        BY <3>2, Zenon
      <3>4. accounts'[x] = [accounts[x] EXCEPT !.admin = flag]
        BY <3>1, <3>3, Zenon
      <3>5. QED
        BY <3>2, <3>3, <3>4, AdminAccount
    <2>5. accounts' \in [People -> AccountSet]
      BY <2>1, <2>4
    <2>6. AccountsKeep(accounts, accounts')
      BY <2>4 DEF AccountsKeep
    <2>7. ASSUME ~HasAdministrator' PROVE NamesStrangersOnly(roster)
      <3>1. SUFFICES ASSUME NEW y \in Administrators(roster), IsPlayer(roster[y]) PROVE FALSE
        BY <1>5 DEF NamesStrangersOnly
      <3>2. y \in People /\ accounts'[y].admin = TRUE
        BY <2>3, <2>4, <3>1
      <3>3. QED
        BY <2>7, <3>2, Zenon DEF HasAdministrator
    <2>8. RosterInv'
      BY <1>1, <2>5, <2>6, RosterUnlocks
    <2>9. QED
      BY <2>7, <2>8
  <1>6. QED
    BY <1>4, <1>5

\* What a step may do to the administrators.
LocksNobodyElseOut ==
  HasAdministrator /\ ~HasAdministrator' =>
    \E p \in Processes : SyncAdmins(p) /\ NamesStrangersOnly(sync[p].roster)

LEMMA RosterInvNext ==
  ASSUME RosterInv, [RosterNext]_rosterVars
  PROVE  RosterInv' /\ LocksNobodyElseOut
  <1>1. CASE UNCHANGED rosterVars
    <2>1. UNCHANGED <<guild, accounts, sync>>
      BY <1>1 DEF rosterVars
    <2>2. QED
      BY <2>1 DEF RosterInv, HasAdministrator, LocksNobodyElseOut
  <1>2. ASSUME NEW x \in People, NEW roles \in Kinds \cup {Gone}, ChangeGuild(x, roles)
        PROVE  RosterInv' /\ LocksNobodyElseOut
    <2>1. guild' = [guild EXCEPT ![x] = roles] /\ UNCHANGED <<accounts, sync>>
      BY <1>2 DEF ChangeGuild
    <2>2. guild' \in RosterSet
      BY <2>1 DEF RosterInv, RosterSet
    <2>3. QED
      BY <2>1, <2>2 DEF RosterInv, HasAdministrator, LocksNobodyElseOut
  <1>3. ASSUME NEW p \in Processes, Begin(p) \/ SyncStep(p) \/ SyncFails(p)
        PROVE  RosterInv' /\ LocksNobodyElseOut
    <2>1. CASE Begin(p) \/ FetchGuildMembers(p)
      <3>1. RosterInv' /\ accounts' = accounts
        BY <2>1, FetchKeeps
      <3>2. QED
        BY <3>1 DEF HasAdministrator, LocksNobodyElseOut
    <2>2. CASE UpsertGuildMembers(p) \/ SyncRoles(p)
      <3>1. RosterInv' /\ \A x \in People : accounts'[x].admin = accounts[x].admin
        BY <2>2, UpsertKeeps, SyncRolesKeeps
      <3>2. HasAdministrator => HasAdministrator'
        BY <3>1, Zenon DEF HasAdministrator
      <3>3. QED
        BY <3>1, <3>2 DEF LocksNobodyElseOut
    <2>3. CASE SyncAdmins(p)
      <3>1. /\ RosterInv'
            /\ HasAdministrator /\ ~HasAdministrator' => NamesStrangersOnly(sync[p].roster)
        BY <2>3, SyncAdminsKeeps
      <3>2. QED
        BY <2>3, <3>1 DEF LocksNobodyElseOut
    <2>4. CASE SyncFails(p)
      <3>1. UNCHANGED <<guild, accounts>> /\ Unlock(p)
        BY <2>4 DEF SyncFails
      <3>2. accounts' \in [People -> AccountSet] /\ AccountsKeep(accounts, accounts')
        BY <3>1 DEF RosterInv, AccountsKeep
      <3>3. QED
        BY <3>1, <3>2, RosterUnlocks DEF HasAdministrator, LocksNobodyElseOut
    <2>5. QED
      BY <1>3, <2>1, <2>2, <2>3, <2>4 DEF SyncStep
  <1>4. QED
    BY <1>1, <1>2, <1>3, Zenon DEF RosterNext

(***************************************************************************)
(* A sync takes the last administrator away only where the roster it       *)
(* fetched names administrators and no member among them, for any sets of  *)
(* roles, any guild and any number of processes whose syncs interleave and *)
(* fail (syncGuildMembers): an administrator who is a member of the roster *)
(* had his account created before by the same sync.                        *)
(***************************************************************************)
THEOREM AdministratorsRemainCorrect == RosterSpec => AdministratorsRemain
  <1>1. RosterInv /\ [RosterNext]_rosterVars => RosterInv'
    BY RosterInvNext
  <1>2. RosterInv /\ [RosterNext]_rosterVars =>
          [HasAdministrator /\ ~HasAdministrator' =>
             \E p \in Processes : SyncAdmins(p) /\ NamesStrangersOnly(sync[p].roster)]_rosterVars
    BY RosterInvNext DEF LocksNobodyElseOut
  <1>3. QED
    BY <1>1, <1>2, RosterInvInit, PTL DEF RosterSpec, AdministratorsRemain

-----------------------------------------------------------------------------
(***************************************************************************)
(* Playtime: the islands of visits that overlap.                           *)
(***************************************************************************)
\* A bounded set of integers has a largest and a least one.
LEMMA LargestOf ==
  ASSUME NEW lo \in Int, NEW hi \in Int, NEW T \in SUBSET (lo..hi), T # {}
  PROVE  Max(T) \in T /\ \A j \in T : j <= Max(T)
  <1> DEFINE U == {j - lo : j \in T}
             n == hi - lo
  <1>1. n \in Nat /\ U \in SUBSET (0..n) /\ U # {}
    <2>1. \A j \in T : j \in Int /\ lo <= j /\ j <= hi
      OBVIOUS
    <2>2. \A x \in U : x \in 0..n
      BY <2>1
    <2>3. PICK j \in T : TRUE
      OBVIOUS
    <2>4. j - lo \in U /\ n \in Nat
      BY <2>1, <2>3
    <2>5. QED
      BY <2>2, <2>4
  <1>2. PICK k \in U : \A j \in U : j <= k
    <2> HIDE DEF U, n
    <2> QED BY <1>1, NoEndlessClimb
  <1>3. k + lo \in T /\ \A j \in T : k + lo >= j
    BY <1>2
  <1>4. QED
    BY <1>3 DEF Max

LEMMA LeastOf ==
  ASSUME NEW lo \in Int, NEW hi \in Int, NEW T \in SUBSET (lo..hi), T # {}
  PROVE  Min(T) \in T /\ \A j \in T : Min(T) <= j
  <1> DEFINE U == {hi - j : j \in T}
             n == hi - lo
  <1>1. n \in Nat /\ U \in SUBSET (0..n) /\ U # {}
    <2>1. \A j \in T : j \in Int /\ lo <= j /\ j <= hi
      OBVIOUS
    <2>2. \A x \in U : x \in 0..n
      BY <2>1
    <2>3. PICK j \in T : TRUE
      OBVIOUS
    <2>4. hi - j \in U /\ n \in Nat
      BY <2>1, <2>3
    <2>5. QED
      BY <2>2, <2>4
  <1>2. PICK k \in U : \A j \in U : j <= k
    <2> HIDE DEF U, n
    <2> QED BY <1>1, NoEndlessClimb
  <1>3. hi - k \in T /\ \A j \in T : hi - k <= j
    BY <1>2
  <1>4. QED
    BY <1>3 DEF Min

-----------------------------------------------------------------------------
\* The visits of a window as rows, none of them empty.
TimeRows(bound) == {r \in [starts : 0..bound, ends : 0..bound] : r.ends > r.starts}
Points(rs) == UNION {r.starts..(r.ends - 1) : r \in rs}
Openers(rs) == {q \in rs : OpensIsland(rs, q)}
EndsOf(rs) == {q.ends : q \in rs}
IsLast(rs, r) == r \in rs /\ \A q \in rs \ {r} : Before(q, r) /\ ~Before(r, q)

\* The rows are ordered by their start and then by their end.
LEMMA LastRow ==
  ASSUME NEW bound \in Nat, NEW R \in SUBSET TimeRows(bound), R # {}
  PROVE  \E r \in R : IsLast(R, r)
  <1> DEFINE S == {q.starts : q \in R}
  <1>1. \A q \in R : q = [starts |-> q.starts, ends |-> q.ends] /\ q.starts \in 0..bound /\ q.ends \in 0..bound
    BY DEF TimeRows
  <1>2. S \in SUBSET (0..bound) /\ S # {}
    BY <1>1
  <1>3. PICK s \in S : \A j \in S : j <= s
    <2> HIDE DEF S
    <2> QED BY <1>2, NoEndlessClimb
  <1> DEFINE E == {q.ends : q \in {q \in R : q.starts = s}}
  <1>4. E \in SUBSET (0..bound) /\ E # {}
    BY <1>1, <1>3
  <1>5. PICK e \in E : \A j \in E : j <= e
    <2> HIDE DEF E
    <2> QED BY <1>4, NoEndlessClimb
  <1>6. PICK r \in R : r.starts = s /\ r.ends = e
    BY <1>5
  <1>7. ASSUME NEW q \in R, q # r PROVE Before(q, r) /\ ~Before(r, q)
    <2>1. q.starts \in S /\ q.starts <= s /\ q.starts \in Int /\ q.ends \in Int /\ s \in Int /\ e \in Int
      BY <1>1, <1>3, <1>6
    <2>2. q.starts = s => q.ends <= e
      BY <1>5
    <2>3. ~(q.starts = s /\ q.ends = e)
      BY <1>1, <1>6, <1>7
    <2>4. QED
      BY <2>1, <2>2, <2>3, <1>6 DEF Before
  <1>8. QED
    BY <1>7 DEF IsLast

\* What PriorEnd says: no earlier row ends later, and some row ends then.
LEMMA PriorEndIs ==
  ASSUME NEW bound \in Nat, NEW R \in SUBSET TimeRows(bound), NEW r
  PROVE  /\ PriorEnd(R, r) \in {-1} \cup {q.ends : q \in {q \in R : Before(q, r)}}
         /\ PriorEnd(R, r) \in -1..bound
         /\ \A q \in R : Before(q, r) => q.ends <= PriorEnd(R, r)
  <1> DEFINE T == {-1} \cup {q.ends : q \in {q \in R : Before(q, r)}}
  <1>1. T \in SUBSET (-1..bound) /\ T # {} /\ -1 \in Int /\ bound \in Int
    BY DEF TimeRows
  <1>2. Max(T) \in T /\ \A j \in T : j <= Max(T)
    <2> HIDE DEF T
    <2> QED BY <1>1, LargestOf
  <1>3. QED
    BY <1>1, <1>2 DEF PriorEnd

\* A last row changes nothing for the rows before it.
LEMMA EarlierIslands ==
  ASSUME NEW R, NEW r, IsLast(R, r), NEW q \in R \ {r}
  PROVE  /\ {p \in R : Before(p, q)} = {p \in R \ {r} : Before(p, q)}
         /\ OpensIsland(R, q) <=> OpensIsland(R \ {r}, q)
         /\ Island(R, q) = Island(R \ {r}, q)
  <1>1. \A p \in R \ {r} : ~Before(r, p)
    BY DEF IsLast
  <1>2. \A x \in R \ {r} : {p \in R : Before(p, x)} = {p \in R \ {r} : Before(p, x)}
    BY <1>1
  <1>3. \A x \in R \ {r} : OpensIsland(R, x) <=> OpensIsland(R \ {r}, x)
    BY <1>2 DEF OpensIsland, PriorEnd
  <1>4. {p \in R : (p = q \/ Before(p, q)) /\ OpensIsland(R, p)}
          = {p \in R \ {r} : (p = q \/ Before(p, q)) /\ OpensIsland(R \ {r}, p)}
    BY <1>1, <1>3
  <1>5. QED
    BY <1>2, <1>3, <1>4 DEF Island

\* The last row is in the last island.
LEMMA LastIsland ==
  ASSUME NEW R, NEW r, IsLast(R, r)
  PROVE  Island(R, r) = Cardinality(Openers(R))
  <1>1. {p \in R : (p = r \/ Before(p, r)) /\ OpensIsland(R, p)} = Openers(R)
    BY DEF IsLast, Openers
  <1>2. QED
    BY <1>1 DEF Island

LEMMA LastOpeners ==
  ASSUME NEW R, NEW r, IsLast(R, r)
  PROVE  Openers(R) = IF OpensIsland(R, r) THEN Openers(R \ {r}) \cup {r} ELSE Openers(R \ {r})
  <1>1. \A q \in R \ {r} : OpensIsland(R, q) <=> OpensIsland(R \ {r}, q)
    BY EarlierIslands
  <1>2. r \in R
    BY DEF IsLast
  <1>3. QED
    BY <1>1, <1>2 DEF Openers

\* Whoever ends last is in the last island.
LEMMA LatestInLast ==
  ASSUME NEW bound \in Nat, NEW Q \in SUBSET TimeRows(bound), IsFiniteSet(Q),
         NEW q \in Q, \A p \in Q : p.ends <= q.ends
  PROVE  Island(Q, q) = Cardinality(Openers(Q))
  <1> DEFINE I == {p \in Q : (p = q \/ Before(p, q)) /\ OpensIsland(Q, p)}
  <1>1. ASSUME NEW o \in Openers(Q) PROVE o \in I
    <2>1. o \in Q /\ OpensIsland(Q, o)
      BY DEF Openers
    <2>2. o.starts \in Int /\ o.ends \in Int /\ q.starts \in Int /\ q.ends \in Int /\ o.ends > o.starts
      BY <2>1 DEF TimeRows
    <2>3. SUFFICES ASSUME o # q, ~Before(o, q) PROVE FALSE
      BY <2>1
    <2>4. q = [starts |-> q.starts, ends |-> q.ends] /\ o = [starts |-> o.starts, ends |-> o.ends]
      BY <2>1 DEF TimeRows
    <2>5. Before(q, o)
      BY <2>2, <2>3, <2>4 DEF Before
    <2>6. q.ends <= PriorEnd(Q, o) /\ PriorEnd(Q, o) \in Int
      BY <2>5, PriorEndIs
    <2>7. o.starts > PriorEnd(Q, o)
      BY <2>1 DEF OpensIsland
    <2>8. o.ends <= q.ends
      BY <2>1
    <2>9. QED
      BY <2>2, <2>6, <2>7, <2>8
  <1>2. I = Openers(Q)
    BY <1>1 DEF Openers
  <1>3. QED
    BY <1>2 DEF Island
-----------------------------------------------------------------------------
\* The values a function takes on a finite set are finitely many.
LEMMA Image ==
  ASSUME NEW S, IsFiniteSet(S), NEW f, NEW T, T = {f[x] : x \in S}
  PROVE  IsFiniteSet(T) /\ Cardinality(T) <= Cardinality(S)
  <1> DEFINE g == [x \in S |-> f[x]]
  <1>1. g \in Surjection(S, T)
    BY DEF Surjection
  <1>2. QED
    BY <1>1, FS_Surjection

Credit(rs) == SumFunctionOnSet(Lengths(rs), Islands(rs))

LEMMA IslandNumbers ==
  ASSUME NEW R, IsFiniteSet(R)
  PROVE  /\ IsFiniteSet(Islands(R)) /\ Islands(R) \subseteq Nat
         /\ IsFiniteSet(Openers(R)) /\ Cardinality(Openers(R)) \in Nat
         /\ \A n \in Islands(R) : n <= Cardinality(Openers(R))
  <1> DEFINE f == [r \in R |-> Island(R, r)]
  <1>1. Islands(R) = {f[r] : r \in R}
    BY DEF Islands
  <1> HIDE DEF f
  <1>2. IsFiniteSet(Islands(R))
    BY <1>1, Image
  <1>3. Openers(R) \in SUBSET R
    BY DEF Openers
  <1>4. IsFiniteSet(Openers(R)) /\ Cardinality(Openers(R)) \in Nat
    BY <1>3, FS_Subset, FS_CardinalityType
  <1>5. ASSUME NEW r \in R PROVE Island(R, r) \in Nat /\ Island(R, r) <= Cardinality(Openers(R))
    <2> DEFINE I == {q \in R : (q = r \/ Before(q, r)) /\ OpensIsland(R, q)}
    <2>1. I \in SUBSET Openers(R)
      BY DEF Openers
    <2>2. IsFiniteSet(I) /\ Cardinality(I) <= Cardinality(Openers(R))
      BY <1>4, <2>1, FS_Subset
    <2>3. Cardinality(I) \in Nat
      BY <2>2, FS_CardinalityType
    <2>4. QED
      BY <2>2, <2>3 DEF Island
  <1>6. QED
    BY <1>2, <1>4, <1>5 DEF Islands

\* An island begins at its earliest start and ends at its latest end.
LEMMA Span ==
  ASSUME NEW bound \in Nat, NEW R \in SUBSET TimeRows(bound), NEW n \in Islands(R)
  PROVE  LET latest == Max({r.ends : r \in Merged(R, n)})
             earliest == Min({r.starts : r \in Merged(R, n)})
         IN  /\ latest \in Int /\ earliest \in Int /\ Lengths(R)[n] = latest - earliest
             /\ \E r \in Merged(R, n) : r.ends = latest
             /\ \A r \in Merged(R, n) : r.ends <= latest
             /\ \E r \in Merged(R, n) : r.starts = earliest
             /\ \A r \in Merged(R, n) : earliest <= r.starts
  <1> DEFINE E == {r.ends : r \in Merged(R, n)}
             S == {r.starts : r \in Merged(R, n)}
  <1>1. PICK r \in R : n = Island(R, r)
    BY DEF Islands
  <1>2. r \in Merged(R, n) /\ Merged(R, n) \subseteq R
    BY <1>1 DEF Merged
  <1>3. \A q \in R : q.starts \in 0..bound /\ q.ends \in 0..bound
    BY DEF TimeRows
  <1>4. E \in SUBSET (0..bound) /\ S \in SUBSET (0..bound) /\ E # {} /\ S # {}
    BY <1>2, <1>3
  <1>5. Lengths(R)[n] = Max(E) - Min(S)
    BY DEF Lengths
  <1>6. Max(E) \in E /\ (\A j \in E : j <= Max(E)) /\ Min(S) \in S /\ (\A j \in S : Min(S) <= j)
    <2> HIDE DEF E, S
    <2>1. bound \in Int /\ 0 \in Int
      OBVIOUS
    <2> QED BY <1>4, <2>1, LargestOf, LeastOf
  <1>7. Max(E) \in Int /\ Min(S) \in Int
    BY <1>4, <1>6
  <1> HIDE DEF Merged
  <1>8. QED
    BY <1>5, <1>6, <1>7

LEMMA SpanIs ==
  ASSUME NEW bound \in Nat, NEW R \in SUBSET TimeRows(bound), NEW n \in Islands(R),
         NEW x \in Merged(R, n), \A r \in Merged(R, n) : r.ends <= x.ends,
         NEW y \in Merged(R, n), \A r \in Merged(R, n) : y.starts <= r.starts
  PROVE  Lengths(R)[n] = x.ends - y.starts
  <1> DEFINE latest == Max({r.ends : r \in Merged(R, n)})
             earliest == Min({r.starts : r \in Merged(R, n)})
  <1>1. /\ latest \in Int /\ earliest \in Int /\ Lengths(R)[n] = latest - earliest
        /\ \E r \in Merged(R, n) : r.ends = latest
        /\ \A r \in Merged(R, n) : r.ends <= latest
        /\ \E r \in Merged(R, n) : r.starts = earliest
        /\ \A r \in Merged(R, n) : earliest <= r.starts
    BY Span, Zenon
  <1>2. x.ends \in Int /\ y.starts \in Int
    BY DEF Merged, TimeRows
  <1> HIDE DEF latest, earliest
  <1>3. latest = x.ends /\ earliest = y.starts
    BY <1>1, <1>2
  <1>4. QED
    BY <1>1, <1>3

LEMMA LengthsAreIntegers ==
  ASSUME NEW bound \in Nat, NEW R \in SUBSET TimeRows(bound)
  PROVE  \A n \in Islands(R) : Lengths(R)[n] \in Int
  <1> TAKE n \in Islands(R)
  <1> DEFINE latest == Max({r.ends : r \in Merged(R, n)})
             earliest == Min({r.starts : r \in Merged(R, n)})
  <1>1. latest \in Int /\ earliest \in Int /\ Lengths(R)[n] = latest - earliest
    BY Span, Zenon
  <1> HIDE DEF latest, earliest
  <1>2. QED
    BY <1>1

-----------------------------------------------------------------------------
\* A last row that opens an island is one of its own.
LEMMA IslandOpened ==
  ASSUME NEW bound \in Nat, NEW R \in SUBSET TimeRows(bound), IsFiniteSet(R),
         NEW r, IsLast(R, r), OpensIsland(R, r)
  PROVE  Credit(R) = Credit(R \ {r}) + (r.ends - r.starts)
  <1> DEFINE Q == R \ {r}
             n == Cardinality(Openers(Q)) + 1
             f == Lengths(R)
             g == Lengths(Q)
  <1>1. r \in R /\ Q \in SUBSET TimeRows(bound) /\ IsFiniteSet(Q)
    BY FS_RemoveElement DEF IsLast
  <1>2. /\ IsFiniteSet(Islands(Q)) /\ Islands(Q) \subseteq Nat
        /\ IsFiniteSet(Openers(Q)) /\ Cardinality(Openers(Q)) \in Nat
        /\ \A k \in Islands(Q) : k <= Cardinality(Openers(Q))
    <2> HIDE DEF Q
    <2> QED BY <1>1, IslandNumbers
  <1>3. Openers(R) = Openers(Q) \cup {r} /\ r \notin Openers(Q)
    BY LastOpeners DEF Openers
  <1>4. Island(R, r) = n
    <2> HIDE DEF Q
    <2>1. Cardinality(Openers(R)) = n
      BY <1>2, <1>3, FS_AddElement
    <2>2. QED
      BY <2>1, LastIsland
  <1>5. \A q \in Q : Island(R, q) = Island(Q, q)
    BY EarlierIslands
  <1>6. n \notin Islands(Q) /\ n \in Nat
    BY <1>2
  <1> HIDE DEF n
  <1>7. Islands(R) = Islands(Q) \cup {n} /\ Islands(R) \ {n} = Islands(Q)
    <2>1. R = Q \cup {r}
      BY <1>1
    <2>2. {Island(R, q) : q \in R} = {Island(R, q) : q \in Q} \cup {Island(R, r)}
      BY <2>1
    <2>3. {Island(R, q) : q \in Q} = Islands(Q)
      BY <1>5 DEF Islands
    <2>4. QED
      BY <2>2, <2>3, <1>4, <1>6 DEF Islands
  <1>8. \A k \in Islands(Q) : Merged(R, k) = Merged(Q, k)
    BY <1>1, <1>4, <1>5, <1>6 DEF Merged
  <1>9. Merged(R, n) = {r}
    <2>1. \A q \in Q : Island(Q, q) \in Islands(Q)
      BY DEF Islands
    <2>2. QED
      BY <2>1, <1>1, <1>4, <1>5, <1>6 DEF Merged
  <1>10. f[n] = r.ends - r.starts
    <2>1. r.ends \in Int /\ r.starts \in Int
      BY <1>1 DEF TimeRows
    <2>2. QED
      BY <2>1, <1>7, <1>9, SpanIs
  <1>11. \A k \in Islands(Q) : f[k] = g[k]
    BY <1>7, <1>8 DEF Lengths
  <1>12. (\A k \in Islands(R) : f[k] \in Int) /\ IsFiniteSet(Islands(R))
    <2>1. IsFiniteSet(Islands(R))
      BY IslandNumbers
    <2>2. QED
      BY <2>1, LengthsAreIntegers
  <1> HIDE DEF f, g, Q
  <1>13. SumFunctionOnSet(f, Islands(R)) = f[n] + SumFunctionOnSet(f, Islands(R) \ {n})
    BY <1>7, <1>12, SumTakes
  <1>14. SumFunctionOnSet(f, Islands(Q)) = SumFunctionOnSet(g, Islands(Q))
    BY <1>2, <1>7, <1>11, <1>12, SumSame
  <1>15. SumFunctionOnSet(f, Islands(Q)) \in Int /\ f[n] \in Int
    BY <1>7, <1>12, SumIsInteger
  <1>16. Credit(R) = f[n] + SumFunctionOnSet(g, Islands(Q))
    BY <1>7, <1>13, <1>14 DEF Credit, f
  <1>17. Credit(Q) = SumFunctionOnSet(g, Islands(Q))
    BY DEF Credit, g
  <1>18. Credit(R) = Credit(Q) + f[n]
    BY <1>14, <1>15, <1>16, <1>17
  <1>19. QED
    BY <1>10, <1>18 DEF Q

\* One that does not lengthens the last island, if it ends after it.
LEMMA IslandGrown ==
  ASSUME NEW bound \in Nat, NEW R \in SUBSET TimeRows(bound), IsFiniteSet(R),
         NEW r, IsLast(R, r), ~OpensIsland(R, r),
         NEW m \in R \ {r}, \A q \in R \ {r} : q.ends <= m.ends
  PROVE  Credit(R) = Credit(R \ {r}) + (IF r.ends > m.ends THEN r.ends - m.ends ELSE 0)
  <1> DEFINE Q == R \ {r}
             n == Island(Q, m)
             f == Lengths(R)
             g == Lengths(Q)
  <1>1. r \in R /\ Q \in SUBSET TimeRows(bound) /\ IsFiniteSet(Q) /\ m \in Q
    BY FS_RemoveElement DEF IsLast
  <1>2. \A q \in R : q.starts \in Int /\ q.ends \in Int
    BY DEF TimeRows
  <1>3. Island(R, r) = n
    <2>1. Openers(R) = Openers(Q)
      BY LastOpeners
    <2>2. n = Cardinality(Openers(Q))
      <3> HIDE DEF Q
      <3>1. \A q \in Q : q.ends <= m.ends
        BY DEF Q
      <3>2. QED
        BY <1>1, <3>1, LatestInLast
    <2>3. QED
      BY <2>1, <2>2, LastIsland
  <1>4. \A q \in Q : Island(R, q) = Island(Q, q)
    BY EarlierIslands
  <1>5. n \in Islands(Q)
    BY <1>1 DEF Islands
  <1>6. \A q \in Q : q.starts <= r.starts
    BY <1>1, <1>2 DEF IsLast, Before
  <1> HIDE DEF n
  <1>7. Islands(R) = Islands(Q)
    <2>1. R = Q \cup {r}
      BY <1>1
    <2>2. {Island(R, q) : q \in R} = {Island(R, q) : q \in Q} \cup {Island(R, r)}
      BY <2>1
    <2>3. {Island(R, q) : q \in Q} = Islands(Q)
      BY <1>4 DEF Islands
    <2>4. QED
      BY <2>2, <2>3, <1>3, <1>5 DEF Islands
  <1>8. \A k \in Islands(Q) \ {n} : Merged(R, k) = Merged(Q, k)
    BY <1>1, <1>3, <1>4 DEF Merged
  <1>9. Merged(R, n) = Merged(Q, n) \cup {r} /\ m \in Merged(Q, n)
    BY <1>1, <1>3, <1>4 DEF Merged, n
  <1> HIDE DEF Q
  <1>10. PICK y \in Merged(Q, n) : \A q \in Merged(Q, n) : y.starts <= q.starts
    <2> DEFINE earliest == Min({q.starts : q \in Merged(Q, n)})
    <2>1. /\ \E q \in Merged(Q, n) : q.starts = earliest
          /\ \A q \in Merged(Q, n) : earliest <= q.starts
      BY <1>1, <1>5, Span, Zenon
    <2>2. QED
      BY <2>1
  <1>11. Merged(Q, n) \subseteq Q /\ y \in R /\ m \in R
    BY <1>1 DEF Merged, Q
  <1>12. \A q \in Q : q.ends <= m.ends /\ q \in R
    BY DEF Q
  <1>13. g[n] = m.ends - y.starts
    BY <1>1, <1>5, <1>9, <1>10, <1>11, <1>12, SpanIs
  <1>14. f[n] = (IF r.ends > m.ends THEN r.ends ELSE m.ends) - y.starts
    <2>1. \A q \in Merged(R, n) : y.starts <= q.starts
      BY <1>6, <1>9, <1>10, <1>11
    <2>2. CASE r.ends > m.ends
      <3>1. \A q \in Merged(Q, n) : q.ends <= m.ends /\ q.ends \in Int
        BY <1>2, <1>11, <1>12
      <3>2. r.ends \in Int /\ m.ends \in Int
        BY <1>1, <1>2, <1>11
      <3>3. \A q \in Merged(R, n) : q.ends <= r.ends
        BY <1>9, <2>2, <3>1, <3>2
      <3>4. QED
        BY <1>5, <1>7, <1>9, <1>10, <2>1, <2>2, <3>3, SpanIs
    <2>3. CASE ~(r.ends > m.ends)
      <3>1. \A q \in Merged(Q, n) : q.ends <= m.ends /\ q.ends \in Int
        BY <1>2, <1>11, <1>12
      <3>2. r.ends \in Int /\ m.ends \in Int
        BY <1>1, <1>2, <1>11
      <3>3. \A q \in Merged(R, n) : q.ends <= m.ends
        BY <1>9, <2>3, <3>1, <3>2
      <3>4. QED
        BY <1>5, <1>7, <1>9, <1>10, <2>1, <2>3, <3>3, SpanIs
    <2>4. QED
      BY <2>2, <2>3
  <1>15. \A k \in Islands(R) \ {n} : g[k] = f[k]
    BY <1>7, <1>8 DEF Lengths
  <1>16. IsFiniteSet(Islands(R)) /\ \A k \in Islands(R) : f[k] \in Int /\ g[k] \in Int
    BY <1>1, <1>7, IslandNumbers, LengthsAreIntegers
  <1> HIDE DEF f, g
  <1>17. SumFunctionOnSet(f, Islands(R)) = SumFunctionOnSet(g, Islands(R)) + (f[n] - g[n])
    <2>1. n \in Islands(R)
      BY <1>5, <1>7
    <2>2. \A k \in Islands(R) : g[k] \in Int /\ f[k] \in Int
      BY <1>16
    <2>3. QED
      BY <1>15, <1>16, <2>1, <2>2, SumChanges
  <1>18. SumFunctionOnSet(g, Islands(R)) \in Int
    BY <1>16, SumIsInteger
  <1>19. f[n] - g[n] = IF r.ends > m.ends THEN r.ends - m.ends ELSE 0
    BY <1>1, <1>2, <1>11, <1>13, <1>14
  <1>20. Credit(R) = SumFunctionOnSet(f, Islands(R)) /\ Credit(Q) = SumFunctionOnSet(g, Islands(R))
    BY <1>7 DEF Credit, f, g
  <1>21. QED
    BY <1>17, <1>18, <1>19, <1>20 DEF Q

-----------------------------------------------------------------------------
\* The same of the instants the rows cover.
LEMMA PointsFinite ==
  ASSUME NEW bound \in Nat, NEW R \in SUBSET TimeRows(bound)
  PROVE  IsFiniteSet(Points(R)) /\ Cardinality(Points(R)) \in Nat
  <1>1. Points(R) \in SUBSET (0..bound)
    BY DEF Points, TimeRows
  <1>2. IsFiniteSet(0..bound)
    BY FS_Interval
  <1>3. QED
    BY <1>1, <1>2, FS_Subset, FS_CardinalityType

LEMMA PointsOpened ==
  ASSUME NEW bound \in Nat, NEW R \in SUBSET TimeRows(bound),
         NEW r, IsLast(R, r), OpensIsland(R, r)
  PROVE  Cardinality(Points(R)) = Cardinality(Points(R \ {r})) + (r.ends - r.starts)
  <1> DEFINE Q == R \ {r}
             new == r.starts..(r.ends - 1)
  <1>1. r \in R /\ r.starts \in Int /\ r.ends \in Int /\ r.starts < r.ends /\ Q \in SUBSET TimeRows(bound)
    BY DEF IsLast, TimeRows
  <1>2. \A q \in Q : q.ends \in Int /\ q.ends < r.starts
    <2> TAKE q \in Q
    <2>1. q.ends <= PriorEnd(R, r) /\ PriorEnd(R, r) \in Int /\ q.ends \in Int
      BY PriorEndIs DEF IsLast, TimeRows
    <2>2. QED
      BY <1>1, <2>1 DEF OpensIsland
  <1>3. Points(R) = Points(Q) \cup new
    BY <1>1 DEF Points
  <1>4. Points(Q) \cap new = {}
    BY <1>1, <1>2 DEF Points, TimeRows
  <1>5. IsFiniteSet(new) /\ Cardinality(new) = r.ends - r.starts
    <2>1. r.ends - 1 \in Int /\ r.starts \in Int
      BY <1>1
    <2>2. IsFiniteSet(new) /\ Cardinality(new) = IF r.starts > r.ends - 1 THEN 0 ELSE (r.ends - 1) - r.starts + 1
      BY <2>1, FS_Interval
    <2> HIDE DEF new
    <2>3. QED
      BY <1>1, <2>2
  <1>6. IsFiniteSet(Points(Q)) /\ Cardinality(Points(Q)) \in Nat
    BY <1>1, PointsFinite
  <1> HIDE DEF new, Q
  <1>7. Cardinality(Points(R)) = Cardinality(Points(Q)) + (r.ends - r.starts) - 0
    BY <1>3, <1>4, <1>5, <1>6, FS_Union, FS_EmptySet
  <1>8. QED
    BY <1>1, <1>6, <1>7 DEF Q

LEMMA PointsGrown ==
  ASSUME NEW bound \in Nat, NEW R \in SUBSET TimeRows(bound),
         NEW r, IsLast(R, r), ~OpensIsland(R, r),
         NEW m \in R \ {r}, \A q \in R \ {r} : q.ends <= m.ends
  PROVE  Cardinality(Points(R))
           = Cardinality(Points(R \ {r})) + (IF r.ends > m.ends THEN r.ends - m.ends ELSE 0)
  <1> DEFINE Q == R \ {r}
             new == m.ends..(r.ends - 1)
  <1>1. /\ r \in R /\ r.starts \in Int /\ r.ends \in Int /\ r.starts < r.ends
        /\ m \in Q /\ m.starts \in Int /\ m.ends \in Int /\ m.starts <= r.starts
        /\ Q \in SUBSET TimeRows(bound)
    BY DEF IsLast, TimeRows, Before
  <1>2. r.starts <= m.ends
    <2>1. PriorEnd(R, r) \in Int /\ r.starts <= PriorEnd(R, r)
      BY <1>1, PriorEndIs DEF OpensIsland
    <2>2. PriorEnd(R, r) = -1 \/ \E q \in R : Before(q, r) /\ q.ends = PriorEnd(R, r)
      BY PriorEndIs
    <2>3. ~(PriorEnd(R, r) = -1)
      BY <2>1 DEF IsLast, TimeRows
    <2>4. PICK q \in R : Before(q, r) /\ q.ends = PriorEnd(R, r)
      BY <2>2, <2>3
    <2>5. q # r
      BY <1>1, <2>4 DEF Before
    <2>6. QED
      BY <1>1, <2>1, <2>4, <2>5
  <1>3. Points(R) = Points(Q) \cup new
    <2>1. ASSUME NEW t \in Points(R) PROVE t \in Points(Q) \cup new
      <3>1. PICK q \in R : t \in q.starts..(q.ends - 1)
        BY DEF Points
      <3>2. CASE q # r
        BY <3>1, <3>2 DEF Points
      <3>3. CASE q = r /\ t < m.ends
        <4>1. t \in m.starts..(m.ends - 1)
          BY <1>1, <3>1, <3>3
        <4>2. QED
          BY <1>1, <4>1 DEF Points
      <3>4. CASE q = r /\ ~(t < m.ends)
        BY <1>1, <3>1, <3>4
      <3>5. QED
        BY <3>2, <3>3, <3>4
    <2>2. ASSUME NEW t \in new PROVE t \in Points(R)
      <3>1. t \in r.starts..(r.ends - 1)
        BY <1>1, <1>2
      <3>2. QED
        BY <1>1, <3>1 DEF Points
    <2>3. Points(Q) \subseteq Points(R)
      BY DEF Points
    <2>4. QED
      BY <2>1, <2>2, <2>3
  <1>4. Points(Q) \cap new = {}
    BY <1>1 DEF Points, TimeRows
  <1>5. IsFiniteSet(new) /\ Cardinality(new) = IF r.ends > m.ends THEN r.ends - m.ends ELSE 0
    <2>1. r.ends - 1 \in Int /\ m.ends \in Int
      BY <1>1
    <2>2. IsFiniteSet(new) /\ Cardinality(new) = IF m.ends > r.ends - 1 THEN 0 ELSE (r.ends - 1) - m.ends + 1
      BY <2>1, FS_Interval
    <2> HIDE DEF new
    <2>3. QED
      BY <1>1, <2>2
  <1>6. IsFiniteSet(Points(Q)) /\ Cardinality(Points(Q)) \in Nat
    BY <1>1, PointsFinite
  <1> HIDE DEF new, Q
  <1>7. Cardinality(Points(R)) = Cardinality(Points(Q)) + Cardinality(new) - 0
    BY <1>3, <1>4, <1>5, <1>6, FS_Union, FS_EmptySet
  <1>8. QED
    BY <1>1, <1>5, <1>6, <1>7 DEF Q

-----------------------------------------------------------------------------
\* Row by row, what is credited is the number of instants covered.
LEMMA CreditIsPoints ==
  ASSUME NEW bound \in Nat, NEW R \in SUBSET TimeRows(bound), IsFiniteSet(R)
  PROVE  Credit(R) = Cardinality(Points(R))
  <1> DEFINE P == {k \in Nat : \A Q \in SUBSET R : Cardinality(Q) = k => Credit(Q) = Cardinality(Points(Q))}
  <1>1. \A Q \in SUBSET R : IsFiniteSet(Q) /\ Cardinality(Q) \in Nat
    BY FS_Subset, FS_CardinalityType
  <1>2. 0 \in P
    <2>1. ASSUME NEW Q \in SUBSET R, Cardinality(Q) = 0 PROVE Credit(Q) = Cardinality(Points(Q))
      <3>1. Q = {}
        BY <1>1, <2>1, FS_EmptySet
      <3>2. Islands({}) = {} /\ Points({}) = {}
        BY DEF Islands, Points
      <3>3. Credit({}) = 0
        BY <3>2, SumOfNone DEF Credit
      <3>4. QED
        BY <3>1, <3>2, <3>3, FS_EmptySet
    <2>2. QED
      BY <2>1
  <1>3. ASSUME NEW k \in Nat, k \in P PROVE k + 1 \in P
    <2>1. ASSUME NEW Q \in SUBSET R, Cardinality(Q) = k + 1 PROVE Credit(Q) = Cardinality(Points(Q))
      <3>1. Q # {} /\ IsFiniteSet(Q) /\ Q \in SUBSET TimeRows(bound)
        BY <1>1, <2>1, FS_EmptySet
      <3>2. PICK r \in Q : IsLast(Q, r)
        BY <3>1, LastRow
      <3>3. Cardinality(Q \ {r}) = k /\ Q \ {r} \in SUBSET R
        BY <1>1, <2>1, <3>1, Rest
      <3>4. Credit(Q \ {r}) = Cardinality(Points(Q \ {r}))
        BY <1>3, <3>3
      <3>5. CASE OpensIsland(Q, r)
        <4>1. Credit(Q) = Credit(Q \ {r}) + (r.ends - r.starts)
          BY <3>1, <3>2, <3>5, IslandOpened
        <4>2. Cardinality(Points(Q)) = Cardinality(Points(Q \ {r})) + (r.ends - r.starts)
          BY <3>1, <3>2, <3>5, PointsOpened
        <4>3. QED
          BY <3>4, <4>1, <4>2
      <3>6. CASE ~OpensIsland(Q, r)
        <4>1. PICK m \in Q \ {r} : \A q \in Q \ {r} : q.ends <= m.ends
          <5> DEFINE E == {q.ends : q \in Q \ {r}}
          <5>1. E \in SUBSET (0..bound)
            BY <3>1 DEF TimeRows
          <5>2. E # {}
            <6>1. PriorEnd(Q, r) \in Int /\ r.starts \in Nat /\ r.starts <= PriorEnd(Q, r)
              BY <3>1, <3>6, PriorEndIs DEF OpensIsland, TimeRows
            <6>2. PriorEnd(Q, r) \in {q.ends : q \in {q \in Q : Before(q, r)}}
              BY <3>1, <6>1, PriorEndIs
            <6>3. PICK q \in Q : Before(q, r)
              BY <6>2
            <6>4. q # r
              BY <3>1, <6>3 DEF Before, TimeRows
            <6>5. QED
              BY <6>3, <6>4
          <5>3. PICK e \in E : \A j \in E : j <= e
            <6> HIDE DEF E
            <6> QED BY <5>1, <5>2, NoEndlessClimb
          <5>4. QED
            BY <5>3
        <4> DEFINE more == IF r.ends > m.ends THEN r.ends - m.ends ELSE 0
        <4>2. Credit(Q) = Credit(Q \ {r}) + more
          BY <3>1, <3>2, <3>6, <4>1, IslandGrown
        <4>3. Cardinality(Points(Q)) = Cardinality(Points(Q \ {r})) + more
          BY <3>1, <3>2, <3>6, <4>1, PointsGrown
        <4>4. QED
          BY <3>4, <4>2, <4>3
      <3>7. QED
        BY <3>5, <3>6
    <2>2. QED
      BY <2>1
  <1> HIDE DEF P
  <1>4. Cardinality(R) \in P
    BY <1>1, <1>2, <1>3, Climb
  <1>5. QED
    BY <1>4 DEF P

LEMMA MaxOfTwo ==
  ASSUME NEW a \in Int, NEW b \in Int
  PROVE  Max({a, b}) = IF a <= b THEN b ELSE a
  <1> DEFINE greatest == IF a <= b THEN b ELSE a
  <1>1. greatest \in {a, b} /\ \A y \in {a, b} : greatest >= y
    OBVIOUS
  <1>2. \A x \in {a, b} : (\A y \in {a, b} : x >= y) => x = greatest
    OBVIOUS
  <1>3. Max({a, b}) \in {a, b} /\ \A y \in {a, b} : Max({a, b}) >= y
    BY <1>1 DEF Max
  <1>4. QED
    BY <1>2, <1>3

Spans(visits) == \A v \in visits : {v.from, v.to, v.last} \subseteq Int

\* The clamped rows cover what the visits do within the window.
LEMMA ClampedRows ==
  ASSUME NEW visits, IsFiniteSet(visits), Spans(visits), NEW start \in Nat, NEW finish \in Int
  PROVE  LET rs == Clamped(visits, start, finish)
         IN  /\ IsFiniteSet(rs)
             /\ \E bound \in Nat : rs \in SUBSET TimeRows(bound)
             /\ Points(rs) = {t \in start..(finish - 1) : \E v \in visits : v.from <= t /\ t < EndOf(v)}
  <1> DEFINE rs == Clamped(visits, start, finish)
             touching == {v \in visits : v.from < finish /\ EndOf(v) > start}
             f == [v \in visits |-> [starts |-> Max({v.from, start}), ends |-> Min({EndOf(v), finish})]]
             bound == IF finish > 0 THEN finish ELSE 0
  <1>1. \A v \in visits : v.from \in Int /\ EndOf(v) \in Int
    BY PayrollAssumption DEF Spans, EndOf
  <1>2. \A v \in visits : /\ f[v].starts = IF v.from <= start THEN start ELSE v.from
                          /\ f[v].ends = IF EndOf(v) <= finish THEN EndOf(v) ELSE finish
    <2> TAKE v \in visits
    <2>1. Max({v.from, start}) = IF v.from <= start THEN start ELSE v.from
      BY <1>1, MaxOfTwo
    <2>2. Min({EndOf(v), finish}) = IF EndOf(v) <= finish THEN EndOf(v) ELSE finish
      BY <1>1, MinOfTwo
    <2>3. QED
      BY <2>1, <2>2
  <1>3. rs = {r \in {f[v] : v \in touching} : r.ends > r.starts}
    BY DEF Clamped
  <1>4. IsFiniteSet(rs)
    <2>1. touching \in SUBSET visits
      OBVIOUS
    <2>2. IsFiniteSet(touching)
      BY <2>1, FS_Subset
    <2> DEFINE image == {f[v] : v \in touching}
    <2>3. IsFiniteSet(image)
      <3> HIDE DEF f, touching
      <3> QED BY <2>2, Image
    <2>4. rs \in SUBSET image
      BY <1>3
    <2> HIDE DEF image, rs
    <2>5. QED
      BY <2>3, <2>4, FS_Subset
  <1>5. bound \in Nat /\ rs \in SUBSET TimeRows(bound)
    <2>1. ASSUME NEW r \in rs PROVE r \in TimeRows(bound)
      <3>1. PICK v \in touching : r = f[v] /\ r.ends > r.starts
        BY <1>3
      <3>2. r = [starts |-> r.starts, ends |-> r.ends]
        BY <3>1
      <3> HIDE DEF f
      <3>3. r.starts \in Int /\ r.ends \in Int /\ start <= r.starts /\ r.ends <= finish
        BY <1>1, <1>2, <3>1
      <3>4. r.starts \in 0..bound /\ r.ends \in 0..bound
        BY <3>1, <3>3
      <3>5. QED
        BY <3>1, <3>2, <3>4 DEF TimeRows
    <2>2. QED
      BY <2>1
  <1>6. ASSUME NEW t \in Points(rs)
        PROVE  t \in start..(finish - 1) /\ \E v \in visits : v.from <= t /\ t < EndOf(v)
    <2>1. PICK r \in rs : t \in r.starts..(r.ends - 1)
      BY DEF Points
    <2>2. PICK v \in touching : r = f[v] /\ r.ends > r.starts
      BY <1>3
    <2> HIDE DEF f, rs
    <2>3. v \in visits /\ r.starts \in Int /\ r.ends \in Int
      BY <1>1, <1>2, <2>2
    <2>4. QED
      BY <1>1, <1>2, <2>1, <2>2, <2>3
  <1>7. ASSUME NEW t \in start..(finish - 1), NEW v \in visits, v.from <= t, t < EndOf(v)
        PROVE  t \in Points(rs)
    <2>1. v \in touching
      BY <1>1, <1>7
    <2>2. t \in f[v].starts..(f[v].ends - 1) /\ f[v].ends > f[v].starts
      <3> HIDE DEF f
      <3> QED BY <1>1, <1>2, <1>7
    <2>3. f[v] \in rs
      BY <1>3, <2>1, <2>2
    <2> HIDE DEF f, rs
    <2>4. QED
      BY <2>2, <2>3 DEF Points
  <1> HIDE DEF rs
  <1>8. Points(rs) = {t \in start..(finish - 1) : \E v \in visits : v.from <= t /\ t < EndOf(v)}
    BY <1>6, <1>7
  <1>9. QED
    BY <1>4, <1>5, <1>8 DEF rs

(***************************************************************************)
(* The gaps-and-islands query credits the union of the visits: for any     *)
(* finite set of visits, however they nest, touch, overlap or stay open,   *)
(* and any window, the lengths of the islands add up to the number of      *)
(* instants of the window that a visit covers (member.PlaytimeRecap).      *)
(***************************************************************************)
THEOREM PlaytimeIsTheUnion ==
  ASSUME NEW visits, IsFiniteSet(visits), Spans(visits), NEW start \in Nat, NEW finish \in Int
  PROVE  PlaytimeRecap(visits, start, finish) = Covered(visits, start, finish)
  <1> DEFINE rs == Clamped(visits, start, finish)
  <1>1. /\ IsFiniteSet(rs)
        /\ \E bound \in Nat : rs \in SUBSET TimeRows(bound)
        /\ Points(rs) = {t \in start..(finish - 1) : \E v \in visits : v.from <= t /\ t < EndOf(v)}
    BY ClampedRows
  <1>2. PlaytimeRecap(visits, start, finish) = Credit(rs)
    BY DEF PlaytimeRecap, Credit
  <1> HIDE DEF rs
  <1>3. Credit(rs) = Cardinality(Points(rs))
    BY <1>1, CreditIsPoints
  <1>4. QED
    BY <1>1, <1>2, <1>3 DEF Covered

-----------------------------------------------------------------------------
(***************************************************************************)
(* Payslips: the shares of a payment, and the periods of a contract.       *)
(***************************************************************************)
\* Division of one number by another.
LEMMA Quotient ==
  ASSUME NEW d \in Nat \ {0}, NEW t \in Nat
  PROVE  \E q \in Nat, r \in 0..(d - 1) : t = d * q + r /\ t \div d = q /\ t % d = r
  <1> DEFINE P == {k \in Nat : \E q \in Nat, r \in 0..(d - 1) : k = d * q + r}
  <1>1. 0 \in P
    <2>1. 0 = d * 0 + 0 /\ 0 \in 0..(d - 1)
      OBVIOUS
    <2>2. QED
      BY <2>1
  <1>2. ASSUME NEW k \in Nat, k \in P PROVE k + 1 \in P
    <2>1. PICK q \in Nat, r \in 0..(d - 1) : k = d * q + r
      BY <1>2
    <2>2. CASE r + 1 < d
      <3>1. r + 1 \in 0..(d - 1) /\ k + 1 = d * q + (r + 1)
        BY <2>1, <2>2
      <3>2. QED
        BY <3>1
    <2>3. CASE r + 1 = d
      <3>1. d * (q + 1) = d * q + d /\ d * q \in Int
        OBVIOUS
      <3>2. k + 1 = d * (q + 1) + 0
        BY <2>1, <2>3, <3>1
      <3>3. 0 \in 0..(d - 1) /\ q + 1 \in Nat
        OBVIOUS
      <3> DEFINE p == q + 1
      <3>4. k + 1 = d * p + 0 /\ p \in Nat
        BY <3>2
      <3> HIDE DEF p
      <3>5. \E n \in Nat, s \in 0..(d - 1) : k + 1 = d * n + s
        BY <3>3, <3>4
      <3>6. QED
        BY <3>5
    <2>4. r + 1 < d \/ r + 1 = d
      <3>1. r \in Int /\ r <= d - 1
        OBVIOUS
      <3>2. QED
        BY <3>1
    <2>5. QED
      BY <2>2, <2>3, <2>4
  <1> HIDE DEF P
  <1>3. t \in P
    BY <1>1, <1>2, Climb
  <1>4. PICK q \in Nat, r \in 0..(d - 1) : t = d * q + r
    BY <1>3 DEF P
  <1>5. t \div d = q /\ t % d = r
    BY <1>4
  <1>6. QED
    BY <1>4, <1>5

LEMMA TimesGrows ==
  ASSUME NEW d \in Nat, NEW a \in Int, NEW b \in Int, a <= b
  PROVE  d * a <= d * b /\ d * a \in Int /\ d * b \in Int
  OBVIOUS

LEMMA TimesLeaps ==
  ASSUME NEW d \in Nat, NEW a \in Int, NEW b \in Int, a < b
  PROVE  d * a + d <= d * b
  OBVIOUS

-----------------------------------------------------------------------------
\* A share of the payment, rounded down.
Share(payment, counted, total) == (((payment * counted) \div total) \div Rounding) * Rounding

LEMMA ShareIs ==
  ASSUME NEW payment \in Nat, NEW counted \in Nat, NEW total \in Nat \ {0}
  PROVE  LET share == Share(payment, counted, total)
         IN  /\ share \in Nat
             /\ total * share <= payment * counted
             /\ payment * counted + 1 <= total * (share + Rounding)
  <1> DEFINE x == payment * counted
             share == Share(payment, counted, total)
  <1>1. x \in Nat
    OBVIOUS
  <1> HIDE DEF x
  <1>2. PICK q \in Nat, r \in 0..(total - 1) : x = total * q + r /\ x \div total = q
    BY <1>1, Quotient
  <1>3. PICK b \in Nat, s \in 0..999 : q = 1000 * b + s /\ q \div 1000 = b
    BY Quotient
  <1>4. share = 1000 * b /\ share \in Nat /\ share <= q /\ q + 1 <= share + 1000
    BY <1>2, <1>3 DEF Share, Rounding, x
  <1> HIDE DEF share
  <1>5. total * share <= total * q /\ total * q \in Int /\ total * share \in Int
    BY <1>4, TimesGrows
  <1>6. total * (q + 1) <= total * (share + 1000) /\ total * (share + 1000) \in Int
    BY <1>4, TimesGrows
  <1>7. total * (q + 1) = total * q + total
    OBVIOUS
  <1>8. total * share <= x /\ x + 1 <= total * (share + 1000)
    BY <1>2, <1>5, <1>6, <1>7
  <1>9. QED
    BY <1>4, <1>8 DEF x, share, Rounding

LEMMA ShareGrows ==
  ASSUME NEW payment \in Nat, NEW c \in Nat, NEW d \in Nat, c <= d, NEW total \in Nat \ {0}
  PROVE  Share(payment, c, total) <= Share(payment, d, total)
  <1> DEFINE x == payment * c
             y == payment * d
  <1>1. x \in Nat /\ y \in Nat /\ x <= y
    BY TimesGrows
  <1> HIDE DEF x, y
  <1>2. PICK q \in Nat, r \in 0..(total - 1) : x = total * q + r /\ x \div total = q
    BY <1>1, Quotient
  <1>3. PICK p \in Nat, s \in 0..(total - 1) : y = total * p + s /\ y \div total = p
    BY <1>1, Quotient
  <1>4. q <= p
    <2>1. SUFFICES ASSUME p < q PROVE FALSE
      OBVIOUS
    <2>2. total * p + total <= total * q /\ total * p \in Int /\ total * q \in Int
      BY <2>1, TimesLeaps
    <2>3. QED
      BY <1>1, <1>2, <1>3, <2>2
  <1>5. (q \div 1000) * 1000 <= (p \div 1000) * 1000
    BY <1>4
  <1>6. QED
    BY <1>2, <1>3, <1>5 DEF Share, Rounding, x, y

\* What adds nothing can be left out of a sum.
LEMMA SumOfSupport ==
  ASSUME NEW S, IsFiniteSet(S), NEW E \in SUBSET S, NEW f,
         \A x \in S : f[x] \in Int, \A x \in S \ E : f[x] = 0
  PROVE  SumFunctionOnSet(f, S) = SumFunctionOnSet(f, E)
  <1> DEFINE P == {k \in Nat : \A T \in SUBSET S :
                     E \subseteq T /\ Cardinality(T \ E) = k => SumFunctionOnSet(f, T) = SumFunctionOnSet(f, E)}
  <1>1. \A T \in SUBSET S : IsFiniteSet(T \ E) /\ Cardinality(T \ E) \in Nat
    <2> TAKE T \in SUBSET S
    <2>1. T \ E \in SUBSET S
      OBVIOUS
    <2>2. QED
      BY <2>1, FS_Subset, FS_CardinalityType
  <1>2. 0 \in P
    <2>1. \A T \in SUBSET S : E \subseteq T /\ Cardinality(T \ E) = 0 => T = E
      <3>1. \A T \in SUBSET S : Cardinality(T \ E) = 0 => T \ E = {}
        BY <1>1, FS_EmptySet
      <3>2. QED
        BY <3>1
    <2>2. QED
      BY <2>1
  <1>3. ASSUME NEW k \in Nat, k \in P PROVE k + 1 \in P
    <2>1. ASSUME NEW T \in SUBSET S, E \subseteq T, Cardinality(T \ E) = k + 1
          PROVE  SumFunctionOnSet(f, T) = SumFunctionOnSet(f, E)
      <3>1. T \ E # {}
        <4>1. Cardinality(T \ E) # 0
          BY <2>1
        <4>2. QED
          BY <4>1, FS_EmptySet
      <3>2. PICK x \in T \ E : TRUE
        BY <3>1
      <3>3. (T \ E) \ {x} = (T \ {x}) \ E /\ E \subseteq T \ {x} /\ T \ {x} \in SUBSET S
        BY <2>1, <3>2
      <3>4. Cardinality((T \ E) \ {x}) = k
        <4> DEFINE U == T \ E
        <4>1. IsFiniteSet(U) /\ Cardinality(U) = k + 1 /\ x \in U
          BY <1>1, <2>1, <3>2
        <4> HIDE DEF U
        <4>2. Cardinality(U \ {x}) = Cardinality(U) - 1
          BY <4>1, FS_RemoveElement
        <4>3. QED
          BY <4>1, <4>2 DEF U
      <3>5. SumFunctionOnSet(f, T \ {x}) = SumFunctionOnSet(f, E)
        BY <1>3, <3>3, <3>4
      <3>6. SumFunctionOnSet(f, T) = f[x] + SumFunctionOnSet(f, T \ {x})
        BY <2>1, <3>2, SumTakes
      <3>7. SumFunctionOnSet(f, E) \in Int /\ f[x] = 0
        BY <3>2, SumIsInteger
      <3>8. QED
        BY <3>5, <3>6, <3>7
    <2>2. QED
      BY <2>1
  <1> HIDE DEF P
  <1>4. Cardinality(S \ E) \in P
    BY <1>1, <1>2, <1>3, Climb
  <1>5. QED
    BY <1>4 DEF P

-----------------------------------------------------------------------------
\* The attended days of a finite set of players, and a contract that was saved.
PayInput(days, contract) ==
  /\ IsFiniteSet(DOMAIN days)
  /\ days = [p \in DOMAIN days |-> days[p]]
  /\ \A p \in DOMAIN days : days[p] \in Nat
  /\ contract.payment \in Int
  /\ ValidContract(contract)

CountsOf(days, contract) == [p \in DOMAIN days |-> Counted(days, contract, p)]

LEMMA CountedIs ==
  ASSUME NEW days, NEW contract, PayInput(days, contract), NEW excluded
  PROVE  /\ Eligible(days, excluded, contract) \in SUBSET DOMAIN days
         /\ IsFiniteSet(Eligible(days, excluded, contract))
         /\ \A p \in DOMAIN days : /\ Counted(days, contract, p) \in Nat
                                   /\ CountsOf(days, contract)[p] = Counted(days, contract, p)
         /\ \A p \in Eligible(days, excluded, contract) : Counted(days, contract, p) >= 1
         /\ \A p, q \in DOMAIN days :
              days[p] >= days[q] => Counted(days, contract, p) >= Counted(days, contract, q)
  <1>1. /\ contract.minimum \in 1..31 /\ contract.maximum \in 1..31
        /\ \A p \in DOMAIN days : days[p] \in Nat
    BY DEF PayInput, ValidContract
  <1>2. \A p \in DOMAIN days :
          Counted(days, contract, p) = IF days[p] <= contract.maximum THEN days[p] ELSE contract.maximum
    <2> TAKE p \in DOMAIN days
    <2>1. days[p] \in Int /\ contract.maximum \in Int
      BY <1>1
    <2>2. QED
      BY <2>1, MinOfTwo DEF Counted
  <1>3. Eligible(days, excluded, contract) \in SUBSET DOMAIN days
    BY DEF Eligible
  <1>4. IsFiniteSet(Eligible(days, excluded, contract))
    BY <1>3, FS_Subset DEF PayInput
  <1>5. \A p \in Eligible(days, excluded, contract) : days[p] >= contract.minimum
    BY DEF Eligible
  <1>6. \A p \in DOMAIN days : Counted(days, contract, p) \in Nat
    BY <1>1, <1>2
  <1>7. \A p \in Eligible(days, excluded, contract) : Counted(days, contract, p) >= 1
    BY <1>1, <1>2, <1>3, <1>5
  <1>8. \A p, q \in DOMAIN days :
          days[p] >= days[q] => Counted(days, contract, p) >= Counted(days, contract, q)
    BY <1>1, <1>2
  <1>9. QED
    BY <1>3, <1>4, <1>6, <1>7, <1>8 DEF CountsOf

\* The days the pool is divided by; there are some when somebody is eligible.
LEMMA PoolIs ==
  ASSUME NEW days, NEW contract, PayInput(days, contract), NEW excluded
  PROVE  LET eligible == Eligible(days, excluded, contract)
         IN  /\ CountedDays(days, excluded, contract) = SumFunctionOnSet(CountsOf(days, contract), eligible)
             /\ CountedDays(days, excluded, contract) \in Nat
             /\ eligible # {} => CountedDays(days, excluded, contract) \in Nat \ {0}
             /\ \A p \in eligible : Payout(days, excluded, contract, p)
                  = Share(contract.payment, Counted(days, contract, p), CountedDays(days, excluded, contract))
             /\ \A p \in DOMAIN days \ eligible : Payout(days, excluded, contract, p) = 0
  <1> DEFINE eligible == Eligible(days, excluded, contract)
             f == CountsOf(days, contract)
             total == CountedDays(days, excluded, contract)
  <1>1. total = SumFunctionOnSet(f, eligible)
    BY DEF CountedDays, CountsOf
  <1>2. /\ eligible \in SUBSET DOMAIN days /\ IsFiniteSet(eligible)
        /\ \A p \in eligible : f[p] \in Nat /\ f[p] >= 1
    BY CountedIs
  <1> HIDE DEF f, eligible
  <1>3. SumFunctionOnSet(f, eligible) \in Nat /\ \A p \in eligible : f[p] <= SumFunctionOnSet(f, eligible)
    BY <1>2, SumCovers
  <1>4. total \in Nat /\ (eligible # {} => total # 0)
    BY <1>1, <1>2, <1>3
  <1> HIDE DEF total
  <1>5. \A p \in eligible : Payout(days, excluded, contract, p)
           = Share(contract.payment, Counted(days, contract, p), total)
    BY <1>4 DEF Payout, Share, total, eligible
  <1>6. \A p \in DOMAIN days \ eligible : Payout(days, excluded, contract, p) = 0
    BY DEF Payout, eligible
  <1>7. QED
    BY <1>1, <1>4, <1>5, <1>6 DEF f, eligible, total

\* The bounds of each share add up over any of the players.
LEMMA ShareSums ==
  ASSUME NEW E, IsFiniteSet(E), NEW payment \in Nat, NEW total \in Nat \ {0}, NEW c, NEW pay,
         \A p \in E : /\ c[p] \in Nat /\ pay[p] \in Nat
                      /\ total * pay[p] <= payment * c[p]
                      /\ payment * c[p] + 1 <= total * (pay[p] + Rounding)
  PROVE  \A S \in SUBSET E :
           /\ total * SumFunctionOnSet(pay, S) <= payment * SumFunctionOnSet(c, S)
           /\ payment * SumFunctionOnSet(c, S) + Cardinality(S)
                <= total * (SumFunctionOnSet(pay, S) + Rounding * Cardinality(S))
  <1> DEFINE Bounded(S) ==
               /\ total * SumFunctionOnSet(pay, S) <= payment * SumFunctionOnSet(c, S)
               /\ payment * SumFunctionOnSet(c, S) + Cardinality(S)
                    <= total * (SumFunctionOnSet(pay, S) + Rounding * Cardinality(S))
             P == {k \in Nat : \A S \in SUBSET E : Cardinality(S) = k => Bounded(S)}
  <1>1. \A S \in SUBSET E : IsFiniteSet(S) /\ Cardinality(S) \in Nat
    BY FS_Subset, FS_CardinalityType
  <1>2. \A S \in SUBSET E : SumFunctionOnSet(pay, S) \in Int /\ SumFunctionOnSet(c, S) \in Int
    <2>1. (\A p \in E : pay[p] \in Int) /\ \A p \in E : c[p] \in Int
      OBVIOUS
    <2>2. \A S \in SUBSET E : SumFunctionOnSet(pay, S) \in Int
      BY <2>1, SumIsInteger
    <2>3. \A S \in SUBSET E : SumFunctionOnSet(c, S) \in Int
      BY <2>1, SumIsInteger
    <2>4. QED
      BY <2>2, <2>3
  <1>3. 0 \in P
    <2>1. ASSUME NEW S \in SUBSET E, Cardinality(S) = 0 PROVE Bounded(S)
      <3>1. S = {}
        BY <1>1, <2>1, FS_EmptySet
      <3>2. SumFunctionOnSet(pay, S) = 0 /\ SumFunctionOnSet(c, S) = 0
        BY <3>1, SumOfNone
      <3>3. total * 0 = 0 /\ payment * 0 = 0 /\ total * (0 + Rounding * 0) = 0
        BY DEF Rounding
      <3>4. QED
        BY <2>1, <3>2, <3>3
    <2>2. QED
      BY <2>1
  <1>4. ASSUME NEW k \in Nat, k \in P PROVE k + 1 \in P
    <2>1. ASSUME NEW S \in SUBSET E, Cardinality(S) = k + 1 PROVE Bounded(S)
      <3>1. S # {}
        <4>1. Cardinality(S) # 0
          BY <2>1
        <4>2. QED
          BY <4>1, FS_EmptySet
      <3>2. PICK p \in S : TRUE
        BY <3>1
      <3> DEFINE T == S \ {p}
                 a == SumFunctionOnSet(pay, T)
                 b == SumFunctionOnSet(c, T)
      <3>3. T \in SUBSET E /\ Cardinality(T) = k
        BY <2>1, <3>2, Rest
      <3>4. Bounded(T)
        BY <1>4, <3>3
      <3>5. SumFunctionOnSet(pay, S) = pay[p] + a /\ SumFunctionOnSet(c, S) = c[p] + b
        <4>1. (\A q \in E : pay[q] \in Int) /\ \A q \in E : c[q] \in Int
          OBVIOUS
        <4>2. SumFunctionOnSet(pay, S) = pay[p] + SumFunctionOnSet(pay, S \ {p})
          BY <2>1, <3>2, <4>1, SumTakes
        <4>3. SumFunctionOnSet(c, S) = c[p] + SumFunctionOnSet(c, S \ {p})
          BY <2>1, <3>2, <4>1, SumTakes
        <4>4. QED
          BY <4>2, <4>3
      <3>6. a \in Int /\ b \in Int
        BY <1>2, <3>3
      <3>7. total * a <= payment * b /\ payment * b + k <= total * (a + 1000 * k)
        BY <3>3, <3>4 DEF Rounding
      <3> HIDE DEF a, b, T
      <3>8. /\ pay[p] \in Nat /\ c[p] \in Nat /\ total * pay[p] <= payment * c[p]
            /\ payment * c[p] + 1 <= total * (pay[p] + 1000)
        BY <2>1, <3>2 DEF Rounding
      <3>9. total * (pay[p] + a) <= payment * (c[p] + b)
        <4>1. total * (pay[p] + a) = total * pay[p] + total * a
          BY <3>6, <3>8
        <4>2. payment * (c[p] + b) = payment * c[p] + payment * b
          BY <3>6, <3>8
        <4>3. total * pay[p] \in Int /\ total * a \in Int /\ payment * c[p] \in Int /\ payment * b \in Int
          BY <3>6, <3>8
        <4>4. QED
          BY <3>7, <3>8, <4>1, <4>2, <4>3
      <3>10. payment * (c[p] + b) + (k + 1) <= total * ((pay[p] + a) + 1000 * (k + 1))
        <4> DEFINE u == pay[p] + 1000
                   v == a + 1000 * k
        <4>1. (pay[p] + a) + 1000 * (k + 1) = u + v /\ u \in Int /\ v \in Int
          BY <3>6, <3>8
        <4>2. payment * b + k <= total * v /\ payment * c[p] + 1 <= total * u
          BY <3>7, <3>8
        <4> HIDE DEF u, v
        <4>3. total * (u + v) = total * u + total * v /\ total * u \in Int /\ total * v \in Int
          BY <4>1
        <4>4. payment * (c[p] + b) = payment * c[p] + payment * b
          BY <3>6, <3>8
        <4>5. payment * c[p] \in Int /\ payment * b \in Int
          BY <3>6, <3>8
        <4>6. payment * (c[p] + b) + (k + 1) <= total * (u + v)
          BY <4>2, <4>3, <4>4, <4>5
        <4>7. QED
          BY <4>1, <4>6
      <3>11. QED
        BY <2>1, <3>5, <3>9, <3>10 DEF Rounding
    <2>2. QED
      BY <2>1
  <1> HIDE DEF P
  <1>5. \A S \in SUBSET E : Cardinality(S) \in P
    BY <1>1, <1>3, <1>4, Climb
  <1>6. QED
    BY <1>5 DEF P

(***************************************************************************)
(* The payment of a period is shared out by the counted days, for any      *)
(* finite set of players, any attendance, any exclusions and any contract  *)
(* that Validate lets be saved: what is paid never exceeds the payment and *)
(* leaves less than the rounding of each player behind, more counted days  *)
(* never earn less, and who is not eligible is paid nothing and changes    *)
(* nobody's payout (payslip.Calculate).                                    *)
(***************************************************************************)
THEOREM PaymentIsShared ==
  ASSUME NEW days, NEW contract, PayInput(days, contract), NEW excluded
  PROVE  SharesPayment(days, excluded, contract)
  <1> DEFINE eligible == Eligible(days, excluded, contract)
             c == CountsOf(days, contract)
             pay == Payouts(days, excluded, contract)
             total == CountedDays(days, excluded, contract)
             paid == TotalPayout(days, excluded, contract)
  <1>1. /\ eligible \in SUBSET DOMAIN days /\ IsFiniteSet(eligible)
        /\ \A p \in DOMAIN days : Counted(days, contract, p) \in Nat /\ c[p] = Counted(days, contract, p)
        /\ \A p, q \in DOMAIN days :
              days[p] >= days[q] => Counted(days, contract, p) >= Counted(days, contract, q)
    BY CountedIs
  <1>2. /\ total = SumFunctionOnSet(c, eligible) /\ total \in Nat
        /\ eligible # {} => total \in Nat \ {0}
        /\ \A p \in eligible : pay[p] = Share(contract.payment, c[p], total)
        /\ \A p \in DOMAIN days \ eligible : pay[p] = 0
    BY <1>1, PoolIs DEF Payouts
  <1>3. contract.payment \in Nat /\ contract.payment > 0 /\ IsFiniteSet(DOMAIN days)
    BY DEF PayInput, ValidContract
  <1>4. \A p \in eligible :
          /\ c[p] \in Nat /\ pay[p] \in Nat
          /\ total * pay[p] <= contract.payment * c[p]
          /\ contract.payment * c[p] + 1 <= total * (pay[p] + Rounding)
    <2> HIDE DEF eligible, c, pay, total
    <2> TAKE p \in eligible
    <2>1. c[p] \in Nat /\ total \in Nat \ {0} /\ pay[p] = Share(contract.payment, c[p], total)
      BY <1>1, <1>2
    <2>2. QED
      BY <1>3, <2>1, ShareIs
  <1>5. \A p \in DOMAIN days : pay[p] \in Int
    BY <1>2, <1>4
  <1>6. paid = SumFunctionOnSet(pay, eligible)
    <2>1. paid = SumFunctionOnSet(pay, DOMAIN days)
      BY DEF TotalPayout
    <2> HIDE DEF pay, paid, eligible
    <2>2. QED
      BY <1>1, <1>2, <1>3, <1>5, <2>1, SumOfSupport
  <1> HIDE DEF eligible, c, pay, total, paid
  <1>7. paid \in Int
    BY <1>1, <1>5, <1>6, SumIsInteger
  <1>8. ASSUME eligible # {}
        PROVE  paid <= contract.payment /\ contract.payment - paid < Rounding * Cardinality(eligible)
    <2> DEFINE k == Cardinality(eligible)
               payment == contract.payment
    <2>1. k \in Nat /\ k # 0 /\ total \in Nat \ {0} /\ payment \in Nat
      BY <1>1, <1>2, <1>3, <1>8, FS_CardinalityType, FS_EmptySet
    <2>2. /\ total * SumFunctionOnSet(pay, eligible) <= contract.payment * SumFunctionOnSet(c, eligible)
          /\ contract.payment * SumFunctionOnSet(c, eligible) + Cardinality(eligible)
               <= total * (SumFunctionOnSet(pay, eligible) + Rounding * Cardinality(eligible))
      <3>1. eligible \in SUBSET eligible
        OBVIOUS
      <3>2. QED
        BY <1>1, <1>3, <1>4, <2>1, <3>1, ShareSums
    <2>3. /\ total * paid <= payment * total
          /\ payment * total + k <= total * (paid + Rounding * k)
      BY <1>2, <1>6, <2>2
    <2> HIDE DEF k, payment
    <2>4. paid <= payment
      <3>1. SUFFICES ASSUME payment < paid PROVE FALSE
        BY <1>7, <2>1
      <3>2. total * payment + total <= total * paid
        BY <1>7, <2>1, <3>1, TimesLeaps
      <3>3. total * payment = payment * total /\ total * payment \in Int /\ total * paid \in Int
        BY <1>7, <2>1
      <3>4. QED
        BY <2>1, <2>3, <3>2, <3>3
    <2>5. payment < paid + 1000 * k
      <3> DEFINE most == paid + 1000 * k
      <3>1. most \in Int
        BY <1>7, <2>1
      <3>2. payment * total + k <= total * most
        BY <2>3 DEF Rounding
      <3> HIDE DEF most
      <3>3. SUFFICES ASSUME most <= payment PROVE FALSE
        BY <2>1, <3>1 DEF most
      <3>4. total * most <= total * payment
        BY <2>1, <3>1, <3>3, TimesGrows
      <3>5. total * payment = payment * total /\ total * payment \in Int /\ total * most \in Int
        BY <2>1, <3>1
      <3>6. QED
        BY <2>1, <3>2, <3>4, <3>5
    <2>6. payment - paid < 1000 * k
      BY <1>7, <2>1, <2>5
    <2>7. QED
      BY <2>4, <2>6 DEF Rounding, k, payment
  <1>9. paid <= contract.payment
    <2>1. CASE eligible = {}
      <3>1. paid = 0
        BY <1>6, <2>1, SumOfNone
      <3>2. QED
        BY <1>3, <3>1
    <2>2. QED
      BY <1>8, <2>1
  <1>10. ASSUME NEW p \in eligible, NEW q \in eligible, days[p] >= days[q]
         PROVE  pay[p] >= pay[q]
    <2>1. c[p] \in Nat /\ c[q] \in Nat /\ c[q] <= c[p] /\ total \in Nat \ {0}
      BY <1>1, <1>2, <1>10
    <2>2. Share(contract.payment, c[q], total) <= Share(contract.payment, c[p], total)
      BY <1>3, <2>1, ShareGrows
    <2>3. pay[p] \in Int /\ pay[q] \in Int
      BY <1>4
    <2>4. QED
      BY <1>2, <2>2, <2>3
  <1>11. ASSUME NEW p \in DOMAIN days \ eligible, NEW q \in DOMAIN days
         PROVE  Payout([days EXCEPT ![p] = 0], excluded, contract, q) = pay[q]
    <2> DEFINE other == [days EXCEPT ![p] = 0]
    <2>1. /\ DOMAIN other = DOMAIN days /\ \A x \in DOMAIN days \ {p} : other[x] = days[x]
          /\ other[p] = 0 /\ PayInput(other, contract)
      BY DEF PayInput
    <2>2. Eligible(other, excluded, contract) = eligible
      <3>1. contract.minimum \in 1..31
        BY DEF PayInput, ValidContract
      <3>2. ~(other[p] >= contract.minimum)
        BY <2>1, <3>1
      <3> HIDE DEF other
      <3>3. QED
        BY <2>1, <3>2 DEF Eligible, eligible
    <2> HIDE DEF other
    <2>3. \A x \in DOMAIN days \ {p} : Counted(other, contract, x) = Counted(days, contract, x)
      BY <2>1 DEF Counted
    <2>4. CountedDays(other, excluded, contract) = total
      <3> DEFINE d == CountsOf(other, contract)
      <3>1. CountedDays(other, excluded, contract) = SumFunctionOnSet(d, eligible)
        BY <2>1, <2>2, PoolIs
      <3>2. \A x \in eligible : c[x] = d[x] /\ c[x] \in Int
        BY <1>1, <2>1, <2>3, <1>11 DEF CountsOf
      <3> HIDE DEF d
      <3>3. eligible \in SUBSET eligible
        OBVIOUS
      <3>4. SumFunctionOnSet(c, eligible) = SumFunctionOnSet(d, eligible)
        BY <1>1, <3>2, <3>3, SumSame
      <3>5. QED
        BY <1>2, <3>1, <3>4
    <2>5. CASE q \in eligible
      <3>1. Payout(other, excluded, contract, q) = Share(contract.payment, Counted(other, contract, q), total)
        BY <2>1, <2>2, <2>4, <2>5, PoolIs
      <3>2. Counted(other, contract, q) = c[q]
        BY <1>1, <2>3, <2>5
      <3>3. QED
        BY <1>2, <2>5, <3>1, <3>2 DEF other
    <2>6. CASE q \notin eligible
      <3>1. Payout(other, excluded, contract, q) = 0
        BY <2>1, <2>2, <2>6, PoolIs
      <3>2. QED
        BY <1>2, <2>6, <3>1 DEF other
    <2>7. QED
      BY <2>5, <2>6
  <1>12. QED
    <2>1. \A p, q \in eligible : days[p] >= days[q] => pay[p] >= pay[q]
      BY <1>10
    <2>2. eligible # {} => contract.payment - paid < Rounding * Cardinality(eligible)
      BY <1>8
    <2>3. \A p \in DOMAIN days \ eligible :
            /\ pay[p] = 0
            /\ \A q \in DOMAIN days : Payout([days EXCEPT ![p] = 0], excluded, contract, q) = pay[q]
      BY <1>2, <1>11
    <2>4. QED
      BY <1>9, <2>1, <2>2, <2>3 DEF SharesPayment, eligible, pay, paid

-----------------------------------------------------------------------------
\* Months that have days, and the dates they begin on.
IsCalendar(months) ==
  months \in Seq(Nat \ {0}) /\ Len(months) >= 2

LEMMA FirstGrows ==
  ASSUME NEW months, IsCalendar(months)
  PROVE  /\ Len(months) \in Nat /\ DOMAIN months = 1..Len(months)
         /\ \A n \in DOMAIN months : months[n] \in Nat \ {0}
         /\ \A n \in 1..(Len(months) + 1) : FirstOf(months, n) \in Int
         /\ FirstOf(months, 1) = 0
         /\ \A n \in 1..Len(months) : FirstOf(months, n + 1) = FirstOf(months, n) + months[n]
         /\ \A n, m \in 1..(Len(months) + 1) : n <= m => FirstOf(months, n) <= FirstOf(months, m)
  <1> DEFINE last == Len(months)
  <1>1. last \in Nat /\ DOMAIN months = 1..last /\ \A n \in 1..last : months[n] \in Nat \ {0}
    BY DEF IsCalendar
  <1> HIDE DEF last
  <1>2. IsFiniteSet(1..last) /\ \A n \in 1..last : months[n] \in Int
    BY <1>1, FS_Interval
  <1>3. \A n \in 1..(last + 1) : FirstOf(months, n) \in Int
    <2> TAKE n \in 1..(last + 1)
    <2>1. 1..(n - 1) \in SUBSET (1..last)
      BY <1>1
    <2>2. QED
      BY <1>2, <2>1, SumIsInteger DEF FirstOf
  <1>4. FirstOf(months, 1) = 0
    <2>1. 1..(1 - 1) = {}
      OBVIOUS
    <2>2. QED
      BY <2>1, SumOfNone DEF FirstOf
  <1>5. ASSUME NEW n \in 1..last PROVE FirstOf(months, n + 1) = FirstOf(months, n) + months[n]
    <2>a. n \in Int /\ n >= 1 /\ n <= last
      BY <1>1
    <2>b. 1..((n + 1) - 1) = 1..n
      BY <2>a
    <2>c. (1..n) \ {n} = 1..(n - 1)
      BY <2>a
    <2>d. n \in 1..n
      BY <2>a
    <2>e. 1..n \in SUBSET (1..last)
      BY <1>1, <2>a
    <2>1. 1..((n + 1) - 1) = 1..n /\ (1..n) \ {n} = 1..(n - 1) /\ n \in 1..n /\ 1..n \in SUBSET (1..last)
      BY <2>b, <2>c, <2>d, <2>e
    <2>2. SumFunctionOnSet(months, 1..n) = months[n] + SumFunctionOnSet(months, (1..n) \ {n})
      <3>1. SumFunctionOnSet(months, 1..n) = months[n] + SumFunctionOnSet(months, 1..(n - 1))
        BY <1>1, <1>2, SumOfFirst
      <3>2. QED
        BY <2>1, <3>1
    <2>3. SumFunctionOnSet(months, 1..(n - 1)) = FirstOf(months, n) /\ FirstOf(months, n) \in Int
      BY <1>1, <1>3 DEF FirstOf
    <2>4. FirstOf(months, n + 1) = SumFunctionOnSet(months, 1..n)
      BY <2>1 DEF FirstOf
    <2>5. months[n] \in Int
      BY <1>2
    <2>6. FirstOf(months, n + 1) = months[n] + FirstOf(months, n)
      BY <2>1, <2>2, <2>3, <2>4
    <2>7. QED
      BY <2>3, <2>5, <2>6
  <1>6. ASSUME NEW n \in 1..(last + 1), NEW m \in 1..(last + 1), n <= m
        PROVE  FirstOf(months, n) <= FirstOf(months, m)
    <2> DEFINE P == {k \in Nat : n + k <= last + 1 => FirstOf(months, n) <= FirstOf(months, n + k)}
    <2>1. 0 \in P
      <3>1. n + 0 = n /\ FirstOf(months, n) \in Int
        BY <1>3
      <3>2. QED
        BY <3>1
    <2>2. ASSUME NEW k \in Nat, k \in P PROVE k + 1 \in P
      <3>1. SUFFICES ASSUME n + (k + 1) <= last + 1
                     PROVE  FirstOf(months, n) <= FirstOf(months, n + (k + 1))
        OBVIOUS
      <3> DEFINE j == n + k
      <3>2. j \in 1..last /\ n + (k + 1) = j + 1 /\ j \in 1..(last + 1)
        BY <1>1, <3>1
      <3>3. FirstOf(months, n) <= FirstOf(months, j)
        BY <1>1, <2>2, <3>2
      <3> HIDE DEF j
      <3>4. FirstOf(months, j + 1) = FirstOf(months, j) + months[j]
        BY <1>5, <3>2
      <3>5. FirstOf(months, n) \in Int /\ FirstOf(months, j) \in Int /\ months[j] \in Nat
        BY <1>1, <1>3, <3>2
      <3>6. QED
        BY <3>2, <3>3, <3>4, <3>5
    <2> HIDE DEF P
    <2>3. m - n \in P
      <3>1. m - n \in Nat
        BY <1>6
      <3>2. QED
        BY <2>1, <2>2, <3>1, Climb
    <2>4. n + (m - n) = m /\ m <= last + 1
      BY <1>1
    <2>5. QED
      BY <2>3, <2>4 DEF P
  <1>7. QED
    BY <1>1, <1>3, <1>4, <1>5, <1>6 DEF last

\* A boundary is a date of its month, and the boundaries go up.
LEMMA BoundariesGrow ==
  ASSUME NEW months, IsCalendar(months), NEW day \in 1..31
  PROVE  LET B(n) == ContractBoundary(months, n, day)
         IN  /\ \A n \in 1..Len(months) : /\ B(n) \in Int /\ FirstOf(months, n) <= B(n)
                                          /\ B(n) < FirstOf(months, n + 1)
                                          /\ B(n) = FirstOf(months, n) + Min({day, months[n]}) - 1
             /\ \A n, m \in 1..Len(months) : n <= m => B(n) <= B(m)
  <1> DEFINE B(n) == ContractBoundary(months, n, day)
             last == Len(months)
  <1>1. /\ last \in Nat /\ DOMAIN months = 1..last
        /\ \A n \in 1..last : months[n] \in Nat \ {0}
        /\ \A n \in 1..(last + 1) : FirstOf(months, n) \in Int
        /\ \A n \in 1..last : FirstOf(months, n + 1) = FirstOf(months, n) + months[n]
        /\ \A n, m \in 1..(last + 1) : n <= m => FirstOf(months, n) <= FirstOf(months, m)
    BY FirstGrows
  <1> HIDE DEF last
  <1>2. ASSUME NEW n \in 1..last
        PROVE  /\ B(n) \in Int /\ FirstOf(months, n) <= B(n) /\ B(n) < FirstOf(months, n + 1)
               /\ B(n) = FirstOf(months, n) + Min({day, months[n]}) - 1
    <2> DEFINE d == Min({day, months[n]})
    <2>1. d \in Int /\ 1 <= d /\ d <= months[n]
      <3>1. day \in Int /\ 1 <= day /\ months[n] \in Int /\ 1 <= months[n]
        BY <1>1
      <3>2. d = IF day <= months[n] THEN day ELSE months[n]
        BY <3>1, MinOfTwo
      <3>3. QED
        BY <3>1, <3>2
    <2> HIDE DEF d
    <2>2. B(n) = FirstOf(months, n) + d - 1
      BY DEF ContractBoundary, d
    <2>3. FirstOf(months, n) \in Int /\ months[n] \in Int /\ FirstOf(months, n + 1) = FirstOf(months, n) + months[n]
      BY <1>1
    <2> HIDE DEF B
    <2>4. B(n) \in Int /\ FirstOf(months, n) <= B(n) /\ B(n) < FirstOf(months, n + 1)
      BY <2>1, <2>2, <2>3
    <2>5. QED
      BY <2>2, <2>4 DEF d
  <1> HIDE DEF B
  <1>3. ASSUME NEW n \in 1..last, NEW m \in 1..last, n <= m PROVE B(n) <= B(m)
    <2>1. CASE n = m
      <3>1. B(n) \in Int /\ B(n) = B(m)
        BY <1>2, <2>1
      <3>2. QED
        BY <3>1
    <2>2. CASE n < m
      <3>1. n + 1 \in 1..(last + 1) /\ m \in 1..(last + 1) /\ n + 1 <= m
        BY <1>1, <2>2
      <3>2. FirstOf(months, n + 1) <= FirstOf(months, m)
        BY <1>1, <3>1
      <3>3. FirstOf(months, n + 1) \in Int /\ FirstOf(months, m) \in Int
        BY <1>1, <3>1
      <3>4. /\ B(n) \in Int /\ B(n) < FirstOf(months, n + 1)
            /\ B(m) \in Int /\ FirstOf(months, m) <= B(m)
        BY <1>2
      <3>5. QED
        BY <3>2, <3>3, <3>4
    <2>3. QED
      BY <1>3, <2>1, <2>2
  <1>4. QED
    BY <1>2, <1>3 DEF B, last

(***************************************************************************)
(* For any months, any day of the contract and any date from the second    *)
(* month on, exactly one period pays that date, also where the day is      *)
(* missing from a month, and it is the one that is shown by default on     *)
(* that date (contractBoundary, periodRange, requestedPeriod).             *)
(***************************************************************************)
THEOREM DatesArePaidOnce ==
  ASSUME NEW months, IsCalendar(months), NEW day \in 1..31,
         NEW date \in months[1]..(FirstOf(months, Len(months)) - 1)
  PROVE  PaidOnce(months, date, day)
  <1> DEFINE B(n) == ContractBoundary(months, n, day)
             last == Len(months)
             n == MonthOf(months, date)
             r == RequestedPeriod(months, date, day)
  <1>1. /\ last \in Nat /\ DOMAIN months = 1..last /\ last >= 2
        /\ \A k \in 1..last : months[k] \in Nat \ {0}
        /\ \A k \in 1..(last + 1) : FirstOf(months, k) \in Int
        /\ FirstOf(months, 1) = 0
        /\ \A k \in 1..last : FirstOf(months, k + 1) = FirstOf(months, k) + months[k]
        /\ \A k, m \in 1..(last + 1) : k <= m => FirstOf(months, k) <= FirstOf(months, m)
    BY FirstGrows DEF IsCalendar
  <1>2. /\ \A k \in 1..last : /\ B(k) \in Int /\ FirstOf(months, k) <= B(k)
                               /\ B(k) < FirstOf(months, k + 1)
                               /\ B(k) = FirstOf(months, k) + Min({day, months[k]}) - 1
        /\ \A k, m \in 1..last : k <= m => B(k) <= B(m)
    BY BoundariesGrow
  <1>3. date \in Int /\ date >= 0 /\ date >= months[1] /\ date < FirstOf(months, last)
    <2>1. 1 \in 1..last /\ last \in 1..(last + 1)
      BY <1>1
    <2>2. months[1] \in Nat /\ FirstOf(months, last) \in Int
      BY <1>1, <2>1
    <2>3. QED
      BY <2>2
  <1> HIDE DEF last
  <1>4. \E k \in DOMAIN months : FirstOf(months, k) <= date /\ date < FirstOf(months, k) + months[k]
    <2> DEFINE T == {k \in 0..last : k >= 1 /\ FirstOf(months, k) <= date}
    <2>1. T \in SUBSET (0..last) /\ 1 \in T
      BY <1>1, <1>3
    <2>2. PICK k \in T : \A j \in T : j <= k
      <3> HIDE DEF T
      <3> QED BY <1>1, <2>1, NoEndlessClimb
    <2>3. k \in 1..last /\ k # last /\ k + 1 \in 1..last
      <3>1. k \in Nat /\ 1 <= k /\ k <= last /\ FirstOf(months, k) <= date
        BY <1>1
      <3>2. k # last
        BY <1>1, <1>3, <3>1
      <3>3. QED
        BY <1>1, <3>1, <3>2
    <2>4. k + 1 \notin T
      BY <2>2
    <2>5. ~(FirstOf(months, k + 1) <= date)
      BY <2>3, <2>4
    <2>6. FirstOf(months, k + 1) = FirstOf(months, k) + months[k] /\ FirstOf(months, k + 1) \in Int
      BY <1>1, <2>3
    <2>7. FirstOf(months, k) <= date
      BY <1>3
    <2>8. date < FirstOf(months, k) + months[k]
      BY <1>3, <2>5, <2>6
    <2>9. k \in DOMAIN months
      BY <1>1, <2>3
    <2>10. QED
      BY <2>7, <2>8, <2>9
  <1>5. n \in 1..last /\ FirstOf(months, n) <= date /\ date < FirstOf(months, n) + months[n]
    BY <1>1, <1>4 DEF MonthOf
  <1> HIDE DEF n
  <1>6. FirstOf(months, n + 1) = FirstOf(months, n) + months[n] /\ FirstOf(months, n) \in Int /\ months[n] \in Int
    BY <1>1, <1>5
  <1>7. n >= 2 /\ n <= last - 1
    <2>1. n # 1
      BY <1>1, <1>3, <1>5
    <2>2. n # last
      BY <1>1, <1>3, <1>5
    <2>3. QED
      BY <1>1, <1>5, <2>1, <2>2
  <1>8. /\ date < B(n) => r = n - 1
        /\ ~(date < B(n)) => r = n
    <2> DEFINE d == Min({day, months[n]})
    <2>1. B(n) = FirstOf(months, n) + d - 1 /\ B(n) \in Int
      BY <1>2, <1>5
    <2>2. d \in Int
      <3>1. day \in Int
        OBVIOUS
      <3>2. QED
        BY <1>6, <3>1, MinOfTwo
    <2>3. r = IF date - FirstOf(months, n) + 1 < d THEN n - 1 ELSE n
      BY DEF RequestedPeriod, n
    <2> HIDE DEF d, B, r
    <2>4. date \in Int /\ FirstOf(months, n) \in Int
      BY <1>3, <1>6
    <2>5. date - FirstOf(months, n) + 1 < d <=> date < B(n)
      BY ONLY <2>1, <2>2, <2>4
    <2>6. QED
      BY ONLY <2>3, <2>5
  <1> HIDE DEF r
  <1>9. r \in 1..(last - 1) /\ B(r) <= date /\ date < B(r + 1)
    <2> HIDE DEF B
    <2>1. CASE date < B(n)
      <3>1. r = n - 1 /\ r \in 1..(last - 1) /\ r + 1 = n /\ r \in 1..last
        BY <1>1, <1>5, <1>7, <1>8, <2>1
      <3>2. B(r) < FirstOf(months, n) /\ B(r) \in Int
        BY <1>2, <3>1
      <3>3. QED
        BY <1>3, <1>5, <1>6, <2>1, <3>1, <3>2
    <2>2. CASE ~(date < B(n))
      <3>1. r = n /\ r \in 1..(last - 1) /\ n + 1 \in 1..last
        BY <1>1, <1>5, <1>7, <1>8, <2>2
      <3>2. FirstOf(months, n + 1) <= B(n + 1) /\ B(n + 1) \in Int /\ B(n) \in Int
        BY <1>2, <1>5, <3>1
      <3>3. QED
        BY <1>3, <1>5, <1>6, <2>2, <3>1, <3>2
    <2>3. QED
      BY <2>1, <2>2
  <1>10. ASSUME NEW k \in 1..(last - 1)
         PROVE  date \in Period(months, k, day) <=> k = r
    <2>1. Period(months, k, day) = B(k)..(B(k + 1) - 1)
      BY DEF Period, PeriodEnd
    <2>2. k \in 1..last /\ k + 1 \in 1..last /\ r \in 1..last /\ r + 1 \in 1..last
      BY <1>1, <1>9
    <2> HIDE DEF B
    <2>3. B(k) \in Int /\ B(k + 1) \in Int /\ B(r) \in Int /\ B(r + 1) \in Int
      BY <1>2, <2>2
    <2>4. CASE k = r
      BY <1>3, <1>9, <2>1, <2>3, <2>4
    <2>5. CASE k < r
      <3>1. B(k + 1) <= B(r)
        BY <1>2, <2>2, <2>5
      <3>2. QED
        BY <1>3, <1>9, <2>1, <2>3, <2>5, <3>1
    <2>6. CASE k > r
      <3>1. B(r + 1) <= B(k)
        BY <1>2, <2>2, <2>6
      <3>2. QED
        BY <1>3, <1>9, <2>1, <2>3, <2>6, <3>1
    <2>7. QED
      BY <2>2, <2>4, <2>5, <2>6
  <1>11. {k \in 1..(last - 1) : date \in Period(months, k, day)} = {r}
    BY <1>9, <1>10
  <1>12. QED
    BY <1>11 DEF PaidOnce, r, last

-----------------------------------------------------------------------------
(***************************************************************************)
(* What PlaytimeRecap credits is the union of the visits, in every state   *)
(* the run compares the two in (member.PlaytimeRecap).                     *)
(***************************************************************************)
THEOREM PlaytimeCorrect == BotSpec => []PlaytimeIsUnion
  <1>1. PlaytimeIsUnion
    <2>1. SUFFICES ASSUME NEW u \in SomeVisits, NEW v \in SomeVisits, NEW w \in SomeVisits, NEW start \in {0, 2}
                   PROVE  PlaytimeRecap({u, v, w}, start, 5) = Covered({u, v, w}, start, 5)
      BY DEF PlaytimeIsUnion
    <2> DEFINE visits == {u, v, w}
    <2>2. IsFiniteSet(visits)
      <3>1. IsFiniteSet({u}) /\ IsFiniteSet({v}) /\ IsFiniteSet({w})
        BY FS_Singleton
      <3>2. IsFiniteSet({u} \cup {v})
        BY <3>1, FS_Union
      <3>3. IsFiniteSet(({u} \cup {v}) \cup {w})
        BY <3>1, <3>2, FS_Union
      <3>4. ({u} \cup {v}) \cup {w} = visits
        OBVIOUS
      <3>5. QED
        BY <3>3, <3>4
    <2>3. \A x \in SomeVisits : {x.from, x.to, x.last} \subseteq Int
      <3>1. \A x \in [from : 0..3, to : {Open} \cup 1..5, last : 1..4] : x.from \in Int /\ x.to \in Int /\ x.last \in Int
        BY DEF Open
      <3>2. QED
        BY <3>1 DEF SomeVisits
    <2>4. Spans(visits)
      BY <2>3 DEF Spans
    <2>5. start \in Nat /\ 5 \in Int
      OBVIOUS
    <2> HIDE DEF visits
    <2>6. PlaytimeRecap(visits, start, 5) = Covered(visits, start, 5)
      BY <2>2, <2>4, <2>5, PlaytimeIsTheUnion
    <2>7. QED
      BY <2>6 DEF visits
  <1>2. QED
    BY <1>1, PTL

(***************************************************************************)
(* A date is paid in exactly one period and the payment of a period is     *)
(* shared out within its bounds, in every state the run compares them in   *)
(* (contractBoundary, getMonthly, requestedPeriod, payslip.Calculate).     *)
(***************************************************************************)
THEOREM PayslipsCorrect == BotSpec => []PayslipsKeepTheContract
  <1>1. PeriodsPartition
    <2>1. IsCalendar(Months) /\ Len(Months) = 6
      <3>1. Months \in Seq(Nat \ {0}) /\ Len(Months) = 6
        BY DEF Months
      <3>2. QED
        BY <3>1 DEF IsCalendar
    <2>2. \A day \in 1..31 : \A date \in Months[1]..(FirstOf(Months, Len(Months)) - 1) : PaidOnce(Months, date, day)
      BY <2>1, DatesArePaidOnce
    <2>3. QED
      BY <2>1, <2>2 DEF PeriodsPartition
  <1>2. PayoutsShare
    <2>1. SUFFICES ASSUME NEW days \in [Players -> 0..4], NEW excluded \in SUBSET Players,
                          NEW contract \in Contracts, ValidContract(contract)
                   PROVE  SharesPayment(days, excluded, contract)
      BY DEF PayoutsShare
    <2>2. DOMAIN days = Players /\ days = [p \in DOMAIN days |-> days[p]] /\ \A p \in DOMAIN days : days[p] \in Nat
      <3>1. DOMAIN days = Players
        OBVIOUS
      <3>2. \A p \in Players : days[p] \in 0..4
        OBVIOUS
      <3>3. days = [p \in DOMAIN days |-> days[p]]
        BY Zenon
      <3>4. QED
        BY <3>1, <3>2, <3>3
    <2>3. IsFiniteSet(Players)
      <3>1. 1 \in Int /\ 3 \in Int
        OBVIOUS
      <3>2. IsFiniteSet(1..3)
        BY <3>1, FS_Interval
      <3>3. QED
        BY <3>2 DEF Players
    <2>4. contract.payment \in Int
      BY DEF Contracts
    <2>5. PayInput(days, contract)
      BY <2>1, <2>2, <2>3, <2>4 DEF PayInput
    <2>6. QED
      BY <2>5, PaymentIsShared
  <1>3. PayslipsKeepTheContract
    BY <1>1, <1>2 DEF PayslipsKeepTheContract
  <1>4. QED
    BY <1>3, PTL

-----------------------------------------------------------------------------
(***************************************************************************)
(* The attendance scheduler.                                               *)
(***************************************************************************)
\* The clock of a day.
GoodTimes(s) == s \in Schedules /\ ValidSchedule(s)
IsEnd(e, s) == e % Day = s.end
EveningOf(e, s) == [start |-> EveningStart(e, s), finish |-> e]

LEMMA DayLasts ==
  ASSUME NEW s, GoodTimes(s)
  PROVE  /\ Day \in Nat /\ Day >= 2
         /\ s.start \in 0..(Day - 1) /\ s.end \in 0..(Day - 1) /\ s.start # s.end
  BY ScheduleAssumption DEF GoodTimes, ValidSchedule

\* A time is some whole days and a clock.
LEMMA Clock ==
  ASSUME Day \in Nat, Day >= 2, NEW t \in Nat
  PROVE  /\ t % Day \in 0..(Day - 1)
         /\ Midnight(t) \in Nat /\ Midnight(t) <= t /\ t < Midnight(t) + Day
         /\ \E q \in Nat : Midnight(t) = Day * q
  <1>1. PICK q \in Nat, r \in 0..(Day - 1) : t = Day * q + r /\ t % Day = r
    BY Quotient
  <1> DEFINE x == Day * q
  <1>2. x \in Nat /\ t = x + r /\ r \in Int /\ 0 <= r /\ r < Day
    BY <1>1
  <1>3. Midnight(t) = t - r
    BY <1>1 DEF Midnight
  <1> HIDE DEF x
  <1>4. Midnight(t) = x
    BY <1>2, <1>3
  <1>5. t % Day \in 0..(Day - 1)
    BY <1>1
  <1>6. Midnight(t) \in Nat /\ Midnight(t) <= t /\ t < Midnight(t) + Day
    BY <1>2, <1>4
  <1>7. QED
    BY <1>4, <1>5, <1>6 DEF x

LEMMA ClockOf ==
  ASSUME Day \in Nat, Day >= 2, NEW q \in Int, NEW c \in 0..(Day - 1), Day * q + c \in Nat
  PROVE  (Day * q + c) % Day = c
  OBVIOUS

LEMMA SameClock ==
  ASSUME Day \in Nat, Day >= 2, NEW a \in Nat, NEW b \in Nat, a % Day = b % Day, a < b
  PROVE  a + Day <= b
  <1>0. \A t \in Nat : \E q \in Nat, r \in 0..(Day - 1) : t = Day * q + r /\ t \div Day = q /\ t % Day = r
    BY Quotient
  <1>1. PICK p \in Nat, c \in 0..(Day - 1) : a = Day * p + c /\ a % Day = c
    BY ONLY <1>0, a \in Nat
  <1>2. PICK q \in Nat, d \in 0..(Day - 1) : b = Day * q + d /\ b % Day = d
    BY ONLY <1>0, b \in Nat
  <1> DEFINE x == Day * p
             y == Day * q
  <1>3. x \in Nat /\ y \in Nat /\ a = x + c /\ b = y + d /\ c = d /\ c \in Int
    BY <1>1, <1>2
  <1>4. q <= p => y <= x
    BY TimesGrows
  <1>5. p < q => x + Day <= y
    BY TimesLeaps
  <1> HIDE DEF x, y
  <1>6. p < q
    BY <1>3, <1>4
  <1>7. QED
    BY <1>3, <1>5, <1>6

LEMMA NextDay ==
  ASSUME Day \in Nat, Day >= 2, NEW a \in Nat
  PROVE  (a + Day) % Day = a % Day
  <1>1. PICK q \in Nat, r \in 0..(Day - 1) : a = Day * q + r /\ a % Day = r
    BY Quotient
  <1> DEFINE p == q + 1
             x == Day * q
  <1>2. Day * p = x + Day /\ x \in Nat /\ p \in Int
    OBVIOUS
  <1> HIDE DEF p
  <1>3. Day * p + r \in Nat /\ a + Day = Day * p + r
    BY <1>1, <1>2
  <1>4. (Day * p + r) % Day = r
    BY <1>2, <1>3, ClockOf
  <1>5. QED
    BY <1>1, <1>3, <1>4

\* Times less than a day apart are told apart by their clocks.
LEMMA OneOfADay ==
  ASSUME Day \in Nat, Day >= 2, NEW a \in Nat, NEW b \in Nat, a % Day = b % Day, a < b + Day, b < a + Day
  PROVE  a = b
  <1>1. a < b => a + Day <= b
    BY SameClock
  <1>2. b < a => b + Day <= a
    BY SameClock
  <1>3. QED
    BY <1>1, <1>2

\* The time of a clock in the day of t, and a day before and after.
LEMMA ThatDay ==
  ASSUME Day \in Nat, Day >= 2, NEW t \in Nat, NEW c \in 0..(Day - 1)
  PROVE  /\ Midnight(t) + c \in Nat /\ (Midnight(t) + c) % Day = c
         /\ Midnight(t) + c + Day \in Nat /\ (Midnight(t) + c + Day) % Day = c
         /\ Midnight(t) + c - Day \in Nat => (Midnight(t) + c - Day) % Day = c
  <1>1. PICK q \in Nat : Midnight(t) = Day * q
    BY Clock
  <1>2. Midnight(t) \in Nat
    BY Clock
  <1> DEFINE x == Day * q
             p == q + 1
             n == q - 1
  <1>3. Day * p = x + Day /\ Day * n = x - Day /\ p \in Int /\ n \in Int /\ x \in Nat
    OBVIOUS
  <1> HIDE DEF p, n
  <1>4. \A k \in Int : Day * k + c \in Nat => (Day * k + c) % Day = c
    BY ClockOf
  <1>5. x + c \in Nat => (x + c) % Day = c
    BY <1>4
  <1> HIDE DEF x
  <1>6. x + Day + c \in Nat => (x + Day + c) % Day = c
    BY <1>3, <1>4
  <1>7. x - Day + c \in Nat => (x - Day + c) % Day = c
    BY <1>3, <1>4
  <1>8. Midnight(t) = x
    BY <1>1 DEF x
  <1>9. x + Day + c = x + c + Day /\ x - Day + c = x + c - Day /\ x + c \in Nat /\ x + c + Day \in Nat
    BY <1>3
  <1>10. QED
    BY <1>5, <1>6, <1>7, <1>8, <1>9

\* The evening that t belongs to began within the last day.
LEMMA EveningStartIs ==
  ASSUME NEW s, GoodTimes(s), NEW t \in Nat, Day <= t
  PROVE  LET x == EveningStart(t, s)
         IN  x \in Nat /\ x <= t /\ t < x + Day /\ x % Day = s.start
  <1> DEFINE m == Midnight(t)
             c == s.start
             today == m + c
  <1>1. Day \in Nat /\ Day >= 2 /\ c \in 0..(Day - 1)
    BY DayLasts
  <1>2. m \in Nat /\ m <= t /\ t < m + Day
    BY <1>1, Clock
  <1>3. today \in Nat /\ today % Day = c /\ (today - Day \in Nat => (today - Day) % Day = c)
    <2>1. PICK k \in 0..(Day - 1) : k = s.start
      BY <1>1
    <2>2. /\ m + k \in Nat /\ (m + k) % Day = k
          /\ m + k - Day \in Nat => (m + k - Day) % Day = k
      BY <1>1, ThatDay
    <2>3. today = m + k
      BY <2>1
    <2> HIDE DEF m, c, today
    <2>4. QED
      BY <1>1, <1>2, <2>1, <2>2, <2>3 DEF c
  <1>4. EveningStart(t, s) = IF today > t THEN today - Day ELSE today
    BY DEF EveningStart
  <1> HIDE DEF m
  <1>5. today > t => today - Day \in Nat /\ today - Day <= t /\ t < (today - Day) + Day
    BY <1>1, <1>2
  <1>6. ~(today > t) => today <= t /\ t < today + Day
    BY <1>1, <1>2
  <1> HIDE DEF today
  <1>7. QED
    BY <1>3, <1>4, <1>5, <1>6 DEF c

\* It ends within the day that follows its start, before the next evening.
LEMMA EveningEndIs ==
  ASSUME NEW s, GoodTimes(s), NEW x \in Nat, x % Day = s.start
  PROVE  LET y == EveningEnd(x, s)
         IN  y \in Nat /\ x < y /\ y < x + Day /\ y % Day = s.end
  <1> DEFINE m == Midnight(x)
             c == s.end
             today == m + c
             y == EveningEnd(x, s)
  <1>1. Day \in Nat /\ Day >= 2 /\ c \in 0..(Day - 1) /\ s.start # c /\ s.start \in 0..(Day - 1)
    BY DayLasts
  <1>2. m \in Nat /\ m <= x /\ x < m + Day
    BY <1>1, Clock
  <1>3. today \in Nat /\ today % Day = c /\ today + Day \in Nat /\ (today + Day) % Day = c
    BY <1>1, ThatDay
  <1>4. y = IF today <= x THEN today + Day ELSE today
    BY DEF EveningEnd
  <1> HIDE DEF m, y
  <1>5. today <= x => x < today + Day /\ today + Day <= x + Day
    BY <1>1, <1>2
  <1>6. ~(today <= x) => x < today /\ today < x + Day
    BY <1>1, <1>2
  <1> HIDE DEF today, c
  <1>7. y \in Nat /\ x < y /\ y <= x + Day /\ y % Day = c
    <2>1. CASE today <= x
      BY <1>1, <1>3, <1>4, <1>5, <2>1
    <2>2. CASE ~(today <= x)
      BY <1>1, <1>3, <1>4, <1>6, <2>2
    <2>3. QED
      BY <2>1, <2>2
  <1>8. y # x + Day
    <2>1. SUFFICES ASSUME y = x + Day PROVE FALSE
      OBVIOUS
    <2>2. x % Day # y % Day
      BY <1>1, <1>7
    <2>3. (x + Day) % Day = x % Day
      BY <1>1, NextDay
    <2>4. QED
      BY <2>1, <2>2, <2>3
  <1>9. QED
    BY <1>1, <1>7, <1>8 DEF y, c

LEMMA NextRunIs ==
  ASSUME NEW t \in Nat, Day \in Nat, Day >= 2, NEW c \in 0..(Day - 1)
  PROVE  LET y == NextDailyRun(t, c)
         IN  y \in Nat /\ t < y /\ y <= t + Day /\ y % Day = c
  <1> DEFINE m == Midnight(t)
             today == m + c
             y == NextDailyRun(t, c)
  <1>2. m \in Nat /\ m <= t /\ t < m + Day
    BY Clock
  <1>3. today \in Nat /\ today % Day = c /\ today + Day \in Nat /\ (today + Day) % Day = c
    BY ThatDay
  <1>4. y = IF today <= t THEN today + Day ELSE today
    BY DEF NextDailyRun
  <1> HIDE DEF m, y
  <1>5. today <= t => t < today + Day /\ today + Day <= t + Day
    BY <1>2
  <1>6. ~(today <= t) => t < today /\ today < t + Day
    BY <1>2
  <1> HIDE DEF today
  <1>7. y \in Nat /\ t < y /\ y <= t + Day /\ y % Day = c
    BY <1>3, <1>4, <1>5, <1>6
  <1>8. QED
    BY <1>7 DEF y

WindowSet == [start : Nat, finish : Nat]
IsWindow(w, at) == w.start <= w.finish /\ w.finish <= at /\ w.finish < w.start + Day

\* The next boundary is later, and an end that is not after it is it.
LEMMA BoundaryIs ==
  ASSUME NEW s, GoodTimes(s), NEW t \in Nat
  PROVE  LET b == NextBoundary(t, s)
         IN  /\ b.command \in {"start", "end"} /\ b.runAt \in Nat /\ t < b.runAt
             /\ b = [command |-> b.command, runAt |-> b.runAt]
             /\ b.command = "end" => IsEnd(b.runAt, s)
             /\ \A e \in Nat : t < e /\ e <= b.runAt /\ IsEnd(e, s) => b.command = "end" /\ b.runAt = e
  <1> DEFINE b == NextBoundary(t, s)
             first == NextDailyRun(t, s.start)
             last == NextDailyRun(t, s.end)
  <1>1. Day \in Nat /\ Day >= 2 /\ s.start \in 0..(Day - 1) /\ s.end \in 0..(Day - 1) /\ s.start # s.end
    BY DayLasts
  <1>2. \A c \in 0..(Day - 1) : /\ NextDailyRun(t, c) \in Nat /\ t < NextDailyRun(t, c)
                                /\ NextDailyRun(t, c) <= t + Day /\ NextDailyRun(t, c) % Day = c
    BY <1>1, NextRunIs
  <1>3. /\ first \in Nat /\ t < first /\ first % Day = s.start
        /\ last \in Nat /\ t < last /\ last <= t + Day /\ last % Day = s.end
    BY ONLY <1>1, <1>2, Zenon
  <1>4. b = IF last < first THEN [command |-> "end", runAt |-> last]
                            ELSE [command |-> "start", runAt |-> first]
    BY DEF NextBoundary
  <1> HIDE DEF b, first, last
  <1>5. CASE last < first
    <2>1. b.command = "end" /\ b.runAt = last /\ b = [command |-> b.command, runAt |-> b.runAt]
      BY <1>4, <1>5
    <2>2. ASSUME NEW e \in Nat, t < e, e <= last, IsEnd(e, s) PROVE e = last
      <3>1. e % Day = last % Day
        BY <1>3, <2>2 DEF IsEnd
      <3>2. e < last + Day /\ last < e + Day
        BY <1>1, <1>3, <2>2
      <3>3. QED
        BY <1>1, <1>3, <3>1, <3>2, OneOfADay
    <2>3. \A e \in Nat : t < e /\ e <= b.runAt /\ IsEnd(e, s) => b.command = "end" /\ b.runAt = e
      BY <2>1, <2>2
    <2>4. IsEnd(last, s)
      BY <1>3 DEF IsEnd
    <2>5. QED
      BY <1>3, <2>1, <2>3, <2>4 DEF b
  <1>6. CASE ~(last < first)
    <2>1. b.command = "start" /\ b.runAt = first /\ b = [command |-> b.command, runAt |-> b.runAt]
      BY <1>4, <1>6
    <2>2. ASSUME NEW e \in Nat, t < e, e <= first, IsEnd(e, s) PROVE FALSE
      <3>1. e % Day = last % Day
        BY <1>3, <2>2 DEF IsEnd
      <3>2. first <= last
        BY <1>3, <1>6
      <3>3. e < last + Day /\ last < e + Day
        BY <1>1, <1>3, <2>2, <3>2
      <3>4. e = last
        BY <1>1, <1>3, <3>1, <3>3, OneOfADay
      <3>5. first = last
        BY <1>3, <2>2, <3>2, <3>4
      <3>6. QED
        BY <1>1, <1>3, <3>5
    <2>3. \A e \in Nat : t < e /\ e <= b.runAt /\ IsEnd(e, s) => b.command = "end" /\ b.runAt = e
      BY <2>1, <2>2
    <2>4. QED
      BY <1>3, <2>1, <2>3 DEF b
  <1>7. QED
    BY <1>5, <1>6

\* What the clock is about to pass is an end, and of the evening before it.
LEMMA EveningEnds ==
  ASSUME NEW s, GoodTimes(s), NEW t \in Nat, Day <= t
  PROVE  /\ (EveningEnd(EveningStart(t, s), s) = t + 1) <=> IsEnd(t + 1, s)
         /\ IsEnd(t + 1, s) => [start |-> EveningStart(t, s), finish |-> t + 1] = EveningOf(t + 1, s)
  <1> DEFINE x == EveningStart(t, s)
             y == EveningEnd(x, s)
             z == EveningStart(t + 1, s)
  <1>1. Day \in Nat /\ Day >= 2 /\ s.start \in 0..(Day - 1) /\ s.end \in 0..(Day - 1) /\ s.start # s.end
    BY DayLasts
  <1>2. x \in Nat /\ x <= t /\ t < x + Day /\ x % Day = s.start
    BY EveningStartIs
  <1>3. z \in Nat /\ z <= t + 1 /\ t + 1 < z + Day /\ z % Day = s.start
    <2> DEFINE u == t + 1
    <2>1. u \in Nat /\ Day <= u
      BY <1>1
    <2> HIDE DEF u
    <2>2. EveningStart(u, s) \in Nat /\ EveningStart(u, s) <= u /\ u < EveningStart(u, s) + Day
          /\ EveningStart(u, s) % Day = s.start
      BY <2>1, EveningStartIs
    <2>3. QED
      BY <2>2 DEF u
  <1> HIDE DEF x
  <1>4. y \in Nat /\ x < y /\ y < x + Day /\ y % Day = s.end
    BY <1>2, EveningEndIs
  <1> HIDE DEF y, z
  <1>5. y = t + 1 => IsEnd(t + 1, s)
    BY <1>4 DEF IsEnd
  <1>6. ASSUME IsEnd(t + 1, s) PROVE y = t + 1 /\ z = x
    <2> DEFINE u == t + 1
    <2>1. u \in Nat /\ u % Day = s.end /\ u <= x + Day
      BY <1>1, <1>2, <1>6 DEF IsEnd
    <2>2. u # x + Day
      <3>1. SUFFICES ASSUME u = x + Day PROVE FALSE
        OBVIOUS
      <3>2. (x + Day) % Day = x % Day
        BY <1>1, <1>2, NextDay
      <3> HIDE DEF u
      <3>3. QED
        BY <1>1, <1>2, <2>1, <3>1, <3>2
    <2>3. y = u
      <3>1. y % Day = u % Day
        BY <1>4, <2>1
      <3>2. y < u + Day /\ u < y + Day
        BY <1>1, <1>2, <1>4, <2>1, <2>2
      <3> HIDE DEF u
      <3>3. QED
        BY <1>1, <1>4, <2>1, <3>1, <3>2, OneOfADay
    <2>4. z = x
      <3>1. z < x + Day /\ x < z + Day
        BY <1>1, <1>2, <1>3, <2>1, <2>2
      <3>2. z % Day = x % Day
        BY <1>2, <1>3
      <3>3. QED
        BY <1>1, <1>2, <1>3, <3>1, <3>2, OneOfADay
    <2>5. QED
      BY <2>3, <2>4
  <1>7. QED
    BY <1>5, <1>6 DEF EveningOf, x, y, z

LEMMA WindowIs ==
  ASSUME NEW s, GoodTimes(s), NEW t \in Nat, Day <= t
  PROVE  LET w == AttendanceWindow(t, s)
         IN  /\ w \in WindowSet /\ IsWindow(w, t)
             /\ IsEnd(t, s) => w = EveningOf(t, s)
             /\ w.finish % Day \in {t % Day, s.end}
  <1> DEFINE x == EveningStart(t, s)
             y == EveningEnd(x, s)
             w == AttendanceWindow(t, s)
             f == Min({t, y})
  <1>1. Day \in Nat /\ Day >= 2 /\ s.start \in 0..(Day - 1) /\ s.end \in 0..(Day - 1) /\ s.start # s.end
    BY DayLasts
  <1>2. x \in Nat /\ x <= t /\ t < x + Day /\ x % Day = s.start
    BY EveningStartIs
  <1>3. w = [start |-> x, finish |-> f]
    BY DEF AttendanceWindow
  <1> HIDE DEF x, w
  <1>4. y \in Nat /\ x < y /\ y < x + Day /\ y % Day = s.end
    BY <1>2, EveningEndIs
  <1> HIDE DEF y
  <1>5. (t <= y => f = t) /\ (y <= t => f = y)
    <2>1. t \in Int /\ y \in Int
      BY <1>4
    <2>2. QED
      BY <2>1, MinOfTwo
  <1> HIDE DEF f
  <1>6. f \in Nat /\ x <= f /\ f <= t /\ f < x + Day /\ f % Day \in {t % Day, s.end}
    <2>1. CASE t <= y
      BY <1>1, <1>2, <1>4, <1>5, <2>1
    <2>2. CASE y <= t
      BY <1>1, <1>2, <1>4, <1>5, <2>2
    <2>3. QED
      BY <1>4, <2>1, <2>2
  <1>7. IsEnd(t, s) => f = t
    <2>1. SUFFICES ASSUME IsEnd(t, s) PROVE f = t
      OBVIOUS
    <2>2. y % Day = t % Day
      BY <1>4, <2>1 DEF IsEnd
    <2>3. y < t + Day /\ t < y + Day
      BY <1>1, <1>2, <1>4
    <2>4. y = t
      BY <1>1, <1>4, <2>2, <2>3, OneOfADay
    <2>5. QED
      BY <1>4, <1>5, <2>4
  <1>8. QED
    BY <1>2, <1>3, <1>6, <1>7 DEF WindowSet, IsWindow, EveningOf, x, w

-----------------------------------------------------------------------------
CallSet == [kind : {"live", "final"}, at : Nat, pc : {"waiting", "reading", "publishing"},
            window : WindowSet, age : {0, 1}]

\* A call lasts a unit at most, and the loop waits for the live ones.
CallFits(r, t, l) ==
  /\ r \in CallSet
  /\ r.at + r.age = t /\ Day <= r.at
  /\ IsWindow(r.window, r.at)
  /\ r.kind = "live" => l.pc = "updating" /\ l.at = r.at

CallsFit(rs, t, l) == \A r \in rs : CallFits(r, t, l)

LoopFits(l, t) ==
  /\ l.pc \in {"loading", "retrying", "armed", "updating"}
  /\ l.pc = "updating" => l.at \in Nat /\ l.at \in {t - 1, t} /\ Day <= l.at /\ GoodTimes(l.times)
  /\ l.pc = "armed" => /\ l.runAt \in Nat /\ l.wake \in {t, t + 1} /\ l.wake <= l.runAt
                       /\ l.command \in {"start", "end"}
  /\ l.pc = "retrying" => l.wake \in {t, t + 1}

ClockFits ==
  /\ time \in Nat /\ Day <= time
  /\ GoodTimes(settings)
  /\ recapFaults \in Nat /\ edits \in Nat

TimesFit ==
  /\ ClockFits
  /\ LoopFits(loop, time)
  /\ CallsFit(recaps, time, loop)

LEMMA CallIs ==
  ASSUME ClockFits, NEW kind \in {"live", "final"}
  PROVE  LET r == Call(kind)
         IN  /\ r \in CallSet /\ r.kind = kind /\ r.at = time /\ r.age = 0 /\ r.pc = "waiting"
             /\ r.window = AttendanceWindow(time, settings) /\ IsWindow(r.window, r.at)
  <1>1. AttendanceWindow(time, settings) \in WindowSet /\ IsWindow(AttendanceWindow(time, settings), time)
    BY WindowIs DEF ClockFits
  <1>2. time \in Nat
    BY DEF ClockFits
  <1> DEFINE w == AttendanceWindow(time, settings)
  <1> HIDE DEF w
  <1>3. w \in WindowSet /\ IsWindow(w, time)
    BY <1>1 DEF w
  <1>4. Call(kind) = [kind |-> kind, at |-> time, pc |-> "waiting", window |-> w, age |-> 0]
    BY DEF Call, w
  <1>5. QED
    BY <1>2, <1>3, <1>4 DEF CallSet, w

Older(r) == [r EXCEPT !.age = 1]
Moved(r, p) == [r EXCEPT !.pc = p]
Taken(r, w) == [r EXCEPT !.pc = "reading", !.window = w]

LEMMA OlderIs ==
  ASSUME NEW r \in CallSet
  PROVE  /\ Older(r) \in CallSet /\ Older(r).age = 1 /\ Older(r).kind = r.kind /\ Older(r).at = r.at
         /\ Older(r).pc = r.pc /\ Older(r).window = r.window
  BY DEF CallSet, Older

LEMMA MovedIs ==
  ASSUME NEW r \in CallSet, NEW p \in {"waiting", "reading", "publishing"}
  PROVE  /\ Moved(r, p) \in CallSet /\ Moved(r, p).pc = p /\ Moved(r, p).kind = r.kind
         /\ Moved(r, p).at = r.at /\ Moved(r, p).window = r.window /\ Moved(r, p).age = r.age
  BY DEF CallSet, Moved

LEMMA TakenIs ==
  ASSUME NEW r \in CallSet, NEW w \in WindowSet
  PROVE  /\ Taken(r, w) \in CallSet /\ Taken(r, w).pc = "reading" /\ Taken(r, w).kind = r.kind
         /\ Taken(r, w).at = r.at /\ Taken(r, w).window = w /\ Taken(r, w).age = r.age
  BY DEF CallSet, Taken

\* The boundary is after the clock as it was read, and the timer runs at most a unit.
LEMMA ArmedIs ==
  ASSUME NEW l, NEW t \in Nat, NEW s, GoodTimes(s), time \in Nat, t \in {time - 1, time}
  PROVE  LET m == Armed(l, t, s)
         IN  /\ m.pc = "armed" /\ m.command = NextBoundary(t, s).command /\ m.runAt = NextBoundary(t, s).runAt
             /\ m.command \in {"start", "end"} /\ m.runAt \in Nat /\ t < m.runAt
             /\ m.wake \in {time, time + 1} /\ m.wake <= m.runAt
  <1> DEFINE b == NextBoundary(t, s)
             k == Min({time + 1, b.runAt})
             m == Armed(l, t, s)
  <1>1. b.command \in {"start", "end"} /\ b.runAt \in Nat /\ t < b.runAt
    BY BoundaryIs
  <1> HIDE DEF b
  <1>2. m.pc = "armed" /\ m.command = b.command /\ m.runAt = b.runAt /\ m.wake = k
    BY DEF Armed, b
  <1>3. (time + 1 <= b.runAt => k = time + 1) /\ (b.runAt <= time + 1 => k = b.runAt)
    <2>1. time + 1 \in Int /\ b.runAt \in Int
      BY <1>1
    <2>2. QED
      BY <2>1, MinOfTwo
  <1> HIDE DEF k, m
  <1>4. k \in {time, time + 1} /\ k <= b.runAt
    BY <1>1, <1>3
  <1>5. QED
    BY <1>1, <1>2, <1>4 DEF b, m

-----------------------------------------------------------------------------
\* The steps that only wait, move a call on, or take it away.
Replaced(rs, r, s) == (rs \ {r}) \cup {s}

LEMMA CallsKept ==
  ASSUME NEW rs, NEW t, NEW l, CallsFit(rs, t, l), NEW rs2 \in SUBSET rs
  PROVE  CallsFit(rs2, t, l)
  BY DEF CallsFit

LEMMA CallsWith ==
  ASSUME NEW rs, NEW t, NEW l, CallsFit(rs, t, l), NEW s, CallFits(s, t, l), NEW rs2 \in SUBSET (rs \cup {s})
  PROVE  CallsFit(rs2, t, l)
  BY DEF CallsFit

LEMMA TimesInit ==
  ASSUME AttendanceInit
  PROVE  TimesFit
  <1>1. GoodTimes(settings) /\ time = Day /\ loop = Started /\ recaps = {} /\ recapFaults = 0 /\ edits = 0
    BY DEF AttendanceInit, GoodTimes
  <1>2. Day \in Nat
    BY ScheduleAssumption
  <1>3. LoopFits(loop, time)
    BY <1>1 DEF LoopFits, Started
  <1>4. QED
    BY <1>1, <1>2, <1>3 DEF TimesFit, ClockFits, CallsFit

LEMMA TimesStep ==
  ASSUME TimesFit, [AttendanceNext]_attendanceVars
  PROVE  TimesFit'
  <1>1. /\ time \in Nat /\ Day <= time /\ GoodTimes(settings) /\ recapFaults \in Nat /\ edits \in Nat
        /\ LoopFits(loop, time) /\ CallsFit(recaps, time, loop) /\ ClockFits
    BY DEF TimesFit, ClockFits
  <1>2. CASE LoadTimes
    <2>0. loop.pc = "loading" /\ UNCHANGED <<time, settings, recapFaults, edits>>
      BY <1>2 DEF LoadTimes
    <2>1. ClockFits'
      BY <1>1, <2>0 DEF ClockFits
    <2>2. \A r \in recaps : r.kind # "live" /\ r \in CallSet
      BY <1>1, <2>0 DEF CallsFit, CallFits
    <2>3. \A l : CallsFit(recaps, time, l)
      BY <1>1, <2>2 DEF CallsFit, CallFits
    <2>4. CASE loop' = Armed(loop, time, settings) /\ UNCHANGED recaps
      <3>1. LoopFits(loop', time)
        BY <1>1, <2>4, ArmedIs DEF LoopFits
      <3>2. CallsFit(recaps, time, loop')
        BY <2>3
      <3>3. QED
        BY <2>0, <2>1, <2>4, <3>1, <3>2 DEF TimesFit
    <2>5. CASE /\ \E x : loop' = [pc |-> "updating", lastUpdate |-> time, lastWindow |-> x,
                                  at |-> time, times |-> settings]
               /\ recaps' = recaps \cup {Call("live")}
      <3>0. loop'.pc = "updating" /\ loop'.at = time /\ loop'.times = settings
        BY <2>5
      <3>1. LoopFits(loop', time)
        BY <1>1, <3>0 DEF LoopFits
      <3>2. CallFits(Call("live"), time, loop')
        BY <1>1, <3>0, CallIs DEF CallFits
      <3>3. CallsFit(recaps', time, loop')
        BY <2>3, <2>5, <3>2, CallsWith
      <3>4. QED
        BY <2>0, <2>1, <3>1, <3>3 DEF TimesFit
    <2>6. QED
      BY <1>2, <2>4, <2>5 DEF LoadTimes
  <1>3. CASE LoadFails
    <2>0. /\ loop.pc = "loading" /\ UNCHANGED <<time, settings, recaps, edits>> /\ recapFaults' = recapFaults + 1
          /\ loop'.pc = "retrying" /\ loop'.wake = time + 1
      BY <1>3 DEF LoadFails, Fault
    <2>1. CallsFit(recaps, time, loop')
      BY <1>1, <2>0 DEF CallsFit, CallFits
    <2>2. LoopFits(loop', time) /\ ClockFits'
      BY <1>1, <2>0 DEF LoopFits, ClockFits
    <2>3. QED
      BY <2>0, <2>1, <2>2 DEF TimesFit
  <1>4. CASE LiveRecapReturns
    <2>0. /\ loop.pc = "updating" /\ UNCHANGED <<time, settings, recaps, recapFaults, edits>>
          /\ \A r \in recaps : r.kind # "live"
          /\ loop' = Armed(loop, loop.at, loop.times)
      BY <1>4 DEF LiveRecapReturns
    <2>1. CallsFit(recaps, time, loop')
      BY <1>1, <2>0 DEF CallsFit, CallFits
    <2>2. LoopFits(loop', time)
      BY <1>1, <2>0, ArmedIs DEF LoopFits
    <2>3. QED
      BY <1>1, <2>0, <2>1, <2>2 DEF TimesFit, ClockFits
  <1>5. CASE TimerFires
    <2>0. /\ loop.pc \in {"armed", "retrying"} /\ UNCHANGED <<time, settings, recapFaults, edits>>
          /\ loop' = Loading(loop)
          /\ recaps' = recaps \/ recaps' = recaps \cup {Call("final")}
      BY <1>5 DEF TimerFires
    <2>1. loop'.pc = "loading" /\ LoopFits(loop', time)
      BY <2>0 DEF Loading, LoopFits
    <2>2. CallsFit(recaps, time, loop')
      BY <1>1, <2>0 DEF CallsFit, CallFits
    <2>3. CallFits(Call("final"), time, loop')
      BY <1>1, CallIs DEF CallFits
    <2>4. CallsFit(recaps', time, loop')
      BY <2>0, <2>2, <2>3, CallsWith
    <2>5. QED
      BY <1>1, <2>0, <2>1, <2>4 DEF TimesFit, ClockFits
  <1>6. ASSUME NEW r \in recaps, Recap(r) PROVE TimesFit'
    <2>0. UNCHANGED <<time, settings, loop, edits>> /\ recapFaults' \in {recapFaults, recapFaults + 1}
      BY <1>6 DEF Recap, TakeMutex, Store, Publish, RecapFails, LoseAnswer, Fault
    <2>1. CallFits(r, time, loop)
      BY <1>1 DEF CallsFit
    <2>2. CASE TakeMutex(r)
      <3> DEFINE w == AttendanceWindow(r.at, settings)
      <3>1. r.at \in Nat /\ Day <= r.at
        BY <2>1 DEF CallFits, CallSet
      <3>2. w \in WindowSet /\ IsWindow(w, r.at)
        BY <1>1, <3>1, WindowIs
      <3>3. recaps' = Replaced(recaps, r, Taken(r, w))
        BY <2>2 DEF TakeMutex, Becomes, Replaced, Taken
      <3> HIDE DEF w
      <3>4. CallFits(Taken(r, w), time, loop)
        BY <2>1, <3>2, TakenIs DEF CallFits
      <3>5. CallsFit(recaps', time, loop)
        BY <1>1, <3>3, <3>4, CallsWith DEF Replaced
      <3>6. QED
        BY <1>1, <2>0, <3>5 DEF TimesFit, ClockFits
    <2>3. CASE Store(r)
      <3>1. recaps' = Replaced(recaps, r, Moved(r, "publishing"))
        BY <2>3 DEF Store, Becomes, Replaced, Moved
      <3>2. CallFits(Moved(r, "publishing"), time, loop)
        BY <2>1, MovedIs DEF CallFits
      <3>3. CallsFit(recaps', time, loop)
        BY <1>1, <3>1, <3>2, CallsWith DEF Replaced
      <3>4. QED
        BY <1>1, <2>0, <3>3 DEF TimesFit, ClockFits
    <2>4. CASE Publish(r) \/ RecapFails(r) \/ LoseAnswer(r)
      <3>1. recaps' = recaps \ {r}
        BY <2>4 DEF Publish, RecapFails, LoseAnswer, Ends
      <3>2. CallsFit(recaps', time, loop)
        BY <1>1, <3>1, CallsKept
      <3>3. QED
        BY <1>1, <2>0, <3>2 DEF TimesFit, ClockFits
    <2>5. QED
      BY <1>6, <2>2, <2>3, <2>4 DEF Recap
  <1>7. CASE Restart
    <2>1. /\ UNCHANGED <<time, settings, edits>> /\ recapFaults' = recapFaults + 1
          /\ loop' = Started /\ recaps' = {}
      BY <1>7 DEF Restart, Fault
    <2>2. LoopFits(loop', time) /\ CallsFit(recaps', time, loop')
      BY <2>1 DEF LoopFits, Started, CallsFit
    <2>3. QED
      BY <1>1, <2>1, <2>2 DEF TimesFit, ClockFits
  <1>8. ASSUME NEW s \in Schedules, EditSchedule(s) PROVE TimesFit'
    BY <1>1, <1>8 DEF EditSchedule, TimesFit, ClockFits, GoodTimes
  <1>9. CASE TimePasses
    <2>0. /\ time' = time + 1 /\ UNCHANGED <<settings, loop, edits>>
          /\ recapFaults' \in {recapFaults, recapFaults + 1}
          /\ loop.pc \in {"armed", "retrying"} => time < loop.wake
          /\ loop.pc = "updating" => \E r \in recaps : r.kind = "live"
          /\ \A r \in recaps : r.age = 0
          /\ recaps' = {Older(r) : r \in recaps}
      BY <1>9 DEF TimePasses, Fault, Older
    <2>1. ClockFits'
      <3>1. Day \in Nat
        BY ScheduleAssumption
      <3>2. QED
        BY <1>1, <2>0, <3>1 DEF ClockFits
    <2>2. CallsFit(recaps', time', loop')
      <3>1. SUFFICES ASSUME NEW r \in recaps PROVE CallFits(Older(r), time + 1, loop)
        BY <2>0 DEF CallsFit
      <3>2. CallFits(r, time, loop) /\ r.age = 0 /\ r \in CallSet
        BY <1>1, <2>0 DEF CallsFit, CallFits
      <3>3. r.at \in Nat /\ r.at = time
        BY <1>1, <3>2 DEF CallFits, CallSet
      <3>4. Older(r) \in CallSet /\ Older(r).age = 1 /\ Older(r).kind = r.kind /\ Older(r).at = r.at
            /\ Older(r).window = r.window
        BY <3>2, OlderIs
      <3>5. QED
        BY <3>2, <3>3, <3>4 DEF CallFits
    <2>3. LoopFits(loop, time + 1)
      <3>1. loop.pc = "updating" => loop.at = time
        <4>1. \A r \in recaps : r.kind = "live" => loop.at = r.at
          BY <1>1 DEF CallsFit, CallFits
        <4>2. \A r \in recaps : r.at = time
          BY <1>1, <2>0 DEF CallsFit, CallFits, CallSet
        <4>3. QED
          BY <2>0, <4>1, <4>2
      <3>2. QED
        BY <1>1, <2>0, <3>1 DEF LoopFits
    <2>4. QED
      BY <2>0, <2>1, <2>2, <2>3 DEF TimesFit
  <1>10. CASE UNCHANGED attendanceVars
    BY <1>1, <1>10 DEF attendanceVars, TimesFit, ClockFits
  <1>11. QED
    BY <1>2, <1>3, <1>4, <1>5, <1>6, <1>7, <1>8, <1>9, <1>10 DEF AttendanceNext

-----------------------------------------------------------------------------
\* No boundary fires twice: each is later than the clock the one before was read at.
FiredBy(l, t) == IF l.pc = "updating" THEN l.at ELSE t

FiredFits(f, l, t) ==
  /\ f \in Seq({"start", "end"} \X Nat)
  /\ \A n \in DOMAIN f : f[n][2] <= FiredBy(l, t) /\ (l.pc = "armed" => f[n][2] < l.runAt)
  /\ \A m, n \in DOMAIN f : m < n => f[m][2] < f[n][2]

LEMMA FiredStays ==
  ASSUME NEW f, NEW l, NEW t, FiredFits(f, l, t), NEW l2, NEW t2,
         FiredBy(l, t) \in Nat, FiredBy(l2, t2) \in Nat, FiredBy(l, t) <= FiredBy(l2, t2),
         l2.pc = "armed" => /\ l2.runAt \in Nat
                            /\ FiredBy(l, t) < l2.runAt \/ (l.pc = "armed" /\ l2.runAt = l.runAt)
  PROVE  FiredFits(f, l2, t2)
  <1>1. \A n \in DOMAIN f : f[n][2] \in Nat
    BY DEF FiredFits
  <1>2. ASSUME NEW n \in DOMAIN f
        PROVE  f[n][2] <= FiredBy(l2, t2) /\ (l2.pc = "armed" => f[n][2] < l2.runAt)
    <2>1. f[n][2] \in Nat /\ f[n][2] <= FiredBy(l, t) /\ (l.pc = "armed" => f[n][2] < l.runAt)
      BY <1>1 DEF FiredFits
    <2> DEFINE x == f[n][2]
               a == FiredBy(l, t)
               b == FiredBy(l2, t2)
    <2> HIDE DEF x, a, b
    <2>2. x \in Nat /\ x <= a /\ (l.pc = "armed" => x < l.runAt)
      BY <2>1 DEF x, a
    <2>3. x <= b /\ (l2.pc = "armed" => x < l2.runAt)
      BY <2>2 DEF a, b
    <2>4. QED
      BY <2>3 DEF x, b
  <1>3. QED
    BY <1>2 DEF FiredFits

\* The timer is due when the clock is at it, and a due boundary fires at its time.
LEMMA FiresInTime ==
  ASSUME TimesFit, TimerFires
  PROVE  loop.wake = time /\ (loop.pc = "armed" /\ ~(time < loop.runAt) => loop.runAt = time)
  BY DEF TimesFit, ClockFits, LoopFits, TimerFires

LEMMA FiredStep ==
  ASSUME TimesFit, FiredFits(fired, loop, time), [AttendanceNext]_attendanceVars
  PROVE  FiredFits(fired', loop', time')
  <1>1. time \in Nat /\ LoopFits(loop, time) /\ GoodTimes(settings)
    BY DEF TimesFit, ClockFits
  <1>2. FiredBy(loop, time) \in Nat /\ FiredBy(loop, time) <= time
    BY <1>1 DEF FiredBy, LoopFits
  <1>3. CASE fired' = fired /\ loop' = loop /\ time' = time
    BY <1>3
  <1>4. ASSUME loop'.pc \in {"loading", "retrying"}, fired' = fired, time' = time
        PROVE  FiredFits(fired', loop', time')
    <2>1. FiredBy(loop', time) = time /\ loop'.pc # "armed"
      BY <1>4 DEF FiredBy
    <2>2. QED
      BY <1>1, <1>2, <1>4, <2>1, FiredStays
  <1>5. ASSUME NEW t \in Nat, t \in {time - 1, time}, NEW s, GoodTimes(s), loop' = Armed(loop, t, s),
               FiredBy(loop, time) = t, fired' = fired, time' = time
        PROVE  FiredFits(fired', loop', time')
    <2>1. loop'.pc = "armed" /\ loop'.runAt \in Nat /\ t < loop'.runAt
      BY <1>1, <1>5, ArmedIs
    <2>2. FiredBy(loop', time) = time
      BY <2>1 DEF FiredBy
    <2>3. FiredBy(loop, time) <= time /\ FiredBy(loop, time) < loop'.runAt
      BY <1>2, <1>5, <2>1
    <2>4. QED
      BY <1>1, <1>2, <1>5, <2>1, <2>2, <2>3, FiredStays
  <1>6. CASE LoadTimes
    <2>1. FiredBy(loop, time) = time /\ fired' = fired /\ time' = time
      BY <1>6 DEF LoadTimes, FiredBy
    <2>2. CASE loop' = Armed(loop, time, settings)
      BY <1>1, <1>5, <2>1, <2>2
    <2>3. CASE loop'.pc = "updating" /\ loop'.at = time
      <3>1. FiredBy(loop', time) = time /\ loop'.pc # "armed"
        BY <2>3 DEF FiredBy
      <3>2. QED
        BY <1>1, <1>2, <2>1, <3>1, FiredStays
    <2>4. QED
      BY <1>6, <2>2, <2>3 DEF LoadTimes
  <1>7. CASE LoadFails
    BY <1>4, <1>7 DEF LoadFails
  <1>8. CASE LiveRecapReturns
    <2>1. /\ loop.pc = "updating" /\ loop' = Armed(loop, loop.at, loop.times)
          /\ fired' = fired /\ time' = time
      BY <1>8 DEF LiveRecapReturns
    <2>2. loop.at \in Nat /\ loop.at \in {time - 1, time} /\ GoodTimes(loop.times)
      BY <1>1, <2>1 DEF LoopFits
    <2>3. FiredBy(loop, time) = loop.at
      BY <2>1 DEF FiredBy
    <2>4. QED
      BY <1>5, <2>1, <2>2, <2>3
  <1>9. CASE TimerFires
    <2>1. loop.pc \in {"armed", "retrying"} /\ loop'.pc = "loading" /\ time' = time
      BY <1>9 DEF TimerFires, Loading
    <2>2. CASE fired' = fired
      BY <1>4, <2>1, <2>2
    <2>3. CASE loop.pc = "armed" /\ ~(time < loop.runAt) /\ fired' = Append(fired, <<loop.command, loop.runAt>>)
      <3> DEFINE X == {"start", "end"} \X Nat
                 e == <<loop.command, loop.runAt>>
                 n == Len(fired) + 1
      <3>1. loop.runAt = time /\ e \in X /\ e[2] = time
        BY <1>1, <1>9, <2>3, FiresInTime DEF LoopFits
      <3>2. fired \in Seq(X)
        BY DEF FiredFits
      <3>3. \A k \in DOMAIN fired : fired[k][2] \in Nat /\ fired[k][2] < time
        BY <2>3, <3>1, <3>2 DEF FiredFits
      <3>a. \A k, m \in DOMAIN fired : k < m => fired[k][2] < fired[m][2]
        BY DEF FiredFits
      <3> HIDE DEF X, e
      <3>4. /\ fired' \in Seq(X) /\ DOMAIN fired' = 1..n /\ DOMAIN fired = 1..(n - 1) /\ n \in Nat
            /\ fired'[n] = e /\ \A k \in 1..(n - 1) : fired'[k] = fired[k]
        BY <2>3, <3>1, <3>2 DEF e
      <3> HIDE DEF n
      <3>5. \A k \in DOMAIN fired' : k = n \/ k \in 1..(n - 1)
        BY <3>4
      <3>6. \A k \in DOMAIN fired' : fired'[k][2] <= time
        <4> TAKE k \in DOMAIN fired'
        <4>1. CASE k = n
          BY <1>1, <3>1, <3>4, <4>1
        <4>2. CASE k \in 1..(n - 1)
          BY <1>1, <3>3, <3>4, <4>2
        <4>3. QED
          BY <3>5, <4>1, <4>2
      <3>7. ASSUME NEW k \in DOMAIN fired', NEW m \in DOMAIN fired', k < m
            PROVE  fired'[k][2] < fired'[m][2]
        <4>1. k \in 1..(n - 1) /\ fired'[k] = fired[k]
          BY <3>4, <3>7
        <4>2. CASE m = n
          BY <3>1, <3>3, <3>4, <4>1, <4>2
        <4>3. CASE m \in 1..(n - 1)
          BY <3>a, <3>4, <3>7, <4>1, <4>3
        <4>4. QED
          BY <3>5, <4>2, <4>3
      <3>8. FiredBy(loop', time) = time
        BY <2>1 DEF FiredBy
      <3>9. QED
        BY <2>1, <3>4, <3>6, <3>7, <3>8 DEF FiredFits, X
    <2>4. QED
      BY <1>9, <2>1, <2>2, <2>3 DEF TimerFires
  <1>10. ASSUME NEW r \in recaps, Recap(r) PROVE fired' = fired /\ loop' = loop /\ time' = time
    BY <1>10 DEF Recap, TakeMutex, Store, Publish, RecapFails, LoseAnswer
  <1>11. CASE Restart
    BY <1>4, <1>11 DEF Restart, Started
  <1>12. ASSUME NEW s \in Schedules, EditSchedule(s) PROVE fired' = fired /\ loop' = loop /\ time' = time
    BY <1>12 DEF EditSchedule
  <1>13. CASE TimePasses
    <2>1. fired' = fired /\ loop' = loop /\ time' = time + 1
      BY <1>13 DEF TimePasses
    <2>2. /\ FiredBy(loop, time + 1) \in Nat /\ FiredBy(loop, time) <= FiredBy(loop, time + 1)
          /\ loop.pc = "armed" => loop.runAt \in Nat
      BY <1>1 DEF FiredBy, LoopFits
    <2>3. FiredFits(fired, loop, time + 1)
      BY <1>2, <2>2, FiredStays
    <2>4. QED
      BY <2>1, <2>3
  <1>14. CASE UNCHANGED attendanceVars
    BY <1>14 DEF attendanceVars
  <1>15. QED
    BY <1>3, <1>6, <1>7, <1>8, <1>9, <1>10, <1>11, <1>12, <1>13, <1>14 DEF AttendanceNext

LEMMA FiredOnce ==
  ASSUME NEW f, NEW l, NEW t, FiredFits(f, l, t)
  PROVE  \A m, n \in DOMAIN f : f[m] = f[n] => m = n
  <1>1. \A m, n \in DOMAIN f : m < n => f[m][2] < f[n][2]
    BY DEF FiredFits
  <1>2. DOMAIN f \in SUBSET Nat /\ \A m \in DOMAIN f : f[m][2] \in Nat
    BY DEF FiredFits
  <1>3. SUFFICES ASSUME NEW m \in DOMAIN f, NEW n \in DOMAIN f, f[m] = f[n] PROVE m = n
    OBVIOUS
  <1>4. f[m][2] = f[n][2] /\ f[m][2] \in Nat /\ m \in Nat /\ n \in Nat
    BY <1>2, <1>3
  <1>5. ~(m < n) /\ ~(n < m)
    BY <1>1, <1>4
  <1>6. QED
    BY <1>4, <1>5

-----------------------------------------------------------------------------
\* Where the clock and the schedule stand still.
Credits(c, w) == IsAttended(PlaytimeRecap(Visits[c], w.start, w.finish), Required)
WindowOf(k) == [start |-> k.start, finish |-> k.finish]

LogFits(k) ==
  /\ k.character \in Characters
  /\ WindowOf(k) \in WindowSet
  /\ k.start <= k.finish /\ k.finish < k.start + Day
  /\ k.attended = Credits(k.character, WindowOf(k))

LogsFit(ls) ==
  /\ \A k \in ls : LogFits(k)
  /\ \A j, k \in ls : j.character = k.character /\ j.start = k.start /\ j.finish = k.finish => j = k

EndedFits(es, t) == IsFiniteSet(es) /\ es \subseteq WindowSet /\ \A w \in es : w.finish <= t

LEMMA CreditsAre ==
  ASSUME NEW c \in Characters, NEW w \in WindowSet
  PROVE  /\ PlaytimeRecap(Visits[c], w.start, w.finish) \in Nat
         /\ Credits(c, w) => PlaytimeRecap(Visits[c], w.start, w.finish) > 0
  <1>1. IsFiniteSet(Visits[c]) /\ Spans(Visits[c]) /\ Required \in Nat
    BY ScheduleAssumption DEF Spans
  <1>2. w.start \in Nat /\ w.finish \in Int
    BY DEF WindowSet
  <1>3. PlaytimeRecap(Visits[c], w.start, w.finish) = Covered(Visits[c], w.start, w.finish)
    BY <1>1, <1>2, PlaytimeIsTheUnion
  <1>4. Covered(Visits[c], w.start, w.finish) \in Nat
    <2> DEFINE I == w.start..(w.finish - 1)
               K == {t \in I : \E v \in Visits[c] : v.from <= t /\ t < EndOf(v)}
    <2>1. IsFiniteSet(I)
      <3>1. w.start \in Int /\ w.finish - 1 \in Int
        BY <1>2
      <3>2. QED
        BY <3>1, FS_Interval
    <2>2. K \in SUBSET I
      OBVIOUS
    <2>3. Cardinality(K) \in Nat
      BY <2>1, <2>2, FS_Subset, FS_CardinalityType
    <2>4. QED
      BY <2>3 DEF Covered
  <1> DEFINE p == PlaytimeRecap(Visits[c], w.start, w.finish)
  <1>5. p \in Nat
    BY <1>3, <1>4
  <1>6. Credits(c, w) => p > Required
    BY DEF Credits, IsAttended
  <1> HIDE DEF p
  <1>7. Credits(c, w) => p > 0
    BY <1>1, <1>5, <1>6
  <1>8. QED
    BY <1>5, <1>7 DEF p

\* The rows a final recap saves, in the place of those of the same window.
NewRows(w) ==
  {AttendanceLog(c, w, PlaytimeRecap(Visits[c], w.start, w.finish)) :
     c \in {c \in Characters : PlaytimeRecap(Visits[c], w.start, w.finish) > 0}}
KeptRows(ls, w) ==
  {k \in ls : ~\E r \in NewRows(w) : r.character = k.character /\ r.start = k.start /\ r.finish = k.finish}

LEMMA UpsertedIs ==
  ASSUME NEW w
  PROVE  Upserted(w) = NewRows(w) \cup KeptRows(logs, w)
  <1> DEFINE playtime == [c \in Characters |-> PlaytimeRecap(Visits[c], w.start, w.finish)]
             rows0 == {AttendanceLog(c, w, playtime[c]) : c \in {c \in Characters : playtime[c] > 0}}
  <1>1. rows0 = NewRows(w)
    BY DEF NewRows
  <1>2. Upserted(w) = rows0 \cup {k \in logs : ~\E r \in rows0 : /\ r.character = k.character
                                                               /\ r.start = k.start /\ r.finish = k.finish}
    BY DEF Upserted
  <1> HIDE DEF rows0
  <1>3. QED
    BY <1>1, <1>2 DEF KeptRows

LEMMA NewRowIs ==
  ASSUME NEW w \in WindowSet, w.start <= w.finish, w.finish < w.start + Day, NEW k \in NewRows(w)
  PROVE  /\ LogFits(k) /\ WindowOf(k) = w /\ k.start = w.start /\ k.finish = w.finish
         /\ k = AttendanceLog(k.character, w, PlaytimeRecap(Visits[k.character], w.start, w.finish))
  <1>1. PICK c \in Characters : k = AttendanceLog(c, w, PlaytimeRecap(Visits[c], w.start, w.finish))
    BY DEF NewRows
  <1> DEFINE p == PlaytimeRecap(Visits[c], w.start, w.finish)
  <1>2. k = [character |-> c, start |-> w.start, finish |-> w.finish, playtime |-> p,
             attended |-> IsAttended(p, Required)]
    BY <1>1 DEF AttendanceLog
  <1> HIDE DEF p
  <1>3. k.character = c /\ k.start = w.start /\ k.finish = w.finish /\ k.attended = IsAttended(p, Required)
    BY <1>2
  <1>4. WindowOf(k) = w
    BY <1>3 DEF WindowOf, WindowSet
  <1>5. k.attended = Credits(c, w)
    BY <1>3 DEF Credits, p
  <1>6. QED
    BY <1>1, <1>3, <1>4, <1>5 DEF LogFits

LEMMA LogsAre ==
  ASSUME LogsFit(logs), NEW w \in WindowSet, w.start <= w.finish, w.finish < w.start + Day
  PROVE  LogsFit(Upserted(w))
  <1> DEFINE fresh == NewRows(w)
             kept == KeptRows(logs, w)
             Same(j, k) == j.character = k.character /\ j.start = k.start /\ j.finish = k.finish
  <1>1. Upserted(w) = fresh \cup kept
    BY UpsertedIs
  <1>2. \A k \in fresh : LogFits(k) /\ k = AttendanceLog(k.character, w, PlaytimeRecap(Visits[k.character], w.start, w.finish))
    BY NewRowIs
  <1>3. kept \subseteq logs /\ \A k \in kept : ~\E r \in fresh : Same(r, k)
    BY DEF KeptRows
  <1>4. \A j, k \in fresh : Same(j, k) => j = k
    <2> HIDE DEF fresh
    <2>1. SUFFICES ASSUME NEW j \in fresh, NEW k \in fresh, j.character = k.character PROVE j = k
      OBVIOUS
    <2>2. QED
      BY <1>2, <2>1
  <1> HIDE DEF fresh, kept
  <1>5. \A k \in fresh \cup kept : LogFits(k)
    BY <1>2, <1>3 DEF LogsFit
  <1>6. \A j, k \in fresh \cup kept : Same(j, k) => j = k
    <2>1. \A j, k \in kept : Same(j, k) => j = k
      BY <1>3 DEF LogsFit
    <2>2. \A j \in fresh : \A k \in kept : ~Same(j, k) /\ ~Same(k, j)
      BY <1>3
    <2>3. QED
      BY <1>4, <2>1, <2>2
  <1>7. QED
    BY <1>1, <1>5, <1>6 DEF LogsFit

\* The window of a final recap that is stored fits.
LEMMA StoredWindow ==
  ASSUME TimesFit, NEW r \in recaps
  PROVE  /\ r \in CallSet /\ r.window \in WindowSet /\ r.window.start <= r.window.finish
         /\ r.window.finish < r.window.start + Day /\ r.at \in Nat /\ Day <= r.at
  BY DEF TimesFit, CallsFit, CallFits, CallSet, IsWindow

LEMMA LogsStep ==
  ASSUME TimesFit, LogsFit(logs), [AttendanceNext]_attendanceVars
  PROVE  LogsFit(logs')
  <1>1. logs' = logs \/ \E r \in recaps : logs' = Upserted(r.window)
    BY DEF AttendanceNext, attendanceVars, LoadTimes, LoadFails, LiveRecapReturns, TimerFires, Recap,
           TakeMutex, Store, Publish, RecapFails, LoseAnswer, Restart, EditSchedule, TimePasses
  <1>2. CASE logs' = logs
    BY <1>2
  <1>3. ASSUME NEW r \in recaps, logs' = Upserted(r.window) PROVE LogsFit(logs')
    BY <1>3, StoredWindow, LogsAre
  <1>4. QED
    BY <1>1, <1>2, <1>3

\* The evenings that ended: the clock adds the one whose end it comes to.
LEMMA ClockPasses ==
  ASSUME TimesFit, TimePasses
  PROVE  /\ time' = time + 1 /\ settings' = settings /\ time \in Nat
         /\ IF IsEnd(time + 1, settings) THEN ended' = ended \cup {EveningOf(time + 1, settings)}
                                         ELSE ended' = ended
         /\ EveningOf(time + 1, settings) \in WindowSet
  <1>1. time \in Nat /\ Day <= time /\ GoodTimes(settings) /\ Day \in Nat
    BY ScheduleAssumption DEF TimesFit, ClockFits
  <1>2. /\ (EveningEnd(EveningStart(time, settings), settings) = time + 1) <=> IsEnd(time + 1, settings)
        /\ IsEnd(time + 1, settings) =>
             [start |-> EveningStart(time, settings), finish |-> time + 1] = EveningOf(time + 1, settings)
    BY <1>1, EveningEnds
  <1>3. /\ time' = time + 1 /\ settings' = settings
        /\ ended' = IF EveningEnd(EveningStart(time, settings), settings) = time + 1
                    THEN ended \cup {[start |-> EveningStart(time, settings), finish |-> time + 1]} ELSE ended
    BY DEF TimePasses
  <1>4. EveningStart(time + 1, settings) \in Nat
    <2> DEFINE u == time + 1
    <2>1. u \in Nat /\ Day <= u
      BY <1>1
    <2> HIDE DEF u
    <2>2. EveningStart(u, settings) \in Nat
      BY <1>1, <2>1, EveningStartIs
    <2>3. QED
      BY <2>2 DEF u
  <1>5. EveningOf(time + 1, settings) \in WindowSet
    BY <1>1, <1>4 DEF EveningOf, WindowSet
  <1>6. QED
    BY <1>1, <1>2, <1>3, <1>5

LEMMA EndedStep ==
  ASSUME TimesFit, EndedFits(ended, time), [AttendanceNext]_attendanceVars
  PROVE  EndedFits(ended', time') /\ ended \subseteq ended'
  <1>1. CASE ended' = ended /\ time' = time
    BY <1>1
  <1>2. CASE TimePasses
    <2> DEFINE w == EveningOf(time + 1, settings)
    <2>1. /\ time' = time + 1 /\ time \in Nat /\ w \in WindowSet /\ w.finish = time + 1
          /\ ended' = ended \cup {w} \/ ended' = ended
      BY <1>2, ClockPasses DEF EveningOf
    <2> HIDE DEF w
    <2>2. \A v \in ended : v \in WindowSet /\ v.finish <= time /\ v.finish \in Nat
      BY DEF EndedFits, WindowSet
    <2>3. IsFiniteSet(ended')
      BY <2>1, FS_AddElement DEF EndedFits
    <2>4. \A v \in ended' : v \in WindowSet /\ v.finish <= time + 1
      BY <2>1, <2>2
    <2>5. QED
      BY <2>1, <2>3, <2>4 DEF EndedFits
  <1>3. QED
    BY <1>1, <1>2 DEF AttendanceNext, attendanceVars, LoadTimes, LoadFails, LiveRecapReturns, TimerFires, Recap,
           TakeMutex, Store, Publish, RecapFails, LoseAnswer, Restart, EditSchedule

-----------------------------------------------------------------------------
\* Every end that is under way or was saved has the clock of a schedule there was.
ClocksIn(C, s, l, rs, ls) ==
  /\ s.end \in C
  /\ l.pc = "updating" => l.times.end \in C
  /\ l.pc = "armed" /\ l.command = "end" => l.runAt % Day \in C
  /\ \A r \in rs : r.kind = "final" => r.at % Day \in C /\ r.window.finish % Day \in C
  /\ \A k \in ls : k.finish % Day \in C

FewClocks(s, l, rs, ls, n) ==
  \E C \in SUBSET (0..(Day - 1)) : Cardinality(C) <= 1 + n /\ ClocksIn(C, s, l, rs, ls)

LEMMA ClocksInit ==
  ASSUME AttendanceInit
  PROVE  FewClocks(settings, loop, recaps, logs, edits)
  <1>1. GoodTimes(settings) /\ loop = Started /\ recaps = {} /\ logs = {} /\ edits = 0
    BY DEF AttendanceInit, GoodTimes
  <1> DEFINE C == {settings.end}
  <1>2. C \in SUBSET (0..(Day - 1))
    BY <1>1, DayLasts
  <1>3. Cardinality(C) <= 1 + edits
    <2>1. Cardinality(C) = 1
      BY FS_Singleton
    <2> HIDE DEF C
    <2>2. QED
      BY <1>1, <2>1
  <1>4. ClocksIn(C, settings, loop, recaps, logs)
    BY <1>1 DEF ClocksIn, Started
  <1>5. QED
    BY <1>2, <1>3, <1>4 DEF FewClocks

LEMMA ClocksStep ==
  ASSUME TimesFit, FewClocks(settings, loop, recaps, logs, edits), [AttendanceNext]_attendanceVars
  PROVE  FewClocks(settings', loop', recaps', logs', edits')
  <1>1. PICK C \in SUBSET (0..(Day - 1)) : Cardinality(C) <= 1 + edits /\ ClocksIn(C, settings, loop, recaps, logs)
    BY DEF FewClocks
  <1>2. /\ time \in Nat /\ Day <= time /\ GoodTimes(settings) /\ edits \in Nat
        /\ LoopFits(loop, time) /\ ClockFits
    BY DEF TimesFit, ClockFits
  <1>3. /\ settings.end \in C
        /\ loop.pc = "updating" => loop.times.end \in C
        /\ loop.pc = "armed" /\ loop.command = "end" => loop.runAt % Day \in C
        /\ \A r \in recaps : r.kind = "final" => r.at % Day \in C /\ r.window.finish % Day \in C
        /\ \A k \in logs : k.finish % Day \in C
    BY <1>1 DEF ClocksIn
  <1>4. SUFFICES ASSUME ~\E s \in Schedules : EditSchedule(s)
                 PROVE  edits' = edits /\ ClocksIn(C, settings', loop', recaps', logs')
    <2>1. CASE \E s \in Schedules : EditSchedule(s)
      <3>1. PICK s \in Schedules : EditSchedule(s)
        BY <2>1
      <3>2. edits' = edits + 1 /\ settings' = s /\ GoodTimes(s) /\ UNCHANGED <<loop, recaps, logs>>
        BY <3>1 DEF EditSchedule, GoodTimes
      <3> DEFINE D == C \cup {s.end}
      <3>3. D \in SUBSET (0..(Day - 1))
        BY <3>2, DayLasts
      <3>4. Cardinality(D) <= Cardinality(C) + 1 /\ Cardinality(C) \in Nat /\ Cardinality(D) \in Nat
        <4>1. IsFiniteSet(0..(Day - 1))
          <5>1. 0 \in Int /\ Day - 1 \in Int
            BY <3>2, DayLasts
          <5>2. QED
            BY <5>1, FS_Interval
        <4>2. IsFiniteSet(C) /\ Cardinality(C) \in Nat
          BY <4>1, FS_Subset, FS_CardinalityType
        <4>3. IsFiniteSet(D) /\ Cardinality(D) = IF s.end \in C THEN Cardinality(C) ELSE Cardinality(C) + 1
          BY <4>2, FS_AddElement
        <4> HIDE DEF D
        <4>4. QED
          BY <4>2, <4>3
      <3>5. ClocksIn(D, settings', loop', recaps', logs')
        BY <1>3, <3>2 DEF ClocksIn
      <3> HIDE DEF D
      <3>6. Cardinality(D) <= 1 + edits'
        BY <1>1, <1>2, <3>2, <3>4
      <3>7. QED
        BY <3>3, <3>5, <3>6 DEF FewClocks
    <2>2. CASE ~\E s \in Schedules : EditSchedule(s)
      BY <1>1, <1>4, <2>2 DEF FewClocks
    <2>3. QED
      BY <2>1, <2>2
  <1>5. CASE LoadTimes
    <2>1. /\ UNCHANGED <<settings, logs, edits>>
          /\ \/ loop' = Armed(loop, time, settings) /\ recaps' = recaps
             \/ loop'.pc = "updating" /\ loop'.times = settings /\ recaps' = recaps \cup {Call("live")}
      BY <1>5 DEF LoadTimes
    <2>2. loop' = Armed(loop, time, settings) => /\ loop'.pc = "armed"
                                                 /\ loop'.command = "end" => loop'.runAt % Day = settings.end
      BY <1>2, ArmedIs, BoundaryIs DEF IsEnd
    <2>3. Call("live").kind # "final"
      BY <1>2, CallIs
    <2>4. QED
      BY <1>3, <2>1, <2>2, <2>3 DEF ClocksIn
  <1>6. CASE LoadFails
    BY <1>3, <1>6 DEF LoadFails, ClocksIn
  <1>7. CASE LiveRecapReturns
    <2>1. /\ UNCHANGED <<settings, recaps, logs, edits>> /\ loop.pc = "updating"
          /\ loop' = Armed(loop, loop.at, loop.times)
      BY <1>7 DEF LiveRecapReturns
    <2>2. loop.at \in Nat /\ loop.at \in {time - 1, time} /\ GoodTimes(loop.times)
      BY <1>2, <2>1 DEF LoopFits
    <2>3. loop'.pc = "armed" /\ (loop'.command = "end" => loop'.runAt % Day = loop.times.end)
      BY <1>2, <2>1, <2>2, ArmedIs, BoundaryIs DEF IsEnd
    <2>4. QED
      BY <1>3, <2>1, <2>3 DEF ClocksIn
  <1>8. CASE TimerFires
    <2>1. /\ UNCHANGED <<settings, logs, edits>> /\ loop'.pc = "loading"
          /\ \/ recaps' = recaps
             \/ /\ loop.pc = "armed" /\ loop.command = "end" /\ ~(time < loop.runAt)
                /\ recaps' = recaps \cup {Call("final")}
      BY <1>8 DEF TimerFires, Loading
    <2>2. CASE recaps' = recaps
      BY <1>3, <2>1, <2>2 DEF ClocksIn
    <2>3. CASE /\ loop.pc = "armed" /\ loop.command = "end" /\ ~(time < loop.runAt)
               /\ recaps' = recaps \cup {Call("final")}
      <3>1. time % Day \in C
        BY <1>3, <1>8, <2>3, FiresInTime
      <3>2. Call("final").at = time /\ Call("final").window = AttendanceWindow(time, settings)
        BY <1>2, CallIs
      <3>3. AttendanceWindow(time, settings).finish % Day \in {time % Day, settings.end}
        BY <1>2, WindowIs
      <3> DEFINE r == Call("final")
      <3>4. r.at % Day \in C /\ r.window.finish % Day \in C
        BY <1>3, <3>1, <3>2, <3>3
      <3> HIDE DEF r
      <3>5. recaps' = recaps \cup {r}
        BY <2>3 DEF r
      <3>6. QED
        BY <1>3, <2>1, <3>4, <3>5 DEF ClocksIn
    <2>4. QED
      BY <2>1, <2>2, <2>3
  <1>9. ASSUME NEW r \in recaps, Recap(r) PROVE edits' = edits /\ ClocksIn(C, settings', loop', recaps', logs')
    <2>0. UNCHANGED <<settings, loop, edits>>
      BY <1>9 DEF Recap, TakeMutex, Store, Publish, RecapFails, LoseAnswer
    <2>1. r \in CallSet /\ r.window \in WindowSet /\ r.at \in Nat /\ Day <= r.at
      BY StoredWindow
    <2>2. CASE TakeMutex(r)
      <3> DEFINE w == AttendanceWindow(r.at, settings)
      <3>1. w \in WindowSet /\ w.finish % Day \in {r.at % Day, settings.end}
        BY <1>2, <2>1, WindowIs
      <3>2. recaps' = Replaced(recaps, r, Taken(r, w)) /\ logs' = logs
        BY <2>2 DEF TakeMutex, Becomes, Replaced, Taken
      <3> HIDE DEF w
      <3> DEFINE q == Taken(r, w)
      <3>3. q.kind = r.kind /\ q.at = r.at /\ q.window = w
        BY <2>1, <3>1, TakenIs
      <3> HIDE DEF q
      <3>4. q.kind = "final" => q.at % Day \in C /\ q.window.finish % Day \in C
        BY <1>3, <3>1, <3>3
      <3>5. QED
        BY <1>3, <2>0, <3>2, <3>4 DEF ClocksIn, Replaced, q
    <2>3. CASE Store(r)
      <3> DEFINE q == Moved(r, "publishing")
      <3>1. recaps' = Replaced(recaps, r, q) /\ logs' = IF r.kind = "final" THEN Upserted(r.window) ELSE logs
        BY <2>3 DEF Store, Becomes, Replaced, Moved
      <3>2. q.kind = r.kind /\ q.at = r.at /\ q.window = r.window
        BY <2>1, MovedIs
      <3> HIDE DEF q
      <3>3. \A k \in logs' : k.finish % Day \in C
        <4>1. CASE r.kind = "final"
          <5>1. r.window.finish % Day \in C
            BY <1>3, <4>1
          <5>2. \A k \in NewRows(r.window) : k.finish = r.window.finish
            BY StoredWindow, NewRowIs
          <5>3. KeptRows(logs, r.window) \subseteq logs
            BY DEF KeptRows
          <5>4. logs' = NewRows(r.window) \cup KeptRows(logs, r.window)
            BY <3>1, <4>1, UpsertedIs
          <5>5. QED
            BY <1>3, <5>1, <5>2, <5>3, <5>4
        <4>2. CASE r.kind # "final"
          BY <1>3, <3>1, <4>2
        <4>3. QED
          BY <4>1, <4>2
      <3>4. QED
        BY <1>3, <2>0, <3>1, <3>2, <3>3 DEF ClocksIn, Replaced
    <2>4. CASE Publish(r) \/ RecapFails(r) \/ LoseAnswer(r)
      <3>1. recaps' \subseteq recaps /\ logs' = logs
        BY <2>4 DEF Publish, RecapFails, LoseAnswer, Ends
      <3>2. QED
        BY <1>3, <2>0, <3>1 DEF ClocksIn
    <2>5. QED
      BY <1>9, <2>2, <2>3, <2>4 DEF Recap
  <1>10. CASE Restart
    BY <1>3, <1>10 DEF Restart, Started, ClocksIn
  <1>11. CASE TimePasses
    <2>1. UNCHANGED <<settings, loop, logs, edits>> /\ recaps' = {Older(r) : r \in recaps}
      BY <1>11 DEF TimePasses, Older
    <2>2. \A r \in recaps : Older(r).kind = r.kind /\ Older(r).at = r.at /\ Older(r).window = r.window
      BY StoredWindow, OlderIs
    <2>3. QED
      BY <1>3, <2>1, <2>2 DEF ClocksIn
  <1>12. CASE UNCHANGED attendanceVars
    BY <1>3, <1>12 DEF attendanceVars, ClocksIn
  <1>13. QED
    BY <1>4, <1>5, <1>6, <1>7, <1>8, <1>9, <1>10, <1>11, <1>12 DEF AttendanceNext

\* So the rows of an evening are as many as the schedules it had, at most.
LEMMA FewRows ==
  ASSUME LogsFit(logs), FewClocks(settings, loop, recaps, logs, edits), edits \in Nat, GoodTimes(settings), NEW l \in logs
  PROVE  Cardinality({k \in logs : k.character = l.character /\ k.start = l.start}) <= 1 + edits
  <1> DEFINE K == {k \in logs : k.character = l.character /\ k.start = l.start}
             f == [k \in K |-> k.finish % Day]
  <1>1. PICK C \in SUBSET (0..(Day - 1)) : Cardinality(C) <= 1 + edits /\ \A k \in logs : k.finish % Day \in C
    BY DEF FewClocks, ClocksIn
  <1>2. Day \in Nat /\ Day >= 2
    BY DayLasts
  <1>3. IsFiniteSet(C) /\ Cardinality(C) \in Nat
    <2>1. 0 \in Int /\ Day - 1 \in Int
      BY <1>2
    <2>2. IsFiniteSet(0..(Day - 1))
      BY <2>1, FS_Interval
    <2>3. QED
      BY <2>2, FS_Subset, FS_CardinalityType
  <1>4. ASSUME NEW j \in K, NEW k \in K, f[j] = f[k] PROVE j = k
    <2>1. /\ WindowOf(j) \in WindowSet /\ WindowOf(k) \in WindowSet
          /\ j.start <= j.finish /\ j.finish < j.start + Day /\ k.start <= k.finish /\ k.finish < k.start + Day
      BY DEF LogsFit, LogFits
    <2>2. j.start \in Nat /\ j.finish \in Nat /\ k.finish \in Nat /\ j.start = k.start
      BY <2>1 DEF WindowOf, WindowSet
    <2>3. j.finish % Day = k.finish % Day
      BY <1>4
    <2>4. j.finish < k.finish + Day /\ k.finish < j.finish + Day
      BY <1>2, <2>1, <2>2
    <2>5. j.finish = k.finish
      BY <1>2, <2>2, <2>3, <2>4, OneOfADay
    <2>6. QED
      BY <2>2, <2>5 DEF LogsFit
  <1>5. f \in Injection(K, C)
    BY <1>1, <1>4 DEF Injection, IsInjective
  <1>6. Cardinality(K) <= Cardinality(C) /\ IsFiniteSet(K)
    BY <1>3, <1>5, FS_Injection
  <1>7. Cardinality(K) \in Nat
    BY <1>6, FS_CardinalityType
  <1> HIDE DEF K
  <1>8. Cardinality(K) <= 1 + edits
    BY <1>1, <1>3, <1>6, <1>7
  <1>9. QED
    BY <1>8 DEF K

-----------------------------------------------------------------------------
\* While the schedule is the first one, what is saved is an evening that ended.
Unedited(s, t, l, rs, ls, es) ==
  /\ \A e \in (Day + 1)..t : IsEnd(e, s) => EveningOf(e, s) \in es
  /\ l.pc = "updating" => l.times = s
  /\ l.pc = "armed" /\ l.command = "end" => IsEnd(l.runAt, s) /\ l.runAt > Day
  /\ \A r \in rs : r.kind = "final" => EveningOf(r.at, s) \in es /\ r.window = EveningOf(r.at, s) /\ IsEnd(r.at, s)
  /\ \A k \in ls : WindowOf(k) \in es

LEMMA UneditedInit ==
  ASSUME AttendanceInit
  PROVE  Unedited(settings, time, loop, recaps, logs, ended)
  <1>1. time = Day /\ Day \in Nat /\ loop = Started /\ recaps = {} /\ logs = {}
    BY ScheduleAssumption DEF AttendanceInit
  <1>2. (Day + 1)..time = {}
    BY <1>1
  <1>3. QED
    BY <1>1, <1>2 DEF Unedited, Started

LEMMA UneditedStep ==
  ASSUME TimesFit, EndedFits(ended, time), LogsFit(logs), [AttendanceNext]_attendanceVars,
         Unedited(settings, time, loop, recaps, logs, ended), ~\E s \in Schedules : EditSchedule(s)
  PROVE  Unedited(settings', time', loop', recaps', logs', ended')
  <1>1. /\ time \in Nat /\ Day <= time /\ GoodTimes(settings) /\ Day \in Nat
        /\ LoopFits(loop, time) /\ ClockFits
    BY ScheduleAssumption DEF TimesFit, ClockFits
  <1>2. /\ \A e \in (Day + 1)..time : IsEnd(e, settings) => EveningOf(e, settings) \in ended
        /\ loop.pc = "updating" => loop.times = settings
        /\ loop.pc = "armed" /\ loop.command = "end" => IsEnd(loop.runAt, settings) /\ loop.runAt > Day
        /\ \A r \in recaps : r.kind = "final" => /\ EveningOf(r.at, settings) \in ended
                                                 /\ r.window = EveningOf(r.at, settings)
                                                 /\ IsEnd(r.at, settings)
        /\ \A k \in logs : WindowOf(k) \in ended
    BY DEF Unedited
  <1>3. CASE LoadTimes
    <2>1. /\ UNCHANGED <<time, settings, logs, ended>>
          /\ \/ loop' = Armed(loop, time, settings) /\ recaps' = recaps
             \/ loop'.pc = "updating" /\ loop'.times = settings /\ recaps' = recaps \cup {Call("live")}
      BY <1>3 DEF LoadTimes
    <2>2. loop' = Armed(loop, time, settings) =>
            loop'.pc = "armed" /\ (loop'.command = "end" => IsEnd(loop'.runAt, settings) /\ loop'.runAt > Day)
      <3>1. NextBoundary(time, settings).command = "end" => IsEnd(NextBoundary(time, settings).runAt, settings)
        BY <1>1, BoundaryIs
      <3>2. QED
        BY <1>1, <3>1, ArmedIs
    <2>3. Call("live").kind # "final"
      BY <1>1, CallIs
    <2>4. QED
      BY <1>2, <2>1, <2>2, <2>3 DEF Unedited
  <1>4. CASE LoadFails
    BY <1>2, <1>4 DEF LoadFails, Unedited
  <1>5. CASE LiveRecapReturns
    <2>1. /\ UNCHANGED <<time, settings, recaps, logs, ended>> /\ loop.pc = "updating"
          /\ loop' = Armed(loop, loop.at, loop.times)
      BY <1>5 DEF LiveRecapReturns
    <2>2. loop.at \in Nat /\ loop.at \in {time - 1, time} /\ Day <= loop.at /\ loop.times = settings
      BY <1>1, <1>2, <2>1 DEF LoopFits
    <2>3. NextBoundary(loop.at, settings).command = "end" => IsEnd(NextBoundary(loop.at, settings).runAt, settings)
      BY <1>1, <2>2, BoundaryIs
    <2>4. loop' = Armed(loop, loop.at, settings)
      BY <2>1, <2>2
    <2>5. loop'.pc = "armed" /\ (loop'.command = "end" => IsEnd(loop'.runAt, settings) /\ loop'.runAt > Day)
      BY <1>1, <2>2, <2>3, <2>4, ArmedIs
    <2>6. QED
      BY <1>2, <2>1, <2>5 DEF Unedited
  <1>6. CASE TimerFires
    <2>1. /\ UNCHANGED <<time, settings, logs, ended>> /\ loop'.pc = "loading"
          /\ \/ recaps' = recaps
             \/ /\ loop.pc = "armed" /\ loop.command = "end" /\ ~(time < loop.runAt)
                /\ recaps' = recaps \cup {Call("final")}
      BY <1>6 DEF TimerFires, Loading
    <2>2. CASE recaps' = recaps
      BY <1>2, <2>1, <2>2 DEF Unedited
    <2>3. CASE /\ loop.pc = "armed" /\ loop.command = "end" /\ ~(time < loop.runAt)
               /\ recaps' = recaps \cup {Call("final")}
      <3>1. IsEnd(time, settings) /\ time > Day
        BY <1>2, <1>6, <2>3, FiresInTime
      <3>2. EveningOf(time, settings) \in ended
        BY <1>1, <1>2, <3>1
      <3>3. AttendanceWindow(time, settings) = EveningOf(time, settings)
        BY <1>1, <3>1, WindowIs
      <3> DEFINE r == Call("final")
      <3>4. r.at = time /\ r.window = AttendanceWindow(time, settings)
        BY <1>1, CallIs
      <3> HIDE DEF r
      <3>5. recaps' = recaps \cup {r}
        BY <2>3 DEF r
      <3>6. EveningOf(r.at, settings) \in ended /\ r.window = EveningOf(r.at, settings) /\ IsEnd(r.at, settings)
        BY <3>1, <3>2, <3>3, <3>4
      <3>7. QED
        BY <1>2, <2>1, <3>5, <3>6 DEF Unedited
    <2>4. QED
      BY <2>1, <2>2, <2>3
  <1>7. ASSUME NEW r \in recaps, Recap(r) PROVE Unedited(settings', time', loop', recaps', logs', ended')
    <2>0. UNCHANGED <<time, settings, loop, ended>>
      BY <1>7 DEF Recap, TakeMutex, Store, Publish, RecapFails, LoseAnswer
    <2>1. /\ r \in CallSet /\ r.window \in WindowSet /\ r.at \in Nat /\ Day <= r.at
          /\ r.window.start <= r.window.finish /\ r.window.finish < r.window.start + Day
      BY StoredWindow
    <2>2. CASE TakeMutex(r)
      <3> DEFINE w == AttendanceWindow(r.at, settings)
      <3>1. w \in WindowSet /\ (IsEnd(r.at, settings) => w = EveningOf(r.at, settings))
        BY <1>1, <2>1, WindowIs
      <3>2. recaps' = Replaced(recaps, r, Taken(r, w)) /\ logs' = logs
        BY <2>2 DEF TakeMutex, Becomes, Replaced, Taken
      <3> HIDE DEF w
      <3> DEFINE q == Taken(r, w)
      <3>3. q.kind = r.kind /\ q.at = r.at /\ q.window = w
        BY <2>1, <3>1, TakenIs
      <3> HIDE DEF q
      <3>4. q.kind = "final" => /\ EveningOf(q.at, settings) \in ended
                                /\ q.window = EveningOf(q.at, settings) /\ IsEnd(q.at, settings)
        BY <1>2, <3>1, <3>3
      <3>5. QED
        BY <1>2, <2>0, <3>2, <3>4 DEF Unedited, Replaced, q
    <2>3. CASE Store(r)
      <3> DEFINE q == Moved(r, "publishing")
      <3>1. recaps' = Replaced(recaps, r, q) /\ logs' = IF r.kind = "final" THEN Upserted(r.window) ELSE logs
        BY <2>3 DEF Store, Becomes, Replaced, Moved
      <3>2. q.kind = r.kind /\ q.at = r.at /\ q.window = r.window
        BY <2>1, MovedIs
      <3> HIDE DEF q
      <3>3. \A k \in logs' : WindowOf(k) \in ended
        <4>1. CASE r.kind = "final"
          <5>1. r.window \in ended
            BY <1>2, <4>1
          <5>2. \A k \in NewRows(r.window) : WindowOf(k) = r.window
            BY <2>1, NewRowIs
          <5>3. KeptRows(logs, r.window) \subseteq logs
            BY DEF KeptRows
          <5>4. logs' = NewRows(r.window) \cup KeptRows(logs, r.window)
            BY <3>1, <4>1, UpsertedIs
          <5>5. QED
            BY <1>2, <5>1, <5>2, <5>3, <5>4
        <4>2. CASE r.kind # "final"
          BY <1>2, <3>1, <4>2
        <4>3. QED
          BY <4>1, <4>2
      <3>4. QED
        BY <1>2, <2>0, <3>1, <3>2, <3>3 DEF Unedited, Replaced
    <2>4. CASE Publish(r) \/ RecapFails(r) \/ LoseAnswer(r)
      <3>1. recaps' \subseteq recaps /\ logs' = logs
        BY <2>4 DEF Publish, RecapFails, LoseAnswer, Ends
      <3>2. QED
        BY <1>2, <2>0, <3>1 DEF Unedited
    <2>5. QED
      BY <1>7, <2>2, <2>3, <2>4 DEF Recap
  <1>8. CASE Restart
    BY <1>2, <1>8 DEF Restart, Started, Unedited
  <1>9. CASE TimePasses
    <2>1. UNCHANGED <<settings, loop, logs>> /\ recaps' = {Older(r) : r \in recaps} /\ time' = time + 1
      BY <1>9 DEF TimePasses, Older
    <2>2. \A r \in recaps : Older(r).kind = r.kind /\ Older(r).at = r.at /\ Older(r).window = r.window
      BY StoredWindow, OlderIs
    <2>3. ended \subseteq ended'
      BY EndedStep, <1>9 DEF AttendanceNext
    <2>4. \A e \in (Day + 1)..(time + 1) : IsEnd(e, settings) => EveningOf(e, settings) \in ended'
      <3> TAKE e \in (Day + 1)..(time + 1)
      <3>1. CASE e = time + 1
        BY <1>9, <3>1, ClockPasses
      <3>2. CASE e # time + 1
        <4>1. e \in (Day + 1)..time
          BY <1>1, <3>2
        <4>2. QED
          BY <1>2, <2>3, <4>1
      <3>3. QED
        BY <3>1, <3>2
    <2>5. /\ \A r \in recaps' : r.kind = "final" => /\ EveningOf(r.at, settings) \in ended'
                                                     /\ r.window = EveningOf(r.at, settings)
                                                     /\ IsEnd(r.at, settings)
          /\ \A k \in logs : WindowOf(k) \in ended'
      BY <1>2, <2>1, <2>2, <2>3
    <2>6. QED
      BY <1>2, <2>1, <2>4, <2>5 DEF Unedited
  <1>10. CASE UNCHANGED attendanceVars
    BY <1>2, <1>10 DEF attendanceVars, Unedited
  <1>11. QED
    BY <1>3, <1>4, <1>5, <1>6, <1>7, <1>8, <1>9, <1>10 DEF AttendanceNext

-----------------------------------------------------------------------------
\* What each evening that is not saved is charged to.
Saved(ls, w) == \E k \in ls : k.attended /\ k.start = w.start /\ k.finish = w.finish

\* The loop is about to fire the end, or its final recap is not stored yet.
LoopCarries(l, t) ==
  \/ l.pc = "armed" /\ l.command = "end" /\ l.runAt = t
  \/ l.pc = "updating" /\ NextBoundary(l.at, l.times) = [command |-> "end", runAt |-> t]
RecapCarries(r, w) ==
  r.kind = "final" /\ r.at = w.finish /\ (r.pc = "waiting" \/ (r.pc = "reading" /\ r.window = w))
Carried(w, t, s, l, rs) ==
  /\ w.finish \in {t - 1, t} /\ IsEnd(w.finish, s) /\ w = EveningOf(w.finish, s)
  /\ (w.finish = t /\ LoopCarries(l, t)) \/ \E r \in rs : RecapCarries(r, w)

Lost(es, ls, t, s, l, rs) == {w \in es : Attends(w) /\ ~Saved(ls, w) /\ ~Carried(w, t, s, l, rs)}

\* An end will pass before the loop looks again, and it is not the one it waits for.
Oversleeps(l, t, s) ==
  \/ l.pc = "armed" /\ \E e \in (t + 1)..l.wake : IsEnd(e, s) /\ ~(l.command = "end" /\ l.runAt = e)
  \/ l.pc = "retrying" /\ \E e \in (t + 1)..l.wake : IsEnd(e, s)
  \/ l.pc = "updating" /\ l.times # s /\ \E e \in (t + 1)..(l.at + 2) : IsEnd(e, s)
Debt(l, t, s) == IF Oversleeps(l, t, s) THEN 1 ELSE 0

Paid(es, ls, t, s, l, rs, budget) == Cardinality(Lost(es, ls, t, s, l, rs)) + Debt(l, t, s) <= budget

LEMMA Accounts ==
  ASSUME NEW A, IsFiniteSet(A), NEW B, NEW x, NEW k \in {0, 1}, B \subseteq A \cup {x}, k = 0 => B \subseteq A,
         NEW d \in Nat, NEW d2 \in Nat, NEW b \in Nat, NEW b2 \in Nat,
         Cardinality(A) + d <= b, k + d2 + b <= d + b2
  PROVE  Cardinality(B) + d2 <= b2
  <1>1. IsFiniteSet(A \cup {x}) /\ Cardinality(A \cup {x}) <= Cardinality(A) + 1 /\ Cardinality(A) \in Nat
    <2>1. /\ IsFiniteSet(A \cup {x}) /\ Cardinality(A) \in Nat
          /\ Cardinality(A \cup {x}) = IF x \in A THEN Cardinality(A) ELSE Cardinality(A) + 1
      BY FS_AddElement, FS_CardinalityType
    <2>2. QED
      BY <2>1
  <1>2. Cardinality(B) \in Nat /\ Cardinality(B) <= Cardinality(A) + k
    <2>1. CASE k = 0
      <3>1. B \in SUBSET A
        BY <2>1
      <3>2. IsFiniteSet(B) /\ Cardinality(B) <= Cardinality(A)
        BY <3>1, FS_Subset
      <3>3. QED
        BY <1>1, <2>1, <3>2, FS_CardinalityType
    <2>2. CASE k = 1
      <3>1. B \in SUBSET (A \cup {x})
        OBVIOUS
      <3>2. IsFiniteSet(B) /\ Cardinality(B) <= Cardinality(A \cup {x})
        BY <1>1, <3>1, FS_Subset
      <3>3. Cardinality(B) \in Nat /\ Cardinality(A \cup {x}) \in Nat
        BY <1>1, <3>2, FS_CardinalityType
      <3>4. QED
        BY <1>1, <2>2, <3>2, <3>3
    <2>3. QED
      BY <2>1, <2>2
  <1>3. QED
    BY <1>1, <1>2

\* What was carried or saved still is, but for one evening at most.
LEMMA Loses ==
  ASSUME NEW es, NEW ls, NEW t, NEW s, NEW l, NEW rs, NEW es2, NEW ls2, NEW t2, NEW s2, NEW l2, NEW rs2,
         NEW x, es2 \subseteq es \cup {x},
         \A w \in es : Saved(ls, w) => Saved(ls2, w),
         \A w \in es \ {x} : Attends(w) /\ Carried(w, t, s, l, rs) => Saved(ls2, w) \/ Carried(w, t2, s2, l2, rs2)
  PROVE  Lost(es2, ls2, t2, s2, l2, rs2) \subseteq Lost(es, ls, t, s, l, rs) \cup {x}
  BY DEF Lost

LEMMA LosesNone ==
  ASSUME NEW es, NEW ls, NEW t, NEW s, NEW l, NEW rs, NEW ls2, NEW t2, NEW s2, NEW l2, NEW rs2,
         \A w \in es : Saved(ls, w) => Saved(ls2, w),
         \A w \in es : Attends(w) /\ Carried(w, t, s, l, rs) => Saved(ls2, w) \/ Carried(w, t2, s2, l2, rs2)
  PROVE  Lost(es, ls2, t2, s2, l2, rs2) \subseteq Lost(es, ls, t, s, l, rs)
  BY DEF Lost

LEMMA DebtIs ==
  ASSUME NEW l, NEW t, NEW s
  PROVE  /\ Debt(l, t, s) \in {0, 1} /\ (Oversleeps(l, t, s) => Debt(l, t, s) = 1)
         /\ (~Oversleeps(l, t, s) => Debt(l, t, s) = 0)
         /\ (l.pc = "loading" => Debt(l, t, s) = 0)
  BY DEF Debt, Oversleeps

\* The evening that may be carried is the last one.
LEMMA OneCarried ==
  ASSUME TimesFit
  PROVE  \E x : \A w \in ended : Carried(w, time, settings, loop, recaps) => w = x
  <1> DEFINE Cur == {w \in ended : Carried(w, time, settings, loop, recaps)}
  <1>1. Day \in Nat /\ Day >= 2 /\ time \in Nat /\ Day <= time
    BY DayLasts DEF TimesFit, ClockFits
  <1>2. ASSUME NEW v \in Cur, NEW w \in Cur PROVE v = w
    <2>1. /\ v.finish \in {time - 1, time} /\ v.finish % Day = settings.end /\ v = EveningOf(v.finish, settings)
          /\ w.finish \in {time - 1, time} /\ w.finish % Day = settings.end /\ w = EveningOf(w.finish, settings)
      BY DEF Carried, IsEnd
    <2> HIDE DEF Cur
    <2>2. PICK a, b : a = v.finish /\ b = w.finish
      OBVIOUS
    <2>3. a \in Nat /\ b \in Nat /\ a % Day = b % Day /\ a < b + Day /\ b < a + Day
      BY <1>1, <2>1, <2>2
    <2>4. a = b
      BY <1>1, <2>3, OneOfADay
    <2>5. QED
      BY <2>1, <2>2, <2>4
  <1>3. CASE Cur = {}
    BY <1>3
  <1>4. ASSUME NEW v \in Cur PROVE \A w \in ended : Carried(w, time, settings, loop, recaps) => w = v
    BY <1>2
  <1>5. QED
    BY <1>3, <1>4

\* A saved evening stays saved, and a stored final recap saves the attended ones.
LEMMA StoreSaves ==
  ASSUME TimesFit, LogsFit(logs), NEW r \in recaps, Store(r)
  PROVE  /\ \A w : Saved(logs, w) => Saved(logs', w)
         /\ r.kind = "final" /\ Attends(r.window) => Saved(logs', r.window)
  <1>1. logs' = IF r.kind = "final" THEN Upserted(r.window) ELSE logs
    BY DEF Store
  <1>2. CASE r.kind # "final"
    BY <1>1, <1>2
  <1>3. CASE r.kind = "final"
    <2> DEFINE v == r.window
    <2>1. v \in WindowSet /\ v.start <= v.finish /\ v.finish < v.start + Day
      BY StoredWindow
    <2>2. logs' = NewRows(v) \cup KeptRows(logs, v)
      BY <1>1, <1>3, UpsertedIs
    <2>3. \A k \in NewRows(v) : LogFits(k) /\ WindowOf(k) = v /\ k.start = v.start /\ k.finish = v.finish
      BY <2>1, NewRowIs
    <2> HIDE DEF v
    <2>4. ASSUME NEW w, Saved(logs, w) PROVE Saved(logs', w)
      <3>1. PICK k \in logs : k.attended /\ k.start = w.start /\ k.finish = w.finish
        BY <2>4 DEF Saved
      <3>2. CASE k \in KeptRows(logs, v)
        BY <2>2, <3>1, <3>2 DEF Saved
      <3>3. CASE k \notin KeptRows(logs, v)
        <4>1. PICK j \in NewRows(v) : j.character = k.character /\ j.start = k.start /\ j.finish = k.finish
          BY <3>3 DEF KeptRows
        <4>2. LogFits(j) /\ LogFits(k) /\ WindowOf(j) = WindowOf(k)
          BY <2>3, <4>1 DEF LogsFit, WindowOf
        <4>3. j.attended = k.attended
          BY <4>1, <4>2 DEF LogFits
        <4>4. QED
          BY <2>2, <3>1, <4>1, <4>3 DEF Saved
      <3>4. QED
        BY <3>2, <3>3
    <2>5. ASSUME Attends(v) PROVE Saved(logs', v)
      <3>1. PICK c \in Characters : Credits(c, v)
        BY <2>5 DEF Attends, Credits
      <3>2. PlaytimeRecap(Visits[c], v.start, v.finish) > 0
        BY <2>1, <3>1, CreditsAre
      <3> DEFINE p == PlaytimeRecap(Visits[c], v.start, v.finish)
                 k == AttendanceLog(c, v, p)
      <3>3. k \in NewRows(v)
        BY <3>2 DEF NewRows
      <3>4. k.attended = IsAttended(p, Required)
        BY DEF AttendanceLog
      <3>5. k.attended
        BY <3>1, <3>4 DEF Credits
      <3> HIDE DEF k
      <3>6. QED
        BY <2>2, <2>3, <3>3, <3>5 DEF Saved
    <2>6. QED
      BY <2>4, <2>5 DEF v
  <1>4. QED
    BY <1>2, <1>3

LEMMA KeepsPaid ==
  ASSUME NEW es, NEW ls, NEW t, NEW s, NEW l, NEW rs, NEW b \in Nat,
         NEW es2, NEW ls2, NEW t2, NEW s2, NEW l2, NEW rs2, NEW b2 \in Nat,
         IsFiniteSet(es), Paid(es, ls, t, s, l, rs, b), Debt(l2, t2, s2) + b <= Debt(l, t, s) + b2,
         \A w \in es : Saved(ls, w) => Saved(ls2, w),
         \A w \in es : Attends(w) /\ Carried(w, t, s, l, rs) => Saved(ls2, w) \/ Carried(w, t2, s2, l2, rs2),
         \A w \in es2 : w \in es \/ Carried(w, t2, s2, l2, rs2)
  PROVE  Paid(es2, ls2, t2, s2, l2, rs2, b2)
  <1> DEFINE A == Lost(es, ls, t, s, l, rs)
             B == Lost(es2, ls2, t2, s2, l2, rs2)
             d == Debt(l, t, s)
             d2 == Debt(l2, t2, s2)
  <1>1. B \subseteq A /\ A \subseteq es
    BY DEF Lost
  <1>2. IsFiniteSet(A)
    BY <1>1, FS_Subset
  <1>3. d \in Nat /\ d2 \in Nat
    BY DebtIs
  <1>4. Cardinality(A) + d <= b /\ d2 + b <= d + b2
    BY DEF Paid
  <1> HIDE DEF A, B, d, d2
  <1>5. B \subseteq A \cup {0} /\ 0 + d2 + b <= d + b2
    BY <1>1, <1>3, <1>4
  <1>6. Cardinality(B) + d2 <= b2
    BY <1>1, <1>2, <1>3, <1>4, <1>5, Accounts
  <1>7. QED
    BY <1>6 DEF Paid, B, d2

\* An evening of its own is charged to the fault or the edit.
LEMMA LosesOne ==
  ASSUME NEW es, NEW ls, NEW t, NEW s, NEW l, NEW rs, NEW b \in Nat,
         NEW es2, NEW ls2, NEW t2, NEW s2, NEW l2, NEW rs2, NEW b2 \in Nat, NEW x,
         IsFiniteSet(es), Paid(es, ls, t, s, l, rs, b), Debt(l2, t2, s2) + b + 1 <= Debt(l, t, s) + b2,
         \A w \in es : Saved(ls, w) => Saved(ls2, w),
         \A w \in es \ {x} : Attends(w) /\ Carried(w, t, s, l, rs) => Saved(ls2, w) \/ Carried(w, t2, s2, l2, rs2),
         es2 \subseteq es \cup {x}
  PROVE  Paid(es2, ls2, t2, s2, l2, rs2, b2)
  <1> DEFINE A == Lost(es, ls, t, s, l, rs)
             B == Lost(es2, ls2, t2, s2, l2, rs2)
             d == Debt(l, t, s)
             d2 == Debt(l2, t2, s2)
  <1>1. B \subseteq A \cup {x} /\ A \subseteq es
    BY DEF Lost
  <1>2. IsFiniteSet(A)
    BY <1>1, FS_Subset
  <1>3. d \in Nat /\ d2 \in Nat
    BY DebtIs
  <1>4. Cardinality(A) + d <= b /\ d2 + b + 1 <= d + b2
    BY DEF Paid
  <1> HIDE DEF A, B, d, d2
  <1>5. 1 + d2 + b <= d + b2
    BY <1>3, <1>4
  <1>6. Cardinality(B) + d2 <= b2
    <2>1. 1 \in {0, 1} /\ (1 = 0 => B \subseteq A)
      OBVIOUS
    <2>2. QED
      BY ONLY <1>1, <1>2, <1>3, <1>4, <1>5, <2>1, b \in Nat, b2 \in Nat, Accounts
  <1>7. QED
    BY <1>6 DEF Paid, B, d2

-----------------------------------------------------------------------------
PaidNow == Paid(ended, logs, time, settings, loop, recaps, recapFaults + 2 * edits)

LEMMA PaidInit ==
  ASSUME AttendanceInit
  PROVE  PaidNow
  <1>1. ended = {} /\ recapFaults = 0 /\ edits = 0 /\ loop.pc = "loading"
    BY DEF AttendanceInit, Started
  <1>2. Lost(ended, logs, time, settings, loop, recaps) = {}
    BY <1>1 DEF Lost
  <1>3. Debt(loop, time, settings) = 0
    BY <1>1, DebtIs
  <1>4. QED
    BY <1>1, <1>2, <1>3, FS_EmptySet DEF PaidNow, Paid

\* A carrier that stays keeps what it carries.
LEMMA StaysCarried ==
  ASSUME NEW w, NEW t, NEW s, NEW l, NEW rs, NEW l2, NEW rs2, Carried(w, t, s, l, rs),
         \A r \in rs : RecapCarries(r, w) => \E q \in rs2 : RecapCarries(q, w),
         w.finish = t /\ LoopCarries(l, t) => LoopCarries(l2, t) \/ \E q \in rs2 : RecapCarries(q, w)
  PROVE  Carried(w, t, s, l2, rs2)
  BY DEF Carried

LEMMA PaidLoads ==
  ASSUME TimesFit, EndedFits(ended, time), PaidNow, LoadTimes
  PROVE  PaidNow'
  <1>1. /\ loop.pc = "loading" /\ ended' = ended /\ logs' = logs /\ time' = time /\ settings' = settings
        /\ recapFaults' = recapFaults /\ edits' = edits
        /\ \/ loop' = Armed(loop, time, settings) /\ recaps' = recaps
           \/ loop'.pc = "updating" /\ loop'.times = settings /\ recaps' = recaps \cup {Call("live")}
    BY DEF LoadTimes
  <1>2. time \in Nat /\ GoodTimes(settings) /\ recapFaults \in Nat /\ edits \in Nat
    BY DEF TimesFit, ClockFits
  <1>3. ~Oversleeps(loop', time, settings)
    <2>1. CASE loop'.pc = "updating" /\ loop'.times = settings
      BY <2>1 DEF Oversleeps
    <2>2. CASE loop' = Armed(loop, time, settings)
      <3> DEFINE m == Armed(loop, time, settings)
                 n == NextBoundary(time, settings)
      <3>1. /\ m.pc = "armed" /\ m.command = n.command /\ m.runAt = n.runAt /\ m.runAt \in Nat
            /\ m.wake \in {time, time + 1} /\ m.wake <= m.runAt
        BY <1>2, ArmedIs
      <3>2. \A e \in Nat : time < e /\ e <= n.runAt /\ IsEnd(e, settings) => n.command = "end" /\ n.runAt = e
        BY <1>2, BoundaryIs
      <3> HIDE DEF m, n
      <3>3. ASSUME NEW e \in (time + 1)..m.wake, IsEnd(e, settings) PROVE m.command = "end" /\ m.runAt = e
        <4>1. e \in Nat /\ time < e /\ e <= n.runAt
          BY <1>2, <3>1
        <4>2. QED
          BY <3>1, <3>2, <3>3, <4>1
      <3>4. ~Oversleeps(m, time, settings)
        BY <3>1, <3>3 DEF Oversleeps
      <3>5. QED
        BY <2>2, <3>4 DEF m
    <2>3. QED
      BY <1>1, <2>1, <2>2
  <1>4. \A w \in ended : Carried(w, time, settings, loop, recaps) => Carried(w, time, settings, loop', recaps')
    BY <1>1 DEF Carried, LoopCarries
  <1>5. Debt(loop', time, settings) = 0 /\ Debt(loop, time, settings) = 0
    BY <1>1, <1>3, DebtIs
  <1>6. IsFiniteSet(ended)
    BY DEF EndedFits
  <1> DEFINE b == recapFaults + 2 * edits
  <1>7. b \in Nat /\ b' = b
    BY <1>1, <1>2
  <1> HIDE DEF b
  <1>8. Paid(ended, logs, time, settings, loop, recaps, b)
    BY DEF PaidNow, b
  <1>9. Paid(ended, logs, time, settings, loop', recaps', b)
    BY <1>4, <1>5, <1>6, <1>7, <1>8, KeepsPaid
  <1>10. QED
    BY <1>1, <1>7, <1>9 DEF PaidNow, b

LEMMA PaidLoadFails ==
  ASSUME TimesFit, EndedFits(ended, time), PaidNow, LoadFails
  PROVE  PaidNow'
  <1>1. /\ loop.pc = "loading" /\ ended' = ended /\ logs' = logs /\ time' = time /\ settings' = settings
        /\ recapFaults' = recapFaults + 1 /\ edits' = edits /\ recaps' = recaps
    BY DEF LoadFails, Fault
  <1>2. recapFaults \in Nat /\ edits \in Nat
    BY DEF TimesFit, ClockFits
  <1>4. \A w \in ended : Carried(w, time, settings, loop, recaps) => Carried(w, time, settings, loop', recaps)
    BY <1>1 DEF Carried, LoopCarries
  <1>5. Debt(loop', time, settings) \in {0, 1} /\ Debt(loop, time, settings) = 0
    BY <1>1, DebtIs
  <1>6. IsFiniteSet(ended)
    BY DEF EndedFits
  <1> DEFINE b == recapFaults + 2 * edits
             b2 == recapFaults + 1 + 2 * edits
  <1>7. b \in Nat /\ b2 \in Nat /\ b' = b2 /\ b2 = b + 1
    BY <1>1, <1>2
  <1> HIDE DEF b, b2
  <1>8. Paid(ended, logs, time, settings, loop, recaps, b)
    BY DEF PaidNow, b
  <1>9. Debt(loop', time, settings) + b <= Debt(loop, time, settings) + b2
    BY <1>5, <1>7
  <1>10. Paid(ended, logs, time, settings, loop', recaps, b2)
    BY <1>4, <1>6, <1>7, <1>8, <1>9, KeepsPaid
  <1>11. QED
    BY <1>1, <1>7, <1>10 DEF PaidNow, b

LEMMA PaidReturns ==
  ASSUME TimesFit, EndedFits(ended, time), PaidNow, LiveRecapReturns
  PROVE  PaidNow'
  <1>1. /\ loop.pc = "updating" /\ ended' = ended /\ logs' = logs /\ time' = time /\ settings' = settings
        /\ recapFaults' = recapFaults /\ edits' = edits /\ recaps' = recaps
        /\ loop' = Armed(loop, loop.at, loop.times)
    BY DEF LiveRecapReturns
  <1>2. time \in Nat /\ GoodTimes(settings) /\ recapFaults \in Nat /\ edits \in Nat
    BY DEF TimesFit, ClockFits
  <1>3. PICK at, times : at = loop.at /\ times = loop.times
    OBVIOUS
  <1>4. at \in Nat /\ at \in {time - 1, time} /\ GoodTimes(times)
    BY <1>1, <1>3 DEF TimesFit, LoopFits
  <1> DEFINE m == Armed(loop, at, times)
             n == NextBoundary(at, times)
  <1>5. /\ m.pc = "armed" /\ m.command = n.command /\ m.runAt = n.runAt /\ m.runAt \in Nat
        /\ m.wake \in {time, time + 1} /\ m.wake <= m.runAt
    BY <1>2, <1>4, ArmedIs
  <1>6. \A e \in Nat : at < e /\ e <= n.runAt /\ IsEnd(e, times) => n.command = "end" /\ n.runAt = e
    BY <1>4, BoundaryIs
  <1>7. loop' = m
    BY <1>1, <1>3
  <1>8. LoopCarries(loop, time) => LoopCarries(m, time)
    <2>1. SUFFICES ASSUME LoopCarries(loop, time) PROVE LoopCarries(m, time)
      OBVIOUS
    <2>2. n = [command |-> "end", runAt |-> time]
      BY <1>1, <1>3, <2>1 DEF LoopCarries
    <2> HIDE DEF m, n
    <2>3. m.command = "end" /\ m.runAt = time
      BY <1>5, <2>2
    <2>4. QED
      BY <1>5, <2>3 DEF LoopCarries
  <1> HIDE DEF m, n
  <1>9. Oversleeps(m, time, settings) => Oversleeps(loop, time, settings)
    <2>1. SUFFICES ASSUME Oversleeps(m, time, settings) PROVE Oversleeps(loop, time, settings)
      OBVIOUS
    <2>2. PICK e \in (time + 1)..m.wake : IsEnd(e, settings) /\ ~(m.command = "end" /\ m.runAt = e)
      BY <1>5, <2>1 DEF Oversleeps
    <2>3. e \in Nat /\ at < e /\ e <= n.runAt /\ e <= at + 2
      BY <1>2, <1>4, <1>5
    <2>4. times # settings
      BY <1>5, <1>6, <2>2, <2>3
    <2>5. e \in (time + 1)..(at + 2)
      BY <1>2, <1>4, <2>3
    <2>6. QED
      BY <1>1, <1>3, <2>2, <2>4, <2>5 DEF Oversleeps
  <1>10. \A w \in ended : Carried(w, time, settings, loop, recaps) => Carried(w, time, settings, m, recaps)
    BY <1>8 DEF Carried
  <1>11. Debt(m, time, settings) <= Debt(loop, time, settings)
    BY <1>9 DEF Debt
  <1>12. IsFiniteSet(ended)
    BY DEF EndedFits
  <1> DEFINE b == recapFaults + 2 * edits
  <1>13. b \in Nat /\ b' = b
    BY <1>1, <1>2
  <1> HIDE DEF b
  <1>14. Paid(ended, logs, time, settings, loop, recaps, b)
    BY DEF PaidNow, b
  <1>15. Debt(m, time, settings) + b <= Debt(loop, time, settings) + b
    BY <1>11, <1>13, DebtIs
  <1>16. Paid(ended, logs, time, settings, m, recaps, b)
    BY <1>10, <1>12, <1>13, <1>14, <1>15, KeepsPaid
  <1>17. QED
    BY <1>1, <1>7, <1>13, <1>16 DEF PaidNow, b

\* The end that fires is carried on by its final recap.
LEMMA PaidFires ==
  ASSUME TimesFit, EndedFits(ended, time), PaidNow, TimerFires
  PROVE  PaidNow'
  <1>1. /\ loop.pc \in {"armed", "retrying"} /\ ended' = ended /\ logs' = logs /\ time' = time /\ settings' = settings
        /\ recapFaults' = recapFaults /\ edits' = edits /\ recaps \subseteq recaps' /\ loop'.pc = "loading"
    BY DEF TimerFires, Loading
  <1>2. ClockFits /\ time \in Nat /\ recapFaults \in Nat /\ edits \in Nat
    BY DEF TimesFit, ClockFits
  <1>3. ASSUME LoopCarries(loop, time) PROVE Call("final") \in recaps'
    <2>1. loop.pc = "armed" /\ loop.command = "end" /\ loop.runAt = time
      BY <1>1, <1>3 DEF LoopCarries
    <2>2. ~(time < loop.runAt)
      BY <1>2, <2>1
    <2>3. QED
      BY <2>1, <2>2 DEF TimerFires
  <1>4. Call("final").kind = "final" /\ Call("final").at = time /\ Call("final").pc = "waiting"
    BY <1>2, CallIs
  <1>5. ASSUME NEW w \in ended, Carried(w, time, settings, loop, recaps)
        PROVE  Carried(w, time, settings, loop', recaps')
    <2>1. w.finish = time /\ LoopCarries(loop, time) => \E q \in recaps' : RecapCarries(q, w)
      BY <1>3, <1>4 DEF RecapCarries
    <2>2. \A r \in recaps : RecapCarries(r, w) => \E q \in recaps' : RecapCarries(q, w)
      BY <1>1
    <2>3. QED
      BY <1>5, <2>1, <2>2, StaysCarried
  <1>6. Debt(loop', time, settings) = 0 /\ Debt(loop, time, settings) \in {0, 1}
    BY <1>1, DebtIs
  <1>7. IsFiniteSet(ended)
    BY DEF EndedFits
  <1> DEFINE b == recapFaults + 2 * edits
  <1>8. b \in Nat /\ b' = b
    BY <1>1, <1>2
  <1> HIDE DEF b
  <1>9. Paid(ended, logs, time, settings, loop, recaps, b)
    BY DEF PaidNow, b
  <1>10. Debt(loop', time, settings) + b <= Debt(loop, time, settings) + b
    BY <1>6, <1>8
  <1>11. Paid(ended, logs, time, settings, loop', recaps', b)
    BY <1>5, <1>7, <1>8, <1>9, <1>10, KeepsPaid
  <1>12. QED
    BY <1>1, <1>8, <1>11 DEF PaidNow, b

\* A recap hands its evening on until it is saved.
LEMMA PaidRecaps ==
  ASSUME TimesFit, EndedFits(ended, time), LogsFit(logs), PaidNow, NEW r \in recaps,
         TakeMutex(r) \/ Store(r) \/ Publish(r)
  PROVE  PaidNow'
  <1>1. /\ ended' = ended /\ time' = time /\ settings' = settings /\ loop' = loop
        /\ recapFaults' = recapFaults /\ edits' = edits
    BY DEF TakeMutex, Store, Publish
  <1>2. GoodTimes(settings) /\ recapFaults \in Nat /\ edits \in Nat
    BY DEF TimesFit, ClockFits
  <1>3. r \in CallSet /\ r.at \in Nat /\ Day <= r.at
    BY StoredWindow
  <1>4. \A w \in ended : Saved(logs, w) => Saved(logs', w)
    <2>1. CASE Store(r)
      BY <2>1, StoreSaves
    <2>2. CASE TakeMutex(r) \/ Publish(r)
      BY <2>2 DEF TakeMutex, Publish
    <2>3. QED
      BY <2>1, <2>2
  <1>5. ASSUME NEW w \in ended, Attends(w), Carried(w, time, settings, loop, recaps)
        PROVE  Saved(logs', w) \/ Carried(w, time, settings, loop, recaps')
    <2>1. recaps \ {r} \subseteq recaps'
      BY DEF TakeMutex, Store, Publish, Becomes, Ends
    <2>2. CASE ~RecapCarries(r, w)
      <3>1. \A q \in recaps : RecapCarries(q, w) => \E p \in recaps' : RecapCarries(p, w)
        BY <2>1, <2>2
      <3>2. QED
        BY <1>5, <3>1 DEF Carried
    <2>3. CASE RecapCarries(r, w) /\ TakeMutex(r)
      <3> DEFINE v == AttendanceWindow(r.at, settings)
      <3>1. Taken(r, v) \in recaps'
        BY <2>3 DEF TakeMutex, Becomes, Taken
      <3>2. r.at = w.finish /\ IsEnd(r.at, settings) /\ w = EveningOf(r.at, settings) /\ r.kind = "final"
        BY <1>5, <2>3 DEF Carried, RecapCarries
      <3>3. v \in WindowSet /\ v = w
        BY <1>2, <1>3, <3>2, WindowIs
      <3> HIDE DEF v
      <3>4. RecapCarries(Taken(r, v), w)
        BY <1>3, <3>2, <3>3, TakenIs DEF RecapCarries
      <3>5. \A q \in recaps : RecapCarries(q, w) => \E p \in recaps' : RecapCarries(p, w)
        BY <3>1, <3>4
      <3>6. QED
        BY <1>5, <3>5 DEF Carried
    <2>4. CASE RecapCarries(r, w) /\ Store(r)
      <3>1. r.kind = "final" /\ r.window = w
        BY <2>4 DEF RecapCarries, Store
      <3>2. QED
        BY <1>5, <2>4, <3>1, StoreSaves
    <2>5. CASE RecapCarries(r, w) /\ Publish(r)
      BY <2>5 DEF RecapCarries, Publish
    <2>6. QED
      BY <2>2, <2>3, <2>4, <2>5
  <1>6. IsFiniteSet(ended)
    BY DEF EndedFits
  <1> DEFINE b == recapFaults + 2 * edits
  <1>7. b \in Nat /\ b' = b
    BY <1>1, <1>2
  <1> HIDE DEF b
  <1>8. Paid(ended, logs, time, settings, loop, recaps, b)
    BY DEF PaidNow, b
  <1>9. Debt(loop, time, settings) + b <= Debt(loop, time, settings) + b
    BY <1>7, DebtIs
  <1>10. Paid(ended, logs', time, settings, loop, recaps', b)
    BY <1>4, <1>5, <1>6, <1>7, <1>8, <1>9, KeepsPaid
  <1>11. QED
    BY <1>1, <1>7, <1>10 DEF PaidNow, b

\* A fault or an edit may take the evening that is carried, and no other.
LEMMA PaidFaults ==
  ASSUME TimesFit, EndedFits(ended, time), PaidNow, ended' = ended, logs' = logs, time' = time,
         \/ recapFaults' = recapFaults + 1 /\ edits' = edits /\ settings' = settings
            /\ (loop' = loop \/ loop'.pc = "loading")
         \/ recapFaults' = recapFaults /\ edits' = edits + 1 /\ loop' = loop
  PROVE  PaidNow'
  <1>1. PICK x : \A w \in ended : Carried(w, time, settings, loop, recaps) => w = x
    BY OneCarried
  <1>2. recapFaults \in Nat /\ edits \in Nat
    BY DEF TimesFit, ClockFits
  <1>3. IsFiniteSet(ended)
    BY DEF EndedFits
  <1> DEFINE b == recapFaults + 2 * edits
             b2 == recapFaults' + 2 * edits'
             d == Debt(loop, time, settings)
             d2 == Debt(loop', time, settings')
  <1>4. b \in Nat /\ b2 \in Nat /\ d2 + b + 1 <= d + b2
    <2>1. d \in {0, 1} /\ d2 \in {0, 1}
      BY DebtIs
    <2>2. CASE recapFaults' = recapFaults + 1 /\ edits' = edits /\ settings' = settings /\ loop' = loop
      BY <1>2, <2>1, <2>2
    <2>3. CASE recapFaults' = recapFaults + 1 /\ edits' = edits /\ settings' = settings /\ loop'.pc = "loading"
      <3>1. d2 = 0
        BY <2>3, DebtIs
      <3> HIDE DEF d, d2
      <3>2. QED
        BY <1>2, <2>1, <2>3, <3>1
    <2>4. CASE recapFaults' = recapFaults /\ edits' = edits + 1
      <3> HIDE DEF d, d2
      <3>1. QED
        BY <1>2, <2>1, <2>4
    <2>5. QED
      BY <2>2, <2>3, <2>4
  <1>5. Paid(ended, logs, time, settings, loop, recaps, b)
    BY DEF PaidNow
  <1> HIDE DEF b, b2
  <1>6. \A w \in ended \ {x} : ~Carried(w, time, settings, loop, recaps)
    BY <1>1
  <1>7. Paid(ended, logs, time, settings', loop', recaps', b2)
    BY <1>3, <1>4, <1>5, <1>6, LosesOne DEF d, d2
  <1>8. QED
    BY <1>7 DEF PaidNow, b2

\* The loop waits for the end the clock comes to, or is charged with it by now.
LEMMA EndIsAwaited ==
  ASSUME TimesFit, TimePasses, IsEnd(time + 1, settings)
  PROVE  \/ LoopCarries(loop, time + 1)
         \/ loop.pc = "loading"
         \/ Oversleeps(loop, time, settings) /\ ~Oversleeps(loop, time + 1, settings)
  <1>1. time \in Nat /\ Day <= time /\ GoodTimes(settings) /\ LoopFits(loop, time) /\ Day \in Nat /\ Day >= 2
    BY DayLasts DEF TimesFit, ClockFits
  <1>2. /\ loop.pc \in {"armed", "retrying"} => time < loop.wake
        /\ loop.pc = "updating" => \E r \in recaps : r.kind = "live"
        /\ \A r \in recaps : r.age = 0
    BY DEF TimePasses
  <1> DEFINE e == time + 1
  <1>3. e \in Nat /\ IsEnd(e, settings) /\ time < e
    BY <1>1
  <1>4. CASE loop.pc \in {"armed", "retrying"}
    <2>1. loop.wake = e
      BY <1>1, <1>2, <1>4 DEF LoopFits
    <2>2. e \in (time + 1)..loop.wake
      BY <1>1, <2>1
    <2>3. \A f \in (e + 1)..loop.wake : FALSE
      BY <1>3, <2>1
    <2> HIDE DEF e
    <2>4. ~Oversleeps(loop, e, settings)
      BY <1>4, <2>3 DEF Oversleeps
    <2>5. LoopCarries(loop, e) \/ Oversleeps(loop, time, settings)
      BY <1>3, <1>4, <2>2 DEF Oversleeps, LoopCarries
    <2>6. QED
      BY <2>4, <2>5 DEF e
  <1>5. CASE loop.pc = "updating"
    <2>1. PICK r \in recaps : r.kind = "live"
      BY <1>2, <1>5
    <2>2. CallFits(r, time, loop)
      BY <2>1 DEF TimesFit, CallsFit
    <2>3. loop.at = r.at /\ r.at + r.age = time /\ r.at \in Nat /\ r.age = 0
      BY <1>2, <2>1, <2>2 DEF CallFits, CallSet
    <2>4. loop.at = time
      BY <2>3
    <2>5. CASE loop.times = settings
      <3> DEFINE b == NextBoundary(time, settings)
      <3>1. /\ b.runAt \in Nat /\ time < b.runAt /\ b = [command |-> b.command, runAt |-> b.runAt]
            /\ \A f \in Nat : time < f /\ f <= b.runAt /\ IsEnd(f, settings) => b.command = "end" /\ b.runAt = f
        BY <1>1, BoundaryIs
      <3>2. NextBoundary(loop.at, loop.times) = b
        BY <2>4, <2>5
      <3> HIDE DEF b
      <3>3. e <= b.runAt
        BY <1>1, <3>1
      <3> HIDE DEF e
      <3>4. b = [command |-> "end", runAt |-> e]
        BY <1>3, <3>1, <3>3
      <3>5. LoopCarries(loop, e)
        BY <1>5, <3>2, <3>4 DEF LoopCarries
      <3>6. QED
        BY <3>5 DEF e
    <2>6. CASE loop.times # settings
      <3>1. e \in (time + 1)..(loop.at + 2)
        BY <1>1, <2>4
      <3>2. ASSUME NEW f \in (e + 1)..(loop.at + 2), IsEnd(f, settings) PROVE FALSE
        <4>1. f = e + 1 /\ f \in Nat /\ f < e + Day /\ e < f + Day
          BY <1>1, <2>4
        <4> HIDE DEF e
        <4>2. f % Day = e % Day
          BY <1>3, <3>2 DEF IsEnd
        <4>3. f = e
          BY <1>1, <1>3, <4>1, <4>2, OneOfADay
        <4>4. QED
          BY <1>3, <4>1, <4>3
      <3> HIDE DEF e
      <3>3. Oversleeps(loop, time, settings)
        BY <1>3, <1>5, <2>6, <3>1 DEF Oversleeps
      <3>4. ~Oversleeps(loop, e, settings)
        BY <1>5, <3>2 DEF Oversleeps
      <3>5. QED
        BY <3>3, <3>4 DEF e
    <2>7. QED
      BY <2>5, <2>6
  <1>6. QED
    BY <1>1, <1>4, <1>5 DEF LoopFits

LEMMA PaidPasses ==
  ASSUME TimesFit, EndedFits(ended, time), PaidNow, TimePasses
  PROVE  PaidNow'
  <1> DEFINE u == time + 1
             v == EveningOf(u, settings)
             b == recapFaults + 2 * edits
             b2 == recapFaults' + 2 * edits'
             d == Debt(loop, time, settings)
             d2 == Debt(loop, u, settings)
  <1>1. /\ time' = u /\ settings' = settings /\ loop' = loop /\ logs' = logs /\ edits' = edits
        /\ recaps' = {Older(r) : r \in recaps}
        /\ IF IsEnd(u, settings) THEN ended' = ended \cup {v} ELSE ended' = ended
        /\ IF loop.pc = "loading" THEN recapFaults' = recapFaults + 1 ELSE recapFaults' = recapFaults
    BY ClockPasses DEF TimePasses, Fault, Older
  <1>2. /\ loop.pc \in {"armed", "retrying"} => time < loop.wake
        /\ loop.pc = "updating" => \E r \in recaps : r.kind = "live"
        /\ \A r \in recaps : r.age = 0
    BY DEF TimePasses
  <1>3. /\ time \in Nat /\ GoodTimes(settings) /\ LoopFits(loop, time) /\ recapFaults \in Nat /\ edits \in Nat
        /\ u \in Nat
    BY DEF TimesFit, ClockFits
  <1>4. \A r \in recaps : r \in CallSet /\ r.at = time
    <2>1. ASSUME NEW r \in recaps PROVE r \in CallSet /\ r.at = time
      <3>1. r \in CallSet /\ r.at + r.age = time /\ r.age = 0 /\ r.at \in Nat
        BY <1>2 DEF TimesFit, CallsFit, CallFits, CallSet
      <3>2. QED
        BY <3>1
    <2>2. QED
      BY <2>1
  <1>5. ASSUME NEW w \in ended, Carried(w, time, settings, loop, recaps)
        PROVE  Carried(w, u, settings, loop, recaps')
    <2>1. ~LoopCarries(loop, time)
      <3>1. SUFFICES ASSUME LoopCarries(loop, time) PROVE FALSE
        OBVIOUS
      <3>2. CASE loop.pc = "armed" /\ loop.runAt = time
        BY <1>2, <1>3, <3>2 DEF LoopFits
      <3>3. CASE loop.pc = "updating" /\ NextBoundary(loop.at, loop.times) = [command |-> "end", runAt |-> time]
        <4>1. PICK r \in recaps : r.kind = "live"
          BY <1>2, <3>3
        <4>2. loop.at = time
          BY <1>4, <4>1 DEF TimesFit, CallsFit, CallFits
        <4>3. PICK s : s = loop.times
          OBVIOUS
        <4>4. GoodTimes(s) /\ NextBoundary(time, s).runAt = time
          BY <1>3, <3>3, <4>2, <4>3 DEF LoopFits
        <4>5. time < NextBoundary(time, s).runAt
          BY <1>3, <4>4, BoundaryIs
        <4>6. QED
          BY <1>3, <4>4, <4>5
      <3>4. QED
        BY <3>1, <3>2, <3>3 DEF LoopCarries
    <2>2. PICK r \in recaps : RecapCarries(r, w)
      BY <1>5, <2>1 DEF Carried
    <2>3. w.finish = time /\ Older(r) \in recaps'
      BY <1>1, <1>4, <2>2 DEF RecapCarries
    <2>4. RecapCarries(Older(r), w)
      BY <1>4, <2>2, OlderIs DEF RecapCarries
    <2>5. w.finish \in {u - 1, u}
      BY <1>3, <2>3
    <2>6. QED
      BY <1>5, <2>3, <2>4, <2>5 DEF Carried
  <1>6. Oversleeps(loop, u, settings) => Oversleeps(loop, time, settings)
    <2>1. ASSUME NEW k, NEW e \in (u + 1)..k PROVE e \in (time + 1)..k
      BY <1>3
    <2>2. QED
      BY <2>1 DEF Oversleeps
  <1>7. d \in {0, 1} /\ d2 \in {0, 1} /\ d2 <= d
    BY <1>6 DEF Debt
  <1>8. b \in Nat /\ b2 \in Nat /\ b <= b2 /\ (loop.pc = "loading" => b2 = b + 1)
    BY <1>1, <1>3
  <1>9. Paid(ended, logs, time, settings, loop, recaps, b) /\ IsFiniteSet(ended)
    BY DEF PaidNow, EndedFits
  <1>10. CASE ~IsEnd(u, settings) \/ LoopCarries(loop, u)
    <2>1. \A w \in ended' : w \in ended \/ Carried(w, u, settings, loop, recaps')
      <3>1. CASE ~IsEnd(u, settings)
        BY <1>1, <3>1
      <3>2. CASE IsEnd(u, settings) /\ LoopCarries(loop, u)
        <4>1. v.finish = u /\ v = EveningOf(u, settings)
          BY DEF EveningOf
        <4>2. Carried(v, u, settings, loop, recaps')
          BY <3>2, <4>1 DEF Carried
        <4>3. QED
          BY <1>1, <3>2, <4>2
      <3>3. QED
        BY <1>10, <3>1, <3>2
    <2> HIDE DEF u, v, b, b2
    <2>2. d2 + b <= d + b2
      BY <1>7, <1>8
    <2>3. Paid(ended', logs, u, settings, loop, recaps', b2)
      BY <1>5, <1>8, <1>9, <2>1, <2>2, KeepsPaid DEF d, d2
    <2>4. QED
      BY <1>1, <2>3 DEF PaidNow, b2
  <1>11. CASE IsEnd(u, settings) /\ ~LoopCarries(loop, u)
    <2>1. d2 + b + 1 <= d + b2
      <3>1. CASE loop.pc = "loading"
        <4>1. d = 0 /\ d2 = 0
          BY <3>1, DebtIs
        <4> HIDE DEF d, d2, b, b2
        <4>2. QED
          BY <1>8, <3>1, <4>1
      <3>2. CASE Oversleeps(loop, time, settings) /\ ~Oversleeps(loop, u, settings)
        <4>1. d = 1 /\ d2 = 0
          BY <3>2, DebtIs
        <4> HIDE DEF d, d2, b, b2
        <4>2. QED
          BY <1>8, <4>1
      <3>3. QED
        BY <1>11, <3>1, <3>2, EndIsAwaited
    <2>2. ended' \subseteq ended \cup {v}
      BY <1>1
    <2> HIDE DEF u, v, b, b2
    <2>3. Paid(ended', logs, u, settings, loop, recaps', b2)
      BY <1>5, <1>8, <1>9, <2>1, <2>2, LosesOne DEF d, d2
    <2>4. QED
      BY <1>1, <2>3 DEF PaidNow, b2
  <1>12. QED
    BY <1>10, <1>11

LEMMA PaidStep ==
  ASSUME TimesFit, EndedFits(ended, time), LogsFit(logs), PaidNow, [AttendanceNext]_attendanceVars
  PROVE  PaidNow'
  <1>1. CASE LoadTimes
    BY <1>1, PaidLoads
  <1>2. CASE LoadFails
    BY <1>2, PaidLoadFails
  <1>3. CASE LiveRecapReturns
    BY <1>3, PaidReturns
  <1>4. CASE TimerFires
    BY <1>4, PaidFires
  <1>5. ASSUME NEW r \in recaps, TakeMutex(r) \/ Store(r) \/ Publish(r) PROVE PaidNow'
    BY <1>5, PaidRecaps
  <1>6. ASSUME NEW r \in recaps, RecapFails(r) \/ LoseAnswer(r) PROVE PaidNow'
    <2>1. /\ ended' = ended /\ logs' = logs /\ time' = time /\ recapFaults' = recapFaults + 1 /\ edits' = edits
          /\ settings' = settings /\ loop' = loop
      BY <1>6 DEF RecapFails, LoseAnswer, Fault
    <2>2. QED
      BY <2>1, PaidFaults
  <1>7. CASE Restart
    <2>1. /\ ended' = ended /\ logs' = logs /\ time' = time /\ recapFaults' = recapFaults + 1 /\ edits' = edits
          /\ settings' = settings /\ loop'.pc = "loading"
      BY <1>7 DEF Restart, Fault, Started
    <2>2. QED
      BY <2>1, PaidFaults
  <1>8. ASSUME NEW s \in Schedules, EditSchedule(s) PROVE PaidNow'
    <2>1. /\ ended' = ended /\ logs' = logs /\ time' = time /\ recapFaults' = recapFaults /\ edits' = edits + 1
          /\ loop' = loop
      BY <1>8 DEF EditSchedule
    <2>2. QED
      BY <2>1, PaidFaults
  <1>9. CASE TimePasses
    BY <1>9, PaidPasses
  <1>10. CASE UNCHANGED attendanceVars
    BY <1>10 DEF attendanceVars, PaidNow
  <1>11. QED
    BY <1>1, <1>2, <1>3, <1>4, <1>5, <1>6, <1>7, <1>8, <1>9, <1>10 DEF AttendanceNext, Recap

-----------------------------------------------------------------------------
\* The report counts the dates of the rows that are attended.
Dates(ls, period) == {DateOf(k.start) : k \in {k \in ls : k.attended /\ DateOf(k.start) \in period}}

LEMMA DaysAre ==
  ASSUME NEW period
  PROVE  DaysAttended(period) = Cardinality(Dates(logs, period))
  <1> DEFINE row(k) == [account |-> "account", date |-> DateOf(k.start), attended |-> k.attended]
             R == {row(k) : k \in logs}
             D == {j.date : j \in {j \in R : j.account = "account" /\ j.date \in period /\ j.attended}}
  <1>1. \A k : row(k).account = "account" /\ row(k).date = DateOf(k.start) /\ row(k).attended = k.attended
    OBVIOUS
  <1>2. DaysAttended(period) = Cardinality(D)
    BY DEF DaysAttended, TotalAttended, MonthlyLogs
  <1> HIDE DEF row
  <1>3. D = Dates(logs, period)
    BY <1>1 DEF Dates
  <1>4. QED
    BY <1>2, <1>3

LEMMA SavedCounts ==
  ASSUME NEW w, Saved(logs, w)
  PROVE  DaysAttended({DateOf(w.start)}) # 0
  <1> DEFINE x == DateOf(w.start)
             D == Dates(logs, {x})
  <1>1. D = {x}
    BY DEF Saved, Dates
  <1>2. Cardinality(D) = 1
    BY <1>1, FS_Singleton
  <1>3. QED
    BY <1>2, DaysAre

\* An evening that settled is carried no more: it is lost or it is saved.
LEMMA FewMissed ==
  ASSUME TimesFit, EndedFits(ended, time), PaidNow
  PROVE  Cardinality({w \in {w \in ended : Settled(w) /\ Attends(w)} : DaysAttended({DateOf(w.start)}) = 0})
           <= recapFaults + 2 * edits
  <1> DEFINE M == {w \in {w \in ended : Settled(w) /\ Attends(w)} : DaysAttended({DateOf(w.start)}) = 0}
             A == Lost(ended, logs, time, settings, loop, recaps)
  <1>1. time \in Nat /\ recapFaults \in Nat /\ edits \in Nat
    BY DEF TimesFit, ClockFits
  <1>2. ASSUME NEW w \in M PROVE w \in A
    <2>1. w \in ended /\ Settled(w) /\ Attends(w) /\ ~Saved(logs, w)
      BY SavedCounts
    <2>2. w.finish \in Nat /\ w.finish + 2 <= time
      BY <2>1 DEF EndedFits, WindowSet, Settled
    <2>3. w.finish \notin {time - 1, time}
      BY <1>1, <2>2
    <2>4. QED
      BY <2>1, <2>3 DEF Lost, Carried
  <1>3. A \subseteq ended
    BY DEF Lost
  <1>4. IsFiniteSet(A) /\ Cardinality(A) \in Nat
    BY <1>3, FS_Subset, FS_CardinalityType DEF EndedFits
  <1>5. M \in SUBSET A
    BY <1>2
  <1>6. Cardinality(A) + Debt(loop, time, settings) <= recapFaults + 2 * edits
    BY DEF PaidNow, Paid
  <1> HIDE DEF M, A
  <1>7. Cardinality(M) <= Cardinality(A) /\ Cardinality(M) \in Nat
    BY <1>4, <1>5, FS_Subset, FS_CardinalityType
  <1>8. PICK d \in Nat : d = Debt(loop, time, settings)
    BY DebtIs
  <1>9. Cardinality(M) <= recapFaults + 2 * edits
    BY <1>1, <1>4, <1>6, <1>7, <1>8
  <1>10. QED
    BY <1>9 DEF M

\* Without an edit each attended row is that of an evening that was attended.
LEMMA NoMoreDays ==
  ASSUME EndedFits(ended, time), LogsFit(logs), \A k \in logs : WindowOf(k) \in ended, NEW period
  PROVE  DaysAttended(period) <= Cardinality({w \in ended : Attends(w)})
  <1> DEFINE E == {w \in ended : Attends(w)}
             f == [w \in E |-> DateOf(w.start)]
             F == {f[w] : w \in E}
             D == Dates(logs, period)
  <1>1. IsFiniteSet(E)
    <2>1. E \in SUBSET ended
      OBVIOUS
    <2>2. QED
      BY <2>1, FS_Subset DEF EndedFits
  <1>2. D \in SUBSET F
    <2>1. ASSUME NEW k \in logs, k.attended PROVE DateOf(k.start) \in F
      <3>1. /\ WindowOf(k) \in ended /\ k.character \in Characters /\ Credits(k.character, WindowOf(k))
            /\ WindowOf(k).start = k.start
        BY <2>1 DEF LogsFit, LogFits, WindowOf
      <3>2. Attends(WindowOf(k))
        BY <3>1 DEF Credits, Attends
      <3>3. WindowOf(k) \in E /\ f[WindowOf(k)] = DateOf(k.start)
        BY <3>1, <3>2
      <3>4. QED
        BY <3>3
    <2>2. QED
      BY <2>1 DEF Dates
  <1>3. f \in Surjection(E, F)
    BY DEF Surjection
  <1> HIDE DEF E, f, F, D
  <1>4. IsFiniteSet(F) /\ Cardinality(F) <= Cardinality(E)
    BY <1>1, <1>3, FS_Surjection
  <1>5. IsFiniteSet(D) /\ Cardinality(D) <= Cardinality(F)
    BY <1>2, <1>4, FS_Subset
  <1>6. Cardinality(D) \in Nat /\ Cardinality(F) \in Nat /\ Cardinality(E) \in Nat
    BY <1>1, <1>4, <1>5, FS_CardinalityType
  <1>7. Cardinality(D) <= Cardinality(E)
    BY <1>4, <1>5, <1>6
  <1>8. QED
    BY <1>7, DaysAre DEF D, E

-----------------------------------------------------------------------------
ScheduleInv ==
  /\ TimesFit
  /\ FiredFits(fired, loop, time)
  /\ LogsFit(logs)
  /\ EndedFits(ended, time)
  /\ FewClocks(settings, loop, recaps, logs, edits)
  /\ PaidNow
  /\ edits = 0 => Unedited(settings, time, loop, recaps, logs, ended)

LEMMA ScheduleInvInit == AttendanceInit => ScheduleInv
  <1> SUFFICES ASSUME AttendanceInit PROVE ScheduleInv
    OBVIOUS
  <1>1. fired = <<>> /\ logs = {} /\ ended = {}
    BY DEF AttendanceInit
  <1>2. FiredFits(fired, loop, time)
    BY <1>1 DEF FiredFits
  <1>3. LogsFit(logs)
    BY <1>1 DEF LogsFit
  <1>4. EndedFits(ended, time)
    BY <1>1, FS_EmptySet DEF EndedFits
  <1>5. QED
    BY <1>2, <1>3, <1>4, TimesInit, ClocksInit, PaidInit, UneditedInit DEF ScheduleInv

LEMMA ScheduleInvNext == ScheduleInv /\ [AttendanceNext]_attendanceVars => ScheduleInv'
  <1> SUFFICES ASSUME ScheduleInv, [AttendanceNext]_attendanceVars PROVE ScheduleInv'
    OBVIOUS
  <1>1. TimesFit /\ FiredFits(fired, loop, time) /\ LogsFit(logs) /\ EndedFits(ended, time)
        /\ FewClocks(settings, loop, recaps, logs, edits) /\ PaidNow
    BY DEF ScheduleInv
  <1>2. TimesFit' /\ FiredFits(fired', loop', time') /\ LogsFit(logs') /\ EndedFits(ended', time')
    BY <1>1, TimesStep, FiredStep, LogsStep, EndedStep
  <1>3. FewClocks(settings', loop', recaps', logs', edits') /\ PaidNow'
    BY <1>1, ClocksStep, PaidStep
  <1>4. ASSUME edits' = 0 PROVE Unedited(settings', time', loop', recaps', logs', ended')
    <2>1. edits = 0 /\ ~\E s \in Schedules : EditSchedule(s)
      <3>1. edits \in Nat
        BY <1>1 DEF TimesFit, ClockFits
      <3>2. ASSUME NEW s \in Schedules, EditSchedule(s) PROVE FALSE
        BY <1>4, <3>1, <3>2 DEF EditSchedule
      <3>3. edits' = edits
        BY <3>2 DEF AttendanceNext, attendanceVars, LoadTimes, LoadFails, LiveRecapReturns, TimerFires, Recap,
           TakeMutex, Store, Publish, RecapFails, LoseAnswer, Restart, TimePasses
      <3>4. QED
        BY <1>4, <3>2, <3>3
    <2>2. Unedited(settings, time, loop, recaps, logs, ended)
      BY <2>1 DEF ScheduleInv
    <2>3. QED
      BY <1>1, <2>1, <2>2, UneditedStep
  <1>5. QED
    BY <1>2, <1>3, <1>4 DEF ScheduleInv

(***************************************************************************)
(* The inductive invariant of the attendance scheduler, over edits,        *)
(* restarts, reloads and failures (Scheduler.Run, publishRecap).           *)
(***************************************************************************)
THEOREM ScheduleInvariant == BotSpec => []ScheduleInv
  <1>1. BotInit => ScheduleInv
    BY ScheduleInvInit DEF BotInit
  <1>2. [BotNext]_botVars => [AttendanceNext]_attendanceVars
    BY DEF BotNext, botVars
  <1>3. ScheduleInv /\ [BotNext]_botVars => ScheduleInv'
    BY <1>2, ScheduleInvNext
  <1>4. QED
    BY <1>1, <1>3, PTL DEF BotSpec

(***************************************************************************)
(* Every evening the account attended is a day of its report and counts    *)
(* once, whatever the live recaps and the reloads were doing when it       *)
(* ended: each that is lost has a fault of its own or an edit, and no      *)
(* boundary fires twice (Run, nextDailyRun, publishRecap,                  *)
(* SaveAttendanceRecap, getMonthly).                                       *)
(***************************************************************************)
THEOREM EveningsCountOnceCorrect == BotSpec => []EveningsCountOnce
  <1>1. ScheduleInv => EveningsCountOnce
    <2> SUFFICES ASSUME ScheduleInv PROVE EveningsCountOnce
      OBVIOUS
    <2>1. \A m, n \in DOMAIN fired : fired[m] = fired[n] => m = n
      BY FiredOnce DEF ScheduleInv
    <2>2. Cardinality({w \in {w \in ended : Settled(w) /\ Attends(w)} : DaysAttended({DateOf(w.start)}) = 0})
            <= recapFaults + 2 * edits
      BY FewMissed DEF ScheduleInv
    <2>3. \A l \in logs :
            Cardinality({k \in logs : k.character = l.character /\ k.start = l.start}) <= 1 + edits
      <3>1. edits \in Nat /\ GoodTimes(settings)
        BY DEF ScheduleInv, TimesFit, ClockFits
      <3>2. QED
        BY <3>1, FewRows DEF ScheduleInv
    <2>4. ASSUME edits = 0
          PROVE  /\ DaysAttended(0..DateOf(time)) <= Cardinality({w \in ended : Attends(w)})
                 /\ \A l \in logs : [start |-> l.start, finish |-> l.finish] \in ended
      <3>1. \A k \in logs : WindowOf(k) \in ended
        BY <2>4 DEF ScheduleInv, Unedited
      <3>2. QED
        BY <3>1, NoMoreDays DEF ScheduleInv, WindowOf
    <2>5. QED
      BY <2>1, <2>2, <2>3, <2>4 DEF EveningsCountOnce
  <1>2. QED
    BY <1>1, ScheduleInvariant, PTL

-----------------------------------------------------------------------------
\* A time the loop has come by: no boundary of it is awaited any more.
Past(x, l, t) == x <= FiredBy(l, t) /\ (l.pc = "armed" => x < l.runAt)

LEMMA PastStays ==
  ASSUME TimesFit, [AttendanceNext]_attendanceVars, NEW x \in Nat, Past(x, loop, time)
  PROVE  Past(x, loop', time')
  <1>1. time \in Nat /\ LoopFits(loop, time) /\ GoodTimes(settings)
    BY DEF TimesFit, ClockFits
  <1>2. x <= time
    BY <1>1 DEF Past, FiredBy, LoopFits
  <1>3. CASE loop' = loop /\ time' = time
    BY <1>3
  <1>4. CASE loop'.pc \in {"loading", "retrying"} /\ time' = time
    BY <1>2, <1>4 DEF Past, FiredBy
  <1>5. ASSUME NEW t \in Nat, t \in {time - 1, time}, NEW s, GoodTimes(s), loop' = Armed(loop, t, s),
               x <= t, time' = time
        PROVE  Past(x, loop', time')
    <2>1. loop'.pc = "armed" /\ loop'.runAt \in Nat /\ t < loop'.runAt
      BY <1>1, <1>5, ArmedIs
    <2>2. QED
      BY <1>2, <1>5, <2>1 DEF Past, FiredBy
  <1>6. CASE LoadTimes
    <2>1. time' = time /\ (loop' = Armed(loop, time, settings) \/ (loop'.pc = "updating" /\ loop'.at = time))
      BY <1>6 DEF LoadTimes
    <2>2. CASE loop' = Armed(loop, time, settings)
      BY <1>1, <1>2, <1>5, <2>1, <2>2
    <2>3. CASE loop'.pc = "updating" /\ loop'.at = time
      BY <1>2, <2>3 DEF Past, FiredBy
    <2>4. QED
      BY <2>1, <2>2, <2>3
  <1>7. CASE LoadFails
    BY <1>4, <1>7 DEF LoadFails
  <1>8. CASE LiveRecapReturns
    <2>1. loop.pc = "updating" /\ loop' = Armed(loop, loop.at, loop.times) /\ time' = time
      BY <1>8 DEF LiveRecapReturns
    <2>2. loop.at \in Nat /\ loop.at \in {time - 1, time} /\ GoodTimes(loop.times)
      BY <1>1, <2>1 DEF LoopFits
    <2>3. x <= loop.at
      BY <2>1 DEF Past, FiredBy
    <2>4. QED
      BY <1>5, <2>1, <2>2, <2>3
  <1>9. CASE TimerFires
    BY <1>4, <1>9 DEF TimerFires, Loading
  <1>10. CASE Restart
    BY <1>4, <1>10 DEF Restart, Started
  <1>11. CASE TimePasses
    <2>1. loop' = loop /\ time' = time + 1
      BY <1>11 DEF TimePasses
    <2>2. QED
      BY <1>1, <1>2, <2>1 DEF Past, FiredBy
  <1>12. QED
    BY <1>3, <1>6, <1>7, <1>8, <1>9, <1>10, <1>11
       DEF AttendanceNext, attendanceVars, Recap, TakeMutex, Store, Publish, RecapFails, LoseAnswer, EditSchedule

\* One call holds the mutex; two of a kind are of different times.
CallsApart(rs, l, t) ==
  /\ \A q, r \in rs : q.pc # "waiting" /\ r.pc # "waiting" => q = r
  /\ \A q, r \in rs : q.kind = r.kind /\ q.at = r.at => q = r
  /\ \A r \in rs : Past(r.at, l, t)

\* What a call's own steps do with it: it goes on, holding the mutex, or ends.
LEMMA RecapGoesOn ==
  ASSUME TimesFit, CallsApart(recaps, loop, time), NEW r \in recaps, Recap(r)
  PROVE  \/ recaps' = recaps \ {r}
         \/ \E q \in CallSet : /\ recaps' = Replaced(recaps, r, q)
                               /\ q.kind = r.kind /\ q.at = r.at /\ q.pc # "waiting"
                               /\ \A p \in recaps \ {r} : p.pc = "waiting"
  <1>1. r \in CallSet /\ r.window \in WindowSet /\ r.at \in Nat /\ Day <= r.at
    BY StoredWindow
  <1>2. CASE TakeMutex(r)
    <2> DEFINE w == AttendanceWindow(r.at, settings)
    <2>1. w \in WindowSet
      BY <1>1, WindowIs DEF TimesFit, ClockFits
    <2>2. recaps' = Replaced(recaps, r, Taken(r, w)) /\ \A p \in recaps : p.pc = "waiting"
      BY <1>2 DEF TakeMutex, Becomes, Replaced, Taken
    <2> HIDE DEF w
    <2>3. Taken(r, w) \in CallSet /\ Taken(r, w).pc = "reading" /\ Taken(r, w).kind = r.kind /\ Taken(r, w).at = r.at
      BY <1>1, <2>1, TakenIs
    <2>4. QED
      BY <2>2, <2>3
  <1>3. CASE Store(r)
    <2>1. recaps' = Replaced(recaps, r, Moved(r, "publishing")) /\ r.pc = "reading"
      BY <1>3 DEF Store, Becomes, Replaced, Moved
    <2>2. /\ Moved(r, "publishing") \in CallSet /\ Moved(r, "publishing").pc = "publishing"
          /\ Moved(r, "publishing").kind = r.kind /\ Moved(r, "publishing").at = r.at
      BY <1>1, MovedIs
    <2>3. \A p \in recaps \ {r} : p.pc = "waiting"
      BY <2>1 DEF CallsApart
    <2>4. QED
      BY <2>1, <2>2, <2>3
  <1>4. CASE Publish(r) \/ RecapFails(r) \/ LoseAnswer(r)
    BY <1>4 DEF Publish, RecapFails, LoseAnswer, Ends
  <1>5. QED
    BY <1>2, <1>3, <1>4 DEF Recap

LEMMA CallsApartStep ==
  ASSUME TimesFit, CallsApart(recaps, loop, time), [AttendanceNext]_attendanceVars
  PROVE  CallsApart(recaps', loop', time')
  <1>1. /\ time \in Nat /\ ClockFits /\ LoopFits(loop, time)
        /\ \A r \in recaps : r \in CallSet /\ r.at \in Nat /\ r.at <= time
    <2>1. \A r \in recaps : r \in CallSet /\ r.at \in Nat /\ r.at + r.age = time /\ r.age \in {0, 1}
      BY DEF TimesFit, CallsFit, CallFits, CallSet
    <2>2. QED
      BY <2>1 DEF TimesFit, ClockFits
  <1>2. \A r \in recaps : Past(r.at, loop', time')
    BY <1>1, PastStays DEF CallsApart
  <1>3. CASE recaps' \subseteq recaps
    BY <1>2, <1>3 DEF CallsApart
  <1>4. ASSUME NEW kind \in {"live", "final"}, recaps' = recaps \cup {Call(kind)}, Past(time, loop', time'),
               \A r \in recaps : r.kind = kind => r.at # time
        PROVE  CallsApart(recaps', loop', time')
    <2> DEFINE c == Call(kind)
    <2>1. c.kind = kind /\ c.at = time /\ c.pc = "waiting"
      BY <1>1, CallIs
    <2> HIDE DEF c
    <2>2. recaps' = recaps \cup {c}
      BY <1>4 DEF c
    <2>3. \A r \in recaps' : Past(r.at, loop', time')
      BY <1>2, <1>4, <2>1, <2>2
    <2>4. \A q, r \in recaps' : q.kind = r.kind /\ q.at = r.at => q = r
      BY <1>4, <2>1, <2>2 DEF CallsApart
    <2>5. \A q, r \in recaps' : q.pc # "waiting" /\ r.pc # "waiting" => q = r
      BY <2>1, <2>2 DEF CallsApart
    <2>6. QED
      BY <2>3, <2>4, <2>5 DEF CallsApart
  <1>5. CASE LoadTimes
    <2>1. CASE recaps' = recaps
      BY <1>3, <2>1
    <2>2. CASE loop'.pc = "updating" /\ loop'.at = time /\ recaps' = recaps \cup {Call("live")}
      <3>1. Past(time, loop', time')
        BY <1>1, <2>2 DEF Past, FiredBy
      <3>2. \A r \in recaps : r.kind # "live"
        BY <1>5 DEF LoadTimes, TimesFit, CallsFit, CallFits
      <3>3. QED
        BY <1>4, <2>2, <3>1, <3>2
    <2>3. QED
      BY <1>5, <2>1, <2>2 DEF LoadTimes
  <1>6. CASE TimerFires
    <2>1. CASE recaps' = recaps
      BY <1>3, <2>1
    <2>2. CASE loop.pc = "armed" /\ ~(time < loop.runAt) /\ recaps' = recaps \cup {Call("final")}
      <3>1. loop.runAt = time /\ loop'.pc = "loading" /\ time' = time
        BY <1>6, <2>2, FiresInTime DEF TimerFires, Loading
      <3>2. Past(time, loop', time')
        BY <1>1, <3>1 DEF Past, FiredBy
      <3>3. \A r \in recaps : r.at < time
        BY <2>2, <3>1 DEF CallsApart, Past
      <3>4. \A r \in recaps : r.at # time
        BY <1>1, <3>3
      <3>5. QED
        BY <1>4, <2>2, <3>2, <3>4
    <2>3. QED
      BY <1>6, <2>1, <2>2 DEF TimerFires
  <1>7. ASSUME NEW r \in recaps, Recap(r) PROVE CallsApart(recaps', loop', time')
    <2>1. CASE recaps' = recaps \ {r}
      BY <1>3, <2>1
    <2>2. ASSUME NEW q \in CallSet, recaps' = Replaced(recaps, r, q), q.kind = r.kind, q.at = r.at,
                 \A p \in recaps \ {r} : p.pc = "waiting"
          PROVE  CallsApart(recaps', loop', time')
      <3>1. recaps' = (recaps \ {r}) \cup {q}
        BY <2>2 DEF Replaced
      <3>2. \A p \in recaps' : Past(p.at, loop', time')
        BY <1>2, <2>2, <3>1
      <3>3. \A p \in recaps \ {r} : ~(p.kind = q.kind /\ p.at = q.at)
        BY <2>2 DEF CallsApart
      <3>4. \A p, o \in recaps' : p.kind = o.kind /\ p.at = o.at => p = o
        BY <3>1, <3>3 DEF CallsApart
      <3>5. \A p, o \in recaps' : p.pc # "waiting" /\ o.pc # "waiting" => p = o
        BY <2>2, <3>1
      <3>6. QED
        BY <3>2, <3>4, <3>5 DEF CallsApart
    <2>3. QED
      BY <1>7, <2>1, <2>2, RecapGoesOn
  <1>8. CASE TimePasses
    <2>1. recaps' = {Older(r) : r \in recaps}
      BY <1>8 DEF TimePasses, Older
    <2>2. \A r \in recaps : Older(r).kind = r.kind /\ Older(r).at = r.at /\ Older(r).pc = r.pc
      BY <1>1, OlderIs
    <2>3. \A r \in recaps' : Past(r.at, loop', time')
      BY <1>2, <2>1, <2>2
    <2>4. \A q, r \in recaps' : q.kind = r.kind /\ q.at = r.at => q = r
      BY <2>1, <2>2 DEF CallsApart
    <2>5. \A q, r \in recaps' : q.pc # "waiting" /\ r.pc # "waiting" => q = r
      BY <2>1, <2>2 DEF CallsApart
    <2>6. QED
      BY <2>3, <2>4, <2>5 DEF CallsApart
  <1>9. QED
    BY <1>3, <1>5, <1>6, <1>7, <1>8
       DEF AttendanceNext, attendanceVars, LoadFails, LiveRecapReturns, Restart, EditSchedule

\* What is remembered is the window of a message, and of a time that is past.
PostSet == [window : Nat, final : BOOLEAN]
Redone(p, n, x) == [p EXCEPT ![n] = x]
MemoryFits(m, p, l, t) ==
  /\ p \in Seq(PostSet)
  /\ m.message # 0 => /\ m.message \in 1..Len(p) /\ p[m.message].window = m.window
                      /\ m.window \in Nat /\ Past(m.window, l, t)

LEMMA MessageIs ==
  ASSUME NEW r \in CallSet
  PROVE  /\ Message(r) \in PostSet /\ Message(r).window = r.window.start /\ Message(r).window \in Nat
         /\ Message(r).final = (r.kind = "final")
  <1>1. r.window.start \in Nat
    BY DEF CallSet, WindowSet
  <1>2. QED
    BY <1>1 DEF Message, PostSet

LEMMA RedoneIs ==
  ASSUME NEW p \in Seq(PostSet), NEW n \in 1..Len(p), NEW x \in PostSet
  PROVE  /\ Redone(p, n, x) \in Seq(PostSet) /\ Len(Redone(p, n, x)) = Len(p)
         /\ \A k \in 1..Len(p) : Redone(p, n, x)[k] = IF k = n THEN x ELSE p[k]
  BY DEF Redone

LEMMA AppendedIs ==
  ASSUME NEW p \in Seq(PostSet), NEW x \in PostSet
  PROVE  /\ Append(p, x) \in Seq(PostSet) /\ Len(Append(p, x)) = Len(p) + 1 /\ Append(p, x)[Len(p) + 1] = x
         /\ \A k \in 1..Len(p) : Append(p, x)[k] = p[k]
  OBVIOUS

\* What the steps do to the messages.
LEMMA PostsChange ==
  ASSUME [AttendanceNext]_attendanceVars, MemoryFits(memory, posts, loop, time)
  PROVE  \/ posts' = posts /\ (memory' = memory \/ memory'.message = 0)
         \/ \E r \in recaps :
              /\ r.pc = "publishing" /\ loop' = loop /\ time' = time
              /\ \/ IsNew(r) /\ posts' = Append(posts, Message(r))
                 \/ ~IsNew(r) /\ posts' = Redone(posts, memory.message, Message(r))
              /\ \/ memory' = memory
                 \/ IsNew(r) /\ memory' = [message |-> Len(posts) + 1, window |-> r.window.start]
  <1>1. CASE UNCHANGED <<posts, memory>>
    BY <1>1
  <1>2. CASE Restart
    BY <1>2 DEF Restart, NoMessage
  <1>3. ASSUME NEW r \in recaps, Publish(r) \/ LoseAnswer(r)
        PROVE  /\ r.pc = "publishing" /\ loop' = loop /\ time' = time
               /\ \/ IsNew(r) /\ posts' = Append(posts, Message(r))
                  \/ ~IsNew(r) /\ posts' = Redone(posts, memory.message, Message(r))
               /\ \/ memory' = memory
                  \/ IsNew(r) /\ memory' = [message |-> Len(posts) + 1, window |-> r.window.start]
    BY <1>3 DEF Publish, LoseAnswer, Redone
  <1>4. QED
    BY <1>1, <1>2, <1>3
       DEF AttendanceNext, attendanceVars, LoadTimes, LoadFails, LiveRecapReturns, TimerFires, Recap, TakeMutex,
           Store, RecapFails, EditSchedule, TimePasses

\* A call's window is of a time that is past.
LEMMA WindowIsPast ==
  ASSUME TimesFit, CallsApart(recaps, loop, time), NEW r \in recaps
  PROVE  r.window.start \in Nat /\ Past(r.window.start, loop, time)
  <1>1. r \in CallSet /\ r.at \in Nat /\ IsWindow(r.window, r.at) /\ LoopFits(loop, time) /\ time \in Nat
    BY StoredWindow DEF TimesFit, CallsFit, CallFits, ClockFits
  <1>2. r.window.start \in Nat /\ r.window.finish \in Nat /\ r.window.start <= r.at
    BY <1>1 DEF CallSet, WindowSet, IsWindow
  <1>3. Past(r.at, loop, time)
    BY DEF CallsApart
  <1>4. FiredBy(loop, time) \in Nat /\ (loop.pc = "armed" => loop.runAt \in Nat)
    BY <1>1 DEF FiredBy, LoopFits
  <1>5. QED
    BY <1>1, <1>2, <1>3, <1>4 DEF Past

LEMMA MemoryStep ==
  ASSUME TimesFit, CallsApart(recaps, loop, time), MemoryFits(memory, posts, loop, time),
         [AttendanceNext]_attendanceVars
  PROVE  MemoryFits(memory', posts', loop', time')
  <1>1. CASE posts' = posts /\ (memory' = memory \/ memory'.message = 0)
    BY <1>1, PastStays DEF MemoryFits
  <1>2. ASSUME NEW r \in recaps, loop' = loop, time' = time,
               \/ IsNew(r) /\ posts' = Append(posts, Message(r))
               \/ ~IsNew(r) /\ posts' = Redone(posts, memory.message, Message(r)),
               \/ memory' = memory
               \/ IsNew(r) /\ memory' = [message |-> Len(posts) + 1, window |-> r.window.start]
        PROVE  MemoryFits(memory', posts', loop', time')
    <2> DEFINE x == Message(r)
               n == memory.message
    <2>1. /\ r \in CallSet /\ x \in PostSet /\ x.window = r.window.start /\ r.window.start \in Nat
          /\ Past(r.window.start, loop, time) /\ posts \in Seq(PostSet) /\ Len(posts) \in Nat
      BY StoredWindow, MessageIs, WindowIsPast DEF MemoryFits
    <2> HIDE DEF x
    <2>2. CASE IsNew(r) /\ posts' = Append(posts, x)
      <3>1. posts' \in Seq(PostSet) /\ Len(posts') = Len(posts) + 1 /\ posts'[Len(posts) + 1] = x
            /\ \A k \in 1..Len(posts) : posts'[k] = posts[k]
        BY <2>1, <2>2, AppendedIs
      <3>2. CASE memory' = memory
        BY <1>2, <2>1, <3>1, <3>2 DEF MemoryFits
      <3>3. CASE memory' = [message |-> Len(posts) + 1, window |-> r.window.start]
        <4>1. memory'.message = Len(posts) + 1 /\ memory'.window = r.window.start
          BY <3>3
        <4>2. Len(posts) + 1 \in 1..Len(posts')
          BY <2>1, <3>1
        <4>3. posts'[memory'.message].window = memory'.window
          BY <2>1, <3>1, <4>1
        <4>4. Past(memory'.window, loop', time')
          BY <1>2, <2>1, <4>1
        <4>5. QED
          BY <2>1, <3>1, <4>1, <4>2, <4>3, <4>4 DEF MemoryFits
      <3>4. QED
        BY <1>2, <3>2, <3>3
    <2>3. CASE ~IsNew(r) /\ posts' = Redone(posts, n, x)
      <3>1. n # 0 /\ memory.window = r.window.start /\ memory' = memory
        BY <1>2, <2>3 DEF IsNew
      <3>2. n \in 1..Len(posts)
        BY <3>1 DEF MemoryFits
      <3> HIDE DEF n
      <3>3. posts' \in Seq(PostSet) /\ Len(posts') = Len(posts) /\ posts'[n] = x
        <4>1. /\ Redone(posts, n, x) \in Seq(PostSet) /\ Len(Redone(posts, n, x)) = Len(posts)
              /\ Redone(posts, n, x)[n] = x
          BY ONLY <2>1, <3>2, RedoneIs, ZenonT(40)
        <4>2. QED
          BY ONLY <2>3, <4>1
      <3>4. memory'.message = n /\ memory'.window = r.window.start /\ n \in 1..Len(posts')
        BY <3>1, <3>2, <3>3 DEF n
      <3>5. posts'[memory'.message].window = memory'.window
        BY <2>1, <3>3, <3>4
      <3>6. Past(memory'.window, loop', time')
        BY <1>2, <2>1, <3>4
      <3>7. QED
        BY <2>1, <3>3, <3>4, <3>5, <3>6 DEF MemoryFits
    <2>4. QED
      BY <1>2, <2>2, <2>3 DEF x
  <1>3. QED
    BY <1>1, <1>2, PostsChange

-----------------------------------------------------------------------------
\* The messages of a window.
MessagesOf(p, w) == {k \in DOMAIN p : p[k].window = w}
Count(p, w) == Cardinality(MessagesOf(p, w))

LEMMA CountIs ==
  ASSUME NEW p \in Seq(PostSet), NEW w
  PROVE  IsFiniteSet(MessagesOf(p, w)) /\ Count(p, w) \in Nat
  <1>1. MessagesOf(p, w) \in SUBSET (1..Len(p)) /\ Len(p) \in Nat
    BY DEF MessagesOf
  <1>2. IsFiniteSet(1..Len(p))
    BY <1>1, FS_Interval
  <1>3. QED
    BY <1>1, <1>2, FS_Subset, FS_CardinalityType DEF Count

LEMMA CountAppended ==
  ASSUME NEW p \in Seq(PostSet), NEW x \in PostSet, NEW w
  PROVE  Count(Append(p, x), w) = IF x.window = w THEN Count(p, w) + 1 ELSE Count(p, w)
  <1> DEFINE q == Append(p, x)
             n == Len(p) + 1
  <1>1. /\ DOMAIN p = 1..Len(p) /\ DOMAIN q = 1..n /\ q[n] = x /\ Len(p) \in Nat
        /\ \A k \in 1..Len(p) : q[k] = p[k]
    BY AppendedIs
  <1>2. 1..n = (1..Len(p)) \cup {n} /\ n \notin 1..Len(p)
    BY <1>1
  <1> HIDE DEF q, n
  <1>3. n \notin MessagesOf(p, w)
    BY <1>1, <1>2 DEF MessagesOf
  <1>4. CASE x.window = w
    <2>1. MessagesOf(q, w) = MessagesOf(p, w) \cup {n}
      BY <1>1, <1>2, <1>4 DEF MessagesOf
    <2>2. IsFiniteSet(MessagesOf(p, w))
      BY CountIs
    <2>3. Cardinality(MessagesOf(p, w) \cup {n}) = Cardinality(MessagesOf(p, w)) + 1
      BY ONLY <1>3, <2>2, FS_AddElement
    <2>4. QED
      BY <1>4, <2>1, <2>3 DEF Count, q
  <1>5. CASE x.window # w
    <2>1. MessagesOf(q, w) = MessagesOf(p, w)
      BY <1>1, <1>2, <1>5 DEF MessagesOf
    <2>2. QED
      BY <1>5, <2>1 DEF Count, q
  <1>6. QED
    BY <1>4, <1>5

LEMMA CountRedone ==
  ASSUME NEW p \in Seq(PostSet), NEW n \in 1..Len(p), NEW x \in PostSet, p[n].window = x.window, NEW w
  PROVE  Count(Redone(p, n, x), w) = Count(p, w)
  <1> DEFINE q == Redone(p, n, x)
  <1>1. DOMAIN q = DOMAIN p /\ DOMAIN p = 1..Len(p) /\ \A k \in 1..Len(p) : q[k] = IF k = n THEN x ELSE p[k]
    BY RedoneIs DEF Redone
  <1> HIDE DEF q
  <1>2. MessagesOf(q, w) = MessagesOf(p, w)
    BY <1>1 DEF MessagesOf
  <1>3. QED
    BY <1>2 DEF Count, q

\* A window whose next recap would be a message of its own: its evening is the
\* running one, or a call for it is under way, and another one is remembered.
Remembers(m, w) == m.message # 0 /\ m.window = w
HeldFor(rs, w) == \E r \in rs : r.pc # "waiting" /\ r.window.start = w
HeldElse(rs, w) == \E r \in rs : r.pc # "waiting" /\ r.window.start # w
Reached(w, t, s, rs) ==
  \/ EveningStart(t, s) <= w
  \/ \E r \in rs : r.kind = "live" /\ r.pc = "waiting" /\ w = EveningStart(r.at, s)
Anew(w, m, t, s, rs) ==
  (Reached(w, t, s, rs) \/ HeldFor(rs, w)) /\ (~Remembers(m, w) \/ HeldElse(rs, w))

\* A final recap of e that waits for the mutex, or is about to.
Ending(e, l, rs) ==
  \/ \E r \in rs : r.kind = "final" /\ r.pc = "waiting" /\ r.at = e
  \/ l.pc = "armed" /\ l.command = "end" /\ l.runAt = e /\ l.wake = e
  \/ /\ l.pc = "updating" /\ NextBoundary(l.at, l.times) = [command |-> "end", runAt |-> e]
     /\ e <= l.at + 2

\* One that can take the memory from the window, or bring it an evening late.
Beside(w, l, rs) == Ending(w - 1, l, rs) \/ Ending(w - 1 + Day, l, rs)

\* The messages that a window may still get without another fault or edit.
Bit(b) == IF b THEN 1 ELSE 0
Owes(w, m, t, s, l, rs) ==
  IF w % Day = s.start THEN Bit(Anew(w, m, t, s, rs)) + Bit(Beside(w, l, rs))
                       ELSE Bit(HeldFor(rs, w) /\ ~Remembers(m, w))
Allowed(w, s, b) == IF w % Day = s.start THEN 1 + b ELSE b

Few(w, p, m, t, s, l, rs, b) == Count(p, w) + Owes(w, m, t, s, l, rs) <= Allowed(w, s, b)
FewNow == \A w \in Nat : Few(w, posts, memory, time, settings, loop, recaps, recapFaults + edits)

LEMMA BitIs ==
  /\ \A b : Bit(b) \in {0, 1} /\ (b => Bit(b) = 1) /\ (~b => Bit(b) = 0)
  /\ \A b, c \in BOOLEAN : (b => c) => Bit(b) <= Bit(c)
  BY DEF Bit

LEMMA OwesIs ==
  ASSUME NEW w, NEW m, NEW t, NEW s, NEW l, NEW rs
  PROVE  /\ Owes(w, m, t, s, l, rs) \in {0, 1, 2}
         /\ w % Day # s.start => Owes(w, m, t, s, l, rs) \in {0, 1}
  BY BitIs DEF Owes

LEMMA OwesLess ==
  ASSUME NEW w, NEW s, NEW m, NEW t, NEW l, NEW rs, NEW m2, NEW t2, NEW l2, NEW rs2,
         w % Day = s.start /\ Anew(w, m2, t2, s, rs2) => Anew(w, m, t, s, rs),
         w % Day = s.start /\ Beside(w, l2, rs2) => Beside(w, l, rs),
         HeldFor(rs2, w) /\ ~Remembers(m2, w) => HeldFor(rs, w) /\ ~Remembers(m, w)
  PROVE  Owes(w, m2, t2, s, l2, rs2) <= Owes(w, m, t, s, l, rs)
  <1>1. CASE w % Day = s.start
    <2>1. /\ Bit(Anew(w, m2, t2, s, rs2)) <= Bit(Anew(w, m, t, s, rs))
          /\ Bit(Beside(w, l2, rs2)) <= Bit(Beside(w, l, rs))
      BY <1>1 DEF Bit
    <2>2. QED
      BY <1>1, <2>1, BitIs DEF Owes
  <1>2. CASE w % Day # s.start
    BY <1>2 DEF Owes, Bit
  <1>3. QED
    BY <1>1, <1>2

\* What fewer calls leave to be told.
LEMMA OwesFewer ==
  ASSUME NEW w, NEW s, NEW m, NEW t, NEW l, NEW rs, NEW rs2 \in SUBSET rs
  PROVE  Owes(w, m, t, s, l, rs2) <= Owes(w, m, t, s, l, rs)
  <1>1. HeldFor(rs2, w) => HeldFor(rs, w)
    BY DEF HeldFor
  <1>2. HeldElse(rs2, w) => HeldElse(rs, w)
    BY DEF HeldElse
  <1>3. Reached(w, t, s, rs2) => Reached(w, t, s, rs)
    BY DEF Reached
  <1>4. Beside(w, l, rs2) => Beside(w, l, rs)
    BY DEF Beside, Ending
  <1>5. Anew(w, m, t, s, rs2) => Anew(w, m, t, s, rs)
    BY <1>1, <1>2, <1>3 DEF Anew
  <1>6. QED
    BY <1>1, <1>4, <1>5, OwesLess

\* The settlement of a step: what is posted and still owed grows by the budget at most.
LEMMA FewStays ==
  ASSUME NEW w, NEW s, NEW p \in Seq(PostSet), NEW m, NEW t, NEW l, NEW rs, NEW b \in Nat,
         Few(w, p, m, t, s, l, rs, b), NEW p2 \in Seq(PostSet), NEW m2, NEW t2, NEW l2, NEW rs2, NEW b2 \in Nat,
         Count(p2, w) + Owes(w, m2, t2, s, l2, rs2) + b <= Count(p, w) + Owes(w, m, t, s, l, rs) + b2
  PROVE  Few(w, p2, m2, t2, s, l2, rs2, b2)
  <1>1. Count(p, w) \in Nat /\ Count(p2, w) \in Nat
    BY CountIs
  <1>2. Owes(w, m, t, s, l, rs) \in Nat /\ Owes(w, m2, t2, s, l2, rs2) \in Nat
    BY OwesIs
  <1>3. Allowed(w, s, b2) = Allowed(w, s, b) + (b2 - b) /\ Allowed(w, s, b) \in Nat
    BY DEF Allowed
  <1>4. QED
    BY <1>1, <1>2, <1>3 DEF Few

LEMMA FewInit ==
  ASSUME AttendanceInit
  PROVE  FewNow
  <1>1. posts = <<>> /\ memory = NoMessage /\ loop = Started /\ recaps = {} /\ recapFaults = 0 /\ edits = 0
    BY DEF AttendanceInit
  <1>2. SUFFICES ASSUME NEW w \in Nat
                 PROVE  Few(w, posts, memory, time, settings, loop, recaps, recapFaults + edits)
    BY DEF FewNow
  <1>3. Count(posts, w) = 0
    <2>1. MessagesOf(posts, w) = {}
      BY <1>1 DEF MessagesOf
    <2>2. QED
      BY <2>1, FS_EmptySet DEF Count
  <1>4. ~Beside(w, loop, recaps) /\ ~HeldFor(recaps, w)
    BY <1>1 DEF Beside, Ending, Started, HeldFor
  <1>5. CASE w % Day = settings.start
    <2>1. Owes(w, memory, time, settings, loop, recaps) = Bit(Anew(w, memory, time, settings, recaps)) + 0
      BY <1>4, <1>5, BitIs DEF Owes
    <2>2. Owes(w, memory, time, settings, loop, recaps) \in {0, 1}
      BY <2>1, BitIs
    <2>3. QED
      BY <1>1, <1>3, <1>5, <2>2 DEF Few, Allowed
  <1>6. CASE w % Day # settings.start
    <2>1. Owes(w, memory, time, settings, loop, recaps) = 0
      BY <1>4, <1>6, BitIs DEF Owes
    <2>2. QED
      BY <1>1, <1>3, <1>6, <2>1 DEF Few, Allowed
  <1>7. QED
    BY <1>5, <1>6

\* An evening and the gap after it last two units or more, so no start follows an end at once.
LEMMA NoNeighbour ==
  ASSUME NEW s, GoodTimes(s), NEW e \in Nat, IsEnd(e, s), NEW w \in Nat, w % Day = s.start
  PROVE  w # e + 1 /\ w - 1 + Day # e
  <1>1. Day \in Nat /\ Day >= 2 /\ s.start \in 0..(Day - 1) /\ s.end \in 0..(Day - 1)
    BY DayLasts
  <1>0. \A t \in Nat : \E q \in Nat, r \in 0..(Day - 1) : t = Day * q + r /\ t \div Day = q /\ t % Day = r
    <2>1. Day \in Nat \ {0}
      BY <1>1
    <2>2. QED
      BY ONLY <2>1, Quotient
  <1>2. (s.end - s.start) % Day \in 2..(Day - 2)
    BY ScheduleAssumption DEF GoodTimes
  <1>3. ASSUME NEW v \in Nat, v % Day = s.start PROVE v # e + 1
    <2>1. SUFFICES ASSUME v = e + 1 PROVE FALSE
      OBVIOUS
    <2>2. PICK q \in Nat, c \in 0..(Day - 1) : e = Day * q + c /\ e % Day = c
      BY ONLY <1>0, e \in Nat
    <2>3. c = s.end
      BY <2>2 DEF IsEnd
    <2>4. CASE c = Day - 1
      <3> DEFINE p == q + 1
                 x == Day * q
      <3>1. Day * p = x + Day /\ x \in Nat /\ p \in Int
        BY <1>1
      <3> HIDE DEF p
      <3>2. v = Day * p + 0
        BY <1>1, <2>1, <2>2, <2>4, <3>1
      <3>3. (Day * p + 0) % Day = 0
        BY <1>1, <3>1, <3>2, ClockOf
      <3>4. s.start = 0
        BY <1>3, <3>2, <3>3
      <3>5. s.end - s.start = Day - 1
        BY <1>1, <2>3, <2>4, <3>4
      <3>6. (Day - 1) % Day = Day - 1
        BY <1>1
      <3>7. QED
        BY <1>1, <1>2, <3>5, <3>6
    <2>5. CASE c # Day - 1
      <3> DEFINE d == c + 1
                 x == Day * q
      <3>1. d \in 0..(Day - 1) /\ x \in Nat
        BY <1>1, <2>5
      <3>2. v = x + d
        BY <1>1, <2>1, <2>2
      <3> HIDE DEF d
      <3>3. (x + d) % Day = d
        BY <1>1, <3>1, <3>2, ClockOf
      <3>4. s.start = d
        BY <1>3, <3>2, <3>3
      <3>5. s.end - s.start = -1
        BY <1>1, <2>3, <3>4 DEF d
      <3>6. (-1) % Day = Day - 1
        BY <1>1
      <3>7. QED
        BY <1>1, <1>2, <3>5, <3>6
    <2>6. QED
      BY <2>4, <2>5
  <1>4. (w + Day) % Day = s.start /\ w + Day \in Nat
    <2>1. (w + Day) % Day = w % Day
      BY <1>1, NextDay
    <2>2. QED
      BY <1>1, <2>1
  <1>5. w + Day # e + 1
    BY <1>3, <1>4
  <1>6. QED
    BY <1>1, <1>3, <1>5

LEMMA DayIsLong ==
  ASSUME NEW s, GoodTimes(s)
  PROVE  Day >= 4 /\ Day \in Nat
  <1>1. Day \in Nat /\ (s.end - s.start) % Day \in 2..(Day - 2)
    BY DayLasts, ScheduleAssumption DEF GoodTimes
  <1>2. QED
    BY <1>1

\* A load of the schedule: the end it may wait for is not beside an evening of it.
LEMMA OwesLoads ==
  ASSUME TimesFit, LoadTimes, NEW w \in Nat
  PROVE  Owes(w, memory, time, settings, loop', recaps') <= Owes(w, memory, time, settings, loop, recaps)
  <1>1. loop.pc = "loading" /\ time \in Nat /\ Day <= time /\ GoodTimes(settings) /\ ClockFits
    BY DEF LoadTimes, TimesFit, ClockFits
  <1>2. \/ loop' = Armed(loop, time, settings) /\ recaps' = recaps
        \/ /\ loop'.pc = "updating" /\ loop'.at = time /\ loop'.times = settings
           /\ recaps' = recaps \cup {Call("live")}
    BY DEF LoadTimes
  <1> DEFINE n == NextBoundary(time, settings)
  <1>3. n.runAt \in Nat /\ (n.command = "end" => IsEnd(n.runAt, settings))
    BY <1>1, BoundaryIs
  <1> HIDE DEF n
  <1>4. PICK c : c = Call("live")
    OBVIOUS
  <1>5. c.kind = "live" /\ c.at = time /\ c.pc = "waiting"
    BY <1>1, <1>4, CallIs
  <1>6. \A r \in recaps' : r \in recaps \/ r = c
    BY <1>2, <1>4
  <1>7. ASSUME w % Day = settings.start, Beside(w, loop', recaps') PROVE Beside(w, loop, recaps)
    <2>1. ASSUME NEW e \in {w - 1, w - 1 + Day}, Ending(e, loop', recaps') PROVE Ending(e, loop, recaps)
      <3>1. CASE \E r \in recaps' : r.kind = "final" /\ r.pc = "waiting" /\ r.at = e
        BY <1>5, <1>6, <3>1 DEF Ending
      <3>2. ASSUME n.command = "end", n.runAt = e PROVE FALSE
        <4>1. e \in Nat /\ IsEnd(e, settings)
          BY <1>3, <3>2
        <4>2. w # e + 1 /\ w - 1 + Day # e
          BY <1>1, <1>7, <4>1, NoNeighbour
        <4>3. QED
          BY <2>1, <4>1, <4>2
      <3>3. CASE loop'.pc = "armed" /\ loop'.command = "end" /\ loop'.runAt = e
        <4>1. loop' = Armed(loop, time, settings)
          BY <1>2, <3>3
        <4>2. loop'.command = n.command /\ loop'.runAt = n.runAt
          BY <1>1, <4>1, ArmedIs DEF n
        <4>3. QED
          BY <3>2, <3>3, <4>2
      <3>4. CASE loop'.pc = "updating" /\ NextBoundary(loop'.at, loop'.times) = [command |-> "end", runAt |-> e]
        <4>1. loop' # Armed(loop, time, settings)
          BY <1>1, <3>4, ArmedIs
        <4>2. NextBoundary(loop'.at, loop'.times) = n
          BY <1>2, <4>1 DEF n
        <4>3. QED
          BY <3>2, <3>4, <4>2
      <3>5. QED
        BY <2>1, <3>1, <3>3, <3>4 DEF Ending
    <2>2. QED
      BY <1>7, <2>1 DEF Beside
  <1>8. HeldFor(recaps', w) => HeldFor(recaps, w)
    BY <1>5, <1>6 DEF HeldFor
  <1>9. HeldElse(recaps', w) => HeldElse(recaps, w)
    BY <1>5, <1>6 DEF HeldElse
  <1>10. Reached(w, time, settings, recaps') => Reached(w, time, settings, recaps)
    <2>1. EveningStart(time, settings) \in Nat
      BY <1>1, EveningStartIs
    <2>2. ASSUME NEW r \in recaps', r.kind = "live", r.pc = "waiting", w = EveningStart(r.at, settings)
          PROVE  Reached(w, time, settings, recaps)
      <3>1. CASE r \in recaps
        BY <2>2, <3>1 DEF Reached
      <3>2. CASE r = c
        <4>1. w = EveningStart(time, settings)
          BY <1>5, <2>2, <3>2
        <4>2. QED
          BY <2>1, <4>1 DEF Reached
      <3>3. QED
        BY <1>6, <3>1, <3>2
    <2>3. QED
      BY <2>2 DEF Reached
  <1>11. Anew(w, memory, time, settings, recaps') => Anew(w, memory, time, settings, recaps)
    BY <1>8, <1>9, <1>10 DEF Anew
  <1>12. QED
    BY <1>7, <1>8, <1>11, OwesLess

\* The loop waits on, for an end that it was going to wait for.
LEMMA OwesWaits ==
  ASSUME TimesFit, LoadFails \/ LiveRecapReturns, NEW w \in Nat
  PROVE  Owes(w, memory, time, settings, loop', recaps') <= Owes(w, memory, time, settings, loop, recaps)
  <1>1. recaps' = recaps /\ time \in Nat
    BY DEF LoadFails, LiveRecapReturns, TimesFit, ClockFits
  <1>2. ASSUME NEW e \in Int, Ending(e, loop', recaps) PROVE Ending(e, loop, recaps)
    <2>1. CASE loop'.pc = "retrying"
      BY <1>2, <2>1 DEF Ending
    <2>2. CASE LiveRecapReturns
      <3>1. loop.pc = "updating" /\ loop' = Armed(loop, loop.at, loop.times)
        BY <2>2 DEF LiveRecapReturns
      <3>2. PICK at, times : at = loop.at /\ times = loop.times
        OBVIOUS
      <3>3. at \in Nat /\ at \in {time - 1, time} /\ GoodTimes(times)
        BY <3>1, <3>2 DEF TimesFit, LoopFits
      <3> DEFINE n == NextBoundary(at, times)
                 m == Armed(loop, at, times)
      <3>4. m.pc = "armed" /\ m.command = n.command /\ m.runAt = n.runAt /\ m.wake \in {time, time + 1}
        BY <1>1, <3>3, ArmedIs
      <3>5. n = [command |-> n.command, runAt |-> n.runAt]
        BY <3>3, BoundaryIs
      <3>6. loop' = m
        BY <3>1, <3>2
      <3>7. NextBoundary(loop.at, loop.times) = n
        BY <3>2
      <3> HIDE DEF m, n
      <3>8. CASE m.command = "end" /\ m.runAt = e /\ m.wake = e
        <4>1. n = [command |-> "end", runAt |-> e] /\ e <= at + 2
          BY <1>1, <3>3, <3>4, <3>5, <3>8
        <4>2. QED
          BY <3>1, <3>2, <3>7, <4>1 DEF Ending
      <3>9. QED
        BY <1>2, <3>4, <3>6, <3>8 DEF Ending
    <2>3. QED
      BY <2>1, <2>2 DEF LoadFails
  <1>3. w - 1 \in Int /\ w - 1 + Day \in Int
    <2>1. Day \in Nat
      BY ScheduleAssumption
    <2>2. QED
      BY <2>1
  <1>4. Beside(w, loop', recaps') => Beside(w, loop, recaps)
    BY <1>1, <1>2, <1>3 DEF Beside
  <1>5. QED
    BY <1>1, <1>4, OwesLess

\* The end that fires waits for the mutex from now on.
LEMMA OwesFires ==
  ASSUME TimesFit, TimerFires, NEW w \in Nat
  PROVE  Owes(w, memory, time, settings, loop', recaps') <= Owes(w, memory, time, settings, loop, recaps)
  <1>1. ClockFits /\ loop'.pc = "loading"
    BY DEF TimesFit, TimerFires, Loading
  <1>2. PICK c : c = Call("final")
    OBVIOUS
  <1>3. c.kind = "final" /\ c.at = time /\ c.pc = "waiting"
    BY <1>1, <1>2, CallIs
  <1>4. \/ recaps' = recaps
        \/ /\ recaps' = recaps \cup {c}
           /\ loop.pc = "armed" /\ loop.command = "end" /\ loop.runAt = time /\ loop.wake = time
    BY <1>2, FiresInTime DEF TimerFires
  <1>5. \A r \in recaps' : r \in recaps \/ r = c
    BY <1>4
  <1>6. ASSUME NEW e, Ending(e, loop', recaps') PROVE Ending(e, loop, recaps)
    <2>1. PICK r \in recaps' : r.kind = "final" /\ r.pc = "waiting" /\ r.at = e
      BY <1>1, <1>6 DEF Ending
    <2>2. CASE r \in recaps
      BY <2>1, <2>2 DEF Ending
    <2>3. CASE r \notin recaps
      BY <1>3, <1>4, <1>5, <2>1, <2>3 DEF Ending
    <2>4. QED
      BY <2>2, <2>3
  <1>7. Beside(w, loop', recaps') => Beside(w, loop, recaps)
    BY <1>6 DEF Beside
  <1>8. HeldFor(recaps', w) => HeldFor(recaps, w)
    BY <1>3, <1>5 DEF HeldFor
  <1>9. HeldElse(recaps', w) => HeldElse(recaps, w)
    BY <1>3, <1>5 DEF HeldElse
  <1>10. Reached(w, time, settings, recaps') => Reached(w, time, settings, recaps)
    BY <1>3, <1>5 DEF Reached
  <1>11. Anew(w, memory, time, settings, recaps') => Anew(w, memory, time, settings, recaps)
    BY <1>8, <1>9, <1>10 DEF Anew
  <1>12. QED
    BY <1>7, <1>8, <1>11, OwesLess

\* Evenings begin in the order of time, and the next one just now if at all.
LEMMA StartsInOrder ==
  ASSUME NEW s, GoodTimes(s), NEW t \in Nat, Day <= t, NEW u \in Nat, t <= u
  PROVE  LET x == EveningStart(t, s)
             y == EveningStart(u, s)
         IN  x <= y /\ (u <= t + 1 /\ x # y => u = t + 1 /\ y = u /\ y = x + Day)
  <1> DEFINE x == EveningStart(t, s)
             y == EveningStart(u, s)
  <1>1. Day \in Nat /\ Day >= 2
    BY DayLasts
  <1>2. x \in Nat /\ x <= t /\ t < x + Day /\ x % Day = s.start
    BY EveningStartIs
  <1>3. y \in Nat /\ y <= u /\ u < y + Day /\ y % Day = s.start
    BY <1>1, EveningStartIs
  <1> HIDE DEF x, y
  <1>4. x < y => x + Day <= y
    BY <1>1, <1>2, <1>3, SameClock
  <1>5. y < x => y + Day <= x
    BY <1>1, <1>2, <1>3, SameClock
  <1>6. x <= y
    BY <1>1, <1>2, <1>3, <1>5
  <1>7. u <= t + 1 /\ x # y => u = t + 1 /\ y = u /\ y = x + Day
    BY <1>1, <1>2, <1>3, <1>4, <1>6
  <1>8. QED
    BY <1>6, <1>7 DEF x, y

LEMMA OwesPasses ==
  ASSUME TimesFit, TimePasses, NEW w \in Nat
  PROVE  Owes(w, memory, time', settings, loop', recaps') <= Owes(w, memory, time, settings, loop, recaps)
  <1>1. /\ time \in Nat /\ Day <= time /\ GoodTimes(settings) /\ time' = time + 1 /\ loop' = loop
        /\ recaps' = {Older(r) : r \in recaps}
    BY DEF TimesFit, ClockFits, TimePasses, Older
  <1>2. \A r \in recaps : /\ Older(r).kind = r.kind /\ Older(r).at = r.at /\ Older(r).pc = r.pc
                          /\ Older(r).window = r.window
    BY StoredWindow, OlderIs
  <1>3. \A r \in recaps : r.at = time
    <2>1. ASSUME NEW r \in recaps PROVE r.at = time
      <3>1. r \in CallSet /\ r.at + r.age = time /\ r.age = 0 /\ r.at \in Nat
        BY DEF TimePasses, TimesFit, CallsFit, CallFits, CallSet
      <3>2. QED
        BY <3>1
    <2>2. QED
      BY <2>1
  <1>4. HeldFor(recaps', w) => HeldFor(recaps, w)
    BY <1>1, <1>2 DEF HeldFor
  <1>5. HeldElse(recaps', w) => HeldElse(recaps, w)
    BY <1>1, <1>2 DEF HeldElse
  <1>6. Beside(w, loop', recaps') => Beside(w, loop, recaps)
    BY <1>1, <1>2 DEF Beside, Ending
  <1>7. Reached(w, time', settings, recaps') => Reached(w, time, settings, recaps)
    <2>1. EveningStart(time, settings) \in Nat
      BY <1>1, EveningStartIs
    <2>2. CASE EveningStart(time + 1, settings) <= w
      <3>1. PICK u \in Nat : u = time + 1
        BY <1>1
      <3>2. EveningStart(time, settings) <= EveningStart(u, settings) /\ EveningStart(u, settings) \in Nat
        <4>1. time <= u /\ Day <= u
          BY <1>1, <3>1, DayLasts
        <4>2. QED
          BY <1>1, <4>1, StartsInOrder, EveningStartIs
      <3>3. EveningStart(time, settings) <= w
        BY <2>1, <2>2, <3>1, <3>2
      <3>4. QED
        BY <3>3 DEF Reached
    <2>3. CASE \E r \in recaps' : r.kind = "live" /\ r.pc = "waiting" /\ w = EveningStart(r.at, settings)
      <3>1. w = EveningStart(time, settings)
        BY <1>1, <1>2, <1>3, <2>3
      <3>2. QED
        BY <2>1, <3>1 DEF Reached
    <2>4. QED
      BY <1>1, <2>2, <2>3 DEF Reached
  <1>8. Anew(w, memory, time', settings, recaps') => Anew(w, memory, time, settings, recaps)
    BY <1>4, <1>5, <1>7 DEF Anew
  <1>9. QED
    BY <1>4, <1>6, <1>8, OwesLess

\* A call moves on and keeps its window.
LEMMA OwesStores ==
  ASSUME TimesFit, NEW r \in recaps, Store(r), NEW w \in Nat
  PROVE  Owes(w, memory, time, settings, loop, recaps') <= Owes(w, memory, time, settings, loop, recaps)
  <1> DEFINE q == Moved(r, "publishing")
  <1>1. recaps' = Replaced(recaps, r, q) /\ r.pc = "reading"
    BY DEF Store, Becomes, Replaced, Moved
  <1>2. q.pc = "publishing" /\ q.kind = r.kind /\ q.at = r.at /\ q.window = r.window
    BY StoredWindow, MovedIs
  <1> HIDE DEF q
  <1>3. \A p \in recaps' : p \in recaps \/ p = q
    BY <1>1 DEF Replaced
  <1>4. HeldFor(recaps', w) => HeldFor(recaps, w)
    BY <1>1, <1>2, <1>3 DEF HeldFor
  <1>5. HeldElse(recaps', w) => HeldElse(recaps, w)
    BY <1>1, <1>2, <1>3 DEF HeldElse
  <1>6. Beside(w, loop, recaps') => Beside(w, loop, recaps)
    BY <1>2, <1>3 DEF Beside, Ending
  <1>7. Reached(w, time, settings, recaps') => Reached(w, time, settings, recaps)
    BY <1>2, <1>3 DEF Reached
  <1>8. Anew(w, memory, time, settings, recaps') => Anew(w, memory, time, settings, recaps)
    BY <1>4, <1>5, <1>7 DEF Anew
  <1>9. QED
    BY <1>4, <1>6, <1>8, OwesLess

-----------------------------------------------------------------------------
\* What follows a final recap that was called a unit ago is not another one.
LEMMA EndsApart ==
  ASSUME TimesFit, CallsApart(recaps, loop, time), NEW r \in recaps, r.kind = "final", r.pc = "waiting",
         r.at = time - 1, NEW q, q.pc # "waiting", NEW e \in Int, e \in {r.at, r.at + Day, r.at - Day}
  PROVE  ~Ending(e, loop, Replaced(recaps, r, q))
  <1>1. /\ Day \in Nat /\ Day >= 4 /\ time \in Nat /\ LoopFits(loop, time) /\ r.at \in Nat
        /\ Past(r.at, loop, time)
    BY StoredWindow, DayIsLong DEF TimesFit, ClockFits, CallsApart
  <1>2. ASSUME NEW p \in Replaced(recaps, r, q), p.kind = "final", p.pc = "waiting", p.at = e PROVE FALSE
    <2>1. p \in recaps /\ p # r
      BY <1>2 DEF Replaced
    <2>2. p.at # r.at
      BY <1>2, <2>1 DEF CallsApart
    <2>3. p.at + p.age = time /\ p.age \in {0, 1} /\ p.at \in Nat
      BY <2>1 DEF TimesFit, CallsFit, CallFits, CallSet
    <2>4. QED
      BY <1>1, <1>2, <2>2, <2>3
  <1>3. ASSUME loop.pc = "armed", loop.runAt = e, loop.wake = e PROVE FALSE
    BY <1>1, <1>3 DEF LoopFits, Past
  <1>4. ASSUME loop.pc = "updating", NextBoundary(loop.at, loop.times) = [command |-> "end", runAt |-> e],
               e <= loop.at + 2
        PROVE  FALSE
    <2>1. PICK at, times : at = loop.at /\ times = loop.times
      OBVIOUS
    <2>2. at \in Nat /\ at \in {time - 1, time} /\ GoodTimes(times)
      BY <1>1, <1>4, <2>1 DEF LoopFits
    <2>3. at < NextBoundary(at, times).runAt
      BY <2>2, BoundaryIs
    <2>4. NextBoundary(at, times).runAt = e
      BY <1>4, <2>1
    <2>5. at < e /\ e <= at + 2 /\ r.at <= at
      BY <1>1, <1>4, <2>1, <2>3, <2>4 DEF Past, FiredBy
    <2>6. QED
      BY <1>1, <2>2, <2>5
  <1>5. QED
    BY <1>2, <1>3, <1>4 DEF Ending

\* The call that takes the mutex posts anew at the cost of its own evening, or is
\* the final recap that was charged with it while it waited.
LEMMA OwesTakes ==
  ASSUME TimesFit, CallsApart(recaps, loop, time), MemoryFits(memory, posts, loop, time),
         NEW r \in recaps, TakeMutex(r), NEW w \in Nat
  PROVE  Owes(w, memory, time, settings, loop, recaps') <= Owes(w, memory, time, settings, loop, recaps)
  <1> DEFINE v == AttendanceWindow(r.at, settings)
             q == Taken(r, v)
             x == EveningStart(r.at, settings)
             y == EveningStart(time, settings)
  <1>1. /\ time \in Nat /\ Day <= time /\ GoodTimes(settings) /\ Day \in Nat /\ LoopFits(loop, time)
        /\ r \in CallSet /\ r.at \in Nat /\ Day <= r.at /\ r.at \in {time - 1, time}
        /\ CallFits(r, time, loop) /\ Past(r.at, loop, time)
    <2>1. r \in CallSet /\ r.at \in Nat /\ r.at + r.age = time /\ r.age \in {0, 1} /\ CallFits(r, time, loop)
      BY DEF TimesFit, CallsFit, CallFits, CallSet
    <2>2. time \in Nat /\ r.at \in {time - 1, time}
      BY <2>1 DEF TimesFit, ClockFits
    <2>3. QED
      BY <2>1, <2>2, StoredWindow, ScheduleAssumption DEF TimesFit, ClockFits, CallsApart
  <1>2. v \in WindowSet /\ v.start = x
    BY <1>1, WindowIs DEF AttendanceWindow
  <1>3. recaps' = Replaced(recaps, r, q) /\ r.pc = "waiting" /\ \A p \in recaps : p.pc = "waiting"
    BY DEF TakeMutex, Becomes, Replaced, Taken
  <1>4. q.pc = "reading" /\ q.kind = r.kind /\ q.at = r.at /\ q.window = v
    BY <1>1, <1>2, TakenIs
  <1>5. x \in Nat /\ x <= r.at /\ x % Day = settings.start
    BY <1>1, EveningStartIs
  <1>6. y \in Nat /\ y <= time /\ time < y + Day /\ y % Day = settings.start
    BY <1>1, EveningStartIs
  <1>7. x <= y /\ (x # y => r.at = time - 1 /\ y = time /\ y = x + Day)
    BY <1>1, StartsInOrder
  <1> HIDE DEF v, x, y, q
  <1>8. q \in recaps' /\ \A p \in recaps' : p = q \/ (p \in recaps /\ p # r)
    BY <1>3 DEF Replaced
  <1>9. ~HeldFor(recaps, w) /\ ~HeldElse(recaps, w)
    BY <1>3 DEF HeldFor, HeldElse
  <1>10. (HeldFor(recaps', w) => w = x) /\ (HeldElse(recaps', w) => w # x)
    BY <1>2, <1>3, <1>4, <1>8 DEF HeldFor, HeldElse
  <1>11. Reached(w, time, settings, recaps') => Reached(w, time, settings, recaps)
    BY <1>4, <1>8 DEF Reached
  <1>12. \A e : Ending(e, loop, recaps') => Ending(e, loop, recaps)
    BY <1>4, <1>8 DEF Ending
  <1>13. ASSUME w % Day = settings.start, Anew(w, memory, time, settings, recaps'),
                ~Anew(w, memory, time, settings, recaps)
         PROVE  r.kind = "final" /\ r.at = time - 1 /\ r.at \in {w - 1, w - 1 + Day}
    <2>1. CASE w = x
      <3>1. ~Reached(w, time, settings, recaps)
        BY <1>9, <1>10, <1>13, <2>1 DEF Anew
      <3>2. r.kind = "final"
        <4>1. r.kind # "live"
          BY <1>3, <2>1, <3>1 DEF Reached, x
        <4>2. QED
          BY <1>1, <4>1 DEF CallSet
      <3>3. ~(y <= w)
        BY <3>1 DEF Reached, y
      <3>4. r.at = time - 1 /\ time = x + Day
        BY <1>5, <1>6, <1>7, <2>1, <3>3
      <3>5. QED
        BY <1>1, <1>5, <2>1, <3>2, <3>4
    <2>2. CASE w # x
      <3>1. Reached(w, time, settings, recaps') /\ Reached(w, time, settings, recaps) /\ Remembers(memory, w)
        BY <1>10, <1>11, <1>13, <2>2 DEF Anew
      <3>2. Past(w, loop, time)
        BY <3>1 DEF Remembers, MemoryFits
      <3>3. w <= time
        BY <1>1, <3>2 DEF Past, FiredBy, LoopFits
      <3>4. w = y /\ x # y /\ (r.kind = "live" => FALSE)
        <4>1. CASE y <= w
          <5>0. Day >= 2 /\ w % Day = y % Day /\ w < y + Day /\ y < w + Day
            BY <1>1, <1>6, <1>13, <3>3, <4>1, DayIsLong
          <5>1. w = y
            BY <1>1, <1>6, <5>0, OneOfADay
          <5>2. x # y
            BY <2>2, <5>1
          <5>3. r.at = time - 1 /\ w = time
            BY <1>7, <5>1, <5>2
          <5>4. ASSUME r.kind = "live" PROVE FALSE
            <6>1. loop.pc = "updating" /\ loop.at = r.at
              BY <1>1, <5>4 DEF CallFits
            <6>2. w <= r.at
              BY <3>2, <6>1 DEF Past, FiredBy
            <6>3. QED
              BY <1>1, <5>3, <6>2
          <5>5. QED
            BY <5>1, <5>2, <5>4
        <4>2. CASE \E p \in recaps' : p.kind = "live" /\ p.pc = "waiting" /\ w = EveningStart(p.at, settings)
          <5>1. PICK p \in recaps' : p.kind = "live" /\ p.pc = "waiting" /\ w = EveningStart(p.at, settings)
            BY <4>2
          <5>2. p \in recaps /\ p # r
            BY <1>4, <1>8, <5>1
          <5>3. loop.pc = "updating" /\ loop.at = p.at /\ p.at \in {time - 1, time}
            BY <1>1, <5>1, <5>2 DEF TimesFit, CallsFit, CallFits, LoopFits
          <5>4. p.at # r.at
            BY <2>2, <5>1 DEF x
          <5>5. r.at <= p.at
            BY <1>1, <5>3 DEF Past, FiredBy
          <5>6. p.at = time /\ r.at = time - 1
            BY <1>1, <5>3, <5>4, <5>5
          <5>7. w = y
            BY <5>1, <5>6 DEF y
          <5>8. r.kind # "live"
            BY <1>1, <5>3, <5>4 DEF CallFits
          <5>9. QED
            BY <2>2, <5>7, <5>8
        <4>3. QED
          BY <3>1, <4>1, <4>2 DEF Reached, y
      <3>5. r.at = time - 1 /\ w = time
        BY <1>7, <3>4
      <3>6. r.kind = "final"
        BY <1>1, <3>4 DEF CallSet
      <3>7. QED
        BY <1>1, <3>5, <3>6
    <2>3. QED
      BY <2>1, <2>2
  <1>14. CASE w % Day # settings.start
    <2>1. ~HeldFor(recaps', w)
      BY <1>5, <1>10, <1>14
    <2>2. QED
      BY <1>14, <2>1, OwesLess
  <1>15. CASE w % Day = settings.start
    <2>1. Beside(w, loop, recaps') => Beside(w, loop, recaps)
      BY <1>12 DEF Beside
    <2>2. CASE Anew(w, memory, time, settings, recaps') => Anew(w, memory, time, settings, recaps)
      <3>1. /\ Bit(Anew(w, memory, time, settings, recaps')) <= Bit(Anew(w, memory, time, settings, recaps))
            /\ Bit(Beside(w, loop, recaps')) <= Bit(Beside(w, loop, recaps))
        BY <2>1, <2>2 DEF Bit
      <3>2. QED
        BY <1>15, <3>1, BitIs DEF Owes
    <2>3. CASE Anew(w, memory, time, settings, recaps') /\ ~Anew(w, memory, time, settings, recaps)
      <3>1. r.kind = "final" /\ r.at = time - 1 /\ r.at \in {w - 1, w - 1 + Day}
        BY <1>13, <1>15, <2>3
      <3>2. Ending(r.at, loop, recaps)
        BY <1>3, <3>1 DEF Ending
      <3>3. Beside(w, loop, recaps)
        BY <3>1, <3>2 DEF Beside
      <3>4. ASSUME NEW e \in {w - 1, w - 1 + Day} PROVE ~Ending(e, loop, recaps')
        <4>1. e \in Int /\ e \in {r.at, r.at + Day, r.at - Day}
          BY <1>1, <3>1
        <4>2. ~Ending(e, loop, Replaced(recaps, r, q))
          BY <1>3, <1>4, <3>1, <4>1, EndsApart
        <4>3. QED
          BY <1>3, <4>2
      <3>5. ~Beside(w, loop, recaps')
        BY <3>4 DEF Beside
      <3>6. /\ Owes(w, memory, time, settings, loop, recaps')
                 = Bit(Anew(w, memory, time, settings, recaps')) + Bit(Beside(w, loop, recaps'))
            /\ Owes(w, memory, time, settings, loop, recaps)
                 = Bit(Anew(w, memory, time, settings, recaps)) + Bit(Beside(w, loop, recaps))
        BY <1>15 DEF Owes
      <3>7. /\ Bit(Anew(w, memory, time, settings, recaps')) = 1 /\ Bit(Beside(w, loop, recaps')) = 0
            /\ Bit(Anew(w, memory, time, settings, recaps)) = 0 /\ Bit(Beside(w, loop, recaps)) = 1
        BY <2>3, <3>3, <3>5 DEF Bit
      <3>8. QED
        BY <3>6, <3>7
    <2>4. QED
      BY <2>2, <2>3
  <1>16. QED
    BY <1>14, <1>15

\* Who publishes holds the mutex alone.
LEMMA OneHolds ==
  ASSUME CallsApart(recaps, loop, time), NEW r \in recaps, r.pc = "publishing", NEW w
  PROVE  /\ HeldFor(recaps, w) <=> w = r.window.start
         /\ HeldElse(recaps, w) <=> w # r.window.start
         /\ ~HeldFor(recaps \ {r}, w) /\ ~HeldElse(recaps \ {r}, w)
  <1>1. \A p \in recaps : p.pc # "waiting" => p = r
    BY DEF CallsApart
  <1>2. QED
    BY <1>1 DEF HeldFor, HeldElse

\* A message of its own is the one its window still had to get, or its answer is lost.
LEMMA CountsPublished ==
  ASSUME TimesFit, CallsApart(recaps, loop, time), MemoryFits(memory, posts, loop, time),
         NEW r \in recaps, Publish(r), NEW w \in Nat
  PROVE  Count(posts', w) + Owes(w, memory', time, settings, loop, recaps')
           <= Count(posts, w) + Owes(w, memory, time, settings, loop, recaps)
  <1> DEFINE x == Message(r)
             u == r.window.start
             c == Count(posts, w)
             o == Owes(w, memory, time, settings, loop, recaps)
             o2 == Owes(w, memory', time, settings, loop, recaps')
  <1>1. /\ r \in CallSet /\ x \in PostSet /\ x.window = u /\ u \in Nat /\ posts \in Seq(PostSet)
        /\ r.pc = "publishing" /\ recaps' = recaps \ {r} /\ recaps' \in SUBSET recaps
    BY StoredWindow, MessageIs DEF Publish, MemoryFits, Ends
  <1>2. /\ HeldFor(recaps, w) <=> w = u
        /\ HeldElse(recaps, w) <=> w # u
        /\ ~HeldFor(recaps', w) /\ ~HeldElse(recaps', w)
    BY <1>1, OneHolds
  <1>3. c \in Nat /\ o \in Nat /\ o2 \in Nat
    BY <1>1, CountIs, OwesIs
  <1> HIDE DEF x, u, c, o, o2
  <1>4. CASE IsNew(r)
    <2>1. posts' = Append(posts, x) /\ memory'.message = Len(posts) + 1 /\ memory'.window = u
      BY <1>4 DEF Publish, x, u
    <2>2. ~Remembers(memory, u) /\ Remembers(memory', u) /\ (w # u => ~Remembers(memory', w))
      BY <1>1, <1>4, <2>1 DEF IsNew, Remembers, u
    <2>3. Count(posts', w) = IF u = w THEN c + 1 ELSE c
      BY <1>1, <2>1, CountAppended DEF c
    <2>4. CASE w = u
      <3>1. Anew(w, memory, time, settings, recaps) /\ ~Anew(w, memory', time, settings, recaps')
        BY <1>2, <2>2, <2>4 DEF Anew
      <3>2. Beside(w, loop, recaps') => Beside(w, loop, recaps)
        BY <1>1 DEF Beside, Ending
      <3>3. o2 + 1 <= o
        <4>1. CASE w % Day = settings.start
          <5>1. /\ Bit(Anew(w, memory, time, settings, recaps)) = 1 /\ Bit(Anew(w, memory', time, settings, recaps')) = 0
                /\ Bit(Beside(w, loop, recaps')) <= Bit(Beside(w, loop, recaps))
            BY <3>1, <3>2 DEF Bit
          <5>2. QED
            BY <4>1, <5>1, BitIs DEF Owes, o, o2
        <4>2. CASE w % Day # settings.start
          BY <1>2, <2>2, <2>4, <4>2 DEF Owes, Bit, o, o2
        <4>3. QED
          BY <4>1, <4>2
      <3>4. QED
        BY <1>3, <2>3, <2>4, <3>3 DEF c, o, o2
    <2>5. CASE w # u
      <3>1. Reached(w, time, settings, recaps') => Reached(w, time, settings, recaps)
        BY <1>1 DEF Reached
      <3>2. Anew(w, memory', time, settings, recaps') => Anew(w, memory, time, settings, recaps)
        BY <1>2, <2>5, <3>1 DEF Anew
      <3>3. Beside(w, loop, recaps') => Beside(w, loop, recaps)
        BY <1>1 DEF Beside, Ending
      <3>4. o2 <= o
        BY <1>2, <3>2, <3>3, OwesLess DEF o, o2
      <3>5. QED
        BY <1>3, <2>3, <2>5, <3>4 DEF c, o, o2
    <2>6. QED
      BY <2>4, <2>5
  <1>5. CASE ~IsNew(r)
    <2> DEFINE n == memory.message
    <2>1. n \in 1..Len(posts) /\ posts[n].window = x.window
      BY <1>1, <1>5 DEF IsNew, MemoryFits, u
    <2>2. posts' = Redone(posts, n, x) /\ memory' = memory
      BY <1>5 DEF Publish, Redone, x
    <2> HIDE DEF n
    <2>3. Count(posts', w) = c
      BY <1>1, <2>1, <2>2, CountRedone DEF c
    <2>4. o2 <= o
      BY <1>1, <2>2, OwesFewer DEF o, o2
    <2>5. QED
      BY <1>3, <2>3, <2>4 DEF c, o, o2
  <1>6. QED
    BY <1>4, <1>5

LEMMA CountsLost ==
  ASSUME TimesFit, MemoryFits(memory, posts, loop, time), NEW r \in recaps, LoseAnswer(r), NEW w \in Nat
  PROVE  Count(posts', w) + Owes(w, memory, time, settings, loop, recaps')
           <= Count(posts, w) + Owes(w, memory, time, settings, loop, recaps) + 1
  <1> DEFINE x == Message(r)
             c == Count(posts, w)
             o == Owes(w, memory, time, settings, loop, recaps)
             o2 == Owes(w, memory, time, settings, loop, recaps')
  <1>1. /\ r \in CallSet /\ x \in PostSet /\ x.window = r.window.start /\ posts \in Seq(PostSet)
        /\ recaps' = recaps \ {r} /\ recaps' \in SUBSET recaps
    BY StoredWindow, MessageIs DEF LoseAnswer, MemoryFits, Ends
  <1>2. c \in Nat /\ o \in Nat /\ o2 \in Nat
    BY <1>1, CountIs, OwesIs
  <1>3. o2 <= o
    BY <1>1, OwesFewer
  <1> HIDE DEF x, c, o, o2
  <1>4. Count(posts', w) \in {c, c + 1}
    <2>1. CASE IsNew(r)
      <3>1. posts' = Append(posts, x)
        BY <2>1 DEF LoseAnswer, x
      <3>2. QED
        BY <1>1, <3>1, CountAppended DEF c
    <2>2. CASE ~IsNew(r)
      <3> DEFINE n == memory.message
      <3>1. n \in 1..Len(posts) /\ posts[n].window = x.window
        BY <1>1, <2>2 DEF IsNew, MemoryFits
      <3>2. posts' = Redone(posts, n, x)
        BY <2>2 DEF LoseAnswer, Redone, x
      <3> HIDE DEF n
      <3>3. QED
        BY <1>1, <3>1, <3>2, CountRedone DEF c
    <2>3. QED
      BY <2>1, <2>2
  <1>5. QED
    BY <1>2, <1>3, <1>4 DEF c, o, o2

\* A new schedule may begin its evenings at another time.
LEMMA FewEdited ==
  ASSUME TimesFit, NEW s, settings' = s, GoodTimes(s), posts \in Seq(PostSet), NEW w \in Nat, NEW b \in Nat,
         Few(w, posts, memory, time, settings, loop, recaps, b)
  PROVE  Few(w, posts, memory, time, s, loop, recaps, b + 1)
  <1> DEFINE c == Count(posts, w)
             o == Owes(w, memory, time, settings, loop, recaps)
             o2 == Owes(w, memory, time, s, loop, recaps)
  <1>1. c \in Nat /\ o \in {0, 1, 2} /\ o2 \in {0, 1, 2} /\ (w % Day # s.start => o2 \in {0, 1})
    BY CountIs, OwesIs
  <1>2. c + o <= Allowed(w, settings, b)
    BY DEF Few
  <1> HIDE DEF c, o, o2
  <1>3. CASE w % Day = s.start /\ w % Day = settings.start
    <2>1. s.start = settings.start
      BY <1>3
    <2>2. \A t : EveningStart(t, s) = EveningStart(t, settings)
      BY <2>1 DEF EveningStart
    <2>3. Anew(w, memory, time, s, recaps) <=> Anew(w, memory, time, settings, recaps)
      BY <2>2 DEF Anew, Reached
    <2>4. o2 = o
      BY <1>3, <2>3 DEF Owes, Bit, o, o2
    <2>5. c + o2 <= Allowed(w, s, b + 1)
      BY <1>1, <1>2, <1>3, <2>4 DEF Allowed
    <2>6. QED
      BY <2>5 DEF Few, c, o2
  <1>4. CASE w % Day = s.start /\ w % Day # settings.start
    <2>1. c + o2 <= Allowed(w, s, b + 1)
      BY <1>1, <1>2, <1>4 DEF Allowed
    <2>2. QED
      BY <2>1 DEF Few, c, o2
  <1>5. CASE w % Day # s.start /\ w % Day = settings.start
    <2>1. HeldFor(recaps, w) /\ ~Remembers(memory, w) => Anew(w, memory, time, settings, recaps)
      BY DEF Anew
    <2>2. o2 <= o
      <3>1. o2 = Bit(HeldFor(recaps, w) /\ ~Remembers(memory, w))
        BY <1>5 DEF Owes, o2
      <3>2. o = Bit(Anew(w, memory, time, settings, recaps)) + Bit(Beside(w, loop, recaps))
        BY <1>5 DEF Owes, o
      <3>3. Bit(HeldFor(recaps, w) /\ ~Remembers(memory, w)) <= Bit(Anew(w, memory, time, settings, recaps))
        BY <2>1 DEF Bit
      <3>4. QED
        BY <3>1, <3>2, <3>3, BitIs
    <2>3. c + o2 <= Allowed(w, s, b + 1)
      BY <1>1, <1>2, <1>5, <2>2 DEF Allowed
    <2>4. QED
      BY <2>3 DEF Few, c, o2
  <1>6. CASE w % Day # s.start /\ w % Day # settings.start
    <2>1. o2 = o
      BY <1>6 DEF Owes, o, o2
    <2>2. c + o2 <= Allowed(w, s, b + 1)
      BY <1>1, <1>2, <1>6, <2>1 DEF Allowed
    <2>3. QED
      BY <2>2 DEF Few, c, o2
  <1>7. QED
    BY <1>3, <1>4, <1>5, <1>6

\* A restart forgets the message, and all the calls.
LEMMA OwesRestarts ==
  ASSUME Restart, NEW w \in Nat
  PROVE  Owes(w, memory', time, settings, loop', recaps') <= 1
  <1>1. loop'.pc = "loading" /\ recaps' = {}
    BY DEF Restart, Started
  <1>2. ~Beside(w, loop', recaps') /\ ~HeldFor(recaps', w)
    BY <1>1 DEF Beside, Ending, HeldFor
  <1>3. Bit(Beside(w, loop', recaps')) = 0 /\ Bit(HeldFor(recaps', w) /\ ~Remembers(memory', w)) = 0
    BY <1>2 DEF Bit
  <1>4. QED
    BY <1>3, BitIs DEF Owes

LEMMA FewStep ==
  ASSUME TimesFit, CallsApart(recaps, loop, time), MemoryFits(memory, posts, loop, time), FewNow,
         [AttendanceNext]_attendanceVars
  PROVE  FewNow'
  <1> DEFINE b == recapFaults + edits
  <1>0. recapFaults \in Nat /\ edits \in Nat
    BY DEF TimesFit, ClockFits
  <1>8. recapFaults' \in {recapFaults, recapFaults + 1} /\ edits' \in {edits, edits + 1}
    BY DEF AttendanceNext, attendanceVars, LoadTimes, LoadFails, LiveRecapReturns, TimerFires, Recap, TakeMutex,
           Store, Publish, RecapFails, LoseAnswer, Restart, EditSchedule, TimePasses, Fault
  <1>1. recapFaults \in Nat /\ edits \in Nat /\ b \in Nat /\ posts \in Seq(PostSet) /\ posts' \in Seq(PostSet)
    BY <1>0, MemoryStep DEF MemoryFits
  <1>4. PICK b2 \in Nat : b2 = recapFaults' + edits' /\ b <= b2
    <2>1. ASSUME NEW f \in {0, 1}, NEW e \in {0, 1}, recapFaults' = recapFaults + f, edits' = edits + e
          PROVE  \E k \in Nat : k = recapFaults' + edits' /\ b <= k
      <3>1. recapFaults + f + (edits + e) \in Nat /\ b <= recapFaults + f + (edits + e)
        BY <1>0
      <3>2. QED
        BY <2>1, <3>1
    <2>2. \E f, e \in {0, 1} : recapFaults' = recapFaults + f /\ edits' = edits + e
      <3>1. recapFaults = recapFaults + 0 /\ edits = edits + 0
        BY <1>0
      <3>2. QED
        BY <1>8, <3>1
    <2>3. QED
      BY <2>1, <2>2
  <1>2. SUFFICES ASSUME NEW w \in Nat PROVE Few(w, posts', memory', time', settings', loop', recaps', b2)
    BY <1>4 DEF FewNow
  <1>3. Few(w, posts, memory, time, settings, loop, recaps, b)
    BY DEF FewNow
  <1> DEFINE c == Count(posts, w)
             o == Owes(w, memory, time, settings, loop, recaps)
             o2 == Owes(w, memory', time', settings, loop', recaps')
  <1>5. c \in Nat /\ o \in Nat /\ o2 \in Nat
    BY <1>1, CountIs, OwesIs
  <1>6. ASSUME settings' = settings, Count(posts', w) + o2 + b <= c + o + b2
        PROVE  Few(w, posts', memory', time', settings', loop', recaps', b2)
    <2> HIDE DEF b
    <2>1. Few(w, posts', memory', time', settings, loop', recaps', b2)
      BY <1>1, <1>3, <1>4, <1>6, FewStays DEF b
    <2>2. QED
      BY <1>6, <2>1
  <1>7. ASSUME settings' = settings, posts' = posts, o2 <= o, b <= b2
        PROVE  Few(w, posts', memory', time', settings', loop', recaps', b2)
    <2>1. Count(posts', w) = c
      BY <1>7
    <2> HIDE DEF b, c, o, o2
    <2>2. b \in Nat
      BY <1>1 DEF b
    <2>3. Count(posts', w) + o2 + b <= c + o + b2
      BY <1>4, <1>5, <1>7, <2>1, <2>2
    <2>4. QED
      BY <1>6, <1>7, <2>3
  <1>9. b <= b2
    BY <1>4
  <1>10. CASE LoadTimes
    <2>1. UNCHANGED <<posts, settings, memory, time>>
      BY <1>10 DEF LoadTimes
    <2>2. o2 <= o
      BY <1>10, <2>1, OwesLoads
    <2>3. QED
      BY <1>7, <1>9, <2>1, <2>2
  <1>11. CASE LoadFails \/ LiveRecapReturns
    <2>1. UNCHANGED <<posts, settings, memory, time>>
      BY <1>11 DEF LoadFails, LiveRecapReturns
    <2>2. o2 <= o
      BY <1>11, <2>1, OwesWaits
    <2>3. QED
      BY <1>7, <1>9, <2>1, <2>2
  <1>12. CASE TimerFires
    <2>1. UNCHANGED <<posts, settings, memory, time>>
      BY <1>12 DEF TimerFires
    <2>2. o2 <= o
      BY <1>12, <2>1, OwesFires
    <2>3. QED
      BY <1>7, <1>9, <2>1, <2>2
  <1>13. CASE TimePasses
    <2>1. UNCHANGED <<posts, settings, memory>>
      BY <1>13 DEF TimePasses
    <2>2. o2 <= o
      BY <1>13, <2>1, OwesPasses
    <2>3. QED
      BY <1>7, <1>9, <2>1, <2>2
  <1>14. ASSUME NEW r \in recaps, TakeMutex(r) \/ Store(r) \/ RecapFails(r)
         PROVE  Few(w, posts', memory', time', settings', loop', recaps', b2)
    <2>1. UNCHANGED <<posts, settings, memory, time, loop>>
      BY <1>14 DEF TakeMutex, Store, RecapFails
    <2>2. o2 <= o
      <3>1. CASE TakeMutex(r)
        BY <2>1, <3>1, OwesTakes
      <3>2. CASE Store(r)
        BY <2>1, <3>2, OwesStores
      <3>3. CASE RecapFails(r)
        <4>1. recaps' \in SUBSET recaps
          BY <3>3 DEF RecapFails, Ends
        <4>2. QED
          BY <2>1, <4>1, OwesFewer
      <3>4. QED
        BY <1>14, <3>1, <3>2, <3>3
    <2>3. QED
      BY <1>7, <1>9, <2>1, <2>2
  <1>15. ASSUME NEW r \in recaps, Publish(r)
         PROVE  Few(w, posts', memory', time', settings', loop', recaps', b2)
    <2>1. UNCHANGED <<settings, time, loop, recapFaults, edits>>
      BY <1>15 DEF Publish
    <2>2. Count(posts', w) + o2 <= c + o
      BY <1>15, <2>1, CountsPublished
    <2>3. Count(posts', w) \in Nat
      BY <1>1, CountIs
    <2>4. b2 = b
      BY <1>4, <2>1
    <2> HIDE DEF b, c, o, o2
    <2>5. Count(posts', w) + o2 + b <= c + o + b2
      BY <1>4, <1>5, <2>2, <2>3, <2>4
    <2>6. QED
      BY <1>6, <2>1, <2>5
  <1>16. ASSUME NEW r \in recaps, LoseAnswer(r)
         PROVE  Few(w, posts', memory', time', settings', loop', recaps', b2)
    <2>1. UNCHANGED <<settings, time, loop, memory, edits>> /\ recapFaults' = recapFaults + 1
      BY <1>16 DEF LoseAnswer, Fault
    <2>2. Count(posts', w) + o2 <= c + o + 1
      BY <1>16, <2>1, CountsLost
    <2>3. Count(posts', w) \in Nat
      BY <1>1, CountIs
    <2>4. b2 = b + 1 /\ b \in Nat
      BY <1>1, <1>4, <2>1
    <2> HIDE DEF b, c, o, o2
    <2>5. Count(posts', w) + o2 + b <= c + o + b2
      BY <1>5, <2>2, <2>3, <2>4
    <2>6. QED
      BY <1>6, <2>1, <2>5
  <1>17. CASE Restart
    <2>1. UNCHANGED <<settings, time, posts, edits>> /\ recapFaults' = recapFaults + 1
      BY <1>17 DEF Restart, Fault
    <2>2. o2 <= 1 /\ Count(posts', w) = c
      BY <1>17, <2>1, OwesRestarts
    <2>3. b2 = b + 1 /\ b \in Nat
      BY <1>1, <1>4, <2>1
    <2> HIDE DEF b, c, o, o2
    <2>4. Count(posts', w) + o2 + b <= c + o + b2
      BY <1>5, <2>2, <2>3
    <2>5. QED
      BY <1>6, <2>1, <2>4
  <1>18. ASSUME NEW s \in Schedules, EditSchedule(s)
         PROVE  Few(w, posts', memory', time', settings', loop', recaps', b2)
    <2>1. /\ UNCHANGED <<posts, memory, time, loop, recaps, recapFaults>> /\ settings' = s /\ edits' = edits + 1
          /\ GoodTimes(s)
      BY <1>18 DEF EditSchedule, GoodTimes
    <2>2. b2 = b + 1
      BY <1>1, <1>4, <2>1
    <2> HIDE DEF b
    <2>3. b \in Nat
      BY <1>1 DEF b
    <2>4. Few(w, posts, memory, time, s, loop, recaps, b + 1)
      BY <1>1, <1>3, <2>1, <2>3, FewEdited DEF b
    <2>5. QED
      BY <2>1, <2>2, <2>4
  <1>19. CASE UNCHANGED attendanceVars
    <2>1. /\ time' = time /\ settings' = settings /\ loop' = loop /\ recaps' = recaps /\ memory' = memory
          /\ posts' = posts /\ recapFaults' = recapFaults /\ edits' = edits
      BY <1>19 DEF attendanceVars
    <2>2. b2 = b
      BY <1>4, <2>1
    <2> HIDE DEF b
    <2>3. QED
      BY <1>3, <2>1, <2>2
  <1>20. QED
    BY <1>10, <1>11, <1>12, <1>13, <1>14, <1>15, <1>16, <1>17, <1>18, <1>19 DEF AttendanceNext, Recap

-----------------------------------------------------------------------------
\* The final result of an evening is shown, or a call that will show it is under way.
ShowsResult(p, w) == \E n \in DOMAIN p : p[n] = [window |-> w.start, final |-> TRUE]
Brings(r, w) == r.kind = "final" /\ r.at = w.finish /\ (r.pc = "waiting" \/ r.window = w)
Brought(w, t, s, l, rs) ==
  /\ w.finish \in {t - 1, t} /\ IsEnd(w.finish, s) /\ w = EveningOf(w.finish, s)
  /\ (w.finish = t /\ LoopCarries(l, t)) \/ \E r \in rs : Brings(r, w)

\* A final result is that of an evening that is past, and a live one of one that is not.
FinalsFit(p, s, l, t) ==
  \A n \in DOMAIN p :
    p[n].final => EveningEnd(p[n].window, s) \in Nat /\ Past(EveningEnd(p[n].window, s), l, t)
LivesFit(rs, s) ==
  \A r \in rs :
    r.kind = "live" => /\ r.window = AttendanceWindow(r.at, s)
                       /\ r.at < EveningEnd(EveningStart(r.at, s), s)
ResultsFit(p, es, t, s, l, rs) ==
  /\ \A w \in es : ShowsResult(p, w) \/ Brought(w, t, s, l, rs)
  /\ FinalsFit(p, s, l, t)
  /\ LivesFit(rs, s)

LEMMA EndsNow ==
  ASSUME NEW s, GoodTimes(s), NEW t \in Nat, Day <= t, IsEnd(t, s)
  PROVE  EveningEnd(EveningStart(t, s), s) = t
  <1> DEFINE x == EveningStart(t, s)
             y == EveningEnd(x, s)
  <1>1. Day \in Nat /\ Day >= 2
    BY DayLasts
  <1>2. x \in Nat /\ x <= t /\ t < x + Day /\ x % Day = s.start
    BY EveningStartIs
  <1> HIDE DEF x
  <1>3. y \in Nat /\ x < y /\ y < x + Day /\ y % Day = s.end
    BY <1>2, EveningEndIs
  <1> HIDE DEF y
  <1>4. y % Day = t % Day /\ y < t + Day /\ t < y + Day
    BY <1>1, <1>2, <1>3 DEF IsEnd
  <1>5. y = t
    BY <1>1, <1>3, <1>4, OneOfADay
  <1>6. QED
    BY <1>5 DEF x, y

LEMMA ResultsInit ==
  ASSUME AttendanceInit
  PROVE  ResultsFit(posts, ended, time, settings, loop, recaps)
  BY DEF AttendanceInit, ResultsFit, FinalsFit, LivesFit

\* The other conjuncts stay where no message changes and no call begins.
LEMMA FinalsStay ==
  ASSUME TimesFit, [AttendanceNext]_attendanceVars, posts' = posts, settings' = settings,
         FinalsFit(posts, settings, loop, time)
  PROVE  FinalsFit(posts', settings', loop', time')
  <1>1. SUFFICES ASSUME NEW n \in DOMAIN posts, posts[n].final
                 PROVE  /\ EveningEnd(posts[n].window, settings) \in Nat
                        /\ Past(EveningEnd(posts[n].window, settings), loop', time')
    BY DEF FinalsFit
  <1>2. PICK e : e = EveningEnd(posts[n].window, settings)
    OBVIOUS
  <1>3. e \in Nat /\ Past(e, loop, time)
    BY <1>1, <1>2 DEF FinalsFit
  <1>4. Past(e, loop', time')
    BY <1>3, PastStays
  <1>5. QED
    BY <1>2, <1>3, <1>4

\* The clock does not pass an end that the loop carries.
LEMMA FiresFirst ==
  ASSUME TimesFit, TimePasses
  PROVE  ~LoopCarries(loop, time)
  <1>1. SUFFICES ASSUME LoopCarries(loop, time) PROVE FALSE
    OBVIOUS
  <1>2. /\ loop.pc \in {"armed", "retrying"} => time < loop.wake
        /\ loop.pc = "updating" => \E r \in recaps : r.kind = "live"
        /\ \A r \in recaps : r.age = 0
        /\ time \in Nat /\ LoopFits(loop, time)
    BY DEF TimePasses, TimesFit, ClockFits
  <1>3. CASE loop.pc = "armed" /\ loop.runAt = time
    BY <1>2, <1>3 DEF LoopFits
  <1>4. CASE loop.pc = "updating" /\ NextBoundary(loop.at, loop.times) = [command |-> "end", runAt |-> time]
    <2>1. PICK r \in recaps : r.kind = "live"
      BY <1>2, <1>4
    <2>2. loop.at = r.at /\ r.at + r.age = time /\ r.age = 0 /\ r.at \in Nat
      BY <1>2, <2>1 DEF TimesFit, CallsFit, CallFits, CallSet
    <2>3. PICK s : s = loop.times
      OBVIOUS
    <2>4. GoodTimes(s) /\ loop.at = time /\ NextBoundary(time, s).runAt = time
      BY <1>2, <1>4, <2>2, <2>3 DEF LoopFits
    <2>5. time < NextBoundary(time, s).runAt
      BY <1>2, <2>4, BoundaryIs
    <2>6. QED
      BY <1>2, <2>4, <2>5
  <1>5. QED
    BY <1>1, <1>3, <1>4 DEF LoopCarries

LEMMA ResultsLoad ==
  ASSUME TimesFit, LoadTimes, ResultsFit(posts, ended, time, settings, loop, recaps)
  PROVE  ResultsFit(posts', ended', time', settings', loop', recaps')
  <1>1. /\ loop.pc = "loading" /\ UNCHANGED <<posts, ended, time, settings>>
        /\ \/ recaps' = recaps
           \/ /\ recaps' = recaps \cup {Call("live")}
              /\ ActiveWindow(time, settings)
    BY DEF LoadTimes
  <1>2. ClockFits
    BY DEF TimesFit
  <1>3. \A w : Brought(w, time, settings, loop, recaps) => Brought(w, time, settings, loop', recaps')
    BY <1>1 DEF Brought, LoopCarries
  <1>4. FinalsFit(posts', settings', loop', time')
    BY <1>1, FinalsStay DEF ResultsFit, AttendanceNext
  <1>5. PICK c : c = Call("live")
    OBVIOUS
  <1>6. c.at = time /\ c.window = AttendanceWindow(time, settings)
    BY <1>2, <1>5, CallIs
  <1>7. LivesFit(recaps', settings)
    BY <1>1, <1>5, <1>6 DEF ResultsFit, LivesFit, ActiveWindow
  <1>8. QED
    BY <1>1, <1>3, <1>4, <1>7 DEF ResultsFit

LEMMA ResultsReturn ==
  ASSUME TimesFit, LiveRecapReturns, ResultsFit(posts, ended, time, settings, loop, recaps)
  PROVE  ResultsFit(posts', ended', time', settings', loop', recaps')
  <1>1. /\ loop.pc = "updating" /\ UNCHANGED <<posts, ended, time, settings, recaps>>
        /\ loop' = Armed(loop, loop.at, loop.times) /\ time \in Nat
    BY DEF LiveRecapReturns, TimesFit, ClockFits
  <1>2. PICK at, times : at = loop.at /\ times = loop.times
    OBVIOUS
  <1>3. at \in Nat /\ at \in {time - 1, time} /\ GoodTimes(times)
    BY <1>1, <1>2 DEF TimesFit, LoopFits
  <1> DEFINE m == Armed(loop, at, times)
             n == NextBoundary(at, times)
  <1>4. m.pc = "armed" /\ m.command = n.command /\ m.runAt = n.runAt
    BY <1>1, <1>3, ArmedIs
  <1>5. loop' = m
    BY <1>1, <1>2
  <1>6. NextBoundary(loop.at, loop.times) = n
    BY <1>2
  <1> HIDE DEF m, n
  <1>7. LoopCarries(loop, time) => LoopCarries(loop', time)
    <2>1. SUFFICES ASSUME LoopCarries(loop, time) PROVE LoopCarries(loop', time)
      OBVIOUS
    <2>2. n = [command |-> "end", runAt |-> time]
      BY <1>1, <1>6, <2>1 DEF LoopCarries
    <2>3. m.command = "end" /\ m.runAt = time
      BY <1>4, <2>2
    <2>4. QED
      BY <1>4, <1>5, <2>3 DEF LoopCarries
  <1>8. \A w : Brought(w, time, settings, loop, recaps) => Brought(w, time, settings, loop', recaps)
    BY <1>7 DEF Brought
  <1>9. FinalsFit(posts', settings', loop', time')
    BY <1>1, FinalsStay DEF ResultsFit, AttendanceNext
  <1>10. QED
    BY <1>1, <1>8, <1>9 DEF ResultsFit

LEMMA ResultsFire ==
  ASSUME TimesFit, TimerFires, ResultsFit(posts, ended, time, settings, loop, recaps)
  PROVE  ResultsFit(posts', ended', time', settings', loop', recaps')
  <1>1. /\ loop.pc \in {"armed", "retrying"} /\ UNCHANGED <<posts, ended, time, settings>>
        /\ IF loop.pc = "retrying" \/ time < loop.runAt
           THEN recaps' = recaps
           ELSE recaps' = IF loop.command = "end" THEN recaps \cup {Call("final")} ELSE recaps
    BY DEF TimerFires
  <1>2. ClockFits /\ time \in Nat
    BY DEF TimesFit, ClockFits
  <1>3. PICK c : c = Call("final")
    OBVIOUS
  <1>4. c.at = time /\ c.kind = "final" /\ c.pc = "waiting"
    BY <1>2, <1>3, CallIs
  <1>5. ASSUME NEW w, Brought(w, time, settings, loop, recaps)
        PROVE  Brought(w, time, settings, loop', recaps')
    <2>1. CASE \E r \in recaps : Brings(r, w)
      BY <1>1, <1>5, <2>1 DEF Brought
    <2>2. CASE w.finish = time /\ LoopCarries(loop, time)
      <3>1. loop.pc = "armed" /\ loop.command = "end" /\ loop.runAt = time
        BY <1>1, <2>2 DEF LoopCarries
      <3>2. c \in recaps'
        BY <1>1, <1>2, <1>3, <3>1
      <3>3. Brings(c, w)
        BY <1>4, <2>2 DEF Brings
      <3>4. QED
        BY <1>5, <3>2, <3>3 DEF Brought
    <2>3. QED
      BY <1>5, <2>1, <2>2 DEF Brought
  <1>6. FinalsFit(posts', settings', loop', time')
    BY <1>1, FinalsStay DEF ResultsFit, AttendanceNext
  <1>7. LivesFit(recaps', settings)
    BY <1>1, <1>3, <1>4 DEF ResultsFit, LivesFit
  <1>8. QED
    BY <1>1, <1>5, <1>6, <1>7 DEF ResultsFit

\* A call that goes on brings what it brought.
LEMMA BringsOn ==
  ASSUME NEW rs, NEW r \in rs, NEW q, NEW t, NEW s, NEW l, NEW w, Brought(w, t, s, l, rs),
         Brings(r, w) => Brings(q, w)
  PROVE  Brought(w, t, s, l, Replaced(rs, r, q))
  <1>1. ASSUME NEW p \in rs, Brings(p, w) PROVE \E o \in Replaced(rs, r, q) : Brings(o, w)
    <2>1. CASE p = r
      BY <1>1, <2>1 DEF Replaced
    <2>2. CASE p # r
      BY <1>1, <2>2 DEF Replaced
    <2>3. QED
      BY <2>1, <2>2
  <1>2. QED
    BY <1>1 DEF Brought

LEMMA ResultsTake ==
  ASSUME TimesFit, NEW r \in recaps, TakeMutex(r), ResultsFit(posts, ended, time, settings, loop, recaps)
  PROVE  ResultsFit(posts', ended', time', settings', loop', recaps')
  <1> DEFINE v == AttendanceWindow(r.at, settings)
             q == Taken(r, v)
  <1>1. /\ UNCHANGED <<posts, ended, time, settings, loop>> /\ GoodTimes(settings)
        /\ recaps' = Replaced(recaps, r, q) /\ r.pc = "waiting"
    BY DEF TakeMutex, Becomes, Replaced, Taken, TimesFit, ClockFits
  <1>2. r \in CallSet /\ r.at \in Nat /\ Day <= r.at
    BY StoredWindow
  <1>3. v \in WindowSet /\ (IsEnd(r.at, settings) => v = EveningOf(r.at, settings))
    BY <1>1, <1>2, WindowIs
  <1>4. q.kind = r.kind /\ q.at = r.at /\ q.window = v
    BY <1>2, <1>3, TakenIs
  <1>5. v = AttendanceWindow(r.at, settings)
    OBVIOUS
  <1> HIDE DEF v, q
  <1>6. ASSUME NEW w, Brought(w, time, settings, loop, recaps)
        PROVE  Brought(w, time, settings, loop, recaps')
    <2>1. Brings(r, w) => Brings(q, w)
      <3>1. SUFFICES ASSUME Brings(r, w) PROVE Brings(q, w)
        OBVIOUS
      <3>2. r.kind = "final" /\ r.at = w.finish /\ IsEnd(w.finish, settings) /\ w = EveningOf(w.finish, settings)
        BY <1>6, <3>1 DEF Brings, Brought
      <3>3. v = w
        BY <1>3, <3>2
      <3>4. QED
        BY <1>4, <3>2, <3>3 DEF Brings
    <2>2. QED
      BY <1>1, <1>6, <2>1, BringsOn
  <1>7. FinalsFit(posts', settings', loop', time')
    BY <1>1 DEF ResultsFit
  <1>8. LivesFit(recaps', settings)
    <2>1. LivesFit(recaps, settings)
      BY DEF ResultsFit
    <2>2. q.kind = "live" => r.at < EveningEnd(EveningStart(r.at, settings), settings)
      BY <1>4, <2>1 DEF LivesFit
    <2>3. QED
      BY <1>1, <1>4, <1>5, <2>1, <2>2 DEF LivesFit, Replaced
  <1>9. QED
    BY <1>1, <1>6, <1>7, <1>8 DEF ResultsFit

LEMMA ResultsStore ==
  ASSUME TimesFit, NEW r \in recaps, Store(r), ResultsFit(posts, ended, time, settings, loop, recaps)
  PROVE  ResultsFit(posts', ended', time', settings', loop', recaps')
  <1> DEFINE q == Moved(r, "publishing")
  <1>1. /\ UNCHANGED <<posts, ended, time, settings, loop>>
        /\ recaps' = Replaced(recaps, r, q) /\ r.pc = "reading"
    BY DEF Store, Becomes, Replaced, Moved
  <1>2. q.kind = r.kind /\ q.at = r.at /\ q.window = r.window
    BY StoredWindow, MovedIs
  <1> HIDE DEF q
  <1>3. \A w : Brings(r, w) => Brings(q, w)
    BY <1>1, <1>2 DEF Brings
  <1>4. \A w : Brought(w, time, settings, loop, recaps) => Brought(w, time, settings, loop, recaps')
    BY <1>1, <1>3, BringsOn
  <1>5. LivesFit(recaps', settings)
    <2>1. LivesFit(recaps, settings)
      BY DEF ResultsFit
    <2>2. QED
      BY <1>1, <1>2, <2>1 DEF LivesFit, Replaced
  <1>6. QED
    BY <1>1, <1>4, <1>5 DEF ResultsFit

\* The final result takes its message, and no live one takes it back.
LEMMA ResultsPublish ==
  ASSUME TimesFit, CallsApart(recaps, loop, time), MemoryFits(memory, posts, loop, time),
         Unedited(settings, time, loop, recaps, logs, ended),
         NEW r \in recaps, Publish(r), ResultsFit(posts, ended, time, settings, loop, recaps)
  PROVE  ResultsFit(posts', ended', time', settings', loop', recaps')
  <1> DEFINE x == Message(r)
             n == memory.message
             u == r.window.start
             e == EveningEnd(u, settings)
  <1>1. /\ UNCHANGED <<ended, time, settings, loop>> /\ GoodTimes(settings) /\ LoopFits(loop, time)
        /\ recaps' = recaps \ {r} /\ r.pc = "publishing" /\ posts \in Seq(PostSet)
        /\ FinalsFit(posts, settings, loop, time) /\ LivesFit(recaps, settings)
    BY DEF Publish, Ends, TimesFit, ClockFits, MemoryFits, ResultsFit
  <1>2. /\ r \in CallSet /\ x \in PostSet /\ x.window = u /\ u \in Nat /\ x.final = (r.kind = "final")
        /\ r.at \in Nat /\ Day <= r.at /\ Past(r.at, loop, time)
    BY StoredWindow, MessageIs DEF CallsApart
  <1>3. x = [window |-> u, final |-> r.kind = "final"]
    BY DEF Message
  <1>4. IsNew(r) => posts' = Append(posts, x)
    BY DEF Publish
  <1>5. ~IsNew(r) => /\ posts' = Redone(posts, n, x) /\ n \in 1..Len(posts) /\ posts[n].window = u
    BY DEF Publish, Redone, IsNew, MemoryFits
  <1>6. r.kind = "final" => e = r.at
    <2>1. SUFFICES ASSUME r.kind = "final" PROVE e = r.at
      OBVIOUS
    <2>2. r.window = EveningOf(r.at, settings) /\ IsEnd(r.at, settings)
      BY <2>1 DEF Unedited
    <2>3. u = EveningStart(r.at, settings)
      BY <2>2 DEF EveningOf
    <2>4. EveningEnd(EveningStart(r.at, settings), settings) = r.at
      BY <1>1, <1>2, <2>2, EndsNow
    <2>5. QED
      BY <2>3, <2>4
  <1>7. r.kind = "live" => r.at < e /\ FiredBy(loop, time) = r.at
    <2>1. SUFFICES ASSUME r.kind = "live" PROVE r.at < e /\ FiredBy(loop, time) = r.at
      OBVIOUS
    <2>2. loop.pc = "updating" /\ loop.at = r.at
      BY <2>1 DEF TimesFit, CallsFit, CallFits
    <2>3. u = EveningStart(r.at, settings) /\ r.at < EveningEnd(EveningStart(r.at, settings), settings)
      <3>1. r.window = AttendanceWindow(r.at, settings) /\ r.at < EveningEnd(EveningStart(r.at, settings), settings)
        BY ONLY <1>1, <2>1, r \in recaps DEF LivesFit
      <3>2. AttendanceWindow(r.at, settings).start = EveningStart(r.at, settings)
        BY ONLY DEF AttendanceWindow
      <3>3. QED
        BY ONLY <3>1, <3>2, u = r.window.start
    <2>4. QED
      BY <2>2, <2>3 DEF FiredBy
  <1>8. u = r.window.start
    OBVIOUS
  <1> HIDE DEF x, n, u
  <1>9. \A k \in DOMAIN posts : /\ k \in DOMAIN posts'
                                /\ posts'[k] = posts[k] \/ (posts'[k] = x /\ posts[k].window = u)
    <2>1. CASE IsNew(r)
      <3>1. posts' = Append(posts, x) /\ DOMAIN posts = 1..Len(posts) /\ Len(posts) \in Nat
        BY <1>1, <1>4, <2>1
      <3>2. DOMAIN posts' = 1..(Len(posts) + 1) /\ \A k \in 1..Len(posts) : posts'[k] = posts[k]
        BY <1>1, <1>2, <3>1, AppendedIs
      <3>3. QED
        BY <3>1, <3>2
    <2>2. CASE ~IsNew(r)
      <3>1. Redone(posts, n, x) \in Seq(PostSet) /\ Len(Redone(posts, n, x)) = Len(posts)
            /\ \A k \in 1..Len(posts) : Redone(posts, n, x)[k] = IF k = n THEN x ELSE posts[k]
        BY <1>1, <1>2, <1>5, <2>2, RedoneIs
      <3>2. DOMAIN posts = 1..Len(posts) /\ DOMAIN posts' = 1..Len(posts)
        BY <1>1, <1>5, <2>2, <3>1
      <3>3. QED
        BY <1>5, <2>2, <3>1, <3>2
    <2>3. QED
      BY <2>1, <2>2
  <1>10. \E k \in DOMAIN posts' : posts'[k] = x
    <2>1. CASE IsNew(r)
      BY <1>1, <1>2, <1>4, <2>1, AppendedIs
    <2>2. CASE ~IsNew(r)
      <3>1. Redone(posts, n, x) \in Seq(PostSet) /\ Len(Redone(posts, n, x)) = Len(posts)
            /\ \A k \in 1..Len(posts) : Redone(posts, n, x)[k] = IF k = n THEN x ELSE posts[k]
        BY <1>1, <1>2, <1>5, <2>2, RedoneIs
      <3>2. n \in DOMAIN posts' /\ posts'[n] = x
        BY <1>5, <2>2, <3>1
      <3>3. QED
        BY <3>2
    <2>3. QED
      BY <2>1, <2>2
  <1>11. \A k \in DOMAIN posts' : posts'[k] = x \/ (k \in DOMAIN posts /\ posts'[k] = posts[k])
    <2>1. CASE IsNew(r)
      <3>1. posts' = Append(posts, x) /\ DOMAIN posts = 1..Len(posts) /\ Len(posts) \in Nat
        BY <1>1, <1>4, <2>1
      <3>2. DOMAIN posts' = 1..(Len(posts) + 1) /\ posts'[Len(posts) + 1] = x
            /\ \A k \in 1..Len(posts) : posts'[k] = posts[k]
        BY <1>1, <1>2, <3>1, AppendedIs
      <3>3. QED
        BY <3>1, <3>2
    <2>2. CASE ~IsNew(r)
      <3>1. Redone(posts, n, x) \in Seq(PostSet) /\ Len(Redone(posts, n, x)) = Len(posts)
            /\ \A k \in 1..Len(posts) : Redone(posts, n, x)[k] = IF k = n THEN x ELSE posts[k]
        BY <1>1, <1>2, <1>5, <2>2, RedoneIs
      <3>2. DOMAIN posts = 1..Len(posts) /\ DOMAIN posts' = 1..Len(posts)
        BY <1>1, <1>5, <2>2, <3>1
      <3>3. QED
        BY <1>5, <2>2, <3>1, <3>2
    <2>3. QED
      BY <2>1, <2>2
  <1>12. ASSUME NEW k \in DOMAIN posts, posts[k].final, posts[k].window = u PROVE r.kind = "final"
    <2>1. e \in Nat /\ Past(e, loop, time)
      BY <1>1, <1>12 DEF FinalsFit
    <2>2. r.kind # "live"
      BY <1>2, <1>7, <2>1 DEF Past
    <2>3. QED
      BY <1>2, <2>2 DEF CallSet
  <1>13. ASSUME NEW w, ShowsResult(posts, w) PROVE ShowsResult(posts', w)
    <2>1. PICK k \in DOMAIN posts : posts[k] = [window |-> w.start, final |-> TRUE]
      BY <1>13 DEF ShowsResult
    <2>2. posts[k].final /\ posts[k].window = w.start
      BY <2>1
    <2>3. posts'[k] = posts[k]
      <3>1. CASE posts'[k] = x /\ posts[k].window = u
        <4>1. r.kind = "final" /\ u = w.start
          BY <1>12, <2>2, <3>1
        <4>2. QED
          BY <1>3, <2>1, <3>1, <4>1
      <3>2. QED
        BY <1>9, <3>1
    <2>4. QED
      BY <1>9, <2>1, <2>3 DEF ShowsResult
  <1>14. ASSUME NEW w, Brought(w, time, settings, loop, recaps)
         PROVE  ShowsResult(posts', w) \/ Brought(w, time, settings, loop, recaps')
    <2>1. CASE Brings(r, w)
      <3>1. r.kind = "final" /\ u = w.start
        BY <1>1, <1>8, <2>1 DEF Brings
      <3>2. x = [window |-> w.start, final |-> TRUE]
        BY <1>3, <3>1
      <3>3. QED
        BY <1>10, <3>2 DEF ShowsResult
    <2>2. CASE ~Brings(r, w)
      BY <1>1, <1>14, <2>2 DEF Brought
    <2>3. QED
      BY <2>1, <2>2
  <1>15. FinalsFit(posts', settings, loop, time)
    <2>1. SUFFICES ASSUME NEW k \in DOMAIN posts', posts'[k].final
                   PROVE  /\ EveningEnd(posts'[k].window, settings) \in Nat
                          /\ Past(EveningEnd(posts'[k].window, settings), loop, time)
      BY DEF FinalsFit
    <2>2. CASE posts'[k] = x
      <3>1. r.kind = "final" /\ posts'[k].window = u
        BY <1>2, <2>1, <2>2
      <3>2. e = r.at
        BY <1>6, <3>1
      <3>3. QED
        BY <1>2, <3>1, <3>2
    <2>3. CASE k \in DOMAIN posts /\ posts'[k] = posts[k]
      BY <1>1, <2>1, <2>3 DEF FinalsFit
    <2>4. QED
      BY <1>11, <2>2, <2>3
  <1>16. LivesFit(recaps', settings)
    BY <1>1 DEF LivesFit
  <1>17. QED
    BY <1>1, <1>13, <1>14, <1>15, <1>16 DEF ResultsFit

\* Every end the clock comes to is awaited, unless there was a fault or an edit.
LEMMA ResultsPass ==
  ASSUME TimesFit, TimePasses, loop.pc # "loading", ~Oversleeps(loop, time, settings),
         ResultsFit(posts, ended, time, settings, loop, recaps)
  PROVE  ResultsFit(posts', ended', time', settings', loop', recaps')
  <1> DEFINE u == time + 1
             v == EveningOf(u, settings)
  <1>1. /\ time' = u /\ settings' = settings /\ loop' = loop /\ posts' = posts /\ time \in Nat /\ u \in Nat
        /\ recaps' = {Older(r) : r \in recaps}
        /\ IF IsEnd(u, settings) THEN ended' = ended \cup {v} ELSE ended' = ended
    BY ClockPasses DEF TimePasses, Older
  <1>2. \A r \in recaps : r.at = time
    <2>1. ASSUME NEW r \in recaps PROVE r.at = time
      <3>1. r \in CallSet /\ r.at + r.age = time /\ r.age = 0 /\ r.at \in Nat
        BY DEF TimePasses, TimesFit, CallsFit, CallFits, CallSet
      <3>2. QED
        BY <3>1
    <2>2. QED
      BY <2>1
  <1>3. \A r \in recaps : /\ Older(r).kind = r.kind /\ Older(r).at = r.at /\ Older(r).pc = r.pc
                          /\ Older(r).window = r.window
    BY StoredWindow, OlderIs
  <1>4. ASSUME NEW w, Brought(w, time, settings, loop, recaps) PROVE Brought(w, u, settings, loop, recaps')
    <2>1. PICK r \in recaps : Brings(r, w)
      BY <1>4, FiresFirst DEF Brought
    <2>2. w.finish = time
      BY <1>2, <2>1 DEF Brings
    <2>3. Older(r) \in recaps' /\ Brings(Older(r), w)
      BY <1>1, <1>3, <2>1 DEF Brings
    <2>4. w.finish \in {u - 1, u}
      BY <1>1, <2>2
    <2>5. QED
      BY <1>4, <2>3, <2>4 DEF Brought
  <1>5. IsEnd(u, settings) => Brought(v, u, settings, loop, recaps')
    <2>1. SUFFICES ASSUME IsEnd(u, settings) PROVE Brought(v, u, settings, loop, recaps')
      OBVIOUS
    <2>2. LoopCarries(loop, u)
      BY <2>1, EndIsAwaited
    <2>3. v.finish = u /\ v = EveningOf(u, settings)
      BY DEF EveningOf
    <2> HIDE DEF v
    <2>4. QED
      BY <1>1, <2>1, <2>2, <2>3 DEF Brought
  <1> HIDE DEF v
  <1>6. FinalsFit(posts', settings', loop', time')
    BY <1>1, FinalsStay DEF ResultsFit, AttendanceNext
  <1>7. LivesFit(recaps', settings)
    BY <1>1, <1>3 DEF ResultsFit, LivesFit
  <1>8. \A w \in ended' : ShowsResult(posts, w) \/ Brought(w, u, settings, loop, recaps')
    BY <1>1, <1>4, <1>5 DEF ResultsFit
  <1> HIDE DEF u
  <1>9. QED
    BY <1>1, <1>6, <1>7, <1>8 DEF ResultsFit

\* Without a fault or an edit the loop does not sleep over an end.
LEMMA NoDebt ==
  ASSUME EndedFits(ended, time), PaidNow, recapFaults = 0, edits = 0
  PROVE  ~Oversleeps(loop, time, settings)
  <1> DEFINE A == Lost(ended, logs, time, settings, loop, recaps)
             d == Debt(loop, time, settings)
  <1>1. A \in SUBSET ended
    BY DEF Lost
  <1>2. Cardinality(A) \in Nat
    BY <1>1, FS_Subset, FS_CardinalityType DEF EndedFits
  <1>3. Cardinality(A) + d <= 0 /\ d \in {0, 1} /\ (Oversleeps(loop, time, settings) => d = 1)
    BY DebtIs DEF PaidNow, Paid
  <1> HIDE DEF A, d
  <1>4. d = 0
    BY <1>2, <1>3
  <1>5. QED
    BY <1>3, <1>4

LEMMA ResultsStep ==
  ASSUME ScheduleInv, CallsApart(recaps, loop, time), MemoryFits(memory, posts, loop, time),
         [AttendanceNext]_attendanceVars, recapFaults' = 0, edits' = 0,
         recapFaults = 0 /\ edits = 0 => ResultsFit(posts, ended, time, settings, loop, recaps)
  PROVE  ResultsFit(posts', ended', time', settings', loop', recaps')
  <1>1. TimesFit /\ EndedFits(ended, time) /\ PaidNow /\ recapFaults \in Nat /\ edits \in Nat
    BY DEF ScheduleInv, TimesFit, ClockFits
  <1>2. /\ ~Fault /\ \A s \in Schedules : ~EditSchedule(s)
    BY <1>1 DEF Fault, EditSchedule
  <1>3. recapFaults = 0 /\ edits = 0
    BY <1>2 DEF AttendanceNext, attendanceVars, LoadTimes, LoadFails, LiveRecapReturns, TimerFires, Recap,
           TakeMutex, Store, Publish, RecapFails, LoseAnswer, Restart, TimePasses
  <1>4. /\ Unedited(settings, time, loop, recaps, logs, ended)
        /\ ResultsFit(posts, ended, time, settings, loop, recaps)
        /\ ~Oversleeps(loop, time, settings)
    BY <1>1, <1>3, NoDebt DEF ScheduleInv
  <1>5. CASE LoadTimes
    BY <1>1, <1>4, <1>5, ResultsLoad
  <1>6. CASE LiveRecapReturns
    BY <1>1, <1>4, <1>6, ResultsReturn
  <1>7. CASE TimerFires
    BY <1>1, <1>4, <1>7, ResultsFire
  <1>8. ASSUME NEW r \in recaps, Recap(r)
        PROVE  ResultsFit(posts', ended', time', settings', loop', recaps')
    <2>1. CASE TakeMutex(r)
      BY <1>1, <1>4, <2>1, ResultsTake
    <2>2. CASE Store(r)
      BY <1>1, <1>4, <2>2, ResultsStore
    <2>3. CASE Publish(r)
      BY <1>1, <1>4, <2>3, ResultsPublish
    <2>4. QED
      BY <1>2, <1>8, <2>1, <2>2, <2>3 DEF Recap, RecapFails, LoseAnswer
  <1>9. CASE TimePasses
    <2>1. loop.pc # "loading"
      BY <1>2, <1>9 DEF TimePasses
    <2>2. QED
      BY <1>1, <1>4, <1>9, <2>1, ResultsPass
  <1>10. CASE UNCHANGED attendanceVars
    BY <1>4, <1>10 DEF attendanceVars
  <1>11. QED
    BY <1>2, <1>5, <1>6, <1>7, <1>8, <1>9, <1>10 DEF AttendanceNext, LoadFails, Restart

(***************************************************************************)
(* Strengthens ScheduleInv: a window's messages and those it still owes    *)
(* are one, and one more per fault and edit; an evening that ended shows   *)
(* its result or has a call that brings it.                                *)
(***************************************************************************)
RecapInv ==
  /\ ScheduleInv
  /\ CallsApart(recaps, loop, time)
  /\ MemoryFits(memory, posts, loop, time)
  /\ FewNow
  /\ recapFaults = 0 /\ edits = 0 => ResultsFit(posts, ended, time, settings, loop, recaps)

LEMMA RecapInvInit == AttendanceInit => RecapInv
  <1> SUFFICES ASSUME AttendanceInit PROVE RecapInv
    OBVIOUS
  <1>1. recaps = {} /\ posts = <<>> /\ memory = NoMessage
    BY DEF AttendanceInit
  <1>2. CallsApart(recaps, loop, time)
    BY <1>1 DEF CallsApart
  <1>3. MemoryFits(memory, posts, loop, time)
    BY <1>1 DEF MemoryFits, NoMessage
  <1>4. QED
    BY <1>2, <1>3, ScheduleInvInit, FewInit, ResultsInit DEF RecapInv

LEMMA RecapInvNext == RecapInv /\ [AttendanceNext]_attendanceVars => RecapInv'
  <1> SUFFICES ASSUME RecapInv, [AttendanceNext]_attendanceVars PROVE RecapInv'
    OBVIOUS
  <1>1. /\ ScheduleInv /\ TimesFit /\ CallsApart(recaps, loop, time) /\ MemoryFits(memory, posts, loop, time)
        /\ FewNow
    BY DEF RecapInv, ScheduleInv
  <1>2. ScheduleInv'
    BY <1>1, ScheduleInvNext
  <1>3. CallsApart(recaps', loop', time')
    BY <1>1, CallsApartStep
  <1>4. MemoryFits(memory', posts', loop', time')
    BY <1>1, MemoryStep
  <1>5. FewNow'
    BY <1>1, FewStep
  <1>6. recapFaults' = 0 /\ edits' = 0 => ResultsFit(posts', ended', time', settings', loop', recaps')
    <2>1. recapFaults = 0 /\ edits = 0 => ResultsFit(posts, ended, time, settings, loop, recaps)
      BY DEF RecapInv
    <2>2. QED
      BY <1>1, <2>1, ResultsStep
  <1>7. QED
    BY <1>2, <1>3, <1>4, <1>5, <1>6 DEF RecapInv, CallsApart, MemoryFits, ResultsFit,
       FinalsFit, LivesFit, ShowsResult, Brought, Brings

(***************************************************************************)
(* The inductive invariant of the recap messages: calls exclude each other *)
(* by their mutex, the message that is edited is one of the window it is   *)
(* remembered for, a window's messages and those still owed to it are one  *)
(* and one more per fault and edit, and an evening that ended shows its    *)
(* result or has a call that brings it (Scheduler.Run, publishRecap).      *)
(***************************************************************************)
THEOREM RecapInvariant == BotSpec => []RecapInv
  <1>1. BotInit => RecapInv
    BY RecapInvInit DEF BotInit
  <1>2. [BotNext]_botVars => [AttendanceNext]_attendanceVars
    BY DEF BotNext, botVars
  <1>3. RecapInv /\ [BotNext]_botVars => RecapInv'
    BY <1>2, RecapInvNext
  <1>4. QED
    BY <1>1, <1>3, PTL DEF BotSpec

(***************************************************************************)
(* Every evening has one recap message, but for the faults and edits that  *)
(* make the bot forget it, and once the final result is shown no late live *)
(* recap takes it back (publishRecap's mutex, the order of Run's calls,    *)
(* "editing the same message").                                            *)
(***************************************************************************)
THEOREM OneRecapMessageCorrect == BotSpec => []OneRecapMessage
  <1>1. RecapInv => OneRecapMessage
    <2> SUFFICES ASSUME RecapInv PROVE OneRecapMessage
      OBVIOUS
    <2>1. /\ posts \in Seq(PostSet) /\ FewNow /\ recapFaults \in Nat /\ edits \in Nat
          /\ EndedFits(ended, time) /\ time \in Nat
      BY DEF RecapInv, ScheduleInv, TimesFit, ClockFits, MemoryFits
    <2>2. ASSUME NEW n \in DOMAIN posts
          PROVE  Cardinality({k \in DOMAIN posts : posts[k].window = posts[n].window})
                   <= 1 + recapFaults + edits
      <3> DEFINE w == posts[n].window
      <3>1. w \in Nat
        <4>1. posts[n] \in PostSet
          BY ONLY <2>1, <2>2
        <4>2. QED
          BY ONLY <4>1 DEF PostSet
      <3>2. Count(posts, w) = Cardinality({k \in DOMAIN posts : posts[k].window = w})
        BY DEF Count, MessagesOf
      <3> HIDE DEF w
      <3>3. Count(posts, w) + Owes(w, memory, time, settings, loop, recaps) <= Allowed(w, settings, recapFaults + edits)
        BY <2>1, <3>1 DEF FewNow, Few
      <3>4. Count(posts, w) \in Nat /\ Owes(w, memory, time, settings, loop, recaps) \in {0, 1, 2}
        BY <2>1, CountIs, OwesIs
      <3>5. Allowed(w, settings, recapFaults + edits) \in {recapFaults + edits, 1 + (recapFaults + edits)}
        BY DEF Allowed
      <3>6. Count(posts, w) <= 1 + recapFaults + edits
        BY ONLY <2>1, <3>3, <3>4, <3>5
      <3>7. QED
        BY <3>2, <3>6 DEF w
    <2>3. ASSUME recapFaults = 0, edits = 0, NEW w \in ended, Settled(w)
          PROVE  \E n \in DOMAIN posts : posts[n] = [window |-> w.start, final |-> TRUE]
      <3>1. ShowsResult(posts, w) \/ Brought(w, time, settings, loop, recaps)
        BY <2>3 DEF RecapInv, ResultsFit
      <3>2. w.finish \in Nat /\ w.finish + 2 <= time
        BY <2>1, <2>3 DEF EndedFits, WindowSet, Settled
      <3>3. ~Brought(w, time, settings, loop, recaps)
        BY <2>1, <3>2 DEF Brought
      <3>4. QED
        BY <3>1, <3>3 DEF ShowsResult
    <2>4. QED
      BY <2>2, <2>3 DEF OneRecapMessage
  <1>2. QED
    BY <1>1, RecapInvariant, PTL
=============================================================================
