---------------------------- MODULE MCAttendance ---------------------------
(* A day of six units, an early evening, the same evening extended and an    *)
(* overnight one that begins as the first has ended.  Two characters of one  *)
(* account play, and overlap.  The operators of Payroll are compared with    *)
(* their reference definitions over every small input, in the states the     *)
(* scheduler starts in.  The scheduler and the roster that payslips are made *)
(* for are two goroutines of the bot without common state, so each is run    *)
(* from its own initial states.                                              *)
EXTENDS AttendanceSchedule, MemberRoster

CONSTANTS hyuna, valencia, ana

VARIABLE goroutine  \* the one this behaviour is about

\* The first is refused.
MCSchedules ==
  {[start |-> 2, end |-> 2], [start |-> 1, end |-> 4], [start |-> 1, end |-> 5], [start |-> 5, end |-> 2]}
MCCharacters == {hyuna, valencia}
MCVisits ==
  [c \in MCCharacters |->
     IF c = hyuna
     THEN {[from |-> 5, to |-> 8, last |-> 8], [from |-> 7, to |-> 10, last |-> 10],
           [from |-> 11, to |-> Open, last |-> 12]}
     ELSE {[from |-> 9, to |-> 10, last |-> 10], [from |-> 13, to |-> 16, last |-> 16]}]

\* An administrator with a member role and one without.
MCKinds == {{"SOT CR", "admin"}, {"admin"}, {"SOT CR", "SOT CR Guest"}, {"other"}}
Joined == [x \in People |-> IF x = ana THEN {"SOT CR", "admin"} ELSE {"other"}]

-----------------------------------------------------------------------------
BotInit ==
  /\ goroutine \in {"attendance", "roster"}
  /\ AttendanceInit
  /\ RosterInit
  /\ guild = Joined
  /\ goroutine = "roster" => settings = [start |-> 1, end |-> 4]

BotNext ==
  /\ UNCHANGED goroutine
  /\ \/ goroutine = "attendance" /\ AttendanceNext /\ UNCHANGED rosterVars
     \/ goroutine = "roster" /\ RosterNext /\ UNCHANGED attendanceVars

botVars == <<attendanceVars, rosterVars, goroutine>>

BotSpec ==
  /\ BotInit
  /\ [][BotNext]_botVars
  /\ \A p \in Processes :
       /\ WF_botVars(goroutine = "roster" /\ Begin(p) /\ UNCHANGED <<attendanceVars, goroutine>>)
       /\ WF_botVars(goroutine = "roster" /\ SyncStep(p) /\ UNCHANGED <<attendanceVars, goroutine>>)

(***************************************************************************)
(* MemberRoster's RosterConverges, in the behaviours of the roster.        *)
(***************************************************************************)
PayslipRosterConverges == (goroutine = "roster") => RosterConverges

-----------------------------------------------------------------------------
Starting == goroutine = "attendance" /\ time = Day /\ loop = Started /\ edits = 0 /\ recapFaults = 0

SomeVisits ==
  {v \in [from : 0..3, to : {Open} \cup 1..5, last : 1..4] :
     IF v.to = Open THEN v.from <= v.last ELSE v.from < v.to /\ v.last = Min({v.to, 4})}

(***************************************************************************)
(* The playtime credited is the union of the visits inside the window,     *)
(* never their sum, however they nest, touch or overlap, and an open visit *)
(* ages out (README "Playtime is the union", member.PlaytimeRecap).        *)
(***************************************************************************)
PlaytimeIsUnion ==
  Starting =>
    \A u, v, w \in SomeVisits, start \in {0, 2} :
      PlaytimeRecap({u, v, w}, start, 5) = Covered({u, v, w}, start, 5)

\* A leap year's spring, and the months around it.
Months == <<31, 31, 29, 31, 30, 31>>

PeriodsPartition ==
  \A day \in 1..31, date \in Months[1]..(FirstOf(Months, 6) - 1) : PaidOnce(Months, date, day)

Players == 1..3
Contracts == {[payment |-> p, minimum |-> a, maximum |-> b] : p \in {0, 900, 5500, 100000}, a, b \in 0..3}

PayoutsShare ==
  \A days \in [Players -> 0..4], excluded \in SUBSET Players, contract \in Contracts :
    ValidContract(contract) => SharesPayment(days, excluded, contract)

(***************************************************************************)
(* A day is paid in exactly one period, whatever the contract's day, and   *)
(* the payment of a period is shared out among those who earned it, by     *)
(* their counted days, and is never exceeded (contractBoundary,            *)
(* getMonthly, requestedPeriod, payslip.Calculate).                        *)
(***************************************************************************)
PayslipsKeepTheContract == Starting => PeriodsPartition /\ PayoutsShare
=============================================================================
