------------------------------- MODULE Payroll ------------------------------
(***************************************************************************)
(* What an evening is worth: the playtime of a character inside the        *)
(* attendance window, the days an account attended in a contract period,   *)
(* and the share of the contract those days earn.  These are computed by   *)
(* one query or one function each, so they are operators here.             *)
(***************************************************************************)
EXTENDS Integers, FiniteSets, FiniteSetsExt, Sequences, Functions

CONSTANT VisitMaxAge  \* how long a visit without a disconnect is credited for

ASSUME PayrollAssumption == VisitMaxAge \in Nat

-----------------------------------------------------------------------------
(* Playtime.  A visit is [from, to, last]; to is Open when no disconnect of  *)
(* it is known, and last is its last event.                                  *)
Open == -1

EndOf(visit) == IF visit.to = Open THEN visit.last + VisitMaxAge ELSE visit.to

\* The visits that touch the window, clamped to it.
Clamped(visits, start, finish) ==
  LET rows == {[starts |-> Max({v.from, start}), ends |-> Min({EndOf(v), finish})] :
                 v \in {v \in visits : v.from < finish /\ EndOf(v) > start}}
  IN  {r \in rows : r.ends > r.starts}

Before(q, r) == q.starts < r.starts \/ (q.starts = r.starts /\ q.ends < r.ends)

\* Fault: LAG(ends), the end of the row before instead of the latest end.
LagEnd(rows, r) ==
  LET earlier == {q \in rows : Before(q, r)}
  IN  IF earlier = {} THEN -1
      ELSE (CHOOSE q \in earlier : \A p \in earlier \ {q} : Before(p, q)).ends

\* The latest end among the rows before this one; -1 stands for NULL.
PriorEnd(rows, r) == Max({-1} \cup {q.ends : q \in {q \in rows : Before(q, r)}})

OpensIsland(rows, r) == r.starts > PriorEnd(rows, r)
Island(rows, r) == Cardinality({q \in rows : (q = r \/ Before(q, r)) /\ OpensIsland(rows, q)})

Islands(rows) == {Island(rows, r) : r \in rows}
Merged(rows, n) == {r \in rows : Island(rows, r) = n}
Lengths(rows) ==
  [n \in Islands(rows) |->
     Max({r.ends : r \in Merged(rows, n)}) - Min({r.starts : r \in Merged(rows, n)})]

\* The seconds PlaytimeRecap credits a character with.
PlaytimeRecap(visits, start, finish) ==
  LET rows == Clamped(visits, start, finish)
  IN  SumFunctionOnSet(Lengths(rows), Islands(rows))

\* SaveAttendanceRecap: strictly above the threshold.
IsAttended(playtime, required) == playtime > required

\* What the README promises: the instants of the window a visit covers.
Covered(visits, start, finish) ==
  Cardinality({t \in start..(finish - 1) : \E v \in visits : v.from <= t /\ t < EndOf(v)})

-----------------------------------------------------------------------------
(* Contract periods.  A month is a number, months a sequence of their        *)
(* lengths, and a date the number of days since the first month began.       *)
FirstOf(months, n) == SumFunctionOnSet(months, 1..(n - 1))
MonthOf(months, date) ==
  CHOOSE n \in DOMAIN months : FirstOf(months, n) <= date /\ date < FirstOf(months, n) + months[n]

\* A month without the contract's day starts its period on its last day.
ContractBoundary(months, n, day) == FirstOf(months, n) + Min({day, months[n]}) - 1

\* Fault: the next period is found from a month after the start's own date.
EndAMonthLater(months, n, day) ==
  LET start == ContractBoundary(months, n, day)
      later == FirstOf(months, n + 1) + (start - FirstOf(months, n))
  IN  ContractBoundary(months, MonthOf(months, later), day)

PeriodEnd(months, n, day) == ContractBoundary(months, n + 1, day)

\* The dates of the month's report.
Period(months, n, day) == ContractBoundary(months, n, day)..(PeriodEnd(months, n, day) - 1)

\* The month whose report is shown when none is asked for.
RequestedPeriod(months, today, day) ==
  LET n == MonthOf(months, today)
      boundaryDay == Min({day, months[n]})
  IN  IF today - FirstOf(months, n) + 1 < boundaryDay THEN n - 1 ELSE n

\* getMonthly: a day counts once, whichever character or row attended it.
\* The rows of logs have an account, the date they began on, and the flag.
TotalAttended(logs, account, period) ==
  Cardinality({l.date : l \in {l \in logs : l.account = account /\ l.date \in period /\ l.attended}})

-----------------------------------------------------------------------------
(* Payslips.  days is the attended days of each player, excluded the         *)
(* players without a guild role, and contract the settings that matter.      *)
Rounding == 1000

\* Validate: what a saved contract satisfies.
ValidContract(contract) ==
  /\ contract.payment > 0
  /\ {contract.minimum, contract.maximum} \subseteq 1..31
  /\ contract.minimum <= contract.maximum

Eligible(days, excluded, contract) ==
  {p \in DOMAIN days : p \notin excluded /\ days[p] >= contract.minimum}

Counted(days, contract, p) == Min({days[p], contract.maximum})

\* Fault: the pool is divided by days that stopped accruing.
UncappedDays(days, excluded, contract) ==
  SumFunctionOnSet(days, Eligible(days, excluded, contract))

CountedDays(days, excluded, contract) ==
  LET counted == [p \in DOMAIN days |-> Counted(days, contract, p)]
  IN  SumFunctionOnSet(counted, Eligible(days, excluded, contract))

Payout(days, excluded, contract, p) ==
  LET total == CountedDays(days, excluded, contract)
  IN  IF p \in Eligible(days, excluded, contract) /\ total > 0
      THEN (((contract.payment * Counted(days, contract, p)) \div total) \div Rounding) * Rounding
      ELSE 0

Payouts(days, excluded, contract) == [p \in DOMAIN days |-> Payout(days, excluded, contract, p)]
TotalPayout(days, excluded, contract) ==
  SumFunctionOnSet(Payouts(days, excluded, contract), DOMAIN days)

-----------------------------------------------------------------------------
\* A date is paid in one period, and the default report is the one of today.
PaidOnce(months, date, day) ==
  {n \in 1..(Len(months) - 1) : date \in Period(months, n, day)} = {RequestedPeriod(months, date, day)}

\* The payouts stay within the payment and leave less than the rounding of
\* each player behind; more counted days never earn less; and the days of a
\* player who is not eligible change nobody's payout.
SharesPayment(days, excluded, contract) ==
  LET eligible == Eligible(days, excluded, contract)
      pay == Payouts(days, excluded, contract)
      total == TotalPayout(days, excluded, contract)
  IN  /\ total <= contract.payment
      /\ eligible # {} => contract.payment - total < Rounding * Cardinality(eligible)
      /\ \A p, q \in eligible : days[p] >= days[q] => pay[p] >= pay[q]
      /\ \A p \in DOMAIN days \ eligible :
           /\ pay[p] = 0
           /\ \A q \in DOMAIN days : Payout([days EXCEPT ![p] = 0], excluded, contract, q) = pay[q]
=============================================================================
