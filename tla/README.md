# A TLA+ development of the SOT attendance system

Two Go programs share one PostgreSQL database and one Discord guild.  `cmd/api`
serves the dashboard, the crafting and stash endpoints and the game server's
webhook; `cmd/bot` is the Discord bot with its commands, buttons, schedulers and
the worker that delivers ledger embeds.  What makes the system hard is not a
computation but the order of things: handlers of both programs run at once over
the same rows, Discord answers late or not at all, processes are replaced while
they work, and the game server's reports come twice, late or never.

This directory models those parts in TLA+, checks them with TLC on small
instances, and proves with TLAPS all that the passing runs say of safety, for any
number of orders, handlers, items, visits and faults.

To check it: `tlc -config <cfg> <module>` for a run of section 3, and
`tlapm <module>` for each module whose name ends in `Proofs` and for
`CommonLemmas` (half a minute to some minutes each).  `PROJECT.json` lists the
runs, the theorems, the source lines every definition stands for, the hazards of
the code with the properties that watch them, and one fault per property: a
plausible bug (in the modules, an operator under a comment that begins with
"Fault:") which the property must find when it replaces the definition it is a
fault of.

## 1. Inventory

| Component | State | Operations | Interacts with | What must hold |
|---|---|---|---|---|
| Order settlement, cancellation (`business/settlement.go`, `cancellation.go`) | order status, money and stock ledgers, two balances | move an order to a status, reverse what was posted | every administrator's handler, stash, crafting, settings | the ledger is what the status says; nothing is posted twice or half reversed |
| Order status handler (`app/business_order_status.go`) | one transaction per click | lock, settle, update, queue, commit, edit the message | stock writers, delivery worker | reads stay true to the commit; no deadlock among handlers |
| Ledger notifications (`app/business_order_notifications.go`) | outbox rows with an attempt time and a message id | queue, claim, send, record, postpone | settlement, a second worker during a deployment | delivered means posted; once unless there was a fault; in the end always |
| Order drafts and messages (`app/business_orders.go`, `business_order_form.go`) | drafts in memory, orders, messages | start, edit, expire, purge, confirm, post, link | status handler, Discord, restarts | one order per draft; the message shows what was saved |
| Stock ledger (`stock/repository.go`) | safebox balances, audit rows, idempotency keys | Transact, ApplyMovements | settlement, stash, crafting | a key is one movement; a balance is its audit |
| Stash requests (`app/stash.go`, `stash_interactions.go`) | a draft per member and channel, in memory | start, add, remove, reason, clear, submit | Discord, stock ledger | what is moved is what was shown, once |
| Crafting store (`api/crafting.go`, `crafting/calculator.go`) | none of its own | calculate, split, move, tell the channels | stock ledger | replays are recognised and told once |
| Crafting plans (`app/crafting_interactions.go`) | a draft per member, in memory | add, remove, clear, calculate, post | Discord | what is posted is what was shown |
| Price notes (`business/update.go`, `api/price_notes.go`) | entries with a version, audit rows | list, update | other editors | every editor saw what he replaced; the audit has no gap; no unit twice |
| Money ledger (`money/money.go`), settings | office balance and its entries | Transact, overwrite | settlement | balance within limits |
| Visit ingestion (`serverlog/repository.go`, `restart.go`) | `server_logs`, `server_members` | store an event, close visits at a restart | webhook retries, announcer, playtime | one connected event per session, equal answers, bounded spans |
| Discord witness (`serverlog/discord.go`, `app/bot.go`), presence counter | visits of its own source; absence streaks in memory | poll, record | gateway cache, restart schedule | a torn or partial snapshot closes nothing; a visit keeps its character |
| Announcer (`serverlog/announce.go`, `app/server_log_merge.go`) | cursor and posted messages, in memory | read, merge, edit, post | both witnesses, Discord | no row passed over; a message is one change |
| Player reports (`app/player_reports.go`) | the evening's peak, in the database; a ticker | sample, save, claim, delete, send, record | a second process, Discord | the peak is the best sample; one post is up; every told evening comes to show its peak |
| Attendance broadcasts (`attendance/scheduler.go`, `app/bot.go`) | armed boundary, recap message, in memory; `attendance_logs` | reload, arm, fire, publish, save | settings, Discord, playtime | no evening lost or counted twice without a fault or an edit; one recap message |
| Playtime, report, payslips (`member/repository.go`, `attendance/report.go`, `payslip/calculator.go`) | none: queries and arithmetic | merge visits, cut periods, share a contract | visits, attendance, roster | union of visits; periods that partition the days; shares within the contract |
| Roster (`app/bot.go`, `app/member_roles.go`, `member/roles.go`) | accounts, payslip roles, administrators | fetch, upsert, reconcile, sync administrators | Discord, a second process | agrees with the guild in the end; an administrator remains, unless a roster names only strangers |
| Rate limiter (`api/ratelimit.go`) | a token bucket | allow | webhook handler | the published limit, neither more nor less |
| Webhook handler (`api/server_logs.go`) | none of its own | refuse, or store | rate limiter, visit ingestion | only what is fresh and carries the secret is stored |
| HTTP API, dashboard, commands, rendering, configuration | none of their own | validate, read, render | all | - |

The hard behaviours are, in this order: transactions of several handlers over
shared rows; two systems that cannot commit together (the database and Discord);
repeated and late input; memory that a restart empties; and reads that are acted
on after they went stale.  `PROJECT.json` lists each where it bites.

## 2. Modules, and how they correspond to the code

**OrderSettlement** is the abstract specification of the order subsystem: every
handler that commits is one step, and one that fails is none.  `status` is the
column of `business_orders`; `office` and `stock` are the balances; of the ledger
rows linked to an order the code only asks whether there are any (`EXISTS`) and
for their net (`SUM`), so `moneyRows`/`moneyNet` and `stockRows`/`stockNet` keep
just these.  `notice` and `delivered` are the outbox row of each destination.
`HandleOrderUpdate` is a click on a status button: `SettleNothing`,
`SettleOffice`, `SettleBoss` and `ReverseOrder` are the outcomes of
`SettleOrderStatus`, with its guards in order (`MayUpdate`,
`OrderStatusMovement`, `PreviousStagePosted`, the `EXISTS` checks, the balance
limits).  `WriteOffice` and `WriteStock` are everybody else who writes the
balances.  Lines of an order that concern one item are summed: they all move in
one direction, so the line-by-line checks pass exactly when the sum's does.

**SettlementTransactions** breaks the same handlers into statements under READ
COMMITTED row locks.  `tx[p]` is what a transaction has read, planned (`todo`)
and written (`moved`); `locks` are the rows it holds.  A settlement takes the
order row, then the money row, then for every line the balance `FOR UPDATE` and
the item `FOR KEY SHARE` (the audit row's foreign key); stock writers lock
balance and item exclusively, sorted by item key instead of item id.  Writes are
seen when they commit; a deadlock aborts one transaction of the ring.  It
implements OrderSettlement (property `Spec` of `stock_contention`).

**OrderDelivery** adds the worker that delivers the outbox: claim under the row
lock, send, record or postpone, with a crash or a lost answer at every point and
two workers, as during a deployment.  It implements OrderSettlement as well.

**OrderMessages** is a draft's way to a message in the business channel: drafts
behind a mutex that is only tried, the insert with its ambiguous commit, the post
and the link, which live in three systems, the purge of expired drafts and the
restart; then the status handler's edits of the linked message, after its
commit.  A draft's partner, lines and dates are one term.

**StockLedger** is `Transact` and `ApplyMovements` statement by statement: the
key's `INSERT .. ON CONFLICT`, which waits for an uncommitted row of the same key,
the fingerprint it compares on a replay, the lines in the order of their keys,
each read under its lock and written, and a commit that may be uncertain.
`TransactionPlan` and `BatchPlan` are what a request asks for, as sets of lines,
since the code refuses a plan that names a balance twice and sorts the lines by key; `ValidTransaction`
and `ValidBatch` what is refused before anything is written.  In front of the
batch stands the crafting store, which lists the balances, splits what it
needs over the two safeboxes and only then opens the transaction, and which
tells the channels afterwards (`NoticeGroups`, `SendNotice`) unless it was a replay.

**PriceUpdates** is `Update` of the price notes: `SendUpdate` waits for the lock of
the direction's table, `LockEntry` reads the row and compares the version and an
internal entry's unit, `CheckUnit` looks for the unit in another spelling, and
`CommitEdit` writes entry and audit row.  `lists` are the editors' forms, however old.

**CraftDraft** is one member's crafting plan: `Current`, `With`, `Without` and `Roomy`
are the draft store, `panels` the ephemeral messages as last rendered, and
`Fetch`, `Show` and `Post` the goroutine of an interaction, which reads the draft
anew.  A handler whose deferral fails does nothing, as if nobody had clicked.

**StashDraft** is one member's builder in one channel.  All builder messages
share the draft; every interaction is a goroutine that takes the store's lock
anew for each access, so `ReadAction`, `Change`, `Render`, `Load`, `Transact`,
`Finish` and `Confirm` are separate steps.  `builders` are the messages as last
rendered, because what can be clicked is what was rendered; a modal may be sent
in at any later time.  The movement is the atomic one of StockLedger.  The
selected group only pages the menu and is left out, but its click extends the
draft's life.

**VisitIngest** is one character's rows.  `Receive`, `UpsertAndResolve` and
`InsertAndCommit` are the three parts of `Store` that its two locks separate: the
advisory lock of the payload, the row lock of the member, and the commit.
`Joinable` and `MostRecent` are the query of `findOpenSession`.
`CloseForRestart` is one statement of the bot that waits for neither lock.
`player` and `reported` are the game server, which is outside the repository.  It
extends **WebhookGate**, which has the refusals of `serverLogWebhook` in their order
and the token bucket of `ratelimit.go` as operators on a sequence of requests.

**DiscordWitness** is one member as the bot's main loop sees him.  `game`,
`activity`, `sharing`, `visible` and `character` are the member; `memory[p]` is
`discordAbsence`, the size of the last snapshot and the restart fields of the
`Bot`.  `CheckServerRestart` and a poll are the two things a tick does; a poll
decides (`Read`, by `StaleRestartActivity`, `Acts` and `Transition`) and
`Insert` writes, with the conflict on the payload (`Repeats`).  The streak of absent
reads that lets a poll close a visit is `AbsenceStreak`; at most `MaxTorn` reads in a
row, fewer than that, fall into a rewrite of the activity.  `lit` and `parted` are
history variables: what a process has read in a row, and whether it has read the member
online without the activity since it recorded a restart.

**Announcer** is the player log channel for one character.  `rows` are
`server_logs` with the state of their transaction: the webhook's take their id
first and commit in any order, the Discord witness's are one statement and may be
dated back.  `poller` is the goroutine of `runServerLogPoller`: `Seed` gives it its
cursor, or the query fails (`SeedFails`) and the goroutine ends, for as long as this
process runs.  `ReadAnnouncements` is the query of a pass; `Skip`, `Edit`,
`EditFails`, `Post` and `PostFails` are what `announceServerLogs` does with a row,
by `Joins` and `Contradicts` of `announcementMerger.plan`.  `told`, of a message, is a
history variable: the rows it was ever made to tell of.

**PeakReport** is the player report goroutine of two processes: `Capture` and `Save`
take and keep a sample, `Claim` takes the oldest evening whose peak was not told,
under its row's lock, and `Delete`, `Send`, `Postpone` and `Record` are what follows,
with a crash, a refusal or a lost answer at every point.  It implements
**EveningBoard**, the abstract promise: a board that is only ever told the highest
count known, and comes to show the highest of the evening (`ImplementsBoard`).

**AttendanceSchedule** is `Scheduler.Run` and `publishRecap`.  The clock counts units
of thirty seconds, the loop's reload interval.  `LoadTimes` is one turn of the loop
up to its timer, `Armed` the boundary it waits for, `TimerFires` the rest;
`recaps` are the publications in progress behind their mutex (`TakeMutex`, `Store`,
`Publish`).  It extends **Payroll**, which has the computed parts as operators:
`PlaytimeRecap` (the window query, row by row), the contract periods, the days of
the monthly report, and the payslip calculator.

**MemberRoster** is `syncGuildMembers` in its three statements, by two processes, with
`TryLock` and the guard on an empty administrator list.

**\*Proofs** modules hold the theorems, one for each group of components (section 5):
OrderProofs, StockProofs, DraftsProofs, PeakReportProofs, VisitProofs,
WitnessProofs, and BotLoopProofs for the loops of the bot.  **CommonLemmas** has
what several of them need: what the library's sums over sets and functions do when
a summand changes, and what happens to the entries of a sequence when one is
appended or replaced.

**MC\*** modules hold the
instances: a definition where a `.cfg` cannot write the value.  Three of them run
parts of a program side by side that share no state (MCDrafts, MCStockLedger,
MCAttendance): each behaviour is about one part, which a variable names, and the
other parts stay in their initial states.  This is the sum of the parts' state
spaces, and nothing is lost by it, since no property relates them.

A module's `TypeOK` says what its variables range over.  It is checked where it
says more than that (OrderSettlement's, with the limits of the balances).

## 3. Runs

Every run takes well under five minutes with two workers.

| Run | Module, configuration | Instance, and why it is enough | What it shows |
|---|---|---|---|
| `transactions` | MCSettlementTransactions, SettlementTransactions | Two administrators, a sale and a purchase over two items whose ids and keys are in opposite orders, balances so small that every floor and ceiling is met | the ledgers, the status and the queued embeds agree; what each transaction decided on stays true until it commits; status updates never wait in a ring |
| `stock_contention` | MCSettlementTransactions, StockContention | One sale and one stock writer over the two items, which can deadlock in either order | the statements implement OrderSettlement (`Spec`), the balances are conserved, every transaction ends |
| `delivery` | MCOrderDelivery, OrderDelivery | One sale with both embeds, two workers, two faults (one to lose an answer, one to crash the retry) | delivered means posted and repeats need faults (`DeliveredOnce`), a reversal is last, all is delivered |
| `drafts` | MCDrafts, Drafts | Two order drafts, two clicks at once, one status handler, one edit, two faults; and two stash interactions at once, five in all and four with a second builder, two items of which a draft holds one (so the limit is met), one fault, a draft that lives one instant of two | one order per draft and reposts need a lost answer (`CreatedOnce`), messages show what was saved; what is moved is what was shown, once, and never an expired draft |
| `visits` | VisitIngest | Two deliveries at once; the clock long enough for two visits and two restarts, both windows two instants; four requests over gaps below, at and above what earns a token | how visits are cut; the published limit |
| `stock_ledger` | MCStockLedger, StockLedger | Two handlers; a deposit, a withdrawal, a request that names an item twice, another actor's reuse of a key, and a batch whose yield exceeds the request; balances up to two. Three price entries, two of one listing, two editors, a unit in three spellings, two updates of an entry. Two panels or more, three products of which a plan holds two, five clicks, a plan that lives one instant of two | what an idempotency key promises; that audits are whole; what a post tells |
| `witness` | DiscordWitness | Two characters, two restarts of the game server, four changes of the member, reads torn twice in a row against a streak of three, as in the code | which visits are inferred, and which are not |
| `announcer` | Announcer | Three rows of two witnesses, a page of two, one fault, which may be that of the first query, and one restart; a window of 0, so that two instants lie outside it | no row passed over, a message is one change and shows the better witness, the cursor comes by |
| `peak` | PeakReport | Two processes, two evenings, one of which Discord may refuse for ever, few faults | the peak is the best sample, one post is up, EveningBoard is implemented, with its liveness |
| `attendance` | MCAttendance, Attendance | Three days of six units, an early, an extended and an overnight schedule that begins as the early one ends, two characters whose visits overlap; every set of three visits in six instants; every contract day of six months; two processes and a guild that changes | evenings count once, one recap message, the arithmetic equals its definitions, the roster converges |
| `stock_replay` | MCStockLedger, StockReplay | One crafting request sent again by one handler | a violation, section 6 |
| `visit_order` | VisitIngest, VisitOrder | One delivery at a time, no restart | a violation, section 6 |

Symmetry: the handlers, workers and products of `stock_ledger`, and the drafts,
clicks, terms and handler slots of `drafts`, are interchangeable; these runs check
invariants and step properties and no liveness.

`CHECK_DEADLOCK FALSE`: where a clock, a fault budget or a number of rows ends, and
where everything is delivered or answered, nothing more happens (`delivery`, `drafts`,
`visits`, `visit_order`, `stock_ledger`, `stock_replay`, `witness`, `announcer`,
`attendance`).  The others check deadlock: in the two runs of SettlementTransactions
a stop would be a ring of waiters, and PeakReport's ticker never stops.

## 4. Fairness

* `TxSpec`: strong fairness of every process's `Step`.  A session that can run
  runs; PostgreSQL grants a released row to a waiter, and breaks a ring.
* `DeliveryFairness`: the ticker returns every minute and takes the rows that are
  due longest first, so each is attempted again and again; sending succeeds
  at last when it is tried for ever (strong fairness of `SendAccepted`).  Crashes
  are not fair, and bounded.
* `Announcer!FairSpec`: weak fairness of the first query, which has a deadline of ten
  seconds and then has succeeded or failed, and of the pass, which a ticker starts every
  ten seconds once it has succeeded.  Where it fails nothing is fair: no pass follows in
  that process (`app/bot.go:474-477`), and `CursorCatchesUp` makes an exception of it.
  Faults are bounded and nothing makes them happen; an edit of a deleted
  message does fail, and the pass must get past it.
* `PeakReport!Spec`: the ticker beats and a process goes on with its tick (weak
  fairness of each).  Refusals and crashes are bounded faults which nothing makes
  happen, but for the evenings of `Shunned`, which Discord refuses for ever; the
  other evenings must be told all the same.
* `BotSpec` of MCAttendance: weak fairness of a sync's beginning, which the five
  minute ticker and every reconnect cause, and of its steps.  Failures and changes of
  the guild are bounded and not fair.

Timing the code relies on, as named assumptions of the models: a process that
sleeps takes its tick within the thirty seconds to the next, and a tick has a
deadline of forty seconds (PeakReport's `Beat`); a recap takes at most one unit of
thirty seconds, and a load of the schedule takes no time unless a fault makes it
slow (AttendanceSchedule's `TimePasses`); a request is not served for longer
than the freshness window (VisitIngest's `Tick`).

No other run assumes fairness, and none needs it.

## 5. Proofs

Every theorem is about the specification a run of section 3 checks, for all values of
the constants that meet the assumptions below; of the bounds on clocks, clicks and
faults nothing is used but that they are numbers.

| Module | Theorem | Statement |
|---|---|---|
| OrderProofs | `TypeCorrect` | `TypeOK`: in particular no balance leaves its limits |
| | `LedgerCorrect`, `NoticeCorrect` | `LedgerMatchesStatus`, `NoticeMatchesLedger` |
| | `BalancesCorrect` | `BalancesConserved`: a balance is what others wrote and the sum of the orders' rows |
| | `StagesCorrect`, `RepeatsPostNothing` | the steps `StagesInOrder`, `LedgerMovesWithStatus` |
| | `TransactionsImplement` | `TxSpec => Spec`: statements under row locks implement the one-step handlers |
| | `TxTypeCorrect`, `TxLedgerCorrect`, `TxBalancesCorrect` | what OrderSettlement promises, of the statements |
| | `ReadsCorrect` | `ReadsStayTrue` |
| | `RingsCorrect` | `RingsNeedAWriter`: settlements never deadlock each other |
| | `DeliveryCorrect`, `ReversalCorrect` | `DeliveredOnce`, `ReversalIsLast` |
| | `DeliveryImplements` | `DeliverySpec => Spec` |
| StockProofs | `KeyCorrect`, `DoneCorrect` | `KeyActsOnce`, `DoneIsWhole` |
| | `AuditCorrect` | `BalanceIsAudited`, the stock half of `AuditsAreWhole` |
| | `RingsCorrect` | `RingsNeedABatch`: stash requests never deadlock each other |
| | `AuditsCorrect` | `AuditsAreWhole`: the audits of stock and prices |
| | `PlansCorrect` | `PostsAsShown` of the crafting plans |
| DraftsProofs | `CreatedCorrect`, `MessagesCorrect` | `CreatedOnce`, `MessagesShowSavedTerms` of the order drafts |
| | `SubmittedCorrect`, `MovedCorrect`, `ExpiredCorrect` | `SubmittedOnce`, `MovesAsShown`, `ExpiredNeverReturns` of the stash drafts |
| PeakReportProofs | `PeakCorrect`, `PostsCorrect` | `PeakIsBestSample`, `OnePostUp` |
| | `BoardImplemented` | the safety part of `ImplementsBoard` |
| VisitProofs | `SessionsCorrect` | `SessionIsOneVisit`: one connected event per session, rows within the windows of `findOpenSession` |
| | `AnswersCorrect` | `AnswersAgree`: all answers to an event name one row |
| | `VisitsCorrect` | `WholeVisits`: where nothing is lost or late, sessions are the visits |
| | `RateLimitIsKept`, `LimitIsKeptCorrect` | the token bucket keeps the published limit, exactly, over every sequence of requests; `LimitIsKept` |
| WitnessProofs | `WitnessTypeCorrect` | the witness's state is well typed |
| | `OneOpenVisitCorrect` | `OneOpenVisit` |
| | `NoFalseExitCorrect`, `StaleNeedsALapseCorrect` | the steps `NoFalseExit`, `StaleNeedsALapse`, the second for activities with and without a start |
| BotLoopProofs | `AnnouncerTypeCorrect`, `NothingPassedOverCorrect`, `MessageIsOneChangeCorrect` | the announcer's types, `NothingPassedOver`, `MessageIsOneChange` |
| | `AdministratorsRemainCorrect` | the step `AdministratorsRemain` of the roster, for members and administrators of any roles |
| | `PlaytimeIsTheUnion`, `PlaytimeCorrect` | the window query credits the instants that some visit covers, for any finite set of visits; `PlaytimeIsUnion` |
| | `PaymentIsShared`, `DatesArePaidOnce`, `PayslipsCorrect` | shares within the payment, one period per date; `PayslipsKeepTheContract` |
| | `ScheduleInvariant`, `EveningsCountOnceCorrect` | the scheduler's inductive invariant; `EveningsCountOnce` |
| | `RecapInvariant`, `OneRecapMessageCorrect` | its strengthening for the recap messages; `OneRecapMessage` |

### Assumptions

They stand, named, in the modules that declare the constants, and TLC evaluates them
in every run.

* Orders: finitely many; directions are sales and purchases; limits are naturals and a
  total is within the money limit; every order moves at least one unit of some item (the
  form refuses an order without lines); historical orders are orders.  Administrators and
  stock writers are different processes, and ids and keys of items are orders of theirs
  (`PlacesAssumption`).
* Stock: limits and quantities are naturals, a recipe yields at least one unit, a batch
  names recipes with at least one craft each, and the keys of items rank them without ties.
* Prices: forms and first values are values; trimming a unit twice is trimming it once;
  the seeds list no unit twice.
* Bounds on faults, edits, members and posts, and the lives of drafts and plans, are
  naturals; evenings are numbered from one; the values that stand for "none" are not
  values (`ClaimAssumption`, `NoneAssumption`).
* Visits: windows and bounds are naturals, restarts are instants of the clock, and the
  freshness window is shorter than the grace of a connecting member, as the code's
  constants are (`TimeAssumption`: `TimestampSkew` is five minutes, `connectGrace`
  thirty); a bucket has a positive rate and burst (`GateAssumption`).
* Discord: a rewrite of the activity spoils fewer reads in a row than the streak asks
  for, and restarts are not at instant zero (`WitnessAssumption`).
* Announcer: a page has a row, bounds are naturals (`AnnouncerAssumption`).
* Attendance: in every schedule that validation accepts, the evening and the time between
  two evenings are at least two units (`ScheduleAssumption`: times are HH:MM, a unit is
  half a minute); visits are finite sets of instants, ages naturals (`PayrollAssumption`).
* Roster: bounds are naturals (`RosterAssumption`).  The member roles and the
  administrator roles are configured apart, and nothing relates them.

### The arguments

**OrderSettlement.**  The inductive invariant is
`TypeOK /\ LedgerMatchesStatus /\ NoticeMatchesLedger` (`IInv`).  None of the last two is
inductive without the first, and `NoticeMatchesLedger` not without
`LedgerMatchesStatus`: an embed counts the postings of a ledger, and that a posting is
the first one is known from the status only.  `PerOrder` restates the invariant for
one order, `SameOrderKeeps` frames the orders a step does not touch, and there is one
lemma per outcome of the handler.  `BalancesConserved` speaks of a sum over all orders,
and a step changes one summand; that this changes the sum by as much is proved in
CommonLemmas without induction, by the smallest set for which it fails.

**SettlementTransactions.**  `TxInv` says of each process what its transaction has
planned, locked and written (`Proc`), and of the row locks that they exclude each other
(`LockTable`).  The row lock of the order makes what was read of it stay true, so at
the commit the guards of `HandleOrderUpdate` hold of the present state, which is the
refinement.  A ring of settlements alone is impossible because each waits for a row
that stands later in one order of rows than all it holds: the highest row anybody in
the ring waits for has a holder who would have to wait for a higher one.  The order of
the stock writers differs, so a ring with one of them in it does occur
(`stock_contention` meets it).

**OrderDelivery.**  `DeliveryInv` ties each claim to the row it has locked (`ClaimsFit`)
and counts for each row what the channel was told against what the row may still tell
it (`RowFits`).

**StockLedger.**  `StockInv` says what a handler that moves stock holds: its key was unused
and nobody else moves under it, and the balances it read stay as they are since nobody
else holds their rows (`HandlerFits`, `Apart`); and what may be on record under a key is
the plan of a request, whole (`KeyFits`, `RecordFits`), so that a replay's answer is
true (`AnswerFits`).

**PriceUpdates.**  `PriceInv`: the table's lock keeps all but one editor out, so what he
read stays true until he commits, and a form with the present version has the present
values.  That one field, the version, vouches for the others is the invariant
that the audit rests on.

**CraftDraft.**  No lock spans two accesses to the draft.  `PlanInv` says that while nothing
excuses a surprise there is one panel and one click at a time; that a result on the
panel is the plan, unless the plan is gone or the builder is about to be drawn over it;
and that a post under way has fetched what its panel shows.  What has lapsed and can
still be fetched was revived by a Remove.

**OrderMessages.**  `OrderInv`: a draft and its order name each other while the draft exists,
and the confirm handler, which is the only one of its draft, keeps every other from
looking for the message between its send and the link.

**StashDraft.**  In `StashInv` every draft is named by the `/stash` that opened it, and an
interaction's id is the key of its movement.  While the member waits for his answers,
only the newest interaction has a key that is not used up, and a draft that was moved
stays stored only until the handler that moved it clears it, so no later one finds it.
`ShownInv` adds, for one builder, that the builder shows the draft or a handler is about
to redraw it, and carries what a Submit will move from the click through reading,
loading and moving.  `ExpiredNeverReturns` is a case for each access to the store: each
looks at the clock before it returns or keeps what is there.

**PeakReport.**  `PeakInv`: what a process read of its row when it claimed it stays true until
it lets go (`JobFits`, `OneHolder`), so the post it deletes is the one on record, and a
post that is up and not on record was counted in `untracked` when it got lost
(`PostsFit`).

**VisitIngest.**  `VisitInv`: while a delivery is served its event has no row and no other
delivery of it is served, by the advisory lock of the payload, so answers agree
(`Pending`).  Between the look for an open session and the insert nobody else stores a row
of the character, by the member's row lock, so the session found is still the one to
join.  The restart statement waits for neither lock; what saves the session is that its
exit is later than a row already there (`Joins`).  For `WholeVisits`, an event that is
reported in order finds the session of its visit (`WholeInv`).

**WebhookGate.**  The bucket holds the least that any window up to now has left of the
limit, or is full (`BucketFits`).  So it has a token exactly when every window does,
which is the published limit; this is an induction over the requests, stated as in
Payroll.

**DiscordWitness.**  An exit needs a streak of absent reads, of which a rewrite spoils
fewer; the others reach back to a time when nothing was shown (`Streaks`).  A stale
activity is older than the restart that left it (`Thrown`), and a process that has
recorded the restart keeps it while it inserts (`Lapses`).  Of an activity that does not
tell its start the process remembers no more than it read (`Apart`), so it opens a visit
on one only after a read without it (`Undated`).  With one process nothing is
stored between the lookup of the open visit and the row that continues it (`Lookups`).

**Announcer.**  A pass is in the order of ids and leaves out only rows that had not
committed (`PassIsWhole`), there is none before the cursor is seeded (`PollerFits`), and
an edit tells what the message told before (`Kept`), so
what is passed over was overtaken.  A message has at most the two witnesses, since one
that names both is not joined again, and carries the time of one of its rows (`Fits`).

**MemberRoster.**  A sync reconciles and names administrators after it has upserted
everybody it fetched (`MembersKnown`), so an administrator it names has an account if he
holds a member role too.  One that is none may have an account from before, or none: a
sync takes the last administrators away only with a roster that names administrators
and no account among them (`LocksNobodyElseOut`, `NamesStrangersOnly`).

**Payroll.**  Induction is stated as `Climb` of CommonLemmas does, without a predicate as a
parameter: a set of numbers that has 0, and with every number the next, has them all.
The community modules' folds are recursive functions, so what a sum does when one summand
changes is provable.  Playtime adds the rows in the query's order: the last of them
opens an island, or makes the last island longer, and the instants covered grow by as
much.  The payslip's shares lie between bounds whose sums are the payment and the
payment less the rounding; the periods' boundaries increase, so one period has the date.

**AttendanceSchedule.**  `ScheduleInv`: a call lasts at most one unit, and the boundary the
loop waits for follows the clock it read, so boundaries fire in increasing order.  An
evening that ended unsaved is carried by the loop or by its one final recap (`Carried`)
or is lost, and what is lost, with the end that is about to be overslept (`Debt`), is
within the faults and twice the edits (`Paid`).  Without an edit every row is that of an
evening that ended (`Unedited`), so no day is counted too often.

**The recap messages.**  `RecapInv`: publications exclude each other by their mutex
(`CallsApart`), and the message remembered is one of its window, which has begun
(`MemoryFits`).  Counting messages is not inductive; messages posted and messages still
owed are.  A window is owed one while it has none to edit or a call will forget it
(`Anew`), and another if the final recap of the evening before is about to
replace the memory after the next has begun (`Beside`); the sum stays within one and
the faults and edits (`Few`).  An evening that ended has its result shown or a call
that brings it (`Brought`), and no live call follows, since a live call is of an evening
whose end the loop has not come by (`ResultsFit`).

### Only model-checked

* All liveness: `TransactionsEnd`, `QueuedIsDelivered`, `CursorCatchesUp`,
  `PayslipRosterConverges` and the fairness part of `ImplementsBoard`.  TLAPS has no
  proof rule for fairness with ENABLED here.
* `ConflictMeansDifferentInput` and `OrderNeverMerges`, which runs find violated.

Every other property of a run is stated by a theorem.

## 6. Findings

* `visit_order`: `findOpenSession` bounds the newest event of an open session only
  from below (`serverlog/repository.go:149`), so a disconnect that arrives after
  the next visit's connecting event closes that visit, and its own stays
  open.  `README.md:98` says "replaying events in any order reaches the same
  answer".  `OrderNeverMerges` only asks that a late event never puts together what
  the order of the events keeps apart.
* `stock_replay`: the crafting store computes its split over the safeboxes from
  the balances before it looks at the key (`api/crafting.go:178`), so a retry of a
  stored request plans other movements and is told that its key "was already used
  for different data" (`api/crafting.go:225`).

## 7. What is not modelled

The reason stands with each component in `PROJECT.json`.  In short:

* text and images: the parsing of commands, embeds, report rendering;
* reading: dashboard, listings, summaries, the current log that a member posts by
  hand (`handleCurrentLog` stores nothing), the listings of the money ledger;
* request decoding, authentication, configuration and wiring;
* the Discord presence fallback of `PlaytimeRecap`, for accounts from before the
  webhook: one more source of visits under the same union;
* code nothing calls (`serverlog/cfx.go`, `reconcile.go`).

Inside the modelled parts the data is abstract: names, prices, reasons and dates
are model values, times are instants, and PostgreSQL and Discord are what the code
uses of them.

## 8. Behaviour met while modelling that no property forbids

The code does the following, and so do the models where they reach it; no property
forbids it, or the property says that it makes an exception of it.  It is kept here for
whoever decides whether it should be so.

* Two status updates edit the linked message after their commits and may do so in
  the other order; the message then shows the earlier status until the next
  update (`app/business_order_status.go:169`; `README.md:312`).
* A visit that was closed while its activity was hidden is opened again with the
  payload it had, which the insert takes for a repetition; the member plays and
  has no open visit until the phase or the activity changes
  (`serverlog/discord.go:182`).
* A webhook row that is corroborated by live presence already names the Discord
  witness, so that witness's own row is posted as a second message of the change
  (`app/server_log_merge.go:79`; `README.md:114`).
* A webhook transaction that commits after a later id was announced is not
  announced (`serverlog/announce.go:82`); the model records it as `overtaken`.
* A bot whose first `LatestEventID` fails logs it and announces nothing until it is
  restarted, though the database may answer the next moment (`app/bot.go:474-477`): the
  exception of `CursorCatchesUp`.
* After a server restart an activity that lingers without a start is believed again by
  the same process as soon as one read shows the member online without it, even a read
  that a rewrite spoils: the visit that the restart closed is opened once more
  (`app/server_restart.go:55-64`).  The exception of `StaleNeedsALapse`; an activity
  with a start is not believed.
* Two processes that poll the same member during a deployment may open a visit
  each; later polls close them one by one.
* A Submit whose balances cannot be listed again afterwards is told as a failure
  although the stock has moved, and the draft stays (`app/stash.go:112-115`).  An
  older builder submits the draft under the action of the newer one, and Clear
  leaves a builder that looks alive over a draft without an action.
* A settings form overwrites the office balance with the value it was opened with
  (`settings/repository.go:62`).
* Attendance is judged and stored per character (`member/repository.go:223-264`),
  while `README.md:158` says that it is decided on the member's total with one row
  per member.  A member who reaches the threshold with two characters together
  attends with neither.
* An evening whose end is moved later while its final save is due is saved under
  both ends, as two rows, and the monthly report adds their playtime.  A load that is
  slow across the boundary, or a final recap that fails, loses the evening:
  nothing makes up for it later (`attendance/scheduler.go:83`).  A visit that is
  delivered after the final save is not counted.
* A recap message that was deleted is not replaced before the next evening.
* Removing a product from a crafting panel revives a plan that has expired
  (`app/crafting_interactions.go:85`; `README.md:132`: "Drafts expire after 10
  minutes"), and Post calculates the draft anew, so a plan that another panel
  changed in between is posted with that change.
* A sync that finds administrators, none of whom has an account since none holds a
  member role, demotes all the others: the guard is on an empty list only
  (`app/bot.go:654-663`).  The exception of `AdministratorsRemain`.
* `payment * days` of a payslip wraps for a payment above MaxInt64/31, which the
  validation of the settings does not exclude (`settings/repository.go:142`,
  `payslip/calculator.go:97`).
* A comment (`api/server_logs.go:40-43`) says that the limiter caps unauthenticated
  traffic too; it runs after the secret was verified.  WebhookGate has the order of
  the code.

## 9. State of the plan

Done: the order subsystem (OrderSettlement, SettlementTransactions, OrderDelivery,
OrderMessages), the stock writers (StockLedger, StashDraft), crafting plans
(CraftDraft), price notes (PriceUpdates), the visits (WebhookGate, VisitIngest,
DiscordWitness, Announcer), player reports (PeakReport, EveningBoard), attendance
and pay (AttendanceSchedule, Payroll), the roster (MemberRoster), and the
theorems of section 5, which cover every safety property of a passing run.

Worth doing next:

1. An abstract specification of a visit, as EveningBoard is of the peak: what the
   webhook and the Discord witness together promise playtime.
2. The money ledger's manual entries as operations of their own; they are
   `WriteOffice` of OrderSettlement now.

When the code changes, the run of the part shows first whether the model still holds;
then the step lemma of the changed action is the one to repair, since each invariant's
proof has one lemma per action.
