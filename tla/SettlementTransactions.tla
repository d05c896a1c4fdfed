----------------------- MODULE SettlementTransactions ----------------------
(***************************************************************************)
(* The transactions behind OrderSettlement, statement by statement, under  *)
(* PostgreSQL's READ COMMITTED row locks.  An administrator's transaction  *)
(* locks the order row, decides what to move from what it reads there, and *)
(* posts one balance at a time; stock writers (the stash, the stock API    *)
(* and the crafting store) lock the same balances in an order of their     *)
(* own.  What a transaction writes is seen by others only when it commits. *)
(*                                                                         *)
(* Locks are taken as the statements take them:                            *)
(*   - settlement and cancellation lock the balance row FOR UPDATE, and    *)
(*     the audit row they insert takes the stock item row FOR KEY SHARE    *)
(*     through its foreign key;                                            *)
(*   - the stock writers join balance and item and say FOR UPDATE without  *)
(*     OF, which locks both rows exclusively, in any safebox.              *)
(***************************************************************************)
EXTENDS OrderSettlement

CONSTANTS
  Admins,     \* administrators with a status update in progress
  Writers,    \* stock.Repository.Transact or ApplyMovements calls in progress
  ItemId,     \* ItemId[i]: the id, by which the settlement takes the items
  KeyRank,    \* KeyRank[i]: by item_key, as the stock writers take them
  Nobody      \* an idle process works on no order

ASSUME ProcsAssumption == Admins \cap Writers = {}
ASSUME PlacesAssumption ==
         /\ IsFiniteSet(Items)
         /\ ItemId \in [Items -> 1..Cardinality(Items)] /\ IsInjective(ItemId)
         /\ KeyRank \in [Items -> 1..Cardinality(Items)] /\ IsInjective(KeyRank)

VARIABLES
  tx,     \* what each process's transaction has read, planned and written
  locks   \* row locks held: [row, by, mode]

txVars == <<tx, locks>>
allVars == <<vars, tx, locks>>

Procs == Admins \cup Writers

OrderRow(o) == <<"order", o>>
MoneyRow == <<"money", "office">>
BalanceRow(i) == <<"balance", i>>
ItemRow(i) == <<"item", i>>

\* A statement waits for a row, and adds delta to it when it is a balance; at is
\* its place among the statements of its transaction.
Take(row, mode, delta, at) == [row |-> row, mode |-> mode, delta |-> delta, at |-> at]
Earliest(S) == {s \in S : \A t \in S : s.at <= t.at}

Idle == [pc |-> "idle", order |-> Nobody, target |-> "open", todo |-> {}, moved |-> {}]

-----------------------------------------------------------------------------
\* Row locks.  Only two KEY SHARE locks are compatible.
Blockers(p, s) ==
  {l.by : l \in {l \in locks : /\ l.row = s.row
                               /\ l.by # p
                               /\ ~(l.mode = "keyshare" /\ s.mode = "keyshare")}}

\* Committed value of a balance row, and the limit of its column.
Committed(row) == IF row = MoneyRow THEN office ELSE stock[row[2]]
Limit(row) == IF row = MoneyRow THEN MaxMoney ELSE MaxStock
IsBalance(row) == row = MoneyRow \/ row[1] = "balance"

\* The statement a process is about to run, if it is waiting for a row.
Pending(p) ==
  CASE tx[p].pc = "begun" -> {Take(OrderRow(tx[p].order), "update", 0, 0)}
    [] tx[p].pc = "working" -> Earliest(tx[p].todo)
    [] OTHER -> {}
WaitsFor(p) == UNION {Blockers(p, s) : s \in Pending(p)}

\* Processes that wait for each other in a ring.
Ring(C) == C # {} /\ \A p \in C : WaitsFor(p) \cap C # {}
Deadlocked(p) == \E C \in SUBSET Procs : p \in C /\ Ring(C) /\ \A q \in C : ~Ring(C \ {q})

-----------------------------------------------------------------------------
\* The lines of a settlement: the balance, then the audit row's foreign key.
SettleLines(place, delta) ==
  UNION {{Take(BalanceRow(i), "update", delta[i], 2 * place[i]),
          Take(ItemRow(i), "keyshare", 0, 2 * place[i] + 1)} : i \in {i \in Items : delta[i] # 0}}

MoneyLine(delta) == IF delta = 0 THEN {} ELSE {Take(MoneyRow, "update", delta, 0)}

\* Fault: a cancellation takes the items in the reverse order.
BackwardStatements(o, target) ==
  CASE OrderStatusMovement(o, target) = "none" -> {}
    [] OrderStatusMovement(o, target) = "office" -> MoneyLine(MoneyDelta(o))
    [] OrderStatusMovement(o, target) = "boss" -> SettleLines(ItemId, StockDelta(o))
    [] OTHER -> MoneyLine(-moneyNet[o]) \cup
                SettleLines([i \in Items |-> Cardinality(Items) - ItemId[i]],
                            [i \in Items |-> -stockNet[o][i]])

\* The statements that follow once the order row is locked and read.
Statements(o, target) ==
  CASE OrderStatusMovement(o, target) = "none" -> {}
    [] OrderStatusMovement(o, target) = "office" -> MoneyLine(MoneyDelta(o))
    [] OrderStatusMovement(o, target) = "boss" -> SettleLines(ItemId, StockDelta(o))
    [] OTHER -> MoneyLine(-moneyNet[o]) \cup
                SettleLines(ItemId, [i \in Items |-> -stockNet[o][i]])

\* SettleOrderStatus refuses the target before it posts anything.
Accepts(o, target) ==
  /\ MayUpdate(o, target)
  /\ OrderStatusMovement(o, target) # "refused"
  /\ OrderStatusMovement(o, target) \in {"office", "boss"} => PreviousStagePosted(o, target)
  /\ OrderStatusMovement(o, target) = "office" => ~MoneyPosted(o)
  /\ OrderStatusMovement(o, target) = "boss" => ~StockPosted(o)

Release(p) ==
  /\ tx' = [tx EXCEPT ![p] = Idle]
  /\ locks' = {l \in locks : l.by # p}

\* An administrator clicks a button, or picks an entry, of an order's message.
BeginUpdate(a, o, target) ==
  /\ tx[a] = Idle
  /\ status[o] # "unsaved"
  /\ target \in OrderStatuses(o)
  /\ tx' = [tx EXCEPT ![a] = [Idle EXCEPT !.pc = "begun", !.order = o, !.target = target]]
  /\ UNCHANGED <<vars, locks>>

\* Fault: the order is read without FOR UPDATE.
ReadOrder(a) ==
  /\ tx[a].pc = "begun"
  /\ IF Accepts(tx[a].order, tx[a].target)
     THEN /\ tx' = [tx EXCEPT ![a] = [@ EXCEPT !.pc = "working",
                                !.todo = Statements(tx[a].order, tx[a].target)]]
          /\ UNCHANGED locks
     ELSE Release(a)
  /\ UNCHANGED vars

\* SELECT ... FOR UPDATE OF the order, and the decision taken from it.
LockOrder(a) ==
  /\ tx[a].pc = "begun"
  /\ WaitsFor(a) = {}
  /\ LET o == tx[a].order IN
     IF Accepts(o, tx[a].target)
     THEN /\ tx' = [tx EXCEPT ![a] = [@ EXCEPT !.pc = "working",
                                                !.todo = Statements(o, tx[a].target)]]
          /\ locks' = locks \cup {[row |-> OrderRow(o), by |-> a, mode |-> "update"]}
     ELSE Release(a)
  /\ UNCHANGED vars

\* A stash movement or a crafting batch: Boss lines before Public ones, each in
\* item_key order.  Only the Boss lines change a balance of this model.
WriterLines(boss, public, delta) ==
  (UNION {{Take(BalanceRow(i), "update", delta[i], 2 * KeyRank[i]),
           Take(ItemRow(i), "update", 0, 2 * KeyRank[i] + 1)} : i \in boss})
    \cup {Take(ItemRow(i), "update", 0, 2 * (Cardinality(Items) + KeyRank[i]) + 1) : i \in public}

BeginStock(w) ==
  \E boss, public \in SUBSET Items, delta \in [Items -> {-1, 1}] :
    /\ tx[w] = Idle
    /\ boss \cup public # {}
    /\ \A i \in Items \ boss : delta[i] = 1
    /\ tx' = [tx EXCEPT ![w] = [@ EXCEPT !.pc = "working",
                                         !.todo = WriterLines(boss, public, delta)]]
    /\ UNCHANGED <<vars, locks>>

\* What a process's transaction is once statement s has run.
Ran(p, s) ==
  [tx EXCEPT ![p] = [@ EXCEPT
     !.todo = tx[p].todo \ {s},
     !.moved = IF IsBalance(s.row)
               THEN tx[p].moved \cup {[row |-> s.row, delta |-> s.delta,
                                      after |-> Committed(s.row) + s.delta]}
               ELSE tx[p].moved]]
Fits(s) == IsBalance(s.row) => Covered(Committed(s.row) + s.delta, Limit(s.row))

\* Fault: a balance is read without FOR UPDATE.
ExecuteUnlocked(p) ==
  /\ tx[p].pc = "working"
  /\ \E s \in Earliest(tx[p].todo) : Fits(s) /\ tx' = Ran(p, s)
  /\ UNCHANGED <<vars, locks>>

\* Fault: a refused statement leaves its transaction open.
ExecuteOrHang(p) ==
  /\ tx[p].pc = "working"
  /\ WaitsFor(p) = {}
  /\ \E s \in Earliest(tx[p].todo) :
       /\ Fits(s)
       /\ tx' = Ran(p, s)
       /\ locks' = locks \cup {[row |-> s.row, by |-> p, mode |-> s.mode]}
  /\ UNCHANGED vars

\* The next statement gets its row; a balance beyond its limits is refused and
\* the transaction rolls back.
Execute(p) ==
  /\ tx[p].pc = "working"
  /\ WaitsFor(p) = {}
  /\ \E s \in Earliest(tx[p].todo) :
       \/ /\ Fits(s)
          /\ tx' = Ran(p, s)
          /\ locks' = locks \cup {[row |-> s.row, by |-> p, mode |-> s.mode]}
       \/ ~Fits(s) /\ Release(p)
  /\ UNCHANGED vars

\* The values a transaction's own writes leave in the balances.
Written(p) == tx[p].moved
OfficeAfter(p) ==
  IF \E m \in Written(p) : m.row = MoneyRow
  THEN (CHOOSE m \in Written(p) : m.row = MoneyRow).after ELSE office
StockAfter(p) ==
  [i \in Items |->
     IF \E m \in Written(p) : m.row = BalanceRow(i)
     THEN (CHOOSE m \in Written(p) : m.row = BalanceRow(i)).after ELSE stock[i]]
StockMoved(p) ==
  [i \in Items |->
     IF \E m \in Written(p) : m.row = BalanceRow(i)
     THEN (CHOOSE m \in Written(p) : m.row = BalanceRow(i)).delta ELSE 0]
MoneyMoved(p) ==
  IF \E m \in Written(p) : m.row = MoneyRow
  THEN (CHOOSE m \in Written(p) : m.row = MoneyRow).delta ELSE 0

\* The status update, the outbox rows and the ledger rows become visible at once.
CommitUpdate(a) ==
  LET o == tx[a].order
      moved == {d \in Destinations :
                  \E m \in Written(a) : (d = "office") <=> (m.row = MoneyRow)}
  IN  /\ a \in Admins
      /\ tx[a].pc = "working"
      /\ tx[a].todo = {}
      /\ status' = [status EXCEPT ![o] = tx[a].target]
      /\ office' = OfficeAfter(a)
      /\ stock' = StockAfter(a)
      /\ LinkMoney(o, MoneyMoved(a))
      /\ LinkStock(o, StockMoved(a))
      /\ Queue(o, moved, IF tx[a].target = "cancelled" THEN "reversed" ELSE "posted")
      /\ Release(a)
      /\ UNCHANGED otherVars

CommitStock(w) ==
  /\ w \in Writers
  /\ tx[w].pc = "working"
  /\ tx[w].todo = {}
  /\ stock' = StockAfter(w)
  /\ otherStock' = [i \in Items |-> otherStock[i] + StockMoved(w)[i]]
  /\ Release(w)
  /\ UNCHANGED <<orderVars, outboxVars, office, otherMoney>>

\* PostgreSQL aborts one transaction of a ring.
DetectDeadlock(p) ==
  /\ Deadlocked(p)
  /\ Release(p)
  /\ UNCHANGED vars

\* The ten second timeout, a lost connection or a dying process: rolled back.
Abandon(p) ==
  /\ tx[p] # Idle
  /\ Release(p)
  /\ UNCHANGED vars

\* !money and the settings page: one statement on the balance row.
OfficeStatement ==
  /\ ~\E l \in locks : l.row = MoneyRow
  /\ WriteOffice
  /\ UNCHANGED txVars

TxInit == Init /\ tx = [p \in Procs |-> Idle] /\ locks = {}

Step(p) ==
  \/ LockOrder(p)
  \/ Execute(p)
  \/ CommitUpdate(p)
  \/ CommitStock(p)
  \/ DetectDeadlock(p)

TxNext ==
  \/ \E o \in Orders : SaveOrder(o) /\ UNCHANGED txVars
  \/ \E a \in Admins, o \in Orders, target \in Statuses : BeginUpdate(a, o, target)
  \/ \E w \in Writers : BeginStock(w)
  \/ \E p \in Procs : Step(p) \/ Abandon(p)
  \/ OfficeStatement
  \/ \E o \in Orders, d \in Destinations : DeliverNotification(o, d) /\ UNCHANGED txVars

\* A transaction keeps running while it can; a waiter is next on its row.
TxSpec == TxInit /\ [][TxNext]_allVars /\ \A p \in Procs : SF_allVars(Step(p))

-----------------------------------------------------------------------------
TxTypeOK ==
  /\ TypeOK
  /\ \A p \in Procs : tx[p].pc \in {"idle", "begun", "working"}
  /\ \A l \in locks : l.by \in Procs /\ l.mode \in {"update", "keyshare"}

(***************************************************************************)
(* What a transaction read it may still act on when it commits: under its  *)
(* row locks the order still accepts the target it decided on, and every   *)
(* balance it computed from is the one committed (the reads of             *)
(* SettleOrderStatus, reverseOrder, Transact and ApplyMovements).          *)
(***************************************************************************)
ReadsStayTrue ==
  \A p \in Procs :
    /\ p \in Admins /\ tx[p].pc = "working" => Accepts(tx[p].order, tx[p].target)
    /\ \A m \in Written(p) : m.after = Committed(m.row) + m.delta

(***************************************************************************)
(* Status updates never deadlock among themselves, whichever orders and    *)
(* stages they touch: order, then money, then items by id.  A ring always  *)
(* goes through a stock writer, which takes items by key.                  *)
(***************************************************************************)
RingsNeedAWriter ==
  \A C \in SUBSET Admins : ~Ring(C)

\* A status update or a stock movement that began ends: it commits, is refused
\* or is aborted, and no set of transactions waits for ever.
TransactionsEnd ==
  \A p \in Procs : (tx[p] # Idle) ~> (tx[p] = Idle)
=============================================================================
