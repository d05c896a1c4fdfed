-------------------------- MODULE OrderSettlement --------------------------
(***************************************************************************)
(* Settlement of business orders.  An administrator moves an order through *)
(* its stages; every stage posts one ledger: the office money ledger or    *)
(* the stock ledger of the Boss safebox, and a cancellation posts          *)
(* compensating entries.  Each handler runs in one database transaction    *)
(* that holds the order row FOR UPDATE, so a handler that commits is one   *)
(* action here and a handler that fails is no step at all.                 *)
(* SettlementTransactions breaks the same handlers into their statements   *)
(* and implements this specification.                                      *)
(*                                                                         *)
(* The rows of a ledger that are linked to an order are kept as what the   *)
(* code asks of them: how often the ledger was posted (EXISTS) and the net *)
(* of the rows (SUM).  The lines of an order are summed per stock item:    *)
(* they all move in the same direction, so the balance checks the code     *)
(* makes line by line pass exactly when the sum passes.                    *)
(***************************************************************************)
EXTENDS Integers, FiniteSets, Functions

CONSTANTS
  Orders,      \* business_orders rows that can come to exist
  Items,       \* stock items of the Boss safebox
  Direction,   \* Direction[o]: "sale" or "purchase", fixed at creation
  Total,       \* Total[o]: total_price, fixed at creation
  Units,       \* Units[o][i]: stock units of item i on the lines of o
  Historical,  \* orders that predate the ledgers: Ready/Paid without entries
  MaxMoney,    \* stands for MaxInt64, the largest office balance
  MaxStock     \* stands for MaxInt32, the largest stock quantity

ASSUME OrdersAssumption == IsFiniteSet(Orders)
ASSUME DirectionAssumption == Direction \in [Orders -> {"sale", "purchase"}]
ASSUME LimitAssumption == MaxMoney \in Nat /\ MaxStock \in Nat
ASSUME TotalAssumption == Total \in [Orders -> 0..MaxMoney]
ASSUME UnitsAssumption ==
         /\ Units \in [Orders -> [Items -> Nat]]
         /\ \A o \in Orders : \E i \in Items : Units[o][i] > 0
ASSUME HistoricalAssumption == Historical \subseteq Orders

VARIABLES
  status,      \* business_orders.status, "unsaved" before the INSERT
  office,      \* settings.office_money_balance
  stock,       \* safebox_stock_balances.quantity of the Boss safebox
  moneyRows,   \* postings to money_transactions linked to the order
  moneyNet,    \* their net: credits minus debits
  stockRows,   \* postings to safebox_stock_transactions linked to the order
  stockNet,    \* their summed delta per item
  notice,      \* embed queued in business_order_notifications
  delivered,   \* delivered_message_id of that row is set
  otherMoney,  \* history: office money moved by anything but an order
  otherStock   \* history: Boss stock moved by anything but an order

orderVars  == <<status, moneyRows, moneyNet, stockRows, stockNet>>
outboxVars == <<notice, delivered>>
otherVars  == <<otherMoney, otherStock>>
vars == <<status, office, stock, moneyRows, moneyNet, stockRows, stockNet,
          notice, delivered, otherMoney, otherStock>>

Destinations == {"office", "boss"}
Statuses == {"unsaved", "open", "ready", "paid", "complete", "cancelled"}
NoUnits == [i \in Items |-> 0]

\* The stage between Open and Complete.
Stage(o) == IF Direction[o] = "sale" THEN "ready" ELSE "paid"

\* A sale brings money in and takes stock out, a purchase the reverse.
MoneyDelta(o) == IF Direction[o] = "sale" THEN Total[o] ELSE -Total[o]
StockDelta(o) ==
  [i \in Items |-> IF Direction[o] = "sale" THEN -Units[o][i] ELSE Units[o][i]]

\* The statuses the handler accepts from a button for this direction.
OrderStatuses(o) == {"open", Stage(o), "complete", "cancelled"}

\* Fault: the stage button settles whatever the order's status is.
AnyToStage(o, target) ==
  CASE target = "cancelled" /\ status[o] \in {"open", Stage(o)} -> "cancel"
    [] target = "cancelled" /\ status[o] = "cancelled" -> "none"
    [] target = Stage(o) -> IF Direction[o] = "sale" THEN "boss" ELSE "office"
    [] status[o] = Stage(o) /\ target = "complete" ->
         IF Direction[o] = "sale" THEN "office" ELSE "boss"
    [] OTHER -> "refused"

(***************************************************************************)
(* What moving an order from its status to target asks for: a ledger to    *)
(* post ("office", "boss"), a reversal ("cancel"), nothing ("none"), or a  *)
(* refusal ("refused").                                                    *)
(***************************************************************************)
OrderStatusMovement(o, target) ==
  LET current == status[o]
      leads   == IF Direction[o] = "sale" THEN "boss" ELSE "office"
      follows == IF Direction[o] = "sale" THEN "office" ELSE "boss"
  IN  CASE target = "cancelled" /\ current \in {"open", Stage(o)} -> "cancel"
        [] current = target -> "none"
        [] current = "open" /\ target = Stage(o) -> leads
        [] current = Stage(o) /\ target = "complete" -> follows
        [] OTHER -> "refused"

MoneyPosted(o) == moneyRows[o] > 0
StockPosted(o) == stockRows[o] > 0

\* Fault: the ledger entry of the previous stage is not asked for.
StageUnchecked(o, target) == TRUE

\* Complete needs the ledger entry of the stage before it.
PreviousStagePosted(o, target) ==
  target = "complete" =>
    IF Direction[o] = "sale" THEN StockPosted(o) ELSE Total[o] > 0 => MoneyPosted(o)

\* Fault: a withdrawal does not look at what the balance holds.
Uncovered(balance, limit) == balance <= limit

\* The floor and the ceiling every movement checks before it writes a balance.
Covered(balance, limit) == balance \in 0..limit

\* Fault: the new ledger row is not linked to the order.
Unlinked(o, delta) == UNCHANGED <<moneyRows, moneyNet>>

\* The rows a movement inserts carry the order; moving nothing inserts none.
LinkMoney(o, delta) ==
  /\ moneyRows' = [moneyRows EXCEPT ![o] = IF delta = 0 THEN @ ELSE @ + 1]
  /\ moneyNet' = [moneyNet EXCEPT ![o] = @ + delta]
LinkStock(o, delta) ==
  /\ stockRows' = [stockRows EXCEPT ![o] = IF \E i \in Items : delta[i] # 0 THEN @ + 1 ELSE @]
  /\ stockNet' = [stockNet EXCEPT ![o] = [i \in Items |-> @[i] + delta[i]]]

\* Fault: the embed of a cancellation does not replace the one queued before.
FirstEmbedStays(o, dests, embed) ==
  /\ notice' = [notice EXCEPT ![o] =
       [d \in Destinations |->
          IF d \in dests /\ notice[o][d] = "none" THEN embed ELSE notice[o][d]]]
  /\ UNCHANGED delivered

\* The row a movement leaves in the outbox: only a cancellation replaces one.
Queue(o, dests, embed) ==
  /\ notice' = [notice EXCEPT ![o] =
       [d \in Destinations |->
          IF d \in dests /\ (notice[o][d] = "none" \/ embed = "reversed")
          THEN embed ELSE notice[o][d]]]
  /\ delivered' = [delivered EXCEPT ![o] =
       [d \in Destinations |->
          IF d \in dests /\ embed = "reversed" THEN FALSE ELSE delivered[o][d]]]

-----------------------------------------------------------------------------
Init ==
  /\ status = [o \in Orders |-> IF o \in Historical THEN Stage(o) ELSE "unsaved"]
  /\ office \in 0..MaxMoney
  /\ stock \in [Items -> 0..MaxStock]
  /\ moneyRows = [o \in Orders |-> 0]
  /\ moneyNet = [o \in Orders |-> 0]
  /\ stockRows = [o \in Orders |-> 0]
  /\ stockNet = [o \in Orders |-> NoUnits]
  /\ notice = [o \in Orders |-> [d \in Destinations |-> "none"]]
  /\ delivered = [o \in Orders |-> [d \in Destinations |-> FALSE]]
  /\ otherMoney = office
  /\ otherStock = stock

\* saveBusinessOrder inserts the order as open: no ledger effect.
SaveOrder(o) ==
  /\ status[o] = "unsaved"
  /\ status' = [status EXCEPT ![o] = "open"]
  /\ UNCHANGED <<office, stock, moneyRows, moneyNet, stockRows, stockNet>>
  /\ UNCHANGED <<notice, delivered, otherMoney, otherStock>>

\* What every status update checks before it settles.
MayUpdate(o, target) ==
  /\ status[o] \notin {"unsaved", "complete"}
  /\ target \in OrderStatuses(o)

\* The settlement posts no ledger: a repeated status, or a free order's money.
SettleNothing(o, target) ==
  /\ MayUpdate(o, target)
  /\ \/ OrderStatusMovement(o, target) = "none"
     \/ /\ OrderStatusMovement(o, target) = "office"
        /\ PreviousStagePosted(o, target)
        /\ ~MoneyPosted(o)
        /\ Total[o] = 0
  /\ status' = [status EXCEPT ![o] = target]
  /\ UNCHANGED <<office, stock, moneyRows, moneyNet, stockRows, stockNet>>
  /\ UNCHANGED <<notice, delivered, otherMoney, otherStock>>

\* Complete of a sale credits, Paid of a purchase debits the office balance.
SettleOffice(o, target) ==
  /\ MayUpdate(o, target)
  /\ OrderStatusMovement(o, target) = "office"
  /\ PreviousStagePosted(o, target)
  /\ ~MoneyPosted(o)
  /\ Total[o] > 0
  /\ Covered(office + MoneyDelta(o), MaxMoney)
  /\ office' = office + MoneyDelta(o)
  /\ LinkMoney(o, MoneyDelta(o))
  /\ status' = [status EXCEPT ![o] = target]
  /\ Queue(o, {"office"}, "posted")
  /\ UNCHANGED <<stock, stockRows, stockNet, otherMoney, otherStock>>

\* Ready of a sale withdraws, Complete of a purchase deposits every line.
SettleBoss(o, target) ==
  LET after == [i \in Items |-> stock[i] + StockDelta(o)[i]]
  IN  /\ MayUpdate(o, target)
      /\ OrderStatusMovement(o, target) = "boss"
      /\ PreviousStagePosted(o, target)
      /\ ~StockPosted(o)
      /\ \A i \in Items : Covered(after[i], MaxStock)
      /\ stock' = after
      /\ LinkStock(o, StockDelta(o))
      /\ status' = [status EXCEPT ![o] = target]
      /\ Queue(o, {"boss"}, "posted")
      /\ UNCHANGED <<office, moneyRows, moneyNet, otherMoney, otherStock>>

\* The ledgers a cancellation has to compensate: those whose net is not zero.
ToReverse(o) ==
  {d \in Destinations : IF d = "office" THEN moneyNet[o] # 0
                                        ELSE \E i \in Items : stockNet[o][i] # 0}

\* Cancellation posts the negated net of both ledgers, or nothing at all.
ReverseOrder(o, target) ==
  LET after == [i \in Items |-> stock[i] - stockNet[o][i]]
  IN  /\ MayUpdate(o, target)
      /\ OrderStatusMovement(o, target) = "cancel"
      /\ Covered(office - moneyNet[o], MaxMoney)
      /\ \A i \in Items : Covered(after[i], MaxStock)
      /\ office' = office - moneyNet[o]
      /\ LinkMoney(o, -moneyNet[o])
      /\ stock' = after
      /\ LinkStock(o, [i \in Items |-> -stockNet[o][i]])
      /\ status' = [status EXCEPT ![o] = target]
      /\ Queue(o, ToReverse(o), "reversed")
      /\ UNCHANGED <<otherMoney, otherStock>>

\* One click on a status button or one entry of the status menu.
HandleOrderUpdate(o, target) ==
  \/ SettleNothing(o, target)
  \/ SettleOffice(o, target)
  \/ SettleBoss(o, target)
  \/ ReverseOrder(o, target)

\* The announcing bot records that Discord accepted a queued embed.
DeliverNotification(o, d) ==
  /\ notice[o][d] # "none"
  /\ ~delivered[o][d]
  /\ delivered' = [delivered EXCEPT ![o] = [delivered[o] EXCEPT ![d] = TRUE]]
  /\ UNCHANGED <<status, office, stock, moneyRows, moneyNet, stockRows, stockNet>>
  /\ UNCHANGED <<notice, otherMoney, otherStock>>

(***************************************************************************)
(* Everybody else who writes the two balances: !money, the stash and the   *)
(* crafting store, the stock API's absolute adjustment, and the settings   *)
(* page, which writes the office balance of its form over the current one. *)
(***************************************************************************)
WriteOffice ==
  \E balance \in 0..MaxMoney :
    /\ office' = balance
    /\ otherMoney' = otherMoney + (balance - office)
    /\ UNCHANGED <<status, stock, moneyRows, moneyNet, stockRows, stockNet>>
    /\ UNCHANGED <<notice, delivered, otherStock>>

WriteStock ==
  \E quantity \in [Items -> 0..MaxStock] :
    /\ stock' = quantity
    /\ otherStock' = [i \in Items |-> otherStock[i] + (quantity[i] - stock[i])]
    /\ UNCHANGED <<status, office, moneyRows, moneyNet, stockRows, stockNet>>
    /\ UNCHANGED <<notice, delivered, otherMoney>>

Next ==
  \/ \E o \in Orders : SaveOrder(o)
  \/ \E o \in Orders, target \in Statuses : HandleOrderUpdate(o, target)
  \/ \E o \in Orders, d \in Destinations : DeliverNotification(o, d)
  \/ WriteOffice
  \/ WriteStock

Spec == Init /\ [][Next]_vars

-----------------------------------------------------------------------------
\* Types.  The limits make it more than a sort check: no interleaving of
\* handlers leaves a balance negative or beyond what its column holds, and no
\* order reaches the stage of the other direction.
TypeOK ==
  /\ status \in [Orders -> Statuses]
  /\ \A o \in Orders : status[o] \in {"unsaved"} \cup OrderStatuses(o)
  /\ office \in 0..MaxMoney
  /\ stock \in [Items -> 0..MaxStock]
  /\ moneyRows \in [Orders -> Nat]
  /\ moneyNet \in [Orders -> Int]
  /\ stockRows \in [Orders -> Nat]
  /\ stockNet \in [Orders -> [Items -> Int]]
  /\ notice \in [Orders -> [Destinations -> {"none", "posted", "reversed"}]]
  /\ delivered \in [Orders -> [Destinations -> BOOLEAN]]
  /\ otherMoney \in Int
  /\ otherStock \in [Items -> Int]

\* The three states of an order's share of one ledger.
MoneyUntouched(o) == moneyRows[o] = 0 /\ moneyNet[o] = 0
MoneySettled(o) == moneyRows[o] = (IF Total[o] = 0 THEN 0 ELSE 1) /\ moneyNet[o] = MoneyDelta(o)
MoneyReversed(o) == moneyRows[o] = 2 /\ moneyNet[o] = 0
StockUntouched(o) == stockRows[o] = 0 /\ stockNet[o] = NoUnits
StockSettled(o) == stockRows[o] = 1 /\ stockNet[o] = StockDelta(o)
StockReversed(o) == stockRows[o] = 2 /\ stockNet[o] = NoUnits

FirstSettled(o) == IF Direction[o] = "sale" THEN MoneyUntouched(o) /\ StockSettled(o)
                                            ELSE MoneySettled(o) /\ StockUntouched(o)

(***************************************************************************)
(* The status of an order tells exactly what its ledgers hold: nothing     *)
(* while Open, the first ledger once at Ready/Paid (nothing for an order   *)
(* that predates the ledgers), both exactly once at Complete, and a net of *)
(* zero in both after a cancellation, whatever the administrators clicked  *)
(* in between (SettleOrderStatus, reverseOrder).                           *)
(***************************************************************************)
LedgerMatchesStatus ==
  \A o \in Orders :
    /\ status[o] \in {"unsaved", "open"} => MoneyUntouched(o) /\ StockUntouched(o)
    /\ status[o] = Stage(o) =>
         \/ FirstSettled(o)
         \/ o \in Historical /\ MoneyUntouched(o) /\ StockUntouched(o)
    /\ status[o] = "complete" => MoneySettled(o) /\ StockSettled(o)
    /\ status[o] = "cancelled" =>
         /\ MoneyUntouched(o) \/ MoneyReversed(o)
         /\ StockUntouched(o) \/ StockReversed(o)

(***************************************************************************)
(* The outbox holds one embed per ledger an order has moved and it tells   *)
(* the last movement: a reversed ledger never keeps the embed of the       *)
(* movement it reversed (queueOrderMovement, in the same transaction).     *)
(***************************************************************************)
NoticeMatchesLedger ==
  \A o \in Orders : \A d \in Destinations :
    LET rows == IF d = "office" THEN moneyRows[o] ELSE stockRows[o]
    IN  notice[o][d] = IF rows = 0 THEN "none" ELSE IF rows = 1 THEN "posted" ELSE "reversed"

\* Nothing is lost or made between a balance and its ledger: each balance is
\* what the other writers left in it plus the net of every order's rows.
BalancesConserved ==
  /\ office = otherMoney + SumFunction(moneyNet)
  /\ \A i \in Items :
       stock[i] = otherStock[i] + SumFunction([o \in Orders |-> stockNet[o][i]])

\* An order moves Open -> Ready/Paid -> Complete, is cancelled only before
\* Complete, and neither Complete nor Cancelled is ever left.
StagesInOrder ==
  [][\A o \in Orders : status'[o] # status[o] =>
       <<status[o], status'[o]>> \in
         {<<"unsaved", "open">>, <<"open", Stage(o)>>, <<Stage(o), "complete">>,
          <<"open", "cancelled">>, <<Stage(o), "cancelled">>}]_vars

\* Repeating a status, in whatever interleaving with other clicks, adds no
\* entry to a ledger: an order's entries change only when its status does.
LedgerMovesWithStatus ==
  [][\A o \in Orders : status'[o] = status[o] =>
       /\ moneyRows'[o] = moneyRows[o] /\ moneyNet'[o] = moneyNet[o]
       /\ stockRows'[o] = stockRows[o] /\ stockNet'[o] = stockNet[o]]_vars
=============================================================================
