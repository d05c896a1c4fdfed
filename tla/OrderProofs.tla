------------------------------ MODULE OrderProofs ------------------------------
(***************************************************************************)
(* Proofs about orders, for any orders, items, prices, limits, workers,    *)
(* administrators, stock writers and faults: the handlers                  *)
(* (OrderSettlement), the worker that delivers their notifications         *)
(* (OrderDelivery), and their transactions (SettlementTransactions).       *)
(*                                                                         *)
(* IInv is what the handlers keep: TypeOK, LedgerMatchesStatus and         *)
(* NoticeMatchesLedger together, for what a status permits next depends on *)
(* what the ledgers hold, and the embed queued depends on both.            *)
(*                                                                         *)
(* DeliveryInv ties every claim to the outbox row it has locked, and       *)
(* counts what the channel has been told against what the row may still    *)
(* tell it.                                                                *)
(*                                                                         *)
(* TxInv says of every process what its transaction has planned, locked    *)
(* and written (Proc) and of the row locks that they exclude each other    *)
(* (LockTable): so the statements, interleaved, implement the one-step     *)
(* handlers, and status updates never deadlock among themselves.           *)
(***************************************************************************)
EXTENDS SettlementTransactions, OrderDelivery, CommonLemmas, WellFoundedInduction,
        FiniteSetTheorems, TLAPS

IInv == TypeOK /\ LedgerMatchesStatus /\ NoticeMatchesLedger

\* The signed movements of an order are integers.
LEMMA DeltaTypes ==
  ASSUME NEW o \in Orders
  PROVE  /\ MoneyDelta(o) \in Int
         /\ StockDelta(o) \in [Items -> Int]
         /\ NoUnits \in [Items -> Int]
         /\ Direction[o] \in {"sale", "purchase"}
         /\ Total[o] \in 0..MaxMoney
         /\ Total[o] = 0 => MoneyDelta(o) = 0
         /\ Total[o] > 0 => MoneyDelta(o) # 0
  <1>1. Direction[o] \in {"sale", "purchase"} /\ Total[o] \in 0..MaxMoney
    BY DirectionAssumption, TotalAssumption
  <1>2. \A i \in Items : Units[o][i] \in Nat
    BY UnitsAssumption
  <1>3. QED
    BY <1>1, <1>2, LimitAssumption DEF MoneyDelta, StockDelta, NoUnits

\* An order moves at least one unit of some item.
LEMMA DeltaNotEmpty ==
  ASSUME NEW o \in Orders
  PROVE  \E i \in Items : StockDelta(o)[i] # 0
  <1>1. PICK i \in Items : Units[o][i] > 0
    BY UnitsAssumption
  <1>2. Units[o][i] \in Nat
    BY UnitsAssumption
  <1>3. StockDelta(o)[i] # 0
    BY <1>1, <1>2 DEF StockDelta
  <1>4. QED
    BY <1>3

LEMMA InitIInv == Init => IInv
  <1> SUFFICES ASSUME Init PROVE IInv
    OBVIOUS
  <1>1. TypeOK
    BY DirectionAssumption, LimitAssumption
    DEF Init, TypeOK, Statuses, OrderStatuses, Stage, NoUnits, Destinations
  <1>2. LedgerMatchesStatus
    BY DirectionAssumption, HistoricalAssumption
    DEF Init, LedgerMatchesStatus, Stage, MoneyUntouched, StockUntouched
  <1>3. NoticeMatchesLedger
    BY DEF Init, NoticeMatchesLedger, Destinations
  <1>4. QED
    BY <1>1, <1>2, <1>3 DEF IInv

\* The facts a step about order o leaves alone for every other order.
SameOrder(q) ==
  /\ status'[q] = status[q]
  /\ moneyRows'[q] = moneyRows[q] /\ moneyNet'[q] = moneyNet[q]
  /\ stockRows'[q] = stockRows[q] /\ stockNet'[q] = stockNet[q]
  /\ notice'[q] = notice[q]

\* What LedgerMatchesStatus and NoticeMatchesLedger say of one order.
LedgerOf(q) ==
  /\ status[q] \in {"unsaved", "open"} => MoneyUntouched(q) /\ StockUntouched(q)
  /\ status[q] = Stage(q) =>
       \/ FirstSettled(q)
       \/ q \in Historical /\ MoneyUntouched(q) /\ StockUntouched(q)
  /\ status[q] = "complete" => MoneySettled(q) /\ StockSettled(q)
  /\ status[q] = "cancelled" =>
       /\ MoneyUntouched(q) \/ MoneyReversed(q)
       /\ StockUntouched(q) \/ StockReversed(q)

NoticeOf(q) ==
  \A d \in Destinations :
    LET rows == IF d = "office" THEN moneyRows[q] ELSE stockRows[q]
    IN  notice[q][d] = IF rows = 0 THEN "none" ELSE IF rows = 1 THEN "posted" ELSE "reversed"

LEMMA PerOrder ==
  /\ LedgerMatchesStatus <=> \A q \in Orders : LedgerOf(q)
  /\ NoticeMatchesLedger <=> \A q \in Orders : NoticeOf(q)
  BY DEF LedgerMatchesStatus, NoticeMatchesLedger, LedgerOf, NoticeOf

LEMMA PerOrderPrimed ==
  /\ LedgerMatchesStatus' <=> \A q \in Orders : LedgerOf(q)'
  /\ NoticeMatchesLedger' <=> \A q \in Orders : NoticeOf(q)'
  BY DEF LedgerMatchesStatus, NoticeMatchesLedger, LedgerOf, NoticeOf

\* An order the step does not touch keeps both.
LEMMA SameOrderKeeps ==
  ASSUME NEW q \in Orders, SameOrder(q), LedgerOf(q), NoticeOf(q)
  PROVE  LedgerOf(q)' /\ NoticeOf(q)'
  <1>1. LedgerOf(q)'
    BY DEF SameOrder, LedgerOf, Stage, FirstSettled, MoneyUntouched, MoneySettled,
           MoneyReversed, StockUntouched, StockSettled, StockReversed, MoneyDelta,
           StockDelta, NoUnits
  <1>2. NoticeOf(q)'
    BY DEF SameOrder, NoticeOf
  <1>3. QED
    BY <1>1, <1>2

\* What Queue makes of the outbox row it is asked for, and of the others.
LEMMA QueueRows ==
  ASSUME TypeOK, NEW o \in Orders, NEW dests \in SUBSET Destinations,
         NEW embed \in {"posted", "reversed"}, Queue(o, dests, embed)
  PROVE  /\ notice' \in [Orders -> [Destinations -> {"none", "posted", "reversed"}]]
         /\ delivered' \in [Orders -> [Destinations -> BOOLEAN]]
         /\ \A q \in Orders \ {o} : notice'[q] = notice[q]
         /\ \A d \in Destinations :
              notice'[o][d] = IF d \in dests /\ (notice[o][d] = "none" \/ embed = "reversed")
                              THEN embed ELSE notice[o][d]
  BY DEF TypeOK, Queue

LEMMA SaveOrderStep ==
  ASSUME IInv, NEW o \in Orders, SaveOrder(o)
  PROVE  IInv'
  <1>1. TypeOK'
    BY DEF IInv, TypeOK, SaveOrder, Statuses, OrderStatuses, Stage
  <1>2. \A q \in Orders \ {o} : SameOrder(q)
    BY DEF IInv, TypeOK, SaveOrder, SameOrder
  <1>3. LedgerOf(o)'
    BY DirectionAssumption
    DEF IInv, TypeOK, LedgerMatchesStatus, SaveOrder, LedgerOf, Stage, MoneyUntouched,
        StockUntouched, NoUnits
  <1>4. NoticeOf(o)'
    BY DEF IInv, NoticeMatchesLedger, NoticeOf, SaveOrder
  <1>5. QED
    BY <1>1, <1>2, <1>3, <1>4, PerOrder, PerOrderPrimed, SameOrderKeeps DEF IInv

LEMMA SettleNothingStep ==
  ASSUME IInv, NEW o \in Orders, NEW target \in Statuses, SettleNothing(o, target)
  PROVE  IInv'
  <1>1. TypeOK'
    BY DEF IInv, TypeOK, SettleNothing, MayUpdate, Statuses, OrderStatuses, Stage
  <1>2. \A q \in Orders \ {o} : SameOrder(q)
    BY DEF IInv, TypeOK, SettleNothing, SameOrder
  <1>3. LedgerOf(o)'
    <2>1. CASE target = status[o]
      <3>1. SameOrder(o)
        BY <2>1 DEF IInv, TypeOK, SettleNothing, SameOrder
      <3>2. QED
        BY <3>1, PerOrder, SameOrderKeeps DEF IInv
    <2>2. CASE target # status[o]
      <3>1. OrderStatusMovement(o, target) = "office" /\ Total[o] = 0 /\ ~MoneyPosted(o)
            /\ PreviousStagePosted(o, target)
        BY <2>2, DirectionAssumption
        DEF SettleNothing, OrderStatusMovement, Stage, IInv, TypeOK
      <3>2. \/ Direction[o] = "sale" /\ status[o] = "ready" /\ target = "complete"
            \/ Direction[o] = "purchase" /\ status[o] = "open" /\ target = "paid"
        BY <2>2, <3>1, DirectionAssumption DEF OrderStatusMovement, Stage
      <3>3. LedgerOf(o) /\ MoneyDelta(o) = 0
        BY <3>1, PerOrder, DeltaTypes DEF IInv
      <3>4. status'[o] = target /\ UNCHANGED <<moneyRows, moneyNet, stockRows, stockNet>>
        BY DEF IInv, TypeOK, SettleNothing
      <3>5. QED
        BY <3>1, <3>2, <3>3, <3>4, DeltaTypes
        DEF LedgerOf, Stage, FirstSettled, MoneyUntouched, MoneySettled, StockUntouched,
            StockSettled, PreviousStagePosted, StockPosted, MoneyDelta, StockDelta, NoUnits
    <2>3. QED
      BY <2>1, <2>2
  <1>4. NoticeOf(o)'
    BY DEF IInv, NoticeMatchesLedger, NoticeOf, SettleNothing
  <1>5. QED
    BY <1>1, <1>2, <1>3, <1>4, PerOrder, PerOrderPrimed, SameOrderKeeps DEF IInv

\* A status update keeps the order within the statuses of its direction.
LEMMA StatusUpdate ==
  ASSUME TypeOK, NEW o \in Orders, NEW target \in Statuses, MayUpdate(o, target),
         status' = [status EXCEPT ![o] = target]
  PROVE  /\ status' \in [Orders -> Statuses]
         /\ \A q \in Orders : status'[q] \in {"unsaved"} \cup OrderStatuses(q)
  BY DEF TypeOK, MayUpdate, OrderStatuses, Stage

LEMMA SettleOfficeStep ==
  ASSUME IInv, NEW o \in Orders, NEW target \in Statuses, SettleOffice(o, target)
  PROVE  IInv'
  <1>1. \/ Direction[o] = "sale" /\ status[o] = "ready" /\ target = "complete"
        \/ Direction[o] = "purchase" /\ status[o] = "open" /\ target = "paid"
    BY DirectionAssumption DEF SettleOffice, OrderStatusMovement, Stage
  <1>2. Queue(o, {"office"}, "posted") /\ {"office"} \in SUBSET Destinations
    BY DEF SettleOffice, Destinations
  <1>3. TypeOK'
    <2>1. MoneyDelta(o) \in Int /\ office' \in 0..MaxMoney
      BY DeltaTypes DEF SettleOffice, Covered
    <2>2. /\ notice' \in [Orders -> [Destinations -> {"none", "posted", "reversed"}]]
          /\ delivered' \in [Orders -> [Destinations -> BOOLEAN]]
      BY <1>2, QueueRows DEF IInv
    <2>3. /\ status' \in [Orders -> Statuses]
          /\ \A q \in Orders : status'[q] \in {"unsaved"} \cup OrderStatuses(q)
      BY StatusUpdate DEF IInv, SettleOffice
    <2>4. moneyRows' \in [Orders -> Nat] /\ moneyNet' \in [Orders -> Int]
      BY <2>1 DEF IInv, TypeOK, SettleOffice, LinkMoney
    <2>5. QED
      BY <2>1, <2>2, <2>3, <2>4 DEF IInv, TypeOK, SettleOffice, OrderStatuses, Stage
  <1>4. \A q \in Orders \ {o} : SameOrder(q)
    BY <1>2, QueueRows, SMTT(30) DEF IInv, TypeOK, SettleOffice, LinkMoney, SameOrder
  <1>5. LedgerOf(o)'
    <2>1. LedgerOf(o)
      BY PerOrder DEF IInv
    <2>2. /\ status'[o] = target /\ moneyRows'[o] = moneyRows[o] + 1
          /\ moneyNet'[o] = moneyNet[o] + MoneyDelta(o)
          /\ stockRows' = stockRows /\ stockNet' = stockNet
          /\ Total[o] > 0 /\ moneyRows[o] \in Nat /\ ~(moneyRows[o] > 0)
      BY DeltaTypes DEF IInv, TypeOK, SettleOffice, LinkMoney, MoneyPosted
    <2>3. Direction[o] = "sale" => stockRows[o] > 0
      BY <1>1 DEF SettleOffice, PreviousStagePosted, StockPosted
    <2>4. QED
      BY <1>1, <2>1, <2>2, <2>3, DeltaTypes
      DEF LedgerOf, Stage, FirstSettled, MoneyUntouched, MoneySettled, StockUntouched,
          StockSettled, MoneyDelta, StockDelta, NoUnits
  <1>6. NoticeOf(o)'
    <2>1. NoticeOf(o) /\ moneyRows[o] = 0
      BY PerOrder DEF IInv, TypeOK, SettleOffice, MoneyPosted
    <2>2. moneyRows'[o] = 1 /\ stockRows' = stockRows
      BY <2>1, DeltaTypes DEF IInv, TypeOK, SettleOffice, LinkMoney
    <2>3. /\ notice'[o]["office"] = "posted"
          /\ notice'[o]["boss"] = notice[o]["boss"]
      BY <1>2, <2>1, QueueRows DEF IInv, NoticeOf, Destinations
    <2>4. QED
      BY <2>1, <2>2, <2>3 DEF NoticeOf, Destinations
  <1>7. QED
    BY <1>3, <1>4, <1>5, <1>6, PerOrder, PerOrderPrimed, SameOrderKeeps DEF IInv

LEMMA SettleBossStep ==
  ASSUME IInv, NEW o \in Orders, NEW target \in Statuses, SettleBoss(o, target)
  PROVE  IInv'
  <1>1. \/ Direction[o] = "sale" /\ status[o] = "open" /\ target = "ready"
        \/ Direction[o] = "purchase" /\ status[o] = "paid" /\ target = "complete"
    BY DirectionAssumption DEF SettleBoss, OrderStatusMovement, Stage
  <1>2. Queue(o, {"boss"}, "posted") /\ {"boss"} \in SUBSET Destinations
    BY DEF SettleBoss, Destinations
  <1>3. TypeOK'
    <2>1. /\ stock' \in [Items -> 0..MaxStock]
          /\ stockNet' \in [Orders -> [Items -> Int]]
      BY DeltaTypes DEF IInv, TypeOK, SettleBoss, LinkStock, Covered
    <2>2. /\ notice' \in [Orders -> [Destinations -> {"none", "posted", "reversed"}]]
          /\ delivered' \in [Orders -> [Destinations -> BOOLEAN]]
      BY <1>2, QueueRows DEF IInv
    <2>3. /\ status' \in [Orders -> Statuses]
          /\ \A q \in Orders : status'[q] \in {"unsaved"} \cup OrderStatuses(q)
      BY StatusUpdate DEF IInv, SettleBoss
    <2>4. stockRows' \in [Orders -> Nat]
      BY DEF IInv, TypeOK, SettleBoss, LinkStock
    <2>5. QED
      BY <2>1, <2>2, <2>3, <2>4 DEF IInv, TypeOK, SettleBoss, OrderStatuses, Stage
  <1>4. \A q \in Orders \ {o} : SameOrder(q)
    <2>1. \A q \in Orders \ {o} : notice'[q] = notice[q]
      BY <1>2, QueueRows DEF IInv
    <2>2. \A q \in Orders \ {o} : stockRows'[q] = stockRows[q] /\ stockNet'[q] = stockNet[q]
      BY DEF IInv, TypeOK, SettleBoss, LinkStock
    <2>3. QED
      BY <2>1, <2>2 DEF IInv, TypeOK, SettleBoss, SameOrder
  <1>5. LedgerOf(o)'
    <2>1. LedgerOf(o)
      BY PerOrder DEF IInv
    <2>2. /\ status'[o] = target /\ stockRows'[o] = stockRows[o] + 1
          /\ stockNet'[o] = [i \in Items |-> stockNet[o][i] + StockDelta(o)[i]]
          /\ moneyRows' = moneyRows /\ moneyNet' = moneyNet
          /\ stockRows[o] \in Nat /\ ~(stockRows[o] > 0)
      BY DeltaNotEmpty DEF IInv, TypeOK, SettleBoss, LinkStock, StockPosted
    <2>3. StockUntouched(o)
      BY <1>1, <2>1, <2>2
      DEF LedgerOf, Stage, FirstSettled, StockUntouched, StockSettled
    <2>4. stockNet'[o] = StockDelta(o)
      BY <2>2, <2>3, DeltaTypes DEF StockUntouched, NoUnits
    <2>5. Direction[o] = "purchase" /\ Total[o] > 0 => moneyRows[o] > 0
      BY <1>1 DEF SettleBoss, PreviousStagePosted, MoneyPosted
    <2>6. StockSettled(o)'
      BY <2>2, <2>3, <2>4 DEF StockUntouched, StockSettled, StockDelta
    <2>7. CASE Direction[o] = "sale"
      BY <1>1, <2>1, <2>2, <2>6, <2>7
      DEF LedgerOf, Stage, FirstSettled, MoneyUntouched
    <2>8. CASE Direction[o] = "purchase"
      <3>1. MoneySettled(o)
        BY <1>1, <2>1, <2>5, <2>8, DeltaTypes
        DEF LedgerOf, Stage, FirstSettled, MoneyUntouched, MoneySettled
      <3>2. MoneySettled(o)'
        BY <2>2, <3>1 DEF MoneySettled, MoneyDelta
      <3>3. QED
        BY <1>1, <2>2, <2>6, <2>8, <3>2 DEF LedgerOf, Stage
    <2>9. QED
      BY <2>7, <2>8, DeltaTypes
  <1>6. NoticeOf(o)'
    <2>1. NoticeOf(o) /\ stockRows[o] = 0
      BY PerOrder DEF IInv, TypeOK, SettleBoss, StockPosted
    <2>2. stockRows'[o] = 1 /\ moneyRows' = moneyRows
      BY <2>1, DeltaNotEmpty DEF IInv, TypeOK, SettleBoss, LinkStock
    <2>3. /\ notice'[o]["boss"] = "posted"
          /\ notice'[o]["office"] = notice[o]["office"]
      BY <1>2, <2>1, QueueRows DEF IInv, NoticeOf, Destinations
    <2>4. QED
      BY <2>1, <2>2, <2>3 DEF NoticeOf, Destinations
  <1>7. QED
    BY <1>3, <1>4, <1>5, <1>6, PerOrder, PerOrderPrimed, SameOrderKeeps DEF IInv

\* A cancellable order has settled at most its first ledger, and what it has
\* to reverse is that ledger.
LEMMA CancelCases ==
  ASSUME IInv, NEW o \in Orders, NEW target \in Statuses, ReverseOrder(o, target)
  PROVE  /\ target = "cancelled"
         /\ MoneyUntouched(o) \/ (MoneySettled(o) /\ Total[o] > 0 /\ moneyNet[o] # 0)
         /\ StockUntouched(o) \/ (StockSettled(o) /\ \E i \in Items : stockNet[o][i] # 0)
  <1>1. target = "cancelled" /\ status[o] \in {"open", Stage(o)}
    BY DirectionAssumption DEF ReverseOrder, OrderStatusMovement, Stage
  <1>2. \/ MoneyUntouched(o) /\ StockUntouched(o)
        \/ FirstSettled(o)
    BY <1>1, PerOrder DEF IInv, LedgerOf
  <1>3. MoneySettled(o) /\ Total[o] = 0 => MoneyUntouched(o)
    BY DeltaTypes DEF MoneySettled, MoneyUntouched
  <1>4. MoneySettled(o) /\ Total[o] # 0 => Total[o] > 0 /\ moneyNet[o] # 0
    BY DeltaTypes, LimitAssumption DEF MoneySettled
  <1>5. StockSettled(o) => \E i \in Items : stockNet[o][i] # 0
    BY DeltaNotEmpty DEF StockSettled
  <1>6. QED
    BY <1>1, <1>2, <1>3, <1>4, <1>5 DEF FirstSettled

LEMMA ReverseOrderStep ==
  ASSUME IInv, NEW o \in Orders, NEW target \in Statuses, ReverseOrder(o, target)
  PROVE  IInv'
  <1>1. Queue(o, ToReverse(o), "reversed") /\ ToReverse(o) \in SUBSET Destinations
    BY DEF ReverseOrder, ToReverse
  <1>2. TypeOK'
    <2>1. stock' \in [Items -> 0..MaxStock] /\ office' \in 0..MaxMoney
      BY DEF IInv, TypeOK, ReverseOrder, LinkMoney, LinkStock, Covered
    <2>2. /\ notice' \in [Orders -> [Destinations -> {"none", "posted", "reversed"}]]
          /\ delivered' \in [Orders -> [Destinations -> BOOLEAN]]
      BY <1>1, QueueRows DEF IInv
    <2>3. /\ status' \in [Orders -> Statuses]
          /\ \A q \in Orders : status'[q] \in {"unsaved"} \cup OrderStatuses(q)
      BY StatusUpdate DEF IInv, ReverseOrder
    <2>4. moneyRows' \in [Orders -> Nat] /\ moneyNet' \in [Orders -> Int]
      BY DEF IInv, TypeOK, ReverseOrder, LinkMoney, LinkStock, Covered
    <2>5. stockRows' \in [Orders -> Nat] /\ stockNet' \in [Orders -> [Items -> Int]]
      BY DEF IInv, TypeOK, ReverseOrder, LinkStock
    <2>6. QED
      BY <2>1, <2>2, <2>3, <2>4, <2>5 DEF IInv, TypeOK, ReverseOrder, OrderStatuses, Stage
  <1>3. \A q \in Orders \ {o} : SameOrder(q)
    <2> SUFFICES ASSUME NEW q \in Orders \ {o} PROVE SameOrder(q)
      OBVIOUS
    <2>1. notice'[q] = notice[q]
      BY <1>1, QueueRows DEF IInv
    <2>2. status'[q] = status[q]
      BY DEF IInv, TypeOK, ReverseOrder, LinkMoney, LinkStock, Covered
    <2>3. moneyRows'[q] = moneyRows[q] /\ moneyNet'[q] = moneyNet[q]
      BY DEF IInv, TypeOK, ReverseOrder, LinkMoney, LinkStock, Covered
    <2>4. stockRows'[q] = stockRows[q] /\ stockNet'[q] = stockNet[q]
      BY DEF IInv, TypeOK, ReverseOrder, LinkMoney, LinkStock, Covered
    <2>5. QED
      BY <2>1, <2>2, <2>3, <2>4 DEF SameOrder
  <1>4. /\ status'[o] = "cancelled"
        /\ moneyNet'[o] = 0 /\ stockNet'[o] = NoUnits
        /\ moneyRows'[o] = IF moneyNet[o] # 0 THEN moneyRows[o] + 1 ELSE moneyRows[o]
        /\ stockRows'[o] = IF \E i \in Items : stockNet[o][i] # 0
                           THEN stockRows[o] + 1 ELSE stockRows[o]
    <2>1. target = "cancelled"
      BY CancelCases
    <2>2. /\ "office" \in ToReverse(o) <=> moneyNet[o] # 0
          /\ "boss" \in ToReverse(o) <=> \E i \in Items : stockNet[o][i] # 0
      BY DEF ToReverse, Destinations
    <2>3. QED
      BY <2>1, <2>2 DEF IInv, TypeOK, ReverseOrder, LinkMoney, LinkStock, NoUnits
  <1>5. \/ MoneyUntouched(o) /\ moneyRows'[o] = 0
        \/ moneyNet[o] # 0 /\ moneyRows[o] = 1 /\ moneyRows'[o] = 2
    <2>1. MoneyUntouched(o) \/ (MoneySettled(o) /\ Total[o] > 0 /\ moneyNet[o] # 0)
      BY CancelCases
    <2>2. CASE MoneyUntouched(o)
      BY <1>4, <2>2 DEF MoneyUntouched
    <2>3. CASE MoneySettled(o) /\ Total[o] > 0 /\ moneyNet[o] # 0
      BY <1>4, <2>3, DeltaTypes DEF MoneySettled
    <2>4. QED
      BY <2>1, <2>2, <2>3
  <1>6. \/ StockUntouched(o) /\ stockRows'[o] = 0 /\ ~\E i \in Items : stockNet[o][i] # 0
        \/ stockRows[o] = 1 /\ stockRows'[o] = 2 /\ \E i \in Items : stockNet[o][i] # 0
    <2>1. StockUntouched(o) \/ (StockSettled(o) /\ \E i \in Items : stockNet[o][i] # 0)
      BY CancelCases
    <2>2. CASE StockUntouched(o)
      BY <1>4, <2>2 DEF StockUntouched, NoUnits
    <2>3. CASE StockSettled(o) /\ \E i \in Items : stockNet[o][i] # 0
      BY <1>4, <2>3 DEF StockSettled
    <2>4. QED
      BY <2>1, <2>2, <2>3
  <1>7. LedgerOf(o)'
    BY <1>4, <1>5, <1>6
    DEF LedgerOf, MoneyUntouched, MoneyReversed, StockUntouched, StockReversed, Stage, NoUnits
  <1>8. NoticeOf(o)'
    <2>1. NoticeOf(o)
      BY PerOrder DEF IInv
    <2>2. notice'[o]["office"] = IF moneyNet[o] # 0 THEN "reversed" ELSE notice[o]["office"]
      BY <1>1, QueueRows DEF IInv, ToReverse, Destinations
    <2>3. notice'[o]["boss"] = IF \E i \in Items : stockNet[o][i] # 0
                               THEN "reversed" ELSE notice[o]["boss"]
      BY <1>1, QueueRows DEF IInv, ToReverse, Destinations
    <2>4. QED
      BY <1>5, <1>6, <2>1, <2>2, <2>3
      DEF NoticeOf, Destinations, MoneyUntouched, StockUntouched
  <1>9. QED
    BY <1>2, <1>3, <1>7, <1>8, PerOrder, PerOrderPrimed, SameOrderKeeps DEF IInv

\* The writers of the other variables disturb types at most.
LEMMA OtherSteps ==
  ASSUME IInv,
         \/ \E o \in Orders, d \in Destinations : DeliverNotification(o, d)
         \/ WriteOffice
         \/ WriteStock
  PROVE  IInv'
  <1>1. TypeOK'
    <2>1. CASE \E o \in Orders, d \in Destinations : DeliverNotification(o, d)
      BY <2>1 DEF IInv, TypeOK, DeliverNotification, OrderStatuses, Stage
    <2>2. CASE WriteOffice
      BY <2>2, LimitAssumption DEF IInv, TypeOK, WriteOffice, OrderStatuses, Stage
    <2>3. CASE WriteStock
      BY <2>3, LimitAssumption DEF IInv, TypeOK, WriteStock, OrderStatuses, Stage
    <2>4. QED
      BY <2>1, <2>2, <2>3
  <1>2. \A q \in Orders : SameOrder(q)
    BY DEF SameOrder, DeliverNotification, WriteOffice, WriteStock
  <1>3. QED
    BY <1>1, <1>2, PerOrder, PerOrderPrimed, SameOrderKeeps DEF IInv

LEMMA NextIInv == IInv /\ [Next]_vars => IInv'
  <1> SUFFICES ASSUME IInv, [Next]_vars PROVE IInv'
    OBVIOUS
  <1>1. CASE \E o \in Orders : SaveOrder(o)
    BY <1>1, SaveOrderStep
  <1>2. CASE \E o \in Orders, target \in Statuses : HandleOrderUpdate(o, target)
    BY <1>2, SettleNothingStep, SettleOfficeStep, SettleBossStep, ReverseOrderStep
    DEF HandleOrderUpdate
  <1>3. CASE \/ \E o \in Orders, d \in Destinations : DeliverNotification(o, d)
             \/ WriteOffice
             \/ WriteStock
    BY <1>3, OtherSteps
  <1>4. CASE UNCHANGED vars
    <2>1. TypeOK'
      BY <1>4 DEF IInv, TypeOK, vars, OrderStatuses, Stage
    <2>2. \A q \in Orders : SameOrder(q)
      BY <1>4 DEF SameOrder, vars
    <2>3. QED
      BY <2>1, <2>2, PerOrder, PerOrderPrimed, SameOrderKeeps DEF IInv
  <1>5. QED
    BY <1>1, <1>2, <1>3, <1>4 DEF Next

LEMMA SpecIInv == Spec => []IInv
  BY InitIInv, NextIInv, PTL DEF Spec

(***************************************************************************)
(* No interleaving of status updates, cancellations and other writers      *)
(* drives a balance below zero or past its column, for any order book.     *)
(***************************************************************************)
THEOREM TypeCorrect == Spec => []TypeOK
  <1>1. IInv => TypeOK
    BY DEF IInv
  <1>2. QED
    BY <1>1, SpecIInv, PTL

(***************************************************************************)
(* SettleOrderStatus and reverseOrder keep every order's ledgers in the    *)
(* state its status names: no movement is missing, doubled or unreversed.  *)
(***************************************************************************)
THEOREM LedgerCorrect == Spec => []LedgerMatchesStatus
  <1>1. IInv => LedgerMatchesStatus
    BY DEF IInv
  <1>2. QED
    BY <1>1, SpecIInv, PTL

(***************************************************************************)
(* queueOrderMovement leaves exactly the embed of each ledger's last       *)
(* movement in the outbox.                                                 *)
(***************************************************************************)
THEOREM NoticeCorrect == Spec => []NoticeMatchesLedger
  <1>1. IInv => NoticeMatchesLedger
    BY DEF IInv
  <1>2. QED
    BY <1>1, SpecIInv, PTL

\* The edges of the stage diagram that one handler can take.
StageEdge(o) ==
  <<status[o], status'[o]>> \in
    {<<"unsaved", "open">>, <<"open", Stage(o)>>, <<Stage(o), "complete">>,
     <<"open", "cancelled">>, <<Stage(o), "cancelled">>}

\* A handler either repeats the status or takes an edge.
LEMMA UpdateTakesEdge ==
  ASSUME IInv, NEW o \in Orders, NEW target \in Statuses, HandleOrderUpdate(o, target)
  PROVE  /\ \A q \in Orders \ {o} : status'[q] = status[q]
         /\ status'[o] # status[o] => StageEdge(o)
  <1>1. status' = [status EXCEPT ![o] = target]
    BY DEF HandleOrderUpdate, SettleNothing, SettleOffice, SettleBoss, ReverseOrder
  <1>2. OrderStatusMovement(o, target) \in {"none", "office", "boss", "cancel"}
    BY DEF HandleOrderUpdate, SettleNothing, SettleOffice, SettleBoss, ReverseOrder
  <1>3. target # status[o] =>
          <<status[o], target>> \in
            {<<"open", Stage(o)>>, <<Stage(o), "complete">>,
             <<"open", "cancelled">>, <<Stage(o), "cancelled">>}
    BY <1>2, DirectionAssumption DEF OrderStatusMovement, Stage
  <1>4. QED
    BY <1>1, <1>3 DEF IInv, TypeOK, StageEdge

(***************************************************************************)
(* handleOrderUpdate takes an order only along Open, Ready/Paid, Complete  *)
(* or into Cancelled, and never out of Complete or Cancelled.              *)
(***************************************************************************)
THEOREM StagesCorrect == Spec => StagesInOrder
  <1>1. IInv /\ [Next]_vars => [\A o \in Orders : status'[o] # status[o] => StageEdge(o)]_vars
    <2> SUFFICES ASSUME IInv, Next, NEW q \in Orders, status'[q] # status[q]
                 PROVE  StageEdge(q)
      BY DEF vars
    <2>1. CASE \E o \in Orders : SaveOrder(o)
      BY <2>1 DEF SaveOrder, StageEdge, IInv, TypeOK
    <2>2. CASE \E o \in Orders, target \in Statuses : HandleOrderUpdate(o, target)
      BY <2>2, UpdateTakesEdge
    <2>3. CASE \/ \E o \in Orders, d \in Destinations : DeliverNotification(o, d)
               \/ WriteOffice
               \/ WriteStock
      BY <2>3 DEF DeliverNotification, WriteOffice, WriteStock
    <2>4. QED
      BY <2>1, <2>2, <2>3 DEF Next
  <1>2. QED
    BY <1>1, SpecIInv, PTL DEF Spec, StagesInOrder, StageEdge

\* A handler that posts a ledger changes the status with it.
LEMMA UpdateMovesStatus ==
  ASSUME IInv, NEW o \in Orders, NEW target \in Statuses, HandleOrderUpdate(o, target)
  PROVE  \A q \in Orders : status'[q] = status[q] =>
           /\ moneyRows'[q] = moneyRows[q] /\ moneyNet'[q] = moneyNet[q]
           /\ stockRows'[q] = stockRows[q] /\ stockNet'[q] = stockNet[q]
  <1>1. CASE SettleNothing(o, target)
    BY <1>1 DEF SettleNothing
  <1>2. CASE ~SettleNothing(o, target)
    <2>1. status' = [status EXCEPT ![o] = target] /\ status[o] # target
      BY <1>2, DirectionAssumption
      DEF HandleOrderUpdate, SettleNothing, SettleOffice, SettleBoss, ReverseOrder,
          OrderStatusMovement, Stage
    <2>2. status'[o] # status[o]
      BY <2>1 DEF IInv, TypeOK
    <2>3. \A q \in Orders \ {o} :
            /\ moneyRows'[q] = moneyRows[q] /\ moneyNet'[q] = moneyNet[q]
            /\ stockRows'[q] = stockRows[q] /\ stockNet'[q] = stockNet[q]
      <3>1. CASE SettleOffice(o, target)
        BY <3>1 DEF SettleOffice, LinkMoney, IInv, TypeOK
      <3>2. CASE SettleBoss(o, target)
        BY <3>2 DEF SettleBoss, LinkStock, IInv, TypeOK
      <3>3. CASE ReverseOrder(o, target)
        <4>1. \A q \in Orders \ {o} : moneyRows'[q] = moneyRows[q] /\ moneyNet'[q] = moneyNet[q]
          BY <3>3 DEF ReverseOrder, LinkMoney, LinkStock, IInv, TypeOK
        <4>2. \A q \in Orders \ {o} : stockRows'[q] = stockRows[q] /\ stockNet'[q] = stockNet[q]
          BY <3>3 DEF ReverseOrder, LinkMoney, LinkStock, IInv, TypeOK
        <4>3. QED
          BY <4>1, <4>2
      <3>4. QED
        BY <1>2, <3>1, <3>2, <3>3 DEF HandleOrderUpdate
    <2>4. QED
      BY <2>2, <2>3
  <1>3. QED
    BY <1>1, <1>2

(***************************************************************************)
(* SettleOrderStatus posts an order's ledger only in the transaction that  *)
(* moves its status: a repeated click adds no entry.                       *)
(***************************************************************************)
THEOREM RepeatsPostNothing == Spec => LedgerMovesWithStatus
  <1>1. IInv /\ [Next]_vars =>
          [\A o \in Orders : status'[o] = status[o] =>
             /\ moneyRows'[o] = moneyRows[o] /\ moneyNet'[o] = moneyNet[o]
             /\ stockRows'[o] = stockRows[o] /\ stockNet'[o] = stockNet[o]]_vars
    <2> SUFFICES ASSUME IInv, Next, NEW q \in Orders, status'[q] = status[q]
                 PROVE  /\ moneyRows'[q] = moneyRows[q] /\ moneyNet'[q] = moneyNet[q]
                        /\ stockRows'[q] = stockRows[q] /\ stockNet'[q] = stockNet[q]
      BY DEF vars
    <2>1. CASE \E o \in Orders, target \in Statuses : HandleOrderUpdate(o, target)
      BY <2>1, UpdateMovesStatus
    <2>2. CASE ~\E o \in Orders, target \in Statuses : HandleOrderUpdate(o, target)
      BY <2>2 DEF Next, SaveOrder, DeliverNotification, WriteOffice, WriteStock
    <2>3. QED
      BY <2>1, <2>2
  <1>2. QED
    BY <1>1, SpecIInv, PTL DEF Spec, LedgerMovesWithStatus


-----------------------------------------------------------------------------
\* A ledger entry of an order changes what all orders add up to by as much.
LEMMA NetChanges ==
  ASSUME NEW f \in [Orders -> Int], NEW g \in [Orders -> Int], NEW o \in Orders, NEW d \in Int,
         g[o] = f[o] + d, \A q \in Orders \ {o} : g[q] = f[q]
  PROVE  SumFunction(f) \in Int /\ SumFunction(g) = SumFunction(f) + d
  <1>1. DOMAIN f = Orders /\ DOMAIN g = Orders
    OBVIOUS
  <1>2. SumFunction(f) = SumFunctionOnSet(f, Orders) /\ SumFunction(g) = SumFunctionOnSet(g, Orders)
    BY <1>1, Zenon DEF SumFunction
  <1>3. SumFunctionOnSet(f, Orders) \in Int
    BY OrdersAssumption, SumIsInteger
  <1>4. SumFunctionOnSet(g, Orders) = SumFunctionOnSet(f, Orders) + (g[o] - f[o])
    BY OrdersAssumption, SumChanges
  <1>5. f[o] \in Int /\ g[o] - f[o] = d
    OBVIOUS
  <1>6. QED
    BY <1>2, <1>3, <1>4, <1>5

MoneyConserved == office = otherMoney + SumFunction(moneyNet)
StockColumn(i) == [o \in Orders |-> stockNet[o][i]]
StockConserved(i) == stock[i] = otherStock[i] + SumFunction(StockColumn(i))

\* What a handler adds to the office balance it links to its order.
LEMMA MoneyMoves ==
  ASSUME TypeOK, MoneyConserved, NEW o \in Orders, NEW d \in Int, LinkMoney(o, d),
         office' = office + d, UNCHANGED otherMoney
  PROVE  MoneyConserved'
  <1>1. moneyNet \in [Orders -> Int] /\ otherMoney \in Int
    BY DEF TypeOK
  <1>2. /\ moneyNet' \in [Orders -> Int]
        /\ moneyNet'[o] = moneyNet[o] + d
        /\ \A q \in Orders \ {o} : moneyNet'[q] = moneyNet[q]
    BY <1>1 DEF LinkMoney
  <1>3. SumFunction(moneyNet) \in Int /\ SumFunction(moneyNet') = SumFunction(moneyNet) + d
    BY <1>1, <1>2, NetChanges
  <1>4. QED
    BY <1>1, <1>3 DEF MoneyConserved

\* What a handler adds to a balance of the safebox it links to its order.
LEMMA StockMoves ==
  ASSUME TypeOK, NEW i \in Items, StockConserved(i), NEW o \in Orders,
         NEW delta \in [Items -> Int], LinkStock(o, delta),
         stock'[i] = stock[i] + delta[i], UNCHANGED otherStock
  PROVE  StockConserved(i)'
  <1>1. stockNet \in [Orders -> [Items -> Int]] /\ otherStock[i] \in Int /\ delta[i] \in Int
    BY DEF TypeOK
  <1>2. /\ \A q \in Orders : stockNet'[q][i] = IF q = o THEN stockNet[q][i] + delta[i] ELSE stockNet[q][i]
        /\ \A q \in Orders : stockNet[q][i] \in Int
    BY <1>1 DEF LinkStock
  <1>3. /\ StockColumn(i) \in [Orders -> Int] /\ StockColumn(i)' \in [Orders -> Int]
        /\ StockColumn(i)'[o] = StockColumn(i)[o] + delta[i]
        /\ \A q \in Orders \ {o} : StockColumn(i)'[q] = StockColumn(i)[q]
    BY <1>1, <1>2 DEF StockColumn
  <1>4. /\ SumFunction(StockColumn(i)) \in Int
        /\ SumFunction(StockColumn(i)') = SumFunction(StockColumn(i)) + delta[i]
    BY <1>1, <1>3, NetChanges
  <1>5. QED
    BY <1>1, <1>4 DEF StockConserved

LEMMA ConservedParts ==
  /\ BalancesConserved <=> MoneyConserved /\ \A i \in Items : StockConserved(i)
  /\ BalancesConserved' <=> MoneyConserved' /\ \A i \in Items : StockConserved(i)'
  BY Zenon DEF BalancesConserved, MoneyConserved, StockConserved, StockColumn

(***************************************************************************)
(* Whatever is settled, cancelled or written besides, the office balance   *)
(* and every stock balance are what the other writers left in them plus    *)
(* the net of the rows linked to orders (LinkMoney, LinkStock).            *)
(***************************************************************************)
THEOREM BalancesCorrect == Spec => []BalancesConserved
  <1>1. Init => BalancesConserved
    <2> SUFFICES ASSUME Init PROVE BalancesConserved
      OBVIOUS
    <2>1. ASSUME NEW f, DOMAIN f = Orders, \A o \in Orders : f[o] = 0 PROVE SumFunction(f) = 0
      BY <2>1, OrdersAssumption, SumOfZeros DEF SumFunction
    <2>2. SumFunction(moneyNet) = 0
      BY <2>1 DEF Init
    <2>3. ASSUME NEW i \in Items PROVE SumFunction(StockColumn(i)) = 0
      <3>1. DOMAIN StockColumn(i) = Orders /\ \A o \in Orders : StockColumn(i)[o] = 0
        BY DEF StockColumn, Init, NoUnits
      <3>2. QED
        BY <2>1, <3>1
    <2>4. office = otherMoney /\ stock = otherStock /\ office \in Int /\ stock \in [Items -> Int]
      BY LimitAssumption DEF Init
    <2>5. MoneyConserved /\ \A i \in Items : StockConserved(i)
      BY <2>2, <2>3, <2>4 DEF MoneyConserved, StockConserved
    <2>6. QED
      BY <2>5, ConservedParts
  <1>2. TypeOK /\ BalancesConserved /\ [Next]_vars => BalancesConserved'
    <2> SUFFICES ASSUME TypeOK, BalancesConserved, [Next]_vars PROVE BalancesConserved'
      OBVIOUS
    <2>1. MoneyConserved /\ \A i \in Items : StockConserved(i)
      BY ConservedParts
    <2>2. office \in Int /\ \A i \in Items : stock[i] \in Int
      BY LimitAssumption DEF TypeOK
    <2>3. ASSUME UNCHANGED <<office, otherMoney, moneyNet>> PROVE MoneyConserved'
      BY <2>1, <2>3 DEF MoneyConserved
    <2>4. ASSUME UNCHANGED <<stock, otherStock, stockNet>> PROVE \A i \in Items : StockConserved(i)'
      BY <2>1, <2>4 DEF StockConserved, StockColumn
    <2>5. CASE UNCHANGED <<office, stock, moneyNet, stockNet, otherMoney, otherStock>>
      BY <2>3, <2>4, <2>5, ConservedParts
    <2>6. ASSUME NEW o \in Orders, NEW target \in Statuses, SettleOffice(o, target) PROVE BalancesConserved'
      <3>1. MoneyDelta(o) \in Int
        BY DeltaTypes
      <3>2. MoneyConserved'
        BY <2>1, <2>6, <3>1, MoneyMoves DEF SettleOffice
      <3>3. QED
        BY <2>4, <2>6, <3>2, ConservedParts DEF SettleOffice
    <2>7. ASSUME NEW o \in Orders, NEW target \in Statuses, SettleBoss(o, target) PROVE BalancesConserved'
      <3>1. StockDelta(o) \in [Items -> Int]
        BY DeltaTypes
      <3>2. ASSUME NEW i \in Items PROVE StockConserved(i)'
        BY <2>1, <2>7, <3>1, StockMoves DEF SettleBoss
      <3>3. QED
        BY <2>3, <2>7, <3>2, ConservedParts DEF SettleBoss
    <2>8. ASSUME NEW o \in Orders, NEW target \in Statuses, ReverseOrder(o, target) PROVE BalancesConserved'
      <3>1. moneyNet[o] \in Int /\ \A i \in Items : stockNet[o][i] \in Int
        BY DEF TypeOK
      <3>2. MoneyConserved'
        <4>1. -moneyNet[o] \in Int /\ office' = office + (-moneyNet[o])
          BY <2>2, <2>8, <3>1 DEF ReverseOrder
        <4>2. QED
          BY <2>1, <2>8, <4>1, MoneyMoves DEF ReverseOrder
      <3>3. ASSUME NEW i \in Items PROVE StockConserved(i)'
        <4> DEFINE delta == [j \in Items |-> -stockNet[o][j]]
        <4>1. delta \in [Items -> Int] /\ stock'[i] = stock[i] + delta[i]
          BY <2>2, <2>8, <3>1 DEF ReverseOrder
        <4>2. LinkStock(o, delta) /\ UNCHANGED otherStock
          BY <2>8 DEF ReverseOrder
        <4> HIDE DEF delta
        <4>3. QED
          BY <2>1, <4>1, <4>2, StockMoves
      <3>4. QED
        BY <3>2, <3>3, ConservedParts
    <2>9. CASE WriteOffice
      <3>1. PICK balance \in 0..MaxMoney : /\ office' = balance
                                            /\ otherMoney' = otherMoney + (balance - office)
                                            /\ UNCHANGED <<stock, moneyNet, stockNet, otherStock>>
        BY <2>9 DEF WriteOffice
      <3>2. otherMoney \in Int /\ moneyNet \in [Orders -> Int] /\ balance \in Int
        BY LimitAssumption DEF TypeOK
      <3>3. SumFunction(moneyNet) \in Int
        BY <3>2, OrdersAssumption, SumIsInteger DEF SumFunction
      <3>4. MoneyConserved'
        BY <2>1, <2>2, <3>1, <3>2, <3>3 DEF MoneyConserved
      <3>5. QED
        BY <2>4, <3>1, <3>4, ConservedParts
    <2>10. CASE WriteStock
      <3>1. PICK quantity \in [Items -> 0..MaxStock] :
              /\ stock' = quantity
              /\ otherStock' = [i \in Items |-> otherStock[i] + (quantity[i] - stock[i])]
              /\ UNCHANGED <<office, moneyNet, stockNet, otherMoney>>
        BY <2>10 DEF WriteStock
      <3>2. ASSUME NEW i \in Items PROVE StockConserved(i)'
        <4>1. /\ otherStock[i] \in Int /\ quantity[i] \in Int
              /\ StockColumn(i) \in [Orders -> Int] /\ StockColumn(i)' = StockColumn(i)
          BY <3>1, LimitAssumption DEF TypeOK, StockColumn
        <4>2. SumFunction(StockColumn(i)) \in Int
          BY <4>1, OrdersAssumption, SumIsInteger DEF SumFunction
        <4>3. stock'[i] = quantity[i] /\ otherStock'[i] = otherStock[i] + (quantity[i] - stock[i])
          BY <3>1
        <4>4. QED
          BY <2>1, <2>2, <4>1, <4>2, <4>3 DEF StockConserved
      <3>3. QED
        BY <2>3, <3>1, <3>2, ConservedParts
    <2>11. QED
      BY <2>5, <2>6, <2>7, <2>8, <2>9, <2>10
      DEF Next, HandleOrderUpdate, SaveOrder, SettleNothing, DeliverNotification, vars
  <1>3. QED
    BY <1>1, <1>2, TypeCorrect, PTL DEF Spec

-----------------------------------------------------------------------------
\* A worker holds the row, and Discord has taken the embed.
SentClaim(o, d) ==
  \E w \in Workers : /\ claim[w] # NoClaim /\ claim[w].sent
                     /\ claim[w].order = o /\ claim[w].dest = d

\* A claimed row waits as it was read, and only one worker has it.
ClaimsFit ==
  /\ \A w \in Workers : claim[w] # NoClaim =>
       LET c == claim[w]
       IN  /\ notice[c.order][c.dest] = c.embed
           /\ ~delivered[c.order][c.dest]
           /\ c.sent => posted[c.order][c.dest][c.embed] > 0
  /\ \A w, v \in Workers :
       /\ claim[w] # NoClaim /\ claim[v] # NoClaim
       /\ claim[w].order = claim[v].order /\ claim[w].dest = claim[v].dest
       => w = v

\* The embeds a row has been queued with, and the one it has yet to tell.
Queued(o, d) == IF notice[o][d] = "none" THEN 0 ELSE IF notice[o][d] = "posted" THEN 1 ELSE 2
Untold(o, d) ==
  IF notice[o][d] # "none" /\ ~delivered[o][d] /\ ~SentClaim(o, d) THEN 1 ELSE 0

RowFits(o, d) ==
  /\ notice[o][d] = "none" => ~delivered[o][d]
  /\ notice[o][d] # "reversed" => posted[o][d]["reversed"] = 0
  /\ delivered[o][d] => posted[o][d][notice[o][d]] > 0
  /\ posted[o][d]["posted"] + posted[o][d]["reversed"] + Untold(o, d) <= faults + Queued(o, d)

DeliveryInv ==
  /\ DeliveryTypeOK
  /\ ClaimsFit
  /\ \A o \in Orders, d \in Destinations : RowFits(o, d)

-----------------------------------------------------------------------------
\* What a status update does to an outbox row: nothing, the first embed, or the
\* embed of a reversal in the place of the first one.
LEMMA NoticeSteps ==
  ASSUME IInv, NEW o \in Orders, NEW target \in Statuses, HandleOrderUpdate(o, target),
         NEW q \in Orders, NEW d \in Destinations
  PROVE  \/ notice'[q][d] = notice[q][d] /\ delivered'[q][d] = delivered[q][d]
         \/ /\ q = o /\ notice[q][d] = "none" /\ notice'[q][d] = "posted"
            /\ delivered'[q][d] = delivered[q][d]
         \/ /\ q = o /\ notice[q][d] = "posted" /\ notice'[q][d] = "reversed"
            /\ delivered'[q][d] = FALSE
  <1>1. ASSUME NEW dests \in SUBSET Destinations, NEW embed \in {"posted", "reversed"},
               Queue(o, dests, embed)
        PROVE  /\ q # o => notice'[q][d] = notice[q][d] /\ delivered'[q][d] = delivered[q][d]
               /\ notice'[o][d] = IF d \in dests /\ (notice[o][d] = "none" \/ embed = "reversed")
                                  THEN embed ELSE notice[o][d]
               /\ delivered'[o][d] = IF d \in dests /\ embed = "reversed"
                                     THEN FALSE ELSE delivered[o][d]
    BY <1>1 DEF IInv, TypeOK, Queue
  <1>2. NoticeOf(o)
    BY PerOrder DEF IInv
  <1>3. moneyRows[o] \in Nat /\ stockRows[o] \in Nat
    BY DEF IInv, TypeOK
  <1>4. CASE SettleNothing(o, target)
    BY <1>4 DEF SettleNothing
  <1>5. CASE SettleOffice(o, target)
    <2>1. Queue(o, {"office"}, "posted") /\ {"office"} \in SUBSET Destinations
      BY <1>5 DEF SettleOffice, Destinations
    <2>2. d = "office" => notice[o][d] = "none"
      BY <1>2, <1>3, <1>5 DEF SettleOffice, MoneyPosted, NoticeOf
    <2>3. QED
      BY <1>1, <2>1, <2>2
  <1>6. CASE SettleBoss(o, target)
    <2>1. Queue(o, {"boss"}, "posted") /\ {"boss"} \in SUBSET Destinations
      BY <1>6 DEF SettleBoss, Destinations
    <2>2. d = "boss" => notice[o][d] = "none"
      BY <1>2, <1>3, <1>6 DEF SettleBoss, StockPosted, NoticeOf
    <2>3. QED
      BY <1>1, <2>1, <2>2
  <1>7. CASE ReverseOrder(o, target)
    <2>1. Queue(o, ToReverse(o), "reversed") /\ ToReverse(o) \in SUBSET Destinations
      BY <1>7 DEF ReverseOrder, ToReverse
    <2>2. d \in ToReverse(o) => notice[o][d] = "posted"
      <3>1. /\ MoneyUntouched(o) \/ (MoneySettled(o) /\ Total[o] > 0 /\ moneyNet[o] # 0)
            /\ StockUntouched(o) \/ (StockSettled(o) /\ \E i \in Items : stockNet[o][i] # 0)
        BY <1>7, CancelCases
      <3>2. moneyNet[o] # 0 => moneyRows[o] = 1
        BY <3>1 DEF MoneyUntouched, MoneySettled
      <3>3. (\E i \in Items : stockNet[o][i] # 0) => stockRows[o] = 1
        BY <3>1 DEF StockUntouched, StockSettled, NoUnits
      <3>4. QED
        BY <1>2, <3>2, <3>3 DEF ToReverse, NoticeOf, Destinations
    <2>3. QED
      BY <1>1, <2>1, <2>2
  <1>8. QED
    BY <1>4, <1>5, <1>6, <1>7 DEF HandleOrderUpdate

\* The facts about one row that its part of the invariant rests on.
SameRow(o, d) ==
  /\ notice'[o][d] = notice[o][d] /\ delivered'[o][d] = delivered[o][d]
  /\ posted'[o][d] = posted[o][d]
  /\ SentClaim(o, d)' <=> SentClaim(o, d)

LEMMA SameRowFits ==
  ASSUME DeliveryTypeOK, NEW o \in Orders, NEW d \in Destinations, RowFits(o, d), SameRow(o, d),
         faults' \in Nat, faults' >= faults
  PROVE  RowFits(o, d)'
  <1>1. Queued(o, d)' = Queued(o, d) /\ Untold(o, d)' = Untold(o, d)
    BY DEF SameRow, Queued, Untold
  <1>2. /\ posted[o][d]["posted"] \in Nat /\ posted[o][d]["reversed"] \in Nat
        /\ faults \in Nat /\ Queued(o, d) \in Nat /\ Untold(o, d) \in Nat
    BY FaultAssumption DEF DeliveryTypeOK, Embeds, Queued, Untold
  <1>3. QED
    BY <1>1, <1>2 DEF RowFits, SameRow

\* The row a worker has claimed.
LEMMA ClaimedRow ==
  ASSUME DeliveryInv, TypeOK, NEW w \in Workers, claim[w] # NoClaim
  PROVE  /\ claim[w] \in ClaimSet
         /\ claim[w].order \in Orders /\ claim[w].dest \in Destinations
         /\ claim[w].embed \in Embeds /\ claim[w].sent \in BOOLEAN
         /\ notice[claim[w].order][claim[w].dest] = claim[w].embed
         /\ ~delivered[claim[w].order][claim[w].dest]
         /\ SentClaim(claim[w].order, claim[w].dest) <=> claim[w].sent
  BY DEF DeliveryInv, DeliveryTypeOK, ClaimSet, ClaimsFit, SentClaim

\* Embeds are only ever added to a channel, one at a time.
LEMMA AcceptPosts ==
  ASSUME DeliveryTypeOK, NEW w \in Workers, NEW o \in Orders, NEW d \in Destinations,
         NEW e \in Embeds, claim[w].order = o, claim[w].dest = d, claim[w].embed = e, Accept(w)
  PROVE  /\ posted' \in [Orders -> [Destinations -> [Embeds -> Nat]]]
         /\ posted'[o][d][e] = posted[o][d][e] + 1
         /\ \A f \in Embeds \ {e} : posted'[o][d][f] = posted[o][d][f]
         /\ \A q \in Orders, c \in Destinations :
              <<q, c>> # <<o, d>> => posted'[q][c] = posted[q][c]
  BY DEF DeliveryTypeOK, Accept

-----------------------------------------------------------------------------
\* One lemma per step.  The steps that only wait or try again leave the rows.
LEMMA SaveOrderDelivery ==
  ASSUME DeliveryInv, IInv, IInv', NEW o \in Orders, SaveOrder(o), UNCHANGED deliveryVars
  PROVE  DeliveryInv'
  <1>1. DeliveryTypeOK'
    BY DEF IInv, DeliveryInv, DeliveryTypeOK, deliveryVars, ClaimSet, Destinations, Embeds
  <1>2. ClaimsFit'
    BY DEF DeliveryInv, ClaimsFit, deliveryVars, SaveOrder
  <1>3. \A q \in Orders, d \in Destinations : RowFits(q, d)'
    BY DEF DeliveryInv, RowFits, Queued, Untold, SentClaim, SaveOrder, deliveryVars
  <1>4. QED
    BY <1>1, <1>2, <1>3 DEF DeliveryInv

LEMMA SettleAndQueueStep ==
  ASSUME DeliveryInv, IInv, IInv', NEW o \in Orders, NEW target \in Statuses,
         SettleAndQueue(o, target)
  PROVE  DeliveryInv'
  <1>1. /\ HandleOrderUpdate(o, target)
        /\ \A d \in Destinations : notice'[o][d] # notice[o][d] => ~Locked(o, d)
        /\ claim' = claim /\ posted' = posted /\ faults' = faults
    BY DEF SettleAndQueue, MayReplace
  <1>2. TypeOK'
    BY DEF IInv
  <1>3. due' \in [Orders -> [Destinations -> BOOLEAN]]
    BY DEF SettleAndQueue, DeliveryInv, DeliveryTypeOK
  <1>4. DeliveryTypeOK'
    BY <1>1, <1>2, <1>3 DEF DeliveryInv, DeliveryTypeOK, ClaimSet, Destinations, Embeds
  <1>5. ASSUME NEW q \in Orders, NEW d \in Destinations
        PROVE  \/ notice'[q][d] = notice[q][d] /\ delivered'[q][d] = delivered[q][d]
               \/ /\ notice[q][d] = "none" /\ notice'[q][d] = "posted" /\ ~Locked(q, d)
                  /\ delivered'[q][d] = delivered[q][d]
               \/ /\ notice[q][d] = "posted" /\ notice'[q][d] = "reversed" /\ ~Locked(q, d)
                  /\ delivered'[q][d] = FALSE
    <2>1. \/ notice'[q][d] = notice[q][d] /\ delivered'[q][d] = delivered[q][d]
          \/ /\ q = o /\ notice[q][d] = "none" /\ notice'[q][d] = "posted"
             /\ delivered'[q][d] = delivered[q][d]
          \/ /\ q = o /\ notice[q][d] = "posted" /\ notice'[q][d] = "reversed"
             /\ delivered'[q][d] = FALSE
      BY <1>1, NoticeSteps
    <2>2. q = o /\ notice'[q][d] # notice[q][d] => ~Locked(q, d)
      BY <1>1
    <2>3. QED
      BY <2>1, <2>2
  <1>6. ClaimsFit'
    <2>1. ASSUME NEW w \in Workers, claim[w] # NoClaim
          PROVE  /\ notice'[claim[w].order][claim[w].dest] = claim[w].embed
                 /\ ~delivered'[claim[w].order][claim[w].dest]
      <3>1. Locked(claim[w].order, claim[w].dest)
        BY <2>1 DEF Locked
      <3>2. TypeOK
        BY DEF IInv
      <3>3. /\ claim[w].order \in Orders /\ claim[w].dest \in Destinations
            /\ notice[claim[w].order][claim[w].dest] = claim[w].embed
            /\ ~delivered[claim[w].order][claim[w].dest]
        BY <2>1, <3>2, ClaimedRow
      <3>4. \A q \in Orders, d \in Destinations : Locked(q, d) =>
              notice'[q][d] = notice[q][d] /\ delivered'[q][d] = delivered[q][d]
        BY ONLY <1>5
      <3>5. QED
        BY ONLY <3>1, <3>3, <3>4
    <2>2. QED
      BY <1>1, <2>1 DEF DeliveryInv, ClaimsFit
  <1>7. ASSUME NEW q \in Orders, NEW d \in Destinations
        PROVE  RowFits(q, d)'
    <2>1. RowFits(q, d) /\ DeliveryTypeOK
      BY DEF DeliveryInv
    <2>2. SentClaim(q, d)' <=> SentClaim(q, d)
      BY <1>1 DEF SentClaim
    <2>3. ~Locked(q, d) => ~SentClaim(q, d)
      BY DEF Locked, SentClaim
    <2>4. /\ posted[q][d]["posted"] \in Nat /\ posted[q][d]["reversed"] \in Nat /\ faults \in Nat
      BY <2>1, FaultAssumption DEF DeliveryTypeOK, Embeds
    <2>5. CASE notice'[q][d] = notice[q][d] /\ delivered'[q][d] = delivered[q][d]
      BY <1>1, <2>1, <2>2, <2>4, <2>5, SameRowFits DEF SameRow
    <2>6. CASE /\ notice[q][d] = "none" /\ notice'[q][d] = "posted" /\ ~Locked(q, d)
               /\ delivered'[q][d] = delivered[q][d]
      BY <1>1, <2>1, <2>2, <2>3, <2>4, <2>6 DEF RowFits, Queued, Untold
    <2>7. CASE /\ notice[q][d] = "posted" /\ notice'[q][d] = "reversed" /\ ~Locked(q, d)
               /\ delivered'[q][d] = FALSE
      BY <1>1, <2>1, <2>2, <2>3, <2>4, <2>7 DEF RowFits, Queued, Untold
    <2>8. QED
      BY <1>5, <2>5, <2>6, <2>7
  <1>8. QED
    BY <1>4, <1>6, <1>7 DEF DeliveryInv

LEMMA ClaimStep ==
  ASSUME DeliveryInv, IInv, NEW w \in Workers, NEW o \in Orders, NEW d \in Destinations,
         Claim(w, o, d)
  PROVE  DeliveryInv'
  <1> DEFINE c == [order |-> o, dest |-> d, embed |-> notice[o][d], sent |-> FALSE]
  <1>1. /\ claim[w] = NoClaim /\ notice[o][d] # "none" /\ ~delivered[o][d] /\ ~Locked(o, d)
        /\ claim' = [claim EXCEPT ![w] = c] /\ UNCHANGED <<vars, due, posted, faults>>
    BY DEF Claim, Claimable
  <1>2. c \in ClaimSet /\ c # NoClaim
    <2>1. notice[o][d] \in Embeds
      BY <1>1 DEF IInv, TypeOK, Embeds
    <2>2. c \in ClaimSet
      BY <2>1 DEF ClaimSet
    <2>3. QED
      BY <2>2, ClaimAssumption
  <1>3. /\ c.order = o /\ c.dest = d /\ c.embed = notice[o][d] /\ c.sent = FALSE
    OBVIOUS
  <1> HIDE DEF c
  <1>4. DeliveryTypeOK
    BY DEF DeliveryInv
  <1>5. /\ claim' \in [Workers -> ClaimSet \cup {NoClaim}]
        /\ claim'[w] = c /\ \A v \in Workers \ {w} : claim'[v] = claim[v]
        /\ \A q \in Orders, e \in Destinations : SentClaim(q, e)' <=> SentClaim(q, e)
    <2>1. /\ claim' \in [Workers -> ClaimSet \cup {NoClaim}]
          /\ claim'[w] = c /\ \A v \in Workers \ {w} : claim'[v] = claim[v]
      BY <1>1, <1>2, <1>4 DEF DeliveryTypeOK
    <2>2. QED
      BY <1>1, <1>3, <2>1 DEF SentClaim
  <1>6. DeliveryTypeOK'
    BY <1>1, <1>4, <1>5
    DEF DeliveryTypeOK, IInv, TypeOK, vars, ClaimSet, Destinations, Embeds, OrderStatuses, Stage
  <1>7. ClaimsFit'
    <2>1. \A v \in Workers \ {w} : claim[v] # NoClaim => <<claim[v].order, claim[v].dest>> # <<o, d>>
      BY <1>1 DEF Locked
    <2>2. QED
      BY <1>1, <1>3, <1>5, <2>1 DEF DeliveryInv, ClaimsFit, vars
  <1>8. ASSUME NEW q \in Orders, NEW e \in Destinations
        PROVE  RowFits(q, e)'
    BY <1>1, <1>4, <1>5, SameRowFits, FaultAssumption
    DEF DeliveryInv, DeliveryTypeOK, SameRow, vars
  <1>9. QED
    BY <1>6, <1>7, <1>8 DEF DeliveryInv

\* Discord takes the embed of a claimed row, for the first time in this claim.
LEMMA SendAcceptedStep ==
  ASSUME DeliveryInv, IInv, NEW w \in Workers, SendAccepted(w)
  PROVE  DeliveryInv'
  <1>1. DeliveryTypeOK /\ TypeOK /\ ClaimsFit
    BY DEF DeliveryInv, IInv
  <1>2. claim[w] # NoClaim /\ ~claim[w].sent /\ Accept(w) /\ UNCHANGED <<vars, due, faults>>
    BY DEF SendAccepted
  <1>3. PICK o \in Orders, d \in Destinations, e \in Embeds :
          /\ claim[w] = [order |-> o, dest |-> d, embed |-> e, sent |-> FALSE]
          /\ claim[w].order = o /\ claim[w].dest = d /\ claim[w].embed = e
    BY <1>1, <1>2, ClaimedRow DEF ClaimSet
  <1> DEFINE c == [claim[w] EXCEPT !.sent = TRUE]
  <1>4. /\ c \in ClaimSet /\ c # NoClaim /\ c.order = o /\ c.dest = d /\ c.embed = e /\ c.sent
        /\ claim' = [claim EXCEPT ![w] = c]
    <2>1. claim' = [claim EXCEPT ![w] = c]
      BY <1>1 DEF SendAccepted, DeliveryTypeOK
    <2>2. c \in ClaimSet /\ c.order = o /\ c.dest = d /\ c.embed = e /\ c.sent
      BY <1>3 DEF ClaimSet
    <2>3. QED
      BY <2>1, <2>2, ClaimAssumption
  <1> HIDE DEF c
  <1>5. /\ claim' \in [Workers -> ClaimSet \cup {NoClaim}]
        /\ claim'[w] = c /\ \A v \in Workers \ {w} : claim'[v] = claim[v]
    BY <1>1, <1>4 DEF DeliveryTypeOK
  <1>6. notice[o][d] = e /\ ~delivered[o][d] /\ ~SentClaim(o, d)
    BY <1>1, <1>2, <1>3, ClaimedRow
  <1>7. /\ posted' \in [Orders -> [Destinations -> [Embeds -> Nat]]]
        /\ posted'[o][d][e] = posted[o][d][e] + 1
        /\ \A f \in Embeds \ {e} : posted'[o][d][f] = posted[o][d][f]
        /\ \A q \in Orders, b \in Destinations :
             <<q, b>> # <<o, d>> => posted'[q][b] = posted[q][b]
    BY <1>1, <1>2, <1>3, AcceptPosts
  <1>8. DeliveryTypeOK'
    BY <1>1, <1>2, <1>5, <1>7
    DEF DeliveryTypeOK, TypeOK, vars, ClaimSet, Destinations, Embeds, OrderStatuses, Stage
  <1>9. \A q \in Orders, b \in Destinations, f \in Embeds : posted'[q][b][f] >= posted[q][b][f]
    <2> SUFFICES ASSUME NEW q \in Orders, NEW b \in Destinations, NEW f \in Embeds
                 PROVE  posted'[q][b][f] >= posted[q][b][f]
      OBVIOUS
    <2>1. posted[q][b][f] \in Nat
      BY <1>1 DEF DeliveryTypeOK
    <2>2. QED
      BY <1>7, <2>1
  <1>10. ClaimsFit'
    <2>1. posted'[o][d][e] > 0
      BY <1>1, <1>7 DEF DeliveryTypeOK
    <2>2. ASSUME NEW v \in Workers \ {w}, claim[v] # NoClaim, claim[v].sent
          PROVE  posted'[claim[v].order][claim[v].dest][claim[v].embed] > 0
      <3>1. PICK q \in Orders, b \in Destinations, f \in Embeds :
              claim[v].order = q /\ claim[v].dest = b /\ claim[v].embed = f
        BY <1>1, <2>2, ClaimedRow
      <3>2. posted[q][b][f] > 0 /\ posted[q][b][f] \in Nat /\ posted'[q][b][f] \in Nat
        BY <1>1, <1>7, <2>2, <3>1 DEF ClaimsFit, DeliveryTypeOK
      <3>3. QED
        BY <1>9, <3>1, <3>2
    <2>3. notice' = notice /\ delivered' = delivered
      BY <1>2 DEF vars
    <2>4. \A v \in Workers : claim'[v] # NoClaim =>
            LET k == claim'[v]
            IN  /\ notice'[k.order][k.dest] = k.embed
                /\ ~delivered'[k.order][k.dest]
                /\ k.sent => posted'[k.order][k.dest][k.embed] > 0
      BY <1>1, <1>4, <1>5, <1>6, <2>1, <2>2, <2>3 DEF ClaimsFit
    <2>5. \A v, u \in Workers :
            /\ claim'[v] # NoClaim /\ claim'[u] # NoClaim
            /\ claim'[v].order = claim'[u].order /\ claim'[v].dest = claim'[u].dest
            => v = u
      BY <1>1, <1>2, <1>3, <1>4, <1>5 DEF ClaimsFit
    <2>6. QED
      BY <2>4, <2>5 DEF ClaimsFit
  <1>11. ASSUME NEW q \in Orders, NEW b \in Destinations
         PROVE  RowFits(q, b)'
    <2>1. RowFits(q, b) /\ notice' = notice /\ delivered' = delivered /\ faults' = faults
      BY <1>2 DEF DeliveryInv, vars
    <2>2. /\ posted[q][b]["posted"] \in Nat /\ posted[q][b]["reversed"] \in Nat /\ faults \in Nat
      BY <1>1, FaultAssumption DEF DeliveryTypeOK, Embeds
    <2>3. CASE <<q, b>> = <<o, d>>
      <3>1. SentClaim(o, d)'
        BY <1>4, <1>5 DEF SentClaim
      <3>2. Untold(o, d) = 1 /\ Untold(o, d)' = 0 /\ Queued(o, d)' = Queued(o, d)
        BY <1>6, <2>1, <3>1 DEF Untold, Queued, Embeds
      <3>3. CASE e = "posted"
        BY <1>6, <1>7, <2>1, <2>2, <2>3, <3>2, <3>3 DEF RowFits, Embeds, Queued
      <3>4. CASE e = "reversed"
        BY <1>6, <1>7, <2>1, <2>2, <2>3, <3>2, <3>4 DEF RowFits, Embeds, Queued
      <3>5. QED
        BY <3>3, <3>4 DEF Embeds
    <2>4. CASE <<q, b>> # <<o, d>>
      <3>1. SentClaim(q, b)' <=> SentClaim(q, b)
        BY <1>2, <1>3, <1>4, <1>5, <2>4 DEF SentClaim
      <3>2. SameRow(q, b)
        BY <1>7, <2>1, <2>4, <3>1 DEF SameRow
      <3>3. QED
        BY <1>1, <2>1, <2>2, <3>2, SameRowFits
    <2>5. QED
      BY <2>3, <2>4
  <1>12. QED
    BY <1>8, <1>10, <1>11 DEF DeliveryInv

\* A claim that was given up leaves its row to be claimed again.
LEMMA Unclaimed ==
  ASSUME DeliveryInv, NEW w \in Workers, claim' = [claim EXCEPT ![w] = NoClaim]
  PROVE  /\ claim' \in [Workers -> ClaimSet \cup {NoClaim}]
         /\ claim'[w] = NoClaim /\ \A v \in Workers \ {w} : claim'[v] = claim[v]
         /\ \A o \in Orders, d \in Destinations :
              /\ claim[w].order # o \/ claim[w].dest # d \/ ~claim[w].sent \/ claim[w] = NoClaim
                   => (SentClaim(o, d)' <=> SentClaim(o, d))
              /\ SentClaim(o, d)' => SentClaim(o, d)
  <1>1. /\ claim' \in [Workers -> ClaimSet \cup {NoClaim}]
        /\ claim'[w] = NoClaim /\ \A v \in Workers \ {w} : claim'[v] = claim[v]
    BY DEF DeliveryInv, DeliveryTypeOK
  <1>2. QED
    BY <1>1 DEF SentClaim

\* What giving up a claim leaves of ClaimsFit.
LEMMA UnclaimedFit ==
  ASSUME DeliveryInv, TypeOK, NEW w \in Workers, claim' = [claim EXCEPT ![w] = NoClaim],
         notice' = notice,
         \A v \in Workers \ {w} : claim[v] # NoClaim =>
           /\ delivered'[claim[v].order][claim[v].dest] = delivered[claim[v].order][claim[v].dest]
           /\ posted[claim[v].order][claim[v].dest][claim[v].embed] > 0
                => posted'[claim[v].order][claim[v].dest][claim[v].embed] > 0
  PROVE  ClaimsFit'
  <1>1. claim'[w] = NoClaim /\ \A v \in Workers \ {w} : claim'[v] = claim[v]
    BY Unclaimed
  <1>2. ClaimsFit
    BY DEF DeliveryInv
  <1>3. ASSUME NEW v \in Workers, claim'[v] # NoClaim
        PROVE  LET k == claim'[v]
               IN  /\ notice'[k.order][k.dest] = k.embed
                   /\ ~delivered'[k.order][k.dest]
                   /\ k.sent => posted'[k.order][k.dest][k.embed] > 0
    <2>1. v # w /\ claim'[v] = claim[v] /\ claim[v] # NoClaim
      BY <1>1, <1>3
    <2>2. QED
      BY <1>2, <2>1 DEF ClaimsFit
  <1>4. \A v, u \in Workers :
          /\ claim'[v] # NoClaim /\ claim'[u] # NoClaim
          /\ claim'[v].order = claim'[u].order /\ claim'[v].dest = claim'[u].dest
          => v = u
    BY <1>1, <1>2 DEF ClaimsFit
  <1>5. QED
    BY <1>3, <1>4 DEF ClaimsFit

LEMMA SendRefusedStep ==
  ASSUME DeliveryInv, IInv, NEW w \in Workers, SendRefused(w)
  PROVE  DeliveryInv'
  <1>1. DeliveryTypeOK /\ TypeOK
    BY DEF DeliveryInv, IInv
  <1>2. /\ claim[w] # NoClaim /\ ~claim[w].sent /\ claim' = [claim EXCEPT ![w] = NoClaim]
        /\ UNCHANGED <<vars, posted, faults>>
    BY DEF SendRefused, Postpone
  <1>3. due' \in [Orders -> [Destinations -> BOOLEAN]]
    BY <1>1 DEF SendRefused, Postpone, DeliveryTypeOK
  <1>4. claim' \in [Workers -> ClaimSet \cup {NoClaim}]
    BY <1>2, Unclaimed
  <1>5. DeliveryTypeOK'
    BY <1>1, <1>2, <1>3, <1>4
    DEF DeliveryTypeOK, TypeOK, vars, ClaimSet, Destinations, Embeds, OrderStatuses, Stage
  <1>6. ClaimsFit'
    <2>1. notice' = notice /\ delivered' = delivered /\ posted' = posted
      BY <1>2 DEF vars
    <2>2. QED
      BY <1>1, <1>2, <2>1, UnclaimedFit
  <1>7. ASSUME NEW q \in Orders, NEW b \in Destinations
        PROVE  RowFits(q, b)'
    <2>1. SameRow(q, b)
      BY <1>2, Unclaimed DEF SameRow, vars
    <2>2. QED
      BY <1>1, <1>2, <2>1, SameRowFits, FaultAssumption DEF DeliveryInv, DeliveryTypeOK
  <1>8. QED
    BY <1>5, <1>6, <1>7 DEF DeliveryInv

\* Discord has the embed, but the row stays to be sent once more: one fault pays
\* for the repetition.
LEMMA AnswerLostStep ==
  ASSUME DeliveryInv, IInv, NEW w \in Workers, AnswerLost(w)
  PROVE  DeliveryInv'
  <1>1. DeliveryTypeOK /\ TypeOK
    BY DEF DeliveryInv, IInv
  <1>2. /\ claim[w] # NoClaim /\ ~claim[w].sent /\ claim' = [claim EXCEPT ![w] = NoClaim]
        /\ Accept(w) /\ faults < MaxFaults /\ faults' = faults + 1 /\ UNCHANGED vars
    BY DEF AnswerLost, Postpone
  <1>3. due' \in [Orders -> [Destinations -> BOOLEAN]]
    BY <1>1 DEF AnswerLost, Postpone, DeliveryTypeOK
  <1>4. claim' \in [Workers -> ClaimSet \cup {NoClaim}]
    BY <1>2, Unclaimed
  <1>5. PICK o \in Orders, d \in Destinations, e \in Embeds :
          claim[w].order = o /\ claim[w].dest = d /\ claim[w].embed = e
    BY <1>1, <1>2, ClaimedRow
  <1>6. /\ posted' \in [Orders -> [Destinations -> [Embeds -> Nat]]]
        /\ posted'[o][d][e] = posted[o][d][e] + 1
        /\ \A f \in Embeds \ {e} : posted'[o][d][f] = posted[o][d][f]
        /\ \A q \in Orders, b \in Destinations :
             <<q, b>> # <<o, d>> => posted'[q][b] = posted[q][b]
    BY <1>1, <1>2, <1>5, AcceptPosts
  <1>7. faults' \in 0..MaxFaults /\ faults \in Nat
    BY <1>1, <1>2, FaultAssumption DEF DeliveryTypeOK
  <1>8. DeliveryTypeOK'
    BY <1>1, <1>2, <1>3, <1>4, <1>6, <1>7
    DEF DeliveryTypeOK, TypeOK, vars, ClaimSet, Destinations, Embeds, OrderStatuses, Stage
  <1>9. notice[o][d] = e /\ ~delivered[o][d] /\ ~SentClaim(o, d)
    BY <1>1, <1>2, <1>5, ClaimedRow
  <1>10. notice' = notice /\ delivered' = delivered
    BY <1>2 DEF vars
  <1>11. ClaimsFit'
    <2>1. ASSUME NEW v \in Workers \ {w}, claim[v] # NoClaim
          PROVE  posted[claim[v].order][claim[v].dest][claim[v].embed] > 0
                   => posted'[claim[v].order][claim[v].dest][claim[v].embed] > 0
      <3>1. PICK q \in Orders, b \in Destinations, f \in Embeds :
              claim[v].order = q /\ claim[v].dest = b /\ claim[v].embed = f
        BY <1>1, <2>1, ClaimedRow
      <3>2. posted[q][b][f] \in Nat /\ posted'[q][b][f] \in Nat
        BY <1>1, <1>6 DEF DeliveryTypeOK
      <3>3. posted'[q][b][f] >= posted[q][b][f]
        BY <1>6, <3>2
      <3>4. QED
        BY <3>1, <3>2, <3>3
    <2>2. QED
      BY <1>1, <1>2, <1>10, <2>1, UnclaimedFit
  <1>12. ASSUME NEW q \in Orders, NEW b \in Destinations
         PROVE  RowFits(q, b)'
    <2>1. RowFits(q, b)
      BY DEF DeliveryInv
    <2>2. /\ posted[q][b]["posted"] \in Nat /\ posted[q][b]["reversed"] \in Nat
      BY <1>1 DEF DeliveryTypeOK, Embeds
    <2>3. SentClaim(q, b)' <=> SentClaim(q, b)
      BY <1>2, Unclaimed
    <2>4. CASE <<q, b>> = <<o, d>>
      <3>1. Untold(o, d)' = Untold(o, d) /\ Queued(o, d)' = Queued(o, d)
        BY <1>10, <2>3, <2>4 DEF Untold, Queued
      <3>2. Untold(o, d) \in Nat /\ Queued(o, d) \in Nat
        BY DEF Untold, Queued
      <3>3. CASE e = "posted"
        BY <1>2, <1>6, <1>7, <1>9, <1>10, <2>1, <2>2, <2>4, <3>1, <3>2, <3>3
        DEF RowFits, Embeds
      <3>4. CASE e = "reversed"
        BY <1>2, <1>6, <1>7, <1>9, <1>10, <2>1, <2>2, <2>4, <3>1, <3>2, <3>4
        DEF RowFits, Embeds
      <3>5. QED
        BY <3>3, <3>4 DEF Embeds
    <2>5. CASE <<q, b>> # <<o, d>>
      <3>1. SameRow(q, b)
        BY <1>6, <1>10, <2>3, <2>5 DEF SameRow
      <3>2. QED
        BY <1>1, <1>2, <1>7, <2>1, <3>1, SameRowFits
    <2>6. QED
      BY <2>4, <2>5
  <1>13. QED
    BY <1>8, <1>11, <1>12 DEF DeliveryInv

\* The message ID is saved: a step of OrderSettlement's DeliverNotification.
LEMMA RecordDeliveryStep ==
  ASSUME DeliveryInv, IInv, IInv', NEW w \in Workers, RecordDelivery(w)
  PROVE  DeliveryInv'
  <1>1. DeliveryTypeOK /\ TypeOK /\ TypeOK'
    BY DEF DeliveryInv, IInv
  <1>2. /\ claim[w] # NoClaim /\ claim[w].sent /\ claim' = [claim EXCEPT ![w] = NoClaim]
        /\ notice' = notice /\ UNCHANGED <<due, posted, faults>>
    BY DEF RecordDelivery
  <1>3. PICK o \in Orders, d \in Destinations, e \in Embeds :
          claim[w].order = o /\ claim[w].dest = d /\ claim[w].embed = e
    BY <1>1, <1>2, ClaimedRow
  <1>4. delivered' = [delivered EXCEPT ![o] = [delivered[o] EXCEPT ![d] = TRUE]]
    BY <1>3 DEF RecordDelivery
  <1>5. /\ delivered'[o][d] = TRUE
        /\ \A q \in Orders, b \in Destinations :
             <<q, b>> # <<o, d>> => delivered'[q][b] = delivered[q][b]
    BY <1>1, <1>4 DEF TypeOK
  <1>6. claim' \in [Workers -> ClaimSet \cup {NoClaim}]
    BY <1>2, Unclaimed
  <1>7. DeliveryTypeOK'
    BY <1>1, <1>2, <1>6 DEF DeliveryTypeOK, ClaimSet, Destinations, Embeds
  <1>8. /\ notice[o][d] = e /\ posted[o][d][e] > 0
        /\ \A v \in Workers \ {w} : claim[v] # NoClaim => <<claim[v].order, claim[v].dest>> # <<o, d>>
    BY <1>2, <1>3 DEF DeliveryInv, ClaimsFit
  <1>9. ClaimsFit'
    <2>1. \A v \in Workers \ {w} : claim[v] # NoClaim =>
            delivered'[claim[v].order][claim[v].dest] = delivered[claim[v].order][claim[v].dest]
      BY <1>1, <1>5, <1>8, ClaimedRow
    <2>2. QED
      BY <1>1, <1>2, <2>1, UnclaimedFit
  <1>10. ASSUME NEW q \in Orders, NEW b \in Destinations
         PROVE  RowFits(q, b)'
    <2>1. RowFits(q, b)
      BY DEF DeliveryInv
    <2>2. /\ posted[q][b]["posted"] \in Nat /\ posted[q][b]["reversed"] \in Nat /\ faults \in Nat
      BY <1>1, FaultAssumption DEF DeliveryTypeOK, Embeds
    <2>3. CASE <<q, b>> = <<o, d>>
      <3>1. SentClaim(o, d)
        BY <1>2, <1>3 DEF SentClaim
      <3>2. Untold(o, d) = 0 /\ Untold(o, d)' = 0 /\ Queued(o, d)' = Queued(o, d)
        BY <1>2, <1>5, <3>1 DEF Untold, Queued
      <3>3. QED
        BY <1>2, <1>5, <1>8, <2>1, <2>2, <2>3, <3>2 DEF RowFits, Embeds
    <2>4. CASE <<q, b>> # <<o, d>>
      <3>1. SentClaim(q, b)' <=> SentClaim(q, b)
        BY <1>2, <1>3, <2>4, Unclaimed
      <3>2. SameRow(q, b)
        BY <1>2, <1>5, <2>4, <3>1 DEF SameRow
      <3>3. QED
        BY <1>1, <1>2, <2>1, <2>2, <3>2, SameRowFits
    <2>5. QED
      BY <2>3, <2>4
  <1>11. QED
    BY <1>7, <1>9, <1>10 DEF DeliveryInv

\* A worker that dies after Discord took the embed leaves it to be sent again.
LEMMA WorkerCrashStep ==
  ASSUME DeliveryInv, IInv, NEW w \in Workers, WorkerCrash(w)
  PROVE  DeliveryInv'
  <1>1. DeliveryTypeOK /\ TypeOK
    BY DEF DeliveryInv, IInv
  <1>2. /\ claim[w] # NoClaim /\ claim' = [claim EXCEPT ![w] = NoClaim]
        /\ faults < MaxFaults /\ faults' = faults + 1 /\ UNCHANGED <<vars, due, posted>>
    BY DEF WorkerCrash
  <1>3. faults' \in 0..MaxFaults /\ faults \in Nat
    BY <1>1, <1>2, FaultAssumption DEF DeliveryTypeOK
  <1>4. claim' \in [Workers -> ClaimSet \cup {NoClaim}]
    BY <1>2, Unclaimed
  <1>5. DeliveryTypeOK'
    BY <1>1, <1>2, <1>3, <1>4
    DEF DeliveryTypeOK, TypeOK, vars, ClaimSet, Destinations, Embeds, OrderStatuses, Stage
  <1>6. notice' = notice /\ delivered' = delivered /\ posted' = posted
    BY <1>2 DEF vars
  <1>7. ClaimsFit'
    BY <1>1, <1>2, <1>6, UnclaimedFit
  <1>8. ASSUME NEW q \in Orders, NEW b \in Destinations
        PROVE  RowFits(q, b)'
    <2>1. RowFits(q, b)
      BY DEF DeliveryInv
    <2>2. /\ posted[q][b]["posted"] \in Nat /\ posted[q][b]["reversed"] \in Nat
      BY <1>1 DEF DeliveryTypeOK, Embeds
    <2>3. Untold(q, b)' <= Untold(q, b) + 1 /\ Untold(q, b) \in Nat /\ Untold(q, b)' \in Nat
      BY <1>6 DEF Untold
    <2>4. Queued(q, b)' = Queued(q, b) /\ Queued(q, b) \in Nat
      BY <1>6 DEF Queued
    <2>5. QED
      BY <1>2, <1>3, <1>6, <2>1, <2>2, <2>3, <2>4 DEF RowFits
  <1>9. QED
    BY <1>5, <1>7, <1>8 DEF DeliveryInv

LEMMA AttemptDueStep ==
  ASSUME DeliveryInv, IInv, NEW o \in Orders, NEW d \in Destinations, AttemptDue(o, d)
  PROVE  DeliveryInv'
  <1>1. DeliveryTypeOK /\ TypeOK
    BY DEF DeliveryInv, IInv
  <1>2. UNCHANGED <<vars, claim, posted, faults>>
    BY DEF AttemptDue
  <1>3. due' \in [Orders -> [Destinations -> BOOLEAN]]
    BY <1>1 DEF AttemptDue, DeliveryTypeOK
  <1>4. DeliveryTypeOK'
    BY <1>1, <1>2, <1>3
    DEF DeliveryTypeOK, TypeOK, vars, ClaimSet, Destinations, Embeds, OrderStatuses, Stage
  <1>5. ClaimsFit'
    BY <1>2 DEF DeliveryInv, ClaimsFit, vars
  <1>6. \A q \in Orders, b \in Destinations : RowFits(q, b)'
    BY <1>2 DEF DeliveryInv, RowFits, Queued, Untold, SentClaim, vars
  <1>7. QED
    BY <1>4, <1>5, <1>6 DEF DeliveryInv

-----------------------------------------------------------------------------
\* Every step is one of OrderSettlement or none of it.
LEMMA DeliveryStepImplements ==
  ASSUME DeliveryInv, IInv, [DeliveryNext]_wholeVars
  PROVE  [Next]_vars
  <1>1. CASE \E o \in Orders : SaveOrder(o) /\ UNCHANGED deliveryVars
    BY <1>1 DEF Next
  <1>2. CASE \E o \in Orders, target \in Statuses : SettleAndQueue(o, target)
    BY <1>2 DEF Next, SettleAndQueue
  <1>3. ASSUME NEW w \in Workers, RecordDelivery(w)
        PROVE  [Next]_vars
    <2>1. PICK o \in Orders, d \in Destinations : claim[w].order = o /\ claim[w].dest = d
      BY <1>3, ClaimedRow DEF RecordDelivery, IInv
    <2>2. notice[o][d] # "none" /\ ~delivered[o][d]
      BY <1>3, <2>1, ClaimedRow DEF RecordDelivery, IInv, Embeds
    <2>3. DeliverNotification(o, d)
      BY <1>3, <2>1, <2>2 DEF RecordDelivery, DeliverNotification, otherVars
    <2>4. QED
      BY <2>3 DEF Next
  <1>4. CASE \/ \E w \in Workers, o \in Orders, d \in Destinations : Claim(w, o, d)
             \/ \E w \in Workers :
                  SendAccepted(w) \/ SendRefused(w) \/ AnswerLost(w) \/ WorkerCrash(w)
             \/ \E o \in Orders, d \in Destinations : AttemptDue(o, d)
    BY <1>4 DEF Claim, SendAccepted, SendRefused, AnswerLost, WorkerCrash, AttemptDue
  <1>5. CASE UNCHANGED wholeVars
    BY <1>5 DEF wholeVars
  <1>6. QED
    BY <1>1, <1>2, <1>3, <1>4, <1>5 DEF DeliveryNext

LEMMA DeliveryStep ==
  ASSUME DeliveryInv, IInv, [DeliveryNext]_wholeVars
  PROVE  DeliveryInv' /\ IInv'
  <1>1. IInv'
    BY DeliveryStepImplements, NextIInv
  <1>2. CASE \E o \in Orders : SaveOrder(o) /\ UNCHANGED deliveryVars
    BY <1>1, <1>2, SaveOrderDelivery
  <1>3. CASE \E o \in Orders, target \in Statuses : SettleAndQueue(o, target)
    BY <1>1, <1>3, SettleAndQueueStep
  <1>4. CASE \E w \in Workers, o \in Orders, d \in Destinations : Claim(w, o, d)
    BY <1>1, <1>4, ClaimStep
  <1>5. CASE \E w \in Workers : SendAccepted(w) \/ SendRefused(w) \/ AnswerLost(w)
    BY <1>1, <1>5, SendAcceptedStep, SendRefusedStep, AnswerLostStep
  <1>6. CASE \E w \in Workers : RecordDelivery(w) \/ WorkerCrash(w)
    BY <1>1, <1>6, RecordDeliveryStep, WorkerCrashStep
  <1>7. CASE \E o \in Orders, d \in Destinations : AttemptDue(o, d)
    BY <1>1, <1>7, AttemptDueStep
  <1>8. CASE UNCHANGED wholeVars
    <2>1. /\ UNCHANGED vars /\ UNCHANGED deliveryVars
      BY <1>8 DEF wholeVars, deliveryVars
    <2>2. DeliveryTypeOK'
      BY <1>1, <2>1
      DEF IInv, DeliveryInv, DeliveryTypeOK, deliveryVars, ClaimSet, Destinations, Embeds
    <2>3. ClaimsFit'
      BY <2>1 DEF DeliveryInv, ClaimsFit, vars, deliveryVars
    <2>4. \A q \in Orders, d \in Destinations : RowFits(q, d)'
      BY <2>1 DEF DeliveryInv, RowFits, Queued, Untold, SentClaim, vars, deliveryVars
    <2>5. QED
      BY <1>1, <2>2, <2>3, <2>4 DEF DeliveryInv
  <1>9. QED
    BY <1>2, <1>3, <1>4, <1>5, <1>6, <1>7, <1>8 DEF DeliveryNext

LEMMA DeliveryInitInv == DeliveryInit => DeliveryInv /\ IInv
  <1> SUFFICES ASSUME DeliveryInit PROVE DeliveryInv /\ IInv
    OBVIOUS
  <1>1. IInv
    BY InitIInv DEF DeliveryInit
  <1>2. /\ claim = [w \in Workers |-> NoClaim] /\ faults = 0
        /\ due = [o \in Orders |-> [d \in Destinations |-> FALSE]]
        /\ posted = [o \in Orders |-> [d \in Destinations |-> [e \in Embeds |-> 0]]]
        /\ notice = [o \in Orders |-> [d \in Destinations |-> "none"]]
        /\ delivered = [o \in Orders |-> [d \in Destinations |-> FALSE]]
    BY DEF DeliveryInit, Init
  <1>3. DeliveryTypeOK
    BY <1>1, <1>2, FaultAssumption DEF IInv, DeliveryTypeOK
  <1>4. ClaimsFit
    BY <1>2 DEF ClaimsFit
  <1>5. ASSUME NEW o \in Orders, NEW d \in Destinations
        PROVE  RowFits(o, d)
    BY <1>2 DEF RowFits, Queued, Untold, Embeds
  <1>6. QED
    BY <1>1, <1>3, <1>4, <1>5 DEF DeliveryInv

LEMMA DeliverySpecInv == DeliverySpec => [](DeliveryInv /\ IInv)
  <1>1. DeliveryInv /\ IInv /\ [DeliveryNext]_wholeVars => DeliveryInv' /\ IInv'
    BY DeliveryStep
  <1>2. QED
    BY <1>1, DeliveryInitInv, PTL DEF DeliverySpec

(***************************************************************************)
(* A confirmed embed was posted in the form the row records, and only      *)
(* crashes and lost answers make deliverOrderNotification repeat one, for  *)
(* any number of workers and orders.                                       *)
(***************************************************************************)
THEOREM DeliveryCorrect == DeliverySpec => []DeliveredOnce
  <1>1. DeliveryInv => DeliveredOnce
    <2> SUFFICES ASSUME DeliveryInv, NEW o \in Orders, NEW d \in Destinations
                 PROVE  /\ delivered[o][d] => posted[o][d][notice[o][d]] > 0
                        /\ posted[o][d]["posted"] + posted[o][d]["reversed"] <=
                             faults + (IF notice[o][d] = "none" THEN 0
                                       ELSE IF notice[o][d] = "posted" THEN 1 ELSE 2)
      BY DEF DeliveredOnce
    <2>1. RowFits(o, d) /\ DeliveryTypeOK
      BY DEF DeliveryInv
    <2>2. /\ posted[o][d]["posted"] \in Nat /\ posted[o][d]["reversed"] \in Nat /\ faults \in Nat
          /\ Untold(o, d) \in Nat
      BY <2>1, FaultAssumption DEF DeliveryTypeOK, Embeds, Untold
    <2>3. QED
      BY <2>1, <2>2 DEF RowFits, Queued
  <1>2. QED
    BY <1>1, DeliverySpecInv, PTL

(***************************************************************************)
(* A worker announces the original movement only while no reversal has     *)
(* been announced: the replacement of a row waits for its delivery         *)
(* (queueOrderMovement's ON CONFLICT behind FOR UPDATE SKIP LOCKED).       *)
(***************************************************************************)
THEOREM ReversalCorrect == DeliverySpec => ReversalIsLast
  <1>1. DeliveryInv /\ IInv /\ [DeliveryNext]_wholeVars =>
          [\A o \in Orders, d \in Destinations :
             posted'[o][d]["posted"] > posted[o][d]["posted"] =>
               posted[o][d]["reversed"] = 0]_wholeVars
    <2> SUFFICES ASSUME DeliveryInv, IInv, DeliveryNext,
                        NEW o \in Orders, NEW d \in Destinations,
                        posted'[o][d]["posted"] > posted[o][d]["posted"]
                 PROVE  posted[o][d]["reversed"] = 0
      OBVIOUS
    <2>1. DeliveryTypeOK /\ TypeOK
      BY DEF DeliveryInv, IInv
    <2>2. posted[o][d]["posted"] \in Nat
      BY <2>1 DEF DeliveryTypeOK, Embeds
    <2>3. posted' # posted
      BY <2>2
    <2>4. PICK w \in Workers : claim[w] # NoClaim /\ ~claim[w].sent /\ Accept(w)
      BY <2>3
      DEF DeliveryNext, deliveryVars, SettleAndQueue, Claim, SendAccepted, SendRefused, AnswerLost,
          RecordDelivery, WorkerCrash, AttemptDue
    <2>5. PICK q \in Orders, b \in Destinations, e \in Embeds :
            claim[w].order = q /\ claim[w].dest = b /\ claim[w].embed = e
      BY <2>1, <2>4, ClaimedRow
    <2>6. q = o /\ b = d /\ e = "posted"
      <3>1. /\ \A f \in Embeds \ {e} : posted'[q][b][f] = posted[q][b][f]
            /\ \A r \in Orders, c \in Destinations :
                 <<r, c>> # <<q, b>> => posted'[r][c] = posted[r][c]
        BY <2>1, <2>4, <2>5, AcceptPosts
      <3>2. QED
        BY <2>2, <3>1 DEF Embeds
    <2>7. notice[o][d] = "posted"
      BY <2>1, <2>4, <2>5, <2>6, ClaimedRow
    <2>8. QED
      BY <2>7 DEF DeliveryInv, RowFits
  <1>2. QED
    BY <1>1, DeliverySpecInv, PTL DEF DeliverySpec, ReversalIsLast

(***************************************************************************)
(* Workers, retries and crashes are steps of OrderSettlement's             *)
(* DeliverNotification or none: all that is proved of the order book holds *)
(* while the outbox is being delivered.                                    *)
(***************************************************************************)
THEOREM DeliveryImplements == DeliverySpec => Spec
  <1>1. DeliveryInit => Init
    BY DEF DeliveryInit
  <1>2. DeliveryInv /\ IInv /\ [DeliveryNext]_wholeVars => [Next]_vars
    BY DeliveryStepImplements
  <1>3. QED
    BY <1>1, <1>2, DeliverySpecInv, PTL DEF DeliverySpec, Spec

-----------------------------------------------------------------------------
Modes == {"update", "keyshare"}
Balances == {MoneyRow} \cup {BalanceRow(i) : i \in Items}
Rows == Balances \cup {OrderRow(o) : o \in Orders} \cup {ItemRow(i) : i \in Items}
StatementSet == [row : Balances, mode : {"update"}, delta : Int, at : Nat]
                  \cup [row : {ItemRow(i) : i \in Items}, mode : Modes, delta : Int, at : Nat]
MoveSet == [row : Balances, delta : Int, after : Int]
TxSet == [pc : {"idle", "begun", "working"}, order : Orders \cup {Nobody},
          target : Statuses, todo : SUBSET StatementSet, moved : SUBSET MoveSet]

TxTypes ==
  /\ tx \in [Procs -> TxSet]
  /\ locks \subseteq [row : Rows, by : Procs, mode : Modes]

\* Only working transactions hold locks, and two of them share none but KEY SHARE.
LockTable ==
  /\ \A l \in locks : tx[l.by].pc = "working"
  /\ \A l, k \in locks :
       l.row = k.row /\ l.by # k.by => l.mode = "keyshare" /\ k.mode = "keyshare"

Holds(p, row) == [row |-> row, by |-> p, mode |-> "update"] \in locks
Working(p) == p \in Admins /\ tx[p].pc = "working"

\* What each stage of a transaction has in hand.
Stages(p) ==
  /\ tx[p].pc = "idle" => tx[p] = Idle
  /\ tx[p].pc = "begun" => p \in Admins /\ tx[p].todo = {} /\ tx[p].moved = {}
  /\ p \in Admins /\ tx[p].pc # "idle" => tx[p].order \in Orders
  /\ p \in Writers => \A s \in tx[p].todo : s.row # MoneyRow
  /\ p \in Writers => \A m \in tx[p].moved : m.row # MoneyRow

\* A balance is written at most once, under a lock that is kept.
WritesOnce(p) ==
  /\ \A s, t \in tx[p].todo : s.row \in Balances /\ s.row = t.row => s = t
  /\ \A s \in tx[p].todo, m \in tx[p].moved : s.row # m.row
  /\ \A m, n \in tx[p].moved : m.row = n.row => m = n
  /\ \A m \in tx[p].moved : Holds(p, m.row)

\* What was read and computed still fits the committed balances.
ReadsFit(p) ==
  \A m \in tx[p].moved :
    /\ m.after = Committed(m.row) + m.delta
    /\ m.after \in 0..Limit(m.row)

\* The place of a row in the lock order of a status update.
Place(row) ==
  CASE row = MoneyRow -> 0
    [] row[1] = "balance" -> 2 * ItemId[row[2]]
    [] OTHER -> 2 * ItemId[row[2]] + 1

\* A status update holds its order's row and the rows before its next statement,
\* and has written what its plan asks for, apart from what it has still to do.
PlanKept(p) ==
  LET o == tx[p].order
      target == tx[p].target
  IN  /\ Accepts(o, target)
      /\ Holds(p, OrderRow(o))
      /\ tx[p].todo \subseteq Statements(o, target)
      /\ \A s \in Statements(o, target) : s.row \in Balances =>
           s \in tx[p].todo \/ \E m \in tx[p].moved : m.row = s.row /\ m.delta = s.delta
      /\ \A m \in tx[p].moved : \E s \in Statements(o, target) :
           s.row = m.row /\ s.delta = m.delta
      /\ \A l \in locks : l.by = p =>
           \/ l.row = OrderRow(o)
           \/ l.row \notin {OrderRow(q) : q \in Orders} /\ \A s \in tx[p].todo : Place(l.row) < s.at

Proc(p) ==
  /\ Stages(p)
  /\ WritesOnce(p)
  /\ ReadsFit(p)
  /\ Working(p) => PlanKept(p)

TxInv == TxTypes /\ LockTable /\ \A p \in Procs : Proc(p)

-----------------------------------------------------------------------------
\* The rows and the statements of a settlement.

\* The four kinds of row are told apart by their first component.
LEMMA RowKinds ==
  /\ \A i, j \in Items : BalanceRow(i) = BalanceRow(j) => i = j
  /\ \A i, j \in Items : ItemRow(i) = ItemRow(j) => i = j
  /\ \A o, q \in Orders : OrderRow(o) = OrderRow(q) => o = q
  /\ \A i \in Items : MoneyRow # BalanceRow(i) /\ MoneyRow # ItemRow(i)
  /\ \A o \in Orders : MoneyRow # OrderRow(o)
  /\ \A i, j \in Items : BalanceRow(i) # ItemRow(j)
  /\ \A i \in Items, o \in Orders : BalanceRow(i) # OrderRow(o) /\ ItemRow(i) # OrderRow(o)
  /\ IsBalance(MoneyRow)
  /\ \A i \in Items : IsBalance(BalanceRow(i)) /\ ~IsBalance(ItemRow(i))
  /\ \A o \in Orders : ~IsBalance(OrderRow(o))
  BY DEF MoneyRow, BalanceRow, ItemRow, OrderRow, IsBalance

\* What is committed in a balance row and the limit of its column.
LEMMA BalanceRows ==
  /\ Committed(MoneyRow) = office /\ Limit(MoneyRow) = MaxMoney /\ Place(MoneyRow) = 0
  /\ \A i \in Items :
       /\ Committed(BalanceRow(i)) = stock[i] /\ Limit(BalanceRow(i)) = MaxStock
       /\ Place(BalanceRow(i)) = 2 * ItemId[i] /\ Place(ItemRow(i)) = 2 * ItemId[i] + 1
  BY DEF MoneyRow, BalanceRow, ItemRow, Committed, Limit, Place

LEMMA ItemPlaces ==
  /\ Cardinality(Items) \in Nat
  /\ \A i \in Items : ItemId[i] \in 1..Cardinality(Items) /\ KeyRank[i] \in 1..Cardinality(Items)
  /\ \A i, j \in Items : ItemId[i] = ItemId[j] => i = j
  /\ \A i, j \in Items : KeyRank[i] = KeyRank[j] => i = j
  BY PlacesAssumption, FS_CardinalityType DEF IsInjective

\* What an accepted status update posts: one delta per balance.
MoneyPlan(o, target) ==
  CASE OrderStatusMovement(o, target) = "office" -> MoneyDelta(o)
    [] OrderStatusMovement(o, target) = "cancel" -> -moneyNet[o]
    [] OTHER -> 0
StockPlan(o, target) ==
  CASE OrderStatusMovement(o, target) = "boss" -> StockDelta(o)
    [] OrderStatusMovement(o, target) = "cancel" -> [i \in Items |-> -stockNet[o][i]]
    [] OTHER -> NoUnits

LEMMA Movements ==
  ASSUME NEW o, NEW target
  PROVE  OrderStatusMovement(o, target) \in {"none", "office", "boss", "cancel", "refused"}
  BY DirectionAssumption DEF OrderStatusMovement

LEMMA PlanTypes ==
  ASSUME TypeOK, NEW o \in Orders, NEW target
  PROVE  /\ MoneyPlan(o, target) \in Int
         /\ StockPlan(o, target) \in [Items -> Int]
  BY DeltaTypes, Movements DEF MoneyPlan, StockPlan, TypeOK, NoUnits

\* The statements of an accepted update, row by row.
LEMMA StatementsOf ==
  ASSUME TypeOK, NEW o \in Orders, NEW target, Accepts(o, target), NEW s
  PROVE  s \in Statements(o, target) <=>
           \/ MoneyPlan(o, target) # 0
              /\ s = Take(MoneyRow, "update", MoneyPlan(o, target), 0)
           \/ \E i \in Items :
                /\ StockPlan(o, target)[i] # 0
                /\ \/ s = Take(BalanceRow(i), "update", StockPlan(o, target)[i], 2 * ItemId[i])
                   \/ s = Take(ItemRow(i), "keyshare", 0, 2 * ItemId[i] + 1)
  <1>1. OrderStatusMovement(o, target) \in {"none", "office", "boss", "cancel"}
    BY Movements DEF Accepts
  <1>2. ASSUME NEW delta
        PROVE  s \in SettleLines(ItemId, delta) <=>
                 \E i \in Items :
                   /\ delta[i] # 0
                   /\ \/ s = Take(BalanceRow(i), "update", delta[i], 2 * ItemId[i])
                      \/ s = Take(ItemRow(i), "keyshare", 0, 2 * ItemId[i] + 1)
    BY DEF SettleLines
  <1>3. ASSUME NEW delta
        PROVE  s \in MoneyLine(delta) <=> delta # 0 /\ s = Take(MoneyRow, "update", delta, 0)
    BY DEF MoneyLine
  <1>4. CASE OrderStatusMovement(o, target) = "none"
    BY <1>4 DEF Statements, MoneyPlan, StockPlan, NoUnits
  <1>5. CASE OrderStatusMovement(o, target) = "office"
    BY <1>3, <1>5 DEF Statements, MoneyPlan, StockPlan, NoUnits
  <1>6. CASE OrderStatusMovement(o, target) = "boss"
    BY <1>2, <1>6 DEF Statements, MoneyPlan, StockPlan, NoUnits
  <1>7. CASE OrderStatusMovement(o, target) = "cancel"
    <2>1. /\ Statements(o, target) = MoneyLine(-moneyNet[o]) \cup
                                     SettleLines(ItemId, [i \in Items |-> -stockNet[o][i]])
          /\ MoneyPlan(o, target) = -moneyNet[o]
          /\ StockPlan(o, target) = [i \in Items |-> -stockNet[o][i]]
      BY <1>7 DEF Statements, MoneyPlan, StockPlan
    <2>2. QED
      BY <1>2, <1>3, <2>1
  <1>8. QED
    BY <1>1, <1>4, <1>5, <1>6, <1>7

\* They are well formed, and their places are those of the lock order.
LEMMA StatementsWellFormed ==
  ASSUME TypeOK, NEW o \in Orders, NEW target, Accepts(o, target)
  PROVE  /\ Statements(o, target) \subseteq StatementSet
         /\ \A s \in Statements(o, target) :
              /\ s.row \in Balances \cup {ItemRow(i) : i \in Items}
              /\ s.at = Place(s.row) /\ s.at \in Nat /\ s.at <= 2 * Cardinality(Items) + 1
         /\ \A s, t \in Statements(o, target) : s.row = t.row \/ s.at = t.at => s = t
  <1> DEFINE mp == MoneyPlan(o, target)
             sp == StockPlan(o, target)
             Money(s) == mp # 0 /\ s = Take(MoneyRow, "update", mp, 0)
             Line(s, i) == sp[i] # 0 /\ s = Take(BalanceRow(i), "update", sp[i], 2 * ItemId[i])
             Key(s, i) == sp[i] # 0 /\ s = Take(ItemRow(i), "keyshare", 0, 2 * ItemId[i] + 1)
  <1>1. mp \in Int /\ sp \in [Items -> Int]
    BY PlanTypes
  <1>2. ASSUME NEW s \in Statements(o, target)
        PROVE  Money(s) \/ \E i \in Items : Line(s, i) \/ Key(s, i)
    BY StatementsOf
  <1> HIDE DEF mp, sp
  <1>3. ASSUME NEW s \in Statements(o, target)
        PROVE  /\ s \in StatementSet
               /\ s.row \in Balances \cup {ItemRow(i) : i \in Items}
               /\ s.at = Place(s.row) /\ s.at \in Nat /\ s.at <= 2 * Cardinality(Items) + 1
    <2>1. CASE Money(s)
      <3>1. mp \in Int /\ Place(MoneyRow) = 0 /\ Cardinality(Items) \in Nat
        BY <1>1, ItemPlaces, BalanceRows
      <3>2. s.row = MoneyRow /\ s.mode = "update" /\ s.delta = mp /\ s.at = 0
        BY <2>1 DEF Take
      <3>3. s \in StatementSet
        BY <2>1, <3>1 DEF StatementSet, Take, Balances
      <3>4. QED
        BY <3>1, <3>2, <3>3 DEF Balances
    <2>2. ASSUME NEW i \in Items, Line(s, i)
          PROVE  /\ s \in StatementSet
                 /\ s.row \in Balances \cup {ItemRow(j) : j \in Items}
                 /\ s.at = Place(s.row) /\ s.at \in Nat /\ s.at <= 2 * Cardinality(Items) + 1
      BY <1>1, <2>2, ItemPlaces, BalanceRows DEF StatementSet, Take, Balances
    <2>3. ASSUME NEW i \in Items, Key(s, i)
          PROVE  /\ s \in StatementSet
                 /\ s.row \in Balances \cup {ItemRow(j) : j \in Items}
                 /\ s.at = Place(s.row) /\ s.at \in Nat /\ s.at <= 2 * Cardinality(Items) + 1
      BY <1>1, <2>3, ItemPlaces, BalanceRows DEF StatementSet, Take, Modes
    <2>4. QED
      BY <1>2, <2>1, <2>2, <2>3
  <1>4. ASSUME NEW s \in Statements(o, target), NEW t \in Statements(o, target),
               s.row = t.row \/ s.at = t.at
        PROVE  s = t
    <2>1. CASE Money(s) \/ Money(t)
      BY <1>2, <1>4, <2>1, ItemPlaces, RowKinds DEF Take
    <2>2. ASSUME NEW i \in Items, NEW j \in Items, Line(s, i) \/ Key(s, i),
                 Line(t, j) \/ Key(t, j)
          PROVE  s = t
      <3>1. ItemId[i] \in Nat /\ ItemId[j] \in Nat /\ (ItemId[i] = ItemId[j] => i = j)
        BY ItemPlaces
      <3>2. CASE Line(s, i) /\ Line(t, j)
        BY <1>4, <3>1, <3>2, RowKinds DEF Take
      <3>3. CASE Line(s, i) /\ Key(t, j)
        BY <1>4, <3>1, <3>3, RowKinds DEF Take
      <3>4. CASE Key(s, i) /\ Line(t, j)
        BY <1>4, <3>1, <3>4, RowKinds DEF Take
      <3>5. CASE Key(s, i) /\ Key(t, j)
        BY <1>4, <3>1, <3>5, RowKinds DEF Take
      <3>6. QED
        BY <2>2, <3>2, <3>3, <3>4, <3>5
    <2>3. QED
      BY <1>2, <2>1, <2>2
  <1>5. QED
    BY <1>3, <1>4

-----------------------------------------------------------------------------
\* What a step leaves alone for a process that does not take it.
Framed(p) ==
  /\ Working(p) => SameOrder(tx[p].order)
  /\ \A m \in tx[p].moved : Committed(m.row)' = Committed(m.row)

LEMMA SameOrderPlans ==
  ASSUME NEW o \in Orders, NEW target, SameOrder(o)
  PROVE  /\ Accepts(o, target)' <=> Accepts(o, target)
         /\ Statements(o, target)' = Statements(o, target)
  <1>1. OrderStatusMovement(o, target)' = OrderStatusMovement(o, target)
    BY DEF SameOrder, OrderStatusMovement, Stage
  <1>2. Accepts(o, target)' <=> Accepts(o, target)
    BY <1>1 DEF SameOrder, Accepts, MayUpdate, OrderStatuses, Stage, PreviousStagePosted,
           MoneyPosted, StockPosted
  <1>3. Statements(o, target)' = Statements(o, target)
    <2>1. [i \in Items |-> -stockNet'[o][i]] = [i \in Items |-> -stockNet[o][i]]
      BY DEF SameOrder
    <2>2. MoneyLine(-moneyNet[o])' = MoneyLine(-moneyNet[o])
      BY DEF SameOrder, MoneyLine, Take, MoneyRow
    <2>3. SettleLines(ItemId, [i \in Items |-> -stockNet[o][i]])'
            = SettleLines(ItemId, [i \in Items |-> -stockNet[o][i]])
      BY <2>1 DEF SettleLines, Take, BalanceRow, ItemRow
    <2>4. /\ MoneyLine(MoneyDelta(o))' = MoneyLine(MoneyDelta(o))
          /\ SettleLines(ItemId, StockDelta(o))' = SettleLines(ItemId, StockDelta(o))
      BY DEF MoneyLine, MoneyDelta, SettleLines, StockDelta, Take, BalanceRow, ItemRow, MoneyRow
    <2>5. QED
      BY <1>1, <2>2, <2>3, <2>4 DEF Statements
  <1>4. QED
    BY <1>2, <1>3

\* A process keeps its part of the invariant through the steps of the others.
LEMMA ProcKeeps ==
  ASSUME TxTypes, NEW p \in Procs, Proc(p), Framed(p), tx'[p] = tx[p],
         \A l : l.by = p => (l \in locks' <=> l \in locks)
  PROVE  Proc(p)'
  <1>1. \A row : Holds(p, row)' <=> Holds(p, row)
    BY DEF Holds
  <1>2. Stages(p)'
    BY DEF Proc, Stages
  <1>3. WritesOnce(p)'
    BY <1>1 DEF Proc, WritesOnce, Balances, BalanceRow, MoneyRow
  <1>4. ReadsFit(p)'
    BY DEF Proc, ReadsFit, Framed, Limit, MoneyRow
  <1>5. ASSUME Working(p)'
        PROVE  PlanKept(p)'
    <2> DEFINE o == tx[p].order
               target == tx[p].target
    <2>1. PlanKept(p) /\ SameOrder(o) /\ o \in Orders
      BY <1>5 DEF Proc, Stages, Framed, Working
    <2>2. /\ Accepts(o, target)' <=> Accepts(o, target)
          /\ Statements(o, target)' = Statements(o, target)
      BY <2>1, SameOrderPlans
    <2>3. QED
      BY <1>1, <2>1, <2>2 DEF PlanKept, Place, MoneyRow, OrderRow, Balances, BalanceRow
  <1>6. QED
    BY <1>2, <1>3, <1>4, <1>5 DEF Proc

LEMMA QuietFrames ==
  ASSUME UNCHANGED vars
  PROVE  /\ \A o \in Orders : SameOrder(o)
         /\ \A row : Committed(row)' = Committed(row)
         /\ TxTypes => \A p \in Procs : Proc(p) => Framed(p)
  BY DEF vars, SameOrder, Committed, Framed, Proc, Stages, Working, MoneyRow

\* The invariant after a step of process p: its own part and the locks are left
\* to show.
LEMMA StepOf ==
  ASSUME TxInv, NEW p \in Procs,
         \A q \in Procs \ {p} :
           /\ tx'[q] = tx[q] /\ Framed(q)
           /\ \A l : l.by = q => (l \in locks' <=> l \in locks),
         TxTypes', LockTable', Proc(p)'
  PROVE  TxInv'
  <1>1. \A q \in Procs \ {p} : Proc(q)'
    BY ProcKeeps DEF TxInv
  <1>2. QED
    BY <1>1 DEF TxInv, Procs

LEMMA IdleProc ==
  ASSUME NEW p \in Procs, TxTypes', tx'[p] = Idle
  PROVE  Proc(p)'
  BY DEF Idle, Proc, Stages, WritesOnce, ReadsFit, Working

\* A transaction that commits, is refused or is aborted lets its rows go.
LEMMA ReleaseStep ==
  ASSUME TxInv, NEW p \in Procs, Release(p), \A q \in Procs \ {p} : Framed(q)
  PROVE  TxInv'
  <1>1. Idle \in TxSet
    BY DEF Idle, TxSet, Statuses
  <1>2. TxTypes'
    BY <1>1 DEF TxInv, TxTypes, Release, Rows, Balances, MoneyRow, BalanceRow, OrderRow, ItemRow,
                Procs, Modes, TxSet, StatementSet, MoveSet, Statuses
  <1>3. tx'[p] = Idle /\ \A q \in Procs \ {p} : tx'[q] = tx[q]
    BY DEF TxInv, TxTypes, Release
  <1>4. LockTable'
    BY <1>3 DEF TxInv, TxTypes, LockTable, Release
  <1>5. QED
    BY <1>2, <1>3, <1>4, IdleProc, StepOf DEF Release

LEMMA QuietRelease ==
  ASSUME TxInv, NEW p \in Procs, Release(p), UNCHANGED vars
  PROVE  TxInv'
  BY ReleaseStep, QuietFrames DEF TxInv

-----------------------------------------------------------------------------
\* The steps that leave the order book alone.
LEMMA BeginUpdateStep ==
  ASSUME TxInv, NEW a \in Admins, NEW o \in Orders, NEW target \in Statuses,
         BeginUpdate(a, o, target)
  PROVE  TxInv'
  <1> DEFINE begun == [Idle EXCEPT !.pc = "begun", !.order = o, !.target = target]
  <1>1. a \in Procs /\ tx[a] = Idle
    BY DEF BeginUpdate, Procs
  <1>2. /\ begun.pc = "begun" /\ begun.order = o /\ begun.todo = {} /\ begun.moved = {}
        /\ begun \in TxSet
    BY DEF Idle, TxSet
  <1> HIDE DEF begun
  <1>3. tx' = [tx EXCEPT ![a] = begun] /\ locks' = locks /\ UNCHANGED vars
    BY DEF BeginUpdate, begun
  <1>4. tx'[a] = begun /\ \A q \in Procs \ {a} : tx'[q] = tx[q]
    BY <1>1, <1>3 DEF TxInv, TxTypes
  <1>5. TxTypes'
    BY <1>2, <1>3 DEF TxInv, TxTypes, Rows, Balances, MoneyRow, BalanceRow, OrderRow, ItemRow,
                      Procs, Modes, TxSet, StatementSet, MoveSet, Statuses
  <1>6. \A l \in locks : l.by # a
    BY <1>1 DEF TxInv, TxTypes, LockTable, Idle
  <1>7. LockTable'
    BY <1>3, <1>4, <1>6 DEF TxInv, TxTypes, LockTable
  <1>8. Proc(a)'
    BY <1>1, <1>2, <1>4, ProcsAssumption DEF Proc, Stages, WritesOnce, ReadsFit, Working
  <1>9. QED
    BY <1>1, <1>3, <1>4, <1>5, <1>7, <1>8, QuietFrames, StepOf DEF TxInv

\* The lines of a stock writer are well formed and take each balance once.
LEMMA WriterLinesWellFormed ==
  ASSUME NEW boss \in SUBSET Items, NEW public \in SUBSET Items,
         NEW delta \in [Items -> {-1, 1}]
  PROVE  /\ WriterLines(boss, public, delta) \subseteq StatementSet
         /\ \A s \in WriterLines(boss, public, delta) : s.row # MoneyRow
         /\ \A s, t \in WriterLines(boss, public, delta) :
              s.row \in Balances /\ s.row = t.row => s = t
  <1> DEFINE Line(s, i) == s = Take(BalanceRow(i), "update", delta[i], 2 * KeyRank[i])
             Key(s, i) == s = Take(ItemRow(i), "update", 0, 2 * KeyRank[i] + 1)
             Far(s, i) ==
               s = Take(ItemRow(i), "update", 0, 2 * (Cardinality(Items) + KeyRank[i]) + 1)
  <1>1. ASSUME NEW s \in WriterLines(boss, public, delta)
        PROVE  \E i \in Items : Line(s, i) \/ Key(s, i) \/ Far(s, i)
    <2>1. CASE \E i \in boss : Line(s, i) \/ Key(s, i)
      BY <2>1
    <2>2. CASE \E i \in public : Far(s, i)
      BY <2>2
    <2>3. QED
      BY <2>1, <2>2 DEF WriterLines
  <1>2. ASSUME NEW s, NEW i \in Items, Line(s, i) \/ Key(s, i) \/ Far(s, i)
        PROVE  s \in StatementSet /\ s.row # MoneyRow /\ (s.row \in Balances => Line(s, i))
    <2>1. Cardinality(Items) \in Nat /\ KeyRank[i] \in Nat /\ delta[i] \in Int
      BY ItemPlaces
    <2>2. CASE Line(s, i)
      BY <2>1, <2>2, RowKinds DEF Take, StatementSet, Balances
    <2>3. CASE Key(s, i) \/ Far(s, i)
      BY <2>1, <2>3, RowKinds DEF Take, StatementSet, Balances, Modes
    <2>4. QED
      BY <1>2, <2>2, <2>3
  <1>3. ASSUME NEW s, NEW t, NEW i \in Items, NEW j \in Items, Line(s, i), Line(t, j),
               s.row = t.row
        PROVE  s = t
    BY <1>3, RowKinds DEF Take
  <1> HIDE DEF Line, Key, Far
  <1>4. QED
    BY <1>1, <1>2, <1>3

LEMMA BeginStockStep ==
  ASSUME TxInv, NEW w \in Writers, BeginStock(w)
  PROVE  TxInv'
  <1>1. PICK boss \in SUBSET Items, public \in SUBSET Items, delta \in [Items -> {-1, 1}] :
          /\ tx[w] = Idle
          /\ tx' = [tx EXCEPT ![w] = [@ EXCEPT !.pc = "working",
                                               !.todo = WriterLines(boss, public, delta)]]
          /\ UNCHANGED <<vars, locks>>
    BY DEF BeginStock
  <1> DEFINE lines == WriterLines(boss, public, delta)
             begun == [tx[w] EXCEPT !.pc = "working", !.todo = lines]
  <1>2. /\ lines \subseteq StatementSet
        /\ \A s \in lines : s.row # MoneyRow
        /\ \A s, t \in lines : s.row \in Balances /\ s.row = t.row => s = t
    BY WriterLinesWellFormed
  <1>3. w \in Procs /\ w \notin Admins
    BY ProcsAssumption DEF Procs
  <1> HIDE DEF lines
  <1>4. tx' = [tx EXCEPT ![w] = begun]
    BY <1>1 DEF lines
  <1>5. begun \in TxSet /\ begun.pc = "working" /\ begun.todo = lines /\ begun.moved = {}
    <2>1. Idle \in TxSet /\ Idle.moved = {}
      BY DEF TxSet, Idle, Statuses
    <2>2. tx[w] \in TxSet /\ tx[w].moved = {}
      BY <1>1, <2>1
    <2>3. QED
      BY <1>2, <2>2 DEF TxSet
  <1> HIDE DEF begun
  <1>6. tx'[w] = begun /\ \A q \in Procs \ {w} : tx'[q] = tx[q]
    BY <1>3, <1>4 DEF TxInv, TxTypes
  <1>7. TxTypes'
    BY <1>1, <1>4, <1>5
    DEF TxInv, TxTypes, Rows, Balances, MoneyRow, BalanceRow, OrderRow, ItemRow, Procs, Modes,
        TxSet, StatementSet, MoveSet, Statuses
  <1>8. LockTable'
    BY <1>1, <1>5, <1>6 DEF TxInv, TxTypes, LockTable
  <1>9. Proc(w)'
    BY <1>2, <1>3, <1>5, <1>6
    DEF Proc, Stages, WritesOnce, ReadsFit, Working, Balances, MoneyRow, BalanceRow
  <1>10. QED
    BY <1>1, <1>3, <1>6, <1>7, <1>8, <1>9, QuietFrames, StepOf DEF TxInv

\* The order row is locked, and what follows is planned from what it says.
LEMMA LockOrderStep ==
  ASSUME TxInv, TypeOK, NEW a \in Procs, LockOrder(a)
  PROVE  TxInv'
  <1> DEFINE o == tx[a].order
             target == tx[a].target
             lock == [row |-> OrderRow(o), by |-> a, mode |-> "update"]
             plan == Statements(o, target)
             next == [tx[a] EXCEPT !.pc = "working", !.todo = plan]
  <1>1. /\ tx[a].pc = "begun" /\ a \in Admins /\ tx[a].todo = {} /\ tx[a].moved = {}
        /\ o \in Orders /\ target \in Statuses /\ tx[a] \in TxSet
    BY DEF LockOrder, TxInv, TxTypes, Proc, Stages, TxSet
  <1>2. CASE ~Accepts(o, target)
    BY <1>2, QuietRelease DEF LockOrder
  <1>3. CASE Accepts(o, target)
    <2>1. /\ tx' = [tx EXCEPT ![a] = [@ EXCEPT !.pc = "working", !.todo = plan]]
          /\ locks' = locks \cup {lock} /\ UNCHANGED vars
      BY <1>3 DEF LockOrder
    <2>2. tx' = [tx EXCEPT ![a] = next]
      BY <2>1
    <2>3. plan \subseteq StatementSet
      BY <1>1, <1>3, StatementsWellFormed
    <2>4. /\ next \in TxSet /\ next.pc = "working" /\ next.todo = plan
          /\ next.order = o /\ next.target = target /\ next.moved = {}
      BY <1>1, <2>3 DEF TxSet
    <2> HIDE DEF next
    <2>5. tx'[a] = next /\ \A q \in Procs \ {a} : tx'[q] = tx[q]
      BY <2>2 DEF TxInv, TxTypes
    <2>6. lock \in [row : Rows, by : Procs, mode : Modes]
      BY <1>1 DEF Rows, Modes
    <2>7. TxTypes'
      BY <2>1, <2>2, <2>4, <2>6
      DEF TxInv, TxTypes, Rows, Balances, MoneyRow, BalanceRow, OrderRow, ItemRow, Procs, Modes,
          TxSet, StatementSet, MoveSet, Statuses
    <2>8. \A l \in locks : l.by # a
      BY <1>1 DEF TxInv, TxTypes, LockTable
    <2>9. \A l \in locks : l.row # OrderRow(o)
      <3>1. WaitsFor(a) = {}
        BY DEF LockOrder
      <3>2. Blockers(a, Take(OrderRow(o), "update", 0, 0)) = {}
        BY <1>1, <3>1 DEF WaitsFor, Pending
      <3>3. QED
        BY <2>8, <3>2 DEF Blockers, Take
    <2>10. LockTable'
      BY <2>1, <2>4, <2>5, <2>8, <2>9 DEF TxInv, TxTypes, LockTable
    <2>11. Proc(a)'
      <3>1. /\ tx'[a].pc = "working" /\ tx'[a].order = o /\ tx'[a].target = target
            /\ tx'[a].todo = plan /\ tx'[a].moved = {}
        BY <2>4, <2>5
      <3>2. Stages(a)'
        BY <1>1, <3>1, ProcsAssumption DEF Stages
      <3>3. WritesOnce(a)'
        BY <1>1, <1>3, <3>1, StatementsWellFormed DEF WritesOnce
      <3>4. ReadsFit(a)'
        BY <3>1 DEF ReadsFit
      <3>5. PlanKept(a)'
        <4>0. SameOrder(o)
          BY <1>1, <2>1, QuietFrames
        <4>1. (Accepts(o, target) <=> Accepts(o, target)') /\ Statements(o, target)' = plan
          BY <1>1, <1>3, <3>1, <4>0, SameOrderPlans
        <4>2. lock \in locks'
          BY <2>1
        <4>3. \A l \in locks' : l.by = a => l = lock
          BY <2>1, <2>8
        <4>4. QED
          BY <1>3, <3>1, <4>1, <4>2, <4>3 DEF PlanKept, Holds, OrderRow
      <3>6. QED
        BY <3>2, <3>3, <3>4, <3>5 DEF Proc
    <2>12. \A q \in Procs \ {a} : \A l : l.by = q => (l \in locks' <=> l \in locks)
      BY <2>1
    <2>13. QED
      BY <2>1, <2>5, <2>7, <2>10, <2>11, <2>12, QuietFrames, StepOf DEF TxInv
  <1>4. QED
    BY <1>2, <1>3

\* A statement that gets its row, and finds room for its delta when it is a balance.
LEMMA RunStep ==
  ASSUME TxInv, TypeOK, NEW p \in Procs, NEW s \in Earliest(tx[p].todo),
         tx[p].pc = "working", WaitsFor(p) = {}, Fits(s), tx' = Ran(p, s),
         locks' = locks \cup {[row |-> s.row, by |-> p, mode |-> s.mode]}, UNCHANGED vars
  PROVE  TxInv'
  <1> DEFINE lock == [row |-> s.row, by |-> p, mode |-> s.mode]
             move == [row |-> s.row, delta |-> s.delta, after |-> Committed(s.row) + s.delta]
             written == IF IsBalance(s.row) THEN tx[p].moved \cup {move} ELSE tx[p].moved
             next == [tx[p] EXCEPT !.todo = @ \ {s},
                                   !.moved = IF IsBalance(s.row) THEN @ \cup {move} ELSE @]
  <1>1. /\ tx[p] \in TxSet /\ s \in tx[p].todo /\ \A t \in tx[p].todo : s.at <= t.at
        /\ s \in StatementSet /\ s.at \in Nat /\ s.delta \in Int
    BY DEF TxInv, TxTypes, TxSet, Earliest, StatementSet
  <1>2. /\ s.row \in Balances \cup {ItemRow(i) : i \in Items} /\ s.mode \in Modes
        /\ IsBalance(s.row) <=> s.row \in Balances
        /\ s.row \in Balances => s.mode = "update"
        /\ s.row \notin {OrderRow(o) : o \in Orders}
    BY <1>1, RowKinds DEF StatementSet, Balances, Modes
  <1>3. s.row \in Balances => Committed(s.row) \in Int /\ Limit(s.row) \in Nat
    BY BalanceRows, LimitAssumption DEF TypeOK, Balances
  <1>4. s.row \in Balances => move \in MoveSet /\ move.after \in 0..Limit(s.row)
    BY <1>1, <1>2, <1>3 DEF MoveSet, Fits, Covered
  <1>5. /\ next \in TxSet /\ next.pc = "working" /\ next.order = tx[p].order
        /\ next.target = tx[p].target /\ next.todo = tx[p].todo \ {s}
        /\ s.row \in Balances => next.moved = tx[p].moved \cup {move}
        /\ s.row \notin Balances => next.moved = tx[p].moved
    <2>1. written \subseteq MoveSet
      BY <1>1, <1>2, <1>4 DEF TxSet
    <2>2. /\ s.row \in Balances => written = tx[p].moved \cup {move}
          /\ s.row \notin Balances => written = tx[p].moved
      BY <1>2
    <2> HIDE DEF written
    <2>3. next = [tx[p] EXCEPT !.todo = @ \ {s}, !.moved = written]
      BY DEF written
    <2>4. /\ next \in TxSet /\ next.pc = "working" /\ next.order = tx[p].order
          /\ next.target = tx[p].target /\ next.todo = tx[p].todo \ {s}
          /\ next.moved = written
      BY <1>1, <2>1, <2>3 DEF TxSet
    <2>5. QED
      BY <2>2, <2>4
  <1>6. tx' = [tx EXCEPT ![p] = next]
    BY DEF Ran
  <1> HIDE DEF next
  <1>7. tx'[p] = next /\ \A q \in Procs \ {p} : tx'[q] = tx[q]
    BY <1>6 DEF TxInv, TxTypes
  <1>8. TxTypes'
    <2>1. lock \in [row : Rows, by : Procs, mode : Modes]
      BY <1>2 DEF Rows
    <2>2. QED
      BY <1>5, <1>6, <2>1
      DEF TxInv, TxTypes, Rows, Balances, MoneyRow, BalanceRow, OrderRow, ItemRow, Procs, Modes,
          TxSet, StatementSet, MoveSet, Statuses
  <1>9. \A l \in locks : l.row = s.row /\ l.by # p => l.mode = "keyshare" /\ s.mode = "keyshare"
    <2>1. s \in Pending(p)
      BY DEF Pending
    <2>2. Blockers(p, s) = {}
      BY <2>1 DEF WaitsFor
    <2>3. QED
      BY <2>2 DEF Blockers
  <1>10. LockTable'
    BY <1>5, <1>7, <1>9 DEF TxInv, TxTypes, LockTable
  <1>11. Stages(p)'
    BY <1>1, <1>2, <1>5, <1>7 DEF TxInv, Proc, Stages
  <1>12. WritesOnce(p)'
    <2>1. WritesOnce(p)
      BY DEF TxInv, Proc
    <2>2. \A row : Holds(p, row) => Holds(p, row)'
      BY DEF Holds
    <2>3. s.row \in Balances => Holds(p, s.row)'
      BY <1>2 DEF Holds
    <2>4. CASE s.row \in Balances
      BY <1>1, <1>5, <1>7, <2>1, <2>2, <2>3, <2>4
      DEF WritesOnce, Balances, MoneyRow, BalanceRow
    <2>5. CASE s.row \notin Balances
      BY <1>1, <1>5, <1>7, <2>1, <2>2, <2>5 DEF WritesOnce, Balances, MoneyRow, BalanceRow
    <2>6. QED
      BY <2>4, <2>5
  <1>13. ReadsFit(p)'
    <2>1. \A row : Committed(row)' = Committed(row)
      BY QuietFrames
    <2>2. ReadsFit(p)
      BY DEF TxInv, Proc
    <2>3. ASSUME NEW m \in next.moved
          PROVE  m.after = Committed(m.row) + m.delta /\ m.after \in 0..Limit(m.row)
      BY <1>4, <1>5, <2>2, <2>3 DEF ReadsFit
    <2>4. QED
      BY <1>7, <2>1, <2>3 DEF ReadsFit, Limit, MoneyRow
  <1>14. ASSUME Working(p)'
         PROVE  PlanKept(p)'
    <2>1. PICK o \in Orders, target \in Statuses :
            /\ o = tx[p].order /\ target = tx[p].target /\ p \in Admins /\ PlanKept(p)
      BY <1>1, <1>14 DEF TxInv, Proc, Stages, Working, TxSet
    <2>2. /\ Accepts(o, target)' <=> Accepts(o, target)
          /\ Statements(o, target)' = Statements(o, target)
      BY QuietFrames, SameOrderPlans
    <2>3. /\ s \in Statements(o, target) /\ s.at = Place(s.row)
          /\ \A t \in Statements(o, target) : t.at \in Nat /\ (t.at = s.at => t = s)
          /\ \A t \in Statements(o, target) : t.row = s.row => t = s
      BY <1>1, <2>1, StatementsWellFormed DEF PlanKept
    <2>4. tx'[p].order = o /\ tx'[p].target = target
      BY <1>5, <1>7, <2>1
    <2>5. Accepts(o, target)' /\ Holds(p, OrderRow(o))'
      BY <2>1, <2>2 DEF PlanKept, Holds, OrderRow
    <2>6. tx'[p].todo \subseteq Statements(o, target)'
      BY <1>5, <1>7, <2>1, <2>2 DEF PlanKept
    <2>7. \A t \in Statements(o, target)' : t.row \in Balances =>
            t \in tx'[p].todo \/ \E m \in tx'[p].moved : m.row = t.row /\ m.delta = t.delta
      <3> SUFFICES ASSUME NEW t \in Statements(o, target), t.row \in Balances
                   PROVE  \/ t \in next.todo
                          \/ \E m \in next.moved : m.row = t.row /\ m.delta = t.delta
        BY <1>7, <2>2
      <3>1. t \in tx[p].todo \/ \E m \in tx[p].moved : m.row = t.row /\ m.delta = t.delta
        BY <2>1 DEF PlanKept
      <3>2. tx[p].moved \subseteq next.moved
        BY <1>5
      <3>3. t = s => move \in next.moved /\ move.row = t.row /\ move.delta = t.delta
        BY <1>5
      <3>4. QED
        BY <1>5, <3>1, <3>2, <3>3
    <2>8. \A m \in tx'[p].moved : \E t \in Statements(o, target)' :
            t.row = m.row /\ t.delta = m.delta
      BY <1>5, <1>7, <2>1, <2>2, <2>3 DEF PlanKept
    <2>9. \A l \in locks' : l.by = p =>
            \/ l.row = OrderRow(o)
            \/ l.row \notin {OrderRow(q) : q \in Orders}
               /\ \A t \in tx'[p].todo : Place(l.row) < t.at
      <3>1. \A t \in tx'[p].todo : Place(s.row) < t.at
        BY <1>1, <1>5, <1>7, <2>1, <2>3 DEF PlanKept
      <3>2. QED
        BY <1>2, <1>5, <1>7, <2>1, <3>1 DEF PlanKept
    <2>10. QED
      BY <2>4, <2>5, <2>6, <2>7, <2>8, <2>9
      DEF PlanKept, Place, OrderRow, MoneyRow, Balances, BalanceRow
  <1>15. Proc(p)'
    BY <1>11, <1>12, <1>13, <1>14 DEF Proc
  <1>16. \A q \in Procs \ {p} : \A l : l.by = q => (l \in locks' <=> l \in locks)
    OBVIOUS
  <1>17. QED
    BY <1>7, <1>8, <1>10, <1>15, <1>16, QuietFrames, StepOf DEF TxInv

LEMMA ExecuteStep ==
  ASSUME TxInv, TypeOK, NEW p \in Procs, Execute(p)
  PROVE  TxInv'
  <1>1. PICK s \in Earliest(tx[p].todo) :
          \/ /\ Fits(s)
             /\ tx' = Ran(p, s)
             /\ locks' = locks \cup {[row |-> s.row, by |-> p, mode |-> s.mode]}
          \/ ~Fits(s) /\ Release(p)
    BY DEF Execute
  <1>2. QED
    BY <1>1, RunStep, QuietRelease DEF Execute

-----------------------------------------------------------------------------
\* What the writes of a transaction amount to when it commits.
LEMMA MoveOf ==
  ASSUME NEW S, NEW row, NEW m \in S, m.row = row, \A n \in S : n.row = row => n = m
  PROVE  (CHOOSE n \in S : n.row = row) = m
  OBVIOUS

LEMMA Effects ==
  ASSUME TxInv, TypeOK, NEW p \in Procs
  PROVE  /\ MoneyMoved(p) \in Int /\ OfficeAfter(p) \in 0..MaxMoney
         /\ OfficeAfter(p) = office + MoneyMoved(p)
         /\ StockMoved(p) \in [Items -> Int] /\ StockAfter(p) \in [Items -> 0..MaxStock]
         /\ \A i \in Items : StockAfter(p)[i] = stock[i] + StockMoved(p)[i]
         /\ \A m \in tx[p].moved : m.row = MoneyRow => MoneyMoved(p) = m.delta
         /\ \A i \in Items : \A m \in tx[p].moved :
              m.row = BalanceRow(i) => StockMoved(p)[i] = m.delta
         /\ (\A m \in tx[p].moved : m.row # MoneyRow) => MoneyMoved(p) = 0
         /\ \A i \in Items : (\A m \in tx[p].moved : m.row # BalanceRow(i))
                               => StockMoved(p)[i] = 0
  <1>1. /\ tx[p].moved \subseteq MoveSet
        /\ \A m, n \in tx[p].moved : m.row = n.row => m = n
        /\ \A m \in tx[p].moved : /\ m.after = Committed(m.row) + m.delta
                                  /\ m.after \in 0..Limit(m.row)
                                  /\ m.delta \in Int
    BY DEF TxInv, TxTypes, TxSet, Proc, WritesOnce, ReadsFit, MoveSet
  <1>2. office \in 0..MaxMoney /\ stock \in [Items -> 0..MaxStock]
    BY DEF TypeOK
  <1>3. /\ MoneyMoved(p) \in Int /\ OfficeAfter(p) \in 0..MaxMoney
        /\ OfficeAfter(p) = office + MoneyMoved(p)
        /\ \A m \in tx[p].moved : m.row = MoneyRow => MoneyMoved(p) = m.delta
        /\ (\A m \in tx[p].moved : m.row # MoneyRow) => MoneyMoved(p) = 0
    <2>1. CASE \A m \in tx[p].moved : m.row # MoneyRow
      BY <1>2, <2>1, LimitAssumption DEF MoneyMoved, OfficeAfter, Written
    <2>2. ASSUME NEW m \in tx[p].moved, m.row = MoneyRow
          PROVE  /\ MoneyMoved(p) = m.delta /\ OfficeAfter(p) = m.after
                 /\ m.after \in 0..MaxMoney /\ m.after = office + m.delta
      <3>1. (CHOOSE n \in tx[p].moved : n.row = MoneyRow) = m
        BY <1>1, <2>2, MoveOf
      <3>2. MoneyMoved(p) = m.delta /\ OfficeAfter(p) = m.after
        BY <2>2, <3>1 DEF MoneyMoved, OfficeAfter, Written
      <3>3. QED
        BY <1>1, <2>2, <3>2, BalanceRows
    <2>3. QED
      BY <1>1, <1>2, <2>1, <2>2
  <1>4. ASSUME NEW i \in Items
        PROVE  /\ StockMoved(p)[i] \in Int /\ StockAfter(p)[i] \in 0..MaxStock
               /\ StockAfter(p)[i] = stock[i] + StockMoved(p)[i]
               /\ \A m \in tx[p].moved : m.row = BalanceRow(i) => StockMoved(p)[i] = m.delta
               /\ (\A m \in tx[p].moved : m.row # BalanceRow(i)) => StockMoved(p)[i] = 0
    <2>1. CASE \A m \in tx[p].moved : m.row # BalanceRow(i)
      BY <1>2, <2>1, LimitAssumption DEF StockMoved, StockAfter, Written
    <2>2. ASSUME NEW m \in tx[p].moved, m.row = BalanceRow(i)
          PROVE  /\ StockMoved(p)[i] = m.delta /\ StockAfter(p)[i] = m.after
                 /\ m.after \in 0..MaxStock /\ m.after = stock[i] + m.delta
      <3>1. (CHOOSE n \in tx[p].moved : n.row = BalanceRow(i)) = m
        BY <1>1, <2>2, MoveOf
      <3>2. StockMoved(p)[i] = m.delta /\ StockAfter(p)[i] = m.after
        BY <2>2, <3>1 DEF StockMoved, StockAfter, Written
      <3>3. QED
        BY <1>1, <2>2, <3>2, BalanceRows
    <2>3. QED
      BY <1>1, <1>2, <2>1, <2>2
  <1>5. StockMoved(p) \in [Items -> Int] /\ StockAfter(p) \in [Items -> 0..MaxStock]
    BY <1>4 DEF StockMoved, StockAfter
  <1>6. QED
    BY <1>3, <1>4, <1>5

\* A status update that has run all its statements has moved what it planned.
LEMMA PlanDone ==
  ASSUME TxInv, TypeOK, NEW a \in Procs, Working(a), tx[a].todo = {},
         NEW o \in Orders, NEW target \in Statuses, o = tx[a].order, target = tx[a].target
  PROVE  /\ MoneyMoved(a) = MoneyPlan(o, target)
         /\ StockMoved(a) = StockPlan(o, target)
         /\ \A m \in tx[a].moved : \/ m.row = MoneyRow /\ MoneyPlan(o, target) # 0
                                   \/ \E i \in Items : /\ m.row = BalanceRow(i)
                                                       /\ StockPlan(o, target)[i] # 0
         /\ MoneyPlan(o, target) # 0 => \E m \in tx[a].moved : m.row = MoneyRow
         /\ \A i \in Items : StockPlan(o, target)[i] # 0 =>
              \E m \in tx[a].moved : m.row = BalanceRow(i)
  <1> DEFINE mp == MoneyPlan(o, target)
             sp == StockPlan(o, target)
  <1>1. /\ Accepts(o, target)
        /\ \A s \in Statements(o, target) : s.row \in Balances =>
             \E m \in tx[a].moved : m.row = s.row /\ m.delta = s.delta
        /\ \A m \in tx[a].moved : \E s \in Statements(o, target) :
             s.row = m.row /\ s.delta = m.delta
    BY DEF TxInv, Proc, PlanKept
  <1>2. mp \in Int /\ sp \in [Items -> Int]
    BY PlanTypes
  <1>3. mp # 0 => \E m \in tx[a].moved : m.row = MoneyRow /\ m.delta = mp
    <2>1. mp # 0 => Take(MoneyRow, "update", mp, 0) \in Statements(o, target)
      BY <1>1, StatementsOf
    <2>2. QED
      BY <1>1, <2>1 DEF Take, Balances
  <1>4. ASSUME NEW i \in Items, sp[i] # 0
        PROVE  \E m \in tx[a].moved : m.row = BalanceRow(i) /\ m.delta = sp[i]
    <2>1. Take(BalanceRow(i), "update", sp[i], 2 * ItemId[i]) \in Statements(o, target)
      BY <1>1, <1>4, StatementsOf
    <2>2. QED
      BY <1>1, <2>1 DEF Take, Balances
  <1>5. ASSUME NEW m \in tx[a].moved
        PROVE  \/ m.row = MoneyRow /\ mp # 0
               \/ \E i \in Items : m.row = BalanceRow(i) /\ sp[i] # 0
    <2>1. PICK s \in Statements(o, target) : s.row = m.row /\ s.delta = m.delta
      BY <1>1
    <2>2. m.row \in Balances
      BY DEF TxInv, TxTypes, TxSet, MoveSet
    <2>3. \/ mp # 0 /\ s.row = MoneyRow
          \/ \E i \in Items : sp[i] # 0 /\ (s.row = BalanceRow(i) \/ s.row = ItemRow(i))
      BY <1>1, StatementsOf DEF Take
    <2>4. QED
      BY <2>1, <2>2, <2>3, RowKinds DEF Balances
  <1> HIDE DEF mp, sp
  <1>6. MoneyMoved(a) = mp
    BY <1>2, <1>3, <1>5, Effects, RowKinds
  <1>7. \A i \in Items : StockMoved(a)[i] = sp[i]
    <2> SUFFICES ASSUME NEW i \in Items PROVE StockMoved(a)[i] = sp[i]
      OBVIOUS
    <2>1. CASE sp[i] # 0
      BY <1>4, <2>1, Effects
    <2>2. CASE sp[i] = 0
      <3>1. \A m \in tx[a].moved : m.row # BalanceRow(i)
        BY <1>5, <2>2, RowKinds
      <3>2. QED
        BY <2>2, <3>1, Effects
    <2>3. QED
      BY <2>1, <2>2
  <1>8. StockMoved(a) = sp
    BY <1>2, <1>7, Effects
  <1>9. QED
    BY <1>3, <1>4, <1>5, <1>6, <1>8 DEF mp, sp

-----------------------------------------------------------------------------
\* The commit of a status update is a step of the handler it stands for.
LEMMA CommitUpdateImplements ==
  ASSUME TxInv, IInv, NEW a \in Procs, CommitUpdate(a)
  PROVE  \E o \in Orders, target \in Statuses :
           /\ o = tx[a].order /\ Accepts(o, target)
           /\ HandleOrderUpdate(o, target)
           /\ \A q \in Orders \ {o} : SameOrder(q)
  <1>1. Working(a) /\ tx[a].todo = {}
    BY DEF CommitUpdate, Working
  <1>2. PICK o \in Orders, target \in Statuses : o = tx[a].order /\ target = tx[a].target
    BY <1>1 DEF TxInv, TxTypes, TxSet, Proc, Stages, Working
  <1> DEFINE mp == MoneyPlan(o, target)
             sp == StockPlan(o, target)
             embed == IF target = "cancelled" THEN "reversed" ELSE "posted"
             moved == {d \in Destinations :
                         \E m \in Written(a) : (d = "office") <=> (m.row = MoneyRow)}
  <1>3. TypeOK
    BY DEF IInv
  <1>4. Accepts(o, target)
    BY <1>1, <1>2 DEF TxInv, Proc, PlanKept
  <1>5. MoneyMoved(a) = mp /\ StockMoved(a) = sp
    BY <1>1, <1>2, <1>3, PlanDone
  <1>6. mp \in Int /\ sp \in [Items -> Int]
    BY <1>3, PlanTypes
  <1>7. /\ OfficeAfter(a) = office + mp /\ OfficeAfter(a) \in 0..MaxMoney
        /\ StockAfter(a) = [i \in Items |-> stock[i] + sp[i]]
        /\ \A i \in Items : stock[i] + sp[i] \in 0..MaxStock
    BY <1>3, <1>5, Effects
  <1>8. /\ "office" \in moved <=> mp # 0
        /\ "boss" \in moved <=> \E i \in Items : sp[i] # 0
        /\ moved \subseteq {"office", "boss"}
    <2>1. \A m \in tx[a].moved : \/ m.row = MoneyRow /\ mp # 0
                                 \/ \E i \in Items : m.row = BalanceRow(i) /\ sp[i] # 0
      BY <1>1, <1>2, <1>3, PlanDone
    <2>2. /\ mp # 0 => \E m \in tx[a].moved : m.row = MoneyRow
          /\ \A i \in Items : sp[i] # 0 => \E m \in tx[a].moved : m.row = BalanceRow(i)
      BY <1>1, <1>2, <1>3, PlanDone
    <2> HIDE DEF mp, sp
    <2>3. QED
      BY <2>1, <2>2, RowKinds DEF Written, Destinations
  <1>9. /\ status' = [status EXCEPT ![o] = target]
        /\ office' = office + mp
        /\ stock' = [i \in Items |-> stock[i] + sp[i]]
        /\ LinkMoney(o, mp) /\ LinkStock(o, sp)
        /\ Queue(o, moved, embed)
        /\ UNCHANGED otherVars
    BY <1>2, <1>5, <1>7 DEF CommitUpdate
  <1> HIDE DEF moved
  <1>10. MayUpdate(o, target)
    BY <1>4 DEF Accepts
  <1>11. mp = 0 => UNCHANGED <<office, moneyRows, moneyNet>>
    BY <1>3, <1>6, <1>9 DEF LinkMoney, TypeOK
  <1>12. (\A i \in Items : sp[i] = 0) => UNCHANGED <<stock, stockRows, stockNet>>
    <2> SUFFICES ASSUME \A i \in Items : sp[i] = 0
                 PROVE  UNCHANGED <<stock, stockRows, stockNet>>
      OBVIOUS
    <2>1. stock' = stock
      BY <1>3, <1>9 DEF TypeOK
    <2>2. stockRows' = stockRows
      BY <1>3, <1>9 DEF TypeOK, LinkStock
    <2>3. stockNet' = stockNet
      <3>1. stockNet[o] \in [Items -> Int]
        BY <1>3 DEF TypeOK
      <3>2. [i \in Items |-> stockNet[o][i] + sp[i]] = stockNet[o]
        BY <3>1
      <3>3. QED
        BY <1>3, <1>9, <3>2 DEF TypeOK, LinkStock
    <2>4. QED
      BY <2>1, <2>2, <2>3
  <1>13. moved = {} => UNCHANGED <<notice, delivered>>
    BY <1>3, <1>9 DEF Queue, TypeOK
  <1>14. HandleOrderUpdate(o, target)
    <2>1. CASE OrderStatusMovement(o, target) = "none"
      <3>1. mp = 0 /\ \A i \in Items : sp[i] = 0
        BY <2>1 DEF MoneyPlan, StockPlan, NoUnits
      <3>2. moved = {}
        BY <1>8, <3>1
      <3>3. SettleNothing(o, target)
        BY <1>9, <1>10, <1>11, <1>12, <1>13, <2>1, <3>1, <3>2 DEF SettleNothing, otherVars
      <3>4. QED
        BY <3>3 DEF HandleOrderUpdate
    <2>2. CASE OrderStatusMovement(o, target) = "office"
      <3>1. /\ mp = MoneyDelta(o) /\ \A i \in Items : sp[i] = 0
            /\ PreviousStagePosted(o, target) /\ ~MoneyPosted(o)
        BY <1>4, <2>2 DEF MoneyPlan, StockPlan, NoUnits, Accepts
      <3>2. target # "cancelled"
        BY <2>2, DirectionAssumption DEF OrderStatusMovement, Stage
      <3>3. CASE Total[o] = 0
        <4>1. mp = 0 /\ moved = {}
          BY <1>8, <3>1, <3>3, DeltaTypes
        <4>2. SettleNothing(o, target)
          BY <1>9, <1>10, <1>11, <1>12, <1>13, <2>2, <3>1, <3>3, <4>1
          DEF SettleNothing, otherVars
        <4>3. QED
          BY <4>2 DEF HandleOrderUpdate
      <3>4. CASE Total[o] > 0
        <4>1. moved = {"office"} /\ embed = "posted"
          BY <1>8, <3>1, <3>2, <3>4, DeltaTypes
        <4>2. Covered(office + MoneyDelta(o), MaxMoney)
          BY <1>7, <3>1 DEF Covered
        <4> HIDE DEF mp, sp, embed
        <4>3. SettleOffice(o, target)
          BY <1>9, <1>10, <1>12, <2>2, <3>1, <3>4, <4>1, <4>2 DEF SettleOffice, otherVars
        <4>4. QED
          BY <4>3 DEF HandleOrderUpdate
      <3>5. QED
        BY <3>3, <3>4, DeltaTypes, LimitAssumption
    <2>3. CASE OrderStatusMovement(o, target) = "boss"
      <3>1. /\ mp = 0 /\ sp = StockDelta(o)
            /\ PreviousStagePosted(o, target) /\ ~StockPosted(o)
        BY <1>4, <2>3 DEF MoneyPlan, StockPlan, Accepts
      <3>2. target # "cancelled"
        BY <2>3, DirectionAssumption DEF OrderStatusMovement, Stage
      <3>3. moved = {"boss"} /\ embed = "posted"
        BY <1>8, <3>1, <3>2, DeltaNotEmpty
      <3>4. \A i \in Items : stock[i] + StockDelta(o)[i] \in 0..MaxStock
        BY <1>7, <3>1
      <3> HIDE DEF mp, sp, embed
      <3>5. SettleBoss(o, target)
        BY <1>9, <1>10, <1>11, <2>3, <3>1, <3>3, <3>4 DEF SettleBoss, Covered, otherVars
      <3>6. QED
        BY <3>5 DEF HandleOrderUpdate
    <2>4. CASE OrderStatusMovement(o, target) = "cancel"
      <3>1. mp = -moneyNet[o] /\ sp = [i \in Items |-> -stockNet[o][i]]
        BY <2>4 DEF MoneyPlan, StockPlan
      <3>2. target = "cancelled"
        BY <2>4, DirectionAssumption DEF OrderStatusMovement, Stage
      <3>3. moneyNet[o] \in Int /\ \A i \in Items : stockNet[o][i] \in Int /\ stock[i] \in Int
        BY <1>3 DEF TypeOK
      <3>4. /\ mp # 0 <=> moneyNet[o] # 0
            /\ \A i \in Items : sp[i] # 0 <=> stockNet[o][i] # 0
            /\ \A i \in Items : stock[i] + sp[i] = stock[i] - stockNet[o][i]
        BY <3>1, <3>3
      <3>5. moved = ToReverse(o) /\ embed = "reversed"
        BY <1>8, <3>2, <3>4 DEF ToReverse, Destinations
      <3>6. /\ office + mp = office - moneyNet[o]
            /\ [i \in Items |-> stock[i] + sp[i]] = [i \in Items |-> stock[i] - stockNet[o][i]]
        BY <1>3, <3>1, <3>3, <3>4 DEF TypeOK
      <3>7. /\ Covered(office - moneyNet[o], MaxMoney)
            /\ \A i \in Items : Covered(stock[i] - stockNet[o][i], MaxStock)
        BY <1>7, <3>4, <3>6 DEF Covered
      <3> HIDE DEF mp, sp, embed
      <3>8. ReverseOrder(o, target)
        BY <1>9, <1>10, <2>4, <3>1, <3>5, <3>6, <3>7 DEF ReverseOrder, otherVars
      <3>9. QED
        BY <3>8 DEF HandleOrderUpdate
    <2>5. QED
      BY <1>4, <2>1, <2>2, <2>3, <2>4, Movements DEF Accepts
  <1>15. \A q \in Orders \ {o} : SameOrder(q)
    <2> SUFFICES ASSUME NEW q \in Orders \ {o} PROVE SameOrder(q)
      OBVIOUS
    <2> HIDE DEF mp, sp, embed
    <2>1. status'[q] = status[q]
      BY <1>3, <1>9 DEF TypeOK
    <2>2. moneyRows'[q] = moneyRows[q] /\ moneyNet'[q] = moneyNet[q]
      BY <1>3, <1>9 DEF TypeOK, LinkMoney
    <2>3. stockRows'[q] = stockRows[q] /\ stockNet'[q] = stockNet[q]
      BY <1>3, <1>9 DEF TypeOK, LinkStock
    <2>4. notice'[q] = notice[q]
      BY <1>3, <1>9 DEF TypeOK, Queue
    <2>5. QED
      BY <2>1, <2>2, <2>3, <2>4 DEF SameOrder
  <1>16. QED
    BY <1>2, <1>4, <1>14, <1>15

\* The commit of a stock writer is a step of the writers of OrderSettlement.
LEMMA CommitStockImplements ==
  ASSUME TxInv, TypeOK, NEW w \in Procs, CommitStock(w)
  PROVE  WriteStock
  <1>1. /\ StockAfter(w) \in [Items -> 0..MaxStock]
        /\ \A i \in Items : StockMoved(w)[i] \in Int
        /\ \A i \in Items : StockAfter(w)[i] = stock[i] + StockMoved(w)[i]
    BY Effects
  <1>2. \A i \in Items : stock[i] \in Int /\ otherStock[i] \in Int
    BY DEF TypeOK
  <1>3. \A i \in Items : StockMoved(w)[i] = StockAfter(w)[i] - stock[i]
    BY <1>1, <1>2
  <1>4. otherStock' = [i \in Items |-> otherStock[i] + (StockAfter(w)[i] - stock[i])]
    BY <1>3 DEF CommitStock
  <1>5. QED
    BY <1>1, <1>4 DEF WriteStock, CommitStock, orderVars, outboxVars

-----------------------------------------------------------------------------
\* A balance that one transaction has written is out of reach of all others.
LEMMA WritesExclude ==
  ASSUME TxInv, NEW p \in Procs, NEW q \in Procs \ {p},
         NEW m \in tx[p].moved, NEW n \in tx[q].moved
  PROVE  m.row # n.row
  <1>1. Holds(p, m.row) /\ Holds(q, n.row)
    BY DEF TxInv, Proc, WritesOnce
  <1>2. QED
    BY <1>1 DEF TxInv, LockTable, Holds

\* So a commit disturbs no balance another transaction has computed from.
LEMMA CommitKeepsReads ==
  ASSUME TxInv, TypeOK, NEW p \in Procs, NEW q \in Procs \ {p}, NEW m \in tx[q].moved,
         office' = OfficeAfter(p) \/ office' = office, stock' = StockAfter(p)
  PROVE  Committed(m.row)' = Committed(m.row)
  <1>1. \A n \in tx[p].moved : n.row # m.row
    BY WritesExclude
  <1>2. m.row \in Balances
    BY DEF TxInv, TxTypes, TxSet, MoveSet
  <1>3. CASE m.row = MoneyRow
    <2>1. MoneyMoved(p) = 0 /\ OfficeAfter(p) = office + MoneyMoved(p) /\ office \in Int
      BY <1>1, <1>3, Effects DEF TypeOK
    <2>2. office' = office
      BY <2>1
    <2>3. QED
      BY <1>3, <2>2 DEF Committed, MoneyRow
  <1>4. ASSUME NEW i \in Items, m.row = BalanceRow(i)
        PROVE  Committed(m.row)' = Committed(m.row)
    <2>1. /\ StockMoved(p)[i] = 0 /\ StockAfter(p)[i] = stock[i] + StockMoved(p)[i]
          /\ stock[i] \in Int
      BY <1>1, <1>4, Effects DEF TypeOK
    <2>2. stock'[i] = stock[i]
      BY <2>1
    <2>3. QED
      BY <1>4, <2>2 DEF Committed, MoneyRow, BalanceRow
  <1>5. QED
    BY <1>2, <1>3, <1>4 DEF Balances

LEMMA CommitUpdateStep ==
  ASSUME TxInv, IInv, NEW a \in Procs, CommitUpdate(a)
  PROVE  TxInv' /\ \E o \in Orders, target \in Statuses : HandleOrderUpdate(o, target)
  <1>1. PICK o \in Orders, target \in Statuses :
          /\ o = tx[a].order /\ HandleOrderUpdate(o, target)
          /\ \A q \in Orders \ {o} : SameOrder(q)
    BY CommitUpdateImplements
  <1>2. Working(a) /\ Holds(a, OrderRow(o))
    BY <1>1 DEF CommitUpdate, Working, TxInv, Proc, PlanKept
  <1>3. ASSUME NEW q \in Procs \ {a}
        PROVE  Framed(q)
    <2>1. ASSUME Working(q)
          PROVE  SameOrder(tx[q].order)
      <3>1. Holds(q, OrderRow(tx[q].order)) /\ tx[q].order \in Orders
        BY <2>1 DEF TxInv, Proc, PlanKept, Stages, Working
      <3>2. OrderRow(tx[q].order) # OrderRow(o)
        BY <1>2, <3>1 DEF TxInv, LockTable, Holds
      <3>3. QED
        BY <1>1, <3>1, <3>2
    <2>2. \A m \in tx[q].moved : Committed(m.row)' = Committed(m.row)
      BY CommitKeepsReads DEF CommitUpdate, IInv
    <2>3. QED
      BY <2>1, <2>2 DEF Framed
  <1>4. QED
    BY <1>1, <1>3, ReleaseStep DEF CommitUpdate

LEMMA CommitStockStep ==
  ASSUME TxInv, TypeOK, NEW w \in Procs, CommitStock(w)
  PROVE  TxInv' /\ WriteStock
  <1>1. \A o \in Orders : SameOrder(o)
    BY DEF CommitStock, SameOrder, orderVars, outboxVars
  <1>2. ASSUME NEW q \in Procs \ {w}
        PROVE  Framed(q)
    <2>1. \A m \in tx[q].moved : Committed(m.row)' = Committed(m.row)
      BY CommitKeepsReads DEF CommitStock
    <2>2. Working(q) => tx[q].order \in Orders
      BY DEF TxInv, Proc, Stages, Working
    <2>3. QED
      BY <1>1, <2>1, <2>2 DEF Framed
  <1>3. QED
    BY <1>2, ReleaseStep, CommitStockImplements DEF CommitStock

\* The steps that leave every transaction where it is.
LEMMA SharedStep ==
  ASSUME TxInv, UNCHANGED txVars, \A p \in Procs : Framed(p)
  PROVE  TxInv'
  <1>1. TxTypes'
    BY DEF TxInv, TxTypes, txVars, Rows, Balances, MoneyRow, BalanceRow, OrderRow, ItemRow, Procs,
           Modes, TxSet, StatementSet, MoveSet, Statuses
  <1>2. LockTable'
    BY DEF TxInv, LockTable, txVars
  <1>3. \A p \in Procs : Proc(p)'
    BY ProcKeeps DEF TxInv, txVars
  <1>4. QED
    BY <1>1, <1>2, <1>3 DEF TxInv, Procs

LEMMA SaveOrderTx ==
  ASSUME TxInv, TypeOK, NEW o \in Orders, SaveOrder(o), UNCHANGED txVars
  PROVE  TxInv'
  <1>1. ASSUME NEW p \in Procs
        PROVE  Framed(p)
    <2>1. ASSUME Working(p)
          PROVE  SameOrder(tx[p].order)
      <3>1. tx[p].order \in Orders /\ status[tx[p].order] # "unsaved"
        BY <2>1 DEF TxInv, Proc, PlanKept, Stages, Working, Accepts, MayUpdate
      <3>2. QED
        BY <3>1 DEF SaveOrder, SameOrder, TypeOK
    <2>2. \A m \in tx[p].moved : Committed(m.row)' = Committed(m.row)
      BY DEF SaveOrder, Committed, MoneyRow
    <2>3. QED
      BY <2>1, <2>2 DEF Framed
  <1>2. QED
    BY <1>1, SharedStep

LEMMA OfficeStatementTx ==
  ASSUME TxInv, OfficeStatement
  PROVE  TxInv'
  <1>1. ASSUME NEW p \in Procs
        PROVE  Framed(p)
    <2>1. Working(p) => tx[p].order \in Orders /\ SameOrder(tx[p].order)
      BY DEF TxInv, Proc, Stages, Working, OfficeStatement, WriteOffice, SameOrder
    <2>2. ASSUME NEW m \in tx[p].moved
          PROVE  Committed(m.row)' = Committed(m.row)
      <3>1. Holds(p, m.row)
        BY DEF TxInv, Proc, WritesOnce
      <3>2. m.row # MoneyRow
        BY <3>1 DEF OfficeStatement, Holds
      <3>3. QED
        BY <3>2 DEF OfficeStatement, WriteOffice, Committed, MoneyRow
    <2>3. QED
      BY <2>1, <2>2 DEF Framed
  <1>2. QED
    BY <1>1, SharedStep DEF OfficeStatement

LEMMA DeliverTx ==
  ASSUME TxInv, NEW o \in Orders, NEW d \in Destinations, DeliverNotification(o, d),
         UNCHANGED txVars
  PROVE  TxInv'
  <1>1. \A p \in Procs : Framed(p)
    BY DEF DeliverNotification, Framed, SameOrder, Committed, MoneyRow
  <1>2. QED
    BY <1>1, SharedStep

\* Every step keeps the invariant, and is a step of OrderSettlement or none of it.
LEMMA TxStep ==
  ASSUME TxInv, IInv, [TxNext]_allVars
  PROVE  TxInv' /\ [Next]_vars
  <1>1. TypeOK
    BY DEF IInv
  <1>2. CASE \E o \in Orders : SaveOrder(o) /\ UNCHANGED txVars
    BY <1>1, <1>2, SaveOrderTx DEF Next
  <1>3. CASE \E a \in Admins, o \in Orders, target \in Statuses : BeginUpdate(a, o, target)
    BY <1>3, BeginUpdateStep DEF BeginUpdate
  <1>4. CASE \E w \in Writers : BeginStock(w)
    BY <1>4, BeginStockStep DEF BeginStock
  <1>5. ASSUME NEW p \in Procs, Step(p) \/ Abandon(p)
        PROVE  TxInv' /\ [Next]_vars
    <2>1. CASE LockOrder(p)
      BY <1>1, <2>1, LockOrderStep DEF LockOrder
    <2>2. CASE Execute(p)
      BY <1>1, <2>2, ExecuteStep DEF Execute
    <2>3. CASE CommitUpdate(p)
      BY <2>3, CommitUpdateStep DEF Next
    <2>4. CASE CommitStock(p)
      BY <1>1, <2>4, CommitStockStep DEF Next
    <2>5. CASE DetectDeadlock(p)
      BY <2>5, QuietRelease DEF DetectDeadlock
    <2>6. CASE Abandon(p)
      BY <2>6, QuietRelease DEF Abandon
    <2>7. QED
      BY <1>5, <2>1, <2>2, <2>3, <2>4, <2>5, <2>6 DEF Step
  <1>6. CASE OfficeStatement
    <2>1. WriteOffice
      BY <1>6 DEF OfficeStatement
    <2>2. QED
      BY <1>6, <2>1, OfficeStatementTx DEF Next
  <1>7. CASE \E o \in Orders, d \in Destinations :
               DeliverNotification(o, d) /\ UNCHANGED txVars
    BY <1>7, DeliverTx DEF Next
  <1>8. CASE UNCHANGED allVars
    <2>1. UNCHANGED vars /\ UNCHANGED txVars
      BY <1>8 DEF allVars, txVars
    <2>2. TxInv'
      BY <2>1, QuietFrames, SharedStep DEF TxInv
    <2>3. QED
      BY <2>1, <2>2
  <1>9. QED
    BY <1>2, <1>3, <1>4, <1>5, <1>6, <1>7, <1>8 DEF TxNext

LEMMA InitTxInv == TxInit => TxInv
  <1> SUFFICES ASSUME TxInit PROVE TxInv
    OBVIOUS
  <1>1. tx = [p \in Procs |-> Idle] /\ locks = {}
    BY DEF TxInit
  <1>2. Idle \in TxSet
    BY DEF Idle, TxSet, Statuses
  <1>3. TxTypes
    BY <1>1, <1>2 DEF TxTypes
  <1>4. LockTable
    BY <1>1 DEF LockTable
  <1>5. ASSUME NEW p \in Procs
        PROVE  Proc(p)
    BY <1>1 DEF Idle, Proc, Stages, WritesOnce, ReadsFit, Working
  <1>6. QED
    BY <1>3, <1>4, <1>5 DEF TxInv

LEMMA TxSpecInv == TxSpec => [](TxInv /\ IInv)
  <1>1. TxInit => TxInv /\ IInv
    BY InitTxInv, InitIInv DEF TxInit
  <1>2. TxInv /\ IInv /\ [TxNext]_allVars => TxInv' /\ IInv'
    BY TxStep, NextIInv
  <1>3. QED
    BY <1>1, <1>2, PTL DEF TxSpec

(***************************************************************************)
(* The handlers of business_order_settlement.go, run statement by          *)
(* statement under row locks next to stock writers, rollbacks and lost     *)
(* connections, do nothing that the one-step handlers do not do.           *)
(***************************************************************************)
THEOREM TransactionsImplement == TxSpec => Spec
  <1>1. TxInit => Init
    BY DEF TxInit
  <1>2. TxInv /\ IInv /\ [TxNext]_allVars => [Next]_vars
    BY TxStep
  <1>3. QED
    BY <1>1, <1>2, TxSpecInv, PTL DEF TxSpec, Spec

(***************************************************************************)
(* No balance leaves its limits under any interleaving of statements.      *)
(***************************************************************************)
THEOREM TxTypeCorrect == TxSpec => []TypeOK
  BY TransactionsImplement, TypeCorrect, PTL

(***************************************************************************)
(* Ledgers follow the status and the outbox follows the ledgers under any  *)
(* interleaving of statements.                                             *)
(***************************************************************************)
THEOREM TxLedgerCorrect == TxSpec => [](LedgerMatchesStatus /\ NoticeMatchesLedger)
  BY TransactionsImplement, LedgerCorrect, NoticeCorrect, PTL

(***************************************************************************)
(* Statements of concurrent transactions never lose each other's writes:   *)
(* every balance stays what the ledgers and the other writers add up to.   *)
(***************************************************************************)
THEOREM TxBalancesCorrect == TxSpec => []BalancesConserved
  BY TransactionsImplement, BalancesCorrect, PTL

(***************************************************************************)
(* A transaction commits what it decided on rows that are still as it read *)
(* them: SELECT ... FOR UPDATE is taken on every row the decision rests on.*)
(***************************************************************************)
THEOREM ReadsCorrect == TxSpec => []ReadsStayTrue
  <1>1. TxInv => ReadsStayTrue
    BY DEF TxInv, Proc, ReadsFit, PlanKept, Working, ReadsStayTrue, Written
  <1>2. QED
    BY <1>1, TxSpecInv, PTL

-----------------------------------------------------------------------------
\* Deadlocks: a ring would climb the lock order for ever.

\* How far a waiting status update has come along the lock order.
Progress(p, s) == IF tx[p].pc = "begun" THEN 0 ELSE s.at + 1

\* A status update that waits for another one, which waits too, has come less far.
LEMMA WaitersBehind ==
  ASSUME TxInv, TypeOK, NEW p \in Admins, NEW q \in Admins,
         NEW s \in Pending(p), NEW t \in Pending(q), q \in Blockers(p, s)
  PROVE  /\ Progress(p, s) \in Nat /\ Progress(q, t) \in Nat
         /\ Progress(p, s) < Progress(q, t)
         /\ Progress(q, t) <= 2 * Cardinality(Items) + 2
  <1>1. PICK l \in locks : l.row = s.row /\ l.by = q
    BY DEF Blockers
  <1>2. Working(q)
    BY <1>1 DEF TxInv, LockTable, Working
  <1>3. ASSUME NEW r \in Procs, Working(r), NEW u \in Pending(r)
        PROVE  /\ u \in tx[r].todo /\ tx[r].order \in Orders /\ PlanKept(r)
               /\ u.row \in Balances \cup {ItemRow(i) : i \in Items}
               /\ u.at = Place(u.row) /\ u.at \in Nat /\ u.at <= 2 * Cardinality(Items) + 1
    <2>1. u \in tx[r].todo
      BY <1>3 DEF Pending, Earliest, Working
    <2>2. tx[r].order \in Orders /\ PlanKept(r)
      BY <1>3 DEF TxInv, Proc, Stages, Working
    <2>3. QED
      BY <2>1, <2>2, StatementsWellFormed DEF PlanKept
  <1>4. t \in tx[q].todo /\ t.at \in Nat /\ t.at <= 2 * Cardinality(Items) + 1 /\ PlanKept(q)
    BY <1>2, <1>3 DEF Procs
  <1>5. Progress(q, t) = t.at + 1
    BY <1>2 DEF Progress, Working
  <1>6. CASE tx[p].pc = "begun"
    BY <1>4, <1>5, <1>6, ItemPlaces DEF Progress
  <1>7. CASE tx[p].pc # "begun"
    <2>1. Working(p)
      BY <1>7 DEF Pending, Working
    <2>2. /\ s.row \in Balances \cup {ItemRow(i) : i \in Items}
          /\ s.at = Place(s.row) /\ s.at \in Nat
      BY <1>3, <2>1 DEF Procs
    <2>3. \A o \in Orders : s.row # OrderRow(o)
      BY <2>2, RowKinds DEF Balances
    <2>4. tx[q].order \in Orders
      BY <1>2, <1>3 DEF Procs
    <2>5. Place(s.row) < t.at
      BY <1>1, <1>4, <2>3, <2>4 DEF PlanKept
    <2>6. QED
      BY <1>4, <1>5, <1>7, <2>2, <2>5, ItemPlaces DEF Progress
  <1>8. QED
    BY <1>6, <1>7

(***************************************************************************)
(* Two administrators never deadlock: settleItems takes the items in id    *)
(* order after the order and the money, in every settlement and in every   *)
(* reversal, so a ring of waiting transactions goes through a stock writer.*)
(***************************************************************************)
THEOREM RingsCorrect == TxSpec => []RingsNeedAWriter
  <1>1. TxInv /\ TypeOK => RingsNeedAWriter
    <2> SUFFICES ASSUME TxInv, TypeOK, NEW C \in SUBSET Admins, Ring(C) PROVE FALSE
      BY DEF RingsNeedAWriter
    <2> DEFINE bound == 2 * Cardinality(Items) + 2
               Blocked(p, s) == p \in C /\ s \in Pending(p) /\ Blockers(p, s) \cap C # {}
               T == {k \in 0..bound : \E p \in C : \E s \in Pending(p) :
                                        Blocked(p, s) /\ k = Progress(p, s)}
    <2>1. \A p \in C : \E s \in Pending(p) : Blocked(p, s)
      BY DEF Ring, WaitsFor
    <2>2. ASSUME NEW p \in C, NEW s \in Pending(p), Blocked(p, s)
          PROVE  \E q \in C : \E t \in Pending(q) :
                   /\ Blocked(q, t) /\ Progress(p, s) \in Nat /\ Progress(q, t) \in Nat
                   /\ Progress(p, s) < Progress(q, t) /\ Progress(q, t) <= bound
      <3>1. PICK q \in C : q \in Blockers(p, s)
        BY <2>2
      <3>2. PICK t \in Pending(q) : Blocked(q, t)
        BY <2>1
      <3>3. QED
        BY <3>1, <3>2, WaitersBehind
    <2>3. bound \in Nat
      BY ItemPlaces
    <2> HIDE DEF Blocked, bound
    <2>4. ASSUME NEW k \in T
          PROVE  \E j \in T : k < j
      <3>1. PICK p \in C : \E s \in Pending(p) : Blocked(p, s) /\ k = Progress(p, s)
        OBVIOUS
      <3>2. PICK s \in Pending(p) : Blocked(p, s) /\ k = Progress(p, s)
        BY <3>1
      <3>3. PICK q \in C : \E t \in Pending(q) :
              /\ Blocked(q, t) /\ Progress(q, t) \in Nat
              /\ k < Progress(q, t) /\ Progress(q, t) <= bound
        BY <2>2, <3>2
      <3>4. QED
        BY <2>3, <3>3
    <2>5. T # {}
      <3>1. PICK p \in C : \E s \in Pending(p) : Blocked(p, s)
        BY <2>1 DEF Ring
      <3>2. PICK q \in C : \E t \in Pending(q) :
              /\ Blocked(q, t) /\ Progress(q, t) \in Nat /\ Progress(q, t) <= bound
        BY <2>2, <3>1
      <3>3. QED
        BY <2>3, <3>2
    <2>6. PICK k \in T : \A j \in T : j <= k
      <3>1. T \in SUBSET (0..bound)
        OBVIOUS
      <3> HIDE DEF T
      <3>2. QED
        BY <2>3, <2>5, <3>1, NoEndlessClimb
    <2>7. QED
      BY <2>3, <2>4, <2>6
  <1>2. QED
    <2>1. IInv => TypeOK
      BY DEF IInv
    <2>2. QED
      BY <1>1, <2>1, TxSpecInv, PTL
=============================================================================
