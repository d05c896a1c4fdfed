---------------------- MODULE MCSettlementTransactions ---------------------
(* Two administrators on a sale and a purchase that share both items and on  *)
(* a free sale that predates the ledgers, and one administrator with one     *)
(* stock writer on a sale; item ids and item keys are in opposite orders.    *)
EXTENDS SettlementTransactions

CONSTANTS sale, purchase, free, pistol, joint

MCOrders == {sale, purchase, free}
MCItems == {pistol, joint}
MCDirection == [o \in MCOrders |-> IF o = purchase THEN "purchase" ELSE "sale"]
MCTotal == [o \in MCOrders |-> IF o = free THEN 0 ELSE 1]
MCUnits == [o \in MCOrders |-> [i \in MCItems |-> IF o = free /\ i = joint THEN 0 ELSE 1]]
MCHistorical == {free}
MCItemId == [i \in MCItems |-> IF i = pistol THEN 1 ELSE 2]
MCKeyRank == [i \in MCItems |-> IF i = joint THEN 1 ELSE 2]

\* One sale contending with the stock writer.
MCSaleOnly == [o \in {sale} |-> "sale"]
MCSaleTotal == [o \in {sale} |-> 1]
MCSaleUnits == [o \in {sale} |-> [i \in MCItems |-> 1]]
=============================================================================
