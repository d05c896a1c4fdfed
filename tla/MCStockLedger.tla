--------------------------- MODULE MCStockLedger ---------------------------
(* A deposit and a withdrawal of both items, an adjustment another actor     *)
(* sends under the key of the deposit, a withdrawal that names an item       *)
(* twice, and a crafting batch over both safeboxes whose yield is larger     *)
(* than what was asked for.  Two sale entries of one partner and item, and   *)
(* an internal one, with a unit in three spellings.  The endpoints' stock    *)
(* and price requests and the bot's crafting plans have no state in common,  *)
(* so each is run from its own initial states.                               *)
EXTENDS StockLedger, CraftDraft, PriceUpdates, TLC

CONSTANTS
  ore, gun, put, take, other, twice, batch, k1, k2, k3, ana, bo,
  each, Each, eachPadded, box, crate, sale1, sale2, own

VARIABLE process  \* the one this behaviour is about

MCItems == {ore, gun}
MCKeyRank == [i \in MCItems |-> IF i = gun THEN 1 ELSE 2]
MCStocked ==
  [b \in Safeboxes |-> [i \in MCItems |-> IF i = ore \/ b = "public" THEN 1 ELSE 0]]
Stash(key, actor, action, lines) ==
  [kind |-> "stash", key |-> key, actor |-> actor, box |-> "public", action |-> action, lines |-> lines]
Of(i, quantity) == [item |-> i, quantity |-> quantity]
MCRequest == [r \in Requests |->
  CASE r = put   -> Stash(k1, ana, "deposit", <<Of(ore, 2), Of(gun, 1)>>)
    [] r = other -> Stash(k1, bo, "adjustment", <<Of(ore, 2)>>)
    [] r = take  -> Stash(k2, bo, "withdraw", <<Of(gun, 1), Of(ore, 1)>>)
    [] r = twice -> Stash(k2, bo, "withdraw", <<Of(gun, 1), Of(gun, 1)>>)
    [] r = batch -> [kind |-> "craft", key |-> k3, actor |-> ana, box |-> "boss",
                     batch |-> [w \in {gun} |-> 1]]]
MCRecipe ==
  [w \in {gun} |-> [output |-> 2, need |-> [i \in MCItems |-> IF i = ore THEN 2 ELSE 0]]]
Symmetry == Permutations(Handlers) \cup Permutations(Workers) \cup Permutations(Products)

\* A batch that one unit of either safebox covers.
OneOre ==
  [w \in {gun} |-> [output |-> 1, need |-> [i \in MCItems |-> IF i = ore THEN 1 ELSE 0]]]

MCHome == [x \in {sale1, sale2, own} |->
  [table |-> IF x = own THEN "internal" ELSE "sale", listing |-> x = own]]
MCOriginal == [x \in {sale1, sale2, own} |->
  [terms |-> IF x = own THEN 2 ELSE 1, unit |-> IF x = sale2 THEN box ELSE each]]
MCTrimmed == [u \in {each, Each, eachPadded, box, crate} |-> IF u = eachPadded THEN Each ELSE u]
MCFolded == [u \in {each, Each, eachPadded, box, crate} |-> IF u \in {box, crate} THEN u ELSE each]
MCEntered == [terms : {1}, unit : {eachPadded, crate}] \cup {[terms |-> 2, unit |-> box]}

-----------------------------------------------------------------------------
MCInit ==
  /\ process \in {"stock", "plans", "prices"}
  /\ Init
  /\ CraftInit
  /\ PriceInit

MCNext ==
  /\ UNCHANGED process
  /\ \/ process = "stock" /\ Next /\ UNCHANGED <<craftVars, priceVars>>
     \/ process = "plans" /\ CraftNext /\ UNCHANGED <<vars, priceVars>>
     \/ process = "prices" /\ PriceNext /\ UNCHANGED <<vars, craftVars>>

MCSpec == MCInit /\ [][MCNext]_<<vars, craftVars, priceVars, process>>

(***************************************************************************)
(* A balance is the sum of its audit rows, and the audit rows of a price   *)
(* tell of every change of it (Transact and ApplyMovements of the stock    *)
(* ledger, Repository.Update of the price notes).                          *)
(***************************************************************************)
AuditsAreWhole == BalanceIsAudited /\ PricesAreAudited
=============================================================================
