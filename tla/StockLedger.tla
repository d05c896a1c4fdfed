---------------------------- MODULE StockLedger ----------------------------
(***************************************************************************)
(* Requests that move safebox stock and carry an idempotency key: the      *)
(* stash commands and the stock endpoint (Transact, one safebox) and the   *)
(* crafting store (ApplyMovements, both).  A request may be sent again     *)
(* when its answer was lost, while the first copy is still being served.   *)
(* The key, the balances and their audit rows are written in one           *)
(* transaction; a crafting request reads the balances before it begins.    *)
(*                                                                         *)
(* Locks: the key's INSERT waits for an uncommitted row of the same key,   *)
(* and every line locks its balance and its item row FOR UPDATE.  Two      *)
(* lines that need the same balance need the same item row, so the model   *)
(* keeps the item row's lock only.                                         *)
(***************************************************************************)
EXTENDS Integers, Sequences, FiniteSets, FiniteSetsExt, Functions

CONSTANTS
  Items,     \* safebox_stock_items
  KeyRank,   \* KeyRank[i]: its place by item_key
  Stocked,   \* the balances in the beginning
  Requests,  \* what clients may send: names of stash and crafting requests
  Request,   \* Request[r]: the body of r, its key and its actor
  Recipes,   \* crafting_recipes, named by the item they make
  Recipe,    \* Recipe[w]: output per craft, and the need of each item
  Handlers,  \* requests served at once
  MaxLine,   \* MaxLineQuantity, the most a line of a stash request may move
  MaxItem,   \* MaxItemQuantity, the most a balance may be adjusted to
  MaxStock   \* stands for MaxInt32, the largest quantity

ASSUME StockAssumption ==
         /\ MaxStock \in Nat
         /\ Stocked \in [{"boss", "public"} -> [Items -> 0..MaxStock]]
ASSUME RecipeAssumption ==
         /\ Recipes \subseteq Items
         /\ \A w \in Recipes : Recipe[w].output \in Nat \ {0} /\ Recipe[w].need \in [Items -> Nat]
ASSUME RequestAssumption ==
         \A r \in Requests :
           /\ Request[r].box \in {"boss", "public"}
           /\ \/ /\ Request[r].kind = "craft"
                 /\ DOMAIN Request[r].batch \subseteq Recipes
                 /\ \A w \in DOMAIN Request[r].batch : Request[r].batch[w] \in Nat \ {0}
              \/ /\ Request[r].kind = "stash"
                 /\ Request[r].action \in {"deposit", "withdraw", "adjustment"}
                 /\ \A l \in Range(Request[r].lines) : l.item \in Items /\ l.quantity \in Nat
ASSUME RankAssumption ==
         /\ IsFiniteSet(Items)
         /\ KeyRank \in [Items -> 1..Cardinality(Items)] /\ IsInjective(KeyRank)

VARIABLES
  balance,   \* safebox_stock_balances
  audited,   \* sum of the deltas in safebox_stock_transactions
  recorded,  \* safebox_stock_requests: the fingerprint under each key
  served,    \* what each handler is at
  moved,     \* history: how often the key's movements were committed
  embeds,    \* history: how often each crafting embed was sent for the key
  answered   \* history: the requests that were told of a movement or a conflict

vars == <<balance, audited, recorded, served, moved, embeds, answered>>

Safeboxes == {"boss", "public"}
Groups == Safeboxes \X {"deposit", "withdraw"}  \* what an embed of a batch is about
Keys == {Request[r].key : r \in Requests}
IsCraft(r) == Request[r].kind = "craft"
Idle == [pc |-> "idle"]
Unused == [kind |-> "none"]

Line(box, i, action, quantity) ==
  [box |-> box, item |-> i, action |-> action, quantity |-> quantity]

-----------------------------------------------------------------------------
\* Calculate: crafts to make at least the quantity asked for.
CraftCount(w, quantity) == (quantity + Recipe[w].output - 1) \div Recipe[w].output

\* Combine: what a batch of recipes needs of an item.
Needed(batch, i) ==
  SumFunction([w \in DOMAIN batch |-> Recipe[w].need[i] * CraftCount(w, batch[w])])

\* The public safebox is emptied first.
Split(needed, available) ==
  LET public == Min({needed, available["public"]})
  IN  [b \in Safeboxes |->
         IF b = "public" THEN public ELSE Min({needed - public, available["boss"]})]

\* One statement reads every balance, as it is committed.
List == balance

\* The lines of a stash request.
TransactionPlan(r) ==
  {Line(Request[r].box, l.item, Request[r].action, l.quantity) : l \in Range(Request[r].lines)}

\* An adjustment names the balance it leaves, and zero is one.
ValidTransaction(r) ==
  LET lines == Request[r].lines
      allowed == IF Request[r].action = "adjustment" THEN 0..MaxItem ELSE 1..MaxLine
  IN  /\ \A l \in Range(lines) : l.quantity \in allowed
      /\ \A m, n \in DOMAIN lines : lines[m].item = lines[n].item => m = n

\* What a crafting request takes of an item from a safebox.
Share(r, listed, b, i) ==
  Split(Needed(Request[r].batch, i), [c \in Safeboxes |-> listed[c][i]])[b]

\* The lines of a crafting request, from the balances it listed.
BatchPlan(r, listed) ==
  LET wanted == Request[r].batch
      withdrawn == {Line(b, i, "withdraw", Share(r, listed, b, i)) : b \in Safeboxes, i \in Items}
  IN  {l \in withdrawn : l.quantity > 0}
        \cup {Line(Request[r].box, w, "deposit", wanted[w]) : w \in DOMAIN wanted}

\* The listed balances do not cover what the batch needs.
Short(r, listed) ==
  \E i \in Items : Needed(Request[r].batch, i) > listed["public"][i] + listed["boss"][i]

\* One line for each balance.
ValidBatch(plan) == \A l, m \in plan : l.box = m.box /\ l.item = m.item => l = m

\* Fault: the lines are taken as they were written.
Unsorted(line) ==
  IF line.action = "deposit" THEN Cardinality(Items) - KeyRank[line.item] ELSE KeyRank[line.item]

\* A transaction takes its lines by safebox, then by item key.
Place(line) ==
  IF line.box = "boss" THEN KeyRank[line.item] ELSE Cardinality(Items) + KeyRank[line.item]
Earliest(lines) == {l \in lines : \A m \in lines : Place(l) <= Place(m)}

\* The hash of what a request asks for, with the actor it is stored beside.
Fingerprint(r, plan) ==
  [kind |-> Request[r].kind, actor |-> Request[r].actor, plan |-> plan]

-----------------------------------------------------------------------------
Init ==
  /\ balance = Stocked
  /\ audited = [b \in Safeboxes |-> [i \in Items |-> 0]]
  /\ recorded = [k \in Keys |-> Unused]
  /\ served = [h \in Handlers |-> Idle]
  /\ moved = [k \in Keys |-> 0]
  /\ embeds = [k \in Keys |-> [g \in Groups |-> 0]]
  /\ answered = {}

\* A refusal or an error leaves nothing behind.
Refuse(h) == served' = [served EXCEPT ![h] = Idle] /\ UNCHANGED answered

Answer(h, result) ==
  /\ served' = [served EXCEPT ![h] = Idle]
  /\ answered' = answered \cup {<<served[h].req, result>>}

\* A request arrives, for the first time or again.
Begin(h, r, plan) ==
  /\ served[h] = Idle
  /\ served' = [served EXCEPT ![h] =
       [pc |-> "begun", req |-> r, plan |-> plan, todo |-> plan, after |-> {}, notices |-> {}]]
  /\ UNCHANGED <<balance, audited, recorded, moved, embeds, answered>>

\* The stock endpoint, and the stash command behind its Submit.
ReceiveTransaction(h, r) ==
  /\ ~IsCraft(r)
  /\ ValidTransaction(r)
  /\ Begin(h, r, TransactionPlan(r))

\* The crafting endpoint divides what it needs between the safeboxes first.
ReceiveBatch(h, r) ==
  LET listed == List
  IN  /\ IsCraft(r)
      /\ ~Short(r, listed)
      /\ ValidBatch(BatchPlan(r, listed))
      /\ Begin(h, r, BatchPlan(r, listed))

InTransaction(h) == served[h].pc = "moving"
KeyOf(h) == Request[served[h].req].key
RowsHeld(h) == IF InTransaction(h) THEN {a.item : a \in served[h].after} ELSE {}

\* What a handler's next statement waits for.
WaitsFor(h) ==
  CASE served[h].pc = "begun" ->
         {g \in Handlers \ {h} : InTransaction(g) /\ KeyOf(g) = KeyOf(h)}
    [] InTransaction(h) ->
         {g \in Handlers \ {h} : \E l \in Earliest(served[h].todo) : l.item \in RowsHeld(g)}
    [] OTHER -> {}

Ring(C) == C # {} /\ \A h \in C : WaitsFor(h) \cap C # {}

\* What a key already on record means to the request that brings it.
KnownKey(h) ==
  IF recorded[KeyOf(h)] = Fingerprint(served[h].req, served[h].plan) THEN "replayed" ELSE "conflict"

\* Fault: the key is looked for and then inserted, and does not wait.
RecordKeyUnlocked(h) ==
  /\ served[h].pc = "begun"
  /\ IF recorded[KeyOf(h)] = Unused
     THEN /\ served' = [served EXCEPT ![h] = [@ EXCEPT !.pc = "moving"]]
          /\ UNCHANGED answered
     ELSE Answer(h, KnownKey(h))
  /\ UNCHANGED <<balance, audited, recorded, moved, embeds>>

\* Fault: a key that is known is taken for a replay whatever it was used for.
AnyReplay(h) ==
  /\ served[h].pc = "begun"
  /\ WaitsFor(h) = {}
  /\ IF recorded[KeyOf(h)] = Unused
     THEN /\ served' = [served EXCEPT ![h] = [@ EXCEPT !.pc = "moving"]]
          /\ UNCHANGED answered
     ELSE Answer(h, "replayed")
  /\ UNCHANGED <<balance, audited, recorded, moved, embeds>>

\* INSERT ... ON CONFLICT DO NOTHING, and what a key already there means.
RecordKey(h) ==
  /\ served[h].pc = "begun"
  /\ WaitsFor(h) = {}
  /\ IF recorded[KeyOf(h)] = Unused
     THEN /\ served' = [served EXCEPT ![h] = [@ EXCEPT !.pc = "moving"]]
          /\ UNCHANGED answered
     ELSE Answer(h, KnownKey(h))
  /\ UNCHANGED <<balance, audited, recorded, moved, embeds>>

After(line) ==
  LET before == balance[line.box][line.item]
  IN  CASE line.action = "adjustment" -> line.quantity
        [] line.action = "deposit" -> before + line.quantity
        [] OTHER -> before - line.quantity

\* FOR UPDATE, the check, the balance and its audit row.  A line that fails
\* rolls the transaction back, the key with it.
RunLine(h, line) ==
  /\ IF After(line) \in 0..MaxStock
     THEN /\ served' = [served EXCEPT ![h] =
               [@ EXCEPT !.todo = served[h].todo \ {line},
                         !.after = served[h].after \cup
                           {[box |-> line.box, item |-> line.item,
                             before |-> balance[line.box][line.item], after |-> After(line)]}]]
          /\ UNCHANGED answered
     ELSE Refuse(h)
  /\ UNCHANGED <<balance, audited, recorded, moved, embeds>>

\* Fault: the balance is read without FOR UPDATE.
MoveUnlocked(h) ==
  /\ InTransaction(h)
  /\ \E line \in Earliest(served[h].todo) : RunLine(h, line)

\* The next line of the transaction.
Move(h) ==
  /\ InTransaction(h)
  /\ WaitsFor(h) = {}
  /\ \E line \in Earliest(served[h].todo) : RunLine(h, line)

\* Everything the transaction wrote becomes visible.
Write(h) ==
  LET wrote(b, i) == {a \in served[h].after : a.box = b /\ a.item = i}
      row(b, i) == CHOOSE a \in wrote(b, i) : TRUE
  IN  /\ InTransaction(h)
      /\ served[h].todo = {}
      /\ balance' = [b \in Safeboxes |-> [i \in Items |->
                       IF wrote(b, i) = {} THEN balance[b][i] ELSE row(b, i).after]]
      /\ audited' = [b \in Safeboxes |-> [i \in Items |->
                       IF wrote(b, i) = {} THEN audited[b][i]
                       ELSE audited[b][i] + row(b, i).after - row(b, i).before]]
      /\ recorded' = [recorded EXCEPT ![KeyOf(h)] = Fingerprint(served[h].req, served[h].plan)]
      /\ moved' = [moved EXCEPT ![KeyOf(h)] = @ + 1]

\* The embeds of a batch: one for each safebox and action, in this order.
NoticeGroups(plan) == {<<l.box, l.action>> : l \in plan}
NoticePlace(g) == (IF g[1] = "boss" THEN 0 ELSE 2) + (IF g[2] = "deposit" THEN 0 ELSE 1)

\* A stash movement is answered, a crafting batch is told to the channels first.
Commit(h) ==
  /\ Write(h)
  /\ IF IsCraft(served[h].req)
     THEN /\ served' = [served EXCEPT ![h] =
               [@ EXCEPT !.pc = "notifying", !.notices = NoticeGroups(served[h].plan)]]
          /\ UNCHANGED answered
     ELSE Answer(h, "moved")
  /\ UNCHANGED embeds

\* The commit arrives and its answer does not: the request fails.
CommitUncertain(h) ==
  /\ Write(h)
  /\ Refuse(h)
  /\ UNCHANGED embeds

\* The next embed is posted or not; a failure is kept and the next one tried.
SendNotice(h, g, posted) ==
  /\ served[h].pc = "notifying"
  /\ g \in served[h].notices
  /\ \A n \in served[h].notices : NoticePlace(g) <= NoticePlace(n)
  /\ embeds' = IF posted THEN [embeds EXCEPT ![KeyOf(h)][g] = @ + 1] ELSE embeds
  /\ served' = [served EXCEPT ![h] = [@ EXCEPT !.notices = served[h].notices \ {g}]]
  /\ UNCHANGED <<balance, audited, recorded, moved, answered>>

\* Discord's refusals are logged and answered like its consent.
Notified(h) ==
  /\ served[h].pc = "notifying"
  /\ served[h].notices = {}
  /\ Answer(h, "moved")
  /\ UNCHANGED <<balance, audited, recorded, moved, embeds>>

\* The process dies, the client goes, the database fails or breaks a ring of
\* waiters: rolled back.
Abandon(h) ==
  /\ served[h] # Idle
  /\ Refuse(h)
  /\ UNCHANGED <<balance, audited, recorded, moved, embeds>>

Next ==
  \E h \in Handlers :
    \/ \E r \in Requests : ReceiveTransaction(h, r) \/ ReceiveBatch(h, r)
    \/ RecordKey(h) \/ Move(h) \/ Commit(h) \/ CommitUncertain(h)
    \/ (\E g \in Groups, posted \in BOOLEAN : SendNotice(h, g, posted)) \/ Notified(h)
    \/ Abandon(h)

Spec == Init /\ [][Next]_vars

-----------------------------------------------------------------------------
TypeOK ==
  /\ balance \in [Safeboxes -> [Items -> 0..MaxStock]]
  /\ audited \in [Safeboxes -> [Items -> -MaxStock..MaxStock]]
  /\ \A h \in Handlers : served[h].pc \in {"idle", "begun", "moving", "notifying"}
  /\ moved \in [Keys -> Nat]
  /\ embeds \in [Keys -> [Groups -> Nat]]

(***************************************************************************)
(* A key moves stock at most once, however often and however concurrently  *)
(* its request is sent, and exactly the keys that did are on record;       *)
(* "idempotent request replays do not post duplicate embeds", so a channel *)
(* is told at most once of what a batch put into or took from a safebox,   *)
(* and only of what the batch on record moved: not of a split that a       *)
(* replay or a conflicting request computed (storeCraftingStock, Notify).  *)
(***************************************************************************)
KeyActsOnce ==
  \A k \in Keys :
    /\ moved[k] = IF recorded[k] = Unused THEN 0 ELSE 1
    /\ \A g \in Groups :
         /\ embeds[k][g] <= 1
         /\ embeds[k][g] > 0 => g \in NoticeGroups(recorded[k].plan)

(***************************************************************************)
(* Whoever is answered that his request is done, at once or as a replay,   *)
(* has a movement on record under his key that is his and that is whole: a *)
(* crafting batch took exactly its materials, from whichever safeboxes     *)
(* (Calculate, Combine and the split of storeCraftingStock).               *)
(***************************************************************************)
WithdrawnFrom(plan, b, i) ==
  LET lines == {l \in plan : l.box = b /\ l.item = i /\ l.action = "withdraw"}
  IN  IF lines = {} THEN 0 ELSE (CHOOSE l \in lines : TRUE).quantity
Withdrawn(plan, i) == WithdrawnFrom(plan, "boss", i) + WithdrawnFrom(plan, "public", i)
WhollyDone(r, done) ==
  /\ done.actor = Request[r].actor
  /\ IF IsCraft(r)
     THEN \A i \in Items : \A w \in DOMAIN Request[r].batch :
            /\ Withdrawn(done.plan, i) * Recipe[w].output >= Recipe[w].need[i] * Request[r].batch[w]
            /\ Withdrawn(done.plan, i) = Needed(Request[r].batch, i)
            /\ Line(Request[r].box, w, "deposit", Request[r].batch[w]) \in done.plan
     ELSE done.plan = TransactionPlan(r)
DoneIsWhole ==
  \A r \in Requests :
    {<<r, "moved">>, <<r, "replayed">>} \cap answered # {} =>
      /\ recorded[Request[r].key].kind = Request[r].kind
      /\ WhollyDone(r, recorded[Request[r].key])

(***************************************************************************)
(* No movement is lost between two transactions: a balance is what it was  *)
(* in the beginning and the deltas of its audit rows (FOR UPDATE).         *)
(***************************************************************************)
BalanceIsAudited ==
  \A b \in Safeboxes, i \in Items : balance[b][i] = Stocked[b][i] + audited[b][i]

(***************************************************************************)
(* Requests within one safebox never deadlock each other: their lines go   *)
(* by item key.  A ring always has a crafting batch in it, which goes      *)
(* through the items twice, once for each safebox.                         *)
(***************************************************************************)
RingsNeedABatch ==
  \A C \in SUBSET {h \in Handlers : served[h] # Idle /\ ~IsCraft(served[h].req)} : ~Ring(C)

(***************************************************************************)
(* What ErrIdempotencyConflict and its answer say: "the idempotency key    *)
(* was reused with different input".                                       *)
(***************************************************************************)
ConflictMeansDifferentInput ==
  \A r \in Requests :
    <<r, "conflict">> \in answered =>
      \E q \in Requests \ {r} : Request[q].key = Request[r].key
=============================================================================
