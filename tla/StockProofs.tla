--------------------------- MODULE StockProofs ---------------------------
(***************************************************************************)
(* Proofs about the stock ledger (StockLedger), for any items, recipes,    *)
(* requests and number of handlers, and about the two parts that run       *)
(* beside it: the price notes (PriceUpdates), for any entries, units and   *)
(* number of editors, and the crafting plans (CraftDraft), for any         *)
(* products, panels and clicks.                                            *)
(*                                                                         *)
(* StockInv is inductive.  That a key moves stock once rests on what every *)
(* handler holds: one that is moving has found its key unused and nobody   *)
(* else is moving under it, and the balances it has read stay as they are  *)
(* because nobody else holds their rows.  That an answer is true rests on  *)
(* what may be on record: the plan of a request of that key, whole.        *)
(*                                                                         *)
(* PriceInv is inductive: the lock of a table keeps all but one of its     *)
(* editors out, so what he has read of the entry and of the units of its   *)
(* listing stays as it is until he commits, and a list that shows the      *)
(* present version shows the present values.                               *)
(*                                                                         *)
(* PlanInv is inductive: nothing locks a draft, but while the member has   *)
(* one panel and one click under way, only the redrawing of the panel      *)
(* comes between a change of the draft and its picture.                    *)
(***************************************************************************)
EXTENDS MCStockLedger, CommonLemmas, TLAPS

Actions == {"deposit", "withdraw", "adjustment"}
Lines == [box : Safeboxes, item : Items, action : Actions, quantity : Nat]
Writes == [box : Safeboxes, item : Items, before : 0..MaxStock, after : 0..MaxStock]
Balances == [Safeboxes -> [Items -> 0..MaxStock]]
Handling == [pc : {"begun", "moving", "notifying"}, req : Requests, plan : SUBSET Lines,
             todo : SUBSET Lines, after : SUBSET Writes, notices : SUBSET Groups]

\* What a request may come to ask of the balances.
Planned(r, asked) ==
  \/ /\ IsCraft(r)
     /\ ValidBatch(asked)
     /\ \E listed \in Balances : ~Short(r, listed) /\ asked = BatchPlan(r, listed)
  \/ /\ ~IsCraft(r)
     /\ ValidTransaction(r)
     /\ asked = TransactionPlan(r)

\* A key on record stands for a request of that key.
RecordedFor(r) ==
  LET done == recorded[Request[r].key]
  IN  done = Fingerprint(r, done.plan) /\ Planned(r, done.plan)
RecordFits(k) ==
  recorded[k] # Unused => \E r \in Requests : Request[r].key = k /\ RecordedFor(r)

StockTypes ==
  /\ balance \in Balances
  /\ audited \in [Safeboxes -> [Items -> Int]]
  /\ DOMAIN recorded = Keys
  /\ DOMAIN served = Handlers
  /\ \A h \in Handlers : served[h] = Idle \/ served[h] \in Handling
  /\ moved \in [Keys -> Nat]
  /\ embeds \in [Keys -> [Groups -> Nat]]
  /\ answered \subseteq Requests \X {"moved", "replayed", "conflict"}

\* A handler in its transaction: what it has read is still so.
Reads(h) ==
  /\ \A a \in served[h].after : a.before = balance[a.box][a.item]
  /\ \A a, c \in served[h].after : a.box = c.box /\ a.item = c.item => a = c
  /\ \A a \in served[h].after, l \in served[h].todo : Place(a) < Place(l)

HandlerFits(h) ==
  served[h] # Idle =>
    /\ Planned(served[h].req, served[h].plan)
    /\ served[h].todo \subseteq served[h].plan
    /\ served[h].pc = "begun" => served[h].after = {}
    /\ served[h].pc = "moving" => recorded[KeyOf(h)] = Unused /\ Reads(h)
    /\ served[h].pc = "notifying" =>
         /\ recorded[KeyOf(h)] = Fingerprint(served[h].req, served[h].plan)
         /\ served[h].notices \subseteq NoticeGroups(served[h].plan)
         /\ \A g \in served[h].notices : embeds[KeyOf(h)][g] = 0

\* Two handlers share neither a key nor a row.
Apart(g, h) ==
  /\ served[g].pc = "moving" /\ served[h].pc = "moving" =>
       KeyOf(g) # KeyOf(h) /\ RowsHeld(g) \cap RowsHeld(h) = {}
  /\ served[g].pc = "notifying" /\ served[h].pc = "notifying" => KeyOf(g) # KeyOf(h)

KeyFits(k) ==
  /\ moved[k] = IF recorded[k] = Unused THEN 0 ELSE 1
  /\ \A g \in Groups :
       /\ embeds[k][g] <= 1
       /\ embeds[k][g] > 0 => recorded[k] # Unused /\ g \in NoticeGroups(recorded[k].plan)

AnswerFits(r) ==
  {<<r, "moved">>, <<r, "replayed">>} \cap answered # {} => RecordedFor(r)

StockInv ==
  /\ StockTypes
  /\ BalanceIsAudited
  /\ \A k \in Keys : KeyFits(k) /\ RecordFits(k)
  /\ \A h \in Handlers : HandlerFits(h)
  /\ \A g, h \in Handlers : g # h => Apart(g, h)
  /\ \A r \in Requests : AnswerFits(r)


-----------------------------------------------------------------------------
\* What the operators of the plan compute.
LEMMA RequestTypes ==
  ASSUME NEW r \in Requests
  PROVE  /\ Request[r].box \in Safeboxes /\ Request[r].key \in Keys
         /\ Request[r].kind \in {"stash", "craft"}
         /\ IsCraft(r) => /\ DOMAIN Request[r].batch \subseteq Recipes
                          /\ \A w \in DOMAIN Request[r].batch : Request[r].batch[w] \in Nat \ {0}
         /\ ~IsCraft(r) => /\ Request[r].action \in Actions
                           /\ \A l \in Range(Request[r].lines) : l.item \in Items /\ l.quantity \in Nat
  BY RequestAssumption DEF Safeboxes, Keys, IsCraft, Actions

LEMMA DivideUp ==
  ASSUME NEW n \in Nat, NEW d \in Nat \ {0}
  PROVE  n \div d \in Nat /\ n < (n \div d) * d + d
  <1>1. n \div d \in Nat
    OBVIOUS
  <1>2. n < (n \div d) * d + d
    OBVIOUS
  <1>3. QED
    BY <1>1, <1>2

\* The crafts make what was asked for, and their need is part of the batch's.
LEMMA CraftsSuffice ==
  ASSUME NEW w \in Recipes, NEW quantity \in Nat \ {0}
  PROVE  CraftCount(w, quantity) \in Nat /\ quantity <= CraftCount(w, quantity) * Recipe[w].output
  <1> DEFINE out == Recipe[w].output
             n == quantity + out - 1
             made == CraftCount(w, quantity) * out
  <1>1. out \in Nat \ {0}
    BY RecipeAssumption
  <1>2. n \in Nat
    BY <1>1
  <1>3. CraftCount(w, quantity) = n \div out
    BY DEF CraftCount
  <1>4. CraftCount(w, quantity) \in Nat /\ n < made + out
    BY <1>1, <1>2, <1>3, DivideUp
  <1>5. made \in Nat
    BY <1>1, <1>4
  <1> HIDE DEF made, out
  <1>6. quantity <= made
    BY <1>1, <1>4, <1>5
  <1>7. QED
    BY <1>4, <1>6 DEF made, out

LEMMA NeededCovers ==
  ASSUME NEW r \in Requests, IsCraft(r), NEW i \in Items
  PROVE  LET wanted == Request[r].batch
         IN  /\ Needed(wanted, i) \in Nat
             /\ \A w \in DOMAIN wanted : Recipe[w].need[i] * CraftCount(w, wanted[w]) <= Needed(wanted, i)
  <1> DEFINE wanted == Request[r].batch
             W == DOMAIN wanted
             f == [w \in W |-> Recipe[w].need[i] * CraftCount(w, wanted[w])]
  <1>1. W \subseteq Recipes /\ W \subseteq Items /\ \A w \in W : wanted[w] \in Nat \ {0}
    BY RequestTypes, RecipeAssumption
  <1>2. IsFiniteSet(W)
    BY <1>1, RankAssumption, FS_Subset
  <1>3. ASSUME NEW w \in W PROVE f[w] \in Nat
    <2>1. Recipe[w].need[i] \in Nat /\ CraftCount(w, wanted[w]) \in Nat
      BY <1>1, RecipeAssumption, CraftsSuffice
    <2>2. QED
      BY <2>1
  <1>4. DOMAIN f = W /\ Needed(wanted, i) = SumFunctionOnSet(f, W)
    BY Zenon DEF Needed, SumFunction
  <1> HIDE DEF f
  <1>5. SumFunctionOnSet(f, W) \in Nat /\ \A w \in W : f[w] <= SumFunctionOnSet(f, W)
    BY <1>2, <1>3, SumCovers
  <1>6. QED
    BY <1>4, <1>5 DEF f

\* A need is split into what both safeboxes give, and is met when they suffice.
LEMMA SplitCovers ==
  ASSUME NEW needed \in Nat, NEW available \in [Safeboxes -> Nat]
  PROVE  /\ \A b \in Safeboxes : Split(needed, available)[b] \in Nat
         /\ needed <= available["public"] + available["boss"] =>
              Split(needed, available)["boss"] + Split(needed, available)["public"] = needed
  <1> DEFINE public == Min({needed, available["public"]})
             boss == Min({needed - public, available["boss"]})
  <1>1. available["public"] \in Nat /\ available["boss"] \in Nat
    BY DEF Safeboxes
  <1>2. public = IF needed <= available["public"] THEN needed ELSE available["public"]
    BY <1>1, MinOfTwo
  <1>3. public \in Nat /\ needed - public \in Nat
    BY <1>1, <1>2
  <1>4. boss = IF needed - public <= available["boss"] THEN needed - public ELSE available["boss"]
    BY <1>1, <1>3, MinOfTwo
  <1>5. Split(needed, available)["public"] = public /\ Split(needed, available)["boss"] = boss
    BY DEF Split, Safeboxes
  <1> HIDE DEF public, boss
  <1>6. QED
    BY <1>1, <1>2, <1>3, <1>4, <1>5 DEF Safeboxes


LEMMA BatchLines ==
  ASSUME NEW r \in Requests, IsCraft(r), NEW listed \in Balances, NEW l
  PROVE  l \in BatchPlan(r, listed) <=>
           \/ \E b \in Safeboxes, i \in Items :
                l = Line(b, i, "withdraw", Share(r, listed, b, i)) /\ l.quantity > 0
           \/ \E w \in DOMAIN Request[r].batch :
                l = Line(Request[r].box, w, "deposit", Request[r].batch[w])
  <1> DEFINE wanted == Request[r].batch
             withdrawn == {Line(b, i, "withdraw", Share(r, listed, b, i)) : b \in Safeboxes, i \in Items}
             deposited == {Line(Request[r].box, w, "deposit", wanted[w]) : w \in DOMAIN wanted}
  <1>1. BatchPlan(r, listed) = {m \in withdrawn : m.quantity > 0} \cup deposited
    BY DEF BatchPlan
  <1>2. l \in withdrawn <=> \E b \in Safeboxes, i \in Items : l = Line(b, i, "withdraw", Share(r, listed, b, i))
    OBVIOUS
  <1>3. l \in deposited <=> \E w \in DOMAIN wanted : l = Line(Request[r].box, w, "deposit", wanted[w])
    OBVIOUS
  <1> HIDE DEF withdrawn, deposited
  <1>4. QED
    BY <1>1, <1>2, <1>3

LEMMA Shares ==
  ASSUME NEW r \in Requests, IsCraft(r), NEW listed \in Balances, NEW i \in Items
  PROVE  /\ \A b \in Safeboxes : Share(r, listed, b, i) \in Nat
         /\ ~Short(r, listed) =>
              Share(r, listed, "boss", i) + Share(r, listed, "public", i) = Needed(Request[r].batch, i)
  <1> DEFINE available == [c \in Safeboxes |-> listed[c][i]]
             needed == Needed(Request[r].batch, i)
  <1>1. available \in [Safeboxes -> Nat]
    BY StockAssumption DEF Balances
  <1>2. needed \in Nat
    BY NeededCovers
  <1>3. available["public"] = listed["public"][i] /\ available["boss"] = listed["boss"][i]
    BY DEF Safeboxes
  <1>4. \A b \in Safeboxes : Share(r, listed, b, i) = Split(needed, available)[b]
    BY DEF Share
  <1>5. ~Short(r, listed) => needed <= available["public"] + available["boss"]
    <2>1. ~Short(r, listed) => ~(needed > listed["public"][i] + listed["boss"][i])
      BY DEF Short
    <2>2. available["public"] \in Nat /\ available["boss"] \in Nat
      BY <1>1 DEF Safeboxes
    <2> HIDE DEF needed, available
    <2>3. QED
      BY <1>2, <1>3, <2>1, <2>2
  <1> HIDE DEF needed, available
  <1>6. /\ \A b \in Safeboxes : Split(needed, available)[b] \in Nat
        /\ needed <= available["public"] + available["boss"] =>
             Split(needed, available)["boss"] + Split(needed, available)["public"] = needed
    BY <1>1, <1>2, SplitCovers
  <1>7. Share(r, listed, "boss", i) = Split(needed, available)["boss"]
        /\ Share(r, listed, "public", i) = Split(needed, available)["public"]
    BY <1>4 DEF Safeboxes
  <1>8. QED
    BY <1>4, <1>5, <1>6, <1>7 DEF needed

LEMMA PlanTypes ==
  ASSUME NEW r \in Requests, NEW asked, Planned(r, asked)
  PROVE  /\ asked \in SUBSET Lines
         /\ \A l, m \in asked : l.box = m.box /\ l.item = m.item => l = m
         /\ ~IsCraft(r) => \A l \in asked : l.box = Request[r].box
  <1>1. CASE IsCraft(r)
    <2>1. PICK listed \in Balances : asked = BatchPlan(r, listed) /\ ValidBatch(asked)
      BY <1>1 DEF Planned
    <2>2. ASSUME NEW l \in asked PROVE l \in Lines
      <3>1. \/ \E b \in Safeboxes, i \in Items : l = Line(b, i, "withdraw", Share(r, listed, b, i))
            \/ \E w \in DOMAIN Request[r].batch : l = Line(Request[r].box, w, "deposit", Request[r].batch[w])
        BY <1>1, <2>1, <2>2, BatchLines
      <3>2. CASE \E b \in Safeboxes, i \in Items : l = Line(b, i, "withdraw", Share(r, listed, b, i))
        BY <1>1, <3>2, Shares DEF Line, Lines, Actions
      <3>3. CASE \E w \in DOMAIN Request[r].batch : l = Line(Request[r].box, w, "deposit", Request[r].batch[w])
        <4>1. PICK w \in DOMAIN Request[r].batch : l = Line(Request[r].box, w, "deposit", Request[r].batch[w])
          BY <3>3
        <4>2. w \in Items /\ Request[r].batch[w] \in Nat /\ Request[r].box \in Safeboxes
          BY <1>1, RequestTypes, RecipeAssumption
        <4>3. QED
          BY <4>1, <4>2 DEF Line, Lines, Actions
      <3>4. QED
        BY <3>1, <3>2, <3>3
    <2>3. QED
      BY <1>1, <2>1, <2>2 DEF ValidBatch
  <1>2. CASE ~IsCraft(r)
    <2>1. asked = TransactionPlan(r) /\ ValidTransaction(r)
      BY <1>2 DEF Planned
    <2> DEFINE lines == Request[r].lines
    <2>2. \A l \in asked : \E n \in DOMAIN lines :
            l = Line(Request[r].box, lines[n].item, Request[r].action, lines[n].quantity)
      BY <2>1 DEF TransactionPlan, Range
    <2>3. \A n \in DOMAIN lines : lines[n].item \in Items /\ lines[n].quantity \in Nat
      BY <1>2, RequestTypes DEF Range
    <2>4. Request[r].box \in Safeboxes /\ Request[r].action \in Actions
      BY <1>2, RequestTypes
    <2>5. \A m, n \in DOMAIN lines : lines[m].item = lines[n].item => m = n
      BY <2>1 DEF ValidTransaction
    <2> HIDE DEF lines
    <2>6. \A l \in asked : l \in Lines /\ l.box = Request[r].box
      BY <2>2, <2>3, <2>4 DEF Line, Lines
    <2>7. \A l, m \in asked : l.box = m.box /\ l.item = m.item => l = m
      BY <2>2, <2>5 DEF Line
    <2>8. QED
      BY <2>6, <2>7
  <1>3. QED
    BY <1>1, <1>2

\* A batch takes exactly what its crafts need, and lays down what was asked for.
LEMMA BatchIsWhole ==
  ASSUME NEW r \in Requests, IsCraft(r), NEW asked, Planned(r, asked),
         NEW i \in Items, NEW w \in DOMAIN Request[r].batch
  PROVE  LET wanted == Request[r].batch
         IN  /\ Withdrawn(asked, i) = Needed(wanted, i)
             /\ Withdrawn(asked, i) * Recipe[w].output >= Recipe[w].need[i] * wanted[w]
             /\ Line(Request[r].box, w, "deposit", wanted[w]) \in asked
  <1> DEFINE wanted == Request[r].batch
  <1>1. PICK listed \in Balances : asked = BatchPlan(r, listed) /\ ~Short(r, listed)
    BY DEF Planned
  <1>2. \A b \in Safeboxes : Share(r, listed, b, i) \in Nat
    BY Shares
  <1>3. ASSUME NEW b \in Safeboxes PROVE WithdrawnFrom(asked, b, i) = Share(r, listed, b, i)
    <2> DEFINE lines == {l \in asked : l.box = b /\ l.item = i /\ l.action = "withdraw"}
               line == Line(b, i, "withdraw", Share(r, listed, b, i))
    <2>1. \A l \in lines : l = line /\ Share(r, listed, b, i) > 0
      <3>1. ASSUME NEW l \in lines PROVE l = line /\ Share(r, listed, b, i) > 0
        <4>1. l \in BatchPlan(r, listed) /\ l.box = b /\ l.item = i /\ l.action = "withdraw"
          BY <1>1
        <4>2. PICK c \in Safeboxes, j \in Items :
                l = Line(c, j, "withdraw", Share(r, listed, c, j)) /\ l.quantity > 0
          BY <4>1, BatchLines DEF Line
        <4>3. c = b /\ j = i
          BY <4>1, <4>2 DEF Line
        <4>4. QED
          BY <4>2, <4>3 DEF Line
      <3>2. QED
        BY <3>1
    <2>2. Share(r, listed, b, i) > 0 => line \in lines
      <3>1. Share(r, listed, b, i) > 0 => line \in BatchPlan(r, listed)
        BY BatchLines DEF Line
      <3>2. QED
        BY <1>1, <3>1 DEF Line
    <2>3. WithdrawnFrom(asked, b, i) = IF lines = {} THEN 0 ELSE (CHOOSE l \in lines : TRUE).quantity
      BY DEF WithdrawnFrom
    <2>4. line.quantity = Share(r, listed, b, i)
      BY DEF Line
    <2> HIDE DEF lines, line
    <2>5. CASE lines = {}
      BY <1>2, <2>2, <2>3, <2>5
    <2>6. CASE lines # {}
      <3>1. (CHOOSE l \in lines : TRUE) \in lines
        BY <2>6
      <3>2. (CHOOSE l \in lines : TRUE) = line
        BY <2>1, <3>1
      <3>3. QED
        BY <2>3, <2>4, <2>6, <3>2
    <2>7. QED
      BY <2>5, <2>6
  <1>4. Withdrawn(asked, i) = Needed(wanted, i)
    <2>1. Share(r, listed, "boss", i) + Share(r, listed, "public", i) = Needed(wanted, i)
      BY <1>1, Shares
    <2>2. QED
      BY <1>3, <2>1 DEF Withdrawn, Safeboxes
  <1>5. Line(Request[r].box, w, "deposit", wanted[w]) \in asked
    BY <1>1, BatchLines
  <1>6. Withdrawn(asked, i) * Recipe[w].output >= Recipe[w].need[i] * wanted[w]
    <2>1. w \in Recipes /\ wanted[w] \in Nat \ {0}
      BY RequestTypes
    <2> DEFINE need == Recipe[w].need[i]
               out == Recipe[w].output
               count == CraftCount(w, wanted[w])
               all == Needed(wanted, i)
               quantity == wanted[w]
    <2>2. need \in Nat /\ out \in Nat /\ quantity \in Nat
      BY <2>1, RecipeAssumption
    <2>3. count \in Nat /\ quantity <= count * out
      BY <2>1, CraftsSuffice
    <2>4. all \in Nat /\ need * count <= all
      BY NeededCovers
    <2>5. Withdrawn(asked, i) = all
      BY <1>4
    <2> HIDE DEF need, out, count, all, quantity
    <2>6. (need * count) * out <= all * out
      <3> DEFINE part == need * count
      <3>1. part \in Nat /\ part <= all
        BY <2>2, <2>3, <2>4
      <3> HIDE DEF part
      <3>2. part * out <= all * out
        BY <2>2, <2>4, <3>1
      <3>3. QED
        BY <3>2 DEF part
    <2>7. need * quantity <= need * (count * out)
      <3> DEFINE made == count * out
      <3>1. made \in Nat /\ quantity <= made
        BY <2>2, <2>3
      <3> HIDE DEF made
      <3>2. need * quantity <= need * made
        BY <2>2, <3>1
      <3>3. QED
        BY <3>2 DEF made
    <2>8. need * (count * out) = (need * count) * out
      BY <2>2, <2>3
    <2>9. need * quantity \in Int /\ all * out \in Int /\ (need * count) * out \in Int
      BY <2>2, <2>3, <2>4
    <2>10. all * out >= need * quantity
      BY <2>6, <2>7, <2>8, <2>9
    <2>11. QED
      BY <2>5, <2>10 DEF need, out, quantity
  <1>7. QED
    BY <1>4, <1>5, <1>6


-----------------------------------------------------------------------------
\* The places of two lines are those of their balances.
LEMMA PlaceOrders ==
  ASSUME NEW a, NEW c, a.box \in Safeboxes, c.box \in Safeboxes, a.item \in Items, c.item \in Items
  PROVE  /\ Place(a) \in Int
         /\ Place(a) = Place(c) => a.box = c.box /\ a.item = c.item
  <1> DEFINE n == Cardinality(Items)
  <1>1. n \in Nat
    BY RankAssumption, FS_CardinalityType
  <1>2. KeyRank[a.item] \in 1..n /\ KeyRank[c.item] \in 1..n
    BY RankAssumption
  <1>3. KeyRank[a.item] = KeyRank[c.item] => a.item = c.item
    BY RankAssumption DEF IsInjective
  <1> HIDE DEF n
  <1>4. a.box \in {"boss", "public"} /\ c.box \in {"boss", "public"}
    BY DEF Safeboxes
  <1>5. Place(a) = IF a.box = "boss" THEN KeyRank[a.item] ELSE n + KeyRank[a.item]
    BY DEF Place, n
  <1>6. Place(c) = IF c.box = "boss" THEN KeyRank[c.item] ELSE n + KeyRank[c.item]
    BY DEF Place, n
  <1>7. QED
    BY <1>1, <1>2, <1>3, <1>4, <1>5, <1>6

LEMMA Prints ==
  ASSUME NEW r \in Requests, NEW asked
  PROVE  /\ Fingerprint(r, asked) # Unused
         /\ Fingerprint(r, asked).plan = asked
  BY RequestTypes DEF Fingerprint, Unused

\* A handler that is at something has a request, and its key.
LEMMA AtWork ==
  ASSUME StockTypes, NEW h \in Handlers, served[h] # Idle
  PROVE  /\ served[h] \in Handling
         /\ served[h].req \in Requests /\ KeyOf(h) \in Keys
         /\ served[h].pc \in {"begun", "moving", "notifying"}
  BY RequestTypes DEF StockTypes, Handling, KeyOf

LEMMA StockInitInv == Init => StockInv
  <1> SUFFICES ASSUME Init PROVE StockInv
    OBVIOUS
  <1>1. StockTypes
    BY StockAssumption DEF Init, StockTypes, Balances, Safeboxes
  <1>2. BalanceIsAudited
    BY StockAssumption DEF Init, BalanceIsAudited, Safeboxes
  <1>3. \A k \in Keys : KeyFits(k) /\ RecordFits(k)
    BY DEF Init, KeyFits, RecordFits
  <1>4. \A h \in Handlers : HandlerFits(h)
    BY DEF Init, HandlerFits
  <1>5. \A g, h \in Handlers : Apart(g, h)
    BY DEF Init, Apart, Idle
  <1>6. \A r \in Requests : AnswerFits(r)
    BY DEF Init, AnswerFits
  <1>7. QED
    BY <1>1, <1>2, <1>3, <1>4, <1>5, <1>6 DEF StockInv

-----------------------------------------------------------------------------
\* Steps of one handler that leave the ledger as it is.
Quiet(h) ==
  /\ UNCHANGED <<balance, audited, recorded, moved, embeds>>
  /\ DOMAIN served' = Handlers
  /\ \A g \in Handlers \ {h} : served'[g] = served[g]

LEMMA OthersKeep ==
  ASSUME StockInv, NEW h \in Handlers, Quiet(h)
  PROVE  /\ \A g \in Handlers \ {h} : HandlerFits(g)'
         /\ \A f, g \in Handlers \ {h} : f # g => Apart(f, g)'
         /\ \A k \in Keys : KeyFits(k)' /\ RecordFits(k)'
         /\ BalanceIsAudited'
         /\ \A r \in Requests : RecordedFor(r)' <=> RecordedFor(r)
  <1>1. \A g \in Handlers \ {h} : HandlerFits(g)'
    BY DEF StockInv, Quiet, HandlerFits, Reads, KeyOf
  <1>2. \A f, g \in Handlers \ {h} : f # g => Apart(f, g)'
    BY DEF StockInv, Quiet, Apart, KeyOf, RowsHeld, InTransaction
  <1>3. \A r \in Requests : RecordedFor(r)' <=> RecordedFor(r)
    BY DEF Quiet, RecordedFor
  <1>4. \A k \in Keys : KeyFits(k)' /\ RecordFits(k)'
    BY <1>3 DEF StockInv, Quiet, KeyFits, RecordFits
  <1>5. BalanceIsAudited'
    BY DEF StockInv, Quiet, BalanceIsAudited
  <1>6. QED
    BY <1>1, <1>2, <1>3, <1>4, <1>5

LEMMA QuietStep ==
  ASSUME StockInv, NEW h \in Handlers, Quiet(h),
         served'[h] = Idle \/ served'[h] \in Handling,
         HandlerFits(h)', \A g \in Handlers \ {h} : Apart(g, h)' /\ Apart(h, g)',
         answered' \subseteq Requests \X {"moved", "replayed", "conflict"},
         \A r \in Requests : AnswerFits(r)'
  PROVE  StockInv'
  <1>1. StockTypes'
    BY DEF StockInv, StockTypes, Quiet
  <1>2. \A g \in Handlers : HandlerFits(g)'
    BY OthersKeep
  <1>3. \A f, g \in Handlers : f # g => Apart(f, g)'
    BY OthersKeep
  <1>4. QED
    BY <1>1, <1>2, <1>3, OthersKeep DEF StockInv

\* A handler that is idle again, whatever it answered.
LEMMA IdleFits ==
  ASSUME NEW h \in Handlers, served'[h] = Idle
  PROVE  HandlerFits(h)' /\ \A g \in Handlers : Apart(g, h)' /\ Apart(h, g)'
  BY DEF HandlerFits, Apart, Idle

LEMMA RefuseStep ==
  ASSUME StockInv, NEW h \in Handlers, Refuse(h),
         UNCHANGED <<balance, audited, recorded, moved, embeds>>
  PROVE  StockInv'
  <1>1. Quiet(h) /\ served'[h] = Idle /\ answered' = answered
    BY DEF Refuse, Quiet, StockInv, StockTypes
  <1>2. \A r \in Requests : AnswerFits(r)'
    BY <1>1, OthersKeep DEF AnswerFits, StockInv
  <1>3. answered' \subseteq Requests \X {"moved", "replayed", "conflict"}
    BY <1>1 DEF StockInv, StockTypes
  <1>4. QED
    BY <1>1, <1>2, <1>3, IdleFits, QuietStep

\* An answer is true when what is on record is the request's.
LEMMA AnswerStep ==
  ASSUME StockInv, NEW h \in Handlers, served[h] # Idle,
         NEW result \in {"moved", "replayed", "conflict"}, Answer(h, result),
         UNCHANGED <<balance, audited, recorded, moved, embeds>>,
         result # "conflict" => RecordedFor(served[h].req)
  PROVE  StockInv'
  <1> DEFINE req == served[h].req
  <1>1. req \in Requests
    BY AtWork DEF StockInv
  <1>2. Quiet(h) /\ served'[h] = Idle /\ answered' = answered \cup {<<req, result>>}
    BY DEF Answer, Quiet, StockInv, StockTypes
  <1> HIDE DEF req
  <1>3. ASSUME NEW r \in Requests PROVE AnswerFits(r)'
    <2>1. CASE r = req /\ result # "conflict"
      <3>1. RecordedFor(r)'
        BY <1>2, <2>1, OthersKeep DEF req
      <3>2. QED
        BY <3>1 DEF AnswerFits
    <2>2. CASE r # req \/ result = "conflict"
      <3>1. {<<r, "moved">>, <<r, "replayed">>} \cap answered' \subseteq answered
        BY <1>2, <2>2
      <3>2. QED
        BY <1>2, <3>1, OthersKeep DEF AnswerFits, StockInv
    <2>3. QED
      BY <2>1, <2>2
  <1>4. answered' \subseteq Requests \X {"moved", "replayed", "conflict"}
    BY <1>1, <1>2 DEF StockInv, StockTypes
  <1>5. QED
    BY <1>2, <1>3, <1>4, IdleFits, QuietStep

LEMMA SameAnswers ==
  ASSUME StockInv, NEW h \in Handlers, Quiet(h), UNCHANGED answered
  PROVE  /\ answered' \subseteq Requests \X {"moved", "replayed", "conflict"}
         /\ \A r \in Requests : AnswerFits(r)'
  BY OthersKeep DEF AnswerFits, StockInv, StockTypes


-----------------------------------------------------------------------------
LEMMA BeginStep ==
  ASSUME StockInv, NEW h \in Handlers, NEW r \in Requests,
         ReceiveTransaction(h, r) \/ ReceiveBatch(h, r)
  PROVE  StockInv'
  <1>1. PICK asked : Planned(r, asked) /\ Begin(h, r, asked)
    <2>1. CASE ReceiveTransaction(h, r)
      BY <2>1 DEF ReceiveTransaction, Planned
    <2>2. CASE ReceiveBatch(h, r)
      <3>1. balance \in Balances
        BY DEF StockInv, StockTypes
      <3>2. Planned(r, BatchPlan(r, balance)) /\ Begin(h, r, BatchPlan(r, balance))
        BY <2>2, <3>1 DEF ReceiveBatch, List, Planned
      <3>3. QED
        BY <3>2
    <2>3. QED
      BY <2>1, <2>2
  <1> DEFINE next == [pc |-> "begun", req |-> r, plan |-> asked, todo |-> asked, after |-> {}, notices |-> {}]
  <1>2. Quiet(h) /\ served'[h] = next /\ UNCHANGED answered
    BY <1>1 DEF Begin, Quiet, StockInv, StockTypes
  <1>3. next \in Handling
    BY <1>1, PlanTypes DEF Handling
  <1>4. /\ next.pc = "begun" /\ next.req = r /\ next.plan = asked /\ next.todo = asked /\ next.after = {}
    OBVIOUS
  <1> HIDE DEF next
  <1>5. HandlerFits(h)'
    BY <1>1, <1>2, <1>4 DEF HandlerFits
  <1>6. \A g \in Handlers \ {h} : Apart(g, h)' /\ Apart(h, g)'
    BY <1>2, <1>4 DEF Apart
  <1>7. QED
    BY <1>2, <1>3, <1>5, <1>6, SameAnswers, QuietStep

\* The key is found unused, by one at a time, or means what it was used for.
LEMMA RecordKeyStep ==
  ASSUME StockInv, NEW h \in Handlers, RecordKey(h)
  PROVE  StockInv'
  <1>1. served[h].pc = "begun" /\ WaitsFor(h) = {}
    BY DEF RecordKey
  <1>2. served[h] # Idle
    BY <1>1 DEF Idle
  <1>3. served[h] \in Handling /\ served[h].req \in Requests
    BY <1>2, AtWork DEF StockInv
  <1>4. \A g \in Handlers \ {h} : served[g].pc = "moving" => KeyOf(g) # KeyOf(h)
    BY <1>1 DEF WaitsFor, InTransaction
  <1>5. HandlerFits(h)
    BY DEF StockInv
  <1>6. CASE recorded[KeyOf(h)] = Unused
    <2>1. Quiet(h) /\ UNCHANGED answered /\ served'[h] = [served[h] EXCEPT !.pc = "moving"]
      BY <1>6 DEF RecordKey, Quiet, StockInv, StockTypes
    <2>2. /\ served'[h] \in Handling /\ served'[h].pc = "moving"
          /\ served'[h].req = served[h].req /\ served'[h].plan = served[h].plan
          /\ served'[h].todo = served[h].todo /\ served'[h].after = served[h].after
      BY <1>3, <2>1 DEF Handling
    <2>3. served[h].after = {} /\ served[h].todo \subseteq served[h].plan
          /\ Planned(served[h].req, served[h].plan)
      BY <1>1, <1>2, <1>5 DEF HandlerFits
    <2>4. KeyOf(h)' = KeyOf(h) /\ \A g \in Handlers \ {h} : KeyOf(g)' = KeyOf(g)
      BY <2>1, <2>2 DEF KeyOf, Quiet
    <2>5. HandlerFits(h)'
      BY <1>6, <2>1, <2>2, <2>3, <2>4 DEF HandlerFits, Reads, Quiet
    <2>6. RowsHeld(h)' = {}
      BY <2>2, <2>3 DEF RowsHeld
    <2>7. ASSUME NEW g \in Handlers \ {h} PROVE Apart(g, h)' /\ Apart(h, g)'
      <3>1. served'[g] = served[g]
        BY <2>1 DEF Quiet
      <3>2. QED
        BY <1>4, <2>2, <2>4, <2>6, <3>1 DEF Apart
    <2>8. QED
      BY <2>1, <2>2, <2>5, <2>7, SameAnswers, QuietStep
  <1>7. CASE recorded[KeyOf(h)] # Unused
    <2>1. Answer(h, KnownKey(h)) /\ UNCHANGED <<balance, audited, recorded, moved, embeds>>
      BY <1>7 DEF RecordKey
    <2>2. Planned(served[h].req, served[h].plan)
      BY <1>2, <1>5 DEF HandlerFits
    <2>3. KnownKey(h) # "conflict" => RecordedFor(served[h].req)
      BY <1>3, <2>2, Prints DEF KnownKey, RecordedFor, KeyOf
    <2>4. KnownKey(h) \in {"moved", "replayed", "conflict"}
      BY DEF KnownKey
    <2>5. QED
      BY <1>2, <2>1, <2>3, <2>4, AnswerStep
  <1>8. QED
    BY <1>6, <1>7

\* A line is written, under the lock of its row, or the transaction is undone.
LEMMA MoveStep ==
  ASSUME StockInv, NEW h \in Handlers, Move(h)
  PROVE  StockInv'
  <1>1. served[h].pc = "moving" /\ WaitsFor(h) = {}
    BY DEF Move, InTransaction
  <1>2. PICK line \in Earliest(served[h].todo) : RunLine(h, line)
    BY DEF Move
  <1>3. served[h] # Idle
    BY <1>1 DEF Idle
  <1>4. /\ served[h] \in Handling /\ served[h].req \in Requests
        /\ served[h].todo \subseteq Lines /\ served[h].after \subseteq Writes
    BY <1>3, AtWork DEF StockInv, Handling
  <1>5. CASE After(line) \notin 0..MaxStock
    BY <1>2, <1>5, RefuseStep DEF RunLine
  <1>6. CASE After(line) \in 0..MaxStock
    <2> DEFINE write == [box |-> line.box, item |-> line.item,
                         before |-> balance[line.box][line.item], after |-> After(line)]
    <2>1. line \in served[h].todo /\ line \in Lines /\ \A m \in served[h].todo : Place(line) <= Place(m)
      BY <1>2, <1>4 DEF Earliest
    <2>2. write \in Writes
      BY <1>6, <2>1 DEF Writes, Lines, StockInv, StockTypes, Balances
    <2>3. write.box = line.box /\ write.item = line.item /\ write.before = balance[write.box][write.item]
      OBVIOUS
    <2>4. /\ Quiet(h) /\ UNCHANGED answered
          /\ served'[h] = [served[h] EXCEPT !.todo = served[h].todo \ {line},
                                            !.after = served[h].after \cup {write}]
      BY <1>2, <1>6 DEF RunLine, Quiet, StockInv, StockTypes
    <2> HIDE DEF write
    <2>5. /\ served'[h] \in Handling /\ served'[h].pc = "moving"
          /\ served'[h].req = served[h].req /\ served'[h].plan = served[h].plan
          /\ served'[h].todo = served[h].todo \ {line}
          /\ served'[h].after = served[h].after \cup {write}
      <3> DEFINE todo == served[h].todo \ {line}
                 after == served[h].after \cup {write}
      <3>1. todo \in SUBSET Lines /\ after \in SUBSET Writes
        BY <1>4, <2>2
      <3> HIDE DEF todo, after
      <3>2. served'[h] = [served[h] EXCEPT !.todo = todo, !.after = after]
        BY <2>4 DEF todo, after
      <3>3. /\ served'[h] \in Handling /\ served'[h].pc = "moving"
            /\ served'[h].req = served[h].req /\ served'[h].plan = served[h].plan
            /\ served'[h].todo = todo /\ served'[h].after = after
        BY <1>1, <1>4, <3>1, <3>2 DEF Handling
      <3>4. QED
        BY <3>3 DEF todo, after
    <2>6. /\ Planned(served[h].req, served[h].plan) /\ served[h].todo \subseteq served[h].plan
          /\ recorded[KeyOf(h)] = Unused /\ Reads(h)
      BY <1>1, <1>3 DEF HandlerFits, StockInv
    <2>7. \A l, m \in served[h].todo : l.box = m.box /\ l.item = m.item => l = m
      BY <1>4, <2>6, PlanTypes
    <2>8. KeyOf(h)' = KeyOf(h) /\ \A g \in Handlers \ {h} : KeyOf(g)' = KeyOf(g)
      BY <2>4, <2>5 DEF KeyOf, Quiet
    <2>9. Reads(h)'
      <3>1. \A a \in served'[h].after : a.before = balance'[a.box][a.item]
        BY <2>3, <2>4, <2>5, <2>6 DEF Reads, Quiet
      <3>2. Place(write) = Place(line)
        BY <2>3 DEF Place
      <3>3. \A a \in served[h].after : Place(a) < Place(line)
        BY <2>1, <2>6 DEF Reads
      <3>4. \A m \in served[h].todo \ {line} : Place(line) < Place(m)
        <4> TAKE m \in served[h].todo \ {line}
        <4>1. m \in Lines /\ Place(line) <= Place(m)
          BY <1>4, <2>1
        <4>2. Place(line) \in Int /\ Place(m) \in Int /\ (Place(line) = Place(m) => line = m)
          BY <2>1, <2>7, <4>1, PlaceOrders DEF Lines
        <4>3. QED
          BY <4>1, <4>2
      <3>5. \A a, c \in served'[h].after : a.box = c.box /\ a.item = c.item => a = c
        <4>1. \A a \in served[h].after : ~(a.box = write.box /\ a.item = write.item)
          <5> TAKE a \in served[h].after
          <5>1. Place(a) < Place(line)
            BY <3>3
          <5>2. Place(line) \in Int
            BY <2>1, PlaceOrders DEF Lines
          <5>3. a.box = write.box /\ a.item = write.item => Place(a) = Place(line)
            BY <2>3 DEF Place
          <5>4. QED
            BY <5>1, <5>2, <5>3
        <4>2. QED
          BY <2>5, <2>6, <4>1 DEF Reads
      <3>6. \A a \in served'[h].after, l \in served'[h].todo : Place(a) < Place(l)
        BY <2>5, <2>6, <3>2, <3>4 DEF Reads
      <3>7. QED
        BY <3>1, <3>5, <3>6 DEF Reads
    <2>10. HandlerFits(h)'
      BY <2>4, <2>5, <2>6, <2>8, <2>9 DEF HandlerFits, Quiet
    <2>11. ASSUME NEW g \in Handlers \ {h} PROVE Apart(g, h)' /\ Apart(h, g)'
      <3>1. served'[g] = served[g] /\ RowsHeld(g)' = RowsHeld(g)
        BY <2>4 DEF Quiet, RowsHeld, InTransaction
      <3>2. RowsHeld(h)' = RowsHeld(h) \cup {line.item}
        BY <1>1, <2>3, <2>5 DEF RowsHeld, InTransaction
      <3>3. line.item \notin RowsHeld(g)
        <4>1. WaitsFor(h) = {f \in Handlers \ {h} : \E l \in Earliest(served[h].todo) : l.item \in RowsHeld(f)}
          BY <1>1 DEF WaitsFor, InTransaction
        <4>2. QED
          BY <1>1, <1>2, <4>1
      <3>4. Apart(g, h) /\ Apart(h, g)
        BY DEF StockInv
      <3>5. QED
        BY <1>1, <2>5, <2>8, <3>1, <3>2, <3>3, <3>4 DEF Apart
    <2>12. QED
      BY <2>4, <2>5, <2>10, <2>11, SameAnswers, QuietStep
  <1>7. QED
    BY <1>5, <1>6


-----------------------------------------------------------------------------
\* What a commit makes visible: the balances it read are still those it adds to.
LEMMA WriteBalances ==
  ASSUME StockInv, NEW h \in Handlers, Write(h)
  PROVE  /\ balance' \in Balances
         /\ audited' \in [Safeboxes -> [Items -> Int]]
         /\ BalanceIsAudited'
         /\ \A b \in Safeboxes, i \in Items : i \notin RowsHeld(h) => balance'[b][i] = balance[b][i]
  <1> DEFINE wrote(b, i) == {a \in served[h].after : a.box = b /\ a.item = i}
             row(b, i) == CHOOSE a \in wrote(b, i) : TRUE
  <1>1. served[h].pc = "moving" /\ served[h] # Idle
    BY DEF Write, InTransaction, Idle
  <1>2. served[h].after \subseteq Writes /\ Reads(h)
    BY <1>1, AtWork DEF StockInv, Handling, HandlerFits
  <1>3. /\ balance \in Balances /\ audited \in [Safeboxes -> [Items -> Int]] /\ MaxStock \in Nat
        /\ \A b \in Safeboxes, i \in Items : balance[b][i] = Stocked[b][i] + audited[b][i]
        /\ \A b \in Safeboxes, i \in Items : Stocked[b][i] \in Int
    BY StockAssumption DEF StockInv, StockTypes, BalanceIsAudited, Safeboxes
  <1>4. /\ balance' = [b \in Safeboxes |-> [i \in Items |->
                         IF wrote(b, i) = {} THEN balance[b][i] ELSE row(b, i).after]]
        /\ audited' = [b \in Safeboxes |-> [i \in Items |->
                         IF wrote(b, i) = {} THEN audited[b][i]
                         ELSE audited[b][i] + row(b, i).after - row(b, i).before]]
    BY DEF Write
  <1>5. ASSUME NEW b \in Safeboxes, NEW i \in Items, wrote(b, i) # {}
        PROVE  /\ row(b, i) \in Writes /\ row(b, i).before = balance[b][i]
               /\ i \in RowsHeld(h)
    <2>1. row(b, i) \in wrote(b, i)
      BY <1>5
    <2>2. row(b, i) \in served[h].after /\ row(b, i).box = b /\ row(b, i).item = i
      BY <2>1
    <2> HIDE DEF row
    <2>3. QED
      BY <1>1, <1>2, <2>2 DEF Reads, RowsHeld, InTransaction
  <1> HIDE DEF wrote, row
  <1>6. ASSUME NEW b \in Safeboxes, NEW i \in Items
        PROVE  /\ balance'[b][i] \in 0..MaxStock /\ audited'[b][i] \in Int
               /\ balance'[b][i] = Stocked[b][i] + audited'[b][i]
               /\ i \notin RowsHeld(h) => balance'[b][i] = balance[b][i]
    <2>1. /\ balance[b][i] \in 0..MaxStock /\ audited[b][i] \in Int /\ Stocked[b][i] \in Int
          /\ balance[b][i] = Stocked[b][i] + audited[b][i]
      BY <1>3 DEF Balances
    <2>2. CASE wrote(b, i) = {}
      <3>1. balance'[b][i] = balance[b][i] /\ audited'[b][i] = audited[b][i]
        BY <1>4, <2>2
      <3>2. QED
        BY <2>1, <3>1
    <2>3. CASE wrote(b, i) # {}
      <3>1. /\ balance'[b][i] = row(b, i).after
            /\ audited'[b][i] = audited[b][i] + row(b, i).after - row(b, i).before
        BY <1>4, <2>3
      <3>2. row(b, i).after \in 0..MaxStock /\ row(b, i).before = balance[b][i] /\ i \in RowsHeld(h)
        BY <1>5, <2>3 DEF Writes
      <3>3. QED
        BY <1>3, <2>1, <3>1, <3>2
    <2>4. QED
      BY <2>2, <2>3
  <1>7. balance' \in Balances /\ audited' \in [Safeboxes -> [Items -> Int]]
    BY <1>4, <1>6 DEF Balances
  <1>8. QED
    BY <1>6, <1>7 DEF BalanceIsAudited

\* What a commit puts on record, and what it leaves to the other handlers.
LEMMA WriteRecord ==
  ASSUME StockInv, NEW h \in Handlers, Write(h), UNCHANGED embeds,
         DOMAIN served' = Handlers, \A g \in Handlers \ {h} : served'[g] = served[g]
  PROVE  /\ DOMAIN recorded' = Keys /\ moved' \in [Keys -> Nat]
         /\ \A k \in Keys : KeyFits(k)' /\ RecordFits(k)'
         /\ recorded'[KeyOf(h)] = Fingerprint(served[h].req, served[h].plan)
         /\ \A g \in Groups : embeds[KeyOf(h)][g] = 0
         /\ \A r \in Requests : RecordedFor(r) \/ r = served[h].req => RecordedFor(r)'
         /\ \A g \in Handlers \ {h} : HandlerFits(g)'
         /\ \A f, g \in Handlers \ {h} : f # g => Apart(f, g)'
         /\ \A g \in Handlers \ {h} : served[g].pc = "notifying" => KeyOf(g) # KeyOf(h)
  <1> DEFINE key == KeyOf(h)
             req == served[h].req
             asked == served[h].plan
  <1>1. served[h].pc = "moving" /\ served[h] # Idle
    BY DEF Write, InTransaction, Idle
  <1>2. req \in Requests /\ key \in Keys /\ key = Request[req].key
    BY <1>1, AtWork DEF StockInv, KeyOf
  <1>3. recorded[key] = Unused /\ Planned(req, asked)
    BY <1>1 DEF StockInv, HandlerFits
  <1>4. KeyFits(key)
    BY <1>2 DEF StockInv
  <1>5. moved[key] = 0 /\ \A g \in Groups : embeds[key][g] = 0
    <2>1. moved[key] = 0
      BY <1>3, <1>4 DEF KeyFits
    <2>2. \A g \in Groups : embeds[key][g] \in Nat /\ ~(embeds[key][g] > 0)
      BY <1>2, <1>3, <1>4 DEF KeyFits, StockInv, StockTypes
    <2>3. QED
      BY <2>1, <2>2
  <1>6. /\ recorded' = [recorded EXCEPT ![key] = Fingerprint(req, asked)]
        /\ moved' = [moved EXCEPT ![key] = @ + 1]
    BY DEF Write
  <1>7. DOMAIN recorded = Keys /\ moved \in [Keys -> Nat]
    BY DEF StockInv, StockTypes
  <1> HIDE DEF key, req, asked
  <1>8. /\ DOMAIN recorded' = Keys /\ moved' \in [Keys -> Nat]
        /\ recorded'[key] = Fingerprint(req, asked) /\ moved'[key] = 1
        /\ \A k \in Keys \ {key} : recorded'[k] = recorded[k] /\ moved'[k] = moved[k]
    BY <1>2, <1>5, <1>6, <1>7
  <1>9. recorded'[key] # Unused /\ recorded'[key].plan = asked
    BY <1>2, <1>8, Prints
  <1>10. ASSUME NEW r \in Requests, RecordedFor(r) \/ r = req PROVE RecordedFor(r)'
    <2>1. CASE r = req
      BY <1>2, <1>3, <1>8, <1>9, <2>1 DEF RecordedFor
    <2>2. CASE RecordedFor(r)
      <3>1. recorded[Request[r].key] # Unused
        BY <2>2, Prints DEF RecordedFor
      <3>2. Request[r].key \in Keys \ {key}
        BY <1>3, <3>1, RequestTypes
      <3>3. QED
        BY <1>8, <2>2, <3>2 DEF RecordedFor
    <2>3. QED
      BY <1>10, <2>1, <2>2
  <1>11. ASSUME NEW k \in Keys PROVE KeyFits(k)' /\ RecordFits(k)'
    <2>1. CASE k = key
      <3>1. KeyFits(k)'
        BY <1>5, <1>8, <1>9, <2>1 DEF KeyFits
      <3>2. RecordFits(k)'
        BY <1>2, <1>10, <2>1 DEF RecordFits
      <3>3. QED
        BY <3>1, <3>2
    <2>2. CASE k # key
      <3>1. KeyFits(k) /\ RecordFits(k) /\ recorded'[k] = recorded[k] /\ moved'[k] = moved[k]
        BY <1>8, <2>2 DEF StockInv
      <3>2. QED
        BY <1>10, <3>1 DEF KeyFits, RecordFits
    <2>3. QED
      BY <2>1, <2>2
  <1>12. ASSUME NEW g \in Handlers \ {h} PROVE HandlerFits(g)'
    <2>1. served'[g] = served[g] /\ HandlerFits(g) /\ Apart(g, h)
      BY DEF StockInv
    <2>2. CASE served[g] = Idle
      BY <2>1, <2>2 DEF HandlerFits
    <2>3. CASE served[g] # Idle
      <3>1. /\ served[g] \in Handling /\ KeyOf(g) \in Keys /\ KeyOf(g)' = KeyOf(g)
        BY <2>1, <2>3, AtWork DEF StockInv, KeyOf
      <3>2. CASE served[g].pc = "begun"
        BY <2>1, <2>3, <3>2 DEF HandlerFits
      <3>3. CASE served[g].pc = "moving"
        <4>1. KeyOf(g) # key /\ RowsHeld(g) \cap RowsHeld(h) = {}
          BY <1>1, <2>1, <3>3 DEF Apart, key
        <4>2. \A a \in served[g].after : a.item \in RowsHeld(g) /\ a.box \in Safeboxes /\ a.item \in Items
          BY <3>1, <3>3 DEF RowsHeld, InTransaction, Handling, Writes
        <4>3. \A a \in served[g].after : balance'[a.box][a.item] = balance[a.box][a.item]
          BY <4>1, <4>2, WriteBalances
        <4>4. Reads(g)'
          BY <2>1, <2>3, <3>3, <4>3 DEF HandlerFits, Reads
        <4>5. recorded'[KeyOf(g)] = Unused
          BY <1>8, <2>1, <2>3, <3>1, <3>3, <4>1 DEF HandlerFits
        <4>6. QED
          BY <2>1, <2>3, <3>1, <3>3, <4>4, <4>5 DEF HandlerFits
      <3>4. CASE served[g].pc = "notifying"
        <4>1. recorded[KeyOf(g)] # Unused
          BY <2>1, <2>3, <3>1, <3>4, Prints DEF HandlerFits, Handling
        <4>2. recorded'[KeyOf(g)] = recorded[KeyOf(g)]
          BY <1>3, <1>8, <3>1, <4>1
        <4>3. QED
          BY <2>1, <2>3, <3>1, <3>4, <4>2 DEF HandlerFits
      <3>5. QED
        BY <3>1, <3>2, <3>3, <3>4 DEF Handling
    <2>4. QED
      BY <2>2, <2>3
  <1>13. \A f, g \in Handlers \ {h} : f # g => Apart(f, g)'
    BY DEF StockInv, Apart, KeyOf, RowsHeld, InTransaction
  <1>14. ASSUME NEW g \in Handlers \ {h}, served[g].pc = "notifying" PROVE KeyOf(g) # key
    <2>1. served[g] # Idle
      BY <1>14 DEF Idle
    <2>2. recorded[KeyOf(g)] # Unused
      BY <1>14, <2>1, AtWork, Prints DEF StockInv, HandlerFits
    <2>3. QED
      BY <1>3, <2>2
  <1>15. QED
    BY <1>5, <1>8, <1>10, <1>11, <1>12, <1>13, <1>14 DEF key, req, asked

\* The commit, answered at once, told to the channels first, or not answered.
LEMMA CommitStep ==
  ASSUME StockInv, NEW h \in Handlers, Commit(h) \/ CommitUncertain(h)
  PROVE  StockInv'
  <1> DEFINE req == served[h].req
  <1>1. Write(h) /\ UNCHANGED embeds
    BY DEF Commit, CommitUncertain
  <1>2. served[h].pc = "moving" /\ served[h] # Idle
    BY <1>1 DEF Write, InTransaction, Idle
  <1>3. /\ served[h] \in Handling /\ req \in Requests /\ Planned(req, served[h].plan)
        /\ served[h].todo \subseteq served[h].plan
    BY <1>2, AtWork DEF StockInv, HandlerFits
  <1>4. DOMAIN served = Handlers /\ answered \subseteq Requests \X {"moved", "replayed", "conflict"}
    BY DEF StockInv, StockTypes
  <1> DEFINE told == [served[h] EXCEPT !.pc = "notifying", !.notices = NoticeGroups(served[h].plan)]
  <1>5. /\ DOMAIN served' = Handlers /\ \A g \in Handlers \ {h} : served'[g] = served[g]
        /\ \/ served'[h] = Idle /\ (answered' = answered \/ answered' = answered \cup {<<req, "moved">>})
           \/ IsCraft(req) /\ served'[h] = told /\ answered' = answered
    BY <1>4 DEF Commit, CommitUncertain, Refuse, Answer
  <1>6. /\ DOMAIN recorded' = Keys /\ moved' \in [Keys -> Nat]
        /\ \A k \in Keys : KeyFits(k)' /\ RecordFits(k)'
        /\ recorded'[KeyOf(h)] = Fingerprint(req, served[h].plan)
        /\ \A g \in Groups : embeds[KeyOf(h)][g] = 0
        /\ \A r \in Requests : RecordedFor(r) \/ r = req => RecordedFor(r)'
        /\ \A g \in Handlers \ {h} : HandlerFits(g)'
        /\ \A f, g \in Handlers \ {h} : f # g => Apart(f, g)'
        /\ \A g \in Handlers \ {h} : served[g].pc = "notifying" => KeyOf(g) # KeyOf(h)
    BY <1>1, <1>5, WriteRecord
  <1>7. ASSUME served'[h] = told
        PROVE  /\ served'[h] \in Handling /\ served'[h].pc = "notifying"
               /\ served'[h].req = req /\ served'[h].plan = served[h].plan
               /\ served'[h].todo = served[h].todo
               /\ served'[h].notices = NoticeGroups(served[h].plan)
    <2> DEFINE groups == NoticeGroups(served[h].plan)
    <2>1. told.pc # Idle.pc
      BY <1>3 DEF Handling, Idle
    <2>2. IsCraft(req)
      BY <1>5, <1>7, <2>1
    <2>3. \A l \in served[h].plan : l.action \in {"deposit", "withdraw"} /\ l.box \in Safeboxes
      <3>1. PICK listed \in Balances : served[h].plan = BatchPlan(req, listed)
        BY <1>3, <2>2 DEF Planned
      <3>2. \A l \in served[h].plan : l.action \in {"deposit", "withdraw"}
        BY <1>3, <2>2, <3>1, BatchLines DEF Line
      <3>3. QED
        BY <1>3, <3>2, PlanTypes DEF Lines
    <2>4. groups \in SUBSET Groups
      BY <2>3 DEF NoticeGroups, Groups
    <2> HIDE DEF groups
    <2>5. served'[h] = [served[h] EXCEPT !.pc = "notifying", !.notices = groups]
      BY <1>7 DEF groups
    <2>6. QED
      BY <1>3, <2>4, <2>5 DEF Handling, groups
  <1> HIDE DEF told, req
  <1>8. StockTypes'
    <2>1. answered' \subseteq Requests \X {"moved", "replayed", "conflict"}
      BY <1>3, <1>4, <1>5
    <2>2. \A g \in Handlers : served'[g] = Idle \/ served'[g] \in Handling
      BY <1>5, <1>7 DEF StockInv, StockTypes
    <2>3. embeds' \in [Keys -> [Groups -> Nat]]
      BY <1>1 DEF StockInv, StockTypes
    <2>4. QED
      BY <1>1, <1>5, <1>6, <2>1, <2>2, <2>3, WriteBalances DEF StockTypes
  <1>9. HandlerFits(h)' /\ \A g \in Handlers \ {h} : Apart(g, h)' /\ Apart(h, g)'
    <2>1. CASE served'[h] = Idle
      BY <2>1, IdleFits
    <2>2. CASE IsCraft(req) /\ served'[h] = told
      <3>1. KeyOf(h)' = KeyOf(h)
        BY <1>7, <2>2 DEF KeyOf, req
      <3>2. HandlerFits(h)'
        BY <1>1, <1>3, <1>6, <1>7, <2>2, <3>1 DEF HandlerFits, NoticeGroups, Handling
      <3>3. ASSUME NEW g \in Handlers \ {h} PROVE Apart(g, h)' /\ Apart(h, g)'
        <4>1. served'[g] = served[g] /\ KeyOf(g)' = KeyOf(g)
          BY <1>5 DEF KeyOf
        <4>2. QED
          BY <1>6, <1>7, <2>2, <3>1, <4>1 DEF Apart
      <3>4. QED
        BY <3>2, <3>3
    <2>3. QED
      BY <1>5, <2>1, <2>2
  <1>10. ASSUME NEW r \in Requests PROVE AnswerFits(r)'
    <2>1. CASE r = req
      BY <1>6, <2>1 DEF AnswerFits
    <2>2. CASE r # req
      <3>1. {<<r, "moved">>, <<r, "replayed">>} \cap answered' \subseteq answered
        BY <1>5, <2>2
      <3>2. QED
        BY <1>6, <3>1 DEF AnswerFits, StockInv
    <2>3. QED
      BY <2>1, <2>2
  <1>11. \A g \in Handlers : HandlerFits(g)'
    BY <1>6, <1>9
  <1>12. \A f, g \in Handlers : f # g => Apart(f, g)'
    BY <1>6, <1>9
  <1>13. BalanceIsAudited'
    BY <1>1, WriteBalances
  <1>14. QED
    BY <1>6, <1>8, <1>10, <1>11, <1>12, <1>13 DEF StockInv


-----------------------------------------------------------------------------
\* An embed is posted or not, and is not tried again.
LEMMA SendNoticeStep ==
  ASSUME StockInv, NEW h \in Handlers, NEW g \in Groups, NEW posted \in BOOLEAN,
         SendNotice(h, g, posted)
  PROVE  StockInv'
  <1> DEFINE key == KeyOf(h)
             rest == served[h].notices \ {g}
  <1>1. served[h].pc = "notifying" /\ served[h] # Idle /\ g \in served[h].notices
    BY DEF SendNotice, Idle
  <1>2. /\ served[h] \in Handling /\ key \in Keys /\ served[h].req \in Requests
        /\ HandlerFits(h) /\ KeyFits(key)
    BY <1>1, AtWork DEF StockInv
  <1>3. /\ recorded[key] = Fingerprint(served[h].req, served[h].plan)
        /\ served[h].notices \subseteq NoticeGroups(served[h].plan)
        /\ \A n \in served[h].notices : embeds[key][n] = 0
    BY <1>1, <1>2 DEF HandlerFits
  <1>4. recorded[key] # Unused /\ recorded[key].plan = served[h].plan
    BY <1>2, <1>3, Prints
  <1>5. /\ DOMAIN served = Handlers /\ embeds \in [Keys -> [Groups -> Nat]]
    BY DEF StockInv, StockTypes
  <1>6. /\ UNCHANGED <<balance, audited, recorded, moved, answered>>
        /\ served' = [served EXCEPT ![h] = [@ EXCEPT !.notices = rest]]
        /\ embeds' = [embeds EXCEPT ![key][g] = @ + 1] \/ embeds' = embeds
    BY DEF SendNotice
  <1>7. rest \in SUBSET Groups
    BY <1>2 DEF Handling
  <1> HIDE DEF key, rest
  <1>8. /\ DOMAIN served' = Handlers /\ \A f \in Handlers \ {h} : served'[f] = served[f]
        /\ served'[h] = [served[h] EXCEPT !.notices = rest]
    BY <1>5, <1>6
  <1>9. /\ served'[h] \in Handling /\ served'[h].pc = "notifying"
        /\ served'[h].req = served[h].req /\ served'[h].plan = served[h].plan
        /\ served'[h].todo = served[h].todo /\ served'[h].notices = rest
    BY <1>1, <1>2, <1>7, <1>8 DEF Handling
  <1>10. /\ embeds' \in [Keys -> [Groups -> Nat]]
         /\ \A k \in Keys \ {key} : embeds'[k] = embeds[k]
         /\ \A n \in Groups \ {g} : embeds'[key][n] = embeds[key][n]
         /\ embeds'[key][g] \in {0, 1}
    <2>1. embeds[key][g] = 0
      BY <1>1, <1>3
    <2>2. QED
      BY <1>2, <1>5, <1>6, <2>1
  <1>11. \A f \in Handlers : KeyOf(f)' = KeyOf(f)
    BY <1>8, <1>9 DEF KeyOf
  <1>12. \A r \in Requests : RecordedFor(r)' <=> RecordedFor(r)
    BY <1>6 DEF RecordedFor
  <1>13. \A k \in Keys : KeyFits(k)' /\ RecordFits(k)'
    <2>1. ASSUME NEW k \in Keys PROVE RecordFits(k)'
      <3>1. RecordFits(k)
        BY DEF StockInv
      <3>2. QED
        BY <1>6, <1>12, <3>1 DEF RecordFits
    <2>2. ASSUME NEW k \in Keys, k # key PROVE KeyFits(k)'
      <3>1. KeyFits(k) /\ embeds'[k] = embeds[k]
        BY <1>10, <2>2 DEF StockInv
      <3>2. QED
        BY <1>6, <3>1 DEF KeyFits
    <2>3. ASSUME NEW k \in Keys, k = key PROVE KeyFits(k)'
      <3>1. moved'[k] = IF recorded'[k] = Unused THEN 0 ELSE 1
        BY <1>2, <1>6, <2>3 DEF KeyFits
      <3>2. ASSUME NEW n \in Groups
            PROVE  /\ embeds'[k][n] <= 1
                   /\ embeds'[k][n] > 0 => n \in NoticeGroups(served[h].plan)
        <4>1. CASE n = g
          BY <1>1, <1>3, <1>10, <2>3, <4>1
        <4>2. CASE n # g
          BY <1>2, <1>4, <1>10, <2>3, <4>2 DEF KeyFits
        <4>3. QED
          BY <4>1, <4>2
      <3>3. recorded'[k] # Unused /\ recorded'[k].plan = served[h].plan
        BY <1>4, <1>6, <2>3
      <3>4. QED
        BY <3>1, <3>2, <3>3 DEF KeyFits
    <2>4. QED
      BY <2>1, <2>2, <2>3
  <1>14. ASSUME NEW f \in Handlers PROVE HandlerFits(f)'
    <2>1. CASE f = h
      <3>1. rest \subseteq served[h].notices /\ g \notin rest
        BY DEF rest
      <3>2. \A n \in rest : embeds'[key][n] = 0
        <4>1. \A n \in rest : n \in Groups \ {g} /\ embeds[key][n] = 0
          BY <1>3, <1>7, <3>1
        <4>2. QED
          BY <1>10, <4>1
      <3>3. QED
        BY <1>1, <1>2, <1>3, <1>6, <1>9, <1>11, <2>1, <3>1, <3>2 DEF HandlerFits, key
    <2>2. CASE f # h
      <3>1. served'[f] = served[f] /\ HandlerFits(f) /\ Apart(f, h)
        BY <1>8, <2>2 DEF StockInv
      <3>2. CASE served[f].pc = "notifying"
        <4>1. KeyOf(f) \in Keys \ {key}
          BY <1>1, <3>1, <3>2, AtWork DEF Apart, StockInv, Idle, key
        <4>2. embeds'[KeyOf(f)] = embeds[KeyOf(f)]
          BY <1>10, <4>1
        <4>3. QED
          BY <1>6, <1>11, <3>1, <3>2, <4>2 DEF HandlerFits
      <3>3. CASE served[f].pc # "notifying"
        BY <1>6, <1>11, <3>1, <3>3 DEF HandlerFits, Reads
      <3>4. QED
        BY <3>2, <3>3
    <2>3. QED
      BY <2>1, <2>2
  <1>15. \A e, f \in Handlers : e # f => Apart(e, f)'
    <2>1. \A f \in Handlers : served'[f].pc = served[f].pc
      BY <1>1, <1>8, <1>9
    <2>2. \A f \in Handlers : served[f].pc = "moving" => RowsHeld(f)' = RowsHeld(f)
      BY <1>1, <1>8 DEF RowsHeld, InTransaction
    <2>3. QED
      BY <1>11, <2>1, <2>2 DEF StockInv, Apart
  <1>16. StockTypes' /\ BalanceIsAudited'
    BY <1>6, <1>8, <1>9, <1>10 DEF StockInv, StockTypes, BalanceIsAudited
  <1>17. \A r \in Requests : AnswerFits(r)'
    BY <1>6, <1>12 DEF StockInv, AnswerFits
  <1>18. QED
    BY <1>13, <1>14, <1>15, <1>16, <1>17 DEF StockInv

LEMMA NotifiedStep ==
  ASSUME StockInv, NEW h \in Handlers, Notified(h)
  PROVE  StockInv'
  <1>1. served[h].pc = "notifying" /\ served[h] # Idle
    BY DEF Notified, Idle
  <1>2. /\ served[h].req \in Requests /\ Planned(served[h].req, served[h].plan)
        /\ recorded[KeyOf(h)] = Fingerprint(served[h].req, served[h].plan)
    BY <1>1, AtWork DEF StockInv, HandlerFits
  <1>3. RecordedFor(served[h].req)
    BY <1>2, Prints DEF RecordedFor, KeyOf
  <1>4. Answer(h, "moved") /\ UNCHANGED <<balance, audited, recorded, moved, embeds>>
    BY DEF Notified
  <1>5. QED
    BY <1>1, <1>3, <1>4, AnswerStep

LEMMA StockStep == StockInv /\ [Next]_vars => StockInv'
  <1> SUFFICES ASSUME StockInv, [Next]_vars PROVE StockInv'
    OBVIOUS
  <1>1. CASE UNCHANGED vars
    <2>1. /\ UNCHANGED <<balance, audited, recorded, moved, embeds>>
          /\ UNCHANGED <<served, answered>>
      BY <1>1 DEF vars
    <2>2. \A h \in Handlers : HandlerFits(h)'
      BY <2>1 DEF StockInv, HandlerFits, Reads, KeyOf
    <2>3. \A g, h \in Handlers : g # h => Apart(g, h)'
      BY <2>1 DEF StockInv, Apart, KeyOf, RowsHeld, InTransaction
    <2>4. \A r \in Requests : (RecordedFor(r)' <=> RecordedFor(r)) /\ AnswerFits(r)'
      BY <2>1 DEF StockInv, AnswerFits, RecordedFor
    <2>5. \A k \in Keys : KeyFits(k)' /\ RecordFits(k)'
      BY <2>1, <2>4 DEF StockInv, KeyFits, RecordFits
    <2>6. StockTypes' /\ BalanceIsAudited'
      BY <2>1 DEF StockInv, StockTypes, BalanceIsAudited
    <2>7. QED
      BY <2>2, <2>3, <2>4, <2>5, <2>6 DEF StockInv
  <1>2. CASE Next
    <2>1. PICK h \in Handlers :
            \/ \E r \in Requests : ReceiveTransaction(h, r) \/ ReceiveBatch(h, r)
            \/ RecordKey(h) \/ Move(h) \/ Commit(h) \/ CommitUncertain(h)
            \/ (\E g \in Groups, posted \in BOOLEAN : SendNotice(h, g, posted)) \/ Notified(h)
            \/ Abandon(h)
      BY <1>2 DEF Next
    <2>2. CASE \E r \in Requests : ReceiveTransaction(h, r) \/ ReceiveBatch(h, r)
      BY <2>2, BeginStep
    <2>3. CASE RecordKey(h)
      BY <2>3, RecordKeyStep
    <2>4. CASE Move(h)
      BY <2>4, MoveStep
    <2>5. CASE Commit(h) \/ CommitUncertain(h)
      BY <2>5, CommitStep
    <2>6. CASE \E g \in Groups, posted \in BOOLEAN : SendNotice(h, g, posted)
      BY <2>6, SendNoticeStep
    <2>7. CASE Notified(h)
      BY <2>7, NotifiedStep
    <2>8. CASE Abandon(h)
      BY <2>8, RefuseStep DEF Abandon
    <2>9. QED
      BY <2>1, <2>2, <2>3, <2>4, <2>5, <2>6, <2>7, <2>8
  <1>3. QED
    BY <1>1, <1>2

LEMMA StockAlways == Spec => []StockInv
  BY StockInitInv, StockStep, PTL DEF Spec

-----------------------------------------------------------------------------
(***************************************************************************)
(* A key moves stock at most once and no embed of its wanted is posted      *)
(* twice, whatever is sent again, at once or after a crash (Transact,      *)
(* ApplyMovements and Notify).                                             *)
(***************************************************************************)
THEOREM KeyCorrect == Spec => []KeyActsOnce
  <1>1. StockInv => KeyActsOnce
    BY DEF StockInv, KeyFits, KeyActsOnce
  <1>2. QED
    BY <1>1, StockAlways, PTL

(***************************************************************************)
(* No two transactions lose a movement to each other: every balance is the *)
(* sum of its audit rows (FOR UPDATE in Transact and ApplyMovements).      *)
(***************************************************************************)
THEOREM AuditCorrect == Spec => []BalanceIsAudited
  <1>1. StockInv => BalanceIsAudited
    BY DEF StockInv
  <1>2. QED
    BY <1>1, StockAlways, PTL

(***************************************************************************)
(* Who is told that his request is done finds it on record, under his name *)
(* and whole: for any recipes, a crafting wanted took what its crafts need, *)
(* however the safeboxes shared it (storeCraftingStock, ApplyMovements).   *)
(***************************************************************************)
THEOREM DoneCorrect == Spec => []DoneIsWhole
  <1>1. StockInv => DoneIsWhole
    <2> SUFFICES ASSUME StockInv, NEW r \in Requests,
                        {<<r, "moved">>, <<r, "replayed">>} \cap answered # {}
                 PROVE  /\ recorded[Request[r].key].kind = Request[r].kind
                        /\ WhollyDone(r, recorded[Request[r].key])
      BY DEF DoneIsWhole
    <2> DEFINE done == recorded[Request[r].key]
    <2>1. done = Fingerprint(r, done.plan) /\ Planned(r, done.plan)
      BY DEF StockInv, AnswerFits, RecordedFor
    <2> HIDE DEF done
    <2>2. done.kind = Request[r].kind /\ done.actor = Request[r].actor
      BY <2>1 DEF Fingerprint
    <2>3. CASE IsCraft(r)
      <3>1. \A i \in Items : \A w \in DOMAIN Request[r].batch :
              /\ Withdrawn(done.plan, i) * Recipe[w].output >= Recipe[w].need[i] * Request[r].batch[w]
              /\ Withdrawn(done.plan, i) = Needed(Request[r].batch, i)
              /\ Line(Request[r].box, w, "deposit", Request[r].batch[w]) \in done.plan
        BY <2>1, <2>3, BatchIsWhole
      <3>2. QED
        BY <2>2, <2>3, <3>1, Zenon DEF WhollyDone, done
    <2>4. CASE ~IsCraft(r)
      BY <2>1, <2>2, <2>4 DEF WhollyDone, Planned, done
    <2>5. QED
      BY <2>3, <2>4
  <1>2. QED
    BY <1>1, StockAlways, PTL


-----------------------------------------------------------------------------
(***************************************************************************)
(* Rings of waiting transactions.  What a stash request has written is in  *)
(* one safebox, so it holds the rows of items before those it waits for.   *)
(***************************************************************************)
OneBox(h) ==
  served[h] # Idle /\ ~IsCraft(served[h].req) =>
    \A a \in served[h].after : a.box = Request[served[h].req].box

\* What a step may make of a handler's request and its writes.
GoesOn(h) ==
  /\ served[h] # Idle /\ served'[h].req = served[h].req
  /\ \A a \in served'[h].after :
       a \in served[h].after \/ \E l \in served[h].todo : a.box = l.box

LEMMA RunLineGoesOn ==
  ASSUME StockInv, NEW h \in Handlers, Move(h), served'[h] # Idle
  PROVE  GoesOn(h)
  <1>1. PICK line \in Earliest(served[h].todo) : RunLine(h, line)
    BY DEF Move
  <1>2. served[h] # Idle /\ line \in served[h].todo
    BY <1>1 DEF Move, InTransaction, Idle, Earliest
  <1>3. served[h] \in Handling /\ DOMAIN served = Handlers
    BY <1>2, AtWork DEF StockInv, StockTypes
  <1> DEFINE write == [box |-> line.box, item |-> line.item,
                       before |-> balance[line.box][line.item], after |-> After(line)]
             todo == served[h].todo \ {line}
             after == served[h].after \cup {write}
  <1>4. served'[h] = [served[h] EXCEPT !.todo = todo, !.after = after]
    BY <1>1, <1>3 DEF RunLine, Refuse
  <1>5. write.box = line.box /\ \A a \in after : a \in served[h].after \/ a = write
    OBVIOUS
  <1> HIDE DEF write, todo, after
  <1>6. served'[h].req = served[h].req /\ served'[h].after = after
    BY <1>3, <1>4 DEF Handling
  <1>7. QED
    BY <1>2, <1>5, <1>6 DEF GoesOn

LEMMA HandlersGoOn ==
  ASSUME StockInv, [Next]_vars, NEW h \in Handlers, served'[h] # Idle
  PROVE  served'[h].after = {} \/ GoesOn(h)
  <1>1. DOMAIN served = Handlers
    BY DEF StockInv, StockTypes
  <1>2. served[h] # Idle => served[h] \in Handling
    BY DEF StockInv, StockTypes
  <1>3. CASE served'[h] = served[h]
    BY <1>3 DEF GoesOn
  <1>4. CASE served'[h] # served[h]
    <2>1. Next
      BY <1>4 DEF vars
    <2>2. PICK f \in Handlers :
            \/ \E r \in Requests : ReceiveTransaction(f, r) \/ ReceiveBatch(f, r)
            \/ RecordKey(f) \/ Move(f) \/ Commit(f) \/ CommitUncertain(f)
            \/ (\E g \in Groups, posted \in BOOLEAN : SendNotice(f, g, posted)) \/ Notified(f)
            \/ Abandon(f)
      BY <2>1 DEF Next
    <2>3. CASE \E r \in Requests : ReceiveTransaction(f, r) \/ ReceiveBatch(f, r)
      <3>0. PICK r \in Requests : \E asked : Begin(f, r, asked)
        BY <2>3 DEF ReceiveTransaction, ReceiveBatch
      <3>1. PICK asked : Begin(f, r, asked)
        BY <3>0
      <3>2. f = h
        BY <1>1, <1>4, <3>1 DEF Begin
      <3>3. QED
        BY <1>1, <3>1, <3>2 DEF Begin
    <2>4. CASE RecordKey(f)
      <3>1. served' = [served EXCEPT ![f] = [@ EXCEPT !.pc = "moving"]]
            \/ served' = [served EXCEPT ![f] = Idle]
        BY <2>4 DEF RecordKey, Answer
      <3>2. f = h /\ served'[h] = [served[h] EXCEPT !.pc = "moving"]
        BY <1>1, <1>4, <3>1
      <3>3. served[h] # Idle
        BY <2>4, <3>2 DEF RecordKey, Idle
      <3>4. QED
        BY <1>2, <3>2, <3>3 DEF GoesOn, Handling
    <2>5. CASE Move(f)
      <3>1. f = h
        BY <1>1, <1>4, <2>5 DEF Move, RunLine, Refuse
      <3>2. QED
        BY <2>5, <3>1, RunLineGoesOn
    <2>6. CASE Commit(f) \/ CommitUncertain(f)
      <3>1. \/ served' = [served EXCEPT ![f] = [@ EXCEPT !.pc = "notifying",
                                                         !.notices = NoticeGroups(served[f].plan)]]
            \/ served' = [served EXCEPT ![f] = Idle]
        BY <2>6 DEF Commit, CommitUncertain, Answer, Refuse
      <3>2. f = h /\ served'[h] = [served[h] EXCEPT !.pc = "notifying",
                                                    !.notices = NoticeGroups(served[h].plan)]
        BY <1>1, <1>4, <3>1
      <3>3. served[h] # Idle
        BY <2>6, <3>2 DEF Commit, CommitUncertain, Write, InTransaction, Idle
      <3>4. QED
        BY <1>2, <3>2, <3>3 DEF GoesOn, Handling
    <2>7. CASE \E g \in Groups, posted \in BOOLEAN : SendNotice(f, g, posted)
      <3>1. PICK g \in Groups, posted \in BOOLEAN : SendNotice(f, g, posted)
        BY <2>7
      <3>2. f = h /\ served'[h] = [served[h] EXCEPT !.notices = served[h].notices \ {g}]
        BY <1>1, <1>4, <3>1 DEF SendNotice
      <3>3. served[h] # Idle
        BY <3>1, <3>2 DEF SendNotice, Idle
      <3>4. QED
        BY <1>2, <3>2, <3>3 DEF GoesOn, Handling
    <2>8. CASE Notified(f) \/ Abandon(f)
      <3>1. served' = [served EXCEPT ![f] = Idle]
        BY <2>8 DEF Notified, Abandon, Answer, Refuse
      <3>2. QED
        BY <1>1, <1>4, <3>1
    <2>9. QED
      BY <2>2, <2>3, <2>4, <2>5, <2>6, <2>7, <2>8
  <1>5. QED
    BY <1>3, <1>4

LEMMA OneBoxAlways == Spec => []\A h \in Handlers : OneBox(h)
  <1>1. Init => \A h \in Handlers : OneBox(h)
    BY DEF Init, OneBox
  <1>2. StockInv /\ (\A h \in Handlers : OneBox(h)) /\ [Next]_vars
          => (\A h \in Handlers : OneBox(h))'
    <2> SUFFICES ASSUME StockInv, \A h \in Handlers : OneBox(h), [Next]_vars,
                        NEW h \in Handlers, served'[h] # Idle, ~IsCraft(served'[h].req),
                        NEW a \in served'[h].after
                 PROVE  a.box = Request[served'[h].req].box
      BY DEF OneBox, IsCraft
    <2>1. GoesOn(h)
      BY HandlersGoOn
    <2>2. CASE a \in served[h].after
      BY <2>1, <2>2 DEF GoesOn, OneBox
    <2>3. CASE a \notin served[h].after
      <3>1. PICK l \in served[h].todo : a.box = l.box
        BY <2>1, <2>3 DEF GoesOn
      <3>2. l \in TransactionPlan(served[h].req)
        BY <2>1, <3>1 DEF GoesOn, StockInv, HandlerFits, Planned
      <3>3. l.box = Request[served[h].req].box
        BY <3>2 DEF TransactionPlan, Line
      <3>4. QED
        BY <2>1, <3>1, <3>3 DEF GoesOn
    <2>4. QED
      BY <2>2, <2>3
  <1>3. QED
    BY <1>1, <1>2, StockAlways, PTL DEF Spec

\* A stash request holds the rows of items before the one it waits for.
LEMMA HoldsEarlier ==
  ASSUME StockInv, NEW h \in Handlers, served[h].pc = "moving", ~IsCraft(served[h].req), OneBox(h),
         NEW l \in served[h].todo, NEW i \in RowsHeld(h)
  PROVE  /\ i \in Items /\ l.item \in Items
         /\ KeyRank[i] < KeyRank[l.item]
  <1>1. served[h] # Idle
    BY DEF Idle
  <1>2. served[h] \in Handling /\ HandlerFits(h)
    BY <1>1, AtWork DEF StockInv
  <1>3. PICK a \in served[h].after : a.item = i
    BY DEF RowsHeld
  <1>4. /\ l \in Lines /\ a \in Writes /\ Place(a) < Place(l)
        /\ l \in TransactionPlan(served[h].req)
    BY <1>1, <1>2 DEF Handling, HandlerFits, Reads, Planned
  <1>5. a.box = l.box
    BY <1>1, <1>4 DEF OneBox, TransactionPlan, Line
  <1>6. Cardinality(Items) \in Nat /\ KeyRank[i] \in Int /\ KeyRank[l.item] \in Int
    BY <1>3, <1>4, RankAssumption, FS_CardinalityType DEF Lines, Writes
  <1>7. QED
    BY <1>3, <1>4, <1>5, <1>6 DEF Place, Lines, Writes

(***************************************************************************)
(* Stash requests never deadlock each other, however many there are and    *)
(* whichever safebox each of them names (the order of Transact's lines).   *)
(***************************************************************************)
THEOREM RingsCorrect == Spec => []RingsNeedABatch
  <1>1. StockInv /\ (\A h \in Handlers : OneBox(h)) => RingsNeedABatch
    <2> SUFFICES ASSUME StockInv, \A h \in Handlers : OneBox(h),
                        NEW C \in SUBSET {h \in Handlers : served[h] # Idle /\ ~IsCraft(served[h].req)},
                        Ring(C)
                 PROVE  FALSE
      BY DEF RingsNeedABatch
    <2> DEFINE bound == Cardinality(Items)
               Stuck(p, l) == /\ p \in C /\ served[p].pc = "moving" /\ l \in served[p].todo
                              /\ \E q \in C : served[q].pc = "moving" /\ l.item \in RowsHeld(q)
               T == {k \in 0..bound : \E p \in C : \E l \in served[p].todo :
                                        Stuck(p, l) /\ k = KeyRank[l.item]}
    <2>1. \A h \in C : h \in Handlers /\ served[h] # Idle /\ ~IsCraft(served[h].req)
      OBVIOUS
    <2>2. bound \in Nat /\ \A i \in Items : KeyRank[i] \in 0..bound
      BY RankAssumption, FS_CardinalityType
    <2>3. ASSUME NEW p \in C PROVE \E q \in C : served[q].pc = "moving" /\ q \in WaitsFor(p)
      BY <2>1 DEF Ring, WaitsFor, InTransaction, RowsHeld
    <2>4. ASSUME NEW p \in C, served[p].pc = "moving"
          PROVE  \E l \in served[p].todo : Stuck(p, l)
      <3>1. PICK q \in C : served[q].pc = "moving" /\ q \in WaitsFor(p)
        BY <2>3
      <3>2. PICK l \in Earliest(served[p].todo) : l.item \in RowsHeld(q)
        BY <2>4, <3>1 DEF WaitsFor, InTransaction
      <3>3. l \in served[p].todo
        BY <3>2 DEF Earliest
      <3>4. QED
        BY <2>4, <3>1, <3>2, <3>3
    <2>5. ASSUME NEW p \in C, NEW l \in served[p].todo, Stuck(p, l)
          PROVE  \E q \in C : \E m \in served[q].todo :
                   /\ Stuck(q, m) /\ KeyRank[l.item] \in 0..bound /\ KeyRank[m.item] \in 0..bound
                   /\ KeyRank[l.item] < KeyRank[m.item]
      <3>1. PICK q \in C : served[q].pc = "moving" /\ l.item \in RowsHeld(q)
        BY <2>5
      <3>2. PICK m \in served[q].todo : Stuck(q, m)
        BY <2>4, <3>1
      <3>3. OneBox(q) /\ q \in Handlers /\ ~IsCraft(served[q].req)
        BY <2>1
      <3>4. l.item \in Items /\ m.item \in Items /\ KeyRank[l.item] < KeyRank[m.item]
        BY <3>1, <3>2, <3>3, HoldsEarlier
      <3>5. QED
        BY <2>2, <3>2, <3>4
    <2> HIDE DEF Stuck, bound
    <2>6. ASSUME NEW k \in T PROVE \E j \in T : k < j
      <3>1. PICK p \in C : \E l \in served[p].todo : Stuck(p, l) /\ k = KeyRank[l.item]
        OBVIOUS
      <3>2. PICK l \in served[p].todo : Stuck(p, l) /\ k = KeyRank[l.item]
        BY <3>1
      <3>3. PICK q \in C : \E m \in served[q].todo :
              Stuck(q, m) /\ KeyRank[m.item] \in 0..bound /\ k < KeyRank[m.item]
        BY <2>5, <3>2
      <3>4. QED
        BY <3>3
    <2>7. T # {}
      <3>1. PICK p \in C : TRUE
        BY DEF Ring
      <3>2. PICK q \in C : served[q].pc = "moving"
        BY <2>3, <3>1
      <3>3. PICK l \in served[q].todo : Stuck(q, l)
        BY <2>4, <3>2
      <3>4. PICK s \in C : \E m \in served[s].todo : Stuck(s, m) /\ KeyRank[m.item] \in 0..bound
        BY <2>5, <3>3
      <3>5. QED
        BY <3>4
    <2>8. PICK k \in T : \A j \in T : j <= k
      <3>1. T \in SUBSET (0..bound)
        OBVIOUS
      <3> HIDE DEF T
      <3>2. QED
        BY <2>2, <2>7, <3>1, NoEndlessClimb
    <2>9. QED
      BY <2>2, <2>6, <2>8
  <1>2. QED
    BY <1>1, StockAlways, OneBoxAlways, PTL

-----------------------------------------------------------------------------
Row == [values : Values, version : Nat]
Log == Seq([before : Values, after : Values, shown : Values])
Edit == [at : {"entry", "unit", "commit"}, entry : Entries, form : Row, values : Values,
         before : Row \cup {Unread}]

PriceTypes ==
  /\ entries \in [Entries -> Row]
  /\ lists \in [Editors -> [Entries -> Row]]
  /\ DOMAIN edits = Editors
  /\ \A e \in Editors : edits[e] = NoEdit \/ edits[e] \in Edit
  /\ priceAudit \in [Entries -> Log]

\* A row that was read earlier: if its version is the present one, all of it is.
Earlier(row, x) ==
  /\ row.version <= entries[x].version
  /\ row.version = entries[x].version => row = entries[x]

EditFits(e) ==
  edits[e] # NoEdit =>
    /\ Earlier(edits[e].form, edits[e].entry)
    /\ Trimmed[edits[e].values.unit] = edits[e].values.unit
    /\ edits[e].at # "entry" =>
         /\ edits[e].before = entries[edits[e].entry]
         /\ edits[e].form = entries[edits[e].entry]
    /\ edits[e].at = "commit" =>
         /\ edits[e].values # entries[edits[e].entry].values
         /\ ~Taken(edits[e].entry, edits[e].values.unit)

\* The lock of the table.
OnOtherTables(e, f) ==
  edits[e] # NoEdit /\ edits[f] # NoEdit =>
    Home[edits[e].entry].table # Home[edits[f].entry].table

PriceInv ==
  /\ PriceTypes
  /\ \A e \in Editors : EditFits(e)
  /\ \A e, f \in Editors : e # f => OnOtherTables(e, f)
  /\ \A e \in Editors, x \in Entries : Earlier(lists[e][x], x)
  /\ PricesAreAudited

-----------------------------------------------------------------------------
LEMMA EditorAtWork ==
  ASSUME PriceTypes, NEW e \in Editors, edits[e] # NoEdit
  PROVE  edits[e] \in Edit
  BY DEF PriceTypes

LEMMA NoEditIsIdle ==
  ASSUME NEW e
  PROVE  edits[e].at # "none" => edits[e] # NoEdit
  BY DEF NoEdit

LEMMA PriceInitInv == PriceInit => PriceInv
  <1> SUFFICES ASSUME PriceInit PROVE PriceInv
    OBVIOUS
  <1>1. \A x \in Entries : Fresh[x] = [values |-> Original[x], version |-> 1] /\ Fresh[x] \in Row
    BY ValuesAssumption DEF Fresh, Row
  <1>2. entries = Fresh /\ Fresh \in [Entries -> Row]
    BY <1>1 DEF PriceInit, Fresh
  <1>3. PriceTypes
    BY <1>2 DEF PriceInit, PriceTypes, Log
  <1>4. \A x, y \in Entries :
          x # y /\ Home[y] = Home[x]
            => Folded[Trimmed[Original[y].unit]] # Folded[Trimmed[Original[x].unit]]
    BY SeedAssumption
  <1>5. ASSUME NEW x \in Entries PROVE EntryIsAudited(x)
    <2>1. Len(priceAudit[x]) = 0
      BY DEF PriceInit
    <2>2. ~Taken(x, Trimmed[entries[x].values.unit])
      BY <1>1, <1>2, <1>4 DEF Taken
    <2>3. QED
      BY <1>1, <1>2, <2>1, <2>2 DEF EntryIsAudited, ValuesAfter
  <1>6. \A e \in Editors, x \in Entries : Earlier(lists[e][x], x)
    BY <1>1, <1>2 DEF PriceInit, Earlier, Row
  <1>7. (\A e \in Editors : EditFits(e)) /\ \A e, f \in Editors : OnOtherTables(e, f)
    BY DEF PriceInit, EditFits, OnOtherTables
  <1>8. QED
    BY <1>3, <1>5, <1>6, <1>7 DEF PriceInv, PricesAreAudited

-----------------------------------------------------------------------------
\* Steps of one editor that write no entry.
Unwritten(e) ==
  /\ UNCHANGED <<entries, priceAudit>>
  /\ DOMAIN edits' = Editors
  /\ \A f \in Editors \ {e} : edits'[f] = edits[f]

LEMMA UnwrittenStep ==
  ASSUME PriceInv, NEW e \in Editors, Unwritten(e),
         edits'[e] = NoEdit \/ edits'[e] \in Edit,
         EditFits(e)',
         \A f \in Editors \ {e} : OnOtherTables(e, f)' /\ OnOtherTables(f, e)',
         UNCHANGED lists \/ lists' = [lists EXCEPT ![e] = entries]
  PROVE  PriceInv'
  <1>1. PriceTypes'
    BY DEF PriceInv, PriceTypes, Unwritten
  <1>2. ASSUME NEW f \in Editors PROVE EditFits(f)'
    <2>1. CASE f # e
      BY <2>1 DEF PriceInv, Unwritten, EditFits, Earlier, Taken
    <2>2. QED
      BY <2>1
  <1>3. \A f, g \in Editors : f # g => OnOtherTables(f, g)'
    BY DEF PriceInv, Unwritten, OnOtherTables
  <1>4. \A f \in Editors, x \in Entries : Earlier(lists[f][x], x)'
    <2>1. \A x \in Entries : entries[x].version \in Nat
      BY DEF PriceInv, PriceTypes, Row
    <2>2. \A f \in Editors, x \in Entries :
            lists'[f][x] = lists[f][x] \/ lists'[f][x] = entries[x]
      BY DEF PriceInv, PriceTypes
    <2>3. QED
      BY <2>1, <2>2 DEF Unwritten, Earlier, PriceInv
  <1>5. PricesAreAudited'
    BY DEF PriceInv, Unwritten, PricesAreAudited, EntryIsAudited, ValuesAfter, Taken
  <1>6. QED
    BY <1>1, <1>2, <1>3, <1>4, <1>5 DEF PriceInv

LEMMA GivesUpStep ==
  ASSUME PriceInv, NEW e \in Editors, Unwritten(e), edits'[e] = NoEdit, UNCHANGED lists
  PROVE  PriceInv'
  <1>1. EditFits(e)' /\ \A f \in Editors : OnOtherTables(e, f)' /\ OnOtherTables(f, e)'
    BY DEF EditFits, OnOtherTables
  <1>2. QED
    BY <1>1, UnwrittenStep

LEMMA ListPricesStep ==
  ASSUME PriceInv, NEW e \in Editors, ListPrices(e)
  PROVE  PriceInv'
  <1>1. Unwritten(e) /\ edits'[e] = edits[e] /\ lists' = [lists EXCEPT ![e] = entries]
    BY DEF ListPrices, Unwritten, PriceInv, PriceTypes
  <1>2. edits[e] = NoEdit \/ edits[e] \in Edit
    BY DEF PriceInv, PriceTypes
  <1>3. edits'[e] = NoEdit
    BY <1>1, <1>2 DEF ListPrices, Editing, Edit
  <1>4. EditFits(e)' /\ \A f \in Editors : OnOtherTables(e, f)' /\ OnOtherTables(f, e)'
    BY <1>3 DEF EditFits, OnOtherTables
  <1>5. QED
    BY <1>1, <1>3, <1>4, UnwrittenStep

LEMMA SendUpdateStep ==
  ASSUME PriceInv, NEW e \in Editors, NEW x \in Entries, NEW values \in Entered,
         SendUpdate(e, x, values)
  PROVE  PriceInv'
  <1> DEFINE form == lists[e][x]
             entered == [values EXCEPT !.unit = Trimmed[values.unit]]
             next == [at |-> "entry", entry |-> x, form |-> form, values |-> entered, before |-> Unread]
  <1>1. Unwritten(e) /\ edits'[e] = next /\ UNCHANGED lists
    BY DEF SendUpdate, Sends, Unwritten, PriceInv, PriceTypes
  <1>2. entered \in Values /\ Trimmed[entered.unit] = entered.unit
    BY ValuesAssumption, UnitAssumption DEF Values
  <1>3. form \in Row /\ Earlier(form, x)
    BY DEF PriceInv, PriceTypes
  <1> HIDE DEF form, entered
  <1>4. next \in Edit /\ next.at = "entry" /\ next.entry = x /\ next.form = form /\ next.values = entered
    BY <1>2, <1>3 DEF Edit
  <1> HIDE DEF next
  <1>5. EditFits(e)'
    BY <1>1, <1>2, <1>3, <1>4 DEF EditFits, Unwritten, Earlier
  <1>6. ASSUME NEW f \in Editors \ {e} PROVE OnOtherTables(e, f)' /\ OnOtherTables(f, e)'
    <2>1. edits'[f] = edits[f] /\ edits'[e].entry = x
      BY <1>1, <1>4 DEF Unwritten
    <2>2. edits[f] # NoEdit => Editing(f)
      BY EditorAtWork DEF PriceInv, Editing, Edit
    <2>3. QED
      BY <2>1, <2>2 DEF OnOtherTables, SendUpdate
  <1>7. QED
    BY <1>1, <1>4, <1>5, <1>6, UnwrittenStep


\* An edit goes on to its next statement, with what it has read.
LEMMA GoesOnStep ==
  ASSUME PriceInv, NEW e \in Editors, Unwritten(e), edits[e] # NoEdit, UNCHANGED lists,
         edits'[e] \in Edit, edits'[e].entry = edits[e].entry, EditFits(e)'
  PROVE  PriceInv'
  <1>1. \A f \in Editors \ {e} : OnOtherTables(e, f)' /\ OnOtherTables(f, e)'
    BY DEF PriceInv, Unwritten, OnOtherTables
  <1>2. QED
    BY <1>1, UnwrittenStep

LEMMA LockEntryStep ==
  ASSUME PriceInv, NEW e \in Editors, LockEntry(e)
  PROVE  PriceInv'
  <1> DEFINE x == edits[e].entry
             row == entries[x]
  <1>1. edits[e].at = "entry" /\ edits[e] # NoEdit
    BY DEF LockEntry, NoEdit
  <1>2. edits[e] \in Edit /\ x \in Entries /\ row \in Row /\ EditFits(e)
    BY <1>1 DEF PriceInv, PriceTypes, Edit
  <1>3. Unwritten(e) /\ UNCHANGED lists
    BY DEF LockEntry, Unwritten, PriceInv, PriceTypes
  <1>4. CASE Refused(edits[e])
    <2>1. edits'[e] = NoEdit
      BY <1>4 DEF LockEntry, PriceInv, PriceTypes
    <2>2. QED
      BY <1>3, <2>1, GivesUpStep
  <1>5. CASE ~Refused(edits[e])
    <2>1. edits'[e] = [edits[e] EXCEPT !.at = "unit", !.before = row]
      BY <1>5 DEF LockEntry, PriceInv, PriceTypes
    <2>2. edits[e].form = row
      BY <1>1, <1>2, <1>5 DEF Refused, EditFits, Earlier
    <2>3. Trimmed[edits[e].values.unit] = edits[e].values.unit
      BY <1>1, <1>2 DEF EditFits
    <2> HIDE DEF row
    <2>4. /\ edits'[e] \in Edit /\ edits'[e].at = "unit" /\ edits'[e].before = row
          /\ edits'[e].entry = edits[e].entry /\ edits'[e].form = edits[e].form
          /\ edits'[e].values = edits[e].values
      BY <1>2, <2>1 DEF Edit
    <2>5. row.version \in Nat /\ entries' = entries /\ row = entries[x]
      BY <1>2, <1>3 DEF Row, Unwritten, row
    <2>6. EditFits(e)'
      BY <2>2, <2>3, <2>4, <2>5 DEF EditFits, Earlier
    <2>7. QED
      BY <1>1, <1>3, <2>4, <2>6, GoesOnStep
  <1>6. QED
    BY <1>4, <1>5

LEMMA CheckUnitStep ==
  ASSUME PriceInv, NEW e \in Editors, CheckUnit(e)
  PROVE  PriceInv'
  <1> DEFINE x == edits[e].entry
             unit == edits[e].values.unit
  <1>1. edits[e].at = "unit" /\ edits[e] # NoEdit
    BY DEF CheckUnit, NoEdit
  <1>2. edits[e] \in Edit /\ EditFits(e)
    BY <1>1 DEF PriceInv, PriceTypes
  <1>3. Unwritten(e) /\ UNCHANGED lists
    BY DEF CheckUnit, Unwritten, PriceInv, PriceTypes
  <1>4. CASE Taken(x, unit) \/ edits[e].before.values = edits[e].values
    <2>1. edits'[e] = NoEdit
      BY <1>4 DEF CheckUnit, PriceInv, PriceTypes
    <2>2. QED
      BY <1>3, <2>1, GivesUpStep
  <1>5. CASE ~(Taken(x, unit) \/ edits[e].before.values = edits[e].values)
    <2>1. edits'[e] = [edits[e] EXCEPT !.at = "commit"]
      BY <1>5 DEF CheckUnit, PriceInv, PriceTypes
    <2>2. /\ edits'[e] \in Edit /\ edits'[e].at = "commit" /\ edits'[e].before = edits[e].before
          /\ edits'[e].entry = edits[e].entry /\ edits'[e].form = edits[e].form
          /\ edits'[e].values = edits[e].values
      BY <1>2, <2>1 DEF Edit
    <2>3. ~Taken(x, unit)' /\ entries' = entries
      BY <1>3, <1>5, <2>2 DEF Unwritten, Taken
    <2>4. EditFits(e)'
      BY <1>1, <1>2, <1>5, <2>2, <2>3 DEF EditFits, Earlier
    <2>5. QED
      BY <1>1, <1>3, <2>2, <2>4, GoesOnStep
  <1>6. QED
    BY <1>4, <1>5

-----------------------------------------------------------------------------
\* A row is added to the log of the entry, and leads on from the last one.
LEMMA CommitIsAudited ==
  ASSUME PriceInv, NEW e \in Editors, CommitEdit(e), NEW x, x = edits[e].entry
  PROVE  /\ x \in Entries /\ entries[x] \in Row
         /\ PriceTypes' /\ EntryIsAudited(x)'
         /\ \A y \in Entries \ {x} : entries'[y] = entries[y] /\ priceAudit'[y] = priceAudit[y]
         /\ entries'[x] = [values |-> edits[e].values, version |-> entries[x].version + 1]
         /\ ~Taken(x, edits[e].values.unit)
         /\ Trimmed[edits[e].values.unit] = edits[e].values.unit
  <1> DEFINE new == edits[e].values
             old == entries[x].values
             log == priceAudit[x]
             step == [before |-> edits[e].before.values, after |-> new,
                      shown |-> edits[e].form.values]
             row == [values |-> new, version |-> entries[x].version + 1]
  <1>1. edits[e].at = "commit" /\ edits[e] # NoEdit
    BY DEF CommitEdit, NoEdit
  <1>2. edits[e] \in Edit /\ EditFits(e)
    BY <1>1 DEF PriceInv, PriceTypes
  <1>3. x \in Entries /\ new \in Values /\ entries[x] \in Row /\ log \in Log
    BY <1>2 DEF Edit, PriceInv, PriceTypes
  <1>4. /\ edits[e].before = entries[x] /\ edits[e].form = entries[x]
        /\ new # old /\ ~Taken(x, new.unit) /\ Trimmed[new.unit] = new.unit
    BY <1>1, <1>2 DEF EditFits
  <1>5. step = [before |-> old, after |-> new, shown |-> old] /\ old \in Values
    BY <1>3, <1>4 DEF Row
  <1>6. row \in Row
    BY <1>3 DEF Row
  <1>7. /\ entries' = [entries EXCEPT ![x] = row]
        /\ priceAudit' = [priceAudit EXCEPT ![x] = Append(log, step)]
        /\ edits' = [edits EXCEPT ![e] = NoEdit] /\ lists' = lists
    BY DEF CommitEdit
  <1> HIDE DEF row, step
  <1>8. /\ step.before = old /\ step.after = new /\ step.shown = old
        /\ step \in [before : Values, after : Values, shown : Values]
    BY <1>3, <1>5
  <1>9. /\ Append(log, step) \in Log /\ Len(log) \in Nat
        /\ Len(Append(log, step)) = Len(log) + 1
        /\ Append(log, step)[Len(log) + 1] = step
        /\ \A i \in 1..Len(log) : Append(log, step)[i] = log[i]
    BY <1>3, <1>8 DEF Log
  <1>10. PriceTypes'
    BY <1>3, <1>6, <1>7, <1>9 DEF PriceInv, PriceTypes
  <1>11. /\ \A y \in Entries \ {x} : entries'[y] = entries[y] /\ priceAudit'[y] = priceAudit[y]
         /\ entries'[x] = row /\ priceAudit'[x] = Append(log, step)
    BY <1>3, <1>7 DEF PriceInv, PriceTypes
  <1>12. EntryIsAudited(x)
    BY <1>3 DEF PriceInv, PricesAreAudited
  <1>13. /\ entries[x].version = 1 + Len(log) /\ old = ValuesAfter(x, Len(log))
         /\ \A i \in 1..Len(log) : /\ log[i].before = ValuesAfter(x, i - 1)
                                   /\ log[i].shown = log[i].before
                                   /\ log[i].after # log[i].before
    BY <1>12 DEF EntryIsAudited
  <1>14. PICK n \in Nat : n = Len(log)
    BY <1>9
  <1>15. /\ \A i \in 0..n : ValuesAfter(x, i)' = ValuesAfter(x, i)
         /\ ValuesAfter(x, n + 1)' = new
    <2>1. ASSUME NEW i \in 1..n PROVE priceAudit'[x][i] = priceAudit[x][i]
      BY <1>9, <1>11, <1>14
    <2>2. priceAudit'[x][n + 1].after = new
      BY <1>8, <1>9, <1>11, <1>14
    <2>3. QED
      BY <2>1, <2>2 DEF ValuesAfter
  <1>16. EntryIsAudited(x)'
    <2>1. Len(priceAudit'[x]) = n + 1
      BY <1>9, <1>11, <1>14
    <2>2. ASSUME NEW i \in 1..(n + 1)
          PROVE  /\ priceAudit'[x][i].before = ValuesAfter(x, i - 1)'
                 /\ priceAudit'[x][i].shown = priceAudit'[x][i].before
                 /\ priceAudit'[x][i].after # priceAudit'[x][i].before
      <3>1. CASE i = n + 1
        <4>1. priceAudit'[x][i] = step /\ i - 1 = n
          BY <1>9, <1>11, <1>14, <3>1
        <4>2. ValuesAfter(x, i - 1)' = ValuesAfter(x, n)
          BY <1>15, <4>1
        <4>3. QED
          BY <1>4, <1>8, <1>13, <1>14, <4>1, <4>2
      <3>2. CASE i # n + 1
        <4>1. i \in 1..n /\ i - 1 \in 0..n
          BY <3>2
        <4>2. priceAudit'[x][i] = log[i]
          BY <1>9, <1>11, <1>14, <4>1
        <4>3. ValuesAfter(x, i - 1)' = ValuesAfter(x, i - 1)
          BY <1>15, <4>1
        <4>4. QED
          BY <1>13, <1>14, <4>1, <4>2, <4>3
      <3>3. QED
        BY <3>1, <3>2
    <2>3. entries'[x] = [values |-> new, version |-> 1 + (n + 1)]
      BY <1>9, <1>11, <1>13, <1>14 DEF row
    <2>4. ~Taken(x, Trimmed[entries[x].values.unit])'
      BY <1>4, <1>11, <2>3 DEF Taken
    <2>5. entries'[x] = [values |-> ValuesAfter(x, n + 1)', version |-> 1 + (n + 1)]
      BY <1>15, <2>3
    <2>6. QED
      BY <2>1, <2>2, <2>4, <2>5 DEF EntryIsAudited
  <1>17. QED
    BY <1>3, <1>4, <1>10, <1>11, <1>16 DEF row

LEMMA CommitEditStep ==
  ASSUME PriceInv, NEW e \in Editors, CommitEdit(e)
  PROVE  PriceInv'
  <1>1. PICK x : x = edits[e].entry
    OBVIOUS
  <1>2. /\ x \in Entries /\ entries[x] \in Row
        /\ PriceTypes' /\ EntryIsAudited(x)'
        /\ \A y \in Entries \ {x} : entries'[y] = entries[y] /\ priceAudit'[y] = priceAudit[y]
        /\ entries'[x] = [values |-> edits[e].values, version |-> entries[x].version + 1]
        /\ ~Taken(x, edits[e].values.unit)
        /\ Trimmed[edits[e].values.unit] = edits[e].values.unit
    BY <1>1, CommitIsAudited
  <1>3. /\ edits[e] # NoEdit /\ DOMAIN edits = Editors
        /\ edits' = [edits EXCEPT ![e] = NoEdit] /\ lists' = lists
    BY DEF CommitEdit, NoEdit, PriceInv, PriceTypes
  <1>4. edits'[e] = NoEdit /\ \A f \in Editors \ {e} : edits'[f] = edits[f]
    BY <1>3
  <1>5. ASSUME NEW y \in Entries, NEW row, Earlier(row, y), row \in Row
        PROVE  Earlier(row, y)'
    <2>1. CASE y = x
      <3>1. row.version \in Nat /\ entries[x].version \in Nat
        BY <1>2, <1>5 DEF Row
      <3>2. entries'[x].version = entries[x].version + 1
        BY <1>2
      <3>3. QED
        BY <1>5, <2>1, <3>1, <3>2 DEF Earlier
    <2>2. CASE y # x
      BY <1>2, <1>5, <2>2 DEF Earlier
    <2>3. QED
      BY <2>1, <2>2
  <1>6. \A f \in Editors, y \in Entries : Earlier(lists[f][y], y)'
    BY <1>3, <1>5 DEF PriceInv, PriceTypes, Earlier
  <1>7. ASSUME NEW f \in Editors PROVE EditFits(f)'
    <2>1. CASE f = e
      BY <1>4, <2>1 DEF EditFits
    <2>2. CASE f # e /\ edits[f] # NoEdit
      <3>1. edits'[f] = edits[f] /\ edits[f] \in Edit /\ EditFits(f) /\ OnOtherTables(e, f)
        BY <1>4, <2>2 DEF PriceInv, PriceTypes
      <3>2. Home[edits[f].entry].table # Home[x].table
        BY <1>1, <1>3, <2>2, <3>1 DEF OnOtherTables
      <3>3. /\ edits[f].entry \in Entries \ {x} /\ edits[f].form \in Row
            /\ entries'[edits[f].entry] = entries[edits[f].entry]
        BY <1>2, <3>1, <3>2 DEF Edit
      <3>4. Earlier(edits[f].form, edits[f].entry)
        BY <2>2, <3>1 DEF EditFits
      <3>5. Earlier(edits[f].form, edits[f].entry)'
        BY <3>1, <3>3, <3>4 DEF Earlier
      <3>6. Taken(edits[f].entry, edits[f].values.unit)'
              <=> Taken(edits[f].entry, edits[f].values.unit)
        BY <1>2, <3>1, <3>2, <3>3 DEF Taken
      <3>7. QED
        BY <2>2, <3>1, <3>3, <3>5, <3>6 DEF EditFits
    <2>3. CASE f # e /\ edits[f] = NoEdit
      BY <1>4, <2>3 DEF EditFits
    <2>4. QED
      BY <2>1, <2>2, <2>3
  <1>8. \A f, g \in Editors : f # g => OnOtherTables(f, g)'
    BY <1>3, <1>4 DEF PriceInv, OnOtherTables
  <1>9. ASSUME NEW y \in Entries, y # x PROVE EntryIsAudited(y)'
    <2>1. EntryIsAudited(y) /\ entries'[y] = entries[y] /\ priceAudit'[y] = priceAudit[y]
      BY <1>2, <1>9 DEF PriceInv, PricesAreAudited
    <2>2. ~Taken(y, Trimmed[entries[y].values.unit])'
      <3>1. ~Taken(y, Trimmed[entries[y].values.unit])
        BY <2>1 DEF EntryIsAudited
      <3>2. Home[x] = Home[y] =>
              Folded[Trimmed[entries'[x].values.unit]] # Folded[Trimmed[entries[y].values.unit]]
        BY <1>2, <1>9 DEF Taken
      <3>3. QED
        BY <1>2, <2>1, <3>1, <3>2 DEF Taken
    <2>3. QED
      BY <2>1, <2>2 DEF EntryIsAudited, ValuesAfter
  <1>10. QED
    BY <1>2, <1>3, <1>6, <1>7, <1>8, <1>9 DEF PriceInv, PricesAreAudited

LEMMA PriceStep == PriceInv /\ [PriceNext]_priceVars => PriceInv'
  <1> SUFFICES ASSUME PriceInv, [PriceNext]_priceVars PROVE PriceInv'
    OBVIOUS
  <1>1. CASE UNCHANGED priceVars
    <2>1. UNCHANGED <<entries, priceAudit>> /\ UNCHANGED <<lists, edits>>
      BY <1>1 DEF priceVars
    <2>2. PriceTypes' /\ \A e, f \in Editors : e # f => OnOtherTables(e, f)'
      BY <2>1 DEF PriceInv, PriceTypes, OnOtherTables
    <2>3. /\ \A e \in Editors : EditFits(e)'
          /\ \A e \in Editors, x \in Entries : Earlier(lists[e][x], x)'
      BY <2>1 DEF PriceInv, EditFits, Earlier, Taken
    <2>4. PricesAreAudited'
      BY <2>1 DEF PriceInv, PricesAreAudited, EntryIsAudited, ValuesAfter, Taken
    <2>5. QED
      BY <2>2, <2>3, <2>4 DEF PriceInv
  <1>2. CASE PriceNext
    <2>1. PICK e \in Editors :
            \/ ListPrices(e)
            \/ \E x \in Entries, values \in Entered : SendUpdate(e, x, values)
            \/ LockEntry(e) \/ CheckUnit(e) \/ CommitEdit(e) \/ RollBackEdit(e)
      BY <1>2 DEF PriceNext
    <2>2. CASE RollBackEdit(e)
      <3>1. Unwritten(e) /\ edits'[e] = NoEdit /\ UNCHANGED lists
        BY <2>2 DEF RollBackEdit, Unwritten, PriceInv, PriceTypes
      <3>2. QED
        BY <3>1, GivesUpStep
    <2>3. QED
      BY <2>1, <2>2, ListPricesStep, SendUpdateStep, LockEntryStep, CheckUnitStep, CommitEditStep
  <1>3. QED
    BY <1>1, <1>2

-----------------------------------------------------------------------------
(***************************************************************************)
(* The audits tell the whole history: of every balance of the safeboxes,   *)
(* whichever requests and handlers there are, and of every price, however  *)
(* its editors overtake each other; and no two entries of a partner and    *)
(* item get the same unit (Transact, ApplyMovements, Repository.Update).   *)
(***************************************************************************)
THEOREM AuditsCorrect == MCSpec => []AuditsAreWhole
  <1>1. MCInit => StockInv /\ PriceInv
    BY StockInitInv, PriceInitInv DEF MCInit
  <1>2. StockInv /\ PriceInv /\ [MCNext]_<<vars, craftVars, priceVars, process>>
          => StockInv' /\ PriceInv'
    <2>1. [MCNext]_<<vars, craftVars, priceVars, process>> => [Next]_vars /\ [PriceNext]_priceVars
      BY Zenon DEF MCNext
    <2>2. QED
      BY <2>1, StockStep, PriceStep
  <1>3. StockInv /\ PriceInv => AuditsAreWhole
    BY DEF StockInv, PriceInv, AuditsAreWhole
  <1>4. QED
    BY <1>1, <1>2, <1>3, PTL DEF MCSpec

-----------------------------------------------------------------------------
(***************************************************************************)
(* The crafting plans.  PlanInv is inductive.  While nothing excuses a     *)
(* surprise there is one panel and one interaction at a time, a result on  *)
(* the panel is the stored plan unless that is gone, and a post under way  *)
(* has fetched what its panel shows.  What is lapsed and can be fetched    *)
(* again was revived.                                                      *)
(***************************************************************************)
PlanFields == {"stored", "items", "expires"}
ClickFields == {"kind", "stage", "panel", "items", "lapsed", "product", "number"}
PanelFields == {"view", "items", "seen"}
PlanLike(d) == d = [f \in PlanFields |-> d[f]]
PanelLike(m) == m = [f \in PanelFields |-> m[f]]

CraftTypes ==
  /\ clock \in Nat /\ PlanLike(plan) /\ plan.expires \in Nat
  /\ panels \in Seq({panels[b] : b \in DOMAIN panels})
  /\ \A b \in DOMAIN panels : PanelLike(panels[b])
  /\ DOMAIN workers = Workers
  /\ \A h \in Workers : workers[h] # Free =>
       /\ workers[h] = [f \in ClickFields |-> workers[h][f]]
       /\ workers[h].panel \in DOMAIN panels
       /\ workers[h].kind = "builder" => workers[h].stage \in {"clear", "remove", "upsert", "list", "show"}
       /\ workers[h].kind = "calculate" => workers[h].stage \in {"read", "show"}
       /\ workers[h].kind = "post" => workers[h].stage \in {"read", "post", "show"}
       /\ workers[h].kind \in {"builder", "calculate", "post"}
  /\ unsure \in BOOLEAN

\* A panel shows the plan, unless the plan is gone.
Synced(draft, items) == draft.items \in {items, Nothing}
\* What a click under way has to do with the draft and the panel.
Fits(w, draft, panel) ==
  /\ w.kind = "post" /\ w.stage = "read" => Synced(draft, panel.items)
  /\ w.stage = "post" => w.items = panel.items
  /\ w.kind = "calculate" /\ w.stage = "show" => Synced(draft, w.items)
Alone(h) ==
  workers[h] # Free => /\ \A g \in Workers : workers[g] # Free => g = h
                       /\ Fits(workers[h], plan, panels[1])
\* The builder is about to be drawn over what the panel shows.
Drawing(w) == w # Free /\ w.kind = "builder" /\ w.stage \in {"list", "show"}
Result ==
  panels # <<>> /\ panels[1].view = "result" /\ (\A h \in Workers : ~Drawing(workers[h]))
    => Synced(plan, panels[1].items)

PlanInv ==
  /\ CraftTypes
  /\ ~unsure => /\ Len(panels) <= 1
                /\ \A h \in Workers : Alone(h)
                /\ Result
  /\ plan.expires > clock /\ lapsed # {} => revived
  /\ \A h \in Workers : workers[h] # Free /\ workers[h].lapsed # {} => revived
  /\ PostsAsShown

LEMMA PlanIs ==
  ASSUME CraftTypes
  PROVE  /\ Current \in {plan, NoPlan} /\ Current.items \in {plan.items, Nothing}
         /\ NoPlan.items = Nothing /\ NoPlan.expires = 0
         /\ PlanLike(NoPlan)
         /\ PlanLike(Current) /\ Current.expires \in Nat
  <1>1. NoPlan.items = Nothing /\ NoPlan.expires = 0 /\ PlanLike(NoPlan)
    BY DEF NoPlan, PlanFields, PlanLike
  <1>2. Current \in {plan, NoPlan}
    BY DEF Current
  <1>3. QED
    BY <1>1, <1>2 DEF CraftTypes, PlanLike

\* A step that changes one panel or none.
Redrawn(b) == panels' = panels \/ \E m : PanelLike(m) /\ panels' = [panels EXCEPT ![b] = m]

\* The steps of one worker's typing.
ClickTyped(w) ==
  /\ w = [f \in ClickFields |-> w[f]]
  /\ w.kind = "builder" => w.stage \in {"clear", "remove", "upsert", "list", "show"}
  /\ w.kind = "calculate" => w.stage \in {"read", "show"}
  /\ w.kind = "post" => w.stage \in {"read", "post", "show"}
  /\ w.kind \in {"builder", "calculate", "post"}

LEMMA PlanTyped ==
  ASSUME CraftTypes, NEW h \in Workers, workers[h] # Free,
         NEW w, workers' = [workers EXCEPT ![h] = w],
         w # Free => ClickTyped(w) /\ w.panel = workers[h].panel,
         clock' = clock, PlanLike(plan'), plan'.expires \in Nat, unsure' \in BOOLEAN,
         Redrawn(workers[h].panel)
  PROVE  /\ CraftTypes' /\ DOMAIN panels' = DOMAIN panels /\ Len(panels') = Len(panels)
         /\ \A b \in DOMAIN panels : b # workers[h].panel => panels'[b] = panels[b]
         /\ \A g \in Workers : workers'[g] = IF g = h THEN w ELSE workers[g]
  <1>1. panels \in Seq({panels[b] : b \in DOMAIN panels}) /\ workers[h].panel \in DOMAIN panels
    BY DEF CraftTypes
  <1>2. /\ panels' \in Seq({panels'[b] : b \in DOMAIN panels'})
        /\ DOMAIN panels' = DOMAIN panels /\ Len(panels') = Len(panels)
        /\ \A b \in DOMAIN panels : b # workers[h].panel => panels'[b] = panels[b]
        /\ \A b \in DOMAIN panels : PanelLike(panels'[b])
    <2>1. CASE panels' = panels
      BY <1>1, <2>1 DEF CraftTypes
    <2>2. ASSUME NEW m, PanelLike(m), panels' = [panels EXCEPT ![workers[h].panel] = m]
          PROVE  /\ panels' \in Seq({panels'[b] : b \in DOMAIN panels'})
                 /\ DOMAIN panels' = DOMAIN panels /\ Len(panels') = Len(panels)
                 /\ \A b \in DOMAIN panels : b # workers[h].panel => panels'[b] = panels[b]
                 /\ \A b \in DOMAIN panels : PanelLike(panels'[b])
      <3> DEFINE k == workers[h].panel
                 t == [panels EXCEPT ![k] = m]
      <3>1. /\ t \in Seq({t[n] : n \in DOMAIN t})
            /\ DOMAIN t = DOMAIN panels /\ Len(t) = Len(panels)
            /\ \A n \in DOMAIN panels : t[n] = IF n = k THEN m ELSE panels[n]
        <4>1. panels \in Seq({panels[b] : b \in DOMAIN panels}) /\ k \in DOMAIN panels
          BY <1>1
        <4> HIDE DEF k
        <4>2. QED
          BY ONLY <4>1, RowChanged, ZenonT(40)
      <3>2. panels' = t
        BY <2>2
      <3> HIDE DEF t
      <3>3. \A b \in DOMAIN panels : PanelLike(panels'[b])
        BY <2>2, <3>1, <3>2, SMTT(30) DEF CraftTypes, PanelLike
      <3>4. QED
        BY <3>1, <3>2, <3>3
    <2>3. QED
      BY <2>1, <2>2 DEF Redrawn
  <1>3. DOMAIN workers = Workers
    BY DEF CraftTypes
  <1>4. DOMAIN workers' = Workers /\ \A g \in Workers : workers'[g] = IF g = h THEN w ELSE workers[g]
    BY <1>3
  <1>5. \A g \in Workers : workers[g] # Free => ClickTyped(workers[g]) /\ workers[g].panel \in DOMAIN panels
    BY DEF CraftTypes, ClickTyped
  <1>6. \A g \in Workers : workers'[g] # Free => ClickTyped(workers'[g]) /\ workers'[g].panel \in DOMAIN panels
    BY <1>1, <1>4, <1>5
  <1>7. CraftTypes'
    BY <1>2, <1>4, <1>6 DEF CraftTypes, ClickTyped, PlanLike
  <1>8. QED
    BY <1>2, <1>4, <1>7

LEMMA DeadIs ==
  ASSUME CraftTypes, NEW b \in DOMAIN panels
  PROVE  PanelLike(Dead(b)) /\ Dead(b).view = "text"
BY DEF CraftTypes, Dead, PanelFields, PanelLike

LEMMA StageTyped ==
  ASSUME NEW i, i = [f \in ClickFields |-> i[f]], NEW s
  PROVE  LET w == [i EXCEPT !.stage = s]
         IN  /\ w = [f \in ClickFields |-> w[f]] /\ w.stage = s /\ w # Free
             /\ w.kind = i.kind /\ w.panel = i.panel /\ w.items = i.items /\ w.lapsed = i.lapsed
BY DEF ClickFields, Free

\* The first panel, when it is the only one.
LEMMA OnePanel ==
  ASSUME CraftTypes, Len(panels) <= 1, NEW h \in Workers, workers[h] # Free
  PROVE  workers[h].panel = 1 /\ DOMAIN panels = {1} /\ panels # <<>> /\ Len(panels) = 1
  <1>1. panels \in Seq({panels[b] : b \in DOMAIN panels}) /\ workers[h].panel \in DOMAIN panels
    BY DEF CraftTypes
  <1>2. DOMAIN panels = 1..Len(panels) /\ Len(panels) \in Nat
    BY <1>1, OneRow
  <1>3. Len(panels) = 1
    BY <1>1, <1>2
  <1>4. DOMAIN panels = {1}
    BY <1>1, <1>3, OneRow
  <1>5. workers[h].panel \in {1}
    BY ONLY <1>1, <1>4
  <1>6. panels # <<>>
    BY ONLY <1>3
  <1>7. QED
    BY ONLY <1>3, <1>4, <1>5, <1>6

\* A step of the click h that takes it to w, leaves the clock alone, and keeps what PlanInv says.
Moves(h, w) ==
  /\ workers[h] # Free
  /\ workers' = [workers EXCEPT ![h] = w]
  /\ w # Free => ClickTyped(w) /\ w.panel = workers[h].panel
  /\ clock' = clock /\ PlanLike(plan') /\ plan'.expires \in Nat
  /\ unsure' \in {unsure, TRUE}
  /\ Redrawn(workers[h].panel)
  /\ ~unsure' /\ workers[h].panel = 1 /\ panels # <<>> /\ Alone(h) /\ Result =>
       /\ w # Free => Fits(w, plan', panels'[1])
       /\ panels'[1].view = "result" /\ ~Drawing(w) => Synced(plan', panels'[1].items)
  /\ revived => revived'
  /\ plan'.expires > clock /\ lapsed' # {} => revived'
  /\ w # Free /\ w.lapsed # {} => revived'

LEMMA PlanKept ==
  ASSUME PlanInv, NEW h \in Workers, NEW w, Moves(h, w), PostsAsShown'
  PROVE  PlanInv'
  <1>1. CraftTypes
    BY DEF PlanInv
  <1>2. unsure' \in BOOLEAN
    BY <1>1 DEF CraftTypes, Moves
  <1>3. /\ CraftTypes' /\ DOMAIN panels' = DOMAIN panels /\ Len(panels') = Len(panels)
        /\ \A b \in DOMAIN panels : b # workers[h].panel => panels'[b] = panels[b]
        /\ \A g \in Workers : workers'[g] = IF g = h THEN w ELSE workers[g]
    <2>1. /\ CraftTypes /\ workers[h] # Free /\ workers' = [workers EXCEPT ![h] = w]
          /\ w # Free => ClickTyped(w) /\ w.panel = workers[h].panel
          /\ clock' = clock /\ PlanLike(plan') /\ plan'.expires \in Nat /\ unsure' \in BOOLEAN
          /\ Redrawn(workers[h].panel)
      BY <1>1, <1>2 DEF Moves
    <2>2. QED
      BY ONLY <2>1, h \in Workers, PlanTyped, ZenonT(40)
  <1>4. ASSUME ~unsure'
        PROVE  /\ Len(panels') <= 1
               /\ \A g \in Workers : Alone(g)'
               /\ Result'
    <2>1. ~unsure
      BY <1>4 DEF Moves
    <2>2. Len(panels) <= 1 /\ (\A g \in Workers : Alone(g)) /\ Result
      BY <2>1 DEF PlanInv
    <2>3. workers[h].panel = 1 /\ panels # <<>>
      <3>1. workers[h] # Free
        BY DEF Moves
      <3>2. QED
        BY <1>1, <2>2, <3>1, OnePanel
    <2>4. /\ w # Free => Fits(w, plan', panels'[1])
          /\ panels'[1].view = "result" /\ ~Drawing(w) => Synced(plan', panels'[1].items)
      BY <1>4, <2>2, <2>3 DEF Moves
    <2>5. \A g \in Workers : workers[g] # Free => g = h
      BY <2>2 DEF Alone, Moves
    <2>6. \A g \in Workers : g # h => workers'[g] = Free
      BY <1>3, <2>5
    <2>7. workers'[h] = w
      BY <1>3
    <2>8. \A g \in Workers : Alone(g)'
      BY <2>4, <2>6, <2>7 DEF Alone
    <2>9. Result'
      BY <2>4, <2>7 DEF Result
    <2>10. QED
      BY <1>3, <2>2, <2>8, <2>9
  <1>5. \A g \in Workers : workers'[g] # Free /\ workers'[g].lapsed # {} => revived'
    BY <1>3 DEF PlanInv, Moves
  <1>6. plan'.expires > clock' /\ lapsed' # {} => revived'
    BY DEF Moves
  <1>7. QED
    BY <1>3, <1>4, <1>5, <1>6 DEF PlanInv

\* What the draft of the moment has in it that lapsed was revived.
LEMMA FreshIs ==
  ASSUME PlanInv
  PROVE  /\ Current.expires > clock /\ lapsed \cap DOMAIN Current.items # {} => revived
         /\ lapsed \cap DOMAIN Current.items # {} => revived
         /\ \A items : Synced(plan, items) => Synced(Current, items)
         /\ \A items : Synced(NoPlan, items)
  <1>1. Current = IF plan.expires > clock THEN plan ELSE NoPlan
    BY DEF Current
  <1>2. NoPlan.items = Nothing /\ DOMAIN Nothing = {}
    BY DEF NoPlan, Nothing
  <1>3. plan.expires > clock /\ lapsed # {} => revived
    BY DEF PlanInv
  <1>4. lapsed \cap DOMAIN Current.items # {} => plan.expires > clock
    BY <1>1, <1>2
  <1>5. lapsed \cap DOMAIN Current.items # {} => revived
    BY <1>3, <1>4
  <1>6. \A items : Synced(plan, items) => Synced(Current, items)
    BY <1>1, <1>2 DEF Synced
  <1>7. QED
    BY <1>2, <1>5, <1>6 DEF Synced

LEMMA Clicked ==
  ASSUME CraftTypes, NEW h \in Workers, workers[h].stage # "free"
  PROVE  /\ workers[h] # Free /\ ClickTyped(workers[h])
         /\ workers[h].panel \in DOMAIN panels /\ PanelLike(Dead(workers[h].panel))
  <1>1. workers[h] # Free
    BY DEF Free
  <1>2. ClickTyped(workers[h]) /\ workers[h].panel \in DOMAIN panels
    BY <1>1 DEF CraftTypes, ClickTyped
  <1>3. QED
    BY <1>1, <1>2, DeadIs

LEMMA LaterStage ==
  ASSUME CraftTypes, NEW h \in Workers, workers[h].stage # "free", NEW s, Goes(h, s)
  PROVE  LET w == [workers[h] EXCEPT !.stage = s]
         IN  /\ workers' = [workers EXCEPT ![h] = w]
             /\ w = [f \in ClickFields |-> w[f]] /\ w # Free /\ w.stage = s
             /\ w.kind = workers[h].kind /\ w.panel = workers[h].panel
             /\ w.items = workers[h].items /\ w.lapsed = workers[h].lapsed
  <1>1. workers[h] = [f \in ClickFields |-> workers[h][f]]
    BY Clicked DEF ClickTyped
  <1>2. workers' = [workers EXCEPT ![h] = [workers[h] EXCEPT !.stage = s]]
    BY DEF Goes
  <1>3. QED
    BY <1>1, <1>2, StageTyped

LEMMA ChangeKept ==
  ASSUME PlanInv, NEW h \in Workers, Change(h)
  PROVE  PlanInv'
  <1> DEFINE w == [workers[h] EXCEPT !.stage = "list"]
  <1>1. CraftTypes
    BY DEF PlanInv
  <1>2. workers[h].stage \in {"clear", "remove", "upsert"}
    BY DEF Change
  <1>3. workers[h] # Free /\ ClickTyped(workers[h]) /\ workers[h].kind = "builder"
    BY <1>1, <1>2, Clicked DEF ClickTyped
  <1>4. /\ workers' = [workers EXCEPT ![h] = w]
        /\ w = [f \in ClickFields |-> w[f]] /\ w # Free /\ w.stage = "list"
        /\ w.kind = workers[h].kind /\ w.panel = workers[h].panel
        /\ w.items = workers[h].items /\ w.lapsed = workers[h].lapsed
    BY <1>1, <1>2, LaterStage DEF Change
  <1> HIDE DEF w
  <1>5. ClickTyped(w) /\ Drawing(w)
    BY <1>3, <1>4 DEF ClickTyped, Drawing
  <1>6. \A draft, panel : Fits(w, draft, panel)
    BY <1>3, <1>4 DEF Fits
  <1>7. clock' = clock /\ unsure' = unsure /\ panels' = panels /\ posts' = posts
    BY DEF Change
  <1>8. /\ PlanLike(plan') /\ plan'.expires \in Nat
        /\ revived => revived'
        /\ plan'.expires > clock /\ lapsed' # {} => revived'
    <2>1. /\ PlanLike(plan) /\ plan.expires \in Nat /\ clock \in Nat /\ PlanTTL \in Nat
          /\ PlanLike(NoPlan) /\ NoPlan.expires = 0
      BY <1>1, PlanAssumption, PlanIs DEF CraftTypes
    <2>2. CASE workers[h].stage = "clear"
      BY <1>2, <2>1, <2>2 DEF Change
    <2>3. CASE workers[h].stage = "remove"
      <3>1. plan' = Without(workers[h].product)
            /\ lapsed' = lapsed \cap DOMAIN plan'.items
            /\ revived' = (revived \/ (plan.stored /\ plan.expires <= clock))
        BY <2>3 DEF Change
      <3>2. lapsed' # {} => lapsed # {}
        BY <3>1
      <3>3. plan.expires > clock /\ lapsed # {} => revived
        BY DEF PlanInv
      <3>4. CASE plan.stored
        <4>1. PlanLike(plan') /\ plan'.expires = clock + PlanTTL
          <5>1. plan' = [plan EXCEPT !.items = Restrict(plan.items, DOMAIN plan.items \ {workers[h].product}),
                                     !.expires = clock + PlanTTL]
            BY <3>1, <3>4 DEF Without
          <5>2. DOMAIN plan = PlanFields
            BY <2>1 DEF PlanLike
          <5>3. DOMAIN plan' = PlanFields /\ plan' = [f \in PlanFields |-> plan'[f]]
            BY <5>1, <5>2
          <5>4. plan'.expires = clock + PlanTTL
            BY <5>1, <5>2 DEF PlanFields
          <5>5. QED
            BY <5>3, <5>4 DEF PlanLike
        <4>2. plan.expires > clock \/ plan.expires <= clock
          BY <2>1
        <4>3. lapsed' # {} => revived'
          BY <3>1, <3>2, <3>3, <3>4, <4>2
        <4>4. plan'.expires \in Nat
          BY <2>1, <4>1
        <4>5. revived => revived'
          BY <3>1
        <4>6. QED
          BY <4>1, <4>3, <4>4, <4>5
      <3>5. CASE ~plan.stored
        <4>1. plan' = plan
          BY <3>1, <3>5 DEF Without
        <4>2. QED
          BY <2>1, <3>1, <3>2, <3>3, <4>1
      <3>6. QED
        BY <3>4, <3>5
    <2>4. CASE workers[h].stage = "upsert"
      <3>1. /\ plan' = With(workers[h].product, workers[h].number)
            /\ lapsed' = (lapsed \cap DOMAIN Current.items) \ {workers[h].product}
            /\ revived' = revived
        BY <2>4 DEF Change
      <3>2. PlanLike(plan') /\ plan'.expires = clock + PlanTTL
        BY <3>1 DEF With, PlanLike, PlanFields
      <3>3. QED
        BY <2>1, <3>1, <3>2, FreshIs
    <2>5. QED
      BY <1>2, <2>2, <2>3, <2>4
  <1>9. w.lapsed # {} => revived'
    BY <1>3, <1>4, <1>8 DEF PlanInv
  <1>10. PostsAsShown'
    BY <1>7 DEF PlanInv, PostsAsShown
  <1>11. Redrawn(workers[h].panel)
    BY <1>7 DEF Redrawn
  <1>12. Moves(h, w)
    BY <1>3, <1>4, <1>5, <1>6, <1>7, <1>8, <1>9, <1>11 DEF Moves
  <1>13. QED
    BY <1>10, <1>12, PlanKept

LEMMA Redrawing ==
  ASSUME CraftTypes, NEW h \in Workers, workers[h].stage # "free", NEW m, PanelLike(m),
         panels' = [panels EXCEPT ![workers[h].panel] = m]
  PROVE  /\ Redrawn(workers[h].panel)
         /\ workers[h].panel = 1 => panels'[1] = m
BY Clicked DEF Redrawn

LEMMA Showing ==
  ASSUME CraftTypes, NEW h \in Workers, workers[h].stage # "free", NEW m, PanelLike(m), Shows(h, m)
  PROVE  /\ Redrawn(workers[h].panel)
         /\ unsure' \in {unsure, TRUE}
         /\ ~unsure' /\ workers[h].panel = 1 => panels'[1] = m
  <1>1. CASE panels' = [panels EXCEPT ![workers[h].panel] = m] /\ UNCHANGED <<unsure, troubles>>
    BY <1>1, Redrawing
  <1>2. CASE UNCHANGED panels /\ unsure' = TRUE /\ Trouble
    BY <1>2 DEF Redrawn
  <1>3. QED
    BY <1>1, <1>2 DEF Shows

\* A click that is over, and has shown nothing that the draft does not say.
LEMMA EndKept ==
  ASSUME PlanInv, NEW h \in Workers, workers[h].stage # "free", Ends(h),
         clock' = clock, PlanLike(plan'), plan'.expires \in Nat,
         unsure' \in {unsure, TRUE}, Redrawn(workers[h].panel),
         ~unsure' /\ workers[h].panel = 1 /\ Alone(h) /\ panels'[1].view = "result" =>
           Synced(plan', panels'[1].items),
         revived' = revived, plan'.expires > clock /\ lapsed' # {} => revived',
         PostsAsShown'
  PROVE  PlanInv'
  <1>1. workers[h] # Free /\ workers' = [workers EXCEPT ![h] = Free]
    BY Clicked DEF PlanInv, Ends
  <1>2. Moves(h, Free)
    BY <1>1 DEF Moves
  <1>3. QED
    BY <1>2, PlanKept

\* An action that looks the draft up.
LEMMA Looked ==
  ASSUME PlanInv, plan' = Current, lapsed' = lapsed \cap DOMAIN plan'.items, revived' = revived
  PROVE  /\ PlanLike(plan') /\ plan'.expires \in Nat
         /\ lapsed' # {} => revived'
         /\ \A items : Synced(plan, items) => Synced(plan', items)
  <1>1. CraftTypes
    BY DEF PlanInv
  <1>2. PlanLike(plan') /\ plan'.expires \in Nat
    BY <1>1, PlanIs
  <1>3. lapsed' = lapsed \cap DOMAIN Current.items
    OBVIOUS
  <1>4. QED
    BY <1>2, <1>3, FreshIs

LEMMA OverfullKept ==
  ASSUME PlanInv, NEW h \in Workers, Overfull(h)
  PROVE  PlanInv'
  <1>1. CraftTypes /\ workers[h].stage # "free"
    BY DEF PlanInv, Overfull
  <1>2. PanelLike(Dead(workers[h].panel)) /\ Dead(workers[h].panel).view = "text"
    BY <1>1, Clicked, DeadIs
  <1>3. /\ Redrawn(workers[h].panel)
        /\ unsure' \in {unsure, TRUE}
        /\ ~unsure' /\ workers[h].panel = 1 => panels'[1] = Dead(workers[h].panel)
    BY <1>1, <1>2, Showing DEF Overfull
  <1>4. plan' = Current /\ lapsed' = lapsed \cap DOMAIN plan'.items /\ revived' = revived
    BY DEF Overfull
  <1>5. PlanLike(plan') /\ plan'.expires \in Nat /\ (lapsed' # {} => revived')
    BY <1>4, Looked
  <1>6. PostsAsShown'
    BY DEF PlanInv, PostsAsShown, Overfull
  <1>7. QED
    BY <1>1, <1>2, <1>3, <1>4, <1>5, <1>6, EndKept DEF Overfull

LEMMA EmptyKept ==
  ASSUME PlanInv, NEW h \in Workers, Empty(h)
  PROVE  PlanInv'
  <1>1. CraftTypes /\ workers[h].stage # "free"
    BY DEF PlanInv, Empty
  <1>2. PanelLike(Dead(workers[h].panel)) /\ Dead(workers[h].panel).view = "text"
    BY <1>1, Clicked, DeadIs
  <1>3. /\ Redrawn(workers[h].panel)
        /\ unsure' \in {unsure, TRUE}
        /\ ~unsure' /\ workers[h].panel = 1 => panels'[1] = Dead(workers[h].panel)
    BY <1>1, <1>2, Showing DEF Empty
  <1>4. PlanLike(plan') /\ plan'.expires \in Nat /\ lapsed' = {} /\ revived' = revived
    BY <1>1, PlanIs DEF Empty
  <1>5. PostsAsShown'
    BY DEF PlanInv, PostsAsShown, Empty
  <1>6. QED
    BY <1>1, <1>2, <1>3, <1>4, <1>5, EndKept DEF Empty

LEMMA ShowKept ==
  ASSUME PlanInv, NEW h \in Workers, Show(h)
  PROVE  PlanInv'
  <1> DEFINE view == CASE workers[h].kind = "builder" -> "builder"
                       [] workers[h].kind = "calculate" -> "result" [] OTHER -> "posted"
             m == [view |-> view, items |-> workers[h].items,
                   seen |-> panels[workers[h].panel].seen \/ view = "builder"]
  <1>1. CraftTypes /\ workers[h].stage = "show"
    BY DEF PlanInv, Show
  <1>2. PanelLike(m) /\ m.items = workers[h].items
    BY DEF PanelLike, PanelFields
  <1>3. m.view = "result" => workers[h].kind = "calculate"
    OBVIOUS
  <1>4. Shows(h, m) /\ Ends(h)
    BY DEF Show
  <1> HIDE DEF m
  <1>5. /\ Redrawn(workers[h].panel)
        /\ unsure' \in {unsure, TRUE}
        /\ ~unsure' /\ workers[h].panel = 1 => panels'[1] = m
    BY <1>1, <1>2, <1>4, Showing
  <1>6. Alone(h) /\ m.view = "result" => Synced(plan, m.items)
    BY <1>1, <1>2, <1>3, Clicked DEF Alone, Fits
  <1>7. /\ clock' = clock /\ plan' = plan /\ lapsed' = lapsed /\ revived' = revived /\ posts' = posts
    BY DEF Show
  <1>8. PlanLike(plan') /\ plan'.expires \in Nat /\ (plan'.expires > clock /\ lapsed' # {} => revived')
    BY <1>1, <1>7 DEF CraftTypes, PlanInv
  <1>9. PostsAsShown'
    BY <1>7 DEF PlanInv, PostsAsShown
  <1>10. ~unsure' /\ workers[h].panel = 1 /\ Alone(h) /\ panels'[1].view = "result" =>
           Synced(plan', panels'[1].items)
    BY <1>5, <1>6, <1>7
  <1>11. QED
    BY <1>1, <1>4, <1>5, <1>7, <1>8, <1>9, <1>10, EndKept

\* What a post adds to the channel.
LEMMA PostIs ==
  ASSUME PlanInv, NEW h \in Workers, workers[h].stage = "post", posts' = Posted(h)
  PROVE  PostsAsShown'
  <1> DEFINE new == [items |-> workers[h].items, shown |-> panels[workers[h].panel].items,
                     excused |-> unsure, revived |-> revived, lapsed |-> workers[h].lapsed]
  <1>1. CraftTypes /\ workers[h] # Free
    BY Clicked DEF PlanInv
  <1>2. posts' = posts \cup {new}
    BY DEF Posted
  <1>3. /\ new.items = workers[h].items /\ new.shown = panels[workers[h].panel].items
        /\ new.excused = unsure /\ new.revived = revived /\ new.lapsed = workers[h].lapsed
    OBVIOUS
  <1> HIDE DEF new
  <1>4. new.items = new.shown \/ new.excused
    <2>1. CASE unsure
      BY <1>3, <2>1
    <2>2. CASE ~unsure
      <3>1. Len(panels) <= 1 /\ Alone(h)
        BY <2>2 DEF PlanInv
      <3>2. workers[h].panel = 1
        BY <1>1, <3>1, OnePanel
      <3>3. workers[h].items = panels[1].items
        BY <1>1, <3>1 DEF Alone, Fits
      <3>4. QED
        BY <1>3, <3>2, <3>3
    <2>3. QED
      BY <2>1, <2>2
  <1>5. new.lapsed # {} => new.revived
    BY <1>1, <1>3 DEF PlanInv
  <1>6. QED
    BY <1>2, <1>4, <1>5 DEF PlanInv, PostsAsShown

LEMMA PostKept ==
  ASSUME PlanInv, NEW h \in Workers, Post(h)
  PROVE  PlanInv'
  <1> DEFINE w == [workers[h] EXCEPT !.stage = "show"]
  <1>1. CraftTypes /\ workers[h].stage = "post"
    BY DEF PlanInv, Post
  <1>2. workers[h] # Free /\ ClickTyped(workers[h]) /\ workers[h].kind = "post"
    BY <1>1, Clicked DEF ClickTyped
  <1>3. /\ workers' = [workers EXCEPT ![h] = w]
        /\ w = [f \in ClickFields |-> w[f]] /\ w # Free /\ w.stage = "show"
        /\ w.kind = workers[h].kind /\ w.panel = workers[h].panel
        /\ w.items = workers[h].items /\ w.lapsed = workers[h].lapsed
    BY <1>1, LaterStage DEF Post
  <1> HIDE DEF w
  <1>4. ClickTyped(w) /\ (\A draft, panel : Fits(w, draft, panel))
    BY <1>2, <1>3 DEF ClickTyped, Fits
  <1>5. /\ clock' = clock /\ plan' = plan /\ lapsed' = lapsed /\ revived' = revived
        /\ unsure' = unsure /\ panels' = panels /\ posts' = Posted(h)
    BY DEF Post
  <1>6. PlanLike(plan') /\ plan'.expires \in Nat /\ (plan'.expires > clock /\ lapsed' # {} => revived')
    BY <1>1, <1>5 DEF CraftTypes, PlanInv
  <1>7. w.lapsed # {} => revived'
    BY <1>2, <1>3, <1>5 DEF PlanInv
  <1>8. ~Drawing(workers[h])
    BY <1>2 DEF Drawing
  <1>9. panels # <<>> /\ Alone(h) /\ Result /\ panels'[1].view = "result" => Synced(plan', panels'[1].items)
    <2>1. Alone(h) => \A g \in Workers : ~Drawing(workers[g])
      BY <1>2, <1>8 DEF Alone, Drawing
    <2>2. QED
      BY <1>5, <2>1 DEF Result
  <1>10. Redrawn(workers[h].panel)
    BY <1>5 DEF Redrawn
  <1>11. Moves(h, w)
    BY <1>2, <1>3, <1>4, <1>5, <1>6, <1>7, <1>9, <1>10 DEF Moves
  <1>12. QED
    BY <1>1, <1>5, <1>11, PostIs, PlanKept

LEMMA PostLostKept ==
  ASSUME PlanInv, NEW h \in Workers, PostLost(h)
  PROVE  PlanInv'
  <1>1. CraftTypes /\ workers[h].stage = "post"
    BY DEF PlanInv, PostLost
  <1>2. PanelLike(Dead(workers[h].panel)) /\ Dead(workers[h].panel).view = "text"
    BY <1>1, Clicked, DeadIs
  <1>3. Redrawn(workers[h].panel) /\ (workers[h].panel = 1 => panels'[1] = Dead(workers[h].panel))
    BY <1>1, <1>2, Redrawing DEF PostLost
  <1>4. /\ clock' = clock /\ plan' = plan /\ lapsed' = lapsed /\ revived' = revived
        /\ unsure' = unsure /\ posts' = Posted(h) /\ Ends(h)
    BY DEF PostLost
  <1>5. PlanLike(plan') /\ plan'.expires \in Nat /\ (plan'.expires > clock /\ lapsed' # {} => revived')
    BY <1>1, <1>4 DEF CraftTypes, PlanInv
  <1>6. PostsAsShown'
    BY <1>1, <1>4, PostIs
  <1>7. QED
    BY <1>1, <1>2, <1>3, <1>4, <1>5, <1>6, EndKept

LEMMA FailsKept ==
  ASSUME PlanInv, NEW h \in Workers, Fails(h)
  PROVE  PlanInv'
  <1>1. CraftTypes /\ workers[h].stage # "free"
    BY DEF PlanInv, Fails
  <1>2. PanelLike(Dead(workers[h].panel)) /\ Dead(workers[h].panel).view = "text"
    BY <1>1, Clicked, DeadIs
  <1>3. /\ Redrawn(workers[h].panel) /\ unsure' \in {unsure, TRUE}
        /\ ~unsure' /\ workers[h].panel = 1 => panels'[1] = Dead(workers[h].panel)
    <2>1. CASE panels' = [panels EXCEPT ![workers[h].panel] = Dead(workers[h].panel)] /\ UNCHANGED unsure
      BY <1>1, <1>2, <2>1, Redrawing
    <2>2. CASE UNCHANGED panels /\ unsure' = TRUE
      BY <2>2 DEF Redrawn
    <2>3. QED
      BY <2>1, <2>2 DEF Fails
  <1>4. /\ clock' = clock /\ plan' = plan /\ lapsed' = lapsed /\ revived' = revived /\ posts' = posts /\ Ends(h)
    BY DEF Fails
  <1>5. PlanLike(plan') /\ plan'.expires \in Nat /\ (plan'.expires > clock /\ lapsed' # {} => revived')
    BY <1>1, <1>4 DEF CraftTypes, PlanInv
  <1>6. PostsAsShown'
    BY <1>4 DEF PlanInv, PostsAsShown
  <1>7. QED
    BY <1>1, <1>2, <1>3, <1>4, <1>5, <1>6, EndKept

LEMMA FetchKept ==
  ASSUME PlanInv, NEW h \in Workers, Fetch(h)
  PROVE  PlanInv'
  <1> DEFINE next == IF workers[h].kind = "post" THEN "post" ELSE "show"
             held == lapsed \cap DOMAIN Current.items
             w == [workers[h] EXCEPT !.items = Current.items, !.lapsed = held, !.stage = next]
  <1>1. CraftTypes /\ workers[h].stage \in {"list", "read"}
    BY DEF PlanInv, Fetch
  <1>2. workers[h] # Free /\ ClickTyped(workers[h])
    BY <1>1, Clicked
  <1>3. workers' = [workers EXCEPT ![h] = w]
    BY DEF Fetch
  <1>4. /\ w = [f \in ClickFields |-> w[f]] /\ w # Free /\ w.stage = next
        /\ w.kind = workers[h].kind /\ w.panel = workers[h].panel
        /\ w.items = Current.items /\ w.lapsed = held
    BY <1>2 DEF ClickTyped, ClickFields, Free
  <1> HIDE DEF w
  <1>5. ClickTyped(w)
    BY <1>2, <1>4 DEF ClickTyped
  <1>6. /\ clock' = clock /\ plan' = Current /\ lapsed' = held /\ lapsed' = lapsed \cap DOMAIN plan'.items
        /\ revived' = revived /\ unsure' = unsure /\ panels' = panels /\ posts' = posts
    BY DEF Fetch
  <1>7. /\ PlanLike(plan') /\ plan'.expires \in Nat
        /\ lapsed' # {} => revived'
        /\ \A items : Synced(plan, items) => Synced(plan', items)
    BY <1>6, Looked
  <1>8. w.lapsed # {} => revived'
    BY <1>4, <1>6, <1>7
  <1>9. Alone(h) => Fits(w, plan', panels'[1])
    <2>1. w.stage # "read" /\ (w.stage = "post" => w.kind = "post")
      BY <1>4
    <2>2. Synced(plan', w.items)
      BY <1>4, <1>6 DEF Synced
    <2>3. ASSUME Alone(h), w.stage = "post"
          PROVE  w.items = panels[1].items
      <3>1. workers[h].kind = "post"
        BY <1>4, <2>1, <2>3
      <3>2. workers[h].stage = "read"
        BY <1>1, <1>2, <3>1 DEF ClickTyped
      <3>3. Synced(plan, panels[1].items)
        BY <1>2, <2>3, <3>1, <3>2 DEF Alone, Fits
      <3>4. Synced(Current, panels[1].items)
        BY <1>6, <1>7, <3>3
      <3>5. Current.items # Nothing
        BY <3>1 DEF Fetch
      <3>6. QED
        BY <1>4, <3>4, <3>5 DEF Synced
    <2>4. QED
      BY <1>6, <2>1, <2>2, <2>3 DEF Fits
  <1>10. panels # <<>> /\ Alone(h) /\ Result /\ panels'[1].view = "result" /\ ~Drawing(w) =>
           Synced(plan', panels'[1].items)
    <2>1. ~Drawing(w) => ~Drawing(workers[h])
      BY <1>1, <1>2, <1>4 DEF Drawing
    <2>2. Alone(h) /\ ~Drawing(w) => \A g \in Workers : ~Drawing(workers[g])
      BY <1>2, <2>1 DEF Alone, Drawing
    <2>3. QED
      BY <1>6, <1>7, <2>2 DEF Result
  <1>11. Redrawn(workers[h].panel)
    BY <1>6 DEF Redrawn
  <1>12. PostsAsShown'
    BY <1>6 DEF PlanInv, PostsAsShown
  <1>13. Moves(h, w)
    BY <1>2, <1>3, <1>4, <1>5, <1>6, <1>7, <1>8, <1>9, <1>10, <1>11 DEF Moves
  <1>14. QED
    BY <1>12, <1>13, PlanKept

\* A click that arrives.
LEMMA ArrivalKept ==
  ASSUME PlanInv, NEW h \in Workers, NEW i, Handled(h, i),
         ClickTyped(i), i # Free, i.lapsed = {}, i.stage \notin {"post", "show"}, i.panel \in DOMAIN panels',
         \/ /\ panels' = panels
            /\ i.kind = "post" => panels[i.panel].view = "result"
         \/ /\ \E m : PanelLike(m) /\ m.view = "blank" /\ panels' = Append(panels, m)
            /\ i.kind # "post"
  PROVE  PlanInv'
  <1>1. /\ CraftTypes /\ workers' = [workers EXCEPT ![h] = i] /\ workers[h] = Free
        /\ unsure' = (unsure \/ Working # {} \/ Len(panels') > 1)
        /\ clock' = clock /\ plan' = plan /\ posts' = posts /\ lapsed' = lapsed /\ revived' = revived
    BY DEF PlanInv, Handled
  <1>2. /\ panels \in Seq({panels[b] : b \in DOMAIN panels})
        /\ \A b \in DOMAIN panels : PanelLike(panels[b])
        /\ DOMAIN workers = Workers
    BY <1>1 DEF CraftTypes
  <1>3. /\ panels' \in Seq({panels'[b] : b \in DOMAIN panels'})
        /\ \A b \in DOMAIN panels' : PanelLike(panels'[b])
        /\ DOMAIN panels \subseteq DOMAIN panels'
        /\ Len(panels') <= 1 /\ panels' # panels => panels'[1].view = "blank" /\ panels' # <<>>
    <2>1. CASE panels' = panels
      BY <1>2, <2>1
    <2>2. ASSUME NEW m, PanelLike(m), m.view = "blank", panels' = Append(panels, m)
          PROVE  /\ panels' \in Seq({panels'[b] : b \in DOMAIN panels'})
                 /\ \A b \in DOMAIN panels' : PanelLike(panels'[b])
                 /\ DOMAIN panels \subseteq DOMAIN panels'
                 /\ Len(panels') <= 1 => panels'[1].view = "blank" /\ panels' # <<>>
      <3> DEFINE t == Append(panels, m)
      <3>1. /\ t \in Seq({t[n] : n \in DOMAIN t})
            /\ Len(panels) \in Nat /\ DOMAIN panels = 1..Len(panels)
            /\ DOMAIN t = DOMAIN panels \cup {Len(panels) + 1} /\ t[Len(panels) + 1] = m
            /\ \A n \in DOMAIN panels : t[n] = panels[n] /\ n # Len(panels) + 1
        <4>1. panels \in Seq({panels[b] : b \in DOMAIN panels})
          BY <1>2
        <4>2. QED
          BY ONLY <4>1, RowAppended
      <3>2. panels' = t
        BY <2>2
      <3> HIDE DEF t
      <3>3. \A b \in DOMAIN t : b \in DOMAIN panels \/ b = Len(panels) + 1
        BY <3>1
      <3>4. \A b \in DOMAIN t : PanelLike(t[b])
        BY <1>2, <2>2, <3>1, <3>3
      <3>5. Len(t) <= 1 => Len(panels) = 0 /\ Len(t) = 1
        <4>1. DOMAIN t = 1..Len(t) /\ Len(t) \in Nat
          BY <3>1, OneRow
        <4>2. QED
          BY <3>1, <4>1
      <3>6. Len(t) <= 1 => t[1].view = "blank" /\ t # <<>>
        BY <2>2, <3>1, <3>5, SMTT(30)
      <3>7. DOMAIN panels \subseteq DOMAIN t
        BY <3>1
      <3>8. QED
        BY <3>1, <3>2, <3>4, <3>6, <3>7
    <2>3. QED
      BY <2>1, <2>2
  <1>4. DOMAIN workers' = Workers /\ \A g \in Workers : workers'[g] = IF g = h THEN i ELSE workers[g]
    BY <1>1, <1>2
  <1>5. CraftTypes'
    <2>1. \A g \in Workers : workers[g] # Free => ClickTyped(workers[g]) /\ workers[g].panel \in DOMAIN panels
      BY <1>1 DEF CraftTypes, ClickTyped
    <2>2. \A g \in Workers : workers'[g] # Free => ClickTyped(workers'[g]) /\ workers'[g].panel \in DOMAIN panels'
      BY <1>3, <1>4, <2>1
    <2>3. unsure' \in BOOLEAN
      BY <1>1 DEF CraftTypes
    <2>4. clock' \in Nat /\ PlanLike(plan') /\ plan'.expires \in Nat
      BY <1>1 DEF CraftTypes
    <2>5. QED
      BY <1>3, <1>4, <2>2, <2>3, <2>4 DEF CraftTypes, ClickTyped
  <1>6. ASSUME ~unsure'
        PROVE  /\ Len(panels') <= 1
               /\ \A g \in Workers : Alone(g)'
               /\ Result'
    <2>1. ~unsure /\ Working = {} /\ ~(Len(panels') > 1)
      BY <1>1, <1>6
    <2>2. \A g \in Workers : workers[g] = Free
      BY <2>1 DEF Working
    <2>3. Len(panels') \in Nat /\ DOMAIN panels' = 1..Len(panels')
      BY <1>3, OneRow
    <2>4. Len(panels') <= 1 /\ i.panel = 1 /\ panels' # <<>>
      <3>1. Len(panels') <= 1
        BY ONLY <2>1, <2>3
      <3>2. i.panel \in 1..Len(panels')
        <4>1. i.panel \in DOMAIN panels'
          OBVIOUS
        <4>2. QED
          BY ONLY <2>3, <4>1, Zenon
      <3>3. i.panel = 1 /\ Len(panels') # 0
        BY ONLY <2>3, <3>1, <3>2
      <3>4. QED
        BY <3>1, <3>3
    <2>5. Result
      BY <2>1 DEF PlanInv
    <2>6. \A g \in Workers : ~Drawing(workers[g])
      BY <2>2 DEF Drawing
    <2>7. panels' = panels /\ panels[1].view = "result" => Synced(plan, panels[1].items)
      BY <2>4, <2>5, <2>6 DEF Result
    <2>8. panels'[1].view = "result" => panels' = panels /\ Synced(plan', panels'[1].items)
      BY <1>1, <1>3, <2>4, <2>7
    <2>9. Fits(i, plan', panels'[1])
      <3>1. i.kind = "post" => panels'[1].view = "result"
        BY <2>4
      <3>2. QED
        BY <2>8, <3>1 DEF Fits
    <2>10. \A g \in Workers : Alone(g)'
      BY <1>4, <2>2, <2>9 DEF Alone
    <2>11. Result'
      BY <2>8 DEF Result
    <2>12. QED
      BY <2>4, <2>10, <2>11
  <1>7. \A g \in Workers : workers'[g] # Free /\ workers'[g].lapsed # {} => revived'
    BY <1>1, <1>4 DEF PlanInv
  <1>8. plan'.expires > clock' /\ lapsed' # {} => revived'
    BY <1>1 DEF PlanInv
  <1>9. PostsAsShown'
    BY <1>1 DEF PlanInv, PostsAsShown
  <1>10. QED
    BY <1>5, <1>6, <1>7, <1>8, <1>9 DEF PlanInv

ClickIs(w, kind, stage, b) ==
  /\ w = [f \in ClickFields |-> w[f]] /\ w # Free
  /\ w.kind = kind /\ w.stage = stage /\ w.panel = b /\ w.lapsed = {}

LEMMA ByIs ==
  ASSUME NEW kind, NEW stage, NEW b
  PROVE  /\ ClickIs(By(kind, stage, b), kind, stage, b)
         /\ \A p : ClickIs([By(kind, stage, b) EXCEPT !.product = p], kind, stage, b)
         /\ \A p, n : ClickIs([By(kind, stage, b) EXCEPT !.product = p, !.number = n], kind, stage, b)
  <1> DEFINE i == By(kind, stage, b)
  <1>1. /\ DOMAIN i = ClickFields /\ i = [f \in ClickFields |-> i[f]]
        /\ i.kind = kind /\ i.stage = stage /\ i.panel = b /\ i.lapsed = {}
    BY DEF By, ClickFields
  <1> HIDE DEF i
  <1>2. \A w : DOMAIN w = ClickFields => w # Free
    BY DEF ClickFields, Free
  <1>3. ClickIs(i, kind, stage, b)
    BY <1>1, <1>2 DEF ClickIs
  <1>4. \A p : ClickIs([i EXCEPT !.product = p], kind, stage, b)
    <2> TAKE p
    <2> DEFINE j == [i EXCEPT !.product = p]
    <2>1. /\ DOMAIN j = ClickFields /\ j = [f \in ClickFields |-> j[f]]
          /\ j.kind = kind /\ j.stage = stage /\ j.panel = b /\ j.lapsed = {}
      BY <1>1 DEF ClickFields
    <2> HIDE DEF j
    <2>2. ClickIs(j, kind, stage, b)
      BY <1>2, <2>1 DEF ClickIs
    <2>3. QED
      BY <2>2 DEF j
  <1>5. \A p, n : ClickIs([i EXCEPT !.product = p, !.number = n], kind, stage, b)
    <2> TAKE p, n
    <2> DEFINE j == [i EXCEPT !.product = p, !.number = n]
    <2>1. /\ DOMAIN j = ClickFields /\ j = [f \in ClickFields |-> j[f]]
          /\ j.kind = kind /\ j.stage = stage /\ j.panel = b /\ j.lapsed = {}
      BY <1>1 DEF ClickFields
    <2> HIDE DEF j
    <2>2. ClickIs(j, kind, stage, b)
      BY <1>2, <2>1 DEF ClickIs
    <2>3. QED
      BY <2>2 DEF j
  <1>6. QED
    BY <1>3, <1>4, <1>5 DEF i

LEMMA SlashKept ==
  ASSUME PlanInv, NEW h \in Workers, SlashCraft(h)
  PROVE  PlanInv'
  <1> DEFINE m == [view |-> "blank", items |-> Nothing, seen |-> FALSE]
             i == By("builder", "list", Len(panels) + 1)
  <1>1. PanelLike(m) /\ m.view = "blank"
    BY DEF PanelLike, PanelFields
  <1>2. panels' = Append(panels, m) /\ Handled(h, i)
    BY DEF SlashCraft
  <1>3. /\ i = [f \in ClickFields |-> i[f]] /\ i # Free
        /\ i.kind = "builder" /\ i.stage = "list" /\ i.panel = Len(panels) + 1 /\ i.lapsed = {}
    <2>1. ClickIs(i, "builder", "list", Len(panels) + 1)
      BY ByIs
    <2> HIDE DEF i
    <2>2. QED
      BY <2>1 DEF ClickIs
  <1> HIDE DEF m, i
  <1>4. panels \in Seq({panels[b] : b \in DOMAIN panels})
    BY DEF PlanInv, CraftTypes
  <1>5. Len(panels) + 1 \in DOMAIN Append(panels, m)
    BY ONLY <1>4, RowAppended
  <1>6. i.panel \in DOMAIN panels'
    BY <1>2, <1>3, <1>5
  <1>7. ClickTyped(i)
    BY <1>3 DEF ClickTyped
  <1>8. QED
    BY <1>1, <1>2, <1>3, <1>6, <1>7, ArrivalKept

LEMMA PressKept ==
  ASSUME PlanInv, NEW h \in Workers, NEW b \in DOMAIN panels,
         NEW kind \in {"builder", "clear", "calculate", "post"}, Press(h, b, kind)
  PROVE  PlanInv'
  <1> DEFINE i == CASE kind = "clear" -> By("builder", "clear", b)
                    [] kind = "builder" -> By("builder", "list", b)
                    [] OTHER -> By(kind, "read", b)
  <1>1. panels' = panels /\ Handled(h, i)
    BY DEF Press
  <1>2. kind = "post" => panels[b].view = "result"
    BY DEF Press
  <1>3. /\ i = [f \in ClickFields |-> i[f]] /\ i # Free /\ i.panel = b /\ i.lapsed = {}
        /\ \/ i.kind = "builder" /\ i.stage \in {"clear", "list"}
           \/ i.kind = "calculate" /\ i.stage = "read"
           \/ i.kind = "post" /\ kind = "post" /\ i.stage = "read"
    <2>1. CASE kind = "clear"
      <3>1. ClickIs(i, "builder", "clear", b)
        BY <2>1, ByIs
      <3> HIDE DEF i
      <3>2. QED
        BY <2>1, <3>1 DEF ClickIs
    <2>2. CASE kind = "builder"
      <3>1. ClickIs(i, "builder", "list", b)
        BY <2>2, ByIs
      <3> HIDE DEF i
      <3>2. QED
        BY <2>2, <3>1 DEF ClickIs
    <2>3. CASE kind \in {"calculate", "post"}
      <3>1. ClickIs(i, kind, "read", b)
        BY <2>3, ByIs
      <3> HIDE DEF i
      <3>2. QED
        BY <2>3, <3>1 DEF ClickIs
    <2>4. QED
      BY <2>1, <2>2, <2>3
  <1> HIDE DEF i
  <1>4. ClickTyped(i) /\ i.stage \notin {"post", "show"}
    BY <1>3 DEF ClickTyped
  <1>5. i.panel \in DOMAIN panels' /\ (i.kind = "post" => panels[i.panel].view = "result")
    BY <1>1, <1>2, <1>3
  <1>6. QED
    BY <1>1, <1>3, <1>4, <1>5, ArrivalKept

LEMMA FormKept ==
  ASSUME PlanInv, NEW h \in Workers, NEW b \in DOMAIN panels, NEW p, NEW n,
         PressRemove(h, b, p) \/ SendNumber(h, b, p, n)
  PROVE  PlanInv'
  <1>1. ASSUME NEW i, NEW stage \in {"remove", "upsert"}, ClickIs(i, "builder", stage, b),
               panels' = panels, Handled(h, i)
        PROVE  PlanInv'
    <2>1. /\ ClickTyped(i) /\ i.stage \notin {"post", "show"} /\ i.panel \in DOMAIN panels' /\ i.kind # "post"
          /\ i # Free /\ i.lapsed = {}
      BY <1>1 DEF ClickTyped, ClickIs
    <2>2. QED
      BY <1>1, <2>1, ArrivalKept
  <1>2. CASE PressRemove(h, b, p)
    BY <1>1, <1>2, ByIs DEF PressRemove
  <1>3. CASE SendNumber(h, b, p, n)
    BY <1>1, <1>3, ByIs DEF SendNumber
  <1>4. QED
    BY <1>2, <1>3

LEMMA CraftTickKept ==
  ASSUME PlanInv, CraftTick
  PROVE  PlanInv'
  <1>1. /\ clock \in Nat /\ plan.expires \in Nat /\ clock' = clock + 1
        /\ plan' = plan /\ panels' = panels /\ workers' = workers /\ posts' = posts
        /\ unsure' = unsure /\ revived' = revived
        /\ lapsed' = IF plan.expires <= clock' THEN lapsed \cup DOMAIN plan.items ELSE lapsed
    BY DEF PlanInv, CraftTypes, CraftTick
  <1>2. CraftTypes'
    BY <1>1 DEF PlanInv, CraftTypes
  <1>3. ~unsure' => /\ Len(panels') <= 1
                    /\ \A g \in Workers : Alone(g)'
                    /\ Result'
    BY <1>1 DEF PlanInv, Alone, Result
  <1>4. plan'.expires > clock' /\ lapsed' # {} => revived'
    <2>1. plan'.expires > clock' => plan.expires > clock /\ lapsed' = lapsed
      BY <1>1
    <2>2. QED
      BY <1>1, <2>1 DEF PlanInv
  <1>5. QED
    BY <1>1, <1>2, <1>3, <1>4 DEF PlanInv, PostsAsShown

LEMMA CraftRestartKept ==
  ASSUME PlanInv, CraftRestart
  PROVE  PlanInv'
  <1>1. /\ clock' = clock /\ plan' = NoPlan /\ panels' = panels /\ posts' = posts
        /\ workers' = [h \in Workers |-> Free]
        /\ unsure' = unsure /\ revived' = revived /\ lapsed' = {}
    BY DEF CraftRestart
  <1>2. CraftTypes
    BY DEF PlanInv
  <1>3. PlanLike(NoPlan) /\ NoPlan.expires \in Nat
    BY <1>2, PlanIs
  <1>4. CraftTypes'
    BY <1>1, <1>2, <1>3 DEF CraftTypes
  <1>5. ~unsure' => /\ Len(panels') <= 1
                    /\ \A g \in Workers : Alone(g)'
                    /\ Result'
    <2>1. \A g \in Workers : Alone(g)'
      BY <1>1 DEF Alone
    <2>2. Result'
      BY <1>1 DEF Result, Synced, NoPlan
    <2>3. QED
      BY <1>1, <2>1, <2>2 DEF PlanInv
  <1>6. QED
    BY <1>1, <1>4, <1>5 DEF PlanInv, PostsAsShown

LEMMA PlanInvInit == CraftInit => PlanInv
  <1> SUFFICES ASSUME CraftInit PROVE PlanInv
    OBVIOUS
  <1>1. PlanLike(NoPlan) /\ NoPlan.expires = 0
    BY DEF NoPlan, PlanFields, PlanLike
  <1>2. panels = <<>> /\ DOMAIN panels = {} /\ Len(panels) = 0
    BY DEF CraftInit
  <1>3. panels \in Seq({panels[b] : b \in DOMAIN panels})
    BY <1>2
  <1>4. CraftTypes
    <2>1. clock \in Nat /\ PlanLike(plan) /\ plan.expires \in Nat
      BY <1>1 DEF CraftInit
    <2>2. DOMAIN workers = Workers /\ \A h \in Workers : workers[h] = Free
      BY DEF CraftInit
    <2>3. unsure \in BOOLEAN
      BY DEF CraftInit
    <2>4. QED
      BY <1>2, <1>3, <2>1, <2>2, <2>3 DEF CraftTypes
  <1>5. QED
    BY <1>2, <1>4 DEF CraftInit, PlanInv, Alone, Result, PostsAsShown

LEMMA PlanInvStep == PlanInv /\ [CraftNext]_craftVars => PlanInv'
  <1> SUFFICES ASSUME PlanInv, [CraftNext]_craftVars PROVE PlanInv'
    OBVIOUS
  <1>1. CASE CraftTick
    BY <1>1, CraftTickKept
  <1>2. CASE CraftRestart
    BY <1>2, CraftRestartKept
  <1>3. ASSUME NEW h \in Workers,
               \/ SlashCraft(h)
               \/ \E b \in DOMAIN panels :
                    \/ \E kind \in {"builder", "clear", "calculate", "post"} : Press(h, b, kind)
                    \/ \E p \in Products : PressRemove(h, b, p) \/ \E n \in Numbers : SendNumber(h, b, p, n)
               \/ Change(h) \/ Overfull(h) \/ Fetch(h) \/ Empty(h) \/ Show(h)
               \/ Post(h) \/ PostLost(h) \/ Fails(h)
        PROVE  PlanInv'
    BY <1>3, SlashKept, PressKept, FormKept, ChangeKept, OverfullKept, FetchKept, EmptyKept, ShowKept,
       PostKept, PostLostKept, FailsKept
  <1>4. CASE UNCHANGED craftVars
    BY <1>4 DEF craftVars, PlanInv, CraftTypes, Alone, Result, PostsAsShown
  <1>5. QED
    BY <1>1, <1>2, <1>3, <1>4 DEF CraftNext

(***************************************************************************)
(* Posting calculates the plan again, in a goroutine of its own, and       *)
(* nevertheless sends what the panel showed, unless the member clicked     *)
(* twice at once, had two panels or lost an edit; and what had expired is  *)
(* posted only after a Remove gave the draft ten more minutes.  For any    *)
(* products, panels, clicks and failures.                                  *)
(***************************************************************************)
THEOREM PlansCorrect == CraftInit /\ [][CraftNext]_craftVars => []PostsAsShown
  <1>1. PlanInv => PostsAsShown
    BY DEF PlanInv
  <1>2. QED
    BY <1>1, PlanInvInit, PlanInvStep, PTL
==========================================================================
