---------------------------- MODULE DraftsProofs ----------------------------
(***************************************************************************)
(* Proofs about the two kinds of draft the bot keeps: those of orders      *)
(* (OrderMessages), for any number of drafts, clicks and status handlers,  *)
(* and those of stash requests (StashDraft), whose invariants, StashInv    *)
(* and ShownInv, are in the second half.                                   *)
(*                                                                         *)
(* OrderInv is inductive.  That a draft becomes one order rests on the     *)
(* order's id in the draft: while the draft exists the two name each       *)
(* other, and no other draft is stored under its name afterwards.  That a  *)
(* message is not sent again rests on what a confirm handler holds: it is  *)
(* the only one of its draft, and between the send and the link, which may *)
(* fail, it keeps every other from looking for the message.                *)
(***************************************************************************)
EXTENDS MCDrafts, CommonLemmas, SequenceTheorems

MessageRow == [order : Nat, draft : Drafts, terms : Terms, shows : Statuses]
Confirming == [pc : {"save", "look", "post", "close"}, draft : Drafts]
                \cup [pc : {"link", "close"}, draft : Drafts, message : Nat]
Updating == [pc : {"edit"}, message : Nat, terms : Terms, shows : Statuses]

OrderTypes ==
  /\ drafts \in [Drafts -> DraftRow \cup {None}]
  /\ orders \in Seq(OrderRow \cup {None})
  /\ channel \in Seq(MessageRow)
  /\ DOMAIN clicks = Clicks /\ \A c \in Clicks : clicks[c] = Idle \/ clicks[c] \in Confirming
  /\ DOMAIN updates = Updaters /\ \A u \in Updaters : updates[u] = Idle \/ updates[u] \in Updating
  /\ unsure \in Nat

DraftFits(d) ==
  drafts[d] # None =>
    /\ drafts[d].orderID \in 0..Len(orders)
    /\ Saved(drafts[d].orderID) =>
         /\ orders[drafts[d].orderID].draft = d
         /\ orders[drafts[d].orderID].terms = drafts[d].terms

OrderFits(n) ==
  Saved(n) =>
    /\ drafts[orders[n].draft] # None => drafts[orders[n].draft].orderID = n
    /\ \A m \in DOMAIN orders \ {n} : Saved(m) => orders[m].draft # orders[n].draft
    /\ orders[n].message # None =>
         orders[n].message \in DOMAIN channel /\ channel[orders[n].message].order = n

MessageFits(m) ==
  Saved(channel[m].order) /\ channel[m].terms = orders[channel[m].order].terms

\* The stages of a confirm handler, with its draft's order.
ClickFits(c) ==
  clicks[c] # Idle =>
    LET id == DraftOf(c).orderID
    IN  /\ DraftOf(c) # None
        /\ clicks[c].pc = "save" <=> id = 0
        /\ clicks[c].pc \in {"post", "link"} => Saved(id) /\ orders[id].message = None
        /\ clicks[c].pc = "close" => Saved(id) /\ orders[id].message # None
        /\ clicks[c].pc = "link" => /\ clicks[c].message \in DOMAIN channel
                                    /\ channel[clicks[c].message].order = id

\* lockOrderDraft
OneClick(c, e) == clicks[c] # Idle /\ clicks[e] # Idle => clicks[c].draft # clicks[e].draft

UpdateFits(u) ==
  updates[u] # Idle =>
    /\ updates[u].message \in DOMAIN channel
    /\ updates[u].terms = orders[channel[updates[u].message].order].terms

\* The messages of an order; and whether another may still be sent for it.
Posts(n) == {m \in DOMAIN channel : channel[m].order = n}
Unposted(n) ==
  /\ Saved(n) /\ orders[n].message = None
  /\ drafts[orders[n].draft] # None
  /\ \A c \in Clicks : clicks[c] # Idle /\ clicks[c].draft = orders[n].draft => clicks[c].pc # "link"
PostsFit(n) ==
  /\ Cardinality(Posts(n)) <= 1 + unsure
  /\ Unposted(n) => Cardinality(Posts(n)) <= unsure

OrderInv ==
  /\ OrderTypes
  /\ \A d \in Drafts : DraftFits(d)
  /\ \A n \in DOMAIN orders : OrderFits(n) /\ PostsFit(n)
  /\ \A m \in DOMAIN channel : MessageFits(m)
  /\ \A c \in Clicks : ClickFits(c)
  /\ \A c, e \in Clicks : c # e => OneClick(c, e)
  /\ \A u \in Updaters : UpdateFits(u)


-----------------------------------------------------------------------------
LEMMA OrderInitInv == Init => OrderInv
  <1> SUFFICES ASSUME Init PROVE OrderInv
    OBVIOUS
  <1>1. OrderTypes
    BY DEF Init, OrderTypes, Idle
  <1>2. DOMAIN orders = {} /\ DOMAIN channel = {}
    BY DEF Init
  <1>3. (\A d \in Drafts : DraftFits(d)) /\ (\A c \in Clicks : ClickFits(c))
    BY DEF Init, DraftFits, ClickFits
  <1>4. (\A c, e \in Clicks : OneClick(c, e)) /\ (\A u \in Updaters : UpdateFits(u))
    BY DEF Init, OneClick, UpdateFits
  <1>5. QED
    BY <1>1, <1>2, <1>3, <1>4 DEF OrderInv

\* What a handler at work knows of its draft.
LEMMA ClickAtWork ==
  ASSUME OrderInv, NEW c \in Clicks, clicks[c] # Idle
  PROVE  /\ clicks[c] \in Confirming /\ clicks[c].draft \in Drafts
         /\ DraftOf(c) \in DraftRow /\ DraftOf(c) # None
         /\ ClickFits(c) /\ DraftFits(clicks[c].draft)
         /\ \A e \in Clicks \ {c} : clicks[e] # Idle => clicks[e].draft # clicks[c].draft
  <1>1. clicks[c] \in Confirming /\ ClickFits(c) /\ clicks[c].draft \in Drafts
    BY DEF OrderInv, OrderTypes, Confirming
  <1>2. DraftOf(c) \in DraftRow /\ DraftOf(c) # None
    BY <1>1 DEF OrderInv, OrderTypes, ClickFits, DraftOf
  <1>3. \A e \in Clicks \ {c} : clicks[e] # Idle => clicks[e].draft # clicks[c].draft
    BY DEF OrderInv, OneClick
  <1>4. QED
    BY <1>1, <1>2, <1>3 DEF OrderInv

LEMMA OrderTypesOf ==
  ASSUME OrderInv, NEW n, Saved(n)
  PROVE  n \in DOMAIN orders /\ n \in Nat /\ n # 0 /\ orders[n] \in OrderRow /\ orders[n].draft \in Drafts
  BY DEF OrderInv, OrderTypes, Saved, OrderRow

-----------------------------------------------------------------------------
\* Steps that save nothing and send nothing: drafts are begun, edited and
\* deleted, handlers go on or return.
Kept(d) ==
  /\ drafts[d] # None /\ drafts'[d] # None
  /\ drafts'[d].orderID = drafts[d].orderID
  /\ drafts[d].orderID # 0 => drafts'[d].terms = drafts[d].terms
Begun(d) ==
  /\ drafts'[d] # None /\ drafts'[d].orderID = 0
  /\ \A n \in DOMAIN orders : Saved(n) => orders[n].draft # d
Bookkeeping ==
  /\ UNCHANGED <<orders, channel, unsure>>
  /\ drafts' \in [Drafts -> DraftRow \cup {None}]
  /\ \A d \in Drafts : drafts'[d] = None \/ Kept(d) \/ Begun(d)
  /\ DOMAIN updates' = Updaters /\ \A u \in Updaters : updates'[u] \in {updates[u], Idle}
  /\ \A c \in Clicks : clicks[c] # Idle /\ clicks[c].pc = "link" =>
       clicks'[c] = clicks[c] \/ drafts'[clicks[c].draft] = None

LEMMA BookkeepingStep ==
  ASSUME OrderInv, Bookkeeping,
         DOMAIN clicks' = Clicks, \A c \in Clicks : clicks'[c] = Idle \/ clicks'[c] \in Confirming,
         \A c \in Clicks : ClickFits(c)', \A c, e \in Clicks : c # e => OneClick(c, e)'
  PROVE  OrderInv'
  <1>1. OrderTypes'
    BY DEF OrderInv, OrderTypes, Bookkeeping
  <1>2. /\ orders' = orders /\ channel' = channel /\ unsure' = unsure
        /\ \A n : Saved(n)' <=> Saved(n)
    BY DEF Bookkeeping, Saved
  <1>3. ~Saved(0)
    BY DEF Saved, OrderInv, OrderTypes
  <1>4. ASSUME NEW d \in Drafts PROVE DraftFits(d)'
    <2>1. CASE Kept(d)
      <3>1. DraftFits(d)
        BY DEF OrderInv
      <3>2. QED
        BY <1>2, <1>3, <2>1, <3>1 DEF Kept, DraftFits
    <2>2. CASE Begun(d)
      <3>1. Len(orders) \in Nat
        BY DEF OrderInv, OrderTypes
      <3>2. QED
        BY <1>2, <1>3, <2>2, <3>1 DEF Begun, DraftFits
    <2>3. CASE drafts'[d] = None
      BY <2>3 DEF DraftFits
    <2>4. QED
      BY <2>1, <2>2, <2>3 DEF Bookkeeping
  <1>5. ASSUME NEW n \in DOMAIN orders PROVE OrderFits(n)' /\ PostsFit(n)'
    <2>1. OrderFits(n) /\ PostsFit(n)
      BY DEF OrderInv
    <2>2. Saved(n) => orders[n].draft \in Drafts
      BY OrderTypesOf
    <2>3. Saved(n) /\ drafts'[orders[n].draft] # None => Kept(orders[n].draft)
      BY <2>2 DEF Bookkeeping, Begun
    <2>4. OrderFits(n)'
      BY <1>2, <2>1, <2>3 DEF OrderFits, Kept
    <2>5. Unposted(n)' => Unposted(n)
      <3> SUFFICES ASSUME Unposted(n)' PROVE Unposted(n)
        OBVIOUS
      <3>1. /\ Saved(n) /\ orders[n].message = None /\ drafts'[orders[n].draft] # None
            /\ \A c \in Clicks : clicks'[c] # Idle /\ clicks'[c].draft = orders[n].draft
                                   => clicks'[c].pc # "link"
        BY <1>2 DEF Unposted
      <3>2. drafts[orders[n].draft] # None
        BY <2>3, <3>1 DEF Kept
      <3>3. ASSUME NEW c \in Clicks, clicks[c] # Idle, clicks[c].draft = orders[n].draft
            PROVE  clicks[c].pc # "link"
        BY <3>1, <3>3 DEF Bookkeeping
      <3>4. QED
        BY <3>1, <3>2, <3>3 DEF Unposted
    <2>6. Posts(n)' = Posts(n)
      BY <1>2 DEF Posts
    <2>7. QED
      BY <1>2, <2>1, <2>4, <2>5, <2>6 DEF PostsFit
  <1>6. \A m \in DOMAIN channel : MessageFits(m)'
    BY <1>2 DEF OrderInv, MessageFits
  <1>7. \A u \in Updaters : UpdateFits(u)'
    BY <1>2 DEF OrderInv, UpdateFits, Bookkeeping
  <1>8. QED
    BY <1>1, <1>2, <1>4, <1>5, <1>6, <1>7 DEF OrderInv


\* The forms' steps: no handler is at work on a draft that goes or begins.
LEMMA FormStep ==
  ASSUME OrderInv, UNCHANGED <<orders, channel, unsure, clicks, updates>>,
         drafts' \in [Drafts -> DraftRow \cup {None}],
         \A d \in Drafts : drafts'[d] = None \/ Kept(d) \/ Begun(d),
         \A c \in Clicks : clicks[c] # Idle => Kept(clicks[c].draft)
  PROVE  OrderInv'
  <1>1. Bookkeeping
    BY DEF OrderInv, OrderTypes, Bookkeeping
  <1>2. \A c \in Clicks : ClickFits(c)'
    BY DEF OrderInv, ClickFits, DraftOf, Kept, Saved
  <1>3. \A c, e \in Clicks : c # e => OneClick(c, e)'
    BY DEF OrderInv, OneClick
  <1>4. QED
    BY <1>1, <1>2, <1>3, BookkeepingStep DEF OrderInv, OrderTypes

LEMMA FormSteps ==
  ASSUME OrderInv, NEW d \in Drafts, NEW t \in Terms,
         StartDraft(d, t) \/ EditDraft(d, t) \/ Expire(d) \/ Purge(d)
  PROVE  OrderInv'
  <1>1. \A c \in Clicks : clicks[c] # Idle =>
          /\ clicks[c].draft \in Drafts /\ drafts[clicks[c].draft] # None
          /\ clicks[c].draft = d => Busy(d)
    BY ClickAtWork DEF DraftOf, Busy
  <1>2. drafts \in [Drafts -> DraftRow \cup {None}]
    BY DEF OrderInv, OrderTypes
  <1>3. \A e \in Drafts : drafts[e] # None /\ drafts'[e] = drafts[e] => Kept(e)
    BY DEF Kept
  <1>4. CASE StartDraft(d, t)
    <2> DEFINE blank == [terms |-> t, orderID |-> 0, expired |-> FALSE]
    <2>1. blank \in DraftRow /\ blank.orderID = 0
      BY DEF DraftRow
    <2>2. /\ drafts[d] = None /\ drafts' = [drafts EXCEPT ![d] = blank]
          /\ UNCHANGED <<orders, channel, unsure, clicks, updates>>
          /\ \A n \in DOMAIN orders : Saved(n) => orders[n].draft # d
      BY <1>4 DEF StartDraft, Saved
    <2> HIDE DEF blank
    <2>3. Begun(d)
      BY <1>2, <2>1, <2>2, NoneAssumption DEF Begun
    <2>4. \A e \in Drafts \ {d} : drafts'[e] = drafts[e]
      BY <1>2, <2>2
    <2>5. drafts' \in [Drafts -> DraftRow \cup {None}]
      BY <1>2, <2>1, <2>2
    <2>6. QED
      BY <1>1, <1>3, <2>2, <2>3, <2>4, <2>5, FormStep
  <1>5. CASE EditDraft(d, t) \/ Expire(d)
    <2>1. PICK row : /\ \/ row = [drafts[d] EXCEPT !.terms = t] /\ drafts[d].orderID = 0
                        \/ row = [drafts[d] EXCEPT !.expired = TRUE]
                     /\ drafts' = [drafts EXCEPT ![d] = row]
      <3>1. CASE EditDraft(d, t)
        <4>1. /\ drafts[d].orderID = 0
              /\ drafts' = [drafts EXCEPT ![d] = [drafts[d] EXCEPT !.terms = t]]
          BY <3>1 DEF EditDraft
        <4>2. QED
          BY <4>1
      <3>2. CASE Expire(d)
        <4>1. drafts' = [drafts EXCEPT ![d] = [drafts[d] EXCEPT !.expired = TRUE]]
          BY <3>2 DEF Expire
        <4>2. QED
          BY <4>1
      <3>3. QED
        BY <1>5, <3>1, <3>2
    <2>2. drafts[d] # None /\ UNCHANGED <<orders, channel, unsure, clicks, updates>>
      BY <1>5 DEF EditDraft, Expire
    <2>3. /\ row \in DraftRow /\ row.orderID = drafts[d].orderID
          /\ drafts[d].orderID # 0 => row.terms = drafts[d].terms
      BY <1>2, <2>1, <2>2 DEF DraftRow
    <2>4. Kept(d) /\ \A e \in Drafts \ {d} : drafts'[e] = drafts[e]
      BY <1>2, <2>1, <2>2, <2>3, NoneAssumption DEF Kept
    <2>5. drafts' \in [Drafts -> DraftRow \cup {None}]
      BY <1>2, <2>1, <2>3
    <2>6. QED
      BY <1>1, <1>3, <2>2, <2>4, <2>5, FormStep
  <1>6. CASE Purge(d)
    <2>1. /\ ~Busy(d) /\ drafts' = [drafts EXCEPT ![d] = None]
          /\ UNCHANGED <<orders, channel, unsure, clicks, updates>>
      BY <1>6 DEF Purge
    <2>2. drafts'[d] = None /\ \A e \in Drafts \ {d} : drafts'[e] = drafts[e]
      BY <1>2, <2>1
    <2>3. drafts' \in [Drafts -> DraftRow \cup {None}]
      BY <1>2, <2>1
    <2>4. QED
      BY <1>1, <1>3, <2>1, <2>2, <2>3, FormStep
  <1>7. QED
    BY <1>4, <1>5, <1>6

\* A confirm handler goes on or returns, and its draft stays or is deleted.
LEMMA ClickStep ==
  ASSUME OrderInv, NEW c \in Clicks, NEW next, clicks' = [clicks EXCEPT ![c] = next],
         UNCHANGED <<orders, channel, unsure, updates>>,
         next = Idle \/ next \in Confirming,
         \/ drafts' = drafts /\ (clicks[c] # Idle => clicks[c].pc # "link")
         \/ clicks[c] # Idle /\ next = Idle /\ drafts' = [drafts EXCEPT ![clicks[c].draft] = None],
         ClickFits(c)',
         \A e \in Clicks \ {c} : clicks[e] # Idle /\ next # Idle => clicks[e].draft # next.draft
  PROVE  OrderInv'
  <1>1. clicks'[c] = next /\ DOMAIN clicks' = Clicks /\ \A e \in Clicks \ {c} : clicks'[e] = clicks[e]
    BY DEF OrderInv, OrderTypes
  <1>2. drafts \in [Drafts -> DraftRow \cup {None}]
    BY DEF OrderInv, OrderTypes
  <1>3. drafts' \in [Drafts -> DraftRow \cup {None}]
    BY <1>2
  <1>4. \A d \in Drafts : drafts'[d] \in {drafts[d], None}
    BY <1>2
  <1>5. \A e \in Clicks \ {c} : clicks[e] # Idle => drafts'[clicks[e].draft] = drafts[clicks[e].draft]
    BY <1>2, ClickAtWork
  <1>6. Bookkeeping
    <2>1. \A e \in Clicks : clicks[e] # Idle /\ clicks[e].pc = "link" =>
            clicks'[e] = clicks[e] \/ drafts'[clicks[e].draft] = None
      BY <1>1, <1>2, ClickAtWork
    <2>2. QED
      BY <1>3, <1>4, <2>1 DEF OrderInv, OrderTypes, Bookkeeping, Kept
  <1>7. \A e \in Clicks : ClickFits(e)'
    <2>1. ASSUME NEW e \in Clicks \ {c} PROVE ClickFits(e)'
      BY <1>1, <1>5 DEF OrderInv, ClickFits, DraftOf, Saved
    <2>2. QED
      BY <2>1
  <1>8. \A e, f \in Clicks : e # f => OneClick(e, f)'
    BY <1>1 DEF OrderInv, OneClick
  <1>9. QED
    BY <1>1, <1>6, <1>7, <1>8, BookkeepingStep DEF OrderInv, OrderTypes

LEMMA ConfirmStep ==
  ASSUME OrderInv, NEW c \in Clicks, NEW d \in Drafts, Confirm(c, d)
  PROVE  OrderInv'
  <1> DEFINE next == [pc |-> IF drafts[d].orderID = 0 THEN "save" ELSE "look", draft |-> d]
  <1>1. /\ clicks[c] = Idle /\ drafts[d] # None /\ ~Busy(d)
        /\ clicks' = [clicks EXCEPT ![c] = next]
        /\ UNCHANGED <<drafts, orders, channel, updates, unsure>>
    BY DEF Confirm
  <1>2. /\ next \in Confirming /\ next.draft = d
        /\ next.pc = IF drafts[d].orderID = 0 THEN "save" ELSE "look"
    BY DEF Confirming
  <1> HIDE DEF next
  <1>3. clicks'[c] = next
    BY <1>1 DEF OrderInv, OrderTypes
  <1>4. ClickFits(c)'
    BY <1>1, <1>2, <1>3 DEF ClickFits, DraftOf
  <1>5. \A e \in Clicks \ {c} : clicks[e] # Idle => clicks[e].draft # d
    BY <1>1 DEF Busy
  <1>6. QED
    BY <1>1, <1>2, <1>4, <1>5, ClickStep

LEMMA GivesUpClickStep ==
  ASSUME OrderInv, NEW c \in Clicks, clicks[c] # Idle, clicks' = [clicks EXCEPT ![c] = Idle],
         UNCHANGED <<orders, channel, unsure, updates>>,
         \/ drafts' = drafts /\ clicks[c].pc # "link"
         \/ drafts' = [drafts EXCEPT ![clicks[c].draft] = None]
  PROVE  OrderInv'
  <1>1. clicks'[c] = Idle
    BY DEF OrderInv, OrderTypes
  <1>2. ClickFits(c)'
    BY <1>1 DEF ClickFits
  <1>3. QED
    BY <1>2, ClickStep

LEMMA LookStep ==
  ASSUME OrderInv, NEW c \in Clicks, Look(c)
  PROVE  OrderInv'
  <1> DEFINE id == DraftOf(c).orderID
             pc == IF orders[id].message = None THEN "post" ELSE "close"
             next == [clicks[c] EXCEPT !.pc = pc]
  <1>1. clicks[c].pc = "look" /\ clicks[c] # Idle /\ UNCHANGED <<drafts, orders, channel, unsure, updates>>
    BY DEF Look, Idle
  <1>2. clicks' = [clicks EXCEPT ![c] = IF ~Saved(id) THEN Idle ELSE next]
    BY DEF Look
  <1>3. CASE ~Saved(id)
    BY <1>1, <1>2, <1>3, GivesUpClickStep
  <1>4. CASE Saved(id)
    <2>1. clicks[c] \in Confirming /\ clicks[c] \in [pc : {"look"}, draft : Drafts]
      BY <1>1, ClickAtWork DEF Confirming
    <2>2. next \in Confirming /\ next.draft = clicks[c].draft /\ next.pc = pc /\ next # Idle
      BY <2>1 DEF Confirming, Idle
    <2> HIDE DEF next
    <2>3. clicks'[c] = next
      BY <1>2, <1>4 DEF OrderInv, OrderTypes
    <2>4. clicks[c].draft = next.draft /\ DraftOf(c)' = DraftOf(c)
      BY <1>1, <2>2, <2>3 DEF DraftOf
    <2>5. id # 0 /\ DraftOf(c) # None
      BY <1>1, ClickAtWork DEF ClickFits
    <2>6. ClickFits(c)'
      <3>1. pc = "post" => orders[id].message = None
        OBVIOUS
      <3>2. pc = "close" => orders[id].message # None
        OBVIOUS
      <3>3. Saved(id)' /\ DraftOf(c)'.orderID = id /\ orders' = orders
        BY <1>1, <1>4, <2>4 DEF Saved
      <3>4. pc \in {"post", "close"}
        OBVIOUS
      <3> HIDE DEF pc
      <3>5. QED
        BY <2>2, <2>3, <2>4, <2>5, <3>1, <3>2, <3>3, <3>4 DEF ClickFits
    <2>7. \A e \in Clicks \ {c} : clicks[e] # Idle => clicks[e].draft # next.draft
      BY <1>1, <2>2, ClickAtWork
    <2>8. QED
      BY <1>1, <1>2, <1>4, <2>2, <2>6, <2>7, ClickStep
  <1>5. QED
    BY <1>3, <1>4

LEMMA RestartStep ==
  ASSUME OrderInv, Restart
  PROVE  OrderInv'
  <1>1. /\ drafts' = [d \in Drafts |-> None] /\ clicks' = [c \in Clicks |-> Idle]
        /\ updates' = [u \in Updaters |-> Idle] /\ UNCHANGED <<orders, channel, unsure>>
    BY DEF Restart
  <1>2. Bookkeeping
    BY <1>1, ClickAtWork DEF Bookkeeping
  <1>3. (\A c \in Clicks : ClickFits(c)') /\ \A c, e \in Clicks : c # e => OneClick(c, e)'
    BY <1>1 DEF ClickFits, OneClick
  <1>4. QED
    BY <1>1, <1>2, <1>3, BookkeepingStep


-----------------------------------------------------------------------------
\* An order is saved under the next id, or the id is used up; the draft keeps it.
LEMMA SaveStep ==
  ASSUME OrderInv, NEW c \in Clicks, clicks[c].pc = "save",
         NEW outcome \in {NewOrder(c), None}, orders' = Append(orders, outcome),
         drafts' = [drafts EXCEPT ![clicks[c].draft].orderID = Len(orders')],
         NEW next \in {Idle, [clicks[c] EXCEPT !.pc = "look"]},
         clicks' = [clicks EXCEPT ![c] = next],
         UNCHANGED <<channel, updates, unsure>>
  PROVE  OrderInv'
  <1>1. clicks[c] # Idle
    BY DEF Idle
  <1>2. PICK d \in Drafts : d = clicks[c].draft
    BY <1>1, ClickAtWork
  <1>3. PICK id \in Nat : id = Len(orders) + 1
    BY DEF OrderInv, OrderTypes
  <1>4. /\ drafts[d] \in DraftRow /\ drafts[d] # None /\ drafts[d].orderID = 0
        /\ \A e \in Clicks \ {c} : clicks[e] # Idle => clicks[e].draft # d
    BY <1>1, <1>2, ClickAtWork DEF ClickFits, DraftOf
  <1>5. NewOrder(c) \in OrderRow /\ NewOrder(c).draft = d /\ NewOrder(c).message = None
        /\ NewOrder(c).terms = drafts[d].terms
    BY <1>2, <1>4 DEF NewOrder, OrderRow, DraftRow, DraftOf, Statuses
  <1>6. orders \in Seq(OrderRow \cup {None}) /\ outcome \in OrderRow \cup {None}
    BY <1>5 DEF OrderInv, OrderTypes
  <1>7. /\ orders' \in Seq(OrderRow \cup {None}) /\ Len(orders) = id - 1 /\ Len(orders') = id
        /\ orders'[id] = outcome /\ \A n \in 1..(id - 1) : orders'[n] = orders[n]
        /\ DOMAIN orders = 1..(id - 1) /\ DOMAIN orders' = 1..id
    BY <1>3, <1>6
  <1>8. /\ \A n \in 0..(id - 1) : Saved(n)' <=> Saved(n)
        /\ Saved(id)' => outcome = NewOrder(c)
        /\ ~Saved(0) /\ \A n : Saved(n) => n \in 1..(id - 1)
    BY <1>7 DEF Saved
  <1>9. drafts' = [drafts EXCEPT ![d] = [drafts[d] EXCEPT !.orderID = id]]
    BY <1>2, <1>7
  <1>10. /\ drafts'[d] = [drafts[d] EXCEPT !.orderID = id]
         /\ \A e \in Drafts \ {d} : drafts'[e] = drafts[e]
    BY <1>9 DEF OrderInv, OrderTypes
  <1>11. /\ drafts'[d] \in DraftRow /\ drafts'[d] # None /\ drafts'[d].orderID = id
         /\ drafts'[d].terms = drafts[d].terms
    <2>1. /\ drafts'[d] \in DraftRow /\ drafts'[d].orderID = id /\ drafts'[d].terms = drafts[d].terms
      BY <1>4, <1>10 DEF DraftRow
    <2>2. QED
      BY <2>1, NoneAssumption
  <1>12. \A n \in 1..(id - 1) : Saved(n) => orders[n].draft # d
    BY <1>3, <1>4, <1>7, <1>8 DEF OrderInv, OrderFits
  <1>13. /\ clicks'[c] = next /\ DOMAIN clicks' = Clicks
         /\ \A e \in Clicks \ {c} : clicks'[e] = clicks[e]
    BY DEF OrderInv, OrderTypes
  <1>14. next = Idle \/ (next \in Confirming /\ next.pc = "look" /\ next.draft = d)
    <2>1. clicks[c] \in [pc : {"save"}, draft : Drafts]
      BY <1>1, ClickAtWork DEF Confirming
    <2>2. QED
      BY <1>2, <2>1 DEF Confirming
  <1>15. OrderTypes'
    <2>1. drafts' \in [Drafts -> DraftRow \cup {None}]
      BY <1>9, <1>10, <1>11 DEF OrderInv, OrderTypes
    <2>2. QED
      BY <1>7, <1>13, <1>14, <2>1 DEF OrderInv, OrderTypes
  <1>16. ASSUME NEW e \in Drafts PROVE DraftFits(e)'
    <2>1. CASE e = d
      <3>1. Saved(id)' => orders'[id].draft = d /\ orders'[id].terms = drafts'[d].terms
        BY <1>5, <1>7, <1>8, <1>11
      <3>2. QED
        BY <1>3, <1>7, <1>11, <2>1, <3>1 DEF DraftFits
    <2>2. CASE e # d
      <3>1. DraftFits(e) /\ drafts'[e] = drafts[e]
        BY <1>10, <2>2 DEF OrderInv
      <3>2. CASE drafts[e] # None
        <4>1. PICK n \in 0..(id - 1) : n = drafts[e].orderID
          BY <1>7, <3>1, <3>2 DEF DraftFits
        <4>2. (Saved(n)' <=> Saved(n)) /\ (Saved(n) => orders'[n] = orders[n])
          BY <1>7, <1>8
        <4>3. n \in 0..Len(orders')
          BY <1>3, <1>7
        <4>4. QED
          BY <3>1, <3>2, <4>1, <4>2, <4>3 DEF DraftFits
      <3>3. CASE drafts[e] = None
        BY <3>1, <3>3 DEF DraftFits
      <3>4. QED
        BY <3>2, <3>3
    <2>3. QED
      BY <2>1, <2>2
  <1>17. ASSUME NEW n \in 1..(id - 1) PROVE OrderFits(n)' /\ PostsFit(n)'
    <2>1. OrderFits(n) /\ PostsFit(n) /\ orders'[n] = orders[n] /\ (Saved(n)' <=> Saved(n))
      BY <1>7, <1>8 DEF OrderInv
    <2>2. Saved(n) => orders[n].draft \in Drafts \ {d}
      BY <1>12, OrderTypesOf
    <2>3. Saved(n) => drafts'[orders[n].draft] = drafts[orders[n].draft]
      BY <1>10, <2>2
    <2>4. \A m \in 1..id : Saved(m)' =>
            \/ m \in 1..(id - 1) /\ Saved(m) /\ orders'[m] = orders[m]
            \/ m = id /\ orders'[m].draft = d
      BY <1>3, <1>5, <1>7, <1>8
    <2>5. OrderFits(n)'
      BY <1>7, <2>1, <2>2, <2>3, <2>4 DEF OrderFits
    <2>6. Unposted(n)' => Unposted(n)
      BY <1>13, <1>14, <1>2, <2>1, <2>2, <2>3, ZenonT(40) DEF Unposted
    <2>7. QED
      BY <2>1, <2>5, <2>6 DEF PostsFit, Posts
  <1>18. OrderFits(id)' /\ PostsFit(id)'
    <2>1. OrderFits(id)'
      BY <1>5, <1>7, <1>8, <1>11, <1>12 DEF OrderFits
    <2>2. Posts(id)' = {}
      BY <1>3, <1>8 DEF Posts, OrderInv, MessageFits
    <2>3. QED
      BY <2>1, <2>2, FS_EmptySet DEF PostsFit, OrderInv, OrderTypes
  <1>19. \A m \in DOMAIN channel : MessageFits(m)'
    BY <1>7, <1>8 DEF OrderInv, MessageFits
  <1>20. ASSUME NEW e \in Clicks PROVE ClickFits(e)'
    <2>1. CASE e = c
      BY <1>2, <1>3, <1>11, <1>13, <1>14, <2>1 DEF ClickFits, DraftOf
    <2>2. CASE e # c /\ clicks[e] # Idle
      <3>1. clicks'[e] = clicks[e] /\ ClickFits(e) /\ clicks[e].draft \in Drafts \ {d}
            /\ DraftFits(clicks[e].draft)
        BY <1>4, <1>13, <2>2, ClickAtWork
      <3>2. DraftOf(e)' = DraftOf(e) /\ DraftOf(e) # None
        BY <1>10, <2>2, <3>1 DEF DraftOf, ClickFits
      <3>3. DraftOf(e).orderID \in 0..(id - 1)
        BY <1>7, <3>1, <3>2 DEF DraftFits, DraftOf
      <3>4. /\ Saved(DraftOf(e).orderID)' <=> Saved(DraftOf(e).orderID)
            /\ Saved(DraftOf(e).orderID) => orders'[DraftOf(e).orderID] = orders[DraftOf(e).orderID]
        BY <1>7, <1>8, <3>2, <3>3 DEF Saved
      <3>5. QED
        BY <2>2, <3>1, <3>2, <3>4 DEF ClickFits
    <2>3. CASE e # c /\ clicks[e] = Idle
      BY <1>13, <2>3 DEF ClickFits
    <2>4. QED
      BY <2>1, <2>2, <2>3
  <1>21. \A e, f \in Clicks : e # f => OneClick(e, f)'
    BY <1>2, <1>4, <1>13, <1>14 DEF OrderInv, OneClick
  <1>22. \A u \in Updaters : UpdateFits(u)'
    BY <1>7, <1>8 DEF OrderInv, UpdateFits, MessageFits
  <1>23. QED
    BY <1>3, <1>7, <1>15, <1>16, <1>17, <1>18, <1>19, <1>20, <1>21, <1>22 DEF OrderInv


-----------------------------------------------------------------------------
\* A message is sent, and perhaps arrives.
LEMMA SendStep ==
  ASSUME OrderInv, NEW c \in Clicks, clicks[c].pc = "post",
         NEW next, clicks' = [clicks EXCEPT ![c] = next],
         \/ /\ channel' = Append(channel, Message(c)) /\ unsure' = unsure
            /\ next = [pc |-> "link", draft |-> clicks[c].draft, message |-> Len(channel')]
         \/ /\ channel' \in {channel, Append(channel, Message(c))} /\ unsure' = unsure + 1
            /\ next = Idle,
         UNCHANGED <<drafts, orders, updates>>
  PROVE  OrderInv'
  <1>1. clicks[c] # Idle
    BY DEF Idle
  <1>2. PICK d \in Drafts : d = clicks[c].draft
    BY <1>1, ClickAtWork
  <1>3. PICK id \in Nat : id = drafts[d].orderID
    BY <1>1, <1>2, ClickAtWork DEF DraftRow, DraftOf
  <1>4. /\ drafts[d] \in DraftRow /\ drafts[d] # None /\ id # 0
        /\ Saved(id) /\ orders[id].message = None /\ id \in DOMAIN orders
        /\ orders[id].draft = d /\ orders[id].terms = drafts[d].terms
        /\ \A e \in Clicks \ {c} : clicks[e] # Idle => clicks[e].draft # d
    BY <1>1, <1>2, <1>3, ClickAtWork DEF ClickFits, DraftFits, DraftOf, Saved
  <1>5. PICK new \in MessageRow : new = Message(c)
    BY <1>2, <1>3, <1>4 DEF Message, MessageRow, DraftRow, DraftOf, Statuses
  <1>6. new.order = id /\ new.terms = drafts[d].terms
    BY <1>2, <1>3, <1>5 DEF Message, DraftOf
  <1>7. PICK k \in Nat : k = Len(channel) /\ DOMAIN channel = 1..k
    BY DEF OrderInv, OrderTypes
  <1>8. /\ Append(channel, new) \in Seq(MessageRow) /\ Len(Append(channel, new)) = k + 1
        /\ Append(channel, new)[k + 1] = new /\ \A m \in 1..k : Append(channel, new)[m] = channel[m]
        /\ DOMAIN Append(channel, new) = 1..(k + 1)
    BY <1>7 DEF OrderInv, OrderTypes
  <1>9. /\ channel' \in Seq(MessageRow)
        /\ \A m \in DOMAIN channel : m \in DOMAIN channel' /\ channel'[m] = channel[m]
        /\ \A m \in DOMAIN channel' \ DOMAIN channel : m = k + 1 /\ channel'[m] = new
    <2>1. CASE channel' = channel
      BY <2>1 DEF OrderInv, OrderTypes
    <2>2. CASE channel' = Append(channel, new)
      BY <1>7, <1>8, <2>2
    <2>3. QED
      BY <1>5, <2>1, <2>2
  <1>10. /\ clicks'[c] = next /\ DOMAIN clicks' = Clicks
         /\ \A e \in Clicks \ {c} : clicks'[e] = clicks[e]
    BY DEF OrderInv, OrderTypes
  <1>11. \/ /\ unsure' = unsure /\ next \in Confirming /\ next.pc = "link" /\ next.draft = d
            /\ next.message \in DOMAIN channel' /\ channel'[next.message].order = id
         \/ unsure' = unsure + 1 /\ next = Idle
    <2>1. CASE channel' = Append(channel, new)
               /\ next = [pc |-> "link", draft |-> d, message |-> k + 1]
      BY <1>6, <1>8, <2>1 DEF Confirming
    <2>2. QED
      BY <1>2, <1>5, <1>8, <2>1
  <1>12. /\ unsure \in Nat /\ unsure' \in Nat
         /\ \A n : Saved(n)' <=> Saved(n)
    BY <1>11 DEF OrderInv, OrderTypes, Saved
  <1>13. OrderTypes'
    BY <1>9, <1>10, <1>11, <1>12 DEF OrderInv, OrderTypes
  <1>14. ASSUME NEW n \in DOMAIN orders PROVE PostsFit(n)'
    <2>1. PostsFit(n) /\ Cardinality(Posts(n)) \in Nat /\ IsFiniteSet(Posts(n))
      <3>1. Posts(n) \subseteq 1..k /\ IsFiniteSet(1..k)
        BY <1>7, FS_Interval DEF Posts
      <3>2. IsFiniteSet(Posts(n))
        BY <3>1, FS_Subset
      <3>3. QED
        BY <3>2, FS_CardinalityType DEF OrderInv
    <2>2. CASE n # id
      <3>1. Posts(n)' = Posts(n)
        <4>1. \A m : m \in Posts(n)' <=> m \in DOMAIN channel' /\ channel'[m].order = n
          BY DEF Posts
        <4>2. \A m : m \in Posts(n) <=> m \in DOMAIN channel /\ channel[m].order = n
          BY DEF Posts
        <4>3. \A m : m \in Posts(n)' <=> m \in Posts(n)
          BY <1>6, <1>9, <2>2, <4>1, <4>2
        <4>4. QED
          BY <4>3
      <3>2. Saved(n) => orders[n].draft # d
        BY <1>4, <2>2 DEF OrderInv, OrderFits
      <3>3. Unposted(n)' => Unposted(n)
        BY <1>2, <1>10, <1>12, <3>2 DEF Unposted
      <3>4. QED
        BY <1>11, <1>12, <2>1, <3>1, <3>3 DEF PostsFit
    <2>3. CASE n = id
      <3>1. Unposted(id)
        BY <1>2, <1>4 DEF Unposted
      <3>2. Cardinality(Posts(n)) <= unsure
        BY <2>1, <2>3, <3>1 DEF PostsFit
      <3>3. Posts(n)' = Posts(n) \/ Posts(n)' = Posts(n) \cup {k + 1}
        <4>1. \A m : m \in Posts(n)' <=> m \in DOMAIN channel' /\ channel'[m].order = n
          BY DEF Posts
        <4>2. \A m : m \in Posts(n) <=> m \in DOMAIN channel /\ channel[m].order = n
          BY DEF Posts
        <4>3. \A m : \/ m \in Posts(n)' <=> m \in Posts(n)
                     \/ m = k + 1 /\ m \in Posts(n)' /\ m \notin Posts(n)
          BY <1>9, <4>1, <4>2
        <4>4. CASE k + 1 \in Posts(n)'
          BY <4>3, <4>4
        <4>5. CASE k + 1 \notin Posts(n)'
          BY <4>3, <4>5
        <4>6. QED
          BY <4>4, <4>5
      <3>4. Cardinality(Posts(n)') \in {Cardinality(Posts(n)), Cardinality(Posts(n)) + 1}
        BY <2>1, <3>3, FS_AddElement
      <3>5. Unposted(n)' => unsure' = unsure + 1
        <4>1. ASSUME next.pc = "link", next.draft = d PROVE ~Unposted(n)'
          <5>1. next # Idle
            BY <4>1 DEF Idle
          <5>2. QED
            BY <1>4, <1>10, <2>3, <4>1, <5>1 DEF Unposted
        <4>2. QED
          BY <1>11, <4>1
      <3>6. Cardinality(Posts(n))' <= 1 + unsure' /\ (Unposted(n)' => Cardinality(Posts(n))' <= unsure')
        BY <1>11, <1>12, <2>1, <3>2, <3>4, <3>5
      <3>7. QED
        BY <3>6 DEF PostsFit
    <2>4. QED
      BY <2>2, <2>3
  <1>15. \A n \in DOMAIN orders : OrderFits(n)'
    BY <1>9, <1>12 DEF OrderInv, OrderFits
  <1>16. \A m \in DOMAIN channel' : MessageFits(m)'
    BY <1>4, <1>6, <1>9, <1>12 DEF OrderInv, MessageFits
  <1>17. \A e \in Drafts : DraftFits(e)'
    BY <1>12 DEF OrderInv, DraftFits
  <1>18. ASSUME NEW e \in Clicks PROVE ClickFits(e)'
    <2>1. CASE e = c
      BY <1>3, <1>4, <1>10, <1>11, <1>12, <2>1 DEF ClickFits, DraftOf
    <2>2. CASE e # c
      BY <1>9, <1>10, <1>12, <2>2 DEF OrderInv, ClickFits, DraftOf
    <2>3. QED
      BY <2>1, <2>2
  <1>19. \A e, f \in Clicks : e # f => OneClick(e, f)'
    BY <1>4, <1>10, <1>11 DEF OrderInv, OneClick
  <1>20. \A u \in Updaters : UpdateFits(u)'
    BY <1>9 DEF OrderInv, UpdateFits
  <1>21. QED
    BY <1>13, <1>14, <1>15, <1>16, <1>17, <1>18, <1>19, <1>20 DEF OrderInv



-----------------------------------------------------------------------------
\* One saved row changes its status or is linked to a message.
LEMMA RowKept ==
  ASSUME OrderInv, NEW n, Saved(n), NEW row \in OrderRow,
         row.draft = orders[n].draft, row.terms = orders[n].terms,
         orders' = [orders EXCEPT ![n] = row]
  PROVE  /\ orders' \in Seq(OrderRow \cup {None}) /\ Len(orders') = Len(orders)
         /\ DOMAIN orders' = DOMAIN orders
         /\ orders'[n] = row /\ \A m \in DOMAIN orders \ {n} : orders'[m] = orders[m]
         /\ \A m : Saved(m)' <=> Saved(m)
         /\ \A m : Saved(m) => /\ orders'[m].draft = orders[m].draft
                               /\ orders'[m].terms = orders[m].terms
  <1>1. orders \in Seq(OrderRow \cup {None}) /\ n \in DOMAIN orders
    BY OrderTypesOf DEF OrderInv, OrderTypes
  <1>2. n \in 1..Len(orders) /\ row \in OrderRow \cup {None}
    BY <1>1
  <1>3. /\ orders' \in Seq(OrderRow \cup {None}) /\ Len(orders') = Len(orders)
        /\ \A i \in 1..Len(orders) : orders'[i] = IF i = n THEN row ELSE orders[i]
    BY <1>1, <1>2, ExceptSeq
  <1>4. DOMAIN orders' = DOMAIN orders /\ DOMAIN orders = 1..Len(orders)
    BY <1>1, <1>3
  <1>5. orders'[n] = row /\ \A m \in DOMAIN orders \ {n} : orders'[m] = orders[m]
    BY <1>2, <1>3, <1>4
  <1>6. row # None
    BY NoneAssumption
  <1>7. \A m : Saved(m)' <=> Saved(m)
    BY <1>4, <1>5, <1>6 DEF Saved
  <1>8. \A m : Saved(m) => orders'[m].draft = orders[m].draft /\ orders'[m].terms = orders[m].terms
    BY <1>5 DEF Saved
  <1>9. QED
    BY <1>3, <1>4, <1>5, <1>7, <1>8

LEMMA RowStep ==
  ASSUME OrderInv, NEW n, Saved(n), NEW row \in OrderRow,
         row.draft = orders[n].draft, row.terms = orders[n].terms,
         \/ row.message = orders[n].message
         \/ row.message \in DOMAIN channel /\ channel[row.message].order = n /\ row.message # None,
         orders' = [orders EXCEPT ![n] = row],
         UNCHANGED <<drafts, channel, unsure>>,
         DOMAIN clicks' = Clicks, \A c \in Clicks : clicks'[c] = Idle \/ clicks'[c] \in Confirming,
         DOMAIN updates' = Updaters, \A u \in Updaters : updates'[u] = Idle \/ updates'[u] \in Updating,
         \A c \in Clicks : clicks'[c] = clicks[c] \/ (clicks[c].draft = row.draft /\ row.message # None),
         \A c \in Clicks : ClickFits(c)', \A c, e \in Clicks : c # e => OneClick(c, e)',
         \A u \in Updaters : UpdateFits(u)'
  PROVE  OrderInv'
  <1>1. /\ orders' \in Seq(OrderRow \cup {None}) /\ Len(orders') = Len(orders)
        /\ DOMAIN orders' = DOMAIN orders
        /\ orders'[n] = row /\ \A m \in DOMAIN orders \ {n} : orders'[m] = orders[m]
        /\ \A m : Saved(m)' <=> Saved(m)
        /\ \A m : Saved(m) => /\ orders'[m].draft = orders[m].draft
                              /\ orders'[m].terms = orders[m].terms
    BY RowKept
  <1>2. drafts' = drafts /\ channel' = channel /\ unsure' = unsure
    OBVIOUS
  <1>3. OrderTypes'
    BY <1>1, <1>2 DEF OrderInv, OrderTypes
  <1>4. ASSUME NEW d \in Drafts PROVE DraftFits(d)'
    <2>1. DraftFits(d)
      BY DEF OrderInv
    <2>2. QED
      BY <1>1, <1>2, <2>1 DEF DraftFits
  <1>5. ASSUME NEW m \in DOMAIN orders PROVE OrderFits(m)' /\ PostsFit(m)'
    <2>1. OrderFits(m) /\ PostsFit(m)
      BY DEF OrderInv
    <2>2. \/ orders'[m].message = orders[m].message
          \/ /\ orders'[m].message # None /\ orders'[m].message \in DOMAIN channel
             /\ channel[orders'[m].message].order = m
      BY <1>1
    <2>3. OrderFits(m)'
      BY <1>1, <1>2, <2>1, <2>2 DEF OrderFits
    <2>4. Unposted(m)' => Unposted(m)
      <3> SUFFICES ASSUME Unposted(m)' PROVE Unposted(m)
        OBVIOUS
      <3>1. /\ Saved(m) /\ orders'[m].message = None /\ drafts[orders[m].draft] # None
            /\ \A c \in Clicks : clicks'[c] # Idle /\ clicks'[c].draft = orders[m].draft
                                   => clicks'[c].pc # "link"
        BY <1>1, <1>2 DEF Unposted
      <3>2. orders[m].message = None
        BY <2>2, <3>1
      <3>3. ASSUME NEW c \in Clicks, clicks[c] # Idle, clicks[c].draft = orders[m].draft
            PROVE  clicks[c].pc # "link"
        <4>1. CASE clicks'[c] = clicks[c]
          BY <3>1, <3>3, <4>1
        <4>2. CASE clicks[c].draft = row.draft /\ row.message # None
          <5>1. m = n
            BY <2>1, <3>1, <3>3, <4>2, OrderTypesOf DEF OrderFits
          <5>2. QED
            BY <1>1, <3>1, <4>2, <5>1
        <4>3. QED
          BY <4>1, <4>2
      <3>4. QED
        BY <3>1, <3>2, <3>3 DEF Unposted
    <2>5. Posts(m)' = Posts(m)
      BY <1>2 DEF Posts
    <2>6. QED
      BY <1>2, <2>1, <2>3, <2>4, <2>5 DEF PostsFit
  <1>6. \A m \in DOMAIN channel : MessageFits(m)'
    BY <1>1, <1>2 DEF OrderInv, MessageFits
  <1>7. QED
    BY <1>1, <1>2, <1>3, <1>4, <1>5, <1>6 DEF OrderInv

LEMMA LinkStep ==
  ASSUME OrderInv, NEW c \in Clicks, Link(c)
  PROVE  OrderInv'
  <1>1. clicks[c].pc = "link" /\ clicks[c] # Idle
    BY DEF Link, Idle
  <1>2. PICK d \in Drafts : d = clicks[c].draft
    BY <1>1, ClickAtWork
  <1>3. PICK id \in Nat : id = drafts[d].orderID
    BY <1>1, <1>2, ClickAtWork DEF DraftRow, DraftOf
  <1>4. PICK m : m = clicks[c].message
    OBVIOUS
  <1>5. /\ id # 0 /\ drafts[d] # None /\ Saved(id) /\ orders[id].message = None
        /\ m \in DOMAIN channel /\ channel[m].order = id
        /\ orders[id].draft = d
        /\ \A e \in Clicks \ {c} : clicks[e] # Idle => clicks[e].draft # d
    BY <1>1, <1>2, <1>3, <1>4, ClickAtWork DEF ClickFits, DraftFits, DraftOf
  <1>6. m \in Nat /\ m # None
    BY <1>5, NoneAssumption DEF OrderInv, OrderTypes
  <1>7. orders[id] \in OrderRow
    BY <1>5, OrderTypesOf
  <1>8. PICK row : row = [orders[id] EXCEPT !.message = m]
    OBVIOUS
  <1>9. /\ row \in OrderRow /\ row.draft = d /\ row.terms = orders[id].terms /\ row.message = m
    BY <1>5, <1>6, <1>7, <1>8 DEF OrderRow
  <1>10. PICK next : next = [clicks[c] EXCEPT !.pc = "close"]
    OBVIOUS
  <1>11. /\ next \in Confirming /\ next.pc = "close" /\ next.draft = d
    <2>1. clicks[c] \in [pc : {"link", "close"}, draft : Drafts, message : Nat]
      BY <1>1, ClickAtWork DEF Confirming
    <2>2. QED
      BY <1>2, <1>10, <2>1 DEF Confirming
  <1>12. /\ orders' = [orders EXCEPT ![id] = row] /\ clicks' = [clicks EXCEPT ![c] = next]
         /\ drafts' = drafts /\ channel' = channel /\ unsure' = unsure /\ updates' = updates
    <2>1. DraftOf(c).orderID = id
      BY <1>2, <1>3 DEF DraftOf
    <2>2. /\ orders' = [orders EXCEPT ![DraftOf(c).orderID] = [@ EXCEPT !.message = clicks[c].message]]
          /\ clicks' = [clicks EXCEPT ![c] = [@ EXCEPT !.pc = "close"]]
      BY DEF Link
    <2>3. drafts' = drafts /\ channel' = channel /\ unsure' = unsure /\ updates' = updates
      BY DEF Link
    <2>4. QED
      BY <1>4, <1>8, <1>10, <2>1, <2>2, <2>3
  <1>13. /\ clicks'[c] = next /\ DOMAIN clicks' = Clicks
         /\ \A e \in Clicks \ {c} : clicks'[e] = clicks[e]
    BY <1>12 DEF OrderInv, OrderTypes
  <1>14. /\ orders'[id] = row /\ \A n \in DOMAIN orders \ {id} : orders'[n] = orders[n]
         /\ \A n : Saved(n)' <=> Saved(n)
         /\ \A n : Saved(n) => orders'[n].terms = orders[n].terms
    <2>1. /\ Saved(id) /\ row \in OrderRow /\ row.draft = orders[id].draft /\ row.terms = orders[id].terms
          /\ orders' = [orders EXCEPT ![id] = row]
      BY <1>5, <1>9, <1>12
    <2>2. QED
      BY <2>1, RowKept
  <1>15. ASSUME NEW e \in Clicks PROVE ClickFits(e)'
    <2>1. CASE e = c
      BY <1>3, <1>5, <1>6, <1>9, <1>11, <1>12, <1>13, <1>14, <2>1 DEF ClickFits, DraftOf
    <2>2. CASE e # c /\ clicks[e] # Idle
      <3>1. /\ clicks'[e] = clicks[e] /\ ClickFits(e) /\ clicks[e].draft # d
            /\ DraftFits(clicks[e].draft) /\ DraftOf(e) # None
        BY <1>5, <1>13, <2>2, ClickAtWork
      <3>2. DraftOf(e)' = DraftOf(e)
        BY <1>12, <3>1 DEF DraftOf
      <3>3. Saved(DraftOf(e).orderID) => orders'[DraftOf(e).orderID] = orders[DraftOf(e).orderID]
        BY <1>5, <1>14, <3>1 DEF DraftFits, DraftOf, Saved
      <3>4. QED
        BY <1>12, <1>14, <2>2, <3>1, <3>2, <3>3 DEF ClickFits
    <2>3. CASE e # c /\ clicks[e] = Idle
      BY <1>13, <2>3 DEF ClickFits
    <2>4. QED
      BY <2>1, <2>2, <2>3
  <1>16. \A e, f \in Clicks : e # f => OneClick(e, f)'
    BY <1>5, <1>11, <1>13 DEF OrderInv, OneClick
  <1>17. ASSUME NEW u \in Updaters PROVE UpdateFits(u)'
    <2>1. UpdateFits(u) /\ \A i \in DOMAIN channel : Saved(channel[i].order)
      BY DEF OrderInv, MessageFits
    <2>2. QED
      BY <1>12, <1>14, <2>1 DEF UpdateFits
  <1>18. /\ \A e \in Clicks : clicks'[e] = Idle \/ clicks'[e] \in Confirming
         /\ \A e \in Clicks : clicks'[e] = clicks[e] \/ (clicks[e].draft = row.draft /\ row.message # None)
    BY <1>2, <1>6, <1>9, <1>11, <1>13 DEF OrderInv, OrderTypes
  <1>19. /\ DOMAIN updates' = Updaters
         /\ \A u \in Updaters : updates'[u] = Idle \/ updates'[u] \in Updating
    BY <1>12 DEF OrderInv, OrderTypes
  <1>20. /\ Saved(id) /\ row \in OrderRow /\ row.draft = orders[id].draft /\ row.terms = orders[id].terms
         /\ row.message \in DOMAIN channel /\ channel[row.message].order = id /\ row.message # None
         /\ orders' = [orders EXCEPT ![id] = row]
         /\ UNCHANGED <<drafts, channel, unsure>>
    BY <1>5, <1>6, <1>9, <1>12
  <1>21. QED
    BY <1>13, <1>15, <1>16, <1>17, <1>18, <1>19, <1>20, RowStep


-----------------------------------------------------------------------------
\* The status handlers.
LEMMA StatusStep ==
  ASSUME OrderInv, NEW u \in Updaters, NEW n, NEW status \in Statuses,
         UpdateStatus(u, n, status) \/ UpdateUncertain(u, n, status)
  PROVE  OrderInv'
  <1>1. /\ Saved(n)
        /\ orders' = [orders EXCEPT ![n] = [@ EXCEPT !.status = status]]
        /\ drafts' = drafts /\ channel' = channel /\ unsure' = unsure /\ clicks' = clicks
    BY DEF UpdateStatus, UpdateUncertain
  <1>2. /\ orders[n] \in OrderRow /\ orders[n].draft \in Drafts
        /\ OrderFits(n)
    BY <1>1, OrderTypesOf DEF OrderInv
  <1>3. PICK row : row = [orders[n] EXCEPT !.status = status]
    OBVIOUS
  <1>4. /\ row \in OrderRow /\ row.draft = orders[n].draft /\ row.terms = orders[n].terms
        /\ row.message = orders[n].message
    BY <1>2, <1>3 DEF OrderRow
  <1>5. orders' = [orders EXCEPT ![n] = row]
    BY <1>1, <1>3
  <1>6. /\ orders'[n] = row /\ \A i \in DOMAIN orders \ {n} : orders'[i] = orders[i]
        /\ \A i : Saved(i)' <=> Saved(i)
        /\ \A i : Saved(i) => orders'[i].terms = orders[i].terms
    BY <1>1, <1>4, <1>5, RowKept
  <1>7. \A i \in DOMAIN orders : orders'[i].message = orders[i].message
    BY <1>4, <1>6
  <1>8. PICK e :
          /\ \/ e = Idle
             \/ /\ orders[n].message # None
                /\ e = [pc |-> "edit", message |-> orders[n].message,
                        terms |-> orders[n].terms, shows |-> status]
          /\ updates' = [updates EXCEPT ![u] = e] \/ (updates' = updates /\ e = Idle)
    <2>1. CASE UpdateStatus(u, n, status)
      <3>1. CASE orders[n].message = None
        BY <2>1, <3>1 DEF UpdateStatus
      <3>2. CASE orders[n].message # None
        BY <2>1, <3>2 DEF UpdateStatus
      <3>3. QED
        BY <3>1, <3>2
    <2>2. CASE UpdateUncertain(u, n, status)
      BY <2>2 DEF UpdateUncertain
    <2>3. QED
      BY <2>1, <2>2
  <1>9. e # Idle => /\ e \in Updating /\ e.message \in DOMAIN channel
                    /\ e.terms = orders[channel[e.message].order].terms
    <2> SUFFICES ASSUME e # Idle PROVE /\ e \in Updating /\ e.message \in DOMAIN channel
                                       /\ e.terms = orders[channel[e.message].order].terms
      OBVIOUS
    <2>1. /\ orders[n].message \in DOMAIN channel /\ orders[n].message \in Nat
          /\ channel[orders[n].message].order = n
      BY <1>1, <1>2, <1>8 DEF OrderFits, OrderInv, OrderTypes
    <2>2. orders[n].terms \in Terms
      BY <1>2 DEF OrderRow
    <2>3. QED
      BY <1>8, <2>1, <2>2 DEF Updating
  <1>10. /\ DOMAIN updates' = Updaters /\ \A v \in Updaters : updates'[v] \in {updates[v], e}
    BY <1>8 DEF OrderInv, OrderTypes
  <1>11. \A v \in Updaters : updates'[v] = Idle \/ updates'[v] \in Updating
    BY <1>9, <1>10 DEF OrderInv, OrderTypes
  <1>12. ASSUME NEW v \in Updaters PROVE UpdateFits(v)'
    <2>1. UpdateFits(v) /\ \A i \in DOMAIN channel : Saved(channel[i].order)
      BY DEF OrderInv, MessageFits
    <2>2. updates'[v] # Idle =>
            /\ updates'[v].message \in DOMAIN channel
            /\ updates'[v].terms = orders[channel[updates'[v].message].order].terms
      BY <1>9, <1>10, <2>1 DEF UpdateFits
    <2>3. QED
      BY <1>1, <1>6, <2>1, <2>2 DEF UpdateFits
  <1>13. ASSUME NEW c \in Clicks PROVE ClickFits(c)'
    <2>1. ClickFits(c) /\ DraftOf(c)' = DraftOf(c)
      BY <1>1 DEF OrderInv, DraftOf
    <2>2. \A i : Saved(i) => i \in DOMAIN orders
      BY DEF Saved
    <2>3. QED
      BY <1>1, <1>6, <1>7, <2>1, <2>2 DEF ClickFits
  <1>14. /\ \A c, f \in Clicks : c # f => OneClick(c, f)'
         /\ DOMAIN clicks' = Clicks /\ \A c \in Clicks : clicks'[c] = Idle \/ clicks'[c] \in Confirming
    BY <1>1 DEF OrderInv, OneClick, OrderTypes
  <1>15. /\ Saved(n) /\ row \in OrderRow /\ row.draft = orders[n].draft /\ row.terms = orders[n].terms
         /\ \/ row.message = orders[n].message
            \/ row.message \in DOMAIN channel /\ channel[row.message].order = n /\ row.message # None
         /\ orders' = [orders EXCEPT ![n] = row]
         /\ UNCHANGED <<drafts, channel, unsure>>
         /\ \A c \in Clicks : clicks'[c] = clicks[c] \/ (clicks[c].draft = row.draft /\ row.message # None)
    BY <1>1, <1>4, <1>5
  <1>16. DOMAIN updates' = Updaters
    BY <1>10
  <1>17. QED
    BY <1>11, <1>12, <1>13, <1>14, <1>15, <1>16, RowStep

\* An edit writes the terms that were saved over what the message shows.
LEMMA EditStep ==
  ASSUME OrderInv, NEW u \in Updaters, EditMessage(u)
  PROVE  OrderInv'
  <1>1. PICK e : e = updates[u]
    OBVIOUS
  <1>2. /\ e # Idle
        /\ channel' = [channel EXCEPT ![e.message] = [@ EXCEPT !.terms = e.terms, !.shows = e.shows]]
        /\ updates' = [updates EXCEPT ![u] = Idle]
        /\ drafts' = drafts /\ orders' = orders /\ clicks' = clicks /\ unsure' = unsure
    BY <1>1 DEF EditMessage
  <1>3. /\ e \in Updating /\ e.message \in DOMAIN channel
        /\ e.terms = orders[channel[e.message].order].terms
    BY <1>1, <1>2 DEF OrderInv, OrderTypes, UpdateFits
  <1>4. PICK m \in DOMAIN channel : m = e.message
    BY <1>3
  <1>5. PICK row : row = [channel[m] EXCEPT !.terms = e.terms, !.shows = e.shows]
    OBVIOUS
  <1>6. channel \in Seq(MessageRow) /\ m \in 1..Len(channel) /\ channel[m] \in MessageRow
    BY DEF OrderInv, OrderTypes
  <1>7. row \in MessageRow /\ row.order = channel[m].order /\ row.terms = orders[row.order].terms
    BY <1>3, <1>4, <1>5, <1>6 DEF MessageRow, Updating
  <1>8. channel' = [channel EXCEPT ![m] = row]
    BY <1>2, <1>4, <1>5
  <1>9. /\ channel' \in Seq(MessageRow) /\ Len(channel') = Len(channel)
        /\ \A i \in 1..Len(channel) : channel'[i] = IF i = m THEN row ELSE channel[i]
    BY <1>6, <1>7, <1>8, ExceptSeq
  <1>10. /\ DOMAIN channel' = DOMAIN channel
         /\ \A i \in DOMAIN channel : channel'[i].order = channel[i].order
         /\ \A i \in DOMAIN channel : channel'[i] = channel[i]
                \/ channel'[i].terms = orders[channel[i].order].terms
    BY <1>6, <1>7, <1>9
  <1>11. \A n : Saved(n)' <=> Saved(n)
    BY <1>2 DEF Saved
  <1>12. /\ DOMAIN updates' = Updaters /\ \A v \in Updaters : updates'[v] \in {updates[v], Idle}
    BY <1>2 DEF OrderInv, OrderTypes
  <1>13. OrderTypes'
    BY <1>2, <1>9, <1>12 DEF OrderInv, OrderTypes
  <1>14. \A d \in Drafts : DraftFits(d)'
    BY <1>2, <1>11 DEF OrderInv, DraftFits
  <1>15. ASSUME NEW n \in DOMAIN orders PROVE OrderFits(n)' /\ PostsFit(n)'
    <2>1. OrderFits(n) /\ PostsFit(n)
      BY DEF OrderInv
    <2>2. OrderFits(n)'
      BY <1>2, <1>10, <1>11, <2>1 DEF OrderFits
    <2>3. Posts(n)' = Posts(n)
      BY <1>10 DEF Posts
    <2>4. Unposted(n)' <=> Unposted(n)
      BY <1>2, <1>11 DEF Unposted
    <2>5. QED
      BY <1>2, <2>1, <2>2, <2>3, <2>4 DEF PostsFit
  <1>16. \A i \in DOMAIN channel : MessageFits(i)'
    BY <1>2, <1>10, <1>11 DEF OrderInv, MessageFits
  <1>17. ASSUME NEW c \in Clicks PROVE ClickFits(c)'
    <2>1. ClickFits(c) /\ DraftOf(c)' = DraftOf(c)
      BY <1>2 DEF OrderInv, DraftOf
    <2>2. QED
      BY <1>2, <1>10, <1>11, <2>1 DEF ClickFits
  <1>18. \A c, f \in Clicks : c # f => OneClick(c, f)'
    BY <1>2 DEF OrderInv, OneClick
  <1>19. \A v \in Updaters : UpdateFits(v)'
    BY <1>2, <1>10, <1>12 DEF OrderInv, UpdateFits
  <1>20. QED
    BY <1>2, <1>10, <1>13, <1>14, <1>15, <1>16, <1>17, <1>18, <1>19 DEF OrderInv

\* A step that leaves drafts, orders, messages and confirm handlers alone.
LEMMA UpdatesStep ==
  ASSUME OrderInv, UNCHANGED <<drafts, orders, channel, clicks, unsure>>,
         DOMAIN updates' = Updaters, \A u \in Updaters : updates'[u] \in {updates[u], Idle}
  PROVE  OrderInv'
  <1>1. Bookkeeping
    <2>1. ASSUME NEW d \in Drafts PROVE drafts'[d] = None \/ Kept(d)
      BY DEF Kept
    <2>2. QED
      BY <2>1 DEF OrderInv, OrderTypes, Bookkeeping
  <1>2. \A n : Saved(n)' <=> Saved(n)
    BY DEF Saved
  <1>3. \A c \in Clicks : ClickFits(c)'
    BY <1>2 DEF OrderInv, ClickFits, DraftOf
  <1>4. \A c, e \in Clicks : c # e => OneClick(c, e)'
    BY DEF OrderInv, OneClick
  <1>5. QED
    BY <1>1, <1>3, <1>4, BookkeepingStep DEF OrderInv, OrderTypes

LEMMA OrderStep == OrderInv /\ [Next]_vars => OrderInv'
  <1> SUFFICES ASSUME OrderInv, [Next]_vars PROVE OrderInv'
    OBVIOUS
  <1>1. ASSUME NEW d \in Drafts, NEW t \in Terms, StartDraft(d, t) \/ EditDraft(d, t) PROVE OrderInv'
    BY <1>1, FormSteps
  <1>2. ASSUME NEW d \in Drafts, Expire(d) \/ Purge(d) PROVE OrderInv'
    <2>1. drafts[d] # None
      BY <1>2 DEF Expire, Purge
    <2>2. drafts[d].terms \in Terms
      BY <2>1 DEF OrderInv, OrderTypes, DraftRow
    <2>3. QED
      BY <1>2, <2>2, FormSteps
  <1>3. ASSUME NEW c \in Clicks, NEW d \in Drafts, Confirm(c, d) PROVE OrderInv'
    BY <1>3, ConfirmStep
  <1>4. ASSUME NEW c \in Clicks, Save(c) PROVE OrderInv'
    <2>1. /\ clicks[c].pc = "save" /\ orders' = Append(orders, NewOrder(c))
          /\ drafts' = [drafts EXCEPT ![clicks[c].draft].orderID = Len(orders')]
          /\ clicks' = [clicks EXCEPT ![c] = [clicks[c] EXCEPT !.pc = "look"]]
          /\ UNCHANGED <<channel, updates, unsure>>
      BY <1>4 DEF Save
    <2>2. QED
      BY <2>1, SaveStep
  <1>5. ASSUME NEW c \in Clicks, CommitUncertain(c) PROVE OrderInv'
    <2>1. /\ clicks[c].pc = "save"
          /\ drafts' = [drafts EXCEPT ![clicks[c].draft].orderID = Len(orders')]
          /\ clicks' = [clicks EXCEPT ![c] = Idle]
          /\ UNCHANGED <<channel, updates, unsure>>
      BY <1>5 DEF CommitUncertain
    <2>2. PICK outcome \in {NewOrder(c), None} : orders' = Append(orders, outcome)
      BY <1>5 DEF CommitUncertain
    <2>3. QED
      BY <2>1, <2>2, SaveStep
  <1>6. ASSUME NEW c \in Clicks, SaveFailed(c) \/ LookFailed(c) \/ LinkFailed(c) \/ Close(c)
        PROVE  OrderInv'
    <2>1. /\ clicks[c].pc \in {"save", "look", "link", "close"}
          /\ clicks' = [clicks EXCEPT ![c] = Idle]
          /\ UNCHANGED <<orders, channel, unsure, updates>>
          /\ \/ drafts' = drafts /\ clicks[c].pc # "link"
             \/ drafts' = [drafts EXCEPT ![clicks[c].draft] = None]
      BY <1>6 DEF SaveFailed, LookFailed, LinkFailed, Close
    <2>2. clicks[c] # Idle
      BY <2>1 DEF Idle
    <2>3. QED
      BY <2>1, <2>2, GivesUpClickStep
  <1>7. ASSUME NEW c \in Clicks, Look(c) PROVE OrderInv'
    BY <1>7, LookStep
  <1>8. ASSUME NEW c \in Clicks, Post(c) PROVE OrderInv'
    <2>1. PICK next : next = [pc |-> "link", draft |-> clicks[c].draft, message |-> Len(channel')]
      OBVIOUS
    <2>2. /\ clicks[c].pc = "post" /\ channel' = Append(channel, Message(c)) /\ unsure' = unsure
          /\ clicks' = [clicks EXCEPT ![c] = next]
          /\ UNCHANGED <<drafts, orders, updates>>
      BY <1>8, <2>1 DEF Post
    <2>3. QED
      BY <2>1, <2>2, SendStep
  <1>9. ASSUME NEW c \in Clicks, PostUncertain(c) PROVE OrderInv'
    <2>1. /\ clicks[c].pc = "post" /\ channel' \in {channel, Append(channel, Message(c))}
          /\ unsure' = unsure + 1 /\ clicks' = [clicks EXCEPT ![c] = Idle]
          /\ UNCHANGED <<drafts, orders, updates>>
      BY <1>9 DEF PostUncertain
    <2>2. QED
      BY <2>1, SendStep
  <1>10. ASSUME NEW c \in Clicks, Link(c) PROVE OrderInv'
    BY <1>10, LinkStep
  <1>11. ASSUME NEW u \in Updaters, NEW n \in DOMAIN orders, NEW status \in Statuses,
                UpdateStatus(u, n, status) \/ UpdateUncertain(u, n, status)
         PROVE  OrderInv'
    BY <1>11, StatusStep
  <1>12. ASSUME NEW u \in Updaters, EditMessage(u) PROVE OrderInv'
    BY <1>12, EditStep
  <1>13. ASSUME NEW u \in Updaters, EditMessageFailed(u) PROVE OrderInv'
    <2>1. /\ updates' = [updates EXCEPT ![u] = Idle]
          /\ UNCHANGED <<drafts, orders, channel, clicks, unsure>>
      BY <1>13 DEF EditMessageFailed
    <2>2. DOMAIN updates' = Updaters /\ \A v \in Updaters : updates'[v] \in {updates[v], Idle}
      BY <2>1 DEF OrderInv, OrderTypes
    <2>3. QED
      BY <2>1, <2>2, UpdatesStep
  <1>14. CASE Restart
    BY <1>14, RestartStep
  <1>15. CASE UNCHANGED vars
    <2>1. UNCHANGED <<drafts, orders, channel, clicks, unsure>> /\ updates' = updates
      BY <1>15 DEF vars
    <2>2. QED
      BY <2>1, UpdatesStep DEF OrderInv, OrderTypes
  <1>16. QED
    BY <1>1, <1>2, <1>3, <1>4, <1>5, <1>6, <1>7, <1>8, <1>9, <1>10, <1>11, <1>12, <1>13, <1>14, <1>15
       DEF Next

LEMMA OrderAlways == Spec => []OrderInv
  <1>1. QED
    BY OrderInitInv, OrderStep, PTL DEF Spec

(***************************************************************************)
(* A draft becomes at most one order, and an order has more messages than  *)
(* one only for sends of which the bot does not know whether they arrived, *)
(* however many handlers click, fail, time out and restart.                *)
(***************************************************************************)
THEOREM CreatedCorrect == Spec => []CreatedOnce
  <1>1. ASSUME OrderInv PROVE CreatedOnce
    <2>1. ASSUME NEW n \in DOMAIN orders
          PROVE  /\ Saved(n) => \A m \in DOMAIN orders \ {n} : Saved(m) => orders[m].draft # orders[n].draft
                 /\ Cardinality({m \in DOMAIN channel : channel[m].order = n}) <= 1 + unsure
      BY <1>1, <2>1 DEF OrderInv, OrderFits, PostsFit, Posts
    <2>2. QED
      BY <2>1 DEF CreatedOnce
  <1>2. QED
    BY <1>1, OrderAlways, PTL

(***************************************************************************)
(* What a message shows of its order are the terms that were saved, also   *)
(* after edits by status handlers that read them before a restart or an    *)
(* unanswered commit; a linked message is one of the order it is linked to.*)
(***************************************************************************)
THEOREM MessagesCorrect == Spec => []MessagesShowSavedTerms
  <1>1. ASSUME OrderInv PROVE MessagesShowSavedTerms
    BY <1>1 DEF OrderInv, MessageFits, OrderFits, MessagesShowSavedTerms, Saved
  <1>2. QED
    BY <1>1, OrderAlways, PTL


-----------------------------------------------------------------------------
(***************************************************************************)
(* The stash builders.  StashInv is inductive.  Every draft is named by    *)
(* the /stash that opened it, and an interaction's id is the key of its    *)
(* movement.  While the member waits for his answers, only the newest      *)
(* interaction has a key that is not used up, and a draft that was moved   *)
(* is still stored only as long as the handler that moved it has yet to    *)
(* clear it: no newer interaction can find it.                             *)
(***************************************************************************)
DraftFields == {"action", "lines", "reason", "expires", "start"}
IsDraft(d) == d = [f \in DraftFields |-> d[f]] /\ d.start \in Nat
WorkFields == {"kind", "id", "builder", "stage", "action", "item", "quantity", "copy", "shown"}
IsWork(i) ==
  /\ i = [f \in WorkFields |-> i[f]]
  /\ i.id \in Nat \ {0} /\ IsDraft(i.copy)
  /\ i.stage \in {"load", "transact", "finish"} => i.kind = "submit"
At(h, stages) == handlers[h] # NoHandler /\ handlers[h].stage \in stages

StashTypes ==
  /\ sent \in Nat /\ IsDraft(draft) /\ draft.start <= sent
  /\ DOMAIN handlers = Slots
  /\ \A h \in Slots : handlers[h] # NoHandler =>
       IsWork(handlers[h]) /\ handlers[h].id <= sent /\ handlers[h].copy.start <= sent
  /\ moved \in Seq({moved[n] : n \in DOMAIN moved})
  /\ \A n \in DOMAIN moved :
       /\ IsWork(moved[n].by) /\ moved[n].by.kind = "submit" /\ moved[n].by.id <= sent
       /\ moved[n].start \in Nat /\ moved[n].start <= sent

\* No draft has the name of a /stash that has yet to open its own.
Opening(h) ==
  At(h, {"clear", "open"}) =>
    /\ draft.start # handlers[h].id
    /\ \A n \in DOMAIN moved : moved[n].start # handlers[h].id
    /\ \A g \in Slots : handlers[g] # NoHandler => handlers[g].copy.start # handlers[h].id
    /\ \A g \in Slots \ {h} : At(g, {"clear", "open"}) => handlers[g].id # handlers[h].id

Calm == excuses \cap {"overlap", "untold"} = {}
Fresh(h) == handlers[h] # NoHandler /\ OfKey(handlers[h]) = {}
Waits(h) ==
  /\ Fresh(h) => handlers[h].id = sent
  /\ Fresh(h) /\ handlers[h].stage = "transact" /\ handlers[h].copy.start # 0 =>
       \A n \in DOMAIN moved : moved[n].start # handlers[h].copy.start
Stored(n) ==
  moved[n].start # 0 /\ moved[n].start = draft.start =>
    /\ moved[n].by.id = sent
    /\ \E h \in Slots : At(h, {"finish"})

StashInv ==
  /\ StashTypes
  /\ \A h \in Slots : Opening(h)
  /\ \A m, n \in DOMAIN moved : m # n => moved[m].by.id # moved[n].by.id
  /\ Calm =>
       /\ \A h \in Slots : Waits(h)
       /\ \A n \in DOMAIN moved : Stored(n)
       /\ \A m, n \in DOMAIN moved : m # n /\ moved[m].start # 0 => moved[m].start # moved[n].start

LEMMA StashedDraft ==
  ASSUME NEW d, IsDraft(d), NEW a, NEW e, NEW s \in Nat, NEW l, NEW r
  PROVE  /\ IsDraft([d EXCEPT !.expires = e]) /\ [d EXCEPT !.expires = e].start = d.start
         /\ IsDraft([d EXCEPT !.action = a]) /\ [d EXCEPT !.action = a].start = d.start
         /\ IsDraft([d EXCEPT !.lines = l]) /\ [d EXCEPT !.lines = l].start = d.start
         /\ IsDraft([d EXCEPT !.reason = r]) /\ [d EXCEPT !.reason = r].start = d.start
         /\ IsDraft([d EXCEPT !.start = s]) /\ [d EXCEPT !.start = s].start = s
BY DEF IsDraft, DraftFields

LEMMA NoDraftIs == IsDraft(NoDraft) /\ NoDraft.start = 0
BY DEF IsDraft, DraftFields, NoDraft

LEMMA LiveIs ==
  ASSUME StashTypes
  PROVE  IsDraft(Live) /\ Live.start \in {draft.start, 0}
BY NoDraftIs DEF StashTypes, Live

\* Touch, with a draft d.
LEMMA TouchedIs ==
  ASSUME NEW d, IsDraft(d), Touch(d)
  PROVE  IsDraft(draft') /\ draft'.start = d.start
BY StashedDraft, 0 \in Nat DEF Touch

LEMMA WorkStage ==
  ASSUME NEW i, IsWork(i), NEW s, s \in {"load", "transact", "finish"} => i.kind = "submit"
  PROVE  LET w == [i EXCEPT !.stage = s]
         IN  IsWork(w) /\ w.stage = s /\ w.id = i.id /\ w.copy = i.copy /\ w.kind = i.kind
BY DEF IsWork, WorkFields

LEMMA WorkAction ==
  ASSUME NEW i, IsWork(i), NEW a
  PROVE  LET w == [i EXCEPT !.action = a]
         IN  IsWork(w) /\ w.stage = i.stage /\ w.id = i.id /\ w.copy = i.copy /\ w.kind = i.kind
BY DEF IsWork, WorkFields

LEMMA WorkCopy ==
  ASSUME NEW i, IsWork(i), NEW c, IsDraft(c)
  PROVE  LET w == [i EXCEPT !.copy = c]
         IN  IsWork(w) /\ w.stage = i.stage /\ w.id = i.id /\ w.copy = c /\ w.kind = i.kind
BY DEF IsWork, WorkFields

\* A goroutine goes on with its interaction, or is a Submit delivered again.
Keeps(h, i) ==
  /\ handlers[h] # NoHandler
  /\ i.id = handlers[h].id /\ i.copy = handlers[h].copy
  /\ i.stage \in {"clear", "open"} => handlers[h].stage \in {"clear", "open"}
  /\ i.stage = "transact" => handlers[h].stage = "transact"
Echoes(i) ==
  /\ i.stage = "read" /\ i.copy = NoDraft
  /\ \/ \E g \in Slots : handlers[g] # NoHandler /\ i.id = handlers[g].id
     \/ \E n \in DOMAIN moved : i.id = moved[n].by.id

\* Steps that move nothing, begin no draft and load none.
LEMMA StashQuiet ==
  ASSUME StashInv, DOMAIN handlers' = Slots, IsDraft(draft'), draft'.start \in {draft.start, 0},
         moved' = moved, sent' = sent, excuses \subseteq excuses',
         \A h \in Slots : handlers'[h] # NoHandler =>
           IsWork(handlers'[h]) /\ (Keeps(h, handlers'[h]) \/ Echoes(handlers'[h])),
         \/ "untold" \in excuses' \/ draft'.start = 0
         \/ \A h \in Slots : At(h, {"finish"}) => At(h, {"finish"})'
  PROVE  StashInv'
  <1>0. StashTypes
    BY DEF StashInv
  <1>1. \A h \in Slots : handlers'[h] # NoHandler =>
          handlers'[h].id <= sent /\ handlers'[h].id \in Nat \ {0}
    BY <1>0 DEF StashTypes, IsWork, Keeps, Echoes
  <1>2. \A h \in Slots : handlers'[h] # NoHandler =>
          \/ handlers'[h].copy.start = 0
          \/ handlers[h] # NoHandler /\ handlers'[h].copy.start = handlers[h].copy.start
    BY NoDraftIs DEF Keeps, Echoes
  <1>3. StashTypes'
    <2>1. draft'.start <= sent
      BY <1>0 DEF StashTypes, IsDraft
    <2>2. \A h \in Slots : handlers'[h] # NoHandler => handlers'[h].copy.start <= sent
      <3>1. sent \in Nat /\ \A h \in Slots : handlers[h] # NoHandler => handlers[h].copy.start <= sent
        BY <1>0 DEF StashTypes
      <3>2. 0 <= sent
        BY <3>1
      <3>3. QED
        BY <1>2, <3>1, <3>2
    <2>3. QED
      BY <1>0, <1>1, <2>1, <2>2 DEF StashTypes
  <1>4. \A h \in Slots : At(h, {"clear", "open"})' =>
          At(h, {"clear", "open"}) /\ handlers'[h].id = handlers[h].id
    BY DEF At, Keeps, Echoes
  <1>5. ASSUME NEW h \in Slots PROVE Opening(h)'
    <2>1. SUFFICES ASSUME At(h, {"clear", "open"})' PROVE Opening(h)'
      BY DEF Opening
    <2>2. At(h, {"clear", "open"}) /\ handlers'[h].id = handlers[h].id
      BY <1>4, <2>1
    <2>3. handlers'[h].id # 0
      BY <1>1, <2>1 DEF At
    <2>4. /\ draft.start # handlers[h].id
          /\ \A n \in DOMAIN moved : moved[n].start # handlers[h].id
          /\ \A g \in Slots : handlers[g] # NoHandler => handlers[g].copy.start # handlers[h].id
          /\ \A g \in Slots \ {h} : At(g, {"clear", "open"}) => handlers[g].id # handlers[h].id
      BY <2>2 DEF StashInv, Opening
    <2>5. \A g \in Slots : handlers'[g] # NoHandler => handlers'[g].copy.start # handlers'[h].id
      BY <1>2, <2>2, <2>3, <2>4
    <2>6. \A g \in Slots \ {h} : At(g, {"clear", "open"})' => handlers'[g].id # handlers'[h].id
      BY <1>4, <2>2, <2>4
    <2>7. QED
      BY <2>2, <2>3, <2>4, <2>5, <2>6 DEF Opening
  <1>6. ASSUME Calm' PROVE (\A h \in Slots : Waits(h)') /\ \A n \in DOMAIN moved : Stored(n)'
    <2>0. Calm /\ "untold" \notin excuses'
      BY <1>6 DEF Calm
    <2>1. ASSUME NEW h \in Slots, Fresh(h)'
          PROVE  /\ handlers'[h].id = sent
                 /\ Keeps(h, handlers'[h]) => Fresh(h)
      <3>1. \A n \in DOMAIN moved : moved[n].by.id # handlers'[h].id
        BY <2>1 DEF Fresh, OfKey
      <3>2. \A g \in Slots : handlers[g] # NoHandler /\ handlers'[h].id = handlers[g].id => Fresh(g)
        BY <3>1 DEF Fresh, OfKey
      <3>3. \A g \in Slots : Fresh(g) => handlers[g].id = sent
        BY <2>0 DEF StashInv, Waits
      <3>4. QED
        BY <2>1, <3>1, <3>2, <3>3 DEF Keeps, Echoes, Fresh
    <2>2. ASSUME NEW h \in Slots PROVE Waits(h)'
      <3>1. ASSUME Fresh(h)', handlers'[h].stage = "transact", handlers'[h].copy.start # 0,
                   NEW n \in DOMAIN moved
            PROVE  moved[n].start # handlers'[h].copy.start
        <4>1. handlers'[h] # NoHandler
          BY <3>1 DEF Fresh
        <4>2. Keeps(h, handlers'[h])
          BY <3>1, <4>1 DEF Echoes
        <4>3. Fresh(h) /\ handlers[h].stage = "transact" /\ handlers[h].copy = handlers'[h].copy
          BY <2>1, <3>1, <4>2 DEF Keeps
        <4>4. QED
          BY <2>0, <3>1, <4>3 DEF StashInv, Waits
      <3>2. QED
        BY <2>1, <3>1 DEF Waits
    <2>3. ASSUME NEW n \in DOMAIN moved PROVE Stored(n)'
      <3>1. SUFFICES ASSUME moved[n].start # 0, moved[n].start = draft'.start
                     PROVE  moved[n].by.id = sent /\ \E h \in Slots : At(h, {"finish"})'
        BY DEF Stored
      <3>2. draft'.start = draft.start /\ draft'.start # 0
        BY <3>1
      <3>3. moved[n].by.id = sent /\ \E h \in Slots : At(h, {"finish"})
        BY <2>0, <3>1, <3>2 DEF StashInv, Stored
      <3>4. QED
        BY <2>0, <3>2, <3>3
    <2>4. QED
      BY <2>2, <2>3
  <1>7. (\A m, n \in DOMAIN moved : m # n => moved[m].by.id # moved[n].by.id)'
    BY DEF StashInv
  <1>8. Calm' => (\A m, n \in DOMAIN moved : m # n /\ moved[m].start # 0 => moved[m].start # moved[n].start)'
    BY DEF StashInv, Calm
  <1>9. QED
    BY <1>3, <1>5, <1>6, <1>7, <1>8 DEF StashInv

\* One goroutine ends, or goes on in another stage.
LEMMA StashEnds ==
  ASSUME StashInv, NEW h \in Slots, Done(h), IsDraft(draft'), draft'.start \in {draft.start, 0},
         moved' = moved, sent' = sent, excuses \subseteq excuses',
         handlers[h].stage = "finish" => "untold" \in excuses' \/ draft'.start = 0
  PROVE  StashInv'
  <1>1. DOMAIN handlers = Slots /\ \A g \in Slots : handlers[g] # NoHandler => IsWork(handlers[g])
    BY DEF StashInv, StashTypes
  <1>2. /\ DOMAIN handlers' = Slots
        /\ \A g \in Slots : handlers'[g] = IF g = h THEN NoHandler ELSE handlers[g]
    BY <1>1 DEF Done
  <1>3. \A g \in Slots : handlers'[g] # NoHandler =>
          IsWork(handlers'[g]) /\ (Keeps(g, handlers'[g]) \/ Echoes(handlers'[g]))
    BY <1>1, <1>2 DEF Keeps
  <1>4. \/ "untold" \in excuses' \/ draft'.start = 0
        \/ \A g \in Slots : At(g, {"finish"}) => At(g, {"finish"})'
    BY <1>2 DEF At
  <1>5. QED
    BY <1>2, <1>3, <1>4, StashQuiet

LEMMA StashGoes ==
  ASSUME StashInv, NEW h \in Slots, NEW w, handlers' = [handlers EXCEPT ![h] = w],
         w # NoHandler, IsWork(w), Keeps(h, w),
         IsDraft(draft'), draft'.start \in {draft.start, 0},
         moved' = moved, sent' = sent, excuses' = excuses,
         handlers[h].stage = "finish" => draft'.start = 0
  PROVE  StashInv'
  <1>1. DOMAIN handlers = Slots /\ \A g \in Slots : handlers[g] # NoHandler => IsWork(handlers[g])
    BY DEF StashInv, StashTypes
  <1>2. /\ DOMAIN handlers' = Slots
        /\ \A g \in Slots : handlers'[g] = IF g = h THEN w ELSE handlers[g]
    BY <1>1
  <1>3. \A g \in Slots : handlers'[g] # NoHandler =>
          IsWork(handlers'[g]) /\ (Keeps(g, handlers'[g]) \/ Echoes(handlers'[g]))
    BY <1>1, <1>2 DEF Keeps
  <1>4. \/ "untold" \in excuses' \/ draft'.start = 0
        \/ \A g \in Slots : At(g, {"finish"}) => At(g, {"finish"})'
    BY <1>2 DEF At
  <1>5. QED
    BY <1>2, <1>3, <1>4, StashQuiet

LEMMA Working ==
  ASSUME StashInv, NEW h \in Slots, handlers[h].stage # "idle"
  PROVE  /\ handlers[h] # NoHandler /\ IsWork(handlers[h])
         /\ handlers[h].id \in Nat \ {0} /\ IsDraft(handlers[h].copy)
         /\ handlers[h].id <= sent /\ handlers[h].copy.start <= sent
         /\ handlers[h].stage \in {"load", "transact", "finish"} => handlers[h].kind = "submit"
BY DEF StashInv, StashTypes, NoHandler, IsWork

\* To, for the stages that every step but Transact goes on to.
LEMMA StashTo ==
  ASSUME StashInv, NEW h \in Slots, NEW s, To(h, s),
         handlers[h].stage # "idle", s \in {"open", "render", "confirm"},
         s = "open" => handlers[h].stage = "clear",
         IsDraft(draft'), draft'.start \in {draft.start, 0},
         moved' = moved, sent' = sent, excuses' = excuses,
         handlers[h].stage = "finish" => draft'.start = 0
  PROVE  StashInv'
  <1> DEFINE w == [handlers[h] EXCEPT !.stage = s]
  <1>1. handlers[h] # NoHandler /\ IsWork(handlers[h])
    BY Working
  <1>2. IsWork(w) /\ w.stage = s /\ w.id = handlers[h].id /\ w.copy = handlers[h].copy
    BY <1>1, WorkStage
  <1>3. w # NoHandler
    BY <1>2 DEF NoHandler
  <1>4. handlers' = [handlers EXCEPT ![h] = w]
    BY DEF To
  <1>5. Keeps(h, w)
    BY <1>1, <1>2 DEF Keeps
  <1> HIDE DEF w
  <1>6. QED
    BY <1>2, <1>3, <1>4, <1>5, StashGoes

LEMMA StashTick == StashInv /\ (Tick \/ Reboot) => StashInv'
  <1>1. ASSUME StashInv, Tick PROVE StashInv'
    <2>1. \A h \in Slots : handlers'[h] # NoHandler =>
            IsWork(handlers'[h]) /\ (Keeps(h, handlers'[h]) \/ Echoes(handlers'[h]))
      BY <1>1 DEF Tick, StashInv, StashTypes, Keeps
    <2>2. \A h \in Slots : At(h, {"finish"}) => At(h, {"finish"})'
      BY <1>1 DEF Tick, At
    <2>3. /\ DOMAIN handlers' = Slots /\ IsDraft(draft') /\ draft'.start \in {draft.start, 0}
          /\ moved' = moved /\ sent' = sent /\ excuses \subseteq excuses'
      BY <1>1 DEF Tick, StashInv, StashTypes
    <2>4. QED
      BY <1>1, <2>1, <2>2, <2>3, StashQuiet
  <1>2. ASSUME StashInv, Reboot PROVE StashInv'
    <2>1. \A h \in Slots : handlers'[h] # NoHandler =>
            IsWork(handlers'[h]) /\ (Keeps(h, handlers'[h]) \/ Echoes(handlers'[h]))
      BY <1>2 DEF Reboot
    <2>2. /\ DOMAIN handlers' = Slots /\ IsDraft(draft') /\ draft'.start = 0
          /\ moved' = moved /\ sent' = sent /\ excuses \subseteq excuses'
      BY <1>2, NoDraftIs DEF Reboot
    <2>3. QED
      BY <1>2, <2>1, <2>2, StashQuiet
  <1>3. QED
    BY <1>1, <1>2

LEMMA StashRedeliver ==
  ASSUME StashInv, NEW h \in Slots, Redeliver(h)
  PROVE  StashInv'
  <1>1. PICK again \in {handlers[g] : g \in {g \in InFlight : handlers[g].kind = "submit"}}
                         \cup {moved[n].by : n \in DOMAIN moved} :
          handlers' = [handlers EXCEPT ![h] = [again EXCEPT !.stage = "read", !.copy = NoDraft, !.action = ""]]
    BY DEF Redeliver
  <1>2. /\ IsWork(again)
        /\ \/ \E g \in Slots : handlers[g] # NoHandler /\ again.id = handlers[g].id
           \/ \E n \in DOMAIN moved : again.id = moved[n].by.id
    BY DEF StashInv, StashTypes, InFlight
  <1> DEFINE w == [again EXCEPT !.stage = "read", !.copy = NoDraft, !.action = ""]
  <1>3. IsWork(w) /\ w.stage = "read" /\ w.copy = NoDraft /\ w.id = again.id
    <2> DEFINE a == [again EXCEPT !.stage = "read"]
               b == [a EXCEPT !.copy = NoDraft]
    <2>1. IsWork(a) /\ a.stage = "read" /\ a.id = again.id
      BY <1>2, WorkStage
    <2>2. IsWork(b) /\ b.stage = "read" /\ b.id = again.id /\ b.copy = NoDraft
      <3> HIDE DEF a
      <3>1. QED
        BY <2>1, WorkCopy, NoDraftIs
    <2>3. w = [b EXCEPT !.action = ""]
      OBVIOUS
    <2> HIDE DEF w, b
    <2>4. QED
      BY <2>2, <2>3, WorkAction
  <1>4. /\ DOMAIN handlers = Slots /\ \A g \in Slots : handlers[g] # NoHandler => IsWork(handlers[g])
        /\ handlers' = [handlers EXCEPT ![h] = w] /\ handlers[h] = NoHandler
    BY <1>1 DEF StashInv, StashTypes, Redeliver
  <1>5. Echoes(w)
    BY <1>2, <1>3 DEF Echoes
  <1> HIDE DEF w
  <1>6. DOMAIN handlers' = Slots /\ \A g \in Slots : handlers'[g] = IF g = h THEN w ELSE handlers[g]
    BY <1>4
  <1>7. \A g \in Slots : handlers'[g] # NoHandler =>
          IsWork(handlers'[g]) /\ (Keeps(g, handlers'[g]) \/ Echoes(handlers'[g]))
    BY <1>3, <1>4, <1>5, <1>6 DEF Keeps
  <1>8. \A g \in Slots : At(g, {"finish"}) => At(g, {"finish"})'
    BY <1>4, <1>6 DEF At
  <1>9. /\ IsDraft(draft') /\ draft'.start \in {draft.start, 0}
        /\ moved' = moved /\ sent' = sent /\ excuses \subseteq excuses'
    BY DEF Redeliver, StashInv, StashTypes
  <1>10. QED
    BY <1>6, <1>7, <1>8, <1>9, StashQuiet

\* The steps that end a goroutine without a movement.
LEMMA StashStops ==
  ASSUME StashInv, NEW h \in Slots,
         DeferFails(h) \/ RefuseItem(h) \/ Render(h) \/ RenderFails(h) \/ ListAfterFails(h) \/ ConfirmStash(h)
  PROVE  StashInv'
  <1>1. IsDraft(draft) /\ IsDraft(Live) /\ Live.start \in {draft.start, 0}
    BY LiveIs DEF StashInv, StashTypes
  <1>2. Done(h) /\ moved' = moved /\ sent' = sent
    BY DEF DeferFails, RefuseItem, Fail, Render, RenderFails, ListAfterFails, ConfirmStash
  <1>3. draft' = draft \/ draft' = Live
    BY DEF DeferFails, RefuseItem, Render, RenderFails, ListAfterFails, ConfirmStash
  <1>4. excuses \subseteq excuses'
    BY DEF DeferFails, RefuseItem, Render, RenderFails, ListAfterFails, ConfirmStash
  <1>5. handlers[h].stage = "finish" => "untold" \in excuses'
    BY DEF DeferFails, RefuseItem, Render, RenderFails, ListAfterFails, ConfirmStash
  <1>6. QED
    BY <1>1, <1>2, <1>3, <1>4, <1>5, StashEnds

LEMMA StashReadAction ==
  ASSUME StashInv, NEW h \in Slots, ReadAction(h)
  PROVE  StashInv'
  <1>1. IsDraft(draft') /\ draft'.start \in {draft.start, 0}
    BY LiveIs DEF StashInv, ReadAction
  <1>2. moved' = moved /\ sent' = sent /\ excuses' = excuses /\ handlers[h].stage = "read"
    BY DEF ReadAction
  <1>3. CASE Live.action = ""
    BY <1>1, <1>2, <1>3, StashEnds DEF ReadAction
  <1>4. CASE Live.action # ""
    <2> DEFINE s == IF handlers[h].kind = "submit" THEN "load" ELSE "change"
               a == [handlers[h] EXCEPT !.action = Live.action]
               w == [a EXCEPT !.stage = s]
    <2>1. handlers' = [handlers EXCEPT ![h] = w]
      BY <1>4 DEF ReadAction
    <2>2. handlers[h] # NoHandler /\ IsWork(handlers[h])
      BY <1>2, Working
    <2>3. /\ IsWork(a) /\ a.id = handlers[h].id /\ a.copy = handlers[h].copy /\ a.kind = handlers[h].kind
      BY <2>2, WorkAction
    <2>4. IsWork(w) /\ w.stage = s /\ w.id = handlers[h].id /\ w.copy = handlers[h].copy
      <3> HIDE DEF a
      <3>1. s \in {"load", "transact", "finish"} => a.kind = "submit"
        BY <2>3
      <3> HIDE DEF s
      <3>2. QED
        BY <2>3, <3>1, WorkStage
    <2>5. w # NoHandler /\ Keeps(h, w)
      <3> HIDE DEF w
      <3>1. QED
        BY <2>2, <2>4 DEF NoHandler, Keeps
    <2> HIDE DEF w
    <2>6. QED
      BY <1>1, <1>2, <2>1, <2>4, <2>5, StashGoes
  <1>5. QED
    BY <1>3, <1>4

LEMMA StashChanges ==
  ASSUME StashInv, NEW h \in Slots, ClearForStart(h) \/ Change(h) \/ Finish(h)
  PROVE  StashInv'
  <1>1. IsDraft(Live) /\ Live.start \in {draft.start, 0}
    BY LiveIs DEF StashInv
  <1>2. moved' = moved /\ sent' = sent /\ excuses' = excuses
    BY DEF ClearForStart, Change, Finish
  <1>3. CASE ClearForStart(h)
    <2>1. IsDraft(draft') /\ draft'.start = 0 /\ To(h, "open") /\ handlers[h].stage = "clear"
      BY <1>3, NoDraftIs DEF ClearForStart, Clear
    <2>2. QED
      BY <1>2, <2>1, StashTo
  <1>4. CASE Finish(h)
    <2>1. IsDraft(draft') /\ draft'.start = 0 /\ To(h, "confirm") /\ handlers[h].stage = "finish"
      BY <1>4, NoDraftIs DEF Finish, Clear
    <2>2. QED
      BY <1>2, <2>1, StashTo
  <1>5. CASE Change(h)
    <2>1. To(h, "render") /\ handlers[h].stage = "change"
      BY <1>5 DEF Change
    <2>2. \/ draft' = NoDraft
          \/ \E d : IsDraft(d) /\ d.start = Live.start /\ Touch(d)
      <3>1. CASE Touch(Live)
        BY <1>1, <3>1
      <3>2. CASE Touch([Live EXCEPT !.lines = Without(@, handlers[h].item)])
        BY <1>1, <3>2, StashedDraft, 0 \in Nat
      <3>3. CASE Touch([Live EXCEPT !.reason = TRUE])
        BY <1>1, <3>3, StashedDraft, 0 \in Nat
      <3>4. CASE Touch([Live EXCEPT !.lines = With(@, handlers[h].item, handlers[h].quantity)])
        BY <1>1, <3>4, StashedDraft, 0 \in Nat
      <3>5. CASE Clear
        BY <3>5 DEF Clear
      <3>6. QED
        BY <1>5, <3>1, <3>2, <3>3, <3>4, <3>5 DEF Change
    <2>3. IsDraft(draft') /\ draft'.start \in {draft.start, 0}
      BY <1>1, <2>2, NoDraftIs, TouchedIs
    <2>4. QED
      BY <1>2, <2>1, <2>3, StashTo
  <1>6. QED
    BY <1>3, <1>4, <1>5

LEMMA StashArrives ==
  ASSUME StashInv, NEW h \in Slots, NEW i, Arrives(h, i),
         i # NoHandler, IsWork(i), i.id = sent + 1, i.copy = NoDraft, i.stage \in {"clear", "read"}
  PROVE  StashInv'
  <1>1. /\ sent \in Nat /\ draft.start <= sent /\ DOMAIN handlers = Slots /\ IsDraft(draft)
        /\ \A g \in Slots : handlers[g] # NoHandler =>
             /\ IsWork(handlers[g]) /\ handlers[g].id <= sent /\ handlers[g].copy.start <= sent
             /\ handlers[g].id \in Nat /\ handlers[g].copy.start \in Nat
        /\ \A n \in DOMAIN moved :
             /\ moved[n].by.id <= sent /\ moved[n].by.id \in Nat
             /\ moved[n].start \in Nat /\ moved[n].start <= sent
    BY DEF StashInv, StashTypes, IsWork, IsDraft
  <1>2. /\ sent' = sent + 1 /\ draft' = draft /\ moved' = moved
        /\ DOMAIN handlers' = Slots
        /\ \A g \in Slots : handlers'[g] = IF g = h THEN i ELSE handlers[g]
        /\ excuses' = excuses \cup (IF InFlight = {} THEN {} ELSE {"overlap"})
        /\ handlers[h] = NoHandler
    BY <1>1 DEF Arrives
  <1>3. i.copy.start = 0 /\ draft.start \in Nat
    BY <1>1, NoDraftIs DEF IsDraft
  <1>4. StashTypes'
    <2>1. \A g \in Slots : handlers'[g] # NoHandler =>
            IsWork(handlers'[g]) /\ handlers'[g].id <= sent' /\ handlers'[g].copy.start <= sent'
      BY <1>1, <1>2, <1>3
    <2>2. sent' \in Nat /\ draft'.start <= sent'
      BY <1>1, <1>2, <1>3
    <2>3. \A n \in DOMAIN moved' :
            moved'[n].by.id <= sent' /\ moved'[n].start \in Nat /\ moved'[n].start <= sent'
      BY <1>1, <1>2
    <2>4. QED
      BY <1>2, <2>1, <2>2, <2>3 DEF StashInv, StashTypes
  <1>5. ASSUME NEW g \in Slots PROVE Opening(g)'
    <2>1. SUFFICES ASSUME At(g, {"clear", "open"})' PROVE Opening(g)'
      BY DEF Opening
    <2>2. CASE g = h
      <3>1. handlers'[g].id = sent + 1
        BY <1>2, <2>2
      <3>2. /\ draft'.start # sent + 1
            /\ \A n \in DOMAIN moved' : moved'[n].start # sent + 1
        BY <1>1, <1>2, <1>3
      <3>3. \A f \in Slots : handlers'[f] # NoHandler => handlers'[f].copy.start # sent + 1
        BY <1>1, <1>2, <1>3
      <3>4. \A f \in Slots \ {g} : At(f, {"clear", "open"})' => handlers'[f].id # sent + 1
        BY <1>1, <1>2, <2>2 DEF At
      <3>5. QED
        BY <3>1, <3>2, <3>3, <3>4 DEF Opening
    <2>3. CASE g # h
      <3>1. At(g, {"clear", "open"}) /\ handlers'[g] = handlers[g]
        BY <1>2, <2>1, <2>3 DEF At
      <3>2. /\ draft.start # handlers[g].id
            /\ \A n \in DOMAIN moved : moved[n].start # handlers[g].id
            /\ \A f \in Slots : handlers[f] # NoHandler => handlers[f].copy.start # handlers[g].id
            /\ \A f \in Slots \ {g} : At(f, {"clear", "open"}) => handlers[f].id # handlers[g].id
        BY <3>1 DEF StashInv, Opening
      <3>3. handlers[g].id # 0 /\ handlers[g].id <= sent /\ handlers[g].id \in Nat
        BY <1>1, <3>1 DEF At, IsWork
      <3>4. \A f \in Slots : handlers'[f] # NoHandler => handlers'[f].copy.start # handlers'[g].id
        BY <1>2, <1>3, <3>1, <3>2, <3>3
      <3>5. handlers[g].id # sent + 1
        BY <1>1, <3>3
      <3>6. \A f \in Slots \ {g} : At(f, {"clear", "open"})' => handlers'[f].id # handlers'[g].id
        BY <1>2, <3>1, <3>2, <3>5 DEF At
      <3>7. QED
        BY <1>2, <3>1, <3>2, <3>4, <3>6 DEF Opening
    <2>4. QED
      BY <2>2, <2>3
  <1>6. ASSUME Calm' PROVE (\A g \in Slots : Waits(g)') /\ \A n \in DOMAIN moved : Stored(n)'
    <2>1. Calm /\ InFlight = {}
      BY <1>2, <1>6 DEF Calm
    <2>2. \A g \in Slots : handlers[g] = NoHandler
      BY <2>1 DEF InFlight
    <2>3. \A g \in Slots : Waits(g)'
      BY <1>2, <2>2 DEF Waits, Fresh
    <2>4. ASSUME NEW n \in DOMAIN moved PROVE Stored(n)'
      <3>1. Stored(n) /\ \A g \in Slots : ~At(g, {"finish"})
        BY <2>1, <2>2 DEF StashInv, At
      <3>2. ~(moved[n].start # 0 /\ moved[n].start = draft.start)
        BY <3>1 DEF Stored
      <3>3. QED
        BY <1>2, <3>2 DEF Stored
    <2>5. QED
      BY <2>3, <2>4
  <1>7. (\A m, n \in DOMAIN moved : m # n => moved[m].by.id # moved[n].by.id)'
    BY <1>2 DEF StashInv
  <1>8. Calm' => (\A m, n \in DOMAIN moved : m # n /\ moved[m].start # 0 => moved[m].start # moved[n].start)'
    BY <1>2 DEF StashInv, Calm
  <1>9. QED
    BY <1>2, <1>4, <1>5, <1>6, <1>7, <1>8 DEF StashInv

LEMMA StashComes ==
  ASSUME StashInv, NEW h \in Slots,
         \/ \E action \in Actions : Slash(h, action)
         \/ \E b \in DOMAIN builders :
              \/ \E kind \in {"group", "clear", "submit"} : Click(h, kind, b)
              \/ \E item \in Items : ClickItem(h, b, item)
              \/ \E item \in Items, quantity \in Quantities : SendItem(h, b, item, quantity)
              \/ SendReason(h, b)
  PROVE  StashInv'
  <1>0. sent + 1 \in Nat \ {0}
    BY DEF StashInv, StashTypes
  <1> DEFINE New(i) == /\ Arrives(h, i) /\ i = [f \in WorkFields |-> i[f]]
                       /\ i.id = sent + 1 /\ i.copy = NoDraft /\ i.stage \in {"clear", "read"}
  <1>1. \E i : New(i)
    <2>1. ASSUME NEW action \in Actions, Slash(h, action) PROVE \E i : New(i)
      <3> DEFINE i == [kind |-> "start", id |-> sent + 1, builder |-> Len(builders) + 1, stage |-> "clear", action |-> action,
                   item |-> "", quantity |-> 0, copy |-> NoDraft,
                   shown |-> [title |-> action, lines |-> NoLines, reason |-> FALSE, live |-> FALSE, seen |-> FALSE]]
      <3>1. Arrives(h, i)
        BY <2>1 DEF Slash
      <3>2. /\ i = [f \in WorkFields |-> i[f]]
            /\ i.id = sent + 1 /\ i.copy = NoDraft /\ i.stage \in {"clear", "read"}
        BY DEF Interaction, WorkFields
      <3> HIDE DEF i
      <3>3. QED
        BY <3>1, <3>2
    <2>2. ASSUME NEW b, NEW kind, Click(h, kind, b) PROVE \E i : New(i)
      <3> DEFINE i == Interaction(kind, b)
      <3>1. Arrives(h, i)
        BY <2>2 DEF Click
      <3>2. /\ i = [f \in WorkFields |-> i[f]]
            /\ i.id = sent + 1 /\ i.copy = NoDraft /\ i.stage \in {"clear", "read"}
        BY DEF Interaction, WorkFields
      <3> HIDE DEF i
      <3>3. QED
        BY <3>1, <3>2
    <2>3. ASSUME NEW b, NEW item, ClickItem(h, b, item) PROVE \E i : New(i)
      <3> DEFINE i == [Interaction("remove", b) EXCEPT !.item = item]
      <3>1. Arrives(h, i)
        BY <2>3 DEF ClickItem
      <3>2. /\ i = [f \in WorkFields |-> i[f]]
            /\ i.id = sent + 1 /\ i.copy = NoDraft /\ i.stage \in {"clear", "read"}
        BY DEF Interaction, WorkFields
      <3> HIDE DEF i
      <3>3. QED
        BY <3>1, <3>2
    <2>4. ASSUME NEW b, NEW item, NEW quantity, SendItem(h, b, item, quantity) PROVE \E i : New(i)
      <3> DEFINE i == [Interaction("add", b) EXCEPT !.item = item, !.quantity = quantity]
      <3>1. Arrives(h, i)
        BY <2>4 DEF SendItem
      <3>2. /\ i = [f \in WorkFields |-> i[f]]
            /\ i.id = sent + 1 /\ i.copy = NoDraft /\ i.stage \in {"clear", "read"}
        BY DEF Interaction, WorkFields
      <3> HIDE DEF i
      <3>3. QED
        BY <3>1, <3>2
    <2>5. ASSUME NEW b, SendReason(h, b) PROVE \E i : New(i)
      <3> DEFINE i == Interaction("reason", b)
      <3>1. Arrives(h, i)
        BY <2>5 DEF SendReason
      <3>2. /\ i = [f \in WorkFields |-> i[f]]
            /\ i.id = sent + 1 /\ i.copy = NoDraft /\ i.stage \in {"clear", "read"}
        BY DEF Interaction, WorkFields
      <3> HIDE DEF i
      <3>3. QED
        BY <3>1, <3>2
    <2>6. QED
      BY <2>1, <2>2, <2>3, <2>4, <2>5
  <1>2. PICK i : New(i)
    BY <1>1
  <1>3. IsWork(i)
    BY <1>0, <1>2, NoDraftIs DEF IsWork
  <1>4. i # NoHandler
    BY <1>2 DEF NoHandler
  <1>5. QED
    BY <1>2, <1>3, <1>4, StashArrives

LEMMA StashOpens ==
  ASSUME StashInv, NEW h \in Slots, OpenDraft(h)
  PROVE  StashInv'
  <1> DEFINE w == [handlers[h] EXCEPT !.stage = "render"]
  <1>1. /\ handlers[h] # NoHandler /\ IsWork(handlers[h]) /\ At(h, {"clear", "open"})
        /\ handlers[h].id \in Nat \ {0} /\ handlers[h].id <= sent
    BY Working DEF OpenDraft, At
  <1>2. IsWork(w) /\ w.stage = "render" /\ w.id = handlers[h].id /\ w.copy = handlers[h].copy
    BY <1>1, WorkStage
  <1>3. w # NoHandler
    BY <1>2 DEF NoHandler
  <1>4. /\ DOMAIN handlers' = Slots /\ \A g \in Slots : handlers'[g] = IF g = h THEN w ELSE handlers[g]
        /\ moved' = moved /\ sent' = sent /\ excuses' = excuses
    BY DEF OpenDraft, To, StashInv, StashTypes
  <1>5. IsDraft(draft') /\ draft'.start = handlers[h].id
    <2> DEFINE a == [Live EXCEPT !.action = handlers[h].action]
               b == [a EXCEPT !.start = handlers[h].id]
    <2>1. IsDraft(Live)
      BY LiveIs DEF StashInv
    <2>2. IsDraft(a)
      BY <2>1, StashedDraft, 0 \in Nat
    <2>3. IsDraft(b) /\ b.start = handlers[h].id
      <3> HIDE DEF a
      <3>1. QED
        BY <1>1, <2>2, StashedDraft
    <2>4. Touch(b)
      BY DEF OpenDraft
    <2> HIDE DEF b
    <2>5. QED
      BY <2>3, <2>4, TouchedIs
  <1> HIDE DEF w
  <1>6. /\ \A g \in Slots : handlers[g] # NoHandler => handlers[g].copy.start # handlers[h].id
        /\ \A n \in DOMAIN moved : moved[n].start # handlers[h].id
        /\ \A g \in Slots \ {h} : At(g, {"clear", "open"}) => handlers[g].id # handlers[h].id
    BY <1>1 DEF StashInv, Opening
  <1>7. StashTypes'
    BY <1>1, <1>2, <1>4, <1>5 DEF StashInv, StashTypes
  <1>8. ASSUME NEW g \in Slots PROVE Opening(g)'
    <2>1. SUFFICES ASSUME At(g, {"clear", "open"})' PROVE Opening(g)'
      BY DEF Opening
    <2>2. g # h /\ At(g, {"clear", "open"}) /\ handlers'[g] = handlers[g]
      BY <1>2, <1>4, <2>1 DEF At
    <2>3. draft'.start # handlers[g].id
      BY <1>5, <1>6, <2>2
    <2>4. /\ \A n \in DOMAIN moved : moved[n].start # handlers[g].id
          /\ \A f \in Slots : handlers[f] # NoHandler => handlers[f].copy.start # handlers[g].id
          /\ \A f \in Slots \ {g} : At(f, {"clear", "open"}) => handlers[f].id # handlers[g].id
      BY <2>2 DEF StashInv, Opening
    <2>5. \A f \in Slots : handlers'[f] # NoHandler => handlers'[f].copy.start # handlers[g].id
      BY <1>1, <1>2, <1>4, <2>4
    <2>6. \A f \in Slots \ {g} : At(f, {"clear", "open"})' => handlers'[f].id # handlers[g].id
      BY <1>2, <1>4, <2>4 DEF At
    <2>7. QED
      BY <1>4, <2>2, <2>3, <2>4, <2>5, <2>6 DEF Opening
  <1>9. ASSUME Calm' PROVE (\A g \in Slots : Waits(g)') /\ \A n \in DOMAIN moved : Stored(n)'
    <2>1. Calm
      BY <1>4, <1>9 DEF Calm
    <2>2. \A g \in Slots : Waits(g)'
      <3>1. \A g \in Slots : Fresh(g)' => Fresh(g) /\ handlers'[g].id = handlers[g].id
        BY <1>1, <1>2, <1>4 DEF Fresh, OfKey
      <3>2. \A g \in Slots : handlers'[g].stage = "transact" => handlers'[g] = handlers[g]
        BY <1>2, <1>4
      <3>3. QED
        BY <1>4, <2>1, <3>1, <3>2 DEF StashInv, Waits
    <2>3. \A n \in DOMAIN moved : Stored(n)'
      BY <1>4, <1>5, <1>6 DEF Stored
    <2>4. QED
      BY <2>2, <2>3
  <1>10. (\A m, n \in DOMAIN moved : m # n => moved[m].by.id # moved[n].by.id)'
    BY <1>4 DEF StashInv
  <1>11. Calm' => (\A m, n \in DOMAIN moved : m # n /\ moved[m].start # 0 => moved[m].start # moved[n].start)'
    BY <1>4 DEF StashInv, Calm
  <1>12. QED
    BY <1>4, <1>7, <1>8, <1>9, <1>10, <1>11 DEF StashInv

LEMMA StashLoads ==
  ASSUME StashInv, NEW h \in Slots, Load(h)
  PROVE  StashInv'
  <1>1. /\ IsDraft(Live) /\ Live.start \in {draft.start, 0} /\ draft' = Live
        /\ moved' = moved /\ sent' = sent /\ excuses' = excuses /\ handlers[h].stage = "load"
    BY LiveIs DEF StashInv, Load
  <1>2. CASE Done(h)
    BY <1>1, <1>2, StashEnds
  <1>3. CASE handlers' = [handlers EXCEPT ![h] = [@ EXCEPT !.stage = "transact", !.copy = Live]]
    <2> DEFINE a == [handlers[h] EXCEPT !.stage = "transact"]
               w == [a EXCEPT !.copy = Live]
    <2>1. /\ handlers[h] # NoHandler /\ IsWork(handlers[h]) /\ handlers[h].kind = "submit"
          /\ handlers[h].id <= sent
      BY <1>1, Working
    <2>2. IsWork(a) /\ a.stage = "transact" /\ a.id = handlers[h].id
      BY <2>1, WorkStage
    <2>3. IsWork(w) /\ w.stage = "transact" /\ w.id = handlers[h].id /\ w.copy = Live
      <3> HIDE DEF a
      <3>1. QED
        BY <1>1, <2>2, WorkCopy
    <2>4. handlers' = [handlers EXCEPT ![h] = w]
      BY <1>3
    <2> HIDE DEF w
    <2>5. DOMAIN handlers' = Slots /\ \A g \in Slots : handlers'[g] = IF g = h THEN w ELSE handlers[g]
      BY <2>4 DEF StashInv, StashTypes
    <2>6. w # NoHandler /\ ~At(h, {"clear", "open"})' /\ ~At(h, {"finish"})
      BY <1>1, <2>3, <2>5 DEF NoHandler, At
    <2>7. /\ draft.start \in Nat /\ draft.start <= sent /\ sent \in Nat
      BY DEF StashInv, StashTypes, IsDraft
    <2>8. Live.start \in Nat /\ Live.start <= sent
      BY <1>1, <2>7
    <2>9. StashTypes'
      <3>1. \A g \in Slots : handlers'[g] # NoHandler =>
              IsWork(handlers'[g]) /\ handlers'[g].id <= sent /\ handlers'[g].copy.start <= sent
        BY <2>1, <2>3, <2>5, <2>8 DEF StashInv, StashTypes
      <3>2. QED
        BY <1>1, <2>5, <2>8, <3>1 DEF StashInv, StashTypes
    <2>10. ASSUME NEW g \in Slots PROVE Opening(g)'
      <3>1. SUFFICES ASSUME At(g, {"clear", "open"})' PROVE Opening(g)'
        BY DEF Opening
      <3>2. g # h /\ At(g, {"clear", "open"}) /\ handlers'[g] = handlers[g]
        BY <2>5, <2>6, <3>1 DEF At
      <3>3. /\ draft.start # handlers[g].id
            /\ \A n \in DOMAIN moved : moved[n].start # handlers[g].id
            /\ \A f \in Slots : handlers[f] # NoHandler => handlers[f].copy.start # handlers[g].id
            /\ \A f \in Slots \ {g} : At(f, {"clear", "open"}) => handlers[f].id # handlers[g].id
        BY <3>2 DEF StashInv, Opening
      <3>4. handlers[g].id # 0
        BY <3>2 DEF At, StashInv, StashTypes, IsWork
      <3>5. Live.start # handlers[g].id
        BY <1>1, <3>3, <3>4
      <3>6. \A f \in Slots : handlers'[f] # NoHandler => handlers'[f].copy.start # handlers[g].id
        BY <2>3, <2>5, <3>3, <3>5
      <3>7. \A f \in Slots \ {g} : At(f, {"clear", "open"})' => handlers'[f].id # handlers[g].id
        BY <2>5, <2>6, <3>3 DEF At
      <3>8. QED
        BY <1>1, <3>2, <3>3, <3>5, <3>6, <3>7 DEF Opening
    <2>11. ASSUME Calm' PROVE (\A g \in Slots : Waits(g)') /\ \A n \in DOMAIN moved : Stored(n)'
      <3>1. Calm
        BY <1>1, <2>11 DEF Calm
      <3>2. \A g \in Slots : Fresh(g)' => Fresh(g) /\ handlers'[g].id = handlers[g].id
        BY <1>1, <2>1, <2>3, <2>5 DEF Fresh, OfKey
      <3>3. \A g \in Slots \ {h} : Waits(g)'
        BY <1>1, <2>5, <3>1, <3>2 DEF StashInv, Waits
      <3>4. Waits(h)'
        <4>1. Fresh(h)' => handlers'[h].id = sent
          BY <3>1, <3>2 DEF StashInv, Waits
        <4>2. ASSUME Fresh(h)', Live.start # 0, NEW n \in DOMAIN moved PROVE moved[n].start # Live.start
          <5>1. SUFFICES ASSUME moved[n].start = Live.start PROVE FALSE
            OBVIOUS
          <5>2. moved[n].by.id = sent
            BY <1>1, <3>1, <4>2, <5>1 DEF StashInv, Stored
          <5>3. handlers[h].id = sent
            BY <3>2, <4>1, <4>2
          <5>4. OfKey(handlers[h]) = {}
            BY <3>2, <4>2 DEF Fresh
          <5>5. QED
            BY <5>2, <5>3, <5>4 DEF OfKey
        <4>3. handlers'[h].copy = Live
          BY <2>3, <2>5
        <4>4. QED
          BY <1>1, <4>1, <4>2, <4>3 DEF Waits
      <3>5. \A n \in DOMAIN moved : Stored(n)'
        <4>1. \A g \in Slots : At(g, {"finish"}) => At(g, {"finish"})'
          BY <2>5, <2>6 DEF At
        <4>2. \A n \in DOMAIN moved : Stored(n)
          BY <3>1 DEF StashInv
        <4>3. QED
          BY <1>1, <4>1, <4>2 DEF Stored
      <3>6. QED
        BY <3>3, <3>4, <3>5
    <2>12. (\A m, n \in DOMAIN moved : m # n => moved[m].by.id # moved[n].by.id)'
      BY <1>1 DEF StashInv
    <2>13. Calm' => (\A m, n \in DOMAIN moved : m # n /\ moved[m].start # 0 => moved[m].start # moved[n].start)'
      BY <1>1 DEF StashInv, Calm
    <2>14. QED
      BY <1>1, <2>9, <2>10, <2>11, <2>12, <2>13 DEF StashInv
  <1>4. QED
    BY <1>2, <1>3 DEF Load, Fail

LEMMA StashMoves ==
  ASSUME StashInv, NEW h \in Slots, handlers[h].stage = "transact", Moves(h),
         draft' = draft, sent' = sent,
         \/ To(h, "finish") /\ excuses' = excuses
         \/ Done(h) /\ excuses' = excuses \cup {"untold"}
  PROVE  StashInv'
  <1> DEFINE i == handlers[h]
             w == handlers'[h]
             last == Len(moved) + 1
             row == [by |-> i, action |-> i.action, lines |-> i.copy.lines, start |-> i.copy.start,
                     read |-> i.copy.expires]
  <1>1. /\ i # NoHandler /\ IsWork(i) /\ i.kind = "submit" /\ i.id \in Nat \ {0} /\ i.id <= sent
        /\ i.copy.start \in Nat /\ i.copy.start <= sent
    BY Working DEF IsDraft
  <1>2. /\ DOMAIN handlers' = Slots /\ \A g \in Slots \ {h} : handlers'[g] = handlers[g]
        /\ w # NoHandler => IsWork(w) /\ w.stage = "finish" /\ w.id = i.id /\ w.copy = i.copy
    <2>1. CASE To(h, "finish")
      <3>1. w = [i EXCEPT !.stage = "finish"]
        BY <2>1 DEF To, StashInv, StashTypes
      <3>2. IsWork(w) /\ w.stage = "finish" /\ w.id = i.id /\ w.copy = i.copy
        BY <1>1, <3>1, WorkStage
      <3>3. QED
        BY <2>1, <3>2 DEF To, StashInv, StashTypes
    <2>2. CASE Done(h)
      BY <2>2 DEF Done, StashInv, StashTypes
    <2>3. QED
      BY <2>1, <2>2
  <1>3. Calm' => Calm /\ w # NoHandler
    <2>1. To(h, "finish") => w = [i EXCEPT !.stage = "finish"]
      BY DEF To, StashInv, StashTypes
    <2>2. [i EXCEPT !.stage = "finish"] # NoHandler
      BY <1>1, WorkStage DEF NoHandler
    <2>3. QED
      BY <2>1, <2>2 DEF Calm
  <1>4. /\ moved' \in Seq({moved'[n] : n \in DOMAIN moved'})
        /\ Len(moved) \in Nat /\ DOMAIN moved = 1..Len(moved)
        /\ DOMAIN moved' = DOMAIN moved \cup {last} /\ moved'[last] = row
        /\ \A n \in DOMAIN moved : moved'[n] = moved[n] /\ n # last
    <2>1. moved \in Seq({moved[n] : n \in DOMAIN moved})
      BY DEF StashInv, StashTypes
    <2>2. moved' = Append(moved, row)
      BY DEF Moves
    <2> HIDE DEF row
    <2>3. QED
      BY <2>1, <2>2, RowAppended
  <1>5. row.by = i /\ row.start = i.copy.start
    OBVIOUS
  <1>6. \A n \in DOMAIN moved : moved[n].by.id # i.id
    BY DEF Moves, OfKey
  <1> HIDE DEF i, w, row, last
  <1>7. ~At(h, {"clear", "open"})' /\ ~At(h, {"finish"})
    BY <1>2 DEF At, w
  <1>8. StashTypes'
    <2>1. \A g \in Slots : handlers'[g] # NoHandler =>
            IsWork(handlers'[g]) /\ handlers'[g].id <= sent /\ handlers'[g].copy.start <= sent
      BY <1>1, <1>2 DEF StashInv, StashTypes, w
    <2>2. \A n \in DOMAIN moved' :
            /\ IsWork(moved'[n].by) /\ moved'[n].by.kind = "submit" /\ moved'[n].by.id <= sent
            /\ moved'[n].start \in Nat /\ moved'[n].start <= sent
      BY <1>1, <1>4, <1>5 DEF StashInv, StashTypes
    <2>3. QED
      BY <1>2, <1>4, <2>1, <2>2 DEF StashInv, StashTypes
  <1>9. ASSUME NEW g \in Slots PROVE Opening(g)'
    <2>1. SUFFICES ASSUME At(g, {"clear", "open"})' PROVE Opening(g)'
      BY DEF Opening
    <2>2. g # h /\ At(g, {"clear", "open"}) /\ handlers'[g] = handlers[g]
      BY <1>2, <1>7, <2>1 DEF At
    <2>3. /\ draft.start # handlers[g].id
          /\ \A n \in DOMAIN moved : moved[n].start # handlers[g].id
          /\ \A f \in Slots : handlers[f] # NoHandler => handlers[f].copy.start # handlers[g].id
          /\ \A f \in Slots \ {g} : At(f, {"clear", "open"}) => handlers[f].id # handlers[g].id
      BY <2>2 DEF StashInv, Opening
    <2>4. i.copy.start # handlers[g].id
      BY <1>1, <2>3 DEF i
    <2>5. \A n \in DOMAIN moved' : moved'[n].start # handlers[g].id
      BY <1>4, <1>5, <2>3, <2>4
    <2>6. \A f \in Slots : handlers'[f] # NoHandler => handlers'[f].copy.start # handlers[g].id
      BY <1>2, <2>3, <2>4 DEF w
    <2>7. \A f \in Slots \ {g} : At(f, {"clear", "open"})' => handlers'[f].id # handlers[g].id
      BY <1>2, <1>7, <2>3 DEF At
    <2>8. QED
      BY <2>2, <2>3, <2>5, <2>6, <2>7 DEF Opening
  <1>10. (\A m, n \in DOMAIN moved : m # n => moved[m].by.id # moved[n].by.id)'
    <2>1. \A m, n \in DOMAIN moved : m # n => moved[m].by.id # moved[n].by.id
      BY DEF StashInv
    <2>2. \A m, n \in DOMAIN moved' : m # n => moved'[m].by.id # moved'[n].by.id
      BY <1>4, <1>5, <1>6, <2>1
    <2>3. QED
      BY <2>2
  <1>11. ASSUME Calm'
         PROVE  /\ \A g \in Slots : Waits(g)'
                /\ \A n \in DOMAIN moved' : Stored(n)'
                /\ \A m, n \in DOMAIN moved' : m # n /\ moved'[m].start # 0 => moved'[m].start # moved'[n].start
    <2>1. Calm /\ w # NoHandler
      BY <1>3, <1>11
    <2>2. i.id = sent /\ (i.copy.start # 0 => \A n \in DOMAIN moved : moved[n].start # i.copy.start)
      <3>1. Fresh(h) /\ Waits(h)
        BY <1>1, <2>1 DEF Moves, Fresh, StashInv, i
      <3>2. QED
        BY <3>1 DEF Waits, i
    <2>3. \A g \in Slots : ~Fresh(g)'
      <3>1. SUFFICES ASSUME NEW g \in Slots, Fresh(g)' PROVE FALSE
        OBVIOUS
      <3>2. handlers'[g].id # i.id
        BY <1>4, <1>5, <3>1 DEF Fresh, OfKey
      <3>3. g # h /\ handlers'[g] = handlers[g]
        BY <1>2, <2>1, <3>2 DEF w
      <3>4. \A n \in DOMAIN moved : moved[n].by.id # handlers[g].id
        BY <1>4, <3>1, <3>3 DEF Fresh, OfKey
      <3>5. Fresh(g)
        BY <3>1, <3>3, <3>4 DEF Fresh, OfKey
      <3>6. handlers[g].id = sent
        BY <2>1, <3>5 DEF StashInv, Waits
      <3>7. QED
        BY <2>2, <3>2, <3>3, <3>6
    <2>4. At(h, {"finish"})'
      BY <1>2, <2>1 DEF At, w
    <2>5. \A n \in DOMAIN moved' : Stored(n)'
      <3>1. \A n \in DOMAIN moved : Stored(n)
        BY <2>1 DEF StashInv
      <3>2. \A n \in DOMAIN moved' : moved'[n].start # 0 /\ moved'[n].start = draft.start => moved'[n].by.id = sent
        BY <1>4, <1>5, <2>2, <3>1 DEF Stored
      <3>3. QED
        BY <2>4, <3>2 DEF Stored
    <2>6. \A m, n \in DOMAIN moved : m # n /\ moved[m].start # 0 => moved[m].start # moved[n].start
      BY <2>1 DEF StashInv
    <2>7. \A m, n \in DOMAIN moved' : m # n /\ moved'[m].start # 0 => moved'[m].start # moved'[n].start
      BY <1>4, <1>5, <2>2, <2>6
    <2>8. QED
      BY <2>3, <2>5, <2>7 DEF Waits
  <1>12. QED
    BY <1>8, <1>9, <1>10, <1>11 DEF StashInv

LEMMA StashSubmits ==
  ASSUME StashInv, NEW h \in Slots, Transact(h) \/ Refused(h)
  PROVE  StashInv'
  <1>1. handlers[h].stage = "transact" /\ draft' = draft /\ sent' = sent
    BY DEF Transact, Refused
  <1>2. IsDraft(draft') /\ draft'.start \in {draft.start, 0}
    BY <1>1 DEF StashInv, StashTypes
  <1>3. CASE Transact(h) /\ Moves(h)
    BY <1>1, <1>3, StashMoves DEF Transact
  <1>4. CASE Transact(h) /\ moved' = moved
    <2> DEFINE w == [handlers[h] EXCEPT !.stage = "finish"]
    <2>1. handlers[h] # NoHandler /\ IsWork(handlers[h]) /\ handlers[h].kind = "submit"
      BY <1>1, Working
    <2>2. IsWork(w) /\ w.stage = "finish" /\ w.id = handlers[h].id /\ w.copy = handlers[h].copy
      BY <2>1, WorkStage
    <2>3. handlers' = [handlers EXCEPT ![h] = w] /\ excuses' = excuses
      BY <1>4 DEF Transact, To
    <2> HIDE DEF w
    <2>4. w # NoHandler /\ Keeps(h, w)
      BY <2>1, <2>2 DEF NoHandler, Keeps
    <2>5. QED
      BY <1>1, <1>2, <1>4, <2>2, <2>3, <2>4, StashGoes
  <1>5. CASE Refused(h) /\ Moves(h) /\ excuses' = excuses \cup {"untold"}
    BY <1>1, <1>5, StashMoves DEF Refused
  <1>6. CASE Refused(h) /\ moved' = moved /\ excuses' = excuses
    BY <1>1, <1>2, <1>6, StashEnds DEF Refused
  <1>7. QED
    BY <1>3, <1>4, <1>5, <1>6 DEF Transact, Refused

LEMMA StashStep == StashInv /\ [StashNext]_stashVars => StashInv'
  <1> SUFFICES ASSUME StashInv, [StashNext]_stashVars PROVE StashInv'
    OBVIOUS
  <1>1. CASE UNCHANGED stashVars
    BY <1>1 DEF stashVars, StashInv, StashTypes, Opening, Calm, Waits, Fresh, OfKey, Stored, At
  <1>2. CASE Tick \/ Reboot
    BY <1>2, StashTick
  <1>3. ASSUME NEW h \in Slots,
               \/ \E action \in Actions : Slash(h, action)
               \/ \E b \in DOMAIN builders :
                    \/ \E kind \in {"group", "clear", "submit"} : Click(h, kind, b)
                    \/ \E item \in Items : ClickItem(h, b, item)
                    \/ \E item \in Items, quantity \in Quantities : SendItem(h, b, item, quantity)
                    \/ SendReason(h, b)
        PROVE  StashInv'
    BY <1>3, StashComes
  <1>4. ASSUME NEW h \in Slots,
               DeferFails(h) \/ RefuseItem(h) \/ Render(h) \/ RenderFails(h) \/ ListAfterFails(h) \/ ConfirmStash(h)
        PROVE  StashInv'
    BY <1>4, StashStops
  <1>5. ASSUME NEW h \in Slots, ClearForStart(h) \/ Change(h) \/ Finish(h) PROVE StashInv'
    BY <1>5, StashChanges
  <1>6. ASSUME NEW h \in Slots, Redeliver(h) \/ OpenDraft(h) \/ ReadAction(h) \/ Load(h) PROVE StashInv'
    BY <1>6, StashRedeliver, StashOpens, StashReadAction, StashLoads
  <1>7. ASSUME NEW h \in Slots, Transact(h) \/ Refused(h) PROVE StashInv'
    BY <1>7, StashSubmits
  <1>8. QED
    BY <1>1, <1>2, <1>3, <1>4, <1>5, <1>6, <1>7, Zenon DEF StashNext

LEMMA StashInitInv == StashInit => StashInv
  <1> SUFFICES ASSUME StashInit PROVE StashInv
    OBVIOUS
  <1>1. /\ sent = 0 /\ draft = NoDraft /\ moved = <<>> /\ excuses = {}
        /\ DOMAIN handlers = Slots /\ \A h \in Slots : handlers[h] = NoHandler
    BY DEF StashInit
  <1>2. DOMAIN moved = {} /\ moved \in Seq({moved[n] : n \in DOMAIN moved})
    BY <1>1
  <1>3. StashTypes
    BY <1>1, <1>2, NoDraftIs DEF StashTypes
  <1>4. QED
    BY <1>1, <1>2, <1>3 DEF StashInv, Opening, At, Waits, Fresh, Stored

(***************************************************************************)
(* README.md: "a redelivered event cannot apply the movement twice", nor   *)
(* does a member who waits for his answers move one draft twice: for any   *)
(* number of interactions, builders, redeliveries and restarts.            *)
(***************************************************************************)
THEOREM SubmittedCorrect == StashSpec => []SubmittedOnce
  <1>1. StashInv => SubmittedOnce
    BY DEF StashInv, SubmittedOnce, Calm
  <1>2. StashInv /\ [StashNext]_stashVars => StashInv'
    BY StashStep
  <1>3. QED
    BY <1>1, <1>2, StashInitInv, PTL DEF StashSpec

-----------------------------------------------------------------------------
(***************************************************************************)
(* What a Submit moves, for a member with one builder who waits for every  *)
(* answer and gets it (Tidy).  ShownInv is inductive with StashInv.  The   *)
(* builder shows the draft unless a change has yet to be rendered, and a   *)
(* Submit that may still move is alone with its repetitions: until it has  *)
(* its copy, nothing but a Clear changes the draft it was clicked under.   *)
(* A draft without an action, which a change leaves behind when the draft  *)
(* went away under it, is never submitted.                                 *)
(***************************************************************************)
BuilderFields == {"title", "lines", "reason", "live", "seen"}
IsBuilder(m) == m = [f \in BuilderFields |-> m[f]]
ShownTypes ==
  /\ builders \in Seq({builders[b] : b \in DOMAIN builders})
  /\ \A b \in DOMAIN builders : IsBuilder(builders[b])
  /\ \A h \in Slots : handlers[h] # NoHandler =>
       /\ handlers[h].builder \in DOMAIN builders
       /\ handlers[h].stage \in (IF handlers[h].kind = "submit"
                                 THEN {"read", "load", "transact", "finish", "confirm"}
                                 ELSE {"clear", "open", "read", "change", "render"})
  /\ \A n \in DOMAIN moved : moved[n].by.builder \in DOMAIN builders
  /\ builders = <<>> => moved = <<>> /\ \A h \in Slots : handlers[h] = NoHandler

Tidy == Len(builders) = 1 /\ excuses \cap {"overlap", "unseen"} = {}
Shows(m) == draft.action # "" => draft.lines = m.lines /\ draft.action = m.title
Acts(h) == handlers[h] # NoHandler /\ handlers[h].kind # "submit"
Rendered ==
  (\A h \in Slots : ~At(h, {"render"})) /\ builders[1].live => Shows(builders[1])
Submits(h) ==
  Fresh(h) /\ handlers[h].kind = "submit" =>
    /\ \A g \in Slots : ~Acts(g)
    /\ Shows(handlers[h].shown)
    /\ handlers[h].stage = "load" =>
         /\ handlers[h].action = handlers[h].shown.title
         /\ draft.lines \in {handlers[h].shown.lines, NoLines}
    /\ handlers[h].stage = "transact" =>
         /\ handlers[h].action = handlers[h].shown.title
         /\ handlers[h].copy.lines = handlers[h].shown.lines
AsClicked(n) ==
  moved[n].lines = moved[n].by.shown.lines /\ moved[n].action = moved[n].by.shown.title

ShownInv ==
  /\ ShownTypes
  /\ Tidy =>
       /\ Rendered
       /\ \A g, h \in Slots : Acts(g) /\ Acts(h) => g = h
       /\ \A h \in Slots : At(h, {"change", "render"}) => draft.action \in {"", handlers[h].action}
       /\ \A h \in Slots : Submits(h)
       /\ \A n \in DOMAIN moved : AsClicked(n)

\* A goroutine goes on with its interaction.
Goes(h, i) ==
  /\ handlers[h] # NoHandler
  /\ i.kind = handlers[h].kind /\ i.id = handlers[h].id /\ i.shown = handlers[h].shown
  /\ i.stage \in {"change", "render"} =>
       \/ i.stage = handlers[h].stage /\ i.action = handlers[h].action
       \/ i.stage = "change" /\ i.action = draft'.action
  /\ i.stage = "load" =>
       \/ handlers[h].stage = "load" /\ i.action = handlers[h].action
       \/ i.action = draft'.action /\ i.action # ""
  /\ i.stage = "transact" =>
       /\ i.action = handlers[h].action
       /\ \/ handlers[h].stage = "transact" /\ i.copy = handlers[h].copy
          \/ handlers[h].stage = "load" /\ i.copy.lines = draft'.lines /\ i.copy.lines # NoLines
\* A Submit is delivered again.
Repeats(i) ==
  /\ i.stage = "read" /\ i.kind = "submit"
  /\ \/ \E g \in Slots : handlers[g] # NoHandler /\ handlers[g].kind = "submit"
                           /\ i.id = handlers[g].id /\ i.shown = handlers[g].shown
     \/ \E n \in DOMAIN moved : i.id = moved[n].by.id
\* The draft stays, or is gone.
Settles ==
  \/ draft'.action = "" /\ draft'.lines = NoLines
  \/ draft'.action = draft.action /\ draft'.lines = draft.lines

LEMMA ShownKeeps ==
  ASSUME ShownInv, ShownTypes', moved' = moved, excuses \subseteq excuses', Settles,
         Len(builders') = Len(builders),
         Len(builders) = 1 => builders'[1] = builders[1] \/ ~builders'[1].live,
         \A h \in Slots : handlers'[h] # NoHandler => Goes(h, handlers'[h]) \/ Repeats(handlers'[h]),
         \A h \in Slots : Len(builders) = 1 /\ At(h, {"render"}) =>
           At(h, {"render"})' \/ ~builders'[1].live \/ draft'.action = ""
  PROVE  ShownInv'
  <1> SUFFICES ASSUME Tidy'
               PROVE  /\ Rendered'
                      /\ (\A g, h \in Slots : Acts(g) /\ Acts(h) => g = h)'
                      /\ (\A h \in Slots : At(h, {"change", "render"}) => draft.action \in {"", handlers[h].action})'
                      /\ (\A h \in Slots : Submits(h))'
                      /\ (\A n \in DOMAIN moved : AsClicked(n))'
    BY DEF ShownInv
  <1>1. Tidy
    BY DEF Tidy
  <1>2. /\ Rendered
        /\ \A g, h \in Slots : Acts(g) /\ Acts(h) => g = h
        /\ \A h \in Slots : At(h, {"change", "render"}) => draft.action \in {"", handlers[h].action}
        /\ \A h \in Slots : Submits(h)
        /\ \A n \in DOMAIN moved : AsClicked(n)
    BY <1>1 DEF ShownInv
  <1>3. \A m : Shows(m) => Shows(m)'
    BY DEF Shows, Settles
  <1>4. Rendered'
    <2>1. SUFFICES ASSUME \A h \in Slots : ~At(h, {"render"})', builders'[1].live, draft'.action # ""
                   PROVE  draft'.lines = builders'[1].lines /\ draft'.action = builders'[1].title
      BY DEF Rendered, Shows
    <2>2. builders'[1] = builders[1] /\ \A h \in Slots : ~At(h, {"render"})
      BY <1>1, <2>1 DEF Tidy
    <2>3. Shows(builders[1])
      BY <1>2, <2>1, <2>2 DEF Rendered
    <2>4. QED
      BY <2>1, <2>2, <2>3 DEF Shows, Settles
  <1>5. \A h \in Slots : Acts(h)' => Acts(h)
    BY DEF Acts, Goes, Repeats
  <1>6. ASSUME NEW h \in Slots, At(h, {"change", "render"})'
        PROVE  draft'.action \in {"", handlers'[h].action}
    <2>1. handlers'[h] # NoHandler /\ handlers'[h].stage \in {"change", "render"}
      BY <1>6 DEF At
    <2>2. Goes(h, handlers'[h])
      BY <2>1 DEF Repeats
    <2>3. CASE handlers'[h].action = draft'.action
      BY <2>3
    <2>4. CASE handlers'[h].stage = handlers[h].stage /\ handlers'[h].action = handlers[h].action
      <3>1. At(h, {"change", "render"})
        BY <2>1, <2>2, <2>4 DEF At, Goes
      <3>2. draft.action \in {"", handlers[h].action}
        BY <1>2, <3>1
      <3>3. QED
        BY <2>4, <3>2 DEF Settles
    <2>5. QED
      BY <2>1, <2>2, <2>3, <2>4 DEF Goes
  <1>7. ASSUME NEW h \in Slots PROVE Submits(h)'
    <2>1. SUFFICES ASSUME Fresh(h)', handlers'[h].kind = "submit" PROVE Submits(h)'
      BY DEF Submits
    <2>2. handlers'[h] # NoHandler /\ \A n \in DOMAIN moved : moved[n].by.id # handlers'[h].id
      BY <2>1 DEF Fresh, OfKey
    <2>3. PICK g \in Slots : /\ handlers[g] # NoHandler /\ handlers[g].kind = "submit"
                             /\ handlers'[h].id = handlers[g].id /\ handlers'[h].shown = handlers[g].shown
                             /\ (Goes(h, handlers'[h]) /\ g = h) \/ handlers'[h].stage = "read"
      BY <2>1, <2>2 DEF Goes, Repeats
    <2>4. Fresh(g)
      BY <2>2, <2>3 DEF Fresh, OfKey
    <2>5. /\ \A f \in Slots : ~Acts(f)
          /\ Shows(handlers[g].shown)
          /\ handlers[g].stage = "load" =>
               /\ handlers[g].action = handlers[g].shown.title
               /\ draft.lines \in {handlers[g].shown.lines, NoLines}
          /\ handlers[g].stage = "transact" =>
               /\ handlers[g].action = handlers[g].shown.title
               /\ handlers[g].copy.lines = handlers[g].shown.lines
      BY <1>2, <2>3, <2>4 DEF Submits
    <2>6. \A f \in Slots : ~Acts(f)'
      BY <1>5, <2>5
    <2>7. draft'.action # "" => draft'.lines = handlers[g].shown.lines /\ draft'.action = handlers[g].shown.title
      BY <2>5 DEF Shows, Settles
    <2>8. handlers'[h].stage = "load" =>
            /\ handlers'[h].action = handlers[g].shown.title
            /\ draft'.lines \in {handlers[g].shown.lines, NoLines}
      BY <2>3, <2>5, <2>7 DEF Goes, Settles
    <2>9. handlers'[h].stage = "transact" =>
            /\ handlers'[h].action = handlers[g].shown.title
            /\ handlers'[h].copy.lines = handlers[g].shown.lines
      BY <2>3, <2>5, <2>7 DEF Goes, Settles
    <2>10. QED
      BY <2>3, <2>6, <2>7, <2>8, <2>9 DEF Submits, Shows
  <1>8. \A n \in DOMAIN moved' : AsClicked(n)'
    BY <1>2 DEF AsClicked
  <1>9. QED
    BY <1>2, <1>4, <1>5, <1>6, <1>7, <1>8

\* A step of one goroutine, which may change the message it answers.
LEMMA ShownTyped ==
  ASSUME StashInv, ShownTypes, NEW h \in Slots, handlers[h] # NoHandler,
         DOMAIN handlers' = Slots, \A g \in Slots \ {h} : handlers'[g] = handlers[g],
         handlers'[h] # NoHandler =>
           /\ handlers'[h].builder = handlers[h].builder
           /\ handlers'[h].stage \in (IF handlers'[h].kind = "submit"
                                      THEN {"read", "load", "transact", "finish", "confirm"}
                                      ELSE {"clear", "open", "read", "change", "render"}),
         \A n \in DOMAIN moved' : moved'[n].by.builder \in DOMAIN builders,
         \/ builders' = builders
         \/ \E m : IsBuilder(m) /\ builders' = [builders EXCEPT ![handlers[h].builder] = m]
  PROVE  /\ ShownTypes'
         /\ DOMAIN builders' = DOMAIN builders /\ Len(builders') = Len(builders)
         /\ \A b \in DOMAIN builders : b # handlers[h].builder => builders'[b] = builders[b]
  <1>1. builders \in Seq({builders[b] : b \in DOMAIN builders}) /\ handlers[h].builder \in DOMAIN builders
    BY DEF ShownTypes
  <1>2. /\ builders' \in Seq({builders'[b] : b \in DOMAIN builders'})
        /\ DOMAIN builders' = DOMAIN builders /\ Len(builders') = Len(builders)
        /\ \A b \in DOMAIN builders : b # handlers[h].builder => builders'[b] = builders[b]
        /\ \A b \in DOMAIN builders : IsBuilder(builders'[b])
    <2>1. CASE builders' = builders
      BY <1>1, <2>1 DEF ShownTypes
    <2>2. ASSUME NEW m, IsBuilder(m), builders' = [builders EXCEPT ![handlers[h].builder] = m]
          PROVE  /\ builders' \in Seq({builders'[b] : b \in DOMAIN builders'})
                 /\ DOMAIN builders' = DOMAIN builders /\ Len(builders') = Len(builders)
                 /\ \A b \in DOMAIN builders : b # handlers[h].builder => builders'[b] = builders[b]
                 /\ \A b \in DOMAIN builders : IsBuilder(builders'[b])
      <3> DEFINE k == handlers[h].builder
                 t == [builders EXCEPT ![k] = m]
      <3>1. /\ t \in Seq({t[n] : n \in DOMAIN t})
            /\ DOMAIN t = DOMAIN builders /\ Len(t) = Len(builders)
            /\ \A n \in DOMAIN builders : t[n] = IF n = k THEN m ELSE builders[n]
        <4>1. builders \in Seq({builders[b] : b \in DOMAIN builders}) /\ k \in DOMAIN builders
          BY <1>1
        <4> HIDE DEF k
        <4>2. QED
          BY ONLY <4>1, RowChanged, ZenonT(40)
      <3>2. builders' = t
        BY <2>2
      <3> HIDE DEF t
      <3>3. \A b \in DOMAIN builders : IsBuilder(builders'[b])
        BY <2>2, <3>1, <3>2 DEF ShownTypes
      <3>4. QED
        BY <3>1, <3>2, <3>3
    <2>3. QED
      BY <2>1, <2>2
  <1>3. \A g \in Slots : handlers'[g] # NoHandler =>
          /\ handlers'[g].builder \in DOMAIN builders
          /\ handlers'[g].stage \in (IF handlers'[g].kind = "submit"
                                     THEN {"read", "load", "transact", "finish", "confirm"}
                                     ELSE {"clear", "open", "read", "change", "render"})
    BY <1>1 DEF ShownTypes
  <1>4. builders' # <<>>
    BY <1>1, <1>2
  <1>5. QED
    BY <1>2, <1>3, <1>4 DEF ShownTypes

LEMMA ToldIs ==
  ASSUME ShownTypes, NEW b \in DOMAIN builders
  PROVE  \E m : IsBuilder(m) /\ m.live = FALSE /\ Told(b) = [builders EXCEPT ![b] = m]
  <1> DEFINE m == [builders[b] EXCEPT !.live = FALSE]
  <1>1. IsBuilder(m) /\ m.live = FALSE
    BY DEF ShownTypes, IsBuilder, BuilderFields
  <1>2. Told(b) = [builders EXCEPT ![b] = m]
    BY DEF Told
  <1> HIDE DEF m
  <1>3. QED
    BY <1>1, <1>2

LEMMA WorkRest ==
  ASSUME NEW i, IsWork(i), NEW s, s # "idle"
  PROVE  LET w == [i EXCEPT !.stage = s]
         IN  /\ w # NoHandler /\ w.stage = s
             /\ w.kind = i.kind /\ w.id = i.id /\ w.builder = i.builder /\ w.action = i.action
             /\ w.shown = i.shown /\ w.copy = i.copy
BY DEF IsWork, WorkFields, NoHandler

LEMMA LiveSettles ==
  ASSUME draft' \in {draft, NoDraft, Live}
  PROVE  Settles
  <1>1. draft' = draft \/ draft' = NoDraft
    BY DEF Live
  <1>2. NoDraft.action = "" /\ NoDraft.lines = NoLines
    BY DEF NoDraft
  <1>3. QED
    BY <1>1, <1>2 DEF Settles

LEMMA ShownGoes ==
  ASSUME StashInv, ShownInv, NEW h \in Slots, handlers[h] # NoHandler,
         NEW w, handlers' = [handlers EXCEPT ![h] = w],
         w # NoHandler =>
           /\ Goes(h, w) /\ w.builder = handlers[h].builder
           /\ w.stage \in (IF w.kind = "submit" THEN {"read", "load", "transact", "finish", "confirm"}
                                                ELSE {"clear", "open", "read", "change", "render"}),
         moved' = moved, excuses \subseteq excuses', draft' \in {draft, NoDraft, Live},
         builders' \in {builders, Told(handlers[h].builder)},
         \/ handlers[h].stage # "render" \/ draft'.action = ""
         \/ builders' = Told(handlers[h].builder)
  PROVE  ShownInv'
  <1>1. ShownTypes /\ DOMAIN handlers = Slots /\ handlers[h].builder \in DOMAIN builders
    BY DEF StashInv, StashTypes, ShownInv, ShownTypes
  <1>2. DOMAIN handlers' = Slots /\ \A g \in Slots : handlers'[g] = IF g = h THEN w ELSE handlers[g]
    BY <1>1
  <1>3. \/ builders' = builders
        \/ \E m : IsBuilder(m) /\ builders' = [builders EXCEPT ![handlers[h].builder] = m]
    BY <1>1, ToldIs
  <1>4. \A n \in DOMAIN moved' : moved'[n].by.builder \in DOMAIN builders
    BY <1>1 DEF ShownTypes
  <1>5. ShownTypes' /\ Len(builders') = Len(builders)
    BY <1>1, <1>2, <1>3, <1>4, ShownTyped
  <1>6. Settles
    BY LiveSettles
  <1>7. Len(builders) = 1 => DOMAIN builders = {1}
    BY <1>1, OneRow DEF ShownTypes
  <1>8. ASSUME Len(builders) = 1, builders' = Told(handlers[h].builder) PROVE ~builders'[1].live
    <2>1. handlers[h].builder = 1 /\ 1 \in DOMAIN builders
      BY <1>1, <1>7, <1>8
    <2>2. PICK m : m.live = FALSE /\ builders' = [builders EXCEPT ![1] = m]
      BY <1>1, <1>8, <2>1, ToldIs
    <2>3. QED
      BY <1>1, <2>1, <2>2 DEF ShownTypes
  <1>9. \A g \in Slots : handlers'[g] # NoHandler => Goes(g, handlers'[g]) \/ Repeats(handlers'[g])
    <2>1. \A g \in Slots \ {h} : handlers[g] # NoHandler => Goes(g, handlers[g])
      <3>1. SUFFICES ASSUME NEW g \in Slots \ {h}, handlers[g] # NoHandler PROVE Goes(g, handlers[g])
        OBVIOUS
      <3>2. QED
        BY <3>1 DEF Goes
    <2>2. QED
      BY <1>2, <2>1
  <1>10. \A g \in Slots : Len(builders) = 1 /\ At(g, {"render"}) =>
           At(g, {"render"})' \/ ~builders'[1].live \/ draft'.action = ""
    BY <1>2, <1>8 DEF At
  <1>11. Len(builders) = 1 => builders'[1] = builders[1] \/ ~builders'[1].live
    BY <1>8
  <1>12. QED
    BY <1>5, <1>6, <1>9, <1>10, <1>11, ShownKeeps

\* The steps that end a goroutine, and change its message at most to a text.
LEMMA ShownEnds ==
  ASSUME StashInv, ShownInv, NEW h \in Slots, handlers[h].stage \notin {"idle", "render"},
         Done(h), moved' = moved, excuses \subseteq excuses', draft' \in {draft, NoDraft, Live},
         builders' \in {builders, Told(handlers[h].builder)}
  PROVE  ShownInv'
  <1>1. handlers[h] # NoHandler
    BY DEF NoHandler
  <1>2. handlers' = [handlers EXCEPT ![h] = NoHandler]
    BY DEF Done
  <1>3. QED
    BY <1>1, <1>2, ShownGoes

\* To, for the stages that neither look at the draft nor render it.
LEMMA ShownTo ==
  ASSUME StashInv, ShownInv, NEW h \in Slots, NEW s, To(h, s),
         handlers[h].stage \notin {"idle", "render"},
         \/ s = "open" /\ handlers[h].kind # "submit"
         \/ s \in {"finish", "confirm"} /\ handlers[h].kind = "submit",
         moved' = moved, excuses \subseteq excuses', draft' \in {draft, NoDraft, Live},
         builders' = builders
  PROVE  ShownInv'
  <1> DEFINE w == [handlers[h] EXCEPT !.stage = s]
  <1>1. handlers[h] # NoHandler /\ IsWork(handlers[h])
    BY Working
  <1>2. /\ w # NoHandler /\ w.stage = s
        /\ w.kind = handlers[h].kind /\ w.id = handlers[h].id /\ w.builder = handlers[h].builder
        /\ w.action = handlers[h].action /\ w.shown = handlers[h].shown
    BY <1>1, WorkRest
  <1>3. handlers' = [handlers EXCEPT ![h] = w]
    BY DEF To
  <1> HIDE DEF w
  <1>4. Goes(h, w)
    BY <1>1, <1>2 DEF Goes
  <1>5. w.stage \in (IF w.kind = "submit" THEN {"read", "load", "transact", "finish", "confirm"}
                                          ELSE {"clear", "open", "read", "change", "render"})
    BY <1>2
  <1>6. QED
    BY <1>1, <1>2, <1>3, <1>4, <1>5, ShownGoes

LEMMA ShownTick == StashInv /\ ShownInv /\ (Tick \/ Reboot) => ShownInv'
  <1>1. ASSUME StashInv, ShownInv, Tick PROVE ShownInv'
    <2>1. /\ draft' = draft /\ builders' = builders /\ handlers' = handlers /\ moved' = moved
          /\ excuses' = excuses
      BY <1>1 DEF Tick
    <2>2. QED
      BY <1>1, <2>1, ZenonT(40) DEF ShownInv, ShownTypes, Tidy, Rendered, Shows, Acts, Submits, Fresh, OfKey,
                        AsClicked, At
  <1>2. ASSUME StashInv, ShownInv, Reboot PROVE ShownInv'
    <2>1. /\ builders' = builders /\ moved' = moved /\ excuses' = excuses /\ draft' = NoDraft
          /\ \A h \in Slots : handlers'[h] = NoHandler
      BY <1>2 DEF Reboot
    <2>2. ShownTypes'
      BY <1>2, <2>1 DEF ShownInv, ShownTypes
    <2>3. Settles /\ draft'.action = ""
      BY <2>1 DEF Settles, NoDraft
    <2>4. QED
      BY <1>2, <2>1, <2>2, <2>3, ShownKeeps
  <1>3. QED
    BY <1>1, <1>2

LEMMA ShownStops ==
  ASSUME StashInv, ShownInv, NEW h \in Slots,
         DeferFails(h) \/ RefuseItem(h) \/ ListAfterFails(h) \/ ConfirmStash(h)
  PROVE  ShownInv'
  <1>1. Done(h) /\ moved' = moved /\ excuses \subseteq excuses' /\ draft' = draft
    BY DEF DeferFails, RefuseItem, Fail, ListAfterFails, ConfirmStash
  <1>2. handlers[h].stage \notin {"idle", "render"}
    BY DEF DeferFails, RefuseItem, ListAfterFails, ConfirmStash
  <1>3. builders' \in {builders, Told(handlers[h].builder)}
    BY DEF DeferFails, RefuseItem, Fail, Answer, ListAfterFails, ConfirmStash
  <1>4. QED
    BY <1>1, <1>2, <1>3, ShownEnds

LEMMA ShownClears ==
  ASSUME StashInv, ShownInv, NEW h \in Slots, ClearForStart(h) \/ Finish(h)
  PROVE  ShownInv'
  <1>1. draft' = NoDraft /\ moved' = moved /\ excuses' = excuses /\ builders' = builders
    BY DEF ClearForStart, Finish, Clear
  <1>2. CASE ClearForStart(h)
    <2>1. handlers[h].stage = "clear" /\ handlers[h].kind # "submit" /\ To(h, "open")
      BY <1>2 DEF ClearForStart
    <2>2. QED
      BY <1>1, <2>1, ShownTo
  <1>3. CASE Finish(h)
    <2>1. handlers[h].stage = "finish" /\ handlers[h].kind = "submit" /\ To(h, "confirm")
      BY <1>3, Working DEF Finish
    <2>2. QED
      BY <1>1, <2>1, ShownTo
  <1>4. QED
    BY <1>2, <1>3

LEMMA ShownRedeliver ==
  ASSUME StashInv, ShownInv, NEW h \in Slots, Redeliver(h)
  PROVE  ShownInv'
  <1>1. PICK again \in {handlers[g] : g \in {g \in InFlight : handlers[g].kind = "submit"}}
                         \cup {moved[n].by : n \in DOMAIN moved} :
          handlers' = [handlers EXCEPT ![h] = [again EXCEPT !.stage = "read", !.copy = NoDraft, !.action = ""]]
    BY DEF Redeliver
  <1> DEFINE w == [again EXCEPT !.stage = "read", !.copy = NoDraft, !.action = ""]
  <1>2. /\ IsWork(again) /\ again.kind = "submit" /\ again.builder \in DOMAIN builders
        /\ \/ \E g \in Slots : handlers[g] # NoHandler /\ handlers[g].kind = "submit"
                                 /\ again.id = handlers[g].id /\ again.shown = handlers[g].shown
           \/ \E n \in DOMAIN moved : again.id = moved[n].by.id
    BY DEF StashInv, StashTypes, InFlight, ShownInv, ShownTypes
  <1>3. /\ w.stage = "read" /\ w.kind = again.kind /\ w.id = again.id /\ w.shown = again.shown
        /\ w.builder = again.builder
    BY <1>2 DEF IsWork, WorkFields
  <1>4. handlers' = [handlers EXCEPT ![h] = w] /\ DOMAIN handlers = Slots /\ handlers[h] = NoHandler
    BY <1>1 DEF Redeliver, StashInv, StashTypes
  <1> HIDE DEF w
  <1>5. DOMAIN handlers' = Slots /\ \A g \in Slots : handlers'[g] = IF g = h THEN w ELSE handlers[g]
    BY <1>4
  <1>6. /\ moved' = moved /\ builders' = builders /\ excuses' = excuses /\ draft' = draft
    BY DEF Redeliver
  <1>7. ShownTypes'
    <2>1. builders # <<>>
      BY <1>2
    <2>2. \A g \in Slots : handlers'[g] # NoHandler =>
            /\ handlers'[g].builder \in DOMAIN builders
            /\ handlers'[g].stage \in (IF handlers'[g].kind = "submit"
                                       THEN {"read", "load", "transact", "finish", "confirm"}
                                       ELSE {"clear", "open", "read", "change", "render"})
      BY <1>2, <1>3, <1>5, ZenonT(40) DEF ShownInv, ShownTypes
    <2>3. QED
      BY <1>6, <2>1, <2>2 DEF ShownInv, ShownTypes
  <1>8. \A g \in Slots : handlers'[g] # NoHandler => Goes(g, handlers'[g]) \/ Repeats(handlers'[g])
    <2>1. Repeats(w)
      BY <1>2, <1>3 DEF Repeats
    <2>2. \A g \in Slots \ {h} : handlers[g] # NoHandler => Goes(g, handlers[g])
      <3>1. SUFFICES ASSUME NEW g \in Slots \ {h}, handlers[g] # NoHandler PROVE Goes(g, handlers[g])
        OBVIOUS
      <3>2. QED
        BY <3>1 DEF Goes
    <2>3. QED
      BY <1>5, <2>1, <2>2
  <1>9. Settles
    BY <1>6 DEF Settles
  <1>10. \A g \in Slots : At(g, {"render"}) => At(g, {"render"})'
    BY <1>4, <1>5 DEF At
  <1>11. QED
    BY <1>6, <1>7, <1>8, <1>9, <1>10, ShownKeeps

LEMMA ShownReads ==
  ASSUME StashInv, ShownInv, NEW h \in Slots, ReadAction(h)
  PROVE  ShownInv'
  <1>1. /\ handlers[h].stage = "read" /\ draft' = Live /\ moved' = moved /\ excuses' = excuses
        /\ builders' = builders
    BY DEF ReadAction
  <1>2. CASE Done(h)
    BY <1>1, <1>2, ShownEnds
  <1>3. CASE Live.action # ""
    <2> DEFINE s == IF handlers[h].kind = "submit" THEN "load" ELSE "change"
               a == [handlers[h] EXCEPT !.action = Live.action]
               w == [a EXCEPT !.stage = s]
    <2>1. handlers' = [handlers EXCEPT ![h] = w]
      BY <1>3 DEF ReadAction
    <2>2. handlers[h] # NoHandler /\ IsWork(handlers[h])
      BY <1>1, Working
    <2>3. /\ IsWork(a) /\ a.kind = handlers[h].kind /\ a.id = handlers[h].id /\ a.action = Live.action
          /\ a.shown = handlers[h].shown /\ a.builder = handlers[h].builder
      BY <2>2, WorkAction DEF IsWork, WorkFields
    <2>4. s # "idle" /\ s = IF a.kind = "submit" THEN "load" ELSE "change"
      BY <2>3
    <2> HIDE DEF a, s
    <2>5. /\ w # NoHandler /\ w.stage = s /\ w.kind = handlers[h].kind /\ w.id = handlers[h].id
          /\ w.builder = handlers[h].builder /\ w.action = Live.action /\ w.shown = handlers[h].shown
      BY <2>3, <2>4, WorkRest
    <2> HIDE DEF w
    <2>6. Goes(h, w)
      BY <1>1, <1>3, <2>2, <2>3, <2>4, <2>5 DEF Goes
    <2>7. w.stage \in (IF w.kind = "submit" THEN {"read", "load", "transact", "finish", "confirm"}
                                            ELSE {"clear", "open", "read", "change", "render"})
      BY <2>3, <2>4, <2>5
    <2>8. handlers[h].stage # "render" /\ draft' \in {draft, NoDraft, Live} /\ excuses \subseteq excuses'
      BY <1>1
    <2>9. QED
      BY <1>1, <2>1, <2>2, <2>5, <2>6, <2>7, <2>8, ShownGoes
  <1>4. QED
    BY <1>2, <1>3 DEF ReadAction

LEMMA ShownLoads ==
  ASSUME StashInv, ShownInv, NEW h \in Slots, Load(h)
  PROVE  ShownInv'
  <1>1. handlers[h].stage = "load" /\ draft' = Live /\ moved' = moved /\ excuses' = excuses
    BY DEF Load
  <1>2. CASE Fail(h)
    BY <1>1, <1>2, ShownEnds DEF Fail, Answer
  <1>3. CASE /\ handlers' = [handlers EXCEPT ![h] = [@ EXCEPT !.stage = "transact", !.copy = Live]]
             /\ builders' = builders /\ Live.lines # NoLines
    <2> DEFINE a == [handlers[h] EXCEPT !.stage = "transact"]
               w == [a EXCEPT !.copy = Live]
    <2>1. handlers[h] # NoHandler /\ IsWork(handlers[h]) /\ handlers[h].kind = "submit"
      BY <1>1, Working
    <2>2. /\ IsWork(a) /\ a.stage = "transact" /\ a.kind = "submit" /\ a.id = handlers[h].id
          /\ a.builder = handlers[h].builder /\ a.action = handlers[h].action /\ a.shown = handlers[h].shown
      BY <2>1, WorkStage, WorkRest
    <2>3. handlers' = [handlers EXCEPT ![h] = w]
      BY <1>3
    <2> HIDE DEF a
    <2>4. /\ w.stage = "transact" /\ w.kind = "submit" /\ w.id = handlers[h].id
          /\ w.builder = handlers[h].builder /\ w.action = handlers[h].action /\ w.shown = handlers[h].shown
          /\ w.copy = Live
      BY <2>2 DEF IsWork, WorkFields
    <2> HIDE DEF w
    <2>5. Goes(h, w)
      BY <1>1, <1>3, <2>1, <2>4 DEF Goes
    <2>6. w.stage \in (IF w.kind = "submit" THEN {"read", "load", "transact", "finish", "confirm"}
                                            ELSE {"clear", "open", "read", "change", "render"})
      BY <2>4
    <2>7. handlers[h].stage # "render" /\ draft' \in {draft, NoDraft, Live} /\ excuses \subseteq excuses'
      BY <1>1
    <2>8. QED
      BY <1>1, <1>3, <2>1, <2>3, <2>4, <2>5, <2>6, <2>7, ShownGoes
  <1>4. QED
    BY <1>2, <1>3 DEF Load

\* The only goroutine that is not a Submit goes on to render the draft.
LEMMA ShownActs ==
  ASSUME StashInv, ShownInv, NEW h \in Slots, To(h, "render"), handlers[h].kind # "submit",
         handlers[h].stage # "idle", moved' = moved, excuses' = excuses, builders' = builders,
         Tidy => draft'.action \in {"", handlers[h].action}
  PROVE  ShownInv'
  <1> DEFINE w == [handlers[h] EXCEPT !.stage = "render"]
  <1>1. handlers[h] # NoHandler /\ IsWork(handlers[h]) /\ Acts(h)
    BY Working DEF Acts
  <1>2. /\ w # NoHandler /\ w.stage = "render"
        /\ w.kind = handlers[h].kind /\ w.id = handlers[h].id /\ w.builder = handlers[h].builder
        /\ w.action = handlers[h].action /\ w.shown = handlers[h].shown
    BY <1>1 DEF IsWork, WorkFields, NoHandler
  <1>3. DOMAIN handlers' = Slots /\ \A g \in Slots : handlers'[g] = IF g = h THEN w ELSE handlers[g]
    BY DEF To, StashInv, StashTypes
  <1> HIDE DEF w
  <1>4. ShownTypes'
    <2>1. \A n \in DOMAIN moved' : moved'[n].by.builder \in DOMAIN builders
      BY DEF ShownInv, ShownTypes
    <2>2. \A g \in Slots \ {h} : handlers'[g] = handlers[g]
      BY <1>3
    <2>3. handlers'[h] # NoHandler =>
           /\ handlers'[h].builder = handlers[h].builder
           /\ handlers'[h].stage \in (IF handlers'[h].kind = "submit"
                                      THEN {"read", "load", "transact", "finish", "confirm"}
                                      ELSE {"clear", "open", "read", "change", "render"})
      BY <1>2, <1>3
    <2>4. ShownTypes
      BY DEF ShownInv
    <2>5. QED
      BY <1>1, <1>3, <2>1, <2>2, <2>3, <2>4, ShownTyped
  <1>5. ASSUME Tidy'
        PROVE  /\ Rendered'
               /\ (\A f, g \in Slots : Acts(f) /\ Acts(g) => f = g)'
               /\ (\A g \in Slots : At(g, {"change", "render"}) => draft.action \in {"", handlers[g].action})'
               /\ (\A g \in Slots : Submits(g))'
               /\ (\A n \in DOMAIN moved : AsClicked(n))'
    <2>1. Tidy
      BY <1>5 DEF Tidy
    <2>2. /\ \A f, g \in Slots : Acts(f) /\ Acts(g) => f = g
          /\ \A g \in Slots : Submits(g)
          /\ \A n \in DOMAIN moved : AsClicked(n)
      BY <2>1 DEF ShownInv
    <2>3. Rendered'
      BY <1>2, <1>3 DEF Rendered, At
    <2>4. \A g \in Slots : Acts(g)' => g = h
      BY <1>1, <1>3, <2>2 DEF Acts
    <2>5. ASSUME NEW g \in Slots, At(g, {"change", "render"})' PROVE draft'.action \in {"", handlers'[g].action}
      <3>1. Acts(g)'
        BY <1>4, <2>5 DEF ShownTypes, Acts, At
      <3>2. g = h /\ handlers'[g].action = handlers[h].action
        BY <1>2, <1>3, <2>4, <3>1
      <3>3. QED
        BY <2>1, <3>2
    <2>6. \A g \in Slots : Submits(g)'
      <3>1. SUFFICES ASSUME NEW g \in Slots, Fresh(g)', handlers'[g].kind = "submit" PROVE FALSE
        BY DEF Submits
      <3>2. handlers'[g] = handlers[g]
        BY <1>2, <1>3, <3>1
      <3>3. Fresh(g) /\ handlers[g].kind = "submit"
        BY <3>1, <3>2 DEF Fresh, OfKey
      <3>4. QED
        BY <1>1, <2>2, <3>3 DEF Submits
    <2>7. \A n \in DOMAIN moved' : AsClicked(n)'
      BY <2>2 DEF AsClicked
    <2>8. QED
      BY <2>3, <2>4, <2>5, <2>6, <2>7
  <1>6. QED
    BY <1>4, <1>5 DEF ShownInv

LEMMA TouchedAction ==
  ASSUME NEW d, IsDraft(d), Touch(d)
  PROVE  draft'.action = d.action
BY DEF Touch, IsDraft, DraftFields

LEMMA ShownChanges ==
  ASSUME StashInv, ShownInv, NEW h \in Slots, OpenDraft(h) \/ Change(h)
  PROVE  ShownInv'
  <1>1. /\ To(h, "render") /\ moved' = moved /\ excuses' = excuses /\ builders' = builders
        /\ handlers[h].stage \in {"open", "change"}
    BY DEF OpenDraft, Change
  <1>2. handlers[h] # NoHandler /\ handlers[h].kind # "submit"
    BY <1>1, Working DEF ShownInv, ShownTypes
  <1>3. IsDraft(Live) /\ Live.action \in {"", draft.action}
    <2>1. NoDraft.action = ""
      BY DEF NoDraft
    <2>2. QED
      BY <2>1, LiveIs DEF StashInv, Live
  <1>4. CASE OpenDraft(h)
    <2> DEFINE a == [Live EXCEPT !.action = handlers[h].action]
               b == [a EXCEPT !.start = handlers[h].id]
    <2>1. IsDraft(a) /\ a.action = handlers[h].action
      BY <1>3, StashedDraft, 0 \in Nat DEF IsDraft, DraftFields
    <2>2. handlers[h].id \in Nat
      BY <1>1, Working
    <2>3. IsDraft(b) /\ b.action = handlers[h].action
      <3> HIDE DEF a
      <3>1. QED
        BY <2>1, <2>2, StashedDraft DEF IsDraft, DraftFields
    <2>4. Touch(b)
      BY <1>4 DEF OpenDraft
    <2> HIDE DEF b
    <2>5. draft'.action = handlers[h].action
      BY <2>3, <2>4, TouchedAction
    <2>6. QED
      BY <1>1, <1>2, <2>5, ShownActs
  <1>5. CASE Change(h)
    <2>1. handlers[h].stage = "change"
      BY <1>5 DEF Change
    <2>2. draft'.action \in {"", Live.action}
      <3>1. CASE Touch(Live)
        BY <1>3, <3>1, TouchedAction
      <3>2. ASSUME NEW l, Touch([Live EXCEPT !.lines = l]) PROVE draft'.action = Live.action
        <4>1. IsDraft([Live EXCEPT !.lines = l])
          BY <1>3, StashedDraft, 0 \in Nat
        <4>2. [Live EXCEPT !.lines = l].action = Live.action
          BY <1>3 DEF IsDraft, DraftFields
        <4>3. QED
          BY <3>2, <4>1, <4>2, TouchedAction
      <3>3. CASE Touch([Live EXCEPT !.reason = TRUE])
        <4>1. IsDraft([Live EXCEPT !.reason = TRUE])
          BY <1>3, StashedDraft, 0 \in Nat
        <4>2. [Live EXCEPT !.reason = TRUE].action = Live.action
          BY <1>3 DEF IsDraft, DraftFields
        <4>3. QED
          BY <3>3, <4>1, <4>2, TouchedAction
      <3>4. CASE Clear
        BY <3>4 DEF Clear, NoDraft
      <3>5. CASE Touch([Live EXCEPT !.lines = Without(@, handlers[h].item)])
        BY <3>2, <3>5
      <3>6. CASE Touch([Live EXCEPT !.lines = With(@, handlers[h].item, handlers[h].quantity)])
        BY <3>2, <3>6
      <3>7. QED
        BY <1>5, <3>1, <3>3, <3>4, <3>5, <3>6 DEF Change
    <2>3. Tidy => draft.action \in {"", handlers[h].action}
      BY <1>2, <2>1 DEF ShownInv, At
    <2>4. Tidy => draft'.action \in {"", handlers[h].action}
      BY <1>3, <2>2, <2>3
    <2>5. QED
      BY <1>1, <1>2, <2>1, <2>4, ShownActs
  <1>6. QED
    BY <1>4, <1>5

LEMMA ShownRenders ==
  ASSUME StashInv, ShownInv, NEW h \in Slots, Render(h) \/ RenderFails(h)
  PROVE  ShownInv'
  <1>1. handlers[h].stage = "render" /\ Done(h) /\ moved' = moved /\ excuses \subseteq excuses'
    BY DEF Render, RenderFails
  <1>2. handlers[h] # NoHandler /\ Acts(h) /\ ShownTypes /\ handlers[h].builder \in DOMAIN builders
    BY <1>1, Working DEF ShownInv, ShownTypes, Acts
  <1>3. DOMAIN handlers' = Slots /\ \A g \in Slots : handlers'[g] = IF g = h THEN NoHandler ELSE handlers[g]
    BY <1>1 DEF Done, StashInv, StashTypes
  <1>4. CASE RenderFails(h) /\ builders' = Told(handlers[h].builder)
    <2>1. handlers' = [handlers EXCEPT ![h] = NoHandler] /\ draft' = draft
      BY <1>1, <1>4 DEF Done, RenderFails
    <2>2. QED
      BY <1>1, <1>2, <1>4, <2>1, ShownGoes
  <1> DEFINE b == handlers[h].builder
             m == [title |-> handlers[h].action, lines |-> Live.lines, reason |-> Live.reason,
                   live |-> TRUE, seen |-> TRUE]
  <1>5. IsBuilder(m) /\ m.title = handlers[h].action /\ m.lines = Live.lines
    BY DEF IsBuilder, BuilderFields
  <1>6. \A n \in DOMAIN moved' : moved'[n].by.builder \in DOMAIN builders
    BY <1>1, <1>2 DEF ShownTypes
  <1>7. CASE RenderFails(h) /\ builders' = builders /\ "unseen" \in excuses'
    <2>1. ShownTypes'
      BY <1>2, <1>3, <1>6, <1>7, ShownTyped
    <2>2. QED
      BY <1>7, <2>1 DEF ShownInv, Tidy
  <1>8. CASE Render(h)
    <2>1. draft' = Live /\ builders' = [builders EXCEPT ![b] = m] /\ excuses' = excuses
      BY <1>8 DEF Render
    <2> HIDE DEF m
    <2>2. ShownTypes' /\ Len(builders') = Len(builders)
      BY <1>2, <1>3, <1>5, <1>6, <2>1, ShownTyped
    <2>3. ASSUME Tidy'
          PROVE  /\ Rendered'
                 /\ (\A f, g \in Slots : Acts(f) /\ Acts(g) => f = g)'
                 /\ (\A g \in Slots : At(g, {"change", "render"}) => draft.action \in {"", handlers[g].action})'
                 /\ (\A g \in Slots : Submits(g))'
                 /\ (\A n \in DOMAIN moved : AsClicked(n))'
      <3>1. Tidy /\ Len(builders) = 1
        BY <2>1, <2>2, <2>3 DEF Tidy
      <3>2. /\ \A f, g \in Slots : Acts(f) /\ Acts(g) => f = g
            /\ \A g \in Slots : At(g, {"change", "render"}) => draft.action \in {"", handlers[g].action}
            /\ \A g \in Slots : Submits(g)
            /\ \A n \in DOMAIN moved : AsClicked(n)
        BY <3>1 DEF ShownInv
      <3>3. b = 1 /\ builders'[1] = m
        BY <1>2, <2>1, <3>1, OneRow DEF ShownTypes
      <3>4. Rendered'
        <4>1. Live.action \in {"", draft.action}
          BY DEF Live, NoDraft
        <4>2. draft.action \in {"", handlers[h].action}
          BY <1>1, <1>2, <3>2 DEF At
        <4>3. QED
          BY <1>5, <2>1, <3>3, <4>1, <4>2 DEF Rendered, Shows
      <3>5. \A g \in Slots : ~Acts(g)'
        BY <1>2, <1>3, <3>2 DEF Acts
      <3>6. \A g \in Slots : ~At(g, {"change", "render"})'
        BY <2>2, <3>5 DEF ShownTypes, Acts, At
      <3>7. \A g \in Slots : Submits(g)'
        <4>1. SUFFICES ASSUME NEW g \in Slots, Fresh(g)', handlers'[g].kind = "submit" PROVE FALSE
          BY DEF Submits
        <4>2. Fresh(g) /\ handlers[g].kind = "submit"
          BY <1>1, <1>3, <4>1 DEF Fresh, OfKey
        <4>3. QED
          BY <1>2, <3>2, <4>2 DEF Submits
      <3>8. \A n \in DOMAIN moved' : AsClicked(n)'
        BY <1>1, <3>2 DEF AsClicked
      <3>9. QED
        BY <3>4, <3>5, <3>6, <3>7, <3>8
    <2>4. QED
      BY <2>2, <2>3 DEF ShownInv
  <1>9. QED
    BY <1>4, <1>7, <1>8 DEF RenderFails

\* An interaction comes in; a Submit is clicked on the builder as it is.
LEMMA ShownArrives ==
  ASSUME StashInv, ShownInv, NEW h \in Slots, NEW i, Arrives(h, i), IsWork(i), ShownTypes',
         i.stage = IF i.kind = "start" THEN "clear" ELSE "read",
         builders = <<>> \/ builders' = builders \/ Len(builders') # 1,
         builders = <<>> => i.kind = "start" /\ ~builders'[1].live,
         i.kind = "submit" => \E b \in DOMAIN builders : builders[b].live /\ i.shown = builders[b]
  PROVE  ShownInv'
  <1>1. /\ handlers[h] = NoHandler /\ draft' = draft /\ moved' = moved
        /\ DOMAIN handlers' = Slots /\ \A g \in Slots : handlers'[g] = IF g = h THEN i ELSE handlers[g]
        /\ excuses' = excuses \cup (IF InFlight = {} THEN {} ELSE {"overlap"})
    BY DEF Arrives, StashInv, StashTypes
  <1>2. ASSUME Tidy'
        PROVE  /\ Rendered'
               /\ (\A f, g \in Slots : Acts(f) /\ Acts(g) => f = g)'
               /\ (\A g \in Slots : At(g, {"change", "render"}) => draft.action \in {"", handlers[g].action})'
               /\ (\A g \in Slots : Submits(g))'
               /\ (\A n \in DOMAIN moved : AsClicked(n))'
    <2>1. \A g \in Slots : handlers[g] = NoHandler
      BY <1>1, <1>2 DEF Tidy, InFlight
    <2>2. \A g \in Slots : handlers'[g] # NoHandler => g = h /\ handlers'[g] = i
      BY <1>1, <2>1
    <2>3. \A g \in Slots : ~At(g, {"change", "render"})'
      BY <2>2 DEF At
    <2>4. CASE builders = <<>>
      <3>1. Rendered' /\ moved = <<>>
        BY <2>4 DEF Rendered, ShownInv, ShownTypes
      <3>2. \A g \in Slots : Submits(g)'
        BY <2>2, <2>4 DEF Submits, Fresh
      <3>3. \A n \in DOMAIN moved' : AsClicked(n)'
        BY <1>1, <3>1
      <3>4. QED
        BY <2>2, <2>3, <3>1, <3>2, <3>3 DEF Acts
    <2>5. CASE builders # <<>>
      <3>1. builders' = builders /\ Tidy
        BY <1>1, <1>2, <2>5 DEF Tidy
      <3>2. Rendered /\ \A n \in DOMAIN moved : AsClicked(n)
        BY <3>1 DEF ShownInv
      <3>3. builders[1].live => Shows(builders[1])
        BY <2>1, <3>2 DEF Rendered, At
      <3>4. Rendered'
        BY <1>1, <3>1, <3>3 DEF Rendered, Shows
      <3>5. \A g \in Slots : Submits(g)'
        <4>1. SUFFICES ASSUME i.kind = "submit" PROVE Submits(h)'
          BY <2>2 DEF Submits, Fresh
        <4>2. i.stage = "read" /\ \A g \in Slots : ~Acts(g)'
          BY <2>2, <4>1 DEF Acts
        <4>3. DOMAIN builders = {1}
          BY <3>1, OneRow DEF Tidy, ShownInv, ShownTypes
        <4>4. i.shown = builders[1] /\ builders[1].live
          BY <4>1, <4>3
        <4>5. Shows(i.shown)'
          BY <1>1, <3>3, <4>4 DEF Shows
        <4>6. handlers'[h] = i
          BY <1>1
        <4>7. QED
          BY <1>1, <4>2, <4>5, <4>6 DEF Submits, Shows
      <3>6. \A n \in DOMAIN moved' : AsClicked(n)'
        BY <1>1, <3>2 DEF AsClicked
      <3>7. QED
        BY <2>2, <2>3, <3>4, <3>5, <3>6 DEF Acts
    <2>6. QED
      BY <2>4, <2>5
  <1>3. QED
    BY <1>2 DEF ShownInv

LEMMA ShownComes ==
  ASSUME StashInv, ShownInv, NEW h \in Slots,
         \/ \E action \in Actions : Slash(h, action)
         \/ \E b \in DOMAIN builders :
              \/ \E kind \in {"group", "clear", "submit"} : Click(h, kind, b)
              \/ \E item \in Items : ClickItem(h, b, item)
              \/ \E item \in Items, quantity \in Quantities : SendItem(h, b, item, quantity)
              \/ SendReason(h, b)
  PROVE  ShownInv'
  <1>0. sent + 1 \in Nat \ {0} /\ ShownTypes /\ DOMAIN handlers = Slots
    <2>1. sent \in Nat /\ DOMAIN handlers = Slots
      BY DEF StashInv, StashTypes
    <2>2. sent + 1 \in Nat \ {0}
      BY <2>1
    <2>3. ShownTypes
      BY DEF ShownInv
    <2>4. QED
      BY <2>1, <2>2, <2>3
  <1>1. ASSUME NEW b \in DOMAIN builders, NEW i, Arrives(h, i), builders' = builders,
               i = [f \in WorkFields |-> i[f]], i.id = sent + 1, i.copy = NoDraft,
               i.builder = b, i.stage = "read", i.shown = builders[b],
               i.kind \in {"group", "clear", "submit", "remove", "add", "reason"},
               i.kind = "submit" => builders[b].live
        PROVE  ShownInv'
    <2>1. IsWork(i)
      BY <1>0, <1>1, NoDraftIs DEF IsWork
    <2>2. moved' = moved /\ \A g \in Slots : handlers'[g] = IF g = h THEN i ELSE handlers[g]
      BY <1>0, <1>1 DEF Arrives
    <2>3. ShownTypes'
      <3>1. \A g \in Slots : handlers'[g] # NoHandler =>
              /\ handlers'[g].builder \in DOMAIN builders
              /\ handlers'[g].stage \in (IF handlers'[g].kind = "submit"
                                         THEN {"read", "load", "transact", "finish", "confirm"}
                                         ELSE {"clear", "open", "read", "change", "render"})
        BY <1>0, <1>1, <2>2, ZenonT(40) DEF ShownTypes
      <3>2. builders # <<>>
        BY <1>1
      <3>3. QED
        BY <1>0, <1>1, <2>2, <3>1, <3>2 DEF ShownTypes
    <2>4. i.stage = IF i.kind = "start" THEN "clear" ELSE "read"
      BY <1>1
    <2>5. QED
      BY <1>1, <2>1, <2>3, <2>4, ShownArrives
  <1>2. ASSUME NEW action \in Actions, Slash(h, action) PROVE ShownInv'
    <2> DEFINE blank == [title |-> action, lines |-> NoLines, reason |-> FALSE, live |-> FALSE, seen |-> FALSE]
               i == [kind |-> "start", id |-> sent + 1, builder |-> Len(builders) + 1, stage |-> "clear",
                     action |-> action, item |-> "", quantity |-> 0, copy |-> NoDraft, shown |-> blank]
    <2>1. builders' = Append(builders, blank) /\ Arrives(h, i)
      BY <1>2 DEF Slash
    <2>2. IsBuilder(blank) /\ ~blank.live
      BY DEF IsBuilder, BuilderFields
    <2>3. i = [f \in WorkFields |-> i[f]] /\ i.id = sent + 1 /\ i.copy = NoDraft
      BY DEF WorkFields
    <2>4. i.kind = "start" /\ i.builder = Len(builders) + 1 /\ i.stage = "clear"
      OBVIOUS
    <2> HIDE DEF i, blank
    <2>5. IsWork(i)
      BY <1>0, <2>3, <2>4, NoDraftIs DEF IsWork
    <2>6. /\ builders' \in Seq({builders'[b] : b \in DOMAIN builders'})
          /\ Len(builders) \in Nat /\ DOMAIN builders = 1..Len(builders)
          /\ DOMAIN builders' = DOMAIN builders \cup {Len(builders) + 1}
          /\ builders'[Len(builders) + 1] = blank
          /\ \A b \in DOMAIN builders : builders'[b] = builders[b]
      BY <1>0, <2>1, RowAppended DEF ShownTypes
    <2>7. Len(builders') = Len(builders) + 1
      BY <2>6, OneRow
    <2>8. moved' = moved /\ \A g \in Slots : handlers'[g] = IF g = h THEN i ELSE handlers[g]
      BY <1>0, <2>1 DEF Arrives
    <2>9. ShownTypes'
      <3>1. \A g \in Slots : handlers'[g] # NoHandler =>
              /\ handlers'[g].builder \in DOMAIN builders'
              /\ handlers'[g].stage \in (IF handlers'[g].kind = "submit"
                                         THEN {"read", "load", "transact", "finish", "confirm"}
                                         ELSE {"clear", "open", "read", "change", "render"})
        BY <1>0, <2>4, <2>6, <2>8 DEF ShownTypes
      <3>2. \A b \in DOMAIN builders' : IsBuilder(builders'[b])
        BY <1>0, <2>2, <2>6 DEF ShownTypes
      <3>3. builders' # <<>>
        BY ONLY <2>6, <2>7
      <3>4. \A n \in DOMAIN moved' : moved'[n].by.builder \in DOMAIN builders'
        BY <1>0, <2>6, <2>8 DEF ShownTypes
      <3>5. QED
        BY <2>6, <3>1, <3>2, <3>3, <3>4 DEF ShownTypes
    <2>10. builders = <<>> \/ Len(builders') # 1
      <3>1. Len(builders) = 0 => builders = <<>>
        BY <1>0, <2>6 DEF ShownTypes
      <3>2. QED
        BY <2>6, <2>7, <3>1
    <2>11. builders = <<>> => ~builders'[1].live
      <3>1. builders = <<>> => Len(builders) + 1 = 1
        OBVIOUS
      <3>2. QED
        BY <2>2, <2>6, <3>1
    <2>12. QED
      BY <2>1, <2>4, <2>5, <2>9, <2>10, <2>11, ShownArrives
  <1>3. ASSUME NEW b \in DOMAIN builders, NEW kind \in {"group", "clear", "submit"}, Click(h, kind, b)
        PROVE  ShownInv'
    <2> DEFINE i == Interaction(kind, b)
    <2>1. Arrives(h, i) /\ builders' = builders /\ builders[b].live
      BY <1>3 DEF Click
    <2>2. /\ i = [f \in WorkFields |-> i[f]] /\ i.id = sent + 1 /\ i.copy = NoDraft
          /\ i.builder = b /\ i.stage = "read" /\ i.shown = builders[b] /\ i.kind = kind
      BY DEF Interaction, WorkFields
    <2> HIDE DEF i
    <2>3. QED
      BY <1>1, <2>1, <2>2
  <1>4. ASSUME NEW b \in DOMAIN builders, NEW item \in Items, ClickItem(h, b, item) PROVE ShownInv'
    <2> DEFINE i == [Interaction("remove", b) EXCEPT !.item = item]
    <2>1. Arrives(h, i) /\ builders' = builders
      BY <1>4 DEF ClickItem
    <2>2. /\ i = [f \in WorkFields |-> i[f]] /\ i.id = sent + 1 /\ i.copy = NoDraft
          /\ i.builder = b /\ i.stage = "read" /\ i.shown = builders[b] /\ i.kind = "remove"
      BY DEF Interaction, WorkFields
    <2> HIDE DEF i
    <2>3. QED
      BY <1>1, <2>1, <2>2
  <1>5. ASSUME NEW b \in DOMAIN builders, NEW item \in Items, NEW quantity \in Quantities,
               SendItem(h, b, item, quantity)
        PROVE  ShownInv'
    <2> DEFINE i == [Interaction("add", b) EXCEPT !.item = item, !.quantity = quantity]
    <2>1. Arrives(h, i) /\ builders' = builders
      BY <1>5 DEF SendItem
    <2>2. /\ i = [f \in WorkFields |-> i[f]] /\ i.id = sent + 1 /\ i.copy = NoDraft
          /\ i.builder = b /\ i.stage = "read" /\ i.shown = builders[b] /\ i.kind = "add"
      BY DEF Interaction, WorkFields
    <2> HIDE DEF i
    <2>3. QED
      BY <1>1, <2>1, <2>2
  <1>6. ASSUME NEW b \in DOMAIN builders, SendReason(h, b) PROVE ShownInv'
    <2> DEFINE i == Interaction("reason", b)
    <2>1. Arrives(h, i) /\ builders' = builders
      BY <1>6 DEF SendReason
    <2>2. /\ i = [f \in WorkFields |-> i[f]] /\ i.id = sent + 1 /\ i.copy = NoDraft
          /\ i.builder = b /\ i.stage = "read" /\ i.shown = builders[b] /\ i.kind = "reason"
      BY DEF Interaction, WorkFields
    <2> HIDE DEF i
    <2>3. QED
      BY <1>1, <2>1, <2>2
  <1>7. QED
    BY <1>2, <1>3, <1>4, <1>5, <1>6

LEMMA ShownMoves ==
  ASSUME StashInv, ShownInv, NEW h \in Slots, handlers[h].stage = "transact", Moves(h),
         draft' = draft, excuses \subseteq excuses', To(h, "finish") \/ Done(h),
         builders' \in {builders, Told(handlers[h].builder)}
  PROVE  ShownInv'
  <1> DEFINE i == handlers[h]
             w == handlers'[h]
             last == Len(moved) + 1
             row == [by |-> i, action |-> i.action, lines |-> i.copy.lines, start |-> i.copy.start,
                     read |-> i.copy.expires]
  <1>1. i # NoHandler /\ IsWork(i) /\ i.kind = "submit" /\ ShownTypes /\ i.builder \in DOMAIN builders
    BY Working DEF ShownInv, ShownTypes
  <1>2. DOMAIN handlers' = Slots /\ \A g \in Slots \ {h} : handlers'[g] = handlers[g]
    BY DEF To, Done, StashInv, StashTypes
  <1>3. w # NoHandler => /\ w.stage = "finish" /\ w.kind = "submit" /\ w.id = i.id
                         /\ w.builder = i.builder
    <2>1. CASE To(h, "finish")
      <3>1. w = [i EXCEPT !.stage = "finish"]
        BY <2>1 DEF To, StashInv, StashTypes
      <3>2. QED
        BY <1>1, <3>1 DEF IsWork, WorkFields
    <2>2. CASE Done(h)
      BY <2>2 DEF Done, StashInv, StashTypes
    <2>3. QED
      BY <2>1, <2>2
  <1>4. /\ DOMAIN moved' = DOMAIN moved \cup {last} /\ moved'[last] = row
        /\ \A n \in DOMAIN moved : moved'[n] = moved[n]
    <2>1. moved \in Seq({moved[n] : n \in DOMAIN moved})
      BY DEF StashInv, StashTypes
    <2>2. moved' = Append(moved, row)
      BY DEF Moves
    <2> HIDE DEF row
    <2>3. QED
      BY <2>1, <2>2, RowAppended
  <1>5. row.by = i /\ row.action = i.action /\ row.lines = i.copy.lines
    OBVIOUS
  <1>6. i.id \notin {moved[n].by.id : n \in DOMAIN moved}
    BY DEF Moves, OfKey
  <1> HIDE DEF i, w, row, last
  <1>7. \/ builders' = builders
        \/ \E m : IsBuilder(m) /\ builders' = [builders EXCEPT ![handlers[h].builder] = m]
    BY <1>1, ToldIs DEF i
  <1>8. ShownTypes' /\ Len(builders') = Len(builders)
    <2>1. \A n \in DOMAIN moved' : moved'[n].by.builder \in DOMAIN builders
      BY <1>1, <1>4, <1>5 DEF ShownTypes
    <2>2. handlers'[h] # NoHandler =>
            /\ handlers'[h].builder = handlers[h].builder
            /\ handlers'[h].stage \in (IF handlers'[h].kind = "submit"
                                       THEN {"read", "load", "transact", "finish", "confirm"}
                                       ELSE {"clear", "open", "read", "change", "render"})
      BY <1>3 DEF i, w
    <2>3. handlers[h] # NoHandler
      BY <1>1 DEF i
    <2>4. QED
      BY <1>1, <1>2, <1>7, <2>1, <2>2, <2>3, ShownTyped
  <1>9. ASSUME Tidy'
        PROVE  /\ Rendered'
               /\ (\A f, g \in Slots : Acts(f) /\ Acts(g) => f = g)'
               /\ (\A g \in Slots : At(g, {"change", "render"}) => draft.action \in {"", handlers[g].action})'
               /\ (\A g \in Slots : Submits(g))'
               /\ (\A n \in DOMAIN moved : AsClicked(n))'
    <2>1. Tidy /\ Len(builders) = 1
      BY <1>8, <1>9 DEF Tidy
    <2>2. Rendered /\ (\A g \in Slots : Submits(g)) /\ \A n \in DOMAIN moved : AsClicked(n)
      BY <2>1 DEF ShownInv
    <2>3. Fresh(h)
      BY <1>1 DEF Moves, Fresh, i
    <2>4. /\ \A g \in Slots : ~Acts(g)
          /\ i.action = i.shown.title /\ i.copy.lines = i.shown.lines
      BY <1>1, <2>2, <2>3 DEF Submits, i
    <2>5. \A g \in Slots : ~Acts(g)'
      BY <1>2, <1>3, <2>4 DEF Acts, w
    <2>6. \A g \in Slots : ~At(g, {"change", "render"}) /\ ~At(g, {"change", "render"})'
      BY <1>1, <1>8, <2>4, <2>5 DEF ShownTypes, Acts, At
    <2>7. Rendered'
      <3>1. builders' = builders \/ ~builders'[1].live
        <4>1. SUFFICES ASSUME builders' = Told(i.builder) PROVE ~builders'[1].live
          BY DEF i
        <4>2. i.builder = 1 /\ 1 \in DOMAIN builders
          BY <1>1, <2>1, OneRow DEF ShownTypes
        <4>3. PICK m : m.live = FALSE /\ builders' = [builders EXCEPT ![1] = m]
          BY <1>1, <4>1, <4>2, ToldIs
        <4>4. QED
          BY <1>1, <4>2, <4>3 DEF ShownTypes
      <3>2. builders[1].live => Shows(builders[1])
        BY <2>2, <2>6 DEF Rendered, At
      <3>3. QED
        BY <3>1, <3>2 DEF Rendered, Shows
    <2>8. ASSUME NEW g \in Slots PROVE Submits(g)'
      <3>1. SUFFICES ASSUME Fresh(g)', handlers'[g].kind = "submit" PROVE Submits(g)'
        BY DEF Submits
      <3>2. \A n \in DOMAIN moved' : moved'[n].by.id # handlers'[g].id
        BY <3>1 DEF Fresh, OfKey
      <3>3. handlers'[g] # NoHandler /\ handlers'[g].id # i.id
        BY <1>4, <1>5, <3>1, <3>2 DEF Fresh
      <3>4. g # h /\ handlers'[g] = handlers[g]
        BY <1>2, <1>3, <3>3 DEF w
      <3>5. Fresh(g)
        BY <1>4, <3>2, <3>3, <3>4 DEF Fresh, OfKey
      <3>6. /\ Shows(handlers[g].shown)
            /\ handlers[g].stage = "load" =>
                 /\ handlers[g].action = handlers[g].shown.title
                 /\ draft.lines \in {handlers[g].shown.lines, NoLines}
            /\ handlers[g].stage = "transact" =>
                 /\ handlers[g].action = handlers[g].shown.title
                 /\ handlers[g].copy.lines = handlers[g].shown.lines
        BY <2>2, <3>1, <3>4, <3>5 DEF Submits
      <3>7. QED
        BY <2>5, <3>4, <3>6 DEF Submits, Shows
    <2>9. \A n \in DOMAIN moved' : AsClicked(n)'
      <3>1. /\ moved'[last].lines = moved'[last].by.shown.lines
            /\ moved'[last].action = moved'[last].by.shown.title
        BY <1>4, <1>5, <2>4
      <3>2. \A n \in DOMAIN moved : /\ moved'[n].lines = moved'[n].by.shown.lines
                                   /\ moved'[n].action = moved'[n].by.shown.title
        BY <1>4, <2>2 DEF AsClicked
      <3>3. QED
        BY <1>4, <3>1, <3>2 DEF AsClicked
    <2>10. QED
      BY <2>5, <2>6, <2>7, <2>8, <2>9
  <1>10. QED
    BY <1>8, <1>9 DEF ShownInv

LEMMA ShownSubmits ==
  ASSUME StashInv, ShownInv, NEW h \in Slots, Transact(h) \/ Refused(h)
  PROVE  ShownInv'
  <1>1. handlers[h].stage = "transact" /\ draft' = draft /\ excuses \subseteq excuses'
    BY DEF Transact, Refused
  <1>2. builders' \in {builders, Told(handlers[h].builder)} /\ (To(h, "finish") \/ Done(h))
    BY DEF Transact, Refused, Answer
  <1>3. CASE Moves(h)
    BY <1>1, <1>2, <1>3, ShownMoves
  <1>4. CASE Transact(h) /\ moved' = moved
    <2>1. handlers[h].kind = "submit"
      BY <1>1, Working
    <2>2. builders' = builders /\ To(h, "finish")
      BY <1>4 DEF Transact
    <2>3. QED
      BY <1>1, <1>4, <2>1, <2>2, ShownTo
  <1>5. CASE Refused(h) /\ moved' = moved
    <2>1. Done(h)
      BY <1>5 DEF Refused
    <2>2. QED
      BY <1>1, <1>2, <1>5, <2>1, ShownEnds
  <1>6. QED
    BY <1>3, <1>4, <1>5 DEF Transact, Refused

LEMMA ShownStep == StashInv /\ ShownInv /\ [StashNext]_stashVars => ShownInv'
  <1> SUFFICES ASSUME StashInv, ShownInv, [StashNext]_stashVars PROVE ShownInv'
    OBVIOUS
  <1>1. CASE UNCHANGED stashVars
    BY <1>1, ZenonT(40) DEF stashVars, ShownInv, ShownTypes, Tidy, Rendered, Shows, Acts, Submits, Fresh, OfKey,
                AsClicked, At
  <1>2. CASE Tick \/ Reboot
    BY <1>2, ShownTick
  <1>3. ASSUME NEW h \in Slots,
               \/ \E action \in Actions : Slash(h, action)
               \/ \E b \in DOMAIN builders :
                    \/ \E kind \in {"group", "clear", "submit"} : Click(h, kind, b)
                    \/ \E item \in Items : ClickItem(h, b, item)
                    \/ \E item \in Items, quantity \in Quantities : SendItem(h, b, item, quantity)
                    \/ SendReason(h, b)
        PROVE  ShownInv'
    BY <1>3, ShownComes
  <1>4. ASSUME NEW h \in Slots, DeferFails(h) \/ RefuseItem(h) \/ ListAfterFails(h) \/ ConfirmStash(h)
        PROVE  ShownInv'
    BY <1>4, ShownStops
  <1>5. ASSUME NEW h \in Slots, Render(h) \/ RenderFails(h) PROVE ShownInv'
    BY <1>5, ShownRenders
  <1>6. ASSUME NEW h \in Slots, ClearForStart(h) \/ Finish(h) PROVE ShownInv'
    BY <1>6, ShownClears
  <1>7. ASSUME NEW h \in Slots, OpenDraft(h) \/ Change(h) PROVE ShownInv'
    BY <1>7, ShownChanges
  <1>8. ASSUME NEW h \in Slots, Redeliver(h) \/ ReadAction(h) \/ Load(h) PROVE ShownInv'
    BY <1>8, ShownRedeliver, ShownReads, ShownLoads
  <1>9. ASSUME NEW h \in Slots, Transact(h) \/ Refused(h) PROVE ShownInv'
    BY <1>9, ShownSubmits
  <1>10. QED
    BY <1>1, <1>2, <1>3, <1>4, <1>5, <1>6, <1>7, <1>8, <1>9, Zenon DEF StashNext

LEMMA ShownInitInv == StashInit => ShownInv
  <1> SUFFICES ASSUME StashInit PROVE ShownInv
    OBVIOUS
  <1>1. /\ draft = NoDraft /\ moved = <<>> /\ builders = <<>>
        /\ \A h \in Slots : handlers[h] = NoHandler
    BY DEF StashInit
  <1>2. DOMAIN builders = {} /\ DOMAIN moved = {} /\ Len(builders) = 0
    BY <1>1
  <1>3. builders \in Seq({builders[b] : b \in DOMAIN builders})
    BY <1>1
  <1>4. ShownTypes
    BY <1>1, <1>2, <1>3 DEF ShownTypes
  <1>5. QED
    BY <1>2, <1>4 DEF ShownInv, Tidy

(***************************************************************************)
(* What a Submit moves is what the builder showed when it was clicked, for *)
(* a member with one builder who waits for every answer and gets it: also  *)
(* when the draft expires between two of his clicks, the bot restarts, a   *)
(* modal comes late or the Submit is delivered again.                      *)
(***************************************************************************)
THEOREM MovedCorrect == StashSpec => []MovesAsShown
  <1>1. ShownInv => MovesAsShown
    BY DEF ShownInv, Tidy, AsClicked, MovesAsShown
  <1>2. StashInv /\ [StashNext]_stashVars => StashInv'
    BY StashStep
  <1>3. StashInv /\ ShownInv /\ [StashNext]_stashVars => ShownInv'
    BY ShownStep
  <1>4. QED
    BY <1>1, <1>2, <1>3, StashInitInv, ShownInitInv, PTL DEF StashSpec

\* A step leaves the draft, drops it, or extends its life; only the add of an
\* item brings a line.
LEMMA DraftSteps ==
  ASSUME StashInv, StashNext
  PROVE  \/ draft' \in {draft, NoDraft, Live}
         \/ \E d : /\ IsDraft(d) /\ Touch(d)
                   /\ \A i \in DOMAIN d.lines : i \in DOMAIN Live.lines \/ \E h \in Slots :
                        handlers[h].stage = "change" /\ handlers[h].kind = "add" /\ handlers[h].item = i
  <1> DEFINE Added(i) == \E h \in Slots :
               handlers[h].stage = "change" /\ handlers[h].kind = "add" /\ handlers[h].item = i
             Grows(d) == /\ IsDraft(d) /\ Touch(d)
                         /\ \A i \in DOMAIN d.lines : i \in DOMAIN Live.lines \/ Added(i)
             Goal == draft' \in {draft, NoDraft, Live} \/ \E d : Grows(d)
  <1>1. IsDraft(Live)
    BY LiveIs DEF StashInv
  <1>2. CASE Tick \/ Reboot
    BY <1>2 DEF Tick, Reboot
  <1>3. ASSUME NEW h \in Slots,
               \/ \E action \in Actions : Slash(h, action)
               \/ \E b \in DOMAIN builders :
                    \/ \E kind \in {"group", "clear", "submit"} : Click(h, kind, b)
                    \/ \E item \in Items : ClickItem(h, b, item)
                    \/ \E item \in Items, quantity \in Quantities : SendItem(h, b, item, quantity)
                    \/ SendReason(h, b)
        PROVE  Goal
    BY <1>3 DEF Slash, Click, ClickItem, SendItem, SendReason, Arrives
  <1>4. ASSUME NEW h \in Slots,
               \/ DeferFails(h) \/ RefuseItem(h) \/ ListAfterFails(h) \/ ConfirmStash(h)
               \/ Render(h) \/ RenderFails(h) \/ ClearForStart(h) \/ Finish(h)
               \/ Redeliver(h) \/ ReadAction(h) \/ Load(h) \/ Transact(h) \/ Refused(h)
        PROVE  Goal
    BY <1>4 DEF DeferFails, RefuseItem, ListAfterFails, ConfirmStash, Render, RenderFails,
                ClearForStart, Finish, Clear, Redeliver, ReadAction, Load, Transact, Refused
  <1>5. ASSUME NEW h \in Slots, OpenDraft(h) PROVE Goal
    <2> DEFINE a == [Live EXCEPT !.action = handlers[h].action]
               b == [a EXCEPT !.start = handlers[h].id]
    <2>1. IsDraft(a) /\ a.lines = Live.lines
      BY <1>1, StashedDraft, 0 \in Nat DEF IsDraft, DraftFields
    <2>2. handlers[h].id \in Nat
      BY <1>5, Working DEF OpenDraft
    <2>3. IsDraft(b) /\ b.lines = Live.lines
      <3> HIDE DEF a
      <3>1. QED
        BY <2>1, <2>2, StashedDraft DEF IsDraft, DraftFields
    <2>4. Touch(b)
      BY <1>5 DEF OpenDraft
    <2> HIDE DEF b
    <2>5. Grows(b)
      BY <2>3, <2>4
    <2>6. QED
      BY <2>5
  <1>6. ASSUME NEW h \in Slots, Change(h) PROVE Goal
    <2>1. ASSUME NEW l, Touch([Live EXCEPT !.lines = l]),
                 \A i \in DOMAIN l : i \in DOMAIN Live.lines \/ Added(i)
          PROVE  Goal
      <3> DEFINE d == [Live EXCEPT !.lines = l]
      <3>1. IsDraft(d) /\ d.lines = l
        BY <1>1, StashedDraft, 0 \in Nat DEF IsDraft, DraftFields
      <3> HIDE DEF d
      <3>2. Grows(d)
        BY <2>1, <3>1 DEF d
      <3>3. QED
        BY <3>2
    <2>2. CASE Touch(Live)
      <3>1. Grows(Live)
        BY <1>1, <2>2
      <3>2. QED
        BY <3>1
    <2>3. CASE Touch([Live EXCEPT !.lines = Without(@, handlers[h].item)])
      <3>1. \A i \in DOMAIN Without(Live.lines, handlers[h].item) : i \in DOMAIN Live.lines
        BY DEF Without, Restrict
      <3>2. QED
        BY <2>1, <2>3, <3>1
    <2>4. CASE Touch([Live EXCEPT !.reason = TRUE])
      <3> DEFINE d == [Live EXCEPT !.reason = TRUE]
      <3>1. IsDraft(d) /\ d.lines = Live.lines
        BY <1>1, StashedDraft, 0 \in Nat DEF IsDraft, DraftFields
      <3> HIDE DEF d
      <3>2. Grows(d)
        BY <2>4, <3>1 DEF d
      <3>3. QED
        BY <3>2
    <2>5. CASE /\ Touch([Live EXCEPT !.lines = With(@, handlers[h].item, handlers[h].quantity)])
               /\ handlers[h].kind = "add"
      <3>1. Added(handlers[h].item)
        BY <1>6, <2>5 DEF Change
      <3>2. \A i \in DOMAIN With(Live.lines, handlers[h].item, handlers[h].quantity) :
              i \in DOMAIN Live.lines \/ i = handlers[h].item
        BY DEF With
      <3>3. QED
        BY <2>1, <2>5, <3>1, <3>2
    <2>6. CASE Clear
      BY <2>6 DEF Clear
    <2>7. QED
      BY <1>6, <2>2, <2>3, <2>4, <2>5, <2>6 DEF Change
  <1>7. QED
    BY <1>2, <1>3, <1>4, <1>5, <1>6, Zenon DEF StashNext

Timed == now \in Nat /\ draft.expires \in Nat

LEMMA TimedStep == StashInv /\ Timed /\ [StashNext]_stashVars => Timed'
  <1> SUFFICES ASSUME StashInv, Timed, [StashNext]_stashVars PROVE Timed'
    OBVIOUS
  <1>1. CASE UNCHANGED stashVars
    BY <1>1 DEF stashVars, Timed
  <1>2. CASE StashNext
    <2>1. now' = now \/ now' = now + 1
      BY <1>2, ZenonT(40) DEF StashNext, Tick, Reboot, Slash, Click, ClickItem, SendItem, SendReason, Arrives,
                  Redeliver, ClearForStart, OpenDraft, ReadAction, DeferFails, Change, RefuseItem,
                  Render, RenderFails, Load, Transact, Refused, ListAfterFails, Finish, ConfirmStash
    <2>2. NoDraft.expires = 0 /\ Live.expires \in {draft.expires, 0}
      BY DEF NoDraft, Live
    <2>3. ASSUME NEW d, IsDraft(d), Touch(d) PROVE draft'.expires = now + TTL
      BY <2>3 DEF Touch, IsDraft, DraftFields
    <2>4. draft'.expires \in {draft.expires, 0, now + TTL}
      BY <1>2, <2>2, <2>3, DraftSteps
    <2>5. QED
      BY <2>1, <2>4, StashAssumption DEF Timed
  <1>3. QED
    BY <1>1, <1>2

(***************************************************************************)
(* Items that nobody touched for ten minutes never come back: after that,  *)
(* whatever the next interaction is, get deletes them before it can read   *)
(* or change the draft.                                                    *)
(***************************************************************************)
THEOREM ExpiredCorrect == StashSpec => ExpiredNeverReturns
  <1> DEFINE Gone == draft.expires <= now /\ draft' # draft =>
        \A i \in DOMAIN draft'.lines : \E h \in Slots :
          handlers[h].stage = "change" /\ handlers[h].kind = "add" /\ handlers[h].item = i
  <1>1. ASSUME StashInv, Timed, [StashNext]_stashVars PROVE [Gone]_stashVars
    <2>1. SUFFICES ASSUME StashNext, draft.expires <= now, draft' # draft, NEW i \in DOMAIN draft'.lines
                   PROVE  \E h \in Slots : /\ handlers[h].stage = "change" /\ handlers[h].kind = "add"
                                           /\ handlers[h].item = i
      BY <1>1
    <2>2. Live = NoDraft
      BY <1>1, <2>1 DEF Live, Timed
    <2>3. DOMAIN NoDraft.lines = {}
      BY DEF NoDraft, NoLines
    <2>4. draft' # NoDraft /\ draft' # Live
      BY <2>1, <2>2, <2>3
    <2>5. PICK d : /\ IsDraft(d) /\ Touch(d)
                   /\ \A j \in DOMAIN d.lines : j \in DOMAIN Live.lines \/ \E h \in Slots :
                        handlers[h].stage = "change" /\ handlers[h].kind = "add" /\ handlers[h].item = j
      BY <1>1, <2>1, <2>4, DraftSteps
    <2>6. draft'.lines = d.lines
      BY <2>5 DEF Touch, IsDraft, DraftFields
    <2>7. QED
      BY <2>1, <2>2, <2>3, <2>5, <2>6
  <1>2. StashInit => Timed
    <2>1. NoDraft.expires = 0
      BY DEF NoDraft
    <2>2. StashInit => now = 1 /\ draft.expires = 0
      BY <2>1 DEF StashInit
    <2>3. QED
      BY <2>2 DEF Timed
  <1>3. QED
    BY <1>1, <1>2, StashInitInv, StashStep, TimedStep, PTL DEF StashSpec, ExpiredNeverReturns
=============================================================================
