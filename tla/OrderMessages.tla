--------------------------- MODULE OrderMessages ---------------------------
(***************************************************************************)
(* From an order draft to the order's message in the business channel.     *)
(* Drafts live in the memory of the bot, each behind a mutex that is only  *)
(* tried; confirming one saves the order, posts its message and links the  *)
(* two, three effects in three systems that cannot commit together.        *)
(* Afterwards administrators move the status, and every update edits the   *)
(* linked message after its transaction has committed.                     *)
(***************************************************************************)
EXTENDS Integers, Sequences, FiniteSets

CONSTANTS
  Drafts,     \* interactions that started a draft
  Terms,      \* what the form lets an administrator choose
  Clicks,     \* confirm handlers running at once
  Updaters,   \* status handlers running at once
  MaxEdits,   \* bound on the form edits of a draft
  MaxFaults,  \* bound on lost answers, failed statements and restarts
  None        \* no draft, no order, no message

ASSUME BoundsAssumption == MaxEdits \in Nat /\ MaxFaults \in Nat

VARIABLES
  drafts,   \* orderDrafts: None once deleted
  orders,   \* business_orders: None for an id whose insert did not commit
  channel,  \* messages in the business channel, in posting order
  clicks,   \* what each confirm handler is doing
  updates,  \* what each status handler still has to show
  edits,    \* form edits made so far
  faults,   \* faults so far
  unsure    \* history: sends of which the bot does not know whether they arrived

vars == <<drafts, orders, channel, clicks, updates, edits, faults, unsure>>

Statuses == {"open", "ready", "complete", "cancelled"}

\* What a draft and a saved order hold.
DraftRow == [terms : Terms, orderID : Nat, expired : BOOLEAN]
OrderRow == [draft : Drafts, terms : Terms, status : Statuses, message : Nat \cup {None}]
ASSUME NoneAssumption == None \notin Nat /\ None \notin DraftRow /\ None \notin OrderRow

\* Statuses an update accepts from each status; a repeat is accepted.
Accepted == [open      |-> {"open", "ready", "cancelled"},
             ready     |-> {"ready", "complete", "cancelled"},
             complete  |-> {},
             cancelled |-> {"cancelled"}]

Idle == [pc |-> "idle"]
Busy(d) == \E c \in Clicks : clicks[c] # Idle /\ clicks[c].draft = d
Saved(n) == n \in DOMAIN orders /\ orders[n] # None
DraftOf(c) == drafts[clicks[c].draft]

-----------------------------------------------------------------------------
Init ==
  /\ drafts = [d \in Drafts |-> None]
  /\ orders = <<>>
  /\ channel = <<>>
  /\ clicks = [c \in Clicks |-> Idle]
  /\ updates = [u \in Updaters |-> Idle]
  /\ edits = 0
  /\ faults = 0
  /\ unsure = 0

Fault == faults < MaxFaults /\ faults' = faults + 1

\* /order or /purchase: the draft is stored under its interaction, which is new.
StartDraft(d, t) ==
  /\ drafts[d] = None
  /\ \A n \in DOMAIN orders : orders[n] # None => orders[n].draft # d
  /\ \A n \in DOMAIN channel : channel[n].draft # d
  /\ drafts' = [drafts EXCEPT ![d] = [terms |-> t, orderID |-> 0, expired |-> FALSE]]
  /\ UNCHANGED <<orders, channel, clicks, updates, edits, faults, unsure>>

\* Fault: a draft whose order is saved, or may be, can still be edited.
EditAnyDraft(d, t) ==
  /\ drafts[d] # None
  /\ ~Busy(d)
  /\ ~drafts[d].expired
  /\ edits < MaxEdits
  /\ edits' = edits + 1
  /\ drafts' = [drafts EXCEPT ![d].terms = t]
  /\ UNCHANGED <<orders, channel, clicks, updates, faults, unsure>>

\* One form action that was valid: only a draft without an order is edited.
EditDraft(d, t) ==
  /\ drafts[d] # None
  /\ ~Busy(d)
  /\ drafts[d].orderID = 0
  /\ ~drafts[d].expired
  /\ edits < MaxEdits
  /\ edits' = edits + 1
  /\ drafts' = [drafts EXCEPT ![d].terms = t]
  /\ UNCHANGED <<orders, channel, clicks, updates, faults, unsure>>

\* Fifteen minutes passed since the last edit; a confirm at work does not mind.
Expire(d) ==
  /\ drafts[d] # None
  /\ ~drafts[d].expired
  /\ drafts' = [drafts EXCEPT ![d].expired = TRUE]
  /\ UNCHANGED <<orders, channel, clicks, updates, edits, faults, unsure>>

\* The next /order drops the expired drafts it can lock.
Purge(d) ==
  /\ drafts[d] # None
  /\ drafts[d].expired
  /\ ~Busy(d)
  /\ drafts' = [drafts EXCEPT ![d] = None]
  /\ UNCHANGED <<orders, channel, clicks, updates, edits, faults, unsure>>

-----------------------------------------------------------------------------
\* handleOrderConfirm.

\* lockOrderDraft; a draft that has an order ID is not saved again.
Confirm(c, d) ==
  /\ clicks[c] = Idle
  /\ drafts[d] # None
  /\ ~Busy(d)
  /\ ~drafts[d].expired
  /\ clicks' = [clicks EXCEPT ![c] =
       [pc |-> IF drafts[d].orderID = 0 THEN "save" ELSE "look", draft |-> d]]
  /\ UNCHANGED <<drafts, orders, channel, updates, edits, faults, unsure>>

NewOrder(c) ==
  [draft |-> clicks[c].draft, terms |-> DraftOf(c).terms, status |-> "open", message |-> None]

\* INSERT and commit; the serial id is used up whatever becomes of the commit.
Save(c) ==
  /\ clicks[c].pc = "save"
  /\ orders' = Append(orders, NewOrder(c))
  /\ drafts' = [drafts EXCEPT ![clicks[c].draft].orderID = Len(orders')]
  /\ clicks' = [clicks EXCEPT ![c].pc = "look"]
  /\ UNCHANGED <<channel, updates, edits, faults, unsure>>

\* A statement before the commit fails: the ID is taken back.
SaveFailed(c) ==
  /\ clicks[c].pc = "save"
  /\ Fault
  /\ clicks' = [clicks EXCEPT ![c] = Idle]
  /\ UNCHANGED <<drafts, orders, channel, updates, edits, unsure>>

\* Fault: a failed commit takes the ID back like a failed insert.
ForgetOrderID(c) ==
  /\ clicks[c].pc = "save"
  /\ Fault
  /\ \E outcome \in {NewOrder(c), None} : orders' = Append(orders, outcome)
  /\ clicks' = [clicks EXCEPT ![c] = Idle]
  /\ UNCHANGED <<drafts, channel, updates, edits, unsure>>

\* The commit returns an error and may have happened: the ID is kept.
CommitUncertain(c) ==
  /\ clicks[c].pc = "save"
  /\ Fault
  /\ \E outcome \in {NewOrder(c), None} : orders' = Append(orders, outcome)
  /\ drafts' = [drafts EXCEPT ![clicks[c].draft].orderID = Len(orders')]
  /\ clicks' = [clicks EXCEPT ![c] = Idle]
  /\ UNCHANGED <<channel, updates, edits, unsure>>

\* SELECT discord_message_id: an order that is not there is left to the user.
Look(c) ==
  LET id == DraftOf(c).orderID
  IN  /\ clicks[c].pc = "look"
      /\ clicks' = [clicks EXCEPT ![c] =
           IF ~Saved(id) THEN Idle
           ELSE [@ EXCEPT !.pc = IF orders[id].message = None THEN "post" ELSE "close"]]
      /\ UNCHANGED <<drafts, orders, channel, updates, edits, faults, unsure>>

LookFailed(c) ==
  /\ clicks[c].pc = "look"
  /\ Fault
  /\ clicks' = [clicks EXCEPT ![c] = Idle]
  /\ UNCHANGED <<drafts, orders, channel, updates, edits, unsure>>

\* The message is made from the draft, which has no status: it shows Open.
Message(c) == [order |-> DraftOf(c).orderID, draft |-> clicks[c].draft,
               terms |-> DraftOf(c).terms, shows |-> "open"]

Post(c) ==
  /\ clicks[c].pc = "post"
  /\ channel' = Append(channel, Message(c))
  /\ clicks' = [clicks EXCEPT ![c] =
       [pc |-> "link", draft |-> clicks[c].draft, message |-> Len(channel')]]
  /\ UNCHANGED <<drafts, orders, updates, edits, faults, unsure>>

\* The send returns an error; Discord may have taken the message.
PostUncertain(c) ==
  /\ clicks[c].pc = "post"
  /\ Fault
  /\ unsure' = unsure + 1
  /\ channel' \in {channel, Append(channel, Message(c))}
  /\ clicks' = [clicks EXCEPT ![c] = Idle]
  /\ UNCHANGED <<drafts, orders, updates, edits>>

Link(c) ==
  /\ clicks[c].pc = "link"
  /\ orders' = [orders EXCEPT ![DraftOf(c).orderID].message = clicks[c].message]
  /\ clicks' = [clicks EXCEPT ![c].pc = "close"]
  /\ UNCHANGED <<drafts, channel, updates, edits, faults, unsure>>

\* The UPDATE fails after the message was posted: the draft is given up.
LinkFailed(c) ==
  /\ clicks[c].pc = "link"
  /\ Fault
  /\ drafts' = [drafts EXCEPT ![clicks[c].draft] = None]
  /\ clicks' = [clicks EXCEPT ![c] = Idle]
  /\ UNCHANGED <<orders, channel, updates, edits, unsure>>

\* deleteOrderDraft.
Close(c) ==
  /\ clicks[c].pc = "close"
  /\ drafts' = [drafts EXCEPT ![clicks[c].draft] = None]
  /\ clicks' = [clicks EXCEPT ![c] = Idle]
  /\ UNCHANGED <<orders, channel, updates, edits, faults, unsure>>

-----------------------------------------------------------------------------
\* handleOrderUpdate: the status transaction, and the edit that follows it.

\* The committed transaction remembers the message it read under the row lock.
UpdateStatus(u, n, status) ==
  /\ updates[u] = Idle
  /\ Saved(n)
  /\ status \in Accepted[orders[n].status]
  /\ orders' = [orders EXCEPT ![n].status = status]
  /\ updates' = [updates EXCEPT ![u] =
       IF orders[n].message = None THEN Idle
       ELSE [pc |-> "edit", message |-> orders[n].message,
             terms |-> orders[n].terms, shows |-> status]]
  /\ UNCHANGED <<drafts, channel, clicks, edits, faults, unsure>>

\* The commit returns an error: the status may have changed, nothing is edited.
UpdateUncertain(u, n, status) ==
  /\ updates[u] = Idle
  /\ Saved(n)
  /\ status \in Accepted[orders[n].status]
  /\ Fault
  /\ orders' = [orders EXCEPT ![n].status = status]
  /\ UNCHANGED <<drafts, channel, clicks, updates, edits, unsure>>

EditMessage(u) ==
  LET e == updates[u]
  IN  /\ e # Idle
      /\ channel' = [channel EXCEPT ![e.message] = [@ EXCEPT !.terms = e.terms, !.shows = e.shows]]
      /\ updates' = [updates EXCEPT ![u] = Idle]
      /\ UNCHANGED <<drafts, orders, clicks, edits, faults, unsure>>

EditMessageFailed(u) ==
  /\ updates[u] # Idle
  /\ Fault
  /\ updates' = [updates EXCEPT ![u] = Idle]
  /\ UNCHANGED <<drafts, orders, channel, clicks, edits, unsure>>

\* The bot restarts: drafts and handlers are gone, rows and messages stay.
Restart ==
  /\ Fault
  /\ drafts' = [d \in Drafts |-> None]
  /\ clicks' = [c \in Clicks |-> Idle]
  /\ updates' = [u \in Updaters |-> Idle]
  /\ UNCHANGED <<orders, channel, edits, unsure>>

Next ==
  \/ \E d \in Drafts, t \in Terms : StartDraft(d, t) \/ EditDraft(d, t)
  \/ \E d \in Drafts : Expire(d) \/ Purge(d)
  \/ \E c \in Clicks, d \in Drafts : Confirm(c, d)
  \/ \E c \in Clicks :
       \/ Save(c) \/ SaveFailed(c) \/ CommitUncertain(c)
       \/ Look(c) \/ LookFailed(c)
       \/ Post(c) \/ PostUncertain(c)
       \/ Link(c) \/ LinkFailed(c) \/ Close(c)
  \/ \E u \in Updaters, n \in DOMAIN orders, status \in Statuses :
       UpdateStatus(u, n, status) \/ UpdateUncertain(u, n, status)
  \/ \E u \in Updaters : EditMessage(u) \/ EditMessageFailed(u)
  \/ Restart

Spec == Init /\ [][Next]_vars

-----------------------------------------------------------------------------
\* Types; and a confirm handler at work still has the draft it locked.
TypeOK ==
  /\ \A d \in Drafts : drafts[d] # None =>
       drafts[d].terms \in Terms /\ drafts[d].orderID \in 0..Len(orders)
  /\ \A n \in DOMAIN orders : Saved(n) =>
       /\ orders[n].status \in Statuses
       /\ orders[n].message \in {None} \cup DOMAIN channel
  /\ \A c \in Clicks : clicks[c] # Idle => DraftOf(c) # None
  /\ \A u \in Updaters : updates[u] # Idle => updates[u].message \in DOMAIN channel
  /\ faults \in 0..MaxFaults
  /\ edits \in 0..MaxEdits

(***************************************************************************)
(* "Retry checks that ID instead of inserting another order": a draft      *)
(* never becomes two orders, whatever commits were uncertain and however   *)
(* often Create was clicked; and an order has a second message only when a *)
(* send was refused or its answer lost: not for a double click, and not    *)
(* for a message that could not be linked ("Do not recreate order";        *)
(* handleOrderConfirm, saveBusinessOrder).                                 *)
(***************************************************************************)
CreatedOnce ==
  \A n \in DOMAIN orders :
    /\ Saved(n) => \A m \in DOMAIN orders \ {n} : Saved(m) => orders[m].draft # orders[n].draft
    /\ Cardinality({m \in DOMAIN channel : channel[m].order = n}) <= 1 + unsure

(***************************************************************************)
(* A message shows the terms of the order it names as they were saved, and *)
(* a linked message is one of that order's: an edit cannot slip in between *)
(* the save, a failed post and its retry (handleOrderForm's OrderID = 0).  *)
(***************************************************************************)
MessagesShowSavedTerms ==
  /\ \A m \in DOMAIN channel :
       /\ Saved(channel[m].order)
       /\ channel[m].terms = orders[channel[m].order].terms
  /\ \A n \in DOMAIN orders :
       Saved(n) /\ orders[n].message # None => channel[orders[n].message].order = n
=============================================================================
