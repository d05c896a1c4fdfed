----------------------------- MODULE StashDraft -----------------------------
(***************************************************************************)
(* One member's stash builder in one safebox channel.  /stash deposit and  *)
(* /stash withdraw each open an ephemeral builder message; all of them     *)
(* share one draft, which holds the action, the items and the reason, and  *)
(* lives in the bot's memory for ten minutes after its last change.  Every *)
(* interaction is handled in a goroutine of its own, which takes the       *)
(* store's lock anew for each access; Submit moves the stock with the      *)
(* interaction's id as the idempotency key.                                *)
(*                                                                         *)
(* A modal can be sent in long after the builder it was opened from is     *)
(* gone.  The stock ledger is the atomic one that StockLedger describes.   *)
(***************************************************************************)
EXTENDS Integers, Sequences, FiniteSets, FiniteSetsExt, SequencesExt, Functions

CONSTANTS
  Slots,            \* bound: interactions handled at once
  Actions,          \* of "deposit" and "withdraw"
  Items, Quantities,
  MaxItems,         \* commandstash.MaxItems
  TTL,              \* the life of a draft
  Stock,            \* the quantity of each item at first
  MaxInteractions,  \* bound: interactions and builder messages together
  MaxStashFaults,   \* bound: failures, redeliveries and restarts
  MaxTime           \* bound: the clock

ASSUME StashAssumption == TTL \in Nat

VARIABLES
  now,
  draft,     \* stashDraftStore.drafts, at the member's key
  builders,  \* the messages, as they were last rendered
  handlers,  \* the goroutines
  stock,
  sent,      \* the interactions so far
  moved,     \* history: the movements, in order
  excuses,   \* history: "overlap", "unseen" and "untold", as they happened
  stashFaults

stashVars == <<now, draft, builders, handlers, stock, sent, moved, excuses, stashFaults>>

NoLines == [i \in {} |-> 0]
NoDraft == [action |-> "", lines |-> NoLines, reason |-> FALSE, expires |-> 0, start |-> 0]
NoHandler == [stage |-> "idle"]
InFlight == {h \in Slots : handlers[h] # NoHandler}

-----------------------------------------------------------------------------
\* Fault: an expired draft is still returned.
LiveForever == IF draft.start # 0 THEN draft ELSE NoDraft

\* get: a draft that has expired is deleted.
Live == IF draft.expires > now THEN draft ELSE NoDraft

\* touch: every change extends the draft's life.
Touch(d) == draft' = [d EXCEPT !.expires = now + TTL]
Clear == draft' = NoDraft

StashFault == stashFaults < MaxStashFaults /\ stashFaults' = stashFaults + 1
To(h, stage) == handlers' = [handlers EXCEPT ![h].stage = stage]
Done(h) == handlers' = [handlers EXCEPT ![h] = NoHandler]

\* The message shows a text and no controls any more; the edit may be lost.
Told(b) == [builders EXCEPT ![b].live = FALSE]
Answer(b) ==
  \/ builders' = Told(b) /\ UNCHANGED stashFaults
  \/ UNCHANGED builders /\ StashFault

\* editStashError
Fail(h) ==
  /\ Done(h)
  /\ Answer(handlers[h].builder)

-----------------------------------------------------------------------------
StashInit ==
  /\ now = 1
  /\ draft = NoDraft
  /\ builders = <<>>
  /\ handlers = [h \in Slots |-> NoHandler]
  /\ stock = Stock
  /\ sent = 0
  /\ moved = <<>> /\ excuses = {}
  /\ stashFaults = 0

Tick ==
  /\ now < MaxTime
  /\ now' = now + 1
  /\ UNCHANGED <<draft, builders, handlers, stock, sent, moved, excuses, stashFaults>>

\* An interaction arrives.
Arrives(h, interaction) ==
  /\ handlers[h] = NoHandler
  /\ sent + Len(builders) < MaxInteractions
  /\ sent' = sent + 1
  /\ handlers' = [handlers EXCEPT ![h] = interaction]
  /\ excuses' = excuses \cup (IF InFlight = {} THEN {} ELSE {"overlap"})
  /\ UNCHANGED <<now, draft, stock, moved, stashFaults>>

Interaction(kind, b) ==
  [kind |-> kind, id |-> sent + 1, builder |-> b, stage |-> "read", action |-> "",
   item |-> "", quantity |-> 0, copy |-> NoDraft, shown |-> builders[b]]

\* /stash deposit and /stash withdraw: a new message.
Slash(h, action) ==
  LET blank == [title |-> action, lines |-> NoLines, reason |-> FALSE, live |-> FALSE, seen |-> FALSE]
  IN  /\ builders' = Append(builders, blank)
      /\ Arrives(h, [kind |-> "start", id |-> sent + 1, builder |-> Len(builders) + 1,
                     stage |-> "clear", action |-> action, item |-> "", quantity |-> 0,
                     copy |-> NoDraft, shown |-> blank])

\* The controls of a builder, as it was rendered.
Click(h, kind, b) ==
  /\ builders[b].live
  /\ CASE kind = "submit" -> builders[b].lines # NoLines /\ builders[b].reason
       [] kind = "clear" -> builders[b].lines # NoLines \/ builders[b].reason
       [] OTHER -> kind = "group"
  /\ Arrives(h, Interaction(kind, b))
  /\ UNCHANGED builders
ClickItem(h, b, item) ==
  /\ builders[b].live /\ item \in DOMAIN builders[b].lines
  /\ Arrives(h, [Interaction("remove", b) EXCEPT !.item = item])
  /\ UNCHANGED builders
\* A modal that was opened from a builder is sent in, however much later.
SendItem(h, b, item, quantity) ==
  /\ builders[b].seen
  /\ Arrives(h, [Interaction("add", b) EXCEPT !.item = item, !.quantity = quantity])
  /\ UNCHANGED builders
SendReason(h, b) ==
  /\ builders[b].seen
  /\ Arrives(h, Interaction("reason", b))
  /\ UNCHANGED builders

\* Discord delivers a Submit again, while it is handled or afterwards.
Redeliver(h) ==
  /\ handlers[h] = NoHandler
  /\ StashFault
  /\ \E again \in {handlers[g] : g \in {g \in InFlight : handlers[g].kind = "submit"}}
                  \cup {moved[n].by : n \in DOMAIN moved} :
       handlers' = [handlers EXCEPT ![h] = [again EXCEPT !.stage = "read", !.copy = NoDraft, !.action = ""]]
  /\ UNCHANGED <<now, draft, builders, stock, sent, moved, excuses>>

\* The bot is restarted: the drafts are gone, the messages are not.
Reboot ==
  /\ StashFault
  /\ draft' = NoDraft
  /\ handlers' = [h \in Slots |-> NoHandler]
  /\ UNCHANGED <<now, builders, stock, sent, moved, excuses>>

-----------------------------------------------------------------------------
\* handleStashSlashStart: clear, then touch.
ClearForStart(h) ==
  /\ handlers[h].stage = "clear" /\ handlers[h].kind = "start"
  /\ Clear
  /\ To(h, "open")
  /\ UNCHANGED <<now, builders, stock, sent, moved, excuses, stashFaults>>
OpenDraft(h) ==
  /\ handlers[h].stage = "open"
  /\ Touch([Live EXCEPT !.action = handlers[h].action, !.start = handlers[h].id])
  /\ To(h, "render")
  /\ UNCHANGED <<now, builders, stock, sent, moved, excuses, stashFaults>>

\* handleStashInteraction: the action comes from the draft.
ReadAction(h) ==
  /\ handlers[h].stage = "read"
  /\ draft' = Live
  /\ IF Live.action = "" THEN Done(h)
     ELSE handlers' = [handlers EXCEPT ![h] = [@ EXCEPT !.action = Live.action,
            !.stage = IF handlers[h].kind = "submit" THEN "load" ELSE "change"]]
  /\ UNCHANGED <<now, builders, stock, sent, moved, excuses, stashFaults>>

\* deferStashResponse fails: the handler returns.
DeferFails(h) ==
  /\ handlers[h].stage \in {"change", "load", "clear"}
  /\ handlers[h].stage = "clear" => handlers[h].kind = "start"
  /\ StashFault
  /\ Done(h)
  /\ UNCHANGED <<now, draft, builders, stock, sent, moved, excuses>>

Full(item) == item \notin DOMAIN Live.lines /\ Cardinality(DOMAIN Live.lines) >= MaxItems
Without(lines, item) == Restrict(lines, DOMAIN lines \ {item})
With(lines, item, quantity) ==
  [i \in DOMAIN lines \cup {item} |-> IF i = item THEN quantity ELSE lines[i]]

Change(h) ==
  LET i == handlers[h]
  IN  /\ i.stage = "change"
      /\ \/ i.kind = "group" /\ Touch(Live)
         \/ i.kind = "remove" /\ Touch([Live EXCEPT !.lines = Without(@, i.item)])
         \/ i.kind = "clear" /\ Clear
         \/ i.kind = "reason" /\ Touch([Live EXCEPT !.reason = TRUE])
         \/ i.kind = "add" /\ ~Full(i.item) /\ Touch([Live EXCEPT !.lines = With(@, i.item, i.quantity)])
      /\ To(h, "render")
      /\ UNCHANGED <<now, builders, stock, sent, moved, excuses, stashFaults>>
RefuseItem(h) ==
  /\ handlers[h].stage = "change" /\ handlers[h].kind = "add"
  /\ Full(handlers[h].item)
  /\ Fail(h)
  /\ UNCHANGED <<now, draft, stock, sent, moved, excuses>>

\* Fault: every builder is titled a deposit.
RenderDeposit(h) ==
  LET i == handlers[h]
  IN  /\ i.stage = "render"
      /\ draft' = Live
      /\ builders' = [builders EXCEPT ![i.builder] =
           [title |-> "deposit", lines |-> Live.lines, reason |-> Live.reason, live |-> TRUE, seen |-> TRUE]]
      /\ Done(h)
      /\ UNCHANGED <<now, stock, sent, moved, excuses, stashFaults>>

\* editStashBuilder, with the action the handler read; or the stock cannot be
\* listed; or the edit is lost.
Render(h) ==
  LET i == handlers[h]
  IN  /\ i.stage = "render"
      /\ draft' = Live
      /\ builders' = [builders EXCEPT ![i.builder] =
           [title |-> i.action, lines |-> Live.lines, reason |-> Live.reason, live |-> TRUE, seen |-> TRUE]]
      /\ Done(h)
      /\ UNCHANGED <<now, stock, sent, moved, excuses, stashFaults>>
RenderFails(h) ==
  /\ handlers[h].stage = "render"
  /\ StashFault
  /\ Done(h)
  /\ \/ /\ builders' = Told(handlers[h].builder)
        /\ UNCHANGED excuses
     \/ /\ excuses' = excuses \cup {"unseen"}
        /\ UNCHANGED builders
  /\ UNCHANGED <<now, draft, stock, sent, moved>>

-----------------------------------------------------------------------------
\* submitStashDraft: the draft is read again.
Load(h) ==
  /\ handlers[h].stage = "load"
  /\ draft' = Live
  /\ IF Live.lines # NoLines /\ Live.reason
     THEN /\ handlers' = [handlers EXCEPT ![h] = [@ EXCEPT !.stage = "transact", !.copy = Live]]
          /\ UNCHANGED <<builders, stashFaults>>
     ELSE Fail(h)
  /\ UNCHANGED <<now, stock, sent, moved, excuses>>

\* The movements of an idempotency key.
OfKey(i) == {n \in DOMAIN moved : moved[n].by.id = i.id}
Replays(i) == \E n \in OfKey(i) : moved[n].action = i.action /\ moved[n].lines = i.copy.lines
Signed(i) == IF i.action = "deposit" THEN 1 ELSE -1
After(i) == [item \in Items |->
  stock[item] + (IF item \in DOMAIN i.copy.lines THEN Signed(i) * i.copy.lines[item] ELSE 0)]

Moves(h) ==
  LET i == handlers[h]
  IN  /\ OfKey(i) = {}
      /\ \A item \in Items : After(i)[item] >= 0
      /\ stock' = After(i)
      /\ moved' = Append(moved, [by |-> i, action |-> i.action, lines |-> i.copy.lines, start |-> i.copy.start,
                                 read |-> i.copy.expires])

\* Fault: a Submit that is delivered again moves again.
TransactAgain(h) ==
  LET i == handlers[h]
  IN  /\ i.stage = "transact"
      /\ \A item \in Items : After(i)[item] >= 0
      /\ stock' = After(i)
      /\ moved' = Append(moved, [by |-> i, action |-> i.action, lines |-> i.copy.lines, start |-> i.copy.start,
                                 read |-> i.copy.expires])
      /\ To(h, "finish")
      /\ UNCHANGED <<now, draft, builders, sent, excuses, stashFaults>>

\* stashResponse: the movement, or its replay.
Transact(h) ==
  /\ handlers[h].stage = "transact"
  /\ Moves(h) \/ (Replays(handlers[h]) /\ UNCHANGED <<stock, moved>>)
  /\ To(h, "finish")
  /\ UNCHANGED <<now, draft, builders, sent, excuses, stashFaults>>

\* It is refused: the stock, the key, or a failure of the database, which may
\* be the loss of a commit's answer.
Refused(h) ==
  LET i == handlers[h]
  IN  /\ i.stage = "transact"
      /\ Done(h)
      /\ \/ /\ IF OfKey(i) = {} THEN \E item \in Items : After(i)[item] < 0 ELSE ~Replays(i)
            /\ Answer(i.builder)
            /\ UNCHANGED <<stock, moved, excuses>>
         \/ /\ StashFault
            /\ builders' \in {builders, Told(i.builder)}
            /\ \/ UNCHANGED <<stock, moved, excuses>>
               \/ Moves(h) /\ excuses' = excuses \cup {"untold"}
      /\ UNCHANGED <<now, draft, sent>>

\* The balances cannot be read again for the embed.
ListAfterFails(h) ==
  /\ handlers[h].stage = "finish"
  /\ StashFault
  /\ Done(h)
  /\ builders' \in {builders, Told(handlers[h].builder)}
  /\ excuses' = excuses \cup {"untold"}
  /\ UNCHANGED <<now, draft, stock, sent, moved>>

\* The balances are read again and the embed is posted, or not; then the draft
\* is cleared.
Finish(h) ==
  /\ handlers[h].stage = "finish"
  /\ Clear
  /\ To(h, "confirm")
  /\ UNCHANGED <<now, builders, stock, sent, moved, excuses, stashFaults>>
ConfirmStash(h) ==
  /\ handlers[h].stage = "confirm"
  /\ Done(h)
  /\ Answer(handlers[h].builder)
  /\ UNCHANGED <<now, draft, stock, sent, moved, excuses>>

StashNext ==
  \/ Tick \/ Reboot
  \/ \E h \in Slots :
       \/ \E action \in Actions : Slash(h, action)
       \/ \E b \in DOMAIN builders :
            \/ \E kind \in {"group", "clear", "submit"} : Click(h, kind, b)
            \/ \E item \in Items : ClickItem(h, b, item)
            \/ \E item \in Items, quantity \in Quantities : SendItem(h, b, item, quantity)
            \/ SendReason(h, b)
       \/ Redeliver(h)
       \/ ClearForStart(h) \/ OpenDraft(h) \/ ReadAction(h) \/ DeferFails(h)
       \/ Change(h) \/ RefuseItem(h) \/ Render(h) \/ RenderFails(h)
       \/ Load(h) \/ Transact(h) \/ Refused(h) \/ ListAfterFails(h)
       \/ Finish(h) \/ ConfirmStash(h)

StashSpec == StashInit /\ [][StashNext]_stashVars

-----------------------------------------------------------------------------
StashTypeOK ==
  /\ draft.action \in Actions \cup {""}
  /\ Cardinality(DOMAIN draft.lines) <= MaxItems
  /\ draft.expires \in 0..(now + TTL)
  /\ \A i \in Items : stock[i] >= 0

(***************************************************************************)
(* README.md: "a redelivered event cannot apply the movement twice".  And  *)
(* a draft is moved once: its second movement needs two interactions of    *)
(* the member at once, or a first whose answer did not tell that it was    *)
(* done (submitStashDraft clears the draft after the post, posted or not). *)
(***************************************************************************)
SubmittedOnce ==
  \A m, n \in DOMAIN moved :
    m # n =>
      /\ moved[m].by.id # moved[n].by.id
      /\ moved[m].start # 0 /\ moved[m].start = moved[n].start
           => excuses \cap {"overlap", "untold"} # {}

(***************************************************************************)
(* What is moved is what the builder showed when Submit was clicked, for a *)
(* member with one builder who waits for every answer and gets it, however *)
(* late he is (get, touch and the re-rendering after every change).        *)
(***************************************************************************)
MovesAsShown ==
  Len(builders) = 1 /\ excuses \cap {"overlap", "unseen"} = {} =>
    \A n \in DOMAIN moved :
      /\ moved[n].lines = moved[n].by.shown.lines
      /\ moved[n].action = moved[n].by.shown.title

(***************************************************************************)
(* Items that nobody touched for ten minutes are not moved: an interaction *)
(* finds an expired draft gone, or begins another (get and touch).         *)
(***************************************************************************)
ExpiredNeverReturns ==
  [][draft.expires <= now /\ draft' # draft =>
       \A i \in DOMAIN draft'.lines : \E h \in Slots :
         handlers[h].stage = "change" /\ handlers[h].kind = "add" /\ handlers[h].item = i]_stashVars
=============================================================================
