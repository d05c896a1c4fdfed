----------------------------- MODULE CraftDraft -----------------------------
(***************************************************************************)
(* One member's crafting plan.  /craft opens an ephemeral panel; all the   *)
(* member's panels share one draft, which lives in the bot's memory for    *)
(* ten minutes after its last change.  A panel shows the builder, or the   *)
(* calculated result with a button that posts it to the channel; posting   *)
(* calculates again, from the draft of that moment.  Every interaction is  *)
(* handled in a goroutine of its own, which takes the store's lock anew    *)
(* for each access.                                                        *)
(*                                                                         *)
(* A handler whose deferral fails does nothing, as if nobody had clicked.  *)
(***************************************************************************)
EXTENDS Integers, Sequences, FiniteSets, FiniteSetsExt, SequencesExt, Functions

CONSTANTS
  Products, Numbers,  \* weapons, and the quantities a member enters
  MaxRecipes,         \* crafting.MaxRecipes
  PlanTTL,            \* the life of a draft
  Workers,            \* bound: interactions handled at once
  MaxClicks,          \* bound: interactions
  MaxCraftFaults,     \* bound: failures and restarts
  LastMoment          \* bound: the clock

ASSUME PlanAssumption == PlanTTL \in Nat

VARIABLES
  clock,
  plan,     \* craftDraftStore.drafts, at the member's key
  panels,   \* the ephemeral messages, as they were last rendered
  workers,  \* the goroutines
  clicks,   \* the interactions so far
  posts,    \* the messages in the channel
  unsure,   \* history: the member may not have seen the draft as it is
  lapsed,   \* history: the stored products that have been expired since they were entered
  revived,  \* history: a product was removed from an expired draft
  troubles

craftVars == <<clock, plan, panels, workers, clicks, posts, unsure, lapsed, revived, troubles>>

Nothing == [p \in {} |-> 0]
NoPlan == [stored |-> FALSE, items |-> Nothing, expires |-> 0]
Free == [stage |-> "free"]
Working == {h \in Workers : workers[h] # Free}

-----------------------------------------------------------------------------
\* Fault: what is stored is returned, expired or not.
AnyAge == plan

\* get: a draft that has expired is deleted.
Current == IF plan.expires > clock THEN plan ELSE NoPlan

\* remove: whatever is stored is given ten more minutes.
Without(product) ==
  IF plan.stored
  THEN [plan EXCEPT !.items = Restrict(plan.items, DOMAIN plan.items \ {product}),
                    !.expires = clock + PlanTTL]
  ELSE plan

\* upsert: an expired draft is replaced, a product's quantity too.
Roomy(product) == product \in DOMAIN Current.items \/ Cardinality(DOMAIN Current.items) < MaxRecipes
With(product, number) ==
  [stored |-> TRUE, expires |-> clock + PlanTTL,
   items |-> [p \in DOMAIN Current.items \cup {product} |->
                IF p = product THEN number ELSE Current.items[p]]]

Trouble == troubles < MaxCraftFaults /\ troubles' = troubles + 1
Goes(h, stage) == workers' = [workers EXCEPT ![h].stage = stage]
Ends(h) == workers' = [workers EXCEPT ![h] = Free]

\* InteractionResponseEdit: the panel as it is shown from now on, or as before.
Shows(h, panel) ==
  \/ panels' = [panels EXCEPT ![workers[h].panel] = panel] /\ UNCHANGED <<unsure, troubles>>
  \/ UNCHANGED panels /\ unsure' = TRUE /\ Trouble

\* A panel without controls, after editCraftError; its modals are still open.
Dead(b) == [panels[b] EXCEPT !.view = "text"]

-----------------------------------------------------------------------------
CraftInit ==
  /\ clock = 1
  /\ plan = NoPlan
  /\ panels = <<>>
  /\ workers = [h \in Workers |-> Free]
  /\ clicks = 0
  /\ posts = {}
  /\ unsure = FALSE /\ revived = FALSE
  /\ lapsed = {}
  /\ troubles = 0

CraftTick ==
  /\ clock < LastMoment
  /\ clock' = clock + 1
  /\ lapsed' = IF plan.expires <= clock' THEN lapsed \cup DOMAIN plan.items ELSE lapsed
  /\ UNCHANGED <<plan, panels, workers, clicks, posts, unsure, revived, troubles>>

\* An interaction arrives; two at once, or a second panel, excuse a surprise.
Handled(h, interaction) ==
  /\ workers[h] = Free
  /\ clicks < MaxClicks
  /\ clicks' = clicks + 1
  /\ workers' = [workers EXCEPT ![h] = interaction]
  /\ unsure' = (unsure \/ Working # {} \/ Len(panels') > 1)
  /\ UNCHANGED <<clock, plan, posts, lapsed, revived, troubles>>

By(kind, stage, b) ==
  [kind |-> kind, stage |-> stage, panel |-> b, items |-> Nothing, lapsed |-> {},
   product |-> "", number |-> 0]

\* /craft
SlashCraft(h) ==
  /\ panels' = Append(panels, [view |-> "blank", items |-> Nothing, seen |-> FALSE])
  /\ Handled(h, By("builder", "list", Len(panels) + 1))

\* The buttons of a panel, as it was rendered.
Press(h, b, kind) ==
  /\ CASE kind = "clear" -> \/ panels[b].view = "builder" /\ panels[b].items # Nothing
                            \/ panels[b].view \in {"result", "posted"}
       [] kind = "calculate" -> panels[b].view = "builder" /\ panels[b].items # Nothing
       [] kind = "post" -> panels[b].view = "result"
       [] kind = "builder" -> panels[b].view \in {"result", "posted"}
  /\ UNCHANGED panels
  /\ Handled(h, CASE kind = "clear" -> By("builder", "clear", b)
                  [] kind = "builder" -> By("builder", "list", b)
                  [] OTHER -> By(kind, "read", b))
PressRemove(h, b, product) ==
  /\ panels[b].view = "builder" /\ product \in DOMAIN panels[b].items
  /\ UNCHANGED panels
  /\ Handled(h, [By("builder", "remove", b) EXCEPT !.product = product])

\* The quantity modal of a product is sent in, however much later.
SendNumber(h, b, product, number) ==
  /\ panels[b].seen
  /\ UNCHANGED panels
  /\ Handled(h, [By("builder", "upsert", b) EXCEPT !.product = product, !.number = number])

-----------------------------------------------------------------------------
\* The change an interaction makes to the draft.
Change(h) ==
  LET w == workers[h]
  IN  /\ \/ w.stage = "clear" /\ plan' = NoPlan /\ lapsed' = {} /\ UNCHANGED revived
         \/ /\ w.stage = "remove"
            /\ plan' = Without(w.product)
            /\ lapsed' = lapsed \cap DOMAIN plan'.items
            /\ revived' = (revived \/ (plan.stored /\ plan.expires <= clock))
         \/ /\ w.stage = "upsert"
            /\ Roomy(w.product)
            /\ plan' = With(w.product, w.number)
            /\ lapsed' = (lapsed \cap DOMAIN Current.items) \ {w.product}
            /\ UNCHANGED revived
      /\ Goes(h, "list")
      /\ UNCHANGED <<clock, panels, clicks, posts, unsure, troubles>>

\* upsert's refusal of one product too many.
Overfull(h) ==
  /\ workers[h].stage = "upsert"
  /\ ~Roomy(workers[h].product)
  /\ Ends(h)
  /\ Shows(h, Dead(workers[h].panel))
  /\ plan' = Current /\ lapsed' = lapsed \cap DOMAIN plan'.items
  /\ UNCHANGED <<clock, clicks, posts, revived>>

\* get, after the builder has listed the recipes.
Fetch(h) ==
  /\ workers[h].stage \in {"list", "read"}
  /\ workers[h].kind # "builder" => Current.items # Nothing
  /\ plan' = Current
  /\ workers' = [workers EXCEPT ![h] = [@ EXCEPT !.items = Current.items,
                                                !.lapsed = lapsed \cap DOMAIN Current.items,
                                                !.stage = IF workers[h].kind = "post" THEN "post" ELSE "show"]]
  /\ lapsed' = lapsed \cap DOMAIN plan'.items
  /\ UNCHANGED <<clock, panels, clicks, posts, unsure, revived, troubles>>

\* There is nothing to calculate or to post.
Empty(h) ==
  /\ workers[h].stage = "read"
  /\ Current.items = Nothing
  /\ plan' = NoPlan /\ lapsed' = {}
  /\ Ends(h)
  /\ Shows(h, Dead(workers[h].panel))
  /\ UNCHANGED <<clock, clicks, posts, revived>>

\* editCraftBuilder, editCraftCalculation, or the confirmation of a post.
Show(h) ==
  LET w == workers[h]
      view == CASE w.kind = "builder" -> "builder" [] w.kind = "calculate" -> "result" [] OTHER -> "posted"
  IN  /\ w.stage = "show"
      /\ Ends(h)
      /\ Shows(h, [view |-> view, items |-> w.items,
                   seen |-> panels[w.panel].seen \/ view = "builder"])
      /\ UNCHANGED <<clock, plan, clicks, posts, lapsed, revived>>

\* What was posted, beside what its panel showed.
Posted(h) ==
  posts \cup {[items |-> workers[h].items, shown |-> panels[workers[h].panel].items,
               excused |-> unsure, revived |-> revived,
               lapsed |-> workers[h].lapsed]}

\* ChannelMessageSendEmbed; the message may be there although an error returns.
Post(h) ==
  /\ workers[h].stage = "post"
  /\ posts' = Posted(h)
  /\ Goes(h, "show")
  /\ UNCHANGED <<clock, plan, panels, clicks, unsure, lapsed, revived, troubles>>
PostLost(h) ==
  /\ workers[h].stage = "post"
  /\ Trouble
  /\ posts' = Posted(h)
  /\ Ends(h)
  /\ panels' = [panels EXCEPT ![workers[h].panel] = Dead(workers[h].panel)]
  /\ UNCHANGED <<clock, plan, clicks, unsure, lapsed, revived>>

\* A recipe is gone, the database fails, or Discord refuses the message.
Fails(h) ==
  /\ \/ workers[h].stage \in {"upsert", "list", "post"}
     \/ workers[h].stage = "show" /\ workers[h].kind = "calculate"
  /\ Trouble
  /\ Ends(h)
  /\ \/ panels' = [panels EXCEPT ![workers[h].panel] = Dead(workers[h].panel)] /\ UNCHANGED unsure
     \/ UNCHANGED panels /\ unsure' = TRUE
  /\ UNCHANGED <<clock, plan, clicks, posts, lapsed, revived>>

\* The bot is restarted: the drafts are gone, the panels are not.
CraftRestart ==
  /\ Trouble
  /\ plan' = NoPlan /\ lapsed' = {}
  /\ workers' = [h \in Workers |-> Free]
  /\ UNCHANGED <<clock, panels, clicks, posts, unsure, revived>>

CraftNext ==
  \/ CraftTick \/ CraftRestart
  \/ \E h \in Workers :
       \/ SlashCraft(h)
       \/ \E b \in DOMAIN panels :
            \/ \E kind \in {"builder", "clear", "calculate", "post"} : Press(h, b, kind)
            \/ \E p \in Products : PressRemove(h, b, p) \/ \E n \in Numbers : SendNumber(h, b, p, n)
       \/ Change(h) \/ Overfull(h) \/ Fetch(h) \/ Empty(h) \/ Show(h)
       \/ Post(h) \/ PostLost(h) \/ Fails(h)

-----------------------------------------------------------------------------
(***************************************************************************)
(* "Lets the caller explicitly post the completed result": what is posted  *)
(* is calculated again from the draft, and is nevertheless what the panel  *)
(* showed, unless the member clicked twice at once, had two panels, or an  *)
(* edit of the panel was lost.  "Drafts expire after 10 minutes": a        *)
(* product that had expired is posted only after a Remove that came before *)
(* any other access and gave the whole draft ten more minutes              *)
(* (craftDraftStore.get, upsert, remove; postCraftCalculation).            *)
(***************************************************************************)
PostsAsShown ==
  \A p \in posts :
    /\ p.items = p.shown \/ p.excused
    /\ p.lapsed # {} => p.revived
=============================================================================
