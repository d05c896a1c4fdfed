------------------------------ MODULE MCDrafts ------------------------------
(* Two order drafts, two confirm clicks and one status handler; and a        *)
(* withdrawal builder, in a safebox that holds two of one item and none of   *)
(* the other.  The bot keeps both kinds of draft in memory, in two stores    *)
(* without common state, so each is run from its own initial states.  No     *)
(* operator tells the members of a symmetric set apart.                      *)
EXTENDS OrderMessages, StashDraft, TLC

CONSTANTS ammo, vest

VARIABLE drafting  \* the kind of draft this behaviour is about

MCStock == ammo :> 2 @@ vest :> 0
Symmetry ==
  Permutations(Drafts) \cup Permutations(Terms) \cup Permutations(Clicks) \cup Permutations(Slots)

MCInit ==
  /\ drafting \in {"orders", "stash"}
  /\ Init
  /\ StashInit

MCNext ==
  /\ UNCHANGED drafting
  /\ \/ drafting = "orders" /\ Next /\ UNCHANGED stashVars
     \/ drafting = "stash" /\ StashNext /\ UNCHANGED vars

MCSpec == MCInit /\ [][MCNext]_<<vars, stashVars, drafting>>
=============================================================================
