---------------------------- MODULE EveningBoard ----------------------------
(***************************************************************************)
(* What the members are promised of the evening's peak report: the channel *)
(* is only ever told the highest count known so far, and comes to tell the *)
(* highest count of the evening.  PeakReport implements it.                *)
(***************************************************************************)
EXTENDS Integers

CONSTANTS
  Evenings,  \* report dates
  Shunned    \* evenings whose posts Discord refuses for ever

VARIABLES
  peak,   \* the highest count saved for an evening, -1 before the first
  shown   \* the highest count the channel was told of it, -1 before the first

boardVars == <<peak, shown>>

Init ==
  /\ peak = [d \in Evenings |-> -1]
  /\ shown = [d \in Evenings |-> -1]

Raise(d) ==
  /\ peak'[d] > peak[d]
  /\ peak' = [peak EXCEPT ![d] = peak'[d]]
  /\ UNCHANGED shown

\* The channel is told the peak as it stands, never one that was passed.
Show(d) ==
  /\ shown[d] < peak[d]
  /\ shown' = [shown EXCEPT ![d] = peak[d]]
  /\ UNCHANGED peak

Next == \E d \in Evenings : Raise(d) \/ Show(d)

AllShown == \A d \in Evenings \ Shunned : []<>(shown[d] = peak[d])

Spec == Init /\ [][Next]_boardVars /\ AllShown
=============================================================================
