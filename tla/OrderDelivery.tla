--------------------------- MODULE OrderDelivery ---------------------------
(***************************************************************************)
(* Delivery of the ledger embeds that settlement leaves in                 *)
(* business_order_notifications.  A worker claims one due row with         *)
(* FOR UPDATE SKIP LOCKED, sends its embed to Discord inside that          *)
(* transaction, and records the message ID or a later attempt when it      *)
(* commits.  Workers may be two for the length of a redeployment.          *)
(***************************************************************************)
EXTENDS OrderSettlement

CONSTANTS
  Workers,    \* flushOrderNotifications loops running
  MaxFaults,  \* bound on crashes and lost answers
  NoClaim     \* a worker between two rows

ASSUME FaultAssumption == MaxFaults \in Nat

Embeds == {"posted", "reversed"}
ClaimSet == [order : Orders, dest : Destinations, embed : Embeds, sent : BOOLEAN]

ASSUME ClaimAssumption == NoClaim \notin ClaimSet

VARIABLES
  claim,   \* the row a worker's transaction has locked, and what it read
  due,     \* next_attempt_at has come
  posted,  \* embeds in the ledger channels: how often each was posted
  faults   \* crashes and lost answers so far

deliveryVars == <<claim, due, posted, faults>>
wholeVars == <<vars, claim, due, posted, faults>>

\* Fault: the claiming transaction ends before the embed is sent.
NeverLocked(o, d) == FALSE

\* The row lock of the claim, held over the call to Discord.
Locked(o, d) == \E w \in Workers : claim[w] # NoClaim /\ claim[w].order = o /\ claim[w].dest = d

DeliveryInit ==
  /\ Init
  /\ claim = [w \in Workers |-> NoClaim]
  /\ due = [o \in Orders |-> [d \in Destinations |-> FALSE]]
  /\ posted = [o \in Orders |-> [d \in Destinations |-> [e \in Embeds |-> 0]]]
  /\ faults = 0

\* Fault: a cancellation does not wait for the delivery of the row it replaces.
NoWait(o, d) == TRUE

\* INSERT ... ON CONFLICT DO UPDATE waits for a row that a delivery has locked.
MayReplace(o, d) == ~Locked(o, d)

\* The status transaction queues its embeds as due at once.
SettleAndQueue(o, target) ==
  LET queued(d) == notice'[o][d] # notice[o][d]
  IN  /\ HandleOrderUpdate(o, target)
      /\ \A d \in Destinations : queued(d) => MayReplace(o, d)
      /\ due' = [due EXCEPT ![o] = [d \in Destinations |-> due[o][d] \/ queued(d)]]
      /\ UNCHANGED <<claim, posted, faults>>

\* The rows the SELECT ... FOR UPDATE SKIP LOCKED can return.
Claimable(o, d) ==
  /\ notice[o][d] # "none"
  /\ ~delivered[o][d]
  /\ due[o][d]
  /\ ~Locked(o, d)

Claim(w, o, d) ==
  /\ claim[w] = NoClaim
  /\ Claimable(o, d)
  /\ claim' = [claim EXCEPT ![w] =
       [order |-> o, dest |-> d, embed |-> notice[o][d], sent |-> FALSE]]
  /\ UNCHANGED <<vars, due, posted, faults>>

\* Discord takes the embed of the row.
Accept(w) ==
  LET c == claim[w]
  IN  posted' = [posted EXCEPT ![c.order][c.dest][c.embed] = @ + 1]

SendAccepted(w) ==
  /\ claim[w] # NoClaim
  /\ ~claim[w].sent
  /\ Accept(w)
  /\ claim' = [claim EXCEPT ![w].sent = TRUE]
  /\ UNCHANGED <<vars, due, faults>>

\* One minute later is the next attempt; the row stays undelivered.
Postpone(w) ==
  /\ due' = [due EXCEPT ![claim[w].order] = [@ EXCEPT ![claim[w].dest] = FALSE]]
  /\ claim' = [claim EXCEPT ![w] = NoClaim]

SendRefused(w) ==
  /\ claim[w] # NoClaim
  /\ ~claim[w].sent
  /\ Postpone(w)
  /\ UNCHANGED <<vars, posted, faults>>

\* Discord takes the embed but its answer is lost: the worker sees an error.
AnswerLost(w) ==
  /\ claim[w] # NoClaim
  /\ ~claim[w].sent
  /\ faults < MaxFaults
  /\ faults' = faults + 1
  /\ Accept(w)
  /\ Postpone(w)
  /\ UNCHANGED vars

\* The message ID is saved and the transaction commits.
RecordDelivery(w) ==
  LET c == claim[w]
  IN  /\ c # NoClaim
      /\ c.sent
      /\ delivered' = [delivered EXCEPT ![c.order] = [delivered[c.order] EXCEPT ![c.dest] = TRUE]]
      /\ claim' = [claim EXCEPT ![w] = NoClaim]
      /\ UNCHANGED <<status, office, stock, moneyRows, moneyNet, stockRows, stockNet, notice>>
      /\ UNCHANGED <<otherVars, due, posted, faults>>

\* The process dies, or the twenty seconds are over: rolled back.
WorkerCrash(w) ==
  /\ claim[w] # NoClaim
  /\ faults < MaxFaults
  /\ faults' = faults + 1
  /\ claim' = [claim EXCEPT ![w] = NoClaim]
  /\ UNCHANGED <<vars, due, posted>>

\* Fault: the rows of a cancelled order are not tried again.
OnlyLiveOrders(o, d) ==
  /\ ~due[o][d]
  /\ notice[o][d] # "none"
  /\ ~delivered[o][d]
  /\ status[o] # "cancelled"
  /\ due' = [due EXCEPT ![o] = [@ EXCEPT ![d] = TRUE]]
  /\ UNCHANGED <<vars, claim, posted, faults>>

AttemptDue(o, d) ==
  /\ ~due[o][d]
  /\ notice[o][d] # "none"
  /\ ~delivered[o][d]
  /\ due' = [due EXCEPT ![o] = [@ EXCEPT ![d] = TRUE]]
  /\ UNCHANGED <<vars, claim, posted, faults>>

DeliveryNext ==
  \/ \E o \in Orders : SaveOrder(o) /\ UNCHANGED deliveryVars
  \/ \E o \in Orders, target \in Statuses : SettleAndQueue(o, target)
  \/ \E w \in Workers, o \in Orders, d \in Destinations : Claim(w, o, d)
  \/ \E w \in Workers :
       SendAccepted(w) \/ SendRefused(w) \/ AnswerLost(w) \/ RecordDelivery(w) \/ WorkerCrash(w)
  \/ \E o \in Orders, d \in Destinations : AttemptDue(o, d)

\* The ticker comes back every minute and takes the longest due row first, so
\* every row is claimed again and again; Discord does not refuse one for ever.
DeliveryFairness ==
  /\ \A o \in Orders, d \in Destinations :
       /\ WF_wholeVars(AttemptDue(o, d))
       /\ SF_wholeVars(\E w \in Workers : Claim(w, o, d))
       /\ SF_wholeVars(\E w \in Workers : /\ claim[w] # NoClaim
                                        /\ claim[w].order = o
                                        /\ claim[w].dest = d
                                        /\ SendAccepted(w))
  /\ \A w \in Workers : WF_wholeVars(RecordDelivery(w))

DeliverySpec == DeliveryInit /\ [][DeliveryNext]_wholeVars /\ DeliveryFairness

-----------------------------------------------------------------------------
DeliveryTypeOK ==
  /\ TypeOK
  /\ claim \in [Workers -> ClaimSet \cup {NoClaim}]
  /\ due \in [Orders -> [Destinations -> BOOLEAN]]
  /\ posted \in [Orders -> [Destinations -> [Embeds -> Nat]]]
  /\ faults \in 0..MaxFaults

(***************************************************************************)
(* An embed that is recorded as delivered was posted, in the form that is  *)
(* recorded; and it is posted once, and once more only for a crash or an   *)
(* answer lost after Discord took it: retries and a second worker never    *)
(* repeat a confirmed delivery (deliverOrderNotification,                  *)
(* queueOrderMovement).                                                    *)
(***************************************************************************)
DeliveredOnce ==
  \A o \in Orders, d \in Destinations :
    /\ delivered[o][d] => posted[o][d][notice[o][d]] > 0
    /\ posted[o][d]["posted"] + posted[o][d]["reversed"] <=
         faults + (IF notice[o][d] = "none" THEN 0 ELSE IF notice[o][d] = "posted" THEN 1 ELSE 2)

\* Once the channel has been told of a reversal, the movement it reversed is
\* not announced after it, however late a worker runs.
ReversalIsLast ==
  [][\A o \in Orders, d \in Destinations :
       posted'[o][d]["posted"] > posted[o][d]["posted"] =>
         posted[o][d]["reversed"] = 0]_wholeVars

\* Every embed queued is delivered in the end, through refusals and crashes.
QueuedIsDelivered ==
  \A o \in Orders, d \in Destinations :
    (notice[o][d] # "none" /\ ~delivered[o][d]) ~> delivered[o][d]
=============================================================================
