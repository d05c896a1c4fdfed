-------------------------- MODULE MCOrderDelivery --------------------------
(* One sale, settled or cancelled while two workers deliver its embeds.      *)
EXTENDS OrderDelivery

CONSTANTS sale, pistol

MCDirection == [o \in {sale} |-> "sale"]
MCTotal == [o \in {sale} |-> 1]
MCUnits == [o \in {sale} |-> [i \in {pistol} |-> 1]]
=============================================================================
