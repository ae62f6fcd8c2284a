---------------------------- MODULE DeliveryLedger ----------------------------
(***************************************************************************)
(* What the outbox promises of its deliveries, with no drain, claim, lease  *)
(* or retry in sight: an event owes all of its deliveries at once, each is  *)
(* settled once, as delivered or as failed, and the event leaves as a whole *)
(* and only when it owes nothing.                                           *)
(***************************************************************************)
CONSTANTS Event, Channel

VARIABLE delivery   \* per event and channel: none, owed, delivered, failed

Init == delivery = [e \in Event |-> [c \in Channel |-> "none"]]

Announce(e) ==
  /\ \A c \in Channel : delivery[e][c] = "none"
  /\ \E C \in SUBSET Channel :
       delivery' = [delivery EXCEPT ![e] = [c \in Channel |-> IF c \in C THEN "owed" ELSE "none"]]

Settle(e, c) ==
  /\ delivery[e][c] = "owed"
  /\ \E answer \in {"delivered", "failed"} : delivery' = [delivery EXCEPT ![e][c] = answer]

Retire(gone) ==
  /\ \A e \in gone, c \in Channel : delivery[e][c] # "owed"
  /\ delivery' = [e \in Event |-> IF e \in gone THEN [c \in Channel |-> "none"] ELSE delivery[e]]

Next ==
  \/ \E e \in Event : Announce(e)
  \/ \E e \in Event, c \in Channel : Settle(e, c)
  \/ \E gone \in SUBSET Event : Retire(gone)

Spec == Init /\ [][Next]_delivery
===============================================================================
