---------------------------- MODULE PackDelivery ----------------------------
(***************************************************************************)
(* What the pipeline promises about each Intelligence Pack, whatever the   *)
(* queues, retries, crashes and deletions do: it is planned, its file is   *)
(* stored, it is delivered and it is charged, in that order, each once and *)
(* for good.  Delivered means that the row names the file.                 *)
(***************************************************************************)
EXTENDS Naturals

CONSTANT Runs

VARIABLES planned, stored, delivered, charges

deliveryVars == <<planned, stored, delivered, charges>>

DeliveryInit ==
    /\ planned = {} /\ stored = {} /\ delivered = {}
    /\ charges = [r \in Runs |-> 0]

Plan(r) ==
    /\ r \notin planned
    /\ planned' = planned \cup {r}
    /\ UNCHANGED <<stored, delivered, charges>>

Store(r) ==
    /\ r \in planned \ stored
    /\ stored' = stored \cup {r}
    /\ UNCHANGED <<planned, delivered, charges>>

Deliver(r) ==
    /\ r \in stored \ delivered
    /\ delivered' = delivered \cup {r}
    /\ UNCHANGED <<planned, stored, charges>>

Charge(r) ==
    /\ r \in delivered /\ charges[r] = 0
    /\ charges' = [charges EXCEPT ![r] = 1]
    /\ UNCHANGED <<planned, stored, delivered>>

DeliveryNext == \E r \in Runs : Plan(r) \/ Store(r) \/ Deliver(r) \/ Charge(r)

DeliverySpec == DeliveryInit /\ [][DeliveryNext]_deliveryVars
=============================================================================
