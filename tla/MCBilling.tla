----------------------------- MODULE MCBilling -----------------------------
(* Model checking of the subscription.  A behaviour exercises one of two    *)
(* things: the mirror, with a second change and a repeated event, or the    *)
(* quota on top of it, with packs under way while renewals and one change   *)
(* come in.                                                                 *)
EXTENDS SubscriptionQuota
LOCAL INSTANCE TLC

VARIABLE part   \* what this behaviour exercises

MCVars == <<now, stripe, held, event, sent, row, checkout, customers, hook, count, pack, part>>

MCInit == QuotaInit /\ part \in {"mirror", "quota"}

\* Beside packs, one change and no repeated event.
OneChange == count'["change"] <= 1 /\ count'["repeat"] = 0

MCNext ==
    /\ UNCHANGED part
    /\ \/ part = "mirror" /\ Next /\ UNCHANGED pack
       \/ part = "quota" /\ QuotaNext /\ OneChange

MCSpec == MCInit /\ [][MCNext]_MCVars

\* Checkouts are alike, and so are packs.
MCSymmetry == Permutations(Checkouts) \cup Permutations(Packs)

\* A pack for each period, paid or not.
MCPacksPerMonth == [free |-> 1, starter |-> 1]
=============================================================================
