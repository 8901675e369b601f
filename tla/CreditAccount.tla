--------------------------- MODULE CreditAccount ---------------------------
(***************************************************************************)
(* What the credit system promises about one user's account: credits are   *)
(* posted one after the other, each on the balance the last one left, and  *)
(* nothing is spent that is not there.                                     *)
(***************************************************************************)
EXTENDS Integers

CONSTANTS Requests, FreeCredits

VARIABLES
    balance,  \* the credits there are
    posted    \* the amount each request has posted, 0 if it has not

accountVars == <<balance, posted>>

Init == balance = FreeCredits /\ posted = [q \in Requests |-> 0]

Post(q) ==
    /\ posted[q] = 0
    /\ balance' \in Nat \ {balance}
    /\ posted' = [posted EXCEPT ![q] = balance' - balance]

Next == \E q \in Requests : Post(q)

Spec == Init /\ [][Next]_accountVars
=============================================================================
