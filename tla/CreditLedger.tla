---------------------------- MODULE CreditLedger ----------------------------
(***************************************************************************)
(* The credits of one user (app/services/billing/credit_service.py,        *)
(* app/api/routes/credits.py): a row of credit_balances, the ledger        *)
(* credit_transactions, and requests that read the row, decide and write   *)
(* it in a transaction at READ COMMITTED, without a row lock on the read.  *)
(***************************************************************************)
EXTENDS Integers, Functions

CONSTANTS
    Requests,     \* requests of the user
    Costs,        \* the credits actions cost (ACTION_COSTS)
    Grants,       \* amounts that may be added
    DemoMode,     \* settings.demo_mode: /credits/add is open
    Overlap,      \* whether the user's requests may run at the same time
    FreeCredits   \* credits of a new balance

ASSUME CreditAssumption ==
    /\ Costs \subseteq Nat \ {0}
    /\ Grants \subseteq Nat \ {0}
    /\ DemoMode \in BOOLEAN
    /\ Overlap \in BOOLEAN
    /\ FreeCredits \in Nat

VARIABLES
    row,      \* the row of credit_balances
    ledger,   \* the credit_transactions row of each request: its amount, or 0
    request   \* progress of the requests

creditVars == <<row, ledger, request>>

Balance == [exists : BOOLEAN, balance : Int, purchased : Nat, spent : Nat, earned : Nat]

NoRow == [exists |-> FALSE, balance |-> 0, purchased |-> 0, spent |-> 0, earned |-> 0]

\* The row get_balance adds for a new user.
NewRow == [NoRow EXCEPT !.exists = TRUE, !.balance = FreeCredits]

\* What a request is for: GET /balance, POST /spend or POST /add.
Op ==  [type : {"balance"}, amount : {0}]
       \cup [type : {"spend"}, amount : Costs]
       \cup (IF DemoMode THEN [type : {"purchase", "earned"}, amount : Grants] ELSE {})

NoOp == [type |-> "balance", amount |-> 0]

\* The request has rows in memory and a transaction open.
Open(q) == request[q].pc \in {"insert", "loaded", "provisioned"}

-----------------------------------------------------------------------------
\* get_balance: the SELECT.
Begin(q) ==
    /\ request[q].pc = "none"
    /\ Overlap \/ \A p \in Requests : ~Open(p)
    /\ \E op \in Op :
          request' = [request EXCEPT ![q] =
              [pc |-> IF row.exists THEN "loaded" ELSE "insert", op |-> op, seen |-> row]]
    /\ UNCHANGED <<row, ledger>>

\* get_balance: the INSERT of a new row.  It waits for another request's uncommitted
\* one, and fails (500) if a row of the user was committed since the SELECT.
Provision(q) ==
    /\ request[q].pc = "insert"
    /\ \A p \in Requests : request[p].pc # "provisioned"
    /\ request' = IF row.exists
                  THEN [request EXCEPT ![q].pc = "failed"]
                  ELSE [request EXCEPT ![q].pc = "provisioned", ![q].seen = NewRow]
    /\ UNCHANGED <<row, ledger>>

\* The row in memory after check_and_spend or add_credits.
Applied(seen, op) ==
    CASE op.type = "spend"    -> [seen EXCEPT !.balance = @ - op.amount, !.spent = @ + op.amount]
      [] op.type = "purchase" -> [seen EXCEPT !.balance = @ + op.amount, !.purchased = @ + op.amount]
      [] op.type = "earned"   -> [seen EXCEPT !.balance = @ + op.amount, !.earned = @ + op.amount]
      [] OTHER                -> seen

\* A column after a flush by a transaction that read seen and wants new.
Column(current, seen, new) == IF new = seen THEN current ELSE new

Flushed(seen, new) ==
    [exists    |-> TRUE,
     balance   |-> Column(row.balance, seen.balance, new.balance),
     purchased |-> Column(row.purchased, seen.purchased, new.purchased),
     spent     |-> Column(row.spent, seen.spent, new.spent),
     earned    |-> Column(row.earned, seen.earned, new.earned)]

\* A bug check_and_spend could have: any credit is enough.
EnoughForOne(q) == request[q].op.type = "spend" => request[q].seen.balance >= 1

\* Whether check_and_spend lets the request through.
Enough(q) == request[q].op.type = "spend" => request[q].seen.balance >= request[q].op.amount

\* A bug this could have: lifetime_spent is only kept for a row that was there.
CommitUnspent(q) ==
    /\ request[q].pc \in {"loaded", "provisioned"}
    /\ Enough(q)
    /\ LET new == Applied(request[q].seen, request[q].op)
       IN  row' = IF request[q].pc = "provisioned" THEN [new EXCEPT !.spent = 0]
                  ELSE Flushed(request[q].seen, new)
    /\ ledger' = [ledger EXCEPT ![q] = IF request[q].op.type = "spend"
                                       THEN -request[q].op.amount
                                       ELSE request[q].op.amount]
    /\ request' = [request EXCEPT ![q].pc = "done"]

\* The rest of the request: the row and the ledger entry are written and committed.
Commit(q) ==
    /\ request[q].pc \in {"loaded", "provisioned"}
    /\ Enough(q)
    /\ LET new == Applied(request[q].seen, request[q].op)
       IN  row' = IF request[q].pc = "provisioned" THEN new
                  ELSE Flushed(request[q].seen, new)
    /\ ledger' = [ledger EXCEPT ![q] = IF request[q].op.type = "spend"
                                       THEN -request[q].op.amount
                                       ELSE request[q].op.amount]
    /\ request' = [request EXCEPT ![q].pc = "done"]

\* InsufficientCreditsError (402): everything is rolled back, a new row too.
Refuse(q) ==
    /\ request[q].pc \in {"loaded", "provisioned"}
    /\ ~Enough(q)
    /\ request' = [request EXCEPT ![q].pc = "refused"]
    /\ UNCHANGED <<row, ledger>>

\* The request dies or the database fails it: rolled back.
Abort(q) ==
    /\ Open(q)
    /\ request' = [request EXCEPT ![q].pc = "failed"]
    /\ UNCHANGED <<row, ledger>>

-----------------------------------------------------------------------------
Init ==
    /\ row = NoRow
    /\ ledger = [q \in Requests |-> 0]
    /\ request = [q \in Requests |-> [pc |-> "none", op |-> NoOp, seen |-> NoRow]]

Next == \E q \in Requests :
    Begin(q) \/ Provision(q) \/ Commit(q) \/ Refuse(q) \/ Abort(q)

Spec == Init /\ [][Next]_creditVars

-----------------------------------------------------------------------------
TypeOK ==
    /\ row \in Balance
    /\ ledger \in [Requests -> Int]
    /\ request \in [Requests ->
           [pc   : {"none", "insert", "loaded", "provisioned", "done", "refused", "failed"},
            op   : [type : {"balance", "spend", "purchase", "earned"}, amount : Nat],
            seen : Balance]]

\* The credits the user has, whether or not the row exists yet.
Credits == IF row.exists THEN row.balance ELSE FreeCredits

(* While requests of the user do not overlap, the row and the ledger are   *)
(* an account: each entry changes the balance by its amount, none lets it  *)
(* go below zero, a refused or failed request leaves no trace.             *)
Account == INSTANCE CreditAccount WITH balance <- Credits, posted <- ledger
ImplementsAccount == Account!Spec

(* The columns of a row agree with each other - and say that no credit was *)
(* overspent - even where overlapping spends lose one another's updates:   *)
(* a spend writes balance and lifetime_spent from the same reading.        *)
Agrees(r) ==
    /\ r.balance >= 0
    /\ r.balance = (IF r.exists THEN FreeCredits ELSE 0) + r.purchased + r.earned - r.spent

TotalsAgree == Agrees(row)

(* models/credits.py: "Balance is enforced before execution": what was     *)
(* spent is covered by the free credits and those added.                   *)
SpendIsCovered == FoldFunctionOnSet(+, FreeCredits, ledger, Requests) >= 0

\* A request that has the row in memory has one that exists.
LoadedExists ==
    \A q \in Requests :
        /\ request[q].pc = "loaded" => row.exists /\ request[q].seen.exists
        /\ request[q].pc = "provisioned" => request[q].seen.exists

\* Why TotalsAgree, where nothing can be added: it holds of what was read as well.
SpendOnly(r) == Agrees(r) /\ r.purchased = 0 /\ r.earned = 0

SpendOnlyInv ==
    /\ TypeOK
    /\ LoadedExists
    /\ SpendOnly(row)
    /\ \A q \in Requests : SpendOnly(request[q].seen)
    /\ \A q \in Requests : request[q].op.type \in {"balance", "spend"}

\* Why ImplementsAccount: an open request, alone, has read what is still there.
SerialInv ==
    /\ TypeOK
    /\ \A p, q \in Requests : Open(p) /\ Open(q) => p = q
    /\ \A q \in Requests :
          /\ request[q].pc = "insert" => ~row.exists
          /\ request[q].pc = "loaded" => row.exists /\ request[q].seen = row
          /\ request[q].pc = "provisioned" => ~row.exists /\ request[q].seen = NewRow
          /\ request[q].pc # "done" => ledger[q] = 0
          /\ request[q].op \in Op
    /\ Credits >= 0
=============================================================================
