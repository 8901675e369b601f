------------------------- MODULE CreditLedgerProofs -------------------------
(***************************************************************************)
(* The credits of a user, for any number of requests: the columns of the   *)
(* row agree although spends overlap, and requests that do not overlap     *)
(* implement CreditAccount.                                                *)
(***************************************************************************)
EXTENDS CreditLedger, TLAPS

\* The states of the row in memory.
LEMMA RowTypes == NoRow \in Balance /\ NewRow \in Balance
<1>1. FreeCredits \in Int
  BY CreditAssumption
<1>2. NoRow \in Balance
  BY DEF NoRow, Balance
<1>3. QED
  BY <1>1, <1>2 DEF NewRow, Balance

\* What check_and_spend and add_credits make of a row.
LEMMA AppliedType ==
    ASSUME NEW seen \in Balance,
           NEW op \in [type : {"balance", "spend", "purchase", "earned"}, amount : Nat]
    PROVE  Applied(seen, op) \in Balance
<1>1. op.amount \in Nat /\ seen.balance \in Int
      /\ seen.spent \in Nat /\ seen.purchased \in Nat /\ seen.earned \in Nat
  BY DEF Balance
<1>2. /\ seen.balance - op.amount \in Int /\ seen.balance + op.amount \in Int
      /\ seen.spent + op.amount \in Nat /\ seen.purchased + op.amount \in Nat
      /\ seen.earned + op.amount \in Nat
  BY <1>1
<1>3. CASE op.type = "spend"
  BY <1>2, <1>3 DEF Applied, Balance
<1>4. CASE op.type = "purchase"
  BY <1>2, <1>4 DEF Applied, Balance
<1>5. CASE op.type = "earned"
  BY <1>2, <1>5 DEF Applied, Balance
<1>6. CASE op.type = "balance"
  BY <1>6 DEF Applied
<1>7. QED
  BY <1>3, <1>4, <1>5, <1>6

\* A flush leaves a row.
LEMMA FlushedType ==
    ASSUME row \in Balance, NEW seen \in Balance, NEW new \in Balance
    PROVE  Flushed(seen, new) \in Balance
BY DEF Flushed, Column, Balance

\* A request is for something with an amount.
LEMMA OpType == Op \subseteq [type : {"balance", "spend", "purchase", "earned"}, amount : Nat]
<1> SUFFICES ASSUME NEW op \in Op
             PROVE  op \in [type : {"balance", "spend", "purchase", "earned"}, amount : Nat]
  OBVIOUS
<1>1. CASE op \in [type : {"balance"}, amount : {0}]
  BY <1>1
<1>2. CASE op \in [type : {"spend"}, amount : Costs]
  <2>1. op.amount \in Nat
    BY <1>2, CreditAssumption
  <2>2. QED
    BY <1>2, <2>1
<1>3. CASE op \in [type : {"purchase", "earned"}, amount : Grants]
  <2>1. op.amount \in Nat
    BY <1>3, CreditAssumption
  <2>2. QED
    BY <1>3, <2>1
<1>4. QED
  BY <1>1, <1>2, <1>3 DEF Op

LEMMA TypeStep == TypeOK /\ [Next]_creditVars => TypeOK'
<1> SUFFICES ASSUME TypeOK, [Next]_creditVars PROVE TypeOK'
  OBVIOUS
<1> USE DEF TypeOK
<1>1. ASSUME NEW q \in Requests, Begin(q) PROVE TypeOK'
  BY <1>1, OpType DEF Begin
<1>2. ASSUME NEW q \in Requests, Provision(q) PROVE TypeOK'
  BY <1>2, RowTypes, ZenonT(60) DEF Provision
<1>3. ASSUME NEW q \in Requests, Commit(q) PROVE TypeOK'
  <2> DEFINE new == Applied(request[q].seen, request[q].op)
  <2>1. new \in Balance /\ Flushed(request[q].seen, new) \in Balance
    BY AppliedType, FlushedType
  <2>2. row' \in Balance
    BY <1>3, <2>1 DEF Commit
  <2>3. request[q].op.amount \in Int /\ -request[q].op.amount \in Int
    OBVIOUS
  <2>4. ledger' \in [Requests -> Int]
    BY <1>3, <2>3 DEF Commit
  <2>5. QED
    BY <1>3, <2>2, <2>4 DEF Commit
<1>4. ASSUME NEW q \in Requests, Refuse(q) \/ Abort(q) PROVE TypeOK'
  BY <1>4, ZenonT(60) DEF Refuse, Abort
<1>5. CASE UNCHANGED creditVars
  BY <1>5 DEF creditVars
<1>6. QED
  BY <1>1, <1>2, <1>3, <1>4, <1>5 DEF Next

LEMMA TypeInit == Init => TypeOK
BY RowTypes DEF Init, TypeOK, NoOp

\* Rows, ledger entries and requests keep their types.
THEOREM CreditTypes == Spec => []TypeOK
BY TypeInit, TypeStep, PTL DEF Spec

-----------------------------------------------------------------------------
(* Only spends, which may overlap.                                         *)

\* A spend that is let through keeps the columns of a row in agreement.
LEMMA AppliedAgrees ==
    ASSUME NEW seen \in Balance, SpendOnly(seen), seen.exists,
           NEW op \in [type : {"balance", "spend"}, amount : Nat],
           op.type = "spend" => seen.balance >= op.amount
    PROVE  SpendOnly(Applied(seen, op)) /\ Applied(seen, op).exists
<1>1. op.amount \in Nat /\ seen.balance \in Int /\ seen.spent \in Nat
  BY DEF Balance
<1>2. CASE op.type = "spend"
  <2>1. /\ Applied(seen, op).balance = seen.balance - op.amount
        /\ Applied(seen, op).spent = seen.spent + op.amount
        /\ Applied(seen, op).purchased = seen.purchased
        /\ Applied(seen, op).earned = seen.earned
        /\ Applied(seen, op).exists = seen.exists
    BY <1>2 DEF Applied, Balance
  <2>2. FreeCredits \in Int
    BY CreditAssumption
  <2>3. QED
    BY <1>1, <1>2, <2>1, <2>2 DEF SpendOnly, Agrees, Balance
<1>3. CASE op.type = "balance"
  BY <1>3 DEF Applied
<1>4. QED
  BY <1>2, <1>3

\* balance and lifetime_spent are written both, or neither.
LEMMA FlushedAgrees ==
    ASSUME row \in Balance, SpendOnly(row), row.exists,
           NEW seen \in Balance, SpendOnly(seen), seen.exists,
           NEW new \in Balance, SpendOnly(new), new.exists
    PROVE  SpendOnly(Flushed(seen, new))
<1>1. /\ row.balance \in Int /\ row.spent \in Nat
      /\ seen.balance \in Int /\ seen.spent \in Nat
      /\ new.balance \in Int /\ new.spent \in Nat
      /\ FreeCredits \in Int
  BY CreditAssumption DEF Balance
<1>2. /\ row.balance = FreeCredits - row.spent
      /\ seen.balance = FreeCredits - seen.spent
      /\ new.balance = FreeCredits - new.spent
      /\ row.balance >= 0 /\ new.balance >= 0
  BY <1>1 DEF SpendOnly, Agrees
<1>3. /\ row.purchased = 0 /\ row.earned = 0
      /\ seen.purchased = 0 /\ seen.earned = 0
      /\ new.purchased = 0 /\ new.earned = 0
  BY DEF SpendOnly
<1>4. CASE new.spent = seen.spent
  BY <1>1, <1>2, <1>3, <1>4 DEF Flushed, Column, SpendOnly, Agrees
<1>5. CASE new.spent # seen.spent
  <2>1. new.balance # seen.balance
    BY <1>1, <1>2, <1>5
  <2>2. QED
    BY <1>1, <1>2, <1>3, <1>5, <2>1 DEF Flushed, Column, SpendOnly, Agrees
<1>6. QED
  BY <1>4, <1>5

LEMMA SpendOnlyInit == Init => SpendOnlyInv
<1> SUFFICES ASSUME Init PROVE SpendOnlyInv
  OBVIOUS
<1>1. SpendOnly(NoRow)
  BY DEF SpendOnly, Agrees, NoRow
<1>2. QED
  BY <1>1, TypeInit DEF Init, SpendOnlyInv, LoadedExists, NoOp

LEMMA SpendOnlyStep == ~DemoMode /\ SpendOnlyInv /\ [Next]_creditVars => SpendOnlyInv'
<1> SUFFICES ASSUME ~DemoMode, SpendOnlyInv, [Next]_creditVars PROVE SpendOnlyInv'
  OBVIOUS
<1> USE DEF SpendOnlyInv
<1>0. TypeOK /\ TypeOK'
  BY TypeStep
<1>1. ASSUME NEW q \in Requests, Begin(q) PROVE SpendOnlyInv'
  <2>1. PICK op \in Op :
           request' = [request EXCEPT ![q] =
              [pc |-> IF row.exists THEN "loaded" ELSE "insert", op |-> op, seen |-> row]]
    BY <1>1 DEF Begin
  <2>2. op.type \in {"balance", "spend"}
    BY DEF Op
  <2>3. row' = row
    BY <1>1 DEF Begin
  <2>4. QED
    BY <1>0, <2>1, <2>2, <2>3 DEF LoadedExists, TypeOK, SpendOnly, Agrees
<1>2. ASSUME NEW q \in Requests, Provision(q) PROVE SpendOnlyInv'
  <2>1. SpendOnly(NewRow) /\ NewRow.exists
    <3>1. /\ NewRow.exists /\ NewRow.balance = FreeCredits
          /\ NewRow.purchased = 0 /\ NewRow.spent = 0 /\ NewRow.earned = 0
      BY DEF NewRow, NoRow
    <3>2. FreeCredits \in Nat
      BY CreditAssumption
    <3>3. QED
      BY <3>1, <3>2 DEF SpendOnly, Agrees
  <2>2. row' = row
    BY <1>2 DEF Provision
  <2>3. QED
    BY <1>0, <1>2, <2>1, <2>2 DEF Provision, LoadedExists, TypeOK, SpendOnly, Agrees
<1>3. ASSUME NEW q \in Requests, Commit(q) PROVE SpendOnlyInv'
  <2> DEFINE seen == request[q].seen
             op == request[q].op
             new == Applied(request[q].seen, request[q].op)
  <2>1. /\ seen \in Balance /\ SpendOnly(seen) /\ seen.exists
        /\ op \in [type : {"balance", "spend"}, amount : Nat]
        /\ op.type = "spend" => seen.balance >= op.amount
    BY <1>0, <1>3 DEF Commit, Enough, LoadedExists, TypeOK
  <2>2. new \in Balance /\ SpendOnly(new) /\ new.exists
    BY <1>0, <2>1, AppliedType, AppliedAgrees DEF TypeOK
  <2>a. \A p \in Requests : /\ request'[p].seen = request[p].seen
                            /\ request'[p].op = request[p].op
                            /\ request'[p].pc = request[p].pc \/ request'[p].pc = "done"
    <3>1. request' = [request EXCEPT ![q].pc = "done"]
      BY <1>3 DEF Commit
    <3>2. QED
      BY <1>0, <3>1 DEF TypeOK
  <2>b. ASSUME SpendOnly(row'), row'.exists PROVE SpendOnlyInv'
    <3>1. LoadedExists'
      BY <2>a, <2>b DEF LoadedExists
    <3>2. QED
      BY <1>0, <2>a, <2>b, <3>1 DEF SpendOnly, Agrees
  <2>3. CASE request[q].pc = "loaded"
    <3>1. row' = Flushed(seen, new) /\ row.exists
      BY <1>3, <2>3 DEF Commit, LoadedExists
    <3>2. SpendOnly(row') /\ row'.exists
      BY <1>0, <2>1, <2>2, <3>1, FlushedAgrees DEF TypeOK, Flushed
    <3>3. QED
      BY <2>b, <3>2
  <2>4. CASE request[q].pc = "provisioned"
    <3>1. row' = new
      BY <1>3, <2>4 DEF Commit
    <3>2. SpendOnly(row') /\ row'.exists
      BY <2>2, <3>1
    <3>3. QED
      BY <2>b, <3>2
  <2>5. QED
    BY <1>3, <2>3, <2>4 DEF Commit
<1>4. ASSUME NEW q \in Requests, Refuse(q) \/ Abort(q) PROVE SpendOnlyInv'
  <2>1. row' = row
    BY <1>4 DEF Refuse, Abort
  <2>2. PICK pc \in {"refused", "failed"} : request' = [request EXCEPT ![q].pc = pc]
    BY <1>4 DEF Refuse, Abort
  <2>3. \A p \in Requests : /\ request'[p].seen = request[p].seen
                            /\ request'[p].op = request[p].op
                            /\ request'[p].pc = request[p].pc \/ request'[p].pc = pc
    BY <1>0, <2>2 DEF TypeOK
  <2>4. LoadedExists'
    BY <2>1, <2>3 DEF LoadedExists
  <2>5. QED
    BY <1>0, <2>1, <2>3, <2>4 DEF SpendOnly, Agrees
<1>5. CASE UNCHANGED creditVars
  BY <1>0, <1>5 DEF creditVars, LoadedExists, SpendOnly, Agrees
<1>6. QED
  BY <1>1, <1>2, <1>3, <1>4, <1>5 DEF Next

\* With /credits/add closed (demo_mode off), balance and lifetime_spent of the row agree
\* and the balance is not negative, although check_and_spend takes no lock.
THEOREM TotalsAgreeWithoutGrants == ASSUME ~DemoMode PROVE Spec => []TotalsAgree
<1>1. SpendOnlyInv => TotalsAgree
  BY DEF SpendOnlyInv, SpendOnly, TotalsAgree
<1>2. SpendOnlyInv /\ [Next]_creditVars => SpendOnlyInv'
  BY SpendOnlyStep
<1>3. QED
  BY <1>1, <1>2, SpendOnlyInit, PTL DEF Spec

-----------------------------------------------------------------------------
(* Requests that do not overlap.                                           *)

\* A request is open in three of its states.
LEMMA OpenStates ==
    ASSUME NEW q \in Requests
    PROVE  Open(q) <=> request[q].pc \in {"insert", "loaded", "provisioned"}
BY DEF Open

LEMMA SerialInit == Init => SerialInv
<1> SUFFICES ASSUME Init PROVE SerialInv
  OBVIOUS
<1>1. NoOp \in Op
  BY DEF NoOp, Op
<1>2. Credits >= 0
  BY CreditAssumption DEF Init, Credits, NoRow
<1>3. QED
  BY <1>1, <1>2, TypeInit DEF Init, SerialInv, Open

\* What the commit of a request that is alone does: one entry, on the balance it read.
LEMMA SerialCommit ==
    ASSUME SerialInv, NEW q \in Requests, Commit(q)
    PROVE  /\ row'.exists /\ Credits' \in Nat
           /\ ledger[q] = 0
           /\ ledger' = [ledger EXCEPT ![q] = Credits' - Credits]
<1> USE DEF SerialInv
<1> DEFINE seen == request[q].seen
           op == request[q].op
           new == Applied(request[q].seen, request[q].op)
<1>1. /\ TypeOK /\ row \in Balance /\ seen \in Balance /\ op \in Op
      /\ request[q].pc \in {"loaded", "provisioned"}
  BY DEF TypeOK, Commit
<1>2. /\ seen.exists /\ seen.balance = Credits /\ Credits \in Nat
  <2>1. CASE request[q].pc = "loaded"
    BY <1>1, <2>1 DEF Credits, Balance
  <2>2. CASE request[q].pc = "provisioned"
    <3>1. ~row.exists /\ seen = NewRow
      BY <2>2
    <3>2. QED
      BY <3>1, CreditAssumption DEF Credits, NewRow, NoRow
  <2>3. QED
    BY <1>1, <2>1, <2>2
<1>3. op.amount \in Nat /\ -op.amount \in Int
  BY <1>1, OpType
<1>4. /\ new.exists
      /\ new.balance = Credits + (IF op.type = "spend" THEN -op.amount ELSE op.amount)
      /\ new.balance \in Nat
  <2>1. CASE op.type = "spend"
    <3>1. seen.balance >= op.amount
      BY <2>1 DEF Commit, Enough
    <3>2. new.exists = seen.exists /\ new.balance = seen.balance - op.amount
      BY <1>1, <2>1 DEF Applied, Balance
    <3>3. QED
      BY <1>2, <1>3, <2>1, <3>1, <3>2
  <2>2. CASE op.type \in {"purchase", "earned"}
    <3>1. new.exists = seen.exists /\ new.balance = seen.balance + op.amount
      BY <1>1, <2>2 DEF Applied, Balance
    <3>2. QED
      BY <1>2, <1>3, <2>2, <3>1
  <2>3. CASE op.type = "balance"
    <3>1. new = seen
      BY <2>3 DEF Applied
    <3>2. op.amount = 0
      BY <1>1, <2>3 DEF Op
    <3>3. QED
      BY <1>2, <2>3, <3>1, <3>2
  <2>4. QED
    BY <1>1, <2>1, <2>2, <2>3, OpType
<1>5. row'.exists /\ row'.balance = new.balance
  <2>1. CASE request[q].pc = "loaded"
    BY <1>4, <2>1 DEF Commit, Flushed, Column
  <2>2. CASE request[q].pc = "provisioned"
    BY <1>4, <2>2 DEF Commit
  <2>3. QED
    BY <1>1, <2>1, <2>2
<1>6. Credits' = new.balance
  BY <1>5 DEF Credits
<1>7. Credits' - Credits = (IF op.type = "spend" THEN -op.amount ELSE op.amount)
  BY <1>2, <1>3, <1>4, <1>6
<1>8. ledger' = [ledger EXCEPT ![q] = Credits' - Credits]
  BY <1>7 DEF Commit
<1>9. QED
  BY <1>1, <1>4, <1>5, <1>6, <1>8

\* What SerialInv says of one request, for a row and a ledger entry.
Fits(r, entry, current) ==
    /\ r.pc = "insert" => ~current.exists
    /\ r.pc = "loaded" => current.exists /\ r.seen = current
    /\ r.pc = "provisioned" => ~current.exists /\ r.seen = NewRow
    /\ r.pc # "done" => entry = 0
    /\ r.op \in Op

\* A step that moves the one open request on, or closes it, and writes nothing.
LEMMA SerialMove ==
    ASSUME SerialInv, TypeOK', NEW q \in Requests,
           row' = row, ledger' = ledger, ledger[q] = 0,
           \A p \in Requests \ {q} : request'[p] = request[p],
           \A p \in Requests \ {q} : Open(p) => ~Open(q)',
           Fits(request'[q], 0, row)
    PROVE  SerialInv'
<1> USE DEF SerialInv
<1>1. \A p, r \in Requests : Open(p)' /\ Open(r)' => p = r
  BY DEF Open
<1>2. Credits' = Credits
  BY DEF Credits
<1>3. QED
  BY <1>1, <1>2 DEF Fits

LEMMA SerialStep == ~Overlap /\ SerialInv /\ [Next]_creditVars => SerialInv'
<1> SUFFICES ASSUME ~Overlap, SerialInv, [Next]_creditVars PROVE SerialInv'
  OBVIOUS
<1>0. TypeOK /\ TypeOK'
  BY TypeStep DEF SerialInv
<1>1. ASSUME NEW q \in Requests, Begin(q) PROVE SerialInv'
  <2>1. PICK op \in Op :
           request' = [request EXCEPT ![q] =
              [pc |-> IF row.exists THEN "loaded" ELSE "insert", op |-> op, seen |-> row]]
    BY <1>1 DEF Begin
  <2>2. /\ row' = row /\ ledger' = ledger /\ ledger[q] = 0
        /\ \A p \in Requests : ~Open(p)
    BY <1>1 DEF Begin, SerialInv
  <2>3. Fits(request'[q], 0, row) /\ \A p \in Requests \ {q} : request'[p] = request[p]
    BY <1>0, <2>1 DEF Fits, TypeOK
  <2>4. QED
    BY <1>0, <2>2, <2>3, SerialMove
<1>2. ASSUME NEW q \in Requests, Provision(q) PROVE SerialInv'
  <2>1. /\ row' = row /\ ledger' = ledger /\ ledger[q] = 0 /\ Open(q) /\ ~row.exists
        /\ request' = [request EXCEPT ![q].pc = "provisioned", ![q].seen = NewRow]
    BY <1>2 DEF Provision, SerialInv, Open
  <2>2. \A p \in Requests \ {q} : ~Open(p)
    BY <2>1 DEF SerialInv
  <2>3. Fits(request'[q], 0, row) /\ \A p \in Requests \ {q} : request'[p] = request[p]
    BY <1>0, <2>1 DEF Fits, TypeOK, SerialInv
  <2>4. QED
    BY <1>0, <2>1, <2>2, <2>3, SerialMove
<1>3. ASSUME NEW q \in Requests, Commit(q) PROVE SerialInv'
  <2>1. row'.exists /\ Credits' \in Nat
    BY <1>3, SerialCommit
  <2>2. Open(q) /\ request' = [request EXCEPT ![q].pc = "done"]
    BY <1>3 DEF Commit, Open
  <2>3. \A p \in Requests \ {q} : ~Open(p) /\ request'[p] = request[p] /\ ledger'[p] = ledger[p]
    BY <1>0, <1>3, <2>2 DEF SerialInv, TypeOK, Commit
  <2>4. request'[q].pc = "done" /\ request'[q].op = request[q].op
    BY <1>0, <2>2 DEF TypeOK
  <2>5. \A p \in Requests : ~Open(p)'
    BY <2>3, <2>4 DEF Open
  <2>6. \A p \in Requests : /\ request'[p].pc # "done" => ledger'[p] = 0
                            /\ request'[p].op \in Op
    BY <2>3, <2>4 DEF SerialInv
  <2>7. QED
    BY <1>0, <2>1, <2>5, <2>6 DEF SerialInv, Open
<1>4. ASSUME NEW q \in Requests, Refuse(q) \/ Abort(q) PROVE SerialInv'
  <2>1. /\ row' = row /\ ledger' = ledger /\ ledger[q] = 0
    BY <1>4 DEF Refuse, Abort, SerialInv, Open
  <2>2. PICK pc \in {"refused", "failed"} : request' = [request EXCEPT ![q].pc = pc]
    BY <1>4 DEF Refuse, Abort
  <2>3. /\ Fits(request'[q], 0, row) /\ request'[q].pc \in {"refused", "failed"}
        /\ \A p \in Requests \ {q} : request'[p] = request[p]
    BY <1>0, <2>2 DEF Fits, TypeOK, SerialInv
  <2>4. ~Open(q)'
    BY <2>3 DEF Open
  <2>5. QED
    BY <1>0, <2>1, <2>3, <2>4, SerialMove
<1>5. CASE UNCHANGED creditVars
  BY <1>0, <1>5 DEF creditVars, SerialInv, Open, Credits
<1>6. QED
  BY <1>1, <1>2, <1>3, <1>4, <1>5 DEF Next

\* Commit is Post of CreditAccount, or a stutter when nothing was spent or added; every
\* other step leaves the account alone.
LEMMA AccountStep ==
    SerialInv /\ [Next]_creditVars => [Account!Next]_Account!accountVars
<1> SUFFICES ASSUME SerialInv, [Next]_creditVars
             PROVE  [Account!Next]_Account!accountVars
  OBVIOUS
<1>1. ASSUME NEW q \in Requests, Commit(q)
      PROVE  [Account!Next]_Account!accountVars
  <2>1. /\ Credits' \in Nat /\ ledger[q] = 0
        /\ ledger' = [ledger EXCEPT ![q] = Credits' - Credits]
    BY <1>1, SerialCommit
  <2>2. CASE Credits' = Credits
    <3>1. Credits \in Int /\ ledger \in [Requests -> Int]
      BY <2>1, <2>2 DEF SerialInv, TypeOK
    <3>2. Credits' - Credits = 0
      BY <2>2, <3>1
    <3>3. ledger' = ledger
      BY <2>1, <3>1, <3>2
    <3>4. QED
      BY <2>2, <3>3 DEF Account!accountVars
  <2>3. CASE Credits' # Credits
    BY <2>1, <2>3 DEF Account!Next, Account!Post
  <2>4. QED
    BY <2>2, <2>3
<1>2. ASSUME NEW q \in Requests, Begin(q) \/ Provision(q) \/ Refuse(q) \/ Abort(q)
      PROVE  UNCHANGED Account!accountVars
  BY <1>2 DEF Begin, Provision, Refuse, Abort, Account!accountVars, Credits
<1>3. CASE UNCHANGED creditVars
  BY <1>3 DEF creditVars, Account!accountVars, Credits
<1>4. QED
  BY <1>1, <1>2, <1>3 DEF Next

\* Requests of a user that do not overlap keep an account: entries add up to the balance
\* and nothing is spent that is not there (check_and_spend, add_credits, get_balance).
THEOREM SerialAccount == ASSUME ~Overlap PROVE Spec => ImplementsAccount
<1>1. Init => Account!Init
  BY DEF Init, Account!Init, Credits, NoRow
<1>2. SerialInv /\ [Next]_creditVars => SerialInv'
  BY SerialStep
<1>3. QED
  BY <1>1, <1>2, SerialInit, AccountStep, PTL DEF Spec, ImplementsAccount, Account!Spec
=============================================================================
