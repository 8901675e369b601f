------------------------------- MODULE UserWipe -------------------------------
(* services/user_data_wipe.py: the rows of one user deleted table by table  *)
(* in one transaction that the caller commits.                              *)
EXTENDS Naturals, FiniteSets

CONSTANTS Tables    \* 1..n, in the order of the tuple

ASSUME TablesAssumption == IsFiniteSet(Tables) /\ Tables = 1..Cardinality(Tables)

VARIABLES rows,     \* the committed tables that hold rows of the user
          txn,      \* the transaction: next table, deleted so far, aborted or not
          report    \* what is returned for each table

wipeVars == <<rows, txn, report>>

WipeInit ==
  /\ rows \in SUBSET Tables
  /\ txn = [next |-> 0, gone |-> {}, aborted |-> FALSE]
  /\ report = [t \in Tables |-> "none"]

StartWipe ==
  /\ txn.next = 0
  /\ txn' = [next |-> 1, gone |-> {}, aborted |-> FALSE]
  /\ report' = [t \in Tables |-> "none"] /\ UNCHANGED rows

\* Mistake: a savepoint around each statement that fails.
DeleteTableSavepoint ==
  /\ txn.next \in Tables
  /\ \/ txn' = [txn EXCEPT !.next = @ + 1, !.gone = @ \cup {txn.next}]
        /\ report' = [report EXCEPT ![txn.next] = "count"]
     \/ txn' = [txn EXCEPT !.next = @ + 1] /\ report' = [report EXCEPT ![txn.next] = "error"]
  /\ UNCHANGED rows

\* The statement for one table; an exception is noted and the loop goes on, but
\* PostgreSQL refuses every later statement of the transaction.
DeleteTable ==
  /\ txn.next \in Tables
  /\ \/ /\ ~ txn.aborted
        /\ txn' = [txn EXCEPT !.next = @ + 1, !.gone = @ \cup {txn.next}]
        /\ report' = [report EXCEPT ![txn.next] = "count"]
     \/ /\ txn' = [txn EXCEPT !.next = @ + 1, !.aborted = TRUE]
        /\ report' = [report EXCEPT ![txn.next] = "error"]
  /\ UNCHANGED rows

\* The caller commits; an aborted transaction is rolled back.  The process may
\* die first.
CommitWipe ==
  /\ txn.next = Cardinality(Tables) + 1
  /\ rows' = IF txn.aborted THEN rows ELSE rows \ txn.gone
  /\ txn' = [next |-> 0, gone |-> {}, aborted |-> FALSE] /\ UNCHANGED report
WipeCrash ==
  /\ txn.next # 0
  /\ txn' = [next |-> 0, gone |-> {}, aborted |-> FALSE]
  /\ report' = [t \in Tables |-> "none"] /\ UNCHANGED rows

\* The user goes on working, and a table fills again.
UserWorks == /\ txn.next = 0 /\ rows' \in SUBSET Tables /\ rows \subseteq rows'
             /\ UNCHANGED <<txn, report>>

WipeNext == StartWipe \/ DeleteTable \/ CommitWipe \/ WipeCrash \/ UserWorks

WipeSpec == WipeInit /\ [][WipeNext]_wipeVars

-----------------------------------------------------------------------------
\* A wipe takes the rows of every table or of none, wherever a statement fails
\* or the process dies: what a step takes away is everything there was
\* (user_data_wipe.py:50-64).
WipeIsAllOrNothing == [][rows \subseteq rows' \/ rows' = {}]_wipeVars
=============================================================================
