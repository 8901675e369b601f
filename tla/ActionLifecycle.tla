--------------------------- MODULE ActionLifecycle ---------------------------
(* Recommended actions from their creation to the answer: ActionExecutor    *)
(* and the routes over it.  A request reads the row, checks the status it   *)
(* read and writes the row by its id, so that two requests, or a request    *)
(* and the expiry of stale actions, can interleave on one row.              *)
EXTENDS FiniteSets, Integers

CONSTANTS Actions,      \* ids of action_recommendations
          Requests,     \* requests that may be in flight at once
          MaxEdits      \* bound: texts a message can have

ASSUME MaxEditsAssumption == MaxEdits \in Nat

VARIABLES actions,      \* the rows
          inflight,     \* the requests between their read and their commit
          sends,        \* history: how often the message of an action went out
          sentText,     \* history: the text that went out last
          raced         \* history: rows two writers had open at once

actVars == <<actions, inflight, sends, sentText, raced>>

Status == {"generated", "queued", "sent", "responded", "expired", "dismissed"}
\* The legal moves of the lifecycle.
ValidTransitions(s) ==
  CASE s = "generated" -> {"queued", "dismissed", "expired"}
    [] s = "queued" -> {"sent", "dismissed", "expired"}
    [] s = "sent" -> {"responded", "expired"}
    [] OTHER -> {}

ActionRecommendation ==
  [status : Status \cup {"absent"}, text : 0..MaxEdits, sentAt : BOOLEAN,
   overdue : BOOLEAN]

NoAction == [status |-> "absent", text |-> 0, sentAt |-> FALSE, overdue |-> FALSE]

\* What a request is about to write: a new status, or the edited text.
Request == [by : Requests, action : Actions, op : Status \cup {"execute", "edit"}]

ActInit ==
  /\ actions = [a \in Actions |-> NoAction]
  /\ inflight = {}
  /\ sends = [a \in Actions |-> 0]
  /\ sentText = [a \in Actions |-> 0]
  /\ raced = {}

Opened(a) == {r \in inflight : r.action = a}

\* The rows of one generated batch.  Their four types differ only in the
\* channel that takes the message, and each channel accepts it.
PersistActions(batch) ==
  /\ batch # {} /\ \A a \in batch : actions[a].status = "absent"
  /\ actions' = [a \in Actions |-> IF a \in batch
         THEN [NoAction EXCEPT !.status = "generated"] ELSE actions[a]]
  /\ UNCHANGED <<inflight, sends, sentText, raced>>

Begin(r) ==
  /\ \A q \in inflight : q.by # r.by
  /\ inflight' = inflight \cup {r}
  /\ raced' = IF Opened(r.action) = {} THEN raced ELSE raced \cup {r.action}
  /\ UNCHANGED <<actions, sends, sentText>>

\* queue, sent, responded, dismiss: the status read must allow the move.
Transition(by, a, new) ==
  /\ new \in ValidTransitions(actions[a].status) \ {"expired"}
  /\ Begin([by |-> by, action |-> a, op |-> new])

Actionable(a) == actions[a].status \in {"generated", "queued"}

\* Mistake: the text may be edited in any status.
UpdateMessageAnytime(by, a) ==
  actions[a].status # "absent" /\ Begin([by |-> by, action |-> a, op |-> "edit"])

\* POST execute, also straight from "generated"; PATCH message.
ExecuteAction(by, a) == Actionable(a) /\ Begin([by |-> by, action |-> a, op |-> "execute"])
UpdateMessage(by, a) == Actionable(a) /\ Begin([by |-> by, action |-> a, op |-> "edit"])

\* The write of the new status, with its time.
WriteStatus(r) ==
  LET new == IF r.op = "execute" THEN "sent" ELSE r.op  a == r.action IN
  /\ r.op # "edit"
  /\ actions' = [actions EXCEPT ![a].status = new,
                                ![a].sentAt = @ \/ new = "sent"]
  /\ IF new = "sent"
     THEN /\ sends' = [sends EXCEPT ![a] = @ + 1]
          /\ sentText' = [sentText EXCEPT ![a] = actions[a].text]
     ELSE UNCHANGED <<sends, sentText>>

WriteText(r) ==
  /\ r.op = "edit"
  /\ actions' = [actions EXCEPT ![r.action].text = IF @ < MaxEdits THEN @ + 1 ELSE @]
  /\ UNCHANGED <<sends, sentText>>

Commit(r) == /\ WriteStatus(r) \/ WriteText(r)
             /\ inflight' = inflight \ {r}
             /\ UNCHANGED raced

\* expires_at passes.
TimePasses(a) ==
  /\ actions[a].status # "absent" /\ ~ actions[a].overdue
  /\ actions' = [actions EXCEPT ![a].overdue = TRUE]
  /\ UNCHANGED <<inflight, sends, sentText, raced>>

\* GET /actions/top first expires, in one UPDATE.
ExpireStaleActions ==
  LET stale == {a \in Actions : Actionable(a) /\ actions[a].overdue} IN
  /\ stale # {}
  /\ actions' = [a \in Actions |-> IF a \in stale
                   THEN [actions[a] EXCEPT !.status = "expired"] ELSE actions[a]]
  /\ raced' = raced \cup {a \in stale : Opened(a) # {}}
  /\ UNCHANGED <<inflight, sends, sentText>>

ActNext ==
  \/ \E batch \in SUBSET Actions : PersistActions(batch)
  \/ \E by \in Requests, a \in Actions :
       \/ \E new \in Status : Transition(by, a, new)
       \/ ExecuteAction(by, a)
       \/ UpdateMessage(by, a)
  \/ \E r \in inflight : Commit(r)
  \/ \E a \in Actions : TimePasses(a)
  \/ ExpireStaleActions

ActSpec == ActInit /\ [][ActNext]_actVars

-----------------------------------------------------------------------------
ActTypeOK ==
  /\ actions \in [Actions -> ActionRecommendation]
  /\ inflight \subseteq Request
  /\ sends \in [Actions -> Nat] /\ sentText \in [Actions -> 0..MaxEdits]
  /\ raced \subseteq Actions

\* Whatever requests interleave, an action that got an answer was sent, and its
\* row still says so (action_executor.py:150-159, 275-278).
RespondedWasSent ==
  \A a \in Actions : actions[a].status = "responded" => actions[a].sentAt /\ sends[a] > 0

\* As long as no two writers had the row open at once, a message goes out at
\* most once, is not edited afterwards, and its action is never dismissed,
\* expired or offered again: the check of the status that was read is enough
\* (action_executor.py:140, 255, actions.py:355, expire_stale_actions).
SentIsSettled ==
  \A a \in Actions \ raced : sends[a] > 0 =>
     /\ sends[a] = 1 /\ actions[a].text = sentText[a]
     /\ actions[a].status \in {"sent", "responded"}

\* The same without the proviso: "Validates the transition is legal"
\* (action_executor.py:134).  Two requests at once refute it.
SentOnce == \A a \in Actions : sends[a] <= 1

\* Why they hold: what a request checked when it read the row is still so when
\* it writes, of a sent row always and of every row no other writer had open.
Checked(r) ==
  CASE r.op \in {"execute", "edit"} -> Actionable(r.action)
    [] OTHER -> r.op \in ValidTransitions(actions[r.action].status) \ {"expired"}

ActInv ==
  /\ ActTypeOK
  /\ \A a \in Actions : actions[a].status \in {"sent", "responded"} =>
        actions[a].sentAt /\ sends[a] > 0
  /\ \A r \in inflight :
        /\ actions[r.action].status # "absent"
        /\ r.op = "responded" => actions[r.action].sentAt /\ sends[r.action] > 0
        /\ r.action \notin raced => Checked(r) /\ Opened(r.action) = {r}
  /\ SentIsSettled
=============================================================================
