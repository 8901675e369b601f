----------------------------- MODULE CareerProofs -----------------------------
(* The board of applications, the lifecycle of actions, the quota of their   *)
(* generation, the forms of the applications, the calls of the LLM client,   *)
(* the texts it repairs and what is learned of the outcomes, for any number  *)
(* of each.                                                                  *)
EXTENDS ApplicationBoard, ActionLifecycle, ActionGeneration, ApplicationTrail, LlmClient,
        OutcomeLearning, OrderLemmas

-----------------------------------------------------------------------------
(* The board.                                                              *)

LEMMA StampTypes ==
    ASSUME NEW row \in Application, NEW stage \in ApplicationStage
    PROVE  /\ SetStageTimestamp(row, stage) \in Application
           /\ stage \in Stamped => SetStageTimestamp(row, stage).stamp[stage]
           /\ \A s \in Stamped : row.stamp[s] => SetStageTimestamp(row, stage).stamp[s]
BY DEF SetStageTimestamp, Application, Stamped

\* The write of a request keeps every time there is, and a stage has its own.
LEMMA WrittenStamped ==
    ASSUME NEW now \in Application, NEW read \in Application, NEW stage \in ApplicationStage,
           now.stage \in Stamped => now.stamp[now.stage],
           \A s \in Stamped : read.stamp[s] => now.stamp[s]
    PROVE  LET w == Written(now, read, stage) IN
           /\ w \in Application
           /\ w.stage \in Stamped => w.stamp[w.stage]
           /\ \A s \in Stamped : now.stamp[s] => w.stamp[s]
           /\ w.stage \in {now.stage, stage}
<1> DEFINE new == IF read.stage = stage THEN read ELSE SetStageTimestamp(read, stage)
           w == Written(now, read, stage)
<1>1. /\ new \in Application
      /\ \A s \in Stamped : read.stamp[s] => new.stamp[s]
      /\ read.stage # stage /\ stage \in Stamped => new.stamp[stage]
  BY StampTypes
<1>2. /\ w.stage = (IF read.stage = stage THEN now.stage ELSE stage)
      /\ w.stamp = [s \in Stamped |-> IF new.stamp[s] = read.stamp[s]
                                      THEN now.stamp[s] ELSE new.stamp[s]]
  BY DEF Written
<1>3. w \in Application
  BY <1>1 DEF Written, Application
<1>4. \A s \in Stamped : now.stamp[s] => w.stamp[s]
  BY <1>1, <1>2 DEF Application
<1>5. ASSUME w.stage \in Stamped PROVE w.stamp[w.stage]
  BY <1>1, <1>2, <1>5 DEF Application
<1>6. QED
  BY <1>2, <1>3, <1>4, <1>5

LEMMA BoardInitInv == BoardInit => BoardInv
BY DEF BoardInit, BoardInv, BoardTypeOK, StageStamped, ReadsAreKept, Rows, NoStamps,
       Application, Stamped, ApplicationStage

LEMMA BoardStep == BoardInv /\ [BoardNext]_boardVars => BoardInv'
<1> SUFFICES ASSUME BoardInv, [BoardNext]_boardVars PROVE BoardInv'
  OBVIOUS
<1> USE DEF BoardInv
<1>0. /\ "absent" \notin Stamped /\ "gone" \notin Stamped
      /\ Stamped \subseteq ApplicationStage
      /\ "absent" \notin ApplicationStage /\ "gone" \notin ApplicationStage
  BY DEF Stamped, ApplicationStage
<1>1. ASSUME NEW a \in Apps, NEW s \in ApplicationStage, Create(a, s) PROVE BoardInv'
  <2> DEFINE new == SetStageTimestamp([stage |-> s, stamp |-> NoStamps], s)
  <2>1. [stage |-> s, stamp |-> NoStamps] \in Application
    BY DEF Application, NoStamps
  <2>2. new \in Application /\ (s \in Stamped => new.stamp[s]) /\ new.stage = s
    BY <2>1, StampTypes DEF SetStageTimestamp
  <2>3. apps' = [apps EXCEPT ![a] = new] /\ edits' = edits /\ apps[a].stage = "absent"
    BY <1>1 DEF Create
  <2>4. BoardTypeOK'
    BY <2>2, <2>3 DEF BoardTypeOK
  <2>5. StageStamped'
    BY <2>2, <2>3 DEF BoardTypeOK, StageStamped, Rows
  <2>6. \A r \in edits : r.app \in Apps /\ r.app # a
    BY <2>3 DEF BoardTypeOK, ReadsAreKept, Edit
  <2>7. ReadsAreKept'
    BY <2>3, <2>6 DEF BoardTypeOK, ReadsAreKept
  <2>8. QED
    BY <2>4, <2>5, <2>7
<1>2. ASSUME NEW e \in Editors, NEW a \in Apps, NEW s \in ApplicationStage, LoadForUpdate(e, a, s)
      PROVE BoardInv'
  <2>1. /\ apps' = apps /\ apps[a].stage \in ApplicationStage
        /\ edits' = edits \cup {[by |-> e, app |-> a, read |-> apps[a], stage |-> s]}
    BY <1>2 DEF LoadForUpdate, Rows
  <2>2. BoardTypeOK'
    BY <2>1 DEF BoardTypeOK, Edit
  <2>3. StageStamped'
    BY <2>1 DEF StageStamped, Rows
  <2>4. ReadsAreKept'
    BY <1>0, <2>1 DEF ReadsAreKept
  <2>5. QED
    BY <2>2, <2>3, <2>4
<1>3. ASSUME NEW r \in edits, Update(r) PROVE BoardInv'
  <2>1. r.app \in Apps /\ r.read \in Application /\ r.stage \in ApplicationStage
    BY DEF BoardTypeOK, Edit
  <2>2. edits' = edits \ {r}
    BY <1>3 DEF Update
  <2>3. CASE r.app \notin Rows
    BY <1>3, <2>2, <2>3 DEF Update, BoardTypeOK, StageStamped, ReadsAreKept, Rows
  <2>4. CASE r.app \in Rows
    <3> DEFINE now == apps[r.app]
               w == Written(now, r.read, r.stage)
    <3>1. /\ now \in Application /\ (now.stage \in Stamped => now.stamp[now.stage])
          /\ \A s \in Stamped : r.read.stamp[s] => now.stamp[s]
          /\ now.stage \in ApplicationStage
      BY <2>1, <2>4 DEF BoardTypeOK, StageStamped, ReadsAreKept, Rows
    <3>2. /\ w \in Application
          /\ w.stage \in Stamped => w.stamp[w.stage]
          /\ \A s \in Stamped : now.stamp[s] => w.stamp[s]
          /\ w.stage \in ApplicationStage
      <4>1. /\ w \in Application
            /\ w.stage \in Stamped => w.stamp[w.stage]
            /\ \A s \in Stamped : now.stamp[s] => w.stamp[s]
            /\ w.stage \in {now.stage, r.stage}
        BY <2>1, <3>1, WrittenStamped, Zenon
      <4>2. QED
        BY <2>1, <3>1, <4>1
    <3>3. apps' = [apps EXCEPT ![r.app] = w]
      BY <1>3, <2>4 DEF Update
    <3>4. BoardTypeOK'
      BY <2>2, <3>2, <3>3 DEF BoardTypeOK
    <3>5. StageStamped'
      BY <3>2, <3>3 DEF BoardTypeOK, StageStamped, Rows
    <3>6. ReadsAreKept'
      BY <1>0, <2>1, <2>2, <3>2, <3>3 DEF BoardTypeOK, ReadsAreKept
    <3>7. QED
      BY <3>4, <3>5, <3>6
  <2>5. QED
    BY <2>3, <2>4
<1>4. ASSUME NEW gone \in SUBSET Apps, edits' = edits,
             apps' = [a \in Apps |-> IF a \in gone \cap Rows THEN [apps[a] EXCEPT !.stage = "gone"]
                                     ELSE apps[a]]
      PROVE BoardInv'
  <2>1. BoardTypeOK'
    BY <1>4 DEF BoardTypeOK, Application
  <2>2. StageStamped'
    BY <1>0, <1>4 DEF BoardTypeOK, StageStamped, Rows, Application
  <2>3. \A a \in Apps : /\ apps'[a].stamp = apps[a].stamp
                        /\ apps[a].stage # "absent" => apps'[a].stage # "absent"
    BY <1>4 DEF BoardTypeOK, Application
  <2>4. ReadsAreKept'
    BY <1>4, <2>3 DEF BoardTypeOK, ReadsAreKept, Edit
  <2>5. QED
    BY <2>1, <2>2, <2>4
<1>5. ASSUME NEW a \in Apps, Delete(a) PROVE BoardInv'
  <2>1. apps' = [b \in Apps |-> IF b \in {a} \cap Rows THEN [apps[b] EXCEPT !.stage = "gone"]
                                ELSE apps[b]]
    BY <1>5 DEF Delete, BoardTypeOK
  <2>2. QED
    BY <1>4, <1>5, <2>1 DEF Delete
<1>6. CASE WipeAllForTesting
  <2>1. apps' = [b \in Apps |-> IF b \in Apps \cap Rows THEN [apps[b] EXCEPT !.stage = "gone"]
                                ELSE apps[b]]
    BY <1>6 DEF WipeAllForTesting
  <2>2. QED
    BY <1>4, <1>6, <2>1 DEF WipeAllForTesting
<1>7. CASE UNCHANGED boardVars
  BY <1>7 DEF boardVars, BoardTypeOK, StageStamped, ReadsAreKept, Rows
<1>8. QED
  BY <1>1, <1>2, <1>3, <1>5, <1>6, <1>7 DEF BoardNext

\* An application that stands in a stage has the time it entered it, for any
\* number of applications and overlapping requests.
THEOREM StagesAreStamped == BoardSpec => []StageStamped
<1>1. BoardInv => StageStamped
  BY DEF BoardInv
<1>2. QED
  BY <1>1, BoardInitInv, BoardStep, PTL DEF BoardSpec

-----------------------------------------------------------------------------
(* The lifecycle of actions.                                               *)

LEMMA ActInitInv == ActInit => ActInv
BY MaxEditsAssumption
   DEF ActInit, ActInv, ActTypeOK, SentIsSettled, ActionRecommendation, NoAction

\* What the invariant needs of the next state when no action gained or lost a
\* request, and a row that no two writers had open changed in its clock only.
LEMMA SameRequests ==
    ASSUME ActInv, ActTypeOK', inflight' = inflight, sends' = sends, sentText' = sentText,
           raced \subseteq raced',
           \A a \in Actions :
              /\ actions'[a].sentAt = actions[a].sentAt
              /\ actions[a].status # "absent" => actions'[a].status # "absent"
              /\ actions'[a].status \in {"sent", "responded"} => actions'[a].status = actions[a].status,
           \A a \in Actions \ raced' : Opened(a) # {} =>
              actions'[a].status = actions[a].status,
           \A a \in Actions : sends[a] > 0 /\ a \notin raced =>
              actions'[a].status = actions[a].status /\ actions'[a].text = actions[a].text
    PROVE  ActInv'
<1> USE DEF ActInv
<1>1. \A r \in inflight : r \in Request /\ r.action \in Actions /\ r \in Opened(r.action)
  BY DEF ActTypeOK, Request, Opened
<1>2. \A a \in Actions : Opened(a)' = Opened(a)
  BY DEF Opened
<1>3. \A r \in inflight : r.action \notin raced' => Checked(r)'
  BY <1>1 DEF Checked, Actionable
<1>4. SentIsSettled'
  BY DEF SentIsSettled
<1>5. QED
  BY <1>1, <1>2, <1>3, <1>4

\* A request that begins has checked the row it read.
LEMMA BeginInv ==
    ASSUME ActInv, NEW r \in Request, Begin(r), actions[r.action].status # "absent", Checked(r),
           r.op = "responded" => actions[r.action].status = "sent"
    PROVE  ActInv'
<1> USE DEF ActInv
<1>1. /\ inflight' = inflight \cup {r}
      /\ raced' = IF Opened(r.action) = {} THEN raced ELSE raced \cup {r.action}
      /\ actions' = actions /\ sends' = sends /\ sentText' = sentText
      /\ r.action \in Actions
  BY DEF Begin, Request
<1>2. ActTypeOK'
  BY <1>1 DEF ActTypeOK
<1>3. \A q \in inflight' : q.action \notin raced' => Opened(q.action)' = {q}
  <2> SUFFICES ASSUME NEW q \in inflight', q.action \notin raced' PROVE Opened(q.action)' = {q}
    OBVIOUS
  <2>1. CASE q = r
    <3>1. Opened(r.action) = {}
      BY <1>1, <2>1
    <3>2. QED
      BY <1>1, <2>1, <3>1 DEF Opened
  <2>2. CASE q # r
    <3>1. q \in inflight /\ Opened(q.action) = {q}
      BY <1>1, <2>2
    <3>2. q.action # r.action
      BY <1>1, <3>1
    <3>3. QED
      BY <1>1, <3>1, <3>2 DEF Opened
  <2>3. QED
    BY <2>1, <2>2
<1>4. \A q \in inflight' : q.action \notin raced' => Checked(q)'
  BY <1>1 DEF Checked, Actionable
<1>5. SentIsSettled'
  BY <1>1 DEF SentIsSettled
<1>6. QED
  BY <1>1, <1>2, <1>3, <1>4, <1>5

\* The row that the commit of a request leaves, and the others.
LEMMA CommitRows ==
    ASSUME ActInv, NEW r \in inflight, Commit(r)
    PROVE  LET a == r.action  new == IF r.op = "execute" THEN "sent" ELSE r.op IN
           /\ a \in Actions /\ r.op \in Status \cup {"execute", "edit"}
           /\ \A b \in Actions \ {a} : /\ actions'[b] = actions[b] /\ sends'[b] = sends[b]
                                       /\ sentText'[b] = sentText[b]
           /\ actions'[a] \in ActionRecommendation
           /\ r.op = "edit" => /\ actions'[a].status = actions[a].status
                               /\ actions'[a].sentAt = actions[a].sentAt
                               /\ sends' = sends /\ sentText' = sentText
           /\ r.op # "edit" => /\ actions'[a].status = new /\ actions'[a].text = actions[a].text
                               /\ actions'[a].sentAt = (actions[a].sentAt \/ new = "sent")
           /\ r.op # "edit" /\ new = "sent" => /\ sends'[a] = sends[a] + 1
                                               /\ sentText'[a] = actions[a].text
           /\ r.op # "edit" /\ new # "sent" => sends' = sends /\ sentText' = sentText
           /\ ActTypeOK'
<1> USE DEF ActInv
<1> DEFINE a == r.action
           new == IF r.op = "execute" THEN "sent" ELSE r.op
<1>1. a \in Actions /\ r.op \in Status \cup {"execute", "edit"} /\ actions[a] \in ActionRecommendation
  BY DEF ActTypeOK, Request
<1>2. inflight' \subseteq Request /\ raced' = raced
  BY DEF Commit, ActTypeOK
<1>3. CASE r.op = "edit"
  <2>1. /\ actions' = [actions EXCEPT ![a].text = IF @ < MaxEdits THEN @ + 1 ELSE @]
        /\ sends' = sends /\ sentText' = sentText
    BY <1>3 DEF Commit, WriteStatus, WriteText
  <2>2. (IF actions[a].text < MaxEdits THEN actions[a].text + 1 ELSE actions[a].text) \in 0..MaxEdits
    BY <1>1, MaxEditsAssumption DEF ActionRecommendation
  <2>3. /\ actions' \in [Actions -> ActionRecommendation]
        /\ actions'[a].status = actions[a].status /\ actions'[a].sentAt = actions[a].sentAt
        /\ \A b \in Actions \ {a} : actions'[b] = actions[b]
    BY <1>1, <2>1, <2>2 DEF ActTypeOK, ActionRecommendation
  <2>4. QED
    BY <1>1, <1>2, <1>3, <2>1, <2>3 DEF ActTypeOK
<1>4. CASE r.op # "edit"
  <2>1. /\ actions' = [actions EXCEPT ![a].status = new, ![a].sentAt = @ \/ new = "sent"]
        /\ new = "sent" => /\ sends' = [sends EXCEPT ![a] = @ + 1]
                           /\ sentText' = [sentText EXCEPT ![a] = actions[a].text]
        /\ new # "sent" => sends' = sends /\ sentText' = sentText
    BY <1>4 DEF Commit, WriteStatus, WriteText
  <2>2. new \in Status
    BY <1>1, <1>4 DEF Status
  <2>3. actions' \in [Actions -> ActionRecommendation]
    BY <1>1, <2>1, <2>2, ZenonT(60) DEF ActTypeOK, ActionRecommendation
  <2>4. /\ actions'[a].status = new /\ actions'[a].text = actions[a].text
        /\ actions'[a].sentAt = (actions[a].sentAt \/ new = "sent")
        /\ \A b \in Actions \ {a} : actions'[b] = actions[b]
    BY <1>1, <2>1, ZenonT(60) DEF ActTypeOK, ActionRecommendation
  <2>5. /\ sends' \in [Actions -> Nat] /\ sentText' \in [Actions -> 0..MaxEdits]
        /\ \A b \in Actions \ {a} : sends'[b] = sends[b] /\ sentText'[b] = sentText[b]
        /\ new = "sent" => sends'[a] = sends[a] + 1 /\ sentText'[a] = actions[a].text
    BY <1>1, <2>1 DEF ActTypeOK, ActionRecommendation
  <2>6. QED
    BY <1>1, <1>2, <1>4, <2>1, <2>3, <2>4, <2>5 DEF ActTypeOK
<1>5. QED
  BY <1>3, <1>4

\* A commit writes what its request checked; the requests left keep their checks.
LEMMA CommitInv ==
    ASSUME ActInv, NEW r \in inflight, Commit(r)
    PROVE  ActInv'
<1> DEFINE a == r.action
           new == IF r.op = "execute" THEN "sent" ELSE r.op
<1>0. /\ a \in Actions /\ r.op \in Status \cup {"execute", "edit"}
      /\ \A b \in Actions \ {a} : actions'[b] = actions[b] /\ sends'[b] = sends[b]
                                 /\ sentText'[b] = sentText[b]
      /\ r.op = "edit" => /\ actions'[a].status = actions[a].status
                          /\ actions'[a].sentAt = actions[a].sentAt
                          /\ sends' = sends /\ sentText' = sentText
      /\ r.op # "edit" => /\ actions'[a].status = new /\ actions'[a].text = actions[a].text
                          /\ actions'[a].sentAt = (actions[a].sentAt \/ new = "sent")
      /\ r.op # "edit" /\ new = "sent" => sends'[a] = sends[a] + 1 /\ sentText'[a] = actions[a].text
      /\ r.op # "edit" /\ new # "sent" => sends' = sends /\ sentText' = sentText
      /\ ActTypeOK'
  BY CommitRows
<1> USE DEF ActInv
<1>1. /\ inflight' = inflight \ {r} /\ raced' = raced
      /\ \A q \in inflight : q.action \in Actions
      /\ \A b \in Actions : sends[b] \in Nat
  BY DEF Commit, ActTypeOK, Request
<1>2. \A b \in Actions : /\ actions[b].sentAt => actions'[b].sentAt
                         /\ sends[b] > 0 => sends'[b] > 0
                         /\ actions[b].status # "absent" => actions'[b].status # "absent"
  <2>1. actions[a].sentAt => actions'[a].sentAt
    BY <1>0
  <2>2. sends[a] > 0 => sends'[a] > 0
    BY <1>0, <1>1
  <2>3. actions[a].status # "absent" => actions'[a].status # "absent"
    BY <1>0 DEF Status
  <2>4. QED
    BY <1>0, <2>1, <2>2, <2>3
<1>3. \A b \in Actions : actions'[b].status \in {"sent", "responded"} =>
         actions'[b].sentAt /\ sends'[b] > 0
  <2>1. ASSUME actions'[a].status \in {"sent", "responded"}
        PROVE  actions'[a].sentAt /\ sends'[a] > 0
    <3>1. CASE r.op = "edit"
      BY <1>0, <2>1, <3>1
    <3>2. CASE r.op # "edit" /\ new = "sent"
      <4>1. sends'[a] = sends[a] + 1 /\ sends[a] \in Nat
        BY <1>0, <1>1, <3>2
      <4>2. sends'[a] > 0
        BY <4>1
      <4>3. actions'[a].sentAt
        BY <1>0, <3>2
      <4>4. QED
        BY <4>2, <4>3
    <3>3. CASE r.op # "edit" /\ new # "sent"
      <4>1. r.op = "responded"
        BY <1>0, <2>1, <3>3
      <4>2. QED
        BY <1>2, <1>0, <4>1
    <3>4. QED
      BY <3>1, <3>2, <3>3
  <2>2. QED
    BY <1>0, <2>1
<1>4. \A q \in inflight' : q.action \notin raced' => q.action # a
  BY <1>1 DEF Opened
<1>5. \A q \in inflight' : q.action \notin raced' => Checked(q)' /\ Opened(q.action)' = {q}
  <2>1. SUFFICES ASSUME NEW q \in inflight', q.action \notin raced'
                 PROVE  Checked(q)' /\ Opened(q.action)' = {q}
    OBVIOUS
  <2>2. q.action # a /\ q \in inflight /\ q # r /\ Checked(q) /\ Opened(q.action) = {q}
        /\ actions'[q.action] = actions[q.action]
    BY <1>0, <1>1, <1>4, <2>1
  <2>3. Checked(q)'
    BY <2>2 DEF Checked, Actionable
  <2>4. Opened(q.action)' = {q}
    BY <1>1, <2>2 DEF Opened
  <2>5. QED
    BY <2>3, <2>4
<1>6. SentIsSettled'
  <2>1. SUFFICES ASSUME a \notin raced, sends'[a] > 0
                 PROVE  /\ sends'[a] = 1 /\ actions'[a].text = sentText'[a]
                        /\ actions'[a].status \in {"sent", "responded"}
    BY <1>0, <1>1 DEF SentIsSettled
  <2>2. /\ Checked(r)
        /\ sends[a] > 0 => /\ sends[a] = 1 /\ actions[a].text = sentText[a]
                           /\ actions[a].status \in {"sent", "responded"}
    BY <1>0, <2>1 DEF SentIsSettled
  <2>3. ASSUME Actionable(a) PROVE sends[a] = 0
    BY <1>0, <1>1, <2>2, <2>3 DEF Actionable
  <2>4. CASE r.op = "edit"
    BY <1>0, <2>1, <2>2, <2>3, <2>4 DEF Checked
  <2>5. CASE r.op # "edit" /\ new = "sent"
    <3>1. Actionable(a)
      BY <2>2, <2>5 DEF Checked, Actionable, ValidTransitions
    <3>2. QED
      BY <1>0, <2>3, <2>5, <3>1
  <2>6. CASE r.op # "edit" /\ new # "sent"
    <3>1. sends'[a] = sends[a] /\ sentText'[a] = sentText[a]
      BY <1>0, <2>6
    <3>2. actions[a].status \in {"sent", "responded"} /\ sends[a] = 1
      BY <2>1, <2>2, <3>1
    <3>3. r.op = "responded"
      BY <2>2, <2>6, <3>2 DEF Checked, Actionable, ValidTransitions
    <3>4. QED
      BY <1>0, <2>2, <2>6, <3>1, <3>2, <3>3
  <2>7. QED
    BY <2>4, <2>5, <2>6
<1>7. \A q \in inflight' : /\ actions'[q.action].status # "absent"
                           /\ q.op = "responded" => actions'[q.action].sentAt /\ sends'[q.action] > 0
  BY <1>1, <1>2
<1>8. QED
  BY <1>0, <1>3, <1>5, <1>6, <1>7

\* The rows of a new batch have had no request.
LEMMA PersistInv ==
    ASSUME ActInv, NEW batch \in SUBSET Actions, PersistActions(batch)
    PROVE  ActInv'
<1> USE DEF ActInv
<1>1. /\ inflight' = inflight /\ sends' = sends /\ sentText' = sentText /\ raced' = raced
      /\ \A b \in batch : actions[b].status = "absent" /\ actions'[b].status = "generated"
      /\ \A b \in Actions \ batch : actions'[b] = actions[b]
  BY DEF PersistActions, NoAction
<1>2. [NoAction EXCEPT !.status = "generated"] \in ActionRecommendation
  <2>1. NoAction \in ActionRecommendation
    BY MaxEditsAssumption DEF NoAction, ActionRecommendation
  <2>2. QED
    BY <2>1 DEF ActionRecommendation, Status
<1>3. ActTypeOK'
  BY <1>1, <1>2 DEF PersistActions, ActTypeOK
<1>4. \A q \in inflight : q.action \in Actions \ batch
  BY <1>1 DEF ActTypeOK, Request
<1>5. \A b \in Actions : Opened(b)' = Opened(b)
  BY <1>1 DEF Opened
<1>6. (\A q \in inflight :
        /\ actions[q.action].status # "absent"
        /\ q.op = "responded" => actions[q.action].sentAt /\ sends[q.action] > 0
        /\ q.action \notin raced => Checked(q) /\ Opened(q.action) = {q})'
  BY <1>1, <1>4, <1>5 DEF Checked, Actionable
<1>7. \A b \in Actions : actions'[b].status \in {"sent", "responded"} =>
         actions'[b].sentAt /\ sends'[b] > 0
  BY <1>1
<1>8. SentIsSettled'
  BY <1>1 DEF SentIsSettled
<1>9. QED
  BY <1>3, <1>6, <1>7, <1>8, Zenon

LEMMA ActStep == ActInv /\ [ActNext]_actVars => ActInv'
<1> SUFFICES ASSUME ActInv, [ActNext]_actVars PROVE ActInv'
  OBVIOUS
<1>1. ASSUME NEW batch \in SUBSET Actions, PersistActions(batch) PROVE ActInv'
  BY <1>1, PersistInv
<1>2. ASSUME NEW by \in Requests, NEW a \in Actions, NEW new \in Status, Transition(by, a, new)
      PROVE  ActInv'
  <2> DEFINE r == [by |-> by, action |-> a, op |-> new]
  <2>1. r \in Request /\ Begin(r)
    BY <1>2 DEF Transition, Request
  <2>2. new \in ValidTransitions(actions[a].status) \ {"expired"}
    BY <1>2 DEF Transition
  <2>3. actions[a].status # "absent" /\ (new = "responded" => actions[a].status = "sent")
    BY <2>2 DEF ValidTransitions
  <2>4. Checked(r)
    BY <2>2 DEF Checked, Status
  <2>5. QED
    BY <2>1, <2>3, <2>4, BeginInv
<1>3. ASSUME NEW by \in Requests, NEW a \in Actions, NEW op \in {"execute", "edit"}, Actionable(a),
             Begin([by |-> by, action |-> a, op |-> op])
      PROVE  ActInv'
  <2> DEFINE r == [by |-> by, action |-> a, op |-> op]
  <2>1. r \in Request /\ Begin(r)
    BY <1>3 DEF Request
  <2>2. Checked(r) /\ actions[a].status # "absent" /\ r.op # "responded"
    BY <1>3 DEF Checked, Actionable
  <2>3. QED
    BY <2>1, <2>2, BeginInv
<1>4. ASSUME NEW r \in inflight, Commit(r) PROVE ActInv'
  BY <1>4, CommitInv
<1>5. ASSUME NEW a \in Actions, TimePasses(a) PROVE ActInv'
  <2>1. /\ actions' = [actions EXCEPT ![a].overdue = TRUE]
        /\ inflight' = inflight /\ sends' = sends /\ sentText' = sentText /\ raced' = raced
    BY <1>5 DEF TimePasses
  <2>2. ActTypeOK'
    BY <2>1, ZenonT(60) DEF ActInv, ActTypeOK, ActionRecommendation
  <2>3. \A b \in Actions : /\ actions'[b].status = actions[b].status
                           /\ actions'[b].sentAt = actions[b].sentAt
                           /\ actions'[b].text = actions[b].text
    BY <2>1 DEF ActInv, ActTypeOK, ActionRecommendation
  <2>4. QED
    BY <2>1, <2>2, <2>3, SameRequests
<1>6. CASE ExpireStaleActions
  <2> DEFINE stale == {a \in Actions : Actionable(a) /\ actions[a].overdue}
  <2>1. /\ actions' = [a \in Actions |-> IF a \in stale
                          THEN [actions[a] EXCEPT !.status = "expired"] ELSE actions[a]]
        /\ raced' = raced \cup {a \in stale : Opened(a) # {}}
        /\ inflight' = inflight /\ sends' = sends /\ sentText' = sentText
    BY <1>6 DEF ExpireStaleActions
  <2>2. ActTypeOK'
    BY <2>1 DEF ActInv, ActTypeOK, ActionRecommendation, Status
  <2>3. \A a \in Actions : /\ actions'[a].sentAt = actions[a].sentAt
                           /\ actions'[a].text = actions[a].text
                           /\ a \in stale => actions'[a].status = "expired"
                           /\ a \notin stale => actions'[a].status = actions[a].status
    BY <2>1 DEF ActInv, ActTypeOK, ActionRecommendation
  <2>4. \A a \in stale : a \notin raced => ~ (sends[a] > 0)
    BY DEF Actionable, ActInv, SentIsSettled
  <2>5. \A a \in Actions \ raced' : Opened(a) # {} => a \notin stale
    BY <2>1
  <2>6. QED
    BY <2>1, <2>2, <2>3, <2>4, <2>5, SameRequests
<1>7. CASE UNCHANGED actVars
  <2>1. ActTypeOK'
    BY <1>7 DEF actVars, ActInv, ActTypeOK
  <2>2. QED
    BY <1>7, <2>1, SameRequests DEF actVars
<1>8. QED
  BY <1>1, <1>2, <1>3, <1>4, <1>5, <1>6, <1>7 DEF ActNext, ExecuteAction, UpdateMessage

\* No interleaving of requests answers an action that was never sent, for any
\* number of actions and requests.
THEOREM AnsweredWasSent == ActSpec => []RespondedWasSent
<1>1. ActInv => RespondedWasSent
  BY DEF ActInv, RespondedWasSent
<1>2. QED
  BY <1>1, ActInitInv, ActStep, PTL DEF ActSpec

\* A row that two writers never had open at once is sent at most once and is
\* settled from then on.
THEOREM SerialSendsAreSettled == ActSpec => []SentIsSettled
<1>1. ActInv => SentIsSettled
  BY DEF ActInv
<1>2. QED
  BY <1>1, ActInitInv, ActStep, PTL DEF ActSpec

-----------------------------------------------------------------------------
(* The quota of generated actions.                                         *)

\* One opportunity calls for at most one action of each of the four kinds.
LEMMA BatchIsSmall ==
    ASSUME NEW o \in Opportunities
    PROVE  Cardinality(GenerateActions(o)) \in 0..MaxBatch
<1> DEFINE Kinds == {"linkedin_message", "email_outreach", "referral_request", "follow_up_sequence"}
<1>1. IsFiniteSet(Kinds) /\ Cardinality(Kinds) = 4
  <2>1. /\ IsFiniteSet({"linkedin_message"}) /\ Cardinality({"linkedin_message"}) = 1
    BY FS_Singleton
  <2>2. /\ IsFiniteSet({"linkedin_message", "email_outreach"})
        /\ Cardinality({"linkedin_message", "email_outreach"}) = 2
    <3>1. {"linkedin_message", "email_outreach"} = {"linkedin_message"} \cup {"email_outreach"}
      OBVIOUS
    <3>2. QED
      BY <2>1, <3>1, FS_AddElement
  <2>3. /\ IsFiniteSet({"linkedin_message", "email_outreach", "referral_request"})
        /\ Cardinality({"linkedin_message", "email_outreach", "referral_request"}) = 3
    <3>1. {"linkedin_message", "email_outreach", "referral_request"}
             = {"linkedin_message", "email_outreach"} \cup {"referral_request"}
      OBVIOUS
    <3>2. "referral_request" \notin {"linkedin_message", "email_outreach"}
      OBVIOUS
    <3> DEFINE Two == {"linkedin_message", "email_outreach"}
    <3>3. IsFiniteSet(Two) /\ Cardinality(Two) = 2
      BY <2>2
    <3> HIDE DEF Two
    <3>4. IsFiniteSet(Two \cup {"referral_request"}) /\ Cardinality(Two \cup {"referral_request"})
             = IF "referral_request" \in Two THEN Cardinality(Two) ELSE Cardinality(Two) + 1
      BY <3>3, FS_AddElement
    <3>5. QED
      BY <3>1, <3>2, <3>3, <3>4 DEF Two
  <2>4. Kinds = {"linkedin_message", "email_outreach", "referral_request"}
                  \cup {"follow_up_sequence"}
    OBVIOUS
  <2>5. QED
    BY <2>3, <2>4, FS_AddElement
<1>2. GenerateActions(o) \subseteq Kinds
  BY DEF GenerateActions
<1>3. IsFiniteSet(GenerateActions(o)) /\ Cardinality(GenerateActions(o)) <= 4
  BY <1>1, <1>2, FS_Subset
<1>4. QED
  BY <1>3, FS_CardinalityType DEF MaxBatch

LEMMA QuotaInitInv == QuotaInit => QuotaInv
<1> SUFFICES ASSUME QuotaInit PROVE QuotaInv
  OBVIOUS
<1>1. Cardinality(gated) = 0 /\ made = 0 /\ gated = {}
  BY FS_EmptySet DEF QuotaInit
<1>2. Cardinality(Generators) \in Nat
  BY GeneratorsAssumption, FS_CardinalityType
<1>3. QED
  BY <1>1, <1>2, CapAssumption DEF QuotaInv, QuotaTypeOK, MaxBatch

LEMMA QuotaStep == QuotaInv /\ [QuotaNext]_quotaVars => QuotaInv'
<1> SUFFICES ASSUME QuotaInv, [QuotaNext]_quotaVars PROVE QuotaInv'
  OBVIOUS
<1>1. /\ IsFiniteSet(gated) /\ Cardinality(gated) \in Nat /\ made \in Nat
      /\ Cardinality(Generators) \in Nat /\ gated \subseteq Generators
      /\ made + 4 * Cardinality(gated) <= Cap - 1 + 4 * Cardinality(Generators)
  BY GeneratorsAssumption, FS_CardinalityType, FS_Subset DEF QuotaInv, QuotaTypeOK, MaxBatch
<1>2. ASSUME NEW g \in Generators, CheckActionQuota(g) PROVE QuotaInv'
  <2>1. gated' = gated \cup {g} /\ g \notin gated /\ made' = made /\ made < Cap
    BY <1>2 DEF CheckActionQuota
  <2>2. gated' \subseteq Generators
    BY <1>1, <2>1
  <2>3. Cardinality(gated') <= Cardinality(Generators) /\ Cardinality(gated') \in Nat
    BY <2>2, GeneratorsAssumption, FS_Subset, FS_CardinalityType
  <2>4. QED
    BY <1>1, <2>1, <2>2, <2>3, CapAssumption DEF QuotaInv, QuotaTypeOK, MaxBatch
<1>3. ASSUME NEW g \in gated, NEW n \in 0..4, made' = made + n, gated' = gated \ {g}
      PROVE  QuotaInv'
  <2>1. Cardinality(gated') = Cardinality(gated) - 1
    BY <1>1, <1>3, FS_RemoveElement
  <2>2. QED
    BY <1>1, <1>3, <2>1, CapAssumption DEF QuotaInv, QuotaTypeOK, MaxBatch
<1>4. ASSUME NEW g \in Generators, NEW o \in Opportunities, GenerateRoute(g, o) PROVE QuotaInv'
  BY <1>3, <1>4, BatchIsSmall DEF GenerateRoute, MaxBatch
<1>5. ASSUME NEW g \in Generators, SignalNotFound(g) PROVE QuotaInv'
  <2>1. g \in gated /\ gated' = gated \ {g} /\ made' = made + 0 /\ 0 \in 0..4
    BY <1>1, <1>5 DEF SignalNotFound
  <2>2. QED
    BY <1>3, <2>1
<1>6. CASE MonthStart
  BY <1>1, <1>6, CapAssumption DEF MonthStart, QuotaInv, QuotaTypeOK, MaxBatch
<1>7. CASE UNCHANGED quotaVars
  BY <1>7 DEF quotaVars, QuotaInv, QuotaTypeOK, MaxBatch
<1>8. QED
  BY <1>2, <1>4, <1>5, <1>6, <1>7 DEF QuotaNext

\* The monthly cap is passed by the batches of the requests in flight at most,
\* for any cap, any finite number of requests and any opportunities.
THEOREM OverrunHasALimit == QuotaSpec => []OverrunIsBounded
<1>1. QuotaInv => OverrunIsBounded
  <2> SUFFICES ASSUME QuotaInv PROVE OverrunIsBounded
    OBVIOUS
  <2>1. Cardinality(gated) \in Nat /\ made \in Nat /\ Cardinality(Generators) \in Nat
    BY GeneratorsAssumption, FS_CardinalityType, FS_Subset DEF QuotaInv, QuotaTypeOK
  <2>2. QED
    BY <2>1, CapAssumption DEF QuotaInv, OverrunIsBounded, MaxBatch
<1>2. QED
  BY <1>1, QuotaInitInv, QuotaStep, PTL DEF QuotaSpec
-----------------------------------------------------------------------------
(* The forms of the applications.                                          *)

\* The reports on a form that have read it and not yet committed.
Reports(f) == {c \in Clerks : clerk[c].op = "report" /\ clerk[c].form = f}

\* A form that kept its application and was never reported twice at once: what it
\* opened is the application it has, every report has read it as it is, and one
\* that was not prepared yet has nothing.
FormInOrder(f) ==
  /\ filed[f] \subseteq {form[f].app} \ {Unlinked}
  /\ \A c \in Reports(f) : clerk[c].read.app = form[f].app
  /\ \A c, d \in Reports(f) : c = d
  /\ form[f].status = "none" => form[f].app = Unlinked /\ Reports(f) = {}

TrailInv ==
  /\ form \in [Forms -> Submission]
  /\ DOMAIN clerk = Clerks
  /\ \A c \in Clerks : clerk[c].op = "report" => clerk[c].form \in Forms
  /\ DOMAIN filed = Forms
  /\ \A f \in Forms : f \notin excused => FormInOrder(f)

LEMMA TrailInitInv == TrailInit => TrailInv
<1> SUFFICES ASSUME TrailInit PROVE TrailInv
  OBVIOUS
<1>1. \A f \in Forms : Reports(f) = {}
  BY DEF TrailInit, Reports, NoWork
<1>2. form \in [Forms -> Submission]
  BY DEF TrailInit, Submission, SubmissionStatus
<1>3. QED
  BY <1>1, <1>2 DEF TrailInit, TrailInv, FormInOrder, NoWork

\* A step that touches neither the forms nor a report.
LEMMA OtherTrailSteps ==
    ASSUME TrailInv, form' = form, filed' = filed, excused' = excused,
           DOMAIN clerk' = Clerks,
           \A c \in Clerks : clerk'[c].op = "report" => clerk'[c] = clerk[c]
    PROVE  TrailInv'
<1>1. \A f \in Forms : Reports(f)' \subseteq Reports(f) /\ \A c \in Reports(f)' : clerk'[c] = clerk[c]
  BY DEF Reports
<1>2. ASSUME NEW f \in Forms, f \notin excused PROVE FormInOrder(f)'
  BY <1>1, <1>2 DEF TrailInv, FormInOrder
<1>3. QED
  BY <1>2 DEF TrailInv

LEMMA ClerkSteps ==
    ASSUME TrailInv, form' = form, filed' = filed, excused' = excused,
           NEW c \in Clerks, NEW job, job.op # "report",
           Takes(c, job) \/ Rests(c)
    PROVE  TrailInv'
<1>1. DOMAIN clerk' = Clerks /\ \A d \in Clerks : clerk'[d].op = "report" => clerk'[d] = clerk[d]
  BY DEF TrailInv, Takes, Rests, NoWork
<1>2. QED
  BY <1>1, OtherTrailSteps

LEMMA PrepareKeeps == ASSUME TrailInv, NEW f \in Forms, Prepare(f) PROVE TrailInv'
<1>1. PICK a \in Here \cup {Unlinked} : form' = [form EXCEPT ![f] = [status |-> "prepared", app |-> a]]
  BY DEF Prepare
<1>2. form' \in [Forms -> Submission]
  BY <1>1 DEF TrailInv, Submission, SubmissionStatus, Here
<1>3. ASSUME NEW g \in Forms, g \notin excused PROVE FormInOrder(g)'
  <2>1. FormInOrder(g) /\ filed'[g] = filed[g] /\ Reports(g)' = Reports(g) /\ clerk' = clerk
    BY <1>3 DEF TrailInv, Prepare, Reports
  <2>2. CASE g = f
    <3>1. form[f].status = "none"
      BY DEF Prepare
    <3>2. filed'[g] = {} /\ Reports(g)' = {}
      BY <2>1, <2>2, <3>1 DEF FormInOrder
    <3>3. form'[g].status = "prepared"
      BY <1>1, <2>2 DEF TrailInv
    <3>4. QED
      BY <3>2, <3>3 DEF FormInOrder
  <2>3. CASE g # f
    <3>1. form'[g] = form[g]
      BY <1>1, <2>3 DEF TrailInv
    <3>2. QED
      BY <2>1, <3>1 DEF FormInOrder
  <2>4. QED
    BY <2>2, <2>3
<1>4. QED
  BY <1>2, <1>3 DEF TrailInv, Prepare

LEMMA DeletionKeeps == ASSUME TrailInv, NEW a \in Entries, DeleteApplication(a) PROVE TrailInv'
<1>1. form' \in [Forms -> Submission]
  BY DEF TrailInv, DeleteApplication, Submission
<1>2. ASSUME NEW f \in Forms, f \notin excused' PROVE FormInOrder(f)'
  <2>1. form'[f] = form[f] /\ FormInOrder(f)
    BY <1>2 DEF TrailInv, DeleteApplication
  <2>2. Reports(f)' = Reports(f) /\ clerk' = clerk /\ filed' = filed
    BY DEF DeleteApplication, Reports
  <2>3. QED
    BY <2>1, <2>2 DEF FormInOrder
<1>3. QED
  BY <1>1, <1>2 DEF TrailInv, DeleteApplication

LEMMA BeginReportKeeps ==
    ASSUME TrailInv, NEW c \in Clerks, NEW f \in Forms, BeginReport(c, f) PROVE TrailInv'
<1> DEFINE job == [op |-> "report", form |-> f, read |-> form[f]]
<1>1. clerk[c] = NoWork /\ clerk' = [clerk EXCEPT ![c] = job] /\ form' = form /\ filed' = filed
  BY DEF BeginReport, Takes
<1>2. DOMAIN clerk' = Clerks /\ clerk'[c] = job /\ \A d \in Clerks \ {c} : clerk'[d] = clerk[d]
  BY <1>1 DEF TrailInv
<1>3. \A g \in Forms : Reports(g)' = IF g = f THEN Reports(g) \cup {c} ELSE Reports(g)
  BY <1>1, <1>2 DEF Reports, NoWork
<1>4. ASSUME NEW g \in Forms, g \notin excused' PROVE FormInOrder(g)'
  <2>1. g \notin excused /\ FormInOrder(g) /\ (g = f => Reports(f) = {})
    BY <1>4 DEF TrailInv, BeginReport, Reports
  <2>2. \A d \in Reports(g) : d # c
    BY <1>1 DEF Reports, NoWork
  <2>3. CASE g = f
    <3>1. Reports(g)' = {c} /\ clerk'[c].read = form[g] /\ form[g].status # "none"
      BY <1>2, <1>3, <2>1, <2>3 DEF BeginReport
    <3>2. QED
      BY <1>1, <2>1, <3>1 DEF FormInOrder
  <2>4. CASE g # f
    BY <1>1, <1>2, <1>3, <2>1, <2>2, <2>4 DEF FormInOrder
  <2>5. QED
    BY <2>3, <2>4
<1>5. QED
  BY <1>1, <1>2, <1>4 DEF TrailInv

LEMMA ReportKeeps == ASSUME TrailInv, NEW c \in Clerks, ReportSubmitted(c) PROVE TrailInv'
<1> DEFINE f == clerk[c].form  read == clerk[c].read
<1>1. f \in Forms /\ c \in Reports(f) /\ clerk' = [clerk EXCEPT ![c] = NoWork] /\ excused' = excused
  BY DEF TrailInv, ReportSubmitted, Rests, Reports
<1>2. /\ DOMAIN clerk' = Clerks /\ clerk'[c] = NoWork
      /\ \A d \in Clerks \ {c} : clerk'[d] = clerk[d]
  BY <1>1 DEF TrailInv
<1>3. \A g \in Forms : Reports(g)' = Reports(g) \ {c}
  BY <1>2 DEF Reports, NoWork
<1>4. Submitted(f, read) \in SubmissionStatus \ {"none"} \/ f \in excused
  <2>1. f \notin excused => form[f].status # "none"
    BY <1>1 DEF TrailInv, FormInOrder
  <2>2. QED
    BY <1>1, <2>1 DEF Submitted, TrailInv, Submission, SubmissionStatus
<1>5. Submitted(f, read) \in SubmissionStatus
  BY <1>1 DEF Submitted, TrailInv, Submission, SubmissionStatus
<1>6. ASSUME form' \in [Forms -> Submission], DOMAIN filed' = Forms,
             \A g \in Forms \ {f} : form'[g] = form[g] /\ filed'[g] = filed[g],
             f \notin excused => /\ form'[f].status # "none"
                                 /\ filed'[f] \subseteq {form'[f].app} \ {Unlinked}
      PROVE  TrailInv'
  <2>1. ASSUME NEW g \in Forms, g \notin excused PROVE FormInOrder(g)'
    <3>1. FormInOrder(g)
      BY <2>1 DEF TrailInv
    <3>2. CASE g = f
      <4>1. Reports(g)' = {}
        BY <1>1, <1>3, <3>1, <3>2 DEF FormInOrder
      <4>2. QED
        BY <1>6, <2>1, <3>2, <4>1 DEF FormInOrder
    <3>3. CASE g # f
      <4>1. c \notin Reports(g)
        BY <3>3 DEF Reports
      <4>2. Reports(g)' = Reports(g) /\ \A d \in Reports(g) : clerk'[d] = clerk[d]
        BY <1>2, <1>3, <4>1 DEF Reports
      <4>3. QED
        BY <1>6, <3>1, <3>3, <4>2 DEF FormInOrder
    <3>4. QED
      BY <3>2, <3>3
  <2>2. QED
    BY <1>1, <1>2, <1>6, <2>1 DEF TrailInv, NoWork
<1>7. CASE read.app = Unlinked
  <2>1. PICK a \in Entries : OpensApplication(f, read, a)
    BY <1>7 DEF ReportSubmitted
  <2>2. f \notin excused => filed[f] = {}
    BY <1>1, <1>7 DEF TrailInv, FormInOrder
  <2>3. /\ form' \in [Forms -> Submission] /\ DOMAIN filed' = Forms
        /\ form'[f].app = a /\ form'[f].status = Submitted(f, read)
        /\ filed'[f] = filed[f] \cup {a}
        /\ \A g \in Forms \ {f} : form'[g] = form[g] /\ filed'[g] = filed[g]
    BY <1>1, <1>5, <2>1 DEF OpensApplication, TrailInv, Submission
  <2>4. a # Unlinked
    BY UnlinkedAssumption
  <2>5. QED
    BY <1>4, <1>6, <2>2, <2>3, <2>4
<1>8. CASE read.app # Unlinked
  <2>1. form' = [form EXCEPT ![f].status = Submitted(f, read)] /\ filed' = filed
    BY <1>8 DEF ReportSubmitted
  <2>2. /\ form' \in [Forms -> Submission] /\ DOMAIN filed' = Forms
        /\ form'[f].app = form[f].app /\ form'[f].status = Submitted(f, read)
        /\ \A g \in Forms \ {f} : form'[g] = form[g] /\ filed'[g] = filed[g]
    BY <1>1, <1>5, <2>1 DEF TrailInv, Submission
  <2>3. f \notin excused => filed[f] \subseteq {form[f].app} \ {Unlinked}
    BY <1>1 DEF TrailInv, FormInOrder
  <2>4. QED
    BY <1>4, <1>6, <2>1, <2>2, <2>3
<1>9. QED
  BY <1>7, <1>8

LEMMA FailureKeeps == ASSUME TrailInv, NEW f \in Forms, ReportFailed(f) PROVE TrailInv'
<1>1. /\ form' \in [Forms -> Submission] /\ form'[f].status = "failed"
      /\ \A g \in Forms : form'[g].app = form[g].app /\ (g # f => form'[g] = form[g])
  BY DEF ReportFailed, TrailInv, Submission, SubmissionStatus
<1>2. ASSUME NEW g \in Forms, g \notin excused PROVE FormInOrder(g)'
  <2>1. FormInOrder(g) /\ Reports(g)' = Reports(g) /\ clerk' = clerk /\ filed' = filed
    BY <1>2 DEF TrailInv, ReportFailed, Reports
  <2>2. QED
    BY <1>1, <2>1 DEF FormInOrder
<1>3. QED
  BY <1>1, <1>2 DEF TrailInv, ReportFailed

LEMMA TrailStep == TrailInv /\ [TrailNext]_trailVars => TrailInv'
<1> SUFFICES ASSUME TrailInv, [TrailNext]_trailVars PROVE TrailInv'
  OBVIOUS
<1>1. ASSUME form' = form, filed' = filed, excused' = excused, clerk' = clerk PROVE TrailInv'
  BY <1>1, OtherTrailSteps DEF TrailInv
<1>2. ASSUME NEW a \in Entries, AddApplication(a) \/ DeleteApplication(a) PROVE TrailInv'
  BY <1>1, <1>2, DeletionKeeps DEF AddApplication
<1>3. ASSUME NEW f \in Forms, Prepare(f) \/ ReportFailed(f) PROVE TrailInv'
  BY <1>3, PrepareKeeps, FailureKeeps
<1>4. ASSUME NEW c \in Clerks, ReportSubmitted(c) PROVE TrailInv'
  BY <1>4, ReportKeeps
<1>5. ASSUME NEW c \in Clerks, NEW f \in Forms, BeginReport(c, f) PROVE TrailInv'
  BY <1>5, BeginReportKeeps
<1>6. ASSUME NEW c \in Clerks, BeginCalendarSync(c) PROVE TrailInv'
  <2>1. PICK new : Takes(c, [op |-> "sync", new |-> new])
    BY <1>6 DEF BeginCalendarSync
  <2>2. QED
    BY <1>6, <2>1, ClerkSteps DEF BeginCalendarSync
<1>7. ASSUME NEW c \in Clerks, BeginReminders(c) PROVE TrailInv'
  BY <1>7, ClerkSteps DEF BeginReminders
<1>8. ASSUME NEW c \in Clerks,
             CommitCalendarSync(c) \/ LinkedToTimeline(c) \/ CommitReminders(c) \/ ClerkLost(c)
      PROVE  TrailInv'
  <2>1. Rests(c) /\ form' = form /\ filed' = filed /\ excused' = excused
    BY <1>8 DEF CommitCalendarSync, LinkedToTimeline, CommitReminders, ClerkLost
  <2>2. NoWork.op # "report"
    BY DEF NoWork
  <2>3. QED
    BY <2>1, <2>2, ClerkSteps
<1>9. ASSUME NEW c \in Clerks, NEW m \in Meetings, NEW a \in Entries, LinkCalendarEvent(c, m, a)
      PROVE  TrailInv'
  BY <1>9, ClerkSteps DEF LinkCalendarEvent
<1>10. ASSUME NEW n \in TrailNotes,
              \/ DeleteEvent(n) \/ \E due \in Days : UpdateEvent(n, due)
              \/ \E a \in Entries, due \in Days \cup {Never} : AddEvent(n, a, due)
       PROVE  TrailInv'
  BY <1>1, <1>10 DEF DeleteEvent, UpdateEvent, AddEvent
<1>11. CASE NextDay
  BY <1>1, <1>11 DEF NextDay
<1>12. CASE UNCHANGED trailVars
  BY <1>1, <1>12 DEF trailVars
<1>13. QED
  BY <1>2, <1>3, <1>4, <1>5, <1>6, <1>7, <1>8, <1>9, <1>10, <1>11, <1>12 DEF TrailNext

\* A form opens a second application only when it lost the first, or when two
\* reports had it open at once: for any number of forms, requests and tasks.
THEOREM OneFormOneApplication == TrailSpec => []SecondApplicationNeedsOverlapOrDeletion
<1>1. TrailInv => SecondApplicationNeedsOverlapOrDeletion
  <2> SUFFICES ASSUME TrailInv, NEW f \in Forms, f \notin excused
               PROVE  ~ (Cardinality(filed[f]) > 1)
    BY DEF SecondApplicationNeedsOverlapOrDeletion
  <2>1. filed[f] = {} \/ filed[f] = {form[f].app}
    BY DEF TrailInv, FormInOrder
  <2>2. Cardinality({}) = 0 /\ Cardinality({form[f].app}) = 1
    BY FS_EmptySet, FS_Singleton
  <2>3. QED
    BY <2>1, <2>2
<1>2. QED
  BY <1>1, TrailInitInv, TrailStep, PTL DEF TrailSpec
-----------------------------------------------------------------------------
(* The calls of the LLM client.                                            *)

\* The models that may answer a call.
Served(t, structured) ==
  {ModelForTask(t)} \cup
  {m \in Model : /\ ~ structured /\ ModelForTask(t) \in DOMAIN FallbackModel
                 /\ m = FallbackModel[ModelForTask(t)]}

Bound == MaxRetries + 1

\* While it asks, a call has made one request for each attempt with its own
\* model, and with the next model up to Bound more.
CallInOrder(k) ==
  /\ k.model \in Served(k.task, k.structured)
  /\ k.pc = "asking" =>
       /\ k.out.kind = "none" /\ k.attempt <= MaxRetries
       /\ k.asked <= k.attempt + (IF k.model = ModelForTask(k.task) THEN 0 ELSE Bound)
  /\ k.pc # "asking" => k.asked <= (IF k.structured THEN Bound ELSE 2 * Bound)
  /\ k.out.kind \in {"fresh", "cached"} =>
       k.out.answer.to = k.prompt /\ k.out.answer.by \in Served(k.task, k.structured)
  /\ k.out.kind = "cached" => k.asked = 0 /\ ~ k.structured /\ k.task \in CacheableTasks
  /\ k.pc = "caching" => ~ k.structured /\ k.out.kind = "fresh"

\* What is cached answers the prompt of its key.
EntryInOrder(e) == e.answer.to = e.prompt /\ e.answer.by \in Served(e.task, FALSE)

LlmInv ==
  /\ call \in [Callers -> Call] /\ cache \subseteq Entry
  /\ \A c \in Callers : CallInOrder(call[c])
  /\ \A e \in cache : EntryInOrder(e)

LEMMA ModelFacts ==
    /\ \A t : ModelForTask(t) \in Model
    /\ \A m \in DOMAIN FallbackModel : FallbackModel[m] \in Model /\ FallbackModel[m] # m
BY DEF ModelForTask, Model, FallbackModel

LEMMA ClientInOrder ==
    ASSUME NEW t \in Tasks, NEW p \in Prompts, NEW s \in BOOLEAN, NEW pc \in {"asking", "done"}
    PROVE  Client(pc, t, p, s) \in Call /\ CallInOrder(Client(pc, t, p, s))
<1>1. Client(pc, t, p, s) \in Call
  BY ModelFacts DEF Client, Call, Result, NoResult
<1>2. Client(pc, t, p, s).model \in Served(t, s)
  BY DEF Client, Served
<1> DEFINE k == Client(pc, t, p, s)
<1>3. /\ k.pc = pc /\ k.task = t /\ k.structured = s /\ k.attempt = 0 /\ k.asked = 0
      /\ k.out.kind = "none" /\ k.model = ModelForTask(t)
  BY DEF Client, NoResult
<1> HIDE DEF k
<1>4. CallInOrder(k)
  BY <1>2, <1>3, LlmAssumption DEF CallInOrder, Bound, k
<1>5. QED
  BY <1>1, <1>4 DEF k

LEMMA LlmInitInv == LlmInit => LlmInv
<1> SUFFICES ASSUME LlmInit PROVE LlmInv
  OBVIOUS
<1> DEFINE t == CHOOSE t \in Tasks : TRUE  p == CHOOSE p \in Prompts : TRUE
<1>1. t \in Tasks /\ p \in Prompts
  BY LlmAssumption
<1>2. call = [c \in Callers |-> Client("done", t, p, FALSE)] /\ cache = {}
  BY DEF LlmInit
<1> HIDE DEF t, p
<1>3. Client("done", t, p, FALSE) \in Call /\ CallInOrder(Client("done", t, p, FALSE))
  BY <1>1, ClientInOrder
<1>4. QED
  BY <1>2, <1>3 DEF LlmInv

\* A step of one call, the cache as it was.
LEMMA OneCall ==
    ASSUME LlmInv, NEW c \in Callers, NEW k \in Call, CallInOrder(k),
           call' = [call EXCEPT ![c] = k], cache' = cache
    PROVE  LlmInv'
BY DEF LlmInv

LEMMA StartKeeps ==
    ASSUME LlmInv, NEW c \in Callers, NEW t \in Tasks, NEW p \in Prompts, NEW s \in BOOLEAN,
           StartCall(c, t, p, s)
    PROVE  LlmInv'
<1> DEFINE client == Client("asking", t, p, s)
<1>1. client \in Call /\ CallInOrder(client)
  BY ClientInOrder
<1>2. CASE call' = [call EXCEPT ![c] = client]
  <2>1. cache' = cache
    BY DEF StartCall
  <2> HIDE DEF client
  <2>2. QED
    BY <1>1, <1>2, <2>1, OneCall
<1>3. CASE \E e \in cache : /\ ~ s /\ t \in CacheableTasks /\ Key(e, t, p)
                            /\ call' = [call EXCEPT ![c] = [client EXCEPT !.pc = "done",
                                          !.out = [kind |-> "cached", answer |-> e.answer]]]
  <2>1. PICK e \in cache : /\ ~ s /\ t \in CacheableTasks /\ Key(e, t, p)
                           /\ call' = [call EXCEPT ![c] = [client EXCEPT !.pc = "done",
                                         !.out = [kind |-> "cached", answer |-> e.answer]]]
    BY <1>3
  <2> DEFINE k == [client EXCEPT !.pc = "done", !.out = [kind |-> "cached", answer |-> e.answer]]
  <2>2. e \in Entry /\ e.answer.to = p /\ e.answer.by \in Served(t, FALSE)
    BY <2>1 DEF LlmInv, EntryInOrder, Key
  <2>3. k \in Call
    BY <1>1, <2>2 DEF Call, Result, Entry
  <2>4. /\ k.pc = "done" /\ k.task = t /\ k.prompt = p /\ k.structured = s /\ k.asked = 0
        /\ k.model = ModelForTask(t) /\ k.out = [kind |-> "cached", answer |-> e.answer]
    BY DEF Client
  <2>5. CallInOrder(k)
    <3> HIDE DEF k, client
    <3>1. k.model \in Served(t, s) /\ s = FALSE
      BY <2>1, <2>4 DEF Served
    <3>2. 0 <= 2 * Bound
      BY LlmAssumption DEF Bound
    <3>3. k.out.kind = "cached" /\ k.out.answer = e.answer
      BY <2>4
    <3>4. QED
      BY <2>1, <2>2, <2>4, <3>1, <3>2, <3>3 DEF CallInOrder
  <2>6. cache' = cache
    BY DEF StartCall
  <2>7. call' = [call EXCEPT ![c] = k]
    BY <2>1
  <2> HIDE DEF k
  <2>8. QED
    BY <2>3, <2>5, <2>6, <2>7, OneCall
<1>4. QED
  BY <1>2, <1>3 DEF StartCall

\* The fields a step writes.
LEMMA CallWith ==
    ASSUME NEW old \in Call, NEW pc \in {"asking", "caching", "done"}, NEW out \in Result,
           NEW asked \in Nat, NEW attempt \in Nat, NEW model \in Model
    PROVE  /\ [old EXCEPT !.asked = asked, !.out = out, !.pc = pc] \in Call
           /\ [old EXCEPT !.attempt = attempt, !.asked = asked] \in Call
           /\ [old EXCEPT !.model = model, !.attempt = attempt, !.asked = asked] \in Call
<1>1. [old EXCEPT !.asked = asked, !.out = out, !.pc = pc] \in Call
  BY ZenonT(60) DEF Call
<1>2. [old EXCEPT !.attempt = attempt, !.asked = asked] \in Call
  BY ZenonT(60) DEF Call
<1>3. [old EXCEPT !.model = model, !.attempt = attempt, !.asked = asked] \in Call
  BY ZenonT(60) DEF Call
<1>4. QED
  BY <1>1, <1>2, <1>3

\* A call that ends in an error.
LEMMA Raised ==
    ASSUME NEW old \in Call, CallInOrder(old),
           old.asked + 1 <= (IF old.structured THEN Bound ELSE 2 * Bound)
    PROVE  LET k == [old EXCEPT !.asked = @ + 1, !.out = [kind |-> "raised"], !.pc = "done"]
           IN  k \in Call /\ CallInOrder(k)
<1> DEFINE out == [kind |-> "raised"]
           k == [old EXCEPT !.asked = @ + 1, !.out = out, !.pc = "done"]
<1>1. out \in Result /\ out.kind = "raised"
  BY DEF Result
<1> HIDE DEF out
<1>2. k \in Call
  <2>1. old.asked + 1 \in Nat /\ "done" \in {"asking", "caching", "done"} /\ old.model \in Model
    BY DEF Call
  <2>2. QED
    BY <1>1, <2>1, CallWith, Zenon
<1>3. /\ k.pc = "done" /\ k.asked = old.asked + 1 /\ k.out = out /\ k.task = old.task
      /\ k.structured = old.structured /\ k.prompt = old.prompt /\ k.model = old.model
  BY DEF Call
<1>4. CallInOrder(k)
  <2> HIDE DEF k
  <2>1. QED
    BY <1>1, <1>3 DEF CallInOrder
<1>5. QED
  BY <1>2, <1>4 DEF out

LEMMA AnsweredKeeps == ASSUME LlmInv, NEW c \in Callers, Answered(c) PROVE LlmInv'
<1> DEFINE old == call[c]
           fresh == [kind |-> "fresh", answer |-> [to |-> old.prompt, by |-> old.model]]
           k1 == [old EXCEPT !.asked = @ + 1, !.out = fresh,
                             !.pc = IF old.structured THEN "done" ELSE "caching"]
           k2 == [old EXCEPT !.asked = @ + 1, !.out = [kind |-> "raised"], !.pc = "done"]
<1>1. old \in Call /\ CallInOrder(old) /\ old.pc = "asking" /\ cache' = cache
  BY DEF LlmInv, Answered
<1>2. old.asked + 1 <= (IF old.structured THEN Bound ELSE 2 * Bound)
  BY <1>1, LlmAssumption DEF CallInOrder, Call, Served, Bound
<1>3. call' = [call EXCEPT ![c] = k1] \/ (old.structured /\ call' = [call EXCEPT ![c] = k2])
  BY DEF Answered, LlmInv
<1>4. k1 \in Call /\ CallInOrder(k1)
  <2>1. fresh \in Result
    BY <1>1 DEF Call, Result, Answer
  <2> HIDE DEF fresh
  <2>2. k1 \in Call
    <3> DEFINE pc == IF old.structured THEN "done" ELSE "caching"
    <3>1. /\ old.asked + 1 \in Nat /\ pc \in {"asking", "caching", "done"} /\ old.model \in Model
      BY <1>1 DEF Call
    <3> HIDE DEF pc
    <3>2. [old EXCEPT !.asked = old.asked + 1, !.out = fresh, !.pc = pc] \in Call
      BY <1>1, <2>1, <3>1, CallWith
    <3>3. QED
      BY <3>2 DEF pc
  <2>3. /\ k1.pc = (IF old.structured THEN "done" ELSE "caching") /\ k1.asked = old.asked + 1
        /\ k1.out = fresh /\ k1.task = old.task /\ k1.structured = old.structured
        /\ k1.prompt = old.prompt /\ k1.model = old.model
    BY <1>1 DEF Call
  <2>4. fresh.kind = "fresh" /\ fresh.answer.to = old.prompt /\ fresh.answer.by = old.model
    BY DEF fresh
  <2> HIDE DEF k1
  <2>5. CallInOrder(k1)
    BY <1>1, <1>2, <2>3, <2>4 DEF CallInOrder
  <2>6. QED
    BY <2>2, <2>5
<1>5. k2 \in Call /\ CallInOrder(k2)
  BY <1>1, <1>2, Raised
<1> HIDE DEF k1, k2
<1>6. QED
  BY <1>1, <1>3, <1>4, <1>5, OneCall

\* The end of the request loop: over again with the next model, or the error.
LEMMA GivesUpKeeps ==
    ASSUME LlmInv, NEW c \in Callers, call[c].pc = "asking", GivesUp(c), cache' = cache
    PROVE  LlmInv'
<1> DEFINE old == call[c]
           k1 == [old EXCEPT !.model = FallbackModel[@], !.attempt = 0, !.asked = @ + 1]
           k2 == [old EXCEPT !.asked = @ + 1, !.out = [kind |-> "raised"], !.pc = "done"]
<1>1. old \in Call /\ CallInOrder(old)
  BY DEF LlmInv
<1>2. CASE ~ old.structured /\ old.model = ModelForTask(old.task) /\ old.model \in DOMAIN FallbackModel
  <2>1. call' = [call EXCEPT ![c] = k1]
    BY <1>2 DEF GivesUp, LlmInv
  <2>2. FallbackModel[old.model] \in Model /\ FallbackModel[old.model] # old.model
    BY <1>2, ModelFacts
  <2>3. /\ k1 \in Call /\ k1.pc = old.pc /\ k1.asked = old.asked + 1 /\ k1.attempt = 0
        /\ k1.out = old.out /\ k1.task = old.task /\ k1.structured = old.structured
        /\ k1.prompt = old.prompt /\ k1.model = FallbackModel[old.model]
    <3> DEFINE m == FallbackModel[old.model]
    <3>1. k1 = [old EXCEPT !.model = m, !.attempt = 0, !.asked = @ + 1]
      BY <1>1 DEF Call
    <3>2. m \in Model
      BY <2>2
    <3> HIDE DEF m
    <3>3. k1 \in Call
      <4>1. old.asked + 1 \in Nat /\ 0 \in Nat /\ old.out \in Result /\ old.pc \in {"asking", "caching", "done"}
        BY <1>1 DEF Call
      <4>2. [old EXCEPT !.model = m, !.attempt = 0, !.asked = old.asked + 1] \in Call
        BY <1>1, <3>2, <4>1, CallWith
      <4>3. QED
        BY <4>2 DEF m
    <3>4. QED
      BY <1>1, <3>1, <3>3 DEF Call, m
  <2>4. FallbackModel[old.model] \in Served(old.task, old.structured)
    BY <1>2, <2>2 DEF Served
  <2>5. old.asked + 1 <= 0 + Bound
    BY <1>1, <1>2, LlmAssumption DEF CallInOrder, Call, Bound
  <2> HIDE DEF k1
  <2>6. CallInOrder(k1)
    BY <1>1, <1>2, <2>2, <2>3, <2>4, <2>5, LlmAssumption DEF CallInOrder
  <2>7. QED
    BY <2>1, <2>3, <2>6, OneCall
<1>3. CASE ~ (~ old.structured /\ old.model = ModelForTask(old.task) /\ old.model \in DOMAIN FallbackModel)
  <2>1. call' = [call EXCEPT ![c] = k2]
    BY <1>3 DEF GivesUp, LlmInv
  <2>2. old.asked + 1 <= (IF old.structured THEN Bound ELSE 2 * Bound)
    BY <1>1, LlmAssumption DEF CallInOrder, Call, Served, Bound
  <2>3. k2 \in Call /\ CallInOrder(k2)
    BY <1>1, <2>2, Raised
  <2> HIDE DEF k2
  <2>4. QED
    BY <2>1, <2>3, OneCall
<1>4. QED
  BY <1>2, <1>3

LEMMA TransientKeeps == ASSUME LlmInv, NEW c \in Callers, TransientError(c) PROVE LlmInv'
<1> DEFINE old == call[c]
           k == [old EXCEPT !.attempt = @ + 1, !.asked = @ + 1]
<1>1. old \in Call /\ CallInOrder(old) /\ old.pc = "asking" /\ cache' = cache
  BY DEF LlmInv, TransientError
<1>2. CASE old.attempt < MaxRetries
  <2>1. call' = [call EXCEPT ![c] = k]
    BY <1>2 DEF TransientError, LlmInv
  <2>2. old.attempt + 1 \in Nat /\ old.asked + 1 \in Nat /\ old.asked \in Nat
    BY <1>1 DEF Call
  <2>3. /\ k \in Call /\ k.pc = "asking" /\ k.asked = old.asked + 1 /\ k.attempt = old.attempt + 1
        /\ k.out = old.out /\ k.task = old.task /\ k.structured = old.structured
        /\ k.prompt = old.prompt /\ k.model = old.model
    BY <1>1, <2>2 DEF Call
  <2> HIDE DEF k
  <2>4. k.pc = "asking" /\ k.out.kind = "none" /\ k.attempt <= MaxRetries
    BY <1>1, <1>2, <2>2, <2>3, LlmAssumption DEF CallInOrder, Call
  <2>5. k.asked <= k.attempt + (IF k.model = ModelForTask(k.task) THEN 0 ELSE Bound)
    BY <1>1, <2>2, <2>3, LlmAssumption DEF CallInOrder, Bound, Call
  <2>6. CallInOrder(k)
    BY <1>1, <2>3, <2>4, <2>5 DEF CallInOrder
  <2>7. QED
    BY <1>1, <2>1, <2>3, <2>6, OneCall
<1>3. CASE ~ (old.attempt < MaxRetries)
  BY <1>1, <1>3, GivesUpKeeps DEF TransientError
<1>4. QED
  BY <1>2, <1>3

LEMMA SetCachedKeeps == ASSUME LlmInv, NEW c \in Callers, SetCached(c) PROVE LlmInv'
<1> DEFINE old == call[c]
           k == [old EXCEPT !.pc = "done"]
           e == [task |-> old.task, model |-> ModelForTask(old.task),
                 prompt |-> old.prompt, answer |-> old.out.answer]
<1>1. old \in Call /\ CallInOrder(old) /\ old.pc = "caching" /\ call' = [call EXCEPT ![c] = k]
  BY DEF LlmInv, SetCached
<1>2. k \in Call /\ CallInOrder(k)
  BY <1>1 DEF Call, CallInOrder
<1>3. old.out.kind = "fresh" /\ old.out.answer \in Answer
  BY <1>1 DEF Call, Result, CallInOrder
<1>4. e \in Entry /\ EntryInOrder(e)
  <2>1. ~ old.structured
    BY <1>1 DEF CallInOrder
  <2>2. e.answer.to = e.prompt
    BY <1>1, <1>3 DEF CallInOrder
  <2>3. old.out.answer.by \in Served(old.task, FALSE)
    BY <1>1, <1>3, <2>1 DEF CallInOrder, Served
  <2>4. QED
    BY <1>1, <1>3, <2>2, <2>3, ModelFacts DEF Entry, EntryInOrder, Call
<1>5. cache' \subseteq cache \cup {e}
  BY DEF SetCached
<1> HIDE DEF k, e
<1>6. QED
  BY <1>1, <1>2, <1>4, <1>5 DEF LlmInv

LEMMA LlmStep == LlmInv /\ [LlmNext]_llmVars => LlmInv'
<1> SUFFICES ASSUME LlmInv, [LlmNext]_llmVars PROVE LlmInv'
  OBVIOUS
<1>1. ASSUME NEW c \in Callers, Answered(c) \/ TransientError(c) \/ SetCached(c) PROVE LlmInv'
  BY <1>1, AnsweredKeeps, TransientKeeps, SetCachedKeeps
<1>2. ASSUME NEW c \in Callers, StatusError(c) PROVE LlmInv'
  BY <1>2, GivesUpKeeps DEF StatusError
<1>3. ASSUME NEW c \in Callers, NEW t \in Tasks, NEW p \in Prompts, NEW s \in BOOLEAN,
             StartCall(c, t, p, s)
      PROVE  LlmInv'
  BY <1>3, StartKeeps
<1>4. ASSUME call' = call, cache' \subseteq cache PROVE LlmInv'
  BY <1>4 DEF LlmInv
<1>5. CASE (\E e \in cache : Expire(e)) \/ RedisOutage \/ UNCHANGED llmVars
  BY <1>4, <1>5 DEF Expire, RedisOutage, llmVars
<1>6. QED
  BY <1>1, <1>2, <1>3, <1>5 DEF LlmNext

\* Every answer is to the prompt that was asked, by the model of the task or the
\* next one up, within the requests allowed: for any number of processes, tasks,
\* prompts and retries.
THEOREM AnswersAreOwn == LlmSpec => []AnswerIsOwn
<1>1. LlmInv => AnswerIsOwn
  <2> SUFFICES ASSUME LlmInv, NEW c \in Callers
               PROVE  LET k == call[c]  own == ModelForTask(k.task)  bound == MaxRetries + 1 IN
                      /\ HasAnswer(c) =>
                           /\ k.out.answer.to = k.prompt
                           /\ \/ k.out.answer.by = own
                              \/ ~ k.structured /\ own \in DOMAIN FallbackModel
                                   /\ k.out.answer.by = FallbackModel[own]
                      /\ k.asked <= (IF k.structured THEN bound ELSE 2 * bound)
                      /\ k.out.kind = "cached" =>
                           k.asked = 0 /\ ~ k.structured /\ k.task \in CacheableTasks
    BY DEF AnswerIsOwn
  <2>1. call[c] \in Call /\ CallInOrder(call[c])
    BY DEF LlmInv
  <2>2. call[c].asked <= (IF call[c].structured THEN Bound ELSE 2 * Bound)
    BY <2>1, LlmAssumption DEF CallInOrder, Call, Served, Bound
  <2>3. QED
    BY <2>1, <2>2 DEF CallInOrder, HasAnswer, Served, Bound
<1>2. QED
  BY <1>1, LlmInitInv, LlmStep, PTL DEF LlmSpec

-----------------------------------------------------------------------------
(* What a user's row has learned from outcomes.                             *)

\* A quotient is rounded by half of it at most.
LEMMA RoundedIs ==
    ASSUME NEW x \in Int, NEW n \in Nat \ {0}
    PROVE  /\ RoundedQuotient(x, n) \in Int
           /\ 2 * (n * RoundedQuotient(x, n) - x) <= n
           /\ 0 - n <= 2 * (n * RoundedQuotient(x, n) - x)
<1> DEFINE q == x \div n  r == x % n  z == RoundedQuotient(x, n)
<1>1. q \in Int /\ r \in 0..n - 1 /\ x = n * q + r
  OBVIOUS
<1>2. z = q \/ z = q + 1
  <2>1. q % 2 = 0 \/ q % 2 = 1
    BY <1>1
  <2>2. QED
    BY <1>1, <2>1 DEF RoundedQuotient
<1>3. z = q => 2 * r <= n
  BY <1>1, <1>2 DEF RoundedQuotient
<1>4. z = q + 1 => 2 * r >= n
  BY <1>1, <1>2 DEF RoundedQuotient
<1> HIDE DEF q, r, z
<1>5. n * (q + 1) = n * q + n
  BY <1>1
<1>6. QED
  BY <1>1, <1>2, <1>3, <1>4, <1>5 DEF z

EntryOK(e, total) ==
  /\ e \in [rate : Int, count : Nat] /\ total \in Int
  /\ 4 * (e.rate * e.count - total) <= e.count * (e.count + 1)
  /\ 4 * (total - e.rate * e.count) <= e.count * (e.count + 1)

\* One outcome more, and the mean is off by a half more at most.
LEMMA MeanOK ==
    ASSUME NEW e, NEW total, EntryOK(e, total), NEW score \in Int
    PROVE  /\ EntryOK(UpdateRunningMean(e, score), total + score)
           /\ UpdateRunningMean(e, score).count = e.count + 1
<1> DEFINE a == e.rate  c == e.count  n == c + 1
           x == a * n + (score - a)
           b == RoundedQuotient(x, n)
           m == UpdateRunningMean(e, score)
<1>1. a \in Int /\ c \in Nat /\ n \in Nat \ {0} /\ total \in Int
  BY DEF EntryOK
<1>2. m = [rate |-> b, count |-> n]
  BY DEF UpdateRunningMean
<1>3. x \in Int /\ x = a * c + score
  <2> HIDE DEF a, c
  <2>1. a * (c + 1) = a * c + a /\ a * c \in Int
    BY <1>1
  <2>2. QED
    BY <1>1, <2>1
<1>4. b \in Int /\ 2 * (n * b - x) <= n /\ 0 - n <= 2 * (n * b - x)
  <2> HIDE DEF x, n
  <2>1. QED
    BY <1>1, <1>3, RoundedIs
<1> DEFINE p == n * b  w == a * c  cc == c * (c + 1)
<1>5. /\ 4 * (w - total) <= cc /\ 4 * (total - w) <= cc
  BY DEF EntryOK
<1> HIDE DEF a, b, c, m, x
<1>6. /\ p \in Int /\ w \in Int /\ cc \in Int /\ b * n = p
      /\ n * (n + 1) = cc + 2 * n
  BY <1>1, <1>4
<1> HIDE DEF p, w, cc
<1>7. /\ 2 * (p - (w + score)) <= n /\ 0 - n <= 2 * (p - (w + score))
  BY <1>3, <1>4 DEF p, w
<1> DEFINE nn == n * (n + 1)
<1>8. nn = cc + 2 * n /\ n \in Int
  BY <1>1, <1>6
<1> HIDE DEF n, nn
<1>9. /\ 4 * (p - (total + score)) <= nn
      /\ 4 * (total + score - p) <= nn
  BY <1>1, <1>5, <1>6, <1>7, <1>8
<1>10. m.rate = b /\ m.count = n /\ m \in [rate : Int, count : Nat]
  BY <1>1, <1>2, <1>4
<1>11. total + score \in Int
  BY <1>1
<1>12. EntryOK(m, total + score)
  BY <1>6, <1>9, <1>10, <1>11 DEF EntryOK, nn
<1>13. QED
  BY <1>10, <1>12 DEF m, n, c

-----------------------------------------------------------------------------
LearnedRow == [effect : [SignalTypes -> [rate : Int, count : Nat]],
               memory : Seq(Outcome), samples : Nat, sums : [SignalTypes -> Int]]

\* What a row has learned agrees with the scores it was given.
RowOK(row) ==
  /\ row \in LearnedRow
  /\ \A t \in SignalTypes : EntryOK(row.effect[t], row.sums[t])
  /\ IsFiniteSet(Samples(row.effect)) /\ row.samples = Cardinality(Samples(row.effect))
  /\ Len(row.memory) = AtMost(MemorySize, row.samples)

\* The memory takes one more, and forgets the first when it is full.
LEMMA MemoryKeeps ==
    ASSUME NEW seq \in Seq(Outcome), NEW o \in Outcome, NEW n \in Nat,
           Len(seq) = AtMost(MemorySize, n)
    PROVE  /\ KeepLast(Append(seq, o)) \in Seq(Outcome)
           /\ Len(KeepLast(Append(seq, o))) = AtMost(MemorySize, n + 1)
<1> DEFINE all == Append(seq, o)
<1>1. /\ all \in Seq(Outcome) /\ Len(all) = Len(seq) + 1 /\ Len(seq) \in Nat
      /\ MemorySize \in Nat
  BY LearningAssumption
<1> HIDE DEF all
<1>2. CASE Len(all) <= MemorySize
  <2>1. KeepLast(all) = all
    BY <1>2 DEF KeepLast
  <2>2. Len(seq) = n
    BY <1>1, <1>2 DEF AtMost
  <2>3. QED
    BY <1>1, <1>2, <2>1, <2>2 DEF AtMost, all
<1>3. CASE ~ (Len(all) <= MemorySize)
  <2> DEFINE m == Len(all) - MemorySize + 1
  <2>1. KeepLast(all) = SubSeq(all, m, Len(all))
    BY <1>3 DEF KeepLast
  <2>2. m \in 1..Len(all) + 1 /\ Len(all) - m + 1 = MemorySize /\ Len(all) \in Nat
    BY <1>1, <1>3
  <2> HIDE DEF m
  <2>3. SubSeq(all, m, Len(all)) \in Seq(Outcome)
        /\ Len(SubSeq(all, m, Len(all))) = MemorySize
    BY <1>1, <2>2
  <2>4. AtMost(MemorySize, n + 1) = MemorySize
    BY <1>1, <1>3 DEF AtMost
  <2>5. QED
    BY <2>1, <2>3, <2>4 DEF all
<1>4. QED
  BY <1>2, <1>3

\* One more in an entry is one sample more.
LEMMA OneSampleMore ==
    ASSUME NEW e, NEW f, NEW t \in SignalTypes,
           \A x \in SignalTypes : e[x].count \in Nat,
           f[t].count = e[t].count + 1,
           \A x \in SignalTypes \ {t} : f[x].count = e[x].count,
           IsFiniteSet(Samples(e))
    PROVE  /\ IsFiniteSet(Samples(f))
           /\ Cardinality(Samples(f)) = Cardinality(Samples(e)) + 1
<1> DEFINE p == <<t, e[t].count + 1>>
<1>1. \A x, i : <<x, i>> \in Samples(e) <=> x \in SignalTypes /\ i \in 1..e[x].count
  BY DEF Samples
<1>2. \A x, i : <<x, i>> \in Samples(f) <=> x \in SignalTypes /\ i \in 1..f[x].count
  BY DEF Samples
<1>3. /\ \A q \in Samples(e) : \E x, i : q = <<x, i>>
      /\ \A q \in Samples(f) : \E x, i : q = <<x, i>>
  BY DEF Samples
<1>4. p \notin Samples(e)
  BY <1>1
<1>5. \A x, i : <<x, i>> \in Samples(f) <=> <<x, i>> \in Samples(e) \/ <<x, i>> = p
  <2> SUFFICES ASSUME NEW x, NEW i
               PROVE  <<x, i>> \in Samples(f) <=> <<x, i>> \in Samples(e) \/ <<x, i>> = p
    OBVIOUS
  <2>1. CASE x = t
    <3>1. e[t].count \in Nat /\ f[t].count = e[t].count + 1
      OBVIOUS
    <3>2. i \in 1..f[t].count <=> i \in 1..e[t].count \/ i = e[t].count + 1
      BY <3>1
    <3>3. QED
      BY <1>1, <1>2, <2>1, <3>2
  <2>2. CASE x # t
    BY <1>1, <1>2, <2>2
  <2>3. QED
    BY <2>1, <2>2
<1>6. Samples(f) = Samples(e) \cup {p}
  <2>1. \A q \in Samples(f) : q \in Samples(e) \/ q = p
    BY <1>3, <1>5
  <2>2. \A q \in Samples(e) : q \in Samples(f)
    BY <1>3, <1>5
  <2>3. p \in Samples(f)
    BY <1>5
  <2>4. QED
    BY <2>1, <2>2, <2>3
<1> HIDE DEF p
<1>7. QED
  BY <1>4, <1>6, FS_AddElement

\* A row learns from one outcome.
LEMMA UpdateOK ==
    ASSUME NEW row, RowOK(row), NEW t \in SignalTypes, NEW o \in Outcome
    PROVE  LET new == UpdateFromOutcome(row, t, o) IN
           /\ RowOK(new)
           /\ new.effect[t].count = row.effect[t].count + 1
           /\ \A x \in SignalTypes \ {t} : new.effect[x].count = row.effect[x].count
<1> DEFINE new == UpdateFromOutcome(row, t, o)
           e == row.effect  f == new.effect
           totals == row.sums  sums == new.sums
           m == UpdateRunningMean(e[t], OutcomeScore(o))
<1>1. /\ row \in LearnedRow /\ totals \in [SignalTypes -> Int]
      /\ \A x \in SignalTypes : EntryOK(e[x], totals[x])
      /\ IsFiniteSet(Samples(e)) /\ row.samples = Cardinality(Samples(e))
      /\ Len(row.memory) = AtMost(MemorySize, row.samples)
  BY DEF RowOK, LearnedRow
<1>2. OutcomeScore(o) \in Int
  BY DEF OutcomeScore, Outcome, One
<1>3. EntryOK(m, totals[t] + OutcomeScore(o)) /\ m.count = e[t].count + 1
  <2>1. EntryOK(e[t], totals[t])
    BY <1>1
  <2> HIDE DEF e, totals
  <2>2. QED
    BY <1>2, <2>1, MeanOK
<1>4. /\ e \in [SignalTypes -> [rate : Int, count : Nat]]
      /\ row.memory \in Seq(Outcome) /\ row.samples \in Nat
  BY <1>1 DEF LearnedRow
<1>5. /\ new = [effect |-> f, memory |-> new.memory, samples |-> new.samples, sums |-> sums]
      /\ f = [e EXCEPT ![t] = m]
      /\ new.memory = KeepLast(Append(row.memory, o))
      /\ new.samples = row.samples + 1
      /\ sums = [totals EXCEPT ![t] = totals[t] + OutcomeScore(o)]
  BY DEF UpdateFromOutcome
<1> HIDE DEF m, e, f, new, totals, sums
<1>6. m \in [rate : Int, count : Nat]
  BY <1>3 DEF EntryOK
<1>7. f \in [SignalTypes -> [rate : Int, count : Nat]] /\ f[t] = m
      /\ \A x \in SignalTypes \ {t} : f[x] = e[x]
  BY <1>4, <1>5, <1>6
<1>8. sums \in [SignalTypes -> Int] /\ sums[t] = totals[t] + OutcomeScore(o)
      /\ \A x \in SignalTypes \ {t} : sums[x] = totals[x]
  BY <1>1, <1>2, <1>5
<1>9. \A x \in SignalTypes : EntryOK(f[x], sums[x])
  BY <1>1, <1>3, <1>7, <1>8
<1>10. /\ f[t].count = e[t].count + 1
       /\ \A x \in SignalTypes \ {t} : f[x].count = e[x].count
       /\ \A x \in SignalTypes : e[x].count \in Nat
  BY <1>3, <1>4, <1>7
<1>11. IsFiniteSet(Samples(f)) /\ Cardinality(Samples(f)) = Cardinality(Samples(e)) + 1
  BY <1>1, <1>10, OneSampleMore
<1>12. /\ new.memory \in Seq(Outcome)
       /\ Len(new.memory) = AtMost(MemorySize, row.samples + 1)
  BY <1>1, <1>4, <1>5, MemoryKeeps
<1>13. new \in LearnedRow
  <2> DEFINE mm == new.memory  ss == new.samples
  <2>1. mm \in Seq(Outcome) /\ ss \in Nat
    BY <1>4, <1>5, <1>12
  <2>2. new = [effect |-> f, memory |-> mm, samples |-> ss, sums |-> sums]
    BY <1>5
  <2> HIDE DEF mm, ss
  <2>3. QED
    BY <1>7, <1>8, <2>1, <2>2 DEF LearnedRow
<1>14. RowOK(new)
  BY <1>1, <1>5, <1>8, <1>9, <1>11, <1>12, <1>13 DEF RowOK, f, sums
<1>15. QED
  BY <1>10, <1>14 DEF new, f, e

-----------------------------------------------------------------------------
\* A signal not among them is one more for its user and type.
LEMMA OneSignalMore ==
    ASSUME NEW T \in SUBSET Signals, NEW s \in Signals, s \notin T, NEW u, NEW t
    PROVE  /\ Cardinality(OfBoth(T, u, t)) \in Nat
           /\ UserOf[s] = u /\ TypeOf[s] = t =>
                Cardinality(OfBoth(T \cup {s}, u, t)) = Cardinality(OfBoth(T, u, t)) + 1
           /\ ~ (UserOf[s] = u /\ TypeOf[s] = t) =>
                OfBoth(T \cup {s}, u, t) = OfBoth(T, u, t)
<1> DEFINE A == OfBoth(T, u, t)  B == OfBoth(T \cup {s}, u, t)
<1>1. IsFiniteSet(A)
  BY FS_Subset, LearningAssumption DEF OfBoth
<1>2. s \notin A /\ (UserOf[s] = u /\ TypeOf[s] = t => B = A \cup {s})
      /\ (~ (UserOf[s] = u /\ TypeOf[s] = t) => B = A)
  BY DEF OfBoth
<1> HIDE DEF A, B
<1>3. Cardinality(A) \in Nat /\ Cardinality(A \cup {s}) = Cardinality(A) + 1
  BY <1>1, <1>2, FS_CardinalityType, FS_AddElement
<1>4. QED
  BY <1>2, <1>3 DEF A, B

LEMMA NoneLearned ==
    /\ RowOK(NewRow)
    /\ \A t \in SignalTypes : NewRow.effect[t].count = 0
<1> DEFINE blank == [rate |-> 0, count |-> 0]
<1>1. /\ NewRow \in LearnedRow
      /\ \A t \in SignalTypes : NewRow.effect[t] = blank /\ NewRow.sums[t] = 0
      /\ NewRow.samples = 0 /\ NewRow.memory = <<>>
  BY DEF NewRow, LearnedRow
<1>2. EntryOK(blank, 0)
  BY DEF EntryOK
<1>3. Samples(NewRow.effect) = {}
  <2>1. \A t \in SignalTypes : 1..NewRow.effect[t].count = {}
    BY <1>1
  <2>2. QED
    BY <2>1 DEF Samples
<1>4. AtMost(MemorySize, 0) = 0
  BY LearningAssumption DEF AtMost
<1>5. QED
  BY <1>1, <1>2, <1>3, <1>4, FS_EmptySet DEF RowOK

-----------------------------------------------------------------------------
Txn == [kind : {"idle", "matched", "record", "sweep"}, outcome : Outcome \cup {"none"},
        waiting : SUBSET Users, marks : SUBSET Signals, todo : SUBSET Signals,
        locked : SUBSET Signals, rows : [Users -> LearnedRow], loaded : SUBSET Users,
        inserted : SUBSET Users, lost : BOOLEAN]

HeldBy(x) == x.loaded \cup x.inserted

\* A transaction learns of signals it marks, and holds rows of their users.
TxnOK(x) ==
  /\ x \in Txn /\ \A u \in Users : RowOK(x.rows[u])
  /\ x.todo \subseteq x.marks
  /\ IF x.kind = "idle" THEN x.marks = {} ELSE x.outcome \in Outcome
  /\ \A s \in x.marks : UserOf[s] \notin x.waiting
  /\ \A u \in HeldBy(x) : \E s \in x.marks : UserOf[s] = u

\* As far as u goes, a transaction nobody disturbed marks what was not counted
\* and holds in u's row, once it has it, what was and what it learned itself.
SettledTxn(x, u, done, rows) ==
  /\ \A s \in x.marks : UserOf[s] = u => s \notin done
  /\ u \in HeldBy(x) /\ ~ x.lost =>
       \A t \in SignalTypes : x.rows[u].effect[t].count
             = Cardinality(OfBoth(done \cup (x.marks \ x.todo), u, t))
  /\ u \notin HeldBy(x) => \A s \in x.marks : UserOf[s] = u => s \in x.todo
  /\ u \in x.inserted => rows = {}

SignalsInv ==
  /\ signals \in [Signals -> HiddenSignal]
  /\ counted \in SUBSET Signals
  /\ \A s \in Signals :
       /\ signals[s].there => ~ signals[s].gone
       /\ signals[s].tracked => signals[s].there /\ s \in counted
       /\ s \in counted => signals[s].gone \/ signals[s].tracked
  /\ \A l \in Learners : \A s \in txn[l].marks : signals[s].there \/ signals[s].gone

RowsInv ==
  /\ DOMAIN learning = Users
  /\ \A u \in Users : \A row \in learning[u] : learning[u] = {row} /\ RowOK(row)

TxnsInv == DOMAIN txn = Learners /\ \A l \in Learners : TxnOK(txn[l])

SettledUser(u) ==
  /\ \A t \in SignalTypes : EntryCount(u, t) = Cardinality(OfBoth(counted, u, t))
  /\ \A l \in Learners : SettledTxn(txn[l], u, counted, learning[u])
  /\ \A k, l \in Learners : u \in Touched(k) /\ u \in Touched(l) => k = l

LearnInv == /\ SignalsInv /\ RowsInv /\ TxnsInv
            /\ \A u \in Users : u \notin disturbed => SettledUser(u)

LEMMA IdleOK ==
    /\ TxnOK(Idle) /\ HeldBy(Idle) = {} /\ Idle.marks = {}
    /\ \A u, done, rows : SettledTxn(Idle, u, done, rows)
<1>1. /\ Idle.kind = "idle" /\ Idle.marks = {} /\ Idle.todo = {} /\ Idle.waiting = {}
      /\ HeldBy(Idle) = {} /\ Idle.inserted = {}
      /\ \A u \in Users : Idle.rows[u] = NewRow
  BY DEF Idle, HeldBy
<1>2. Idle \in Txn
  <2>1. [u \in Users |-> NewRow] \in [Users -> LearnedRow]
    BY NoneLearned DEF RowOK
  <2>2. QED
    BY <2>1 DEF Idle, Txn
<1>3. QED
  BY <1>1, <1>2, NoneLearned DEF TxnOK, SettledTxn

LEMMA LearnInitInv == LearnInit => LearnInv
<1> SUFFICES ASSUME LearnInit PROVE LearnInv
  OBVIOUS
<1>1. /\ \A s \in Signals : signals[s] = NoSignal
      /\ \A u \in Users : learning[u] = {}
      /\ \A l \in Learners : txn[l] = Idle
      /\ DOMAIN learning = Users /\ DOMAIN txn = Learners
      /\ counted = {} /\ signals \in [Signals -> {NoSignal}]
  BY DEF LearnInit
<1>2. NoSignal \in HiddenSignal /\ ~ NoSignal.there /\ ~ NoSignal.tracked
  BY DEF NoSignal, HiddenSignal
<1>3. SignalsInv
  BY <1>1, <1>2, IdleOK DEF SignalsInv
<1>4. RowsInv /\ TxnsInv
  BY <1>1, IdleOK DEF RowsInv, TxnsInv
<1>5. ASSUME NEW u \in Users PROVE SettledUser(u)
  <2>1. \A t \in SignalTypes : EntryCount(u, t) = 0 /\ OfBoth(counted, u, t) = {}
    BY <1>1 DEF EntryCount, OfBoth
  <2>2. \A l \in Learners : Touched(l) = {}
    BY <1>1, IdleOK DEF Touched
  <2>3. QED
    BY <1>1, <2>1, <2>2, IdleOK, FS_EmptySet DEF SettledUser
<1>6. QED
  BY <1>3, <1>4, <1>5 DEF LearnInv

\* What is the same as far as u goes stays settled.
LEMMA SettledFrame ==
    ASSUME NEW x, NEW y, NEW u, NEW done, NEW rows, SettledTxn(x, u, done, rows),
           NEW after, \A s : UserOf[s] = u => (s \in after <=> s \in done),
           \A s : UserOf[s] = u => (s \in y.marks <=> s \in x.marks)
                                  /\ (s \in y.todo <=> s \in x.todo),
           u \in HeldBy(y) <=> u \in HeldBy(x),
           u \in HeldBy(x) => x.lost \/ y.lost \/ y.rows[u] = x.rows[u],
           x.lost => y.lost,
           NEW rows2, u \in y.inserted => rows2 = {}
    PROVE  SettledTxn(y, u, after, rows2)
<1>1. \A t : OfBoth(after \cup (y.marks \ y.todo), u, t)
           = OfBoth(done \cup (x.marks \ x.todo), u, t)
  BY DEF OfBoth
<1>2. QED
  BY <1>1 DEF SettledTxn

Same(x, y, u) ==
  /\ \A s : UserOf[s] = u => (s \in y.marks <=> s \in x.marks)
                           /\ (s \in y.todo <=> s \in x.todo)
  /\ u \in HeldBy(y) <=> u \in HeldBy(x)
  /\ u \in y.inserted => u \in x.inserted
  /\ u \in HeldBy(x) => x.lost \/ y.lost \/ y.rows[u] = x.rows[u]
  /\ x.lost => y.lost

LEMMA UserKept ==
    ASSUME NEW u \in Users, SettledUser(u), learning'[u] = learning[u],
           \A s : UserOf[s] = u => (s \in counted' <=> s \in counted),
           \A l \in Learners : Same(txn[l], txn'[l], u)
    PROVE  SettledUser(u)'
<1>1. \A t : OfBoth(counted, u, t)' = OfBoth(counted, u, t)
  BY DEF OfBoth
<1>2. \A t : EntryCount(u, t)' = EntryCount(u, t)
  BY DEF EntryCount
<1>3. ASSUME NEW l \in Learners
      PROVE  SettledTxn(txn'[l], u, counted', learning'[u])
  <2>1. SettledTxn(txn[l], u, counted, learning[u]) /\ Same(txn[l], txn'[l], u)
    BY DEF SettledUser
  <2>2. u \in txn'[l].inserted => learning'[u] = {}
    BY <2>1 DEF SettledTxn, Same
  <2>3. QED
    BY <2>1, <2>2, SettledFrame DEF Same
<1>4. \A l \in Learners : u \in Touched(l)' => u \in Touched(l)
  BY DEF Touched, Same
<1>5. QED
  BY <1>1, <1>2, <1>3, <1>4 DEF SettledUser

\* A step of one transaction that commits nothing.
LEMMA TxnMoves ==
    ASSUME LearnInv, NEW k \in Learners, DOMAIN txn' = Learners,
           \A l \in Learners \ {k} : txn'[l] = txn[l],
           TxnOK(txn'[k]), \A s \in txn'[k].marks : signals[s].there \/ signals[s].gone,
           UNCHANGED <<signals, learning, counted>>, disturbed \subseteq disturbed',
           \A u \in Users : u \notin disturbed' =>
              \/ Same(txn[k], txn'[k], u)
              \/ /\ SettledTxn(txn'[k], u, counted, learning[u])
                 /\ \/ u \in Touched(k) \/ u \notin Touched(k)'
                    \/ \A l \in Learners \ {k} : u \notin Touched(l)
    PROVE  LearnInv'
<1>1. SignalsInv'
  <2>1. ASSUME NEW l \in Learners, NEW s \in txn'[l].marks
        PROVE  signals[s].there \/ signals[s].gone
    <3>1. CASE l = k
      BY <3>1
    <3>2. CASE l # k
      BY <3>2 DEF LearnInv, SignalsInv
    <3>3. QED
      BY <3>1, <3>2
  <2>2. QED
    BY <2>1 DEF LearnInv, SignalsInv
<1>2. RowsInv'
  BY DEF LearnInv, RowsInv
<1>3. TxnsInv'
  BY DEF LearnInv, TxnsInv
<1>4. ASSUME NEW u \in Users, u \notin disturbed' PROVE SettledUser(u)'
  <2>1. SettledUser(u)
    BY <1>4 DEF LearnInv
  <2>2. \A l \in Learners \ {k} : Same(txn[l], txn'[l], u)
    BY DEF Same
  <2>3. CASE Same(txn[k], txn'[k], u)
    BY <2>1, <2>2, <2>3, UserKept
  <2>4. CASE ~ Same(txn[k], txn'[k], u)
    <3>1. /\ SettledTxn(txn'[k], u, counted, learning[u])
          /\ \/ u \in Touched(k) \/ u \notin Touched(k)'
             \/ \A l \in Learners \ {k} : u \notin Touched(l)
      BY <1>4, <2>4
    <3>2. \A l \in Learners : SettledTxn(txn'[l], u, counted', learning'[u])
      BY <2>1, <3>1 DEF SettledUser
    <3>3. \A l \in Learners \ {k} : Touched(l)' = Touched(l)
      BY DEF Touched
    <3>4. ASSUME NEW i \in Learners, NEW l \in Learners, u \in Touched(i)', u \in Touched(l)'
          PROVE  i = l
      <4> SUFFICES ASSUME i # l PROVE FALSE
        OBVIOUS
      <4>1. \A m \in Learners : \A n \in Learners :
              u \in Touched(m) /\ u \in Touched(n) => m = n
        BY <2>1 DEF SettledUser
      <4>2. PICK m \in Learners \ {k} : u \in Touched(m)
        BY <3>3, <3>4
      <4>3. CASE i = k \/ l = k
        BY <3>1, <3>4, <4>1, <4>2, <4>3
      <4>4. CASE i # k /\ l # k
        BY <3>3, <3>4, <4>1, <4>4
      <4>5. QED
        BY <4>3, <4>4
    <3>5. \A t : EntryCount(u, t)' = EntryCount(u, t) /\ OfBoth(counted, u, t)' = OfBoth(counted, u, t)
      BY DEF EntryCount, OfBoth
    <3>6. QED
      BY <2>1, <3>2, <3>4, <3>5 DEF SettledUser
  <2>5. QED
    BY <2>3, <2>4
<1>5. QED
  BY <1>1, <1>2, <1>3, <1>4 DEF LearnInv

LEMMA RollbackKeeps == ASSUME LearnInv, NEW l \in Learners, Rollback(l) PROVE LearnInv'
<1>1. /\ DOMAIN txn' = Learners /\ txn'[l] = Idle
      /\ \A k \in Learners \ {l} : txn'[k] = txn[k]
      /\ UNCHANGED <<signals, learning, counted, disturbed>>
  BY DEF Rollback, LearnInv, TxnsInv
<1>2. Touched(l)' = {}
  BY <1>1, IdleOK DEF Touched
<1>3. \A u \in Users : SettledTxn(txn'[l], u, counted, learning[u])
  BY <1>1, IdleOK
<1>4. QED
  BY <1>1, <1>2, <1>3, IdleOK, TxnMoves

LEMMA RecordKeeps ==
    ASSUME LearnInv, NEW l \in Learners, NEW v \in Users, NEW o \in Outcome, RecordOutcome(l, v, o)
    PROVE  LearnInv'
<1>1. PICK S \in SUBSET Untracked(v) :
        txn' = [txn EXCEPT ![l] = [Idle EXCEPT !.kind = "matched", !.outcome = o,
                                                !.marks = S, !.todo = S]]
  BY DEF RecordOutcome, FindMatchingSignals
<1>2. /\ DOMAIN txn' = Learners /\ \A k \in Learners \ {l} : txn'[k] = txn[k]
      /\ txn'[l] = [Idle EXCEPT !.kind = "matched", !.outcome = o, !.marks = S, !.todo = S]
      /\ UNCHANGED <<signals, learning, counted>>
  BY <1>1 DEF RecordOutcome, LearnInv, TxnsInv
<1>3. /\ txn'[l].marks = S /\ txn'[l].todo = S /\ txn'[l].waiting = {} /\ HeldBy(txn'[l]) = {}
      /\ txn'[l].kind = "matched" /\ txn'[l].outcome = o /\ txn'[l].inserted = {}
      /\ txn'[l].rows = Idle.rows
  BY <1>2 DEF Idle, HeldBy
<1>4. \A s \in S : /\ s \in Signals /\ UserOf[s] = v /\ s \notin counted
                   /\ signals[s].there
  BY DEF Untracked, LearnInv, SignalsInv
<1>5. txn'[l] \in Txn
  BY <1>2, <1>4, IdleOK DEF TxnOK, Txn
<1>6. TxnOK(txn'[l])
  BY <1>3, <1>5, IdleOK DEF TxnOK
<1>8. /\ disturbed \subseteq disturbed'
      /\ v \notin disturbed' => \A k \in Learners \ {l} : v \notin Touched(k)
  BY DEF RecordOutcome, NoteOverlap
<1>9. ASSUME NEW u \in Users, u \notin disturbed'
      PROVE  /\ SettledTxn(txn'[l], u, counted, learning[u])
             /\ u \notin Touched(l)' \/ \A k \in Learners \ {l} : u \notin Touched(k)
  <2>1. SettledTxn(txn'[l], u, counted, learning[u])
    BY <1>3, <1>4 DEF SettledTxn
  <2>2. Touched(l)' \subseteq {v}
    BY <1>3, <1>4 DEF Touched
  <2>3. QED
    BY <1>8, <1>9, <2>1, <2>2
<1>10. QED
  BY <1>2, <1>3, <1>4, <1>6, <1>8, <1>9, TxnMoves

LEMMA MarkKeeps == ASSUME LearnInv, NEW l \in Learners, MarkSignals(l) PROVE LearnInv'
<1> DEFINE x == txn[l]  y == txn'[l]
<1>1. /\ DOMAIN txn' = Learners /\ \A k \in Learners \ {l} : txn'[k] = txn[k]
      /\ y = [x EXCEPT !.kind = "record", !.locked = {s \in x.marks : signals[s].there}]
      /\ x.kind = "matched" /\ UNCHANGED <<signals, learning, counted, disturbed>>
  BY DEF MarkSignals, LearnInv, TxnsInv
<1>2. TxnOK(x) /\ x \in Txn
  BY DEF LearnInv, TxnsInv, TxnOK
<1>3. /\ y.marks = x.marks /\ y.todo = x.todo /\ y.waiting = x.waiting /\ y.kind = "record"
      /\ y.outcome = x.outcome /\ y.rows = x.rows /\ HeldBy(y) = HeldBy(x)
      /\ y.inserted = x.inserted /\ y.lost = x.lost
  BY <1>1, <1>2 DEF Txn, HeldBy
<1>4. y \in Txn
  BY <1>1, <1>2 DEF Txn
<1>5. TxnOK(y)
  BY <1>1, <1>2, <1>3, <1>4 DEF TxnOK
<1>6. \A u \in Users : Same(x, y, u)
  BY <1>3 DEF Same
<1>7. \A s \in y.marks : signals[s].there \/ signals[s].gone
  BY <1>3 DEF LearnInv, SignalsInv
<1> HIDE DEF x, y
<1>8. QED
  BY <1>1, <1>5, <1>6, <1>7, TxnMoves DEF x, y

LEMMA SweepStartKeeps == ASSUME LearnInv, NEW l \in Learners, SweepStart(l) PROVE LearnInv'
<1> DEFINE y == txn'[l]
<1>1. PICK B \in SUBSET Users :
        txn' = [txn EXCEPT ![l] = [Idle EXCEPT !.kind = "sweep", !.waiting = B,
                                                !.outcome = "no_response"]]
  BY DEF SweepStart, UsersToSweep
<1>2. /\ DOMAIN txn' = Learners /\ \A k \in Learners \ {l} : txn'[k] = txn[k]
      /\ y = [Idle EXCEPT !.kind = "sweep", !.waiting = B, !.outcome = "no_response"]
      /\ UNCHANGED <<signals, learning, counted, disturbed>>
  BY <1>1 DEF SweepStart, LearnInv, TxnsInv
<1>3. /\ y.marks = {} /\ y.todo = {} /\ HeldBy(y) = {} /\ y.inserted = {}
      /\ y.kind = "sweep" /\ y.outcome = "no_response" /\ y.rows = Idle.rows
  BY <1>2 DEF Idle, HeldBy
<1>4. y \in Txn
  BY <1>2, IdleOK DEF TxnOK, Txn, Outcome
<1>5. TxnOK(y) /\ \A u \in Users : SettledTxn(y, u, counted, learning[u])
  BY <1>3, <1>4, IdleOK DEF TxnOK, SettledTxn, Outcome
<1>6. Touched(l)' = {}
  BY <1>3 DEF Touched
<1> HIDE DEF y
<1>7. QED
  BY <1>2, <1>3, <1>5, <1>6, TxnMoves DEF y

LEMMA SweepKeeps ==
    ASSUME LearnInv, NEW l \in Learners, NEW v \in Users, SweepNoResponse(l, v)
    PROVE  LearnInv'
<1> DEFINE x == txn[l]  y == txn'[l]
<1>1. PICK S \in SUBSET Due(v) :
        /\ txn' = [txn EXCEPT ![l].waiting = @ \ {v}, ![l].marks = @ \cup S, ![l].todo = S]
        /\ IF S = {} THEN UNCHANGED disturbed ELSE NoteOverlap(l, v)
  BY DEF SweepNoResponse
<1>2. TxnOK(x) /\ x \in Txn
  BY DEF LearnInv, TxnsInv, TxnOK
<1>3. /\ DOMAIN txn' = Learners /\ \A k \in Learners \ {l} : txn'[k] = txn[k]
      /\ y = [x EXCEPT !.waiting = x.waiting \ {v}, !.marks = x.marks \cup S, !.todo = S]
      /\ x.kind = "sweep" /\ x.todo = {} /\ v \in x.waiting
      /\ UNCHANGED <<signals, learning, counted>>
  BY <1>1, <1>2 DEF SweepNoResponse, LearnInv, TxnsInv, Txn
<1>4. /\ y.marks = x.marks \cup S /\ y.todo = S /\ y.waiting = x.waiting \ {v}
      /\ y.kind = "sweep" /\ y.outcome = x.outcome /\ y.rows = x.rows
      /\ HeldBy(y) = HeldBy(x) /\ y.inserted = x.inserted /\ y.lost = x.lost
  BY <1>2, <1>3 DEF Txn, HeldBy
<1>5. \A s \in S : /\ s \in Signals /\ UserOf[s] = v /\ s \notin counted
                   /\ signals[s].there
  BY DEF Due, Untracked, LearnInv, SignalsInv
<1>6. y \in Txn
  BY <1>2, <1>3, <1>5 DEF Txn
<1>7. TxnOK(y)
  <2>1. \A s \in y.marks : UserOf[s] \notin y.waiting
    BY <1>2, <1>4, <1>5 DEF TxnOK
  <2>2. y.kind # "idle" /\ y.outcome \in Outcome
    BY <1>2, <1>3, <1>4 DEF TxnOK
  <2>3. \A u \in HeldBy(y) : \E s \in y.marks : UserOf[s] = u
    BY <1>2, <1>4 DEF TxnOK
  <2>4. QED
    BY <1>2, <1>4, <1>6, <2>1, <2>2, <2>3 DEF TxnOK
<1>8. \A s \in x.marks : UserOf[s] # v
  BY <1>2, <1>3 DEF TxnOK
<1>9. v \notin HeldBy(x)
  BY <1>2, <1>8 DEF TxnOK
<1>10. \A s \in y.marks : signals[s].there \/ signals[s].gone
  BY <1>4, <1>5 DEF LearnInv, SignalsInv
<1>11. ASSUME NEW u \in Users, u # v PROVE Same(x, y, u)
  BY <1>3, <1>4, <1>5, <1>11 DEF Same
<1>12. SettledTxn(y, v, counted, learning[v])
  BY <1>4, <1>5, <1>8, <1>9 DEF SettledTxn, HeldBy
<1>13. /\ disturbed \subseteq disturbed'
       /\ v \notin disturbed' => v \notin Touched(l)' \/ \A k \in Learners \ {l} : v \notin Touched(k)
  <2>1. CASE S = {}
    BY <1>1, <1>4, <1>8, <2>1 DEF Touched
  <2>2. CASE S # {}
    BY <1>1, <2>2 DEF NoteOverlap
  <2>3. QED
    BY <2>1, <2>2
<1> HIDE DEF x, y
<1>14. ASSUME NEW u \in Users, u \notin disturbed'
       PROVE  \/ Same(x, y, u)
              \/ /\ SettledTxn(y, u, counted, learning[u])
                 /\ \/ u \in Touched(l) \/ u \notin Touched(l)'
                    \/ \A k \in Learners \ {l} : u \notin Touched(k)
  <2>1. CASE u = v
    BY <1>12, <1>13, <1>14, <2>1
  <2>2. CASE u # v
    BY <1>11, <2>2
  <2>3. QED
    BY <2>1, <2>2
<1>15. QED
  BY <1>3, <1>7, <1>10, <1>13, <1>14, TxnMoves DEF x, y

LEMMA LearningFailsKeeps == ASSUME LearnInv, NEW l \in Learners, LearningFails(l) PROVE LearnInv'
<1> DEFINE x == txn[l]  y == txn'[l]
<1>1. TxnOK(x) /\ x \in Txn
  BY DEF LearnInv, TxnsInv, TxnOK
<1>2. /\ DOMAIN txn' = Learners /\ \A k \in Learners \ {l} : txn'[k] = txn[k]
      /\ y = [x EXCEPT !.todo = {}]
      /\ disturbed' = disturbed \cup {UserOf[s] : s \in x.todo}
      /\ UNCHANGED <<signals, learning, counted>>
  BY DEF LearningFails, LearnInv, TxnsInv
<1>3. /\ y.marks = x.marks /\ y.todo = {} /\ y.waiting = x.waiting /\ y.kind = x.kind
      /\ y.outcome = x.outcome /\ y.rows = x.rows /\ HeldBy(y) = HeldBy(x)
      /\ y.inserted = x.inserted /\ y.lost = x.lost
  BY <1>1, <1>2 DEF Txn, HeldBy
<1>4. y \in Txn
  BY <1>1, <1>2 DEF Txn
<1>5. TxnOK(y)
  BY <1>1, <1>3, <1>4 DEF TxnOK
<1>6. ASSUME NEW u \in Users, u \notin disturbed' PROVE Same(x, y, u)
  BY <1>2, <1>3, <1>6 DEF Same
<1>7. \A s \in y.marks : signals[s].there \/ signals[s].gone
  BY <1>3 DEF LearnInv, SignalsInv
<1> HIDE DEF x, y
<1>8. QED
  BY <1>2, <1>5, <1>6, <1>7, TxnMoves DEF x, y

LEMMA LearnFromKeeps ==
    ASSUME LearnInv, NEW l \in Learners, NEW s \in Signals, LearnFrom(l, s)
    PROVE  LearnInv'
<1> DEFINE x == txn[l]  y == txn'[l]  v == UserOf[s]  ty == TypeOf[s]
           rest == x.marks \ x.todo
<1>1. /\ TxnOK(x) /\ x \in Txn /\ v \in Users /\ ty \in SignalTypes
      /\ s \in x.todo /\ s \in x.marks /\ x.kind \in {"record", "sweep"} /\ x.outcome \in Outcome
  BY LearningAssumption DEF LearnFrom, LearnInv, TxnsInv, TxnOK
<1>2. PICK row, loaded, inserted, locked :
        /\ LearnWith(l, s, row, loaded, inserted, locked)
        /\ locked \in SUBSET Signals /\ loaded \cup inserted \cup HeldBy(x) = HeldBy(x) \cup {v}
        /\ loaded \in SUBSET Users /\ inserted \in SUBSET Users
        /\ \/ v \in HeldBy(x) /\ row = x.rows[v] /\ inserted = {}
           \/ v \notin HeldBy(x) /\ row \in learning[v] /\ inserted = {}
           \/ /\ v \notin HeldBy(x) /\ row = NewRow /\ learning[v] = {} /\ inserted = {v}
  <2>1. x.marks \in SUBSET Signals
    BY <1>1 DEF Txn
  <2>2. Held(l, v) <=> v \in HeldBy(x)
    BY DEF Held, HeldBy
  <2>3. CASE Held(l, v)
    <3>1. LearnWith(l, s, x.rows[v], {}, {}, {})
      BY <2>3 DEF LearnFrom
    <3>2. QED
      BY <2>2, <2>3, <3>1
  <2>4. CASE ~ Held(l, v) /\ learning[v] # {}
    <3>1. PICK row \in learning[v] : LearnWith(l, s, row, {v}, {}, {})
      BY <2>4 DEF LearnFrom
    <3>2. QED
      BY <1>1, <2>2, <2>4, <3>1
  <2>5. CASE ~ Held(l, v) /\ learning[v] = {}
    <3>1. LearnWith(l, s, NewRow, {}, {v}, IF x.kind = "sweep" THEN x.marks ELSE {})
      BY <2>5 DEF LearnFrom
    <3>2. QED
      BY <1>1, <2>1, <2>2, <2>5, <3>1
  <2>6. QED
    BY <2>3, <2>4, <2>5
<1> DEFINE new == UpdateFromOutcome(row, ty, x.outcome)
<1>3. RowOK(row)
  BY <1>1, <1>2, NoneLearned DEF TxnOK, LearnInv, RowsInv
<1>4. /\ RowOK(new) /\ new.effect[ty].count = row.effect[ty].count + 1
      /\ \A t \in SignalTypes \ {ty} : new.effect[t].count = row.effect[t].count
  BY <1>1, <1>3, UpdateOK
<1> HIDE DEF new
<1>5. /\ DOMAIN txn' = Learners /\ \A k \in Learners \ {l} : txn'[k] = txn[k]
      /\ y = [x EXCEPT !.todo = x.todo \ {s}, !.rows = [x.rows EXCEPT ![v] = new],
                       !.loaded = x.loaded \cup loaded, !.inserted = x.inserted \cup inserted,
                       !.locked = x.locked \cup locked]
      /\ UNCHANGED <<signals, learning, counted, disturbed>>
  BY <1>1, <1>2 DEF LearnFrom, LearnWith, LearnInv, TxnsInv, Txn, new
<1>6. /\ y.marks = x.marks /\ y.todo = x.todo \ {s} /\ y.waiting = x.waiting
      /\ y.kind = x.kind /\ y.outcome = x.outcome /\ HeldBy(y) = HeldBy(x) \cup {v}
      /\ y.inserted = x.inserted \cup inserted /\ y.lost = x.lost
      /\ y.locked = x.locked \cup locked /\ y.loaded = x.loaded \cup loaded
      /\ y.rows = [x.rows EXCEPT ![v] = new]
  BY <1>1, <1>2, <1>5 DEF Txn, HeldBy
<1>7. /\ y.rows \in [Users -> LearnedRow] /\ y.rows[v] = new
      /\ \A u \in Users \ {v} : y.rows[u] = x.rows[u]
      /\ \A u \in Users : RowOK(y.rows[u])
  BY <1>1, <1>4, <1>6 DEF Txn, TxnOK, RowOK
<1>8. y \in Txn
  <2> DEFINE rows == [x.rows EXCEPT ![v] = new]  todo == x.todo \ {s}
             ld == x.loaded \cup loaded  ins == x.inserted \cup inserted
             lk == x.locked \cup locked
  <2>1. rows \in [Users -> LearnedRow] /\ todo \in SUBSET Signals /\ ld \in SUBSET Users
        /\ ins \in SUBSET Users /\ lk \in SUBSET Signals
    BY <1>1, <1>2, <1>6, <1>7 DEF Txn
  <2>2. y = [x EXCEPT !.todo = todo, !.rows = rows, !.loaded = ld, !.inserted = ins,
                      !.locked = lk]
    BY <1>5
  <2> HIDE DEF rows, todo, ld, ins, lk, y
  <2>3. QED
    BY <1>1, <2>1, <2>2 DEF Txn
<1>9. TxnOK(y)
  BY <1>1, <1>6, <1>7, <1>8 DEF TxnOK
<1>10. ASSUME NEW u \in Users, u # v PROVE Same(x, y, u)
  BY <1>2, <1>6, <1>7, <1>10 DEF Same
<1>11. ASSUME v \notin disturbed PROVE SettledTxn(y, v, counted, learning[v])
  <2>1. SettledUser(v) /\ SettledTxn(x, v, counted, learning[v])
    BY <1>1, <1>11 DEF LearnInv, SettledUser
  <2>2. s \notin counted /\ s \notin rest /\ counted \cup rest \in SUBSET Signals
    BY <1>1, <2>1 DEF SettledTxn, LearnInv, SignalsInv, Txn
  <2>3. counted \cup (y.marks \ y.todo) = (counted \cup rest) \cup {s}
    BY <1>1, <1>6
  <2>4. ASSUME ~ x.lost, NEW t \in SignalTypes
        PROVE  row.effect[t].count = Cardinality(OfBoth(counted \cup rest, v, t))
    <3>1. CASE v \in HeldBy(x)
      BY <1>2, <2>1, <2>4, <3>1 DEF SettledTxn
    <3>2. CASE v \notin HeldBy(x)
      <4>1. OfBoth(counted \cup rest, v, t) = OfBoth(counted, v, t)
        BY <2>1, <3>2 DEF SettledTxn, OfBoth
      <4>2. EntryCount(v, t) = row.effect[t].count
        <5>1. CASE learning[v] = {}
          BY <1>2, <3>2, <5>1, NoneLearned DEF EntryCount
        <5>2. CASE learning[v] # {}
          <6>1. row \in learning[v] /\ learning[v] = {row}
            BY <1>1, <1>2, <3>2, <5>2 DEF LearnInv, RowsInv
          <6>2. QED
            BY <6>1 DEF EntryCount
        <5>3. QED
          BY <5>1, <5>2
      <4>3. QED
        BY <2>1, <4>1, <4>2 DEF SettledUser
    <3>3. QED
      BY <3>1, <3>2
  <2>5. ASSUME ~ x.lost, NEW t \in SignalTypes
        PROVE  new.effect[t].count = Cardinality(OfBoth(counted \cup (y.marks \ y.todo), v, t))
    <3> DEFINE T == counted \cup rest
    <3>1. /\ ty = t => Cardinality(OfBoth(T \cup {s}, v, t)) = Cardinality(OfBoth(T, v, t)) + 1
          /\ ty # t => OfBoth(T \cup {s}, v, t) = OfBoth(T, v, t)
      BY <2>2, OneSignalMore
    <3>2. QED
      BY <1>4, <2>3, <2>4, <2>5, <3>1
  <2>6. \A u \in {v} : u \in y.inserted => learning[u] = {}
    BY <1>2, <1>6, <2>1 DEF SettledTxn, HeldBy
  <2>7. QED
    BY <1>6, <1>7, <2>1, <2>5, <2>6 DEF SettledTxn
<1>12. v \in Touched(l) /\ \A z \in y.marks : signals[z].there \/ signals[z].gone
  BY <1>1, <1>6 DEF Touched, LearnInv, SignalsInv
<1> HIDE DEF x, y
<1>13. ASSUME NEW u \in Users, u \notin disturbed
       PROVE  \/ Same(x, y, u)
              \/ SettledTxn(y, u, counted, learning[u]) /\ u \in Touched(l)
  <2>1. CASE u = v
    BY <1>11, <1>12, <1>13, <2>1
  <2>2. CASE u # v
    BY <1>10, <2>2
  <2>3. QED
    BY <2>1, <2>2
<1>14. QED
  BY <1>5, <1>9, <1>12, <1>13, TxnMoves DEF x, y

LEMMA CommitKeeps == ASSUME LearnInv, NEW l \in Learners, CommitLearning(l) PROVE LearnInv'
<1> DEFINE x == txn[l]
<1>1. TxnOK(x) /\ x \in Txn /\ x.marks \in SUBSET Signals
  BY DEF LearnInv, TxnsInv, TxnOK, Txn
<1>2. /\ DOMAIN txn' = Learners /\ \A k \in Learners \ {l} : txn'[k] = txn[k]
      /\ txn'[l] = Idle /\ x.todo = {} /\ ~ x.lost /\ disturbed' = disturbed
      /\ counted' = counted \cup x.marks
      /\ DOMAIN learning' = Users
      /\ \A u \in Users : learning'[u] = IF u \in HeldBy(x) THEN {x.rows[u]} ELSE learning[u]
  BY DEF CommitLearning, LearnInv, TxnsInv, Held, HeldBy
<1>3. /\ signals' \in [Signals -> HiddenSignal]
      /\ \A s \in Signals : /\ signals'[s].there = signals[s].there
                             /\ signals'[s].gone = signals[s].gone
                             /\ signals'[s].tracked
                                  = (signals[s].tracked \/ (s \in x.marks /\ signals[s].there))
  <2>1. ASSUME NEW s \in Signals
        PROVE  /\ signals'[s] \in HiddenSignal
               /\ signals'[s].there = signals[s].there
               /\ signals'[s].gone = signals[s].gone
               /\ signals'[s].tracked
                    = (signals[s].tracked \/ (s \in x.marks /\ signals[s].there))
    <3>1. signals[s] \in HiddenSignal
      BY DEF LearnInv, SignalsInv
    <3>2. CASE s \in x.marks /\ signals[s].there
      <4>1. signals'[s] = [signals[s] EXCEPT !.tracked = TRUE]
        BY <3>2 DEF CommitLearning
      <4>2. QED
        BY <3>1, <3>2, <4>1 DEF HiddenSignal
    <3>3. CASE ~ (s \in x.marks /\ signals[s].there)
      <4>1. signals'[s] = signals[s]
        BY <3>3 DEF CommitLearning
      <4>2. QED
        BY <3>1, <3>3, <4>1 DEF HiddenSignal
    <3>4. QED
      BY <3>2, <3>3
  <2>2. signals' = [s \in Signals |-> signals'[s]]
    BY DEF CommitLearning
  <2>3. QED
    BY <2>1, <2>2
<1>4. SignalsInv'
  <2>1. ASSUME NEW k \in Learners, NEW s \in txn'[k].marks
        PROVE  signals'[s].there \/ signals'[s].gone
    <3>1. k # l
      BY <1>2, <2>1, IdleOK
    <3>2. s \in txn[k].marks /\ s \in Signals
      BY <1>2, <2>1, <3>1 DEF LearnInv, TxnsInv, TxnOK, Txn
    <3>3. QED
      BY <1>3, <3>2 DEF LearnInv, SignalsInv
  <2>2. \A s \in x.marks : signals[s].there \/ signals[s].gone
    BY DEF LearnInv, SignalsInv
  <2>3. \A s \in Signals :
          /\ signals[s].there => ~ signals[s].gone
          /\ signals[s].tracked => signals[s].there /\ s \in counted
          /\ s \in counted => signals[s].gone \/ signals[s].tracked
    BY DEF LearnInv, SignalsInv
  <2>4. counted' \in SUBSET Signals
    BY <1>1, <1>2 DEF LearnInv, SignalsInv
  <2>5. \A s \in Signals :
          /\ signals'[s].there => ~ signals'[s].gone
          /\ signals'[s].tracked => signals'[s].there /\ s \in counted'
          /\ s \in counted' => signals'[s].gone \/ signals'[s].tracked
    BY <1>2, <1>3, <2>2, <2>3
  <2>6. QED
    BY <1>3, <2>1, <2>4, <2>5 DEF SignalsInv
<1>5. RowsInv'
  <2>1. \A u \in Users : RowOK(x.rows[u])
    BY <1>1 DEF TxnOK
  <2>2. QED
    BY <1>2, <2>1 DEF LearnInv, RowsInv
<1>6. TxnsInv'
  BY <1>2, IdleOK DEF LearnInv, TxnsInv
<1>7. ASSUME NEW u \in Users, u \notin disturbed PROVE SettledUser(u)'
  <2>1. SettledUser(u)
    BY <1>7 DEF LearnInv
  <2>2. SettledTxn(x, u, counted, learning[u])
    BY <2>1 DEF SettledUser
  <2>3. CASE u \in Touched(l)
    <3>1. \A k \in Learners \ {l} : u \notin Touched(k)
      BY <2>1, <2>3 DEF SettledUser
    <3>2. \A k \in Learners : u \notin Touched(k)'
      BY <1>2, <3>1, IdleOK DEF Touched
    <3>3. ASSUME NEW k \in Learners PROVE SettledTxn(txn'[k], u, counted', learning'[u])
      <4>1. CASE k = l
        BY <1>2, <4>1, IdleOK
      <4>2. CASE k # l
        <5>1. \A s \in txn'[k].marks : UserOf[s] # u
          BY <3>2 DEF Touched
        <5>2. u \notin HeldBy(txn'[k])
          BY <1>2, <1>6, <5>1 DEF TxnsInv, TxnOK
        <5>3. QED
          BY <5>1, <5>2 DEF SettledTxn, HeldBy
      <4>3. QED
        BY <4>1, <4>2
    <3>4. ASSUME NEW t \in SignalTypes
          PROVE  EntryCount(u, t)' = Cardinality(OfBoth(counted, u, t)')
      <4>1. OfBoth(counted, u, t)' = OfBoth(counted \cup (x.marks \ x.todo), u, t)
        BY <1>2 DEF OfBoth
      <4>2. CASE u \in HeldBy(x)
        <5>1. EntryCount(u, t)' = x.rows[u].effect[t].count
          BY <1>2, <4>2 DEF EntryCount
        <5>2. QED
          BY <1>2, <2>2, <4>1, <4>2, <5>1 DEF SettledTxn
      <4>3. CASE u \notin HeldBy(x)
        BY <1>2, <2>2, <2>3, <4>3 DEF SettledTxn, Touched
      <4>4. QED
        BY <4>2, <4>3
    <3>5. QED
      BY <3>2, <3>3, <3>4 DEF SettledUser
  <2>4. CASE u \notin Touched(l)
    <3>1. \A s \in x.marks : UserOf[s] # u
      BY <2>4 DEF Touched
    <3>2. u \notin HeldBy(x)
      BY <1>1, <3>1 DEF TxnOK
    <3>3. learning'[u] = learning[u]
      BY <1>2, <3>2
    <3>4. \A s : UserOf[s] = u => (s \in counted' <=> s \in counted)
      BY <1>2, <3>1
    <3>5. ASSUME NEW k \in Learners PROVE Same(txn[k], txn'[k], u)
      <4>1. CASE k = l
        BY <1>1, <1>2, <3>1, <3>2, <4>1, IdleOK DEF Same, HeldBy, TxnOK, Idle
      <4>2. CASE k # l
        BY <1>2, <4>2 DEF Same
      <4>3. QED
        BY <4>1, <4>2
    <3>6. QED
      BY <2>1, <3>3, <3>4, <3>5, UserKept
  <2>5. QED
    BY <2>3, <2>4
<1>8. QED
  BY <1>2, <1>4, <1>5, <1>6, <1>7 DEF LearnInv

\* Steps of the signals alone.
LEMMA SignalKeeps ==
    ASSUME LearnInv, NEW s \in Signals, DetectSignal(s) \/ ThirtyDays(s)
    PROVE  LearnInv'
<1>1. /\ signals' \in [Signals -> HiddenSignal]
      /\ \A r \in Signals :
           /\ signals[r].there => signals'[r].there
           /\ signals'[r].there => signals[r].there \/ ~ signals[r].gone
           /\ signals'[r].gone = signals[r].gone /\ signals'[r].tracked = signals[r].tracked
      /\ UNCHANGED <<learning, txn, counted, disturbed>>
  <2>1. CASE DetectSignal(s)
    BY <2>1 DEF DetectSignal, LearnInv, SignalsInv, HiddenSignal
  <2>2. CASE ThirtyDays(s)
    BY <2>2 DEF ThirtyDays, LearnInv, SignalsInv, HiddenSignal
  <2>3. QED
    BY <2>1, <2>2
<1>2. SignalsInv'
  <2>1. \A r \in Signals :
          /\ signals[r].there => ~ signals[r].gone
          /\ signals[r].tracked => signals[r].there /\ r \in counted
          /\ r \in counted => signals[r].gone \/ signals[r].tracked
    BY DEF LearnInv, SignalsInv
  <2>2. \A l \in Learners : txn[l].marks \subseteq Signals
    BY DEF LearnInv, TxnsInv, TxnOK, Txn
  <2>3. QED
    BY <1>1, <2>1, <2>2 DEF LearnInv, SignalsInv
<1>3. RowsInv' /\ TxnsInv'
  BY <1>1 DEF LearnInv, RowsInv, TxnsInv
<1>4. ASSUME NEW u \in Users, u \notin disturbed PROVE SettledUser(u)'
  <2>1. SettledUser(u)
    BY <1>4 DEF LearnInv
  <2>2. \A l \in Learners : Same(txn[l], txn'[l], u)
    BY <1>1 DEF Same
  <2>3. QED
    BY <1>1, <2>1, <2>2, UserKept
<1>5. QED
  BY <1>1, <1>2, <1>3, <1>4 DEF LearnInv

LEMMA WipeKeeps ==
    ASSUME LearnInv, NEW v \in Users, NEW all \in BOOLEAN, Wipe(v, all)
    PROVE  LearnInv'
<1>1. \A s \in Signals : signals[s] \in HiddenSignal
  BY DEF LearnInv, SignalsInv
<1>2. /\ signals' \in [Signals -> HiddenSignal]
      /\ \A s \in Signals :
           \/ signals'[s] = signals[s] /\ ~ (UserOf[s] = v /\ signals[s].there)
           \/ /\ UserOf[s] = v /\ ~ signals'[s].there /\ signals'[s].gone
              /\ ~ signals'[s].tracked
  <2>1. [NoSignal EXCEPT !.gone = TRUE] \in HiddenSignal
    BY DEF NoSignal, HiddenSignal
  <2>2. LET n == [NoSignal EXCEPT !.gone = TRUE] IN ~ n.there /\ n.gone /\ ~ n.tracked
    BY DEF NoSignal
  <2>3. QED
    BY <1>1, <2>1, <2>2 DEF Wipe
<1>3. /\ disturbed' = disturbed
      /\ \/ UNCHANGED <<learning, counted, txn>>
         \/ /\ learning' = [learning EXCEPT ![v] = {}]
            /\ counted' = {s \in counted : UserOf[s] # v}
            /\ txn' = [l \in Learners |-> IF v \in txn[l].loaded
                         THEN [txn[l] EXCEPT !.lost = TRUE] ELSE txn[l]]
  BY DEF Wipe
<1>4. /\ DOMAIN txn' = Learners
      /\ \A l \in Learners :
           \/ txn'[l] = txn[l] /\ (v \notin txn[l].loaded \/ UNCHANGED counted)
           \/ txn'[l] = [txn[l] EXCEPT !.lost = TRUE] /\ v \in txn[l].loaded
  BY <1>3 DEF LearnInv, TxnsInv
<1>5. ASSUME NEW l \in Learners
      PROVE  /\ txn'[l].marks = txn[l].marks /\ txn'[l].todo = txn[l].todo
             /\ txn'[l].waiting = txn[l].waiting /\ HeldBy(txn'[l]) = HeldBy(txn[l])
             /\ txn'[l].inserted = txn[l].inserted /\ txn'[l].rows = txn[l].rows
             /\ txn[l].lost => txn'[l].lost
             /\ TxnOK(txn'[l])
  <2>1. TxnOK(txn[l]) /\ txn[l] \in Txn
    BY DEF LearnInv, TxnsInv, TxnOK
  <2>2. CASE txn'[l] = txn[l]
    BY <2>1, <2>2
  <2>3. CASE txn'[l] = [txn[l] EXCEPT !.lost = TRUE]
    <3> DEFINE x == txn[l]  y == txn'[l]
    <3>1. /\ y.marks = x.marks /\ y.todo = x.todo /\ y.waiting = x.waiting
          /\ HeldBy(y) = HeldBy(x) /\ y.inserted = x.inserted /\ y.rows = x.rows
          /\ y.kind = x.kind /\ y.outcome = x.outcome /\ y.lost
      BY <2>1, <2>3 DEF Txn, HeldBy
    <3>2. y \in Txn
      BY <2>1, <2>3 DEF Txn
    <3> HIDE DEF x, y
    <3>3. TxnOK(x) /\ (TxnOK(x) => TxnOK(y))
      BY <2>1, <3>1, <3>2 DEF TxnOK, x
    <3>4. QED
      BY <3>1, <3>3 DEF x, y
  <2>4. QED
    BY <1>4, <2>2, <2>3
<1>6. TxnsInv'
  BY <1>4, <1>5 DEF TxnsInv
<1>7. counted' \subseteq counted /\ \A s : UserOf[s] # v => (s \in counted' <=> s \in counted)
  BY <1>3
<1>8. SignalsInv'
  <2>1. \A s \in Signals :
          /\ signals[s].there => ~ signals[s].gone
          /\ signals[s].tracked => signals[s].there /\ s \in counted
          /\ s \in counted => signals[s].gone \/ signals[s].tracked
    BY DEF LearnInv, SignalsInv
  <2>2. \A l \in Learners : txn[l].marks \subseteq Signals
    BY DEF LearnInv, TxnsInv, TxnOK, Txn
  <2>3. \A l \in Learners : \A s \in txn'[l].marks : signals'[s].there \/ signals'[s].gone
    <3>1. \A l \in Learners : \A s \in txn[l].marks : signals[s].there \/ signals[s].gone
      BY DEF LearnInv, SignalsInv
    <3>2. \A s \in Signals : signals[s].there \/ signals[s].gone
            => signals'[s].there \/ signals'[s].gone
      BY <1>2
    <3>3. QED
      BY <1>5, <2>2, <3>1, <3>2
  <2>4. ASSUME NEW s \in Signals
        PROVE  /\ signals'[s].there => ~ signals'[s].gone
               /\ signals'[s].tracked => signals'[s].there /\ s \in counted'
               /\ s \in counted' => signals'[s].gone \/ signals'[s].tracked
    <3>1. CASE /\ UserOf[s] = v /\ ~ signals'[s].there /\ signals'[s].gone
               /\ ~ signals'[s].tracked
      BY <3>1
    <3>2. CASE signals'[s] = signals[s] /\ ~ (UserOf[s] = v /\ signals[s].there)
      BY <1>7, <2>1, <3>2
    <3>3. QED
      BY <1>2, <3>1, <3>2
  <2>5. QED
    BY <1>2, <1>7, <2>3, <2>4 DEF SignalsInv, LearnInv
<1>9. RowsInv'
  BY <1>3 DEF LearnInv, RowsInv
<1>10. ASSUME NEW u \in Users, u \notin disturbed PROVE SettledUser(u)'
  <2>1. SettledUser(u)
    BY <1>10 DEF LearnInv
  <2>2. \A l \in Learners : Same(txn[l], txn'[l], u)
    BY <1>5 DEF Same
  <2>3. CASE u # v \/ UNCHANGED <<learning, counted>>
    <3>1. learning'[u] = learning[u]
      BY <1>3, <2>3 DEF LearnInv, RowsInv
    <3>2. \A s : UserOf[s] = u => (s \in counted' <=> s \in counted)
      BY <1>7, <2>3
    <3>3. QED
      BY <2>1, <2>2, <3>1, <3>2, UserKept
  <2>4. CASE u = v /\ ~ UNCHANGED <<learning, counted>>
    <3>1. /\ learning' = [learning EXCEPT ![v] = {}]
          /\ counted' = {s \in counted : UserOf[s] # v}
          /\ txn' = [l \in Learners |-> IF v \in txn[l].loaded
                       THEN [txn[l] EXCEPT !.lost = TRUE] ELSE txn[l]]
      BY <1>3, <2>4
    <3>2. learning'[v] = {}
      BY <3>1 DEF LearnInv, RowsInv
    <3>3. \A t : EntryCount(v, t)' = 0 /\ OfBoth(counted, v, t)' = {}
      BY <3>1, <3>2 DEF EntryCount, OfBoth
    <3>4. ASSUME NEW l \in Learners PROVE SettledTxn(txn'[l], v, counted', learning'[v])
      <4> DEFINE x == txn[l]  y == txn'[l]
      <4>1. SettledTxn(x, v, counted, learning[v])
        BY <2>1, <2>4 DEF SettledUser
      <4>2. /\ y.marks = x.marks /\ y.todo = x.todo /\ HeldBy(y) = HeldBy(x)
            /\ y.inserted = x.inserted /\ y.rows = x.rows /\ (x.lost => y.lost)
        BY <1>5
      <4>3. v \in HeldBy(x) /\ ~ y.lost => v \in x.inserted
        <5>1. CASE v \in x.loaded
          <6>1. y = [x EXCEPT !.lost = TRUE]
            BY <3>1, <5>1
          <6>2. y.lost
            BY <6>1 DEF LearnInv, TxnsInv, TxnOK, Txn
          <6>3. QED
            BY <6>2
        <5>2. CASE v \notin x.loaded
          BY <5>2 DEF HeldBy
        <5>3. QED
          BY <5>1, <5>2
      <4>4. ASSUME v \in x.inserted
            PROVE  \A t \in SignalTypes : OfBoth(counted, v, t) = {}
        <5> SUFFICES ASSUME NEW t \in SignalTypes PROVE OfBoth(counted, v, t) = {}
          OBVIOUS
        <5>1. EntryCount(v, t) = 0
          BY <4>1, <4>4 DEF SettledTxn, EntryCount
        <5>2. Cardinality(OfBoth(counted, v, t)) = 0
          BY <2>1, <2>4, <5>1 DEF SettledUser
        <5>3. IsFiniteSet(OfBoth(counted, v, t))
          BY FS_Subset, LearningAssumption DEF OfBoth, LearnInv, SignalsInv
        <5>4. QED
          BY <5>2, <5>3, FS_EmptySet
      <4>5. ASSUME v \in x.inserted, NEW t \in SignalTypes
            PROVE  OfBoth(counted' \cup (y.marks \ y.todo), v, t)
                     = OfBoth(counted \cup (x.marks \ x.todo), v, t)
        BY <4>2, <4>4, <4>5, <3>1 DEF OfBoth
      <4> HIDE DEF x, y
      <4>6. ASSUME v \in HeldBy(y), ~ y.lost, NEW t \in SignalTypes
            PROVE  y.rows[v].effect[t].count
                     = Cardinality(OfBoth(counted' \cup (y.marks \ y.todo), v, t))
        <5>1. v \in x.inserted /\ v \in HeldBy(x) /\ ~ x.lost
          BY <4>2, <4>3, <4>6
        <5>2. x.rows[v].effect[t].count
                = Cardinality(OfBoth(counted \cup (x.marks \ x.todo), v, t))
          BY <4>1, <5>1 DEF SettledTxn
        <5>3. OfBoth(counted' \cup (y.marks \ y.todo), v, t)
                = OfBoth(counted \cup (x.marks \ x.todo), v, t)
          BY <4>5, <5>1
        <5>4. QED
          BY <4>2, <5>2, <5>3
      <4>7. \A s \in y.marks : UserOf[s] = v => s \notin counted'
        BY <3>1
      <4>8. v \notin HeldBy(y) => \A s \in y.marks : UserOf[s] = v => s \in y.todo
        BY <4>1, <4>2 DEF SettledTxn
      <4>9. SettledTxn(y, v, counted', learning'[v])
        BY <3>2, <4>6, <4>7, <4>8 DEF SettledTxn
      <4>10. QED
        BY <4>9 DEF y
    <3>5. \A l \in Learners : Touched(l)' = Touched(l)
      BY <1>5 DEF Touched
    <3>6. QED
      BY <2>1, <2>4, <3>3, <3>4, <3>5, FS_EmptySet DEF SettledUser
  <2>5. QED
    BY <2>3, <2>4
<1>11. QED
  BY <1>3, <1>6, <1>8, <1>9, <1>10 DEF LearnInv

LEMMA LearnInvStep == LearnInv /\ [LearnNext]_learnVars => LearnInv'
<1> SUFFICES ASSUME LearnInv, [LearnNext]_learnVars PROVE LearnInv'
  OBVIOUS
<1>1. CASE UNCHANGED learnVars
  <2>1. \A u \in Users : SettledUser(u)' = SettledUser(u)
    BY <1>1 DEF learnVars, SettledUser, EntryCount, Touched
  <2>2. QED
    BY <1>1, <2>1 DEF learnVars, LearnInv, SignalsInv, RowsInv, TxnsInv
<1>2. CASE \E s \in Signals : DetectSignal(s) \/ ThirtyDays(s)
  BY <1>2, SignalKeeps
<1>3. ASSUME NEW l \in Learners, NEW u \in Users, NEW stage \in Stages,
             RecordFromApplicationStage(l, u, stage)
      PROVE  LearnInv'
  <2>1. PICK o \in StageToOutcome(stage) : RecordOutcome(l, u, o)
    BY <1>3 DEF RecordFromApplicationStage
  <2>2. o \in Outcome
    BY DEF StageToOutcome, Outcome
  <2>3. QED
    BY <2>1, <2>2, RecordKeeps
<1>4. CASE \E l \in Learners, u \in Users : SweepNoResponse(l, u)
  BY <1>4, SweepKeeps
<1>5. CASE \E l \in Learners, s \in Signals : LearnFrom(l, s)
  BY <1>5, LearnFromKeeps
<1>6. CASE \E l \in Learners : \/ MarkSignals(l) \/ SweepStart(l) \/ LearningFails(l)
                             \/ CommitLearning(l) \/ Rollback(l)
  BY <1>6, MarkKeeps, SweepStartKeeps, LearningFailsKeeps, CommitKeeps, RollbackKeeps
<1>7. CASE \E u \in Users, all \in BOOLEAN : Wipe(u, all)
  BY <1>7, WipeKeeps
<1>8. QED
  BY <1>1, <1>2, <1>3, <1>4, <1>5, <1>6, <1>7 DEF LearnNext

\* Whatever is recorded, swept, wiped and rolled back, a user whom no two
\* transactions worked on at once and no exception cut short has learned from
\* every marked signal exactly once, and in any case a row agrees with itself
\* (outcome_tracker.py:127, learning_updater.py:99).
THEOREM LearningIsComplete == LearnSpec => []LearningCoversOutcomes
<1>1. LearnInv => LearningCoversOutcomes
  <2> SUFFICES ASSUME LearnInv, NEW u \in Users
               PROVE  /\ u \notin disturbed =>
                           \A t \in SignalTypes :
                              EntryCount(u, t) = Cardinality(OfBoth(counted, u, t))
                      /\ \A s \in Signals : signals[s].tracked => s \in counted
                      /\ \A row \in learning[u] :
                           /\ \A t \in SignalTypes :
                                 LET e == row.effect[t] IN
                                 4 * Magnitude(e.rate * e.count - row.sums[t])
                                   <= e.count * (e.count + 1)
                           /\ row.samples = Cardinality(Samples(row.effect))
                           /\ Len(row.memory) = AtMost(MemorySize, row.samples)
    BY DEF LearningCoversOutcomes
  <2>1. u \notin disturbed => SettledUser(u)
    BY DEF LearnInv
  <2>2. \A s \in Signals : signals[s].tracked => s \in counted
    BY DEF LearnInv, SignalsInv
  <2>3. \A row \in learning[u] : RowOK(row)
    BY DEF LearnInv, RowsInv
  <2>4. ASSUME NEW row \in learning[u], NEW t \in SignalTypes
        PROVE  LET e == row.effect[t] IN
               4 * Magnitude(e.rate * e.count - row.sums[t]) <= e.count * (e.count + 1)
    <3> DEFINE e == row.effect[t]  w == e.rate * e.count  z == row.sums[t]
               c == e.count * (e.count + 1)
    <3>1. EntryOK(e, z)
      BY <2>3 DEF RowOK
    <3> HIDE DEF e, z
    <3>2. w \in Int /\ z \in Int /\ c \in Int
      BY <3>1 DEF EntryOK
    <3>3. 4 * (w - z) <= c /\ 4 * (z - w) <= c
      BY <3>1 DEF EntryOK
    <3> HIDE DEF w, c
    <3>4. 4 * Magnitude(w - z) <= c
      BY <3>2, <3>3 DEF Magnitude
    <3>5. QED
      BY <3>4 DEF w, c, e, z
  <2>5. QED
    BY <2>1, <2>2, <2>3, <2>4 DEF RowOK, SettledUser
<1>2. QED
  BY <1>1, LearnInitInv, LearnInvStep, PTL DEF LearnSpec

-----------------------------------------------------------------------------
(* The nesting of an answer: both scanners against the stack of the brackets *)
(* that are open.                                                            *)

Bracket == {"object", "list"}
\* How many of the entries from one place on are bracket b.
Count(s, from, b) == Cardinality({i \in from..Len(s) : s[i] = b})

\* What the two scanners keep.
Counts == [opens : Int, openSq : Int, inString : BOOLEAN, escape : BOOLEAN]
Finding == [started : BOOLEAN, depth : Int, inString : BOOLEAN, escape : BOOLEAN,
            objectAt : Nat, closed : BOOLEAN]

ScannerTypes == stack \in Seq(Bracket) /\ repair \in Counts /\ extract \in Finding

\* Both scanners keep the same escape flag, and the one that looks for an object
\* counts the objects open from its first bracket on.
TextInv ==
  /\ ScannerTypes
  /\ repair.opens = Count(stack, 1, "object") /\ repair.openSq = Count(stack, 1, "list")
  /\ repair.escape => repair.inString
  /\ ~ extract.started => ~ extract.closed /\ ~ extract.inString /\ ~ extract.escape
  /\ extract.started /\ ~ extract.closed =>
       /\ extract.escape = repair.escape
       /\ extract.inString = repair.inString =>
            /\ extract.objectAt >= 1 /\ Len(stack) >= extract.objectAt
            /\ stack[extract.objectAt] = "object"
            /\ extract.depth = Count(stack, extract.objectAt, "object")

\* One entry more is counted when it is that bracket.
LEMMA CountOneMore ==
    ASSUME NEW s \in Seq(Bracket), NEW x \in Bracket, NEW from \in Nat,
           from >= 1, from <= Len(s) + 1, NEW b
    PROVE  /\ Count(s, from, b) \in Nat
           /\ x = b => Count(Append(s, x), from, b) = Count(s, from, b) + 1
           /\ x # b => Count(Append(s, x), from, b) = Count(s, from, b)
<1> DEFINE n == Len(s)
           S == {i \in from..n : s[i] = b}
           T == {i \in from..Len(Append(s, x)) : Append(s, x)[i] = b}
<1>1. n \in Nat /\ Len(Append(s, x)) = n + 1 /\ Append(s, x)[n + 1] = x
      /\ \A i \in 1..n : Append(s, x)[i] = s[i]
  OBVIOUS
<1>2. IsFiniteSet(S) /\ Cardinality(S) \in Nat /\ n + 1 \notin S
  <2>1. IsFiniteSet(from..n)
    <3> HIDE DEF n
    <3>1. from \in Int /\ n \in Int
      BY <1>1
    <3>2. QED
      BY <3>1, FS_Interval
  <2>2. S \subseteq from..n
    OBVIOUS
  <2>3. QED
    BY <1>1, <2>1, <2>2, FS_Subset, FS_CardinalityType
<1>3. T = IF x = b THEN S \cup {n + 1} ELSE S
  BY <1>1
<1>4. Cardinality(S \cup {n + 1}) = Cardinality(S) + 1
  BY <1>2, FS_AddElement
<1>5. Count(s, from, b) = Cardinality(S) /\ Count(Append(s, x), from, b) = Cardinality(T)
  BY DEF Count
<1> HIDE DEF S, T
<1>6. CASE x = b
  BY <1>2, <1>3, <1>4, <1>5, <1>6
<1>7. CASE x # b
  BY <1>2, <1>3, <1>5, <1>7
<1>8. QED
  BY <1>6, <1>7

\* A stack without its innermost entry.
Popped(s) == SubSeq(s, 1, Len(s) - 1)

LEMMA FirstPart ==
    ASSUME NEW S, NEW s \in Seq(S), NEW n \in Nat, n <= Len(s)
    PROVE  /\ SubSeq(s, 1, n) \in Seq(S) /\ Len(SubSeq(s, 1, n)) = n
           /\ \A i \in 1..n : SubSeq(s, 1, n)[i] = s[i]
<1>1. SubSeq(s, 1, n) \in Seq(S)
  OBVIOUS
<1>2. Len(SubSeq(s, 1, n)) = n
  OBVIOUS
<1>3. \A i \in 1..n : SubSeq(s, 1, n)[i] = s[i]
  OBVIOUS
<1>4. QED
  BY <1>1, <1>2, <1>3

LEMMA PoppedIs ==
    ASSUME NEW s \in Seq(Bracket), s # << >>
    PROVE  /\ Popped(s) \in Seq(Bracket) /\ Len(Popped(s)) = Len(s) - 1
           /\ \A i \in 1..Len(s) - 1 : Popped(s)[i] = s[i]
           /\ Len(s) \in Nat /\ Len(s) >= 1 /\ s[Len(s)] \in Bracket
           /\ s = Append(Popped(s), s[Len(s)])
<1>1. Len(s) \in Nat /\ Len(s) >= 1 /\ s[Len(s)] \in Bracket
  OBVIOUS
<1> DEFINE n == Len(s) - 1
<1>2. n \in Nat /\ n <= Len(s)
  BY <1>1
<1> HIDE DEF n
<1>3. /\ Popped(s) \in Seq(Bracket) /\ Len(Popped(s)) = n
      /\ \A i \in 1..n : Popped(s)[i] = s[i]
  <2>1. /\ SubSeq(s, 1, n) \in Seq(Bracket) /\ Len(SubSeq(s, 1, n)) = n
        /\ \A i \in 1..n : SubSeq(s, 1, n)[i] = s[i]
    BY <1>2, FirstPart
  <2>2. Popped(s) = SubSeq(s, 1, n)
    BY DEF Popped, n
  <2>3. QED
    BY <2>1, <2>2
<1>4. s = Append(Popped(s), s[Len(s)])
  <2>1. Append(Popped(s), s[Len(s)]) \in Seq(Bracket)
        /\ Len(Append(Popped(s), s[Len(s)])) = n + 1 /\ n + 1 = Len(s)
    BY <1>1, <1>2, <1>3 DEF n
  <2>2. \A i \in 1..Len(s) : Append(Popped(s), s[Len(s)])[i] = s[i]
    BY <1>1, <1>2, <1>3, <2>1
  <2>3. QED
    BY <2>1, <2>2
<1>5. QED
  BY <1>1, <1>3, <1>4 DEF n

\* One entry less is counted no more when it is that bracket.
LEMMA CountOneLess ==
    ASSUME NEW s \in Seq(Bracket), s # << >>, NEW from \in Nat,
           from >= 1, from <= Len(s), NEW b
    PROVE  /\ s[Len(s)] = b => Count(Popped(s), from, b) = Count(s, from, b) - 1
           /\ s[Len(s)] # b => Count(Popped(s), from, b) = Count(s, from, b)
<1> DEFINE t == Popped(s)
           x == s[Len(s)]
<1>1. /\ t \in Seq(Bracket) /\ x \in Bracket /\ from <= Len(t) + 1 /\ s = Append(t, x)
  BY PoppedIs
<1> HIDE DEF t, x
<1>2. /\ Count(t, from, b) \in Nat
      /\ x = b => Count(Append(t, x), from, b) = Count(t, from, b) + 1
      /\ x # b => Count(Append(t, x), from, b) = Count(t, from, b)
  BY <1>1, CountOneMore
<1>3. /\ x = b => Count(t, from, b) = Count(s, from, b) - 1
      /\ x # b => Count(t, from, b) = Count(s, from, b)
  BY <1>1, <1>2
<1>4. QED
  BY <1>3 DEF t, x

\* From the end on nothing is counted, and at the last place one entry.
LEMMA CountAtEnd ==
    ASSUME NEW s \in Seq(Bracket), NEW b
    PROVE  /\ Count(s, Len(s) + 1, b) = 0
           /\ s # << >> /\ s[Len(s)] = b => Count(s, Len(s), b) = 1
<1>1. Len(s) \in Nat
  OBVIOUS
<1>2. {i \in Len(s) + 1..Len(s) : s[i] = b} = {}
  BY <1>1
<1>3. s[Len(s)] = b => {i \in Len(s)..Len(s) : s[i] = b} = {Len(s)}
  BY <1>1
<1>4. QED
  BY <1>2, <1>3, FS_EmptySet, FS_Singleton DEF Count

\* What the scanners keep is kept of its type.
LEMMA CountsKept ==
    ASSUME NEW r \in Counts, NEW n \in Int, NEW m \in Int
    PROVE  [r EXCEPT !.opens = n, !.openSq = m] \in Counts
BY DEF Counts

LEMMA FindingEnded ==
    ASSUME NEW r \in Finding, NEW n \in Int, NEW b \in BOOLEAN
    PROVE  [r EXCEPT !.depth = n, !.closed = b] \in Finding
BY DEF Finding

LEMMA FindingBegun ==
    ASSUME NEW r \in Finding, NEW n \in Nat, NEW b \in BOOLEAN, NEW m \in Int
    PROVE  [r EXCEPT !.started = b, !.depth = m, !.objectAt = n] \in Finding
BY DEF Finding

LEMMA FlagsKept ==
    ASSUME NEW r, NEW c
    PROVE  /\ r \in Counts => InString(r, c) \in Counts
           /\ r \in Finding => InString(r, c) \in Finding
<1> DEFINE e == ~ r.escape /\ c = "backslash"
           q == IF ~ r.escape /\ c = "quote" THEN ~ r.inString ELSE r.inString
<1>1. r \in Counts => InString(r, c) \in Counts
  BY DEF InString, Counts
<1>2. r \in Finding => InString(r, c) \in Finding
  BY DEF InString, Finding
<1>3. QED
  BY <1>1, <1>2

LEMMA InitText == TextInit => TextInv
<1> SUFFICES ASSUME TextInit PROVE TextInv
  OBVIOUS
<1>1. \A b : Count(<< >>, 1, b) = 0
  <2>1. \A b : {i \in 1..Len(<< >>) : << >>[i] = b} = {}
    OBVIOUS
  <2>2. QED
    BY <2>1, FS_EmptySet DEF Count
<1>2. ScannerTypes
  <2>1. stack \in Seq(Bracket)
    BY DEF TextInit
  <2>2. QED
    BY <2>1 DEF TextInit, ScannerTypes, Counts, Finding
<1>3. QED
  BY <1>1, <1>2 DEF TextInit, TextInv

\* What a character does to the stack.
LEMMA FeedStack ==
    ASSUME ScannerTypes, NEW c \in Character, Feed(c)
    PROVE  /\ stack' \in Seq(Bracket)
           /\ \/ stack' = stack /\ (Quoted \/ c \in {"quote", "other"})
              \/ ~ Quoted /\ c \in Bracket /\ stack' = Append(stack, c)
              \/ /\ ~ Quoted /\ c \in {"endObject", "endList"} /\ stack # << >> /\ stack' = Popped(stack)
                 /\ stack[Len(stack)] = (IF c = "endObject" THEN "object" ELSE "list")
<1>0. stack \in Seq(Bracket)
  BY DEF ScannerTypes
<1>1. \/ stack' = stack /\ (Quoted \/ c \in {"quote", "other"})
      \/ ~ Quoted /\ c \in Bracket /\ stack' = Append(stack, c)
      \/ /\ ~ Quoted /\ c \in {"endObject", "endList"} /\ stack # << >> /\ stack' = Popped(stack)
         /\ stack[Len(stack)] = (IF c = "endObject" THEN "object" ELSE "list")
  BY DEF Feed, Nested, Bracket, Character, Popped
<1>2. CASE stack # << >> /\ stack' = Popped(stack)
  <2>1. stack' \in Seq(Bracket)
    BY <1>0, <1>2, PoppedIs
  <2>2. QED
    BY <1>1, <2>1
<1>3. CASE c \in Bracket /\ stack' = Append(stack, c)
  <2>1. stack' \in Seq(Bracket)
    BY <1>0, <1>3
  <2>2. QED
    BY <1>1, <2>1
<1>4. CASE stack' = stack
  BY <1>0, <1>1, <1>4
<1>5. QED
  BY <1>1, <1>2, <1>3, <1>4

\* What closes a bracket.
CloserOf(b) == IF b = "object" THEN "endObject" ELSE "endList"

\* What it does to the number of a bracket from a place on.
LEMMA FeedCount ==
    ASSUME ScannerTypes, NEW c \in Character, Feed(c), NEW b \in Bracket,
           NEW from \in Nat, from >= 1, from <= Len(stack) + 1,
           ~ Quoted /\ c \in {"endObject", "endList"} => from <= Len(stack)
    PROVE  /\ Count(stack, from, b) \in Nat
           /\ ~ Quoted /\ c = b => Count(stack', from, b) = Count(stack, from, b) + 1
           /\ ~ Quoted /\ c = CloserOf(b) => Count(stack', from, b) = Count(stack, from, b) - 1
           /\ Quoted \/ (c # b /\ c # CloserOf(b)) => Count(stack', from, b) = Count(stack, from, b)
<1>0. stack \in Seq(Bracket) /\ "object" \in Bracket /\ CloserOf(b) \in {"endObject", "endList"}
  BY DEF ScannerTypes, Bracket, CloserOf
<1>1. Count(stack, from, b) \in Nat
  BY <1>0, CountOneMore
<1>2. CASE ~ Quoted /\ c \in Bracket /\ stack' = Append(stack, c)
  <2>1. /\ c = b => Count(Append(stack, c), from, b) = Count(stack, from, b) + 1
        /\ c # b => Count(Append(stack, c), from, b) = Count(stack, from, b)
    BY <1>0, <1>2, CountOneMore
  <2>2. c # CloserOf(b)
    BY <1>0, <1>2 DEF Bracket
  <2>3. QED
    BY <1>1, <1>2, <2>1, <2>2
<1>3. CASE /\ ~ Quoted /\ c \in {"endObject", "endList"} /\ stack # << >> /\ stack' = Popped(stack)
           /\ stack[Len(stack)] = (IF c = "endObject" THEN "object" ELSE "list")
  <2>1. from <= Len(stack)
    BY <1>3
  <2>2. /\ stack[Len(stack)] = b => Count(Popped(stack), from, b) = Count(stack, from, b) - 1
        /\ stack[Len(stack)] # b => Count(Popped(stack), from, b) = Count(stack, from, b)
    BY <1>0, <1>3, <2>1, CountOneLess
  <2>3. c # b /\ (stack[Len(stack)] = b <=> c = CloserOf(b))
    BY <1>3 DEF Bracket, CloserOf
  <2>4. QED
    BY <1>1, <1>3, <2>2, <2>3
<1>4. CASE stack' = stack /\ (Quoted \/ c \in {"quote", "other"})
  BY <1>1, <1>4 DEF Bracket, CloserOf
<1>5. QED
  BY <1>2, <1>3, <1>4, FeedStack

\* What it does to the counts of the repair.
LEMMA FeedRepair ==
    ASSUME ScannerTypes, NEW c \in Character, Feed(c)
    PROVE  /\ repair' \in Counts
           /\ repair'.inString = (IF ~ repair.escape /\ c = "quote" THEN ~ repair.inString
                                  ELSE repair.inString)
           /\ repair'.escape = (~ repair.escape /\ c = "backslash")
           /\ repair'.opens = (IF Quoted THEN repair.opens ELSE IF c = "object" THEN repair.opens + 1
                               ELSE IF c = "endObject" THEN repair.opens - 1 ELSE repair.opens)
           /\ repair'.openSq = (IF Quoted THEN repair.openSq ELSE IF c = "list" THEN repair.openSq + 1
                                ELSE IF c = "endList" THEN repair.openSq - 1 ELSE repair.openSq)
<1>1. repair' = RepairScan(repair, c)
  BY DEF Feed
<1>2. repair' \in Counts
  <2>1. InString(repair, c) \in Counts
    BY FlagsKept DEF ScannerTypes
  <2>2. CASE repair.escape \/ repair.inString
    BY <1>1, <2>1, <2>2 DEF RepairScan
  <2>3. CASE ~ (repair.escape \/ repair.inString)
    <3> DEFINE flags == InString(repair, c)
               n == CASE c = "object" -> flags.opens + 1 [] c = "endObject" -> flags.opens - 1
                      [] OTHER -> flags.opens
               m == CASE c = "list" -> flags.openSq + 1 [] c = "endList" -> flags.openSq - 1
                      [] OTHER -> flags.openSq
    <3>1. flags.opens \in Int /\ flags.openSq \in Int
      BY <2>1 DEF Counts
    <3> HIDE DEF flags
    <3>2. n \in Int
      <4>1. n = flags.opens + 1 \/ n = flags.opens - 1 \/ n = flags.opens
        OBVIOUS
      <4> HIDE DEF n
      <4>2. QED
        BY <3>1, <4>1
    <3>3. m \in Int
      <4>1. m = flags.openSq + 1 \/ m = flags.openSq - 1 \/ m = flags.openSq
        OBVIOUS
      <4> HIDE DEF m
      <4>2. QED
        BY <3>1, <4>1
    <3>4. repair' = [flags EXCEPT !.opens = n, !.openSq = m]
      BY <1>1, <2>3, Zenon DEF RepairScan, flags
    <3> HIDE DEF n, m
    <3>5. QED
      BY <2>1, <3>2, <3>3, <3>4, CountsKept DEF flags
  <2>4. QED
    BY <2>2, <2>3
<1>3. /\ repair'.inString = (IF ~ repair.escape /\ c = "quote" THEN ~ repair.inString
                             ELSE repair.inString)
      /\ repair'.escape = (~ repair.escape /\ c = "backslash")
      /\ repair'.opens = (IF Quoted THEN repair.opens ELSE IF c = "object" THEN repair.opens + 1
                          ELSE IF c = "endObject" THEN repair.opens - 1 ELSE repair.opens)
      /\ repair'.openSq = (IF Quoted THEN repair.openSq ELSE IF c = "list" THEN repair.openSq + 1
                           ELSE IF c = "endList" THEN repair.openSq - 1 ELSE repair.openSq)
  BY <1>1 DEF RepairScan, InString, ScannerTypes, Counts, Quoted
<1>4. QED
  BY <1>2, <1>3

\* What it does to the search for the object.
LEMMA FeedExtract ==
    ASSUME ScannerTypes, NEW c \in Character, Feed(c)
    PROVE  /\ extract' \in Finding
           /\ extract.closed => extract' = extract
           /\ ~ extract.closed /\ ~ extract.started =>
                IF c = "object"
                THEN /\ extract'.started /\ extract'.depth = 1 /\ extract'.closed = extract.closed
                     /\ extract'.objectAt = Len(stack) + 1
                     /\ extract'.inString = extract.inString /\ extract'.escape = extract.escape
                ELSE extract' = extract
           /\ ~ extract.closed /\ extract.started =>
                /\ extract'.started /\ extract'.objectAt = extract.objectAt
                /\ extract'.inString = (IF ~ extract.escape /\ c = "quote" THEN ~ extract.inString
                                        ELSE extract.inString)
                /\ extract'.escape = (~ extract.escape /\ c = "backslash")
                /\ IF extract.escape \/ extract.inString
                   THEN extract'.depth = extract.depth /\ extract'.closed = extract.closed
                   ELSE /\ c = "object" => extract'.depth = extract.depth + 1
                        /\ c = "endObject" => extract'.depth = extract.depth - 1
                        /\ c # "object" /\ c # "endObject" => extract'.depth = extract.depth
                        /\ ~ extract'.closed /\ c = "endObject" => extract.depth # 1
<1>1. extract' = ExtractScan(extract, c) /\ extract \in Finding
  BY DEF Feed, ScannerTypes
<1> DEFINE n == Len(stack) + 1
<1>2. n \in Nat
  BY DEF ScannerTypes
<1> DEFINE flags == InString(extract, c)
<1>3. flags \in Finding
  BY <1>1, FlagsKept
<1>4. CASE extract.closed
  BY <1>1, <1>4 DEF ExtractScan
<1>5. CASE ~ extract.closed /\ ~ extract.started
  <2>1. CASE c = "object"
    <3> DEFINE yes == TRUE
    <3>1. yes \in BOOLEAN /\ 1 \in Int
      OBVIOUS
    <3>2. extract' = [extract EXCEPT !.started = yes, !.depth = 1, !.objectAt = n]
      BY <1>1, <1>5, <2>1, Zenon DEF ExtractScan
    <3>3. /\ extract'.started /\ extract'.depth = 1 /\ extract'.closed = extract.closed
          /\ extract'.objectAt = Len(stack) + 1
          /\ extract'.inString = extract.inString /\ extract'.escape = extract.escape
      BY <1>1, <3>2 DEF Finding
    <3> HIDE DEF yes, n
    <3>4. extract' \in Finding
      <4>1. [extract EXCEPT !.started = yes, !.depth = 1, !.objectAt = n] \in Finding
        BY <1>1, <1>2, <3>1, FindingBegun
      <4>2. QED
        BY <3>2, <4>1
    <3>5. QED
      BY <1>5, <2>1, <3>3, <3>4
  <2>2. CASE c # "object"
    BY <1>1, <1>5, <2>2 DEF ExtractScan
  <2>3. QED
    BY <2>1, <2>2
<1>6. CASE ~ extract.closed /\ extract.started
  <2>1. /\ flags.started = extract.started /\ flags.objectAt = extract.objectAt
        /\ flags.depth = extract.depth /\ flags.closed = extract.closed
        /\ flags.inString = (IF ~ extract.escape /\ c = "quote" THEN ~ extract.inString
                             ELSE extract.inString)
        /\ flags.escape = (~ extract.escape /\ c = "backslash")
    BY <1>1 DEF InString, Finding
  <2> HIDE DEF flags
  <2>2. CASE extract.escape \/ extract.inString
    <3>1. extract' = flags
      BY <1>1, <1>6, <2>2 DEF ExtractScan, flags
    <3>2. QED
      BY <1>3, <1>6, <2>1, <2>2, <3>1
  <2>3. CASE ~ (extract.escape \/ extract.inString) /\ c = "object"
    <3>1. extract' = [flags EXCEPT !.depth = @ + 1]
      BY <1>1, <1>6, <2>3, Zenon DEF ExtractScan, flags
    <3>2. extract' \in Finding
      BY <1>3, <3>1 DEF Finding
    <3>3. /\ extract'.started = flags.started /\ extract'.objectAt = flags.objectAt
          /\ extract'.inString = flags.inString /\ extract'.escape = flags.escape
          /\ extract'.closed = flags.closed /\ extract'.depth = flags.depth + 1
      BY <1>3, <3>1 DEF Finding
    <3>4. QED
      BY <1>6, <2>1, <2>3, <3>2, <3>3
  <2>4. CASE ~ (extract.escape \/ extract.inString) /\ c = "endObject"
    <3> DEFINE m == flags.depth - 1
               e == extract.depth = 1
    <3>1. extract' = [flags EXCEPT !.depth = m, !.closed = e]
      BY <1>1, <1>6, <2>4, Zenon DEF ExtractScan, flags
    <3>2. m \in Int /\ e \in BOOLEAN
      BY <1>3 DEF Finding
    <3>3. extract' \in Finding
      <4> HIDE DEF m, e
      <4>1. QED
        BY <1>3, <3>1, <3>2, FindingEnded
    <3>4. /\ extract'.started = flags.started /\ extract'.objectAt = flags.objectAt
          /\ extract'.inString = flags.inString /\ extract'.escape = flags.escape
          /\ extract'.closed = (extract.depth = 1) /\ extract'.depth = flags.depth - 1
      BY <1>3, <3>1 DEF Finding
    <3>5. QED
      BY <1>6, <2>1, <2>4, <3>3, <3>4
  <2>5. CASE ~ (extract.escape \/ extract.inString) /\ c # "object" /\ c # "endObject"
    <3>1. extract' = flags
      BY <1>1, <1>6, <2>5 DEF ExtractScan, flags
    <3>2. QED
      BY <1>3, <1>6, <2>1, <2>5, <3>1
  <2>6. QED
    BY <2>2, <2>3, <2>4, <2>5
<1>7. QED
  BY <1>4, <1>5, <1>6

\* What both scanners keep has its type.
LEMMA TextTypes ==
    ASSUME TextInv
    PROVE  /\ ScannerTypes /\ stack \in Seq(Bracket) /\ Len(stack) \in Nat
           /\ extract \in Finding /\ extract.objectAt \in Nat /\ extract.depth \in Int
           /\ "object" \in Bracket /\ "list" \in Bracket
           /\ \A i \in 1..Len(stack) : stack[i] = "object" \/ stack[i] = "list"
<1>1. ScannerTypes
  BY DEF TextInv
<1>2. stack \in Seq(Bracket) /\ extract \in Finding
  BY <1>1 DEF ScannerTypes
<1>3. Len(stack) \in Nat /\ \A i \in 1..Len(stack) : stack[i] \in Bracket
  BY <1>2
<1>4. extract.objectAt \in Nat /\ extract.depth \in Int
  BY <1>2 DEF Finding
<1>5. QED
  BY <1>1, <1>2, <1>3, <1>4 DEF Bracket

\* While the object is open the search keeps the objects open since its bracket.
DepthFollows ==
  extract.started /\ ~ extract.closed =>
    /\ extract.escape = repair.escape
    /\ extract.inString = repair.inString =>
         /\ extract.objectAt >= 1 /\ Len(stack) >= extract.objectAt
         /\ stack[extract.objectAt] = "object"
         /\ extract.depth = Count(stack, extract.objectAt, "object")

LEMMA FeedDepth == ASSUME TextInv, NEW c \in Character, Feed(c) PROVE DepthFollows'
<1>0. /\ ScannerTypes /\ stack \in Seq(Bracket) /\ Len(stack) \in Nat
      /\ extract \in Finding /\ "object" \in Bracket
  BY TextTypes
<1>1. SUFFICES ASSUME extract'.started, ~ extract'.closed PROVE
        /\ extract'.escape = repair'.escape
        /\ extract'.inString = repair'.inString =>
             /\ extract'.objectAt >= 1 /\ Len(stack') >= extract'.objectAt
             /\ stack'[extract'.objectAt] = "object"
             /\ extract'.depth = Count(stack', extract'.objectAt, "object")
  BY DEF DepthFollows
<1>2. ~ extract.closed
  BY <1>0, <1>1, FeedExtract
<1>3. CASE ~ extract.started
  <2>1. /\ c = "object" /\ extract'.depth = 1 /\ extract'.objectAt = Len(stack) + 1
        /\ extract'.inString = extract.inString /\ extract'.escape = extract.escape
    BY <1>0, <1>1, <1>2, <1>3, FeedExtract
  <2>2. extract'.escape = FALSE /\ extract'.inString = FALSE
    <3>1. extract.escape \in BOOLEAN /\ extract.inString \in BOOLEAN
      BY <1>0 DEF Finding
    <3>2. ~ extract.escape /\ ~ extract.inString
      BY <1>3 DEF TextInv
    <3>3. QED
      BY <2>1, <3>1, <3>2
  <2>3. repair'.escape = FALSE /\ repair'.inString = repair.inString
    BY <1>0, <2>1, FeedRepair
  <2>4. SUFFICES ASSUME extract'.inString = repair'.inString PROVE
          /\ Len(stack) + 1 >= 1 /\ Len(stack') >= Len(stack) + 1 /\ stack'[Len(stack) + 1] = "object"
          /\ Count(stack', Len(stack) + 1, "object") = 1
    BY <2>1, <2>2, <2>3, Zenon
  <2>5. ~ Quoted
    BY <2>2, <2>3, <2>4 DEF Quoted, TextInv
  <2>6. stack' = Append(stack, "object")
    BY <1>0, <2>1, <2>5, FeedStack
  <2>7. Count(stack', Len(stack) + 1, "object") = 0 + 1
    <3>1. Count(stack, Len(stack) + 1, "object") = 0
      BY <1>0, CountAtEnd
    <3>2. Len(stack) + 1 \in Nat /\ Len(stack) + 1 >= 1 /\ Len(stack) + 1 <= Len(stack) + 1
      BY <1>0
    <3>3. Count(Append(stack, "object"), Len(stack) + 1, "object") = Count(stack, Len(stack) + 1, "object") + 1
      BY <1>0, <3>2, CountOneMore
    <3>4. QED
      BY <2>6, <3>1, <3>3
  <2>8. Len(stack) + 1 >= 1 /\ Len(stack') >= Len(stack) + 1 /\ stack'[Len(stack) + 1] = "object"
    BY <1>0, <2>6
  <2>9. QED
    BY <2>7, <2>8
<1>4. CASE extract.started
  <2> DEFINE at == extract.objectAt
  <2>1. /\ extract'.objectAt = at
        /\ extract'.inString = (IF ~ extract.escape /\ c = "quote" THEN ~ extract.inString
                                ELSE extract.inString)
        /\ extract'.escape = (~ extract.escape /\ c = "backslash")
    BY <1>0, <1>2, <1>4, FeedExtract
  <2>2. extract.escape = repair.escape /\ extract'.escape = repair'.escape
    BY <1>0, <1>2, <1>4, <2>1, FeedRepair DEF TextInv
  <2>3. extract'.inString = repair'.inString => extract.inString = repair.inString
    <3>1. extract.inString \in BOOLEAN /\ repair.inString \in BOOLEAN
      BY <1>0 DEF ScannerTypes, Counts, Finding
    <3>2. repair'.inString = (IF ~ repair.escape /\ c = "quote" THEN ~ repair.inString
                              ELSE repair.inString)
      BY <1>0, FeedRepair
    <3>3. QED
      BY <2>1, <2>2, <3>1, <3>2
  <2>4. SUFFICES ASSUME extract.inString = repair.inString PROVE
          /\ at >= 1 /\ Len(stack') >= at /\ stack'[at] = "object"
          /\ extract'.depth = Count(stack', at, "object")
    BY <2>1, <2>2, <2>3
  <2>5. /\ at >= 1 /\ Len(stack) >= at /\ stack[at] = "object"
        /\ extract.depth = Count(stack, at, "object")
    BY <1>2, <1>4, <2>4 DEF TextInv
  <2>a. at \in Nat /\ extract.depth \in Int
    BY TextTypes
  <2> HIDE DEF at
  <2>6. Quoted <=> extract.escape \/ extract.inString
    BY <2>2, <2>4 DEF Quoted
  <2>7. /\ Quoted => extract'.depth = extract.depth
        /\ ~ Quoted /\ c = "object" => extract'.depth = extract.depth + 1
        /\ ~ Quoted /\ c = "endObject" => extract'.depth = extract.depth - 1 /\ extract.depth # 1
        /\ c # "object" /\ c # "endObject" => extract'.depth = extract.depth
    BY <1>0, <1>1, <1>2, <1>4, <2>6, FeedExtract
  <2>8. extract'.depth = Count(stack', at, "object")
    <3>1. CloserOf("object") = "endObject"
      BY DEF CloserOf
    <3>2. at \in Nat /\ at <= Len(stack) + 1 /\ at <= Len(stack)
      BY <1>0, <2>5, <2>a
    <3>3. /\ Count(stack, at, "object") \in Nat
          /\ ~ Quoted /\ c = "object" => Count(stack', at, "object") = Count(stack, at, "object") + 1
          /\ ~ Quoted /\ c = "endObject" => Count(stack', at, "object") = Count(stack, at, "object") - 1
          /\ Quoted \/ (c # "object" /\ c # "endObject") => Count(stack', at, "object") = Count(stack, at, "object")
      <4>1. at >= 1
        BY <2>5
      <4>2. QED
        BY <1>0, <3>1, <3>2, <4>1, FeedCount
    <3>4. extract.depth = Count(stack, at, "object")
      BY <2>5
    <3>5. QED
      <4> DEFINE old == extract.depth
                 new == extract'.depth
      <4>1. /\ old \in Nat /\ old = Count(stack, at, "object")
            /\ Quoted => new = old
            /\ ~ Quoted /\ c = "object" => new = old + 1
            /\ ~ Quoted /\ c = "endObject" => new = old - 1
            /\ c # "object" /\ c # "endObject" => new = old
        BY <2>7, <3>3, <3>4
      <4> HIDE DEF old, new
      <4>2. new = Count(stack', at, "object")
        <5>1. CASE Quoted
          <6>1. new = old
            BY <4>1, <5>1
          <6>2. Count(stack', at, "object") = Count(stack, at, "object")
            BY <3>3, <5>1
          <6>3. QED
            BY <4>1, <6>1, <6>2
        <5>2. CASE ~ Quoted /\ c = "object"
          BY <3>3, <4>1, <5>2
        <5>3. CASE ~ Quoted /\ c = "endObject"
          BY <3>3, <4>1, <5>3
        <5>4. CASE c # "object" /\ c # "endObject"
          BY <3>3, <4>1, <5>4
        <5>5. QED
          BY <5>1, <5>2, <5>3, <5>4
      <4>3. QED
        BY <4>2 DEF new
  <2>9. Len(stack') >= at /\ stack'[at] = "object"
    <3>1. CASE stack' = stack
      BY <2>5, <3>1
    <3>2. CASE c \in Bracket /\ stack' = Append(stack, c)
      <4>1. /\ Len(Append(stack, c)) = Len(stack) + 1
            /\ \A i \in 1..Len(stack) : Append(stack, c)[i] = stack[i]
        BY <1>0, <3>2
      <4>2. at \in 1..Len(stack)
        BY <1>0, <2>5, <2>a
      <4>3. QED
        BY <1>0, <2>5, <2>a, <3>2, <4>1, <4>2
    <3>3. CASE /\ ~ Quoted /\ c \in {"endObject", "endList"} /\ stack # << >> /\ stack' = Popped(stack)
               /\ stack[Len(stack)] = (IF c = "endObject" THEN "object" ELSE "list")
      <4>1. /\ Len(stack') = Len(stack) - 1
            /\ \A i \in 1..Len(stack) - 1 : stack'[i] = stack[i]
        BY <1>0, <3>3, PoppedIs
      <4>2. at # Len(stack)
        <5>1. SUFFICES ASSUME at = Len(stack) PROVE FALSE
          OBVIOUS
        <5>2. Count(stack, Len(stack), "object") = 1
          BY <1>0, <2>5, <2>a, <3>3, <5>1, CountAtEnd
        <5>3. c = "endObject"
          BY <2>5, <3>3, <5>1
        <5>4. QED
          BY <2>5, <2>7, <3>3, <5>1, <5>2, <5>3
      <4>3. at \in 1..Len(stack) - 1
        BY <1>0, <2>5, <2>a, <4>2
      <4>4. QED
        BY <1>0, <2>5, <2>a, <4>1, <4>3
    <3>4. QED
      BY <1>0, <3>1, <3>2, <3>3, FeedStack
  <2>10. QED
    BY <2>5, <2>8, <2>9
<1>5. QED
  BY <1>3, <1>4

LEMMA FeedText == ASSUME TextInv, NEW c \in Character, Feed(c) PROVE TextInv'
<1>0. ScannerTypes /\ Len(stack) \in Nat /\ stack \in Seq(Bracket)
  BY TextTypes
<1>1. ScannerTypes'
  BY <1>0, FeedStack, FeedRepair, FeedExtract DEF ScannerTypes
<1>2. repair'.opens = Count(stack', 1, "object") /\ repair'.openSq = Count(stack', 1, "list")
  <2>0. 1 \in Nat /\ 1 >= 1 /\ 1 <= Len(stack) + 1
    BY <1>0
  <2>1. ~ Quoted /\ c \in {"endObject", "endList"} => 1 <= Len(stack)
    BY <1>0, FeedStack, PoppedIs DEF Bracket
  <2>2. CloserOf("object") = "endObject" /\ CloserOf("list") = "endList" /\ "object" \in Bracket /\ "list" \in Bracket
    BY DEF CloserOf, Bracket
  <2>3. /\ Count(stack, 1, "object") \in Nat
        /\ ~ Quoted /\ c = "object" => Count(stack', 1, "object") = Count(stack, 1, "object") + 1
        /\ ~ Quoted /\ c = "endObject" => Count(stack', 1, "object") = Count(stack, 1, "object") - 1
        /\ Quoted \/ (c # "object" /\ c # "endObject") => Count(stack', 1, "object") = Count(stack, 1, "object")
    BY <1>0, <2>0, <2>1, <2>2, FeedCount
  <2>4. /\ Count(stack, 1, "list") \in Nat
        /\ ~ Quoted /\ c = "list" => Count(stack', 1, "list") = Count(stack, 1, "list") + 1
        /\ ~ Quoted /\ c = "endList" => Count(stack', 1, "list") = Count(stack, 1, "list") - 1
        /\ Quoted \/ (c # "list" /\ c # "endList") => Count(stack', 1, "list") = Count(stack, 1, "list")
    BY <1>0, <2>0, <2>1, <2>2, FeedCount
  <2>5. repair'.opens = Count(stack', 1, "object")
    <3>1. repair.opens = Count(stack, 1, "object")
      BY DEF TextInv
    <3>2. repair'.opens = (IF Quoted THEN repair.opens ELSE IF c = "object" THEN repair.opens + 1
                           ELSE IF c = "endObject" THEN repair.opens - 1 ELSE repair.opens)
      BY <1>0, FeedRepair
    <3> DEFINE old == repair.opens
               new == repair'.opens
    <3>3. new = (IF Quoted THEN old ELSE IF c = "object" THEN old + 1
                 ELSE IF c = "endObject" THEN old - 1 ELSE old) /\ old = Count(stack, 1, "object")
      BY <3>1, <3>2
    <3> HIDE DEF old, new
    <3>4. new = Count(stack', 1, "object")
      <4>0. old \in Nat
        BY <2>3, <3>3
      <4>1. CASE Quoted
        <5>1. new = old
          BY <3>3, <4>1
        <5>2. Count(stack', 1, "object") = Count(stack, 1, "object")
          BY <2>3, <4>1
        <5>3. QED
          BY <3>3, <5>1, <5>2
      <4>2. CASE ~ Quoted /\ c = "object"
        BY <2>3, <3>3, <4>0, <4>2
      <4>3. CASE ~ Quoted /\ c = "endObject"
        BY <2>3, <3>3, <4>0, <4>3
      <4>4. CASE ~ Quoted /\ c # "object" /\ c # "endObject"
        BY <2>3, <3>3, <4>4
      <4>5. QED
        BY <4>1, <4>2, <4>3, <4>4
    <3>5. QED
      BY <3>4 DEF new
  <2>6. repair'.openSq = Count(stack', 1, "list")
    <3>1. repair.openSq = Count(stack, 1, "list")
      BY DEF TextInv
    <3>2. repair'.openSq = (IF Quoted THEN repair.openSq ELSE IF c = "list" THEN repair.openSq + 1
                            ELSE IF c = "endList" THEN repair.openSq - 1 ELSE repair.openSq)
      BY <1>0, FeedRepair
    <3> DEFINE old == repair.openSq
               new == repair'.openSq
    <3>3. new = (IF Quoted THEN old ELSE IF c = "list" THEN old + 1
                 ELSE IF c = "endList" THEN old - 1 ELSE old) /\ old = Count(stack, 1, "list")
      BY <3>1, <3>2
    <3> HIDE DEF old, new
    <3>4. new = Count(stack', 1, "list")
      <4>0. old \in Nat
        BY <2>4, <3>3
      <4>1. CASE Quoted
        <5>1. new = old
          BY <3>3, <4>1
        <5>2. Count(stack', 1, "list") = Count(stack, 1, "list")
          BY <2>4, <4>1
        <5>3. QED
          BY <3>3, <5>1, <5>2
      <4>2. CASE ~ Quoted /\ c = "list"
        BY <2>4, <3>3, <4>0, <4>2
      <4>3. CASE ~ Quoted /\ c = "endList"
        BY <2>4, <3>3, <4>0, <4>3
      <4>4. CASE ~ Quoted /\ c # "list" /\ c # "endList"
        BY <2>4, <3>3, <4>4
      <4>5. QED
        BY <4>1, <4>2, <4>3, <4>4
    <3>5. QED
      BY <3>4 DEF new
  <2>7. QED
    BY <2>5, <2>6
<1>3. repair'.escape => repair'.inString
  <2>1. /\ repair'.escape = (~ repair.escape /\ c = "backslash")
        /\ repair'.inString = (IF ~ repair.escape /\ c = "quote" THEN ~ repair.inString
                               ELSE repair.inString)
    BY <1>0, FeedRepair
  <2>2. c = "backslash" => Quoted
    BY DEF Feed, Nested
  <2>3. QED
    BY <2>1, <2>2 DEF Quoted, TextInv
<1>4. ~ extract'.started => ~ extract'.closed /\ ~ extract'.inString /\ ~ extract'.escape
  BY <1>0, FeedExtract DEF TextInv
<1>5. QED
  BY <1>1, <1>2, <1>3, <1>4, FeedDepth DEF TextInv, DepthFollows

LEMMA TextStep == TextInv /\ [TextNext]_textVars => TextInv'
<1>1. TextInv /\ TextNext => TextInv'
  BY FeedText DEF TextNext
<1>2. TextInv /\ UNCHANGED textVars => TextInv'
  BY DEF textVars, TextInv, ScannerTypes, Count
<1>3. QED
  BY <1>1, <1>2

\* A list of places that contains all places above each of its own is the last ones.
LEMMA LastPlaces ==
    ASSUME NEW n \in Nat, NEW S \in SUBSET (1..n),
           \A i \in S : \A j \in 1..n : j >= i => j \in S
    PROVE  Cardinality(S) \in Nat /\ S = (n + 1 - Cardinality(S))..n
<1>1. IsFiniteSet(1..n) /\ Cardinality(1..n) = n
  BY FS_Interval
<1>2. IsFiniteSet(S) /\ Cardinality(S) \in Nat /\ Cardinality(S) <= n
  BY <1>1, FS_Subset, FS_CardinalityType
<1> DEFINE q == Cardinality(S)
           T == (n + 1 - q)..n
<1> HIDE DEF q
<1>3. IsFiniteSet(T) /\ Cardinality(T) = q
  <2>1. q \in Nat /\ q <= n
    BY <1>2 DEF q
  <2>2. n + 1 - q \in Int /\ n \in Int
    BY <2>1
  <2>3. IsFiniteSet(T) /\ Cardinality(T) = IF n + 1 - q > n THEN 0 ELSE n - (n + 1 - q) + 1
    BY <2>2, FS_Interval
  <2> HIDE DEF T
  <2>4. QED
    BY <2>1, <2>3
<1>4. CASE S \subseteq T
  BY <1>2, <1>3, <1>4, FS_Subset DEF q
<1>5. CASE ~ S \subseteq T
  <2>1. PICK i \in S : i \notin T
    BY <1>5
  <2>2. T \subseteq S
    BY <1>2, <2>1 DEF q
  <2>3. QED
    BY <1>2, <1>3, <2>2, FS_Subset DEF q
<1>6. QED
  BY <1>2, <1>4, <1>5 DEF q

\* The repair's closers match the stack when every list is inside every object.
LEMMA ClosersMatch ==
    ASSUME TextInv
    PROVE  Closers = Match <=> \A i, j \in 1..Len(stack) :
                                  stack[i] = "list" /\ stack[j] = "object" => j < i
<1> DEFINE n == Len(stack)
           q == repair.openSq
           S == {i \in 1..n : stack[i] = "list"}
           T == {i \in 1..n : stack[i] = "object"}
<1>0. n \in Nat
  BY TextTypes
<1>1. \A i \in 1..n : stack[i] = "object" \/ stack[i] = "list"
  BY TextTypes
<1>2. /\ IsFiniteSet(S) /\ IsFiniteSet(T) /\ Cardinality(S) = q /\ Cardinality(T) = repair.opens
      /\ Cardinality(S) \in Nat /\ Cardinality(T) \in Nat
  <2>1. Cardinality(S) = q /\ Cardinality(T) = repair.opens
    BY DEF TextInv, Count
  <2>2. IsFiniteSet(1..n) /\ S \subseteq 1..n /\ T \subseteq 1..n
    <3>1. S \subseteq 1..n /\ T \subseteq 1..n
      OBVIOUS
    <3> HIDE DEF n
    <3>2. IsFiniteSet(1..n)
      BY <1>0, FS_Interval
    <3>3. QED
      BY <3>1, <3>2
  <2>3. QED
    BY <2>1, <2>2, FS_Subset, FS_CardinalityType
<1>3. q + repair.opens = n
  <2>1. S \cup T = 1..n /\ S \cap T = {}
    BY <1>1
  <2>2. Cardinality(1..n) = n /\ Cardinality({}) = 0
    <3> HIDE DEF n
    <3>1. Cardinality(1..n) = IF 1 > n THEN 0 ELSE n - 1 + 1
      BY <1>0, FS_Interval
    <3>2. QED
      BY <1>0, <3>1, FS_EmptySet
  <2> HIDE DEF S, T, n, q
  <2>3. Cardinality(S \cup T) = Cardinality(S) + Cardinality(T) - Cardinality(S \cap T)
    BY <1>2, FS_Union
  <2>4. Cardinality(S \cup T) = n /\ Cardinality(S \cap T) = 0
    BY <2>1, <2>2
  <2>5. Cardinality(S) = q /\ Cardinality(T) = repair.opens /\ q \in Nat /\ repair.opens \in Nat
    BY <1>2
  <2>6. QED
    BY <2>3, <2>4, <2>5
<1>4. q \in Nat /\ q <= n
  <2> HIDE DEF S, T, n, q
  <2>1. q \in Nat /\ repair.opens \in Nat
    BY <1>2
  <2>2. QED
    BY <1>3, <2>1
<1>5. Closers = Match <=> \A i \in 1..n : i <= q <=> stack[n + 1 - i] = "list"
  <2>1. Closers = [i \in 1..n |-> IF i <= q THEN "endList" ELSE "endObject"]
    BY <1>3 DEF Closers
  <2>2. Match = [i \in 1..n |-> IF stack[n + 1 - i] = "object" THEN "endObject" ELSE "endList"]
    BY DEF Match
  <2>3. \A i \in 1..n : n + 1 - i \in 1..n
    BY <1>0
  <2>4. \A i \in 1..n : (IF i <= q THEN "endList" ELSE "endObject")
                          = (IF stack[n + 1 - i] = "object" THEN "endObject" ELSE "endList")
                        <=> (i <= q <=> stack[n + 1 - i] = "list")
    BY <1>1, <2>3
  <2> HIDE DEF n, q
  <2>5. QED
    BY <2>1, <2>2, <2>4
<1>6. (\A i \in 1..n : i <= q <=> stack[n + 1 - i] = "list") <=> S = (n + 1 - q)..n
  <2>1. \A i \in 1..n : n + 1 - i \in 1..n /\ n + 1 - (n + 1 - i) = i
    BY <1>0
  <2>2. \A i \in 1..n : i <= q <=> n + 1 - i \in (n + 1 - q)..n
    BY <1>0, <1>4
  <2>3. ASSUME \A i \in 1..n : i <= q <=> stack[n + 1 - i] = "list" PROVE S = (n + 1 - q)..n
    <3>1. \A p \in 1..n : p \in S <=> p \in (n + 1 - q)..n
      BY <2>1, <2>2, <2>3
    <3>2. (n + 1 - q)..n \subseteq 1..n
      BY <1>0, <1>4
    <3>3. QED
      BY <3>1, <3>2
  <2>4. ASSUME S = (n + 1 - q)..n PROVE \A i \in 1..n : i <= q <=> stack[n + 1 - i] = "list"
    BY <2>1, <2>2, <2>4
  <2>5. QED
    BY <2>3, <2>4
<1>7. ASSUME S = (n + 1 - q)..n PROVE \A i, j \in 1..n : stack[i] = "list" /\ stack[j] = "object" => j < i
  <2>1. SUFFICES ASSUME NEW i \in 1..n, NEW j \in 1..n, stack[i] = "list", stack[j] = "object" PROVE j < i
    OBVIOUS
  <2>2. i \in S /\ j \notin S
    BY <2>1
  <2>3. QED
    BY <1>0, <1>4, <1>7, <2>2
<1>8. ASSUME \A i, j \in 1..n : stack[i] = "list" /\ stack[j] = "object" => j < i PROVE S = (n + 1 - q)..n
  <2>1. \A i \in S : \A j \in 1..n : j >= i => j \in S
    <3>1. SUFFICES ASSUME NEW i \in 1..n, stack[i] = "list", NEW j \in 1..n, j >= i
                   PROVE  stack[j] = "list"
      OBVIOUS
    <3>2. ~ (j < i)
      BY <1>0, <3>1
    <3>3. QED
      BY <1>1, <1>8, <3>1, <3>2
  <2>2. S \in SUBSET (1..n)
    OBVIOUS
  <2> HIDE DEF S, n
  <2>3. S = (n + 1 - Cardinality(S))..n
    BY <1>0, <2>1, <2>2, LastPlaces
  <2>4. QED
    BY <1>2, <2>3
<1>9. QED
  BY <1>5, <1>6, <1>7, <1>8

\* The repair of a cut answer counts the brackets that are open and closes them in
\* their order exactly when no object is open inside an open list, and the search for
\* an object stays at the depth of the object it found (client.py:99-153,
\* shadow_service.py:67-118).
THEOREM BothScannersFollow == TextSpec => []BracketsAreFollowed
<1>1. TextInv => BracketsAreFollowed
  <2>1. TextInv => RepairClosesUnlessObjectInList
    BY ClosersMatch DEF TextInv, Count, RepairClosesUnlessObjectInList
  <2>2. TextInv => ExtractEndsAtMatch
    BY DEF TextInv, Count, ExtractEndsAtMatch
  <2>3. QED
    BY <2>1, <2>2 DEF BracketsAreFollowed
<1>2. QED
  BY <1>1, InitText, TextStep, PTL DEF TextSpec
=============================================================================
