------------------------- MODULE PackPipelineProofs -------------------------
(***************************************************************************)
(* Proofs about PackPipeline, for any number of runs and of messages.      *)
(***************************************************************************)
EXTENDS PackPipeline, TLAPS

-----------------------------------------------------------------------------
(* Types.                                                                  *)

\* A message is a task that waits.
LEMMA MessageType ==
    ASSUME NEW kind \in Kind, NEW r \in Runs \cup {NoRun}
    PROVE  Message(kind, r) \in Task
  BY DEF Message, Task, ProgramCounter, Waiting

LEMMA NoTaskType == NoTask \in Task
  BY MessageType DEF NoTask, Message, Task, ProgramCounter, Waiting, Kind

LEMMA MessageFields ==
    ASSUME NEW kind, NEW r
    PROVE  /\ Message(kind, r).kind = kind /\ Message(kind, r).run = r
           /\ Message(kind, r).pc = "queued"
  BY DEF Message

LEMMA NoTaskFree == NoTask.kind = "free"
  BY DEF NoTask, Message

-----------------------------------------------------------------------------
(* What the helpers do to the messages.                                    *)

\* Acknowledging frees the slot of t and touches no other.
LEMMA AckEffect ==
    ASSUME task \in [Tasks -> Task], NEW t \in Tasks, Ack(t)
    PROVE  /\ task' \in [Tasks -> Task]
           /\ task'[t].kind = "free"
           /\ \A u \in Tasks : u # t => task'[u] = task[u]
  BY NoTaskType, NoTaskFree DEF Ack

\* Moving t leaves its kind and run as they are, and the other messages.
LEMMA GoToEffect ==
    ASSUME task \in [Tasks -> Task], NEW t \in Tasks, NEW pc \in ProgramCounter, GoTo(t, pc)
    PROVE  /\ task' \in [Tasks -> Task]
           /\ task'[t].kind = task[t].kind /\ task'[t].run = task[t].run
           /\ task'[t].pc = pc
           /\ \A u \in Tasks : u # t => task'[u] = task[u]
  BY ZenonT(60) DEF GoTo, Task

\* Sending fills one free slot and leaves the others as rest has them.
LEMMA SendEffect ==
    ASSUME NEW message \in Task, NEW rest \in [Tasks -> Task], Send(message, rest)
    PROVE  /\ task' \in [Tasks -> Task]
           /\ \E u \in Tasks : /\ Free(u) /\ task'[u] = message
                               /\ \A v \in Tasks : v # u => task'[v] = rest[v]
  BY DEF Send, FreeSlot

LEMMA RequeueType ==
    ASSUME task \in [Tasks -> Task], NEW t \in Tasks, NEW n \in Nat
    PROVE  LET m == [Message(task[t].kind, task[t].run) EXCEPT !.tries = n]
           IN  m \in Task /\ m.kind = task[t].kind /\ m.run = task[t].run /\ m.pc = "queued"
  BY MessageType DEF Task, Message

\* The message of t stays where it is, or goes back to the queue, or to on_failure,
\* or away; the other messages stay as they are.
Requeued(t) ==
    /\ task' \in [Tasks -> Task]
    /\ \/ task'[t].kind = "free"
       \/ /\ task'[t].kind = task[t].kind /\ task'[t].run = task[t].run
          /\ task'[t].pc \in {"queued", "failing"}
    /\ \A u \in Tasks : u # t => task'[u] = task[u]

LEMMA RetryOrFailEffect ==
    ASSUME TypeOK, NEW t \in Tasks, RetryOrFail(t)
    PROVE  Requeued(t) /\ faults' \in [FaultKind -> Nat]
  <1>. USE DEF TypeOK, Requeued
  <1>1. CASE Retry(t) /\ UNCHANGED faults
    <2>. task[t].tries + 1 \in Nat
      BY DEF Task
    <2>. QED BY <1>1, RequeueType DEF Retry
  <1>2. CASE RetryLost(t)
    BY <1>2, AckEffect DEF RetryLost, Fault, FaultKind
  <1>3. CASE GoTo(t, "failing") /\ UNCHANGED faults
    BY <1>3, GoToEffect DEF ProgramCounter
  <1>. QED BY <1>1, <1>2, <1>3 DEF RetryOrFail

\* The rows change in their status at most, and none becomes COMPLETED.
RowsMoved ==
    /\ job' \in [Runs -> JobRun]
    /\ \A r \in Runs : /\ job'[r].edit_plan = job[r].edit_plan
                       /\ job'[r].output_key = job[r].output_key
                       /\ job'[r].status \in {job[r].status} \cup (JobRunStatus \ {"completed"})
                                                             \cup {"deleted"}

LEMMA StatusEffect ==
    ASSUME job \in [Runs -> JobRun], NEW r \in Runs, NEW s \in JobRunStatus \ {"completed"},
           job' = [job EXCEPT ![r].status = s]
    PROVE  RowsMoved
  BY DEF RowsMoved, JobRun

LEMMA MarkRunFailedEffect ==
    ASSUME job \in [Runs -> JobRun], NEW r \in Runs, MarkRunFailed(r)
    PROVE  RowsMoved
  <1>1. CASE UNCHANGED job
    BY <1>1 DEF RowsMoved
  <1>2. CASE job' = [job EXCEPT ![r].status = "failed"]
    BY <1>2, StatusEffect DEF JobRunStatus
  <1>. QED BY <1>1, <1>2 DEF MarkRunFailed

LEMMA DeleteEffect == ASSUME job \in [Runs -> JobRun], DeleteCV PROVE RowsMoved
  BY ZenonT(60) DEF DeleteCV, RowsMoved, JobRun, RunExists, JobRunStatus

LEMMA AbandonedType ==
    ASSUME TypeOK, RunNamed, NEW t \in Tasks
    PROVE  Abandoned(t) \in [Runs -> JobRun]
  BY ZenonT(60) DEF Abandoned, StepOpen, RunNamed, TypeOK, JobRun, JobRunStatus

\* Steps left open are noted on the row, and nothing else.
LEMMA AbandonedEffect ==
    ASSUME TypeOK, RunNamed, NEW t \in Tasks, job' = Abandoned(t)
    PROVE  RowsMoved
  <1>1. job' \in [Runs -> JobRun]
    BY AbandonedType
  <1>2. \A r \in Runs : /\ job'[r].edit_plan = job[r].edit_plan
                        /\ job'[r].output_key = job[r].output_key
                        /\ job'[r].status = job[r].status
    BY DEF Abandoned, TypeOK, JobRun
  <1>. QED BY <1>1, <1>2 DEF RowsMoved

LEMMA FaultType ==
    ASSUME faults \in [FaultKind -> Nat], NEW k \in FaultKind, Fault(k)
    PROVE  faults' \in [FaultKind -> Nat]
  BY DEF Fault

\* The initial state satisfies the invariant.
LEMMA InitInv == ASSUME Init PROVE PipelineInv
  <1>. USE DEF Init
  <1>1. cv \in [status : CVStatus \cup {"absent"}, content : BOOLEAN]
    OBVIOUS
  <1>2. job \in [Runs -> JobRun] /\ \A r \in Runs : job[r].status = "absent" /\ ~job[r].output_key
    BY DEF NoJob, JobRun
  <1>3. task \in [Tasks -> Task] /\ \A t \in Tasks : task[t].kind = "free"
    BY NoTaskType, NoTaskFree
  <1>4. TypeOK
    BY <1>1, <1>2, <1>3 DEF TypeOK
  <1>. QED
    BY <1>2, <1>3, <1>4 DEF PipelineInv, RunNamed, UploadFirst, ParsedHasContent, LlmHasParsedCv,
        ChainHasPlan, RenderHasPlan, StoredInOrder, RenderInOrder, ChargedOnlyIfDelivered,
        OneChargePerRun, CVExists, CVStatus, Free

\* The runs parse_cv_task notes in its execution are runs, and noting them changes
\* nothing else of its message.
LEMMA NotedType ==
    ASSUME task \in [Tasks -> Task], NEW t \in Tasks
    PROVE  task[t].todo \subseteq Runs
  BY DEF Task

LEMMA SelectEffect ==
    ASSUME task \in [Tasks -> Task], NEW t \in Tasks, DispatchSelect(t)
    PROVE  /\ task' \in [Tasks -> Task]
           /\ task'[t].kind = task[t].kind /\ task'[t].run = task[t].run
           /\ task'[t].pc = "dispatch"
           /\ \A u \in Tasks : u # t => task'[u] = task[u]
  <1>. "dispatch" \in ProgramCounter /\ {r \in Runs : job[r].status = "created"} \in SUBSET Runs
    BY DEF ProgramCounter
  <1>. QED BY ZenonT(60) DEF DispatchSelect, Task

LEMMA SentEffect ==
    ASSUME task \in [Tasks -> Task], NEW t \in Tasks, NEW r \in Runs,
           Send(Message("llm", r), [task EXCEPT ![t].todo = @ \ {r}, ![t].sent = @ \cup {r}])
    PROVE  /\ task' \in [Tasks -> Task]
           /\ \A u \in Tasks :
                 \/ /\ task'[u].kind = task[u].kind /\ task'[u].run = task[u].run
                    /\ task'[u].pc = task[u].pc
                 \/ task'[u].kind = "llm" /\ task'[u].run = r /\ task'[u].pc = "queued"
  <1>. DEFINE rest == [task EXCEPT ![t].todo = @ \ {r}, ![t].sent = @ \cup {r}]
  <1>1. /\ rest \in [Tasks -> Task]
        /\ \A u \in Tasks : /\ rest[u].kind = task[u].kind
                            /\ rest[u].run = task[u].run /\ rest[u].pc = task[u].pc
    BY DEF Task
  <1>2. Message("llm", r) \in Task
    BY MessageType DEF Kind
  <1>. HIDE DEF rest
  <1>3. Send(Message("llm", r), rest)
    BY DEF rest
  <1>4. /\ task' \in [Tasks -> Task]
        /\ \E u \in Tasks : /\ task'[u] = Message("llm", r)
                            /\ \A v \in Tasks : v # u => task'[v] = rest[v]
    BY <1>1, <1>2, <1>3, SendEffect
  <1>. QED BY <1>1, <1>4, MessageFields

-----------------------------------------------------------------------------
(* Every step keeps the invariant: one lemma per component, one step per   *)
(* action.                                                                 *)

LEMMA ParseInv == ASSUME PipelineInv, NEW t \in Tasks, ParseStep(t) PROVE PipelineInv'
  <1>. USE DEF PipelineInv, TypeOK, RunNamed, UploadFirst, ParsedHasContent, LlmHasParsedCv,
               ChainHasPlan, RenderHasPlan, StoredInOrder, RenderInOrder,
               ChargedOnlyIfDelivered, OneChargePerRun, At, Free, CVExists, CVStatus
  <1>0. {"failing", "select", "working", "dispatch"} \subseteq ProgramCounter
    BY DEF ProgramCounter
  <1>1. CASE ParseStart(t)
    BY <1>0, <1>1, GoToEffect DEF ParseStart
  <1>2. CASE ParsePersist(t)
    <2>1. CASE CVExists
      <3>1. cv' = [status |-> "parsed", content |-> TRUE] /\ GoTo(t, "select")
        BY <1>2, <2>1 DEF ParsePersist
      <3>2. cv' \in [status : CVStatus \cup {"absent"}, content : BOOLEAN]
            /\ cv'.content /\ cv'.status = "parsed"
        BY <3>1
      <3>. QED BY <1>0, <1>2, <3>1, <3>2, GoToEffect DEF ParsePersist
    <2>2. CASE ~CVExists
      BY <1>0, <1>2, <2>2, GoToEffect DEF ParsePersist
    <2>. QED BY <2>1, <2>2
  <1>3. CASE ParseRetry(t)
    BY <1>3, RetryOrFailEffect DEF ParseRetry, Requeued
  <1>4. CASE ParseInvalid(t)
    BY <1>0, <1>4, GoToEffect DEF ParseInvalid
  <1>5. CASE DispatchSelect(t)
    BY <1>5, SelectEffect, ZenonT(60) DEF DispatchSelect
  <1>6. CASE DispatchSend(t)
    <2>1. PICK r \in task[t].todo :
             \/ Fault("broker") /\ GoTo(t, "failing")
             \/ /\ Send(Message("llm", r), [task EXCEPT ![t].todo = @ \ {r},
                                                       ![t].sent = @ \cup {r}])
                /\ UNCHANGED faults
      BY <1>6 DEF DispatchSend
    <2>2. r \in Runs
      BY NotedType
    <2>3. CASE Fault("broker") /\ GoTo(t, "failing")
      BY <1>0, <1>6, <2>3, GoToEffect, FaultType DEF DispatchSend, FaultKind
    <2>4. CASE Send(Message("llm", r), [task EXCEPT ![t].todo = @ \ {r},
                                                    ![t].sent = @ \cup {r}])
               /\ UNCHANGED faults
      <3>1. /\ task' \in [Tasks -> Task]
            /\ \A u \in Tasks :
                  \/ /\ task'[u].kind = task[u].kind /\ task'[u].run = task[u].run
                     /\ task'[u].pc = task[u].pc
                  \/ task'[u].kind = "llm" /\ task'[u].run = r /\ task'[u].pc = "queued"
        BY <2>2, <2>4, SentEffect
      <3>2. CVExists => cv.content
        BY <1>6 DEF DispatchSend
      <3>. QED BY <1>6, <2>2, <2>4, <3>1, <3>2 DEF DispatchSend
    <2>. QED BY <2>1, <2>3, <2>4
  <1>7. CASE DispatchCommit(t)
    <2>1. CASE \A r \in task[t].sent : RunExists(r)
      <3>1. Ack(t) /\ UNCHANGED <<cv, upload, request, claim, objects, usage, faults>>
        BY <1>7, <2>1 DEF DispatchCommit
      <3>2. /\ job' \in [Runs -> JobRun]
            /\ \A r \in Runs :
                  /\ job'[r].edit_plan = job[r].edit_plan
                  /\ job'[r].output_key = job[r].output_key
                  /\ job'[r].status = "completed" => job[r].status = "completed"
        BY <1>7, <2>1 DEF DispatchCommit, JobRun, JobRunStatus
      <3>. QED BY <1>7, <3>1, <3>2, AckEffect DEF DispatchCommit
    <2>2. CASE ~ \A r \in task[t].sent : RunExists(r)
      <3>1. GoTo(t, "failing")
            /\ UNCHANGED <<cv, job, upload, request, claim, objects, usage, faults>>
        BY <1>7, <2>2 DEF DispatchCommit
      <3>. QED BY <1>0, <1>7, <3>1, GoToEffect DEF DispatchCommit
    <2>. QED BY <2>1, <2>2
  <1>8. CASE ParseOnFailure(t)
    BY <1>8, AckEffect DEF ParseOnFailure
  <1>9. CASE ParseUncaught(t)
    BY <1>0, <1>9, GoToEffect DEF ParseUncaught
  <1>. QED BY <1>1, <1>2, <1>3, <1>4, <1>5, <1>6, <1>7, <1>8, <1>9 DEF ParseStep

\* Sending a message about run r, or the parse message, adds one waiting message.
Sent(kind, r) ==
    /\ task' \in [Tasks -> Task]
    /\ \A u \in Tasks :
          \/ task'[u] = task[u]
          \/ task'[u].kind = kind /\ task'[u].run = r /\ task'[u].pc = "queued"

LEMMA SendOnly ==
    ASSUME task \in [Tasks -> Task], NEW kind \in Kind, NEW r \in Runs \cup {NoRun},
           Send(Message(kind, r), task)
    PROVE  Sent(kind, r)
  <1>1. Message(kind, r) \in Task
    BY MessageType
  <1>2. /\ task' \in [Tasks -> Task]
        /\ \E u \in Tasks : /\ task'[u] = Message(kind, r)
                            /\ \A v \in Tasks : v # u => task'[v] = task[v]
    BY <1>1, SendEffect
  <1>. QED BY <1>2, MessageFields DEF Sent

LEMMA RequestInv ==
    ASSUME PipelineInv,
           \/ UploadCommit \/ UploadDispatch \/ DeleteCV
           \/ \E r \in Runs : \/ CreateRun(r) \/ CreateCommit(r) \/ CreateAbort(r)
                              \/ ResumeClaim(r) \/ ResumeDispatch(r)
    PROVE  PipelineInv'
  <1>. USE DEF PipelineInv, TypeOK, RunNamed, UploadFirst, ParsedHasContent, LlmHasParsedCv,
               ChainHasPlan, RenderHasPlan, StoredInOrder, RenderInOrder,
               ChargedOnlyIfDelivered, OneChargePerRun, At, Free, CVExists, CVStatus
  <1>0. {"parse", "llm"} \subseteq Kind /\ {"crash", "kill", "broker", "billing"} \subseteq FaultKind
    BY DEF Kind, FaultKind
  <1>1. CASE UploadCommit
    BY <1>0, <1>1, FaultType DEF UploadCommit
  <1>2. CASE UploadDispatch
    BY <1>0, <1>2, SendOnly, FaultType DEF UploadDispatch, Sent
  <1>3. CASE DeleteCV
    <2>1. cv' = [status |-> "absent", content |-> FALSE] /\ RowsMoved
      BY <1>3, DeleteEffect DEF DeleteCV
    <2>2. cv' \in [status : CVStatus \cup {"absent"}, content : BOOLEAN] /\ cv'.status = "absent"
      BY <2>1
    <2>3. TypeOK'
      BY <1>3, <2>1, <2>2 DEF DeleteCV, RowsMoved
    <2>4. (ParsedHasContent /\ LlmHasParsedCv /\ UploadFirst /\ RunNamed)'
      BY <1>3, <2>2 DEF DeleteCV
    <2>5. (ChainHasPlan /\ RenderHasPlan /\ StoredInOrder /\ RenderInOrder
             /\ ChargedOnlyIfDelivered /\ OneChargePerRun)'
      <3>1. UNCHANGED <<task, objects, usage>>
        BY <1>3 DEF DeleteCV
      <3>. QED BY <2>1, <3>1 DEF RowsMoved
    <2>. QED BY <2>3, <2>4, <2>5
  <1>4. ASSUME NEW r \in Runs, CreateRun(r) PROVE PipelineInv'
    BY <1>0, <1>4, SendOnly, FaultType DEF CreateRun, Sent
  <1>5. ASSUME NEW r \in Runs, CreateCommit(r) PROVE PipelineInv'
    BY <1>0, <1>5, FaultType DEF CreateCommit, JobRun, JobRunStatus
  <1>6. ASSUME NEW r \in Runs, CreateAbort(r) PROVE PipelineInv'
    BY <1>0, <1>6, FaultType DEF CreateAbort
  <1>7. ASSUME NEW r \in Runs, ResumeClaim(r) PROVE PipelineInv'
    BY <1>0, <1>7, FaultType DEF ResumeClaim, JobRun, JobRunStatus
  <1>8. ASSUME NEW r \in Runs, ResumeDispatch(r) PROVE PipelineInv'
    BY <1>0, <1>8, SendOnly, FaultType DEF ResumeDispatch, Sent
  <1>. QED BY <1>1, <1>2, <1>3, <1>4, <1>5, <1>6, <1>7, <1>8

LEMMA BeginEffect ==
    ASSUME task \in [Tasks -> Task], NEW t \in Tasks, NEW s \in JobRunStatus,
           task' = [task EXCEPT ![t].pc = "begin", ![t].seen = s]
    PROVE  /\ task' \in [Tasks -> Task]
           /\ task'[t].kind = task[t].kind /\ task'[t].run = task[t].run
           /\ task'[t].pc = "begin"
           /\ \A u \in Tasks : u # t => task'[u] = task[u]
  <1>. "begin" \in ProgramCounter /\ s \in JobRunStatus \cup {"none"}
    BY DEF ProgramCounter
  <1>. QED BY ZenonT(60) DEF Task

\* run_llm_task ends, or goes on with a status it has read.
LEMMA LoadEffect ==
    ASSUME TypeOK, RunNamed, NEW t \in Tasks, LlmLoad(t)
    PROVE  /\ task' \in [Tasks -> Task]
           /\ \/ task'[t].kind = "free"
              \/ task'[t].kind = "llm" /\ task'[t].run = task[t].run /\ task'[t].pc \in {"failing", "begin"}
           /\ \A u \in Tasks : u # t => task'[u] = task[u]
  <1>. USE DEF TypeOK
  <1>0. task[t].kind = "llm" /\ task[t].run \in Runs
    BY DEF LlmLoad, At, RunNamed
  <1>1. CASE GoTo(t, "failing")
    BY <1>0, <1>1, GoToEffect DEF ProgramCounter
  <1>2. CASE Ack(t)
    BY <1>2, AckEffect
  <1>3. CASE /\ task' = [task EXCEPT ![t].pc = "begin", ![t].seen = job[task[t].run].status]
             /\ RunExists(task[t].run)
    BY <1>0, <1>3, BeginEffect DEF RunExists
  <1>. QED BY <1>1, <1>2, <1>3 DEF LlmLoad

\* run_llm_task sends its render message and moves on to the next one.
ChainSent(t) ==
    /\ task' \in [Tasks -> Task]
    /\ \A u \in Tasks :
          \/ /\ task'[u].kind = task[u].kind /\ task'[u].run = task[u].run
             /\ task'[u].pc = task[u].pc \/ (u = t /\ task'[u].pc = "chain_detail")
          \/ task'[u].kind = "render" /\ task'[u].run = task[t].run /\ task'[u].pc = "queued"

LEMMA ChainEffect ==
    ASSUME task \in [Tasks -> Task], NEW t \in Tasks, task[t].run \in Runs,
           Send(Message("render", task[t].run), [task EXCEPT ![t].pc = "chain_detail"])
    PROVE  ChainSent(t)
  <1>. DEFINE rest == [task EXCEPT ![t].pc = "chain_detail"]
  <1>1. /\ rest \in [Tasks -> Task]
        /\ \A u \in Tasks : /\ rest[u].kind = task[u].kind /\ rest[u].run = task[u].run
                            /\ rest[u].pc = task[u].pc \/ (u = t /\ rest[u].pc = "chain_detail")
    BY DEF Task, ProgramCounter
  <1>2. Message("render", task[t].run) \in Task
    BY MessageType DEF Kind
  <1>. HIDE DEF rest
  <1>3. Send(Message("render", task[t].run), rest)
    BY DEF rest
  <1>4. /\ task' \in [Tasks -> Task]
        /\ \E u \in Tasks : /\ task'[u] = Message("render", task[t].run)
                            /\ \A v \in Tasks : v # u => task'[v] = rest[v]
    BY <1>1, <1>2, <1>3, SendEffect
  <1>. QED BY <1>1, <1>4, MessageFields DEF ChainSent

\* The plan is on the row of r, and nothing else of the rows changes but the status.
LEMMA PlanEffect ==
    ASSUME job \in [Runs -> JobRun], NEW r \in Runs,
           job' = [job EXCEPT ![r].status = "rendering", ![r].edit_plan = TRUE]
    PROVE  /\ job' \in [Runs -> JobRun]
           /\ job'[r].edit_plan
           /\ \A q \in Runs : /\ job[q].edit_plan => job'[q].edit_plan
                              /\ q # r => job'[q].edit_plan = job[q].edit_plan
                              /\ job'[q].output_key = job[q].output_key
                              /\ job'[q].status = job[q].status \/ job'[q].status = "rendering"
  BY DEF JobRun, JobRunStatus

\* Beginning and ending retrieval change the status of the run at most.
LEMMA LlmRowsEffect ==
    ASSUME job \in [Runs -> JobRun], RunNamed, NEW t \in Tasks, LlmBegin(t) \/ LlmRetrieved(t)
    PROVE  RowsMoved
  <1>1. task[t].run \in Runs
    BY DEF LlmBegin, LlmRetrieved, At, RunNamed
  <1>2. CASE UNCHANGED job
    BY <1>2 DEF RowsMoved
  <1>3. ASSUME NEW s \in {"retrieving", "llm_processing"},
               job' = [job EXCEPT ![task[t].run].status = s]
        PROVE  RowsMoved
    <2>. s \in JobRunStatus \ {"completed"}
      BY DEF JobRunStatus
    <2>. QED BY <1>1, <1>3, StatusEffect
  <1>. QED BY <1>2, <1>3 DEF LlmBegin, LlmRetrieved

LEMMA LlmInv == ASSUME PipelineInv, NEW t \in Tasks, LlmStep(t) PROVE PipelineInv'
  <1>. USE DEF PipelineInv, TypeOK, RunNamed, UploadFirst, ParsedHasContent, LlmHasParsedCv,
               ChainHasPlan, RenderHasPlan, StoredInOrder, RenderInOrder,
               ChargedOnlyIfDelivered, OneChargePerRun, At, Free, CVExists, CVStatus
  <1>0. {"failing", "begin", "retrieving", "calling", "persist", "chain_render",
         "chain_detail", "marking"} \subseteq ProgramCounter
    BY DEF ProgramCounter
  <1>1. CASE LlmLoad(t)
    BY <1>1, LoadEffect, ZenonT(60) DEF LlmLoad, Requeued
  <1>2. CASE LlmBegin(t)
    <2>1. RowsMoved
      BY <1>2, LlmRowsEffect
    <2>2. \E pc \in {"retrieving", "marking", "failing"} : GoTo(t, pc)
      BY <1>2 DEF LlmBegin
    <2>. QED BY <1>0, <1>2, <2>1, <2>2, GoToEffect DEF LlmBegin, RowsMoved
  <1>3. CASE LlmRetrieved(t)
    <2>1. RowsMoved
      BY <1>3, LlmRowsEffect
    <2>2. \E pc \in {"calling", "failing"} : GoTo(t, pc)
      BY <1>3 DEF LlmRetrieved
    <2>. QED BY <1>0, <1>3, <2>1, <2>2, GoToEffect, SMTT(30) DEF LlmRetrieved, RowsMoved
  <1>4. CASE LlmRetrieveTimeout(t)
    BY <1>0, <1>4, GoToEffect, AbandonedType DEF LlmRetrieveTimeout, Abandoned
  <1>5. CASE LlmCalled(t)
    BY <1>0, <1>5, GoToEffect DEF LlmCalled
  <1>6. CASE LlmRetry(t)
    BY <1>0, <1>6, RetryOrFailEffect DEF LlmRetry, Requeued
  <1>7. CASE LlmTimeout(t)
    BY <1>0, <1>7, GoToEffect DEF LlmTimeout
  <1>8. CASE LlmPersist(t)
    <2>1. CASE RunExists(task[t].run)
      BY <1>0, <1>8, <2>1, GoToEffect, PlanEffect, SMTT(30) DEF LlmPersist
    <2>2. CASE ~RunExists(task[t].run)
      BY <1>0, <1>8, <2>2, GoToEffect DEF LlmPersist
    <2>. QED BY <2>1, <2>2
  <1>9. CASE LlmChainRender(t)
    <2>1. CASE Fault("broker") /\ GoTo(t, "failing")
      BY <1>0, <1>9, <2>1, GoToEffect, FaultType DEF LlmChainRender, FaultKind
    <2>2. CASE /\ Send(Message("render", task[t].run), [task EXCEPT ![t].pc = "chain_detail"])
               /\ UNCHANGED faults
      <3>1. task[t].run \in Runs /\ job[task[t].run].edit_plan
        BY <1>9 DEF LlmChainRender
      <3>2. ChainSent(t)
        BY <2>2, <3>1, ChainEffect
      <3>. QED BY <1>9, <2>2, <3>1, <3>2 DEF LlmChainRender, ChainSent
    <2>. QED BY <1>9, <2>1, <2>2 DEF LlmChainRender
  <1>10. CASE LlmChainDetail(t)
    BY <1>0, <1>10, GoToEffect, AckEffect, FaultType DEF LlmChainDetail, FaultKind
  <1>11. CASE LlmUncaught(t)
    BY <1>0, <1>11, GoToEffect, AbandonedType DEF LlmUncaught, Uncaught, Abandoned
  <1>12. CASE LlmMark(t)
    BY <1>0, <1>12, GoToEffect, MarkRunFailedEffect, SMTT(30) DEF LlmMark, RowsMoved
  <1>13. CASE LlmOnFailure(t)
    BY <1>0, <1>13, AckEffect, MarkRunFailedEffect, SMTT(30) DEF LlmOnFailure, RowsMoved
  <1>. QED BY <1>1, <1>2, <1>3, <1>4, <1>5, <1>6, <1>7, <1>8, <1>9, <1>10, <1>11, <1>12, <1>13 DEF LlmStep

\* The row of r is COMPLETED and names the file; nothing else changes.
LEMMA CompleteEffect ==
    ASSUME job \in [Runs -> JobRun], NEW r \in Runs,
           job' = [job EXCEPT ![r].status = "completed", ![r].output_key = TRUE]
    PROVE  /\ job' \in [Runs -> JobRun]
           /\ job'[r].output_key
           /\ \A q \in Runs : /\ job'[q].edit_plan = job[q].edit_plan
                              /\ q # r => job'[q] = job[q]
  BY DEF JobRun, JobRunStatus

LEMMA RenderInv == ASSUME PipelineInv, NEW t \in Tasks, RenderStep(t) PROVE PipelineInv'
  <1>. USE DEF PipelineInv, TypeOK, RunNamed, UploadFirst, ParsedHasContent, LlmHasParsedCv,
               ChainHasPlan, RenderHasPlan, StoredInOrder, RenderInOrder,
               ChargedOnlyIfDelivered, OneChargePerRun, At, Free, CVExists, CVStatus
  <1>0. {"failing", "rendering", "uploading", "finish", "billing", "inserting", "closing",
         "marking"} \subseteq ProgramCounter
    BY DEF ProgramCounter
  <1>1. CASE RenderLoad(t)
    BY <1>0, <1>1, GoToEffect, AckEffect DEF RenderLoad
  <1>2. CASE Rendered(t)
    BY <1>0, <1>2, GoToEffect DEF Rendered
  <1>3. CASE RenderTimeout(t)
    BY <1>0, <1>3, GoToEffect DEF RenderTimeout
  <1>4. CASE RenderRetry(t)
    BY <1>0, <1>4, RetryOrFailEffect DEF RenderRetry, Requeued
  <1>5. CASE RenderUpload(t)
    BY <1>0, <1>5, GoToEffect DEF RenderUpload
  <1>6. CASE RenderComplete(t)
    <2>1. CASE RunExists(task[t].run)
      BY <1>0, <1>6, <2>1, GoToEffect, CompleteEffect, SMTT(30) DEF RenderComplete
    <2>2. CASE ~RunExists(task[t].run)
      BY <1>0, <1>6, <2>2, GoToEffect DEF RenderComplete, Uncaught, Abandoned
    <2>. QED BY <2>1, <2>2
  <1>7. CASE UsageLookup(t)
    BY <1>0, <1>7, GoToEffect, FaultType DEF UsageLookup, FaultKind
  <1>8. CASE UsageInsert(t)
    BY <1>0, <1>8, GoToEffect, FaultType DEF UsageInsert, FaultKind, UsageAccepted
  <1>9. CASE RenderClose(t)
    BY <1>0, <1>9, AckEffect DEF RenderClose
  <1>10. CASE RenderUncaught(t)
    BY <1>0, <1>10, GoToEffect, AbandonedType DEF RenderUncaught, Uncaught, Abandoned
  <1>11. CASE RenderMark(t)
    BY <1>0, <1>11, GoToEffect, MarkRunFailedEffect, SMTT(30) DEF RenderMark, RowsMoved
  <1>12. CASE RenderOnFailure(t)
    BY <1>0, <1>12, AckEffect, MarkRunFailedEffect, SMTT(30) DEF RenderOnFailure, RowsMoved
  <1>. QED BY <1>1, <1>2, <1>3, <1>4, <1>5, <1>6, <1>7, <1>8, <1>9, <1>10, <1>11, <1>12 DEF RenderStep

LEMMA FaultInv == ASSUME PipelineInv, NEW t \in Tasks, Crash(t) \/ Kill(t) PROVE PipelineInv'
  <1>. USE DEF PipelineInv, TypeOK, RunNamed, UploadFirst, ParsedHasContent, LlmHasParsedCv,
               ChainHasPlan, RenderHasPlan, StoredInOrder, RenderInOrder,
               ChargedOnlyIfDelivered, OneChargePerRun, At, Free, CVExists, CVStatus
  <1>0. {"crash", "kill"} \subseteq FaultKind
    BY DEF FaultKind
  <1>1. CASE Crash(t)
    <2>. task[t].tries \in Nat
      BY DEF Task
    <2>1. Requeued(t)
      BY <1>1, RequeueType DEF Crash, Requeued
    <2>2. RowsMoved /\ faults' \in [FaultKind -> Nat]
      BY <1>0, <1>1, AbandonedEffect, FaultType DEF Crash
    <2>3. UNCHANGED <<cv, upload, request, claim, objects, usage>>
      BY <1>1 DEF Crash
    <2>. QED BY <2>1, <2>2, <2>3, SMTT(30) DEF Requeued, RowsMoved
  <1>2. CASE Kill(t)
    BY <1>0, <1>2, AckEffect, AbandonedType, FaultType DEF Kill, Abandoned
  <1>. QED BY <1>1, <1>2

\* The inductive invariant is one: Init and every step of Next keep it.
THEOREM Invariance == Spec => []PipelineInv
  <1>1. Init => PipelineInv
    BY InitInv
  <1>2. PipelineInv /\ [Next]_vars => PipelineInv'
    <2>1. ASSUME PipelineInv, Next PROVE PipelineInv'
      BY <2>1, ParseInv, RequestInv, LlmInv, RenderInv, FaultInv DEF Next, TaskStep
    <2>2. ASSUME PipelineInv, UNCHANGED vars PROVE PipelineInv'
      BY <2>2 DEF PipelineInv, TypeOK, RunNamed, UploadFirst, ParsedHasContent, LlmHasParsedCv,
          ChainHasPlan, RenderHasPlan, StoredInOrder, RenderInOrder, ChargedOnlyIfDelivered,
          OneChargePerRun, Free, CVExists, RunExists, vars
    <2>. QED BY <2>1, <2>2
  <1>. QED BY <1>1, <1>2, PTL DEF Spec

-----------------------------------------------------------------------------
(* The safety properties, from the invariant.                              *)

\* Rows, messages and counters keep their shape.
THEOREM TypeCorrect == Spec => []TypeOK
  BY Invariance, PTL DEF PipelineInv

\* A run that says COMPLETED has its plan, its key and its file in the bucket.
THEOREM CompletedIsDownloadable == Spec => []DownloadReady
  <1>1. PipelineInv => DownloadReady
    BY DEF PipelineInv, StoredInOrder, DownloadReady
  <1>. QED BY <1>1, Invariance, PTL

\* No usage record without a delivered pack, and never two for one pack, also when
\* two renders of a run interleave between the lookup and the insert.
THEOREM ChargesAreDue == Spec => [](ChargedOnlyIfDelivered /\ OneChargePerRun)
  BY Invariance, PTL DEF PipelineInv

\* A render always has the edit plan it is to apply.
THEOREM RendersArePlanned == Spec => []RenderHasPlan
  BY Invariance, PTL DEF PipelineInv

\* run_llm_task is never sent while its CV is there without parsed content.
THEOREM LlmWaitsForParse == Spec => []LlmHasParsedCv
  BY Invariance, PTL DEF PipelineInv

-----------------------------------------------------------------------------
(* The refinement of PackDelivery.                                         *)

\* What PackDelivery sees of a state does not change.
Quiet ==
    /\ \A r \in Runs : /\ job'[r].edit_plan = job[r].edit_plan
                       /\ job'[r].output_key = job[r].output_key
    /\ UNCHANGED <<objects, usage>>

LEMMA QuietStutters == ASSUME Quiet PROVE UNCHANGED Delivery!deliveryVars
  <1>1. Planned' = Planned /\ Delivered' = Delivered
    BY DEF Quiet, Planned, Delivered
  <1>. QED BY <1>1 DEF Quiet, Delivery!deliveryVars

LEMMA MovedIsQuiet ==
    ASSUME RowsMoved, UNCHANGED <<objects, usage>>
    PROVE  Quiet
  BY DEF RowsMoved, Quiet

LEMMA AbandonedKeeps ==
    ASSUME job \in [Runs -> JobRun], NEW t \in Tasks, job' = Abandoned(t),
           UNCHANGED <<objects, usage>>
    PROVE  Quiet
  BY DEF Abandoned, Quiet, JobRun

LEMMA ParseQuiet == ASSUME TypeOK, NEW t \in Tasks, ParseStep(t) PROVE Quiet
  <1>1. CASE DispatchCommit(t)
    BY <1>1 DEF DispatchCommit, Quiet, TypeOK, JobRun
  <1>2. CASE UNCHANGED <<job, objects, usage>>
    BY <1>2 DEF Quiet
  <1>. QED
    BY <1>1, <1>2 DEF ParseStep, ParseStart, ParsePersist, ParseRetry, ParseInvalid,
        DispatchSelect, DispatchSend, ParseUncaught, ParseOnFailure

LEMMA RequestQuiet ==
    ASSUME TypeOK,
           \/ UploadCommit \/ UploadDispatch \/ DeleteCV
           \/ \E r \in Runs : \/ CreateRun(r) \/ CreateCommit(r) \/ CreateAbort(r)
                              \/ ResumeClaim(r) \/ ResumeDispatch(r)
    PROVE  Quiet
  <1>1. CASE DeleteCV
    <2>. UNCHANGED <<objects, usage>>
      BY <1>1 DEF DeleteCV
    <2>. QED BY <1>1, DeleteEffect, MovedIsQuiet DEF TypeOK
  <1>2. ASSUME NEW r \in Runs, CreateCommit(r) \/ ResumeClaim(r) PROVE Quiet
    <2>1. UNCHANGED <<objects, usage>> /\ \E x : job' = [job EXCEPT ![r].status = x]
      BY <1>2 DEF CreateCommit, ResumeClaim
    <2>2. PICK x : job' = [job EXCEPT ![r].status = x]
      BY <2>1
    <2>. QED BY <2>1, <2>2 DEF Quiet, TypeOK, JobRun
  <1>3. CASE UNCHANGED <<job, objects, usage>>
    BY <1>3 DEF Quiet
  <1>. QED
    BY <1>1, <1>2, <1>3 DEF UploadCommit, UploadDispatch, CreateRun, CreateAbort, ResumeDispatch

\* LlmPersist is Plan, or a stutter when the run has a plan already.
LEMMA LlmDelivers ==
    ASSUME PipelineInv, NEW t \in Tasks, LlmStep(t)
    PROVE  [Delivery!DeliveryNext]_Delivery!deliveryVars
  <1>. USE DEF PipelineInv, TypeOK
  <1>1. CASE LlmBegin(t) \/ LlmRetrieved(t)
    <2>. UNCHANGED <<objects, usage>>
      BY <1>1 DEF LlmBegin, LlmRetrieved
    <2>. QED BY <1>1, LlmRowsEffect, MovedIsQuiet, QuietStutters
  <1>2. CASE LlmRetrieveTimeout(t) \/ LlmUncaught(t)
    BY <1>2, AbandonedKeeps, QuietStutters DEF LlmRetrieveTimeout, LlmUncaught, Uncaught
  <1>3. CASE LlmMark(t) \/ LlmOnFailure(t)
    <2>1. task[t].run \in Runs /\ MarkRunFailed(task[t].run) /\ UNCHANGED <<objects, usage>>
      BY <1>3 DEF LlmMark, LlmOnFailure, At, RunNamed
    <2>. QED BY <2>1, MarkRunFailedEffect, MovedIsQuiet, QuietStutters
  <1>4. CASE LlmPersist(t)
    <2>. DEFINE r == task[t].run
    <2>1. r \in Runs /\ UNCHANGED <<objects, usage>>
      BY <1>4 DEF LlmPersist, At, RunNamed
    <2>2. CASE ~RunExists(r)
      BY <1>4, <2>1, <2>2, QuietStutters DEF LlmPersist, Quiet
    <2>3. CASE RunExists(r)
      <3>1. /\ job'[r].edit_plan
            /\ \A q \in Runs : /\ q # r => job'[q].edit_plan = job[q].edit_plan
                               /\ job'[q].output_key = job[q].output_key
        BY <1>4, <2>1, <2>3, PlanEffect DEF LlmPersist
      <3>2. Planned' = Planned \cup {r} /\ Delivered' = Delivered
        BY <2>1, <3>1 DEF Planned, Delivered
      <3>3. CASE r \in Planned
        BY <2>1, <3>2, <3>3 DEF Delivery!deliveryVars
      <3>4. CASE r \notin Planned
        BY <2>1, <3>2, <3>4 DEF Delivery!DeliveryNext, Delivery!Plan
      <3>. QED BY <3>3, <3>4
    <2>. QED BY <2>2, <2>3
  <1>5. CASE UNCHANGED <<job, objects, usage>>
    BY <1>5, QuietStutters DEF Quiet
  <1>. QED
    BY <1>1, <1>2, <1>3, <1>4, <1>5 DEF LlmStep, LlmLoad, LlmCalled, LlmRetry, LlmTimeout,
        LlmChainRender, LlmChainDetail

\* RenderUpload is Store, RenderComplete is Deliver, UsageInsert is Charge, or each
\* a stutter when an earlier execution has done it.
LEMMA RenderDelivers ==
    ASSUME PipelineInv, NEW t \in Tasks, RenderStep(t)
    PROVE  [Delivery!DeliveryNext]_Delivery!deliveryVars
  <1>. USE DEF PipelineInv, TypeOK
  <1>. DEFINE r == task[t].run
  <1>0. task[t].kind = "render" /\ r \in Runs
    BY DEF RenderStep, RenderLoad, Rendered, RenderTimeout, RenderRetry, RenderUpload,
        RenderComplete, UsageLookup, UsageInsert, RenderClose, RenderUncaught, RenderMark,
        RenderOnFailure, At, RunNamed
  <1>1. CASE RenderUpload(t)
    <2>1. objects' = objects \cup {r} /\ UNCHANGED <<job, usage>>
      BY <1>1 DEF RenderUpload
    <2>2. Planned' = Planned /\ Delivered' = Delivered /\ r \in Planned
      BY <1>0, <2>1 DEF Planned, Delivered, RenderHasPlan
    <2>3. CASE r \in objects
      BY <2>1, <2>2, <2>3 DEF Delivery!deliveryVars
    <2>4. CASE r \notin objects
      BY <1>0, <2>1, <2>2, <2>4 DEF Delivery!DeliveryNext, Delivery!Store
    <2>. QED BY <2>3, <2>4
  <1>2. CASE RenderComplete(t) /\ RunExists(r)
    <2>1. r \in objects /\ UNCHANGED <<objects, usage>>
      BY <1>0, <1>2 DEF RenderComplete, At, RenderInOrder
    <2>2. /\ job'[r].output_key
          /\ \A q \in Runs : /\ job'[q].edit_plan = job[q].edit_plan
                             /\ q # r => job'[q] = job[q]
      BY <1>0, <1>2, CompleteEffect DEF RenderComplete
    <2>3. Planned' = Planned /\ Delivered' = Delivered \cup {r}
      BY <1>0, <2>2 DEF Planned, Delivered
    <2>4. CASE r \in Delivered
      BY <2>1, <2>3, <2>4 DEF Delivery!deliveryVars
    <2>5. CASE r \notin Delivered
      BY <1>0, <2>1, <2>3, <2>5 DEF Delivery!DeliveryNext, Delivery!Deliver
    <2>. QED BY <2>4, <2>5
  <1>3. CASE UsageInsert(t)
    <2>1. r \in Delivered
      BY <1>0, <1>3 DEF UsageInsert, At, RenderInOrder, Delivered
    <2>2. Planned' = Planned /\ Delivered' = Delivered /\ UNCHANGED objects
      BY <1>3 DEF UsageInsert, Planned, Delivered
    <2>3. CASE UNCHANGED usage
      BY <2>2, <2>3 DEF Delivery!deliveryVars
    <2>4. CASE usage[r] = 0 /\ usage' = [usage EXCEPT ![r] = @ + 1]
      <3>1. usage' = [usage EXCEPT ![r] = 1]
        BY <1>0, <2>4
      <3>. QED BY <1>0, <2>1, <2>2, <2>4, <3>1 DEF Delivery!DeliveryNext, Delivery!Charge
    <2>. QED BY <1>3, <2>3, <2>4 DEF UsageInsert, UsageAccepted
  <1>4. CASE RenderUncaught(t) \/ (RenderComplete(t) /\ ~RunExists(r))
    BY <1>4, AbandonedKeeps, QuietStutters DEF RenderUncaught, RenderComplete, Uncaught
  <1>5. CASE RenderMark(t) \/ RenderOnFailure(t)
    <2>1. MarkRunFailed(r) /\ UNCHANGED <<objects, usage>>
      BY <1>5 DEF RenderMark, RenderOnFailure
    <2>. QED BY <1>0, <2>1, MarkRunFailedEffect, MovedIsQuiet, QuietStutters
  <1>6. CASE UNCHANGED <<job, objects, usage>>
    BY <1>6, QuietStutters DEF Quiet
  <1>. QED
    BY <1>1, <1>2, <1>3, <1>4, <1>5, <1>6 DEF RenderStep, RenderLoad, Rendered, RenderTimeout,
        RenderRetry, UsageLookup, RenderClose

\* The pipeline implements PackDelivery: whatever the retries, the crashes and the
\* deletions do, a pack is planned, stored, delivered and charged in that order.
THEOREM Refinement == Spec => PipelineDelivers
  <1>1. Init => Delivery!DeliveryInit
    <2>. SUFFICES ASSUME Init PROVE Delivery!DeliveryInit
      OBVIOUS
    <2>1. Planned = {} /\ Delivered = {}
      BY DEF Init, NoJob, Planned, Delivered
    <2>. QED BY <2>1 DEF Init, Delivery!DeliveryInit
  <1>2. PipelineInv /\ [Next]_vars => [Delivery!DeliveryNext]_Delivery!deliveryVars
    <2>1. ASSUME PipelineInv, NEW t \in Tasks, TaskStep(t)
          PROVE  [Delivery!DeliveryNext]_Delivery!deliveryVars
      BY <2>1, ParseQuiet, QuietStutters, LlmDelivers, RenderDelivers DEF TaskStep, PipelineInv
    <2>2. ASSUME PipelineInv, NEW t \in Tasks, Crash(t) \/ Kill(t)
          PROVE  [Delivery!DeliveryNext]_Delivery!deliveryVars
      BY <2>2, AbandonedKeeps, QuietStutters DEF Crash, Kill, PipelineInv, TypeOK
    <2>3. ASSUME UNCHANGED vars PROVE [Delivery!DeliveryNext]_Delivery!deliveryVars
      BY <2>3, QuietStutters DEF vars, Quiet
    <2>. QED
      BY <2>1, <2>2, <2>3, RequestQuiet, QuietStutters DEF Next, PipelineInv
  <1>. QED BY <1>1, <1>2, Invariance, PTL DEF Spec, PipelineDelivers, Delivery!DeliverySpec
=============================================================================
