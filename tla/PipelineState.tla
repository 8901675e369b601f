--------------------------- MODULE PipelineState ---------------------------
(***************************************************************************)
(* The rows, objects and messages that the Intelligence Pack pipeline of   *)
(* CareerOS works on, for one CV and the job runs created from it.         *)
(*                                                                         *)
(* The API process and the Celery workers share nothing but PostgreSQL,    *)
(* the S3 bucket and the broker.  An action of the modules that extend     *)
(* this one is one committed database transaction, one upload or one       *)
(* message; everything between two of them may interleave.  The writes to  *)
(* the audit rows (job_steps) are folded into the transaction next to      *)
(* them.                                                                   *)
(***************************************************************************)
EXTENDS Naturals, FiniteSets

CONSTANTS
    Runs,              \* the job runs that may be created from the CV
    Tasks,             \* slots for Celery messages that are not acknowledged
    NoRun,             \* the run of a message that is not about a run
    PackLimit,         \* packs the plan allows in the current period
    MaxParseRetries,   \* max_retries of parse_cv_task
    MaxLlmRetries,     \* max_retries of run_llm_task
    MaxRenderRetries,  \* max_retries of render_docx_task
    MaxCrashes,        \* bound: processes that die (their messages come back)
    MaxKills,          \* bound: workers stopped by the hard time limit
    MaxBrokerErrors,   \* bound: messages the broker does not accept
    MaxBillingErrors   \* bound: usage transactions the database refuses

ASSUME RunsAssumption == NoRun \notin Runs

ASSUME BoundsAssumption ==
    /\ PackLimit \in Nat
    /\ MaxParseRetries \in Nat
    /\ MaxLlmRetries \in Nat
    /\ MaxRenderRetries \in Nat
    /\ MaxCrashes \in Nat
    /\ MaxKills \in Nat
    /\ MaxBrokerErrors \in Nat
    /\ MaxBillingErrors \in Nat

VARIABLES
    cv,       \* the row of table cvs
    upload,   \* progress of the request that uploads the CV
    job,      \* the rows of table job_runs, with what is left of their job_steps
    request,  \* progress of the request that creates each run
    claim,    \* runs a status poll has moved on and not yet dispatched
    task,     \* Celery messages and the executions they cause
    objects,  \* runs with a tailored DOCX in the bucket
    usage,    \* number of usage_records of each run
    faults    \* faults so far, by kind

vars == <<cv, upload, job, request, claim, task, objects, usage, faults>>

-----------------------------------------------------------------------------
(* The rows.                                                               *)

CVStatus == {"uploaded", "parsing", "parsed", "failed"}

JobRunStatus ==
    {"created", "retrieving", "llm_processing", "rendering", "completed", "failed"}

\* JobRun.is_terminal
Terminal == {"completed", "failed"}

\* A JobRun row.  A row that was never inserted is "absent"; one the delete of
\* its CV took away is "deleted", and its other fields are then history.
JobRun == [status     : JobRunStatus \cup {"absent", "deleted"},
           edit_plan  : BOOLEAN,
           output_key : BOOLEAN,
           orphan     : BOOLEAN]  \* a job_steps row was left RUNNING

NoJob == [status |-> "absent", edit_plan |-> FALSE, output_key |-> FALSE,
          orphan |-> FALSE]

CVExists == cv.status \in CVStatus
RunExists(r) == job[r].status \in JobRunStatus

-----------------------------------------------------------------------------
(* The messages.  A slot holds a message from the moment it is published   *)
(* until it is acknowledged, which task_acks_late puts after the task.     *)

Kind == {"free", "parse", "llm", "render"}

Waiting == {"idle", "queued"}

ProgramCounter ==
    Waiting \cup
    {"working", "select", "dispatch",                       \* parse_cv_task
     "begin", "retrieving", "calling", "persist",           \* run_llm_task
     "chain_render", "chain_detail",
     "rendering", "uploading", "finish", "billing",         \* render_docx_task
     "inserting", "closing",
     "marking", "failing"}                                  \* raising

Task == [kind  : Kind,
         run   : Runs \cup {NoRun},
         pc    : ProgramCounter,
         tries : Nat,                                \* self.request.retries
         seen  : JobRunStatus \cup {"none"},         \* status read by run_llm_task
         todo  : SUBSET Runs,                        \* rows parse_cv_task selected
         sent  : SUBSET Runs]                        \* ... and has dispatched

Message(kind, r) == [kind |-> kind, run |-> r, pc |-> "queued", tries |-> 0,
                     seen |-> "none", todo |-> {}, sent |-> {}]

NoTask == [Message("free", NoRun) EXCEPT !.pc = "idle"]

Free(t) == task[t].kind = "free"

\* Task t is an execution of a task of that kind, at that point.
At(t, kind, pc) == task[t].kind = kind /\ task[t].pc = pc

\* The execution of t ends and the message is acknowledged.
Ack(t) == task' = [task EXCEPT ![t] = NoTask]

GoTo(t, pc) == task' = [task EXCEPT ![t].pc = pc, ![t].seen = "none"]

\* A message is published: it takes a free slot (any: they are alike).  rest is
\* the value of task but for that slot.
FreeSlot == CHOOSE t \in Tasks : Free(t)

Send(message, rest) ==
    /\ \E t \in Tasks : Free(t)
    /\ task' = [rest EXCEPT ![FreeSlot] = message]

\* self.retry: the message is published again, and the old one acknowledged.
Retry(t) == task' = [task EXCEPT ![t] = [Message(@.kind, @.run) EXCEPT !.tries = task[t].tries + 1]]

\* How often a task of this kind is retried (no task retries the others).
MaxRetries(kind) == CASE kind = "parse"  -> MaxParseRetries
                      [] kind = "llm"    -> MaxLlmRetries
                      [] kind = "render" -> MaxRenderRetries
                      [] OTHER           -> 0

-----------------------------------------------------------------------------
(* Faults.                                                                 *)

FaultKind == {"crash", "kill", "broker", "billing"}

MaxFaults(k) == CASE k = "crash"   -> MaxCrashes
                  [] k = "kill"    -> MaxKills
                  [] k = "broker"  -> MaxBrokerErrors
                  [] k = "billing" -> MaxBillingErrors

Fault(k) == /\ faults[k] < MaxFaults(k)
            /\ faults' = [faults EXCEPT ![k] = @ + 1]

\* Task t is where a row of job_steps that it created is RUNNING.
StepOpen(t) ==
    \/ task[t].kind = "llm" /\ task[t].pc \in {"retrieving", "calling"}
    \/ /\ task[t].kind = "render"
       /\ task[t].pc \in {"rendering", "uploading", "finish", "billing", "inserting", "closing"}

\* Table job_runs once nobody is left to close the RUNNING row of t, if any.
Abandoned(t) ==
    IF StepOpen(t) /\ RunExists(task[t].run)
    THEN [job EXCEPT ![task[t].run].orphan = TRUE]
    ELSE job

\* An exception nobody catches where task t is: on_failure is what runs next.
Uncaught(t) == job' = Abandoned(t) /\ GoTo(t, "failing")

\* The worker process of t dies.  The message was not acknowledged
\* (task_acks_late, task_reject_on_worker_lost) and is delivered again.
Crash(t) ==
    /\ ~Free(t) /\ task[t].pc \notin Waiting
    /\ Fault("crash")
    /\ job' = Abandoned(t)
    /\ task' = [task EXCEPT ![t] = [Message(@.kind, @.run) EXCEPT !.tries = task[t].tries]]
    /\ UNCHANGED <<cv, upload, request, claim, objects, usage>>

\* The hard time limit (task_time_limit) stops the worker of t: the message is
\* acknowledged and no handler of the task runs.
Kill(t) ==
    /\ ~Free(t) /\ task[t].pc \notin Waiting
    /\ Fault("kill")
    /\ job' = Abandoned(t)
    /\ Ack(t)
    /\ UNCHANGED <<cv, upload, request, claim, objects, usage>>

\* self.retry cannot publish: Celery rejects the message, and no handler runs.
RetryLost(t) ==
    /\ task[t].tries < MaxRetries(task[t].kind)
    /\ Fault("broker")
    /\ Ack(t)

\* What follows "except Exception as exc: raise self.retry(exc=exc)".  Past
\* max_retries, retry raises exc itself, so on_failure is what runs next.
RetryOrFail(t) ==
    \/ /\ task[t].tries < MaxRetries(task[t].kind)
       /\ Retry(t)
       /\ UNCHANGED faults
    \/ RetryLost(t)
    \/ /\ task[t].tries >= MaxRetries(task[t].kind)
       /\ GoTo(t, "failing")
       /\ UNCHANGED faults

\* _mark_run_failed of run_llm.py and of render_docx.py.
MarkRunFailed(r) ==
    job' = IF RunExists(r) /\ job[r].status \notin Terminal
           THEN [job EXCEPT ![r].status = "failed"]
           ELSE job
=============================================================================
