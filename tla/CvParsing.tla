----------------------------- MODULE CvParsing -----------------------------
(***************************************************************************)
(* Upload of the CV (app/services/ingest/cv_service.py) and the Celery     *)
(* task parse_cv_task (app/workers/tasks/parse_cv.py).                     *)
(***************************************************************************)
EXTENDS PipelineState

(* upload_cv: the row is committed before the message is published.        *)
UploadCommit ==
    /\ upload = "none"
    /\ cv' = [status |-> "uploaded", content |-> FALSE]
    /\ upload' = "committed"
    /\ UNCHANGED <<job, request, claim, task, objects, usage, faults>>

\* The dispatch may fail ("Redis not ready"): upload_cv logs it and goes on.
UploadDispatch ==
    /\ upload = "committed"
    /\ upload' = "done"
    /\ \/ /\ Send(Message("parse", NoRun), task)
          /\ UNCHANGED faults
       \/ Fault("broker") /\ UNCHANGED task
       \/ Fault("crash") /\ UNCHANGED task                 \* the API process dies
    /\ UNCHANGED <<cv, job, request, claim, objects, usage>>

-----------------------------------------------------------------------------
(* parse_cv_task.                                                          *)

ParseStart(t) ==
    /\ At(t, "parse", "queued")
    /\ IF ~CVExists
       THEN GoTo(t, "failing") /\ UNCHANGED cv            \* ValueError: not found
       ELSE IF cv.status = "parsed"
       THEN GoTo(t, "select") /\ UNCHANGED cv             \* idempotent
       ELSE GoTo(t, "working") /\ cv' = [cv EXCEPT !.status = "parsing"]
    /\ UNCHANGED <<upload, job, request, claim, objects, usage, faults>>

\* The file is read and parsed; the row, if it is still there, becomes PARSED.
ParsePersist(t) ==
    /\ At(t, "parse", "working")
    /\ IF CVExists
       THEN /\ cv' = [status |-> "parsed", content |-> TRUE]
            /\ GoTo(t, "select")
       ELSE GoTo(t, "failing") /\ UNCHANGED cv
    /\ UNCHANGED <<upload, job, request, claim, objects, usage, faults>>

\* The download or the parser raises something transient.
ParseRetry(t) ==
    /\ At(t, "parse", "working")
    /\ RetryOrFail(t)
    /\ UNCHANGED <<cv, upload, job, request, claim, objects, usage>>

\* An invalid file or the soft time limit: marked here, and again by on_failure.
ParseInvalid(t) ==
    /\ At(t, "parse", "working")
    /\ GoTo(t, "failing")
    /\ cv' = IF CVExists THEN [cv EXCEPT !.status = "failed"] ELSE cv
    /\ UNCHANGED <<upload, job, request, claim, objects, usage, faults>>

-----------------------------------------------------------------------------
(* dispatch_waiting_job_runs_after_cv_parse: the messages are published    *)
(* one by one, and the rows are committed after the last of them.          *)

DispatchSelect(t) ==
    /\ At(t, "parse", "select")
    /\ task' = [task EXCEPT ![t].pc = "dispatch",
                            ![t].todo = {r \in Runs : job[r].status = "created"}]
    /\ UNCHANGED <<cv, upload, job, request, claim, objects, usage, faults>>

DispatchSend(t) ==
    /\ At(t, "parse", "dispatch")
    /\ \E r \in task[t].todo :
       \/ /\ Send(Message("llm", r), [task EXCEPT ![t].todo = @ \ {r},
                                                  ![t].sent = @ \cup {r}])
          /\ UNCHANGED faults
       \/ Fault("broker") /\ GoTo(t, "failing")           \* rolled back
    /\ UNCHANGED <<cv, upload, job, request, claim, objects, usage>>

\* The ORM writes the rows it selected, whatever their status is by now.  A row
\* that is gone makes the flush fail, and with it the whole transaction.
DispatchCommit(t) ==
    /\ At(t, "parse", "dispatch") /\ task[t].todo = {}
    /\ IF \A r \in task[t].sent : RunExists(r)
       THEN /\ job' = [r \in Runs |-> IF r \in task[t].sent
                                      THEN [job[r] EXCEPT !.status = "retrieving"]
                                      ELSE job[r]]
            /\ Ack(t)
       ELSE GoTo(t, "failing") /\ UNCHANGED job
    /\ UNCHANGED <<cv, upload, request, claim, objects, usage, faults>>

\* What no handler of the task catches: a database error, or the soft time limit
\* outside the two try blocks.
ParseUncaught(t) ==
    /\ task[t].kind = "parse" /\ task[t].pc \in {"working", "select", "dispatch"}
    /\ GoTo(t, "failing")
    /\ UNCHANGED <<cv, upload, job, request, claim, objects, usage, faults>>

\* A bug this could have: no on_failure, as run_detail_task has none.
ParseNoOnFailure(t) ==
    /\ At(t, "parse", "failing")
    /\ Ack(t)
    /\ UNCHANGED <<cv, upload, job, request, claim, objects, usage, faults>>

\* on_failure: _mark_cv_failed does not look at the status it replaces.
ParseOnFailure(t) ==
    /\ At(t, "parse", "failing")
    /\ cv' = IF CVExists THEN [cv EXCEPT !.status = "failed"] ELSE cv
    /\ Ack(t)
    /\ UNCHANGED <<upload, job, request, claim, objects, usage, faults>>

ParseStep(t) ==
    \/ ParseStart(t) \/ ParsePersist(t) \/ ParseRetry(t) \/ ParseInvalid(t)
    \/ DispatchSelect(t) \/ DispatchSend(t) \/ DispatchCommit(t)
    \/ ParseUncaught(t) \/ ParseOnFailure(t)
=============================================================================
