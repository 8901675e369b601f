---------------------------- MODULE PackRequests ----------------------------
(***************************************************************************)
(* The API requests about job runs: POST /jobs, the status poll            *)
(* GET /jobs/{id} (app/services/jobs/job_run_service.py) and               *)
(* DELETE /cvs/{id} (app/api/routes/uploads.py).                           *)
(***************************************************************************)
EXTENDS PipelineState

\* BillingService.check_quota, the QuotaCheck dependency of POST /jobs.
PacksUsed == Cardinality({r \in Runs : usage[r] > 0})

QuotaAllows == PacksUsed < PackLimit

\* A bug create_run could have: it dispatches without looking at the CV's status.
CreateRunUnparsed(r) ==
    /\ request[r] = "none"
    /\ QuotaAllows
    /\ cv.status \in {"parsing", "parsed"}
    /\ Send(Message("llm", r), task)
    /\ request' = [request EXCEPT ![r] = "dispatched"]
    /\ UNCHANGED <<cv, upload, job, claim, objects, usage, faults>>

(* create_run.  The row is only flushed: the session commits it when the   *)
(* request ends, after the message has been published.                     *)
CreateRun(r) ==
    /\ request[r] = "none"
    /\ QuotaAllows
    /\ \/ /\ cv.status = "parsed"
          /\ Send(Message("llm", r), task)
          /\ request' = [request EXCEPT ![r] = "dispatched"]
          /\ UNCHANGED faults
       \/ /\ cv.status = "parsed"                          \* 500, rolled back
          /\ Fault("broker")
          /\ request' = [request EXCEPT ![r] = "done"]
          /\ UNCHANGED task
       \/ /\ cv.status = "parsing"
          /\ request' = [request EXCEPT ![r] = "flushed"]
          /\ UNCHANGED <<task, faults>>
    /\ UNCHANGED <<cv, upload, job, claim, objects, usage>>

CreateCommit(r) ==
    /\ request[r] \in {"dispatched", "flushed"}
    /\ job' = [job EXCEPT ![r].status =
                  IF request[r] = "dispatched" THEN "retrieving" ELSE "created"]
    /\ request' = [request EXCEPT ![r] = "done"]
    /\ UNCHANGED <<cv, upload, claim, task, objects, usage, faults>>

\* The API process dies before the commit: the row is rolled back.
CreateAbort(r) ==
    /\ request[r] \in {"dispatched", "flushed"}
    /\ Fault("crash")
    /\ request' = [request EXCEPT ![r] = "done"]
    /\ UNCHANGED <<cv, upload, job, claim, task, objects, usage>>

-----------------------------------------------------------------------------
(* _maybe_resume_created_job_run: a conditional update claims the run and  *)
(* is committed; only then is the message published.                       *)

\* A bug this could have: it tests for the status that parsing leaves.
ResumeClaimWhileParsing(r) ==
    /\ job[r].status = "created"
    /\ cv.status = "parsing"
    /\ job' = [job EXCEPT ![r].status = "retrieving"]
    /\ claim' = claim \cup {r}
    /\ UNCHANGED <<cv, upload, request, task, objects, usage, faults>>

ResumeClaim(r) ==
    /\ job[r].status = "created"
    /\ cv.status = "parsed"
    /\ job' = [job EXCEPT ![r].status = "retrieving"]
    /\ claim' = claim \cup {r}
    /\ UNCHANGED <<cv, upload, request, task, objects, usage, faults>>

ResumeDispatch(r) ==
    /\ r \in claim
    /\ claim' = claim \ {r}
    /\ \/ /\ Send(Message("llm", r), task)
          /\ UNCHANGED faults
       \/ Fault("broker") /\ UNCHANGED task                \* 500
       \/ Fault("crash") /\ UNCHANGED task                 \* the API process dies
    /\ UNCHANGED <<cv, upload, job, request, objects, usage>>

-----------------------------------------------------------------------------
(* delete_cv.  The rows of job_runs and job_steps go with the CV (ON       *)
(* DELETE CASCADE); usage records and rendered files stay.  An open        *)
(* create_run holds a lock on the CV row through its foreign key.          *)
DeleteCV ==
    /\ CVExists
    /\ \A r \in Runs : request[r] \notin {"dispatched", "flushed"}
    /\ cv' = [status |-> "absent", content |-> FALSE]
    /\ job' = [r \in Runs |-> IF RunExists(r)
                              THEN [job[r] EXCEPT !.status = "deleted", !.orphan = FALSE]
                              ELSE job[r]]
    /\ UNCHANGED <<upload, request, claim, task, objects, usage, faults>>
=============================================================================
