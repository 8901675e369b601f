----------------------------- MODULE RenderDocx -----------------------------
(***************************************************************************)
(* The Celery task render_docx_task (app/workers/tasks/render_docx.py):    *)
(* the tailored DOCX is rendered, stored, announced on the run, charged.   *)
(***************************************************************************)
EXTENDS PipelineState

\* COMPLETED is the only status that stops the task: FAILED does not.
RenderLoad(t) ==
    /\ At(t, "render", "queued")
    /\ LET r == task[t].run IN
       IF ~RunExists(r)
       THEN GoTo(t, "failing")                             \* ValueError: not found
       ELSE IF job[r].status = "completed"
       THEN Ack(t)                                         \* already_completed
       ELSE IF job[r].edit_plan /\ CVExists
       THEN GoTo(t, "rendering")
       ELSE GoTo(t, "failing")                             \* no edit_plan, or no CV
    /\ UNCHANGED <<cv, upload, job, request, claim, objects, usage, faults>>

Rendered(t) ==
    /\ At(t, "render", "rendering")
    /\ GoTo(t, "uploading")
    /\ UNCHANGED <<cv, upload, job, request, claim, objects, usage, faults>>

RenderTimeout(t) ==
    /\ At(t, "render", "rendering")
    /\ GoTo(t, "marking")
    /\ UNCHANGED <<cv, upload, job, request, claim, objects, usage, faults>>

\* An exception of the renderer or of S3: the step is failed, the task retried.
RenderRetry(t) ==
    /\ task[t].kind = "render" /\ task[t].pc \in {"rendering", "uploading"}
    /\ RetryOrFail(t)
    /\ UNCHANGED <<cv, upload, job, request, claim, objects, usage>>

\* The key is the same for every execution: an upload replaces the object.
RenderUpload(t) ==
    /\ At(t, "render", "uploading")
    /\ objects' = objects \cup {task[t].run}
    /\ GoTo(t, "finish")
    /\ UNCHANGED <<cv, upload, job, request, claim, usage, faults>>

\* A bug this could have: the row is completed before the upload has ended.
RenderCompleteEarly(t) ==
    /\ task[t].kind = "render" /\ task[t].pc \in {"uploading", "finish"}
    /\ LET r == task[t].run IN
       IF RunExists(r)
       THEN /\ job' = [job EXCEPT ![r].status = "completed", ![r].output_key = TRUE]
            /\ GoTo(t, "billing")
       ELSE Uncaught(t)
    /\ UNCHANGED <<cv, upload, request, claim, objects, usage, faults>>

\* COMPLETED and output_s3_key in one transaction, whatever the status is.
RenderComplete(t) ==
    /\ At(t, "render", "finish")
    /\ LET r == task[t].run IN
       IF RunExists(r)
       THEN /\ job' = [job EXCEPT ![r].status = "completed", ![r].output_key = TRUE]
            /\ GoTo(t, "billing")
       ELSE Uncaught(t)                                    \* disappeared
    /\ UNCHANGED <<cv, upload, request, claim, objects, usage, faults>>

-----------------------------------------------------------------------------
(* Usage.  The record is looked up, then inserted; what fails is logged.   *)

\* A bug this could have: the test for an existing record is the wrong way round.
UsageLookupInverted(t) ==
    /\ At(t, "render", "billing")
    /\ GoTo(t, IF usage[task[t].run] > 0 THEN "inserting" ELSE "closing")
    /\ UNCHANGED <<cv, upload, job, request, claim, objects, usage, faults>>

UsageLookup(t) ==
    /\ At(t, "render", "billing")
    /\ \/ /\ GoTo(t, IF usage[task[t].run] > 0 THEN "closing" ELSE "inserting")
          /\ UNCHANGED faults
       \/ Fault("billing") /\ GoTo(t, "closing")
    /\ UNCHANGED <<cv, upload, job, request, claim, objects, usage>>

\* job_run_id is unique in usage_records.
UsageAccepted(r) == usage[r] = 0

UsageInsert(t) ==
    /\ At(t, "render", "inserting")
    /\ LET r == task[t].run IN
       \/ /\ usage' = IF UsageAccepted(r) THEN [usage EXCEPT ![r] = @ + 1] ELSE usage
          /\ UNCHANGED faults
       \/ Fault("billing") /\ UNCHANGED usage
    /\ GoTo(t, "closing")
    /\ UNCHANGED <<cv, upload, job, request, claim, objects>>

RenderClose(t) ==
    /\ At(t, "render", "closing")
    /\ Ack(t)
    /\ UNCHANGED <<cv, upload, job, request, claim, objects, usage, faults>>

-----------------------------------------------------------------------------
(* Failures.                                                               *)

RenderUncaught(t) ==
    /\ task[t].kind = "render" /\ task[t].pc \in {"finish", "closing"}
    /\ Uncaught(t)
    /\ UNCHANGED <<cv, upload, request, claim, objects, usage, faults>>

RenderMark(t) ==
    /\ At(t, "render", "marking")
    /\ MarkRunFailed(task[t].run)
    /\ GoTo(t, "failing")
    /\ UNCHANGED <<cv, upload, request, claim, objects, usage, faults>>

RenderOnFailure(t) ==
    /\ At(t, "render", "failing")
    /\ MarkRunFailed(task[t].run)
    /\ Ack(t)
    /\ UNCHANGED <<cv, upload, request, claim, objects, usage, faults>>

RenderStep(t) ==
    \/ RenderLoad(t) \/ Rendered(t) \/ RenderTimeout(t) \/ RenderRetry(t)
    \/ RenderUpload(t) \/ RenderComplete(t)
    \/ UsageLookup(t) \/ UsageInsert(t) \/ RenderClose(t)
    \/ RenderUncaught(t) \/ RenderMark(t) \/ RenderOnFailure(t)
=============================================================================
