------------------------------- MODULE RunLlm -------------------------------
(***************************************************************************)
(* The Celery task run_llm_task (app/workers/tasks/run_llm.py): retrieval, *)
(* the LLM calls, the write of their results, and the two messages that    *)
(* start rendering and the detailed reports.                               *)
(***************************************************************************)
EXTENDS PipelineState

\* The row is read, then its CV.  The JD may be fetched before the next commit.
LlmLoad(t) ==
    /\ At(t, "llm", "queued")
    /\ LET r == task[t].run IN
       \/ /\ ~RunExists(r)                                 \* ValueError: not found
          /\ GoTo(t, "failing")
       \/ /\ job[r].status \in Terminal                    \* already_terminal
          /\ Ack(t)
       \/ /\ RunExists(r) /\ job[r].status \notin Terminal
          /\ IF CVExists /\ cv.content
             THEN task' = [task EXCEPT ![t].pc = "begin", ![t].seen = job[r].status]
             ELSE GoTo(t, "failing")                       \* ValueError: not parsed
    /\ UNCHANGED <<cv, upload, job, request, claim, objects, usage, faults>>

\* The row becomes RETRIEVING, and the retrieve step is created.  The ORM only
\* writes the status if it is not the one that was read.  An invalid ParsedCV is
\* marked here, and again by on_failure.
LlmBegin(t) ==
    /\ At(t, "llm", "begin")
    /\ LET r == task[t].run IN
       IF RunExists(r)
       THEN /\ job' = IF task[t].seen = "retrieving" THEN job
                      ELSE [job EXCEPT ![r].status = "retrieving"]
            /\ \E pc \in {"retrieving", "marking"} : GoTo(t, pc)
       ELSE GoTo(t, "failing") /\ UNCHANGED job
    /\ UNCHANGED <<cv, upload, request, claim, objects, usage, faults>>

\* Retrieval ends, well or badly.  _update_run_status does not look at the status
\* it replaces, and the llm_call step is created.
LlmRetrieved(t) ==
    /\ At(t, "llm", "retrieving")
    /\ LET r == task[t].run IN
       IF RunExists(r)
       THEN /\ job' = [job EXCEPT ![r].status = "llm_processing"]
            /\ GoTo(t, "calling")
       ELSE GoTo(t, "failing") /\ UNCHANGED job
    /\ UNCHANGED <<cv, upload, request, claim, objects, usage, faults>>

\* SoftTimeLimitExceeded in retrieval: the run is marked, the step is not.
LlmRetrieveTimeout(t) ==
    /\ At(t, "llm", "retrieving")
    /\ job' = Abandoned(t)
    /\ GoTo(t, "marking")
    /\ UNCHANGED <<cv, upload, request, claim, objects, usage, faults>>

LlmCalled(t) ==
    /\ At(t, "llm", "calling")
    /\ GoTo(t, "persist")
    /\ UNCHANGED <<cv, upload, job, request, claim, objects, usage, faults>>

\* ValueError or RuntimeError: the step is failed and the task retried.
LlmRetry(t) ==
    /\ At(t, "llm", "calling")
    /\ RetryOrFail(t)
    /\ UNCHANGED <<cv, upload, job, request, claim, objects, usage>>

\* SoftTimeLimitExceeded in the LLM calls: the step is failed, the run marked.
LlmTimeout(t) ==
    /\ At(t, "llm", "calling")
    /\ GoTo(t, "marking")
    /\ UNCHANGED <<cv, upload, job, request, claim, objects, usage, faults>>

\* A bug this could have: a later execution clears the output of an earlier one.
LlmPersistClearsOutput(t) ==
    /\ At(t, "llm", "persist")
    /\ LET r == task[t].run IN
       IF RunExists(r)
       THEN /\ job' = [job EXCEPT ![r].status = "rendering", ![r].edit_plan = TRUE,
                                  ![r].output_key = FALSE]
            /\ GoTo(t, "chain_render")
       ELSE GoTo(t, "failing") /\ UNCHANGED job
    /\ UNCHANGED <<cv, upload, request, claim, objects, usage, faults>>

LlmPersist(t) ==
    /\ At(t, "llm", "persist")
    /\ LET r == task[t].run IN
       IF RunExists(r)
       THEN /\ job' = [job EXCEPT ![r].status = "rendering", ![r].edit_plan = TRUE]
            /\ GoTo(t, "chain_render")
       ELSE GoTo(t, "failing") /\ UNCHANGED job            \* disappeared
    /\ UNCHANGED <<cv, upload, request, claim, objects, usage, faults>>

LlmChainRender(t) ==
    /\ At(t, "llm", "chain_render")
    /\ \/ /\ Send(Message("render", task[t].run), [task EXCEPT ![t].pc = "chain_detail"])
          /\ UNCHANGED faults
       \/ Fault("broker") /\ GoTo(t, "failing")
    /\ UNCHANGED <<cv, upload, job, request, claim, objects, usage>>

\* run_detail_task only rewrites the reports of the run: its message is not kept.
LlmChainDetail(t) ==
    /\ At(t, "llm", "chain_detail")
    /\ \/ Ack(t) /\ UNCHANGED faults
       \/ Fault("broker") /\ GoTo(t, "failing")
    /\ UNCHANGED <<cv, upload, job, request, claim, objects, usage>>

\* What no handler of the task catches: any other exception of the LLM calls, a
\* database error, or the soft time limit between the try blocks.
LlmUncaught(t) ==
    /\ task[t].kind = "llm"
    /\ task[t].pc \in {"begin", "retrieving", "calling", "persist", "chain_render", "chain_detail"}
    /\ Uncaught(t)
    /\ UNCHANGED <<cv, upload, request, claim, objects, usage, faults>>

\* _mark_run_failed by the task itself; the exception is then raised again.
LlmMark(t) ==
    /\ At(t, "llm", "marking")
    /\ MarkRunFailed(task[t].run)
    /\ GoTo(t, "failing")
    /\ UNCHANGED <<cv, upload, request, claim, objects, usage, faults>>

\* A bug this could have: no on_failure, as run_detail_task has none.
LlmNoOnFailure(t) ==
    /\ At(t, "llm", "failing")
    /\ Ack(t)
    /\ UNCHANGED <<cv, upload, job, request, claim, objects, usage, faults>>

LlmOnFailure(t) ==
    /\ At(t, "llm", "failing")
    /\ MarkRunFailed(task[t].run)
    /\ Ack(t)
    /\ UNCHANGED <<cv, upload, request, claim, objects, usage, faults>>

LlmStep(t) ==
    \/ LlmLoad(t) \/ LlmBegin(t)
    \/ LlmRetrieved(t) \/ LlmRetrieveTimeout(t)
    \/ LlmCalled(t) \/ LlmRetry(t) \/ LlmTimeout(t)
    \/ LlmPersist(t) \/ LlmChainRender(t) \/ LlmChainDetail(t)
    \/ LlmUncaught(t) \/ LlmMark(t) \/ LlmOnFailure(t)
=============================================================================
