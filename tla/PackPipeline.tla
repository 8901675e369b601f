---------------------------- MODULE PackPipeline ----------------------------
(***************************************************************************)
(* The whole Intelligence Pack pipeline: the API requests and the Celery   *)
(* tasks of one CV and of the job runs created from it.                    *)
(***************************************************************************)
EXTENDS CvParsing, PackRequests, RunLlm, RenderDocx

Init ==
    /\ cv = [status |-> "absent", content |-> FALSE]
    /\ upload = "none"
    /\ job = [r \in Runs |-> NoJob]
    /\ request = [r \in Runs |-> "none"]
    /\ claim = {}
    /\ task = [t \in Tasks |-> NoTask]
    /\ objects = {}
    /\ usage = [r \in Runs |-> 0]
    /\ faults = [k \in FaultKind |-> 0]

TaskStep(t) == ParseStep(t) \/ LlmStep(t) \/ RenderStep(t)

Next ==
    \/ UploadCommit \/ UploadDispatch \/ DeleteCV
    \/ \E r \in Runs : \/ CreateRun(r) \/ CreateCommit(r) \/ CreateAbort(r)
                       \/ ResumeClaim(r) \/ ResumeDispatch(r)
    \/ \E t \in Tasks : TaskStep(t) \/ Crash(t) \/ Kill(t)

Spec == Init /\ [][Next]_vars

\* A worker that holds a message goes on with it, and a request that has begun
\* ends.  The user, the polls of the browser and the faults are under no fairness.
Fairness ==
    /\ WF_vars(UploadDispatch)
    /\ \A r \in Runs : WF_vars(CreateCommit(r)) /\ WF_vars(ResumeDispatch(r))
    /\ \A t \in Tasks : WF_vars(TaskStep(t))

FairSpec == Spec /\ Fairness

\* The browser keeps polling the runs that are not terminal.
PolledSpec == FairSpec /\ \A r \in Runs : WF_vars(ResumeClaim(r))

-----------------------------------------------------------------------------
(* The type invariant.                                                     *)

\* Every row, message and counter has the shape the code gives it.
TypeOK ==
    /\ cv \in [status : CVStatus \cup {"absent"}, content : BOOLEAN]
    /\ upload \in {"none", "committed", "done"}
    /\ job \in [Runs -> JobRun]
    /\ request \in [Runs -> {"none", "dispatched", "flushed", "done"}]
    /\ claim \subseteq Runs
    /\ task \in [Tasks -> Task]
    /\ objects \subseteq Runs
    /\ usage \in [Runs -> Nat]
    /\ faults \in [FaultKind -> Nat]

-----------------------------------------------------------------------------
(* Safety.                                                                 *)

\* A run that says COMPLETED can be downloaded: its edit plan is there, the row
\* names the tailored DOCX, and the DOCX is in the bucket (get_status and the
\* download route hand out a URL on the strength of the status and the key).
DownloadReady ==
    \A r \in Runs : job[r].status = "completed" =>
        job[r].edit_plan /\ job[r].output_key /\ r \in objects

\* Nobody pays for a pack that was not delivered: a usage record has a run whose
\* row once named a stored file, whatever was retried, redelivered or deleted.
ChargedOnlyIfDelivered ==
    \A r \in Runs : usage[r] > 0 => job[r].output_key /\ r \in objects

\* A pack is charged once, though two renders of one run may both find no record
\* ("idempotent via unique constraint", app/models/subscription.py).
OneChargePerRun == \A r \in Runs : usage[r] <= 1

\* A render that is under way has an edit plan to apply, on the row or on the row
\* its CV took away; and a message to render is only sent for a planned run.
RenderHasPlan ==
    \A t \in Tasks : task[t].kind = "render" => job[task[t].run].edit_plan

\* run_llm_task is never sent before its CV is parsed ("If CV still parsing,
\* create_run leaves status=CREATED until ...", job_run_service.py): a message, or a
\* request or a poll that is about to send one, finds the parsed content, also once
\* a later failure has marked the CV FAILED, unless the CV is deleted.
LlmHasParsedCv ==
    CVExists /\ ~cv.content =>
        /\ claim = {}
        /\ \A r \in Runs : request[r] # "dispatched"
        /\ \A t \in Tasks : task[t].kind # "llm"

-----------------------------------------------------------------------------
(* The inductive invariant: what the safety properties rest on.            *)

\* A message that is about a run names one, and a free slot holds nothing.
RunNamed ==
    \A t \in Tasks : task[t].kind \in {"llm", "render"} => task[t].run \in Runs

\* Before the upload nothing has happened.
UploadFirst ==
    upload = "none" =>
        /\ cv.status = "absent"
        /\ claim = {}
        /\ \A r \in Runs : request[r] = "none"
        /\ \A t \in Tasks : Free(t)

\* PARSED means that the content is there; parse_cv_task dispatches after that.
ParsedHasContent ==
    CVExists /\ (cv.status = "parsed"
                  \/ \E t \in Tasks : task[t].kind = "parse"
                                        /\ task[t].pc \in {"select", "dispatch"})
        => cv.content

\* run_llm_task chains after it has written the plan.
ChainHasPlan ==
    \A t \in Tasks :
        task[t].kind = "llm" /\ task[t].pc \in {"chain_render", "chain_detail"}
            => job[task[t].run].edit_plan

\* A file is only stored for a run that has a plan, and a row only names a file
\* that is stored.
StoredInOrder ==
    \A r \in Runs : /\ r \in objects => job[r].edit_plan
                    /\ job[r].output_key => r \in objects
                    /\ job[r].status = "completed" => job[r].output_key

\* How far a render has come is visible in the bucket and on the row.
RenderInOrder ==
    \A t \in Tasks : task[t].kind = "render" =>
        /\ task[t].pc = "finish" => task[t].run \in objects
        /\ task[t].pc \in {"billing", "inserting", "closing"} => job[task[t].run].output_key

\* Everything above together: the invariant the proofs carry from step to step.
PipelineInv ==
    /\ TypeOK
    /\ RunNamed /\ UploadFirst /\ ParsedHasContent /\ LlmHasParsedCv
    /\ ChainHasPlan /\ RenderHasPlan
    /\ StoredInOrder /\ RenderInOrder
    /\ ChargedOnlyIfDelivered /\ OneChargePerRun

-----------------------------------------------------------------------------
(* Refinement.                                                             *)

Planned   == {r \in Runs : job[r].edit_plan}
Delivered == {r \in Runs : job[r].output_key}

Delivery == INSTANCE PackDelivery
            WITH planned <- Planned, stored <- objects,
                 delivered <- Delivered, charges <- usage

\* The pipeline implements PackDelivery: every pack is planned, stored, delivered
\* and charged in that order, each at most once, and none of it is undone.
PipelineDelivers == Delivery!DeliverySpec

-----------------------------------------------------------------------------
(* Liveness.                                                               *)

Ended(r) == job[r].status \in Terminal \cup {"deleted"}

\* A run whose LLM calls have begun ends COMPLETED or FAILED, or is deleted, even
\* if workers and API processes die: there is always a task that will write it.
BegunRunsEnd ==
    \A r \in Runs : job[r].status \in {"llm_processing", "rendering"} ~> Ended(r)

\* A CV does not stay PARSING: parsing ends, one way or the other.
ParsingEnds == cv.status = "parsing" ~> cv.status # "parsing"

\* "If CV still parsing, create_run leaves status=CREATED until ..." the run is
\* resumed (job_run_service.py): a run accepted while its CV was parsed ends, though
\* the parser may have looked for such runs before its row was committed, and a poll
\* and the parser may both start it.  Excused are a CV that failed or is deleted, and
\* a fault, which may take the only message away.
AcceptedRunEnds ==
    \A r \in Runs :
        job[r].status = "created"
            ~> \/ Ended(r)
               \/ cv.status \in {"failed", "absent"}
               \/ \E k \in FaultKind : faults[k] > 0

\* A delivered pack is charged, unless a process died or a fault took the task or its
\* record away.
DeliveredIsCharged ==
    \A r \in Runs : job[r].output_key ~> (usage[r] = 1 \/ \E k \in FaultKind : faults[k] > 0)

-----------------------------------------------------------------------------
(* What the repository says and the code does not do: TLC refutes each on  *)
(* one or two runs (README, divergences).                                  *)

\* "True if the run has reached a final state" (JobRun.is_terminal): the status of
\* a COMPLETED or FAILED run does not change again, but by deletion.
TerminalIsFinal ==
    [][\A r \in Runs : job[r].status \in Terminal
            => job'[r].status \in {job[r].status, "deleted"}]_vars

\* "UPLOADED -> PARSING -> PARSED", "UPLOADED -> PARSING -> FAILED" (parse_cv.py):
\* a PARSED CV stays PARSED.
ParsedIsFinal ==
    [][cv.status = "parsed" => cv'.status \in {"parsed", "absent"}]_vars

\* RETRIEVING: "web_search task fetching company/salary data" (app/models/job_run.py,
\* "each status maps to a Celery task or an API action"): a run that is RETRIEVING
\* has a message, or a poll that is about to send one.
RetrievingHasTask ==
    \A r \in Runs : job[r].status = "retrieving" =>
        r \in claim \/ \E t \in Tasks : task[t].run = r \/ r \in task[t].sent

\* "Status stays UPLOADED and can be retried later" (cv_service.py).
UploadedIsParsed == cv.status = "uploaded" ~> cv.status # "uploaded"

\* "Written when a job_run reaches COMPLETED status" (app/models/subscription.py).
EveryPackCharged ==
    \A r \in Runs : job[r].status = "completed" ~> usage[r] = 1

\* "Used to enforce quota limits within the current billing period" (ibid.).
UsageWithinLimit == PacksUsed <= PackLimit

\* "Updated to COMPLETED or FAILED when the task finishes" (app/models/job_step.py):
\* no step is left RUNNING by an execution that is over.
StepsAreClosed == \A r \in Runs : ~job[r].orphan
=============================================================================
