-------------------------- MODULE ShadowApplications --------------------------
(* Shadow applications: the routes of api/routes/shadow.py and the Celery   *)
(* task that generates one (workers/tasks/shadow_gen.py).  The row is       *)
(* committed, then the task is published; the broker redelivers a task      *)
(* whose worker died (task_acks_late, task_reject_on_worker_lost).          *)
EXTENDS Naturals

CONSTANTS Shadows,          \* ids of shadow_applications
          MaxShadowFaults   \* bound: faults of each kind

ASSUME ShadowFaultsAssumption == MaxShadowFaults \in Nat

VARIABLES shadow,     \* the rows
          gen,        \* the task of each row: where its execution stands
          pack,       \* the pack and the CV an execution has made
          stored,     \* rows with a tailored CV in the bucket
          delivered,  \* history: how often a pack was written and mailed
          shadowFaults

shadowVars == <<shadow, gen, pack, stored, delivered, shadowFaults>>

ShadowStatus == {"generating", "completed", "failed"}
IsTerminal(s) == shadow[s].status \in {"completed", "failed"}
Exists(s) == shadow[s].status \in ShadowStatus

ShadowApplication == [status : ShadowStatus \cup {"absent", "deleted"},
                      pack : BOOLEAN, cvKey : BOOLEAN, stage : {"created", "sent"}]

Running == {"drafting", "tailoring", "persisting", "mailing", "marking", "failing"}

ShadowInit ==
  /\ shadow = [s \in Shadows |->
       [status |-> "absent", pack |-> FALSE, cvKey |-> FALSE, stage |-> "created"]]
  /\ gen = [s \in Shadows |-> "none"]
  /\ pack = [s \in Shadows |-> [cv |-> FALSE]]
  /\ stored = {}
  /\ delivered = [s \in Shadows |-> [packs |-> 0, mails |-> 0]]
  /\ shadowFaults = [broker |-> 0, crash |-> 0, kill |-> 0, mark |-> 0]

Fails(kind) == /\ shadowFaults[kind] < MaxShadowFaults
               /\ shadowFaults' = [shadowFaults EXCEPT ![kind] = @ + 1]
NextStep(s, pc) == gen' = [gen EXCEPT ![s] = pc]

\* POST /shadow/generate: the row is committed before the task is published.
GenerateShadow(s) ==
  /\ shadow[s].status = "absent"
  /\ shadow' = [shadow EXCEPT ![s].status = "generating"]
  /\ NextStep(s, "unsent")
  /\ UNCHANGED <<pack, stored, delivered, shadowFaults>>

\* delay: the broker takes the task, or the request ends with an error.
Publish(s) ==
  /\ gen[s] = "unsent"
  /\ \/ NextStep(s, "queued") /\ UNCHANGED shadowFaults
     \/ NextStep(s, "lost") /\ Fails("broker")
  /\ UNCHANGED <<shadow, pack, stored, delivered>>

\* Mistake: a redelivered task does not look whether the work is done.
LoadInputsAgain(s) ==
  /\ gen[s] = "queued"
  /\ IF Exists(s) THEN NextStep(s, "drafting") ELSE NextStep(s, "failing")
  /\ UNCHANGED <<shadow, pack, stored, delivered, shadowFaults>>

\* 1. The row, its profile and its CV.  A row that is gone and two active
\* profiles of one user (scalar_one_or_none) raise.
LoadInputs(s) ==
  /\ gen[s] = "queued"
  /\ IF IsTerminal(s) THEN NextStep(s, "none")
     ELSE \/ Exists(s) /\ NextStep(s, "drafting")
          \/ NextStep(s, "failing")
  /\ UNCHANGED <<shadow, pack, stored, delivered, shadowFaults>>

\* 2. Hypothesis, memo and outreach; an exception is marked and raised again.
GenerateFullPack(s) ==
  /\ gen[s] = "drafting"
  /\ NextStep(s, "tailoring") \/ NextStep(s, "marking")
  /\ UNCHANGED <<shadow, pack, stored, delivered, shadowFaults>>

\* 3. The tailored CV, if the user has a CV.  A failure, even of the upload, is
\* not fatal.
TailorCv(s) ==
  /\ gen[s] = "tailoring"
  /\ \/ pack' = [pack EXCEPT ![s].cv = FALSE] /\ UNCHANGED stored
     \/ pack' = [pack EXCEPT ![s].cv = TRUE] /\ stored' = stored \cup {s}
  /\ NextStep(s, "persisting")
  /\ UNCHANGED <<shadow, delivered, shadowFaults>>

\* 4. The results and COMPLETED in one commit; a key of an earlier execution
\* stays when this one has none.
PersistPack(s) ==
  /\ gen[s] = "persisting"
  /\ IF Exists(s)
     THEN /\ shadow' = [shadow EXCEPT ![s].status = "completed", ![s].pack = TRUE,
                                      ![s].cvKey = @ \/ pack[s].cv]
          /\ delivered' = [delivered EXCEPT ![s].packs = @ + 1]
          /\ NextStep(s, "mailing")
     ELSE NextStep(s, "failing") /\ UNCHANGED <<shadow, delivered>>
  /\ UNCHANGED <<pack, stored, shadowFaults>>

\* notify_shadow_complete, whose failure is ignored; then the task ends.
SendMail(s) ==
  /\ gen[s] = "mailing"
  /\ \/ delivered' = [delivered EXCEPT ![s].mails = @ + 1]
     \/ UNCHANGED delivered
  /\ NextStep(s, "none")
  /\ UNCHANGED <<shadow, pack, stored, shadowFaults>>

\* _mark_shadow_failed; it swallows its own errors.
MarkShadowFailed(s) ==
  \/ /\ shadow' = IF Exists(s) /\ ~ IsTerminal(s)
                  THEN [shadow EXCEPT ![s].status = "failed"] ELSE shadow
     /\ UNCHANGED shadowFaults
  \/ Fails("mark") /\ UNCHANGED shadow

\* Mistake: only the task itself marks, before it raises.
OnFailureTaskOnly(s) == /\ gen[s] = "failing" /\ NextStep(s, "none")
                        /\ UNCHANGED <<shadow, pack, stored, delivered, shadowFaults>>
\* By the task before it raises, and by on_failure, after which it is acknowledged.
MarkByTask(s) == /\ gen[s] = "marking" /\ MarkShadowFailed(s) /\ NextStep(s, "failing")
                 /\ UNCHANGED <<pack, stored, delivered>>
OnFailure(s) == /\ gen[s] = "failing" /\ MarkShadowFailed(s) /\ NextStep(s, "none")
                /\ UNCHANGED <<pack, stored, delivered>>

\* An exception nobody catches: the database, the soft time limit.
RaisesUncaught(s) ==
  /\ gen[s] \in {"drafting", "persisting"} /\ NextStep(s, "failing")
  /\ UNCHANGED <<shadow, pack, stored, delivered, shadowFaults>>

\* The worker dies and the broker delivers again; the API process dies before it
\* has published; the hard time limit ends the execution and acknowledges.
WorkerCrash(s) ==
  /\ gen[s] \in Running \cup {"unsent"} /\ Fails("crash")
  /\ NextStep(s, IF gen[s] = "unsent" THEN "lost" ELSE "queued")
  /\ UNCHANGED <<shadow, pack, stored, delivered>>
HardTimeLimit(s) ==
  /\ gen[s] \in Running /\ Fails("kill") /\ NextStep(s, "lost")
  /\ UNCHANGED <<shadow, pack, stored, delivered>>

\* PATCH stage writes its own columns only; DELETE leaves the object behind.
UpdateShadowStage(s) ==
  /\ Exists(s) /\ \E g \in {"created", "sent"} : shadow' = [shadow EXCEPT ![s].stage = g]
  /\ UNCHANGED <<gen, pack, stored, delivered, shadowFaults>>
DeleteShadow(s) ==
  /\ Exists(s) /\ shadow' = [shadow EXCEPT ![s].status = "deleted"]
  /\ UNCHANGED <<gen, pack, stored, delivered, shadowFaults>>

ShadowTask(s) ==
  \/ Publish(s) \/ LoadInputs(s) \/ GenerateFullPack(s) \/ TailorCv(s)
  \/ PersistPack(s) \/ SendMail(s) \/ MarkByTask(s) \/ OnFailure(s)

ShadowNext == \E s \in Shadows :
  \/ ShadowTask(s) \/ GenerateShadow(s) \/ RaisesUncaught(s) \/ WorkerCrash(s)
  \/ HardTimeLimit(s) \/ UpdateShadowStage(s) \/ DeleteShadow(s)

ShadowSpec == ShadowInit /\ [][ShadowNext]_shadowVars
                /\ \A s \in Shadows : WF_shadowVars(ShadowTask(s))

-----------------------------------------------------------------------------
ShadowTypeOK ==
  /\ shadow \in [Shadows -> ShadowApplication]
  /\ gen \in [Shadows -> Running \cup {"none", "unsent", "queued", "lost"}]
  /\ pack \in [Shadows -> [cv : BOOLEAN]] /\ stored \subseteq Shadows
  /\ delivered \in [Shadows -> [packs : Nat, mails : Nat]]
  /\ shadowFaults \in [{"broker", "crash", "kill", "mark"} -> 0..MaxShadowFaults]

\* Whatever is redelivered after a crash, a pack is written at most once and
\* mailed only then and at most once, the row that has one stays COMPLETED
\* against every later failure, and a CV it offers for download is in the bucket
\* (shadow_gen.py:70, 189-271, 301-311).
PackDeliveredOnce ==
  \A s \in Shadows :
    /\ delivered[s].packs <= 1 /\ delivered[s].mails <= delivered[s].packs
    /\ delivered[s].packs = 1 => shadow[s].status \in {"completed", "deleted"}
    /\ shadow[s].status = "completed" => shadow[s].pack /\ delivered[s].packs = 1
    /\ shadow[s].cvKey => s \in stored

\* A published generation ends: the row is completed, failed or deleted, unless
\* the hard time limit struck or the failure could not be written, after which
\* it says "generating" for ever (shadow_gen.py:29-39, 301-311).
GenerationEnds ==
  \A s \in Shadows : gen[s] = "queued" ~>
     \/ IsTerminal(s) \/ shadow[s].status = "deleted"
     \/ gen[s] = "lost" \/ shadowFaults.mark > 0
=============================================================================
