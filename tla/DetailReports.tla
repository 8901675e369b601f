---------------------------- MODULE DetailReports ----------------------------
(* The reports of one job run: run_llm_task writes the quick ones and       *)
(* publishes run_detail_task, which researches again and writes the         *)
(* detailed ones over them (workers/tasks/run_llm.py).  A run may have      *)
(* several messages of either task (PackPipeline), and a message is         *)
(* delivered again when its worker dies.  Who labels reports reads them in  *)
(* one step and writes them back, with the label, in another.               *)
EXTENDS Naturals, FiniteSets

CONSTANTS Quicks,           \* messages of run_llm_task the run gets
          Details,          \* messages of run_detail_task the run can cause
          KeyConfigured,    \* settings.serper_api_key is set
          MaxReportCrashes  \* bound: workers that die

VARIABLES run,      \* the row of job_runs: status, reports, positioning, retrieval, JD
          quick,    \* where each run_llm_task stands
          detail,   \* where each run_detail_task stands
          givenUp,  \* history: a phase 2 was not published, or ended without a word
          crashes

reportVars == <<run, quick, detail, givenUp, crashes>>

\* {}, RetrievalResult.empty, the results of a search, the mock.
Retrieval == {"nothing", "empty", "searched", "mock"}
\* The reports and their label "__detail_phase".
Reports == [content : {"none", "quick", "detailed"},
            phase : {"none", "quick", "detailed", "failed"}]
Run == [status : {"active", "terminal", "deleted"}, reports : Reports,
        positioning : BOOLEAN, retrieval : Retrieval, jd : BOOLEAN]

NoReports == [content |-> "none", phase |-> "none"]

\* owes: this message has written quick reports and not yet published phase 2;
\* seen: the reports it has read to label them.
Quick == [pc : {"queued", "calling", "marking", "writing", "chain_render", "chain_detail",
                "acking", "ended"},
          owes : BOOLEAN, seen : Reports]
Detail == [pc : {"none", "queued", "calling", "failing", "ended"}, seen : Reports]

ReportInit ==
  /\ \E jd \in BOOLEAN :
       run = [status |-> "active", reports |-> NoReports, positioning |-> FALSE,
              retrieval |-> "nothing", jd |-> jd]
  /\ quick = [q \in Quicks |-> [pc |-> "queued", owes |-> FALSE, seen |-> NoReports]]
  /\ detail = [d \in Details |-> [pc |-> "none", seen |-> NoReports]]
  /\ givenUp = FALSE /\ crashes = 0

Live == run.status # "deleted"

\* RetrievalService.retrieve_parallel: without a key an empty result, with one
\* the mock of _mock_retrieval, which names sources; the search below its return
\* is never reached.  The first line of an odd JD makes it raise.
Retrieved == {"nothing", IF KeyConfigured THEN "mock" ELSE "empty"}

\* The label goes on the reports that were read; the column is only written when it
\* changes, and not at all when the row is gone.
Labelled(seen, label) ==
  IF Live /\ seen.phase # label
  THEN [run EXCEPT !.reports = [content |-> seen.content, phase |-> label]]
  ELSE run

\* An execution goes on; what it had read it does not look at again.
QuickAt(q, from, to) ==
  /\ quick[q].pc = from
  /\ quick' = [quick EXCEPT ![q] = [@ EXCEPT !.pc = to, !.seen = NoReports]]
DetailAt(d, from, to) ==
  detail[d].pc = from /\ detail' = [detail EXCEPT ![d] = [pc |-> to, seen |-> NoReports]]

\* Message q comes to its end without publishing what it may owe; on_failure marks
\* the run failed, or does not come to it.
EndsShort(q) ==
  /\ quick' = [quick EXCEPT ![q].pc = "ended"]
  /\ run' \in {run, IF run.status = "active" THEN [run EXCEPT !.status = "terminal"] ELSE run}
  /\ givenUp' = (givenUp \/ quick[q].owes)

\* 1-7. A terminal run is not started again, nor one that is gone.  The JD may be
\* fetched now.
QuickLoad(q) ==
  /\ quick[q].pc = "queued"
  /\ IF run.status = "active"
     THEN /\ quick' = [quick EXCEPT ![q].pc = "calling"]
          /\ \E jd \in BOOLEAN : run' = [run EXCEPT !.jd = @ \/ jd]
          /\ UNCHANGED givenUp
     ELSE /\ quick' = [quick EXCEPT ![q].pc = "ended"]
          /\ givenUp' = (givenUp \/ quick[q].owes) /\ UNCHANGED run
  /\ UNCHANGED <<detail, crashes>>

\* self.retry publishes the message again.
QuickRetry(q) == QuickAt(q, "calling", "queued") /\ UNCHANGED <<run, detail, givenUp, crashes>>

\* 8. The LLM calls ended: _run_llm_calls and _run_cv_build_pipeline have no
\* positioning, and the status goes back from whatever it is.
QuickPersist(q) ==
  /\ quick[q].pc = "calling" /\ Live
  /\ quick' = [quick EXCEPT ![q].pc = "marking", ![q].owes = TRUE]
  /\ \E r \in Retrieved :
       run' = [run EXCEPT !.reports = [content |-> "quick", phase |-> "none"],
                 !.status = "active", !.positioning = FALSE, !.retrieval = r]
  /\ UNCHANGED <<detail, givenUp, crashes>>

\* 9. Reads the reports that are there now, whoever wrote them ...
MarkRead(q) ==
  /\ quick[q].pc = "marking"
  /\ quick' = [quick EXCEPT ![q].pc = IF Live THEN "writing" ELSE "chain_render",
                            ![q].seen = run.reports]
  /\ UNCHANGED <<run, detail, givenUp, crashes>>

\* ... and writes them back as quick, on a row that is still there.
MarkWrite(q) ==
  /\ QuickAt(q, "writing", "chain_render")
  /\ Live \/ quick[q].seen.phase = "quick"
  /\ run' = Labelled(quick[q].seen, "quick")
  /\ UNCHANGED <<detail, givenUp, crashes>>

\* 10. Rendering may complete the run from here on; or the broker refuses a message.
ChainRender(q) ==
  /\ \/ QuickAt(q, "chain_render", "chain_detail") /\ UNCHANGED <<run, givenUp>>
     \/ quick[q].pc = "chain_render" /\ EndsShort(q)
  /\ UNCHANGED <<detail, crashes>>

ChainDetail(q) ==
  /\ quick[q].pc = "chain_detail"
  /\ \/ /\ \E d \in Details : /\ detail[d].pc = "none"
                              /\ detail' = [detail EXCEPT ![d].pc = "queued"]
        /\ quick' = [quick EXCEPT ![q].pc = "acking", ![q].owes = FALSE]
        /\ UNCHANGED <<run, givenUp>>
     \/ EndsShort(q) /\ UNCHANGED detail
  /\ UNCHANGED crashes

\* A failed LLM call, a row that disappeared, a time limit, a database error.
QuickFails(q) ==
  /\ quick[q].pc \in {"calling", "marking", "writing", "chain_render", "chain_detail"}
  /\ EndsShort(q)
  /\ UNCHANGED <<detail, crashes>>

QuickAck(q) == QuickAt(q, "acking", "ended") /\ UNCHANGED <<run, detail, givenUp, crashes>>

\* The worker dies and the message is delivered again.
QuickCrash(q) ==
  /\ quick[q].pc \notin {"queued", "ended"} /\ crashes < MaxReportCrashes
  /\ crashes' = crashes + 1 /\ quick' = [quick EXCEPT ![q].pc = "queued"]
  /\ UNCHANGED <<run, detail, givenUp>>

RenderCompletes ==
  /\ run.reports.content # "none" /\ run.status = "active"
  /\ \/ \E q \in Quicks : quick[q].pc \in {"chain_detail", "acking", "ended"}
     \/ \E d \in Details : detail[d].pc # "none"
  /\ run' = [run EXCEPT !.status = "terminal"]
  /\ UNCHANGED <<quick, detail, givenUp, crashes>>

\* 1-2. The inputs, the fresh retrieval, and its commit; {} is not written.  A run
\* that is gone is left alone, and so is one without a JD: skipped_no_jd.
DetailRetrieve(d) ==
  /\ IF Live /\ run.jd
     THEN /\ DetailAt(d, "queued", "calling") /\ UNCHANGED givenUp
          /\ \E r \in Retrieved :
               run' = IF r = "nothing" THEN run ELSE [run EXCEPT !.retrieval = r]
     ELSE /\ DetailAt(d, "queued", "ended")
          /\ givenUp' = (givenUp \/ Live) /\ UNCHANGED run
  /\ UNCHANGED <<quick, crashes>>

\* 4. The report failed: what is stored is read ...
DetailFailRead(d) ==
  /\ detail[d].pc = "calling"
  /\ detail' = [detail EXCEPT ![d] =
       IF Live /\ run.reports.content # "none"
       THEN [pc |-> "failing", seen |-> run.reports] ELSE [@ EXCEPT !.pc = "ended"]]
  /\ UNCHANGED <<run, quick, givenUp, crashes>>

\* ... and labelled, whatever it was.
DetailFailWrite(d) ==
  /\ DetailAt(d, "failing", "ended")
  /\ run' = Labelled(detail[d].seen, "failed")
  /\ UNCHANGED <<quick, givenUp, crashes>>

\* Mistake: the phase is not set on the new reports.
DetailPersistUnmarked(d) ==
  /\ DetailAt(d, "calling", "ended")
  /\ \E p \in BOOLEAN : run' = IF Live
       THEN [run EXCEPT !.reports = [content |-> "detailed", phase |-> "none"],
                        !.positioning = @ \/ p]
       ELSE run
  /\ UNCHANGED <<quick, givenUp, crashes>>

\* 5. Both calls ended; a failed positioning keeps the one that is there.
DetailPersist(d) ==
  /\ DetailAt(d, "calling", "ended")
  /\ \E p \in BOOLEAN : run' = IF Live
       THEN [run EXCEPT !.reports = [content |-> "detailed", phase |-> "detailed"],
                        !.positioning = @ \/ p]
       ELSE run
  /\ UNCHANGED <<quick, givenUp, crashes>>

\* Nothing catches an error of the prompts or of the database, or the hard time
\* limit, and there is no on_failure.
DetailUncaught(d) ==
  /\ DetailAt(d, "calling", "ended") \/ DetailAt(d, "failing", "ended")
  /\ givenUp' = TRUE
  /\ UNCHANGED <<run, quick, crashes>>

DetailCrash(d) ==
  /\ DetailAt(d, "calling", "queued") \/ DetailAt(d, "failing", "queued")
  /\ crashes < MaxReportCrashes /\ crashes' = crashes + 1
  /\ UNCHANGED <<run, quick, givenUp>>

\* The CV, and with it the run, is deleted.
DeleteRun == /\ Live /\ run' = [run EXCEPT !.status = "deleted"]
             /\ UNCHANGED <<quick, detail, givenUp, crashes>>

QuickStep(q) ==
  \/ QuickLoad(q) \/ QuickRetry(q) \/ QuickPersist(q) \/ MarkRead(q) \/ MarkWrite(q)
  \/ ChainRender(q) \/ ChainDetail(q) \/ QuickFails(q) \/ QuickAck(q) \/ QuickCrash(q)

DetailStep(d) ==
  \/ DetailRetrieve(d) \/ DetailFailRead(d) \/ DetailFailWrite(d) \/ DetailPersist(d)
  \/ DetailUncaught(d) \/ DetailCrash(d)

ReportNext == \/ \E q \in Quicks : QuickStep(q)
              \/ \E d \in Details : DetailStep(d)
              \/ RenderCompletes \/ DeleteRun

ReportSpec == ReportInit /\ [][ReportNext]_reportVars

-----------------------------------------------------------------------------
ReportTypeOK ==
  /\ run \in Run /\ quick \in [Quicks -> Quick] /\ detail \in [Details -> Detail]
  /\ givenUp \in BOOLEAN /\ crashes \in Nat

Quiet == /\ \A q \in Quicks : quick[q].pc = "ended"
         /\ \A d \in Details : detail[d].pc \in {"none", "ended"}

\* However the executions of both tasks overlap, label reports they read before
\* others wrote, and are redelivered: reports labelled "detailed" are the detailed
\* ones, and once nothing is under way the label of the reports says that phase 2
\* ended, well or badly, unless one was never published (the message was refused, or
\* run_llm_task ended in between) or ended without a word: on a run without a JD, or
\* on an error nobody catches (run_llm.py:314-330, 724, 862-887).
PhaseIsSettled ==
  /\ run.reports.phase = "detailed" => run.reports.content = "detailed"
  /\ Quiet /\ Live /\ run.reports.content # "none" /\ ~ givenUp =>
       run.reports.phase \in {"detailed", "failed"}

\* "Serper API (Google search via serper.dev) - when SERPER_API_KEY is set"
\* (web_search.py:14): the sources a run cites were found by a search.
SourcesWereSearched == run.retrieval # "mock"
=============================================================================
