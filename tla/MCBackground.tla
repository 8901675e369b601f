----------------------------- MODULE MCBackground -----------------------------
(* Model checking of the background work around a pack: the LLM client and  *)
(* its cache, the repair of its texts, shadow applications, the detailed     *)
(* reports and the profiles a pack reads.  They write disjoint state: a      *)
(* behaviour exercises one of them.                                          *)
EXTENDS LlmClient, ShadowApplications, DetailReports, Profiles

VARIABLE part   \* the component this behaviour exercises

backVars == <<part, llmVars, textVars, shadowVars, reportVars, profileVars>>

BackInit == /\ part \in {"llm", "text", "shadow", "reports", "profiles"}
            /\ LlmInit /\ TextInit /\ ShadowInit /\ ReportInit /\ ProfileInit

BackNext ==
  \/ part = "llm" /\ LlmNext /\ UNCHANGED <<part, textVars, shadowVars, reportVars, profileVars>>
  \/ part = "text" /\ TextNext /\ UNCHANGED <<part, llmVars, shadowVars, reportVars, profileVars>>
  \/ part = "shadow" /\ ShadowNext /\ UNCHANGED <<part, llmVars, textVars, reportVars, profileVars>>
  \/ part = "reports" /\ ReportNext /\ UNCHANGED <<part, llmVars, textVars, shadowVars, profileVars>>
  \/ part = "profiles" /\ ProfileNext /\ UNCHANGED <<part, llmVars, textVars, shadowVars, reportVars>>

BackShadowTask(s) == /\ part = "shadow" /\ ShadowTask(s)
                     /\ UNCHANGED <<part, llmVars, textVars, reportVars, profileVars>>

BackSpec == BackInit /\ [][BackNext]_backVars
              /\ \A s \in Shadows : WF_backVars(BackShadowTask(s))
=============================================================================
