------------------------------- MODULE MCCareer -------------------------------
(* Model checking of the job hunt itself: the board of applications, the    *)
(* actions recommended for a signal and their quota, and what outcomes      *)
(* teach.  The four components write disjoint tables: a behaviour exercises *)
(* one of them, chosen initially, and leaves the tables of the others as    *)
(* they are, so that one run explores each of them in full.                 *)
EXTENDS ApplicationBoard, ActionLifecycle, ActionGeneration, OutcomeLearning, TLC

CONSTANTS s1, s2, s3, u1, u2, t1, t2, l1, l2

VARIABLE part   \* the component this behaviour exercises

MCUserOf == s1 :> u1 @@ s2 :> u2 @@ s3 :> u1
MCTypeOf == s1 :> t1 @@ s2 :> t1 @@ s3 :> t2

\* Opportunities on both sides of every threshold.
MCOpportunities ==
  [fit : {0, 50, 100}, access : {0, 60, 100}, userRate : {0, 100},
   globalRate : {0, 50, 100}, companyRate : {0, 50}, samples : {0, 5, 50},
   overridden : BOOLEAN, gate : {"pass", "reject"}, confidence : {50},
   months : {0, 2}, recentWin : BOOLEAN,
   roles : {{}, {[urgency |-> "possible", confidence |-> 60]}}]

CareerInit ==
  /\ part \in {"board", "actions", "quota", "learning"}
  /\ BoardInit /\ ActInit /\ QuotaInit /\ LearnInit

CareerNext ==
  \/ /\ part = "board" /\ BoardNext
     /\ UNCHANGED <<part, actVars, quotaVars, learnVars>>
  \/ /\ part = "actions" /\ ActNext
     /\ UNCHANGED <<part, boardVars, quotaVars, learnVars>>
  \/ /\ part = "quota" /\ QuotaNext
     /\ UNCHANGED <<part, boardVars, actVars, learnVars>>
  \/ /\ part = "learning" /\ LearnNext
     /\ UNCHANGED <<part, boardVars, actVars, quotaVars>>

careerVars == <<part, boardVars, actVars, quotaVars, learnVars>>
CareerSpec == CareerInit /\ [][CareerNext]_careerVars
LearnersSymmetry == Permutations(Learners)
=============================================================================
