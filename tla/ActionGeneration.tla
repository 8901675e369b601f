--------------------------- MODULE ActionGeneration ---------------------------
(* POST /actions/generate: the score of an opportunity (DecisionEngine), the *)
(* actions a score calls for (ActionGenerator), and the monthly quota of the *)
(* plan around them: the gate counts the rows of the month                   *)
(* (plan_gating.check_action_quota), the route then scores the opportunity   *)
(* and stores every action it calls for.  Nothing is reserved between the    *)
(* count and the commit.  Rates and scores are in 1/100, the composite in    *)
(* 1/10000.                                                                  *)
EXTENDS FiniteSets, Integers

CONSTANTS Generators,      \* requests that may be in flight at once
          Cap,             \* actions_per_month of the plan
          Opportunities    \* what the requests ask about

-----------------------------------------------------------------------------
Bounded(x, low, high) == IF x < low THEN low ELSE IF x > high THEN high ELSE x

\* How much of a rate is the user's own, by the outcomes learned so far.
UserWeight(samples) ==
  IF samples >= 50 THEN 95 ELSE IF samples >= 20 THEN 80 ELSE IF samples >= 10 THEN 50
  ELSE IF samples >= 5 THEN 20 ELSE 0

\* An overridden rate is the user's alone.
Blend(userRate, globalRate, samples, overridden) ==
  IF overridden THEN userRate
  ELSE (UserWeight(samples) * userRate + (100 - UserWeight(samples)) * globalRate) \div 100

ScoreTiming(gate, confidence) ==
  LET gateScore == CASE gate = "pass" -> 90 [] gate = "conditional" -> 60
                     [] gate = "store_only" -> 30 [] gate = "reject" -> 10
                     [] OTHER -> 50
  IN  (6 * gateScore + 4 * confidence) \div 10

\* A half-life of thirty days, at the ages of whole half-lives.
ScoreRecency(months) ==
  CASE months <= 0 -> 100 [] months = 1 -> 50 [] months = 2 -> 25 [] OTHER -> 12

\* A win within 72 hours for the same signal type or company.
FastFeedbackBoost(recentWin) == IF recentWin THEN 1000 ELSE 0

\* score_opportunity: o has the profile fit and the access strength of the
\* request, the rates of the signal type, the global rate of the company and
\* the signal.  No caller records a contact type, so the user's own rate of a
\* company is always the neutral one.
CompositeScore(o) ==
  Bounded(30 * o.fit
          + 20 * Blend(o.userRate, o.globalRate, o.samples, o.overridden)
          + 15 * Blend(50, o.companyRate, o.samples, o.overridden)
          + 15 * o.access
          + 10 * ScoreTiming(o.gate, o.confidence)
          + 10 * ScoreRecency(o.months)
          + FastFeedbackBoost(o.recentWin), 0, 10000)

\* The highest-confidence role of an interpretation; with no interpretation,
\* or no role, a default one.
BestRole(roles) ==
  IF roles = {} THEN [urgency |-> "likely", confidence |-> 0]
  ELSE CHOOSE r \in roles : \A q \in roles : q.confidence <= r.confidence

\* generate_actions: each kind of action has a threshold of its own.
GenerateActions(o) ==
  LET score == CompositeScore(o) IN
    {t \in {"linkedin_message"} : score >= 4000}
      \cup {t \in {"email_outreach"} : score >= 5000}
      \cup {t \in {"referral_request"} : o.access >= 60}
      \cup {t \in {"follow_up_sequence"} :
              BestRole(o.roles).urgency \in {"imminent", "likely"} /\ score >= 4500}

-----------------------------------------------------------------------------
MaxBatch == 4              \* one action of each kind

ASSUME GeneratorsAssumption == IsFiniteSet(Generators)
ASSUME CapAssumption == Cap \in Nat \ {0}

VARIABLES made,            \* rows created this month
          gated            \* the requests the gate has let through

quotaVars == <<made, gated>>

QuotaInit == made = 0 /\ gated = {}

\* Mistake: one more than the cap.
CheckActionQuotaOneMore(g) ==
  /\ g \notin gated /\ made <= Cap
  /\ gated' = gated \cup {g}
  /\ UNCHANGED made

\* 429 once the rows of the month reach the cap.
CheckActionQuota(g) ==
  /\ g \notin gated /\ made < Cap
  /\ gated' = gated \cup {g}
  /\ UNCHANGED made

\* Load, score, generate, persist and commit.
GenerateRoute(g, o) ==
  /\ g \in gated
  /\ made' = made + Cardinality(GenerateActions(o))
  /\ gated' = gated \ {g}

\* 404: no such signal.
SignalNotFound(g) == g \in gated /\ gated' = gated \ {g} /\ UNCHANGED made

MonthStart == made > 0 /\ made' = 0 /\ UNCHANGED gated

QuotaNext ==
  \/ \E g \in Generators : CheckActionQuota(g) \/ SignalNotFound(g)
  \/ \E g \in Generators, o \in Opportunities : GenerateRoute(g, o)
  \/ MonthStart

QuotaSpec == QuotaInit /\ [][QuotaNext]_quotaVars

-----------------------------------------------------------------------------
QuotaTypeOK == made \in Nat /\ gated \subseteq Generators

\* What the gate really bounds: the cap can be passed by the batches of the
\* requests that were let through before the last one of them committed, and by
\* no more (plan_gating.py:185, actions.py:143).
OverrunIsBounded == made <= Cap - 1 + MaxBatch * Cardinality(Generators)

\* Why it holds: room is left for a batch of every request let through.
QuotaInv ==
  /\ QuotaTypeOK
  /\ made + MaxBatch * Cardinality(gated) <= Cap - 1 + MaxBatch * Cardinality(Generators)
=============================================================================
