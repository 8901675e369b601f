----------------------------- MODULE SignalRules -----------------------------
(* The rules of services/intelligence/signal_interpretation.py and the      *)
(* choice of one of them for a signal.  Of a rule's keywords only their     *)
(* number is kept, and the signal types that contain one of them: the type  *)
(* is part of the text that is searched.  A text is the number of keywords  *)
(* of each rule it contains besides.  Confidences are in hundredths.        *)
EXTENDS Integers, Sequences, FiniteSets, FiniteSetsExt

\* A role that a rule predicts: its seniority and its confidence.
Rule(id, types, keywords, minimum, named, roles) ==
  [id |-> id, types |-> types, keywords |-> keywords, minimum |-> minimum,
   named |-> named, roles |-> roles]

FUND_SEED_A == Rule("FUND_SEED_A", {"funding"}, 7, 2, {"funding"},
  <<<<"director", 75>>, <<"vp", 60>>>>)
FUND_SERIES_B == Rule("FUND_SERIES_B", {"funding"}, 7, 2, {},
  <<<<"vp", 80>>, <<"c_suite", 55>>>>)
FUND_SERIES_C == Rule("FUND_SERIES_C", {"funding"}, 8, 1, {},
  <<<<"c_suite", 70>>, <<"c_suite", 55>>, <<"director", 60>>>>)
FUND_PE == Rule("FUND_PE", {"funding"}, 7, 2, {},
  <<<<"vp", 80>>, <<"c_suite", 65>>>>)
LEAD_CEO_DEPART == Rule("LEAD_CEO_DEPART", {"leadership"}, 7, 2, {},
  <<<<"c_suite", 85>>>>)
LEAD_CXO_APPOINT == Rule("LEAD_CXO_APPOINT", {"leadership"}, 10, 2, {},
  <<<<"vp", 70>>, <<"director", 50>>>>)
LEAD_VP_DIRECTOR == Rule("LEAD_VP_DIRECTOR", {"leadership"}, 7, 1, {},
  <<<<"director", 65>>>>)
EXPAND_NEW_MARKET == Rule("EXPAND_NEW_MARKET", {"expansion"}, 7, 1, {"expansion"},
  <<<<"director", 80>>, <<"director", 65>>>>)
EXPAND_PRODUCT == Rule("EXPAND_PRODUCT", {"expansion", "product_launch"}, 7, 1, {},
  <<<<"director", 70>>, <<"vp", 55>>>>)
MA_ACQUISITION == Rule("MA_ACQUISITION", {"ma_activity"}, 7, 1, {},
  <<<<"director", 75>>, <<"c_suite", 60>>>>)
BOARD_CHANGE == Rule("BOARD_CHANGE", {"board_change"}, 6, 1, {},
  <<<<"c_suite", 55>>>>)
REG_COMPLIANCE == Rule("REG_COMPLIANCE", {"structural"}, 7, 2, {},
  <<<<"director", 70>>>>)
REG_DATA_PRIVACY == Rule("REG_DATA_PRIVACY", {"structural", "pain_signal"}, 6, 1, {},
  <<<<"director", 75>>>>)
DISTRESS_TURNAROUND == Rule("DISTRESS_TURNAROUND", {"distress"}, 6, 1, {},
  <<<<"c_suite", 75>>, <<"c_suite", 55>>>>)
PAIN_TALENT == Rule("PAIN_TALENT", {"pain_signal"}, 7, 2, {},
  <<<<"vp", 65>>>>)
STRUCT_SPINOFF == Rule("STRUCT_SPINOFF", {"structural"}, 6, 1, {},
  <<<<"c_suite", 65>>, <<"c_suite", 55>>>>)
STRUCT_DIGITAL_TX == Rule("STRUCT_DIGITAL_TX", {"structural"}, 6, 1, {},
  <<<<"c_suite", 70>>, <<"c_suite", 55>>>>)
MARKET_COMPETITOR == Rule("MARKET_COMPETITOR", {"market_signal"}, 6, 1, {},
  <<<<"vp", 65>>>>)
MARKET_GOVT_CONTRACT == Rule("MARKET_GOVT_CONTRACT", {"market_signal"}, 4, 1, {},
  <<<<"director", 70>>, <<"director", 60>>>>)
HIRING_SURGE == Rule("HIRING_SURGE", {"hiring_surge", "velocity"}, 6, 1, {"hiring_surge"},
  <<<<"director", 60>>>>)
LIFECYCLE_IPO == Rule("LIFECYCLE_IPO", {"funding"}, 5, 1, {},
  <<<<"c_suite", 80>>, <<"c_suite", 65>>, <<"director", 60>>>>)
STRUCT_ESG == Rule("STRUCT_ESG", {"structural"}, 6, 1, {},
  <<<<"c_suite", 60>>>>)

RULES == <<FUND_SEED_A, FUND_SERIES_B, FUND_SERIES_C, FUND_PE,
  LEAD_CEO_DEPART, LEAD_CXO_APPOINT, LEAD_VP_DIRECTOR, EXPAND_NEW_MARKET,
  EXPAND_PRODUCT, MA_ACQUISITION, BOARD_CHANGE, REG_COMPLIANCE,
  REG_DATA_PRIVACY, DISTRESS_TURNAROUND, PAIN_TALENT, STRUCT_SPINOFF,
  STRUCT_DIGITAL_TX, MARKET_COMPETITOR, MARKET_GOVT_CONTRACT, HIRING_SURGE,
  LIFECYCLE_IPO, STRUCT_ESG>>

-----------------------------------------------------------------------------
Hits(rule, sig) ==
  Min({rule.keywords, sig.text[rule.id] + (IF sig.type \in rule.named THEN 1 ELSE 0)})

Matching(sig) ==
  {i \in DOMAIN RULES : sig.type \in RULES[i].types /\ Hits(RULES[i], sig) >= RULES[i].minimum}

\* Ratio of matched keywords: greater for i than for j.
Better(i, j, sig) ==
  Hits(RULES[i], sig) * RULES[j].keywords > Hits(RULES[j], sig) * RULES[i].keywords

\* The first of the rules with the best ratio.
Best(sig) ==
  Min({i \in Matching(sig) : ~ \E j \in Matching(sig) : Better(j, i, sig)})

InterpretationConfidence(rule, sig) ==
  Max({20, Min({95, (100 * Hits(rule, sig)) \div rule.keywords})})

\* interpret: nothing for a signal whose gate is closed or that no rule matches.
Interpretations(sig) ==
  IF sig.gate \in {"none", "pass", "conditional"} /\ Matching(sig) # {}
  THEN LET rule == RULES[Best(sig)] IN
       {[rule |-> rule.id, confidence |-> InterpretationConfidence(rule, sig),
         roles |-> rule.roles]}
  ELSE {}

-----------------------------------------------------------------------------
\* The quality score of a hidden signal and its gate (signal_quality.py).
\* Components are in hundredths, the score in ten-thousandths.
TierFloor(tier) ==
  CASE tier = "strong" -> 70 [] tier = "medium" -> 50 [] tier = "weak" -> 30
    [] tier = "speculative" -> 10 [] OTHER -> 30

\* A confidence of zero counts as one half.
ScoreConfidence(sig) ==
  Max({TierFloor(sig.tier), Min({100, IF sig.confidence = 0 THEN 50 ELSE sig.confidence})})

\* A signal is scored on the day it is made.
ScoreRecency == 100

\* The boost is what the user's roles and sectors add, when they can be read.
ScoreRelevance(sig, boost) ==
  Min({100, boost +
    (CASE sig.type \in {"funding", "leadership", "expansion", "ma_activity",
                        "board_change", "hiring_surge"} -> 80
       [] sig.type \in {"product_launch", "velocity", "pain_signal", "structural"} -> 55
       [] OTHER -> 35)})
PreferenceBoosts == {0, 10, 20}

\* The rate of the learning profile, drawn to one half while it rests on fewer
\* than three samples.
ScoreHistorical(rate, samples) ==
  IF samples < 3 THEN (50 * (3 - samples) + rate * samples) \div 3 ELSE rate

StackBonus(count) == Min({15, 5 * Max({0, count - 1})})

ApplyGate(score) ==
  CASE score >= 6000 -> "pass"
    [] score \in 4000..5999 -> "conditional"
    [] score \in 2000..3999 -> "store_only"
    [] score < 2000 -> "reject"

QualityScore(sig, boost, historical, count) ==
  Min({10000, 35 * ScoreConfidence(sig) + 25 * ScoreRecency
              + 25 * ScoreRelevance(sig, boost) + 15 * historical
              + 100 * StackBonus(count)})

\* Signal types of a company among the rows, and at least one.
CompanySignals(company, rows) ==
  Max({1, Cardinality({r.type : r \in {x \in rows : x.company = company /\ ~ x.dismissed}})})

\* A batch is counted before it is scored: first the signals of the batch, and
\* then the rows of the table, where those of the batch are already.
BatchCounts(company, batch, rows) ==
  Cardinality({s \in batch : s.company = company})
    + Cardinality({r.type : r \in {x \in rows : x.company = company /\ ~ x.dismissed}})
=============================================================================
