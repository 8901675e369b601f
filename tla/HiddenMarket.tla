----------------------------- MODULE HiddenMarket -----------------------------
(* The hidden market of one user (table hidden_signals): GET                *)
(* /scout/hidden-market with its scan (services/scout/hidden_market.py),    *)
(* the scoring and the interpretation of what it found, the captures of the *)
(* browser extension (api/routes/extension.py) and the dismissal of a       *)
(* signal.  Confidences are in hundredths; company names are taken modulo   *)
(* case.                                                                    *)
EXTENDS FiniteSets, Integers, Sequences, SequencesExt, FiniteSetsExt, TLC,
        SignalRules

CONSTANTS Markets,        \* GET requests
          Answers,        \* what the sources and the model may answer: records of
                          \*   adzuna: company |-> vacancies, in one region
                          \*   news: what the news queries find, in order
                          \*   crunchbase, magnitt: raw signals
                          \*   claude: company |-> item
          PlainText,      \* the text of a signal that no rule knows
          Vacancy,        \* company |-> the title of its first vacancy
          Headline,       \* the whole headline about a company, taken as a name
          Publishers,     \* companies named like a publisher that is trusted
          Captures,       \* what the extension may capture: [company, type, text, titled, trusted]
          MarketCooldown, \* ticks a row keeps a scan away, thirty minutes in the code
          MaxSignals      \* bound: rows

\* The keywords of each rule in a text are counted, and so are vacancies.
Texts == [{RULES[i].id : i \in DOMAIN RULES} -> Nat]
RawFields == {"company", "type", "confidence", "tier", "text", "role", "argued", "trusted"}
ASSUME AnswersAssumption ==
  /\ PlainText \in Texts /\ MarketCooldown \in Nat
  /\ \A a \in Answers :
       /\ IsFiniteSet(DOMAIN a.adzuna) /\ \A c \in DOMAIN a.adzuna : a.adzuna[c] \in Nat
       /\ a.news \in Seq({a.news[i] : i \in DOMAIN a.news})
       /\ \A i \in DOMAIN a.news : a.news[i].text \in Texts
       /\ \A raws \in {a.crunchbase, a.magnitt} :
            /\ raws \in Seq({raws[i] : i \in DOMAIN raws})
            /\ \A i \in DOMAIN raws : /\ DOMAIN raws[i] = RawFields
                                      /\ raws[i].text \in Texts /\ raws[i].confidence \in Int
       /\ \A c \in DOMAIN a.claude : /\ a.claude[c].text \in Texts
                                     /\ a.claude[c].confidence \in Int

VARIABLES hidden,   \* hidden_signals with their signal_interpretations; stack is
                    \*   what quality_score holds besides its four components, and
                    \*   ended is history: the scan that made the row ran to its end
          market    \* the requests under way

marketVars == <<hidden, market>>

ScanCap == 20
NotANumber == -1
AtRest == [at |-> "idle", found |-> <<>>, ids |-> {}, scored |-> {}, begun |-> 0]
Ids == {r.id : r \in hidden}
NextId == Max({0} \cup Ids) + 1
\* Some numbers, in increasing order: the one at a place has that many up to it.
Increasing(S) ==
  [n \in 1..Cardinality(S) |-> CHOOSE a \in S : Cardinality({b \in S : b <= a}) = n]

-----------------------------------------------------------------------------
\* The role is the first of likely_roles; argued says that the reasoning is long or
\* the source one the adapters know, trusted that its link names one the scorer trusts.
Raw(company, type, confidence, tier, text, role, argued, trusted) ==
  [company |-> company, type |-> type, confidence |-> confidence, tier |-> tier,
   text |-> text, role |-> role, argued |-> argued, trusted |-> trusted]

\* The ten employers with the most vacancies, when they have three or more; the
\* link, a search, holds the name of the employer.
AdzunaSurges(counts) ==
  LET many == {c \in DOMAIN counts : counts[c] >= 3}
      first == {c \in many : Cardinality({d \in many : counts[d] > counts[c]}) < 10}
  IN  SetToSeq({Raw(c, "hiring_surge", Min({90, 50 + 10 * counts[c]}), "medium", PlainText,
                      Vacancy[c], TRUE, c \in Publishers) : c \in first})

\* The first type one of whose keywords is in the text.
ClassifyText(about) ==
  LET order == <<"funding", "leadership", "expansion", "product_launch">>
      hits == {i \in DOMAIN order : order[i] \in about}
  IN  IF hits = {} THEN "none" ELSE order[Min(hits)]

\* The part before a verb or a separator; a verb in title case is seen but does
\* not split.
ExtractCompany(item) ==
  CASE item.verb \in {"lower", "separator"} -> item.company
    [] item.verb = "Title" -> Headline[item.company]
    [] OTHER -> "none"

InitialConfidence(type, item) ==
  LET base == IF type = "product_launch" THEN 50 ELSE 60
      source == CASE item.source = "tier1" -> 15 [] item.source = "tier2" -> 8
                  [] OTHER -> 0
  IN Max({30, Min({85, base + source + (IF item.titled THEN 8 ELSE 0)
                                     + (IF item.hiring THEN 5 ELSE 0)})})

NewsRaw(items) ==
  LET fresh == {i \in DOMAIN items : /\ \A j \in 1..i - 1 : items[j].url # items[i].url
                                     /\ ClassifyText(items[i].about) # "none"
                                     /\ ExtractCompany(items[i]) # "none"}
      order == Increasing(fresh)
      signal(item) == LET type == ClassifyText(item.about) IN
        Raw(ExtractCompany(item), type, InitialConfidence(type, item), "medium", item.text,
            "none", item.argued, item.trusted)
  IN [n \in DOMAIN order |-> signal(items[order[n]])]

\* What the two providers answer counts as strong evidence.
CrunchbaseRaw(list) == [n \in DOMAIN list |-> [list[n] EXCEPT !.tier = "strong"]]
MagnittRaw(list) == [n \in DOMAIN list |-> [list[n] EXCEPT !.tier = "strong"]]

\* The first of each company and type.
Distinct(raw) ==
  LET keep == {i \in DOMAIN raw : \A j \in 1..i - 1 :
                 <<raw[j].company, raw[j].type>> # <<raw[i].company, raw[i].type>>}
      order == Increasing(keep)
  IN [n \in DOMAIN order |-> raw[order[n]]]

\* The answer is looked up by company alone.  A confidence that is not a number
\* ends the merge where it is compared, and goes through where it is not.
Merged(sig, e) ==
  [sig EXCEPT !.text = e.text, !.role = e.role, !.argued = TRUE,
     !.confidence = IF e.basis = "pattern_only" /\ e.confidence > 40 THEN 30
                    ELSE e.confidence]
Breaks(sig, answer) ==
  /\ sig.company \in DOMAIN answer
  /\ answer[sig.company].basis = "pattern_only"
  /\ answer[sig.company].confidence = NotANumber
EnrichWithClaude(sigs, answer) ==
  LET broken == {i \in DOMAIN sigs : Breaks(sigs[i], answer)}
      end == IF broken = {} THEN Len(sigs) ELSE Min(broken) - 1
  IN [i \in DOMAIN sigs |->
        IF i <= end /\ sigs[i].company \in DOMAIN answer
        THEN Merged(sigs[i], answer[sigs[i].company]) ELSE sigs[i]]

\* Every source may fail, and then finds nothing; so may the model.
Detections ==
  {EnrichWithClaude(Distinct(AdzunaSurges(a.adzuna) \o NewsRaw(a.news) \o
                             CrunchbaseRaw(a.crunchbase) \o MagnittRaw(a.magnitt)),
                    a.claude) : a \in Answers}

-----------------------------------------------------------------------------
MarketInit ==
  hidden = {} /\ market = [q \in Markets |-> AtRest]

\* Mistake: only the signals that were not dismissed keep a scan away.
FreshUndismissed == {r \in hidden : r.age < MarketCooldown /\ ~ r.dismissed}
\* The rows that keep a scan away: dismissed ones and captures too.
Fresh == {r \in hidden : r.age < MarketCooldown}

\* detect_signals: fresh rows, twenty at most, are the answer and nothing
\* changes; without one the sources are searched.
DetectSignals(q) ==
  /\ market[q].at = "idle" /\ Fresh = {}
  /\ \E found \in Detections :
       market' = [market EXCEPT ![q] =
         [AtRest EXCEPT !.at = "detected", !.found = found, !.begun = NextId]]
  /\ UNCHANGED hidden

NewRow(id, raw, q, begun) ==
  [id |-> id, company |-> raw.company, type |-> raw.type, confidence |-> raw.confidence,
   tier |-> raw.tier, text |-> raw.text, role |-> raw.role, argued |-> raw.argued,
   trusted |-> raw.trusted, by |-> q, begun |-> begun, age |-> 0,
   dismissed |-> FALSE, gate |-> "none", interpretations |-> <<>>, ended |-> FALSE, stack |-> 0]

\* The first twenty are committed together, or none; after a commit that is
\* not followed by the refresh of every row the answer is empty too.
Persist(q) ==
  LET found == market[q].found
      kept == 1..Min({ScanCap, Len(found)})
      id(i) == NextId + i - 1
      new == {NewRow(id(i), found[i], q, market[q].begun) : i \in kept}
      Nothing == market' = [market EXCEPT ![q] = AtRest]
  IN
  /\ market[q].at = "detected"
  /\ \/ Nothing /\ UNCHANGED hidden
     \/ /\ kept # {} /\ NextId + Len(found) - 1 <= MaxSignals
        /\ \A i \in kept : found[i].confidence # NotANumber
        /\ hidden' = hidden \cup new
        /\ \/ Nothing
           \/ market' = [market EXCEPT ![q].at = "persisted", ![q].ids = {id(i) : i \in kept}]

Batch(q) == {r \in hidden : r.id \in market[q].ids}

\* score_batch: what it rejects is deleted, and nothing else committed unless
\* something is.
ScoreBatch(q) ==
  /\ market[q].at = "persisted"
  /\ \E boost \in PreferenceBoosts, history \in {<<0, 3>>, <<0, 1>>, <<100, 5>>} :
       LET count(r) == BatchCounts(r.company, Batch(q), hidden)
           gate(r) == ApplyGate(QualityScore(r, boost, ScoreHistorical(history[1], history[2]),
                                             count(r)))
           scored == {[r EXCEPT !.gate = gate(r), !.stack = StackBonus(count(r))] :
                        r \in Batch(q)}
           kept == {r \in scored : r.gate # "reject"}
       IN /\ hidden' = IF kept = scored THEN hidden ELSE (hidden \ Batch(q)) \cup kept
          /\ market' = [market EXCEPT ![q].at = "scored", ![q].ids = {r.id : r \in kept},
               ![q].found = <<>>, ![q].scored = kept]

\* interpret_batch and the commit that keeps the scores as well; a row that
\* was dismissed meanwhile stays so.
InterpretBatch(q) ==
  LET score(r) == CHOOSE k \in market[q].scored : k.id = r.id
      done(r) == LET s == [r EXCEPT !.gate = score(r).gate, !.stack = score(r).stack,
                                    !.ended = TRUE] IN
                 [s EXCEPT !.interpretations = @ \o SetToSeq(Interpretations(s))]
  IN
  /\ market[q].at = "scored"
  /\ hidden' = (hidden \ Batch(q)) \cup {done(r) : r \in Batch(q)}
  /\ market' = [market EXCEPT ![q] = AtRest]

\* The database fails, or the server is lost: what was not committed is gone,
\* and nothing will score these rows again.
MarketLost(q) ==
  /\ market[q].at # "idle"
  /\ market' = [market EXCEPT ![q] = AtRest]
  /\ UNCHANGED hidden

-----------------------------------------------------------------------------
\* capture_profile, capture_job and capture_company.  The role of a vacancy is
\* kept as a record.  The signal is scored alone; then an attribute that does
\* not exist is read, and it is committed without an interpretation.
Capture ==
  /\ NextId <= MaxSignals
  /\ \E c \in Captures, boost \in PreferenceBoosts, history \in {0, 50} :
       LET confidence == CASE c.type = "leadership" -> 55
                           [] c.type = "hiring_surge" -> 70 [] c.type = "expansion" -> 45
           role == IF c.type = "hiring_surge" /\ c.titled THEN "record" ELSE "none"
           raw == NewRow(NextId, Raw(c.company, c.type, confidence, "medium", c.text,
                                     role, TRUE, c.trusted), "extension", NextId)
           count == CompanySignals(c.company, hidden \cup {raw})
       IN hidden' = hidden \cup
            {[raw EXCEPT !.gate = ApplyGate(QualityScore(raw, boost, history, count)),
                         !.stack = StackBonus(count)]}
  /\ UNCHANGED market

DismissHiddenSignal ==
  /\ \E r \in hidden :
       hidden' = (hidden \ {r}) \cup {[r EXCEPT !.dismissed = ~ @]}
  /\ UNCHANGED market

MarketTick ==
  /\ hidden' = {[r EXCEPT !.age = Min({MarketCooldown, @ + 1})] : r \in hidden}
  /\ UNCHANGED market

MarketNext ==
  \/ \E q \in Markets : DetectSignals(q) \/ Persist(q) \/ ScoreBatch(q)
                        \/ InterpretBatch(q) \/ MarketLost(q)
  \/ Capture \/ DismissHiddenSignal \/ MarketTick

HiddenSpec == MarketInit /\ [][MarketNext]_marketVars

-----------------------------------------------------------------------------
FoundByScan == {r \in hidden : r.by # "extension"}

\* Two fresh rows about one company and type are the work of two scans that
\* overlapped: a signal that was found, and even one the user dismissed, is not
\* found again within thirty minutes by a scan that began after it was kept
\* (hidden_market.py:46-69).
RescanNeedsARace ==
  \A r, s \in {x \in FoundByScan : x.age < MarketCooldown} :
    (r # s /\ r.company = s.company /\ r.type = s.type) =>
      r.by # s.by /\ r.begun <= s.id /\ s.begun <= r.id

\* "When multiple signals exist for the same company, each additional distinct
\* signal type adds a bonus" (signal_quality.py:22-25): a signal that is the only
\* one of its company has none.  Refuted: score_batch counts the signals of the
\* batch and then the rows, where those of the batch are already.
OnlySignalHasNoBonus ==
  \A r \in FoundByScan :
    r.ended /\ (\A s \in hidden : s.company = r.company => s = r) => r.stack = 0

\* "Runs the intelligence pipeline on the created signal" (extension.py:125-127):
\* a capture that passes the gate and has a matching rule is interpreted.
CaptureIsInterpreted ==
  \A r \in hidden \ FoundByScan :
    r.gate = "pass" /\ Interpretations(r) # {} => r.interpretations # <<>>
=============================================================================
