----------------------------- MODULE SignalEngine -----------------------------
(* One run of the signal engine (services/scout/signal_engine.py): eleven   *)
(* fetchers run in a pool and complete in any order; their signals are put  *)
(* in one bucket per company, the strongest of each type is kept, and the   *)
(* kept ones become ranked opportunity cards.  Company names are taken      *)
(* modulo case; scores and recencies are in hundredths.                     *)
EXTENDS FiniteSets, Integers, Sequences, SequencesExt, FiniteSetsExt, TLC

CONSTANTS Labels,        \* the fetchers
          HitLists,      \* what the searches of one fetcher may find, in order
          ProviderLists, \* what Crunchbase and MAGNiTT may answer
          ClaudeAnswers, \* what the model may answer: lists of items
          Norm,          \* _normalise_company: name |-> name
          Prefix,        \* first ten characters of a normalised name, or "short"
          WholeTitle,    \* the headline about a company, taken as a name
          Overlap,       \* pairs of names that share eight characters
          MaxFound       \* bound: signals the fetchers find in all

\* News may carry tomorrow's date, and are then newer than new (_recency).
Names == DOMAIN Norm
SearchHits ==
  [url : STRING, company : Names \cap DOMAIN WholeTitle, verb : {"lower", "Title", "none"},
   about : SUBSET STRING, jobs : BOOLEAN, recency : Nat, detail : Nat]
SignalKinds == {"funding", "leadership", "expansion", "velocity", "pain_signal", "structural",
                "market_signal", "ma_activity"}
Signals == [company : Names, type : SignalKinds, recency : Nat, detail : Nat]
ASSUME EngineAssumption ==
  /\ Labels \subseteq {"funding", "leadership", "expansion", "velocity", "live_openings", "pain",
                      "structural", "market", "ma", "crunchbase", "magnitt"}
  /\ HitLists \subseteq Seq(SearchHits) /\ ProviderLists \subseteq Seq(Signals)
  /\ Norm \in [Names -> Names] /\ WholeTitle \in [DOMAIN WholeTitle -> Names]

VARIABLES keys,       \* the API keys configured
          running,    \* futures not completed yet
          collected,  \* all_signals: in the order the futures completed
          openings,   \* live_openings
          answer      \* the result, once there is one

engineVars == <<keys, running, collected, openings, answer>>

NoAnswer == [done |-> FALSE]
MaxCards == 20
MaxOpenings == 30

-----------------------------------------------------------------------------
\* A headline with a verb in lower case names its company; the same verb in
\* title case passes the test but is not found by the split: the whole headline
\* is the name.
CompanyFromTitle(hit) ==
  CASE hit.verb = "lower" -> {hit.company}
    [] hit.verb = "Title" -> {WholeTitle[hit.company]}
    [] OTHER -> {}

\* What is at some places of a list, in its order: the n-th has n places up to
\* its own.
Selected(list, places) ==
  LET place(n) == CHOOSE i \in places : Cardinality({j \in places : j <= i}) = n
  IN [n \in 1..Cardinality(places) |-> list[place(n)]]

\* The places of the hits that are the first with their link.
FirstOfUrl(hits) == {i \in DOMAIN hits : \A j \in 1..i - 1 : hits[j].url # hits[i].url}

SignalOf(type, recency, hit) ==
  [company |-> CHOOSE c \in CompanyFromTitle(hit) : TRUE, type |-> type,
   recency |-> recency, detail |-> hit.detail]
SignalsOf(type, hits) ==
  [n \in DOMAIN hits |-> SignalOf(type, hits[n].recency, hits[n])]

\* A news fetcher keeps the hits that speak of its type and name a company.
NewsSignals(type, hits) ==
  SignalsOf(type, Selected(hits,
    {i \in FirstOfUrl(hits) : type \in hits[i].about /\ CompanyFromTitle(hits[i]) # {}}))

FundingSignals(hits) == NewsSignals("funding", hits)
LeadershipSignals(hits) == NewsSignals("leadership", hits)
ExpansionSignals(hits) == NewsSignals("expansion", hits)
PainSignals(hits) == NewsSignals("pain_signal", hits)
StructuralSignals(hits) == NewsSignals("structural", hits)
MarketSignals(hits) == NewsSignals("market_signal", hits)
MaSignals(hits) == NewsSignals("ma_activity", hits)

\* Job boards and career pages count as hiring, whatever the text says.
VelocitySignals(hits) ==
  LET kept == Selected(hits,
                {i \in FirstOfUrl(hits) : hits[i].jobs /\ CompanyFromTitle(hits[i]) # {}})
  IN [n \in DOMAIN kept |-> SignalOf("velocity", 85, kept[n])]

\* Vacancies, and news of hiring that does not speak of cuts.
LiveJobOpenings(vacancies, news) ==
  LET found == vacancies \o news
      all == [i \in DOMAIN found |-> [posted |-> i <= Len(vacancies), recency |-> found[i].recency,
                                      cuts |-> "distress" \in found[i].about]]
      kept == Selected(all, {i \in FirstOfUrl(found) : all[i].posted \/ ~ all[i].cuts})
  IN SubSeq(kept, 1, Min({MaxOpenings, Len(kept)}))

\* What the providers answer is taken as it is: Crunchbase's executives count
\* as appointed now, whenever they were.
CrunchbaseSignals(rounds, people) ==
  [n \in DOMAIN rounds |-> [rounds[n] EXCEPT !.type = "funding"]]
    \o [n \in DOMAIN people |-> [people[n] EXCEPT !.type = "leadership", !.recency = 70]]
MagnittSignals(rounds) == [n \in DOMAIN rounds |-> [rounds[n] EXCEPT !.type = "funding"]]

Fetched(label) ==
  CASE label = "funding" -> {FundingSignals(h) : h \in HitLists}
    [] label = "leadership" -> {LeadershipSignals(h) : h \in HitLists}
    [] label = "expansion" -> {ExpansionSignals(h) : h \in HitLists}
    [] label = "velocity" -> {VelocitySignals(h) : h \in HitLists}
    [] label = "pain" -> {PainSignals(h) : h \in HitLists}
    [] label = "structural" -> {StructuralSignals(h) : h \in HitLists}
    [] label = "market" -> {MarketSignals(h) : h \in HitLists}
    [] label = "ma" -> {MaSignals(h) : h \in HitLists}
    [] label = "crunchbase" -> {CrunchbaseSignals(r, p) : r, p \in ProviderLists}
    [] label = "magnitt" -> {MagnittSignals(r) : r \in ProviderLists}

-----------------------------------------------------------------------------
CompanyMatch(a, b) ==
  \/ Norm[a] = Norm[b]
  \/ Prefix[Norm[a]] # "short" /\ Prefix[Norm[a]] = Prefix[Norm[b]]

NoBuckets == [keys |-> <<>>, of |-> [k \in {} |-> <<>>]]
NewBucket(b, norm, sig) ==
  [keys |-> IF norm \in DOMAIN b.of THEN b.keys ELSE Append(b.keys, norm),
   of |-> [k \in DOMAIN b.of \cup {norm} |-> IF k = norm THEN <<sig>> ELSE b.of[k]]]

\* Mistake: only an identical key is the same company.
AddToBucketExact(b, sig) ==
  LET norm == Norm[sig.company] IN
  IF norm \in DOMAIN b.of THEN [b EXCEPT !.of[norm] = Append(@, sig)]
  ELSE NewBucket(b, norm, sig)

\* The bucket of the first company that matches; else a new list for this one,
\* which replaces the list of its own key when that did not match.
AddToBucket(b, sig) ==
  LET matching == {i \in DOMAIN b.keys : CompanyMatch(sig.company, b.keys[i])}
  IN  IF matching # {} THEN [b EXCEPT !.of[b.keys[Min(matching)]] = Append(@, sig)]
      ELSE NewBucket(b, Norm[sig.company], sig)

\* The buckets after each signal.
Buckets(signals) ==
  LET after[n \in 0..Len(signals)] ==
        IF n = 0 THEN NoBuckets ELSE AddToBucket(after[n - 1], signals[n])
  IN after[Len(signals)]

TypesOf(sigs) == {sigs[i].type : i \in DOMAIN sigs}
\* In tenths.
ConfidenceMultiplier(stack) == Min({20, 10 + 3 * (stack - 1)})

\* The first of the strongest signals of one type: newest, then longest.
Strongest(sigs, type) ==
  LET of == {i \in DOMAIN sigs : sigs[i].type = type}
      Below(i, j) == \/ sigs[i].recency < sigs[j].recency
                     \/ sigs[i].recency = sigs[j].recency /\ sigs[i].detail < sigs[j].detail
  IN sigs[Min({i \in of : \A j \in of : ~ Below(i, j)})]

Boosted(sig, stack) ==
  [sig EXCEPT !.recency = Min({100, (@ * ConfidenceMultiplier(stack)) \div 10})]

Unique(signals) ==
  LET b == Buckets(signals) IN
  UNION {{Boosted(Strongest(b.of[k], t), Cardinality(TypesOf(b.of[k]))) :
            t \in TypesOf(b.of[k])} : k \in DOMAIN b.of}

-----------------------------------------------------------------------------
TypeWeight(t) ==
  CASE t = "leadership" -> 28 [] t = "funding" -> 22 [] t = "ma_activity" -> 20
    [] t = "expansion" -> 18 [] t = "board_change" -> 15 [] t = "velocity" -> 12
    [] t \in {"pain_signal", "structural"} -> 8 [] t = "market_signal" -> 5
    [] t = "distress" -> -5 [] OTHER -> 0

Clamp(lo, hi, x) == Max({lo, Min({hi, x})})
CompanyNames(sigs) == {s.company : s \in sigs}
HeuristicScore(types) ==
  Clamp(30, 95, 40 + MapThenSumSet(TypeWeight, types)
                  + (CASE Cardinality(types) >= 3 -> 10
                       [] Cardinality(types) = 2 -> 5 [] OTHER -> 0))

\* One card for each spelling of a company.
HeuristicCards(sigs) ==
  {LET of == {s \in sigs : s.company = c}
       best == Max({s.recency : s \in of})
   IN [company |-> c, score |-> HeuristicScore({s.type : s \in of}),
       signals |-> of,
       urgency |-> IF best > 80 THEN 3 ELSE IF best > 40 THEN 2 ELSE 1] :
   c \in CompanyNames(sigs)}

\* Cards in order of urgency, then of score (the most that are shown).
Above(c, d) == c.urgency > d.urgency \/ (c.urgency = d.urgency /\ c.score > d.score)
Shown(cards) == {c \in cards : Cardinality({d \in cards : Above(d, c)}) < MaxCards}

\* The model's cards are shown in its own order; a company it does not spell as
\* the signal did gets the signals of some company with a similar name.
ClaudeCard(item, sigs) ==
  LET own == {s \in sigs : s.company = item.company}
      near == {n \in CompanyNames(sigs) : <<item.company, n>> \in Overlap}
      of(n) == {s \in sigs : s.company = n}
  IN {[company |-> item.company, score |-> item.score, urgency |-> item.urgency,
       signals |-> m] :
        m \in IF own # {} THEN {own} ELSE IF near = {} THEN {{}} ELSE {of(n) : n \in near}}

\* An answer that cannot be read is replaced by the heuristic.
ScoreWithClaude(sigs) ==
  IF "anthropic" \notin keys \/ sigs = {} THEN {Shown(HeuristicCards(sigs))}
  ELSE {Shown(HeuristicCards(sigs))} \cup
       UNION {LET choices == [i \in DOMAIN a |-> ClaudeCard(a[i], sigs)] IN
              {{f[i] : i \in DOMAIN a} :
                 f \in {g \in [DOMAIN a -> UNION {choices[i] : i \in DOMAIN a}] :
                          \A i \in DOMAIN a : g[i] \in choices[i]}} : a \in ClaudeAnswers}

-----------------------------------------------------------------------------
EngineInit ==
  /\ keys \in SUBSET {"serper", "anthropic"}
  /\ running = Labels /\ collected = <<>> /\ openings = <<>>
  /\ answer = NoAnswer

NoSerperKey ==
  /\ ~ answer.done /\ "serper" \notin keys
  /\ answer' = [done |-> TRUE, cards |-> {}, kept |-> {}, demo |-> TRUE, by |-> "none"]
  /\ UNCHANGED <<keys, running, collected, openings>>

\* as_completed: a future's list is appended, or its exception is logged.
Completed(label) ==
  /\ "serper" \in keys /\ label \in running
  /\ running' = running \ {label}
  /\ \/ UNCHANGED <<collected, openings>>
     \/ /\ label # "live_openings"
        /\ \E s \in Fetched(label) : /\ Len(collected) + Len(s) <= MaxFound
                                     /\ collected' = collected \o s
        /\ UNCHANGED openings
     \/ /\ label = "live_openings"
        /\ \E v, n \in HitLists : openings' = LiveJobOpenings(v, n)
        /\ UNCHANGED collected
  /\ UNCHANGED <<keys, answer>>

RunSignalEngine ==
  /\ ~ answer.done /\ "serper" \in keys /\ running = {}
  /\ \E cards \in ScoreWithClaude(Unique(collected)) :
       answer' = [done |-> TRUE, cards |-> cards, kept |-> Unique(collected),
                  demo |-> cards = {} /\ openings = <<>>,
                  by |-> IF "anthropic" \in keys THEN "claude" ELSE "heuristic"]
  /\ UNCHANGED <<keys, running, collected, openings>>

EngineNext == NoSerperKey \/ RunSignalEngine \/ \E label \in Labels : Completed(label)
EngineSpec == EngineInit /\ [][EngineNext]_engineVars

-----------------------------------------------------------------------------
\* Names that normalising twice leaves as normalising once did.
Settled(name) == Norm[Norm[name]] = Norm[name]

\* Whatever the order in which the fetchers complete, the strongest signal of
\* every type is kept for every company, however it was spelled and never
\* weaker than it was found (up to 1.0, where all end): provided that no name loses more of itself when it
\* is normalised a second time, as "X Group Holdings" does: its bucket is
\* emptied (signal_engine.py:917-930, 958-971).
StrongestIsKept ==
  (answer.done /\ \A i \in DOMAIN collected : Settled(collected[i].company)) =>
    \A i \in DOMAIN collected :
      LET of == {s \in answer.kept : s.type = collected[i].type
                                     /\ CompanyMatch(s.company, collected[i].company)}
      IN Cardinality(of) = 1 /\ \A s \in of : s.recency >= Min({100, collected[i].recency})
=============================================================================
