-------------------------------- MODULE Radar --------------------------------
(* The opportunity radar (services/radar): what the signal engine, the      *)
(* vacancies and the hidden market of module HiddenMarket say is adapted,   *)
(* merged by company and role, scored and filtered.  Scores are in          *)
(* hundredths of a point until they are rounded.                            *)
EXTENDS HiddenMarket

CONSTANTS Requested,    \* requests, and the newest scan they find: records of
                        \*   cards, openings: in order
                        \*   prefs (given, roles, seniority, sectors, regions, types),
                        \*   least, source, urgency, speculative
          CompanyKey,   \* _normalize_company
          RoleKey,      \* _normalize_role: title |-> key
          ProviderData, \* company |-> [sector, place] as the providers tell them
          Ages,         \* days: how old rows may be that keep no scan away
          Words,        \* title |-> its taxonomy keywords, longest first
          Tokens,       \* sector |-> its words
          Inside        \* pairs of names, the first inside the second

\* What the cards and the openings of a request tell.
SignalCard == [company : STRING, role : STRING, sector : STRING, place : STRING, fit : Nat,
               salary : BOOLEAN, posted : BOOLEAN, signals : Nat, summary : STRING,
               trusted : BOOLEAN]
JobOpening == [company : STRING, role : STRING, trusted : BOOLEAN]
ASSUME RequestedAssumption ==
  /\ Ages \subseteq Nat
  /\ \A q \in Requested : q.cards \in Seq(SignalCard) /\ q.openings \in Seq(JobOpening)

VARIABLE radar   \* the last answer: what it was made from, and what it shows

radarVars == <<hidden, market, radar>>

NoRadar == [done |-> FALSE]
Unknown == [sector |-> "none", place |-> "none"]

-----------------------------------------------------------------------------
(* How well an opportunity fits a user: the taxonomies of                   *)
(* services/radar/types.py and _profile_fit of scorer.py.  A title is known *)
(* by the taxonomy keywords it has as words; sectors and places are names.  *)
(* Fits are in thousandths.                                                 *)
SENIORITY_LEVELS == <<
  {"analyst", "specialist", "engineer", "developer", "designer", "consultant",
  "associate", "officer", "executive"},
  {"manager", "supervisor", "coordinator", "assistant manager"},
  {"senior manager", "lead", "team lead", "staff", "senior consultant",
  "senior specialist", "assistant director", "deputy director"},
  {"director", "head", "country manager", "regional manager", "principal", "partner",
  "associate director"},
  {"svp", "senior vice president", "evp", "vp", "vice president", "senior director",
  "executive director", "country head", "regional head", "regional director"},
  {"ceo", "coo", "cfo", "cto", "cmo", "cio", "cpo", "chief", "founder", "co-founder",
  "president", "managing partner", "managing director", "general manager",
  "group head", "group ceo", "group coo"}>>

DOMAIN_MAP == <<
  <<"engineering", {"engineering", "software", "developer", "devops", "platform",
  "infrastructure", "backend", "frontend", "full stack", "sre", "data engineer",
  "ml engineer", "cto"}>>,
  <<"product", {"product", "ux", "design", "research", "cpo"}>>,
  <<"commercial", {"sales", "commercial", "revenue", "business development", "bd",
  "partnerships", "account", "gtm", "go to market", "cro"}>>,
  <<"operations", {"operations", "coo", "general manager", "gm", "supply chain",
  "logistics", "procurement", "facilities"}>>,
  <<"finance", {"finance", "cfo", "accounting", "treasury", "investor relations",
  "controller", "financial planning"}>>,
  <<"marketing", {"marketing", "cmo", "growth", "brand", "communications", "pr",
  "content", "demand gen", "digital marketing"}>>,
  <<"people", {"hr", "human resources", "people", "talent", "recruiting", "chro",
  "organizational development"}>>,
  <<"strategy", {"strategy", "corporate development", "m&a", "chief of staff",
  "transformation", "consulting"}>>,
  <<"legal", {"legal", "compliance", "regulatory", "governance", "general counsel"}>>,
  <<"technology", {"cto", "cio", "it", "information technology", "security",
  "cybersecurity", "cloud", "ai", "machine learning", "data science"}>>,
  <<"executive", {"ceo", "founder", "co-founder", "president", "managing director",
  "country manager", "regional director"}>> >>

SECTOR_HIERARCHY == <<
  <<"technology", {"tech", "saas", "software", "cloud", "ai", "cybersecurity", "data",
  "platform", "devtools", "infrastructure"}>>,
  <<"financial services", {"fintech", "banking", "insurance", "payments", "crypto",
  "blockchain", "wealth management", "investment", "lending", "neobank"}>>,
  <<"ecommerce", {"ecommerce", "e-commerce", "marketplace", "retail tech", "d2c",
  "retail"}>>,
  <<"healthcare", {"healthtech", "medtech", "biotech", "pharma", "digital health",
  "wellness"}>>,
  <<"energy", {"oil", "gas", "renewables", "solar", "cleantech", "utilities",
  "energy tech"}>>,
  <<"real estate", {"proptech", "real estate", "construction", "property"}>>,
  <<"logistics", {"logistics", "supply chain", "shipping", "freight", "mobility",
  "transportation", "ride-hailing", "last mile", "delivery"}>>,
  <<"food", {"foodtech", "food delivery", "restaurant tech", "agritech", "agriculture"}>>,
  <<"education", {"edtech", "education", "training", "e-learning"}>>,
  <<"consulting", {"consulting", "advisory", "professional services",
  "management consulting"}>>,
  <<"government", {"government", "public sector", "defense", "military"}>>,
  <<"media", {"media", "entertainment", "gaming", "streaming", "content", "adtech",
  "advertising"}>>,
  <<"travel", {"travel", "tourism", "hospitality", "hotels", "traveltech"}>> >>

CITY_TO_COUNTRY == {
  <<"dubai", "uae">>, <<"abu dhabi", "uae">>, <<"sharjah", "uae">>, <<"ajman", "uae">>,
  <<"riyadh", "ksa">>, <<"jeddah", "ksa">>, <<"dammam", "ksa">>, <<"neom", "ksa">>,
  <<"doha", "qatar">>, <<"manama", "bahrain">>, <<"muscat", "oman">>,
  <<"kuwait city", "kuwait">>, <<"cairo", "egypt">>, <<"alexandria", "egypt">>,
  <<"amman", "jordan">>, <<"beirut", "lebanon">>, <<"casablanca", "morocco">>,
  <<"tunis", "tunisia">>, <<"london", "uk">>, <<"manchester", "uk">>,
  <<"edinburgh", "uk">>, <<"new york", "us">>, <<"san francisco", "us">>,
  <<"austin", "us">>, <<"boston", "us">>, <<"toronto", "canada">>,
  <<"vancouver", "canada">>, <<"berlin", "germany">>, <<"munich", "germany">>,
  <<"paris", "france">>, <<"amsterdam", "netherlands">>, <<"singapore", "singapore">>,
  <<"hong kong", "hong kong">>, <<"mumbai", "india">>, <<"bangalore", "india">>,
  <<"delhi", "india">>}

REGION_GROUPS == [
  gcc |-> {"uae", "dubai", "abu dhabi", "ksa", "saudi", "riyadh", "jeddah", "qatar",
  "doha", "bahrain", "manama", "kuwait", "oman", "muscat"},
  mena |-> {"gcc", "uae", "dubai", "ksa", "saudi", "egypt", "cairo", "jordan", "amman",
  "lebanon", "beirut", "morocco", "tunisia"}]
-----------------------------------------------------------------------------
In(a, b) == a = b \/ <<a, b>> \in Inside

\* The level of the longest keyword that has one, or -1.
DetectSeniority(title) ==
  LET words == Words[title]
      Level(w) == {l \in DOMAIN SENIORITY_LEVELS : w \in SENIORITY_LEVELS[l]}
      known == {i \in DOMAIN words : Level(words[i]) # {}}
  IN  IF known = {} THEN -1 ELSE Min(Level(words[Min(known)])) - 1

\* The first domain of the table that has a keyword of the title, or "none".
DetectDomain(title) ==
  LET hits == {i \in DOMAIN DOMAIN_MAP :
                 \E n \in DOMAIN Words[title] : Words[title][n] \in DOMAIN_MAP[i][2]}
  IN  IF hits = {} THEN "none" ELSE DOMAIN_MAP[Min(hits)][1]

FindSectorParent(name) ==
  LET of == {i \in DOMAIN SECTOR_HIERARCHY :
               name = SECTOR_HIERARCHY[i][1] \/ name \in SECTOR_HIERARCHY[i][2]}
  IN  IF of = {} THEN "none" ELSE SECTOR_HIERARCHY[Min(of)][1]

\* Equal, or part of each other, or under the same heading: as a whole or by a
\* word of the opportunity's sector.
SectorsMatch(targets, sector) ==
  sector # "none" /\ \E t \in targets, s \in {sector} \cup Tokens[sector] :
    \/ In(t, s) \/ In(s, t)
    \/ FindSectorParent(t) # "none" /\ FindSectorParent(t) = FindSectorParent(s)

\* Countries of the cities named in a place.
ResolveCountry(place) == {c[2] : c \in {x \in CITY_TO_COUNTRY : In(x[1], place)}}

RegionsMatch(targets, place) ==
  /\ place # "none"
  /\ \E t \in targets :
       \/ t \in {"global", "remote"} \/ place \in {"global", "remote"}
       \/ In(t, place) \/ In(place, t)
       \/ t \in ResolveCountry(place)
       \/ \E c \in ResolveCountry(t) : In(c, place)
       \/ /\ t \in DOMAIN REGION_GROUPS
          /\ \E m \in REGION_GROUPS[t] : In(m, place) \/ m \in ResolveCountry(place)

-----------------------------------------------------------------------------
Levels(titles) == {DetectSeniority(r) : r \in titles} \ {-1}
Domains(titles) == {DetectDomain(r) : r \in titles} \ {"none"}
Gap(a, b) == IF a >= b THEN a - b ELSE b - a

\* The gap between the levels of the role and of the highest the user wants.
SeniorityGap(role, prefs) ==
  LET level == DetectSeniority(role)  wanted == prefs.roles \cup prefs.seniority IN
  IF level = -1 \/ Levels(wanted) = {} THEN -1
  ELSE Gap(level, Max(Levels(wanted)))
DomainMismatch(role, prefs) ==
  LET domain == DetectDomain(role)  wanted == Domains(prefs.roles) IN
  /\ domain # "none" /\ wanted # {}
  /\ domain \notin wanted /\ "executive" \notin wanted \cup {domain}

DomainCredit(role, prefs) ==
  LET domain == DetectDomain(role)  wanted == Domains(prefs.roles) IN
  IF domain = "none" \/ wanted = {} \/ DomainMismatch(role, prefs) THEN 0
  ELSE IF domain \in wanted THEN 300 ELSE 200
SeniorityCredit(role, prefs) ==
  CASE SeniorityGap(role, prefs) = 0 -> 250 [] SeniorityGap(role, prefs) = 1 -> 150
    [] SeniorityGap(role, prefs) = 2 -> 50 [] OTHER -> 0

\* A wanted type of company in the headline of the first source.
StageCredit(opp, prefs) ==
  IF \E t \in prefs.types, h \in opp.headline : In(t, h) THEN 100 ELSE 0

\* Without preferences the score of the signal engine, or next to nothing.  A
\* mismatch of the domain or the level caps the fit, one of the region lowers it.
ProfileFit(opp, prefs) ==
  LET sum == DomainCredit(opp.role, prefs) + SeniorityCredit(opp.role, prefs)
             + (IF SectorsMatch(prefs.sectors, opp.sector) THEN 200 ELSE 0)
             + (IF RegionsMatch(prefs.regions, opp.place) THEN 150 ELSE 0)
             + StageCredit(opp, prefs)
      capped == Min({sum} \cup (IF DomainMismatch(opp.role, prefs) THEN {350} ELSE {})
                         \cup (IF SeniorityGap(opp.role, prefs) >= 3 THEN {200} ELSE {}))
      elsewhere == prefs.regions # {} /\ opp.place # "none"
                   /\ ~ RegionsMatch(prefs.regions, opp.place)
  IN CASE ~ prefs.given -> IF opp.precomputed > 0 THEN 10 * opp.precomputed ELSE 150
       [] prefs.given /\ elsewhere -> (7 * capped) \div 10
       [] OTHER -> capped

-----------------------------------------------------------------------------
AdaptSignalCard(card) ==
  [company |-> card.company, role |-> card.role, sector |-> card.sector,
   place |-> card.place, by |-> "signal_engine", confidence |-> card.fit, days |-> -1,
   salary |-> card.salary, posted |-> card.posted, authoritative |-> card.trusted,
   headline |-> {card.summary}, precomputed |-> card.fit,
   tier |-> IF card.posted /\ card.fit >= 70 THEN "strong"
            ELSE IF card.posted \/ (card.signals >= 2 /\ card.fit >= 50) THEN "medium"
            ELSE IF card.fit >= 40 THEN "weak" ELSE "speculative"]

\* Every opening counts as a posted vacancy, the news among them too.
AdaptScoutJob(job) ==
  [company |-> job.company, role |-> job.role, sector |-> "none", place |-> "none",
   by |-> "job_board", confidence |-> 100, days |-> -1, salary |-> FALSE,
   posted |-> TRUE, authoritative |-> job.trusted, headline |-> {job.role},
   precomputed |-> 0, tier |-> "medium"]

\* The provider and the tier that were stored are not loaded with the row.
AdaptHiddenSignal(r, old) ==
  LET data == IF r.tier = "strong" THEN ProviderData[r.company] ELSE Unknown IN
  [company |-> r.company, role |-> r.role, sector |-> data.sector, place |-> data.place,
   by |-> "hidden_market", confidence |-> r.confidence,
   days |-> IF r.age < MarketCooldown THEN 0 ELSE old, salary |-> FALSE, posted |-> FALSE,
   authoritative |-> r.trusted, headline |-> {r.company, r.type}, precomputed |-> 0,
   tier |-> CASE r.role = "none" -> "speculative"
              [] r.role # "none" /\ r.confidence >= 70 /\ r.argued -> "medium"
              [] OTHER -> "weak"]

\* The fifty newest that were not dismissed.
HiddenInputs(old) ==
  LET open == {r \in hidden : ~ r.dismissed}
      ids == {r.id : r \in open}
      nth(n) == CHOOSE r \in open : r.id = Increasing(ids)[Cardinality(ids) + 1 - n]
  IN [n \in 1..Min({50, Cardinality(ids)}) |-> AdaptHiddenSignal(nth(n), old)]

-----------------------------------------------------------------------------
Key(input) == <<CompanyKey[input.company], RoleKey[input.role]>>
Keys(inputs) == {Key(inputs[i]) : i \in {j \in DOMAIN inputs : inputs[j].company # "none"}}
Group(inputs, key) ==
  LET at == Increasing({i \in DOMAIN inputs : inputs[i].company # "none" /\ Key(inputs[i]) = key})
  IN  [n \in DOMAIN at |-> inputs[at[n]]]

TierRank(tier) ==
  CASE tier = "strong" -> 3 [] tier = "medium" -> 2 [] tier = "weak" -> 1 [] OTHER -> 0

\* The first value that is known, else "none".
FirstKnown(values) ==
  LET known == {i \in DOMAIN values : values[i] # "none"} IN
  IF known = {} THEN "none" ELSE values[Min(known)]

\* Shown under the name of the most confident source; its tier is that of the
\* strongest, and strong when a hidden signal and a vacancy agree.
Merge(items) ==
  LET Has(source) == \E i \in DOMAIN items : items[i].by = source
      best == items[Min({i \in DOMAIN items :
                \A j \in DOMAIN items : items[j].confidence <= items[i].confidence})]
      dated == {items[i].days : i \in DOMAIN items} \ {-1}
      scores == {i \in DOMAIN items : items[i].precomputed > 0}
  IN [company |-> best.company, role |-> best.role,
      place |-> FirstKnown(<<best.place>> \o [i \in DOMAIN items |-> items[i].place]),
      sector |-> FirstKnown(<<best.sector>> \o [i \in DOMAIN items |-> items[i].sector]),
      sources |-> {items[i].by : i \in DOMAIN items}, number |-> Len(items),
      hidden |-> Has("hidden_market"), board |-> Has("job_board"),
      posted |-> \E i \in DOMAIN items : items[i].posted,
      salary |-> \E i \in DOMAIN items : items[i].salary,
      authoritative |-> \E i \in DOMAIN items : items[i].authoritative,
      days |-> IF dated = {} THEN -1 ELSE Min(dated), headline |-> items[1].headline,
      precomputed |-> IF scores = {} THEN 0 ELSE items[Min(scores)].precomputed,
      rank |-> IF Has("hidden_market") /\ Has("job_board") THEN 3
               ELSE Max({TierRank(items[i].tier) : i \in DOMAIN items})]

DedupAndMerge(inputs) == {Merge(Group(inputs, k)) : k \in Keys(inputs)}

-----------------------------------------------------------------------------
\* Each component in hundredths.
SignalStrength(m) ==
  LET base == CASE m.rank = 3 -> 90 [] m.rank = 2 -> 65 [] m.rank = 1 -> 40 [] OTHER -> 20
  IN IF m.hidden /\ m.board THEN 100
     ELSE IF m.posted /\ m.salary THEN Max({base, 90}) ELSE base

\* Linear over sixty days; the unit is a quarter of a point.
Recency(m) == IF m.days = -1 THEN 450 ELSE Max({0, 1500 - 25 * m.days})

Competition(m) ==
  CASE m.hidden /\ ~ m.posted -> IF m.rank >= 2 THEN 90 ELSE 50
    [] (~ m.hidden \/ m.posted) /\ m.days = -1 -> 50
    [] OTHER -> IF m.days < 3 THEN 80 ELSE IF m.days < 7 THEN 60 ELSE IF m.days < 14 THEN 40
                ELSE 20

Conviction(m) ==
  CASE m.number >= 3 -> 100 [] m.number = 2 -> 75
    [] m.number = 1 -> IF m.authoritative THEN 60 ELSE 40

Rounded(x, unit) == (x + unit \div 2) \div unit

\* Mistake: the penalties of strong and weak evidence are swapped.
TierMultiplierSwapped(m) ==
  CASE m.rank = 3 -> 55 [] m.rank = 2 -> 85 [] m.rank = 1 -> 100 [] OTHER -> 25
TierMultiplier(m) ==
  CASE m.rank = 3 -> 100 [] m.rank = 2 -> 85 [] m.rank = 1 -> 55 [] OTHER -> 25

ScoreOpportunity(m, prefs) ==
  LET fit == ProfileFit(m, prefs)
      raw == 4 * fit + 20 * SignalStrength(m) + Recency(m) + 10 * Competition(m)
             + 10 * Conviction(m)
      score == Rounded(raw * TierMultiplier(m), 10000)
  IN Min({100, IF fit <= 350 THEN Rounded(7 * score, 10) ELSE score})

\* Only strong evidence is of high urgency.
Urgency(m, score) ==
  CASE m.rank = 3 /\ score >= 75 -> "high"
    [] m.rank >= 2 /\ score >= 50 /\ (m.rank = 2 \/ score < 75) -> "medium"
    [] OTHER -> "low"

Passes(m, q) ==
  LET score == ScoreOpportunity(m, q.prefs) IN
  /\ m.rank = 0 => q.speculative
  /\ score >= q.least
  /\ q.prefs.given => ProfileFit(m, q.prefs) >= 145
  /\ q.source \in {"all"} \cup m.sources
  /\ q.urgency \in {"all", Urgency(m, score)}

-----------------------------------------------------------------------------
RadarInit == MarketInit /\ radar = NoRadar

\* run_radar: a role that is not text ends it.
RunRadar ==
  /\ \E q \in Requested, old \in Ages :
       LET inputs == [i \in DOMAIN q.cards |-> AdaptSignalCard(q.cards[i])]
                       \o [i \in DOMAIN q.openings |-> AdaptScoutJob(q.openings[i])]
                       \o HiddenInputs(old)
           broken == \E i \in DOMAIN inputs :
                       inputs[i].company # "none" /\ inputs[i].role = "record"
       IN radar' = [done |-> TRUE, broken |-> broken, inputs |-> inputs, prefs |-> q.prefs,
                    shown |-> IF broken THEN {}
                              ELSE {m \in DedupAndMerge(inputs) : Passes(m, q)}]
  /\ UNCHANGED marketVars

\* An answer is forgotten when the market moves on.
RadarNext == RunRadar \/ (MarketNext /\ radar' = NoRadar)

RadarSpec == RadarInit /\ [][RadarNext]_radarVars

-----------------------------------------------------------------------------
\* What confirmation may cost of the score.
Cost(sources) == CASE sources = 2 -> 6 [] sources = 3 -> 5 [] OTHER -> 8

\* Another source that confirms an opportunity, and changes nothing of what it
\* is shown as, costs it six points at most, five as the third source and eight
\* as a later one: what it loses when it is posted or dated it gains in evidence,
\* least where its only source was one the scorer trusts (dedup.py:101-110,
\* scorer.py:215-299).
CorroborationCostsLittle ==
  (radar.done /\ ~ radar.broken) => \A k \in Keys(radar.inputs) :
    LET items == Group(radar.inputs, k) IN
    \A i \in DOMAIN items :
      LET fewer == Merge(SubSeq(items, 1, i - 1) \o SubSeq(items, i + 1, Len(items)))
          all == Merge(items)
      IN (Len(items) > 1 /\ ProfileFit(fewer, radar.prefs) = ProfileFit(all, radar.prefs)) =>
           ScoreOpportunity(all, radar.prefs)
             >= ScoreOpportunity(fewer, radar.prefs) - Cost(Len(items))

\* A role is text or missing (types.py:275): the radar answers.
RolesAreText == radar.done => ~ radar.broken
=============================================================================
