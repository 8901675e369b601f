------------------------------- MODULE MCMarket -------------------------------
(* Model checking of the market side: one run of the signal engine, what is *)
(* kept of the scans, the job searches, the hidden market with the radar    *)
(* over it, the mailbox, and what hangs on an application: forms, timeline, *)
(* interviews of the calendar.  A behaviour exercises one of them.          *)
EXTENDS SignalEngine, ScoutResults, Radar, Mailbox, ApplicationTrail

CONSTANTS q1,  \* the one request beside which the radar is asked
          c1   \* the one edit of the mailbox beside which it is scanned

VARIABLE part   \* the component this behaviour exercises

-----------------------------------------------------------------------------
\* The signal engine: two spellings of Acme, its headline, a name that loses a
\* word each time it is normalised, and two that share ten characters.
MCNorm == ("acme" :> "acme") @@ ("Acme Ltd" :> "acme") @@ ("Acme Raises" :> "acme raises")
          @@ ("acme raises" :> "acme raises") @@ ("X Group Holdings" :> "x group")
          @@ ("x group" :> "x") @@ ("x" :> "x")
          @@ ("Consolidated One" :> "consolidated one") @@ ("Consolidated Two" :> "consolidated two")
          @@ ("consolidated one" :> "consolidated one") @@ ("consolidated two" :> "consolidated two")
MCPrefix == [n \in {MCNorm[m] : m \in DOMAIN MCNorm} |->
               CASE n \in {"consolidated one", "consolidated two"} -> "consolidat"
                 [] n = "acme raises" -> "acme raise" [] OTHER -> "short"]
MCWholeTitle == [c \in {"acme", "Acme Ltd", "X Group Holdings", "Consolidated One"} |->
                   IF c = "acme" THEN "Acme Raises" ELSE c]
MCOverlap == {<<"Acme Raises", "acme raises">>}
Hit(url, company, verb, about, jobs, recency, detail) ==
  [url |-> url, company |-> company, verb |-> verb, about |-> about, jobs |-> jobs,
   recency |-> recency, detail |-> detail]
MCHitLists ==
  {<<Hit("u1", "acme", "lower", {"funding", "pain_signal"}, TRUE, 90, 5),
     Hit("u1", "acme", "lower", {"funding"}, TRUE, 90, 5),
     Hit("u2", "acme", "none", {"funding"}, TRUE, 90, 5)>>,
   <<Hit("u3", "Acme Ltd", "lower", {"funding", "leadership", "distress"}, TRUE, 40, 9)>>,
   <<Hit("u4", "X Group Holdings", "lower", {"funding", "leadership"}, FALSE, 60, 5)>>,
   <<Hit("u5", "acme", "Title", {"funding", "distress"}, FALSE, 102, 5)>>,
   <<Hit("u6", "Consolidated One", "lower", {"leadership", "pain_signal"}, TRUE, 90, 2)>>}
MCProviderLists ==
  {<<>>, <<[company |-> "Consolidated Two", type |-> "funding", recency |-> 30, detail |-> 3]>>}
MCClaudeAnswers ==
  {<<>>, <<[company |-> "acme", score |-> 88, urgency |-> 3],
           [company |-> "Acme Raises", score |-> 40, urgency |-> 1]>>}

MCScans == {[demo |-> TRUE, by |-> "none"],
            [demo |-> FALSE, by |-> "claude"]}

-----------------------------------------------------------------------------
\* Job searches: listings that differ in their role hits and their company.
Listing(id, kind, roleHits, letters, closed) ==
  [id |-> id, kind |-> kind, closed |-> closed, old |-> FALSE, company |-> "c",
   roleHits |-> roleHits, sectorHits |-> 1, regionHits |-> 1, sourceBonus |-> 5,
   fresh |-> TRUE, letters |-> letters, priority |-> 1]
MCPages ==
  {<<Listing(1, "posting", 2, a, FALSE), Listing(2, "posting", 0, b, FALSE)>> : a, b \in {1, 16, 43, 77}}
  \cup {<<Listing(i, k, 1, 5, c)>> : i \in {1, 3}, k \in {"posting", "guide"}, c \in BOOLEAN}

-----------------------------------------------------------------------------
\* The hidden market: texts that no rule, one rule, or two rules know.
NoRule == [r \in {RULES[i].id : i \in DOMAIN RULES} |-> 0]
MCPlain == NoRule
SeedText == [NoRule EXCEPT !["FUND_SEED_A"] = 2, !["FUND_SERIES_C"] = 2]
MCHeadline == [c \in {"acme", "beta"} |-> "headline"]
MCPublishers == {"beta"}
MCVacancy == [c \in {"acme", "beta"} |-> "VP Sales"]
NewsItem(url, company, verb, about) ==
  [url |-> url, company |-> company, verb |-> verb, about |-> about, source |-> "tier2",
   titled |-> TRUE, hiring |-> FALSE, text |-> SeedText, argued |-> TRUE,
   trusted |-> url = "n2"]
Verified == [company |-> "acme", type |-> "funding", confidence |-> 90, tier |-> "medium",
             text |-> SeedText, role |-> "none", argued |-> TRUE, trusted |-> FALSE]
Item(basis, confidence) ==
  [basis |-> basis, confidence |-> confidence, text |-> SeedText, role |-> "VP Sales"]
Answer(adzuna, news, crunchbase, magnitt, claude) ==
  [adzuna |-> adzuna, news |-> news, crunchbase |-> crunchbase, magnitt |-> magnitt,
   claude |-> claude]
MCAnswers ==
  {Answer(("acme" :> 3) @@ ("beta" :> 2), << >>, << >>, << >>, "acme" :> Item("inference", 70)),
   Answer(<< >>, <<NewsItem("n1", "acme", "lower", {"product_launch"}),
                   NewsItem("n2", "acme", "lower", {"funding", "expansion"})>>,
          <<Verified>>, <<Verified>>, "acme" :> Item("pattern_only", 80)),
   Answer(<< >>, <<NewsItem("n3", "acme", "Title", {"expansion"})>>, << >>, << >>, << >>),
   Answer("acme" :> 4, <<NewsItem("n2", "acme", "lower", {"funding"})>>, << >>, << >>,
          "acme" :> Item("pattern_only", -1)),
   Answer(<< >>, <<NewsItem("n4", "beta", "lower", {"product_launch"})>>, << >>, << >>,
          "beta" :> Item("pattern_only", 80)),
   Answer(<< >>, << >>, <<Verified>>, << >>, "acme" :> Item("direct", -1))}
MCCaptures ==
  {[company |-> "acme", type |-> "hiring_surge", text |-> NoRule, titled |-> TRUE, trusted |-> FALSE],
   [company |-> "beta", type |-> "leadership", text |-> NoRule, titled |-> FALSE, trusted |-> TRUE]}

\* The radar.
MCWords == ("VP Sales" :> <<"sales", "vp">>) @@ ("Director" :> <<"director">>)
             @@ ("none" :> << >>)
MCTokens == "fintech" :> {"fintech"}
MCInside == {<<"startup", "a startup hires">>}
MCCompanyKey == [c \in {"acme", "beta", "headline"} |-> c]
MCRoleKey == ("VP Sales" :> "vp sales") @@ ("Director" :> "director") @@ ("none" :> "")
Card(role, fit, posted, signals, trusted) ==
  [company |-> "acme", role |-> role, sector |-> "fintech", place |-> "dubai", fit |-> fit,
   salary |-> FALSE, posted |-> posted, signals |-> signals, summary |-> "a startup hires",
   trusted |-> trusted]
MCProviderData == [c \in {"acme", "beta"} |-> [sector |-> "fintech", place |-> "riyadh"]]
Prefs(given, roles, sectors, regions) ==
  [given |-> given, roles |-> roles, seniority |-> {}, sectors |-> sectors, regions |-> regions,
   types |-> {}]
Opening(role, company) == [company |-> company, role |-> role, trusted |-> TRUE]
Anyone == Prefs(FALSE, {}, {}, {})
Seller == [Prefs(TRUE, {"VP Sales"}, {"financial services"}, {"uae"}) EXCEPT !.types = {"startup"}]
Request(cards, jobs, wanted, speculative) ==
  [cards |-> cards, openings |-> jobs, prefs |-> wanted, least |-> 0, source |-> "all",
   urgency |-> "all", speculative |-> speculative]
MCRequested ==
  {Request(<< >>, << >>, Anyone, TRUE),
   Request(<<Card("VP Sales", 80, FALSE, 2, FALSE)>>, << >>, Seller, FALSE),
   Request(<<Card("VP Sales", 45, FALSE, 1, TRUE)>>, <<Opening("VP Sales", "acme")>>, Seller, TRUE),
   Request(<<Card("VP Sales", 75, TRUE, 1, TRUE), Card("Director", 30, FALSE, 1, FALSE)>>,
           <<Opening("Director", "none")>>, Anyone, TRUE),
   [Request(<< >>, <<Opening("VP Sales", "acme"), Opening("VP Sales", "acme")>>,
            Prefs(TRUE, {"Director"}, {}, {"gcc"}), FALSE)
      EXCEPT !.least = 40, !.source = "hidden_market", !.urgency = "medium"]}

-----------------------------------------------------------------------------
\* A rejection that thanks for the application, as most do.
MCMailHits == [m \in Messages |-> {"applied", "rejected"}]

-----------------------------------------------------------------------------
marketAllVars == <<part, engineVars, resultVars, searchVars, radarVars, mailVars, trailVars>>

MarketSideInit ==
  /\ part \in {"engine", "results", "saves", "jobs", "hidden", "radar", "links", "scans", "mail", "trail"}
  /\ EngineInit /\ (part # "engine" => keys = {})
  /\ ResultsInit /\ (part # "results" => prefs = "OFF")
  /\ SearchInit /\ RadarInit /\ TrailInit
  /\ MailInit /\ (part \notin {"links", "mail"} => account.provider = "gmail")

MarketSideNext ==
  \/ part = "engine" /\ EngineNext /\ UNCHANGED <<part, resultVars, searchVars, radarVars, mailVars, trailVars>>
  \/ part = "results" /\ ScanNext /\ UNCHANGED <<part, engineVars, searchVars, radarVars, mailVars, trailVars>>
  \/ part = "jobs" /\ SearchNext /\ UNCHANGED <<part, engineVars, resultVars, radarVars, mailVars, trailVars>>
  \/ part = "saves" /\ SavesNext /\ UNCHANGED <<part, engineVars, searchVars, radarVars, mailVars, trailVars>>
  \/ part = "hidden" /\ MarketNext
     /\ UNCHANGED <<part, engineVars, resultVars, searchVars, radar, mailVars, trailVars>>
  \/ part = "radar" /\ RadarNext /\ (\A q \in Markets \ {q1} : market'[q] = AtRest)
     /\ (radar'.done => market[q1].at = "idle")
     /\ UNCHANGED <<part, engineVars, resultVars, searchVars, mailVars, trailVars>>
  \/ part \in {"links", "scans", "mail"} /\ MailNext
     /\ (part # "links" => \A r \in Edits \ {c1} : edits'[r].at = None)
     /\ (part = "links" => \A d \in DeepScans : deep'[d].at = None)
     /\ (part = "scans" => \A s \in Syncs : sync'[s].at = None)
     /\ (part = "mail" => \E d \in DeepScans : deep'[d].at = None)
     /\ UNCHANGED <<part, engineVars, resultVars, searchVars, radarVars, trailVars>>
  \/ part = "trail" /\ TrailNext
     /\ UNCHANGED <<part, engineVars, resultVars, searchVars, radarVars, mailVars>>

MarketSpec == MarketSideInit /\ [][MarketSideNext]_marketAllVars
=============================================================================
