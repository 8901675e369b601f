-------------------------------- MODULE WayIn --------------------------------
(* The way into a company (services/linkedin/relationship_engine.py and     *)
(* api/routes/relationships.py): who of the user's network works there, who *)
(* is reached through whom, who is discovered by a search and how they rank,*)
(* and the warm introductions the user asks for.  Scores are in tenths of a *)
(* point; a message is the kind of text that is drafted.                    *)
EXTENDS LinkedInNetwork

CONSTANTS Company,     \* company name |-> [norm, parts, long, first, brand, single, former,
                       \*   hidden]: its normal form, the normal forms inside it, whether it
                       \*   has five characters, its first word and whether that has, whether
                       \*   it is one word, says "former", hides who the company is
          NamePrefix,  \* pairs <<a, b>> of names, one starting with the other
          Regions,     \* company or role words |-> the regions in them
          Queries,     \* what may be asked: [company, role, brands, app]
          Found,       \* what the search may find: sequences of profiles
          HasSearch,   \* the search has a key
          Askers,      \* requests about introductions
          MaxIntros    \* bound: rows of warm_intros

VARIABLES answer,   \* the last answer of find_way_in
          intros,   \* warm_intros; raced is history: the row was inserted by a request
                    \*   that had read the table before another row was inserted
          asking    \* the requests under way

\* What a search finds is a list.
ASSUME FoundAssumption == \A raw \in Found : raw \in Seq({raw[i] : i \in DOMAIN raw})

introVars == <<intros, asking>>
wayInVars == <<answer, introVars>>

-----------------------------------------------------------------------------
\* Places in an order: the one that comes n-th has so many up to it; and what of a
\* list is there.
InOrder(S, Before(_, _)) ==
  [n \in 1..Cardinality(S) |->
     CHOOSE i \in S : Cardinality({j \in S : j = i \/ Before(j, i)}) = n]
Taken(list, order) == [n \in DOMAIN order |-> list[order[n]]]

-----------------------------------------------------------------------------
\* Names of companies.
GenericFirstWords ==
  {"digital", "professional", "bank", "group", "capital", "global", "international",
   "solutions", "services", "technology", "technologies", "consulting", "management",
   "partners"}
CompaniesMatch(a, b) ==
  LET x == Company[a]
      y == Company[b]
  IN  /\ x.norm # "" /\ y.norm # ""
      /\ \/ x.norm = y.norm
         \/ (x.long /\ x.norm \in y.parts) \/ (y.long /\ y.norm \in x.parts)
         \/ /\ x.first = y.first /\ x.brand /\ x.first \notin GenericFirstWords
            /\ (x.single \/ y.single)
IsFormer(a) == Company[a].former
\* A hidden company is replaced by the first brand in the role's text that a
\* connection works for or that is short enough to be a name.
ResolveTargetCompany(q) ==
  LET ok == {i \in DOMAIN q.brands :
               \/ \E c \in conns : c.company # "" /\ CompaniesMatch(c.company, q.brands[i].name)
               \/ q.brands[i].short}
      named == {i \in ok : q.brands[i].plausible}
  IN  IF ~ Company[q.company].hidden \/ named = {} THEN q.company
      ELSE q.brands[Min(named)].name

-----------------------------------------------------------------------------
\* Titles: function, tier, seniority.  The domains are tried in this order, and
\* their keywords are substrings.
RoleDomains ==
  <<[name |-> "engineering", words |-> {"engineer", "developer", "cto", "vp engineering",
       "tech lead", "architect", "devops", "sre", "software"}],
    [name |-> "product", words |-> {"product", "pm", "product manager", "vp product",
       "head of product"}],
    [name |-> "strategy", words |-> {"strategy", "operations", "chief of staff", "coo",
       "business development", "biz dev", "transformation"}],
    [name |-> "commercial", words |-> {"sales", "growth", "marketing", "cmo", "revenue",
       "commercial", "partnerships", "bd"}],
    [name |-> "finance", words |-> {"finance", "cfo", "controller", "treasury",
       "investor relations", "fp&a"}],
    [name |-> "hr", words |-> {"hr", "people", "talent", "recruiter", "recruiting",
       "human resources", "people operations"}],
    [name |-> "design", words |-> {"design", "ux", "ui", "creative", "head of design"}],
    [name |-> "data", words |-> {"data", "analytics", "ml", "machine learning", "ai",
       "data science"}],
    [name |-> "executive", words |-> {"ceo", "founder", "co-founder", "president",
       "managing director", "general manager", "country manager"}]>>
DetectDomain(title) ==
  LET hits == {i \in DOMAIN RoleDomains : Says(title, RoleDomains[i].words)}
  IN  IF hits = {} THEN "general" ELSE RoleDomains[Min(hits)].name
SameDomain(role, title) ==
  DetectDomain(role) = DetectDomain(title) /\ DetectDomain(title) # "general"

\* Words with a boundary around them are members of the title.
SeniorityTier(title) ==
  IF Says(title, {"recruiter", "talent acquisition", "talent partner", "headhunter",
                  "head hunter", "human resources", "people operations",
                  "people partner", "staffing", "executive search",
                  "search consultant", "resourcing", "recruitment"}) THEN 0
  ELSE IF Says(title, {"managing director", "managing partner", "general manager"}) THEN 4
  ELSE IF \/ Says(title, {"vice president", "vp ", "svp", "evp", "head of",
                          "group director", "regional director"})
          \/ "director" \in title THEN 3
  ELSE IF \/ "partner" \in title /\ ~ Says(title, {"partnership"})
          \/ title \cap {"ceo", "coo", "cfo", "cto", "cio", "cpo", "chro"} # {}
          \/ Says(title, {"chief", "founder", "co-founder", "president"}) THEN 4
  ELSE IF \/ "manager" \in title
          \/ Says(title, {"lead", "principal", "senior manager", "team lead",
                          "supervisor", "department head"}) THEN 2
  ELSE 1
DetectSeniority(title) ==
  IF title = {} THEN 0
  ELSE IF Says(title, {"managing director"}) THEN 100
  ELSE IF Says(title, {"vice president", "svp", "evp"}) \/ "vp " \in title THEN 80
  ELSE IF title \cap {"ceo", "coo", "cfo", "cto", "cmo"} # {} THEN 100
  ELSE IF Says(title, {"founder", "president", "chief"}) THEN 100
  ELSE IF "partner" \in title /\ ~ Says(title, {"partnership"}) THEN 80
  ELSE IF Says(title, {"director", "head of"}) THEN 70
  ELSE IF Says(title, {"senior manager", "principal"}) THEN 55
  ELSE IF Says(title, {"manager", "lead", "team lead"}) THEN 45
  ELSE IF Says(title, {"senior", "sr."}) THEN 35
  ELSE 20

Recruits(c) == c.recruiter \/ DetectDomain(c.title) = "hr"
RankConnection(c, role) ==
  (IF Recruits(c) THEN 100 ELSE 0) + (IF c.manager THEN 80 ELSE 0)
    + DetectSeniority(c.title) + (IF SameDomain(role, c.title) THEN 40 ELSE 0)
    + (CASE c.strength = "strong" -> 30 [] c.strength = "medium" -> 10 [] OTHER -> 0)
\* What an introduction leans on, and to whom its message is written.
IntroAngle(c, role) ==
  IF Recruits(c) THEN "recruiter"
  ELSE IF c.manager \/ DetectSeniority(c.title) >= 70 THEN "decision maker"
  ELSE IF SameDomain(role, c.title) THEN "same function"
  ELSE "insider"
IntroMessage(c, role) ==
  IF c.recruiter THEN "recruiter"
  ELSE IF DetectSeniority(c.title) >= 70 THEN "senior"
  ELSE IF c.title # {} /\ role # {} /\ DetectDomain(c.title) = DetectDomain(role) THEN "peer"
  ELSE "general"

-----------------------------------------------------------------------------
\* Who of the network works at the company: by the company of the row, unless it or
\* the headline says former; else by a part of the headline, else by the title.
MatchesCompany(c, company) ==
  LET says(seg) == seg.company # "" /\ CompaniesMatch(seg.company, company)
      line == c.says.headline
  IN  /\ Company[company].norm # ""
      /\ ~ (c.company # "" /\ IsFormer(c.company))
      /\ \/ /\ c.company # "" /\ CompaniesMatch(c.company, company)
            /\ \A i \in DOMAIN line : says(line[i]) => ~ line[i].former
         \/ /\ ~ (c.company # "" /\ CompaniesMatch(c.company, company))
            /\ line # << >> /\ ~ line[1].former
            /\ \E i \in DOMAIN line : says(line[i]) /\ ~ line[i].former
         \/ /\ ~ (c.company # "" /\ CompaniesMatch(c.company, company))
            /\ line = << >> \/ ~ line[1].former
            /\ c.says.at # "" /\ ~ IsFormer(c.says.at) /\ CompaniesMatch(c.says.at, company)

Bucket(c) ==
  IF c.strength = "visited" THEN "visited"
  ELSE IF SeniorityTier(c.title) = 0 THEN "recruiter"
  ELSE "direct"
Worth(c, role, bucket) ==
  RankConnection(c, role) + (IF bucket = "direct" THEN 1000 * SeniorityTier(c.title) ELSE 0)
\* What is worth the same stays as the rows come.
Members(company, role, bucket) ==
  LET rows == SetToSeq(conns)
      here == {i \in DOMAIN rows : MatchesCompany(rows[i], company) /\ Bucket(rows[i]) = bucket}
      worth(i) == Worth(rows[i], role, bucket)
  IN  Taken(rows, InOrder(here, LAMBDA i, j : \/ worth(i) > worth(j)
                                              \/ worth(i) = worth(j) /\ i < j))
\* Nobody is matched to a hidden company.
Network(company, role) ==
  [bucket \in {"direct", "recruiter", "visited"} |->
     IF Company[company].hidden THEN << >> ELSE Members(company, role, bucket)]

-----------------------------------------------------------------------------
\* The connector of a mutual row: the connection with its id, else its name, its
\* first and last words, or a name that starts like it.
FindConnector(m) ==
  LET tries == <<{c \in conns : c.id = m.mutual}, {c \in conns : c.name = m.name},
                 {c \in conns : FirstLast[m.name] # "none" /\ FirstLast[c.name] = FirstLast[m.name]},
                 {c \in conns : {<<c.name, m.name>>, <<m.name, c.name>>} \cap NamePrefix # {}}>>
      hits == {i \in DOMAIN tries : tries[i] # {}}
  IN  IF hits = {} THEN {} ELSE {CHOOSE c \in tries[Min(hits)] : TRUE}
Connector(m) == CHOOSE c \in FindConnector(m) : TRUE

\* The mutual rows about the company, or about a visited profile of it, with their
\* connectors, oldest first.
VisitedIds(company) ==
  {c.id : c \in {d \in conns : d.strength = "visited" /\ MatchesCompany(d, company)}}
Connected(ns) ==
  LET order == InOrder({n \in ns : FindConnector(mutuals[n]) # {}}, LAMBDA m, n : m < n)
  IN  [i \in DOMAIN order |-> [target |-> mutuals[order[i]].targetName,
                               connector |-> Connector(mutuals[order[i]])]]
RealPaths(company) ==
  Connected({n \in DOMAIN mutuals :
               \/ mutuals[n].company # "" /\ CompaniesMatch(mutuals[n].company, company)
               \/ mutuals[n].target \in VisitedIds(company)})
\* The first path of each connector, without targets that are direct contacts.
PathKey(path) == IF FirstLast[path.connector.name] = "none" THEN path.connector.name
                 ELSE FirstLast[path.connector.name]
UniquePaths(paths, direct) ==
  {i \in DOMAIN paths : /\ \A j \in 1..i - 1 : PathKey(paths[j]) # PathKey(paths[i])
                        /\ paths[i].target # ""
                        /\ \A k \in DOMAIN direct : direct[k].name # paths[i].target}
\* The best connectors first.
Ordered(paths, kept, role) ==
  LET rank(i) == RankConnection(paths[i].connector, role)
  IN  Taken(paths, InOrder(kept, LAMBDA i, j : \/ rank(i) > rank(j)
                                               \/ rank(i) = rank(j) /\ i < j))
VerifiedPaths(paths, direct, role) == Ordered(paths, UniquePaths(paths, direct), role)

-----------------------------------------------------------------------------
\* The search: every query may fail; a profile is [name, url, title, hint, hits,
\* past, region, word], hits being the tokens of the company in its headline and
\* past whether only the snippet names the company, as a past employer.
Discover(company) ==
  IF company = "" \/ Company[company].hidden \/ ~ HasSearch THEN {<< >>}
  ELSE Found \cup {<< >>}

Recruiting(p) ==
  Says(p.title, {"recruit", "recruiter", "recruiting", "recruitment", "talent acquisition",
                 "talent partner", "headhunter", "head hunter", "human resources",
                 "hr partner", "people operations", "people partner", "staffing",
                 "executive search", "search consultant", "resourcing"})
Hiring(p) ==
  p.title \cap {"hiring manager", "head of", "chief", "vice president", "svp", "evp",
                "managing director", "country manager", "general manager",
                "business unit head", "vp ", "director"} # {}
CompanyScore(p, company) ==
  IF p.hint # "" /\ CompaniesMatch(p.hint, company) THEN 1000
  ELSE IF p.titled THEN 800
  ELSE IF p.hits >= (IF Company[company].single THEN 1 ELSE 2) THEN 600
  ELSE 0
RoleScore(p, role) ==
  (IF SameDomain(role, p.title) THEN 300 ELSE 0) + (IF p.word /\ role # {} THEN 200 ELSE 0)
\* What a profile scores before its degree, by component.
Components(p, company, role) ==
  [company |-> CompanyScore(p, company),
   recruiter |-> IF Recruiting(p) THEN 600 ELSE 0,
   hiring |-> IF Hiring(p) /\ ~ Recruiting(p) THEN 400 ELSE 0,
   role |-> RoleScore(p, role),
   seniority |-> 4 * DetectSeniority(p.title),
   region |-> IF Regions[company] # {} /\ p.region THEN 150 ELSE 0]
Total(k) == k.company + k.recruiter + k.hiring + k.role + k.seniority + k.region
Accepted(p, company) ==
  /\ ~ p.past /\ CompanyScore(p, company) > 0
  /\ Recruiting(p) \/ Hiring(p) \/ DetectSeniority(p.title) >= 45
  /\ \/ Regions[company] = {} \/ p.region
     \/ Recruiting(p) \/ DetectSeniority(p.title) >= 70

\* First degree is a trusted connection with the same profile; a name alone counts
\* only for a profile without a url.
Trusted(c) == c.strength \notin {"weak", "discovered", "visited"}
FirstDegree(p) ==
  {c \in conns : /\ Trusted(c)
                 /\ IF p.url # "" THEN c.url # "" /\ Slug[c.url] = Slug[p.url]
                    ELSE c.name = p.name}
\* Second degree is a mutual row about the profile whose connector is a connection.
SecondDegree(p) ==
  {n \in DOMAIN mutuals : /\ \/ mutuals[n].targetUrl # "" /\ p.url # ""
                                /\ Slug[mutuals[n].targetUrl] = Slug[p.url]
                             \/ mutuals[n].targetName = p.name
                             \/ /\ FirstLast[p.name] # "none"
                                /\ FirstLast[mutuals[n].targetName] = FirstLast[p.name]
                          /\ conns # {} /\ FindConnector(mutuals[n]) # {}}
Degree(p) ==
  IF FirstDegree(p) # {} THEN "1st" ELSE IF SecondDegree(p) # {} THEN "2nd" ELSE "none"
\* Mistake: both degrees weigh the same.
DegreeBonusFlat(degree) == IF degree = "none" THEN 0 ELSE 250
DegreeBonus(degree) == CASE degree = "1st" -> 500 [] degree = "2nd" -> 250 [] OTHER -> 0

\* The accepted profiles by their score with the degree; equal scores stay in the
\* order of the first ranking, that one in the order found.  The first five with a
\* name, each once; first and second degree come with a message.
Scored(raw, company, role) ==
  LET ok == {i \in DOMAIN raw : /\ Accepted(raw[i], company) /\ raw[i].name # ""
                                 /\ \A j \in 1..i - 1 : raw[j].url # raw[i].url}
      order == InOrder(ok, LAMBDA i, j : i < j)
      of(p) == [who |-> p, degree |-> Degree(p), parts |-> Components(p, company, role)]
  IN  [n \in DOMAIN order |-> of(raw[order[n]])]
Message(degree) ==
  CASE degree = "1st" -> "direct" [] degree = "2nd" -> "intro request" [] OTHER -> "none"
Base(k) == Total(k.parts)
Score(k) == Base(k) + DegreeBonus(k.degree)
\* Which place comes before which.
Leads(scored, i, j) ==
  LET k == scored[i]
      l == scored[j]
  IN  \/ Score(k) > Score(l)
      \/ Score(k) = Score(l) /\ Base(k) > Base(l)
      \/ Score(k) = Score(l) /\ Base(k) = Base(l) /\ i < j
Overlaid(scored) ==
  LET order == InOrder(DOMAIN scored, LAMBDA i, j : Leads(scored, i, j))
  IN  [n \in 1..Min({5, Len(scored)}) |->
         LET k == scored[order[n]]
         IN  [name |-> k.who.name, url |-> k.who.url, degree |-> k.degree,
              message |-> Message(k.degree), parts |-> k.parts]]

\* Fewer than three are topped up with the network's own people, up to five; a
\* visited profile has no degree, everyone else is called first degree.
Unlisted(pool, targets) ==
  LET new == {i \in DOMAIN pool : \A j \in DOMAIN targets :
                <<targets[j].name, targets[j].url>> # <<pool[i].name, pool[i].url>>}
  IN  Taken(pool, InOrder(new, LAMBDA i, j : i < j))
Fallback(people) ==
  [i \in DOMAIN people |->
     [name |-> people[i].name, url |-> people[i].url, message |-> "direct", parts |-> << >>,
      degree |-> IF people[i].strength = "visited" THEN "none" ELSE "1st"]]
FirstFive(list) == SubSeq(list, 1, Min({5, Len(list)}))
TopUp(targets, network) ==
  IF Len(targets) >= 3 THEN targets
  ELSE FirstFive(targets \o Fallback(Unlisted(
         network["direct"] \o network["recruiter"] \o network["visited"], targets)))

Reason(company, found, targets) ==
  IF Company[company].hidden THEN "undisclosed_company"
  ELSE IF ~ HasSearch THEN "no_search_api_key"
  ELSE IF found # << >> THEN "ok"
  ELSE IF targets # << >> THEN "fallback_network_only"
  ELSE "no_results"
Recommended(paths, network) ==
  IF paths # << >> THEN "introduction"
  ELSE IF network["direct"] # << >> THEN "message"
  ELSE IF network["visited"] # << >> THEN "reach out"
  ELSE "search"

AtRestAsking == [at |-> "idle", conn |-> "none", app |-> 0, found |-> {}, drafts |-> FALSE,
                 late |-> FALSE]
Answer(company, paths, network, found) ==
  LET targets == TopUp(found, network)
  IN  [paths |-> paths, targets |-> targets, reason |-> Reason(company, found, targets),
       recommended |-> Recommended(paths, network)]
\* The whole of it, for the company it resolves to; with an application its
\* introductions are identified next.
FindWayIn(p, q) ==
  /\ asking[p].at = "idle"
  /\ \E company \in {ResolveTargetCompany(q)} :
     \E network \in {Network(company, q.role)}, raw \in Discover(company) :
     \E paths \in {VerifiedPaths(RealPaths(company), network["direct"], q.role)},
        found \in {Overlaid(Scored(raw, company, q.role))} :
          answer' = Answer(company, paths, network, found)
  /\ asking' = IF q.app = 0 THEN asking
               ELSE [asking EXCEPT ![p] = [AtRestAsking EXCEPT !.at = "identify", !.app = q.app]]
  /\ UNCHANGED intros

-----------------------------------------------------------------------------
\* Introductions: one row for a connection and an application is found before one is
\* made; two are one too many for the query, which raises.
IntrosOf(id, app) == {r \in intros : r.conn = id /\ r.app = app}
\* Mistake: the application is compared with = also when there is none.
IntrosOfEqual(id, app) == {r \in intros : app # 0 /\ r.conn = id /\ r.app = app}
KnownIntros(id, app) == IntrosOf(id, app)
NewIntro(id, app, status, p) ==
  [key |-> Max({0} \cup {r.key : r \in intros}) + 1, conn |-> id, app |-> app, status |-> status,
   requested |-> FALSE, responded |-> FALSE, raced |-> asking[p].late]
Insert(p, rows) ==
  /\ intros' = intros \cup rows
  /\ asking' = [q \in Askers |-> IF q = p THEN AtRestAsking
                                ELSE [asking[q] EXCEPT !.late = @ \/ rows # {}]]

BeginRequestIntro(p, id, app) ==
  /\ asking[p].at = "idle" /\ \E c \in conns : c.id = id
  /\ Cardinality(KnownIntros(id, app)) <= 1
  /\ asking' = [asking EXCEPT ![p] =
       [at |-> "request", conn |-> id, app |-> app, late |-> FALSE,
        drafts |-> \E r \in KnownIntros(id, app) : r.status = "identified",
        found |-> {r.key : r \in KnownIntros(id, app)}]]
  /\ UNCHANGED <<answer, intros>>
\* A row read as identified becomes a draft, whatever it is by now; else only
\* the texts are written.
CommitRequestIntro(p) ==
  /\ asking[p].at = "request"
  /\ IF asking[p].found # {}
     THEN /\ intros' = {IF r.key \in asking[p].found /\ asking[p].drafts
                        THEN [r EXCEPT !.status = "outreach_drafted"] ELSE r : r \in intros}
          /\ asking' = [asking EXCEPT ![p] = AtRestAsking]
     ELSE /\ Cardinality(intros) < MaxIntros
          /\ Insert(p, {NewIntro(asking[p].conn, asking[p].app, "outreach_drafted", p)})
  /\ UNCHANGED answer

\* For every connection at the company of the application without a row, one row; a
\* connection with two makes the whole request fail.
Candidates(app) ==
  {c.id : c \in {d \in conns : /\ d.company # "" /\ ~ IsFormer(d.company)
                               /\ CompaniesMatch(d.company, Applications[app])}}
BeginIdentify(p, app) ==
  /\ asking[p].at = "idle" /\ app # 0
  /\ asking' = [asking EXCEPT ![p] = [AtRestAsking EXCEPT !.at = "identify", !.app = app]]
  /\ UNCHANGED <<answer, intros>>
Identify(p) ==
  LET app == asking[p].app
  IN  /\ asking[p].at = "identify"
      /\ asking' = [asking EXCEPT ![p] =
           IF \E id \in Candidates(app) : Cardinality(KnownIntros(id, app)) > 1 THEN AtRestAsking
           ELSE [AtRestAsking EXCEPT !.at = "identified", !.app = app,
                   !.found = {id \in Candidates(app) : KnownIntros(id, app) = {}}]]
      /\ UNCHANGED <<answer, intros>>
CommitIdentify(p) ==
  /\ asking[p].at = "identified" /\ Cardinality(intros) + Cardinality(asking[p].found) <= MaxIntros
  /\ \E order \in SetToSeqs(asking[p].found) :
       LET last == Max({0} \cup {r.key : r \in intros})
       IN  Insert(p, {[NewIntro(order[i], asking[p].app, "identified", p) EXCEPT !.key = last + i] :
                        i \in DOMAIN order})
  /\ UNCHANGED answer

\* Any status may follow any; the two dates are those of the first time.
UpdateIntroStatus(key, status) ==
  /\ \E r \in intros : r.key = key
  /\ intros' = {IF r.key = key
                THEN [r EXCEPT !.status = status, !.requested = @ \/ status = "requested",
                               !.responded = @ \/ status \in {"introduced", "declined"}]
                ELSE r : r \in intros}
  /\ UNCHANGED <<answer, asking>>

-----------------------------------------------------------------------------
NoAnswer == [paths |-> << >>, targets |-> << >>, reason |-> "none", recommended |-> "none"]
WayInInit ==
  /\ answer = NoAnswer /\ intros = {} /\ asking = [p \in Askers |-> AtRestAsking]

IntroNext ==
  \/ \E p \in Askers :
       \/ \E id \in {c.id : c \in conns}, app \in 0..Len(Applications) : BeginRequestIntro(p, id, app)
       \/ CommitRequestIntro(p)
       \/ \E app \in DOMAIN Applications : BeginIdentify(p, app)
       \/ Identify(p) \/ CommitIdentify(p)
  \/ \E r \in intros, status \in {"requested", "introduced"} : UpdateIntroStatus(r.key, status)
WayInNext ==
  \/ IntroNext /\ UNCHANGED peopleVars
  \/ (\E p \in Askers, q \in Queries : FindWayIn(p, q)) /\ UNCHANGED peopleVars
  \/ PeopleNext /\ UNCHANGED wayInVars

WayInSpec == NetworkInit /\ WayInInit /\ [][WayInNext]_<<peopleVars, wayInVars>>

-----------------------------------------------------------------------------
\* A connection has two introductions for one application only when one of them was
\* inserted by a request that had looked before the other was there
\* (relationship_engine.py:2203; warm_intros has no unique constraint, and with two
\* rows scalar_one_or_none raises in every later request).
DuplicateIntroNeedsOverlap ==
  \A r, s \in intros :
    r.key # s.key /\ r.conn = s.conn /\ r.app = s.app => r.raced \/ s.raced

\* Among the people discovered, a connection of the user stands before a stranger
\* who beats it by the function or by the seniority alone (relationship_engine.py,
\* _wayin_overlay_network: "it must rank above unlabeled candidates even when they
\* have a slightly stronger function/seniority signal").
FirstDegreeLeads ==
  \A i, j \in DOMAIN answer.targets :
    LET a == answer.targets[i]
        b == answer.targets[j]
    IN  /\ a.parts # << >> /\ b.parts # << >>
        /\ a.degree = "none" /\ b.degree = "1st"
        /\ \A k \in {"company", "recruiter", "hiring", "region"} : a.parts[k] = b.parts[k]
        /\ \/ a.parts.role = b.parts.role
           \/ a.parts.seniority = b.parts.seniority /\ a.parts.role - b.parts.role <= 300
        => j < i
=============================================================================
