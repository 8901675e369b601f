------------------------------ MODULE MCAccounts ------------------------------
(* Model checking of what surrounds an account: its sessions, the           *)
(* verification of its WhatsApp number, the limiter in front of the routes, *)
(* the wipe of its data, its LinkedIn inbox and network, and the            *)
(* introductions asked of it.  A behaviour exercises one of them.           *)
EXTENDS Sessions, WhatsAppOtp, RateLimiter, UserWipe, WayIn, TLC

VARIABLE side   \* the component this behaviour exercises

accountVars == <<side, sessionVars, otpVars, limitVars, wipeVars, networkVars, wayInVars>>

-----------------------------------------------------------------------------
\* Two companies with a name in common, one hidden, one former.
Brand(norm, parts, single) ==
  [norm |-> norm, parts |-> parts, long |-> TRUE, first |-> norm, brand |-> TRUE,
   single |-> single, former |-> FALSE, hidden |-> FALSE]
MCCompany ==
  ("" :> Brand("", {}, FALSE)) @@ ("careem" :> Brand("careem", {}, TRUE))
  @@ ("careem networks" :> [Brand("careem networks", {"careem"}, FALSE) EXCEPT !.first = "careem"])
  @@ ("ex-careem" :> [Brand("careem", {}, TRUE) EXCEPT !.former = TRUE])
  @@ ("bank" :> [Brand("bank", {}, TRUE) EXCEPT !.long = FALSE, !.brand = FALSE])
  @@ ("undisclosed" :> [Brand("undisclosed", {}, TRUE) EXCEPT !.hidden = TRUE])
MCInner == {<<"cto", "director">>, <<"president", "vice president">>, <<"director", "managing director">>}
MCRegions == [c \in DOMAIN MCCompany |-> IF c = "careem networks" THEN {"uae"} ELSE {}]
NoSays == [headline |-> << >>, at |-> ""]
Person(id, name, company, title, strength) ==
  [id |-> id, name |-> name, url |-> id, company |-> company, title |-> title,
   strength |-> strength, says |-> NoSays]
Omar == Person("omar", "omar k", "careem", {"manager"}, "medium")
Sara == Person("sara", "sara l", "careem networks", {"recruiter"}, "medium")
Zoe == Person("zoe", "zoe m", "ex-careem", {"director"}, "medium")
Vic == [Person("vic", "vic n", "", {"ceo"}, "visited") EXCEPT
          !.says = [headline |-> <<[company |-> "careem", former |-> FALSE]>>, at |-> ""]]
At == [Person("at", "omar b k", "", {"developer"}, "weak") EXCEPT
          !.url = "", !.says = [headline |-> << >>, at |-> "careem"]]
MCImports ==
  {<<Omar>>, <<Sara, Vic, Sara>>, <<[Omar EXCEPT !.company = "too long"], Sara>>,
   <<[Person("none", "x", "", {}, "medium") EXCEPT !.url = ""], Zoe, At>>}
MCWithin == {<<"careem", "careem">>, <<"careem", "careem networks">>, <<"careem", "ex-careem">>}
MCFirstLast ==
  [n \in {"omar k", "omar b k", "sara l", "zoe m", "vic n", "lee", "nadia p", "ali q", "x", ""} |->
     CASE n \in {"omar k", "omar b k"} -> "omar k" [] n \in {"lee", "x", ""} -> "none" [] OTHER -> n]
MCApplications == <<"careem">>
MCNamePrefix == {<<"lee", "lee m">>}
MCSlug == [u \in {"omar", "sara", "zoe", "vic", "lee", "nadia", "ali", "ghost"} |-> u]
Mutual(id, name, url) == [id |-> id, name |-> name, url |-> url]
MCScrapes ==
  {[target |-> "nadia", name |-> "nadia p", url |-> "nadia", company |-> "careem",
    mutuals |-> <<Mutual("", "omar b k", ""), Mutual("sara", "sara l", "sara"), Mutual("", "omar b k", "")>>],
   [target |-> "vic", name |-> "vic n", url |-> "vic", company |-> "",
    mutuals |-> <<Mutual("ghost", "lee", ""), Mutual("", "", "")>>]}
MCNetworkScans ==
  {[url |-> "omar", name |-> "omar k", company |-> "careem",
    matches |-> <<[name |-> "ali q", url |-> "ali"]>>]}
Profile(name, url, title, hint) ==
  [name |-> name, url |-> url, title |-> title, hint |-> hint, titled |-> FALSE, hits |-> 0,
   past |-> FALSE, region |-> FALSE, word |-> FALSE]
MCFound ==
  {<<Profile("nadia p", "nadia", {"vice president"}, "careem"),
     Profile("omar k", "omar", {"manager"}, "careem"),
     Profile("ali q", "ali", {"manager", "strategy"}, "careem"),
     Profile("omar k", "ghost", {"recruiter"}, "careem"),
     Profile("lee", "lee", {"developer"}, "careem")>>,
   <<[Profile("lee", "lee", {"director"}, "") EXCEPT !.past = TRUE],
     [Profile("zoe m", "zoe", {"ceo"}, "") EXCEPT !.hits = 1, !.word = TRUE]>>,
   <<Profile("ali q", "ali", {"vice president"}, "careem"),
     Profile("sara l", "sara", {"director"}, "careem")>>}
Ask(company, role, app) == [company |-> company, role |-> role, app |-> app, brands |-> << >>]
MCQueries ==
  {Ask("careem", {"strategy"}, 0), Ask("careem networks", {"manager"}, 1),
   [Ask("undisclosed", {}, 0) EXCEPT
      !.brands = <<[name |-> "bank", short |-> FALSE, plausible |-> FALSE],
                   [name |-> "careem", short |-> TRUE, plausible |-> TRUE]>>],
   Ask("undisclosed", {}, 0)}

-----------------------------------------------------------------------------
\* One thread under both forms of its urn, and another thread.
MCThread == ("thread:1" :> "1") @@ ("urn:1" :> "1") @@ ("urn:2" :> "2")
Conversation(urn, count, at, title) ==
  [urn |-> urn, contact |-> "sara", title |-> title, about |-> FALSE, count |-> count,
   named |-> TRUE, at |-> at]
MCSyncs ==
  {<<Conversation("thread:1", 2, 1, {"recruiter"})>>, <<Conversation("urn:1", 1, 2, {})>>,
   <<Conversation("urn:1", 3, 2, {}), Conversation("urn:2", 1, 1, {})>>,
   <<Conversation("thread:1", 3, 0, {})>>}
MCTalks == {[thread |-> "1", id |-> "omar"]}

-----------------------------------------------------------------------------
AccountInit ==
  /\ side \in {"sessions", "whatsapp", "limiter", "wipe", "people", "intros", "inbox", "talk"}
  /\ SessionInit /\ OtpInit /\ LimitInit /\ NetworkInit /\ WayInInit
  /\ WipeInit /\ (side # "wipe" => rows = {})

BaseVars == <<sessionVars, otpVars, limitVars, wipeVars>>
AccountNext ==
  /\ UNCHANGED side
  /\ \/ side = "sessions" /\ SessionNext
        /\ UNCHANGED <<otpVars, limitVars, wipeVars, networkVars, wayInVars>>
     \/ side = "whatsapp" /\ OtpNext
        /\ UNCHANGED <<sessionVars, limitVars, wipeVars, networkVars, wayInVars>>
     \/ side = "limiter" /\ LimitNext
        /\ UNCHANGED <<sessionVars, otpVars, wipeVars, networkVars, wayInVars>>
     \/ side = "wipe" /\ WipeNext
        /\ UNCHANGED <<sessionVars, otpVars, limitVars, networkVars, wayInVars>>
     \/ side = "people" /\ UNCHANGED <<BaseVars, talk, inboxVars, saved>>
        /\ \/ PeopleNext /\ Len(mutuals') <= 3 /\ answer' = NoAnswer /\ UNCHANGED introVars
           \/ \E p \in Askers, q \in {q \in MCQueries : q.app = 0} :
                FindWayIn(p, q) /\ UNCHANGED peopleVars
     \/ side = "intros" /\ UNCHANGED <<BaseVars, mutuals, talk, inboxVars, saved>>
        /\ \/ Cardinality(conns) < 2 /\ (\E batch \in {<<Omar>>, <<Omar, Sara>>} : ImportConnections(batch))
              /\ UNCHANGED wayInVars
           \/ IntroNext /\ UNCHANGED conns
           \/ (\E p \in Askers, q \in {q \in MCQueries : q.app # 0} : FindWayIn(p, q))
              /\ answer'.reason # "ok" /\ UNCHANGED conns
     \/ side = "inbox" /\ InboxNext
        /\ UNCHANGED <<BaseVars, peopleVars, talk, saved, wayInVars>>
     \/ side = "talk" /\ UNCHANGED <<BaseVars, mutuals, inboxVars, wayInVars>>
        /\ \/ conns = {} /\ ImportConnections(<<Omar>>) /\ UNCHANGED <<talk, saved>>
           \/ TalkNext /\ UNCHANGED conns

AccountSymmetry == Permutations(Devices) \cup Permutations(Numbers)
                     \cup Permutations(Cleaners) \cup Permutations(Askers)

AccountSpec == AccountInit /\ [][AccountNext]_accountVars
=============================================================================
