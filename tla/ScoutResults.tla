----------------------------- MODULE ScoutResults -----------------------------
(* What is kept of a user's market scans (table scout_results) and the      *)
(* WhatsApp alerts they cause: GET /scout/signals with its cache of thirty  *)
(* minutes, the daily scan, and the task send_realtime_wa_alert with its    *)
(* throttle in Redis.  Saved jobs too, and the searches of                  *)
(* api/routes/scout.py that keep nothing.  One user.                        *)
EXTENDS FiniteSets, Integers, Sequences, SequencesExt

CONSTANTS Scanners,      \* requests, and the daily task
          Daily,         \* the one of them that is the daily task
          AlertTasks,    \* bound: alert messages
          Jobs,          \* external ids of vacancies
          Scans,         \* what the engine may return: [demo, by]
          MaxRows,       \* bound: rows of scout_results
          CacheTtl,      \* ticks a row is served, thirty minutes in the code
          Throttle,      \* ticks between two alerts, two hours in the code
          Pages          \* what one query may find, as a sequence of listings

ASSUME ThrottleAssumption == Throttle \in Nat

VARIABLES results,    \* scout_results, oldest first
          scanner,    \* the scans under way
          response,   \* the last answer of GET /scout/signals
          alert,      \* the alert messages
          throttle,   \* ticks left of the key in Redis
          prefs,      \* alert mode of the user
          last,       \* history: ticks since the last alert of the task, and
                      \*   whether it was noted in Redis
          saved,      \* saved_jobs
          saving,     \* saves under way
          asked,      \* queries answered so far, each by the page it found
          listed      \* the answer of the routes that search

resultVars == <<results, scanner, response, alert, throttle, prefs, last,
                saved, saving>>
searchVars == <<asked, listed>>

NoResponse == [cached |-> FALSE, demo |-> FALSE, real |-> TRUE]
Resting == [at |-> "idle", seen |-> 0]
\* Blind: Redis could not be asked.  Late: an alert was noted since it was asked.
Message(at, blind) == [at |-> at, blind |-> blind, late |-> FALSE]

ResultsInit ==
  /\ results = <<>> /\ scanner = [r \in Scanners |-> Resting] /\ response = NoResponse
  /\ alert = [t \in AlertTasks |-> Message("none", FALSE)] /\ throttle = 0
  /\ prefs \in {"OFF", "CASUAL"}
  /\ last = [since |-> Throttle, noted |-> TRUE]
  /\ saved = {} /\ saving = {}

-----------------------------------------------------------------------------
\* The newest row that is not stale and not too old, whatever the region, the
\* sectors and the roles it was made for and this request asks for.
Current == {i \in DOMAIN results : ~ results[i].stale}
Cached == {i \in Current : results[i].age < CacheTtl}
Newest(S) == CHOOSE i \in S : \A j \in S : j <= i

\* A row is taken for a demonstration by the name of its scorer.
SaysDemo(row) == row.by \in {"mock", "demo", ""}

GetSignals(r) ==
  /\ r # Daily /\ scanner[r].at = "idle"
  /\ IF Cached = {}
     THEN /\ scanner' = [scanner EXCEPT ![r].at = "scanning"]
          /\ UNCHANGED response
     ELSE /\ LET row == results[Newest(Cached)] IN
               response' = [cached |-> TRUE, demo |-> SaysDemo(row), real |-> ~ row.demo]
          /\ UNCHANGED scanner
  /\ UNCHANGED <<results, alert, throttle, prefs, last, saved, saving>>

\* Marking the rows committed so far stale and inserting the new one is one
\* transaction: what another transaction inserts meanwhile stays current.
Persisted(row, seen) ==
  [i \in 1..Len(results) + 1 |->
     IF i = Len(results) + 1 THEN row
     ELSE IF i <= seen THEN [results[i] EXCEPT !.stale = TRUE] ELSE results[i]]

\* The scan is over: the UPDATE that marks the rows it sees stale.
MarkStale(r) ==
  /\ scanner[r].at = "scanning"
  /\ scanner' = [scanner EXCEPT ![r] = [at |-> "persisting", seen |-> Len(results)]]
  /\ UNCHANGED <<results, response, alert, throttle, prefs, last, saved, saving>>

\* What the engine returns (module SignalEngine), kept as a new row.
Kept(scan) == [stale |-> FALSE, age |-> 0, demo |-> scan.demo, by |-> scan.by]

\* The message to the alert task is sent after the commit; a broker that
\* refuses it is only logged.
Dispatch(scan) ==
  \/ UNCHANGED alert
  \/ /\ ~ scan.demo
     /\ \E t \in AlertTasks :
          /\ alert[t].at = "none"
          /\ alert' = [alert EXCEPT ![t].at = "queued"]

\* The rest of get_signals: the result is kept (or that failed), an alert is
\* dispatched and the request answers.
FinishSignals(r) ==
  /\ r # Daily /\ scanner[r].at = "persisting" /\ Len(results) < MaxRows
  /\ \E scan \in Scans :
       /\ results' = Persisted(Kept(scan), scanner[r].seen) \/ UNCHANGED results
       /\ Dispatch(scan)
       /\ response' = [cached |-> FALSE, demo |-> scan.demo, real |-> ~ scan.demo]
  /\ scanner' = [scanner EXCEPT ![r] = Resting]
  /\ UNCHANGED <<throttle, prefs, last, saved, saving>>

-----------------------------------------------------------------------------
\* daily_scout_scan for this user.
DailyScoutScan ==
  /\ scanner[Daily].at = "idle"
  /\ scanner' = [scanner EXCEPT ![Daily].at = "scanning"]
  /\ UNCHANGED <<results, response, alert, throttle, prefs, last, saved, saving>>

\* A demonstration is not kept.  The alerts that follow never ask for the
\* throttle of the task below, and leave nothing behind.
StoreDailyScan ==
  /\ scanner[Daily].at = "persisting" /\ Len(results) < MaxRows
  /\ \E scan \in Scans :
       results' = IF scan.demo THEN results ELSE Persisted(Kept(scan), scanner[Daily].seen)
  /\ scanner' = [scanner EXCEPT ![Daily] = Resting]
  /\ UNCHANGED <<response, alert, throttle, prefs, last, saved, saving>>

-----------------------------------------------------------------------------
\* send_realtime_wa_alert looks at the throttle (or cannot) ...
CheckThrottle(t) ==
  /\ alert[t].at = "queued"
  /\ \E down \in BOOLEAN :
       alert' = [alert EXCEPT ![t] =
         IF prefs = "OFF" \/ (~ down /\ throttle > 0) THEN Message("done", FALSE)
         ELSE Message("checked", down)]
  /\ UNCHANGED <<results, scanner, response, throttle, prefs, last, saved, saving>>

\* ... sends (Twilio may refuse: the task is over) ...
SendAlert(t) ==
  /\ alert[t].at = "checked"
  /\ alert' = [alert EXCEPT ![t].at = "sent"]
  /\ last' = [since |-> 0, noted |-> FALSE]
  /\ UNCHANGED <<results, scanner, response, throttle, prefs, saved, saving>>

AlertRefused(t) ==
  /\ alert[t].at = "checked"
  /\ alert' = [alert EXCEPT ![t].at = "done"]
  /\ UNCHANGED <<results, scanner, response, throttle, prefs, last, saved, saving>>

\* Mistake: the alert is not noted.
NoteAlertNowhere(t) ==
  /\ alert[t].at = "sent"
  /\ last' = [last EXCEPT !.noted = ~ alert[t].blind]
  /\ alert' = [u \in AlertTasks |->
        IF u = t THEN Message("done", FALSE)
        ELSE IF alert[u].at = "checked" THEN [alert[u] EXCEPT !.late = TRUE]
        ELSE alert[u]]
  /\ UNCHANGED <<results, scanner, response, throttle, prefs, saved, saving>>

\* ... and notes it in Redis, unless that fails.  The tasks that have looked
\* already do not see it.
NoteAlert(t) ==
  /\ alert[t].at = "sent"
  /\ \/ /\ throttle' = IF alert[t].blind THEN throttle ELSE Throttle
        /\ last' = [last EXCEPT !.noted = ~ alert[t].blind]
     \/ UNCHANGED <<throttle, last>>
  /\ alert' = [u \in AlertTasks |->
        IF u = t THEN Message("done", FALSE)
        ELSE IF alert[u].at = "checked" THEN [alert[u] EXCEPT !.late = TRUE]
        ELSE alert[u]]
  /\ UNCHANGED <<results, scanner, response, prefs, saved, saving>>

\* The worker is lost: the message comes back.
AlertRedelivered(t) ==
  /\ alert[t].at \in {"checked", "sent"}
  /\ alert' = [alert EXCEPT ![t] = Message("queued", FALSE)]
  /\ UNCHANGED <<results, scanner, response, throttle, prefs, last, saved, saving>>

-----------------------------------------------------------------------------
\* save_job: the duplicate check, then the insert, which the unique constraint
\* refuses to the slower of two.
CheckSaved(r, j) ==
  /\ r # Daily /\ j \notin saved /\ ~ \E s \in saving : s[1] = r
  /\ saving' = saving \cup {<<r, j>>}
  /\ UNCHANGED <<results, scanner, response, alert, throttle, prefs, last, saved>>
SaveJob(r, j) ==
  /\ <<r, j>> \in saving
  /\ saving' = saving \ {<<r, j>>} /\ saved' = saved \cup {j}
  /\ UNCHANGED <<results, scanner, response, alert, throttle, prefs, last>>
UnsaveJob(j) ==
  /\ j \in saved /\ saved' = saved \ {j}
  /\ UNCHANGED <<results, scanner, response, alert, throttle, prefs, last, saving>>

Tick ==
  /\ results' = [i \in DOMAIN results |->
        [results[i] EXCEPT !.age = IF @ < CacheTtl THEN @ + 1 ELSE @]]
  /\ throttle' = IF throttle > 0 THEN throttle - 1 ELSE 0
  /\ last' = [last EXCEPT !.since = IF @ < Throttle THEN @ + 1 ELSE @]
  /\ UNCHANGED <<scanner, response, alert, prefs, saved, saving>>

SavesNext ==
  \/ \E r \in Scanners, j \in Jobs : CheckSaved(r, j) \/ SaveJob(r, j)
  \/ \E j \in Jobs : UnsaveJob(j)

ScanNext ==
  \/ \E r \in Scanners : GetSignals(r) \/ MarkStale(r) \/ FinishSignals(r)
  \/ DailyScoutScan \/ StoreDailyScan
  \/ \E t \in AlertTasks : CheckThrottle(t) \/ SendAlert(t) \/ AlertRefused(t)
                           \/ NoteAlert(t) \/ AlertRedelivered(t)
  \/ Tick

ResultsSpec == ResultsInit /\ [][ScanNext \/ SavesNext]_resultVars

-----------------------------------------------------------------------------
(* The searches: vacancies with a match score, freelance work, the older job *)
(* job search over three sources.  A query may fail: the others go on.      *)

\* A listing: its link, what it is, and what of it counts for the score.
Advert == [id : Nat, kind : {"posting", "guide"}, closed : BOOLEAN, old : BOOLEAN,
           company : STRING, roleHits : Nat, sectorHits : Nat, regionHits : Nat,
           sourceBonus : 0..5, fresh : BOOLEAN, letters : Nat, priority : Nat]
ASSUME PagesAssumption == Pages \subseteq Seq(Advert)

Least(a, b) == IF a <= b THEN a ELSE b
Most(a, b) == IF a <= b THEN b ELSE a

\* Places in an order: the one that comes n-th has so many up to it.
InOrder(S, Before(_, _)) ==
  [n \in 1..Cardinality(S) |->
     CHOOSE i \in S : Cardinality({j \in S : j = i \/ Before(j, i)}) = n]

\* The places of S in a list, first to last, and what is there.
Picked(list, S) ==
  LET order == InOrder(S, LAMBDA i, j : i < j) IN [n \in DOMAIN order |-> list[order[n]]]

\* The listings that are the first with their link.
Firsts(list) == Picked(list, {i \in DOMAIN list : \A j \in 1..i - 1 : list[j].id # list[i].id})

\* A listing that can be acted on: one posting, open, recent, of a company.
Actionable(v) == v.kind = "posting" /\ ~ v.closed /\ ~ v.old /\ v.company # "none"
Vacancies(found) ==
  LET firsts == Firsts(found) IN Picked(firsts, {i \in DOMAIN firsts : Actionable(firsts[i])})

\* Mistake: the sum of the letters is not reduced.
CompanyVariationWhole(letters) == letters - 5
\* A variation by company, so that scores "look natural".
CompanyVariation(letters) == (letters % 11) - 5

\* Role hits count two in the title and one elsewhere.
MatchScore(v) ==
  Most(25, Least(98,
    50 + Least(8 * v.roleHits, 30) + Least(5 * v.sectorHits, 15)
       + Least(3 * v.regionHits, 9) + v.sourceBonus + (IF v.fresh THEN 5 ELSE 0)
       + (IF v.roleHits = 0 THEN -15 ELSE 0) + CompanyVariation(v.letters)))

\* By score, then by source; what is equal stays in the order found.
RanksBefore(list, i, j) ==
  LET v == list[i]  w == list[j] IN
  \/ MatchScore(v) > MatchScore(w)
  \/ MatchScore(v) = MatchScore(w) /\ (v.priority < w.priority \/ (v.priority = w.priority /\ i < j))
Ranked(list) ==
  LET order == InOrder(DOMAIN list, LAMBDA i, j : RanksBefore(list, i, j))
  IN  [n \in DOMAIN order |-> list[order[n]]]

\* Freelance work is told apart by the start of its title and ranked by platform.
Freelance(found) ==
  LET gigs == Firsts(Picked(found, {i \in DOMAIN found : found[i].kind # "guide"}))
      order == InOrder(DOMAIN gigs, LAMBDA i, j :
                 \/ gigs[i].priority < gigs[j].priority
                 \/ gigs[i].priority = gigs[j].priority /\ i < j)
  IN  [n \in DOMAIN order |-> gigs[order[n]]]

\* Two sources, the web when they find too little, a demonstration when nothing.
ScoutJobs(adzuna, jsearch, serper) ==
  LET boards == Firsts(adzuna \o jsearch)
      all == IF Len(boards) < 8 THEN Firsts(boards \o serper) ELSE boards
  IN [demo |-> all = <<>>, jobs |-> SubSeq(all, 1, Least(24, Len(all)))]

NotListed == [done |-> FALSE]
SearchInit == asked = <<>> /\ listed = NotListed

\* One query of the route; a failure finds nothing.
Query ==
  /\ ~ listed.done /\ Len(asked) < 2
  /\ \E p \in Pages \cup {<<>>} : asked' = Append(asked, p)
  /\ UNCHANGED listed

CurrentVacancies ==
  /\ ~ listed.done /\ Len(asked) = 2
  /\ LET found == asked[1] \o asked[2] IN
       listed' = [done |-> TRUE, vacancies |-> Ranked(Vacancies(found)),
                  freelance |-> Freelance(found),
                  jobs |-> ScoutJobs(asked[1], asked[2], asked[1])]
  /\ UNCHANGED asked

SearchNext == Query \/ CurrentVacancies

SearchSpec == SearchInit /\ [][SearchNext]_searchVars

-----------------------------------------------------------------------------
\* Two alerts of the task within two hours ("only send if no alert sent in the
\* last 2 hours", scout_scan.py:224) need a task that had looked before the
\* first was noted, or could not look, or a first that was never noted.
AlertsAreSpaced ==
  [][\A t \in AlertTasks :
       alert[t].at = "checked" /\ alert'[t].at = "sent" =>
         last.since = Throttle \/ ~ last.noted \/ alert[t].blind \/ alert[t].late]_resultVars

\* What is served from the cache says of itself whether it is a demonstration,
\* as the answer that was cached did (routes/scout.py:201).
CachedDemoIsDemo == response.demo <=> ~ response.real

\* The variation by company is noise only: of two vacancies alike in all but
\* the company, the one with the user's role in its title is listed above the
\* one without (routes/scout.py:862-912).
RoleOutranksNoise ==
  listed.done => \A i, j \in DOMAIN listed.vacancies :
    LET v == listed.vacancies[i]  w == listed.vacancies[j] IN
    (/\ v.roleHits >= 2 /\ w.roleHits = 0
     /\ <<v.sectorHits, v.regionHits, v.sourceBonus, v.fresh>>
          = <<w.sectorHits, w.regionHits, w.sourceBonus, w.fresh>>) => i < j
=============================================================================
