--------------------------- MODULE LinkedInNetwork ---------------------------
(* The LinkedIn data of one user (services/linkedin/linkedin_service.py and *)
(* api/routes/linkedin.py): the connections the extension or a CSV export   *)
(* pushes, the mutual connections it scrapes, the message threads it syncs  *)
(* with their clean-up, the imported conversations and the jobs it saves.   *)
(* A title is the set of the words and phrases in it; names are taken       *)
(* modulo case.                                                             *)
EXTENDS FiniteSets, Integers, Sequences, SequencesExt, FiniteSetsExt

CONSTANTS Imports,     \* what may be pushed: sequences of connections
          Inner,       \* pairs <<k, w>>: keyword k is inside the word w of a title
          TooLong,     \* companies the column cannot hold
          Within,      \* pairs <<a, b>> of companies: b contains a
          Applications,\* the applications of the user: a sequence of companies
          Scrapes,     \* scraped profiles: [target, name, company, mutuals]
          NetworkScans,\* scans of a connector: [url, name, company, matches]
          Slug,        \* profile url |-> the part after /in/
          FirstLast,   \* name |-> its first and last words, "none" for a single word
          Syncs,       \* sequences of scraped threads
          Thread,      \* conversation urn |-> the urn without its known wrappers
          Talks,       \* imported messages: [thread, id]
          Postings,    \* external ids of the postings the extension saves
          Cleaners,    \* requests that clean the threads up
          MaxThreads   \* bound: rows of linkedin_messages ever made

ASSUME SyncsAssumption ==
  \A list \in Syncs : list \in Seq({list[i] : i \in DOMAIN list})
ASSUME ImportsAssumption ==
  \A list \in Imports : list \in Seq({list[i] : i \in DOMAIN list})

VARIABLES conns,     \* linkedin_connections
          mutuals,   \* mutual_connections, oldest first
          talk,      \* linkedin_conversations
          threads,   \* linkedin_messages
          cleaning,  \* the clean-ups under way
          inbox,     \* dedup_done of this server process, and history: the threads
                     \*   ever synced, those a clean-up removed while another one
                     \*   had removed rows since its read, and the last row's key
          saved      \* saved_jobs of source linkedin

peopleVars == <<conns, mutuals>>
inboxVars == <<threads, cleaning, inbox>>
networkVars == <<peopleVars, talk, inboxVars, saved>>

-----------------------------------------------------------------------------
\* Titles.
RecruiterTitles ==
  {"recruiter", "recruiting", "talent acquisition", "talent partner", "talent scout",
   "sourcer", "sourcing", "staffing", "hr partner", "human resources",
   "people operations", "employer brand", "recruitment", "headhunter"}
HiringTitles ==
  {"director", "head of", "vp ", "vice president", "senior director", "chief", "ceo",
   "cto", "coo", "cfo", "cmo", "managing director", "general manager", "partner",
   "principal", "engineering manager", "product manager", "design manager",
   "senior manager", "group manager", "staff manager"}
\* The keywords are looked for as substrings.
Says(title, keywords) ==
  \E k \in keywords : k \in title \/ \E w \in title : <<k, w>> \in Inner
IsRecruiter(title) == Says(title, RecruiterTitles)
IsHiringManager(title) == ~ IsRecruiter(title) /\ Says(title, HiringTitles)

-----------------------------------------------------------------------------
\* Connections.  An entry without an id and a url is skipped; the last entry of an
\* id in a batch counts.
KeptOf(batch) ==
  {batch[i] : i \in {i \in DOMAIN batch : /\ batch[i].id # "none"
                                          /\ \A j \in i + 1..Len(batch) : batch[j].id # batch[i].id}}
\* An insert; a conflict leaves the strength and the matched application alone.
Upsert(e) ==
  LET old == {c \in conns : c.id = e.id}
      row == [id |-> e.id, name |-> e.name, url |-> e.url, company |-> e.company,
              title |-> e.title, says |-> e.says, recruiter |-> IsRecruiter(e.title),
              manager |-> IsHiringManager(e.title), strength |-> e.strength, app |-> 0]
  IN  IF old = {} THEN row
      ELSE LET c == CHOOSE c \in old : TRUE
           IN [row EXCEPT !.strength = c.strength, !.app = c.app]
\* Unmatched connections get the first application whose company theirs contains.
AutoMatch(rows) ==
  LET apps(c) == {i \in DOMAIN Applications : <<Applications[i], c.company>> \in Within}
  IN  {IF c.app = 0 /\ c.company # "" /\ apps(c) # {} THEN [c EXCEPT !.app = Min(apps(c))]
       ELSE c : c \in rows}
\* An entry the database refuses aborts the transaction: nothing of the batch is
\* stored, though the entries before it were counted.
ImportConnections(batch) ==
  LET kept == KeptOf(batch)
      stored == IF \E e \in kept : e.company \in TooLong THEN conns
                ELSE {c \in conns : \A e \in kept : e.id # c.id} \cup {Upsert(e) : e \in kept}
  IN  conns' = AutoMatch(stored)
\* A CSV has no strength: every row of it is an entry of strength medium.
ImportCsv(batch) ==
  /\ batch # << >> /\ \A i \in DOMAIN batch : batch[i].strength = "medium"
  /\ ImportConnections(batch)
CompanyIntel(company) ==
  [connections |-> Cardinality({c \in conns : <<company, c.company>> \in Within}), signals |-> 0]

-----------------------------------------------------------------------------
\* Mutual connections: of a name, the connection with its url, its slug, its id as a
\* slug, its name, or its first and last words; which one, of several, is the order
\* of an unordered SELECT.
Resolve(m) ==
  LET tries == <<{c \in conns : m.url # "" /\ c.url = m.url},
                 {c \in conns : m.url # "" /\ c.url # "" /\ Slug[c.url] = Slug[m.url]},
                 {c \in conns : m.id # "" /\ c.url # "" /\ Slug[c.url] = m.id},
                 {c \in conns : c.name = m.name},
                 {c \in conns : FirstLast[m.name] # "none" /\ FirstLast[c.name] = FirstLast[m.name]}>>
      hits == {i \in DOMAIN tries : tries[i] # {}}
  IN  IF hits = {} THEN {} ELSE {CHOOSE c \in tries[Min(hits)] : TRUE}
ResolvedId(m) ==
  IF Resolve(m) # {} THEN (CHOOSE c \in Resolve(m) : TRUE).id
  ELSE IF m.id # "" THEN m.id ELSE m.name
TargetCompany(scrape) ==
  LET own == {c \in conns : c.id = scrape.target}
  IN  IF scrape.company # "" \/ own = {} THEN scrape.company ELSE (CHOOSE c \in own : TRUE).company

\* Only the rows that were there before the request are seen by its queries; a row
\* found by its id or its name is pointed at the connection it resolves to.
StoreMutuals(scrape) ==
  LET list == scrape.mutuals
      new(i) == /\ list[i].name # ""
                /\ \A j \in 1..i - 1 : <<ResolvedId(list[j]), list[j].name>>
                                         # <<ResolvedId(list[i]), list[i].name>>
      rows(m) == {n \in DOMAIN mutuals : /\ mutuals[n].target = scrape.target
                                         /\ \/ mutuals[n].mutual = ResolvedId(m)
                                            \/ mutuals[n].name = m.name}
      fresh == SetToSortSeq({i \in DOMAIN list : new(i) /\ rows(list[i]) = {}}, <)
      repoint(n) == {i \in DOMAIN list : /\ new(i) /\ rows(list[i]) # {}
                                         /\ n = Min(rows(list[i])) /\ Resolve(list[i]) # {}}
  IN  /\ scrape.target # "" /\ list # << >>
      /\ mutuals' =
           [n \in DOMAIN mutuals |->
              IF repoint(n) = {} THEN mutuals[n]
              ELSE [mutuals[n] EXCEPT !.mutual = ResolvedId(list[Max(repoint(n))])]]
           \o [k \in DOMAIN fresh |->
                 [target |-> scrape.target, targetName |-> scrape.name, targetUrl |-> scrape.url,
                  company |-> TargetCompany(scrape),
                  mutual |-> ResolvedId(list[fresh[k]]), name |-> list[fresh[k]].name]]

\* The connector is a connection, by url or by name, or its slug; the matches are
\* its connections at the company, each with the connector as the mutual.
IngestScan(scan) ==
  LET byUrl == {c \in conns : c.url = scan.url}
      byName == {c \in conns : c.name = scan.name}
      id == IF byUrl \cup byName = {} THEN Slug[scan.url]
            ELSE (CHOOSE c \in IF byUrl # {} THEN byUrl ELSE byName : TRUE).id
      fresh == SetToSortSeq({i \in DOMAIN scan.matches : \A n \in DOMAIN mutuals :
                               <<mutuals[n].target, mutuals[n].mutual>>
                                 # <<Slug[scan.matches[i].url], id>>}, <)
  IN  /\ scan.url # "" /\ scan.company # "" /\ fresh # << >>
      /\ mutuals' = mutuals \o
           [k \in DOMAIN fresh |->
              [target |-> Slug[scan.matches[fresh[k]].url], targetName |-> scan.matches[fresh[k]].name,
               targetUrl |-> scan.matches[fresh[k]].url,
               company |-> scan.company, mutual |-> id, name |-> scan.name]]

\* The oldest row of each target and name is kept.
DeduplicateMutuals ==
  LET first == {n \in DOMAIN mutuals : \A k \in 1..n - 1 :
                  <<mutuals[k].target, mutuals[k].name>> # <<mutuals[n].target, mutuals[n].name>>}
      order == SetToSortSeq(first, <)
  IN  mutuals' = [n \in DOMAIN order |-> mutuals[order[n]]]
WipeMutuals == mutuals' = << >>

-----------------------------------------------------------------------------
\* Imported conversations: every push appends, and a row keeps the connection its
\* sender had then.
AddConversation(messages) ==
  talk' = talk \o [i \in DOMAIN messages |->
                     [thread |-> messages[i].thread, app |-> 0,
                      conn |-> IF \E c \in conns : c.id = messages[i].id THEN messages[i].id
                               ELSE "none"]]
LinkConversation(thread, application) ==
  /\ \E i \in DOMAIN talk : talk[i].thread = thread
  /\ talk' = [i \in DOMAIN talk |-> IF talk[i].thread = thread
                                    THEN [talk[i] EXCEPT !.app = application] ELSE talk[i]]

\* Saved postings: one that is there is left alone.
IngestJob(id) == saved' = saved \cup {id}
IngestJobsBulk(ids) == saved' = saved \cup ids

-----------------------------------------------------------------------------
\* Message threads.
JobTitles ==
  {"recruiter", "talent", "talent acquisition", "ta ", "sourcer", "headhunter",
   "executive search", "hiring manager", "people", "hr ", "human resources"}
HeuristicIsJobRelated(conv) ==
  \/ \E c \in conns : c.recruiter /\ c.id = conv.contact
  \/ Says(conv.title, JobTitles)
  \/ conv.about
\* The row of a scraped conversation; the classifier is off and answers nothing.
ThreadRow(conv, key) ==
  [key |-> key, urn |-> conv.urn, count |-> conv.count, named |-> conv.named,
   at |-> conv.at, jobs |-> HeuristicIsJobRelated(conv)]
\* Of the scraped conversations of one urn the last counts; those without a row yet
\* get one.
Latest(list) ==
  {i \in DOMAIN list : \A j \in i + 1..Len(list) : list[j].urn # list[i].urn}
RowsOf(urn) == {t \in threads : t.urn = urn}
Unknown(list) == {i \in Latest(list) : RowsOf(list[i].urn) = {}}
NewKey(list, i) == inbox.last + Cardinality({j \in Unknown(list) : j <= i})
\* The rows are upserted by urn, in one transaction: what was scraped replaces the
\* messages of the row, also when it is shorter.
Synced(list) ==
  {t \in threads : \A i \in Latest(list) : list[i].urn # t.urn}
    \cup {ThreadRow(list[i], (CHOOSE t \in RowsOf(list[i].urn) : TRUE).key) :
            i \in Latest(list) \ Unknown(list)}
    \cup {ThreadRow(list[i], NewKey(list, i)) : i \in Unknown(list)}
SyncMessages(p, list) ==
  /\ cleaning[p].at = "idle"
  /\ inbox.last + Len(list) <= MaxThreads
  /\ threads' = Synced(list)
  /\ inbox' = [inbox EXCEPT !.last = @ + Cardinality(Unknown(list)),
                            !.synced = @ \cup {Thread[list[i].urn] : i \in DOMAIN list}]
  /\ cleaning' = [cleaning EXCEPT ![p].at = "sync"]

\* The clean-up after a sync, before the first inbox page of a process, or asked for.
StartCleanup(p) ==
  /\ cleaning[p].at = "idle"
  /\ \E why \in {"asked"} \cup (IF inbox.done THEN {} ELSE {"inbox"}) :
       cleaning' = [cleaning EXCEPT ![p].at = why]
  /\ UNCHANGED <<threads, inbox>>

\* The rows of one thread, under either form of its urn.
Rows(t) == {r \in threads : Thread[r.urn] = t}
\* Mistake: a row goes when another has more messages or is newer.
RemovableEither ==
  {{r \in threads : \E o \in Rows(Thread[r.urn]) : o.count > r.count \/ o.at > r.at}}
Above(r, o) ==
  \/ r.count > o.count
  \/ r.count = o.count /\ r.named /\ ~ o.named
  \/ r.count = o.count /\ r.named = o.named /\ r.at > o.at
\* A date and a missing date are compared as a date and a string, which raises.
Incomparable(r, o) ==
  r.count = o.count /\ r.named = o.named /\ (r.at = 0) # (o.at = 0)
Removable ==
  {threads \ keep : keep \in
     {k \in SUBSET threads : \A t \in {Thread[r.urn] : r \in threads} :
        \E r \in Rows(t) : k \cap Rows(t) = {r} /\ ~ \E o \in Rows(t) : Above(o, r)}}

\* The first half reads the rows and decides, the second deletes by id.
ReadThreads(p) ==
  /\ cleaning[p].at \in {"sync", "asked", "inbox"}
  /\ IF \E t \in {Thread[r.urn] : r \in threads} :
          \E r, o \in Rows(t) : Incomparable(r, o)
     THEN cleaning' = [cleaning EXCEPT ![p].at = "idle"]
     ELSE \E doomed \in Removable :
            cleaning' = [cleaning EXCEPT
              ![p] = [at |-> IF @.at = "inbox" THEN "inbox delete" ELSE "delete",
                      doomed |-> {r.key : r \in doomed}, late |-> FALSE]]
  /\ UNCHANGED <<threads, inbox>>
DeleteThreads(p) ==
  /\ cleaning[p].at \in {"delete", "inbox delete"}
  /\ LET gone == {r \in threads : r.key \in cleaning[p].doomed}
     IN  /\ threads' = threads \ gone
         /\ inbox' = [inbox EXCEPT
              !.done = @ \/ cleaning[p].at = "inbox delete",
              !.raced = @ \cup (IF cleaning[p].late THEN {Thread[r.urn] : r \in gone} ELSE {})]
         /\ cleaning' = [q \in Cleaners |->
              IF q = p THEN [at |-> "idle", doomed |-> {}, late |-> FALSE]
              ELSE [cleaning[q] EXCEPT !.late = @ \/ gone # {}]]
\* A new server process has cleaned no inbox up; the requests of the old one are lost.
RestartApi ==
  /\ \E p \in Cleaners : cleaning[p].at # "idle"
  /\ inbox' = [inbox EXCEPT !.done = FALSE]
  /\ cleaning' = [p \in Cleaners |-> [at |-> "idle", doomed |-> {}, late |-> FALSE]]
  /\ UNCHANGED threads

-----------------------------------------------------------------------------
NetworkInit ==
  /\ conns = {} /\ mutuals = << >> /\ talk = << >> /\ threads = {} /\ saved = {}
  /\ cleaning = [p \in Cleaners |-> [at |-> "idle", doomed |-> {}, late |-> FALSE]]
  /\ inbox = [done |-> FALSE, synced |-> {}, raced |-> {}, last |-> 0]

PeopleNext ==
  \/ \E batch \in Imports : (ImportConnections(batch) \/ ImportCsv(batch)) /\ UNCHANGED mutuals
  \/ \E scrape \in Scrapes : StoreMutuals(scrape) /\ UNCHANGED conns
  \/ \E scan \in NetworkScans : IngestScan(scan) /\ UNCHANGED conns
  \/ (DeduplicateMutuals \/ WipeMutuals) /\ UNCHANGED conns

TalkNext ==
  \/ \E m \in Talks : Len(talk) < 2 /\ AddConversation(<<m>>) /\ UNCHANGED saved
  \/ \E m \in Talks, a \in DOMAIN Applications : LinkConversation(m.thread, a) /\ UNCHANGED saved
  \/ \E id \in Postings : IngestJob(id) /\ UNCHANGED talk
  \/ \E ids \in SUBSET Postings : IngestJobsBulk(ids) /\ UNCHANGED talk

InboxNext ==
  \/ \E p \in Cleaners :
       \/ \E list \in Syncs : SyncMessages(p, list)
       \/ StartCleanup(p) \/ ReadThreads(p) \/ DeleteThreads(p)
  \/ RestartApi

InboxSpec == NetworkInit /\ [][InboxNext]_inboxVars

-----------------------------------------------------------------------------
\* A thread that was synced keeps a row, unless a clean-up removed one of its rows
\* after another one had removed rows it still counted on (linkedin_service.py:1063:
\* the rows are read, compared and deleted by id in three statements, nothing keeps
\* a second clean-up out, and what a sync wrote in between is not looked at again).
ThreadLostNeedsOverlap ==
  \A t \in inbox.synced : Rows(t) # {} \/ t \in inbox.raced
=============================================================================
