------------------------------ MODULE Profiles ------------------------------
(* The candidate profiles of one user: versions that are drafted, activated  *)
(* and archived (services/profile/profile_service.py), filled by an import   *)
(* (routes/profile_import.py) or by the quick start, which waits for Claude  *)
(* between its read and its write (routes/quickstart.py), and drafted by the *)
(* parser of a CV (workers/tasks/parse_cv.py).  A request reads, works on    *)
(* what it read and commits; others commit in between.                       *)
EXTENDS Naturals, FiniteSets, FiniteSetsExt

CONSTANTS ProfileRequests,  \* requests and parser tasks in flight at once
          MaxVersion,       \* bound: versions of the profile
          DemoMode,         \* should_skip_anthropic_api
          HasClaudeKey      \* whether an API key is configured

ASSUME MaxVersionAssumption == MaxVersion \in Nat

VARIABLES profile,  \* version -> row; unique(user_id, version)
          asked,    \* request -> what it has read
          why       \* history: what made a second profile active

profileVars == <<profile, asked, why>>

Versions == 1..MaxVersion
\* exps: whether some experience is completed ("done"), some is not ("open").
ProfileRow == [status : {"none", "draft", "active", "archived"},
               exps : SUBSET {"done", "open"}, cv : BOOLEAN]
NoProfile == [status |-> "none", exps |-> {}, cv |-> FALSE]
Resting == [op |-> "none", at |-> 0, was |-> "none", old |-> 0, dirty |-> FALSE]

ProfileInit ==
  /\ profile = [v \in Versions |-> NoProfile]
  /\ asked = [r \in ProfileRequests |-> Resting]
  /\ why = {}

Existing == {v \in Versions : profile[v].status # "none"}
ActiveIn(p) == {v \in Versions : p[v].status = "active"}
Latest == Max(Existing \cup {0})
IsReady(v) == "done" \in profile[v].exps

Draft(status, withCv) == [status |-> status, exps |-> {}, cv |-> withCv]

\* INSERT: a version that exists by now is refused and the request fails.
WithRow(v, row) ==
  IF profile[v].status = "none" THEN [profile EXCEPT ![v] = row] ELSE profile

\* The quick start flushes its new draft before it calls Claude: an INSERT of
\* that version waits for it.
HeldByQuickStart(v) ==
  \E q \in ProfileRequests : asked[q].op = "quick" /\ asked[q].at = v /\ asked[q].was = "none"

Ask(r, op, v, was, old) ==
  /\ asked[r].op = "none"
  /\ asked' = [asked EXCEPT ![r] = [op |-> op, at |-> v, was |-> was, old |-> old, dirty |-> FALSE]]
  /\ UNCHANGED <<profile, why>>

\* The commit of request r; what the others have read is out of date.
Committed(r, p) ==
  /\ profile' = p
  /\ asked' = [q \in ProfileRequests |->
                 IF q = r THEN Resting
                 ELSE [asked[q] EXCEPT !.dirty = @ \/ (asked[q].op # "none" /\ p # profile)]]
  /\ why' = IF Cardinality(ActiveIn(p)) > 1 /\ ActiveIn(p) # ActiveIn(profile)
            THEN why \cup {IF asked[r].dirty THEN "overlap" ELSE asked[r].op} ELSE why

\* ---- POST /profiles.  A first profile is active at once.
BeginCreate(r) ==
  /\ Latest < MaxVersion
  /\ Ask(r, "create", Latest + 1, IF ActiveIn(profile) = {} THEN "active" ELSE "draft", 0)
CommitCreate(r) ==
  /\ asked[r].op = "create" /\ ~HeldByQuickStart(asked[r].at)
  /\ Committed(r, WithRow(asked[r].at, Draft(asked[r].was, FALSE)))

\* ---- POST /profiles/{id}/activate.  With two active rows the query for the
\* current one raises.
BeginActivate(r) ==
  \E v \in Existing :
    /\ profile[v].status = "draft" /\ IsReady(v)
    /\ Cardinality(ActiveIn(profile)) <= 1
    /\ Ask(r, "activate", v, "draft", Max(ActiveIn(profile) \cup {0}))
ActivatedBeside(r) == [profile EXCEPT ![asked[r].at].status = "active"]
Activated(r) ==
  [v \in Versions |->
     IF v = asked[r].at THEN [profile[v] EXCEPT !.status = "active"]
     ELSE IF v = asked[r].old THEN [profile[v] EXCEPT !.status = "archived"]
     ELSE profile[v]]
CommitActivate(r) == asked[r].op = "activate" /\ Committed(r, Activated(r))

\* ---- POST /profiles/{id}/apply-import: any version of the user, an archived
\* one included; a status that was active when it was read is not written.
BeginImport(r) == \E v \in Existing : Ask(r, "import", v, profile[v].status, 0)
Filled(r, exps) ==
  [profile EXCEPT ![asked[r].at].exps = exps,
                  ![asked[r].at].status = IF asked[r].was = "active" THEN @ ELSE "active"]
CommitImport(r) ==
  /\ asked[r].op = "import"
  /\ \E kept \in {{}, profile[asked[r].at].exps}, found \in SUBSET {"open"}, headline \in BOOLEAN :
       LET exps == kept \cup found IN
       Committed(r, IF found # {} \/ headline THEN Filled(r, exps)
                    ELSE [profile EXCEPT ![asked[r].at].exps = exps])

\* ---- What is read out of a CV: experiences, none of them completed, and a
\* headline.  Refused is an HTTPException, Unread stands for no import.
Import == [exps : SUBSET {"open"}, headline : BOOLEAN]
Refused == [error |-> "refused"]
Unread == [error |-> "unread"]

\* _demo_imported_profile_from_text ends with the whole text as one experience, if
\* it found none.
DemoImport == [exps |-> {"open"}, headline |-> TRUE]

\* An answer that is not JSON, a timeout, any other error: an HTTPException.
CallClaudeForProfile == IF DemoMode \/ ~HasClaudeKey THEN {Refused} ELSE Import \cup {Refused}
ExtractProfileWithClaude == IF DemoMode THEN {DemoImport} ELSE CallClaudeForProfile

\* _cv_to_text: the sections, blank as they may be; without sections the paragraphs.
CvToText(content) == IF content.sections = "none" THEN content.paragraphs ELSE content.sections
Contents == [sections : {"none", "blank", "text"}, paragraphs : {"blank", "text"}]

\* Reading the file itself: a broken one raises, of a type it does not know it is refused.
TextFromBytes(ext) == IF ext \in {"docx", "pdf"} THEN {"text", "blank", "error"} ELSE {"refused"}

\* Step 4: the parsed text if there is any, else the object in the store.
Extraction(content, ext) ==
  UNION {CASE read = "text" -> ExtractProfileWithClaude
           [] read = "refused" -> {Refused}
           [] OTHER -> {Unread} :
         read \in IF CvToText(content) = "text" THEN {"text"} ELSE {"error"} \cup TextFromBytes(ext)}
Extractions == UNION {Extraction(content, ext) : content \in Contents, ext \in {"docx", "pdf", "other"}}

\* ---- POST /quickstart, from its step 3: the active profile, else the newest
\* of any status, else a new draft; then the extraction; then the profile.
BeginQuickStart(r) ==
  /\ Cardinality(ActiveIn(profile)) <= 1
  /\ LET v == IF ActiveIn(profile) # {} THEN Max(ActiveIn(profile))
              ELSE IF Latest > 0 THEN Latest ELSE 1
     IN ~HeldByQuickStart(v) /\ Ask(r, "quick", v, profile[v].status, 0)
CommitQuickStart(r) ==
  /\ asked[r].op = "quick"
  /\ \E imported \in Extractions \ {Refused} :
       Committed(r, IF imported = Unread THEN WithRow(asked[r].at, Draft("draft", FALSE))
                    ELSE Filled(r, imported.exps))
\* The extraction was refused, or applying it fails: the request is rolled back.
QuickStartFails(r) == asked[r].op = "quick" /\ Committed(r, profile)

\* ---- The end of parse_cv_task: a first draft, or the CV linked to a profile.
BeginParsed(r) == Existing = {} /\ Ask(r, "parse", 1, "none", 0)
CommitParsed(r) ==
  /\ asked[r].op = "parse" /\ ~HeldByQuickStart(1)
  /\ Committed(r, WithRow(1, Draft("draft", TRUE)))
LinkCv ==
  \E v \in Existing :
    /\ ~profile[v].cv /\ profile' = [profile EXCEPT ![v].cv = TRUE]
    /\ UNCHANGED <<asked, why>>

\* ---- Experiences: added or marked, completed or not; deleted.
EditExperience ==
  \E v \in Existing, e \in {"done", "open"} :
    /\ \/ profile' = [profile EXCEPT ![v].exps = @ \cup {e}]
       \/ e \in profile[v].exps /\ profile' = [profile EXCEPT ![v].exps = @ \ {e}]
    /\ profile' # profile
    /\ UNCHANGED <<asked, why>>

ProfileNext ==
  \/ \E r \in ProfileRequests :
       \/ BeginCreate(r) \/ CommitCreate(r) \/ BeginActivate(r) \/ CommitActivate(r)
       \/ BeginImport(r) \/ CommitImport(r) \/ BeginQuickStart(r) \/ CommitQuickStart(r)
       \/ QuickStartFails(r) \/ BeginParsed(r) \/ CommitParsed(r)
  \/ LinkCv \/ EditExperience

ProfileSpec == ProfileInit /\ [][ProfileNext]_profileVars

\* A user has two active profiles only after an import filled a second one, or
\* after a request acted on what another had changed since it read it: creating,
\* activating and the quick start alone keep one (profile_service.py:210-256).
SecondActiveNeedsImportOrOverlap ==
  Cardinality(ActiveIn(profile)) > 1 => why # {} /\ why \subseteq {"import", "overlap"}

\* models/candidate_profile.py:68: a user has several profiles, "but only one
\* ACTIVE at a time".
OneActive == Cardinality(ActiveIn(profile)) <= 1
=============================================================================
