------------------------------- MODULE Mailbox -------------------------------
(* The mailbox a user connects (services/email_integration, workers/tasks/   *)
(* email_sync.py and email_intelligence.py): syncs that fetch job mail and   *)
(* extract signals, deep scans that fetch everything and report on it, and   *)
(* the user who connects, disconnects, links and dismisses meanwhile.        *)
EXTENDS Naturals, FiniteSets

CONSTANTS Messages,    \* messages of the mailbox
          Ignored,     \* those from a sender of _IGNORE_DOMAINS
          MailHits,    \* message -> the stages whose patterns its text matches
          Edits,       \* requests that connect or disconnect the mailbox
          Syncs,       \* messages of sync_email_account
          DeepScans,   \* messages of run_deep_scan
          MaxMailTries \* bound on the executions of one message (2 and 1 retries in the code)

VARIABLES account,   \* the row of email_accounts
          edits,     \* request -> what it is about and the row it has read
          scans,     \* message -> its row of email_scans
          sync,      \* sync -> where it stands and what it has read
          deep,      \* deep scan -> where it stands and what it has fetched
          intelligence, \* scan_status of the row of email_intelligence
          locked,    \* the sync that holds the row of the account
          unattended,\* history: a deep scan that nobody will end
          crossed,   \* history: those whose row was written between their read and their write
          overtaken  \* history: one of those wrote the row last, or renewed its tokens

mailVars == <<account, edits, scans, sync, deep, intelligence, locked, unattended, crossed, overtaken>>

None == "none"
ASSUME SyncsAssumption == None \notin Syncs /\ Edits \cap Syncs = {}

MailStages == <<"applied", "interview", "offer", "rejected">>
Account == [active : BOOLEAN, provider : {"gmail", "outlook"}, access : {None, "issued", "revoked"},
            expired : BOOLEAN, refresh : BOOLEAN]
EditResting == [at |-> None, active |-> FALSE, refresh |-> FALSE]
MailResting == [at |-> None, rows |-> {}, tries |-> 0]
SyncResting == [at |-> None, read |-> None, rows |-> {}, tries |-> 0]

MailInit ==
  /\ \E p \in {"gmail", "outlook"} :
       account = [active |-> FALSE, provider |-> p, access |-> None, expired |-> FALSE, refresh |-> FALSE]
  /\ edits = [r \in Edits |-> EditResting] /\ crossed = {}
  /\ scans = [m \in Messages |-> [stage |-> None, app |-> FALSE, dismissed |-> FALSE]]
  /\ sync = [s \in Syncs |-> SyncResting] /\ deep = [d \in DeepScans |-> MailResting]
  /\ intelligence = None /\ locked = None /\ unattended = FALSE /\ overtaken = FALSE

\* ---- What the providers and the extractor answer.

\* The first pattern that matches names the stage, whatever the rest of the mail says.
Matched(m) == {i \in DOMAIN MailStages : MailStages[i] \in MailHits[m]}
ExtractSignal(m) ==
  IF m \in Ignored \/ Matched(m) = {} THEN None
  ELSE MailStages[CHOOSE i \in Matched(m) : \A j \in Matched(m) : i <= j]

\* Gmail skips a message it cannot read, Outlook answers all or nothing.  (The
\* search query and the cursor, which neither uses, are abstracted.)
GmailMessages == SUBSET Messages
OutlookMessages == {Messages}
FetchedMail == IF account.provider = "gmail" THEN GmailMessages ELSE OutlookMessages
\* A deep scan skips a folder that fails, so either provider may answer less.
AllGmailMessages == SUBSET Messages
AllOutlookMessages == {{}, Messages}
FetchedAll == IF account.provider = "gmail" THEN AllGmailMessages ELSE AllOutlookMessages

Seen == {m \in Messages : scans[m].stage # None}
WithRows(stageOf) ==
  [m \in Messages |->
     IF m \in DOMAIN stageOf THEN [scans[m] EXCEPT !.stage = stageOf[m]] ELSE scans[m]]

\* ---- The account.  An UPDATE of it waits for the sync that holds the row, and
\* names the columns that differ from the row as it was read: a new ciphertext always does.

Queued(f, jobs) == {j \in jobs : f[j].at = None}
EditRead(r, what) ==
  /\ edits[r].at = None
  /\ edits' = [edits EXCEPT ![r] = [at |-> what, active |-> account.active, refresh |-> account.refresh]]
  /\ crossed' = crossed \ {r}
  /\ UNCHANGED <<account, scans, sync, deep, intelligence, locked, unattended, overtaken>>
\* Two first connections at once would insert two rows: here the second one
\* waits for the row of the first.
ConnectRead(r) ==
  /\ account.access = None => \A q \in Edits : edits[q].at = None
  /\ EditRead(r, "connect")
DisconnectRead(r) == account.access # None /\ EditRead(r, "disconnect")

\* Whoever has read the row and not written it: for them it has changed.
Readers == {r \in Edits : edits[r].at # None} \cup {s \in Syncs : sync[s].at = "read"}
EditWritten(r) ==
  /\ locked = None
  /\ edits' = [edits EXCEPT ![r] = EditResting]
  /\ overtaken' = (r \in crossed) /\ crossed' = (crossed \cup Readers) \ {r}

\* POST /callback: the tokens, then a sync and a deep scan, each unless the
\* broker refuses it; Google sends no refresh token to a user it knows.
ConnectWrite(r) ==
  /\ edits[r].at = "connect" /\ EditWritten(r)
  /\ \E refresh \in BOOLEAN :
       account' = [account EXCEPT !.active = @ \/ ~edits[r].active, !.access = "issued",
                                  !.expired = FALSE, !.refresh = @ \/ refresh]
  /\ sync' \in {sync} \cup {[sync EXCEPT ![s].at = "queued"] : s \in Queued(sync, Syncs)}
  /\ deep' \in {deep} \cup {[deep EXCEPT ![d].at = "queued"] : d \in Queued(deep, DeepScans)}
  /\ UNCHANGED <<scans, intelligence, locked, unattended>>

RevokedAccessOnly(read) == [account EXCEPT !.active = @ /\ ~read.active, !.access = "revoked"]
Revoked(read) == [account EXCEPT !.active = @ /\ ~read.active, !.access = "revoked",
                                 !.refresh = @ /\ ~read.refresh]
DisconnectWrite(r) ==
  /\ edits[r].at = "disconnect" /\ EditWritten(r)
  /\ account' = Revoked(edits[r])
  /\ UNCHANGED <<scans, sync, deep, intelligence, locked, unattended>>

TokenExpires ==
  /\ account.access # None /\ ~account.expired
  /\ account' = [account EXCEPT !.expired = TRUE]
  /\ UNCHANGED <<edits, scans, sync, deep, intelligence, locked, unattended, crossed, overtaken>>

\* ---- sync_email_account.

\* POST /accounts/{id}/sync, or the beat for every active account.
StartSync ==
  /\ account.access # None
  /\ \E s \in Queued(sync, Syncs) : sync' = [sync EXCEPT ![s].at = "queued"]
  /\ UNCHANGED <<account, edits, scans, deep, intelligence, locked, unattended, crossed, overtaken>>

SyncRead(s) ==
  /\ sync[s].at = "queued" /\ crossed' = crossed \ {s}
  /\ sync' = [sync EXCEPT ![s] = IF account.active
                                 THEN [at |-> "read", read |-> account, rows |-> {},
                                       tries |-> sync[s].tries + 1]
                                 ELSE SyncResting]
  /\ UNCHANGED <<account, edits, scans, deep, intelligence, locked, unattended, overtaken>>

\* The flush of SYNCING takes the row and keeps it to the end of the transaction.
SyncLock(s) ==
  /\ sync[s].at = "read" /\ locked = None
  /\ locked' = s /\ sync' = [sync EXCEPT ![s].at = "locked"]
  /\ UNCHANGED <<account, edits, scans, deep, intelligence, unattended, crossed, overtaken>>

\* _ensure_valid_token works on the row as it was read: new tokens replace
\* whatever has been written since.
Refreshed == [account EXCEPT !.access = "issued", !.expired = FALSE, !.refresh = TRUE]
NeedsToken(s) == sync[s].read.expired
Renewed(s) ==
  /\ account' = Refreshed
  /\ overtaken' = (overtaken \/ s \in crossed)
  /\ crossed' = IF s \in crossed THEN crossed \cup Readers ELSE crossed
NotRenewed == UNCHANGED <<account, crossed, overtaken>>
\* The fetch: a message that has a row already is not looked at again.
SyncFetch(s) ==
  /\ sync[s].at = "locked"
  /\ IF NeedsToken(s) THEN sync[s].read.refresh ELSE sync[s].read.access = "issued"
  /\ \E found \in FetchedMail :
       sync' = [sync EXCEPT ![s].at = "fetched",
                            ![s].rows = {m \in found \ Seen : ExtractSignal(m) # None}]
  /\ UNCHANGED <<account, edits, scans, deep, intelligence, locked, unattended, crossed, overtaken>>

\* COMMIT.  (Status, error and the counters, which two syncs add to what both have
\* read, are left out: no handler reads them.)
SyncStored(s) == IF NeedsToken(s) THEN Renewed(s) ELSE NotRenewed
SyncCommit(s) ==
  /\ sync[s].at = "fetched" /\ sync[s].rows \cap Seen = {}
  /\ scans' = WithRows([m \in sync[s].rows |-> ExtractSignal(m)])
  /\ SyncStored(s)
  /\ sync' = [sync EXCEPT ![s] = SyncResting] /\ locked' = None
  /\ UNCHANGED <<edits, deep, intelligence, unattended>>

Retried(f, j, resting) ==
  [f EXCEPT ![j] = IF @.tries < MaxMailTries
                   THEN [resting EXCEPT !.at = "queued", !.tries = f[j].tries] ELSE resting]
\* A provider that answers with an error, before or after the tokens are new, or
\* no refresh token: FAILED is committed, and the new tokens with it.
SyncFails(s) ==
  /\ sync[s].at = "locked"
  /\ \/ NotRenewed
     \/ NeedsToken(s) /\ sync[s].read.refresh /\ Renewed(s)
  /\ sync' = Retried(sync, s, SyncResting) /\ locked' = None
  /\ UNCHANGED <<edits, scans, deep, intelligence, unattended>>

\* A deep scan has inserted one of the rows, or inserts it while this sync
\* waits (a deadlock): the transaction is lost, the commit of FAILED raises too.
SyncConflict(s) ==
  /\ sync[s].at = "fetched"
  /\ \/ sync[s].rows \cap Seen # {}
     \/ \E d \in DeepScans : deep[d].at = "fetched" /\ sync[s].rows \cap deep[d].rows # {}
  /\ sync' = Retried(sync, s, SyncResting) /\ locked' = None
  /\ UNCHANGED <<account, edits, scans, deep, intelligence, unattended, crossed, overtaken>>

\* ---- run_deep_scan and its report.

\* POST /scan: refused while a scan is under way; then the row is committed and
\* the task published.
AskDeepScan ==
  /\ intelligence # "scanning"
  /\ \E d \in Queued(deep, DeepScans) : deep' = [deep EXCEPT ![d].at = "asked"]
  /\ UNCHANGED <<account, edits, scans, sync, intelligence, locked, unattended, crossed, overtaken>>
MarkScanning(d) ==
  /\ deep[d].at = "asked" /\ deep' = [deep EXCEPT ![d].at = "marked"]
  /\ intelligence' = "scanning"
  /\ UNCHANGED <<account, edits, scans, sync, locked, unattended, crossed, overtaken>>
PublishScan(d) ==
  /\ deep[d].at = "marked" /\ deep' = [deep EXCEPT ![d].at = "queued"]
  /\ UNCHANGED <<account, edits, scans, sync, intelligence, locked, unattended, crossed, overtaken>>
\* The broker refuses the task, or its worker is killed at the hard time limit,
\* which acknowledges the message and runs no handler.
ScanLost(d) ==
  /\ deep[d].at \notin {None, "asked", "queued"}
  /\ deep' = [deep EXCEPT ![d] = MailResting] /\ unattended' = TRUE
  /\ UNCHANGED <<account, edits, scans, sync, intelligence, locked, crossed, overtaken>>

DeepStart(d) ==
  /\ deep[d].at = "queued"
  /\ deep' = [deep EXCEPT ![d].at = "started", ![d].tries = @ + 1] /\ intelligence' = "scanning"
  /\ UNCHANGED <<account, edits, scans, sync, locked, unattended, crossed, overtaken>>
\* Without an account the report is completed as it is.
DeepNoAccounts(d) ==
  /\ deep[d].at = "started" /\ ~account.active
  /\ deep' = [deep EXCEPT ![d] = MailResting] /\ intelligence' = "completed"
  /\ UNCHANGED <<account, edits, scans, sync, locked, unattended, crossed, overtaken>>
\* Every message without a row, whatever it is about; an account that fails is skipped.
DeepFetch(d) ==
  /\ deep[d].at = "started" /\ account.active
  /\ \E found \in FetchedAll \cup {{}} :
       deep' = [deep EXCEPT ![d].at = "fetched", ![d].rows = found \ Seen]
  /\ UNCHANGED <<account, edits, scans, sync, intelligence, locked, unattended, crossed, overtaken>>
UnknownStage == "unknown"
DeepCommit(d) ==
  /\ deep[d].at = "fetched" /\ locked = None /\ deep[d].rows \cap Seen = {}
  /\ scans' = WithRows([m \in deep[d].rows |-> UnknownStage])
  /\ deep' = [deep EXCEPT ![d].at = "analysing", ![d].rows = {}]
  /\ UNCHANGED <<account, edits, sync, intelligence, locked, unattended, crossed, overtaken>>
\* _analyze_with_claude always answers, with its fallback if need be.
DeepStore(d) ==
  /\ deep[d].at = "analysing"
  /\ deep' = [deep EXCEPT ![d] = MailResting] /\ intelligence' = "completed"
  /\ UNCHANGED <<account, edits, scans, sync, locked, unattended, crossed, overtaken>>
\* An exception, a row that a sync inserted first among them: _mark_failed, then the retry.
MarkNothing == intelligence
MarkFailed == "failed"
DeepFails(d) ==
  /\ deep[d].at \in {"started", "fetched", "analysing"}
  /\ deep' = Retried(deep, d, MailResting) /\ intelligence' = MarkFailed
  /\ UNCHANGED <<account, edits, scans, sync, locked, unattended, crossed, overtaken>>

\* ---- The user on a row.  Linking creates an application, a second time too.
LinkScan ==
  \E m \in Seen : /\ scans' = [scans EXCEPT ![m].app = TRUE]
                  /\ UNCHANGED <<account, edits, sync, deep, intelligence, locked, unattended, crossed, overtaken>>
DismissScan ==
  \E m \in Seen, dismissed \in BOOLEAN :
    /\ scans' = [scans EXCEPT ![m].dismissed = dismissed]
    /\ UNCHANGED <<account, edits, sync, deep, intelligence, locked, unattended, crossed, overtaken>>

MailNext ==
  \/ \E r \in Edits : \/ ConnectRead(r) \/ ConnectWrite(r) \/ DisconnectRead(r) \/ DisconnectWrite(r)
  \/ TokenExpires \/ StartSync \/ AskDeepScan \/ LinkScan \/ DismissScan
  \/ \E s \in Syncs : \/ SyncRead(s) \/ SyncLock(s) \/ SyncFetch(s) \/ SyncCommit(s)
                      \/ SyncFails(s) \/ SyncConflict(s)
  \/ \E d \in DeepScans : \/ MarkScanning(d) \/ PublishScan(d) \/ ScanLost(d) \/ DeepStart(d)
                          \/ DeepNoAccounts(d) \/ DeepFetch(d) \/ DeepCommit(d) \/ DeepStore(d) \/ DeepFails(d)

MailSpec == MailInit /\ [][MailNext]_mailVars

\* ---- Properties.

\* A disconnected mailbox keeps no tokens, unless it was written across another
\* request: a connection and a disconnection overlapped (scan_service.py:44-75
\* against :85-104), or a sync whose row was written between its read and its lock
\* renewed tokens over it (:113-122 and :215-219).
LiveTokensNeedARace ==
  ~account.active /\ (account.access = "issued" \/ account.refresh) => overtaken

\* While the report says that a scan is under way, POST /scan starts no other; so
\* some scan is, or one was lost: refused by the broker after the status was
\* committed, or killed at its hard time limit (email_intelligence.py:40-43).
ScanningIsAttended ==
  intelligence = "scanning" => unattended \/ \E d \in DeepScans : deep[d].at \notin {None, "asked"}
=============================================================================
