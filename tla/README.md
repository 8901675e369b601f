# Formal model of the CareerOS / StealthRole backend

This directory is a TLA+ development kept beside the Python code of the
repository (`src/app`: a FastAPI API process, Celery workers, PostgreSQL, S3
and a Redis broker). Its modules are translated from the source, file by file;
`PROJECT.json` maps each definition to the lines it stands for.

## 1. The system

| Component | Code | State | Operations | What is hard, and what makes it correct |
|---|---|---|---|---|
| CV upload and parsing | `services/ingest/cv_service.py`, `workers/tasks/parse_cv.py` | row of `cvs` | upload, parse, retry, fail | commit and dispatch are separate; parsing ends; PARSED has content |
| Pack requests | `services/jobs/job_run_service.py`, `api/routes/uploads.py` | row of `job_runs` | create, poll (and resume), delete with the CV | the message is published before the commit; a poll and the parser start the same run |
| `run_llm_task` | `workers/tasks/run_llm.py` | status, edit plan, reports, `job_steps` | retrieve, call, persist, chain | redelivery, retries, time limits, two executions of one run |
| `render_docx_task` | `workers/tasks/render_docx.py` | status, output key, object in S3, `usage_records` | render, upload, complete, charge | file before status, status before charge, one charge |
| Celery | `workers/celery_app.py` | messages | at-least-once delivery, retry, time limits | late acknowledgement, lost workers, hard kills |
| Quota and subscriptions | `services/billing`, `api/routes/billing.py` | `subscriptions`, `usage_records` | check, checkout, webhook with four handlers | late, lost and reordered webhooks; period arithmetic |
| Credits | `services/billing/credit_service.py` | balance, ledger | provision, spend, add | read-modify-write of the balance |
| Detailed reports | `run_llm.py` (`run_detail_task`) | `reports` of a run | enrich, fail | works on a snapshot, overwrites; the label is read, and written back later; a message may be refused |
| Shadow applications | `workers/tasks/shadow_gen.py`, `api/routes/shadow.py` | row, pack, CV in S3, mail | request, generate, fail, delete | guards on load but not on write; who ends GENERATING |
| LLM client | `services/llm` | cache in Redis | call, retry, fall back, repair | one cache for all processes; answers cut off anywhere |
| Profiles | `services/profile`, `api/routes/profile_import.py`, `quickstart.py` | versions of a profile | create, activate, import, quick start | one active version, four writers |
| Applications board | `services/applications` | stage, times | create, move, delete | overlapping edits, analytics over the times |
| Forms, timeline, calendar | `services/auto_apply`, `services/calendar`, `workers/tasks/calendar_sync.py` | submissions, timeline, events | prepare, report, sync, link, remind | repeated reports, overlapping syncs |
| Actions | `services/action`, `services/intelligence/decision_engine.py` | action rows | score, generate, transition, expire | status read before it is written; a quota that reserves nothing |
| Outcome learning | `services/intelligence` | outcomes, learning | record, sweep (nothing calls either); propagation, which always raises | learned once although transactions overlap; rounding |
| Market | `services/scout`, `services/radar`, `services/intelligence` | scans, hidden signals, alerts | scan, score, interpret, merge, rank, alert | two scans at once; order of fetchers; scores at their thresholds |
| Mailbox | `services/email_integration`, `workers/tasks/email_*` | account, scans, report | connect, sync, deep scan, disconnect | each reads the row and writes later what differs; who ends "scanning" |
| Network | `services/linkedin` | connections, threads, introductions | import, sync, clean up, rank, ask | clean-up against sync; look-up before insert |
| Accounts | `services/auth`, `services/whatsapp`, `api/middleware`, `services/user_data_wipe.py` | user row, codes, windows, all rows | sign in, refresh, verify, limit, wipe | rotation with concurrent refreshes; window edges; one failing table |
| Text, documents, UI | parsers, renderers, prompts, `frontend` | - | - | formats and presentation |

The components interact through four things only: the database (transactions
at READ COMMITTED), the bucket and Redis, the broker, and HTTP calls to
providers. No memory is shared between processes. Nearly every hazard has one
shape: a request reads a row, awaits something, and writes what it decided; or a
task commits, and the process ends before the next commit or message.

## 2. The modules

| Module | Models |
|---|---|
| `PipelineState`, `CvParsing`, `PackRequests`, `RunLlm`, `RenderDocx` | rows, objects, messages and faults of the pack pipeline; then upload and parsing, requests with quota, poll and deletion, `run_llm_task`, `render_docx_task` with the usage record |
| `PackPipeline` | their composition: fairness, properties, inductive invariant, refinement |
| `PackDelivery` | abstract specification: what the pipeline promises about each pack |
| `SubscriptionBilling` | the row of `subscriptions`, Stripe, the checkout and the webhook |
| `SubscriptionQuota` | extends it with requests for packs and `usage_records` in time: check, admission, record |
| `CreditAccount` | abstract specification of an account |
| `CreditLedger` | `CreditService` and the credit routes, with the refinement to `CreditAccount` |
| `LlmClient` | calls, router, retries, fall-back and cache; the two scanners that find or repair JSON in a text |
| `ShadowApplications` | the row, its task, upload, mail, deletion |
| `DetailReports` | both tasks that write the reports of a run, with the retrieval |
| `Profiles` | versions of a profile and their four kinds of writers |
| `ApplicationBoard` | the board, PATCH by PATCH |
| `ApplicationTrail` | what hangs on an application: forms, timeline, calendar events, reminders |
| `ActionGeneration` | the score of an opportunity, the actions it calls for, their monthly quota |
| `ActionLifecycle` | an action from its creation to its answer |
| `OutcomeLearning` | outcomes, learning and the sweep, as overlapping transactions |
| `Sessions`, `WhatsAppOtp`, `RateLimiter`, `UserWipe` | account and refresh token; verification of a number; the sliding window; the wipe |
| `LinkedInNetwork`, `WayIn` | the network and its threads; the ways into a company and the introductions |
| `SignalEngine`, `ScoutResults` | one run of the engine; what is kept and alerted, and the searches that keep nothing |
| `SignalRules`, `HiddenMarket` | the rules, and the scan that stores, scores and interprets signals, with captures and dismissals |
| `Radar` | the fit of an opportunity; adaptation, merging, scoring and filtering over `HiddenMarket` |
| `Mailbox` | account, syncs, deep scans and their report |
| `MCPackPipeline`, `MCBilling`, `MCCareer`, `MCBackground`, `MCAccounts`, `MCMarket` | instances for TLC |
| `OrderLemmas` | facts about finite sets in an order, for the proofs |
| `PackPipelineProofs`, `SubscriptionBillingProofs`, `CreditLedgerProofs`, `CareerProofs`, `AccountProofs`, `BackgroundProofs`, `ContactProofs` | theorems, checked by TLAPS |

Where components share state they are composed: the pipeline is one machine of
four modules over `PipelineState`, `SubscriptionQuota` extends
`SubscriptionBilling`, `Radar` reads what `HiddenMarket` stores by the rules of
`SignalRules`, `WayIn` reads the network that `LinkedInNetwork` writes. The
other components write disjoint tables. The runs `Career`, `Background`,
`Accounts` and `Market` each check several of these: a variable (`part`, `side`)
chosen initially says which component a behaviour exercises, and the others stay as
they are, so one run explores each of them in full and no product of them. `Billing`
chooses in the same way between two instances of one component; `Packs` leaves out, by an action constraint
(`OneRunOrNoFault`), that a second run meets a fault.

### The pack pipeline: state and code

One CV and the runs created from it.

- `cv`: `status` is `CV.status` ("absent" before the insert and after the
  delete), `content` is `parsed_content is not None`.
- `job[r]`: the `JobRun` row. `status` is `JobRun.status`, or "absent" before
  the commit of the insert, or "deleted". `edit_plan` and `output_key` say
  whether the columns are set; they keep their value when the row is deleted, as
  history variables, so that the promise can speak of deleted runs. `orphan`:
  some row of `job_steps` is RUNNING and its execution is over. The enum lists
  a status PARSING that no code sets; the model has no such status either.
- `upload`, `request[r]`, `claim`: how far the request has got that uploads the
  CV, that creates run `r`, or that resumes it. `request[r] = "flushed"` is a
  row that is inserted and not committed; "dispatched" is one whose message is
  out as well.
- `task`: slots for unacknowledged messages. A slot holds a message from its
  publication to its acknowledgement, so a slot with `pc = "queued"` is in the
  broker and any other non-free slot is an execution in a worker. `tries` is
  `self.request.retries`; `seen` is the status `run_llm_task` has read, which
  decides whether the ORM writes the column; `todo` and `sent` are the rows of
  the dispatch loop of `parse_cv_task`.
- `objects`: runs whose output object is in the bucket. `usage[r]`: the number
  of `usage_records` of the run. `faults`: bounds the faults.

One action is one committed transaction, one upload, or one message, because
those are what another process can see. Where the code reads a row in one
transaction and writes it in a later one the model has two actions with the
read value in between (`seen`, `todo`). Where the code locks, the model is
atomic: the poll claims a run by a conditional `UPDATE` whose row count it tests
(`ResumeClaim`), and an open `create_run` holds a key-share lock on the CV that
`DELETE` waits for (`DeleteCV`). `job_steps` rows are audit data; their writes are
folded into the neighbouring transaction.

Each task has one action per step and one per way out: the handlers it has (`ParseInvalid`,
`LlmTimeout`, `RenderTimeout`, ...), `...Retry` for `self.retry`, `...Uncaught`
for what no handler catches, and `...OnFailure` for the `on_failure` hook.
`RetryOrFail` follows Celery: below `max_retries` the message is published again,
above it `retry(exc=exc)` raises `exc`, so the `except MaxRetriesExceededError`
clauses of the code are never entered and `on_failure` is what marks the row.

Faults are actions of their own, each with a bound: `Crash` (the worker process is lost: steps
stay open, the message is delivered again because of `task_acks_late` and
`task_reject_on_worker_lost`), `Kill` (`task_time_limit`: acknowledged, no
hook runs), `RetryLost` and the "broker" alternatives (a message is not accepted),
the "billing" alternatives (the usage transaction fails), and "crash" alternatives
of the API requests.

Abstractions. The data of a CV, a plan and a report is present or absent. The
user's quota is one number and one period. `run_detail_task` writes only reports:
its message is acknowledged without being kept. Timeline, e-mail and quality scoring are
caught, non-fatal and write nothing the model has. The database is assumed to
accept the writes of `on_failure` hooks; every other transaction may fail
through `...Uncaught` or `...Retry`. Countdown and rate limits are not modelled: a
queued message may be taken at any time.

### Subscription and quota: state and code

One user.

- `row`: the row of `subscriptions`. `start` is `current_period_start` (0 for
  NULL); `current_period_end` is always written with it and is `start + Period`,
  so it has no variable. Tiers with a price share the price's name; a price that
  `PRICE_TO_TIER` does not list gives FREE.
- `checkout[k]`, `hook[h]`: progress of `POST /billing/checkout` and of a webhook request.
  A handler reads, decides and writes in one transaction, so `hook[h]` keeps the
  snapshot of Stripe or of the event (`object`) and of the row (`seen`). The write
  is the ORM's: only columns whose value differs from the one that was read
  (`Flushed`), at READ COMMITTED, so that two handlers may mix their columns.
- `stripe`, `event`, `sent`, `now`: Stripe and the clock, modelled as the handlers
  see them. Stripe changes a subscription and puts events that carry the subscription as it
  was; `Take` takes the oldest event, the same one again (`MaxRepeats`), or one that
  overtakes others (`MaxLate`). A handler that raises is answered 200, so its event is
  gone (`HookFails`, `MaxLost`).
- `held[k]`: a history variable, the prices subscription `k` was active at.
- `customers`: the Stripe customers that checkouts have created.
- `pack[p]` (`SubscriptionQuota`): a request for a pack. `CheckQuota` reads the row (`seen`), `Admit` and
  `Refuse` count the records by that reading, and `RecordUsage` writes the record, with its moment,
  when the run has delivered; `EndUncounted` is a run that fails, or whose record does. Anything may happen in
  between, to the row, the clock and other packs; `MaxOpen` bounds how many packs are under way at once. What the
  run itself does meanwhile is the pipeline's subject, where the quota is one number.

The creation of a Stripe customer flushes the id before the session is
created: the flushed row keeps its lock until the request ends, which is why `CheckoutSession`
may write `row` in one step. Not modelled: the customer portal (it changes Stripe,
which `Change` does anyway), the signature check, and the grant of a plan that only
demo mode offers.

### Credits: state and code

One user. `row` is the row of `credit_balances`, `ledger[q]` the amount of the
`credit_transactions` row that request `q` wrote, `request[q]` how far the request is and
the row as it read it (`seen`). `Begin` is the SELECT of `get_balance`, `Provision` the
INSERT of a new user's row - it waits for another uncommitted one and fails on the unique key if
that one was committed - and `Commit`, `Refuse`, `Abort` the ways a transaction ends.
`Overlap` says whether the user's requests may run at the same time, `DemoMode` whether
`/credits/add` is open.

### LLM client and its texts: state and code

`call[c]` is the call a worker process is in: the lookup, one attempt after another, the
next model up, the write to the cache; `attempt` and `asked` count requests. `cache` holds
entries by task, model and prompt, which is what the key hashes; `redis[c]` is the module
singleton (never asked, connected, given up), so a process that met an outage stays without a
cache. The second part of the module feeds both scanners a well-nested text one character at a time; `stack` is the
reference they are compared with.

### Shadow applications and detailed reports

`shadow`, `gen` and `pack` are the row, the position of the one message, and what an
execution has made; "broker", "crash", "kill" and "mark" faults are actions.

`DetailReports` has the reports of one run, what they are and how they are labelled
(`run.reports`), and the position of every message of `run_llm_task` (`quick[q]`) and of
`run_detail_task` (`detail[d]`). Who labels reports reads them in one step and writes them back in another
(`MarkRead`, `MarkWrite`; `DetailFailRead`, `DetailFailWrite`), and whatever was written in between is
lost. The chain may be refused (`ChainRender`, `ChainDetail`), a run without a job description ends
phase 2 without a label ("skipped_no_jd", in `DetailRetrieve`), a crash puts the message back
(`task_acks_late`), and a second execution of `run_llm_task` publishes a second detail task. `owes` and
`givenUp` are history: a message that has written quick reports and not yet published phase 2, and
that such a message ended short, or phase 2 without a word.

### Profiles

`profile[v]` is the row of version `v`: status, which kinds of experiences it has, whether a
CV is linked. `asked[r]` is a request after its read: operation, version, the status it read. An
INSERT of a version that exists fails on `unique(user_id, version)`; the quick start flushes its
draft before it calls Claude, so others wait for it (`HeldByQuickStart`). Extraction is the
set of outcomes its branches can have (`Extractions`); texts are "text" or "blank".

### Board, forms, timeline

`apps[a]` is the stage and which of the three times are set. `edits` holds the PATCHes that
have read a row; the write is of the columns that differ from that reading, by id. In
`ApplicationTrail` the requests and tasks are `clerk[c]`: the report of the extension, the calendar sync (commits
all or nothing against the unique index), the link (commits, then writes the
timeline), the reminder task. `filed` and `excused` are history.

### Actions and outcomes

`actions[a]` is the row, `inflight` the requests between reading and writing;
`sends`, `sentText`, `raced` are history. `ActionGeneration` computes the composite score in
units of 1/10000 from the decision engine's weights and thresholds; `gated` are the requests let
through. `OutcomeLearning` keeps rates in units of 1/10000, as the code rounds to four
decimals. `txn[l]` is an open transaction, of a request that records an outcome or of the sweep: the signals it has selected
and still has to learn from (`marks`, `todo`), the learning rows as it has read and changed them (`rows`, `loaded`,
`inserted`), and the rows it has locked. It writes at its commit, whatever the rows say by then; an insert of a
row that exists, or a row that is gone, fails it; an exception in the learning is swallowed and leaves signals marked.
`counted` and `disturbed` are history. The constants stand for limits of the code: 10 outcomes
remembered, 100 users in a sweep, 50 signals of each.

### Accounts

`Sessions`: `row` is the columns of the user that sessions depend on, `request[d]` what a
device's request has read. A write is of the columns that changed, so a refresh may keep a
password it never saw. `WhatsAppOtp`: keys in Redis belong to the user, the number to the row.
`RateLimiter`: the pipeline that trims, counts, adds and expires is one step (MULTI/EXEC).
`UserWipe`: `txn` walks through the tables; PostgreSQL aborts the transaction on the first error.

### Network

A title is a set of words. Threads are rows with a count of messages and an age; the
clean-up is three actions (read, decide, delete by id). `WayIn` has the ranking as operators in
tenths of a point, and introductions as look-up and insert.

### Market

`SignalEngine`: fetchers complete in any order, `collected` is the list in that order;
normalisation is a table (`Norm`, `Prefix`) that TLC is given with names that collide. The buckets
are a recursive function of the number of signals put in them (`Buckets`).
`HiddenMarket`: rows of `hidden_signals` with their interpretations; a scan is look, search,
commit, score, interpret. `SignalRules` has the twenty-two rules as records: how many keywords, how
many must match, which types name them, and the roles they predict. `Radar` merges by company
and role. A wanted type of company in the headline of the first source is credited (`StageCredit`), and a single source is convincing if its link
is to one of five trusted sites (`trusted`), whatever the adapter; scores are in hundredths of a point until rounded. Of the eleven fetchers six are in
the instance: the other five differ in queries only.

### Mailbox

`account` is the row with its tokens. `edits[r]` is a request that connects or disconnects, between its read of
the row and its write, which sets what differs from the reading: an account read as active stays inactive if it was
disconnected meanwhile, and a token read as NULL is not cleared. `sync[s]` and `deep[d]` are messages with retries.
`locked` is the row lock a sync takes when it flushes "SYNCING": writes of edits and deep-scan
commits that touch the row wait for it. `crossed` (who had its row written between its read and its write) and
`overtaken` (one of those wrote last) are history. A message has one row of `email_scans` (`scans[m]`).

## 3. Properties

What a run lists is in `PROJECT.json` with its mutant: a change of one definition, as a
plausible bug would make it, that TLC finds. Properties that are proved for every
instance and follow from others are in no run (section 4).

**Pack pipeline.** `PipelineDelivers`: the pipeline implements `PackDelivery`, which has four actions,
Plan, Store, Deliver and Charge, each possible once per run and only in that order. The
mapping is `planned = {r : job[r].edit_plan}`, `stored = objects`,
`delivered = {r : job[r].output_key}`, `charges = usage`. Retries, redeliveries,
second executions, failures and deletions must all be stuttering steps.
`DownloadReady` (COMPLETED implies plan, key and stored file) and `LlmHasParsedCv`.
Liveness: `ParsingEnds`, `DeliveredIsCharged`, `BegunRunsEnd`, and `AcceptedRunEnds`: a run accepted
while its CV was parsed ends, though the parser may look for such runs before the row is committed.

**Subscription.** `MirrorsStripe`: once every event is handled, the row has the live
subscription's id, tier, status and period, or FREE after a cancellation. It is
about events in order (repeated ones too) and one subscription at a time; with less
than that it fails, see below. `TierWasBought` holds whatever happens to
events: the row never shows a tier the user did not pay for.
`PaidLimitWhenSettled`: a request of a user whose events are all handled, and whose row has not changed since it was
read, is not let through when the plan is used up in the period Stripe charges for. `FreeOverrunIsBounded`: the check
reserves nothing, so who never paid can exceed FREE in a month, but by fewer packs than are under way at once.

**Credits.** `ImplementsAccount`: while requests do not overlap, row and ledger are a
`CreditAccount` - provisioning, refusals and rollbacks are invisible, every entry moves the
balance by its amount and none takes it below zero. `TotalsAgree`: with overlapping spends the
*ledger* no longer adds up, but the columns of the row still agree, since a spend derives
both from one reading. `SpendIsCovered` is what the code promises and does not keep.

Several properties below say "unless": the code has no lock there, and the unconditional
statement is refuted. Such a property names the only way in which it can go wrong, so that a second
way would be found; what has happened is recorded in a history variable.

**Career.** `StageStamped`: a stage has its time, although PATCHes overlap. `SentIsSettled`:
an action no two requests had open at once goes out at most once and stays sent.
`OverrunIsBounded`: by how much batches that pass the gate together exceed the quota.
`LearningCoversOutcomes`: each signal that was marked with an outcome taught its user's row once, unless two
transactions worked on that user at once or an exception cut one short; in every case the count, the memory and the entries of a
row agree, and the rounded mean drifts by (n+1)/4 units at most.

**Background.** `BracketsAreFollowed`: both scanners end where the nesting does.
`PackDeliveredOnce`: a shadow pack is written once and mailed once, and later failures do not
touch it. `GenerationEnds`: a published generation ends. `PhaseIsSettled`: reports labelled
detailed are, and when no task works on the run any more the label says how phase 2 ended, unless it was not published or
ended without a word. `SecondActiveNeedsImportOrOverlap`.

**Accounts.** `SessionAfterLogout`, `VerifiedGotTheCode`, `WindowLimitsAdmitted` (both
directions: no burst, and no quiet client shut out), `WipeIsAllOrNothing`, `ThreadLostNeedsOverlap`,
`DuplicateIntroNeedsOverlap`, and `FirstDegreeLeads` for the ranking.

**Market.** `StrongestIsKept`: the result of the engine does not depend on the order of fetchers. A signal may lose what it has
above 1.0, which news with a date in the future gets from `_recency` (signal_engine.py:186).
`RoleOutranksNoise` and `CorroborationCostsLittle` are about scores at their thresholds: what another
source takes from a score (6, 5 or 8 points, `Cost`: as the second, the third or a later one) is the most that the rounding and the tiers allow.
`OnlySignalHasNoBonus` is what the comments say of the stacking bonus, and is violated.
`RescanNeedsARace` and `AlertsAreSpaced` relate what two scans or two tasks did;
`LiveTokensNeedARace` (a disconnected mailbox keeps tokens only if requests or a sync crossed each other) and `ScanningIsAttended` are about the mailbox,
`SecondApplicationNeedsOverlapOrDeletion` about repeated reports of a form.

### Runs

Deadlock checking is off everywhere: once the
users have stopped and the queues are empty the system rests.

| Run | Module, instance | Checks | Shows |
|---|---|---|---|
| `Packs` | `MCPackPipeline`; 3 slots; 1 run with 1 retry per task, 1 crash, 1 hard kill, 1 broker error, 1 billing error, or 2 runs with 1 retry of the parser | `DownloadReady`, `LlmHasParsedCv`, `PipelineDelivers` | any process may die at any point once, and messages and transactions may be lost, without a wrong download or charge; two runs, polls, parsing and deletion interleave |
| `PackLive` | `PackPipeline`; 1 run, 3 slots, no retries, 1 crash, `PolledSpec` | `ParsingEnds`, `AcceptedRunEnds`, `DeliveredIsCharged`, `BegunRunsEnd` | progress in spite of a crash |
| `Billing` | `MCBilling`; 2 checkouts, 1 live subscription at a time, 1 handler, 3 moments, periods of 1 and months of 2; 2 changes and 1 repeated event, or 1 change and 3 packs, 2 under way at a time | `MirrorsStripe`, `FreeOverrunIsBounded`, `PaidLimitWhenSettled` | the row follows Stripe, the quota follows the row |
| `BillDisorder` | `SubscriptionBilling`; 2 live subscriptions, 2 handlers, 1 change, 1 late event, 1 handler that raises | `TierWasBought` | disorder never gives a tier away |
| `CreditSerial` | `CreditLedger`; 3 requests one at a time, costs and grants | `ImplementsAccount` | an account |
| `CreditOverlap` | `CreditLedger`; 3 requests at once, no grants | `TotalsAgree` | what survives lost updates |
| `CreditOverspend` | as `CreditOverlap` | `SpendIsCovered`, violated | two spends of one reading are both let through |
| `Career` | `MCCareer`; 1 application with 2 editors, 2 actions with 2 requests, 2 batches, 3 signals of 2 users with 2 learning transactions | `StageStamped`, `SentIsSettled`, `OverrunIsBounded`, `LearningCoversOutcomes` | what is learned and sent stays consistent however it interleaves |
| `Background` | `MCBackground`; 2 callers of the LLM, texts of 9 characters, 1 shadow application, 2 messages of each report task with 1 crash, 2 requests over a profile | `BracketsAreFollowed`, `PackDeliveredOnce`, `PhaseIsSettled`, `SecondActiveNeedsImportOrOverlap`, `GenerationEnds` | generators survive redelivery, kills and refusals |
| `Accounts` | `MCAccounts`; 2 devices, 2 numbers, 3 windows, 4 tables, a network with 2 clean-ups and 2 askers | `SessionAfterLogout`, `VerifiedGotTheCode`, `WindowLimitsAdmitted`, `ThreadLostNeedsOverlap`, `DuplicateIntroNeedsOverlap`, `FirstDegreeLeads`, `WipeIsAllOrNothing` | what races can and cannot do to sessions, numbers and the network |
| `Market` | `MCMarket`; 5 lists of hits, 2 scanners, 2 alert tasks, 2 markets, 1 mailbox with 2 edits, 1 sync and 2 deep scans, 2 applications with 1 form and 1 meeting | `StrongestIsKept`, `RoleOutranksNoise`, `RescanNeedsARace`, `CorroborationCostsLittle`, `LiveTokensNeedARace`, `ScanningIsAttended`, `SecondApplicationNeedsOverlapOrDeletion`, `AlertsAreSpaced` | scans, scores, alerts and mail |
| `MarketBonus` | as `Market` | `OnlySignalHasNoBonus`, violated | a batch is committed, counted, and counted again in the table |

### Statements that TLC refutes

These statements of the repository are definitions of the modules as well, and TLC
refutes each on the instance given. They have no run
of their own; to see one, list it alone in the configuration of the run named.
For those of `PackLive` the specification is `Spec` unless another is named, and `MaxCrashes` is 0
unless a crash is.

| Property | Start from | Instance | What the code does |
|---|---|---|---|
| `TerminalIsFinal` | `PackLive` | as it is | the dispatch loop commits RETRIEVING over FAILED or COMPLETED (`parse_cv.py:319`) |
| `RetrievingHasTask` | `PackLive` | as it is | the message is published before the row is committed; the task finds no row and gives up (`job_run_service.py:142`) |
| `StepsAreClosed` (`job_step.py:52`) | `PackLive` | as it is | the soft time limit in retrieval leaves the step RUNNING (`run_llm.py:197`) |
| `ParsedIsFinal` (`parse_cv.py:14`) | `PackLive` | 1 broker error | a dispatch that fails after PARSED is committed lets `on_failure` mark the CV FAILED (`parse_cv.py:340`) |
| `EveryPackCharged` | `PackLive`, `FairSpec` | 2 slots, 1 crash | a crash between COMPLETED and the usage record (`render_docx.py:270`) |
| `UploadedIsParsed` (`cv_service.py:172`) | `PackLive`, `FairSpec` | 2 slots, 1 broker error | an upload whose dispatch failed is never parsed (`cv_service.py:170`) |
| `UsageWithinLimit` (`subscription.py:168`) | `Packs` | `PackLimit` 1 | the quota is read at creation and used at completion (`billing_service.py:295`) |
| `UsageWithinLimit` of `SubscriptionQuota` (`quota_guard.py:15`) | `Billing` | as it is | the same in time: two requests count before either is recorded |
| `MirrorsStripe` (`subscription.py:21`) | `BillDisorder` | 1 checkout, 1 handler, 2 changes, 1 late event | handlers compare no times: an older snapshot replaces a newer one (`billing_service.py:203`) |
| `PaidIsTracked` (`subscription.py:7`) | `BillDisorder` | 1 handler, nothing late or lost | a second checkout takes the row over, and events of the first are "subscription_not_found" (`billing_service.py:193`) |
| `OneCustomer` (`billing_service.py:91`) | `BillDisorder` | nothing late or lost | a failed session rolls the customer's id back, and two checkouts at once make two customers (`billing_service.py:105`) |
| `FreeLimitPerMonth` | `Billing` | as it is | after a cancellation the period on the row is over, no pack is counted and FREE has no limit |
| `QuotaResetsAtPeriodEnd` (`subscription.py:114`) | `Billing` | as it is | between the end of a period and its renewal event packs are counted in no period (`billing_service.py:410`) |
| `SentOnce` | `Career` | as it is | two requests read DRAFTED, both send (`action_executor.py:140`) |
| `OneActive` (`candidate_profile.py:68`) | `Background` | as it is | an import makes any version ACTIVE and archives none (`profile_import.py:1599`) |
| `SourcesWereSearched` (`web_search.py:14`) | `Background` | as it is | a failing search is answered with mock data although a key is set (`web_search.py:510`) |
| `CaptureIsInterpreted` | `Market` | as it is | the field the capture reads from the gate does not exist (`extension.py:125`): the error is caught and nothing is interpreted |
| `CachedDemoIsDemo` | `Market` | as it is | a demo answer from the cache says `is_demo` False |
| `RolesAreText` | `Market` | as it is | a capture stores a role as a record, the radar then raises on it (`extension.py:232`) |
| `ReminderIsToCome` (`application_timeline.py:81`) | `Market` | as it is | `follow_up_sent` stays TRUE when the date is moved |

### Other divergences met while modelling

The models do what the code does in all of these; they are listed because a comment, a
name or a test suggests something else.

- `propagation_engine.py:288` calls `func.case(..., else_=0)`, which SQLAlchemy 2 rejects: the query that aggregates cannot be
  built, the task swallows the error, and no adjustment is ever made or rolled out. The task itself,
  `propagation_sweep`, is neither in the `include` of the Celery app (`celery_app.py:38-47`) nor in its `beat_schedule`
  (155-176), so that nothing runs it, and `record_outcome` and `record_from_application_stage` have no caller.
  `contact_type` is never recorded, and an interview that was recorded hides a later hire.
- `user_data_wipe.py`: a failing statement aborts the PostgreSQL transaction, the commit then rolls back, while the
  counts that were returned say "deleted".
- A shadow row is committed before its task is published: a refused message leaves GENERATING. Deleting it leaves the
  object in the bucket.
- A crash of `run_llm_task` between the render message and the detail message means phase 2 is never published, and so does a
  broker that refuses either; a run without a job description ends phase 2 as "skipped_no_jd" and stays labelled "quick";
  `run_detail_task` has no `on_failure`; who labels reports writes back the ones read earlier, detailed ones included.
- A connection and a disconnection of a mailbox that overlap may leave it inactive with live tokens: each
  writes only what differs from the row it read (`scan_service.py:44-75`, `97-103`).
- `_repair_truncated_json` closes `]` before `}`. `call_text` caches answers nobody has parsed, and answers of the
  fall-back under the key of the cheaper model; it falls back on 4xx too, `call_structured` never does.
- `auth_service.py:119`: the hash cleared on reuse of a refresh token is rolled back with the request that raises
  (`test_auth.py:303` looks at the object only). `change_password` keeps the session; a reset link works again within its hour
  although `tokens.py` says it does not.
- `routes/whatsapp.py:175` says a verified number is needed for `/send`; the code does not ask. A failed send leaves
  the code, the count and the former number. STOP and MODE in the webhook change nothing.
- The highest multiplier of a score is 1.9 and not "2.0x". `scored_by` says
  "claude" after its fall-back. The weekly WhatsApp quota is counted and not enforced; the radar's `fit_score` key is never set,
  and openings carry "date" where "posted_date" is read.
- `linkedin-search.js:118` labels people of the pool "1st" although the overlay ranks weak labels as 2nd; `created` of
  a sync is always 0; `import_connections` "never crashes on constraint violations", but a refused row aborts the
  transaction; `add_conversation` appends what it has imported before.
- `run_deep_scan` stores every message as stage "unknown", so a later sync skips them; the first pattern that matches makes a
  rejection that says thanks "applied" (`extractor.py:37`). SYNCING is never visible to others.
- Nothing sets `calendar_enabled`; the calendar sync uses the token without refreshing it and takes a failing answer for an
  empty calendar. `check_followup_reminders` marks rows and sends nothing. `report_failed` overwrites SUBMITTED.

### Bounds and fairness of the pipeline

Bounds. Three slots are enough for the interleavings that matter for one run:
two executions of `run_llm_task` (parser and poll) and a render, or a parse, an
`run_llm_task` and a render; `Send` waits for a free slot, which only removes
behaviours. One retry per task reaches both the retried and the exhausted case.
One fault of a kind reaches each fault at each point. What needs more of anything is
covered by the proofs, which have no bounds. With two runs in play, faults and the retries of `run_llm_task` and
`render_docx_task` are left to the instance with one. `FreeSlot` chooses one free slot;
the slots are interchangeable, so the choice loses nothing, and it keeps the
symmetry of `Tasks` sound (symmetry is only used in runs without liveness).

Fairness. `TaskStep(t)` is weakly fair for every slot: a worker that has a
message goes on, and Celery delivers a queued message to a worker. The fairness is on the whole
task, so a task may take its failing branch whenever it is open; what is excluded is only
standing still. `UploadDispatch`, `CreateCommit` and `ResumeDispatch` are weakly
fair: a request that has begun ends. Users, deletions and faults have no
fairness. `PolledSpec` adds weak fairness of `ResumeClaim`: the browser polls a
run until it is terminal (`frontend`), which is what the docstring of
`_maybe_resume_created_job_run` relies on. A poll alone is not enough for `AcceptedRunEnds`: it must find the CV parsed, and what it
claims must still be carried to the end; a CV that failed or is deleted excuses the run, and so does a fault.
Hard kills and lost messages are excluded from the liveness run: the code has
no sweeper, so after one of them a run does stay where it was (see the hazards). It has no
retries either, which keeps it small: a retry is the same task in a new message, with fewer left.

### Bounds of the other parts

Two checkouts are what a second subscription, and a canceled one before a new one,
need; two handlers are what mixing columns needs. One late, one repeated and one lost
event reach each event and each handler. Three moments with a period of one hold two
renewals, and a moment after the first period is over; the FREE and STARTER limits are one pack, the smallest
that can be exceeded, and three packs with two under way are one recorded and two that race. Three requests are two that race and one that sees what they
left. These runs have safety only: neither Stripe nor a user is obliged to act.

In the four larger runs each bound reaches the case it is there for. *Career*: two editors, requests or batches are what a race
needs; three signals of two users are two of one user, for two learners to meet at, and one of another, for a sweep that goes on to the
next user; `PerUser` 1 and `MemorySize` 1 are limits that are reached, `UserBatch` 2 is not. *Background*: nine characters hold an object in a list
with a string and an escape in it, cut off anywhere; two messages of each report task and a crash are second executions, and redeliveries beside them; two versions are the least that can both be active. *Accounts*: three tokens and two epochs are a
login, a rotation and a login after a logout; nine moments hold three windows of three; four threads are two
talks under two spellings; two introductions are the duplicate. *Market*: lists of two hits (`MaxFound`)
are one that is merged and one that is not; two rows and two signals are a pair to compare; `Ages` holds a fresh
and an old one on both sides of the thresholds; two tries are a task that is retried and one that is
exhausted; one message, one meeting and one form with two clerks are a conflict; `LastDay` 1 is a reminder before and after. The mailbox
with two edits has no deep scan beside them, and with deep scans one edit, which keeps the product small; the proofs have no such limit. Six of
the eleven fetchers are enough for every kind of merge. The thresholds, weights and rules of the code are in the modules,
not in the configurations, except where a small number stands for a larger (10 outcomes, 50 signals, 2 hours,
30 minutes), which the constants name.

Fairness of these: `Background` assumes that a published shadow task goes on, which `GenerationEnds` needs; no user, fault or
redelivery is fair. `Career`, `Accounts` and `Market` have safety only: nothing in the code obliges the sweep to run.

Symmetry. `Packs`, `Billing` and `BillDisorder` permute runs, slots, checkouts, handlers and packs, and `Career` its learners: the modules and
the properties treat the members of each set alike (a `CHOOSE` takes one of several that are alike), and no liveness is checked there.

## 4. Proofs

### The pack pipeline

`PackPipelineProofs` proves, for every set of runs, every set of slots and all bounds, from
the two named assumptions of `PipelineState` (`NoRun` is no run; the bounds are
naturals):

- `Invariance`: `Spec => []PipelineInv`;
- `TypeCorrect`, `CompletedIsDownloadable`, `ChargesAreDue`, `RendersArePlanned`,
  `LlmWaitsForParse`: the safety properties, as consequences;
- `Refinement`: `Spec => PipelineDelivers`.

None of the safety properties is inductive alone. A render that is "queued" can only be said to
have a plan if the `run_llm_task` that sends it has written it (`ChainHasPlan`);
COMPLETED implies a stored file only because no execution gets to the commit
before its upload (`RenderInOrder`), because a stored file is only stored for a planned
run (`StoredInOrder`), and because nothing ever clears a plan or a key;
a message to `run_llm_task` implies parsed content only through the parser's
own position (`ParsedHasContent`), through the upload preceding everything else
(`UploadFirst`), and because no later write takes the content away.
`PipelineInv` is the conjunction; listed as an invariant of `Packs`, it holds there.

The argument: lemmas about the helpers on messages come first (what `GoTo`,
`Ack`, `Retry`, `Send` do to the slots, in terms of kind, run and position); then
one lemma per component (`ParseStep`, requests, `LlmStep`, `RenderStep`, faults)
that its actions preserve `PipelineInv`, with a case per action. For the refinement,
`Quiet` says that a step leaves the four mapped variables alone; all actions
but four are quiet, and those four are, under the invariant, a step of
`PackDelivery` or a stutter.

### The subscription

`SubscriptionBillingProofs` assumes `NamesAssumption` (the names are distinct, tiers are
prices), `NumbersAssumption` and `PlansAssumption`, and proves for any number of checkouts, handlers and faults:

- `BillingInvariance` (`Spec => []BillingInv`), and from it `TierIsBought` and `BillingTypes`. The
  tier on the row is only safe because everything a tier may come from is: Stripe's
  own state (`StripeHeld`), the snapshots in events on their way (`EventsHeld`), what
  handlers hold of both and the tiers of the rows they have read (`HooksHeld`). `held` only
  grows, which is why a snapshot may be as old as it likes.
- `RowMirrorsStripe`: `InOrder => (Spec => []MirrorsStripe)`. `InOrder` says what the run `Billing` says by its
  bounds: no event is late or lost, one handler at a time, one live subscription at a time. Any number of
  changes, renewals, cancellations, repeated events and checkouts that follow one another is
  covered. Without `InOrder` the statement is false (see the table above). The invariant is `Tale`: what is still
  to be told of a subscription - by an event on its way, by the handler that has taken it, or by the row
  itself - is what Stripe has (`LiveIsTold`), or that it ended (`EndIsTold`); a payment that fails repeats what
  the row shows (`Echo`); and no event of an older subscription comes after the first of a newer one
  (`InTurn`, `HookInTurn`, `RowInTurn`).
- `PaidLimitHolds`: under `InOrder` a request whose reading is still the row starts no run beyond the plan that is paid for. The row shows the
  period of Stripe (`Tale`), Stripe renews on time (`LiveWithinPeriod`), so what `check_quota` counts holds what was recorded in that period.
- `FreeOverrun`, under no hypothesis: who never paid has no period on the row, nor on any row a request has read, so every
  month counts (`FreeInv`); and the records of a month with the packs that run stay below the limit plus `MaxOpen`, since a request
  is only let through below the limit, and what runs was counted when it began or is among the `MaxOpen`.

### Credits

`CreditLedgerProofs` assumes `CreditAssumption`. `CreditTypes`: type correctness, with overlap and
grants. `TotalsAgreeWithoutGrants`, under `~DemoMode`: `SpendOnlyInv` says of every
reading a request holds what it says of the row; a column-wise flush writes the pair of
balance and `lifetime_spent` of one reading or none, hence they agree. `SerialAccount`, under
`~Overlap`: `Spec => ImplementsAccount`; the invariant `SerialInv` says that an open
request is alone and that what it has read is still there, so a commit is one posting.

### Career, LLM client and forms

`CareerProofs` has eight results, each with an invariant of its own.

- `StagesAreStamped`: a write sets the columns that differ from a *reading* that may be old. `BoardInv` adds
  `ReadsAreKept`: a time that a reading has is still there, because no write clears one; so a
  stage that is written either brings its time or the row had it already.
- `AnsweredWasSent` and `SerialSendsAreSettled`, from `ActInv`: an action nobody raced for has one open request at most, and what
  that request checked when it read is still so (`Checked`); one that is to be answered was sent, raced for or not.
- `OverrunHasALimit`: `QuotaInv` keeps room for a batch of every request that was let through.
- `OneFormOneApplication`: `TrailInv` says of a form that is not excused (`FormInOrder`) that one report has it open at most,
  with the application it still has, and that this is the only one it opened.
- `AnswersAreOwn`: `LlmInv` is about every entry of the cache (`EntryInOrder`) and every call (`CallInOrder`), and gives
  `AnswerIsOwn`: the answer is to the prompt of the caller, by the model of its task or its fall-back, within the bound on requests.
- `LearningIsComplete`, for any signals, users, types and transactions: `RowOK` ties a row to the scores given so far, since rounding the mean of n
  outcomes moves the sum behind it by n/2 units at most (`RoundedIs`, `MeanOK`). `LearnInv` adds that of a user nobody disturbed one
  transaction has signals at most, that those were not counted yet, and that the row it holds counts what was counted and what it has
  learned itself (`SettledTxn`), so that its commit makes them agree again; a row that was wiped under it makes the commit fail.
- `BothScannersFollow`, for texts of any length and depth: `TextInv` counts the open brackets of a kind from a place on
  (`Count`), and says that both scanners keep one escape flag, although one of them starts in the middle of the text.

### Accounts, wipe, mailbox and profiles

`AccountProofs`: `NoSessionOutlivesLogout` (`SessionInv` adds that a device with a refresh in flight has a token to rotate), `WipeIsAtomic`
(`WipeInv`: a transaction in which no statement failed has emptied every table before the next one), `LiveTokensAreOvertaken` (`TokenInv`: an
edit or a sync that was not crossed has read what the row still says, and from its lock on a sync holds the row; an uncrossed write therefore
leaves an active account, or one without tokens),
`ScansAreAttended` (`ScanInv`), and `OnlyImportsAndOverlaps` (`ProfileInv`: what a request has read is still so, as
far as it decides who is active, or the request is marked).

### The background

`BackgroundProofs` has seven results, for any number of rows, executions, signals, scans and tasks.

- `OnePackPerShadow`: `ShadowInv` ties the position of an execution to the row (`ShadowInOrder`): one that has loaded a row works on
  a row that is not terminal yet, and one that mails has just written the only pack.
- `ReportsAreSettled`: while nothing was given up, the reports are settled, or a message of `run_llm_task` owes phase 2 (`Owing`), or a detail task
  stands that will write its label (`Pending`; one that read the label "failed" will not): `SettledOrPending`. Only detailed
  reports get that label, by a write of both (`LabelIsTrue`), and a label is only put on reports that are there (`ReportsBeforeDetails`).
- `AlertsNeedARace`: the key in Redis lives as long as the alert that was noted is younger than the throttle (`AlertInv`);
  a task that saw no key is excused until another alert is noted.
- `RescansNeedARace`, from `MarketInv`: while a scan searches only others add rows (`Searching`),
  and the rows of a scan are its own until it ends (`Owning`). The ids of new rows are consecutive and the interpretations of a
  row are written by one scan.
- `CorroborationIsCheap`: the items of the radar are what the adapters can make (`ItemOK`). One item more
  never takes the posting, a salary or a better tier away, nor makes the news older (`MergeTells`, `Grows`). Signal strength and conviction
  then only gain, recency and competition may lose, and their weighted sum loses 6, 5 or 7.5 points at most (`EvidenceLoss`); the tier multiplies
  it (`ProductLoss`), and the two roundings are within `Cost` (`ScoreLoss`).
- `RoleBeatsNoise`: the vacancies are the ranking of a list (`SearchInv`), a ranking is in the order
  of scores (`RankedByScore`), and two words of the role weigh more than the noise of two companies can differ, capped
  or not (`RoleScoresMore`).
- `StrongestSurvives`: whatever was collected when the last future completed (`EngineInv`), every signal is in a bucket of its company, no
  two buckets are of one company, and none holds another company's (`BucketsOK`, kept by each signal that is put in one: `AddKeeps`).
  That takes names that a second normalisation leaves alone, since a bucket is looked up under its normalised key. In a bucket
  there is a strongest signal of each type (`StrongestIs`), and no boost takes it below what it was, or below 1.0 (`BoostedIs`).

### Numbers, requests and the network

`ContactProofs`:

- `VerifiedNumberHadTheCode`: unless two requests of a user were open at once, or a send failed half-way (`blurred`), the code that
  Redis holds went to the number that is on the row or is being set (`InTurn`).
- `WindowsAreLimited`, in both directions, for any limit and any window: the sorted set holds all calls of the window that
  ends now, maybe older ones (`LimitInv`); the calls of a window are finitely many (`WindowCount`).
- `DuplicatesNeedOverlap`: what a request saw missing is missing until another inserts (`StillMissing`).
- `ThreadsNeedOverlapToGo`: of every thread a row stays that no clean-up is about to delete, unless another one has
  deleted since it read (`SparesOne`).
- `ConnectionsLead`: the answer is the beginning of the list that is scored and sorted, then people that were not scored
  (`TopUpKeeps`); scores are sums (`ScoresAre`), the connection gets fifty points and the other may lead by thirty for the
  function or forty for the seniority (`Ahead`). `DiscoverInv` adds that the connections are finitely many, which makes the
  lists of them lists.

### Orders without induction

The code sorts lists in several places, and what a recursive sort returns cannot be proved here. The modules proved about
say what a stable sort gives instead: the element at place n is the one that has n elements up to it (`InOrder`, `Increasing`).
`OrderLemmas` proves, from the library's facts about cardinality, that in a total order every element of a finite set
has a place of its own and every place is taken (`PlacesAreRanks`, `EachPlaceIsTaken`), so that the list is in this
order and holds every element once (`RankedLists`, `AscendingLists`). That TLC evaluates the same definitions on lists
with ties is the check that they are the sort that is meant.

Induction on a number is done with a set too: a finite set of numbers that is not empty has a least element (`Extremes`), so
a property of 0 that passes from each number to the next holds up to any bound (`UpTowards`).

### Accounts, wipe, mailbox and profiles, and the assumptions

The assumptions are the named ones of the modules: a set of names does not contain the value that stands for "none"; counted
sets are finite, and sets of which one is chosen are not empty; bounds, ages, thresholds and windows are naturals; and what comes from outside
as a list - pages of vacancies (`PagesAssumption`), cards and openings (`RequestedAssumption`), answers of providers
(`AnswersAssumption`), hits of searches (`EngineAssumption`), people found (`FoundAssumption`), imports and syncs (`ImportsAssumption`, `SyncsAssumption`) - is a finite list, of records with the
fields the code reads. TLC evaluates each of them in the run of its module.

### Only model-checked

Liveness, and everything with `ENABLED`, is beyond the prover: `ParsingEnds`, `AcceptedRunEnds`, `DeliveredIsCharged`,
`BegunRunsEnd` and `GenerationEnds` stay with TLC. Every invariant of a passing run is proved. The type invariants are in no
run's list: each can be added to the run of its module, and holds there.

## 5. Not modelled

`PROJECT.json` lists every component with its status. In the components that are "partly" modelled, what is missing has no state or
no hazard the models could show:

- Pack requests: `PATCH /jobs/{id}/stage` (`jobs.py:177-222`), which moves `pipeline_stage`, `notes` and `applied_at`, columns no task reads.
- Outcome learning: propagation and rollout, which the code cannot reach (see the divergences).
- CV upload: the build-mode, template and from-scratch routes. Registration and the edit of an account: one row.
- Subscriptions: the customer portal, the signature check, the grant that demo mode offers.
- Board: the log `application_events`, which nothing reads back, and the queries of analytics.
- Mailbox and calendar: the prose of the report, the suggestions. Network: search queries, keywords of message classes, CSV columns.
- Market: five fetchers that differ in their query, `value_engine`, and all wording.
- Profiles: the text of fields. Auto-apply: the answer profile and the mapping to form fields.
- Retrieval: contact search and the extraction of job descriptions. Middleware: headers and error bodies.
- Feature gating: the table of features per tier.

Not modelled at all: interviews, outreach, referrals, insights and analytics (requests over single rows, read-only queries),
document parsing and rendering (formats; their outcomes - result, error, time limit - are choices of the
tasks), notifications and monitoring (no state), migrations, and the frontend and the extension (presentation; the poll of a run
is in the fairness of `PackPipeline`).
