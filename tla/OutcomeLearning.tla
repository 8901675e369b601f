--------------------------- MODULE OutcomeLearning ---------------------------
(* What the outcomes of market signals teach: OutcomeTracker,               *)
(* LearningUpdater and the task propagation_sweep.  A request that records  *)
(* an outcome, and an execution of the sweep, is a transaction at READ      *)
(* COMMITTED over a session without autoflush: it selects the signals,      *)
(* marks them, reads the user's learning row once, works on what it read    *)
(* and writes at its commit.  No route calls record_outcome yet and neither *)
(* the worker's include nor its beat schedule names the sweep's module, so  *)
(* nothing is fair here: whoever calls them may do so at any time, any      *)
(* number at once.  What the sweep does after its first commit is left out: *)
(* the propagation's aggregate query raises whenever it is built            *)
(* (propagation_engine.py:288) and the task swallows that, so there is      *)
(* never an adjustment to roll out.                                         *)
EXTENDS FiniteSets, Integers, Sequences

CONSTANTS Users, Signals, SignalTypes,
          UserOf, TypeOf,     \* of a signal
          Stages,             \* a board entry may be moved to
          Learners,           \* transactions that may be open at once
          UserBatch,          \* users per sweep, 100 in the code
          PerUser,            \* signals of a user per sweep, 50 in the code
          MemorySize          \* short_term_memory keeps 10

ASSUME LearningAssumption ==
  /\ IsFiniteSet(Signals) /\ UserOf \in [Signals -> Users] /\ TypeOf \in [Signals -> SignalTypes]
  /\ MemorySize \in Nat

VARIABLES signals,   \* hidden_signals
          learning,  \* user_intelligence: the learning columns
          txn,       \* the open transactions
          counted,   \* history: signals marked since their user's row was last wiped
          disturbed  \* history: users two transactions worked on at once, or
                     \* whose learning an exception cut short

learnVars == <<signals, learning, txn, counted, disturbed>>

Outcome == {"interview", "hire", "rejection", "no_response"}
HiddenSignal == [there : BOOLEAN, gone : BOOLEAN, tracked : BOOLEAN,
                 old : BOOLEAN]   \* 30 days, and the gate's result is pass or conditional

\* Rates are kept with four decimals: in units of 1/10000.
One == 10000
OutcomeScore(o) ==
  CASE o = "hire" -> One [] o = "interview" -> 5000
    [] o = "rejection" -> 1000 [] o = "no_response" -> 0

\* The application stages that are outcomes, and the outcome each one is.
StageToOutcome(stage) ==
  CASE stage = "interview" -> {"interview"} [] stage = "offer" -> {"hire"}
    [] stage = "rejected" -> {"rejection"} [] OTHER -> {}

-----------------------------------------------------------------------------
\* round(x / n), halves to even, for an integer x of either sign.
RoundedQuotient(x, n) ==
  LET q == x \div n  r == x % n IN
  IF 2 * r < n THEN q ELSE IF 2 * r > n THEN q + 1 ELSE q + (q % 2)

\* One entry of a learning dimension: the incremental mean, rounded each time.
UpdateRunningMean(entry, score) ==
  LET n == entry.count + 1 IN
  [rate |-> RoundedQuotient(entry.rate * n + (score - entry.rate), n), count |-> n]

KeepLast(seq) ==
  IF Len(seq) <= MemorySize THEN seq
  ELSE SubSeq(seq, Len(seq) - MemorySize + 1, Len(seq))

\* One outcome into a user's learning columns, of which sums is history: the
\* scores that went into each entry.
UpdateFromOutcome(row, type, outcome) ==
  [effect |-> [row.effect EXCEPT ![type] = UpdateRunningMean(@, OutcomeScore(outcome))],
   memory |-> KeepLast(Append(row.memory, outcome)),
   samples |-> row.samples + 1,
   sums |-> [row.sums EXCEPT ![type] = @ + OutcomeScore(outcome)]]

NoSignal == [there |-> FALSE, gone |-> FALSE, tracked |-> FALSE, old |-> FALSE]
NewRow == [effect |-> [t \in SignalTypes |-> [rate |-> 0, count |-> 0]],
           memory |-> <<>>, samples |-> 0, sums |-> [t \in SignalTypes |-> 0]]

\* rows: the learning rows the session holds, as changed so far; inserted and
\* loaded: whose; lost: a row it loaded was deleted since; locked: the signals
\* whose rows it has updated.
Idle == [kind |-> "idle", outcome |-> "none", waiting |-> {}, marks |-> {}, todo |-> {},
         locked |-> {}, rows |-> [u \in Users |-> NewRow], loaded |-> {},
         inserted |-> {}, lost |-> FALSE]

LearnInit ==
  /\ signals = [s \in Signals |-> NoSignal]
  /\ learning = [u \in Users |-> {}]   \* at most one row (user_id is unique)
  /\ txn = [l \in Learners |-> Idle]
  /\ counted = {} /\ disturbed = {}

\* The market scans store a signal; 30 days go by for one of good quality (one
\* of poor quality may be any that never turns old).
DetectSignal(s) ==
  /\ ~ signals[s].there /\ ~ signals[s].gone   \* a deleted id does not come back
  /\ signals' = [signals EXCEPT ![s].there = TRUE]
  /\ UNCHANGED <<learning, txn, counted, disturbed>>

ThirtyDays(s) ==
  /\ signals[s].there /\ ~ signals[s].old
  /\ signals' = [signals EXCEPT ![s].old = TRUE]
  /\ UNCHANGED <<learning, txn, counted, disturbed>>

-----------------------------------------------------------------------------
\* Mistake: the query forgets outcome_tracked.
UntrackedOrNot(u) == {s \in Signals : signals[s].there /\ UserOf[s] = u}

Untracked(u) == {s \in Signals : signals[s].there /\ UserOf[s] = u
                                  /\ ~ signals[s].tracked}

\* The signals of a user that an outcome at a company matches.  Which names
\* match, and which signals the user hides at the time, is data.
FindMatchingSignals(u) == SUBSET Untracked(u)

\* The users an open transaction has worked on.
Touched(l) == {UserOf[s] : s \in txn[l].marks}
NoteOverlap(l, u) ==
  disturbed' = IF \E other \in Learners \ {l} : u \in Touched(other)
             THEN disturbed \cup {u} ELSE disturbed

\* record_outcome reads the signals it is about.
RecordOutcome(l, u, outcome) ==
  /\ txn[l].kind = "idle"
  /\ \E S \in FindMatchingSignals(u) :
        /\ S # {}
        /\ txn' = [txn EXCEPT ![l] = [Idle EXCEPT !.kind = "matched", !.outcome = outcome,
                                                 !.marks = S, !.todo = S]]
  /\ NoteOverlap(l, u)
  /\ UNCHANGED <<signals, learning, counted>>

\* The service's operation for a board move.
RecordFromApplicationStage(l, u, stage) ==
  \E o \in StageToOutcome(stage) : RecordOutcome(l, u, o)

\* Its UPDATE by id, whatever became of them: it locks the rows it finds until
\* the commit, so it waits for a transaction that has locked one of them.
Unlocked(l) == \A other \in Learners \ {l} : txn[other].locked \cap txn[l].marks = {}
MarkSignals(l) ==
  /\ txn[l].kind = "matched" /\ Unlocked(l)
  /\ txn' = [txn EXCEPT ![l].kind = "record",
                        ![l].locked = {s \in txn[l].marks : signals[s].there}]
  /\ UNCHANGED <<signals, learning, counted, disturbed>>

\* The users with an untracked signal of any quality, dismissed or not, a batch
\* of them in no stated order.
UsersToSweep ==
  LET waiting == {u \in Users : Untracked(u) # {}} IN
  {B \in SUBSET waiting : Cardinality(B) = UserBatch
                          \/ (B = waiting /\ Cardinality(B) < UserBatch)}

SweepStart(l) ==
  /\ txn[l].kind = "idle"
  /\ \E B \in UsersToSweep :
        /\ B # {}
        /\ txn' = [txn EXCEPT ![l] = [Idle EXCEPT !.kind = "sweep", !.waiting = B,
                                                 !.outcome = "no_response"]]
  /\ UNCHANGED <<signals, learning, counted, disturbed>>

\* The next user's old signals, without those the user hides at the time, and
\* some of them if there are too many; the ORM writes their marks at the commit.
Due(u) == {s \in Untracked(u) : signals[s].old}
SweepNoResponse(l, u) ==
  /\ txn[l].kind = "sweep" /\ txn[l].todo = {} /\ u \in txn[l].waiting
  /\ \E S \in SUBSET Due(u) :
        /\ Cardinality(S) <= PerUser
        /\ txn' = [txn EXCEPT ![l].waiting = @ \ {u}, ![l].marks = @ \cup S, ![l].todo = S]
        /\ IF S = {} THEN UNCHANGED disturbed ELSE NoteOverlap(l, u)
  /\ UNCHANGED <<signals, learning, counted>>

\* update_from_outcome for one of the signals.  The first for a user reads the
\* row or, finding none, inserts one: that waits for another insert not committed
\* yet, and its flush writes the marks the sweep has made so far.
Held(l, u) == u \in txn[l].loaded \cup txn[l].inserted
LearnWith(l, s, row, loaded, inserted, locked) ==
  txn' = [txn EXCEPT ![l].todo = @ \ {s},
            ![l].rows[UserOf[s]] = UpdateFromOutcome(row, TypeOf[s], txn[l].outcome),
            ![l].loaded = @ \cup loaded, ![l].inserted = @ \cup inserted,
            ![l].locked = @ \cup locked]

LearnFrom(l, s) ==
  LET u == UserOf[s] IN
  /\ s \in txn[l].todo /\ txn[l].kind \in {"record", "sweep"}
  /\ \/ Held(l, u) /\ LearnWith(l, s, txn[l].rows[u], {}, {}, {})
     \/ ~ Held(l, u) /\ \E row \in learning[u] : LearnWith(l, s, row, {u}, {}, {})
     \/ /\ ~ Held(l, u) /\ learning[u] = {}
        /\ \A other \in Learners : u \notin txn[other].inserted
        /\ txn[l].kind = "sweep" =>
             Unlocked(l) /\ \A x \in txn[l].marks : signals[x].there
        /\ LearnWith(l, s, NewRow, {}, {u},
                     IF txn[l].kind = "sweep" THEN txn[l].marks ELSE {})
  /\ UNCHANGED <<signals, learning, counted, disturbed>>

\* An exception in the loop is swallowed: the signals stay marked.
LearningFails(l) ==
  /\ txn[l].todo # {} /\ txn[l].kind \in {"record", "sweep"}
  /\ txn' = [txn EXCEPT ![l].todo = {}]
  /\ disturbed' = disturbed \cup {UserOf[s] : s \in txn[l].todo}
  /\ UNCHANGED <<signals, learning, counted>>

\* The commit writes the marks (with the outcome, which nothing here reads) and
\* the rows by id: it fails if one is gone or if somebody's row was there before
\* the one it inserts.
CommitLearning(l) ==
  /\ txn[l].kind # "idle" /\ txn[l].todo = {} /\ txn[l].waiting = {} /\ ~ txn[l].lost
  /\ txn[l].kind = "sweep" => Unlocked(l) /\ \A s \in txn[l].marks : signals[s].there
  /\ \A u \in txn[l].inserted : learning[u] = {}
  /\ signals' = [s \in Signals |-> IF s \in txn[l].marks /\ signals[s].there
                   THEN [signals[s] EXCEPT !.tracked = TRUE] ELSE signals[s]]
  /\ learning' = [u \in Users |-> IF Held(l, u)
                                  THEN {txn[l].rows[u]} ELSE learning[u]]
  /\ counted' = counted \cup txn[l].marks
  /\ txn' = [txn EXCEPT ![l] = Idle]
  /\ UNCHANGED disturbed

\* The database refuses a statement or the commit, or the process is lost: of
\* the transaction nothing remains.
Rollback(l) ==
  /\ txn[l].kind # "idle"
  /\ txn' = [txn EXCEPT ![l] = Idle]
  /\ UNCHANGED <<signals, learning, counted, disturbed>>

\* DELETE /applications/wipe-all-for-testing on these tables, which waits for
\* the locks on the rows it deletes.
Wipe(u, includeIntelligence) ==
  /\ \A l \in Learners : \A s \in txn[l].locked : UserOf[s] # u
  /\ signals' = [s \in Signals |-> IF UserOf[s] = u /\ signals[s].there
                   THEN [NoSignal EXCEPT !.gone = TRUE] ELSE signals[s]]
  /\ IF includeIntelligence
     THEN /\ learning' = [learning EXCEPT ![u] = {}]
          /\ counted' = {s \in counted : UserOf[s] # u}
          /\ txn' = [l \in Learners |-> IF u \in txn[l].loaded
                       THEN [txn[l] EXCEPT !.lost = TRUE] ELSE txn[l]]
     ELSE UNCHANGED <<learning, counted, txn>>
  /\ UNCHANGED disturbed

LearnNext ==
  \/ \E s \in Signals : DetectSignal(s) \/ ThirtyDays(s)
  \/ \E l \in Learners :
       \/ \E u \in Users : SweepNoResponse(l, u)
       \/ \E u \in Users, stage \in Stages : RecordFromApplicationStage(l, u, stage)
       \/ \E s \in Signals : LearnFrom(l, s)
       \/ MarkSignals(l) \/ SweepStart(l) \/ LearningFails(l) \/ CommitLearning(l) \/ Rollback(l)
  \/ \E u \in Users, all \in BOOLEAN : Wipe(u, all)

LearnSpec == LearnInit /\ [][LearnNext]_learnVars

-----------------------------------------------------------------------------
LearnTypeOK ==
  /\ signals \in [Signals -> HiddenSignal]
  /\ counted \in SUBSET Signals /\ disturbed \in SUBSET Users
  /\ \A l \in Learners : txn[l].todo \subseteq txn[l].marks /\ txn[l].marks \subseteq Signals

\* The samples of a row, numbered in each entry.
Samples(effect) == UNION {{t} \X (1..effect[t].count) : t \in SignalTypes}
Magnitude(x) == IF x < 0 THEN -x ELSE x
AtMost(x, y) == IF x <= y THEN x ELSE y
OfBoth(T, u, t) == {s \in T : UserOf[s] = u /\ TypeOf[s] = t}
EntryCount(u, t) == IF learning[u] = {} THEN 0
                    ELSE (CHOOSE r \in learning[u] : TRUE).effect[t].count

\* Unless two transactions worked on a user at once or an exception cut one
\* short, every signal that was marked with an outcome taught the user's row
\* exactly once, whatever is wiped, dismissed, rolled back or swept in between
\* (outcome_tracker.py:127-161, 220-259).  In every case the columns of a row
\* agree with each other: the sample count is the sum of the entries' counts,
\* the memory is as long as it, and the incremental mean of n outcomes, rounded
\* at each, is at most (n+1)/4 units of its last decimal off the true one
\* (learning_updater.py:99-144).
LearningCoversOutcomes ==
  \A u \in Users :
    /\ u \notin disturbed =>
         \A t \in SignalTypes : EntryCount(u, t) = Cardinality(OfBoth(counted, u, t))
    /\ \A s \in Signals : signals[s].tracked => s \in counted
    /\ \A row \in learning[u] :
         /\ \A t \in SignalTypes :
               LET e == row.effect[t] IN
               4 * Magnitude(e.rate * e.count - row.sums[t]) <= e.count * (e.count + 1)
         /\ row.samples = Cardinality(Samples(row.effect))
         /\ Len(row.memory) = AtMost(MemorySize, row.samples)
=============================================================================
