--------------------------- MODULE BackgroundProofs ---------------------------
(* What runs in the background: shadow applications, detailed reports, the   *)
(* alerts of the scout, the scans of the hidden market, the scores of the    *)
(* radar, the ranking of the searches and the buckets of the signal engine,  *)
(* for any number of rows, messages, signals and requests and any bound on   *)
(* faults.                                                                   *)
EXTENDS ShadowApplications, DetailReports, SignalEngine, ScoutResults, Radar, OrderLemmas,
        SequenceTheorems

-----------------------------------------------------------------------------
(* Shadow applications.                                                    *)

\* An execution that has loaded its row works on one that is not terminal; one
\* that mails has just written the pack; a CV that was made is in the bucket.
ShadowInOrder(s) ==
  /\ gen[s] \in {"drafting", "tailoring", "persisting"} =>
        shadow[s].status \in {"generating", "deleted"}
  /\ gen[s] = "mailing" => delivered[s].packs = 1 /\ delivered[s].mails = 0
  /\ pack[s].cv => s \in stored

ShadowInv ==
  /\ ShadowTypeOK
  /\ PackDeliveredOnce
  /\ \A s \in Shadows : ShadowInOrder(s)

\* What the invariant says of one row.
RowInv(s) ==
  /\ shadow[s] \in ShadowApplication
  /\ gen[s] \in Running \cup {"none", "unsent", "queued", "lost"}
  /\ pack[s] \in [cv : BOOLEAN] /\ delivered[s] \in [packs : Nat, mails : Nat]
  /\ delivered[s].packs <= 1 /\ delivered[s].mails <= delivered[s].packs
  /\ delivered[s].packs = 1 => shadow[s].status \in {"completed", "deleted"}
  /\ shadow[s].status = "completed" => shadow[s].pack /\ delivered[s].packs = 1
  /\ shadow[s].cvKey => s \in stored
  /\ ShadowInOrder(s)

\* A step about row s leaves the other rows alone, so it is enough to look at s.
LEMMA OneRow ==
    ASSUME ShadowInv, ShadowTypeOK', NEW s \in Shadows, stored \subseteq stored',
           \A r \in Shadows \ {s} : /\ shadow'[r] = shadow[r] /\ gen'[r] = gen[r]
                                    /\ pack'[r] = pack[r] /\ delivered'[r] = delivered[r],
           RowInv(s)'
    PROVE  ShadowInv'
<1>1. \A r \in Shadows \ {s} : RowInv(r)'
  BY DEF ShadowInv, ShadowTypeOK, PackDeliveredOnce, RowInv, ShadowInOrder
<1>2. \A r \in Shadows : RowInv(r)'
  BY <1>1
<1>3. PackDeliveredOnce'
  BY <1>2 DEF RowInv, PackDeliveredOnce
<1>4. QED
  BY <1>2, <1>3 DEF RowInv, ShadowInv

LEMMA ShadowInitInv == ShadowInit => ShadowInv
BY ShadowFaultsAssumption
   DEF ShadowInit, ShadowInv, ShadowTypeOK, PackDeliveredOnce, ShadowInOrder,
       ShadowApplication, ShadowStatus, Running

\* A row stays a row when its pack and its key are set.
LEMMA RowKeepsType ==
    ASSUME NEW x \in [Shadows -> ShadowApplication], NEW s \in Shadows, NEW b \in BOOLEAN
    PROVE  /\ [x EXCEPT ![s].pack = b] \in [Shadows -> ShadowApplication]
           /\ [x EXCEPT ![s].cvKey = b] \in [Shadows -> ShadowApplication]
<1>1. [x EXCEPT ![s].pack = b] \in [Shadows -> ShadowApplication]
  BY DEF ShadowApplication
<1>2. [x EXCEPT ![s].cvKey = b] \in [Shadows -> ShadowApplication]
  BY DEF ShadowApplication
<1>3. QED
  BY <1>1, <1>2

\* The types and the other rows, for every kind of step about row s.
LEMMA ShadowTypeStep ==
    ASSUME ShadowTypeOK, NEW s \in Shadows,
           \/ ShadowTask(s) \/ GenerateShadow(s) \/ RaisesUncaught(s) \/ WorkerCrash(s)
           \/ HardTimeLimit(s) \/ UpdateShadowStage(s) \/ DeleteShadow(s)
    PROVE  /\ ShadowTypeOK' /\ stored \subseteq stored'
           /\ \A r \in Shadows \ {s} : /\ shadow'[r] = shadow[r] /\ gen'[r] = gen[r]
                                       /\ pack'[r] = pack[r] /\ delivered'[r] = delivered[r]
<1>0. \A k \in {"broker", "crash", "kill", "mark"} : Fails(k) =>
         shadowFaults' \in [{"broker", "crash", "kill", "mark"} -> 0..MaxShadowFaults]
  BY ShadowFaultsAssumption DEF ShadowTypeOK, Fails
<1> USE <1>0 DEF ShadowTypeOK, ShadowApplication, ShadowStatus, Running, NextStep, Exists
<1>1. CASE Publish(s)
  BY <1>1 DEF Publish
<1>2. CASE LoadInputs(s)
  BY <1>2 DEF LoadInputs
<1>3. CASE GenerateFullPack(s)
  BY <1>3 DEF GenerateFullPack
<1>4. CASE TailorCv(s)
  <2>1. \A b \in BOOLEAN : pack' = [pack EXCEPT ![s].cv = b] =>
          /\ pack' \in [Shadows -> [cv : BOOLEAN]]
          /\ \A r \in Shadows \ {s} : pack'[r] = pack[r]
    OBVIOUS
  <2>2. stored \subseteq stored' /\ stored' \subseteq Shadows
    BY <1>4 DEF TailorCv
  <2>3. /\ pack' \in [Shadows -> [cv : BOOLEAN]]
        /\ \A r \in Shadows \ {s} : pack'[r] = pack[r]
    BY <1>4, <2>1 DEF TailorCv
  <2>4. QED
    BY <1>4, <2>2, <2>3 DEF TailorCv
<1>5. CASE PersistPack(s)
  <2>1. CASE ~ Exists(s)
    BY <1>5, <2>1 DEF PersistPack
  <2>2. CASE Exists(s)
    <3>0. \A b \in BOOLEAN :
            [shadow EXCEPT ![s].status = "completed", ![s].pack = TRUE, ![s].cvKey = b]
              \in [Shadows -> ShadowApplication]
      <4>1. [shadow EXCEPT ![s].status = "completed"] \in [Shadows -> ShadowApplication]
        OBVIOUS
      <4>2. QED
        BY <4>1, RowKeepsType
    <3>1. shadow' \in [Shadows -> ShadowApplication]
      <4>1. (shadow[s].cvKey \/ pack[s].cv) \in BOOLEAN
        OBVIOUS
      <4>2. shadow' = [shadow EXCEPT ![s].status = "completed", ![s].pack = TRUE,
                                     ![s].cvKey = (shadow[s].cvKey \/ pack[s].cv)]
        BY <1>5, <2>2 DEF PersistPack
      <4>3. QED
        BY <3>0, <4>1, <4>2
    <3>2. delivered' \in [Shadows -> [packs : Nat, mails : Nat]]
      BY <1>5, <2>2 DEF PersistPack
    <3>3. QED
      BY <1>5, <2>2, <3>1, <3>2 DEF PersistPack
  <2>3. QED
    BY <2>1, <2>2
<1>6. CASE SendMail(s)
  BY <1>6 DEF SendMail
<1>m. MarkShadowFailed(s) =>
        /\ shadow' \in [Shadows -> ShadowApplication]
        /\ shadowFaults' \in [{"broker", "crash", "kill", "mark"} -> 0..MaxShadowFaults]
        /\ \A r \in Shadows \ {s} : shadow'[r] = shadow[r]
  <2>1. CASE Fails("mark") /\ UNCHANGED shadow
    BY <2>1
  <2>2. CASE shadow' = [shadow EXCEPT ![s].status = "failed"] /\ UNCHANGED shadowFaults
    BY <2>2
  <2>3. CASE UNCHANGED <<shadow, shadowFaults>>
    BY <2>3
  <2>4. QED
    BY <2>1, <2>2, <2>3 DEF MarkShadowFailed
<1>7. CASE MarkByTask(s)
  BY <1>7, <1>m DEF MarkByTask
<1>8. CASE OnFailure(s)
  BY <1>8, <1>m DEF OnFailure
<1>9. CASE GenerateShadow(s)
  BY <1>9 DEF GenerateShadow
<1>10. CASE RaisesUncaught(s)
  BY <1>10 DEF RaisesUncaught
<1>11. CASE WorkerCrash(s)
  BY <1>11 DEF WorkerCrash
<1>12. CASE HardTimeLimit(s)
  BY <1>12 DEF HardTimeLimit
<1>13. CASE UpdateShadowStage(s)
  BY <1>13 DEF UpdateShadowStage
<1>14. CASE DeleteShadow(s)
  BY <1>14 DEF DeleteShadow
<1>15. QED
  BY <1>1, <1>2, <1>3, <1>4, <1>5, <1>6, <1>7, <1>8, <1>9, <1>10, <1>11, <1>12, <1>13, <1>14 DEF ShadowTask

LEMMA ShadowStep == ShadowInv /\ [ShadowNext]_shadowVars => ShadowInv'
<1> SUFFICES ASSUME ShadowInv, [ShadowNext]_shadowVars PROVE ShadowInv'
  OBVIOUS
<1>1. CASE UNCHANGED shadowVars
  BY <1>1 DEF shadowVars, ShadowInv, ShadowTypeOK, PackDeliveredOnce, ShadowInOrder
<1>2. ASSUME NEW s \in Shadows,
             \/ ShadowTask(s) \/ GenerateShadow(s) \/ RaisesUncaught(s) \/ WorkerCrash(s)
             \/ HardTimeLimit(s) \/ UpdateShadowStage(s) \/ DeleteShadow(s)
      PROVE  ShadowInv'
  <2>0. /\ RowInv(s)
        /\ DOMAIN shadow = Shadows /\ DOMAIN gen = Shadows /\ DOMAIN pack = Shadows
        /\ DOMAIN delivered = Shadows
    BY DEF ShadowInv, ShadowTypeOK, PackDeliveredOnce, RowInv
  <2>t. ShadowTypeOK'
    BY <1>2, ShadowTypeStep DEF ShadowInv
  <2>s. /\ shadow'[s] \in ShadowApplication
        /\ gen'[s] \in Running \cup {"none", "unsent", "queued", "lost"}
        /\ pack'[s] \in [cv : BOOLEAN] /\ delivered'[s] \in [packs : Nat, mails : Nat]
    BY <2>t DEF ShadowTypeOK
  <2> USE <2>0, <2>s DEF NextStep, RowInv, ShadowInOrder, ShadowApplication, ShadowStatus,
                         Running, Exists, IsTerminal
  <2>1. Publish(s) => RowInv(s)'
    BY DEF Publish
  <2>2. LoadInputs(s) => RowInv(s)'
    BY DEF LoadInputs
  <2>3. GenerateFullPack(s) => RowInv(s)'
    BY DEF GenerateFullPack
  <2>4. TailorCv(s) => RowInv(s)'
    BY DEF TailorCv
  <2>5. PersistPack(s) => RowInv(s)'
    BY DEF PersistPack
  <2>6. SendMail(s) => RowInv(s)'
    BY DEF SendMail
  <2>7. MarkByTask(s) => RowInv(s)'
    BY DEF MarkByTask, MarkShadowFailed
  <2>8. OnFailure(s) => RowInv(s)'
    BY DEF OnFailure, MarkShadowFailed
  <2>9. GenerateShadow(s) => RowInv(s)'
    BY DEF GenerateShadow
  <2>10. RaisesUncaught(s) => RowInv(s)'
    BY DEF RaisesUncaught
  <2>11. WorkerCrash(s) => RowInv(s)'
    BY DEF WorkerCrash
  <2>12. HardTimeLimit(s) => RowInv(s)'
    BY DEF HardTimeLimit
  <2>13. UpdateShadowStage(s) => RowInv(s)'
    BY DEF UpdateShadowStage
  <2>14. DeleteShadow(s) => RowInv(s)'
    BY DEF DeleteShadow
  <2> HIDE DEF RowInv
  <2>15. RowInv(s)'
    BY <1>2, <2>1, <2>2, <2>3, <2>4, <2>5, <2>6, <2>7, <2>8, <2>9, <2>10, <2>11, <2>12, <2>13, <2>14 DEF ShadowTask
  <2>16. QED
    BY <1>2, <2>t, <2>15, ShadowTypeStep, OneRow DEF ShadowInv
<1>3. QED
  BY <1>1, <1>2 DEF ShadowNext

\* A shadow application is written once, mailed once, and stays what it became,
\* for any number of them and of crashes, kills and refused messages.
THEOREM OnePackPerShadow == ShadowSpec => []PackDeliveredOnce
<1>1. ShadowInv => PackDeliveredOnce
  BY DEF ShadowInv
<1>2. QED
  BY <1>1, ShadowInitInv, ShadowStep, PTL DEF ShadowSpec

-----------------------------------------------------------------------------
(* Detailed reports.                                                       *)

\* A message of run_llm_task is still to publish phase 2.
Owing == \E q \in Quicks : quick[q].owes /\ quick[q].pc # "ended"

\* An execution of phase 2 is still to write its label: one that read "failed" does not.
Pending(d) ==
  \/ detail[d].pc \in {"queued", "calling"}
  \/ detail[d].pc = "failing" /\ detail[d].seen.phase # "failed"

\* Who stands between the reports and the chain owes phase 2; who is past it does not.
OwedBetween ==
  \A q \in Quicks :
    /\ quick[q].pc \in {"marking", "writing", "chain_render", "chain_detail"} => quick[q].owes
    /\ quick[q].pc = "acking" => ~ quick[q].owes

\* Phase 2 is owed and published, and reports read to be labelled, only when there are
\* reports.
ReportsBeforeDetails ==
  /\ \A q \in Quicks : quick[q].owes => run.reports.content # "none"
  /\ \A d \in Details : detail[d].pc # "none" => run.reports.content # "none"
  /\ \A q \in Quicks : quick[q].pc = "writing" => quick[q].seen.content # "none"
  /\ \A d \in Details : detail[d].pc = "failing" => detail[d].seen.content # "none"

LabelIsTrue == run.reports.phase = "detailed" => run.reports.content = "detailed"

\* What is on the row is settled, or somebody is still to settle it.
SettledOrPending ==
  Live /\ ~ givenUp /\ run.reports.content # "none" =>
    \/ run.reports.phase \in {"detailed", "failed"}
    \/ Owing \/ \E d \in Details : Pending(d)

ReportInv ==
  ReportTypeOK /\ OwedBetween /\ ReportsBeforeDetails /\ LabelIsTrue /\ SettledOrPending

LEMMA ReportInitInv == ReportInit => ReportInv
<1> SUFFICES ASSUME ReportInit PROVE ReportInv
  OBVIOUS
<1>1. NoReports \in Reports
  BY DEF NoReports, Reports
<1>2. run \in Run
  BY <1>1 DEF ReportInit, Run, Retrieval
<1>3. quick \in [Quicks -> Quick] /\ detail \in [Details -> Detail]
  BY <1>1 DEF ReportInit, Quick, Detail
<1>4. ReportTypeOK
  BY <1>2, <1>3 DEF ReportTypeOK, ReportInit
<1>5. run.reports = NoReports /\ NoReports.content = "none" /\ NoReports.phase = "none"
  BY DEF ReportInit, NoReports
<1>6. OwedBetween /\ ReportsBeforeDetails
  BY <1>5 DEF ReportInit, OwedBetween, ReportsBeforeDetails
<1>7. LabelIsTrue /\ SettledOrPending
  BY <1>5 DEF LabelIsTrue, SettledOrPending
<1>8. QED
  BY <1>4, <1>6, <1>7 DEF ReportInv

\* What putting a label on reports does to the row.
LEMMA LabelledIs ==
    ASSUME run \in Run, NEW seen \in Reports, NEW label \in {"quick", "failed"}
    PROVE  /\ Labelled(seen, label) \in Run
           /\ Labelled(seen, label).status = run.status
           /\ ~ Live \/ seen.phase = label => Labelled(seen, label) = run
           /\ Live /\ seen.phase # label =>
                /\ Labelled(seen, label).reports.content = seen.content
                /\ Labelled(seen, label).reports.phase = label
BY DEF Labelled, Run, Reports

\* One message of run_llm_task moves: it alone, and how.
LEMMA QuickMoves ==
    ASSUME ReportTypeOK, NEW q \in Quicks, NEW from, NEW to, QuickAt(q, from, to),
           to \in {"queued", "writing", "chain_render", "chain_detail", "ended"}
    PROVE  /\ quick' \in [Quicks -> Quick]
           /\ quick[q].pc = from /\ quick'[q].pc = to /\ quick'[q].owes = quick[q].owes
           /\ \A p \in Quicks \ {q} : quick'[p] = quick[p]
<1>1. NoReports \in Reports /\ quick[q] \in Quick
  BY DEF NoReports, Reports, ReportTypeOK
<1>2. QED
  BY <1>1 DEF QuickAt, ReportTypeOK, Quick

LEMMA DetailMoves ==
    ASSUME ReportTypeOK, NEW d \in Details, NEW from, NEW to, DetailAt(d, from, to),
           to \in {"queued", "calling", "ended"}
    PROVE  /\ detail' \in [Details -> Detail]
           /\ detail[d].pc = from /\ detail'[d].pc = to
           /\ \A e \in Details \ {d} : detail'[e] = detail[e]
<1>1. NoReports \in Reports /\ detail[d] \in Detail
  BY DEF NoReports, Reports, ReportTypeOK
<1>2. QED
  BY <1>1 DEF DetailAt, ReportTypeOK, Detail

\* A message that ends short of the chain: what it owed is given up.
LEMMA EndsShortIs ==
    ASSUME ReportTypeOK, NEW q \in Quicks, EndsShort(q)
    PROVE  /\ quick' \in [Quicks -> Quick] /\ run' \in Run /\ givenUp' \in BOOLEAN
           /\ quick'[q].pc = "ended" /\ quick'[q].owes = quick[q].owes
           /\ \A p \in Quicks \ {q} : quick'[p] = quick[p]
           /\ run'.reports = run.reports
           /\ run'.status = "deleted" <=> run.status = "deleted"
           /\ givenUp' = (givenUp \/ quick[q].owes)
<1>1. quick' \in [Quicks -> Quick] /\ quick'[q].pc = "ended" /\ quick'[q].owes = quick[q].owes
  BY DEF EndsShort, ReportTypeOK, Quick
<1>2. \A p \in Quicks \ {q} : quick'[p] = quick[p]
  BY DEF EndsShort, ReportTypeOK
<1>3. /\ run' \in Run /\ run'.reports = run.reports
      /\ run'.status = "deleted" <=> run.status = "deleted"
  BY DEF EndsShort, ReportTypeOK, Run
<1>4. givenUp' = (givenUp \/ quick[q].owes) /\ givenUp' \in BOOLEAN
  BY DEF EndsShort, ReportTypeOK, Quick
<1>5. QED
  BY <1>1, <1>2, <1>3, <1>4

\* A step that keeps the reports of a run, and what others owe and have pending.
LEMMA ShortKeeps ==
    ASSUME ReportInv, NEW q \in Quicks, EndsShort(q), detail' = detail, crashes' = crashes
    PROVE  ReportInv'
<1> USE EndsShortIs DEF ReportInv, OwedBetween, ReportsBeforeDetails, LabelIsTrue
<1>1. ReportTypeOK'
  BY DEF ReportTypeOK
<1>2. OwedBetween' /\ ReportsBeforeDetails' /\ LabelIsTrue'
  OBVIOUS
<1>3. SettledOrPending'
  BY DEF SettledOrPending, Owing, Pending, Live
<1>4. QED
  BY <1>1, <1>2, <1>3

LEMMA QuickKeeps ==
    ASSUME ReportInv, NEW q \in Quicks, QuickStep(q)
    PROVE  ReportInv'
<1> DEFINE Rest == OwedBetween /\ ReportsBeforeDetails /\ LabelIsTrue /\ SettledOrPending
<1>0. ReportTypeOK /\ run \in Run /\ quick \in [Quicks -> Quick] /\ quick[q] \in Quick
  BY DEF ReportInv, ReportTypeOK
<1> USE DEF OwedBetween, ReportsBeforeDetails, LabelIsTrue, SettledOrPending, Owing, Pending, Live
<1>1. CASE QuickLoad(q)
  <2>1. /\ quick' \in [Quicks -> Quick] /\ quick'[q].owes = quick[q].owes
        /\ quick'[q].pc \in {"calling", "ended"}
        /\ \A p \in Quicks \ {q} : quick'[p] = quick[p]
        /\ quick'[q].pc = "ended" => givenUp' = (givenUp \/ quick[q].owes)
        /\ quick'[q].pc = "calling" => givenUp' = givenUp
    BY <1>0, <1>1 DEF QuickLoad, Quick
  <2>2. run' \in Run /\ run'.reports = run.reports /\ run'.status = run.status
    BY <1>0, <1>1 DEF QuickLoad, Run
  <2>3. ReportTypeOK'
    BY <1>0, <1>1, <2>1, <2>2 DEF QuickLoad, ReportTypeOK, Quick
  <2>4. OwedBetween' /\ ReportsBeforeDetails' /\ LabelIsTrue'
    BY <1>1, <2>1, <2>2 DEF ReportInv, QuickLoad
  <2>5. detail' = detail /\ quick[q].pc = "queued" /\ quick[q] \in Quick
    BY <1>0, <1>1 DEF QuickLoad
  <2>6. SettledOrPending'
    <3>1. CASE quick'[q].pc = "calling"
      BY <2>1, <2>2, <2>5, <3>1 DEF ReportInv
    <3>2. CASE quick'[q].pc = "ended"
      BY <2>1, <2>2, <2>5, <3>2 DEF ReportInv
    <3>3. QED
      BY <2>1, <3>1, <3>2
  <2>7. QED
    BY <2>3, <2>4, <2>6 DEF ReportInv
<1>2. CASE QuickRetry(q) \/ QuickAck(q)
  <2>1. /\ quick' \in [Quicks -> Quick] /\ quick'[q].owes = quick[q].owes
        /\ quick[q].pc \in {"calling", "acking"} /\ quick'[q].pc \in {"queued", "ended"}
        /\ quick'[q].pc = "ended" => quick[q].pc = "acking"
        /\ \A p \in Quicks \ {q} : quick'[p] = quick[p]
        /\ UNCHANGED <<run, detail, givenUp, crashes>>
    BY <1>0, <1>2, QuickMoves DEF QuickRetry, QuickAck
  <2>2. ReportTypeOK'
    BY <1>0, <2>1 DEF ReportTypeOK
  <2>3. QED
    BY <2>1, <2>2 DEF ReportInv
<1>3. CASE QuickPersist(q)
  <2>1. /\ quick' \in [Quicks -> Quick] /\ quick'[q].pc = "marking" /\ quick'[q].owes
        /\ \A p \in Quicks \ {q} : quick'[p] = quick[p]
    BY <1>0, <1>3 DEF QuickPersist, Quick
  <2>2. run' \in Run /\ run'.reports.content = "quick" /\ run'.reports.phase = "none"
    <3>1. Retrieved \subseteq Retrieval
      BY DEF Retrieved, Retrieval
    <3>2. PICK r \in Retrieval :
            run' = [run EXCEPT !.reports = [content |-> "quick", phase |-> "none"],
                               !.status = "active", !.positioning = FALSE, !.retrieval = r]
      BY <1>3, <3>1 DEF QuickPersist
    <3> DEFINE fresh == [content |-> "quick", phase |-> "none"]
    <3>3. fresh \in Reports /\ fresh.content = "quick" /\ fresh.phase = "none"
      BY DEF Reports
    <3> HIDE DEF fresh
    <3>4. run' = [run EXCEPT !.reports = fresh, !.status = "active", !.positioning = FALSE,
                             !.retrieval = r]
      BY <3>2 DEF fresh
    <3>5. QED
      BY <1>0, <3>3, <3>4 DEF Run
  <2>3. ReportTypeOK'
    BY <1>0, <1>3, <2>1, <2>2 DEF QuickPersist, ReportTypeOK
  <2>4. QED
    BY <1>3, <2>1, <2>2, <2>3 DEF ReportInv, QuickPersist
<1>4. CASE MarkRead(q)
  <2>1. run.reports \in Reports /\ quick[q].owes /\ run.reports.content # "none"
    BY <1>0, <1>4 DEF ReportInv, MarkRead, Run
  <2>2. /\ quick' \in [Quicks -> Quick] /\ quick'[q].owes
        /\ quick'[q].pc \in {"writing", "chain_render"} /\ quick'[q].seen = run.reports
        /\ \A p \in Quicks \ {q} : quick'[p] = quick[p]
    BY <1>0, <1>4, <2>1 DEF MarkRead, Quick
  <2>3. ReportTypeOK'
    BY <1>0, <1>4, <2>2 DEF MarkRead, ReportTypeOK
  <2>4. QED
    BY <1>4, <2>1, <2>2, <2>3 DEF ReportInv, MarkRead
<1>5. CASE MarkWrite(q)
  <2>1. /\ quick' \in [Quicks -> Quick] /\ quick'[q].owes = quick[q].owes
        /\ quick[q].pc = "writing" /\ quick'[q].pc = "chain_render"
        /\ \A p \in Quicks \ {q} : quick'[p] = quick[p]
    BY <1>0, <1>5, QuickMoves DEF MarkWrite
  <2>2. quick[q].seen \in Reports /\ quick[q].owes /\ quick[q].seen.content # "none"
    BY <1>0, <2>1 DEF ReportInv, Quick
  <2>3. /\ run' \in Run /\ run'.status = run.status
        /\ run' = run \/ (run'.reports.content # "none" /\ run'.reports.phase = "quick")
    BY <1>0, <1>5, <2>2, LabelledIs DEF MarkWrite
  <2>4. ReportTypeOK'
    BY <1>0, <1>5, <2>1, <2>3 DEF MarkWrite, ReportTypeOK
  <2>5. QED
    BY <1>5, <2>1, <2>2, <2>3, <2>4 DEF ReportInv, MarkWrite
<1>6. CASE ChainRender(q) /\ ~ EndsShort(q)
  <2>1. /\ quick' \in [Quicks -> Quick] /\ quick'[q].owes = quick[q].owes
        /\ quick[q].pc = "chain_render" /\ quick'[q].pc = "chain_detail"
        /\ \A p \in Quicks \ {q} : quick'[p] = quick[p]
        /\ UNCHANGED <<run, detail, givenUp, crashes>>
    BY <1>0, <1>6, QuickMoves DEF ChainRender
  <2>2. ReportTypeOK'
    BY <1>0, <2>1 DEF ReportTypeOK
  <2>3. QED
    BY <2>1, <2>2 DEF ReportInv
<1>7. CASE ChainDetail(q) /\ ~ EndsShort(q)
  <2>1. PICK d \in Details : /\ detail[d].pc = "none"
                             /\ detail' = [detail EXCEPT ![d].pc = "queued"]
    BY <1>7 DEF ChainDetail
  <2>2. /\ quick' = [quick EXCEPT ![q].pc = "acking", ![q].owes = FALSE]
        /\ quick[q].pc = "chain_detail" /\ UNCHANGED <<run, givenUp, crashes>>
    BY <1>7 DEF ChainDetail
  <2>3. /\ quick' \in [Quicks -> Quick] /\ quick'[q].pc = "acking" /\ ~ quick'[q].owes
        /\ \A p \in Quicks \ {q} : quick'[p] = quick[p]
    BY <1>0, <2>2 DEF Quick
  <2>4. /\ detail' \in [Details -> Detail] /\ detail'[d].pc = "queued"
        /\ \A e \in Details \ {d} : detail'[e] = detail[e]
    BY <1>0, <2>1 DEF ReportTypeOK, Detail
  <2>5. ReportTypeOK'
    BY <1>0, <2>2, <2>3, <2>4 DEF ReportTypeOK
  <2>6. run.reports.content # "none"
    BY <2>2 DEF ReportInv
  <2>7. QED
    BY <2>2, <2>3, <2>4, <2>5, <2>6 DEF ReportInv
<1>8. CASE QuickCrash(q)
  <2>1. /\ quick' \in [Quicks -> Quick] /\ quick'[q].owes = quick[q].owes
        /\ quick'[q].pc = "queued" /\ \A p \in Quicks \ {q} : quick'[p] = quick[p]
    BY <1>0, <1>8 DEF QuickCrash, Quick
  <2>2. ReportTypeOK'
    BY <1>0, <1>8, <2>1 DEF QuickCrash, ReportTypeOK
  <2>3. QED
    BY <1>8, <2>1, <2>2 DEF ReportInv, QuickCrash
<1>9. CASE QuickFails(q) \/ (EndsShort(q) /\ (ChainRender(q) \/ ChainDetail(q)))
  <2>1. EndsShort(q) /\ crashes' = crashes
    BY <1>9 DEF QuickFails, ChainRender, ChainDetail
  <2>2. CASE detail' = detail
    BY <2>1, <2>2, ShortKeeps
  <2>3. CASE detail' # detail
    <3>1. ChainDetail(q) /\ quick' = [quick EXCEPT ![q].pc = "acking", ![q].owes = FALSE]
      BY <1>9, <2>3 DEF QuickFails, ChainRender, ChainDetail
    <3>2. quick'[q].pc = "acking"
      BY <1>0, <3>1 DEF Quick
    <3>3. QED
      BY <1>0, <2>1, <3>2, EndsShortIs
  <2>4. QED
    BY <2>2, <2>3
<1>10. QED
  BY <1>1, <1>2, <1>3, <1>4, <1>5, <1>6, <1>7, <1>8, <1>9 DEF QuickStep

LEMMA DetailKeeps ==
    ASSUME ReportInv, NEW d \in Details, DetailStep(d)
    PROVE  ReportInv'
<1>0. ReportTypeOK /\ run \in Run /\ detail \in [Details -> Detail] /\ detail[d] \in Detail
  BY DEF ReportInv, ReportTypeOK
<1> USE DEF OwedBetween, ReportsBeforeDetails, LabelIsTrue, SettledOrPending, Owing, Pending, Live
<1>1. CASE DetailRetrieve(d)
  <2>1. /\ detail' \in [Details -> Detail] /\ detail[d].pc = "queued"
        /\ detail'[d].pc \in {"calling", "ended"}
        /\ \A e \in Details \ {d} : detail'[e] = detail[e]
        /\ detail'[d].pc = "ended" => givenUp' = (givenUp \/ Live)
        /\ detail'[d].pc = "calling" => givenUp' = givenUp
    BY <1>0, <1>1, DetailMoves DEF DetailRetrieve
  <2>2. run' \in Run /\ run'.reports = run.reports /\ run'.status = run.status
    <3>1. Retrieved \subseteq Retrieval
      BY DEF Retrieved, Retrieval
    <3>2. QED
      BY <1>0, <1>1, <3>1 DEF DetailRetrieve, Run
  <2>3. givenUp' \in BOOLEAN
    BY <1>0, <2>1 DEF ReportTypeOK
  <2>4. ReportTypeOK'
    BY <1>0, <1>1, <2>1, <2>2, <2>3 DEF DetailRetrieve, ReportTypeOK
  <2>5. QED
    BY <1>1, <2>1, <2>2, <2>4 DEF ReportInv, DetailRetrieve
<1>2. CASE DetailFailRead(d)
  <2>1. run.reports \in Reports
    BY <1>0 DEF Run
  <2>2. /\ detail' \in [Details -> Detail] /\ detail[d].pc = "calling"
        /\ \A e \in Details \ {d} : detail'[e] = detail[e]
        /\ detail'[d].pc \in {"failing", "ended"}
        /\ detail'[d].pc = "failing" =>
             detail'[d].seen = run.reports /\ run.reports.content # "none"
        /\ detail'[d].pc = "ended" => ~ Live \/ run.reports.content = "none"
    BY <1>0, <1>2, <2>1 DEF DetailFailRead, Detail
  <2>3. ReportTypeOK'
    BY <1>0, <1>2, <2>2 DEF DetailFailRead, ReportTypeOK
  <2>4. QED
    BY <1>2, <2>2, <2>3 DEF ReportInv, DetailFailRead
<1>3. CASE DetailFailWrite(d)
  <2>1. /\ detail' \in [Details -> Detail] /\ detail[d].pc = "failing" /\ detail'[d].pc = "ended"
        /\ \A e \in Details \ {d} : detail'[e] = detail[e]
    BY <1>0, <1>3, DetailMoves DEF DetailFailWrite
  <2>2. detail[d].seen \in Reports /\ detail[d].seen.content # "none"
    BY <1>0, <2>1 DEF ReportInv, Detail
  <2>3. /\ run' \in Run /\ run'.status = run.status
        /\ \/ run' = run /\ (~ Live \/ detail[d].seen.phase = "failed")
           \/ run'.reports.content # "none" /\ run'.reports.phase = "failed"
    BY <1>0, <1>3, <2>2, LabelledIs DEF DetailFailWrite
  <2>4. ReportTypeOK'
    BY <1>0, <1>3, <2>1, <2>3 DEF DetailFailWrite, ReportTypeOK
  <2>5. QED
    BY <1>3, <2>1, <2>3, <2>4 DEF ReportInv, DetailFailWrite
<1>4. CASE DetailPersist(d)
  <2>1. /\ detail' \in [Details -> Detail] /\ detail[d].pc = "calling" /\ detail'[d].pc = "ended"
        /\ \A e \in Details \ {d} : detail'[e] = detail[e]
    BY <1>0, <1>4, DetailMoves DEF DetailPersist
  <2>2. /\ run' \in Run /\ run'.status = run.status
        /\ \/ run' = run /\ ~ Live
           \/ run'.reports.content = "detailed" /\ run'.reports.phase = "detailed"
    <3> DEFINE full == [content |-> "detailed", phase |-> "detailed"]
    <3>1. full \in Reports /\ full.content = "detailed" /\ full.phase = "detailed"
      BY DEF Reports
    <3>2. PICK p \in BOOLEAN :
            run' = IF Live THEN [run EXCEPT !.reports = full,
                                            !.positioning = run.positioning \/ p]
                   ELSE run
      BY <1>4 DEF DetailPersist
    <3> HIDE DEF full
    <3> DEFINE known == run.positioning \/ p
    <3>3. known \in BOOLEAN
      OBVIOUS
    <3> HIDE DEF known
    <3>4. run' = IF Live THEN [run EXCEPT !.reports = full, !.positioning = known] ELSE run
      BY <3>2 DEF known
    <3>5. QED
      BY <1>0, <3>1, <3>3, <3>4 DEF Run
  <2>3. ReportTypeOK'
    BY <1>0, <1>4, <2>1, <2>2 DEF DetailPersist, ReportTypeOK
  <2>4. QED
    BY <1>4, <2>1, <2>2, <2>3 DEF ReportInv, DetailPersist
<1>5. CASE DetailUncaught(d) \/ DetailCrash(d)
  <2>1. /\ detail' \in [Details -> Detail] /\ detail[d].pc \in {"calling", "failing"}
        /\ detail'[d].pc \in {"queued", "ended"}
        /\ \A e \in Details \ {d} : detail'[e] = detail[e]
        /\ UNCHANGED <<run, quick>> /\ givenUp' \in BOOLEAN /\ crashes' \in Nat
        /\ detail'[d].pc = "ended" => givenUp'
        /\ detail'[d].pc = "queued" => givenUp' = givenUp
    <3>1. CASE DetailUncaught(d)
      <4>1. givenUp' = TRUE /\ crashes' = crashes /\ UNCHANGED <<run, quick>>
        BY <3>1 DEF DetailUncaught
      <4>2. DetailAt(d, "calling", "ended") \/ DetailAt(d, "failing", "ended")
        BY <3>1 DEF DetailUncaught
      <4>3. crashes' \in Nat
        BY <1>0, <4>1 DEF ReportTypeOK
      <4>4. /\ detail' \in [Details -> Detail] /\ detail[d].pc \in {"calling", "failing"}
            /\ detail'[d].pc = "ended"
            /\ \A e \in Details \ {d} : detail'[e] = detail[e]
        BY <1>0, <4>2, DetailMoves
      <4>5. QED
        BY <4>1, <4>3, <4>4
    <3>2. CASE DetailCrash(d)
      <4>1. /\ givenUp' = givenUp /\ crashes' = crashes + 1 /\ UNCHANGED <<run, quick>>
            /\ givenUp \in BOOLEAN /\ crashes \in Nat
        BY <1>0, <3>2 DEF DetailCrash, ReportTypeOK
      <4>2. DetailAt(d, "calling", "queued") \/ DetailAt(d, "failing", "queued")
        BY <3>2 DEF DetailCrash
      <4>3. QED
        BY <1>0, <4>1, <4>2, DetailMoves
    <3>3. QED
      BY <1>5, <3>1, <3>2
  <2>2. ReportTypeOK'
    BY <1>0, <2>1 DEF ReportTypeOK
  <2>3. QED
    BY <2>1, <2>2 DEF ReportInv
<1>6. QED
  BY <1>1, <1>2, <1>3, <1>4, <1>5 DEF DetailStep

LEMMA ReportStep == ReportInv /\ [ReportNext]_reportVars => ReportInv'
<1> SUFFICES ASSUME ReportInv, [ReportNext]_reportVars PROVE ReportInv'
  OBVIOUS
<1>1. CASE UNCHANGED reportVars
  BY <1>1 DEF reportVars, ReportInv, ReportTypeOK, OwedBetween, ReportsBeforeDetails, LabelIsTrue,
              SettledOrPending, Owing, Pending, Live
<1>2. CASE RenderCompletes \/ DeleteRun
  <2>1. /\ run' \in Run /\ run'.reports = run.reports
        /\ run'.status # "deleted" => run.status # "deleted"
        /\ UNCHANGED <<quick, detail, givenUp, crashes>>
    BY <1>2 DEF RenderCompletes, DeleteRun, ReportInv, ReportTypeOK, Run, Live
  <2>2. ReportTypeOK'
    BY <2>1 DEF ReportInv, ReportTypeOK
  <2>3. QED
    BY <2>1, <2>2 DEF ReportInv, OwedBetween, ReportsBeforeDetails, LabelIsTrue,
                      SettledOrPending, Owing, Pending, Live
<1>3. QED
  BY <1>1, <1>2, QuickKeeps, DetailKeeps DEF ReportNext

\* When nothing works on a run any more, the label of its reports says that phase 2
\* ended, or a phase 2 was given up: for any number of messages of either task, of
\* redeliveries and of workers that die.
THEOREM ReportsAreSettled == ReportSpec => []PhaseIsSettled
<1>1. ReportInv => PhaseIsSettled
  BY DEF ReportInv, LabelIsTrue, SettledOrPending, Owing, Pending, PhaseIsSettled, Quiet
<1>2. QED
  BY <1>1, ReportInitInv, ReportStep, PTL DEF ReportSpec

-----------------------------------------------------------------------------
(* The alerts of the scout.                                                *)

\* What allows a task to send although an alert may have gone out lately.
Excused(t) ==
  last.since = Throttle \/ ~ last.noted \/ alert[t].blind \/ alert[t].late

\* The key in Redis lives as long as the noted alert is younger than the throttle;
\* a task that saw no key is excused until another one is noted.
AlertInv ==
  /\ alert \in [AlertTasks -> [at : {"none", "queued", "checked", "sent", "done"},
                               blind : BOOLEAN, late : BOOLEAN]]
  /\ throttle \in 0..Throttle
  /\ last \in [since : 0..Throttle, noted : BOOLEAN]
  /\ last.noted => throttle + last.since >= Throttle
  /\ \A t \in AlertTasks : alert[t].at = "checked" => Excused(t)

LEMMA AlertInitInv == ResultsInit => AlertInv
BY ThrottleAssumption DEF ResultsInit, AlertInv, Message, Excused

\* A step about the message of task t that leaves the alert before and its key alone.
LEMMA OneAlert ==
    ASSUME AlertInv, NEW t \in AlertTasks,
           NEW m \in [at : {"none", "queued", "checked", "sent", "done"},
                      blind : BOOLEAN, late : BOOLEAN],
           alert' = [alert EXCEPT ![t] = m], UNCHANGED <<throttle, last>>,
           m.at = "checked" => m.blind \/ last.since = Throttle \/ ~ last.noted
    PROVE  AlertInv'
BY DEF AlertInv, Excused

LEMMA AlertStep == AlertInv /\ [ScanNext \/ SavesNext]_resultVars => AlertInv'
<1> SUFFICES ASSUME AlertInv, [ScanNext \/ SavesNext]_resultVars PROVE AlertInv'
  OBVIOUS
<1> DEFINE At == {"none", "queued", "checked", "sent", "done"}
           Msg == [at : At, blind : BOOLEAN, late : BOOLEAN]
<1>m. /\ \A at \in At, blind \in BOOLEAN : Message(at, blind) \in Msg
      /\ \A at, blind : /\ Message(at, blind).at = at /\ Message(at, blind).blind = blind
  BY DEF Message
<1>a. ASSUME NEW t \in AlertTasks, NEW at \in At, at # "checked",
             alert' = [alert EXCEPT ![t].at = at], UNCHANGED <<throttle, last>>
      PROVE  AlertInv'
  <2>1. [alert[t] EXCEPT !.at = at] \in Msg /\ [alert[t] EXCEPT !.at = at].at = at
    BY DEF AlertInv
  <2>2. alert' = [alert EXCEPT ![t] = [alert[t] EXCEPT !.at = at]]
    BY <1>a
  <2> HIDE DEF At, Msg
  <2>3. QED
    BY <1>a, <2>1, <2>2, OneAlert DEF At, Msg
<1>1. CASE UNCHANGED <<alert, throttle, last>>
  BY <1>1 DEF AlertInv, Excused
<1>2. ASSUME NEW r \in Scanners, FinishSignals(r) PROVE AlertInv'
  <2>1. PICK scan \in Scans : Dispatch(scan)
    BY <1>2 DEF FinishSignals
  <2>2. UNCHANGED <<throttle, last>>
    BY <1>2 DEF FinishSignals
  <2>3. CASE UNCHANGED alert
    BY <1>1, <2>2, <2>3
  <2>4. ASSUME NEW t \in AlertTasks, alert' = [alert EXCEPT ![t].at = "queued"]
        PROVE  AlertInv'
    BY <1>a, <2>2, <2>4
  <2>5. QED
    BY <2>1, <2>3, <2>4 DEF Dispatch
<1>3. ASSUME NEW t \in AlertTasks, CheckThrottle(t) PROVE AlertInv'
  <2>1. PICK down \in BOOLEAN :
          alert' = [alert EXCEPT ![t] =
            IF prefs = "OFF" \/ (~ down /\ throttle > 0) THEN Message("done", FALSE)
            ELSE Message("checked", down)]
    BY <1>3 DEF CheckThrottle
  <2>2. UNCHANGED <<throttle, last>>
    BY <1>3 DEF CheckThrottle
  <2>3. CASE prefs = "OFF" \/ (~ down /\ throttle > 0)
    <3>1. alert' = [alert EXCEPT ![t] = Message("done", FALSE)]
      BY <2>1, <2>3
    <3>2. Message("done", FALSE) \in Msg /\ Message("done", FALSE).at # "checked"
      BY DEF Message
    <3>3. QED
      BY <2>2, <3>1, <3>2, OneAlert
  <2>4. CASE ~ (prefs = "OFF" \/ (~ down /\ throttle > 0))
    <3>1. alert' = [alert EXCEPT ![t] = Message("checked", down)]
      BY <2>1, <2>4
    <3>2. down \/ last.since = Throttle \/ ~ last.noted
      BY <2>4, ThrottleAssumption DEF AlertInv
    <3>3. Message("checked", down) \in Msg /\ Message("checked", down).blind = down
      BY <1>m
    <3>4. QED
      BY <2>2, <3>1, <3>2, <3>3, OneAlert
  <2>5. QED
    BY <2>3, <2>4
<1>4. ASSUME NEW t \in AlertTasks, SendAlert(t) PROVE AlertInv'
  <2>1. /\ last' = [since |-> 0, noted |-> FALSE] /\ UNCHANGED throttle
        /\ alert' = [alert EXCEPT ![t].at = "sent"]
    BY <1>4 DEF SendAlert
  <2>2. QED
    BY <2>1, ThrottleAssumption DEF AlertInv, Excused
<1>5. ASSUME NEW t \in AlertTasks, AlertRefused(t) PROVE AlertInv'
  BY <1>5, <1>a DEF AlertRefused
<1>6. ASSUME NEW t \in AlertTasks, NoteAlert(t) PROVE AlertInv'
  <2>1. /\ alert' \in [AlertTasks -> Msg]
        /\ \A u \in AlertTasks : alert'[u].at = "checked" => alert'[u].late
    <3>1. \A u \in AlertTasks : [alert[u] EXCEPT !.late = TRUE] \in Msg
      BY DEF AlertInv
    <3>2. Message("done", FALSE) \in Msg /\ Message("done", FALSE).at = "done"
      BY <1>m
    <3>3. \A u \in AlertTasks : [alert[u] EXCEPT !.late = TRUE].late
      BY DEF AlertInv
    <3>4. QED
      BY <1>6, <3>1, <3>2, <3>3 DEF NoteAlert, AlertInv
  <2>2. CASE UNCHANGED <<throttle, last>>
    BY <2>1, <2>2 DEF AlertInv, Excused
  <2>3. CASE /\ throttle' = IF alert[t].blind THEN throttle ELSE Throttle
             /\ last' = [last EXCEPT !.noted = ~ alert[t].blind]
    <3>1. throttle' \in 0..Throttle
      BY <2>3, ThrottleAssumption DEF AlertInv
    <3>2. last' \in [since : 0..Throttle, noted : BOOLEAN]
      BY <2>3 DEF AlertInv
    <3>3. (last'.noted <=> ~ alert[t].blind) /\ last'.since = last.since
      BY <2>3 DEF AlertInv
    <3>4. last'.noted => throttle' + last'.since >= Throttle
      BY <2>3, <3>3, ThrottleAssumption DEF AlertInv
    <3>5. QED
      BY <2>1, <3>1, <3>2, <3>4 DEF AlertInv, Excused
  <2>4. QED
    BY <1>6, <2>2, <2>3 DEF NoteAlert
<1>7. ASSUME NEW t \in AlertTasks, AlertRedelivered(t) PROVE AlertInv'
  <2>1. alert' = [alert EXCEPT ![t] = Message("queued", FALSE)] /\ UNCHANGED <<throttle, last>>
    BY <1>7 DEF AlertRedelivered
  <2>2. Message("queued", FALSE) \in Msg /\ Message("queued", FALSE).at # "checked"
    BY DEF Message
  <2>3. QED
    BY <2>1, <2>2, OneAlert
<1>8. CASE Tick
  <2>1. /\ throttle' = (IF throttle > 0 THEN throttle - 1 ELSE 0) /\ UNCHANGED alert
        /\ last' = [last EXCEPT !.since = IF @ < Throttle THEN @ + 1 ELSE @]
    BY <1>8 DEF Tick
  <2>2. /\ last'.noted = last.noted
        /\ last'.since = IF last.since < Throttle THEN last.since + 1 ELSE last.since
        /\ last' \in [since : 0..Throttle, noted : BOOLEAN]
    BY <2>1, ThrottleAssumption DEF AlertInv
  <2>3. throttle' \in 0..Throttle /\ (last'.noted => throttle' + last'.since >= Throttle)
    BY <2>1, <2>2, ThrottleAssumption DEF AlertInv
  <2>4. QED
    BY <2>1, <2>2, <2>3 DEF AlertInv, Excused
<1>9. QED
  <2>1. ASSUME NEW r \in Scanners, GetSignals(r) \/ MarkStale(r) PROVE AlertInv'
    BY <1>1, <2>1 DEF GetSignals, MarkStale
  <2>2. CASE DailyScoutScan \/ StoreDailyScan
    BY <1>1, <2>2 DEF DailyScoutScan, StoreDailyScan
  <2>3. CASE SavesNext
    BY <1>1, <2>3 DEF SavesNext, CheckSaved, SaveJob, UnsaveJob
  <2>4. CASE UNCHANGED resultVars
    BY <1>1, <2>4 DEF resultVars
  <2>5. QED
    BY <1>2, <1>3, <1>4, <1>5, <1>6, <1>7, <1>8, <2>1, <2>2, <2>3, <2>4 DEF ScanNext


\* The alerts of the task are two hours apart unless two tasks raced, Redis could
\* not be asked, or an alert was not noted: for any number of tasks and any throttle.
THEOREM AlertsNeedARace == ResultsSpec => AlertsAreSpaced
<1>1. AlertInv /\ [ScanNext \/ SavesNext]_resultVars =>
        [\A t \in AlertTasks :
           alert[t].at = "checked" /\ alert'[t].at = "sent" =>
             last.since = Throttle \/ ~ last.noted \/ alert[t].blind \/ alert[t].late]_resultVars
  BY DEF AlertInv, Excused
<1>2. QED
  BY <1>1, AlertInitInv, AlertStep, PTL DEF ResultsSpec, AlertsAreSpaced

-----------------------------------------------------------------------------
(* The hidden market: what a scan finds.                                   *)

MediumTypes == {"hiring_surge", "funding", "leadership", "expansion", "product_launch"}

\* Evidence of what counts least is strong: only the providers find it.
Sound(x) ==
  /\ x.confidence \in Int /\ x.text \in Texts
  /\ x.tier = "strong" \/ (x.tier = "medium" /\ x.type \in MediumTypes)
SoundRaw(x) == DOMAIN x = RawFields /\ Sound(x)
SoundRaws(s) == \E X : s \in Seq(X) /\ \A x \in X : SoundRaw(x)

LEMMA IncreasingIs ==
    ASSUME NEW S \in SUBSET Int, IsFiniteSet(S)
    PROVE  /\ Cardinality(S) \in Nat /\ Increasing(S) \in [1..Cardinality(S) -> S]
           /\ \A i, j \in 1..Cardinality(S) : i < j => Increasing(S)[i] < Increasing(S)[j]
           /\ \A a \in S : \E i \in 1..Cardinality(S) : Increasing(S)[i] = a
BY AscendingLists DEF Increasing, Ascending

LEMMA ConcatSound ==
    ASSUME NEW s, NEW t, SoundRaws(s), SoundRaws(t)
    PROVE  SoundRaws(s \o t)
<1>1. PICK X : s \in Seq(X) /\ \A x \in X : SoundRaw(x)
  BY DEF SoundRaws
<1>2. PICK Y : t \in Seq(Y) /\ \A y \in Y : SoundRaw(y)
  BY DEF SoundRaws
<1>3. s \in Seq(X \cup Y) /\ t \in Seq(X \cup Y)
  BY <1>1, <1>2
<1>4. s \o t \in Seq(X \cup Y) /\ \A x \in X \cup Y : SoundRaw(x)
  BY <1>1, <1>2, <1>3
<1>5. QED
  BY <1>4 DEF SoundRaws

LEMMA SurgesAreSound ==
    ASSUME NEW a \in Answers
    PROVE  SoundRaws(AdzunaSurges(a.adzuna))
<1> DEFINE counts == a.adzuna
           many == {c \in DOMAIN counts : counts[c] >= 3}
           first == {c \in many : Cardinality({d \in many : counts[d] > counts[c]}) < 10}
           raw(c) == Raw(c, "hiring_surge", Min({90, 50 + 10 * counts[c]}), "medium", PlainText,
                         Vacancy[c], TRUE, c \in Publishers)
           S == {raw(c) : c \in first}
<1>1. IsFiniteSet(first) /\ \A c \in first : counts[c] \in Nat
  BY AnswersAssumption, FS_Subset
<1>2. \A c \in first : SoundRaw(raw(c))
  <2> SUFFICES ASSUME NEW c \in first PROVE SoundRaw(raw(c))
    OBVIOUS
  <2>1. 50 + 10 * counts[c] \in Int
    BY <1>1
  <2>2. Min({90, 50 + 10 * counts[c]}) \in Int
    BY <2>1, SmallerOfTwo
  <2> DEFINE m == Min({90, 50 + 10 * counts[c]})
  <2>3. raw(c) = Raw(c, "hiring_surge", m, "medium", PlainText, Vacancy[c], TRUE,
                         c \in Publishers)
    OBVIOUS
  <2> HIDE DEF m, raw
  <2>4. m \in Int
    BY <2>2 DEF m
  <2>5. QED
    BY <2>3, <2>4, AnswersAssumption DEF SoundRaw, Sound, Raw, RawFields, MediumTypes
<1>3. IsFiniteSet(S)
  <2> DEFINE f == [c \in first |-> raw(c)]
  <2> HIDE DEF raw, first
  <2>1. DOMAIN f = first /\ S = {f[c] : c \in DOMAIN f}
    OBVIOUS
  <2> HIDE DEF f, S
  <2>2. QED
    BY <1>1, <2>1, FiniteImage
<1>4. AdzunaSurges(a.adzuna) = SetToSeq(S)
  BY DEF AdzunaSurges
<1>5. \A x \in S : SoundRaw(x)
  BY <1>2
<1> HIDE DEF S
<1>6. QED
  BY <1>3, <1>4, <1>5, ListOfSet DEF SoundRaws

LEMMA NewsTypes ==
    ASSUME NEW about, ClassifyText(about) # "none"
    PROVE  ClassifyText(about) \in MediumTypes
<1> DEFINE order == <<"funding", "leadership", "expansion", "product_launch">>
           hits == {i \in DOMAIN order : order[i] \in about}
<1>1. hits # {} /\ ClassifyText(about) = order[Min(hits)]
  BY DEF ClassifyText
<1>2. hits \in SUBSET (1..4)
  OBVIOUS
<1>3. IsFiniteSet(hits) /\ hits \in SUBSET Int
  <2> HIDE DEF hits
  <2>1. \A n \in Nat : hits \in SUBSET (1..n) => IsFiniteSet(hits) /\ hits \in SUBSET Int
    BY FiniteBelow
  <2>2. QED
    BY <1>2, <2>1
<1>4. Min(hits) \in 1..4
  <2> HIDE DEF hits
  <2>1. QED
    BY <1>1, <1>2, <1>3, Extremes
<1>5. QED
  BY <1>1, <1>4 DEF MediumTypes

LEMMA NewsConfidence ==
    ASSUME NEW type, NEW item
    PROVE  InitialConfidence(type, item) \in Int
<1> DEFINE base == IF type = "product_launch" THEN 50 ELSE 60
           source == CASE item.source = "tier1" -> 15 [] item.source = "tier2" -> 8
                       [] OTHER -> 0
           points == base + source + (IF item.titled THEN 8 ELSE 0)
                                   + (IF item.hiring THEN 5 ELSE 0)
<1>1. points \in Int
  OBVIOUS
<1>2. InitialConfidence(type, item) = Max({30, Min({85, points})})
  BY DEF InitialConfidence
<1> HIDE DEF points
<1>3. Min({85, points}) \in Int
  BY <1>1, SmallerOfTwo
<1>4. QED
  BY <1>2, <1>3, GreaterOfTwo

LEMMA NewsAreSound ==
    ASSUME NEW a \in Answers
    PROVE  SoundRaws(NewsRaw(a.news))
<1> DEFINE items == a.news
           fresh == {i \in DOMAIN items : /\ \A j \in 1..i - 1 : items[j].url # items[i].url
                                          /\ ClassifyText(items[i].about) # "none"
                                          /\ ExtractCompany(items[i]) # "none"}
           order == Increasing(fresh)
           signal(item) == LET type == ClassifyText(item.about) IN
             Raw(ExtractCompany(item), type, InitialConfidence(type, item), "medium", item.text,
                 "none", item.argued, item.trusted)
           X == {signal(items[i]) : i \in fresh}
<1>1. DOMAIN items = 1..Len(items) /\ Len(items) \in Nat
  BY AnswersAssumption
<1>2. fresh \in SUBSET Int /\ IsFiniteSet(fresh)
  <2>1. fresh \subseteq 1..Len(items)
    BY <1>1
  <2> HIDE DEF fresh
  <2>2. QED
    BY <1>1, <2>1, FiniteBelow
<1>3. Cardinality(fresh) \in Nat /\ order \in [1..Cardinality(fresh) -> fresh]
  <2> HIDE DEF fresh
  <2>1. QED
    BY <1>2, IncreasingIs
<1>4. NewsRaw(a.news) = [n \in DOMAIN order |-> signal(items[order[n]])]
  BY DEF NewsRaw
<1>5. \A i \in fresh : SoundRaw(signal(items[i]))
  <2> SUFFICES ASSUME NEW i \in fresh PROVE SoundRaw(signal(items[i]))
    OBVIOUS
  <2> DEFINE type == ClassifyText(items[i].about)
             points == InitialConfidence(type, items[i])
             company == ExtractCompany(items[i])
  <2>1. type \in MediumTypes
    BY NewsTypes
  <2>2. items[i].text \in Texts
    BY AnswersAssumption
  <2>3. points \in Int
    BY NewsConfidence
  <2>4. signal(items[i]) = Raw(company, type, points, "medium", items[i].text, "none",
                               items[i].argued, items[i].trusted)
    OBVIOUS
  <2> HIDE DEF type, points, company, signal, items
  <2>5. QED
    BY <2>1, <2>2, <2>3, <2>4 DEF SoundRaw, Sound, Raw, RawFields
<1> HIDE DEF fresh, order, signal, items
<1>6. NewsRaw(a.news) \in Seq(X)
  BY <1>3, <1>4
<1>7. QED
  BY <1>5, <1>6 DEF SoundRaws

LEMMA ProvidersAreSound ==
    ASSUME NEW a \in Answers
    PROVE  SoundRaws(CrunchbaseRaw(a.crunchbase)) /\ SoundRaws(MagnittRaw(a.magnitt))
<1>1. ASSUME NEW list \in {a.crunchbase, a.magnitt}
      PROVE  SoundRaws([n \in DOMAIN list |-> [list[n] EXCEPT !.tier = "strong"]])
  <2> DEFINE strong(n) == [list[n] EXCEPT !.tier = "strong"]
             X == {strong(n) : n \in DOMAIN list}
  <2>1. DOMAIN list = 1..Len(list) /\ Len(list) \in Nat
    BY AnswersAssumption
  <2>2. \A n \in DOMAIN list : SoundRaw(strong(n))
    <3> SUFFICES ASSUME NEW n \in DOMAIN list PROVE SoundRaw(strong(n))
      OBVIOUS
    <3>1. DOMAIN list[n] = RawFields /\ list[n].text \in Texts /\ list[n].confidence \in Int
      BY AnswersAssumption
    <3>2. QED
      BY <3>1 DEF SoundRaw, Sound, RawFields
  <2>3. [n \in DOMAIN list |-> strong(n)] \in Seq(X)
    <3> HIDE DEF strong
    <3>1. QED
      BY <2>1
  <2>4. \A x \in X : SoundRaw(x)
    BY <2>2
  <2> HIDE DEF X
  <2>5. QED
    BY <2>3, <2>4 DEF SoundRaws
<1>2. QED
  BY <1>1 DEF CrunchbaseRaw, MagnittRaw

\* What is detected has every company and type once.
FoundOnce(seen) ==
  /\ Len(seen) \in Nat /\ DOMAIN seen = 1..Len(seen)
  /\ \A i \in DOMAIN seen : SoundRaw(seen[i])
  /\ \A i, j \in DOMAIN seen :
       seen[i].company = seen[j].company /\ seen[i].type = seen[j].type => i = j

LEMMA DistinctIs ==
    ASSUME NEW raw, SoundRaws(raw)
    PROVE  FoundOnce(Distinct(raw))
<1> DEFINE keep == {i \in DOMAIN raw : \A j \in 1..i - 1 :
                      <<raw[j].company, raw[j].type>> # <<raw[i].company, raw[i].type>>}
           order == Increasing(keep)
<1>1. /\ Len(raw) \in Nat /\ DOMAIN raw = 1..Len(raw)
      /\ \A i \in DOMAIN raw : SoundRaw(raw[i])
  BY DEF SoundRaws
<1>2. keep \in SUBSET Int /\ IsFiniteSet(keep)
  <2>1. keep \subseteq 1..Len(raw)
    BY <1>1
  <2> HIDE DEF keep
  <2>2. QED
    BY <1>1, <2>1, FiniteBelow
<1>3. /\ Cardinality(keep) \in Nat /\ order \in [1..Cardinality(keep) -> keep]
      /\ \A i, j \in 1..Cardinality(keep) : i < j => order[i] < order[j]
  <2> HIDE DEF keep
  <2>1. QED
    BY <1>2, IncreasingIs
<1>4. Distinct(raw) = [n \in DOMAIN order |-> raw[order[n]]]
  BY DEF Distinct
<1>5. \A i, j \in keep : i < j => ~ (raw[i].company = raw[j].company /\ raw[i].type = raw[j].type)
  <2>1. \A i, j \in keep : i < j => i \in 1..j - 1
    BY <1>1
  <2>2. QED
    BY <2>1
<1>6. keep \subseteq DOMAIN raw
  OBVIOUS
<1> DEFINE seen == Distinct(raw)
<1> HIDE DEF keep, order
<1>7. DOMAIN seen = 1..Cardinality(keep) /\ Len(seen) = Cardinality(keep)
  BY <1>3, <1>4
<1>8. \A n \in 1..Cardinality(keep) : seen[n] = raw[order[n]] /\ order[n] \in keep
  BY <1>3, <1>4
<1>9. ASSUME NEW i \in 1..Cardinality(keep), NEW j \in 1..Cardinality(keep), i # j
      PROVE  ~ (seen[i].company = seen[j].company /\ seen[i].type = seen[j].type)
  <2>1. i < j \/ j < i
    BY <1>3, <1>9
  <2>2. order[i] < order[j] \/ order[j] < order[i]
    BY <1>3, <2>1
  <2>3. QED
    BY <1>5, <1>8, <2>2
<1> HIDE DEF seen
<1>10. FoundOnce(seen)
  BY <1>1, <1>3, <1>6, <1>7, <1>8, <1>9 DEF FoundOnce
<1>11. QED
  BY <1>10 DEF seen

LEMMA DetectedOnce ==
    ASSUME NEW seen \in Detections
    PROVE  FoundOnce(seen)
<1>1. PICK a \in Answers :
        seen = EnrichWithClaude(Distinct(AdzunaSurges(a.adzuna) \o NewsRaw(a.news) \o
                                          CrunchbaseRaw(a.crunchbase) \o MagnittRaw(a.magnitt)),
                                 a.claude)
  BY DEF Detections
<1> DEFINE raw == AdzunaSurges(a.adzuna) \o NewsRaw(a.news) \o
                    CrunchbaseRaw(a.crunchbase) \o MagnittRaw(a.magnitt)
           sigs == Distinct(raw)
<1>2. FoundOnce(sigs)
  <2>1. SoundRaws(raw)
    BY SurgesAreSound, NewsAreSound, ProvidersAreSound, ConcatSound
  <2> HIDE DEF raw
  <2>2. QED
    BY <2>1, DistinctIs
<1> HIDE DEF sigs, raw
<1>3. seen = EnrichWithClaude(sigs, a.claude)
  BY <1>1 DEF sigs, raw
<1>4. DOMAIN seen = DOMAIN sigs
  BY <1>3 DEF EnrichWithClaude
<1>5. ASSUME NEW i \in DOMAIN sigs
      PROVE  /\ SoundRaw(seen[i])
             /\ seen[i].company = sigs[i].company /\ seen[i].type = sigs[i].type
  <2>1. \/ seen[i] = sigs[i]
        \/ /\ sigs[i].company \in DOMAIN a.claude
           /\ seen[i] = Merged(sigs[i], a.claude[sigs[i].company])
    BY <1>3 DEF EnrichWithClaude
  <2>2. SoundRaw(sigs[i])
    BY <1>2 DEF FoundOnce
  <2>3. ASSUME NEW e, e.text \in Texts, e.confidence \in Int
        PROVE  /\ SoundRaw(Merged(sigs[i], e))
               /\ Merged(sigs[i], e).company = sigs[i].company
               /\ Merged(sigs[i], e).type = sigs[i].type
    BY <2>2, <2>3 DEF Merged, SoundRaw, Sound, RawFields
  <2>4. sigs[i].company \in DOMAIN a.claude =>
          /\ a.claude[sigs[i].company].text \in Texts
          /\ a.claude[sigs[i].company].confidence \in Int
    BY AnswersAssumption
  <2>5. QED
    BY <2>1, <2>2, <2>3, <2>4
<1>6. Len(seen) = Len(sigs)
  BY <1>2, <1>4 DEF FoundOnce
<1>7. QED
  BY <1>2, <1>4, <1>5, <1>6 DEF FoundOnce

-----------------------------------------------------------------------------
(* The hidden market: what is scored.                                      *)

\* The parts of a score that the evidence, the type and the batch guarantee.
LEMMA ScoreParts ==
    ASSUME NEW r, Sound(r), NEW boost \in PreferenceBoosts
    PROVE  /\ ScoreConfidence(r) \in Int /\ ScoreRelevance(r, boost) \in Int
           /\ ScoreConfidence(r) >= 50 /\ ScoreRelevance(r, boost) >= 35
           /\ \/ ScoreConfidence(r) >= 70
              \/ ScoreRelevance(r, boost) >= 55
<1> DEFINE c == IF r.confidence = 0 THEN 50 ELSE r.confidence
           points == boost +
             (CASE r.type \in {"funding", "leadership", "expansion", "ma_activity",
                               "board_change", "hiring_surge"} -> 80
                [] r.type \in {"product_launch", "velocity", "pain_signal", "structural"} -> 55
                [] OTHER -> 35)
<1>1. TierFloor(r.tier) = IF r.tier = "strong" THEN 70 ELSE 50
  BY DEF Sound, TierFloor
<1>2. c \in Int
  BY DEF Sound
<1>3. points \in Int /\ points >= 35 /\ (r.type \in MediumTypes => points >= 55)
  BY DEF PreferenceBoosts, MediumTypes
<1>4. /\ ScoreConfidence(r) = Max({TierFloor(r.tier), Min({100, c})})
      /\ ScoreRelevance(r, boost) = Min({100, points})
  BY DEF ScoreConfidence, ScoreRelevance
<1> HIDE DEF c, points
<1>5. ScoreConfidence(r) \in Int /\ ScoreConfidence(r) >= TierFloor(r.tier)
  <2>1. Min({100, c}) \in Int
    BY <1>2, SmallerOfTwo
  <2>2. TierFloor(r.tier) \in Int
    BY <1>1
  <2> DEFINE u == Min({100, c})
             t == TierFloor(r.tier)
  <2>3. u \in Int /\ t \in Int /\ ScoreConfidence(r) = Max({t, u})
    BY <1>4, <2>1, <2>2
  <2> HIDE DEF u, t
  <2>4. ScoreConfidence(r) \in Int /\ ScoreConfidence(r) >= t
    BY <2>3, GreaterOfTwo
  <2>5. QED
    BY <2>4 DEF t
<1>6. /\ ScoreRelevance(r, boost) \in Int /\ ScoreRelevance(r, boost) >= 35
      /\ r.type \in MediumTypes => ScoreRelevance(r, boost) >= 55
  BY <1>3, <1>4, SmallerOfTwo
<1>7. r.tier = "strong" \/ r.type \in MediumTypes
  BY DEF Sound
<1>8. QED
  BY <1>1, <1>5, <1>6, <1>7

LEMMA HistoryCounts ==
    ASSUME NEW history \in {<<0, 3>>, <<0, 1>>, <<100, 5>>}
    PROVE  /\ ScoreHistorical(history[1], history[2]) \in Int
           /\ ScoreHistorical(history[1], history[2]) >= 0
BY DEF ScoreHistorical

LEMMA GateIs ==
    ASSUME NEW score \in Int
    PROVE  /\ score >= 6000 => ApplyGate(score) = "pass"
           /\ score \in 4000..5999 => ApplyGate(score) = "conditional"
<1>1. CASE score >= 6000
  BY <1>1 DEF ApplyGate
<1>2. CASE score \in 4000..5999
  <2>1. ~ (score >= 6000) /\ score \notin 2000..3999 /\ ~ (score < 2000)
    BY <1>2
  <2>2. QED
    BY <1>2, <2>1 DEF ApplyGate
<1>3. QED
  BY <1>1, <1>2

\* A signal of a scan is never turned away.
LEMMA ScansPass ==
    ASSUME NEW r, Sound(r), NEW boost \in PreferenceBoosts, NEW past \in Int, past >= 0,
           NEW count \in Int
    PROVE  ApplyGate(QualityScore(r, boost, past, count)) \in {"pass", "conditional"}
<1> DEFINE c == ScoreConfidence(r)
           v == ScoreRelevance(r, boost)
           b == StackBonus(count)
           sum == 35 * c + 25 * 100 + 25 * v + 15 * past + 100 * b
<1>1. /\ c \in Int /\ v \in Int /\ c >= 50 /\ v >= 35 /\ (c >= 70 \/ v >= 55)
  BY ScoreParts
<1>2. b \in Int /\ b >= 0
  <2> DEFINE m == Max({0, count - 1})
  <2>1. count - 1 \in Int
    OBVIOUS
  <2>2. m \in Int /\ m >= 0
    BY <2>1, GreaterOfTwo
  <2>3. b = Min({15, 5 * m})
    BY DEF StackBonus
  <2> HIDE DEF m, b
  <2>4. 5 * m \in Int /\ 5 * m >= 0
    BY <2>2
  <2>5. QED
    BY <2>3, <2>4, SmallerOfTwo
<1>3. QualityScore(r, boost, past, count) = Min({10000, sum})
  BY DEF QualityScore, ScoreRecency
<1> HIDE DEF c, v, b
<1>4. sum \in Int /\ sum >= 5125
  BY <1>1, <1>2
<1> HIDE DEF sum
<1> DEFINE score == QualityScore(r, boost, past, count)
<1>5. score \in Int /\ score >= 5125
  BY <1>3, <1>4, SmallerOfTwo
<1> HIDE DEF score
<1>6. CASE score >= 6000
  <2>1. ApplyGate(score) = "pass"
    BY <1>5, <1>6, GateIs
  <2>2. QED
    BY <2>1 DEF score
<1>7. CASE ~ (score >= 6000)
  <2>1. score \in 4000..5999
    BY <1>5, <1>7
  <2>2. ApplyGate(score) = "conditional"
    BY <1>5, <2>1, GateIs
  <2>3. QED
    BY <2>2 DEF score
<1>8. QED
  BY <1>6, <1>7

LEMMA BatchIsCounted ==
    ASSUME IsFiniteSet(hidden), NEW batch \in SUBSET hidden, NEW company
    PROVE  BatchCounts(company, batch, hidden) \in Int
<1> DEFINE own == {s \in batch : s.company = company}
           rest == {x \in hidden : x.company = company /\ ~ x.dismissed}
           types == {x.type : x \in rest}
<1>1. IsFiniteSet(own) /\ IsFiniteSet(rest)
  <2>1. own \subseteq hidden /\ rest \subseteq hidden
    OBVIOUS
  <2> HIDE DEF own, rest
  <2>2. QED
    BY <2>1, FS_Subset
<1>2. IsFiniteSet(types)
  <2> DEFINE f == [x \in rest |-> x.type]
  <2> HIDE DEF rest
  <2>1. DOMAIN f = rest /\ types = {f[x] : x \in DOMAIN f}
    OBVIOUS
  <2> HIDE DEF f, types
  <2>2. QED
    BY <1>1, <2>1, FiniteImage
<1>3. BatchCounts(company, batch, hidden) = Cardinality(own) + Cardinality(types)
  BY DEF BatchCounts
<1> HIDE DEF own, types
<1>4. QED
  BY <1>1, <1>2, <1>3, FS_CardinalityType

-----------------------------------------------------------------------------
(* The hidden market: rows and scans.                                      *)

RowFields ==
  {"id", "company", "type", "confidence", "tier", "text", "role", "argued", "trusted", "by",
   "begun", "age", "dismissed", "gate", "interpretations", "ended", "stack"}
MarketFields == {"at", "found", "ids", "scored", "begun"}

RowsInOrder ==
  /\ IsFiniteSet(hidden)
  /\ \A r \in hidden : /\ DOMAIN r = RowFields
                       /\ r.id \in Nat /\ r.begun \in Nat /\ r.begun <= r.id /\ r.age \in Nat
                       /\ ~ r.ended => r.interpretations = <<>>

\* While a scan searches, only other ones add rows.
Searching(q) ==
  market[q].at = "detected" =>
    /\ FoundOnce(market[q].found) /\ market[q].begun \in Nat /\ market[q].begun <= NextId
    /\ \A r \in FoundByScan : r.age < MarketCooldown => r.id >= market[q].begun /\ r.by # q

\* The rows of a scan are its own until it ends.
Owning(q) ==
  /\ market[q].at \in {"persisted", "scored"} =>
       /\ \A n \in market[q].ids : n \in Nat /\ n < NextId
       /\ \A r \in hidden : r.id \in market[q].ids => r.by = q /\ ~ r.ended /\ Sound(r)
  /\ market[q].at = "scored" =>
       /\ market[q].ids = {k.id : k \in market[q].scored}

MarketInv ==
  /\ DOMAIN market = Markets /\ \A q \in Markets : DOMAIN market[q] = MarketFields
  /\ RowsInOrder
  /\ \A q \in Markets : Searching(q) /\ Owning(q)
  /\ RescanNeedsARace

LEMMA MarketInitInv == MarketInit => MarketInv
<1> SUFFICES ASSUME MarketInit PROVE MarketInv
  OBVIOUS
<1>1. hidden = {} /\ market = [q \in Markets |-> AtRest]
  BY DEF MarketInit
<1>2. DOMAIN AtRest = MarketFields /\ AtRest.at = "idle"
  BY DEF AtRest, MarketFields
<1> HIDE DEF AtRest
<1>3. \A q \in Markets : market[q].at = "idle" /\ DOMAIN market[q] = MarketFields
  BY <1>1, <1>2
<1>4. QED
  BY <1>1, <1>3, FS_EmptySet
     DEF MarketInv, RowsInOrder, Searching, Owning, RescanNeedsARace,
         FoundByScan

\* The next id is above all that were given.
IdsBelow ==
  /\ NextId \in Nat /\ \A r \in hidden : r.id < NextId
  /\ NextId - 1 \in {0} \cup Ids /\ \A n \in {0} \cup Ids : n \in Nat /\ n < NextId

LEMMA NextIdIs == RowsInOrder => IdsBelow
<1> SUFFICES ASSUME RowsInOrder PROVE IdsBelow
  OBVIOUS
<1> DEFINE S == {0} \cup Ids
<1>1. S \in SUBSET Nat /\ S \in SUBSET Int /\ S # {}
  BY DEF RowsInOrder, Ids
<1>2. IsFiniteSet(S)
  <2> DEFINE f == [r \in hidden |-> r.id]
  <2>1. DOMAIN f = hidden /\ Ids = {f[r] : r \in DOMAIN f}
    BY DEF Ids
  <2> HIDE DEF f
  <2>2. IsFiniteSet(Ids)
    BY <2>1, FiniteImage DEF RowsInOrder
  <2>3. IsFiniteSet(Ids \cup {0})
    BY <2>2, FS_AddElement
  <2>4. S = Ids \cup {0}
    OBVIOUS
  <2>5. QED
    BY <2>3, <2>4
<1>3. NextId = Max(S) + 1
  BY DEF NextId
<1>4. \A r \in hidden : r.id \in S
  BY DEF Ids
<1> HIDE DEF S
<1>5. Max(S) \in S /\ \A n \in S : n <= Max(S)
  BY <1>1, <1>2, Extremes
<1>6. \A n \in S : n \in Nat
  BY <1>1
<1>7. Max(S) \in Nat
  BY <1>5, <1>6
<1> DEFINE m == Max(S)
<1> HIDE DEF m
<1>8. NextId = m + 1 /\ m \in Nat /\ m \in S /\ \A n \in S : n \in Nat /\ n <= m
  BY <1>3, <1>5, <1>6, <1>7 DEF m
<1>9. NextId \in Nat /\ NextId - 1 = m /\ \A n \in S : n < NextId
  BY <1>8
<1>10. QED
  BY <1>4, <1>6, <1>8, <1>9 DEF S, IdsBelow

LEMMA NextIdGrows ==
    ASSUME RowsInOrder, RowsInOrder', Ids \subseteq Ids'
    PROVE  NextId <= NextId'
<1>1. /\ NextId \in Nat /\ NextId - 1 \in {0} \cup Ids
      /\ NextId' \in Nat /\ \A n \in {0} \cup Ids' : n \in Nat /\ n < NextId'
  <2>1. IdsBelow
    BY NextIdIs
  <2>2. RowsInOrder' => IdsBelow'
    BY NextIdIs, PTL
  <2>3. QED
    BY <2>1, <2>2 DEF IdsBelow
<1>2. NextId - 1 < NextId'
  BY <1>1
<1>3. QED
  BY <1>1, <1>2

\* A row after a step that adds none: it says the same of the signal, and is no
\* fresher.
Renews(s, r) ==
  /\ DOMAIN s = RowFields
  /\ s.id = r.id /\ s.company = r.company /\ s.type = r.type
  /\ s.confidence = r.confidence /\ s.tier = r.tier /\ s.text = r.text
  /\ s.by = r.by /\ s.begun = r.begun
  /\ s.age \in Nat /\ (s.age < MarketCooldown => r.age < MarketCooldown)
  /\ ~ s.ended => s.interpretations = <<>>

LEMMA RenewedRows ==
    ASSUME MarketInv, NEW f, DOMAIN f = hidden, hidden' = {f[r] : r \in hidden},
           \A r \in hidden : Renews(f[r], r)
    PROVE  RowsInOrder' /\ NextId' = NextId /\ RescanNeedsARace'
<1>1. IsFiniteSet(hidden')
  BY FiniteImage DEF MarketInv, RowsInOrder
<1>2. RowsInOrder'
  BY <1>1 DEF MarketInv, RowsInOrder, Renews
<1>3. Ids' = Ids
  BY DEF Ids, Renews
<1>4. NextId' = NextId
  BY <1>3 DEF NextId
<1>5. RescanNeedsARace'
  <2> SUFFICES ASSUME NEW r \in hidden, NEW s \in hidden, f[r] # f[s],
                      f[r] \in FoundByScan', f[s] \in FoundByScan',
                      f[r].age < MarketCooldown, f[s].age < MarketCooldown,
                      f[r].company = f[s].company, f[r].type = f[s].type
               PROVE  f[r].by # f[s].by /\ f[r].begun <= f[s].id /\ f[s].begun <= f[r].id
    BY DEF RescanNeedsARace, FoundByScan
  <2>1. Renews(f[r], r) /\ Renews(f[s], s) /\ r # s
    OBVIOUS
  <2>2. /\ r \in FoundByScan /\ s \in FoundByScan
        /\ r.age < MarketCooldown /\ s.age < MarketCooldown
        /\ r.company = s.company /\ r.type = s.type
    BY <2>1 DEF FoundByScan, Renews
  <2>3. r.by # s.by /\ r.begun <= s.id /\ s.begun <= r.id
    BY <2>1, <2>2 DEF MarketInv, RescanNeedsARace
  <2>4. QED
    BY <2>1, <2>3 DEF Renews
<1>6. QED
  BY <1>2, <1>4, <1>5

\* A scan that such a step leaves alone, with its rows.
LEMMA RenewedScan ==
    ASSUME MarketInv, NEW f, DOMAIN f = hidden, hidden' = {f[r] : r \in hidden},
           \A r \in hidden : Renews(f[r], r), NextId' = NextId,
           NEW p \in Markets, market'[p] = market[p],
           \A r \in hidden : r.by = p /\ ~ r.ended => ~ f[r].ended
    PROVE  Searching(p)' /\ Owning(p)'
<1>1. Searching(p) /\ Owning(p)
  BY DEF MarketInv
<1>2. Searching(p)'
  BY <1>1 DEF Searching, FoundByScan, Renews
<1>3. Owning(p)'
  <2>1. ASSUME market[p].at \in {"persisted", "scored"}, NEW r \in hidden,
               f[r].id \in market[p].ids
        PROVE  f[r].by = p /\ ~ f[r].ended /\ Sound(f[r])
    <3>1. Renews(f[r], r)
      OBVIOUS
    <3>2. r.id \in market[p].ids
      BY <2>1, <3>1 DEF Renews
    <3>3. r.by = p /\ ~ r.ended /\ Sound(r)
      BY <1>1, <2>1, <3>2 DEF Owning
    <3>4. QED
      BY <3>1, <3>3 DEF Renews, Sound
  <2>2. QED
    BY <1>1, <2>1 DEF Owning
<1>4. QED
  BY <1>2, <1>3

\* Rows that are added by x, a scan or the extension, with new ids.
LEMMA AddedRows ==
    ASSUME MarketInv, NEW new, IsFiniteSet(new), hidden' = hidden \cup new, NEW x,
           \A r \in new : /\ DOMAIN r = RowFields /\ r.by = x
                          /\ r.id \in Nat /\ NextId <= r.id
                          /\ r.begun \in Nat /\ r.begun <= r.id /\ r.age \in Nat
                          /\ ~ r.ended /\ r.interpretations = <<>>
    PROVE  /\ RowsInOrder' /\ NextId <= NextId'
           /\ \A p \in Markets : market'[p] = market[p] /\ (x = "extension" \/ p # x) =>
                                   Searching(p)' /\ Owning(p)'
<1>0. IdsBelow
  BY NextIdIs DEF MarketInv
<1>1. IsFiniteSet(hidden')
  BY FS_Union DEF MarketInv, RowsInOrder
<1>2. RowsInOrder'
  BY <1>1 DEF MarketInv, RowsInOrder
<1>3. NextId <= NextId' /\ NextId \in Nat /\ NextId' \in Nat
  <2>1. Ids \subseteq Ids'
    BY DEF Ids
  <2>2. RowsInOrder' => IdsBelow'
    BY NextIdIs, PTL
  <2>3. QED
    BY <1>0, <1>2, <2>1, <2>2, NextIdGrows DEF MarketInv, IdsBelow
<1>5. ASSUME NEW p \in Markets, market'[p] = market[p], x = "extension" \/ p # x
      PROVE  Searching(p)' /\ Owning(p)'
  <2>1. Searching(p) /\ Owning(p)
    BY DEF MarketInv
  <2>2. Searching(p)'
    <3> SUFFICES ASSUME market[p].at = "detected" PROVE Searching(p)'
      BY <1>5 DEF Searching
    <3>1. FoundOnce(market[p].found) /\ market[p].begun \in Nat /\ market[p].begun <= NextId
      BY <2>1 DEF Searching
    <3>2. market[p].begun <= NextId'
      BY <1>3, <3>1
    <3>3. ASSUME NEW r \in new PROVE r.id >= market[p].begun /\ (r.by # "extension" => r.by # p)
      BY <1>3, <1>5, <3>1
    <3>4. ASSUME NEW r \in hidden, r.by # "extension", r.age < MarketCooldown
          PROVE  r.id >= market[p].begun /\ r.by # p
      BY <2>1, <3>4 DEF Searching, FoundByScan
    <3>5. \A r \in FoundByScan' : r.age < MarketCooldown => r.id >= market[p].begun /\ r.by # p
      BY <3>3, <3>4 DEF FoundByScan
    <3>6. QED
      BY <1>5, <3>1, <3>2, <3>5 DEF Searching
  <2>3. Owning(p)'
    <3>1. ASSUME market[p].at \in {"persisted", "scored"}
          PROVE  /\ \A n \in market[p].ids : n \in Nat /\ n < NextId'
                 /\ \A r \in new : r.id \notin market[p].ids
      <4>1. \A n \in market[p].ids : n \in Nat /\ n < NextId
        BY <2>1, <3>1 DEF Owning
      <4>2. \A r \in new : r.id \in Nat /\ NextId <= r.id
        OBVIOUS
      <4>3. QED
        BY <1>3, <4>1, <4>2
    <3>2. QED
      BY <1>5, <2>1, <3>1 DEF Owning
  <2>4. QED
    BY <2>2, <2>3
<1>6. QED
  BY <1>2, <1>3, <1>5

-----------------------------------------------------------------------------
(* The hidden market: one lemma for each step.                             *)

\* The record of the scan that a step changes.
LEMMA OneScan ==
    ASSUME MarketInv, NEW q \in Markets, NEW m, market' = [market EXCEPT ![q] = m],
           DOMAIN m = MarketFields
    PROVE  /\ DOMAIN market' = Markets /\ \A p \in Markets : DOMAIN market'[p] = MarketFields
           /\ market'[q] = m /\ \A p \in Markets : p # q => market'[p] = market[p]
BY DEF MarketInv

LEMMA RestIs ==
    /\ DOMAIN AtRest = MarketFields /\ AtRest.at = "idle" /\ AtRest.ids = {}
BY DEF AtRest, MarketFields

\* A step that leaves the rows alone.
LEMMA SameRows ==
    ASSUME MarketInv, hidden' = hidden
    PROVE  /\ RowsInOrder' /\ RescanNeedsARace' /\ NextId' = NextId
           /\ \A p \in Markets : market'[p] = market[p] => Searching(p)' /\ Owning(p)'
<1>1. NextId' = NextId
  BY DEF NextId, Ids
<1>2. RowsInOrder' /\ RescanNeedsARace'
  BY DEF MarketInv, RowsInOrder, RescanNeedsARace, FoundByScan
<1>3. ASSUME NEW p \in Markets, market'[p] = market[p]
      PROVE  Searching(p)' /\ Owning(p)'
  <2>1. Searching(p) /\ Owning(p)
    BY DEF MarketInv
  <2>2. Searching(p)'
    BY <1>1, <1>3, <2>1 DEF Searching, FoundByScan
  <2>3. Owning(p)'
    BY <1>1, <1>3, <2>1 DEF Owning
  <2>4. QED
    BY <2>2, <2>3
<1>4. QED
  BY <1>1, <1>2, <1>3

LEMMA DetectKeeps ==
    ASSUME MarketInv, NEW q \in Markets, DetectSignals(q)
    PROVE  MarketInv'
<1>1. PICK seen \in Detections :
        market' = [market EXCEPT ![q] =
          [AtRest EXCEPT !.at = "detected", !.found = seen, !.begun = NextId]]
  BY DEF DetectSignals
<1> DEFINE m == [AtRest EXCEPT !.at = "detected", !.found = seen, !.begun = NextId]
<1>2. DOMAIN m = MarketFields /\ m.at = "detected" /\ m.found = seen /\ m.begun = NextId
  BY DEF AtRest, MarketFields
<1>3. market' = [market EXCEPT ![q] = m]
  BY <1>1
<1> HIDE DEF m
<1>4. /\ DOMAIN market' = Markets /\ \A p \in Markets : DOMAIN market'[p] = MarketFields
      /\ market'[q] = m /\ \A p \in Markets : p # q => market'[p] = market[p]
  BY <1>2, <1>3, OneScan
<1>5. hidden' = hidden /\ Fresh = {}
  BY DEF DetectSignals
<1>6. /\ RowsInOrder' /\ RescanNeedsARace' /\ NextId' = NextId
      /\ \A p \in Markets : market'[p] = market[p] => Searching(p)' /\ Owning(p)'
  BY <1>5, SameRows
<1>7. NextId \in Nat
  BY NextIdIs DEF MarketInv, IdsBelow
<1>8. Searching(q)'
  <2>1. \A r \in FoundByScan' : ~ (r.age < MarketCooldown)
    BY <1>5 DEF FoundByScan, Fresh
  <2>2. FoundOnce(seen)
    BY DetectedOnce
  <2>3. QED
    BY <1>2, <1>4, <1>6, <1>7, <2>1, <2>2 DEF Searching
<1>9. Owning(q)'
  BY <1>2, <1>4 DEF Owning
<1>10. QED
  BY <1>4, <1>6, <1>8, <1>9 DEF MarketInv

LEMMA LostKeeps ==
    ASSUME MarketInv, NEW q \in Markets, market' = [market EXCEPT ![q] = AtRest],
           hidden' = hidden
    PROVE  MarketInv'
<1>1. DOMAIN AtRest = MarketFields /\ AtRest.at = "idle"
  BY RestIs
<1>2. /\ DOMAIN market' = Markets /\ \A p \in Markets : DOMAIN market'[p] = MarketFields
      /\ market'[q] = AtRest /\ \A p \in Markets : p # q => market'[p] = market[p]
  BY <1>1, OneScan
<1>3. /\ RowsInOrder' /\ RescanNeedsARace'
      /\ \A p \in Markets : market'[p] = market[p] => Searching(p)' /\ Owning(p)'
  BY SameRows
<1>4. Searching(q)' /\ Owning(q)'
  BY <1>1, <1>2 DEF Searching, Owning
<1>5. QED
  BY <1>2, <1>3, <1>4 DEF MarketInv

\* The rows that a scan commits: what it found, under the next ids.
LEMMA PersistAdds ==
    ASSUME MarketInv, NEW q \in Markets, Persist(q),
           ~ (hidden' = hidden /\ market' = [market EXCEPT ![q] = AtRest])
    PROVE  \E new, ids :
             /\ IsFiniteSet(new) /\ hidden' = hidden \cup new
             /\ \A r \in new : /\ DOMAIN r = RowFields /\ r.by = q /\ Sound(r)
                               /\ r.id \in Nat /\ NextId <= r.id
                               /\ r.begun = market[q].begun /\ r.begun \in Nat /\ r.begun <= r.id
                               /\ r.age \in Nat /\ ~ r.ended /\ r.interpretations = <<>>
             /\ \A r, s \in new : r.company = s.company /\ r.type = s.type => r = s
             /\ ids = {r.id : r \in new}
             /\ \/ market' = [market EXCEPT ![q] = AtRest]
                \/ market' = [market EXCEPT ![q].at = "persisted", ![q].ids = ids]
<1> DEFINE seen == market[q].found
           kept == 1..Min({ScanCap, Len(seen)})
           id(i) == NextId + i - 1
           row(i) == NewRow(id(i), seen[i], q, market[q].begun)
           new == {row(i) : i \in kept}
<1>1. /\ market[q].at = "detected" /\ hidden' = hidden \cup new
      /\ \/ market' = [market EXCEPT ![q] = AtRest]
         \/ market' = [market EXCEPT ![q].at = "persisted", ![q].ids = {id(i) : i \in kept}]
  BY DEF Persist
<1>2. /\ FoundOnce(seen) /\ market[q].begun \in Nat /\ market[q].begun <= NextId
  BY <1>1 DEF MarketInv, Searching
<1>3. NextId \in Nat
  BY NextIdIs DEF MarketInv, IdsBelow
<1>4. kept \subseteq DOMAIN seen /\ \A i \in kept : i \in Nat /\ i >= 1
  <2>1. Len(seen) \in Nat /\ DOMAIN seen = 1..Len(seen)
    BY <1>2 DEF FoundOnce
  <2>2. Min({ScanCap, Len(seen)}) \in Int /\ Min({ScanCap, Len(seen)}) <= Len(seen)
    <3> DEFINE l == Len(seen)
    <3>1. ScanCap \in Int /\ l \in Int
      BY <2>1 DEF ScanCap
    <3> HIDE DEF l, seen
    <3>2. Min({ScanCap, l}) \in Int /\ Min({ScanCap, l}) <= l
      BY <3>1, SmallerOfTwo
    <3>3. QED
      BY <3>2 DEF l
  <2> DEFINE n == Min({ScanCap, Len(seen)})
  <2>3. kept = 1..n /\ n \in Int /\ n <= Len(seen)
    BY <2>2
  <2> HIDE DEF n, seen, kept
  <2>4. QED
    BY <2>1, <2>3
<1>5. IsFiniteSet(kept)
  BY <1>2, <1>4, FiniteBelow DEF FoundOnce
<1> HIDE DEF kept, seen
<1>5a. \A i \in kept : id(i) \in Nat /\ NextId <= id(i) /\ market[q].begun <= id(i)
  BY <1>2, <1>3, <1>4
<1> DEFINE f == [i \in kept |-> row(i)]
<1>6. DOMAIN f = kept /\ new = {f[i] : i \in kept}
  OBVIOUS
<1>7. \A i \in kept :
        /\ DOMAIN f[i] = RowFields /\ f[i].by = q /\ f[i].id = id(i)
        /\ f[i].begun = market[q].begun /\ f[i].age = 0 /\ f[i].ended = FALSE
        /\ f[i].interpretations = <<>>
        /\ f[i].company = seen[i].company /\ f[i].type = seen[i].type
        /\ f[i].confidence = seen[i].confidence /\ f[i].text = seen[i].text
        /\ f[i].tier = seen[i].tier
  <2> TAKE i \in kept
  <2> HIDE DEF id
  <2>1. f[i] = row(i)
    OBVIOUS
  <2> HIDE DEF f
  <2>2. QED
    BY <2>1 DEF NewRow, RowFields
<1> HIDE DEF f, new, id
<1>8. \A i \in kept : /\ Sound(f[i]) /\ f[i].id \in Nat /\ NextId <= f[i].id
                         /\ market[q].begun <= f[i].id
  <2> TAKE i \in kept
  <2>1. SoundRaw(seen[i])
    BY <1>2, <1>4 DEF FoundOnce, seen
  <2>2. Sound(f[i])
    BY <1>7, <2>1 DEF SoundRaw, Sound
  <2>3. QED
    BY <1>5a, <1>7, <2>2
<1>9. ASSUME NEW i \in kept, NEW j \in kept, seen[i].company = seen[j].company,
             seen[i].type = seen[j].type
      PROVE  i = j
  BY <1>2, <1>4, <1>9 DEF FoundOnce, seen
<1>10. {id(i) : i \in kept} = {r.id : r \in new}
  BY <1>6, <1>7
<1>11. IsFiniteSet(new)
  BY <1>5, <1>6, FiniteImage
<1>12. \A r \in new : /\ DOMAIN r = RowFields /\ r.by = q /\ Sound(r)
                      /\ r.id \in Nat /\ NextId <= r.id
                      /\ r.begun = market[q].begun /\ r.begun \in Nat /\ r.begun <= r.id
                      /\ r.age \in Nat /\ ~ r.ended /\ r.interpretations = <<>>
  <2>1. \A i \in kept : f[i].begun \in Nat /\ f[i].begun <= f[i].id /\ f[i].age \in Nat
    BY <1>2, <1>7, <1>8
  <2>2. QED
    BY <1>6, <1>7, <1>8, <2>1
<1>13. \A r, s \in new : r.company = s.company /\ r.type = s.type => r = s
  <2>1. ASSUME NEW i \in kept, NEW j \in kept, f[i].company = f[j].company,
               f[i].type = f[j].type
        PROVE  i = j
    BY <1>7, <1>9, <2>1
  <2>2. QED
    BY <1>6, <2>1
<1>14. hidden' = hidden \cup new
  BY <1>1 DEF new
<1>15. \/ market' = [market EXCEPT ![q] = AtRest]
       \/ market' = [market EXCEPT ![q].at = "persisted", ![q].ids = {id(i) : i \in kept}]
  BY <1>1 DEF id
<1>16. QED
  BY <1>15, <1>10, <1>11, <1>12, <1>13, <1>14

LEMMA PersistKeeps ==
    ASSUME MarketInv, NEW q \in Markets, Persist(q)
    PROVE  MarketInv'
<1>1. CASE hidden' = hidden /\ market' = [market EXCEPT ![q] = AtRest]
  BY <1>1, LostKeeps
<1>2. CASE ~ (hidden' = hidden /\ market' = [market EXCEPT ![q] = AtRest])
  <2>1. PICK new, ids :
           /\ IsFiniteSet(new) /\ hidden' = hidden \cup new
           /\ \A r \in new : /\ DOMAIN r = RowFields /\ r.by = q /\ Sound(r)
                             /\ r.id \in Nat /\ NextId <= r.id
                             /\ r.begun = market[q].begun /\ r.begun \in Nat /\ r.begun <= r.id
                             /\ r.age \in Nat /\ ~ r.ended /\ r.interpretations = <<>>
           /\ \A r, s \in new : r.company = s.company /\ r.type = s.type => r = s
           /\ ids = {r.id : r \in new}
           /\ \/ market' = [market EXCEPT ![q] = AtRest]
              \/ market' = [market EXCEPT ![q].at = "persisted", ![q].ids = ids]
    BY <1>2, PersistAdds
  <2>2. PICK m : /\ market' = [market EXCEPT ![q] = m] /\ DOMAIN m = MarketFields
                 /\ \/ m.at = "idle"
                    \/ m.at = "persisted" /\ m.ids = ids
    <3>1. CASE market' = [market EXCEPT ![q] = AtRest]
      BY <3>1, RestIs
    <3>2. CASE market' = [market EXCEPT ![q].at = "persisted", ![q].ids = ids]
      <4> DEFINE m == [market[q] EXCEPT !.at = "persisted", !.ids = ids]
      <4>1. market' = [market EXCEPT ![q] = m]
        BY <3>2
      <4>2. DOMAIN m = MarketFields /\ m.at = "persisted" /\ m.ids = ids
        BY DEF MarketInv, MarketFields
      <4>3. QED
        BY <4>1, <4>2
    <3>3. QED
      BY <2>1, <3>1, <3>2
  <2>3. /\ DOMAIN market' = Markets /\ \A p \in Markets : DOMAIN market'[p] = MarketFields
        /\ market'[q] = m /\ \A p \in Markets : p # q => market'[p] = market[p]
    BY <2>2, OneScan
  <2>4. /\ RowsInOrder' /\ NextId <= NextId'
        /\ \A p \in Markets : market'[p] = market[p] /\ (q = "extension" \/ p # q) =>
                                Searching(p)' /\ Owning(p)'
    BY <2>1, AddedRows
  <2>5. /\ IdsBelow /\ NextId \in Nat /\ IdsBelow' /\ NextId' \in Nat
    <3>1. RowsInOrder' => IdsBelow'
      BY NextIdIs, PTL
    <3>2. IdsBelow
      BY NextIdIs DEF MarketInv
    <3>3. QED
      BY <2>4, <3>1, <3>2 DEF IdsBelow
  <2>6. Searching(q)'
    BY <2>2, <2>3 DEF Searching
  <2>7. Owning(q)'
    <3> SUFFICES ASSUME m.at = "persisted", m.ids = ids PROVE Owning(q)'
      BY <2>2, <2>3 DEF Owning
    <3>1. \A n \in ids : n \in Nat /\ n < NextId'
      BY <2>1, <2>5 DEF IdsBelow
    <3>2. \A r \in hidden : r.id \notin ids
      <4>1. \A r \in hidden : r.id \in Nat /\ r.id < NextId
        BY <2>5 DEF IdsBelow, MarketInv, RowsInOrder
      <4>2. \A n \in ids : n \in Nat /\ NextId <= n
        BY <2>1
      <4>3. QED
        BY <2>5, <4>1, <4>2
    <3>3. \A r \in hidden' : r.id \in ids => r.by = q /\ ~ r.ended /\ Sound(r)
      BY <2>1, <3>2
    <3>4. QED
      BY <2>3, <3>1, <3>3 DEF Owning
  <2>8. RescanNeedsARace'
    <3> SUFFICES ASSUME NEW r \in hidden', NEW s \in hidden', r # s,
                        r.by # "extension", s.by # "extension",
                        r.age < MarketCooldown, s.age < MarketCooldown,
                        r.company = s.company, r.type = s.type
                 PROVE  r.by # s.by /\ r.begun <= s.id /\ s.begun <= r.id
      BY DEF RescanNeedsARace, FoundByScan
    <3>1. ASSUME NEW n \in new, NEW o \in hidden, o.by # "extension", o.age < MarketCooldown
          PROVE  n.by # o.by /\ n.begun <= o.id /\ o.begun <= n.id
      <4>1. market[q].at = "detected"
        BY DEF Persist
      <4>2. o.id >= market[q].begun /\ o.by # q
        BY <3>1, <4>1 DEF MarketInv, Searching, FoundByScan
      <4>3. n.by = q /\ n.begun = market[q].begun /\ n.begun \in Nat /\ n.id \in Nat
            /\ NextId <= n.id
        BY <2>1
      <4>4. o.begun <= o.id /\ o.begun \in Nat /\ o.id \in Nat /\ o.id < NextId
        BY <2>5 DEF MarketInv, RowsInOrder, IdsBelow
      <4>5. QED
        BY <2>5, <4>2, <4>3, <4>4
    <3>2. CASE r \in new /\ s \in new
      BY <2>1, <3>2
    <3>3. CASE r \in hidden /\ s \in hidden
      BY <3>3 DEF MarketInv, RescanNeedsARace, FoundByScan
    <3>4. CASE r \in new /\ s \in hidden
      BY <3>1, <3>4
    <3>5. CASE r \in hidden /\ s \in new
      BY <3>1, <3>5
    <3>6. QED
      BY <2>1, <3>2, <3>3, <3>4, <3>5
  <2>9. QED
    BY <2>3, <2>4, <2>6, <2>7, <2>8 DEF MarketInv
<1>3. QED
  BY <1>1, <1>2

LEMMA ScoreKeeps ==
    ASSUME MarketInv, NEW q \in Markets, ScoreBatch(q)
    PROVE  MarketInv'
<1>1. PICK boost \in PreferenceBoosts, history \in {<<0, 3>>, <<0, 1>>, <<100, 5>>} :
        LET count(r) == BatchCounts(r.company, Batch(q), hidden)
            gate(r) == ApplyGate(QualityScore(r, boost, ScoreHistorical(history[1], history[2]),
                                              count(r)))
            scored == {[r EXCEPT !.gate = gate(r), !.stack = StackBonus(count(r))] :
                         r \in Batch(q)}
            kept == {r \in scored : r.gate # "reject"}
        IN /\ hidden' = IF kept = scored THEN hidden ELSE (hidden \ Batch(q)) \cup kept
           /\ market' = [market EXCEPT ![q].at = "scored", ![q].ids = {r.id : r \in kept},
                ![q].found = <<>>, ![q].scored = kept]
  BY DEF ScoreBatch
<1> DEFINE past == ScoreHistorical(history[1], history[2])
           count(r) == BatchCounts(r.company, Batch(q), hidden)
           gate(r) == ApplyGate(QualityScore(r, boost, past, count(r)))
           mark(r) == [r EXCEPT !.gate = gate(r), !.stack = StackBonus(count(r))]
           scored == {mark(r) : r \in Batch(q)}
           kept == {r \in scored : r.gate # "reject"}
<1>2. past \in Int /\ past >= 0
  BY HistoryCounts
<1>3. market[q].at = "persisted" /\ Owning(q)
  BY DEF ScoreBatch, MarketInv
<1>4. \A r \in Batch(q) : /\ r \in hidden /\ r.id \in market[q].ids
                          /\ Sound(r) /\ DOMAIN r = RowFields
  BY <1>3 DEF Batch, Owning, MarketInv, RowsInOrder
<1>5. \A r \in Batch(q) : gate(r) \in {"pass", "conditional"}
  <2> TAKE r \in Batch(q)
  <2>1. count(r) \in Int
    <3>1. IsFiniteSet(hidden) /\ Batch(q) \in SUBSET hidden
      BY DEF MarketInv, RowsInOrder, Batch
    <3>2. QED
      BY <3>1, BatchIsCounted
  <2> HIDE DEF count, past
  <2>2. QED
    BY <1>2, <1>4, <2>1, ScansPass
<1> HIDE DEF past
<1>6. \A r \in Batch(q) : mark(r).id = r.id /\ mark(r).gate = gate(r)
  <2> TAKE r \in Batch(q)
  <2> HIDE DEF gate, count
  <2>1. DOMAIN r = RowFields
    BY <1>4
  <2>2. QED
    BY <2>1 DEF RowFields
<1>7. /\ hidden' = IF kept = scored THEN hidden ELSE (hidden \ Batch(q)) \cup kept
      /\ market' = [market EXCEPT ![q].at = "scored", ![q].ids = {r.id : r \in kept},
                ![q].found = <<>>, ![q].scored = kept]
  BY <1>1 DEF past
<1> HIDE DEF gate, mark
<1>8. kept = scored
  BY <1>5, <1>6
<1>9. \A k \in scored : k.id \in market[q].ids
  BY <1>4, <1>6
<1> HIDE DEF scored, kept
<1> DEFINE ids == {k.id : k \in scored}
           m == [market[q] EXCEPT !.at = "scored", !.ids = ids, !.found = <<>>,
                                  !.scored = scored]
<1>10. hidden' = hidden /\ market' = [market EXCEPT ![q] = m]
  BY <1>7, <1>8
<1>11. DOMAIN m = MarketFields /\ m.at = "scored" /\ m.ids = ids /\ m.scored = scored
  BY DEF MarketInv, MarketFields
<1> HIDE DEF m
<1>12. /\ DOMAIN market' = Markets /\ \A p \in Markets : DOMAIN market'[p] = MarketFields
       /\ market'[q] = m /\ \A p \in Markets : p # q => market'[p] = market[p]
  BY <1>10, <1>11, OneScan
<1>13. /\ RowsInOrder' /\ RescanNeedsARace' /\ NextId' = NextId
       /\ \A p \in Markets : market'[p] = market[p] => Searching(p)' /\ Owning(p)'
  BY <1>10, SameRows
<1>14. Searching(q)'
  BY <1>11, <1>12 DEF Searching
<1>15. ids \subseteq market[q].ids
  BY <1>9
<1>16. Owning(q)'
  BY <1>3, <1>9, <1>10, <1>11, <1>12, <1>13, <1>15 DEF Owning
<1>17. QED
  BY <1>12, <1>13, <1>14, <1>16 DEF MarketInv

\* What the user and the clock do to a row changes nothing that a scan rests on.
LEMMA KeptOutcome ==
    ASSUME MarketInv, NEW f, DOMAIN f = hidden, hidden' = {f[r] : r \in hidden},
           \A r \in hidden : Renews(f[r], r) /\ f[r].ended = r.ended,
           UNCHANGED market
    PROVE  MarketInv'
<1>1. RowsInOrder' /\ NextId' = NextId /\ RescanNeedsARace'
  BY RenewedRows
<1>2. \A p \in Markets : Searching(p)' /\ Owning(p)'
  BY <1>1, RenewedScan
<1>3. QED
  BY <1>1, <1>2 DEF MarketInv

LEMMA DismissKeeps == MarketInv /\ DismissHiddenSignal => MarketInv'
<1> SUFFICES ASSUME MarketInv, DismissHiddenSignal PROVE MarketInv'
  OBVIOUS
<1>1. PICK x \in hidden :
        hidden' = (hidden \ {x}) \cup {[x EXCEPT !.dismissed = ~ @]}
  BY DEF DismissHiddenSignal
<1> DEFINE f == [r \in hidden |-> IF r = x THEN [r EXCEPT !.dismissed = ~ @] ELSE r]
<1>2. DOMAIN f = hidden /\ hidden' = {f[r] : r \in hidden}
  BY <1>1
<1>3. ASSUME NEW r \in hidden
      PROVE  Renews(f[r], r) /\ f[r].ended = r.ended
  <2>1. DOMAIN r = RowFields /\ r.age \in Nat /\ (~ r.ended => r.interpretations = <<>>)
    BY DEF MarketInv, RowsInOrder
  <2>2. f[r] = r \/ f[r] = [r EXCEPT !.dismissed = ~ r.dismissed]
    OBVIOUS
  <2> HIDE DEF f
  <2>3. QED
    BY <2>1, <2>2 DEF Renews, RowFields
<1> HIDE DEF f
<1>4. UNCHANGED market
  BY DEF DismissHiddenSignal
<1>5. QED
  BY <1>2, <1>3, <1>4, KeptOutcome

LEMMA TickKeeps == MarketInv /\ MarketTick => MarketInv'
<1> SUFFICES ASSUME MarketInv, MarketTick PROVE MarketInv'
  OBVIOUS
<1> DEFINE f == [r \in hidden |-> [r EXCEPT !.age = Min({MarketCooldown, r.age + 1})]]
<1>1. DOMAIN f = hidden /\ hidden' = {f[r] : r \in hidden}
  BY DEF MarketTick
<1>2. ASSUME NEW r \in hidden
      PROVE  Renews(f[r], r) /\ f[r].ended = r.ended
  <2> DEFINE n == Min({MarketCooldown, r.age + 1})
  <2>1. DOMAIN r = RowFields /\ r.age \in Nat /\ (~ r.ended => r.interpretations = <<>>)
    BY DEF MarketInv, RowsInOrder
  <2>2. n \in Nat /\ (n < MarketCooldown => r.age < MarketCooldown)
    <3>1. MarketCooldown \in Nat
      BY AnswersAssumption
    <3>2. MarketCooldown \in Int /\ r.age + 1 \in Int /\ r.age \in Nat
      BY <2>1, <3>1
    <3>3. n = IF MarketCooldown <= r.age + 1 THEN MarketCooldown ELSE r.age + 1
      BY <3>2, SmallerOfTwo
    <3> HIDE DEF n
    <3>4. QED
      BY <3>1, <3>2, <3>3
  <2>3. f[r] = [r EXCEPT !.age = n]
    OBVIOUS
  <2> HIDE DEF f, n
  <2>4. QED
    BY <2>1, <2>2, <2>3 DEF Renews, RowFields
<1> HIDE DEF f
<1>3. UNCHANGED market
  BY DEF MarketTick
<1>4. QED
  BY <1>1, <1>2, <1>3, KeptOutcome

LEMMA CaptureKeeps == MarketInv /\ Capture => MarketInv'
<1> SUFFICES ASSUME MarketInv, Capture PROVE MarketInv'
  OBVIOUS
<1>1. PICK raw, gate, bonus :
        /\ hidden' = hidden \cup
             {[NewRow(NextId, raw, "extension", NextId) EXCEPT !.gate = gate, !.stack = bonus]}
        /\ UNCHANGED market
  <2>1. PICK c \in Captures, boost \in PreferenceBoosts, history \in {0, 50} :
          LET confidence == CASE c.type = "leadership" -> 55
                              [] c.type = "hiring_surge" -> 70 [] c.type = "expansion" -> 45
              role == IF c.type = "hiring_surge" /\ c.titled THEN "record" ELSE "none"
              raw == NewRow(NextId, Raw(c.company, c.type, confidence, "medium", c.text,
                                        role, TRUE, c.trusted), "extension", NextId)
              count == CompanySignals(c.company, hidden \cup {raw})
          IN hidden' = hidden \cup
               {[raw EXCEPT !.gate = ApplyGate(QualityScore(raw, boost, history, count)),
                            !.stack = StackBonus(count)]}
    BY DEF Capture
  <2> DEFINE confidence == CASE c.type = "leadership" -> 55
                             [] c.type = "hiring_surge" -> 70 [] c.type = "expansion" -> 45
             role == IF c.type = "hiring_surge" /\ c.titled THEN "record" ELSE "none"
             plain == Raw(c.company, c.type, confidence, "medium", c.text, role, TRUE, c.trusted)
             row == NewRow(NextId, plain, "extension", NextId)
             count == CompanySignals(c.company, hidden \cup {row})
             gate == ApplyGate(QualityScore(row, boost, history, count))
             bonus == StackBonus(count)
  <2>2. hidden' = hidden \cup
          {[NewRow(NextId, plain, "extension", NextId) EXCEPT !.gate = gate, !.stack = bonus]}
    BY <2>1
  <2>3. UNCHANGED market
    BY DEF Capture
  <2> HIDE DEF plain, gate, bonus
  <2>4. QED
    BY <2>2, <2>3
<1> DEFINE r == [NewRow(NextId, raw, "extension", NextId) EXCEPT !.gate = gate, !.stack = bonus]
<1>2. /\ DOMAIN r = RowFields /\ r.by = "extension" /\ r.id = NextId /\ r.begun = NextId
      /\ r.age = 0 /\ r.ended = FALSE /\ r.interpretations = <<>>
  BY DEF NewRow, RowFields
<1>3. NextId \in Nat
  BY NextIdIs DEF MarketInv, IdsBelow
<1> HIDE DEF r
<1> DEFINE new == {r}
<1>4. IsFiniteSet(new) /\ hidden' = hidden \cup new
  BY <1>1, FS_Singleton DEF r
<1>5. /\ DOMAIN r = RowFields /\ r.by = "extension"
      /\ r.id \in Nat /\ NextId <= r.id
      /\ r.begun \in Nat /\ r.begun <= r.id /\ r.age \in Nat
      /\ ~ r.ended /\ r.interpretations = <<>>
  BY <1>2, <1>3
<1>6. \A s \in new : /\ DOMAIN s = RowFields /\ s.by = "extension"
                     /\ s.id \in Nat /\ NextId <= s.id
                     /\ s.begun \in Nat /\ s.begun <= s.id /\ s.age \in Nat
                     /\ ~ s.ended /\ s.interpretations = <<>>
  BY <1>5
<1> HIDE DEF new
<1>7. /\ RowsInOrder'
      /\ \A p \in Markets : Searching(p)' /\ Owning(p)'
  BY <1>1, <1>4, <1>6, AddedRows
<1>8. RescanNeedsARace'
  <2>1. FoundByScan' = FoundByScan
    BY <1>4, <1>6 DEF FoundByScan
  <2>2. QED
    BY <2>1 DEF MarketInv, RescanNeedsARace
<1>9. QED
  BY <1>1, <1>7, <1>8 DEF MarketInv

\* A row that its scan interprets.
Interpreted(q, r) ==
  LET k == CHOOSE k \in market[q].scored : k.id = r.id
      s == [r EXCEPT !.gate = k.gate, !.stack = k.stack, !.ended = TRUE]
  IN [s EXCEPT !.interpretations = @ \o SetToSeq(Interpretations(s))]

LEMMA InterpretedRow ==
    ASSUME MarketInv, NEW q \in Markets, market[q].at = "scored", NEW r \in Batch(q)
    PROVE  Renews(Interpreted(q, r), r) /\ r.by = q
<1> DEFINE k == CHOOSE k \in market[q].scored : k.id = r.id
           s == [r EXCEPT !.gate = k.gate, !.stack = k.stack, !.ended = TRUE]
           list == s.interpretations \o SetToSeq(Interpretations(s))
           d == [s EXCEPT !.interpretations = list]
<1>1. d = Interpreted(q, r)
  BY DEF Interpreted
<1>2. r.by = q /\ DOMAIN r = RowFields /\ r.age \in Nat
  BY DEF Batch, MarketInv, RowsInOrder, Owning
<1> HIDE DEF k
<1>3. /\ DOMAIN s = RowFields /\ s.ended = TRUE
      /\ s.id = r.id /\ s.company = r.company /\ s.type = r.type
      /\ s.confidence = r.confidence /\ s.tier = r.tier /\ s.text = r.text
      /\ s.by = r.by /\ s.begun = r.begun /\ s.age = r.age
  BY <1>2 DEF RowFields
<1> HIDE DEF s, list
<1>4. /\ DOMAIN d = RowFields /\ d.ended = TRUE
      /\ d.id = r.id /\ d.company = r.company /\ d.type = r.type
      /\ d.confidence = r.confidence /\ d.tier = r.tier /\ d.text = r.text
      /\ d.by = r.by /\ d.begun = r.begun /\ d.age = r.age
  BY <1>3 DEF RowFields
<1> HIDE DEF d
<1>5. QED
  BY <1>1, <1>2, <1>4 DEF Renews

LEMMA InterpretKeeps ==
    ASSUME MarketInv, NEW q \in Markets, InterpretBatch(q)
    PROVE  MarketInv'
<1> DEFINE done(r) == Interpreted(q, r)
           f == [r \in hidden |-> IF r \in Batch(q) THEN done(r) ELSE r]
<1>1. /\ market[q].at = "scored" /\ market' = [market EXCEPT ![q] = AtRest]
      /\ hidden' = (hidden \ Batch(q)) \cup {done(r) : r \in Batch(q)}
  BY DEF InterpretBatch, Interpreted
<1>2. \A r \in Batch(q) : Renews(done(r), r) /\ r.by = q
  BY <1>1, InterpretedRow
<1> HIDE DEF done
<1>3. DOMAIN f = hidden /\ hidden' = {f[r] : r \in hidden}
  <2>1. Batch(q) \subseteq hidden
    BY DEF Batch
  <2>2. QED
    BY <1>1, <2>1
<1>4. \A r \in hidden : \/ r \in Batch(q) /\ f[r] = done(r)
                        \/ f[r] = r
  OBVIOUS
<1> HIDE DEF f
<1>5. \A r \in hidden : Renews(f[r], r)
  <2> TAKE r \in hidden
  <2>1. Renews(r, r)
    BY DEF MarketInv, RowsInOrder, Renews
  <2>2. QED
    BY <1>2, <1>4, <2>1
<1>6. RowsInOrder' /\ NextId' = NextId /\ RescanNeedsARace'
  BY <1>3, <1>5, RenewedRows
<1>7. DOMAIN AtRest = MarketFields /\ AtRest.at = "idle"
  BY RestIs
<1>8. /\ DOMAIN market' = Markets /\ \A p \in Markets : DOMAIN market'[p] = MarketFields
      /\ market'[q] = AtRest /\ \A p \in Markets : p # q => market'[p] = market[p]
  BY <1>1, <1>7, OneScan
<1>9. Searching(q)' /\ Owning(q)'
  BY <1>7, <1>8 DEF Searching, Owning
<1>10. ASSUME NEW p \in Markets, p # q
       PROVE  Searching(p)' /\ Owning(p)'
  <2>1. \A r \in hidden : r.by = p /\ ~ r.ended => ~ f[r].ended
    BY <1>2, <1>4, <1>10
  <2>2. QED
    BY <1>3, <1>5, <1>6, <1>8, <1>10, <2>1, RenewedScan
<1>11. QED
  BY <1>6, <1>8, <1>9, <1>10 DEF MarketInv

LEMMA MarketStep == MarketInv /\ [MarketNext]_marketVars => MarketInv'
<1> SUFFICES ASSUME MarketInv, [MarketNext]_marketVars PROVE MarketInv'
  OBVIOUS
<1>1. ASSUME NEW q \in Markets, DetectSignals(q) PROVE MarketInv'
  BY <1>1, DetectKeeps
<1>2. ASSUME NEW q \in Markets, Persist(q) PROVE MarketInv'
  BY <1>2, PersistKeeps
<1>3. ASSUME NEW q \in Markets, ScoreBatch(q) PROVE MarketInv'
  BY <1>3, ScoreKeeps
<1>4. ASSUME NEW q \in Markets, InterpretBatch(q) PROVE MarketInv'
  BY <1>4, InterpretKeeps
<1>5. ASSUME NEW q \in Markets, MarketLost(q) PROVE MarketInv'
  BY <1>5, LostKeeps DEF MarketLost
<1>6. CASE Capture
  BY <1>6, CaptureKeeps
<1>7. CASE DismissHiddenSignal
  BY <1>7, DismissKeeps
<1>8. CASE MarketTick
  BY <1>8, TickKeeps
<1>9. CASE UNCHANGED marketVars
  <2>1. hidden' = hidden /\ market' = market
    BY <1>9 DEF marketVars
  <2>2. QED
    BY <2>1, SameRows DEF MarketInv
<1>10. QED
  BY <1>1, <1>2, <1>3, <1>4, <1>5, <1>6, <1>7, <1>8, <1>9 DEF MarketNext

\* Two fresh rows of one user about the same company and type are the work of
\* scans that overlapped, whatever the sources and the model answer.
THEOREM RescansNeedARace == HiddenSpec => []RescanNeedsARace
<1>1. MarketInv => RescanNeedsARace
  BY DEF MarketInv
<1>2. QED
  BY <1>1, MarketInitInv, MarketStep, PTL DEF HiddenSpec

-----------------------------------------------------------------------------
(* The radar.                                                              *)

\* What every adapted item is: only the hidden market dates its items and posts
\* none, and job boards post theirs.
ItemOK(x) ==
  /\ x.posted \in BOOLEAN /\ x.salary \in BOOLEAN
  /\ x.precomputed \in Nat
  /\ x.days = -1 \/ (x.days \in Nat /\ x.by = "hidden_market")
  /\ x.by = "hidden_market" => x.days \in Nat /\ ~ x.posted
  /\ x.by = "job_board" => x.posted

\* A list of such items.
ItemsOK(list) == \E S : list \in Seq(S) /\ \A x \in S : ItemOK(x)

RadarInv == MarketInv /\ radar.done \in BOOLEAN /\ (radar.done => ItemsOK(radar.inputs))

LEMMA AdaptedOK ==
    /\ \A c \in SignalCard : ItemOK(AdaptSignalCard(c))
    /\ \A j \in JobOpening : ItemOK(AdaptScoutJob(j))
    /\ \A old \in Ages : \A r : ItemOK(AdaptHiddenSignal(r, old))
<1>1. \A c \in SignalCard : ItemOK(AdaptSignalCard(c))
  BY DEF ItemOK, AdaptSignalCard, SignalCard
<1>2. \A j \in JobOpening : ItemOK(AdaptScoutJob(j))
  BY DEF ItemOK, AdaptScoutJob, JobOpening
<1>3. ASSUME NEW old \in Ages, NEW r PROVE ItemOK(AdaptHiddenSignal(r, old))
  <2>1. old \in Nat
    BY RequestedAssumption
  <2>2. QED
    BY <2>1 DEF ItemOK, AdaptHiddenSignal
<1>4. QED
  BY <1>1, <1>2, <1>3

\* Two lists of such items make one.
LEMMA TogetherOK ==
    ASSUME NEW s, NEW t, ItemsOK(s), ItemsOK(t)
    PROVE  ItemsOK(s \o t)
<1>1. PICK S : s \in Seq(S) /\ \A x \in S : ItemOK(x)
  BY DEF ItemsOK
<1>2. PICK T : t \in Seq(T) /\ \A x \in T : ItemOK(x)
  BY DEF ItemsOK
<1>3. s \in Seq(S \cup T) /\ t \in Seq(S \cup T)
  BY <1>1, <1>2
<1>4. s \o t \in Seq(S \cup T)
  BY <1>3
<1>5. QED
  BY <1>1, <1>2, <1>4 DEF ItemsOK

\* The newest of the open rows, each adapted.
LEMMA HiddenInputsOK ==
    ASSUME MarketInv, NEW old \in Ages
    PROVE  ItemsOK(HiddenInputs(old))
<1> DEFINE open == {r \in hidden : ~ r.dismissed}
           ids == {r.id : r \in open}
           nth(n) == CHOOSE r \in open : r.id = Increasing(ids)[Cardinality(ids) + 1 - n]
           k == Min({50, Cardinality(ids)})
<1>1. Cardinality(ids) \in Nat
  <2>1. IsFiniteSet(open)
    BY FS_Subset DEF MarketInv, RowsInOrder
  <2> DEFINE f == [r \in open |-> r.id]
  <2> HIDE DEF open
  <2>2. DOMAIN f = open /\ ids = {f[r] : r \in DOMAIN f}
    OBVIOUS
  <2> HIDE DEF f, ids
  <2>3. QED
    BY <2>1, <2>2, FiniteImage, FS_CardinalityType
<1>2. k \in Nat
  <2> HIDE DEF ids
  <2>1. QED
    BY <1>1, SmallerOfTwo
<1>3. \A n : ItemOK(AdaptHiddenSignal(nth(n), old))
  BY AdaptedOK
<1>4. HiddenInputs(old) = [n \in 1..k |-> AdaptHiddenSignal(nth(n), old)]
  BY DEF HiddenInputs
<1> HIDE DEF k, nth
<1>5. ItemsOK([n \in 1..k |-> AdaptHiddenSignal(nth(n), old)])
  <2> DEFINE S == {AdaptHiddenSignal(nth(i), old) : i \in 1..k}
  <2>1. [n \in 1..k |-> AdaptHiddenSignal(nth(n), old)] \in Seq(S)
    BY <1>2
  <2>2. \A x \in S : ItemOK(x)
    BY <1>3
  <2> HIDE DEF S
  <2>3. QED
    BY <2>1, <2>2 DEF ItemsOK
<1>6. QED
  BY <1>4, <1>5

LEMMA RadarInitInv == RadarInit => RadarInv
BY MarketInitInv DEF RadarInit, RadarInv, NoRadar

LEMMA RunRadarKeeps == RadarInv /\ RunRadar => RadarInv'
<1> SUFFICES ASSUME RadarInv, RunRadar PROVE RadarInv'
  OBVIOUS
<1>1. MarketInv'
  BY SameRows DEF RadarInv, RunRadar, marketVars, MarketInv
<1>2. PICK q \in Requested, old \in Ages :
         /\ radar'.done = TRUE
         /\ radar'.inputs = [i \in DOMAIN q.cards |-> AdaptSignalCard(q.cards[i])]
                              \o [i \in DOMAIN q.openings |-> AdaptScoutJob(q.openings[i])]
                              \o HiddenInputs(old)
  <2> DEFINE inputs(q, old) == [i \in DOMAIN q.cards |-> AdaptSignalCard(q.cards[i])]
                                \o [i \in DOMAIN q.openings |-> AdaptScoutJob(q.openings[i])]
                                \o HiddenInputs(old)
             reply(b, l, p, m) ==
               [done |-> TRUE, broken |-> b, inputs |-> l, prefs |-> p, shown |-> m]
  <2>2. PICK q \in Requested, old \in Ages :
               \E b, m : radar' = reply(b, inputs(q, old), q.prefs, m)
    BY ZenonT(30) DEF RunRadar
  <2> HIDE DEF inputs
  <2>3. radar'.done = TRUE /\ radar'.inputs = inputs(q, old)
    BY <2>2
  <2>4. QED
    BY <2>3 DEF inputs
<1>3. q.cards \in Seq(SignalCard) /\ q.openings \in Seq(JobOpening)
  BY RequestedAssumption
<1> DEFINE A == [i \in DOMAIN q.cards |-> AdaptSignalCard(q.cards[i])]
           B == [i \in DOMAIN q.openings |-> AdaptScoutJob(q.openings[i])]
<1>4. ItemsOK(A)
  <2> DEFINE S == {AdaptSignalCard(c) : c \in SignalCard}
  <2>1. A \in Seq(S)
    BY <1>3
  <2>2. QED
    BY <2>1, AdaptedOK DEF ItemsOK
<1>5. ItemsOK(B)
  <2> DEFINE S == {AdaptScoutJob(c) : c \in JobOpening}
  <2>1. B \in Seq(S)
    BY <1>3
  <2>2. QED
    BY <2>1, AdaptedOK DEF ItemsOK
<1>6. ItemsOK(HiddenInputs(old))
  BY HiddenInputsOK DEF RadarInv
<1> HIDE DEF A, B
<1>7. ItemsOK((A \o B) \o HiddenInputs(old))
  BY <1>4, <1>5, <1>6, TogetherOK
<1>8. QED
  BY <1>1, <1>2, <1>7 DEF RadarInv, A, B

LEMMA RadarStep == RadarInv /\ [RadarNext]_radarVars => RadarInv'
<1> SUFFICES ASSUME RadarInv, [RadarNext]_radarVars PROVE RadarInv'
  OBVIOUS
<1>1. CASE RunRadar
  BY <1>1, RunRadarKeeps
<1>2. CASE MarketNext /\ radar' = NoRadar
  BY <1>2, MarketStep DEF RadarInv, NoRadar
<1>3. CASE UNCHANGED radarVars
  BY <1>3, SameRows DEF RadarInv, radarVars, MarketInv
<1>4. QED
  BY <1>1, <1>2, <1>3 DEF RadarNext

\* Whatever the preferences, a fit is a number.
LEMMA FitIsNat ==
    ASSUME NEW m, NEW p, m.precomputed \in Nat
    PROVE  ProfileFit(m, p) \in Nat
<1> DEFINE sum == DomainCredit(m.role, p) + SeniorityCredit(m.role, p)
                  + (IF SectorsMatch(p.sectors, m.sector) THEN 200 ELSE 0)
                  + (IF RegionsMatch(p.regions, m.place) THEN 150 ELSE 0)
                  + StageCredit(m, p)
           caps == {sum} \cup (IF DomainMismatch(m.role, p) THEN {350} ELSE {})
                         \cup (IF SeniorityGap(m.role, p) >= 3 THEN {200} ELSE {})
           elsewhere == p.regions # {} /\ m.place # "none" /\ ~ RegionsMatch(p.regions, m.place)
<1>1. /\ DomainCredit(m.role, p) \in Nat /\ SeniorityCredit(m.role, p) \in Nat
      /\ StageCredit(m, p) \in Nat
  BY DEF DomainCredit, SeniorityCredit, StageCredit
<1>2. sum \in Nat
  BY <1>1
<1> HIDE DEF sum
<1>3. caps \subseteq Nat /\ caps # {} /\ IsFiniteSet(caps)
  <2>1. IsFiniteSet(({sum} \cup {350}) \cup {200})
    <3>1. IsFiniteSet({sum})
      BY FS_Singleton
    <3>2. IsFiniteSet({sum} \cup {350})
      BY <3>1, FS_AddElement
    <3>3. QED
      BY <3>2, FS_AddElement
  <2>2. caps \subseteq ({sum} \cup {350}) \cup {200}
    OBVIOUS
  <2>3. IsFiniteSet(caps)
    BY <2>1, <2>2, FS_Subset
  <2>4. QED
    BY <1>2, <2>3
<1> HIDE DEF caps
<1>4. Min(caps) \in Nat
  <2>1. caps \in SUBSET Int
    BY <1>3
  <2>2. QED
    BY <1>3, <2>1, Extremes
<1>5. ProfileFit(m, p) =
        (CASE ~ p.given -> IF m.precomputed > 0 THEN 10 * m.precomputed ELSE 150
           [] p.given /\ elsewhere -> (7 * Min(caps)) \div 10
           [] OTHER -> Min(caps))
  BY DEF ProfileFit, sum, caps
<1> HIDE DEF elsewhere
<1>6. /\ (7 * Min(caps)) \div 10 \in Nat
      /\ (IF m.precomputed > 0 THEN 10 * m.precomputed ELSE 150) \in Nat
  BY <1>4
<1>7. QED
  BY <1>4, <1>5, <1>6

-----------------------------------------------------------------------------
\* What every merged item is.
MergedOK(m) ==
  /\ m.rank \in 0..3 /\ m.number \in Nat /\ m.number >= 1
  /\ m.hidden \in BOOLEAN /\ m.board \in BOOLEAN /\ m.posted \in BOOLEAN
  /\ m.salary \in BOOLEAN /\ m.authoritative \in BOOLEAN
  /\ m.days \in Int /\ IF m.hidden THEN m.days >= 0 ELSE m.days = -1
  /\ m.board => m.posted
  /\ m.hidden /\ m.board => m.rank = 3

\* What one more source does to a merged item.
Grows(f, a) ==
  /\ a.number = f.number + 1
  /\ f.rank <= a.rank
  /\ f.hidden => a.hidden /\ a.days <= f.days
  /\ f.board => a.board
  /\ f.posted => a.posted
  /\ f.salary => a.salary

\* Confirmation never weakens the signal.
LEMMA StrengthGrows ==
    ASSUME NEW f, NEW a, MergedOK(f), MergedOK(a), Grows(f, a)
    PROVE  /\ SignalStrength(f) \in 0..100 /\ SignalStrength(a) \in 0..100
           /\ SignalStrength(f) <= SignalStrength(a)
           /\ a.hidden /\ a.board /\ ~ (f.hidden /\ f.board) =>
                SignalStrength(f) + 10 <= SignalStrength(a)
<1> DEFINE base(m) == CASE m.rank = 3 -> 90 [] m.rank = 2 -> 65 [] m.rank = 1 -> 40
                        [] OTHER -> 20
<1>1. base(f) \in 20..90 /\ base(a) \in 20..90 /\ base(f) <= base(a)
  BY DEF MergedOK, Grows
<1>2. Max({base(f), 90}) = 90 /\ Max({base(a), 90}) = 90
  <2> HIDE DEF base
  <2>1. QED
    BY <1>1, GreaterOfTwo
<1>3. \A m : SignalStrength(m) =
        IF m.hidden /\ m.board THEN 100
        ELSE IF m.posted /\ m.salary THEN Max({base(m), 90}) ELSE base(m)
  BY DEF SignalStrength
<1> HIDE DEF base
<1>4. QED
  BY <1>1, <1>2, <1>3 DEF MergedOK, Grows

\* Only what is dated is more or less recent than the middle.
LEMMA RecencyIs ==
    ASSUME NEW m, MergedOK(m)
    PROVE  /\ ~ m.hidden => Recency(m) = 450
           /\ m.hidden => Recency(m) = IF m.days <= 60 THEN 1500 - 25 * m.days ELSE 0
           /\ Recency(m) \in Nat
<1>1. CASE m.hidden
  <2>1. m.days \in Int /\ m.days >= 0
    BY <1>1 DEF MergedOK
  <2>2. Max({0, 1500 - 25 * m.days}) = IF 0 <= 1500 - 25 * m.days THEN 1500 - 25 * m.days ELSE 0
    BY <2>1, GreaterOfTwo
  <2>3. QED
    BY <1>1, <2>1, <2>2 DEF Recency
<1>2. CASE ~ m.hidden
  BY <1>2 DEF Recency, MergedOK
<1>3. QED
  BY <1>1, <1>2

\* A date may make an opportunity look old, an earlier one never does.
LEMMA RecencyLoss ==
    ASSUME NEW f, NEW a, MergedOK(f), MergedOK(a), Grows(f, a)
    PROVE  /\ Recency(f) \in Nat /\ Recency(a) \in Nat
           /\ f.hidden => Recency(f) <= Recency(a)
           /\ ~ a.hidden => Recency(f) <= Recency(a)
           /\ ~ f.hidden => Recency(f) - 450 <= Recency(a)
BY RecencyIs DEF MergedOK, Grows

\* A vacancy costs a hidden opportunity its silence.
LEMMA CompetitionLoss ==
    ASSUME NEW f, NEW a, MergedOK(f), MergedOK(a), Grows(f, a)
    PROVE  /\ Competition(f) \in Nat /\ Competition(a) \in Nat
           /\ f.hidden => Competition(f) - 70 <= Competition(a)
           /\ f.hidden /\ f.posted => Competition(f) <= Competition(a)
           /\ ~ a.hidden => Competition(f) <= Competition(a)
           /\ ~ f.hidden => Competition(f) - 30 <= Competition(a)
BY DEF Competition, MergedOK, Grows

\* Each of the first three sources convinces.
LEMMA ConvictionGain ==
    ASSUME NEW f, NEW a, MergedOK(f), MergedOK(a), Grows(f, a)
    PROVE  /\ Conviction(f) \in Nat /\ Conviction(a) \in Nat
           /\ a.number = 2 => Conviction(f) + (IF f.authoritative THEN 15 ELSE 35) = Conviction(a)
           /\ a.number = 3 => Conviction(f) + 25 = Conviction(a)
           /\ a.number > 3 => Conviction(f) = Conviction(a)
BY DEF Conviction, MergedOK, Grows

\* All but the fit.
Evidence(m) == 20 * SignalStrength(m) + Recency(m) + 10 * Competition(m) + 10 * Conviction(m)

\* What is lost of the evidence, by the number of sources.
LEMMA EvidenceLoss ==
    ASSUME NEW f, NEW a, MergedOK(f), MergedOK(a), Grows(f, a)
    PROVE  /\ Evidence(f) \in Nat /\ Evidence(a) \in Nat
           /\ a.number = 2 => Evidence(f) - 600 <= Evidence(a)
           /\ a.number = 3 => Evidence(f) - 500 <= Evidence(a)
           /\ a.number > 3 => Evidence(f) - 750 <= Evidence(a)
<1> DEFINE sf == SignalStrength(f)  sa == SignalStrength(a)
           rf == Recency(f)         ra == Recency(a)
           cf == Competition(f)     ca == Competition(a)
           vf == Conviction(f)      va == Conviction(a)
<1>1. /\ sf \in Nat /\ sa \in Nat /\ sf <= sa
      /\ a.hidden /\ a.board /\ ~ (f.hidden /\ f.board) => sf + 10 <= sa
  BY StrengthGrows
<1>2. /\ rf \in Nat /\ ra \in Nat
      /\ f.hidden => rf <= ra
      /\ ~ a.hidden => rf <= ra
      /\ ~ f.hidden => rf - 450 <= ra
  BY RecencyLoss
<1>3. /\ cf \in Nat /\ ca \in Nat
      /\ f.hidden => cf - 70 <= ca
      /\ f.hidden /\ f.posted => cf <= ca
      /\ ~ a.hidden => cf <= ca
      /\ ~ f.hidden => cf - 30 <= ca
  BY CompetitionLoss
<1>4. /\ vf \in Nat /\ va \in Nat
      /\ a.number = 2 /\ ~ f.authoritative => vf + 35 = va
      /\ a.number = 2 /\ f.authoritative => vf + 15 = va
      /\ a.number = 3 => vf + 25 = va
      /\ a.number > 3 => vf = va
  BY ConvictionGain
<1>5. /\ f.hidden \in BOOLEAN /\ a.hidden \in BOOLEAN
      /\ f.posted \in BOOLEAN /\ f.authoritative \in BOOLEAN
      /\ a.number \in Nat
  BY DEF MergedOK, Grows
<1>6. /\ Evidence(f) = 20 * sf + rf + 10 * cf + 10 * vf
      /\ Evidence(a) = 20 * sa + ra + 10 * ca + 10 * va
  BY DEF Evidence
<1> HIDE DEF sf, sa, rf, ra, cf, ca, vf, va
<1>7. Evidence(f) \in Nat /\ Evidence(a) \in Nat
  BY <1>1, <1>2, <1>3, <1>4, <1>6
<1>8. CASE f.hidden
  BY <1>1, <1>2, <1>3, <1>4, <1>5, <1>6, <1>7, <1>8
<1>9. CASE ~ f.hidden /\ ~ a.hidden
  BY <1>1, <1>2, <1>3, <1>4, <1>5, <1>6, <1>7, <1>9
<1>10. CASE ~ f.hidden /\ a.hidden
  BY <1>1, <1>2, <1>3, <1>4, <1>5, <1>6, <1>7, <1>10
<1>11. QED
  BY <1>5, <1>8, <1>9, <1>10

\* A raw score loses at most the cost.
LEMMA ProductLoss ==
    ASSUME NEW f, NEW a, MergedOK(f), MergedOK(a), Grows(f, a), NEW fit \in Nat
    PROVE  /\ (4 * fit + Evidence(f)) * TierMultiplier(f) \in Nat
           /\ (4 * fit + Evidence(a)) * TierMultiplier(a) \in Nat
           /\ (4 * fit + Evidence(f)) * TierMultiplier(f) - 10000 * Cost(a.number)
                <= (4 * fit + Evidence(a)) * TierMultiplier(a)
           /\ Cost(a.number) \in Nat
<1> DEFINE x == 4 * fit + Evidence(f)  y == 4 * fit + Evidence(a)
           d == CASE a.number = 2 -> 600 [] a.number = 3 -> 500 [] OTHER -> 750
<1>1. x \in Nat /\ y \in Nat /\ d \in Nat /\ x - d <= y
  <2>1. a.number \in Nat /\ a.number >= 2
    BY DEF MergedOK, Grows
  <2>2. /\ Evidence(f) \in Nat /\ Evidence(a) \in Nat
        /\ a.number = 2 => Evidence(f) - 600 <= Evidence(a)
        /\ a.number = 3 => Evidence(f) - 500 <= Evidence(a)
        /\ a.number > 3 => Evidence(f) - 750 <= Evidence(a)
    BY EvidenceLoss
  <2>3. d \in Nat /\ Evidence(f) - d <= Evidence(a)
    BY <2>1, <2>2
  <2> HIDE DEF d
  <2>4. QED
    BY <2>2, <2>3
<1>2. 100 * d <= 10000 * Cost(a.number) /\ Cost(a.number) \in Nat
  BY DEF Cost
<1>3. /\ TierMultiplier(f) \in {25, 55, 85, 100} /\ TierMultiplier(a) \in {25, 55, 85, 100}
      /\ TierMultiplier(f) <= TierMultiplier(a)
  BY DEF TierMultiplier, MergedOK, Grows
<1> HIDE DEF x, y, d
<1>4. \A k \in {25, 55, 85, 100} : x * k \in Nat /\ y * k \in Nat
  BY <1>1
<1>5. \A k, l \in {25, 55, 85, 100} : k <= l => x * k - 100 * d <= y * l
  BY <1>1
<1>6. x * TierMultiplier(f) - 10000 * Cost(a.number) <= y * TierMultiplier(a)
  BY <1>1, <1>2, <1>3, <1>4, <1>5
<1>7. QED
  BY <1>2, <1>3, <1>4, <1>6 DEF x, y

\* Rounding keeps what is lost within whole points.
LEMMA RoundedLoss ==
    ASSUME NEW x \in Nat, NEW y \in Nat, NEW c \in Nat
    PROVE  /\ x - 10000 * c <= y => Rounded(x, 10000) - c <= Rounded(y, 10000)
           /\ Rounded(x, 10000) \in Nat
BY DEF Rounded

\* So does the penalty of a poor fit.
LEMMA TenthsLoss ==
    ASSUME NEW x \in Nat, NEW y \in Nat, NEW c \in Nat, x - c <= y
    PROVE  /\ Rounded(7 * x, 10) \in Nat /\ Rounded(7 * y, 10) \in Nat
           /\ Rounded(7 * x, 10) - c <= Rounded(7 * y, 10)
BY DEF Rounded

\* What is shown loses at most the cost.
LEMMA ScoreLoss ==
    ASSUME NEW f, NEW a, NEW p, MergedOK(f), MergedOK(a), Grows(f, a),
           f.precomputed \in Nat, ProfileFit(f, p) = ProfileFit(a, p)
    PROVE  ScoreOpportunity(a, p) >= ScoreOpportunity(f, p) - Cost(a.number)
<1> DEFINE fit == ProfileFit(f, p)  c == Cost(a.number)
           x(m) == (4 * fit + Evidence(m)) * TierMultiplier(m)
           s(m) == Rounded(x(m), 10000)
           t(m) == IF fit <= 350 THEN Rounded(7 * s(m), 10) ELSE s(m)
<1>1. fit \in Nat
  BY FitIsNat
<1>2. x(f) \in Nat /\ x(a) \in Nat /\ c \in Nat /\ x(f) - 10000 * c <= x(a)
  BY <1>1, ProductLoss
<1>a. /\ SignalStrength(f) \in Nat /\ SignalStrength(a) \in Nat
      /\ Recency(f) \in Nat /\ Recency(a) \in Nat
      /\ Competition(f) \in Nat /\ Competition(a) \in Nat
      /\ Conviction(f) \in Nat /\ Conviction(a) \in Nat
  BY StrengthGrows, RecencyLoss, CompetitionLoss, ConvictionGain
<1>3. ASSUME NEW m \in {f, a} PROVE ScoreOpportunity(m, p) = Min({100, t(m)})
  <2>1. 4 * fit + Evidence(m)
          = 4 * fit + 20 * SignalStrength(m) + Recency(m) + 10 * Competition(m)
            + 10 * Conviction(m)
    <3> HIDE DEF fit
    <3>1. QED
      BY <1>1, <1>a DEF Evidence
  <2>2. ProfileFit(m, p) = fit
    OBVIOUS
  <2>3. QED
    BY <2>1, <2>2 DEF ScoreOpportunity
<1> HIDE DEF fit, c, x
<1>4. s(f) \in Nat /\ s(a) \in Nat /\ s(f) - c <= s(a)
  BY <1>2, RoundedLoss
<1> HIDE DEF s
<1>5. t(f) \in Nat /\ t(a) \in Nat /\ t(f) - c <= t(a)
  <2>1. /\ Rounded(7 * s(f), 10) \in Nat /\ Rounded(7 * s(a), 10) \in Nat
        /\ Rounded(7 * s(f), 10) - c <= Rounded(7 * s(a), 10)
    BY <1>2, <1>4, TenthsLoss
  <2>2. QED
    BY <1>1, <1>4, <2>1
<1> HIDE DEF t
<1>6. /\ Min({100, t(f)}) \in Int /\ Min({100, t(f)}) = IF 100 <= t(f) THEN 100 ELSE t(f)
      /\ Min({100, t(a)}) \in Int /\ Min({100, t(a)}) = IF 100 <= t(a) THEN 100 ELSE t(a)
  BY <1>5, SmallerOfTwo
<1>7. Min({100, t(a)}) >= Min({100, t(f)}) - c
  BY <1>2, <1>5, <1>6
<1>8. QED
  BY <1>3, <1>7 DEF fit, c

\* The rank of a tier.
LEMMA TierRankIs == \A t : TierRank(t) \in 0..3
BY DEF TierRank

\* The ranks of a list, and what is dated in it.
LEMMA MergedDays ==
    ASSUME NEW l, ItemsOK(l), Len(l) >= 1
    PROVE  LET dated == {l[i].days : i \in DOMAIN l} \ {-1} IN
           /\ Len(l) \in Nat /\ DOMAIN l = 1..Len(l)
           /\ \A i \in DOMAIN l : ItemOK(l[i])
           /\ IsFiniteSet(dated) /\ dated \subseteq Nat
           /\ IsFiniteSet({TierRank(l[i].tier) : i \in DOMAIN l})
<1>1. PICK S : l \in Seq(S) /\ \A x \in S : ItemOK(x)
  BY DEF ItemsOK
<1>2. /\ Len(l) \in Nat /\ DOMAIN l = 1..Len(l)
      /\ \A i \in DOMAIN l : ItemOK(l[i])
  BY <1>1
<1> DEFINE days == [i \in DOMAIN l |-> l[i].days]
           ranks == [i \in DOMAIN l |-> TierRank(l[i].tier)]
           dated == {l[i].days : i \in DOMAIN l} \ {-1}
<1>3. IsFiniteSet(DOMAIN l)
  BY <1>2, FS_Interval
<1>4. IsFiniteSet({days[i] : i \in DOMAIN days}) /\ IsFiniteSet({ranks[i] : i \in DOMAIN ranks})
  <2>1. DOMAIN days = DOMAIN l /\ DOMAIN ranks = DOMAIN l
    OBVIOUS
  <2> HIDE DEF days, ranks
  <2>2. QED
    BY <1>3, <2>1, FiniteImage
<1>5. /\ {days[i] : i \in DOMAIN days} = {l[i].days : i \in DOMAIN l}
      /\ {ranks[i] : i \in DOMAIN ranks} = {TierRank(l[i].tier) : i \in DOMAIN l}
  OBVIOUS
<1>6. IsFiniteSet(dated)
  BY <1>4, <1>5, FS_Subset
<1>7. dated \subseteq Nat
  BY <1>2 DEF ItemOK
<1>8. QED
  BY <1>2, <1>4, <1>5, <1>6, <1>7

\* What a merged item is told by its list.
MergeIs(l) ==
  LET m == Merge(l) IN
  /\ m.number = Len(l)
  /\ m.hidden \in BOOLEAN /\ m.board \in BOOLEAN /\ m.posted \in BOOLEAN
  /\ m.salary \in BOOLEAN /\ m.authoritative \in BOOLEAN
  /\ m.hidden <=> (\E i \in DOMAIN l : l[i].by = "hidden_market")
  /\ m.board <=> (\E i \in DOMAIN l : l[i].by = "job_board")
  /\ m.posted <=> (\E i \in DOMAIN l : l[i].posted)
  /\ m.salary <=> (\E i \in DOMAIN l : l[i].salary)
  /\ m.authoritative <=> (\E i \in DOMAIN l : l[i].authoritative)
  /\ m.rank \in 0..3 /\ m.precomputed \in Nat
  /\ m.hidden /\ m.board => m.rank = 3
  /\ \A i \in DOMAIN l : TierRank(l[i].tier) <= m.rank
  /\ ~ (m.hidden /\ m.board) => \E i \in DOMAIN l : m.rank = TierRank(l[i].tier)
  /\ m.hidden => m.days \in Nat /\ \E i \in DOMAIN l : l[i].days = m.days
  /\ ~ m.hidden => m.days = -1
  /\ \A i \in DOMAIN l : l[i].days # -1 => m.days <= l[i].days

\* The fields of a merged item in terms of its list.
LEMMA MergeTells ==
    ASSUME NEW l, ItemsOK(l), Len(l) >= 1
    PROVE  MergeIs(l)
<1> DEFINE dated == {l[i].days : i \in DOMAIN l} \ {-1}
           ranks == {TierRank(l[i].tier) : i \in DOMAIN l}
           scores == {i \in DOMAIN l : l[i].precomputed > 0}
           hid == \E i \in DOMAIN l : l[i].by = "hidden_market"
           brd == \E i \in DOMAIN l : l[i].by = "job_board"
           days == IF dated = {} THEN -1 ELSE Min(dated)
           pre == IF scores = {} THEN 0 ELSE l[Min(scores)].precomputed
           rank == IF hid /\ brd THEN 3 ELSE Max(ranks)
<1>1. /\ Len(l) \in Nat /\ DOMAIN l = 1..Len(l) /\ \A i \in DOMAIN l : ItemOK(l[i])
      /\ IsFiniteSet(dated) /\ dated \subseteq Nat /\ IsFiniteSet(ranks)
  BY MergedDays
<1>2. /\ Merge(l).number = Len(l) /\ Merge(l).hidden = hid /\ Merge(l).board = brd
      /\ Merge(l).posted = (\E i \in DOMAIN l : l[i].posted)
      /\ Merge(l).salary = (\E i \in DOMAIN l : l[i].salary)
      /\ Merge(l).authoritative = (\E i \in DOMAIN l : l[i].authoritative)
      /\ Merge(l).rank = rank /\ Merge(l).days = days /\ Merge(l).precomputed = pre
  BY DEF Merge
<1>3. ranks \subseteq 0..3 /\ ranks # {}
  <2>1. 1 \in DOMAIN l
    BY <1>1
  <2>2. QED
    BY <2>1, TierRankIs
<1>4. Max(ranks) \in ranks /\ \A a \in ranks : a <= Max(ranks)
  <2> HIDE DEF ranks
  <2>1. ranks \in SUBSET Int
    BY <1>3
  <2>2. QED
    BY <1>1, <1>3, <2>1, Extremes
<1>5. /\ rank \in 0..3 /\ (hid /\ brd => rank = 3)
      /\ \A i \in DOMAIN l : TierRank(l[i].tier) <= rank
      /\ ~ (hid /\ brd) => \E i \in DOMAIN l : rank = TierRank(l[i].tier)
  <2>1. \A i \in DOMAIN l : TierRank(l[i].tier) \in ranks
    OBVIOUS
  <2>2. \A r \in ranks : \E i \in DOMAIN l : r = TierRank(l[i].tier)
    OBVIOUS
  <2> HIDE DEF ranks
  <2>3. \A i \in DOMAIN l : TierRank(l[i].tier) <= rank
    BY <1>3, <1>4, <2>1, TierRankIs
  <2>4. Max(ranks) \in 0..3 /\ \E i \in DOMAIN l : Max(ranks) = TierRank(l[i].tier)
    BY <1>3, <1>4, <2>2
  <2>5. QED
    BY <2>3, <2>4
<1>6. hid <=> dated # {}
  <2>1. ASSUME NEW i \in DOMAIN l
        PROVE  l[i].by = "hidden_market" <=> l[i].days # -1
    BY <1>1 DEF ItemOK
  <2>2. dated # {} <=> \E i \in DOMAIN l : l[i].days # -1
    OBVIOUS
  <2>3. QED
    BY <2>1, <2>2
<1>7. dated # {} => Min(dated) \in dated /\ \A a \in dated : Min(dated) <= a
  <2> HIDE DEF dated
  <2>1. dated \in SUBSET Int
    BY <1>1
  <2>2. QED
    BY <1>1, <2>1, Extremes
<1>8. /\ hid => days \in Nat /\ \E i \in DOMAIN l : l[i].days = days
      /\ ~ hid => days = -1
      /\ \A i \in DOMAIN l : l[i].days # -1 => days <= l[i].days
  <2>1. \A i \in DOMAIN l : l[i].days # -1 => l[i].days \in dated
    OBVIOUS
  <2>2. \A d \in dated : \E i \in DOMAIN l : l[i].days = d
    OBVIOUS
  <2> HIDE DEF dated, hid
  <2>3. QED
    BY <1>1, <1>6, <1>7, <2>1, <2>2
<1>9. pre \in Nat
  <2>1. IsFiniteSet(scores) /\ scores \in SUBSET Int
    BY <1>1, FiniteBelow
  <2>2. scores # {} => Min(scores) \in DOMAIN l
    <3>1. scores # {} => Min(scores) \in scores
      <4> HIDE DEF scores
      <4>1. QED
        BY <2>1, Extremes
    <3>2. QED
      BY <3>1
  <2> HIDE DEF scores
  <2>3. QED
    BY <1>1, <2>2 DEF ItemOK
<1> HIDE DEF hid, brd, days, pre, rank
<1>10. QED
  BY <1>2, <1>5, <1>8, <1>9 DEF MergeIs, hid, brd

LEMMA MergedIsOK ==
    ASSUME NEW l, ItemsOK(l), Len(l) >= 1
    PROVE  MergedOK(Merge(l)) /\ Merge(l).precomputed \in Nat
<1>1. MergeIs(l)
  BY MergeTells
<1>2. /\ Len(l) \in Nat /\ \A i \in DOMAIN l : ItemOK(l[i])
  BY MergedDays
<1> DEFINE m == Merge(l)
<1>3. m.board => m.posted
  BY <1>1, <1>2 DEF MergeIs, ItemOK
<1>4. QED
  BY <1>1, <1>2, <1>3 DEF MergeIs, MergedOK

\* A list with one more item merges to more.
LEMMA MergeGrows ==
    ASSUME NEW l, NEW k, ItemsOK(l), ItemsOK(k), Len(k) >= 1, Len(l) = Len(k) + 1,
           \A i \in DOMAIN k : \E j \in DOMAIN l : k[i] = l[j]
    PROVE  Grows(Merge(k), Merge(l))
<1> DEFINE f == Merge(k)  a == Merge(l)
<1>1. /\ Len(l) \in Nat /\ Len(k) \in Nat /\ Len(l) >= 1
      /\ \A i \in DOMAIN l : ItemOK(l[i])
      /\ \A i \in DOMAIN k : ItemOK(k[i])
  <2>1. Len(k) \in Nat /\ \A i \in DOMAIN k : ItemOK(k[i])
    BY MergedDays
  <2>2. Len(l) >= 1
    BY <2>1
  <2>3. QED
    BY <2>1, <2>2, MergedDays
<1>2. MergeIs(l) /\ MergeIs(k)
  BY <1>1, MergeTells
<1>3. /\ (\E i \in DOMAIN k : k[i].by = "hidden_market") =>
              \E i \in DOMAIN l : l[i].by = "hidden_market"
      /\ (\E i \in DOMAIN k : k[i].by = "job_board") =>
              \E i \in DOMAIN l : l[i].by = "job_board"
      /\ (\E i \in DOMAIN k : k[i].posted) => \E i \in DOMAIN l : l[i].posted
      /\ (\E i \in DOMAIN k : k[i].salary) => \E i \in DOMAIN l : l[i].salary
  BY Zenon
<1>4. /\ f.hidden => a.hidden
      /\ f.board => a.board
      /\ f.posted => a.posted
      /\ f.salary => a.salary
      /\ a.number = f.number + 1
  BY <1>2, <1>3 DEF MergeIs
<1>5. f.hidden => a.days <= f.days
  <2>1. f.hidden => f.days \in Nat /\ \E i \in DOMAIN k : k[i].days = f.days
    BY <1>2 DEF MergeIs
  <2>2. \A i \in DOMAIN l : l[i].days # -1 => a.days <= l[i].days
    BY <1>2 DEF MergeIs
  <2>3. f.hidden => f.days # -1 /\ \E j \in DOMAIN l : l[j].days = f.days
    BY <2>1
  <2>4. QED
    BY <2>2, <2>3
<1>6. f.rank <= a.rank
  <2>1. CASE f.hidden /\ f.board
    <3>1. f.rank = 3 /\ a.rank = 3
      BY <1>2, <1>4, <2>1 DEF MergeIs
    <3>2. QED
      BY <3>1
  <2>2. CASE ~ (f.hidden /\ f.board)
    <3>1. \E i \in DOMAIN k : f.rank = TierRank(k[i].tier)
      BY <1>2, <2>2 DEF MergeIs
    <3>2. \A i \in DOMAIN l : TierRank(l[i].tier) <= a.rank
      BY <1>2 DEF MergeIs
    <3>3. QED
      BY <3>1, <3>2
  <2>3. QED
    BY <2>1, <2>2
<1>7. QED
  BY <1>4, <1>5, <1>6 DEF Grows

-----------------------------------------------------------------------------
\* The items of a key are items.
LEMMA GroupOK ==
    ASSUME NEW l, ItemsOK(l), NEW key
    PROVE  ItemsOK(Group(l, key))
<1> DEFINE places == {i \in DOMAIN l : l[i].company # "none" /\ Key(l[i]) = key}
           at == Increasing(places)
<1>1. PICK S : l \in Seq(S) /\ \A x \in S : ItemOK(x)
  BY DEF ItemsOK
<1>2. Cardinality(places) \in Nat /\ at \in [1..Cardinality(places) -> places]
  <2>1. Len(l) \in Nat /\ places \in SUBSET (1..Len(l))
    BY <1>1
  <2> HIDE DEF places
  <2>2. IsFiniteSet(places) /\ places \in SUBSET Int
    BY <2>1, FiniteBelow
  <2>3. QED
    BY <2>2, IncreasingIs
<1>3. \A i \in places : l[i] \in S
  BY <1>1
<1>4. Group(l, key) = [n \in DOMAIN at |-> l[at[n]]]
  BY DEF Group
<1> HIDE DEF at, places
<1>5. DOMAIN at = 1..Cardinality(places) /\ \A n \in DOMAIN at : l[at[n]] \in S
  BY <1>2, <1>3
<1>6. Group(l, key) \in [1..Cardinality(places) -> S]
  BY <1>4, <1>5
<1>7. Group(l, key) \in Seq(S)
  BY <1>2, <1>6
<1>8. QED
  BY <1>1, <1>7 DEF ItemsOK

\* A list without one of its places.
LEMMA WithoutOne ==
    ASSUME NEW l, ItemsOK(l), NEW i \in DOMAIN l
    PROVE  LET k == SubSeq(l, 1, i - 1) \o SubSeq(l, i + 1, Len(l)) IN
           /\ ItemsOK(k) /\ Len(l) = Len(k) + 1
           /\ \A n \in DOMAIN k : \E j \in DOMAIN l : k[n] = l[j]
<1>1. PICK S : l \in Seq(S) /\ \A x \in S : ItemOK(x)
  BY DEF ItemsOK
<1> DEFINE T == {l[j] : j \in DOMAIN l}
           s == SubSeq(l, 1, i - 1)
           t == SubSeq(l, i + 1, Len(l))
<1>2. Len(l) \in Nat /\ DOMAIN l = 1..Len(l) /\ i \in 1..Len(l)
  BY <1>1
<1>3. \A j \in 1..Len(l) : l[j] \in T
  BY <1>2
<1>4. \A x \in T : ItemOK(x) /\ \E j \in DOMAIN l : x = l[j]
  BY <1>1
<1> HIDE DEF T
<1>5. s \in Seq(T) /\ Len(s) = i - 1
  <2>1. i - 1 \in Int /\ \A j \in 1..i - 1 : l[j] \in T
    BY <1>2, <1>3
  <2>2. s \in Seq(T) /\ Len(s) = IF 1 <= i - 1 THEN i - 1 - 1 + 1 ELSE 0
    BY <2>1, SubSeqProperties
  <2>3. QED
    BY <1>2, <2>2
<1>6. t \in Seq(T) /\ Len(t) = Len(l) - i
  <2>1. i + 1 \in Int /\ Len(l) \in Int /\ \A j \in i + 1..Len(l) : l[j] \in T
    BY <1>2, <1>3
  <2>2. t \in Seq(T) /\ Len(t) = IF i + 1 <= Len(l) THEN Len(l) - (i + 1) + 1 ELSE 0
    BY <2>1, SubSeqProperties
  <2>3. QED
    BY <1>2, <2>2
<1> HIDE DEF s, t
<1>7. s \o t \in Seq(T) /\ Len(s \o t) = Len(l) - 1
  <2>1. s \o t \in Seq(T) /\ Len(s \o t) = Len(s) + Len(t)
    BY <1>5, <1>6, ConcatProperties
  <2>2. QED
    BY <1>2, <1>5, <1>6, <2>1
<1>8. \A n \in DOMAIN (s \o t) : (s \o t)[n] \in T
  BY <1>7
<1>9. ItemsOK(s \o t)
  BY <1>4, <1>7 DEF ItemsOK
<1>10. Len(l) = Len(s \o t) + 1
  BY <1>2, <1>7
<1>11. QED
  BY <1>4, <1>8, <1>9, <1>10 DEF s, t

\* Leaving one item out of a group is the other side of confirming it.
LEMMA ConfirmedCostsLittle == RadarInv => CorroborationCostsLittle
<1> SUFFICES ASSUME RadarInv, radar.done, NEW key \in Keys(radar.inputs),
                    NEW i \in DOMAIN Group(radar.inputs, key)
             PROVE  LET items == Group(radar.inputs, key)
                        fewer == Merge(SubSeq(items, 1, i - 1)
                                       \o SubSeq(items, i + 1, Len(items)))
                        all == Merge(items)
                    IN (Len(items) > 1
                        /\ ProfileFit(fewer, radar.prefs) = ProfileFit(all, radar.prefs)) =>
                         ScoreOpportunity(all, radar.prefs)
                           >= ScoreOpportunity(fewer, radar.prefs) - Cost(Len(items))
  BY DEF CorroborationCostsLittle
<1> DEFINE items == Group(radar.inputs, key)
           rest == SubSeq(items, 1, i - 1) \o SubSeq(items, i + 1, Len(items))
           all == Merge(items)
           fewer == Merge(rest)
           p == radar.prefs
<1>1. ItemsOK(items)
  BY GroupOK DEF RadarInv
<1>2. /\ ItemsOK(rest) /\ Len(items) = Len(rest) + 1
      /\ \A n \in DOMAIN rest : \E j \in DOMAIN items : rest[n] = items[j]
  <2> HIDE DEF items
  <2>1. QED
    BY <1>1, WithoutOne DEF items
<1> HIDE DEF items, rest
<1> SUFFICES ASSUME Len(items) > 1, ProfileFit(fewer, p) = ProfileFit(all, p)
             PROVE  ScoreOpportunity(all, p) >= ScoreOpportunity(fewer, p) - Cost(Len(items))
  BY DEF items, rest
<1>3. Len(rest) \in Nat /\ Len(rest) >= 1 /\ Len(items) >= 1
  <2>1. PICK S : rest \in Seq(S)
    BY <1>2 DEF ItemsOK
  <2>2. Len(rest) \in Nat
    BY <2>1
  <2>3. QED
    BY <1>2, <2>2
<1>4. MergedOK(all) /\ MergedOK(fewer) /\ fewer.precomputed \in Nat
  BY <1>1, <1>2, <1>3, MergedIsOK
<1>5. Grows(fewer, all)
  BY <1>1, <1>2, <1>3, MergeGrows
<1>6. all.number = Len(items)
  BY <1>1, <1>3, MergeTells DEF MergeIs
<1> HIDE DEF all, fewer, p
<1>7. QED
  BY <1>4, <1>5, <1>6, ScoreLoss

\* Another source costs an opportunity that is shown as before a few points at
\* most, for any requests, rows, taxonomies and preferences.
THEOREM CorroborationIsCheap == RadarSpec => []CorroborationCostsLittle
BY RadarInitInv, RadarStep, ConfirmedCostsLittle, PTL DEF RadarSpec

-----------------------------------------------------------------------------
(* The searches.                                                           *)

SearchInv ==
  /\ asked \in Seq(Seq(Advert)) /\ listed.done \in BOOLEAN
  /\ listed.done => \E l \in Seq(Advert) : listed.vacancies = Ranked(l)

\* Some places of a list, first to last, hold listings.
LEMMA PickedAre ==
    ASSUME NEW l \in Seq(Advert), NEW S \in SUBSET (DOMAIN l)
    PROVE  Picked(l, S) \in Seq(Advert)
<1> DEFINE at == InOrder(S, LAMBDA i, j : i < j)
<1>1. IsFiniteSet(S) /\ S \in SUBSET Int
  <2>1. Len(l) \in Nat /\ S \in SUBSET (1..Len(l))
    OBVIOUS
  <2>2. QED
    BY <2>1, FiniteBelow
<1>3. at = Ascending(S)
  <2>1. \A i \in S : {j \in S : j = i \/ j < i} = {j \in S : j <= i}
    BY <1>1
  <2>2. \A n : (CHOOSE i \in S : Cardinality({j \in S : j = i \/ j < i}) = n)
               = CHOOSE i \in S : Cardinality({j \in S : j <= i}) = n
    BY <2>1
  <2>3. at = [n \in 1..Cardinality(S) |->
                CHOOSE i \in S : Cardinality({j \in S : j = i \/ j < i}) = n]
    BY Zenon DEF InOrder
  <2> DEFINE F(n) == CHOOSE i \in S : Cardinality({j \in S : j = i \/ j < i}) = n
             G(n) == CHOOSE i \in S : Cardinality({j \in S : j <= i}) = n
  <2>4. at = [n \in 1..Cardinality(S) |-> F(n)] /\ \A n : F(n) = G(n)
    BY <2>2, <2>3
  <2>5. Ascending(S) = [n \in 1..Cardinality(S) |-> G(n)]
    BY DEF Ascending
  <2> HIDE DEF at, F, G
  <2>6. QED
    BY <2>4, <2>5
<1>4. Cardinality(S) \in Nat /\ at \in [1..Cardinality(S) -> S]
  BY <1>1, <1>3, AscendingLists
<1>5. Picked(l, S) = [n \in DOMAIN at |-> l[at[n]]]
  BY DEF Picked
<1> HIDE DEF at
<1>6. \A i \in S : l[i] \in Advert
  OBVIOUS
<1>7. Picked(l, S) \in [1..Cardinality(S) -> Advert]
  BY <1>4, <1>5, <1>6
<1>8. QED
  BY <1>4, <1>7

LEMMA VacanciesAre ==
    ASSUME NEW l \in Seq(Advert)
    PROVE  Vacancies(l) \in Seq(Advert)
<1>1. Firsts(l) \in Seq(Advert)
  BY PickedAre DEF Firsts
<1>2. QED
  BY <1>1, PickedAre DEF Vacancies

\* A listing with the role in its title scores more than one that is alike without,
\* whatever the letters of the companies.
LEMMA RoleScoresMore ==
    ASSUME NEW v \in Advert, NEW w \in Advert, v.roleHits >= 2, w.roleHits = 0,
           v.sectorHits = w.sectorHits, v.regionHits = w.regionHits,
           v.sourceBonus = w.sourceBonus, v.fresh = w.fresh
    PROVE  MatchScore(v) > MatchScore(w)
<1> DEFINE other == 50 + Least(5 * w.sectorHits, 15) + Least(3 * w.regionHits, 9)
                    + w.sourceBonus + (IF w.fresh THEN 5 ELSE 0)
<1>1. other \in 50..84
  <2>1. w.sectorHits \in Nat /\ w.regionHits \in Nat /\ w.sourceBonus \in 0..5
    BY DEF Advert
  <2>2. Least(5 * w.sectorHits, 15) \in 0..15 /\ Least(3 * w.regionHits, 9) \in 0..9
    BY <2>1 DEF Least
  <2>3. QED
    BY <2>1, <2>2
<1>2. CompanyVariation(v.letters) \in -5..5 /\ CompanyVariation(w.letters) \in -5..5
  <2>1. v.letters \in Nat /\ w.letters \in Nat
    BY DEF Advert
  <2>2. QED
    BY <2>1 DEF CompanyVariation
<1>3. Least(8 * v.roleHits, 30) \in 16..30 /\ Least(8 * w.roleHits, 30) = 0
  <2>1. v.roleHits \in Nat
    BY DEF Advert
  <2>2. QED
    BY <2>1 DEF Least
<1> DEFINE x == 50 + Least(8 * v.roleHits, 30) + Least(5 * v.sectorHits, 15)
                + Least(3 * v.regionHits, 9) + v.sourceBonus + (IF v.fresh THEN 5 ELSE 0)
                + (IF v.roleHits = 0 THEN -15 ELSE 0) + CompanyVariation(v.letters)
           y == 50 + Least(8 * w.roleHits, 30) + Least(5 * w.sectorHits, 15)
                + Least(3 * w.regionHits, 9) + w.sourceBonus + (IF w.fresh THEN 5 ELSE 0)
                + (IF w.roleHits = 0 THEN -15 ELSE 0) + CompanyVariation(w.letters)
<1>0. /\ Least(5 * w.sectorHits, 15) \in Nat /\ Least(3 * w.regionHits, 9) \in Nat
      /\ w.sourceBonus \in Nat
      /\ Least(5 * v.sectorHits, 15) = Least(5 * w.sectorHits, 15)
      /\ Least(3 * v.regionHits, 9) = Least(3 * w.regionHits, 9)
  BY DEF Advert, Least
<1>4. x = other + Least(8 * v.roleHits, 30) + CompanyVariation(v.letters)
  BY <1>0, <1>1, <1>2, <1>3
<1>5. y = other - 15 + CompanyVariation(w.letters)
  BY <1>0, <1>1, <1>2, <1>3
<1>6. /\ MatchScore(v) = Most(25, Least(98, x)) /\ MatchScore(w) = Most(25, Least(98, y))
  BY DEF MatchScore
<1> HIDE DEF other, x, y
<1>7. x \in 61..119 /\ y \in 30..74 /\ y < x
  BY <1>1, <1>2, <1>3, <1>4, <1>5
<1>8. QED
  BY <1>6, <1>7 DEF Most, Least

LEMMA ScoreIsInt == \A v \in Advert : MatchScore(v) \in Int
<1> SUFFICES ASSUME NEW v \in Advert PROVE MatchScore(v) \in Int
  OBVIOUS
<1>1. /\ v.roleHits \in Nat /\ v.sectorHits \in Nat /\ v.regionHits \in Nat
      /\ v.sourceBonus \in Int /\ v.letters \in Nat
  BY DEF Advert
<1>2. CompanyVariation(v.letters) \in Int
  BY <1>1 DEF CompanyVariation
<1>3. QED
  BY <1>1, <1>2 DEF MatchScore, Most, Least

\* The ranked list holds the listings, and of two of them the one with the higher
\* score comes first.
LEMMA RankedByScore ==
    ASSUME NEW l \in Seq(Advert), NEW i \in DOMAIN Ranked(l), NEW j \in DOMAIN Ranked(l)
    PROVE  /\ i \in Int /\ j \in Int
           /\ Ranked(l)[i] \in Advert /\ Ranked(l)[j] \in Advert
           /\ MatchScore(Ranked(l)[i]) > MatchScore(Ranked(l)[j]) => i < j
<1> DEFINE D == DOMAIN l
           at == InOrder(D, LAMBDA m, n : RanksBefore(l, m, n))
           R == {p \in D \X D : RanksBefore(l, p[1], p[2])}
<1>1. /\ D \subseteq Int /\ IsFiniteSet(D) /\ \A n \in D : l[n] \in Advert
  <2>1. Len(l) \in Nat /\ D = 1..Len(l)
    OBVIOUS
  <2>2. QED
    BY <2>1, FS_Interval
<1>2. \A m, n \in D : <<m, n>> \in R <=> RanksBefore(l, m, n)
  OBVIOUS
<1>3. \A n \in D : MatchScore(l[n]) \in Int /\ l[n].priority \in Int
  BY <1>1, ScoreIsInt DEF Advert
<1>4. Ranked(l) = [n \in DOMAIN at |-> l[at[n]]]
  BY DEF Ranked
<1>5. at = [n \in 1..Cardinality(D) |-> CHOOSE a \in D :
              Cardinality({b \in D : b = a \/ RanksBefore(l, b, a)}) = n]
  BY DEF InOrder
<1> HIDE DEF D, R, at
<1>6. TotalOrder(R, D)
  <2>1. ASSUME NEW m \in D, NEW n \in D, m # n
        PROVE  <<m, n>> \in R \/ <<n, m>> \in R
    <3>1. m \in Int /\ n \in Int
      BY <1>1
    <3>2. RanksBefore(l, m, n) \/ RanksBefore(l, n, m)
      BY <1>3, <2>1, <3>1 DEF RanksBefore
    <3>3. QED
      BY <1>2, <3>2
  <2>2. \A n \in D : <<n, n>> \notin R
    <3> SUFFICES ASSUME NEW n \in D PROVE ~ RanksBefore(l, n, n)
      BY <1>2
    <3>1. n \in Int /\ MatchScore(l[n]) \in Int /\ l[n].priority \in Int
      BY <1>1, <1>3
    <3>2. QED
      BY <3>1 DEF RanksBefore
  <2>3. ASSUME NEW a \in D, NEW b \in D, NEW c \in D, <<a, b>> \in R, <<b, c>> \in R
        PROVE  <<a, c>> \in R
    <3> DEFINE score(n) == MatchScore(l[n])  source(n) == l[n].priority
    <3>1. /\ score(a) \in Int /\ score(b) \in Int /\ score(c) \in Int
          /\ source(a) \in Int /\ source(b) \in Int /\ source(c) \in Int
          /\ a \in Int /\ b \in Int /\ c \in Int
      BY <1>1, <1>3
    <3>2. \A m, n \in D : RanksBefore(l, m, n) <=>
            \/ score(m) > score(n)
            \/ score(m) = score(n)
               /\ (source(m) < source(n) \/ (source(m) = source(n) /\ m < n))
      BY Zenon DEF RanksBefore
    <3> HIDE DEF score, source
    <3>3. RanksBefore(l, a, b) /\ RanksBefore(l, b, c)
      BY <1>2, <2>3
    <3>4. RanksBefore(l, a, c)
      BY <3>1, <3>2, <3>3
    <3>5. QED
      BY <1>2, <3>4
  <2>4. QED
    BY <2>1, <2>2, <2>3 DEF TotalOrder
<1>7. \A a \in D : {b \in D : b = a \/ RanksBefore(l, b, a)} = UpTo(D, R, a)
  BY <1>2 DEF UpTo
<1>8. \A n \in 1..Cardinality(D) : at[n] \in D /\ Cardinality(UpTo(D, R, at[n])) = n
  <2> SUFFICES ASSUME NEW n \in 1..Cardinality(D)
               PROVE  at[n] \in D /\ Cardinality(UpTo(D, R, at[n])) = n
    OBVIOUS
  <2>1. PICK a \in D : Cardinality({b \in D : b = a \/ RanksBefore(l, b, a)}) = n
    <3>1. PICK a \in D : Cardinality(UpTo(D, R, a)) = n
      BY <1>1, <1>6, EachPlaceIsTaken
    <3>2. QED
      BY <1>7, <3>1
  <2>2. at[n] \in D /\ Cardinality({b \in D : b = at[n] \/ RanksBefore(l, b, at[n])}) = n
    BY <1>5, <2>1
  <2>3. QED
    BY <1>7, <2>2
<1>9. at \in [1..Cardinality(D) -> D]
  BY <1>5, <1>8
<1>10. Lists(at, D, R)
  BY <1>1, <1>6, <1>8, <1>9, RankedLists
<1>11. /\ Cardinality(D) \in Nat /\ i \in 1..Cardinality(D) /\ j \in 1..Cardinality(D)
       /\ Ranked(l)[i] = l[at[i]] /\ Ranked(l)[j] = l[at[j]] /\ at[i] \in D /\ at[j] \in D
  BY <1>1, <1>4, <1>9, FS_CardinalityType
<1>12. ASSUME MatchScore(l[at[i]]) > MatchScore(l[at[j]]) PROVE i < j
  <2>1. ~ RanksBefore(l, at[j], at[i]) /\ i # j
    BY <1>3, <1>11, <1>12 DEF RanksBefore
  <2>2. ~ (j < i)
    BY <1>2, <1>10, <1>11, <2>1 DEF Lists
  <2>3. QED
    BY <1>11, <2>1, <2>2
<1>13. i \in Int /\ j \in Int /\ Ranked(l)[i] \in Advert /\ Ranked(l)[j] \in Advert
  <2>1. i \in Int /\ j \in Int
    BY <1>11
  <2>2. l[at[i]] \in Advert /\ l[at[j]] \in Advert
    BY <1>1, <1>11
  <2> HIDE DEF Advert
  <2>3. QED
    BY <1>11, <2>1, <2>2, Zenon
<1>14. MatchScore(Ranked(l)[i]) > MatchScore(Ranked(l)[j]) => i < j
  BY <1>11, <1>12
<1>15. QED
  BY <1>13, <1>14

LEMMA SearchInitInv == SearchInit => SearchInv
BY DEF SearchInit, SearchInv, NotListed

LEMMA SearchStep == SearchInv /\ [SearchNext]_searchVars => SearchInv'
<1> SUFFICES ASSUME SearchInv, [SearchNext]_searchVars PROVE SearchInv'
  OBVIOUS
<1>1. CASE Query
  <2>1. PICK p \in Pages \cup {<<>>} : asked' = Append(asked, p) /\ listed' = listed
    BY <1>1 DEF Query
  <2>2. p \in Seq(Advert)
    <3>1. <<>> \in Seq(Advert)
      OBVIOUS
    <3>2. QED
      BY <3>1, PagesAssumption
  <2>3. asked' \in Seq(Seq(Advert))
    BY <2>1, <2>2 DEF SearchInv
  <2>4. QED
    BY <2>1, <2>3 DEF SearchInv
<1>2. CASE CurrentVacancies
  <2> DEFINE hits == asked[1] \o asked[2]
             l == Vacancies(hits)
  <2>1. hits \in Seq(Advert)
    <3>1. asked[1] \in Seq(Advert) /\ asked[2] \in Seq(Advert)
      BY <1>2 DEF SearchInv, CurrentVacancies
    <3>2. QED
      BY <3>1
  <2>2. l \in Seq(Advert)
    <3> HIDE DEF hits
    <3>1. QED
      BY <2>1, VacanciesAre
  <2>3. listed'.done = TRUE /\ listed'.vacancies = Ranked(l) /\ asked' = asked
    BY <1>2 DEF CurrentVacancies
  <2> HIDE DEF l
  <2>4. QED
    BY <2>2, <2>3 DEF SearchInv
<1>3. CASE UNCHANGED searchVars
  BY <1>3 DEF SearchInv, searchVars
<1>4. QED
  BY <1>1, <1>2, <1>3 DEF SearchNext

\* A vacancy with the user's role in its title is listed above one that differs by
\* the company alone, whatever the searches find.
THEOREM RoleBeatsNoise == SearchSpec => []RoleOutranksNoise
<1>1. SearchInv => RoleOutranksNoise
  <2> SUFFICES ASSUME SearchInv, listed.done,
                      NEW i \in DOMAIN listed.vacancies, NEW j \in DOMAIN listed.vacancies,
                      listed.vacancies[i].roleHits >= 2, listed.vacancies[j].roleHits = 0,
                      LET v == listed.vacancies[i]  w == listed.vacancies[j] IN
                      <<v.sectorHits, v.regionHits, v.sourceBonus, v.fresh>>
                        = <<w.sectorHits, w.regionHits, w.sourceBonus, w.fresh>>
               PROVE  i < j
    BY DEF RoleOutranksNoise
  <2>1. PICK l \in Seq(Advert) : listed.vacancies = Ranked(l)
    BY DEF SearchInv
  <2> DEFINE v == listed.vacancies[i]  w == listed.vacancies[j]
  <2>2. v \in Advert /\ w \in Advert /\ (MatchScore(v) > MatchScore(w) => i < j)
    BY <2>1, RankedByScore
  <2>3. /\ v.sectorHits = w.sectorHits /\ v.regionHits = w.regionHits
        /\ v.sourceBonus = w.sourceBonus /\ v.fresh = w.fresh
        /\ v.roleHits >= 2 /\ w.roleHits = 0
    OBVIOUS
  <2> HIDE DEF v, w
  <2>4. QED
    BY <2>2, <2>3, RoleScoresMore
<1>2. QED
  BY <1>1, SearchInitInv, SearchStep, PTL DEF SearchSpec

-----------------------------------------------------------------------------
(* One run of the signal engine.                                           *)

\* Two names that match a third match each other.
LEMMA MatchIsSame ==
    /\ \A a : CompanyMatch(a, a)
    /\ \A a, b : CompanyMatch(a, b) => CompanyMatch(b, a)
    /\ \A a, b, c : CompanyMatch(a, b) /\ CompanyMatch(b, c) => CompanyMatch(a, c)
BY DEF CompanyMatch

\* A function on the first numbers is a list.
LEMMA IsList == ASSUME NEW S, NEW n \in Nat, NEW f \in [1..n -> S] PROVE f \in Seq(S)
OBVIOUS

\* What is selected is what is at the places.
LEMMA SelectedIs ==
    ASSUME NEW S, NEW l \in Seq(S), NEW P \in SUBSET (DOMAIN l)
    PROVE  /\ Selected(l, P) \in Seq(S)
           /\ \A n \in DOMAIN Selected(l, P) : \E i \in P : Selected(l, P)[n] = l[i]
<1> DEFINE at == Ascending(P)
<1>1. Cardinality(P) \in Nat /\ at \in [1..Cardinality(P) -> P]
  <2>1. Len(l) \in Nat /\ P \in SUBSET (1..Len(l))
    OBVIOUS
  <2>2. IsFiniteSet(P) /\ P \in SUBSET Int
    BY <2>1, FiniteBelow
  <2>3. QED
    BY <2>2, AscendingLists
<1>2. Selected(l, P) = [n \in 1..Cardinality(P) |-> l[at[n]]]
  BY DEF Selected, Ascending
<1> HIDE DEF at
<1>3. \A i \in P : l[i] \in S
  OBVIOUS
<1>4. \A n \in 1..Cardinality(P) : at[n] \in P
  BY <1>1
<1>5. Selected(l, P) \in [1..Cardinality(P) -> S]
  BY <1>2, <1>3, <1>4
<1>6. Selected(l, P) \in Seq(S)
  BY <1>1, <1>5
<1>7. QED
  BY <1>2, <1>4, <1>6

\* A hit that names a company is a signal.
LEMMA HitIsSignal ==
    ASSUME NEW hit \in SearchHits, CompanyFromTitle(hit) # {}, NEW type \in SignalKinds, NEW recency \in Nat
    PROVE  SignalOf(type, recency, hit) \in Signals
<1>1. CompanyFromTitle(hit) \subseteq Names
  BY EngineAssumption DEF CompanyFromTitle, SearchHits
<1>2. (CHOOSE c \in CompanyFromTitle(hit) : TRUE) \in CompanyFromTitle(hit)
  OBVIOUS
<1>3. hit.detail \in Nat
  BY DEF SearchHits
<1>4. QED
  BY <1>1, <1>2, <1>3 DEF SignalOf, Signals

\* What a fetcher finds are signals.
LEMMA NewsAreSignals ==
    ASSUME NEW hits \in HitLists, NEW type \in SignalKinds
    PROVE  NewsSignals(type, hits) \in Seq(Signals)
<1> DEFINE P == {i \in FirstOfUrl(hits) : type \in hits[i].about /\ CompanyFromTitle(hits[i]) # {}}
           kept == Selected(hits, P)
<1>1. hits \in Seq(SearchHits)
  BY EngineAssumption
<1>2. P \in SUBSET (DOMAIN hits) /\ \A i \in P : CompanyFromTitle(hits[i]) # {}
  BY DEF FirstOfUrl
<1>3. NewsSignals(type, hits) = [n \in DOMAIN kept |-> SignalOf(type, kept[n].recency, kept[n])]
  BY DEF NewsSignals, SignalsOf
<1> HIDE DEF P
<1>4. kept \in Seq(SearchHits) /\ \A n \in DOMAIN kept : \E i \in P : kept[n] = hits[i]
  BY <1>1, <1>2, SelectedIs
<1> HIDE DEF kept
<1>5. ASSUME NEW n \in DOMAIN kept PROVE SignalOf(type, kept[n].recency, kept[n]) \in Signals
  <2>1. kept[n] \in SearchHits /\ CompanyFromTitle(kept[n]) # {}
    BY <1>2, <1>4
  <2>2. kept[n].recency \in Nat
    BY <2>1 DEF SearchHits
  <2>3. QED
    BY <2>1, <2>2, HitIsSignal
<1>6. DOMAIN kept = 1..Len(kept) /\ Len(kept) \in Nat
  BY <1>4
<1>7. NewsSignals(type, hits) \in [1..Len(kept) -> Signals]
  BY <1>3, <1>5, <1>6
<1>8. QED
  BY <1>6, <1>7, IsList

LEMMA VelocityAreSignals ==
    ASSUME NEW hits \in HitLists
    PROVE  VelocitySignals(hits) \in Seq(Signals)
<1> DEFINE P == {i \in FirstOfUrl(hits) : hits[i].jobs /\ CompanyFromTitle(hits[i]) # {}}
           kept == Selected(hits, P)
<1>1. hits \in Seq(SearchHits)
  BY EngineAssumption
<1>2. P \in SUBSET (DOMAIN hits) /\ \A i \in P : CompanyFromTitle(hits[i]) # {}
  BY DEF FirstOfUrl
<1>3. VelocitySignals(hits) = [n \in DOMAIN kept |-> SignalOf("velocity", 85, kept[n])]
  BY DEF VelocitySignals
<1> HIDE DEF P
<1>4. kept \in Seq(SearchHits) /\ \A n \in DOMAIN kept : \E i \in P : kept[n] = hits[i]
  BY <1>1, <1>2, SelectedIs
<1> HIDE DEF kept
<1>5. ASSUME NEW n \in DOMAIN kept PROVE SignalOf("velocity", 85, kept[n]) \in Signals
  <2>1. kept[n] \in SearchHits /\ CompanyFromTitle(kept[n]) # {}
    BY <1>2, <1>4
  <2>2. "velocity" \in SignalKinds /\ 85 \in Nat
    BY DEF SignalKinds
  <2>3. QED
    BY <2>1, <2>2, HitIsSignal
<1>6. DOMAIN kept = 1..Len(kept) /\ Len(kept) \in Nat
  BY <1>4
<1>7. VelocitySignals(hits) \in [1..Len(kept) -> Signals]
  BY <1>3, <1>5, <1>6
<1>8. QED
  BY <1>6, <1>7, IsList

LEMMA ProvidersAreSignals ==
    ASSUME NEW rounds \in ProviderLists, NEW people \in ProviderLists
    PROVE  CrunchbaseSignals(rounds, people) \in Seq(Signals) /\ MagnittSignals(rounds) \in Seq(Signals)
<1> DEFINE r == [n \in DOMAIN rounds |-> [rounds[n] EXCEPT !.type = "funding"]]
           p == [n \in DOMAIN people |-> [people[n] EXCEPT !.type = "leadership", !.recency = 70]]
<1>1. rounds \in Seq(Signals) /\ people \in Seq(Signals)
  BY EngineAssumption
<1>2. ASSUME NEW s \in Signals
      PROVE  /\ [s EXCEPT !.type = "funding"] \in Signals
             /\ [s EXCEPT !.type = "leadership", !.recency = 70] \in Signals
  <2>1. \A t \in SignalKinds : [s EXCEPT !.type = t] \in Signals
    BY DEF Signals
  <2>2. \A x \in Signals : [x EXCEPT !.recency = 70] \in Signals
    BY DEF Signals
  <2>3. [s EXCEPT !.type = "leadership", !.recency = 70]
           = [[s EXCEPT !.type = "leadership"] EXCEPT !.recency = 70]
    OBVIOUS
  <2>4. "funding" \in SignalKinds /\ "leadership" \in SignalKinds
    BY DEF SignalKinds
  <2>5. QED
    BY <2>1, <2>2, <2>3, <2>4
<1>3. DOMAIN rounds = 1..Len(rounds) /\ Len(rounds) \in Nat
      /\ DOMAIN people = 1..Len(people) /\ Len(people) \in Nat
      /\ (\A n \in DOMAIN rounds : rounds[n] \in Signals)
      /\ (\A n \in DOMAIN people : people[n] \in Signals)
  BY <1>1
<1>4. r \in [1..Len(rounds) -> Signals] /\ p \in [1..Len(people) -> Signals]
  <2>1. \A n \in 1..Len(rounds) : [rounds[n] EXCEPT !.type = "funding"] \in Signals
    BY <1>2, <1>3
  <2>2. \A n \in 1..Len(people) : [people[n] EXCEPT !.type = "leadership", !.recency = 70] \in Signals
    BY <1>2, <1>3
  <2>3. QED
    BY <1>3, <2>1, <2>2
<1>5. r \in Seq(Signals) /\ p \in Seq(Signals)
  BY <1>3, <1>4, IsList
<1>6. CrunchbaseSignals(rounds, people) = r \o p /\ MagnittSignals(rounds) = r
  BY DEF CrunchbaseSignals, MagnittSignals
<1> HIDE DEF r, p
<1>7. r \o p \in Seq(Signals)
  BY <1>5, ConcatProperties
<1>8. QED
  BY <1>5, <1>6, <1>7

LEMMA FetchedAreSignals ==
    ASSUME NEW label \in Labels, label # "live_openings", NEW s \in Fetched(label)
    PROVE  s \in Seq(Signals)
<1>1. label \in {"funding", "leadership", "expansion", "velocity", "pain", "structural",
                 "market", "ma", "crunchbase", "magnitt"}
  BY EngineAssumption
<1>2. \A h \in HitLists : /\ FundingSignals(h) \in Seq(Signals)
                          /\ LeadershipSignals(h) \in Seq(Signals)
                          /\ ExpansionSignals(h) \in Seq(Signals)
                          /\ PainSignals(h) \in Seq(Signals)
                          /\ StructuralSignals(h) \in Seq(Signals)
                          /\ MarketSignals(h) \in Seq(Signals)
                          /\ MaSignals(h) \in Seq(Signals)
  <2>1. {"funding", "leadership", "expansion", "pain_signal", "structural", "market_signal",
         "ma_activity"} \subseteq SignalKinds
    BY DEF SignalKinds
  <2>2. QED
    BY <2>1, NewsAreSignals DEF FundingSignals, LeadershipSignals, ExpansionSignals, PainSignals,
       StructuralSignals, MarketSignals, MaSignals
<1>3. \/ label = "crunchbase" /\ \E r, p \in ProviderLists : s = CrunchbaseSignals(r, p)
      \/ label = "magnitt" /\ \E r \in ProviderLists : s = MagnittSignals(r)
      \/ label = "velocity" /\ \E h \in HitLists : s = VelocitySignals(h)
      \/ \E h \in HitLists : s \in {FundingSignals(h), LeadershipSignals(h), ExpansionSignals(h),
            PainSignals(h), StructuralSignals(h), MarketSignals(h), MaSignals(h)}
  BY <1>1 DEF Fetched
<1>4. QED
  BY <1>2, <1>3, VelocityAreSignals, ProvidersAreSignals

-----------------------------------------------------------------------------
\* Strongest and boosted.
LEMMA StrongestIs ==
    ASSUME NEW sigs \in Seq(Signals), NEW type \in TypesOf(sigs)
    PROVE  \E m \in DOMAIN sigs : /\ Strongest(sigs, type) = sigs[m] /\ sigs[m].type = type
                                  /\ \A i \in DOMAIN sigs : sigs[i].type = type =>
                                        sigs[i].recency <= sigs[m].recency
<1> DEFINE of == {i \in DOMAIN sigs : sigs[i].type = type}
           Below(i, j) == \/ sigs[i].recency < sigs[j].recency
                          \/ sigs[i].recency = sigs[j].recency /\ sigs[i].detail < sigs[j].detail
           best == {i \in of : \A j \in of : ~ Below(i, j)}
           recencies == {sigs[i].recency : i \in of}
           newest == {i \in of : sigs[i].recency = Max(recencies)}
           details == {sigs[i].detail : i \in newest}
<1>1. of # {} /\ of \in SUBSET DOMAIN sigs
  BY DEF TypesOf
<1>2. \A i \in DOMAIN sigs : sigs[i].recency \in Nat /\ sigs[i].detail \in Nat
  <2>1. \A s \in Signals : s.recency \in Nat /\ s.detail \in Nat
    BY DEF Signals
  <2>2. \A i \in DOMAIN sigs : sigs[i] \in Signals
    OBVIOUS
  <2>3. QED
    BY <2>1, <2>2
<1>3. \A i \in of : sigs[i].type = type
  OBVIOUS
<1>4. IsFiniteSet(of) /\ of \in SUBSET Int
  <2>1. Len(sigs) \in Nat /\ of \in SUBSET (1..Len(sigs))
    OBVIOUS
  <2> HIDE DEF of
  <2>2. QED
    BY <2>1, FiniteBelow
<1>5. \A i \in DOMAIN sigs : sigs[i].type = type => i \in of
  OBVIOUS
<1>6. Strongest(sigs, type) = sigs[Min(best)]
  BY DEF Strongest
<1> HIDE DEF of
<1>7. /\ Max(recencies) \in recencies /\ \A r \in recencies : r <= Max(recencies)
  <2> DEFINE f == [i \in of |-> sigs[i].recency]
  <2>1. DOMAIN f = of /\ recencies = {f[a] : a \in DOMAIN f}
    OBVIOUS
  <2>2. IsFiniteSet({f[a] : a \in DOMAIN f})
    BY <1>4, <2>1, FiniteImage
  <2>3. IsFiniteSet(recencies)
    BY <2>1, <2>2
  <2>4. recencies \in SUBSET Int /\ recencies # {}
    BY <1>1, <1>2
  <2> HIDE DEF recencies
  <2>5. QED
    BY <2>3, <2>4, Extremes
<1>8. newest # {} /\ newest \in SUBSET of
  BY <1>7
<1>9. \A i, j \in newest : sigs[i].recency = sigs[j].recency
  OBVIOUS
<1>10. \A i \in newest, j \in of : sigs[j].recency <= sigs[i].recency
  BY <1>7
<1>11. \A j \in of : (\E i \in newest : sigs[j].recency = sigs[i].recency) => j \in newest
  OBVIOUS
<1> HIDE DEF recencies, newest
<1>12. /\ Max(details) \in details /\ \A r \in details : r <= Max(details)
  <2> DEFINE f == [i \in newest |-> sigs[i].detail]
  <2>1. DOMAIN f = newest /\ details = {f[a] : a \in DOMAIN f}
    OBVIOUS
  <2>2. IsFiniteSet(newest)
    BY <1>4, <1>8, FS_Subset
  <2>3. IsFiniteSet({f[a] : a \in DOMAIN f})
    BY <2>1, <2>2, FiniteImage
  <2>4. IsFiniteSet(details)
    BY <2>1, <2>3
  <2>5. details \in SUBSET Int /\ details # {}
    BY <1>1, <1>2, <1>8
  <2> HIDE DEF details
  <2>6. QED
    BY <2>4, <2>5, Extremes
<1>13. PICK m \in newest : \A i \in newest : sigs[i].detail <= sigs[m].detail
  BY <1>12
<1>14. best # {}
  <2>1. ASSUME NEW j \in of, Below(m, j) PROVE FALSE
    <3>1. m \in of /\ m \in DOMAIN sigs /\ j \in DOMAIN sigs
      BY <1>1, <1>8
    <3>2. sigs[j].recency <= sigs[m].recency /\ sigs[m].recency \in Nat /\ sigs[j].recency \in Nat
          /\ sigs[m].detail \in Nat /\ sigs[j].detail \in Nat
      BY <1>2, <1>10, <3>1
    <3>3. sigs[m].recency = sigs[j].recency /\ sigs[m].detail < sigs[j].detail
      BY <2>1, <3>2
    <3>4. j \in newest
      BY <1>11, <3>3
    <3>5. sigs[j].detail <= sigs[m].detail
      BY <1>13, <3>4
    <3>6. QED
      BY <3>2, <3>3, <3>5
  <2>2. QED
    BY <1>8, <2>1
<1>15. Min(best) \in best
  <2>1. best \in SUBSET Int /\ IsFiniteSet(best)
    BY <1>4, FS_Subset
  <2> HIDE DEF best
  <2>2. QED
    BY <1>14, <2>1, Extremes
<1> DEFINE k == Min(best)
<1>16. k \in of /\ \A j \in of : ~ Below(k, j)
  BY <1>15
<1>17. Strongest(sigs, type) = sigs[k]
  BY <1>6
<1> HIDE DEF k, best
<1>18. k \in DOMAIN sigs
  BY <1>1, <1>16
<1>19. ASSUME NEW i \in DOMAIN sigs, sigs[i].type = type PROVE sigs[i].recency <= sigs[k].recency
  <2>1. ~ (sigs[k].recency < sigs[i].recency)
    BY <1>5, <1>16, <1>19
  <2>2. QED
    BY <1>2, <1>18, <2>1
<1>20. QED
  BY <1>3, <1>16, <1>17, <1>18, <1>19

\* A boost changes the recency only, and lowers none below 1.0.
LEMMA BoostedIs ==
    ASSUME NEW sig \in Signals, NEW stack \in Nat \ {0}
    PROVE  LET b == Boosted(sig, stack) IN
           /\ b.company = sig.company /\ b.type = sig.type
           /\ \A r \in Nat : r <= sig.recency => Min({100, r}) <= b.recency
<1> DEFINE x == sig.recency  m == ConfidenceMultiplier(stack)
           y == (x * m) \div 10  z == Min({100, y})
<1>1. x \in Nat
  BY DEF Signals
<1>2. m \in Nat /\ m >= 10
  <2>1. m = Min({20, 10 + 3 * (stack - 1)})
    BY DEF ConfidenceMultiplier
  <2>2. 10 + 3 * (stack - 1) \in Nat /\ 10 + 3 * (stack - 1) >= 10
    OBVIOUS
  <2> HIDE DEF m
  <2>3. QED
    BY <2>1, <2>2, SmallerOfTwo
<1>3. Boosted(sig, stack) = [sig EXCEPT !.recency = z]
  BY DEF Boosted
<1> HIDE DEF m
<1>4. x * m >= x * 10
  BY <1>1, <1>2
<1>5. x * m \in Nat
  BY <1>1, <1>2
<1> DEFINE p == x * m
<1> HIDE DEF x
<1>6. y \in Nat /\ y >= x
  <2>1. p \in Nat /\ p >= x * 10
    BY <1>4, <1>5
  <2>2. y = p \div 10
    OBVIOUS
  <2> HIDE DEF p, y
  <2>3. QED
    BY <1>1, <2>1, <2>2
<1> HIDE DEF y
<1>7. \A r \in Nat : r <= x => Min({100, r}) <= z
  <2> SUFFICES ASSUME NEW r \in Nat, r <= x PROVE Min({100, r}) <= z
    OBVIOUS
  <2>1. Min({100, r}) = (IF 100 <= r THEN 100 ELSE r) /\ z = (IF 100 <= y THEN 100 ELSE y)
    BY <1>6, SmallerOfTwo
  <2>2. r <= y
    BY <1>1, <1>6
  <2> HIDE DEF z
  <2>3. QED
    BY <1>6, <2>1, <2>2
<1>8. [sig EXCEPT !.recency = z].recency = z /\ [sig EXCEPT !.recency = z].company = sig.company
      /\ [sig EXCEPT !.recency = z].type = sig.type
  BY DEF Signals
<1> HIDE DEF z
<1>9. QED
  BY <1>3, <1>7, <1>8 DEF x

-----------------------------------------------------------------------------
\* The buckets.
Folded(f, sigs, n) ==
  f = [i \in 0..n |-> IF i = 0 THEN NoBuckets ELSE AddToBucket(f[i - 1], sigs[i])]

\* One after another the signals are put in their buckets.
LEMMA BucketsFold ==
    ASSUME NEW sigs \in Seq(Signals)
    PROVE  \E f : Folded(f, sigs, Len(sigs)) /\ Buckets(sigs) = f[Len(sigs)]
<1> DEFINE N == Len(sigs)
           G == {n \in 0..N : \E f : Folded(f, sigs, n)}
           body(f, i) == IF i = 0 THEN NoBuckets ELSE AddToBucket(f[i - 1], sigs[i])
<1>1. N \in Nat
  OBVIOUS
<1>2. 0 \in G
  <2> DEFINE g == [i \in 0..0 |-> NoBuckets]
  <2>1. Folded(g, sigs, 0)
    BY DEF Folded
  <2>2. QED
    BY <1>1, <2>1
<1>3. ASSUME NEW n \in 0..N - 1, n \in G PROVE n + 1 \in G
  <2>1. PICK g : g = [i \in 0..n |-> body(g, i)]
    BY <1>3 DEF Folded
  <2> DEFINE h == [i \in 0..n + 1 |-> body(g, i)]
  <2>2. \A i \in 0..n : h[i] = g[i]
    BY <2>1
  <2>3. ASSUME NEW i \in 0..n + 1 PROVE body(g, i) = body(h, i)
    <3>1. i = 0 \/ i - 1 \in 0..n
      OBVIOUS
    <3> HIDE DEF h
    <3>2. QED
      BY <2>2, <3>1
  <2>4. h = [i \in 0..n + 1 |-> body(h, i)]
    BY <2>3
  <2>5. n + 1 \in 0..N
    BY <1>1
  <2>6. QED
    BY <2>4, <2>5 DEF Folded
<1>4. N \in G
  <2> HIDE DEF G, N
  <2>1. \A n \in 0..N : n \in G
    BY <1>1, <1>2, <1>3, UpTowards
  <2>2. QED
    BY <1>1, <2>1
<1>5. \E g : g = [i \in 0..N |-> body(g, i)]
  BY <1>4 DEF Folded
<1> DEFINE after == CHOOSE g : g = [i \in 0..N |-> body(g, i)]
<1>6. after = [i \in 0..N |-> body(after, i)]
  BY <1>5
<1>7. Buckets(sigs) = after[N]
  BY DEF Buckets
<1> HIDE DEF after
<1>8. QED
  BY <1>6, <1>7 DEF Folded

\* The first n signals are in a bucket of their company, which is the only one,
\* and nothing else is.
BucketsOK(b, sigs, n) ==
  /\ b = [keys |-> b.keys, of |-> b.of]
  /\ b.keys \in Seq(Names)
  /\ \A i, j \in DOMAIN b.keys : CompanyMatch(b.keys[i], b.keys[j]) => i = j
  /\ \A i \in DOMAIN b.keys : Norm[b.keys[i]] = b.keys[i]
  /\ b.of \in [{b.keys[i] : i \in DOMAIN b.keys} -> Seq(Signals)]
  /\ \A k \in DOMAIN b.of : \A i \in DOMAIN b.of[k] : CompanyMatch(b.of[k][i].company, k)
  /\ \A m \in 1..n : \E k \in DOMAIN b.of : \E i \in DOMAIN b.of[k] : b.of[k][i] = sigs[m]

\* A list with one element more keeps its places, and has one more.
LEMMA AppendIs ==
    ASSUME NEW S, NEW l \in Seq(S), NEW e \in S
    PROVE  /\ Append(l, e) \in Seq(S) /\ DOMAIN l \in SUBSET DOMAIN Append(l, e)
           /\ \A i \in DOMAIN l : Append(l, e)[i] = l[i]
           /\ \E z \in DOMAIN Append(l, e) : /\ Append(l, e)[z] = e /\ z \notin DOMAIN l
                                             /\ \A i \in DOMAIN Append(l, e) : i \in DOMAIN l \/ i = z
<1> DEFINE N == Len(l)  a == Append(l, e)
<1>1. a \in Seq(S) /\ Len(a) = N + 1 /\ (\A i \in 1..N : a[i] = l[i]) /\ a[N + 1] = e
  BY AppendProperties
<1>2. DOMAIN l = 1..N /\ N \in Nat
  OBVIOUS
<1>3. DOMAIN a = 1..N + 1
  BY <1>1
<1> HIDE DEF N, a
<1>4. N + 1 \in DOMAIN a /\ N + 1 \notin DOMAIN l /\ (\A i \in DOMAIN a : i \in DOMAIN l \/ i = N + 1)
      /\ DOMAIN l \in SUBSET DOMAIN a
  BY <1>2, <1>3
<1>5. \A i \in DOMAIN l : a[i] = l[i]
  BY <1>1, <1>2
<1>6. QED
  BY <1>1, <1>4, <1>5 DEF a

\* Keys and lists that agree are buckets.
LEMMA AreBuckets ==
    ASSUME NEW sigs, NEW n, NEW l \in Seq(Names), NEW of, NEW b, b = [keys |-> l, of |-> of],
           \A i, j \in DOMAIN l : CompanyMatch(l[i], l[j]) => i = j,
           \A i \in DOMAIN l : Norm[l[i]] = l[i],
           of \in [{l[i] : i \in DOMAIN l} -> Seq(Signals)],
           \A k \in DOMAIN of : \A i \in DOMAIN of[k] : CompanyMatch(of[k][i].company, k),
           \A m \in 1..n : \E k \in DOMAIN of : \E i \in DOMAIN of[k] : of[k][i] = sigs[m]
    PROVE  BucketsOK(b, sigs, n)
<1>1. b.keys = l /\ b.of = of
  OBVIOUS
<1>2. b = [keys |-> b.keys, of |-> b.of]
  BY <1>1
<1>3. QED
  BY <1>1, <1>2 DEF BucketsOK

\* One signal more is put in the bucket of its company, or begins one.
LEMMA AddKeeps ==
    ASSUME NEW sigs \in Seq(Signals), NEW n \in 0..Len(sigs) - 1, NEW b, BucketsOK(b, sigs, n),
           Settled(sigs[n + 1].company)
    PROVE  BucketsOK(AddToBucket(b, sigs[n + 1]), sigs, n + 1)
<1> DEFINE s == sigs[n + 1]
           norm == Norm[s.company]
           matching == {i \in DOMAIN b.keys : CompanyMatch(s.company, b.keys[i])}
           new == AddToBucket(b, s)
           K(c) == {c.keys[i] : i \in DOMAIN c.keys}
<1>1. s \in Signals /\ s.company \in Names /\ norm \in Names
  <2>1. s \in Signals
    OBVIOUS
  <2>2. s.company \in Names
    BY <2>1 DEF Signals
  <2>3. QED
    BY <2>1, <2>2, EngineAssumption
<1>2. /\ b = [keys |-> b.keys, of |-> b.of]
      /\ b.keys \in Seq(Names)
      /\ \A i, j \in DOMAIN b.keys : CompanyMatch(b.keys[i], b.keys[j]) => i = j
      /\ \A i \in DOMAIN b.keys : Norm[b.keys[i]] = b.keys[i]
      /\ b.of \in [K(b) -> Seq(Signals)]
      /\ \A k \in DOMAIN b.of : \A i \in DOMAIN b.of[k] : CompanyMatch(b.of[k][i].company, k)
      /\ \A m \in 1..n : \E k \in DOMAIN b.of : \E i \in DOMAIN b.of[k] : b.of[k][i] = sigs[m]
  BY DEF BucketsOK
<1>3. Norm[norm] = norm
  BY DEF Settled
<1>4. CompanyMatch(s.company, norm)
  BY <1>3 DEF CompanyMatch
<1>5. \A m \in 1..n + 1 : m \in 1..n \/ sigs[m] = s
  OBVIOUS
<1>6. matching \in SUBSET DOMAIN b.keys /\ \A i \in matching : CompanyMatch(s.company, b.keys[i])
  OBVIOUS
<1>7. \A i \in DOMAIN b.keys : i \notin matching => ~ CompanyMatch(s.company, b.keys[i])
  OBVIOUS
<1>8. new = IF matching # {} THEN [b EXCEPT !.of[b.keys[Min(matching)]] = Append(@, s)]
            ELSE NewBucket(b, norm, s)
  BY DEF AddToBucket
<1> HIDE DEF s, norm, new
<1>9. CASE matching # {}
  <2> DEFINE j == Min(matching)  k == b.keys[j]  old == b.of[k]  l == Append(old, s)
             of == [b.of EXCEPT ![k] = l]
  <2>1. j \in DOMAIN b.keys /\ CompanyMatch(s.company, k)
    <3>1. Len(b.keys) \in Nat /\ matching \in SUBSET (1..Len(b.keys))
      BY <1>2
    <3> HIDE DEF matching
    <3>2. matching \in SUBSET Int /\ IsFiniteSet(matching)
      BY <3>1, FiniteBelow
    <3>3. Min(matching) \in matching
      BY <1>9, <3>2, Extremes
    <3>4. QED
      BY <1>6, <3>3
  <2> HIDE DEF matching
  <2>2. k \in K(b) /\ old \in Seq(Signals)
    BY <1>2, <2>1
  <2>3. new = [b EXCEPT !.of[k] = Append(@, s)]
    BY <1>8, <1>9
  <2>4. new = [keys |-> b.keys, of |-> of]
    BY <1>2, <2>3
  <2> HIDE DEF j, k
  <2>5. /\ l \in Seq(Signals) /\ DOMAIN old \in SUBSET DOMAIN l
        /\ \A i \in DOMAIN old : l[i] = old[i]
        /\ \E z \in DOMAIN l : /\ l[z] = s /\ z \notin DOMAIN old
                               /\ \A i \in DOMAIN l : i \in DOMAIN old \/ i = z
    <3> HIDE DEF old
    <3>1. QED
      BY <1>1, <2>2, AppendIs
  <2>6. /\ of \in [K(b) -> Seq(Signals)] /\ DOMAIN of = DOMAIN b.of /\ of[k] = l
        /\ \A x \in DOMAIN b.of : x # k => of[x] = b.of[x]
    <3> HIDE DEF l
    <3>1. QED
      BY <1>2, <2>2, <2>5
  <2> HIDE DEF l, of
  <2>7. \A x \in DOMAIN of : \A i \in DOMAIN of[x] : CompanyMatch(of[x][i].company, x)
    <3> SUFFICES ASSUME NEW x \in DOMAIN of, NEW i \in DOMAIN of[x]
                 PROVE  CompanyMatch(of[x][i].company, x)
      OBVIOUS
    <3>1. CASE x = k
      <4>1. i \in DOMAIN l /\ of[x][i] = l[i]
        BY <2>6, <3>1
      <4>2. l[i] = s \/ (i \in DOMAIN old /\ l[i] = old[i])
        BY <2>5, <4>1
      <4>3. \A y \in DOMAIN old : CompanyMatch(old[y].company, k)
        BY <1>2, <2>2
      <4>4. QED
        BY <2>1, <3>1, <4>1, <4>2, <4>3
    <3>2. CASE x # k
      BY <1>2, <2>6, <3>2
    <3>3. QED
      BY <3>1, <3>2
  <2>8. \A x \in DOMAIN b.of : \A i \in DOMAIN b.of[x] :
           \E y \in DOMAIN of[x] : of[x][y] = b.of[x][i]
    BY <2>5, <2>6
  <2>9. \A m \in 1..n + 1 : \E x \in DOMAIN of : \E i \in DOMAIN of[x] : of[x][i] = sigs[m]
    <3> SUFFICES ASSUME NEW m \in 1..n + 1
                 PROVE  \E x \in DOMAIN of : \E i \in DOMAIN of[x] : of[x][i] = sigs[m]
      OBVIOUS
    <3>1. CASE m \in 1..n
      <4>1. PICK x \in DOMAIN b.of : \E i \in DOMAIN b.of[x] : b.of[x][i] = sigs[m]
        BY <1>2, <3>1
      <4>2. QED
        BY <2>6, <2>8, <4>1
    <3>2. CASE sigs[m] = s
      <4>1. k \in DOMAIN of
        BY <1>2, <2>2, <2>6
      <4>2. QED
        BY <2>5, <2>6, <3>2, <4>1
    <3>3. QED
      BY <1>5, <3>1, <3>2
  <2>10. of \in [{b.keys[i] : i \in DOMAIN b.keys} -> Seq(Signals)]
    BY <2>6
  <2>11. BucketsOK(new, sigs, n + 1)
    <3> DEFINE q == b.keys
    <3>1. q \in Seq(Names) /\ (\A i \in DOMAIN q : Norm[q[i]] = q[i])
      BY <1>2
    <3>2. \A i, x \in DOMAIN q : CompanyMatch(q[i], q[x]) => i = x
      BY <1>2
    <3>3. new = [keys |-> q, of |-> of] /\ of \in [{q[i] : i \in DOMAIN q} -> Seq(Signals)]
      BY <2>4, <2>10
    <3> HIDE DEF q, K, old
    <3>4. QED
      BY <2>7, <2>9, <3>1, <3>2, <3>3, AreBuckets
  <2>12. QED
    BY <2>11 DEF new, s
<1>10. CASE matching = {}
  <2> DEFINE l == Append(b.keys, norm)
             D == DOMAIN b.of \cup {norm}
             of == [k \in D |-> IF k = norm THEN <<s>> ELSE b.of[k]]
  <2>1. \A i \in DOMAIN b.keys : ~ CompanyMatch(s.company, b.keys[i])
    BY <1>7, <1>10
  <2> HIDE DEF matching
  <2>2. norm \notin DOMAIN b.of
    BY <1>2, <1>4, <2>1
  <2>3. new = [keys |-> l, of |-> of]
    BY <1>8, <1>10, <2>2 DEF NewBucket
  <2>4. /\ l \in Seq(Names) /\ DOMAIN b.keys \in SUBSET DOMAIN l
        /\ \A i \in DOMAIN b.keys : l[i] = b.keys[i]
        /\ \E z \in DOMAIN l : /\ l[z] = norm /\ z \notin DOMAIN b.keys
                               /\ \A i \in DOMAIN l : i \in DOMAIN b.keys \/ i = z
    BY <1>1, <1>2, AppendIs
  <2> HIDE DEF l
  <2>5. PICK z \in DOMAIN l : /\ l[z] = norm /\ z \notin DOMAIN b.keys
                              /\ \A i \in DOMAIN l : i \in DOMAIN b.keys \/ i = z
    BY <2>4
  <2>6. \A i \in DOMAIN l : Norm[l[i]] = l[i]
    <3> SUFFICES ASSUME NEW i \in DOMAIN l PROVE Norm[l[i]] = l[i]
      OBVIOUS
    <3>1. CASE i \in DOMAIN b.keys
      BY <1>2, <2>4, <3>1
    <3>2. CASE i = z
      BY <1>3, <2>5, <3>2
    <3>3. QED
      BY <2>5, <3>1, <3>2
  <2>7. \A i \in DOMAIN b.keys : ~ CompanyMatch(b.keys[i], norm) /\ ~ CompanyMatch(norm, b.keys[i])
    BY <1>4, <2>1, MatchIsSame
  <2>8. \A i, j \in DOMAIN l : CompanyMatch(l[i], l[j]) => i = j
    BY <1>2, <2>4, <2>5, <2>7
  <2>9. D = {l[i] : i \in DOMAIN l}
    BY <1>2, <2>4, <2>5
  <2>10. <<s>> \in Seq(Signals) /\ DOMAIN <<s>> = {1} /\ <<s>>[1] = s
    BY <1>1
  <2>11. /\ DOMAIN of = D /\ of[norm] = <<s>>
         /\ \A k \in DOMAIN b.of : of[k] = b.of[k]
    BY <2>2
  <2>12. of \in [D -> Seq(Signals)]
    <3>1. \A k \in D : k # norm => k \in DOMAIN b.of /\ b.of[k] \in Seq(Signals)
      BY <1>2
    <3>2. QED
      BY <2>10, <3>1
  <2>13. \A k \in D : k = norm \/ k \in DOMAIN b.of
    OBVIOUS
  <2>14. norm \in D /\ DOMAIN b.of \in SUBSET D
    OBVIOUS
  <2> HIDE DEF of, D
  <2>15. \A k \in DOMAIN of : \A i \in DOMAIN of[k] : CompanyMatch(of[k][i].company, k)
    <3> SUFFICES ASSUME NEW k \in DOMAIN of, NEW i \in DOMAIN of[k]
                 PROVE  CompanyMatch(of[k][i].company, k)
      OBVIOUS
    <3>1. CASE k = norm
      <4>1. of[k][i] = s
        BY <2>10, <2>11, <3>1
      <4>2. QED
        BY <1>4, <3>1, <4>1
    <3>2. CASE k \in DOMAIN b.of
      BY <1>2, <2>11, <3>2
    <3>3. QED
      BY <2>11, <2>13, <3>1, <3>2
  <2>16. \A m \in 1..n + 1 : \E k \in DOMAIN of : \E i \in DOMAIN of[k] : of[k][i] = sigs[m]
    <3> SUFFICES ASSUME NEW m \in 1..n + 1
                 PROVE  \E k \in DOMAIN of : \E i \in DOMAIN of[k] : of[k][i] = sigs[m]
      OBVIOUS
    <3>1. CASE m \in 1..n
      <4>1. PICK k \in DOMAIN b.of : \E i \in DOMAIN b.of[k] : b.of[k][i] = sigs[m]
        BY <1>2, <3>1
      <4>2. k \in DOMAIN of /\ of[k] = b.of[k]
        BY <2>11, <2>14
      <4>3. QED
        BY <4>1, <4>2
    <3>2. CASE sigs[m] = s
      <4>1. norm \in DOMAIN of /\ of[norm] = <<s>>
        BY <2>11, <2>14
      <4>2. 1 \in DOMAIN of[norm] /\ of[norm][1] = s
        BY <2>10, <4>1
      <4>3. QED
        BY <3>2, <4>1, <4>2
    <3>3. QED
      BY <1>5, <3>1, <3>2
  <2>17. of \in [{l[i] : i \in DOMAIN l} -> Seq(Signals)]
    BY <2>9, <2>12
  <2>18. BucketsOK(new, sigs, n + 1)
    BY <2>3, <2>4, <2>6, <2>8, <2>15, <2>16, <2>17, AreBuckets
  <2>19. QED
    BY <2>18 DEF new, s
<1>11. QED
  BY <1>9, <1>10

LEMMA BucketsAreOK ==
    ASSUME NEW sigs \in Seq(Signals), \A i \in DOMAIN sigs : Settled(sigs[i].company)
    PROVE  BucketsOK(Buckets(sigs), sigs, Len(sigs))
<1> DEFINE N == Len(sigs)
<1>1. N \in Nat /\ DOMAIN sigs = 1..N
  OBVIOUS
<1>2. PICK f : Folded(f, sigs, N) /\ Buckets(sigs) = f[N]
  BY BucketsFold
<1> DEFINE G == {n \in 0..N : BucketsOK(f[n], sigs, n)}
<1>3. f[0] = NoBuckets
  BY <1>1, <1>2 DEF Folded
<1>4. 0 \in G
  <2> DEFINE b == f[0]
  <2>1. b = [keys |-> <<>>, of |-> [k \in {} |-> <<>>]]
    BY <1>3 DEF NoBuckets
  <2>2. b = [keys |-> b.keys, of |-> b.of] /\ b.keys = <<>> /\ b.of = [k \in {} |-> <<>>]
    BY <2>1
  <2>3. DOMAIN b.keys = {} /\ DOMAIN b.of = {} /\ b.keys \in Seq(Names)
    BY <2>2
  <2>4. b.of \in [{b.keys[i] : i \in DOMAIN b.keys} -> Seq(Signals)]
    BY <2>2, <2>3
  <2> HIDE DEF b
  <2>5. BucketsOK(b, sigs, 0)
    BY <2>2, <2>3, <2>4 DEF BucketsOK
  <2>6. QED
    BY <1>1, <2>5 DEF b
<1>5. ASSUME NEW n \in 0..N - 1, n \in G PROVE n + 1 \in G
  <2>1. n + 1 \in 0..N /\ n + 1 # 0 /\ (n + 1) - 1 = n /\ n + 1 \in DOMAIN sigs
    BY <1>1
  <2>2. f[n + 1] = AddToBucket(f[n], sigs[n + 1])
    BY <1>2, <2>1 DEF Folded
  <2>3. BucketsOK(f[n + 1], sigs, n + 1)
    BY <1>5, <2>1, <2>2, AddKeeps
  <2>4. QED
    BY <2>1, <2>3
<1>6. N \in G
  <2> HIDE DEF G, N
  <2>1. \A n \in 0..N : n \in G
    BY <1>1, <1>4, <1>5, UpTowards
  <2>2. QED
    BY <1>1, <2>1
<1>7. QED
  BY <1>2, <1>6
\* What is kept of a bucket and a type.
KeptOf(sigs, type) == Boosted(Strongest(sigs, type), Cardinality(TypesOf(sigs)))

LEMMA BestIs ==
    ASSUME NEW sigs \in Seq(Signals), NEW k, NEW type \in TypesOf(sigs),
           \A i \in DOMAIN sigs : CompanyMatch(sigs[i].company, k)
    PROVE  /\ KeptOf(sigs, type).type = type /\ CompanyMatch(KeptOf(sigs, type).company, k)
           /\ \A i \in DOMAIN sigs : sigs[i].type = type =>
                 Min({100, sigs[i].recency}) <= KeptOf(sigs, type).recency
<1> DEFINE stack == Cardinality(TypesOf(sigs))
<1>1. stack \in Nat \ {0}
  <2> DEFINE f == [i \in DOMAIN sigs |-> sigs[i].type]
  <2>1. DOMAIN f = DOMAIN sigs /\ TypesOf(sigs) = {f[i] : i \in DOMAIN f}
    BY DEF TypesOf
  <2>2. Len(sigs) \in Nat /\ DOMAIN sigs = 1..Len(sigs)
    OBVIOUS
  <2>3. IsFiniteSet(DOMAIN f)
    BY <2>1, <2>2, FS_Interval
  <2>4. IsFiniteSet({f[i] : i \in DOMAIN f})
    BY <2>3, FiniteImage
  <2>5. IsFiniteSet(TypesOf(sigs)) /\ TypesOf(sigs) # {}
    BY <2>1, <2>4
  <2>6. QED
    BY <2>5, FS_CardinalityType, FS_EmptySet
<1>2. PICK m \in DOMAIN sigs : /\ Strongest(sigs, type) = sigs[m] /\ sigs[m].type = type
                               /\ \A i \in DOMAIN sigs : sigs[i].type = type =>
                                     sigs[i].recency <= sigs[m].recency
  BY StrongestIs
<1>3. sigs[m] \in Signals /\ \A i \in DOMAIN sigs : sigs[i] \in Signals
  OBVIOUS
<1>4. \A i \in DOMAIN sigs : sigs[i].recency \in Nat
  BY <1>3 DEF Signals
<1>5. KeptOf(sigs, type) = Boosted(sigs[m], stack)
  BY <1>2 DEF KeptOf
<1> HIDE DEF stack
<1>6. /\ Boosted(sigs[m], stack).company = sigs[m].company
      /\ Boosted(sigs[m], stack).type = sigs[m].type
      /\ \A r \in Nat : r <= sigs[m].recency => Min({100, r}) <= Boosted(sigs[m], stack).recency
  BY <1>1, <1>3, BoostedIs
<1>7. QED
  BY <1>2, <1>4, <1>5, <1>6

\* For every signal one of its company and type is kept, and is not weaker.
LEMMA UniqueKeeps ==
    ASSUME NEW sigs \in Seq(Signals), \A i \in DOMAIN sigs : Settled(sigs[i].company),
           NEW i \in DOMAIN sigs
    PROVE  LET of == {s \in Unique(sigs) : s.type = sigs[i].type
                                           /\ CompanyMatch(s.company, sigs[i].company)}
           IN Cardinality(of) = 1 /\ \A s \in of : s.recency >= Min({100, sigs[i].recency})
<1> DEFINE b == Buckets(sigs)  c == sigs[i].company  t == sigs[i].type
           of == {s \in Unique(sigs) : s.type = t /\ CompanyMatch(s.company, c)}
<1>1. BucketsOK(b, sigs, Len(sigs))
  BY BucketsAreOK
<1>2. i \in 1..Len(sigs) /\ sigs[i] \in Signals
  OBVIOUS
<1>3. Unique(sigs) = UNION {{KeptOf(b.of[k], x) : x \in TypesOf(b.of[k])} : k \in DOMAIN b.of}
  BY DEF Unique, KeptOf
<1> HIDE DEF b
<1>4. /\ \A k \in DOMAIN b.of : b.of[k] \in Seq(Signals)
      /\ \A k \in DOMAIN b.of : \A y \in DOMAIN b.of[k] : CompanyMatch(b.of[k][y].company, k)
      /\ \A m \in 1..Len(sigs) : \E k \in DOMAIN b.of : \E y \in DOMAIN b.of[k] : b.of[k][y] = sigs[m]
  BY <1>1 DEF BucketsOK
<1>5. \A k, j \in DOMAIN b.of : CompanyMatch(k, j) => k = j
  BY <1>1 DEF BucketsOK
<1>6. PICK k \in DOMAIN b.of : \E y \in DOMAIN b.of[k] : b.of[k][y] = sigs[i]
  BY <1>2, <1>4
<1>7. PICK y \in DOMAIN b.of[k] : b.of[k][y] = sigs[i]
  BY <1>6
<1>8. ASSUME NEW j \in DOMAIN b.of, NEW x \in TypesOf(b.of[j])
      PROVE  /\ KeptOf(b.of[j], x).type = x /\ CompanyMatch(KeptOf(b.of[j], x).company, j)
             /\ \A z \in DOMAIN b.of[j] : b.of[j][z].type = x =>
                   Min({100, b.of[j][z].recency}) <= KeptOf(b.of[j], x).recency
  BY <1>4, BestIs
<1>9. t \in TypesOf(b.of[k]) /\ CompanyMatch(c, k)
  BY <1>4, <1>7 DEF TypesOf
<1> DEFINE best == KeptOf(b.of[k], t)
<1>10. /\ best.type = t /\ CompanyMatch(best.company, k)
       /\ Min({100, sigs[i].recency}) <= best.recency
  BY <1>7, <1>8, <1>9
<1>11. best \in Unique(sigs)
  <2> DEFINE ofBucket(j) == {KeptOf(b.of[j], x) : x \in TypesOf(b.of[j])}
  <2>1. best \in ofBucket(k)
    BY <1>9
  <2>2. Unique(sigs) = UNION {ofBucket(j) : j \in DOMAIN b.of}
    BY <1>3
  <2> HIDE DEF ofBucket, best
  <2>3. QED
    BY <2>1, <2>2
<1>12. CompanyMatch(best.company, c)
  BY <1>9, <1>10, MatchIsSame
<1>13. ASSUME NEW s \in of PROVE s = best
  <2>1. PICK j \in DOMAIN b.of : \E x \in TypesOf(b.of[j]) : s = KeptOf(b.of[j], x)
    BY <1>3
  <2>2. PICK x \in TypesOf(b.of[j]) : s = KeptOf(b.of[j], x)
    BY <2>1
  <2>3. x = t /\ CompanyMatch(s.company, j)
    BY <1>8, <2>2
  <2>4. CompanyMatch(s.company, c)
    OBVIOUS
  <2>5. CompanyMatch(j, k)
    BY <1>9, <2>3, <2>4, MatchIsSame
  <2>6. j = k
    BY <1>5, <2>5
  <2>7. QED
    BY <2>2, <2>3, <2>6
<1>14. of = {best}
  BY <1>10, <1>11, <1>12, <1>13
<1>15. Cardinality(of) = 1
  BY <1>14, FS_Singleton
<1>16. best.recency >= Min({100, sigs[i].recency})
  <2>1. best.recency \in Int /\ Min({100, sigs[i].recency}) \in Int => best.recency >= Min({100, sigs[i].recency})
    BY <1>10
  <2>2. QED
    BY <1>10
<1>17. QED
  BY <1>14, <1>15, <1>16

-----------------------------------------------------------------------------
\* The signals are kept as they were when the last future had completed.
EngineInv ==
  /\ collected \in Seq(Signals)
  /\ "serper" \notin keys => collected = <<>>
  /\ answer.done => \/ "serper" \notin keys
                    \/ running = {} /\ answer.kept = Unique(collected)

LEMMA EngineStep == EngineInv /\ [EngineNext]_engineVars => EngineInv'
<1> SUFFICES ASSUME EngineInv, [EngineNext]_engineVars PROVE EngineInv'
  OBVIOUS
<1>1. CASE NoSerperKey
  <2>1. "serper" \notin keys /\ UNCHANGED <<keys, running, collected>>
    BY <1>1 DEF NoSerperKey
  <2>2. QED
    BY <2>1 DEF EngineInv
<1>2. CASE RunSignalEngine
  <2>1. running = {} /\ answer'.done /\ answer'.kept = Unique(collected)
        /\ UNCHANGED <<keys, running, collected>>
    BY <1>2 DEF RunSignalEngine
  <2>2. QED
    BY <2>1 DEF EngineInv
<1>3. ASSUME NEW label \in Labels, Completed(label) PROVE EngineInv'
  <2>1. "serper" \in keys /\ label \in running /\ keys' = keys /\ answer' = answer
    BY <1>3 DEF Completed
  <2>2. ~ answer'.done
    BY <2>1 DEF EngineInv
  <2>3. \/ collected' = collected
        \/ label # "live_openings" /\ \E s \in Fetched(label) : collected' = collected \o s
    BY <1>3 DEF Completed
  <2>4. collected' \in Seq(Signals)
    <3>1. ASSUME NEW s \in Fetched(label), label # "live_openings"
          PROVE  collected \o s \in Seq(Signals)
      <4>1. s \in Seq(Signals)
        BY <3>1, FetchedAreSignals
      <4>2. QED
        BY <4>1, ConcatProperties DEF EngineInv
    <3>2. QED
      BY <2>3, <3>1 DEF EngineInv
  <2>5. QED
    BY <2>1, <2>2, <2>4 DEF EngineInv
<1>4. CASE UNCHANGED engineVars
  BY <1>4 DEF EngineInv, engineVars
<1>5. QED
  BY <1>1, <1>2, <1>3, <1>4 DEF EngineNext

\* Of every signal that a fetcher found one of its type is kept for its company,
\* in whatever order the futures completed (signal_engine.py:917-980).
THEOREM StrongestSurvives == EngineSpec => []StrongestIsKept
<1>1. EngineInit => EngineInv
  <2> SUFFICES ASSUME EngineInit PROVE EngineInv
    OBVIOUS
  <2>1. collected = <<>> /\ answer.done = FALSE
    BY DEF EngineInit, NoAnswer
  <2>2. QED
    BY <2>1 DEF EngineInv
<1>2. EngineInv => StrongestIsKept
  <2> SUFFICES ASSUME EngineInv, answer.done,
                      \A i \in DOMAIN collected : Settled(collected[i].company),
                      NEW i \in DOMAIN collected
               PROVE  LET of == {s \in answer.kept : s.type = collected[i].type
                                    /\ CompanyMatch(s.company, collected[i].company)}
                      IN /\ Cardinality(of) = 1
                         /\ \A s \in of : s.recency >= Min({100, collected[i].recency})
    BY DEF StrongestIsKept
  <2>1. collected \in Seq(Signals) /\ collected # <<>>
    BY DEF EngineInv
  <2>2. answer.kept = Unique(collected)
    BY <2>1 DEF EngineInv
  <2>3. QED
    BY <2>1, <2>2, UniqueKeeps
<1>3. QED
  BY <1>1, <1>2, EngineStep, PTL DEF EngineSpec
=============================================================================
