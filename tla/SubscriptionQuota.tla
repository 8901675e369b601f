------------------------- MODULE SubscriptionQuota -------------------------
(***************************************************************************)
(* The quota of one user in time: which packs check_quota counts while the *)
(* subscription of SubscriptionBilling changes under it.  A request reads  *)
(* the row, counts, and starts a run; the usage record is written when the *)
(* run has delivered its pack, and nothing is reserved in between.  What   *)
(* else the run does is the subject of PackPipeline.                       *)
(***************************************************************************)
EXTENDS SubscriptionBilling

CONSTANTS
    PacksPerMonth,  \* the plans: packs per month of each tier, or Unlimited
    Unlimited,
    Month,          \* length of a calendar month
    Packs,          \* bound: the packs the user may get
    MaxOpen         \* bound: requests and runs of the user under way at a time

ASSUME PlansAssumption ==
    /\ Unlimited \notin Nat
    /\ PacksPerMonth \in [Tier -> Nat \cup {Unlimited}]
    /\ Month \in Nat \ {0}

ASSUME PacksAssumption ==
    /\ IsFiniteSet(Packs)
    /\ MaxOpen \in Nat \ {0}

VARIABLE pack  \* the requests for packs, their runs, and the usage_records

quotaVars == <<now, stripe, held, event, sent, row, checkout, customers, hook, count, pack>>

\* seen is the row a request has read, at the moment a pack was recorded.
Pack == [pc : {"none", "checking", "running", "recorded"}, seen : Row, at : Nat]

NoPack == [pc |-> "none", seen |-> FreeRow, at |-> 0]

\* Requests and runs under way, and the runs among them.
Open == {p \in Packs : pack[p].pc \in {"checking", "running"}}

Running == {p \in Packs : pack[p].pc = "running"}

\* The usage records created from one moment to another, and their number.
RecordedBetween(first, last) ==
    {p \in Packs : pack[p].pc = "recorded" /\ first <= pack[p].at /\ pack[p].at <= last}

UsedBetween(first, last) == Cardinality(RecordedBetween(first, last))

\* The first moment of the calendar month.
MonthStart == now - (now % Month)

\* Plan.is_over_quota
OverQuota(tier, used) == PacksPerMonth[tier] # Unlimited /\ used >= PacksPerMonth[tier]

\* _count_usage_this_period
UsedThisPeriod(seen) ==
    IF seen.start # 0
    THEN UsedBetween(seen.start, seen.start + Period)
    ELSE UsedBetween(MonthStart, now)

\* check_quota reads the row ...
CheckQuota(p) ==
    /\ pack[p].pc = "none"
    /\ Cardinality(Open) < MaxOpen
    /\ pack' = [pack EXCEPT ![p].pc = "checking", ![p].seen = row]

\* A bug check_quota could have: it takes the limit for the last pack's number plus one.
AdmitOneMore(p) ==
    /\ pack[p].pc = "checking"
    /\ \/ PacksPerMonth[pack[p].seen.tier] = Unlimited
       \/ UsedThisPeriod(pack[p].seen) <= PacksPerMonth[pack[p].seen.tier]
    /\ pack' = [pack EXCEPT ![p] = [NoPack EXCEPT !.pc = "running"]]

\* ... counts the records, and lets the run begin.
Admit(p) ==
    /\ pack[p].pc = "checking"
    /\ ~OverQuota(pack[p].seen.tier, UsedThisPeriod(pack[p].seen))
    /\ pack' = [pack EXCEPT ![p] = [NoPack EXCEPT !.pc = "running"]]

\* QuotaExceededError, 402.
Refuse(p) ==
    /\ pack[p].pc = "checking"
    /\ OverQuota(pack[p].seen.tier, UsedThisPeriod(pack[p].seen))
    /\ pack' = [pack EXCEPT ![p] = NoPack]

\* render_docx_task has committed COMPLETED and records the usage.
RecordUsage(p) ==
    /\ pack[p].pc = "running"
    /\ pack' = [pack EXCEPT ![p] = [NoPack EXCEPT !.pc = "recorded", !.at = now]]

\* The run fails, or the usage record does: nothing is counted.
EndUncounted(p) ==
    /\ pack[p].pc = "running"
    /\ pack' = [pack EXCEPT ![p] = NoPack]

PackStep(p) ==
    CheckQuota(p) \/ Admit(p) \/ Refuse(p) \/ RecordUsage(p) \/ EndUncounted(p)

QuotaInit == Init /\ pack = [p \in Packs |-> NoPack]

QuotaNext ==
    \/ Next /\ UNCHANGED pack
    \/ (\E p \in Packs : PackStep(p)) /\ UNCHANGED billingVars

QuotaSpec == QuotaInit /\ [][QuotaNext]_quotaVars

QuotaTypeOK == pack \in [Packs -> Pack]

-----------------------------------------------------------------------------
(* A request of a user whose Stripe events have all been handled, and      *)
(* whose row no handler has changed since it was read, starts no run when  *)
(* the plan's packs are used up in the period Stripe is charging for,      *)
(* whatever renewals, plan changes and cancellations came before.          *)
PaidLimitWhenSettled ==
    [][\A p \in Packs, k \in Checkouts :
          (/\ pack[p].pc = "checking" /\ pack'[p].pc = "running"
           /\ pack[p].seen = row /\ Settled /\ Live(k)) =>
              ~OverQuota(TierOf(stripe[k].price), UsedBetween(stripe[k].start, now))]_quotaVars

(* Who never paid exceeds the FREE plan in a month by fewer packs than     *)
(* were under way at once: the check reserves nothing, but what has been   *)
(* recorded stops every later request, over any number of months.          *)
FreeOverrunIsBounded ==
    (\A k \in Checkouts : held[k] = {}) =>
        \/ PacksPerMonth["free"] = Unlimited
        \/ UsedBetween(MonthStart, now) < PacksPerMonth["free"] + MaxOpen

(* quota_guard.py: "enforces pack quota (raises 402 if exceeded)".         *)
UsageWithinLimit ==
    (\A k \in Checkouts : held[k] = {}) =>
        \/ PacksPerMonth["free"] = Unlimited
        \/ UsedBetween(MonthStart, now) <= PacksPerMonth["free"]

(* models/subscription.py, of current_period_end: "End of current billing  *)
(* period - quota resets at this time"; the plan on the row limits what    *)
(* the user gets in the period the subscription is in.                     *)
QuotaResetsAtPeriodEnd ==
    [][\A p \in Packs :
          (pack[p].pc = "checking" /\ pack'[p].pc = "running" /\ row.sub # NoSub /\ Live(row.sub)) =>
              ~OverQuota(row.tier, UsedBetween(stripe[row.sub].start, now))]_quotaVars

(* billing_service.py: "For FREE tier (no Stripe period), uses calendar    *)
(* month".                                                                 *)
FreeLimitPerMonth ==
    [][\A p \in Packs :
          (pack[p].pc = "checking" /\ pack'[p].pc = "running" /\ row.tier = "free") =>
              ~OverQuota("free", UsedBetween(MonthStart, now))]_quotaVars
=============================================================================
