-------------------------- MODULE ValuePackageQuota --------------------------
(***************************************************************************)
(* The quota of one value package (a UserSubscription whose plan has kind  *)
(* value_package) as the database keeps it: the subscription row, one      *)
(* usage record and one pre-consume record per relay request, the reset    *)
(* cards of its owner, and the database clock.  Every action is one        *)
(* database transaction of model/subscription.go; a transaction that       *)
(* returns an error is rolled back and is therefore no step at all.        *)
(* A transaction reads the clock before it holds the row lock, so the time *)
(* at it works with may lag behind the clock, by up to Lag ticks, while    *)
(* transactions with later times have already committed.                   *)
(*                                                                         *)
(* The quota epoch is the mechanism the properties are about: a reset      *)
(* (cycle renewal, reset card, renewal of an exhausted package) zeroes     *)
(* AmountUsed and opens a new epoch, while requests admitted in an older   *)
(* epoch are still running and will settle or refund later.                *)
(***************************************************************************)
EXTENDS Integers, FiniteSets, QuotaSums

CONSTANTS
    Requests,     \* relay request ids that use this package
    Amounts,      \* quota amounts a request may ask for or end up costing
    AmountTotal,  \* plan.TotalAmount, > 0 for a value package
    Limit5h,      \* plan.Limit5hAmount, 0 = no limit
    Limit7d,      \* plan.Limit7dAmount of a month plan, 0 = no 7-day window
    Window5h,     \* valuePackage5hWindowSeconds, in model ticks
    Window7d,     \* valuePackage7dWindowSeconds, in model ticks
    Cycle,        \* valuePackageCycleSeconds = the plan's duration
    DustLimit,    \* remaining quota a renewal still treats as exhausted
    Retention,    \* age at which pre-consume records are cleaned up
    InitCards,    \* reset cards the owner starts with
    GiftCards,    \* order.GiftResetCount: reset cards a purchase grants
    Deltas,       \* adjustments of AmountUsed made outside a billing session
    MaxDrift,     \* bound: how much quota they move within one epoch
    Lag,          \* bound: how long a transaction may wait for the row lock
    MaxTime,      \* bound: the last tick of the clock
    MaxEnd        \* bound: the latest end time a renewal may reach

ASSUME VPConstants ==
    /\ IsFiniteSet(Requests)
    /\ Amounts \subseteq Nat
    /\ AmountTotal \in Nat \ {0}
    /\ Limit5h \in Nat /\ Limit7d \in Nat
    /\ Window5h \in Nat \ {0} /\ Window7d \in Nat \ {0}
    /\ Cycle \in Nat \ {0}
    /\ DustLimit \in Nat /\ Retention \in Nat
    /\ InitCards \in Nat /\ GiftCards \in Nat
    /\ Deltas \subseteq Int /\ MaxDrift \in Nat
    /\ Lag \in Nat /\ MaxTime \in Nat /\ MaxEnd \in Nat

VARIABLES
    now,      \* the database clock
    sub,      \* the UserSubscription row, with the reset_at of its resets
    pre,      \* SubscriptionPreConsumeRecord by request id
    usage,    \* ValuePackageUsageRecord by request id
    pref,     \* UserValuePackagePreference: enabled, resetCount
    overtaken \* history: a write to the usage records was made with a time
              \* earlier than that of a record it had to count

vpVars == <<now, sub, pre, usage, pref, overtaken>>

NoPre == [status |-> "none", preConsumed |-> 0, quotaEpoch |-> 0, updatedAt |-> 0]

\* A row is absent exactly when its created_at is 0: the clock starts at 1.
NoUsage == [quota |-> 0, quotaEpoch |-> 0, createdAt |-> 0]

HasUsage(u, r) == u[r].createdAt > 0

Statuses == {"active", "expired", "cancelled", "covered", "deleted"}

----------------------------------------------------------------------------
(* Sums of usage quota.                                                     *)

QuotaOf(u, S) == Total([r \in Requests |-> u[r].quota], S)

LargerOf(a, b) == IF a >= b THEN a ELSE b

\* The times GetDBTimestamp may have returned to a transaction of this moment.
ReadTimes == {t \in 1..now : t >= now - Lag}

----------------------------------------------------------------------------
(* The cycle.  A package starts a new cycle every Cycle ticks from its      *)
(* start time; the first transaction that touches the row after the         *)
(* boundary opens the new epoch.                                            *)

LatestCycleStart(s, at) == s.startTime + ((at - s.startTime) \div Cycle) * Cycle

CycleDue(s, at) ==
    /\ at >= s.startTime + Cycle
    /\ LatestCycleStart(s, at) > LargerOf(s.lastResetTime, s.startTime)

\* Open the next epoch: AmountUsed restarts at 0 and a reset row is written.
OpenEpoch(s, resetAt) ==
    [s EXCEPT !.amountUsed = 0,
              !.quotaEpoch = @ + 1,
              !.resets = @ \cup {resetAt},
              !.charged = 0,
              !.credited = 0]

NextResetAfter(s, cycleStart) ==
    IF cycleStart + Cycle < s.endTime THEN cycleStart + Cycle ELSE 0

maybeAdvanceValuePackageCycle(s, at) ==
    IF ~CycleDue(s, at) THEN s
    ELSE [OpenEpoch(s, LatestCycleStart(s, at)) EXCEPT
              !.lastResetTime = LatestCycleStart(s, at),
              !.nextResetTime = NextResetAfter(s, LatestCycleStart(s, at))]

syncValuePackageCycleSchedule(s) ==
    LET last == LargerOf(s.lastResetTime, s.startTime)
    IN  [s EXCEPT !.lastResetTime = last,
                  !.nextResetTime = NextResetAfter(s, last)]

----------------------------------------------------------------------------
(* The usage windows.  Only records of the current epoch count, and of      *)
(* those only the ones created by the time the transaction works with.      *)

CurrentRecords(u, s, at) ==
    {r \in Requests : /\ HasUsage(u, r)
                      /\ u[r].quota > 0
                      /\ u[r].quotaEpoch = s.quotaEpoch
                      /\ u[r].createdAt \in s.startTime..at}

\* MAX(reset_at) of the resets up to at, 0 if there are none.
LastQuotaResetAt(s, at) ==
    CHOOSE t \in s.resets \cup {0} :
        /\ t <= at
        /\ \A x \in s.resets : x <= at => x <= t

\* The fixed window: it opens at the first record after the previous window
\* has ended, and everything created inside it counts until it ends.  The
\* records are scanned in created_at order.
valuePackageFixedWindowUsage(u, S, at) ==
    LET Shut == [start |-> 0, end |-> 0, used |-> 0, expiredUntil |-> 0]
        scan[t \in 0..at] ==
            IF t = 0 THEN Shut
            ELSE LET w == scan[t - 1]
                     q == QuotaOf(u, {r \in S : u[r].createdAt = t})
                     open == IF w.start = 0 \/ t >= w.end
                             THEN [w EXCEPT !.start = t, !.end = t + Window5h, !.used = 0]
                             ELSE w
                 IN  CASE q = 0 \/ t < w.expiredUntil -> w
                       [] q > 0 /\ t >= w.expiredUntil /\ at >= open.end ->
                            [Shut EXCEPT !.expiredUntil = open.end]
                       [] OTHER -> [open EXCEPT !.used = @ + q]
    IN  scan[at].used

Used5h(u, s, at) ==
    valuePackageFixedWindowUsage(
        u, {r \in CurrentRecords(u, s, at) : u[r].createdAt >= LastQuotaResetAt(s, at)}, at)

\* The 7-day stage is anchored at the start time and cut at the end time.
AnchoredWindowStart(s, at) ==
    s.startTime + ((LargerOf(at, s.startTime) - s.startTime) \div Window7d) * Window7d

Used7d(u, s, at) ==
    LET anchored == AnchoredWindowStart(s, at)
        start == LargerOf(anchored, LastQuotaResetAt(s, at))
        end   == IF anchored + Window7d > s.endTime THEN s.endTime ELSE anchored + Window7d
    IN  QuotaOf(u, {r \in CurrentRecords(u, s, at) : u[r].createdAt \in start..(end - 1)})

\* Mutant: the 5-hour limit forgotten for plans that have a 7-day window.
WithinWindowsOneOnly(used5h, used7d) ==
    /\ (Limit5h > 0 /\ Limit7d = 0) => used5h <= Limit5h
    /\ Limit7d > 0 => used7d <= Limit7d

WithinWindows(used5h, used7d) ==
    /\ Limit5h > 0 => used5h <= Limit5h
    /\ Limit7d > 0 => used7d <= Limit7d

----------------------------------------------------------------------------
(* The transactions a billing session issues.                               *)

SubActive(at) == sub.status = "active" /\ sub.endTime > at

\* recordValuePackageUsageTx: the upsert keeps epoch and created_at of a row.
UpsertUsage(r, quota, epoch, at) ==
    usage' = [usage EXCEPT ![r] =
        IF HasUsage(usage, r) THEN [@ EXCEPT !.quota = quota]
        ELSE [quota |-> quota, quotaEpoch |-> epoch, createdAt |-> at]]

\* The plan has windows, and a record of the epoch is later than the time the
\* transaction works with: their queries, created_at <= now, do not see it.
Overtaken(s, at) ==
    /\ Limit5h > 0 \/ Limit7d > 0
    /\ \E r \in Requests : /\ HasUsage(usage, r)
                           /\ usage[r].quotaEpoch = s.quotaEpoch
                           /\ usage[r].createdAt > at

\* A request id is fresh: no row of an earlier request carries it.
FreshRequest(r) == pre[r].status = "none" /\ ~HasUsage(usage, r)

\* Mutant: any quota left is taken for enough quota.
CanPreConsumeIfAnyLeft(amount, at) ==
    LET s == maybeAdvanceValuePackageCycle(sub, at)
    IN  /\ SubActive(at)
        /\ s.amountUsed < AmountTotal
        /\ WithinWindows(Used5h(usage, s, at) + amount, Used7d(usage, s, at) + amount)

CanPreConsume(amount, at) ==
    LET s == maybeAdvanceValuePackageCycle(sub, at)
    IN  /\ SubActive(at)
        /\ s.amountUsed + amount <= AmountTotal
        /\ WithinWindows(Used5h(usage, s, at) + amount, Used7d(usage, s, at) + amount)

PreConsumeValuePackageSubscription(r, amount, at) ==
    LET s == maybeAdvanceValuePackageCycle(sub, at)
    IN  /\ amount > 0
        /\ FreshRequest(r)
        /\ CanPreConsume(amount, at)
        /\ pre' = [pre EXCEPT ![r] = [status |-> "consumed", preConsumed |-> amount,
                                      quotaEpoch |-> s.quotaEpoch, updatedAt |-> now]]
        /\ UpsertUsage(r, amount, s.quotaEpoch, at)
        /\ sub' = [s EXCEPT !.amountUsed = @ + amount]
        /\ overtaken' = (overtaken \/ Overtaken(s, at))
        /\ UNCHANGED <<now, pref>>

\* Mutant: a late settlement is charged to the epoch that is open now.
RequestEpochNow(r, s) == s.quotaEpoch

\* The epoch the request belongs to, whatever the epoch is now.
RequestEpoch(r, s) ==
    IF HasUsage(usage, r) THEN usage[r].quotaEpoch
    ELSE IF pre[r].status # "none" THEN pre[r].quotaEpoch
    ELSE s.quotaEpoch

\* Mutant: the windows are checked as they are, not as the write leaves them.
CanReserveBeforeWrite(r, target, at) ==
    LET s == maybeAdvanceValuePackageCycle(sub, at)
        delta == target - usage[r].quota
    IN  /\ SubActive(at)
        /\ (s.quotaEpoch = RequestEpoch(r, s) /\ delta > 0) =>
              /\ s.amountUsed + delta <= AmountTotal
              /\ WithinWindows(Used5h(usage, s, at), Used7d(usage, s, at))

CanReserve(r, target, at) ==
    LET s == maybeAdvanceValuePackageCycle(sub, at)
        delta == target - usage[r].quota
        next == [usage EXCEPT ![r].quota = target]
    IN  /\ SubActive(at)
        /\ (s.quotaEpoch = RequestEpoch(r, s) /\ delta > 0) =>
              /\ s.amountUsed + delta <= AmountTotal
              /\ WithinWindows(Used5h(next, s, at), Used7d(next, s, at))

ReserveValuePackageUsageToTarget(r, target, at) ==
    LET s == maybeAdvanceValuePackageCycle(sub, at)
        delta == target - usage[r].quota
    IN  /\ HasUsage(usage, r)
        /\ CanReserve(r, target, at)
        /\ UpsertUsage(r, target, RequestEpoch(r, s), at)
        /\ sub' = IF s.quotaEpoch = RequestEpoch(r, s)
                  THEN [s EXCEPT !.amountUsed = LargerOf(0, @ + delta)]
                  ELSE s
        /\ overtaken' = (overtaken \/ Overtaken(s, at))
        /\ UNCHANGED <<now, pre, pref>>

\* Mutant: the refund does not compare epochs.
RefundIntoAnyEpoch(r) ==
    /\ pre[r].status = "consumed"
    /\ sub.status # "deleted"
    /\ usage' = [usage EXCEPT ![r].quota = 0]
    /\ pre' = [pre EXCEPT ![r].status = "refunded", ![r].updatedAt = now]
    /\ sub' = [sub EXCEPT !.amountUsed = LargerOf(0, @ - usage[r].quota)]
    /\ UNCHANGED <<now, pref, overtaken>>

\* A second refund of a request only revokes its usage record again.
RefundSubscriptionPreConsume(r) ==
    LET refund == IF HasUsage(usage, r) THEN usage[r].quota ELSE pre[r].preConsumed
    IN  /\ pre[r].status # "none"
        /\ pre[r].status = "consumed" => sub.status # "deleted"
        /\ usage' = IF HasUsage(usage, r) THEN [usage EXCEPT ![r].quota = 0] ELSE usage
        /\ IF pre[r].status = "refunded" THEN UNCHANGED <<sub, pre>>
           ELSE /\ pre' = [pre EXCEPT ![r].status = "refunded", ![r].updatedAt = now]
                /\ sub' = IF sub.quotaEpoch = pre[r].quotaEpoch
                          THEN [sub EXCEPT !.amountUsed = LargerOf(0, @ - refund)]
                          ELSE sub
        /\ UNCHANGED <<now, pref, overtaken>>

\* Task refunds and recalculations and violation fees move AmountUsed alone:
\* no usage record is written and no epoch is compared.  Only the history
\* fields charged and credited remember them.
PostConsumeUserSubscriptionDelta(delta) ==
    LET newUsed == LargerOf(0, sub.amountUsed + delta)
        up      == LargerOf(0, delta)
        down    == LargerOf(0, -delta)
    IN  /\ delta # 0
        /\ sub.status # "deleted"
        /\ newUsed <= AmountTotal
        /\ sub.charged + sub.credited + up + down <= MaxDrift
        /\ sub' = [sub EXCEPT !.amountUsed = newUsed,
                              !.charged = @ + up,
                              !.credited = @ + down]
        /\ UNCHANGED <<now, pre, usage, pref, overtaken>>

----------------------------------------------------------------------------
(* The owner's operations.                                                  *)

\* Mutant: the card balance is decremented without the reset_count > 0 guard.
ConsumeCardUnguarded(at) ==
    /\ pref.enabled
    /\ SubActive(at)
    /\ pref' = [pref EXCEPT !.resetCount = @ - 1]
    /\ sub' = OpenEpoch(sub, at)
    /\ UNCHANGED <<now, pre, usage, overtaken>>

\* A reset card opens a new epoch at once, without first running the cycle.
ConsumeValuePackageResetCount(at) ==
    /\ pref.resetCount > 0
    /\ pref.enabled
    /\ SubActive(at)
    /\ pref' = [pref EXCEPT !.resetCount = @ - 1]
    /\ sub' = OpenEpoch(sub, at)
    /\ UNCHANGED <<now, pre, usage, overtaken>>

RenewalExhausted(s, at) ==
    \/ s.amountUsed >= AmountTotal
    \/ Limit5h > 0 /\ Used5h(usage, s, at) >= Limit5h
    \/ Limit7d > 0 /\ Used7d(usage, s, at) >= Limit7d
    \/ AmountTotal - s.amountUsed <= DustLimit

\* Renewal of an exhausted package restarts it at once; otherwise it appends
\* time.
extendValuePackageSubscription(s, at) ==
    IF RenewalExhausted(s, at)
    THEN [OpenEpoch(s, at) EXCEPT !.startTime = at,
                                  !.endTime = at + Cycle,
                                  !.lastResetTime = at,
                                  !.nextResetTime = 0]
    ELSE syncValuePackageCycleSchedule([s EXCEPT !.endTime = @ + Cycle])

\* A completed order of the same plan: renew, enable, grant the gift cards.
CompleteRenewalOrder(at) ==
    /\ SubActive(at)
    /\ sub.endTime + Cycle <= MaxEnd
    /\ sub' = extendValuePackageSubscription(maybeAdvanceValuePackageCycle(sub, at), at)
    /\ pref' = [enabled |-> TRUE, resetCount |-> pref.resetCount + GiftCards]
    /\ UNCHANGED <<now, pre, usage, overtaken>>

ActivateValuePackage ==
    /\ SubActive(now)
    /\ pref' = [pref EXCEPT !.enabled = TRUE]
    /\ UNCHANGED <<now, sub, pre, usage, overtaken>>

DeactivateValuePackage ==
    /\ pref' = [pref EXCEPT !.enabled = FALSE]
    /\ UNCHANGED <<now, sub, pre, usage, overtaken>>

\* Buying a package of a higher level covers this one.
CoverByUpgrade ==
    /\ SubActive(now)
    /\ sub' = [sub EXCEPT !.status = "covered"]
    /\ UNCHANGED <<now, pre, usage, pref, overtaken>>

----------------------------------------------------------------------------
(* The administrator and the background task.                               *)

AdminInvalidateUserSubscription ==
    /\ sub.status # "deleted"
    /\ sub' = [sub EXCEPT !.status = "cancelled", !.endTime = now]
    /\ UNCHANGED <<now, pre, usage, pref, overtaken>>

AdminDeleteUserSubscription ==
    /\ sub.status # "deleted"
    /\ sub' = [sub EXCEPT !.status = "deleted"]
    /\ UNCHANGED <<now, pre, usage, pref, overtaken>>

\* The row is looked up again under its lock, then without its status.
ResetDueSubscriptions(at) ==
    /\ sub.status # "deleted"
    /\ sub.nextResetTime > 0 /\ sub.nextResetTime <= at
    /\ sub' = maybeAdvanceValuePackageCycle(sub, at)
    /\ UNCHANGED <<now, pre, usage, pref, overtaken>>

ExpireDueSubscriptions ==
    /\ sub.status = "active" /\ sub.endTime <= now
    /\ sub' = [sub EXCEPT !.status = "expired"]
    /\ UNCHANGED <<now, pre, usage, pref, overtaken>>

CleanupSubscriptionPreConsumeRecords ==
    /\ \E r \in Requests : pre[r].status # "none" /\ pre[r].updatedAt < now - Retention
    /\ pre' = [r \in Requests |->
                 IF pre[r].updatedAt < now - Retention THEN NoPre ELSE pre[r]]
    /\ UNCHANGED <<now, sub, usage, pref, overtaken>>

Tick ==
    /\ now < MaxTime
    /\ now' = now + 1
    /\ UNCHANGED <<sub, pre, usage, pref, overtaken>>

----------------------------------------------------------------------------
(* The row CreateValuePackageSubscriptionFromPlanTx inserts at tick 1.      *)
VPInit ==
    /\ now = 1
    /\ sub = syncValuePackageCycleSchedule(
                [status |-> "active", startTime |-> 1, endTime |-> 1 + Cycle,
                 amountUsed |-> 0, quotaEpoch |-> 0, resets |-> {},
                 lastResetTime |-> 0, nextResetTime |-> 0,
                 charged |-> 0, credited |-> 0])
    /\ pre = [r \in Requests |-> NoPre]
    /\ usage = [r \in Requests |-> NoUsage]
    /\ pref = [enabled |-> TRUE, resetCount |-> InitCards]
    /\ overtaken = FALSE

\* What a request does: pre-consume once, replace its target while it has not
\* been refunded, and be refunded, possibly after it has settled.  A task it
\* submitted, or its violation fee, adjusts AmountUsed later.
RequestStep(r) ==
    \/ \E a \in Amounts, at \in ReadTimes : PreConsumeValuePackageSubscription(r, a, at)
    \/ \E a \in Amounts, at \in ReadTimes :
          /\ pre[r].status = "consumed"
          /\ ReserveValuePackageUsageToTarget(r, a, at)
    \/ RefundSubscriptionPreConsume(r)
    \/ \E d \in Deltas :
          /\ HasUsage(usage, r)
          /\ PostConsumeUserSubscriptionDelta(d)

Environment ==
    \/ \E at \in ReadTimes : ConsumeValuePackageResetCount(at)
    \/ \E at \in ReadTimes : CompleteRenewalOrder(at)
    \/ ActivateValuePackage
    \/ DeactivateValuePackage
    \/ CoverByUpgrade
    \/ AdminInvalidateUserSubscription
    \/ AdminDeleteUserSubscription
    \/ \E at \in ReadTimes : ResetDueSubscriptions(at)
    \/ ExpireDueSubscriptions
    \/ CleanupSubscriptionPreConsumeRecords
    \/ Tick

VPNext == (\E r \in Requests : RequestStep(r)) \/ Environment

VPSpec == VPInit /\ [][VPNext]_vpVars

----------------------------------------------------------------------------
(* Properties.                                                              *)

\* The rows keep their types: in particular AmountUsed and the reset cards
\* never go below zero, however settles, refunds and resets interleave.
VPTypeOK ==
    /\ now \in Nat
    /\ sub \in [status : Statuses, startTime : Nat, endTime : Nat, amountUsed : Nat,
                quotaEpoch : Nat, resets : SUBSET Nat, lastResetTime : Nat,
                nextResetTime : Nat, charged : Nat, credited : Nat]
    /\ pre \in [Requests -> [status : {"none", "consumed", "refunded"},
                             preConsumed : Nat, quotaEpoch : Nat, updatedAt : Nat]]
    /\ usage \in [Requests -> [quota : Nat, quotaEpoch : Nat, createdAt : Nat]]
    /\ pref \in [enabled : BOOLEAN, resetCount : Nat]
    /\ overtaken \in BOOLEAN

\* The requests whose usage counts in the epoch of the row s.
EpochRequests(u, s) == {r \in Requests : HasUsage(u, r) /\ u[r].quotaEpoch = s.quotaEpoch}

\* AmountUsed of the subscription row is exactly the quota of the usage
\* records of the current epoch.  The stabilization spec demands it of every
\* path, tasks included; an adjustment that writes no record breaks it.
AmountUsedMatchesUsage == sub.amountUsed = QuotaOf(usage, EpochRequests(usage, sub))

\* Nothing but those adjustments takes AmountUsed away from the usage records
\* of the current epoch, and they by no more than they charged or gave back
\* in this epoch: no reserve, settle, refund or reset, in any order, loses or
\* double counts a request, nor does a clamp at zero.
LedgerOffByAdjustmentsOnly ==
    LET recorded == QuotaOf(usage, EpochRequests(usage, sub))
    IN  /\ sub.amountUsed <= recorded + sub.charged
        /\ recorded <= sub.amountUsed + sub.credited

\* The package is never used beyond its total.
NeverOverTotal == sub.amountUsed <= AmountTotal

\* The 7-day stage limit, as the design states it.  A transaction that read
\* the clock, then waited for the row lock while a later one wrote its usage,
\* does not count that usage and breaks it.
SevenDayLimitHolds == Limit7d > 0 => Used7d(usage, sub, now) <= Limit7d

\* As long as no usage was ever written with a time earlier than a record it
\* had to count, the 7-day stage is within its limit at every moment, not only
\* when it is checked: lock waits that reorder nothing, resets, renewals and
\* the end of a stage do no harm.
SevenDayLimitUnlessOvertaken == overtaken \/ SevenDayLimitHolds

\* While no usage was written with a time earlier than a record it had to
\* count, the 5-hour limit is only ever overrun by giving quota back: refunding
\* the request that opened a window moves the window to a later record.  No
\* admission, top-up of a reservation, reset, renewal or passage of time takes
\* the package over it; the check before a write agrees with the window after.
OnlyAReleaseOverrunsFiveHours ==
    [][(/\ Limit5h > 0
        /\ ~overtaken'
        /\ Used5h(usage, sub, now) <= Limit5h
        /\ \A r \in Requests : usage'[r].quota >= usage[r].quota)
       => Used5h(usage, sub, now)' <= Limit5h]_vpVars

\* A request belongs to the epoch that admitted it: settling or refunding it
\* after a reset leaves the new epoch's AmountUsed alone.
LateRequestsLeaveNewEpochAlone ==
    [][\A r \in Requests :
          (HasUsage(usage, r) /\ usage[r].quotaEpoch < sub.quotaEpoch
             /\ usage'[r] # usage[r])
          => sub'.amountUsed \in {0, sub.amountUsed}]_vpVars
============================================================================
