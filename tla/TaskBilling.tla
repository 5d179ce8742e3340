----------------------------- MODULE TaskBilling -----------------------------
(***************************************************************************)
(* Asynchronous tasks (video, music) and what they cost.  A request        *)
(* pre-consumes quota, submits the task upstream, inserts a row in table   *)
(* tasks and settles.  Much later a polling loop reads the unfinished      *)
(* rows, asks upstream, moves the row to SUCCESS or FAILURE and then       *)
(* adjusts or gives back the quota.  A sweep ends tasks that run too long. *)
(* A user who asks for a Gemini or Vertex task makes the server ask        *)
(* upstream and update the row as well.  Each action is one database       *)
(* statement or transaction, or one decision between two of them.          *)
(*                                                                         *)
(* Balances are changed by increments only, so the wallet and the token    *)
(* are modelled by what each task has taken from them.                     *)
(***************************************************************************)
EXTENDS Integers, FiniteSets, FiniteSetsExt

CONSTANTS
    Tasks,         \* submissions
    Suno,          \* those of platform suno
    Realtime,      \* those on a Gemini or Vertex channel
    OnPackage,     \* those paid from the user's value package
    PerCall,       \* BillingContext.PerCallBilling
    Legacy,        \* SubmitTime before legacyTaskCutoff
    Pollers,       \* instances that run TaskPollingLoop
    Estimate,      \* quota pre-consumed
    Quotas,        \* result.Quota after submission
    ActualQuotas,  \* results of AdjustBillingOnComplete or of the token count
    AmountTotal,   \* AmountTotal of the value package
    MaxFaults,     \* bound on failed writes and stopped processes
    MaxQueries,    \* bound on a user's queries for one realtime task
    MaxSubmitted,  \* bound on the tasks submitted in one behaviour
    NoRow          \* no row, no copy of a row

ASSUME TBConstants ==
    /\ Suno \subseteq Tasks /\ Realtime \subseteq Tasks \ Suno
    /\ OnPackage \subseteq Tasks /\ PerCall \subseteq Tasks /\ Legacy \subseteq Tasks
    /\ Estimate \in Nat /\ Quotas \subseteq Nat /\ ActualQuotas \subseteq Nat \ {0}
    /\ AmountTotal \in Nat /\ MaxFaults \in Nat /\ MaxQueries \in Nat /\ MaxSubmitted \in Nat

VARIABLES
    task,       \* the row of each task in table tasks, or NoRow
    stage,      \* where the handler that submits a task is
    up,         \* the state of the task upstream
    late,       \* submit_time is older than TaskTimeoutMinutes
    batch,      \* the rows a poller has read and not yet dealt with
    pc,         \* where a poller is
    fetch,      \* the copy and the answer that tryRealtimeFetch works with
    queries,    \* how often a user asked for a realtime task
    paid,       \* what a task has taken from its user's wallet
    tokenPaid,  \* what it has taken from the token's remain_quota
    used,       \* AmountUsed of the value package
    usage,      \* Quota of the ValuePackageUsageRecord of each task
    refunds,    \* history: completed funding refunds of a task
    due,        \* history: the last amount computed for a task
    faults      \* failed writes and stopped processes so far

submitVars == <<stage, up, late>>
rowVars == <<task, fetch, queries>>
pollVars == <<batch, pc>>
moneyVars == <<paid, tokenPaid, used, usage, refunds, due>>
tbVars == <<submitVars, rowVars, pollVars, moneyVars, faults>>

Terminal == {"SUCCESS", "FAILURE"}
Statuses == {"NOT_START", "IN_PROGRESS"} \cup Terminal

Row == [status : Statuses, full : BOOLEAN, reason : {"", "upstream", "timeout", "channel"},
        quota : Quotas, settleFailed : BOOLEAN]

ASSUME NoRowIsNoRow == NoRow \notin Row \cup [row : Row, answer : Statuses]

\* model.InitTask with the quota of the submission.
NewRow(q) == [status |-> "NOT_START", full |-> FALSE, reason |-> "", quota |-> q,
              settleFailed |-> FALSE]

Exists(t) == task[t] # NoRow

Fault == faults < MaxFaults /\ faults' = faults + 1

----------------------------------------------------------------------------
(* RelayTask: pre-consume, submit, insert, settle.                          *)

\* Mutant: AmountUsed may become negative.
PackageAfterUnclamped(n) == used + n

\* Every update of AmountUsed stops at zero.
PackageAfter(n) == Max({used + n, 0})

\* The package's transactions keep AmountUsed and the usage record together
\* (module ValuePackageQuota); here they are one step.
Fund(t, n) ==
    IF t \in OnPackage
    THEN /\ PackageAfter(n) <= AmountTotal
         /\ used' = PackageAfter(n)
         /\ usage' = [usage EXCEPT ![t] = @ + n]
         /\ UNCHANGED paid
    ELSE paid' = [paid EXCEPT ![t] = @ + n] /\ UNCHANGED <<used, usage>>

PreConsumeBilling(t) ==
    /\ stage[t] = "new"
    /\ Cardinality({u \in Tasks : stage[u] # "new"}) < MaxSubmitted
    /\ Fund(t, Estimate)
    /\ tokenPaid' = [tokenPaid EXCEPT ![t] = Estimate]
    /\ stage' = [stage EXCEPT ![t] = "sent"]
    /\ UNCHANGED <<up, late, rowVars, pollVars, refunds, due, faults>>

\* The upstream call or the insert failed: the deferred Billing.Refund.
SubmitFails(t) ==
    /\ stage[t] = "sent"
    /\ Fund(t, -Estimate)
    /\ tokenPaid' = [tokenPaid EXCEPT ![t] = 0]
    /\ stage' = [stage EXCEPT ![t] = "aborted"]
    /\ UNCHANGED <<up, late, rowVars, pollVars, refunds, due, faults>>

InsertTask(t) ==
    /\ stage[t] = "sent"
    /\ \E q \in Quotas :
          /\ task' = [task EXCEPT ![t] = NewRow(q)]
          /\ due' = [due EXCEPT ![t] = q]
    /\ stage' = [stage EXCEPT ![t] = "inserted"]
    /\ UNCHANGED <<up, late, fetch, queries, pollVars, paid, tokenPaid, used, usage, refunds, faults>>

SettleBilling(t) ==
    /\ stage[t] = "inserted"
    /\ Fund(t, task[t].quota - Estimate)
    /\ tokenPaid' = [tokenPaid EXCEPT ![t] = @ + task[t].quota - Estimate]
    /\ stage' = [stage EXCEPT ![t] = "settled"]
    /\ UNCHANGED <<up, late, rowVars, pollVars, refunds, due, faults>>

SettleBillingFails(t) ==
    /\ stage[t] = "inserted"
    /\ Fault
    /\ stage' = [stage EXCEPT ![t] = "unsettled"]
    /\ UNCHANGED <<up, late, rowVars, pollVars, moneyVars>>

\* task.Update() saves every column of the handler's own copy, which is the
\* row as it was inserted.
SaveAudit(t) ==
    /\ stage[t] = "unsettled"
    /\ task' = [task EXCEPT ![t] = [NewRow(@.quota) EXCEPT !.settleFailed = TRUE]]
    /\ stage' = [stage EXCEPT ![t] = "audited"]
    /\ UNCHANGED <<up, late, fetch, queries, pollVars, moneyVars, faults>>

----------------------------------------------------------------------------
(* The world outside.                                                       *)

\* What upstream says of a task.  Every error body that a video adaptor or
\* the poller does not know counts as a failure.
Answers(t) == IF t \in Suno THEN {up[t]} ELSE {up[t], "FAILURE"}

UpstreamEnds(t) ==
    /\ stage[t] \notin {"new", "aborted"}
    /\ up[t] = "IN_PROGRESS"
    /\ \E s \in Terminal : up' = [up EXCEPT ![t] = s]
    /\ UNCHANGED <<stage, late, rowVars, pollVars, moneyVars, faults>>

TimesOut(t) ==
    /\ Exists(t) /\ ~late[t]
    /\ late' = [late EXCEPT ![t] = TRUE]
    /\ UNCHANGED <<stage, up, rowVars, pollVars, moneyVars, faults>>

----------------------------------------------------------------------------
(* Pollers.  pc[p].mode is the phase of the loop, pc[p].step what the       *)
(* poller does next with pc[p].task.                                        *)

NoTask == "none"

At(mode, step, t, answer, kind, delta) ==
    [mode |-> mode, step |-> step, task |-> t, answer |-> answer, kind |-> kind, delta |-> delta]

Places == [mode : {"idle", "sweep", "poll"}, step : {"next", "commit", "fund", "token", "save"},
           task : Tasks \cup {NoTask}, answer : Statuses \cup {""},
           kind : {"", "refund", "settle"}, delta : Int]

Idle == At("idle", "next", NoTask, "", "", 0)

NoRows == [t \in Tasks |-> NoRow]

Pending(p) == {t \in Tasks : batch[p][t] # NoRow}

\* Mutant: a task that has started is not read again.
UnfinishedNotStarted(t) == Exists(t) /\ ~task[t].full /\ task[t].status = "NOT_START"

Unfinished(t) == Exists(t) /\ ~task[t].full /\ task[t].status \notin Terminal

RowsWhere(S) == [t \in Tasks |-> IF t \in S THEN task[t] ELSE NoRow]

Goto(p, there) == pc' = [pc EXCEPT ![p] = there]

\* The poller is through with task t of its batch.
Through(p, t) ==
    /\ Goto(p, At(pc[p].mode, "next", NoTask, "", "", 0))
    /\ batch' = [batch EXCEPT ![p][t] = NoRow]

GetTimedOutUnfinishedTasks(p) ==
    /\ pc[p].mode = "idle"
    /\ batch' = [batch EXCEPT ![p] = RowsWhere({t \in Tasks : Unfinished(t) /\ late[t]})]
    /\ Goto(p, At("sweep", "next", NoTask, "", "", 0))
    /\ UNCHANGED <<submitVars, rowVars, moneyVars, faults>>

GetAllUnFinishSyncTasks(p) ==
    /\ pc[p].mode = "sweep" /\ pc[p].step = "next"
    /\ Pending(p) = {}
    /\ batch' = [batch EXCEPT ![p] = RowsWhere({t \in Tasks : Unfinished(t)})]
    /\ Goto(p, At("poll", "next", NoTask, "", "", 0))
    /\ UNCHANGED <<submitVars, rowVars, moneyVars, faults>>

Sleep(p) ==
    /\ pc[p].mode = "poll" /\ pc[p].step = "next"
    /\ Pending(p) = {}
    /\ Goto(p, Idle)
    /\ UNCHANGED <<submitVars, rowVars, batch, moneyVars, faults>>

\* Mutant: the update is not guarded by the status.
WinsAlways(t, from) == Exists(t) /\ from \in Statuses

\* UpdateWithStatus matches the row only while it has the status from.
Wins(t, from) == task[t].status = from

\* What RefundTaskQuota does next with a copy r of the row.
RefundStep(p, t, r) ==
    IF r.quota = 0
    THEN Through(p, t)
    ELSE /\ Goto(p, At(pc[p].mode, "fund", t, "", "refund", -r.quota))
         /\ UNCHANGED batch

SweepTask(p) ==
    /\ pc[p].mode = "sweep" /\ pc[p].step = "next"
    /\ \E t \in Pending(p) :
          LET r == batch[p][t]
          IN  IF Wins(t, r.status)
              THEN /\ task' = [task EXCEPT ![t] = [r EXCEPT !.status = "FAILURE",
                                                   !.full = TRUE, !.reason = "timeout"]]
                   /\ IF t \in Legacy THEN Through(p, t) ELSE RefundStep(p, t, r)
              ELSE Through(p, t) /\ UNCHANGED task
    /\ UNCHANGED <<submitVars, fetch, queries, moneyVars, faults>>

\* The statement of SweepTask or of a commit fails.
UpdateFails(p) ==
    /\ \/ pc[p].mode = "sweep" /\ pc[p].step = "next"
             /\ \E t \in Pending(p) : Through(p, t)
       \/ pc[p].step = "commit" /\ pc[p].task \notin Suno /\ Through(p, pc[p].task)
       \/ pc[p].step = "save" /\ Through(p, pc[p].task)
    /\ Fault
    /\ UNCHANGED <<submitVars, rowVars, moneyVars>>

\* The channel of the tasks S is gone, or they have no upstream id.
TaskBulkUpdateByID(p) ==
    /\ pc[p].mode = "poll" /\ pc[p].step = "next"
    /\ \E S \in SUBSET Pending(p) \ {{}} :
          /\ task' = [t \in Tasks |-> IF t \in S
                                      THEN [task[t] EXCEPT !.status = "FAILURE", !.full = TRUE,
                                                           !.reason = "channel"]
                                      ELSE task[t]]
          /\ batch' = [batch EXCEPT ![p] = [t \in Tasks |-> IF t \in S THEN NoRow ELSE @[t]]]
    /\ UNCHANGED <<submitVars, fetch, queries, pc, moneyVars, faults>>

\* Ask upstream: no usable answer (a network error, a 429), or an answer.
FetchTask(p) ==
    /\ pc[p].mode = "poll" /\ pc[p].step = "next"
    /\ \E t \in Pending(p) :
          \/ Through(p, t)
          \/ /\ \E a \in Answers(t) : Goto(p, At("poll", "commit", t, a, "", 0))
             /\ UNCHANGED batch
    /\ UNCHANGED <<submitVars, rowVars, moneyVars, faults>>

\* The copy with the answer written into it; done when the answer itself
\* reports a progress of 100%, which it may do in any status.
Answered(r, a, done) ==
    [r EXCEPT !.status = a, !.full = done \/ a \in Terminal,
              !.reason = IF a = "FAILURE" THEN "upstream" ELSE @]

\* Mutant: a task billed per call is adjusted as well.
ActualsAlways(t) == ActualQuotas \cup {0}

\* settleTaskBillingOnComplete: 0 stands for no adjustment.
Actuals(t) == IF t \in PerCall THEN {0} ELSE ActualQuotas \cup {0}

\* Mutant: the whole amount is taken again.
SettleStepWhole(p, t, r) ==
    \E a \in Actuals(t) :
       IF a = 0 \/ a = r.quota
       THEN Through(p, t) /\ UNCHANGED due
       ELSE /\ Goto(p, At("poll", "fund", t, "", "settle", a))
            /\ due' = [due EXCEPT ![t] = a]
            /\ UNCHANGED batch

\* RecalculateTaskQuota up to its first write.
SettleStep(p, t, r) ==
    \E a \in Actuals(t) :
       IF a = 0 \/ a = r.quota
       THEN Through(p, t) /\ UNCHANGED due
       ELSE /\ Goto(p, At("poll", "fund", t, "", "settle", a - r.quota))
            /\ due' = [due EXCEPT ![t] = a]
            /\ UNCHANGED batch

\* Mutant: only the final update is guarded by the status.
UpdateProgressUnguarded(p) ==
    LET t == pc[p].task
        r == batch[p][t]
        a == pc[p].answer
    IN  /\ pc[p].step = "commit" /\ t \notin Suno
        /\ IF Wins(t, r.status) \/ a \notin Terminal
           THEN /\ \E done \in BOOLEAN : task' = [task EXCEPT ![t] = Answered(r, a, done)]
                /\ IF a = "SUCCESS" THEN SettleStep(p, t, r)
                   ELSE /\ UNCHANGED due
                        /\ IF a = "FAILURE" THEN RefundStep(p, t, r) ELSE Through(p, t)
           ELSE Through(p, t) /\ UNCHANGED <<task, due>>
        /\ UNCHANGED <<submitVars, fetch, queries, paid, tokenPaid, used, usage, refunds, faults>>

updateVideoSingleTask(p) ==
    LET t == pc[p].task
        r == batch[p][t]
        a == pc[p].answer
    IN  /\ pc[p].step = "commit" /\ t \notin Suno
        /\ IF Wins(t, r.status)
           THEN /\ \E done \in BOOLEAN : task' = [task EXCEPT ![t] = Answered(r, a, done)]
                /\ IF a = "SUCCESS" THEN SettleStep(p, t, r)
                   ELSE /\ UNCHANGED due
                        /\ IF a = "FAILURE" THEN RefundStep(p, t, r) ELSE Through(p, t)
           ELSE Through(p, t) /\ UNCHANGED <<task, due>>
        /\ UNCHANGED <<submitVars, fetch, queries, paid, tokenPaid, used, usage, refunds, faults>>

\* For Suno the refund comes first and the row is saved afterwards.  An answer
\* with a fail_reason counts as a failure whatever its status is.
updateSunoTasks(p) ==
    LET t == pc[p].task
        r == batch[p][t]
        a == pc[p].answer
    IN  /\ pc[p].step = "commit" /\ t \in Suno
        /\ \E hasReason \in BOOLEAN :
              LET failed == hasReason \/ a = "FAILURE"
              IN  /\ batch' = [batch EXCEPT ![p][t] =
                                  [Answered(r, a, failed) EXCEPT
                                      !.reason = IF failed THEN "upstream" ELSE @]]
                  /\ Goto(p, IF failed /\ r.quota # 0
                             THEN At("poll", "fund", t, "", "refund", -r.quota)
                             ELSE At("poll", "save", t, "", "", 0))
        /\ UNCHANGED <<submitVars, rowVars, moneyVars, faults>>

SaveSuno(p) ==
    LET t == pc[p].task
    IN  /\ pc[p].step = "save"
        /\ task' = [task EXCEPT ![t] = batch[p][t]]
        /\ Through(p, t)
        /\ UNCHANGED <<submitVars, fetch, queries, moneyVars, faults>>

\* Where a poller goes when the adjustment of its task is over.
AfterAdjustment(p) ==
    LET t == pc[p].task
    IN  IF t \in Suno /\ pc[p].mode = "poll"
        THEN Goto(p, At("poll", "save", t, "", "", 0)) /\ UNCHANGED batch
        ELSE Through(p, t)

\* For a package PostConsumeUserSubscriptionDelta, which changes AmountUsed alone.
taskAdjustFunding(p) ==
    LET t == pc[p].task
        d == pc[p].delta
    IN  /\ pc[p].step = "fund"
        /\ IF t \in OnPackage /\ PackageAfter(d) > AmountTotal
           THEN AfterAdjustment(p) /\ UNCHANGED <<paid, used, refunds>>
           ELSE /\ IF t \in OnPackage
                   THEN used' = PackageAfter(d) /\ UNCHANGED paid
                   ELSE paid' = [paid EXCEPT ![t] = @ + d] /\ UNCHANGED used
                /\ refunds' = [refunds EXCEPT ![t] = @ + (IF pc[p].kind = "refund" THEN 1 ELSE 0)]
                /\ pc' = [pc EXCEPT ![p].step = "token"]
                /\ UNCHANGED batch
        /\ UNCHANGED <<submitVars, rowVars, tokenPaid, usage, due, faults>>

taskAdjustTokenQuota(p) ==
    /\ pc[p].step = "token"
    /\ tokenPaid' = [tokenPaid EXCEPT ![pc[p].task] = @ + pc[p].delta]
    /\ AfterAdjustment(p)
    /\ UNCHANGED <<submitVars, rowVars, paid, used, usage, refunds, due, faults>>

\* A failed adjustment is only logged, as is one for a deleted token.
AdjustmentFails(p) ==
    /\ pc[p].step \in {"fund", "token"}
    /\ Fault
    /\ AfterAdjustment(p)
    /\ UNCHANGED <<submitVars, rowVars, moneyVars>>

\* The process stops; its successor starts the loop from the beginning.
Crash(p) ==
    /\ pc[p].mode # "idle"
    /\ Fault
    /\ batch' = [batch EXCEPT ![p] = NoRows]
    /\ Goto(p, Idle)
    /\ UNCHANGED <<submitVars, rowVars, moneyVars>>

----------------------------------------------------------------------------
(* tryRealtimeFetch: it reads the row whatever its status is.               *)

RealtimeFetch(t) ==
    /\ t \in Realtime /\ Exists(t) /\ fetch[t] = NoRow
    /\ queries[t] < MaxQueries
    /\ queries' = [queries EXCEPT ![t] = @ + 1]
    /\ \E a \in Answers(t) : fetch' = [fetch EXCEPT ![t] = [row |-> task[t], answer |-> a]]
    /\ UNCHANGED <<submitVars, task, pollVars, moneyVars, faults>>

RealtimeUpdate(t) ==
    /\ fetch[t] # NoRow
    /\ LET r == fetch[t].row
           a == fetch[t].answer
       IN  task' = IF Wins(t, r.status)
                   THEN [task EXCEPT ![t] = [r EXCEPT !.status = a, !.full = a \in Terminal]]
                   ELSE task
    /\ fetch' = [fetch EXCEPT ![t] = NoRow]
    /\ UNCHANGED <<submitVars, queries, pollVars, moneyVars, faults>>

----------------------------------------------------------------------------

TBInit ==
    /\ task = NoRows
    /\ stage = [t \in Tasks |-> "new"]
    /\ up = [t \in Tasks |-> "IN_PROGRESS"]
    /\ late = [t \in Tasks |-> FALSE]
    /\ batch = [p \in Pollers |-> NoRows]
    /\ pc = [p \in Pollers |-> Idle]
    /\ fetch = [t \in Tasks |-> NoRow]
    /\ queries = [t \in Tasks |-> 0]
    /\ paid = [t \in Tasks |-> 0]
    /\ tokenPaid = [t \in Tasks |-> 0]
    /\ used = 0
    /\ usage = [t \in Tasks |-> 0]
    /\ refunds = [t \in Tasks |-> 0]
    /\ due = [t \in Tasks |-> 0]
    /\ faults = 0

PollerStep(p) ==
    \/ GetTimedOutUnfinishedTasks(p) \/ SweepTask(p)
    \/ GetAllUnFinishSyncTasks(p) \/ FetchTask(p) \/ Sleep(p)
    \/ updateVideoSingleTask(p) \/ updateSunoTasks(p) \/ SaveSuno(p)
    \/ taskAdjustFunding(p) \/ taskAdjustTokenQuota(p)

HandlerStep(t) == SettleBilling(t) \/ SaveAudit(t)

TBNext ==
    \/ \E t \in Tasks :
          \/ PreConsumeBilling(t) \/ SubmitFails(t) \/ InsertTask(t)
          \/ SettleBillingFails(t) \/ HandlerStep(t)
          \/ UpstreamEnds(t) \/ TimesOut(t)
          \/ RealtimeFetch(t) \/ RealtimeUpdate(t)
    \/ \E p \in Pollers :
          \/ PollerStep(p) \/ TaskBulkUpdateByID(p)
          \/ UpdateFails(p) \/ AdjustmentFails(p) \/ Crash(p)

TBSpec == TBInit /\ [][TBNext]_tbVars

\* The loop of a poller goes on, handlers run to their end, and time passes.
TBFairness ==
    /\ \A p \in Pollers : WF_tbVars(PollerStep(p))
    /\ \A t \in Tasks : WF_tbVars(HandlerStep(t)) /\ WF_tbVars(TimesOut(t))

TBFairSpec == TBSpec /\ TBFairness

----------------------------------------------------------------------------
(* Properties.                                                              *)

TBTypeOK ==
    /\ task \in [Tasks -> Row \cup {NoRow}]
    /\ stage \in [Tasks -> {"new", "sent", "aborted", "inserted", "settled", "unsettled", "audited"}]
    /\ up \in [Tasks -> Statuses \ {"NOT_START"}]
    /\ late \in [Tasks -> BOOLEAN]
    /\ batch \in [Pollers -> [Tasks -> Row \cup {NoRow}]]
    /\ pc \in [Pollers -> Places]
    /\ \A p \in Pollers : pc[p].step # "next" => pc[p].task \in Pending(p)
    /\ fetch \in [Tasks -> [row : Row, answer : Statuses] \cup {NoRow}]
    /\ paid \in [Tasks -> Int] /\ tokenPaid \in [Tasks -> Int]
    /\ used \in 0 .. AmountTotal /\ usage \in [Tasks -> Nat] /\ queries \in [Tasks -> 0 .. MaxQueries]
    /\ refunds \in [Tasks -> Nat] /\ due \in [Tasks -> Nat] /\ faults \in 0 .. MaxFaults

\* The tasks whose row is only moved to SUCCESS or FAILURE by an update
\* guarded by its status.
Guarded(t) ==
    t \notin Suno \cup Realtime /\ stage[t] \notin {"unsettled", "audited"}

\* Nobody is at work on a task that its handler has settled.
Quiet(t) ==
    /\ stage[t] = "settled"
    /\ \A p \in Pollers : pc[p].task # t

\* A guarded task is refunded at most once, however many pollers and sweeps
\* have read its row before one of them ends it.
GuardedRefundOnce == \A t \in Tasks : Guarded(t) => refunds[t] <= 1

\* Nobody gets both: a guarded task that was refunded never shows a result.
RefundOrResult ==
    \A t \in Tasks : Guarded(t) /\ refunds[t] > 0 => task[t].status = "FAILURE"

\* When no write fails, what a guarded task has cost its wallet and token in the
\* end is nothing if it failed upstream or timed out, and if it succeeded the
\* amount last computed for it, at submission or from its result.
FinalTaskBill ==
    \A t \in Tasks :
       faults = 0 /\ Guarded(t) /\ t \notin OnPackage /\ Quiet(t) =>
          /\ task[t].status = "SUCCESS" => paid[t] = due[t] /\ tokenPaid[t] = due[t]
          /\ task[t].status = "FAILURE" /\ task[t].reason # "channel" /\ t \notin Legacy
                => paid[t] = 0 /\ tokenPaid[t] = 0

\* A task billed per call never costs more than its price at submission,
\* whatever its result says and whoever updates the row.
PerCallPriceIsFinal ==
    \A t \in PerCall \ OnPackage :
       Exists(t) /\ stage[t] = "settled" => paid[t] <= task[t].quota

\* Every inserted task comes to rest for good, at the latest by its timeout, on
\* all platforms without realtime queries: it has ended, or upstream reported
\* 100% for it, after which neither the loop nor the sweep reads it again.
EveryTaskEnds ==
    \A t \in Tasks \ Realtime :
       Exists(t) ~> [](Exists(t) /\ (task[t].full \/ task[t].status \in Terminal))

\* As the tests of the guarded update say: there is no double refund, on any
\* platform.
NoDoubleRefund == \A t \in Tasks : refunds[t] <= 1
=============================================================================
