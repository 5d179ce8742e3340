------------------------- MODULE MidjourneyBilling -------------------------
(***************************************************************************)
(* Midjourney tasks and their refunds.  A request pre-consumes quota,      *)
(* submits the task upstream and inserts a row with a snapshot of what it  *)
(* took (its BillingContext).  The loops of the master nodes read the      *)
(* unfinished rows every 15 seconds and ask upstream.  Whoever finds that  *)
(* a task failed, a loop or the request's own handler, runs                *)
(* CommitMidjourneyTaskUpdate: it moves the row to REFUND_PENDING by       *)
(* compare-and-swap, gives back the funding and the token quota in         *)
(* transactions of their own, each once by a flag in the row, and then     *)
(* shows progress 100%.  A row found in REFUND_PENDING is taken up where   *)
(* another worker left it.                                                 *)
(*                                                                         *)
(* Balances change by increments only; they are modelled by what each task *)
(* has taken.  The billing session up to the insert is one step here       *)
(* (module BillingSession has its steps).                                  *)
(***************************************************************************)
EXTENDS Integers

CONSTANTS
    Tasks,      \* submissions
    Pollers,    \* master nodes that run UpdateMidjourneyTaskBulk
    Bills,      \* the charges of the requests
    MaxFaults,  \* bound on failed calls and stopped processes
    NoRow       \* no row, no copy of a row

Workers == Pollers \cup Tasks   \* the handler of a request is named by its task

Statuses == {"", "RUNNING", "SUCCESS", "FAILURE"}
Progresses == {"0%", "part", "REFUND_PENDING", "100%"}

\* A row of table midjourneys.  hasId: upstream returned an MjId.
Row == [status : Statuses, progress : Progresses, hasId : BOOLEAN,
        fundingRefunded : BOOLEAN, tokenRefunded : BOOLEAN, billingRefunded : BOOLEAN]

\* The snapshot of the billing session; a playground request takes no token quota.
Bill == [source : {"wallet", "subscription"}, funding : Nat, token : Nat]

ASSUME MBConstants ==
    /\ Bills \subseteq Bill /\ MaxFaults \in Nat
    /\ Pollers \cap Tasks = {}
    /\ NoRow \notin Row \cup Bills \cup [status : Statuses, progress : Progresses, hasId : BOOLEAN]

VARIABLES
    stage,      \* where the handler of a request is
    bill,       \* what the request pre-consumed
    row,        \* its row, or NoRow
    up,         \* the state of the task upstream
    late,       \* an hour has passed since SubmitTime
    batch,      \* the copies of rows a worker has and not yet dealt with
    work,       \* the CommitMidjourneyTaskUpdate a worker is in
    paid,       \* what the task has taken from its funding source
    tokenPaid,  \* what it has taken from the token
    record,     \* status of the subscription's pre-consume record
    tokenGone,  \* the token was deleted
    faults      \* failed calls and stopped processes so far

moneyVars == <<paid, tokenPaid, record>>
worldVars == <<up, late, tokenGone>>
mbVars == <<stage, bill, row, worldVars, batch, work, moneyVars, faults>>

Exists(t) == row[t] # NoRow

\* Mutant: a row left in REFUND_PENDING counts as finished.
UnfinishedRunning(t) == Exists(t) /\ row[t].progress \notin {"REFUND_PENDING", "100%"}

Unfinished(t) == Exists(t) /\ row[t].progress # "100%"

Fault == faults < MaxFaults /\ faults' = faults + 1

Idle == [step |-> "idle"]

Steps == {"read", "cas", "fund", "mark", "token", "complete"}

\* The arguments and locals of a call of CommitMidjourneyTaskUpdate.
Work == [step : Steps, task : Tasks, pre : Statuses, status : Statuses,
         progress : Progresses, refund : BOOLEAN, from : Progresses, done : BOOLEAN]

\* HasRefundableQuota.
Refundable(t) == bill[t].funding > 0 \/ bill[t].token > 0

\* Of a copy only these fields are used: the refund works with the stored flags.
Copies == [status : Statuses, progress : Progresses, hasId : BOOLEAN]

Copy(r) == [status |-> r.status, progress |-> r.progress, hasId |-> r.hasId]

Commit(t, pre, status, progress, refund) ==
    [step |-> "read", task |-> t, pre |-> pre, status |-> status, progress |-> progress,
     refund |-> refund, from |-> "0%", done |-> FALSE]

\* Worker w puts its copy of the row of t away.
Skip(w, t) == batch' = [batch EXCEPT ![w][t] = NoRow]

----------------------------------------------------------------------------
(* RelayMidjourneySubmit and RelaySwapFace.                                 *)

prepareMidjourneyBilling(t) ==
    /\ stage[t] = "new"
    /\ \E b \in Bills :
          /\ bill' = [bill EXCEPT ![t] = b]
          /\ paid' = [paid EXCEPT ![t] = b.funding]
          /\ tokenPaid' = [tokenPaid EXCEPT ![t] = b.token]
          /\ record' = [record EXCEPT ![t] = IF b.source = "subscription" /\ b.funding > 0
                                             THEN "consumed" ELSE @]
    /\ stage' = [stage EXCEPT ![t] = "sent"]
    /\ UNCHANGED <<row, worldVars, batch, work, faults>>

\* No answer from upstream, or the insert failed: the billing session refunds.
refundUnsettledMidjourneyBilling(t) ==
    /\ stage[t] = "sent"
    /\ paid' = [paid EXCEPT ![t] = 0]
    /\ tokenPaid' = [tokenPaid EXCEPT ![t] = 0]
    /\ record' = [record EXCEPT ![t] = IF @ = "consumed" THEN "refunded" ELSE @]
    /\ stage' = [stage EXCEPT ![t] = "done"]
    /\ UNCHANGED <<bill, row, worldVars, batch, work, faults>>

\* The rows an answer of upstream leads to: accepted or queued, with or
\* without an id when it was rejected, known already (code 21) in any status,
\* or complete at once (code 21 with SUCCESS, an upload).
NewRow(s, p, i) == [status |-> s, progress |-> p, hasId |-> i, fundingRefunded |-> FALSE,
                    tokenRefunded |-> FALSE, billingRefunded |-> FALSE]
NewRows == {NewRow("", "0%", TRUE), NewRow("", "0%", FALSE), NewRow("RUNNING", "0%", TRUE),
            NewRow("FAILURE", "0%", TRUE), NewRow("SUCCESS", "100%", TRUE)}

Insert(t) ==
    /\ stage[t] = "sent"
    /\ \E r \in NewRows :
          /\ row' = [row EXCEPT ![t] = r]
          /\ batch' = [batch EXCEPT ![t][t] = Copy(r)]
    /\ stage' = [stage EXCEPT ![t] = "inserted"]
    /\ UNCHANGED <<bill, worldVars, work, moneyVars, faults>>

\* The charge is what was pre-consumed, so settling moves no quota.
Settle(t) ==
    /\ stage[t] = "inserted"
    /\ stage' = [stage EXCEPT ![t] = "done"]
    /\ Skip(t, t)
    /\ UNCHANGED <<bill, row, worldVars, work, moneyVars, faults>>

\* Mutant: the deferred refund does not ask whether the row was inserted.
refundAnyMidjourneyBilling(t) ==
    /\ stage[t] \in {"sent", "inserted"}
    /\ work' = [work EXCEPT ![t] = Commit(t, "", "FAILURE", "100%", Refundable(t))]
    /\ stage' = [stage EXCEPT ![t] = "done"]
    /\ Skip(t, t)
    /\ UNCHANGED <<bill, row, worldVars, moneyVars, faults>>

\* Rejected upstream, or copying the answer or settling failed.  The handler
\* works with the row as it inserted it, whatever became of it since.
refundInsertedMidjourneyBilling(t) ==
    /\ stage[t] = "inserted"
    /\ work' = [work EXCEPT ![t] = Commit(t, batch[t][t].status, "FAILURE", "100%", Refundable(t))]
    /\ stage' = [stage EXCEPT ![t] = "done"]
    /\ Skip(t, t)
    /\ UNCHANGED <<bill, row, worldVars, moneyVars, faults>>

----------------------------------------------------------------------------
(* The world outside, for as long as its task is not finished: nobody looks *)
(* at it later.  Upstream keeps reporting every task it accepted.           *)

UpstreamEnds(t) ==
    /\ Unfinished(t) /\ up[t] = "RUNNING"
    /\ \E s \in {"SUCCESS", "FAILURE"} : up' = [up EXCEPT ![t] = s]
    /\ UNCHANGED <<stage, bill, row, late, tokenGone, batch, work, moneyVars, faults>>

AnHourPasses(t) ==
    /\ Unfinished(t) /\ ~late[t]
    /\ late' = [late EXCEPT ![t] = TRUE]
    /\ UNCHANGED <<stage, bill, row, up, tokenGone, batch, work, moneyVars, faults>>

DeleteToken(t) ==
    /\ Unfinished(t) /\ ~tokenGone[t] /\ bill[t].token > 0
    /\ tokenGone' = [tokenGone EXCEPT ![t] = TRUE]
    /\ UNCHANGED <<stage, bill, row, up, late, batch, work, moneyVars, faults>>

----------------------------------------------------------------------------
(* UpdateMidjourneyTaskBulk.                                                *)

NoRows == [t \in Tasks |-> NoRow]

Pending(p) == {t \in Tasks : batch[p][t] # NoRow}

GetAllUnFinishTasks(p) ==
    /\ work[p] = Idle /\ Pending(p) = {}
    /\ batch' = [batch EXCEPT ![p] = [t \in Tasks |-> IF Unfinished(t) THEN Copy(row[t]) ELSE NoRow]]
    /\ UNCHANGED <<stage, bill, row, worldVars, work, moneyVars, faults>>

\* What the list of upstream says of a task.
Answers(t) ==
    CASE up[t] = "RUNNING" -> {[status |-> "RUNNING", progress |-> "part", reason |-> FALSE]}
      [] up[t] = "SUCCESS" -> {[status |-> "SUCCESS", progress |-> "100%", reason |-> FALSE]}
      [] up[t] = "FAILURE" -> {[status |-> "FAILURE", progress |-> "100%", reason |-> FALSE],
                               [status |-> "FAILURE", progress |-> "part", reason |-> TRUE],
                               [status |-> "FAILURE", progress |-> "part", reason |-> FALSE]}

\* After an hour an unfinished task counts as failed, whatever upstream says.
Judged(t, a) == IF late[t] THEN [a EXCEPT !.status = "FAILURE", !.reason = TRUE] ELSE a

checkMjTaskNeedUpdate(copy, a) ==
    copy.status # a.status \/ copy.progress # a.progress \/ a.reason

Failed(a) ==
    IF a.progress = "100%" THEN a.status = "FAILURE" ELSE a.reason

\* No MjId, or its channel is gone: the task has failed.
FailTask(p) ==
    /\ work[p] = Idle
    /\ \E t \in Pending(p) :
          /\ Skip(p, t)
          /\ work' = [work EXCEPT ![p] =
                         Commit(t, batch[p][t].status, "FAILURE", "100%", Refundable(t))]
    /\ UNCHANGED <<stage, bill, row, worldVars, moneyVars, faults>>

\* The list of upstream has arrived: the next task of the batch.
UpdateTask(p) ==
    /\ work[p] = Idle
    /\ \E t \in Pending(p) :
          /\ batch[p][t].hasId
          /\ Skip(p, t)
          /\ \E b \in Answers(t) :
               LET a == Judged(t, b)
                   fails == Failed(a)
               IN  work' = IF checkMjTaskNeedUpdate(batch[p][t], a)
                           THEN [work EXCEPT ![p] =
                                   Commit(t, batch[p][t].status, a.status,
                                          IF fails THEN "100%" ELSE a.progress,
                                          fails /\ Refundable(t))]
                           ELSE work
    /\ UNCHANGED <<stage, bill, row, worldVars, moneyVars, faults>>

\* The channel does not answer.
FetchFails(p) ==
    /\ work[p] = Idle
    /\ \E t \in Pending(p) : batch[p][t].hasId /\ Skip(p, t)
    /\ Fault
    /\ UNCHANGED <<stage, bill, row, worldVars, work, moneyVars>>

----------------------------------------------------------------------------
(* CommitMidjourneyTaskUpdate.                                              *)

Busy(w, step) == work[w] # Idle /\ work[w].step = step

Goto(w, step) == work' = [work EXCEPT ![w].step = step]

Return(w) == work' = [work EXCEPT ![w] = Idle]

\* The refund of a row in REFUND_PENDING, which needs no more of the arguments.
Refund(w, progress, done) ==
    [Commit(work[w].task, "", "", progress, TRUE) EXCEPT !.step = "fund", !.done = done]

\* GetMidjourneyById and the early returns.
CommitRead(w) ==
    /\ Busy(w, "read")
    /\ LET r == row[work[w].task]
       IN  IF r.progress = "REFUND_PENDING"
           THEN work' = [work EXCEPT ![w] = Refund(w, "100%", r.billingRefunded)]
           ELSE IF r.progress = "100%" \/ r.status # work[w].pre
           THEN Return(w)
           ELSE work' = [work EXCEPT ![w].step = "cas", ![w].from = r.progress,
                                     ![w].done = r.billingRefunded]
    /\ UNCHANGED <<stage, bill, row, worldVars, batch, moneyVars, faults>>

\* Mutant: the update is not guarded.
MatchesAlways(w) == work[w].task \in Tasks

\* Mutant: only the status guards the update.
MatchesStatus(w) == row[work[w].task].status = work[w].pre

\* The WHERE clause of UpdateWithStatusAndProgress.
Matches(w) ==
    /\ row[work[w].task].status = work[w].pre
    /\ row[work[w].task].progress = work[w].from

\* The columns it writes: all but billing_context.
Written(w, r) ==
    [r EXCEPT !.status = work[w].status,
              !.progress = IF work[w].refund THEN "REFUND_PENDING" ELSE work[w].progress]

UpdateWithStatusAndProgress(w) ==
    /\ Busy(w, "cas")
    /\ IF Matches(w)
       THEN /\ row' = [row EXCEPT ![work[w].task] = Written(w, @)]
            /\ IF work[w].refund
               THEN work' = [work EXCEPT ![w] = Refund(w, work[w].progress, work[w].done)]
               ELSE Return(w)
       ELSE Return(w) /\ UNCHANGED row
    /\ UNCHANGED <<stage, bill, worldVars, batch, moneyVars, faults>>

\* completeMidjourneyFundingContext.
FundingDone(t, r) ==
    [r EXCEPT !.fundingRefunded = TRUE,
              !.tokenRefunded = @ \/ bill[t].token = 0,
              !.billingRefunded = @ \/ bill[t].token = 0]

\* Mutant: the flag is only looked at in the copy, before the row is locked.
RefundMidjourneyWalletFundingUnlocked(t) ==
    /\ paid' = [paid EXCEPT ![t] = @ - bill[t].funding]
    /\ row' = [row EXCEPT ![t] = FundingDone(t, @)]
    /\ UNCHANGED <<tokenPaid, record>>

\* The row is locked, then the flag checked.
RefundMidjourneyWalletFundingOnce(t) ==
    /\ IF row[t].fundingRefunded
       THEN UNCHANGED <<row, paid>>
       ELSE /\ paid' = [paid EXCEPT ![t] = @ - bill[t].funding]
            /\ row' = [row EXCEPT ![t] = FundingDone(t, @)]
    /\ UNCHANGED <<tokenPaid, record>>

\* By request id, once by the record's status.
RefundSubscriptionPreConsume(t) ==
    IF record[t] = "consumed"
    THEN /\ record' = [record EXCEPT ![t] = "refunded"]
         /\ paid' = [paid EXCEPT ![t] = @ - bill[t].funding]
    ELSE UNCHANGED <<record, paid>>

\* RefundMidjourneyQuota with refundMidjourneyFunding.
refundMidjourneyFunding(w) ==
    LET t == work[w].task
    IN  /\ Busy(w, "fund")
        /\ IF work[w].done
           THEN Goto(w, "complete") /\ UNCHANGED <<row, moneyVars>>
           ELSE IF bill[t].funding = 0
           THEN Goto(w, "mark") /\ UNCHANGED <<row, moneyVars>>
           ELSE IF bill[t].source = "subscription"
           THEN RefundSubscriptionPreConsume(t) /\ Goto(w, "mark") /\ UNCHANGED <<row, tokenPaid>>
           ELSE RefundMidjourneyWalletFundingOnce(t) /\ Goto(w, "token")
        /\ UNCHANGED <<stage, bill, worldVars, batch, faults>>

MarkMidjourneyFundingRefunded(w) ==
    /\ Busy(w, "mark")
    /\ row' = [row EXCEPT ![work[w].task] =
                  IF @.fundingRefunded THEN @ ELSE FundingDone(work[w].task, @)]
    /\ Goto(w, "token")
    /\ UNCHANGED <<stage, bill, worldVars, batch, moneyVars, faults>>

\* Without the token's key this is an error: the row stays in REFUND_PENDING.
refundMidjourneyToken(w) ==
    LET t == work[w].task
    IN  /\ Busy(w, "token")
        /\ IF bill[t].token = 0
           THEN Goto(w, "complete") /\ UNCHANGED <<row, tokenPaid>>
           ELSE IF tokenGone[t]
           THEN Return(w) /\ UNCHANGED <<row, tokenPaid>>
           ELSE /\ Goto(w, "complete")
                /\ IF row[t].tokenRefunded
                   THEN UNCHANGED <<row, tokenPaid>>
                   ELSE /\ tokenPaid' = [tokenPaid EXCEPT ![t] = @ - bill[t].token]
                        /\ row' = [row EXCEPT ![t].tokenRefunded = TRUE,
                                              ![t].billingRefunded = row[t].fundingRefunded]
        /\ UNCHANGED <<stage, bill, worldVars, batch, paid, record, faults>>

CompleteMidjourneyRefundProgress(w) ==
    LET t == work[w].task
    IN  /\ Busy(w, "complete")
        /\ row' = IF row[t].progress = "REFUND_PENDING"
                  THEN [row EXCEPT ![t].progress = work[w].progress] ELSE row
        /\ Return(w)
        /\ UNCHANGED <<stage, bill, worldVars, batch, moneyVars, faults>>

\* A statement of the commit fails and the call returns the error.
CommitFails(w) ==
    /\ work[w] # Idle
    /\ Fault
    /\ Return(w)
    /\ UNCHANGED <<stage, bill, row, worldVars, batch, moneyVars>>

\* A process stops: a loop starts again from nothing, a handler is gone.
Crash(w) ==
    /\ Fault
    /\ \/ /\ w \in Pollers
          /\ batch' = [batch EXCEPT ![w] = NoRows]
          /\ Return(w)
          /\ UNCHANGED stage
       \/ /\ w \in Tasks /\ (stage[w] \in {"sent", "inserted"} \/ work[w] # Idle)
          /\ stage' = [stage EXCEPT ![w] = "done"]
          /\ batch' = [batch EXCEPT ![w] = NoRows]
          /\ Return(w)
    /\ UNCHANGED <<bill, row, worldVars, moneyVars>>

----------------------------------------------------------------------------

MBInit ==
    /\ stage = [t \in Tasks |-> "new"]
    /\ bill = [t \in Tasks |-> NoRow]
    /\ row = NoRows
    /\ up = [t \in Tasks |-> "RUNNING"]
    /\ late = [t \in Tasks |-> FALSE]
    /\ batch = [w \in Workers |-> NoRows]
    /\ work = [w \in Workers |-> Idle]
    /\ paid = [t \in Tasks |-> 0]
    /\ tokenPaid = [t \in Tasks |-> 0]
    /\ record = [t \in Tasks |-> "none"]
    /\ tokenGone = [t \in Tasks |-> FALSE]
    /\ faults = 0

CommitStep(w) ==
    \/ CommitRead(w) \/ UpdateWithStatusAndProgress(w)
    \/ refundMidjourneyFunding(w) \/ MarkMidjourneyFundingRefunded(w)
    \/ refundMidjourneyToken(w) \/ CompleteMidjourneyRefundProgress(w)

LoopStep(p) == GetAllUnFinishTasks(p) \/ UpdateTask(p)

HandlerStep(t) ==
    \/ prepareMidjourneyBilling(t) \/ refundUnsettledMidjourneyBilling(t)
    \/ Insert(t) \/ Settle(t) \/ refundInsertedMidjourneyBilling(t)

WorldStep(t) == UpstreamEnds(t) \/ AnHourPasses(t) \/ DeleteToken(t)

MBNext ==
    \/ \E t \in Tasks : HandlerStep(t) \/ WorldStep(t)
    \/ \E p \in Pollers : LoopStep(p) \/ FailTask(p) \/ FetchFails(p)
    \/ \E w \in Workers : CommitStep(w) \/ CommitFails(w) \/ Crash(w)

MBSpec == MBInit /\ [][MBNext]_mbVars

\* The loops go on (a row without an id is failed at once), a commit runs to
\* its end, and time passes.
MBFairness ==
    /\ \A p \in Pollers : WF_mbVars(LoopStep(p) \/ FailTask(p) \/ CommitStep(p))
    /\ \A t \in Tasks : WF_mbVars(CommitStep(t))
    /\ \A t \in Tasks : WF_mbVars(AnHourPasses(t))

MBFairSpec == MBSpec /\ MBFairness
----------------------------------------------------------------------------
(* Properties.                                                              *)

MBTypeOK ==
    /\ stage \in [Tasks -> {"new", "sent", "inserted", "done"}]
    /\ bill \in [Tasks -> Bills \cup {NoRow}]
    /\ row \in [Tasks -> Row \cup {NoRow}]
    /\ up \in [Tasks -> {"RUNNING", "SUCCESS", "FAILURE"}]
    /\ late \in [Tasks -> BOOLEAN]
    /\ batch \in [Workers -> [Tasks -> Copies \cup {NoRow}]]
    /\ work \in [Workers -> Work \cup {Idle}]
    /\ \A w \in Workers : work[w] # Idle => Exists(work[w].task)
    /\ \A t \in Tasks : Exists(t) => bill[t] # NoRow
    /\ paid \in [Tasks -> Int] /\ tokenPaid \in [Tasks -> Int]
    /\ record \in [Tasks -> {"none", "consumed", "refunded"}]
    /\ tokenGone \in [Tasks -> BOOLEAN]
    /\ faults \in 0 .. MaxFaults

\* Each leg of a refund is paid out once, whoever takes up a refund that another
\* worker has begun, left or still works on: never twice, and both are paid when
\* the row shows its final progress as a failure or has the mark BillingRefunded,
\* which makes every later worker skip the refund.
EachLegOnce ==
    \A t \in Tasks :
       /\ paid[t] >= 0 /\ tokenPaid[t] >= 0
       /\ Exists(t) /\ (\/ row[t].billingRefunded
                        \/ row[t].status = "FAILURE" /\ row[t].progress = "100%")
          => paid[t] = 0 /\ tokenPaid[t] = 0

\* Nobody gets both: a task that shows a result was paid and is not refunded.
DeliveredIsPaid ==
    \A t \in Tasks :
       Exists(t) /\ row[t].status = "SUCCESS"
       => paid[t] = bill[t].funding /\ tokenPaid[t] = bill[t].token

\* A finished row is never written again and a refund under way only goes on
\* to its end, however stale the copies are that loops and handlers hold.
FinishedIsFinal ==
    [][\A t \in Tasks : Exists(t) =>
          /\ row[t].progress = "100%" => row'[t] = row[t]
          /\ row[t].progress = "REFUND_PENDING" =>
                /\ row'[t].status = row[t].status
                /\ row'[t].progress \in {"REFUND_PENDING", "100%"}]_mbVars

Finished(t) == Exists(t) /\ row[t].progress = "100%"

\* Every row comes to its end, refund included, at the latest an hour after it
\* was submitted, unless the token that is owed a refund was deleted.
EveryRowEnds ==
    \A t \in Tasks : Exists(t) ~> (Finished(t) \/ tokenGone[t])
=============================================================================
