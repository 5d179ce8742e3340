# yunbay: TLA+ models of quota, billing and concurrency

yunbay is a relay for language-model APIs: a Go server (derived from new-api)
that authenticates a request by its token, admits it against the user's wallet,
subscription or *value package*, forwards it to an upstream vendor, and settles
what it cost. This directory holds the models of the part in which mistakes
cost money and tests hardly reach: quota that several requests, resets and
failures touch at the same time, and payments that must be credited exactly once.

Every definition names the code it stands for in `PROJECT.json` ("map"). All
source paths below are relative to the repository root.

## Inventory

| Part | State | Operations | Hard behaviour |
| --- | --- | --- | --- |
| Value package quota, `model/subscription.go` | subscription row (AmountUsed, QuotaEpoch, times), usage record and pre-consume record per request, quota resets, preference with reset cards | pre-consume, reserve to target, refund, adjustment by tasks and fees, reset card, renewal, cycle, expiry, admin, clean-up | requests outlive resets; the time is read before the row lock; windows; adjustments that write no usage record |
| Billing session, `service/billing_session.go`, `funding_source.go` | session object per request | pre-consume, realtime reserve, settle, refund goroutine | several writes without a common transaction; failures and crashes between them; a regular subscription is read without a lock and saved whole |
| Balances, `model/user.go`, `model/token.go`, `model/utils.go` | users.quota, tokens.remain_quota, Redis copies, batch maps | conditional and unconditional increments | check-then-act on tokens; deltas lost with the process |
| Concurrency limiter, `middleware/value_package.go` | sync.Map of counters, or a Redis sorted set | acquire, refresh, release | counters removed while in use; slots lost or taken twice |
| Tasks, `service/task_*.go`, `model/task.go`, `relay/relay_task.go` | task rows with a billing snapshot, a poller's copies of them | submit, poll, sweep, query in real time, refund, recalculate | several pollers; stops between a row's update and its refund; adjustment long after submission |
| Midjourney, `service/midjourney_billing.go`, `model/midjourney.go`, `controller/midjourney.go` | rows with a billing snapshot and refund flags, the loops' copies | submit, poll, commit by compare-and-swap, refund in two legs | several loops and the handler; refunds interrupted between their legs |
| Orders, `model/topup.go`, `controller/topup*.go`, `subscription_payment_*.go` | order rows, a map of reference-counted mutexes | create, notify, fail, expire, complete by hand | notifications repeated or lost; reads without a row lock |
| LDXP sessions, `service/ldxp_*.go`, `model/redemption.go` | session rows, mail events, cards | create, claim, show QR, report, mail, verify, credit, cancel, retry | cancel against payment; mail that is late or repeated; crediting in several transactions |
| Affiliate, SVIP, `affiliate.go`, `svip.go` | rewards, withdrawals | reward, withdraw | written with the credit of an order |
| Channel selection and limits | channel caches, rate buckets | select, retry | mostly data |

How they interact: `middleware/value_package.go` admits a request and takes a
slot; `controller/relay.go` creates the billing session, which calls the
transactions of `model/subscription.go` or the balance updates of
`model/user.go` and `model/token.go`; a deferred handler refunds the session
when the relay ended in an error. A background task
(`service/subscription_reset_task.go`) runs cycle resets, expiry and clean-up.
Payment callbacks and redemption codes complete orders, which renew packages.
Two background loops poll asynchronous and Midjourney tasks. A browser worker
and a mail poller, separate programs, report LDXP payments over HTTP. Shared
state is in the database or in Redis; shared memory is the counter map of the
in-process limiter, the map of order mutexes, `ldxpVerifyMu` and the batch maps.

## Modules

| Module | Models |
| --- | --- |
| `QuotaSums` | sums of amounts over a finite set, as the cardinality of a set of units |
| `ValuePackageQuota` | the quota of one value package: each action is one database transaction |
| `BillingSession` | the sessions of one user's requests: each action is one write (or one decision between writes) |
| `SlotLimiter` | abstract specification of a concurrency limiter: a counting semaphore |
| `MemorySlots` | the in-process limiter: each operation on the map or a mutex is an action |
| `RedisSlots` | the shared limiter: each Lua script is atomic, calls may fail |
| `TaskBilling` | asynchronous tasks from submission to refund or recalculation: each action is one statement (or one decision between statements) |
| `PackageLimiter` | the choice between the two limiters |
| `MidjourneyBilling` | Midjourney tasks from submission to the end of their refund: each action is one statement or transaction |
| `PaymentOrders` | orders of the payment providers, their notifications and `LockOrder` |
| `LdxpSessions` | purchases through the LDXP shop, from the session to the credit |
| `MC*` | instances for TLC (symmetry sets, small balances) |
| `QuotaSumsProofs` | lemmas on sums |
| `ValuePackageQuotaProofs`, `BillingSessionProofs`, `PackageLimiterProofs`, `TaskBillingProofs`, `MidjourneyBillingProofs`, `PaymentOrdersProofs`, `LdxpSessionsProofs` | theorems about the module of the same name |

### ValuePackageQuota

`sub` is the UserSubscription row with the `reset_at` values of its resets;
`pre` and `usage` are the SubscriptionPreConsumeRecord and the
ValuePackageUsageRecord of each request; `pref` the owner's preference with the
reset cards; `now` the database clock. The row lock makes a transaction atomic,
and one that returns an error is rolled back, so it is no step. What the lock
does not cover is the time: `now := GetDBTimestamp()` runs before the
transaction, so an action works with a time `at` in `ReadTimes`, which may lag
behind the clock by up to `Lag` ticks while others commit with later times.
`overtaken` is a history variable: it becomes true when a request of a plan with
windows writes usage with a time earlier than a record of the epoch, which the
queries of the windows (`created_at <= now`) then did not count.

`PostConsumeUserSubscriptionDelta` is what the refund and recalculation of
tasks and the violation fees call for a package: it takes the row lock, moves
AmountUsed by a member of `Deltas`, and neither writes a usage record nor
compares an epoch, so the refund of an old task gives to the epoch of the day.
The history fields `charged` and `credited` of the row add up these adjustments
within an epoch, by at most `MaxDrift`.

Rows are looked up by fresh request ids (`FreshRequest`), as the relay makes
them; a settlement or a further reservation comes only while the request is not
refunded (`RequestStep`); everything else is left to chance.

### BillingSession

`ses[s]` is the session object with the place of its goroutine (`pc`); `bal`
what each account has left (for a subscription row, AmountTotal - AmountUsed);
`row` the pre-consume and usage record of the request. `DBError` makes a write
fail without effect; `Ambiguous` reports an error for a refund that was
committed; `Crash` stops the process with all its sessions. `effects` is a
history variable: it records which refunds and settlements took effect, so that
the properties can say what a session still holds.

A regular subscription is pre-consumed in two steps. `PreConsumeUserSubscription`
asks for its lock with `Set("gorm:query_option", "FOR UPDATE")`, which gorm v2
ignores; it reads the row and checks the remainder (`ReadSubscription`), then
saves the row it has read with a higher AmountUsed (`SaveSubscription`). On MySQL
and PostgreSQL other transactions commit in between, and the save overwrites
them; `overwrote` records the sessions to which this happened. Settlements,
reservations and refunds lock the row (`withUpdateLock`) and are single steps.
An AmountTotal of 0 means no limit (`Unlimited`).

A value package may refuse at any time (`MayRefuse`): its windows and its expiry
are the business of `ValuePackageQuota`. Costs of the same request on different
funding sources differ by ratios in the code and are one amount here. Every
write to a balance is modelled as immediate (BatchUpdateEnabled off).

### MemorySlots and RedisSlots

`MemorySlots` has one heap cell per counter object; a cell that nobody points
to may be handed out again, so behaviours are unbounded with finitely many
cells. The release closure runs once per request, as `defer release()` does.
`RedisSlots` has one clock for all instances and a refresher that makes its
attempt within the tick it is due. `PackageLimiter` is `acquireValuePackageSlot`:
`RedisEnabled` is set at start and decides which of the two runs.

### TaskBilling

`task[t]` is the row of a task: its status (the statuses between NOT_START and
the end are one), whether its progress is 100% (`full`), why it failed, its
quota and the mark of a failed settlement. `stage[t]` is where the handler of
the submission is. A poller is an instance that runs `TaskPollingLoop`:
`batch[p]` holds the copies of the rows it has read, `pc[p]` the phase of the
loop (`mode`) and the next step for the task it works on. `UpdateWithStatus`
writes the whole copy when the row still has the status that was read (`Wins`);
`Task.Update` writes it unconditionally. `fetch[t]` is the copy and the answer
that `tryRealtimeFetch` holds between the upstream call and its update.

Wallet and token change by increments only, so `paid` and `tokenPaid` record
what each task has taken; a package's AmountUsed (`used`) is kept apart from
the usage records (`usage`), because the adjustments of tasks change only the
first. `refunds` and `due` are history variables. Faults are failed statements
and stopped pollers; a poller that stops forgets its batch and whatever it was
about to refund. Upstream may answer wrongly with a failure (an unknown error
body counts as one), or not at all. The submission's own pre-consumption and
settlement are single steps here; their inner failures are the business of
`BillingSession`. The instances let one submission run at a time per task, and
the limits of the two queries (100 and `TaskQueryLimit`) are above the number
of tasks.

A task is called *guarded* when only updates guarded by the status end its row:
neither of Suno (saved without a guard), nor on a Gemini or Vertex channel (a
query may write to ended rows), nor with a failed settlement (the handler then
saves its own copy).

### MidjourneyBilling

`row[t]` is the row of a task with the flags of its BillingContext; `stage[t]`
the place of the handler that submits it; `batch[w]` the copies a loop (or the
handler) holds; `work[w]` the call of `CommitMidjourneyTaskUpdate` a worker is
in, with its arguments and locals: read, compare-and-swap, funding leg, mark,
token leg, final progress. The wallet leg and its flag are one transaction, the
subscription leg is once-only by the pre-consume record and marked in a second
one. A deleted token makes the token leg an error for good; the row then stays
in REFUND_PENDING. The pre-consumption and the settlement, which moves no quota
since the charge is the estimate, are single steps.

### PaymentOrders

`kind[o]` is the provider and product of an order, chosen at the start: five
providers of top-ups and four of ordinary subscriptions, each with its own order
of checkout and insert, its own notices and its own answers. `handler[h]` is a
request between its arrival and its answer. gorm (v2) ignores
`Set("gorm:query_option", "FOR UPDATE")`, so reading the order and writing it
are two steps, except in `RechargeEpay`, which uses `clause.Locking`. What keeps
requests apart is `LockOrder`: `orderLocks[i]` is the sync.Map of process i,
`lock` the mutex objects with their reference counts. `acked` are the orders
whose payment notice was answered with success: the provider sends all others
again. `unread` are the orders of which a payment could not be looked up because
the database failed (`LookupFails`): pancake's webhook and creem's, for a
subscription, take that for an unknown order and answer 200. Waffo may report a
status other than PAY_SUCCESS at any time (`Notices`), and the handler marks the
order failed. The credit, the commission and the status are one transaction.

### LdxpSessions

`session[s]` is a row of ldxp_topup_sessions, with the number of times it gave
its benefit (`credited`, a history field); `shop[o]` the order at the shop;
`events` and `matched` the mail events; `card[o]` the redemption code the order
delivers; `topUps[o]` the top_ups row of a direct top-up; `calls` what the
running requests still have to do. The verification up to the end of its
transaction is one step under `ldxpVerifyMu`, which a value package keeps until
its settlement, two further transactions, is over. `mailRequired`
(LDXP_REQUIRE_MAIL_MATCH) and `aborts` (does a failed statement abort the
transaction, as in PostgreSQL) are chosen at the start. Assumed are one
application process (the mutex is in memory), one worker, and that an order and
its card belong to each other; the mail poller runs where mail is required.
With mail, the code compares the price in the mail and not the worker's; both
describe one order, and a mail without a readable price, which the code lets
pass, is left out.

## Runs

| Run | Result | Shows |
| --- | --- | --- |
| `vp_epochs` | pass | AmountUsed is the sum of the current epoch's usage records but for the adjustments of that epoch, never above the total; requests of an old epoch leave the new one alone |
| `vp_windows` | pass | until a request that waited for the row lock writes with a time earlier than a record it had to count, the 7-day limit holds at every moment and the 5-hour limit is overrun only when quota is given back |
| `bs_failures` | pass | usage records stay true through up to three failures in one session; without failures a failed request made with a token gets everything back |
| `bs_interleavings` | pass | two sessions and two failures: no quota created, conservation, exact final bill, on all accounts but a regular subscription whose row was saved over a newer one; no subscription row beyond its total |
| `bs_playground` | violation | a failed playground request paid from the wallet does not |
| `slots` | pass | the in-process limiter is a counting semaphore; the shared limit under faults, no slot taken twice, no slot lost for longer than its TTL |
| `task_pollers` | pass | a guarded task is refunded at most once, never refunded and delivered, and comes to rest; without faults a failed one has cost nothing and a finished one the last amount computed |
| `task_platforms` | pass | a task of any platform comes to rest, Suno rows saved without a guard included; a package stays within its bounds; a per-call price is final, whatever pollers and realtime queries do to the row |
| `task_realtime` | violation | a realtime query revives a refunded task, which is refunded again |
| `mj_refunds` | pass | each leg of a refund is paid once, a failure that shows 100% is refunded, a delivered task is paid, ended rows stay ended, every row ends |
| `orders` | pass | the order mutex excludes and is freed; an order is credited once, a success is credited, and who pays is credited in the end, unless the notice was given up or waffo reported another status before |
| `ldxp` | pass | one success and one credit per shop order, no credit without payment, none hidden by a cancellation; a reported payment is credited |

Bounds. Two requests and a clock of four ticks (`vp_*`) contain a request on
each side of a cycle boundary, a reset between a pre-consume and its settlement,
and a renewal; amounts up to 2 against a total of 3 make the second request
fail on the total; `MaxDrift = 1` allows a refund or a fee of one unit in each
epoch. Windows of two and three ticks make records fall into different windows.
`Lag = 1` in all of them is a wait of one second for the row lock; the window runs
leave the adjustments out, which touch no record that a window counts. Two sessions over accounts of three units (`bs_*`) make
checks pass and the writes that follow find the account changed; three
failures in one session exhaust the three attempts of `refundWithRetry`
(`bs_failures`), two the two attempts of `bs_interleavings`.
`bs_failures` gives the subscription no limit, the other runs a total of three. Three
requests on a limit of two (`slots`) contain a request that leaves, one that
waits for the counter it removes and one that stores a new counter; two slots
and a third request make the limit bite.
`TTL = 4 * RefreshInterval` is the ratio in the code. One
task with two pollers (`task_pollers`) has both hold a copy of the row while
the sweep of either ends it; two faults allow a failed update and a stop in one
behaviour. Tasks meet only in the package's total, so `task_platforms` submits
one task of any of three kinds (`MaxSubmitted = 1`): Suno on a package, per-call
with realtime queries, plain video. `MaxQueries = 2` lets a query end a task
and a second one write to the ended row. In `mj_refunds` one task has its
handler and two loops as workers, so that a third can finish a refund while two
hold old copies; its bill is a subscription with a token (two legs, and the mark
between them) or the wallet alone (one leg and its flag in one transaction);
tasks share nothing. In `orders` three requests about one order are a holder of
the mutex, one that waits and one that comes when it is deleted; two faults
allow a failed transaction and a crash, or a failed look-up and either. In `ldxp` two sessions that may name the
same shop order are all a duplicate needs; two requests at a time let a mail, a
report and a retry overlap, and one fault interrupts any of them. Symmetry
permutes requests, sessions or counters, which no definition tells apart; the
liveness runs do not use it.

`orders` checks no deadlock: an order that failed or expired has no more steps
when nobody sends anything. All other runs check it.

Fairness (`BSFairSpec`): weak fairness of the steps a session's own goroutine
takes, that is, the Go scheduler and database calls that return. Nothing is
assumed of upstream calls, of users, or of the absence of failures: the
liveness property speaks of behaviours without them.

`TBFairSpec`: weak fairness of each poller's loop (it runs for ever and sleeps
15 seconds between rounds), of the rest of a submission's handler after its
insert, and of the passing of time that makes a task too old. Nothing is
assumed of upstream; `MaxFaults` bounds the failed statements, as a database
that never answers again would stop everything.

`MBFairSpec`: weak fairness of each loop, of a commit a handler is in, and of
the hour that passes. `PaymentOrders`: weak fairness of a running request,
strong fairness of acquiring the mutex (a Go mutex hands itself to a waiter that
has starved for a millisecond) and of the redelivery of a payment that was not
answered with success. `LdxpSessions`: the same for running requests and
`ldxpVerifyMu`, and strong fairness of the mail poller, which posts unseen
mails and, in a round without any, the recent ones again
(`workers/ldxp-browser-worker/src/mail-poller.ts:116-125`); one posting of the mail of an
order is all the property needs. Customers, administrators and the browser worker owe
nothing.

### Findings

* **Playground refunds** (`bs_playground`): a playground request takes no token
  quota, and for the wallet `needsRefundLocked` looks only at the token.
* **Realtime queries** (`task_realtime`): a user's query for a Gemini or Vertex
  task writes the answer of upstream into a row of any status. A task that the
  sweep has failed and refunded goes back to IN_PROGRESS and is refunded again.

Findings by hand: four more statements of the documents or the code do not hold.
Each is a definition that no run lists; adding it to the INVARIANTS of the
configuration named here makes TLC show the violation. The properties of that
run name the case as their exception and say that there is no other.

* **Adjustments without a usage record** (`AmountUsedMatchesUsage`,
  `vp_epochs.cfg`): refund and recalculation of a task paid from a value package,
  and violation fees, change AmountUsed through `PostConsumeUserSubscriptionDelta`
  (`service/task_billing.go:99`, `service/violation_fee.go:126`) and write no usage
  record, against
  `docs/superpowers/specs/2026-07-06-value-package-stabilization-and-quick-start-spec.md:306`
  and `:311`. `LedgerOffByAdjustmentsOnly` says that nothing else does.
* **Windows after a lock wait** (`SevenDayLimitHolds`, `vp_windows.cfg`): the time
  is read before the row lock (`model/subscription.go:3805`), and the queries of
  both windows skip records later than that time (`1822`, `1937`, `1973`, `3240`,
  `3431`). A request that waits while another commits in a later second does not
  count that usage and overruns the limit. For the 5-hour window it is the same,
  which is why `OnlyAReleaseOverrunsFiveHours` too holds only until a request was
  overtaken. The total is not affected, as it is read from the locked row.
* **Lost charges on regular subscriptions** (`SubscriptionPaysForAll`,
  `bs_interleavings.cfg`): on MySQL and PostgreSQL two requests read the same
  AmountUsed, are both admitted, and the second save
  (`model/subscription.go:3773`) erases the first. `NoFreeQuota`, `Conserved` and
  `FinalBill` leave the subscription out once this has happened.
* **Dropped payments** (`OnlyUnresolvableIsDropped`, `orders.cfg`): pancake's
  webhook answers 200 when the order cannot be resolved
  (`controller/topup_waffo_pancake.go:500-507`, `521-531`), also when the reason
  is a failed query; the payment is then not sent again. Creem's does the same for
  subscriptions (`controller/topup_creem.go:309-324`), where
  `CompleteSubscriptionOrder` calls every error of the read "not found".
  `SuccessMeansCredited` and `PaidIsCredited` except the orders in `unread`.

Further observations, each a behaviour of the models that no run reports:

* The design documents of 3 and 7 July speak of a rolling 5-hour window; the code
  counts in a fixed window that opens at the first use, so five hours that
  straddle two windows can hold up to twice the limit.
* The refund of a Suno task precedes an unguarded save of its row, so a failed
  save, a stop or a second poller refunds it again.
* A realtime query can also end a task, which then nobody settles or refunds.
* Tasks of a deleted channel fail without a refund, through the bulk update
  whose comment forbids this use; `FinalTaskBill` leaves them out.
* A poller's full-row update can erase the mark of a failed settlement; the
  other way round, the handler's save can revive an ended task.
* An answer that reports 100% without a final status takes the row out of both
  queries; it is then neither delivered, failed nor refunded.
* Three missed refreshes in a row are enough for the
  shared limiter to admit one request too many, because the fourth attempt and
  the expiry fall on the same second. `SharedLimitRespected` states the margin
  of two.
* Refunding the request that opened a 5-hour window moves the
  window to a later record, and the usage in it may then exceed the limit. This
  is why `OnlyAReleaseOverrunsFiveHours` excludes steps that give quota back.
* A task refund that arrives after a reset lowers AmountUsed of the new epoch,
  which never paid for the task.
* Two masters that poll the same Suno row can undo each other's save.
* The one-hour limit of Midjourney tasks is applied to tasks that upstream lists;
  a task upstream has forgotten stays unfinished and is not refunded. Unless its
  token was deleted, every other row ends (`EveryRowEnds`).
* `CreditedOnce` rests on `LockOrder` alone: with `Instances = {i1, i2}`, two
  processes on one database, `orders` finds an order credited twice. The comment
  at `model/topup.go:429` claims a row lock.
* Stripe and epay are told success after a failed transaction and do not send
  the payment again; only the administrator can complete the order.
  `IgnoresErrors` names them.
* `handleWaffoPayment` writes "failed" for every status but PAY_SUCCESS. One that
  comes before the payment ends the order: the payment is then refused, which
  `PaidIsCredited` names as an exception.
* Waffo's failure notice, and a refused checkout of waffo or pancake, write a
  status without the order's mutex: a credited order may say "failed".
* LDXP: a session that was canceled, expired or given up by the worker before
  its payment was reported is credited by nobody. A retry by the administrator
  before the report makes it verify_failed, and the report is then refused. A
  verify_failed session keeps the mail of its order, so another session of that
  order waits for ever (the exception in `PaidIsCredited`). Sessions in
  redeem_failed, and value packages whose settlement was interrupted, wait for
  the administrator.
* LDXP without mail: the direct top-up has no savepoint, so on MySQL and SQLite
  a statement that fails half-way is committed with what precedes it; the retry
  finds the top_ups row and reports success for quota that was never given
  (`SuccessMeansCredited` names the case; the design of 28 June asks for a
  roll-back). The card of the order stays redeemable by hand.
* LDXP: a value package whose settlement stopped after the package was given,
  and another session of the same order, are both credited
  (`OrderCreditedOnce` names the case).

## Proofs

`ValuePackageQuotaProofs` proves, for all requests, amounts, adjustments, plans
and bounds, from `VPConstants` only: the types (`VPTypeCorrect`), the ledger
(`LedgerKept`), the total (`TotalRespected`) and that late requests leave a new
epoch alone (`LateRequestsHarmless`). The ledger bounds AmountUsed from both sides
by the recorded usage and what adjustments charged and credited in the epoch;
without adjustments the two are equal. It is not an equation with them, because
a refund after a credit is cut off at zero. Nor is it inductive: a
refund subtracts from the current epoch when the *pre-consume* record says so
and removes the quota of the *usage* record. The inductive invariant therefore
adds that the two records of a request agree on their epoch and that no record
is of a future epoch; the latter makes a new epoch start with an empty sum.
Sums are handled by the lemmas of `QuotaSumsProofs` about `Total` (adding a
request, replacing one amount, an empty set, fewer and smaller amounts), which
rest on the library's theorems on cardinality.

It also proves the 7-day limit until a request is overtaken while it waits for the
row lock (`SevenDayLimitIsKept`), for any length of the waits: reading an old time
alone does no harm. The window is cut at the end of the package, and an administrator who invalidates an
expired package moves that end forward, so the limit as stated is not inductive:
`StageInv` bounds the quota of the whole stage, end or no end. A check sees all
of it, because a package that may be used has not ended (`WindowOfStage`); a row
that follows another has the same stage or a new and empty epoch
(`FollowingRow`); and time leads into a stage without records or stays in the
old one (`AnchorFacts`, `TickKeepsStage`).

`PackageLimiterProofs` proves, for any number of requests, counters and any limit
from `MSConstants`: the limit (`LimitIsRespected`), that all running requests
are counted on one counter (`CountedOnOneCounter`) and that the limiter
implements `SlotLimiter` (`ImplementsSlotLimiter`). The invariant says that a
goroutine inside a mutex owns it, that what it has looked up there is still so,
and that the counter in the map counts the running requests; the second part is
what the second look into the map is for. `InProcessLimiterHolds` carries this
over to the deployment (`PLSpec`), which uses one limiter and leaves the other
alone (`StepOfEither`).

For the limiter in Redis it proves, for any requests, limit, TTL, refresh
interval and number of faults, from `PLConstants`: the limit, as long as the
faults leave a refresh before the TTL (`SharedLimitHolds`), that released slots
stay free (`ReleasedSlotsStayFree`) and that dead ones are reclaimed
(`DeadSlotsAreFreed`). Only the second is inductive. `SharedInv` says when a
refresher made its last attempt (`ClockOK`), that the score of a slot left behind
is not after the end of its request (`EndedOK`: a late refresh runs within the
tick), and that the score of a running request is late by at most one interval
per fault so far (`KeptSlot`). With `TTL \div RefreshInterval - 2` faults two
intervals remain (`TimeLeft`), so neither the purge nor the expiry of the key
removes such a slot (`KeptSlotLives`), and an acquisition counts every running
request.

`TaskBillingProofs` proves, for any tasks, pollers, amounts and number of
faults, from `TBConstants` and `NoRowIsNoRow`: a guarded task is refunded at
most once (`OneRefundPerTask`), and once refunded stays in FAILURE
(`NoResultAfterRefund`). Neither is inductive: what matters is a refund that is
*about* to happen. `TBInv` therefore says that, for a guarded task, a poller
that is about to refund it is the only one, that the row is a FAILURE and that
no refund was done; and that the copies in the batches had not ended when they
were read (Suno apart), so a poller whose update matches the row is the first to
end it (`WinnerIsFirst`, `RefundStarts`). The rest keeps track of which rows
exist and which copies a poller works on. There is one lemma per action;
most follow from `QuietStep`, that a step which starts and completes no refund
and revives no failed task keeps refunds single.

On top of it, `TBMoney` is about amounts: types (`TBTypeCorrect`), what tasks cost
(`BillIsFinal`) and the price of tasks billed per call (`PriceIsFinal`). The cost
of a task is only right once everybody is done with it, so `Bill` says, for a
task whose handler has inserted the row, that wallet and token have paid
`Cost + Unsettled`, less what the *one* poller that is adjusting the task still
owes each of them; `Unsettled` is the estimate less the quota until the handler
has settled, which makes the adjustment and the settlement commute. A task that
has not ended has no adjustment under way and its quota is what is due, which is
what the winner of the update starts from (`BillWritten`). All of this needs
that the quota in a copy, however old, is that of the row (`CopiesOK`), which is
also why a full-row update changes no price; for tasks billed per call
(`Priced`) it follows that no adjustment is upwards. `IdleOK` says that a poller
between two rounds is at no task.

`BillingSessionProofs` proves, for any sessions, costs, balances, funding
sources and number of failures, from `BSConstants`: types (`BSTypeCorrect`, by
which AmountUsed never passes a total, lost updates or not), that
no quota is created (`QuotaIsNeverCreated`), that none is lost while no write
fails (`QuotaIsConserved`), that usage records agree with the sessions
(`RecordsAgree`) and that the final bill is exact (`BillIsExact`). The three that
speak of amounts range over `SoundAccounts`: a regular subscription drops out of
them once a session has saved over a write it had not seen. The equation
between accounts and sessions is not inductive: what a session holds is computed
from fields that mean something else at each step of its goroutine. `BSInv`
therefore has, besides the equation, a clause per phase: nothing reserved yet
(`PreOK`), reserved (`LiveOK`), funding settled and token not (`SettleTokenOK`),
settled, being refunded (`RefundOK`: the refunded record and the refund of the
funding source go together, and without failures each leg that was left behind
was paid); and `AmountsOK`, by which the token has what was pre-consumed, a
subscription the estimate and the extra reservations, the wallet at least that
(exactly, without failures: a failed rollback of a realtime reserve leaves more),
and a package's record what its session holds. The step lemmas reduce an action to
one session: `QuietStep` (nothing moves), `TokenStep` and `FundingStep` (n units
move between an account and the session); the clamp of a subscription's
AmountUsed at zero is harmless because one session's part never exceeds what was
used (`PartOfAccount`).

`MidjourneyBillingProofs` proves, for any tasks, loops, charges and faults, from
`MBConstants`: types, that each leg of a refund is paid once (`RefundLegsOnce`),
that a delivered task is paid (`ResultsArePaid`) and that ended rows stay ended
(`FinishedStaysFinished`). `MBInv` relates the flags of a row to the balances
(`FundingAgrees`, `TokenAgrees`) and says, for each step of
`CommitMidjourneyTaskUpdate`, what a worker may rely on however old its copy is
(`RefundOK`): a refund once begun stays begun and flags only grow (`Grows`).

`PaymentOrdersProofs` has two invariants. `LockInv` holds for any number of
requests, orders and processes: a request that points to a mutex points to the
one in the map, the count of a mutex is the number of requests pointing to it,
and its holder is the one request in the critical section; hence `LockOrderMutex`.
`CreditInv` assumes `OneProcess`, which the code needs (with two processes `orders`
finds a double credit): what a handler has read under the mutex is still true when
it writes (`WriteOK`), and a success is about to be answered only for a credited
order, one that could not be looked up (`unread`), or to the providers that are
always told so (`ReplyOK`). From it follow `CreditsOnce`, `StatusTellsTheCredit` and
`FinalStatusStays`.

`LdxpSessionsProofs` proves, for any users, sessions, shop orders, requests and
faults, types, one credit per order (`OrderIsCreditedOnce`), that success means
credit (`SuccessIsCredited`), that a credit was paid (`CreditWasPaid`) and that a
recognised payment is not undone (`PaymentStays`). `LSInv` records what a session
went through (`HistoryOK`), ties a credit to the card or the top_ups row it used
(`CreditOK`) and these to a successful session (`BenefitOK`), and says that a
request in the two further transactions of a value package is alone and has no
duplicate (`SettlingOK`), which is what `ldxpVerifyMu` gives.

Each inductive invariant was checked with TLC on the instances of the runs
before it was proved.

Only model-checked: liveness (`TokenRequestsAreRefunded`, `EveryRowEnds`, both
`PaidIsCredited`, `EveryTaskEnds`), which is outside the prover; and the 5-hour
window of the package (`OnlyAReleaseOverrunsFiveHours` needs induction over a
recursively defined scan of the records).

## Not modelled

Isolation levels below the row lock, clock differences between instances, lock
order inside a transaction (the database aborts one side), the Redis copies of
balances, batch updates (a crash loses what they hold, by design); prices and
ratios; periodic resets of regular subscriptions; violation fees on other
accounts than a package; the limits of
the task queries; affiliate withdrawals and SVIP; redemption codes that no LDXP
order delivers, and the administrator's edits of codes and users, which save
whole rows over concurrent changes (`controller/redemption.go:281`,
`model/user.go:443`). `RelayMidjourneyNotify` has no route
(`router/relay-router.go:222`). Channel selection is data; relay adaptors, user
interface, administration and the bundled sub2api service, which makes up most
of the lines of the repository and is a program of its own, are left out.
`PROJECT.json` lists every part with the reason.

## Plan

1. Done: the modules above; proofs for the package's ledger and 7-day limit, the
   billing sessions, both limiters, refunds and costs of tasks, Midjourney
   refunds, orders and LDXP sessions.
2. `BatchUpdater`: batch maps, Redis copies and crashes; the entitlement
   middleware composed with the package's quota and a slot; regular
   subscriptions with periodic resets.
