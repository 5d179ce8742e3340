--------------------------- MODULE BillingSession ---------------------------
(***************************************************************************)
(* The billing sessions of one user's relay requests.  A session takes     *)
(* quota from the request's token and from one funding source (the wallet, *)
(* a regular subscription or a value package) before the upstream call,    *)
(* may reserve more while a realtime connection runs, and in the end is    *)
(* either settled at the actual cost or refunded by a goroutine.  Nothing  *)
(* makes these database writes one transaction: every write is a step of   *)
(* its own, sessions interleave, a write may fail, and the process may     *)
(* stop between any two writes.                                            *)
(*                                                                         *)
(* A balance is what the account has left: users.quota for the wallet,     *)
(* tokens.remain_quota for the token, AmountTotal - AmountUsed for a       *)
(* subscription row.  Periodic resets of a subscription are left out here; *)
(* ValuePackageQuota has them for value packages.                          *)
(*                                                                         *)
(* The wallet, the token and a value package are changed relatively or     *)
(* under a row lock.  PreConsumeUserSubscription is not: it asks for its   *)
(* lock with a gorm v1 option that gorm v2 ignores, so it reads the row of *)
(* a regular subscription, checks the remainder, and saves what it read    *)
(* less the amount, over whatever was written to the row in between.       *)
(***************************************************************************)
EXTENDS Integers, FiniteSets, QuotaSums

CONSTANTS
    Sessions,        \* relay requests, one BillingSession each
    Quotas,          \* estimated and actual costs a request may have
    Initial,         \* the balance every account starts with; for a subscription
                     \* row its AmountTotal, 0 = unlimited
    Kinds,           \* funding sources in use
    Playground,      \* values of relayInfo.IsPlayground in use
    TrustQuota,      \* common.GetTrustQuota, 0 = no trust bypass
    RefundAttempts,  \* maxAttempts of refundWithRetry
    MaxFailures      \* bound: database errors and crashes in a behaviour

Fundings == {"wallet", "subscription", "package"}
Accounts == Fundings \cup {"token"}

ASSUME BSConstants ==
    /\ IsFiniteSet(Sessions)
    /\ Quotas \subseteq Nat
    /\ Initial \in [Accounts -> Nat]
    /\ Kinds \subseteq Fundings
    /\ Playground \subseteq BOOLEAN
    /\ TrustQuota \in Nat
    /\ RefundAttempts \in Nat \ {0}
    /\ MaxFailures \in Nat

VARIABLES
    bal,       \* balance of every account
    row,       \* per request: the pre-consume record with the usage record
    ses,       \* the BillingSession objects and where their goroutine is
    lost,      \* sessions whose process has stopped
    failures,  \* database errors and crashes so far
    overwrote  \* history: sessions that saved a subscription row over a newer one

bsVars == <<bal, row, ses, lost, failures, overwrote>>

NoSession ==
    [pc |-> "new", kind |-> "wallet", playground |-> FALSE, fallback |-> FALSE,
     amount |-> 0, seen |-> 0, actual |-> 0, extra |-> 0, attempts |-> 0,
     consumed |-> 0, preConsumed |-> 0, tokenConsumed |-> 0, extraReserved |-> 0,
     fundingSettled |-> FALSE, settled |-> FALSE, refunded |-> FALSE, effects |-> {}]

NoRow == [status |-> "none", quota |-> 0]

----------------------------------------------------------------------------
(* Writes.                                                                  *)

At(s, pc) == s \notin lost /\ ses[s].pc = pc

Put(s, x) == ses' = [ses EXCEPT ![s] = x]

\* A database error: the write is not applied and the caller sees an error.
DBError ==
    /\ failures < MaxFailures
    /\ failures' = failures + 1
    /\ UNCHANGED <<bal, row>>

\* Take n from account a; a negative n gives quota back.
Take(a, n) == bal' = [bal EXCEPT ![a] = @ - n]

LesserOf(a, b) == IF a <= b THEN a ELSE b

\* A subscription row is used n more; its AmountUsed never goes below zero.
PostConsume(kind, n) == bal' = [bal EXCEPT ![kind] = LesserOf(Initial[kind], @ - n)]

PostConsumeUserSubscriptionDelta(n) == PostConsume("subscription", n)

\* Mutant: a subscription row may be charged while anything is left on it.
EnoughIfAnyLeft(kind, n) == bal[kind] > 0 \/ n <= 0

\* A subscription row whose AmountTotal is 0 has no limit.
Unlimited(kind) == kind # "wallet" /\ Initial[kind] = 0

\* The condition under which a source accepts n more: DecreaseUserQuotaIfEnough
\* for the wallet, the remaining total for a subscription row.
Enough(kind, n) == bal[kind] >= n \/ n <= 0 \/ Unlimited(kind)

\* A value package also refuses when it has expired or for a usage window.
MayRefuse(kind, n) == kind = "package" \/ ~Enough(kind, n)

----------------------------------------------------------------------------
(* NewBillingSession and preConsume: token first, then the funding source.  *)

Begin(s) ==
    /\ At(s, "new")
    /\ \E k \in Kinds, q \in Quotas, p \in Playground, f \in BOOLEAN :
          /\ k # "wallet" => q > 0
          /\ Put(s, [NoSession EXCEPT !.pc = "try", !.kind = k, !.amount = q,
                                      !.playground = p, !.fallback = f])
    /\ UNCHANGED <<bal, row, lost, failures, overwrote>>

\* shouldTrust: a rich user with a rich token is not pre-charged at all.
shouldTrust(x) ==
    /\ TrustQuota > 0
    /\ x.kind = "wallet"
    /\ bal["token"] > TrustQuota /\ bal["wallet"] > TrustQuota

\* tryWallet reads the user's quota first; wallet_first falls back from it.
TrySource(s) ==
    LET x == ses[s]
        poor == x.kind = "wallet" /\ x.amount > 0 /\ bal["wallet"] < x.amount
        free == shouldTrust(x) \/ x.amount = 0
    IN  /\ At(s, "try")
        /\ Put(s, IF poor /\ x.fallback /\ "subscription" \in Kinds
                  THEN [x EXCEPT !.kind = "subscription", !.fallback = FALSE]
                  ELSE [x EXCEPT !.pc = CASE poor -> "rejected"
                                          [] ~poor /\ free -> "running"
                                          [] OTHER -> IF x.playground THEN "takeFunding"
                                                      ELSE "checkToken"])
        /\ UNCHANGED <<bal, row, lost, failures, overwrote>>

\* PreConsumeTokenQuota reads the token and then decrements it: two steps.
CheckToken(s) ==
    /\ At(s, "checkToken")
    /\ Put(s, [ses[s] EXCEPT !.pc = IF bal["token"] >= ses[s].amount THEN "takeToken"
                                    ELSE "rejected"])
    /\ UNCHANGED <<bal, row, lost, failures, overwrote>>

TakeToken(s) ==
    LET x == ses[s]
    IN  /\ At(s, "takeToken")
        /\ \/ /\ Take("token", x.amount)
              /\ Put(s, [x EXCEPT !.pc = "takeFunding", !.tokenConsumed = x.amount])
              /\ UNCHANGED <<row, failures>>
           \/ DBError /\ Put(s, [x EXCEPT !.pc = "rejected"])
        /\ UNCHANGED <<lost, overwrote>>

\* Where preConsume goes when the funding source has refused: a subscription
\* that is exhausted may fall back to the wallet, a database error may not.
Refused(x, exhausted) ==
    LET f == x.fallback /\ exhausted
        y == [x EXCEPT !.fallback = f, !.seen = 0]
    IN  IF x.tokenConsumed > 0 THEN [y EXCEPT !.pc = "undoToken"]
        ELSE IF f THEN [y EXCEPT !.pc = "try", !.kind = "wallet", !.fallback = FALSE]
        ELSE [y EXCEPT !.pc = "rejected"]

\* The source has given what was asked for.
PreConsumed(x) == [x EXCEPT !.pc = "running", !.seen = 0, !.consumed = x.amount,
                            !.preConsumed = x.amount]

Consumed(x) == [status |-> "consumed", quota |-> x.amount]

\* The wallet's conditional decrement, and the transaction of a value package,
\* which holds the lock of its row from the read to the commit.
TakeFunding(s) ==
    LET x == ses[s]
    IN  /\ At(s, "takeFunding") /\ x.kind # "subscription"
        /\ \/ /\ Enough(x.kind, x.amount)
              /\ Take(x.kind, x.amount)
              /\ row' = IF x.kind = "wallet" THEN row ELSE [row EXCEPT ![s] = Consumed(x)]
              /\ Put(s, PreConsumed(x))
              /\ UNCHANGED failures
           \/ /\ MayRefuse(x.kind, x.amount)
              /\ Put(s, Refused(x, x.kind # "wallet"))
              /\ UNCHANGED <<bal, row, failures>>
           \/ DBError /\ Put(s, Refused(x, FALSE))
        /\ UNCHANGED <<lost, overwrote>>

\* PreConsumeUserSubscription reads the row without a lock and checks the
\* remainder.  When the query of the rows fails it reports that there is no
\* active subscription, which may fall back to the wallet; another error not.
ReadSubscription(s) ==
    LET x == ses[s]
    IN  /\ At(s, "takeFunding") /\ x.kind = "subscription"
        /\ \/ /\ Put(s, IF Enough(x.kind, x.amount)
                        THEN [x EXCEPT !.pc = "saveFunding", !.seen = bal["subscription"]]
                        ELSE Refused(x, TRUE))
              /\ UNCHANGED <<bal, row, failures>>
           \/ \E queryFailed \in BOOLEAN : DBError /\ Put(s, Refused(x, queryFailed))
        /\ UNCHANGED <<lost, overwrote>>

\* Then it saves the whole row it has read, used by the amount more, and
\* commits with the pre-consume record; an error rolls both back.
SaveSubscription(s) ==
    LET x == ses[s]
    IN  /\ At(s, "saveFunding")
        /\ \/ /\ bal' = [bal EXCEPT !["subscription"] = x.seen - x.amount]
              /\ row' = [row EXCEPT ![s] = Consumed(x)]
              /\ overwrote' = IF bal["subscription"] = x.seen THEN overwrote
                              ELSE overwrote \cup {s}
              /\ Put(s, PreConsumed(x))
              /\ UNCHANGED failures
           \/ DBError /\ Put(s, Refused(x, FALSE)) /\ UNCHANGED overwrote
        /\ UNCHANGED lost

UndoToken(s) ==
    LET x == ses[s]
        y == [x EXCEPT !.tokenConsumed = 0]
    IN  /\ At(s, "undoToken")
        /\ \/ Take("token", -x.tokenConsumed) /\ UNCHANGED <<row, failures>>
           \/ DBError
        /\ Put(s, IF x.fallback
                  THEN [y EXCEPT !.pc = "try", !.kind = "wallet", !.fallback = FALSE]
                  ELSE [y EXCEPT !.pc = "rejected"])
        /\ UNCHANGED <<lost, overwrote>>

----------------------------------------------------------------------------
(* ReserveRealtime: reserve up to a larger target while the request runs.   *)
(* A value package takes the token first, the other sources last.           *)

\* Mutant: the target, not the difference, is reserved on the token.
ReservedWhole(x) == [x EXCEPT !.pc = "running", !.preConsumed = @ + x.extra,
                              !.extraReserved = @ + x.extra, !.extra = 0,
                              !.tokenConsumed = IF x.playground THEN @ ELSE x.extra]

Reserved(x) == [x EXCEPT !.pc = "running", !.preConsumed = @ + x.extra,
                         !.extraReserved = @ + x.extra, !.extra = 0,
                         !.tokenConsumed = IF x.playground THEN @ ELSE @ + x.extra]

NotReserved(x) == [x EXCEPT !.pc = "running", !.extra = 0]

ReserveRealtime(s, target) ==
    LET x == ses[s]
    IN  /\ At(s, "running")
        /\ target > x.preConsumed
        /\ Put(s, [x EXCEPT !.extra = target - x.preConsumed,
                            !.pc = IF x.kind = "package" /\ ~x.playground
                                   THEN "rsvCheckToken" ELSE "rsvFunding"])
        /\ UNCHANGED <<bal, row, lost, failures, overwrote>>

ReserveFunding(s) ==
    LET x == ses[s]
        package == x.kind = "package"
        refusal == IF package /\ ~x.playground THEN [x EXCEPT !.pc = "rsvUndoToken"]
                   ELSE NotReserved(x)
    IN  /\ At(s, "rsvFunding")
        /\ \/ /\ Enough(x.kind, x.extra)
              /\ Take(x.kind, x.extra)
              /\ row' = IF package THEN [row EXCEPT ![s].quota = @ + x.extra] ELSE row
              /\ LET y == IF x.kind = "wallet" THEN [x EXCEPT !.consumed = @ + x.extra] ELSE x
                 IN  Put(s, IF package \/ x.playground THEN Reserved(y)
                            ELSE [y EXCEPT !.pc = "rsvCheckToken"])
              /\ UNCHANGED failures
           \/ /\ MayRefuse(x.kind, x.extra)
              /\ Put(s, refusal)
              /\ UNCHANGED <<bal, row, failures>>
           \/ DBError /\ Put(s, refusal)
        /\ UNCHANGED <<lost, overwrote>>

NoTokenReserve(x) ==
    IF x.kind = "package" THEN NotReserved(x) ELSE [x EXCEPT !.pc = "rsvUndoFunding"]

ReserveCheckToken(s) ==
    LET x == ses[s]
    IN  /\ At(s, "rsvCheckToken")
        /\ Put(s, IF bal["token"] >= x.extra THEN [x EXCEPT !.pc = "rsvTakeToken"]
                  ELSE NoTokenReserve(x))
        /\ UNCHANGED <<bal, row, lost, failures, overwrote>>

ReserveTakeToken(s) ==
    LET x == ses[s]
    IN  /\ At(s, "rsvTakeToken")
        /\ \/ /\ Take("token", x.extra)
              /\ Put(s, IF x.kind = "package" THEN [x EXCEPT !.pc = "rsvFunding"]
                        ELSE Reserved(x))
              /\ UNCHANGED <<row, failures>>
           \/ DBError /\ Put(s, NoTokenReserve(x))
        /\ UNCHANGED <<lost, overwrote>>

rollbackFundingReserve(s) ==
    LET x == ses[s]
        wallet == x.kind = "wallet"
    IN  /\ At(s, "rsvUndoFunding")
        /\ \/ /\ IF wallet THEN Take("wallet", -x.extra)
                 ELSE PostConsumeUserSubscriptionDelta(-x.extra)
              /\ Put(s, NotReserved(IF wallet THEN [x EXCEPT !.consumed = @ - x.extra] ELSE x))
              /\ UNCHANGED <<row, failures>>
           \/ DBError /\ Put(s, NotReserved(x))
        /\ UNCHANGED <<lost, overwrote>>

rollbackTokenReserve(s) ==
    /\ At(s, "rsvUndoToken")
    /\ \/ Take("token", -ses[s].extra) /\ UNCHANGED <<row, failures>>
       \/ DBError
    /\ Put(s, NotReserved(ses[s]))
    /\ UNCHANGED <<lost, overwrote>>

----------------------------------------------------------------------------
(* Settle: funding source, token, usage record.                             *)

Delta(x) == x.actual - x.preConsumed

\* The session is settled; a value package still upserts its usage record.
Settled(x) == [x EXCEPT !.settled = TRUE,
                        !.pc = IF x.kind = "package" THEN "record" ELSE "settled"]

\* Mutant: the difference is taken from the estimate, not from the reservation.
SettleFromEstimate(s, actual) ==
    LET x == [ses[s] EXCEPT !.actual = actual, !.preConsumed = ses[s].amount]
    IN  /\ At(s, "running")
        /\ Put(s, IF Delta(x) = 0 THEN Settled(x) ELSE [x EXCEPT !.pc = "settleFunding"])
        /\ UNCHANGED <<bal, row, lost, failures, overwrote>>

Settle(s, actual) ==
    LET x == [ses[s] EXCEPT !.actual = actual]
    IN  /\ At(s, "running")
        /\ Put(s, IF Delta(x) = 0 THEN Settled(x) ELSE [x EXCEPT !.pc = "settleFunding"])
        /\ UNCHANGED <<bal, row, lost, failures, overwrote>>

\* The wallet is charged whatever it holds; a subscription row only up to its
\* total.  A value package is moved to the target, not by the difference.
SettleFunding(s) ==
    LET x == ses[s]
        more == IF x.kind = "package" THEN x.actual - row[s].quota ELSE Delta(x)
        y == [x EXCEPT !.fundingSettled = TRUE]
    IN  /\ At(s, "settleFunding")
        /\ \/ /\ x.kind = "wallet" \/ Enough(x.kind, more)
              /\ IF x.kind = "wallet" THEN Take("wallet", more) ELSE PostConsume(x.kind, more)
              /\ row' = IF x.kind = "package" THEN [row EXCEPT ![s].quota = x.actual] ELSE row
              /\ Put(s, IF x.playground THEN Settled(y) ELSE [y EXCEPT !.pc = "settleToken"])
              /\ UNCHANGED failures
           \/ /\ x.kind # "wallet" /\ MayRefuse(x.kind, more)
              /\ Put(s, [x EXCEPT !.pc = "settleFailed"])
              /\ UNCHANGED <<bal, row, failures>>
           \/ DBError /\ Put(s, [x EXCEPT !.pc = "settleFailed"])
        /\ UNCHANGED <<lost, overwrote>>

\* A token error is logged; the session is settled all the same.
SettleToken(s) ==
    LET x == ses[s]
    IN  /\ At(s, "settleToken")
        /\ \/ /\ Take("token", Delta(x))
              /\ Put(s, Settled([x EXCEPT !.effects = @ \cup {"tokenSettled"}]))
              /\ UNCHANGED <<row, failures>>
           \/ DBError /\ Put(s, Settled(x))
        /\ UNCHANGED <<lost, overwrote>>

\* Mutant: the usage record is written with the difference.
RecordDelta(s) ==
    /\ At(s, "record")
    /\ row' = [row EXCEPT ![s].quota = LesserOf(ses[s].actual, ses[s].extraReserved)]
    /\ Put(s, [ses[s] EXCEPT !.pc = "settled"])
    /\ UNCHANGED <<bal, lost, failures, overwrote>>

recordValuePackageUsage(s) ==
    /\ At(s, "record")
    /\ \/ row' = [row EXCEPT ![s].quota = ses[s].actual] /\ UNCHANGED <<bal, failures>>
       \/ DBError
    /\ Put(s, [ses[s] EXCEPT !.pc = "settled"])
    /\ UNCHANGED <<lost, overwrote>>

----------------------------------------------------------------------------
(* Refund.                                                                  *)

\* The upstream call has failed; the deferred handler will call Refund.
UpstreamFails(s) ==
    /\ At(s, "running")
    /\ Put(s, [ses[s] EXCEPT !.pc = "failed"])
    /\ UNCHANGED <<bal, row, lost, failures, overwrote>>

needsRefundLocked(x) ==
    /\ ~x.settled /\ ~x.refunded /\ ~x.fundingSettled
    /\ x.tokenConsumed > 0 \/ (x.kind # "wallet" /\ x.consumed > 0)

\* Mutant: Refund does not look at what Settle has done.
CanRefundAlways(x) == ~x.refunded /\ (x.tokenConsumed > 0 \/ x.kind # "wallet")

CanRefund(x) == ~x.settled /\ ~x.refunded /\ needsRefundLocked(x)

\* Called by the deferred handler of a request that ends in an error, also
\* when Settle has failed or has already succeeded; the rest is a goroutine.
Refund(s) ==
    LET x == ses[s]
    IN  /\ At(s, "failed") \/ At(s, "settleFailed") \/ At(s, "settled")
        /\ Put(s, IF CanRefund(x) THEN [x EXCEPT !.refunded = TRUE, !.pc = "refundFunding"]
                  ELSE [x EXCEPT !.pc = "closed"])
        /\ UNCHANGED <<bal, row, lost, failures, overwrote>>

\* A request that ends without an error does not call Refund.
Close(s) ==
    /\ At(s, "settleFailed") \/ At(s, "settled")
    /\ Put(s, [ses[s] EXCEPT !.pc = "closed"])
    /\ UNCHANGED <<bal, row, lost, failures, overwrote>>

AfterExtra(x) ==
    [x EXCEPT !.pc = IF x.tokenConsumed > 0 /\ ~x.playground THEN "refundToken" ELSE "closed"]

\* Mutant: what was reserved after the pre-consume is forgotten.
AfterFundingNoExtra(x) == AfterExtra(x)

AfterFunding(x) ==
    IF x.kind = "subscription" /\ x.extraReserved > 0
    THEN [x EXCEPT !.pc = "refundExtra"] ELSE AfterExtra(x)

Mark(x, e) == [x EXCEPT !.effects = @ \cup {e}]

\* An error may be reported for a write that was committed nevertheless.
Ambiguous ==
    /\ failures < MaxFailures
    /\ failures' = failures + 1

\* IncreaseUserQuota is not idempotent, so it is tried once.
RefundWallet(s) ==
    LET x == ses[s]
    IN  /\ At(s, "refundFunding") /\ x.kind = "wallet"
        /\ \/ /\ Take("wallet", -x.consumed)
              /\ Put(s, AfterFunding(Mark(x, "fundingRefunded")))
              /\ UNCHANGED failures \/ Ambiguous
              /\ UNCHANGED row
           \/ DBError /\ Put(s, AfterFunding(x))
        /\ UNCHANGED <<lost, overwrote>>

\* RefundSubscriptionPreConsume: the record of the request says whether the
\* quota was given back already, so the transaction may be repeated.
RefundRecord(s) ==
    /\ IF row[s].status = "refunded" THEN UNCHANGED bal
       ELSE PostConsume(ses[s].kind, -(IF ses[s].kind = "package" THEN row[s].quota
                                       ELSE ses[s].consumed))
    /\ row' = [row EXCEPT ![s] = [status |-> "refunded",
                                  quota |-> IF ses[s].kind = "package" THEN 0 ELSE @.quota]]

\* An attempt has failed: try again, or give up and go on.
refundWithRetry(x) ==
    IF x.attempts + 1 < RefundAttempts THEN [x EXCEPT !.attempts = @ + 1]
    ELSE AfterFunding(x)

RefundSubscription(s) ==
    LET x == ses[s]
    IN  /\ At(s, "refundFunding") /\ x.kind # "wallet"
        /\ \/ /\ RefundRecord(s)
              /\ \/ Put(s, AfterFunding(Mark(x, "fundingRefunded"))) /\ UNCHANGED failures
                 \/ Put(s, refundWithRetry(Mark(x, "fundingRefunded"))) /\ Ambiguous
           \/ DBError /\ Put(s, refundWithRetry(x))
        /\ UNCHANGED <<lost, overwrote>>

RefundExtra(s) ==
    LET x == ses[s]
    IN  /\ At(s, "refundExtra")
        /\ \/ /\ PostConsumeUserSubscriptionDelta(-x.extraReserved)
              /\ Put(s, AfterExtra(Mark(x, "extraRefunded")))
              /\ UNCHANGED <<row, failures>>
           \/ DBError /\ Put(s, AfterExtra(x))
        /\ UNCHANGED <<lost, overwrote>>

RefundToken(s) ==
    LET x == ses[s]
    IN  /\ At(s, "refundToken")
        /\ \/ /\ Take("token", -x.tokenConsumed)
              /\ Put(s, [Mark(x, "tokenRefunded") EXCEPT !.pc = "closed"])
              /\ UNCHANGED <<row, failures>>
           \/ DBError /\ Put(s, [x EXCEPT !.pc = "closed"])
        /\ UNCHANGED <<lost, overwrote>>

----------------------------------------------------------------------------
Ended(s) == s \in lost \/ ses[s].pc \in {"rejected", "closed"}

\* The process stops: its sessions and refund goroutines are gone.
Crash ==
    /\ failures < MaxFailures
    /\ \E s \in Sessions : ~Ended(s) /\ ses[s].pc # "new"
    /\ failures' = failures + 1
    /\ lost' = lost \cup {s \in Sessions : ~Ended(s) /\ ses[s].pc # "new"}
    /\ UNCHANGED <<bal, row, ses, overwrote>>

AllEnded == (\A s \in Sessions : Ended(s)) /\ UNCHANGED bsVars

BSInit ==
    /\ bal = Initial
    /\ row = [s \in Sessions |-> NoRow]
    /\ ses = [s \in Sessions |-> NoSession]
    /\ lost = {}
    /\ failures = 0
    /\ overwrote = {}

\* What the goroutine of a request does by itself once the request has begun.
Progress(s) ==
    \/ TrySource(s) \/ CheckToken(s) \/ TakeToken(s)
    \/ TakeFunding(s) \/ ReadSubscription(s) \/ SaveSubscription(s) \/ UndoToken(s)
    \/ ReserveFunding(s) \/ ReserveCheckToken(s) \/ ReserveTakeToken(s)
    \/ rollbackFundingReserve(s) \/ rollbackTokenReserve(s)
    \/ SettleFunding(s) \/ SettleToken(s) \/ recordValuePackageUsage(s)
    \/ Refund(s) \/ Close(s)
    \/ RefundWallet(s) \/ RefundSubscription(s) \/ RefundExtra(s) \/ RefundToken(s)

\* What the upstream side decides.
Upstream(s) ==
    \/ \E q \in Quotas : ReserveRealtime(s, q)
    \/ \E q \in Quotas : Settle(s, q)
    \/ UpstreamFails(s)

BSNext ==
    \/ \E s \in Sessions : Begin(s) \/ Upstream(s) \/ Progress(s)
    \/ Crash
    \/ AllEnded

BSSpec == BSInit /\ [][BSNext]_bsVars

\* A goroutine that can take a step eventually takes one: the Go scheduler
\* and database calls that return.  Upstream calls are not assumed to end.
BSFairSpec == BSSpec /\ \A s \in Sessions : WF_bsVars(Progress(s))

----------------------------------------------------------------------------
(* Properties.                                                              *)

\* What the session s holds of its funding source and of its token, read off
\* the session object: reservations until they are settled or given back.
FundingHeld(s) ==
    LET x == ses[s]
        reserving == x.kind = "subscription"
                     /\ x.pc \in {"rsvCheckToken", "rsvTakeToken", "rsvUndoFunding"}
    IN  IF x.fundingSettled THEN x.actual
        ELSE (IF "fundingRefunded" \in x.effects THEN 0
              ELSE IF x.kind = "package" THEN x.preConsumed ELSE x.consumed)
             + (IF x.kind # "subscription" \/ "extraRefunded" \in x.effects THEN 0
                ELSE x.extraReserved)
             + (IF reserving THEN x.extra ELSE 0)

TokenHeld(s) ==
    LET x == ses[s]
        reserving == x.kind = "package" /\ ~x.playground
                     /\ x.pc \in {"rsvFunding", "rsvUndoToken"}
    IN  IF "tokenSettled" \in x.effects THEN x.actual
        ELSE IF "tokenRefunded" \in x.effects THEN 0
        ELSE x.tokenConsumed + (IF reserving THEN x.extra ELSE 0)

HeldOn(a) ==
    [s \in Sessions |-> IF a = "token" THEN TokenHeld(s)
                        ELSE IF ses[s].kind = a THEN FundingHeld(s) ELSE 0]

\* Balances are integers: the wallet and the token may go below zero, a
\* settlement does not ask; AmountUsed of a subscription row with a total never
\* exceeds it, whatever several sessions reserve, settle, refund and overwrite.
\* Sessions keep their types.
BSTypeOK ==
    /\ bal \in [Accounts -> Int]
    /\ \A k \in {"subscription", "package"} : Initial[k] > 0 => bal[k] >= 0
    /\ row \in [Sessions -> [status : {"none", "consumed", "refunded"}, quota : Nat]]
    /\ lost \subseteq Sessions
    /\ failures \in 0..MaxFailures
    /\ overwrote \subseteq Sessions
    /\ \A s \in Sessions :
          /\ ses[s].kind \in Fundings
          /\ ses[s].attempts \in 0..(RefundAttempts - 1)
          /\ {ses[s].amount, ses[s].actual, ses[s].extra, ses[s].consumed,
              ses[s].preConsumed, ses[s].tokenConsumed, ses[s].extraReserved} \subseteq Nat

\* The accounts whose writes have all been relative to what the account held:
\* the regular subscription is one of them until a pre-consume of it saves its
\* row over a write it has not seen.
SoundAccounts == {a \in Accounts : a = "subscription" => overwrote = {}}

\* No interleaving of sessions, no failed write, no repeated refund and no
\* crash creates quota on the wallet, the token or a value package, nor on a
\* regular subscription as long as no PreConsumeUserSubscription overwrites
\* its row: an account plus what the sessions hold of it never exceeds what
\* the user had.
NoFreeQuota ==
    \A a \in SoundAccounts : bal[a] + Total(HeldOn(a), Sessions) <= Initial[a]

\* Without failures nothing is lost on these accounts either: the sessions
\* account for every unit at every moment.
Conserved ==
    failures = 0 =>
        \A a \in SoundAccounts : bal[a] + Total(HeldOn(a), Sessions) = Initial[a]

\* What the FOR UPDATE of PreConsumeUserSubscription is meant to give: with no
\* failure, AmountUsed is what the sessions hold.  It does not hold: the lock is
\* never taken, and a save over an unseen write loses a charge.
SubscriptionPaysForAll ==
    failures = 0 =>
        bal["subscription"] + Total(HeldOn("subscription"), Sessions)
            = Initial["subscription"]

\* What a request that has ended was charged on account a: its actual quota
\* once settled, nothing once refunded, else what it had reserved.
Charge(s, a) ==
    LET x == ses[s]
        reserved == IF a = "token" THEN x.tokenConsumed ELSE x.preConsumed
    IN  IF (a = "token" /\ x.playground) \/ (a # "token" /\ a # x.kind) THEN 0
        ELSE IF x.settled THEN x.actual
        ELSE IF x.refunded THEN 0
        ELSE reserved

\* The user's bill: when all requests have ended and no write has failed, every
\* account, the regular subscription only if none of its rows was overwritten,
\* is down by exactly the actual costs of the settled requests and the
\* reservations of those whose settlement was refused, by nothing else.
FinalBill ==
    (failures = 0 /\ \A s \in Sessions : Ended(s)) =>
        \A a \in SoundAccounts :
            bal[a] = Initial[a] - Total([s \in Sessions |-> Charge(s, a)], Sessions)

\* The usage record of a value package holds what the session believes it
\* holds, so that a refund gives back exactly that.
UsageRecordAgrees ==
    \A s \in Sessions :
        (ses[s].kind = "package" /\ row[s].status = "consumed")
            => row[s].quota = FundingHeld(s)

\* A request that failed upstream ends with nothing held, unless a database
\* error or a crash got in the way.
Refunded(s) == (FundingHeld(s) = 0 /\ TokenHeld(s) = 0) \/ failures > 0

\* Refund gives back all that was pre-consumed (service/billing_session.go) to
\* every request that was made with a token.
TokenRequestsAreRefunded ==
    \A s \in Sessions : (At(s, "failed") /\ ~ses[s].playground) ~> Refunded(s)

\* As the comment on Refund says: it gives back all that was pre-consumed,
\* whoever made the request.
FailedRequestsAreRefunded ==
    \A s \in Sessions : At(s, "failed") ~> Refunded(s)
============================================================================
