---------------------------- MODULE PaymentOrders ----------------------------
(***************************************************************************)
(* Balance top-ups and ordinary subscriptions bought from a payment        *)
(* provider: the order row, the provider's notifications, the              *)
(* administrator's manual completion, and the per-order mutex LockOrder    *)
(* (controller/topup*.go, controller/subscription_payment_*.go,            *)
(* model/topup.go, model/subscription.go).                                 *)
(*                                                                         *)
(* gorm ignores Set("gorm:query_option", "FOR UPDATE"), so every handler   *)
(* but RechargeEpay reads the row unlocked and saves the whole row later:  *)
(* reading and writing are two steps here.  LockOrder is what keeps two    *)
(* handlers of one process apart; another process has its own mutexes.     *)
(***************************************************************************)
EXTENDS Naturals, FiniteSets

CONSTANTS Orders,       \* trade numbers
          Handlers,     \* requests an installation handles at a time (bound)
          Instances,    \* application processes on one database
          None,         \* no order, no process, no mutex, no holder
          MaxFaults     \* failed transactions and crashes (bound)

ASSUME POConstants == /\ IsFiniteSet(Handlers)
                      /\ None \notin Orders \cup Handlers \cup Instances
                      /\ MaxFaults \in Nat

VARIABLES kind,         \* kind[o]: provider and product of the order
          status,       \* status[o]: Status of the TopUp or SubscriptionOrder row
          credited,     \* credited[o]: times the quota or subscription was given
          checkout,     \* checkout[o]: the payment at the provider
          acked,        \* orders whose payment notification was answered "success"
          unread,       \* orders of which a payment notification found no row,
                        \* because the database did not answer, and was given up
          handler,      \* the running requests
          orderLocks,   \* orderLocks[i][o]: the entry of the sync.Map, or None
          lock,         \* the refCountedMutex objects
          faults        \* faults so far

orders == <<kind, status, credited, checkout, acked, unread>>
locks == <<orderLocks, lock>>
vars == <<kind, status, credited, checkout, acked, unread, handler, orderLocks, lock,
          faults>>

-----------------------------------------------------------------------------
TopUpKinds == [provider : {"stripe", "epay", "creem", "waffo", "pancake"},
               product : {"topup"}]
SubscriptionKinds == [provider : {"stripe", "epay", "creem", "pancake"},
                      product : {"subscription"}]
Kinds == TopUpKinds \cup SubscriptionKinds

Is(o, provider, product) == kind[o] = [provider |-> provider, product |-> product]

Statuses == {"none", "pending", "success", "failed", "expired"}
FinalStatuses == {"success", "failed", "expired"}
Checkouts == {"none", "open", "paid", "failed", "expired"}
Events == {"paid", "failed", "expired", "admin"}

\* A refCountedMutex is named by a member of Handlers: no more than that many
\* are referenced at once, so a new one always finds a free name.
Locks == Handlers

FreeLock == [refCount |-> 0, holder |-> None]

\* rcm is the local variable of LockOrder and UnlockOrder.
Idle == [pc |-> "idle", order |-> None, event |-> "admin", at |-> None,
         rcm |-> None, ok |-> FALSE]

Init == /\ kind \in [Orders -> Kinds]
        /\ status = [o \in Orders |-> "none"]
        /\ credited = [o \in Orders |-> 0]
        /\ checkout = [o \in Orders |-> "none"]
        /\ acked = {}
        /\ unread = {}
        /\ handler = [h \in Handlers |-> Idle]
        /\ orderLocks = [i \in Instances |-> [o \in Orders |-> None]]
        /\ lock = [l \in Locks |-> FreeLock]
        /\ faults = 0

-----------------------------------------------------------------------------
(* The request that creates an order.                                      *)

\* Stripe, and top-ups by epay: the provider is asked first, and the row is
\* inserted when it answered.
CheckoutFirst(o) == kind[o].provider = "stripe" \/ Is(o, "epay", "topup")

RequestPay(o) ==
    /\ status[o] = "none"
    /\ status' = [status EXCEPT ![o] = "pending"]
    /\ checkout' = IF CheckoutFirst(o) THEN [checkout EXCEPT ![o] = "open"] ELSE checkout
    /\ UNCHANGED <<kind, credited, acked, unread, handler, locks, faults>>

CheckoutCreated(o) ==
    /\ status[o] # "none" /\ checkout[o] = "none"
    /\ checkout' = [checkout EXCEPT ![o] = "open"]
    /\ UNCHANGED <<kind, status, credited, acked, unread, handler, locks, faults>>

\* The provider refused after the row was inserted.  The request saves its own
\* copy of the row as failed, without LockOrder (waffo, pancake), expires the
\* subscription order (epay), or leaves it pending (creem).
\* Mutant: every refused order is saved as failed.
StatusAfterRefusalFailed(o) == "failed"
StatusAfterRefusal(o) ==
    CASE kind[o].provider \in {"waffo", "pancake"} -> "failed"
      [] Is(o, "epay", "subscription") /\ status[o] = "pending" -> "expired"
      [] OTHER -> status[o]

CheckoutRefused(o) ==
    /\ status[o] # "none" /\ checkout[o] = "none"
    /\ checkout' = [checkout EXCEPT ![o] = "failed"]
    /\ status' = [status EXCEPT ![o] = StatusAfterRefusal(o)]
    /\ UNCHANGED <<kind, credited, acked, unread, handler, locks, faults>>

-----------------------------------------------------------------------------
(* The provider (external): an open checkout ends in one way.  Stripe      *)
(* reports payments, failures and expiry, the others but waffo payments    *)
(* only.  To handleWaffoPayment every status that is not PAY_SUCCESS is a  *)
(* failure, so its failures may come before a payment, or after it.        *)

Outcomes(o) == CASE kind[o].provider = "stripe" -> {"paid", "failed", "expired"}
                 [] kind[o].provider = "waffo" -> {"paid", "failed"}
                 [] OTHER -> {"paid"}

CheckoutEnds(o) ==
    /\ checkout[o] = "open"
    /\ \E r \in Outcomes(o) : checkout' = [checkout EXCEPT ![o] = r]
    /\ UNCHANGED <<kind, status, credited, acked, unread, handler, locks, faults>>

\* handleWaffoPayment marks a failure without LockOrder; sessionAsyncPaymentFailed
\* looks for a TopUp, which a subscription order has only once it is completed.
Unlocked(o, event) == kind[o].provider = "waffo" /\ event = "failed"
Notices(o) == {e \in Outcomes(o) :
                 /\ e = checkout[o] \/ (Unlocked(o, e) /\ checkout[o] # "none")
                 /\ ~(e = "failed" /\ kind[o].product = "subscription")}

Begin(h, o, i, event) ==
    /\ handler[h].pc = "idle"
    /\ handler' = [handler EXCEPT ![h] =
                     [pc |-> IF Unlocked(o, event) THEN "read" ELSE "lock",
                      order |-> o, event |-> event, at |-> i, rcm |-> None, ok |-> FALSE]]
    /\ UNCHANGED <<orders, locks, faults>>

\* A notification arrives, for the first time or again.
Notify(h, o, i) == \E event \in Notices(o) : Begin(h, o, i, event)

\* AdminCompleteTopUp.  For a subscription order ManualCompleteTopUp finds no row,
\* or one that is already successful, and changes nothing.
AdminCompleteTopUp(h, o, i) ==
    /\ status[o] # "none" /\ kind[o].product = "topup"
    /\ Begin(h, o, i, "admin")

-----------------------------------------------------------------------------
(* LockOrder and UnlockOrder.  Each first or last half is a critical       *)
(* section of createLock.                                                  *)

InUse(l) == \/ lock[l].refCount > 0
            \/ \E i \in Instances, o \in Orders : orderLocks[i][o] = l
NewLock == CHOOSE l \in Locks : ~InUse(l)

\* Mutant: the request does not count itself.
ReferencedNot(l) == lock
Referenced(l) == [lock EXCEPT ![l].refCount = @ + 1]

\* The mutex of the map, or a new one.
MutexOf(i, o, l) == IF orderLocks[i][o] # None THEN l = orderLocks[i][o]
                    ELSE ~InUse(l) /\ l = NewLock

LockOrder(h) ==
    LET o == handler[h].order
        i == handler[h].at
    IN  /\ handler[h].pc = "lock"
        /\ \E l \in Locks :
              /\ MutexOf(i, o, l)
              /\ orderLocks' = [orderLocks EXCEPT ![i][o] = l]
              /\ lock' = Referenced(l)
              /\ handler' = [handler EXCEPT ![h].pc = "wait", ![h].rcm = l]
        /\ UNCHANGED <<orders, faults>>

Acquire(h) ==
    /\ handler[h].pc = "wait"
    /\ lock[handler[h].rcm].holder = None
    /\ lock' = [lock EXCEPT ![handler[h].rcm].holder = h]
    /\ handler' = [handler EXCEPT ![h].pc = "read"]
    /\ UNCHANGED <<orders, orderLocks, faults>>

\* The handler is done: its reply goes out when it returns.
Answered(h) == acked' = IF handler[h].event = "paid" /\ handler[h].ok
                        THEN acked \cup {handler[h].order} ELSE acked

\* Mutant: mu.Unlock is left out.
UnheldNot(l) == lock
Unheld(l) == [lock EXCEPT ![l].holder = None]

\* UnlockOrder looks the mutex up by trade number; it returns when there is none.
UnlockOrder(h) ==
    LET l == orderLocks[handler[h].at][handler[h].order]
    IN  /\ handler[h].pc = "unlock"
        /\ \/ /\ l = None
              /\ handler' = [handler EXCEPT ![h] = Idle]
              /\ Answered(h)
              /\ UNCHANGED lock
           \/ /\ l # None
              /\ lock' = Unheld(l)
              /\ handler' = [handler EXCEPT ![h].pc = "release", ![h].rcm = l]
              /\ UNCHANGED acked
        /\ UNCHANGED <<kind, status, credited, checkout, unread, orderLocks, faults>>

\* Mutant: the mutex is deleted while others wait for it.
LastReferenceAlways(l) == TRUE
LastReference(l) == lock[l].refCount = 1

Release(h) ==
    LET l == handler[h].rcm
    IN  /\ handler[h].pc = "release"
        /\ lock' = [lock EXCEPT ![l].refCount = @ - 1]
        /\ orderLocks' = IF LastReference(l)
                         THEN [orderLocks EXCEPT ![handler[h].at][handler[h].order] = None]
                         ELSE orderLocks
        /\ handler' = [handler EXCEPT ![h] = Idle]
        /\ Answered(h)
        /\ UNCHANGED <<kind, status, credited, checkout, unread, faults>>

-----------------------------------------------------------------------------
(* The work under the mutex.                                               *)

Leave(h, ok) ==
    handler' = [handler EXCEPT ![h].ok = ok,
                  ![h].pc = IF Unlocked(handler[h].order, handler[h].event)
                            THEN "answer" ELSE "unlock"]

\* Stripe is answered 200 and epay "success" whatever happens; creem is answered
\* 200 for a top-up that is no longer pending.
IgnoresErrors(o) == kind[o].provider = "stripe" \/ Is(o, "epay", "topup")
ReplyNotPending(h, o) == \/ handler[h].event # "paid"
                         \/ status[o] = "success"
                         \/ IgnoresErrors(o)
                         \/ Is(o, "creem", "topup")

ReplyError(h, o) == handler[h].event # "paid" \/ IgnoresErrors(o)

StatusAfter(event) == IF event \in {"failed", "expired"} THEN event ELSE "success"

\* Mutant: the administrator's completion saves the row only.
CreditsPaid(event) == event = "paid"
Credits(event) == StatusAfter(event) = "success"

\* RechargeEpay reads with clause.Locking: its transaction is one step.
RowLocked(h) == Is(handler[h].order, "epay", "topup") /\ handler[h].event = "paid"

\* Mutant: a successful order is completed again.
MayWriteAgain(o) == status[o] \in {"pending", "success"}
MayWrite(o) == status[o] = "pending"

SaveOrder(h) ==
    LET o == handler[h].order
    IN  /\ status' = [status EXCEPT ![o] = StatusAfter(handler[h].event)]
        /\ credited' = IF Credits(handler[h].event) THEN [credited EXCEPT ![o] = @ + 1] ELSE credited
        /\ Leave(h, TRUE)

\* The row is read; a transaction goes on only when it is pending.
ReadOrder(h) ==
    /\ handler[h].pc = "read"
    /\ \/ /\ MayWrite(handler[h].order) /\ ~RowLocked(h)
          /\ handler' = [handler EXCEPT ![h].pc = "write"]
          /\ UNCHANGED <<status, credited>>
       \/ /\ MayWrite(handler[h].order) /\ RowLocked(h)
          /\ SaveOrder(h)
       \/ /\ ~MayWrite(handler[h].order)
          /\ Leave(h, ReplyNotPending(h, handler[h].order))
          /\ UNCHANGED <<status, credited>>
    /\ UNCHANGED <<kind, checkout, acked, unread, locks, faults>>

\* tx.Save of the whole row, the credit, the commission, and the commit.
WriteOrder(h) ==
    /\ handler[h].pc = "write"
    /\ SaveOrder(h)
    /\ UNCHANGED <<kind, checkout, acked, unread, locks, faults>>

\* The transaction fails and is rolled back.
TransactionFails(h) ==
    /\ handler[h].pc \in {"read", "write"}
    /\ faults < MaxFaults /\ faults' = faults + 1
    /\ Leave(h, ReplyError(h, handler[h].order))
    /\ UNCHANGED <<orders, locks>>

\* The order cannot be looked up because the database fails, and a payment is
\* answered 200 as one of an unknown order: pancake resolves the trade number
\* before LockOrder, and CompleteSubscriptionOrder calls every error not found,
\* which creem is answered 200 for unless the product is "onetime".
LookupFails(h) ==
    LET o == handler[h].order
    IN  /\ handler[h].event = "paid"
        /\ \/ /\ kind[o].provider = "pancake" /\ handler[h].pc = "lock"
              /\ handler' = [handler EXCEPT ![h].pc = "answer", ![h].ok = TRUE]
           \/ /\ Is(o, "creem", "subscription") /\ handler[h].pc = "read"
              /\ Leave(h, TRUE)
        /\ unread' = unread \cup {o}
        /\ faults < MaxFaults /\ faults' = faults + 1
        /\ UNCHANGED <<kind, status, credited, checkout, acked, locks>>

Answer(h) ==
    /\ handler[h].pc = "answer"
    /\ handler' = [handler EXCEPT ![h] = Idle]
    /\ Answered(h)
    /\ UNCHANGED <<kind, status, credited, checkout, unread, locks, faults>>

\* An application process dies: its requests end unanswered, its mutexes go.
Crash(i) ==
    LET dead == {h \in Handlers : handler[h].at = i}
    IN  /\ dead # {}
        /\ faults < MaxFaults /\ faults' = faults + 1
        /\ handler' = [h \in Handlers |-> IF h \in dead THEN Idle ELSE handler[h]]
        /\ orderLocks' = [orderLocks EXCEPT ![i] = [o \in Orders |-> None]]
        /\ lock' = [l \in Locks |-> IF \E h \in dead : handler[h].rcm = l
                                    THEN FreeLock ELSE lock[l]]
        /\ UNCHANGED orders

-----------------------------------------------------------------------------
Environment == \/ \E o \in Orders : \/ RequestPay(o) \/ CheckoutCreated(o)
                                    \/ CheckoutRefused(o) \/ CheckoutEnds(o)
               \/ \E h \in Handlers, o \in Orders, i \in Instances :
                     Notify(h, o, i) \/ AdminCompleteTopUp(h, o, i)

Runs(h) == \/ LockOrder(h) \/ ReadOrder(h) \/ WriteOrder(h) \/ Answer(h)
           \/ UnlockOrder(h) \/ Release(h)

Next == \/ Environment
        \/ \E h \in Handlers : Runs(h) \/ Acquire(h) \/ TransactionFails(h) \/ LookupFails(h)
        \/ \E i \in Instances : Crash(i)

\* A request runs on and a Go mutex hands itself over to the one that waits
\* longest; a provider sends a notification until it is answered (external).
Redelivered(o) == /\ checkout[o] = "paid" /\ o \notin acked
                  /\ \E h \in Handlers, i \in Instances : Begin(h, o, i, "paid")

Fairness == /\ \A h \in Handlers : WF_vars(Runs(h)) /\ SF_vars(Acquire(h))
            /\ \A o \in Orders : SF_vars(Redelivered(o))

Spec == Init /\ [][Next]_vars /\ Fairness

-----------------------------------------------------------------------------
\* The types of the rows, the requests and the mutexes; no count falls below zero.
POTypeOK ==
    /\ kind \in [Orders -> Kinds]
    /\ status \in [Orders -> Statuses]
    /\ credited \in [Orders -> Nat]
    /\ checkout \in [Orders -> Checkouts]
    /\ acked \subseteq Orders /\ unread \subseteq Orders
    /\ handler \in [Handlers -> [pc : {"idle", "lock", "wait", "read", "write", "answer",
                                       "unlock", "release"},
                                 order : Orders \cup {None}, event : Events,
                                 at : Instances \cup {None},
                                 rcm : Locks \cup {None}, ok : BOOLEAN]]
    /\ orderLocks \in [Instances -> [Orders -> Locks \cup {None}]]
    /\ lock \in [Locks -> [refCount : 0..Cardinality(Handlers), holder : Handlers \cup {None}]]
    /\ faults \in 0..MaxFaults

\* LockOrder works: in one process at most one request is between LockOrder
\* and UnlockOrder of the same trade number (but for the failure notice of
\* waffo, which takes no lock), although the mutex is created, shared and
\* deleted while others look it up; and the map does not grow: an order no
\* request of the process works on has no mutex.
InCriticalSection(h) == /\ handler[h].pc \in {"read", "write", "unlock"}
                        /\ ~Unlocked(handler[h].order, handler[h].event)
LockOrderWorks ==
    /\ \A g, h \in Handlers :
          /\ InCriticalSection(g) /\ InCriticalSection(h)
          /\ handler[g].order = handler[h].order /\ handler[g].at = handler[h].at
          => g = h
    /\ \A i \in Instances, o \in Orders :
          (\A h \in Handlers : handler[h].at = i => handler[h].order # o)
          => orderLocks[i][o] = None

\* However often a payment is notified, by whatever path and in whatever order
\* with the administrator's completion, refusals, expiry, crashes and failed
\* transactions, it is credited at most once.  It is LockOrder that gives it,
\* for one application process.
CreditedOnce == \A o \in Orders : credited[o] <= 1

\* What the row and the answer say is true.  A row that says success was credited;
\* where no status is written without LockOrder, a credited row says success; and
\* a provider that was told "success" for a payment, and will not send it again,
\* was told so of a credited order, but for the two that are told so always and
\* for the orders that could not be looked up.
WrittenUnderLock(o) == kind[o].provider \notin {"waffo", "pancake"}
SuccessMeansCredited ==
    \A o \in Orders :
       /\ status[o] = "success" => credited[o] = 1
       /\ WrittenUnderLock(o) /\ credited[o] = 1 => status[o] = "success"
       /\ o \in acked /\ ~IgnoresErrors(o) => credited[o] = 1 \/ o \in unread

\* A final status is never overwritten, where every status is written under LockOrder.
FinalStatusIsFinal ==
    [][\A o \in Orders : WrittenUnderLock(o) /\ status[o] \in FinalStatuses
                         => status'[o] = status[o]]_vars

\* Whoever pays is credited in the end, through lost answers, failed transactions
\* and crashes, when the provider is told of failures: unless a notification was
\* given up because the order could not be looked up, or waffo reported another
\* status before the payment, which ends the order.
GivenUp(o) == \/ o \in acked /\ o \in unread
              \/ kind[o].provider = "waffo" /\ status[o] = "failed"
PaidIsCredited ==
    \A o \in Orders : (checkout[o] = "paid" /\ ~IgnoresErrors(o))
                       ~> (credited[o] = 1 \/ GivenUp(o))

\* What the comment in the pancake webhook says of its answer 200 without a
\* credit: it is given for a webhook that can never be resolved, so the payment of
\* an order that exists is not dropped.  It does not hold: see LookupFails.
OnlyUnresolvableIsDropped ==
    \A o \in Orders : kind[o].provider = "pancake" /\ o \in acked /\ status[o] # "none"
                       => credited[o] = 1

=============================================================================
