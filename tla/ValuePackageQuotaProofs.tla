----------------------- MODULE ValuePackageQuotaProofs -----------------------
(* The ledger of a value package: AmountUsed is the quota of the usage      *)
(* records of the current epoch, up to what adjustments outside a billing   *)
(* session moved, for every set of requests and every plan; and its 7-day   *)
(* limit.                                                                   *)
EXTENDS ValuePackageQuota, QuotaSumsProofs

SubType ==
    [status : Statuses, startTime : Nat, endTime : Nat, amountUsed : Nat,
     quotaEpoch : Nat, resets : SUBSET Nat, lastResetTime : Nat,
     nextResetTime : Nat, charged : Nat, credited : Nat]

UsageType == [Requests -> [quota : Nat, quotaEpoch : Nat, createdAt : Nat]]

Quotas(u) == [r \in Requests |-> u[r].quota]

\* AmountUsed used accounts for the recorded quota, up to adjustments.
Accounts(used, recorded, charged, credited) ==
    /\ used <= recorded + charged
    /\ recorded <= used + credited

\* The row s accounts for the usage records u.
Ledger(u, s) ==
    /\ IsFiniteSet(Units(Quotas(u), EpochRequests(u, s)))
    /\ Total(Quotas(u), EpochRequests(u, s)) \in Nat
    /\ Accounts(s.amountUsed, Total(Quotas(u), EpochRequests(u, s)), s.charged, s.credited)
    /\ s.amountUsed <= AmountTotal
    /\ \A r \in Requests : HasUsage(u, r) => u[r].quotaEpoch <= s.quotaEpoch

\* A pre-consume record lives in the epoch of its usage record, and a
\* refunded request has no usage left.
RecordsAgree ==
    \A r \in Requests :
        /\ pre[r].status # "none" => /\ HasUsage(usage, r)
                                     /\ pre[r].quotaEpoch = usage[r].quotaEpoch
        /\ pre[r].status = "refunded" => usage[r].quota = 0

VPInv ==
    /\ VPTypeOK
    /\ now >= 1
    /\ Ledger(usage, sub)
    /\ RecordsAgree

----------------------------------------------------------------------------
(* Lemmas about the row.                                                    *)

SameAccount(s, t) ==
    /\ t.quotaEpoch = s.quotaEpoch /\ t.amountUsed = s.amountUsed
    /\ t.charged = s.charged /\ t.credited = s.credited

\* Two rows with the same epoch, AmountUsed and adjustments account for the
\* same records.
LEMMA LedgerFrame ==
    ASSUME NEW u, NEW s, NEW t, Ledger(u, s),
           SameAccount(s, t)
    PROVE  Ledger(u, t)
<1>1. EpochRequests(u, t) = EpochRequests(u, s)
  BY DEF EpochRequests, SameAccount
<1> QED
  BY <1>1 DEF Ledger, SameAccount

\* A new epoch has no usage records yet, so AmountUsed 0 accounts for it.
LEMMA NewEpochLedger ==
    ASSUME NEW u \in UsageType, NEW s \in SubType, NEW t, Ledger(u, s),
           t.quotaEpoch = s.quotaEpoch + 1, t.amountUsed = 0,
           t.charged = 0, t.credited = 0
    PROVE  Ledger(u, t)
<1>1. EpochRequests(u, t) = {}
  BY DEF EpochRequests, Ledger, UsageType, SubType
<1>2. /\ IsFiniteSet(Units(Quotas(u), EpochRequests(u, t)))
      /\ Total(Quotas(u), EpochRequests(u, t)) = 0
  BY <1>1, EmptyTotal
<1>3. 0 <= AmountTotal
  BY VPConstants
<1>4. \A r \in Requests : HasUsage(u, r) => u[r].quotaEpoch <= t.quotaEpoch
  BY DEF Ledger, UsageType, SubType
<1> QED
  BY <1>2, <1>3, <1>4 DEF Ledger, Accounts

\* The start of the current cycle is a natural number.
LEMMA CycleStartNat ==
    ASSUME NEW s \in SubType, NEW at \in Nat, at >= s.startTime
    PROVE  LatestCycleStart(s, at) \in Nat
<1>1. s.startTime \in Nat /\ Cycle \in Nat \ {0}
  BY VPConstants DEF SubType
<1>2. (at - s.startTime) \div Cycle \in Nat
  BY <1>1
<1> DEFINE k == (at - s.startTime) \div Cycle
<1> HIDE DEF k
<1>3. \A m, n \in Nat : m * n \in Nat
  OBVIOUS
<1>4. k * Cycle \in Nat
  BY <1>1, <1>2, <1>3 DEF k
<1> QED
  BY <1>1, <1>4 DEF LatestCycleStart, k

\* A transaction works with a positive time.
LEMMA ReadTimeNat ==
    ASSUME now \in Nat, NEW at \in ReadTimes
    PROVE  at \in Nat \ {0}
BY DEF ReadTimes

\* Opening an epoch keeps the row well formed and the ledger true.
LEMMA OpenEpochLedger ==
    ASSUME NEW u \in UsageType, NEW s \in SubType, NEW at \in Nat, Ledger(u, s)
    PROVE  /\ OpenEpoch(s, at) \in SubType
           /\ Ledger(u, OpenEpoch(s, at))
           /\ OpenEpoch(s, at).status = s.status
           /\ OpenEpoch(s, at).endTime = s.endTime
<1> DEFINE m == s.resets \cup {at}
<1> DEFINE e == s.quotaEpoch + 1
<1>1. m \in SUBSET Nat /\ e \in Nat
  BY DEF SubType
<1>2. OpenEpoch(s, at) \in SubType
  <2>1. OpenEpoch(s, at) = [s EXCEPT !.amountUsed = 0, !.quotaEpoch = e,
                                     !.resets = m, !.charged = 0, !.credited = 0]
    BY DEF OpenEpoch, SubType
  <2> HIDE DEF m, e
  <2>2. [s EXCEPT !.amountUsed = 0, !.quotaEpoch = e, !.resets = m,
                  !.charged = 0, !.credited = 0] \in SubType
    BY <1>1 DEF SubType
  <2> QED
    BY <2>1, <2>2
<1>3. /\ OpenEpoch(s, at).quotaEpoch = s.quotaEpoch + 1
      /\ OpenEpoch(s, at).amountUsed = 0
      /\ OpenEpoch(s, at).charged = 0 /\ OpenEpoch(s, at).credited = 0
      /\ OpenEpoch(s, at).status = s.status
      /\ OpenEpoch(s, at).endTime = s.endTime
  BY DEF OpenEpoch, SubType
<1> QED
  BY <1>2, <1>3, NewEpochLedger

\* So does running the cycle.
LEMMA AdvanceLedger ==
    ASSUME NEW u \in UsageType, NEW s \in SubType, NEW time \in Nat, Ledger(u, s)
    PROVE  LET t == maybeAdvanceValuePackageCycle(s, time)
           IN  t \in SubType /\ Ledger(u, t)
<1>1. CASE ~CycleDue(s, time)
  BY <1>1 DEF maybeAdvanceValuePackageCycle
<1>2. CASE CycleDue(s, time)
  <2> DEFINE at == LatestCycleStart(s, time)
  <2> DEFINE o == OpenEpoch(s, at)
  <2>1. time >= s.startTime
    BY <1>2, VPConstants DEF CycleDue, SubType
  <2>2. at \in Nat
    BY <2>1, CycleStartNat
  <2> HIDE DEF at
  <2>3. o \in SubType /\ Ledger(u, o)
    BY <2>2, OpenEpochLedger
  <2>4. NextResetAfter(s, at) \in Nat
    BY <2>2, VPConstants DEF NextResetAfter
  <2> HIDE DEF o
  <2> DEFINE t == [o EXCEPT !.lastResetTime = at, !.nextResetTime = NextResetAfter(s, at)]
  <2>5. t \in SubType /\ SameAccount(o, t)
    BY <2>2, <2>3, <2>4 DEF SubType, SameAccount
  <2>6. Ledger(u, t)
    BY <2>3, <2>5, LedgerFrame
  <2>7. maybeAdvanceValuePackageCycle(s, time) = t
    BY <1>2 DEF maybeAdvanceValuePackageCycle, at, o
  <2> QED
    BY <2>5, <2>6, <2>7
<1> QED
  BY <1>1, <1>2

----------------------------------------------------------------------------
(* Lemmas about the usage records.                                          *)

\* Replacing the quota of a request of the current epoch moves the sum by
\* the difference, and AmountUsed, clamped at zero, follows it.
LEMMA ReplaceCurrent ==
    ASSUME NEW u \in UsageType, NEW s \in SubType, NEW r \in Requests, NEW v \in Nat,
           NEW t \in SubType, Ledger(u, s), HasUsage(u, r), u[r].quotaEpoch = s.quotaEpoch,
           t.quotaEpoch = s.quotaEpoch,
           t.charged = s.charged, t.credited = s.credited,
           t.amountUsed = LargerOf(0, s.amountUsed + (v - u[r].quota)),
           t.amountUsed <= AmountTotal
    PROVE  Ledger([u EXCEPT ![r].quota = v], t)
<1> DEFINE w == [u EXCEPT ![r].quota = v]
<1> DEFINE S == EpochRequests(u, s)
<1>1. /\ w[r].quota = v
      /\ \A x \in Requests : /\ w[x].quotaEpoch = u[x].quotaEpoch
                             /\ w[x].createdAt = u[x].createdAt
                             /\ x # r => w[x] = u[x]
  BY DEF UsageType
<1>2. EpochRequests(w, t) = S
  BY <1>1 DEF EpochRequests, HasUsage
<1>3. r \in S /\ S \subseteq Requests
  BY DEF EpochRequests
<1>4. /\ Quotas(u)[r] = u[r].quota /\ Quotas(w)[r] = v /\ u[r].quota \in Nat
      /\ \A x \in S \ {r} : Quotas(w)[x] = Quotas(u)[x]
  BY <1>1, <1>3 DEF Quotas, UsageType
<1>5. /\ IsFiniteSet(Units(Quotas(u), S))
      /\ Accounts(s.amountUsed, Total(Quotas(u), S), s.charged, s.credited)
  BY DEF Ledger
<1>6. \A x \in Requests : HasUsage(w, x) => w[x].quotaEpoch <= t.quotaEpoch
  BY <1>1 DEF Ledger, HasUsage
<1> HIDE DEF w, S
<1> DEFINE q == Quotas(u)
<1> DEFINE p == Quotas(w)
<1>7. q[r] \in Nat /\ p[r] \in Nat /\ r \in S
  BY <1>3, <1>4
<1>8. \A x \in S \ {r} : p[x] = q[x]
  BY <1>4
<1>9. IsFiniteSet(Units(q, S))
  BY <1>5
<1>10. /\ IsFiniteSet(Units(p, S))
       /\ Total(p, S) = Total(q, S) - q[r] + p[r]
       /\ Total(q, S) \in Nat
  <2> HIDE DEF q, p
  <2> QED
    BY <1>7, <1>8, <1>9, ReplaceInTotal
<1>11. Total(p, S) \in Nat
  <2> HIDE DEF q, p
  <2>1. /\ Total(q, S \ {r}) \in Nat
        /\ Total(q, S) = Total(q, S \ {r}) + q[r]
    BY <1>7, <1>9, SplitTotal
  <2> QED
    BY <1>7, <1>10, <2>1
<1>12. Accounts(t.amountUsed, Total(p, S), t.charged, t.credited)
  <2> DEFINE a == s.amountUsed
  <2> DEFINE c == s.charged
  <2> DEFINE d == s.credited
  <2> DEFINE old == u[r].quota
  <2>1. a \in Nat /\ c \in Nat /\ d \in Nat /\ old \in Nat /\ t.charged = c /\ t.credited = d
    BY <1>4 DEF SubType
  <2>2. t.amountUsed = LargerOf(0, a + (v - old))
    OBVIOUS
  <2>3. Total(p, S) = Total(q, S) - old + v /\ Total(q, S) \in Nat
    BY <1>4, <1>10
  <2>4. a <= Total(q, S) + c /\ Total(q, S) <= a + d
    BY <1>5 DEF Accounts
  <2> HIDE DEF a, c, d, old, p, q
  <2> QED
    BY <1>11, <2>1, <2>2, <2>3, <2>4 DEF Accounts, LargerOf
<1> QED
  BY <1>2, <1>6, <1>10, <1>11, <1>12 DEF Ledger, w

\* Replacing the quota of a request of an older epoch leaves the sum alone.
LEMMA ReplaceOld ==
    ASSUME NEW u \in UsageType, NEW s \in SubType, NEW r \in Requests, NEW v \in Nat,
           Ledger(u, s), u[r].quotaEpoch # s.quotaEpoch
    PROVE  Ledger([u EXCEPT ![r].quota = v], s)
<1> DEFINE w == [u EXCEPT ![r].quota = v]
<1> DEFINE S == EpochRequests(u, s)
<1>1. \A x \in Requests : /\ w[x].quotaEpoch = u[x].quotaEpoch
                          /\ w[x].createdAt = u[x].createdAt
                          /\ x # r => w[x] = u[x]
  BY DEF UsageType
<1>2. EpochRequests(w, s) = S
  BY <1>1 DEF EpochRequests, HasUsage
<1>3. r \notin S /\ S \subseteq Requests
  BY DEF EpochRequests
<1>4. \A x \in S : Quotas(w)[x] = Quotas(u)[x]
  BY <1>1, <1>3 DEF Quotas
<1>5. /\ IsFiniteSet(Units(Quotas(u), S)) /\ Total(Quotas(u), S) \in Nat
      /\ Accounts(s.amountUsed, Total(Quotas(u), S), s.charged, s.credited)
  BY DEF Ledger
<1> HIDE DEF w, S
<1>6. Units(Quotas(w), S) = Units(Quotas(u), S) /\ Total(Quotas(w), S) = Total(Quotas(u), S)
  BY <1>4, SameTotal
<1>7. \A x \in Requests : HasUsage(w, x) => w[x].quotaEpoch <= s.quotaEpoch
  BY <1>1 DEF Ledger, HasUsage
<1>8. s.amountUsed <= AmountTotal
  BY DEF Ledger
<1> QED
  BY <1>2, <1>5, <1>6, <1>7, <1>8 DEF Ledger, w

\* Inserting the usage record of a fresh request adds its quota.
LEMMA InsertCurrent ==
    ASSUME NEW u \in UsageType, NEW s \in SubType, NEW r \in Requests, NEW v \in Nat,
           NEW at \in Nat \ {0}, NEW t, Ledger(u, s), ~HasUsage(u, r),
           t.quotaEpoch = s.quotaEpoch, t.amountUsed = s.amountUsed + v,
           t.charged = s.charged, t.credited = s.credited,
           t.amountUsed <= AmountTotal
    PROVE  Ledger([u EXCEPT ![r] = [quota |-> v, quotaEpoch |-> s.quotaEpoch,
                                    createdAt |-> at]], t)
<1> DEFINE w == [u EXCEPT ![r] = [quota |-> v, quotaEpoch |-> s.quotaEpoch,
                                  createdAt |-> at]]
<1> DEFINE S == EpochRequests(u, s)
<1>1. /\ w[r].quota = v /\ w[r].quotaEpoch = s.quotaEpoch /\ w[r].createdAt = at
      /\ \A x \in Requests : x # r => w[x] = u[x]
  BY DEF UsageType
<1>2. r \notin S /\ S \subseteq Requests
  BY DEF EpochRequests
<1>3. EpochRequests(w, t) = S \cup {r}
  BY <1>1 DEF EpochRequests, HasUsage
<1>4. Quotas(w)[r] = v /\ \A x \in S : Quotas(w)[x] = Quotas(u)[x]
  BY <1>1, <1>2 DEF Quotas
<1>5. /\ IsFiniteSet(Units(Quotas(u), S)) /\ Total(Quotas(u), S) \in Nat
      /\ Accounts(s.amountUsed, Total(Quotas(u), S), s.charged, s.credited)
  BY DEF Ledger
<1> HIDE DEF w, S
<1>6. Units(Quotas(w), S) = Units(Quotas(u), S) /\ Total(Quotas(w), S) = Total(Quotas(u), S)
  BY <1>4, SameTotal
<1>7. /\ IsFiniteSet(Units(Quotas(w), S \cup {r}))
      /\ Total(Quotas(w), S \cup {r}) = Total(Quotas(w), S) + Quotas(w)[r]
  BY <1>2, <1>4, <1>5, <1>6, AddToTotal
<1>8. \A x \in Requests : HasUsage(w, x) => w[x].quotaEpoch <= t.quotaEpoch
  <2> SUFFICES ASSUME NEW x \in Requests, HasUsage(w, x)
               PROVE  w[x].quotaEpoch <= s.quotaEpoch
    OBVIOUS
  <2>1. CASE x = r
    BY <1>1, <2>1 DEF SubType
  <2>2. CASE x # r
    BY <1>1, <2>2 DEF Ledger, HasUsage
  <2> QED
    BY <2>1, <2>2
<1>9. /\ Total(Quotas(w), S \cup {r}) \in Nat
      /\ Accounts(t.amountUsed, Total(Quotas(w), S \cup {r}), t.charged, t.credited)
  BY <1>4, <1>5, <1>6, <1>7 DEF Accounts, SubType
<1> QED
  BY <1>3, <1>7, <1>8, <1>9 DEF Ledger, w

----------------------------------------------------------------------------
(* The invariant, one lemma per transaction of a request.                   *)

\* Pre-consuming admits a fresh request into the current epoch.
LEMMA PreConsumePreserves ==
    ASSUME VPInv, NEW r \in Requests, NEW amount \in Amounts,
           NEW at \in ReadTimes, PreConsumeValuePackageSubscription(r, amount, at)
    PROVE  VPInv'
<1> DEFINE s == maybeAdvanceValuePackageCycle(sub, at)
<1> DEFINE row == [quota |-> amount, quotaEpoch |-> s.quotaEpoch, createdAt |-> at]
<1> DEFINE rec == [status |-> "consumed", preConsumed |-> amount,
                   quotaEpoch |-> s.quotaEpoch, updatedAt |-> now]
<1>1. /\ sub \in SubType /\ usage \in UsageType /\ now \in Nat /\ now >= 1
      /\ Ledger(usage, sub) /\ RecordsAgree /\ amount \in Nat /\ at \in Nat \ {0}
  BY VPConstants, ReadTimeNat DEF VPInv, VPTypeOK, SubType, UsageType
<1>2. s \in SubType /\ Ledger(usage, s)
  BY <1>1, AdvanceLedger
<1>3. /\ ~HasUsage(usage, r)
      /\ s.amountUsed + amount <= AmountTotal
      /\ pre' = [pre EXCEPT ![r] = rec]
      /\ usage' = [usage EXCEPT ![r] = row]
      /\ sub' = [s EXCEPT !.amountUsed = @ + amount]
      /\ now' = now /\ pref' = pref /\ overtaken' \in BOOLEAN
  BY DEF PreConsumeValuePackageSubscription, CanPreConsume, FreshRequest, UpsertUsage
<1> HIDE DEF s
<1>4. s.quotaEpoch \in Nat /\ s.amountUsed \in Nat
  BY <1>2 DEF SubType
<1> DEFINE a == s.amountUsed + amount
<1>5. a \in Nat
  BY <1>1, <1>4
<1>6. sub' = [s EXCEPT !.amountUsed = a]
  BY <1>2, <1>3 DEF SubType
<1> HIDE DEF a
<1>7. /\ sub' \in SubType /\ sub'.quotaEpoch = s.quotaEpoch /\ sub'.amountUsed = a
      /\ sub'.charged = s.charged /\ sub'.credited = s.credited
  BY <1>2, <1>5, <1>6 DEF SubType
<1>8. at \in Nat \ {0}
  BY <1>1
<1>9. Ledger(usage', sub')
  BY <1>1, <1>2, <1>3, <1>7, <1>8, InsertCurrent DEF a
<1>10. usage' \in UsageType
  <2>1. row \in [quota : Nat, quotaEpoch : Nat, createdAt : Nat]
    BY <1>1, <1>4
  <2> HIDE DEF row
  <2> QED
    BY <1>1, <1>3, <2>1 DEF UsageType
<1>11. pre' \in [Requests -> [status : {"none", "consumed", "refunded"},
                              preConsumed : Nat, quotaEpoch : Nat, updatedAt : Nat]]
  <2>1. rec \in [status : {"none", "consumed", "refunded"},
                 preConsumed : Nat, quotaEpoch : Nat, updatedAt : Nat]
    BY <1>1, <1>4
  <2> HIDE DEF rec
  <2> QED
    BY <1>3, <2>1 DEF VPInv, VPTypeOK
<1>12. RecordsAgree'
  <2> SUFFICES ASSUME NEW x \in Requests
               PROVE  /\ pre'[x].status # "none" =>
                           HasUsage(usage', x) /\ pre'[x].quotaEpoch = usage'[x].quotaEpoch
                      /\ pre'[x].status = "refunded" => usage'[x].quota = 0
    BY DEF RecordsAgree
  <2>1. CASE x = r
    <3>1. pre'[r] = rec /\ usage'[r] = row
      BY <1>3, <1>1 DEF VPInv, VPTypeOK, UsageType
    <3> QED
      BY <2>1, <3>1, <1>8 DEF HasUsage
  <2>2. CASE x # r
    <3>1. pre'[x] = pre[x] /\ usage'[x] = usage[x]
      BY <1>3, <1>1, <2>2 DEF VPInv, VPTypeOK, UsageType
    <3> QED
      BY <3>1, <1>1 DEF RecordsAgree, HasUsage
  <2> QED
    BY <2>1, <2>2
<1> QED
  BY <1>1, <1>3, <1>7, <1>9, <1>10, <1>11, <1>12
  DEF VPInv, VPTypeOK, SubType, UsageType

\* Replacing a request's target touches AmountUsed only in its own epoch.
LEMMA ReservePreserves ==
    ASSUME VPInv, NEW r \in Requests, NEW target \in Amounts,
           NEW at \in ReadTimes,
           pre[r].status = "consumed",
           ReserveValuePackageUsageToTarget(r, target, at)
    PROVE  VPInv'
<1> DEFINE s == maybeAdvanceValuePackageCycle(sub, at)
<1> DEFINE old == usage[r].quota
<1> DEFINE w == [usage EXCEPT ![r].quota = target]
<1>1. /\ sub \in SubType /\ usage \in UsageType /\ now \in Nat /\ now >= 1
      /\ Ledger(usage, sub) /\ RecordsAgree /\ target \in Nat /\ AmountTotal \in Nat
      /\ at \in Nat
  BY VPConstants, ReadTimeNat DEF VPInv, VPTypeOK, SubType, UsageType
<1>2. s \in SubType /\ Ledger(usage, s)
  BY <1>1, AdvanceLedger
<1>3. HasUsage(usage, r) /\ RequestEpoch(r, s) = usage[r].quotaEpoch
  BY DEF ReserveValuePackageUsageToTarget, RequestEpoch
<1>4. /\ usage' = w
      /\ sub' = IF s.quotaEpoch = usage[r].quotaEpoch
                THEN [s EXCEPT !.amountUsed = LargerOf(0, @ + (target - old))]
                ELSE s
      /\ now' = now /\ pre' = pre /\ pref' = pref /\ overtaken' \in BOOLEAN
  BY <1>3 DEF ReserveValuePackageUsageToTarget, UpsertUsage
<1>5. (s.quotaEpoch = usage[r].quotaEpoch /\ target - old > 0)
         => s.amountUsed + (target - old) <= AmountTotal
  BY <1>3 DEF ReserveValuePackageUsageToTarget, CanReserve
<1> HIDE DEF s
<1>6. s.quotaEpoch \in Nat /\ s.amountUsed \in Nat /\ s.amountUsed <= AmountTotal
  BY <1>2 DEF SubType, Ledger
<1>7. old \in Nat
  BY <1>1 DEF UsageType
<1>8. sub' \in SubType /\ Ledger(w, sub')
  <2>1. CASE s.quotaEpoch # usage[r].quotaEpoch
    BY <1>1, <1>2, <1>4, <2>1, ReplaceOld
  <2>2. CASE s.quotaEpoch = usage[r].quotaEpoch
    <3> DEFINE a == LargerOf(0, s.amountUsed + (target - old))
    <3>1. a \in Nat /\ a <= AmountTotal
      BY <1>1, <1>5, <1>6, <1>7, <2>2 DEF LargerOf
    <3>2. sub' = [s EXCEPT !.amountUsed = a]
      BY <1>2, <1>4, <2>2 DEF SubType
    <3> HIDE DEF a
    <3>3. /\ sub' \in SubType /\ sub'.quotaEpoch = s.quotaEpoch /\ sub'.amountUsed = a
          /\ sub'.charged = s.charged /\ sub'.credited = s.credited
      BY <1>2, <3>1, <3>2 DEF SubType
    <3>4. sub'.amountUsed = LargerOf(0, s.amountUsed + (target - usage[r].quota))
      BY <3>3 DEF a
    <3> QED
      BY <1>1, <1>2, <1>3, <2>2, <3>1, <3>3, <3>4, ReplaceCurrent
  <2> QED
    BY <2>1, <2>2
<1>9. w \in UsageType
  BY <1>1 DEF UsageType
<1>10. RecordsAgree'
  <2>1. \A x \in Requests : /\ w[x].quotaEpoch = usage[x].quotaEpoch
                            /\ w[x].createdAt = usage[x].createdAt
                            /\ x # r => w[x] = usage[x]
    BY <1>1 DEF UsageType
  <2> HIDE DEF w
  <2> QED
    BY <1>1, <1>4, <2>1 DEF RecordsAgree, HasUsage
<1> QED
  BY <1>1, <1>4, <1>8, <1>9, <1>10 DEF VPInv, VPTypeOK, SubType, UsageType

\* A refund gives quota back only in the epoch it was taken in.
LEMMA RefundPreserves ==
    ASSUME VPInv, NEW r \in Requests, RefundSubscriptionPreConsume(r)
    PROVE  VPInv'
<1> DEFINE old == usage[r].quota
<1> DEFINE w == [usage EXCEPT ![r].quota = 0]
<1>1. /\ sub \in SubType /\ usage \in UsageType /\ now \in Nat /\ now >= 1
      /\ Ledger(usage, sub) /\ RecordsAgree /\ 0 \in Nat
  BY DEF VPInv, VPTypeOK, SubType, UsageType
<1>2. HasUsage(usage, r) /\ pre[r].quotaEpoch = usage[r].quotaEpoch
  BY <1>1 DEF RecordsAgree, RefundSubscriptionPreConsume
<1>3. usage' = w /\ now' = now /\ pref' = pref /\ overtaken' = overtaken
  BY <1>2 DEF RefundSubscriptionPreConsume
<1>4. sub.amountUsed \in Nat /\ sub.amountUsed <= AmountTotal /\ old \in Nat
      /\ AmountTotal \in Nat
  BY <1>1, VPConstants DEF SubType, UsageType, Ledger
<1>5. /\ w \in UsageType
      /\ \A x \in Requests : /\ w[x].quotaEpoch = usage[x].quotaEpoch
                             /\ w[x].createdAt = usage[x].createdAt
                             /\ x # r => w[x] = usage[x]
      /\ w[r].quota = 0
  BY <1>1 DEF UsageType
<1>6. CASE pre[r].status = "refunded"
  <2>1. sub' = sub /\ pre' = pre
    BY <1>6 DEF RefundSubscriptionPreConsume
  <2>2. old = 0
    BY <1>1, <1>6 DEF RecordsAgree
  <2>3. Ledger(w, sub)
    <3>1. CASE usage[r].quotaEpoch # sub.quotaEpoch
      BY <1>1, <3>1, ReplaceOld
    <3>2. CASE usage[r].quotaEpoch = sub.quotaEpoch
      <4>1. sub.amountUsed = LargerOf(0, sub.amountUsed + (0 - usage[r].quota))
        BY <1>4, <2>2 DEF LargerOf
      <4> QED
        BY <1>1, <1>2, <1>4, <3>2, <4>1, ReplaceCurrent
    <3> QED
      BY <3>1, <3>2
  <2>4. RecordsAgree'
    <3> HIDE DEF w
    <3> QED
      BY <1>1, <1>3, <1>5, <2>1 DEF RecordsAgree, HasUsage
  <2> QED
    BY <1>1, <1>3, <1>5, <2>1, <2>3, <2>4 DEF VPInv, VPTypeOK, SubType, UsageType
<1>7. CASE pre[r].status # "refunded"
  <2>1. /\ pre' = [pre EXCEPT ![r].status = "refunded", ![r].updatedAt = now]
        /\ sub' = IF sub.quotaEpoch = usage[r].quotaEpoch
                  THEN [sub EXCEPT !.amountUsed = LargerOf(0, @ - old)]
                  ELSE sub
    BY <1>2, <1>7 DEF RefundSubscriptionPreConsume
  <2>2. sub' \in SubType /\ Ledger(w, sub')
    <3>1. CASE sub.quotaEpoch # usage[r].quotaEpoch
      BY <1>1, <2>1, <3>1, ReplaceOld
    <3>2. CASE sub.quotaEpoch = usage[r].quotaEpoch
      <4> DEFINE a == LargerOf(0, sub.amountUsed - old)
      <4>1. /\ a \in Nat /\ a <= AmountTotal
            /\ a = LargerOf(0, sub.amountUsed + (0 - old))
        BY <1>4 DEF LargerOf
      <4>2. sub' = [sub EXCEPT !.amountUsed = a]
        BY <1>1, <2>1, <3>2 DEF SubType
      <4> HIDE DEF a
      <4>3. /\ sub' \in SubType /\ sub'.quotaEpoch = sub.quotaEpoch /\ sub'.amountUsed = a
            /\ sub'.charged = sub.charged /\ sub'.credited = sub.credited
        BY <1>1, <4>1, <4>2 DEF SubType
      <4>4. sub'.amountUsed = LargerOf(0, sub.amountUsed + (0 - usage[r].quota))
        BY <4>1, <4>3
      <4> QED
        BY <1>1, <1>2, <3>2, <4>1, <4>3, <4>4, ReplaceCurrent
    <3> QED
      BY <3>1, <3>2
  <2>3. /\ pre' \in [Requests -> [status : {"none", "consumed", "refunded"},
                                  preConsumed : Nat, quotaEpoch : Nat, updatedAt : Nat]]
        /\ pre'[r].quotaEpoch = pre[r].quotaEpoch
        /\ \A x \in Requests : x # r => pre'[x] = pre[x]
    <3>1. pre \in [Requests -> [status : {"none", "consumed", "refunded"},
                                preConsumed : Nat, quotaEpoch : Nat, updatedAt : Nat]]
      BY DEF VPInv, VPTypeOK
    <3> QED
      BY <1>1, <2>1, <3>1
  <2>4. RecordsAgree'
    <3> HIDE DEF w
    <3> QED
      BY <1>1, <1>2, <1>3, <1>5, <2>3 DEF RecordsAgree, HasUsage
  <2> QED
    BY <1>1, <1>3, <1>5, <2>2, <2>3, <2>4 DEF VPInv, VPTypeOK, SubType, UsageType
<1> QED
  BY <1>6, <1>7

----------------------------------------------------------------------------
(* The owner, the administrator and the background task.                    *)

\* The invariant with the row replaced: what a step that changes only the row
\* and the preference has to establish.
LEMMA RowChange ==
    ASSUME VPInv, sub' \in SubType, Ledger(usage, sub'),
           pref' \in [enabled : BOOLEAN, resetCount : Nat],
           now' = now, pre' = pre, usage' = usage, overtaken' = overtaken
    PROVE  VPInv'
<1>1. RecordsAgree'
  BY DEF VPInv, RecordsAgree, HasUsage
<1> QED
  BY <1>1 DEF VPInv, VPTypeOK, SubType

\* A new status or end time keeps the ledger.
LEMMA StatusChange ==
    ASSUME VPInv, NEW st \in Statuses, NEW end \in Nat,
           sub' = [sub EXCEPT !.status = st, !.endTime = end],
           now' = now, pre' = pre, usage' = usage, pref' = pref, overtaken' = overtaken
    PROVE  VPInv'
<1>1. sub \in SubType /\ Ledger(usage, sub)
  BY DEF VPInv, VPTypeOK, SubType
<1>2. sub' \in SubType /\ SameAccount(sub, sub')
  BY <1>1 DEF SubType, SameAccount
<1>3. Ledger(usage, sub')
  BY <1>1, <1>2, LedgerFrame
<1> QED
  BY <1>2, <1>3, RowChange DEF VPInv, VPTypeOK

\* Synchronising the cycle schedule keeps the ledger.
LEMMA SyncLedger ==
    ASSUME NEW u \in UsageType, NEW s \in SubType, Ledger(u, s)
    PROVE  LET t == syncValuePackageCycleSchedule(s)
           IN  t \in SubType /\ Ledger(u, t)
<1> DEFINE last == LargerOf(s.lastResetTime, s.startTime)
<1> DEFINE next == NextResetAfter(s, last)
<1> DEFINE t == [s EXCEPT !.lastResetTime = last, !.nextResetTime = next]
<1>1. last \in Nat
  BY DEF LargerOf, SubType
<1>2. syncValuePackageCycleSchedule(s) = t
  BY DEF syncValuePackageCycleSchedule
<1> HIDE DEF last
<1>3. next \in Nat
  BY <1>1, VPConstants DEF NextResetAfter
<1> HIDE DEF next
<1>4. t \in SubType /\ SameAccount(s, t)
  BY <1>1, <1>3 DEF SubType, SameAccount
<1>5. Ledger(u, t)
  BY <1>4, LedgerFrame
<1> QED
  BY <1>2, <1>4, <1>5

\* So does a renewal, whether it restarts the package or appends time to it.
LEMMA RenewalLedger ==
    ASSUME NEW u \in UsageType, NEW s \in SubType, Ledger(u, s), NEW time \in Nat
    PROVE  LET t == extendValuePackageSubscription(s, time)
           IN  t \in SubType /\ Ledger(u, t)
<1>1. CASE RenewalExhausted(s, time)
  <2> DEFINE o == OpenEpoch(s, time)
  <2> DEFINE end == time + Cycle
  <2> DEFINE t == [o EXCEPT !.startTime = time, !.endTime = end,
                            !.lastResetTime = time, !.nextResetTime = 0]
  <2>1. o \in SubType /\ Ledger(u, o)
    BY OpenEpochLedger
  <2>2. end \in Nat
    BY VPConstants
  <2>3. extendValuePackageSubscription(s, time) = t
    BY <1>1 DEF extendValuePackageSubscription
  <2> HIDE DEF o, end
  <2>4. t \in SubType /\ SameAccount(o, t)
    BY <2>1, <2>2 DEF SubType, SameAccount
  <2>5. Ledger(u, t)
    BY <2>1, <2>4, LedgerFrame
  <2> QED
    BY <2>3, <2>4, <2>5
<1>2. CASE ~RenewalExhausted(s, time)
  <2> DEFINE end == s.endTime + Cycle
  <2> DEFINE t == [s EXCEPT !.endTime = end]
  <2>1. end \in Nat
    BY VPConstants DEF SubType
  <2>2. extendValuePackageSubscription(s, time) = syncValuePackageCycleSchedule(t)
    BY <1>2 DEF extendValuePackageSubscription, SubType
  <2> HIDE DEF end
  <2>3. t \in SubType /\ SameAccount(s, t)
    BY <2>1 DEF SubType, SameAccount
  <2>4. Ledger(u, t)
    BY <2>3, LedgerFrame
  <2> HIDE DEF t
  <2> QED
    BY <2>2, <2>3, <2>4, SyncLedger
<1> QED
  BY <1>1, <1>2

\* No operation of the owner, the administrator or the background task, and
\* no passage of time, disturbs the ledger.
LEMMA EnvironmentPreserves ==
    ASSUME VPInv, Environment
    PROVE  VPInv'
<1>1. /\ sub \in SubType /\ usage \in UsageType /\ now \in Nat /\ now >= 1
      /\ Ledger(usage, sub) /\ RecordsAgree
      /\ pref \in [enabled : BOOLEAN, resetCount : Nat]
  BY DEF VPInv, VPTypeOK, SubType, UsageType
<1>2. CASE \E at \in ReadTimes : ConsumeValuePackageResetCount(at)
  <2> PICK at \in ReadTimes : ConsumeValuePackageResetCount(at)
    BY <1>2
  <2>0. at \in Nat
    BY <1>1, ReadTimeNat
  <2>1. /\ pref.resetCount > 0 /\ sub' = OpenEpoch(sub, at)
        /\ pref' = [pref EXCEPT !.resetCount = @ - 1]
        /\ now' = now /\ pre' = pre /\ usage' = usage
        /\ overtaken' = overtaken
    BY DEF ConsumeValuePackageResetCount
  <2>2. sub' \in SubType /\ Ledger(usage, sub')
    BY <1>1, <2>0, <2>1, OpenEpochLedger
  <2>3. pref' \in [enabled : BOOLEAN, resetCount : Nat]
    <3> DEFINE n == pref.resetCount - 1
    <3>1. n \in Nat
      BY <1>1, <2>1
    <3>2. pref' = [pref EXCEPT !.resetCount = n]
      BY <1>1, <2>1
    <3> HIDE DEF n
    <3> QED
      BY <1>1, <3>1, <3>2
  <2> QED
    BY <2>1, <2>2, <2>3, RowChange
<1>3. CASE \E at \in ReadTimes : CompleteRenewalOrder(at)
  <2> PICK at \in ReadTimes : CompleteRenewalOrder(at)
    BY <1>3
  <2>0. at \in Nat
    BY <1>1, ReadTimeNat
  <2> DEFINE s == maybeAdvanceValuePackageCycle(sub, at)
  <2> DEFINE n == pref.resetCount + GiftCards
  <2>1. /\ sub' = extendValuePackageSubscription(s, at)
        /\ pref' = [enabled |-> TRUE, resetCount |-> n]
        /\ now' = now /\ pre' = pre /\ usage' = usage
        /\ overtaken' = overtaken
    BY DEF CompleteRenewalOrder
  <2>2. s \in SubType /\ Ledger(usage, s)
    BY <1>1, <2>0, AdvanceLedger
  <2>3. n \in Nat
    BY <1>1, VPConstants
  <2> HIDE DEF s, n
  <2>4. sub' \in SubType /\ Ledger(usage, sub')
    BY <1>1, <2>1, <2>0, <2>2, RenewalLedger
  <2>5. pref' \in [enabled : BOOLEAN, resetCount : Nat]
    BY <2>1, <2>3
  <2> QED
    BY <2>1, <2>4, <2>5, RowChange
<1>4. CASE ActivateValuePackage \/ DeactivateValuePackage
  <2>1. /\ \E b \in BOOLEAN : pref' = [pref EXCEPT !.enabled = b]
        /\ sub' = sub /\ now' = now /\ pre' = pre /\ usage' = usage
        /\ overtaken' = overtaken
    BY <1>4 DEF ActivateValuePackage, DeactivateValuePackage
  <2>2. pref' \in [enabled : BOOLEAN, resetCount : Nat]
    BY <1>1, <2>1
  <2> QED
    BY <1>1, <2>1, <2>2, RowChange
<1>5. CASE \/ CoverByUpgrade \/ AdminInvalidateUserSubscription
           \/ AdminDeleteUserSubscription \/ ExpireDueSubscriptions
  <2>1. sub.endTime \in Nat
    BY <1>1 DEF SubType
  <2>2. /\ now' = now /\ pre' = pre /\ usage' = usage /\ pref' = pref
        /\ overtaken' = overtaken
    BY <1>5 DEF CoverByUpgrade, AdminInvalidateUserSubscription,
                AdminDeleteUserSubscription, ExpireDueSubscriptions
  <2>3. CASE CoverByUpgrade
    <3>1. sub' = [sub EXCEPT !.status = "covered", !.endTime = sub.endTime]
      BY <1>1, <2>3 DEF CoverByUpgrade, SubType
    <3>2. "covered" \in Statuses
      BY DEF Statuses
    <3> QED
      BY <2>1, <2>2, <3>1, <3>2, StatusChange
  <2>4. CASE AdminInvalidateUserSubscription
    <3>1. sub' = [sub EXCEPT !.status = "cancelled", !.endTime = now]
      BY <2>4 DEF AdminInvalidateUserSubscription
    <3>2. "cancelled" \in Statuses
      BY DEF Statuses
    <3> QED
      BY <1>1, <2>2, <3>1, <3>2, StatusChange
  <2>5. CASE AdminDeleteUserSubscription
    <3>1. sub' = [sub EXCEPT !.status = "deleted", !.endTime = sub.endTime]
      BY <1>1, <2>5 DEF AdminDeleteUserSubscription, SubType
    <3>2. "deleted" \in Statuses
      BY DEF Statuses
    <3> QED
      BY <2>1, <2>2, <3>1, <3>2, StatusChange
  <2>6. CASE ExpireDueSubscriptions
    <3>1. sub' = [sub EXCEPT !.status = "expired", !.endTime = sub.endTime]
      BY <1>1, <2>6 DEF ExpireDueSubscriptions, SubType
    <3>2. "expired" \in Statuses
      BY DEF Statuses
    <3> QED
      BY <2>1, <2>2, <3>1, <3>2, StatusChange
  <2> QED
    BY <1>5, <2>3, <2>4, <2>5, <2>6
<1>6. CASE \E at \in ReadTimes : ResetDueSubscriptions(at)
  <2> PICK at \in ReadTimes : ResetDueSubscriptions(at)
    BY <1>6
  <2>0. at \in Nat
    BY <1>1, ReadTimeNat
  <2>1. /\ sub' = maybeAdvanceValuePackageCycle(sub, at)
        /\ now' = now /\ pre' = pre /\ usage' = usage /\ pref' = pref
        /\ overtaken' = overtaken
    BY DEF ResetDueSubscriptions
  <2>2. sub' \in SubType /\ Ledger(usage, sub')
    BY <1>1, <2>0, <2>1, AdvanceLedger
  <2> QED
    BY <1>1, <2>1, <2>2, RowChange
<1>7. CASE CleanupSubscriptionPreConsumeRecords
  <2>1. /\ pre' = [r \in Requests |-> IF pre[r].updatedAt < now - Retention THEN NoPre ELSE pre[r]]
        /\ now' = now /\ sub' = sub /\ usage' = usage /\ pref' = pref
        /\ overtaken' = overtaken
    BY <1>7 DEF CleanupSubscriptionPreConsumeRecords
  <2>2. \A r \in Requests : pre'[r] \in {NoPre, pre[r]}
    BY <2>1
  <2>3. NoPre \in [status : {"none", "consumed", "refunded"},
                   preConsumed : Nat, quotaEpoch : Nat, updatedAt : Nat]
        /\ NoPre.status = "none"
    BY DEF NoPre
  <2>4. pre' \in [Requests -> [status : {"none", "consumed", "refunded"},
                               preConsumed : Nat, quotaEpoch : Nat, updatedAt : Nat]]
    BY <2>1, <2>3 DEF VPInv, VPTypeOK
  <2>5. RecordsAgree'
    BY <1>1, <2>1, <2>2, <2>3 DEF RecordsAgree, HasUsage
  <2> QED
    BY <1>1, <2>1, <2>4, <2>5 DEF VPInv, VPTypeOK, SubType, UsageType
<1>8. CASE Tick
  <2>1. /\ now' = now + 1 /\ sub' = sub /\ pre' = pre /\ usage' = usage /\ pref' = pref
        /\ overtaken' = overtaken
    BY <1>8 DEF Tick
  <2>2. RecordsAgree'
    BY <1>1, <2>1 DEF RecordsAgree, HasUsage
  <2> QED
    BY <1>1, <2>1, <2>2 DEF VPInv, VPTypeOK, SubType, UsageType
<1> QED
  BY <1>2, <1>3, <1>4, <1>5, <1>6, <1>7, <1>8 DEF Environment

\* An adjustment moves AmountUsed by at most what it adds to the history.
LEMMA AdjustmentPreserves ==
    ASSUME VPInv, NEW delta \in Deltas, PostConsumeUserSubscriptionDelta(delta)
    PROVE  VPInv'
<1> DEFINE a == LargerOf(0, sub.amountUsed + delta)
<1> DEFINE c == sub.charged + LargerOf(0, delta)
<1> DEFINE d == sub.credited + LargerOf(0, -delta)
<1>1. sub \in SubType /\ Ledger(usage, sub) /\ delta \in Int
  BY VPConstants DEF VPInv, VPTypeOK, SubType
<1>2. sub.amountUsed \in Nat /\ sub.charged \in Nat /\ sub.credited \in Nat
  BY <1>1 DEF SubType
<1>3. /\ a \in Nat /\ c \in Nat /\ d \in Nat /\ a <= AmountTotal
  BY <1>1, <1>2 DEF LargerOf, PostConsumeUserSubscriptionDelta
<1>4. /\ sub' = [sub EXCEPT !.amountUsed = a, !.charged = c, !.credited = d]
      /\ now' = now /\ pre' = pre /\ usage' = usage /\ pref' = pref /\ overtaken' = overtaken
  BY <1>1 DEF PostConsumeUserSubscriptionDelta, SubType
<1> DEFINE U == Total(Quotas(usage), EpochRequests(usage, sub))
<1>5. U \in Nat /\ Accounts(sub.amountUsed, U, sub.charged, sub.credited)
  BY <1>1 DEF Ledger
<1> HIDE DEF U
<1>6. Accounts(a, U, c, d)
  BY <1>1, <1>2, <1>5 DEF Accounts, LargerOf
<1> HIDE DEF a, c, d
<1>7. /\ sub' \in SubType /\ sub'.quotaEpoch = sub.quotaEpoch /\ sub'.amountUsed = a
      /\ sub'.charged = c /\ sub'.credited = d
  BY <1>1, <1>3, <1>4 DEF SubType
<1>8. EpochRequests(usage, sub') = EpochRequests(usage, sub)
  BY <1>7 DEF EpochRequests
<1>9. Ledger(usage, sub')
  BY <1>1, <1>3, <1>5, <1>6, <1>7, <1>8 DEF Ledger, U
<1> QED
  BY <1>4, <1>7, <1>9, RowChange DEF VPInv, VPTypeOK

----------------------------------------------------------------------------
(* The theorems.                                                            *)

\* A freshly created package satisfies the invariant.
LEMMA InitEstablishes == VPInit => VPInv
<1> SUFFICES ASSUME VPInit PROVE VPInv
  OBVIOUS
<1> DEFINE row == [status |-> "active", startTime |-> 1, endTime |-> 1 + Cycle,
                   amountUsed |-> 0, quotaEpoch |-> 0, resets |-> {},
                   lastResetTime |-> 0, nextResetTime |-> 0,
                   charged |-> 0, credited |-> 0]
<1>1. now = 1 /\ sub = syncValuePackageCycleSchedule(row)
      /\ pre = [r \in Requests |-> NoPre] /\ usage = [r \in Requests |-> NoUsage]
      /\ pref = [enabled |-> TRUE, resetCount |-> InitCards] /\ overtaken = FALSE
  BY DEF VPInit
<1>2. row \in SubType
  <2>1. 1 + Cycle \in Nat
    BY VPConstants
  <2> QED
    BY <2>1 DEF SubType, Statuses
<1>3. row.quotaEpoch = 0 /\ row.amountUsed = 0 /\ row.charged = 0 /\ row.credited = 0
  OBVIOUS
<1> HIDE DEF row
<1>4. usage \in UsageType /\ \A r \in Requests : ~HasUsage(usage, r)
  BY <1>1 DEF UsageType, NoUsage, HasUsage
<1>5. Ledger(usage, row)
  <2>1. EpochRequests(usage, row) = {}
    BY <1>4 DEF EpochRequests
  <2>2. 0 <= AmountTotal
    BY VPConstants
  <2> QED
    BY <1>3, <1>4, <2>1, <2>2, EmptyTotal DEF Ledger, Accounts
<1>6. sub \in SubType /\ Ledger(usage, sub)
  BY <1>1, <1>2, <1>4, <1>5, SyncLedger
<1>7. RecordsAgree
  BY <1>1 DEF RecordsAgree, NoPre
<1>8. pre \in [Requests -> [status : {"none", "consumed", "refunded"},
                            preConsumed : Nat, quotaEpoch : Nat, updatedAt : Nat]]
  BY <1>1 DEF NoPre
<1>9. pref \in [enabled : BOOLEAN, resetCount : Nat]
  BY <1>1, VPConstants
<1>10. now \in Nat /\ now >= 1
  BY <1>1
<1> QED
  BY <1>1, <1>4, <1>6, <1>7, <1>8, <1>9, <1>10 DEF VPInv, VPTypeOK, SubType, UsageType

\* Every step keeps the invariant.
LEMMA NextPreserves == VPInv /\ [VPNext]_vpVars => VPInv'
<1> SUFFICES ASSUME VPInv, [VPNext]_vpVars PROVE VPInv'
  OBVIOUS
<1>1. CASE UNCHANGED vpVars
  <2>1. /\ now' = now /\ sub' = sub /\ pre' = pre /\ usage' = usage /\ pref' = pref
        /\ overtaken' = overtaken
    BY <1>1 DEF vpVars
  <2> QED
    BY <2>1, RowChange DEF VPInv, VPTypeOK, SubType
<1>2. CASE \E r \in Requests : RequestStep(r)
  <2>1. PICK r \in Requests : RequestStep(r)
    BY <1>2
  <2> QED
    BY <2>1, PreConsumePreserves, ReservePreserves, RefundPreserves, AdjustmentPreserves
    DEF RequestStep
<1>3. CASE Environment
  BY <1>3, EnvironmentPreserves
<1> QED
  BY <1>1, <1>2, <1>3 DEF VPNext

\* The ledger, the epochs of the records and the types hold together: this
\* is the inductive invariant behind the three theorems that follow.
THEOREM VPInvariant == VPSpec => []VPInv
BY InitEstablishes, NextPreserves, PTL DEF VPSpec

\* AmountUsed and the reset cards stay natural numbers under every
\* interleaving of pre-consume, reserve, refund, reset, renewal and expiry.
THEOREM VPTypeCorrect == VPSpec => []VPTypeOK
<1>1. VPInv => VPTypeOK
  BY DEF VPInv
<1> QED
  BY <1>1, VPInvariant, PTL

\* AmountUsed of the row is the usage of the current epoch up to what the
\* adjustments outside a billing session moved in that epoch, for any number of
\* requests, adjustments and resets; without adjustments the two are equal.
THEOREM LedgerKept == VPSpec => []LedgerOffByAdjustmentsOnly
<1>1. VPInv => LedgerOffByAdjustmentsOnly
  BY DEF VPInv, Ledger, Accounts, LedgerOffByAdjustmentsOnly, QuotaOf, Quotas
<1> QED
  BY <1>1, VPInvariant, PTL

\* No epoch of a package is ever used beyond the plan's total.
THEOREM TotalRespected == VPSpec => []NeverOverTotal
<1>1. VPInv => NeverOverTotal
  BY DEF VPInv, Ledger, NeverOverTotal
<1> QED
  BY <1>1, VPInvariant, PTL

\* A row before and after the cycle has run: AmountUsed is kept or zeroed,
\* and the epoch never goes back.
LEMMA AdvanceAmount ==
    ASSUME NEW s \in SubType, NEW time
    PROVE  LET t == maybeAdvanceValuePackageCycle(s, time)
           IN  t.amountUsed \in {0, s.amountUsed} /\ t.quotaEpoch >= s.quotaEpoch
<1>1. CASE ~CycleDue(s, time)
  BY <1>1 DEF maybeAdvanceValuePackageCycle, SubType
<1>2. CASE CycleDue(s, time)
  <2> DEFINE o == OpenEpoch(s, LatestCycleStart(s, time))
  <2>1. o.amountUsed = 0 /\ o.quotaEpoch = s.quotaEpoch + 1
    BY DEF OpenEpoch, SubType
  <2>2. /\ maybeAdvanceValuePackageCycle(s, time).amountUsed = o.amountUsed
        /\ maybeAdvanceValuePackageCycle(s, time).quotaEpoch = o.quotaEpoch
    BY <1>2 DEF maybeAdvanceValuePackageCycle, OpenEpoch, SubType
  <2> QED
    BY <2>1, <2>2 DEF SubType
<1> QED
  BY <1>1, <1>2

\* Settling or refunding a request of an earlier epoch never changes what the
\* current epoch has used.
THEOREM LateRequestsHarmless == VPSpec => LateRequestsLeaveNewEpochAlone
<1> DEFINE Late == \A r \in Requests :
                     (HasUsage(usage, r) /\ usage[r].quotaEpoch < sub.quotaEpoch
                        /\ usage'[r] # usage[r])
                     => sub'.amountUsed \in {0, sub.amountUsed}
<1>1. VPInv /\ [VPNext]_vpVars => [Late]_vpVars
  <2> SUFFICES ASSUME VPInv, VPNext, NEW r \in Requests,
                      HasUsage(usage, r), usage[r].quotaEpoch < sub.quotaEpoch,
                      usage'[r] # usage[r]
               PROVE  sub'.amountUsed \in {0, sub.amountUsed}
    OBVIOUS
  <2>1. sub \in SubType /\ usage \in UsageType /\ RecordsAgree
    BY DEF VPInv, VPTypeOK, SubType, UsageType
  <2>3. usage[r].quotaEpoch \in Nat /\ sub.quotaEpoch \in Nat
    BY <2>1 DEF UsageType, SubType
  <2>4. ~Environment
    BY DEF Environment, ConsumeValuePackageResetCount, CompleteRenewalOrder,
           ActivateValuePackage, DeactivateValuePackage, CoverByUpgrade,
           AdminInvalidateUserSubscription, AdminDeleteUserSubscription,
           ResetDueSubscriptions, ExpireDueSubscriptions,
           CleanupSubscriptionPreConsumeRecords, Tick
  <2>5. PICK x \in Requests : RequestStep(x)
    BY <2>4 DEF VPNext
  <2>6. CASE \E a \in Amounts, at \in ReadTimes : PreConsumeValuePackageSubscription(x, a, at)
    <3>1. ~HasUsage(usage, x) /\ \E row : usage' = [usage EXCEPT ![x] = row]
      BY <2>6 DEF PreConsumeValuePackageSubscription, FreshRequest, UpsertUsage
    <3>2. x # r
      BY <3>1
    <3>3. usage'[r] = usage[r]
      BY <2>1, <3>1, <3>2 DEF UsageType
    <3> QED
      BY <3>3
  <2>7. CASE \E a \in Amounts, at \in ReadTimes : ReserveValuePackageUsageToTarget(x, a, at)
    <3>1. PICK a \in Amounts, at \in ReadTimes : ReserveValuePackageUsageToTarget(x, a, at)
      BY <2>7
    <3> DEFINE s == maybeAdvanceValuePackageCycle(sub, at)
    <3>0. s.amountUsed \in {0, sub.amountUsed} /\ s.quotaEpoch >= sub.quotaEpoch
      BY <2>1, AdvanceAmount
    <3>2. HasUsage(usage, x) /\ usage' = [usage EXCEPT ![x].quota = a]
          /\ (s.quotaEpoch # usage[x].quotaEpoch => sub' = s)
      BY <3>1 DEF ReserveValuePackageUsageToTarget, RequestEpoch, UpsertUsage
    <3>3. x = r
      BY <2>1, <3>2 DEF UsageType
    <3>4. s.quotaEpoch # usage[x].quotaEpoch
      <4> HIDE DEF s
      <4>1. usage[r].quotaEpoch < sub.quotaEpoch
        OBVIOUS
      <4> SUFFICES ASSUME s.quotaEpoch = usage[r].quotaEpoch PROVE FALSE
        BY <3>3
      <4> QED
        BY <2>3, <3>0, <4>1
    <3> QED
      BY <3>0, <3>2, <3>4
  <2>8. CASE RefundSubscriptionPreConsume(x)
    <3>1. HasUsage(usage, x) /\ pre[x].quotaEpoch = usage[x].quotaEpoch
      BY <2>1, <2>8 DEF RefundSubscriptionPreConsume, RecordsAgree
    <3>2. usage' = [usage EXCEPT ![x].quota = 0]
      BY <2>8, <3>1 DEF RefundSubscriptionPreConsume
    <3>3. x = r
      BY <2>1, <3>2 DEF UsageType
    <3>4. sub.quotaEpoch # pre[x].quotaEpoch
      BY <2>3, <3>1, <3>3
    <3>5. sub' = sub
      BY <2>8, <3>4 DEF RefundSubscriptionPreConsume
    <3> QED
      BY <3>5
  <2>9. CASE \E d \in Deltas : PostConsumeUserSubscriptionDelta(d)
    BY <2>9 DEF PostConsumeUserSubscriptionDelta
  <2> QED
    BY <2>5, <2>6, <2>7, <2>8, <2>9 DEF RequestStep
<1> QED
  BY <1>1, VPInvariant, PTL DEF VPSpec, LateRequestsLeaveNewEpochAlone

----------------------------------------------------------------------------
(* The 7-day stage.                                                         *)

\* Where the stage begins to count.
StageStart(s, at) == LargerOf(AnchoredWindowStart(s, at), LastQuotaResetAt(s, at))

\* The records of the stage, those after the end of the package included.
Stage(u, s, at) == {r \in CurrentRecords(u, s, at) : u[r].createdAt >= StageStart(s, at)}

StageOK(u, s, at) == Limit7d > 0 => Total(Quotas(u), Stage(u, s, at)) <= Limit7d

\* The row was not started or reset in the future, and one reset is the last.
ResetsOK(s, at) ==
    /\ s.startTime <= at
    /\ \A x \in s.resets : x <= at
    /\ \E m \in s.resets \cup {0} : \A x \in s.resets : x <= m

CreatedOK(u, at) == \A r \in Requests : u[r].createdAt <= at

\* No record of the epoch of s is later than at.
SeenAt(u, s, at) ==
    \A r \in Requests : (HasUsage(u, r) /\ u[r].quotaEpoch = s.quotaEpoch) => u[r].createdAt <= at

StageInv ==
    /\ ResetsOK(sub, now)
    /\ CreatedOK(usage, now)
    /\ overtaken \/ StageOK(usage, sub, now)

----------------------------------------------------------------------------
\* A transaction works with a time that is not in the future.
LEMMA ReadsThePast ==
    ASSUME now \in Nat, NEW at \in ReadTimes
    PROVE  at \in Nat /\ at >= 1 /\ at <= now
BY DEF ReadTimes

\* Division with remainder, and what a later number does to the quotient.
LEMMA Quotients ==
    ASSUME NEW n \in Nat, NEW m \in Nat, n <= m, NEW w \in Nat \ {0}
    PROVE  /\ (n \div w) * w \in Nat /\ (m \div w) * w \in Nat
           /\ (n \div w) * w <= n /\ n < (n \div w) * w + w
           /\ m \div w = n \div w \/ (m \div w) * w > n
<1> DEFINE k == n \div w
<1> DEFINE j == m \div w
<1>1. k \in Nat /\ j \in Nat
  OBVIOUS
<1>2. k * w <= n /\ n < k * w + w
  OBVIOUS
<1>3. j * w <= m /\ m < j * w + w
  OBVIOUS
<1> HIDE DEF k, j
<1>4. \A x, y \in Nat : x * y \in Nat
  OBVIOUS
<1>5. k * w \in Nat /\ j * w \in Nat
  BY <1>1, <1>4
<1>6. \A x, y \in Nat : x < y => x * w + w <= y * w
  <2> SUFFICES ASSUME NEW x \in Nat, NEW y \in Nat, x < y PROVE x * w + w <= y * w
    OBVIOUS
  <2>1. (x + 1) * w <= y * w
    OBVIOUS
  <2>2. (x + 1) * w = x * w + w
    OBVIOUS
  <2> QED BY <2>1, <2>2
<1>7. CASE j < k
  BY <1>1, <1>2, <1>3, <1>5, <1>6, <1>7
<1>8. CASE k < j
  <2>1. k * w + w <= j * w
    BY <1>1, <1>6, <1>8
  <2>2. j * w > n
    BY <1>2, <1>5, <2>1
  <2> QED BY <1>2, <1>5, <2>2 DEF k, j
<1>9. CASE k = j
  BY <1>2, <1>5, <1>9 DEF k, j
<1> QED BY <1>1, <1>7, <1>8, <1>9

\* The stage that contains a moment, and the one of a later moment.
LEMMA AnchorFacts ==
    ASSUME NEW s \in SubType, NEW at \in Nat, NEW later \in Nat, s.startTime <= at, at <= later
    PROVE  /\ AnchoredWindowStart(s, at) \in Nat
           /\ AnchoredWindowStart(s, at) <= at
           /\ at < AnchoredWindowStart(s, at) + Window7d
           /\ \/ AnchoredWindowStart(s, later) = AnchoredWindowStart(s, at)
              \/ AnchoredWindowStart(s, later) > at
           /\ AnchoredWindowStart(s, later) \in Nat
<1> DEFINE n == at - s.startTime
<1> DEFINE m == later - s.startTime
<1> DEFINE k == (n \div Window7d) * Window7d
<1> DEFINE j == (m \div Window7d) * Window7d
<1>1. /\ s.startTime \in Nat /\ n \in Nat /\ m \in Nat /\ n <= m /\ Window7d \in Nat \ {0}
  BY VPConstants DEF SubType
<1>2. /\ LargerOf(at, s.startTime) - s.startTime = n
      /\ LargerOf(later, s.startTime) - s.startTime = m
  BY <1>1 DEF LargerOf
<1>3. /\ AnchoredWindowStart(s, at) = s.startTime + k
      /\ AnchoredWindowStart(s, later) = s.startTime + j
  BY <1>2 DEF AnchoredWindowStart
<1>4. /\ k \in Nat /\ k <= n /\ n < k + Window7d
      /\ j = k \/ j > n
      /\ j \in Nat
  <2> HIDE DEF n, m
  <2>1. k \in Nat /\ k <= n /\ n < k + Window7d
    BY <1>1, Quotients
  <2>2. m \div Window7d = n \div Window7d \/ j > n
    BY <1>1, Quotients
  <2>3. j \in Nat
    BY <1>1, Quotients
  <2> QED BY <2>1, <2>2, <2>3
<1> HIDE DEF k, j
<1>5. at = s.startTime + n
  BY <1>1
<1> QED BY <1>1, <1>3, <1>4, <1>5

\* MAX(reset_at) exists and is the latest reset.
LEMMA LastResetFacts ==
    ASSUME NEW s \in SubType, NEW at \in Nat, ResetsOK(s, at)
    PROVE  LET last == LastQuotaResetAt(s, at)
           IN  /\ last \in s.resets \cup {0} /\ last \in Nat
               /\ \A x \in s.resets : x <= last
<1>1. s.resets \subseteq Nat
  BY DEF SubType
<1>2. \E t \in s.resets \cup {0} : t <= at /\ \A x \in s.resets : x <= at => x <= t
  BY <1>1 DEF ResetsOK
<1> DEFINE last == LastQuotaResetAt(s, at)
<1>3. /\ last \in s.resets \cup {0}
      /\ \A x \in s.resets : x <= at => x <= last
  BY <1>2 DEF LastQuotaResetAt
<1> HIDE DEF last
<1> QED BY <1>1, <1>3 DEF ResetsOK, last

\* The stage starts at its anchor or at the last reset after it.
LEMMA StageStartFacts ==
    ASSUME NEW s \in SubType, NEW at \in Nat, ResetsOK(s, at)
    PROVE  /\ StageStart(s, at) \in Nat
           /\ StageStart(s, at) >= AnchoredWindowStart(s, at)
<1>1. LastQuotaResetAt(s, at) \in Nat
  BY LastResetFacts
<1>2. AnchoredWindowStart(s, at) \in Nat
  <2>1. at <= at
    OBVIOUS
  <2> QED BY <2>1, AnchorFacts DEF ResetsOK
<1> QED BY <1>1, <1>2 DEF StageStart, LargerOf

\* The stage is part of the epoch, so its quota can be summed.
LEMMA StageIsFinite ==
    ASSUME NEW u \in UsageType, NEW s \in SubType, NEW at, Ledger(u, s)
    PROVE  /\ Stage(u, s, at) \subseteq EpochRequests(u, s)
           /\ Stage(u, s, at) \subseteq Requests
           /\ IsFiniteSet(Units(Quotas(u), Stage(u, s, at)))
           /\ Total(Quotas(u), Stage(u, s, at)) \in Nat
<1>1. /\ Stage(u, s, at) \subseteq EpochRequests(u, s)
      /\ Stage(u, s, at) \subseteq Requests
  BY DEF Stage, CurrentRecords, EpochRequests
<1>2. IsFiniteSet(Units(Quotas(u), EpochRequests(u, s)))
  BY DEF Ledger
<1>3. \A x \in Stage(u, s, at) : Quotas(u)[x] \in Nat /\ Quotas(u)[x] <= Quotas(u)[x]
  BY <1>1 DEF Quotas, UsageType
<1> DEFINE S == Stage(u, s, at)
<1> DEFINE T == EpochRequests(u, s)
<1> DEFINE q == Quotas(u)
<1> HIDE DEF S, T, q
<1>4. IsFiniteSet(Units(q, S)) /\ Total(q, S) \in Nat
  BY <1>1, <1>2, <1>3, SmallerTotal DEF S, T, q
<1> QED BY <1>1, <1>4 DEF S, q

\* A stage with fewer records of smaller quota is within the limit as well.
LEMMA SmallerStage ==
    ASSUME NEW u \in UsageType, NEW v \in UsageType, NEW s \in SubType, NEW t,
           NEW at, NEW later, Ledger(u, s), StageOK(u, s, at),
           Stage(v, t, later) \subseteq Stage(u, s, at),
           \A x \in Stage(v, t, later) : v[x].quota <= u[x].quota
    PROVE  StageOK(v, t, later)
<1> DEFINE S == Stage(v, t, later)
<1> DEFINE T == Stage(u, s, at)
<1> DEFINE q == Quotas(u)
<1> DEFINE p == Quotas(v)
<1>1. T \subseteq Requests /\ IsFiniteSet(Units(q, T))
  BY StageIsFinite
<1>2. \A x \in S : p[x] \in Nat /\ q[x] \in Nat /\ p[x] <= q[x]
  BY <1>1 DEF Quotas, UsageType
<1>3. S \subseteq T
  OBVIOUS
<1> HIDE DEF S, T, p, q
<1>4. Total(p, S) \in Nat /\ Total(q, T) \in Nat /\ Total(p, S) <= Total(q, T)
  BY <1>1, <1>2, <1>3, SmallerTotal
<1>5. Limit7d > 0 => Total(q, T) <= Limit7d
  BY DEF StageOK, T, q
<1>6. Limit7d > 0 => Total(p, S) <= Limit7d
  BY <1>4, <1>5, VPConstants
<1> QED BY <1>6 DEF StageOK, S, p

\* The quota of the 7-day window is at most that of the stage, and equal to it
\* while the package has not ended.
LEMMA WindowOfStage ==
    ASSUME NEW u \in UsageType, NEW s \in SubType, NEW at \in Nat, Ledger(u, s),
           ResetsOK(s, at)
    PROVE  /\ Used7d(u, s, at) \in Nat
           /\ Used7d(u, s, at) <= Total(Quotas(u), Stage(u, s, at))
           /\ s.endTime > at => Used7d(u, s, at) = Total(Quotas(u), Stage(u, s, at))
<1> DEFINE anchored == AnchoredWindowStart(s, at)
<1> DEFINE end == IF anchored + Window7d > s.endTime THEN s.endTime ELSE anchored + Window7d
<1> DEFINE W == {r \in CurrentRecords(u, s, at) : u[r].createdAt \in StageStart(s, at)..(end - 1)}
<1> DEFINE S == Stage(u, s, at)
<1> DEFINE q == Quotas(u)
<1>1. Used7d(u, s, at) = Total(q, W)
  BY DEF Used7d, QuotaOf, Quotas, StageStart
<1>2. /\ anchored \in Nat /\ at < anchored + Window7d /\ StageStart(s, at) \in Nat
      /\ s.endTime \in Nat /\ end \in Nat
  <2>1. at <= at
    OBVIOUS
  <2> QED BY <2>1, AnchorFacts, StageStartFacts, VPConstants DEF ResetsOK, SubType
<1>3. \A r \in CurrentRecords(u, s, at) :
         r \in Requests /\ u[r].createdAt \in Nat /\ u[r].createdAt <= at
  BY DEF CurrentRecords, UsageType, SubType
<1>4. W \subseteq S
  BY <1>2, <1>3 DEF Stage
<1>5. s.endTime > at => W = S
  <2> SUFFICES ASSUME s.endTime > at, NEW r \in S PROVE r \in W
    BY <1>4
  <2>1. r \in CurrentRecords(u, s, at) /\ u[r].createdAt >= StageStart(s, at)
    BY DEF Stage
  <2>2. end > at
    BY <1>2
  <2>3. u[r].createdAt <= end - 1
    BY <1>2, <1>3, <2>1, <2>2
  <2> QED BY <1>2, <1>3, <2>1, <2>3
<1>6. IsFiniteSet(Units(q, S)) /\ Total(q, S) \in Nat /\ S \subseteq Requests
  BY StageIsFinite
<1>7. \A x \in W : q[x] \in Nat /\ q[x] <= q[x]
  BY <1>4, <1>6 DEF Quotas, UsageType
<1> HIDE DEF W, S, q
<1>8. Total(q, W) \in Nat /\ Total(q, W) <= Total(q, S)
  BY <1>4, <1>6, <1>7, SmallerTotal
<1> QED BY <1>1, <1>5, <1>8 DEF S, q

\* Time leads into a later stage, which has no records yet, or stays in this
\* one: what is within the limit at a time that sees every record of the epoch
\* is within it later.  A reset or a restart after that time only cuts records
\* off.
LEMMA LaterStage ==
    ASSUME NEW u \in UsageType, NEW s \in SubType, NEW at \in Nat, NEW later \in Nat,
           at <= later, Ledger(u, s), ResetsOK(s, later), SeenAt(u, s, at),
           ResetsOK(s, at) => StageOK(u, s, at)
    PROVE  StageOK(u, s, later)
<1>1. \A r \in Stage(u, s, later) :
         /\ r \in Requests /\ HasUsage(u, r) /\ u[r].quotaEpoch = s.quotaEpoch /\ u[r].quota > 0
         /\ u[r].createdAt \in Nat /\ u[r].createdAt <= at
         /\ u[r].createdAt >= StageStart(s, later) /\ u[r].createdAt >= s.startTime
  BY DEF Stage, CurrentRecords, SeenAt, UsageType, SubType
<1>2. s.startTime \in Nat /\ s.resets \subseteq Nat
  BY DEF SubType
<1>3. /\ LastQuotaResetAt(s, later) \in s.resets \cup {0} /\ LastQuotaResetAt(s, later) \in Nat
      /\ \A x \in s.resets : x <= LastQuotaResetAt(s, later)
  BY LastResetFacts
<1>4. /\ StageStart(s, later) \in Nat
      /\ StageStart(s, later) >= AnchoredWindowStart(s, later)
      /\ AnchoredWindowStart(s, later) \in Nat
      /\ StageStart(s, later) >= LastQuotaResetAt(s, later)
  <2>1. /\ StageStart(s, later) \in Nat
        /\ StageStart(s, later) >= AnchoredWindowStart(s, later)
    BY StageStartFacts
  <2>2. AnchoredWindowStart(s, later) \in Nat
    <3>1. later <= later
      OBVIOUS
    <3> QED BY <3>1, AnchorFacts DEF ResetsOK
  <2> QED BY <1>3, <2>1, <2>2 DEF StageStart, LargerOf
<1>5. ASSUME Stage(u, s, later) = {} PROVE StageOK(u, s, later)
  <2>1. Total(Quotas(u), Stage(u, s, later)) = 0
    BY <1>5, EmptyTotal
  <2> QED BY <2>1, VPConstants DEF StageOK
<1>6. CASE s.startTime > at
  <2>1. Stage(u, s, later) = {}
    BY <1>1, <1>2, <1>6
  <2> QED BY <1>5, <2>1
<1>7. CASE \E x \in s.resets : x > at
  <2>1. PICK x \in s.resets : x > at
    BY <1>7
  <2>2. StageStart(s, later) > at
    BY <1>2, <1>3, <1>4, <2>1
  <2>3. Stage(u, s, later) = {}
    BY <1>1, <1>4, <2>2
  <2> QED BY <1>5, <2>3
<1>8. CASE s.startTime <= at /\ \A x \in s.resets : x <= at
  <2>1. ResetsOK(s, at)
    BY <1>8 DEF ResetsOK
  <2>2. /\ LastQuotaResetAt(s, at) \in s.resets \cup {0} /\ LastQuotaResetAt(s, at) \in Nat
        /\ \A x \in s.resets : x <= LastQuotaResetAt(s, at)
    BY <2>1, LastResetFacts
  <2>3. LastQuotaResetAt(s, later) = LastQuotaResetAt(s, at)
    <3> DEFINE a == LastQuotaResetAt(s, at)
    <3> DEFINE b == LastQuotaResetAt(s, later)
    <3>1. a \in s.resets \cup {0} /\ a \in Nat /\ \A x \in s.resets : x <= a
      BY <2>2
    <3>2. b \in s.resets \cup {0} /\ b \in Nat /\ \A x \in s.resets : x <= b
      BY <1>3
    <3> HIDE DEF a, b
    <3>3. a <= b /\ b <= a
      BY <3>1, <3>2
    <3>4. a = b
      BY <3>1, <3>2, <3>3
    <3> QED BY <3>4 DEF a, b
  <2>4. CASE AnchoredWindowStart(s, later) = AnchoredWindowStart(s, at)
    <3>1. StageStart(s, later) = StageStart(s, at)
      BY <2>3, <2>4 DEF StageStart
    <3>2. Stage(u, s, later) \subseteq Stage(u, s, at)
      BY <1>1, <1>2, <3>1 DEF Stage, CurrentRecords
    <3>3. \A x \in Stage(u, s, later) : u[x].quota <= u[x].quota
      BY <1>1 DEF UsageType
    <3> QED BY <2>1, <3>2, <3>3, SmallerStage
  <2>5. CASE AnchoredWindowStart(s, later) > at
    <3>1. StageStart(s, later) > at
      BY <1>4, <2>5
    <3>2. Stage(u, s, later) = {}
      BY <1>1, <1>4, <3>1
    <3> QED BY <1>5, <3>2
  <2> QED BY <1>8, <2>4, <2>5, AnchorFacts
<1> QED BY <1>2, <1>6, <1>7, <1>8

----------------------------------------------------------------------------
(* Changes of the row.                                                      *)

\* Row t follows row s: it has the same stage, or opens a new epoch.
Follows(s, t, at) ==
    \/ t.startTime = s.startTime /\ t.quotaEpoch = s.quotaEpoch /\ t.resets = s.resets
    \/ t.quotaEpoch > s.quotaEpoch /\ ResetsOK(t, at)

\* The stage of a new epoch is empty, so a row that follows keeps the limit.
LEMMA FollowingRow ==
    ASSUME NEW u \in UsageType, NEW s \in SubType, NEW t \in SubType, NEW at \in Nat,
           Ledger(u, s), ResetsOK(s, at), Follows(s, t, at)
    PROVE  ResetsOK(t, at) /\ (StageOK(u, s, at) => StageOK(u, t, at))
<1>1. CASE t.startTime = s.startTime /\ t.quotaEpoch = s.quotaEpoch /\ t.resets = s.resets
  <2>1. ResetsOK(t, at)
    BY <1>1 DEF ResetsOK
  <2>2. CurrentRecords(u, t, at) = CurrentRecords(u, s, at)
    BY <1>1 DEF CurrentRecords
  <2>3. StageStart(t, at) = StageStart(s, at)
    BY <1>1 DEF StageStart, AnchoredWindowStart, LastQuotaResetAt
  <2>4. Stage(u, t, at) = Stage(u, s, at)
    BY <2>2, <2>3 DEF Stage
  <2> QED BY <2>1, <2>4 DEF StageOK
<1>2. CASE t.quotaEpoch > s.quotaEpoch /\ ResetsOK(t, at)
  <2>1. Stage(u, t, at) = {}
    BY <1>2 DEF Stage, CurrentRecords, Ledger, UsageType, SubType
  <2>2. Total(Quotas(u), Stage(u, t, at)) = 0
    BY <2>1, EmptyTotal
  <2> QED BY <1>2, <2>2, VPConstants DEF StageOK
<1> QED BY <1>1, <1>2 DEF Follows

\* Opening an epoch at a moment that is not in the future.
LEMMA OpenEpochFollows ==
    ASSUME NEW s \in SubType, NEW x \in Nat, NEW at \in Nat, x <= at, ResetsOK(s, at)
    PROVE  LET t == OpenEpoch(s, x)
           IN  t.quotaEpoch = s.quotaEpoch + 1 /\ ResetsOK(t, at)
               /\ t.startTime = s.startTime /\ t.endTime = s.endTime
               /\ t.resets = s.resets \cup {x}
<1> DEFINE t == OpenEpoch(s, x)
<1>1. /\ t.quotaEpoch = s.quotaEpoch + 1 /\ t.startTime = s.startTime
      /\ t.endTime = s.endTime /\ t.resets = s.resets \cup {x}
  BY DEF OpenEpoch, SubType
<1>2. PICK m \in s.resets \cup {0} : \A y \in s.resets : y <= m
  BY DEF ResetsOK
<1>3. s.resets \subseteq Nat /\ m \in Nat
  BY DEF SubType
<1> DEFINE M == IF m >= x THEN m ELSE x
<1>4. M \in s.resets \cup {x} \cup {0} /\ \A y \in s.resets \cup {x} : y <= M
  BY <1>2, <1>3
<1> HIDE DEF t, M
<1>5. ResetsOK(t, at)
  BY <1>1, <1>3, <1>4 DEF ResetsOK
<1> QED BY <1>1, <1>5 DEF t

\* Running the cycle with a time that is not in the future.
LEMMA AdvanceFollows ==
    ASSUME NEW s \in SubType, NEW time \in Nat, NEW at \in Nat, time <= at, ResetsOK(s, at)
    PROVE  LET t == maybeAdvanceValuePackageCycle(s, time)
           IN  Follows(s, t, at) /\ t.endTime = s.endTime
<1>1. CASE ~CycleDue(s, time)
  BY <1>1 DEF maybeAdvanceValuePackageCycle, Follows
<1>2. CASE CycleDue(s, time)
  <2> DEFINE x == LatestCycleStart(s, time)
  <2> DEFINE o == OpenEpoch(s, x)
  <2> DEFINE t == [o EXCEPT !.lastResetTime = x, !.nextResetTime = NextResetAfter(s, x)]
  <2>1. maybeAdvanceValuePackageCycle(s, time) = t
    BY <1>2 DEF maybeAdvanceValuePackageCycle
  <2>2. x \in Nat /\ x <= at
    <3> DEFINE n == time - s.startTime
    <3>1. n \in Nat /\ n <= n /\ s.startTime \in Nat /\ Cycle \in Nat \ {0}
      BY <1>2, VPConstants DEF CycleDue, SubType
    <3> HIDE DEF n
    <3>2. (n \div Cycle) * Cycle \in Nat /\ (n \div Cycle) * Cycle <= n
      BY <3>1, Quotients
    <3> DEFINE k == (n \div Cycle) * Cycle
    <3>3. x = s.startTime + k
      BY DEF LatestCycleStart, n
    <3> HIDE DEF k
    <3>4. time = s.startTime + n
      BY <3>1 DEF n
    <3> QED BY <3>1, <3>2, <3>3, <3>4 DEF k
  <2> HIDE DEF x
  <2>3. /\ o.quotaEpoch = s.quotaEpoch + 1 /\ ResetsOK(o, at) /\ o.endTime = s.endTime
    BY <2>2, OpenEpochFollows
  <2>4. /\ t.quotaEpoch = o.quotaEpoch /\ t.resets = o.resets
        /\ t.startTime = o.startTime /\ t.endTime = o.endTime
    BY DEF OpenEpoch, SubType
  <2> HIDE DEF o, t
  <2>5. ResetsOK(t, at)
    BY <2>3, <2>4 DEF ResetsOK
  <2>6. t.quotaEpoch > s.quotaEpoch
    BY <2>3, <2>4 DEF SubType
  <2> QED BY <2>1, <2>3, <2>4, <2>5, <2>6 DEF Follows
<1> QED BY <1>1, <1>2

\* A renewal, whether it restarts the package or appends time to it.
LEMMA RenewalFollows ==
    ASSUME NEW s \in SubType, NEW time \in Nat, NEW at \in Nat, time <= at, ResetsOK(s, at)
    PROVE  Follows(s, extendValuePackageSubscription(s, time), at)
<1>1. CASE RenewalExhausted(s, time)
  <2> DEFINE o == OpenEpoch(s, time)
  <2> DEFINE t == [o EXCEPT !.startTime = time, !.endTime = time + Cycle,
                            !.lastResetTime = time, !.nextResetTime = 0]
  <2>1. extendValuePackageSubscription(s, time) = t
    BY <1>1 DEF extendValuePackageSubscription
  <2>2. o.quotaEpoch = s.quotaEpoch + 1 /\ ResetsOK(o, at)
    BY OpenEpochFollows
  <2>3. t.quotaEpoch = o.quotaEpoch /\ t.resets = o.resets /\ t.startTime = time
    BY DEF OpenEpoch, SubType
  <2> HIDE DEF o, t
  <2>4. ResetsOK(t, at)
    BY <2>2, <2>3 DEF ResetsOK
  <2>5. t.quotaEpoch > s.quotaEpoch
    BY <2>2, <2>3 DEF SubType
  <2> QED BY <2>1, <2>4, <2>5 DEF Follows
<1>2. CASE ~RenewalExhausted(s, time)
  <2> DEFINE t == extendValuePackageSubscription(s, time)
  <2>1. t.startTime = s.startTime /\ t.quotaEpoch = s.quotaEpoch /\ t.resets = s.resets
    BY <1>2 DEF extendValuePackageSubscription, syncValuePackageCycleSchedule, SubType
  <2> QED BY <2>1 DEF Follows
<1> QED BY <1>1, <1>2

----------------------------------------------------------------------------
(* The steps.                                                               *)

\* A step that changes only the row, which follows the one before.
LEMMA RowStepKeepsStage ==
    ASSUME VPInv, VPInv', StageInv, now' = now, usage' = usage, overtaken' = overtaken,
           Follows(sub, sub', now)
    PROVE  StageInv'
<1>1. /\ sub \in SubType /\ sub' \in SubType /\ usage \in UsageType /\ now \in Nat
      /\ Ledger(usage, sub)
  BY DEF VPInv, VPTypeOK, SubType, UsageType
<1>2. ResetsOK(sub', now) /\ (overtaken \/ StageOK(usage, sub', now))
  BY <1>1, FollowingRow DEF StageInv
<1> QED BY <1>2 DEF StageInv

\* The row after the cycle has run is within the limit, too.
LEMMA AdvancedStage ==
    ASSUME VPInv, StageInv, NEW at \in Nat, at <= now
    PROVE  LET s == maybeAdvanceValuePackageCycle(sub, at)
           IN  /\ s \in SubType /\ Ledger(usage, s) /\ ResetsOK(s, now)
               /\ overtaken \/ StageOK(usage, s, now)
               /\ s.endTime = sub.endTime
<1>1. sub \in SubType /\ usage \in UsageType /\ now \in Nat /\ Ledger(usage, sub)
  BY DEF VPInv, VPTypeOK, SubType, UsageType
<1> DEFINE s == maybeAdvanceValuePackageCycle(sub, at)
<1>2. s \in SubType /\ Ledger(usage, s)
  BY <1>1, AdvanceLedger
<1>3. Follows(sub, s, now) /\ s.endTime = sub.endTime
  BY <1>1, AdvanceFollows DEF StageInv
<1> HIDE DEF s
<1>4. ResetsOK(s, now) /\ (overtaken \/ StageOK(usage, s, now))
  BY <1>1, <1>2, <1>3, FollowingRow DEF StageInv
<1> QED BY <1>2, <1>3, <1>4 DEF s

\* A request is admitted only if its amount still fits into the stage.
LEMMA PreConsumeKeepsStage ==
    ASSUME VPInv, VPInv', StageInv, NEW r \in Requests, NEW amount \in Amounts,
           NEW at \in ReadTimes, PreConsumeValuePackageSubscription(r, amount, at)
    PROVE  StageInv'
<1> DEFINE s == maybeAdvanceValuePackageCycle(sub, at)
<1>1. /\ sub \in SubType /\ usage \in UsageType /\ now \in Nat /\ amount \in Nat
      /\ sub' \in SubType /\ usage' \in UsageType /\ Ledger(usage', sub') /\ now >= 1
  BY VPConstants DEF VPInv, VPTypeOK, SubType, UsageType
<1>2. at \in Nat /\ at <= now
  BY <1>1, ReadsThePast
<1>3. /\ s \in SubType /\ Ledger(usage, s) /\ ResetsOK(s, now) /\ s.endTime = sub.endTime
  BY <1>2, AdvancedStage
<1>4. /\ ~HasUsage(usage, r) /\ sub.endTime > at
      /\ Limit7d > 0 => Used7d(usage, s, at) + amount <= Limit7d
      /\ usage' = [usage EXCEPT ![r] = [quota |-> amount, quotaEpoch |-> s.quotaEpoch,
                                        createdAt |-> at]]
      /\ sub' = [s EXCEPT !.amountUsed = @ + amount]
      /\ now' = now
      /\ overtaken' \/ ~Overtaken(s, at)
  BY DEF PreConsumeValuePackageSubscription, CanPreConsume, FreshRequest, UpsertUsage,
         SubActive, WithinWindows
<1> HIDE DEF s
<1>5. /\ sub'.startTime = s.startTime /\ sub'.quotaEpoch = s.quotaEpoch
      /\ sub'.resets = s.resets
  BY <1>3, <1>4 DEF SubType
<1>6. ResetsOK(sub', now)
  BY <1>3, <1>5 DEF ResetsOK
<1>7. /\ usage'[r].quota = amount /\ usage'[r].createdAt = at
      /\ \A x \in Requests : x # r => usage'[x] = usage[x]
  BY <1>1, <1>4 DEF UsageType
<1>8. CreatedOK(usage', now)
  BY <1>1, <1>2, <1>7 DEF StageInv, CreatedOK
<1>9. ASSUME ResetsOK(sub', at) PROVE StageOK(usage', sub', at)
  <2> DEFINE S == Stage(usage, s, at)
  <2> DEFINE T == Stage(usage', sub', at)
  <2> DEFINE q == Quotas(usage)
  <2> DEFINE p == Quotas(usage')
  <2>0. ResetsOK(s, at)
    BY <1>5, <1>9 DEF ResetsOK
  <2>1. T \subseteq S \cup {r}
    <3>1. StageStart(sub', at) = StageStart(s, at)
      BY <1>5 DEF StageStart, AnchoredWindowStart, LastQuotaResetAt
    <3> QED BY <1>5, <1>7, <3>1 DEF Stage, CurrentRecords, HasUsage
  <2>2. r \notin S /\ S \subseteq Requests
    BY <1>4 DEF Stage, CurrentRecords
  <2>3. IsFiniteSet(Units(q, S)) /\ Total(q, S) \in Nat
    BY <1>1, <1>3, StageIsFinite
  <2>4. \A x \in S : p[x] = q[x]
    BY <1>7, <2>2 DEF Quotas
  <2>5. p[r] = amount /\ \A x \in S \cup {r} : p[x] \in Nat /\ p[x] <= p[x]
    BY <1>1, <1>7, <2>2 DEF Quotas, UsageType
  <2>6. Limit7d > 0 => Total(q, S) + amount <= Limit7d
    BY <1>1, <1>2, <1>3, <1>4, <2>0, WindowOfStage
  <2> HIDE DEF S, T, q, p
  <2>7. Units(p, S) = Units(q, S) /\ Total(p, S) = Total(q, S)
    BY <2>4, SameTotal
  <2>8. /\ IsFiniteSet(Units(p, S \cup {r}))
        /\ Total(p, S \cup {r}) = Total(p, S) + p[r]
    BY <1>1, <2>2, <2>3, <2>5, <2>7, AddToTotal
  <2>9. Total(p, T) \in Nat /\ Total(p, T) <= Total(p, S \cup {r})
    BY <2>1, <2>5, <2>8, SmallerTotal
  <2>10. Limit7d > 0 => Total(p, T) <= Limit7d
    BY <1>1, <2>3, <2>5, <2>6, <2>7, <2>8, <2>9, VPConstants
  <2> QED BY <2>10 DEF StageOK, T, p
<1>10. overtaken' \/ StageOK(usage', sub', now)
  <2>1. CASE Limit7d = 0
    BY <2>1 DEF StageOK
  <2>2. CASE Overtaken(s, at)
    BY <1>4, <2>2
  <2>3. CASE Limit7d # 0 /\ ~Overtaken(s, at)
    <3>1. Limit7d > 0
      BY <2>3, VPConstants
    <3>2. \A x \in Requests : (HasUsage(usage, x) /\ usage[x].quotaEpoch = s.quotaEpoch)
                                => ~(usage[x].createdAt > at)
      BY <2>3, <3>1 DEF Overtaken
    <3>3. SeenAt(usage', sub', at)
      BY <1>1, <1>2, <1>5, <1>7, <3>2 DEF SeenAt, HasUsage, UsageType
    <3> QED BY <1>1, <1>2, <1>6, <1>9, <3>3, LaterStage
  <2> QED BY <2>1, <2>2, <2>3
<1> QED BY <1>4, <1>6, <1>8, <1>10 DEF StageInv

\* A larger target of a request of the epoch is checked against the stage it
\* leaves; a smaller one, or one of an older epoch, adds nothing to it.
LEMMA ReserveKeepsStage ==
    ASSUME VPInv, VPInv', StageInv, NEW r \in Requests, NEW target \in Amounts,
           NEW at \in ReadTimes, ReserveValuePackageUsageToTarget(r, target, at)
    PROVE  StageInv'
<1> DEFINE s == maybeAdvanceValuePackageCycle(sub, at)
<1> DEFINE w == [usage EXCEPT ![r].quota = target]
<1>1. /\ sub \in SubType /\ usage \in UsageType /\ now \in Nat /\ target \in Nat
      /\ sub' \in SubType /\ usage' \in UsageType /\ Ledger(usage', sub')
  BY VPConstants DEF VPInv, VPTypeOK, SubType, UsageType
<1>2. at \in Nat /\ at <= now
  BY <1>1, ReadsThePast
<1>3. /\ s \in SubType /\ Ledger(usage, s) /\ ResetsOK(s, now)
      /\ overtaken \/ StageOK(usage, s, now)
      /\ s.endTime = sub.endTime
  BY <1>2, AdvancedStage
<1>4. HasUsage(usage, r) /\ RequestEpoch(r, s) = usage[r].quotaEpoch
  BY DEF ReserveValuePackageUsageToTarget, RequestEpoch
<1>5. /\ usage' = w /\ now' = now /\ sub.endTime > at
      /\ (s.quotaEpoch = usage[r].quotaEpoch /\ target - usage[r].quota > 0 /\ Limit7d > 0)
            => Used7d(w, s, at) <= Limit7d
      /\ sub' = s \/ \E a : sub' = [s EXCEPT !.amountUsed = a]
      /\ overtaken' \/ (~overtaken /\ ~Overtaken(s, at))
  BY <1>4 DEF ReserveValuePackageUsageToTarget, CanReserve, UpsertUsage, SubActive,
              WithinWindows
<1> HIDE DEF s
<1>6. /\ sub'.startTime = s.startTime /\ sub'.quotaEpoch = s.quotaEpoch
      /\ sub'.resets = s.resets /\ sub'.endTime = s.endTime
  BY <1>3, <1>5 DEF SubType
<1>7. ResetsOK(sub', now)
  BY <1>3, <1>6 DEF ResetsOK
<1>8. /\ usage'[r].quota = target
      /\ \A x \in Requests : /\ usage'[x].quotaEpoch = usage[x].quotaEpoch
                             /\ usage'[x].createdAt = usage[x].createdAt
                             /\ x # r => usage'[x] = usage[x]
  BY <1>1, <1>5 DEF UsageType
<1>9. CreatedOK(usage', now)
  BY <1>8 DEF StageInv, CreatedOK
<1>10. StageStart(sub', now) = StageStart(s, now)
  BY <1>6 DEF StageStart, AnchoredWindowStart, LastQuotaResetAt
<1>11. overtaken' \/ StageOK(usage', sub', now)
  <2>0. CASE Limit7d = 0 \/ overtaken'
    BY <2>0 DEF StageOK
  <2>1. CASE /\ Limit7d # 0 /\ ~overtaken'
             /\ s.quotaEpoch = usage[r].quotaEpoch /\ target - usage[r].quota > 0
    <3>0. Limit7d > 0
      BY <2>1, VPConstants
    <3>1. Used7d(usage', s, at) <= Limit7d
      BY <1>5, <2>1, <3>0
    <3>2. Used7d(usage', sub', at) = Used7d(usage', s, at)
      <4>1. /\ CurrentRecords(usage', sub', at) = CurrentRecords(usage', s, at)
            /\ AnchoredWindowStart(sub', at) = AnchoredWindowStart(s, at)
            /\ LastQuotaResetAt(sub', at) = LastQuotaResetAt(s, at)
        BY <1>6 DEF CurrentRecords, AnchoredWindowStart, LastQuotaResetAt
      <4> QED BY <1>6, <4>1 DEF Used7d
    <3>3. ASSUME ResetsOK(sub', at) PROVE StageOK(usage', sub', at)
      <4>1. Used7d(usage', sub', at) = Total(Quotas(usage'), Stage(usage', sub', at))
        BY <1>1, <1>2, <1>3, <1>5, <1>6, <3>3, WindowOfStage
      <4> QED BY <3>1, <3>2, <4>1 DEF StageOK
    <3>4. \A x \in Requests : (HasUsage(usage, x) /\ usage[x].quotaEpoch = s.quotaEpoch)
                                => ~(usage[x].createdAt > at)
      BY <1>5, <2>1, <3>0 DEF Overtaken
    <3>5. SeenAt(usage', sub', at)
      BY <1>1, <1>2, <1>6, <1>8, <3>4 DEF SeenAt, HasUsage, UsageType
    <3> QED BY <1>1, <1>2, <1>7, <3>3, <3>5, LaterStage
  <2>2. CASE ~overtaken' /\ ~(s.quotaEpoch = usage[r].quotaEpoch /\ target - usage[r].quota > 0)
    <3>0. StageOK(usage, s, now)
      BY <1>3, <1>5, <2>2
    <3>1. usage[r].quota \in Nat
      BY <1>1 DEF UsageType
    <3>2. s.quotaEpoch # usage[r].quotaEpoch \/ target <= usage[r].quota
      BY <1>1, <2>2, <3>1
    <3>3. \A x \in Stage(usage', sub', now) :
             /\ x \in Requests /\ usage'[x].quotaEpoch = s.quotaEpoch /\ usage'[x].quota > 0
             /\ HasUsage(usage', x) /\ usage'[x].createdAt \in s.startTime..now
             /\ usage'[x].createdAt >= StageStart(s, now)
      BY <1>6, <1>10 DEF Stage, CurrentRecords
    <3>4. \A x \in Stage(usage', sub', now) : usage'[x].quota <= usage[x].quota
      <4> SUFFICES ASSUME NEW x \in Stage(usage', sub', now)
                   PROVE  usage'[x].quota <= usage[x].quota
        OBVIOUS
      <4>1. CASE x = r
        BY <1>8, <3>2, <3>3, <4>1
      <4>2. CASE x # r
        BY <1>1, <1>8, <3>3, <4>2 DEF UsageType
      <4> QED BY <4>1, <4>2
    <3>5. Stage(usage', sub', now) \subseteq Stage(usage, s, now)
      <4> SUFFICES ASSUME NEW x \in Stage(usage', sub', now) PROVE x \in Stage(usage, s, now)
        OBVIOUS
      <4>1. usage[x].quota > 0
        BY <1>1, <3>3, <3>4 DEF UsageType
      <4> QED BY <1>8, <3>3, <4>1 DEF Stage, CurrentRecords, HasUsage
    <3> QED BY <1>1, <1>3, <3>0, <3>4, <3>5, SmallerStage
  <2> QED BY <2>0, <2>1, <2>2
<1> QED BY <1>5, <1>7, <1>9, <1>11 DEF StageInv

\* A refund only takes quota out of the stage.
LEMMA RefundKeepsStage ==
    ASSUME VPInv, VPInv', StageInv, NEW r \in Requests, RefundSubscriptionPreConsume(r)
    PROVE  StageInv'
<1>1. /\ sub \in SubType /\ usage \in UsageType /\ now \in Nat /\ Ledger(usage, sub)
      /\ usage' \in UsageType
  BY DEF VPInv, VPTypeOK, SubType, UsageType
<1>2. usage' = usage \/ usage' = [usage EXCEPT ![r].quota = 0]
  BY DEF RefundSubscriptionPreConsume
<1>3. /\ now' = now /\ overtaken' = overtaken
      /\ sub' = sub \/ \E a : sub' = [sub EXCEPT !.amountUsed = a]
  BY DEF RefundSubscriptionPreConsume
<1>4. sub'.startTime = sub.startTime /\ sub'.quotaEpoch = sub.quotaEpoch /\ sub'.resets = sub.resets
  BY <1>1, <1>3 DEF SubType
<1>5. \A x \in Requests : /\ usage'[x].quotaEpoch = usage[x].quotaEpoch
                          /\ usage'[x].createdAt = usage[x].createdAt
                          /\ usage'[x].quota \in {0, usage[x].quota}
  BY <1>1, <1>2 DEF UsageType
<1>6. ResetsOK(sub', now) /\ CreatedOK(usage', now)
  BY <1>4, <1>5 DEF StageInv, ResetsOK, CreatedOK
<1>7. StageStart(sub', now) = StageStart(sub, now)
  BY <1>4 DEF StageStart, AnchoredWindowStart, LastQuotaResetAt
<1>8. Stage(usage', sub', now) \subseteq Stage(usage, sub, now)
  BY <1>4, <1>5, <1>7 DEF Stage, CurrentRecords, HasUsage
<1>9. \A x \in Stage(usage', sub', now) : usage'[x].quota <= usage[x].quota
  <2>1. Stage(usage', sub', now) \subseteq Requests
    BY DEF Stage, CurrentRecords
  <2> QED BY <1>1, <1>5, <2>1 DEF UsageType
<1>10. overtaken \/ StageOK(usage', sub', now)
  BY <1>1, <1>8, <1>9, SmallerStage DEF StageInv
<1> QED BY <1>3, <1>6, <1>10 DEF StageInv

\* The passage of time.
LEMMA TickKeepsStage ==
    ASSUME VPInv, StageInv, Tick
    PROVE  StageInv'
<1>1. sub \in SubType /\ usage \in UsageType /\ now \in Nat /\ Ledger(usage, sub)
  BY DEF VPInv, VPTypeOK, SubType, UsageType
<1>2. now' = now + 1 /\ sub' = sub /\ usage' = usage /\ overtaken' = overtaken
  BY DEF Tick
<1>3. ResetsOK(sub, now + 1) /\ CreatedOK(usage, now + 1)
  BY <1>1 DEF StageInv, ResetsOK, CreatedOK, SubType, UsageType
<1>4. SeenAt(usage, sub, now) /\ now + 1 \in Nat /\ now <= now + 1
  BY <1>1 DEF StageInv, CreatedOK, SeenAt
<1>5. overtaken \/ StageOK(usage, sub, now + 1)
  BY <1>1, <1>3, <1>4, LaterStage DEF StageInv
<1> QED BY <1>2, <1>3, <1>5 DEF StageInv

\* An adjustment leaves the usage records and the stage alone.
LEMMA AdjustmentKeepsStage ==
    ASSUME VPInv, VPInv', StageInv, NEW delta \in Deltas, PostConsumeUserSubscriptionDelta(delta)
    PROVE  StageInv'
<1>1. sub \in SubType
  BY DEF VPInv, VPTypeOK, SubType
<1>2. /\ now' = now /\ usage' = usage /\ overtaken' = overtaken
      /\ sub'.startTime = sub.startTime /\ sub'.quotaEpoch = sub.quotaEpoch
      /\ sub'.resets = sub.resets
  BY <1>1 DEF PostConsumeUserSubscriptionDelta, SubType
<1> QED BY <1>2, RowStepKeepsStage DEF Follows

\* The operations of the owner, the administrator and the background task.
LEMMA EnvironmentKeepsStage ==
    ASSUME VPInv, VPInv', StageInv, Environment
    PROVE  StageInv'
<1>1. sub \in SubType /\ usage \in UsageType /\ now \in Nat /\ Ledger(usage, sub)
  BY DEF VPInv, VPTypeOK, SubType, UsageType
<1>2. CASE \E at \in ReadTimes : ConsumeValuePackageResetCount(at)
  <2> PICK at \in ReadTimes : ConsumeValuePackageResetCount(at)
    BY <1>2
  <2>1. sub' = OpenEpoch(sub, at) /\ now' = now /\ usage' = usage /\ overtaken' = overtaken
    BY DEF ConsumeValuePackageResetCount
  <2>2. at \in Nat /\ at <= now
    BY <1>1, ReadsThePast
  <2>3. sub'.quotaEpoch = sub.quotaEpoch + 1 /\ ResetsOK(sub', now)
    BY <1>1, <2>1, <2>2, OpenEpochFollows DEF StageInv
  <2>4. Follows(sub, sub', now)
    BY <1>1, <2>3 DEF Follows, SubType
  <2> QED BY <2>1, <2>4, RowStepKeepsStage
<1>3. CASE \E at \in ReadTimes : CompleteRenewalOrder(at)
  <2> PICK at \in ReadTimes : CompleteRenewalOrder(at)
    BY <1>3
  <2> DEFINE s == maybeAdvanceValuePackageCycle(sub, at)
  <2>0. at \in Nat /\ at <= now
    BY <1>1, ReadsThePast
  <2>1. /\ sub' = extendValuePackageSubscription(s, at) /\ now' = now /\ usage' = usage
        /\ overtaken' = overtaken
    BY DEF CompleteRenewalOrder
  <2>2. /\ s \in SubType /\ Ledger(usage, s) /\ ResetsOK(s, now)
        /\ overtaken \/ StageOK(usage, s, now)
    BY <2>0, AdvancedStage
  <2> HIDE DEF s
  <2>3. Follows(s, sub', now)
    BY <1>1, <2>0, <2>1, <2>2, RenewalFollows
  <2>4. sub' \in SubType
    BY DEF VPInv, VPTypeOK, SubType
  <2>5. ResetsOK(sub', now) /\ (overtaken \/ StageOK(usage, sub', now))
    BY <1>1, <2>2, <2>3, <2>4, FollowingRow
  <2> QED BY <2>1, <2>5 DEF StageInv
<1>4. CASE \E at \in ReadTimes : ResetDueSubscriptions(at)
  <2> PICK at \in ReadTimes : ResetDueSubscriptions(at)
    BY <1>4
  <2>0. at \in Nat /\ at <= now
    BY <1>1, ReadsThePast
  <2>1. /\ sub' = maybeAdvanceValuePackageCycle(sub, at) /\ now' = now /\ usage' = usage
        /\ overtaken' = overtaken
    BY DEF ResetDueSubscriptions
  <2>2. Follows(sub, sub', now)
    BY <1>1, <2>0, <2>1, AdvanceFollows DEF StageInv
  <2> QED BY <2>1, <2>2, RowStepKeepsStage
<1>5. CASE \/ ActivateValuePackage \/ DeactivateValuePackage \/ CoverByUpgrade
           \/ AdminInvalidateUserSubscription \/ AdminDeleteUserSubscription
           \/ ExpireDueSubscriptions \/ CleanupSubscriptionPreConsumeRecords
  <2>1. /\ now' = now /\ usage' = usage /\ overtaken' = overtaken
        /\ sub'.startTime = sub.startTime /\ sub'.quotaEpoch = sub.quotaEpoch
        /\ sub'.resets = sub.resets
    BY <1>1, <1>5 DEF ActivateValuePackage, DeactivateValuePackage, CoverByUpgrade,
       AdminInvalidateUserSubscription, AdminDeleteUserSubscription, ExpireDueSubscriptions,
       CleanupSubscriptionPreConsumeRecords, SubType
  <2>2. Follows(sub, sub', now)
    BY <2>1 DEF Follows
  <2> QED BY <2>1, <2>2, RowStepKeepsStage
<1>6. CASE Tick
  BY <1>6, TickKeepsStage
<1> QED BY <1>2, <1>3, <1>4, <1>5, <1>6 DEF Environment

LEMMA InitStage == VPInit => StageInv
<1> SUFFICES ASSUME VPInit PROVE StageInv
  OBVIOUS
<1>1. now = 1 /\ sub.startTime = 1 /\ sub.resets = {}
  BY DEF VPInit, syncValuePackageCycleSchedule
<1>2. \A r \in Requests : usage[r].createdAt = 0
  BY DEF VPInit, NoUsage
<1>3. ResetsOK(sub, now) /\ CreatedOK(usage, now)
  BY <1>1, <1>2 DEF ResetsOK, CreatedOK
<1>4. Stage(usage, sub, now) = {}
  BY <1>2 DEF Stage, CurrentRecords, HasUsage
<1>5. Total(Quotas(usage), Stage(usage, sub, now)) = 0
  BY <1>4, EmptyTotal
<1>6. StageOK(usage, sub, now)
  BY <1>5, VPConstants DEF StageOK
<1> QED BY <1>3, <1>6 DEF StageInv

LEMMA NextKeepsStage == VPInv /\ VPInv' /\ StageInv /\ [VPNext]_vpVars => StageInv'
<1> SUFFICES ASSUME VPInv, VPInv', StageInv, [VPNext]_vpVars PROVE StageInv'
  OBVIOUS
<1>1. CASE UNCHANGED vpVars
  BY <1>1 DEF vpVars, StageInv
<1>2. CASE \E r \in Requests : RequestStep(r)
  <2>1. PICK r \in Requests : RequestStep(r)
    BY <1>2
  <2> QED
    BY <2>1, PreConsumeKeepsStage, ReserveKeepsStage, RefundKeepsStage, AdjustmentKeepsStage
    DEF RequestStep
<1>3. CASE Environment
  BY <1>3, EnvironmentKeepsStage
<1> QED
  BY <1>1, <1>2, <1>3 DEF VPNext

\* As long as no usage was written with a time earlier than a record it had to
\* count, the 7-day limit holds at every moment, for any requests, amounts,
\* plans, lock waits, resets and renewals: the check of CanPreConsume and
\* CanReserve is enough, whatever happens between two checks.
THEOREM SevenDayLimitIsKept == VPSpec => []SevenDayLimitUnlessOvertaken
<1>1. VPInv /\ StageInv => SevenDayLimitUnlessOvertaken
  <2> SUFFICES ASSUME VPInv, StageInv, ~overtaken PROVE SevenDayLimitHolds
    BY DEF SevenDayLimitUnlessOvertaken
  <2>1. sub \in SubType /\ usage \in UsageType /\ now \in Nat /\ Ledger(usage, sub)
    BY DEF VPInv, VPTypeOK, SubType, UsageType
  <2>2. /\ Used7d(usage, sub, now) \in Nat
        /\ Used7d(usage, sub, now) <= Total(Quotas(usage), Stage(usage, sub, now))
    BY <2>1, WindowOfStage DEF StageInv
  <2>3. Total(Quotas(usage), Stage(usage, sub, now)) \in Nat
    BY <2>1, StageIsFinite
  <2>4. Limit7d > 0 => Total(Quotas(usage), Stage(usage, sub, now)) <= Limit7d
    BY DEF StageInv, StageOK
  <2> QED
    BY <2>2, <2>3, <2>4, VPConstants DEF SevenDayLimitHolds
<1> QED
  BY <1>1, NextKeepsStage, InitStage, VPInvariant, PTL DEF VPSpec
============================================================================
