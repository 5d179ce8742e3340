------------------------ MODULE BillingSessionProofs ------------------------
(***************************************************************************)
(* The user's accounts and the sessions balance, for any number of         *)
(* requests, any costs and balances and any number of failures.            *)
(***************************************************************************)
EXTENDS BillingSession, QuotaSumsProofs, TLAPS

\* Before the funding source has given anything.
PrePcs == {"new", "try", "checkToken", "takeToken", "takeFunding", "saveFunding", "undoToken",
           "rejected"}
\* While a larger reservation is made.
RsvPcs == {"rsvFunding", "rsvCheckToken", "rsvTakeToken", "rsvUndoFunding", "rsvUndoToken"}
\* With a reservation that is neither settled nor given back.
LivePcs == {"running", "failed", "settleFunding", "settleFailed"} \cup RsvPcs
RefundPcs == {"refundFunding", "refundExtra", "refundToken"}
PCs == PrePcs \cup LivePcs \cup RefundPcs \cup {"settleToken", "record", "settled", "closed"}

Effects == {"tokenSettled", "fundingRefunded", "extraRefunded", "tokenRefunded"}

SessionRecs ==
    [pc : PCs, kind : Fundings, playground : BOOLEAN, fallback : BOOLEAN,
     amount : Nat, seen : Int, actual : Nat, extra : Nat, attempts : 0..(RefundAttempts - 1),
     consumed : Nat, preConsumed : Nat, tokenConsumed : Nat, extraReserved : Nat,
     fundingSettled : BOOLEAN, settled : BOOLEAN, refunded : BOOLEAN,
     effects : SUBSET Effects]

RowRecs == [status : {"none", "consumed", "refunded"}, quota : Nat]

\* What a session object x holds of its funding source, of its token, of an account.
OfFunding(x) ==
    IF x.fundingSettled THEN x.actual
    ELSE (IF "fundingRefunded" \in x.effects THEN 0
          ELSE IF x.kind = "package" THEN x.preConsumed ELSE x.consumed)
         + (IF x.kind # "subscription" \/ "extraRefunded" \in x.effects THEN 0
            ELSE x.extraReserved)
         + (IF x.kind = "subscription"
               /\ x.pc \in {"rsvCheckToken", "rsvTakeToken", "rsvUndoFunding"}
            THEN x.extra ELSE 0)

OfToken(x) ==
    IF "tokenSettled" \in x.effects THEN x.actual
    ELSE IF "tokenRefunded" \in x.effects THEN 0
    ELSE x.tokenConsumed
         + (IF x.kind = "package" /\ ~x.playground /\ x.pc \in {"rsvFunding", "rsvUndoToken"}
            THEN x.extra ELSE 0)

Of(a, x) == IF a = "token" THEN OfToken(x) ELSE IF x.kind = a THEN OfFunding(x) ELSE 0

Untouched(x) == ~x.fundingSettled /\ ~x.settled /\ ~x.refunded /\ x.effects = {}

\* A session x that has no reservation yet, with its row w.
PreOK(x, w) ==
    /\ Untouched(x)
    /\ x.consumed = 0 /\ x.preConsumed = 0 /\ x.extraReserved = 0 /\ x.extra = 0
    /\ w = NoRow
    /\ x.kind # "wallet" => x.amount > 0
    /\ x.pc \in {"checkToken", "takeToken", "undoToken"} => ~x.playground
    /\ x.pc \notin {"takeFunding", "saveFunding", "undoToken"} => x.tokenConsumed = 0
    /\ x.pc \in {"takeFunding", "saveFunding"} =>
         x.tokenConsumed = IF x.playground THEN 0 ELSE x.amount

\* What PreConsumeUserSubscription is about to save is within the row's total.
SaveOK(x) == x.kind = "subscription"
             /\ (Initial["subscription"] = 0 \/ x.seen >= x.amount)

\* The amounts of a session that has reserved; n is the number of failures.
AmountsOK(x, w, n) ==
    /\ x.tokenConsumed = IF x.playground THEN 0 ELSE x.preConsumed
    /\ x.kind # "wallet" => x.preConsumed = x.consumed + x.extraReserved
    /\ x.kind = "wallet" =>
         LET reserved == x.preConsumed
                         + (IF x.pc \in {"rsvCheckToken", "rsvTakeToken", "rsvUndoFunding"}
                            THEN x.extra ELSE 0)
         IN  x.consumed >= reserved /\ (n = 0 => x.consumed = reserved)
    /\ x.kind = "wallet" <=> w.status = "none"
    /\ x.kind = "package" /\ w.status = "consumed" => w.quota = OfFunding(x)

LiveOK(x, w) ==
    /\ Untouched(x)
    /\ w.status # "refunded"
    /\ x.pc \in RsvPcs /\ x.playground => x.pc = "rsvFunding"
    /\ x.pc = "rsvUndoToken" => x.kind = "package"
    /\ x.pc = "rsvUndoFunding" => x.kind # "package"
    /\ x.pc \notin RsvPcs => x.extra = 0

SettleTokenOK(x, w) ==
    /\ x.fundingSettled /\ ~x.settled /\ ~x.refunded /\ x.effects = {}
    /\ ~x.playground
    /\ w.status # "refunded" /\ x.extra = 0

SettledOK(x, w, n) ==
    /\ x.settled /\ ~x.refunded /\ x.effects \subseteq {"tokenSettled"}
    /\ w.status # "refunded" /\ x.extra = 0
    /\ ~x.fundingSettled => x.actual = x.preConsumed /\ x.effects = {}
    /\ x.playground => x.effects = {}
    /\ x.fundingSettled /\ ~x.playground /\ n = 0 => "tokenSettled" \in x.effects

RefundOK(x, w, n) ==
    /\ x.refunded /\ ~x.settled /\ ~x.fundingSettled
    /\ "tokenSettled" \notin x.effects /\ x.extra = 0
    /\ x.kind # "wallet" => ("fundingRefunded" \in x.effects <=> w.status = "refunded")
    /\ x.pc = "refundFunding" =>
         /\ "extraRefunded" \notin x.effects
         /\ x.kind = "wallet" => "fundingRefunded" \notin x.effects
    /\ x.pc = "refundExtra" => x.kind = "subscription" /\ "extraRefunded" \notin x.effects
    /\ x.pc # "closed" => "tokenRefunded" \notin x.effects
    /\ n = 0 =>
         /\ x.pc # "refundFunding" => "fundingRefunded" \in x.effects
         /\ x.pc \in {"refundToken", "closed"} /\ x.kind = "subscription"
              /\ x.extraReserved > 0 => "extraRefunded" \in x.effects
         /\ x.pc = "closed" /\ x.tokenConsumed > 0 => "tokenRefunded" \in x.effects

SessionOK(x, w, n) ==
    /\ x.pc \in PrePcs => PreOK(x, w)
    /\ x.pc = "saveFunding" => SaveOK(x)
    /\ x.pc \notin PrePcs => AmountsOK(x, w, n)
    /\ x.pc \in LivePcs => LiveOK(x, w)
    /\ x.pc = "settleToken" => SettleTokenOK(x, w)
    /\ x.pc \in {"record", "settled"} => SettledOK(x, w, n)
    /\ x.pc \in RefundPcs => RefundOK(x, w, n)
    /\ x.pc = "closed" =>
         \/ SettledOK(x, w, n)
         \/ RefundOK(x, w, n)
         \/ Untouched(x) /\ w.status # "refunded" /\ x.extra = 0

\* Every write so far was relative to what the account a held.
Sound(a) == a = "subscription" => overwrote = {}

\* The accounts: what is left and what the sessions hold is what the user had.
AccountsOK ==
    \A a \in Accounts :
        /\ IsFiniteSet(Units(HeldOn(a), Sessions))
        /\ Sound(a) => bal[a] + Total(HeldOn(a), Sessions) <= Initial[a]
        /\ Sound(a) /\ failures = 0 => bal[a] + Total(HeldOn(a), Sessions) = Initial[a]

\* No subscription row is used beyond its total.
InTotals(b) == \A k \in {"subscription", "package"} : Initial[k] > 0 => b[k] >= 0

BSTypes ==
    /\ bal \in [Accounts -> Int] /\ InTotals(bal)
    /\ row \in [Sessions -> RowRecs]
    /\ ses \in [Sessions -> SessionRecs]
    /\ lost \subseteq Sessions
    /\ failures \in 0..MaxFailures
    /\ lost # {} => failures > 0
    /\ overwrote \subseteq Sessions

\* The inductive invariant.
BSInv ==
    /\ BSTypes
    /\ \A s \in Sessions : SessionOK(ses[s], row[s], failures)
    /\ AccountsOK

-----------------------------------------------------------------------------
(* What a session holds.                                                   *)

LEMMA OfIsNat ==
    ASSUME NEW x \in SessionRecs
    PROVE  OfFunding(x) \in Nat /\ OfToken(x) \in Nat /\ \A a : Of(a, x) \in Nat
<1>1. /\ x.actual \in Nat /\ x.preConsumed \in Nat /\ x.consumed \in Nat
      /\ x.extraReserved \in Nat /\ x.extra \in Nat /\ x.tokenConsumed \in Nat
  BY DEF SessionRecs
<1>2. OfFunding(x) \in Nat
  BY <1>1 DEF OfFunding
<1>3. OfToken(x) \in Nat
  BY <1>1 DEF OfToken
<1> QED BY <1>2, <1>3 DEF Of

LEMMA HeldIsOf ==
    ASSUME NEW a, NEW s \in Sessions
    PROVE  /\ FundingHeld(s) = OfFunding(ses[s])
           /\ TokenHeld(s) = OfToken(ses[s])
           /\ HeldOn(a)[s] = Of(a, ses[s])
<1>1. FundingHeld(s) = OfFunding(ses[s])
  BY DEF FundingHeld, OfFunding
<1>2. TokenHeld(s) = OfToken(ses[s])
  BY DEF TokenHeld, OfToken
<1> QED BY <1>1, <1>2 DEF HeldOn, Of

LEMMA HeldIsOfNext ==
    ASSUME NEW a, NEW s \in Sessions
    PROVE  HeldOn(a)'[s] = Of(a, ses'[s])
<1>1. FundingHeld(s)' = OfFunding(ses'[s])
  BY DEF FundingHeld, OfFunding
<1>2. TokenHeld(s)' = OfToken(ses'[s])
  BY DEF TokenHeld, OfToken
<1> QED BY <1>1, <1>2 DEF HeldOn, Of

\* A failure only weakens what is known of a session.
LEMMA MoreFailures ==
    ASSUME NEW x \in SessionRecs, NEW w \in RowRecs, NEW n \in Nat, NEW m \in Nat, n <= m,
           SessionOK(x, w, n)
    PROVE  SessionOK(x, w, m)
<1>1. m = 0 => n = 0
  OBVIOUS
<1>2. AmountsOK(x, w, n) => AmountsOK(x, w, m)
  BY <1>1 DEF AmountsOK
<1>3. SettledOK(x, w, n) => SettledOK(x, w, m)
  BY <1>1 DEF SettledOK
<1>4. RefundOK(x, w, n) => RefundOK(x, w, m)
  BY <1>1 DEF RefundOK
<1> QED BY <1>2, <1>3, <1>4 DEF SessionOK

\* The facts about one session.
LEMMA SessionFacts ==
    ASSUME BSInv, NEW s \in Sessions
    PROVE  /\ ses[s] \in SessionRecs /\ row[s] \in RowRecs
           /\ SessionOK(ses[s], row[s], failures)
           /\ ses \in [Sessions -> SessionRecs] /\ row \in [Sessions -> RowRecs]
           /\ bal \in [Accounts -> Int] /\ InTotals(bal)
           /\ failures \in Nat /\ failures <= MaxFailures /\ MaxFailures \in Nat
           /\ \A a \in Accounts : Initial[a] \in Nat
BY BSConstants DEF BSInv, BSTypes

\* An account and one session's part of it are within what the user had.
LEMMA PartOfAccount ==
    ASSUME BSInv, NEW s \in Sessions, NEW a \in Accounts, Sound(a)
    PROVE  bal[a] + Of(a, ses[s]) <= Initial[a]
<1>1. HeldOn(a)[s] = Of(a, ses[s]) /\ Of(a, ses[s]) \in Nat
  BY HeldIsOf, OfIsNat, SessionFacts
<1>2. IsFiniteSet(Units(HeldOn(a), Sessions))
  BY DEF BSInv, AccountsOK
<1>3. Of(a, ses[s]) <= Total(HeldOn(a), Sessions) /\ Total(HeldOn(a), Sessions) \in Nat
  BY <1>1, <1>2, ReplaceInTotal
<1>4. bal[a] \in Int /\ Initial[a] \in Nat
  BY SessionFacts
<1>5. bal[a] + Total(HeldOn(a), Sessions) <= Initial[a]
  BY DEF BSInv, AccountsOK
<1> QED BY <1>1, <1>3, <1>4, <1>5

\* The amounts that one session's step moves: nothing appears, and without a
\* failure nothing disappears.
Moves(x, y) ==
    \A a \in Accounts : Sound(a)' =>
        /\ bal'[a] + Of(a, y) <= bal[a] + Of(a, x)
        /\ failures' = 0 => bal'[a] + Of(a, y) = bal[a] + Of(a, x)

\* One session s takes a step to y, its row to w.
LEMMA SessionStep ==
    ASSUME BSInv, NEW s \in Sessions, NEW y \in SessionRecs, NEW w \in RowRecs,
           ses' = [ses EXCEPT ![s] = y], row' = [row EXCEPT ![s] = w], lost' = lost,
           overwrote' = overwrote \/ overwrote' = overwrote \cup {s},
           failures' = failures \/ (failures < MaxFailures /\ failures' = failures + 1),
           SessionOK(y, w, failures'),
           bal' \in [Accounts -> Int], InTotals(bal'),
           Moves(ses[s], y)
    PROVE  BSInv'
<1>0. /\ ses \in [Sessions -> SessionRecs] /\ row \in [Sessions -> RowRecs]
      /\ failures \in Nat /\ failures <= MaxFailures /\ MaxFailures \in Nat
  BY SessionFacts
<1>1. /\ ses' \in [Sessions -> SessionRecs] /\ row' \in [Sessions -> RowRecs]
      /\ ses'[s] = y /\ row'[s] = w
      /\ \A t \in Sessions : t # s => ses'[t] = ses[t] /\ row'[t] = row[t]
  BY <1>0
<1>2. failures' \in Nat /\ failures <= failures' /\ failures' <= MaxFailures
  BY <1>0
<1>3. BSTypes'
  <2>1. lost' \subseteq Sessions /\ (lost' # {} => failures' > 0) /\ overwrote' \subseteq Sessions
    BY <1>0, <1>2 DEF BSInv, BSTypes
  <2> QED BY <1>1, <1>2, <2>1, <1>0 DEF BSTypes
<1>4. ASSUME NEW t \in Sessions PROVE SessionOK(ses'[t], row'[t], failures')
  <2>1. CASE t = s
    BY <1>1, <2>1
  <2>2. CASE t # s
    BY <1>0, <1>1, <1>2, <2>2, SessionFacts, MoreFailures
  <2> QED BY <2>1, <2>2
<1>5. ASSUME NEW a \in Accounts
      PROVE  /\ IsFiniteSet(Units(HeldOn(a)', Sessions))
             /\ Sound(a)' => bal'[a] + Total(HeldOn(a)', Sessions) <= Initial[a]
             /\ Sound(a)' /\ failures' = 0
                  => bal'[a] + Total(HeldOn(a)', Sessions) = Initial[a]
  <2>p. PICK p : p = HeldOn(a)'
    OBVIOUS
  <2>q. PICK q : q = HeldOn(a)
    OBVIOUS
  <2>1. q[s] = Of(a, ses[s]) /\ p[s] = Of(a, y) /\ q[s] \in Nat /\ p[s] \in Nat
    BY <1>1, <2>p, <2>q, HeldIsOf, HeldIsOfNext, OfIsNat, SessionFacts
  <2>2. \A t \in Sessions \ {s} : p[t] = q[t]
    BY <1>1, <2>p, <2>q, HeldIsOf, HeldIsOfNext
  <2>3. /\ IsFiniteSet(Units(q, Sessions))
        /\ Sound(a) => bal[a] + Total(q, Sessions) <= Initial[a]
        /\ Sound(a) /\ failures = 0 => bal[a] + Total(q, Sessions) = Initial[a]
    BY <2>q DEF BSInv, AccountsOK
  <2>4. /\ IsFiniteSet(Units(p, Sessions))
        /\ Total(p, Sessions) = Total(q, Sessions) - q[s] + p[s]
        /\ Total(q, Sessions) \in Nat
    <3>1. q[s] \in Nat /\ p[s] \in Nat /\ IsFiniteSet(Units(q, Sessions))
      BY <2>1, <2>3
    <3> QED BY <3>1, <2>2, ReplaceInTotal, SMTT(30)
  <2>5. Sound(a)' => /\ bal'[a] + p[s] <= bal[a] + q[s]
                     /\ failures' = 0 => bal'[a] + p[s] = bal[a] + q[s]
    BY <2>1 DEF Moves
  <2>6. bal'[a] \in Int /\ bal[a] \in Int /\ Initial[a] \in Nat
    BY SessionFacts
  <2>7. failures' = 0 => failures = 0
    BY <1>0, <1>2
  <2>s. Sound(a)' => Sound(a)
    BY DEF Sound
  <2>8. Sound(a)' => bal'[a] + Total(p, Sessions) <= Initial[a]
    BY <2>1, <2>3, <2>4, <2>5, <2>6, <2>s
  <2>9. Sound(a)' /\ failures' = 0 => bal'[a] + Total(p, Sessions) = Initial[a]
    BY <2>1, <2>3, <2>4, <2>5, <2>6, <2>7, <2>s
  <2> QED BY <2>4, <2>8, <2>9, <2>p
<1>6. AccountsOK'
  BY <1>5 DEF AccountsOK
<1> QED BY <1>3, <1>4, <1>6 DEF BSInv

\* A step that moves nothing, or loses what a failed write should have moved.
LEMMA QuietStep ==
    ASSUME BSInv, NEW s \in Sessions, NEW y \in SessionRecs, NEW w \in RowRecs,
           ses' = [ses EXCEPT ![s] = y], row' = [row EXCEPT ![s] = w], lost' = lost /\ overwrote' = overwrote, bal' = bal,
           failures' = failures \/ (failures < MaxFailures /\ failures' = failures + 1),
           SessionOK(y, w, failures'),
           y.kind = ses[s].kind \/ OfFunding(ses[s]) = 0,
           OfFunding(y) = OfFunding(ses[s])
             \/ (failures' # 0 /\ OfFunding(y) <= OfFunding(ses[s])),
           OfToken(y) = OfToken(ses[s]) \/ (failures' # 0 /\ OfToken(y) <= OfToken(ses[s]))
    PROVE  BSInv'
<1>1. ses[s] \in SessionRecs /\ bal \in [Accounts -> Int]
      /\ InTotals(bal)
  BY SessionFacts
<1>2. ASSUME NEW a \in Accounts
      PROVE  /\ bal'[a] + Of(a, y) <= bal[a] + Of(a, ses[s])
             /\ failures' = 0 => bal'[a] + Of(a, y) = bal[a] + Of(a, ses[s])
  <2>0. OfFunding(y) \in Nat /\ OfFunding(ses[s]) \in Nat
    BY <1>1, OfIsNat
  <2>1. Of(a, y) = Of(a, ses[s]) \/ (failures' # 0 /\ Of(a, y) <= Of(a, ses[s]))
    BY <2>0 DEF Of
  <2>2. Of(a, y) \in Nat /\ Of(a, ses[s]) \in Nat /\ bal[a] \in Int
    BY <1>1, OfIsNat
  <2> QED BY <2>1, <2>2
<1>3. Moves(ses[s], y)
  BY <1>2 DEF Moves
<1>4. bal' \in [Accounts -> Int] /\ InTotals(bal')
  BY <1>1
<1> QED BY <1>3, <1>4, SessionStep

\* A step that moves n units from the token to the session.
LEMMA TokenStep ==
    ASSUME BSInv, NEW s \in Sessions, NEW y \in SessionRecs, NEW w \in RowRecs, NEW n \in Int,
           ses' = [ses EXCEPT ![s] = y], row' = [row EXCEPT ![s] = w], lost' = lost /\ overwrote' = overwrote,
           Take("token", n), failures' = failures,
           SessionOK(y, w, failures'),
           y.kind = ses[s].kind \/ OfFunding(ses[s]) = 0,
           OfFunding(y) = OfFunding(ses[s]),
           OfToken(y) = OfToken(ses[s]) + n
    PROVE  BSInv'
<1>1. ses[s] \in SessionRecs /\ bal \in [Accounts -> Int]
      /\ InTotals(bal)
  BY SessionFacts
<1>2. /\ bal' \in [Accounts -> Int] /\ bal'["token"] = bal["token"] - n
      /\ \A a \in Accounts : a # "token" => bal'[a] = bal[a]
  BY <1>1 DEF Take, Accounts
<1>3. ASSUME NEW a \in Accounts
      PROVE  bal'[a] + Of(a, y) = bal[a] + Of(a, ses[s])
  <2>1. a # "token" => Of(a, y) = Of(a, ses[s])
    BY DEF Of
  <2>2. a = "token" => Of(a, y) = Of(a, ses[s]) + n
    BY DEF Of
  <2>3. Of(a, y) \in Nat /\ Of(a, ses[s]) \in Nat /\ bal[a] \in Int
    BY <1>1, OfIsNat
  <2> QED BY <1>2, <2>1, <2>2, <2>3
<1>4. Moves(ses[s], y)
  <2>1. ASSUME NEW a \in Accounts
        PROVE  bal'[a] + Of(a, y) \in Int /\ bal[a] + Of(a, ses[s]) \in Int
    BY <1>1, <1>2, OfIsNat
  <2> QED BY <1>3, <2>1 DEF Moves
<1>5. InTotals(bal')
  BY <1>1, <1>2 DEF Accounts, Fundings, InTotals
<1> QED BY <1>2, <1>4, <1>5, SessionStep

\* A step that moves n units from the funding source to the session.  That
\* AmountUsed is not taken below zero makes no difference: no more is given
\* back than was held.
LEMMA FundingStep ==
    ASSUME BSInv, NEW s \in Sessions, NEW y \in SessionRecs, NEW w \in RowRecs, NEW n \in Int,
           NEW k, k = ses[s].kind,
           ses' = [ses EXCEPT ![s] = y], row' = [row EXCEPT ![s] = w], lost' = lost /\ overwrote' = overwrote,
           Take(k, n) \/ (k # "wallet" /\ PostConsume(k, n)),
           failures' = failures \/ (failures < MaxFailures /\ failures' = failures + 1),
           SessionOK(y, w, failures'),
           k = "wallet" \/ Initial[k] = 0 \/ n <= 0 \/ bal[k] - n >= 0,
           y.kind = k,
           \/ OfFunding(y) = OfFunding(ses[s]) + n
           \/ failures' # 0 /\ k = "wallet" /\ OfFunding(y) <= OfFunding(ses[s]) + n,
           OfToken(y) = OfToken(ses[s])
    PROVE  BSInv'
<1>1. ses[s] \in SessionRecs /\ bal \in [Accounts -> Int]
      /\ InTotals(bal)
  BY SessionFacts
<1>2. k \in Fundings /\ k \in Accounts /\ k # "token" /\ bal[k] \in Int /\ Initial[k] \in Nat
  <2>1. k \in Fundings
    BY <1>1 DEF SessionRecs
  <2> QED BY <1>1, <2>1, SessionFacts DEF Accounts, Fundings
<1>3. OfFunding(y) \in Nat /\ OfFunding(ses[s]) \in Nat
  BY <1>1, OfIsNat
<1>4. Sound(k) => bal[k] + OfFunding(ses[s]) <= Initial[k]
  BY <1>2, PartOfAccount DEF Of
<1>5. Sound(k) /\ k # "wallet" => LesserOf(Initial[k], bal[k] - n) = bal[k] - n
  <2> SUFFICES ASSUME Sound(k), k # "wallet"
               PROVE  LesserOf(Initial[k], bal[k] - n) = bal[k] - n
    OBVIOUS
  <2>1. OfFunding(y) = OfFunding(ses[s]) + n
    OBVIOUS
  <2>2. PICK b \in Int, i \in Int, g \in Nat, h \in Nat :
            b = bal[k] /\ i = Initial[k] /\ g = OfFunding(y) /\ h = OfFunding(ses[s])
    BY <1>2, <1>3
  <2>3. b - n <= i
    BY <1>4, <2>1, <2>2
  <2> QED BY <2>2, <2>3 DEF LesserOf
<1>6. PICK m \in Int :
          /\ bal' = [bal EXCEPT ![k] = m]
          /\ Sound(k) => m = bal[k] - n
          /\ k = "wallet" \/ m = bal[k] - n \/ m = Initial[k]
  <2>1. Take(k, n) => bal' = [bal EXCEPT ![k] = bal[k] - n]
    BY DEF Take
  <2>2. PostConsume(k, n) => bal' = [bal EXCEPT ![k] = LesserOf(Initial[k], bal[k] - n)]
    BY DEF PostConsume
  <2>3. LesserOf(Initial[k], bal[k] - n) \in {Initial[k], bal[k] - n}
    BY DEF LesserOf
  <2>4. bal[k] - n \in Int /\ Initial[k] \in Int
    BY <1>2
  <2>5. CASE Take(k, n)
    BY <2>1, <2>4, <2>5
  <2>6. CASE k # "wallet" /\ PostConsume(k, n)
    BY <1>5, <2>2, <2>3, <2>4, <2>6
  <2> QED BY <2>5, <2>6
<1>7. /\ bal' \in [Accounts -> Int] /\ bal'[k] = m
      /\ \A a \in Accounts : a # k => bal'[a] = bal[a]
  BY <1>1, <1>2, <1>6
<1>8. ASSUME NEW a \in Accounts, Sound(a)'
      PROVE  /\ bal'[a] + Of(a, y) <= bal[a] + Of(a, ses[s])
             /\ failures' = 0 => bal'[a] + Of(a, y) = bal[a] + Of(a, ses[s])
  <2>1. a # k => Of(a, y) = Of(a, ses[s])
    BY DEF Of
  <2>2. a = k => Of(a, y) = OfFunding(y) /\ Of(a, ses[s]) = OfFunding(ses[s])
    BY <1>2 DEF Of
  <2>3. Of(a, y) \in Nat /\ Of(a, ses[s]) \in Nat /\ bal[a] \in Int
    BY <1>1, OfIsNat
  <2>4. CASE a # k
    BY <1>7, <2>1, <2>3, <2>4
  <2>5. CASE a = k
    <3>1. \/ Of(a, y) = Of(a, ses[s]) + n
          \/ failures' # 0 /\ Of(a, y) <= Of(a, ses[s]) + n
      BY <2>2, <2>5
    <3>2. m = bal[k] - n
      BY <1>6, <1>8, <2>5 DEF Sound
    <3> QED BY <1>7, <2>3, <2>5, <3>1, <3>2
  <2> QED BY <2>4, <2>5
<1>9. Moves(ses[s], y)
  BY <1>8 DEF Moves
<1>10. InTotals(bal')
  <2> SUFFICES ASSUME NEW a \in {"subscription", "package"}, Initial[a] > 0 PROVE bal'[a] >= 0
    BY DEF InTotals
  <2>1. a \in Accounts /\ bal[a] >= 0 /\ bal[a] \in Int
    BY <1>1 DEF Accounts, Fundings, InTotals
  <2>2. CASE a # k
    BY <1>7, <2>1, <2>2
  <2>3. CASE a = k
    <3>1. bal[k] - n >= 0 \/ n <= 0
      BY <2>3
    <3>2. bal[k] - n >= 0
      BY <2>1, <2>3, <3>1
    <3> QED BY <1>6, <1>7, <2>3, <3>2
  <2> QED BY <2>2, <2>3
<1> QED BY <1>7, <1>9, <1>10, SessionStep

-----------------------------------------------------------------------------
(* The pre-consume.                                                        *)

\* The phases exclude each other.
LEMMA Phases ==
    ASSUME NEW x, NEW w, NEW n
    PROVE  /\ x.pc \in PrePcs /\ PreOK(x, w) /\ (x.pc = "saveFunding" => SaveOK(x))
                => SessionOK(x, w, n)
           /\ x.pc \in LivePcs /\ AmountsOK(x, w, n) /\ LiveOK(x, w) => SessionOK(x, w, n)
           /\ x.pc = "settleToken" /\ AmountsOK(x, w, n) /\ SettleTokenOK(x, w)
                => SessionOK(x, w, n)
           /\ x.pc \in {"record", "settled", "closed"} /\ AmountsOK(x, w, n) /\ SettledOK(x, w, n)
                => SessionOK(x, w, n)
           /\ x.pc \in RefundPcs \cup {"closed"} /\ AmountsOK(x, w, n) /\ RefundOK(x, w, n)
                => SessionOK(x, w, n)
           /\ x.pc = "closed" /\ AmountsOK(x, w, n) /\ Untouched(x) /\ w.status # "refunded"
                /\ x.extra = 0 => SessionOK(x, w, n)
<1>1. /\ x.pc \in PrePcs => x.pc \notin LivePcs /\ x.pc \notin RefundPcs
      /\ x.pc = "saveFunding" => x.pc \in PrePcs
      /\ x.pc \in PrePcs => x.pc \notin {"settleToken", "record", "settled", "closed"}
      /\ x.pc \in LivePcs => x.pc \notin RefundPcs
      /\ x.pc \in LivePcs => x.pc \notin {"settleToken", "record", "settled", "closed"}
      /\ x.pc \in RefundPcs => x.pc \notin {"settleToken", "record", "settled", "closed"}
  BY DEF PrePcs, LivePcs, RsvPcs, RefundPcs
<1> QED BY <1>1 DEF SessionOK

LEMMA SameRow ==
    ASSUME BSInv, NEW s \in Sessions, row' = row
    PROVE  row' = [row EXCEPT ![s] = row[s]]
BY SessionFacts

LEMMA BeginInv ==
    ASSUME BSInv, NEW s \in Sessions, Begin(s)
    PROVE  BSInv'
<1>x. PICK x \in SessionRecs : x = ses[s]
  BY SessionFacts
<1>0. PICK k \in Kinds, q \in Quotas, p \in Playground, f \in BOOLEAN :
          /\ k # "wallet" => q > 0
          /\ ses' = [ses EXCEPT ![s] = [NoSession EXCEPT !.pc = "try", !.kind = k, !.amount = q,
                                      !.playground = p, !.fallback = f]]
  BY DEF Begin, Put
<1>y. PICK y : y = [NoSession EXCEPT !.pc = "try", !.kind = k, !.amount = q,
                                      !.playground = p, !.fallback = f]
  OBVIOUS
<1>1. /\ k \in Fundings /\ q \in Nat /\ p \in BOOLEAN /\ 0 \in 0..(RefundAttempts - 1)
  BY BSConstants
<1>2. y \in SessionRecs
  <2>1. "try" \in PCs /\ NoSession \in SessionRecs
    BY <1>1 DEF SessionRecs, NoSession, PCs, PrePcs, Fundings
  <2> QED BY <1>y, <1>1, <2>1 DEF SessionRecs
<1>3. x.pc = "new" /\ PreOK(x, row[s])
  BY <1>x, SessionFacts DEF Begin, At, SessionOK, PrePcs
<1>4. SessionOK(y, row[s], failures')
  <2>1. /\ y.consumed = 0 /\ y.preConsumed = 0 /\ y.extraReserved = 0 /\ y.extra = 0
        /\ y.tokenConsumed = 0 /\ y.kind = k /\ y.amount = q /\ y.pc = "try"
    BY <1>y DEF NoSession
  <2>2. Untouched(y)
    BY <1>y DEF NoSession, Untouched
  <2> QED BY <1>0, <1>3, <2>1, <2>2, Phases DEF PreOK, PrePcs
<1>5. /\ OfFunding(x) = 0 /\ OfToken(x) = 0
  BY <1>3 DEF PreOK, Untouched, OfFunding, OfToken
<1>6. /\ OfFunding(y) = 0 /\ OfToken(y) = 0
  BY <1>y, <1>1 DEF OfFunding, OfToken, NoSession
<1>7. row' = [row EXCEPT ![s] = row[s]] /\ lost' = lost /\ overwrote' = overwrote /\ bal' = bal /\ failures' = failures
  BY SameRow DEF Begin
<1> QED BY <1>0, <1>x, <1>y, <1>2, <1>4, <1>5, <1>6, <1>7, SessionFacts, QuietStep

\* The records y and x agree on what the invariant reads, apart from pc.
SameWho(y, x) == y.kind = x.kind /\ (y.playground <=> x.playground)
SameSums(y, x) ==
    /\ y.consumed = x.consumed /\ y.preConsumed = x.preConsumed
    /\ y.tokenConsumed = x.tokenConsumed /\ y.extraReserved = x.extraReserved
    /\ y.extra = x.extra /\ y.actual = x.actual /\ y.amount = x.amount
SameFlags(y, x) ==
    /\ y.fundingSettled <=> x.fundingSettled
    /\ y.settled <=> x.settled
    /\ y.refunded <=> x.refunded
    /\ y.effects = x.effects

LEMMA GoesTo ==
    ASSUME NEW x \in SessionRecs, NEW p \in PCs, NEW y, y = [x EXCEPT !.pc = p]
    PROVE  /\ y \in SessionRecs /\ y.pc = p
           /\ SameWho(y, x) /\ SameSums(y, x) /\ SameFlags(y, x)
<1>1. y \in SessionRecs /\ y.pc = p
  BY DEF SessionRecs
<1>2. SameWho(y, x)
  BY DEF SessionRecs, SameWho
<1>3. SameSums(y, x)
  BY DEF SessionRecs, SameSums
<1>4. SameFlags(y, x)
  BY DEF SessionRecs, SameFlags
<1> QED BY <1>1, <1>2, <1>3, <1>4

\* A session that has reserved nothing holds at most its token's quota.
LEMMA PreHolds ==
    ASSUME NEW x \in SessionRecs, NEW w, x.pc \in PrePcs, PreOK(x, w)
    PROVE  OfFunding(x) = 0 /\ OfToken(x) = x.tokenConsumed
<1>1. /\ x.consumed = 0 /\ x.preConsumed = 0 /\ x.extraReserved = 0 /\ x.extra = 0
      /\ ~x.fundingSettled /\ x.effects = {} /\ x.tokenConsumed \in Nat
  BY DEF PreOK, Untouched, SessionRecs
<1> QED BY <1>1 DEF OfFunding, OfToken

\* A step before the reservation that only reads the database.
LEMMA PreStep ==
    ASSUME BSInv, NEW s \in Sessions, NEW y \in SessionRecs,
           ses[s].pc \in PrePcs, y.pc \in PrePcs, PreOK(y, row[s]),
           y.pc = "saveFunding" => SaveOK(y),
           y.tokenConsumed = ses[s].tokenConsumed,
           ses' = [ses EXCEPT ![s] = y], row' = row, lost' = lost /\ overwrote' = overwrote, bal' = bal,
           failures' = failures \/ (failures < MaxFailures /\ failures' = failures + 1)
    PROVE  BSInv'
<1>1. ses[s] \in SessionRecs /\ row[s] \in RowRecs /\ PreOK(ses[s], row[s])
  BY SessionFacts DEF SessionOK
<1>2. /\ OfFunding(ses[s]) = 0 /\ OfToken(ses[s]) = ses[s].tokenConsumed
      /\ OfFunding(y) = 0 /\ OfToken(y) = ses[s].tokenConsumed
  BY <1>1, PreHolds
<1>3. SessionOK(y, row[s], failures')
  BY Phases
<1> QED BY <1>1, <1>2, <1>3, SameRow, QuietStep

\* Another pc before the reservation.
LEMMA PreGoesTo ==
    ASSUME NEW x \in SessionRecs, NEW p \in PrePcs, NEW y, NEW w,
           y = [x EXCEPT !.pc = p], PreOK(x, w),
           p \in {"checkToken", "takeToken"} => ~x.playground, p # "saveFunding",
           x.tokenConsumed = 0,
           p = "undoToken" => ~x.playground,
           p = "takeFunding" => x.playground
    PROVE  y \in SessionRecs /\ y.pc = p /\ PreOK(y, w) /\ y.tokenConsumed = 0
<1>1. p \in PCs
  BY DEF PCs
<1>2. /\ y \in SessionRecs /\ y.pc = p
      /\ SameWho(y, x) /\ SameSums(y, x) /\ SameFlags(y, x)
  BY <1>1, GoesTo
<1>3. Untouched(y)
  BY <1>2 DEF Untouched, PreOK, SameFlags
<1> QED BY <1>2, <1>3 DEF PreOK, SameWho, SameSums

LEMMA TrySourceInv ==
    ASSUME BSInv, NEW s \in Sessions, TrySource(s)
    PROVE  BSInv'
<1>x. PICK x : x = ses[s]
  OBVIOUS
<1>0. /\ x \in SessionRecs /\ row[s] \in RowRecs /\ x.pc = "try" /\ x.pc \in PrePcs
      /\ PreOK(x, row[s]) /\ x.tokenConsumed = 0 /\ failures \in Nat
  BY <1>x, SessionFacts DEF TrySource, At, SessionOK, PrePcs, PreOK
<1>1. UNCHANGED <<bal, row, lost, failures, overwrote>>
  BY DEF TrySource
<1>2. CASE x.amount > 0 /\ ses' = [ses EXCEPT ![s] = [x EXCEPT !.kind = "subscription",
                                                        !.fallback = FALSE]]
  <2>y. PICK y : y = [x EXCEPT !.kind = "subscription", !.fallback = FALSE]
    OBVIOUS
  <2>1. y \in SessionRecs /\ y.pc = "try" /\ y.tokenConsumed = 0 /\ y.amount = x.amount
    BY <1>0, <2>y DEF SessionRecs, Fundings
  <2>2. SameSums(y, x) /\ SameFlags(y, x)
    <3>1. SameSums(y, x)
      BY <1>0, <2>y DEF SessionRecs, SameSums
    <3>2. SameFlags(y, x)
      BY <1>0, <2>y DEF SessionRecs, SameFlags
    <3> QED BY <3>1, <3>2
  <2>3. Untouched(y)
    BY <1>0, <2>2 DEF Untouched, PreOK, SameFlags
  <2>4. PreOK(y, row[s])
    BY <1>0, <1>2, <2>1, <2>2, <2>3 DEF PreOK, SameSums
  <2> QED BY <1>0, <1>1, <1>2, <1>x, <2>1, <2>4, <2>y, PreStep DEF PrePcs
<1>3. CASE \E p \in {"rejected", "checkToken", "takeFunding"} :
             /\ ses' = [ses EXCEPT ![s] = [x EXCEPT !.pc = p]]
             /\ p = "checkToken" => ~x.playground
             /\ p = "takeFunding" => x.playground
  <2>0. PICK p \in {"rejected", "checkToken", "takeFunding"} :
             /\ ses' = [ses EXCEPT ![s] = [x EXCEPT !.pc = p]]
             /\ p = "checkToken" => ~x.playground
             /\ p = "takeFunding" => x.playground
    BY <1>3
  <2>y. PICK y : y = [x EXCEPT !.pc = p]
    OBVIOUS
  <2>1. p \in PrePcs
    BY DEF PrePcs
  <2>2. y \in SessionRecs /\ y.pc = p /\ PreOK(y, row[s]) /\ y.tokenConsumed = 0
    BY <1>0, <2>0, <2>1, <2>y, PreGoesTo
  <2> QED BY <1>0, <1>1, <1>x, <2>0, <2>1, <2>2, <2>y, PreStep
<1>4. CASE x.kind = "wallet" /\ ses' = [ses EXCEPT ![s] = [x EXCEPT !.pc = "running"]]
  <2>y. PICK y : y = [x EXCEPT !.pc = "running"]
    OBVIOUS
  <2>1. "running" \in PCs /\ "running" \in LivePcs /\ "running" \notin RsvPcs
    BY DEF PCs, LivePcs, RsvPcs
  <2>2. /\ y \in SessionRecs /\ y.pc = "running"
        /\ SameWho(y, x) /\ SameSums(y, x) /\ SameFlags(y, x)
    BY <1>0, <2>1, <2>y, GoesTo
  <2>3. /\ Untouched(y) /\ y.consumed = 0 /\ y.preConsumed = 0 /\ y.extraReserved = 0
        /\ y.extra = 0 /\ y.tokenConsumed = 0 /\ y.kind = "wallet" /\ row[s].status = "none"
    BY <1>0, <1>4, <2>2 DEF PreOK, Untouched, SameWho, SameSums, SameFlags, NoRow
  <2>4. LiveOK(y, row[s]) /\ AmountsOK(y, row[s], failures)
    BY <2>1, <2>2, <2>3 DEF LiveOK, AmountsOK
  <2>5. SessionOK(y, row[s], failures)
    BY <2>1, <2>2, <2>4, Phases
  <2>6. OfFunding(x) = 0 /\ OfToken(x) = 0
    BY <1>0, PreHolds
  <2>7. OfFunding(y) = 0 /\ OfToken(y) = 0
    BY <2>3 DEF OfFunding, OfToken, Untouched
  <2> QED BY <1>0, <1>1, <1>4, <1>x, <2>2, <2>5, <2>6, <2>7, <2>y, SameRow, QuietStep
<1> QED
  <2>1. x.amount = 0 => x.kind = "wallet"
    BY <1>0 DEF PreOK, SessionRecs
  <2>2. x.amount \in Nat
    BY <1>0 DEF SessionRecs
  <2> QED BY <1>2, <1>3, <1>4, <1>x, <2>1, <2>2 DEF TrySource, Put, shouldTrust

LEMMA CheckTokenInv ==
    ASSUME BSInv, NEW s \in Sessions, CheckToken(s)
    PROVE  BSInv'
<1>x. PICK x : x = ses[s]
  OBVIOUS
<1>0. /\ x \in SessionRecs /\ x.pc = "checkToken" /\ x.pc \in PrePcs
      /\ PreOK(x, row[s]) /\ x.tokenConsumed = 0 /\ ~x.playground
  BY <1>x, SessionFacts DEF CheckToken, At, SessionOK, PrePcs, PreOK
<1>1. UNCHANGED <<bal, row, lost, failures, overwrote>>
  BY DEF CheckToken
<1>p. PICK p \in {"takeToken", "rejected"} : ses' = [ses EXCEPT ![s] = [x EXCEPT !.pc = p]]
  BY <1>x DEF CheckToken, Put
<1>y. PICK y : y = [x EXCEPT !.pc = p]
  OBVIOUS
<1>2. p \in PrePcs
  BY DEF PrePcs
<1>3. y \in SessionRecs /\ y.pc = p /\ PreOK(y, row[s]) /\ y.tokenConsumed = 0
  BY <1>0, <1>2, <1>p, <1>y, PreGoesTo
<1> QED BY <1>0, <1>1, <1>x, <1>p, <1>2, <1>3, <1>y, PreStep

LEMMA TakeTokenInv ==
    ASSUME BSInv, NEW s \in Sessions, TakeToken(s)
    PROVE  BSInv'
<1>x. PICK x : x = ses[s]
  OBVIOUS
<1>0. /\ x \in SessionRecs /\ row[s] \in RowRecs /\ x.pc = "takeToken" /\ x.pc \in PrePcs
      /\ PreOK(x, row[s]) /\ x.tokenConsumed = 0 /\ ~x.playground /\ x.amount \in Nat
  BY <1>x, SessionFacts DEF TakeToken, At, SessionOK, PrePcs, PreOK, SessionRecs
<1>1. lost' = lost /\ overwrote' = overwrote
  BY DEF TakeToken
<1>2. CASE /\ Take("token", x.amount)
           /\ ses' = [ses EXCEPT ![s] = [x EXCEPT !.pc = "takeFunding", !.tokenConsumed = x.amount]]
           /\ UNCHANGED <<row, failures>>
  <2>y. PICK y : y = [x EXCEPT !.pc = "takeFunding", !.tokenConsumed = x.amount]
    OBVIOUS
  <2>1. /\ y \in SessionRecs /\ y.pc = "takeFunding" /\ y.tokenConsumed = x.amount
        /\ y.pc \in PrePcs
    BY <1>0, <2>y DEF SessionRecs, PCs, PrePcs
  <2>2. SameWho(y, x) /\ SameFlags(y, x)
    BY <1>0, <2>y DEF SessionRecs, SameWho, SameFlags
  <2>3. /\ y.consumed = x.consumed /\ y.preConsumed = x.preConsumed
        /\ y.extraReserved = x.extraReserved /\ y.extra = x.extra /\ y.amount = x.amount
    BY <1>0, <2>y DEF SessionRecs
  <2>4. Untouched(y)
    BY <1>0, <2>2 DEF Untouched, PreOK, SameFlags
  <2>5. PreOK(y, row[s])
    BY <1>0, <2>1, <2>2, <2>3, <2>4 DEF PreOK, SameWho
  <2>6. /\ OfFunding(x) = 0 /\ OfToken(x) = 0 /\ OfFunding(y) = 0 /\ OfToken(y) = x.amount
    BY <1>0, <2>1, <2>5, PreHolds
  <2>7. OfToken(y) = OfToken(x) + x.amount /\ x.amount \in Int
    BY <1>0, <2>6
  <2>8. SessionOK(y, row[s], failures')
    BY <2>1, <2>5, Phases
  <2>9. /\ ses' = [ses EXCEPT ![s] = y] /\ row' = [row EXCEPT ![s] = row[s]]
        /\ Take("token", x.amount) /\ lost' = lost /\ overwrote' = overwrote /\ failures' = failures
    BY <1>1, <1>2, <2>y, SameRow
  <2> QED BY <1>0, <1>x, <2>1, <2>6, <2>7, <2>8, <2>9, TokenStep
<1>3. CASE DBError /\ ses' = [ses EXCEPT ![s] = [x EXCEPT !.pc = "rejected"]]
  <2>y. PICK y : y = [x EXCEPT !.pc = "rejected"]
    OBVIOUS
  <2>1. "rejected" \in PrePcs
    BY DEF PrePcs
  <2>2. y \in SessionRecs /\ y.pc = "rejected" /\ PreOK(y, row[s]) /\ y.tokenConsumed = 0
    BY <1>0, <2>1, <2>y, PreGoesTo
  <2> QED BY <1>0, <1>1, <1>3, <1>x, <2>1, <2>2, <2>y, PreStep DEF DBError
<1> QED BY <1>2, <1>3, <1>x DEF TakeToken, Put

\* A request whose funding source refused keeps only its token's quota.
LEMMA RefusedPre ==
    ASSUME NEW x \in SessionRecs, NEW w, NEW e \in BOOLEAN, NEW y, y = Refused(x, e),
           x.pc \in {"takeFunding", "saveFunding"}, PreOK(x, w)
    PROVE  /\ y \in SessionRecs /\ y.pc \in PrePcs /\ PreOK(y, w) /\ y.pc # "saveFunding"
           /\ y.tokenConsumed = x.tokenConsumed
<1>f. PICK f \in BOOLEAN : f = (x.fallback /\ e)
  BY DEF SessionRecs
<1>v. PICK v : v = [x EXCEPT !.fallback = f, !.seen = 0]
  OBVIOUS
<1>1. v \in SessionRecs /\ SameWho(v, x) /\ SameSums(v, x) /\ SameFlags(v, x) /\ v.pc = x.pc
  <2>u. PICK u : u = [x EXCEPT !.fallback = f]
    OBVIOUS
  <2>a. u \in SessionRecs
    BY <2>u, <1>f DEF SessionRecs
  <2>b. v = [u EXCEPT !.seen = 0]
    BY <1>v, <2>u DEF SessionRecs
  <2>c. 0 \in Int
    OBVIOUS
  <2>0. v \in SessionRecs /\ v.pc = x.pc
    <3>1. v \in SessionRecs
      BY <2>a, <2>b, <2>c DEF SessionRecs
    <3>2. v.pc = x.pc
      BY <1>v DEF SessionRecs
    <3> QED BY <3>1, <3>2
  <2>1. v \in SessionRecs /\ SameWho(v, x) /\ v.pc = x.pc
    BY <1>v, <2>0 DEF SessionRecs, SameWho
  <2>2. SameSums(v, x) /\ SameFlags(v, x)
    BY <1>v DEF SessionRecs, SameSums, SameFlags
  <2> QED BY <2>1, <2>2
<1>2. Untouched(v)
  BY <1>1 DEF Untouched, PreOK, SameFlags
<1>3. PreOK(v, w) /\ v.tokenConsumed \in Nat
  BY <1>1, <1>2 DEF PreOK, SameWho, SameSums, SessionRecs
<1>4. y = IF x.tokenConsumed > 0 THEN [v EXCEPT !.pc = "undoToken"]
          ELSE IF f THEN [v EXCEPT !.pc = "try", !.kind = "wallet", !.fallback = FALSE]
          ELSE [v EXCEPT !.pc = "rejected"]
  BY <1>f, <1>v DEF Refused
<1>5. CASE x.tokenConsumed > 0
  <2>1. y = [v EXCEPT !.pc = "undoToken"] /\ "undoToken" \in PCs /\ "undoToken" \in PrePcs
    BY <1>4, <1>5 DEF PCs, PrePcs
  <2>2. /\ y \in SessionRecs /\ y.pc = "undoToken"
        /\ SameWho(y, v) /\ SameSums(y, v) /\ SameFlags(y, v)
    BY <1>1, <2>1, GoesTo
  <2>3. ~v.playground
    BY <1>1, <1>3, <1>5 DEF PreOK, SameSums
  <2>4. Untouched(y)
    BY <1>2, <2>2 DEF Untouched, SameFlags
  <2>5. PreOK(y, w)
    BY <1>3, <2>2, <2>3, <2>4 DEF PreOK, SameWho, SameSums
  <2> QED BY <1>1, <2>1, <2>2, <2>5 DEF SameSums
<1>6. CASE ~(x.tokenConsumed > 0) /\ ~f
  <2>1. y = [v EXCEPT !.pc = "rejected"] /\ "rejected" \in PrePcs
    BY <1>4, <1>6 DEF PrePcs
  <2>2. v.tokenConsumed = 0 /\ x.tokenConsumed = 0
    BY <1>1, <1>3, <1>6 DEF SameSums
  <2>3. y \in SessionRecs /\ y.pc = "rejected" /\ PreOK(y, w) /\ y.tokenConsumed = 0
    BY <1>1, <1>3, <2>1, <2>2, PreGoesTo
  <2> QED BY <2>1, <2>2, <2>3
<1>7. CASE ~(x.tokenConsumed > 0) /\ f
  <2>1. y = [v EXCEPT !.pc = "try", !.kind = "wallet", !.fallback = FALSE]
    BY <1>4, <1>7
  <2>2. y \in SessionRecs /\ y.pc = "try" /\ y.kind = "wallet" /\ y.pc \in PrePcs
    BY <1>1, <2>1 DEF SessionRecs, PCs, PrePcs, Fundings
  <2>3. SameSums(y, v) /\ SameFlags(y, v)
    BY <1>1, <2>1 DEF SessionRecs, SameSums, SameFlags
  <2>4. v.tokenConsumed = 0 /\ x.tokenConsumed = 0
    BY <1>1, <1>3, <1>7 DEF SameSums
  <2>5. Untouched(y)
    BY <1>2, <2>3 DEF Untouched, SameFlags
  <2>6. PreOK(y, w)
    BY <1>3, <2>2, <2>3, <2>4, <2>5 DEF PreOK, SameSums
  <2> QED BY <2>2, <2>3, <2>4, <2>6 DEF SameSums
<1> QED BY <1>5, <1>6, <1>7

\* A source that has enough is not overdrawn.
LEMMA EnoughLeft ==
    ASSUME BSInv, NEW s \in Sessions, NEW k \in Fundings, NEW n \in Int, k # "wallet",
           Enough(k, n)
    PROVE  Initial[k] = 0 \/ n <= 0 \/ bal[k] - n >= 0
<1>1. bal[k] \in Int
  BY SessionFacts DEF Accounts
<1> QED BY <1>1 DEF Enough, Unlimited

\* A session whose funding source has given what was asked for, with its row w.
LEMMA PreConsumedSession ==
    ASSUME NEW x \in SessionRecs, NEW w0, NEW w \in RowRecs, NEW n, NEW y, y = PreConsumed(x),
           x.pc \in {"takeFunding", "saveFunding"}, PreOK(x, w0),
           x.kind = "wallet" => w.status = "none",
           x.kind # "wallet" => w.status = "consumed" /\ w.quota = x.amount
    PROVE  /\ y \in SessionRecs /\ SessionOK(y, w, n) /\ y.kind = x.kind
           /\ OfFunding(x) = 0 /\ OfFunding(y) = x.amount /\ OfToken(y) = OfToken(x)
<1>0. /\ x.amount \in Nat /\ x.kind \in Fundings /\ x.pc \in PrePcs
      /\ x.tokenConsumed = (IF x.playground THEN 0 ELSE x.amount)
  BY DEF PreOK, SessionRecs, PrePcs
<1>a. y = [x EXCEPT !.pc = "running", !.seen = 0, !.consumed = x.amount,
                    !.preConsumed = x.amount]
  BY DEF PreConsumed
<1>b. "running" \in PCs
  BY DEF PCs, LivePcs
<1>1. /\ y \in SessionRecs /\ y.pc = "running" /\ y.consumed = x.amount
      /\ y.preConsumed = x.amount
  <2>1. y.pc = "running" /\ y.consumed = x.amount /\ y.preConsumed = x.amount
    BY <1>a DEF SessionRecs
  <2>u. PICK u : u = [x EXCEPT !.pc = "running", !.seen = 0]
    OBVIOUS
  <2>c. 0 \in Int
    OBVIOUS
  <2>3. u \in SessionRecs
    BY <1>b, <2>u, <2>c DEF SessionRecs
  <2>4. y = [u EXCEPT !.consumed = x.amount, !.preConsumed = x.amount]
    BY <1>a, <2>u DEF SessionRecs
  <2>2. y \in SessionRecs
    BY <1>0, <2>3, <2>4 DEF SessionRecs
  <2> QED BY <2>1, <2>2
<1>2. SameWho(y, x) /\ SameFlags(y, x)
  BY DEF PreConsumed, SessionRecs, SameWho, SameFlags
<1>3. y.tokenConsumed = x.tokenConsumed /\ y.extraReserved = 0 /\ y.extra = 0
  BY DEF PreConsumed, SessionRecs, PreOK
<1>4. Untouched(y)
  BY <1>2 DEF Untouched, PreOK, SameFlags
<1>5. OfFunding(x) = 0 /\ OfToken(x) = x.tokenConsumed
  BY <1>0, PreHolds
<1>6. OfFunding(y) = x.amount
  BY <1>0, <1>1, <1>3, <1>4 DEF OfFunding, Untouched
<1>7. OfToken(y) = x.tokenConsumed
  BY <1>0, <1>1, <1>3, <1>4 DEF OfToken, Untouched, SessionRecs
<1>8. "running" \in LivePcs /\ "running" \notin RsvPcs
  BY DEF LivePcs, RsvPcs
<1>9. LiveOK(y, w)
  BY <1>1, <1>3, <1>4, <1>8 DEF LiveOK
<1>10. AmountsOK(y, w, n)
  BY <1>0, <1>1, <1>2, <1>3, <1>6 DEF AmountsOK, SameWho
<1>11. SessionOK(y, w, n)
  BY <1>1, <1>8, <1>9, <1>10, Phases
<1> QED BY <1>1, <1>2, <1>5, <1>6, <1>7, <1>11 DEF SameWho

\* A funding source has refused session s.
LEMMA RefusedStep ==
    ASSUME BSInv, NEW s \in Sessions, NEW e \in BOOLEAN,
           ses[s].pc \in {"takeFunding", "saveFunding"},
           ses' = [ses EXCEPT ![s] = Refused(ses[s], e)], UNCHANGED <<bal, row>>,
           lost' = lost /\ overwrote' = overwrote,
           failures' = failures \/ (failures < MaxFailures /\ failures' = failures + 1)
    PROVE  BSInv'
<1>y. PICK y : y = Refused(ses[s], e)
  OBVIOUS
<1>0. ses[s] \in SessionRecs /\ ses[s].pc \in PrePcs /\ PreOK(ses[s], row[s])
  BY SessionFacts DEF SessionOK, PrePcs
<1>1. /\ y \in SessionRecs /\ y.pc \in PrePcs /\ PreOK(y, row[s]) /\ y.pc # "saveFunding"
      /\ y.tokenConsumed = ses[s].tokenConsumed
  BY <1>0, <1>y, RefusedPre
<1> QED BY <1>0, <1>1, <1>y, PreStep

LEMMA TakeFundingInv ==
    ASSUME BSInv, NEW s \in Sessions, TakeFunding(s)
    PROVE  BSInv'
<1>x. PICK x : x = ses[s]
  OBVIOUS
<1>0. /\ x \in SessionRecs /\ row[s] \in RowRecs /\ x.pc = "takeFunding"
      /\ PreOK(x, row[s]) /\ x.amount \in Nat /\ x.kind \in Fundings
  BY <1>x, SessionFacts DEF TakeFunding, At, SessionOK, PrePcs, SessionRecs
<1>1. lost' = lost /\ overwrote' = overwrote
  BY DEF TakeFunding
<1>2. CASE /\ Enough(x.kind, x.amount) /\ Take(x.kind, x.amount)
           /\ row' = IF x.kind = "wallet" THEN row ELSE [row EXCEPT ![s] = Consumed(x)]
           /\ Put(s, PreConsumed(x))
           /\ failures' = failures
  <2>y. PICK y : y = PreConsumed(x)
    OBVIOUS
  <2>w. PICK w : w = IF x.kind = "wallet" THEN row[s] ELSE Consumed(x)
    OBVIOUS
  <2>5. /\ w \in RowRecs
        /\ x.kind = "wallet" => w.status = "none"
        /\ x.kind # "wallet" => w.status = "consumed" /\ w.quota = x.amount
    <3>1. CASE x.kind = "wallet"
      BY <1>0, <2>w, <3>1 DEF PreOK, NoRow
    <3>2. CASE x.kind # "wallet"
      BY <1>0, <2>w, <3>2 DEF RowRecs, Consumed
    <3> QED BY <3>1, <3>2
  <2>6. /\ y \in SessionRecs /\ SessionOK(y, w, failures') /\ y.kind = x.kind
        /\ OfFunding(x) = 0 /\ OfFunding(y) = x.amount /\ OfToken(y) = OfToken(x)
    BY <1>0, <2>y, <2>5, PreConsumedSession
  <2>13. row' = [row EXCEPT ![s] = w]
    BY <1>2, <2>w, SameRow
  <2>14. ses' = [ses EXCEPT ![s] = y] /\ Take(x.kind, x.amount) /\ failures' = failures
    BY <1>2, <2>y DEF Put
  <2>15. \/ x.kind = "wallet" \/ Initial[x.kind] = 0 \/ x.amount <= 0
         \/ bal[x.kind] - x.amount >= 0
    BY <1>0, <1>2, EnoughLeft
  <2>16. OfFunding(y) = OfFunding(x) + x.amount /\ x.amount \in Int
    BY <1>0, <2>6
  <2> QED BY <1>1, <1>x, <2>5, <2>6, <2>13, <2>14, <2>15, <2>16, FundingStep
<1>4. CASE Put(s, Refused(x, x.kind # "wallet")) /\ UNCHANGED <<bal, row, failures>>
  <2>1. (x.kind # "wallet") \in BOOLEAN
    OBVIOUS
  <2> QED BY <1>0, <1>1, <1>x, <1>4, <2>1, RefusedStep DEF Put
<1>5. CASE DBError /\ Put(s, Refused(x, FALSE))
  BY <1>0, <1>1, <1>x, <1>5, RefusedStep DEF Put, DBError
<1> QED BY <1>2, <1>4, <1>5, <1>x DEF TakeFunding

LEMMA ReadSubscriptionInv ==
    ASSUME BSInv, NEW s \in Sessions, ReadSubscription(s)
    PROVE  BSInv'
<1>x. PICK x : x = ses[s]
  OBVIOUS
<1>0. /\ x \in SessionRecs /\ row[s] \in RowRecs /\ x.pc = "takeFunding" /\ x.pc \in PrePcs
      /\ PreOK(x, row[s]) /\ x.amount \in Nat /\ x.kind = "subscription"
      /\ bal["subscription"] \in Int
  BY <1>x, SessionFacts DEF ReadSubscription, At, SessionOK, PrePcs, SessionRecs, Accounts, Fundings
<1>1. lost' = lost /\ overwrote' = overwrote
  BY DEF ReadSubscription
<1>2. CASE /\ Enough(x.kind, x.amount)
           /\ Put(s, [x EXCEPT !.pc = "saveFunding", !.seen = bal["subscription"]])
           /\ UNCHANGED <<bal, row, failures>>
  <2>y. PICK y : y = [x EXCEPT !.pc = "saveFunding", !.seen = bal["subscription"]]
    OBVIOUS
  <2>1. /\ y \in SessionRecs /\ y.pc = "saveFunding" /\ y.pc \in PrePcs
        /\ y.seen = bal["subscription"]
    BY <1>0, <2>y DEF SessionRecs, PCs, PrePcs
  <2>2. SameWho(y, x) /\ SameFlags(y, x)
    BY <1>0, <2>y DEF SessionRecs, SameWho, SameFlags
  <2>3. SameSums(y, x)
    BY <1>0, <2>y DEF SessionRecs, SameSums
  <2>4. Untouched(y)
    BY <1>0, <2>2 DEF Untouched, PreOK, SameFlags
  <2>5. PreOK(y, row[s])
    BY <1>0, <2>1, <2>2, <2>3, <2>4 DEF PreOK, SameWho, SameSums
  <2>6. SaveOK(y)
    <3>1. x.amount > 0
      BY <1>0 DEF PreOK
    <3>2. Initial["subscription"] = 0 \/ bal["subscription"] >= x.amount
      BY <1>0, <1>2, <3>1 DEF Enough, Unlimited
    <3> QED BY <1>0, <2>1, <2>2, <2>3, <3>2 DEF SaveOK, SameWho, SameSums
  <2> QED BY <1>0, <1>1, <1>2, <1>x, <2>y, <2>1, <2>3, <2>5, <2>6, PreStep DEF Put, SameSums
<1>3. CASE Put(s, Refused(x, TRUE)) /\ UNCHANGED <<bal, row, failures>>
  BY <1>0, <1>1, <1>x, <1>3, RefusedStep DEF Put
<1>4. ASSUME NEW e \in BOOLEAN, DBError, Put(s, Refused(x, e)) PROVE BSInv'
  BY <1>0, <1>1, <1>x, <1>4, RefusedStep DEF Put, DBError
<1> QED BY <1>2, <1>3, <1>4, <1>x DEF ReadSubscription

\* The save moves the amount if nothing was written since the read; if something
\* was, the subscription is no longer accounted for.
LEMMA SaveSubscriptionInv ==
    ASSUME BSInv, NEW s \in Sessions, SaveSubscription(s)
    PROVE  BSInv'
<1>x. PICK x : x = ses[s]
  OBVIOUS
<1>0. /\ x \in SessionRecs /\ row[s] \in RowRecs /\ x.pc = "saveFunding"
      /\ PreOK(x, row[s]) /\ SaveOK(x) /\ x.amount \in Nat /\ x.seen \in Int
      /\ bal \in [Accounts -> Int] /\ InTotals(bal) /\ Initial["subscription"] \in Nat
  BY <1>x, SessionFacts DEF SaveSubscription, At, SessionOK, PrePcs, SessionRecs, Accounts,
     Fundings
<1>1. lost' = lost
  BY DEF SaveSubscription
<1>2. CASE /\ bal' = [bal EXCEPT !["subscription"] = x.seen - x.amount]
           /\ row' = [row EXCEPT ![s] = Consumed(x)]
           /\ overwrote' = IF bal["subscription"] = x.seen THEN overwrote
                           ELSE overwrote \cup {s}
           /\ Put(s, PreConsumed(x))
           /\ failures' = failures
  <2>y. PICK y : y = PreConsumed(x)
    OBVIOUS
  <2>w. PICK w : w = Consumed(x)
    OBVIOUS
  <2>1. w \in RowRecs /\ w.status = "consumed" /\ w.quota = x.amount
    BY <1>0, <2>w DEF RowRecs, Consumed
  <2>2. /\ y \in SessionRecs /\ SessionOK(y, w, failures') /\ y.kind = x.kind
        /\ OfFunding(x) = 0 /\ OfFunding(y) = x.amount /\ OfToken(y) = OfToken(x)
    BY <1>0, <2>1, <2>y, PreConsumedSession DEF SaveOK
  <2>3. /\ bal' \in [Accounts -> Int] /\ bal'["subscription"] = x.seen - x.amount
        /\ \A a \in Accounts : a # "subscription" => bal'[a] = bal[a]
        /\ "package" \in Accounts
    BY <1>0, <1>2 DEF Accounts, Fundings
  <2>4. InTotals(bal')
    <3>1. Initial["subscription"] > 0 => bal'["subscription"] >= 0
      BY <1>0, <2>3 DEF SaveOK
    <3>2. Initial["package"] > 0 => bal'["package"] >= 0
      BY <1>0, <2>3 DEF InTotals
    <3> QED BY <3>1, <3>2 DEF InTotals
  <2>5. ASSUME NEW a \in Accounts, Sound(a)'
        PROVE  bal'[a] + Of(a, y) = bal[a] + Of(a, x)
    <3>1. CASE a # "subscription"
      <4>1. Of(a, y) = Of(a, x)
        BY <1>0, <2>2, <3>1 DEF Of, SaveOK
      <4> QED BY <2>3, <3>1, <4>1
    <3>2. CASE a = "subscription"
      <4>1. Of(a, y) = x.amount /\ Of(a, x) = 0
        BY <1>0, <2>2, <3>2 DEF Of, SaveOK
      <4>2. bal["subscription"] = x.seen
        BY <1>2, <2>5, <3>2 DEF Sound
      <4> QED BY <1>0, <2>3, <3>2, <4>1, <4>2
    <3> QED BY <3>1, <3>2
  <2>6. Moves(x, y)
    <3>1. ASSUME NEW a \in Accounts
          PROVE  bal'[a] + Of(a, y) \in Int /\ bal[a] + Of(a, x) \in Int
      BY <1>0, <2>2, <2>3, OfIsNat
    <3> QED BY <2>5, <3>1 DEF Moves
  <2>7. /\ overwrote' = overwrote \/ overwrote' = overwrote \cup {s}
        /\ ses' = [ses EXCEPT ![s] = y] /\ row' = [row EXCEPT ![s] = w]
    BY <1>2, <2>y, <2>w DEF Put
  <2> QED BY <1>1, <1>2, <1>x, <2>1, <2>2, <2>3, <2>4, <2>6, <2>7, SessionStep
<1>3. CASE DBError /\ Put(s, Refused(x, FALSE)) /\ overwrote' = overwrote
  BY <1>0, <1>1, <1>x, <1>3, RefusedStep DEF Put, DBError
<1> QED BY <1>2, <1>3, <1>x DEF SaveSubscription

LEMMA UndoTokenInv ==
    ASSUME BSInv, NEW s \in Sessions, UndoToken(s)
    PROVE  BSInv'
<1>x. PICK x : x = ses[s]
  OBVIOUS
<1>0. /\ x \in SessionRecs /\ row[s] \in RowRecs /\ x.pc = "undoToken" /\ x.pc \in PrePcs
      /\ PreOK(x, row[s]) /\ x.tokenConsumed \in Nat /\ failures \in Nat
  BY <1>x, SessionFacts DEF UndoToken, At, SessionOK, PrePcs, SessionRecs
<1>v. PICK v : v = [x EXCEPT !.tokenConsumed = 0]
  OBVIOUS
<1>1. v \in SessionRecs /\ v.tokenConsumed = 0 /\ v.amount = x.amount
  BY <1>0, <1>v DEF SessionRecs
<1>2. SameWho(v, x) /\ SameFlags(v, x) /\ v.consumed = x.consumed
      /\ v.preConsumed = x.preConsumed /\ v.extraReserved = x.extraReserved /\ v.extra = x.extra
  BY <1>0, <1>v DEF SessionRecs, SameWho, SameFlags
<1>y. PICK y : y = IF x.fallback
                   THEN [v EXCEPT !.pc = "try", !.kind = "wallet", !.fallback = FALSE]
                   ELSE [v EXCEPT !.pc = "rejected"]
  OBVIOUS
<1>3. /\ y \in SessionRecs /\ y.pc \in {"try", "rejected"} /\ y.tokenConsumed = 0
      /\ y.amount = x.amount /\ y.kind \in {"wallet", x.kind}
      /\ y.consumed = 0 /\ y.preConsumed = 0 /\ y.extraReserved = 0 /\ y.extra = 0
      /\ SameFlags(y, x)
  <2>0. x.consumed = 0 /\ x.preConsumed = 0 /\ x.extraReserved = 0 /\ x.extra = 0
    BY <1>0 DEF PreOK
  <2>1. CASE x.fallback
    <3>1. y = [v EXCEPT !.pc = "try", !.kind = "wallet", !.fallback = FALSE]
      BY <1>y, <2>1
    <3>2. y \in SessionRecs /\ y.pc = "try" /\ y.kind = "wallet"
      BY <1>1, <3>1 DEF SessionRecs, PCs, PrePcs, Fundings
    <3>3. SameSums(y, v)
      BY <1>1, <3>1 DEF SessionRecs, SameSums
    <3>4. SameFlags(y, v)
      BY <1>1, <3>1 DEF SessionRecs, SameFlags
    <3>5. SameFlags(y, x)
      BY <1>2, <3>4 DEF SameFlags
    <3> QED BY <1>1, <1>2, <2>0, <3>2, <3>3, <3>5 DEF SameSums
  <2>2. CASE ~x.fallback
    <3>1. y = [v EXCEPT !.pc = "rejected"] /\ "rejected" \in PCs
      BY <1>y, <2>2 DEF PCs, PrePcs
    <3>2. /\ y \in SessionRecs /\ y.pc = "rejected"
          /\ SameWho(y, v) /\ SameSums(y, v) /\ SameFlags(y, v)
      BY <1>1, <3>1, GoesTo
    <3>3. SameFlags(y, x)
      BY <1>2, <3>2 DEF SameFlags
    <3> QED BY <1>1, <1>2, <2>0, <3>2, <3>3 DEF SameSums, SameWho
  <2> QED BY <2>1, <2>2
<1>4. Untouched(y)
  BY <1>0, <1>3 DEF Untouched, PreOK, SameFlags
<1>5. PreOK(y, row[s]) /\ y.pc \in PrePcs
  BY <1>0, <1>3, <1>4 DEF PreOK, PrePcs
<1>6. SessionOK(y, row[s], failures')
  <2>1. y.pc # "saveFunding"
    BY <1>3
  <2> QED BY <1>5, <2>1, Phases
<1>7. /\ OfFunding(x) = 0 /\ OfToken(x) = x.tokenConsumed /\ OfFunding(y) = 0 /\ OfToken(y) = 0
  BY <1>0, <1>3, <1>5, PreHolds
<1>8. ses' = [ses EXCEPT ![s] = y] /\ lost' = lost /\ overwrote' = overwrote
  BY <1>x, <1>v, <1>y DEF UndoToken, Put
<1>9. CASE Take("token", -x.tokenConsumed) /\ UNCHANGED <<row, failures>>
  <2>1. OfToken(y) = OfToken(x) + (-x.tokenConsumed) /\ -x.tokenConsumed \in Int
    BY <1>0, <1>7
  <2>2. row' = [row EXCEPT ![s] = row[s]] /\ failures' = failures
        /\ Take("token", -x.tokenConsumed)
    BY <1>9, SameRow
  <2> QED BY <1>0, <1>x, <1>3, <1>6, <1>7, <1>8, <2>1, <2>2, TokenStep
<1>10. CASE DBError
  <2>1. /\ row' = [row EXCEPT ![s] = row[s]] /\ bal' = bal
        /\ failures < MaxFailures /\ failures' = failures + 1
    BY <1>10, SameRow DEF DBError
  <2>2. failures' # 0 /\ OfToken(y) <= OfToken(x)
    BY <1>0, <1>7, <2>1
  <2> QED BY <1>0, <1>x, <1>3, <1>6, <1>7, <1>8, <2>1, <2>2, QuietStep
<1> QED BY <1>9, <1>10, <1>x DEF UndoToken

-----------------------------------------------------------------------------
(* A larger reservation.                                                   *)

\* y is x with other amounts: consumed c, preConsumed r, tokenConsumed t,
\* extraReserved e and extra d, at p.
Is(y, x, p, c, r, t, e, d) ==
    /\ y \in SessionRecs /\ SameWho(y, x) /\ SameFlags(y, x) /\ y.actual = x.actual
    /\ y.pc = p /\ y.consumed = c /\ y.preConsumed = r /\ y.tokenConsumed = t
    /\ y.extraReserved = e /\ y.extra = d

LEMMA GoesToIs ==
    ASSUME NEW x \in SessionRecs, NEW p \in PCs
    PROVE  Is([x EXCEPT !.pc = p], x, p, x.consumed, x.preConsumed, x.tokenConsumed,
              x.extraReserved, x.extra)
<1>y. PICK y : y = [x EXCEPT !.pc = p]
  OBVIOUS
<1>1. /\ y \in SessionRecs /\ y.pc = p
      /\ SameWho(y, x) /\ SameSums(y, x) /\ SameFlags(y, x)
  BY <1>y, GoesTo
<1>2. Is(y, x, p, x.consumed, x.preConsumed, x.tokenConsumed, x.extraReserved, x.extra)
  BY <1>1 DEF Is, SameSums
<1> QED BY <1>y, <1>2

LEMMA NotReservedIs ==
    ASSUME NEW x \in SessionRecs
    PROVE  Is(NotReserved(x), x, "running", x.consumed, x.preConsumed, x.tokenConsumed,
              x.extraReserved, 0)
<1>y. PICK y : y = [x EXCEPT !.pc = "running", !.extra = 0]
  OBVIOUS
<1>1. y \in SessionRecs /\ y.pc = "running" /\ y.extra = 0 /\ y.actual = x.actual
  BY <1>y DEF SessionRecs, PCs, LivePcs
<1>2. /\ y.consumed = x.consumed /\ y.preConsumed = x.preConsumed
      /\ y.tokenConsumed = x.tokenConsumed /\ y.extraReserved = x.extraReserved
  BY <1>y DEF SessionRecs
<1>3. SameWho(y, x)
  BY <1>y DEF SessionRecs, SameWho
<1>4. SameFlags(y, x)
  BY <1>y DEF SessionRecs, SameFlags
<1>5. Is(y, x, "running", x.consumed, x.preConsumed, x.tokenConsumed, x.extraReserved, 0)
  BY <1>1, <1>2, <1>3, <1>4 DEF Is
<1> QED BY <1>y, <1>5 DEF NotReserved

LEMMA ReservedIs ==
    ASSUME NEW x \in SessionRecs
    PROVE  Is(Reserved(x), x, "running", x.consumed, x.preConsumed + x.extra,
              IF x.playground THEN x.tokenConsumed ELSE x.tokenConsumed + x.extra,
              x.extraReserved + x.extra, 0)
<1>t. PICK t : t = IF x.playground THEN x.tokenConsumed ELSE x.tokenConsumed + x.extra
  OBVIOUS
<1>0. t \in Nat /\ x.preConsumed + x.extra \in Nat /\ x.extraReserved + x.extra \in Nat
  BY <1>t DEF SessionRecs
<1>y. PICK y : y = [x EXCEPT !.pc = "running", !.preConsumed = x.preConsumed + x.extra,
                         !.extraReserved = x.extraReserved + x.extra, !.extra = 0,
                         !.tokenConsumed = t]
  OBVIOUS
<1>1. y \in SessionRecs /\ y.pc = "running" /\ y.extra = 0 /\ y.actual = x.actual
  BY <1>0, <1>y DEF SessionRecs, PCs, LivePcs
<1>2. /\ y.consumed = x.consumed /\ y.preConsumed = x.preConsumed + x.extra
      /\ y.tokenConsumed = t /\ y.extraReserved = x.extraReserved + x.extra
  BY <1>y DEF SessionRecs
<1>3. SameWho(y, x)
  BY <1>y DEF SessionRecs, SameWho
<1>4. SameFlags(y, x)
  BY <1>y DEF SessionRecs, SameFlags
<1>5. Is(y, x, "running", x.consumed, x.preConsumed + x.extra, t, x.extraReserved + x.extra, 0)
  BY <1>1, <1>2, <1>3, <1>4 DEF Is
<1>6. y = Reserved(x)
  BY <1>y, <1>t DEF Reserved, SessionRecs
<1> QED BY <1>t, <1>5, <1>6

\* What is known of a session with a reservation.
LEMMA LiveNow ==
    ASSUME BSInv, NEW s \in Sessions, NEW x, x = ses[s], x.pc \in LivePcs
    PROVE  /\ x \in SessionRecs /\ row[s] \in RowRecs /\ failures \in Nat
           /\ Untouched(x) /\ LiveOK(x, row[s]) /\ AmountsOK(x, row[s], failures)
           /\ x.kind \in Fundings
           /\ x.consumed \in Nat /\ x.preConsumed \in Nat /\ x.tokenConsumed \in Nat
           /\ x.extraReserved \in Nat /\ x.extra \in Nat /\ x.actual \in Nat
<1>1. x \in SessionRecs /\ row[s] \in RowRecs /\ SessionOK(x, row[s], failures) /\ failures \in Nat
  BY SessionFacts
<1>2. x.pc \notin PrePcs
  BY DEF PrePcs, LivePcs, RsvPcs
<1> QED BY <1>1, <1>2 DEF SessionOK, LiveOK, SessionRecs

LEMMA LiveHolds ==
    ASSUME NEW x \in SessionRecs, Untouched(x)
    PROVE  /\ OfFunding(x) =
                IF x.kind = "package" THEN x.preConsumed
                ELSE IF x.kind = "wallet" THEN x.consumed
                ELSE IF x.pc \in {"rsvCheckToken", "rsvTakeToken", "rsvUndoFunding"}
                     THEN x.consumed + x.extraReserved + x.extra
                ELSE x.consumed + x.extraReserved
           /\ OfToken(x) =
                IF x.kind = "package" /\ ~x.playground /\ x.pc \in {"rsvFunding", "rsvUndoToken"}
                THEN x.tokenConsumed + x.extra ELSE x.tokenConsumed
<1>1. /\ x.consumed \in Nat /\ x.preConsumed \in Nat /\ x.tokenConsumed \in Nat
      /\ x.extraReserved \in Nat /\ x.extra \in Nat /\ x.kind \in Fundings
  BY DEF SessionRecs
<1>2. ~x.fundingSettled /\ x.effects = {}
  BY DEF Untouched
<1>3. OfToken(x) =
         IF x.kind = "package" /\ ~x.playground /\ x.pc \in {"rsvFunding", "rsvUndoToken"}
         THEN x.tokenConsumed + x.extra ELSE x.tokenConsumed
  BY <1>1, <1>2 DEF OfToken
<1>4. OfFunding(x) =
         IF x.kind = "package" THEN x.preConsumed
         ELSE IF x.kind = "wallet" THEN x.consumed
         ELSE IF x.pc \in {"rsvCheckToken", "rsvTakeToken", "rsvUndoFunding"}
              THEN x.consumed + x.extraReserved + x.extra
         ELSE x.consumed + x.extraReserved
  BY <1>1, <1>2 DEF OfFunding, Fundings
<1> QED BY <1>3, <1>4

\* A session that only changes its amounts keeps its flags.
LEMMA IsUntouched ==
    ASSUME NEW x, NEW y, NEW p, NEW c, NEW r, NEW t, NEW e, NEW d,
           Is(y, x, p, c, r, t, e, d), Untouched(x)
    PROVE  Untouched(y)
BY DEF Is, Untouched, SameFlags

LEMMA ReserveRealtimeInv ==
    ASSUME BSInv, NEW s \in Sessions, NEW q \in Quotas, ReserveRealtime(s, q)
    PROVE  BSInv'
<1>x. PICK x : x = ses[s]
  OBVIOUS
<1>0. x.pc = "running" /\ x.pc \in LivePcs /\ q > x.preConsumed /\ q \in Nat
  BY <1>x, BSConstants DEF ReserveRealtime, At, LivePcs
<1>1. /\ x \in SessionRecs /\ row[s] \in RowRecs /\ failures \in Nat
      /\ Untouched(x) /\ LiveOK(x, row[s]) /\ AmountsOK(x, row[s], failures)
      /\ x.kind \in Fundings /\ x.preConsumed \in Nat /\ x.tokenConsumed \in Nat
      /\ x.consumed \in Nat /\ x.extraReserved \in Nat
  BY <1>0, <1>x, LiveNow
<1>d. PICK d \in Nat : d = q - x.preConsumed
  BY <1>0, <1>1
<1>p. PICK p : p = IF x.kind = "package" /\ ~x.playground THEN "rsvCheckToken" ELSE "rsvFunding"
  OBVIOUS
<1>2. p \in {"rsvCheckToken", "rsvFunding"} /\ p \in RsvPcs /\ p \in LivePcs /\ p \in PCs
  BY <1>p DEF RsvPcs, LivePcs, PCs
<1>y. PICK y : y = [x EXCEPT !.extra = d, !.pc = p]
  OBVIOUS
<1>3. Is(y, x, p, x.consumed, x.preConsumed, x.tokenConsumed, x.extraReserved, d)
  <2>1. y \in SessionRecs /\ y.pc = p /\ y.extra = d /\ y.actual = x.actual
    BY <1>1, <1>2, <1>y DEF SessionRecs
  <2>2. /\ y.consumed = x.consumed /\ y.preConsumed = x.preConsumed
        /\ y.tokenConsumed = x.tokenConsumed /\ y.extraReserved = x.extraReserved
    BY <1>1, <1>y DEF SessionRecs
  <2>3. SameWho(y, x)
    BY <1>1, <1>y DEF SessionRecs, SameWho
  <2>4. SameFlags(y, x)
    BY <1>1, <1>y DEF SessionRecs, SameFlags
  <2> QED BY <2>1, <2>2, <2>3, <2>4 DEF Is
<1>4. Untouched(y) /\ y \in SessionRecs
  BY <1>1, <1>3, IsUntouched DEF Is
<1>5. /\ y.kind = x.kind /\ (y.playground <=> x.playground) /\ y.pc = p
      /\ y.consumed = x.consumed /\ y.preConsumed = x.preConsumed
      /\ y.tokenConsumed = x.tokenConsumed /\ y.extraReserved = x.extraReserved /\ y.extra = d
  BY <1>3 DEF Is, SameWho
<1>6. OfFunding(y) = OfFunding(x)
  BY <1>0, <1>1, <1>4, <1>5, <1>p, LiveHolds
<1>7. OfToken(y) = OfToken(x)
  BY <1>0, <1>1, <1>4, <1>5, <1>p, LiveHolds
<1>8. LiveOK(y, row[s])
  BY <1>1, <1>2, <1>4, <1>5, <1>p DEF LiveOK
<1>9. AmountsOK(y, row[s], failures)
  BY <1>0, <1>1, <1>5, <1>6, <1>p DEF AmountsOK
<1>10. SessionOK(y, row[s], failures)
  BY <1>2, <1>5, <1>8, <1>9, Phases
<1>11. ses' = [ses EXCEPT ![s] = y]
  BY <1>x, <1>d, <1>p, <1>y DEF ReserveRealtime, Put
<1>12. row' = [row EXCEPT ![s] = row[s]] /\ lost' = lost /\ overwrote' = overwrote /\ bal' = bal /\ failures' = failures
  BY SameRow DEF ReserveRealtime
<1> QED BY <1>x, <1>1, <1>4, <1>5, <1>6, <1>7, <1>10, <1>11, <1>12, QuietStep

\* A reservation that was refused and had taken nothing: back to running.
LEMMA NotReservedStep ==
    ASSUME BSInv, NEW s \in Sessions, NEW x, x = ses[s], x.pc \in RsvPcs,
           ses' = [ses EXCEPT ![s] = NotReserved(x)], row' = row, bal' = bal, lost' = lost /\ overwrote' = overwrote,
           failures' = failures \/ (failures < MaxFailures /\ failures' = failures + 1),
           \/ x.pc = "rsvFunding" /\ (x.kind # "package" \/ x.playground)
           \/ x.pc \in {"rsvCheckToken", "rsvTakeToken"} /\ x.kind = "package"
    PROVE  BSInv'
<1>0. x.pc \in LivePcs
  BY DEF LivePcs
<1>1. /\ x \in SessionRecs /\ row[s] \in RowRecs /\ failures \in Nat
      /\ Untouched(x) /\ LiveOK(x, row[s]) /\ AmountsOK(x, row[s], failures)
      /\ x.kind \in Fundings /\ x.preConsumed \in Nat /\ x.tokenConsumed \in Nat
      /\ x.consumed \in Nat /\ x.extraReserved \in Nat
  BY <1>0, LiveNow
<1>y. PICK y : y = NotReserved(x)
  OBVIOUS
<1>2. Is(y, x, "running", x.consumed, x.preConsumed, x.tokenConsumed, x.extraReserved, 0)
  BY <1>1, <1>y, NotReservedIs
<1>4. Untouched(y) /\ y \in SessionRecs
  BY <1>1, <1>2, IsUntouched DEF Is
<1>5. /\ y.kind = x.kind /\ (y.playground <=> x.playground) /\ y.pc = "running"
      /\ y.consumed = x.consumed /\ y.preConsumed = x.preConsumed
      /\ y.tokenConsumed = x.tokenConsumed /\ y.extraReserved = x.extraReserved /\ y.extra = 0
  BY <1>2 DEF Is, SameWho
<1>6. OfFunding(y) = OfFunding(x)
  BY <1>0, <1>1, <1>4, <1>5, LiveHolds
<1>7. OfToken(y) = OfToken(x)
  BY <1>0, <1>1, <1>4, <1>5, LiveHolds
<1>r. "running" \in LivePcs /\ "running" \notin RsvPcs
  BY DEF LivePcs, RsvPcs
<1>8. LiveOK(y, row[s])
  BY <1>1, <1>r, <1>4, <1>5 DEF LiveOK
<1>f. failures' = 0 => failures = 0
  BY <1>1
<1>9. AmountsOK(y, row[s], failures')
  BY <1>0, <1>1, <1>5, <1>6, <1>f DEF AmountsOK
<1>10. SessionOK(y, row[s], failures')
  BY <1>r, <1>5, <1>8, <1>9, Phases
<1>11. ses' = [ses EXCEPT ![s] = y] /\ row' = [row EXCEPT ![s] = row[s]]
  BY <1>y, SameRow
<1> QED BY <1>1, <1>4, <1>5, <1>6, <1>7, <1>10, <1>11, QuietStep

\* A reservation goes on, nothing has moved yet.
RsvMove(x, p) ==
    \/ x.pc = "rsvFunding" /\ p = "rsvUndoToken" /\ x.kind = "package" /\ ~x.playground
    \/ x.pc = "rsvCheckToken" /\ p = "rsvTakeToken"
    \/ x.pc \in {"rsvCheckToken", "rsvTakeToken"} /\ p = "rsvUndoFunding" /\ x.kind # "package"

LEMMA RsvGoesTo ==
    ASSUME BSInv, NEW s \in Sessions, NEW x, x = ses[s], x.pc \in RsvPcs, NEW p \in RsvPcs,
           ses' = [ses EXCEPT ![s] = [x EXCEPT !.pc = p]], row' = row, bal' = bal, lost' = lost /\ overwrote' = overwrote,
           failures' = failures \/ (failures < MaxFailures /\ failures' = failures + 1),
           RsvMove(x, p)
    PROVE  BSInv'
<1>0. x.pc \in LivePcs /\ p \in LivePcs /\ p \in PCs
  BY DEF LivePcs, PCs
<1>1. /\ x \in SessionRecs /\ row[s] \in RowRecs /\ failures \in Nat
      /\ Untouched(x) /\ LiveOK(x, row[s]) /\ AmountsOK(x, row[s], failures)
      /\ x.kind \in Fundings /\ x.preConsumed \in Nat /\ x.tokenConsumed \in Nat
      /\ x.consumed \in Nat /\ x.extraReserved \in Nat /\ x.extra \in Nat
  BY <1>0, LiveNow
<1>y. PICK y : y = [x EXCEPT !.pc = p]
  OBVIOUS
<1>2. Is(y, x, p, x.consumed, x.preConsumed, x.tokenConsumed, x.extraReserved, x.extra)
  BY <1>0, <1>1, <1>y, GoesToIs
<1>4. Untouched(y) /\ y \in SessionRecs
  BY <1>1, <1>2, IsUntouched DEF Is
<1>5. /\ y.kind = x.kind /\ (y.playground <=> x.playground) /\ y.pc = p
      /\ y.consumed = x.consumed /\ y.preConsumed = x.preConsumed
      /\ y.tokenConsumed = x.tokenConsumed /\ y.extraReserved = x.extraReserved
      /\ y.extra = x.extra
  BY <1>2 DEF Is, SameWho
<1>6. OfFunding(y) = OfFunding(x)
  BY <1>0, <1>1, <1>4, <1>5, LiveHolds DEF RsvMove
<1>7. OfToken(y) = OfToken(x)
  BY <1>0, <1>1, <1>4, <1>5, LiveHolds DEF RsvMove
<1>8. LiveOK(y, row[s])
  BY <1>1, <1>4, <1>5 DEF LiveOK, RsvMove
<1>f. failures' = 0 => failures = 0
  BY <1>1
<1>9. AmountsOK(y, row[s], failures')
  BY <1>0, <1>1, <1>5, <1>6, <1>f DEF AmountsOK, RsvMove
<1>10. SessionOK(y, row[s], failures')
  BY <1>0, <1>5, <1>8, <1>9, Phases
<1>11. ses' = [ses EXCEPT ![s] = y] /\ row' = [row EXCEPT ![s] = row[s]]
  BY <1>y, SameRow
<1> QED BY <1>1, <1>4, <1>5, <1>6, <1>7, <1>10, <1>11, QuietStep

\* The funding source has given the difference.
LEMMA FundingReserved ==
    ASSUME BSInv, NEW s \in Sessions, NEW x, x = ses[s], x.pc = "rsvFunding",
           NEW y, NEW c, NEW w, NEW p,
           c = IF x.kind = "wallet" THEN x.consumed + x.extra ELSE x.consumed,
           w = IF x.kind = "package" THEN [row[s] EXCEPT !.quota = row[s].quota + x.extra]
               ELSE row[s],
           \/ /\ x.kind = "package" \/ x.playground
              /\ p = "running"
              /\ Is(y, x, p, c, x.preConsumed + x.extra,
                    IF x.playground THEN x.tokenConsumed ELSE x.tokenConsumed + x.extra,
                    x.extraReserved + x.extra, 0)
           \/ /\ x.kind # "package" /\ ~x.playground
              /\ p = "rsvCheckToken"
              /\ Is(y, x, p, c, x.preConsumed, x.tokenConsumed, x.extraReserved, x.extra),
           Enough(x.kind, x.extra), Take(x.kind, x.extra),
           ses' = [ses EXCEPT ![s] = y], row' = [row EXCEPT ![s] = w],
           lost' = lost /\ overwrote' = overwrote, failures' = failures
    PROVE  BSInv'
<1>0. x.pc \in LivePcs /\ x.pc \in RsvPcs
  BY DEF LivePcs, RsvPcs
<1>1. /\ x \in SessionRecs /\ row[s] \in RowRecs /\ failures \in Nat
      /\ Untouched(x) /\ LiveOK(x, row[s]) /\ AmountsOK(x, row[s], failures)
      /\ x.kind \in Fundings /\ x.preConsumed \in Nat /\ x.tokenConsumed \in Nat
      /\ x.consumed \in Nat /\ x.extraReserved \in Nat /\ x.extra \in Nat
  BY <1>0, LiveNow
<1>2. Untouched(y) /\ y \in SessionRecs /\ y.kind = x.kind /\ (y.playground <=> x.playground)
      /\ y.pc = p /\ y.consumed = c
  BY <1>1, IsUntouched DEF Is, SameWho
<1>3. /\ p = "running" => /\ y.preConsumed = x.preConsumed + x.extra /\ y.extra = 0
                          /\ y.extraReserved = x.extraReserved + x.extra
                          /\ y.tokenConsumed = IF x.playground THEN x.tokenConsumed
                                               ELSE x.tokenConsumed + x.extra
                          /\ x.kind = "package" \/ x.playground
      /\ p # "running" => /\ y.preConsumed = x.preConsumed /\ y.extra = x.extra
                          /\ y.extraReserved = x.extraReserved
                          /\ y.tokenConsumed = x.tokenConsumed
                          /\ x.kind # "package" /\ ~x.playground /\ p = "rsvCheckToken"
  BY DEF Is
<1>4. OfFunding(y) = OfFunding(x) + x.extra
  <2>1. CASE x.kind = "package"
    BY <1>1, <1>2, <1>3, <2>1, LiveHolds
  <2>2. CASE x.kind = "wallet"
    BY <1>1, <1>2, <1>3, <2>2, LiveHolds
  <2>3. CASE x.kind = "subscription"
    BY <1>1, <1>2, <1>3, <2>3, LiveHolds
  <2> QED BY <1>1, <2>1, <2>2, <2>3 DEF Fundings
<1>5. OfToken(y) = OfToken(x)
  BY <1>1, <1>2, <1>3, LiveHolds
<1>6. /\ w \in RowRecs /\ w.status = row[s].status
      /\ x.kind = "package" => w.quota = row[s].quota + x.extra
  <2>1. CASE x.kind = "package"
    <3>1. w = [row[s] EXCEPT !.quota = row[s].quota + x.extra]
      BY <2>1
    <3>2. row[s].quota + x.extra \in Nat
      BY <1>1 DEF RowRecs
    <3> QED BY <1>1, <3>1, <3>2 DEF RowRecs
  <2> QED BY <1>1, <2>1
<1>7. LiveOK(y, w)
  <2>1. "rsvCheckToken" \in RsvPcs /\ "running" \notin RsvPcs
    BY DEF RsvPcs
  <2> QED BY <1>1, <1>2, <1>3, <1>6, <2>1 DEF LiveOK
<1>8. AmountsOK(y, w, failures')
  <2>1. y.tokenConsumed = IF y.playground THEN 0 ELSE y.preConsumed
    BY <1>1, <1>2, <1>3 DEF AmountsOK
  <2>2. y.kind # "wallet" => y.preConsumed = y.consumed + y.extraReserved
    BY <1>1, <1>2, <1>3 DEF AmountsOK
  <2>3. y.kind = "wallet" =>
         LET reserved == y.preConsumed
                         + (IF y.pc \in {"rsvCheckToken", "rsvTakeToken", "rsvUndoFunding"}
                            THEN y.extra ELSE 0)
         IN  y.consumed >= reserved /\ (failures' = 0 => y.consumed = reserved)
    BY <1>1, <1>2, <1>3 DEF AmountsOK
  <2>4. y.kind = "wallet" <=> w.status = "none"
    BY <1>1, <1>2, <1>6 DEF AmountsOK
  <2>5. y.kind = "package" /\ w.status = "consumed" => w.quota = OfFunding(y)
    BY <1>1, <1>2, <1>4, <1>6 DEF AmountsOK
  <2> QED BY <2>1, <2>2, <2>3, <2>4, <2>5 DEF AmountsOK
<1>9. SessionOK(y, w, failures')
  <2>1. p \in LivePcs
    BY DEF LivePcs, RsvPcs
  <2> QED BY <1>2, <1>7, <1>8, <2>1, Phases
<1>10. \/ x.kind = "wallet" \/ Initial[x.kind] = 0 \/ x.extra <= 0
       \/ bal[x.kind] - x.extra >= 0
  BY <1>1, EnoughLeft
<1>11. x.extra \in Int
  BY <1>1
<1> QED BY <1>2, <1>4, <1>5, <1>6, <1>9, <1>10, <1>11, FundingStep

LEMMA ReserveFundingInv ==
    ASSUME BSInv, NEW s \in Sessions, ReserveFunding(s)
    PROVE  BSInv'
<1>x. PICK x : x = ses[s]
  OBVIOUS
<1>0. x.pc = "rsvFunding" /\ x.pc \in LivePcs /\ x.pc \in RsvPcs /\ lost' = lost /\ overwrote' = overwrote
  BY <1>x DEF ReserveFunding, At, LivePcs, RsvPcs
<1>1. /\ x \in SessionRecs /\ row[s] \in RowRecs /\ x.consumed \in Nat /\ x.extra \in Nat
      /\ x.kind \in Fundings /\ row \in [Sessions -> RowRecs]
      /\ x.preConsumed \in Nat /\ x.tokenConsumed \in Nat /\ x.extraReserved \in Nat
  BY <1>0, <1>x, LiveNow, SessionFacts
<1>2. CASE /\ Enough(x.kind, x.extra) /\ Take(x.kind, x.extra)
           /\ row' = IF x.kind = "package" THEN [row EXCEPT ![s].quota = @ + x.extra] ELSE row
           /\ LET y == IF x.kind = "wallet" THEN [x EXCEPT !.consumed = @ + x.extra] ELSE x
              IN  Put(s, IF x.kind = "package" \/ x.playground THEN Reserved(y)
                         ELSE [y EXCEPT !.pc = "rsvCheckToken"])
           /\ UNCHANGED failures
  <2>c. PICK c \in Nat : c = IF x.kind = "wallet" THEN x.consumed + x.extra ELSE x.consumed
    BY <1>1
  <2>v. PICK v : v = IF x.kind = "wallet" THEN [x EXCEPT !.consumed = c] ELSE x
    OBVIOUS
  <2>1. Is(v, x, x.pc, c, x.preConsumed, x.tokenConsumed, x.extraReserved, x.extra)
    <3>1. CASE x.kind = "wallet"
      <4>1. v = [x EXCEPT !.consumed = c]
        BY <2>v, <3>1
      <4>2. v \in SessionRecs /\ v.pc = x.pc /\ v.extra = x.extra /\ v.actual = x.actual
        BY <1>1, <4>1 DEF SessionRecs
      <4>3. /\ v.consumed = c /\ v.preConsumed = x.preConsumed
            /\ v.tokenConsumed = x.tokenConsumed /\ v.extraReserved = x.extraReserved
        BY <1>1, <4>1 DEF SessionRecs
      <4>4. SameWho(v, x)
        BY <1>1, <4>1 DEF SessionRecs, SameWho
      <4>5. SameFlags(v, x)
        BY <1>1, <4>1 DEF SessionRecs, SameFlags
      <4> QED BY <4>2, <4>3, <4>4, <4>5 DEF Is
    <3>2. CASE x.kind # "wallet"
      BY <1>1, <2>c, <2>v, <3>2 DEF Is, SameWho, SameFlags
    <3> QED BY <3>1, <3>2
  <2>w. PICK w : w = IF x.kind = "package" THEN [row[s] EXCEPT !.quota = row[s].quota + x.extra]
                     ELSE row[s]
    OBVIOUS
  <2>2. row' = [row EXCEPT ![s] = w]
    BY <1>1, <1>2, <2>w, SameRow
  <2>3. v = IF x.kind = "wallet" THEN [x EXCEPT !.consumed = @ + x.extra] ELSE x
    BY <1>1, <2>c, <2>v DEF SessionRecs
  <2>4. ses' = [ses EXCEPT ![s] = IF x.kind = "package" \/ x.playground THEN Reserved(v)
                                  ELSE [v EXCEPT !.pc = "rsvCheckToken"]]
    BY <1>2, <2>3 DEF Put
  <2>5. /\ v \in SessionRecs /\ SameWho(v, x) /\ SameFlags(v, x) /\ v.consumed = c
        /\ v.preConsumed = x.preConsumed /\ v.tokenConsumed = x.tokenConsumed
        /\ v.extraReserved = x.extraReserved /\ v.extra = x.extra /\ v.actual = x.actual
    BY <2>1 DEF Is
  <2>6. CASE x.kind = "package" \/ x.playground
    <3>y. PICK y : y = Reserved(v)
      OBVIOUS
    <3>1. Is(y, v, "running", v.consumed, v.preConsumed + v.extra,
              IF v.playground THEN v.tokenConsumed ELSE v.tokenConsumed + v.extra,
              v.extraReserved + v.extra, 0)
      BY <2>5, <3>y, ReservedIs
    <3>2. SameWho(y, x) /\ SameFlags(y, x)
      BY <2>5, <3>1 DEF Is, SameWho, SameFlags
    <3>t. (IF v.playground THEN v.tokenConsumed ELSE v.tokenConsumed + v.extra)
             = IF x.playground THEN x.tokenConsumed ELSE x.tokenConsumed + x.extra
      BY <2>5 DEF SameWho
    <3>3. Is(y, x, "running", c, x.preConsumed + x.extra,
                    IF x.playground THEN x.tokenConsumed ELSE x.tokenConsumed + x.extra,
                    x.extraReserved + x.extra, 0)
      BY <2>5, <3>1, <3>2, <3>t DEF Is
    <3>4. ses' = [ses EXCEPT ![s] = y]
      BY <2>4, <2>6, <3>y
    <3> QED BY <1>0, <1>2, <1>x, <2>c, <2>w, <2>2, <2>6, <3>3, <3>4, FundingReserved
  <2>7. CASE ~(x.kind = "package" \/ x.playground)
    <3>y. PICK y : y = [v EXCEPT !.pc = "rsvCheckToken"]
      OBVIOUS
    <3>0. "rsvCheckToken" \in PCs
      BY DEF PCs, LivePcs, RsvPcs
    <3>1. Is(y, v, "rsvCheckToken", v.consumed, v.preConsumed, v.tokenConsumed,
             v.extraReserved, v.extra)
      BY <2>5, <3>0, <3>y, GoesToIs
    <3>2. SameWho(y, x) /\ SameFlags(y, x)
      BY <2>5, <3>1 DEF Is, SameWho, SameFlags
    <3>3. Is(y, x, "rsvCheckToken", c, x.preConsumed, x.tokenConsumed, x.extraReserved, x.extra)
      BY <2>5, <3>1, <3>2 DEF Is
    <3>4. ses' = [ses EXCEPT ![s] = y]
      BY <2>4, <2>7, <3>y
    <3> QED BY <1>0, <1>2, <1>x, <2>c, <2>w, <2>2, <2>7, <3>3, <3>4, FundingReserved
  <2> QED BY <2>6, <2>7
<1>3. ASSUME ses' = [ses EXCEPT ![s] = IF x.kind = "package" /\ ~x.playground
                                       THEN [x EXCEPT !.pc = "rsvUndoToken"] ELSE NotReserved(x)],
             UNCHANGED <<bal, row>>,
             failures' = failures \/ (failures < MaxFailures /\ failures' = failures + 1)
      PROVE  BSInv'
  <2>0. row' = row /\ bal' = bal
        /\ (failures' = failures \/ (failures < MaxFailures /\ failures' = failures + 1))
    BY <1>3
  <2>1. CASE x.kind = "package" /\ ~x.playground
    <3>1. ses' = [ses EXCEPT ![s] = [x EXCEPT !.pc = "rsvUndoToken"]]
      BY <1>3, <2>1
    <3>2. "rsvUndoToken" \in RsvPcs /\ RsvMove(x, "rsvUndoToken")
      BY <1>0, <2>1 DEF RsvPcs, RsvMove
    <3> QED BY <1>0, <1>x, <2>0, <2>1, <3>1, <3>2, RsvGoesTo
  <2>2. CASE ~(x.kind = "package" /\ ~x.playground)
    <3>1. ses' = [ses EXCEPT ![s] = NotReserved(x)]
      BY <1>3, <2>2
    <3> QED BY <1>0, <1>3, <1>x, <2>2, <3>1, NotReservedStep
  <2> QED BY <2>1, <2>2
<1>4. \/ Put(s, IF x.kind = "package" /\ ~x.playground
                THEN [x EXCEPT !.pc = "rsvUndoToken"] ELSE NotReserved(x))
         /\ (DBError \/ UNCHANGED <<bal, row, failures>>)
      \/ /\ Enough(x.kind, x.extra) /\ Take(x.kind, x.extra)
         /\ row' = IF x.kind = "package" THEN [row EXCEPT ![s].quota = @ + x.extra] ELSE row
         /\ LET y == IF x.kind = "wallet" THEN [x EXCEPT !.consumed = @ + x.extra] ELSE x
              IN  Put(s, IF x.kind = "package" \/ x.playground THEN Reserved(y)
                         ELSE [y EXCEPT !.pc = "rsvCheckToken"])
         /\ UNCHANGED failures
  BY <1>x DEF ReserveFunding
<1> QED BY <1>2, <1>3, <1>4 DEF Put, DBError

LEMMA NoTokenReserveStep ==
    ASSUME BSInv, NEW s \in Sessions, NEW x, x = ses[s],
           x.pc \in {"rsvCheckToken", "rsvTakeToken"},
           ses' = [ses EXCEPT ![s] = NoTokenReserve(x)], row' = row, bal' = bal, lost' = lost /\ overwrote' = overwrote,
           failures' = failures \/ (failures < MaxFailures /\ failures' = failures + 1)
    PROVE  BSInv'
<1>0. x.pc \in RsvPcs /\ "rsvUndoFunding" \in RsvPcs
  BY DEF RsvPcs
<1>1. CASE x.kind = "package"
  <2>1. ses' = [ses EXCEPT ![s] = NotReserved(x)]
    BY <1>1 DEF NoTokenReserve
  <2> QED BY <1>0, <1>1, <2>1, NotReservedStep
<1>2. CASE x.kind # "package"
  <2>1. ses' = [ses EXCEPT ![s] = [x EXCEPT !.pc = "rsvUndoFunding"]]
    BY <1>2 DEF NoTokenReserve
  <2>2. RsvMove(x, "rsvUndoFunding")
    BY <1>2 DEF RsvMove
  <2> QED BY <1>0, <2>1, <2>2, RsvGoesTo
<1> QED BY <1>1, <1>2

LEMMA ReserveCheckTokenInv ==
    ASSUME BSInv, NEW s \in Sessions, ReserveCheckToken(s)
    PROVE  BSInv'
<1>x. PICK x : x = ses[s]
  OBVIOUS
<1>0. x.pc = "rsvCheckToken" /\ x.pc \in RsvPcs /\ "rsvTakeToken" \in RsvPcs
  BY <1>x DEF ReserveCheckToken, At, RsvPcs
<1>1. row' = row /\ bal' = bal /\ lost' = lost /\ overwrote' = overwrote /\ failures' = failures
  BY DEF ReserveCheckToken
<1>2. \/ ses' = [ses EXCEPT ![s] = [x EXCEPT !.pc = "rsvTakeToken"]]
      \/ ses' = [ses EXCEPT ![s] = NoTokenReserve(x)]
  BY <1>x DEF ReserveCheckToken, Put
<1>3. CASE ses' = [ses EXCEPT ![s] = [x EXCEPT !.pc = "rsvTakeToken"]]
  <2>1. RsvMove(x, "rsvTakeToken")
    BY <1>0 DEF RsvMove
  <2> QED BY <1>0, <1>1, <1>3, <1>x, <2>1, RsvGoesTo
<1>4. CASE ses' = [ses EXCEPT ![s] = NoTokenReserve(x)]
  BY <1>0, <1>1, <1>4, <1>x, NoTokenReserveStep
<1> QED BY <1>2, <1>3, <1>4

LEMMA ReserveTakeTokenInv ==
    ASSUME BSInv, NEW s \in Sessions, ReserveTakeToken(s)
    PROVE  BSInv'
<1>x. PICK x : x = ses[s]
  OBVIOUS
<1>0. x.pc = "rsvTakeToken" /\ x.pc \in RsvPcs /\ x.pc \in LivePcs /\ lost' = lost /\ overwrote' = overwrote
  BY <1>x DEF ReserveTakeToken, At, RsvPcs, LivePcs
<1>1. /\ x \in SessionRecs /\ row[s] \in RowRecs /\ failures \in Nat
      /\ Untouched(x) /\ LiveOK(x, row[s]) /\ AmountsOK(x, row[s], failures)
      /\ x.kind \in Fundings /\ x.preConsumed \in Nat /\ x.tokenConsumed \in Nat
      /\ x.consumed \in Nat /\ x.extraReserved \in Nat /\ x.extra \in Nat
  BY <1>0, <1>x, LiveNow
<1>2. ~x.playground
  BY <1>0, <1>1 DEF LiveOK
<1>3. CASE /\ Take("token", x.extra)
           /\ Put(s, IF x.kind = "package" THEN [x EXCEPT !.pc = "rsvFunding"] ELSE Reserved(x))
           /\ UNCHANGED <<row, failures>>
  <2>y. PICK y : y = IF x.kind = "package" THEN [x EXCEPT !.pc = "rsvFunding"] ELSE Reserved(x)
    OBVIOUS
  <2>1. ASSUME x.kind = "package"
        PROVE  /\ y \in SessionRecs /\ SessionOK(y, row[s], failures) /\ y.kind = x.kind
               /\ OfFunding(y) = OfFunding(x) /\ OfToken(y) = OfToken(x) + x.extra
    <3>0. "rsvFunding" \in PCs /\ "rsvFunding" \in LivePcs /\ "rsvFunding" \in RsvPcs
      BY DEF PCs, LivePcs, RsvPcs
    <3>1. Is(y, x, "rsvFunding", x.consumed, x.preConsumed, x.tokenConsumed, x.extraReserved,
             x.extra)
      BY <1>1, <2>1, <2>y, <3>0, GoesToIs
    <3>2. Untouched(y) /\ y \in SessionRecs
      BY <1>1, <3>1, IsUntouched DEF Is
    <3>3. /\ y.kind = "package" /\ ~y.playground /\ y.pc = "rsvFunding"
          /\ y.consumed = x.consumed /\ y.preConsumed = x.preConsumed
          /\ y.tokenConsumed = x.tokenConsumed /\ y.extraReserved = x.extraReserved
          /\ y.extra = x.extra
      BY <1>2, <2>1, <3>1 DEF Is, SameWho
    <3>4. OfFunding(y) = OfFunding(x)
      BY <1>0, <1>1, <2>1, <3>2, <3>3, LiveHolds
    <3>5. OfToken(y) = OfToken(x) + x.extra
      BY <1>0, <1>1, <2>1, <3>2, <3>3, LiveHolds
    <3>6. LiveOK(y, row[s])
      BY <1>1, <3>0, <3>2, <3>3 DEF LiveOK
    <3>7. AmountsOK(y, row[s], failures)
      BY <1>1, <1>2, <2>1, <3>3, <3>4 DEF AmountsOK
    <3>8. SessionOK(y, row[s], failures)
      BY <3>0, <3>3, <3>6, <3>7, Phases
    <3> QED BY <2>1, <3>2, <3>3, <3>4, <3>5, <3>8
  <2>2. ASSUME x.kind # "package"
        PROVE  /\ y \in SessionRecs /\ SessionOK(y, row[s], failures) /\ y.kind = x.kind
               /\ OfFunding(y) = OfFunding(x) /\ OfToken(y) = OfToken(x) + x.extra
    <3>0. "running" \in LivePcs /\ "running" \notin RsvPcs
      BY DEF LivePcs, RsvPcs
    <3>1. Is(y, x, "running", x.consumed, x.preConsumed + x.extra,
              IF x.playground THEN x.tokenConsumed ELSE x.tokenConsumed + x.extra,
              x.extraReserved + x.extra, 0)
      BY <1>1, <2>2, <2>y, ReservedIs
    <3>2. Untouched(y) /\ y \in SessionRecs
      BY <1>1, <3>1, IsUntouched DEF Is
    <3>3. /\ y.kind = x.kind /\ ~y.playground /\ y.pc = "running"
          /\ y.consumed = x.consumed /\ y.preConsumed = x.preConsumed + x.extra
          /\ y.tokenConsumed = x.tokenConsumed + x.extra
          /\ y.extraReserved = x.extraReserved + x.extra /\ y.extra = 0
      BY <1>2, <3>1 DEF Is, SameWho
    <3>4. OfFunding(y) = OfFunding(x)
      BY <1>0, <1>1, <2>2, <3>2, <3>3, LiveHolds
    <3>5. OfToken(y) = OfToken(x) + x.extra
      BY <1>0, <1>1, <2>2, <3>2, <3>3, LiveHolds
    <3>6. LiveOK(y, row[s])
      BY <1>1, <3>0, <3>2, <3>3 DEF LiveOK
    <3>7. AmountsOK(y, row[s], failures)
      BY <1>0, <1>1, <1>2, <2>2, <3>3, <3>4 DEF AmountsOK
    <3>8. SessionOK(y, row[s], failures)
      BY <3>0, <3>3, <3>6, <3>7, Phases
    <3> QED BY <2>2, <3>2, <3>3, <3>4, <3>5, <3>8
  <2>3. /\ y \in SessionRecs /\ SessionOK(y, row[s], failures) /\ y.kind = x.kind
        /\ OfFunding(y) = OfFunding(x) /\ OfToken(y) = OfToken(x) + x.extra
    BY <2>1, <2>2
  <2>4. ses' = [ses EXCEPT ![s] = y] /\ row' = [row EXCEPT ![s] = row[s]]
        /\ Take("token", x.extra) /\ failures' = failures /\ x.extra \in Int
    BY <1>1, <1>3, <2>y, SameRow DEF Put
  <2> QED BY <1>0, <1>1, <1>x, <2>3, <2>4, TokenStep
<1>4. CASE DBError /\ Put(s, NoTokenReserve(x))
  BY <1>0, <1>4, <1>x, NoTokenReserveStep DEF DBError, Put
<1> QED BY <1>3, <1>4, <1>x DEF ReserveTakeToken

\* A reservation that ends: what was taken for it is given back, or lost.
RollsTo(x, c, m, n) ==
    /\ n = 0 => m = 0
    /\ x.kind = "wallet" /\ n = 0 => c = x.consumed - x.extra
    /\ c = x.consumed \/ (x.kind = "wallet" /\ c = x.consumed - x.extra)

LEMMA RollbackRow ==
    ASSUME NEW x \in SessionRecs, NEW w \in RowRecs, NEW m \in Nat, NEW n \in Nat,
           x.pc \in {"rsvUndoFunding", "rsvUndoToken"}, LiveOK(x, w), AmountsOK(x, w, m),
           NEW c \in Nat, NEW y,
           Is(y, x, "running", c, x.preConsumed, x.tokenConsumed, x.extraReserved, 0),
           RollsTo(x, c, m, n)
    PROVE  /\ y \in SessionRecs /\ SessionOK(y, w, n) /\ y.kind = x.kind
           /\ x.kind = "wallet" => OfFunding(y) = c /\ OfFunding(x) = x.consumed
           /\ x.kind = "subscription" => OfFunding(y) = OfFunding(x) - x.extra
           /\ x.kind = "package" => OfFunding(y) = OfFunding(x)
           /\ x.pc = "rsvUndoFunding" => OfToken(y) = OfToken(x)
           /\ x.pc = "rsvUndoToken" => OfToken(y) = OfToken(x) - x.extra
<1>0. x.pc \in LivePcs /\ x.pc \in RsvPcs /\ "running" \in LivePcs /\ "running" \notin RsvPcs
  BY DEF LivePcs, RsvPcs
<1>1. /\ Untouched(x) /\ LiveOK(x, w) /\ AmountsOK(x, w, m)
      /\ x \in SessionRecs /\ w \in RowRecs
      /\ x.kind \in Fundings /\ x.preConsumed \in Nat /\ x.tokenConsumed \in Nat
      /\ x.consumed \in Nat /\ x.extraReserved \in Nat /\ x.extra \in Nat
  BY DEF LiveOK, SessionRecs
<1>2. Untouched(y) /\ y \in SessionRecs
  BY <1>1, IsUntouched DEF Is
<1>3. /\ y.kind = x.kind /\ (y.playground <=> x.playground) /\ y.pc = "running"
      /\ y.consumed = c /\ y.preConsumed = x.preConsumed
      /\ y.tokenConsumed = x.tokenConsumed /\ y.extraReserved = x.extraReserved /\ y.extra = 0
  BY DEF Is, SameWho
<1>4. ~x.playground /\ (x.pc = "rsvUndoToken" <=> x.kind = "package")
  BY <1>0, <1>1 DEF LiveOK
<1>5. OfFunding(y) = IF x.kind = "package" THEN x.preConsumed
                     ELSE IF x.kind = "wallet" THEN c ELSE c + x.extraReserved
  BY <1>1, <1>2, <1>3, LiveHolds
<1>6. OfFunding(x) = IF x.kind = "package" THEN x.preConsumed
                     ELSE IF x.kind = "wallet" THEN x.consumed
                     ELSE x.consumed + x.extraReserved + x.extra
  BY <1>1, <1>4, LiveHolds
<1>7. OfToken(y) = x.tokenConsumed
  BY <1>1, <1>2, <1>3, LiveHolds
<1>8. OfToken(x) = IF x.kind = "package" THEN x.tokenConsumed + x.extra ELSE x.tokenConsumed
  BY <1>1, <1>4, LiveHolds
<1>9. LiveOK(y, w)
  BY <1>0, <1>1, <1>2, <1>3 DEF LiveOK
<1>10. AmountsOK(y, w, n)
  <2>1. y.tokenConsumed = IF y.playground THEN 0 ELSE y.preConsumed
    BY <1>1, <1>3 DEF AmountsOK
  <2>2. y.kind # "wallet" => y.preConsumed = y.consumed + y.extraReserved
    BY <1>1, <1>3 DEF AmountsOK, RollsTo
  <2>3. y.kind = "wallet" => y.consumed >= y.preConsumed /\ (n = 0 => y.consumed = y.preConsumed)
    BY <1>1, <1>3, <1>4 DEF AmountsOK, RollsTo
  <2>4. y.kind = "wallet" <=> w.status = "none"
    BY <1>1, <1>3 DEF AmountsOK
  <2>5. y.kind = "package" /\ w.status = "consumed" => w.quota = OfFunding(y)
    BY <1>1, <1>3, <1>5, <1>6 DEF AmountsOK
  <2> QED BY <1>1, <1>3, <2>1, <2>2, <2>3, <2>4, <2>5 DEF AmountsOK
<1>11. SessionOK(y, w, n)
  BY <1>0, <1>3, <1>9, <1>10, Phases
<1>12. /\ x.kind = "wallet" => OfFunding(y) = c /\ OfFunding(x) = x.consumed
       /\ x.kind = "subscription" => OfFunding(y) = OfFunding(x) - x.extra
       /\ x.kind = "package" => OfFunding(y) = OfFunding(x)
  BY <1>1, <1>5, <1>6 DEF RollsTo
<1>13. /\ x.pc = "rsvUndoFunding" => OfToken(y) = OfToken(x)
       /\ x.pc = "rsvUndoToken" => OfToken(y) = OfToken(x) - x.extra
  BY <1>1, <1>4, <1>7, <1>8
<1> QED BY <1>2, <1>3, <1>11, <1>12, <1>13

LEMMA rollbackFundingReserveInv ==
    ASSUME BSInv, NEW s \in Sessions, rollbackFundingReserve(s)
    PROVE  BSInv'
<1>x. PICK x : x = ses[s]
  OBVIOUS
<1>0. x.pc = "rsvUndoFunding" /\ x.pc \in LivePcs /\ x.pc \in RsvPcs /\ lost' = lost /\ overwrote' = overwrote
  BY <1>x DEF rollbackFundingReserve, At, LivePcs, RsvPcs
<1>1. /\ x \in SessionRecs /\ row[s] \in RowRecs /\ failures \in Nat
      /\ LiveOK(x, row[s]) /\ AmountsOK(x, row[s], failures)
      /\ x.kind \in Fundings /\ x.consumed \in Nat /\ x.extra \in Nat /\ x.preConsumed \in Nat
      /\ x.extraReserved \in Nat /\ x.tokenConsumed \in Nat
  BY <1>0, <1>x, LiveNow, SessionFacts
<1>2. x.kind \in {"wallet", "subscription"} /\ -x.extra \in Int
  BY <1>0, <1>1 DEF LiveOK, Fundings
<1>3. CASE x.kind = "wallet" /\ Take("wallet", -x.extra) /\ UNCHANGED <<row, failures>>
           /\ Put(s, NotReserved([x EXCEPT !.consumed = @ - x.extra]))
  <2>c. PICK c \in Nat : c = x.consumed - x.extra
    BY <1>0, <1>1, <1>3 DEF AmountsOK
  <2>v. PICK v : v = [x EXCEPT !.consumed = c]
    OBVIOUS
  <2>1. Is(v, x, x.pc, c, x.preConsumed, x.tokenConsumed, x.extraReserved, x.extra)
    <3>2. v \in SessionRecs /\ v.pc = x.pc /\ v.extra = x.extra /\ v.actual = x.actual
      BY <1>1, <2>v DEF SessionRecs
    <3>3. /\ v.consumed = c /\ v.preConsumed = x.preConsumed
          /\ v.tokenConsumed = x.tokenConsumed /\ v.extraReserved = x.extraReserved
      BY <1>1, <2>v DEF SessionRecs
    <3>4. SameWho(v, x)
      BY <1>1, <2>v DEF SessionRecs, SameWho
    <3>5. SameFlags(v, x)
      BY <1>1, <2>v DEF SessionRecs, SameFlags
    <3> QED BY <3>2, <3>3, <3>4, <3>5 DEF Is
  <2>y. PICK y : y = NotReserved(v)
    OBVIOUS
  <2>2. Is(y, v, "running", v.consumed, v.preConsumed, v.tokenConsumed, v.extraReserved, 0)
    BY <2>1, <2>y, NotReservedIs DEF Is
  <2>3. SameWho(y, x) /\ SameFlags(y, x)
    BY <2>1, <2>2 DEF Is, SameWho, SameFlags
  <2>4. Is(y, x, "running", c, x.preConsumed, x.tokenConsumed, x.extraReserved, 0)
    BY <2>1, <2>2, <2>3 DEF Is
  <2>5. failures' = failures /\ row' = [row EXCEPT ![s] = row[s]]
    BY <1>3, SameRow
  <2>6. /\ y \in SessionRecs /\ SessionOK(y, row[s], failures) /\ y.kind = x.kind
        /\ OfFunding(y) = c /\ OfFunding(x) = x.consumed /\ OfToken(y) = OfToken(x)
    <3>1. x.kind = "wallet" /\ x.pc \in {"rsvUndoFunding", "rsvUndoToken"} /\ failures \in Nat
      BY <1>0, <1>1, <1>3
    <3>2. c \in Nat /\ c = x.consumed - x.extra
      BY <2>c
    <3>3. RollsTo(x, c, failures, failures)
      BY <3>1, <3>2 DEF RollsTo
    <3> QED BY <1>1, <2>4, <3>1, <3>2, <3>3, <1>0, RollbackRow
  <2>7. OfFunding(y) = OfFunding(x) + (-x.extra)
    BY <1>1, <2>6, <2>c
  <2>8. v = [x EXCEPT !.consumed = @ - x.extra]
    BY <1>1, <2>c, <2>v DEF SessionRecs
  <2>9. ses' = [ses EXCEPT ![s] = y]
    BY <1>3, <2>8, <2>y DEF Put
  <2>10. Take("wallet", -x.extra) /\ x.kind = "wallet"
    BY <1>3
  <2> QED BY <1>0, <1>1, <1>2, <1>x, <2>5, <2>6, <2>7, <2>9, <2>10, FundingStep
<1>y. PICK y : y = NotReserved(x)
  OBVIOUS
<1>4. Is(y, x, "running", x.consumed, x.preConsumed, x.tokenConsumed, x.extraReserved, 0)
  BY <1>1, <1>y, NotReservedIs
<1>5. CASE /\ x.kind = "subscription" /\ PostConsumeUserSubscriptionDelta(-x.extra)
           /\ UNCHANGED <<row, failures>> /\ Put(s, NotReserved(x))
  <2>1. failures' = failures /\ row' = [row EXCEPT ![s] = row[s]] /\ ses' = [ses EXCEPT ![s] = y]
    BY <1>5, <1>y, SameRow DEF Put
  <2>2. /\ y \in SessionRecs /\ SessionOK(y, row[s], failures) /\ y.kind = x.kind
        /\ OfFunding(y) = OfFunding(x) - x.extra /\ OfToken(y) = OfToken(x)
    <3>1. RollsTo(x, x.consumed, failures, failures)
      BY <1>5 DEF RollsTo
    <3> QED BY <1>0, <1>1, <1>4, <1>5, <1>x, <3>1, RollbackRow
  <2>3. OfFunding(x) \in Nat
    BY <1>1, OfIsNat
  <2>4. OfFunding(y) = OfFunding(x) + (-x.extra) /\ -x.extra <= 0
    BY <1>1, <2>2, <2>3
  <2>5. PostConsume("subscription", -x.extra) /\ x.kind = "subscription"
    BY <1>5 DEF PostConsumeUserSubscriptionDelta
  <2> QED BY <1>0, <1>1, <1>2, <1>x, <2>1, <2>2, <2>4, <2>5, FundingStep
<1>6. CASE DBError /\ Put(s, NotReserved(x))
  <2>1. /\ failures' = failures + 1 /\ failures < MaxFailures /\ bal' = bal
        /\ row' = [row EXCEPT ![s] = row[s]] /\ ses' = [ses EXCEPT ![s] = y]
    BY <1>6, <1>y, SameRow DEF Put, DBError
  <2>2. failures' \in Nat /\ failures' # 0
    BY <1>1, <2>1
  <2>3. /\ y \in SessionRecs /\ SessionOK(y, row[s], failures') /\ y.kind = x.kind
        /\ x.kind = "wallet" => OfFunding(y) = OfFunding(x)
        /\ x.kind = "subscription" => OfFunding(y) = OfFunding(x) - x.extra
        /\ OfToken(y) = OfToken(x)
    <3>1. RollsTo(x, x.consumed, failures, failures')
      BY <2>2 DEF RollsTo
    <3> QED BY <1>0, <1>1, <1>4, <1>x, <2>2, <3>1, RollbackRow
  <2>4. OfFunding(x) \in Nat /\ OfFunding(y) \in Nat
    BY <1>1, <2>3, OfIsNat
  <2>5. OfFunding(y) <= OfFunding(x)
    BY <1>1, <1>2, <2>3, <2>4
  <2> QED BY <1>0, <1>1, <1>x, <2>1, <2>2, <2>3, <2>5, QuietStep
<1> QED BY <1>2, <1>3, <1>5, <1>6, <1>x DEF rollbackFundingReserve

LEMMA rollbackTokenReserveInv ==
    ASSUME BSInv, NEW s \in Sessions, rollbackTokenReserve(s)
    PROVE  BSInv'
<1>x. PICK x : x = ses[s]
  OBVIOUS
<1>0. x.pc = "rsvUndoToken" /\ x.pc \in LivePcs /\ x.pc \in RsvPcs /\ lost' = lost /\ overwrote' = overwrote
  BY <1>x DEF rollbackTokenReserve, At, LivePcs, RsvPcs
<1>1. /\ x \in SessionRecs /\ row[s] \in RowRecs /\ failures \in Nat
      /\ LiveOK(x, row[s]) /\ AmountsOK(x, row[s], failures)
      /\ x.consumed \in Nat /\ x.extra \in Nat
  BY <1>0, <1>x, LiveNow
<1>2. x.kind = "package" /\ -x.extra \in Int
  BY <1>0, <1>1 DEF LiveOK
<1>y. PICK y : y = NotReserved(x)
  OBVIOUS
<1>3. Is(y, x, "running", x.consumed, x.preConsumed, x.tokenConsumed, x.extraReserved, 0)
  BY <1>1, <1>y, NotReservedIs
<1>4. ses' = [ses EXCEPT ![s] = y]
  BY <1>x, <1>y DEF rollbackTokenReserve, Put
<1>5. ASSUME NEW n \in Nat, n = 0 => failures = 0
      PROVE  /\ y \in SessionRecs /\ SessionOK(y, row[s], n) /\ y.kind = x.kind
             /\ OfFunding(y) = OfFunding(x) /\ OfToken(y) = OfToken(x) - x.extra
  <2>1. /\ x.kind = "package" /\ x.kind # "wallet" /\ x.consumed \in Nat
        /\ x.pc \in {"rsvUndoFunding", "rsvUndoToken"} /\ x.pc = "rsvUndoToken"
    BY <1>0, <1>1, <1>2
  <2>2. RollsTo(x, x.consumed, failures, n)
    BY <1>5, <2>1 DEF RollsTo
  <2> QED BY <1>1, <1>3, <1>5, <2>1, <2>2, RollbackRow
<1>6. OfToken(x) \in Nat
  BY <1>1, OfIsNat
<1>7. CASE Take("token", -x.extra) /\ UNCHANGED <<row, failures>>
  <2>1. failures' = failures /\ row' = [row EXCEPT ![s] = row[s]] /\ Take("token", -x.extra)
    BY <1>7, SameRow
  <2>2. /\ y \in SessionRecs /\ SessionOK(y, row[s], failures) /\ y.kind = x.kind
        /\ OfFunding(y) = OfFunding(x) /\ OfToken(y) = OfToken(x) - x.extra
    BY <1>1, <1>5
  <2>3. OfToken(y) = OfToken(x) + (-x.extra)
    BY <1>1, <1>6, <2>2
  <2> QED BY <1>0, <1>1, <1>2, <1>x, <1>4, <2>1, <2>2, <2>3, TokenStep
<1>8. CASE DBError
  <2>1. /\ failures' = failures + 1 /\ failures < MaxFailures /\ bal' = bal
        /\ row' = [row EXCEPT ![s] = row[s]]
    BY <1>8, SameRow DEF DBError
  <2>2. failures' \in Nat /\ failures' # 0
    BY <1>1, <2>1
  <2>3. /\ y \in SessionRecs /\ SessionOK(y, row[s], failures') /\ y.kind = x.kind
        /\ OfFunding(y) = OfFunding(x) /\ OfToken(y) = OfToken(x) - x.extra
    BY <1>5, <2>2
  <2>4. OfToken(y) <= OfToken(x)
    BY <1>1, <1>6, <2>3
  <2> QED BY <1>0, <1>1, <1>x, <1>4, <2>1, <2>2, <2>3, <2>4, QuietStep
<1> QED BY <1>7, <1>8, <1>x DEF rollbackTokenReserve

-----------------------------------------------------------------------------
(* The settlement.                                                         *)

KeptAmounts(y, x) ==
    /\ y.consumed = x.consumed /\ y.preConsumed = x.preConsumed
    /\ y.tokenConsumed = x.tokenConsumed /\ y.extraReserved = x.extraReserved

\* Once no more is reserved, settlement and refund leave the amounts alone.
LEMMA AmountsKept ==
    ASSUME NEW x \in SessionRecs, NEW y \in SessionRecs, NEW w, NEW v, NEW m, NEW n,
           x.pc \notin RsvPcs, y.pc \notin RsvPcs,
           SameWho(y, x), KeptAmounts(y, x), AmountsOK(x, w, m), n = 0 => m = 0,
           w.status = "none" <=> v.status = "none",
           x.kind = "package" /\ v.status = "consumed" => v.quota = OfFunding(y)
    PROVE  AmountsOK(y, v, n)
<1>1. /\ x.consumed \in Nat /\ x.preConsumed \in Nat /\ x.extraReserved \in Nat
      /\ y.consumed \in Nat /\ y.preConsumed \in Nat /\ y.extraReserved \in Nat
  BY DEF SessionRecs
<1>2. /\ x.pc \notin {"rsvCheckToken", "rsvTakeToken", "rsvUndoFunding"}
      /\ y.pc \notin {"rsvCheckToken", "rsvTakeToken", "rsvUndoFunding"}
  BY DEF RsvPcs
<1>3. y.tokenConsumed = IF y.playground THEN 0 ELSE y.preConsumed
  BY DEF AmountsOK, SameWho, KeptAmounts
<1>4. y.kind # "wallet" => y.preConsumed = y.consumed + y.extraReserved
  BY DEF AmountsOK, SameWho, KeptAmounts
<1>5. y.kind = "wallet" => y.consumed >= y.preConsumed /\ (n = 0 => y.consumed = y.preConsumed)
  BY <1>1, <1>2 DEF AmountsOK, SameWho, KeptAmounts
<1>6. y.kind = "wallet" <=> v.status = "none"
  BY DEF AmountsOK, SameWho
<1>7. y.kind = "package" /\ v.status = "consumed" => v.quota = OfFunding(y)
  BY DEF SameWho
<1> QED BY <1>1, <1>2, <1>3, <1>4, <1>5, <1>6, <1>7 DEF AmountsOK

\* What a session holds that has not been refunded.
LEMMA StillHolds ==
    ASSUME NEW x \in SessionRecs, x.effects \subseteq {"tokenSettled"}, x.pc \notin RsvPcs
    PROVE  /\ OfFunding(x) = IF x.fundingSettled THEN x.actual
                             ELSE IF x.kind = "package" THEN x.preConsumed
                             ELSE IF x.kind = "wallet" THEN x.consumed
                             ELSE x.consumed + x.extraReserved
           /\ OfToken(x) = IF "tokenSettled" \in x.effects THEN x.actual ELSE x.tokenConsumed
<1>1. /\ x.consumed \in Nat /\ x.preConsumed \in Nat /\ x.tokenConsumed \in Nat
      /\ x.extraReserved \in Nat /\ x.actual \in Nat /\ x.kind \in Fundings
  BY DEF SessionRecs
<1>2. /\ x.pc \notin {"rsvCheckToken", "rsvTakeToken", "rsvUndoFunding"}
      /\ x.pc \notin {"rsvFunding", "rsvUndoToken"}
  BY DEF RsvPcs
<1>3. /\ "fundingRefunded" \notin x.effects /\ "extraRefunded" \notin x.effects
      /\ "tokenRefunded" \notin x.effects
  OBVIOUS
<1>4. OfToken(x) = IF "tokenSettled" \in x.effects THEN x.actual ELSE x.tokenConsumed
  BY <1>1, <1>2, <1>3 DEF OfToken
<1>5. OfFunding(x) = IF x.fundingSettled THEN x.actual
                     ELSE IF x.kind = "package" THEN x.preConsumed
                     ELSE IF x.kind = "wallet" THEN x.consumed
                     ELSE x.consumed + x.extraReserved
  BY <1>1, <1>2, <1>3 DEF OfFunding, Fundings
<1> QED BY <1>4, <1>5

LEMMA SettledRec ==
    ASSUME NEW x \in SessionRecs, NEW y, y = Settled(x)
    PROVE  /\ y \in SessionRecs /\ SameWho(y, x) /\ KeptAmounts(y, x)
           /\ y.actual = x.actual /\ y.extra = x.extra
           /\ y.settled /\ (y.fundingSettled <=> x.fundingSettled)
           /\ (y.refunded <=> x.refunded) /\ y.effects = x.effects
           /\ y.pc \in {"record", "settled"} /\ y.pc \notin RsvPcs
<1>p. PICK p \in {"record", "settled"} : p = IF x.kind = "package" THEN "record" ELSE "settled"
  OBVIOUS
<1>0. p \in PCs /\ p \notin RsvPcs
  BY DEF PCs, RsvPcs
<1>1. y = [x EXCEPT !.settled = TRUE, !.pc = p]
  BY <1>p DEF Settled
<1>2. y \in SessionRecs /\ y.pc = p /\ y.settled
  BY <1>0, <1>1 DEF SessionRecs
<1>3. SameWho(y, x)
  BY <1>1 DEF SessionRecs, SameWho
<1>4. KeptAmounts(y, x) /\ y.actual = x.actual /\ y.extra = x.extra
  BY <1>1 DEF SessionRecs, KeptAmounts
<1>5. (y.fundingSettled <=> x.fundingSettled) /\ (y.refunded <=> x.refunded)
      /\ y.effects = x.effects
  BY <1>1 DEF SessionRecs
<1> QED BY <1>p, <1>0, <1>2, <1>3, <1>4, <1>5

\* Keeping the row of a session keeps its amounts in order.
LEMMA SettledSession ==
    ASSUME NEW x \in SessionRecs, NEW y, y = Settled(x), NEW w, NEW n,
           x.pc \notin RsvPcs, AmountsOK(x, w, n), w.status # "refunded", x.extra = 0,
           ~x.refunded, x.effects \subseteq {"tokenSettled"},
           ~x.fundingSettled => x.actual = x.preConsumed /\ x.effects = {},
           x.playground => x.effects = {},
           x.fundingSettled /\ ~x.playground /\ n = 0 => "tokenSettled" \in x.effects
    PROVE  /\ y \in SessionRecs /\ SessionOK(y, w, n) /\ y.kind = x.kind
           /\ OfFunding(y) = OfFunding(x) /\ OfToken(y) = OfToken(x)
<1>1. /\ y \in SessionRecs /\ SameWho(y, x) /\ KeptAmounts(y, x)
      /\ y.actual = x.actual /\ y.extra = x.extra
      /\ y.settled /\ (y.fundingSettled <=> x.fundingSettled)
      /\ (y.refunded <=> x.refunded) /\ y.effects = x.effects
      /\ y.pc \in {"record", "settled"} /\ y.pc \notin RsvPcs
  BY SettledRec
<1>2. OfFunding(y) = OfFunding(x)
  BY <1>1, StillHolds DEF SameWho, KeptAmounts
<1>3. OfToken(y) = OfToken(x)
  BY <1>1, StillHolds DEF KeptAmounts
<1>4. x.kind = "package" /\ w.status = "consumed" => w.quota = OfFunding(y)
  BY <1>2 DEF AmountsOK
<1>5. AmountsOK(y, w, n)
  BY <1>1, <1>4, AmountsKept
<1>6. SettledOK(y, w, n)
  BY <1>1 DEF SettledOK, SameWho, KeptAmounts
<1>7. SessionOK(y, w, n)
  BY <1>1, <1>5, <1>6, Phases
<1> QED BY <1>1, <1>2, <1>3, <1>7 DEF SameWho

LEMMA SettleInv ==
    ASSUME BSInv, NEW s \in Sessions, NEW q \in Quotas, Settle(s, q)
    PROVE  BSInv'
<1>x. PICK x : x = ses[s]
  OBVIOUS
<1>0. x.pc = "running" /\ x.pc \in LivePcs /\ x.pc \notin RsvPcs /\ q \in Nat
  BY <1>x, BSConstants DEF Settle, At, LivePcs, RsvPcs
<1>1. /\ x \in SessionRecs /\ row[s] \in RowRecs /\ failures \in Nat
      /\ Untouched(x) /\ LiveOK(x, row[s]) /\ AmountsOK(x, row[s], failures)
      /\ x.preConsumed \in Nat
  BY <1>0, <1>x, LiveNow
<1>v. PICK v : v = [x EXCEPT !.actual = q]
  OBVIOUS
<1>2. /\ v \in SessionRecs /\ v.pc = "running" /\ v.actual = q /\ SameWho(v, x)
      /\ KeptAmounts(v, x) /\ SameFlags(v, x) /\ v.extra = x.extra
  <2>1. v \in SessionRecs /\ v.pc = "running" /\ v.actual = q /\ v.extra = x.extra
    BY <1>0, <1>1, <1>v DEF SessionRecs
  <2>2. SameWho(v, x)
    BY <1>1, <1>v DEF SessionRecs, SameWho
  <2>3. SameFlags(v, x)
    BY <1>1, <1>v DEF SessionRecs, SameFlags
  <2>4. KeptAmounts(v, x)
    BY <1>1, <1>v DEF SessionRecs, KeptAmounts
  <2> QED BY <2>1, <2>2, <2>3, <2>4
<1>3. /\ Untouched(v) /\ v.extra = 0 /\ v.effects = {} /\ x.effects = {}
      /\ ~v.fundingSettled /\ ~x.fundingSettled /\ ~v.refunded /\ v.pc \notin RsvPcs
      /\ row[s].status # "refunded"
  BY <1>0, <1>1, <1>2 DEF Untouched, SameFlags, LiveOK
<1>4. OfFunding(v) = OfFunding(x) /\ OfToken(v) = OfToken(x)
  BY <1>0, <1>1, <1>2, <1>3, StillHolds DEF SameWho, KeptAmounts
<1>5. AmountsOK(v, row[s], failures)
  <2>1. x.kind = "package" /\ row[s].status = "consumed" => row[s].quota = OfFunding(v)
    BY <1>1, <1>4 DEF AmountsOK
  <2> QED BY <1>0, <1>1, <1>2, <1>3, <2>1, AmountsKept
<1>y. PICK y : y = IF Delta(v) = 0 THEN Settled(v) ELSE [v EXCEPT !.pc = "settleFunding"]
  OBVIOUS
<1>6. ASSUME Delta(v) = 0
      PROVE  /\ y \in SessionRecs /\ SessionOK(y, row[s], failures) /\ y.kind = v.kind
             /\ OfFunding(y) = OfFunding(v) /\ OfToken(y) = OfToken(v)
  <2>1. y = Settled(v)
    BY <1>6, <1>y
  <2>2. v.actual = v.preConsumed
    BY <1>0, <1>1, <1>2, <1>6 DEF Delta, KeptAmounts
  <2> QED BY <1>2, <1>3, <1>5, <2>1, <2>2, SettledSession
<1>7. ASSUME Delta(v) # 0
      PROVE  /\ y \in SessionRecs /\ SessionOK(y, row[s], failures) /\ y.kind = v.kind
             /\ OfFunding(y) = OfFunding(v) /\ OfToken(y) = OfToken(v)
  <2>0. "settleFunding" \in PCs /\ "settleFunding" \in LivePcs /\ "settleFunding" \notin RsvPcs
    BY DEF PCs, LivePcs, RsvPcs
  <2>1. y = [v EXCEPT !.pc = "settleFunding"]
    BY <1>7, <1>y
  <2>2. /\ y \in SessionRecs /\ y.pc = "settleFunding"
        /\ SameWho(y, v) /\ SameSums(y, v) /\ SameFlags(y, v)
    BY <1>2, <2>0, <2>1, GoesTo
  <2>3. Untouched(y) /\ y.effects = {} /\ ~y.fundingSettled /\ KeptAmounts(y, v) /\ y.extra = 0
    BY <1>3, <2>2 DEF Untouched, SameFlags, SameSums, KeptAmounts
  <2>4. OfFunding(y) = OfFunding(v) /\ OfToken(y) = OfToken(v)
    BY <1>2, <1>3, <2>0, <2>2, <2>3, StillHolds DEF SameWho, KeptAmounts
  <2>5. v.kind = "package" /\ row[s].status = "consumed" => row[s].quota = OfFunding(y)
    BY <1>5, <2>4 DEF AmountsOK
  <2>6. AmountsOK(y, row[s], failures)
    BY <1>2, <1>3, <1>5, <2>0, <2>2, <2>3, <2>5, AmountsKept
  <2>7. LiveOK(y, row[s])
    BY <1>3, <2>0, <2>2, <2>3 DEF LiveOK
  <2>8. SessionOK(y, row[s], failures)
    BY <2>0, <2>2, <2>6, <2>7, Phases
  <2> QED BY <2>2, <2>4, <2>8 DEF SameWho
<1>8. /\ y \in SessionRecs /\ SessionOK(y, row[s], failures) /\ y.kind = x.kind
      /\ OfFunding(y) = OfFunding(x) /\ OfToken(y) = OfToken(x)
  BY <1>2, <1>4, <1>6, <1>7 DEF SameWho
<1>9. ses' = [ses EXCEPT ![s] = y]
  BY <1>x, <1>v, <1>y DEF Settle, Put
<1>10. row' = [row EXCEPT ![s] = row[s]] /\ lost' = lost /\ overwrote' = overwrote /\ bal' = bal /\ failures' = failures
  BY SameRow DEF Settle
<1> QED BY <1>x, <1>1, <1>8, <1>9, <1>10, QuietStep

\* A session with a settled funding source, before its token is settled.
WithFunding(x) == [x EXCEPT !.fundingSettled = TRUE]
AfterFundingSettled(x) ==
    IF x.playground THEN Settled(WithFunding(x)) ELSE [WithFunding(x) EXCEPT !.pc = "settleToken"]

LEMMA FundingSettledRec ==
    ASSUME NEW x \in SessionRecs, NEW w, NEW u \in RowRecs, NEW n \in Nat, NEW y,
           x.pc = "settleFunding", LiveOK(x, w), AmountsOK(x, w, n),
           u.status = w.status, x.kind = "package" => u.quota = x.actual,
           y = AfterFundingSettled(x)
    PROVE  /\ y \in SessionRecs /\ SessionOK(y, u, n) /\ y.kind = x.kind
           /\ OfFunding(y) = x.actual /\ OfToken(y) = OfToken(x)
<1>v. PICK v : v = WithFunding(x)
  OBVIOUS
<1>0. x.pc \notin RsvPcs /\ "settleToken" \in PCs /\ "settleToken" \notin RsvPcs
  BY DEF RsvPcs, PCs
<1>1. /\ v \in SessionRecs /\ v.pc = x.pc /\ v.actual = x.actual /\ SameWho(v, x)
      /\ KeptAmounts(v, x) /\ v.fundingSettled /\ (v.settled <=> x.settled)
      /\ (v.refunded <=> x.refunded) /\ v.effects = x.effects /\ v.extra = x.extra
  <2>0. v = [x EXCEPT !.fundingSettled = TRUE]
    BY <1>v DEF WithFunding
  <2>1. v \in SessionRecs /\ v.pc = x.pc /\ v.actual = x.actual /\ v.extra = x.extra
    BY <2>0 DEF SessionRecs
  <2>2. SameWho(v, x)
    BY <2>0 DEF SessionRecs, SameWho
  <2>3. KeptAmounts(v, x)
    BY <2>0 DEF SessionRecs, KeptAmounts
  <2>4. v.fundingSettled /\ (v.settled <=> x.settled)
        /\ (v.refunded <=> x.refunded) /\ v.effects = x.effects
    BY <2>0 DEF SessionRecs
  <2> QED BY <2>1, <2>2, <2>3, <2>4
<1>2. /\ v.effects = {} /\ x.effects = {} /\ ~v.refunded /\ ~v.settled /\ v.extra = 0
      /\ u.status # "refunded" /\ v.pc \notin RsvPcs
  BY <1>0, <1>1 DEF LiveOK, Untouched
<1>3. OfFunding(v) = x.actual /\ OfToken(v) = OfToken(x)
  BY <1>0, <1>1, <1>2, StillHolds DEF KeptAmounts
<1>4. AmountsOK(v, u, n)
  BY <1>0, <1>1, <1>2, <1>3, AmountsKept
<1>5. CASE x.playground
  <2>1. y = Settled(v) /\ v.playground
    BY <1>1, <1>5, <1>v DEF SameWho, AfterFundingSettled
  <2>2. /\ y \in SessionRecs /\ SessionOK(y, u, n) /\ y.kind = v.kind
        /\ OfFunding(y) = OfFunding(v) /\ OfToken(y) = OfToken(v)
    BY <1>1, <1>2, <1>4, <2>1, SettledSession
  <2> QED BY <1>1, <1>3, <2>2 DEF SameWho
<1>6. CASE ~x.playground
  <2>1. y = [v EXCEPT !.pc = "settleToken"]
    BY <1>6, <1>v DEF AfterFundingSettled
  <2>2. /\ y \in SessionRecs /\ y.pc = "settleToken"
        /\ SameWho(y, v) /\ SameSums(y, v) /\ SameFlags(y, v)
    BY <1>0, <1>1, <2>1, GoesTo
  <2>3. /\ y.fundingSettled /\ ~y.settled /\ ~y.refunded /\ y.effects = {} /\ y.extra = 0
        /\ KeptAmounts(y, v) /\ y.actual = x.actual
    BY <1>1, <1>2, <2>2 DEF SameFlags, SameSums, KeptAmounts
  <2>4. ~y.playground /\ y.kind = x.kind
    BY <1>1, <1>6, <2>2 DEF SameWho
  <2>5. OfFunding(y) = x.actual /\ OfToken(y) = OfToken(v)
    BY <1>0, <1>1, <1>2, <2>2, <2>3, StillHolds DEF KeptAmounts
  <2>6. v.kind = "package" /\ u.status = "consumed" => u.quota = OfFunding(y)
    BY <1>1, <2>5 DEF SameWho
  <2>7. AmountsOK(y, u, n)
    BY <1>0, <1>1, <1>2, <1>4, <2>2, <2>3, <2>6, AmountsKept
  <2>8. SettleTokenOK(y, u)
    BY <1>2, <2>3, <2>4 DEF SettleTokenOK
  <2>9. SessionOK(y, u, n)
    BY <2>2, <2>7, <2>8, Phases
  <2> QED BY <1>3, <2>2, <2>4, <2>5, <2>9
<1> QED BY <1>5, <1>6

\* Settle or the upstream call has failed; the reservation stays.
LEMMA LiveStays ==
    ASSUME BSInv, NEW s \in Sessions, NEW x, x = ses[s], x.pc \in {"running", "settleFunding"},
           NEW p \in {"failed", "settleFailed"},
           ses' = [ses EXCEPT ![s] = [x EXCEPT !.pc = p]], row' = row, bal' = bal, lost' = lost /\ overwrote' = overwrote,
           failures' = failures \/ (failures < MaxFailures /\ failures' = failures + 1)
    PROVE  BSInv'
<1>0. x.pc \in LivePcs /\ p \in LivePcs /\ p \in PCs /\ x.pc \notin RsvPcs /\ p \notin RsvPcs
  BY DEF LivePcs, PCs, RsvPcs
<1>1. /\ x \in SessionRecs /\ row[s] \in RowRecs /\ failures \in Nat
      /\ Untouched(x) /\ LiveOK(x, row[s]) /\ AmountsOK(x, row[s], failures)
  BY <1>0, LiveNow
<1>y. PICK y : y = [x EXCEPT !.pc = p]
  OBVIOUS
<1>2. /\ y \in SessionRecs /\ y.pc = p
      /\ SameWho(y, x) /\ SameSums(y, x) /\ SameFlags(y, x)
  BY <1>0, <1>1, <1>y, GoesTo
<1>3. /\ Untouched(y) /\ y.effects = {} /\ x.effects = {} /\ ~y.fundingSettled
      /\ ~x.fundingSettled /\ KeptAmounts(y, x) /\ y.extra = 0
  BY <1>0, <1>1, <1>2 DEF Untouched, SameFlags, SameSums, KeptAmounts, LiveOK
<1>4. OfFunding(y) = OfFunding(x) /\ OfToken(y) = OfToken(x)
  BY <1>0, <1>1, <1>2, <1>3, StillHolds DEF SameWho, KeptAmounts
<1>5. x.kind = "package" /\ row[s].status = "consumed" => row[s].quota = OfFunding(y)
  BY <1>1, <1>4 DEF AmountsOK
<1>6. AmountsOK(y, row[s], failures')
  <2>1. failures' = 0 => failures = 0
    BY <1>1
  <2> QED BY <1>0, <1>1, <1>2, <1>3, <1>5, <2>1, AmountsKept
<1>7. LiveOK(y, row[s])
  BY <1>0, <1>1, <1>2, <1>3 DEF LiveOK
<1>8. SessionOK(y, row[s], failures')
  BY <1>0, <1>2, <1>6, <1>7, Phases
<1>9. ses' = [ses EXCEPT ![s] = y] /\ row' = [row EXCEPT ![s] = row[s]] /\ y.kind = x.kind
  BY <1>2, <1>y, SameRow DEF SameWho
<1> QED BY <1>1, <1>2, <1>4, <1>8, <1>9, QuietStep

LEMMA SettleFundingInv ==
    ASSUME BSInv, NEW s \in Sessions, SettleFunding(s)
    PROVE  BSInv'
<1>x. PICK x : x = ses[s]
  OBVIOUS
<1>0. x.pc = "settleFunding" /\ x.pc \in LivePcs /\ x.pc \notin RsvPcs /\ lost' = lost /\ overwrote' = overwrote
  BY <1>x DEF SettleFunding, At, LivePcs, RsvPcs
<1>1. /\ x \in SessionRecs /\ row[s] \in RowRecs /\ failures \in Nat
      /\ Untouched(x) /\ LiveOK(x, row[s]) /\ AmountsOK(x, row[s], failures)
      /\ x.kind \in Fundings /\ x.preConsumed \in Nat /\ x.consumed \in Nat
      /\ x.extraReserved \in Nat /\ x.actual \in Nat /\ row \in [Sessions -> RowRecs]
  BY <1>0, <1>x, LiveNow, SessionFacts
<1>2. /\ x.kind = "package" => row[s].quota = x.preConsumed
      /\ x.kind # "wallet" => OfFunding(x) = x.preConsumed
      /\ x.kind = "wallet" => OfFunding(x) = x.consumed /\ x.consumed >= x.preConsumed
      /\ x.kind = "wallet" /\ failures = 0 => x.consumed = x.preConsumed
  <2>1. OfFunding(x) = IF x.kind = "package" THEN x.preConsumed
                       ELSE IF x.kind = "wallet" THEN x.consumed
                       ELSE x.consumed + x.extraReserved
    BY <1>0, <1>1, StillHolds DEF Untouched
  <2>2. x.pc \notin {"rsvCheckToken", "rsvTakeToken", "rsvUndoFunding"}
    BY <1>0
  <2>3. x.kind # "wallet" => row[s].status = "consumed"
    BY <1>1 DEF AmountsOK, LiveOK, RowRecs
  <2>4. x.kind # "wallet" => x.preConsumed = x.consumed + x.extraReserved
    BY <1>1 DEF AmountsOK
  <2>5. x.kind = "package" => row[s].quota = OfFunding(x)
    BY <1>1, <2>3 DEF AmountsOK
  <2>6. x.kind = "wallet" => x.consumed >= x.preConsumed
                             /\ (failures = 0 => x.consumed = x.preConsumed)
    BY <1>1, <2>2 DEF AmountsOK
  <2> QED BY <1>1, <2>1, <2>4, <2>5, <2>6
<1>m. PICK more \in Int : more = x.actual - x.preConsumed
  BY <1>1
<1>3. more = IF x.kind = "package" THEN x.actual - row[s].quota ELSE Delta(x)
  BY <1>2, <1>m DEF Delta
<1>y. PICK y : y = AfterFundingSettled(x)
  OBVIOUS
<1>u. PICK u : u = IF x.kind = "package" THEN [row[s] EXCEPT !.quota = x.actual] ELSE row[s]
  OBVIOUS
<1>4. u \in RowRecs /\ u.status = row[s].status /\ (x.kind = "package" => u.quota = x.actual)
  <2>1. CASE x.kind = "package"
    <3>1. u = [row[s] EXCEPT !.quota = x.actual]
      BY <1>u, <2>1
    <3> QED BY <1>1, <3>1 DEF RowRecs
  <2> QED BY <1>1, <1>u, <2>1
<1>5. /\ y \in SessionRecs /\ SessionOK(y, u, failures) /\ y.kind = x.kind
      /\ OfFunding(y) = x.actual /\ OfToken(y) = OfToken(x)
  BY <1>0, <1>1, <1>4, <1>y, FundingSettledRec
<1>6. CASE /\ x.kind = "wallet" \/ Enough(x.kind, more)
           /\ IF x.kind = "wallet" THEN Take("wallet", more) ELSE PostConsume(x.kind, more)
           /\ row' = IF x.kind = "package" THEN [row EXCEPT ![s].quota = x.actual] ELSE row
           /\ ses' = [ses EXCEPT ![s] = y]
           /\ failures' = failures
  <2>1. row' = [row EXCEPT ![s] = u]
    BY <1>1, <1>6, <1>u, SameRow
  <2>2. \/ x.kind = "wallet" \/ Initial[x.kind] = 0 \/ more <= 0
        \/ bal[x.kind] - more >= 0
    BY <1>1, <1>6, EnoughLeft
  <2>3. Take(x.kind, more) \/ (x.kind # "wallet" /\ PostConsume(x.kind, more))
    BY <1>6
  <2>4. \/ OfFunding(y) = OfFunding(x) + more
        \/ failures # 0 /\ x.kind = "wallet" /\ OfFunding(y) <= OfFunding(x) + more
    BY <1>1, <1>2, <1>5, <1>m
  <2>5. ses' = [ses EXCEPT ![s] = y] /\ failures' = failures
    BY <1>6
  <2> QED BY <1>0, <1>4, <1>5, <1>x, <2>1, <2>2, <2>3, <2>4, <2>5, FundingStep
<1>7. CASE /\ ses' = [ses EXCEPT ![s] = [x EXCEPT !.pc = "settleFailed"]]
           /\ UNCHANGED <<bal, row>>
           /\ failures' = failures \/ (failures < MaxFailures /\ failures' = failures + 1)
  BY <1>0, <1>7, <1>x, LiveStays
<1>8. \/ /\ x.kind = "wallet" \/ Enough(x.kind, more)
         /\ IF x.kind = "wallet" THEN Take("wallet", more) ELSE PostConsume(x.kind, more)
         /\ row' = IF x.kind = "package" THEN [row EXCEPT ![s].quota = x.actual] ELSE row
         /\ Put(s, AfterFundingSettled(x))
         /\ UNCHANGED failures
      \/ Put(s, [x EXCEPT !.pc = "settleFailed"]) /\ UNCHANGED <<bal, row, failures>>
      \/ DBError /\ Put(s, [x EXCEPT !.pc = "settleFailed"])
  BY <1>x, <1>3 DEF SettleFunding, AfterFundingSettled, WithFunding
<1> QED BY <1>6, <1>7, <1>8, <1>y DEF Put, DBError

LEMMA UpstreamFailsInv ==
    ASSUME BSInv, NEW s \in Sessions, UpstreamFails(s)
    PROVE  BSInv'
<1>1. /\ ses[s].pc \in {"running", "settleFunding"}
      /\ ses' = [ses EXCEPT ![s] = [ses[s] EXCEPT !.pc = "failed"]]
      /\ row' = row /\ bal' = bal /\ lost' = lost /\ overwrote' = overwrote /\ failures' = failures
  BY DEF UpstreamFails, At, Put
<1> QED BY <1>1, LiveStays

WithToken(x) == [x EXCEPT !.effects = @ \cup {"tokenSettled"}]

LEMMA SettleTokenInv ==
    ASSUME BSInv, NEW s \in Sessions, SettleToken(s)
    PROVE  BSInv'
<1>x. PICK x : x = ses[s]
  OBVIOUS
<1>0. x.pc = "settleToken" /\ x.pc \notin PrePcs /\ x.pc \notin RsvPcs /\ lost' = lost /\ overwrote' = overwrote
  BY <1>x DEF SettleToken, At, PrePcs, RsvPcs
<1>1. /\ x \in SessionRecs /\ row[s] \in RowRecs /\ failures \in Nat
      /\ AmountsOK(x, row[s], failures) /\ SettleTokenOK(x, row[s])
      /\ x.tokenConsumed \in Nat /\ x.preConsumed \in Nat /\ x.actual \in Nat
  BY <1>0, <1>x, SessionFacts DEF SessionOK, SessionRecs
<1>2. /\ x.fundingSettled /\ ~x.settled /\ ~x.refunded /\ x.effects = {} /\ ~x.playground
      /\ row[s].status # "refunded" /\ x.extra = 0 /\ x.tokenConsumed = x.preConsumed
  BY <1>1 DEF SettleTokenOK, AmountsOK
<1>3. OfFunding(x) = x.actual /\ OfToken(x) = x.preConsumed
  BY <1>0, <1>1, <1>2, StillHolds
<1>4. CASE /\ Take("token", Delta(x)) /\ Put(s, Settled(WithToken(x)))
           /\ UNCHANGED <<row, failures>>
  <2>v. PICK v : v = WithToken(x)
    OBVIOUS
  <2>0. v = [x EXCEPT !.effects = {"tokenSettled"}]
    BY <1>1, <1>2, <2>v DEF WithToken, SessionRecs
  <2>1. /\ v \in SessionRecs /\ v.pc = x.pc /\ v.actual = x.actual /\ SameWho(v, x)
        /\ KeptAmounts(v, x) /\ v.fundingSettled /\ ~v.settled /\ ~v.refunded
        /\ v.effects = {"tokenSettled"} /\ v.extra = x.extra
    <3>1. /\ v \in SessionRecs /\ v.pc = x.pc /\ v.actual = x.actual /\ v.extra = x.extra
          /\ v.effects = {"tokenSettled"}
      BY <1>1, <2>0 DEF SessionRecs, Effects
    <3>2. SameWho(v, x)
      BY <1>1, <2>0 DEF SessionRecs, SameWho
    <3>3. KeptAmounts(v, x)
      BY <1>1, <2>0 DEF SessionRecs, KeptAmounts
    <3>4. v.fundingSettled /\ ~v.settled /\ ~v.refunded
      BY <1>1, <1>2, <2>0 DEF SessionRecs
    <3> QED BY <3>1, <3>2, <3>3, <3>4
  <2>2. OfFunding(v) = x.actual /\ OfToken(v) = x.actual
    BY <1>0, <2>1, StillHolds
  <2>3. x.kind = "package" /\ row[s].status = "consumed" => row[s].quota = OfFunding(v)
    BY <1>1, <1>3, <2>2 DEF AmountsOK
  <2>4. AmountsOK(v, row[s], failures)
    BY <1>0, <1>1, <2>1, <2>3, AmountsKept
  <2>y. PICK y : y = Settled(v)
    OBVIOUS
  <2>5. ~v.playground /\ v.kind = x.kind /\ v.pc \notin RsvPcs /\ v.extra = 0
        /\ v.effects \subseteq {"tokenSettled"} /\ "tokenSettled" \in v.effects
    BY <1>0, <1>2, <2>1 DEF SameWho
  <2>6. /\ y \in SessionRecs /\ SessionOK(y, row[s], failures) /\ y.kind = v.kind
        /\ OfFunding(y) = OfFunding(v) /\ OfToken(y) = OfToken(v)
    BY <1>2, <2>1, <2>4, <2>5, <2>y, SettledSession
  <2>7. /\ ses' = [ses EXCEPT ![s] = y] /\ row' = [row EXCEPT ![s] = row[s]]
        /\ failures' = failures /\ Take("token", Delta(x))
    BY <1>4, <2>v, <2>y, SameRow DEF Put
  <2>8. Delta(x) \in Int /\ OfToken(y) = OfToken(x) + Delta(x) /\ OfFunding(y) = OfFunding(x)
        /\ y.kind = x.kind
    BY <1>1, <1>3, <2>2, <2>5, <2>6 DEF Delta
  <2> QED BY <1>0, <1>1, <1>x, <2>6, <2>7, <2>8, TokenStep
<1>5. CASE DBError /\ Put(s, Settled(x))
  <2>y. PICK y : y = Settled(x)
    OBVIOUS
  <2>1. /\ failures' = failures + 1 /\ failures < MaxFailures /\ bal' = bal
        /\ row' = [row EXCEPT ![s] = row[s]] /\ ses' = [ses EXCEPT ![s] = y]
    BY <1>5, <2>y, SameRow DEF DBError, Put
  <2>2. failures' # 0
    BY <1>1, <2>1
  <2>3. x.kind = "package" /\ row[s].status = "consumed" => row[s].quota = OfFunding(x)
    BY <1>1 DEF AmountsOK
  <2>4. AmountsOK(x, row[s], failures')
    BY <1>0, <1>1, <2>2, <2>3, AmountsKept DEF SameWho, KeptAmounts
  <2>5. /\ y \in SessionRecs /\ SessionOK(y, row[s], failures') /\ y.kind = x.kind
        /\ OfFunding(y) = OfFunding(x) /\ OfToken(y) = OfToken(x)
    BY <1>0, <1>1, <1>2, <2>2, <2>4, <2>y, SettledSession
  <2> QED BY <1>0, <1>1, <1>x, <2>1, <2>5, QuietStep
<1> QED BY <1>4, <1>5, <1>x DEF SettleToken, WithToken

\* A session that is settled and goes on to p.
Goto(x, p) == [x EXCEPT !.pc = p]

LEMMA SettledGoesTo ==
    ASSUME NEW x \in SessionRecs, NEW w \in RowRecs, NEW u \in RowRecs, NEW m, NEW n,
           NEW p \in {"settled", "closed"}, NEW y,
           y = Goto(x, p), x.pc \in {"record", "settled"},
           AmountsOK(x, w, m), SettledOK(x, w, m), n = 0 => m = 0,
           u.status = w.status, u.quota = w.quota \/ u.quota = x.actual
    PROVE  /\ y \in SessionRecs /\ SessionOK(y, u, n) /\ y.kind = x.kind
           /\ OfFunding(y) = OfFunding(x) /\ OfToken(y) = OfToken(x)
<1>0. p \in PCs /\ p \notin RsvPcs /\ x.pc \notin RsvPcs
  BY DEF PCs, RsvPcs
<1>1. /\ y \in SessionRecs /\ y.pc = p
      /\ SameWho(y, x) /\ SameSums(y, x) /\ SameFlags(y, x)
  BY <1>0, GoesTo DEF Goto
<1>2. KeptAmounts(y, x) /\ y.actual = x.actual /\ y.extra = x.extra
  BY <1>1 DEF SameSums, KeptAmounts
<1>3. /\ x.effects \subseteq {"tokenSettled"} /\ y.effects = x.effects
      /\ (y.fundingSettled <=> x.fundingSettled) /\ y.kind = x.kind
  BY <1>1 DEF SettledOK, SameFlags, SameWho
<1>4. OfFunding(y) = OfFunding(x)
  BY <1>0, <1>1, <1>2, <1>3, StillHolds DEF KeptAmounts
<1>5. OfToken(y) = OfToken(x)
  BY <1>0, <1>1, <1>2, <1>3, StillHolds DEF KeptAmounts
<1>6. x.kind = "package" => OfFunding(x) = x.actual
  <2>1. OfFunding(x) = IF x.fundingSettled THEN x.actual
                       ELSE IF x.kind = "package" THEN x.preConsumed
                       ELSE IF x.kind = "wallet" THEN x.consumed
                       ELSE x.consumed + x.extraReserved
    BY <1>0, <1>3, StillHolds
  <2>2. ~x.fundingSettled => x.actual = x.preConsumed
    BY DEF SettledOK
  <2> QED BY <2>1, <2>2
<1>7. x.kind = "package" /\ u.status = "consumed" => u.quota = OfFunding(y)
  BY <1>4, <1>6 DEF AmountsOK
<1>8. AmountsOK(y, u, n)
  BY <1>0, <1>1, <1>2, <1>7, AmountsKept
<1>9. SettledOK(y, u, n)
  BY <1>1, <1>2 DEF SettledOK, SameWho, SameFlags, KeptAmounts
<1>10. SessionOK(y, u, n)
  BY <1>1, <1>8, <1>9, Phases
<1> QED BY <1>1, <1>3, <1>4, <1>5, <1>10

LEMMA SettledCloses ==
    ASSUME NEW x \in SessionRecs, NEW w \in RowRecs, NEW n, NEW y,
           y = Goto(x, "closed"), x.pc = "settled",
           AmountsOK(x, w, n), SettledOK(x, w, n)
    PROVE  /\ y \in SessionRecs /\ SessionOK(y, w, n) /\ y.kind = x.kind
           /\ OfFunding(y) = OfFunding(x) /\ OfToken(y) = OfToken(x)
<1>1. x.pc \in {"record", "settled"} /\ w.status = w.status /\ w.quota = w.quota
  OBVIOUS
<1>p. PICK p \in {"settled", "closed"} : y = Goto(x, p)
  OBVIOUS
<1> QED BY <1>1, <1>p, SettledGoesTo

LEMMA recordValuePackageUsageInv ==
    ASSUME BSInv, NEW s \in Sessions, recordValuePackageUsage(s)
    PROVE  BSInv'
<1>x. PICK x : x = ses[s]
  OBVIOUS
<1>0. x.pc = "record" /\ x.pc \notin PrePcs /\ lost' = lost /\ overwrote' = overwrote
  BY <1>x DEF recordValuePackageUsage, At, PrePcs
<1>1. /\ x \in SessionRecs /\ row[s] \in RowRecs /\ failures \in Nat
      /\ AmountsOK(x, row[s], failures) /\ SettledOK(x, row[s], failures)
      /\ x.actual \in Nat /\ row \in [Sessions -> RowRecs]
  BY <1>0, <1>x, SessionFacts DEF SessionOK, SessionRecs
<1>y. PICK y : y = Goto(x, "settled")
  OBVIOUS
<1>2. ses' = [ses EXCEPT ![s] = y]
  BY <1>x, <1>y DEF recordValuePackageUsage, Put, Goto
<1>u. PICK u : u = [row[s] EXCEPT !.quota = x.actual]
  OBVIOUS
<1>3. u \in RowRecs /\ u.status = row[s].status /\ u.quota = x.actual
  BY <1>1, <1>u DEF RowRecs
<1>p. PICK p \in {"settled", "closed"} : y = Goto(x, p)
  BY <1>y
<1>q. x.pc \in {"record", "settled"}
  BY <1>0
<1>4. CASE row' = [row EXCEPT ![s].quota = x.actual] /\ UNCHANGED <<bal, failures>>
  <2>1. row' = [row EXCEPT ![s] = u] /\ bal' = bal /\ failures' = failures
    BY <1>1, <1>4, <1>u
  <2>2. /\ y \in SessionRecs /\ SessionOK(y, u, failures) /\ y.kind = x.kind
        /\ OfFunding(y) = OfFunding(x) /\ OfToken(y) = OfToken(x)
    BY <1>1, <1>3, <1>p, <1>q, SettledGoesTo
  <2> QED BY <1>0, <1>x, <1>2, <1>3, <2>1, <2>2, QuietStep
<1>5. CASE DBError
  <2>1. /\ failures' = failures + 1 /\ failures < MaxFailures /\ bal' = bal
        /\ row' = [row EXCEPT ![s] = row[s]]
    BY <1>5, SameRow DEF DBError
  <2>2. failures' # 0
    BY <1>1, <2>1
  <2>3. /\ y \in SessionRecs /\ SessionOK(y, row[s], failures') /\ y.kind = x.kind
        /\ OfFunding(y) = OfFunding(x) /\ OfToken(y) = OfToken(x)
    BY <1>1, <1>p, <1>q, <2>2, SettledGoesTo
  <2> QED BY <1>0, <1>1, <1>x, <1>2, <2>1, <2>3, QuietStep
<1> QED BY <1>4, <1>5, <1>x DEF recordValuePackageUsage

-----------------------------------------------------------------------------
(* The refund.                                                             *)

\* y is x at p with the effects E, and whatever fallback and attempts.
Becomes(y, x, p, E) ==
    /\ y \in SessionRecs /\ SameWho(y, x) /\ KeptAmounts(y, x)
    /\ y.extra = x.extra /\ y.actual = x.actual /\ y.pc = p /\ y.effects = E
    /\ y.fundingSettled <=> x.fundingSettled
    /\ y.settled <=> x.settled
    /\ y.refunded <=> x.refunded

LEMMA GotoBecomes ==
    ASSUME NEW x \in SessionRecs, NEW p \in PCs
    PROVE  Becomes(Goto(x, p), x, p, x.effects)
<1>y. PICK y : y = [x EXCEPT !.pc = p]
  OBVIOUS
<1>1. /\ y \in SessionRecs /\ y.pc = p
      /\ SameWho(y, x) /\ SameSums(y, x) /\ SameFlags(y, x)
  BY <1>y, GoesTo
<1>2. Becomes(y, x, p, x.effects)
  BY <1>1 DEF Becomes, SameSums, SameFlags, KeptAmounts
<1> QED BY <1>y, <1>2 DEF Goto

LEMMA MarkBecomes ==
    ASSUME NEW x \in SessionRecs, NEW e \in Effects
    PROVE  Becomes(Mark(x, e), x, x.pc, x.effects \cup {e})
<1>E. PICK E : E = x.effects \cup {e}
  OBVIOUS
<1>0. E \in SUBSET Effects
  BY <1>E DEF SessionRecs
<1>y. PICK y : y = [x EXCEPT !.effects = E]
  OBVIOUS
<1>1. y \in SessionRecs /\ y.pc = x.pc /\ y.effects = E /\ y.extra = x.extra /\ y.actual = x.actual
  BY <1>0, <1>y DEF SessionRecs
<1>2. SameWho(y, x)
  BY <1>y DEF SessionRecs, SameWho
<1>3. KeptAmounts(y, x)
  BY <1>y DEF SessionRecs, KeptAmounts
<1>4. (y.fundingSettled <=> x.fundingSettled) /\ (y.settled <=> x.settled)
      /\ (y.refunded <=> x.refunded)
  BY <1>y DEF SessionRecs
<1>5. Becomes(y, x, x.pc, E)
  BY <1>1, <1>2, <1>3, <1>4 DEF Becomes
<1>6. y = Mark(x, e)
  BY <1>y, <1>E DEF Mark, SessionRecs
<1> QED BY <1>E, <1>5, <1>6

LEMMA AfterExtraBecomes ==
    ASSUME NEW x \in SessionRecs
    PROVE  \E p \in {"refundToken", "closed"} :
              /\ Becomes(AfterExtra(x), x, p, x.effects)
              /\ p = "closed" => x.tokenConsumed = 0 \/ x.playground
<1>p. PICK p \in {"refundToken", "closed"} :
          p = IF x.tokenConsumed > 0 /\ ~x.playground THEN "refundToken" ELSE "closed"
  OBVIOUS
<1>1. p \in PCs
  BY DEF PCs, RefundPcs
<1>2. AfterExtra(x) = Goto(x, p)
  BY <1>p DEF AfterExtra, Goto
<1>3. p = "closed" => x.tokenConsumed = 0 \/ x.playground
  BY <1>p DEF SessionRecs
<1>4. Becomes(AfterExtra(x), x, p, x.effects)
  BY <1>1, <1>2, GotoBecomes
<1> QED BY <1>3, <1>4

LEMMA AfterFundingBecomes ==
    ASSUME NEW x \in SessionRecs
    PROVE  \E p \in {"refundExtra", "refundToken", "closed"} :
              /\ Becomes(AfterFunding(x), x, p, x.effects)
              /\ p = "refundExtra" => x.kind = "subscription"
              /\ p # "refundExtra" /\ x.kind = "subscription" => x.extraReserved = 0
              /\ p = "closed" => x.tokenConsumed = 0 \/ x.playground
<1>0. x.extraReserved \in Nat /\ "refundExtra" \in PCs
  BY DEF SessionRecs, PCs, RefundPcs
<1>1. CASE x.kind = "subscription" /\ x.extraReserved > 0
  <2>1. AfterFunding(x) = Goto(x, "refundExtra")
    BY <1>1 DEF AfterFunding, Goto
  <2>2. Becomes(AfterFunding(x), x, "refundExtra", x.effects)
    BY <1>0, <2>1, GotoBecomes
  <2> QED BY <1>1, <2>2
<1>2. CASE ~(x.kind = "subscription" /\ x.extraReserved > 0)
  <2>1. AfterFunding(x) = AfterExtra(x)
    BY <1>2 DEF AfterFunding
  <2>p. PICK p \in {"refundToken", "closed"} :
              /\ Becomes(AfterExtra(x), x, p, x.effects)
              /\ p = "closed" => x.tokenConsumed = 0 \/ x.playground
    BY AfterExtraBecomes
  <2>2. Becomes(AfterFunding(x), x, p, x.effects)
    BY <2>p, <2>1
  <2>3. x.kind = "subscription" => x.extraReserved = 0
    BY <1>0, <1>2
  <2> QED BY <2>p, <2>2, <2>3
<1> QED BY <1>1, <1>2

LEMMA RetryBecomes ==
    ASSUME NEW x \in SessionRecs
    PROVE  \/ refundWithRetry(x) = AfterFunding(x)
           \/ Becomes(refundWithRetry(x), x, x.pc, x.effects)
<1>1. CASE x.attempts + 1 < RefundAttempts
  <2>a. PICK a \in 0..(RefundAttempts - 1) : a = x.attempts + 1
    BY <1>1, BSConstants DEF SessionRecs
  <2>y. PICK y : y = [x EXCEPT !.attempts = a]
    OBVIOUS
  <2>1. y \in SessionRecs /\ y.pc = x.pc /\ y.effects = x.effects /\ y.extra = x.extra
        /\ y.actual = x.actual
    BY <2>y DEF SessionRecs
  <2>2. SameWho(y, x)
    BY <2>y DEF SessionRecs, SameWho
  <2>3. KeptAmounts(y, x)
    BY <2>y DEF SessionRecs, KeptAmounts
  <2>4. (y.fundingSettled <=> x.fundingSettled) /\ (y.settled <=> x.settled)
        /\ (y.refunded <=> x.refunded)
    BY <2>y DEF SessionRecs
  <2>5. Becomes(y, x, x.pc, x.effects)
    BY <2>1, <2>2, <2>3, <2>4 DEF Becomes
  <2>6. refundWithRetry(x) = y
    BY <1>1, <2>a, <2>y DEF refundWithRetry, SessionRecs
  <2> QED BY <2>5, <2>6
<1>2. CASE ~(x.attempts + 1 < RefundAttempts)
  BY <1>2 DEF refundWithRetry
<1> QED BY <1>1, <1>2

LEMMA BecomesTwice ==
    ASSUME NEW x, NEW v, NEW y, NEW p, NEW q, NEW E, NEW F,
           Becomes(v, x, p, E), Becomes(y, v, q, F)
    PROVE  Becomes(y, x, q, F)
<1>1. SameWho(y, x)
  BY DEF Becomes, SameWho
<1>2. KeptAmounts(y, x)
  BY DEF Becomes, KeptAmounts
<1> QED BY <1>1, <1>2 DEF Becomes

\* What a session holds while it is refunded.
LEMMA RefundHolds ==
    ASSUME NEW x \in SessionRecs, ~x.fundingSettled, "tokenSettled" \notin x.effects,
           x.pc \notin RsvPcs
    PROVE  /\ OfFunding(x) =
                (IF "fundingRefunded" \in x.effects THEN 0
                 ELSE IF x.kind = "package" THEN x.preConsumed ELSE x.consumed)
                + (IF x.kind # "subscription" \/ "extraRefunded" \in x.effects THEN 0
                   ELSE x.extraReserved)
           /\ OfToken(x) = IF "tokenRefunded" \in x.effects THEN 0 ELSE x.tokenConsumed
<1>1. /\ x.consumed \in Nat /\ x.preConsumed \in Nat /\ x.tokenConsumed \in Nat
      /\ x.extraReserved \in Nat
  BY DEF SessionRecs
<1>2. /\ x.pc \notin {"rsvCheckToken", "rsvTakeToken", "rsvUndoFunding"}
      /\ x.pc \notin {"rsvFunding", "rsvUndoToken"}
  BY DEF RsvPcs
<1> QED BY <1>1, <1>2 DEF OfFunding, OfToken

LEMMA RefundSession ==
    ASSUME NEW x \in SessionRecs, NEW w, NEW u, NEW m, NEW n, NEW y, NEW E,
           NEW p \in RefundPcs \cup {"closed"},
           x.pc \notin RsvPcs, AmountsOK(x, w, m), n = 0 => m = 0,
           Becomes(y, x, p, E), RefundOK(y, u, n),
           w.status = "none" <=> u.status = "none",
           x.kind = "package" /\ u.status = "consumed" => u.quota = OfFunding(y)
    PROVE  y \in SessionRecs /\ SessionOK(y, u, n) /\ y.kind = x.kind
<1>1. p \notin RsvPcs
  BY DEF RefundPcs, RsvPcs
<1>2. y \in SessionRecs /\ SameWho(y, x) /\ KeptAmounts(y, x) /\ y.pc = p
  BY DEF Becomes
<1>3. AmountsOK(y, u, n)
  BY <1>1, <1>2, AmountsKept
<1>4. SessionOK(y, u, n)
  BY <1>2, <1>3, Phases
<1> QED BY <1>2, <1>4 DEF SameWho

\* A session with a reservation that nobody settles or refunds.
LEMMA ClosedSession ==
    ASSUME NEW x \in SessionRecs, NEW w, NEW n, NEW y, x.pc \in {"failed", "settleFailed"},
           LiveOK(x, w), AmountsOK(x, w, n), y = Goto(x, "closed")
    PROVE  /\ y \in SessionRecs /\ SessionOK(y, w, n) /\ y.kind = x.kind
           /\ OfFunding(y) = OfFunding(x) /\ OfToken(y) = OfToken(x)
<1>0. "closed" \in PCs /\ "closed" \notin RsvPcs /\ x.pc \notin RsvPcs
  BY DEF PCs, RsvPcs
<1>1. Becomes(y, x, "closed", x.effects)
  BY <1>0, GotoBecomes
<1>2. /\ y \in SessionRecs /\ SameWho(y, x) /\ KeptAmounts(y, x) /\ y.pc = "closed"
      /\ y.extra = x.extra /\ y.effects = x.effects
      /\ (y.fundingSettled <=> x.fundingSettled) /\ y.kind = x.kind
  BY <1>1 DEF Becomes, SameWho
<1>3. x.effects = {} /\ Untouched(y) /\ w.status # "refunded" /\ y.extra = 0
  BY <1>0, <1>1 DEF LiveOK, Untouched, Becomes
<1>4. OfFunding(y) = OfFunding(x) /\ OfToken(y) = OfToken(x)
  BY <1>0, <1>2, <1>3, StillHolds DEF KeptAmounts, LiveOK, Untouched
<1>5. x.kind = "package" /\ w.status = "consumed" => w.quota = OfFunding(y)
  BY <1>4 DEF AmountsOK
<1>6. AmountsOK(y, w, n)
  BY <1>0, <1>2, <1>5, AmountsKept
<1>7. SessionOK(y, w, n)
  BY <1>2, <1>3, <1>6, Phases
<1> QED BY <1>2, <1>4, <1>7

\* Close, and a Refund that finds nothing to do.
LEMMA ClosesInv ==
    ASSUME BSInv, NEW s \in Sessions, ses[s].pc \in {"failed", "settleFailed", "settled"},
           ses' = [ses EXCEPT ![s] = Goto(ses[s], "closed")],
           UNCHANGED <<bal, row, lost, failures, overwrote>>
    PROVE  BSInv'
<1>x. PICK x : x = ses[s]
  OBVIOUS
<1>1. x \in SessionRecs /\ row[s] \in RowRecs /\ SessionOK(x, row[s], failures)
  BY <1>x, SessionFacts
<1>y. PICK y : y = Goto(x, "closed")
  OBVIOUS
<1>2. ASSUME x.pc \in {"failed", "settleFailed"}
      PROVE  /\ y \in SessionRecs /\ SessionOK(y, row[s], failures) /\ y.kind = x.kind
             /\ OfFunding(y) = OfFunding(x) /\ OfToken(y) = OfToken(x)
  <2>1. x.pc \in LivePcs /\ x.pc \notin PrePcs
    BY <1>2 DEF LivePcs, PrePcs
  <2>2. LiveOK(x, row[s]) /\ AmountsOK(x, row[s], failures)
    BY <1>1, <2>1 DEF SessionOK
  <2> QED BY <1>1, <1>2, <1>y, <2>2, ClosedSession
<1>3. ASSUME x.pc = "settled"
      PROVE  /\ y \in SessionRecs /\ SessionOK(y, row[s], failures) /\ y.kind = x.kind
             /\ OfFunding(y) = OfFunding(x) /\ OfToken(y) = OfToken(x)
  <2>1. x.pc \notin PrePcs
    BY <1>3 DEF PrePcs
  <2>2. SettledOK(x, row[s], failures) /\ AmountsOK(x, row[s], failures)
    BY <1>1, <1>3, <2>1 DEF SessionOK
  <2> QED BY <1>1, <1>3, <1>y, <2>2, SettledCloses
<1>4. /\ y \in SessionRecs /\ SessionOK(y, row[s], failures) /\ y.kind = x.kind
      /\ OfFunding(y) = OfFunding(x) /\ OfToken(y) = OfToken(x)
  BY <1>x, <1>2, <1>3
<1>5. ses' = [ses EXCEPT ![s] = y] /\ row' = [row EXCEPT ![s] = row[s]]
  BY <1>x, <1>y, SameRow
<1> QED BY <1>x, <1>1, <1>4, <1>5, QuietStep

LEMMA CloseInv ==
    ASSUME BSInv, NEW s \in Sessions, Close(s)
    PROVE  BSInv'
<1>1. /\ ses[s].pc \in {"failed", "settleFailed", "settled"}
      /\ ses' = [ses EXCEPT ![s] = Goto(ses[s], "closed")]
      /\ UNCHANGED <<bal, row, lost, failures, overwrote>>
  BY DEF Close, At, Put, Goto
<1> QED BY <1>1, ClosesInv

Refunding(x) == [x EXCEPT !.refunded = TRUE, !.pc = "refundFunding"]

LEMMA RefundInv ==
    ASSUME BSInv, NEW s \in Sessions, Refund(s)
    PROVE  BSInv'
<1>x. PICK x : x = ses[s]
  OBVIOUS
<1>0. x.pc \in {"failed", "settleFailed", "settled"} /\ UNCHANGED <<bal, row, lost, failures, overwrote>>
  BY <1>x DEF Refund, At
<1>1. x \in SessionRecs /\ row[s] \in RowRecs /\ SessionOK(x, row[s], failures)
  BY <1>x, SessionFacts
<1>2. CASE ses' = [ses EXCEPT ![s] = Goto(x, "closed")]
  BY <1>0, <1>2, <1>x, ClosesInv
<1>3. CASE CanRefund(x) /\ ses' = [ses EXCEPT ![s] = Refunding(x)]
  <2>1. x.pc \notin PrePcs /\ x.pc \notin RsvPcs /\ "refundFunding" \notin RsvPcs
        /\ "refundFunding" \in RefundPcs /\ "refundFunding" \in PCs
    BY <1>0 DEF PrePcs, RsvPcs, RefundPcs, PCs
  <2>2. x.pc # "settled"
    BY <1>1, <1>3 DEF CanRefund, SessionOK, SettledOK
  <2>3. x.pc \in LivePcs
    BY <1>0, <2>2 DEF LivePcs
  <2>4. LiveOK(x, row[s]) /\ AmountsOK(x, row[s], failures) /\ Untouched(x)
    BY <1>1, <2>1, <2>3 DEF SessionOK, LiveOK
  <2>y. PICK y : y = Refunding(x)
    OBVIOUS
  <2>5. /\ y \in SessionRecs /\ SameWho(y, x) /\ KeptAmounts(y, x) /\ y.pc = "refundFunding"
        /\ y.extra = x.extra /\ y.effects = x.effects /\ y.refunded /\ ~y.settled
        /\ ~y.fundingSettled
    <3>1. y = [x EXCEPT !.refunded = TRUE, !.pc = "refundFunding"]
      BY <2>y DEF Refunding
    <3>2. /\ y \in SessionRecs /\ y.pc = "refundFunding" /\ y.extra = x.extra
          /\ y.effects = x.effects /\ y.refunded
      BY <1>1, <2>1, <3>1 DEF SessionRecs
    <3>3. SameWho(y, x)
      BY <1>1, <3>1 DEF SessionRecs, SameWho
    <3>4. KeptAmounts(y, x)
      BY <1>1, <3>1 DEF SessionRecs, KeptAmounts
    <3>5. ~y.settled /\ ~y.fundingSettled
      BY <1>1, <2>4, <3>1 DEF SessionRecs, Untouched
    <3> QED BY <3>2, <3>3, <3>4, <3>5
  <2>6. x.effects = {} /\ ~x.fundingSettled /\ x.extra = 0 /\ row[s].status # "refunded"
    BY <2>1, <2>4 DEF LiveOK, Untouched
  <2>7. OfFunding(y) = OfFunding(x) /\ OfToken(y) = OfToken(x)
    BY <1>1, <2>1, <2>5, <2>6, StillHolds DEF SameWho, KeptAmounts
  <2>8. x.kind = "package" /\ row[s].status = "consumed" => row[s].quota = OfFunding(y)
    BY <2>4, <2>7 DEF AmountsOK
  <2>9. AmountsOK(y, row[s], failures)
    BY <1>1, <2>1, <2>4, <2>5, <2>8, AmountsKept
  <2>10. RefundOK(y, row[s], failures)
    BY <2>5, <2>6 DEF RefundOK
  <2>11. SessionOK(y, row[s], failures)
    BY <2>1, <2>5, <2>9, <2>10, Phases
  <2>12. ses' = [ses EXCEPT ![s] = y] /\ row' = [row EXCEPT ![s] = row[s]] /\ y.kind = x.kind
    BY <1>0, <1>3, <2>5, <2>y, SameRow DEF SameWho
  <2> QED BY <1>0, <1>1, <1>x, <2>5, <2>7, <2>11, <2>12, QuietStep
<1> QED BY <1>2, <1>3, <1>x DEF Refund, Put, Goto, Refunding

\* What is known of a session that is being refunded.
LEMMA RefundNow ==
    ASSUME BSInv, NEW s \in Sessions, NEW x, x = ses[s], x.pc \in RefundPcs
    PROVE  /\ x \in SessionRecs /\ row[s] \in RowRecs /\ failures \in Nat
           /\ RefundOK(x, row[s], failures) /\ AmountsOK(x, row[s], failures)
           /\ x.pc \notin RsvPcs /\ x.kind \in Fundings
           /\ x.consumed \in Nat /\ x.preConsumed \in Nat /\ x.tokenConsumed \in Nat
           /\ x.extraReserved \in Nat /\ (x.playground => x.tokenConsumed = 0)
           /\ x.refunded /\ ~x.settled /\ ~x.fundingSettled
           /\ "tokenSettled" \notin x.effects /\ x.extra = 0 /\ "tokenRefunded" \notin x.effects
<1>1. x \in SessionRecs /\ row[s] \in RowRecs /\ SessionOK(x, row[s], failures) /\ failures \in Nat
  BY SessionFacts
<1>2. x.pc \notin PrePcs /\ x.pc \notin RsvPcs /\ x.pc # "closed"
  BY DEF PrePcs, RefundPcs, RsvPcs
<1>3. RefundOK(x, row[s], failures) /\ AmountsOK(x, row[s], failures)
  BY <1>1, <1>2 DEF SessionOK
<1>4. /\ x.refunded /\ ~x.settled /\ ~x.fundingSettled
      /\ "tokenSettled" \notin x.effects /\ x.extra = 0 /\ "tokenRefunded" \notin x.effects
  BY <1>2, <1>3 DEF RefundOK
<1>5. x.playground => x.tokenConsumed = 0
  BY <1>3 DEF AmountsOK
<1> QED BY <1>1, <1>2, <1>3, <1>4, <1>5 DEF SessionRecs

\* Nothing of a session's part changes but the effects E.
LEMMA BecomesHolds ==
    ASSUME NEW x \in SessionRecs, NEW y, NEW p \in RefundPcs \cup {"closed"}, NEW E,
           Becomes(y, x, p, E), ~x.fundingSettled, "tokenSettled" \notin E
    PROVE  /\ OfFunding(y) =
                (IF "fundingRefunded" \in E THEN 0
                 ELSE IF x.kind = "package" THEN x.preConsumed ELSE x.consumed)
                + (IF x.kind # "subscription" \/ "extraRefunded" \in E THEN 0
                   ELSE x.extraReserved)
           /\ OfToken(y) = IF "tokenRefunded" \in E THEN 0 ELSE x.tokenConsumed
<1>1. p \notin RsvPcs
  BY DEF RefundPcs, RsvPcs
<1>2. /\ y \in SessionRecs /\ y.pc = p /\ y.effects = E /\ ~y.fundingSettled /\ y.kind = x.kind
      /\ y.consumed = x.consumed /\ y.preConsumed = x.preConsumed
      /\ y.tokenConsumed = x.tokenConsumed /\ y.extraReserved = x.extraReserved
  BY DEF Becomes, SameWho, KeptAmounts
<1> QED BY <1>1, <1>2, RefundHolds

LEMMA RefundWalletInv ==
    ASSUME BSInv, NEW s \in Sessions, RefundWallet(s)
    PROVE  BSInv'
<1>x. PICK x : x = ses[s]
  OBVIOUS
<1>0. x.pc = "refundFunding" /\ x.pc \in RefundPcs /\ x.kind = "wallet" /\ lost' = lost /\ overwrote' = overwrote
  BY <1>x DEF RefundWallet, At, RefundPcs
<1>1. /\ x \in SessionRecs /\ row[s] \in RowRecs /\ failures \in Nat
      /\ RefundOK(x, row[s], failures) /\ AmountsOK(x, row[s], failures)
      /\ x.pc \notin RsvPcs /\ x.consumed \in Nat /\ (x.playground => x.tokenConsumed = 0)
      /\ x.refunded /\ ~x.settled /\ ~x.fundingSettled
      /\ "tokenSettled" \notin x.effects /\ x.extra = 0 /\ "tokenRefunded" \notin x.effects
      /\ x.tokenConsumed \in Nat /\ x.preConsumed \in Nat /\ x.extraReserved \in Nat
  BY <1>0, <1>x, RefundNow
<1>2. "fundingRefunded" \notin x.effects /\ "extraRefunded" \notin x.effects
  BY <1>0, <1>1 DEF RefundOK
<1>3. OfFunding(x) = x.consumed /\ OfToken(x) = x.tokenConsumed
  BY <1>0, <1>1, <1>2, RefundHolds
<1>4. ASSUME NEW E \in SUBSET Effects, NEW v, v \in SessionRecs, Becomes(v, x, x.pc, E),
             E = x.effects \/ E = x.effects \cup {"fundingRefunded"},
             ses' = [ses EXCEPT ![s] = AfterFunding(v)], row' = row,
             failures' = failures \/ (failures < MaxFailures /\ failures' = failures + 1),
             E = x.effects => bal' = bal /\ failures' # 0,
             E # x.effects => Take("wallet", -x.consumed)
      PROVE  BSInv'
  <2>p. PICK p \in {"refundExtra", "refundToken", "closed"} :
              /\ Becomes(AfterFunding(v), v, p, v.effects)
              /\ p = "refundExtra" => v.kind = "subscription"
              /\ p = "closed" => v.tokenConsumed = 0 \/ v.playground
    BY <1>4, AfterFundingBecomes
  <2>y. PICK y : y = AfterFunding(v)
    OBVIOUS
  <2>1. v.effects = E /\ v.kind = "wallet" /\ v.tokenConsumed = x.tokenConsumed
        /\ (v.playground <=> x.playground)
    BY <1>0, <1>4 DEF Becomes, SameWho, KeptAmounts
  <2>2. Becomes(y, x, p, E)
    BY <1>4, <2>p, <2>y, <2>1, BecomesTwice
  <2>3. p \in {"refundToken", "closed"} /\ (p = "closed" => x.tokenConsumed = 0)
        /\ p \in RefundPcs \cup {"closed"}
    BY <1>1, <2>p, <2>1 DEF RefundPcs
  <2>4. "tokenSettled" \notin E /\ "tokenRefunded" \notin E /\ "extraRefunded" \notin E
    BY <1>1, <1>2, <1>4
  <2>5. /\ OfFunding(y) = IF "fundingRefunded" \in E THEN 0 ELSE x.consumed
        /\ OfToken(y) = x.tokenConsumed
    <3>1. /\ OfFunding(y) =
                (IF "fundingRefunded" \in E THEN 0
                 ELSE IF x.kind = "package" THEN x.preConsumed ELSE x.consumed)
                + (IF x.kind # "subscription" \/ "extraRefunded" \in E THEN 0
                   ELSE x.extraReserved)
          /\ OfToken(y) = IF "tokenRefunded" \in E THEN 0 ELSE x.tokenConsumed
      BY <1>1, <2>2, <2>3, <2>4, BecomesHolds
    <3> QED BY <1>0, <1>1, <2>4, <3>1
  <2>6. failures' = 0 => failures = 0 /\ "fundingRefunded" \in E
    BY <1>1, <1>4
  <2>7. RefundOK(y, row[s], failures')
    <3>1. /\ y.refunded /\ ~y.settled /\ ~y.fundingSettled /\ y.pc = p /\ y.effects = E
          /\ y.kind = "wallet" /\ y.tokenConsumed = x.tokenConsumed /\ y.extra = 0
      BY <1>0, <1>1, <2>2 DEF Becomes, SameWho, KeptAmounts
    <3> QED BY <2>3, <2>4, <2>6, <3>1 DEF RefundOK
  <2>8. y \in SessionRecs /\ SessionOK(y, row[s], failures') /\ y.kind = x.kind
    BY <1>0, <1>1, <2>2, <2>3, <2>6, <2>7, RefundSession
  <2>9. ses' = [ses EXCEPT ![s] = y] /\ row' = [row EXCEPT ![s] = row[s]]
    BY <1>4, <2>y, SameRow
  <2>10. CASE E = x.effects
    <3>1. bal' = bal /\ OfFunding(y) = OfFunding(x) /\ OfToken(y) = OfToken(x)
      BY <1>2, <1>3, <1>4, <2>5, <2>10
    <3>2. failures' = failures \/ (failures < MaxFailures /\ failures' = failures + 1)
      BY <1>4
    <3> QED BY <1>0, <1>1, <1>x, <2>8, <2>9, <3>1, <3>2, QuietStep
  <2>11. CASE E # x.effects
    <3>1. Take("wallet", -x.consumed) /\ OfFunding(y) = 0 /\ OfToken(y) = OfToken(x)
      BY <1>3, <1>4, <2>5, <2>11
    <3>2. failures' = failures \/ (failures < MaxFailures /\ failures' = failures + 1)
      BY <1>4
    <3>3. -x.consumed \in Int /\ OfFunding(y) = OfFunding(x) + (-x.consumed)
      BY <1>1, <1>3, <3>1
    <3> QED BY <1>0, <1>1, <1>x, <2>8, <2>9, <3>1, <3>2, <3>3, FundingStep
  <2> QED BY <2>10, <2>11
<1>5. CASE /\ Take("wallet", -x.consumed)
           /\ Put(s, AfterFunding(Mark(x, "fundingRefunded")))
           /\ UNCHANGED failures \/ Ambiguous
           /\ UNCHANGED row
  <2>v. PICK v : v = Mark(x, "fundingRefunded")
    OBVIOUS
  <2>E. PICK E : E = x.effects \cup {"fundingRefunded"}
    OBVIOUS
  <2>1. "fundingRefunded" \in Effects /\ E \in SUBSET Effects /\ E # x.effects
    BY <1>1, <1>2, <2>E DEF SessionRecs, Effects
  <2>2. Becomes(v, x, x.pc, E) /\ v \in SessionRecs
    BY <1>1, <2>1, <2>v, <2>E, MarkBecomes DEF Becomes
  <2>3. ses' = [ses EXCEPT ![s] = AfterFunding(v)] /\ row' = row /\ Take("wallet", -x.consumed)
        /\ (failures' = failures \/ (failures < MaxFailures /\ failures' = failures + 1))
    BY <1>5, <2>v DEF Put, Ambiguous
  <2> QED BY <1>4, <2>E, <2>1, <2>2, <2>3
<1>6. CASE DBError /\ Put(s, AfterFunding(x))
  <2>1. /\ ses' = [ses EXCEPT ![s] = AfterFunding(x)] /\ row' = row /\ bal' = bal
        /\ failures < MaxFailures /\ failures' = failures + 1
    BY <1>6 DEF Put, DBError
  <2>2. failures' # 0 /\ x.effects \in SUBSET Effects
    BY <1>1, <2>1 DEF SessionRecs
  <2>3. Becomes(x, x, x.pc, x.effects)
    BY <1>1 DEF Becomes, SameWho, KeptAmounts
  <2> QED BY <1>1, <1>4, <2>1, <2>2, <2>3
<1> QED BY <1>5, <1>6, <1>x DEF RefundWallet

\* Where refundWithRetry and the goroutine after it can lead.
LEMMA RetryGoesTo ==
    ASSUME NEW x \in SessionRecs, NEW y, x.pc = "refundFunding",
           y = AfterFunding(x) \/ y = refundWithRetry(x)
    PROVE  \E p \in RefundPcs \cup {"closed"} :
              /\ Becomes(y, x, p, x.effects)
              /\ p = "refundExtra" => x.kind = "subscription"
              /\ p \in {"refundToken", "closed"} /\ x.kind = "subscription" => x.extraReserved = 0
              /\ p = "closed" => x.tokenConsumed = 0 \/ x.playground
<1>1. CASE y = AfterFunding(x)
  <2>p. PICK p \in {"refundExtra", "refundToken", "closed"} :
              /\ Becomes(AfterFunding(x), x, p, x.effects)
              /\ p = "refundExtra" => x.kind = "subscription"
              /\ p # "refundExtra" /\ x.kind = "subscription" => x.extraReserved = 0
              /\ p = "closed" => x.tokenConsumed = 0 \/ x.playground
    BY AfterFundingBecomes
  <2>1. p \in RefundPcs \cup {"closed"}
    BY DEF RefundPcs
  <2> QED BY <1>1, <2>p, <2>1
<1>2. CASE Becomes(y, x, x.pc, x.effects)
  <2>1. "refundFunding" \in RefundPcs
    BY DEF RefundPcs
  <2> QED BY <1>2, <2>1
<1> QED BY <1>1, <1>2, RetryBecomes

\* A session x being refunded is now y, with the effects E; its row was w and is u, the
\* failures were m and are n.
FundingRefund(x, w, m, y, u, n, E) ==
    /\ x \in SessionRecs /\ w \in RowRecs /\ u \in RowRecs /\ m \in Nat /\ n \in Nat
    /\ x.pc = "refundFunding" /\ x.kind # "wallet" /\ RefundOK(x, w, m) /\ AmountsOK(x, w, m)
    /\ n = 0 => m = 0
    /\ E = x.effects \/ E = x.effects \cup {"fundingRefunded"}
    /\ "fundingRefunded" \notin E => n # 0
    /\ \E v : Becomes(v, x, x.pc, E) /\ (y = AfterFunding(v) \/ y = refundWithRetry(v))
    /\ u.status # "none"
    /\ "fundingRefunded" \in E <=> u.status = "refunded"
    /\ u.status = "consumed" => u = w

\* What that gives back.
GivenBack(x, E) ==
    IF "fundingRefunded" \in E /\ "fundingRefunded" \notin x.effects
    THEN IF x.kind = "package" THEN x.preConsumed ELSE x.consumed
    ELSE 0

LEMMA FundingRefundedSession ==
    ASSUME NEW x, NEW w, NEW m, NEW y, NEW u, NEW n, NEW E, FundingRefund(x, w, m, y, u, n, E)
    PROVE  /\ y \in SessionRecs /\ SessionOK(y, u, n) /\ y.kind = x.kind
           /\ OfToken(y) = OfToken(x)
           /\ OfFunding(y) = OfFunding(x) - GivenBack(x, E)
<1>h. /\ x \in SessionRecs /\ w \in RowRecs /\ u \in RowRecs /\ m \in Nat /\ n \in Nat
      /\ x.pc = "refundFunding" /\ x.kind # "wallet" /\ RefundOK(x, w, m) /\ AmountsOK(x, w, m)
      /\ n = 0 => m = 0
      /\ E = x.effects \/ E = x.effects \cup {"fundingRefunded"}
      /\ "fundingRefunded" \notin E => n # 0
      /\ u.status # "none"
      /\ "fundingRefunded" \in E <=> u.status = "refunded"
      /\ u.status = "consumed" => u = w
  BY DEF FundingRefund
<1>v. PICK v : Becomes(v, x, x.pc, E) /\ (y = AfterFunding(v) \/ y = refundWithRetry(v))
  BY DEF FundingRefund
<1>0. x.pc \notin RsvPcs /\ x.pc \in RefundPcs
  BY <1>h DEF RsvPcs, RefundPcs
<1>1. /\ x.refunded /\ ~x.settled /\ ~x.fundingSettled /\ "tokenSettled" \notin x.effects
      /\ x.extra = 0 /\ "tokenRefunded" \notin x.effects /\ "extraRefunded" \notin x.effects
  BY <1>h DEF RefundOK
<1>2. "tokenSettled" \notin E /\ "tokenRefunded" \notin E /\ "extraRefunded" \notin E
  BY <1>h, <1>1
<1>3. x.playground => x.tokenConsumed = 0
  BY <1>h DEF AmountsOK
<1>4. /\ v \in SessionRecs /\ v.pc = "refundFunding" /\ v.effects = E /\ v.kind = x.kind
      /\ v.extraReserved = x.extraReserved /\ v.tokenConsumed = x.tokenConsumed
      /\ (v.playground <=> x.playground)
  BY <1>h, <1>v DEF Becomes, SameWho, KeptAmounts
<1>p. PICK p \in RefundPcs \cup {"closed"} :
              /\ Becomes(y, v, p, v.effects)
              /\ p = "refundExtra" => v.kind = "subscription"
              /\ p \in {"refundToken", "closed"} /\ v.kind = "subscription" => v.extraReserved = 0
              /\ p = "closed" => v.tokenConsumed = 0 \/ v.playground
  BY <1>v, <1>4, RetryGoesTo
<1>5. Becomes(y, x, p, E)
  BY <1>v, <1>4, <1>p, BecomesTwice
<1>6. /\ p = "refundExtra" => x.kind = "subscription"
      /\ p \in {"refundToken", "closed"} /\ x.kind = "subscription" => x.extraReserved = 0
      /\ p = "closed" => x.tokenConsumed = 0
  BY <1>3, <1>4, <1>p
<1>7. /\ OfFunding(y) =
            (IF "fundingRefunded" \in E THEN 0
             ELSE IF x.kind = "package" THEN x.preConsumed ELSE x.consumed)
            + (IF x.kind # "subscription" \/ "extraRefunded" \in E THEN 0
               ELSE x.extraReserved)
      /\ OfToken(y) = IF "tokenRefunded" \in E THEN 0 ELSE x.tokenConsumed
  BY <1>h, <1>1, <1>2, <1>5, BecomesHolds
<1>8. /\ OfFunding(x) =
            (IF "fundingRefunded" \in x.effects THEN 0
             ELSE IF x.kind = "package" THEN x.preConsumed ELSE x.consumed)
            + (IF x.kind # "subscription" \/ "extraRefunded" \in x.effects THEN 0
               ELSE x.extraReserved)
      /\ OfToken(x) = IF "tokenRefunded" \in x.effects THEN 0 ELSE x.tokenConsumed
  BY <1>h, <1>0, <1>1, RefundHolds
<1>9. x.consumed \in Nat /\ x.preConsumed \in Nat /\ x.extraReserved \in Nat
  BY <1>h DEF SessionRecs
<1>10. /\ OfToken(y) = OfToken(x)
       /\ OfFunding(y) = OfFunding(x) - GivenBack(x, E)
  BY <1>h, <1>1, <1>2, <1>7, <1>8, <1>9 DEF GivenBack
<1>11. RefundOK(y, u, n)
  <2>1. /\ y.refunded /\ ~y.settled /\ ~y.fundingSettled /\ y.pc = p /\ y.effects = E
        /\ y.kind = x.kind /\ y.tokenConsumed = x.tokenConsumed /\ y.extra = 0
        /\ y.extraReserved = x.extraReserved
    BY <1>1, <1>5 DEF Becomes, SameWho, KeptAmounts
  <2>2. /\ y.pc \in {"refundToken", "closed"} /\ y.kind = "subscription" /\ y.extraReserved > 0
             => "extraRefunded" \in y.effects
        /\ y.pc = "closed" /\ y.tokenConsumed > 0 => "tokenRefunded" \in y.effects
    BY <1>6, <2>1
  <2>3. n = 0 => "fundingRefunded" \in y.effects
    BY <1>h, <2>1
  <2> QED BY <1>h, <1>2, <1>6, <2>1, <2>2, <2>3 DEF RefundOK
<1>12. x.kind = "package" /\ u.status = "consumed" => u.quota = OfFunding(y)
  <2>1. u.status = "consumed" => "fundingRefunded" \notin E /\ E = x.effects /\ u = w
    BY <1>h
  <2>2. u.status = "consumed" => OfFunding(y) = OfFunding(x)
    BY <2>1, <1>7, <1>8
  <2> QED BY <1>h, <2>1, <2>2 DEF AmountsOK
<1>13. w.status = "none" <=> u.status = "none"
  BY <1>h DEF AmountsOK
<1>14. y \in SessionRecs /\ SessionOK(y, u, n) /\ y.kind = x.kind
  BY <1>h, <1>0, <1>5, <1>11, <1>12, <1>13, RefundSession
<1> QED BY <1>10, <1>14

RefundedRow(x, w) == [status |-> "refunded", quota |-> IF x.kind = "package" THEN 0 ELSE w.quota]

LEMMA RefundedRowIs ==
    ASSUME NEW x \in SessionRecs, NEW w \in RowRecs
    PROVE  RefundedRow(x, w) \in RowRecs /\ RefundedRow(x, w).status = "refunded"
BY DEF RefundedRow, RowRecs

\* The transaction of RefundSubscriptionPreConsume, wherever the goroutine goes next.
LEMMA RefundRecordInv ==
    ASSUME BSInv, NEW s \in Sessions, NEW x, x = ses[s], x.pc = "refundFunding",
           x.kind # "wallet", RefundRecord(s), lost' = lost /\ overwrote' = overwrote, NEW y,
           \/ y = AfterFunding(Mark(x, "fundingRefunded"))
           \/ y = refundWithRetry(Mark(x, "fundingRefunded")),
           ses' = [ses EXCEPT ![s] = y],
           failures' = failures \/ (failures < MaxFailures /\ failures' = failures + 1)
    PROVE  BSInv'
<1>0. x.pc \in RefundPcs
  BY DEF RefundPcs
<1>1. /\ x \in SessionRecs /\ row[s] \in RowRecs /\ failures \in Nat
      /\ RefundOK(x, row[s], failures) /\ AmountsOK(x, row[s], failures)
      /\ x.pc \notin RsvPcs /\ x.kind \in Fundings /\ x.consumed \in Nat /\ x.preConsumed \in Nat
      /\ x.extraReserved \in Nat /\ ~x.fundingSettled /\ "tokenSettled" \notin x.effects
  BY <1>0, RefundNow
<1>v. PICK v : v = Mark(x, "fundingRefunded")
  OBVIOUS
<1>E. PICK E : E = x.effects \cup {"fundingRefunded"}
  OBVIOUS
<1>u. PICK u \in RowRecs : u = RefundedRow(x, row[s]) /\ u.status = "refunded"
  BY <1>1, RefundedRowIs
<1>2. "fundingRefunded" \in Effects
  BY DEF Effects
<1>3. Becomes(v, x, x.pc, E)
  BY <1>1, <1>2, <1>v, <1>E, MarkBecomes
<1>4. y = AfterFunding(v) \/ y = refundWithRetry(v)
  BY <1>v
<1>5. failures' \in Nat /\ (failures' = 0 => failures = 0)
  BY <1>1
<1>6. "fundingRefunded" \in E /\ (E = x.effects \/ E = x.effects \cup {"fundingRefunded"})
  BY <1>E
<1>7. /\ y \in SessionRecs /\ SessionOK(y, u, failures') /\ y.kind = x.kind
      /\ OfToken(y) = OfToken(x)
      /\ OfFunding(y) = OfFunding(x) - GivenBack(x, E)
  <2>1. u.status # "none" /\ ("fundingRefunded" \in E <=> u.status = "refunded")
        /\ (u.status = "consumed" => u = row[s]) /\ ("fundingRefunded" \notin E => failures' # 0)
    BY <1>u, <1>6
  <2>2. FundingRefund(x, row[s], failures, y, u, failures', E)
    BY <1>1, <1>3, <1>4, <1>5, <1>6, <1>u, <2>1 DEF FundingRefund
  <2> QED BY <2>2, FundingRefundedSession
<1>8. row' = [row EXCEPT ![s] = u]
  BY <1>u DEF RefundRecord, RefundedRow
<1>9. OfFunding(x) \in Nat
  BY <1>1, OfIsNat
<1>10. CASE row[s].status = "refunded"
  <2>1. bal' = bal /\ "fundingRefunded" \in x.effects
    BY <1>1, <1>10 DEF RefundRecord, RefundOK
  <2>2. OfFunding(y) = OfFunding(x)
    BY <1>7, <1>9, <2>1 DEF GivenBack
  <2> QED BY <1>7, <1>8, <2>1, <2>2, QuietStep
<1>11. CASE row[s].status # "refunded"
  <2>1. "fundingRefunded" \notin x.effects /\ row[s].status = "consumed"
    BY <1>1, <1>11 DEF RefundOK, AmountsOK, RowRecs
  <2>q. PICK q : q = IF x.kind = "package" THEN row[s].quota ELSE x.consumed
    OBVIOUS
  <2>2. x.kind = "package" => OfFunding(x) = x.preConsumed
    BY <1>1, <2>1, RefundHolds
  <2>3. x.kind = "package" => row[s].quota = x.preConsumed
    BY <1>1, <2>1, <2>2 DEF AmountsOK
  <2>4. q = IF x.kind = "package" THEN x.preConsumed ELSE x.consumed
    BY <2>q, <2>3
  <2>5. q \in Nat /\ -q \in Int
    BY <1>1, <2>4
  <2>6. OfFunding(y) = OfFunding(x) + (-q)
    BY <1>6, <1>7, <1>9, <2>1, <2>4, <2>5 DEF GivenBack
  <2>7. PostConsume(x.kind, -q)
    BY <1>11, <2>q DEF RefundRecord
  <2>8. -q <= 0
    BY <2>5
  <2>k. PICK k : k = x.kind
    OBVIOUS
  <2>9. /\ k = ses[s].kind /\ k # "wallet" /\ PostConsume(k, -q) /\ -q <= 0
        /\ y.kind = k
    BY <1>7, <2>k, <2>7, <2>8
  <2> QED BY <1>7, <1>8, <2>5, <2>6, <2>9, FundingStep
<1> QED BY <1>10, <1>11

LEMMA RefundSubscriptionInv ==
    ASSUME BSInv, NEW s \in Sessions, RefundSubscription(s)
    PROVE  BSInv'
<1>x. PICK x : x = ses[s]
  OBVIOUS
<1>0. x.pc = "refundFunding" /\ x.pc \in RefundPcs /\ x.kind # "wallet" /\ lost' = lost /\ overwrote' = overwrote
  BY <1>x DEF RefundSubscription, At, RefundPcs
<1>1. CASE /\ RefundRecord(s)
           /\ \/ Put(s, AfterFunding(Mark(x, "fundingRefunded"))) /\ UNCHANGED failures
              \/ Put(s, refundWithRetry(Mark(x, "fundingRefunded"))) /\ Ambiguous
  <2>1. failures' = failures \/ (failures < MaxFailures /\ failures' = failures + 1)
    BY <1>1 DEF Ambiguous
  <2>y. PICK y : /\ \/ y = AfterFunding(Mark(x, "fundingRefunded"))
                    \/ y = refundWithRetry(Mark(x, "fundingRefunded"))
                 /\ ses' = [ses EXCEPT ![s] = y]
    BY <1>1 DEF Put
  <2> QED BY <1>0, <1>1, <1>x, <2>1, <2>y, RefundRecordInv
<1>2. CASE DBError /\ Put(s, refundWithRetry(x))
  <2>1. /\ x \in SessionRecs /\ row[s] \in RowRecs /\ failures \in Nat
        /\ RefundOK(x, row[s], failures) /\ AmountsOK(x, row[s], failures)
    BY <1>0, <1>x, RefundNow
  <2>y. PICK y : y = refundWithRetry(x)
    OBVIOUS
  <2>2. /\ ses' = [ses EXCEPT ![s] = y] /\ row' = row /\ bal' = bal
        /\ failures < MaxFailures /\ failures' = failures + 1
    BY <1>2, <2>y DEF Put, DBError
  <2>3. row' = [row EXCEPT ![s] = row[s]]
    BY <2>2, SameRow
  <2>4. failures' \in Nat /\ failures' # 0
    BY <2>1, <2>2
  <2>5. Becomes(x, x, x.pc, x.effects)
    BY <2>1 DEF Becomes, SameWho, KeptAmounts
  <2>6. row[s].status # "none" /\ ("fundingRefunded" \in x.effects <=> row[s].status = "refunded")
    BY <1>0, <2>1 DEF RefundOK, AmountsOK
  <2>7. /\ y \in SessionRecs /\ SessionOK(y, row[s], failures') /\ y.kind = x.kind
        /\ OfToken(y) = OfToken(x)
        /\ OfFunding(y) = OfFunding(x) - GivenBack(x, x.effects)
    <3>1. FundingRefund(x, row[s], failures, y, row[s], failures', x.effects)
      BY <1>0, <2>1, <2>y, <2>4, <2>5, <2>6 DEF FundingRefund
    <3> QED BY <3>1, FundingRefundedSession
  <2>8. OfFunding(y) = OfFunding(x)
    <3>1. OfFunding(x) \in Nat
      BY <2>1, OfIsNat
    <3> QED BY <3>1, <2>7 DEF GivenBack
  <2> QED BY <1>0, <1>x, <2>1, <2>2, <2>3, <2>7, <2>8, QuietStep
<1> QED BY <1>1, <1>2, <1>x DEF RefundSubscription

\* A session x being refunded goes on to p with the effects E; its row stays w.
RefundGoesOn(x, w, m, y, n, p, E) ==
    /\ x \in SessionRecs /\ x.pc \in {"refundExtra", "refundToken"}
    /\ RefundOK(x, w, m) /\ AmountsOK(x, w, m) /\ (n = 0 => m = 0)
    /\ p \in {"refundToken", "closed"} /\ Becomes(y, x, p, E)
    /\ x.effects \subseteq E /\ "tokenSettled" \notin E
    /\ "fundingRefunded" \in E <=> "fundingRefunded" \in x.effects
    /\ p # "closed" => "tokenRefunded" \notin E
    /\ x.pc = "refundExtra" /\ n = 0 => "extraRefunded" \in E
    /\ p = "closed" /\ n = 0 /\ x.tokenConsumed > 0 => "tokenRefunded" \in E

LEMMA RefundGoesOnSession ==
    ASSUME NEW x, NEW w, NEW m, NEW y, NEW n, NEW p, NEW E, RefundGoesOn(x, w, m, y, n, p, E)
    PROVE  /\ y \in SessionRecs /\ SessionOK(y, w, n) /\ y.kind = x.kind
           /\ OfFunding(y) =
                (IF "fundingRefunded" \in E THEN 0
                 ELSE IF x.kind = "package" THEN x.preConsumed ELSE x.consumed)
                + (IF x.kind # "subscription" \/ "extraRefunded" \in E THEN 0
                   ELSE x.extraReserved)
           /\ OfToken(y) = IF "tokenRefunded" \in E THEN 0 ELSE x.tokenConsumed
<1>h. /\ x \in SessionRecs /\ x.pc \in {"refundExtra", "refundToken"}
      /\ RefundOK(x, w, m) /\ AmountsOK(x, w, m) /\ (n = 0 => m = 0)
      /\ p \in {"refundToken", "closed"} /\ Becomes(y, x, p, E)
      /\ x.effects \subseteq E /\ "tokenSettled" \notin E
      /\ "fundingRefunded" \in E <=> "fundingRefunded" \in x.effects
      /\ p # "closed" => "tokenRefunded" \notin E
      /\ x.pc = "refundExtra" /\ n = 0 => "extraRefunded" \in E
      /\ p = "closed" /\ n = 0 /\ x.tokenConsumed > 0 => "tokenRefunded" \in E
  BY DEF RefundGoesOn
<1>0. x.pc \notin RsvPcs /\ p \in RefundPcs \cup {"closed"}
  BY <1>h DEF RsvPcs, RefundPcs
<1>1. /\ x.refunded /\ ~x.settled /\ ~x.fundingSettled /\ x.extra = 0
      /\ "tokenSettled" \notin x.effects
  BY <1>h DEF RefundOK
<1>2. /\ OfFunding(y) =
                (IF "fundingRefunded" \in E THEN 0
                 ELSE IF x.kind = "package" THEN x.preConsumed ELSE x.consumed)
                + (IF x.kind # "subscription" \/ "extraRefunded" \in E THEN 0
                   ELSE x.extraReserved)
      /\ OfToken(y) = IF "tokenRefunded" \in E THEN 0 ELSE x.tokenConsumed
  BY <1>h, <1>0, <1>1, BecomesHolds
<1>3. /\ OfFunding(x) =
            (IF "fundingRefunded" \in x.effects THEN 0
             ELSE IF x.kind = "package" THEN x.preConsumed ELSE x.consumed)
            + (IF x.kind # "subscription" \/ "extraRefunded" \in x.effects THEN 0
               ELSE x.extraReserved)
  BY <1>h, <1>0, <1>1, RefundHolds
<1>4. x.kind = "package" => OfFunding(y) = OfFunding(x)
  BY <1>h, <1>2, <1>3
<1>5. x.kind = "package" /\ w.status = "consumed" => w.quota = OfFunding(y)
  BY <1>h, <1>4 DEF AmountsOK
<1>6. RefundOK(y, w, n)
  <2>1. /\ y.refunded /\ ~y.settled /\ ~y.fundingSettled /\ y.pc = p /\ y.effects = E
        /\ y.kind = x.kind /\ y.tokenConsumed = x.tokenConsumed /\ y.extra = 0
        /\ y.extraReserved = x.extraReserved
    BY <1>h, <1>1 DEF Becomes, SameWho, KeptAmounts
  <2>2. y.kind # "wallet" => ("fundingRefunded" \in y.effects <=> w.status = "refunded")
    BY <1>h, <2>1 DEF RefundOK
  <2>3. n = 0 => "fundingRefunded" \in y.effects
    BY <1>h, <2>1 DEF RefundOK
  <2>4. n = 0 /\ y.kind = "subscription" /\ y.extraReserved > 0 => "extraRefunded" \in y.effects
    BY <1>h, <2>1 DEF RefundOK
  <2>5. n = 0 /\ y.pc = "closed" /\ y.tokenConsumed > 0 => "tokenRefunded" \in y.effects
    BY <1>h, <2>1
  <2> QED BY <1>h, <2>1, <2>2, <2>3, <2>4, <2>5 DEF RefundOK
<1>7. y \in SessionRecs /\ SessionOK(y, w, n) /\ y.kind = x.kind
  BY <1>h, <1>0, <1>5, <1>6, RefundSession
<1> QED BY <1>2, <1>7

LEMMA RefundExtraInv ==
    ASSUME BSInv, NEW s \in Sessions, RefundExtra(s)
    PROVE  BSInv'
<1>x. PICK x : x = ses[s]
  OBVIOUS
<1>0. x.pc = "refundExtra" /\ x.pc \in RefundPcs /\ lost' = lost /\ overwrote' = overwrote
  BY <1>x DEF RefundExtra, At, RefundPcs
<1>1. /\ x \in SessionRecs /\ row[s] \in RowRecs /\ failures \in Nat
      /\ RefundOK(x, row[s], failures) /\ AmountsOK(x, row[s], failures)
      /\ x.pc \notin RsvPcs /\ (x.playground => x.tokenConsumed = 0) /\ ~x.fundingSettled
      /\ "tokenSettled" \notin x.effects /\ "tokenRefunded" \notin x.effects
      /\ x.consumed \in Nat /\ x.extraReserved \in Nat /\ x.tokenConsumed \in Nat
  BY <1>0, <1>x, RefundNow
<1>2. x.kind = "subscription" /\ "extraRefunded" \notin x.effects
  BY <1>0, <1>1 DEF RefundOK
<1>3. /\ OfFunding(x) = (IF "fundingRefunded" \in x.effects THEN 0 ELSE x.consumed)
                        + x.extraReserved
      /\ OfToken(x) = x.tokenConsumed
  BY <1>1, <1>2, RefundHolds
<1>4. ASSUME NEW E, NEW v, v \in SessionRecs, Becomes(v, x, x.pc, E),
             E = x.effects \/ E = x.effects \cup {"extraRefunded"},
             failures' = failures \/ (failures < MaxFailures /\ failures' = failures + 1),
             "extraRefunded" \in E \/ failures' # 0
      PROVE  /\ AfterExtra(v) \in SessionRecs /\ SessionOK(AfterExtra(v), row[s], failures')
             /\ AfterExtra(v).kind = x.kind /\ OfToken(AfterExtra(v)) = OfToken(x)
             /\ OfFunding(AfterExtra(v)) =
                  OfFunding(x) - (IF "extraRefunded" \in E THEN x.extraReserved ELSE 0)
  <2>y. PICK y : y = AfterExtra(v)
    OBVIOUS
  <2>p. PICK p \in {"refundToken", "closed"} :
              /\ Becomes(AfterExtra(v), v, p, v.effects)
              /\ p = "closed" => v.tokenConsumed = 0 \/ v.playground
    BY <1>4, AfterExtraBecomes
  <2>1. v.effects = E /\ v.tokenConsumed = x.tokenConsumed /\ (v.playground <=> x.playground)
    BY <1>4 DEF Becomes, SameWho, KeptAmounts
  <2>2. Becomes(y, x, p, E)
    BY <1>4, <2>p, <2>y, <2>1, BecomesTwice
  <2>3. p = "closed" => x.tokenConsumed = 0
    BY <1>1, <2>p, <2>1
  <2>4. /\ x.effects \subseteq E /\ "tokenSettled" \notin E /\ "tokenRefunded" \notin E
        /\ "fundingRefunded" \in E <=> "fundingRefunded" \in x.effects
    BY <1>1, <1>4
  <2>5. failures' = 0 => failures = 0 /\ "extraRefunded" \in E
    BY <1>1, <1>4
  <2>6. RefundGoesOn(x, row[s], failures, y, failures', p, E)
    BY <1>0, <1>1, <2>2, <2>3, <2>4, <2>5 DEF RefundGoesOn
  <2>7. /\ y \in SessionRecs /\ SessionOK(y, row[s], failures') /\ y.kind = x.kind
        /\ OfFunding(y) =
             (IF "fundingRefunded" \in E THEN 0
              ELSE IF x.kind = "package" THEN x.preConsumed ELSE x.consumed)
             + (IF x.kind # "subscription" \/ "extraRefunded" \in E THEN 0
                ELSE x.extraReserved)
        /\ OfToken(y) = IF "tokenRefunded" \in E THEN 0 ELSE x.tokenConsumed
    BY <2>6, RefundGoesOnSession
  <2>8. OfToken(y) = OfToken(x)
    BY <1>3, <2>4, <2>7
  <2>9. OfFunding(y) = OfFunding(x) - (IF "extraRefunded" \in E THEN x.extraReserved ELSE 0)
    BY <1>1, <1>2, <1>3, <2>4, <2>7
  <2> QED BY <2>7, <2>8, <2>9, <2>y
<1>5. CASE /\ PostConsumeUserSubscriptionDelta(-x.extraReserved)
           /\ Put(s, AfterExtra(Mark(x, "extraRefunded")))
           /\ UNCHANGED <<row, failures>>
  <2>v. PICK v : v = Mark(x, "extraRefunded")
    OBVIOUS
  <2>E. PICK E : E = x.effects \cup {"extraRefunded"}
    OBVIOUS
  <2>y. PICK y : y = AfterExtra(v)
    OBVIOUS
  <2>1. "extraRefunded" \in Effects /\ "extraRefunded" \in E
    BY <2>E DEF Effects
  <2>2. Becomes(v, x, x.pc, E) /\ v \in SessionRecs
    BY <1>1, <2>1, <2>v, <2>E, MarkBecomes DEF Becomes
  <2>3. /\ ses' = [ses EXCEPT ![s] = y] /\ row' = row /\ failures' = failures
        /\ PostConsume("subscription", -x.extraReserved)
    BY <1>5, <2>v, <2>y DEF Put, PostConsumeUserSubscriptionDelta
  <2>4. /\ y \in SessionRecs /\ SessionOK(y, row[s], failures') /\ y.kind = x.kind
        /\ OfToken(y) = OfToken(x)
        /\ OfFunding(y) = OfFunding(x) - (IF "extraRefunded" \in E THEN x.extraReserved ELSE 0)
    BY <1>4, <2>E, <2>1, <2>2, <2>3, <2>y
  <2>5. OfFunding(x) \in Nat
    BY <1>1, OfIsNat, SessionFacts
  <2>6. /\ OfFunding(y) = OfFunding(x) + (-x.extraReserved) /\ -x.extraReserved \in Int
        /\ -x.extraReserved <= 0
    BY <1>1, <2>1, <2>4, <2>5
  <2>7. row' = [row EXCEPT ![s] = row[s]]
    BY <2>3, SameRow
  <2>k. PICK k : k = "subscription"
    OBVIOUS
  <2>8. /\ k = ses[s].kind /\ k # "wallet" /\ PostConsume(k, -x.extraReserved)
        /\ y.kind = k
    BY <1>2, <1>x, <2>k, <2>3, <2>4, <2>6
  <2> QED BY <1>0, <1>1, <1>x, <2>3, <2>4, <2>6, <2>7, <2>8, FundingStep
<1>6. CASE DBError /\ Put(s, AfterExtra(x))
  <2>y. PICK y : y = AfterExtra(x)
    OBVIOUS
  <2>1. /\ ses' = [ses EXCEPT ![s] = y] /\ row' = row /\ bal' = bal
        /\ failures < MaxFailures /\ failures' = failures + 1
    BY <1>6, <2>y DEF Put, DBError
  <2>2. failures' # 0
    BY <1>1, <2>1
  <2>3. Becomes(x, x, x.pc, x.effects)
    BY <1>1 DEF Becomes, SameWho, KeptAmounts
  <2>4. /\ y \in SessionRecs /\ SessionOK(y, row[s], failures') /\ y.kind = x.kind
        /\ OfToken(y) = OfToken(x)
        /\ OfFunding(y) =
             OfFunding(x) - (IF "extraRefunded" \in x.effects THEN x.extraReserved ELSE 0)
    BY <1>1, <1>4, <2>1, <2>2, <2>3, <2>y
  <2>5. OfFunding(y) = OfFunding(x)
    <3>1. OfFunding(x) \in Nat
      BY <1>1, OfIsNat
    <3> QED BY <1>2, <2>4, <3>1
  <2>6. row' = [row EXCEPT ![s] = row[s]]
    BY <2>1, SameRow
  <2> QED BY <1>0, <1>1, <1>x, <2>1, <2>4, <2>5, <2>6, QuietStep
<1> QED BY <1>5, <1>6, <1>x DEF RefundExtra

LEMMA RefundTokenInv ==
    ASSUME BSInv, NEW s \in Sessions, RefundToken(s)
    PROVE  BSInv'
<1>x. PICK x : x = ses[s]
  OBVIOUS
<1>0. x.pc = "refundToken" /\ x.pc \in RefundPcs /\ lost' = lost /\ overwrote' = overwrote /\ "closed" \in PCs
  BY <1>x DEF RefundToken, At, RefundPcs, PCs
<1>1. /\ x \in SessionRecs /\ row[s] \in RowRecs /\ failures \in Nat
      /\ RefundOK(x, row[s], failures) /\ AmountsOK(x, row[s], failures)
      /\ x.pc \notin RsvPcs /\ ~x.fundingSettled
      /\ "tokenSettled" \notin x.effects /\ "tokenRefunded" \notin x.effects
      /\ x.tokenConsumed \in Nat
  BY <1>0, <1>x, RefundNow
<1>2. /\ OfFunding(x) =
            (IF "fundingRefunded" \in x.effects THEN 0
             ELSE IF x.kind = "package" THEN x.preConsumed ELSE x.consumed)
            + (IF x.kind # "subscription" \/ "extraRefunded" \in x.effects THEN 0
               ELSE x.extraReserved)
      /\ OfToken(x) = x.tokenConsumed
  BY <1>1, RefundHolds
<1>3. ASSUME NEW E, NEW y, Becomes(y, x, "closed", E),
             E = x.effects \/ E = x.effects \cup {"tokenRefunded"},
             failures' = failures \/ (failures < MaxFailures /\ failures' = failures + 1),
             "tokenRefunded" \in E \/ failures' # 0
      PROVE  /\ y \in SessionRecs /\ SessionOK(y, row[s], failures')
             /\ y.kind = x.kind /\ OfFunding(y) = OfFunding(x)
             /\ OfToken(y) = IF "tokenRefunded" \in E THEN 0 ELSE x.tokenConsumed
  <2>1. /\ x.effects \subseteq E /\ "tokenSettled" \notin E
        /\ "fundingRefunded" \in E <=> "fundingRefunded" \in x.effects
        /\ "extraRefunded" \in E <=> "extraRefunded" \in x.effects
    BY <1>1, <1>3
  <2>2. failures' = 0 => failures = 0 /\ "tokenRefunded" \in E
    BY <1>1, <1>3
  <2>3. RefundGoesOn(x, row[s], failures, y, failures', "closed", E)
    BY <1>0, <1>1, <1>3, <2>1, <2>2 DEF RefundGoesOn
  <2>4. /\ y \in SessionRecs /\ SessionOK(y, row[s], failures') /\ y.kind = x.kind
        /\ OfFunding(y) =
             (IF "fundingRefunded" \in E THEN 0
              ELSE IF x.kind = "package" THEN x.preConsumed ELSE x.consumed)
             + (IF x.kind # "subscription" \/ "extraRefunded" \in E THEN 0
                ELSE x.extraReserved)
        /\ OfToken(y) = IF "tokenRefunded" \in E THEN 0 ELSE x.tokenConsumed
    BY <2>3, RefundGoesOnSession
  <2>5. OfFunding(y) = OfFunding(x)
    BY <1>2, <2>1, <2>4
  <2> QED BY <2>4, <2>5
<1>4. CASE /\ Take("token", -x.tokenConsumed)
           /\ Put(s, [Mark(x, "tokenRefunded") EXCEPT !.pc = "closed"])
           /\ UNCHANGED <<row, failures>>
  <2>v. PICK v : v = Mark(x, "tokenRefunded")
    OBVIOUS
  <2>E. PICK E : E = x.effects \cup {"tokenRefunded"}
    OBVIOUS
  <2>y. PICK y : y = Goto(v, "closed")
    OBVIOUS
  <2>1. "tokenRefunded" \in Effects /\ "tokenRefunded" \in E
    BY <2>E DEF Effects
  <2>2. Becomes(v, x, x.pc, E) /\ v \in SessionRecs /\ v.effects = E
    BY <1>1, <2>1, <2>v, <2>E, MarkBecomes DEF Becomes
  <2>3. Becomes(y, v, "closed", E)
    BY <1>0, <2>2, <2>y, GotoBecomes
  <2>4. Becomes(y, x, "closed", E)
    BY <2>2, <2>3, BecomesTwice
  <2>5. /\ ses' = [ses EXCEPT ![s] = y] /\ row' = row /\ failures' = failures
        /\ Take("token", -x.tokenConsumed)
    BY <1>4, <2>v, <2>y DEF Put, Goto
  <2>6. /\ y \in SessionRecs /\ SessionOK(y, row[s], failures') /\ y.kind = x.kind
        /\ OfFunding(y) = OfFunding(x)
        /\ OfToken(y) = IF "tokenRefunded" \in E THEN 0 ELSE x.tokenConsumed
    BY <1>3, <2>E, <2>1, <2>4, <2>5
  <2>7. -x.tokenConsumed \in Int /\ OfToken(y) = OfToken(x) + (-x.tokenConsumed)
    BY <1>1, <1>2, <2>1, <2>6
  <2>8. row' = [row EXCEPT ![s] = row[s]]
    BY <2>5, SameRow
  <2> QED BY <1>0, <1>1, <1>x, <2>5, <2>6, <2>7, <2>8, TokenStep
<1>5. CASE DBError /\ Put(s, [x EXCEPT !.pc = "closed"])
  <2>y. PICK y : y = Goto(x, "closed")
    OBVIOUS
  <2>1. /\ ses' = [ses EXCEPT ![s] = y] /\ row' = row /\ bal' = bal
        /\ failures < MaxFailures /\ failures' = failures + 1
    BY <1>5, <2>y DEF Put, DBError, Goto
  <2>2. failures' # 0
    BY <1>1, <2>1
  <2>3. Becomes(y, x, "closed", x.effects)
    BY <1>0, <1>1, <2>y, GotoBecomes
  <2>4. /\ y \in SessionRecs /\ SessionOK(y, row[s], failures') /\ y.kind = x.kind
        /\ OfFunding(y) = OfFunding(x)
        /\ OfToken(y) = IF "tokenRefunded" \in x.effects THEN 0 ELSE x.tokenConsumed
    BY <1>3, <2>1, <2>2, <2>3
  <2>5. OfToken(y) = OfToken(x)
    BY <1>1, <1>2, <2>4
  <2>6. row' = [row EXCEPT ![s] = row[s]]
    BY <2>1, SameRow
  <2> QED BY <1>0, <1>1, <1>x, <2>1, <2>4, <2>5, <2>6, QuietStep
<1> QED BY <1>4, <1>5, <1>x DEF RefundToken

-----------------------------------------------------------------------------
(* The other steps, and the initial state.                                 *)

LEMMA UnchangedInv ==
    ASSUME BSInv, UNCHANGED bsVars
    PROVE  BSInv'
<1>1. bal' = bal /\ row' = row /\ ses' = ses /\ lost' = lost /\ overwrote' = overwrote /\ failures' = failures
      /\ overwrote' = overwrote
  BY DEF bsVars
<1>2. \A a \in Accounts : HeldOn(a)' = HeldOn(a)
  BY <1>1 DEF HeldOn, TokenHeld, FundingHeld
<1>3. BSTypes'
  BY <1>1 DEF BSInv, BSTypes
<1>4. AccountsOK'
  BY <1>1, <1>2 DEF BSInv, AccountsOK, Sound
<1> QED BY <1>1, <1>3, <1>4 DEF BSInv

\* A crash moves nothing: what its sessions held stays taken.
LEMMA CrashInv ==
    ASSUME BSInv, Crash
    PROVE  BSInv'
<1>1. /\ bal' = bal /\ row' = row /\ ses' = ses /\ failures' = failures + 1
      /\ failures < MaxFailures /\ lost' \subseteq lost \cup Sessions /\ overwrote' = overwrote
  BY DEF Crash
<1>2. failures \in Nat /\ MaxFailures \in Nat /\ lost \subseteq Sessions
  BY BSConstants DEF BSInv, BSTypes
<1>3. failures' \in 0..MaxFailures /\ failures' > 0 /\ failures' # 0 /\ failures <= failures'
      /\ failures' \in Nat
  BY <1>1, <1>2
<1>4. BSTypes'
  BY <1>1, <1>2, <1>3 DEF BSInv, BSTypes
<1>5. \A a \in Accounts : HeldOn(a)' = HeldOn(a)
  BY <1>1 DEF HeldOn, TokenHeld, FundingHeld
<1>6. AccountsOK'
  BY <1>1, <1>3, <1>5 DEF BSInv, AccountsOK, Sound
<1>7. ASSUME NEW t \in Sessions PROVE SessionOK(ses'[t], row'[t], failures')
  <2>1. ses[t] \in SessionRecs /\ row[t] \in RowRecs /\ SessionOK(ses[t], row[t], failures)
    BY SessionFacts
  <2> QED BY <1>1, <1>2, <1>3, <2>1, MoreFailures
<1> QED BY <1>4, <1>6, <1>7 DEF BSInv

LEMMA NoSessionHolds ==
    /\ NoSession \in SessionRecs /\ NoRow \in RowRecs
    /\ OfFunding(NoSession) = 0 /\ OfToken(NoSession) = 0
    /\ \A n : SessionOK(NoSession, NoRow, n)
<1>1. 0 \in 0..(RefundAttempts - 1)
  BY BSConstants
<1>2. NoSession \in SessionRecs
  BY <1>1 DEF NoSession, SessionRecs, PCs, PrePcs, Fundings
<1>3. NoRow \in RowRecs
  BY DEF NoRow, RowRecs
<1>4. OfFunding(NoSession) = 0 /\ OfToken(NoSession) = 0
  BY DEF OfFunding, OfToken, NoSession
<1>5. PreOK(NoSession, NoRow)
  BY DEF PreOK, Untouched, NoSession
<1>6. NoSession.pc \in PrePcs /\ NoSession.pc # "saveFunding"
  BY DEF NoSession, PrePcs
<1>7. ASSUME NEW n PROVE SessionOK(NoSession, NoRow, n)
  BY <1>5, <1>6, Phases
<1> QED BY <1>2, <1>3, <1>4, <1>7

LEMMA InitInv == BSInit => BSInv
<1> SUFFICES ASSUME BSInit PROVE BSInv
  OBVIOUS
<1>1. /\ bal = Initial /\ lost = {} /\ failures = 0 /\ overwrote = {}
      /\ \A s \in Sessions : ses[s] = NoSession /\ row[s] = NoRow
      /\ ses \in [Sessions -> SessionRecs] /\ row \in [Sessions -> RowRecs]
  BY NoSessionHolds DEF BSInit
<1>2. BSTypes
  <2>1. bal \in [Accounts -> Int] /\ InTotals(bal)
    BY <1>1, BSConstants DEF Accounts, Fundings, InTotals
  <2> QED BY <1>1, <2>1, BSConstants DEF BSTypes
<1>3. ASSUME NEW s \in Sessions PROVE SessionOK(ses[s], row[s], failures)
  BY <1>1, NoSessionHolds
<1>4. ASSUME NEW a \in Accounts
      PROVE  IsFiniteSet(Units(HeldOn(a), Sessions)) /\ Total(HeldOn(a), Sessions) = 0
  <2>1. \A s \in Sessions : HeldOn(a)[s] = 0
    <3> SUFFICES ASSUME NEW s \in Sessions PROVE HeldOn(a)[s] = 0
      OBVIOUS
    <3>1. HeldOn(a)[s] = Of(a, NoSession)
      BY <1>1, HeldIsOf
    <3> QED BY <3>1, NoSessionHolds DEF Of
  <2>2. Units(HeldOn(a), Sessions) = {}
    BY <2>1 DEF Units
  <2> QED BY <2>2, FS_EmptySet DEF Total
<1>5. AccountsOK
  <2> SUFFICES ASSUME NEW a \in Accounts
               PROVE  /\ IsFiniteSet(Units(HeldOn(a), Sessions))
                      /\ bal[a] + Total(HeldOn(a), Sessions) <= Initial[a]
                      /\ bal[a] + Total(HeldOn(a), Sessions) = Initial[a]
    BY DEF AccountsOK
  <2>1. Initial[a] \in Nat
    BY BSConstants
  <2> QED BY <1>1, <1>4, <2>1
<1> QED BY <1>2, <1>3, <1>5 DEF BSInv

LEMMA ProgressInv ==
    ASSUME BSInv, NEW s \in Sessions, Progress(s)
    PROVE  BSInv'
BY TrySourceInv, CheckTokenInv, TakeTokenInv, TakeFundingInv, ReadSubscriptionInv,
   SaveSubscriptionInv, UndoTokenInv,
   ReserveFundingInv, ReserveCheckTokenInv, ReserveTakeTokenInv,
   rollbackFundingReserveInv, rollbackTokenReserveInv,
   SettleFundingInv, SettleTokenInv, recordValuePackageUsageInv, RefundInv, CloseInv,
   RefundWalletInv, RefundSubscriptionInv, RefundExtraInv, RefundTokenInv DEF Progress

LEMMA UpstreamInv ==
    ASSUME BSInv, NEW s \in Sessions, Upstream(s)
    PROVE  BSInv'
<1>1. ASSUME NEW q \in Quotas, ReserveRealtime(s, q) PROVE BSInv'
  BY <1>1, ReserveRealtimeInv
<1>2. ASSUME NEW q \in Quotas, Settle(s, q) PROVE BSInv'
  BY <1>2, SettleInv
<1> QED BY <1>1, <1>2, UpstreamFailsInv DEF Upstream

LEMMA NextInv == BSInv /\ [BSNext]_bsVars => BSInv'
<1> SUFFICES ASSUME BSInv, [BSNext]_bsVars PROVE BSInv'
  OBVIOUS
<1>1. ASSUME NEW s \in Sessions, Begin(s) \/ Upstream(s) \/ Progress(s) PROVE BSInv'
  BY <1>1, BeginInv, UpstreamInv, ProgressInv
<1>2. CASE Crash
  BY <1>2, CrashInv
<1>3. CASE UNCHANGED bsVars
  BY <1>3, UnchangedInv
<1> QED BY <1>1, <1>2, <1>3 DEF BSNext, AllEnded

-----------------------------------------------------------------------------
(* What a session that has ended holds is what its request costs.          *)

ChargeOf(a, x) ==
    IF (a = "token" /\ x.playground) \/ (a # "token" /\ a # x.kind) THEN 0
    ELSE IF x.settled THEN x.actual
    ELSE IF x.refunded THEN 0
    ELSE IF a = "token" THEN x.tokenConsumed ELSE x.preConsumed

LEMMA EndedSession ==
    ASSUME NEW x \in SessionRecs, NEW w, SessionOK(x, w, 0), x.pc \in {"rejected", "closed"},
           NEW a
    PROVE  Of(a, x) = ChargeOf(a, x)
<1>0. /\ x.actual \in Nat /\ x.consumed \in Nat /\ x.preConsumed \in Nat
      /\ x.tokenConsumed \in Nat /\ x.extraReserved \in Nat
  BY DEF SessionRecs
<1>1. x.pc \notin RsvPcs
  BY DEF RsvPcs
<1>2. /\ x.pc \notin {"rsvCheckToken", "rsvTakeToken", "rsvUndoFunding"}
      /\ x.pc \notin {"rsvFunding", "rsvUndoToken"}
  OBVIOUS
<1>3. CASE x.pc = "rejected"
  <2>1. PreOK(x, w)
    BY <1>3 DEF SessionOK, PrePcs
  <2>2. /\ ~x.fundingSettled /\ ~x.settled /\ ~x.refunded /\ x.effects = {} /\ x.consumed = 0
        /\ x.preConsumed = 0 /\ x.extraReserved = 0 /\ x.tokenConsumed = 0
    BY <1>3, <2>1 DEF PreOK, Untouched
  <2>3. OfFunding(x) = 0 /\ OfToken(x) = 0
    BY <1>2, <2>2 DEF OfFunding, OfToken
  <2> QED BY <2>2, <2>3 DEF Of, ChargeOf
<1>4. CASE x.pc = "closed"
  <2>1. /\ AmountsOK(x, w, 0)
        /\ \/ SettledOK(x, w, 0)
           \/ RefundOK(x, w, 0)
           \/ Untouched(x)
    BY <1>4 DEF SessionOK, PrePcs
  <2>2. /\ x.tokenConsumed = IF x.playground THEN 0 ELSE x.preConsumed
        /\ x.kind # "wallet" => x.preConsumed = x.consumed + x.extraReserved
        /\ x.kind = "wallet" => x.consumed = x.preConsumed
    BY <1>0, <1>2, <2>1 DEF AmountsOK
  <2>3. ASSUME ~x.fundingSettled, x.effects = {}
        PROVE  OfFunding(x) = x.preConsumed /\ OfToken(x) = x.tokenConsumed
    <3>1. /\ OfFunding(x) = (IF x.kind = "package" THEN x.preConsumed ELSE x.consumed)
                            + (IF x.kind # "subscription" THEN 0 ELSE x.extraReserved)
          /\ OfToken(x) = x.tokenConsumed
      BY <1>1, <2>3, RefundHolds
    <3>2. x.kind \in {"wallet", "subscription", "package"}
      BY DEF SessionRecs, Fundings
    <3> QED BY <1>0, <2>2, <3>1, <3>2
  <2>4. CASE SettledOK(x, w, 0)
    <3>1. /\ x.settled /\ (~x.fundingSettled => x.actual = x.preConsumed /\ x.effects = {})
          /\ x.playground => x.effects = {}
          /\ x.fundingSettled /\ ~x.playground => "tokenSettled" \in x.effects
      BY <2>4 DEF SettledOK
    <3>2. OfFunding(x) = x.actual
      BY <2>3, <3>1 DEF OfFunding
    <3>3. x.playground => OfToken(x) = 0
      BY <1>0, <1>2, <2>2, <3>1 DEF OfToken
    <3>4. ~x.playground => OfToken(x) = x.actual
      <4>1. CASE x.fundingSettled
        BY <3>1, <4>1 DEF OfToken
      <4>2. CASE ~x.fundingSettled
        BY <2>2, <2>3, <3>1, <4>2
      <4> QED BY <4>1, <4>2
    <3> QED BY <3>1, <3>2, <3>3, <3>4 DEF Of, ChargeOf
  <2>5. CASE RefundOK(x, w, 0)
    <3>1. /\ x.refunded /\ ~x.settled /\ ~x.fundingSettled /\ "tokenSettled" \notin x.effects
          /\ "fundingRefunded" \in x.effects
          /\ x.kind = "subscription" /\ x.extraReserved > 0 => "extraRefunded" \in x.effects
          /\ x.tokenConsumed > 0 => "tokenRefunded" \in x.effects
      BY <1>4, <2>5 DEF RefundOK
    <3>2. /\ OfFunding(x) = 0 + (IF x.kind # "subscription" \/ "extraRefunded" \in x.effects THEN 0
                                 ELSE x.extraReserved)
          /\ OfToken(x) = IF "tokenRefunded" \in x.effects THEN 0 ELSE x.tokenConsumed
      BY <1>1, <3>1, RefundHolds
    <3>3. OfFunding(x) = 0 /\ OfToken(x) = 0
      BY <1>0, <3>1, <3>2
    <3> QED BY <3>1, <3>3 DEF Of, ChargeOf
  <2>6. CASE Untouched(x)
    <3>1. ~x.fundingSettled /\ ~x.settled /\ ~x.refunded /\ x.effects = {}
      BY <2>6 DEF Untouched
    <3>2. OfFunding(x) = x.preConsumed /\ OfToken(x) = x.tokenConsumed
      BY <2>3, <3>1
    <3> QED BY <2>2, <3>1, <3>2 DEF Of, ChargeOf
  <2> QED BY <2>1, <2>4, <2>5, <2>6
<1> QED BY <1>3, <1>4

LEMMA InvFinalBill == BSInv => FinalBill
<1> SUFFICES ASSUME BSInv, failures = 0, \A s \in Sessions : Ended(s), NEW a \in SoundAccounts
             PROVE  bal[a] = Initial[a] - Total([s \in Sessions |-> Charge(s, a)], Sessions)
  BY DEF FinalBill
<1>a. a \in Accounts /\ Sound(a)
  BY DEF SoundAccounts, Sound
<1>c. PICK c : c = [s \in Sessions |-> Charge(s, a)]
  OBVIOUS
<1>1. lost = {}
  BY DEF BSInv, BSTypes
<1>2. ASSUME NEW s \in Sessions PROVE HeldOn(a)[s] = c[s]
  <2>x. PICK x : x = ses[s]
    OBVIOUS
  <2>1. x \in SessionRecs /\ SessionOK(x, row[s], 0) /\ x.pc \in {"rejected", "closed"}
    BY <1>1, <2>x, SessionFacts DEF Ended
  <2>2. Of(a, x) = ChargeOf(a, x)
    BY <2>1, EndedSession
  <2>3. Charge(s, a) = ChargeOf(a, x)
    BY <2>x DEF Charge, ChargeOf
  <2> QED BY <1>c, <2>x, <2>2, <2>3, HeldIsOf
<1>3. /\ IsFiniteSet(Units(HeldOn(a), Sessions))
      /\ bal[a] + Total(HeldOn(a), Sessions) = Initial[a]
  BY <1>a DEF BSInv, AccountsOK
<1>4. Total(HeldOn(a), Sessions) = Total(c, Sessions)
  BY <1>2, SameTotal
<1>5. Total(HeldOn(a), Sessions) \in Nat
  BY <1>3, FS_CardinalityType DEF Total
<1>6. bal[a] \in Int /\ Initial[a] \in Nat
  BY <1>a, BSConstants DEF BSInv, BSTypes
<1> QED BY <1>c, <1>3, <1>4, <1>5, <1>6

LEMMA InvUsageRecordAgrees == BSInv => UsageRecordAgrees
<1> SUFFICES ASSUME BSInv, NEW s \in Sessions, ses[s].kind = "package",
                    row[s].status = "consumed"
             PROVE  row[s].quota = FundingHeld(s)
  BY DEF UsageRecordAgrees
<1>x. PICK x : x = ses[s]
  OBVIOUS
<1>1. SessionOK(x, row[s], failures)
  BY <1>x, SessionFacts
<1>2. x.pc \notin PrePcs
  BY <1>1 DEF SessionOK, PreOK, NoRow
<1>3. AmountsOK(x, row[s], failures)
  BY <1>1, <1>2 DEF SessionOK
<1>4. row[s].quota = OfFunding(x)
  BY <1>x, <1>3 DEF AmountsOK
<1> QED BY <1>x, <1>4, HeldIsOf

LEMMA InvTypeOK == BSInv => BSTypeOK
<1> SUFFICES ASSUME BSInv PROVE BSTypeOK
  OBVIOUS
<1>1. ASSUME NEW s \in Sessions
      PROVE  /\ ses[s].kind \in Fundings
             /\ ses[s].attempts \in 0..(RefundAttempts - 1)
             /\ {ses[s].amount, ses[s].actual, ses[s].extra, ses[s].consumed,
                 ses[s].preConsumed, ses[s].tokenConsumed, ses[s].extraReserved} \subseteq Nat
  <2>1. ses[s] \in SessionRecs
    BY SessionFacts
  <2> QED BY <2>1 DEF SessionRecs
<1>2. /\ bal \in [Accounts -> Int] /\ overwrote \subseteq Sessions
      /\ \A k \in {"subscription", "package"} : Initial[k] > 0 => bal[k] >= 0
      /\ row \in [Sessions -> RowRecs] /\ lost \subseteq Sessions /\ failures \in 0..MaxFailures
  BY DEF BSInv, BSTypes, InTotals
<1> QED BY <1>1, <1>2 DEF BSTypeOK, RowRecs

-----------------------------------------------------------------------------
(* Theorems.                                                               *)

\* The inductive invariant: where each session is in preConsume, ReserveRealtime,
\* Settle or Refund says what its fields amount to, and an account and what the
\* sessions hold of it never exceed what the user had; of the regular subscription
\* this is known only until PreConsumeUserSubscription saves over an unseen write.
THEOREM BSInvariant == BSSpec => []BSInv
<1>1. BSInit => BSInv
  BY InitInv
<1>2. BSInv /\ [BSNext]_bsVars => BSInv'
  BY NextInv
<1> QED BY <1>1, <1>2, PTL DEF BSSpec

\* BillingSession's fields stay natural numbers and AmountUsed of a subscription
\* row never exceeds its total, however many sessions read, save, reserve and
\* settle on it.
THEOREM BSTypeCorrect == BSSpec => []BSTypeOK
BY BSInvariant, InvTypeOK, PTL

\* No interleaving of preConsume, ReserveRealtime, Settle and Refund, no failed
\* write, no repeated refund and no crash creates quota on the wallet, the token
\* or a value package, nor on a regular subscription no pre-consume overwrote.
THEOREM QuotaIsNeverCreated == BSSpec => []NoFreeQuota
<1>1. BSInv => NoFreeQuota
  BY DEF BSInv, AccountsOK, NoFreeQuota, SoundAccounts, Sound
<1> QED BY <1>1, BSInvariant, PTL

\* While no write fails, the sessions account for every unit of every account, the
\* regular subscription only as long as no pre-consume has overwritten its row.
THEOREM QuotaIsConserved == BSSpec => []Conserved
<1>1. BSInv => Conserved
  BY DEF BSInv, AccountsOK, Conserved, SoundAccounts, Sound
<1> QED BY <1>1, BSInvariant, PTL

\* The usage record of a value package says what its session holds, so a refund
\* from the record (RefundSubscriptionPreConsume) gives back exactly that.
THEOREM RecordsAgree == BSSpec => []UsageRecordAgrees
BY BSInvariant, InvUsageRecordAgrees, PTL

\* When all requests have ended and no write has failed, the accounts are down by
\* the actual cost of what was settled and the reservation of what was neither
\* settled nor refunded, and by nothing else; a regular subscription only if no
\* pre-consume has overwritten its row.
THEOREM BillIsExact == BSSpec => []FinalBill
BY BSInvariant, InvFinalBill, PTL
=============================================================================
