----------------------------- MODULE LdxpSessions -----------------------------
(***************************************************************************)
(* Purchases through the LDXP shop: a session row, the browser worker that *)
(* shows the shop's QR code and reports the payment, the mail poller that  *)
(* posts the shop's mail, and the verification that turns one paid shop    *)
(* order into a balance top-up or a value package                          *)
(* (service/ldxp_session.go, ldxp_mail.go, ldxp_verify.go,                 *)
(* model/ldxp_topup.go, the paid codes of model/redemption.go).            *)
(*                                                                         *)
(* Every SQL statement or transaction is one step; a request that runs     *)
(* several (record, match, verify, complete, finish) is a call that other  *)
(* calls interleave with.  ldxpVerifyMu makes the verification of  *)
(* one process exclusive; the application runs as one process.             *)
(***************************************************************************)
EXTENDS Naturals, FiniteSets

CONSTANTS Users,
          Requests,     \* the purchases asked for: pairs of a user and a purpose
          Sessions,     \* ids of session rows: 1 .. n, created in that order
          ShopOrders,   \* order numbers of the shop, each with one card
          None,         \* no order, no session, no user
          MaxCalls,     \* requests that run at a time (bound)
          MaxFaults     \* failed transactions and crashes (bound)

ASSUME LSConstants == /\ Sessions \subseteq Nat /\ IsFiniteSet(Sessions)
                      /\ None \notin Users \cup Sessions \cup ShopOrders
                      /\ {MaxCalls, MaxFaults} \subseteq Nat

VARIABLES mailRequired, \* LDXP_REQUIRE_MAIL_MATCH
          aborts,       \* a failed statement aborts its transaction (PostgreSQL)
          session,      \* rows of ldxp_topup_sessions, with what they gave
          shop,         \* shop[o]: the order at the shop (external)
          events,       \* orders with a row in ldxp_mail_events
          matched,      \* matched[o]: MatchedSessionId of that row, or None
          card,         \* card[o]: the redemption code the order delivers
          topUps,       \* topUps[o]: user of the top_ups row "ldxp:" + o, or None
          calls,        \* the running requests
          faults        \* faults so far

config == <<mailRequired, aborts>>
benefits == <<card, topUps>>
vars == <<config, session, shop, events, matched, benefits, calls, faults>>

-----------------------------------------------------------------------------
Purposes == {"topup", "value_package"}
OpenStatuses == {"created", "worker_claimed", "qr_ready"}
EndedStatuses == {"canceled", "expired", "worker_failed"}
Statuses == OpenStatuses \cup EndedStatuses \cup
            {"worker_paid", "verify_failed", "verified", "redeem_failed", "success"}

NoSession == [user |-> None, purpose |-> "topup", status |-> "canceled",
              late |-> FALSE, order |-> None, amountOk |-> FALSE,
              reported |-> FALSE, mail |-> FALSE, verified |-> FALSE,
              credited |-> 0]

\* A new row.  late: expired_time has passed; amountOk: isLdxpPaidAmountAcceptable
\* of what the shop asked; reported: the worker's card and status text are
\* stored; mail: hasLdxpMailAttachment; verified: VerifiedTime > 0; credited:
\* times the session itself gave its quota or package.
NewSession(u, p) == [NoSession EXCEPT !.user = u, !.purpose = p, !.status = "created"]

\* A session is left alone from now on; its expired_time matters no longer.
Ends(r, status) == [r EXCEPT !.status = status, !.late = FALSE]

Created == {s \in Sessions : session[s].user # None}

\* The code the shop's order delivers: who redeemed it, whether by hand, and the
\* sessions that were verified before.
FreshCard == [user |-> None, byHand |-> FALSE, verified |-> {}]

\* What a request still has to do.  Requests with the same step left to do are
\* one element: the second would repeat what the first does.
Calls == [pc : {"match"}, session : {None}, order : ShopOrders] \cup
         [pc : {"verify", "complete", "finish"}, session : Sessions, order : {None}]

Init == /\ mailRequired \in BOOLEAN
        /\ aborts \in IF mailRequired THEN {TRUE} ELSE BOOLEAN
        /\ session = [s \in Sessions |-> NoSession]
        /\ shop = [o \in ShopOrders |-> "unused"]
        /\ events = {}
        /\ matched = [o \in ShopOrders |-> None]
        /\ card = [o \in ShopOrders |-> FreshCard]
        /\ topUps = [o \in ShopOrders |-> None]
        /\ calls = {}
        /\ faults = 0

-----------------------------------------------------------------------------
(* The user and the browser worker.                                        *)

\* activeLdxpSessionStatuses; "redeemed" is never stored.
Active(s) == /\ session[s].status \in OpenStatuses \cup {"worker_paid", "verified"}
             /\ ~session[s].late

\* An active session of that purpose is returned instead, and nothing changes.
CreateSession(u, p) ==
    /\ <<u, p>> \in Requests
    /\ ~ \E s \in Created : Active(s) /\ session[s].user = u /\ session[s].purpose = p
    /\ \E s \in Sessions \ Created :
         /\ \A r \in Sessions \ Created : s <= r
         /\ session' = [session EXCEPT ![s] = NewSession(u, p)]
    /\ UNCHANGED <<config, shop, events, matched, benefits, calls, faults>>

\* The clock passes a session's expired_time; nobody looks at that of a session
\* that is not active.
TimePasses(s) ==
    /\ s \in Created /\ Active(s)
    /\ session' = [session EXCEPT ![s].late = TRUE]
    /\ UNCHANGED <<config, shop, events, matched, benefits, calls, faults>>

\* Mutant: a session may be canceled for as long as it is active.
CancelActiveSession(s) ==
    /\ s \in Created /\ Active(s)
    /\ session' = [session EXCEPT ![s] = Ends(@, "canceled")]
    /\ UNCHANGED <<config, shop, events, matched, benefits, calls, faults>>
CancelLdxpTopupSession(s) ==
    /\ session[s].status \in OpenStatuses
    /\ session' = [session EXCEPT ![s] = Ends(@, "canceled")]
    /\ UNCHANGED <<config, shop, events, matched, benefits, calls, faults>>

\* MarkExpiredLdxpTopupSessions, as every claim of the worker begins with.
Expired(r) == IF r.status \in OpenStatuses /\ r.late
                THEN Ends(r, "expired") ELSE r

\* ClaimNextLdxpTopupSession, and claims that find nothing (or a QR page to watch).
Claimable(s) == session[s].status = "created" /\ ~session[s].late

ClaimLdxpTopupSession ==
    /\ session' = [s \in Sessions |->
                     IF Claimable(s) /\ \A r \in Sessions : Claimable(r) => s <= r
                       THEN [session[s] EXCEPT !.status = "worker_claimed"]
                       ELSE Expired(session[s])]
    /\ UNCHANGED <<config, shop, events, matched, benefits, calls, faults>>

\* The worker opened the shop's payment page for order o.
RecordLdxpQr(s, o, ok) ==
    /\ session[s].status \in {"worker_claimed", "qr_ready"}
    /\ session[s].order \in {None, o}
    /\ session' = [session EXCEPT ![s].status = "qr_ready", ![s].order = o,
                                  ![s].amountOk = ok]
    /\ shop' = [shop EXCEPT ![o] = IF @ = "unused" THEN "open" ELSE @]
    /\ UNCHANGED <<config, events, matched, benefits, calls, faults>>

\* The customer pays (external).
CustomerPays(o) ==
    /\ shop[o] = "open"
    /\ shop' = [shop EXCEPT ![o] = "paid"]
    /\ UNCHANGED <<config, session, events, matched, benefits, calls, faults>>

Match(o) == [pc |-> "match", session |-> None, order |-> o]
Step(pc, s) == [pc |-> pc, session |-> s, order |-> None]

Begin(x) == Cardinality(calls) < MaxCalls /\ calls' = calls \cup {x}
Continue(c, x) == calls' = (calls \ {c}) \cup {x}
Return(c) == calls' = calls \ {c}

\* The worker saw the paid page: the row is updated, then verified.
RecordLdxpWorkerResult(s) ==
    /\ session[s].status = "qr_ready" /\ shop[session[s].order] = "paid"
    /\ session' = [session EXCEPT ![s].status = "worker_paid", ![s].reported = TRUE]
    /\ Begin(Step("verify", s))
    /\ UNCHANGED <<config, shop, events, matched, benefits, faults>>

RecordLdxpWorkerError(s) ==
    /\ session[s].status \in {"worker_claimed", "qr_ready"}
    /\ session' = [session EXCEPT ![s] = Ends(@, "worker_failed")]
    /\ UNCHANGED <<config, shop, events, matched, benefits, calls, faults>>

-----------------------------------------------------------------------------
(* The mail poller, which runs where mail is required.  A mail is posted   *)
(* again for as long as it is recent.                                      *)

WorkerRecordLdxpMailEvent(o) ==
    /\ mailRequired /\ shop[o] = "paid"
    /\ events' = events \cup {o}
    /\ Begin(Match(o))
    /\ UNCHANGED <<config, session, shop, matched, benefits, faults>>

\* Mutant: a session whose payment was just reported is not looked for.
MatchableLater(s, o) == session[s].order = o /\ session[s].status = "verify_failed"
Matchable(s, o) == session[s].order = o /\ session[s].status \in {"worker_paid", "verify_failed"}

\* The transaction of TryMatchLdxpMailEvent: which of several sessions it takes
\* depends on their update times.
Attachable(s, o) == ~session[s].mail /\ matched[o] = None

MatchMail(c, s) ==
    LET o == c.order IN
    /\ c.pc = "match" /\ Matchable(s, o)
    /\ \/ /\ Attachable(s, o)
          /\ session' = [session EXCEPT ![s].mail = TRUE]
          /\ matched' = [matched EXCEPT ![o] = s]
          /\ Continue(c, Step("verify", s))
       \/ /\ session[s].mail /\ matched[o] = s
          /\ Continue(c, Step("verify", s))
          /\ UNCHANGED <<session, matched>>
       \/ /\ ~Attachable(s, o) /\ ~(session[s].mail /\ matched[o] = s)
          /\ Return(c)
          /\ UNCHANGED <<session, matched>>
    /\ UNCHANGED <<config, shop, events, benefits, faults>>

MatchNothing(c) ==
    /\ c.pc = "match" /\ ~ \E s \in Sessions : Matchable(s, c.order)
    /\ Return(c)
    /\ UNCHANGED <<config, session, shop, events, matched, benefits, faults>>

\* AdminRetryLdxpTopupVerify: any session, in any status.
AdminRetryLdxpTopupVerify(s) ==
    /\ s \in Created
    /\ Begin(Step("verify", s))
    /\ UNCHANGED <<config, session, shop, events, matched, benefits, faults>>

-----------------------------------------------------------------------------
(* tryVerifyAndRedeemLdxpSession.                                          *)

\* ldxpVerifyMu is held from the verification to the end of the settlement.
Settling == {c \in calls : c.pc \in {"complete", "finish"}}
\* Mutant: the mutex is released before the settlement.
MutexFreeEarly == TRUE
MutexFree == Settling = {}

AlreadyRedeemed(r) == r.status = "success"

\* getLdxpVerifyMailEventTx finds no event and none is attached: wait for it.
WaitsForMail(r) == mailRequired /\ r.order \notin events

\* VerifyLdxpWorkerPaidFields, VerifyLdxpSessionFields.  The second compares the
\* price in the mail instead of the worker's; both are the price of the one shop
\* order.  A mail without a readable price, which the code lets pass, is left out.
\* Mutant: the worker's status text is not checked.
FieldsPresent(r) == r.order # None /\ r.amountOk
FieldsOK(r) == r.order # None /\ r.reported /\ r.amountOk

\* rejectDuplicateSuccessfulLdxpSessionTx (an order and its card go together).
Duplicate(s) == \E r \in Sessions \ {s} : /\ session[r].status = "success"
                                          /\ session[r].order = session[s].order

\* Mutant: duplicates are not looked for.
PassesFields(s) == FieldsOK(session[s])
Passes(s) == FieldsOK(session[s]) /\ ~Duplicate(s)

\* persistLdxpVerified: the first verification's time is kept, and the mail's
\* fields are copied from the event.
Verified(r) == [r EXCEPT !.status = "verified", !.verified = TRUE,
                         !.mail = @ \/ mailRequired]
VerifyFailed(r) == [Ends(r, "verify_failed") EXCEPT !.mail = @ \/ mailRequired]
RedeemFailed(r) == Ends(Verified(r), "redeem_failed")
Succeeded(r) == Ends(Verified(r), "success")
Credited(r) == [r EXCEPT !.credited = @ + 1]

VerifyBegins(c) == c.pc = "verify" /\ MutexFree

VerifyChangesNothing(c) ==
    /\ VerifyBegins(c)
    /\ \/ AlreadyRedeemed(session[c.session])
       \/ WaitsForMail(session[c.session])
    /\ Return(c)
    /\ UNCHANGED <<config, session, shop, events, matched, benefits, faults>>

VerifyGoesOn(c) == /\ VerifyBegins(c)
                   /\ ~AlreadyRedeemed(session[c.session])
                   /\ ~WaitsForMail(session[c.session])

VerifyRejects(c) ==
    LET s == c.session IN
    /\ VerifyGoesOn(c) /\ ~Passes(s)
    /\ session' = [session EXCEPT ![s] = VerifyFailed(@)]
    /\ Return(c)
    /\ UNCHANGED <<config, shop, events, matched, benefits, faults>>

\* A value package: the session is verified, and settled in later transactions.
VerifyPackage(c) ==
    LET s == c.session IN
    /\ VerifyGoesOn(c) /\ Passes(s) /\ session[s].purpose = "value_package"
    /\ session' = [session EXCEPT ![s] = Verified(@)]
    /\ Continue(c, Step("complete", s))
    /\ UNCHANGED <<config, shop, events, matched, benefits, faults>>

VerifyTopUp(c) == /\ VerifyGoesOn(c) /\ Passes(c.session)
                  /\ session[c.session].purpose = "topup"

\* With mail, the card is redeemed for the session's user (claimRedemptionCodeTx).
RedeemCard(c) ==
    LET s == c.session
        o == session[s].order IN
    /\ VerifyTopUp(c) /\ mailRequired /\ card[o].user = None
    /\ card' = [card EXCEPT ![o].user = session[s].user]
    /\ session' = [session EXCEPT ![s] = Credited(Succeeded(@))]
    /\ Return(c)
    /\ UNCHANGED <<config, shop, events, matched, topUps, faults>>

\* The card is used: recoverLdxpSameUserUsedRedemptionTx accepts it when the
\* same user redeemed it at or after VerifiedTime (times are in seconds, so a
\* first verification in the second of the redemption may accept it too).
\* Mutant: whoever redeemed it.
RecoveredAlways(s) == {TRUE}
Recovered(s) ==
    LET used == card[session[s].order]
        own == used.user = session[s].user
    IN  {recovered \in BOOLEAN :
           /\ own /\ s \in used.verified => recovered
           /\ recovered => own /\ (s \in used.verified \/ ~session[s].verified)}

UsedCard(c) ==
    LET s == c.session
        o == session[s].order IN
    /\ VerifyTopUp(c) /\ mailRequired /\ card[o].user # None
    /\ \E recovered \in Recovered(s) :
         session' = [session EXCEPT ![s] = IF recovered THEN Succeeded(@) ELSE RedeemFailed(@)]
    /\ Return(c)
    /\ UNCHANGED <<config, shop, events, matched, benefits, faults>>

\* A statement of the redemption fails: back to the savepoint, the failure is kept.
RedeemCardFails(c) ==
    LET s == c.session IN
    /\ VerifyTopUp(c) /\ mailRequired /\ faults < MaxFaults
    /\ session' = [session EXCEPT ![s] = RedeemFailed(@)]
    /\ faults' = faults + 1
    /\ Return(c)
    /\ UNCHANGED <<config, shop, events, matched, benefits>>

\* Without mail: directTopUpLdxpSessionTx.
DirectTopUp(c) ==
    LET s == c.session
        o == session[s].order IN
    /\ VerifyTopUp(c) /\ ~mailRequired
    /\ \/ /\ topUps[o] = None
          /\ topUps' = [topUps EXCEPT ![o] = session[s].user]
          /\ session' = [session EXCEPT ![s] = Credited(Succeeded(@))]
       \/ /\ topUps[o] # None
          /\ session' = [session EXCEPT ![s] = IF topUps[o] = session[s].user
                                                 THEN Succeeded(@) ELSE RedeemFailed(@)]
          /\ UNCHANGED topUps
    /\ Return(c)
    /\ UNCHANGED <<config, shop, events, matched, card, faults>>

\* A statement of it fails where that does not abort the transaction (MySQL,
\* SQLite).  There is no savepoint: the failure is committed together with what
\* the statements before it did, at most the top_ups row, or that and the quota.
DirectTopUpFails(c) ==
    LET s == c.session
        o == session[s].order IN
    /\ VerifyTopUp(c) /\ ~mailRequired /\ ~aborts /\ faults < MaxFaults
    /\ faults' = faults + 1
    /\ \/ /\ session' = [session EXCEPT ![s] = RedeemFailed(@)]
          /\ UNCHANGED topUps
       \/ /\ topUps[o] = None
          /\ topUps' = [topUps EXCEPT ![o] = session[s].user]
          /\ \/ session' = [session EXCEPT ![s] = RedeemFailed(@)]
             \/ session' = [session EXCEPT ![s] = Credited(RedeemFailed(@))]
    /\ Return(c)
    /\ UNCHANGED <<config, shop, events, matched, card>>

\* A value package's settlement: CompleteValuePackageOrder gives the package
\* unless the order is already complete, or refuses the purchase.
CompleteValuePackageOrder(c) ==
    LET s == c.session IN
    /\ c.pc = "complete"
    /\ session' = [session EXCEPT ![s] = IF @.credited = 0 THEN Credited(@) ELSE @]
    /\ Continue(c, Step("finish", s))
    /\ UNCHANGED <<config, shop, events, matched, benefits, faults>>

PurchaseRefused(c) ==
    LET s == c.session IN
    /\ c.pc = "complete" /\ session[s].credited = 0
    /\ session' = [session EXCEPT ![s] = RedeemFailed(@)]
    /\ Return(c)
    /\ UNCHANGED <<config, shop, events, matched, benefits, faults>>

FinishSettlement(c) ==
    LET s == c.session IN
    /\ c.pc = "finish"
    /\ session' = [session EXCEPT ![s] = Succeeded(@)]
    /\ Return(c)
    /\ UNCHANGED <<config, shop, events, matched, benefits, faults>>

-----------------------------------------------------------------------------
(* The card redeemed by hand (Redeem; without mail nothing ever looks at   *)
(* the card), failures.                                                    *)

Redeem(u, o) ==
    /\ mailRequired /\ shop[o] = "paid" /\ card[o].user = None
    /\ card' = [card EXCEPT ![o] = [user |-> u, byHand |-> TRUE,
                                    verified |-> {s \in Sessions : session[s].verified}]]
    /\ UNCHANGED <<config, session, shop, events, matched, topUps, calls, faults>>

\* The transaction of a caller's next step fails and the request returns an error.
TransactionFails(c) ==
    /\ c.pc \in {"match", "complete", "finish"} \/ VerifyBegins(c)
    /\ faults < MaxFaults /\ faults' = faults + 1
    /\ Return(c)
    /\ UNCHANGED <<config, session, shop, events, matched, benefits>>

Crash ==
    /\ faults < MaxFaults /\ faults' = faults + 1
    /\ calls # {} /\ calls' = {}
    /\ UNCHANGED <<config, session, shop, events, matched, benefits>>

-----------------------------------------------------------------------------
MatchStep(c) == MatchNothing(c) \/ \E s \in Sessions : MatchMail(c, s)

VerifyStep(c) == \/ VerifyChangesNothing(c) \/ VerifyRejects(c) \/ VerifyPackage(c)
                 \/ RedeemCard(c) \/ UsedCard(c) \/ DirectTopUp(c)

SettleStep(c) == CompleteValuePackageOrder(c) \/ PurchaseRefused(c) \/ FinishSettlement(c)

Next == \/ \E u \in Users, p \in Purposes : CreateSession(u, p)
        \/ \E s \in Sessions : \/ TimePasses(s) \/ CancelLdxpTopupSession(s)
                               \/ RecordLdxpWorkerResult(s) \/ RecordLdxpWorkerError(s)
                               \/ AdminRetryLdxpTopupVerify(s)
        \/ ClaimLdxpTopupSession
        \/ \E s \in Sessions, o \in ShopOrders, ok \in BOOLEAN : RecordLdxpQr(s, o, ok)
        \/ \E o \in ShopOrders : CustomerPays(o) \/ WorkerRecordLdxpMailEvent(o)
        \/ \E c \in calls : \/ MatchStep(c) \/ VerifyStep(c) \/ SettleStep(c)
                            \/ RedeemCardFails(c) \/ DirectTopUpFails(c)
                            \/ TransactionFails(c)
        \/ \E u \in Users, o \in ShopOrders : Redeem(u, o)
        \/ Crash

\* A request that runs goes on; a waiter of a Go mutex gets it in the end; where
\* mail is required the poller posts the recent mails again and again.
Fairness ==
    /\ \A o \in ShopOrders : /\ WF_vars(\E c \in calls : c.order = o /\ MatchStep(c))
                            /\ SF_vars(WorkerRecordLdxpMailEvent(o))
    /\ \A s \in Sessions : SF_vars(\E c \in calls : c.session = s /\ VerifyStep(c))
    /\ WF_vars(\E c \in calls : SettleStep(c))

Spec == Init /\ [][Next]_vars /\ Fairness

-----------------------------------------------------------------------------
(* Properties.                                                             *)

SessionRows == [user : Users \cup {None}, purpose : Purposes, status : Statuses,
                late : BOOLEAN, order : ShopOrders \cup {None}, amountOk : BOOLEAN,
                reported : BOOLEAN, mail : BOOLEAN, verified : BOOLEAN, credited : Nat]

\* Every variable has its type, one request at a time settles (ldxpVerifyMu), and
\* a mail event is matched to a session of its own order that carries the mail.
LSTypeOK ==
    /\ session \in [Sessions -> SessionRows]
    /\ shop \in [ShopOrders -> {"unused", "open", "paid"}]
    /\ events \subseteq ShopOrders
    /\ card \in [ShopOrders -> [user : Users \cup {None}, byHand : BOOLEAN,
                                verified : SUBSET Sessions]]
    /\ topUps \in [ShopOrders -> Users \cup {None}]
    /\ calls \subseteq Calls /\ Cardinality(Settling) <= 1
    /\ faults \in 0 .. MaxFaults
    /\ \A o \in ShopOrders : matched[o] # None =>
          session[matched[o]].order = o /\ session[matched[o]].mail

SameOrder(s, r) == s # r /\ session[s].order # None /\ session[s].order = session[r].order

\* A payment is credited once.  Two sessions that name the same shop order are
\* never both successful, whatever users they belong to and however their
\* verifications, mails and retries interleave; no session gives its benefit
\* twice; two sessions of one order both gave it only when one of them was
\* interrupted after it gave it, outside the transaction that stores success (a
\* value package's settlement, or a direct top-up where a failed statement does
\* not abort); and a session gives nothing for a card that was redeemed by hand.
OrderCreditedOnce ==
    /\ \A s, r \in Sessions :
         SameOrder(s, r) => ~(session[s].status = "success" /\ session[r].status = "success")
    /\ \A s \in Sessions : session[s].credited <= 1
    /\ \A s, r \in Sessions :
         SameOrder(s, r) /\ session[s].credited = 1 /\ session[r].credited = 1 =>
           /\ faults > 0
           /\ \E i \in {s, r} : /\ session[i].status # "success"
                                /\ session[i].purpose = "value_package" \/ ~aborts
    /\ \A s \in Sessions :
         mailRequired /\ session[s].purpose = "topup" /\ session[s].credited = 1
           => ~card[session[s].order].byHand

\* A session reported as successful was credited, or its user redeemed the card
\* by hand, or (direct top-up on MySQL or SQLite) an earlier attempt failed after
\* it inserted the top_ups row, which the retry takes for a completed top-up.
SuccessMeansCredited ==
    \A s \in Sessions : session[s].status = "success" =>
        \/ session[s].credited = 1
        \/ mailRequired /\ card[session[s].order].byHand
                        /\ card[session[s].order].user = session[s].user
        \/ ~mailRequired /\ ~aborts /\ faults > 0
                         /\ topUps[session[s].order] = session[s].user

\* Nothing is credited for an order that was not paid, not seen paid by the
\* worker, or of another price, and where mail is required not without the mail.
CreditNeedsPayment ==
    \A s \in Sessions : session[s].credited > 0 =>
        /\ shop[session[s].order] = "paid"
        /\ session[s].reported /\ session[s].amountOk
        /\ mailRequired => session[s].order \in events

\* Nothing undoes a payment: a session whose payment was reported is never
\* canceled, expired or failed by the worker, so none of these hides a credit; and
\* no retry by the administrator and no late mail changes one that succeeded.
PaymentIsNotUndone ==
    [][\A s \in Sessions :
         /\ session[s].reported => session'[s].reported /\ session'[s].status \notin EndedStatuses
         /\ session[s].status = "success" =>
              session'[s].status = "success" /\ session'[s].credited = session[s].credited]_vars

\* Where mail is required, a payment of the right price that the worker reported
\* ends in a benefit: of the session, or by hand; or the purchase was refused, or
\* something failed, or another session names the same order.  (A session of that
\* order which failed verification can keep the mail for itself.)
PaidIsCredited ==
    \A s \in Sessions :
        (mailRequired /\ session[s].status = "worker_paid" /\ session[s].amountOk)
          ~> \/ session[s].credited > 0
             \/ \E o \in ShopOrders : session[s].order = o /\ card[o].byHand
             \/ session[s].status = "redeem_failed"
             \/ faults > 0
             \/ \E r \in Sessions : SameOrder(s, r)

=============================================================================
