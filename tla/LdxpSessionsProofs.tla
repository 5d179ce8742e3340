-------------------------- MODULE LdxpSessionsProofs --------------------------
(***************************************************************************)
(* One shop order is credited once, for any number of users, sessions,     *)
(* shop orders and requests.                                               *)
(***************************************************************************)
EXTENDS LdxpSessions, FiniteSetTheorems, TLAPS

CardTypes ==
    /\ card \in [ShopOrders -> [user : Users \cup {None}, byHand : BOOLEAN,
                                verified : SUBSET Sessions]]
    /\ \A o \in ShopOrders : card[o].byHand => card[o].user # None

LSTypes ==
    /\ mailRequired \in BOOLEAN /\ aborts \in BOOLEAN /\ (mailRequired => aborts)
    /\ session \in [Sessions -> SessionRows]
    /\ shop \in [ShopOrders -> {"unused", "open", "paid"}]
    /\ events \subseteq ShopOrders
    /\ matched \in [ShopOrders -> Sessions \cup {None}]
    /\ CardTypes
    /\ topUps \in [ShopOrders -> Users \cup {None}]
    /\ calls \subseteq Calls
    /\ faults \in 0 .. MaxFaults

SettledStatuses == {"verified", "redeem_failed", "success"}

\* What a session went through: the payment before the report, the report
\* before the verification, the verification before the credit.
HistoryOK(s) ==
    LET r == session[s] IN
    /\ r.order # None \/ r.status \in OpenStatuses => r.user # None
    /\ r.status = "qr_ready" => r.order # None
    /\ r.reported => /\ r.order # None /\ shop[r.order] = "paid"
                     /\ r.status \notin OpenStatuses \cup EndedStatuses
    /\ r.status \in SettledStatuses \/ r.credited # 0 => r.verified
    /\ r.verified => r.reported /\ r.amountOk /\ (mailRequired => r.order \in events)

\* A top-up that was given has its card or its top_ups row; a benefit of a
\* session that is not successful was interrupted, or is about to be finished.
CreditOK(s) ==
    LET r == session[s] IN
    /\ r.credited <= 1
    /\ r.purpose = "topup" /\ r.credited = 1 =>
         /\ mailRequired => card[r.order].user = r.user /\ ~card[r.order].byHand
         /\ ~mailRequired => topUps[r.order] = r.user
    /\ r.credited = 1 /\ r.status # "success" =>
         /\ r.purpose = "value_package" \/ ~aborts
         /\ faults > 0 \/ Step("finish", s) \in calls
    /\ r.status = "success" =>
         \/ r.credited = 1
         \/ mailRequired /\ card[r.order].byHand /\ card[r.order].user = r.user
         \/ ~mailRequired /\ ~aborts /\ faults > 0 /\ topUps[r.order] = r.user

\* A card or a top_ups row that a session used belongs to a successful session
\* of its order, unless a failed statement left the row behind.
Winner(o) == \E r \in Sessions : session[r].order = o /\ session[r].status = "success"
BenefitOK(o) ==
    /\ mailRequired /\ card[o].user # None /\ ~card[o].byHand => Winner(o)
    /\ ~mailRequired /\ topUps[o] # None => Winner(o) \/ (~aborts /\ faults > 0)

\* A request that settles (it holds ldxpVerifyMu) is alone, and no other session
\* of the order is successful.
SettlingOK(c) ==
    c.pc \in {"complete", "finish"} =>
       /\ session[c.session].status = "verified"
       /\ session[c.session].purpose = "value_package"
       /\ c.pc = "finish" => session[c.session].credited = 1
       /\ ~Duplicate(c.session)
       /\ \A d \in calls : d.pc \in {"complete", "finish"} => d = c

OneSuccess == \A s, r \in Sessions :
    SameOrder(s, r) => ~(session[s].status = "success" /\ session[r].status = "success")

MatchedOK == \A o \in ShopOrders : matched[o] # None =>
    session[matched[o]].order = o /\ session[matched[o]].mail

\* The inductive invariant.
LSInv ==
    /\ LSTypes
    /\ \A s \in Sessions : HistoryOK(s) /\ CreditOK(s)
    /\ \A o \in ShopOrders : BenefitOK(o)
    /\ \A c \in calls : SettlingOK(c)
    /\ OneSuccess
    /\ MatchedOK

-----------------------------------------------------------------------------
(* The rows.                                                               *)

SameBase(q, r) == /\ q.user = r.user /\ q.purpose = r.purpose /\ q.order = r.order
                  /\ q.amountOk = r.amountOk /\ q.reported = r.reported

LEMMA EndsRow ==
    ASSUME NEW r \in SessionRows, NEW status \in Statuses
    PROVE  /\ Ends(r, status) \in SessionRows /\ SameBase(Ends(r, status), r)
           /\ Ends(r, status).status = status /\ Ends(r, status).mail = r.mail
           /\ Ends(r, status).verified = r.verified /\ Ends(r, status).credited = r.credited
BY DEF Ends, SessionRows, SameBase

LEMMA VerifiedRow ==
    ASSUME LSTypes, NEW r \in SessionRows
    PROVE  /\ Verified(r) \in SessionRows /\ SameBase(Verified(r), r)
           /\ Verified(r).status = "verified" /\ Verified(r).verified = TRUE
           /\ Verified(r).credited = r.credited /\ (r.mail => Verified(r).mail)
<1>1. (r.mail \/ mailRequired) \in BOOLEAN /\ "verified" \in Statuses
  BY DEF LSTypes, SessionRows, Statuses
<1> QED BY <1>1 DEF Verified, SessionRows, SameBase

LEMMA CreditedRow ==
    ASSUME NEW r \in SessionRows
    PROVE  /\ Credited(r) \in SessionRows /\ SameBase(Credited(r), r)
           /\ Credited(r).status = r.status /\ Credited(r).verified = r.verified
           /\ Credited(r).mail = r.mail /\ Credited(r).credited = r.credited + 1
BY DEF Credited, SessionRows, SameBase

LEMMA EndRows ==
    ASSUME LSTypes, NEW r \in SessionRows
    PROVE  /\ VerifyFailed(r) \in SessionRows /\ SameBase(VerifyFailed(r), r)
           /\ VerifyFailed(r).status = "verify_failed" /\ VerifyFailed(r).verified = r.verified
           /\ VerifyFailed(r).credited = r.credited /\ (r.mail => VerifyFailed(r).mail)
           /\ RedeemFailed(r) \in SessionRows /\ SameBase(RedeemFailed(r), r)
           /\ RedeemFailed(r).status = "redeem_failed" /\ RedeemFailed(r).verified = TRUE
           /\ RedeemFailed(r).credited = r.credited /\ (r.mail => RedeemFailed(r).mail)
           /\ Succeeded(r) \in SessionRows /\ SameBase(Succeeded(r), r)
           /\ Succeeded(r).status = "success" /\ Succeeded(r).verified = TRUE
           /\ Succeeded(r).credited = r.credited /\ (r.mail => Succeeded(r).mail)
<1>1. {"verify_failed", "redeem_failed", "success"} \subseteq Statuses
  BY DEF Statuses
<1>2. /\ VerifyFailed(r) \in SessionRows /\ SameBase(VerifyFailed(r), r)
      /\ VerifyFailed(r).status = "verify_failed" /\ VerifyFailed(r).verified = r.verified
      /\ VerifyFailed(r).credited = r.credited /\ (r.mail => VerifyFailed(r).mail)
  <2>e. PICK e \in SessionRows : e = Ends(r, "verify_failed")
    BY <1>1, EndsRow
  <2>1. SameBase(e, r) /\ e.status = "verify_failed" /\ e.mail = r.mail
        /\ e.verified = r.verified /\ e.credited = r.credited
    BY <1>1, <2>e, EndsRow
  <2>2. (e.mail \/ mailRequired) \in BOOLEAN
    BY DEF LSTypes
  <2>3. VerifyFailed(r) = [e EXCEPT !.mail = e.mail \/ mailRequired]
    BY <2>e DEF VerifyFailed
  <2> QED BY <2>1, <2>2, <2>3 DEF SessionRows, SameBase
<1>v. PICK v \in SessionRows : v = Verified(r)
  BY VerifiedRow
<1>3. /\ SameBase(v, r) /\ v.verified = TRUE /\ v.credited = r.credited /\ (r.mail => v.mail)
  BY <1>v, VerifiedRow
<1>4. RedeemFailed(r) = Ends(v, "redeem_failed") /\ Succeeded(r) = Ends(v, "success")
  BY <1>v DEF RedeemFailed, Succeeded
<1>5. \A x \in {"redeem_failed", "success"} :
         /\ Ends(v, x) \in SessionRows /\ SameBase(Ends(v, x), r)
         /\ Ends(v, x).status = x /\ Ends(v, x).verified = TRUE
         /\ Ends(v, x).credited = r.credited /\ (r.mail => Ends(v, x).mail)
  BY <1>1, <1>3, EndsRow DEF SameBase
<1> QED BY <1>2, <1>4, <1>5

\* Writing one row.
LEMMA OneRow ==
    ASSUME session \in [Sessions -> SessionRows], NEW s \in Sessions, NEW r \in SessionRows,
           session' = [session EXCEPT ![s] = r]
    PROVE  /\ session' \in [Sessions -> SessionRows] /\ session'[s] = r
           /\ \A t \in Sessions : t # s => session'[t] = session[t]
OBVIOUS

\* No mail is taken from the session it was matched to.
LEMMA MatchedStays ==
    ASSUME LSInv, UNCHANGED matched,
           \A s \in Sessions : session[s].order # None /\ session[s].mail =>
              session'[s].order = session[s].order /\ session'[s].mail
    PROVE  MatchedOK'
<1> SUFFICES ASSUME NEW o \in ShopOrders, matched[o] # None
             PROVE  session'[matched[o]].order = o /\ session'[matched[o]].mail
  BY DEF MatchedOK
<1>1. matched[o] \in Sessions /\ session[matched[o]].order = o /\ session[matched[o]].mail
  BY DEF LSInv, LSTypes, MatchedOK
<1> QED BY <1>1, LSConstants

-----------------------------------------------------------------------------
(* Steps that verify nothing.                                              *)

\* The session is what it was, but for its clock and its mail.
Agrees(s) == /\ SameBase(session'[s], session[s])
             /\ session'[s].status = session[s].status
             /\ session'[s].verified = session[s].verified
             /\ session'[s].credited = session[s].credited

\* The session was not verified and is not.
Unverified(s) == ~session[s].verified /\ ~session'[s].verified /\ HistoryOK(s)'

LEMMA SoftStep ==
    ASSUME LSInv, LSTypes', MatchedOK', UNCHANGED <<mailRequired, aborts, card, topUps>>,
           \A o \in ShopOrders : shop[o] = "paid" => shop'[o] = "paid",
           events \subseteq events', faults <= faults',
           \A c \in calls' : c.pc \in {"complete", "finish"} => c \in calls,
           \A s \in Sessions : Step("finish", s) \in calls =>
              Step("finish", s) \in calls' \/ faults' > 0,
           \A s \in Sessions : Agrees(s) \/ Unverified(s)
    PROVE  LSInv'
<1>0. /\ session \in [Sessions -> SessionRows] /\ session' \in [Sessions -> SessionRows]
      /\ faults \in Nat /\ faults' \in Nat
      /\ \A s \in Sessions : HistoryOK(s) /\ CreditOK(s)
  BY LSConstants DEF LSInv, LSTypes
<1>1. ASSUME NEW s \in Sessions,
             \/ session[s].status \in SettledStatuses \/ session[s].credited # 0
             \/ session'[s].status \in SettledStatuses \/ session'[s].credited # 0
      PROVE  Agrees(s)
  BY <1>0, <1>1 DEF HistoryOK, Unverified
<1>2. ASSUME NEW s \in Sessions PROVE HistoryOK(s)'
  <2>1. CASE Agrees(s)
    <3>1. HistoryOK(s) /\ session[s] \in SessionRows /\ session'[s] \in SessionRows
      BY <1>0
    <3> QED BY <2>1, <3>1 DEF HistoryOK, Agrees, SameBase, SessionRows
  <2> QED BY <2>1 DEF Unverified
<1>3. ASSUME NEW s \in Sessions PROVE CreditOK(s)'
  <2>1. CASE session'[s].status # "success" /\ session'[s].credited = 0
    BY <2>1 DEF CreditOK
  <2>2. CASE session'[s].status = "success" \/ session'[s].credited # 0
    <3>1. Agrees(s) /\ CreditOK(s) /\ session[s] \in SessionRows
      BY <1>0, <1>1, <2>2 DEF SettledStatuses
    <3>2. faults > 0 => faults' > 0
      BY <1>0
    <3>3. faults > 0 \/ Step("finish", s) \in calls => faults' > 0 \/ Step("finish", s) \in calls'
      BY <3>2
    <3>4. Step("finish", s)' = Step("finish", s)
      BY DEF Step
    <3> QED BY <3>1, <3>2, <3>3, <3>4 DEF CreditOK, Agrees, SameBase
  <2> QED BY <2>1, <2>2
<1>4. ASSUME NEW o \in ShopOrders PROVE BenefitOK(o)'
  <2>1. Winner(o) => Winner(o)'
    BY <1>1 DEF Winner, Agrees, SameBase, SettledStatuses
  <2>2. faults > 0 => faults' > 0
    BY <1>0
  <2> QED BY <2>1, <2>2 DEF LSInv, BenefitOK
<1>5. ASSUME NEW c \in calls' PROVE SettlingOK(c)'
  <2> SUFFICES ASSUME c.pc \in {"complete", "finish"} PROVE SettlingOK(c)'
    BY DEF SettlingOK
  <2>1. c \in calls /\ SettlingOK(c) /\ c.session \in Sessions
    BY DEF LSInv, LSTypes, Calls
  <2>2. Agrees(c.session)
    BY <1>1, <2>1 DEF SettlingOK, SettledStatuses
  <2>3. Duplicate(c.session)' => Duplicate(c.session)
    BY <1>1, <2>2 DEF Duplicate, Agrees, SameBase, SettledStatuses
  <2> QED BY <2>1, <2>2, <2>3 DEF SettlingOK, Agrees, SameBase
<1>6. OneSuccess'
  BY <1>1 DEF LSInv, OneSuccess, SameOrder, Agrees, SameBase, SettledStatuses
<1> QED BY <1>2, <1>3, <1>4, <1>5, <1>6 DEF LSInv

\* One session's row changes, and no request settles more or less.
LEMMA SoftRow ==
    ASSUME LSInv, NEW s \in Sessions, NEW r \in SessionRows,
           session' = [session EXCEPT ![s] = r],
           UNCHANGED <<mailRequired, aborts, card, topUps, events, faults>>,
           shop' \in [ShopOrders -> {"unused", "open", "paid"}],
           \A o \in ShopOrders : shop[o] = "paid" => shop'[o] = "paid",
           matched' \in [ShopOrders -> Sessions \cup {None}], MatchedOK',
           calls' \subseteq Calls,
           \A c \in Calls : c.pc \in {"complete", "finish"} => (c \in calls' <=> c \in calls),
           Agrees(s) \/ Unverified(s)
    PROVE  LSInv'
<1>1. /\ session' \in [Sessions -> SessionRows]
      /\ \A t \in Sessions : t # s => session'[t] = session[t]
  BY OneRow DEF LSInv, LSTypes
<1>2. LSTypes'
  BY <1>1 DEF LSInv, LSTypes, CardTypes
<1>3. \A t \in Sessions : Agrees(t) \/ Unverified(t)
  BY <1>1 DEF Agrees, SameBase
<1>4. \A t \in Sessions : Step("finish", t) \in calls => Step("finish", t) \in calls'
  BY DEF Step, Calls, LSInv, LSTypes
<1>5. \A c \in calls' : c.pc \in {"complete", "finish"} => c \in calls
  OBVIOUS
<1>6. faults \in Nat
  BY LSConstants DEF LSInv, LSTypes
<1> QED BY <1>2, <1>3, <1>4, <1>5, <1>6, SoftStep

LEMMA LSInit == Init => LSInv
<1> SUFFICES ASSUME Init PROVE LSInv
  OBVIOUS
<1>1. NoSession \in SessionRows
  BY DEF NoSession, SessionRows, Purposes, Statuses, EndedStatuses
<1>2. FreshCard \in [user : Users \cup {None}, byHand : BOOLEAN, verified : SUBSET Sessions]
  BY DEF FreshCard
<1>3. LSTypes
  <2>1. mailRequired \in BOOLEAN /\ aborts \in BOOLEAN /\ (mailRequired => aborts)
    <3>1. mailRequired \in BOOLEAN /\ aborts \in IF mailRequired THEN {TRUE} ELSE BOOLEAN
      BY DEF Init
    <3>2. CASE mailRequired
      BY <3>1, <3>2
    <3>3. CASE ~mailRequired
      BY <3>1, <3>3
    <3> QED BY <3>2, <3>3
  <2>2. /\ session = [s \in Sessions |-> NoSession] /\ shop = [o \in ShopOrders |-> "unused"]
        /\ events = {} /\ matched = [o \in ShopOrders |-> None]
        /\ card = [o \in ShopOrders |-> FreshCard] /\ topUps = [o \in ShopOrders |-> None]
        /\ calls = {} /\ faults = 0
    BY DEF Init
  <2>3. 0 \in 0 .. MaxFaults
    BY LSConstants
  <2>4. /\ session \in [Sessions -> SessionRows] /\ matched \in [ShopOrders -> Sessions \cup {None}]
        /\ shop \in [ShopOrders -> {"unused", "open", "paid"}]
        /\ topUps \in [ShopOrders -> Users \cup {None}]
        /\ card \in [ShopOrders -> [user : Users \cup {None}, byHand : BOOLEAN,
                                    verified : SUBSET Sessions]]
    BY <1>1, <1>2, <2>2
  <2>5. CardTypes
    BY <1>2, <2>2, <2>4 DEF CardTypes, FreshCard
  <2> QED BY <2>1, <2>2, <2>3, <2>4, <2>5 DEF LSTypes
<1>4. \A s \in Sessions : session[s] = NoSession
  BY DEF Init
<1>5. /\ NoSession.order = None /\ NoSession.status = "canceled" /\ NoSession.credited = 0
      /\ NoSession.reported = FALSE /\ NoSession.verified = FALSE
  BY DEF NoSession
<1>6. \A s \in Sessions : HistoryOK(s) /\ CreditOK(s)
  BY <1>4, <1>5 DEF HistoryOK, CreditOK, SettledStatuses, OpenStatuses
<1>7. \A o \in ShopOrders : BenefitOK(o)
  BY DEF Init, BenefitOK, FreshCard
<1>8. OneSuccess /\ MatchedOK
  BY <1>4, <1>5 DEF Init, OneSuccess, MatchedOK
<1>9. \A c \in calls : SettlingOK(c)
  BY DEF Init
<1> QED BY <1>3, <1>6, <1>7, <1>8, <1>9 DEF LSInv

\* The facts about one session.
LEMMA RowFacts ==
    ASSUME LSInv, NEW s \in Sessions
    PROVE  /\ session[s] \in SessionRows /\ HistoryOK(s) /\ CreditOK(s)
           /\ session \in [Sessions -> SessionRows]
BY DEF LSInv, LSTypes

LEMMA CreateSessionInv ==
    ASSUME LSInv, NEW u \in Users, NEW p \in Purposes, CreateSession(u, p)
    PROVE  LSInv'
<1>0. PICK s \in Sessions \ Created : session' = [session EXCEPT ![s] = NewSession(u, p)]
  BY DEF CreateSession
<1>1. UNCHANGED <<mailRequired, aborts, card, topUps, events, faults, shop, matched, calls>>
  BY DEF CreateSession, config, benefits
<1>r. PICK r : r = NewSession(u, p)
  OBVIOUS
<1>2. /\ r \in SessionRows /\ r.order = None /\ r.status = "created" /\ r.user = u
      /\ r.reported = FALSE /\ r.verified = FALSE /\ r.credited = 0
  BY <1>r DEF NewSession, NoSession, SessionRows, Statuses, OpenStatuses, Purposes
<1>3. session[s].user = None /\ session[s].order = None /\ ~session[s].verified
  <2>1. session[s].user = None
    BY <1>0 DEF Created
  <2> QED BY <1>0, <2>1, RowFacts DEF HistoryOK
<1>4. session'[s] = r /\ \A t \in Sessions : t # s => session'[t] = session[t]
  BY <1>0, <1>r, <1>2, OneRow DEF LSInv, LSTypes
<1>5. Unverified(s)
  BY <1>2, <1>3, <1>4, LSConstants DEF Unverified, HistoryOK, SettledStatuses
<1>6. MatchedOK'
  BY <1>1, <1>3, <1>4, MatchedStays
<1> QED BY <1>0, <1>1, <1>2, <1>5, <1>6, <1>r, SoftRow DEF LSInv, LSTypes

LEMMA TimePassesInv ==
    ASSUME LSInv, NEW s \in Sessions, TimePasses(s)
    PROVE  LSInv'
<1>r. PICK r : r = [session[s] EXCEPT !.late = TRUE]
  OBVIOUS
<1>1. /\ session' = [session EXCEPT ![s] = r]
      /\ UNCHANGED <<mailRequired, aborts, card, topUps, events, faults, shop, matched, calls>>
  BY <1>r, RowFacts DEF TimePasses, config, benefits
<1>2. /\ r \in SessionRows /\ SameBase(r, session[s]) /\ r.status = session[s].status
      /\ r.verified = session[s].verified /\ r.credited = session[s].credited
      /\ r.mail = session[s].mail
  BY <1>r, RowFacts DEF SessionRows, SameBase
<1>3. session'[s] = r /\ \A t \in Sessions : t # s => session'[t] = session[t]
  BY <1>1, <1>2, RowFacts, OneRow
<1>4. Agrees(s)
  BY <1>2, <1>3 DEF Agrees
<1>5. MatchedOK'
  BY <1>1, <1>2, <1>3, MatchedStays DEF SameBase
<1> QED BY <1>1, <1>2, <1>4, <1>5, SoftRow DEF LSInv, LSTypes

\* A session in an open status is not verified; it may end.
LEMMA EndsInv ==
    ASSUME LSInv, NEW s \in Sessions, NEW status \in EndedStatuses,
           session[s].status \in OpenStatuses,
           session' = [session EXCEPT ![s] = Ends(session[s], status)],
           UNCHANGED <<mailRequired, aborts, card, topUps, events, faults, shop, matched, calls>>
    PROVE  LSInv'
<1>r. PICK r : r = Ends(session[s], status)
  OBVIOUS
<1>1. /\ r \in SessionRows /\ SameBase(r, session[s]) /\ r.status = status
      /\ r.verified = session[s].verified /\ r.credited = session[s].credited
      /\ r.mail = session[s].mail
  BY <1>r, RowFacts, EndsRow DEF Statuses
<1>2. session'[s] = r /\ \A t \in Sessions : t # s => session'[t] = session[t]
  BY <1>1, <1>r, RowFacts, OneRow
<1>3. Unverified(s)
  <2>1. HistoryOK(s) /\ ~session[s].reported /\ ~session[s].verified
    BY RowFacts DEF HistoryOK
  <2> QED BY <1>1, <1>2, <2>1
          DEF Unverified, HistoryOK, SameBase, SettledStatuses, OpenStatuses, EndedStatuses
<1>4. MatchedOK'
  BY <1>1, <1>2, MatchedStays DEF SameBase
<1> QED BY <1>1, <1>3, <1>4, <1>r, SoftRow DEF LSInv, LSTypes

LEMMA ClaimInv ==
    ASSUME LSInv, ClaimLdxpTopupSession
    PROVE  LSInv'
<1>1. UNCHANGED <<mailRequired, aborts, card, topUps, events, faults, shop, matched, calls>>
  BY DEF ClaimLdxpTopupSession, config, benefits
<1>2. ASSUME NEW s \in Sessions
      PROVE  /\ session'[s] \in SessionRows
             /\ session'[s].order = session[s].order /\ session'[s].mail = session[s].mail
             /\ Agrees(s) \/ Unverified(s)
  <2>0. session[s] \in SessionRows /\ HistoryOK(s)
    BY RowFacts
  <2>1. CASE session'[s] = [session[s] EXCEPT !.status = "worker_claimed"] /\ Claimable(s)
    <3>r. PICK r : r = [session[s] EXCEPT !.status = "worker_claimed"]
      OBVIOUS
    <3>1. /\ r \in SessionRows /\ SameBase(r, session[s]) /\ r.status = "worker_claimed"
          /\ r.verified = session[s].verified /\ r.credited = session[s].credited
          /\ r.mail = session[s].mail
      BY <2>0, <3>r DEF SessionRows, SameBase, Statuses, OpenStatuses
    <3>2. /\ ~session[s].reported /\ ~session[s].verified /\ session[s].credited = 0
          /\ session[s].user # None /\ session'[s] = r
      BY <2>0, <2>1, <3>r DEF Claimable, HistoryOK, OpenStatuses
    <3>3. Unverified(s)
      BY <3>1, <3>2
      DEF Unverified, HistoryOK, SameBase, SettledStatuses, OpenStatuses, EndedStatuses
    <3> QED BY <2>1, <3>1, <3>3, <3>r DEF SameBase
  <2>2. CASE session'[s] = Expired(session[s])
    <3>1. CASE session[s].status \in OpenStatuses /\ session[s].late
      <4>r. PICK r : r = Ends(session[s], "expired")
        OBVIOUS
      <4>1. /\ r \in SessionRows /\ SameBase(r, session[s]) /\ r.status = "expired"
            /\ r.verified = session[s].verified /\ r.credited = session[s].credited
            /\ r.mail = session[s].mail
        BY <2>0, <4>r, EndsRow DEF Statuses, EndedStatuses
      <4>2. ~session[s].reported /\ ~session[s].verified /\ session'[s] = r
        BY <2>0, <2>2, <3>1, <4>r DEF HistoryOK, Expired
      <4>3. Unverified(s)
        BY <1>1, <2>0, <4>1, <4>2
        DEF Unverified, HistoryOK, SameBase, SettledStatuses, OpenStatuses, EndedStatuses
      <4> QED BY <4>1, <4>2, <4>3 DEF SameBase
    <3>2. CASE ~(session[s].status \in OpenStatuses /\ session[s].late)
      BY <2>0, <2>2, <3>2 DEF Expired, Agrees, SameBase
    <3> QED BY <3>1, <3>2
  <2> QED BY <2>1, <2>2 DEF ClaimLdxpTopupSession
<1>3. session' \in [Sessions -> SessionRows]
  BY <1>2 DEF ClaimLdxpTopupSession
<1>4. MatchedOK'
  BY <1>1, <1>2, MatchedStays
<1>5. LSTypes' /\ faults \in Nat
  BY <1>1, <1>3, LSConstants DEF LSInv, LSTypes, CardTypes
<1> QED BY <1>1, <1>2, <1>4, <1>5, SoftStep

LEMMA RecordLdxpQrInv ==
    ASSUME LSInv, NEW s \in Sessions, NEW o \in ShopOrders, NEW ok \in BOOLEAN,
           RecordLdxpQr(s, o, ok)
    PROVE  LSInv'
<1>0. session[s] \in SessionRows /\ HistoryOK(s)
  BY RowFacts
<1>r. PICK r : r = [session[s] EXCEPT !.status = "qr_ready", !.order = o, !.amountOk = ok]
  OBVIOUS
<1>1. /\ session' = [session EXCEPT ![s] = r]
      /\ session[s].status \in OpenStatuses /\ session[s].order \in {None, o}
      /\ shop' = [shop EXCEPT ![o] = IF @ = "unused" THEN "open" ELSE @]
      /\ UNCHANGED <<mailRequired, aborts, card, topUps, events, faults, matched, calls>>
  BY <1>r, RowFacts DEF RecordLdxpQr, config, benefits, OpenStatuses
<1>2. /\ r \in SessionRows /\ r.status = "qr_ready" /\ r.order = o /\ r.user = session[s].user
      /\ r.verified = session[s].verified /\ r.credited = session[s].credited
      /\ r.reported = session[s].reported /\ r.mail = session[s].mail
  BY <1>0, <1>r DEF SessionRows, Statuses, OpenStatuses
<1>3. session'[s] = r /\ \A t \in Sessions : t # s => session'[t] = session[t]
  BY <1>1, <1>2, RowFacts, OneRow
<1>4. ~session[s].reported /\ ~session[s].verified
  BY <1>0, <1>1 DEF HistoryOK
<1>5. session[s].user # None
  BY <1>0, <1>1 DEF HistoryOK
<1>6. Unverified(s)
  BY <1>0, <1>2, <1>3, <1>4, <1>5, LSConstants
  DEF Unverified, HistoryOK, SettledStatuses
<1>7. MatchedOK'
  BY <1>1, <1>2, <1>3, MatchedStays
<1>8. /\ shop' \in [ShopOrders -> {"unused", "open", "paid"}]
      /\ \A p \in ShopOrders : shop[p] = "paid" => shop'[p] = "paid"
  BY <1>1 DEF LSInv, LSTypes
<1> QED BY <1>1, <1>2, <1>6, <1>7, <1>8, SoftRow DEF LSInv, LSTypes

LEMMA WorkerResultInv ==
    ASSUME LSInv, NEW s \in Sessions, RecordLdxpWorkerResult(s)
    PROVE  LSInv'
<1>0. session[s] \in SessionRows /\ HistoryOK(s)
  BY RowFacts
<1>r. PICK r : r = [session[s] EXCEPT !.status = "worker_paid", !.reported = TRUE]
  OBVIOUS
<1>1. /\ session' = [session EXCEPT ![s] = r]
      /\ session[s].status = "qr_ready" /\ shop[session[s].order] = "paid"
      /\ UNCHANGED <<mailRequired, aborts, card, topUps, events, faults, shop, matched>>
  BY <1>r, RowFacts DEF RecordLdxpWorkerResult, config, benefits
<1>2. /\ r \in SessionRows /\ r.status = "worker_paid" /\ r.order = session[s].order
      /\ r.user = session[s].user /\ r.verified = session[s].verified
      /\ r.credited = session[s].credited /\ r.reported = TRUE /\ r.mail = session[s].mail
  BY <1>0, <1>r DEF SessionRows, Statuses
<1>3. session'[s] = r /\ \A t \in Sessions : t # s => session'[t] = session[t]
  BY <1>1, <1>2, RowFacts, OneRow
<1>4. ~session[s].verified /\ session[s].credited = 0
  BY <1>0, <1>1 DEF HistoryOK, OpenStatuses
<1>5. Unverified(s)
  BY <1>0, <1>1, <1>2, <1>3, <1>4
  DEF Unverified, HistoryOK, SettledStatuses, OpenStatuses, EndedStatuses
<1>6. MatchedOK'
  BY <1>1, <1>2, <1>3, MatchedStays
<1>c. PICK c \in Calls : c.pc = "verify" /\ calls' = calls \cup {c}
  BY DEF RecordLdxpWorkerResult, Begin, Step, Calls
<1>7. /\ calls' \subseteq Calls
      /\ \A d \in Calls : d.pc \in {"complete", "finish"} => (d \in calls' <=> d \in calls)
  BY <1>c DEF LSInv, LSTypes
<1> QED BY <1>1, <1>2, <1>5, <1>6, <1>7, SoftRow DEF LSInv, LSTypes

LEMMA MatchMailInv ==
    ASSUME LSInv, NEW c \in calls, NEW s \in Sessions, MatchMail(c, s)
    PROVE  LSInv'
<1>0. /\ c \in Calls /\ c.pc = "match" /\ calls \subseteq Calls
      /\ session[s] \in SessionRows /\ HistoryOK(s) /\ session \in [Sessions -> SessionRows]
  BY RowFacts DEF MatchMail, LSInv, LSTypes
<1>o. PICK o \in ShopOrders : o = c.order
  BY <1>0 DEF Calls
<1>1. UNCHANGED <<mailRequired, aborts, card, topUps, events, faults, shop>>
  BY DEF MatchMail, config, benefits
<1>2. /\ calls' \subseteq Calls
      /\ \A d \in Calls : d.pc \in {"complete", "finish"} => (d \in calls' <=> d \in calls)
  <2>1. Step("verify", s) \in Calls /\ Step("verify", s).pc = "verify"
    BY DEF Step, Calls
  <2> QED BY <1>0, <2>1 DEF MatchMail, Continue, Return
<1>3. session[s].order = o
  BY <1>o DEF MatchMail, Matchable
<1>4. CASE session' = [session EXCEPT ![s].mail = TRUE] /\ matched' = [matched EXCEPT ![o] = s]
  <2>r. PICK r : r = [session[s] EXCEPT !.mail = TRUE]
    OBVIOUS
  <2>1. session' = [session EXCEPT ![s] = r]
    BY <1>0, <1>4, <2>r
  <2>2. /\ r \in SessionRows /\ SameBase(r, session[s]) /\ r.status = session[s].status
        /\ r.verified = session[s].verified /\ r.credited = session[s].credited
        /\ r.mail = TRUE /\ r.order = session[s].order
    BY <1>0, <2>r DEF SessionRows, SameBase
  <2>3. session'[s] = r /\ \A t \in Sessions : t # s => session'[t] = session[t]
    BY <1>0, <2>1, <2>2, OneRow
  <2>4. Agrees(s)
    BY <2>2, <2>3 DEF Agrees
  <2>5. matched' \in [ShopOrders -> Sessions \cup {None}]
    BY <1>4 DEF LSInv, LSTypes
  <2>6. MatchedOK'
    <3> SUFFICES ASSUME NEW p \in ShopOrders, matched'[p] # None
                 PROVE  session'[matched'[p]].order = p /\ session'[matched'[p]].mail
      BY DEF MatchedOK
    <3>1. CASE p = o
      <4>1. matched'[p] = s
        BY <1>4, <3>1 DEF LSInv, LSTypes
      <4> QED BY <1>3, <2>2, <2>3, <3>1, <4>1
    <3>2. CASE p # o
      <4>1. /\ matched'[p] = matched[p] /\ matched[p] \in Sessions
            /\ session[matched[p]].order = p /\ session[matched[p]].mail
        BY <1>4, <3>2 DEF LSInv, LSTypes, MatchedOK
      <4> QED BY <2>2, <2>3, <4>1
    <3> QED BY <3>1, <3>2
  <2> QED BY <1>1, <1>2, <2>1, <2>2, <2>4, <2>5, <2>6, SoftRow DEF LSInv, LSTypes
<1>5. CASE UNCHANGED <<session, matched>>
  <2>1. session' = [session EXCEPT ![s] = session[s]] /\ Agrees(s)
    BY <1>0, <1>5 DEF Agrees, SameBase
  <2>2. MatchedOK'
    BY <1>5, MatchedStays
  <2> QED BY <1>0, <1>1, <1>2, <1>5, <2>1, <2>2, SoftRow DEF LSInv, LSTypes
<1> QED BY <1>4, <1>5, <1>o DEF MatchMail

\* Steps that change no session.
LEMMA SameRows ==
    ASSUME LSInv, UNCHANGED <<mailRequired, aborts, session, card, topUps, matched>>,
           shop' \in [ShopOrders -> {"unused", "open", "paid"}],
           \A o \in ShopOrders : shop[o] = "paid" => shop'[o] = "paid",
           events \subseteq events', events' \subseteq ShopOrders,
           faults' \in 0 .. MaxFaults, faults' = faults \/ faults' = faults + 1,
           calls' \subseteq Calls,
           \A c \in calls' : c.pc \in {"complete", "finish"} => c \in calls,
           \/ faults' = faults + 1
           \/ \A c \in calls : c.pc \in {"complete", "finish"} => c \in calls'
    PROVE  LSInv'
<1>1. LSTypes' /\ MatchedOK' /\ \A s \in Sessions : Agrees(s)
  BY DEF LSInv, LSTypes, CardTypes, MatchedOK, Agrees, SameBase
<1>2. faults \in Nat /\ (faults' > 0 \/ faults' = faults)
  BY LSConstants DEF LSInv, LSTypes
<1>3. \A s \in Sessions : Step("finish", s) \in calls => Step("finish", s) \in calls' \/ faults' > 0
  <2>1. \A s : Step("finish", s).pc = "finish"
    BY DEF Step
  <2> QED BY <1>2, <2>1
<1> QED BY <1>1, <1>2, <1>3, SoftStep

\* The customer, the poller, the administrator, and what ends without a change.
LEMMA SameRowsInv ==
    ASSUME LSInv,
           \/ \E o \in ShopOrders : CustomerPays(o) \/ WorkerRecordLdxpMailEvent(o)
           \/ \E s \in Sessions : AdminRetryLdxpTopupVerify(s)
           \/ \E c \in calls : MatchNothing(c) \/ VerifyChangesNothing(c) \/ TransactionFails(c)
           \/ Crash
           \/ UNCHANGED vars
    PROVE  LSInv'
<1> USE DEF config, benefits
<1>0. /\ calls \subseteq Calls /\ events \subseteq ShopOrders /\ faults \in 0 .. MaxFaults
      /\ shop \in [ShopOrders -> {"unused", "open", "paid"}]
  BY DEF LSInv, LSTypes
<1>1. ASSUME NEW o \in ShopOrders, CustomerPays(o) PROVE LSInv'
  <2>1. shop' = [shop EXCEPT ![o] = "paid"]
        /\ UNCHANGED <<mailRequired, aborts, session, card, topUps, matched, events, calls, faults>>
    BY <1>1 DEF CustomerPays
  <2>2. /\ shop' \in [ShopOrders -> {"unused", "open", "paid"}]
        /\ \A p \in ShopOrders : shop[p] = "paid" => shop'[p] = "paid"
    BY <1>0, <2>1
  <2> QED BY <1>0, <2>1, <2>2, SameRows
<1>2. ASSUME NEW o \in ShopOrders, WorkerRecordLdxpMailEvent(o) PROVE LSInv'
  <2>1. /\ events' = events \cup {o} /\ calls' = calls \cup {Match(o)}
        /\ UNCHANGED <<mailRequired, aborts, session, card, topUps, matched, shop, faults>>
    BY <1>2 DEF WorkerRecordLdxpMailEvent, Begin
  <2>2. Match(o) \in Calls /\ Match(o).pc = "match"
    BY DEF Match, Calls
  <2> QED BY <1>0, <2>1, <2>2, SameRows
<1>3. ASSUME NEW s \in Sessions, AdminRetryLdxpTopupVerify(s) PROVE LSInv'
  <2>1. /\ calls' = calls \cup {Step("verify", s)}
        /\ UNCHANGED <<mailRequired, aborts, session, card, topUps, matched, shop, events, faults>>
    BY <1>3 DEF AdminRetryLdxpTopupVerify, Begin
  <2>2. Step("verify", s) \in Calls /\ Step("verify", s).pc = "verify"
    BY DEF Step, Calls
  <2> QED BY <1>0, <2>1, <2>2, SameRows
<1>4. ASSUME NEW c \in calls, MatchNothing(c) \/ VerifyChangesNothing(c) PROVE LSInv'
  <2>1. /\ calls' = calls \ {c} /\ c.pc \in {"match", "verify"}
        /\ UNCHANGED <<mailRequired, aborts, session, card, topUps, matched, shop, events, faults>>
    BY <1>4 DEF MatchNothing, VerifyChangesNothing, VerifyBegins, Return
  <2> QED BY <1>0, <2>1, SameRows
<1>5. ASSUME calls' \subseteq calls, faults < MaxFaults, faults' = faults + 1,
             UNCHANGED <<mailRequired, aborts, session, card, topUps, matched, shop, events>>
      PROVE  LSInv'
  <2>1. faults' \in 0 .. MaxFaults
    BY <1>0, <1>5, LSConstants
  <2> QED BY <1>0, <1>5, <2>1, SameRows
<1>6. ASSUME NEW c \in calls, TransactionFails(c) PROVE LSInv'
  BY <1>5, <1>6 DEF TransactionFails, Return
<1>7. CASE Crash
  BY <1>5, <1>7 DEF Crash
<1>8. CASE UNCHANGED vars
  <2>1. UNCHANGED <<mailRequired, aborts, session, card, topUps, matched, shop, events, calls, faults>>
    BY <1>8 DEF vars
  <2> QED BY <1>0, <2>1, SameRows
<1> QED BY <1>1, <1>2, <1>3, <1>4, <1>6, <1>7, <1>8

\* The customer redeems a card that nobody used.
LEMMA RedeemInv ==
    ASSUME LSInv, NEW u \in Users, NEW o \in ShopOrders, Redeem(u, o)
    PROVE  LSInv'
<1>k. PICK k \in [user : Users \cup {None}, byHand : BOOLEAN, verified : SUBSET Sessions] :
        /\ k.user = u /\ k.byHand = TRUE /\ card' = [card EXCEPT ![o] = k]
  BY DEF Redeem
<1>1. /\ card[o].user = None
      /\ UNCHANGED <<mailRequired, aborts, session, shop, events, matched, topUps, calls, faults>>
  BY DEF Redeem, config
<1>2. /\ card'[o] = k /\ \A p \in ShopOrders : p # o => card'[p] = card[p]
      /\ CardTypes'
  BY <1>k, LSConstants DEF LSInv, LSTypes, CardTypes
<1>3. LSTypes' /\ MatchedOK' /\ OneSuccess'
  BY <1>1, <1>2 DEF LSInv, LSTypes, MatchedOK, OneSuccess, SameOrder
<1>4. \A c \in calls' : SettlingOK(c)'
  BY <1>1 DEF LSInv, SettlingOK, Duplicate
<1>5. ASSUME NEW s \in Sessions PROVE HistoryOK(s)' /\ CreditOK(s)'
  <2>1. HistoryOK(s) /\ CreditOK(s) /\ session[s] \in SessionRows
    BY RowFacts
  <2>2. HistoryOK(s)'
    BY <1>1, <2>1 DEF HistoryOK
  <2>3. CASE session[s].status # "success" /\ session[s].credited = 0
    BY <1>1, <2>2, <2>3 DEF CreditOK
  <2>4. CASE session[s].status = "success" \/ session[s].credited # 0
    <3>1. session[s].order \in ShopOrders /\ session[s].user # None
      BY <2>1, <2>4 DEF HistoryOK, SettledStatuses, SessionRows
    <3>2. card[session[s].order].user = session[s].user =>
             card'[session[s].order] = card[session[s].order]
      BY <1>1, <1>2, <3>1
    <3>3. Step("finish", s)' = Step("finish", s)
      BY DEF Step
    <3>4. CreditOK(s)'
      BY <1>1, <2>1, <3>2, <3>3 DEF CreditOK
    <3> QED BY <2>2, <3>4
  <2> QED BY <2>3, <2>4
<1>6. ASSUME NEW p \in ShopOrders PROVE BenefitOK(p)'
  <2>1. BenefitOK(p) /\ (Winner(p)' <=> Winner(p))
    BY <1>1 DEF LSInv, Winner
  <2> QED BY <1>1, <1>2, <1>k, <2>1 DEF BenefitOK
<1> QED BY <1>3, <1>4, <1>5, <1>6 DEF LSInv

-----------------------------------------------------------------------------
(* Verification and settlement: one session moves on, under ldxpVerifyMu.  *)

LEMMA HardRow ==
    ASSUME LSInv, NEW s \in Sessions, NEW r \in SessionRows,
           session' = [session EXCEPT ![s] = r],
           SameBase(r, session[s]), session[s].mail => r.mail, session[s].status # "success",
           UNCHANGED <<mailRequired, aborts, shop, events, matched>>,
           LSTypes', faults <= faults',
           \A o \in ShopOrders : /\ card[o].user # None => card'[o] = card[o]
                                 /\ topUps[o] # None => topUps'[o] = topUps[o],
           \A o \in ShopOrders :
              \/ card'[o] = card[o] /\ topUps'[o] = topUps[o]
              \/ o = r.order /\ r.status = "success"
              \/ ~mailRequired /\ ~aborts /\ faults' > 0,
           r.status = "success" => ~Duplicate(s),
           HistoryOK(s)', CreditOK(s)',
           \A c \in calls' : SettlingOK(c)',
           \A t \in Sessions : t # s /\ Step("finish", t) \in calls =>
              Step("finish", t) \in calls' \/ faults' > 0
    PROVE  LSInv'
<1>0. /\ session'[s] = r /\ \A t \in Sessions : t # s => session'[t] = session[t]
      /\ faults \in Nat /\ faults' \in Nat
  BY OneRow, LSConstants DEF LSInv, LSTypes
<1>1. r.order = session[s].order
  BY DEF SameBase
<1>2. MatchedOK'
  BY <1>0, <1>1, MatchedStays
<1>3. OneSuccess'
  <2> SUFFICES ASSUME NEW t \in Sessions, t # s, r.status = "success",
                      session[t].status = "success", r.order = session[t].order
               PROVE  FALSE
    BY <1>0 DEF LSInv, OneSuccess, SameOrder
  <2> QED BY <1>1 DEF Duplicate
<1>4. ASSUME NEW t \in Sessions, t # s PROVE HistoryOK(t)' /\ CreditOK(t)'
  <2>1. HistoryOK(t) /\ CreditOK(t) /\ session[t] \in SessionRows /\ session'[t] = session[t]
    BY <1>0, <1>4, RowFacts
  <2>2. HistoryOK(t)'
    BY <2>1 DEF HistoryOK
  <2>3. CASE session[t].status # "success" /\ session[t].credited = 0
    BY <2>1, <2>2, <2>3 DEF CreditOK
  <2>4. CASE session[t].status = "success" \/ session[t].credited # 0
    <3>1. session[t].order \in ShopOrders /\ session[t].user # None
      BY <2>1, <2>4 DEF HistoryOK, SettledStatuses, SessionRows
    <3>2. /\ card[session[t].order].user = session[t].user =>
                card'[session[t].order] = card[session[t].order]
          /\ topUps[session[t].order] = session[t].user =>
                topUps'[session[t].order] = topUps[session[t].order]
      BY <3>1
    <3>3. Step("finish", t)' = Step("finish", t)
      BY DEF Step
    <3>4. faults > 0 => faults' > 0
      BY <1>0
    <3>5. faults > 0 \/ Step("finish", t) \in calls => faults' > 0 \/ Step("finish", t) \in calls'
      BY <1>4, <3>4
    <3>6. CreditOK(t)'
      BY <2>1, <3>2, <3>3, <3>4, <3>5 DEF CreditOK
    <3> QED BY <2>2, <3>6
  <2> QED BY <2>3, <2>4
<1>5. ASSUME NEW o \in ShopOrders PROVE BenefitOK(o)'
  <2>1. Winner(o) => Winner(o)'
    BY <1>0 DEF Winner
  <2>2. o = r.order /\ r.status = "success" => Winner(o)'
    BY <1>0 DEF Winner
  <2>3. BenefitOK(o) /\ (faults > 0 => faults' > 0)
    BY <1>0 DEF LSInv
  <2> QED BY <2>1, <2>2, <2>3 DEF BenefitOK
<1> QED BY <1>2, <1>3, <1>4, <1>5 DEF LSInv

\* A verification goes on: nobody settles, and the session is not successful.
LEMMA VerifyFacts ==
    ASSUME LSInv, NEW c \in calls, VerifyGoesOn(c)
    PROVE  /\ c.session \in Sessions /\ c.pc = "verify"
           /\ \A d \in calls : d.pc \notin {"complete", "finish"}
           /\ session[c.session].status # "success"
           /\ mailRequired => session[c.session].order \in events
           /\ session[c.session].credited = 1 => faults > 0
<1>1. c.pc = "verify" /\ c.session \in Sessions
  BY DEF VerifyGoesOn, VerifyBegins, LSInv, LSTypes, Calls
<1>2. \A d \in calls : d.pc \notin {"complete", "finish"}
  BY DEF VerifyGoesOn, VerifyBegins, MutexFree, Settling
<1>3. session[c.session].status # "success" /\ (mailRequired => session[c.session].order \in events)
  BY DEF VerifyGoesOn, AlreadyRedeemed, WaitsForMail
<1>4. Step("finish", c.session) \notin calls
  BY <1>2 DEF Step
<1> QED BY <1>1, <1>2, <1>3, <1>4, RowFacts DEF CreditOK

\* The verification ends the session in a status other than success and gives
\* nothing, and the card and the top_ups row stay.
LEMMA VerifyRow ==
    ASSUME LSInv, NEW c \in calls, VerifyGoesOn(c), NEW r \in SessionRows,
           session' = [session EXCEPT ![c.session] = r],
           SameBase(r, session[c.session]), session[c.session].mail => r.mail,
           r.status # "success", r.credited = session[c.session].credited,
           UNCHANGED <<mailRequired, aborts, shop, events, matched, card, topUps>>,
           faults' \in 0 .. MaxFaults, faults <= faults', calls' \subseteq Calls,
           HistoryOK(c.session)', \A d \in calls' : SettlingOK(d)'
    PROVE  LSInv'
<1>s. PICK s \in Sessions : s = c.session
  BY VerifyFacts
<1>1. /\ \A d \in calls : d.pc \notin {"complete", "finish"}
      /\ session[s].status # "success" /\ (session[s].credited = 1 => faults > 0)
  BY <1>s, VerifyFacts
<1>2. session \in [Sessions -> SessionRows] /\ CreditOK(s) /\ faults \in Nat /\ faults' \in Nat
  BY RowFacts, LSConstants DEF LSInv, LSTypes
<1>3. session'[s] = r /\ session' \in [Sessions -> SessionRows]
  BY <1>2, <1>s, OneRow
<1>4. LSTypes'
  BY <1>3 DEF LSInv, LSTypes, CardTypes
<1>5. CreditOK(s)'
  <2>1. r.credited = 1 => faults' > 0
    BY <1>1, <1>2, <1>s
  <2> QED BY <1>1, <1>2, <1>3, <1>s, <2>1 DEF CreditOK, SameBase
<1>6. \A t \in Sessions : Step("finish", t) \notin calls
  BY <1>1 DEF Step
<1> QED BY <1>1, <1>4, <1>5, <1>6, <1>s, HardRow

\* What a session that passed has behind it.
LEMMA PassesHistory ==
    ASSUME LSInv, NEW c \in calls, VerifyGoesOn(c), Passes(c.session), NEW r \in SessionRows,
           session' = [session EXCEPT ![c.session] = r],
           SameBase(r, session[c.session]), r.verified = TRUE, r.status \in SettledStatuses,
           UNCHANGED <<mailRequired, shop, events>>
    PROVE  /\ HistoryOK(c.session)' /\ session[c.session].order \in ShopOrders
           /\ session[c.session].user \in Users
<1>s. PICK s \in Sessions : s = c.session
  BY VerifyFacts
<1>1. /\ session[s].order # None /\ session[s].reported /\ session[s].amountOk
      /\ mailRequired => session[s].order \in events
  BY <1>s, VerifyFacts DEF Passes, FieldsOK
<1>2. session'[s] = r /\ HistoryOK(s) /\ session[s] \in SessionRows
  BY <1>s, RowFacts, OneRow
<1>3. HistoryOK(s)'
  BY <1>1, <1>2, <1>s DEF HistoryOK, SameBase, SettledStatuses, OpenStatuses, EndedStatuses
<1>4. session[s].order \in ShopOrders /\ session[s].user \in Users
  BY <1>1, <1>2 DEF HistoryOK, SessionRows
<1> QED BY <1>3, <1>4, <1>s

\* A request returns, and nobody settles.
LEMMA VerifyReturns ==
    ASSUME LSInv, NEW c \in calls, VerifyGoesOn(c), Return(c)
    PROVE  calls' \subseteq Calls /\ \A d \in calls' : SettlingOK(d)'
<1>1. calls' \subseteq calls /\ calls \subseteq Calls
  BY DEF Return, LSInv, LSTypes
<1> QED BY <1>1, VerifyFacts DEF SettlingOK

LEMMA VerifyRejectsInv ==
    ASSUME LSInv, NEW c \in calls, VerifyRejects(c)
    PROVE  LSInv'
<1>s. PICK s \in Sessions : s = c.session
  BY VerifyFacts DEF VerifyRejects
<1>0. session[s] \in SessionRows /\ HistoryOK(s) /\ session \in [Sessions -> SessionRows]
  BY RowFacts
<1>r. PICK r \in SessionRows : r = VerifyFailed(session[s])
  BY <1>0, EndRows DEF LSInv
<1>1. /\ VerifyGoesOn(c) /\ session' = [session EXCEPT ![s] = r] /\ Return(c)
      /\ UNCHANGED <<mailRequired, aborts, shop, events, matched, card, topUps, faults>>
  BY <1>s, <1>r DEF VerifyRejects, config, benefits
<1>2. /\ SameBase(r, session[s]) /\ r.status = "verify_failed" /\ r.verified = session[s].verified
      /\ r.credited = session[s].credited /\ (session[s].mail => r.mail)
  BY <1>0, <1>r, EndRows DEF LSInv
<1>3. session'[s] = r
  BY <1>0, <1>1, OneRow
<1>4. HistoryOK(s)'
  BY <1>0, <1>1, <1>2, <1>3
  DEF HistoryOK, SameBase, SettledStatuses, OpenStatuses, EndedStatuses
<1>5. faults' \in 0 .. MaxFaults /\ faults <= faults'
  BY <1>1, LSConstants DEF LSInv, LSTypes
<1> QED BY <1>1, <1>2, <1>4, <1>5, <1>s, VerifyReturns, VerifyRow

LEMMA VerifyPackageInv ==
    ASSUME LSInv, NEW c \in calls, VerifyPackage(c)
    PROVE  LSInv'
<1>s. PICK s \in Sessions : s = c.session
  BY VerifyFacts DEF VerifyPackage
<1>0. session[s] \in SessionRows /\ session \in [Sessions -> SessionRows]
  BY RowFacts
<1>r. PICK r \in SessionRows : r = Verified(session[s])
  BY <1>0, VerifiedRow DEF LSInv
<1>1. /\ VerifyGoesOn(c) /\ Passes(s) /\ session[s].purpose = "value_package"
      /\ session' = [session EXCEPT ![s] = r] /\ Continue(c, Step("complete", s))
      /\ UNCHANGED <<mailRequired, aborts, shop, events, matched, card, topUps, faults>>
  BY <1>s, <1>r DEF VerifyPackage, config, benefits
<1>2. /\ SameBase(r, session[s]) /\ r.status = "verified" /\ r.verified = TRUE
      /\ r.credited = session[s].credited /\ (session[s].mail => r.mail)
  BY <1>0, <1>r, VerifiedRow DEF LSInv
<1>3. session'[s] = r /\ \A t \in Sessions : t # s => session'[t] = session[t]
  BY <1>0, <1>1, OneRow
<1>4. HistoryOK(s)'
  BY <1>1, <1>2, <1>s, PassesHistory DEF SettledStatuses
<1>5. faults' \in 0 .. MaxFaults /\ faults <= faults'
  BY <1>1, LSConstants DEF LSInv, LSTypes
<1>6. /\ Step("complete", s) \in Calls /\ Step("complete", s).pc = "complete"
      /\ Step("complete", s).session = s
  BY DEF Step, Calls
<1>7. calls' \subseteq Calls /\ \A d \in calls' : d.pc \in {"complete", "finish"} => d = Step("complete", s)
  BY <1>1, <1>6, VerifyFacts DEF Continue, LSInv, LSTypes
<1>8. ~Duplicate(s)'
  BY <1>1, <1>2, <1>3 DEF Passes, Duplicate, SameBase
<1>9. \A d \in calls' : SettlingOK(d)'
  BY <1>1, <1>2, <1>3, <1>6, <1>7, <1>8 DEF SettlingOK, SameBase
<1> QED BY <1>1, <1>2, <1>4, <1>5, <1>7, <1>9, <1>s, VerifyRow

\* The redemption is refused or fails: nothing is given.
LEMMA RedeemFailedInv ==
    ASSUME LSInv, NEW c \in calls, VerifyTopUp(c), Return(c),
           session' = [session EXCEPT ![c.session] = RedeemFailed(session[c.session])],
           faults' \in 0 .. MaxFaults, faults <= faults',
           UNCHANGED <<mailRequired, aborts, shop, events, matched, card, topUps>>
    PROVE  LSInv'
<1>1. VerifyGoesOn(c) /\ Passes(c.session)
  BY DEF VerifyTopUp
<1>s. PICK s \in Sessions : s = c.session
  BY <1>1, VerifyFacts
<1>0. session[s] \in SessionRows /\ session \in [Sessions -> SessionRows]
  BY RowFacts
<1>r. PICK r \in SessionRows : r = RedeemFailed(session[s])
  BY <1>0, EndRows DEF LSInv
<1>2. /\ SameBase(r, session[s]) /\ r.status = "redeem_failed" /\ r.verified = TRUE
      /\ r.credited = session[s].credited /\ (session[s].mail => r.mail)
  BY <1>0, <1>r, EndRows DEF LSInv
<1>3. session' = [session EXCEPT ![c.session] = r]
  BY <1>r, <1>s
<1>4. HistoryOK(c.session)'
  BY <1>1, <1>2, <1>3, <1>s, PassesHistory DEF SettledStatuses
<1> QED BY <1>1, <1>2, <1>3, <1>4, <1>s, VerifyReturns, VerifyRow

\* A top-up's verification ends, with its card or its top_ups row.
LEMMA TopUpRow ==
    ASSUME LSInv, NEW c \in calls, VerifyTopUp(c), Return(c), NEW r \in SessionRows,
           session' = [session EXCEPT ![c.session] = r],
           SameBase(r, session[c.session]), session[c.session].mail => r.mail,
           r.verified = TRUE, r.status \in {"redeem_failed", "success"},
           UNCHANGED <<mailRequired, aborts, shop, events, matched>>,
           CardTypes', topUps' \in [ShopOrders -> Users \cup {None}],
           faults' \in 0 .. MaxFaults, faults <= faults',
           \A o \in ShopOrders : /\ card[o].user # None => card'[o] = card[o]
                                 /\ topUps[o] # None => topUps'[o] = topUps[o],
           \A o \in ShopOrders :
              \/ card'[o] = card[o] /\ topUps'[o] = topUps[o]
              \/ o = r.order /\ r.status = "success"
              \/ ~mailRequired /\ ~aborts /\ faults' > 0,
           CreditOK(c.session)'
    PROVE  LSInv'
<1>1. VerifyGoesOn(c) /\ Passes(c.session)
  BY DEF VerifyTopUp
<1>s. PICK s \in Sessions : s = c.session
  BY <1>1, VerifyFacts
<1>2. session' \in [Sessions -> SessionRows]
  BY <1>s, RowFacts, OneRow
<1>3. HistoryOK(s)'
  BY <1>1, <1>s, PassesHistory DEF SettledStatuses
<1>4. calls' \subseteq Calls /\ \A d \in calls' : SettlingOK(d)'
  BY <1>1, VerifyReturns
<1>5. LSTypes'
  BY <1>2, <1>4 DEF LSInv, LSTypes
<1>6. \A t \in Sessions : Step("finish", t) \notin calls
  BY <1>1, VerifyFacts DEF Step
<1>7. ~Duplicate(s) /\ session[s].status # "success"
  BY <1>1, <1>s, VerifyFacts DEF Passes
<1> QED BY <1>3, <1>4, <1>5, <1>6, <1>7, <1>s, HardRow

\* The facts about the session of a top-up's verification.
LEMMA TopUpFacts ==
    ASSUME LSInv, NEW c \in calls, VerifyTopUp(c)
    PROVE  /\ c.session \in Sessions /\ session[c.session] \in SessionRows
           /\ session[c.session].order \in ShopOrders /\ session[c.session].user \in Users
           /\ session[c.session].purpose = "topup" /\ ~Winner(session[c.session].order)
           /\ CreditOK(c.session) /\ BenefitOK(session[c.session].order)
           /\ session[c.session].credited = 1 => faults > 0 /\ ~aborts
           /\ session[c.session].credited \in {0, 1}
<1>1. VerifyGoesOn(c) /\ Passes(c.session) /\ session[c.session].purpose = "topup"
  BY DEF VerifyTopUp
<1>s. PICK s \in Sessions : s = c.session
  BY <1>1, VerifyFacts
<1>2. session[s] \in SessionRows /\ HistoryOK(s) /\ CreditOK(s)
  BY RowFacts
<1>3. session[s].order \in ShopOrders /\ session[s].user \in Users
  BY <1>1, <1>2, <1>s DEF Passes, FieldsOK, HistoryOK, SessionRows
<1>4. ~Winner(session[s].order)
  BY <1>1, <1>s, VerifyFacts DEF Passes, Duplicate, Winner
<1>5. session[s].credited = 1 => faults > 0 /\ ~aborts
  BY <1>1, <1>2, <1>s, VerifyFacts DEF CreditOK
<1>6. session[s].credited \in {0, 1}
  BY <1>2 DEF CreditOK, SessionRows
<1> QED BY <1>1, <1>2, <1>3, <1>4, <1>5, <1>6, <1>s DEF LSInv

LEMMA RedeemCardInv ==
    ASSUME LSInv, NEW c \in calls, RedeemCard(c)
    PROVE  LSInv'
<1>0. VerifyTopUp(c) /\ Return(c) /\ mailRequired
  BY DEF RedeemCard
<1>s. PICK s \in Sessions, o \in ShopOrders : s = c.session /\ o = session[s].order
  BY <1>0, TopUpFacts
<1>1. /\ session[s] \in SessionRows /\ session[s].user \in Users /\ session[s].purpose = "topup"
      /\ CreditOK(s) /\ session[s].credited \in {0, 1}
  BY <1>0, <1>s, TopUpFacts
<1>2. /\ card[o].user = None /\ card' = [card EXCEPT ![o].user = session[s].user]
      /\ session' = [session EXCEPT ![s] = Credited(Succeeded(session[s]))]
      /\ UNCHANGED <<mailRequired, aborts, shop, events, matched, topUps, faults>>
  BY <1>s DEF RedeemCard, config
<1>q. PICK q \in SessionRows : q = Succeeded(session[s])
  BY <1>1, EndRows DEF LSInv
<1>3. /\ SameBase(q, session[s]) /\ q.status = "success" /\ q.verified = TRUE
      /\ q.credited = session[s].credited /\ (session[s].mail => q.mail)
  BY <1>1, <1>q, EndRows DEF LSInv
<1>r. PICK r \in SessionRows : r = Credited(q)
  BY CreditedRow
<1>4. /\ SameBase(r, q) /\ r.status = q.status /\ r.verified = q.verified
      /\ r.credited = q.credited + 1 /\ r.mail = q.mail
  BY <1>r, CreditedRow
<1>5. SameBase(r, session[s])
  BY <1>3, <1>4 DEF SameBase
<1>6. session' = [session EXCEPT ![s] = r] /\ session'[s] = r
  BY <1>2, <1>q, <1>r, RowFacts, OneRow
<1>7. card[o] \in [user : Users \cup {None}, byHand : BOOLEAN, verified : SUBSET Sessions]
      /\ ~card[o].byHand
  BY <1>2 DEF LSInv, LSTypes, CardTypes
<1>8. /\ card'[o].user = session[s].user /\ card'[o].byHand = card[o].byHand
      /\ \A p \in ShopOrders : p # o => card'[p] = card[p]
      /\ card' \in [ShopOrders -> [user : Users \cup {None}, byHand : BOOLEAN,
                                   verified : SUBSET Sessions]]
  BY <1>1, <1>2, <1>7 DEF LSInv, LSTypes, CardTypes
<1>9. CardTypes'
  BY <1>7, <1>8 DEF LSInv, LSTypes, CardTypes
<1>10. r.credited = 1
  <2>1. session[s].credited # 1
    BY <1>0, <1>1, <1>2, <1>s, LSConstants DEF CreditOK
  <2> QED BY <1>1, <1>3, <1>4, <2>1
<1>11. CreditOK(s)'
  <2>1. r.order = o /\ r.user = session[s].user /\ r.status = "success"
    BY <1>3, <1>4, <1>5, <1>s DEF SameBase
  <2> QED BY <1>0, <1>2, <1>6, <1>7, <1>8, <1>10, <2>1 DEF CreditOK
<1>12. /\ topUps' \in [ShopOrders -> Users \cup {None}]
       /\ faults' \in 0 .. MaxFaults /\ faults <= faults'
  BY <1>2, LSConstants DEF LSInv, LSTypes
<1>13. /\ \A p \in ShopOrders : /\ card[p].user # None => card'[p] = card[p]
                                /\ topUps[p] # None => topUps'[p] = topUps[p]
       /\ \A p \in ShopOrders : \/ card'[p] = card[p] /\ topUps'[p] = topUps[p]
                                \/ p = r.order /\ r.status = "success"
  BY <1>2, <1>3, <1>4, <1>5, <1>8, <1>s DEF SameBase
<1> QED BY <1>0, <1>2, <1>3, <1>4, <1>5, <1>6, <1>9, <1>11, <1>12, <1>13, <1>s, TopUpRow

\* Success for a card or a top_ups row that is already there: the user's own.
LEMMA FoundInv ==
    ASSUME LSInv, NEW c \in calls, VerifyTopUp(c), Return(c),
           session' = [session EXCEPT ![c.session] = Succeeded(session[c.session])],
           IF mailRequired THEN card[session[c.session].order].user = session[c.session].user
                           ELSE topUps[session[c.session].order] = session[c.session].user,
           UNCHANGED <<mailRequired, aborts, shop, events, matched, card, topUps, faults>>
    PROVE  LSInv'
<1>s. PICK s \in Sessions, o \in ShopOrders : s = c.session /\ o = session[s].order
  BY TopUpFacts
<1>1. /\ session[s] \in SessionRows /\ session[s].user \in Users /\ session[s].purpose = "topup"
      /\ CreditOK(s) /\ session[s].credited \in {0, 1} /\ BenefitOK(o) /\ ~Winner(o)
      /\ session[s].user # None
  BY <1>s, TopUpFacts, LSConstants
<1>r. PICK r \in SessionRows : r = Succeeded(session[s])
  BY <1>1, EndRows DEF LSInv
<1>2. /\ SameBase(r, session[s]) /\ r.status = "success" /\ r.verified = TRUE
      /\ r.credited = session[s].credited /\ (session[s].mail => r.mail)
  BY <1>1, <1>r, EndRows DEF LSInv
<1>3. session' = [session EXCEPT ![s] = r] /\ session'[s] = r
  BY <1>r, <1>s, RowFacts, OneRow
<1>4. /\ mailRequired => card[o].byHand /\ card[o].user = session[s].user
      /\ ~mailRequired => ~aborts /\ faults > 0 /\ topUps[o] = session[s].user
  BY <1>1, <1>s DEF BenefitOK
<1>5. CreditOK(s)'
  <2>1. r.order = o /\ r.user = session[s].user /\ r.purpose = "topup"
    BY <1>1, <1>2, <1>s DEF SameBase
  <2>2. mailRequired => r.credited # 1
    BY <1>1, <1>2, <1>4, <1>s DEF CreditOK
  <2> QED BY <1>1, <1>2, <1>3, <1>4, <2>1, <2>2 DEF CreditOK
<1>6. /\ topUps' \in [ShopOrders -> Users \cup {None}] /\ CardTypes'
      /\ faults' \in 0 .. MaxFaults /\ faults <= faults'
  BY LSConstants DEF LSInv, LSTypes, CardTypes
<1> QED BY <1>2, <1>3, <1>5, <1>6, <1>s, TopUpRow

LEMMA UsedCardInv ==
    ASSUME LSInv, NEW c \in calls, UsedCard(c)
    PROVE  LSInv'
<1>0. /\ VerifyTopUp(c) /\ Return(c) /\ mailRequired
      /\ UNCHANGED <<mailRequired, aborts, shop, events, matched, card, topUps, faults>>
  BY DEF UsedCard, config, benefits
<1>1. PICK recovered \in Recovered(c.session) :
        session' = [session EXCEPT ![c.session] = IF recovered THEN Succeeded(session[c.session])
                                                  ELSE RedeemFailed(session[c.session])]
  BY DEF UsedCard
<1>2. recovered => card[session[c.session].order].user = session[c.session].user
  BY DEF Recovered
<1>3. faults' \in 0 .. MaxFaults /\ faults <= faults'
  BY <1>0, LSConstants DEF LSInv, LSTypes
<1>4. CASE recovered
  BY <1>0, <1>1, <1>2, <1>4, FoundInv
<1>5. CASE ~recovered
  BY <1>0, <1>1, <1>3, <1>5, RedeemFailedInv
<1> QED BY <1>4, <1>5

LEMMA RedeemCardFailsInv ==
    ASSUME LSInv, NEW c \in calls, RedeemCardFails(c)
    PROVE  LSInv'
<1>1. /\ VerifyTopUp(c) /\ Return(c) /\ faults < MaxFaults /\ faults' = faults + 1
      /\ session' = [session EXCEPT ![c.session] = RedeemFailed(session[c.session])]
      /\ UNCHANGED <<mailRequired, aborts, shop, events, matched, card, topUps>>
  BY DEF RedeemCardFails, config, benefits
<1>2. faults' \in 0 .. MaxFaults /\ faults <= faults'
  BY <1>1, LSConstants DEF LSInv, LSTypes
<1> QED BY <1>1, <1>2, RedeemFailedInv

\* Without mail: a top_ups row is inserted, with the quota or (a failed
\* statement) perhaps without, and success is stored or (the same) not.
LEMMA InsertedInv ==
    ASSUME LSInv, NEW c \in calls, VerifyTopUp(c), Return(c), ~mailRequired, NEW r \in SessionRows,
           NEW q \in SessionRows,
           session' = [session EXCEPT ![c.session] = r],
           q \in {Succeeded(session[c.session]), RedeemFailed(session[c.session])},
           r \in {q, Credited(q)},
           q.status = "success" => r = Credited(q),
           q.status # "success" => ~aborts /\ faults' = faults + 1,
           topUps[session[c.session].order] = None,
           topUps' = [topUps EXCEPT ![session[c.session].order] = session[c.session].user],
           faults' \in 0 .. MaxFaults, faults' = faults \/ faults' = faults + 1,
           UNCHANGED <<mailRequired, aborts, shop, events, matched, card>>
    PROVE  LSInv'
<1>s. PICK s \in Sessions, o \in ShopOrders : s = c.session /\ o = session[s].order
  BY TopUpFacts
<1>1. /\ session[s] \in SessionRows /\ session[s].user \in Users /\ session[s].purpose = "topup"
      /\ CreditOK(s) /\ session[s].credited \in {0, 1} /\ session[s].user # None
  BY <1>s, TopUpFacts, LSConstants
<1>2. session[s].credited = 0
  BY <1>1, <1>s DEF CreditOK
<1>3. /\ SameBase(q, session[s]) /\ q.status \in {"redeem_failed", "success"} /\ q.verified = TRUE
      /\ q.credited = 0 /\ (session[s].mail => q.mail)
  <2>1. CASE q = Succeeded(session[s])
    BY <1>1, <1>2, <2>1, EndRows DEF LSInv
  <2>2. CASE q = RedeemFailed(session[s])
    BY <1>1, <1>2, <2>2, EndRows DEF LSInv
  <2> QED BY <1>s, <2>1, <2>2
<1>4. /\ SameBase(r, q) /\ r.status = q.status /\ r.verified = TRUE
      /\ r.credited \in {0, 1} /\ r.mail = q.mail
      /\ r.status = "success" => r.credited = 1
  <2>1. CASE r = q
    <3>1. q.status # "success"
      <4> SUFFICES ASSUME q.status = "success" PROVE FALSE
        OBVIOUS
      <4>1. r.credited = q.credited + 1
        BY CreditedRow
      <4> QED BY <1>3, <2>1, <4>1
    <3> QED BY <1>3, <2>1, <3>1 DEF SameBase
  <2>2. CASE r = Credited(q)
    BY <1>3, <2>2, CreditedRow
  <2> QED BY <2>1, <2>2
<1>5. /\ SameBase(r, session[s]) /\ r.order = o /\ r.user = session[s].user /\ r.purpose = "topup"
  BY <1>1, <1>3, <1>4, <1>s DEF SameBase
<1>6. /\ session'[s] = r
      /\ topUps'[o] = session[s].user /\ \A p \in ShopOrders : p # o => topUps'[p] = topUps[p]
      /\ topUps' \in [ShopOrders -> Users \cup {None}]
  BY <1>1, <1>s, RowFacts, OneRow DEF LSInv, LSTypes
<1>7. faults \in Nat /\ faults <= faults'
  BY LSConstants DEF LSInv, LSTypes
<1>8. r.status # "success" => ~aborts /\ faults' > 0
  BY <1>4, <1>7
<1>9. CreditOK(s)'
  BY <1>4, <1>5, <1>6, <1>8 DEF CreditOK
<1>10. CardTypes'
  BY DEF LSInv, LSTypes, CardTypes
<1>11. /\ \A p \in ShopOrders : /\ card[p].user # None => card'[p] = card[p]
                                /\ topUps[p] # None => topUps'[p] = topUps[p]
       /\ \A p \in ShopOrders : \/ card'[p] = card[p] /\ topUps'[p] = topUps[p]
                                \/ p = r.order /\ r.status = "success"
                                \/ ~mailRequired /\ ~aborts /\ faults' > 0
  BY <1>5, <1>6, <1>8, <1>s
<1> QED BY <1>3, <1>4, <1>5, <1>6, <1>7, <1>9, <1>10, <1>11, <1>s, TopUpRow

LEMMA DirectTopUpInv ==
    ASSUME LSInv, NEW c \in calls, DirectTopUp(c)
    PROVE  LSInv'
<1>0. /\ VerifyTopUp(c) /\ Return(c) /\ ~mailRequired
      /\ UNCHANGED <<mailRequired, aborts, shop, events, matched, card, faults>>
  BY DEF DirectTopUp, config
<1>s. PICK s \in Sessions, o \in ShopOrders : s = c.session /\ o = session[s].order
  BY <1>0, TopUpFacts
<1>1. faults' \in 0 .. MaxFaults /\ faults <= faults'
  BY <1>0, LSConstants DEF LSInv, LSTypes
<1>2. CASE /\ topUps[o] = None /\ topUps' = [topUps EXCEPT ![o] = session[s].user]
           /\ session' = [session EXCEPT ![s] = Credited(Succeeded(session[s]))]
  <2>q. PICK q \in SessionRows : q = Succeeded(session[s])
    BY RowFacts, EndRows DEF LSInv
  <2>r. PICK r \in SessionRows : r = Credited(q)
    BY CreditedRow
  <2>1. q.status = "success"
    BY <2>q, RowFacts, EndRows DEF LSInv
  <2> QED BY <1>0, <1>1, <1>2, <1>s, <2>q, <2>r, <2>1, InsertedInv
<1>3. CASE /\ topUps[o] # None /\ UNCHANGED topUps
           /\ session' = [session EXCEPT ![s] = IF topUps[o] = session[s].user
                                                THEN Succeeded(session[s])
                                                ELSE RedeemFailed(session[s])]
  <2>1. CASE topUps[o] = session[s].user
    BY <1>0, <1>3, <1>s, <2>1, FoundInv
  <2>2. CASE topUps[o] # session[s].user
    BY <1>0, <1>1, <1>3, <1>s, <2>2, RedeemFailedInv
  <2> QED BY <2>1, <2>2
<1> QED BY <1>2, <1>3, <1>s DEF DirectTopUp

LEMMA DirectTopUpFailsInv ==
    ASSUME LSInv, NEW c \in calls, DirectTopUpFails(c)
    PROVE  LSInv'
<1>0. /\ VerifyTopUp(c) /\ Return(c) /\ ~mailRequired /\ ~aborts
      /\ faults < MaxFaults /\ faults' = faults + 1
      /\ UNCHANGED <<mailRequired, aborts, shop, events, matched, card>>
  BY DEF DirectTopUpFails, config
<1>s. PICK s \in Sessions, o \in ShopOrders : s = c.session /\ o = session[s].order
  BY <1>0, TopUpFacts
<1>1. faults' \in 0 .. MaxFaults /\ faults <= faults'
  BY <1>0, LSConstants DEF LSInv, LSTypes
<1>q. PICK q \in SessionRows : q = RedeemFailed(session[s])
  BY RowFacts, EndRows DEF LSInv
<1>2. q.status = "redeem_failed"
  BY <1>q, RowFacts, EndRows DEF LSInv
<1>r. PICK r \in SessionRows : r = Credited(q)
  BY CreditedRow
<1>3. CASE session' = [session EXCEPT ![s] = q] /\ UNCHANGED topUps
  BY <1>0, <1>1, <1>3, <1>q, <1>s, RedeemFailedInv
<1>4. CASE /\ topUps[o] = None /\ topUps' = [topUps EXCEPT ![o] = session[s].user]
           /\ session' = [session EXCEPT ![s] = q]
  BY <1>0, <1>1, <1>2, <1>4, <1>q, <1>s, InsertedInv
<1>5. CASE /\ topUps[o] = None /\ topUps' = [topUps EXCEPT ![o] = session[s].user]
           /\ session' = [session EXCEPT ![s] = r]
  BY <1>0, <1>1, <1>2, <1>5, <1>q, <1>r, <1>s, InsertedInv
<1> QED BY <1>3, <1>4, <1>5, <1>q, <1>r, <1>s DEF DirectTopUpFails

\* A value package's settlement: the only request that settles moves on.
LEMMA SettleRow ==
    ASSUME LSInv, NEW c \in calls, c.pc \in {"complete", "finish"}, NEW r \in SessionRows,
           session' = [session EXCEPT ![c.session] = r],
           SameBase(r, session[c.session]), session[c.session].mail => r.mail,
           r.verified, r.status \in SettledStatuses, r.credited \in {0, 1},
           UNCHANGED <<mailRequired, aborts, shop, events, matched, card, topUps, faults>>,
           r.status = "success" => r.credited = 1,
           \/ calls' = calls \ {c} /\ (r.credited = 0 \/ r.status = "success")
           \/ /\ calls' = (calls \ {c}) \cup {Step("finish", c.session)}
              /\ r.status = "verified" /\ r.credited = 1
    PROVE  LSInv'
<1>0. c \in Calls /\ calls \subseteq Calls
  BY DEF LSInv, LSTypes
<1>s. PICK s \in Sessions : s = c.session
  BY <1>0 DEF Calls
<1>1. /\ session[s].status = "verified" /\ session[s].purpose = "value_package" /\ ~Duplicate(s)
      /\ \A d \in calls : d.pc \in {"complete", "finish"} => d = c
  BY <1>s DEF LSInv, SettlingOK
<1>2. session[s] \in SessionRows /\ HistoryOK(s) /\ session \in [Sessions -> SessionRows]
  BY RowFacts
<1>3. /\ session'[s] = r /\ session' \in [Sessions -> SessionRows]
      /\ \A t \in Sessions : t # s => session'[t] = session[t]
  BY <1>2, <1>s, OneRow
<1>f. PICK f : f = Step("finish", s)
  OBVIOUS
<1>4. f \in Calls /\ f.pc = "finish" /\ f.session = s
  BY <1>f DEF Step, Calls
<1>5. calls' \subseteq Calls /\ \A d \in calls' : d.pc \in {"complete", "finish"} => d = f /\ f \in calls'
  BY <1>0, <1>1, <1>4, <1>f, <1>s
<1>6. LSTypes' /\ faults <= faults'
  BY <1>3, <1>5, LSConstants DEF LSInv, LSTypes, CardTypes
<1>7. HistoryOK(s)'
  BY <1>1, <1>2, <1>3, <1>s
  DEF HistoryOK, SameBase, SettledStatuses, OpenStatuses, EndedStatuses
<1>8. CreditOK(s)'
  <2>1. r.purpose = "value_package"
    BY <1>1, <1>s DEF SameBase
  <2>2. Step("finish", s)' = Step("finish", s)
    BY DEF Step
  <2> QED BY <1>3, <1>s, <2>1, <2>2 DEF CreditOK
<1>9. ~Duplicate(s)'
  BY <1>1, <1>3, <1>s DEF Duplicate, SameBase
<1>10. \A d \in calls' : SettlingOK(d)'
  <2>1. r.purpose = "value_package"
    BY <1>1, <1>s DEF SameBase
  <2>2. f \in calls' => r.status = "verified" /\ r.credited = 1
    <3>1. f \notin calls \ {c}
      BY <1>1, <1>4
    <3> QED BY <3>1
  <2> QED BY <1>3, <1>4, <1>5, <1>9, <2>1, <2>2 DEF SettlingOK
<1>11. \A t \in Sessions : t # s => Step("finish", t) \notin calls
  BY <1>1, <1>s DEF Step
<1> QED BY <1>1, <1>6, <1>7, <1>8, <1>10, <1>11, <1>s, HardRow

LEMMA SettleInv ==
    ASSUME LSInv, NEW c \in calls, SettleStep(c)
    PROVE  LSInv'
<1>0. c \in Calls /\ c.pc \in {"complete", "finish"}
      /\ UNCHANGED <<mailRequired, aborts, shop, events, matched, card, topUps, faults>>
  BY DEF LSInv, LSTypes, SettleStep, CompleteValuePackageOrder, PurchaseRefused, FinishSettlement,
         config, benefits
<1>s. PICK s \in Sessions : s = c.session
  BY <1>0 DEF Calls
<1>1. /\ session[s].status = "verified" /\ session[s] \in SessionRows /\ session[s].verified
      /\ session[s].credited \in {0, 1} /\ (c.pc = "finish" => session[s].credited = 1)
  <2>1. SettlingOK(c) /\ session[s] \in SessionRows /\ HistoryOK(s) /\ CreditOK(s)
    BY RowFacts DEF LSInv
  <2> QED BY <1>0, <1>s, <2>1 DEF SettlingOK, HistoryOK, CreditOK, SettledStatuses, SessionRows
<1>2. CASE CompleteValuePackageOrder(c)
  <2>1. /\ calls' = (calls \ {c}) \cup {Step("finish", s)}
        /\ session' = [session EXCEPT ![s] = IF session[s].credited = 0 THEN Credited(session[s])
                                                                       ELSE session[s]]
    BY <1>2, <1>s DEF CompleteValuePackageOrder, Continue
  <2>r. PICK r : r = IF session[s].credited = 0 THEN Credited(session[s]) ELSE session[s]
    OBVIOUS
  <2>2. /\ r \in SessionRows /\ SameBase(r, session[s]) /\ r.status = "verified" /\ r.verified
        /\ r.mail = session[s].mail /\ r.credited = 1
    <3>1. CASE session[s].credited = 0
      BY <1>1, <2>r, <3>1, CreditedRow
    <3>2. CASE session[s].credited # 0
      BY <1>1, <2>r, <3>2 DEF SameBase
    <3> QED BY <3>1, <3>2
  <2> QED BY <1>0, <1>s, <2>1, <2>2, <2>r, SettleRow DEF SettledStatuses
<1>3. CASE PurchaseRefused(c)
  <2>1. /\ calls' = calls \ {c} /\ session[s].credited = 0
        /\ session' = [session EXCEPT ![s] = RedeemFailed(session[s])]
    BY <1>3, <1>s DEF PurchaseRefused, Return
  <2>r. PICK r \in SessionRows : r = RedeemFailed(session[s])
    BY <1>1, EndRows DEF LSInv
  <2>2. /\ SameBase(r, session[s]) /\ r.status = "redeem_failed" /\ r.verified = TRUE
        /\ r.credited = 0 /\ (session[s].mail => r.mail)
    BY <1>1, <2>1, <2>r, EndRows DEF LSInv
  <2> QED BY <1>0, <1>s, <2>1, <2>2, <2>r, SettleRow DEF SettledStatuses
<1>4. CASE FinishSettlement(c)
  <2>1. /\ calls' = calls \ {c} /\ session[s].credited = 1
        /\ session' = [session EXCEPT ![s] = Succeeded(session[s])]
    BY <1>1, <1>4, <1>s DEF FinishSettlement, Return
  <2>r. PICK r \in SessionRows : r = Succeeded(session[s])
    BY <1>1, EndRows DEF LSInv
  <2>2. /\ SameBase(r, session[s]) /\ r.status = "success" /\ r.verified = TRUE
        /\ r.credited = 1 /\ (session[s].mail => r.mail)
    BY <1>1, <2>1, <2>r, EndRows DEF LSInv
  <2> QED BY <1>0, <1>s, <2>1, <2>2, <2>r, SettleRow DEF SettledStatuses
<1> QED BY <1>2, <1>3, <1>4 DEF SettleStep

LEMMA LSNext ==
    ASSUME LSInv, [Next]_vars
    PROVE  LSInv'
<1>1. ASSUME NEW s \in Sessions, CancelLdxpTopupSession(s) \/ RecordLdxpWorkerError(s)
      PROVE  LSInv'
  <2>1. /\ session[s].status \in OpenStatuses
        /\ \E status \in EndedStatuses : session' = [session EXCEPT ![s] = Ends(session[s], status)]
        /\ UNCHANGED <<mailRequired, aborts, card, topUps, events, faults, shop, matched, calls>>
    BY <1>1 DEF CancelLdxpTopupSession, RecordLdxpWorkerError, OpenStatuses, EndedStatuses,
                config, benefits
  <2> QED BY <2>1, EndsInv
<1>2. ASSUME NEW c \in calls, MatchStep(c) \/ VerifyStep(c) \/ SettleStep(c) \/ RedeemCardFails(c)
                              \/ DirectTopUpFails(c) \/ TransactionFails(c)
      PROVE  LSInv'
  BY <1>2, SameRowsInv, MatchMailInv, VerifyRejectsInv, VerifyPackageInv, RedeemCardInv, UsedCardInv,
     DirectTopUpInv, SettleInv, RedeemCardFailsInv, DirectTopUpFailsInv DEF MatchStep, VerifyStep
<1>3. ASSUME NEW s \in Sessions, TimePasses(s) \/ RecordLdxpWorkerResult(s) \/ AdminRetryLdxpTopupVerify(s)
      PROVE  LSInv'
  BY <1>3, TimePassesInv, WorkerResultInv, SameRowsInv
<1>4. ASSUME NEW o \in ShopOrders, CustomerPays(o) \/ WorkerRecordLdxpMailEvent(o) PROVE LSInv'
  BY <1>4, SameRowsInv
<1>5. CASE Crash \/ UNCHANGED vars
  BY <1>5, SameRowsInv
<1> QED BY <1>1, <1>2, <1>3, <1>4, <1>5, CreateSessionInv, ClaimInv, RecordLdxpQrInv, RedeemInv
        DEF Next

\* The rows of the sessions, the cards, the top_ups rows and the running
\* requests agree, however the requests interleave.
THEOREM LSInvariant == Spec => []LSInv
<1>1. Init => LSInv
  BY LSInit
<1>2. LSInv /\ [Next]_vars => LSInv'
  BY LSNext
<1> QED BY <1>1, <1>2, PTL DEF Spec

\* Every variable keeps its type, one request at a time settles (ldxpVerifyMu),
\* and a mail stays with the session it was matched to.
THEOREM LSTypeCorrect == Spec => []LSTypeOK
<1>1. LSInv => LSTypeOK
  <2> SUFFICES ASSUME LSInv PROVE LSTypeOK
    OBVIOUS
  <2>1. Cardinality(Settling) <= 1
    <3>1. CASE Settling = {}
      BY <3>1, FS_EmptySet
    <3>2. CASE Settling # {}
      <4>c. PICK c \in calls : c.pc \in {"complete", "finish"}
        BY <3>2 DEF Settling
      <4>1. Settling = {c}
        BY <4>c DEF LSInv, SettlingOK, Settling
      <4>2. Cardinality({c}) = 1
        BY FS_Singleton
      <4>3. Cardinality(Settling) = 1
        BY <4>1, <4>2
      <4> QED BY <4>3
    <3> QED BY <3>1, <3>2
  <2> QED BY <2>1 DEF LSInv, LSTypes, CardTypes, MatchedOK, LSTypeOK
<1> QED BY <1>1, LSInvariant, PTL

\* A shop order is credited once: two sessions of one order are never both
\* successful, and two benefits for it need a failure in between
\* (rejectDuplicateSuccessfulLdxpSessionTx under ldxpVerifyMu).
THEOREM OrderIsCreditedOnce == Spec => []OrderCreditedOnce
<1>1. LSInv => OrderCreditedOnce
  <2> SUFFICES ASSUME LSInv PROVE OrderCreditedOnce
    OBVIOUS
  <2>1. \A s, r \in Sessions :
          SameOrder(s, r) => ~(session[s].status = "success" /\ session[r].status = "success")
    BY DEF LSInv, OneSuccess
  <2>2. \A s \in Sessions : session[s].credited <= 1
    BY DEF LSInv, CreditOK
  <2>3. ASSUME NEW s \in Sessions, NEW r \in Sessions, SameOrder(s, r),
               session[s].credited = 1, session[r].credited = 1
        PROVE  /\ faults > 0
               /\ \E i \in {s, r} : /\ session[i].status # "success"
                                    /\ session[i].purpose = "value_package" \/ ~aborts
    <3>1. ASSUME NEW i \in Sessions, session[i].credited = 1, session[i].status # "success"
          PROVE  /\ session[i].purpose = "value_package" \/ ~aborts
                 /\ faults > 0 \/ Step("finish", i) \in calls
      BY <3>1, RowFacts DEF CreditOK
    <3>2. session[s].status # "success" \/ session[r].status # "success"
      BY <2>1, <2>3
    <3>3. ASSUME NEW i \in {s, r}, NEW j \in {s, r}, i # j, Step("finish", i) \in calls
          PROVE  faults > 0
      <4>f. PICK f \in calls : f = Step("finish", i)
        BY <3>3
      <4>1. f.pc = "finish" /\ f.session = i
        BY <4>f DEF Step
      <4>2. ~Duplicate(i) /\ \A d \in calls : d.pc = "finish" => d = f
        BY <4>1 DEF LSInv, SettlingOK
      <4>3. session[j].status # "success"
        BY <2>3, <3>3, <4>2 DEF Duplicate, SameOrder
      <4>4. Step("finish", j) \notin calls
        <5>1. Step("finish", j).pc = "finish" /\ Step("finish", j).session = j
          BY DEF Step
        <5> QED BY <3>3, <4>1, <4>2, <5>1
      <4> QED BY <2>3, <3>1, <4>3, <4>4
    <3>4. s # r
      BY <2>3 DEF SameOrder
    <3> QED BY <2>3, <3>1, <3>2, <3>3, <3>4
  <2>4. ASSUME NEW s \in Sessions, mailRequired, session[s].purpose = "topup",
               session[s].credited = 1
        PROVE  ~card[session[s].order].byHand
    BY <2>4, RowFacts DEF CreditOK
  <2> QED BY <2>1, <2>2, <2>3, <2>4 DEF OrderCreditedOnce
<1> QED BY <1>1, LSInvariant, PTL

\* A session that says success was credited, or its user has the card, or a
\* failed statement left the top_ups row the retry found.
THEOREM SuccessIsCredited == Spec => []SuccessMeansCredited
<1>1. LSInv => SuccessMeansCredited
  BY DEF LSInv, CreditOK, SuccessMeansCredited
<1> QED BY <1>1, LSInvariant, PTL

\* Nothing is credited without a payment of the right price that the worker
\* saw, and where mail is required the shop's mail (VerifyLdxpSessionFields).
THEOREM CreditWasPaid == Spec => []CreditNeedsPayment
<1>1. LSInv => CreditNeedsPayment
  <2> SUFFICES ASSUME LSInv, NEW s \in Sessions, session[s].credited > 0
               PROVE  /\ shop[session[s].order] = "paid"
                      /\ session[s].reported /\ session[s].amountOk
                      /\ mailRequired => session[s].order \in events
    BY DEF CreditNeedsPayment
  <2>1. HistoryOK(s) /\ session[s] \in SessionRows
    BY RowFacts
  <2> QED BY <2>1 DEF HistoryOK, SessionRows
<1> QED BY <1>1, LSInvariant, PTL

\* No step takes back a report of payment, or changes a session that succeeded.
NotUndone(s) ==
    /\ session[s].reported => session'[s].reported
    /\ session[s].status = "success" =>
         session'[s].status = "success" /\ session'[s].credited = session[s].credited

LEMMA NothingUndone ==
    ASSUME LSInv, [Next]_vars
    PROVE  \A s \in Sessions : NotUndone(s)
<1>0. session \in [Sessions -> SessionRows] /\ LSTypes
  BY DEF LSInv, LSTypes
<1>1. ASSUME NEW s \in Sessions, NEW r, session' = [session EXCEPT ![s] = r],
             session[s].reported => r.reported,
             session[s].status = "success" => r.status = "success" /\ r.credited = session[s].credited
      PROVE  \A t \in Sessions : NotUndone(t)
  BY <1>0, <1>1 DEF NotUndone
<1>2. ASSUME NEW s \in Sessions, NEW r \in SessionRows, session' = [session EXCEPT ![s] = r],
             SameBase(r, session[s]), session[s].status # "success"
      PROVE  \A t \in Sessions : NotUndone(t)
  BY <1>1, <1>2 DEF SameBase
<1>3. CASE UNCHANGED session
  BY <1>3 DEF NotUndone
<1>4. ASSUME NEW s \in Sessions, ~session[s].reported PROVE session[s].status # "success"
  BY <1>4, RowFacts DEF HistoryOK, SettledStatuses
<1>5. ASSUME NEW s \in Sessions, session[s].status \in OpenStatuses \/ session[s].user = None
      PROVE  ~session[s].reported
  BY <1>5, RowFacts DEF HistoryOK
<1>6. ASSUME NEW s \in Sessions, NEW r, session' = [session EXCEPT ![s] = r],
             session[s].status \in OpenStatuses \/ session[s].user = None
      PROVE  \A t \in Sessions : NotUndone(t)
  BY <1>1, <1>4, <1>5, <1>6
<1>7. ASSUME NEW u \in Users, NEW p \in Purposes, CreateSession(u, p)
      PROVE  \A t \in Sessions : NotUndone(t)
  BY <1>6, <1>7 DEF CreateSession, Created
<1>8. ASSUME NEW s \in Sessions, TimePasses(s) PROVE \A t \in Sessions : NotUndone(t)
  <2>1. session' = [session EXCEPT ![s].late = TRUE] /\ session[s] \in SessionRows
    BY <1>0, <1>8 DEF TimePasses
  <2> QED BY <1>0, <2>1 DEF NotUndone, SessionRows
<1>9. ASSUME NEW s \in Sessions, CancelLdxpTopupSession(s) \/ RecordLdxpWorkerResult(s)
                                 \/ RecordLdxpWorkerError(s)
      PROVE  \A t \in Sessions : NotUndone(t)
  <2>1. session[s].status \in OpenStatuses /\ \E r : session' = [session EXCEPT ![s] = r]
    BY <1>9 DEF CancelLdxpTopupSession, RecordLdxpWorkerResult, RecordLdxpWorkerError, OpenStatuses
  <2> QED BY <1>6, <2>1
<1>10. ASSUME NEW s \in Sessions, NEW o \in ShopOrders, NEW ok \in BOOLEAN, RecordLdxpQr(s, o, ok)
       PROVE  \A t \in Sessions : NotUndone(t)
  <2>1. session[s].status \in OpenStatuses /\ \E r : session' = [session EXCEPT ![s] = r]
    BY <1>10 DEF RecordLdxpQr, OpenStatuses
  <2> QED BY <1>6, <2>1
<1>11. CASE ClaimLdxpTopupSession
  <2> SUFFICES ASSUME NEW s \in Sessions PROVE NotUndone(s)
    OBVIOUS
  <2>1. \/ session[s].status \in OpenStatuses
        \/ session'[s] = session[s]
    BY <1>11 DEF ClaimLdxpTopupSession, Claimable, Expired, OpenStatuses
  <2> QED BY <1>4, <1>5, <2>1 DEF NotUndone
<1>12. ASSUME NEW c \in calls, NEW s \in Sessions, MatchMail(c, s)
       PROVE  \A t \in Sessions : NotUndone(t)
  <2>1. CASE session' = [session EXCEPT ![s].mail = TRUE]
    <3>1. session[s] \in SessionRows
      BY <1>0
    <3> QED BY <1>0, <2>1, <3>1 DEF NotUndone, SessionRows
  <2> QED BY <1>3, <1>12, <2>1 DEF MatchMail
<1>13. ASSUME NEW c \in calls, VerifyGoesOn(c), NEW r,
              session' = [session EXCEPT ![c.session] = r],
              LET q == session[c.session] IN
              r \in {VerifyFailed(q), Verified(q), RedeemFailed(q), Succeeded(q),
                     Credited(RedeemFailed(q)), Credited(Succeeded(q))}
       PROVE  \A t \in Sessions : NotUndone(t)
  <2>q. PICK q \in SessionRows : q = session[c.session]
    BY <1>0, <1>13, VerifyFacts
  <2>1. \A x \in {VerifyFailed(q), Verified(q), RedeemFailed(q), Succeeded(q)} :
           x \in SessionRows /\ SameBase(x, q)
    BY <1>0, EndRows, VerifiedRow
  <2>2. \A x \in {RedeemFailed(q), Succeeded(q)} : Credited(x) \in SessionRows /\ SameBase(Credited(x), q)
    BY <2>1, CreditedRow DEF SameBase
  <2>3. r \in SessionRows /\ SameBase(r, q)
    BY <1>13, <2>q, <2>1, <2>2
  <2> QED BY <1>2, <1>13, <2>3, <2>q, VerifyFacts
<1>14. ASSUME NEW c \in calls, VerifyStep(c) \/ RedeemCardFails(c) \/ DirectTopUpFails(c)
       PROVE  \A t \in Sessions : NotUndone(t)
  <2>1. CASE VerifyChangesNothing(c)
    BY <1>3, <2>1 DEF VerifyChangesNothing
  <2>2. CASE VerifyRejects(c)
    BY <1>13, <2>2 DEF VerifyRejects
  <2>3. CASE VerifyPackage(c)
    BY <1>13, <2>3 DEF VerifyPackage
  <2>4. CASE RedeemCard(c)
    BY <1>13, <2>4 DEF RedeemCard, VerifyTopUp
  <2>5. CASE UsedCard(c)
    <3>1. PICK recovered : session' = [session EXCEPT ![c.session] =
             IF recovered THEN Succeeded(session[c.session]) ELSE RedeemFailed(session[c.session])]
      BY <2>5 DEF UsedCard
    <3> QED BY <1>13, <2>5, <3>1 DEF UsedCard, VerifyTopUp
  <2>6. CASE DirectTopUp(c)
    BY <1>13, <2>6 DEF DirectTopUp, VerifyTopUp
  <2>7. CASE RedeemCardFails(c)
    BY <1>13, <2>7 DEF RedeemCardFails, VerifyTopUp
  <2>8. CASE DirectTopUpFails(c)
    BY <1>13, <2>8 DEF DirectTopUpFails, VerifyTopUp
  <2> QED BY <1>14, <2>1, <2>2, <2>3, <2>4, <2>5, <2>6, <2>7, <2>8 DEF VerifyStep
<1>15. ASSUME NEW c \in calls, SettleStep(c) PROVE \A t \in Sessions : NotUndone(t)
  <2>s. PICK s \in Sessions : s = c.session /\ session[s].status = "verified"
    <3>1. c \in Calls /\ SettlingOK(c) /\ c.pc \in {"complete", "finish"}
      BY <1>0, <1>15 DEF LSInv, LSTypes, SettleStep, CompleteValuePackageOrder, PurchaseRefused,
                         FinishSettlement
    <3> QED BY <3>1 DEF Calls, SettlingOK
  <2>q. PICK q \in SessionRows : q = session[s]
    BY <1>0
  <2>1. \A x \in {RedeemFailed(q), Succeeded(q), Credited(q), q} : x \in SessionRows /\ SameBase(x, q)
    <3>1. SameBase(q, q)
      BY DEF SameBase
    <3>2. /\ RedeemFailed(q) \in SessionRows /\ SameBase(RedeemFailed(q), q)
          /\ Succeeded(q) \in SessionRows /\ SameBase(Succeeded(q), q)
      BY <1>0, EndRows
    <3>3. Credited(q) \in SessionRows /\ SameBase(Credited(q), q)
      BY CreditedRow
    <3> QED BY <3>1, <3>2, <3>3
  <2>2. \E x \in {RedeemFailed(q), Succeeded(q), Credited(q), q} : session' = [session EXCEPT ![s] = x]
    <3>1. CASE CompleteValuePackageOrder(c)
      BY <2>q, <2>s, <3>1 DEF CompleteValuePackageOrder
    <3>2. CASE PurchaseRefused(c) \/ FinishSettlement(c)
      BY <2>q, <2>s, <3>2 DEF PurchaseRefused, FinishSettlement
    <3> QED BY <1>15, <3>1, <3>2 DEF SettleStep
  <2> QED BY <1>2, <2>1, <2>2, <2>q, <2>s
<1>16. ASSUME \/ \E s \in Sessions : AdminRetryLdxpTopupVerify(s)
              \/ \E o \in ShopOrders : CustomerPays(o) \/ WorkerRecordLdxpMailEvent(o)
              \/ \E c \in calls : MatchNothing(c) \/ TransactionFails(c)
              \/ \E u \in Users, o \in ShopOrders : Redeem(u, o)
              \/ Crash
              \/ UNCHANGED vars
       PROVE  \A t \in Sessions : NotUndone(t)
  <2>1. UNCHANGED session
    BY <1>16 DEF AdminRetryLdxpTopupVerify, CustomerPays, WorkerRecordLdxpMailEvent, MatchNothing,
                 TransactionFails, Redeem, Crash, vars
  <2> QED BY <1>3, <2>1
<1> QED BY <1>7, <1>8, <1>9, <1>10, <1>11, <1>12, <1>14, <1>15, <1>16 DEF Next, MatchStep

\* Nothing undoes a payment: a reported session is never canceled, expired or
\* failed, and a successful one stays as it is (the status guards of
\* CancelLdxpTopupSession, MarkExpiredLdxpTopupSessions, RecordLdxpWorkerError).
THEOREM PaymentStays == Spec => PaymentIsNotUndone
<1>1. LSInv /\ [Next]_vars =>
        [\A s \in Sessions :
           /\ session[s].reported => session'[s].reported /\ session'[s].status \notin EndedStatuses
           /\ session[s].status = "success" =>
                session'[s].status = "success" /\ session'[s].credited = session[s].credited]_vars
  <2> SUFFICES ASSUME LSInv, [Next]_vars, NEW s \in Sessions
               PROVE  /\ session[s].reported => session'[s].reported
                                                /\ session'[s].status \notin EndedStatuses
                      /\ session[s].status = "success" =>
                           session'[s].status = "success" /\ session'[s].credited = session[s].credited
    OBVIOUS
  <2>1. NotUndone(s)
    BY NothingUndone
  <2>2. HistoryOK(s)'
    BY LSNext DEF LSInv
  <2> QED BY <2>1, <2>2 DEF NotUndone, HistoryOK
<1> QED BY <1>1, LSInvariant, PTL DEF Spec, PaymentIsNotUndone
=============================================================================
