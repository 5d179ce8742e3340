-------------------------- MODULE TaskBillingProofs --------------------------
(***************************************************************************)
(* A task whose row is only ended by updates guarded by its status is      *)
(* refunded at most once and never both refunded and delivered, for any    *)
(* number of tasks and pollers and any number of faults.  When no write    *)
(* fails it costs exactly what is due, and a task billed per call never    *)
(* costs more than its price.                                              *)
(***************************************************************************)
EXTENDS TaskBilling, TLAPS

\* Poller p has won task t for FAILURE and is about to give its quota back.
Refunding(p, t) == pc[p].step = "fund" /\ pc[p].kind = "refund" /\ pc[p].task = t

Early == {"new", "sent", "aborted"}
Stages == Early \cup {"inserted", "settled", "unsettled", "audited"}
Fetched == [row : Row, answer : Statuses]

\* What a poller works on is in its batch, and only Suno tasks are saved.
Focus(p) ==
    /\ pc[p].step # "next" => pc[p].task \in Tasks /\ batch[p][pc[p].task] # NoRow
    /\ pc[p].step = "commit" => pc[p].answer \in Statuses \ {"NOT_START"}
    /\ pc[p].step = "save" => pc[p].task \in Suno

\* Copies are of rows that exist and, Suno apart, had not ended when read.
Copy(p, t) ==
    batch[p][t] # NoRow => task[t] # NoRow /\ (t \notin Suno => batch[p][t].status \notin Terminal)

PollersOK ==
    /\ batch \in [Pollers -> [Tasks -> Row \cup {NoRow}]]
    /\ pc \in [Pollers -> Places]
    /\ \A p \in Pollers : Focus(p)
    /\ \A p \in Pollers, t \in Tasks : Copy(p, t)

RowsOK ==
    /\ task \in [Tasks -> Row \cup {NoRow}]
    /\ \A t \in Tasks : task[t] = NoRow <=> stage[t] \in Early

QueriesOK ==
    /\ fetch \in [Tasks -> Fetched \cup {NoRow}]
    /\ \A t \in Tasks : fetch[t] # NoRow => t \in Realtime /\ task[t] # NoRow

OutsideOK ==
    /\ stage \in [Tasks -> Stages]
    /\ up \in [Tasks -> Statuses \ {"NOT_START"}]
    /\ refunds \in [Tasks -> Nat]

\* A refund, done or about to be done, is of a FAILURE and the only one.
Failed(t) == task[t] # NoRow /\ task[t].status = "FAILURE"

OneRefund(t) ==
    /\ refunds[t] \in {0, 1}
    /\ refunds[t] = 1 => Failed(t)
    /\ \A p \in Pollers :
          Refunding(p, t) => refunds[t] = 0 /\ Failed(t) /\ \A q \in Pollers : Refunding(q, t) => q = p

RefundsOK == \A t \in Tasks : Guarded(t) => OneRefund(t)

TBInv == PollersOK /\ RowsOK /\ QueriesOK /\ OutsideOK /\ RefundsOK

----------------------------------------------------------------------------
(* What most steps have in common.                                          *)

RowsStay == \A t \in Tasks : task[t] # NoRow => task'[t] # NoRow
FailuresStay == \A t \in Tasks : Guarded(t) /\ Failed(t) => Failed(t)'
NoNewRefund == \A p \in Pollers, t \in Tasks \ Suno : Refunding(p, t)' => Refunding(p, t)
NoNewGuard == \A t \in Tasks : Guarded(t)' => Guarded(t)

\* A step that starts no refund and completes none keeps the refunds single.
LEMMA QuietStep ==
    ASSUME RefundsOK, FailuresStay, NoNewRefund, NoNewGuard, refunds' = refunds
    PROVE  RefundsOK'
<1> SUFFICES ASSUME NEW t \in Tasks, Guarded(t)' PROVE OneRefund(t)'
  BY DEF RefundsOK
<1>1. Guarded(t) /\ OneRefund(t)
  BY DEF NoNewGuard, RefundsOK
<1>2. Failed(t) => Failed(t)'
  BY <1>1 DEF FailuresStay
<1>3. \A p \in Pollers : Refunding(p, t)' => Refunding(p, t)
  BY <1>1 DEF NoNewRefund, Guarded
<1> QED
  BY <1>1, <1>2, <1>3 DEF OneRefund

\* The places a poller can be at.
LEMMA NextPlace ==
    ASSUME NEW m \in {"idle", "sweep", "poll"}
    PROVE  At(m, "next", NoTask, "", "", 0) \in Places /\ At(m, "next", NoTask, "", "", 0).step = "next"
  BY DEF At, Places

\* The place of a poller that has an answer for its task.
LEMMA CommitPlace ==
    ASSUME NEW t \in Tasks, NEW a \in Statuses \cup {""}, NEW d \in Int
    PROVE  LET w == At("poll", "commit", t, a, "", d)
           IN  w \in Places /\ w.step = "commit" /\ w.task = t /\ w.answer = a
  BY DEF At, Places

\* The parts of a poller's place are of their types.
LEMMA PlaceFields ==
    ASSUME PollersOK, NEW p \in Pollers
    PROVE  /\ pc[p] \in Places /\ pc[p].mode \in {"idle", "sweep", "poll"} /\ pc[p].delta \in Int
           /\ pc[p].task \in Tasks \cup {NoTask} /\ pc[p].answer \in Statuses \cup {""}
           /\ pc[p].kind \in {"", "refund", "settle"}
<1>1. pc[p] \in Places
  BY DEF PollersOK
<1> QED
  BY <1>1 DEF Places

\* A step that moves no poller.
LEMMA PollersIdle ==
    ASSUME PollersOK, RowsStay, UNCHANGED <<batch, pc>>
    PROVE  PollersOK' /\ NoNewRefund
<1>1. \A p \in Pollers : Focus(p)'
  BY DEF PollersOK, Focus
<1>2. \A p \in Pollers, t \in Tasks : Copy(p, t)'
  BY DEF PollersOK, Copy, RowsStay
<1>3. NoNewRefund
  BY DEF NoNewRefund, Refunding
<1> QED
  BY <1>1, <1>2, <1>3 DEF PollersOK

\* A poller that goes on with a task of its batch.
LEMMA PollerGoes ==
    ASSUME PollersOK, RowsStay, NEW p \in Pollers, NEW w \in Places,
           Goto(p, w), UNCHANGED batch,
           w.step # "next" => w.task \in Tasks /\ batch[p][w.task] # NoRow,
           w.step = "commit" => w.answer \in Statuses \ {"NOT_START"},
           w.step = "save" => w.task \in Suno
    PROVE  /\ PollersOK'
           /\ \A q \in Pollers, t \in Tasks :
                 Refunding(q, t)' => \/ Refunding(q, t)
                                     \/ q = p /\ w.step = "fund" /\ w.kind = "refund" /\ w.task = t
<1>1. pc' = [pc EXCEPT ![p] = w] /\ pc \in [Pollers -> Places]
  BY DEF Goto, PollersOK
<1>2. pc' \in [Pollers -> Places] /\ pc'[p] = w /\ \A q \in Pollers : q # p => pc'[q] = pc[q]
  BY <1>1
<1>3. \A q \in Pollers : Focus(q)'
  BY <1>2 DEF PollersOK, Focus
<1>4. \A q \in Pollers, t \in Tasks : Copy(q, t)'
  BY DEF PollersOK, Copy, RowsStay
<1>5. PollersOK'
  BY <1>2, <1>3, <1>4 DEF PollersOK
<1> QED
  BY <1>2, <1>5 DEF Refunding

\* A poller that is through with a task.
LEMMA PollerThrough ==
    ASSUME PollersOK, RowsStay, NEW p \in Pollers, NEW u \in Tasks, Through(p, u)
    PROVE  PollersOK' /\ NoNewRefund
<1> DEFINE w == At(pc[p].mode, "next", NoTask, "", "", 0)
<1>1. pc' = [pc EXCEPT ![p] = w] /\ pc \in [Pollers -> Places]
  BY DEF Through, Goto, PollersOK
<1>2. w \in Places /\ w.step = "next"
  <2>1. pc[p].mode \in {"idle", "sweep", "poll"}
    BY PlaceFields
  <2> QED
    BY <2>1, NextPlace
<1> HIDE DEF w
<1>3. pc' \in [Pollers -> Places] /\ pc'[p] = w /\ \A q \in Pollers : q # p => pc'[q] = pc[q]
  BY <1>1, <1>2
<1>4. batch \in [Pollers -> [Tasks -> Row \cup {NoRow}]] /\ batch' = [batch EXCEPT ![p][u] = NoRow]
  BY DEF Through, PollersOK
<1>5. batch' \in [Pollers -> [Tasks -> Row \cup {NoRow}]]
  BY <1>4
<1>6. \A q \in Pollers, t \in Tasks : batch'[q][t] = NoRow \/ batch'[q][t] = batch[q][t]
  BY <1>4
<1>7. \A q \in Pollers : q # p => batch'[q] = batch[q]
  BY <1>4
<1>8. \A q \in Pollers : Focus(q)'
  BY <1>2, <1>3, <1>7 DEF PollersOK, Focus
<1>9. \A q \in Pollers, t \in Tasks : Copy(q, t)'
  BY <1>6 DEF PollersOK, Copy, RowsStay
<1>10. NoNewRefund
  BY <1>2, <1>3 DEF NoNewRefund, Refunding
<1> QED
  BY <1>3, <1>5, <1>8, <1>9, <1>10 DEF PollersOK

\* A poller that reads the rows of unfinished tasks, and one that starts anew.
LEMMA PollerReads ==
    ASSUME PollersOK, RowsOK, NEW p \in Pollers, UNCHANGED task,
           NEW w \in Places, w.step = "next", Goto(p, w),
           NEW b \in [Tasks -> Row \cup {NoRow}], batch' = [batch EXCEPT ![p] = b],
           \A t \in Tasks : b[t] # NoRow => b[t] = task[t] /\ task[t].status \notin Terminal
    PROVE  PollersOK' /\ NoNewRefund
<1>1. pc' = [pc EXCEPT ![p] = w] /\ pc \in [Pollers -> Places]
  BY DEF Goto, PollersOK
<1>2. pc' \in [Pollers -> Places] /\ pc'[p] = w /\ \A q \in Pollers : q # p => pc'[q] = pc[q]
  BY <1>1
<1>3. /\ batch' \in [Pollers -> [Tasks -> Row \cup {NoRow}]]
      /\ batch'[p] = b
      /\ \A q \in Pollers : q # p => batch'[q] = batch[q]
  BY DEF PollersOK
<1>4. \A q \in Pollers : Focus(q)'
  BY <1>2, <1>3 DEF PollersOK, Focus
<1>5. \A q \in Pollers, t \in Tasks : Copy(q, t)'
  BY <1>3 DEF PollersOK, Copy
<1>6. NoNewRefund
  BY <1>2 DEF NoNewRefund, Refunding
<1> QED
  BY <1>2, <1>3, <1>4, <1>5, <1>6 DEF PollersOK

\* A step that writes one existing row.
LEMMA RowWritten ==
    ASSUME RowsOK, QueriesOK, NEW u \in Tasks, task[u] # NoRow,
           \A t \in Tasks : stage'[t] \in Early <=> stage[t] \in Early,
           NEW r \in Row, task' = [task EXCEPT ![u] = r], fetch' = fetch
    PROVE  /\ RowsOK' /\ QueriesOK' /\ RowsStay
           /\ task'[u] = r /\ \A t \in Tasks : t # u => task'[t] = task[t]
<1>1. r # NoRow
  BY NoRowIsNoRow
<1>2. task' \in [Tasks -> Row \cup {NoRow}] /\ task'[u] = r /\ \A t \in Tasks : t # u => task'[t] = task[t]
  BY DEF RowsOK
<1>3. RowsStay
  BY <1>1, <1>2 DEF RowsStay
<1>4. RowsOK'
  BY <1>1, <1>2 DEF RowsOK
<1>5. QueriesOK'
  BY <1>3 DEF QueriesOK, RowsStay
<1> QED
  BY <1>2, <1>3, <1>4, <1>5

\* A step that writes no row.
LEMMA RowsUnwritten ==
    ASSUME RowsOK, QueriesOK, UNCHANGED <<task, stage, fetch>>
    PROVE  RowsOK' /\ QueriesOK' /\ RowsStay /\ FailuresStay /\ NoNewGuard
<1>1. RowsOK' /\ QueriesOK' /\ RowsStay
  BY DEF RowsOK, QueriesOK, RowsStay
<1>2. FailuresStay /\ NoNewGuard
  BY DEF FailuresStay, NoNewGuard, Failed, Guarded
<1> QED
  BY <1>1, <1>2

\* A poller's step that writes no row and starts and completes no refund.
LEMMA QuietPoller ==
    ASSUME TBInv, UNCHANGED <<task, stage, fetch, up, refunds>>, PollersOK', NoNewRefund
    PROVE  TBInv'
<1>1. RowsOK' /\ QueriesOK' /\ FailuresStay /\ NoNewGuard
  BY RowsUnwritten DEF TBInv
<1>2. OutsideOK'
  BY DEF TBInv, OutsideOK
<1>3. RefundsOK'
  BY <1>1, QuietStep DEF TBInv
<1> QED
  BY <1>1, <1>2, <1>3 DEF TBInv

----------------------------------------------------------------------------
(* The handler and the world outside.                                       *)

\* A handler's step that writes no row.
LEMMA HandlerMoves ==
    ASSUME TBInv, NEW u \in Tasks, NEW s \in Stages, stage' = [stage EXCEPT ![u] = s],
           s \in Early <=> stage[u] \in Early,
           stage[u] \in {"unsettled", "audited"} => s \in {"unsettled", "audited"},
           UNCHANGED <<task, fetch, batch, pc, up, refunds>>
    PROVE  TBInv'
<1>1. stage' \in [Tasks -> Stages] /\ stage'[u] = s /\ \A t \in Tasks : t # u => stage'[t] = stage[t]
  BY DEF TBInv, OutsideOK
<1>2. OutsideOK'
  BY <1>1 DEF TBInv, OutsideOK
<1>3. RowsOK' /\ RowsStay
  BY <1>1 DEF TBInv, RowsOK, RowsStay
<1>4. QueriesOK'
  BY DEF TBInv, QueriesOK
<1>5. PollersOK' /\ NoNewRefund
  BY <1>3, PollersIdle DEF TBInv
<1>6. NoNewGuard
  BY <1>1 DEF NoNewGuard, Guarded
<1>7. FailuresStay
  BY DEF FailuresStay, Failed
<1>8. RefundsOK'
  BY <1>5, <1>6, <1>7, QuietStep DEF TBInv
<1> QED
  BY <1>2, <1>3, <1>4, <1>5, <1>8 DEF TBInv

\* The row of a new task is inserted; nobody holds a copy of it yet.
LEMMA InsertTaskOK ==
    ASSUME TBInv, NEW u \in Tasks, InsertTask(u)
    PROVE  TBInv'
<1>1. PICK q \in Quotas : task' = [task EXCEPT ![u] = NewRow(q)]
  BY DEF InsertTask
<1>2. NewRow(q) \in Row /\ NewRow(q) # NoRow
  <2>1. NewRow(q) \in Row
    BY DEF NewRow, Row, Statuses
  <2> QED
    BY <2>1, NoRowIsNoRow
<1>3. stage' = [stage EXCEPT ![u] = "inserted"] /\ stage[u] = "sent"
      /\ UNCHANGED <<fetch, batch, pc, up, refunds>>
  BY DEF InsertTask, pollVars
<1>4. stage' \in [Tasks -> Stages] /\ stage'[u] = "inserted" /\ \A t \in Tasks : t # u => stage'[t] = stage[t]
  BY <1>3 DEF TBInv, OutsideOK, Stages, Early
<1>5. /\ task' \in [Tasks -> Row \cup {NoRow}]
      /\ task'[u] = NewRow(q) /\ \A t \in Tasks : t # u => task'[t] = task[t]
  BY <1>1, <1>2 DEF TBInv, RowsOK
<1>6. task[u] = NoRow
  BY <1>3 DEF TBInv, RowsOK, Early
<1>7. RowsStay /\ FailuresStay
  BY <1>2, <1>5, <1>6 DEF RowsStay, FailuresStay, Failed
<1>8. RowsOK'
  BY <1>2, <1>4, <1>5 DEF TBInv, RowsOK, Early
<1>9. QueriesOK'
  BY <1>3, <1>7 DEF TBInv, QueriesOK, RowsStay
<1>10. OutsideOK'
  BY <1>3, <1>4 DEF TBInv, OutsideOK
<1>11. PollersOK' /\ NoNewRefund
  BY <1>3, <1>7, PollersIdle DEF TBInv
<1>12. NoNewGuard
  BY <1>3, <1>4 DEF NoNewGuard, Guarded
<1>13. RefundsOK'
  BY <1>3, <1>7, <1>11, <1>12, QuietStep DEF TBInv
<1> QED
  BY <1>8, <1>9, <1>10, <1>11, <1>13 DEF TBInv

\* Only a task that is not guarded is saved for the audit.
LEMMA SaveAuditOK ==
    ASSUME TBInv, NEW u \in Tasks, SaveAudit(u)
    PROVE  TBInv'
<1> DEFINE r == [NewRow(task[u].quota) EXCEPT !.settleFailed = TRUE]
<1>1. /\ stage[u] = "unsettled" /\ task' = [task EXCEPT ![u] = r]
      /\ stage' = [stage EXCEPT ![u] = "audited"] /\ UNCHANGED <<fetch, batch, pc, up, refunds>>
  BY DEF SaveAudit, pollVars, moneyVars, TBInv, RowsOK
<1>2. task[u] \in Row /\ task[u] # NoRow
  BY <1>1 DEF TBInv, RowsOK, Early
<1>3. r \in Row
  BY <1>2 DEF NewRow, Row, Statuses
<1> HIDE DEF r
<1>4. stage' \in [Tasks -> Stages] /\ stage'[u] = "audited" /\ \A t \in Tasks : t # u => stage'[t] = stage[t]
  BY <1>1 DEF TBInv, OutsideOK, Stages, Early
<1>5. \A t \in Tasks : stage'[t] \in Early <=> stage[t] \in Early
  BY <1>1, <1>4 DEF Early
<1>6. RowsOK' /\ QueriesOK' /\ RowsStay /\ \A t \in Tasks : t # u => task'[t] = task[t]
  BY <1>1, <1>2, <1>3, <1>5, RowWritten DEF TBInv
<1>7. OutsideOK'
  BY <1>1, <1>4 DEF TBInv, OutsideOK
<1>8. PollersOK' /\ NoNewRefund
  BY <1>1, <1>6, PollersIdle DEF TBInv
<1>9. NoNewGuard /\ FailuresStay
  BY <1>1, <1>4, <1>6 DEF NoNewGuard, FailuresStay, Guarded, Failed
<1>10. RefundsOK'
  BY <1>1, <1>8, <1>9, QuietStep DEF TBInv
<1> QED
  BY <1>6, <1>7, <1>8, <1>10 DEF TBInv

\* The task ends upstream.
LEMMA UpstreamEndsOK ==
    ASSUME TBInv, NEW u \in Tasks, UpstreamEnds(u)
    PROVE  TBInv'
<1>1. PICK s \in Terminal : up' = [up EXCEPT ![u] = s]
  BY DEF UpstreamEnds
<1>2. UNCHANGED <<task, stage, fetch, batch, pc, refunds>>
  BY DEF UpstreamEnds, rowVars, pollVars, moneyVars
<1>3. OutsideOK'
  BY <1>1, <1>2 DEF TBInv, OutsideOK, Terminal, Statuses
<1>4. RowsOK' /\ QueriesOK' /\ RowsStay /\ FailuresStay /\ NoNewGuard
  BY <1>2, RowsUnwritten DEF TBInv
<1>5. PollersOK' /\ NoNewRefund
  BY <1>2, <1>4, PollersIdle DEF TBInv
<1>6. RefundsOK'
  BY <1>2, <1>4, <1>5, QuietStep DEF TBInv
<1> QED
  BY <1>3, <1>4, <1>5, <1>6 DEF TBInv

\* Realtime tasks are not guarded.
LEMMA RealtimeFetchOK ==
    ASSUME TBInv, NEW u \in Tasks, RealtimeFetch(u)
    PROVE  TBInv'
<1>1. PICK a \in Answers(u) : fetch' = [fetch EXCEPT ![u] = [row |-> task[u], answer |-> a]]
  BY DEF RealtimeFetch
<1>2. u \in Realtime /\ task[u] # NoRow /\ UNCHANGED <<task, stage, up, batch, pc, refunds>>
  BY DEF RealtimeFetch, Exists, submitVars, pollVars, moneyVars
<1>3. a \in Statuses /\ task[u] \in Row
  BY <1>2 DEF Answers, TBInv, OutsideOK, RowsOK, Statuses, Terminal
<1> DEFINE f == [row |-> task[u], answer |-> a]
<1>4. f \in Fetched
  BY <1>3 DEF Fetched
<1> HIDE DEF f
<1>5. fetch' = [fetch EXCEPT ![u] = f]
  BY <1>1 DEF f
<1>6. QueriesOK'
  BY <1>2, <1>4, <1>5 DEF TBInv, QueriesOK
<1>7. RowsOK' /\ OutsideOK' /\ RowsStay
  BY <1>2 DEF TBInv, RowsOK, OutsideOK, RowsStay
<1>8. PollersOK' /\ NoNewRefund
  BY <1>2, <1>7, PollersIdle DEF TBInv
<1>9. NoNewGuard /\ FailuresStay
  BY <1>2 DEF NoNewGuard, FailuresStay, Guarded, Failed
<1>10. RefundsOK'
  BY <1>2, <1>8, <1>9, QuietStep DEF TBInv
<1> QED
  BY <1>6, <1>7, <1>8, <1>10 DEF TBInv

\* What a realtime query writes.
LEMMA RealtimeUpdateOK ==
    ASSUME TBInv, NEW u \in Tasks, RealtimeUpdate(u)
    PROVE  TBInv'
<1> DEFINE r == fetch[u].row
<1> DEFINE full == fetch[u].answer \in Terminal
<1> DEFINE n == [r EXCEPT !.status = fetch[u].answer, !.full = full]
<1>1. /\ fetch[u] # NoRow /\ task' = (IF Wins(u, r.status) THEN [task EXCEPT ![u] = n] ELSE task)
      /\ fetch' = [fetch EXCEPT ![u] = NoRow] /\ UNCHANGED <<stage, up, batch, pc, refunds>>
  BY DEF RealtimeUpdate, submitVars, pollVars, moneyVars
<1>2. fetch[u] \in Fetched /\ u \in Realtime /\ task[u] # NoRow
  BY <1>1 DEF TBInv, QueriesOK
<1>3. r \in Row /\ fetch[u].answer \in Statuses
  BY <1>2 DEF Fetched
<1> HIDE DEF r
<1>4. n \in Row /\ n # NoRow
  <2>0. full \in BOOLEAN
    OBVIOUS
  <2> HIDE DEF full
  <2>1. n \in Row
    BY <1>3, <2>0 DEF Row
  <2> HIDE DEF n
  <2> QED
    BY <2>1, NoRowIsNoRow
<1> HIDE DEF n
<1>5. /\ task' \in [Tasks -> Row \cup {NoRow}] /\ task'[u] # NoRow
      /\ \A t \in Tasks : t # u => task'[t] = task[t]
  BY <1>1, <1>2, <1>4 DEF TBInv, RowsOK
<1>6. RowsOK' /\ RowsStay
  BY <1>1, <1>2, <1>5 DEF TBInv, RowsOK, RowsStay
<1>7. QueriesOK'
  BY <1>1, <1>5 DEF TBInv, QueriesOK
<1>8. OutsideOK'
  BY <1>1 DEF TBInv, OutsideOK
<1>9. PollersOK' /\ NoNewRefund
  BY <1>1, <1>6, PollersIdle DEF TBInv
<1>10. NoNewGuard /\ FailuresStay
  BY <1>1, <1>2, <1>5 DEF NoNewGuard, FailuresStay, Guarded, Failed
<1>11. RefundsOK'
  BY <1>1, <1>9, <1>10, QuietStep DEF TBInv
<1> QED
  BY <1>6, <1>7, <1>8, <1>9, <1>11 DEF TBInv

----------------------------------------------------------------------------
(* Steps of a poller that concern no refund.                                *)

\* The rows a query of unfinished tasks returns had not ended.
LEMMA RowsWhereOK ==
    ASSUME TBInv, NEW S \in SUBSET Tasks, \A t \in S : Unfinished(t)
    PROVE  /\ RowsWhere(S) \in [Tasks -> Row \cup {NoRow}]
           /\ \A t \in Tasks : RowsWhere(S)[t] # NoRow
                 => RowsWhere(S)[t] = task[t] /\ task[t].status \notin Terminal
  BY DEF TBInv, RowsOK, RowsWhere, Unfinished

\* A poller replaces its batch by rows just read.
LEMMA ReadsOK ==
    ASSUME TBInv, NEW p \in Pollers, NEW m \in {"idle", "sweep", "poll"},
           NEW S \in SUBSET Tasks, \A t \in S : Unfinished(t),
           batch' = [batch EXCEPT ![p] = RowsWhere(S)], Goto(p, At(m, "next", NoTask, "", "", 0)),
           UNCHANGED <<task, stage, fetch, up, refunds>>
    PROVE  TBInv'
<1> DEFINE w == At(m, "next", NoTask, "", "", 0)
<1>1. w \in Places /\ w.step = "next" /\ Goto(p, w)
  BY NextPlace
<1> HIDE DEF w
<1> DEFINE b == RowsWhere(S)
<1>2. /\ b \in [Tasks -> Row \cup {NoRow}] /\ batch' = [batch EXCEPT ![p] = b]
      /\ \A t \in Tasks : b[t] # NoRow => b[t] = task[t] /\ task[t].status \notin Terminal
  BY RowsWhereOK
<1> HIDE DEF b
<1>3. PollersOK' /\ NoNewRefund
  BY <1>1, <1>2, PollerReads DEF TBInv
<1> QED
  BY <1>3, QuietPoller

\* The sweep reads its rows.
LEMMA GetTimedOutUnfinishedTasksOK ==
    ASSUME TBInv, NEW p \in Pollers, GetTimedOutUnfinishedTasks(p)
    PROVE  TBInv'
<1> DEFINE S == {t \in Tasks : Unfinished(t) /\ late[t]}
<1>1. S \in SUBSET Tasks /\ \A t \in S : Unfinished(t)
  OBVIOUS
<1>2. /\ batch' = [batch EXCEPT ![p] = RowsWhere(S)] /\ Goto(p, At("sweep", "next", NoTask, "", "", 0))
      /\ UNCHANGED <<task, stage, fetch, up, refunds>>
  BY DEF GetTimedOutUnfinishedTasks, submitVars, rowVars, moneyVars
<1> HIDE DEF S
<1> QED
  BY <1>1, <1>2, ReadsOK

\* The loop reads its rows.
LEMMA GetAllUnFinishSyncTasksOK ==
    ASSUME TBInv, NEW p \in Pollers, GetAllUnFinishSyncTasks(p)
    PROVE  TBInv'
<1> DEFINE S == {t \in Tasks : Unfinished(t)}
<1>1. S \in SUBSET Tasks /\ \A t \in S : Unfinished(t)
  OBVIOUS
<1>2. /\ batch' = [batch EXCEPT ![p] = RowsWhere(S)] /\ Goto(p, At("poll", "next", NoTask, "", "", 0))
      /\ UNCHANGED <<task, stage, fetch, up, refunds>>
  BY DEF GetAllUnFinishSyncTasks, submitVars, rowVars, moneyVars
<1> HIDE DEF S
<1> QED
  BY <1>1, <1>2, ReadsOK

\* A process stops and forgets its batch, and the refund it owed.
LEMMA CrashOK ==
    ASSUME TBInv, NEW p \in Pollers, Crash(p)
    PROVE  TBInv'
<1>1. RowsWhere({}) = NoRows
  BY DEF RowsWhere, NoRows
<1>2. /\ batch' = [batch EXCEPT ![p] = RowsWhere({})] /\ Goto(p, At("idle", "next", NoTask, "", "", 0))
      /\ UNCHANGED <<task, stage, fetch, up, refunds>>
  BY <1>1 DEF Crash, Idle, submitVars, rowVars, moneyVars
<1>3. {} \in SUBSET Tasks /\ \A t \in {} : Unfinished(t)
  OBVIOUS
<1> QED
  BY <1>2, <1>3, ReadsOK

\* The loop starts again.
LEMMA SleepOK ==
    ASSUME TBInv, NEW p \in Pollers, Sleep(p)
    PROVE  TBInv'
<1>1. Goto(p, Idle) /\ UNCHANGED <<batch, task, stage, fetch, up, refunds>>
  BY DEF Sleep, submitVars, rowVars, moneyVars
<1>2. Idle \in Places /\ Idle.step = "next"
  BY NextPlace DEF Idle
<1>3. RowsStay
  BY <1>1 DEF RowsStay
<1>4. PollersOK' /\ NoNewRefund
  BY <1>1, <1>2, <1>3, PollerGoes DEF TBInv, NoNewRefund
<1> QED
  BY <1>1, <1>4, QuietPoller

\* Giving up on one task of the batch.
LEMMA ThroughOK ==
    ASSUME TBInv, NEW p \in Pollers, NEW u \in Tasks, Through(p, u),
           UNCHANGED <<task, stage, fetch, up, refunds>>
    PROVE  TBInv'
<1>1. RowsStay
  BY DEF RowsStay
<1>2. PollersOK' /\ NoNewRefund
  BY <1>1, PollerThrough DEF TBInv
<1> QED
  BY <1>2, QuietPoller

\* The task a poller is at work on is in its batch.
LEMMA WorkIsPending ==
    ASSUME PollersOK, NEW p \in Pollers, pc[p].step # "next"
    PROVE  pc[p].task \in Tasks /\ batch[p][pc[p].task] \in Row /\ batch[p][pc[p].task] # NoRow
<1>1. pc[p].task \in Tasks /\ batch[p][pc[p].task] # NoRow
  BY DEF PollersOK, Focus
<1>2. batch[p] \in [Tasks -> Row \cup {NoRow}]
  BY DEF PollersOK
<1> QED
  BY <1>1, <1>2

\* A statement fails: the poller gives the task up.
LEMMA UpdateFailsOK ==
    ASSUME TBInv, NEW p \in Pollers, UpdateFails(p)
    PROVE  TBInv'
<1>1. UNCHANGED <<task, stage, fetch, up, refunds>>
  BY DEF UpdateFails, submitVars, rowVars, moneyVars
<1>2. \E u \in Tasks : Through(p, u)
  BY WorkIsPending DEF UpdateFails, Pending, TBInv
<1> QED
  BY <1>1, <1>2, ThroughOK

\* The poller asks upstream.
LEMMA FetchTaskOK ==
    ASSUME TBInv, NEW p \in Pollers, FetchTask(p)
    PROVE  TBInv'
<1>1. UNCHANGED <<task, stage, fetch, up, refunds>>
  BY DEF FetchTask, submitVars, rowVars, moneyVars
<1>2. PICK u \in Pending(p) :
         \/ Through(p, u)
         \/ (\E a \in Answers(u) : Goto(p, At("poll", "commit", u, a, "", 0))) /\ UNCHANGED batch
  BY DEF FetchTask
<1>3. u \in Tasks /\ batch[p][u] # NoRow
  BY DEF Pending
<1>4. CASE Through(p, u)
  BY <1>1, <1>3, <1>4, ThroughOK
<1>5. CASE (\E a \in Answers(u) : Goto(p, At("poll", "commit", u, a, "", 0))) /\ UNCHANGED batch
  <2>1. PICK a \in Answers(u) : Goto(p, At("poll", "commit", u, a, "", 0))
    BY <1>5
  <2>2. a \in Statuses \ {"NOT_START"}
    BY <1>3 DEF Answers, TBInv, OutsideOK, Statuses, Terminal
  <2> DEFINE w == At("poll", "commit", u, a, "", 0)
  <2>0. Goto(p, w)
    BY <2>1
  <2>3. w \in Places /\ w.step = "commit" /\ w.task = u /\ w.answer = a
    <3>1. a \in Statuses \cup {""}
      BY <2>2
    <3>2. 0 \in Int
      OBVIOUS
    <3> HIDE DEF w
    <3>3. \A d \in Int : LET v == At("poll", "commit", u, a, "", d)
                        IN  v \in Places /\ v.step = "commit" /\ v.task = u /\ v.answer = a
      BY <1>3, <3>1, CommitPlace
    <3> QED
      BY <3>2, <3>3 DEF w
  <2> HIDE DEF w
  <2>4. RowsStay
    BY <1>1 DEF RowsStay
  <2>5. PollersOK' /\ NoNewRefund
    BY <1>3, <1>5, <2>0, <2>2, <2>3, <2>4, PollerGoes DEF TBInv, NoNewRefund
  <2> QED
    BY <1>1, <2>5, QuietPoller
<1> QED
  BY <1>2, <1>4, <1>5

\* The end of an adjustment starts no refund.
LEMMA AfterAdjustmentOK ==
    ASSUME TBInv, NEW p \in Pollers, pc[p].step # "next", AfterAdjustment(p),
           UNCHANGED <<task, stage, fetch, up, refunds>>
    PROVE  TBInv'
<1> DEFINE u == pc[p].task
<1>1. u \in Tasks /\ batch[p][u] # NoRow
  BY WorkIsPending DEF TBInv
<1>2. CASE u \in Suno /\ pc[p].mode = "poll"
  <2> DEFINE w == At("poll", "save", u, "", "", 0)
  <2>1. Goto(p, w) /\ UNCHANGED batch
    BY <1>2 DEF AfterAdjustment
  <2>2. w \in Places /\ w.step = "save" /\ w.task = u
    BY <1>1 DEF At, Places
  <2> HIDE DEF w
  <2>3. RowsStay
    BY DEF RowsStay
  <2>4. PollersOK' /\ NoNewRefund
    BY <1>1, <1>2, <2>1, <2>2, <2>3, PollerGoes DEF TBInv, NoNewRefund
  <2> QED
    BY <2>4, QuietPoller
<1>3. CASE ~(u \in Suno /\ pc[p].mode = "poll")
  <2>1. Through(p, u)
    BY <1>3 DEF AfterAdjustment
  <2> QED
    BY <1>1, <2>1, ThroughOK
<1> QED
  BY <1>2, <1>3

\* The token's side of an adjustment.
LEMMA taskAdjustTokenQuotaOK ==
    ASSUME TBInv, NEW p \in Pollers, taskAdjustTokenQuota(p)
    PROVE  TBInv'
<1>1. pc[p].step # "next" /\ AfterAdjustment(p) /\ UNCHANGED <<task, stage, fetch, up, refunds>>
  BY DEF taskAdjustTokenQuota, submitVars, rowVars
<1> QED
  BY <1>1, AfterAdjustmentOK

\* An adjustment that fails is given up.
LEMMA AdjustmentFailsOK ==
    ASSUME TBInv, NEW p \in Pollers, AdjustmentFails(p)
    PROVE  TBInv'
<1>1. pc[p].step # "next" /\ AfterAdjustment(p) /\ UNCHANGED <<task, stage, fetch, up, refunds>>
  BY DEF AdjustmentFails, submitVars, rowVars, moneyVars
<1> QED
  BY <1>1, AfterAdjustmentOK

----------------------------------------------------------------------------
(* Steps that end a task.                                                   *)

\* Only poller p may start a refund, and only of task u.
OnlyStarts(p, u) ==
    \A q \in Pollers, t \in Tasks : Refunding(q, t)' => Refunding(q, t) \/ (q = p /\ t = u)

\* A poller that is through with a task starts no refund.
LEMMA PollerLeaves ==
    ASSUME PollersOK, RowsStay, NEW p \in Pollers, NEW u \in Tasks, Through(p, u)
    PROVE  PollersOK' /\ OnlyStarts(p, u)
<1>1. PollersOK'
  BY PollerThrough
<1>2. pc' = [pc EXCEPT ![p] = At(pc[p].mode, "next", NoTask, "", "", 0)] /\ pc \in [Pollers -> Places]
  BY DEF Through, Goto, PollersOK
<1>3. pc'[p].step = "next" /\ \A q \in Pollers : q # p => pc'[q] = pc[q]
  BY <1>2 DEF At
<1> QED
  BY <1>1, <1>3 DEF OnlyStarts, Refunding

\* RefundTaskQuota is entered.
LEMMA RefundStepOK ==
    ASSUME PollersOK, RowsStay, NEW p \in Pollers, NEW u \in Tasks, batch[p][u] # NoRow,
           NEW r \in Row, RefundStep(p, u, r)
    PROVE  PollersOK' /\ OnlyStarts(p, u)
<1>1. CASE r.quota = 0
  <2>1. Through(p, u)
    BY <1>1 DEF RefundStep
  <2> QED
    BY <2>1, PollerLeaves
<1>2. CASE r.quota # 0
  <2> DEFINE d == -r.quota
  <2> DEFINE m == pc[p].mode
  <2> DEFINE w == At(m, "fund", u, "", "refund", d)
  <2>1. Goto(p, w) /\ UNCHANGED batch
    BY <1>2 DEF RefundStep
  <2>2. d \in Int
    <3>1. r.quota \in Nat
      BY TBConstants DEF Row
    <3> QED
      BY <3>1
  <2>3. m \in {"idle", "sweep", "poll"}
    BY PlaceFields
  <2> HIDE DEF d, m
  <2>4. w \in Places /\ w.step = "fund" /\ w.task = u /\ w.kind = "refund"
    BY <2>2, <2>3 DEF At, Places
  <2> HIDE DEF w
  <2> QED
    BY <2>1, <2>4, PollerGoes DEF OnlyStarts
<1> QED
  BY <1>1, <1>2

\* RecalculateTaskQuota is entered.
LEMMA SettleStepOK ==
    ASSUME PollersOK, RowsStay, NEW p \in Pollers, NEW u \in Tasks, batch[p][u] # NoRow,
           NEW r \in Row, SettleStep(p, u, r)
    PROVE  PollersOK' /\ NoNewRefund
<1>1. PICK a \in Actuals(u) :
         IF a = 0 \/ a = r.quota THEN Through(p, u)
         ELSE Goto(p, At("poll", "fund", u, "", "settle", a - r.quota)) /\ UNCHANGED batch
  BY DEF SettleStep
<1>2. CASE Through(p, u)
  BY <1>2, PollerThrough
<1>3. CASE Goto(p, At("poll", "fund", u, "", "settle", a - r.quota)) /\ UNCHANGED batch
  <2> DEFINE d == a - r.quota
  <2> DEFINE w == At("poll", "fund", u, "", "settle", d)
  <2>1. Goto(p, w) /\ UNCHANGED batch
    BY <1>3
  <2>2. d \in Int
    <3>1. r.quota \in Nat
      BY TBConstants DEF Row
    <3>2. a \in Nat
      BY TBConstants DEF Actuals
    <3> QED
      BY <3>1, <3>2
  <2> HIDE DEF d
  <2>4. w \in Places /\ w.step = "fund" /\ w.task = u /\ w.kind = "settle"
    BY <2>2 DEF At, Places
  <2> HIDE DEF w
  <2> QED
    BY <2>1, <2>4, PollerGoes DEF NoNewRefund
<1> QED
  BY <1>1, <1>2, <1>3

\* The poller whose update ends a task is the only one to refund it: a task
\* that had not ended was not refunded before.
LEMMA RefundStarts ==
    ASSUME RefundsOK, RowsOK, NEW p \in Pollers, NEW u \in Tasks,
           task[u] # NoRow, task[u].status \notin Terminal,
           Failed(u)', \A t \in Tasks : t # u => task'[t] = task[t],
           OnlyStarts(p, u), UNCHANGED <<stage, refunds>>
    PROVE  RefundsOK'
<1> SUFFICES ASSUME NEW t \in Tasks, Guarded(t)' PROVE OneRefund(t)'
  BY DEF RefundsOK
<1>1. OneRefund(t)
  BY DEF RefundsOK, Guarded
<1>2. CASE t = u
  <2>1. ~Failed(u)
    BY DEF Failed, Terminal
  <2>2. refunds[u] = 0 /\ \A q \in Pollers : ~Refunding(q, u)
    BY <1>1, <1>2, <2>1 DEF OneRefund
  <2>3. \A q \in Pollers : Refunding(q, u)' => q = p
    BY <2>2 DEF OnlyStarts
  <2> QED
    BY <1>2, <2>2, <2>3 DEF OneRefund
<1>3. CASE t # u
  <2>1. Failed(t) => Failed(t)'
    BY <1>3 DEF Failed
  <2>2. \A q \in Pollers : Refunding(q, t)' => Refunding(q, t)
    BY <1>3 DEF OnlyStarts
  <2> QED
    BY <1>1, <2>1, <2>2 DEF OneRefund
<1> QED
  BY <1>2, <1>3

\* A copy whose status the row still has is of a task that has not ended.
LEMMA WinnerIsFirst ==
    ASSUME TBInv, NEW p \in Pollers, NEW u \in Tasks \ Suno, batch[p][u] # NoRow,
           Wins(u, batch[p][u].status)
    PROVE  task[u] # NoRow /\ task[u].status \notin Terminal
<1>1. Copy(p, u)
  BY DEF TBInv, PollersOK
<1> QED
  BY <1>1 DEF Copy, Wins

\* The sweep ends a task.
LEMMA SweepTaskOK ==
    ASSUME TBInv, NEW p \in Pollers, SweepTask(p)
    PROVE  TBInv'
<1>1. UNCHANGED <<stage, fetch, up, refunds>>
  BY DEF SweepTask, submitVars, moneyVars
<1>2. PICK u \in Pending(p) :
         IF Wins(u, batch[p][u].status)
         THEN /\ task' = [task EXCEPT ![u] = [batch[p][u] EXCEPT !.status = "FAILURE",
                                              !.full = TRUE, !.reason = "timeout"]]
              /\ IF u \in Legacy THEN Through(p, u) ELSE RefundStep(p, u, batch[p][u])
         ELSE Through(p, u) /\ UNCHANGED task
  BY DEF SweepTask
<1>3. u \in Tasks /\ batch[p][u] # NoRow
  BY DEF Pending
<1>4. CASE ~Wins(u, batch[p][u].status)
  BY <1>1, <1>2, <1>3, <1>4, ThroughOK
<1>5. CASE Wins(u, batch[p][u].status)
  <2> DEFINE r == batch[p][u]
  <2>1. r \in Row
    BY <1>3 DEF TBInv, PollersOK
  <2> HIDE DEF r
  <2> DEFINE n == [r EXCEPT !.status = "FAILURE", !.full = TRUE, !.reason = "timeout"]
  <2>2. n \in Row /\ n.status = "FAILURE"
    BY <2>1 DEF Row, Statuses, Terminal
  <2> HIDE DEF n
  <2>3. /\ task' = [task EXCEPT ![u] = n]
        /\ IF u \in Legacy THEN Through(p, u) ELSE RefundStep(p, u, r)
    BY <1>2, <1>5 DEF n, r
  <2>4. task[u] # NoRow
    BY <1>3 DEF TBInv, PollersOK, Copy
  <2>5. RowsOK' /\ QueriesOK' /\ RowsStay /\ task'[u] = n /\ \A t \in Tasks : t # u => task'[t] = task[t]
    BY <1>1, <1>3, <2>2, <2>3, <2>4, RowWritten DEF TBInv
  <2>6. PollersOK' /\ OnlyStarts(p, u)
    <3>1. CASE u \in Legacy
      BY <1>3, <2>3, <2>5, <3>1, PollerLeaves DEF TBInv
    <3>2. CASE u \notin Legacy
      BY <1>3, <2>1, <2>3, <2>5, <3>2, RefundStepOK DEF TBInv
    <3> QED
      BY <3>1, <3>2
  <2>7. OutsideOK'
    BY <1>1 DEF TBInv, OutsideOK
  <2>8. Failed(u)'
    BY <1>3, <2>2, <2>5, NoRowIsNoRow DEF Failed
  <2>9. RefundsOK'
    <3>1. CASE u \in Suno
      <4>1. NoNewRefund
        BY <2>6, <3>1 DEF OnlyStarts, NoNewRefund
      <4>2. FailuresStay /\ NoNewGuard
        BY <1>1, <2>5, <3>1 DEF FailuresStay, NoNewGuard, Guarded, Failed
      <4> QED
        BY <1>1, <4>1, <4>2, QuietStep DEF TBInv
    <3>2. CASE u \notin Suno
      <4>1. task[u].status \notin Terminal
        BY <1>3, <1>5, <3>2, WinnerIsFirst
      <4> QED
        BY <1>1, <1>3, <2>4, <2>5, <2>6, <2>8, <4>1, RefundStarts DEF TBInv
    <3> QED
      BY <3>1, <3>2
  <2> QED
    BY <2>5, <2>6, <2>7, <2>9 DEF TBInv
<1> QED
  BY <1>4, <1>5

\* An answer written into a row makes a row with the status of the answer.
LEMMA AnsweredOK ==
    ASSUME NEW r \in Row, NEW a \in Statuses, NEW done \in BOOLEAN
    PROVE  Answered(r, a, done) \in Row /\ Answered(r, a, done).status = a
<1> DEFINE full == done \/ a \in Terminal
<1> DEFINE why == IF a = "FAILURE" THEN "upstream" ELSE r.reason
<1> DEFINE n == [r EXCEPT !.status = a, !.full = full, !.reason = why]
<1>1. full \in BOOLEAN
  OBVIOUS
<1>2. why \in {"", "upstream", "timeout", "channel"}
  BY DEF Row
<1>3. Answered(r, a, done) = n
  BY DEF Answered, Row
<1> HIDE DEF full, why
<1>4. n \in Row /\ n.status = a
  BY <1>1, <1>2 DEF Row
<1> QED
  BY <1>3, <1>4

\* An answer is committed by a guarded update.
LEMMA updateVideoSingleTaskOK ==
    ASSUME TBInv, NEW p \in Pollers, updateVideoSingleTask(p)
    PROVE  TBInv'
<1>0. PICK u \in Tasks : u = pc[p].task
  BY WorkIsPending DEF TBInv, updateVideoSingleTask
<1> DEFINE r == batch[p][u]
<1> DEFINE a == pc[p].answer
<1>1. UNCHANGED <<stage, fetch, up, refunds>> /\ pc[p].step = "commit" /\ u \notin Suno
  BY <1>0 DEF updateVideoSingleTask, submitVars
<1>2. u \in Tasks /\ r \in Row /\ batch[p][u] # NoRow
  BY <1>0, <1>1, WorkIsPending DEF TBInv
<1>3. a \in Statuses
  BY <1>1 DEF TBInv, PollersOK, Focus
<1>4. IF Wins(u, r.status)
      THEN /\ \E done \in BOOLEAN : task' = [task EXCEPT ![u] = Answered(r, a, done)]
           /\ IF a = "SUCCESS" THEN SettleStep(p, u, r)
              ELSE IF a = "FAILURE" THEN RefundStep(p, u, r) ELSE Through(p, u)
      ELSE Through(p, u) /\ UNCHANGED task
  BY <1>0 DEF updateVideoSingleTask
<1>5. CASE ~Wins(u, r.status)
  BY <1>1, <1>2, <1>4, <1>5, ThroughOK
<1>6. CASE Wins(u, r.status)
  <2>0. PICK done \in BOOLEAN : task' = [task EXCEPT ![u] = Answered(r, a, done)]
    BY <1>4, <1>6
  <2> DEFINE n == Answered(r, a, done)
  <2>1. n \in Row /\ n.status = a
    BY <1>2, <1>3, AnsweredOK
  <2>2. task' = [task EXCEPT ![u] = n]
    BY <2>0
  <2>3. task[u] # NoRow /\ task[u].status \notin Terminal
    BY <1>1, <1>2, <1>6, WinnerIsFirst
  <2> HIDE DEF r, a, n
  <2>4. RowsOK' /\ QueriesOK' /\ RowsStay /\ task'[u] = n /\ \A t \in Tasks : t # u => task'[t] = task[t]
    BY <1>1, <1>2, <2>1, <2>2, <2>3, RowWritten DEF TBInv
  <2>5. OutsideOK'
    BY <1>1 DEF TBInv, OutsideOK
  <2>6. FailuresStay /\ NoNewGuard
    BY <1>1, <2>3, <2>4 DEF FailuresStay, NoNewGuard, Guarded, Failed, Terminal
  <2>7. CASE a = "FAILURE"
    <3>1. PollersOK' /\ OnlyStarts(p, u)
      BY <1>2, <1>4, <1>6, <2>4, <2>7, RefundStepOK DEF TBInv
    <3>2. Failed(u)'
      BY <1>2, <2>1, <2>4, <2>7, NoRowIsNoRow DEF Failed
    <3>3. RefundsOK'
      BY <1>1, <1>2, <2>3, <2>4, <3>1, <3>2, RefundStarts DEF TBInv
    <3> QED
      BY <2>4, <2>5, <3>1, <3>3 DEF TBInv
  <2>8. CASE a # "FAILURE"
    <3>1. PollersOK' /\ NoNewRefund
      <4>1. CASE a = "SUCCESS"
        BY <1>2, <1>4, <1>6, <2>4, <4>1, SettleStepOK DEF TBInv
      <4>2. CASE a # "SUCCESS"
        BY <1>2, <1>4, <1>6, <2>4, <2>8, <4>2, PollerThrough DEF TBInv
      <4> QED
        BY <4>1, <4>2
    <3>2. RefundsOK'
      BY <1>1, <2>6, <3>1, QuietStep DEF TBInv
    <3> QED
      BY <2>4, <2>5, <3>1, <3>2 DEF TBInv
  <2> QED
    BY <2>7, <2>8
<1> QED
  BY <1>5, <1>6

----------------------------------------------------------------------------
(* Suno tasks, which are not guarded, and failures without a refund.        *)

\* What updateSunoTasks writes into its copy.
LEMMA SunoRowOK ==
    ASSUME NEW r \in Row, NEW failed \in BOOLEAN
    PROVE  [r EXCEPT !.reason = IF failed THEN "upstream" ELSE @] \in Row
  BY DEF Row

\* A Suno answer is written into the poller's copy.
LEMMA updateSunoTasksOK ==
    ASSUME TBInv, NEW p \in Pollers, updateSunoTasks(p)
    PROVE  TBInv'
<1>0. PICK u \in Tasks : u = pc[p].task
  BY WorkIsPending DEF TBInv, updateSunoTasks
<1>1. UNCHANGED <<task, stage, fetch, up, refunds>> /\ pc[p].step = "commit" /\ u \in Suno
  BY <1>0 DEF updateSunoTasks, submitVars, rowVars, moneyVars
<1> DEFINE r == batch[p][u]
<1> DEFINE a == pc[p].answer
<1>2. r \in Row /\ batch[p][u] # NoRow
  BY <1>0, <1>1, WorkIsPending DEF TBInv
<1>3. a \in Statuses
  BY <1>1 DEF TBInv, PollersOK, Focus
<1>4. PICK hasReason \in BOOLEAN :
        LET failed == hasReason \/ a = "FAILURE"
        IN  /\ batch' = [batch EXCEPT ![p][u] =
                            [Answered(r, a, failed) EXCEPT
                                !.reason = IF failed THEN "upstream" ELSE @]]
            /\ Goto(p, IF failed /\ r.quota # 0
                       THEN At("poll", "fund", u, "", "refund", -r.quota)
                       ELSE At("poll", "save", u, "", "", 0))
  BY <1>0 DEF updateSunoTasks
<1> DEFINE failed == hasReason \/ a = "FAILURE"
<1> DEFINE n == [Answered(r, a, failed) EXCEPT !.reason = IF failed THEN "upstream" ELSE @]
<1> DEFINE w == IF failed /\ r.quota # 0 THEN At("poll", "fund", u, "", "refund", -r.quota)
                ELSE At("poll", "save", u, "", "", 0)
<1>5. batch' = [batch EXCEPT ![p][u] = n] /\ pc' = [pc EXCEPT ![p] = w]
  BY <1>4 DEF Goto
<1>6. n \in Row
  <2>2. failed \in BOOLEAN
    OBVIOUS
  <2> HIDE DEF failed
  <2>1. Answered(r, a, failed) \in Row
    BY <1>2, <1>3, <2>2, AnsweredOK
  <2> QED
    BY <2>1, <2>2, SunoRowOK
<1>7. w \in Places /\ w.step \in {"fund", "save"} /\ w.task = u
  <2> DEFINE d == -r.quota
  <2>1. d \in Int
    <3>1. r.quota \in Nat
      BY <1>2, TBConstants DEF Row
    <3> QED
      BY <3>1
  <2> HIDE DEF d
  <2>2. At("poll", "fund", u, "", "refund", d) \in Places
        /\ At("poll", "fund", u, "", "refund", d).step = "fund" /\ At("poll", "fund", u, "", "refund", d).task = u
    BY <2>1 DEF At, Places
  <2>3. At("poll", "save", u, "", "", 0) \in Places
        /\ At("poll", "save", u, "", "", 0).step = "save" /\ At("poll", "save", u, "", "", 0).task = u
    BY DEF At, Places
  <2>4. CASE failed /\ r.quota # 0
    BY <2>2, <2>4 DEF d
  <2>5. CASE ~(failed /\ r.quota # 0)
    BY <2>3, <2>5
  <2> QED
    BY <2>4, <2>5
<1> HIDE DEF r, a, failed, n, w
<1>8. n # NoRow
  BY <1>6, NoRowIsNoRow
<1>9. /\ batch \in [Pollers -> [Tasks -> Row \cup {NoRow}]]
      /\ pc \in [Pollers -> Places]
  BY DEF TBInv, PollersOK
<1>10. /\ batch' \in [Pollers -> [Tasks -> Row \cup {NoRow}]]
       /\ batch'[p][u] = n /\ \A t \in Tasks : t # u => batch'[p][t] = batch[p][t]
       /\ \A q \in Pollers : q # p => batch'[q] = batch[q]
  BY <1>5, <1>6, <1>9
<1>11. pc' \in [Pollers -> Places] /\ pc'[p] = w /\ \A q \in Pollers : q # p => pc'[q] = pc[q]
  BY <1>5, <1>7, <1>9
<1>12. \A q \in Pollers : Focus(q)'
  BY <1>1, <1>7, <1>8, <1>10, <1>11 DEF TBInv, PollersOK, Focus
<1>13. \A q \in Pollers, t \in Tasks : Copy(q, t)'
  <2> SUFFICES ASSUME NEW q \in Pollers, NEW t \in Tasks PROVE Copy(q, t)'
    OBVIOUS
  <2>0. Copy(q, t)
    BY DEF TBInv, PollersOK
  <2>1. CASE q = p /\ t = u
    BY <1>1, <1>2, <2>0, <2>1 DEF Copy
  <2>2. CASE ~(q = p /\ t = u)
    <3>1. batch'[q][t] = batch[q][t]
      BY <1>10, <2>2
    <3> QED
      BY <1>1, <2>0, <3>1 DEF Copy
  <2> QED
    BY <2>1, <2>2
<1>14. PollersOK'
  BY <1>10, <1>11, <1>12, <1>13 DEF PollersOK
<1>15. NoNewRefund
  BY <1>1, <1>7, <1>11 DEF NoNewRefund, Refunding
<1> QED
  BY <1>1, <1>14, <1>15, QuietPoller

\* A Suno row is saved.
LEMMA SaveSunoOK ==
    ASSUME TBInv, NEW p \in Pollers, SaveSuno(p)
    PROVE  TBInv'
<1>0. PICK u \in Tasks : u = pc[p].task
  BY WorkIsPending DEF TBInv, SaveSuno
<1>1. /\ pc[p].step = "save" /\ task' = [task EXCEPT ![u] = batch[p][u]] /\ Through(p, u)
      /\ UNCHANGED <<stage, fetch, up, refunds>>
  BY <1>0 DEF SaveSuno, submitVars, moneyVars
<1>2. u \in Suno /\ batch[p][u] \in Row /\ batch[p][u] # NoRow
  BY <1>0, <1>1, WorkIsPending DEF TBInv, PollersOK, Focus
<1>3. task[u] # NoRow
  BY <1>2 DEF TBInv, PollersOK, Copy
<1>4. RowsOK' /\ QueriesOK' /\ RowsStay /\ \A t \in Tasks : t # u => task'[t] = task[t]
  BY <1>1, <1>2, <1>3, RowWritten DEF TBInv
<1>5. PollersOK' /\ NoNewRefund
  BY <1>1, <1>4, PollerThrough DEF TBInv
<1>6. OutsideOK'
  BY <1>1 DEF TBInv, OutsideOK
<1>7. FailuresStay /\ NoNewGuard
  BY <1>1, <1>2, <1>4 DEF FailuresStay, NoNewGuard, Guarded, Failed
<1>8. RefundsOK'
  BY <1>1, <1>5, <1>7, QuietStep DEF TBInv
<1> QED
  BY <1>4, <1>5, <1>6, <1>8 DEF TBInv

\* Tasks without a channel fail; a FAILURE stays one.
LEMMA TaskBulkUpdateByIDOK ==
    ASSUME TBInv, NEW p \in Pollers, TaskBulkUpdateByID(p)
    PROVE  TBInv'
<1>1. /\ UNCHANGED <<stage, fetch, up, refunds, pc>> /\ pc[p].step = "next"
  BY DEF TaskBulkUpdateByID, submitVars, moneyVars
<1>2. PICK S \in SUBSET Pending(p) :
        /\ task' = [t \in Tasks |-> IF t \in S
                                    THEN [task[t] EXCEPT !.status = "FAILURE", !.full = TRUE,
                                                         !.reason = "channel"]
                                    ELSE task[t]]
        /\ batch' = [batch EXCEPT ![p] = [t \in Tasks |-> IF t \in S THEN NoRow ELSE @[t]]]
  BY DEF TaskBulkUpdateByID
<1>3. \A t \in S : t \in Tasks /\ task[t] \in Row
  BY DEF Pending, TBInv, PollersOK, Copy, RowsOK
<1>4. \A t \in S : task'[t] \in Row /\ task'[t].status = "FAILURE"
  <2> SUFFICES ASSUME NEW t \in S PROVE task'[t] \in Row /\ task'[t].status = "FAILURE"
    OBVIOUS
  <2> DEFINE r == task[t]
  <2>1. r \in Row /\ t \in Tasks
    BY <1>3
  <2>2. task'[t] = [r EXCEPT !.status = "FAILURE", !.full = TRUE, !.reason = "channel"]
    BY <1>2, <2>1
  <2> HIDE DEF r
  <2>3. /\ [r EXCEPT !.status = "FAILURE", !.full = TRUE, !.reason = "channel"] \in Row
        /\ [r EXCEPT !.status = "FAILURE", !.full = TRUE, !.reason = "channel"].status = "FAILURE"
    BY <2>1 DEF Row, Statuses, Terminal
  <2> QED
    BY <2>2, <2>3
<1>5. \A t \in Tasks : t \notin S => task'[t] = task[t]
  BY <1>2
<1>6. \A t \in S : task'[t] # NoRow
  BY <1>4, NoRowIsNoRow
<1>7. RowsStay
  BY <1>5, <1>6 DEF RowsStay
<1>8. RowsOK'
  <2>1. \A t \in Tasks : task'[t] \in Row \cup {NoRow}
    BY <1>4, <1>5 DEF TBInv, RowsOK
  <2>2. task' \in [Tasks -> Row \cup {NoRow}]
    BY <1>2, <2>1
  <2>3. \A t \in Tasks : task'[t] = NoRow <=> task[t] = NoRow
    BY <1>3, <1>5, <1>6, NoRowIsNoRow
  <2> QED
    BY <1>1, <2>2, <2>3 DEF TBInv, RowsOK
<1>9. QueriesOK'
  BY <1>1, <1>7 DEF TBInv, QueriesOK, RowsStay
<1>10. OutsideOK'
  BY <1>1 DEF TBInv, OutsideOK
<1>11. FailuresStay /\ NoNewGuard
  BY <1>1, <1>4, <1>5, <1>6 DEF FailuresStay, NoNewGuard, Guarded, Failed
<1>12. /\ batch' \in [Pollers -> [Tasks -> Row \cup {NoRow}]]
       /\ \A t \in Tasks : batch'[p][t] \in {NoRow, batch[p][t]}
       /\ \A q \in Pollers : q # p => batch'[q] = batch[q]
  BY <1>2 DEF TBInv, PollersOK
<1>13. \A q \in Pollers : Focus(q)'
  BY <1>1, <1>12 DEF TBInv, PollersOK, Focus
<1>14. \A q \in Pollers, t \in Tasks : Copy(q, t)'
  BY <1>7, <1>12 DEF TBInv, PollersOK, Copy, RowsStay
<1>15. PollersOK'
  BY <1>1, <1>12, <1>13, <1>14 DEF TBInv, PollersOK
<1>16. NoNewRefund
  BY <1>1 DEF NoNewRefund, Refunding
<1>17. RefundsOK'
  BY <1>1, <1>11, <1>16, QuietStep DEF TBInv
<1> QED
  BY <1>8, <1>9, <1>10, <1>15, <1>17 DEF TBInv

----------------------------------------------------------------------------
(* A refund completes.                                                      *)

\* A refund completes: it was the only one, and it was not done before.
LEMMA taskAdjustFundingOK ==
    ASSUME TBInv, NEW p \in Pollers, taskAdjustFunding(p)
    PROVE  TBInv'
<1>0. PICK u \in Tasks : u = pc[p].task
  BY WorkIsPending DEF TBInv, taskAdjustFunding
<1>1. pc[p].step = "fund" /\ UNCHANGED <<task, stage, fetch, up>>
  BY DEF taskAdjustFunding, submitVars, rowVars
<1>2. CASE AfterAdjustment(p) /\ UNCHANGED refunds
  BY <1>1, <1>2, AfterAdjustmentOK
<1>3. CASE /\ refunds' = [refunds EXCEPT ![u] = @ + (IF pc[p].kind = "refund" THEN 1 ELSE 0)]
           /\ pc' = [pc EXCEPT ![p].step = "token"] /\ UNCHANGED batch
  <2> DEFINE w == [pc[p] EXCEPT !.step = "token"]
  <2>1. w \in Places /\ w.step = "token" /\ w.task = u
    <3>1. pc[p] \in Places
      BY PlaceFields DEF TBInv
    <3> QED
      BY <1>0, <3>1 DEF Places
  <2>2. Goto(p, w)
    BY <1>3 DEF Goto, TBInv, PollersOK
  <2> HIDE DEF w
  <2>3. batch[p][u] # NoRow
    BY <1>0, <1>1, WorkIsPending DEF TBInv
  <2>4. RowsOK' /\ QueriesOK' /\ RowsStay /\ FailuresStay /\ NoNewGuard
    BY <1>1, RowsUnwritten DEF TBInv
  <2>5. PollersOK' /\ \A q \in Pollers, t \in Tasks : Refunding(q, t)' => Refunding(q, t)
    BY <1>3, <2>1, <2>2, <2>3, <2>4, PollerGoes DEF TBInv
  <2>6. \A t \in Tasks : ~Refunding(p, t)'
    <3>1. pc'[p].step = "token"
      BY <2>1, <2>2 DEF Goto, TBInv, PollersOK
    <3> QED
      BY <3>1 DEF Refunding
  <2>7. refunds \in [Tasks -> Nat]
    BY DEF TBInv, OutsideOK
  <2>8. refunds' \in [Tasks -> Nat] /\ \A t \in Tasks : t # u => refunds'[t] = refunds[t]
    BY <1>3, <2>7
  <2>9. OutsideOK'
    BY <1>1, <2>8 DEF TBInv, OutsideOK
  <2>10. RefundsOK'
    <3>1. CASE pc[p].kind # "refund"
      <4>1. refunds' = refunds
        BY <1>3, <2>7, <3>1
      <4> QED
        BY <2>4, <2>5, <4>1, QuietStep DEF TBInv, NoNewRefund
    <3>2. CASE pc[p].kind = "refund"
      <4> SUFFICES ASSUME NEW t \in Tasks, Guarded(t)' PROVE OneRefund(t)'
        BY DEF RefundsOK
      <4>1. OneRefund(t) /\ (Failed(t) => Failed(t)')
        BY <2>4 DEF TBInv, RefundsOK, NoNewGuard, FailuresStay
      <4>2. CASE t = u
        <5>1. Refunding(p, u)
          BY <1>0, <1>1, <3>2 DEF Refunding
        <5>2. refunds[u] = 0 /\ Failed(u) /\ \A q \in Pollers : Refunding(q, u) => q = p
          BY <4>1, <4>2, <5>1 DEF OneRefund
        <5>3. refunds'[u] = 1
          BY <1>3, <2>7, <3>2, <5>2
        <5>4. \A q \in Pollers : ~Refunding(q, u)'
          BY <2>5, <2>6, <5>2
        <5> QED
          BY <4>1, <4>2, <5>2, <5>3, <5>4 DEF OneRefund
      <4>3. CASE t # u
        <5>1. refunds'[t] = refunds[t]
          BY <2>8, <4>3
        <5> QED
          BY <2>5, <4>1, <5>1 DEF OneRefund
      <4> QED
        BY <4>2, <4>3
    <3> QED
      BY <3>1, <3>2
  <2> QED
    BY <2>4, <2>5, <2>9, <2>10 DEF TBInv
<1> QED
  BY <1>0, <1>2, <1>3 DEF taskAdjustFunding

----------------------------------------------------------------------------
(* The theorems.                                                            *)

\* The invariant holds initially.
LEMMA TBInitOK == TBInit => TBInv
<1> SUFFICES ASSUME TBInit PROVE TBInv
  OBVIOUS
<1>1. Idle \in Places /\ Idle.step = "next"
  BY NextPlace DEF Idle
<1>2. RowsOK /\ QueriesOK /\ OutsideOK
  BY DEF TBInit, RowsOK, QueriesOK, OutsideOK, NoRows, Early, Stages, Statuses, Terminal
<1>3. batch \in [Pollers -> [Tasks -> Row \cup {NoRow}]]
      /\ \A p \in Pollers, t \in Tasks : batch[p][t] = NoRow
  BY DEF TBInit, NoRows
<1>4. pc \in [Pollers -> Places] /\ \A p \in Pollers : pc[p].step = "next"
  BY <1>1 DEF TBInit
<1>5. PollersOK
  BY <1>3, <1>4 DEF PollersOK, Focus, Copy
<1>6. RefundsOK
  BY <1>4 DEF TBInit, RefundsOK, OneRefund, Refunding
<1> QED
  BY <1>2, <1>5, <1>6 DEF TBInv

\* The handler's steps on balances.
LEMMA HandlerStepsOK ==
    ASSUME TBInv, NEW t \in Tasks,
           \/ PreConsumeBilling(t) \/ SubmitFails(t) \/ SettleBilling(t) \/ SettleBillingFails(t)
    PROVE  TBInv'
<1>1. \/ stage[t] = "new" /\ stage' = [stage EXCEPT ![t] = "sent"]
      \/ stage[t] = "sent" /\ stage' = [stage EXCEPT ![t] = "aborted"]
      \/ stage[t] = "inserted" /\ stage' = [stage EXCEPT ![t] = "settled"]
      \/ stage[t] = "inserted" /\ stage' = [stage EXCEPT ![t] = "unsettled"]
  BY DEF PreConsumeBilling, SubmitFails, SettleBilling, SettleBillingFails
<1>2. UNCHANGED <<task, fetch, batch, pc, up, refunds>>
  BY DEF PreConsumeBilling, SubmitFails, SettleBilling, SettleBillingFails, rowVars, pollVars, moneyVars
<1>3. PICK s \in Stages : /\ stage' = [stage EXCEPT ![t] = s]
                          /\ s \in Early <=> stage[t] \in Early
                          /\ stage[t] \in {"unsettled", "audited"} => s \in {"unsettled", "audited"}
  BY <1>1 DEF Stages, Early
<1> QED
  BY <1>2, <1>3, HandlerMoves

\* Time passes.
LEMMA TimesOutOK ==
    ASSUME TBInv, NEW u \in Tasks, TimesOut(u)
    PROVE  TBInv'
<1>1. UNCHANGED <<task, stage, fetch, up, refunds, batch, pc>>
  BY DEF TimesOut, rowVars, pollVars, moneyVars
<1>2. RowsStay
  BY <1>1 DEF RowsStay
<1> QED
  BY <1>1, <1>2, PollersIdle, QuietPoller DEF TBInv

\* Every step keeps the invariant.
LEMMA TBNextOK == TBInv /\ [TBNext]_tbVars => TBInv'
<1> SUFFICES ASSUME TBInv, [TBNext]_tbVars PROVE TBInv'
  OBVIOUS
<1>1. CASE UNCHANGED tbVars
  <2>1. UNCHANGED <<task, stage, fetch, up, refunds, batch, pc>>
    BY <1>1 DEF tbVars, submitVars, rowVars, pollVars, moneyVars
  <2>2. RowsStay
    BY <2>1 DEF RowsStay
  <2> QED
    BY <2>1, <2>2, PollersIdle, QuietPoller DEF TBInv
<1>2. ASSUME NEW t \in Tasks,
             \/ PreConsumeBilling(t) \/ SubmitFails(t) \/ InsertTask(t)
             \/ SettleBillingFails(t) \/ HandlerStep(t)
             \/ UpstreamEnds(t) \/ TimesOut(t)
             \/ RealtimeFetch(t) \/ RealtimeUpdate(t)
      PROVE  TBInv'
  BY <1>2, HandlerStepsOK, InsertTaskOK, SaveAuditOK, UpstreamEndsOK, TimesOutOK,
     RealtimeFetchOK, RealtimeUpdateOK DEF HandlerStep
<1>3. ASSUME NEW p \in Pollers, PollerStep(p)
      PROVE  TBInv'
  BY <1>3, GetTimedOutUnfinishedTasksOK, SweepTaskOK, GetAllUnFinishSyncTasksOK, FetchTaskOK, SleepOK,
     updateVideoSingleTaskOK, updateSunoTasksOK, SaveSunoOK, taskAdjustFundingOK, taskAdjustTokenQuotaOK
     DEF PollerStep
<1>4. ASSUME NEW p \in Pollers,
             TaskBulkUpdateByID(p) \/ UpdateFails(p) \/ AdjustmentFails(p) \/ Crash(p)
      PROVE  TBInv'
  BY <1>4, TaskBulkUpdateByIDOK, UpdateFailsOK, AdjustmentFailsOK, CrashOK
<1> QED
  BY <1>1, <1>2, <1>3, <1>4 DEF TBNext

\* The invariant above holds in every reachable state.
THEOREM TBInvariant == TBSpec => []TBInv
<1> QED
  BY TBInitOK, TBNextOK, PTL DEF TBSpec

\* RefundTaskQuota gives a guarded task back at most once: for every number
\* of pollers and sweeps that hold a copy of the row, and any failed writes
\* and stopped processes, only the one whose UpdateWithStatus matched the row
\* gets to refund it.
THEOREM OneRefundPerTask == TBSpec => []GuardedRefundOnce
<1>1. TBInv => GuardedRefundOnce
  BY DEF TBInv, RefundsOK, OneRefund, GuardedRefundOnce
<1> QED
  BY <1>1, TBInvariant, PTL

\* A guarded task that was refunded stays in FAILURE: no late answer of
\* upstream, seen by another poller, can still deliver its result.
THEOREM NoResultAfterRefund == TBSpec => []RefundOrResult
<1>1. TBInv => RefundOrResult
  BY DEF TBInv, RefundsOK, OneRefund, Failed, RefundOrResult
<1> QED
  BY <1>1, TBInvariant, PTL

----------------------------------------------------------------------------
(* What a task has paid.                                                    *)

\* Poller p has ended task t and has yet to adjust its funding or its token.
Adjusting(p, t) == pc[p].task = t /\ pc[p].step \in {"fund", "token"}

AmountsOK ==
    /\ late \in [Tasks -> BOOLEAN] /\ queries \in [Tasks -> 0 .. MaxQueries]
    /\ paid \in [Tasks -> Int] /\ tokenPaid \in [Tasks -> Int]
    /\ used \in 0 .. AmountTotal /\ usage \in [Tasks -> Nat]
    /\ due \in [Tasks -> Nat] /\ faults \in 0 .. MaxFaults

\* What the handler has taken before it inserts the row and before it settles.
Taken(t) ==
    /\ stage[t] = "new" => paid[t] = 0 /\ tokenPaid[t] = 0 /\ usage[t] = 0
    /\ stage[t] = "sent" => tokenPaid[t] = Estimate /\ (t \notin OnPackage => paid[t] = Estimate)
    /\ stage[t] \in {"sent", "inserted"} /\ t \in OnPackage => usage[t] = Estimate

TakenOK == \A t \in Tasks : Taken(t)

\* A copy of a row has the row's quota, however old it is.
CopiesOK ==
    /\ \A p \in Pollers, t \in Tasks : batch[p][t] # NoRow => batch[p][t].quota = task[t].quota
    /\ \A t \in Tasks : fetch[t] # NoRow => fetch[t].row.quota = task[t].quota

\* A task billed per call only ever gets something back.
Priced(t) ==
    /\ stage[t] = "inserted" => paid[t] <= Estimate
    /\ stage[t] = "settled" => paid[t] <= task[t].quota
    /\ \A p \in Pollers : Adjusting(p, t) => pc[p].delta <= 0

PerCallOK == \A t \in PerCall \ OnPackage : Priced(t)

\* What a task costs once the handler and the poller that ended it are done,
\* and what the handler has taken and not yet given back, or the reverse.
Cost(t) ==
    IF task[t].status = "SUCCESS" THEN due[t]
    ELSE IF task[t].status = "FAILURE" THEN 0 ELSE task[t].quota

Unsettled(t) == IF stage[t] = "settled" THEN 0 ELSE Estimate - task[t].quota

\* Tasks that fail without a refund: TaskBulkUpdateByID gives nothing back,
\* nor does the sweep for tasks from before the cutoff.
Unrefunded(t) == task[t].status = "FAILURE" /\ (task[t].reason = "channel" \/ t \in Legacy)

\* Up to the adjustment that one poller may owe, the wallet and the token have
\* paid the cost.
Bill(t) ==
    /\ task[t].status \notin Terminal => due[t] = task[t].quota /\ \A p \in Pollers : ~Adjusting(p, t)
    /\ ~Unrefunded(t) =>
          /\ \A p \in Pollers, q \in Pollers : Adjusting(p, t) /\ Adjusting(q, t) => p = q
          /\ (\A p \in Pollers : ~Adjusting(p, t)) =>
                paid[t] = Cost(t) + Unsettled(t) /\ tokenPaid[t] = Cost(t) + Unsettled(t)
          /\ \A p \in Pollers : Adjusting(p, t) =>
                /\ paid[t] + (IF pc[p].step = "fund" THEN pc[p].delta ELSE 0) = Cost(t) + Unsettled(t)
                /\ tokenPaid[t] + pc[p].delta = Cost(t) + Unsettled(t)

Billed(t) == t \notin Suno \cup Realtime \cup OnPackage /\ stage[t] \in {"inserted", "settled"}

BillsOK == faults = 0 => \A t \in Tasks : Billed(t) => Bill(t)

TBMoney == AmountsOK /\ TakenOK /\ CopiesOK /\ PerCallOK /\ BillsOK
----------------------------------------------------------------------------
(* What most steps leave as it is.                                          *)

QuotasStay == \A t \in Tasks : task[t] # NoRow => task'[t].quota = task[t].quota

\* The adjustments of task t are where they were.
SameWork(t) ==
    \A p \in Pollers :
       /\ Adjusting(p, t)' <=> Adjusting(p, t)
       /\ Adjusting(p, t) => pc'[p].step = pc[p].step /\ pc'[p].delta = pc[p].delta

\* No adjustment starts.
LessWork ==
    \A p \in Pollers, t \in Tasks : Adjusting(p, t)' => Adjusting(p, t) /\ pc'[p].delta = pc[p].delta

\* Tasks billed per call are adjusted downwards.
OnlyBack ==
    \A t \in PerCall \ OnPackage, p \in Pollers : Adjusting(p, t)' => pc'[p].delta <= 0

FewerCopies ==
    /\ \A p \in Pollers, t \in Tasks :
          batch'[p][t] # NoRow => batch[p][t] # NoRow /\ batch'[p][t].quota = batch[p][t].quota
    /\ \A t \in Tasks : fetch'[t] # NoRow => fetch'[t] = fetch[t]

\* Copies that are kept stay good while no row changes its quota.
LEMMA CopiesStay ==
    ASSUME TBInv, CopiesOK, QuotasStay, FewerCopies
    PROVE  CopiesOK'
<1>1. \A p \in Pollers, t \in Tasks : batch[p][t] # NoRow => task[t] # NoRow
  BY DEF TBInv, PollersOK, Copy
<1>2. \A t \in Tasks : fetch[t] # NoRow => task[t] # NoRow
  BY DEF TBInv, QueriesOK
<1> QED
  BY <1>1, <1>2 DEF CopiesOK, QuotasStay, FewerCopies

\* Adjustments that go on, or are given up, keep their sign.
LEMMA StillBack ==
    ASSUME PerCallOK, LessWork
    PROVE  OnlyBack
<1> SUFFICES ASSUME NEW t \in PerCall \ OnPackage, NEW p \in Pollers, Adjusting(p, t)'
             PROVE  pc'[p].delta <= 0
  BY DEF OnlyBack
<1>1. t \in Tasks
  BY TBConstants
<1>2. Adjusting(p, t) /\ pc'[p].delta = pc[p].delta
  BY <1>1 DEF LessWork
<1> QED
  BY <1>2 DEF PerCallOK, Priced

\* A task whose row, amounts and adjustments are left alone keeps its bill.
LEMMA BillKept ==
    ASSUME NEW t \in Tasks, Bill(t), SameWork(t), task'[t] = task[t], stage'[t] = stage[t],
           due'[t] = due[t], paid'[t] = paid[t], tokenPaid'[t] = tokenPaid[t]
    PROVE  Bill(t)'
<1>1. Cost(t)' = Cost(t) /\ Unsettled(t)' = Unsettled(t) /\ (Unrefunded(t)' <=> Unrefunded(t))
  BY DEF Cost, Unsettled, Unrefunded
<1>2. \A p \in Pollers : Adjusting(p, t)' <=> Adjusting(p, t)
  BY DEF SameWork
<1>3. \A p \in Pollers : Adjusting(p, t) => pc'[p].step = pc[p].step /\ pc'[p].delta = pc[p].delta
  BY DEF SameWork
<1> DEFINE c == Cost(t)
<1> DEFINE n == Unsettled(t)
<1>4. Cost(t)' = c /\ Unsettled(t)' = n
  BY <1>1
<1>5. /\ task[t].status \notin Terminal => due[t] = task[t].quota /\ \A p \in Pollers : ~Adjusting(p, t)
      /\ ~Unrefunded(t) =>
          /\ \A p \in Pollers, q \in Pollers : Adjusting(p, t) /\ Adjusting(q, t) => p = q
          /\ (\A p \in Pollers : ~Adjusting(p, t)) => paid[t] = c + n /\ tokenPaid[t] = c + n
          /\ \A p \in Pollers : Adjusting(p, t) =>
                /\ paid[t] + (IF pc[p].step = "fund" THEN pc[p].delta ELSE 0) = c + n
                /\ tokenPaid[t] + pc[p].delta = c + n
  BY DEF Bill
<1> HIDE DEF c, n
<1>6. /\ task[t].status \notin Terminal => due[t] = task[t].quota /\ \A p \in Pollers : ~Adjusting(p, t)'
      /\ ~Unrefunded(t) =>
          /\ \A p \in Pollers, q \in Pollers : Adjusting(p, t)' /\ Adjusting(q, t)' => p = q
          /\ (\A p \in Pollers : ~Adjusting(p, t)') => paid[t] = c + n /\ tokenPaid[t] = c + n
          /\ \A p \in Pollers : Adjusting(p, t)' =>
                /\ paid[t] + (IF pc'[p].step = "fund" THEN pc'[p].delta ELSE 0) = c + n
                /\ tokenPaid[t] + pc'[p].delta = c + n
  BY <1>2, <1>3, <1>5
<1> QED
  BY <1>1, <1>4, <1>6 DEF Bill

\* The bills of a step that touches none of the billed tasks.
LEMMA BillsStay ==
    ASSUME BillsOK, UNCHANGED <<stage, paid, tokenPaid, faults>>,
           \A t \in Tasks : Billed(t) => task'[t] = task[t] /\ due'[t] = due[t] /\ SameWork(t)
    PROVE  BillsOK'
<1> SUFFICES ASSUME faults' = 0, NEW t \in Tasks, Billed(t)' PROVE Bill(t)'
  BY DEF BillsOK
<1>1. Billed(t) /\ Bill(t)
  BY DEF Billed, BillsOK
<1> QED
  BY <1>1, BillKept

\* After a fault there is nothing to show.
LEMMA FaultyBills ==
    ASSUME AmountsOK, Fault
    PROVE  BillsOK' /\ faults' \in 0 .. MaxFaults
<1>1. faults \in 0 .. MaxFaults /\ MaxFaults \in Nat
  BY TBConstants DEF AmountsOK
<1>2. faults' = faults + 1 /\ faults < MaxFaults
  BY DEF Fault
<1>3. faults' \in 0 .. MaxFaults /\ faults' # 0
  BY <1>1, <1>2
<1> QED
  BY <1>3 DEF BillsOK

\* A step that moves no money.
LEMMA MoneyStays ==
    ASSUME TBInv, TBMoney, UNCHANGED <<stage, late, queries, paid, tokenPaid, used, usage>>,
           due' \in [Tasks -> Nat], faults' \in 0 .. MaxFaults,
           QuotasStay, CopiesOK', OnlyBack, BillsOK'
    PROVE  TBMoney'
<1>1. AmountsOK'
  BY DEF TBMoney, AmountsOK
<1>2. TakenOK'
  BY DEF TBMoney, TakenOK, Taken
<1>3. PerCallOK'
  <2> SUFFICES ASSUME NEW t \in PerCall \ OnPackage PROVE Priced(t)'
    BY DEF PerCallOK
  <2>1. Priced(t) /\ t \in Tasks
    BY TBConstants DEF TBMoney, PerCallOK
  <2>2. stage[t] = "settled" => task'[t].quota = task[t].quota
    BY <2>1 DEF TBInv, RowsOK, Early, QuotasStay
  <2>3. \A p \in Pollers : Adjusting(p, t)' => pc'[p].delta <= 0
    BY DEF OnlyBack
  <2> QED
    BY <2>1, <2>2, <2>3 DEF Priced
<1> QED
  BY <1>1, <1>2, <1>3 DEF TBMoney

\* What a poller does next is no adjustment of task t, and was none.
LEMMA WorkStays ==
    ASSUME PollersOK, NEW p \in Pollers, NEW w, Goto(p, w), NEW t \in Tasks,
           ~Adjusting(p, t), w.step \in {"fund", "token"} => w.task # t
    PROVE  SameWork(t)
<1>1. pc'[p] = w /\ \A q \in Pollers : q # p => pc'[q] = pc[q]
  BY DEF Goto, PollersOK
<1>2. ~Adjusting(p, t)'
  BY <1>1 DEF Adjusting
<1>3. \A q \in Pollers : q # p => (Adjusting(q, t)' <=> Adjusting(q, t))
  BY <1>1 DEF Adjusting
<1> QED
  BY <1>1, <1>2, <1>3 DEF SameWork

\* A poller that goes where it adjusts nothing.
LEMMA WorkEnds ==
    ASSUME PollersOK, NEW p \in Pollers, NEW w, Goto(p, w), w.step \notin {"fund", "token"}
    PROVE  LessWork
<1>1. pc'[p] = w /\ \A q \in Pollers : q # p => pc'[q] = pc[q]
  BY DEF Goto, PollersOK
<1>2. \A t \in Tasks : ~Adjusting(p, t)'
  BY <1>1 DEF Adjusting
<1>3. \A q \in Pollers, t \in Tasks : q # p => (Adjusting(q, t)' <=> Adjusting(q, t))
  BY <1>1 DEF Adjusting
<1> QED
  BY <1>1, <1>2, <1>3 DEF LessWork

\* A poller that is through with a task.
LEMMA ThroughWork ==
    ASSUME PollersOK, NEW p \in Pollers, NEW u \in Tasks, Through(p, u)
    PROVE  /\ LessWork
           /\ \A t \in Tasks : ~Adjusting(p, t) => SameWork(t)
           /\ \A q \in Pollers, t \in Tasks : batch'[q][t] # NoRow => batch'[q][t] = batch[q][t]
           /\ pc'[p].step = "next" /\ \A q \in Pollers : q # p => pc'[q] = pc[q]
<1> DEFINE w == At(pc[p].mode, "next", NoTask, "", "", 0)
<1>1. Goto(p, w) /\ batch' = [batch EXCEPT ![p][u] = NoRow]
  BY DEF Through
<1>2. w.step = "next"
  BY DEF At
<1> HIDE DEF w
<1>3. LessWork /\ \A t \in Tasks : ~Adjusting(p, t) => SameWork(t)
  BY <1>1, <1>2, WorkEnds, WorkStays
<1>4. \A q \in Pollers, t \in Tasks : batch'[q][t] # NoRow => batch'[q][t] = batch[q][t]
  <2>1. batch \in [Pollers -> [Tasks -> Row \cup {NoRow}]]
    BY DEF PollersOK
  <2> QED
    BY <1>1, <2>1
<1>5. pc'[p].step = "next" /\ \A q \in Pollers : q # p => pc'[q] = pc[q]
  BY <1>1, <1>2 DEF Goto, PollersOK
<1> QED
  BY <1>3, <1>4, <1>5
----------------------------------------------------------------------------
(* A poller that has not started its loop is at no task.                    *)

IdleOK == \A p \in Pollers : pc[p].mode = "idle" => pc[p].step = "next"

\* Wherever one poller goes, the others stay.
LEMMA IdleGoes ==
    ASSUME PollersOK, IdleOK, NEW p \in Pollers, NEW w, Goto(p, w), w.mode = "idle" => w.step = "next"
    PROVE  IdleOK'
<1>1. pc'[p] = w /\ \A q \in Pollers : q # p => pc'[q] = pc[q]
  BY DEF Goto, PollersOK
<1> QED
  BY <1>1 DEF IdleOK

\* Leaving a task keeps the phase of the loop.
LEMMA IdleThrough ==
    ASSUME PollersOK, IdleOK, NEW p \in Pollers, NEW u, Through(p, u)
    PROVE  IdleOK'
<1> DEFINE w == At(pc[p].mode, "next", NoTask, "", "", 0)
<1>1. Goto(p, w) /\ w.step = "next"
  BY DEF Through, At
<1> HIDE DEF w
<1> QED
  BY <1>1, IdleGoes

\* The end of an adjustment.
LEMMA IdleAfterAdjustment ==
    ASSUME PollersOK, IdleOK, NEW p \in Pollers, AfterAdjustment(p)
    PROVE  IdleOK'
<1> DEFINE w == At("poll", "save", pc[p].task, "", "", 0)
<1>1. w.mode = "poll"
  BY DEF At
<1>2. Goto(p, w) \/ Through(p, pc[p].task)
  BY DEF AfterAdjustment
<1> HIDE DEF w
<1> QED
  BY <1>1, <1>2, IdleGoes, IdleThrough

\* The beginning of a refund.
LEMMA IdleRefundStep ==
    ASSUME PollersOK, IdleOK, NEW p \in Pollers, pc[p].mode # "idle", NEW u, NEW r, RefundStep(p, u, r)
    PROVE  IdleOK'
<1> DEFINE w == At(pc[p].mode, "fund", u, "", "refund", -r.quota)
<1>1. w.mode = pc[p].mode
  BY DEF At
<1>2. Goto(p, w) \/ Through(p, u)
  BY DEF RefundStep
<1> HIDE DEF w
<1> QED
  BY <1>1, <1>2, IdleGoes, IdleThrough

\* The beginning of an adjustment.
LEMMA IdleSettleStep ==
    ASSUME PollersOK, IdleOK, NEW p \in Pollers, NEW u, NEW r, SettleStep(p, u, r)
    PROVE  IdleOK'
<1>1. PICK a \in Actuals(u) :
         Through(p, u) \/ Goto(p, At("poll", "fund", u, "", "settle", a - r.quota))
  BY DEF SettleStep
<1> DEFINE w == At("poll", "fund", u, "", "settle", a - r.quota)
<1>2. w.mode = "poll" /\ (Through(p, u) \/ Goto(p, w))
  BY <1>1 DEF At
<1> HIDE DEF w
<1> QED
  BY <1>2, IdleGoes, IdleThrough

\* Steps that only move a poller along its loop.
LEMMA IdleLoop ==
    ASSUME PollersOK, IdleOK, NEW p \in Pollers,
           \/ GetTimedOutUnfinishedTasks(p) \/ GetAllUnFinishSyncTasks(p) \/ Sleep(p) \/ Crash(p)
           \/ FetchTask(p) \/ UpdateFails(p) \/ SaveSuno(p) \/ taskAdjustTokenQuota(p) \/ AdjustmentFails(p)
           \/ TaskBulkUpdateByID(p)
    PROVE  IdleOK'
<1>1. \A m \in {"idle", "sweep", "poll"} : At(m, "next", NoTask, "", "", 0).step = "next"
  BY DEF At
<1>2. CASE GetTimedOutUnfinishedTasks(p) \/ GetAllUnFinishSyncTasks(p) \/ Sleep(p) \/ Crash(p)
  <2>1. PICK m \in {"idle", "sweep", "poll"} : Goto(p, At(m, "next", NoTask, "", "", 0))
    BY <1>2 DEF GetTimedOutUnfinishedTasks, GetAllUnFinishSyncTasks, Sleep, Crash, Idle
  <2> QED
    BY <1>1, <2>1, IdleGoes
<1>3. CASE FetchTask(p)
  <2>1. \A u, a : At("poll", "commit", u, a, "", 0).mode = "poll"
    BY DEF At
  <2>2. PICK u, a : Through(p, u) \/ Goto(p, At("poll", "commit", u, a, "", 0))
    BY <1>3 DEF FetchTask
  <2> QED
    BY <2>1, <2>2, IdleGoes, IdleThrough
<1>4. CASE UpdateFails(p) \/ SaveSuno(p)
  <2>1. PICK u : Through(p, u)
    BY <1>4 DEF UpdateFails, SaveSuno
  <2> QED
    BY <2>1, IdleThrough
<1>5. CASE taskAdjustTokenQuota(p) \/ AdjustmentFails(p)
  BY <1>5, IdleAfterAdjustment DEF taskAdjustTokenQuota, AdjustmentFails
<1>6. CASE TaskBulkUpdateByID(p)
  BY <1>6 DEF TaskBulkUpdateByID, IdleOK
<1> QED
  BY <1>2, <1>3, <1>4, <1>5, <1>6

\* Steps that begin or go on with an adjustment.
LEMMA IdleWork ==
    ASSUME PollersOK, IdleOK, NEW p \in Pollers,
           SweepTask(p) \/ updateVideoSingleTask(p) \/ updateSunoTasks(p) \/ taskAdjustFunding(p)
    PROVE  IdleOK'
<1>1. CASE SweepTask(p)
  <2>1. pc[p].mode # "idle" /\ \E u : Through(p, u) \/ RefundStep(p, u, batch[p][u])
    BY <1>1 DEF SweepTask
  <2> QED
    BY <2>1, IdleThrough, IdleRefundStep
<1>2. CASE updateVideoSingleTask(p)
  <2> DEFINE u == pc[p].task
  <2> DEFINE r == batch[p][u]
  <2>1. pc[p].step = "commit" /\ (Through(p, u) \/ RefundStep(p, u, r) \/ SettleStep(p, u, r))
    BY <1>2 DEF updateVideoSingleTask
  <2>2. pc[p].mode # "idle"
    BY <2>1 DEF IdleOK
  <2> HIDE DEF u, r
  <2> QED
    BY <2>1, <2>2, IdleThrough, IdleRefundStep, IdleSettleStep
<1>3. CASE updateSunoTasks(p)
  <2> DEFINE u == pc[p].task
  <2> DEFINE d == -batch[p][u].quota
  <2>1. At("poll", "fund", u, "", "refund", d).mode = "poll" /\ At("poll", "save", u, "", "", 0).mode = "poll"
    BY DEF At
  <2>2. \/ Goto(p, At("poll", "fund", u, "", "refund", d))
        \/ Goto(p, At("poll", "save", u, "", "", 0))
    BY <1>3 DEF updateSunoTasks
  <2> HIDE DEF u, d
  <2> QED
    BY <2>1, <2>2, IdleGoes
<1>4. CASE taskAdjustFunding(p)
  <2>1. pc[p].step = "fund" /\ (AfterAdjustment(p) \/ pc' = [pc EXCEPT ![p].step = "token"])
    BY <1>4 DEF taskAdjustFunding
  <2>2. CASE AfterAdjustment(p)
    BY <2>2, IdleAfterAdjustment
  <2>3. CASE pc' = [pc EXCEPT ![p].step = "token"]
    <3>1. pc[p].mode # "idle" /\ pc[p] \in Places
      BY <2>1, PlaceFields DEF IdleOK
    <3> DEFINE w == [pc[p] EXCEPT !.step = "token"]
    <3>2. w.mode # "idle" /\ Goto(p, w)
      BY <2>3, <3>1 DEF Places, Goto, PollersOK
    <3> HIDE DEF w
    <3> QED
      BY <3>2, IdleGoes
  <2> QED
    BY <2>1, <2>2, <2>3
<1> QED
  BY <1>1, <1>2, <1>3, <1>4

\* Every step keeps it.
LEMMA IdleNext ==
    ASSUME TBInv, IdleOK, [TBNext]_tbVars
    PROVE  IdleOK'
<1>0. PollersOK
  BY DEF TBInv
<1>1. CASE UNCHANGED pc
  BY <1>1 DEF IdleOK
<1>2. ASSUME NEW p \in Pollers,
             PollerStep(p) \/ TaskBulkUpdateByID(p) \/ UpdateFails(p) \/ AdjustmentFails(p) \/ Crash(p)
      PROVE  IdleOK'
  BY <1>0, <1>2, IdleLoop, IdleWork DEF PollerStep
<1>3. ASSUME NEW t \in Tasks,
             \/ PreConsumeBilling(t) \/ SubmitFails(t) \/ InsertTask(t)
             \/ SettleBillingFails(t) \/ HandlerStep(t)
             \/ UpstreamEnds(t) \/ TimesOut(t)
             \/ RealtimeFetch(t) \/ RealtimeUpdate(t)
      PROVE  UNCHANGED pc
  BY <1>3 DEF PreConsumeBilling, SubmitFails, InsertTask, SettleBillingFails, HandlerStep, SettleBilling,
     SaveAudit, UpstreamEnds, TimesOut, RealtimeFetch, RealtimeUpdate, pollVars
<1>4. CASE UNCHANGED tbVars
  BY <1>1, <1>4 DEF tbVars, pollVars
<1> QED
  BY <1>1, <1>2, <1>3, <1>4 DEF TBNext

----------------------------------------------------------------------------
(* Steps that write neither a row nor an amount.                            *)

\* Such a step of a poller that starts no adjustment.
LEMMA IdleMoney ==
    ASSUME TBInv, TBMoney, UNCHANGED <<task, stage, late, queries, paid, tokenPaid, used, usage, due>>,
           CopiesOK', OnlyBack,
           Fault \/ (faults' = faults /\ \A t \in Tasks : Billed(t) => SameWork(t))
    PROVE  TBMoney'
<1>1. QuotasStay
  BY DEF QuotasStay
<1>2. due' \in [Tasks -> Nat] /\ faults \in 0 .. MaxFaults
  BY DEF TBMoney, AmountsOK
<1>3. BillsOK' /\ faults' \in 0 .. MaxFaults
  <2>1. CASE Fault
    BY <2>1, FaultyBills DEF TBMoney
  <2>2. CASE faults' = faults /\ \A t \in Tasks : Billed(t) => SameWork(t)
    BY <1>2, <2>2, BillsStay DEF TBMoney
  <2> QED
    BY <2>1, <2>2
<1> QED
  BY <1>1, <1>2, <1>3, MoneyStays

\* A poller gives up a task, or is done with it.
LEMMA ThroughMoney ==
    ASSUME TBInv, TBMoney, NEW p \in Pollers, NEW u \in Tasks, Through(p, u),
           UNCHANGED <<task, stage, fetch, late, queries, paid, tokenPaid, used, usage, due>>,
           Fault \/ (faults' = faults /\ pc[p].step \notin {"fund", "token"})
    PROVE  TBMoney'
<1>1. /\ LessWork /\ \A t \in Tasks : ~Adjusting(p, t) => SameWork(t)
      /\ \A q \in Pollers, t \in Tasks : batch'[q][t] # NoRow => batch'[q][t] = batch[q][t]
  BY ThroughWork DEF TBInv
<1>2. OnlyBack
  BY <1>1, StillBack DEF TBMoney
<1>3. CopiesOK'
  BY <1>1 DEF TBMoney, CopiesOK
<1>4. Fault \/ (faults' = faults /\ \A t \in Tasks : Billed(t) => SameWork(t))
  BY <1>1 DEF Adjusting
<1> QED
  BY <1>2, <1>3, <1>4, IdleMoney

\* A poller reads rows, or starts anew with none.
LEMMA ReadsMoney ==
    ASSUME TBInv, TBMoney, NEW p \in Pollers, NEW m \in {"idle", "sweep", "poll"}, NEW S \in SUBSET Tasks,
           batch' = [batch EXCEPT ![p] = RowsWhere(S)], Goto(p, At(m, "next", NoTask, "", "", 0)),
           UNCHANGED <<task, stage, fetch, late, queries, paid, tokenPaid, used, usage, due>>,
           Fault \/ (faults' = faults /\ pc[p].step \notin {"fund", "token"})
    PROVE  TBMoney'
<1> DEFINE w == At(m, "next", NoTask, "", "", 0)
<1>1. Goto(p, w) /\ w.step = "next"
  BY DEF At
<1> HIDE DEF w
<1>2. LessWork /\ \A t \in Tasks : ~Adjusting(p, t) => SameWork(t)
  BY <1>1, WorkEnds, WorkStays DEF TBInv
<1>3. OnlyBack
  BY <1>2, StillBack DEF TBMoney
<1>4. \A q \in Pollers, t \in Tasks : batch'[q][t] \in {NoRow, task[t], batch[q][t]}
  BY DEF TBInv, PollersOK, RowsWhere
<1>5. CopiesOK'
  <2>1. ASSUME NEW q \in Pollers, NEW t \in Tasks, batch'[q][t] # NoRow
        PROVE  batch'[q][t].quota = task[t].quota
    <3>1. CASE batch'[q][t] = task[t]
      BY <3>1
    <3>2. CASE batch'[q][t] = batch[q][t]
      BY <2>1, <3>2 DEF TBMoney, CopiesOK
    <3> QED
      BY <1>4, <2>1, <3>1, <3>2
  <2> QED
    BY <2>1 DEF TBMoney, CopiesOK
<1>6. Fault \/ (faults' = faults /\ \A t \in Tasks : Billed(t) => SameWork(t))
  BY <1>2 DEF Adjusting
<1> QED
  BY <1>3, <1>5, <1>6, IdleMoney

\* A poller that sleeps is at no task.
LEMMA IdlePoller ==
    ASSUME TBInv, TBMoney, NEW p \in Pollers, NEW w, Goto(p, w), w.step \notin {"fund", "token"},
           pc[p].step \notin {"fund", "token"}, UNCHANGED batch,
           UNCHANGED <<task, stage, fetch, late, queries, paid, tokenPaid, used, usage, due, faults>>
    PROVE  TBMoney'
<1>1. LessWork /\ \A t \in Tasks : SameWork(t)
  BY WorkEnds, WorkStays DEF TBInv, Adjusting
<1>2. OnlyBack
  BY <1>1, StillBack DEF TBMoney
<1>3. CopiesOK'
  BY DEF TBMoney, CopiesOK
<1> QED
  BY <1>1, <1>2, <1>3, IdleMoney

\* The sweep and the loop read, the process sleeps or stops.
LEMMA LoopMoney ==
    ASSUME TBInv, TBMoney, IdleOK, NEW p \in Pollers,
           \/ GetTimedOutUnfinishedTasks(p) \/ GetAllUnFinishSyncTasks(p) \/ Sleep(p) \/ Crash(p)
    PROVE  TBMoney'
<1>1. UNCHANGED <<task, stage, fetch, late, queries, paid, tokenPaid, used, usage, due>>
  BY DEF GetTimedOutUnfinishedTasks, GetAllUnFinishSyncTasks, Sleep, Crash, submitVars, rowVars, moneyVars
<1>2. CASE GetTimedOutUnfinishedTasks(p)
  <2> DEFINE S == {t \in Tasks : Unfinished(t) /\ late[t]}
  <2>1. /\ S \in SUBSET Tasks /\ batch' = [batch EXCEPT ![p] = RowsWhere(S)] /\ faults' = faults
        /\ Goto(p, At("sweep", "next", NoTask, "", "", 0)) /\ pc[p].mode = "idle"
    BY <1>2 DEF GetTimedOutUnfinishedTasks
  <2>2. pc[p].step \notin {"fund", "token"}
    BY <2>1 DEF IdleOK
  <2> HIDE DEF S
  <2> QED
    BY <1>1, <2>1, <2>2, ReadsMoney
<1>3. CASE GetAllUnFinishSyncTasks(p)
  <2> DEFINE S == {t \in Tasks : Unfinished(t)}
  <2>1. /\ S \in SUBSET Tasks /\ batch' = [batch EXCEPT ![p] = RowsWhere(S)] /\ faults' = faults
        /\ Goto(p, At("poll", "next", NoTask, "", "", 0)) /\ pc[p].step = "next"
    BY <1>3 DEF GetAllUnFinishSyncTasks
  <2> HIDE DEF S
  <2> QED
    BY <1>1, <2>1, ReadsMoney
<1>4. CASE Sleep(p)
  <2>1. Goto(p, Idle) /\ pc[p].step = "next" /\ UNCHANGED batch /\ faults' = faults
    BY <1>4 DEF Sleep
  <2>2. Idle.step = "next"
    BY DEF Idle, At
  <2> QED
    BY <1>1, <2>1, <2>2, IdlePoller
<1>5. CASE Crash(p)
  <2>1. RowsWhere({}) = NoRows
    BY DEF RowsWhere, NoRows
  <2>2. /\ batch' = [batch EXCEPT ![p] = RowsWhere({})] /\ Fault
        /\ Goto(p, At("idle", "next", NoTask, "", "", 0))
    BY <1>5, <2>1 DEF Crash, Idle
  <2>3. {} \in SUBSET Tasks
    OBVIOUS
  <2> QED
    BY <1>1, <2>2, <2>3, ReadsMoney
<1> QED
  BY <1>2, <1>3, <1>4, <1>5

\* The end of an adjustment, or of an attempt at one.
LEMMA AdjustmentEnds ==
    ASSUME TBInv, NEW p \in Pollers, pc[p].step # "next", AfterAdjustment(p)
    PROVE  /\ LessWork
           /\ \A t \in Tasks : ~Adjusting(p, t) => SameWork(t)
           /\ pc'[p].step \notin {"fund", "token"}
           /\ \A q \in Pollers, t \in Tasks : batch'[q][t] # NoRow => batch'[q][t] = batch[q][t]
           /\ \A q \in Pollers : q # p => pc'[q] = pc[q]
<1>0. PICK u \in Tasks : u = pc[p].task
  BY WorkIsPending DEF TBInv
<1>1. CASE Through(p, u)
  BY <1>1, ThroughWork DEF TBInv
<1>2. CASE Goto(p, At("poll", "save", u, "", "", 0)) /\ UNCHANGED batch
  <2> DEFINE w == At("poll", "save", u, "", "", 0)
  <2>1. Goto(p, w) /\ w.step = "save"
    BY <1>2 DEF At
  <2> HIDE DEF w
  <2>2. LessWork /\ \A t \in Tasks : ~Adjusting(p, t) => SameWork(t)
    BY <2>1, WorkEnds, WorkStays DEF TBInv
  <2>3. pc'[p] = w /\ \A q \in Pollers : q # p => pc'[q] = pc[q]
    BY <2>1 DEF Goto, TBInv, PollersOK
  <2>4. pc'[p].step \notin {"fund", "token"}
    BY <2>1, <2>3
  <2> QED
    BY <1>2, <2>2, <2>3, <2>4
<1> QED
  BY <1>0, <1>1, <1>2 DEF AfterAdjustment

\* A failed adjustment is given up.
LEMMA AdjustmentFailsMoney ==
    ASSUME TBInv, TBMoney, NEW p \in Pollers, AdjustmentFails(p)
    PROVE  TBMoney'
<1>1. /\ pc[p].step # "next" /\ AfterAdjustment(p) /\ Fault
      /\ UNCHANGED <<task, stage, fetch, late, queries, paid, tokenPaid, used, usage, due>>
  BY DEF AdjustmentFails, submitVars, rowVars, moneyVars
<1>2. LessWork /\ \A q \in Pollers, t \in Tasks : batch'[q][t] # NoRow => batch'[q][t] = batch[q][t]
  BY <1>1, AdjustmentEnds
<1>3. OnlyBack
  BY <1>2, StillBack DEF TBMoney
<1>4. CopiesOK'
  BY <1>1, <1>2 DEF TBMoney, CopiesOK
<1> QED
  BY <1>1, <1>3, <1>4, IdleMoney

\* A failed statement ends no task.
LEMMA UpdateFailsMoney ==
    ASSUME TBInv, TBMoney, NEW p \in Pollers, UpdateFails(p)
    PROVE  TBMoney'
<1>1. UNCHANGED <<task, stage, fetch, late, queries, paid, tokenPaid, used, usage, due>> /\ Fault
  BY DEF UpdateFails, submitVars, rowVars, moneyVars
<1>2. \E u \in Tasks : Through(p, u)
  BY WorkIsPending DEF UpdateFails, Pending, TBInv
<1> QED
  BY <1>1, <1>2, ThroughMoney

\* The poller asks upstream.
LEMMA FetchTaskMoney ==
    ASSUME TBInv, TBMoney, NEW p \in Pollers, FetchTask(p)
    PROVE  TBMoney'
<1>1. /\ UNCHANGED <<task, stage, fetch, late, queries, paid, tokenPaid, used, usage, due, faults>>
      /\ pc[p].step = "next"
  BY DEF FetchTask, submitVars, rowVars, moneyVars
<1>2. PICK u \in Pending(p) :
         \/ Through(p, u)
         \/ (\E a \in Answers(u) : Goto(p, At("poll", "commit", u, a, "", 0))) /\ UNCHANGED batch
  BY DEF FetchTask
<1>3. u \in Tasks
  BY DEF Pending
<1>4. CASE Through(p, u)
  BY <1>1, <1>3, <1>4, ThroughMoney
<1>5. CASE (\E a \in Answers(u) : Goto(p, At("poll", "commit", u, a, "", 0))) /\ UNCHANGED batch
  <2>1. PICK a \in Answers(u) : Goto(p, At("poll", "commit", u, a, "", 0))
    BY <1>5
  <2> DEFINE w == At("poll", "commit", u, a, "", 0)
  <2>2. Goto(p, w) /\ w.step = "commit"
    BY <2>1 DEF At
  <2> HIDE DEF w
  <2> QED
    BY <1>1, <1>5, <2>2, IdlePoller
<1> QED
  BY <1>2, <1>4, <1>5

\* The rows of a batch are rows.
LEMMA RowQuota ==
    ASSUME NEW r \in Row
    PROVE  r.quota \in Nat
  BY TBConstants DEF Row

\* A Suno task may enter a refund, of its quota.
LEMMA updateSunoTasksMoney ==
    ASSUME TBInv, TBMoney, NEW p \in Pollers, updateSunoTasks(p)
    PROVE  TBMoney'
<1>0. PICK u \in Tasks : u = pc[p].task
  BY WorkIsPending DEF TBInv, updateSunoTasks
<1> DEFINE r == batch[p][u]
<1> DEFINE a == pc[p].answer
<1>1. /\ pc[p].step = "commit" /\ u \in Suno
      /\ UNCHANGED <<task, stage, fetch, late, queries, paid, tokenPaid, used, usage, due, faults>>
  BY <1>0 DEF updateSunoTasks, submitVars, rowVars, moneyVars
<1>2. r \in Row /\ r.quota \in Nat
  BY <1>0, <1>1, WorkIsPending, RowQuota DEF TBInv
<1>3. PICK hasReason \in BOOLEAN :
         /\ batch' = [batch EXCEPT ![p][u] =
                         [Answered(r, a, hasReason \/ a = "FAILURE") EXCEPT
                             !.reason = IF hasReason \/ a = "FAILURE" THEN "upstream" ELSE @]]
         /\ Goto(p, IF (hasReason \/ a = "FAILURE") /\ r.quota # 0
                    THEN At("poll", "fund", u, "", "refund", -r.quota)
                    ELSE At("poll", "save", u, "", "", 0))
  BY <1>0 DEF updateSunoTasks
<1> DEFINE failed == hasReason \/ a = "FAILURE"
<1> DEFINE n == [Answered(r, a, failed) EXCEPT !.reason = IF failed THEN "upstream" ELSE @]
<1> DEFINE w == IF failed /\ r.quota # 0 THEN At("poll", "fund", u, "", "refund", -r.quota)
                ELSE At("poll", "save", u, "", "", 0)
<1>4. batch' = [batch EXCEPT ![p][u] = n] /\ Goto(p, w)
  BY <1>3
<1>5. n.quota = r.quota
  BY <1>2 DEF Answered, Row
<1>6. w.task = u /\ w.delta <= 0
  BY <1>2 DEF At
<1> HIDE DEF r, a, failed, n, w
<1>7. \A t \in Tasks : t # u => SameWork(t)
  <2>1. \A t \in Tasks : ~Adjusting(p, t)
    BY <1>1 DEF Adjusting
  <2> QED
    BY <1>4, <1>6, <2>1, WorkStays DEF TBInv
<1>8. pc'[p] = w /\ \A q \in Pollers : q # p => pc'[q] = pc[q]
  BY <1>4 DEF Goto, TBInv, PollersOK
<1>9. OnlyBack
  <2> SUFFICES ASSUME NEW t \in PerCall \ OnPackage, NEW q \in Pollers, Adjusting(q, t)'
               PROVE  pc'[q].delta <= 0
    BY DEF OnlyBack
  <2>1. CASE q = p
    BY <1>6, <1>8, <2>1
  <2>2. CASE q # p
    <3>1. Adjusting(q, t) /\ pc'[q] = pc[q]
      BY <1>8, <2>2 DEF Adjusting
    <3> QED
      BY <3>1 DEF TBMoney, PerCallOK, Priced
  <2> QED
    BY <2>1, <2>2
<1>10. \A q \in Pollers, t \in Tasks :
          batch'[q][t] = (IF q = p /\ t = u THEN n ELSE batch[q][t])
  BY <1>4 DEF TBInv, PollersOK
<1>11. CopiesOK'
  <2>1. ASSUME NEW q \in Pollers, NEW t \in Tasks, batch'[q][t] # NoRow
        PROVE  batch'[q][t].quota = task[t].quota
    <3>1. CASE q = p /\ t = u
      <4>1. batch[p][u] # NoRow
        BY <1>2, NoRowIsNoRow DEF r
      <4> QED
        BY <1>5, <1>10, <3>1, <4>1 DEF TBMoney, CopiesOK, r
    <3>2. CASE ~(q = p /\ t = u)
      <4>1. batch'[q][t] = batch[q][t]
        BY <1>10, <3>2
      <4> QED
        BY <2>1, <4>1 DEF TBMoney, CopiesOK
    <3> QED
      BY <3>1, <3>2
  <2> QED
    BY <1>1, <2>1 DEF TBMoney, CopiesOK
<1>12. \A t \in Tasks : Billed(t) => SameWork(t)
  BY <1>1, <1>7 DEF Billed
<1> QED
  BY <1>1, <1>9, <1>11, <1>12, IdleMoney

----------------------------------------------------------------------------
(* Steps that write rows.                                                   *)

\* Where a poller is when it has ended a task and owes it the amount d.
Owes(p, u, d) == pc'[p].step = "fund" /\ pc'[p].task = u /\ pc'[p].delta = d

OthersStay(p) ==
    /\ \A q \in Pollers : q # p => pc'[q] = pc[q]
    /\ \A q \in Pollers, t \in Tasks : batch'[q][t] # NoRow => batch'[q][t] = batch[q][t]

\* RefundTaskQuota owes the quota of the copy, or nothing.
LEMMA RefundShape ==
    ASSUME TBInv, NEW p \in Pollers, NEW u \in Tasks, NEW r \in Row, RefundStep(p, u, r)
    PROVE  OthersStay(p) /\ ((r.quota = 0 /\ pc'[p].step = "next") \/ Owes(p, u, -r.quota))
<1>1. CASE r.quota = 0
  <2>1. Through(p, u)
    BY <1>1 DEF RefundStep
  <2> QED
    BY <1>1, <2>1, ThroughWork DEF TBInv, OthersStay
<1>2. CASE r.quota # 0
  <2> DEFINE w == At(pc[p].mode, "fund", u, "", "refund", -r.quota)
  <2>1. Goto(p, w) /\ UNCHANGED batch
    BY <1>2 DEF RefundStep
  <2>2. w.step = "fund" /\ w.task = u /\ w.delta = -r.quota
    BY DEF At
  <2> HIDE DEF w
  <2>3. pc'[p] = w /\ \A q \in Pollers : q # p => pc'[q] = pc[q]
    BY <2>1 DEF Goto, TBInv, PollersOK
  <2> QED
    BY <2>1, <2>2, <2>3 DEF OthersStay, Owes
<1> QED
  BY <1>1, <1>2

\* RecalculateTaskQuota owes the difference to the amount it computed; for a
\* task billed per call it computes none.
LEMMA SettleShape ==
    ASSUME TBInv, AmountsOK, NEW p \in Pollers, NEW u \in Tasks, NEW r \in Row, SettleStep(p, u, r)
    PROVE  /\ OthersStay(p) /\ due' \in [Tasks -> Nat] /\ \A t \in Tasks : t # u => due'[t] = due[t]
           /\ \/ pc'[p].step = "next" /\ due'[u] = due[u]
              \/ u \notin PerCall /\ Owes(p, u, due'[u] - r.quota)
<1>0. due \in [Tasks -> Nat]
  BY DEF AmountsOK
<1>1. PICK a \in Actuals(u) :
       IF a = 0 \/ a = r.quota
       THEN Through(p, u) /\ UNCHANGED due
       ELSE /\ Goto(p, At("poll", "fund", u, "", "settle", a - r.quota))
            /\ due' = [due EXCEPT ![u] = a]
            /\ UNCHANGED batch
  BY DEF SettleStep
<1>2. CASE a = 0 \/ a = r.quota
  BY <1>0, <1>1, <1>2, ThroughWork DEF TBInv, OthersStay
<1>3. CASE ~(a = 0 \/ a = r.quota)
  <2> DEFINE w == At("poll", "fund", u, "", "settle", a - r.quota)
  <2>1. Goto(p, w) /\ UNCHANGED batch /\ due' = [due EXCEPT ![u] = a]
    BY <1>1, <1>3
  <2>2. w.step = "fund" /\ w.task = u /\ w.delta = a - r.quota
    BY DEF At
  <2> HIDE DEF w
  <2>3. pc'[p] = w /\ \A q \in Pollers : q # p => pc'[q] = pc[q]
    BY <2>1 DEF Goto, TBInv, PollersOK
  <2>4. a \in Nat /\ u \notin PerCall
    BY <1>3, TBConstants DEF Actuals
  <2>5. due' \in [Tasks -> Nat] /\ due'[u] = a /\ \A t \in Tasks : t # u => due'[t] = due[t]
    BY <1>0, <2>1, <2>4
  <2> QED
    BY <2>1, <2>2, <2>3, <2>4, <2>5 DEF OthersStay, Owes
<1> QED
  BY <1>2, <1>3

\* The row of a billed task that had not ended is written.
LEMMA BillWritten ==
    ASSUME NEW p \in Pollers, NEW u \in Tasks, Bill(u), task[u].status \notin Terminal,
           task[u].quota \in Nat, task'[u].quota = task[u].quota, due'[u] \in Nat,
           UNCHANGED <<stage, paid, tokenPaid>>, \A q \in Pollers : q # p => pc'[q] = pc[q],
           \/ ~Adjusting(p, u)' /\ (Unrefunded(u)' \/ Cost(u)' = task[u].quota)
           \/ Owes(p, u, Cost(u)' - task[u].quota),
           task'[u].status \notin Terminal => due'[u] = due[u] /\ ~Adjusting(p, u)'
    PROVE  Bill(u)'
<1> DEFINE k == task[u].quota
<1> DEFINE n == Unsettled(u)
<1> DEFINE c == Cost(u)'
<1>1. k \in Nat /\ Unsettled(u)' = n /\ n \in Int
  BY TBConstants DEF Unsettled
<1>2. c \in Nat
  BY DEF Cost
<1>3. Cost(u) = k /\ ~Unrefunded(u)
  BY DEF Cost, Unrefunded, Terminal
<1>4. /\ \A q \in Pollers : ~Adjusting(q, u)
      /\ due[u] = k /\ paid[u] = k + n /\ tokenPaid[u] = k + n
  BY <1>3 DEF Bill
<1>5. \A q \in Pollers : Adjusting(q, u)' => q = p
  BY <1>4 DEF Adjusting
<1>6. task'[u].status \notin Terminal => due'[u] = task'[u].quota /\ \A q \in Pollers : ~Adjusting(q, u)'
  BY <1>4, <1>5
<1> HIDE DEF k, n, c
<1>7. CASE ~Adjusting(p, u)' /\ (Unrefunded(u)' \/ Cost(u)' = k)
  <2>1. \A q \in Pollers : ~Adjusting(q, u)'
    BY <1>5, <1>7
  <2>2. ~Unrefunded(u)' => paid'[u] = Cost(u)' + Unsettled(u)' /\ tokenPaid'[u] = Cost(u)' + Unsettled(u)'
    BY <1>1, <1>4, <1>7
  <2> QED
    BY <1>6, <2>1, <2>2 DEF Bill
<1>8. CASE Owes(p, u, Cost(u)' - k)
  <2>1. Adjusting(p, u)'
    BY <1>8 DEF Owes, Adjusting
  <2>2. pc'[p].step = "fund" /\ pc'[p].delta = c - k
    BY <1>8 DEF Owes, c
  <2>3. paid'[u] + pc'[p].delta = c + n /\ tokenPaid'[u] + pc'[p].delta = c + n
    BY <1>1, <1>2, <1>4, <2>2
  <2>4. Cost(u)' + Unsettled(u)' = c + n
    BY <1>1 DEF c
  <2> QED
    BY <1>5, <1>6, <2>1, <2>2, <2>3, <2>4 DEF Bill
<1> QED
  BY <1>7, <1>8 DEF k

\* A poller writes one row of its batch and may then owe an adjustment.
LEMMA RowMoney ==
    ASSUME TBInv, TBMoney, NEW p \in Pollers, NEW u \in Tasks, pc[p].step \notin {"fund", "token"},
           NEW n \in Row, task[u] # NoRow, n.quota = task[u].quota, task' = [task EXCEPT ![u] = n],
           UNCHANGED <<stage, fetch, late, queries, paid, tokenPaid, used, usage, faults>>,
           due' \in [Tasks -> Nat], \A t \in Tasks : t # u => due'[t] = due[t],
           OthersStay(p), pc'[p].step \in {"fund", "token"} => pc'[p].task = u,
           u \in PerCall /\ Adjusting(p, u)' => pc'[p].delta <= 0,
           Billed(u) /\ Bill(u) => Bill(u)'
    PROVE  TBMoney'
<1>1. task'[u] = n /\ \A t \in Tasks : t # u => task'[t] = task[t]
  BY DEF TBInv, RowsOK
<1>2. QuotasStay
  BY <1>1 DEF QuotasStay
<1>3. FewerCopies
  BY DEF FewerCopies, OthersStay
<1>4. CopiesOK'
  BY <1>2, <1>3, CopiesStay DEF TBMoney
<1>5. \A t \in Tasks : t # u => SameWork(t)
  BY DEF SameWork, Adjusting, OthersStay
<1>6. OnlyBack
  <2> SUFFICES ASSUME NEW t \in PerCall \ OnPackage, NEW q \in Pollers, Adjusting(q, t)'
               PROVE  pc'[q].delta <= 0
    BY DEF OnlyBack
  <2>1. CASE q = p
    <3>1. t = u
      BY <2>1 DEF Adjusting
    <3> QED
      BY <2>1, <3>1
  <2>2. CASE q # p
    <3>1. Adjusting(q, t) /\ pc'[q] = pc[q]
      BY <2>2 DEF Adjusting, OthersStay
    <3> QED
      BY <3>1 DEF TBMoney, PerCallOK, Priced
  <2> QED
    BY <2>1, <2>2
<1>7. BillsOK'
  <2> SUFFICES ASSUME faults' = 0, NEW t \in Tasks, Billed(t)' PROVE Bill(t)'
    BY DEF BillsOK
  <2>1. Billed(t) /\ Bill(t)
    BY DEF Billed, BillsOK, TBMoney
  <2>2. CASE t = u
    BY <2>1, <2>2
  <2>3. CASE t # u
    BY <1>1, <1>5, <2>1, <2>3, BillKept
  <2> QED
    BY <2>2, <2>3
<1>8. faults' \in 0 .. MaxFaults
  BY DEF TBMoney, AmountsOK
<1> QED
  BY <1>2, <1>4, <1>6, <1>7, <1>8, MoneyStays

\* A copy in the batch of a poller is of a row with the same quota.
LEMMA CopyQuota ==
    ASSUME TBInv, CopiesOK, NEW p \in Pollers, NEW u \in Tasks, batch[p][u] # NoRow
    PROVE  /\ batch[p][u] \in Row /\ task[u] \in Row /\ task[u] # NoRow
           /\ batch[p][u].quota = task[u].quota /\ task[u].quota \in Nat
<1>1. batch[p][u] \in Row /\ task[u] \in Row /\ task[u] # NoRow
  BY DEF TBInv, PollersOK, RowsOK, Copy
<1> QED
  BY <1>1, RowQuota DEF CopiesOK

\* The sweep ends a task and owes it its quota, or leaves it alone.
LEMMA SweepTaskMoney ==
    ASSUME TBInv, TBMoney, NEW p \in Pollers, SweepTask(p)
    PROVE  TBMoney'
<1>1. /\ UNCHANGED <<stage, fetch, late, queries, paid, tokenPaid, used, usage, due, faults>>
      /\ pc[p].step = "next"
  BY DEF SweepTask, submitVars, moneyVars
<1>2. PICK u \in Pending(p) :
         IF Wins(u, batch[p][u].status)
         THEN /\ task' = [task EXCEPT ![u] = [batch[p][u] EXCEPT !.status = "FAILURE",
                                              !.full = TRUE, !.reason = "timeout"]]
              /\ IF u \in Legacy THEN Through(p, u) ELSE RefundStep(p, u, batch[p][u])
         ELSE Through(p, u) /\ UNCHANGED task
  BY DEF SweepTask
<1>3. u \in Tasks /\ batch[p][u] # NoRow
  BY DEF Pending
<1>4. CASE ~Wins(u, batch[p][u].status)
  BY <1>1, <1>2, <1>3, <1>4, ThroughMoney
<1>5. CASE Wins(u, batch[p][u].status)
  <2> DEFINE r == batch[p][u]
  <2>1. r \in Row /\ task[u] # NoRow /\ r.quota = task[u].quota /\ task[u].quota \in Nat
    BY <1>3, CopyQuota DEF TBMoney
  <2> HIDE DEF r
  <2> DEFINE n == [r EXCEPT !.status = "FAILURE", !.full = TRUE, !.reason = "timeout"]
  <2>2. n \in Row /\ n.status = "FAILURE" /\ n.quota = r.quota
    BY <2>1 DEF Row, Statuses, Terminal
  <2> HIDE DEF n
  <2>3. /\ task' = [task EXCEPT ![u] = n]
        /\ IF u \in Legacy THEN Through(p, u) ELSE RefundStep(p, u, r)
    BY <1>2, <1>5 DEF n, r
  <2>4. task'[u] = n
    BY <1>3, <2>3 DEF TBInv, RowsOK
  <2>5. /\ OthersStay(p)
        /\ \/ pc'[p].step = "next" /\ (u \in Legacy \/ r.quota = 0)
           \/ Owes(p, u, -r.quota)
    <3>1. CASE u \in Legacy
      BY <1>3, <2>3, <3>1, ThroughWork DEF TBInv, OthersStay
    <3>2. CASE u \notin Legacy
      BY <1>3, <2>1, <2>3, <3>2, RefundShape
    <3> QED
      BY <3>1, <3>2
  <2>6. due' \in [Tasks -> Nat] /\ \A t \in Tasks : due'[t] = due[t]
    BY <1>1 DEF TBMoney, AmountsOK
  <2>7. ASSUME Billed(u), Bill(u) PROVE Bill(u)'
    <3>1. task[u].status \notin Terminal
      BY <1>3, <1>5, <2>7, WinnerIsFirst DEF Billed
    <3>2. Cost(u)' = 0 /\ task'[u].status \in Terminal
      BY <2>2, <2>4 DEF Cost, Terminal
    <3>3. u \in Legacy => Unrefunded(u)'
      BY <2>2, <2>4 DEF Unrefunded
    <3>4. \/ ~Adjusting(p, u)' /\ (Unrefunded(u)' \/ Cost(u)' = task[u].quota)
          \/ Owes(p, u, Cost(u)' - task[u].quota)
      <4>1. 0 - task[u].quota = -r.quota
        BY <2>1
      <4> QED
        BY <2>1, <2>5, <3>2, <3>3, <4>1 DEF Adjusting
    <3>5. /\ task'[u].quota = task[u].quota /\ due'[u] \in Nat /\ UNCHANGED <<stage, paid, tokenPaid>>
          /\ \A q \in Pollers : q # p => pc'[q] = pc[q]
      BY <1>1, <1>3, <2>1, <2>2, <2>4, <2>5, <2>6 DEF OthersStay
    <3> QED
      BY <1>3, <2>1, <2>7, <3>1, <3>2, <3>4, <3>5, BillWritten
  <2>8. /\ pc'[p].step \in {"fund", "token"} => pc'[p].task = u
        /\ Adjusting(p, u)' => pc'[p].delta <= 0
    BY <2>1, <2>5 DEF Owes, Adjusting
  <2>9. n.quota = task[u].quota
    BY <2>1, <2>2
  <2> QED
    BY <1>1, <1>3, <2>1, <2>2, <2>3, <2>5, <2>6, <2>7, <2>8, <2>9, RowMoney
<1> QED
  BY <1>4, <1>5

\* The poller's update of a task wins, and it owes the task the difference to
\* the amount just computed, or its quota, or nothing.
LEMMA VideoMoney ==
    ASSUME TBInv, TBMoney, NEW p \in Pollers, NEW u \in Tasks \ Suno, pc[p].step = "commit",
           batch[p][u] # NoRow, Wins(u, batch[p][u].status),
           NEW a \in Statuses, NEW n \in Row, n.status = a, n.quota = batch[p][u].quota,
           task' = [task EXCEPT ![u] = n],
           IF a = "SUCCESS" THEN SettleStep(p, u, batch[p][u])
           ELSE /\ UNCHANGED due
                /\ IF a = "FAILURE" THEN RefundStep(p, u, batch[p][u]) ELSE Through(p, u),
           UNCHANGED <<stage, fetch, late, queries, paid, tokenPaid, used, usage, faults>>
    PROVE  TBMoney'
<1> DEFINE r == batch[p][u]
<1>1. r \in Row /\ task[u] # NoRow /\ r.quota = task[u].quota /\ task[u].quota \in Nat
  BY CopyQuota DEF TBMoney
<1>2. /\ IF a = "SUCCESS" THEN SettleStep(p, u, r)
         ELSE /\ UNCHANGED due
              /\ IF a = "FAILURE" THEN RefundStep(p, u, r) ELSE Through(p, u)
      /\ n.quota = r.quota
  OBVIOUS
<1>3. task[u].status \notin Terminal
  BY WinnerIsFirst
<1> HIDE DEF r
<1>4. task'[u] = n
  BY DEF TBInv, RowsOK
<1>5. due \in [Tasks -> Nat]
  BY DEF TBMoney, AmountsOK
<1>6. /\ OthersStay(p) /\ due' \in [Tasks -> Nat] /\ \A t \in Tasks : t # u => due'[t] = due[t]
      /\ a # "SUCCESS" => due'[u] = due[u]
      /\ \/ pc'[p].step = "next" /\ due'[u] = due[u] /\ (a = "FAILURE" => r.quota = 0)
         \/ a = "SUCCESS" /\ u \notin PerCall /\ Owes(p, u, due'[u] - r.quota)
         \/ a = "FAILURE" /\ Owes(p, u, -r.quota)
  <2>1. CASE a = "SUCCESS"
    BY <1>1, <1>2, <2>1, SettleShape DEF TBMoney
  <2>2. CASE a = "FAILURE"
    BY <1>1, <1>2, <1>5, <2>2, RefundShape
  <2>3. CASE a \notin {"SUCCESS", "FAILURE"}
    <3>1. Through(p, u) /\ UNCHANGED due
      BY <1>2, <2>3
    <3> QED
      BY <1>5, <2>3, <3>1, ThroughWork DEF TBInv, OthersStay
  <2> QED
    BY <2>1, <2>2, <2>3
<1>7. ASSUME Bill(u) PROVE Bill(u)'
  <2>1. due[u] = task[u].quota
    BY <1>3, <1>7 DEF Bill
  <2>2. Cost(u)' = IF a = "SUCCESS" THEN due'[u] ELSE IF a = "FAILURE" THEN 0 ELSE task[u].quota
    BY <1>1, <1>2, <1>4 DEF Cost
  <2>3. \/ ~Adjusting(p, u)' /\ (Unrefunded(u)' \/ Cost(u)' = task[u].quota)
        \/ Owes(p, u, Cost(u)' - task[u].quota)
    <3>1. CASE pc'[p].step = "next" /\ due'[u] = due[u] /\ (a = "FAILURE" => r.quota = 0)
      BY <1>1, <2>1, <2>2, <3>1 DEF Adjusting
    <3>2. CASE a = "SUCCESS" /\ Owes(p, u, due'[u] - r.quota)
      BY <1>1, <2>2, <3>2
    <3>3. CASE a = "FAILURE" /\ Owes(p, u, -r.quota)
      <4>1. 0 - task[u].quota = -r.quota
        BY <1>1
      <4> QED
        BY <2>2, <3>3, <4>1
    <3> QED
      BY <1>6, <3>1, <3>2, <3>3
  <2>4. task'[u].status \notin Terminal => due'[u] = due[u] /\ ~Adjusting(p, u)'
    BY <1>4, <1>6 DEF Terminal, Adjusting
  <2>5. task'[u].quota = task[u].quota /\ due'[u] \in Nat /\ \A q \in Pollers : q # p => pc'[q] = pc[q]
    BY <1>1, <1>2, <1>4, <1>6 DEF OthersStay
  <2> QED
    BY <1>1, <1>3, <1>7, <2>3, <2>4, <2>5, BillWritten
<1>8. /\ pc'[p].step \in {"fund", "token"} => pc'[p].task = u
      /\ u \in PerCall /\ Adjusting(p, u)' => pc'[p].delta <= 0
  BY <1>1, <1>6 DEF Owes, Adjusting
<1>9. n.quota = task[u].quota
  BY <1>1, <1>2
<1> QED
  BY <1>1, <1>6, <1>7, <1>8, <1>9, RowMoney

\* updateVideoSingleTask.
LEMMA updateVideoSingleTaskMoney ==
    ASSUME TBInv, TBMoney, NEW p \in Pollers, updateVideoSingleTask(p)
    PROVE  TBMoney'
<1>0. PICK u \in Tasks : u = pc[p].task
  BY WorkIsPending DEF TBInv, updateVideoSingleTask
<1> DEFINE r == batch[p][u]
<1> DEFINE a == pc[p].answer
<1>1. /\ UNCHANGED <<stage, fetch, late, queries, paid, tokenPaid, used, usage, faults>>
      /\ pc[p].step = "commit" /\ u \notin Suno
  BY <1>0 DEF updateVideoSingleTask, submitVars
<1>2. r \in Row /\ r # NoRow
  BY <1>0, <1>1, WorkIsPending DEF TBInv
<1>3. a \in Statuses
  BY <1>1 DEF TBInv, PollersOK, Focus
<1>4. IF Wins(u, r.status)
      THEN /\ \E done \in BOOLEAN : task' = [task EXCEPT ![u] = Answered(r, a, done)]
           /\ IF a = "SUCCESS" THEN SettleStep(p, u, r)
              ELSE /\ UNCHANGED due
                   /\ IF a = "FAILURE" THEN RefundStep(p, u, r) ELSE Through(p, u)
      ELSE Through(p, u) /\ UNCHANGED <<task, due>>
  BY <1>0 DEF updateVideoSingleTask
<1>5. CASE ~Wins(u, r.status)
  BY <1>1, <1>4, <1>5, ThroughMoney
<1>6. CASE Wins(u, r.status)
  <2>1. PICK done \in BOOLEAN : task' = [task EXCEPT ![u] = Answered(r, a, done)]
    BY <1>4, <1>6
  <2> DEFINE n == Answered(r, a, done)
  <2>2. n \in Row /\ n.status = a
    BY <1>2, <1>3, AnsweredOK
  <2>3. n.quota = r.quota
    BY <1>2 DEF Answered, Row
  <2>4. task' = [task EXCEPT ![u] = n]
    BY <2>1
  <2> HIDE DEF a, n
  <2> QED
    BY <1>1, <1>2, <1>3, <1>4, <1>6, <2>2, <2>3, <2>4, VideoMoney
<1> QED
  BY <1>5, <1>6

\* A Suno row is saved; Suno tasks have no bill.
LEMMA SaveSunoMoney ==
    ASSUME TBInv, TBMoney, NEW p \in Pollers, SaveSuno(p)
    PROVE  TBMoney'
<1>0. PICK u \in Tasks : u = pc[p].task
  BY WorkIsPending DEF TBInv, SaveSuno
<1> DEFINE n == batch[p][u]
<1>1. /\ pc[p].step = "save" /\ task' = [task EXCEPT ![u] = n] /\ Through(p, u)
      /\ UNCHANGED <<stage, fetch, late, queries, paid, tokenPaid, used, usage, due, faults>>
  BY <1>0 DEF SaveSuno, submitVars, moneyVars
<1>2. u \in Suno /\ n # NoRow
  BY <1>0, <1>1, WorkIsPending DEF TBInv, PollersOK, Focus
<1>3. n \in Row /\ task[u] # NoRow /\ n.quota = task[u].quota
  BY <1>2, CopyQuota DEF TBMoney
<1> HIDE DEF n
<1>4. OthersStay(p) /\ pc'[p].step = "next"
  BY <1>1, ThroughWork DEF TBInv, OthersStay
<1>5. due' \in [Tasks -> Nat] /\ \A t \in Tasks : due'[t] = due[t]
  BY <1>1 DEF TBMoney, AmountsOK
<1>6. ~Billed(u) /\ ~Adjusting(p, u)'
  BY <1>2, <1>4 DEF Billed, Adjusting
<1> QED
  BY <1>1, <1>3, <1>4, <1>5, <1>6, RowMoney

\* Tasks without a channel fail without a refund.
LEMMA TaskBulkUpdateByIDMoney ==
    ASSUME TBInv, TBMoney, NEW p \in Pollers, TaskBulkUpdateByID(p)
    PROVE  TBMoney'
<1>1. UNCHANGED <<stage, fetch, pc, late, queries, paid, tokenPaid, used, usage, due, faults>>
  BY DEF TaskBulkUpdateByID, submitVars, moneyVars
<1>2. PICK S \in SUBSET Pending(p) :
        /\ task' = [t \in Tasks |-> IF t \in S
                                    THEN [task[t] EXCEPT !.status = "FAILURE", !.full = TRUE,
                                                         !.reason = "channel"]
                                    ELSE task[t]]
        /\ batch' = [batch EXCEPT ![p] = [t \in Tasks |-> IF t \in S THEN NoRow ELSE @[t]]]
  BY DEF TaskBulkUpdateByID
<1>3. \A t \in S : t \in Tasks /\ task[t] \in Row
  BY DEF Pending, TBInv, PollersOK, Copy, RowsOK
<1>4. \A t \in S : /\ task'[t].status = "FAILURE" /\ task'[t].reason = "channel"
                   /\ task'[t].quota = task[t].quota
  <2> SUFFICES ASSUME NEW t \in S
               PROVE  /\ task'[t].status = "FAILURE" /\ task'[t].reason = "channel"
                      /\ task'[t].quota = task[t].quota
    OBVIOUS
  <2>1. task[t] \in Row /\ t \in Tasks
    BY <1>3
  <2>2. task'[t] = [task[t] EXCEPT !.status = "FAILURE", !.full = TRUE, !.reason = "channel"]
    BY <1>2, <2>1
  <2> QED
    BY <2>1, <2>2 DEF Row
<1>5. \A t \in Tasks : t \notin S => task'[t] = task[t]
  BY <1>2
<1>6. QuotasStay
  BY <1>4, <1>5 DEF QuotasStay
<1>7. \A q \in Pollers, t \in Tasks : batch'[q][t] # NoRow => batch'[q][t] = batch[q][t]
  BY <1>2 DEF TBInv, PollersOK
<1>8. CopiesOK'
  <2>1. FewerCopies
    BY <1>1, <1>7 DEF FewerCopies
  <2> QED
    BY <1>6, <2>1, CopiesStay DEF TBMoney
<1>9. LessWork /\ \A t \in Tasks : SameWork(t)
  BY <1>1 DEF LessWork, SameWork, Adjusting
<1>10. OnlyBack
  BY <1>9, StillBack DEF TBMoney
<1>11. BillsOK'
  <2> SUFFICES ASSUME faults' = 0, NEW t \in Tasks, Billed(t)' PROVE Bill(t)'
    BY DEF BillsOK
  <2>1. Bill(t)
    BY <1>1 DEF Billed, BillsOK, TBMoney
  <2>2. CASE t \in S
    <3>1. Unrefunded(t)' /\ task'[t].status \in Terminal
      BY <1>4, <2>2 DEF Unrefunded, Terminal
    <3> QED
      BY <3>1 DEF Bill
  <2>3. CASE t \notin S
    BY <1>1, <1>5, <1>9, <2>1, <2>3, BillKept
  <2> QED
    BY <2>2, <2>3
<1>12. due' \in [Tasks -> Nat] /\ faults' \in 0 .. MaxFaults
  BY <1>1 DEF TBMoney, AmountsOK
<1> QED
  BY <1>1, <1>6, <1>8, <1>10, <1>11, <1>12, MoneyStays

\* What a realtime query writes has the quota of the row.
LEMMA RealtimeUpdateMoney ==
    ASSUME TBInv, TBMoney, NEW u \in Tasks, RealtimeUpdate(u)
    PROVE  TBMoney'
<1> DEFINE r == fetch[u].row
<1> DEFINE full == fetch[u].answer \in Terminal
<1> DEFINE n == [r EXCEPT !.status = fetch[u].answer, !.full = full]
<1>1. /\ fetch[u] # NoRow /\ task' = (IF Wins(u, r.status) THEN [task EXCEPT ![u] = n] ELSE task)
      /\ fetch' = [fetch EXCEPT ![u] = NoRow]
      /\ UNCHANGED <<stage, batch, pc, late, queries, paid, tokenPaid, used, usage, due, faults>>
  BY DEF RealtimeUpdate, submitVars, pollVars, moneyVars
<1>2. fetch[u] \in Fetched /\ u \in Realtime /\ task[u] # NoRow
  BY <1>1 DEF TBInv, QueriesOK
<1>3. r \in Row /\ r.quota = task[u].quota
  BY <1>1, <1>2 DEF Fetched, TBMoney, CopiesOK
<1>4. n.quota = task[u].quota
  BY <1>3 DEF Row
<1> HIDE DEF r, n, full
<1>5. task'[u].quota = task[u].quota /\ \A t \in Tasks : t # u => task'[t] = task[t]
  BY <1>1, <1>4 DEF TBInv, RowsOK
<1>6. QuotasStay
  BY <1>5 DEF QuotasStay
<1>7. CopiesOK'
  <2>1. FewerCopies
    BY <1>1 DEF FewerCopies, TBInv, QueriesOK
  <2> QED
    BY <1>6, <2>1, CopiesStay DEF TBMoney
<1>8. LessWork /\ \A t \in Tasks : SameWork(t)
  BY <1>1 DEF LessWork, SameWork, Adjusting
<1>9. OnlyBack
  BY <1>8, StillBack DEF TBMoney
<1>10. BillsOK'
  <2>1. \A t \in Tasks : Billed(t) => task'[t] = task[t] /\ due'[t] = due[t] /\ SameWork(t)
    BY <1>1, <1>2, <1>5, <1>8 DEF Billed
  <2> QED
    BY <1>1, <2>1, BillsStay DEF TBMoney
<1>11. due' \in [Tasks -> Nat] /\ faults' \in 0 .. MaxFaults
  BY <1>1 DEF TBMoney, AmountsOK
<1> QED
  BY <1>1, <1>6, <1>7, <1>9, <1>10, <1>11, MoneyStays

----------------------------------------------------------------------------
(* The handler's steps.                                                     *)

\* AmountUsed of the package does not become negative.
LEMMA PackageAfterOK ==
    ASSUME AmountsOK, NEW n \in Int
    PROVE  PackageAfter(n) \in Nat
<1> DEFINE k == used + n
<1>1. k \in Int
  BY TBConstants DEF AmountsOK
<1> HIDE DEF k
<1>2. PICK m \in {k, 0} : \A y \in {k, 0} : m >= y
  BY <1>1
<1>3. Max({k, 0}) \in {k, 0} /\ \A y \in {k, 0} : Max({k, 0}) >= y
  BY <1>2 DEF Max
<1>4. Max({k, 0}) \in Nat
  BY <1>1, <1>3
<1> QED
  BY <1>4 DEF PackageAfter, k

\* A charge, or a refund, of one task.
LEMMA FundOK ==
    ASSUME AmountsOK, NEW u \in Tasks, NEW n \in Int, Fund(u, n)
    PROVE  /\ used' \in 0 .. AmountTotal /\ paid' \in [Tasks -> Int] /\ usage' \in [Tasks -> Int]
           /\ \A t \in Tasks : t # u => paid'[t] = paid[t] /\ usage'[t] = usage[t]
           /\ u \in OnPackage => usage'[u] = usage[u] + n /\ paid'[u] = paid[u]
           /\ u \notin OnPackage => usage'[u] = usage[u] /\ paid'[u] = paid[u] + n
<1>0. used \in 0 .. AmountTotal /\ paid \in [Tasks -> Int] /\ usage \in [Tasks -> Nat] /\ AmountTotal \in Nat
  BY TBConstants DEF AmountsOK
<1>1. CASE u \in OnPackage
  <2>1. /\ PackageAfter(n) <= AmountTotal /\ used' = PackageAfter(n)
        /\ usage' = [usage EXCEPT ![u] = @ + n] /\ paid' = paid
    BY <1>1 DEF Fund
  <2>2. used' \in 0 .. AmountTotal
    BY <1>0, <2>1, PackageAfterOK
  <2> QED
    BY <1>0, <1>1, <2>1, <2>2
<1>2. CASE u \notin OnPackage
  <2>1. paid' = [paid EXCEPT ![u] = @ + n] /\ used' = used /\ usage' = usage
    BY <1>2 DEF Fund
  <2> QED
    BY <1>0, <1>2, <2>1
<1> QED
  BY <1>1, <1>2

\* A step of one handler.
LEMMA HandlerMoney ==
    ASSUME TBInv, TBMoney, NEW u \in Tasks, NEW s, stage' = [stage EXCEPT ![u] = s],
           UNCHANGED pc, CopiesOK', AmountsOK', faults' = 0 => faults = 0,
           \A t \in Tasks : t # u => /\ task'[t] = task[t] /\ due'[t] = due[t] /\ paid'[t] = paid[t]
                                     /\ tokenPaid'[t] = tokenPaid[t] /\ usage'[t] = usage[t],
           Taken(u)',
           u \in PerCall \ OnPackage => /\ s = "inserted" => paid'[u] <= Estimate
                                        /\ s = "settled" => paid'[u] <= task'[u].quota,
           faults' = 0 /\ Billed(u)' => Bill(u)'
    PROVE  TBMoney'
<1>1. stage'[u] = s /\ \A t \in Tasks : t # u => stage'[t] = stage[t]
  BY DEF TBInv, OutsideOK
<1>2. TakenOK'
  <2> SUFFICES ASSUME NEW t \in Tasks, t # u PROVE Taken(t)'
    BY DEF TakenOK
  <2>1. Taken(t)
    BY DEF TBMoney, TakenOK
  <2> QED
    BY <1>1, <2>1 DEF Taken
<1>3. PerCallOK'
  <2> SUFFICES ASSUME NEW t \in PerCall \ OnPackage PROVE Priced(t)'
    BY DEF PerCallOK
  <2>1. Priced(t) /\ t \in Tasks
    BY TBConstants DEF TBMoney, PerCallOK
  <2>2. \A p \in Pollers : Adjusting(p, t)' => pc'[p].delta <= 0
    BY <2>1 DEF Priced, Adjusting
  <2>3. CASE t = u
    BY <1>1, <2>2, <2>3 DEF Priced
  <2>4. CASE t # u
    BY <1>1, <2>1, <2>2, <2>4 DEF Priced
  <2> QED
    BY <2>3, <2>4
<1>4. BillsOK'
  <2> SUFFICES ASSUME faults' = 0, NEW t \in Tasks, Billed(t)', t # u PROVE Bill(t)'
    BY DEF BillsOK
  <2>1. Bill(t)
    BY <1>1 DEF Billed, BillsOK, TBMoney
  <2>2. SameWork(t)
    BY DEF SameWork, Adjusting
  <2> QED
    BY <1>1, <2>1, <2>2, BillKept
<1> QED
  BY <1>2, <1>3, <1>4 DEF TBMoney

\* Pre-consuming.
LEMMA PreConsumeBillingMoney ==
    ASSUME TBInv, TBMoney, NEW u \in Tasks, PreConsumeBilling(u)
    PROVE  TBMoney'
<1>1. /\ stage[u] = "new" /\ Fund(u, Estimate) /\ tokenPaid' = [tokenPaid EXCEPT ![u] = Estimate]
      /\ stage' = [stage EXCEPT ![u] = "sent"]
      /\ UNCHANGED <<late, task, fetch, queries, batch, pc, due, faults>>
  BY DEF PreConsumeBilling, rowVars, pollVars
<1>2. Estimate \in Nat /\ Estimate \in Int
  BY TBConstants
<1>3. /\ used' \in 0 .. AmountTotal /\ paid' \in [Tasks -> Int] /\ usage' \in [Tasks -> Int]
      /\ \A t \in Tasks : t # u => paid'[t] = paid[t] /\ usage'[t] = usage[t]
      /\ u \in OnPackage => usage'[u] = usage[u] + Estimate /\ paid'[u] = paid[u]
      /\ u \notin OnPackage => usage'[u] = usage[u] /\ paid'[u] = paid[u] + Estimate
  BY <1>1, <1>2, FundOK DEF TBMoney
<1>4. paid[u] = 0 /\ usage[u] = 0
  BY <1>1 DEF TBMoney, TakenOK, Taken
<1>5. stage'[u] = "sent"
  BY <1>1 DEF TBInv, OutsideOK
<1>6. /\ tokenPaid' \in [Tasks -> Int] /\ tokenPaid'[u] = Estimate
      /\ \A t \in Tasks : t # u => tokenPaid'[t] = tokenPaid[t]
  BY <1>1, <1>2 DEF TBMoney, AmountsOK
<1>7. usage' \in [Tasks -> Nat]
  BY <1>2, <1>3, <1>4 DEF TBMoney, AmountsOK
<1>8. AmountsOK'
  BY <1>1, <1>3, <1>6, <1>7 DEF TBMoney, AmountsOK
<1>9. Taken(u)'
  BY <1>2, <1>3, <1>4, <1>5, <1>6 DEF Taken
<1>10. CopiesOK' /\ ~Billed(u)'
  BY <1>1, <1>5 DEF TBMoney, CopiesOK, Billed
<1> QED
  BY <1>1, <1>3, <1>6, <1>8, <1>9, <1>10, HandlerMoney

\* Giving back what a submission that failed has taken.
LEMMA SubmitFailsMoney ==
    ASSUME TBInv, TBMoney, NEW u \in Tasks, SubmitFails(u)
    PROVE  TBMoney'
<1>1. /\ stage[u] = "sent" /\ Fund(u, -Estimate) /\ tokenPaid' = [tokenPaid EXCEPT ![u] = 0]
      /\ stage' = [stage EXCEPT ![u] = "aborted"]
      /\ UNCHANGED <<late, task, fetch, queries, batch, pc, due, faults>>
  BY DEF SubmitFails, rowVars, pollVars
<1>2. Estimate \in Nat /\ -Estimate \in Int
  BY TBConstants
<1>3. /\ used' \in 0 .. AmountTotal /\ paid' \in [Tasks -> Int] /\ usage' \in [Tasks -> Int]
      /\ \A t \in Tasks : t # u => paid'[t] = paid[t] /\ usage'[t] = usage[t]
      /\ u \in OnPackage => usage'[u] = usage[u] + (-Estimate) /\ paid'[u] = paid[u]
      /\ u \notin OnPackage => usage'[u] = usage[u] /\ paid'[u] = paid[u] + (-Estimate)
  BY <1>1, <1>2, FundOK DEF TBMoney
<1>4. u \in OnPackage => usage[u] = Estimate
  BY <1>1 DEF TBMoney, TakenOK, Taken
<1>5. stage'[u] = "aborted"
  BY <1>1 DEF TBInv, OutsideOK
<1>6. tokenPaid' \in [Tasks -> Int] /\ \A t \in Tasks : t # u => tokenPaid'[t] = tokenPaid[t]
  BY <1>1 DEF TBMoney, AmountsOK
<1>7. usage' \in [Tasks -> Nat]
  BY <1>2, <1>3, <1>4 DEF TBMoney, AmountsOK
<1>8. AmountsOK'
  BY <1>1, <1>3, <1>6, <1>7 DEF TBMoney, AmountsOK
<1>9. Taken(u)'
  BY <1>5 DEF Taken
<1>10. CopiesOK' /\ ~Billed(u)'
  BY <1>1, <1>5 DEF TBMoney, CopiesOK, Billed
<1> QED
  BY <1>1, <1>3, <1>6, <1>8, <1>9, <1>10, HandlerMoney

\* The row is inserted while the estimate is taken.
LEMMA InsertTaskMoney ==
    ASSUME TBInv, TBMoney, NEW u \in Tasks, InsertTask(u)
    PROVE  TBMoney'
<1>1. PICK k \in Quotas : task' = [task EXCEPT ![u] = NewRow(k)] /\ due' = [due EXCEPT ![u] = k]
  BY DEF InsertTask
<1>2. /\ stage[u] = "sent" /\ stage' = [stage EXCEPT ![u] = "inserted"]
      /\ UNCHANGED <<late, fetch, queries, batch, pc, paid, tokenPaid, used, usage, faults>>
  BY DEF InsertTask, pollVars
<1>3. k \in Nat /\ Estimate \in Nat
  BY TBConstants
<1>4. NewRow(k).status = "NOT_START" /\ NewRow(k).quota = k
  BY DEF NewRow
<1>5. task'[u] = NewRow(k) /\ \A t \in Tasks : t # u => task'[t] = task[t]
  BY <1>1 DEF TBInv, RowsOK
<1>6. due' \in [Tasks -> Nat] /\ due'[u] = k /\ \A t \in Tasks : t # u => due'[t] = due[t]
  BY <1>1, <1>3 DEF TBMoney, AmountsOK
<1>7. stage'[u] = "inserted"
  BY <1>2 DEF TBInv, OutsideOK
<1>8. task[u] = NoRow
  BY <1>2 DEF TBInv, RowsOK, Early
<1>9. (\A p \in Pollers : batch[p][u] = NoRow) /\ fetch[u] = NoRow
  BY <1>8 DEF TBInv, PollersOK, Copy, QueriesOK
<1>10. \A p \in Pollers : ~Adjusting(p, u)
  BY <1>9 DEF TBInv, PollersOK, Focus, Adjusting
<1>11. CopiesOK'
  BY <1>2, <1>5, <1>9 DEF TBMoney, CopiesOK
<1>12. AmountsOK'
  BY <1>2, <1>6 DEF TBMoney, AmountsOK
<1>13. Taken(u)
  BY DEF TBMoney, TakenOK
<1>14. Taken(u)'
  BY <1>2, <1>7, <1>13 DEF Taken
<1>15. u \notin OnPackage => paid'[u] = Estimate /\ tokenPaid'[u] = Estimate
  BY <1>2, <1>13 DEF Taken
<1>16. ASSUME u \notin OnPackage PROVE Bill(u)'
  <2>1. task'[u].status = "NOT_START" /\ task'[u].quota = k
    BY <1>4, <1>5
  <2>2. Cost(u)' = k /\ Unsettled(u)' = Estimate - k
    BY <1>7, <2>1 DEF Cost, Unsettled
  <2>3. paid'[u] = Cost(u)' + Unsettled(u)' /\ tokenPaid'[u] = Cost(u)' + Unsettled(u)'
    BY <1>3, <1>15, <1>16, <2>2
  <2>4. \A p \in Pollers : ~Adjusting(p, u)'
    BY <1>2, <1>10 DEF Adjusting
  <2> QED
    BY <1>6, <2>1, <2>3, <2>4 DEF Bill
<1>17. Billed(u)' => Bill(u)'
  BY <1>16 DEF Billed
<1>18. u \notin OnPackage => paid'[u] <= Estimate
  BY <1>3, <1>15
<1> QED
  BY <1>2, <1>5, <1>6, <1>11, <1>12, <1>14, <1>17, <1>18, HandlerMoney

\* Settling replaces the estimate by the quota of the row, whatever a poller
\* has done with the task meanwhile.
LEMMA SettleBillingMoney ==
    ASSUME TBInv, TBMoney, NEW u \in Tasks, SettleBilling(u)
    PROVE  TBMoney'
<1> DEFINE k == task[u].quota
<1> DEFINE d == k - Estimate
<1>1. /\ stage[u] = "inserted" /\ Fund(u, d) /\ tokenPaid' = [tokenPaid EXCEPT ![u] = @ + k - Estimate]
      /\ stage' = [stage EXCEPT ![u] = "settled"]
      /\ UNCHANGED <<late, task, fetch, queries, batch, pc, due, faults>>
  BY DEF SettleBilling, rowVars, pollVars
<1>2. task[u] \in Row
  BY <1>1 DEF TBInv, RowsOK, Early
<1>3. k \in Nat /\ Estimate \in Nat /\ d \in Int
  BY <1>2, RowQuota, TBConstants
<1>4. /\ used' \in 0 .. AmountTotal /\ paid' \in [Tasks -> Int] /\ usage' \in [Tasks -> Int]
      /\ \A t \in Tasks : t # u => paid'[t] = paid[t] /\ usage'[t] = usage[t]
      /\ u \in OnPackage => usage'[u] = usage[u] + d /\ paid'[u] = paid[u]
      /\ u \notin OnPackage => usage'[u] = usage[u] /\ paid'[u] = paid[u] + d
  <2> HIDE DEF d
  <2> QED
    BY <1>1, <1>3, FundOK DEF TBMoney
<1>5. u \in OnPackage => usage[u] = Estimate
  BY <1>1 DEF TBMoney, TakenOK, Taken
<1>6. stage'[u] = "settled"
  BY <1>1 DEF TBInv, OutsideOK
<1>7. paid \in [Tasks -> Int] /\ tokenPaid \in [Tasks -> Int] /\ usage \in [Tasks -> Nat]
  BY DEF TBMoney, AmountsOK
<1>8. /\ tokenPaid' \in [Tasks -> Int] /\ tokenPaid'[u] = tokenPaid[u] + d
      /\ \A t \in Tasks : t # u => tokenPaid'[t] = tokenPaid[t]
  BY <1>1, <1>3, <1>7
<1>9. usage' \in [Tasks -> Nat]
  BY <1>3, <1>4, <1>5, <1>7
<1>10. AmountsOK'
  BY <1>1, <1>4, <1>8, <1>9 DEF TBMoney, AmountsOK
<1>11. Taken(u)'
  BY <1>6 DEF Taken
<1>12. CopiesOK'
  BY <1>1 DEF TBMoney, CopiesOK
<1>13. ASSUME u \in PerCall \ OnPackage PROVE paid'[u] <= task'[u].quota
  <2>1. paid[u] <= Estimate
    BY <1>1, <1>13 DEF TBMoney, PerCallOK, Priced
  <2>2. paid'[u] = paid[u] + d /\ paid[u] \in Int /\ task'[u].quota = k
    BY <1>1, <1>4, <1>7, <1>13
  <2> QED
    BY <1>3, <2>1, <2>2
<1>14. ASSUME faults' = 0, Billed(u)' PROVE Bill(u)'
  <2>1. Bill(u) /\ u \notin OnPackage
    BY <1>1, <1>14 DEF Billed, BillsOK, TBMoney
  <2> DEFINE c == Cost(u)
  <2>2. Cost(u)' = c /\ (Unrefunded(u)' <=> Unrefunded(u))
    BY <1>1 DEF Cost, Unrefunded
  <2>3. Unsettled(u) = Estimate - k /\ Unsettled(u)' = 0
    BY <1>1, <1>6 DEF Unsettled
  <2>4. c \in Int
    BY <1>3 DEF Cost, TBMoney, AmountsOK
  <2>5. \A p \in Pollers : (Adjusting(p, u)' <=> Adjusting(p, u)) /\ pc'[p] = pc[p] /\ pc[p].delta \in Int
    BY <1>1, PlaceFields DEF Adjusting, TBInv
  <2>6. /\ task[u].status \notin Terminal => due[u] = task[u].quota /\ \A p \in Pollers : ~Adjusting(p, u)
        /\ ~Unrefunded(u) =>
              /\ \A p \in Pollers, q \in Pollers : Adjusting(p, u) /\ Adjusting(q, u) => p = q
              /\ (\A p \in Pollers : ~Adjusting(p, u)) =>
                    paid[u] = c + (Estimate - k) /\ tokenPaid[u] = c + (Estimate - k)
              /\ \A p \in Pollers : Adjusting(p, u) =>
                    /\ paid[u] + (IF pc[p].step = "fund" THEN pc[p].delta ELSE 0) = c + (Estimate - k)
                    /\ tokenPaid[u] + pc[p].delta = c + (Estimate - k)
    BY <2>1, <2>3 DEF Bill
  <2> HIDE DEF c, k
  <2>7. paid'[u] = paid[u] + (k - Estimate) /\ tokenPaid'[u] = tokenPaid[u] + (k - Estimate)
        /\ paid[u] \in Int /\ tokenPaid[u] \in Int
    BY <1>4, <1>7, <1>8, <2>1
  <2>8. /\ paid[u] = c + (Estimate - k) => paid'[u] = c + 0
        /\ tokenPaid[u] = c + (Estimate - k) => tokenPaid'[u] = c + 0
    BY <1>3, <2>4, <2>7
  <2>9. \A x \in Int : /\ paid[u] + x = c + (Estimate - k) => paid'[u] + x = c + 0
                       /\ tokenPaid[u] + x = c + (Estimate - k) => tokenPaid'[u] + x = c + 0
    BY <1>3, <2>4, <2>7
  <2>10. ASSUME ~Unrefunded(u), NEW p \in Pollers, Adjusting(p, u)
         PROVE  /\ paid'[u] + (IF pc'[p].step = "fund" THEN pc'[p].delta ELSE 0) = c + 0
                /\ tokenPaid'[u] + pc'[p].delta = c + 0
    <3> DEFINE x == IF pc[p].step = "fund" THEN pc[p].delta ELSE 0
    <3>1. x \in Int /\ x = (IF pc'[p].step = "fund" THEN pc'[p].delta ELSE 0)
      BY <2>5
    <3>2. paid[u] + x = c + (Estimate - k) /\ tokenPaid[u] + pc[p].delta = c + (Estimate - k)
      BY <2>6, <2>10
    <3>3. paid'[u] + x = c + 0 /\ tokenPaid'[u] + pc[p].delta = c + 0
      <4> HIDE DEF x
      <4> QED
        BY <2>5, <2>9, <3>1, <3>2
    <3> QED
      BY <2>5, <3>1, <3>3
  <2> QED
    BY <1>1, <2>2, <2>3, <2>5, <2>6, <2>8, <2>10 DEF Bill
<1> HIDE DEF d, k
<1> QED
  BY <1>1, <1>4, <1>8, <1>10, <1>11, <1>12, <1>13, <1>14, HandlerMoney

\* A settlement that fails.
LEMMA SettleBillingFailsMoney ==
    ASSUME TBInv, TBMoney, NEW u \in Tasks, SettleBillingFails(u)
    PROVE  TBMoney'
<1>1. /\ stage' = [stage EXCEPT ![u] = "unsettled"] /\ Fault
      /\ UNCHANGED <<late, task, fetch, queries, batch, pc, paid, tokenPaid, used, usage, due>>
  BY DEF SettleBillingFails, rowVars, pollVars, moneyVars
<1>2. stage'[u] = "unsettled"
  BY <1>1 DEF TBInv, OutsideOK
<1>3. faults' \in 0 .. MaxFaults
  BY <1>1, FaultyBills DEF TBMoney
<1>4. faults' # 0
  BY <1>1 DEF Fault, TBMoney, AmountsOK
<1>5. AmountsOK'
  BY <1>1, <1>3 DEF TBMoney, AmountsOK
<1>6. Taken(u)' /\ ~Billed(u)'
  BY <1>2 DEF Taken, Billed
<1>7. CopiesOK'
  BY <1>1 DEF TBMoney, CopiesOK
<1> QED
  BY <1>1, <1>4, <1>5, <1>6, <1>7, HandlerMoney

\* The row saved for the audit has the quota it had.
LEMMA SaveAuditMoney ==
    ASSUME TBInv, TBMoney, NEW u \in Tasks, SaveAudit(u)
    PROVE  TBMoney'
<1> DEFINE r == [NewRow(task[u].quota) EXCEPT !.settleFailed = TRUE]
<1>1. /\ stage[u] = "unsettled" /\ task' = [task EXCEPT ![u] = r]
      /\ stage' = [stage EXCEPT ![u] = "audited"]
      /\ UNCHANGED <<late, fetch, queries, batch, pc, paid, tokenPaid, used, usage, due, faults>>
  BY DEF SaveAudit, pollVars, moneyVars, TBInv, RowsOK
<1>2. r.quota = task[u].quota
  BY DEF NewRow
<1> HIDE DEF r
<1>3. task'[u] = r /\ \A t \in Tasks : t # u => task'[t] = task[t]
  BY <1>1 DEF TBInv, RowsOK
<1>4. QuotasStay /\ FewerCopies
  BY <1>1, <1>2, <1>3 DEF QuotasStay, FewerCopies
<1>5. CopiesOK'
  BY <1>4, CopiesStay DEF TBMoney
<1>6. stage'[u] = "audited"
  BY <1>1 DEF TBInv, OutsideOK
<1>7. AmountsOK'
  BY <1>1 DEF TBMoney, AmountsOK
<1>8. Taken(u)' /\ ~Billed(u)'
  BY <1>6 DEF Taken, Billed
<1> QED
  BY <1>1, <1>3, <1>5, <1>7, <1>8, HandlerMoney

\* Steps of the world outside.
LEMMA OutsideMoney ==
    ASSUME TBInv, TBMoney, UNCHANGED <<task, stage, batch, pc, paid, tokenPaid, used, usage, due, faults>>,
           late' \in [Tasks -> BOOLEAN], queries' \in [Tasks -> 0 .. MaxQueries], CopiesOK'
    PROVE  TBMoney'
<1>1. AmountsOK'
  BY DEF TBMoney, AmountsOK
<1>2. TakenOK'
  BY DEF TBMoney, TakenOK, Taken
<1>3. PerCallOK'
  BY DEF TBMoney, PerCallOK, Priced, Adjusting
<1>4. \A t \in Tasks : SameWork(t)
  BY DEF SameWork, Adjusting
<1>5. BillsOK'
  BY <1>4, BillsStay DEF TBMoney
<1> QED
  BY <1>1, <1>2, <1>3, <1>5 DEF TBMoney

\* Upstream ends a task, time passes, a user asks.
LEMMA WorldMoney ==
    ASSUME TBInv, TBMoney, NEW u \in Tasks, UpstreamEnds(u) \/ TimesOut(u) \/ RealtimeFetch(u)
    PROVE  TBMoney'
<1>0. late \in [Tasks -> BOOLEAN] /\ queries \in [Tasks -> 0 .. MaxQueries] /\ MaxQueries \in Nat
  BY TBConstants DEF TBMoney, AmountsOK
<1>1. UNCHANGED <<task, stage, batch, pc, paid, tokenPaid, used, usage, due, faults>>
  BY DEF UpstreamEnds, TimesOut, RealtimeFetch, submitVars, rowVars, pollVars, moneyVars
<1>2. CASE UpstreamEnds(u) \/ TimesOut(u)
  <2>1. UNCHANGED <<fetch, queries>> /\ (late' = late \/ late' = [late EXCEPT ![u] = TRUE])
    BY <1>2 DEF UpstreamEnds, TimesOut, rowVars
  <2>2. late' \in [Tasks -> BOOLEAN] /\ queries' \in [Tasks -> 0 .. MaxQueries]
    BY <1>0, <2>1
  <2>3. CopiesOK'
    BY <1>1, <2>1 DEF TBMoney, CopiesOK
  <2> QED
    BY <1>1, <2>2, <2>3, OutsideMoney
<1>3. CASE RealtimeFetch(u)
  <2>1. /\ queries[u] < MaxQueries /\ queries' = [queries EXCEPT ![u] = @ + 1] /\ late' = late
        /\ \E a \in Answers(u) : fetch' = [fetch EXCEPT ![u] = [row |-> task[u], answer |-> a]]
    BY <1>3 DEF RealtimeFetch, submitVars
  <2>2. late' \in [Tasks -> BOOLEAN] /\ queries' \in [Tasks -> 0 .. MaxQueries]
    BY <1>0, <2>1
  <2>3. fetch'[u].row = task[u] /\ \A t \in Tasks : t # u => fetch'[t] = fetch[t]
    BY <2>1 DEF TBInv, QueriesOK
  <2>4. CopiesOK'
    BY <1>1, <2>3 DEF TBMoney, CopiesOK
  <2> QED
    BY <1>1, <2>2, <2>4, OutsideMoney
<1> QED
  BY <1>2, <1>3

----------------------------------------------------------------------------
(* The two halves of an adjustment.                                         *)

\* A step of a poller on amounts of the task it adjusts.
LEMMA AdjustingMoney ==
    ASSUME TBInv, TBMoney, NEW p \in Pollers, NEW u \in Tasks, pc[p].task = u,
           pc[p].step \in {"fund", "token"}, pc'[p].step \in {"fund", "token"} => pc'[p].task = u,
           OthersStay(p), LessWork,
           UNCHANGED <<task, stage, fetch, late, queries, usage, due, faults>>,
           used' \in 0 .. AmountTotal, paid' \in [Tasks -> Int], tokenPaid' \in [Tasks -> Int],
           \A t \in Tasks : t # u => paid'[t] = paid[t] /\ tokenPaid'[t] = tokenPaid[t],
           u \in PerCall \ OnPackage => paid'[u] <= paid[u],
           Billed(u) /\ Bill(u) => Bill(u)'
    PROVE  TBMoney'
<1>1. AmountsOK'
  BY DEF TBMoney, AmountsOK
<1>2. batch[p][u] # NoRow /\ stage[u] \notin Early
  <2>1. batch[p][u] # NoRow
    BY WorkIsPending DEF TBInv
  <2>2. task[u] # NoRow
    BY <2>1 DEF TBInv, PollersOK, Copy
  <2> QED
    BY <2>1, <2>2 DEF TBInv, RowsOK
<1>3. TakenOK'
  <2> SUFFICES ASSUME NEW t \in Tasks PROVE Taken(t)'
    BY DEF TakenOK
  <2>1. Taken(t)
    BY DEF TBMoney, TakenOK
  <2>2. CASE t = u
    BY <1>2, <2>1, <2>2 DEF Taken, Early
  <2>3. CASE t # u
    BY <2>1, <2>3 DEF Taken
  <2> QED
    BY <2>2, <2>3
<1>4. CopiesOK'
  BY DEF OthersStay, TBMoney, CopiesOK
<1>5. PerCallOK'
  <2> SUFFICES ASSUME NEW t \in PerCall \ OnPackage PROVE Priced(t)'
    BY DEF PerCallOK
  <2>1. Priced(t) /\ t \in Tasks
    BY TBConstants DEF TBMoney, PerCallOK
  <2>2. \A q \in Pollers : Adjusting(q, t)' => pc'[q].delta <= 0
    BY <2>1, StillBack DEF OnlyBack, TBMoney
  <2>3. paid'[t] <= paid[t] /\ paid[t] \in Int /\ paid'[t] \in Int
    BY <2>1 DEF TBMoney, AmountsOK
  <2>4. stage[t] = "settled" => task[t].quota \in Nat
    BY <2>1, RowQuota DEF TBInv, RowsOK, Early
  <2> QED
    BY <2>1, <2>2, <2>3, <2>4, TBConstants DEF Priced
<1>6. BillsOK'
  <2> SUFFICES ASSUME faults' = 0, NEW t \in Tasks, Billed(t)' PROVE Bill(t)'
    BY DEF BillsOK
  <2>1. Billed(t) /\ Bill(t)
    BY DEF Billed, BillsOK, TBMoney
  <2>2. CASE t = u
    BY <2>1, <2>2
  <2>3. CASE t # u
    <3>1. SameWork(t)
      BY <2>3 DEF SameWork, Adjusting, OthersStay
    <3> QED
      BY <2>1, <2>3, <3>1, BillKept
  <2> QED
    BY <2>2, <2>3
<1> QED
  BY <1>1, <1>3, <1>4, <1>5, <1>6 DEF TBMoney

\* The bill of a task whose wallet is adjusted.
LEMMA FundedBill ==
    ASSUME TBInv, AmountsOK, NEW p \in Pollers, NEW u \in Tasks, Bill(u), Adjusting(p, u), pc[p].step = "fund",
           pc'[p].step = "token", pc'[p].task = u, pc'[p].delta = pc[p].delta,
           \A q \in Pollers : q # p => pc'[q] = pc[q],
           UNCHANGED <<task, stage, due, tokenPaid>>, paid'[u] = paid[u] + pc[p].delta
    PROVE  Bill(u)'
<1> DEFINE c == Cost(u)
<1> DEFINE n == Unsettled(u)
<1>1. Cost(u)' = c /\ Unsettled(u)' = n /\ (Unrefunded(u)' <=> Unrefunded(u)) /\ task'[u] = task[u]
  BY DEF Cost, Unsettled, Unrefunded
<1>2. task[u].status \in Terminal
  BY DEF Bill
<1>3. ~Unrefunded(u) => /\ \A q \in Pollers : Adjusting(q, u) => q = p
                        /\ paid[u] + pc[p].delta = c + n /\ tokenPaid[u] + pc[p].delta = c + n
  BY DEF Bill
<1>4. Adjusting(p, u)' /\ \A q \in Pollers : q # p => (Adjusting(q, u)' <=> Adjusting(q, u))
  BY DEF Adjusting
<1>5. paid'[u] + 0 = paid'[u]
  <2>1. paid[u] \in Int /\ pc[p].delta \in Int
    BY PlaceFields DEF TBInv, AmountsOK
  <2> QED
    BY <2>1
<1> HIDE DEF c, n
<1>6. ~Unrefunded(u) => /\ \A q \in Pollers : Adjusting(q, u)' => q = p
                        /\ paid'[u] + 0 = c + n /\ tokenPaid'[u] + pc'[p].delta = c + n
  BY <1>3, <1>4, <1>5
<1> QED
  BY <1>1, <1>2, <1>4, <1>6 DEF Bill

\* The bill of a task whose token is adjusted.
LEMMA TokenBill ==
    ASSUME NEW p \in Pollers, NEW u \in Tasks, Bill(u), Adjusting(p, u), pc[p].step = "token",
           paid[u] \in Int, ~Adjusting(p, u)', \A q \in Pollers : q # p => pc'[q] = pc[q],
           UNCHANGED <<task, stage, due, paid>>, tokenPaid'[u] = tokenPaid[u] + pc[p].delta
    PROVE  Bill(u)'
<1> DEFINE c == Cost(u)
<1> DEFINE n == Unsettled(u)
<1>1. Cost(u)' = c /\ Unsettled(u)' = n /\ (Unrefunded(u)' <=> Unrefunded(u)) /\ task'[u] = task[u]
  BY DEF Cost, Unsettled, Unrefunded
<1>2. task[u].status \in Terminal
  BY DEF Bill
<1>3. ~Unrefunded(u) => /\ \A q \in Pollers : Adjusting(q, u) => q = p
                        /\ paid[u] + 0 = c + n /\ tokenPaid[u] + pc[p].delta = c + n
  BY DEF Bill
<1>4. \A q \in Pollers : q # p => (Adjusting(q, u)' <=> Adjusting(q, u))
  BY DEF Adjusting
<1>5. paid[u] + 0 = paid[u]
  OBVIOUS
<1> HIDE DEF c, n
<1>6. ~Unrefunded(u) => (\A q \in Pollers : ~Adjusting(q, u)') /\ paid'[u] = c + n /\ tokenPaid'[u] = c + n
  BY <1>3, <1>4, <1>5
<1> QED
  BY <1>1, <1>2, <1>6 DEF Bill

\* taskAdjustFunding.
LEMMA taskAdjustFundingMoney ==
    ASSUME TBInv, TBMoney, NEW p \in Pollers, taskAdjustFunding(p)
    PROVE  TBMoney'
<1>0. PICK u \in Tasks : u = pc[p].task
  BY WorkIsPending DEF TBInv, taskAdjustFunding
<1> DEFINE d == pc[p].delta
<1>1. /\ pc[p].step = "fund"
      /\ UNCHANGED <<task, stage, fetch, late, queries, tokenPaid, usage, due, faults>>
  BY DEF taskAdjustFunding, submitVars, rowVars
<1>2. d \in Int
  BY PlaceFields DEF TBInv
<1>3. /\ used \in 0 .. AmountTotal /\ AmountTotal \in Nat
      /\ paid \in [Tasks -> Int] /\ tokenPaid \in [Tasks -> Int]
  BY TBConstants DEF TBMoney, AmountsOK
<1>4. Adjusting(p, u)
  BY <1>0, <1>1 DEF Adjusting
<1>5. CASE u \in OnPackage /\ PackageAfter(d) > AmountTotal
  <2>1. AfterAdjustment(p) /\ UNCHANGED <<paid, used>>
    BY <1>0, <1>5 DEF taskAdjustFunding
  <2>2. LessWork /\ OthersStay(p) /\ pc'[p].step \notin {"fund", "token"}
    BY <1>1, <2>1, AdjustmentEnds DEF OthersStay
  <2>3. ~Billed(u)
    BY <1>5 DEF Billed
  <2> QED
    BY <1>0, <1>1, <1>3, <1>5, <2>1, <2>2, <2>3, AdjustingMoney
<1>6. CASE ~(u \in OnPackage /\ PackageAfter(d) > AmountTotal)
  <2>1. /\ IF u \in OnPackage
           THEN used' = PackageAfter(d) /\ UNCHANGED paid
           ELSE paid' = [paid EXCEPT ![u] = @ + d] /\ UNCHANGED used
        /\ pc' = [pc EXCEPT ![p].step = "token"] /\ UNCHANGED batch
    BY <1>0, <1>6 DEF taskAdjustFunding
  <2>2. /\ pc'[p].step = "token" /\ pc'[p].task = u /\ pc'[p].delta = d
        /\ \A q \in Pollers : q # p => pc'[q] = pc[q]
    <3>1. pc[p] \in Places /\ pc \in [Pollers -> Places]
      BY DEF TBInv, PollersOK
    <3>2. pc'[p] = [pc[p] EXCEPT !.step = "token"] /\ \A q \in Pollers : q # p => pc'[q] = pc[q]
      BY <2>1, <3>1
    <3> QED
      BY <1>0, <3>1, <3>2 DEF Places
  <2>3. OthersStay(p)
    BY <2>1, <2>2 DEF OthersStay
  <2>4. LessWork
    BY <1>4, <2>2 DEF LessWork, Adjusting
  <2>5. used' \in 0 .. AmountTotal
    <3>1. PackageAfter(d) \in Nat
      BY <1>2, PackageAfterOK DEF TBMoney
    <3> QED
      BY <1>3, <1>6, <2>1, <3>1
  <2>6. paid' \in [Tasks -> Int] /\ \A t \in Tasks : t # u => paid'[t] = paid[t]
    BY <1>2, <1>3, <2>1
  <2>7. u \notin OnPackage => paid'[u] = paid[u] + d
    BY <1>3, <2>1
  <2>8. ASSUME u \in PerCall \ OnPackage PROVE paid'[u] <= paid[u]
    <3>1. d <= 0
      BY <1>4, <2>8 DEF TBMoney, PerCallOK, Priced
    <3> QED
      BY <1>2, <1>3, <2>7, <2>8, <3>1
  <2>9. ASSUME Billed(u), Bill(u) PROVE Bill(u)'
    <3>1. u \notin OnPackage
      BY <2>9 DEF Billed
    <3> QED
      BY <1>1, <1>4, <2>2, <2>7, <2>9, <3>1, FundedBill DEF TBMoney
  <2> QED
    BY <1>0, <1>1, <1>3, <2>2, <2>3, <2>4, <2>5, <2>6, <2>8, <2>9, AdjustingMoney
<1> QED
  BY <1>5, <1>6

\* taskAdjustTokenQuota.
LEMMA taskAdjustTokenQuotaMoney ==
    ASSUME TBInv, TBMoney, NEW p \in Pollers, taskAdjustTokenQuota(p)
    PROVE  TBMoney'
<1>0. PICK u \in Tasks : u = pc[p].task
  BY WorkIsPending DEF TBInv, taskAdjustTokenQuota
<1> DEFINE d == pc[p].delta
<1>1. /\ pc[p].step = "token" /\ AfterAdjustment(p) /\ tokenPaid' = [tokenPaid EXCEPT ![u] = @ + d]
      /\ UNCHANGED <<task, stage, fetch, late, queries, paid, used, usage, due, faults>>
  BY <1>0 DEF taskAdjustTokenQuota, submitVars, rowVars
<1>2. d \in Int
  BY PlaceFields DEF TBInv
<1>3. used \in 0 .. AmountTotal /\ paid \in [Tasks -> Int] /\ tokenPaid \in [Tasks -> Int]
  BY DEF TBMoney, AmountsOK
<1>4. Adjusting(p, u)
  BY <1>0, <1>1 DEF Adjusting
<1>5. LessWork /\ OthersStay(p) /\ pc'[p].step \notin {"fund", "token"}
  BY <1>1, AdjustmentEnds DEF OthersStay
<1>6. ~Adjusting(p, u)'
  BY <1>5 DEF Adjusting
<1>7. /\ tokenPaid' \in [Tasks -> Int] /\ tokenPaid'[u] = tokenPaid[u] + d
      /\ \A t \in Tasks : t # u => tokenPaid'[t] = tokenPaid[t]
  BY <1>1, <1>2, <1>3
<1>8. ASSUME Bill(u) PROVE Bill(u)'
  BY <1>1, <1>3, <1>4, <1>5, <1>6, <1>7, <1>8, TokenBill DEF OthersStay
<1>9. paid'[u] <= paid[u]
  BY <1>1, <1>3
<1> QED
  BY <1>0, <1>1, <1>3, <1>5, <1>7, <1>8, <1>9, AdjustingMoney

----------------------------------------------------------------------------
(* The theorems on amounts.                                                 *)

\* Nothing is taken initially.
LEMMA MoneyInit == TBInit => TBMoney /\ IdleOK
<1> SUFFICES ASSUME TBInit PROVE TBMoney /\ IdleOK
  OBVIOUS
<1>1. \A p \in Pollers : pc[p].step = "next"
  BY DEF TBInit, Idle, At
<1>2. \A p \in Pollers, t \in Tasks : ~Adjusting(p, t)
  BY <1>1 DEF Adjusting
<1>3. AmountsOK
  BY TBConstants DEF TBInit, AmountsOK
<1>4. TakenOK /\ CopiesOK /\ IdleOK
  BY <1>1 DEF TBInit, TakenOK, Taken, CopiesOK, IdleOK, NoRows
<1>5. PerCallOK
  BY <1>2, TBConstants DEF TBInit, PerCallOK, Priced
<1>6. BillsOK
  BY DEF TBInit, BillsOK, Billed
<1> QED
  BY <1>3, <1>4, <1>5, <1>6 DEF TBMoney

\* Every step keeps the amounts right.
LEMMA MoneyNext == TBInv /\ IdleOK /\ TBMoney /\ [TBNext]_tbVars => TBMoney'
<1> SUFFICES ASSUME TBInv, IdleOK, TBMoney, [TBNext]_tbVars PROVE TBMoney'
  OBVIOUS
<1>1. CASE UNCHANGED tbVars
  <2>1. UNCHANGED <<task, stage, fetch, batch, pc, paid, tokenPaid, used, usage, due, faults, late, queries>>
    BY <1>1 DEF tbVars, submitVars, rowVars, pollVars, moneyVars
  <2>2. late' \in [Tasks -> BOOLEAN] /\ queries' \in [Tasks -> 0 .. MaxQueries] /\ CopiesOK'
    BY <2>1 DEF TBMoney, AmountsOK, CopiesOK
  <2> QED
    BY <2>1, <2>2, OutsideMoney
<1>2. ASSUME NEW t \in Tasks,
             \/ PreConsumeBilling(t) \/ SubmitFails(t) \/ InsertTask(t)
             \/ SettleBillingFails(t) \/ HandlerStep(t)
             \/ UpstreamEnds(t) \/ TimesOut(t)
             \/ RealtimeFetch(t) \/ RealtimeUpdate(t)
      PROVE  TBMoney'
  BY <1>2, PreConsumeBillingMoney, SubmitFailsMoney, InsertTaskMoney, SettleBillingFailsMoney,
     SettleBillingMoney, SaveAuditMoney, WorldMoney, RealtimeUpdateMoney DEF HandlerStep
<1>3. ASSUME NEW p \in Pollers, PollerStep(p)
      PROVE  TBMoney'
  BY <1>3, LoopMoney, SweepTaskMoney, FetchTaskMoney, updateVideoSingleTaskMoney, updateSunoTasksMoney,
     SaveSunoMoney, taskAdjustFundingMoney, taskAdjustTokenQuotaMoney DEF PollerStep
<1>4. ASSUME NEW p \in Pollers,
             TaskBulkUpdateByID(p) \/ UpdateFails(p) \/ AdjustmentFails(p) \/ Crash(p)
      PROVE  TBMoney'
  BY <1>4, TaskBulkUpdateByIDMoney, UpdateFailsMoney, AdjustmentFailsMoney, LoopMoney
<1> QED
  BY <1>1, <1>2, <1>3, <1>4 DEF TBNext

\* What each task has paid, and what a poller at work on it still owes it,
\* agree in every reachable state.
THEOREM MoneyInvariant == TBSpec => [](IdleOK /\ TBMoney)
<1>1. TBInv /\ IdleOK /\ [TBNext]_tbVars => IdleOK'
  BY IdleNext
<1> QED
  BY <1>1, MoneyInit, MoneyNext, TBInvariant, PTL DEF TBSpec

\* Every variable keeps its type; AmountUsed of the package stays between
\* zero and AmountTotal, and the usage record of a task is never negative.
THEOREM TBTypeCorrect == TBSpec => []TBTypeOK
<1>1. TBInv /\ TBMoney => TBTypeOK
  BY DEF TBInv, PollersOK, Focus, RowsOK, QueriesOK, OutsideOK, TBMoney, AmountsOK, TBTypeOK, Pending,
     Stages, Early, Fetched
<1> QED
  BY <1>1, TBInvariant, MoneyInvariant, PTL

\* With every write done, a guarded task that ended has cost its wallet and its
\* token exactly what is due: for any number of pollers and sweeps at work on
\* it, in any order with the settlement of its handler, the one adjustment
\* that follows the winning UpdateWithStatus is applied once to each.
THEOREM BillIsFinal == TBSpec => []FinalTaskBill
<1>1. ASSUME TBInv, TBMoney PROVE FinalTaskBill
  <2> SUFFICES ASSUME NEW t \in Tasks, faults = 0, Guarded(t), t \notin OnPackage, Quiet(t)
               PROVE  /\ task[t].status = "SUCCESS" => paid[t] = due[t] /\ tokenPaid[t] = due[t]
                      /\ task[t].status = "FAILURE" /\ task[t].reason # "channel" /\ t \notin Legacy
                            => paid[t] = 0 /\ tokenPaid[t] = 0
    BY DEF FinalTaskBill
  <2>1. Billed(t) /\ stage[t] = "settled" /\ \A p \in Pollers : ~Adjusting(p, t)
    BY DEF Billed, Guarded, Quiet, Adjusting
  <2>2. Bill(t)
    BY <1>1, <2>1 DEF TBMoney, BillsOK
  <2>3. ~Unrefunded(t) => paid[t] = Cost(t) + 0 /\ tokenPaid[t] = Cost(t) + 0
    BY <2>1, <2>2 DEF Bill, Unsettled
  <2>4. due[t] \in Nat
    BY <1>1 DEF TBMoney, AmountsOK
  <2> QED
    BY <2>3, <2>4 DEF Cost, Unrefunded
<1> QED
  BY <1>1, TBInvariant, MoneyInvariant, PTL

\* A task billed per call costs its wallet at most its price at submission:
\* settleTaskBillingOnComplete leaves it alone whatever its result says, and
\* no poller, sweep or realtime query changes the quota of its row.
THEOREM PriceIsFinal == TBSpec => []PerCallPriceIsFinal
<1>1. TBMoney => PerCallPriceIsFinal
  BY DEF TBMoney, PerCallOK, Priced, PerCallPriceIsFinal
<1> QED
  BY <1>1, MoneyInvariant, PTL
=============================================================================
