----------------------- MODULE MidjourneyBillingProofs -----------------------
(***************************************************************************)
(* A Midjourney refund pays each of its legs exactly once, for any number  *)
(* of tasks, loops, charges, faults and stale copies.  The argument: the   *)
(* row's flags only grow, a row once in REFUND_PENDING keeps its status,   *)
(* and what a worker may still do follows from the step it is in.          *)
(***************************************************************************)
EXTENDS MidjourneyBilling, TLAPS

\* A refund of t is under way, or complete with both of its legs marked.
Refunding(t) ==
    /\ row[t].status = "FAILURE"
    /\ \/ row[t].progress = "REFUND_PENDING"
       \/ /\ row[t].progress = "100%" /\ row[t].fundingRefunded
          /\ row[t].tokenRefunded \/ bill[t].token = 0

\* The handler: before the insert there is no row and everything is paid; at
\* the insert it has a copy of the row.
StageOK(t) ==
    /\ stage[t] \in {"new", "sent"} => ~Exists(t) /\ record[t] # "refunded"
    /\ stage[t] = "new" => /\ bill[t] = NoRow /\ record[t] = "none"
                           /\ paid[t] = 0 /\ tokenPaid[t] = 0
    /\ stage[t] # "new" => bill[t] \in Bills
    /\ stage[t] = "sent" =>
          /\ paid[t] = bill[t].funding /\ tokenPaid[t] = bill[t].token
          /\ record[t] = "consumed" <=> (bill[t].source = "subscription" /\ bill[t].funding > 0)
    /\ stage[t] = "inserted" => Exists(t) /\ batch[t][t] # NoRow
    /\ paid[t] >= 0 /\ tokenPaid[t] >= 0

\* Nobody has a copy of a row that does not exist.
BatchOK == \A w \in Workers : \A t \in Tasks : batch[w][t] # NoRow => Exists(t)

\* What the flags of a row say about the balances, and when they may be set.
FundingAgrees(t) ==
    IF bill[t].source = "wallet"
    THEN paid[t] = IF row[t].fundingRefunded THEN 0 ELSE bill[t].funding
    ELSE /\ paid[t] = IF record[t] = "consumed" THEN bill[t].funding ELSE 0
         /\ row[t].fundingRefunded => record[t] # "consumed"
         /\ record[t] = "none" <=> bill[t].funding = 0

TokenAgrees(t) == tokenPaid[t] = IF row[t].tokenRefunded THEN 0 ELSE bill[t].token

FlagsOK(t) ==
    /\ row[t].billingRefunded => row[t].fundingRefunded /\ row[t].tokenRefunded
    /\ row[t].fundingRefunded \/ row[t].tokenRefunded \/ record[t] = "refunded" => Refunding(t)
    /\ row[t].progress = "REFUND_PENDING" => row[t].status = "FAILURE"

EndPaidBack(t) == row[t].status = "FAILURE" /\ row[t].progress = "100%"
                  => paid[t] = 0 /\ tokenPaid[t] = 0

RowOK(t) == Exists(t) => FundingAgrees(t) /\ TokenAgrees(t) /\ FlagsOK(t) /\ EndPaidBack(t)

\* What a worker in CommitMidjourneyTaskUpdate may rely on, step by step.
ArgumentsOK(k) ==
    /\ k.progress \in {"part", "100%"}
    /\ k.refund => k.progress = "100%"
    /\ k.step \in {"read", "cas"} =>
          /\ k.refund => k.status = "FAILURE"
          /\ ~k.refund /\ k.status = "FAILURE" /\ k.progress = "100%" => ~Refundable(k.task)
    /\ k.step = "cas" => k.from \in {"0%", "part"}

RefundOK(k) ==
    /\ k.done => row[k.task].billingRefunded
    /\ k.step \in {"fund", "mark", "token", "complete"} => k.refund /\ Refunding(k.task)
    /\ k.step = "mark" => IF bill[k.task].source = "wallet" THEN bill[k.task].funding = 0
                                                           ELSE record[k.task] # "consumed"
    /\ k.step \in {"token", "complete"} => row[k.task].fundingRefunded
    /\ k.step = "complete" => row[k.task].tokenRefunded \/ bill[k.task].token = 0

\* The handler of a request calls it at its very end.
HandlerOK(w) == w \in Tasks => stage[w] = "done"

WorkOK(w) == work[w] # Idle => ArgumentsOK(work[w]) /\ RefundOK(work[w]) /\ HandlerOK(w)

\* The inductive invariant.
MBInv ==
    /\ MBTypeOK
    /\ BatchOK
    /\ \A t \in Tasks : StageOK(t) /\ RowOK(t)
    /\ \A w \in Workers : WorkOK(w)

-----------------------------------------------------------------------------
\* No step takes a handler back from its end.
StaysDone == \A t \in Tasks : stage[t] = "done" => stage'[t] = "done"

\* What every step does to a row that exists: it stays, its flags only grow, a
\* refund under way goes on, and what was pre-consumed is not changed.
Grows(t) ==
    Exists(t) =>
       /\ Exists(t)' /\ bill'[t] = bill[t]
       /\ row[t].fundingRefunded => row'[t].fundingRefunded
       /\ row[t].tokenRefunded => row'[t].tokenRefunded
       /\ row[t].billingRefunded => row'[t].billingRefunded
       /\ Refunding(t) => Refunding(t)'
       /\ record[t] # "consumed" => record'[t] # "consumed"

\* A row is a Row and its charge a Bill.
LEMMA RowTypes ==
    ASSUME MBTypeOK, NEW t \in Tasks, Exists(t)
    PROVE  row[t] \in Row /\ bill[t] \in Bill
BY MBConstants DEF MBTypeOK, Exists

\* A worker that is busy works on a row that exists.
LEMMA WorkTypes ==
    ASSUME MBTypeOK, NEW w \in Workers, work[w] # Idle
    PROVE  work[w] \in Work /\ work[w].task \in Tasks /\ Exists(work[w].task)
BY DEF MBTypeOK, Work

\* Idle is told apart from every call.
LEMMA IdleIsNoWork == \A k \in Work : k # Idle
BY DEF Work, Steps, Idle

\* Whoever does not move keeps what it relies on.
LEMMA OthersKeep ==
    ASSUME MBInv, NEW v \in Workers, work'[v] = work[v], \A t \in Tasks : Grows(t), StaysDone
    PROVE  WorkOK(v)'
<1> SUFFICES ASSUME work[v] # Idle
             PROVE  ArgumentsOK(work[v])' /\ RefundOK(work[v])' /\ HandlerOK(v)'
  BY DEF WorkOK
<1>1. /\ work[v] \in Work /\ work[v].task \in Tasks /\ Exists(work[v].task)
      /\ ArgumentsOK(work[v]) /\ RefundOK(work[v]) /\ HandlerOK(v)
  BY WorkTypes DEF MBInv, WorkOK
<1>2. ArgumentsOK(work[v])'
  BY <1>1 DEF ArgumentsOK, Grows, Refundable
<1>3. RefundOK(work[v])'
  BY <1>1 DEF RefundOK, Grows
<1>4. HandlerOK(v)'
  BY <1>1 DEF HandlerOK, StaysDone
<1> QED BY <1>2, <1>3, <1>4

\* A step that leaves rows, charges and balances alone grows every row.
LEMMA SameRows ==
    ASSUME MBInv, UNCHANGED <<bill, row, paid, tokenPaid, record>>
    PROVE  \A t \in Tasks : Grows(t) /\ RowOK(t)'
BY DEF MBInv, Grows, RowOK, Exists, FundingAgrees, TokenAgrees, FlagsOK, EndPaidBack, Refunding

LEMMA InitOK == MBInit => MBInv
<1> SUFFICES ASSUME MBInit PROVE MBInv
  OBVIOUS
<1> USE DEF MBInit, NoRows, Exists
<1>1. MBTypeOK
  BY MBConstants DEF MBTypeOK
<1>2. BatchOK
  BY DEF BatchOK
<1>3. ASSUME NEW t \in Tasks PROVE StageOK(t) /\ RowOK(t)
  BY DEF StageOK, RowOK
<1>4. ASSUME NEW w \in Workers PROVE WorkOK(w)
  BY DEF WorkOK
<1> QED BY <1>1, <1>2, <1>3, <1>4 DEF MBInv

-----------------------------------------------------------------------------
(* The handler of a request.                                               *)

LEMMA PrepareKeeps ==
    ASSUME MBInv, NEW t \in Tasks, prepareMidjourneyBilling(t)
    PROVE  MBInv'
<1>0. PICK b \in Bills :
        /\ stage[t] = "new" /\ stage' = [stage EXCEPT ![t] = "sent"]
        /\ bill' = [bill EXCEPT ![t] = b]
        /\ paid' = [paid EXCEPT ![t] = b.funding]
        /\ tokenPaid' = [tokenPaid EXCEPT ![t] = b.token]
        /\ record' = [record EXCEPT ![t] = IF b.source = "subscription" /\ b.funding > 0
                                           THEN "consumed" ELSE @]
        /\ UNCHANGED <<row, up, late, tokenGone, batch, work, faults>>
  BY DEF prepareMidjourneyBilling, worldVars
<1>1. b \in Bill /\ b.funding \in Nat /\ b.token \in Nat
  BY MBConstants DEF Bill
<1>2. ~Exists(t) /\ record[t] = "none"
  BY <1>0 DEF MBInv, StageOK
<1>3. MBTypeOK'
  BY <1>0, <1>1, <1>2 DEF MBInv, MBTypeOK, Exists
<1>4. BatchOK'
  BY <1>0 DEF MBInv, BatchOK, Exists
<1>5. ASSUME NEW x \in Tasks PROVE StageOK(x)' /\ RowOK(x)' /\ Grows(x)
  <2>1. CASE x = t
    BY <1>0, <1>1, <1>2, <2>1 DEF MBInv, MBTypeOK, StageOK, RowOK, Grows, Exists
  <2>2. CASE x # t
    <3>1. UNCHANGED <<stage[x], bill[x], row[x], paid[x], tokenPaid[x], record[x], batch>>
      BY <1>0, <2>2 DEF MBInv, MBTypeOK
    <3> QED BY <3>1 DEF MBInv, StageOK, RowOK, Grows, Exists, FundingAgrees, TokenAgrees,
                        FlagsOK, EndPaidBack, Refunding
  <2> QED BY <2>1, <2>2
<1>6. \A w \in Workers : WorkOK(w)'
  <2>1. StaysDone
    BY <1>0 DEF MBInv, MBTypeOK, StaysDone
  <2> QED BY <1>0, <1>5, <2>1, OthersKeep
<1> QED BY <1>3, <1>4, <1>5, <1>6 DEF MBInv

LEMMA UnsettledKeeps ==
    ASSUME MBInv, NEW t \in Tasks, refundUnsettledMidjourneyBilling(t)
    PROVE  MBInv'
<1>0. /\ stage[t] = "sent" /\ stage' = [stage EXCEPT ![t] = "done"]
      /\ paid' = [paid EXCEPT ![t] = 0]
      /\ tokenPaid' = [tokenPaid EXCEPT ![t] = 0]
      /\ record' = [record EXCEPT ![t] = IF @ = "consumed" THEN "refunded" ELSE @]
      /\ UNCHANGED <<bill, row, up, late, tokenGone, batch, work, faults>>
  BY DEF refundUnsettledMidjourneyBilling, worldVars
<1>2. ~Exists(t) /\ bill[t] \in Bills
  BY <1>0 DEF MBInv, StageOK
<1>3. MBTypeOK'
  BY <1>0, <1>2 DEF MBInv, MBTypeOK, Exists
<1>4. BatchOK'
  BY <1>0 DEF MBInv, BatchOK, Exists
<1>5. ASSUME NEW x \in Tasks PROVE StageOK(x)' /\ RowOK(x)' /\ Grows(x)
  <2>1. CASE x = t
    BY <1>0, <1>2, <2>1 DEF MBInv, MBTypeOK, StageOK, RowOK, Grows, Exists
  <2>2. CASE x # t
    <3>1. UNCHANGED <<stage[x], bill[x], row[x], paid[x], tokenPaid[x], record[x], batch>>
      BY <1>0, <2>2 DEF MBInv, MBTypeOK
    <3> QED BY <3>1 DEF MBInv, StageOK, RowOK, Grows, Exists, FundingAgrees, TokenAgrees,
                        FlagsOK, EndPaidBack, Refunding
  <2> QED BY <2>1, <2>2
<1>6. \A w \in Workers : WorkOK(w)'
  <2>1. StaysDone
    BY <1>0 DEF MBInv, MBTypeOK, StaysDone
  <2> QED BY <1>0, <1>5, <2>1, OthersKeep
<1> QED BY <1>3, <1>4, <1>5, <1>6 DEF MBInv

LEMMA InsertKeeps ==
    ASSUME MBInv, NEW t \in Tasks, Insert(t)
    PROVE  MBInv'
<1>0. PICK r \in NewRows :
        /\ stage[t] = "sent" /\ stage' = [stage EXCEPT ![t] = "inserted"]
        /\ row' = [row EXCEPT ![t] = r]
        /\ batch' = [batch EXCEPT ![t][t] = Copy(r)]
        /\ UNCHANGED <<bill, up, late, tokenGone, work, paid, tokenPaid, record, faults>>
  BY DEF Insert, worldVars, moneyVars
<1>1. /\ r \in Row /\ r.progress # "REFUND_PENDING"
      /\ ~r.fundingRefunded /\ ~r.tokenRefunded /\ ~r.billingRefunded
      /\ ~(r.status = "FAILURE" /\ r.progress = "100%")
  <2>1. ASSUME NEW s \in Statuses, NEW p \in {"0%", "100%"}, NEW i \in BOOLEAN,
               ~(s = "FAILURE" /\ p = "100%"), r = NewRow(s, p, i)
        PROVE  /\ r \in Row /\ r.progress = p /\ r.status = s
               /\ ~r.fundingRefunded /\ ~r.tokenRefunded /\ ~r.billingRefunded
    BY <2>1 DEF NewRow, Row, Progresses
  <2>2. \E s \in Statuses, p \in {"0%", "100%"}, i \in BOOLEAN :
           ~(s = "FAILURE" /\ p = "100%") /\ r = NewRow(s, p, i)
    BY DEF NewRows, Statuses
  <2> QED BY <2>1, <2>2
<1>2. ~Exists(t) /\ bill[t] \in Bills /\ bill[t] \in Bill /\ record[t] # "refunded" /\ bill[t] # NoRow
  BY <1>0, MBConstants DEF MBInv, StageOK
<1>3. r # NoRow /\ Copy(r) \in Copies /\ Copy(r) # NoRow
  BY <1>1, MBConstants DEF Copy, Copies, Row
<1>4. MBTypeOK'
  BY <1>0, <1>1, <1>2, <1>3 DEF MBInv, MBTypeOK, Exists, Workers
<1>5. BatchOK'
  BY <1>0, <1>3 DEF MBInv, MBTypeOK, BatchOK, Exists, Workers
<1>6. ASSUME NEW x \in Tasks PROVE StageOK(x)' /\ RowOK(x)' /\ Grows(x)
  <2>1. CASE x = t
    <3>1. row'[t] = r /\ Exists(t)' /\ batch'[t][t] # NoRow
      BY <1>0, <1>3 DEF MBInv, MBTypeOK, Exists, Workers
    <3>2. StageOK(t)' /\ Grows(t)
      BY <1>0, <1>2, <3>1 DEF MBInv, MBTypeOK, StageOK, Grows
    <3>3. FundingAgrees(t)' /\ TokenAgrees(t)'
      BY <1>0, <1>1, <1>2, <3>1 DEF MBInv, MBTypeOK, StageOK, FundingAgrees, TokenAgrees, Bill
    <3>4. FlagsOK(t)' /\ EndPaidBack(t)'
      BY <1>0, <1>1, <1>2, <3>1 DEF FlagsOK, EndPaidBack, Refunding
    <3> QED BY <2>1, <3>2, <3>3, <3>4 DEF RowOK
  <2>2. CASE x # t
    <3>1. UNCHANGED <<stage[x], bill[x], row[x], paid[x], tokenPaid[x], record[x], batch[x]>>
      BY <1>0, <2>2 DEF MBInv, MBTypeOK, Workers
    <3> QED BY <3>1 DEF MBInv, StageOK, RowOK, Grows, Exists, FundingAgrees, TokenAgrees,
                        FlagsOK, EndPaidBack, Refunding
  <2> QED BY <2>1, <2>2
<1>7. \A w \in Workers : WorkOK(w)'
  <2>1. StaysDone
    BY <1>0 DEF MBInv, MBTypeOK, StaysDone
  <2> QED BY <1>0, <1>6, <2>1, OthersKeep
<1> QED BY <1>4, <1>5, <1>6, <1>7 DEF MBInv

LEMMA RefundableType ==
    ASSUME MBTypeOK, NEW t \in Tasks, Exists(t)
    PROVE  Refundable(t) \in BOOLEAN
BY RowTypes DEF Refundable, Bill

\* A step of worker w that leaves rows and balances alone.
LEMMA WorkerMoves ==
    ASSUME MBInv, NEW w \in Workers, UNCHANGED <<bill, row, paid, tokenPaid, record>>,
           \A v \in Workers : v # w => work'[v] = work[v],
           MBTypeOK', BatchOK', \A t \in Tasks : StageOK(t)', StaysDone,
           work'[w] # Idle /\ work'[w] # work[w] =>
              ArgumentsOK(work[w])' /\ RefundOK(work[w])' /\ HandlerOK(w)'
    PROVE  MBInv'
<1>1. \A t \in Tasks : Grows(t) /\ RowOK(t)'
  BY SameRows
<1>2. \A v \in Workers : work'[v] = work[v] => WorkOK(v)'
  BY <1>1, OthersKeep
<1>3. WorkOK(w)'
  BY <1>2 DEF WorkOK
<1> QED BY <1>1, <1>2, <1>3 DEF MBInv

LEMMA SettleKeeps ==
    ASSUME MBInv, NEW t \in Tasks, Settle(t)
    PROVE  MBInv'
<1>0. /\ stage[t] = "inserted" /\ stage' = [stage EXCEPT ![t] = "done"]
      /\ batch' = [batch EXCEPT ![t][t] = NoRow]
      /\ UNCHANGED <<bill, row, up, late, tokenGone, work, paid, tokenPaid, record, faults>>
  BY DEF Settle, Skip, worldVars, moneyVars
<1>1. MBTypeOK'
  BY <1>0 DEF MBInv, MBTypeOK, Exists, Workers
<1>2. BatchOK'
  BY <1>0 DEF MBInv, MBTypeOK, BatchOK, Exists, Workers
<1>3. \A x \in Tasks : StageOK(x)'
  BY <1>0 DEF MBInv, MBTypeOK, StageOK, Exists, Workers
<1>4. StaysDone
  BY <1>0 DEF MBInv, MBTypeOK, StaysDone
<1> QED BY <1>0, <1>1, <1>2, <1>3, <1>4, WorkerMoves DEF Workers

LEMMA InsertedKeeps ==
    ASSUME MBInv, NEW t \in Tasks, refundInsertedMidjourneyBilling(t)
    PROVE  MBInv'
<1> DEFINE k == Commit(t, batch[t][t].status, "FAILURE", "100%", Refundable(t))
<1>0. /\ stage[t] = "inserted" /\ stage' = [stage EXCEPT ![t] = "done"]
      /\ work' = [work EXCEPT ![t] = k]
      /\ batch' = [batch EXCEPT ![t][t] = NoRow]
      /\ UNCHANGED <<bill, row, up, late, tokenGone, paid, tokenPaid, record, faults>>
  BY DEF refundInsertedMidjourneyBilling, Skip, worldVars, moneyVars
<1>1. Exists(t) /\ batch[t][t] \in Copies
  BY <1>0 DEF MBInv, MBTypeOK, StageOK, Workers
<1>2. batch[t][t].status \in Statuses
  BY <1>1 DEF Copies
<1>3. Refundable(t) \in BOOLEAN
  BY <1>1, RefundableType DEF MBInv
<1>4. k \in Work /\ ArgumentsOK(k) /\ RefundOK(k) /\ k.task = t
  BY <1>1, <1>2, <1>3 DEF Commit, Work, Steps, Statuses, Progresses, ArgumentsOK, RefundOK
<1> HIDE DEF k
<1>5. MBTypeOK'
  BY <1>0, <1>1, <1>4 DEF MBInv, MBTypeOK, Exists, Workers
<1>6. BatchOK'
  BY <1>0 DEF MBInv, MBTypeOK, BatchOK, Exists, Workers
<1>7. \A x \in Tasks : StageOK(x)'
  BY <1>0 DEF MBInv, MBTypeOK, StageOK, Exists, Workers
<1>8. work'[t] = k /\ \A v \in Workers : v # t => work'[v] = work[v]
  BY <1>0 DEF MBInv, MBTypeOK, Workers
<1>9. ArgumentsOK(work[t])' /\ RefundOK(work[t])'
  BY <1>0, <1>4, <1>8 DEF ArgumentsOK, RefundOK, Refundable, Refunding
<1>10. StaysDone /\ HandlerOK(t)'
  BY <1>0 DEF MBInv, MBTypeOK, StaysDone, HandlerOK
<1> QED BY <1>0, <1>5, <1>6, <1>7, <1>8, <1>9, <1>10, WorkerMoves DEF Workers

-----------------------------------------------------------------------------
(* The world outside and the loops.                                        *)

LEMMA WorldKeeps ==
    ASSUME MBInv, NEW t \in Tasks, WorldStep(t)
    PROVE  MBInv'
<1>0. /\ up' \in [Tasks -> {"RUNNING", "SUCCESS", "FAILURE"}]
      /\ late' \in [Tasks -> BOOLEAN] /\ tokenGone' \in [Tasks -> BOOLEAN]
      /\ UNCHANGED <<stage, bill, row, batch, work, paid, tokenPaid, record, faults>>
  <2>1. CASE UpstreamEnds(t)
    BY <2>1 DEF MBInv, MBTypeOK, UpstreamEnds, moneyVars
  <2>2. CASE AnHourPasses(t)
    BY <2>2 DEF MBInv, MBTypeOK, AnHourPasses, moneyVars
  <2>3. CASE DeleteToken(t)
    BY <2>3 DEF MBInv, MBTypeOK, DeleteToken, moneyVars
  <2> QED BY <2>1, <2>2, <2>3 DEF WorldStep
<1>1. MBTypeOK' /\ BatchOK' /\ \A x \in Tasks : StageOK(x)'
  BY <1>0 DEF MBInv, MBTypeOK, BatchOK, StageOK, Exists
<1>2. t \in Workers
  BY DEF Workers
<1> QED BY <1>0, <1>1, <1>2, WorkerMoves DEF StaysDone

LEMMA GetAllKeeps ==
    ASSUME MBInv, NEW p \in Pollers, GetAllUnFinishTasks(p)
    PROVE  MBInv'
<1>0. /\ batch' = [batch EXCEPT ![p] = [t \in Tasks |-> IF Unfinished(t) THEN Copy(row[t])
                                                                        ELSE NoRow]]
      /\ UNCHANGED <<stage, bill, row, up, late, tokenGone, work, paid, tokenPaid, record, faults>>
  BY DEF GetAllUnFinishTasks, worldVars, moneyVars
<1>1. \A t \in Tasks : Unfinished(t) => Exists(t) /\ Copy(row[t]) \in Copies
  BY RowTypes DEF MBInv, Unfinished, Copy, Copies, Row
<1>2. p \in Workers /\ p \notin Tasks
  BY MBConstants DEF Workers
<1>3. batch' \in [Workers -> [Tasks -> Copies \cup {NoRow}]]
  BY <1>0, <1>1 DEF MBInv, MBTypeOK
<1>4. MBTypeOK'
  BY <1>0, <1>3 DEF MBInv, MBTypeOK, Exists
<1>5. \A w \in Workers : w # p => batch'[w] = batch[w]
  BY <1>0 DEF MBInv, MBTypeOK
<1>6. \A t \in Tasks : batch'[p][t] # NoRow => Exists(t)
  BY <1>0, <1>1, <1>2 DEF MBInv, MBTypeOK
<1>7. BatchOK' /\ \A x \in Tasks : StageOK(x)'
  BY <1>0, <1>2, <1>5, <1>6 DEF MBInv, BatchOK, StageOK, Exists, Workers
<1> QED BY <1>0, <1>2, <1>4, <1>7, WorkerMoves DEF StaysDone

\* A loop takes the next row of its batch and calls CommitMidjourneyTaskUpdate.
LEMMA LoopCommits ==
    ASSUME MBInv, NEW p \in Pollers, NEW t \in Tasks, batch[p][t] # NoRow, Skip(p, t),
           UNCHANGED <<stage, bill, row, up, late, tokenGone, paid, tokenPaid, record>>,
           faults' \in 0 .. MaxFaults,
           NEW status \in Statuses, NEW progress \in {"part", "100%"}, NEW fails \in BOOLEAN,
           fails => progress = "100%" /\ status = "FAILURE",
           ~fails => ~(status = "FAILURE" /\ progress = "100%"),
           \/ work' = work
           \/ work' = [work EXCEPT ![p] = Commit(t, batch[p][t].status, status, progress,
                                                 fails /\ Refundable(t))]
    PROVE  MBInv'
<1> DEFINE k == Commit(t, batch[p][t].status, status, progress, fails /\ Refundable(t))
<1>1. p \in Workers /\ p \notin Tasks
  BY MBConstants DEF Workers
<1>2. Exists(t) /\ batch[p][t].status \in Statuses
  BY <1>1 DEF MBInv, MBTypeOK, BatchOK, Copies
<1>3. (fails /\ Refundable(t)) \in BOOLEAN
  OBVIOUS
<1>4. k \in Work /\ ArgumentsOK(k) /\ RefundOK(k) /\ k.task = t
  BY <1>2, <1>3 DEF Commit, Work, Steps, Statuses, Progresses, ArgumentsOK, RefundOK
<1>5. work' = work \/ work' = [work EXCEPT ![p] = k]
  OBVIOUS
<1> HIDE DEF k
<1>6. batch' = [batch EXCEPT ![p][t] = NoRow]
  BY DEF Skip
<1>7. MBTypeOK'
  BY <1>1, <1>2, <1>4, <1>5, <1>6 DEF MBInv, MBTypeOK, Exists
<1>8. BatchOK'
  BY <1>1, <1>6 DEF MBInv, MBTypeOK, BatchOK, Exists
<1>9. \A x \in Tasks : StageOK(x)'
  BY <1>1, <1>6 DEF MBInv, MBTypeOK, StageOK, Exists, Workers
<1>10. /\ work'[p] = work[p] \/ work'[p] = k
       /\ \A v \in Workers : v # p => work'[v] = work[v]
  BY <1>1, <1>5 DEF MBInv, MBTypeOK
<1>11. work'[p] = k => ArgumentsOK(work[p])' /\ RefundOK(work[p])'
  BY <1>4 DEF ArgumentsOK, RefundOK, Refundable, Refunding
<1>12. StaysDone /\ HandlerOK(p)'
  BY <1>1 DEF StaysDone, HandlerOK
<1> QED BY <1>1, <1>7, <1>8, <1>9, <1>10, <1>11, <1>12, WorkerMoves

LEMMA FailTaskKeeps ==
    ASSUME MBInv, NEW p \in Pollers, FailTask(p)
    PROVE  MBInv'
<1>0. PICK t \in Tasks :
        /\ batch[p][t] # NoRow /\ Skip(p, t)
        /\ work' = [work EXCEPT ![p] =
                      Commit(t, batch[p][t].status, "FAILURE", "100%", Refundable(t))]
        /\ UNCHANGED <<stage, bill, row, up, late, tokenGone, paid, tokenPaid, record, faults>>
  BY DEF FailTask, Pending, worldVars, moneyVars
<1>1. Exists(t) /\ faults' \in 0 .. MaxFaults
  BY <1>0 DEF MBInv, MBTypeOK, BatchOK, Workers
<1>2. Refundable(t) = (TRUE /\ Refundable(t))
  BY <1>1, RefundableType DEF MBInv
<1>3. work' = [work EXCEPT ![p] =
                 Commit(t, batch[p][t].status, "FAILURE", "100%", TRUE /\ Refundable(t))]
  BY <1>0, <1>2
<1> QED BY <1>0, <1>1, <1>3, LoopCommits DEF Statuses

LEMMA UpdateTaskKeeps ==
    ASSUME MBInv, NEW p \in Pollers, UpdateTask(p)
    PROVE  MBInv'
<1>0. PICK t \in Tasks :
        /\ batch[p][t] # NoRow /\ Skip(p, t)
        /\ \E b \in Answers(t) :
               LET a == Judged(t, b)
                   fails == Failed(a)
               IN  work' = IF checkMjTaskNeedUpdate(batch[p][t], a)
                           THEN [work EXCEPT ![p] =
                                   Commit(t, batch[p][t].status, a.status,
                                          IF fails THEN "100%" ELSE a.progress,
                                          fails /\ Refundable(t))]
                           ELSE work
        /\ UNCHANGED <<stage, bill, row, up, late, tokenGone, paid, tokenPaid, record, faults>>
  BY DEF UpdateTask, Pending, worldVars, moneyVars
<1>1. PICK b \in Answers(t) :
               LET a == Judged(t, b)
                   fails == Failed(a)
               IN  work' = IF checkMjTaskNeedUpdate(batch[p][t], a)
                           THEN [work EXCEPT ![p] =
                                   Commit(t, batch[p][t].status, a.status,
                                          IF fails THEN "100%" ELSE a.progress,
                                          fails /\ Refundable(t))]
                           ELSE work
  BY <1>0
<1> DEFINE a == Judged(t, b)
           progress == IF Failed(a) THEN "100%" ELSE a.progress
<1>2. /\ b \in [status : Statuses, progress : {"part", "100%"}, reason : BOOLEAN]
      /\ b.reason => b.status = "FAILURE"
  <2>1. up[t] \in {"RUNNING", "SUCCESS", "FAILURE"}
    BY DEF MBInv, MBTypeOK
  <2>2. \E x \in Statuses, y \in {"part", "100%"}, z \in BOOLEAN :
           b = [status |-> x, progress |-> y, reason |-> z] /\ (z => x = "FAILURE")
    <3>1. CASE up[t] = "RUNNING"
      BY <3>1, Zenon DEF Answers, Statuses
    <3>2. CASE up[t] = "SUCCESS"
      BY <3>2, Zenon DEF Answers, Statuses
    <3>3. CASE up[t] = "FAILURE"
      BY <3>3, Zenon DEF Answers, Statuses
    <3> QED BY <2>1, <3>1, <3>2, <3>3
  <2> QED BY <2>2
<1>3. /\ a.status \in Statuses /\ a.progress \in {"part", "100%"} /\ a.reason \in BOOLEAN
      /\ a.reason => a.status = "FAILURE"
  BY <1>2 DEF Judged, Statuses
<1>4. Failed(a) \in BOOLEAN /\ (Failed(a) => a.status = "FAILURE")
      /\ (~Failed(a) => ~(a.status = "FAILURE" /\ a.progress = "100%"))
  BY <1>3 DEF Failed
<1>5. /\ progress \in {"part", "100%"}
      /\ Failed(a) => progress = "100%" /\ a.status = "FAILURE"
      /\ ~Failed(a) => ~(a.status = "FAILURE" /\ progress = "100%")
  BY <1>3, <1>4
<1>6. \/ work' = work
      \/ work' = [work EXCEPT ![p] = Commit(t, batch[p][t].status, a.status, progress,
                                            Failed(a) /\ Refundable(t))]
  BY <1>1
<1>7. /\ batch[p][t] # NoRow /\ Skip(p, t) /\ faults' \in 0 .. MaxFaults
      /\ UNCHANGED <<stage, bill, row, up, late, tokenGone, paid, tokenPaid, record>>
  BY <1>0 DEF MBInv, MBTypeOK
<1> HIDE DEF a, progress
<1>8. ASSUME NEW fails \in BOOLEAN, fails = Failed(a),
             NEW status \in Statuses, status = a.status,
             NEW shown \in {"part", "100%"}, shown = progress
      PROVE  MBInv'
  <2>1. /\ fails => shown = "100%" /\ status = "FAILURE"
        /\ ~fails => ~(status = "FAILURE" /\ shown = "100%")
    BY <1>5, <1>8
  <2>2. (fails /\ Refundable(t)) = (Failed(a) /\ Refundable(t))
    BY <1>8
  <2>3. \/ work' = work
        \/ work' = [work EXCEPT ![p] = Commit(t, batch[p][t].status, status, shown,
                                              fails /\ Refundable(t))]
    BY <1>6, <1>8, <2>2
  <2> QED BY <1>7, <2>1, <2>3, LoopCommits
<1> QED BY <1>3, <1>4, <1>5, <1>8

LEMMA FetchFailsKeeps ==
    ASSUME MBInv, NEW p \in Pollers, FetchFails(p)
    PROVE  MBInv'
<1>0. PICK t \in Tasks :
        /\ batch[p][t] # NoRow /\ Skip(p, t) /\ Fault /\ work' = work
        /\ UNCHANGED <<stage, bill, row, up, late, tokenGone, paid, tokenPaid, record>>
  BY DEF FetchFails, Pending, worldVars, moneyVars
<1>1. faults' \in 0 .. MaxFaults
  BY <1>0, MBConstants DEF MBInv, MBTypeOK, Fault
<1> QED BY <1>0, <1>1, LoopCommits DEF Statuses

-----------------------------------------------------------------------------
(* CommitMidjourneyTaskUpdate.                                             *)

\* Worker w moves on within the call for task t, which alone is written: the
\* invariant follows from what the step does to that row and to w.
LEMMA CommitMoves ==
    ASSUME MBInv, NEW w \in Workers, NEW t \in Tasks, Exists(t),
           NEW k \in Work \cup {Idle}, work' = [work EXCEPT ![w] = k],
           UNCHANGED <<stage, bill, up, late, tokenGone, batch, faults>>,
           row' \in [Tasks -> Row \cup {NoRow}], row'[t] # NoRow,
           paid' \in [Tasks -> Int], tokenPaid' \in [Tasks -> Int],
           record' \in [Tasks -> {"none", "consumed", "refunded"}],
           \A x \in Tasks : x # t => UNCHANGED <<row[x], paid[x], tokenPaid[x], record[x]>>,
           paid'[t] >= 0, tokenPaid'[t] >= 0,
           Grows(t), RowOK(t)',
           k # Idle => work[w] # Idle /\ k.task = t /\ ArgumentsOK(k)' /\ RefundOK(k)'
    PROVE  MBInv'
<1>1. /\ work'[w] = k /\ \A v \in Workers : v # w => work'[v] = work[v]
      /\ work' \in [Workers -> Work \cup {Idle}]
  BY DEF MBInv, MBTypeOK
<1>2. \A x \in Tasks : Exists(x) <=> Exists(x)'
  BY DEF Exists
<1>3. MBTypeOK'
  <2>1. ASSUME NEW v \in Workers, work'[v] # Idle PROVE Exists(work[v].task)'
    BY <1>1, <1>2, <2>1, WorkTypes DEF MBInv
  <2>2. \A x \in Tasks : Exists(x)' => bill'[x] # NoRow
    BY <1>2 DEF MBInv, MBTypeOK
  <2> QED BY <1>1, <2>1, <2>2 DEF MBInv, MBTypeOK
<1>4. BatchOK'
  BY <1>2 DEF MBInv, BatchOK
<1>5. ASSUME NEW x \in Tasks PROVE StageOK(x)' /\ RowOK(x)' /\ Grows(x)
  <2>1. CASE x = t
    BY <1>2, <2>1 DEF MBInv, StageOK
  <2>2. CASE x # t
    BY <2>2 DEF MBInv, StageOK, RowOK, Grows, Exists, FundingAgrees, TokenAgrees,
                FlagsOK, EndPaidBack, Refunding
  <2> QED BY <2>1, <2>2
<1>6. \A v \in Workers : v # w => WorkOK(v)'
  BY <1>1, <1>5, OthersKeep DEF StaysDone
<1>7. WorkOK(w)'
  BY <1>1 DEF MBInv, WorkOK, HandlerOK
<1> QED BY <1>3, <1>4, <1>5, <1>6, <1>7 DEF MBInv

\* What a busy worker, its task and its row are.
LEMMA BusyFacts ==
    ASSUME MBInv, NEW w \in Workers, NEW step, Busy(w, step)
    PROVE  /\ work[w] # Idle /\ work[w] \in Work /\ work[w].step = step
           /\ work[w].task \in Tasks
           /\ Exists(work[w].task)
           /\ row[work[w].task] \in Row /\ bill[work[w].task] \in Bill
           /\ ArgumentsOK(work[w]) /\ RefundOK(work[w])
           /\ StageOK(work[w].task)
           /\ FundingAgrees(work[w].task) /\ TokenAgrees(work[w].task)
           /\ FlagsOK(work[w].task) /\ EndPaidBack(work[w].task)
<1>1. work[w] \in Work /\ work[w].step = step /\ work[w].task \in Tasks /\ Exists(work[w].task)
  BY WorkTypes DEF MBInv, Busy
<1>2. row[work[w].task] \in Row /\ bill[work[w].task] \in Bill
  BY <1>1, RowTypes DEF MBInv
<1> QED BY <1>1, <1>2 DEF MBInv, Busy, WorkOK, RowOK

\* The steps that leave rows and balances alone: reading, returning, and going on.
LEMMA CommitOnlyWork ==
    ASSUME MBInv, NEW w \in Workers, NEW t \in Tasks, Exists(t),
           NEW k \in Work \cup {Idle}, work' = [work EXCEPT ![w] = k],
           UNCHANGED <<stage, bill, row, up, late, tokenGone, batch, paid, tokenPaid, record,
                       faults>>,
           k # Idle => work[w] # Idle /\ k.task = t /\ ArgumentsOK(k) /\ RefundOK(k)
    PROVE  MBInv'
<1>1. Grows(t) /\ RowOK(t)'
  BY SameRows
<1>2. k # Idle => work[w] # Idle /\ k.task = t /\ ArgumentsOK(k)' /\ RefundOK(k)'
  BY DEF ArgumentsOK, RefundOK, Refundable, Refunding
<1>3. /\ row' \in [Tasks -> Row \cup {NoRow}] /\ row'[t] # NoRow
      /\ paid' \in [Tasks -> Int] /\ tokenPaid' \in [Tasks -> Int]
      /\ record' \in [Tasks -> {"none", "consumed", "refunded"}]
      /\ paid'[t] >= 0 /\ tokenPaid'[t] >= 0
  BY DEF MBInv, MBTypeOK, StageOK, Exists
<1> QED BY <1>1, <1>2, <1>3, CommitMoves

LEMMA CommitReadKeeps ==
    ASSUME MBInv, NEW w \in Workers, CommitRead(w)
    PROVE  MBInv'
<1> DEFINE t == work[w].task
           r == row[t]
<1>0. /\ Busy(w, "read")
      /\ UNCHANGED <<stage, bill, row, up, late, tokenGone, batch, paid, tokenPaid, record, faults>>
  BY DEF CommitRead, worldVars, moneyVars
<1>1. /\ work[w] # Idle /\ work[w] \in Work /\ work[w].step = "read" /\ t \in Tasks /\ Exists(t) /\ r \in Row
      /\ ArgumentsOK(work[w]) /\ FlagsOK(t)
  BY <1>0, BusyFacts
<1>2. CASE r.progress = "REFUND_PENDING"
  <2> DEFINE k == Refund(w, "100%", r.billingRefunded)
  <2>1. work' = [work EXCEPT ![w] = k]
    BY <1>2 DEF CommitRead
  <2>2. k \in Work /\ k.task = t
    BY <1>1 DEF Refund, Commit, Work, Steps, Statuses, Progresses, Row
  <2>3. ArgumentsOK(k) /\ RefundOK(k)
    BY <1>1, <1>2 DEF Refund, Commit, ArgumentsOK, RefundOK, FlagsOK, Refunding
  <2> HIDE DEF k
  <2> QED BY <1>0, <1>1, <2>1, <2>2, <2>3, CommitOnlyWork
<1>3. CASE work' = [work EXCEPT ![w] = Idle]
  BY <1>0, <1>1, <1>3, CommitOnlyWork
<1>4. CASE /\ r.progress \notin {"REFUND_PENDING", "100%"}
           /\ work' = [work EXCEPT ![w].step = "cas", ![w].from = r.progress,
                                   ![w].done = r.billingRefunded]
  <2> DEFINE k == [work[w] EXCEPT !.step = "cas", !.from = r.progress, !.done = r.billingRefunded]
  <2>1. work' = [work EXCEPT ![w] = k]
    BY <1>1, <1>4 DEF MBInv, MBTypeOK
  <2>2. k \in Work /\ k.task = t
    BY <1>1 DEF Work, Steps, Row
  <2>3. ArgumentsOK(k) /\ RefundOK(k)
    BY <1>1, <1>4 DEF Work, ArgumentsOK, RefundOK, Row, Progresses
  <2> HIDE DEF k
  <2> QED BY <1>0, <1>1, <2>1, <2>2, <2>3, CommitOnlyWork
<1> QED BY <1>2, <1>3, <1>4 DEF CommitRead, Return

LEMMA CommitFailsKeeps ==
    ASSUME MBInv, NEW w \in Workers, CommitFails(w)
    PROVE  MBInv'
<1>0. /\ work' = [work EXCEPT ![w] = Idle] /\ faults' \in 0 .. MaxFaults
      /\ UNCHANGED <<stage, bill, row, up, late, tokenGone, batch, paid, tokenPaid, record>>
  BY MBConstants DEF CommitFails, Fault, Return, worldVars, moneyVars, MBInv, MBTypeOK
<1>1. work'[w] = Idle /\ \A v \in Workers : v # w => work'[v] = work[v]
  BY <1>0 DEF MBInv, MBTypeOK
<1>2. MBTypeOK' /\ BatchOK' /\ \A x \in Tasks : StageOK(x)'
  BY <1>0 DEF MBInv, MBTypeOK, BatchOK, StageOK, Exists
<1> QED BY <1>0, <1>1, <1>2, WorkerMoves DEF StaysDone

LEMMA CrashKeeps ==
    ASSUME MBInv, NEW w \in Workers, Crash(w)
    PROVE  MBInv'
<1>0. /\ work' = [work EXCEPT ![w] = Idle] /\ faults' \in 0 .. MaxFaults
      /\ batch' = [batch EXCEPT ![w] = NoRows]
      /\ UNCHANGED <<bill, row, up, late, tokenGone, paid, tokenPaid, record>>
  BY MBConstants DEF Crash, Fault, Return, worldVars, moneyVars, MBInv, MBTypeOK
<1>1. work'[w] = Idle /\ \A v \in Workers : v # w => work'[v] = work[v]
  BY <1>0 DEF MBInv, MBTypeOK
<1>2. \/ w \notin Tasks /\ stage' = stage
      \/ w \in Tasks /\ stage[w] # "new" /\ stage' = [stage EXCEPT ![w] = "done"]
  BY MBConstants DEF Crash, MBInv, WorkOK, HandlerOK
<1>3. batch' \in [Workers -> [Tasks -> Copies \cup {NoRow}]]
  BY <1>0 DEF MBInv, MBTypeOK, NoRows
<1>4. \A v \in Workers : batch'[v] = batch[v] \/ (v = w /\ batch'[v] = NoRows)
  BY <1>0 DEF MBInv, MBTypeOK
<1>5. stage' \in [Tasks -> {"new", "sent", "inserted", "done"}]
  BY <1>2 DEF MBInv, MBTypeOK
<1>6. MBTypeOK'
  BY <1>0, <1>1, <1>3, <1>5 DEF MBInv, MBTypeOK, Exists
<1>7. BatchOK'
  BY <1>0, <1>4 DEF MBInv, BatchOK, Exists, NoRows
<1>8. StaysDone /\ \A x \in Tasks : x # w => stage'[x] = stage[x] /\ batch'[x] = batch[x]
  BY <1>2, <1>4 DEF StaysDone, MBInv, MBTypeOK, Workers
<1>9. ASSUME NEW x \in Tasks PROVE StageOK(x)'
  <2>1. CASE x = w
    BY <1>0, <1>2, <2>1 DEF MBInv, MBTypeOK, StageOK, Exists
  <2>2. CASE x # w
    BY <1>0, <1>8, <2>2 DEF MBInv, StageOK, Exists
  <2> QED BY <2>1, <2>2
<1> QED BY <1>0, <1>1, <1>6, <1>7, <1>8, <1>9, WorkerMoves

LEMMA UpdateKeeps ==
    ASSUME MBInv, NEW w \in Workers, UpdateWithStatusAndProgress(w)
    PROVE  MBInv'
<1>0. /\ Busy(w, "cas")
      /\ UNCHANGED <<stage, bill, up, late, tokenGone, batch, paid, tokenPaid, record, faults>>
  BY DEF UpdateWithStatusAndProgress, worldVars, moneyVars
<1>a. PICK t \in Tasks : t = work[w].task
  BY <1>0, BusyFacts
<1>1. /\ work[w] # Idle /\ work[w] \in Work /\ work[w].step = "cas" /\ t \in Tasks /\ Exists(t)
      /\ row[t] \in Row /\ bill[t] \in Bill
      /\ ArgumentsOK(work[w]) /\ RefundOK(work[w]) /\ StageOK(t)
      /\ FundingAgrees(t) /\ TokenAgrees(t) /\ FlagsOK(t) /\ EndPaidBack(t)
  BY <1>0, <1>a, BusyFacts
<1>2. CASE ~Matches(w)
  <2>1. row' = row /\ work' = [work EXCEPT ![w] = Idle]
    BY <1>2 DEF UpdateWithStatusAndProgress, Return
  <2> QED BY <1>0, <1>1, <2>1, CommitOnlyWork
<1>3. CASE Matches(w)
  <2>1. PICK r : r = Written(w, row[t])
    OBVIOUS
  <2>2. row[t].progress \in {"0%", "part"}
    BY <1>a, <1>1, <1>3 DEF ArgumentsOK, Matches
  <2>3. ~row[t].fundingRefunded /\ ~row[t].tokenRefunded /\ ~row[t].billingRefunded
        /\ record[t] # "refunded"
    BY <1>1, <2>2 DEF FlagsOK, Refunding
  <2>4. /\ r \in Row /\ r.status = work[w].status
        /\ r.progress = IF work[w].refund THEN "REFUND_PENDING" ELSE work[w].progress
        /\ r.fundingRefunded = row[t].fundingRefunded /\ r.tokenRefunded = row[t].tokenRefunded
        /\ r.billingRefunded = row[t].billingRefunded
    BY <1>1, <2>1 DEF Written, Row, Work, Progresses
  <2>5. /\ row'[t] = r /\ row' \in [Tasks -> Row \cup {NoRow}] /\ row'[t] # NoRow
        /\ \A x \in Tasks : x # t => row'[x] = row[x]
    <3>1. row' = [row EXCEPT ![t] = r]
      BY <1>a, <1>3, <2>1 DEF UpdateWithStatusAndProgress
    <3> QED BY <2>4, <3>1, MBConstants DEF MBInv, MBTypeOK
  <2>6. PICK k \in Work \cup {Idle} :
           /\ work' = [work EXCEPT ![w] = k]
           /\ k # Idle => /\ work[w].refund /\ k.task = t /\ k.step = "fund"
                          /\ k.refund /\ k.progress = work[w].progress /\ k.done = work[w].done
    <3>1. CASE work[w].refund
      <4> DEFINE c == Refund(w, work[w].progress, work[w].done)
      <4>1. work' = [work EXCEPT ![w] = c]
        BY <1>3, <3>1 DEF UpdateWithStatusAndProgress
      <4>2. /\ c \in Work /\ c.task = t /\ c.step = "fund"
            /\ c.refund /\ c.progress = work[w].progress /\ c.done = work[w].done
        <5>1. work[w].done \in BOOLEAN /\ work[w].progress \in Progresses
          BY <1>1 DEF Work
        <5> QED BY <1>a, <5>1 DEF Refund, Commit, Work, Steps, Statuses, Progresses
      <4> HIDE DEF c
      <4> QED BY <3>1, <4>1, <4>2
    <3>2. CASE ~work[w].refund
      BY <1>3, <3>2 DEF UpdateWithStatusAndProgress, Return
    <3> QED BY <3>1, <3>2
  <2>8. Grows(t)
    BY <1>0, <1>1, <2>2, <2>3, <2>5 DEF Grows, Refunding, Exists
  <2>9. FlagsOK(t)'
    BY <1>0, <1>1, <2>3, <2>4, <2>5 DEF FlagsOK, ArgumentsOK
  <2>10. FundingAgrees(t)' /\ TokenAgrees(t)'
    BY <1>0, <1>1, <2>4, <2>5 DEF FundingAgrees, TokenAgrees
  <2>11. EndPaidBack(t)'
    <3> SUFFICES ASSUME r.status = "FAILURE", r.progress = "100%"
                 PROVE  paid[t] = 0 /\ tokenPaid[t] = 0
      BY <1>0, <2>5 DEF EndPaidBack
    <3>1. ~Refundable(t)
      BY <1>a, <1>1, <2>4 DEF ArgumentsOK
    <3>2. bill[t].funding = 0 /\ bill[t].token = 0
      BY <1>1, <3>1 DEF Refundable, Bill
    <3> QED BY <1>1, <3>2 DEF FundingAgrees, TokenAgrees
  <2>12. RowOK(t)'
    BY <2>9, <2>10, <2>11 DEF RowOK
  <2>13. k # Idle => work[w] # Idle /\ k.task = t /\ ArgumentsOK(k)' /\ RefundOK(k)'
    BY <1>0, <1>a, <1>1, <2>4, <2>5, <2>6 DEF ArgumentsOK, RefundOK, Refunding
  <2>14. /\ paid' \in [Tasks -> Int] /\ tokenPaid' \in [Tasks -> Int]
         /\ record' \in [Tasks -> {"none", "consumed", "refunded"}]
         /\ paid'[t] >= 0 /\ tokenPaid'[t] >= 0
    BY <1>0, <1>1 DEF MBInv, MBTypeOK, StageOK
  <2> QED BY <1>0, <1>1, <2>5, <2>6, <2>8, <2>12, <2>13, <2>14, CommitMoves
<1> QED BY <1>2, <1>3

\* completeMidjourneyFundingContext sets flags only.
LEMMA FundingDoneFacts ==
    ASSUME MBInv, NEW t \in Tasks, Exists(t)
    PROVE  LET r == FundingDone(t, row[t])
           IN  /\ r \in Row /\ r.status = row[t].status /\ r.progress = row[t].progress
               /\ r.fundingRefunded
               /\ r.tokenRefunded = (row[t].tokenRefunded \/ bill[t].token = 0)
               /\ r.billingRefunded = (row[t].billingRefunded \/ bill[t].token = 0)
<1>1. row[t] \in Row
  BY RowTypes DEF MBInv
<1> QED BY <1>1 DEF FundingDone, Row

\* The funding leg is marked in the row, when it is paid back or nothing was due.
LEMMA FundingMarked ==
    ASSUME MBInv, NEW w \in Workers, NEW step, Busy(w, step), step \in {"fund", "mark"},
           NEW t \in Tasks, t = work[w].task, ~row[t].fundingRefunded,
           row' = [row EXCEPT ![t] = FundingDone(t, @)],
           work' = [work EXCEPT ![w].step = "token"],
           UNCHANGED <<stage, bill, up, late, tokenGone, batch, tokenPaid, record, faults>>,
           paid' \in [Tasks -> Int], \A x \in Tasks : x # t => paid'[x] = paid[x],
           paid'[t] = 0,
           bill[t].source # "wallet" => record[t] # "consumed"
    PROVE  MBInv'
<1>r. PICK r : r = FundingDone(t, row[t])
  OBVIOUS
<1>k. PICK k : k = [work[w] EXCEPT !.step = "token"]
  OBVIOUS
<1>1. /\ work[w] # Idle /\ work[w] \in Work /\ work[w].step = step /\ Exists(t)
      /\ row[t] \in Row /\ bill[t] \in Bill
      /\ ArgumentsOK(work[w]) /\ RefundOK(work[w]) /\ StageOK(t)
      /\ FundingAgrees(t) /\ TokenAgrees(t) /\ FlagsOK(t) /\ EndPaidBack(t)
  BY BusyFacts
<1>2. /\ r \in Row /\ r.status = row[t].status /\ r.progress = row[t].progress
      /\ r.fundingRefunded
      /\ r.tokenRefunded = (row[t].tokenRefunded \/ bill[t].token = 0)
      /\ r.billingRefunded = (row[t].billingRefunded \/ bill[t].token = 0)
  BY <1>r, <1>1, FundingDoneFacts
<1>3. /\ row'[t] = r /\ row' \in [Tasks -> Row \cup {NoRow}] /\ row'[t] # NoRow
      /\ \A x \in Tasks : x # t => row'[x] = row[x]
  BY <1>r, <1>1, <1>2, MBConstants DEF MBInv, MBTypeOK
<1>4. work' = [work EXCEPT ![w] = k]
  BY <1>k, <1>1 DEF MBInv, MBTypeOK
<1>5. /\ k \in Work /\ k.step = "token" /\ k.task = t /\ k.progress = work[w].progress
      /\ k.refund = work[w].refund /\ k.done = work[w].done
  BY <1>k, <1>1 DEF Work, Steps
<1>6. Grows(t)
  BY <1>1, <1>2, <1>3 DEF Grows, Refunding, Exists
<1>7. FundingAgrees(t)' /\ TokenAgrees(t)'
  BY <1>1, <1>2, <1>3 DEF FundingAgrees, TokenAgrees, Bill
<1>8. FlagsOK(t)' /\ EndPaidBack(t)'
  BY <1>1, <1>2, <1>3 DEF FlagsOK, EndPaidBack, RefundOK, Refunding
<1>9. ArgumentsOK(k)' /\ RefundOK(k)'
  <2>1. ArgumentsOK(k)'
    BY <1>1, <1>5 DEF ArgumentsOK
  <2>2. /\ k.refund /\ Refunding(t)' /\ row'[t].fundingRefunded
        /\ k.done => row'[t].billingRefunded
    <3>1. work[w].refund /\ Refunding(t) /\ (work[w].done => row[t].billingRefunded)
      BY <1>1 DEF RefundOK
    <3>2. work[w].refund \in BOOLEAN /\ work[w].done \in BOOLEAN
      BY <1>1 DEF Work
    <3>3. Refunding(t)'
      BY <1>2, <1>3, <3>1 DEF Refunding
    <3> QED BY <1>2, <1>3, <1>5, <3>1, <3>2, <3>3
  <2> QED BY <1>5, <2>1, <2>2 DEF RefundOK
<1>10. /\ tokenPaid' \in [Tasks -> Int]
       /\ record' \in [Tasks -> {"none", "consumed", "refunded"}]
       /\ paid'[t] >= 0 /\ tokenPaid'[t] >= 0
  BY <1>1 DEF MBInv, MBTypeOK, StageOK
<1> QED BY <1>1, <1>3, <1>4, <1>5, <1>6, <1>7, <1>8, <1>9, <1>10, CommitMoves DEF RowOK

\* A worker moves to another step of the refund of its row, which is not written.
LEMMA GoesOn ==
    ASSUME MBInv, NEW w \in Workers, NEW step, Busy(w, step),
           NEW to \in {"mark", "token", "complete"}, Goto(w, to),
           UNCHANGED <<stage, bill, row, up, late, tokenGone, batch, paid, tokenPaid, record,
                       faults>>,
           NEW t \in Tasks, t = work[w].task,
           step \in {"fund", "mark", "token", "complete"},
           to = "mark" => IF bill[t].source = "wallet" THEN bill[t].funding = 0
                                                       ELSE record[t] # "consumed",
           to \in {"token", "complete"} => row[t].fundingRefunded,
           to = "complete" => row[t].tokenRefunded \/ bill[t].token = 0
    PROVE  MBInv'
<1>1. /\ work[w] # Idle /\ work[w] \in Work /\ work[w].step = step /\ Exists(t)
      /\ ArgumentsOK(work[w]) /\ RefundOK(work[w])
  BY BusyFacts
<1>k. PICK k : k = [work[w] EXCEPT !.step = to]
  OBVIOUS
<1>2. work' = [work EXCEPT ![w] = k]
  BY <1>k, <1>1 DEF Goto, MBInv, MBTypeOK
<1>3. /\ k \in Work /\ k.step = to /\ k.task = t /\ k.progress = work[w].progress
      /\ k.refund = work[w].refund /\ k.done = work[w].done
  BY <1>k, <1>1 DEF Work, Steps
<1>4. ArgumentsOK(k)
  BY <1>1, <1>3 DEF ArgumentsOK
<1>5. RefundOK(k)
  <2>1. work[w].refund /\ Refunding(t) /\ (work[w].done => row[t].billingRefunded)
    BY <1>1 DEF RefundOK
  <2>2. work[w].refund \in BOOLEAN /\ work[w].done \in BOOLEAN
    BY <1>1 DEF Work
  <2> QED BY <1>3, <2>1, <2>2 DEF RefundOK
<1> QED BY <1>1, <1>2, <1>3, <1>4, <1>5, CommitOnlyWork

LEMMA FundingKeeps ==
    ASSUME MBInv, NEW w \in Workers, refundMidjourneyFunding(w)
    PROVE  MBInv'
<1>0. /\ Busy(w, "fund")
      /\ UNCHANGED <<stage, bill, up, late, tokenGone, batch, faults>>
  BY DEF refundMidjourneyFunding, worldVars
<1>a. PICK t \in Tasks : t = work[w].task
  BY <1>0, BusyFacts
<1>1. /\ work[w] # Idle /\ work[w] \in Work /\ work[w].step = "fund" /\ Exists(t)
      /\ row[t] \in Row /\ bill[t] \in Bill
      /\ ArgumentsOK(work[w]) /\ RefundOK(work[w]) /\ StageOK(t)
      /\ FundingAgrees(t) /\ TokenAgrees(t) /\ FlagsOK(t) /\ EndPaidBack(t)
  BY <1>0, <1>a, BusyFacts
<1>2. CASE work[w].done
  <2>1. Goto(w, "complete") /\ UNCHANGED <<row, paid, tokenPaid, record>>
    BY <1>2 DEF refundMidjourneyFunding, moneyVars
  <2>2. row[t].fundingRefunded /\ row[t].tokenRefunded
    BY <1>a, <1>1, <1>2 DEF RefundOK, FlagsOK
  <2> QED BY <1>0, <1>a, <2>1, <2>2, GoesOn
<1>3. CASE ~work[w].done /\ bill[t].funding = 0
  <2>1. Goto(w, "mark") /\ UNCHANGED <<row, paid, tokenPaid, record>>
    BY <1>a, <1>3 DEF refundMidjourneyFunding, moneyVars
  <2>2. CASE bill[t].source = "wallet"
    BY <1>0, <1>a, <1>3, <2>1, <2>2, GoesOn
  <2>3. CASE bill[t].source # "wallet" /\ record[t] # "consumed"
    BY <1>0, <1>a, <1>3, <2>1, <2>3, GoesOn
  <2>4. CASE bill[t].source # "wallet" /\ record[t] = "consumed"
    BY <1>1, <1>3, <2>4 DEF FundingAgrees
  <2> QED BY <2>2, <2>3, <2>4
<1>4. CASE ~work[w].done /\ bill[t].funding # 0 /\ bill[t].source = "subscription"
  <2>1. RefundSubscriptionPreConsume(t) /\ Goto(w, "mark") /\ UNCHANGED <<row, tokenPaid>>
    BY <1>a, <1>4 DEF refundMidjourneyFunding
  <2>2. CASE record[t] # "consumed"
    <3>1. UNCHANGED <<record, paid>>
      BY <2>1, <2>2 DEF RefundSubscriptionPreConsume
    <3> QED BY <1>0, <1>a, <1>4, <2>1, <2>2, <3>1, GoesOn
  <2>3. CASE record[t] = "consumed"
    <3>1. /\ record' = [record EXCEPT ![t] = "refunded"]
          /\ paid' = [paid EXCEPT ![t] = @ - bill[t].funding]
      BY <2>1, <2>3 DEF RefundSubscriptionPreConsume
    <3>2. paid[t] = bill[t].funding /\ bill[t].funding \in Nat
      BY <1>1, <1>4, <2>3 DEF FundingAgrees, Bill
    <3>3. /\ paid' \in [Tasks -> Int] /\ paid'[t] = 0 /\ record'[t] = "refunded"
          /\ record' \in [Tasks -> {"none", "consumed", "refunded"}]
          /\ \A x \in Tasks : x # t => UNCHANGED <<row[x], paid[x], tokenPaid[x], record[x]>>
          /\ row' \in [Tasks -> Row \cup {NoRow}] /\ row'[t] # NoRow
          /\ tokenPaid' \in [Tasks -> Int] /\ tokenPaid'[t] >= 0
      BY <1>1, <2>1, <3>1, <3>2 DEF MBInv, MBTypeOK, StageOK, Exists
    <3>k. PICK k : k = [work[w] EXCEPT !.step = "mark"]
      OBVIOUS
    <3>4. work' = [work EXCEPT ![w] = k]
      BY <3>k, <1>1, <2>1 DEF Goto, MBInv, MBTypeOK
    <3>5. /\ k \in Work /\ k.step = "mark" /\ k.task = t /\ k.progress = work[w].progress
          /\ k.refund = work[w].refund /\ k.done = work[w].done
      BY <3>k, <1>a, <1>1 DEF Work, Steps
    <3>6. work[w].refund /\ Refunding(t) /\ ~work[w].done
      BY <1>a, <1>1, <1>4 DEF RefundOK
    <3>7. work[w].refund \in BOOLEAN /\ work[w].done \in BOOLEAN
      BY <1>1 DEF Work
    <3>8. Refunding(t)' /\ Grows(t)
      BY <1>0, <1>1, <2>1, <3>3, <3>6 DEF Refunding, Grows, Exists
    <3>9. ArgumentsOK(k)' /\ RefundOK(k)'
      BY <1>0, <1>1, <1>4, <3>3, <3>5, <3>6, <3>7, <3>8 DEF ArgumentsOK, RefundOK
    <3>10. FundingAgrees(t)' /\ TokenAgrees(t)'
      BY <1>0, <1>1, <1>4, <2>1, <2>3, <3>3 DEF FundingAgrees, TokenAgrees
    <3>11. FlagsOK(t)' /\ EndPaidBack(t)'
      BY <1>0, <1>1, <2>1, <3>3, <3>6 DEF FlagsOK, EndPaidBack, Refunding
    <3>12. RowOK(t)' /\ k \in Work \cup {Idle} /\ paid'[t] >= 0
      BY <3>3, <3>5, <3>10, <3>11 DEF RowOK
    <3> QED BY <1>0, <1>1, <3>3, <3>4, <3>5, <3>8, <3>9, <3>12, CommitMoves
  <2> QED BY <2>2, <2>3
<1>5. CASE ~work[w].done /\ bill[t].funding # 0 /\ bill[t].source # "subscription"
  <2>0. bill[t].source = "wallet" /\ bill[t].funding \in Nat
    BY <1>1, <1>5 DEF Bill
  <2>1. RefundMidjourneyWalletFundingOnce(t) /\ Goto(w, "token")
    BY <1>a, <1>5 DEF refundMidjourneyFunding
  <2>2. CASE row[t].fundingRefunded
    <3>1. UNCHANGED <<row, paid, tokenPaid, record>>
      BY <2>1, <2>2 DEF RefundMidjourneyWalletFundingOnce
    <3> QED BY <1>0, <1>a, <2>1, <2>2, <3>1, GoesOn
  <2>3. CASE ~row[t].fundingRefunded
    <3>1. /\ paid' = [paid EXCEPT ![t] = @ - bill[t].funding]
          /\ row' = [row EXCEPT ![t] = FundingDone(t, @)]
          /\ UNCHANGED <<tokenPaid, record>>
      BY <2>1, <2>3 DEF RefundMidjourneyWalletFundingOnce
    <3>2. paid[t] = bill[t].funding
      BY <1>1, <2>0, <2>3 DEF FundingAgrees
    <3>3. /\ paid' \in [Tasks -> Int] /\ paid'[t] = 0
          /\ \A x \in Tasks : x # t => paid'[x] = paid[x]
      BY <2>0, <3>1, <3>2 DEF MBInv, MBTypeOK
    <3> QED BY <1>0, <1>a, <2>0, <2>1, <2>3, <3>1, <3>3, FundingMarked DEF Goto
  <2> QED BY <2>2, <2>3
<1> QED BY <1>2, <1>3, <1>4, <1>5

LEMMA MarkKeeps ==
    ASSUME MBInv, NEW w \in Workers, MarkMidjourneyFundingRefunded(w)
    PROVE  MBInv'
<1>0. /\ Busy(w, "mark") /\ Goto(w, "token")
      /\ UNCHANGED <<stage, bill, up, late, tokenGone, batch, paid, tokenPaid, record, faults>>
  BY DEF MarkMidjourneyFundingRefunded, worldVars, moneyVars
<1>a. PICK t \in Tasks : t = work[w].task
  BY <1>0, BusyFacts
<1>1. /\ row[t] \in Row /\ bill[t] \in Bill /\ work[w].step = "mark"
      /\ RefundOK(work[w]) /\ FundingAgrees(t)
  BY <1>0, <1>a, BusyFacts
<1>2. row' = [row EXCEPT ![t] = IF @.fundingRefunded THEN @ ELSE FundingDone(t, @)]
  BY <1>a DEF MarkMidjourneyFundingRefunded
<1>3. CASE row[t].fundingRefunded
  <2>1. row' = row
    BY <1>2, <1>3 DEF MBInv, MBTypeOK
  <2> QED BY <1>0, <1>a, <1>3, <2>1, GoesOn
<1>4. CASE ~row[t].fundingRefunded
  <2>1. row' = [row EXCEPT ![t] = FundingDone(t, @)]
    BY <1>2, <1>4
  <2>2. paid[t] = 0 /\ (bill[t].source # "wallet" => record[t] # "consumed")
    BY <1>a, <1>1, <1>4 DEF RefundOK, FundingAgrees
  <2>3. /\ paid' \in [Tasks -> Int] /\ paid'[t] = 0
        /\ \A x \in Tasks : x # t => paid'[x] = paid[x]
    BY <1>0, <2>2 DEF MBInv, MBTypeOK
  <2> QED BY <1>0, <1>a, <1>4, <2>1, <2>2, <2>3, FundingMarked DEF Goto
<1> QED BY <1>3, <1>4

LEMMA TokenKeeps ==
    ASSUME MBInv, NEW w \in Workers, refundMidjourneyToken(w)
    PROVE  MBInv'
<1>0. /\ Busy(w, "token")
      /\ UNCHANGED <<stage, bill, up, late, tokenGone, batch, paid, record, faults>>
  BY DEF refundMidjourneyToken, worldVars
<1>a. PICK t \in Tasks : t = work[w].task
  BY <1>0, BusyFacts
<1>1. /\ work[w] # Idle /\ work[w] \in Work /\ work[w].step = "token" /\ Exists(t)
      /\ row[t] \in Row /\ bill[t] \in Bill
      /\ ArgumentsOK(work[w]) /\ RefundOK(work[w]) /\ StageOK(t)
      /\ FundingAgrees(t) /\ TokenAgrees(t) /\ FlagsOK(t) /\ EndPaidBack(t)
  BY <1>0, <1>a, BusyFacts
<1>2. row[t].fundingRefunded /\ Refunding(t) /\ work[w].refund
  BY <1>a, <1>1 DEF RefundOK
<1>3. CASE bill[t].token = 0
  <2>1. Goto(w, "complete") /\ UNCHANGED <<row, tokenPaid>>
    BY <1>a, <1>3 DEF refundMidjourneyToken
  <2> QED BY <1>0, <1>a, <1>2, <1>3, <2>1, GoesOn
<1>4. CASE bill[t].token # 0 /\ tokenGone[t]
  <2>1. work' = [work EXCEPT ![w] = Idle] /\ UNCHANGED <<row, tokenPaid>>
    BY <1>a, <1>4 DEF refundMidjourneyToken, Return
  <2> QED BY <1>0, <1>1, <2>1, CommitOnlyWork
<1>5. CASE bill[t].token # 0 /\ ~tokenGone[t] /\ row[t].tokenRefunded
  <2>1. Goto(w, "complete") /\ UNCHANGED <<row, tokenPaid>>
    BY <1>a, <1>5 DEF refundMidjourneyToken
  <2> QED BY <1>0, <1>a, <1>2, <1>5, <2>1, GoesOn
<1>6. CASE bill[t].token # 0 /\ ~tokenGone[t] /\ ~row[t].tokenRefunded
  <2>1. /\ Goto(w, "complete")
        /\ tokenPaid' = [tokenPaid EXCEPT ![t] = @ - bill[t].token]
        /\ row' = [row EXCEPT ![t].tokenRefunded = TRUE,
                              ![t].billingRefunded = row[t].fundingRefunded]
    BY <1>a, <1>6 DEF refundMidjourneyToken
  <2>r. PICK r : r = [row[t] EXCEPT !.tokenRefunded = TRUE,
                                    !.billingRefunded = row[t].fundingRefunded]
    OBVIOUS
  <2>2. /\ r \in Row /\ r.status = row[t].status /\ r.progress = row[t].progress
        /\ r.fundingRefunded = row[t].fundingRefunded /\ r.tokenRefunded /\ r.billingRefunded
    BY <2>r, <1>1, <1>2 DEF Row
  <2>3. row' = [row EXCEPT ![t] = r]
    BY <2>r, <2>1, <1>1 DEF MBInv, MBTypeOK
  <2>4. /\ row'[t] = r /\ row' \in [Tasks -> Row \cup {NoRow}] /\ row'[t] # NoRow
        /\ \A x \in Tasks : x # t => row'[x] = row[x]
    BY <2>2, <2>3, MBConstants DEF MBInv, MBTypeOK
  <2>5. tokenPaid[t] = bill[t].token /\ bill[t].token \in Nat
    BY <1>1, <1>6 DEF TokenAgrees, Bill
  <2>6. /\ tokenPaid' \in [Tasks -> Int] /\ tokenPaid'[t] = 0
        /\ \A x \in Tasks : x # t => tokenPaid'[x] = tokenPaid[x]
        /\ paid' \in [Tasks -> Int] /\ paid'[t] >= 0
        /\ record' \in [Tasks -> {"none", "consumed", "refunded"}]
    BY <1>0, <1>1, <2>1, <2>5 DEF MBInv, MBTypeOK, StageOK
  <2>k. PICK k : k = [work[w] EXCEPT !.step = "complete"]
    OBVIOUS
  <2>7. work' = [work EXCEPT ![w] = k]
    BY <2>k, <1>1, <2>1 DEF Goto, MBInv, MBTypeOK
  <2>8. /\ k \in Work /\ k.step = "complete" /\ k.task = t /\ k.progress = work[w].progress
        /\ k.refund = work[w].refund /\ k.done = work[w].done
    BY <2>k, <1>a, <1>1 DEF Work, Steps
  <2>9. work[w].refund \in BOOLEAN /\ work[w].done \in BOOLEAN
    BY <1>1 DEF Work
  <2>10. Refunding(t)' /\ Grows(t)
    BY <1>0, <1>1, <1>2, <2>2, <2>4 DEF Refunding, Grows, Exists
  <2>11. ArgumentsOK(k)' /\ RefundOK(k)'
    BY <1>0, <1>1, <1>2, <2>2, <2>4, <2>8, <2>9, <2>10 DEF ArgumentsOK, RefundOK
  <2>12. FundingAgrees(t)' /\ TokenAgrees(t)'
    BY <1>0, <1>1, <2>2, <2>4, <2>6 DEF FundingAgrees, TokenAgrees
  <2>13. FlagsOK(t)' /\ EndPaidBack(t)'
    BY <1>0, <1>1, <1>2, <2>2, <2>4, <2>6, <2>10 DEF FlagsOK, EndPaidBack, Refunding
  <2>14. RowOK(t)' /\ k \in Work \cup {Idle} /\ tokenPaid'[t] >= 0
    BY <2>6, <2>8, <2>12, <2>13 DEF RowOK
  <2>15. \A x \in Tasks : x # t => UNCHANGED <<row[x], paid[x], tokenPaid[x], record[x]>>
    BY <1>0, <2>4, <2>6
  <2> QED BY <1>0, <1>1, <2>4, <2>6, <2>7, <2>8, <2>10, <2>11, <2>14, <2>15, CommitMoves
<1> QED BY <1>3, <1>4, <1>5, <1>6

LEMMA CompleteKeeps ==
    ASSUME MBInv, NEW w \in Workers, CompleteMidjourneyRefundProgress(w)
    PROVE  MBInv'
<1>0. /\ Busy(w, "complete") /\ work' = [work EXCEPT ![w] = Idle]
      /\ UNCHANGED <<stage, bill, up, late, tokenGone, batch, paid, tokenPaid, record, faults>>
  BY DEF CompleteMidjourneyRefundProgress, Return, worldVars, moneyVars
<1>a. PICK t \in Tasks : t = work[w].task
  BY <1>0, BusyFacts
<1>1. /\ work[w] # Idle /\ work[w] \in Work /\ work[w].step = "complete" /\ Exists(t)
      /\ row[t] \in Row /\ bill[t] \in Bill
      /\ ArgumentsOK(work[w]) /\ RefundOK(work[w]) /\ StageOK(t)
      /\ FundingAgrees(t) /\ TokenAgrees(t) /\ FlagsOK(t) /\ EndPaidBack(t)
  BY <1>0, <1>a, BusyFacts
<1>2. CASE row[t].progress # "REFUND_PENDING"
  <2>1. row' = row
    BY <1>a, <1>2 DEF CompleteMidjourneyRefundProgress
  <2> QED BY <1>0, <1>1, <2>1, CommitOnlyWork
<1>3. CASE row[t].progress = "REFUND_PENDING"
  <2>1. work[w].progress = "100%" /\ row[t].fundingRefunded /\ row[t].status = "FAILURE"
        /\ (row[t].tokenRefunded \/ bill[t].token = 0)
    BY <1>a, <1>1 DEF RefundOK, ArgumentsOK, Refunding
  <2>2. row' = [row EXCEPT ![t].progress = "100%"]
    BY <1>a, <1>3, <2>1 DEF CompleteMidjourneyRefundProgress
  <2>3. paid[t] = 0 /\ tokenPaid[t] = 0
    BY <1>1, <2>1 DEF FundingAgrees, TokenAgrees
  <2>r. PICK r : r = [row[t] EXCEPT !.progress = "100%"]
    OBVIOUS
  <2>4. /\ r \in Row /\ r.status = "FAILURE" /\ r.progress = "100%"
        /\ r.fundingRefunded = row[t].fundingRefunded /\ r.tokenRefunded = row[t].tokenRefunded
        /\ r.billingRefunded = row[t].billingRefunded
    BY <2>r, <1>1, <2>1 DEF Row, Progresses
  <2>5. row' = [row EXCEPT ![t] = r]
    BY <2>r, <2>2, <1>1 DEF MBInv, MBTypeOK
  <2>6. /\ row'[t] = r /\ row' \in [Tasks -> Row \cup {NoRow}] /\ row'[t] # NoRow
        /\ \A x \in Tasks : x # t => row'[x] = row[x]
    BY <2>4, <2>5, MBConstants DEF MBInv, MBTypeOK
  <2>7. Grows(t)
    BY <1>0, <1>1, <2>1, <2>4, <2>6 DEF Refunding, Grows, Exists
  <2>8. FundingAgrees(t)' /\ TokenAgrees(t)'
    BY <1>0, <1>1, <2>4, <2>6 DEF FundingAgrees, TokenAgrees
  <2>9. FlagsOK(t)' /\ EndPaidBack(t)'
    BY <1>0, <1>1, <2>1, <2>3, <2>4, <2>6 DEF FlagsOK, EndPaidBack, Refunding
  <2>10. /\ paid' \in [Tasks -> Int] /\ tokenPaid' \in [Tasks -> Int]
         /\ record' \in [Tasks -> {"none", "consumed", "refunded"}]
         /\ paid'[t] >= 0 /\ tokenPaid'[t] >= 0
    BY <1>0, <1>1 DEF MBInv, MBTypeOK, StageOK
  <2> QED BY <1>0, <1>1, <2>6, <2>7, <2>8, <2>9, <2>10, CommitMoves DEF RowOK
<1> QED BY <1>2, <1>3

-----------------------------------------------------------------------------
LEMMA StutterKeeps ==
    ASSUME MBInv, UNCHANGED mbVars
    PROVE  MBInv'
<1>1. UNCHANGED <<stage, bill, row, up, late, tokenGone, batch, work, paid, tokenPaid, record, faults>>
  BY DEF mbVars, worldVars, moneyVars
<1>2. MBTypeOK' /\ BatchOK'
  BY <1>1 DEF MBInv, MBTypeOK, BatchOK, Exists
<1>3. \A t \in Tasks : StageOK(t)'
  BY <1>1 DEF MBInv, StageOK, Exists
<1>4. \A t \in Tasks : Grows(t) /\ RowOK(t)'
  BY <1>1, SameRows
<1>5. \A w \in Workers : WorkOK(w)'
  BY <1>1, <1>4, OthersKeep DEF StaysDone
<1> QED BY <1>2, <1>3, <1>4, <1>5 DEF MBInv

LEMMA NextKeeps == MBInv /\ [MBNext]_mbVars => MBInv'
<1> SUFFICES ASSUME MBInv, [MBNext]_mbVars PROVE MBInv'
  OBVIOUS
<1>1. ASSUME NEW t \in Tasks, HandlerStep(t) PROVE MBInv'
  BY <1>1, PrepareKeeps, UnsettledKeeps, InsertKeeps, SettleKeeps, InsertedKeeps DEF HandlerStep
<1>2. ASSUME NEW t \in Tasks, WorldStep(t) PROVE MBInv'
  BY <1>2, WorldKeeps
<1>3. ASSUME NEW p \in Pollers, LoopStep(p) \/ FailTask(p) \/ FetchFails(p) PROVE MBInv'
  BY <1>3, GetAllKeeps, UpdateTaskKeeps, FailTaskKeeps, FetchFailsKeeps DEF LoopStep
<1>4. ASSUME NEW w \in Workers, CommitStep(w) PROVE MBInv'
  BY <1>4, CommitReadKeeps, UpdateKeeps, FundingKeeps, MarkKeeps, TokenKeeps, CompleteKeeps
     DEF CommitStep
<1>5. ASSUME NEW w \in Workers, CommitFails(w) \/ Crash(w) PROVE MBInv'
  BY <1>5, CommitFailsKeeps, CrashKeeps
<1>6. CASE UNCHANGED mbVars
  BY <1>6, StutterKeeps
<1> QED BY <1>1, <1>2, <1>3, <1>4, <1>5, <1>6 DEF MBNext

\* The inductive invariant holds in every reachable state.
THEOREM MBInvariant == MBSpec => []MBInv
BY InitOK, NextKeeps, PTL DEF MBSpec

\* Every variable keeps its type under every interleaving of handlers, loops and
\* refunds, and whoever commits an update works on a row that exists.
THEOREM MBTypeCorrect == MBSpec => []MBTypeOK
<1>1. MBInv => MBTypeOK
  BY DEF MBInv
<1> QED BY <1>1, MBInvariant, PTL

\* Each leg of a refund is paid out once: for any number of loops, stale copies,
\* failed statements and crashes, no task is paid back more than it took, and
\* nothing is owed once the row says that the refund is complete.
THEOREM RefundLegsOnce == MBSpec => []EachLegOnce
<1>1. ASSUME MBInv, NEW t \in Tasks
      PROVE  /\ paid[t] >= 0 /\ tokenPaid[t] >= 0
             /\ Exists(t) /\ (\/ row[t].billingRefunded
                              \/ row[t].status = "FAILURE" /\ row[t].progress = "100%")
                => paid[t] = 0 /\ tokenPaid[t] = 0
  <2>1. paid[t] >= 0 /\ tokenPaid[t] >= 0
    BY <1>1 DEF MBInv, StageOK
  <2>2. ASSUME Exists(t), row[t].billingRefunded PROVE paid[t] = 0 /\ tokenPaid[t] = 0
    BY <1>1, <2>2 DEF MBInv, RowOK, FlagsOK, FundingAgrees, TokenAgrees
  <2>3. ASSUME Exists(t), row[t].status = "FAILURE", row[t].progress = "100%"
        PROVE  paid[t] = 0 /\ tokenPaid[t] = 0
    BY <1>1, <2>3 DEF MBInv, RowOK, EndPaidBack
  <2> QED BY <2>1, <2>2, <2>3
<1>2. MBInv => EachLegOnce
  BY <1>1 DEF EachLegOnce
<1> QED BY <1>2, MBInvariant, PTL

\* Nobody gets a result and the refund: a row that shows SUCCESS was paid in full.
THEOREM ResultsArePaid == MBSpec => []DeliveredIsPaid
<1>1. ASSUME MBInv, NEW t \in Tasks, Exists(t), row[t].status = "SUCCESS"
      PROVE  paid[t] = bill[t].funding /\ tokenPaid[t] = bill[t].token
  <2>1. /\ ~row[t].fundingRefunded /\ ~row[t].tokenRefunded /\ record[t] # "refunded"
        /\ FundingAgrees(t) /\ TokenAgrees(t)
    BY <1>1 DEF MBInv, RowOK, FlagsOK, Refunding
  <2>2. record[t] \in {"none", "consumed", "refunded"}
    BY <1>1 DEF MBInv, MBTypeOK
  <2> QED BY <2>1, <2>2 DEF FundingAgrees, TokenAgrees
<1>2. MBInv => DeliveredIsPaid
  BY <1>1 DEF DeliveredIsPaid
<1> QED BY <1>2, MBInvariant, PTL

\* What a step may do to a row that exists.
Final(t) ==
    /\ row[t].progress = "100%" => row'[t] = row[t]
    /\ row[t].progress = "REFUND_PENDING" =>
          row'[t].status = row[t].status /\ row'[t].progress \in {"REFUND_PENDING", "100%"}

\* Marking the funding leg of a refund that is not complete changes flags only.
LEMMA FundingIsFinal ==
    ASSUME MBInv, NEW t \in Tasks, Exists(t), Refunding(t), ~row[t].fundingRefunded,
           row' = [row EXCEPT ![t] = FundingDone(t, @)], NEW x \in Tasks
    PROVE  Final(x)
BY FundingDoneFacts DEF Final, Refunding, MBInv, MBTypeOK

\* The calls that write rows write only the worker's own, and in the ways allowed.
LEMMA CommitIsFinal ==
    ASSUME MBInv, NEW w \in Workers, CommitStep(w), NEW x \in Tasks, Exists(x)
    PROVE  Final(x)
<1>1. CASE CommitRead(w)
  BY <1>1 DEF CommitRead, Final
<1>2. CASE UpdateWithStatusAndProgress(w)
  <2>0. Busy(w, "cas")
    BY <1>2 DEF UpdateWithStatusAndProgress
  <2>1. ArgumentsOK(work[w]) /\ work[w].step = "cas"
    BY <2>0, BusyFacts
  <2>2. row' = row \/ (Matches(w) /\ row' = [row EXCEPT ![work[w].task] = Written(w, @)])
    BY <1>2 DEF UpdateWithStatusAndProgress
  <2>3. Matches(w) => row[work[w].task].progress \in {"0%", "part"}
    BY <2>1 DEF Matches, ArgumentsOK
  <2> QED BY <2>2, <2>3 DEF Final, MBInv, MBTypeOK
<1>3. CASE CompleteMidjourneyRefundProgress(w)
  <2>0. Busy(w, "complete")
    BY <1>3 DEF CompleteMidjourneyRefundProgress
  <2>1. work[w].progress = "100%" /\ row[work[w].task] \in Row
    BY <2>0, BusyFacts DEF ArgumentsOK, RefundOK
  <2>2. \/ row' = row
        \/ /\ row[work[w].task].progress = "REFUND_PENDING"
           /\ row' = [row EXCEPT ![work[w].task].progress = "100%"]
    BY <1>3, <2>1 DEF CompleteMidjourneyRefundProgress
  <2> QED BY <2>1, <2>2 DEF Final, MBInv, MBTypeOK, Row
<1>4. CASE refundMidjourneyFunding(w)
  <2>0. Busy(w, "fund")
    BY <1>4 DEF refundMidjourneyFunding
  <2>a. PICK t \in Tasks : t = work[w].task
    BY <2>0, BusyFacts
  <2>1. Refunding(t) /\ row[t] \in Row /\ Exists(t)
    BY <2>0, <2>a, BusyFacts DEF RefundOK
  <2>2. row' = row \/ (~row[t].fundingRefunded /\ row' = [row EXCEPT ![t] = FundingDone(t, @)])
    BY <1>4, <2>a DEF refundMidjourneyFunding, RefundMidjourneyWalletFundingOnce
  <2> QED BY <2>1, <2>2, FundingIsFinal DEF Final
<1>5. CASE MarkMidjourneyFundingRefunded(w)
  <2>0. Busy(w, "mark")
    BY <1>5 DEF MarkMidjourneyFundingRefunded
  <2>a. PICK t \in Tasks : t = work[w].task
    BY <2>0, BusyFacts
  <2>1. Refunding(t) /\ row[t] \in Row /\ Exists(t)
    BY <2>0, <2>a, BusyFacts DEF RefundOK
  <2>2. row' = row \/ (~row[t].fundingRefunded /\ row' = [row EXCEPT ![t] = FundingDone(t, @)])
    BY <1>5, <2>a DEF MarkMidjourneyFundingRefunded, MBInv, MBTypeOK
  <2> QED BY <2>1, <2>2, FundingIsFinal DEF Final
<1>6. CASE refundMidjourneyToken(w)
  <2>0. Busy(w, "token")
    BY <1>6 DEF refundMidjourneyToken
  <2>a. PICK t \in Tasks : t = work[w].task
    BY <2>0, BusyFacts
  <2>1. Refunding(t) /\ row[t] \in Row
    BY <2>0, <2>a, BusyFacts DEF RefundOK
  <2>2. \/ row' = row
        \/ /\ ~row[t].tokenRefunded /\ bill[t].token # 0
           /\ row' = [row EXCEPT ![t].tokenRefunded = TRUE,
                                 ![t].billingRefunded = row[t].fundingRefunded]
    BY <1>6, <2>a DEF refundMidjourneyToken
  <2> QED BY <2>1, <2>2 DEF Final, Refunding, MBInv, MBTypeOK, Row
<1> QED BY <1>1, <1>2, <1>3, <1>4, <1>5, <1>6 DEF CommitStep

\* A finished row is never written again, and a refund under way keeps its status
\* until it is complete, however stale the copies that loops and handlers hold.
THEOREM FinishedStaysFinished == MBSpec => FinishedIsFinal
<1> DEFINE Keeps == \A t \in Tasks : Exists(t) => Final(t)
<1>1. MBInv /\ [MBNext]_mbVars => [Keeps]_mbVars
  <2> SUFFICES ASSUME MBInv, MBNext, NEW x \in Tasks, Exists(x) PROVE Final(x)
    OBVIOUS
  <2>1. ASSUME row' = row PROVE Final(x)
    BY <2>1 DEF Final
  <2>2. ASSUME NEW t \in Tasks, HandlerStep(t) PROVE Final(x)
    <3>1. CASE Insert(t)
      <4>1. ~Exists(t)
        BY <3>1 DEF Insert, MBInv, StageOK
      <4>2. row'[x] = row[x]
        BY <3>1, <4>1 DEF Insert, MBInv, MBTypeOK
      <4> QED BY <4>2 DEF Final
    <3> QED BY <2>1, <2>2, <3>1 DEF HandlerStep, prepareMidjourneyBilling, Settle,
                 refundUnsettledMidjourneyBilling, refundInsertedMidjourneyBilling
  <2>3. ASSUME NEW t \in Tasks, WorldStep(t) PROVE row' = row
    BY <2>3 DEF WorldStep, UpstreamEnds, AnHourPasses, DeleteToken
  <2>4. ASSUME NEW p \in Pollers, LoopStep(p) \/ FailTask(p) \/ FetchFails(p) PROVE row' = row
    BY <2>4 DEF LoopStep, GetAllUnFinishTasks, UpdateTask, FailTask, FetchFails
  <2>5. ASSUME NEW w \in Workers, CommitFails(w) \/ Crash(w) PROVE row' = row
    BY <2>5 DEF CommitFails, Crash
  <2> QED BY <2>1, <2>2, <2>3, <2>4, <2>5, CommitIsFinal DEF MBNext
<1>2. [Keeps]_mbVars =>
      [\A t \in Tasks : Exists(t) =>
          /\ row[t].progress = "100%" => row'[t] = row[t]
          /\ row[t].progress = "REFUND_PENDING" =>
                /\ row'[t].status = row[t].status
                /\ row'[t].progress \in {"REFUND_PENDING", "100%"}]_mbVars
  BY DEF Final
<1> HIDE DEF Keeps
<1> QED BY <1>1, <1>2, MBInvariant, PTL DEF MBSpec, FinishedIsFinal
==============================================================================
