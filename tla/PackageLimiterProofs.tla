------------------------- MODULE PackageLimiterProofs -------------------------
(***************************************************************************)
(* The in-process limiter is a counting semaphore, and the one in Redis    *)
(* keeps the limit as long as refreshes come in time, for any number of    *)
(* requests and any limit, TTL and refresh interval.                       *)
(***************************************************************************)
EXTENDS PackageLimiter, FiniteSetTheorems, TLAPS

----------------------------------------------------------------------------
(* The limiter in the process.                                              *)

\* Where a goroutine holds the mutex of its counter.
Locked == {"check", "admit", "leave", "delete", "unlock"}

\* A goroutine inside the mutex owns it.
Mutex == \A r \in Requests : pc[r] \in Locked => mu[ctr[r]] = r

\* What was looked up under the mutex is still so: nobody removes a counter
\* without its mutex.
StillCurrent == \A r \in Requests : pc[r] \in {"admit", "delete"} => ctr[r] = current

\* A counter about to be removed counts nobody.
DeletedIsEmpty == \A r \in Requests : pc[r] = "delete" => count[ctr[r]] = 0

\* The counter in the map counts the running requests.
CountExact == current # None => count[current] = Cardinality(Holders)

\* The inductive invariant.
MSInv ==
    /\ MSTypeOK
    /\ Mutex
    /\ StillCurrent
    /\ DeletedIsEmpty
    /\ OneCounter
    /\ CountExact
    /\ LimitRespected

----------------------------------------------------------------------------
\* Running requests form a finite set, empty when the map has no counter.
LEMMA HoldersFinite ==
    ASSUME MSInv
    PROVE  /\ IsFiniteSet(Holders)
           /\ Cardinality(Holders) \in Nat
           /\ current = None => Holders = {}
<1>1. IsFiniteSet(Holders)
  BY FS_Subset, MSConstants DEF Holders
<1>2. Cardinality(Holders) \in Nat
  BY <1>1, FS_CardinalityType
<1>3. ASSUME current = None PROVE Holders = {}
  BY <1>3, MSConstants DEF MSInv, OneCounter, Holders, MSTypeOK
<1> QED BY <1>1, <1>2, <1>3

\* A step that leaves the set of running requests, the map and the counts
\* alone keeps what the invariant says of them.
LEMMA SameHolders ==
    ASSUME MSInv, Holders' = Holders, current' = current, count' = count
    PROVE  CountExact' /\ LimitRespected'
BY DEF MSInv, CountExact, LimitRespected

LEMMA LoadKeeps ==
    ASSUME MSInv, NEW r \in Requests, LoadOrStore(r)
    PROVE  MSInv'
<1> USE DEF MSInv
<1>0. pc[r] \in {"idle", "again"} /\ pc' = [pc EXCEPT ![r] = "lock"] /\ mu' = mu
  BY DEF LoadOrStore, Go
<1>1. Holders' = Holders
  BY <1>0 DEF Holders, MSTypeOK
<1>2. CASE current # None
  <2>1. ctr' = [ctr EXCEPT ![r] = current] /\ current' = current /\ count' = count
    BY <1>2 DEF LoadOrStore
  <2>2. MSTypeOK'
    BY <1>0, <1>2, <2>1 DEF MSTypeOK
  <2>3. Mutex' /\ StillCurrent' /\ DeletedIsEmpty' /\ OneCounter'
    BY <1>0, <1>1, <2>1 DEF MSTypeOK, Mutex, StillCurrent, DeletedIsEmpty, OneCounter, Locked, Holders
  <2> QED BY <1>1, <2>1, <2>2, <2>3, SameHolders
<1>3. CASE current = None
  <2>0. PICK c \in Counters : /\ Free(c)
                              /\ current' = c
                              /\ count' = [count EXCEPT ![c] = 0]
                              /\ ctr' = [ctr EXCEPT ![r] = c]
    BY <1>3 DEF LoadOrStore
  <2>1. MSTypeOK'
    BY <1>0, <2>0 DEF MSTypeOK
  <2>2. \A x \in Requests : pc[x] \notin {"admit", "delete"}
    BY <1>3, MSConstants DEF StillCurrent, MSTypeOK
  <2>3. Mutex' /\ StillCurrent' /\ DeletedIsEmpty'
    BY <1>0, <2>0, <2>2 DEF MSTypeOK, Mutex, StillCurrent, DeletedIsEmpty, Locked
  <2>4. Holders' = {}
    BY <1>1, <1>3, HoldersFinite
  <2>5. OneCounter'
    BY <2>4 DEF OneCounter
  <2>6. Cardinality(Holders') = 0
    BY <2>4, FS_EmptySet
  <2>7. count'[current'] = 0
    BY <2>0 DEF MSTypeOK
  <2>8. CountExact' /\ LimitRespected'
    BY <2>6, <2>7, MSConstants DEF CountExact, LimitRespected
  <2> QED BY <2>1, <2>3, <2>5, <2>8
<1> QED BY <1>2, <1>3

LEMMA LockKeeps ==
    ASSUME MSInv, NEW r \in Requests, Lock(r) \/ ReleaseLock(r)
    PROVE  MSInv'
<1> USE DEF MSInv
<1>0. /\ pc[r] \in {"lock", "holding"} /\ mu[ctr[r]] = None
      /\ mu' = [mu EXCEPT ![ctr[r]] = r]
      /\ pc' = [pc EXCEPT ![r] = IF pc[r] = "lock" THEN "check" ELSE "leave"]
      /\ current' = current /\ count' = count /\ ctr' = ctr
  BY DEF Lock, ReleaseLock, Go, MSTypeOK
<1>1. ctr[r] \in Counters
  BY <1>0 DEF MSTypeOK
<1>2. Holders' = Holders
  BY <1>0 DEF Holders, MSTypeOK
<1>3. MSTypeOK'
  BY <1>0, <1>1 DEF MSTypeOK
<1>4. Mutex'
  BY <1>0, <1>1, MSConstants DEF MSTypeOK, Mutex, Locked
<1>5. StillCurrent' /\ DeletedIsEmpty' /\ OneCounter'
  BY <1>0, <1>2 DEF MSTypeOK, StillCurrent, DeletedIsEmpty, OneCounter
<1> QED BY <1>0, <1>2, <1>3, <1>4, <1>5, SameHolders

LEMMA CheckKeeps ==
    ASSUME MSInv, NEW r \in Requests, Check(r)
    PROVE  MSInv'
<1> USE DEF MSInv
<1>0. pc[r] = "check" /\ current' = current /\ count' = count
  BY DEF Check
<1>1. ctr[r] \in Counters
  BY <1>0 DEF MSTypeOK
<1>2. CASE current = ctr[r]
  <2>1. pc' = [pc EXCEPT ![r] = "admit"] /\ mu' = mu /\ ctr' = ctr
    BY <1>2 DEF Check, Go
  <2>2. Holders' = Holders
    BY <1>0, <2>1 DEF Holders, MSTypeOK
  <2>3. MSTypeOK' /\ Mutex' /\ StillCurrent' /\ DeletedIsEmpty' /\ OneCounter'
    BY <1>0, <1>1, <1>2, <2>1, <2>2
       DEF MSTypeOK, Mutex, StillCurrent, DeletedIsEmpty, OneCounter, Locked
  <2> QED BY <1>0, <2>2, <2>3, SameHolders
<1>3. CASE current # ctr[r]
  <2>1. /\ pc' = [pc EXCEPT ![r] = "again"]
        /\ mu' = [mu EXCEPT ![ctr[r]] = None]
        /\ ctr' = [ctr EXCEPT ![r] = None]
    BY <1>3 DEF Check, Go
  <2>2. Holders' = Holders
    BY <1>0, <2>1 DEF Holders, MSTypeOK
  <2>3. MSTypeOK'
    BY <1>0, <1>1, <2>1 DEF MSTypeOK
  <2>4. Mutex'
    BY <1>0, <1>1, <2>1 DEF MSTypeOK, Mutex, Locked
  <2>5. StillCurrent' /\ DeletedIsEmpty' /\ OneCounter'
    BY <1>0, <2>1, <2>2 DEF MSTypeOK, StillCurrent, DeletedIsEmpty, OneCounter, Holders
  <2> QED BY <1>0, <2>2, <2>3, <2>4, <2>5, SameHolders
<1> QED BY <1>2, <1>3

LEMMA AdmitKeeps ==
    ASSUME MSInv, NEW r \in Requests, Admit(r)
    PROVE  MSInv'
<1> USE DEF MSInv
<1>0. /\ pc[r] = "admit" /\ current' = current
      /\ mu' = [mu EXCEPT ![ctr[r]] = None]
  BY DEF Admit
<1>1. ctr[r] \in Counters /\ ctr[r] = current /\ r \notin Holders
  BY <1>0 DEF MSTypeOK, StillCurrent, Holders
<1>2. count[current] = Cardinality(Holders)
  BY <1>1, MSConstants DEF CountExact
<1>3. \A x \in Requests : x # r /\ pc[x] \in Locked => ctr[x] # ctr[r]
  BY <1>0 DEF Mutex, Locked
<1>4. CASE count[ctr[r]] >= Limit
  <2>1. /\ pc' = [pc EXCEPT ![r] = "idle"]
        /\ ctr' = [ctr EXCEPT ![r] = None] /\ count' = count
    BY <1>4 DEF Admit, Go
  <2>2. Holders' = Holders
    BY <1>0, <2>1 DEF Holders, MSTypeOK
  <2>3. MSTypeOK'
    BY <1>0, <1>1, <2>1 DEF MSTypeOK
  <2>4. Mutex'
    BY <1>0, <1>1, <1>3, <2>1 DEF MSTypeOK, Mutex, Locked
  <2>5. StillCurrent' /\ DeletedIsEmpty' /\ OneCounter'
    BY <1>0, <2>1, <2>2 DEF MSTypeOK, StillCurrent, DeletedIsEmpty, OneCounter, Holders
  <2> QED BY <1>0, <2>1, <2>2, <2>3, <2>4, <2>5, SameHolders
<1>5. CASE ~(count[ctr[r]] >= Limit)
  <2>1. /\ pc' = [pc EXCEPT ![r] = "holding"]
        /\ count' = [count EXCEPT ![ctr[r]] = @ + 1] /\ ctr' = ctr
    BY <1>5 DEF Admit, Go
  <2>2. Holders' = Holders \cup {r}
    BY <1>0, <2>1 DEF Holders, MSTypeOK
  <2>3. Cardinality(Holders') = Cardinality(Holders) + 1
    BY <1>1, <2>2, HoldersFinite, FS_AddElement
  <2>4. MSTypeOK'
    BY <1>0, <1>1, <2>1 DEF MSTypeOK
  <2>5. Mutex'
    BY <1>0, <1>1, <1>3, <2>1 DEF MSTypeOK, Mutex, Locked
  <2>6. StillCurrent' /\ OneCounter'
    BY <1>0, <1>1, <2>1, <2>2 DEF MSTypeOK, StillCurrent, OneCounter
  <2>7. DeletedIsEmpty'
    BY <1>0, <1>1, <1>3, <2>1 DEF MSTypeOK, DeletedIsEmpty, Locked
  <2>8. count'[current'] = Cardinality(Holders')
    BY <1>0, <1>1, <1>2, <2>1, <2>3 DEF MSTypeOK
  <2>9. CountExact'
    BY <2>8 DEF CountExact
  <2>10. LimitRespected'
    BY <1>1, <1>2, <1>5, <2>3, HoldersFinite, MSConstants DEF LimitRespected
  <2> QED BY <2>4, <2>5, <2>6, <2>7, <2>9, <2>10
<1> QED BY <1>4, <1>5

LEMMA ReleaseCountKeeps ==
    ASSUME MSInv, NEW r \in Requests, ReleaseCount(r)
    PROVE  MSInv'
<1> USE DEF MSInv
<1>0. /\ pc[r] = "leave" /\ current' = current /\ mu' = mu /\ ctr' = ctr
      /\ count' = [count EXCEPT ![ctr[r]] = IF @ > 0 THEN @ - 1 ELSE @]
      /\ pc' = [pc EXCEPT ![r] = IF count[ctr[r]] <= 1 THEN "delete" ELSE "unlock"]
  BY DEF ReleaseCount, Go, Emptied
<1>1. r \in Holders /\ ctr[r] = current /\ current \in Counters
  BY <1>0 DEF MSTypeOK, OneCounter, Holders
<1>2. count[current] = Cardinality(Holders)
  BY <1>1, MSConstants DEF CountExact
<1>3. \A x \in Requests : x # r /\ pc[x] \in Locked => ctr[x] # ctr[r]
  BY <1>0 DEF Mutex, Locked
<1>4. Holders' = Holders \ {r}
  BY <1>0 DEF Holders, MSTypeOK
<1>5. Cardinality(Holders') = Cardinality(Holders) - 1 /\ Cardinality(Holders) > 0
  <2>1. Cardinality(Holders \ {r}) = Cardinality(Holders) - 1
    BY <1>1, HoldersFinite, FS_RemoveElement
  <2>2. Cardinality(Holders \ {r}) \in Nat
    BY HoldersFinite, FS_RemoveElement, FS_CardinalityType
  <2> QED BY <1>4, <2>1, <2>2, HoldersFinite
<1>6. count'[current] = Cardinality(Holders')
  BY <1>0, <1>1, <1>2, <1>5 DEF MSTypeOK
<1>7. MSTypeOK'
  BY <1>0, <1>1 DEF MSTypeOK
<1>8. Mutex' /\ StillCurrent'
  BY <1>0, <1>1 DEF MSTypeOK, Mutex, StillCurrent, Locked
<1>9. OneCounter'
  BY <1>0, <1>4 DEF OneCounter
<1>10. DeletedIsEmpty'
  <2> SUFFICES ASSUME NEW x \in Requests, pc'[x] = "delete" PROVE count'[ctr[x]] = 0
    BY <1>0 DEF DeletedIsEmpty
  <2>1. CASE x = r
    BY <1>0, <1>1, <1>2, <1>5, <2>1, HoldersFinite DEF MSTypeOK
  <2>2. CASE x # r
    BY <1>0, <1>3, <2>2 DEF MSTypeOK, DeletedIsEmpty, Locked
  <2> QED BY <2>1, <2>2
<1>11. CountExact' /\ LimitRespected'
  BY <1>0, <1>5, <1>6, HoldersFinite, MSConstants DEF CountExact, LimitRespected
<1> QED BY <1>7, <1>8, <1>9, <1>10, <1>11

LEMMA DeleteKeeps ==
    ASSUME MSInv, NEW r \in Requests, CompareAndDelete(r)
    PROVE  MSInv'
<1> USE DEF MSInv
<1>0. /\ pc[r] = "delete" /\ ctr[r] = current /\ current' = None
      /\ pc' = [pc EXCEPT ![r] = "unlock"] /\ count' = count /\ mu' = mu /\ ctr' = ctr
  BY DEF CompareAndDelete, Go, StillCurrent
<1>1. current \in Counters /\ count[current] = 0
  BY <1>0 DEF MSTypeOK, DeletedIsEmpty
<1>2. Cardinality(Holders) = 0
  BY <1>1, MSConstants DEF CountExact
<1>3. Holders = {}
  BY <1>2, HoldersFinite, FS_EmptySet
<1>4. Holders' = {}
  BY <1>0, <1>3 DEF Holders, MSTypeOK
<1>5. \A x \in Requests : x # r => pc[x] \notin {"admit", "delete"}
  BY <1>0 DEF Mutex, StillCurrent, Locked
<1>6. MSTypeOK'
  BY <1>0, <1>1 DEF MSTypeOK
<1>7. Mutex' /\ StillCurrent' /\ DeletedIsEmpty'
  BY <1>0, <1>5 DEF MSTypeOK, Mutex, StillCurrent, DeletedIsEmpty, Locked
<1>8. OneCounter' /\ CountExact'
  BY <1>0, <1>4 DEF OneCounter, CountExact
<1>9. LimitRespected'
  BY <1>4, FS_EmptySet, MSConstants DEF LimitRespected
<1> QED BY <1>6, <1>7, <1>8, <1>9

LEMMA UnlockKeeps ==
    ASSUME MSInv, NEW r \in Requests, Unlock(r)
    PROVE  MSInv'
<1> USE DEF MSInv
<1>0. /\ pc[r] = "unlock" /\ current' = current /\ count' = count
      /\ mu' = [mu EXCEPT ![ctr[r]] = None]
      /\ ctr' = [ctr EXCEPT ![r] = None]
      /\ pc' = [pc EXCEPT ![r] = "idle"]
  BY DEF Unlock, Go
<1>1. ctr[r] \in Counters
  BY <1>0 DEF MSTypeOK
<1>2. Holders' = Holders
  BY <1>0 DEF Holders, MSTypeOK
<1>3. MSTypeOK'
  BY <1>0, <1>1 DEF MSTypeOK
<1>4. Mutex'
  BY <1>0, <1>1 DEF MSTypeOK, Mutex, Locked
<1>5. StillCurrent' /\ DeletedIsEmpty' /\ OneCounter'
  BY <1>0, <1>2 DEF MSTypeOK, StillCurrent, DeletedIsEmpty, OneCounter, Holders
<1> QED BY <1>0, <1>2, <1>3, <1>4, <1>5, SameHolders

----------------------------------------------------------------------------
LEMMA InitInv == MSInit => MSInv
<1> SUFFICES ASSUME MSInit PROVE MSInv OBVIOUS
<1>1. Holders = {}
  BY DEF MSInit, Holders
<1>2. MSTypeOK /\ Mutex /\ StillCurrent /\ DeletedIsEmpty
  BY DEF MSInit, MSTypeOK, Mutex, StillCurrent, DeletedIsEmpty, Locked
<1>3. OneCounter /\ CountExact
  BY <1>1 DEF MSInit, OneCounter, CountExact
<1>4. LimitRespected
  BY <1>1, FS_EmptySet, MSConstants DEF LimitRespected
<1> QED BY <1>2, <1>3, <1>4 DEF MSInv

LEMMA StepInv == MSInv /\ [MSNext]_msVars => MSInv'
<1> SUFFICES ASSUME MSInv, [MSNext]_msVars PROVE MSInv' OBVIOUS
<1>1. CASE UNCHANGED msVars
  BY <1>1 DEF msVars, MSInv, MSTypeOK, Mutex, StillCurrent, DeletedIsEmpty, OneCounter,
              CountExact, LimitRespected, Holders
<1>2. CASE MSNext
  <2> PICK r \in Requests : Step(r)
    BY <1>2 DEF MSNext
  <2> QED BY LoadKeeps, LockKeeps, CheckKeeps, AdmitKeeps, ReleaseCountKeeps, DeleteKeeps,
             UnlockKeeps DEF Step
<1> QED BY <1>1, <1>2

\* The inductive invariant holds in every reachable state.
THEOREM MSInvariant == MSSpec => []MSInv
BY InitInv, StepInv, PTL DEF MSSpec

\* No interleaving of acquireValuePackageMemorySlot and of release closures
\* ever lets more than Limit requests of a package run, for any number of
\* requests and any limit.
THEOREM LimitIsRespected == MSSpec => []LimitRespected
<1>1. MSInv => LimitRespected
  BY DEF MSInv
<1> QED BY <1>1, MSInvariant, PTL

\* All running requests are counted on the counter that is in the map.
THEOREM CountedOnOneCounter == MSSpec => []OneCounter
<1>1. MSInv => OneCounter
  BY DEF MSInv
<1> QED BY <1>1, MSInvariant, PTL

----------------------------------------------------------------------------
\* Every step of the limiter is a step of the abstract one or changes nothing
\* that the abstract one sees.
LEMMA StepRefines ==
    ASSUME MSInv, [MSNext]_msVars
    PROVE  [Limiter!SlotNext]_(Limiter!slotVars)
<1> USE DEF Limiter!slotVars
<1>1. CASE UNCHANGED msVars
  BY <1>1 DEF msVars, Holders, Asking
<1>2. ASSUME NEW r \in Requests, Step(r)
      PROVE  [Limiter!SlotNext]_(Limiter!slotVars)
  <2>0. MSTypeOK
    BY DEF MSInv
  <2>card. Limiter!Cardinality(Holders) = Cardinality(Holders)
    BY DEF Limiter!Cardinality, Cardinality
  <2>1. CASE LoadOrStore(r)
    <3>1. pc[r] \in {"idle", "again"} /\ pc' = [pc EXCEPT ![r] = "lock"]
      BY <2>1 DEF LoadOrStore, Go
    <3>2. Holders' = Holders /\ Asking' = Asking \cup {r}
      BY <2>0, <3>1 DEF Holders, Asking, MSTypeOK
    <3>3. CASE pc[r] = "idle"
      <4>1. r \notin Holders \cup Asking
        BY <3>3 DEF Holders, Asking
      <4> QED BY <3>2, <4>1 DEF Limiter!SlotNext, Limiter!Ask
    <3>4. CASE pc[r] = "again"
      <4>1. r \in Asking
        BY <3>4 DEF Asking
      <4> QED BY <3>2, <4>1
    <3> QED BY <3>1, <3>3, <3>4
  <2>2. CASE Lock(r) \/ Check(r) \/ ReleaseLock(r) \/ CompareAndDelete(r) \/ Unlock(r)
    <3>1. Holders' = Holders /\ Asking' = Asking
      BY <2>0, <2>2 DEF Lock, Check, ReleaseLock, CompareAndDelete, Unlock, Go, Holders, Asking,
                        MSTypeOK
    <3> QED BY <3>1
  <2>3. CASE Admit(r)
    <3>1. pc[r] = "admit" /\ r \in Asking
      BY <2>3 DEF Admit, Asking
    <3>2. ctr[r] = current /\ current # None
      BY <2>0, <3>1, MSConstants DEF MSInv, StillCurrent, MSTypeOK
    <3>3. count[ctr[r]] = Cardinality(Holders) /\ Cardinality(Holders) \in Nat
      BY <3>2, HoldersFinite DEF MSInv, CountExact
    <3>4. CASE count[ctr[r]] >= Limit
      <4>1. pc' = [pc EXCEPT ![r] = "idle"]
        BY <2>3, <3>4 DEF Admit, Go
      <4>2. Holders' = Holders /\ Asking' = Asking \ {r}
        BY <2>0, <3>1, <4>1 DEF Holders, Asking, MSTypeOK
      <4> QED BY <2>card, <3>1, <3>3, <3>4, <4>2 DEF Limiter!SlotNext, Limiter!Deny
    <3>5. CASE ~(count[ctr[r]] >= Limit)
      <4>1. pc' = [pc EXCEPT ![r] = "holding"]
        BY <2>3, <3>5 DEF Admit, Go
      <4>2. Holders' = Holders \cup {r} /\ Asking' = Asking \ {r}
        BY <2>0, <3>1, <4>1 DEF Holders, Asking, MSTypeOK
      <4>3. Cardinality(Holders) < Limit
        BY <3>3, <3>5, MSConstants
      <4> QED BY <2>card, <3>1, <4>2, <4>3 DEF Limiter!SlotNext, Limiter!Admit
    <3> QED BY <3>4, <3>5
  <2>4. CASE ReleaseCount(r)
    <3>1. pc[r] = "leave" /\ pc'[r] \in {"delete", "unlock"}
          /\ \A x \in Requests : x # r => pc'[x] = pc[x]
      BY <2>0, <2>4 DEF ReleaseCount, Go, MSTypeOK
    <3>2. r \in Holders /\ Holders' = Holders \ {r} /\ Asking' = Asking
      BY <3>1 DEF Holders, Asking
    <3> QED BY <3>2 DEF Limiter!SlotNext, Limiter!Leave
  <2> QED BY <1>2, <2>1, <2>2, <2>3, <2>4 DEF Step
<1> QED BY <1>1, <1>2 DEF MSNext

\* The in-process limiter implements the counting semaphore of SlotLimiter:
\* it admits below the limit and denies only when Limit requests run.
THEOREM ImplementsSlotLimiter == MSSpec => IsASlotLimiter
<1>1. MSInit => Limiter!SlotInit
  BY DEF MSInit, Limiter!SlotInit, Holders, Asking
<1>2. MSInv /\ [MSNext]_msVars => [Limiter!SlotNext]_(Limiter!slotVars)
  BY StepRefines
<1> QED BY <1>1, <1>2, MSInvariant, PTL DEF MSSpec, IsASlotLimiter, Limiter!SlotSpec
----------------------------------------------------------------------------
(* The limiter in Redis.                                                    *)

RunStates == {"idle", "running", "refused", "released", "over"}

SharedTypeOK ==
    /\ now \in Nat \ {0}
    /\ score \in [Requests -> Nat]
    /\ expireAt \in Nat
    /\ run \in [Requests -> RunStates]
    /\ fresh \in [Requests -> {"off", "on", "sent"}]
    /\ since \in [Requests -> Nat]
    /\ endedAt \in [Requests -> Nat]
    /\ faults \in Nat

\* Scores and attempts are of the past; a refresh is sent at once and tried
\* again after RefreshInterval; a refresher outlives its request within the
\* tick only.
ClockOK ==
    \A r \in Requests :
        /\ score[r] <= now /\ since[r] <= now
        /\ fresh[r] = "sent" => since[r] = now
        /\ fresh[r] = "on" => now <= since[r] + RefreshInterval
        /\ fresh[r] # "off" /\ run[r] # "running" => run[r] # "idle" /\ endedAt[r] = now

\* The slot of a request that ended without giving it back has a score no
\* later than the end.
EndedOK ==
    \A r \in Requests : run[r] \in {"over", "refused"} => score[r] <= endedAt[r]

\* So few faults that a refresh still comes before the TTL is over.
FewFaults == faults <= (TTL \div RefreshInterval) - 2

\* The time that missed refreshes may have cost a slot so far.
Missed == RefreshInterval * faults

\* The slot of a running request is in the sorted set, the key outlives it,
\* its refresher works, and its score is late by the missed refreshes at most.
KeptSlot(r) ==
    /\ score[r] >= 1
    /\ expireAt >= score[r] + TTL
    /\ fresh[r] # "off"
    /\ fresh[r] = "on" => since[r] <= score[r] + Missed
    /\ fresh[r] = "sent" => since[r] <= score[r] + Missed + RefreshInterval

Running == {r \in Requests : run[r] = "running"}

SlotsKept == FewFaults => \A r \in Running : KeptSlot(r)

RunningFew == FewFaults => Cardinality(Running) <= Limit

\* The inductive invariant of the limiter in Redis.
SharedInv ==
    /\ SharedTypeOK
    /\ ClockOK
    /\ EndedOK
    /\ ReleasedSlotStaysFree
    /\ SlotsKept
    /\ RunningFew

----------------------------------------------------------------------------
LEMMA SharedConstants ==
    /\ IsFiniteSet(Requests) /\ Limit \in Nat \ {0}
    /\ TTL \in Nat \ {0} /\ RefreshInterval \in Nat \ {0}
<1>1. IsFiniteSet(Requests) /\ Limit \in Nat \ {0}
  BY MSConstants
<1>2. TTL \in Nat \ {0} /\ RefreshInterval \in Nat \ {0}
  BY PLConstants DEF Shared!RSConstants
<1> QED BY <1>1, <1>2

\* Both modules count alike.
LEMMA SharedCardinality == \A S : Shared!Cardinality(S) = Cardinality(S)
BY DEF Shared!Cardinality, Cardinality

\* What the scripts find of a member, before and after the purge.
LEMMA WhatScriptsSee ==
    ASSUME SharedTypeOK
    PROVE  /\ Shared!Stored \in [Requests -> Nat]
           /\ Shared!Purged \in [Requests -> Nat]
           /\ \A x \in Requests :
                /\ Shared!Stored[x] = IF now < expireAt THEN score[x] ELSE 0
                /\ Shared!Purged[x] = IF Shared!Stored[x] > now - TTL
                                      THEN Shared!Stored[x] ELSE 0
BY SharedConstants DEF SharedTypeOK, Shared!Stored, Shared!Purged

\* Two refreshes fit between the missed ones and the TTL.
LEMMA TimeLeft ==
    ASSUME faults \in Nat, FewFaults
    PROVE  Missed \in Nat /\ Missed + 2 * RefreshInterval <= TTL
<1> DEFINE q == TTL \div RefreshInterval
<1>1. q \in Int /\ RefreshInterval * q <= TTL
  BY SharedConstants
<1>2. faults + 2 <= q
  BY <1>1 DEF FewFaults
<1> HIDE DEF q
<1>3. RefreshInterval * (faults + 2) <= RefreshInterval * q
  BY <1>1, <1>2, SharedConstants
<1>4. RefreshInterval * (faults + 2) = Missed + 2 * RefreshInterval /\ Missed \in Nat
  BY SharedConstants DEF Missed
<1> QED BY <1>1, <1>3, <1>4, SharedConstants

\* A step adds at most one fault, and so one missed refresh.
LEMMA FaultsGrow ==
    ASSUME faults \in Nat, faults' = faults \/ faults' = faults + 1
    PROVE  /\ faults' \in Nat
           /\ FewFaults' => FewFaults
           /\ Missed \in Nat /\ Missed' \in Nat /\ Missed <= Missed'
           /\ faults' = faults + 1 => Missed' = Missed + RefreshInterval
<1>1. faults' \in Nat
  OBVIOUS
<1>2. FewFaults' => FewFaults
  <2>1. TTL \div RefreshInterval \in Int
    BY SharedConstants
  <2> QED BY <1>1, <2>1 DEF FewFaults
<1>3. Missed \in Nat /\ Missed' \in Nat
  <2>1. \A f \in Nat : RefreshInterval * f \in Nat
    BY SharedConstants
  <2> QED BY <1>1, <2>1 DEF Missed
<1>4. faults' = faults + 1 => Missed' = Missed + RefreshInterval
  BY SharedConstants DEF Missed
<1>5. faults' = faults => Missed' = Missed
  BY DEF Missed
<1> QED BY <1>1, <1>2, <1>3, <1>4, <1>5, SharedConstants

\* Neither the expiry of the key nor the purge takes the slot of a request
\* that runs.
LEMMA KeptSlotLives ==
    ASSUME SharedInv, FewFaults, NEW x \in Running
    PROVE  /\ x \in Requests /\ KeptSlot(x)
           /\ Shared!Stored[x] = score[x] /\ Shared!Purged[x] = score[x]
<1>1. x \in Requests /\ run[x] = "running" /\ KeptSlot(x)
  BY DEF SharedInv, SlotsKept, Running
<1>2. Missed \in Nat /\ Missed + 2 * RefreshInterval <= TTL
  BY TimeLeft DEF SharedInv, SharedTypeOK
<1>3. now < score[x] + TTL
  <2>1. CASE fresh[x] = "on"
    BY <1>1, <1>2, <2>1, SharedConstants DEF SharedInv, SharedTypeOK, ClockOK, KeptSlot
  <2>2. CASE fresh[x] = "sent"
    BY <1>1, <1>2, <2>2, SharedConstants DEF SharedInv, SharedTypeOK, ClockOK, KeptSlot
  <2> QED BY <1>1, <2>1, <2>2 DEF SharedInv, SharedTypeOK, KeptSlot
<1>4. SharedTypeOK
  BY DEF SharedInv
<1>5. now < expireAt /\ score[x] > now - TTL
  BY <1>1, <1>3, <1>4, SharedConstants DEF SharedTypeOK, KeptSlot
<1> QED BY <1>1, <1>4, <1>5, WhatScriptsSee DEF SharedTypeOK

\* A step that does not touch a kept slot leaves it one.
LEMMA UntouchedSlot ==
    ASSUME SharedInv, SharedTypeOK', FewFaults', NEW x \in Running,
           faults' = faults \/ faults' = faults + 1,
           score'[x] = score[x], fresh'[x] = fresh[x], since'[x] = since[x],
           expireAt' = expireAt \/ expireAt' = now + TTL
    PROVE  KeptSlot(x)'
<1>1. faults \in Nat
  BY DEF SharedInv, SharedTypeOK
<1>2. FewFaults /\ Missed \in Nat /\ Missed' \in Nat /\ Missed <= Missed'
  BY <1>1, FaultsGrow
<1>3. x \in Requests /\ KeptSlot(x)
  BY <1>2, KeptSlotLives
<1>4. score[x] \in Nat /\ since[x] \in Nat /\ score[x] <= now /\ now \in Nat /\ expireAt \in Nat
  BY <1>3 DEF SharedInv, SharedTypeOK, ClockOK
<1>5. expireAt' >= score[x] + TTL
  BY <1>3, <1>4, SharedConstants DEF KeptSlot
<1> QED BY <1>2, <1>3, <1>4, <1>5, SharedConstants DEF KeptSlot

\* Running requests form a finite set; with one more it is one larger.
LEMMA RunningFinite ==
    /\ IsFiniteSet(Running) /\ Cardinality(Running) \in Nat
    /\ (Running' \subseteq Running /\ RunningFew /\ FewFaults) => Cardinality(Running') <= Limit
<1>1. IsFiniteSet(Running) /\ Cardinality(Running) \in Nat
  BY FS_Subset, FS_CardinalityType, SharedConstants DEF Running
<1>2. ASSUME Running' \subseteq Running PROVE Cardinality(Running') <= Cardinality(Running) /\ Cardinality(Running') \in Nat
  BY <1>1, <1>2, FS_Subset, FS_CardinalityType
<1> QED BY <1>1, <1>2, SharedConstants DEF RunningFew

----------------------------------------------------------------------------
\* What the acquire script leaves: purged members, and its own slot below the
\* limit.
LEMMA AcquireScriptDoes ==
    ASSUME SharedInv, NEW r \in Requests, Shared!AcquireScript(r)
    PROVE  /\ expireAt' = now + TTL
           /\ score' \in [Requests -> Nat]
           /\ \A x \in Requests : score'[x] = Shared!Purged[x] \/ (x = r /\ score'[x] = now)
           /\ Shared!Admitted(r) => score'[r] = now
<1>1. Shared!Purged \in [Requests -> Nat] /\ now \in Nat
  BY WhatScriptsSee DEF SharedInv, SharedTypeOK
<1>2. expireAt' = now + TTL
  BY DEF Shared!AcquireScript
<1>3. score' = Shared!Purged \/ score' = [Shared!Purged EXCEPT ![r] = now]
  BY DEF Shared!AcquireScript, Shared!SlotScore
<1>4. ASSUME Shared!Admitted(r) PROVE score' = [Shared!Purged EXCEPT ![r] = now]
  <2>1. Shared!Cardinality(Shared!Members(Shared!Purged)) \in Nat
    <3>1. IsFiniteSet(Shared!Members(Shared!Purged))
      BY FS_Subset, SharedConstants DEF Shared!Members
    <3> QED BY <3>1, FS_CardinalityType, SharedCardinality
  <2>2. ~(Shared!Cardinality(Shared!Members(Shared!Purged)) >= Limit)
    BY <1>4, <2>1, SharedConstants DEF Shared!Admitted
  <2> QED BY <2>2 DEF Shared!AcquireScript, Shared!SlotScore
<1> QED BY <1>1, <1>2, <1>3, <1>4

LEMMA AcquireKeeps ==
    ASSUME SharedInv, NEW r \in Requests, Shared!Acquire(r)
    PROVE  SharedInv'
<1> USE DEF SharedInv
<1>0. /\ run[r] = "idle" /\ now' = now
      /\ since' = [since EXCEPT ![r] = now] /\ endedAt' = [endedAt EXCEPT ![r] = now]
  BY DEF Shared!Acquire
<1>1. faults' = faults \/ faults' = faults + 1
  BY DEF Shared!Acquire, Shared!Fault, Shared!Answered
<1>2. /\ expireAt' = expireAt \/ expireAt' = now + TTL
      /\ score' \in [Requests -> Nat]
      /\ \A x \in Requests : score'[x] \in {score[x], Shared!Purged[x]} \/ (x = r /\ score'[x] = now)
      /\ score' = score \/ Shared!AcquireScript(r)
  <2>1. Shared!AcquireScript(r) \/ (score' = score /\ expireAt' = expireAt)
    BY DEF Shared!Acquire
  <2> QED BY <2>1, AcquireScriptDoes DEF SharedTypeOK
<1>3. \/ /\ Shared!Admitted(r) /\ Shared!AcquireScript(r) /\ faults' = faults
         /\ run' = [run EXCEPT ![r] = "running"]
         /\ fresh' = [fresh EXCEPT ![r] = "on"]
      \/ /\ run' = [run EXCEPT ![r] = "refused"]
         /\ fresh' = [fresh EXCEPT ![r] = "off"] \/ fresh' = fresh
  BY DEF Shared!Acquire, Shared!Answered
<1>4. fresh[r] = "off"
  BY <1>0 DEF SharedTypeOK, ClockOK
<1>5. \A x \in Requests : /\ score'[x] <= score[x] \/ (x = r /\ score'[x] = now)
                          /\ score'[x] \in Nat /\ score'[x] <= now
  <2>1. \A x \in Requests : Shared!Purged[x] <= score[x]
    BY WhatScriptsSee, SharedConstants DEF SharedTypeOK
  <2> SUFFICES ASSUME NEW x \in Requests
               PROVE  /\ score'[x] <= score[x] \/ (x = r /\ score'[x] = now)
                      /\ score'[x] \in Nat /\ score'[x] <= now
    OBVIOUS
  <2>2. score'[x] <= score[x] \/ (x = r /\ score'[x] = now)
    BY <1>2, <2>1 DEF SharedTypeOK
  <2>3. score'[x] \in Nat /\ score[x] \in Nat /\ now \in Nat
    BY <1>2 DEF SharedTypeOK
  <2>4. score[x] <= now
    BY DEF ClockOK
  <2> QED BY <2>2, <2>3, <2>4
<1>6. SharedTypeOK'
  <2>1. expireAt' \in Nat /\ faults' \in Nat
    BY <1>1, <1>2, SharedConstants DEF SharedTypeOK
  <2>2. run' \in [Requests -> RunStates] /\ fresh' \in [Requests -> {"off", "on", "sent"}]
    BY <1>3 DEF SharedTypeOK, RunStates
  <2> QED BY <1>0, <1>2, <2>1, <2>2 DEF SharedTypeOK
<1>7. ClockOK'
  <2> SUFFICES ASSUME NEW x \in Requests PROVE ClockOK!(x)'
    BY DEF ClockOK
  <2>1. score'[x] <= now'
    BY <1>0, <1>5
  <2>2. CASE x = r
    BY <1>0, <1>3, <1>4, <2>1, <2>2, SharedConstants DEF SharedTypeOK, ClockOK
  <2>3. CASE x # r
    BY <1>0, <1>3, <2>1, <2>3 DEF SharedTypeOK, ClockOK
  <2> QED BY <2>2, <2>3
<1>8. EndedOK'
  <2> SUFFICES ASSUME NEW x \in Requests, run'[x] \in {"over", "refused"}
               PROVE  score'[x] <= endedAt'[x]
    BY DEF EndedOK
  <2>1. CASE x = r
    BY <1>0, <1>5, <2>1 DEF SharedTypeOK
  <2>2. CASE x # r
    <3>1. run'[x] = run[x] /\ endedAt'[x] = endedAt[x] /\ score'[x] <= score[x]
      BY <1>0, <1>3, <1>5, <2>2 DEF SharedTypeOK
    <3>2. score[x] \in Nat /\ endedAt[x] \in Nat /\ score'[x] \in Nat
      BY <1>5 DEF SharedTypeOK
    <3>3. score[x] <= endedAt[x]
      BY <3>1 DEF EndedOK
    <3> QED BY <3>1, <3>2, <3>3
  <2> QED BY <2>1, <2>2
<1>9. ReleasedSlotStaysFree'
  <2> SUFFICES ASSUME NEW x \in Requests, run'[x] = "released"
               PROVE  Shared!Stored'[x] = 0
    BY DEF ReleasedSlotStaysFree, Shared!ReleasedSlotStaysFree
  <2>1. x # r /\ run[x] = "released"
    BY <1>3 DEF SharedTypeOK
  <2>2. Shared!Stored[x] = 0
    BY <2>1 DEF ReleasedSlotStaysFree, Shared!ReleasedSlotStaysFree
  <2>3. Shared!Purged[x] = 0
    BY <2>2, WhatScriptsSee
  <2>4. Shared!Stored'[x] = IF now' < expireAt' THEN score'[x] ELSE 0
    BY DEF Shared!Stored
  <2>5. CASE Shared!AcquireScript(r)
    BY <2>1, <2>3, <2>4, <2>5, AcquireScriptDoes
  <2>6. CASE score' = score /\ expireAt' = expireAt
    BY <1>0, <2>2, <2>4, <2>6, WhatScriptsSee
  <2> QED BY <2>5, <2>6 DEF Shared!Acquire
<1>10. ASSUME FewFaults' PROVE FewFaults /\ Running \subseteq Shared!Members(Shared!Purged)
  <2>1. FewFaults
    BY <1>1, <1>10, FaultsGrow DEF SharedTypeOK
  <2>2. ASSUME NEW x \in Running PROVE x \in Shared!Members(Shared!Purged)
    BY <2>1, KeptSlotLives DEF Shared!Members, KeptSlot, SharedTypeOK
  <2> QED BY <2>1, <2>2
<1>11. SlotsKept'
  <2> SUFFICES ASSUME FewFaults', NEW x \in Running' PROVE KeptSlot(x)'
    BY DEF SlotsKept
  <2>1. CASE x # r
    <3>1. x \in Running /\ x \in Requests
      BY <1>3, <2>1 DEF Running, SharedTypeOK
    <3>2. score'[x] = score[x]
      BY <1>2, <1>10, <2>1, <3>1, KeptSlotLives
    <3>3. fresh'[x] = fresh[x] /\ since'[x] = since[x]
      BY <1>0, <1>3, <2>1, <3>1 DEF SharedTypeOK
    <3> QED BY <1>1, <1>2, <1>6, <3>1, <3>2, <3>3, UntouchedSlot
  <2>2. CASE x = r
    <3>1. Shared!Admitted(r) /\ Shared!AcquireScript(r) /\ fresh'[r] = "on" /\ faults' = faults
      BY <1>3, <2>2 DEF Running, SharedTypeOK
    <3>2. score'[r] = now /\ expireAt' = now + TTL /\ since'[r] = now
      BY <1>0, <3>1, AcquireScriptDoes DEF SharedTypeOK
    <3>3. Missed' \in Nat
      BY <1>1, FaultsGrow DEF SharedTypeOK
    <3> QED BY <2>2, <3>1, <3>2, <3>3, SharedConstants DEF KeptSlot, SharedTypeOK
  <2> QED BY <2>1, <2>2
<1>12. RunningFew'
  <2> SUFFICES ASSUME FewFaults' PROVE Cardinality(Running') <= Limit
    BY DEF RunningFew
  <2>1. CASE Running' \subseteq Running
    BY <1>10, <2>1, RunningFinite
  <2>2. CASE Shared!Admitted(r) /\ run' = [run EXCEPT ![r] = "running"]
    <3>1. Running' = Running \cup {r} /\ r \notin Running
      BY <1>0, <2>2 DEF Running, SharedTypeOK
    <3>2. Cardinality(Running') = Cardinality(Running) + 1
      BY <3>1, RunningFinite, FS_AddElement
    <3>3. IsFiniteSet(Shared!Members(Shared!Purged))
      BY FS_Subset, SharedConstants DEF Shared!Members
    <3>4. /\ Cardinality(Running) <= Cardinality(Shared!Members(Shared!Purged))
          /\ Cardinality(Shared!Members(Shared!Purged)) \in Nat
      BY <1>10, <3>3, FS_Subset, FS_CardinalityType
    <3>5. Cardinality(Shared!Members(Shared!Purged)) < Limit
      BY <2>2, SharedCardinality DEF Shared!Admitted
    <3> QED BY <3>2, <3>4, <3>5, RunningFinite, SharedConstants
  <2>3. run' = [run EXCEPT ![r] = "refused"] => Running' \subseteq Running
    BY DEF Running, SharedTypeOK
  <2> QED BY <1>3, <2>1, <2>2, <2>3
<1> QED BY <1>6, <1>7, <1>8, <1>9, <1>11, <1>12

----------------------------------------------------------------------------
LEMMA RefreshSendKeeps ==
    ASSUME SharedInv, NEW r \in Requests, Shared!RefreshSend(r)
    PROVE  SharedInv'
<1> USE DEF SharedInv
<1>0. /\ fresh[r] = "on"
      /\ fresh' = [fresh EXCEPT ![r] = "sent"] /\ since' = [since EXCEPT ![r] = now]
      /\ now' = now /\ score' = score /\ expireAt' = expireAt /\ run' = run
      /\ endedAt' = endedAt /\ faults' = faults
  BY DEF Shared!RefreshSend, Shared!Due
<1>1. SharedTypeOK'
  BY <1>0 DEF SharedTypeOK
<1>2. ClockOK'
  <2> SUFFICES ASSUME NEW x \in Requests PROVE ClockOK!(x)'
    BY DEF ClockOK
  <2>1. CASE x = r
    BY <1>0, <2>1 DEF SharedTypeOK, ClockOK
  <2>2. CASE x # r
    BY <1>0, <2>2 DEF SharedTypeOK, ClockOK
  <2> QED BY <2>1, <2>2
<1>3. EndedOK'
  BY <1>0 DEF EndedOK
<1>4. ReleasedSlotStaysFree'
  BY <1>0 DEF ReleasedSlotStaysFree, Shared!ReleasedSlotStaysFree, Shared!Stored
<1>5. SlotsKept'
  <2> SUFFICES ASSUME FewFaults', NEW x \in Running' PROVE KeptSlot(x)'
    BY DEF SlotsKept
  <2>1. x \in Running /\ FewFaults /\ x \in Requests
    BY <1>0 DEF Running, FewFaults
  <2>2. CASE x # r
    <3>1. fresh'[x] = fresh[x] /\ since'[x] = since[x]
      BY <1>0, <2>1, <2>2 DEF SharedTypeOK
    <3> QED BY <1>0, <1>1, <2>1, <3>1, UntouchedSlot
  <2>3. CASE x = r
    <3>1. KeptSlot(r) /\ Missed \in Nat
      BY <2>1, <2>3, KeptSlotLives, TimeLeft DEF SharedTypeOK
    <3>2. Missed' = Missed /\ fresh'[r] = "sent" /\ since'[r] = now
      BY <1>0 DEF Missed, SharedTypeOK
    <3>3. since[r] <= score[r] + Missed /\ now <= since[r] + RefreshInterval
      BY <1>0, <3>1 DEF KeptSlot, ClockOK
    <3>4. now <= score[r] + Missed + RefreshInterval
      BY <3>1, <3>3, SharedConstants DEF SharedTypeOK
    <3> QED BY <1>0, <2>3, <3>1, <3>2, <3>4 DEF KeptSlot
  <2> QED BY <2>2, <2>3
<1>6. RunningFew'
  BY <1>0 DEF RunningFew, Running, FewFaults
<1> QED BY <1>1, <1>2, <1>3, <1>4, <1>5, <1>6

LEMMA RefreshStopKeeps ==
    ASSUME SharedInv, NEW r \in Requests, Shared!RefreshStop(r)
    PROVE  SharedInv'
<1> USE DEF SharedInv
<1>0. /\ run[r] # "running" /\ fresh' = [fresh EXCEPT ![r] = "off"] /\ since' = since
      /\ now' = now /\ score' = score /\ expireAt' = expireAt /\ run' = run
      /\ endedAt' = endedAt /\ faults' = faults
  BY DEF Shared!RefreshStop
<1>1. SharedTypeOK'
  BY <1>0 DEF SharedTypeOK
<1>2. ClockOK'
  BY <1>0 DEF SharedTypeOK, ClockOK
<1>3. EndedOK'
  BY <1>0 DEF EndedOK
<1>4. ReleasedSlotStaysFree'
  BY <1>0 DEF ReleasedSlotStaysFree, Shared!ReleasedSlotStaysFree, Shared!Stored
<1>5. SlotsKept'
  <2> SUFFICES ASSUME FewFaults', NEW x \in Running' PROVE KeptSlot(x)'
    BY DEF SlotsKept
  <2>1. x \in Running /\ x # r /\ x \in Requests
    BY <1>0 DEF Running
  <2>2. fresh'[x] = fresh[x]
    BY <1>0, <2>1 DEF SharedTypeOK
  <2> QED BY <1>0, <1>1, <2>1, <2>2, UntouchedSlot
<1>6. RunningFew'
  BY <1>0 DEF RunningFew, Running, FewFaults
<1> QED BY <1>1, <1>2, <1>3, <1>4, <1>5, <1>6

\* What a refresh leaves of the sorted set: a member it found gets the time
\* of the attempt, and nothing else changes.
LEMMA RefreshScriptDoes ==
    ASSUME SharedInv, NEW r \in Requests, fresh[r] = "sent",
           Shared!RefreshScript(r) \/ (score' = score /\ expireAt' = expireAt)
    PROVE  /\ score' \in [Requests -> Nat]
           /\ \/ score' = score /\ expireAt' = expireAt
              \/ /\ Shared!Stored[r] > 0 /\ expireAt' = now + TTL /\ score'[r] = now
                 /\ \A x \in Requests : x # r => score'[x] = Shared!Stored[x]
           /\ Shared!RefreshScript(r) /\ Shared!Stored[r] > 0 =>
                 expireAt' = now + TTL /\ score'[r] = now
<1>1. Shared!Stored \in [Requests -> Nat] /\ since[r] = now /\ now \in Nat
  BY WhatScriptsSee DEF SharedInv, SharedTypeOK, ClockOK
<1>2. CASE Shared!RefreshScript(r) /\ Shared!Stored[r] > 0
  <2>1. score' = [Shared!Stored EXCEPT ![r] = now] /\ expireAt' = now + TTL
    BY <1>1, <1>2 DEF Shared!RefreshScript, Shared!SlotScore
  <2> QED BY <1>1, <1>2, <2>1
<1>3. CASE score' = score /\ expireAt' = expireAt /\ ~(Shared!RefreshScript(r) /\ Shared!Stored[r] > 0)
  BY <1>3 DEF SharedInv, SharedTypeOK
<1>4. Shared!RefreshScript(r) /\ ~(Shared!Stored[r] > 0) => score' = score /\ expireAt' = expireAt
  BY DEF Shared!RefreshScript
<1> QED BY <1>2, <1>3, <1>4

LEMMA RefreshRunKeeps ==
    ASSUME SharedInv, NEW r \in Requests, Shared!RefreshRun(r)
    PROVE  SharedInv'
<1> USE DEF SharedInv
<1>0. /\ fresh[r] = "sent" /\ now' = now /\ run' = run /\ since' = since /\ endedAt' = endedAt
      /\ Shared!RefreshScript(r) \/ (score' = score /\ expireAt' = expireAt)
  BY DEF Shared!RefreshRun
<1>1. \/ /\ faults' = faults /\ Shared!RefreshScript(r)
         /\ fresh' = [fresh EXCEPT ![r] = IF Shared!Stored[r] > 0 THEN "on" ELSE "off"]
      \/ faults' = faults + 1 /\ fresh' = [fresh EXCEPT ![r] = "on"]
  BY DEF Shared!RefreshRun, Shared!Fault, Shared!Answered
<1>2. /\ score' \in [Requests -> Nat]
      /\ \/ score' = score /\ expireAt' = expireAt
         \/ /\ Shared!Stored[r] > 0 /\ expireAt' = now + TTL /\ score'[r] = now
            /\ \A x \in Requests : x # r => score'[x] = Shared!Stored[x]
      /\ Shared!RefreshScript(r) /\ Shared!Stored[r] > 0 =>
            expireAt' = now + TTL /\ score'[r] = now
  BY <1>0, RefreshScriptDoes
<1>3. SharedTypeOK'
  <2>1. expireAt' \in Nat /\ faults' \in Nat
    BY <1>1, <1>2, SharedConstants DEF SharedTypeOK
  <2>2. fresh' \in [Requests -> {"off", "on", "sent"}]
    BY <1>1 DEF SharedTypeOK
  <2> QED BY <1>0, <1>2, <2>1, <2>2 DEF SharedTypeOK
<1>4. \A x \in Requests : score'[x] <= score[x] \/ (x = r /\ score'[x] = now)
  BY <1>2, WhatScriptsSee DEF SharedTypeOK
<1>5. \A x \in Requests : x # r => fresh'[x] = fresh[x]
  BY <1>1 DEF SharedTypeOK
<1>6. ClockOK'
  <2> SUFFICES ASSUME NEW x \in Requests PROVE ClockOK!(x)'
    BY DEF ClockOK
  <2>0. score'[x] \in Nat /\ score[x] \in Nat /\ now \in Nat /\ since[x] \in Nat
    BY <1>2 DEF SharedTypeOK
  <2>1. score[x] <= now
    BY DEF ClockOK
  <2>2. score'[x] <= now
    BY <1>4, <2>0, <2>1
  <2>3. CASE x = r
    <3>1. since[x] = now
      BY <1>0, <2>3 DEF ClockOK
    <3>2. fresh'[x] \in {"on", "off"}
      BY <1>1, <2>3 DEF SharedTypeOK
    <3>3. run[x] # "running" => run[x] # "idle" /\ endedAt[x] = now
      BY <1>0, <2>3 DEF ClockOK
    <3> QED BY <1>0, <2>0, <2>2, <3>1, <3>2, <3>3, SharedConstants
  <2>4. CASE x # r
    BY <1>0, <1>5, <2>2, <2>4 DEF ClockOK
  <2> QED BY <2>3, <2>4
<1>7. EndedOK'
  <2> SUFFICES ASSUME NEW x \in Requests, run[x] \in {"over", "refused"}
               PROVE  score'[x] <= endedAt[x]
    BY <1>0 DEF EndedOK
  <2>1. score[x] <= endedAt[x]
    BY DEF EndedOK
  <2>2. score'[x] \in Nat /\ score[x] \in Nat /\ endedAt[x] \in Nat /\ now \in Nat
    BY <1>2 DEF SharedTypeOK
  <2>3. x = r => endedAt[x] = now
    BY <1>0 DEF ClockOK
  <2> QED BY <1>4, <2>1, <2>2, <2>3
<1>8. ReleasedSlotStaysFree'
  <2> SUFFICES ASSUME NEW x \in Requests, run[x] = "released"
               PROVE  Shared!Stored'[x] = 0
    BY <1>0 DEF ReleasedSlotStaysFree, Shared!ReleasedSlotStaysFree
  <2>1. Shared!Stored[x] = 0
    BY DEF ReleasedSlotStaysFree, Shared!ReleasedSlotStaysFree
  <2>2. Shared!Stored'[x] = IF now' < expireAt' THEN score'[x] ELSE 0
    BY DEF Shared!Stored
  <2>3. CASE score' = score /\ expireAt' = expireAt
    BY <1>0, <2>1, <2>2, <2>3, WhatScriptsSee
  <2>4. CASE Shared!Stored[r] > 0 /\ \A y \in Requests : y # r => score'[y] = Shared!Stored[y]
    BY <2>1, <2>2, <2>4
  <2> QED BY <1>2, <2>3, <2>4
<1>9. faults' = faults \/ faults' = faults + 1
  BY <1>1
<1>10. SlotsKept'
  <2> SUFFICES ASSUME FewFaults', NEW x \in Running' PROVE KeptSlot(x)'
    BY DEF SlotsKept
  <2>1. /\ FewFaults /\ Missed \in Nat /\ Missed' \in Nat /\ Missed <= Missed'
        /\ faults' = faults + 1 => Missed' = Missed + RefreshInterval
    BY <1>9, FaultsGrow DEF SharedTypeOK
  <2>2. x \in Running
    BY <1>0 DEF Running
  <2>3. x \in Requests /\ KeptSlot(x) /\ Shared!Stored[x] = score[x]
    BY <2>1, <2>2, KeptSlotLives
  <2>4. CASE x # r
    <3>1. score'[x] = score[x]
      BY <1>2, <2>3, <2>4
    <3>2. expireAt' = expireAt \/ expireAt' = now + TTL
      BY <1>2
    <3> QED BY <1>0, <1>3, <1>5, <1>9, <2>2, <2>3, <2>4, <3>1, <3>2, UntouchedSlot
  <2>5. CASE x = r
    <3>0. score[r] \in Nat /\ score[r] <= now /\ now \in Nat \ {0} /\ since'[r] = now
      BY <1>0 DEF SharedTypeOK, ClockOK
    <3>1. Shared!Stored[r] > 0
      BY <2>3, <2>5, <3>0 DEF KeptSlot
    <3>2. fresh'[r] = "on"
      BY <1>1, <3>1 DEF SharedTypeOK
    <3>3. CASE score'[r] = now /\ expireAt' = now + TTL
      BY <2>1, <2>5, <3>0, <3>2, <3>3, SharedConstants DEF KeptSlot
    <3>4. CASE score' = score /\ expireAt' = expireAt /\ faults' = faults + 1
      <4>1. now <= score[r] + Missed + RefreshInterval
        BY <1>0, <2>3, <2>5, <3>0 DEF KeptSlot
      <4>2. now <= score[r] + Missed'
        BY <2>1, <3>0, <3>4, <4>1, SharedConstants
      <4> QED BY <2>3, <2>5, <3>0, <3>2, <3>4, <4>2 DEF KeptSlot
    <3>5. CASE score' = score /\ expireAt' = expireAt /\ faults' = faults
      <4>1. Shared!RefreshScript(r)
        BY <1>1, <3>5, <2>1 DEF SharedTypeOK
      <4>2. expireAt' = now + TTL /\ score'[r] = now
        BY <1>2, <3>1, <4>1
      <4> QED BY <3>3, <4>2
    <3> QED BY <1>2, <1>9, <3>3, <3>4, <3>5
  <2> QED BY <2>4, <2>5
<1>11. RunningFew'
  <2> SUFFICES ASSUME FewFaults' PROVE Cardinality(Running') <= Limit
    BY DEF RunningFew
  <2>1. FewFaults
    BY <1>9, FaultsGrow DEF SharedTypeOK
  <2>2. Running' \subseteq Running
    BY <1>0 DEF Running
  <2> QED BY <2>1, <2>2, RunningFinite
<1> QED BY <1>3, <1>6, <1>7, <1>8, <1>10, <1>11

----------------------------------------------------------------------------
LEMMA ReleaseKeeps ==
    ASSUME SharedInv, NEW r \in Requests, Shared!Release(r)
    PROVE  SharedInv'
<1> USE DEF SharedInv
<1>0. /\ run[r] = "running" /\ now' = now /\ fresh' = fresh /\ since' = since
      /\ endedAt' = [endedAt EXCEPT ![r] = now]
  BY DEF Shared!Release
<1>1. \/ /\ Shared!ReleaseScript(r) /\ faults' = faults
         /\ run' = [run EXCEPT ![r] = "released"]
      \/ /\ faults' = faults + 1 /\ run' = [run EXCEPT ![r] = "over"]
         /\ score' = score /\ expireAt' = expireAt
  BY DEF Shared!Release, Shared!Answered, Shared!Fault
<1> DEFINE left == [Shared!Stored EXCEPT ![r] = 0]
<1>2. Shared!ReleaseScript(r) =>
        /\ score' = left
        /\ expireAt' = IF Shared!Members(left) = {} THEN 0 ELSE now + TTL
  BY DEF Shared!ReleaseScript
<1>3. left \in [Requests -> Nat] /\ left[r] = 0 /\ \A x \in Requests : x # r => left[x] = Shared!Stored[x]
  BY WhatScriptsSee
<1> HIDE DEF left
<1>4. faults' = faults \/ faults' = faults + 1
  BY <1>1
<1>5. SharedTypeOK'
  <2>1. score' \in [Requests -> Nat] /\ expireAt' \in Nat /\ faults' \in Nat
    BY <1>1, <1>2, <1>3, SharedConstants DEF SharedTypeOK
  <2>2. run' \in [Requests -> RunStates]
    BY <1>1 DEF SharedTypeOK, RunStates
  <2> QED BY <1>0, <2>1, <2>2 DEF SharedTypeOK
<1>6. \A x \in Requests : score'[x] <= score[x]
  BY <1>1, <1>2, <1>3, WhatScriptsSee DEF SharedTypeOK
<1>7. \A x \in Requests : x # r => run'[x] = run[x] /\ endedAt'[x] = endedAt[x]
  BY <1>0, <1>1 DEF SharedTypeOK
<1>8. run'[r] \in {"released", "over"} /\ endedAt'[r] = now
  BY <1>0, <1>1 DEF SharedTypeOK
<1>9. ClockOK'
  <2> SUFFICES ASSUME NEW x \in Requests PROVE ClockOK!(x)'
    BY DEF ClockOK
  <2>1. score'[x] \in Nat /\ score[x] \in Nat /\ now \in Nat /\ score[x] <= now
    BY <1>5 DEF SharedTypeOK, ClockOK
  <2>2. score'[x] <= now
    BY <1>6, <2>1
  <2>3. CASE x = r
    BY <1>0, <1>8, <2>2, <2>3 DEF ClockOK
  <2>4. CASE x # r
    BY <1>0, <1>7, <2>2, <2>4 DEF ClockOK
  <2> QED BY <2>3, <2>4
<1>10. EndedOK'
  <2> SUFFICES ASSUME NEW x \in Requests, run'[x] \in {"over", "refused"}
               PROVE  score'[x] <= endedAt'[x]
    BY DEF EndedOK
  <2>1. /\ score'[x] \in Nat /\ score[x] \in Nat /\ now \in Nat /\ score[x] <= now
        /\ endedAt[x] \in Nat
    BY <1>5 DEF SharedTypeOK, ClockOK
  <2>2. CASE x = r
    BY <1>6, <1>8, <2>1, <2>2
  <2>3. CASE x # r
    <3>1. score[x] <= endedAt[x] /\ endedAt'[x] = endedAt[x]
      BY <1>7, <2>3 DEF EndedOK
    <3> QED BY <1>6, <2>1, <3>1
  <2> QED BY <2>2, <2>3
<1>11. ReleasedSlotStaysFree'
  <2> SUFFICES ASSUME NEW x \in Requests, run'[x] = "released"
               PROVE  Shared!Stored'[x] = 0
    BY DEF ReleasedSlotStaysFree, Shared!ReleasedSlotStaysFree
  <2>1. Shared!Stored'[x] = IF now' < expireAt' THEN score'[x] ELSE 0
    BY DEF Shared!Stored
  <2>2. x # r => Shared!Stored[x] = 0
    BY <1>7 DEF ReleasedSlotStaysFree, Shared!ReleasedSlotStaysFree
  <2>3. CASE Shared!ReleaseScript(r)
    BY <1>2, <1>3, <2>1, <2>2, <2>3
  <2>4. CASE score' = score /\ expireAt' = expireAt /\ run' = [run EXCEPT ![r] = "over"]
    <3>1. x # r
      BY <2>4 DEF SharedTypeOK
    <3> QED BY <1>0, <2>1, <2>2, <2>4, <3>1, WhatScriptsSee
  <2> QED BY <1>1, <2>3, <2>4
<1>12. SlotsKept'
  <2> SUFFICES ASSUME FewFaults', NEW x \in Running' PROVE KeptSlot(x)'
    BY DEF SlotsKept
  <2>1. x # r /\ x \in Running /\ x \in Requests
    BY <1>7, <1>8 DEF Running
  <2>2. FewFaults
    BY <1>4, FaultsGrow DEF SharedTypeOK
  <2>3. Shared!Stored[x] = score[x] /\ score[x] >= 1
    BY <2>1, <2>2, KeptSlotLives DEF KeptSlot
  <2>4. score'[x] = score[x]
    BY <1>1, <1>2, <1>3, <2>1, <2>3
  <2>5. expireAt' = expireAt \/ expireAt' = now + TTL
    <3>1. left[x] > 0
      BY <1>3, <2>1, <2>3 DEF SharedTypeOK
    <3>2. x \in Shared!Members(left)
      BY <2>1, <3>1 DEF Shared!Members
    <3> QED BY <1>1, <1>2, <3>2
  <2> QED BY <1>0, <1>4, <1>5, <2>1, <2>4, <2>5, UntouchedSlot
<1>13. RunningFew'
  <2> SUFFICES ASSUME FewFaults' PROVE Cardinality(Running') <= Limit
    BY DEF RunningFew
  <2>1. FewFaults
    BY <1>4, FaultsGrow DEF SharedTypeOK
  <2>2. Running' \subseteq Running
    BY <1>7, <1>8 DEF Running
  <2> QED BY <2>1, <2>2, RunningFinite
<1> QED BY <1>5, <1>9, <1>10, <1>11, <1>12, <1>13

LEMMA CrashKeeps ==
    ASSUME SharedInv, NEW S \in SUBSET Requests, Shared!Crash(S)
    PROVE  SharedInv'
<1> USE DEF SharedInv
<1>0. /\ \A x \in S : run[x] = "running"
      /\ now' = now /\ score' = score /\ expireAt' = expireAt /\ since' = since
      /\ faults' = faults + 1
      /\ run' = [x \in Requests |-> IF x \in S THEN "over" ELSE run[x]]
      /\ fresh' = [x \in Requests |-> IF x \in S /\ fresh[x] = "on" THEN "off" ELSE fresh[x]]
      /\ endedAt' = [x \in Requests |-> IF x \in S THEN now ELSE endedAt[x]]
  BY DEF Shared!Crash, Shared!Fault
<1>1. SharedTypeOK'
  BY <1>0 DEF SharedTypeOK, RunStates
<1>2. ClockOK'
  <2> SUFFICES ASSUME NEW x \in Requests PROVE ClockOK!(x)'
    BY DEF ClockOK
  <2>1. CASE x \in S
    BY <1>0, <2>1 DEF ClockOK
  <2>2. CASE x \notin S
    BY <1>0, <2>2 DEF ClockOK
  <2> QED BY <2>1, <2>2
<1>3. EndedOK'
  BY <1>0 DEF EndedOK, ClockOK
<1>4. ReleasedSlotStaysFree'
  BY <1>0 DEF ReleasedSlotStaysFree, Shared!ReleasedSlotStaysFree, Shared!Stored
<1>5. SlotsKept'
  <2> SUFFICES ASSUME FewFaults', NEW x \in Running' PROVE KeptSlot(x)'
    BY DEF SlotsKept
  <2>1. x \notin S /\ x \in Running /\ fresh'[x] = fresh[x]
    BY <1>0 DEF Running
  <2> QED BY <1>0, <1>1, <2>1, UntouchedSlot
<1>6. RunningFew'
  <2> SUFFICES ASSUME FewFaults' PROVE Cardinality(Running') <= Limit
    BY DEF RunningFew
  <2>1. FewFaults
    BY <1>0, FaultsGrow DEF SharedTypeOK
  <2>2. Running' \subseteq Running
    BY <1>0 DEF Running
  <2> QED BY <2>1, <2>2, RunningFinite
<1> QED BY <1>1, <1>2, <1>3, <1>4, <1>5, <1>6

LEMMA TickKeeps ==
    ASSUME SharedInv, Shared!Tick
    PROVE  SharedInv'
<1> USE DEF SharedInv
<1>0. /\ now' = now + 1 /\ score' = score /\ expireAt' = expireAt /\ run' = run
      /\ fresh' = fresh /\ since' = since /\ endedAt' = endedAt /\ faults' = faults
  BY DEF Shared!Tick
<1>1. \A x \in Requests : /\ fresh[x] # "sent"
                          /\ fresh[x] = "on" => run[x] = "running" /\ ~(now >= since[x] + RefreshInterval)
  BY DEF Shared!Tick, Shared!Due
<1>2. SharedTypeOK'
  BY <1>0 DEF SharedTypeOK
<1>3. ClockOK'
  <2> SUFFICES ASSUME NEW x \in Requests PROVE ClockOK!(x)'
    BY DEF ClockOK
  <2>1. now \in Nat /\ score[x] \in Nat /\ since[x] \in Nat /\ score[x] <= now /\ since[x] <= now
    BY DEF SharedTypeOK, ClockOK
  <2>2. score[x] <= now + 1 /\ since[x] <= now + 1
    BY <2>1
  <2>3. fresh[x] = "on" => now + 1 <= since[x] + RefreshInterval
    BY <1>1, <2>1, SharedConstants
  <2> QED BY <1>0, <1>1, <2>2, <2>3 DEF SharedTypeOK
<1>4. EndedOK'
  BY <1>0 DEF EndedOK
<1>5. ReleasedSlotStaysFree'
  BY <1>0 DEF ReleasedSlotStaysFree, Shared!ReleasedSlotStaysFree, Shared!Stored, SharedTypeOK
<1>6. SlotsKept'
  <2> SUFFICES ASSUME FewFaults', NEW x \in Running' PROVE KeptSlot(x)'
    BY DEF SlotsKept
  <2>1. x \in Running
    BY <1>0 DEF Running
  <2> QED BY <1>0, <1>2, <2>1, UntouchedSlot
<1>7. RunningFew'
  BY <1>0 DEF RunningFew, Running, FewFaults
<1> QED BY <1>2, <1>3, <1>4, <1>5, <1>6, <1>7

----------------------------------------------------------------------------
LEMMA SharedInit == Shared!RSInit => SharedInv
<1> SUFFICES ASSUME Shared!RSInit PROVE SharedInv OBVIOUS
<1>1. SharedTypeOK /\ ClockOK /\ EndedOK
  BY SharedConstants DEF Shared!RSInit, SharedTypeOK, ClockOK, EndedOK, RunStates
<1>2. Running = {}
  BY DEF Shared!RSInit, Running
<1>3. ReleasedSlotStaysFree
  BY DEF Shared!RSInit, ReleasedSlotStaysFree, Shared!ReleasedSlotStaysFree
<1>4. SlotsKept
  BY <1>2 DEF SlotsKept
<1>5. RunningFew
  BY <1>2, FS_EmptySet, SharedConstants DEF RunningFew
<1> QED BY <1>1, <1>3, <1>4, <1>5 DEF SharedInv

LEMMA SharedStep == SharedInv /\ [Shared!RSNext]_redisVars => SharedInv'
<1> SUFFICES ASSUME SharedInv, [Shared!RSNext]_redisVars PROVE SharedInv' OBVIOUS
<1>1. CASE UNCHANGED redisVars
  BY <1>1 DEF redisVars, SharedInv, SharedTypeOK, ClockOK, EndedOK, ReleasedSlotStaysFree,
              Shared!ReleasedSlotStaysFree, Shared!Stored, SlotsKept, KeptSlot, RunningFew,
              FewFaults, Missed, Running
<1>2. Shared!AllOver => UNCHANGED redisVars
  BY DEF Shared!AllOver, Shared!rsVars, redisVars
<1>3. ASSUME NEW r \in Requests,
             \/ Shared!Acquire(r) \/ Shared!RefreshSend(r) \/ Shared!RefreshRun(r)
             \/ Shared!RefreshStop(r) \/ Shared!Release(r)
      PROVE  SharedInv'
  BY <1>3, AcquireKeeps, RefreshSendKeeps, RefreshRunKeeps, RefreshStopKeeps, ReleaseKeeps
<1> QED BY <1>1, <1>2, <1>3, CrashKeeps, TickKeeps DEF Shared!RSNext

----------------------------------------------------------------------------
(* The limiter of a deployment, whichever it uses.                          *)

\* A step of the deployment is a step of its limiter; the other one rests.
LEMMA StepOfEither ==
    ASSUME [PLNext]_plVars
    PROVE  [MSNext]_msVars /\ [Shared!RSNext]_redisVars
<1>1. CASE UNCHANGED plVars
  BY <1>1 DEF plVars
<1>2. CASE redisEnabled /\ Shared!RSNext /\ UNCHANGED <<redisEnabled, msVars>>
  BY <1>2
<1>3. CASE ~redisEnabled /\ MSNext /\ UNCHANGED <<redisEnabled, redisVars>>
  BY <1>3
<1> QED BY <1>1, <1>2, <1>3 DEF PLNext

\* The inductive invariant of the limiter in Redis holds in every reachable
\* state of acquireValuePackageSlot.
THEOREM SharedInvariant == PLSpec => []SharedInv
<1>1. PLInit => SharedInv
  BY SharedInit DEF PLInit
<1>2. SharedInv /\ [PLNext]_plVars => SharedInv'
  BY StepOfEither, SharedStep
<1> QED BY <1>1, <1>2, PTL DEF PLSpec

\* Across all app instances at most Limit requests of a package run, as long
\* as the failed calls and stopped instances leave a refresh that comes before
\* the TTL: for any number of requests, any limit, TTL and interval.
THEOREM SharedLimitHolds == PLSpec => []SharedLimitRespected
<1>1. SharedInv => SharedLimitRespected
  BY SharedCardinality DEF SharedInv, RunningFew, Running, FewFaults, SharedLimitRespected,
                           Shared!SharedLimitRespected
<1> QED BY <1>1, SharedInvariant, PTL

\* No refresh that was under way when its request ended takes a released slot
\* again.
THEOREM ReleasedSlotsStayFree == PLSpec => []ReleasedSlotStaysFree
<1>1. SharedInv => ReleasedSlotStaysFree
  BY DEF SharedInv
<1> QED BY <1>1, SharedInvariant, PTL

\* A slot that nobody gives back is purged by the first acquisition TTL after
\* its request ended, whatever failed.
THEOREM DeadSlotsAreFreed == PLSpec => []DeadSlotsAreReclaimed
<1>1. ASSUME SharedInv PROVE DeadSlotsAreReclaimed
  <2> SUFFICES ASSUME NEW r \in Requests, run[r] \in {"over", "refused"}, now >= endedAt[r] + TTL
               PROVE  Shared!Purged[r] = 0
    BY DEF DeadSlotsAreReclaimed, Shared!DeadSlotsAreReclaimed
  <2>1. SharedTypeOK /\ score[r] <= endedAt[r]
    BY <1>1 DEF SharedInv, EndedOK
  <2>2. ~(score[r] > now - TTL)
    BY <2>1, SharedConstants DEF SharedTypeOK
  <2> QED BY <2>1, <2>2, WhatScriptsSee
<1> QED BY <1>1, SharedInvariant, PTL

\* The in-process limiter of a deployment without Redis never lets more than
\* Limit requests run, and is the counting semaphore of SlotLimiter.
THEOREM InProcessLimiterHolds == PLSpec => []LimitRespected /\ IsASlotLimiter
<1>1. PLInit => MSInit
  BY DEF PLInit
<1>2. [PLNext]_plVars => [MSNext]_msVars
  BY StepOfEither
<1>3. PLSpec => MSSpec
  BY <1>1, <1>2, PTL DEF PLSpec, MSSpec
<1> QED BY <1>3, LimitIsRespected, ImplementsSlotLimiter, PTL
============================================================================
