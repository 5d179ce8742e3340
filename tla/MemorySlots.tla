----------------------------- MODULE MemorySlots -----------------------------
(***************************************************************************)
(* The in-process concurrency limiter of one value package, used when      *)
(* Redis is disabled.  A sync.Map holds the package's counter object; each *)
(* object has a mutex and a count.  The last request to leave removes the  *)
(* object from the map while others may already hold a pointer to it, so a *)
(* request that has locked a counter looks again whether it is still the   *)
(* one in the map.  Every operation on the map and on a mutex is a step.   *)
(***************************************************************************)
EXTENDS Naturals, FiniteSets

CONSTANTS
    Requests,  \* relay requests that use the package
    Limit,     \* normalizeValuePackageConcurrencyLimit(plan.ConcurrencyLimit)
    Counters,  \* heap cells for valuePackageConcurrencyCounter objects
    None       \* no counter, or no owner of a mutex

ASSUME MSConstants ==
    /\ IsFiniteSet(Requests)
    /\ Limit \in Nat \ {0}
    /\ None \notin Counters
    /\ None \notin Requests

VARIABLES
    current,  \* the counter in valuePackageConcurrencyCounters, or None
    count,    \* counter.count
    mu,       \* who holds counter.mu
    pc,       \* where the goroutine of a request is
    ctr       \* the counter pointer a request works with

msVars == <<current, count, mu, pc, ctr>>

Go(r, l) == pc' = [pc EXCEPT ![r] = l]

\* A cell that nothing points to: the garbage collector may hand it out again.
Free(c) == c # current /\ \A r \in Requests : ctr[r] # c

----------------------------------------------------------------------------
(* acquireValuePackageMemorySlot.                                           *)

LoadOrStore(r) ==
    /\ pc[r] \in {"idle", "again"}
    /\ \/ /\ current # None
          /\ ctr' = [ctr EXCEPT ![r] = current]
          /\ UNCHANGED <<current, count>>
       \/ /\ current = None
          /\ \E c \in {x \in Counters : Free(x)} :
                /\ current' = c
                /\ count' = [count EXCEPT ![c] = 0]
                /\ ctr' = [ctr EXCEPT ![r] = c]
    /\ Go(r, "lock")
    /\ UNCHANGED mu

Lock(r) ==
    /\ pc[r] = "lock"
    /\ mu[ctr[r]] = None
    /\ mu' = [mu EXCEPT ![ctr[r]] = r]
    /\ Go(r, "check")
    /\ UNCHANGED <<current, count, ctr>>

\* Mutant: the counter that was locked is used without looking again.
CheckSkipped(r) ==
    /\ pc[r] = "check"
    /\ Go(r, "admit")
    /\ UNCHANGED <<current, count, mu, ctr>>

\* The counter may have been replaced before it was locked.
Check(r) ==
    /\ pc[r] = "check"
    /\ IF current = ctr[r]
       THEN Go(r, "admit") /\ UNCHANGED <<mu, ctr>>
       ELSE /\ mu' = [mu EXCEPT ![ctr[r]] = None]
            /\ ctr' = [ctr EXCEPT ![r] = None]
            /\ Go(r, "again")
    /\ UNCHANGED <<current, count>>

\* Mutant: off by one at the limit.
AdmitOneMore(r) ==
    /\ pc[r] = "admit"
    /\ mu' = [mu EXCEPT ![ctr[r]] = None]
    /\ IF count[ctr[r]] > Limit
       THEN Go(r, "idle") /\ ctr' = [ctr EXCEPT ![r] = None] /\ UNCHANGED count
       ELSE /\ count' = [count EXCEPT ![ctr[r]] = @ + 1]
            /\ Go(r, "holding")
            /\ UNCHANGED ctr
    /\ UNCHANGED current

Admit(r) ==
    /\ pc[r] = "admit"
    /\ mu' = [mu EXCEPT ![ctr[r]] = None]
    /\ IF count[ctr[r]] >= Limit
       THEN Go(r, "idle") /\ ctr' = [ctr EXCEPT ![r] = None] /\ UNCHANGED count
       ELSE /\ count' = [count EXCEPT ![ctr[r]] = @ + 1]
            /\ Go(r, "holding")
            /\ UNCHANGED ctr
    /\ UNCHANGED current

----------------------------------------------------------------------------
(* The release closure, run once when the request ends.                     *)

ReleaseLock(r) ==
    /\ pc[r] = "holding"
    /\ mu[ctr[r]] = None
    /\ mu' = [mu EXCEPT ![ctr[r]] = r]
    /\ Go(r, "leave")
    /\ UNCHANGED <<current, count, ctr>>

\* Whether the request that leaves was the last one on the counter.
Emptied(c) == count[c] <= 1

ReleaseCount(r) ==
    /\ pc[r] = "leave"
    /\ count' = [count EXCEPT ![ctr[r]] = IF @ > 0 THEN @ - 1 ELSE @]
    /\ Go(r, IF Emptied(ctr[r]) THEN "delete" ELSE "unlock")
    /\ UNCHANGED <<current, mu, ctr>>

CompareAndDelete(r) ==
    /\ pc[r] = "delete"
    /\ current' = IF current = ctr[r] THEN None ELSE current
    /\ Go(r, "unlock")
    /\ UNCHANGED <<count, mu, ctr>>

Unlock(r) ==
    /\ pc[r] = "unlock"
    /\ mu' = [mu EXCEPT ![ctr[r]] = None]
    /\ ctr' = [ctr EXCEPT ![r] = None]
    /\ Go(r, "idle")
    /\ UNCHANGED <<current, count>>

----------------------------------------------------------------------------
MSInit ==
    /\ current = None
    /\ count = [c \in Counters |-> 0]
    /\ mu = [c \in Counters |-> None]
    /\ pc = [r \in Requests |-> "idle"]
    /\ ctr = [r \in Requests |-> None]

Step(r) ==
    \/ LoadOrStore(r) \/ Lock(r) \/ Check(r) \/ Admit(r)
    \/ ReleaseLock(r) \/ ReleaseCount(r) \/ CompareAndDelete(r) \/ Unlock(r)

MSNext == \E r \in Requests : Step(r)

MSSpec == MSInit /\ [][MSNext]_msVars

----------------------------------------------------------------------------
(* Properties.                                                              *)

Holders == {r \in Requests : pc[r] \in {"holding", "leave"}}

Asking == {r \in Requests : pc[r] \in {"lock", "check", "admit", "again"}}

\* Counts and mutex owners have their types, and a request that is past the
\* look-up in the map never works with a nil counter.
MSTypeOK ==
    /\ current \in Counters \cup {None}
    /\ count \in [Counters -> Nat]
    /\ mu \in [Counters -> Requests \cup {None}]
    /\ pc \in [Requests -> {"idle", "again", "lock", "check", "admit", "holding",
                            "leave", "delete", "unlock"}]
    /\ ctr \in [Requests -> Counters \cup {None}]
    /\ \A r \in Requests : pc[r] \in {"idle", "again"} \/ ctr[r] \in Counters

\* At most Limit requests of the package run at the same time, although the
\* counter they are counted on is thrown away and made anew all the time.
LimitRespected == Cardinality(Holders) <= Limit

\* All running requests are counted on one counter, the one in the map.
OneCounter == \A r \in Holders : ctr[r] = current

\* The limiter is a counting semaphore: it admits only below the limit and,
\* which is harder with counters that come and go, denies only at it.
Limiter == INSTANCE SlotLimiter WITH holders <- Holders, asking <- Asking

IsASlotLimiter == Limiter!SlotSpec
============================================================================
