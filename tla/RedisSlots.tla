----------------------------- MODULE RedisSlots -----------------------------
(***************************************************************************)
(* The concurrency limiter of one value package that all app instances     *)
(* share through Redis.  A slot is a member of a sorted set, scored with   *)
(* the time it was last refreshed; a goroutine of the request refreshes it *)
(* every RefreshInterval, and a slot not refreshed for TTL is dropped by   *)
(* the next acquisition.  The three Lua scripts are atomic.  A call may    *)
(* fail before or after its script has run, and an instance may stop.      *)
(*                                                                         *)
(* Time is in ticks.  A refresher that is due makes its attempt within the *)
(* tick: calls time out after two seconds, far below RefreshInterval.      *)
(***************************************************************************)
EXTENDS Integers, FiniteSets

CONSTANTS
    Requests,         \* relay requests that use the package, each with its token
    Limit,            \* normalizeValuePackageConcurrencyLimit(plan.ConcurrencyLimit)
    TTL,              \* valuePackageConcurrencySlotTTL
    RefreshInterval,  \* valuePackageConcurrencySlotRefreshInterval
    MaxTime,          \* bound: the last tick of the clock
    MaxFaults         \* bound: failed calls and stopped instances

\* What the parameters have to be; module PackageLimiter assumes it.
RSConstants ==
    /\ IsFiniteSet(Requests)
    /\ Limit \in Nat \ {0}
    /\ TTL \in Nat \ {0} /\ RefreshInterval \in Nat \ {0}
    /\ MaxTime \in Nat /\ MaxFaults \in Nat

VARIABLES
    now,       \* the clock, which starts at 1
    score,     \* the sorted set: score of each member, 0 = not a member
    expireAt,  \* when Redis drops the whole key
    run,       \* what a request is doing
    fresh,     \* its refresher: off, on (waiting for the ticker) or sent
    since,     \* when the refresher made its latest attempt
    endedAt,   \* when the request ended
    faults     \* faults so far

rsVars == <<now, score, expireAt, run, fresh, since, endedAt, faults>>

\* The sorted set as Redis shows it.
Stored == [r \in Requests |-> IF now < expireAt THEN score[r] ELSE 0]

Members(z) == {r \in Requests : z[r] > 0}

Fault == faults < MaxFaults /\ faults' = faults + 1

\* The call returns without an error.
Answered == UNCHANGED faults

\* Mutant: the acquire script does not drop stale members.
PurgedNothing == Stored

\* ZREMRANGEBYSCORE key -inf now-ttl.
Purged == [r \in Requests |-> IF Stored[r] > now - TTL THEN Stored[r] ELSE 0]

\* The score a slot gets when it is taken or refreshed.
SlotScore(at) == at

----------------------------------------------------------------------------
(* acquireValuePackageRedisSlot.                                            *)

AcquireScript(r) ==
    /\ expireAt' = now + TTL
    /\ score' = IF Cardinality(Members(Purged)) >= Limit THEN Purged
                ELSE [Purged EXCEPT ![r] = SlotScore(now)]

Admitted(r) == Cardinality(Members(Purged)) < Limit

\* A call that fails refuses the request, whether or not the slot was taken.
Acquire(r) ==
    /\ run[r] = "idle"
    /\ \/ /\ AcquireScript(r) /\ Answered
          /\ run' = [run EXCEPT ![r] = IF Admitted(r) THEN "running" ELSE "refused"]
          /\ fresh' = [fresh EXCEPT ![r] = IF Admitted(r) THEN "on" ELSE "off"]
       \/ /\ AcquireScript(r) \/ UNCHANGED <<score, expireAt>>
          /\ Fault
          /\ run' = [run EXCEPT ![r] = "refused"]
          /\ UNCHANGED fresh
    /\ since' = [since EXCEPT ![r] = now]
    /\ endedAt' = [endedAt EXCEPT ![r] = now]
    /\ UNCHANGED now

----------------------------------------------------------------------------
(* keepValuePackageRedisSlotFresh.                                          *)

Due(r) == fresh[r] = "on" /\ now >= since[r] + RefreshInterval

\* The ticker fires; the score sent along is the time of this moment.
RefreshSend(r) ==
    /\ Due(r)
    /\ fresh' = [fresh EXCEPT ![r] = "sent"]
    /\ since' = [since EXCEPT ![r] = now]
    /\ UNCHANGED <<now, score, expireAt, run, endedAt, faults>>

\* Mutant: the refresh script adds the member without looking for it.
RefreshScriptAdds(r) ==
    /\ score' = [Stored EXCEPT ![r] = SlotScore(since[r])]
    /\ expireAt' = now + TTL

\* Mutant: the refresh script extends the key but not the member.
RefreshScriptKeyOnly(r) ==
    /\ IF Stored[r] > 0 THEN expireAt' = now + TTL ELSE UNCHANGED expireAt
    /\ UNCHANGED score

RefreshScript(r) ==
    IF Stored[r] > 0
    THEN /\ score' = [Stored EXCEPT ![r] = SlotScore(since[r])]
         /\ expireAt' = now + TTL
    ELSE UNCHANGED <<score, expireAt>>

\* A refresher whose slot is gone stops, its request runs on; a refresher that
\* got an error waits for the next tick.
RefreshRun(r) ==
    /\ fresh[r] = "sent"
    /\ \/ /\ RefreshScript(r) /\ Answered
          /\ fresh' = [fresh EXCEPT ![r] = IF Stored[r] > 0 THEN "on" ELSE "off"]
       \/ /\ RefreshScript(r) \/ UNCHANGED <<score, expireAt>>
          /\ Fault
          /\ fresh' = [fresh EXCEPT ![r] = "on"]
    /\ UNCHANGED <<now, run, since, endedAt>>

\* The refresher sees that stopRefresh is closed.
RefreshStop(r) ==
    /\ fresh[r] = "on" /\ run[r] # "running"
    /\ fresh' = [fresh EXCEPT ![r] = "off"]
    /\ UNCHANGED <<now, score, expireAt, run, since, endedAt, faults>>

----------------------------------------------------------------------------
(* The release closure: stop the refresher, drop the slot.                  *)

ReleaseScript(r) ==
    LET left == [Stored EXCEPT ![r] = 0]
    IN  /\ score' = left
        /\ expireAt' = IF Members(left) = {} THEN 0 ELSE now + TTL

\* A call whose reply is lost after the script has run is one that succeeds.
Release(r) ==
    /\ run[r] = "running"
    /\ \/ ReleaseScript(r) /\ Answered /\ run' = [run EXCEPT ![r] = "released"]
       \/ Fault /\ run' = [run EXCEPT ![r] = "over"] /\ UNCHANGED <<score, expireAt>>
    /\ endedAt' = [endedAt EXCEPT ![r] = now]
    /\ UNCHANGED <<now, fresh, since>>

\* An instance stops with the requests S it serves; a refresh call that is on
\* its way may still reach Redis.
Crash(S) ==
    /\ S # {} /\ \A r \in S : run[r] = "running"
    /\ Fault
    /\ run' = [r \in Requests |-> IF r \in S THEN "over" ELSE run[r]]
    /\ fresh' = [r \in Requests |-> IF r \in S /\ fresh[r] = "on" THEN "off" ELSE fresh[r]]
    /\ endedAt' = [r \in Requests |-> IF r \in S THEN now ELSE endedAt[r]]
    /\ UNCHANGED <<now, score, expireAt, since>>

Tick ==
    /\ now < MaxTime
    /\ \A r \in Requests :
          ~Due(r) /\ fresh[r] # "sent" /\ (fresh[r] = "on" => run[r] = "running")
    /\ now' = now + 1
    /\ UNCHANGED <<score, expireAt, run, fresh, since, endedAt, faults>>

----------------------------------------------------------------------------
RSInit ==
    /\ now = 1
    /\ score = [r \in Requests |-> 0]
    /\ expireAt = 0
    /\ run = [r \in Requests |-> "idle"]
    /\ fresh = [r \in Requests |-> "off"]
    /\ since = [r \in Requests |-> 0]
    /\ endedAt = [r \in Requests |-> 0]
    /\ faults = 0

\* All requests are over and all refreshers have stopped.
AllOver ==
    /\ \A r \in Requests : run[r] \notin {"idle", "running"} /\ fresh[r] = "off"
    /\ UNCHANGED rsVars

RSNext ==
    \/ \E r \in Requests :
          Acquire(r) \/ RefreshSend(r) \/ RefreshRun(r) \/ RefreshStop(r) \/ Release(r)
    \/ \E S \in SUBSET Requests : Crash(S)
    \/ Tick
    \/ AllOver

RSSpec == RSInit /\ [][RSNext]_rsVars

----------------------------------------------------------------------------
(* Properties.                                                              *)

\* The limit holds across instances, also when Redis calls fail: a slot
\* survives as many missed refreshes as leave one that comes before its TTL
\* is over, TTL \div RefreshInterval - 2 of them.
SharedLimitRespected ==
    faults <= (TTL \div RefreshInterval) - 2 =>
        Cardinality({r \in Requests : run[r] = "running"}) <= Limit

\* A slot that was given back stays free: a refresh that was under way when
\* the request ended does not take it again.
ReleasedSlotStaysFree == \A r \in Requests : run[r] = "released" => Stored[r] = 0

\* A slot that nobody will give back (a lost reply, a failed release, a
\* stopped instance) blocks other requests for TTL at most.
DeadSlotsAreReclaimed ==
    \A r \in Requests :
        (run[r] \in {"over", "refused"} /\ now >= endedAt[r] + TTL) => Purged[r] = 0
============================================================================
