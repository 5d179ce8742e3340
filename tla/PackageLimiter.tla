--------------------------- MODULE PackageLimiter ---------------------------
(***************************************************************************)
(* acquireValuePackageSlot: the limiter of a value package is the shared   *)
(* one when the deployment has Redis, else the one in the process.  Which  *)
(* it is does not change while the program runs.                           *)
(***************************************************************************)
EXTENDS MemorySlots

CONSTANTS TTL, RefreshInterval, MaxTime, MaxFaults

VARIABLES
    redisEnabled,  \* common.RedisEnabled
    now, score, expireAt, run, fresh, since, endedAt, faults

redisVars == <<now, score, expireAt, run, fresh, since, endedAt, faults>>
plVars == <<redisEnabled, msVars, redisVars>>

Shared == INSTANCE RedisSlots

ASSUME PLConstants == Shared!RSConstants

PLInit ==
    /\ redisEnabled \in BOOLEAN
    /\ MSInit
    /\ Shared!RSInit

PLNext ==
    \/ redisEnabled /\ Shared!RSNext /\ UNCHANGED <<redisEnabled, msVars>>
    \/ ~redisEnabled /\ MSNext /\ UNCHANGED <<redisEnabled, redisVars>>

PLSpec == PLInit /\ [][PLNext]_plVars

----------------------------------------------------------------------------
(* Properties of the shared limiter; MemorySlots has those of the other.    *)

\* The limit holds across instances as long as refreshes come before the TTL.
SharedLimitRespected == Shared!SharedLimitRespected

\* A refresh under way when its request ends does not take the slot again.
ReleasedSlotStaysFree == Shared!ReleasedSlotStaysFree

\* A slot nobody will give back blocks other requests for TTL at most.
DeadSlotsAreReclaimed == Shared!DeadSlotsAreReclaimed
=============================================================================
