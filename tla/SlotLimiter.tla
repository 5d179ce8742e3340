----------------------------- MODULE SlotLimiter -----------------------------
(***************************************************************************)
(* What a value package's concurrency limiter promises, whatever keeps the *)
(* count: at most Limit of the package's requests run at a time, and a     *)
(* request is turned away only at a moment when Limit of them are running. *)
(***************************************************************************)
EXTENDS Naturals, FiniteSets

CONSTANTS
    Requests,  \* relay requests that use the package
    Limit      \* normalizeValuePackageConcurrencyLimit(plan.ConcurrencyLimit)

VARIABLES
    holders,   \* requests that are running
    asking     \* requests whose admission is not decided yet

slotVars == <<holders, asking>>

Ask(r) ==
    /\ r \notin holders \cup asking
    /\ asking' = asking \cup {r}
    /\ UNCHANGED holders

Admit(r) ==
    /\ r \in asking
    /\ Cardinality(holders) < Limit
    /\ holders' = holders \cup {r}
    /\ asking' = asking \ {r}

Deny(r) ==
    /\ r \in asking
    /\ Cardinality(holders) >= Limit
    /\ asking' = asking \ {r}
    /\ UNCHANGED holders

Leave(r) ==
    /\ r \in holders
    /\ holders' = holders \ {r}
    /\ UNCHANGED asking

SlotInit == holders = {} /\ asking = {}

SlotNext == \E r \in Requests : Ask(r) \/ Admit(r) \/ Deny(r) \/ Leave(r)

SlotSpec == SlotInit /\ [][SlotNext]_slotVars
============================================================================
