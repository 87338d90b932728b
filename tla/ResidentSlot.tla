---------------------------- MODULE ResidentSlot ----------------------------
(* What the rest of the runtime relies on: one resident slot.  A tenant     *)
(* takes it only when it is free, each taking is counted, and it becomes    *)
(* free before anyone else can have it.                                     *)
EXTENDS Naturals

CONSTANTS Tenants, Nobody

VARIABLES holder, tenancy

Init == holder = Nobody /\ tenancy = 0

Acquire(t) ==
    /\ holder = Nobody
    /\ holder' = t
    /\ tenancy' = tenancy + 1

Release ==
    /\ holder # Nobody
    /\ holder' = Nobody
    /\ UNCHANGED tenancy

Next == Release \/ \E t \in Tenants : Acquire(t)

Spec == Init /\ [][Next]_<<holder, tenancy>>
=============================================================================
