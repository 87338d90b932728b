---------------------------- MODULE CoreScheduler ----------------------------
(* The scheduler object (scheduling.py, class CoreScheduler) in front of    *)
(* callers that follow no protocol at all: any lease that was ever handed   *)
(* out can come back at any time, in any order and any number of times, and *)
(* barriers are raised and dropped by their names.  What holds here is what *)
(* the reducer guarantees by itself; ResidentTurns shows what the runtime's *)
(* real callers add.                                                        *)
EXTENDS Scheduling

CONSTANTS
    Barriers,         \* names of the admission barriers
    MaxGeneration     \* bound on the admissions explored

ASSUME GenerationBound == MaxGeneration \in Nat

VARIABLES
    state,    \* CoreScheduler.state
    issued,   \* every lease an accepted admission handed to its caller
    receipt   \* the lease the last step came with, NoLease if it had none

vars == <<state, issued, receipt>>

Init ==
    /\ state = InitialScheduling
    /\ issued = {}
    /\ receipt = NoLease

\* transition(ADMIT, turn_id, kind, pending_users, other_work)
Admit(turn, kind, pendingUsers, otherWork) ==
    LET decision == ReduceAdmit(state, turn, kind, pendingUsers, otherWork)
    IN  /\ state.generation < MaxGeneration
        /\ state' = decision.state
        /\ issued' = IF decision.accepted
                     THEN issued \cup {decision.state.owner} ELSE issued
        /\ receipt' = NoLease

\* transition(event, lease) for PROGRAM_FINISHED, CANCEL and TASK_FINISHED
Report(event, lease) ==
    /\ state' = ReduceOwned(state, event, lease).state
    /\ receipt' = lease
    /\ UNCHANGED issued

Barrier(name, enabled) ==
    /\ state' = SetBarrier(state, name, enabled)
    /\ receipt' = NoLease
    /\ UNCHANGED issued

Next ==
    \/ \E turn \in Turns, kind \in Kinds, pendingUsers, otherWork \in BOOLEAN :
          Admit(turn, kind, pendingUsers, otherWork)
    \/ \E event \in Events \ {"admit"}, lease \in issued \cup {NoLease} :
          Report(event, lease)
    \/ \E name \in Barriers, enabled \in BOOLEAN : Barrier(name, enabled)

Spec == Init /\ [][Next]_vars
-----------------------------------------------------------------------------
TypeOK ==
    /\ state \in SchedulingState(Barriers)
    /\ issued \subseteq Lease
    /\ receipt \in Lease \cup {NoLease}

(* SchedulingState.__post_init__ never raises: phase and owner agree and    *)
(* the owner carries the current generation, whatever the callers do.       *)
NeverMalformed == WellFormed(state)

(* The generation is a fencing token: no two admissions ever share one, so  *)
(* a late receipt can always be told from its successor's, even when the    *)
(* same turn id is admitted twice.                                          *)
GenerationsAreFences ==
    /\ \A l \in issued : l.generation <= state.generation
    /\ \A l, m \in issued : l.generation = m.generation => l = m
    /\ state.owner # NoLease => state.owner \in issued

(* Ownership is never handed over directly and never released early: the    *)
(* slot leaves an owner only through the receipt of that very admission,    *)
(* after its program finished or was cancelled, and only to become idle.  A *)
(* receipt kept from an earlier admission of the same turn id is inert.     *)
OnlyTeardownReleases ==
    [][state.owner # NoLease /\ state'.owner # state.owner
        => /\ state.phase = "finalizing"
           /\ state'.owner = NoLease
           /\ receipt' = state.owner]_vars

(* What every caller of the scheduler may rely on, whatever the others do.  *)
SchedulerSound == TypeOK /\ NeverMalformed /\ GenerationsAreFences
-----------------------------------------------------------------------------
(* The abstract promise: one resident slot, acquired free, released by its  *)
(* holder, each tenancy numbered above all earlier ones.                    *)
Holder == IF state.owner = NoLease THEN NoLease ELSE state.owner.turn

Slot == INSTANCE ResidentSlot WITH
            Tenants <- Turns, Nobody <- NoLease,
            holder <- Holder, tenancy <- state.generation

RefinesSlot == Slot!Spec
=============================================================================
