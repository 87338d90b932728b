----------------------------- MODULE Scheduling -----------------------------
(* The resident scheduling reducer of src/pal/core/scheduling.py: a pure    *)
(* function from a snapshot and an event to a decision.  Nothing here keeps *)
(* state; CoreScheduler and ResidentTurns hold the snapshot and feed the    *)
(* reducer the events their callers produce.                                *)
EXTENDS Naturals

CONSTANTS
    Turns,      \* identities a resident turn can have (turn_id)
    NoLease     \* the owner field of an idle snapshot (None)

Phases == {"idle", "running", "finalizing"}
Kinds  == {"chat", "proactive", "background"}
Events == {"admit", "program_finished", "cancel", "task_finished"}

\* TurnLease: a positive generation names one admission and no other.
Lease == [turn : Turns, kind : Kinds, generation : Nat \ {0}]

ASSUME NoLeaseAssumption == NoLease \notin Lease
ASSUME NoLeaseIsNoTurn == NoLease \notin Turns

\* SchedulingState.  The barriers are an orthogonal set of named owners.
SchedulingState(Barriers) ==
    [phase : Phases, owner : Lease \cup {NoLease},
     generation : Nat, barriers : SUBSET Barriers]

InitialScheduling ==
    [phase |-> "idle", owner |-> NoLease, generation |-> 0, barriers |-> {}]

(* SchedulingState.__post_init__ raises ValueError on a snapshot that does  *)
(* not satisfy this; every caller relies on the reducer never building one. *)
WellFormed(s) ==
    /\ (s.phase = "idle") <=> (s.owner = NoLease)
    /\ s.owner # NoLease => s.owner.generation = s.generation

\* PHASE_TRANSITIONS; "none" where the table has no row.
PhaseTarget(phase, event) ==
    CASE phase = "idle" /\ event = "admit" -> "running"
      [] phase \in {"running", "finalizing"}
         /\ event \in {"program_finished", "cancel"} -> "finalizing"
      [] phase = "finalizing" /\ event = "task_finished" -> "idle"
      [] OTHER -> "none"

\* Mutant: an owner that is only finalizing no longer keeps the slot.
AdmissionReasonWhileFinalizing(s, kind, pendingUsers, otherWork) ==
    CASE s.barriers # {}   -> "barrier"
      [] s.barriers = {} /\ s.phase = "running" -> s.phase
      [] OTHER             -> ""

\* admission_reason: "" means the slot is free for a turn of this kind.
AdmissionReason(s, kind, pendingUsers, otherWork) ==
    CASE s.barriers # {}                   -> "barrier"
      [] s.barriers = {} /\ s.phase # "idle" -> s.phase
      [] s.barriers = {} /\ s.phase = "idle" /\ otherWork -> "draining"
      [] s.barriers = {} /\ s.phase = "idle" /\ ~otherWork
         /\ kind # "chat" /\ pendingUsers  -> "user_priority"
      [] OTHER                             -> ""

Accept(s)         == [state |-> s, accepted |-> TRUE, reason |-> ""]
Refuse(s, reason) == [state |-> s, accepted |-> FALSE, reason |-> reason]

\* reduce_scheduling for ADMIT: a fresh generation names the new owner.
ReduceAdmit(s, turn, kind, pendingUsers, otherWork) ==
    LET reason == AdmissionReason(s, kind, pendingUsers, otherWork)
        next   == s.generation + 1
    IN  IF reason # "" THEN Refuse(s, reason)
        ELSE Accept([s EXCEPT
                !.phase = PhaseTarget(s.phase, "admit"),
                !.generation = next,
                !.owner = [turn |-> turn, kind |-> kind, generation |-> next]])

\* Mutant: the teardown receipt leaves the owner in place.
ReduceOwnedKeepsOwner(s, event, lease) ==
    IF lease = NoLease \/ lease # s.owner THEN Refuse(s, "stale_owner")
    ELSE IF PhaseTarget(s.phase, event) = "none" THEN Refuse(s, "illegal_transition")
    ELSE Accept([s EXCEPT !.phase = PhaseTarget(s.phase, event)])

\* Mutant: receipts are matched by turn id instead of by lease.
ReduceOwnedByTurn(s, event, lease) ==
    LET target == PhaseTarget(s.phase, event)
    IN  IF lease = NoLease \/ s.owner = NoLease THEN Refuse(s, "stale_owner")
        ELSE IF lease.turn # s.owner.turn THEN Refuse(s, "stale_owner")
        ELSE IF target = "none" THEN Refuse(s, "illegal_transition")
        ELSE Accept([s EXCEPT
                !.phase = target,
                !.owner = IF event = "task_finished" THEN NoLease ELSE @])

\* reduce_scheduling for the other three events: only the owner's own lease counts.
ReduceOwned(s, event, lease) ==
    LET target == PhaseTarget(s.phase, event)
    IN  IF lease = NoLease \/ lease # s.owner THEN Refuse(s, "stale_owner")
        ELSE IF target = "none" THEN Refuse(s, "illegal_transition")
        ELSE Accept([s EXCEPT
                !.phase = target,
                !.owner = IF event = "task_finished" THEN NoLease ELSE @])

\* CoreScheduler.set_barrier
SetBarrier(s, name, enabled) ==
    [s EXCEPT !.barriers = IF enabled THEN @ \cup {name} ELSE @ \ {name}]

\* CoreScheduler.transition keeps the snapshot of an accepted decision only;
\* Refuse carries the old snapshot, so the decision's state is always the next one.
Owned(s, event, lease) == ReduceOwned(s, event, lease).state
=============================================================================
