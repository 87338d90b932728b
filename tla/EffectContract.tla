--------------------------- MODULE EffectContract ---------------------------
(***************************************************************************)
(* What a durable Bunshin outbox effect promises to the workflow that       *)
(* emitted it, whatever the manager does with processes, claims and retries *)
(* in between: its business action is applied at most once, it is settled   *)
(* at most once, and it is only reported completed when its action was      *)
(* applied or its aggregate had moved on.                                   *)
(***************************************************************************)
EXTENDS Naturals

CONSTANT Effects

VARIABLES
    outcome,     \* outcome[e]: absent, open, completed or failed
    applied,     \* effects whose business action changed the aggregate
    moved        \* TRUE while the aggregate is outside its working state

vars == <<outcome, applied, moved>>

Init ==
    /\ outcome = [e \in Effects |-> "absent"]
    /\ applied = {}
    /\ moved = FALSE

\* The business transition that causes effect e commits.
Open(e) ==
    /\ outcome[e] = "absent"
    /\ outcome' = [outcome EXCEPT ![e] = "open"]
    /\ UNCHANGED <<applied, moved>>

\* The effect's own action changes the aggregate, once.
Apply(e) ==
    /\ outcome[e] # "absent"
    /\ e \notin applied
    /\ ~moved
    /\ applied' = applied \union {e}
    /\ UNCHANGED <<outcome, moved>>

Complete(e) ==
    /\ outcome[e] = "open"
    /\ e \in applied \/ moved
    /\ outcome' = [outcome EXCEPT ![e] = "completed"]
    /\ UNCHANGED <<applied, moved>>

\* A failed effect may freeze its aggregate in the same step (triage).
Fail(e) ==
    /\ outcome[e] = "open"
    /\ ~moved
    /\ outcome' = [outcome EXCEPT ![e] = "failed"]
    /\ moved' \in BOOLEAN
    /\ UNCHANGED applied

\* Another actor pauses, cancels, resumes or releases the aggregate.
Move ==
    /\ moved' = ~moved
    /\ UNCHANGED <<outcome, applied>>

Next ==
    \/ \E e \in Effects : Open(e) \/ Apply(e) \/ Complete(e) \/ Fail(e)
    \/ Move

Spec == Init /\ [][Next]_vars
=============================================================================
