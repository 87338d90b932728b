---------------------------- MODULE RoleContract ----------------------------
(***************************************************************************)
(* What a role assignment promises its parent aggregate: one result is     *)
(* chosen at most once and never replaced, and the parent advances or is   *)
(* sent to triage in the same step that closes the assignment.             *)
(***************************************************************************)
VARIABLES result, parent, closed

vars == <<result, parent, closed>>

Results == {"work", "exhausted", "blocked"}

Init == result = "none" /\ parent = "running" /\ closed = FALSE

\* The assignment's one receipt becomes durable.
Choose(r) ==
    /\ ~closed /\ result = "none"
    /\ result' = r
    /\ UNCHANGED <<parent, closed>>

\* The worker's result advances the parent and closes the assignment at once.
Apply ==
    /\ result = "work" /\ parent = "running" /\ ~closed
    /\ parent' = "advanced" /\ closed' = TRUE
    /\ UNCHANGED result

\* A failure the assignment has recorded sends the parent to triage.
Triage ==
    /\ result # "none" /\ parent = "running" /\ ~closed
    /\ parent' = "triage" /\ closed' = TRUE
    /\ UNCHANGED result

\* A blocker outside the assignment sends the parent to triage: its start-up
\* failed, or a worker without a fence still holds the workspace.
EnterTriage == parent = "running" /\ parent' = "triage" /\ UNCHANGED <<result, closed>>

\* An operator pauses or cancels the parent.
Freeze == parent = "running" /\ parent' = "frozen" /\ UNCHANGED <<result, closed>>

\* A parent that is no longer running closes the assignment without an outcome.
Abandon == parent # "running" /\ ~closed /\ closed' = TRUE /\ UNCHANGED <<result, parent>>

Next ==
    \/ \E r \in Results : Choose(r)
    \/ Apply \/ Triage \/ EnterTriage \/ Freeze \/ Abandon

Spec == Init /\ [][Next]_vars
=============================================================================
