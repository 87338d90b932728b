-------------------------- MODULE RoleAssignments --------------------------
(***************************************************************************)
(* One durable role assignment of a Bunshin aggregate: its attempts, their *)
(* fenced lease, the receipt of the result, the logical session, and the   *)
(* manager task that supervises it.  The rows survive a manager exit; the  *)
(* task does not; the worker process of a lost manager may outlive it.     *)
(* Payloads, prompts and the workspace are data and are left out: what     *)
(* they can do to the protocol is raise, which Fault does.  The aggregate  *)
(* is a DAG node: only its assignments carry the business lease that claim *)
(* and start check against the node (semantic_business_lease).             *)
(***************************************************************************)
EXTENDS Naturals, Sequences, FiniteSets

CONSTANTS
    AttemptLimit,   \* _ROLE_FAILURE_ATTEMPT_LIMIT
    MaxExits,       \* bound: manager exits, graceful or not
    MaxFaults,      \* bound: exceptions, worker failures
    MaxStalls       \* bound: leases that expire under a live supervisor

ASSUME BoundsAssumption ==
    /\ AttemptLimit \in Nat \ {0}
    /\ {MaxExits, MaxFaults, MaxStalls} \subseteq Nat

VARIABLES
    asg,        \* state of the bunshin_v2_role_assignments row, "none" before it
    att,        \* its bunshin_v2_role_attempts rows; the last one is active
    lease,      \* the "assignment:<id>" row of bunshin_v2_leases
    receipt,    \* submission receipt: who decided the result, and how
    session,    \* state of the bunshin_v2_role_sessions row
    parent,     \* the aggregate: in the role's state, or past it
    sup,        \* the manager's background task of this effect, in memory
    procs,      \* attempts whose native worker process is alive
    exits, faults, stalls

rows == <<asg, att, lease, receipt, session>>
vars == <<asg, att, lease, receipt, session, parent, sup, procs, exits, faults, stalls>>

Open == {"queued", "claimed", "running", "retry_queued", "result_recorded"}
Recorded == {"result_recorded", "settled"}
AttemptStates == {"starting", "running", "submitted", "completed", "failed", "lost", "cancelled"}
SessionStates == {"uninitialized", "active", "suspended"}

NoLease == [owner |-> 0, tok |-> 0, live |-> FALSE]
Idle == [pc |-> "off", me |-> 0, tok |-> 0, fails |-> 0]

Active == Len(att)

\* _SESSION_TRANSITIONS, for the states a session has while it is in use.
SessionTarget(s, action) ==
    CASE action = "park" -> IF s = "active" THEN "suspended" ELSE s
      [] action = "initialize" -> IF s = "uninitialized" THEN "active" ELSE s
      [] action = "suspend" -> "suspended"
      [] action = "activate" -> IF s = "suspended" THEN "active" ELSE s

-----------------------------------------------------------------------------
(* Leases *)

\* assert_lease_row with a clock.
Holds(a, t) == lease.live /\ lease.owner = a /\ lease.tok = t

\* release_lease: no clock, the token is kept; a stale owner changes nothing.
Released(a, t) ==
    IF lease.owner = a /\ lease.tok = t
    THEN [lease EXCEPT !.owner = 0, !.live = FALSE] ELSE lease

\* The row is deleted by the attempt that start_role_attempt bound to it.
Deleted(a) ==
    IF a > 0 /\ att[a].bound /\ lease.owner = a /\ lease.tok = att[a].tok
    THEN NoLease ELSE lease

\* Mutant: an attempt counts as live only while this manager supervises it.
AttemptIsLiveMutant == Active > 0 /\ sup.me = Active

\* role_assignment_attempt_is_live
AttemptIsLive == Active > 0 /\ att[Active].bound /\ Holds(Active, att[Active].tok)

\* The lease runs out; under a supervisor that heartbeats, only when it stalls.
Expire ==
    /\ lease.live
    /\ IF sup.pc \in {"leased", "watching"} /\ lease.owner = sup.me
       THEN stalls < MaxStalls /\ stalls' = stalls + 1
       ELSE UNCHANGED stalls
    /\ lease' = [lease EXCEPT !.live = FALSE]
    /\ UNCHANGED <<asg, att, receipt, session, parent, sup, procs, exits, faults>>

\* Start-up recovery clears an expired lease, unless a process still holds the
\* workspace: then the aggregate enters triage.
RecoverLease ==
    /\ sup.pc = "off" /\ lease.owner # 0 /\ ~lease.live
    /\ IF lease.owner \in procs
       THEN parent = "running" /\ parent' = "triage" /\ UNCHANGED lease
       ELSE lease' = [lease EXCEPT !.owner = 0] /\ UNCHANGED parent
    /\ UNCHANGED <<asg, att, receipt, session, sup, procs, exits, faults, stalls>>

-----------------------------------------------------------------------------
(* Rows *)

\* role_assignment_disposition: the loop and the recovery stop for it.
Disposed == asg = "cancelled" \/ parent # "running"

Charged == Cardinality({a \in 1 .. Active : att[a].charged})

\* Mutant: the retry forgets to mark the attempt lost.
QueueRetryMutant(charge) ==
    IF asg \in {"claimed", "running"}
    THEN /\ asg' = "retry_queued"
         /\ att' = [att EXCEPT ![Active].charged = charge]
         /\ lease' = IF att[Active].bound THEN Released(Active, att[Active].tok) ELSE lease
    ELSE UNCHANGED <<asg, att, lease>>

\* queue_role_attempt_retry; ends with release_lease when the row names a lease.
QueueRetry(charge) ==
    IF asg \in {"claimed", "running"}
    THEN /\ asg' = "retry_queued"
         /\ att' = [att EXCEPT ![Active] = [@ EXCEPT !.status = "lost", !.charged = charge]]
         /\ lease' = IF att[Active].bound THEN Released(Active, att[Active].tok) ELSE lease
    ELSE UNCHANGED <<asg, att, lease>>

\* settle_role_assignment_locked
SettleRows ==
    /\ asg' = "settled"
    /\ att' = [att EXCEPT ![Active].status = IF @ = "submitted" THEN "completed" ELSE @]
    /\ lease' = Deleted(Active)
    /\ session' = SessionTarget(session, IF receipt = "work" THEN "suspend" ELSE "park")
    /\ UNCHANGED receipt

\* cancel_role_assignments on this aggregate.
CancelRows ==
    IF asg = "result_recorded" THEN SettleRows
    ELSE /\ asg' = "cancelled"
         /\ att' = IF Active > 0 THEN [att EXCEPT ![Active].status = "cancelled"] ELSE att
         /\ lease' = Deleted(Active)
         /\ session' = SessionTarget(session, "park")
         /\ UNCHANGED receipt

-----------------------------------------------------------------------------
(* The supervising task: background_worker_loop around run_profile. *)

At(pc) == sup.pc = pc
Goto(pc) == sup' = [sup EXCEPT !.pc = pc]
Return == sup' = Idle

\* The exception handler of the loop, with the rows as the raising step left
\* them in asg', att'.
Handle(permanent) ==
    LET fails == sup.fails + 1
        charged == Cardinality({a \in 1 .. Len(att') : att'[a].charged})
        worst == IF charged > fails THEN charged ELSE fails
    IN  sup' = IF ~permanent /\ worst < AttemptLimit
               THEN [Idle EXCEPT !.pc = "top", !.fails = fails]
               ELSE [sup EXCEPT !.pc = IF permanent THEN "blocked" ELSE "exhausted",
                                !.fails = fails]

\* A stage raised.  Before the assignment exists the aggregate itself fails.
Raise(permanent) ==
    IF asg = "none"
    THEN /\ parent' = IF parent = "running" THEN "triage" ELSE parent
         /\ Return
         /\ UNCHANGED rows
    ELSE /\ UNCHANGED <<receipt, session, parent>>
         /\ IF permanent \/ Disposed THEN UNCHANGED <<asg, att, lease>> ELSE QueueRetry(TRUE)
         /\ IF Disposed THEN Return ELSE Handle(permanent)

\* DeferredEffectError: the task ends, the rows stay for the recovery scan.
Deferred == Return /\ UNCHANGED rows /\ UNCHANGED <<parent, procs>>

\* The outbox executes the role's effect, until its assignment is durable.
Launch ==
    /\ At("off") /\ asg = "none" /\ parent = "running"
    /\ sup' = [Idle EXCEPT !.pc = "top"]
    /\ UNCHANGED <<rows, parent, procs, exits, faults, stalls>>

\* Mutant: the recovery scan does not list assignments that are only claimed.
RecoverMutant ==
    /\ At("off") /\ asg \in Open \ {"claimed"} /\ ~AttemptIsLive
    /\ IF Disposed THEN CancelRows /\ UNCHANGED sup
       ELSE sup' = [Idle EXCEPT !.pc = "top"] /\ UNCHANGED rows
    /\ UNCHANGED <<parent, procs, exits, faults, stalls>>

\* recover_background_assignments, on every outbox tick.
Recover ==
    /\ At("off") /\ asg \in Open /\ ~AttemptIsLive
    /\ IF Disposed THEN CancelRows /\ UNCHANGED sup
       ELSE sup' = [Idle EXCEPT !.pc = "top"] /\ UNCHANGED rows
    /\ UNCHANGED <<parent, procs, exits, faults, stalls>>

\* Loop head and the role-session stage: create, reuse or replay.
Prepare ==
    /\ At("top")
    /\ CASE asg # "none" /\ Disposed -> Return /\ UNCHANGED rows
         [] asg = "none" ->
              IF parent # "running" THEN Return /\ UNCHANGED rows
              ELSE asg' = "queued" /\ Goto("prepared") /\ UNCHANGED <<att, lease, receipt, session>>
         [] asg \in {"claimed", "running"} /\ ~Disposed ->
              IF AttemptIsLive THEN Return /\ UNCHANGED rows
              ELSE QueueRetry(TRUE) /\ Goto("prepared") /\ UNCHANGED <<receipt, session>>
         [] asg \in {"queued", "retry_queued"} /\ ~Disposed -> Goto("prepared") /\ UNCHANGED rows
         [] asg \in Recorded /\ ~Disposed -> Goto("settling") /\ UNCHANGED rows
    /\ UNCHANGED <<parent, procs, exits, faults, stalls>>

\* claim_role_assignment, once a process slot is free; a node that has moved on
\* defers it.
Claim ==
    /\ At("prepared")
    /\ IF parent # "running" THEN Deferred
       ELSE /\ asg \in {"queued", "retry_queued"}
            /\ asg' = "claimed"
            /\ att' = Append(att, [status |-> "starting", bound |-> FALSE, tok |-> 0, charged |-> FALSE])
            /\ sup' = [sup EXCEPT !.pc = "claimed", !.me = Active + 1]
            /\ UNCHANGED <<lease, receipt, session, parent, procs>>
    /\ UNCHANGED <<exits, faults, stalls>>

\* claim_lease for the attempt, a transaction of its own; LeaseConflict raises.
ClaimLease ==
    /\ At("claimed")
    /\ IF lease.owner # 0 /\ lease.live THEN Raise(FALSE) /\ UNCHANGED procs
       ELSE /\ lease' = [owner |-> sup.me, tok |-> lease.tok + 1, live |-> TRUE]
            /\ sup' = [sup EXCEPT !.pc = "leased", !.tok = lease.tok + 1]
            /\ UNCHANGED <<asg, att, receipt, session, parent, procs>>
    /\ UNCHANGED <<exits, faults, stalls>>

\* start_role_attempt binds the lease to the attempt; the process is spawned.
Start ==
    /\ At("leased")
    /\ IF parent # "running" THEN Deferred
       ELSE IF asg = "claimed" /\ Active = sup.me /\ Holds(sup.me, sup.tok)
       THEN /\ asg' = "running"
            /\ att' = [att EXCEPT ![Active] = [@ EXCEPT !.status = "running", !.bound = TRUE,
                                                       !.tok = sup.tok]]
            /\ session' = SessionTarget(session, "activate")
            /\ procs' = procs \union {sup.me}
            /\ Goto("watching")
            /\ UNCHANGED <<lease, receipt, parent>>
       ELSE Raise(FALSE) /\ UNCHANGED procs
    /\ UNCHANGED <<exits, faults, stalls>>

\* The process is gone: its owner releases the lease, the result stage reads
\* the assignment.  A receipt outweighs whatever the process said or died of.
Collect ==
    /\ At("watching") /\ sup.me \notin procs /\ asg \in Recorded
    /\ lease' = Released(sup.me, sup.tok)
    /\ Goto("settling")
    /\ UNCHANGED <<asg, att, receipt, session, parent, procs, exits, faults, stalls>>

\* No receipt: the attempt failed, for good when the worker says so.
CollectFailure(permanent) ==
    /\ At("watching") /\ sup.me \notin procs /\ asg \notin Recorded
    /\ LET queued == ~permanent /\ asg = "running"
       IN  /\ asg' = IF queued THEN "retry_queued" ELSE asg
           /\ att' = IF queued THEN [att EXCEPT ![sup.me] = [@ EXCEPT !.status = "lost", !.charged = TRUE]]
                     ELSE att
    /\ lease' = Released(sup.me, sup.tok)
    /\ IF Disposed THEN Return ELSE Handle(permanent)
    /\ UNCHANGED <<receipt, session, parent, procs, exits, faults, stalls>>

\* Mutant: the business action commits without its assignment.
SettleMutant ==
    /\ At("settling")
    /\ IF parent = "running" /\ receipt = "work" /\ asg = "result_recorded"
       THEN UNCHANGED rows /\ parent' = "advanced" /\ Return
       ELSE Raise(FALSE)
    /\ UNCHANGED <<procs, exits, faults, stalls>>

\* The role's business action: parent and assignment move in one transaction.
\* A failure receipt is no report the action accepts.
Settle ==
    /\ At("settling")
    /\ IF parent = "running" /\ receipt = "work" /\ asg = "result_recorded"
       THEN SettleRows /\ parent' = "advanced" /\ Return
       ELSE Raise(FALSE)
    /\ UNCHANGED <<procs, exits, faults, stalls>>

\* settle_background_role_failure, first half: the failure becomes the result.
RecordFailure ==
    /\ sup.pc \in {"exhausted", "blocked"}
    /\ IF asg \in Recorded THEN Goto("reporting") /\ UNCHANGED rows
       ELSE IF Active = 0 \/ asg \notin Open THEN Return /\ UNCHANGED rows
       ELSE /\ receipt' = sup.pc
            /\ asg' = "result_recorded"
            /\ att' = [att EXCEPT ![Active] = [@ EXCEPT !.status = "failed", !.charged = TRUE]]
            /\ lease' = Deleted(Active)
            /\ session' = SessionTarget(session, "park")
            /\ Goto("reporting")
    /\ UNCHANGED <<parent, procs, exits, faults, stalls>>

\* Second half: ROLE_FAILED with the settlement, or the settlement alone.
ReportFailure ==
    /\ At("reporting")
    /\ IF asg = "result_recorded" THEN SettleRows ELSE UNCHANGED rows
    /\ parent' = IF parent = "running" THEN "triage" ELSE parent
    /\ Return
    /\ UNCHANGED <<procs, exits, faults, stalls>>

\* A stage raises on its own account: an artifact, the workspace, the harness.
\* A locked database leaves a recorded result to a later reconciliation.
Fault ==
    /\ sup.pc \in {"top", "prepared", "leased", "settling"} /\ faults < MaxFaults
    /\ faults' = faults + 1
    /\ \/ Raise(FALSE)
       \/ /\ asg \in Recorded /\ ~Disposed
          /\ sup.fails + 1 >= AttemptLimit \/ Charged >= AttemptLimit
          /\ Return
          /\ UNCHANGED <<rows, parent>>
    /\ UNCHANGED <<procs, exits, stalls>>

-----------------------------------------------------------------------------
(* The worker process, and what ends it. *)

\* publish_initial_role_checkpoint
Checkpoint(a) ==
    /\ a \in procs /\ a = Active /\ att[a].status = "running" /\ Holds(a, att[a].tok)
    /\ session' = SessionTarget(session, "initialize")
    /\ UNCHANGED <<asg, att, lease, receipt, parent, sup, procs, exits, faults, stalls>>

\* record_role_submission over the role gateway, however late the call is.
Submit(a) ==
    /\ a \in procs /\ a = Active
    /\ receipt = "none" /\ asg = "running" /\ Holds(a, att[a].tok)
    /\ asg' = "result_recorded" /\ receipt' = "work"
    /\ att' = [att EXCEPT ![a].status = "submitted"]
    /\ UNCHANGED <<lease, session, parent, sup, procs, exits, faults, stalls>>

\* A process ends: by a fault of its own, or because its result is recorded,
\* its aggregate stopped, its manager gone or its heartbeat refused.
ProcessExit(a) ==
    /\ a \in procs /\ procs' = procs \ {a}
    /\ IF a = sup.me /\ receipt = "none" /\ parent = "running" /\ Holds(a, att[a].tok)
       THEN faults < MaxFaults /\ faults' = faults + 1 ELSE UNCHANGED faults
    /\ UNCHANGED <<rows, parent, sup, exits, stalls>>

-----------------------------------------------------------------------------
(* Operators and the manager's life. *)

\* A pause or cancel request moves the aggregate out of the role's state.
Freeze ==
    /\ parent = "running" /\ parent' = "frozen"
    /\ UNCHANGED <<rows, sup, procs, exits, faults, stalls>>

\* stop_aggregate_worker: the owned process is closed, then the rows.
StopWorker ==
    /\ parent = "frozen" /\ asg \in Open
    /\ procs' = procs \ {sup.me}
    /\ CancelRows
    /\ UNCHANGED <<parent, sup, exits, faults, stalls>>

\* stop_background_workers: the task is cancelled where it awaits, the process
\* with it; an unsettled attempt is queued again, free of charge.
GracefulStop ==
    /\ sup.pc \in {"top", "prepared", "watching", "settling"} /\ exits < MaxExits
    /\ exits' = exits + 1
    /\ procs' = procs \ {sup.me}
    /\ IF asg = "running"
       THEN QueueRetry(FALSE)
       ELSE lease' = Released(sup.me, sup.tok) /\ UNCHANGED <<asg, att>>
    /\ Return
    /\ UNCHANGED <<receipt, session, parent, faults, stalls>>

\* The manager dies anywhere; workers may outlive it.
Crash ==
    /\ ~At("off") /\ exits < MaxExits
    /\ exits' = exits + 1
    /\ Return
    /\ UNCHANGED <<rows, parent, procs, faults, stalls>>

Init ==
    /\ asg = "none" /\ att = <<>> /\ lease = NoLease /\ receipt = "none"
    /\ session = "uninitialized" /\ parent = "running" /\ sup = Idle /\ procs = {}
    /\ exits = 0 /\ faults = 0 /\ stalls = 0

Supervise ==
    \/ Launch \/ Recover \/ Prepare \/ Claim \/ ClaimLease \/ Start \/ Collect
    \/ \E permanent \in BOOLEAN : CollectFailure(permanent)
    \/ Settle \/ RecordFailure \/ ReportFailure

Worker == \E a \in procs : Checkpoint(a) \/ Submit(a) \/ ProcessExit(a)

Next ==
    \/ Supervise \/ Worker \/ Fault \/ Expire \/ RecoverLease
    \/ Freeze \/ StopWorker \/ GracefulStop \/ Crash

Spec == Init /\ [][Next]_vars

\* The outbox loop ticks and its tasks run, processes end, operators' requests
\* are executed, and a lease nobody renews runs out.
FairSpec ==
    /\ Spec
    /\ WF_vars(Supervise) /\ WF_vars(StopWorker)
    /\ WF_vars(Expire /\ At("off"))
    /\ WF_vars(\E a \in procs : Submit(a) \/ ProcessExit(a))

-----------------------------------------------------------------------------
(* Properties *)

AttemptRow == [status : AttemptStates, bound : BOOLEAN, tok : Nat, charged : BOOLEAN]

\* The rows and the supervisor stay in the shape the code reads them in.
TypeOK ==
    /\ asg \in Open \union {"none", "settled", "cancelled"}
    /\ att \in Seq(AttemptRow)
    /\ lease \in [owner : 0 .. Active, tok : Nat, live : BOOLEAN]
    /\ receipt \in {"none", "work", "exhausted", "blocked"}
    /\ session \in SessionStates
    /\ parent \in {"running", "frozen", "advanced", "triage"}
    /\ sup.me \in 0 .. Active /\ sup.tok \in Nat /\ sup.fails \in Nat
    /\ procs \subseteq 1 .. Active

\* record_role_submission, record_role_failure_result, settlement, retries and
\* cancellation agree on every row: a receipt exists exactly in the recorded
\* states, its author is the last attempt ever claimed, every attempt before it
\* is lost, and only a running attempt's row is bound to a live fence.
RowsAgree ==
    /\ TypeOK
    /\ (receipt # "none") = (asg \in Recorded)
    /\ \A a \in 1 .. Active : a < Active => att[a].status = "lost"
    /\ receipt = "work" => att[Active].status \in {"submitted", "completed"}
    /\ receipt \in {"exhausted", "blocked"} => att[Active].status = "failed"
    /\ asg \in {"settled", "cancelled"} /\ Active > 0 /\ att[Active].bound
          => ~Holds(Active, att[Active].tok)
    /\ asg = "running" <=> Active > 0 /\ att[Active].status = "running"

\* role_protocol.py: a successful submission "must never permit a fresh retry".
\* Once work is settled the session resumes, also when its harness never
\* published a checkpoint; a checkpointed session is never fresh again.
SessionRemembers ==
    [][/\ receipt = "work" /\ asg' = "settled" => session' = "suspended"
       /\ session # "uninitialized" => session' # "uninitialized"]_vars

\* An assignment whose result is durable never runs the model again: no replay,
\* recovery, retry or late worker claims another attempt or changes the result.
WorkNeverRedone ==
    [][receipt # "none" => receipt' = receipt /\ Len(att') = Len(att)]_vars

\* A worker that outlived its manager keeps its attempt for as long as its fence
\* holds: neither recovery nor a new task takes the assignment from it.
OrphanUndisturbed ==
    [][\A a \in procs :
        /\ a # sup.me /\ asg = "running" /\ Holds(a, att[a].tok)
        /\ parent = "running"
        => Len(att') = a /\ att'[a].status \in {"running", "submitted"}]_vars

\* Retries, recovery and late workers neither redo durable work, nor take an
\* attempt from a live orphan, nor make a session forget.
RecoveryIsSafe == SessionRemembers /\ WorkNeverRedone /\ OrphanUndisturbed

\* The assignment implements the contract its parent aggregate relies on.
Contract == INSTANCE RoleContract WITH
    result <- receipt, closed <- asg \in {"settled", "cancelled"}
RefinesRoleContract == Contract!Spec

\* Every assignment is settled or cancelled, whatever manager it started under.
AssignmentsEnd == asg \in Open ~> asg \in {"settled", "cancelled"}
=============================================================================
