--------------------------- MODULE WorkflowControl ---------------------------
(* Operator control of one Bunshin workflow in its execution phase: the      *)
(* workflow, its execution epoch and its nodes are aggregates moved by the   *)
(* transition tables of machines.py; beside each node stands its node cycle, *)
(* the semantic cursor kept by WorkflowCoordinator.  A transition leaves      *)
(* effects in the outbox, and every effect the outbox processes ends with     *)
(* reconcile_control_requests.  The operator pauses, resumes, cancels,        *)
(* restarts and resolves triage at any time; an effect may run late, raise,   *)
(* exhaust its attempts or find its aggregate frozen.                         *)
(*                                                                            *)
(* db is what the repository holds.  An action is one transaction, or one     *)
(* handler: what a handler reads before an await it reads again after it.     *)
(* Two pending effects of one type on one aggregate count as one.  The        *)
(* architecture phase, replanning, dependency repair and standalone reviews   *)
(* are left out.                                                              *)
EXTENDS Naturals, FiniteSets

CONSTANTS
    Nodes,          \* the DAG's nodes
    Sink,           \* the node whose candidate is delivered
    ProducerDeps,   \* producer_predecessors of a node
    CheckerDeps,    \* checker_predecessors of a node
    MaxCommands,    \* bound on pause, cancel and restart commands
    MaxResolves,    \* bound on triage resolutions
    MaxFaults,      \* bound on faults in fallible handlers
    MaxRejections,  \* bound on rejected candidates
    MaxCrashes      \* bound on crashes around the replacement workflow

ASSUME GraphAssumption ==
    /\ IsFiniteSet(Nodes) /\ Sink \in Nodes
    /\ "wf" \notin Nodes /\ "ep" \notin Nodes
    /\ ProducerDeps \in [Nodes -> SUBSET (Nodes \ {Sink})]
    /\ CheckerDeps \in [Nodes -> SUBSET (Nodes \ {Sink})]
    /\ CheckerDeps[Sink] = Nodes \ {Sink}

ASSUME BoundsAssumption ==
    {MaxCommands, MaxResolves, MaxFaults, MaxRejections, MaxCrashes} \subseteq Nat

VARIABLES
    db,     \* aggregates, cycles, graph execution, outbox, restart request
    spent   \* how often each bounded event has happened

vars == <<db, spent>>

Aggregates == {"wf", "ep"} \cup Nodes

(* -------------------------------------------------------------------------- *)
(* The transition tables: <<source, action, target, effects>>.  A target      *)
(* "*resume" or "*triage" is read from the aggregate's saved cursor.           *)

WorkflowRows ==
    {<<"ACTIVE", "MARK_COMPLETED", "COMPLETED", {}>>,
     <<"ACTIVE", "REQUEST_PAUSE", "PAUSE_REQUESTED", {"propagate_pause"}>>,
     <<"PAUSE_REQUESTED", "CHILDREN_PAUSED", "PAUSED", {}>>,
     <<"PAUSED", "RESUME", "ACTIVE", {"propagate_resume"}>>,
     <<"CANCEL_REQUESTED", "CHILDREN_CANCELLED", "*cancelled", {}>>,
     <<"CANCEL_REQUESTED", "REQUEST_CANCEL", "CANCEL_REQUESTED", {}>>,
     <<"RESTARTING", "REQUEST_CANCEL", "RESTARTING", {}>>,
     <<"RESTARTING", "REPLACEMENT_WORKFLOW_STARTED", "CANCELLED", {}>>,
     <<"RESTARTING", "REPLACEMENT_WORKFLOW_ABORTED", "CANCELLED", {}>>,
     <<"ACTIVE", "ENTER_TRIAGE", "TRIAGE_REQUIRED", {"freeze_children"}>>,
     <<"TRIAGE_REQUIRED", "ENTER_TRIAGE", "TRIAGE_REQUIRED", {}>>,
     <<"TRIAGE_REQUIRED", "RESOLVE_TRIAGE", "*triage", {}>>}
    \cup {<<st, "ENTER_TRIAGE", "TRIAGE_REQUIRED", {}>> :
             st \in {"PAUSE_REQUESTED", "CANCEL_REQUESTED", "RESTARTING"}}
    \cup {<<st, act, "CANCEL_REQUESTED", {"propagate_cancel"}>> :
             st \in {"ACTIVE", "PAUSE_REQUESTED", "PAUSED", "TRIAGE_REQUIRED"},
             act \in {"REQUEST_CANCEL", "REQUEST_EXECUTION_RESTART"}}

EpochRows ==
    {<<"RUNNING", "ALL_REQUIRED_NODES_ACCEPTED", "FINALIZING", {"publish"}>>,
     <<"FINALIZING", "FINAL_DELIVERABLE_PUBLISHED", "COMPLETED", {"complete_workflow"}>>,
     <<"PAUSE_REQUESTED", "NODES_PAUSED", "PAUSED", {}>>,
     <<"PAUSED", "RESUME", "*resume", {"reconcile_epoch"}>>,
     <<"CANCEL_REQUESTED", "NODES_CANCELLED", "CANCELLED", {}>>,
     <<"TRIAGE_REQUIRED", "ENTER_TRIAGE", "TRIAGE_REQUIRED", {}>>,
     <<"TRIAGE_REQUIRED", "RESOLVE_TRIAGE", "*triage", {"reconcile_epoch"}>>}
    \cup {<<st, "REQUEST_PAUSE", "PAUSE_REQUESTED", {"pause_nodes"}>> :
             st \in {"RUNNING", "FINALIZING"}}
    \cup {<<st, "REQUEST_CANCEL", "CANCEL_REQUESTED", {"cancel_nodes"}>> :
             st \in {"RUNNING", "FINALIZING", "PAUSE_REQUESTED", "PAUSED", "TRIAGE_REQUIRED"}}
    \cup {<<st, "ENTER_TRIAGE", "TRIAGE_REQUIRED", {"freeze_nodes"}>> :
             st \in {"RUNNING", "FINALIZING"}}
    \cup {<<st, "ENTER_TRIAGE", "TRIAGE_REQUIRED", {}>> :
             st \in {"PAUSE_REQUESTED", "CANCEL_REQUESTED"}}

RunningNode == {"PRODUCING", "REVIEWING", "REPAIRING"}

PausableNode ==
    RunningNode \cup {"BLOCKED_BY_DEPS", "QUEUED", "REVIEW_BLOCKED_BY_DEPS", "REVIEW_QUEUED",
                      "REVIEW_QUIESCING", "REVIEW_SNAPSHOTTING", "REPAIR_QUEUED"}

CandidateNode == {"QUIESCING", "SNAPSHOTTING"}

NodeRows ==
    {<<"BLOCKED_BY_DEPS", "DEPENDENCIES_ACCEPTED", "QUEUED", {"admit_produce"}>>,
     <<"QUEUED", "START_PRODUCING", "PRODUCING", {"run_produce"}>>,
     <<"PRODUCING", "SUBMIT_CANDIDATE", "QUIESCING", {"quiesce"}>>,
     <<"REPAIRING", "SUBMIT_CANDIDATE", "QUIESCING", {"quiesce"}>>,
     <<"QUIESCING", "QUIESCE_COMPLETED", "SNAPSHOTTING", {"snapshot"}>>,
     <<"SNAPSHOTTING", "CANDIDATE_SNAPSHOTTED", "REVIEW_BLOCKED_BY_DEPS", {"schedule"}>>,
     <<"REVIEW_BLOCKED_BY_DEPS", "VERIFICATION_DEPENDENCIES_ACCEPTED", "REVIEW_QUEUED", {"admit_review"}>>,
     <<"REVIEW_QUEUED", "START_REVIEW", "REVIEWING", {"run_review"}>>,
     <<"REVIEWING", "SUBMIT_SEMANTIC_VERIFICATION", "REVIEW_QUIESCING", {"quiesce_review"}>>,
     <<"REVIEW_QUIESCING", "VERIFIER_QUIESCED", "REVIEW_SNAPSHOTTING", {"snapshot_review"}>>,
     <<"REVIEW_SNAPSHOTTING", "REVIEW_PASSED", "ACCEPTED", {"node_accepted"}>>,
     <<"REVIEW_SNAPSHOTTING", "REVIEW_FAILED", "REPAIR_QUEUED", {"admit_repair"}>>,
     <<"REVIEW_SNAPSHOTTING", "VERIFICATION_DEFECT", "REVIEW_QUEUED", {"admit_review"}>>,
     <<"REPAIR_QUEUED", "START_REPAIR", "REPAIRING", {"run_repair"}>>,
     <<"PAUSE_REQUESTED", "PAUSE_CONFIRMED", "PAUSED", {}>>,
     <<"CANCEL_REQUESTED", "CANCEL_CONFIRMED", "CANCELLED", {}>>,
     <<"PAUSED", "RESUME", "*resume", {"resume_role", "schedule"}>>,
     <<"TRIAGE_REQUIRED", "ENTER_TRIAGE", "TRIAGE_REQUIRED", {}>>,
     <<"TRIAGE_REQUIRED", "RESOLVE_TRIAGE", "*triage", {"reconcile_role", "schedule"}>>}
    \cup {<<st, "REQUEST_PAUSE", "PAUSE_REQUESTED", {"pause_role"}>> : st \in PausableNode}
    \cup {<<st, "REQUEST_CANCEL", "CANCEL_REQUESTED", {"cancel_role"}>> :
             st \in PausableNode \cup CandidateNode
                    \cup {"PAUSE_REQUESTED", "PAUSED", "TRIAGE_REQUIRED"}}
    \cup {<<st, "ENTER_TRIAGE", "TRIAGE_REQUIRED", {"park_role"}>> :
             st \in PausableNode \cup CandidateNode}
    \cup {<<st, "ENTER_TRIAGE", "TRIAGE_REQUIRED", {}>> :
             st \in {"PAUSE_REQUESTED", "CANCEL_REQUESTED"}}
    \cup {<<st, "ROLE_FAILED", "TRIAGE_REQUIRED", {"park_role"}>> : st \in RunningNode}

Indexed(rows) ==
    [p \in {<<r[1], r[2]>> : r \in rows} |-> CHOOSE r \in rows : <<r[1], r[2]>> = p]

WorkflowStep == Indexed(WorkflowRows)
EpochStep == Indexed(EpochRows)
NodeStep == Indexed(NodeRows)

Step(a) == IF a = "wf" THEN WorkflowStep ELSE IF a = "ep" THEN EpochStep ELSE NodeStep

Legal(d, a, act) == <<d.agg[a].state, act>> \in DOMAIN Step(a)

(* A running role is admitted again when its node resumes.                    *)
Reentry(st) ==
    CASE st = "PRODUCING" -> "QUEUED"
      [] st = "REVIEWING" -> "REVIEW_QUEUED"
      [] st = "REPAIRING" -> "REPAIR_QUEUED"
      [] OTHER -> st

(* CHILDREN_CANCELLED ends the workflow or starts its replacement.            *)
CancelTarget(d) == IF d.restart = "none" THEN "CANCELLED" ELSE "RESTARTING"

(* The aggregate after an action: target state and the reducers' cursors. A    *)
(* cursor no transition can read any more is dropped.                          *)
Moved(d, a, act) ==
    LET cur == d.agg[a]
        dst == Step(a)[<<cur.state, act>>][3]
    IN [state |-> CASE dst = "*resume" -> Reentry(cur.resume)
                    [] dst = "*triage" -> Reentry(cur.triage)
                    [] dst = "*cancelled" -> CancelTarget(d)
                    [] OTHER -> dst,
        resume |-> CASE act = "REQUEST_PAUSE" -> cur.state
                     [] act \in {"RESUME", "REQUEST_CANCEL", "REQUEST_EXECUTION_RESTART"} -> "none"
                     [] OTHER -> cur.resume,
        triage |-> CASE act \in {"ENTER_TRIAGE", "ROLE_FAILED"} /\ cur.state # "TRIAGE_REQUIRED" -> cur.state
                     [] act \in {"RESOLVE_TRIAGE", "REQUEST_CANCEL", "REQUEST_EXECUTION_RESTART"} -> "none"
                     [] OTHER -> cur.triage]

(* Effects whose type depends on where the workflow arrives.                  *)
ArrivalEffects(a, act, st) ==
    IF a # "wf" THEN {}
    ELSE IF act \in {"CHILDREN_CANCELLED", "RESOLVE_TRIAGE"} /\ st = "RESTARTING"
         THEN {"start_replacement"}
         ELSE IF act = "RESOLVE_TRIAGE" THEN {"reconcile_workflow"} ELSE {}

(* Semantic effects carry the version of their aggregate (_causal_context).   *)
Semantic ==
    {"admit_produce", "admit_review", "admit_repair", "run_produce", "run_review", "run_repair",
     "quiesce", "snapshot", "quiesce_review", "snapshot_review", "publish",
     "pause_role", "cancel_role", "park_role", "resume_role", "reconcile_role"}

(* execute_semantic_effect returns at once when the aggregate has moved on:    *)
(* all that is left of such an effect is the reconciliation it ends with.      *)
Overtaken == [type |-> "overtaken", of |-> "wf", tried |-> FALSE]

(* Dispatch one action to each aggregate of S, each of which admits it.        *)
DispatchAll(d, S, act) ==
    LET left == {e \in d.fx : e.of \in S /\ e.type \in Semantic}
        emitted == UNION {{[type |-> t, of |-> a, tried |-> FALSE] :
                             t \in Step(a)[<<d.agg[a].state, act>>][4]
                                   \cup ArrivalEffects(a, act, Moved(d, a, act).state)} : a \in S}
    IN [d EXCEPT
          !.agg = [a \in DOMAIN @ |-> IF a \in S THEN Moved(d, a, act) ELSE @[a]],
          !.fx = (@ \ left) \cup emitted \cup (IF left = {} THEN {} ELSE {Overtaken})]

Dispatch(d, a, act) == DispatchAll(d, {a}, act)

(* The control policies: an intent is settled by these states, requested      *)
(* where the table admits the request, and waits otherwise.                    *)
SettledBy(a, act) ==
    LET ends == IF a \in Nodes THEN {"ACCEPTED", "CANCELLED"} ELSE {"COMPLETED", "CANCELLED"}
    IN IF act = "REQUEST_PAUSE" THEN ends \cup {"PAUSED", "TRIAGE_REQUIRED"} ELSE ends

Settled(d, a, act) == d.agg[a].state \in SettledBy(a, act)

MustRequest(d, a, act) == ~Settled(d, a, act) /\ Legal(d, a, act)

(* -------------------------------------------------------------------------- *)
(* Node cycles.  busy says that an active assignment holds the cycle's slot.   *)

CycleRunning == {"PRODUCING", "CHECKING"}

\* Mutant: every interrupted assignment resumes with the producer
ReadyStateMutant(st) == IF st \in CycleRunning THEN "PRODUCER_READY" ELSE st

ReadyState(st) ==
    CASE st = "PRODUCING" -> "PRODUCER_READY"
      [] st = "CHECKING" -> "CHECKER_READY"
      [] OTHER -> st

(* The control actions of a cycle (_common_control_transition); the callers     *)
(* below apply none of them where it would raise.                               *)
CycleControl(c, act) ==
    CASE act = "REQUEST_PAUSE" ->
            [c EXCEPT !.state = "PAUSE_REQUESTED", !.resume = ReadyState(c.state)]
      [] act = "PAUSED" -> [c EXCEPT !.state = "PAUSED", !.busy = FALSE]
      [] act \in {"RESUME", "RESOLVE_TRIAGE"} ->
            [c EXCEPT !.state = IF c.resume = "none" THEN "PRODUCER_READY" ELSE c.resume,
                      !.resume = "none"]
      [] act = "REQUEST_CANCEL" -> [c EXCEPT !.state = "CANCEL_REQUESTED"]
      [] act = "CANCELLED" -> [state |-> "CANCELLED", resume |-> "none", busy |-> FALSE]
      [] act = "REQUIRE_TRIAGE" ->
            [state |-> "TRIAGE_REQUIRED", resume |-> ReadyState(c.state), busy |-> FALSE]

(* GraphExecution.with_cycle: a blocked producer whose predecessors are all     *)
(* accepted becomes ready, and an accepted sink completes the graph.            *)
Refresh(d) ==
    IF d.graph = "CANCELLED" THEN d
    ELSE [d EXCEPT
            !.cyc = [m \in Nodes |->
                IF @[m].state = "BLOCKED" /\ \A q \in ProducerDeps[m] : @[q].state = "ACCEPTED"
                THEN [@[m] EXCEPT !.state = "PRODUCER_READY"] ELSE @[m]],
            !.graph = IF d.cyc[Sink].state = "ACCEPTED" THEN "COMPLETED" ELSE @]

WithCycle(d, n, c) == Refresh([d EXCEPT !.cyc[n] = c])

(* One cycle under _control_graph: an idle cycle reaches PAUSED or CANCELLED at *)
(* once, a running one waits for its role to be retired.                        *)
\* Mutant: running cycles are settled at once, like idle ones
ControlledCycleMutant(c, act) ==
    LET skipped == \/ c.state \in {"ACCEPTED", "CANCELLED"}
                   \/ act = "REQUEST_PAUSE" /\ c.state \in {"PAUSE_REQUESTED", "PAUSED", "TRIAGE_REQUIRED"}
                   \/ act = "RESUME" /\ c.state # "PAUSED"
    IN IF skipped THEN c
       ELSE IF act = "RESUME" THEN CycleControl(c, act)
       ELSE CycleControl(CycleControl(c, act), IF act = "REQUEST_PAUSE" THEN "PAUSED" ELSE "CANCELLED")

ControlledCycle(c, act) ==
    LET skipped == \/ c.state \in {"ACCEPTED", "CANCELLED"}
                   \/ act = "REQUEST_PAUSE" /\ c.state \in {"PAUSE_REQUESTED", "PAUSED", "TRIAGE_REQUIRED"}
                   \/ act = "RESUME" /\ c.state # "PAUSED"
        asked == CycleControl(c, act)
    IN IF skipped THEN c
       ELSE IF act = "RESUME" \/ c.state \in CycleRunning \/ c.busy THEN asked
       ELSE CycleControl(asked, IF act = "REQUEST_PAUSE" THEN "PAUSED" ELSE "CANCELLED")

ControlGraph(d, act) ==
    [d EXCEPT !.cyc = [n \in Nodes |-> ControlledCycle(@[n], act)],
              !.graph = IF act = "REQUEST_CANCEL" THEN "CANCELLED" ELSE @]

(* confirm_node_control: only a cycle asked to stop is confirmed stopped.       *)
ConfirmCycle(c, cancel) ==
    IF c.state = (IF cancel THEN "CANCEL_REQUESTED" ELSE "PAUSE_REQUESTED")
    THEN CycleControl(c, IF cancel THEN "CANCELLED" ELSE "PAUSED") ELSE c

(* require_node_triage: illegal from a cancelled cycle.                         *)
CanTriageCycle(c) == c.state # "CANCELLED"
TriageCycle(d, n) ==
    IF d.cyc[n].state = "TRIAGE_REQUIRED" THEN d
    ELSE WithCycle(d, n, CycleControl(d.cyc[n], "REQUIRE_TRIAGE"))

(* start_assignment for the given slot: the graph must hold the node runnable   *)
(* and the cycle must be ready for that slot.                                   *)
CanStart(d, n, slot) ==
    /\ d.graph = "RUNNING"
    /\ d.cyc[n].state \in (IF slot = "checker" THEN {"CHECKER_READY"}
                           ELSE {"PRODUCER_READY", "REPAIR_READY"})
    /\ \A m \in (IF slot = "checker" THEN CheckerDeps[n] ELSE ProducerDeps[n]) :
          d.cyc[m].state = "ACCEPTED"

StartCycle(d, n, slot) ==
    WithCycle(d, n, [d.cyc[n] EXCEPT !.state = IF slot = "checker" THEN "CHECKING" ELSE "PRODUCING",
                                     !.busy = TRUE])

EndCycle(d, n, st) == WithCycle(d, n, [d.cyc[n] EXCEPT !.state = st, !.busy = FALSE])

(* -------------------------------------------------------------------------- *)
(* reconcile_control_requests                                                   *)

(* _workflow_pauses_cycles                                                      *)
PausesCycles(d) ==
    \/ d.agg["wf"].state \in {"PAUSE_REQUESTED", "PAUSED"}
    \/ /\ d.agg["wf"].state = "TRIAGE_REQUIRED"
       /\ d.agg["wf"].triage \in {"ACTIVE", "PAUSE_REQUESTED"}

(* _reconcile_cycle_control_projection: the workflow's intent reaches every     *)
(* cycle, and the nodes already stopped confirm theirs.                         *)
ProjectCycles(d) ==
    LET w == d.agg["wf"].state
        d1 == CASE PausesCycles(d) -> ControlGraph(d, "REQUEST_PAUSE")
                [] w \in {"CANCEL_REQUESTED", "CANCELLED"} -> ControlGraph(d, "REQUEST_CANCEL")
                [] w = "ACTIVE" -> ControlGraph(d, "RESUME")
                [] OTHER -> d
        d2 == [d1 EXCEPT !.cyc = [n \in Nodes |->
                  CASE d.agg[n].state = "PAUSED" -> ConfirmCycle(@[n], FALSE)
                    [] d.agg[n].state = "CANCELLED" -> ConfirmCycle(@[n], TRUE)
                    [] OTHER -> @[n]]]
    IN IF d2.cyc = d1.cyc THEN d1 ELSE Refresh(d2)

Requested(st) ==
    CASE st = "PAUSE_REQUESTED" -> "REQUEST_PAUSE"
      [] st = "CANCEL_REQUESTED" -> "REQUEST_CANCEL"
      [] OTHER -> "none"

Confirmation(a, act) ==
    IF a = "wf" THEN (IF act = "REQUEST_PAUSE" THEN "CHILDREN_PAUSED" ELSE "CHILDREN_CANCELLED")
    ELSE IF act = "REQUEST_PAUSE" THEN "NODES_PAUSED" ELSE "NODES_CANCELLED"

Children(a) == IF a = "wf" THEN {"ep"} ELSE Nodes

(* A parent's intent is requested of the children that can take it.             *)
RequestChildren(d, a, act) ==
    DispatchAll(d, {b \in Children(a) : MustRequest(d, b, act)}, act)

ResumeChildren(d, a) ==
    DispatchAll(d, {b \in Children(a) : d.agg[b].state = "PAUSED"}, "RESUME")

(* A parent whose children have all settled confirms its own request.           *)
\* Mutant: a parent confirms once there is nothing left to request of its children
ConfirmParentEarly(d, a) ==
    LET act == Requested(d.agg[a].state)
    IN IF act # "none" /\ \A b \in Children(a) : ~MustRequest(d, b, act)
       THEN Dispatch(d, a, Confirmation(a, act)) ELSE d

\* Mutant: only a pause is confirmed
ConfirmParentMutant(d, a) ==
    LET act == Requested(d.agg[a].state)
    IN IF act = "REQUEST_PAUSE" /\ \A b \in Children(a) : Settled(d, b, act)
       THEN Dispatch(d, a, Confirmation(a, act)) ELSE d

ConfirmParent(d, a) ==
    LET act == Requested(d.agg[a].state)
    IN IF act # "none" /\ \A b \in Children(a) : Settled(d, b, act)
       THEN Dispatch(d, a, Confirmation(a, act)) ELSE d

RequestOrResume(d, a, live) ==
    CASE Requested(d.agg[a].state) # "none" -> RequestChildren(d, a, Requested(d.agg[a].state))
      [] d.agg[a].state \in live -> ResumeChildren(d, a)
      [] OTHER -> d

(* What reconciliation leaves, as a singleton: each stage takes the result of    *)
(* the stage before it.                                                          *)
Reconciled(d) ==
    LET asked == {RequestOrResume(c, "wf", {"ACTIVE"}) : c \in {ProjectCycles(d)}}
        below == {RequestOrResume(c, "ep", {"RUNNING", "FINALIZING"}) : c \in asked}
        ended == {ConfirmParent(c, "wf") : c \in {ConfirmParent(b, "ep") : b \in below}}
    IN {ProjectCycles(c) : c \in ended}

(* -------------------------------------------------------------------------- *)
(* Effect handlers.  A handler's outcomes are the repository states it may      *)
(* leave; a handler with none raises.                                           *)

(* schedule_ready_nodes: blocked nodes the graph holds runnable are queued.     *)
ReadyProducers(d) ==
    {n \in Nodes : d.agg[n].state = "BLOCKED_BY_DEPS" /\ CanStart(d, n, "producer")}
ReadyCheckers(d) ==
    {n \in Nodes : d.agg[n].state = "REVIEW_BLOCKED_BY_DEPS" /\ CanStart(d, n, "checker")}

Schedule(d) ==
    IF d.agg["ep"].state # "RUNNING" THEN d
    ELSE DispatchAll(DispatchAll(d, ReadyProducers(d), "DEPENDENCIES_ACCEPTED"),
                     ReadyCheckers(d), "VERIFICATION_DEPENDENCIES_ACCEPTED")

(* _node_accepted: the accepted sink of a completed graph ends the epoch's run. *)
NodeAccepted(d, n) ==
    LET d1 == Schedule(d)
    IN IF d1.graph = "COMPLETED" /\ n = Sink /\ d1.agg["ep"].state = "RUNNING"
       THEN Dispatch(d1, "ep", "ALL_REQUIRED_NODES_ACCEPTED") ELSE d1

(* admit_node_worker: node and cycle start in one transaction.                  *)
Admit(d, n, act, slot) ==
    IF Legal(d, n, act) /\ CanStart(d, n, slot)
    THEN {StartCycle(Dispatch(d, n, act), n, slot)} ELSE {}

(* A role that ends hands its work on, if its node still waits for it.          *)
Advance(d, n, from, act) ==
    IF d.agg[n].state = from THEN {Dispatch(d, n, act)} ELSE {}

(* snapshot_implementation_result: candidate and cycle in one transaction.      *)
Snapshot(d, n) ==
    IF d.agg[n].state = "SNAPSHOTTING" /\ d.cyc[n].state = "PRODUCING"
    THEN {EndCycle(Dispatch(d, n, "CANDIDATE_SNAPSHOTTED"), n, "CHECKER_READY")} ELSE {}

(* commit_verification_result: a rejection sends the node to repair, a defect   *)
(* of the check itself to another check.                                        *)
Commit(d, n) ==
    IF d.agg[n].state # "REVIEW_SNAPSHOTTING" \/ d.cyc[n].state # "CHECKING" THEN {}
    ELSE {EndCycle(Dispatch(d, n, "REVIEW_PASSED"), n, "ACCEPTED")}
         \cup (IF d.rejections = MaxRejections THEN {}
               ELSE LET r == [d EXCEPT !.rejections = @ + 1]
                    IN {EndCycle(Dispatch(r, n, "REVIEW_FAILED"), n, "REPAIR_READY"),
                        EndCycle(Dispatch(r, n, "VERIFICATION_DEFECT"), n, "CHECKER_READY")})

(* stop_node_worker: retire the role, then confirm node and cycle together.     *)
StopRole(d, n, cancel) ==
    LET act == IF cancel THEN "CANCEL_CONFIRMED" ELSE "PAUSE_CONFIRMED"
    IN IF Legal(d, n, act)
       THEN {LET d1 == Dispatch(d, n, act)
                 c == ConfirmCycle(d1.cyc[n], act = "CANCEL_CONFIRMED")
             IN IF c = d1.cyc[n] THEN d1 ELSE WithCycle(d1, n, c)}
       ELSE {}

(* resume_node                                                                  *)
ResumeRole(d, n) ==
    LET st == d.agg[n].state IN
    CASE st = "QUEUED" -> Admit(d, n, "START_PRODUCING", "producer")
      [] st = "REVIEW_QUEUED" -> Admit(d, n, "START_REVIEW", "checker")
      [] st = "REPAIR_QUEUED" -> Admit(d, n, "START_REPAIR", "producer")
      [] st = "QUIESCING" -> Advance(d, n, st, "QUIESCE_COMPLETED")
      [] st = "SNAPSHOTTING" -> Snapshot(d, n)
      [] st = "REVIEW_QUIESCING" -> Advance(d, n, st, "VERIFIER_QUIESCED")
      [] st = "REVIEW_SNAPSHOTTING" -> Commit(d, n)
      [] OTHER -> {d}

(* reconcile_node                                                               *)
ReconcileRole(d, n) ==
    CASE d.agg[n].state = "PAUSE_REQUESTED" -> StopRole(d, n, FALSE)
      [] d.agg[n].state = "CANCEL_REQUESTED" -> StopRole(d, n, TRUE)
      [] OTHER -> ResumeRole(d, n)

(* publish_final_deliverable                                                    *)
Publish(d) ==
    IF /\ Legal(d, "ep", "FINAL_DELIVERABLE_PUBLISHED")
       /\ d.graph = "COMPLETED" /\ \A n \in Nodes : d.agg[n].state = "ACCEPTED"
    THEN {Dispatch(d, "ep", "FINAL_DELIVERABLE_PUBLISHED")} ELSE {}

CompleteWorkflow(d) ==
    IF Legal(d, "wf", "MARK_COMPLETED") THEN {Dispatch(d, "wf", "MARK_COMPLETED")} ELSE {}

(* _reconcile_execution_epoch                                                   *)
ReconcileEpoch(d) ==
    LET st == d.agg["ep"].state IN
    CASE Requested(st) # "none" -> {RequestChildren(d, "ep", Requested(st))}
      [] st = "RUNNING" ->
            LET d1 == Schedule(ResumeChildren(d, "ep"))
            IN {IF d1.graph = "COMPLETED" THEN NodeAccepted(d1, Sink) ELSE d1}
      [] st = "FINALIZING" -> Publish(d)
      [] OTHER -> {d}

(* _propagate_workflow_control: the handler acts on the effect's intent,        *)
(* whatever the workflow's state has become.                                    *)
Propagate(d, act, confirm) ==
    LET d1 == RequestChildren(d, "wf", act)
    IN IF confirm /\ Settled(d1, "ep", act) /\ Legal(d1, "wf", Confirmation("wf", act))
       THEN Dispatch(d1, "wf", Confirmation("wf", act)) ELSE d1

(* _reconcile_workflow                                                          *)
ReconcileWorkflow(d) ==
    LET st == d.agg["wf"].state IN
    CASE Requested(st) # "none" -> {Propagate(d, Requested(st), TRUE)}
      [] st = "ACTIVE" ->
            LET d1 == ResumeChildren(d, "wf")
            IN IF d1.agg["ep"].state = "COMPLETED" THEN CompleteWorkflow(d1) ELSE {d1}
      [] OTHER -> {d}

(* _start_replacement_workflow_from_architecture                                *)
\* Mutant: a replacement found after a crash is kept although the restart was cancelled
StartReplacementMutant(d) ==
    IF d.restart = "none" \/ d.agg["wf"].state = "CANCELLED" THEN {d}
    ELSE IF d.agg["wf"].state # "RESTARTING" THEN {}
    ELSE IF d.restart = "aborted" /\ d.replacement = "absent"
    THEN {Dispatch(d, "wf", "REPLACEMENT_WORKFLOW_ABORTED")}
    ELSE {[Dispatch(d, "wf", "REPLACEMENT_WORKFLOW_STARTED") EXCEPT !.replacement = "running"]}

StartReplacement(d) ==
    IF d.restart = "none" \/ d.agg["wf"].state = "CANCELLED" THEN {d}
    ELSE IF d.agg["wf"].state # "RESTARTING" THEN {}
    ELSE IF d.restart = "aborted" /\ d.replacement = "absent"
    THEN {Dispatch(d, "wf", "REPLACEMENT_WORKFLOW_ABORTED")}
    ELSE {[Dispatch(d, "wf", "REPLACEMENT_WORKFLOW_STARTED") EXCEPT
             !.replacement = IF d.restart = "aborted" THEN "cancelled" ELSE "running"]}

Outcomes(d, e) ==
    LET n == e.of IN
    CASE e.type = "propagate_pause" -> {Propagate(d, "REQUEST_PAUSE", TRUE)}
      [] e.type = "freeze_children" -> {Propagate(d, "REQUEST_PAUSE", FALSE)}
      [] e.type = "propagate_cancel" -> {Propagate(d, "REQUEST_CANCEL", TRUE)}
      [] e.type \in {"propagate_resume", "reconcile_workflow"} -> ReconcileWorkflow(d)
      [] e.type = "start_replacement" -> StartReplacement(d)
      [] e.type \in {"pause_nodes", "freeze_nodes"} -> {RequestChildren(d, "ep", "REQUEST_PAUSE")}
      [] e.type = "cancel_nodes" -> {RequestChildren(d, "ep", "REQUEST_CANCEL")}
      [] e.type = "reconcile_epoch" -> ReconcileEpoch(d)
      [] e.type = "publish" -> Publish(d)
      [] e.type = "complete_workflow" -> CompleteWorkflow(d)
      [] e.type = "schedule" -> {Schedule(d)}
      [] e.type = "node_accepted" -> {NodeAccepted(d, n)}
      [] e.type = "admit_produce" -> Admit(d, n, "START_PRODUCING", "producer")
      [] e.type = "admit_review" -> Admit(d, n, "START_REVIEW", "checker")
      [] e.type = "admit_repair" -> Admit(d, n, "START_REPAIR", "producer")
      [] e.type = "run_produce" -> Advance(d, n, "PRODUCING", "SUBMIT_CANDIDATE")
      [] e.type = "run_repair" -> Advance(d, n, "REPAIRING", "SUBMIT_CANDIDATE")
      [] e.type = "run_review" -> Advance(d, n, "REVIEWING", "SUBMIT_SEMANTIC_VERIFICATION")
      [] e.type = "quiesce" -> Advance(d, n, "QUIESCING", "QUIESCE_COMPLETED")
      [] e.type = "snapshot" -> Snapshot(d, n)
      [] e.type = "quiesce_review" -> Advance(d, n, "REVIEW_QUIESCING", "VERIFIER_QUIESCED")
      [] e.type = "snapshot_review" -> Commit(d, n)
      [] e.type = "pause_role" -> StopRole(d, n, FALSE)
      [] e.type = "cancel_role" -> StopRole(d, n, TRUE)
      [] e.type \in {"park_role", "overtaken"} -> {d}
      [] e.type = "resume_role" -> ResumeRole(d, n)
      [] e.type = "reconcile_role" -> ReconcileRole(d, n)

(* -------------------------------------------------------------------------- *)
(* The outbox: BunshinOutboxProcessor._process_effect.                          *)

Drop(d, e) == [d EXCEPT !.fx = @ \ {e}]

(* A failed effect is retired quietly when its aggregate has been frozen.       *)
Reconciling == {"reconcile_workflow", "reconcile_epoch", "reconcile_role"}

Superseded(d, e) ==
    LET st == d.agg[e.of].state IN
    \/ st \in {"PAUSED", "CANCELLED"}
    \/ /\ st = "PAUSE_REQUESTED"
       /\ e.type \notin Reconciling \cup {"propagate_pause", "pause_nodes", "pause_role"}
    \/ /\ st = "CANCEL_REQUESTED"
       /\ e.type \notin Reconciling \cup {"propagate_cancel", "cancel_nodes", "cancel_role"}
    \/ /\ st = "TRIAGE_REQUIRED"
       /\ e.type \notin {"freeze_children", "freeze_nodes", "park_role"}

(* _failed_effect_triage_action: the effect's own aggregate, else the workflow, *)
(* else nobody.                                                                 *)
TriageTarget(d, e) ==
    IF Legal(d, e.of, "ENTER_TRIAGE") THEN {e.of}
    ELSE IF Legal(d, "wf", "ENTER_TRIAGE") THEN {"wf"} ELSE {}

(* The failed effect, the triage and _sync_cycle_triage are one transaction: it  *)
(* rolls back when the cycle admits no triage.                                   *)
CanTriage(d, e) ==
    \A a \in TriageTarget(d, e) \cap Nodes : CanTriageCycle(d.cyc[a])

Triaged(d, e) ==
    LET to == TriageTarget(d, e)
        d1 == DispatchAll(Drop(d, e), to, "ENTER_TRIAGE")
    IN CASE to = {"wf"} /\ PausesCycles(d1) -> ControlGraph(d1, "REQUEST_PAUSE")
         [] to \cap Nodes # {} -> TriageCycle(d1, CHOOSE n \in Nodes : n \in to)
         [] OTHER -> d1

Spend(k) == spent' = [spent EXCEPT ![k] = @ + 1]

Succeed(e) ==
    /\ \E d \in Outcomes(Drop(db, e), e) : db' \in Reconciled(d)
    /\ UNCHANGED spent

Raises(e) == Outcomes(Drop(db, e), e) = {}

Retire(e) ==
    /\ Raises(e) /\ Superseded(db, e)
    /\ db' \in Reconciled(Drop(db, e))
    /\ UNCHANGED spent

(* The eight attempts of an effect are two here: an attempt that is not the last *)
(* leaves the effect to be tried again, the last one triages.                    *)
Retry(e) ==
    /\ Raises(e) /\ ~Superseded(db, e) /\ ~e.tried
    /\ db' \in Reconciled([db EXCEPT !.fx = (@ \ {e}) \cup {[e EXCEPT !.tried = TRUE]}])
    /\ UNCHANGED spent

Exhaust(e) ==
    /\ Raises(e) /\ ~Superseded(db, e) /\ e.tried /\ CanTriage(db, e)
    /\ db' \in Reconciled(Triaged(db, e))
    /\ UNCHANGED spent

(* A handler that could succeed fails for good: a process, worktree or provider  *)
(* fault outlasts its attempts.                                                  *)
Fallible ==
    {"quiesce", "snapshot", "quiesce_review", "snapshot_review", "publish",
     "pause_role", "cancel_role", "start_replacement"}

Fault(e) ==
    /\ e.type \in Fallible /\ spent.fault < MaxFaults
    /\ e.type = "start_replacement" => db.replacement = "absent"
    /\ ~Superseded(db, e) /\ CanTriage(db, e)
    /\ db' \in Reconciled(Triaged(db, e))
    /\ Spend("fault")

(* settle_background_role_failure: a role out of attempts triages its node.      *)
RoleFailed(e) ==
    /\ e.type \in {"run_produce", "run_review", "run_repair"} /\ spent.fault < MaxFaults
    /\ Legal(db, e.of, "ROLE_FAILED") /\ CanTriageCycle(db.cyc[e.of])
    /\ db' \in Reconciled(TriageCycle(Dispatch(Drop(db, e), e.of, "ROLE_FAILED"), e.of))
    /\ Spend("fault")

(* The process dies after start_workflow and before the source moves on; the     *)
(* replacement exists and the effect is still pending.                           *)
CrashAfterStart(e) ==
    /\ e.type = "start_replacement" /\ spent.crash < MaxCrashes
    /\ db.agg["wf"].state = "RESTARTING" /\ db.restart = "asked" /\ db.replacement = "absent"
    /\ db' = [db EXCEPT !.replacement = "running"]
    /\ Spend("crash")

(* -------------------------------------------------------------------------- *)
(* The operator's commands; none of them reconciles.                            *)

Command(act) ==
    /\ spent.command < MaxCommands /\ Legal(db, "wf", act)
    /\ Spend("command")

Pause ==
    /\ Command("REQUEST_PAUSE")
    /\ db' = ControlGraph(Dispatch(db, "wf", "REQUEST_PAUSE"), "REQUEST_PAUSE")

(* While the replacement is being created a cancel is only noted for it.         *)
Cancel ==
    /\ Command("REQUEST_CANCEL")
    /\ db' = ControlGraph([Dispatch(db, "wf", "REQUEST_CANCEL") EXCEPT
                             !.restart = IF db.agg["wf"].state = "RESTARTING" THEN "aborted" ELSE "none"],
                          "REQUEST_CANCEL")

Restart ==
    /\ Command("REQUEST_EXECUTION_RESTART")
    /\ db' = [Dispatch(db, "wf", "REQUEST_EXECUTION_RESTART") EXCEPT !.restart = "asked"]

Resume ==
    /\ Legal(db, "wf", "RESUME")
    /\ db' = ControlGraph(Dispatch(db, "wf", "RESUME"), "RESUME")
    /\ UNCHANGED spent

(* resolve_triage of a node also restores its cycle: a verdict waiting to be     *)
(* committed takes the checker's slot again.                                     *)
ResolvedCycle(d, n) ==
    LET c == d.cyc[n]
        ready == CycleControl(c, "RESOLVE_TRIAGE")
    IN CASE c.state # "TRIAGE_REQUIRED" -> d
         [] d.agg[n].state \in {"REVIEW_QUIESCING", "REVIEW_SNAPSHOTTING"} ->
               WithCycle(d, n, [ready EXCEPT !.state = "CHECKING", !.busy = TRUE])
         [] OTHER -> WithCycle(d, n, ready)

Resolvable(a) ==
    /\ Legal(db, a, "RESOLVE_TRIAGE")
    /\ a \in Nodes /\ db.agg[a].triage \in {"REVIEW_QUIESCING", "REVIEW_SNAPSHOTTING"} =>
          db.cyc[a].state = "TRIAGE_REQUIRED" /\ db.cyc[a].resume = "CHECKER_READY"

Resolve(a) ==
    /\ spent.resolve < MaxResolves /\ Resolvable(a)
    /\ LET d == Dispatch(db, a, "RESOLVE_TRIAGE")
       IN db' = IF a \in Nodes THEN ResolvedCycle(d, a) ELSE d
    /\ Spend("resolve")

(* -------------------------------------------------------------------------- *)

Init ==
    /\ db = [agg |-> [a \in Aggregates |->
                [state |-> CASE a = "wf" -> "ACTIVE" [] a = "ep" -> "RUNNING"
                             [] OTHER -> "BLOCKED_BY_DEPS",
                 resume |-> "none", triage |-> "none"]],
             cyc |-> [n \in Nodes |->
                [state |-> IF ProducerDeps[n] = {} THEN "PRODUCER_READY" ELSE "BLOCKED",
                 resume |-> "none", busy |-> FALSE]],
             graph |-> "RUNNING",
             fx |-> {[type |-> "schedule", of |-> "ep", tried |-> FALSE]},
             restart |-> "none", replacement |-> "absent", rejections |-> 0]
    /\ spent = [k \in {"command", "resolve", "fault", "crash"} |-> 0]

Process(e) == Succeed(e) \/ Retire(e) \/ Retry(e) \/ Exhaust(e)

Next ==
    \/ \E e \in db.fx :
          Succeed(e) \/ Retire(e) \/ Retry(e) \/ Exhaust(e) \/ Fault(e) \/ RoleFailed(e) \/ CrashAfterStart(e)
    \/ Pause \/ Cancel \/ Restart \/ Resume
    \/ \E a \in Aggregates : Resolve(a)

Spec == Init /\ [][Next]_vars

(* -------------------------------------------------------------------------- *)

State(a) == db.agg[a].state

CycleStates ==
    {"BLOCKED", "PRODUCER_READY", "PRODUCING", "CHECKER_READY", "CHECKING", "REPAIR_READY",
     "ACCEPTED", "PAUSE_REQUESTED", "PAUSED", "CANCEL_REQUESTED", "CANCELLED", "TRIAGE_REQUIRED"}

(* The repository holds aggregates in states of their own machines, cycles with  *)
(* a ready state as their cursor, and effects of those aggregates.               *)
TypeOK ==
    /\ State("wf") \in {"ACTIVE", "PAUSE_REQUESTED", "PAUSED", "CANCEL_REQUESTED", "CANCELLED",
                        "RESTARTING", "TRIAGE_REQUIRED", "COMPLETED"}
    /\ State("ep") \in {"RUNNING", "FINALIZING", "PAUSE_REQUESTED", "PAUSED", "CANCEL_REQUESTED",
                        "CANCELLED", "TRIAGE_REQUIRED", "COMPLETED"}
    /\ \A n \in Nodes : State(n) \in {r[1] : r \in NodeRows} \cup {"ACCEPTED", "CANCELLED"}
    /\ db.cyc \in [Nodes -> [state : CycleStates, resume : CycleStates \cup {"none"}, busy : BOOLEAN]]
    /\ db.graph \in {"RUNNING", "COMPLETED", "CANCELLED"}
    /\ \A e \in db.fx : e.of \in Aggregates /\ e.tried \in BOOLEAN

(* A workflow reported cancelled, or ready to be replaced, has stopped: its       *)
(* epoch and nodes have ended and no cycle holds an assignment.                   *)
CancelledSettled ==
    State("wf") \in {"CANCELLED", "RESTARTING"} =>
        /\ State("ep") \in {"CANCELLED", "COMPLETED"}
        /\ \A n \in Nodes : State(n) \in {"ACCEPTED", "CANCELLED"} /\ ~db.cyc[n].busy

(* A completed workflow delivered a graph of which every node was accepted,       *)
(* whatever was paused, resumed or rejected on the way.                           *)
CompletedOnlyAccepted ==
    State("wf") = "COMPLETED" =>
        db.graph = "COMPLETED" /\ \A n \in Nodes : State(n) = "ACCEPTED"

(* A node whose role is running holds its cycle's slot: aggregate and cycle, which *)
(* different handlers move, never disagree about who works on the node.           *)
RunningOwnsSlot ==
    \A n \in Nodes : State(n) \in RunningNode => db.cyc[n].busy

(* A cancel that arrives while the replacement is being created leaves no         *)
(* replacement running, even if the process died after creating it.               *)
AbortedRestartLeavesNothing ==
    State("wf") = "CANCELLED" /\ db.restart = "aborted" => db.replacement # "running"

(* An end that is reported is an end.                                            *)
EndedIsOver ==
    TypeOK /\ CancelledSettled /\ CompletedOnlyAccepted /\ AbortedRestartLeavesNothing

(* Under a paused workflow no role runs, none is still being asked to stop and no  *)
(* cycle holds an assignment, faults included.  Resolving a triage is not held     *)
(* back by the pause: it may start the node's role again.                          *)
PausedRunsNothing ==
    State("wf") = "PAUSED" /\ spent.resolve = 0 =>
        \A n \in Nodes :
            State(n) \notin RunningNode \cup {"PAUSE_REQUESTED"} /\ ~db.cyc[n].busy

(* Once a node's candidate is snapshotted its cycle does not fall back to the      *)
(* producer before a verdict: pausing, resuming and faults lose no work.  A triage  *)
(* entered while the cycle was pausing resumes at the wrong place once resolved.   *)
CandidateKept ==
    spent.resolve = 0 => \A n \in Nodes :
        State(n) \in {"REVIEW_BLOCKED_BY_DEPS", "REVIEW_QUEUED", "REVIEWING",
                      "REVIEW_QUIESCING", "REVIEW_SNAPSHOTTING"} =>
            db.cyc[n].state \notin {"BLOCKED", "PRODUCER_READY", "PRODUCING", "REPAIR_READY"}

(* Fairness: the manager's outbox loop claims pending effects every 0.25 s, so      *)
(* some effect is always processed while one is pending.  Nothing is owed by the   *)
(* operator.                                                                      *)
FairSpec == Spec /\ WF_vars(\E e \in db.fx : Process(e))

(* A request of the operator that has no answer yet: a cancel or a pause that    *)
(* was not confirmed, a restart whose replacement does not run.                   *)
Unanswered ==
    \/ State("wf") \in {"CANCEL_REQUESTED", "PAUSE_REQUESTED"}
    \/ State("wf") = "RESTARTING" /\ db.restart = "asked" /\ db.replacement # "running"

(* Every request of the operator is settled by a fair outbox loop, confirmed or    *)
(* handed to triage, also one that overtook another: no chain of requests stays    *)
(* open for ever.                                                                 *)
ControlSettles == Unanswered ~> ~Unanswered
=============================================================================
