------------------------ MODULE WorkflowControlProofs ------------------------
(* TLAPS proofs about WorkflowControl, for any graph and any number of      *)
(* commands, faults, resolutions, rejections and crashes.  A handler reads   *)
(* and writes the whole repository, so everything here is stated of a        *)
(* repository state d: each stage of a handler and of the reconciliation     *)
(* takes a state with Sound to a state with Sound.                           *)
EXTENDS WorkflowControl, TLAPS

-----------------------------------------------------------------------------
(* Types                                                                     *)

\* The repository has these fields; the parts below say what values they take.
IsCycle(c) == c = [state |-> c.state, resume |-> c.resume, busy |-> c.busy] /\ c.busy \in BOOLEAN

IsEffect(e) ==
    /\ e = [type |-> e.type, of |-> e.of, tried |-> e.tried]
    /\ e.of \in Aggregates /\ e.tried \in BOOLEAN

IsDatabase(d) ==
    /\ d = [agg |-> d.agg, cyc |-> d.cyc, graph |-> d.graph, fx |-> d.fx, restart |-> d.restart,
            replacement |-> d.replacement, rejections |-> d.rejections]
    /\ d.agg = [a \in Aggregates |-> d.agg[a]]
    /\ d.cyc = [n \in Nodes |-> d.cyc[n]] /\ \A n \in Nodes : IsCycle(d.cyc[n])
    /\ \A e \in d.fx : IsEffect(e)

-----------------------------------------------------------------------------
(* A node x and its cycle c.  g is the state of the graph; r says that no    *)
(* triage has been resolved.                                                 *)

NodeStates ==
    PausableNode \cup CandidateNode
        \cup {"PAUSE_REQUESTED", "PAUSED", "CANCEL_REQUESTED", "TRIAGE_REQUIRED", "ACCEPTED", "CANCELLED"}

\* A cursor is there when a transition will read it.
NodeShape(x) ==
    /\ x.state \in NodeStates
    /\ x.resume \in PausableNode \cup {"none"}
    /\ x.triage \in PausableNode \cup CandidateNode \cup {"PAUSE_REQUESTED", "CANCEL_REQUESTED", "none"}
    /\ x.state = "TRIAGE_REQUIRED" <=> x.triage # "none"
    /\ x.state \in {"PAUSE_REQUESTED", "PAUSED"} \/ x.triage = "PAUSE_REQUESTED" => x.resume # "none"

\* An assignment is held by a cycle that runs or was asked to stop.
CycleShape(c) ==
    /\ c.state \in CycleStates
    /\ c.resume \in (CycleStates \cup {"none"}) \ {"ACCEPTED", "PRODUCING", "CHECKING"}
    /\ c.busy => c.state \in {"PRODUCING", "CHECKING", "PAUSE_REQUESTED", "CANCEL_REQUESTED"}

\* Who works on the node, and who has stopped.
SlotPart(x, c) ==
    /\ x.state \in RunningNode => c.busy
    /\ x.state \in {"CANCELLED", "TRIAGE_REQUIRED"} => ~c.busy
    /\ x.state = "ACCEPTED" <=> c.state = "ACCEPTED"

\* A cancelled graph has only cycles that ended or are asked to end, and only a
\* cancelled graph cancels its nodes.
CancelPart(x, c, g) ==
    /\ g = "CANCELLED" =>
        \/ c.state \in {"ACCEPTED", "CANCELLED", "CANCEL_REQUESTED"}
        \/ c.state = "TRIAGE_REQUIRED" /\ c.resume = "CANCEL_REQUESTED"
    /\ x.state \in {"CANCEL_REQUESTED", "CANCELLED"} \/ x.triage = "CANCEL_REQUESTED" => g = "CANCELLED"

ReviewNode ==
    {"REVIEW_BLOCKED_BY_DEPS", "REVIEW_QUEUED", "REVIEWING", "REVIEW_QUIESCING", "REVIEW_SNAPSHOTTING"}
BeforeCandidate == {"BLOCKED", "PRODUCER_READY", "PRODUCING", "REPAIR_READY"}

\* Where a paused node was when it was paused.
Phase(x) == IF x.state \in {"PAUSE_REQUESTED", "PAUSED"} THEN x.resume ELSE x.state

\* Neither the cycle of a node with a candidate nor the place it will resume at
\* is before the candidate.
CandidatePart(x, c) ==
    Phase(x) \in ReviewNode =>
        /\ c.state \notin BeforeCandidate
        /\ c.state \in {"PAUSE_REQUESTED", "PAUSED"} =>
               c.resume \notin BeforeCandidate \cup {"none", "PAUSE_REQUESTED", "PAUSED"}

NodePart(x, c, g, r) ==
    /\ NodeShape(x) /\ CycleShape(c)
    /\ SlotPart(x, c) /\ CancelPart(x, c, g)
    /\ r => CandidatePart(x, c)

-----------------------------------------------------------------------------
(* Workflow w, epoch p and graph g.                                          *)

\* The workflow is being cancelled, or was.
CancelSide(w) ==
    \/ w.state \in {"CANCEL_REQUESTED", "CANCELLED", "RESTARTING"}
    \/ w.state = "TRIAGE_REQUIRED" /\ w.triage \in {"CANCEL_REQUESTED", "RESTARTING"}

WorkflowShape(w) ==
    /\ w.state \in {"ACTIVE", "PAUSE_REQUESTED", "PAUSED", "CANCEL_REQUESTED", "CANCELLED",
                    "RESTARTING", "TRIAGE_REQUIRED", "COMPLETED"}
    /\ w.state = "TRIAGE_REQUIRED" =>
           w.triage \in {"ACTIVE", "PAUSE_REQUESTED", "CANCEL_REQUESTED", "RESTARTING"}

\* Only the publication is triaged.
EpochShape(p) ==
    /\ p.state \in {"RUNNING", "FINALIZING", "PAUSE_REQUESTED", "PAUSED", "CANCEL_REQUESTED",
                    "CANCELLED", "TRIAGE_REQUIRED", "COMPLETED"}
    /\ p.resume \in {"RUNNING", "FINALIZING", "none"}
    /\ p.triage \in {"FINALIZING", "none"}
    /\ p.state = "TRIAGE_REQUIRED" => p.triage = "FINALIZING"
    /\ p.state \in {"PAUSE_REQUESTED", "PAUSED"} => p.resume # "none"

\* What the three say of each other.
ParentPart(w, p, g, r) ==
    /\ WorkflowShape(w) /\ EpochShape(p) /\ g \in {"RUNNING", "COMPLETED", "CANCELLED"}
    /\ g = "CANCELLED" => CancelSide(w)
    /\ p.state \in {"CANCEL_REQUESTED", "CANCELLED"} => g = "CANCELLED" \/ w.state = "CANCEL_REQUESTED"
    /\ p.state = "COMPLETED" => g \in {"COMPLETED", "CANCELLED"}
    /\ w.state = "COMPLETED" => p.state = "COMPLETED" /\ g = "COMPLETED"
    /\ w.state \in {"CANCELLED", "RESTARTING"} \/ (w.state = "TRIAGE_REQUIRED" /\ w.triage = "RESTARTING")
           => p.state \in {"CANCELLED", "COMPLETED"}
    /\ w.state = "TRIAGE_REQUIRED" /\ w.triage = "CANCEL_REQUESTED"
           => g = "CANCELLED" \/ p.state = "COMPLETED"
    /\ r /\ w.state = "PAUSED" => p.state \in {"PAUSED", "TRIAGE_REQUIRED", "CANCELLED", "COMPLETED"}

-----------------------------------------------------------------------------
(* The repository.                                                           *)

\* The epoch's state against the states of its nodes.
ChildPart(d, r) ==
    /\ d.agg["ep"].state = "COMPLETED" \/ "FINALIZING" \in {d.agg["ep"].state, d.agg["ep"].resume, d.agg["ep"].triage}
           => \A n \in Nodes : d.agg[n].state = "ACCEPTED"
    /\ d.agg["ep"].state = "CANCELLED" => \A n \in Nodes : d.agg[n].state \in {"ACCEPTED", "CANCELLED"}
    /\ r /\ d.agg["ep"].state = "PAUSED" =>
           \A n \in Nodes : d.agg[n].state \in SettledBy(n, "REQUEST_PAUSE")

CheckedNode == {"REVIEWING", "REVIEW_QUIESCING", "REVIEW_SNAPSHOTTING"}

\* A node is checked after those its check needs; the sink's needs all others.
CheckPart(d) ==
    /\ \A n \in Nodes :
           {d.agg[n].state, d.agg[n].resume, d.agg[n].triage} \cap CheckedNode # {} =>
               \A m \in CheckerDeps[n] : d.cyc[m].state = "ACCEPTED"
    /\ d.graph = "COMPLETED" => d.cyc[Sink].state = "ACCEPTED"
    /\ d.cyc[Sink].state = "ACCEPTED" => \A n \in Nodes : d.cyc[n].state = "ACCEPTED"

NodeSemantic == Semantic \ {"publish"}

\* Effects that are pending although their aggregate may have moved on.
EffectPart(e, agg) ==
    /\ e.of \in Nodes =>
        /\ e.type \in NodeSemantic \cup {"schedule", "node_accepted"}
        /\ e.type \in NodeSemantic => agg[e.of].state \notin {"ACCEPTED", "CANCELLED", "PAUSED"}
    /\ e.of = "ep" =>
        /\ e.type \in {"publish", "complete_workflow", "pause_nodes", "cancel_nodes", "freeze_nodes",
                       "reconcile_epoch", "schedule"}
        /\ e.type = "publish" => agg["ep"].state = "FINALIZING"
        /\ e.type = "complete_workflow" => agg["ep"].state = "COMPLETED"
        /\ e.type = "cancel_nodes" => agg["ep"].state \in {"CANCEL_REQUESTED", "CANCELLED"}
    /\ e.of = "wf" =>
        /\ e.type \in {"propagate_pause", "propagate_resume", "propagate_cancel", "freeze_children",
                       "reconcile_workflow", "start_replacement", "overtaken"}
        /\ e.type \in {"propagate_cancel", "start_replacement"} => CancelSide(agg["wf"])

\* No replacement outlives a restart that was aborted.
ReplacementPart(d) ==
    d.agg["wf"].state = "CANCELLED" /\ d.restart = "aborted" => d.replacement # "running"

\* What every stage of a handler keeps.
Sound(d, r) ==
    /\ IsDatabase(d)
    /\ ParentPart(d.agg["wf"], d.agg["ep"], d.graph, r)
    /\ \A n \in Nodes : NodePart(d.agg[n], d.cyc[n], d.graph, r)
    /\ ChildPart(d, r) /\ CheckPart(d)
    /\ \A e \in d.fx : EffectPart(e, d.agg)
    /\ ReplacementPart(d)

\* What the reconciliation adds: the graph follows the epoch's cancellation, and
\* under a paused workflow no cycle is at work.
Projected(d, r) ==
    /\ d.agg["ep"].state \in {"CANCEL_REQUESTED", "CANCELLED"} => d.graph = "CANCELLED"
    /\ r /\ d.agg["wf"].state = "PAUSED" => \A n \in Nodes : ~d.cyc[n].busy

Unresolved == spent.resolve = 0

IInv ==
    /\ spent \in [{"command", "resolve", "fault", "crash"} -> Nat]
    /\ Sound(db, Unresolved) /\ Projected(db, Unresolved)

-----------------------------------------------------------------------------
(* The transition tables                                                     *)

LEMMA Names == /\ "wf" \notin Nodes /\ "ep" \notin Nodes /\ Sink \in Nodes
               /\ Aggregates = {"wf", "ep"} \cup Nodes
               /\ \A n \in Nodes : n # "wf" /\ n # "ep" /\ Step(n) = NodeStep
               /\ Step("wf") = WorkflowStep /\ Step("ep") = EpochStep
BY GraphAssumption DEF Aggregates, Step

LEMMA IndexedRow ==
    ASSUME NEW rows, NEW st, NEW act, <<st, act>> \in DOMAIN Indexed(rows)
    PROVE  /\ Indexed(rows)[<<st, act>>] \in rows
           /\ Indexed(rows)[<<st, act>>][1] = st /\ Indexed(rows)[<<st, act>>][2] = act
<1> DEFINE Keys == {<<r[1], r[2]>> : r \in rows}
           Row(p) == CHOOSE r \in rows : <<r[1], r[2]>> = p
<1>1. Indexed(rows) = [p \in Keys |-> Row(p)]
  BY DEF Indexed
<1>2. <<st, act>> \in Keys
  BY <1>1
<1>3. PICK r \in rows : <<r[1], r[2]>> = <<st, act>>
  BY <1>2
<1>4. Row(<<st, act>>) \in rows /\ <<Row(<<st, act>>)[1], Row(<<st, act>>)[2]>> = <<st, act>>
  BY <1>3
<1>5. Indexed(rows)[<<st, act>>] = Row(<<st, act>>)
  BY <1>1, <1>2
<1> HIDE DEF Row
<1> QED BY <1>4, <1>5

LEMMA LegalRow ==
    ASSUME NEW rows, NEW st, NEW act, NEW r \in rows, r[1] = st, r[2] = act
    PROVE  <<st, act>> \in DOMAIN Indexed(rows)
BY DEF Indexed

\* The rows of a node that leave its cursors alone.
PlainRows ==
    {<<"BLOCKED_BY_DEPS", "DEPENDENCIES_ACCEPTED", "QUEUED", {"admit_produce"}>>,
     <<"QUEUED", "START_PRODUCING", "PRODUCING", {"run_produce"}>>,
     <<"PRODUCING", "SUBMIT_CANDIDATE", "QUIESCING", {"quiesce"}>>,
     <<"REPAIRING", "SUBMIT_CANDIDATE", "QUIESCING", {"quiesce"}>>,
     <<"QUIESCING", "QUIESCE_COMPLETED", "SNAPSHOTTING", {"snapshot"}>>,
     <<"SNAPSHOTTING", "CANDIDATE_SNAPSHOTTED", "REVIEW_BLOCKED_BY_DEPS", {"schedule"}>>,
     <<"REVIEW_BLOCKED_BY_DEPS", "VERIFICATION_DEPENDENCIES_ACCEPTED", "REVIEW_QUEUED", {"admit_review"}>>,
     <<"REVIEW_QUEUED", "START_REVIEW", "REVIEWING", {"run_review"}>>,
     <<"REVIEWING", "SUBMIT_SEMANTIC_VERIFICATION", "REVIEW_QUIESCING", {"quiesce_review"}>>,
     <<"REVIEW_QUIESCING", "VERIFIER_QUIESCED", "REVIEW_SNAPSHOTTING", {"snapshot_review"}>>,
     <<"REVIEW_SNAPSHOTTING", "REVIEW_PASSED", "ACCEPTED", {"node_accepted"}>>,
     <<"REVIEW_SNAPSHOTTING", "REVIEW_FAILED", "REPAIR_QUEUED", {"admit_repair"}>>,
     <<"REVIEW_SNAPSHOTTING", "VERIFICATION_DEFECT", "REVIEW_QUEUED", {"admit_review"}>>,
     <<"REPAIR_QUEUED", "START_REPAIR", "REPAIRING", {"run_repair"}>>,
     <<"PAUSE_REQUESTED", "PAUSE_CONFIRMED", "PAUSED", {}>>,
     <<"CANCEL_REQUESTED", "CANCEL_CONFIRMED", "CANCELLED", {}>>}

ControlActs ==
    {"REQUEST_PAUSE", "REQUEST_CANCEL", "ENTER_TRIAGE", "ROLE_FAILED", "RESUME", "RESOLVE_TRIAGE"}

\* What a legal action makes of a node x, and the effects it leaves.
NodeMove(x, act, y, out) ==
    \/ /\ act \notin ControlActs /\ <<x.state, act, y.state, out>> \in PlainRows
       /\ y.resume = x.resume /\ y.triage = x.triage
    \/ /\ act = "REQUEST_PAUSE" /\ x.state \in PausableNode
       /\ y.state = "PAUSE_REQUESTED" /\ y.resume = x.state /\ y.triage = x.triage
       /\ out = {"pause_role"}
    \/ /\ act = "REQUEST_CANCEL" /\ x.state \notin {"ACCEPTED", "CANCELLED", "CANCEL_REQUESTED"}
       /\ y.state = "CANCEL_REQUESTED" /\ y.resume = "none" /\ y.triage = "none"
       /\ out = {"cancel_role"}
    \/ /\ act \in {"ENTER_TRIAGE", "ROLE_FAILED"} /\ x.state \notin {"ACCEPTED", "CANCELLED", "PAUSED"}
       /\ y.state = "TRIAGE_REQUIRED" /\ y.resume = x.resume
       /\ y.triage = IF x.state = "TRIAGE_REQUIRED" THEN x.triage ELSE x.state
       /\ out \subseteq {"park_role"}
    \/ /\ act = "RESUME" /\ x.state = "PAUSED"
       /\ y.state = Reentry(x.resume) /\ y.resume = "none" /\ y.triage = x.triage
       /\ out = {"resume_role", "schedule"}
    \/ /\ act = "RESOLVE_TRIAGE" /\ x.state = "TRIAGE_REQUIRED"
       /\ y.state = Reentry(x.triage) /\ y.resume = x.resume /\ y.triage = "none"
       /\ out = {"reconcile_role", "schedule"}

LEMMA NodeRowCases ==
    ASSUME NEW r \in NodeRows
    PROVE  \/ r \in PlainRows
           \/ r \in {<<"PAUSED", "RESUME", "*resume", {"resume_role", "schedule"}>>,
                     <<"TRIAGE_REQUIRED", "ENTER_TRIAGE", "TRIAGE_REQUIRED", {}>>,
                     <<"TRIAGE_REQUIRED", "RESOLVE_TRIAGE", "*triage", {"reconcile_role", "schedule"}>>}
           \/ \E st \in PausableNode : r = <<st, "REQUEST_PAUSE", "PAUSE_REQUESTED", {"pause_role"}>>
           \/ \E st \in PausableNode \cup CandidateNode \cup {"PAUSE_REQUESTED", "PAUSED", "TRIAGE_REQUIRED"} :
                  r = <<st, "REQUEST_CANCEL", "CANCEL_REQUESTED", {"cancel_role"}>>
           \/ \E st \in PausableNode \cup CandidateNode :
                  r = <<st, "ENTER_TRIAGE", "TRIAGE_REQUIRED", {"park_role"}>>
           \/ \E st \in {"PAUSE_REQUESTED", "CANCEL_REQUESTED"} :
                  r = <<st, "ENTER_TRIAGE", "TRIAGE_REQUIRED", {}>>
           \/ \E st \in RunningNode : r = <<st, "ROLE_FAILED", "TRIAGE_REQUIRED", {"park_role"}>>
BY DEF NodeRows, PlainRows

LEMMA NodeMoves ==
    ASSUME NEW d, NEW n \in Nodes, NEW act, Legal(d, n, act)
    PROVE  NodeMove(d.agg[n], act, Moved(d, n, act), NodeStep[<<d.agg[n].state, act>>][4])
<1> DEFINE x == d.agg[n]
           y == Moved(d, n, act)
           r == NodeStep[<<x.state, act>>]
           Dst == CASE r[3] = "*resume" -> Reentry(x.resume)
                    [] r[3] = "*triage" -> Reentry(x.triage)
                    [] r[3] = "*cancelled" -> CancelTarget(d)
                    [] OTHER -> r[3]
           Res == CASE act = "REQUEST_PAUSE" -> x.state
                    [] act \in {"RESUME", "REQUEST_CANCEL", "REQUEST_EXECUTION_RESTART"} -> "none"
                    [] OTHER -> x.resume
           Tri == CASE act \in {"ENTER_TRIAGE", "ROLE_FAILED"} /\ x.state # "TRIAGE_REQUIRED" -> x.state
                    [] act \in {"RESOLVE_TRIAGE", "REQUEST_CANCEL", "REQUEST_EXECUTION_RESTART"} -> "none"
                    [] OTHER -> x.triage
<1>1. r \in NodeRows /\ r[1] = x.state /\ r[2] = act
  BY Names, IndexedRow DEF Legal, NodeStep
<1>2. y = [state |-> Dst, resume |-> Res, triage |-> Tri]
  BY Names DEF Moved
<1>3. y.state = Dst /\ y.resume = Res /\ y.triage = Tri
  BY <1>2
<1> HIDE DEF r
<1>4. NodeMove(x, act, y, r[4])
  <2> HIDE DEF x, y
  <2>1. CASE r \in PlainRows
    <3>1. /\ act \notin ControlActs \cup {"REQUEST_EXECUTION_RESTART"}
          /\ r[3] \notin {"*resume", "*triage", "*cancelled"}
          /\ r = <<r[1], r[2], r[3], r[4]>>
      BY <1>1, <2>1 DEF PlainRows, ControlActs
    <3>2. Dst = r[3] /\ Res = x.resume /\ Tri = x.triage
      BY <3>1 DEF ControlActs
    <3> QED BY <1>1, <1>3, <2>1, <3>1, <3>2 DEF NodeMove
  <2>2. CASE r \in {<<"PAUSED", "RESUME", "*resume", {"resume_role", "schedule"}>>,
                     <<"TRIAGE_REQUIRED", "ENTER_TRIAGE", "TRIAGE_REQUIRED", {}>>,
                     <<"TRIAGE_REQUIRED", "RESOLVE_TRIAGE", "*triage", {"reconcile_role", "schedule"}>>}
    <3>1. CASE act = "RESUME"
      <4>1. x.state = "PAUSED" /\ r[3] = "*resume" /\ r[4] = {"resume_role", "schedule"}
        BY <1>1, <2>2, <3>1
      <4>2. Dst = Reentry(x.resume) /\ Res = "none" /\ Tri = x.triage
        BY <3>1, <4>1
      <4> QED BY <1>3, <3>1, <4>1, <4>2 DEF NodeMove
    <3>2. CASE act = "ENTER_TRIAGE"
      <4>1. x.state = "TRIAGE_REQUIRED" /\ r[3] = "TRIAGE_REQUIRED" /\ r[4] = {}
        BY <1>1, <2>2, <3>2
      <4>2. Dst = "TRIAGE_REQUIRED" /\ Res = x.resume /\ Tri = x.triage
        BY <3>2, <4>1
      <4> QED BY <1>3, <3>2, <4>1, <4>2 DEF NodeMove
    <3>3. CASE act = "RESOLVE_TRIAGE"
      <4>1. x.state = "TRIAGE_REQUIRED" /\ r[3] = "*triage" /\ r[4] = {"reconcile_role", "schedule"}
        BY <1>1, <2>2, <3>3
      <4>2. Dst = Reentry(x.triage) /\ Res = x.resume /\ Tri = "none"
        BY <3>3, <4>1
      <4> QED BY <1>3, <3>3, <4>1, <4>2 DEF NodeMove
    <3> QED BY <1>1, <2>2, <3>1, <3>2, <3>3
  <2>3. CASE \E st \in PausableNode : r = <<st, "REQUEST_PAUSE", "PAUSE_REQUESTED", {"pause_role"}>>
    <3>1. act = "REQUEST_PAUSE" /\ x.state \in PausableNode /\ r[3] = "PAUSE_REQUESTED" /\ r[4] = {"pause_role"}
      BY <1>1, <2>3
    <3>2. Dst = "PAUSE_REQUESTED" /\ Res = x.state /\ Tri = x.triage
      BY <3>1
    <3> QED BY <1>3, <3>1, <3>2 DEF NodeMove
  <2>4. CASE \E st \in PausableNode \cup CandidateNode \cup {"PAUSE_REQUESTED", "PAUSED", "TRIAGE_REQUIRED"} :
                  r = <<st, "REQUEST_CANCEL", "CANCEL_REQUESTED", {"cancel_role"}>>
    <3>1. /\ act = "REQUEST_CANCEL" /\ r[3] = "CANCEL_REQUESTED" /\ r[4] = {"cancel_role"}
          /\ x.state \in PausableNode \cup CandidateNode \cup {"PAUSE_REQUESTED", "PAUSED", "TRIAGE_REQUIRED"}
      BY <1>1, <2>4
    <3>2. x.state \notin {"ACCEPTED", "CANCELLED", "CANCEL_REQUESTED"}
      BY <3>1 DEF PausableNode, CandidateNode, RunningNode
    <3>3. Dst = "CANCEL_REQUESTED" /\ Res = "none" /\ Tri = "none"
      BY <3>1
    <3> QED BY <1>3, <3>1, <3>2, <3>3 DEF NodeMove
  <2>5. CASE \/ \E st \in PausableNode \cup CandidateNode :
                  r = <<st, "ENTER_TRIAGE", "TRIAGE_REQUIRED", {"park_role"}>>
             \/ \E st \in {"PAUSE_REQUESTED", "CANCEL_REQUESTED"} :
                  r = <<st, "ENTER_TRIAGE", "TRIAGE_REQUIRED", {}>>
             \/ \E st \in RunningNode : r = <<st, "ROLE_FAILED", "TRIAGE_REQUIRED", {"park_role"}>>
    <3>1. /\ act \in {"ENTER_TRIAGE", "ROLE_FAILED"} /\ r[3] = "TRIAGE_REQUIRED" /\ r[4] \subseteq {"park_role"}
          /\ x.state \in PausableNode \cup CandidateNode \cup {"PAUSE_REQUESTED", "CANCEL_REQUESTED"}
      BY <1>1, <2>5 DEF PausableNode
    <3>2. x.state \notin {"ACCEPTED", "CANCELLED", "PAUSED", "TRIAGE_REQUIRED"}
      BY <3>1 DEF PausableNode, CandidateNode, RunningNode
    <3>3. Dst = "TRIAGE_REQUIRED" /\ Res = x.resume /\ Tri = x.state
      BY <3>1, <3>2
    <3> QED BY <1>3, <3>1, <3>2, <3>3 DEF NodeMove
  <2> QED BY <1>1, <2>1, <2>2, <2>3, <2>4, <2>5, NodeRowCases
<1> QED BY <1>4 DEF r

\* What a legal action makes of the epoch x.
EpochMove(x, act, y, out) ==
    \/ /\ <<x.state, act, y.state, out>> \in
              {<<"RUNNING", "ALL_REQUIRED_NODES_ACCEPTED", "FINALIZING", {"publish"}>>,
               <<"FINALIZING", "FINAL_DELIVERABLE_PUBLISHED", "COMPLETED", {"complete_workflow"}>>,
               <<"PAUSE_REQUESTED", "NODES_PAUSED", "PAUSED", {}>>,
               <<"CANCEL_REQUESTED", "NODES_CANCELLED", "CANCELLED", {}>>}
       /\ y.resume = x.resume /\ y.triage = x.triage
    \/ /\ act = "REQUEST_PAUSE" /\ x.state \in {"RUNNING", "FINALIZING"}
       /\ y.state = "PAUSE_REQUESTED" /\ y.resume = x.state /\ y.triage = x.triage
       /\ out = {"pause_nodes"}
    \/ /\ act = "REQUEST_CANCEL"
       /\ x.state \in {"RUNNING", "FINALIZING", "PAUSE_REQUESTED", "PAUSED", "TRIAGE_REQUIRED"}
       /\ y.state = "CANCEL_REQUESTED" /\ y.resume = "none" /\ y.triage = "none"
       /\ out = {"cancel_nodes"}
    \/ /\ act = "ENTER_TRIAGE"
       /\ x.state \in {"RUNNING", "FINALIZING", "PAUSE_REQUESTED", "CANCEL_REQUESTED", "TRIAGE_REQUIRED"}
       /\ y.state = "TRIAGE_REQUIRED" /\ y.resume = x.resume
       /\ y.triage = IF x.state = "TRIAGE_REQUIRED" THEN x.triage ELSE x.state
       /\ out \subseteq {"freeze_nodes"}
    \/ /\ act = "RESUME" /\ x.state = "PAUSED"
       /\ y.state = Reentry(x.resume) /\ y.resume = "none" /\ y.triage = x.triage
       /\ out = {"reconcile_epoch"}
    \/ /\ act = "RESOLVE_TRIAGE" /\ x.state = "TRIAGE_REQUIRED"
       /\ y.state = Reentry(x.triage) /\ y.resume = x.resume /\ y.triage = "none"
       /\ out = {"reconcile_epoch"}

LEMMA EpochRowCases ==
    ASSUME NEW r \in EpochRows
    PROVE  \/ r \in {<<"RUNNING", "ALL_REQUIRED_NODES_ACCEPTED", "FINALIZING", {"publish"}>>,
                     <<"FINALIZING", "FINAL_DELIVERABLE_PUBLISHED", "COMPLETED", {"complete_workflow"}>>,
                     <<"PAUSE_REQUESTED", "NODES_PAUSED", "PAUSED", {}>>,
                     <<"CANCEL_REQUESTED", "NODES_CANCELLED", "CANCELLED", {}>>}
           \/ r \in {<<"PAUSED", "RESUME", "*resume", {"reconcile_epoch"}>>,
                     <<"TRIAGE_REQUIRED", "ENTER_TRIAGE", "TRIAGE_REQUIRED", {}>>,
                     <<"TRIAGE_REQUIRED", "RESOLVE_TRIAGE", "*triage", {"reconcile_epoch"}>>}
           \/ \E st \in {"RUNNING", "FINALIZING"} : r = <<st, "REQUEST_PAUSE", "PAUSE_REQUESTED", {"pause_nodes"}>>
           \/ \E st \in {"RUNNING", "FINALIZING", "PAUSE_REQUESTED", "PAUSED", "TRIAGE_REQUIRED"} :
                  r = <<st, "REQUEST_CANCEL", "CANCEL_REQUESTED", {"cancel_nodes"}>>
           \/ \E st \in {"RUNNING", "FINALIZING"} :
                  r = <<st, "ENTER_TRIAGE", "TRIAGE_REQUIRED", {"freeze_nodes"}>>
           \/ \E st \in {"PAUSE_REQUESTED", "CANCEL_REQUESTED"} :
                  r = <<st, "ENTER_TRIAGE", "TRIAGE_REQUIRED", {}>>
BY DEF EpochRows

LEMMA EpochMoves ==
    ASSUME NEW d, NEW act, Legal(d, "ep", act)
    PROVE  EpochMove(d.agg["ep"], act, Moved(d, "ep", act), EpochStep[<<d.agg["ep"].state, act>>][4])
<1> DEFINE x == d.agg["ep"]
           y == Moved(d, "ep", act)
           r == EpochStep[<<x.state, act>>]
           Dst == CASE r[3] = "*resume" -> Reentry(x.resume)
                    [] r[3] = "*triage" -> Reentry(x.triage)
                    [] r[3] = "*cancelled" -> CancelTarget(d)
                    [] OTHER -> r[3]
           Res == CASE act = "REQUEST_PAUSE" -> x.state
                    [] act \in {"RESUME", "REQUEST_CANCEL", "REQUEST_EXECUTION_RESTART"} -> "none"
                    [] OTHER -> x.resume
           Tri == CASE act \in {"ENTER_TRIAGE", "ROLE_FAILED"} /\ x.state # "TRIAGE_REQUIRED" -> x.state
                    [] act \in {"RESOLVE_TRIAGE", "REQUEST_CANCEL", "REQUEST_EXECUTION_RESTART"} -> "none"
                    [] OTHER -> x.triage
<1>1. r \in EpochRows /\ r[1] = x.state /\ r[2] = act
  BY Names, IndexedRow DEF Legal, EpochStep
<1>2. y = [state |-> Dst, resume |-> Res, triage |-> Tri]
  BY Names DEF Moved
<1>3. y.state = Dst /\ y.resume = Res /\ y.triage = Tri
  BY <1>2
<1> HIDE DEF r
<1>4. EpochMove(x, act, y, r[4])
  <2> HIDE DEF x, y
  <2>1. CASE r \in {<<"RUNNING", "ALL_REQUIRED_NODES_ACCEPTED", "FINALIZING", {"publish"}>>,
                     <<"FINALIZING", "FINAL_DELIVERABLE_PUBLISHED", "COMPLETED", {"complete_workflow"}>>,
                     <<"PAUSE_REQUESTED", "NODES_PAUSED", "PAUSED", {}>>,
                     <<"CANCEL_REQUESTED", "NODES_CANCELLED", "CANCELLED", {}>>}
    <3>1. /\ act \notin ControlActs \cup {"REQUEST_EXECUTION_RESTART"}
          /\ r[3] \notin {"*resume", "*triage", "*cancelled"}
          /\ r = <<r[1], r[2], r[3], r[4]>>
      BY <1>1, <2>1 DEF ControlActs
    <3>2. Dst = r[3] /\ Res = x.resume /\ Tri = x.triage
      BY <3>1 DEF ControlActs
    <3> QED BY <1>1, <1>3, <2>1, <3>1, <3>2 DEF EpochMove
  <2>2. CASE r \in {<<"PAUSED", "RESUME", "*resume", {"reconcile_epoch"}>>,
                     <<"TRIAGE_REQUIRED", "ENTER_TRIAGE", "TRIAGE_REQUIRED", {}>>,
                     <<"TRIAGE_REQUIRED", "RESOLVE_TRIAGE", "*triage", {"reconcile_epoch"}>>}
    <3>1. CASE act = "RESUME"
      <4>1. x.state = "PAUSED" /\ r[3] = "*resume" /\ r[4] = {"reconcile_epoch"}
        BY <1>1, <2>2, <3>1
      <4>2. Dst = Reentry(x.resume) /\ Res = "none" /\ Tri = x.triage
        BY <3>1, <4>1
      <4> QED BY <1>3, <3>1, <4>1, <4>2 DEF EpochMove
    <3>2. CASE act = "ENTER_TRIAGE"
      <4>1. x.state = "TRIAGE_REQUIRED" /\ r[3] = "TRIAGE_REQUIRED" /\ r[4] = {}
        BY <1>1, <2>2, <3>2
      <4>2. Dst = "TRIAGE_REQUIRED" /\ Res = x.resume /\ Tri = x.triage
        BY <3>2, <4>1
      <4> QED BY <1>3, <3>2, <4>1, <4>2 DEF EpochMove
    <3>3. CASE act = "RESOLVE_TRIAGE"
      <4>1. x.state = "TRIAGE_REQUIRED" /\ r[3] = "*triage" /\ r[4] = {"reconcile_epoch"}
        BY <1>1, <2>2, <3>3
      <4>2. Dst = Reentry(x.triage) /\ Res = x.resume /\ Tri = "none"
        BY <3>3, <4>1
      <4> QED BY <1>3, <3>3, <4>1, <4>2 DEF EpochMove
    <3> QED BY <1>1, <2>2, <3>1, <3>2, <3>3
  <2>3. CASE \E st \in {"RUNNING", "FINALIZING"} :
                  r = <<st, "REQUEST_PAUSE", "PAUSE_REQUESTED", {"pause_nodes"}>>
    <3>1. /\ act = "REQUEST_PAUSE" /\ x.state \in {"RUNNING", "FINALIZING"}
          /\ r[3] = "PAUSE_REQUESTED" /\ r[4] = {"pause_nodes"}
      BY <1>1, <2>3
    <3>2. Dst = "PAUSE_REQUESTED" /\ Res = x.state /\ Tri = x.triage
      BY <3>1
    <3> QED BY <1>3, <3>1, <3>2 DEF EpochMove
  <2>4. CASE \E st \in {"RUNNING", "FINALIZING", "PAUSE_REQUESTED", "PAUSED", "TRIAGE_REQUIRED"} :
                  r = <<st, "REQUEST_CANCEL", "CANCEL_REQUESTED", {"cancel_nodes"}>>
    <3>1. /\ act = "REQUEST_CANCEL" /\ r[3] = "CANCEL_REQUESTED" /\ r[4] = {"cancel_nodes"}
          /\ x.state \in {"RUNNING", "FINALIZING", "PAUSE_REQUESTED", "PAUSED", "TRIAGE_REQUIRED"}
      BY <1>1, <2>4
    <3>2. Dst = "CANCEL_REQUESTED" /\ Res = "none" /\ Tri = "none"
      BY <3>1
    <3> QED BY <1>3, <3>1, <3>2 DEF EpochMove
  <2>5. CASE \/ \E st \in {"RUNNING", "FINALIZING"} :
                  r = <<st, "ENTER_TRIAGE", "TRIAGE_REQUIRED", {"freeze_nodes"}>>
             \/ \E st \in {"PAUSE_REQUESTED", "CANCEL_REQUESTED"} :
                  r = <<st, "ENTER_TRIAGE", "TRIAGE_REQUIRED", {}>>
    <3>1. /\ act = "ENTER_TRIAGE" /\ r[3] = "TRIAGE_REQUIRED" /\ r[4] \subseteq {"freeze_nodes"}
          /\ x.state \in {"RUNNING", "FINALIZING", "PAUSE_REQUESTED", "CANCEL_REQUESTED"}
      BY <1>1, <2>5
    <3>2. Dst = "TRIAGE_REQUIRED" /\ Res = x.resume /\ Tri = x.state
      BY <3>1
    <3> QED BY <1>3, <3>1, <3>2 DEF EpochMove
  <2> QED BY <1>1, <2>1, <2>2, <2>3, <2>4, <2>5, EpochRowCases
<1> QED BY <1>4 DEF r

\* What a legal action makes of the workflow x.
WorkflowMove(d, x, act, y, out) ==
    \/ /\ <<x.state, act, y.state>> \in
              {<<"ACTIVE", "MARK_COMPLETED", "COMPLETED">>,
               <<"PAUSE_REQUESTED", "CHILDREN_PAUSED", "PAUSED">>,
               <<"RESTARTING", "REPLACEMENT_WORKFLOW_STARTED", "CANCELLED">>,
               <<"RESTARTING", "REPLACEMENT_WORKFLOW_ABORTED", "CANCELLED">>}
       /\ out = {}
    \/ /\ act = "REQUEST_PAUSE" /\ x.state = "ACTIVE" /\ y.state = "PAUSE_REQUESTED"
       /\ out = {"propagate_pause"}
    \/ /\ act = "RESUME" /\ x.state = "PAUSED" /\ y.state = "ACTIVE" /\ out = {"propagate_resume"}
    \/ /\ act = "CHILDREN_CANCELLED" /\ x.state = "CANCEL_REQUESTED" /\ y.state = CancelTarget(d)
       /\ out \subseteq {"start_replacement"}
       /\ y.state # "RESTARTING" => out = {}
    \/ /\ act = "REQUEST_CANCEL" /\ x.state \in {"CANCEL_REQUESTED", "RESTARTING"}
       /\ y.state = x.state /\ out = {}
    \/ /\ act \in {"REQUEST_CANCEL", "REQUEST_EXECUTION_RESTART"}
       /\ x.state \in {"ACTIVE", "PAUSE_REQUESTED", "PAUSED", "TRIAGE_REQUIRED"}
       /\ y.state = "CANCEL_REQUESTED" /\ out = {"propagate_cancel"}
    \/ /\ act = "ENTER_TRIAGE" /\ y.state = "TRIAGE_REQUIRED"
       /\ x.state \in {"ACTIVE", "PAUSE_REQUESTED", "CANCEL_REQUESTED", "RESTARTING", "TRIAGE_REQUIRED"}
       /\ y.triage = IF x.state = "TRIAGE_REQUIRED" THEN x.triage ELSE x.state
       /\ out \subseteq {"freeze_children"}
    \/ /\ act = "RESOLVE_TRIAGE" /\ x.state = "TRIAGE_REQUIRED" /\ y.state = Reentry(x.triage)
       /\ out = IF y.state = "RESTARTING" THEN {"start_replacement"} ELSE {"reconcile_workflow"}

LEMMA WorkflowRowCases ==
    ASSUME NEW r \in WorkflowRows
    PROVE  \/ r \in {<<"ACTIVE", "MARK_COMPLETED", "COMPLETED", {}>>,
                     <<"ACTIVE", "REQUEST_PAUSE", "PAUSE_REQUESTED", {"propagate_pause"}>>,
                     <<"PAUSE_REQUESTED", "CHILDREN_PAUSED", "PAUSED", {}>>,
                     <<"PAUSED", "RESUME", "ACTIVE", {"propagate_resume"}>>,
                     <<"CANCEL_REQUESTED", "REQUEST_CANCEL", "CANCEL_REQUESTED", {}>>,
                     <<"RESTARTING", "REQUEST_CANCEL", "RESTARTING", {}>>,
                     <<"RESTARTING", "REPLACEMENT_WORKFLOW_STARTED", "CANCELLED", {}>>,
                     <<"RESTARTING", "REPLACEMENT_WORKFLOW_ABORTED", "CANCELLED", {}>>}
           \/ r = <<"CANCEL_REQUESTED", "CHILDREN_CANCELLED", "*cancelled", {}>>
           \/ r = <<"TRIAGE_REQUIRED", "RESOLVE_TRIAGE", "*triage", {}>>
           \/ r \in {<<"ACTIVE", "ENTER_TRIAGE", "TRIAGE_REQUIRED", {"freeze_children"}>>,
                     <<"TRIAGE_REQUIRED", "ENTER_TRIAGE", "TRIAGE_REQUIRED", {}>>}
           \/ \E st \in {"PAUSE_REQUESTED", "CANCEL_REQUESTED", "RESTARTING"} :
                  r = <<st, "ENTER_TRIAGE", "TRIAGE_REQUIRED", {}>>
           \/ \E st \in {"ACTIVE", "PAUSE_REQUESTED", "PAUSED", "TRIAGE_REQUIRED"},
                 act \in {"REQUEST_CANCEL", "REQUEST_EXECUTION_RESTART"} :
                  r = <<st, act, "CANCEL_REQUESTED", {"propagate_cancel"}>>
BY DEF WorkflowRows

LEMMA WorkflowMoves ==
    ASSUME NEW d, NEW act, Legal(d, "wf", act)
    PROVE  WorkflowMove(d, d.agg["wf"], act, Moved(d, "wf", act),
                        WorkflowStep[<<d.agg["wf"].state, act>>][4]
                            \cup ArrivalEffects("wf", act, Moved(d, "wf", act).state))
<1> DEFINE x == d.agg["wf"]
           y == Moved(d, "wf", act)
           r == WorkflowStep[<<x.state, act>>]
           arr == ArrivalEffects("wf", act, y.state)
           Dst == CASE r[3] = "*resume" -> Reentry(x.resume)
                    [] r[3] = "*triage" -> Reentry(x.triage)
                    [] r[3] = "*cancelled" -> CancelTarget(d)
                    [] OTHER -> r[3]
           Res == CASE act = "REQUEST_PAUSE" -> x.state
                    [] act \in {"RESUME", "REQUEST_CANCEL", "REQUEST_EXECUTION_RESTART"} -> "none"
                    [] OTHER -> x.resume
           Tri == CASE act \in {"ENTER_TRIAGE", "ROLE_FAILED"} /\ x.state # "TRIAGE_REQUIRED" -> x.state
                    [] act \in {"RESOLVE_TRIAGE", "REQUEST_CANCEL", "REQUEST_EXECUTION_RESTART"} -> "none"
                    [] OTHER -> x.triage
<1>1. r \in WorkflowRows /\ r[1] = x.state /\ r[2] = act
  BY Names, IndexedRow DEF Legal, WorkflowStep
<1>2. y = [state |-> Dst, resume |-> Res, triage |-> Tri]
  BY Names DEF Moved
<1>3. y.state = Dst /\ y.triage = Tri
  BY <1>2
<1>4. /\ act \notin {"CHILDREN_CANCELLED", "RESOLVE_TRIAGE"} => arr = {}
      /\ act \in {"CHILDREN_CANCELLED", "RESOLVE_TRIAGE"} /\ y.state = "RESTARTING" => arr = {"start_replacement"}
      /\ act = "CHILDREN_CANCELLED" /\ y.state # "RESTARTING" => arr = {}
      /\ act = "RESOLVE_TRIAGE" /\ y.state # "RESTARTING" => arr = {"reconcile_workflow"}
  BY DEF ArrivalEffects
<1> HIDE DEF r, arr
<1>5. WorkflowMove(d, x, act, y, r[4] \cup arr)
  <2> HIDE DEF x, y
  <2>1. CASE r \in {<<"ACTIVE", "MARK_COMPLETED", "COMPLETED", {}>>,
                     <<"ACTIVE", "REQUEST_PAUSE", "PAUSE_REQUESTED", {"propagate_pause"}>>,
                     <<"PAUSE_REQUESTED", "CHILDREN_PAUSED", "PAUSED", {}>>,
                     <<"PAUSED", "RESUME", "ACTIVE", {"propagate_resume"}>>,
                     <<"CANCEL_REQUESTED", "REQUEST_CANCEL", "CANCEL_REQUESTED", {}>>,
                     <<"RESTARTING", "REQUEST_CANCEL", "RESTARTING", {}>>,
                     <<"RESTARTING", "REPLACEMENT_WORKFLOW_STARTED", "CANCELLED", {}>>,
                     <<"RESTARTING", "REPLACEMENT_WORKFLOW_ABORTED", "CANCELLED", {}>>}
    <3>1. /\ act \notin {"CHILDREN_CANCELLED", "RESOLVE_TRIAGE"}
          /\ r[3] \notin {"*resume", "*triage", "*cancelled"}
      BY <1>1, <2>1
    <3>2. y.state = r[3] /\ r[4] \cup arr = r[4]
      BY <1>3, <1>4, <3>1
    <3> QED BY <1>1, <2>1, <3>2 DEF WorkflowMove
  <2>2. CASE r = <<"CANCEL_REQUESTED", "CHILDREN_CANCELLED", "*cancelled", {}>>
    <3>1. x.state = "CANCEL_REQUESTED" /\ act = "CHILDREN_CANCELLED" /\ r[3] = "*cancelled" /\ r[4] = {}
      BY <1>1, <2>2
    <3>2. y.state = CancelTarget(d) /\ r[4] \cup arr = arr
      BY <1>3, <3>1
    <3> QED BY <1>4, <3>1, <3>2 DEF WorkflowMove
  <2>3. CASE r = <<"TRIAGE_REQUIRED", "RESOLVE_TRIAGE", "*triage", {}>>
    <3>1. x.state = "TRIAGE_REQUIRED" /\ act = "RESOLVE_TRIAGE" /\ r[3] = "*triage" /\ r[4] = {}
      BY <1>1, <2>3
    <3>2. y.state = Reentry(x.triage) /\ r[4] \cup arr = arr
      BY <1>3, <3>1
    <3> QED BY <1>4, <3>1, <3>2 DEF WorkflowMove
  <2>4. CASE \/ r \in {<<"ACTIVE", "ENTER_TRIAGE", "TRIAGE_REQUIRED", {"freeze_children"}>>,
                       <<"TRIAGE_REQUIRED", "ENTER_TRIAGE", "TRIAGE_REQUIRED", {}>>}
             \/ \E st \in {"PAUSE_REQUESTED", "CANCEL_REQUESTED", "RESTARTING"} :
                  r = <<st, "ENTER_TRIAGE", "TRIAGE_REQUIRED", {}>>
    <3>1. /\ act = "ENTER_TRIAGE" /\ r[3] = "TRIAGE_REQUIRED" /\ r[4] \subseteq {"freeze_children"}
          /\ x.state \in {"ACTIVE", "PAUSE_REQUESTED", "CANCEL_REQUESTED", "RESTARTING", "TRIAGE_REQUIRED"}
      BY <1>1, <2>4
    <3>2. /\ y.state = "TRIAGE_REQUIRED" /\ r[4] \cup arr = r[4]
          /\ y.triage = IF x.state = "TRIAGE_REQUIRED" THEN x.triage ELSE x.state
      BY <1>3, <1>4, <3>1
    <3> QED BY <3>1, <3>2 DEF WorkflowMove
  <2>5. CASE \E st \in {"ACTIVE", "PAUSE_REQUESTED", "PAUSED", "TRIAGE_REQUIRED"},
                q \in {"REQUEST_CANCEL", "REQUEST_EXECUTION_RESTART"} :
                  r = <<st, q, "CANCEL_REQUESTED", {"propagate_cancel"}>>
    <3>1. /\ act \in {"REQUEST_CANCEL", "REQUEST_EXECUTION_RESTART"}
          /\ r[3] = "CANCEL_REQUESTED" /\ r[4] = {"propagate_cancel"}
          /\ x.state \in {"ACTIVE", "PAUSE_REQUESTED", "PAUSED", "TRIAGE_REQUIRED"}
      BY <1>1, <2>5
    <3>2. y.state = "CANCEL_REQUESTED" /\ r[4] \cup arr = {"propagate_cancel"}
      BY <1>3, <1>4, <3>1
    <3> QED BY <3>1, <3>2 DEF WorkflowMove
  <2> QED BY <1>1, <2>1, <2>2, <2>3, <2>4, <2>5, WorkflowRowCases
<1> QED BY <1>5 DEF r, arr

-----------------------------------------------------------------------------
(* Dispatch                                                                  *)

\* What one action may leave of aggregate a in the outbox.
Emitted(d, a, act) ==
    Step(a)[<<d.agg[a].state, act>>][4] \cup ArrivalEffects(a, act, Moved(d, a, act).state)

\* D is d after act was dispatched to S, cycles and graph aside.
Dispatched(d, D, S, act) ==
    /\ D.restart = d.restart /\ D.replacement = d.replacement
    /\ \A a \in Aggregates : D.agg[a] = IF a \in S THEN Moved(d, a, act) ELSE d.agg[a]
    /\ \A e \in D.fx :
           \/ e \in d.fx /\ (e.of \notin S \/ e.type \notin Semantic)
           \/ e = Overtaken
           \/ e.of \in S /\ e.type \in Emitted(d, e.of, act)

LEMMA DispatchShape ==
    ASSUME NEW d, IsDatabase(d), NEW S \in SUBSET Aggregates, NEW act
    PROVE  /\ IsDatabase(DispatchAll(d, S, act))
           /\ Dispatched(d, DispatchAll(d, S, act), S, act)
           /\ DispatchAll(d, S, act).cyc = d.cyc /\ DispatchAll(d, S, act).graph = d.graph
           /\ DispatchAll(d, S, act).rejections = d.rejections
<1> DEFINE D == DispatchAll(d, S, act)
           left == {e \in d.fx : e.of \in S /\ e.type \in Semantic}
           out == UNION {{[type |-> t, of |-> a, tried |-> FALSE] : t \in Emitted(d, a, act)} : a \in S}
           agg2 == [a \in DOMAIN d.agg |-> IF a \in S THEN Moved(d, a, act) ELSE d.agg[a]]
           fx2 == (d.fx \ left) \cup out \cup (IF left = {} THEN {} ELSE {Overtaken})
<1>1. D = [d EXCEPT !.agg = agg2, !.fx = fx2]
  BY DEF DispatchAll, Emitted
<1>2. DOMAIN d.agg = Aggregates
  BY DEF IsDatabase
<1>3. \A a \in Aggregates : agg2[a] = IF a \in S THEN Moved(d, a, act) ELSE d.agg[a]
  BY <1>2
<1>4. agg2 = [a \in Aggregates |-> agg2[a]]
  BY <1>2
<1>5. "wf" \in Aggregates /\ IsEffect(Overtaken)
  BY DEF Aggregates, Overtaken, IsEffect
<1>6. \A e \in out : IsEffect(e) /\ e.of \in S /\ e.type \in Emitted(d, e.of, act)
  <2> SUFFICES ASSUME NEW a \in S, NEW t \in Emitted(d, a, act)
               PROVE  LET e == [type |-> t, of |-> a, tried |-> FALSE]
                      IN  IsEffect(e) /\ e.of \in S /\ e.type \in Emitted(d, e.of, act)
    BY Zenon
  <2> DEFINE e == [type |-> t, of |-> a, tried |-> FALSE]
  <2>1. e.type = t /\ e.of = a /\ e.tried = FALSE
    OBVIOUS
  <2>2. e = [type |-> e.type, of |-> e.of, tried |-> e.tried]
    BY <2>1
  <2> QED BY <2>1, <2>2 DEF IsEffect
<1> HIDE DEF out, agg2
<1>7. \A e \in fx2 : /\ IsEffect(e)
                     /\ \/ e \in d.fx /\ (e.of \notin S \/ e.type \notin Semantic)
                        \/ e = Overtaken
                        \/ e.of \in S /\ e.type \in Emitted(d, e.of, act)
  BY <1>5, <1>6 DEF IsDatabase
<1> HIDE DEF fx2
<1>8. /\ D.agg = agg2 /\ D.fx = fx2 /\ D.cyc = d.cyc /\ D.graph = d.graph /\ D.restart = d.restart
      /\ D.replacement = d.replacement /\ D.rejections = d.rejections
      /\ D = [agg |-> D.agg, cyc |-> D.cyc, graph |-> D.graph, fx |-> D.fx, restart |-> D.restart,
              replacement |-> D.replacement, rejections |-> D.rejections]
  <2>1. d = [agg |-> d.agg, cyc |-> d.cyc, graph |-> d.graph, fx |-> d.fx, restart |-> d.restart,
             replacement |-> d.replacement, rejections |-> d.rejections]
    BY DEF IsDatabase
  <2>2. D = [agg |-> agg2, cyc |-> d.cyc, graph |-> d.graph, fx |-> fx2, restart |-> d.restart,
             replacement |-> d.replacement, rejections |-> d.rejections]
    BY <1>1, <2>1
  <2> HIDE DEF D
  <2> QED BY <2>2
<1> HIDE DEF D
<1>9. IsDatabase(D)
  BY <1>4, <1>7, <1>8 DEF IsDatabase
<1>10. Dispatched(d, D, S, act)
  BY <1>3, <1>7, <1>8 DEF Dispatched
<1> QED BY <1>8, <1>9, <1>10 DEF D

-----------------------------------------------------------------------------
(* One node and its cycle                                                    *)

LEMMA NodeMoveShape ==
    ASSUME NEW x, NEW act, NEW y, NEW out, NodeShape(x), NodeMove(x, act, y, out)
    PROVE  NodeShape(y)
<1>1. CASE act \notin ControlActs /\ <<x.state, act, y.state, out>> \in PlainRows
           /\ y.resume = x.resume /\ y.triage = x.triage
  BY <1>1 DEF PlainRows, NodeShape, NodeStates, PausableNode, RunningNode, CandidateNode
<1>2. CASE act = "REQUEST_PAUSE" /\ x.state \in PausableNode
           /\ y.state = "PAUSE_REQUESTED" /\ y.resume = x.state /\ y.triage = x.triage
  BY <1>2 DEF NodeShape, NodeStates, PausableNode, RunningNode, CandidateNode
<1>3. CASE y.state = "CANCEL_REQUESTED" /\ y.resume = "none" /\ y.triage = "none"
  BY <1>3 DEF NodeShape, NodeStates
<1>4. CASE /\ x.state \notin {"ACCEPTED", "CANCELLED", "PAUSED"}
           /\ y.state = "TRIAGE_REQUIRED" /\ y.resume = x.resume
           /\ y.triage = IF x.state = "TRIAGE_REQUIRED" THEN x.triage ELSE x.state
  BY <1>4 DEF NodeShape, NodeStates, PausableNode, RunningNode, CandidateNode
<1>5. CASE x.state = "PAUSED" /\ y.state = Reentry(x.resume) /\ y.resume = "none" /\ y.triage = x.triage
  BY <1>5 DEF NodeShape, NodeStates, PausableNode, RunningNode, CandidateNode, Reentry
<1>6. CASE x.state = "TRIAGE_REQUIRED"
           /\ y.state = Reentry(x.triage) /\ y.resume = x.resume /\ y.triage = "none"
  BY <1>6 DEF NodeShape, NodeStates, PausableNode, RunningNode, CandidateNode, Reentry
<1> QED BY <1>1, <1>2, <1>3, <1>4, <1>5, <1>6 DEF NodeMove

\* Actions that are dispatched together with a change of the cycle.
JointActs ==
    {"START_PRODUCING", "START_REVIEW", "START_REPAIR", "CANDIDATE_SNAPSHOTTED", "REVIEW_PASSED",
     "CANCEL_CONFIRMED", "ENTER_TRIAGE", "ROLE_FAILED"}

LEMMA NodeMoveKeeps ==
    ASSUME NEW x, NEW act, NEW y, NEW out, NEW c, NEW g, NEW r \in BOOLEAN, NEW q \in BOOLEAN, q => r,
           NodePart(x, c, g, r), NodeMove(x, act, y, out), act \notin JointActs,
           act = "REQUEST_CANCEL" => g = "CANCELLED", act = "RESOLVE_TRIAGE" => ~q
    PROVE  NodePart(y, c, g, q)
<1>1. NodeShape(x) /\ CycleShape(c) /\ SlotPart(x, c) /\ CancelPart(x, c, g) /\ (q => CandidatePart(x, c))
  BY DEF NodePart
<1>2. NodeShape(y)
  BY <1>1, NodeMoveShape
<1>3. CASE /\ act \notin ControlActs /\ <<x.state, act, y.state, out>> \in PlainRows
           /\ y.resume = x.resume /\ y.triage = x.triage
  <2>1. /\ y.state \notin RunningNode \cup {"CANCELLED", "TRIAGE_REQUIRED", "ACCEPTED", "CANCEL_REQUESTED"}
        /\ x.state # "ACCEPTED"
    BY <1>3 DEF PlainRows, JointActs, RunningNode
  <2>2. Phase(y) \in ReviewNode => Phase(x) \in ReviewNode
    BY <1>3 DEF PlainRows, JointActs, Phase, ReviewNode
  <2>3. SlotPart(y, c)
    BY <1>1, <2>1 DEF SlotPart
  <2>4. CancelPart(y, c, g)
    BY <1>1, <1>3, <2>1 DEF CancelPart
  <2>5. q => CandidatePart(y, c)
    BY <1>1, <2>2 DEF CandidatePart
  <2> QED BY <1>1, <1>2, <2>3, <2>4, <2>5 DEF NodePart
<1>4. CASE act = "REQUEST_PAUSE" /\ x.state \in PausableNode
           /\ y.state = "PAUSE_REQUESTED" /\ y.resume = x.state /\ y.triage = x.triage
  <2>1. x.state \notin {"ACCEPTED", "PAUSED", "PAUSE_REQUESTED"}
    BY <1>4 DEF PausableNode, RunningNode
  <2>2. SlotPart(y, c)
    BY <1>1, <1>4, <2>1 DEF SlotPart, RunningNode
  <2>3. CancelPart(y, c, g)
    BY <1>1, <1>4 DEF CancelPart
  <2>4. q => CandidatePart(y, c)
    BY <1>1, <1>4, <2>1 DEF CandidatePart, Phase
  <2> QED BY <1>1, <1>2, <2>2, <2>3, <2>4 DEF NodePart
<1>5. CASE /\ act = "REQUEST_CANCEL" /\ x.state \notin {"ACCEPTED", "CANCELLED", "CANCEL_REQUESTED"}
           /\ y.state = "CANCEL_REQUESTED" /\ y.resume = "none" /\ y.triage = "none"
  <2>1. SlotPart(y, c)
    BY <1>1, <1>5 DEF SlotPart, RunningNode
  <2>2. CancelPart(y, c, g)
    BY <1>1, <1>5 DEF CancelPart
  <2>3. q => CandidatePart(y, c)
    BY <1>5 DEF CandidatePart, Phase, ReviewNode
  <2> QED BY <1>1, <1>2, <2>1, <2>2, <2>3 DEF NodePart
<1>6. CASE /\ act = "RESUME" /\ x.state = "PAUSED"
           /\ y.state = Reentry(x.resume) /\ y.resume = "none" /\ y.triage = x.triage
  <2>1. /\ x.resume \in PausableNode
        /\ y.state \in PausableNode \ RunningNode
        /\ y.state \in ReviewNode => x.resume \in ReviewNode
    BY <1>1, <1>6 DEF NodeShape, Reentry, PausableNode, RunningNode, ReviewNode
  <2>2. y.state \notin {"CANCELLED", "TRIAGE_REQUIRED", "ACCEPTED", "PAUSED", "PAUSE_REQUESTED", "CANCEL_REQUESTED"}
    BY <2>1 DEF PausableNode
  <2>3. SlotPart(y, c)
    BY <1>1, <1>6, <2>1, <2>2 DEF SlotPart
  <2>4. CancelPart(y, c, g)
    BY <1>1, <1>6, <2>2 DEF CancelPart
  <2>5. q => CandidatePart(y, c)
    BY <1>1, <1>6, <2>1, <2>2 DEF CandidatePart, Phase
  <2> QED BY <1>1, <1>2, <2>3, <2>4, <2>5 DEF NodePart
<1>7. CASE act = "RESOLVE_TRIAGE" /\ x.state = "TRIAGE_REQUIRED"
           /\ y.state = Reentry(x.triage) /\ y.resume = x.resume /\ y.triage = "none"
  <2>1. /\ y.state \notin RunningNode \cup {"CANCELLED", "TRIAGE_REQUIRED", "ACCEPTED"}
        /\ y.state = "CANCEL_REQUESTED" => x.triage = "CANCEL_REQUESTED"
    BY <1>1, <1>7 DEF NodeShape, Reentry, PausableNode, RunningNode, CandidateNode
  <2>2. SlotPart(y, c)
    BY <1>1, <1>7, <2>1 DEF SlotPart
  <2>3. CancelPart(y, c, g)
    BY <1>1, <1>7, <2>1 DEF CancelPart
  <2> QED BY <1>1, <1>2, <1>7, <2>2, <2>3 DEF NodePart
<1> QED BY <1>3, <1>4, <1>5, <1>6, <1>7 DEF NodeMove, JointActs

LEMMA CycleEdits ==
    ASSUME NEW c, IsCycle(c), NEW t, NEW v
    PROVE  /\ [c EXCEPT !.state = t, !.resume = v] = [state |-> t, resume |-> v, busy |-> c.busy]
           /\ [c EXCEPT !.state = t, !.busy = v] = [state |-> t, resume |-> c.resume, busy |-> v]
<1> DEFINE s == c.state
           u == c.resume
           b == c.busy
           m1 == [c EXCEPT !.state = t, !.resume = v]
           m2 == [c EXCEPT !.state = t, !.busy = v]
<1>1. c = [state |-> s, resume |-> u, busy |-> b]
  BY DEF IsCycle
<1>2. m1 = [c EXCEPT !.state = t, !.resume = v] /\ m2 = [c EXCEPT !.state = t, !.busy = v]
  OBVIOUS
<1> HIDE DEF s, u, b, m1, m2
<1>3. m1 = [state |-> t, resume |-> v, busy |-> b]
  BY <1>1, <1>2
<1>4. m2 = [state |-> t, resume |-> u, busy |-> v]
  BY <1>1, <1>2
<1> QED BY <1>3, <1>4 DEF u, b, m1, m2

\* A controlled cycle, request by request.
LEMMA PausedCycle ==
    ASSUME NEW c, IsCycle(c)
    PROVE  LET e == ControlledCycle(c, "REQUEST_PAUSE") IN
           /\ IsCycle(e)
           /\ \/ /\ c.state \in {"ACCEPTED", "CANCELLED", "PAUSE_REQUESTED", "PAUSED", "TRIAGE_REQUIRED"}
                 /\ e = c
              \/ /\ c.state \notin {"ACCEPTED", "CANCELLED", "PAUSE_REQUESTED", "PAUSED", "TRIAGE_REQUIRED"}
                 /\ e.resume = ReadyState(c.state)
                 /\ \/ e.state = "PAUSE_REQUESTED" /\ e.busy = c.busy
                    \/ e.state = "PAUSED" /\ e.busy = FALSE /\ ~c.busy
<1> DEFINE e == ControlledCycle(c, "REQUEST_PAUSE")
           asked == [c EXCEPT !.state = "PAUSE_REQUESTED", !.resume = ReadyState(c.state)]
           quiet == [asked EXCEPT !.state = "PAUSED", !.busy = FALSE]
<1>1. CycleControl(c, "REQUEST_PAUSE") = asked /\ CycleControl(asked, "PAUSED") = quiet
  BY DEF CycleControl
<1>2. c = [state |-> c.state, resume |-> c.resume, busy |-> c.busy] /\ c.busy \in BOOLEAN
  BY DEF IsCycle
<1>3. asked = [state |-> "PAUSE_REQUESTED", resume |-> ReadyState(c.state), busy |-> c.busy]
  <2> DEFINE s == c.state
             u == c.resume
             b == c.busy
             t == ReadyState(c.state)
             k == "PAUSE_REQUESTED"
  <2>1. c = [state |-> s, resume |-> u, busy |-> b] /\ asked = [c EXCEPT !.state = k, !.resume = t]
    BY <1>2
  <2> HIDE DEF s, u, b, t, k, asked
  <2>2. asked = [state |-> k, resume |-> t, busy |-> b]
    BY <2>1
  <2> QED BY <2>2 DEF t, b, k
<1>4. quiet = [state |-> "PAUSED", resume |-> ReadyState(c.state), busy |-> FALSE]
  <2>1. IsCycle(asked) /\ asked.resume = ReadyState(c.state)
    <3> HIDE DEF asked
    <3>1. asked.resume = ReadyState(c.state) /\ asked.busy = c.busy /\ asked.state = "PAUSE_REQUESTED"
      BY <1>3
    <3> QED BY <1>2, <1>3, <3>1 DEF IsCycle
  <2> HIDE DEF asked
  <2> QED BY <2>1, CycleEdits
<1>5. CASE c.state \in {"ACCEPTED", "CANCELLED", "PAUSE_REQUESTED", "PAUSED", "TRIAGE_REQUIRED"}
  <2>1. e = c
    BY <1>5 DEF ControlledCycle
  <2> QED BY <1>5, <2>1
<1>6. CASE c.state \notin {"ACCEPTED", "CANCELLED", "PAUSE_REQUESTED", "PAUSED", "TRIAGE_REQUIRED"}
  <2>1. CASE c.state \in CycleRunning \/ c.busy
    <3>1. e = asked
      BY <1>1, <1>6, <2>1 DEF ControlledCycle
    <3> HIDE DEF e, asked
    <3>2. e.state = "PAUSE_REQUESTED" /\ e.resume = ReadyState(c.state) /\ e.busy = c.busy
      BY <1>3, <3>1
    <3>3. IsCycle(e)
      BY <1>2, <1>3, <3>1, <3>2 DEF IsCycle
    <3> QED BY <1>6, <3>2, <3>3 DEF e
  <2>2. CASE ~(c.state \in CycleRunning \/ c.busy)
    <3>1. e = quiet
      BY <1>1, <1>6, <2>2 DEF ControlledCycle
    <3> HIDE DEF e, quiet
    <3>2. e.state = "PAUSED" /\ e.resume = ReadyState(c.state) /\ e.busy = FALSE
      BY <1>4, <3>1
    <3>3. IsCycle(e)
      BY <1>4, <3>1, <3>2 DEF IsCycle
    <3> QED BY <1>6, <2>2, <3>2, <3>3 DEF e
  <2> QED BY <2>1, <2>2
<1> QED BY <1>5, <1>6

LEMMA CancelledCycle ==
    ASSUME NEW c, IsCycle(c)
    PROVE  LET e == ControlledCycle(c, "REQUEST_CANCEL") IN
           /\ IsCycle(e)
           /\ \/ c.state \in {"ACCEPTED", "CANCELLED"} /\ e = c
              \/ /\ c.state \notin {"ACCEPTED", "CANCELLED"}
                 /\ \/ e.state = "CANCEL_REQUESTED" /\ e.busy = c.busy /\ e.resume = c.resume
                    \/ e.state = "CANCELLED" /\ e.busy = FALSE /\ ~c.busy /\ e.resume = "none"
<1> DEFINE e == ControlledCycle(c, "REQUEST_CANCEL")
           asked == [c EXCEPT !.state = "CANCEL_REQUESTED"]
           quiet == [state |-> "CANCELLED", resume |-> "none", busy |-> FALSE]
<1>1. CycleControl(c, "REQUEST_CANCEL") = asked /\ CycleControl(asked, "CANCELLED") = quiet
  BY DEF CycleControl
<1>2. c = [state |-> c.state, resume |-> c.resume, busy |-> c.busy] /\ c.busy \in BOOLEAN
  BY DEF IsCycle
<1>3. asked = [state |-> "CANCEL_REQUESTED", resume |-> c.resume, busy |-> c.busy]
  BY <1>2
<1>5. CASE c.state \in {"ACCEPTED", "CANCELLED"}
  <2>1. e = c
    BY <1>5 DEF ControlledCycle
  <2> QED BY <1>5, <2>1
<1>6. CASE c.state \notin {"ACCEPTED", "CANCELLED"}
  <2>1. CASE c.state \in CycleRunning \/ c.busy
    <3>1. e = asked
      BY <1>1, <1>6, <2>1 DEF ControlledCycle
    <3> HIDE DEF e, asked
    <3>2. e.state = "CANCEL_REQUESTED" /\ e.resume = c.resume /\ e.busy = c.busy
      BY <1>3, <3>1
    <3>3. IsCycle(e)
      BY <1>2, <1>3, <3>1, <3>2 DEF IsCycle
    <3> QED BY <1>6, <3>2, <3>3 DEF e
  <2>2. CASE ~(c.state \in CycleRunning \/ c.busy)
    <3>1. e = quiet
      BY <1>1, <1>6, <2>2 DEF ControlledCycle
    <3> HIDE DEF e
    <3>2. e.state = "CANCELLED" /\ e.resume = "none" /\ e.busy = FALSE
      BY <3>1
    <3>3. IsCycle(e)
      BY <3>1, <3>2 DEF IsCycle
    <3> QED BY <1>6, <2>2, <3>2, <3>3 DEF e
  <2> QED BY <2>1, <2>2
<1> QED BY <1>5, <1>6

LEMMA ResumedCycle ==
    ASSUME NEW c, IsCycle(c)
    PROVE  LET e == ControlledCycle(c, "RESUME") IN
           /\ IsCycle(e)
           /\ \/ c.state # "PAUSED" /\ e = c
              \/ /\ c.state = "PAUSED" /\ e.busy = c.busy /\ e.resume = "none"
                 /\ e.state = IF c.resume = "none" THEN "PRODUCER_READY" ELSE c.resume
<1> DEFINE e == ControlledCycle(c, "RESUME")
           asked == [c EXCEPT !.state = IF c.resume = "none" THEN "PRODUCER_READY" ELSE c.resume,
                              !.resume = "none"]
<1>1. CycleControl(c, "RESUME") = asked
  BY DEF CycleControl
<1>2. c = [state |-> c.state, resume |-> c.resume, busy |-> c.busy] /\ c.busy \in BOOLEAN
  BY DEF IsCycle
<1>3. asked = [state |-> IF c.resume = "none" THEN "PRODUCER_READY" ELSE c.resume,
               resume |-> "none", busy |-> c.busy]
  <2> DEFINE s == c.state
             u == c.resume
             b == c.busy
             t == "none"
             k == IF c.resume = "none" THEN "PRODUCER_READY" ELSE c.resume
  <2>1. c = [state |-> s, resume |-> u, busy |-> b] /\ asked = [c EXCEPT !.state = k, !.resume = t]
    BY <1>2
  <2> HIDE DEF s, u, b, t, k, asked
  <2>2. asked = [state |-> k, resume |-> t, busy |-> b]
    BY <2>1
  <2> QED BY <2>2 DEF t, b, k
<1>5. CASE c.state # "PAUSED"
  <2>1. e = c
    BY <1>5 DEF ControlledCycle
  <2> QED BY <1>5, <2>1
<1>6. CASE c.state = "PAUSED"
  <2>1. e = asked
    BY <1>1, <1>6 DEF ControlledCycle
  <2> HIDE DEF e, asked
  <2>2. e.resume = "none" /\ e.busy = c.busy /\ e.state = IF c.resume = "none" THEN "PRODUCER_READY" ELSE c.resume
    BY <1>3, <2>1
  <2>3. IsCycle(e)
    BY <1>2, <1>3, <2>1, <2>2 DEF IsCycle
  <2> QED BY <1>6, <2>2, <2>3 DEF e
<1> QED BY <1>5, <1>6

LEMMA ConfirmedCycle ==
    ASSUME NEW c, IsCycle(c), NEW cancel \in BOOLEAN
    PROVE  LET e == ConfirmCycle(c, cancel)
               from == IF cancel THEN "CANCEL_REQUESTED" ELSE "PAUSE_REQUESTED"
               to == IF cancel THEN "CANCELLED" ELSE "PAUSED" IN
           /\ IsCycle(e)
           /\ \/ c.state # from /\ e = c
              \/ c.state = from /\ e.state = to /\ e.busy = FALSE /\ e.resume = IF cancel THEN "none" ELSE c.resume
<1> DEFINE e == ConfirmCycle(c, cancel)
<1>1. c = [state |-> c.state, resume |-> c.resume, busy |-> c.busy] /\ c.busy \in BOOLEAN
  BY DEF IsCycle
<1>2. CASE cancel /\ c.state = "CANCEL_REQUESTED"
  <2>1. e = [state |-> "CANCELLED", resume |-> "none", busy |-> FALSE]
    BY <1>2 DEF ConfirmCycle, CycleControl
  <2> HIDE DEF e
  <2>2. e.state = "CANCELLED" /\ e.resume = "none" /\ e.busy = FALSE
    BY <2>1
  <2>3. IsCycle(e)
    BY <2>1, <2>2 DEF IsCycle
  <2> QED BY <1>2, <2>2, <2>3 DEF e
<1>3. CASE ~cancel /\ c.state = "PAUSE_REQUESTED"
  <2>1. e = [c EXCEPT !.state = "PAUSED", !.busy = FALSE]
    BY <1>3 DEF ConfirmCycle, CycleControl
  <2>2. e = [state |-> "PAUSED", resume |-> c.resume, busy |-> FALSE]
    BY <1>1, <2>1
  <2> HIDE DEF e
  <2>3. e.state = "PAUSED" /\ e.resume = c.resume /\ e.busy = FALSE
    BY <2>2
  <2>4. IsCycle(e)
    BY <2>2, <2>3 DEF IsCycle
  <2> QED BY <1>3, <2>3, <2>4 DEF e
<1>4. CASE c.state # (IF cancel THEN "CANCEL_REQUESTED" ELSE "PAUSE_REQUESTED")
  BY <1>4 DEF ConfirmCycle
<1> QED BY <1>2, <1>3, <1>4

LEMMA PauseKeeps ==
    ASSUME NEW x, NEW c, NEW g, NEW r \in BOOLEAN, IsCycle(c), NodePart(x, c, g, r), g # "CANCELLED"
    PROVE  LET e == ControlledCycle(c, "REQUEST_PAUSE") IN
           /\ NodePart(x, e, g, r)
           /\ e.state = "ACCEPTED" <=> c.state = "ACCEPTED"
           /\ e.state \in {"ACCEPTED", "CANCELLED", "PAUSE_REQUESTED", "PAUSED", "TRIAGE_REQUIRED"}
<1> DEFINE e == ControlledCycle(c, "REQUEST_PAUSE")
<1>1. /\ \/ /\ c.state \in {"ACCEPTED", "CANCELLED", "PAUSE_REQUESTED", "PAUSED", "TRIAGE_REQUIRED"}
            /\ e = c
         \/ /\ c.state \notin {"ACCEPTED", "CANCELLED", "PAUSE_REQUESTED", "PAUSED", "TRIAGE_REQUIRED"}
            /\ e.resume = ReadyState(c.state)
            /\ \/ e.state = "PAUSE_REQUESTED" /\ e.busy = c.busy
               \/ e.state = "PAUSED" /\ e.busy = FALSE /\ ~c.busy
  BY PausedCycle
<1> HIDE DEF e
<1>2. CASE e = c
  BY <1>1, <1>2 DEF e
<1>3. CASE /\ c.state \notin {"ACCEPTED", "CANCELLED", "PAUSE_REQUESTED", "PAUSED", "TRIAGE_REQUIRED"}
           /\ e.resume = ReadyState(c.state)
           /\ \/ e.state = "PAUSE_REQUESTED" /\ e.busy = c.busy
              \/ e.state = "PAUSED" /\ e.busy = FALSE /\ ~c.busy
  <2>1. NodeShape(x) /\ CycleShape(c) /\ SlotPart(x, c) /\ CancelPart(x, c, g) /\ (r => CandidatePart(x, c))
    BY DEF NodePart
  <2>2. CycleShape(e)
    BY <1>3, <2>1 DEF CycleShape, CycleStates, ReadyState
  <2>3. SlotPart(x, e)
    BY <1>3, <2>1 DEF SlotPart
  <2>4. CancelPart(x, e, g)
    BY <2>1 DEF CancelPart
  <2>5. r => CandidatePart(x, e)
    BY <1>3, <2>1 DEF CandidatePart, BeforeCandidate, ReadyState, CycleShape, CycleStates
  <2> QED BY <1>3, <2>1, <2>2, <2>3, <2>4, <2>5 DEF NodePart, e
<1> QED BY <1>1, <1>2, <1>3

LEMMA CancelKeeps ==
    ASSUME NEW x, NEW c, NEW g, NEW r \in BOOLEAN, IsCycle(c), NodePart(x, c, g, r)
    PROVE  LET e == ControlledCycle(c, "REQUEST_CANCEL") IN
           /\ NodePart(x, e, "CANCELLED", r)
           /\ e.state = "ACCEPTED" <=> c.state = "ACCEPTED"
<1> DEFINE e == ControlledCycle(c, "REQUEST_CANCEL")
<1>1. \/ c.state \in {"ACCEPTED", "CANCELLED"} /\ e = c
      \/ /\ c.state \notin {"ACCEPTED", "CANCELLED"}
         /\ \/ e.state = "CANCEL_REQUESTED" /\ e.busy = c.busy /\ e.resume = c.resume
            \/ e.state = "CANCELLED" /\ e.busy = FALSE /\ ~c.busy /\ e.resume = "none"
  BY CancelledCycle
<1> HIDE DEF e
<1>2. NodeShape(x) /\ CycleShape(c) /\ SlotPart(x, c) /\ CancelPart(x, c, g) /\ (r => CandidatePart(x, c))
  BY DEF NodePart
<1>3. CycleShape(e)
  BY <1>1, <1>2 DEF CycleShape, CycleStates
<1>4. SlotPart(x, e)
  BY <1>1, <1>2 DEF SlotPart
<1>5. CancelPart(x, e, "CANCELLED")
  BY <1>1 DEF CancelPart
<1>6. r => CandidatePart(x, e)
  BY <1>1, <1>2 DEF CandidatePart, BeforeCandidate
<1> QED BY <1>1, <1>2, <1>3, <1>4, <1>5, <1>6 DEF NodePart, e

LEMMA ResumeKeeps ==
    ASSUME NEW x, NEW c, NEW g, NEW r \in BOOLEAN, IsCycle(c), NodePart(x, c, g, r), g # "CANCELLED"
    PROVE  LET e == ControlledCycle(c, "RESUME") IN
           /\ NodePart(x, e, g, r)
           /\ e.state = "ACCEPTED" <=> c.state = "ACCEPTED"
<1> DEFINE e == ControlledCycle(c, "RESUME")
<1>1. \/ c.state # "PAUSED" /\ e = c
      \/ /\ c.state = "PAUSED" /\ e.busy = c.busy /\ e.resume = "none"
         /\ e.state = IF c.resume = "none" THEN "PRODUCER_READY" ELSE c.resume
  BY ResumedCycle
<1> HIDE DEF e
<1>2. CASE e = c
  BY <1>2 DEF e
<1>3. CASE /\ c.state = "PAUSED" /\ e.busy = c.busy /\ e.resume = "none"
           /\ e.state = IF c.resume = "none" THEN "PRODUCER_READY" ELSE c.resume
  <2>1. NodeShape(x) /\ CycleShape(c) /\ SlotPart(x, c) /\ CancelPart(x, c, g) /\ (r => CandidatePart(x, c))
    BY DEF NodePart
  <2>2. ~c.busy /\ e.state # "ACCEPTED"
    BY <1>3, <2>1 DEF CycleShape
  <2>3. CycleShape(e)
    BY <1>3, <2>1, <2>2 DEF CycleShape, CycleStates
  <2>4. SlotPart(x, e)
    BY <1>3, <2>1, <2>2 DEF SlotPart
  <2>5. CancelPart(x, e, g)
    BY <2>1 DEF CancelPart
  <2>6. r => CandidatePart(x, e)
    BY <1>3, <2>1 DEF CandidatePart, BeforeCandidate
  <2> QED BY <1>3, <2>1, <2>2, <2>3, <2>4, <2>5, <2>6 DEF NodePart, e
<1> QED BY <1>1, <1>2, <1>3

LEMMA ConfirmKeeps ==
    ASSUME NEW x, NEW c, NEW g, NEW r \in BOOLEAN, IsCycle(c), NodePart(x, c, g, r), NEW cancel \in BOOLEAN,
           x.state = IF cancel THEN "CANCELLED" ELSE "PAUSED"
    PROVE  LET e == ConfirmCycle(c, cancel) IN
           /\ NodePart(x, e, g, r)
           /\ e.state = "ACCEPTED" <=> c.state = "ACCEPTED"
<1> DEFINE e == ConfirmCycle(c, cancel)
           from == IF cancel THEN "CANCEL_REQUESTED" ELSE "PAUSE_REQUESTED"
           to == IF cancel THEN "CANCELLED" ELSE "PAUSED"
<1>1. \/ c.state # from /\ e = c
      \/ c.state = from /\ e.state = to /\ e.busy = FALSE /\ e.resume = IF cancel THEN "none" ELSE c.resume
  BY ConfirmedCycle
<1> HIDE DEF e
<1>2. CASE e = c
  BY <1>2 DEF e
<1>3. CASE c.state = from /\ e.state = to /\ e.busy = FALSE /\ e.resume = IF cancel THEN "none" ELSE c.resume
  <2>1. NodeShape(x) /\ CycleShape(c) /\ SlotPart(x, c) /\ CancelPart(x, c, g) /\ (r => CandidatePart(x, c))
    BY DEF NodePart
  <2>2. CycleShape(e)
    BY <1>3, <2>1 DEF CycleShape, CycleStates
  <2>3. SlotPart(x, e)
    BY <1>3, <2>1 DEF SlotPart, RunningNode
  <2>4. CancelPart(x, e, g)
    BY <1>3, <2>1 DEF CancelPart
  <2>5. r => CandidatePart(x, e)
    BY <1>3, <2>1 DEF CandidatePart, BeforeCandidate, Phase, ReviewNode
  <2> QED BY <1>3, <2>1, <2>2, <2>3, <2>4, <2>5 DEF NodePart, e
<1> QED BY <1>1, <1>2, <1>3

-----------------------------------------------------------------------------
(* Changes of cycles only                                                    *)

\* D is d with other cycles and another graph state.
Recycled(d, D, cyc2, g) == D = [d EXCEPT !.cyc = cyc2, !.graph = g]

IsCycleMap(f) == f = [n \in Nodes |-> f[n]] /\ \A n \in Nodes : IsCycle(f[n])

LEMMA CycleUpdate ==
    ASSUME NEW d, IsDatabase(d), NEW D, NEW cyc2, NEW g, Recycled(d, D, cyc2, g), IsCycleMap(cyc2)
    PROVE  /\ IsDatabase(D) /\ D.agg = d.agg /\ D.fx = d.fx /\ D.cyc = cyc2 /\ D.graph = g
           /\ D.restart = d.restart /\ D.replacement = d.replacement /\ D.rejections = d.rejections
<1>1. d = [agg |-> d.agg, cyc |-> d.cyc, graph |-> d.graph, fx |-> d.fx, restart |-> d.restart,
           replacement |-> d.replacement, rejections |-> d.rejections]
  BY DEF IsDatabase
<1>2. D = [agg |-> d.agg, cyc |-> cyc2, graph |-> g, fx |-> d.fx, restart |-> d.restart,
           replacement |-> d.replacement, rejections |-> d.rejections]
  BY <1>1 DEF Recycled
<1>3. /\ D.agg = d.agg /\ D.fx = d.fx /\ D.cyc = cyc2 /\ D.graph = g
      /\ D.restart = d.restart /\ D.replacement = d.replacement /\ D.rejections = d.rejections
  BY <1>2
<1>4. IsDatabase(D)
  BY <1>2, <1>3 DEF IsDatabase, IsCycleMap
<1> QED BY <1>3, <1>4

LEMMA GraphStays ==
    ASSUME NEW d, IsDatabase(d), NEW D, NEW cyc2, D = [d EXCEPT !.cyc = cyc2]
    PROVE  Recycled(d, D, cyc2, d.graph)
<1>1. d = [agg |-> d.agg, cyc |-> d.cyc, graph |-> d.graph, fx |-> d.fx, restart |-> d.restart,
           replacement |-> d.replacement, rejections |-> d.rejections]
  BY DEF IsDatabase
<1> DEFINE m == [d EXCEPT !.cyc = cyc2, !.graph = d.graph]
           g == d.graph
<1>2. m = [d EXCEPT !.cyc = cyc2, !.graph = g]
  OBVIOUS
<1> HIDE DEF m
<1>3. m = [agg |-> d.agg, cyc |-> cyc2, graph |-> d.graph, fx |-> d.fx, restart |-> d.restart,
           replacement |-> d.replacement, rejections |-> d.rejections]
  BY <1>1, <1>2
<1>4. D = [agg |-> d.agg, cyc |-> cyc2, graph |-> d.graph, fx |-> d.fx, restart |-> d.restart,
           replacement |-> d.replacement, rejections |-> d.rejections]
  BY <1>1
<1> QED BY <1>3, <1>4 DEF m, Recycled

LEMMA SoundCycles ==
    ASSUME NEW d, NEW D, NEW r \in BOOLEAN, Sound(d, r), IsDatabase(D),
           D.agg = d.agg, D.fx = d.fx, D.restart = d.restart, D.replacement = d.replacement,
           ParentPart(d.agg["wf"], d.agg["ep"], D.graph, r),
           \A n \in Nodes : /\ NodePart(d.agg[n], D.cyc[n], D.graph, r)
                            /\ D.cyc[n].state = "ACCEPTED" <=> d.cyc[n].state = "ACCEPTED",
           D.graph = "COMPLETED" => D.cyc[Sink].state = "ACCEPTED"
    PROVE  Sound(D, r)
<1>1. ChildPart(D, r) /\ ReplacementPart(D)
  BY DEF Sound, ChildPart, ReplacementPart
<1>2. CheckPart(D)
  BY GraphAssumption DEF Sound, CheckPart
<1> QED BY <1>1, <1>2 DEF Sound

LEMMA CancelledParents ==
    ASSUME NEW w, NEW p, NEW g, NEW r \in BOOLEAN, ParentPart(w, p, g, r),
           w.state \in {"CANCEL_REQUESTED", "CANCELLED", "RESTARTING"}
    PROVE  ParentPart(w, p, "CANCELLED", r)
BY DEF ParentPart, CancelSide

LEMMA CompletedParents ==
    ASSUME NEW w, NEW p, NEW g, NEW r \in BOOLEAN, ParentPart(w, p, g, r), g # "CANCELLED"
    PROVE  ParentPart(w, p, "COMPLETED", r)
BY DEF ParentPart

LEMMA ControlShape ==
    ASSUME NEW d, IsDatabase(d), NEW act \in {"REQUEST_PAUSE", "REQUEST_CANCEL", "RESUME"}
    PROVE  LET D == ControlGraph(d, act) IN
           /\ IsDatabase(D) /\ D.agg = d.agg /\ D.fx = d.fx
           /\ D.restart = d.restart /\ D.replacement = d.replacement /\ D.rejections = d.rejections
           /\ D.graph = IF act = "REQUEST_CANCEL" THEN "CANCELLED" ELSE d.graph
           /\ \A n \in Nodes : D.cyc[n] = ControlledCycle(d.cyc[n], act)
<1> DEFINE D == ControlGraph(d, act)
           cyc2 == [n \in Nodes |-> ControlledCycle(d.cyc[n], act)]
           g == IF act = "REQUEST_CANCEL" THEN "CANCELLED" ELSE d.graph
<1>1. D = [d EXCEPT !.cyc = cyc2, !.graph = g]
  BY DEF ControlGraph
<1>2. \A n \in Nodes : IsCycle(ControlledCycle(d.cyc[n], act))
  BY PausedCycle, CancelledCycle, ResumedCycle DEF IsDatabase
<1>3. cyc2 = [n \in Nodes |-> cyc2[n]] /\ \A n \in Nodes : cyc2[n] = ControlledCycle(d.cyc[n], act)
  OBVIOUS
<1>4. IsCycleMap(cyc2) /\ Recycled(d, D, cyc2, g)
  BY <1>1, <1>2, <1>3 DEF IsCycleMap, Recycled
<1> HIDE DEF cyc2, g, D
<1>5. /\ IsDatabase(D) /\ D.agg = d.agg /\ D.fx = d.fx /\ D.cyc = cyc2 /\ D.graph = g
      /\ D.restart = d.restart /\ D.replacement = d.replacement /\ D.rejections = d.rejections
  BY <1>4, CycleUpdate
<1> QED BY <1>3, <1>5 DEF D, g

LEMMA PauseGraph ==
    ASSUME NEW d, NEW r \in BOOLEAN, Sound(d, r), d.graph # "CANCELLED"
    PROVE  /\ Sound(ControlGraph(d, "REQUEST_PAUSE"), r)
           /\ ControlGraph(d, "REQUEST_PAUSE").agg = d.agg
           /\ ControlGraph(d, "REQUEST_PAUSE").graph = d.graph
           /\ \A n \in Nodes : ControlGraph(d, "REQUEST_PAUSE").cyc[n].state
                  \in {"ACCEPTED", "CANCELLED", "PAUSE_REQUESTED", "PAUSED", "TRIAGE_REQUIRED"}
<1> DEFINE D == ControlGraph(d, "REQUEST_PAUSE")
<1>1. IsDatabase(d) /\ \A n \in Nodes : IsCycle(d.cyc[n])
  BY DEF Sound, IsDatabase
<1>2. /\ IsDatabase(D) /\ D.agg = d.agg /\ D.fx = d.fx
      /\ D.restart = d.restart /\ D.replacement = d.replacement
      /\ D.graph = d.graph
      /\ \A n \in Nodes : D.cyc[n] = ControlledCycle(d.cyc[n], "REQUEST_PAUSE")
  BY <1>1, ControlShape
<1> HIDE DEF D
<1>3. ASSUME NEW n \in Nodes
      PROVE  /\ NodePart(d.agg[n], D.cyc[n], D.graph, r)
             /\ D.cyc[n].state = "ACCEPTED" <=> d.cyc[n].state = "ACCEPTED"
             /\ D.cyc[n].state \in {"ACCEPTED", "CANCELLED", "PAUSE_REQUESTED", "PAUSED", "TRIAGE_REQUIRED"}
  <2>1. NodePart(d.agg[n], d.cyc[n], d.graph, r) /\ IsCycle(d.cyc[n])
    BY <1>1 DEF Sound
  <2> DEFINE c == d.cyc[n]
             e == ControlledCycle(c, "REQUEST_PAUSE")
  <2>2. D.cyc[n] = e /\ D.graph = d.graph
    BY <1>2
  <2>3. /\ NodePart(d.agg[n], e, d.graph, r)
        /\ e.state = "ACCEPTED" <=> c.state = "ACCEPTED"
        /\ e.state \in {"ACCEPTED", "CANCELLED", "PAUSE_REQUESTED", "PAUSED", "TRIAGE_REQUIRED"}
    BY <2>1, PauseKeeps
  <2> HIDE DEF c, e
  <2> QED BY <2>2, <2>3 DEF c
<1>4. ParentPart(d.agg["wf"], d.agg["ep"], D.graph, r)
  BY <1>2 DEF Sound
<1>5. D.graph = "COMPLETED" => D.cyc[Sink].state = "ACCEPTED"
  BY <1>2, <1>3, Names DEF Sound, CheckPart
<1>6. Sound(D, r)
  BY <1>2, <1>3, <1>4, <1>5, SoundCycles
<1> QED BY <1>2, <1>3, <1>6 DEF D

LEMMA ResumeGraph ==
    ASSUME NEW d, NEW r \in BOOLEAN, Sound(d, r), d.graph # "CANCELLED"
    PROVE  /\ Sound(ControlGraph(d, "RESUME"), r)
           /\ ControlGraph(d, "RESUME").agg = d.agg /\ ControlGraph(d, "RESUME").graph = d.graph
<1> DEFINE D == ControlGraph(d, "RESUME")
<1>1. IsDatabase(d) /\ \A n \in Nodes : IsCycle(d.cyc[n])
  BY DEF Sound, IsDatabase
<1>2. /\ IsDatabase(D) /\ D.agg = d.agg /\ D.fx = d.fx
      /\ D.restart = d.restart /\ D.replacement = d.replacement
      /\ D.graph = d.graph
      /\ \A n \in Nodes : D.cyc[n] = ControlledCycle(d.cyc[n], "RESUME")
  BY <1>1, ControlShape
<1> HIDE DEF D
<1>3. ASSUME NEW n \in Nodes
      PROVE  /\ NodePart(d.agg[n], D.cyc[n], D.graph, r)
             /\ D.cyc[n].state = "ACCEPTED" <=> d.cyc[n].state = "ACCEPTED"
  <2>1. NodePart(d.agg[n], d.cyc[n], d.graph, r) /\ IsCycle(d.cyc[n])
    BY <1>1 DEF Sound
  <2> QED BY <1>2, <2>1, ResumeKeeps
<1>4. ParentPart(d.agg["wf"], d.agg["ep"], D.graph, r)
  BY <1>2 DEF Sound
<1>5. D.graph = "COMPLETED" => D.cyc[Sink].state = "ACCEPTED"
  BY <1>2, <1>3, Names DEF Sound, CheckPart
<1>6. Sound(D, r)
  BY <1>2, <1>3, <1>4, <1>5, SoundCycles
<1> QED BY <1>2, <1>6 DEF D

LEMMA CancelGraph ==
    ASSUME NEW d, NEW r \in BOOLEAN, Sound(d, r),
           d.agg["wf"].state \in {"CANCEL_REQUESTED", "CANCELLED", "RESTARTING"}
    PROVE  /\ Sound(ControlGraph(d, "REQUEST_CANCEL"), r)
           /\ ControlGraph(d, "REQUEST_CANCEL").agg = d.agg
           /\ ControlGraph(d, "REQUEST_CANCEL").graph = "CANCELLED"
<1> DEFINE D == ControlGraph(d, "REQUEST_CANCEL")
<1>1. IsDatabase(d) /\ \A n \in Nodes : IsCycle(d.cyc[n])
  BY DEF Sound, IsDatabase
<1>2. /\ IsDatabase(D) /\ D.agg = d.agg /\ D.fx = d.fx
      /\ D.restart = d.restart /\ D.replacement = d.replacement
      /\ D.graph = "CANCELLED"
      /\ \A n \in Nodes : D.cyc[n] = ControlledCycle(d.cyc[n], "REQUEST_CANCEL")
  BY <1>1, ControlShape
<1> HIDE DEF D
<1>3. ASSUME NEW n \in Nodes
      PROVE  /\ NodePart(d.agg[n], D.cyc[n], D.graph, r)
             /\ D.cyc[n].state = "ACCEPTED" <=> d.cyc[n].state = "ACCEPTED"
  <2>1. NodePart(d.agg[n], d.cyc[n], d.graph, r) /\ IsCycle(d.cyc[n])
    BY <1>1 DEF Sound
  <2> QED BY <1>2, <2>1, CancelKeeps
<1>4. ParentPart(d.agg["wf"], d.agg["ep"], D.graph, r)
  BY <1>2, CancelledParents DEF Sound
<1>5. D.graph # "COMPLETED"
  BY <1>2
<1>6. Sound(D, r)
  BY <1>2, <1>3, <1>4, <1>5, SoundCycles
<1> QED BY <1>2, <1>6 DEF D

LEMMA RefreshSound ==
    ASSUME NEW d, NEW r \in BOOLEAN, Sound(d, r)
    PROVE  /\ Sound(Refresh(d), r) /\ Refresh(d).agg = d.agg
           /\ Refresh(d).graph = "CANCELLED" <=> d.graph = "CANCELLED"
           /\ \A n \in Nodes : Refresh(d).cyc[n].busy = d.cyc[n].busy
<1> DEFINE D == Refresh(d)
           Opens(m) == d.cyc[m].state = "BLOCKED" /\ \A q \in ProducerDeps[m] : d.cyc[q].state = "ACCEPTED"
           cyc2 == [m \in Nodes |-> IF Opens(m) THEN [d.cyc[m] EXCEPT !.state = "PRODUCER_READY"] ELSE d.cyc[m]]
           g == IF d.cyc[Sink].state = "ACCEPTED" THEN "COMPLETED" ELSE d.graph
<1>1. CASE d.graph = "CANCELLED"
  BY <1>1 DEF Refresh
<1>2. CASE d.graph # "CANCELLED"
  <2>1. D = [d EXCEPT !.cyc = cyc2, !.graph = g]
    BY <1>2 DEF Refresh
  <2>2. IsDatabase(d) /\ \A n \in Nodes : IsCycle(d.cyc[n])
    BY DEF Sound, IsDatabase
  <2>3. ASSUME NEW n \in Nodes
        PROVE  /\ IsCycle(cyc2[n]) /\ cyc2[n].busy = d.cyc[n].busy /\ cyc2[n].resume = d.cyc[n].resume
               /\ \/ cyc2[n].state = d.cyc[n].state
                  \/ d.cyc[n].state = "BLOCKED" /\ cyc2[n].state = "PRODUCER_READY"
    <3>1. CASE ~Opens(n)
      BY <2>2, <3>1
    <3>2. CASE Opens(n)
      <4> DEFINE c == d.cyc[n]
                 e == cyc2[n]
      <4>1. e = [c EXCEPT !.state = "PRODUCER_READY"]
        BY <3>2
      <4>2. IsCycle(c)
        BY <2>2
      <4> HIDE DEF c, e
      <4>3. e = [state |-> "PRODUCER_READY", resume |-> c.resume, busy |-> c.busy]
        BY <4>1, <4>2 DEF IsCycle
      <4>4. e.state = "PRODUCER_READY" /\ e.resume = c.resume /\ e.busy = c.busy
        BY <4>3
      <4>5. IsCycle(e)
        BY <4>2, <4>3, <4>4 DEF IsCycle
      <4> QED BY <3>2, <4>4, <4>5 DEF c, e
    <3> QED BY <3>1, <3>2
  <2>4. IsCycleMap(cyc2) /\ Recycled(d, D, cyc2, g)
    BY <2>1, <2>3 DEF IsCycleMap, Recycled
  <2> HIDE DEF cyc2, D, g
  <2>5. /\ IsDatabase(D) /\ D.agg = d.agg /\ D.fx = d.fx /\ D.cyc = cyc2 /\ D.graph = g
        /\ D.restart = d.restart /\ D.replacement = d.replacement
    BY <2>2, <2>4, CycleUpdate
  <2>6. g # "CANCELLED"
    BY <1>2 DEF g
  <2>7. ASSUME NEW n \in Nodes
        PROVE  /\ NodePart(d.agg[n], D.cyc[n], D.graph, r)
               /\ D.cyc[n].state = "ACCEPTED" <=> d.cyc[n].state = "ACCEPTED"
    <3> DEFINE x == d.agg[n]
               c == d.cyc[n]
               e == D.cyc[n]
    <3>1. NodePart(x, c, d.graph, r)
      BY DEF Sound
    <3>2. NodeShape(x) /\ CycleShape(c) /\ SlotPart(x, c) /\ CancelPart(x, c, d.graph) /\ (r => CandidatePart(x, c))
      BY <3>1 DEF NodePart
    <3>3. /\ e.busy = c.busy /\ e.resume = c.resume
          /\ e.state = c.state \/ (c.state = "BLOCKED" /\ e.state = "PRODUCER_READY")
      BY <2>3, <2>5
    <3> HIDE DEF x, c, e, g
    <3>4. CycleShape(e)
      BY <3>2, <3>3 DEF CycleShape, CycleStates
    <3>5. SlotPart(x, e)
      BY <3>2, <3>3 DEF SlotPart
    <3>6. CancelPart(x, e, D.graph)
      BY <1>2, <2>5, <2>6, <3>2 DEF CancelPart
    <3>7. r => CandidatePart(x, e)
      BY <3>2, <3>3 DEF CandidatePart, BeforeCandidate
    <3> QED BY <3>2, <3>3, <3>4, <3>5, <3>6, <3>7 DEF NodePart, x, c, e
  <2>8. ParentPart(d.agg["wf"], d.agg["ep"], D.graph, r)
    BY <1>2, <2>5, CompletedParents DEF Sound, g
  <2>9. D.graph = "COMPLETED" => D.cyc[Sink].state = "ACCEPTED"
    BY <2>5, <2>7, Names DEF Sound, CheckPart, g
  <2>10. Sound(D, r)
    BY <2>5, <2>7, <2>8, <2>9, SoundCycles
  <2> QED BY <1>2, <2>3, <2>5, <2>6, <2>10 DEF D
<1> QED BY <1>1, <1>2

-----------------------------------------------------------------------------
(* The projection of the workflow's intent on the cycles                     *)

\* The two halves of ProjectCycles.
Intended(d) ==
    LET w == d.agg["wf"].state IN
    CASE PausesCycles(d) -> ControlGraph(d, "REQUEST_PAUSE")
      [] w \in {"CANCEL_REQUESTED", "CANCELLED"} -> ControlGraph(d, "REQUEST_CANCEL")
      [] w = "ACTIVE" -> ControlGraph(d, "RESUME")
      [] OTHER -> d

ConfirmedAt(d, n, c) ==
    CASE d.agg[n].state = "PAUSED" -> ConfirmCycle(c, FALSE)
      [] d.agg[n].state = "CANCELLED" -> ConfirmCycle(c, TRUE)
      [] OTHER -> c

Confirmed(d, d1) == [d1 EXCEPT !.cyc = [n \in Nodes |-> ConfirmedAt(d, n, @[n])]]

LEMMA ProjectIs ==
    ASSUME NEW d
    PROVE  ProjectCycles(d) = IF Confirmed(d, Intended(d)).cyc = Intended(d).cyc
                              THEN Intended(d) ELSE Refresh(Confirmed(d, Intended(d)))
BY DEF ProjectCycles, Intended, Confirmed, ConfirmedAt

StoppedCycle == {"ACCEPTED", "CANCELLED", "PAUSE_REQUESTED", "PAUSED", "TRIAGE_REQUIRED"}

LEMMA IntendedSound ==
    ASSUME NEW d, NEW r \in BOOLEAN, Sound(d, r)
    PROVE  /\ Sound(Intended(d), r) /\ Intended(d).agg = d.agg
           /\ d.graph = "CANCELLED" \/ d.agg["wf"].state = "CANCEL_REQUESTED" => Intended(d).graph = "CANCELLED"
           /\ d.agg["wf"].state = "PAUSED" => \A n \in Nodes : Intended(d).cyc[n].state \in StoppedCycle
<1> DEFINE w == d.agg["wf"]
<1>1. /\ w.state \in {"ACTIVE", "PAUSE_REQUESTED", "PAUSED", "CANCEL_REQUESTED", "CANCELLED",
                      "RESTARTING", "TRIAGE_REQUIRED", "COMPLETED"}
      /\ d.graph = "CANCELLED" => CancelSide(w)
  BY DEF Sound, ParentPart, WorkflowShape
<1>2. CASE PausesCycles(d)
  <2>1. d.graph # "CANCELLED" /\ w.state # "CANCEL_REQUESTED"
    BY <1>1, <1>2 DEF PausesCycles, CancelSide
  <2>2. Intended(d) = ControlGraph(d, "REQUEST_PAUSE")
    <3>1. w.state \notin {"CANCEL_REQUESTED", "CANCELLED", "ACTIVE"}
      BY <1>2 DEF PausesCycles
    <3> QED BY <1>2, <3>1 DEF Intended
  <2> QED BY <2>1, <2>2, PauseGraph DEF StoppedCycle
<1>3. CASE ~PausesCycles(d) /\ w.state \in {"CANCEL_REQUESTED", "CANCELLED"}
  <2>1. Intended(d) = ControlGraph(d, "REQUEST_CANCEL")
    BY <1>3 DEF Intended
  <2> QED BY <1>3, <2>1, CancelGraph
<1>4. CASE ~PausesCycles(d) /\ w.state = "ACTIVE"
  <2>1. d.graph # "CANCELLED"
    BY <1>1, <1>4 DEF CancelSide
  <2>2. Intended(d) = ControlGraph(d, "RESUME")
    BY <1>4 DEF Intended
  <2> QED BY <1>4, <2>1, <2>2, ResumeGraph
<1>5. CASE ~PausesCycles(d) /\ w.state \notin {"CANCEL_REQUESTED", "CANCELLED", "ACTIVE"}
  <2>1. Intended(d) = d /\ w.state # "PAUSED"
    BY <1>5 DEF Intended, PausesCycles
  <2> QED BY <1>5, <2>1
<1> QED BY <1>2, <1>3, <1>4, <1>5

LEMMA ConfirmedSound ==
    ASSUME NEW d, NEW b, NEW r \in BOOLEAN, Sound(b, r), b.agg = d.agg
    PROVE  /\ Sound(Confirmed(d, b), r) /\ Confirmed(d, b).agg = d.agg /\ Confirmed(d, b).graph = b.graph
           /\ \A n \in Nodes : Confirmed(d, b).cyc[n] = ConfirmedAt(d, n, b.cyc[n])
<1> DEFINE D == Confirmed(d, b)
           cyc2 == [n \in Nodes |-> ConfirmedAt(d, n, b.cyc[n])]
           g == b.graph
<1>1. IsDatabase(b) /\ \A n \in Nodes : IsCycle(b.cyc[n]) /\ NodePart(d.agg[n], b.cyc[n], g, r)
  BY DEF Sound, IsDatabase
<1>2. D = [b EXCEPT !.cyc = cyc2]
  BY DEF Confirmed
<1>3. ASSUME NEW n \in Nodes
      PROVE  /\ IsCycle(ConfirmedAt(d, n, b.cyc[n]))
             /\ NodePart(d.agg[n], ConfirmedAt(d, n, b.cyc[n]), g, r)
             /\ ConfirmedAt(d, n, b.cyc[n]).state = "ACCEPTED" <=> b.cyc[n].state = "ACCEPTED"
  <2> DEFINE x == d.agg[n]
             c == b.cyc[n]
             e == ConfirmedAt(d, n, c)
  <2>1. IsCycle(c) /\ NodePart(x, c, g, r)
    BY <1>1
  <2>2. CASE x.state = "PAUSED"
    <3>1. e = ConfirmCycle(c, FALSE)
      BY <2>2 DEF ConfirmedAt
    <3> HIDE DEF x, c, e, g
    <3>2. IsCycle(e)
      BY <2>1, <3>1, ConfirmedCycle
    <3>3. NodePart(x, e, g, r) /\ (e.state = "ACCEPTED" <=> c.state = "ACCEPTED")
      BY <2>1, <2>2, <3>1, ConfirmKeeps
    <3> QED BY <3>2, <3>3 DEF x, c, e, g
  <2>3. CASE x.state = "CANCELLED"
    <3>1. e = ConfirmCycle(c, TRUE)
      BY <2>3 DEF ConfirmedAt
    <3> HIDE DEF x, c, e, g
    <3>2. IsCycle(e)
      BY <2>1, <3>1, ConfirmedCycle
    <3>3. NodePart(x, e, g, r) /\ (e.state = "ACCEPTED" <=> c.state = "ACCEPTED")
      BY <2>1, <2>3, <3>1, ConfirmKeeps
    <3> QED BY <3>2, <3>3 DEF x, c, e, g
  <2>4. CASE x.state \notin {"PAUSED", "CANCELLED"}
    <3>1. e = c
      BY <2>4 DEF ConfirmedAt
    <3> QED BY <2>1, <3>1
  <2> QED BY <2>2, <2>3, <2>4
<1>4. IsCycleMap(cyc2) /\ \A n \in Nodes : cyc2[n] = ConfirmedAt(d, n, b.cyc[n])
  BY <1>3 DEF IsCycleMap
<1> HIDE DEF cyc2, D
<1>5. Recycled(b, D, cyc2, b.graph)
  BY <1>1, <1>2, GraphStays
<1>6. /\ IsDatabase(D) /\ D.agg = b.agg /\ D.fx = b.fx /\ D.cyc = cyc2 /\ D.graph = b.graph
      /\ D.restart = b.restart /\ D.replacement = b.replacement
  BY <1>1, <1>4, <1>5, CycleUpdate
<1>7. \A n \in Nodes : /\ NodePart(b.agg[n], D.cyc[n], D.graph, r)
                       /\ D.cyc[n].state = "ACCEPTED" <=> b.cyc[n].state = "ACCEPTED"
  BY <1>3, <1>4, <1>6
<1>8. ParentPart(b.agg["wf"], b.agg["ep"], D.graph, r)
  BY <1>6 DEF Sound
<1>9. D.graph = "COMPLETED" => D.cyc[Sink].state = "ACCEPTED"
  BY <1>6, <1>7, Names DEF Sound, CheckPart
<1>10. Sound(D, r)
  BY <1>6, <1>7, <1>8, <1>9, SoundCycles
<1> QED BY <1>4, <1>6, <1>10 DEF D

\* Under a paused workflow every node has settled.
LEMMA PausedNodes ==
    ASSUME NEW d, NEW r \in BOOLEAN, Sound(d, r), r, d.agg["wf"].state = "PAUSED"
    PROVE  \A n \in Nodes : d.agg[n].state \in {"ACCEPTED", "CANCELLED", "PAUSED", "TRIAGE_REQUIRED"}
<1> DEFINE w == d.agg["wf"]
           p == d.agg["ep"]
<1>1. ParentPart(w, p, d.graph, r) /\ ChildPart(d, r)
  BY DEF Sound
<1>2. p.state \in {"PAUSED", "TRIAGE_REQUIRED", "CANCELLED", "COMPLETED"}
  BY <1>1 DEF ParentPart
<1>3. CASE p.state = "PAUSED"
  BY <1>1, <1>3 DEF ChildPart, SettledBy
<1>4. CASE p.state = "TRIAGE_REQUIRED"
  <2>1. p.triage = "FINALIZING"
    BY <1>1, <1>4 DEF ParentPart, EpochShape
  <2> QED BY <1>1, <2>1 DEF ChildPart
<1>5. CASE p.state \in {"CANCELLED", "COMPLETED"}
  BY <1>1, <1>5 DEF ChildPart
<1> QED BY <1>2, <1>3, <1>4, <1>5

LEMMA ConfirmedIdle ==
    ASSUME NEW d, NEW b, NEW r \in BOOLEAN, Sound(b, r), b.agg = d.agg, r, d.agg["wf"].state = "PAUSED",
           \A n \in Nodes : b.cyc[n].state \in StoppedCycle
    PROVE  \A n \in Nodes : ~ConfirmedAt(d, n, b.cyc[n]).busy
<1> SUFFICES ASSUME NEW n \in Nodes PROVE ~ConfirmedAt(d, n, b.cyc[n]).busy
  OBVIOUS
<1> DEFINE x == d.agg[n]
           c == b.cyc[n]
           e == ConfirmedAt(d, n, c)
<1>1. x.state \in {"ACCEPTED", "CANCELLED", "PAUSED", "TRIAGE_REQUIRED"}
  BY PausedNodes
<1>2. IsCycle(c) /\ CycleShape(c) /\ SlotPart(x, c) /\ c.state \in StoppedCycle
  BY DEF Sound, IsDatabase, NodePart
<1>3. CASE x.state = "PAUSED"
  <2>1. e = ConfirmCycle(c, FALSE)
    BY <1>3 DEF ConfirmedAt
  <2>2. IsCycle(c)
    BY <1>2
  <2> HIDE DEF x, c, e
  <2>3. \/ c.state # "PAUSE_REQUESTED" /\ e = c
        \/ c.state = "PAUSE_REQUESTED" /\ e.busy = FALSE
    BY <2>1, <2>2, ConfirmedCycle
  <2>4. c.state # "PAUSE_REQUESTED" => ~c.busy
    BY <1>2 DEF CycleShape, StoppedCycle
  <2> QED BY <2>3, <2>4 DEF e, c
<1>4. CASE x.state = "CANCELLED"
  <2>1. e = ConfirmCycle(c, TRUE)
    BY <1>4 DEF ConfirmedAt
  <2>2. IsCycle(c) /\ ~c.busy
    BY <1>2, <1>4 DEF SlotPart
  <2> HIDE DEF x, c, e
  <2>3. e = c \/ e.busy = FALSE
    BY <2>1, <2>2, ConfirmedCycle
  <2> QED BY <2>2, <2>3 DEF e, c
<1>5. CASE x.state \in {"ACCEPTED", "TRIAGE_REQUIRED"}
  <2>1. e = c
    BY <1>5 DEF ConfirmedAt
  <2>2. ~c.busy
    BY <1>2, <1>5 DEF SlotPart, CycleShape
  <2> QED BY <2>1, <2>2
<1> QED BY <1>1, <1>3, <1>4, <1>5

LEMMA ProjectSound ==
    ASSUME NEW d, NEW r \in BOOLEAN, Sound(d, r)
    PROVE  /\ Sound(ProjectCycles(d), r) /\ ProjectCycles(d).agg = d.agg
           /\ d.agg["wf"].state = "CANCEL_REQUESTED" => ProjectCycles(d).graph = "CANCELLED"
           /\ Projected(ProjectCycles(d), r)
<1> DEFINE D == ProjectCycles(d)
           b == Intended(d)
           f == Confirmed(d, b)
<1>1. /\ Sound(b, r) /\ b.agg = d.agg
      /\ d.graph = "CANCELLED" \/ d.agg["wf"].state = "CANCEL_REQUESTED" => b.graph = "CANCELLED"
      /\ d.agg["wf"].state = "PAUSED" => \A n \in Nodes : b.cyc[n].state \in StoppedCycle
  BY IntendedSound
<1>2. D = IF f.cyc = b.cyc THEN b ELSE Refresh(f)
  BY ProjectIs
<1> HIDE DEF D, b
<1>3. /\ Sound(f, r) /\ f.agg = d.agg /\ f.graph = b.graph
      /\ \A n \in Nodes : f.cyc[n] = ConfirmedAt(d, n, b.cyc[n])
  BY <1>1, ConfirmedSound
<1>4. r /\ d.agg["wf"].state = "PAUSED" => \A n \in Nodes : ~f.cyc[n].busy
  <2> SUFFICES ASSUME r, d.agg["wf"].state = "PAUSED" PROVE \A n \in Nodes : ~f.cyc[n].busy
    OBVIOUS
  <2>1. \A n \in Nodes : ~ConfirmedAt(d, n, b.cyc[n]).busy
    BY <1>1, ConfirmedIdle
  <2> QED BY <1>3, <2>1
<1> HIDE DEF f
<1>5. /\ Sound(Refresh(f), r) /\ Refresh(f).agg = f.agg
      /\ Refresh(f).graph = "CANCELLED" <=> f.graph = "CANCELLED"
      /\ \A n \in Nodes : Refresh(f).cyc[n].busy = f.cyc[n].busy
  BY <1>3, RefreshSound
<1>6. /\ Sound(D, r) /\ D.agg = d.agg
      /\ d.graph = "CANCELLED" \/ d.agg["wf"].state = "CANCEL_REQUESTED" => D.graph = "CANCELLED"
      /\ r /\ d.agg["wf"].state = "PAUSED" => \A n \in Nodes : ~D.cyc[n].busy
  <2>1. CASE f.cyc = b.cyc
    <3>1. D = b
      BY <1>2, <2>1
    <3> QED BY <1>1, <1>4, <2>1, <3>1
  <2>2. CASE f.cyc # b.cyc
    <3>1. D = Refresh(f)
      BY <1>2, <2>2
    <3> QED BY <1>1, <1>3, <1>4, <1>5, <3>1
  <2> QED BY <2>1, <2>2
<1>7. d.agg["ep"].state \in {"CANCEL_REQUESTED", "CANCELLED"} => d.graph = "CANCELLED" \/ d.agg["wf"].state = "CANCEL_REQUESTED"
  BY DEF Sound, ParentPart
<1>8. Projected(D, r)
  BY <1>6, <1>7 DEF Projected
<1> QED BY <1>6, <1>8 DEF D

-----------------------------------------------------------------------------
(* Nodes move                                                                *)

LEMMA NodeMoveFacts ==
    ASSUME NEW x, NEW act, NEW y, NEW out, NodeShape(x), NodeMove(x, act, y, out)
    PROVE  /\ x.state \notin {"ACCEPTED", "CANCELLED"}
           /\ act # "START_REVIEW" /\ {y.state, y.resume, y.triage} \cap CheckedNode # {} =>
                  {x.state, x.resume, x.triage} \cap CheckedNode # {}
           /\ x.state = "PAUSED" => act \in {"RESUME", "REQUEST_CANCEL"}
           /\ x.state = "TRIAGE_REQUIRED" =>
                  act \in {"REQUEST_CANCEL", "RESOLVE_TRIAGE"} \/ y.state = "TRIAGE_REQUIRED"
           /\ \A t \in out : /\ t \in NodeSemantic \cup {"schedule", "node_accepted"}
                             /\ t \in NodeSemantic => y.state \notin {"ACCEPTED", "CANCELLED", "PAUSED"}
<1>1. CASE act \notin ControlActs /\ <<x.state, act, y.state, out>> \in PlainRows
           /\ y.resume = x.resume /\ y.triage = x.triage
  BY <1>1 DEF PlainRows, CheckedNode, NodeSemantic, Semantic
<1>2. CASE act = "REQUEST_PAUSE" /\ x.state \in PausableNode
           /\ y.state = "PAUSE_REQUESTED" /\ y.resume = x.state /\ y.triage = x.triage /\ out = {"pause_role"}
  BY <1>2 DEF PausableNode, RunningNode, CheckedNode, NodeSemantic, Semantic
<1>3. CASE act = "REQUEST_CANCEL" /\ x.state \notin {"ACCEPTED", "CANCELLED", "CANCEL_REQUESTED"}
           /\ y.state = "CANCEL_REQUESTED" /\ y.resume = "none" /\ y.triage = "none" /\ out = {"cancel_role"}
  BY <1>3 DEF CheckedNode, NodeSemantic, Semantic
<1>4. CASE /\ act \in {"ENTER_TRIAGE", "ROLE_FAILED"} /\ x.state \notin {"ACCEPTED", "CANCELLED", "PAUSED"}
           /\ y.state = "TRIAGE_REQUIRED" /\ y.resume = x.resume
           /\ y.triage = IF x.state = "TRIAGE_REQUIRED" THEN x.triage ELSE x.state
           /\ out \subseteq {"park_role"}
  BY <1>4 DEF CheckedNode, NodeSemantic, Semantic
<1>5. CASE act = "RESUME" /\ x.state = "PAUSED" /\ y.state = Reentry(x.resume) /\ y.resume = "none"
           /\ y.triage = x.triage /\ out = {"resume_role", "schedule"}
  <2>1. x.resume \in PausableNode
    BY <1>5 DEF NodeShape
  <2>2. y.state \notin {"ACCEPTED", "CANCELLED", "PAUSED"} /\ (y.state \in CheckedNode => x.resume \in CheckedNode)
    BY <1>5, <2>1 DEF Reentry, PausableNode, RunningNode, CheckedNode
  <2> QED BY <1>5, <2>2 DEF CheckedNode, NodeSemantic, Semantic
<1>6. CASE act = "RESOLVE_TRIAGE" /\ x.state = "TRIAGE_REQUIRED" /\ y.state = Reentry(x.triage)
           /\ y.resume = x.resume /\ y.triage = "none" /\ out = {"reconcile_role", "schedule"}
  <2>1. x.triage \in PausableNode \cup CandidateNode \cup {"PAUSE_REQUESTED", "CANCEL_REQUESTED"}
    BY <1>6 DEF NodeShape
  <2>2. y.state \notin {"ACCEPTED", "CANCELLED", "PAUSED"} /\ (y.state \in CheckedNode => x.triage \in CheckedNode)
    BY <1>6, <2>1 DEF Reentry, PausableNode, RunningNode, CandidateNode, CheckedNode
  <2> QED BY <1>6, <2>2 DEF CheckedNode, NodeSemantic, Semantic
<1> QED BY <1>1, <1>2, <1>3, <1>4, <1>5, <1>6 DEF NodeMove

\* Nodes take one action, with or without a change of their cycles.
LEMMA NodesChange ==
    ASSUME NEW d, NEW D, NEW r \in BOOLEAN, NEW q \in BOOLEAN, q => r, NEW S \in SUBSET Nodes, NEW act,
           Sound(d, r), IsDatabase(D), Dispatched(d, D, S, act), D.graph = d.graph,
           \A n \in S : Legal(d, n, act),
           \A n \in Nodes : NodePart(D.agg[n], D.cyc[n], d.graph, q),
           \A n \in Nodes : d.cyc[n].state = "ACCEPTED" => D.cyc[n].state = "ACCEPTED",
           D.cyc[Sink].state = "ACCEPTED" => \A n \in Nodes : D.cyc[n].state = "ACCEPTED",
           q /\ act \in {"RESUME", "REQUEST_CANCEL", "RESOLVE_TRIAGE"} => d.agg["ep"].state # "PAUSED",
           act = "START_REVIEW" => \A n \in S : \A m \in CheckerDeps[n] : d.cyc[m].state = "ACCEPTED"
    PROVE  Sound(D, q)
<1> DEFINE X(n) == d.agg[n]
           Y(n) == Moved(d, n, act)
           Out(n) == NodeStep[<<d.agg[n].state, act>>][4]
<1>1. /\ D.agg["wf"] = d.agg["wf"] /\ D.agg["ep"] = d.agg["ep"]
      /\ D.restart = d.restart /\ D.replacement = d.replacement
      /\ \A n \in Nodes \ S : D.agg[n] = d.agg[n]
      /\ \A n \in S : D.agg[n] = Moved(d, n, act)
  BY Names DEF Dispatched
<1>2. \A n \in S : NodeShape(X(n)) /\ NodeMove(X(n), act, Y(n), Out(n))
  BY NodeMoves DEF Sound, NodePart
<1> HIDE DEF X, Y, Out
<1>3. \A n \in S :
           /\ X(n).state \notin {"ACCEPTED", "CANCELLED"}
           /\ act # "START_REVIEW" /\ {Y(n).state, Y(n).resume, Y(n).triage} \cap CheckedNode # {} =>
                  {X(n).state, X(n).resume, X(n).triage} \cap CheckedNode # {}
           /\ X(n).state = "PAUSED" => act \in {"RESUME", "REQUEST_CANCEL"}
           /\ X(n).state = "TRIAGE_REQUIRED" =>
                  act \in {"REQUEST_CANCEL", "RESOLVE_TRIAGE"} \/ Y(n).state = "TRIAGE_REQUIRED"
           /\ \A t \in Out(n) : /\ t \in NodeSemantic \cup {"schedule", "node_accepted"}
                                /\ t \in NodeSemantic => Y(n).state \notin {"ACCEPTED", "CANCELLED", "PAUSED"}
  BY <1>2, NodeMoveFacts
<1>4. ParentPart(D.agg["wf"], D.agg["ep"], D.graph, q)
  BY <1>1 DEF Sound, ParentPart
<1>5. ChildPart(D, q)
  <2>1. ChildPart(d, r)
    BY DEF Sound
  <2>2. d.agg["ep"].state = "COMPLETED" \/ "FINALIZING" \in {d.agg["ep"].state, d.agg["ep"].resume, d.agg["ep"].triage}
           => \A n \in Nodes : D.agg[n].state = "ACCEPTED"
    BY <1>1, <1>3, <2>1 DEF ChildPart, X
  <2>3. d.agg["ep"].state = "CANCELLED" => \A n \in Nodes : D.agg[n].state \in {"ACCEPTED", "CANCELLED"}
    BY <1>1, <1>3, <2>1 DEF ChildPart, X
  <2>4. ASSUME q, d.agg["ep"].state = "PAUSED", NEW n \in Nodes
        PROVE  D.agg[n].state \in SettledBy(n, "REQUEST_PAUSE")
    <3>1. d.agg[n].state \in {"ACCEPTED", "CANCELLED", "PAUSED", "TRIAGE_REQUIRED"}
      BY <2>1, <2>4 DEF ChildPart, SettledBy
    <3>2. D.agg[n].state \in {"ACCEPTED", "CANCELLED", "PAUSED", "TRIAGE_REQUIRED"}
      BY <1>1, <1>3, <2>4, <3>1 DEF X, Y
    <3> QED BY <3>2 DEF SettledBy
  <2> QED BY <1>1, <2>2, <2>3, <2>4 DEF ChildPart
<1>6. CheckPart(D)
  <2>1. CheckPart(d)
    BY DEF Sound
  <2>2. ASSUME NEW n \in Nodes, {D.agg[n].state, D.agg[n].resume, D.agg[n].triage} \cap CheckedNode # {},
               NEW m \in CheckerDeps[n]
        PROVE  D.cyc[m].state = "ACCEPTED"
    <3>1. m \in Nodes
      BY GraphAssumption
    <3>2. d.cyc[m].state = "ACCEPTED"
      <4>1. CASE n \in S /\ act = "START_REVIEW"
        BY <4>1
      <4>2. CASE n \in S /\ act # "START_REVIEW"
        <5>1. {X(n).state, X(n).resume, X(n).triage} \cap CheckedNode # {}
          BY <1>1, <1>3, <2>2, <4>2 DEF Y
        <5> QED BY <2>1, <5>1 DEF CheckPart, X
      <4>3. CASE n \notin S
        BY <1>1, <2>1, <2>2, <4>3 DEF CheckPart
      <4> QED BY <4>1, <4>2, <4>3
    <3> QED BY <3>1, <3>2
  <2>3. D.graph = "COMPLETED" => D.cyc[Sink].state = "ACCEPTED"
    BY <2>1, Names DEF CheckPart
  <2> QED BY <2>2, <2>3 DEF CheckPart
<1>7. ASSUME NEW e \in D.fx PROVE EffectPart(e, D.agg)
  <2>1. \/ e \in d.fx /\ (e.of \notin S \/ e.type \notin Semantic)
        \/ e = Overtaken
        \/ e.of \in S /\ e.type \in Emitted(d, e.of, act)
    BY DEF Dispatched
  <2>2. CASE e \in d.fx /\ (e.of \notin S \/ e.type \notin Semantic)
    <3>1. EffectPart(e, d.agg)
      BY <2>2 DEF Sound
    <3> QED BY <1>1, <2>2, <3>1 DEF EffectPart, NodeSemantic
  <2>3. CASE e = Overtaken
    BY <2>3, Names DEF EffectPart, Overtaken
  <2>4. CASE e.of \in S /\ e.type \in Emitted(d, e.of, act)
    <3>1. e.of \in Nodes /\ e.of # "wf" /\ e.of # "ep" /\ Step(e.of) = NodeStep
      BY <2>4, Names
    <3>2. e.type \in Out(e.of)
      BY <2>4, <3>1 DEF Emitted, ArrivalEffects, Out
    <3>3. D.agg[e.of] = Y(e.of)
      BY <1>1, <2>4 DEF Y
    <3> QED BY <1>3, <2>4, <3>1, <3>2, <3>3 DEF EffectPart
  <2> QED BY <2>1, <2>2, <2>3, <2>4
<1>8. ReplacementPart(D)
  BY <1>1 DEF Sound, ReplacementPart
<1>9. \A n \in Nodes : NodePart(D.agg[n], D.cyc[n], D.graph, q)
  OBVIOUS
<1> QED BY <1>4, <1>5, <1>6, <1>7, <1>8, <1>9 DEF Sound

\* Nodes take an action that leaves their cycles alone.
LEMMA MoveNodes ==
    ASSUME NEW d, NEW r \in BOOLEAN, NEW S \in SUBSET Nodes, NEW act, Sound(d, r),
           \A n \in S : Legal(d, n, act), act \notin JointActs, act # "RESOLVE_TRIAGE",
           act = "REQUEST_CANCEL" => d.graph = "CANCELLED" /\ d.agg["ep"].state # "PAUSED",
           r /\ act = "RESUME" => d.agg["ep"].state # "PAUSED"
    PROVE  /\ Sound(DispatchAll(d, S, act), r)
           /\ DispatchAll(d, S, act).graph = d.graph /\ DispatchAll(d, S, act).cyc = d.cyc
           /\ DispatchAll(d, S, act).agg["wf"] = d.agg["wf"] /\ DispatchAll(d, S, act).agg["ep"] = d.agg["ep"]
<1> DEFINE D == DispatchAll(d, S, act)
<1>1. IsDatabase(d) /\ S \in SUBSET Aggregates
  BY Names DEF Sound
<1>2. IsDatabase(D) /\ Dispatched(d, D, S, act) /\ D.cyc = d.cyc /\ D.graph = d.graph
  BY <1>1, DispatchShape
<1> HIDE DEF D
<1>3. \A a \in Aggregates : D.agg[a] = IF a \in S THEN Moved(d, a, act) ELSE d.agg[a]
  BY <1>2 DEF Dispatched
<1>4. ASSUME NEW n \in Nodes PROVE NodePart(D.agg[n], D.cyc[n], d.graph, r)
  <2>1. NodePart(d.agg[n], d.cyc[n], d.graph, r)
    BY DEF Sound
  <2>2. CASE n \notin S
    BY <1>2, <1>3, <2>1, <2>2, Names
  <2>3. CASE n \in S
    <3> DEFINE x == d.agg[n]
               y == Moved(d, n, act)
               out == NodeStep[<<d.agg[n].state, act>>][4]
               c == d.cyc[n]
               g == d.graph
    <3>1. NodeMove(x, act, y, out)
      BY <2>3, NodeMoves
    <3>2. D.agg[n] = y /\ D.cyc[n] = c
      BY <1>2, <1>3, <2>3, Names
    <3>3. NodePart(x, c, g, r) /\ (act = "REQUEST_CANCEL" => g = "CANCELLED")
      BY <2>1
    <3> HIDE DEF x, y, out, c, g
    <3>4. NodePart(y, c, g, r)
      BY <3>1, <3>3, NodeMoveKeeps
    <3> QED BY <3>2, <3>4 DEF g
  <2> QED BY <2>2, <2>3
<1>5. /\ \A n \in Nodes : d.cyc[n].state = "ACCEPTED" => D.cyc[n].state = "ACCEPTED"
      /\ D.cyc[Sink].state = "ACCEPTED" => \A n \in Nodes : D.cyc[n].state = "ACCEPTED"
  BY <1>2 DEF Sound, CheckPart
<1>6. act # "START_REVIEW"
  BY DEF JointActs
<1>7. Sound(D, r)
  BY <1>2, <1>4, <1>5, <1>6, NodesChange
<1>8. D.agg["wf"] = d.agg["wf"] /\ D.agg["ep"] = d.agg["ep"]
  BY <1>3, Names
<1> QED BY <1>2, <1>7, <1>8 DEF D

LEMMA OneCycle ==
    ASSUME NEW d, IsDatabase(d), NEW n \in Nodes, NEW c, IsCycle(c)
    PROVE  LET E == [d EXCEPT !.cyc[n] = c] IN
           /\ IsDatabase(E) /\ E.agg = d.agg /\ E.fx = d.fx /\ E.graph = d.graph
           /\ E.restart = d.restart /\ E.replacement = d.replacement
           /\ E.cyc[n] = c /\ \A m \in Nodes \ {n} : E.cyc[m] = d.cyc[m]
<1> DEFINE E == [d EXCEPT !.cyc[n] = c]
           cyc2 == [d.cyc EXCEPT ![n] = c]
<1>1. E = [d EXCEPT !.cyc = cyc2]
  OBVIOUS
<1>2. d.cyc = [m \in Nodes |-> d.cyc[m]] /\ \A m \in Nodes : IsCycle(d.cyc[m])
  BY DEF IsDatabase
<1>3. cyc2[n] = c /\ \A m \in Nodes \ {n} : cyc2[m] = d.cyc[m]
  BY <1>2
<1>4. cyc2 = [m \in Nodes |-> cyc2[m]]
  BY <1>2
<1>5. IsCycleMap(cyc2)
  BY <1>2, <1>3, <1>4 DEF IsCycleMap
<1> HIDE DEF E, cyc2
<1>6. Recycled(d, E, cyc2, d.graph)
  BY <1>1, GraphStays
<1>7. /\ IsDatabase(E) /\ E.agg = d.agg /\ E.fx = d.fx /\ E.cyc = cyc2 /\ E.graph = d.graph
      /\ E.restart = d.restart /\ E.replacement = d.replacement
  BY <1>5, <1>6, CycleUpdate
<1> QED BY <1>3, <1>7 DEF E

\* One node and its cycle move together.
LEMMA JointStep ==
    ASSUME NEW d, NEW D, NEW r \in BOOLEAN, NEW q \in BOOLEAN, q => r, NEW n \in Nodes, NEW act, NEW c,
           Sound(d, r), Legal(d, n, act), NodePart(Moved(d, n, act), c, d.graph, q),
           IsDatabase(D), Dispatched(d, D, {n}, act), D.graph = d.graph,
           D.cyc[n] = c, \A m \in Nodes \ {n} : D.cyc[m] = d.cyc[m],
           c.state = "ACCEPTED" => d.agg[n].state \in CheckedNode,
           q /\ act \in {"RESUME", "REQUEST_CANCEL", "RESOLVE_TRIAGE"} => d.agg["ep"].state # "PAUSED",
           act = "START_REVIEW" => \A m \in CheckerDeps[n] : d.cyc[m].state = "ACCEPTED"
    PROVE  Sound(D, q)
<1>1. /\ \A m \in Nodes : NodePart(d.agg[m], d.cyc[m], d.graph, r)
      /\ CheckPart(d)
  BY DEF Sound
<1>2. d.agg[n].state \notin {"ACCEPTED", "CANCELLED"}
  <2>1. NodeShape(d.agg[n])
    BY <1>1 DEF NodePart
  <2>2. NodeMove(d.agg[n], act, Moved(d, n, act), NodeStep[<<d.agg[n].state, act>>][4])
    BY NodeMoves
  <2> QED BY <2>1, <2>2, NodeMoveFacts
<1>3. d.cyc[n].state # "ACCEPTED"
  BY <1>1, <1>2 DEF NodePart, SlotPart
<1>4. D.agg[n] = Moved(d, n, act) /\ \A m \in Nodes \ {n} : D.agg[m] = d.agg[m]
  BY Names DEF Dispatched
<1>5. ASSUME NEW m \in Nodes PROVE NodePart(D.agg[m], D.cyc[m], d.graph, q)
  <2>1. CASE m = n
    BY <1>4, <2>1
  <2>2. CASE m # n
    <3>1. NodePart(d.agg[m], d.cyc[m], d.graph, q)
      BY <1>1 DEF NodePart
    <3> QED BY <1>4, <2>2, <3>1
  <2> QED BY <2>1, <2>2
<1>6. \A m \in Nodes : d.cyc[m].state = "ACCEPTED" => D.cyc[m].state = "ACCEPTED"
  BY <1>3
<1>7. ASSUME D.cyc[Sink].state = "ACCEPTED" PROVE \A m \in Nodes : D.cyc[m].state = "ACCEPTED"
  <2>1. CASE n = Sink
    <3>1. d.agg[n].state \in CheckedNode
      BY <1>7, <2>1
    <3>2. {d.agg[n].state, d.agg[n].resume, d.agg[n].triage} \cap CheckedNode # {}
      BY <3>1
    <3>3. \A m \in CheckerDeps[Sink] : d.cyc[m].state = "ACCEPTED"
      BY <1>1, <2>1, <3>2 DEF CheckPart
    <3>4. CheckerDeps[Sink] = Nodes \ {Sink}
      BY GraphAssumption
    <3> QED BY <1>6, <1>7, <2>1, <3>3, <3>4
  <2>2. CASE n # Sink
    BY <1>1, <1>3, <1>7, <2>2, Names DEF CheckPart
  <2> QED BY <2>1, <2>2
<1>8. {n} \in SUBSET Nodes /\ (\A m \in {n} : Legal(d, m, act))
      /\ (act = "START_REVIEW" => \A k \in {n} : \A m \in CheckerDeps[k] : d.cyc[m].state = "ACCEPTED")
  OBVIOUS
<1> QED BY <1>5, <1>6, <1>7, <1>8, NodesChange

\* The conditions under which an action of node n may make its cycle c.
JointSide(d, n, act, c, q) ==
    /\ Legal(d, n, act) /\ NodePart(Moved(d, n, act), c, d.graph, q)
    /\ c.state = "ACCEPTED" => d.agg[n].state \in CheckedNode
    /\ q /\ act \in {"RESUME", "REQUEST_CANCEL", "RESOLVE_TRIAGE"} => d.agg["ep"].state # "PAUSED"
    /\ act = "START_REVIEW" => \A m \in CheckerDeps[n] : d.cyc[m].state = "ACCEPTED"

LEMMA JointMove ==
    ASSUME NEW d, NEW r \in BOOLEAN, NEW q \in BOOLEAN, q => r, NEW n \in Nodes, NEW act, NEW c,
           Sound(d, r), IsCycle(c), JointSide(d, n, act, c, q)
    PROVE  Sound(WithCycle(Dispatch(d, n, act), n, c), q)
<1> DEFINE b == Dispatch(d, n, act)
           D == [b EXCEPT !.cyc[n] = c]
<1>1. IsDatabase(d) /\ {n} \in SUBSET Aggregates
  BY Names DEF Sound
<1>2. IsDatabase(b) /\ Dispatched(d, b, {n}, act) /\ b.cyc = d.cyc /\ b.graph = d.graph
  BY <1>1, DispatchShape DEF Dispatch
<1> HIDE DEF b
<1>3. /\ IsDatabase(D) /\ D.agg = b.agg /\ D.fx = b.fx /\ D.graph = b.graph
      /\ D.restart = b.restart /\ D.replacement = b.replacement
      /\ D.cyc[n] = c /\ \A m \in Nodes \ {n} : D.cyc[m] = b.cyc[m]
  BY <1>2, OneCycle
<1>4. WithCycle(b, n, c) = Refresh(D)
  BY DEF WithCycle
<1> HIDE DEF D
<1>5. Dispatched(d, D, {n}, act)
  BY <1>2, <1>3 DEF Dispatched
<1>6. D.graph = d.graph /\ \A m \in Nodes \ {n} : D.cyc[m] = d.cyc[m]
  BY <1>2, <1>3
<1>7. Sound(D, q)
  BY <1>3, <1>5, <1>6, JointStep DEF JointSide
<1>8. Sound(Refresh(D), q)
  BY <1>7, RefreshSound
<1> QED BY <1>4, <1>8 DEF b

LEMMA JointStay ==
    ASSUME NEW d, NEW r \in BOOLEAN, NEW q \in BOOLEAN, q => r, NEW n \in Nodes, NEW act,
           Sound(d, r), JointSide(d, n, act, d.cyc[n], q)
    PROVE  Sound(Dispatch(d, n, act), q)
<1> DEFINE D == Dispatch(d, n, act)
<1>1. IsDatabase(d) /\ {n} \in SUBSET Aggregates
  BY Names DEF Sound
<1>2. IsDatabase(D) /\ Dispatched(d, D, {n}, act) /\ D.cyc = d.cyc /\ D.graph = d.graph
  BY <1>1, DispatchShape DEF Dispatch
<1> HIDE DEF D
<1>3. D.cyc[n] = d.cyc[n] /\ \A m \in Nodes \ {n} : D.cyc[m] = d.cyc[m]
  BY <1>2
<1>4. Sound(D, q)
  BY <1>2, <1>3, JointStep DEF JointSide
<1> QED BY <1>4 DEF D

-----------------------------------------------------------------------------
(* The handlers of a node                                                    *)

LEMMA PlainMove ==
    ASSUME NEW x, NEW act, NEW y, NEW out, NodeShape(x), NodeMove(x, act, y, out),
           act \in {"START_PRODUCING", "START_REPAIR", "START_REVIEW", "CANDIDATE_SNAPSHOTTED", "REVIEW_PASSED",
                    "REVIEW_FAILED", "VERIFICATION_DEFECT", "CANCEL_CONFIRMED", "PAUSE_CONFIRMED"}
    PROVE  /\ <<act, x.state, y.state>> \in
                  {<<"START_PRODUCING", "QUEUED", "PRODUCING">>, <<"START_REPAIR", "REPAIR_QUEUED", "REPAIRING">>,
                   <<"START_REVIEW", "REVIEW_QUEUED", "REVIEWING">>,
                   <<"CANDIDATE_SNAPSHOTTED", "SNAPSHOTTING", "REVIEW_BLOCKED_BY_DEPS">>,
                   <<"REVIEW_PASSED", "REVIEW_SNAPSHOTTING", "ACCEPTED">>,
                   <<"REVIEW_FAILED", "REVIEW_SNAPSHOTTING", "REPAIR_QUEUED">>,
                   <<"VERIFICATION_DEFECT", "REVIEW_SNAPSHOTTING", "REVIEW_QUEUED">>,
                   <<"CANCEL_CONFIRMED", "CANCEL_REQUESTED", "CANCELLED">>,
                   <<"PAUSE_CONFIRMED", "PAUSE_REQUESTED", "PAUSED">>}
           /\ y.resume = x.resume /\ y.triage = "none" /\ x.triage = "none" /\ NodeShape(y)
<1>1. <<x.state, act, y.state, out>> \in PlainRows /\ y.resume = x.resume /\ y.triage = x.triage
  BY DEF NodeMove
<1>2. NodeShape(y)
  BY NodeMoveShape
<1>3. x.triage = "none"
  BY <1>1 DEF PlainRows, NodeShape
<1> QED BY <1>1, <1>2, <1>3 DEF PlainRows

LEMMA JointPart ==
    ASSUME NEW x, NEW act, NEW y, NEW out, NEW c, NEW e, NEW g, NEW r \in BOOLEAN,
           NodePart(x, c, g, r), NodeMove(x, act, y, out), e.resume = c.resume,
           g # "CANCELLED",
           \/ act \in {"START_PRODUCING", "START_REPAIR"} /\ e.state = "PRODUCING" /\ e.busy = TRUE
           \/ act = "START_REVIEW" /\ e.state = "CHECKING" /\ e.busy = TRUE
           \/ act = "CANDIDATE_SNAPSHOTTED" /\ e.state = "CHECKER_READY" /\ e.busy = FALSE
           \/ act = "REVIEW_PASSED" /\ e.state = "ACCEPTED" /\ e.busy = FALSE
           \/ act = "REVIEW_FAILED" /\ e.state = "REPAIR_READY" /\ e.busy = FALSE
           \/ act = "VERIFICATION_DEFECT" /\ e.state = "CHECKER_READY" /\ e.busy = FALSE
    PROVE  NodePart(y, e, g, r)
<1>1. NodeShape(x) /\ CycleShape(c)
  BY DEF NodePart
<1>2. /\ <<act, x.state, y.state>> \in
                  {<<"START_PRODUCING", "QUEUED", "PRODUCING">>, <<"START_REPAIR", "REPAIR_QUEUED", "REPAIRING">>,
                   <<"START_REVIEW", "REVIEW_QUEUED", "REVIEWING">>,
                   <<"CANDIDATE_SNAPSHOTTED", "SNAPSHOTTING", "REVIEW_BLOCKED_BY_DEPS">>,
                   <<"REVIEW_PASSED", "REVIEW_SNAPSHOTTING", "ACCEPTED">>,
                   <<"REVIEW_FAILED", "REVIEW_SNAPSHOTTING", "REPAIR_QUEUED">>,
                   <<"VERIFICATION_DEFECT", "REVIEW_SNAPSHOTTING", "REVIEW_QUEUED">>,
                   <<"CANCEL_CONFIRMED", "CANCEL_REQUESTED", "CANCELLED">>,
                   <<"PAUSE_CONFIRMED", "PAUSE_REQUESTED", "PAUSED">>}
      /\ y.resume = x.resume /\ y.triage = "none" /\ x.triage = "none" /\ NodeShape(y)
  BY <1>1, PlainMove
<1>3. CycleShape(e)
  BY <1>1 DEF CycleShape, CycleStates
<1>4. SlotPart(y, e)
  BY <1>2 DEF SlotPart, RunningNode
<1>5. CancelPart(y, e, g)
  BY <1>2 DEF CancelPart
<1>6. CandidatePart(y, e)
  BY <1>2 DEF CandidatePart, Phase, ReviewNode, BeforeCandidate
<1> QED BY <1>2, <1>3, <1>4, <1>5, <1>6 DEF NodePart

LEMMA AdmitSound ==
    ASSUME NEW d, NEW r \in BOOLEAN, Sound(d, r), NEW n \in Nodes, NEW act, NEW slot,
           <<act, slot>> \in {<<"START_PRODUCING", "producer">>, <<"START_REPAIR", "producer">>,
                              <<"START_REVIEW", "checker">>},
           NEW D \in Admit(d, n, act, slot)
    PROVE  Sound(D, r)
<1> DEFINE b == Dispatch(d, n, act)
           c == d.cyc[n]
           t == IF slot = "checker" THEN "CHECKING" ELSE "PRODUCING"
           e == [c EXCEPT !.state = t, !.busy = TRUE]
           x == d.agg[n]
           y == Moved(d, n, act)
           out == NodeStep[<<d.agg[n].state, act>>][4]
<1>1. Legal(d, n, act) /\ CanStart(d, n, slot) /\ D = StartCycle(b, n, slot)
  BY DEF Admit
<1>2. IsDatabase(d) /\ {n} \in SUBSET Aggregates /\ IsCycle(c) /\ NodePart(x, c, d.graph, r)
  BY Names DEF Sound, IsDatabase
<1>3. b.cyc = d.cyc
  BY <1>2, DispatchShape DEF Dispatch
<1>4. D = WithCycle(b, n, e)
  BY <1>1, <1>3 DEF StartCycle
<1>5. d.graph = "RUNNING" /\ (act = "START_REVIEW" => \A m \in CheckerDeps[n] : d.cyc[m].state = "ACCEPTED")
  BY <1>1 DEF CanStart
<1>6. NodeMove(x, act, y, out)
  BY <1>1, NodeMoves
<1> HIDE DEF b, c, x, y, out
<1>7. e = [state |-> t, resume |-> c.resume, busy |-> TRUE]
  BY <1>2, CycleEdits
<1> HIDE DEF e
<1>8. e.state = t /\ e.resume = c.resume /\ e.busy = TRUE
  BY <1>7
<1>9. IsCycle(e)
  BY <1>7, <1>8 DEF IsCycle
<1>10. \/ act \in {"START_PRODUCING", "START_REPAIR"} /\ e.state = "PRODUCING" /\ e.busy = TRUE
       \/ act = "START_REVIEW" /\ e.state = "CHECKING" /\ e.busy = TRUE
  BY <1>8
<1>11. NodePart(y, e, d.graph, r)
  BY <1>2, <1>5, <1>6, <1>8, <1>10, JointPart
<1>12. JointSide(d, n, act, e, r)
  BY <1>1, <1>5, <1>10, <1>11 DEF JointSide, y
<1> QED BY <1>4, <1>9, <1>12, JointMove DEF b

\* A role's end: the cycle of node n leaves its running state for st.
LEMMA EndSound ==
    ASSUME NEW d, NEW r \in BOOLEAN, Sound(d, r), NEW n \in Nodes, NEW act, NEW st,
           <<act, st>> \in {<<"CANDIDATE_SNAPSHOTTED", "CHECKER_READY">>, <<"REVIEW_PASSED", "ACCEPTED">>,
                            <<"REVIEW_FAILED", "REPAIR_READY">>, <<"VERIFICATION_DEFECT", "CHECKER_READY">>},
           Legal(d, n, act), d.cyc[n].state \in {"PRODUCING", "CHECKING"}
    PROVE  Sound(EndCycle(Dispatch(d, n, act), n, st), r)
<1> DEFINE b == Dispatch(d, n, act)
           c == d.cyc[n]
           e == [c EXCEPT !.state = st, !.busy = FALSE]
           x == d.agg[n]
           y == Moved(d, n, act)
           out == NodeStep[<<d.agg[n].state, act>>][4]
<1>2. IsDatabase(d) /\ {n} \in SUBSET Aggregates /\ IsCycle(c) /\ NodePart(x, c, d.graph, r)
  BY Names DEF Sound, IsDatabase
<1>3. b.cyc = d.cyc
  BY <1>2, DispatchShape DEF Dispatch
<1>4. EndCycle(b, n, st) = WithCycle(b, n, e)
  BY <1>3 DEF EndCycle
<1>5. d.graph # "CANCELLED"
  BY <1>2 DEF NodePart, CancelPart
<1>6. NodeMove(x, act, y, out)
  BY NodeMoves
<1> HIDE DEF b, c, x, y, out
<1>7. e = [state |-> st, resume |-> c.resume, busy |-> FALSE]
  BY <1>2, CycleEdits
<1> HIDE DEF e
<1>8. e.state = st /\ e.resume = c.resume /\ e.busy = FALSE
  BY <1>7
<1>9. IsCycle(e)
  BY <1>7, <1>8 DEF IsCycle
<1>10. \/ act = "CANDIDATE_SNAPSHOTTED" /\ e.state = "CHECKER_READY" /\ e.busy = FALSE
       \/ act = "REVIEW_PASSED" /\ e.state = "ACCEPTED" /\ e.busy = FALSE
       \/ act = "REVIEW_FAILED" /\ e.state = "REPAIR_READY" /\ e.busy = FALSE
       \/ act = "VERIFICATION_DEFECT" /\ e.state = "CHECKER_READY" /\ e.busy = FALSE
  BY <1>8
<1>11. NodePart(y, e, d.graph, r)
  BY <1>2, <1>5, <1>6, <1>8, <1>10, JointPart
<1>12. act = "REVIEW_PASSED" => x.state = "REVIEW_SNAPSHOTTING"
  BY <1>2, <1>6, PlainMove DEF NodePart
<1>13. JointSide(d, n, act, e, r)
  BY <1>10, <1>11, <1>12 DEF JointSide, x, y, CheckedNode
<1> QED BY <1>4, <1>9, <1>13, JointMove DEF b

LEMMA NodeLegal ==
    ASSUME NEW d, NEW n \in Nodes
    PROVE  /\ d.agg[n].state = "SNAPSHOTTING" => Legal(d, n, "CANDIDATE_SNAPSHOTTED")
           /\ d.agg[n].state = "REVIEW_SNAPSHOTTING" =>
                  Legal(d, n, "REVIEW_PASSED") /\ Legal(d, n, "REVIEW_FAILED") /\ Legal(d, n, "VERIFICATION_DEFECT")
           /\ d.agg[n].state \in {"PRODUCING", "REPAIRING"} => Legal(d, n, "SUBMIT_CANDIDATE")
           /\ d.agg[n].state = "REVIEWING" => Legal(d, n, "SUBMIT_SEMANTIC_VERIFICATION")
           /\ d.agg[n].state = "QUIESCING" => Legal(d, n, "QUIESCE_COMPLETED")
           /\ d.agg[n].state = "REVIEW_QUIESCING" => Legal(d, n, "VERIFIER_QUIESCED")
           /\ d.agg[n].state = "PAUSED" => Legal(d, n, "RESUME")
           /\ d.agg[n].state = "BLOCKED_BY_DEPS" => Legal(d, n, "DEPENDENCIES_ACCEPTED")
           /\ d.agg[n].state = "REVIEW_BLOCKED_BY_DEPS" => Legal(d, n, "VERIFICATION_DEPENDENCIES_ACCEPTED")
           /\ d.agg[n].state \in NodeStates \ {"ACCEPTED", "CANCELLED", "PAUSED"} => Legal(d, n, "ENTER_TRIAGE")
<1> DEFINE st == d.agg[n].state
           Row(act, to, fx) == <<st, act, to, fx>> \in NodeRows
<1>1. ASSUME NEW act, NEW to, NEW fx, Row(act, to, fx) PROVE Legal(d, n, act)
  <2> DEFINE row == <<st, act, to, fx>>
  <2>1. row \in NodeRows /\ row[1] = st /\ row[2] = act
    BY <1>1
  <2> HIDE DEF row
  <2>2. <<st, act>> \in DOMAIN Indexed(NodeRows)
    BY <2>1, LegalRow
  <2> QED BY <2>2, Names DEF Legal, NodeStep
<1> HIDE DEF st
<1>2. /\ st = "SNAPSHOTTING" => Row("CANDIDATE_SNAPSHOTTED", "REVIEW_BLOCKED_BY_DEPS", {"schedule"})
      /\ st = "REVIEW_SNAPSHOTTING" => /\ Row("REVIEW_PASSED", "ACCEPTED", {"node_accepted"})
                                       /\ Row("REVIEW_FAILED", "REPAIR_QUEUED", {"admit_repair"})
                                       /\ Row("VERIFICATION_DEFECT", "REVIEW_QUEUED", {"admit_review"})
      /\ st \in {"PRODUCING", "REPAIRING"} => Row("SUBMIT_CANDIDATE", "QUIESCING", {"quiesce"})
      /\ st = "REVIEWING" => Row("SUBMIT_SEMANTIC_VERIFICATION", "REVIEW_QUIESCING", {"quiesce_review"})
      /\ st = "QUIESCING" => Row("QUIESCE_COMPLETED", "SNAPSHOTTING", {"snapshot"})
      /\ st = "REVIEW_QUIESCING" => Row("VERIFIER_QUIESCED", "REVIEW_SNAPSHOTTING", {"snapshot_review"})
      /\ st = "PAUSED" => Row("RESUME", "*resume", {"resume_role", "schedule"})
      /\ st = "BLOCKED_BY_DEPS" => Row("DEPENDENCIES_ACCEPTED", "QUEUED", {"admit_produce"})
      /\ st = "REVIEW_BLOCKED_BY_DEPS" => Row("VERIFICATION_DEPENDENCIES_ACCEPTED", "REVIEW_QUEUED", {"admit_review"})
  BY DEF NodeRows
<1>3. /\ st \in PausableNode \cup CandidateNode => Row("ENTER_TRIAGE", "TRIAGE_REQUIRED", {"park_role"})
      /\ st \in {"PAUSE_REQUESTED", "CANCEL_REQUESTED"} => Row("ENTER_TRIAGE", "TRIAGE_REQUIRED", {})
      /\ st = "TRIAGE_REQUIRED" => Row("ENTER_TRIAGE", "TRIAGE_REQUIRED", {})
  BY DEF NodeRows
<1>4. st \in NodeStates \ {"ACCEPTED", "CANCELLED", "PAUSED"} =>
          st \in PausableNode \cup CandidateNode \cup {"PAUSE_REQUESTED", "CANCEL_REQUESTED", "TRIAGE_REQUIRED"}
  BY DEF NodeStates
<1> HIDE DEF Row
<1>5. st \in NodeStates \ {"ACCEPTED", "CANCELLED", "PAUSED"} => Legal(d, n, "ENTER_TRIAGE")
  BY <1>1, <1>3, <1>4
<1> QED BY <1>1, <1>2, <1>5 DEF st

LEMMA MoveNode ==
    ASSUME NEW d, NEW r \in BOOLEAN, Sound(d, r), NEW n \in Nodes, NEW act, Legal(d, n, act),
           act \notin JointActs \cup {"RESOLVE_TRIAGE", "REQUEST_CANCEL", "RESUME"}
    PROVE  Sound(Dispatch(d, n, act), r)
<1>1. {n} \in SUBSET Nodes /\ \A m \in {n} : Legal(d, m, act)
  OBVIOUS
<1> QED BY <1>1, MoveNodes DEF Dispatch

LEMMA AdvanceSound ==
    ASSUME NEW d, NEW r \in BOOLEAN, Sound(d, r), NEW n \in Nodes, NEW from, NEW act,
           <<from, act>> \in {<<"PRODUCING", "SUBMIT_CANDIDATE">>, <<"REPAIRING", "SUBMIT_CANDIDATE">>,
                              <<"REVIEWING", "SUBMIT_SEMANTIC_VERIFICATION">>, <<"QUIESCING", "QUIESCE_COMPLETED">>,
                              <<"REVIEW_QUIESCING", "VERIFIER_QUIESCED">>},
           NEW D \in Advance(d, n, from, act)
    PROVE  Sound(D, r)
<1>1. d.agg[n].state = from /\ D = Dispatch(d, n, act)
  BY DEF Advance
<1>2. Legal(d, n, act)
  BY <1>1, NodeLegal
<1>3. act \notin JointActs \cup {"RESOLVE_TRIAGE", "REQUEST_CANCEL", "RESUME"}
  BY DEF JointActs
<1> QED BY <1>1, <1>2, <1>3, MoveNode

LEMMA SnapshotSound ==
    ASSUME NEW d, NEW r \in BOOLEAN, Sound(d, r), NEW n \in Nodes, NEW D \in Snapshot(d, n)
    PROVE  Sound(D, r)
<1>1. /\ d.agg[n].state = "SNAPSHOTTING" /\ d.cyc[n].state = "PRODUCING"
      /\ D = EndCycle(Dispatch(d, n, "CANDIDATE_SNAPSHOTTED"), n, "CHECKER_READY")
  BY DEF Snapshot
<1>2. Legal(d, n, "CANDIDATE_SNAPSHOTTED")
  BY <1>1, NodeLegal
<1> QED BY <1>1, <1>2, EndSound

\* The count of rejections is no part of Sound.
LEMMA RejectSound ==
    ASSUME NEW d, NEW r \in BOOLEAN, Sound(d, r), NEW v
    PROVE  LET D == [d EXCEPT !.rejections = v] IN Sound(D, r) /\ D.agg = d.agg /\ D.cyc = d.cyc
<1> DEFINE D == [d EXCEPT !.rejections = v]
<1>1. d = [agg |-> d.agg, cyc |-> d.cyc, graph |-> d.graph, fx |-> d.fx, restart |-> d.restart,
           replacement |-> d.replacement, rejections |-> d.rejections]
  BY DEF Sound, IsDatabase
<1>2. D = [agg |-> d.agg, cyc |-> d.cyc, graph |-> d.graph, fx |-> d.fx, restart |-> d.restart,
           replacement |-> d.replacement, rejections |-> v]
  BY <1>1
<1> HIDE DEF D
<1>3. /\ D.agg = d.agg /\ D.fx = d.fx /\ D.cyc = d.cyc /\ D.graph = d.graph
      /\ D.restart = d.restart /\ D.replacement = d.replacement /\ D.rejections = v
  BY <1>2
<1>4. IsDatabase(D)
  BY <1>2, <1>3 DEF Sound, IsDatabase
<1>5. ParentPart(d.agg["wf"], d.agg["ep"], D.graph, r)
  BY <1>3 DEF Sound
<1>6. \A n \in Nodes : NodePart(d.agg[n], D.cyc[n], D.graph, r)
  BY <1>3 DEF Sound
<1>7. D.graph = "COMPLETED" => D.cyc[Sink].state = "ACCEPTED"
  BY <1>3 DEF Sound, CheckPart
<1>8. \A n \in Nodes : D.cyc[n].state = "ACCEPTED" <=> d.cyc[n].state = "ACCEPTED"
  BY <1>3
<1>9. Sound(D, r)
  BY <1>3, <1>4, <1>5, <1>6, <1>7, <1>8, SoundCycles
<1> QED BY <1>3, <1>9 DEF D

LEMMA CommitSound ==
    ASSUME NEW d, NEW r \in BOOLEAN, Sound(d, r), NEW n \in Nodes, NEW D \in Commit(d, n)
    PROVE  Sound(D, r)
<1> DEFINE b == [d EXCEPT !.rejections = @ + 1]
<1>1. d.agg[n].state = "REVIEW_SNAPSHOTTING" /\ d.cyc[n].state = "CHECKING"
  BY DEF Commit
<1>2. \/ D = EndCycle(Dispatch(d, n, "REVIEW_PASSED"), n, "ACCEPTED")
      \/ D = EndCycle(Dispatch(b, n, "REVIEW_FAILED"), n, "REPAIR_READY")
      \/ D = EndCycle(Dispatch(b, n, "VERIFICATION_DEFECT"), n, "CHECKER_READY")
  BY <1>1 DEF Commit
<1>3. Sound(b, r) /\ b.agg = d.agg /\ b.cyc = d.cyc
  <2> DEFINE v == d.rejections + 1
  <2>1. b = [d EXCEPT !.rejections = v]
    OBVIOUS
  <2> HIDE DEF v, b
  <2> QED BY <2>1, RejectSound
<1> HIDE DEF b
<1>4. Legal(d, n, "REVIEW_PASSED") /\ Legal(b, n, "REVIEW_FAILED") /\ Legal(b, n, "VERIFICATION_DEFECT")
  BY <1>1, <1>3, NodeLegal
<1>5. Sound(EndCycle(Dispatch(d, n, "REVIEW_PASSED"), n, "ACCEPTED"), r)
  BY <1>1, <1>4, EndSound
<1>6. Sound(EndCycle(Dispatch(b, n, "REVIEW_FAILED"), n, "REPAIR_READY"), r)
  BY <1>1, <1>3, <1>4, EndSound
<1>7. Sound(EndCycle(Dispatch(b, n, "VERIFICATION_DEFECT"), n, "CHECKER_READY"), r)
  BY <1>1, <1>3, <1>4, EndSound
<1> QED BY <1>2, <1>5, <1>6, <1>7

LEMMA StopPart ==
    ASSUME NEW x, NEW act, NEW y, NEW out, NEW c, NEW g, NEW r \in BOOLEAN, NEW cancel \in BOOLEAN,
           NodePart(x, c, g, r), NodeMove(x, act, y, out), IsCycle(c),
           act = IF cancel THEN "CANCEL_CONFIRMED" ELSE "PAUSE_CONFIRMED"
    PROVE  NodePart(y, ConfirmCycle(c, cancel), g, r)
<1> DEFINE e == ConfirmCycle(c, cancel)
<1>1. NodeShape(x) /\ CycleShape(c) /\ SlotPart(x, c) /\ CancelPart(x, c, g)
  BY DEF NodePart
<1>2. CASE cancel
  <2>1. x.state = "CANCEL_REQUESTED" /\ y.state = "CANCELLED" /\ y.resume = x.resume /\ y.triage = "none"
        /\ x.triage = "none" /\ NodeShape(y)
    BY <1>1, <1>2, PlainMove
  <2>2. \/ c.state # "CANCEL_REQUESTED" /\ e = c
        \/ c.state = "CANCEL_REQUESTED" /\ e.state = "CANCELLED" /\ e.busy = FALSE /\ e.resume = "none"
    BY <1>2, ConfirmedCycle
  <2> HIDE DEF e
  <2>3. g = "CANCELLED" /\ c.state # "ACCEPTED"
    BY <1>1, <2>1 DEF CancelPart, SlotPart
  <2>4. /\ e.state \in {"CANCELLED", "TRIAGE_REQUIRED"} /\ ~e.busy
        /\ e.state = "TRIAGE_REQUIRED" => e.resume = "CANCEL_REQUESTED"
        /\ e.resume \in (CycleStates \cup {"none"}) \ {"ACCEPTED", "PRODUCING", "CHECKING"}
    BY <1>1, <2>2, <2>3 DEF CancelPart, CycleShape
  <2>5. CycleShape(e)
    BY <2>4 DEF CycleShape, CycleStates
  <2>6. SlotPart(y, e)
    BY <2>1, <2>4 DEF SlotPart, RunningNode
  <2>7. CancelPart(y, e, g)
    BY <2>1, <2>3, <2>4 DEF CancelPart
  <2>8. CandidatePart(y, e)
    BY <2>1 DEF CandidatePart, Phase, ReviewNode
  <2> QED BY <2>1, <2>5, <2>6, <2>7, <2>8 DEF NodePart, e
<1>3. CASE ~cancel
  <2>1. act = "PAUSE_CONFIRMED" /\ act \notin JointActs
    BY <1>3 DEF JointActs
  <2>2. NodePart(y, c, g, r)
    BY <2>1, NodeMoveKeeps
  <2>3. y.state = "PAUSED"
    BY <1>1, <2>1, PlainMove
  <2> QED BY <1>3, <2>2, <2>3, ConfirmKeeps
<1> QED BY <1>2, <1>3

LEMMA StopSound ==
    ASSUME NEW d, NEW r \in BOOLEAN, Sound(d, r), NEW n \in Nodes, NEW cancel \in BOOLEAN,
           NEW D \in StopRole(d, n, cancel)
    PROVE  Sound(D, r)
<1> DEFINE act == IF cancel THEN "CANCEL_CONFIRMED" ELSE "PAUSE_CONFIRMED"
           b == Dispatch(d, n, act)
           c == d.cyc[n]
           e == ConfirmCycle(c, cancel)
           x == d.agg[n]
           y == Moved(d, n, act)
           out == NodeStep[<<d.agg[n].state, act>>][4]
<1>1. IsDatabase(d) /\ {n} \in SUBSET Aggregates /\ IsCycle(c) /\ NodePart(x, c, d.graph, r)
  BY Names DEF Sound, IsDatabase
<1>2. b.cyc = d.cyc
  BY <1>1, DispatchShape DEF Dispatch
<1>3. (act = "CANCEL_CONFIRMED") = cancel
  BY Zenon
<1>4. Legal(d, n, act) /\ D = IF e = c THEN b ELSE WithCycle(b, n, e)
  BY <1>2, <1>3 DEF StopRole
<1>5. NodeMove(x, act, y, out)
  BY <1>4, NodeMoves
<1>6. act = IF cancel THEN "CANCEL_CONFIRMED" ELSE "PAUSE_CONFIRMED"
  OBVIOUS
<1> HIDE DEF b, c, x, y, out, act
<1>7. IsCycle(e)
  BY <1>1, ConfirmedCycle
<1>8. NodePart(y, e, d.graph, r)
  BY <1>1, <1>5, <1>6, StopPart
<1>9. e.state # "ACCEPTED"
  <2>1. c.state # "ACCEPTED"
    <3>1. x.state # "ACCEPTED"
      BY <1>1, <1>5, NodeMoveFacts DEF NodePart
    <3> QED BY <1>1, <3>1 DEF NodePart, SlotPart
  <2> QED BY <1>1, <2>1, ConfirmedCycle
<1> HIDE DEF e
<1>10. JointSide(d, n, act, e, r)
  BY <1>4, <1>6, <1>8, <1>9 DEF JointSide, y
<1>11. CASE e = c
  <2>1. Sound(b, r)
    BY <1>10, <1>11, JointStay DEF b, c
  <2> QED BY <1>4, <1>11, <2>1
<1>12. CASE e # c
  <2>1. Sound(WithCycle(b, n, e), r)
    BY <1>7, <1>10, JointMove DEF b
  <2> QED BY <1>4, <1>12, <2>1
<1> QED BY <1>11, <1>12

LEMMA ResumeRoleSound ==
    ASSUME NEW d, NEW r \in BOOLEAN, Sound(d, r), NEW n \in Nodes, NEW D \in ResumeRole(d, n)
    PROVE  Sound(D, r)
<1> DEFINE st == d.agg[n].state
<1>1. CASE st = "QUEUED"
  <2>1. D \in Admit(d, n, "START_PRODUCING", "producer")
    BY <1>1 DEF ResumeRole
  <2> QED BY <2>1, AdmitSound
<1>2. CASE st = "REVIEW_QUEUED"
  <2>1. D \in Admit(d, n, "START_REVIEW", "checker")
    BY <1>2 DEF ResumeRole
  <2> QED BY <2>1, AdmitSound
<1>3. CASE st = "REPAIR_QUEUED"
  <2>1. D \in Admit(d, n, "START_REPAIR", "producer")
    BY <1>3 DEF ResumeRole
  <2> QED BY <2>1, AdmitSound
<1>4. CASE st = "QUIESCING"
  <2>1. D \in Advance(d, n, "QUIESCING", "QUIESCE_COMPLETED")
    BY <1>4 DEF ResumeRole
  <2> QED BY <2>1, AdvanceSound
<1>5. CASE st = "SNAPSHOTTING"
  <2>1. D \in Snapshot(d, n)
    BY <1>5 DEF ResumeRole
  <2> QED BY <2>1, SnapshotSound
<1>6. CASE st = "REVIEW_QUIESCING"
  <2>1. D \in Advance(d, n, "REVIEW_QUIESCING", "VERIFIER_QUIESCED")
    BY <1>6 DEF ResumeRole
  <2> QED BY <2>1, AdvanceSound
<1>7. CASE st = "REVIEW_SNAPSHOTTING"
  <2>1. D \in Commit(d, n)
    BY <1>7 DEF ResumeRole
  <2> QED BY <2>1, CommitSound
<1>8. CASE st \notin {"QUEUED", "REVIEW_QUEUED", "REPAIR_QUEUED", "QUIESCING", "SNAPSHOTTING",
                      "REVIEW_QUIESCING", "REVIEW_SNAPSHOTTING"}
  <2>1. D = d
    BY <1>8 DEF ResumeRole
  <2> QED BY <2>1
<1> QED BY <1>1, <1>2, <1>3, <1>4, <1>5, <1>6, <1>7, <1>8

LEMMA ReconcileRoleSound ==
    ASSUME NEW d, NEW r \in BOOLEAN, Sound(d, r), NEW n \in Nodes, NEW D \in ReconcileRole(d, n)
    PROVE  Sound(D, r)
<1>1. D \in StopRole(d, n, FALSE) \/ D \in StopRole(d, n, TRUE) \/ D \in ResumeRole(d, n)
  BY DEF ReconcileRole
<1> QED BY <1>1, StopSound, ResumeRoleSound

LEMMA ScheduleSound ==
    ASSUME NEW d, NEW r \in BOOLEAN, Sound(d, r)
    PROVE  /\ Sound(Schedule(d), r) /\ Schedule(d).graph = d.graph /\ Schedule(d).cyc = d.cyc
           /\ Schedule(d).agg["wf"] = d.agg["wf"] /\ Schedule(d).agg["ep"] = d.agg["ep"]
<1> DEFINE P == ReadyProducers(d)
           C == ReadyCheckers(d)
           pact == "DEPENDENCIES_ACCEPTED"
           cact == "VERIFICATION_DEPENDENCIES_ACCEPTED"
           b == DispatchAll(d, P, pact)
           D == DispatchAll(b, C, cact)
<1>1. CASE d.agg["ep"].state # "RUNNING"
  BY <1>1 DEF Schedule
<1>2. CASE d.agg["ep"].state = "RUNNING"
  <2>1. Schedule(d) = D
    BY <1>2 DEF Schedule
  <2>2. P \in SUBSET Nodes /\ (\A n \in P : Legal(d, n, pact)) /\ pact \notin JointActs \cup {"RESOLVE_TRIAGE"}
        /\ pact \notin {"REQUEST_CANCEL", "RESUME"}
    BY NodeLegal DEF ReadyProducers, JointActs
  <2>3. IsDatabase(d) /\ P \in SUBSET Aggregates
    BY <2>2, Names DEF Sound
  <2>4. Sound(b, r) /\ b.graph = d.graph /\ b.cyc = d.cyc /\ b.agg["wf"] = d.agg["wf"] /\ b.agg["ep"] = d.agg["ep"]
    BY <2>2, MoveNodes
  <2>5. \A n \in Nodes \ P : b.agg[n] = d.agg[n]
    <3>1. Dispatched(d, b, P, pact)
      BY <2>3, DispatchShape
    <3> HIDE DEF b, P
    <3> QED BY <3>1, Names DEF Dispatched
  <2>6. C \in SUBSET Nodes /\ (\A n \in C : n \notin P) /\ (\A n \in C : d.agg[n].state = "REVIEW_BLOCKED_BY_DEPS")
    BY DEF ReadyCheckers, ReadyProducers
  <2> HIDE DEF b, P, C
  <2>7. (\A n \in C : Legal(b, n, cact)) /\ cact \notin JointActs \cup {"RESOLVE_TRIAGE"}
        /\ cact \notin {"REQUEST_CANCEL", "RESUME"}
    BY <2>5, <2>6, NodeLegal DEF JointActs
  <2>8. Sound(D, r) /\ D.graph = b.graph /\ D.cyc = b.cyc /\ D.agg["wf"] = b.agg["wf"] /\ D.agg["ep"] = b.agg["ep"]
    BY <2>4, <2>6, <2>7, MoveNodes
  <2> HIDE DEF D
  <2> QED BY <2>1, <2>4, <2>8
<1> QED BY <1>1, <1>2

-----------------------------------------------------------------------------
(* The epoch moves                                                           *)

\* Where an action of the epoch is at its place.
EpochSide(d, act, q) ==
    /\ act = "REQUEST_CANCEL" => d.graph = "CANCELLED" \/ d.agg["wf"].state = "CANCEL_REQUESTED"
    /\ act = "ENTER_TRIAGE" => d.agg["ep"].state \in {"FINALIZING", "TRIAGE_REQUIRED"}
    /\ q /\ act = "RESUME" => d.agg["wf"].state # "PAUSED"
    /\ act = "RESOLVE_TRIAGE" => ~q
    /\ act = "NODES_PAUSED" => \A n \in Nodes : d.agg[n].state \in {"ACCEPTED", "CANCELLED", "PAUSED", "TRIAGE_REQUIRED"}
    /\ act = "NODES_CANCELLED" => \A n \in Nodes : d.agg[n].state \in {"ACCEPTED", "CANCELLED"}
    /\ act = "ALL_REQUIRED_NODES_ACCEPTED" => \A n \in Nodes : d.agg[n].state = "ACCEPTED"
    /\ act = "FINAL_DELIVERABLE_PUBLISHED" => d.graph = "COMPLETED"

LEMMA EpochMoveFacts ==
    ASSUME NEW x, NEW act, NEW y, NEW out, EpochShape(x), EpochMove(x, act, y, out),
           act = "ENTER_TRIAGE" => x.state \in {"FINALIZING", "TRIAGE_REQUIRED"}
    PROVE  /\ EpochShape(y)
           /\ x.state \notin {"CANCELLED", "COMPLETED"}
           /\ y.state = "CANCEL_REQUESTED" => act = "REQUEST_CANCEL"
           /\ y.state = "CANCELLED" => act = "NODES_CANCELLED" /\ x.state = "CANCEL_REQUESTED"
           /\ y.state = "COMPLETED" => act = "FINAL_DELIVERABLE_PUBLISHED" /\ x.state = "FINALIZING"
           /\ y.state = "PAUSED" => act = "NODES_PAUSED"
           /\ x.state = "PAUSED" => act \in {"RESUME", "REQUEST_CANCEL"}
           /\ x.state = "TRIAGE_REQUIRED" =>
                  act \in {"REQUEST_CANCEL", "RESOLVE_TRIAGE"} \/ y.state = "TRIAGE_REQUIRED"
           /\ x.state = "CANCEL_REQUESTED" => y.state = "CANCELLED"
           /\ "FINALIZING" \in {y.state, y.resume, y.triage} =>
                  act = "ALL_REQUIRED_NODES_ACCEPTED" \/ "FINALIZING" \in {x.state, x.resume, x.triage}
           /\ \A t \in out :
                /\ t \in {"publish", "complete_workflow", "pause_nodes", "cancel_nodes", "freeze_nodes", "reconcile_epoch"}
                /\ t = "publish" => y.state = "FINALIZING"
                /\ t = "complete_workflow" => y.state = "COMPLETED"
                /\ t = "cancel_nodes" => y.state = "CANCEL_REQUESTED"
<1>1. CASE /\ <<x.state, act, y.state, out>> \in
              {<<"RUNNING", "ALL_REQUIRED_NODES_ACCEPTED", "FINALIZING", {"publish"}>>,
               <<"FINALIZING", "FINAL_DELIVERABLE_PUBLISHED", "COMPLETED", {"complete_workflow"}>>,
               <<"PAUSE_REQUESTED", "NODES_PAUSED", "PAUSED", {}>>,
               <<"CANCEL_REQUESTED", "NODES_CANCELLED", "CANCELLED", {}>>}
           /\ y.resume = x.resume /\ y.triage = x.triage
  BY <1>1 DEF EpochShape
<1>2. CASE /\ act = "REQUEST_PAUSE" /\ x.state \in {"RUNNING", "FINALIZING"}
           /\ y.state = "PAUSE_REQUESTED" /\ y.resume = x.state /\ y.triage = x.triage
           /\ out = {"pause_nodes"}
  BY <1>2 DEF EpochShape
<1>3. CASE /\ act = "REQUEST_CANCEL"
           /\ x.state \in {"RUNNING", "FINALIZING", "PAUSE_REQUESTED", "PAUSED", "TRIAGE_REQUIRED"}
           /\ y.state = "CANCEL_REQUESTED" /\ y.resume = "none" /\ y.triage = "none"
           /\ out = {"cancel_nodes"}
  BY <1>3 DEF EpochShape
<1>4. CASE /\ act = "ENTER_TRIAGE"
           /\ y.state = "TRIAGE_REQUIRED" /\ y.resume = x.resume
           /\ y.triage = IF x.state = "TRIAGE_REQUIRED" THEN x.triage ELSE x.state
           /\ out \subseteq {"freeze_nodes"}
  <2>1. x.state \in {"FINALIZING", "TRIAGE_REQUIRED"} /\ y.triage = "FINALIZING"
    BY <1>4 DEF EpochShape
  <2> QED BY <1>4, <2>1 DEF EpochShape
<1>5. CASE /\ act = "RESUME" /\ x.state = "PAUSED"
           /\ y.state = Reentry(x.resume) /\ y.resume = "none" /\ y.triage = x.triage
           /\ out = {"reconcile_epoch"}
  <2>1. y.state = x.resume /\ y.state \in {"RUNNING", "FINALIZING"}
    BY <1>5 DEF EpochShape, Reentry
  <2> QED BY <1>5, <2>1 DEF EpochShape
<1>6. CASE /\ act = "RESOLVE_TRIAGE" /\ x.state = "TRIAGE_REQUIRED"
           /\ y.state = Reentry(x.triage) /\ y.resume = x.resume /\ y.triage = "none"
           /\ out = {"reconcile_epoch"}
  <2>1. y.state = "FINALIZING" /\ x.triage = "FINALIZING"
    BY <1>6 DEF EpochShape, Reentry
  <2> QED BY <1>6, <2>1 DEF EpochShape
<1> QED BY <1>1, <1>2, <1>3, <1>4, <1>5, <1>6 DEF EpochMove

LEMMA EpochChange ==
    ASSUME NEW d, NEW r \in BOOLEAN, NEW q \in BOOLEAN, q => r, NEW act,
           Sound(d, r), Legal(d, "ep", act), EpochSide(d, act, q)
    PROVE  /\ Sound(Dispatch(d, "ep", act), q)
           /\ Dispatch(d, "ep", act).graph = d.graph /\ Dispatch(d, "ep", act).cyc = d.cyc
           /\ Dispatch(d, "ep", act).agg["wf"] = d.agg["wf"]
           /\ Dispatch(d, "ep", act).agg["ep"] = Moved(d, "ep", act)
           /\ \A n \in Nodes : Dispatch(d, "ep", act).agg[n] = d.agg[n]
<1> DEFINE D == Dispatch(d, "ep", act)
           w == d.agg["wf"]
           x == d.agg["ep"]
           y == Moved(d, "ep", act)
           out == EpochStep[<<d.agg["ep"].state, act>>][4]
<1>1. IsDatabase(d) /\ {"ep"} \in SUBSET Aggregates
  BY Names DEF Sound
<1>2. IsDatabase(D) /\ Dispatched(d, D, {"ep"}, act) /\ D.cyc = d.cyc /\ D.graph = d.graph
  BY <1>1, DispatchShape DEF Dispatch
<1> HIDE DEF D
<1>3. /\ D.agg["wf"] = w /\ D.agg["ep"] = y /\ \A n \in Nodes : D.agg[n] = d.agg[n]
      /\ D.restart = d.restart /\ D.replacement = d.replacement
  BY <1>2, Names DEF Dispatched
<1>4. EpochMove(x, act, y, out)
  BY EpochMoves
<1>5. ParentPart(w, x, d.graph, r) /\ ChildPart(d, r) /\ CheckPart(d) /\ EpochShape(x)
  BY DEF Sound, ParentPart
<1>6. act = "ENTER_TRIAGE" => x.state \in {"FINALIZING", "TRIAGE_REQUIRED"}
  BY DEF EpochSide
<1> HIDE DEF y, out
<1>7. /\ EpochShape(y)
      /\ x.state \notin {"CANCELLED", "COMPLETED"}
      /\ y.state = "CANCEL_REQUESTED" => act = "REQUEST_CANCEL"
      /\ y.state = "CANCELLED" => act = "NODES_CANCELLED" /\ x.state = "CANCEL_REQUESTED"
      /\ y.state = "COMPLETED" => act = "FINAL_DELIVERABLE_PUBLISHED" /\ x.state = "FINALIZING"
      /\ y.state = "PAUSED" => act = "NODES_PAUSED"
      /\ x.state = "PAUSED" => act \in {"RESUME", "REQUEST_CANCEL"}
      /\ x.state = "TRIAGE_REQUIRED" =>
             act \in {"REQUEST_CANCEL", "RESOLVE_TRIAGE"} \/ y.state = "TRIAGE_REQUIRED"
      /\ x.state = "CANCEL_REQUESTED" => y.state = "CANCELLED"
      /\ "FINALIZING" \in {y.state, y.resume, y.triage} =>
             act = "ALL_REQUIRED_NODES_ACCEPTED" \/ "FINALIZING" \in {x.state, x.resume, x.triage}
      /\ \A t \in out :
           /\ t \in {"publish", "complete_workflow", "pause_nodes", "cancel_nodes", "freeze_nodes", "reconcile_epoch"}
           /\ t = "publish" => y.state = "FINALIZING"
           /\ t = "complete_workflow" => y.state = "COMPLETED"
           /\ t = "cancel_nodes" => y.state = "CANCEL_REQUESTED"
  BY <1>4, <1>5, <1>6, EpochMoveFacts
<1>8. ParentPart(w, y, d.graph, q)
  <2> HIDE DEF w, x
  <2> DEFINE g == d.graph
  <2>1. /\ WorkflowShape(w) /\ g \in {"RUNNING", "COMPLETED", "CANCELLED"}
        /\ g = "CANCELLED" => CancelSide(w)
        /\ w.state # "COMPLETED" /\ w.state \notin {"CANCELLED", "RESTARTING"}
        /\ ~(w.state = "TRIAGE_REQUIRED" /\ w.triage = "RESTARTING")
        /\ w.state = "TRIAGE_REQUIRED" /\ w.triage = "CANCEL_REQUESTED" => g = "CANCELLED"
    BY <1>5, <1>7 DEF ParentPart
  <2>2. y.state \in {"CANCEL_REQUESTED", "CANCELLED"} => g = "CANCELLED" \/ w.state = "CANCEL_REQUESTED"
    BY <1>5, <1>7 DEF ParentPart, EpochSide, w
  <2>3. y.state = "COMPLETED" => g \in {"COMPLETED", "CANCELLED"}
    BY <1>7 DEF EpochSide
  <2>4. q /\ w.state = "PAUSED" => y.state \in {"PAUSED", "TRIAGE_REQUIRED", "CANCELLED", "COMPLETED"}
    <3> SUFFICES ASSUME q, w.state = "PAUSED"
                 PROVE  y.state \in {"PAUSED", "TRIAGE_REQUIRED", "CANCELLED", "COMPLETED"}
      OBVIOUS
    <3>1. g # "CANCELLED"
      BY <2>1 DEF CancelSide
    <3>2. x.state \in {"PAUSED", "TRIAGE_REQUIRED", "CANCELLED", "COMPLETED"}
      BY <1>5 DEF ParentPart
    <3>3. act \notin {"RESUME", "REQUEST_CANCEL", "RESOLVE_TRIAGE"}
      BY <3>1 DEF EpochSide, w
    <3> QED BY <1>7, <3>2, <3>3
  <2> HIDE DEF g
  <2> QED BY <1>7, <2>1, <2>2, <2>3, <2>4 DEF ParentPart, g
<1>9. ChildPart(D, q)
  <2>1. y.state = "COMPLETED" \/ "FINALIZING" \in {y.state, y.resume, y.triage}
           => \A n \in Nodes : d.agg[n].state = "ACCEPTED"
    BY <1>5, <1>7 DEF ChildPart, EpochSide
  <2>2. y.state = "CANCELLED" => \A n \in Nodes : d.agg[n].state \in {"ACCEPTED", "CANCELLED"}
    BY <1>7 DEF EpochSide
  <2>3. y.state = "PAUSED" => \A n \in Nodes : d.agg[n].state \in SettledBy(n, "REQUEST_PAUSE")
    BY <1>7 DEF EpochSide, SettledBy
  <2> QED BY <1>3, <2>1, <2>2, <2>3 DEF ChildPart
<1>10. CheckPart(D)
  <2>1. \A n \in Nodes : \A m \in CheckerDeps[n] : m \in Nodes
    BY GraphAssumption
  <2> QED BY <1>2, <1>3, <1>5, <2>1, Names DEF CheckPart
<1>11. ASSUME NEW e \in D.fx PROVE EffectPart(e, D.agg)
  <2>1. \/ e \in d.fx /\ (e.of # "ep" \/ e.type \notin Semantic)
        \/ e = Overtaken
        \/ e.of = "ep" /\ e.type \in Emitted(d, e.of, act)
    BY <1>2 DEF Dispatched
  <2>2. CASE e \in d.fx /\ (e.of # "ep" \/ e.type \notin Semantic)
    <3>1. EffectPart(e, d.agg)
      BY <2>2 DEF Sound
    <3>2. "publish" \in Semantic
      BY DEF Semantic
    <3> QED BY <1>3, <1>7, <2>2, <3>1, <3>2, Names DEF EffectPart
  <2>3. CASE e = Overtaken
    BY <2>3, Names DEF EffectPart, Overtaken
  <2>4. CASE e.of = "ep" /\ e.type \in Emitted(d, e.of, act)
    <3>1. e.type \in out
      BY <2>4, Names DEF Emitted, ArrivalEffects, out
    <3> QED BY <1>3, <1>7, <2>4, <3>1, Names DEF EffectPart
  <2> QED BY <2>1, <2>2, <2>3, <2>4
<1>12. ReplacementPart(D)
  BY <1>3 DEF Sound, ReplacementPart
<1>13. \A n \in Nodes : NodePart(D.agg[n], D.cyc[n], D.graph, q)
  BY <1>2, <1>3 DEF Sound, NodePart
<1>14. Sound(D, q)
  BY <1>2, <1>3, <1>8, <1>9, <1>10, <1>11, <1>12, <1>13 DEF Sound
<1> QED BY <1>2, <1>3, <1>14 DEF D, y

-----------------------------------------------------------------------------
(* The workflow moves                                                        *)

\* Where an action of the workflow is at its place.
WorkflowSide(d, act, q) ==
    /\ act = "CHILDREN_CANCELLED" =>
           /\ d.agg["ep"].state \in {"CANCELLED", "COMPLETED"}
           /\ d.agg["ep"].state = "CANCELLED" => d.graph = "CANCELLED"
    /\ act = "CHILDREN_PAUSED" => d.agg["ep"].state \in {"PAUSED", "TRIAGE_REQUIRED", "CANCELLED", "COMPLETED"}
    /\ act = "MARK_COMPLETED" => d.agg["ep"].state = "COMPLETED"
    /\ act = "ENTER_TRIAGE" /\ d.agg["wf"].state = "CANCEL_REQUESTED" =>
           d.graph = "CANCELLED" \/ d.agg["ep"].state = "COMPLETED"
    /\ act = "RESOLVE_TRIAGE" => ~q

LEMMA WorkflowMoveFacts ==
    ASSUME NEW d, NEW x, NEW act, NEW y, NEW out, WorkflowShape(x), WorkflowMove(d, x, act, y, out)
    PROVE  /\ WorkflowShape(y) /\ x.state \notin {"COMPLETED", "CANCELLED"}
           /\ CancelSide(x) => CancelSide(y)
           /\ y.state = "COMPLETED" => act = "MARK_COMPLETED" /\ x.state = "ACTIVE"
           /\ y.state \in {"CANCELLED", "RESTARTING"} \/ (y.state = "TRIAGE_REQUIRED" /\ y.triage = "RESTARTING") =>
                  \/ act = "CHILDREN_CANCELLED"
                  \/ x.state = "RESTARTING" \/ (x.state = "TRIAGE_REQUIRED" /\ x.triage = "RESTARTING")
           /\ y.state = "TRIAGE_REQUIRED" /\ y.triage = "CANCEL_REQUESTED" =>
                  \/ act = "ENTER_TRIAGE" /\ x.state = "CANCEL_REQUESTED"
                  \/ x.state = "TRIAGE_REQUIRED" /\ x.triage = "CANCEL_REQUESTED"
           /\ y.state = "PAUSED" => act = "CHILDREN_PAUSED"
           /\ x.state = "CANCEL_REQUESTED" =>
                  y.state = "CANCEL_REQUESTED" \/ act \in {"CHILDREN_CANCELLED", "ENTER_TRIAGE"}
           /\ \A t \in out :
                /\ t \in {"propagate_pause", "propagate_resume", "propagate_cancel", "freeze_children",
                          "reconcile_workflow", "start_replacement"}
                /\ t \in {"propagate_cancel", "start_replacement"} => CancelSide(y)
<1>1. CASE /\ <<x.state, act, y.state>> \in
              {<<"ACTIVE", "MARK_COMPLETED", "COMPLETED">>,
               <<"PAUSE_REQUESTED", "CHILDREN_PAUSED", "PAUSED">>,
               <<"RESTARTING", "REPLACEMENT_WORKFLOW_STARTED", "CANCELLED">>,
               <<"RESTARTING", "REPLACEMENT_WORKFLOW_ABORTED", "CANCELLED">>}
           /\ out = {}
  BY <1>1 DEF WorkflowShape, CancelSide
<1>2. CASE /\ act = "REQUEST_PAUSE" /\ x.state = "ACTIVE" /\ y.state = "PAUSE_REQUESTED"
           /\ out = {"propagate_pause"}
  BY <1>2 DEF WorkflowShape, CancelSide
<1>3. CASE act = "RESUME" /\ x.state = "PAUSED" /\ y.state = "ACTIVE" /\ out = {"propagate_resume"}
  BY <1>3 DEF WorkflowShape, CancelSide
<1>4. CASE /\ act = "CHILDREN_CANCELLED" /\ x.state = "CANCEL_REQUESTED" /\ y.state = CancelTarget(d)
           /\ out \subseteq {"start_replacement"}
           /\ y.state # "RESTARTING" => out = {}
  <2>1. y.state \in {"CANCELLED", "RESTARTING"}
    BY <1>4 DEF CancelTarget
  <2> QED BY <1>4, <2>1 DEF WorkflowShape, CancelSide
<1>5. CASE /\ act = "REQUEST_CANCEL" /\ x.state \in {"CANCEL_REQUESTED", "RESTARTING"}
           /\ y.state = x.state /\ out = {}
  BY <1>5 DEF WorkflowShape, CancelSide
<1>6. CASE /\ act \in {"REQUEST_CANCEL", "REQUEST_EXECUTION_RESTART"}
           /\ x.state \in {"ACTIVE", "PAUSE_REQUESTED", "PAUSED", "TRIAGE_REQUIRED"}
           /\ y.state = "CANCEL_REQUESTED" /\ out = {"propagate_cancel"}
  BY <1>6 DEF WorkflowShape, CancelSide
<1>7. CASE /\ act = "ENTER_TRIAGE" /\ y.state = "TRIAGE_REQUIRED"
           /\ x.state \in {"ACTIVE", "PAUSE_REQUESTED", "CANCEL_REQUESTED", "RESTARTING", "TRIAGE_REQUIRED"}
           /\ y.triage = IF x.state = "TRIAGE_REQUIRED" THEN x.triage ELSE x.state
           /\ out \subseteq {"freeze_children"}
  BY <1>7 DEF WorkflowShape, CancelSide
<1>8. CASE /\ act = "RESOLVE_TRIAGE" /\ x.state = "TRIAGE_REQUIRED" /\ y.state = Reentry(x.triage)
           /\ out = IF y.state = "RESTARTING" THEN {"start_replacement"} ELSE {"reconcile_workflow"}
  <2>1. y.state = x.triage /\ x.triage \in {"ACTIVE", "PAUSE_REQUESTED", "CANCEL_REQUESTED", "RESTARTING"}
    BY <1>8 DEF WorkflowShape, Reentry
  <2> QED BY <1>8, <2>1 DEF WorkflowShape, CancelSide
<1> QED BY <1>1, <1>2, <1>3, <1>4, <1>5, <1>6, <1>7, <1>8 DEF WorkflowMove

LEMMA WorkflowParents ==
    ASSUME NEW d, NEW r \in BOOLEAN, NEW q \in BOOLEAN, q => r, NEW act, NEW y, NEW out,
           Sound(d, r), WorkflowMove(d, d.agg["wf"], act, y, out), WorkflowSide(d, act, q)
    PROVE  ParentPart(y, d.agg["ep"], d.graph, q)
<1> DEFINE x == d.agg["wf"]
           p == d.agg["ep"]
           g == d.graph
<1>1. ParentPart(x, p, g, r)
  BY DEF Sound
<1>2. /\ act = "CHILDREN_CANCELLED" =>
             p.state \in {"CANCELLED", "COMPLETED"} /\ (p.state = "CANCELLED" => g = "CANCELLED")
      /\ act = "CHILDREN_PAUSED" => p.state \in {"PAUSED", "TRIAGE_REQUIRED", "CANCELLED", "COMPLETED"}
      /\ act = "MARK_COMPLETED" => p.state = "COMPLETED"
      /\ act = "ENTER_TRIAGE" /\ x.state = "CANCEL_REQUESTED" => g = "CANCELLED" \/ p.state = "COMPLETED"
  BY DEF WorkflowSide
<1>3. WorkflowMove(d, x, act, y, out)
  OBVIOUS
<1> HIDE DEF x, p, g
<1>4. WorkflowShape(x) /\ EpochShape(p) /\ g \in {"RUNNING", "COMPLETED", "CANCELLED"}
  BY <1>1 DEF ParentPart
<1>5. /\ WorkflowShape(y) /\ x.state \notin {"COMPLETED", "CANCELLED"}
      /\ CancelSide(x) => CancelSide(y)
      /\ y.state = "COMPLETED" => act = "MARK_COMPLETED" /\ x.state = "ACTIVE"
      /\ y.state \in {"CANCELLED", "RESTARTING"} \/ (y.state = "TRIAGE_REQUIRED" /\ y.triage = "RESTARTING") =>
             \/ act = "CHILDREN_CANCELLED"
             \/ x.state = "RESTARTING" \/ (x.state = "TRIAGE_REQUIRED" /\ x.triage = "RESTARTING")
      /\ y.state = "TRIAGE_REQUIRED" /\ y.triage = "CANCEL_REQUESTED" =>
             \/ act = "ENTER_TRIAGE" /\ x.state = "CANCEL_REQUESTED"
             \/ x.state = "TRIAGE_REQUIRED" /\ x.triage = "CANCEL_REQUESTED"
      /\ y.state = "PAUSED" => act = "CHILDREN_PAUSED"
      /\ x.state = "CANCEL_REQUESTED" =>
             y.state = "CANCEL_REQUESTED" \/ act \in {"CHILDREN_CANCELLED", "ENTER_TRIAGE"}
  BY <1>3, <1>4, WorkflowMoveFacts
<1>6. g = "CANCELLED" => CancelSide(y)
  BY <1>1, <1>5 DEF ParentPart
<1>7. p.state \in {"CANCEL_REQUESTED", "CANCELLED"} => g = "CANCELLED" \/ y.state = "CANCEL_REQUESTED"
  BY <1>1, <1>2, <1>5 DEF ParentPart
<1>8. p.state = "COMPLETED" => g \in {"COMPLETED", "CANCELLED"}
  BY <1>1 DEF ParentPart
<1>9. y.state = "COMPLETED" => p.state = "COMPLETED" /\ g = "COMPLETED"
  BY <1>1, <1>2, <1>5, <1>8 DEF ParentPart, CancelSide
<1>10. y.state \in {"CANCELLED", "RESTARTING"} \/ (y.state = "TRIAGE_REQUIRED" /\ y.triage = "RESTARTING")
           => p.state \in {"CANCELLED", "COMPLETED"}
  BY <1>1, <1>2, <1>5 DEF ParentPart
<1>11. y.state = "TRIAGE_REQUIRED" /\ y.triage = "CANCEL_REQUESTED" => g = "CANCELLED" \/ p.state = "COMPLETED"
  BY <1>1, <1>2, <1>5 DEF ParentPart
<1>12. y.state = "PAUSED" => p.state \in {"PAUSED", "TRIAGE_REQUIRED", "CANCELLED", "COMPLETED"}
  BY <1>2, <1>5
<1>13. ParentPart(y, p, g, q)
  BY <1>4, <1>5, <1>6, <1>7, <1>8, <1>9, <1>10, <1>11, <1>12 DEF ParentPart
<1> QED BY <1>13 DEF p, g

\* D is d after an action of the workflow, the restart request and the replacement aside.
LEMMA WorkflowChange ==
    ASSUME NEW d, NEW D, NEW r \in BOOLEAN, NEW q \in BOOLEAN, q => r, NEW act,
           Sound(d, r), Legal(d, "wf", act), WorkflowSide(d, act, q),
           IsDatabase(D), D.agg = Dispatch(d, "wf", act).agg, D.fx = Dispatch(d, "wf", act).fx,
           D.cyc = d.cyc, D.graph = d.graph, ReplacementPart(D)
    PROVE  /\ Sound(D, q) /\ D.agg["wf"] = Moved(d, "wf", act) /\ D.agg["ep"] = d.agg["ep"]
           /\ \A n \in Nodes : D.agg[n] = d.agg[n]
<1> DEFINE b == Dispatch(d, "wf", act)
           x == d.agg["wf"]
           y == Moved(d, "wf", act)
           out == WorkflowStep[<<d.agg["wf"].state, act>>][4] \cup ArrivalEffects("wf", act, Moved(d, "wf", act).state)
<1>1. IsDatabase(d) /\ {"wf"} \in SUBSET Aggregates
  BY Names DEF Sound
<1>2. Dispatched(d, b, {"wf"}, act)
  BY <1>1, DispatchShape DEF Dispatch
<1>3. D.agg = b.agg /\ D.fx = b.fx
  OBVIOUS
<1> HIDE DEF b
<1>4. D.agg["wf"] = y /\ D.agg["ep"] = d.agg["ep"] /\ \A n \in Nodes : D.agg[n] = d.agg[n]
  BY <1>2, <1>3, Names DEF Dispatched
<1>5. WorkflowMove(d, x, act, y, out)
  BY WorkflowMoves
<1>6. ParentPart(x, d.agg["ep"], d.graph, r) /\ ChildPart(d, r) /\ CheckPart(d) /\ WorkflowShape(x)
  BY DEF Sound, ParentPart
<1> HIDE DEF y, out
<1>7. ParentPart(y, d.agg["ep"], d.graph, q)
  BY <1>5, WorkflowParents
<1>8. /\ CancelSide(x) => CancelSide(y)
      /\ \A t \in out :
           /\ t \in {"propagate_pause", "propagate_resume", "propagate_cancel", "freeze_children",
                     "reconcile_workflow", "start_replacement"}
           /\ t \in {"propagate_cancel", "start_replacement"} => CancelSide(y)
  BY <1>5, <1>6, WorkflowMoveFacts
<1>9. ChildPart(D, q)
  BY <1>4, <1>6 DEF ChildPart
<1>10. CheckPart(D)
  <2>1. \A n \in Nodes : \A m \in CheckerDeps[n] : m \in Nodes
    BY GraphAssumption
  <2> QED BY <1>4, <1>6, <2>1, Names DEF CheckPart
<1>11. ASSUME NEW e \in D.fx PROVE EffectPart(e, D.agg)
  <2>1. \/ e \in d.fx
        \/ e = Overtaken
        \/ e.of = "wf" /\ e.type \in Emitted(d, e.of, act)
    BY <1>2, <1>3 DEF Dispatched
  <2>2. CASE e \in d.fx
    <3>1. EffectPart(e, d.agg)
      BY <2>2 DEF Sound
    <3> QED BY <1>4, <1>8, <3>1, Names DEF EffectPart
  <2>3. CASE e = Overtaken
    BY <2>3, Names DEF EffectPart, Overtaken
  <2>4. CASE e.of = "wf" /\ e.type \in Emitted(d, e.of, act)
    <3>1. e.type \in out
      BY <2>4, Names DEF Emitted, out
    <3> QED BY <1>4, <1>8, <2>4, <3>1, Names DEF EffectPart
  <2> QED BY <2>1, <2>2, <2>3, <2>4
<1>12. \A n \in Nodes : NodePart(D.agg[n], D.cyc[n], D.graph, q)
  BY <1>4 DEF Sound, NodePart
<1>13. Sound(D, q)
  BY <1>4, <1>7, <1>9, <1>10, <1>11, <1>12 DEF Sound
<1> QED BY <1>4, <1>13 DEF y

\* The replacement is at stake only where the workflow ends a restart.
LEMMA WorkflowDispatch ==
    ASSUME NEW d, NEW r \in BOOLEAN, NEW q \in BOOLEAN, q => r, NEW act,
           Sound(d, r), Legal(d, "wf", act), WorkflowSide(d, act, q),
           act \notin {"REPLACEMENT_WORKFLOW_STARTED", "REPLACEMENT_WORKFLOW_ABORTED"}
    PROVE  /\ Sound(Dispatch(d, "wf", act), q)
           /\ Dispatch(d, "wf", act).graph = d.graph /\ Dispatch(d, "wf", act).cyc = d.cyc
           /\ Dispatch(d, "wf", act).agg["wf"] = Moved(d, "wf", act)
           /\ Dispatch(d, "wf", act).agg["ep"] = d.agg["ep"]
           /\ \A n \in Nodes : Dispatch(d, "wf", act).agg[n] = d.agg[n]
<1> DEFINE D == Dispatch(d, "wf", act)
           out == WorkflowStep[<<d.agg["wf"].state, act>>][4] \cup ArrivalEffects("wf", act, Moved(d, "wf", act).state)
<1>1. IsDatabase(d) /\ {"wf"} \in SUBSET Aggregates
  BY Names DEF Sound
<1>2. IsDatabase(D) /\ Dispatched(d, D, {"wf"}, act) /\ D.cyc = d.cyc /\ D.graph = d.graph
  BY <1>1, DispatchShape DEF Dispatch
<1>3. D.agg = Dispatch(d, "wf", act).agg /\ D.fx = Dispatch(d, "wf", act).fx
  OBVIOUS
<1> HIDE DEF D
<1>4. D.agg["wf"] = Moved(d, "wf", act) /\ D.restart = d.restart /\ D.replacement = d.replacement
  BY <1>2, Names DEF Dispatched
<1>5. WorkflowMove(d, d.agg["wf"], act, Moved(d, "wf", act), out)
  BY WorkflowMoves
<1> HIDE DEF out
<1>6. ReplacementPart(D)
  <2> SUFFICES ASSUME Moved(d, "wf", act).state = "CANCELLED" PROVE d.restart # "aborted"
    BY <1>4 DEF ReplacementPart
  <2> DEFINE x == d.agg["wf"]
             y == Moved(d, "wf", act)
  <2>1. WorkflowMove(d, x, act, y, out) /\ y.state = "CANCELLED" /\ WorkflowShape(x)
    BY <1>5 DEF Sound, ParentPart
  <2> HIDE DEF x, y
  <2>2. x.state = "TRIAGE_REQUIRED" => Reentry(x.triage) # "CANCELLED"
    BY <2>1 DEF WorkflowShape, Reentry
  <2>3. y.state = CancelTarget(d)
    BY <2>1, <2>2 DEF WorkflowMove
  <2> QED BY <2>1, <2>3 DEF CancelTarget
<1>7. /\ Sound(D, q) /\ D.agg["wf"] = Moved(d, "wf", act) /\ D.agg["ep"] = d.agg["ep"]
      /\ \A n \in Nodes : D.agg[n] = d.agg[n]
  BY <1>2, <1>3, <1>6, WorkflowChange
<1> QED BY <1>2, <1>7 DEF D

-----------------------------------------------------------------------------
(* Requests of a parent to its children, and the parent's confirmation       *)

LEMMA DispatchNone ==
    ASSUME NEW d, IsDatabase(d), NEW act
    PROVE  DispatchAll(d, {}, act) = d
<1> DEFINE D == DispatchAll(d, {}, act)
           left == {e \in d.fx : e.of \in {} /\ e.type \in Semantic}
           agg2 == [a \in DOMAIN d.agg |-> IF a \in {} THEN Moved(d, a, act) ELSE d.agg[a]]
           out == UNION {{[type |-> t, of |-> a, tried |-> FALSE] : t \in Emitted(d, a, act)} : a \in {}}
           fx2 == (d.fx \ left) \cup out \cup (IF left = {} THEN {} ELSE {Overtaken})
<1>1. D = [d EXCEPT !.agg = agg2, !.fx = fx2]
  BY DEF DispatchAll, Emitted
<1>2. agg2 = d.agg
  BY DEF IsDatabase
<1>3. left = {} /\ out = {}
  OBVIOUS
<1>4. fx2 = d.fx
  <2> HIDE DEF left, out
  <2> QED BY <1>3
<1>5. d = [agg |-> d.agg, cyc |-> d.cyc, graph |-> d.graph, fx |-> d.fx, restart |-> d.restart,
           replacement |-> d.replacement, rejections |-> d.rejections]
  BY DEF IsDatabase
<1> HIDE DEF agg2, fx2, D
<1>6. D = [agg |-> agg2, cyc |-> d.cyc, graph |-> d.graph, fx |-> fx2, restart |-> d.restart,
           replacement |-> d.replacement, rejections |-> d.rejections]
  BY <1>1, <1>5
<1>7. D = d
  BY <1>2, <1>4, <1>5, <1>6
<1> QED BY <1>7 DEF D

LEMMA RequestEpoch ==
    ASSUME NEW d, NEW r \in BOOLEAN, Sound(d, r), NEW act \in {"REQUEST_PAUSE", "REQUEST_CANCEL"},
           act = "REQUEST_CANCEL" => d.graph = "CANCELLED" \/ d.agg["wf"].state = "CANCEL_REQUESTED"
    PROVE  LET D == RequestChildren(d, "wf", act) IN
           /\ Sound(D, r) /\ D.graph = d.graph /\ D.agg["wf"] = d.agg["wf"]
           /\ \/ D.agg["ep"] = d.agg["ep"]
              \/ act = "REQUEST_PAUSE" /\ D.agg["ep"].state = "PAUSE_REQUESTED"
              \/ act = "REQUEST_CANCEL" /\ D.agg["ep"].state = "CANCEL_REQUESTED"
<1> DEFINE D == RequestChildren(d, "wf", act)
           S == {b \in {"ep"} : MustRequest(d, b, act)}
<1>1. D = DispatchAll(d, S, act)
  BY DEF RequestChildren, Children
<1>2. CASE ~MustRequest(d, "ep", act)
  <2>1. S = {}
    BY <1>2
  <2>2. IsDatabase(d)
    BY DEF Sound
  <2> HIDE DEF S, D
  <2>3. D = d
    BY <1>1, <2>1, <2>2, DispatchNone
  <2> QED BY <2>3 DEF D
<1>3. CASE MustRequest(d, "ep", act)
  <2>1. S = {"ep"}
    BY <1>3
  <2>2. D = Dispatch(d, "ep", act)
    BY <1>1, <2>1 DEF Dispatch
  <2>3. Legal(d, "ep", act)
    BY <1>3 DEF MustRequest
  <2>4. EpochSide(d, act, r)
    BY DEF EpochSide
  <2> DEFINE y == Moved(d, "ep", act)
             out == EpochStep[<<d.agg["ep"].state, act>>][4]
  <2>5. EpochMove(d.agg["ep"], act, y, out)
    BY <2>3, EpochMoves
  <2> HIDE DEF D, y, out
  <2>6. Sound(D, r) /\ D.graph = d.graph /\ D.agg["wf"] = d.agg["wf"] /\ D.agg["ep"] = y
    BY <2>2, <2>3, <2>4, EpochChange DEF y
  <2>7. y.state = IF act = "REQUEST_PAUSE" THEN "PAUSE_REQUESTED" ELSE "CANCEL_REQUESTED"
    BY <2>5 DEF EpochMove
  <2> QED BY <2>6, <2>7 DEF D
<1> QED BY <1>2, <1>3

LEMMA EpochLegal ==
    ASSUME NEW d
    PROVE  /\ d.agg["ep"].state = "PAUSED" => Legal(d, "ep", "RESUME")
           /\ d.agg["ep"].state = "PAUSE_REQUESTED" => Legal(d, "ep", "NODES_PAUSED")
           /\ d.agg["ep"].state = "CANCEL_REQUESTED" => Legal(d, "ep", "NODES_CANCELLED")
           /\ d.agg["ep"].state = "RUNNING" => Legal(d, "ep", "ALL_REQUIRED_NODES_ACCEPTED")
           /\ d.agg["ep"].state = "FINALIZING" => Legal(d, "ep", "ENTER_TRIAGE")
<1> DEFINE st == d.agg["ep"].state
           Row(act, to, fx) == <<st, act, to, fx>> \in EpochRows
<1>1. ASSUME NEW act, NEW to, NEW fx, Row(act, to, fx) PROVE Legal(d, "ep", act)
  <2> DEFINE row == <<st, act, to, fx>>
  <2>1. row \in EpochRows /\ row[1] = st /\ row[2] = act
    BY <1>1
  <2> HIDE DEF row
  <2>2. <<st, act>> \in DOMAIN Indexed(EpochRows)
    BY <2>1, LegalRow
  <2> QED BY <2>2, Names DEF Legal, EpochStep
<1> HIDE DEF st
<1>2. /\ st = "PAUSED" => Row("RESUME", "*resume", {"reconcile_epoch"})
      /\ st = "PAUSE_REQUESTED" => Row("NODES_PAUSED", "PAUSED", {})
      /\ st = "CANCEL_REQUESTED" => Row("NODES_CANCELLED", "CANCELLED", {})
      /\ st = "RUNNING" => Row("ALL_REQUIRED_NODES_ACCEPTED", "FINALIZING", {"publish"})
      /\ st = "FINALIZING" => Row("ENTER_TRIAGE", "TRIAGE_REQUIRED", {"freeze_nodes"})
  BY DEF EpochRows
<1> HIDE DEF Row
<1> QED BY <1>1, <1>2 DEF st

LEMMA WorkflowLegal ==
    ASSUME NEW d
    PROVE  /\ d.agg["wf"].state = "PAUSE_REQUESTED" => Legal(d, "wf", "CHILDREN_PAUSED")
           /\ d.agg["wf"].state = "CANCEL_REQUESTED" => Legal(d, "wf", "CHILDREN_CANCELLED")
           /\ d.agg["wf"].state = "RESTARTING" =>
                  Legal(d, "wf", "REPLACEMENT_WORKFLOW_STARTED") /\ Legal(d, "wf", "REPLACEMENT_WORKFLOW_ABORTED")
           /\ d.agg["wf"].state \in {"ACTIVE", "PAUSE_REQUESTED", "CANCEL_REQUESTED", "RESTARTING", "TRIAGE_REQUIRED"} =>
                  Legal(d, "wf", "ENTER_TRIAGE")
<1> DEFINE st == d.agg["wf"].state
           Row(act, to, fx) == <<st, act, to, fx>> \in WorkflowRows
<1>1. ASSUME NEW act, NEW to, NEW fx, Row(act, to, fx) PROVE Legal(d, "wf", act)
  <2> DEFINE row == <<st, act, to, fx>>
  <2>1. row \in WorkflowRows /\ row[1] = st /\ row[2] = act
    BY <1>1
  <2> HIDE DEF row
  <2>2. <<st, act>> \in DOMAIN Indexed(WorkflowRows)
    BY <2>1, LegalRow
  <2> QED BY <2>2, Names DEF Legal, WorkflowStep
<1> HIDE DEF st
<1>2. /\ st = "PAUSE_REQUESTED" => Row("CHILDREN_PAUSED", "PAUSED", {})
      /\ st = "CANCEL_REQUESTED" => Row("CHILDREN_CANCELLED", "*cancelled", {})
      /\ st = "RESTARTING" => /\ Row("REPLACEMENT_WORKFLOW_STARTED", "CANCELLED", {})
                              /\ Row("REPLACEMENT_WORKFLOW_ABORTED", "CANCELLED", {})
      /\ st = "ACTIVE" => Row("ENTER_TRIAGE", "TRIAGE_REQUIRED", {"freeze_children"})
      /\ st \in {"PAUSE_REQUESTED", "CANCEL_REQUESTED", "RESTARTING", "TRIAGE_REQUIRED"} =>
             Row("ENTER_TRIAGE", "TRIAGE_REQUIRED", {})
  BY DEF WorkflowRows
<1> HIDE DEF Row
<1> QED BY <1>1, <1>2 DEF st

LEMMA ResumeEpoch ==
    ASSUME NEW d, NEW r \in BOOLEAN, Sound(d, r), d.agg["wf"].state # "PAUSED"
    PROVE  LET D == ResumeChildren(d, "wf") IN
           /\ Sound(D, r) /\ D.graph = d.graph /\ D.agg["wf"] = d.agg["wf"]
           /\ D.agg["ep"] = d.agg["ep"] \/ D.agg["ep"].state \in {"RUNNING", "FINALIZING"}
<1> DEFINE D == ResumeChildren(d, "wf")
           S == {b \in {"ep"} : d.agg[b].state = "PAUSED"}
<1>1. D = DispatchAll(d, S, "RESUME")
  BY DEF ResumeChildren, Children
<1>2. CASE d.agg["ep"].state # "PAUSED"
  <2>1. S = {}
    BY <1>2
  <2>2. IsDatabase(d)
    BY DEF Sound
  <2> HIDE DEF S, D
  <2>3. D = d
    BY <1>1, <2>1, <2>2, DispatchNone
  <2> QED BY <2>3 DEF D
<1>3. CASE d.agg["ep"].state = "PAUSED"
  <2>1. S = {"ep"}
    BY <1>3
  <2>2. D = Dispatch(d, "ep", "RESUME")
    BY <1>1, <2>1 DEF Dispatch
  <2>3. Legal(d, "ep", "RESUME")
    BY <1>3, EpochLegal
  <2>4. EpochSide(d, "RESUME", r)
    BY DEF EpochSide
  <2> DEFINE x == d.agg["ep"]
             y == Moved(d, "ep", "RESUME")
             out == EpochStep[<<d.agg["ep"].state, "RESUME">>][4]
  <2>5. EpochMove(x, "RESUME", y, out) /\ x.state = "PAUSED" /\ EpochShape(x)
    BY <1>3, <2>3, EpochMoves DEF Sound, ParentPart
  <2> HIDE DEF D, x, y, out
  <2>6. Sound(D, r) /\ D.graph = d.graph /\ D.agg["wf"] = d.agg["wf"] /\ D.agg["ep"] = y
    BY <2>2, <2>3, <2>4, EpochChange DEF y
  <2>7. y.state \in {"RUNNING", "FINALIZING"}
    BY <2>5 DEF EpochMove, EpochShape, Reentry
  <2> QED BY <2>6, <2>7 DEF D
<1> QED BY <1>2, <1>3

LEMMA RequestNodes ==
    ASSUME NEW d, NEW r \in BOOLEAN, Sound(d, r), NEW act \in {"REQUEST_PAUSE", "REQUEST_CANCEL"},
           act = "REQUEST_CANCEL" => d.graph = "CANCELLED" /\ d.agg["ep"].state # "PAUSED"
    PROVE  LET D == RequestChildren(d, "ep", act) IN
           /\ Sound(D, r) /\ D.graph = d.graph /\ D.agg["wf"] = d.agg["wf"] /\ D.agg["ep"] = d.agg["ep"]
<1> DEFINE D == RequestChildren(d, "ep", act)
           S == {b \in Nodes : MustRequest(d, b, act)}
<1>1. D = DispatchAll(d, S, act)
  BY DEF RequestChildren, Children
<1>2. S \in SUBSET Nodes /\ (\A n \in S : Legal(d, n, act)) /\ act \notin JointActs /\ act # "RESOLVE_TRIAGE"
  BY DEF MustRequest, JointActs
<1> HIDE DEF S, D
<1>3. /\ Sound(D, r) /\ D.graph = d.graph /\ D.agg["wf"] = d.agg["wf"] /\ D.agg["ep"] = d.agg["ep"]
  BY <1>1, <1>2, MoveNodes
<1> QED BY <1>3 DEF D

LEMMA ResumeNodes ==
    ASSUME NEW d, NEW r \in BOOLEAN, Sound(d, r), d.agg["ep"].state # "PAUSED"
    PROVE  LET D == ResumeChildren(d, "ep") IN
           /\ Sound(D, r) /\ D.graph = d.graph /\ D.agg["wf"] = d.agg["wf"] /\ D.agg["ep"] = d.agg["ep"]
<1> DEFINE D == ResumeChildren(d, "ep")
           S == {b \in Nodes : d.agg[b].state = "PAUSED"}
<1>1. D = DispatchAll(d, S, "RESUME")
  BY DEF ResumeChildren, Children
<1>2. S \in SUBSET Nodes /\ (\A n \in S : Legal(d, n, "RESUME")) /\ "RESUME" \notin JointActs
  BY NodeLegal DEF JointActs
<1> HIDE DEF S, D
<1>3. /\ Sound(D, r) /\ D.graph = d.graph /\ D.agg["wf"] = d.agg["wf"] /\ D.agg["ep"] = d.agg["ep"]
  BY <1>1, <1>2, MoveNodes
<1> QED BY <1>3 DEF D

-----------------------------------------------------------------------------
(* reconcile_control_requests, stage by stage                                *)

\* What the first projection establishes and the later stages keep.
Follows(d) ==
    /\ d.agg["ep"].state \in {"CANCEL_REQUESTED", "CANCELLED"} => d.graph = "CANCELLED"
    /\ d.agg["wf"].state = "CANCEL_REQUESTED" => d.graph = "CANCELLED"

LEMMA AskEpoch ==
    ASSUME NEW d, NEW r \in BOOLEAN, Sound(d, r), Follows(d)
    PROVE  LET D == RequestOrResume(d, "wf", {"ACTIVE"}) IN Sound(D, r) /\ Follows(D)
<1> DEFINE D == RequestOrResume(d, "wf", {"ACTIVE"})
           w == d.agg["wf"]
<1>1. CASE w.state = "PAUSE_REQUESTED"
  <2>1. D = RequestChildren(d, "wf", "REQUEST_PAUSE")
    BY <1>1 DEF RequestOrResume, Requested
  <2> HIDE DEF D
  <2>2. /\ Sound(D, r) /\ D.graph = d.graph /\ D.agg["wf"] = d.agg["wf"]
        /\ D.agg["ep"] = d.agg["ep"] \/ D.agg["ep"].state = "PAUSE_REQUESTED"
    BY <2>1, RequestEpoch
  <2> QED BY <2>2 DEF Follows, D
<1>2. CASE w.state = "CANCEL_REQUESTED"
  <2>1. D = RequestChildren(d, "wf", "REQUEST_CANCEL") /\ d.graph = "CANCELLED"
    BY <1>2 DEF RequestOrResume, Requested, Follows
  <2> HIDE DEF D
  <2>2. Sound(D, r) /\ D.graph = d.graph /\ D.agg["wf"] = d.agg["wf"]
    BY <2>1, RequestEpoch
  <2> QED BY <2>1, <2>2 DEF Follows, D
<1>3. CASE w.state = "ACTIVE"
  <2>1. D = ResumeChildren(d, "wf")
    BY <1>3 DEF RequestOrResume, Requested
  <2> HIDE DEF D
  <2>2. /\ Sound(D, r) /\ D.graph = d.graph /\ D.agg["wf"] = d.agg["wf"]
        /\ D.agg["ep"] = d.agg["ep"] \/ D.agg["ep"].state \in {"RUNNING", "FINALIZING"}
    BY <1>3, <2>1, ResumeEpoch
  <2> QED BY <2>2 DEF Follows, D
<1>4. CASE w.state \notin {"PAUSE_REQUESTED", "CANCEL_REQUESTED", "ACTIVE"}
  <2>1. D = d
    BY <1>4 DEF RequestOrResume, Requested
  <2> QED BY <2>1
<1> QED BY <1>1, <1>2, <1>3, <1>4

LEMMA AskNodes ==
    ASSUME NEW d, NEW r \in BOOLEAN, Sound(d, r), Follows(d)
    PROVE  LET D == RequestOrResume(d, "ep", {"RUNNING", "FINALIZING"}) IN Sound(D, r) /\ Follows(D)
<1> DEFINE D == RequestOrResume(d, "ep", {"RUNNING", "FINALIZING"})
           p == d.agg["ep"]
<1>1. CASE p.state = "PAUSE_REQUESTED"
  <2>1. D = RequestChildren(d, "ep", "REQUEST_PAUSE")
    BY <1>1 DEF RequestOrResume, Requested
  <2> HIDE DEF D
  <2>2. Sound(D, r) /\ D.graph = d.graph /\ D.agg["wf"] = d.agg["wf"] /\ D.agg["ep"] = d.agg["ep"]
    BY <2>1, RequestNodes
  <2> QED BY <2>2 DEF Follows, D
<1>2. CASE p.state = "CANCEL_REQUESTED"
  <2>1. D = RequestChildren(d, "ep", "REQUEST_CANCEL") /\ d.graph = "CANCELLED"
    BY <1>2 DEF RequestOrResume, Requested, Follows
  <2> HIDE DEF D
  <2>2. Sound(D, r) /\ D.graph = d.graph /\ D.agg["wf"] = d.agg["wf"] /\ D.agg["ep"] = d.agg["ep"]
    BY <1>2, <2>1, RequestNodes
  <2> QED BY <2>2 DEF Follows, D
<1>3. CASE p.state \in {"RUNNING", "FINALIZING"}
  <2>1. D = ResumeChildren(d, "ep")
    BY <1>3 DEF RequestOrResume, Requested
  <2> HIDE DEF D
  <2>2. Sound(D, r) /\ D.graph = d.graph /\ D.agg["wf"] = d.agg["wf"] /\ D.agg["ep"] = d.agg["ep"]
    BY <1>3, <2>1, ResumeNodes
  <2> QED BY <2>2 DEF Follows, D
<1>4. CASE p.state \notin {"PAUSE_REQUESTED", "CANCEL_REQUESTED", "RUNNING", "FINALIZING"}
  <2>1. D = d
    BY <1>4 DEF RequestOrResume, Requested
  <2> QED BY <2>1
<1> QED BY <1>1, <1>2, <1>3, <1>4

LEMMA ConfirmEpoch ==
    ASSUME NEW d, NEW r \in BOOLEAN, Sound(d, r), Follows(d)
    PROVE  LET D == ConfirmParent(d, "ep") IN Sound(D, r) /\ Follows(D)
<1> DEFINE D == ConfirmParent(d, "ep")
           p == d.agg["ep"]
<1>1. CASE p.state = "PAUSE_REQUESTED" /\ \A n \in Nodes : Settled(d, n, "REQUEST_PAUSE")
  <2>1. D = Dispatch(d, "ep", "NODES_PAUSED")
    BY <1>1 DEF ConfirmParent, Requested, Confirmation, Children
  <2>2. Legal(d, "ep", "NODES_PAUSED")
    BY <1>1, EpochLegal
  <2>3. EpochSide(d, "NODES_PAUSED", r)
    BY <1>1 DEF EpochSide, Settled, SettledBy
  <2> DEFINE y == Moved(d, "ep", "NODES_PAUSED")
             out == EpochStep[<<d.agg["ep"].state, "NODES_PAUSED">>][4]
  <2>4. EpochMove(p, "NODES_PAUSED", y, out)
    BY <2>2, EpochMoves
  <2> HIDE DEF D, y, out
  <2>5. Sound(D, r) /\ D.graph = d.graph /\ D.agg["wf"] = d.agg["wf"] /\ D.agg["ep"] = y
    BY <2>1, <2>2, <2>3, EpochChange DEF y
  <2>6. y.state = "PAUSED"
    BY <2>4 DEF EpochMove
  <2> QED BY <2>5, <2>6 DEF Follows, D
<1>2. CASE p.state = "CANCEL_REQUESTED" /\ \A n \in Nodes : Settled(d, n, "REQUEST_CANCEL")
  <2>1. D = Dispatch(d, "ep", "NODES_CANCELLED") /\ d.graph = "CANCELLED"
    BY <1>2 DEF ConfirmParent, Requested, Confirmation, Children, Follows
  <2>2. Legal(d, "ep", "NODES_CANCELLED")
    BY <1>2, EpochLegal
  <2>3. EpochSide(d, "NODES_CANCELLED", r)
    BY <1>2 DEF EpochSide, Settled, SettledBy
  <2> HIDE DEF D
  <2>4. Sound(D, r) /\ D.graph = d.graph /\ D.agg["wf"] = d.agg["wf"]
    BY <2>1, <2>2, <2>3, EpochChange
  <2> QED BY <2>1, <2>4 DEF Follows, D
<1>3. CASE ~(p.state = "PAUSE_REQUESTED" /\ \A n \in Nodes : Settled(d, n, "REQUEST_PAUSE"))
           /\ ~(p.state = "CANCEL_REQUESTED" /\ \A n \in Nodes : Settled(d, n, "REQUEST_CANCEL"))
  <2>1. D = d
    <3>1. Children("ep") = Nodes
      BY DEF Children
    <3>2. CASE p.state = "PAUSE_REQUESTED"
      <4>1. Requested(p.state) = "REQUEST_PAUSE"
        BY <3>2 DEF Requested
      <4> QED BY <1>3, <3>1, <3>2, <4>1 DEF ConfirmParent
    <3>3. CASE p.state = "CANCEL_REQUESTED"
      <4>1. Requested(p.state) = "REQUEST_CANCEL"
        BY <3>3 DEF Requested
      <4> QED BY <1>3, <3>1, <3>3, <4>1 DEF ConfirmParent
    <3>4. CASE p.state \notin {"PAUSE_REQUESTED", "CANCEL_REQUESTED"}
      <4>1. Requested(p.state) = "none"
        BY <3>4 DEF Requested
      <4> QED BY <4>1 DEF ConfirmParent
    <3> QED BY <3>2, <3>3, <3>4
  <2> QED BY <2>1
<1> QED BY <1>1, <1>2, <1>3

\* The workflow's confirmation, in the reconciliation and in the propagation.
LEMMA ConfirmWorkflow ==
    ASSUME NEW d, NEW r \in BOOLEAN, Sound(d, r), NEW act \in {"REQUEST_PAUSE", "REQUEST_CANCEL"},
           Settled(d, "ep", act), Legal(d, "wf", Confirmation("wf", act)),
           act = "REQUEST_CANCEL" /\ d.agg["ep"].state = "CANCELLED" => d.graph = "CANCELLED"
    PROVE  Sound(Dispatch(d, "wf", Confirmation("wf", act)), r)
<1> DEFINE a == Confirmation("wf", act)
<1>1. a = IF act = "REQUEST_PAUSE" THEN "CHILDREN_PAUSED" ELSE "CHILDREN_CANCELLED"
  BY DEF Confirmation
<1>2. d.agg["ep"].state \in {"COMPLETED", "CANCELLED"} \cup
          (IF act = "REQUEST_PAUSE" THEN {"PAUSED", "TRIAGE_REQUIRED"} ELSE {})
  BY Names DEF Settled, SettledBy
<1>3. Legal(d, "wf", a)
  OBVIOUS
<1> HIDE DEF a
<1>4. WorkflowSide(d, a, r)
  BY <1>1, <1>2 DEF WorkflowSide
<1>5. a \notin {"REPLACEMENT_WORKFLOW_STARTED", "REPLACEMENT_WORKFLOW_ABORTED"}
  BY <1>1
<1>6. Sound(Dispatch(d, "wf", a), r)
  BY <1>3, <1>4, <1>5, WorkflowDispatch
<1> QED BY <1>6 DEF a

LEMMA ConfirmTop ==
    ASSUME NEW d, NEW r \in BOOLEAN, Sound(d, r), Follows(d)
    PROVE  Sound(ConfirmParent(d, "wf"), r)
<1> DEFINE act == Requested(d.agg["wf"].state)
<1>1. Children("wf") = {"ep"}
  BY DEF Children
<1>2. CASE act # "none" /\ Settled(d, "ep", act)
  <2>1. ConfirmParent(d, "wf") = Dispatch(d, "wf", Confirmation("wf", act))
    BY <1>1, <1>2 DEF ConfirmParent
  <2>2. /\ act \in {"REQUEST_PAUSE", "REQUEST_CANCEL"}
        /\ act = "REQUEST_PAUSE" => d.agg["wf"].state = "PAUSE_REQUESTED"
        /\ act = "REQUEST_CANCEL" => d.agg["wf"].state = "CANCEL_REQUESTED"
    BY <1>2 DEF Requested
  <2>3. Legal(d, "wf", Confirmation("wf", act))
    BY <2>2, WorkflowLegal DEF Confirmation
  <2>4. d.agg["ep"].state = "CANCELLED" => d.graph = "CANCELLED"
    BY DEF Follows
  <2> HIDE DEF act
  <2> QED BY <1>2, <2>1, <2>2, <2>3, <2>4, ConfirmWorkflow
<1>3. CASE ~(act # "none" /\ Settled(d, "ep", act))
  <2>1. ConfirmParent(d, "wf") = d
    BY <1>1, <1>3 DEF ConfirmParent
  <2> QED BY <2>1
<1> QED BY <1>2, <1>3

\* Reconciliation of a sound repository leaves a sound one, with the intent projected.
LEMMA ReconciledSound ==
    ASSUME NEW d, NEW r \in BOOLEAN, Sound(d, r), NEW D \in Reconciled(d)
    PROVE  Sound(D, r) /\ Projected(D, r)
<1> DEFINE a == ProjectCycles(d)
           b == RequestOrResume(a, "wf", {"ACTIVE"})
           c == RequestOrResume(b, "ep", {"RUNNING", "FINALIZING"})
           e == ConfirmParent(c, "ep")
           f == ConfirmParent(e, "wf")
<1>1. D = ProjectCycles(f)
  BY Zenon DEF Reconciled
<1>2. /\ Sound(a, r) /\ a.agg = d.agg
      /\ d.agg["wf"].state = "CANCEL_REQUESTED" => a.graph = "CANCELLED"
      /\ Projected(a, r)
  BY ProjectSound
<1> HIDE DEF a
<1>3. Follows(a)
  BY <1>2 DEF Follows, Projected
<1>4. Sound(b, r) /\ Follows(b)
  BY <1>2, <1>3, AskEpoch
<1> HIDE DEF b
<1>5. Sound(c, r) /\ Follows(c)
  BY <1>4, AskNodes
<1> HIDE DEF c
<1>6. Sound(e, r) /\ Follows(e)
  BY <1>5, ConfirmEpoch
<1> HIDE DEF e
<1>7. Sound(f, r)
  BY <1>6, ConfirmTop
<1> HIDE DEF f
<1> QED BY <1>1, <1>7, ProjectSound

-----------------------------------------------------------------------------
(* The handlers of the workflow and of the epoch                             *)

LEMMA EndedEpoch ==
    ASSUME NEW d, IsDatabase(d), d.agg["ep"].state \in {"COMPLETED", "CANCELLED"}, NEW act
    PROVE  RequestChildren(d, "wf", act) = d
<1> DEFINE S == {b \in {"ep"} : MustRequest(d, b, act)}
<1>1. ~MustRequest(d, "ep", act)
  BY Names DEF MustRequest, Settled, SettledBy
<1>2. S = {}
  BY <1>1
<1>3. RequestChildren(d, "wf", act) = DispatchAll(d, S, act)
  BY DEF RequestChildren, Children
<1> HIDE DEF S
<1> QED BY <1>2, <1>3, DispatchNone

LEMMA PropagateSound ==
    ASSUME NEW d, NEW r \in BOOLEAN, Sound(d, r), Projected(d, r), NEW act \in {"REQUEST_PAUSE", "REQUEST_CANCEL"},
           NEW confirm \in BOOLEAN, act = "REQUEST_CANCEL" => CancelSide(d.agg["wf"])
    PROVE  Sound(Propagate(d, act, confirm), r)
<1> DEFINE b == RequestChildren(d, "wf", act)
<1>1. /\ Sound(b, r) /\ b.graph = d.graph /\ b.agg["wf"] = d.agg["wf"]
      /\ \/ b.agg["ep"] = d.agg["ep"]
         \/ act = "REQUEST_PAUSE" /\ b.agg["ep"].state = "PAUSE_REQUESTED"
         \/ act = "REQUEST_CANCEL" /\ b.agg["ep"].state = "CANCEL_REQUESTED"
  <2>1. CASE d.agg["ep"].state \in {"COMPLETED", "CANCELLED"}
    <3>1. b = d
      BY <2>1, EndedEpoch DEF Sound
    <3> QED BY <3>1
  <2>2. CASE d.agg["ep"].state \notin {"COMPLETED", "CANCELLED"}
    <3>1. ParentPart(d.agg["wf"], d.agg["ep"], d.graph, r)
      BY DEF Sound
    <3>2. act = "REQUEST_CANCEL" => d.graph = "CANCELLED" \/ d.agg["wf"].state = "CANCEL_REQUESTED"
      BY <2>2, <3>1 DEF ParentPart, CancelSide
    <3> QED BY <3>2, RequestEpoch
  <2> QED BY <2>1, <2>2
<1>2. Propagate(d, act, confirm) = IF confirm /\ Settled(b, "ep", act) /\ Legal(b, "wf", Confirmation("wf", act))
                                   THEN Dispatch(b, "wf", Confirmation("wf", act)) ELSE b
  BY DEF Propagate
<1> HIDE DEF b
<1>3. CASE confirm /\ Settled(b, "ep", act) /\ Legal(b, "wf", Confirmation("wf", act))
  <2>1. act = "REQUEST_CANCEL" /\ b.agg["ep"].state = "CANCELLED" => b.graph = "CANCELLED"
    BY <1>1 DEF Projected
  <2>2. Sound(Dispatch(b, "wf", Confirmation("wf", act)), r)
    BY <1>1, <1>3, <2>1, ConfirmWorkflow
  <2> QED BY <1>2, <1>3, <2>2
<1>4. CASE ~(confirm /\ Settled(b, "ep", act) /\ Legal(b, "wf", Confirmation("wf", act)))
  BY <1>1, <1>2, <1>4
<1> QED BY <1>3, <1>4

LEMMA CompleteSound ==
    ASSUME NEW d, NEW r \in BOOLEAN, Sound(d, r), d.agg["ep"].state = "COMPLETED", NEW D \in CompleteWorkflow(d)
    PROVE  Sound(D, r)
<1>1. Legal(d, "wf", "MARK_COMPLETED") /\ D = Dispatch(d, "wf", "MARK_COMPLETED")
  BY DEF CompleteWorkflow
<1>2. WorkflowSide(d, "MARK_COMPLETED", r)
  BY DEF WorkflowSide
<1> QED BY <1>1, <1>2, WorkflowDispatch

LEMMA ReconcileWorkflowSound ==
    ASSUME NEW d, NEW r \in BOOLEAN, Sound(d, r), Projected(d, r), NEW D \in ReconcileWorkflow(d)
    PROVE  Sound(D, r)
<1> DEFINE st == d.agg["wf"].state
<1>1. CASE st = "PAUSE_REQUESTED"
  <2>1. D = Propagate(d, "REQUEST_PAUSE", TRUE)
    BY <1>1 DEF ReconcileWorkflow, Requested
  <2> QED BY <2>1, PropagateSound
<1>2. CASE st = "CANCEL_REQUESTED"
  <2>1. D = Propagate(d, "REQUEST_CANCEL", TRUE) /\ CancelSide(d.agg["wf"])
    BY <1>2 DEF ReconcileWorkflow, Requested, CancelSide
  <2> QED BY <2>1, PropagateSound
<1>3. CASE st = "ACTIVE"
  <2> DEFINE b == ResumeChildren(d, "wf")
  <2>1. D \in (IF b.agg["ep"].state = "COMPLETED" THEN CompleteWorkflow(b) ELSE {b})
    BY <1>3 DEF ReconcileWorkflow, Requested
  <2>2. Sound(b, r)
    BY <1>3, ResumeEpoch
  <2> HIDE DEF b
  <2> QED BY <2>1, <2>2, CompleteSound
<1>4. CASE st \notin {"PAUSE_REQUESTED", "CANCEL_REQUESTED", "ACTIVE"}
  <2>1. D = d
    BY <1>4 DEF ReconcileWorkflow, Requested
  <2> QED BY <2>1
<1> QED BY <1>1, <1>2, <1>3, <1>4

LEMMA Replace ==
    ASSUME NEW b, IsDatabase(b), NEW D, NEW v, D = [b EXCEPT !.replacement = v]
    PROVE  /\ IsDatabase(D) /\ D.agg = b.agg /\ D.fx = b.fx /\ D.cyc = b.cyc /\ D.graph = b.graph
           /\ D.restart = b.restart /\ D.replacement = v
<1>1. b = [agg |-> b.agg, cyc |-> b.cyc, graph |-> b.graph, fx |-> b.fx, restart |-> b.restart,
           replacement |-> b.replacement, rejections |-> b.rejections]
  BY DEF IsDatabase
<1>2. D = [agg |-> b.agg, cyc |-> b.cyc, graph |-> b.graph, fx |-> b.fx, restart |-> b.restart,
           replacement |-> v, rejections |-> b.rejections]
  BY <1>1
<1>3. /\ D.agg = b.agg /\ D.fx = b.fx /\ D.cyc = b.cyc /\ D.graph = b.graph
      /\ D.restart = b.restart /\ D.replacement = v /\ D.rejections = b.rejections
  BY <1>2
<1>4. IsDatabase(D)
  BY <1>2, <1>3 DEF IsDatabase
<1> QED BY <1>3, <1>4

LEMMA ReplacementSound ==
    ASSUME NEW d, NEW r \in BOOLEAN, Sound(d, r), NEW D \in StartReplacement(d)
    PROVE  Sound(D, r)
<1> DEFINE Over == d.restart = "none" \/ d.agg["wf"].state = "CANCELLED"
           Abort == d.restart = "aborted" /\ d.replacement = "absent"
<1>1. CASE D = d
  BY <1>1
<1>2. CASE D # d
  <2>1. d.agg["wf"].state = "RESTARTING" /\ ~Over
    BY <1>2 DEF StartReplacement
  <2>2. /\ Legal(d, "wf", "REPLACEMENT_WORKFLOW_STARTED") /\ Legal(d, "wf", "REPLACEMENT_WORKFLOW_ABORTED")
        /\ WorkflowSide(d, "REPLACEMENT_WORKFLOW_STARTED", r) /\ WorkflowSide(d, "REPLACEMENT_WORKFLOW_ABORTED", r)
    BY <2>1, WorkflowLegal DEF WorkflowSide
  <2>3. IsDatabase(d) /\ {"wf"} \in SUBSET Aggregates
    BY Names DEF Sound
  <2>4. CASE Abort
    <3> DEFINE act == "REPLACEMENT_WORKFLOW_ABORTED"
    <3>1. D = Dispatch(d, "wf", act)
      BY <1>2, <2>1, <2>4 DEF StartReplacement
    <3>2. IsDatabase(D) /\ Dispatched(d, D, {"wf"}, act) /\ D.cyc = d.cyc /\ D.graph = d.graph
      BY <2>3, <3>1, DispatchShape DEF Dispatch
    <3>3. ReplacementPart(D)
      BY <2>4, <3>2 DEF ReplacementPart, Dispatched
    <3>4. D.agg = Dispatch(d, "wf", act).agg /\ D.fx = Dispatch(d, "wf", act).fx
      BY <3>1
    <3> QED BY <2>2, <3>2, <3>3, <3>4, WorkflowChange
  <2>5. CASE ~Abort
    <3> DEFINE act == "REPLACEMENT_WORKFLOW_STARTED"
               b == Dispatch(d, "wf", act)
               v == IF d.restart = "aborted" THEN "cancelled" ELSE "running"
    <3>1. D = [b EXCEPT !.replacement = v]
      BY <1>2, <2>1, <2>5 DEF StartReplacement
    <3>2. IsDatabase(b) /\ Dispatched(d, b, {"wf"}, act) /\ b.cyc = d.cyc /\ b.graph = d.graph
      BY <2>3, DispatchShape DEF Dispatch
    <3> HIDE DEF b, v
    <3>3. /\ IsDatabase(D) /\ D.agg = b.agg /\ D.fx = b.fx /\ D.cyc = b.cyc /\ D.graph = b.graph
          /\ D.restart = b.restart /\ D.replacement = v
      BY <3>1, <3>2, Replace
    <3>4. ReplacementPart(D)
      BY <3>2, <3>3 DEF ReplacementPart, Dispatched, v
    <3>5. D.agg = Dispatch(d, "wf", act).agg /\ D.fx = Dispatch(d, "wf", act).fx
      BY <3>3 DEF b
    <3>6. D.cyc = d.cyc /\ D.graph = d.graph
      BY <3>2, <3>3
    <3> QED BY <2>2, <3>3, <3>4, <3>5, <3>6, WorkflowChange
  <2> QED BY <2>4, <2>5
<1> QED BY <1>1, <1>2

LEMMA NodeAcceptedSound ==
    ASSUME NEW d, NEW r \in BOOLEAN, Sound(d, r), NEW n
    PROVE  Sound(NodeAccepted(d, n), r)
<1> DEFINE b == Schedule(d)
           act == "ALL_REQUIRED_NODES_ACCEPTED"
<1>1. Sound(b, r)
  BY ScheduleSound
<1>2. NodeAccepted(d, n) = IF b.graph = "COMPLETED" /\ n = Sink /\ b.agg["ep"].state = "RUNNING"
                           THEN Dispatch(b, "ep", act) ELSE b
  BY DEF NodeAccepted
<1> HIDE DEF b
<1>3. CASE b.graph = "COMPLETED" /\ b.agg["ep"].state = "RUNNING"
  <2>1. \A m \in Nodes : b.cyc[m].state = "ACCEPTED"
    BY <1>1, <1>3 DEF Sound, CheckPart
  <2>2. \A m \in Nodes : b.agg[m].state = "ACCEPTED"
    BY <1>1, <2>1 DEF Sound, NodePart, SlotPart
  <2>3. EpochSide(b, act, r)
    BY <2>2 DEF EpochSide
  <2>4. Legal(b, "ep", act)
    BY <1>3, EpochLegal
  <2>5. Sound(Dispatch(b, "ep", act), r)
    BY <1>1, <2>3, <2>4, EpochChange
  <2> QED BY <1>1, <1>2, <2>5
<1>4. CASE ~(b.graph = "COMPLETED" /\ b.agg["ep"].state = "RUNNING")
  BY <1>1, <1>2, <1>4
<1> QED BY <1>3, <1>4

LEMMA PublishSound ==
    ASSUME NEW d, NEW r \in BOOLEAN, Sound(d, r), NEW D \in Publish(d)
    PROVE  Sound(D, r)
<1> DEFINE act == "FINAL_DELIVERABLE_PUBLISHED"
<1>1. Legal(d, "ep", act) /\ d.graph = "COMPLETED" /\ D = Dispatch(d, "ep", act)
  BY DEF Publish
<1>2. EpochSide(d, act, r)
  BY <1>1 DEF EpochSide
<1> QED BY <1>1, <1>2, EpochChange

LEMMA ReconcileEpochSound ==
    ASSUME NEW d, NEW r \in BOOLEAN, Sound(d, r), Projected(d, r), NEW D \in ReconcileEpoch(d)
    PROVE  Sound(D, r)
<1> DEFINE st == d.agg["ep"].state
<1>1. CASE st = "PAUSE_REQUESTED"
  <2>1. D = RequestChildren(d, "ep", "REQUEST_PAUSE")
    BY <1>1 DEF ReconcileEpoch, Requested
  <2> QED BY <2>1, RequestNodes
<1>2. CASE st = "CANCEL_REQUESTED"
  <2>1. D = RequestChildren(d, "ep", "REQUEST_CANCEL") /\ d.graph = "CANCELLED"
    BY <1>2 DEF ReconcileEpoch, Requested, Projected
  <2> QED BY <1>2, <2>1, RequestNodes
<1>3. CASE st = "RUNNING"
  <2> DEFINE a == ResumeChildren(d, "ep")
             b == Schedule(a)
  <2>1. D = IF b.graph = "COMPLETED" THEN NodeAccepted(b, Sink) ELSE b
    BY <1>3 DEF ReconcileEpoch, Requested
  <2>2. Sound(a, r)
    BY <1>3, ResumeNodes
  <2> HIDE DEF a
  <2>3. Sound(b, r)
    BY <2>2, ScheduleSound
  <2> HIDE DEF b
  <2> QED BY <2>1, <2>3, NodeAcceptedSound
<1>4. CASE st = "FINALIZING"
  <2>1. D \in Publish(d)
    BY <1>4 DEF ReconcileEpoch, Requested
  <2> QED BY <2>1, PublishSound
<1>5. CASE st \notin {"PAUSE_REQUESTED", "CANCEL_REQUESTED", "RUNNING", "FINALIZING"}
  <2>1. D = d
    BY <1>5 DEF ReconcileEpoch, Requested
  <2> QED BY <2>1
<1> QED BY <1>1, <1>2, <1>3, <1>4, <1>5

-----------------------------------------------------------------------------
(* Every handler                                                             *)

\* The outbox may hold any effects that fit the aggregates.
LEMMA OutboxSound ==
    ASSUME NEW d, NEW r \in BOOLEAN, Sound(d, r), NEW D, NEW F, D = [d EXCEPT !.fx = F],
           \A e \in F : IsEffect(e) /\ EffectPart(e, d.agg)
    PROVE  /\ Sound(D, r) /\ D.agg = d.agg /\ D.cyc = d.cyc /\ D.graph = d.graph
           /\ Projected(d, r) => Projected(D, r)
<1>1. d = [agg |-> d.agg, cyc |-> d.cyc, graph |-> d.graph, fx |-> d.fx, restart |-> d.restart,
           replacement |-> d.replacement, rejections |-> d.rejections]
  BY DEF Sound, IsDatabase
<1>2. D = [agg |-> d.agg, cyc |-> d.cyc, graph |-> d.graph, fx |-> F, restart |-> d.restart,
           replacement |-> d.replacement, rejections |-> d.rejections]
  BY <1>1
<1>3. /\ D.agg = d.agg /\ D.fx = F /\ D.cyc = d.cyc /\ D.graph = d.graph
      /\ D.restart = d.restart /\ D.replacement = d.replacement /\ D.rejections = d.rejections
  BY <1>2
<1>4. IsDatabase(D)
  BY <1>2, <1>3 DEF Sound, IsDatabase
<1>5. ChildPart(D, r) /\ ReplacementPart(D)
  BY <1>3 DEF Sound, ChildPart, ReplacementPart
<1>6. CheckPart(D)
  BY <1>3 DEF Sound, CheckPart
<1>7. Sound(D, r)
  BY <1>3, <1>4, <1>5, <1>6 DEF Sound
<1>8. Projected(d, r) => Projected(D, r)
  BY <1>3 DEF Projected
<1> QED BY <1>3, <1>7, <1>8

LEMMA DropSound ==
    ASSUME NEW d, NEW r \in BOOLEAN, Sound(d, r), NEW e
    PROVE  LET D == Drop(d, e) IN
           /\ Sound(D, r) /\ D.agg = d.agg /\ D.cyc = d.cyc /\ D.graph = d.graph
           /\ Projected(d, r) => Projected(D, r)
<1> DEFINE D == Drop(d, e)
           F == d.fx \ {e}
<1>1. D = [d EXCEPT !.fx = F]
  BY DEF Drop
<1>2. \A f \in F : IsEffect(f) /\ EffectPart(f, d.agg)
  BY DEF Sound, IsDatabase
<1> HIDE DEF D, F
<1>3. /\ Sound(D, r) /\ D.agg = d.agg /\ D.cyc = d.cyc /\ D.graph = d.graph
      /\ Projected(d, r) => Projected(D, r)
  BY <1>1, <1>2, OutboxSound
<1> QED BY <1>3 DEF D

LEMMA EffectPlaces ==
    ASSUME NEW e, NEW agg, IsEffect(e), EffectPart(e, agg)
    PROVE  /\ e.type \in NodeSemantic => e.of \in Nodes
           /\ e.type \in {"publish", "complete_workflow", "cancel_nodes", "pause_nodes", "freeze_nodes", "reconcile_epoch"}
                  => e.of = "ep"
           /\ e.type \in {"propagate_pause", "propagate_resume", "propagate_cancel", "freeze_children",
                          "reconcile_workflow", "start_replacement", "overtaken"} => e.of = "wf"
           /\ e.type \in NodeSemantic \cup {"schedule", "node_accepted", "publish", "complete_workflow", "pause_nodes",
                  "cancel_nodes", "freeze_nodes", "reconcile_epoch", "propagate_pause", "propagate_resume",
                  "propagate_cancel", "freeze_children", "reconcile_workflow", "start_replacement", "overtaken"}
<1>1. e.of \in Nodes \/ e.of = "ep" \/ e.of = "wf"
  BY Names DEF IsEffect
<1> QED BY <1>1 DEF EffectPart, NodeSemantic, Semantic

LEMMA OutcomesSound ==
    ASSUME NEW d, NEW r \in BOOLEAN, Sound(d, r), Projected(d, r), NEW e, IsEffect(e), EffectPart(e, d.agg),
           NEW D \in Outcomes(d, e)
    PROVE  Sound(D, r)
<1> DEFINE n == e.of
<1>1. CASE e.type \in {"propagate_pause", "freeze_children", "propagate_cancel"}
  <2>1. CASE e.type = "propagate_pause"
    <3>1. D = Propagate(d, "REQUEST_PAUSE", TRUE)
      BY <2>1 DEF Outcomes
    <3> QED BY <3>1, PropagateSound
  <2>2. CASE e.type = "freeze_children"
    <3>1. D = Propagate(d, "REQUEST_PAUSE", FALSE)
      BY <2>2 DEF Outcomes
    <3> QED BY <3>1, PropagateSound
  <2>3. CASE e.type = "propagate_cancel"
    <3>1. D = Propagate(d, "REQUEST_CANCEL", TRUE)
      BY <2>3 DEF Outcomes
    <3>2. CancelSide(d.agg["wf"])
      BY <2>3, EffectPlaces DEF EffectPart
    <3> QED BY <3>1, <3>2, PropagateSound
  <2> QED BY <1>1, <2>1, <2>2, <2>3
<1>2. CASE e.type \in {"propagate_resume", "reconcile_workflow"}
  <2>1. D \in ReconcileWorkflow(d)
    BY <1>2 DEF Outcomes
  <2> QED BY <2>1, ReconcileWorkflowSound
<1>3. CASE e.type = "start_replacement"
  <2>1. D \in StartReplacement(d)
    BY <1>3 DEF Outcomes
  <2> QED BY <2>1, ReplacementSound
<1>4. CASE e.type \in {"pause_nodes", "freeze_nodes"}
  <2>1. D = RequestChildren(d, "ep", "REQUEST_PAUSE")
    BY <1>4 DEF Outcomes
  <2> QED BY <2>1, RequestNodes
<1>5. CASE e.type = "cancel_nodes"
  <2>1. D = RequestChildren(d, "ep", "REQUEST_CANCEL")
    BY <1>5 DEF Outcomes
  <2>2. d.agg["ep"].state \in {"CANCEL_REQUESTED", "CANCELLED"}
    BY <1>5, EffectPlaces DEF EffectPart
  <2>3. d.graph = "CANCELLED" /\ d.agg["ep"].state # "PAUSED"
    BY <2>2 DEF Projected
  <2> QED BY <2>1, <2>3, RequestNodes
<1>6. CASE e.type = "reconcile_epoch"
  <2>1. D \in ReconcileEpoch(d)
    BY <1>6 DEF Outcomes
  <2> QED BY <2>1, ReconcileEpochSound
<1>7. CASE e.type = "publish"
  <2>1. D \in Publish(d)
    BY <1>7 DEF Outcomes
  <2> QED BY <2>1, PublishSound
<1>8. CASE e.type = "complete_workflow"
  <2>1. D \in CompleteWorkflow(d)
    BY <1>8 DEF Outcomes
  <2>2. d.agg["ep"].state = "COMPLETED"
    BY <1>8, EffectPlaces DEF EffectPart
  <2> QED BY <2>1, <2>2, CompleteSound
<1>9. CASE e.type = "schedule"
  <2>1. D = Schedule(d)
    BY <1>9 DEF Outcomes
  <2> QED BY <2>1, ScheduleSound
<1>10. CASE e.type = "node_accepted"
  <2>1. D = NodeAccepted(d, n)
    BY <1>10 DEF Outcomes
  <2> QED BY <2>1, NodeAcceptedSound
<1>11. CASE e.type \in {"park_role", "overtaken"}
  <2>1. D = d
    BY <1>11 DEF Outcomes
  <2> QED BY <2>1
<1>12. CASE e.type \in NodeSemantic \ {"park_role"}
  <2>1. n \in Nodes
    BY <1>12, EffectPlaces
  <2>2. CASE e.type \in {"admit_produce", "admit_review", "admit_repair"}
    <3>1. \/ D \in Admit(d, n, "START_PRODUCING", "producer")
          \/ D \in Admit(d, n, "START_REVIEW", "checker")
          \/ D \in Admit(d, n, "START_REPAIR", "producer")
      BY <2>2 DEF Outcomes
    <3> HIDE DEF n
    <3> QED BY <2>1, <3>1, AdmitSound
  <2>3. CASE e.type \in {"run_produce", "run_repair", "run_review", "quiesce", "quiesce_review"}
    <3>1. \/ D \in Advance(d, n, "PRODUCING", "SUBMIT_CANDIDATE")
          \/ D \in Advance(d, n, "REPAIRING", "SUBMIT_CANDIDATE")
          \/ D \in Advance(d, n, "REVIEWING", "SUBMIT_SEMANTIC_VERIFICATION")
          \/ D \in Advance(d, n, "QUIESCING", "QUIESCE_COMPLETED")
          \/ D \in Advance(d, n, "REVIEW_QUIESCING", "VERIFIER_QUIESCED")
      BY <2>3 DEF Outcomes
    <3> HIDE DEF n
    <3> QED BY <2>1, <3>1, AdvanceSound
  <2>4. CASE e.type \in {"snapshot", "snapshot_review"}
    <3>1. D \in Snapshot(d, n) \/ D \in Commit(d, n)
      BY <2>4 DEF Outcomes
    <3> HIDE DEF n
    <3> QED BY <2>1, <3>1, SnapshotSound, CommitSound
  <2>5. CASE e.type \in {"pause_role", "cancel_role"}
    <3>1. D \in StopRole(d, n, FALSE) \/ D \in StopRole(d, n, TRUE)
      BY <2>5 DEF Outcomes
    <3> HIDE DEF n
    <3> QED BY <2>1, <3>1, StopSound
  <2>6. CASE e.type \in {"resume_role", "reconcile_role"}
    <3>1. D \in ResumeRole(d, n) \/ D \in ReconcileRole(d, n)
      BY <2>6 DEF Outcomes
    <3> HIDE DEF n
    <3> QED BY <2>1, <3>1, ResumeRoleSound, ReconcileRoleSound
  <2> QED BY <1>12, <2>2, <2>3, <2>4, <2>5, <2>6 DEF NodeSemantic, Semantic
<1> QED BY <1>1, <1>2, <1>3, <1>4, <1>5, <1>6, <1>7, <1>8, <1>9, <1>10, <1>11, <1>12, EffectPlaces

-----------------------------------------------------------------------------
(* Effects that fail for good                                                *)

LEMMA TriagePart ==
    ASSUME NEW x, NEW act \in {"ENTER_TRIAGE", "ROLE_FAILED"}, NEW y, NEW out, NEW c, NEW e, NEW g, NEW r \in BOOLEAN,
           NodePart(x, c, g, r), NodeMove(x, act, y, out), IsCycle(c), c.state # "CANCELLED",
           \/ c.state = "TRIAGE_REQUIRED" /\ e = c
           \/ /\ c.state # "TRIAGE_REQUIRED" /\ e.state = "TRIAGE_REQUIRED"
              /\ e.resume = ReadyState(c.state) /\ e.busy = FALSE
    PROVE  NodePart(y, e, g, r)
<1>1. NodeShape(x) /\ CycleShape(c) /\ SlotPart(x, c) /\ CancelPart(x, c, g) /\ NodeShape(y)
  BY NodeMoveShape DEF NodePart
<1>2. /\ x.state \notin {"ACCEPTED", "CANCELLED", "PAUSED"} /\ y.state = "TRIAGE_REQUIRED"
      /\ y.triage = IF x.state = "TRIAGE_REQUIRED" THEN x.triage ELSE x.state
  BY DEF NodeMove, ControlActs
<1>3. e.state = "TRIAGE_REQUIRED" /\ ~e.busy /\ c.state # "ACCEPTED"
  BY <1>1, <1>2 DEF CycleShape, SlotPart
<1>4. CycleShape(e)
  BY <1>1, <1>3 DEF CycleShape, CycleStates, ReadyState
<1>5. SlotPart(y, e)
  BY <1>2, <1>3 DEF SlotPart, RunningNode
<1>6. CancelPart(y, e, g)
  BY <1>1, <1>2, <1>3 DEF CancelPart, ReadyState
<1>7. CandidatePart(y, e)
  BY <1>2 DEF CandidatePart, Phase, ReviewNode
<1> QED BY <1>1, <1>4, <1>5, <1>6, <1>7 DEF NodePart

LEMMA TriageNode ==
    ASSUME NEW d, NEW r \in BOOLEAN, Sound(d, r), NEW n \in Nodes, NEW act \in {"ENTER_TRIAGE", "ROLE_FAILED"},
           Legal(d, n, act), CanTriageCycle(d.cyc[n])
    PROVE  Sound(TriageCycle(Dispatch(d, n, act), n), r)
<1> DEFINE b == Dispatch(d, n, act)
           c == d.cyc[n]
           m == CycleControl(c, "REQUIRE_TRIAGE")
           e == IF c.state = "TRIAGE_REQUIRED" THEN c ELSE m
           x == d.agg[n]
           y == Moved(d, n, act)
           out == NodeStep[<<d.agg[n].state, act>>][4]
<1>1. IsDatabase(d) /\ {n} \in SUBSET Aggregates /\ IsCycle(c) /\ NodePart(x, c, d.graph, r)
  BY Names DEF Sound, IsDatabase
<1>2. b.cyc = d.cyc
  BY <1>1, DispatchShape DEF Dispatch
<1>3. TriageCycle(b, n) = IF c.state = "TRIAGE_REQUIRED" THEN b ELSE WithCycle(b, n, m)
  BY <1>2 DEF TriageCycle
<1>4. NodeMove(x, act, y, out)
  BY NodeMoves
<1>5. m = [state |-> "TRIAGE_REQUIRED", resume |-> ReadyState(c.state), busy |-> FALSE]
  BY DEF CycleControl
<1>6. c.state # "CANCELLED"
  BY DEF CanTriageCycle
<1> HIDE DEF b, c, m, x, y, out
<1>7. m.state = "TRIAGE_REQUIRED" /\ m.resume = ReadyState(c.state) /\ m.busy = FALSE
  BY <1>5
<1>8. IsCycle(m)
  BY <1>5, <1>7 DEF IsCycle
<1>9. CASE c.state = "TRIAGE_REQUIRED"
  <2>1. NodePart(y, c, d.graph, r)
    BY <1>1, <1>4, <1>6, <1>9, TriagePart
  <2>2. JointSide(d, n, act, c, r)
    BY <1>9, <2>1 DEF JointSide, y
  <2>3. Sound(b, r)
    BY <2>2, JointStay DEF b, c
  <2> QED BY <1>3, <1>9, <2>3 DEF b
<1>10. CASE c.state # "TRIAGE_REQUIRED"
  <2>1. NodePart(y, m, d.graph, r)
    BY <1>1, <1>4, <1>6, <1>7, <1>10, TriagePart
  <2>2. JointSide(d, n, act, m, r)
    BY <1>7, <2>1 DEF JointSide, y
  <2>3. Sound(WithCycle(b, n, m), r)
    BY <1>8, <2>2, JointMove DEF b
  <2> QED BY <1>3, <1>10, <2>3 DEF b
<1> QED BY <1>9, <1>10

\* A workflow that takes triage freezes its cycles, unless it was ending.
LEMMA TriageWorkflow ==
    ASSUME NEW d, NEW r \in BOOLEAN, Sound(d, r), Legal(d, "wf", "ENTER_TRIAGE"),
           d.agg["wf"].state = "CANCEL_REQUESTED" => d.agg["ep"].state = "COMPLETED"
    PROVE  LET b == Dispatch(d, "wf", "ENTER_TRIAGE") IN
           Sound(b, r) /\ (PausesCycles(b) => Sound(ControlGraph(b, "REQUEST_PAUSE"), r))
<1> DEFINE b == Dispatch(d, "wf", "ENTER_TRIAGE")
<1>1. WorkflowSide(d, "ENTER_TRIAGE", r)
  BY DEF WorkflowSide
<1>2. Sound(b, r)
  BY <1>1, WorkflowDispatch
<1> HIDE DEF b
<1>3. ASSUME PausesCycles(b) PROVE b.graph # "CANCELLED"
  <2>1. b.graph = "CANCELLED" => CancelSide(b.agg["wf"])
    BY <1>2 DEF Sound, ParentPart
  <2> QED BY <1>3, <2>1 DEF PausesCycles, CancelSide
<1>4. PausesCycles(b) => Sound(ControlGraph(b, "REQUEST_PAUSE"), r)
  BY <1>2, <1>3, PauseGraph
<1> QED BY <1>2, <1>4 DEF b

\* Where a failure can occur that is not retired quietly.
FailsAt(d, e) ==
    \/ e.of \in Nodes /\ e.type \in NodeSemantic
    \/ e.of = "ep" /\ d.agg["ep"].state \in {"FINALIZING", "COMPLETED"}
    \/ e.of = "wf" /\ d.agg["wf"].state = "RESTARTING"

LEMMA WorkflowAnswers ==
    ASSUME NEW d, NEW r \in BOOLEAN, Sound(d, r)
    PROVE  ReconcileWorkflow(d) # {}
<1> DEFINE st == d.agg["wf"].state
<1>1. CASE st = "ACTIVE"
  <2> DEFINE b == ResumeChildren(d, "wf")
  <2>1. ReconcileWorkflow(d) = IF b.agg["ep"].state = "COMPLETED" THEN CompleteWorkflow(b) ELSE {b}
    BY <1>1 DEF ReconcileWorkflow, Requested
  <2>2. b.agg["wf"].state = "ACTIVE"
    BY <1>1, ResumeEpoch
  <2> HIDE DEF b
  <2>3. Legal(b, "wf", "MARK_COMPLETED")
    <3> DEFINE row == <<"ACTIVE", "MARK_COMPLETED", "COMPLETED", {}>>
    <3>1. row \in WorkflowRows /\ row[1] = "ACTIVE" /\ row[2] = "MARK_COMPLETED"
      BY DEF WorkflowRows
    <3> HIDE DEF row
    <3>2. <<"ACTIVE", "MARK_COMPLETED">> \in DOMAIN Indexed(WorkflowRows)
      BY <3>1, LegalRow
    <3> QED BY <2>2, <3>2, Names DEF Legal, WorkflowStep
  <2>4. CompleteWorkflow(b) # {}
    BY <2>3 DEF CompleteWorkflow
  <2> QED BY <2>1, <2>4
<1>2. CASE st = "PAUSE_REQUESTED"
  BY <1>2 DEF ReconcileWorkflow, Requested
<1>3. CASE st = "CANCEL_REQUESTED"
  BY <1>3 DEF ReconcileWorkflow, Requested
<1>4. CASE st \notin {"ACTIVE", "PAUSE_REQUESTED", "CANCEL_REQUESTED"}
  BY <1>4 DEF ReconcileWorkflow, Requested
<1> QED BY <1>1, <1>2, <1>3, <1>4

LEMMA EpochAnswers ==
    ASSUME NEW d, d.agg["ep"].state # "FINALIZING"
    PROVE  ReconcileEpoch(d) # {}
<1> DEFINE st == d.agg["ep"].state
<1>1. CASE st = "RUNNING"
  BY <1>1 DEF ReconcileEpoch, Requested
<1>2. CASE st = "PAUSE_REQUESTED"
  BY <1>2 DEF ReconcileEpoch, Requested
<1>3. CASE st = "CANCEL_REQUESTED"
  BY <1>3 DEF ReconcileEpoch, Requested
<1>4. CASE st \notin {"RUNNING", "PAUSE_REQUESTED", "CANCEL_REQUESTED", "FINALIZING"}
  BY <1>4 DEF ReconcileEpoch, Requested
<1> QED BY <1>1, <1>2, <1>3, <1>4

LEMMA FailurePlaces ==
    ASSUME NEW d, NEW D, NEW r \in BOOLEAN, Sound(d, r), NEW e, IsEffect(e), EffectPart(e, d.agg),
           Sound(D, r), D.agg = d.agg, ~Superseded(d, e), Outcomes(D, e) = {} \/ e.type \in Fallible
    PROVE  FailsAt(d, e)
<1>1. CASE e.type \in NodeSemantic
  BY <1>1, EffectPlaces DEF FailsAt
<1>2. CASE e.type = "publish"
  BY <1>2, EffectPlaces DEF FailsAt, EffectPart
<1>3. CASE e.type = "complete_workflow"
  BY <1>3, EffectPlaces DEF FailsAt, EffectPart
<1>4. CASE e.type = "reconcile_epoch"
  <2>1. Outcomes(D, e) = ReconcileEpoch(D) /\ e.type \notin Fallible
    BY <1>4 DEF Outcomes, Fallible
  <2>2. D.agg["ep"].state = "FINALIZING"
    BY <2>1, EpochAnswers
  <2> QED BY <1>4, <2>2, EffectPlaces DEF FailsAt
<1>5. CASE e.type = "start_replacement"
  <2>1. e.of = "wf" /\ CancelSide(d.agg["wf"])
    BY <1>5, EffectPlaces DEF EffectPart
  <2>2. d.agg["wf"].state = "RESTARTING"
    BY <1>5, <2>1 DEF Superseded, CancelSide, Reconciling
  <2> QED BY <2>1, <2>2 DEF FailsAt
<1>6. CASE e.type \in {"propagate_resume", "reconcile_workflow"}
  <2>1. Outcomes(D, e) = ReconcileWorkflow(D) /\ e.type \notin Fallible
    BY <1>6 DEF Outcomes, Fallible
  <2> QED BY <2>1, WorkflowAnswers
<1>7. CASE e.type \in {"propagate_pause", "propagate_cancel", "freeze_children", "overtaken", "pause_nodes",
                       "cancel_nodes", "freeze_nodes", "schedule", "node_accepted"}
  <2>1. e.type \notin Fallible
    BY <1>7 DEF Fallible
  <2>2. Outcomes(D, e) # {}
    BY <1>7 DEF Outcomes
  <2> QED BY <2>1, <2>2
<1> QED BY <1>1, <1>2, <1>3, <1>4, <1>5, <1>6, <1>7, EffectPlaces

LEMMA TriagedSound ==
    ASSUME NEW d, NEW r \in BOOLEAN, Sound(d, r), NEW e \in d.fx, FailsAt(d, e), CanTriage(d, e)
    PROVE  Sound(Triaged(d, e), r)
<1> DEFINE to == TriageTarget(d, e)
           a == Drop(d, e)
           b == DispatchAll(a, to, "ENTER_TRIAGE")
<1>1. /\ Sound(a, r) /\ a.agg = d.agg /\ a.cyc = d.cyc
  BY DropSound
<1>2. IsEffect(e) /\ EffectPart(e, d.agg)
  BY DEF Sound, IsDatabase
<1>3. Triaged(d, e) = CASE to = {"wf"} /\ PausesCycles(b) -> ControlGraph(b, "REQUEST_PAUSE")
                        [] to \cap Nodes # {} -> TriageCycle(b, CHOOSE n \in Nodes : n \in to)
                        [] OTHER -> b
  BY DEF Triaged
<1>4. ASSUME NEW g, NEW act PROVE Legal(a, g, act) <=> Legal(d, g, act)
  BY <1>1 DEF Legal
<1>5. CASE e.of \in Nodes /\ e.type \in NodeSemantic
  <2> DEFINE n == e.of
  <2>1. d.agg[n].state \in NodeStates \ {"ACCEPTED", "CANCELLED", "PAUSED"}
    BY <1>2, <1>5 DEF EffectPart, Sound, NodePart, NodeShape
  <2>2. Legal(d, n, "ENTER_TRIAGE")
    BY <1>5, <2>1, NodeLegal
  <2>3. to = {n} /\ to # {"wf"} /\ to \cap Nodes # {} /\ n \in Nodes
    BY <1>5, <2>2, Names DEF TriageTarget
  <2>4. CanTriageCycle(d.cyc[n])
    BY <2>3 DEF CanTriage
  <2> HIDE DEF n, to, a
  <2>5. b = Dispatch(a, n, "ENTER_TRIAGE")
    BY <2>3 DEF Dispatch
  <2>6. (CHOOSE m \in Nodes : m \in to) = n
    BY <2>3
  <2> HIDE DEF b
  <2>7. Triaged(d, e) = TriageCycle(b, n)
    BY <1>3, <2>3, <2>6
  <2>8. Sound(TriageCycle(Dispatch(a, n, "ENTER_TRIAGE"), n), r)
    BY <1>1, <1>4, <2>2, <2>3, <2>4, TriageNode
  <2> QED BY <2>5, <2>7, <2>8
<1>6. CASE e.of = "ep" /\ d.agg["ep"].state = "FINALIZING"
  <2>1. Legal(d, "ep", "ENTER_TRIAGE")
    BY <1>6, EpochLegal
  <2>2. to = {"ep"} /\ to # {"wf"} /\ to \cap Nodes = {}
    BY <1>6, <2>1, Names DEF TriageTarget
  <2> HIDE DEF to, a
  <2>3. b = Dispatch(a, "ep", "ENTER_TRIAGE")
    BY <2>2 DEF Dispatch
  <2>4. EpochSide(a, "ENTER_TRIAGE", r)
    BY <1>1, <1>6 DEF EpochSide
  <2>5. Sound(Dispatch(a, "ep", "ENTER_TRIAGE"), r)
    BY <1>1, <1>4, <2>1, <2>4, EpochChange
  <2> HIDE DEF b
  <2>6. Triaged(d, e) = b
    BY <1>3, <2>2
  <2> QED BY <2>3, <2>5, <2>6
<1>7. CASE \/ e.of = "ep" /\ d.agg["ep"].state = "COMPLETED"
           \/ e.of = "wf" /\ d.agg["wf"].state = "RESTARTING"
  <2>1. e.of = "ep" => ~Legal(d, "ep", "ENTER_TRIAGE")
    <3> SUFFICES ASSUME e.of = "ep", Legal(d, "ep", "ENTER_TRIAGE") PROVE FALSE
      OBVIOUS
    <3> DEFINE x == d.agg["ep"]
               y == Moved(d, "ep", "ENTER_TRIAGE")
               out == EpochStep[<<d.agg["ep"].state, "ENTER_TRIAGE">>][4]
    <3>1. EpochMove(x, "ENTER_TRIAGE", y, out) /\ x.state = "COMPLETED"
      BY <1>7, EpochMoves
    <3> HIDE DEF x, y, out
    <3> QED BY <3>1 DEF EpochMove
  <2>2. to = {} \/ (to = {"wf"} /\ Legal(d, "wf", "ENTER_TRIAGE"))
    BY <1>7, <2>1 DEF TriageTarget
  <2>3. d.agg["wf"].state = "CANCEL_REQUESTED" => d.agg["ep"].state = "COMPLETED"
    BY <1>7
  <2> HIDE DEF to, a
  <2>4. CASE to = {}
    <3>1. b = a
      BY <1>1, <2>4, DispatchNone DEF Sound
    <3> HIDE DEF b
    <3>2. Triaged(d, e) = b
      BY <1>3, <2>4
    <3> QED BY <1>1, <3>1, <3>2
  <2>5. CASE to = {"wf"} /\ Legal(d, "wf", "ENTER_TRIAGE")
    <3>1. b = Dispatch(a, "wf", "ENTER_TRIAGE")
      BY <2>5 DEF Dispatch
    <3>2. Legal(a, "wf", "ENTER_TRIAGE") /\ (a.agg["wf"].state = "CANCEL_REQUESTED" => a.agg["ep"].state = "COMPLETED")
      BY <1>1, <1>4, <2>3, <2>5
    <3> HIDE DEF b
    <3>3. Sound(b, r) /\ (PausesCycles(b) => Sound(ControlGraph(b, "REQUEST_PAUSE"), r))
      BY <1>1, <3>1, <3>2, TriageWorkflow
    <3>4. to \cap Nodes = {}
      BY <2>5, Names
    <3>5. Triaged(d, e) = IF PausesCycles(b) THEN ControlGraph(b, "REQUEST_PAUSE") ELSE b
      BY <1>3, <2>5, <3>4
    <3> QED BY <3>3, <3>5
  <2> QED BY <2>2, <2>4, <2>5
<1> QED BY <1>5, <1>6, <1>7 DEF FailsAt

-----------------------------------------------------------------------------
(* Resolving a triage                                                        *)

\* The place a resolved cycle goes on from.
Restored(c) == IF c.resume = "none" THEN "PRODUCER_READY" ELSE c.resume

ResolvedTo(c, e) ==
    /\ e.resume = "none"
    /\ \/ e.state = Restored(c) /\ ~e.busy
       \/ c.resume = "CHECKER_READY" /\ e.state = "CHECKING"

LEMMA ResolvedPart ==
    ASSUME NEW x, NEW y, NEW out, NEW c, NEW e, NEW g, NEW r \in BOOLEAN, NEW q \in BOOLEAN, ~q,
           NodePart(x, c, g, r), NodeMove(x, "RESOLVE_TRIAGE", y, out), c.state = "TRIAGE_REQUIRED",
           ResolvedTo(c, e)
    PROVE  NodePart(y, e, g, q)
<1>1. NodeShape(x) /\ CycleShape(c) /\ SlotPart(x, c) /\ CancelPart(x, c, g) /\ NodeShape(y)
  BY NodeMoveShape DEF NodePart
<1>2. x.state = "TRIAGE_REQUIRED" /\ y.state = Reentry(x.triage) /\ y.triage = "none"
  BY DEF NodeMove, ControlActs
<1>3. x.triage \in PausableNode \cup CandidateNode \cup {"PAUSE_REQUESTED", "CANCEL_REQUESTED"}
  BY <1>1, <1>2 DEF NodeShape
<1>4. /\ y.state \notin RunningNode \cup {"ACCEPTED", "CANCELLED", "TRIAGE_REQUIRED"}
      /\ y.state = "CANCEL_REQUESTED" => x.triage = "CANCEL_REQUESTED"
  BY <1>2, <1>3 DEF Reentry, PausableNode, RunningNode, CandidateNode
<1>5. ~c.busy
  BY <1>1 DEF CycleShape
<1>6. CycleShape(e) /\ e.state # "ACCEPTED"
  BY <1>1, <1>5 DEF CycleShape, CycleStates, Restored, ResolvedTo
<1>7. SlotPart(y, e)
  BY <1>4, <1>6 DEF SlotPart
<1>8. CancelPart(y, e, g)
  <2>1. g = "CANCELLED" => c.resume = "CANCEL_REQUESTED"
    BY <1>1 DEF CancelPart
  <2>2. y.state \in {"CANCEL_REQUESTED", "CANCELLED"} \/ y.triage = "CANCEL_REQUESTED" => g = "CANCELLED"
    BY <1>1, <1>2, <1>4 DEF CancelPart
  <2>3. g = "CANCELLED" => e.state = "CANCEL_REQUESTED"
    BY <2>1 DEF Restored, ResolvedTo
  <2> QED BY <2>2, <2>3 DEF CancelPart
<1> QED BY <1>1, <1>6, <1>7, <1>8 DEF NodePart

LEMMA WithCycleKeeps ==
    ASSUME NEW d, IsDatabase(d), NEW n \in Nodes, NEW c, IsCycle(c)
    PROVE  /\ WithCycle(d, n, c).agg = d.agg
           /\ d.graph = "CANCELLED" => WithCycle(d, n, c).graph = "CANCELLED"
<1> DEFINE E == [d EXCEPT !.cyc[n] = c]
           cyc2 == [m \in Nodes |->
                IF E.cyc[m].state = "BLOCKED" /\ \A q \in ProducerDeps[m] : E.cyc[q].state = "ACCEPTED"
                THEN [E.cyc[m] EXCEPT !.state = "PRODUCER_READY"] ELSE E.cyc[m]]
           g2 == IF E.cyc[Sink].state = "ACCEPTED" THEN "COMPLETED" ELSE E.graph
           m2 == [E EXCEPT !.cyc = cyc2, !.graph = g2]
<1>1. IsDatabase(E) /\ E.agg = d.agg /\ E.graph = d.graph
  BY OneCycle
<1>2. WithCycle(d, n, c) = IF E.graph = "CANCELLED" THEN E ELSE m2
  BY DEF WithCycle, Refresh
<1> HIDE DEF cyc2, g2
<1>6. m2 = [E EXCEPT !.cyc = cyc2, !.graph = g2]
  OBVIOUS
<1> HIDE DEF E, m2
<1>3. E = [agg |-> E.agg, cyc |-> E.cyc, graph |-> E.graph, fx |-> E.fx, restart |-> E.restart,
           replacement |-> E.replacement, rejections |-> E.rejections]
  BY <1>1 DEF IsDatabase
<1>4. m2 = [agg |-> E.agg, cyc |-> cyc2, graph |-> g2, fx |-> E.fx, restart |-> E.restart,
            replacement |-> E.replacement, rejections |-> E.rejections]
  BY <1>3, <1>6
<1>5. m2.agg = E.agg
  BY <1>4
<1> QED BY <1>1, <1>2, <1>5

LEMMA ResolveNode ==
    ASSUME NEW d, NEW r \in BOOLEAN, Sound(d, r), NEW n \in Nodes, Legal(d, n, "RESOLVE_TRIAGE"),
           d.agg[n].triage \in {"REVIEW_QUIESCING", "REVIEW_SNAPSHOTTING"} =>
               d.cyc[n].state = "TRIAGE_REQUIRED" /\ d.cyc[n].resume = "CHECKER_READY"
    PROVE  LET D == ResolvedCycle(Dispatch(d, n, "RESOLVE_TRIAGE"), n) IN
           /\ Sound(D, FALSE) /\ D.agg["ep"] = d.agg["ep"]
           /\ d.graph = "CANCELLED" => D.graph = "CANCELLED"
<1> DEFINE b == Dispatch(d, n, "RESOLVE_TRIAGE")
           D == ResolvedCycle(b, n)
           c == d.cyc[n]
           m == CycleControl(c, "RESOLVE_TRIAGE")
           k == [m EXCEPT !.state = "CHECKING", !.busy = TRUE]
           t == IF c.resume = "none" THEN "PRODUCER_READY" ELSE c.resume
           x == d.agg[n]
           y == Moved(d, n, "RESOLVE_TRIAGE")
           out == NodeStep[<<d.agg[n].state, "RESOLVE_TRIAGE">>][4]
<1>1. IsDatabase(d) /\ {n} \in SUBSET Aggregates /\ IsCycle(c) /\ NodePart(x, c, d.graph, r) /\ n \in Aggregates
      /\ "ep" \in Aggregates /\ n # "ep"
  BY Names DEF Sound, IsDatabase
<1>2. IsDatabase(b) /\ Dispatched(d, b, {n}, "RESOLVE_TRIAGE") /\ b.cyc = d.cyc /\ b.graph = d.graph
  BY <1>1, DispatchShape DEF Dispatch
<1>3. b.agg["ep"] = d.agg["ep"] /\ b.agg[n] = y
  BY <1>1, <1>2 DEF Dispatched
<1>4. NodeMove(x, "RESOLVE_TRIAGE", y, out)
  BY NodeMoves
<1>5. m = [c EXCEPT !.state = t, !.resume = "none"]
  BY DEF CycleControl
<1>8. y.state \in {"REVIEW_QUIESCING", "REVIEW_SNAPSHOTTING"} => x.triage \in {"REVIEW_QUIESCING", "REVIEW_SNAPSHOTTING"}
  <2> HIDE DEF x, y, out
  <2> QED BY <1>4 DEF NodeMove, ControlActs, Reentry
<1>6. D = IF c.state # "TRIAGE_REQUIRED" THEN b
          ELSE IF y.state \in {"REVIEW_QUIESCING", "REVIEW_SNAPSHOTTING"} THEN WithCycle(b, n, k)
          ELSE WithCycle(b, n, m)
  <2>1. b.cyc[n] = c
    BY <1>2
  <2> HIDE DEF b, m, y, c
  <2>2. CASE c.state # "TRIAGE_REQUIRED"
    <3>1. b.agg[n].state \notin {"REVIEW_QUIESCING", "REVIEW_SNAPSHOTTING"}
      BY <1>3, <1>8, <2>2 DEF c
    <3> QED BY <2>1, <2>2, <3>1 DEF ResolvedCycle
  <2>3. CASE c.state = "TRIAGE_REQUIRED" /\ y.state \in {"REVIEW_QUIESCING", "REVIEW_SNAPSHOTTING"}
    <3> QED BY <1>3, <2>1, <2>3 DEF ResolvedCycle, m
  <2>4. CASE c.state = "TRIAGE_REQUIRED" /\ y.state \notin {"REVIEW_QUIESCING", "REVIEW_SNAPSHOTTING"}
    <3> QED BY <1>3, <2>1, <2>4 DEF ResolvedCycle, m
  <2> QED BY <2>2, <2>3, <2>4
<1>7. c.state = "ACCEPTED" => FALSE
  <2>1. x.state = "TRIAGE_REQUIRED"
    BY <1>4 DEF NodeMove, ControlActs
  <2> QED BY <1>1, <2>1 DEF NodePart, SlotPart
<1> HIDE DEF b, D, c, m, x, y, out, t
<1>9. m = [state |-> t, resume |-> "none", busy |-> c.busy]
  BY <1>1, <1>5, CycleEdits
<1>10. m.state = t /\ m.resume = "none" /\ m.busy = c.busy
  BY <1>9
<1>16. IsCycle(m)
  BY <1>1, <1>9, <1>10 DEF IsCycle
<1>11. k = [state |-> "CHECKING", resume |-> m.resume, busy |-> TRUE]
  BY <1>16, CycleEdits
<1> HIDE DEF k
<1>12. k.state = "CHECKING" /\ k.resume = "none" /\ k.busy = TRUE /\ IsCycle(k)
  BY <1>10, <1>11 DEF IsCycle
<1>13. CASE c.state # "TRIAGE_REQUIRED"
  <2>1. NodePart(y, c, d.graph, FALSE)
    BY <1>1, <1>4, NodeMoveKeeps DEF JointActs
  <2>2. JointSide(d, n, "RESOLVE_TRIAGE", c, FALSE)
    BY <1>7, <2>1 DEF JointSide, y
  <2>3. Sound(b, FALSE)
    BY <2>2, JointStay DEF b, c
  <2> QED BY <1>2, <1>3, <1>6, <1>13, <2>3 DEF D, b
<1>14. CASE c.state = "TRIAGE_REQUIRED" /\ y.state \in {"REVIEW_QUIESCING", "REVIEW_SNAPSHOTTING"}
  <2>1. c.resume = "CHECKER_READY"
    BY <1>8, <1>14 DEF x, c
  <2>2. NodePart(y, k, d.graph, FALSE)
    <3>1. ResolvedTo(c, k) /\ c.state = "TRIAGE_REQUIRED"
      BY <1>12, <1>14, <2>1 DEF ResolvedTo
    <3>2. NodePart(x, c, d.graph, r)
      BY <1>1
    <3> QED BY <1>4, <3>1, <3>2, ResolvedPart
  <2>3. JointSide(d, n, "RESOLVE_TRIAGE", k, FALSE)
    BY <1>12, <2>2 DEF JointSide, y
  <2>4. Sound(WithCycle(b, n, k), FALSE)
    BY <1>12, <2>3, JointMove DEF b
  <2>5. WithCycle(b, n, k).agg = b.agg /\ (b.graph = "CANCELLED" => WithCycle(b, n, k).graph = "CANCELLED")
    BY <1>2, <1>12, WithCycleKeeps
  <2>6. D = WithCycle(b, n, k)
    BY <1>6, <1>14
  <2> QED BY <1>2, <1>3, <2>4, <2>5, <2>6 DEF D, b
<1>15. CASE c.state = "TRIAGE_REQUIRED" /\ y.state \notin {"REVIEW_QUIESCING", "REVIEW_SNAPSHOTTING"}
  <2>1. m.state = Restored(c)
    BY <1>10 DEF t, Restored
  <2>7. ~m.busy
    <3>1. CycleShape(c)
      BY <1>1 DEF NodePart
    <3>2. ~c.busy
      BY <1>15, <3>1 DEF CycleShape
    <3> QED BY <1>1, <1>10, <3>2 DEF IsCycle
  <2>2. NodePart(y, m, d.graph, FALSE)
    <3>1. ResolvedTo(c, m) /\ c.state = "TRIAGE_REQUIRED"
      BY <1>10, <1>15, <2>1, <2>7 DEF ResolvedTo
    <3>2. NodePart(x, c, d.graph, r)
      BY <1>1
    <3> QED BY <1>4, <3>1, <3>2, ResolvedPart
  <2>3. JointSide(d, n, "RESOLVE_TRIAGE", m, FALSE)
    <3>1. m.state # "ACCEPTED"
      BY <1>1, <2>1 DEF NodePart, CycleShape, Restored
    <3> QED BY <2>2, <3>1 DEF JointSide, y
  <2>4. Sound(WithCycle(b, n, m), FALSE)
    BY <1>16, <2>3, JointMove DEF b
  <2>5. WithCycle(b, n, m).agg = b.agg /\ (b.graph = "CANCELLED" => WithCycle(b, n, m).graph = "CANCELLED")
    BY <1>2, <1>16, WithCycleKeeps
  <2>6. D = WithCycle(b, n, m)
    BY <1>6, <1>15
  <2> QED BY <1>2, <1>3, <2>4, <2>5, <2>6 DEF D, b
<1> QED BY <1>13, <1>14, <1>15

LEMMA ResolveSound ==
    ASSUME NEW d, NEW r \in BOOLEAN, Sound(d, r), Projected(d, r), NEW a \in Aggregates,
           Legal(d, a, "RESOLVE_TRIAGE"),
           a \in Nodes /\ d.agg[a].triage \in {"REVIEW_QUIESCING", "REVIEW_SNAPSHOTTING"} =>
               d.cyc[a].state = "TRIAGE_REQUIRED" /\ d.cyc[a].resume = "CHECKER_READY"
    PROVE  LET b == Dispatch(d, a, "RESOLVE_TRIAGE")
               D == IF a \in Nodes THEN ResolvedCycle(b, a) ELSE b IN
           Sound(D, FALSE) /\ Projected(D, FALSE)
<1>w. ASSUME Legal(d, "wf", "RESOLVE_TRIAGE")
      PROVE  /\ Sound(Dispatch(d, "wf", "RESOLVE_TRIAGE"), FALSE)
             /\ Dispatch(d, "wf", "RESOLVE_TRIAGE").graph = d.graph
             /\ Dispatch(d, "wf", "RESOLVE_TRIAGE").agg["ep"] = d.agg["ep"]
  <2>1. WorkflowSide(d, "RESOLVE_TRIAGE", FALSE)
    BY DEF WorkflowSide
  <2> QED BY <1>w, <2>1, WorkflowDispatch, ZenonT(60)
<1>e. ASSUME Legal(d, "ep", "RESOLVE_TRIAGE")
      PROVE  /\ Sound(Dispatch(d, "ep", "RESOLVE_TRIAGE"), FALSE)
             /\ Dispatch(d, "ep", "RESOLVE_TRIAGE").graph = d.graph
             /\ Dispatch(d, "ep", "RESOLVE_TRIAGE").agg["ep"] = Moved(d, "ep", "RESOLVE_TRIAGE")
  <2>1. EpochSide(d, "RESOLVE_TRIAGE", FALSE)
    BY DEF EpochSide
  <2> QED BY <1>e, <2>1, EpochChange, ZenonT(120)
<1> DEFINE b == Dispatch(d, a, "RESOLVE_TRIAGE")
           D == IF a \in Nodes THEN ResolvedCycle(b, a) ELSE b
<1>0. d.agg["ep"].state \in {"CANCEL_REQUESTED", "CANCELLED"} => d.graph = "CANCELLED"
  BY DEF Projected
<1>1. CASE a \in Nodes
  <2>1. D = ResolvedCycle(b, a)
    BY <1>1
  <2>2. Sound(D, FALSE) /\ D.agg["ep"] = d.agg["ep"] /\ (d.graph = "CANCELLED" => D.graph = "CANCELLED")
    BY <1>1, <2>1, ResolveNode
  <2> HIDE DEF D
  <2> QED BY <1>0, <2>2 DEF Projected, D
<1>2. CASE a = "wf"
  <2>1. D = b
    BY <1>2, Names
  <2>2. Sound(D, FALSE) /\ D.graph = d.graph /\ D.agg["ep"] = d.agg["ep"]
    BY <1>w, <1>2, <2>1
  <2> HIDE DEF D
  <2> QED BY <1>0, <2>2 DEF Projected, D
<1>3. CASE a = "ep"
  <2> DEFINE x == d.agg["ep"]
             y == Moved(d, "ep", "RESOLVE_TRIAGE")
             out == EpochStep[<<d.agg["ep"].state, "RESOLVE_TRIAGE">>][4]
  <2>1. D = b
    BY <1>3, Names
  <2>4. Sound(D, FALSE) /\ D.graph = d.graph /\ D.agg["ep"] = y
    BY <1>e, <1>3, <2>1
  <2>5. EpochMove(x, "RESOLVE_TRIAGE", y, out) /\ EpochShape(x)
    BY <1>3, EpochMoves DEF Sound, ParentPart
  <2> HIDE DEF D, x, y, out
  <2>6. y.state \notin {"CANCEL_REQUESTED", "CANCELLED"}
    BY <2>5, EpochMoveFacts
  <2> QED BY <2>4, <2>6 DEF Projected, D
<1> QED BY <1>1, <1>2, <1>3, Names

-----------------------------------------------------------------------------
(* The operator's commands                                                   *)

LEMMA CommandMoves ==
    ASSUME NEW d, NEW act \in {"REQUEST_PAUSE", "RESUME", "REQUEST_CANCEL", "REQUEST_EXECUTION_RESTART"},
           Legal(d, "wf", act)
    PROVE  LET x == d.agg["wf"].state
               y == Moved(d, "wf", act).state IN
           /\ act = "REQUEST_PAUSE" => x = "ACTIVE" /\ y = "PAUSE_REQUESTED"
           /\ act = "RESUME" => x = "PAUSED" /\ y = "ACTIVE"
           /\ act = "REQUEST_CANCEL" => y \in {"CANCEL_REQUESTED", "RESTARTING"}
           /\ act = "REQUEST_EXECUTION_RESTART" => y = "CANCEL_REQUESTED"
<1> DEFINE x == d.agg["wf"]
           y == Moved(d, "wf", act)
           out == WorkflowStep[<<d.agg["wf"].state, act>>][4] \cup ArrivalEffects("wf", act, Moved(d, "wf", act).state)
<1>1. WorkflowMove(d, x, act, y, out)
  BY WorkflowMoves
<1> HIDE DEF x, y, out
<1>2. /\ act = "REQUEST_PAUSE" => x.state = "ACTIVE" /\ y.state = "PAUSE_REQUESTED"
      /\ act = "RESUME" => x.state = "PAUSED" /\ y.state = "ACTIVE"
      /\ act = "REQUEST_CANCEL" => y.state \in {"CANCEL_REQUESTED", "RESTARTING"}
      /\ act = "REQUEST_EXECUTION_RESTART" => y.state = "CANCEL_REQUESTED"
  BY <1>1 DEF WorkflowMove
<1> QED BY <1>2 DEF x, y

LEMMA PauseSound ==
    ASSUME NEW d, NEW r \in BOOLEAN, Sound(d, r), Projected(d, r),
           NEW act \in {"REQUEST_PAUSE", "RESUME"}, Legal(d, "wf", act)
    PROVE  LET D == ControlGraph(Dispatch(d, "wf", act), act) IN Sound(D, r) /\ Projected(D, r)
<1> DEFINE b == Dispatch(d, "wf", act)
           D == ControlGraph(b, act)
<1>1. WorkflowSide(d, act, r)
  BY DEF WorkflowSide
<1>2. /\ Sound(b, r) /\ b.graph = d.graph /\ b.agg["wf"] = Moved(d, "wf", act) /\ b.agg["ep"] = d.agg["ep"]
  BY <1>1, WorkflowDispatch
<1>3. /\ b.agg["wf"].state \in {"PAUSE_REQUESTED", "ACTIVE"}
  BY <1>2, CommandMoves
<1> HIDE DEF b
<1>4. b.graph # "CANCELLED"
  <2>1. b.graph = "CANCELLED" => CancelSide(b.agg["wf"])
    BY <1>2 DEF Sound, ParentPart
  <2> QED BY <1>3, <2>1 DEF CancelSide
<1>5. Sound(D, r) /\ D.agg = b.agg /\ D.graph = b.graph
  BY <1>2, <1>4, PauseGraph, ResumeGraph
<1> HIDE DEF D
<1>6. Projected(D, r)
  BY <1>2, <1>3, <1>5 DEF Projected
<1> QED BY <1>5, <1>6 DEF D, b

LEMMA Rerequest ==
    ASSUME NEW b, IsDatabase(b), NEW D, NEW v, D = [b EXCEPT !.restart = v]
    PROVE  /\ IsDatabase(D) /\ D.agg = b.agg /\ D.fx = b.fx /\ D.cyc = b.cyc /\ D.graph = b.graph
<1>1. b = [agg |-> b.agg, cyc |-> b.cyc, graph |-> b.graph, fx |-> b.fx, restart |-> b.restart,
           replacement |-> b.replacement, rejections |-> b.rejections]
  BY DEF IsDatabase
<1>2. D = [agg |-> b.agg, cyc |-> b.cyc, graph |-> b.graph, fx |-> b.fx, restart |-> v,
           replacement |-> b.replacement, rejections |-> b.rejections]
  BY <1>1
<1>3. /\ D.agg = b.agg /\ D.fx = b.fx /\ D.cyc = b.cyc /\ D.graph = b.graph
      /\ D.restart = v /\ D.replacement = b.replacement /\ D.rejections = b.rejections
  BY <1>2
<1>4. IsDatabase(D)
  BY <1>2, <1>3 DEF IsDatabase
<1> QED BY <1>3, <1>4

\* A cancel, or a restart, that also writes the restart request.
LEMMA EndRequest ==
    ASSUME NEW d, NEW r \in BOOLEAN, Sound(d, r), NEW act \in {"REQUEST_CANCEL", "REQUEST_EXECUTION_RESTART"},
           Legal(d, "wf", act), NEW v, NEW D, D = [Dispatch(d, "wf", act) EXCEPT !.restart = v]
    PROVE  /\ Sound(D, r) /\ D.graph = d.graph /\ D.agg["ep"] = d.agg["ep"]
           /\ D.agg["wf"].state \in {"CANCEL_REQUESTED", "RESTARTING"}
<1> DEFINE b == Dispatch(d, "wf", act)
<1>1. IsDatabase(d) /\ {"wf"} \in SUBSET Aggregates
  BY Names DEF Sound
<1>2. IsDatabase(b) /\ Dispatched(d, b, {"wf"}, act) /\ b.cyc = d.cyc /\ b.graph = d.graph
  BY <1>1, DispatchShape DEF Dispatch
<1>3. b.agg["wf"] = Moved(d, "wf", act)
  BY <1>2, Names DEF Dispatched
<1>4. b.agg["wf"].state \in {"CANCEL_REQUESTED", "RESTARTING"}
  BY <1>3, CommandMoves
<1>5. D = [b EXCEPT !.restart = v]
  OBVIOUS
<1>6. b.agg = Dispatch(d, "wf", act).agg /\ b.fx = Dispatch(d, "wf", act).fx
  OBVIOUS
<1> HIDE DEF b
<1>7. IsDatabase(D) /\ D.agg = b.agg /\ D.fx = b.fx /\ D.cyc = b.cyc /\ D.graph = b.graph
  BY <1>2, <1>5, Rerequest
<1>8. ReplacementPart(D)
  BY <1>4, <1>7 DEF ReplacementPart
<1>9. WorkflowSide(d, act, r)
  BY DEF WorkflowSide
<1>10. /\ D.agg = Dispatch(d, "wf", act).agg /\ D.fx = Dispatch(d, "wf", act).fx
       /\ D.cyc = d.cyc /\ D.graph = d.graph
  BY <1>2, <1>6, <1>7
<1>11. ASSUME NEW E, IsDatabase(E), E.agg = Dispatch(d, "wf", act).agg, E.fx = Dispatch(d, "wf", act).fx,
              E.cyc = d.cyc, E.graph = d.graph, ReplacementPart(E)
       PROVE  Sound(E, r) /\ E.agg["ep"] = d.agg["ep"]
  BY <1>9, <1>11, WorkflowChange
<1>12. Sound(D, r) /\ D.agg["ep"] = d.agg["ep"]
  BY <1>7, <1>8, <1>10, <1>11
<1> QED BY <1>4, <1>7, <1>10, <1>12

LEMMA CancelSound ==
    ASSUME NEW d, NEW r \in BOOLEAN, Sound(d, r), Legal(d, "wf", "REQUEST_CANCEL"), NEW v
    PROVE  LET D == ControlGraph([Dispatch(d, "wf", "REQUEST_CANCEL") EXCEPT !.restart = v], "REQUEST_CANCEL")
           IN Sound(D, r) /\ Projected(D, r)
<1> DEFINE b == [Dispatch(d, "wf", "REQUEST_CANCEL") EXCEPT !.restart = v]
           D == ControlGraph(b, "REQUEST_CANCEL")
<1>1. Sound(b, r) /\ b.agg["wf"].state \in {"CANCEL_REQUESTED", "RESTARTING"}
  <2>1. b = [Dispatch(d, "wf", "REQUEST_CANCEL") EXCEPT !.restart = v]
    OBVIOUS
  <2> HIDE DEF b
  <2> QED BY <2>1, EndRequest
<1> HIDE DEF b
<1>2. Sound(D, r) /\ D.agg = b.agg /\ D.graph = "CANCELLED"
  BY <1>1, CancelGraph
<1> HIDE DEF D
<1>3. Projected(D, r)
  BY <1>1, <1>2 DEF Projected
<1> QED BY <1>2, <1>3 DEF D, b

LEMMA RestartSound ==
    ASSUME NEW d, NEW r \in BOOLEAN, Sound(d, r), Projected(d, r), Legal(d, "wf", "REQUEST_EXECUTION_RESTART"), NEW v
    PROVE  LET D == [Dispatch(d, "wf", "REQUEST_EXECUTION_RESTART") EXCEPT !.restart = v]
           IN Sound(D, r) /\ Projected(D, r)
<1> DEFINE D == [Dispatch(d, "wf", "REQUEST_EXECUTION_RESTART") EXCEPT !.restart = v]
<1>1. /\ Sound(D, r) /\ D.graph = d.graph /\ D.agg["ep"] = d.agg["ep"]
      /\ D.agg["wf"].state \in {"CANCEL_REQUESTED", "RESTARTING"}
  BY EndRequest
<1> HIDE DEF D
<1>2. Projected(D, r)
  BY <1>1 DEF Projected
<1> QED BY <1>1, <1>2 DEF D

LEMMA CrashSound ==
    ASSUME NEW d, NEW r \in BOOLEAN, Sound(d, r), Projected(d, r), d.agg["wf"].state = "RESTARTING", NEW v
    PROVE  LET D == [d EXCEPT !.replacement = v] IN Sound(D, r) /\ Projected(D, r)
<1> DEFINE D == [d EXCEPT !.replacement = v]
<1>1. IsDatabase(d)
  BY DEF Sound
<1>2. /\ IsDatabase(D) /\ D.agg = d.agg /\ D.fx = d.fx /\ D.cyc = d.cyc /\ D.graph = d.graph
  BY <1>1, Replace
<1> HIDE DEF D
<1>3. ChildPart(D, r) /\ CheckPart(D) /\ ReplacementPart(D)
  BY <1>2 DEF Sound, ChildPart, CheckPart, ReplacementPart
<1>4. Sound(D, r)
  BY <1>2, <1>3 DEF Sound
<1>5. Projected(D, r)
  BY <1>2 DEF Projected
<1> QED BY <1>4, <1>5 DEF D

-----------------------------------------------------------------------------
(* The invariant                                                             *)

LEMMA Initial == Init => IInv
<1> SUFFICES ASSUME Init PROVE IInv
  OBVIOUS
<1> DEFINE r == Unresolved
           x == [state |-> "BLOCKED_BY_DEPS", resume |-> "none", triage |-> "none"]
           St(a) == CASE a = "wf" -> "ACTIVE" [] a = "ep" -> "RUNNING" [] OTHER -> "BLOCKED_BY_DEPS"
           Ag(a) == [state |-> St(a), resume |-> "none", triage |-> "none"]
           Cy(n) == [state |-> IF ProducerDeps[n] = {} THEN "PRODUCER_READY" ELSE "BLOCKED",
                     resume |-> "none", busy |-> FALSE]
           f == [type |-> "schedule", of |-> "ep", tried |-> FALSE]
<1>1. /\ db = [agg |-> [a \in Aggregates |-> Ag(a)], cyc |-> [n \in Nodes |-> Cy(n)], graph |-> "RUNNING",
               fx |-> {f}, restart |-> "none", replacement |-> "absent", rejections |-> 0]
      /\ spent = [k \in {"command", "resolve", "fault", "crash"} |-> 0]
  BY DEF Init
<1> HIDE DEF Ag, Cy, f
<1>2. /\ db.agg = [a \in Aggregates |-> Ag(a)] /\ db.cyc = [n \in Nodes |-> Cy(n)] /\ db.graph = "RUNNING"
      /\ db.fx = {f} /\ db.restart = "none" /\ db.replacement = "absent" /\ db.rejections = 0
  BY <1>1
<1>3. spent \in [{"command", "resolve", "fault", "crash"} -> Nat] /\ r \in BOOLEAN
  BY <1>1 DEF Unresolved
<1>4. /\ db.agg["wf"].state = "ACTIVE" /\ db.agg["wf"].resume = "none" /\ db.agg["wf"].triage = "none"
      /\ db.agg["ep"].state = "RUNNING" /\ db.agg["ep"].resume = "none" /\ db.agg["ep"].triage = "none"
  BY <1>2, Names DEF Ag
<1>5. ASSUME NEW n \in Nodes
      PROVE  /\ db.agg[n].state = "BLOCKED_BY_DEPS" /\ db.agg[n].resume = "none" /\ db.agg[n].triage = "none"
             /\ db.cyc[n].state \in {"PRODUCER_READY", "BLOCKED"} /\ db.cyc[n].resume = "none"
             /\ db.cyc[n].busy = FALSE /\ IsCycle(db.cyc[n])
  <2>1. db.agg[n] = Ag(n) /\ db.cyc[n] = Cy(n) /\ n # "wf" /\ n # "ep"
    BY <1>2, Names
  <2>2. Ag(n).state = "BLOCKED_BY_DEPS" /\ Ag(n).resume = "none" /\ Ag(n).triage = "none"
    BY <2>1 DEF Ag
  <2>3. Cy(n).state \in {"PRODUCER_READY", "BLOCKED"} /\ Cy(n).resume = "none" /\ Cy(n).busy = FALSE
    BY DEF Cy
  <2>4. IsCycle(Cy(n))
    BY DEF Cy, IsCycle
  <2> QED BY <2>1, <2>2, <2>3, <2>4
<1>6. f.type = "schedule" /\ f.of = "ep" /\ f.tried = FALSE /\ f = [type |-> f.type, of |-> f.of, tried |-> f.tried]
  BY DEF f
<1>7. IsEffect(f) /\ EffectPart(f, db.agg)
  BY <1>6, Names DEF IsEffect, EffectPart
<1>8. IsDatabase(db)
  <2>1. db.agg = [a \in Aggregates |-> db.agg[a]] /\ db.cyc = [n \in Nodes |-> db.cyc[n]]
    BY <1>2
  <2>2. db = [agg |-> db.agg, cyc |-> db.cyc, graph |-> db.graph, fx |-> db.fx, restart |-> db.restart,
              replacement |-> db.replacement, rejections |-> db.rejections]
    BY <1>1, <1>2
  <2> QED BY <1>2, <1>5, <1>7, <2>1, <2>2 DEF IsDatabase
<1>9. ASSUME NEW n \in Nodes PROVE NodePart(db.agg[n], db.cyc[n], db.graph, r)
  <2> DEFINE y == db.agg[n]
             c == db.cyc[n]
  <2>1. /\ y.state = "BLOCKED_BY_DEPS" /\ y.resume = "none" /\ y.triage = "none"
        /\ c.state \in {"PRODUCER_READY", "BLOCKED"} /\ c.resume = "none" /\ ~c.busy
    BY <1>5
  <2> HIDE DEF y, c
  <2>2. NodeShape(y)
    BY <2>1 DEF NodeShape, NodeStates, PausableNode
  <2>3. CycleShape(c)
    BY <2>1 DEF CycleShape, CycleStates
  <2>4. SlotPart(y, c) /\ CancelPart(y, c, db.graph)
    BY <1>2, <2>1 DEF SlotPart, CancelPart, RunningNode
  <2>5. CandidatePart(y, c)
    BY <2>1 DEF CandidatePart, Phase, ReviewNode
  <2> QED BY <2>2, <2>3, <2>4, <2>5 DEF NodePart, y, c
<1>10. ParentPart(db.agg["wf"], db.agg["ep"], db.graph, r)
  <2>1. WorkflowShape(db.agg["wf"]) /\ EpochShape(db.agg["ep"])
    BY <1>4 DEF WorkflowShape, EpochShape
  <2> QED BY <1>2, <1>4, <2>1 DEF ParentPart
<1>11. ChildPart(db, r)
  BY <1>4 DEF ChildPart
<1>12. CheckPart(db)
  BY <1>2, <1>5, Names DEF CheckPart, CheckedNode
<1>13. ReplacementPart(db)
  BY <1>4 DEF ReplacementPart
<1>14. Sound(db, r)
  BY <1>2, <1>7, <1>8, <1>9, <1>10, <1>11, <1>12, <1>13 DEF Sound
<1>15. Projected(db, r)
  BY <1>4 DEF Projected
<1> QED BY <1>3, <1>14, <1>15 DEF IInv

\* What a step of the outbox, of a fault or of the operator leaves.
Kept(D, r) == Sound(D, r) /\ Projected(D, r)

LEMMA EffectEdit ==
    ASSUME NEW e, IsEffect(e), NEW v
    PROVE  [e EXCEPT !.tried = v] = [type |-> e.type, of |-> e.of, tried |-> v]
<1>1. e = [type |-> e.type, of |-> e.of, tried |-> e.tried]
  BY DEF IsEffect
<1> DEFINE g == [e EXCEPT !.tried = v]
<1>2. g = [e EXCEPT !.tried = v]
  OBVIOUS
<1> HIDE DEF g
<1>3. g = [type |-> e.type, of |-> e.of, tried |-> v]
  BY <1>1, <1>2
<1> QED BY <1>3 DEF g

LEMMA ProcessKeeps ==
    ASSUME NEW r \in BOOLEAN, Sound(db, r), Projected(db, r), NEW e \in db.fx,
           Succeed(e) \/ Retire(e) \/ Retry(e) \/ Exhaust(e) \/ Fault(e) \/ RoleFailed(e)
    PROVE  Kept(db', r)
<1> DEFINE b == Drop(db, e)
           F == (db.fx \ {e}) \cup {[e EXCEPT !.tried = TRUE]}
           R == [db EXCEPT !.fx = F]
<1>1. Sound(b, r) /\ Projected(b, r) /\ b.agg = db.agg /\ b.cyc = db.cyc
  BY DropSound
<1>2. IsEffect(e) /\ EffectPart(e, db.agg) /\ EffectPart(e, b.agg)
  BY <1>1 DEF Sound, IsDatabase
<1>3. CASE Succeed(e)
  <2>1. PICK d \in Outcomes(b, e) : db' \in Reconciled(d)
    BY <1>3 DEF Succeed
  <2> HIDE DEF b
  <2>2. Sound(d, r)
    BY <1>1, <1>2, OutcomesSound
  <2> QED BY <2>1, <2>2, ReconciledSound DEF Kept
<1>4. CASE Retire(e)
  <2>1. db' \in Reconciled(b)
    BY <1>4 DEF Retire
  <2> HIDE DEF b
  <2> QED BY <1>1, <2>1, ReconciledSound DEF Kept
<1>5. CASE Retry(e)
  <2>1. db' \in Reconciled(R)
    BY <1>5 DEF Retry
  <2> DEFINE g == [e EXCEPT !.tried = TRUE]
  <2>2. e = [type |-> e.type, of |-> e.of, tried |-> e.tried] /\ e.of \in Aggregates
    BY <1>2 DEF IsEffect
  <2>3. g = [type |-> e.type, of |-> e.of, tried |-> TRUE]
    BY <1>2, EffectEdit
  <2>4. R = [db EXCEPT !.fx = F] /\ F = (db.fx \ {e}) \cup {g}
    OBVIOUS
  <2> HIDE DEF g, R, F
  <2>5. g.type = e.type /\ g.of = e.of /\ g.tried = TRUE
    BY <2>3
  <2>6. IsEffect(g)
    BY <2>2, <2>3, <2>5 DEF IsEffect
  <2>7. EffectPart(g, db.agg)
    BY <1>2, <2>5 DEF EffectPart
  <2>8. \A k \in F : IsEffect(k) /\ EffectPart(k, db.agg)
    BY <2>4, <2>6, <2>7 DEF Sound, IsDatabase
  <2>9. Sound(R, r)
    BY <2>4, <2>8, OutboxSound
  <2> QED BY <2>1, <2>9, ReconciledSound DEF Kept
<1>6. CASE Exhaust(e) \/ Fault(e)
  <2>1. db' \in Reconciled(Triaged(db, e)) /\ CanTriage(db, e) /\ ~Superseded(db, e)
        /\ (Outcomes(b, e) = {} \/ e.type \in Fallible)
    BY <1>6 DEF Exhaust, Fault, Raises
  <2> HIDE DEF b
  <2>2. FailsAt(db, e)
    BY <1>1, <1>2, <2>1, FailurePlaces
  <2>3. Sound(Triaged(db, e), r)
    BY <2>1, <2>2, TriagedSound
  <2> QED BY <2>1, <2>3, ReconciledSound DEF Kept
<1>7. CASE RoleFailed(e)
  <2> DEFINE n == e.of
  <2>1. /\ e.type \in {"run_produce", "run_review", "run_repair"}
        /\ Legal(db, n, "ROLE_FAILED") /\ CanTriageCycle(db.cyc[n])
        /\ db' \in Reconciled(TriageCycle(Dispatch(b, n, "ROLE_FAILED"), n))
    BY <1>7 DEF RoleFailed
  <2>2. n \in Nodes
    BY <1>2, <2>1, EffectPlaces DEF NodeSemantic, Semantic
  <2> HIDE DEF b, n
  <2>3. Legal(b, n, "ROLE_FAILED") /\ CanTriageCycle(b.cyc[n])
    BY <1>1, <2>1 DEF Legal
  <2>4. Sound(TriageCycle(Dispatch(b, n, "ROLE_FAILED"), n), r)
    BY <1>1, <2>2, <2>3, TriageNode
  <2> QED BY <2>1, <2>4, ReconciledSound DEF Kept
<1> QED BY <1>3, <1>4, <1>5, <1>6, <1>7

LEMMA CommandKeeps ==
    ASSUME NEW r \in BOOLEAN, Sound(db, r), Projected(db, r),
           Pause \/ Cancel \/ Restart \/ Resume \/ (\E e \in db.fx : CrashAfterStart(e))
    PROVE  Kept(db', r)
<1>1. CASE Pause
  <2>1. Legal(db, "wf", "REQUEST_PAUSE") /\ db' = ControlGraph(Dispatch(db, "wf", "REQUEST_PAUSE"), "REQUEST_PAUSE")
    BY <1>1 DEF Pause, Command
  <2> QED BY <2>1, PauseSound DEF Kept
<1>2. CASE Resume
  <2>1. Legal(db, "wf", "RESUME") /\ db' = ControlGraph(Dispatch(db, "wf", "RESUME"), "RESUME")
    BY <1>2 DEF Resume
  <2> QED BY <2>1, PauseSound DEF Kept
<1>3. CASE Cancel
  <2> DEFINE v == IF db.agg["wf"].state = "RESTARTING" THEN "aborted" ELSE "none"
  <2>1. /\ Legal(db, "wf", "REQUEST_CANCEL")
        /\ db' = ControlGraph([Dispatch(db, "wf", "REQUEST_CANCEL") EXCEPT !.restart = v], "REQUEST_CANCEL")
    BY <1>3 DEF Cancel, Command
  <2> HIDE DEF v
  <2> QED BY <2>1, CancelSound DEF Kept
<1>4. CASE Restart
  <2>1. /\ Legal(db, "wf", "REQUEST_EXECUTION_RESTART")
        /\ db' = [Dispatch(db, "wf", "REQUEST_EXECUTION_RESTART") EXCEPT !.restart = "asked"]
    BY <1>4 DEF Restart, Command
  <2> QED BY <2>1, RestartSound DEF Kept
<1>5. CASE \E e \in db.fx : CrashAfterStart(e)
  <2>1. db.agg["wf"].state = "RESTARTING" /\ db' = [db EXCEPT !.replacement = "running"]
    BY <1>5 DEF CrashAfterStart
  <2> QED BY <2>1, CrashSound DEF Kept
<1> QED BY <1>1, <1>2, <1>3, <1>4, <1>5

LEMMA Spending ==
    ASSUME spent \in [{"command", "resolve", "fault", "crash"} -> Nat], NEW k \in {"command", "resolve", "fault", "crash"},
           Spend(k)
    PROVE  /\ spent' \in [{"command", "resolve", "fault", "crash"} -> Nat]
           /\ k # "resolve" => spent'.resolve = spent.resolve
           /\ k = "resolve" => spent'.resolve # 0
<1>1. spent' = [spent EXCEPT ![k] = spent[k] + 1]
  BY DEF Spend
<1>2. spent[k] \in Nat /\ spent[k] + 1 \in Nat /\ spent[k] + 1 # 0
  OBVIOUS
<1> QED BY <1>1, <1>2

LEMMA Inductive == IInv /\ [Next]_vars => IInv'
<1> SUFFICES ASSUME IInv, [Next]_vars PROVE IInv'
  OBVIOUS
<1> DEFINE r == Unresolved
           Counters == [{"command", "resolve", "fault", "crash"} -> Nat]
<1>1. spent \in Counters /\ r \in BOOLEAN /\ Sound(db, r) /\ Projected(db, r)
  BY DEF IInv, Unresolved
<1>2. ASSUME Kept(db', r), spent' \in Counters, spent'.resolve = spent.resolve PROVE IInv'
  BY <1>2 DEF IInv, Kept, Unresolved
<1>3. ASSUME Kept(db', FALSE), spent' \in Counters, spent'.resolve # 0 PROVE IInv'
  <2>1. Unresolved' = FALSE
    BY <1>3 DEF Unresolved
  <2>2. Sound(db', Unresolved') /\ Projected(db', Unresolved')
    BY <1>3, <2>1 DEF Kept
  <2> QED BY <1>3, <2>2 DEF IInv
<1>4. ASSUME NEW e \in db.fx, Succeed(e) \/ Retire(e) \/ Retry(e) \/ Exhaust(e) \/ Fault(e) \/ RoleFailed(e)
      PROVE  IInv'
  <2>1. Kept(db', r)
    <3> HIDE DEF r
    <3> QED BY <1>1, <1>4, ProcessKeeps
  <2>2. spent' = spent \/ Spend("fault")
    BY <1>4 DEF Succeed, Retire, Retry, Exhaust, Fault, RoleFailed
  <2>3. spent' \in Counters /\ spent'.resolve = spent.resolve
    BY <1>1, <2>2, Spending
  <2> QED BY <1>2, <2>1, <2>3
<1>5. ASSUME Pause \/ Cancel \/ Restart \/ Resume \/ (\E e \in db.fx : CrashAfterStart(e))
      PROVE  IInv'
  <2>1. Kept(db', r)
    <3> HIDE DEF r
    <3> QED BY <1>1, <1>5, CommandKeeps
  <2>2. spent' = spent \/ Spend("command") \/ Spend("crash")
    BY <1>5 DEF Pause, Cancel, Restart, Resume, CrashAfterStart, Command
  <2>3. spent' \in Counters /\ spent'.resolve = spent.resolve
    BY <1>1, <2>2, Spending
  <2> QED BY <1>2, <2>1, <2>3
<1>6. ASSUME NEW a \in Aggregates, Resolve(a) PROVE IInv'
  <2> DEFINE b == Dispatch(db, a, "RESOLVE_TRIAGE")
             D == IF a \in Nodes THEN ResolvedCycle(b, a) ELSE b
  <2>1. Resolvable(a) /\ db' = D /\ Spend("resolve")
    BY <1>6 DEF Resolve
  <2>2. Sound(D, FALSE) /\ Projected(D, FALSE)
    <3> HIDE DEF r
    <3>1. /\ Legal(db, a, "RESOLVE_TRIAGE")
          /\ a \in Nodes /\ db.agg[a].triage \in {"REVIEW_QUIESCING", "REVIEW_SNAPSHOTTING"} =>
                 db.cyc[a].state = "TRIAGE_REQUIRED" /\ db.cyc[a].resume = "CHECKER_READY"
      BY <2>1 DEF Resolvable
    <3> QED BY <1>1, <3>1, ResolveSound
  <2> HIDE DEF D
  <2>3. Kept(db', FALSE)
    BY <2>1, <2>2 DEF Kept
  <2>4. spent' \in Counters /\ spent'.resolve # 0
    BY <1>1, <2>1, Spending
  <2> QED BY <1>3, <2>3, <2>4
<1>7. CASE UNCHANGED vars
  <2>1. db' = db /\ spent' = spent
    BY <1>7 DEF vars
  <2>2. Kept(db', r) /\ spent' \in Counters /\ spent'.resolve = spent.resolve
    BY <1>1, <2>1 DEF Kept
  <2> QED BY <1>2, <2>2
<1> QED BY <1>4, <1>5, <1>6, <1>7 DEF Next

-----------------------------------------------------------------------------
(* What the invariant says                                                   *)

LEMMA NodeRowStates == NodeStates \subseteq {r[1] : r \in NodeRows} \cup {"ACCEPTED", "CANCELLED"}
<1> SUFFICES ASSUME NEW st \in NodeStates \ {"ACCEPTED", "CANCELLED"} PROVE \E r \in NodeRows : st = r[1]
  OBVIOUS
<1>1. CASE st = "CANCEL_REQUESTED"
  <2> DEFINE row == <<"CANCEL_REQUESTED", "CANCEL_CONFIRMED", "CANCELLED", {}>>
  <2>1. row \in NodeRows /\ row[1] = st
    BY <1>1 DEF NodeRows
  <2> QED BY <2>1
<1>2. CASE st # "CANCEL_REQUESTED"
  <2> DEFINE row == <<st, "REQUEST_CANCEL", "CANCEL_REQUESTED", {"cancel_role"}>>
  <2>1. st \in PausableNode \cup CandidateNode \cup {"PAUSE_REQUESTED", "PAUSED", "TRIAGE_REQUIRED"}
    BY <1>2 DEF NodeStates
  <2>2. row \in NodeRows /\ row[1] = st
    BY <2>1 DEF NodeRows
  <2> QED BY <2>2
<1> QED BY <1>1, <1>2

LEMMA Types == IInv => TypeOK
<1> SUFFICES ASSUME IInv PROVE TypeOK
  OBVIOUS
<1> DEFINE r == Unresolved
<1>1. Sound(db, r)
  BY DEF IInv
<1> HIDE DEF r
<1>2. ParentPart(db.agg["wf"], db.agg["ep"], db.graph, r) /\ IsDatabase(db)
  BY <1>1 DEF Sound
<1>3. /\ State("wf") \in {"ACTIVE", "PAUSE_REQUESTED", "PAUSED", "CANCEL_REQUESTED", "CANCELLED",
                        "RESTARTING", "TRIAGE_REQUIRED", "COMPLETED"}
      /\ State("ep") \in {"RUNNING", "FINALIZING", "PAUSE_REQUESTED", "PAUSED", "CANCEL_REQUESTED",
                        "CANCELLED", "TRIAGE_REQUIRED", "COMPLETED"}
      /\ db.graph \in {"RUNNING", "COMPLETED", "CANCELLED"}
  BY <1>2 DEF ParentPart, WorkflowShape, EpochShape, State
<1>4. \A n \in Nodes : State(n) \in {q[1] : q \in NodeRows} \cup {"ACCEPTED", "CANCELLED"}
  BY <1>1, NodeRowStates DEF Sound, NodePart, NodeShape, State
<1>5. db.cyc \in [Nodes -> [state : CycleStates, resume : CycleStates \cup {"none"}, busy : BOOLEAN]]
  <2>1. ASSUME NEW n \in Nodes
        PROVE  db.cyc[n] \in [state : CycleStates, resume : CycleStates \cup {"none"}, busy : BOOLEAN]
    <3> DEFINE c == db.cyc[n]
    <3>1. IsCycle(c) /\ CycleShape(c)
      BY <1>1, <1>2 DEF Sound, NodePart, IsDatabase
    <3> HIDE DEF c
    <3>2. c.state \in CycleStates /\ c.resume \in CycleStates \cup {"none"} /\ c.busy \in BOOLEAN
      BY <3>1 DEF IsCycle, CycleShape
    <3>3. c = [state |-> c.state, resume |-> c.resume, busy |-> c.busy]
      BY <3>1 DEF IsCycle
    <3>4. c \in [state : CycleStates, resume : CycleStates \cup {"none"}, busy : BOOLEAN]
      BY <3>2, <3>3
    <3> QED BY <3>4 DEF c
  <2>2. db.cyc = [n \in Nodes |-> db.cyc[n]]
    BY <1>2 DEF IsDatabase
  <2> QED BY <2>1, <2>2
<1>6. \A e \in db.fx : e.of \in Aggregates /\ e.tried \in BOOLEAN
  BY <1>2 DEF IsDatabase, IsEffect
<1> QED BY <1>3, <1>4, <1>5, <1>6 DEF TypeOK

LEMMA Slots == IInv => RunningOwnsSlot
<1> SUFFICES ASSUME IInv, NEW n \in Nodes, State(n) \in RunningNode PROVE db.cyc[n].busy
  BY DEF RunningOwnsSlot
<1>1. NodePart(db.agg[n], db.cyc[n], db.graph, Unresolved)
  BY DEF IInv, Sound
<1> QED BY <1>1 DEF NodePart, SlotPart, State

LEMMA Ends == IInv => EndedIsOver
<1> SUFFICES ASSUME IInv PROVE EndedIsOver
  OBVIOUS
<1> DEFINE r == Unresolved
           w == db.agg["wf"]
           p == db.agg["ep"]
<1>1. Sound(db, r)
  BY DEF IInv
<1> HIDE DEF r
<1>2. ParentPart(w, p, db.graph, r) /\ ChildPart(db, r) /\ ReplacementPart(db)
  BY <1>1 DEF Sound
<1>3. ASSUME NEW n \in Nodes PROVE NodeShape(db.agg[n]) /\ CycleShape(db.cyc[n]) /\ SlotPart(db.agg[n], db.cyc[n])
  BY <1>1 DEF Sound, NodePart
<1>4. CancelledSettled
  <2> SUFFICES ASSUME State("wf") \in {"CANCELLED", "RESTARTING"}
               PROVE  /\ State("ep") \in {"CANCELLED", "COMPLETED"}
                      /\ \A n \in Nodes : State(n) \in {"ACCEPTED", "CANCELLED"} /\ ~db.cyc[n].busy
    BY DEF CancelledSettled
  <2>1. State("ep") \in {"CANCELLED", "COMPLETED"}
    BY <1>2 DEF ParentPart, State
  <2>2. \A n \in Nodes : State(n) \in {"ACCEPTED", "CANCELLED"}
    BY <1>2, <2>1 DEF ChildPart, State
  <2>3. ASSUME NEW n \in Nodes PROVE ~db.cyc[n].busy
    BY <1>3, <2>2 DEF SlotPart, CycleShape, State
  <2> QED BY <2>1, <2>2, <2>3
<1>5. CompletedOnlyAccepted
  <2> SUFFICES ASSUME State("wf") = "COMPLETED"
               PROVE  db.graph = "COMPLETED" /\ \A n \in Nodes : State(n) = "ACCEPTED"
    BY DEF CompletedOnlyAccepted
  <2>1. State("ep") = "COMPLETED" /\ db.graph = "COMPLETED"
    BY <1>2 DEF ParentPart, State
  <2> QED BY <1>2, <2>1 DEF ChildPart, State
<1>6. AbortedRestartLeavesNothing
  BY <1>2 DEF AbortedRestartLeavesNothing, ReplacementPart, State
<1> QED BY <1>4, <1>5, <1>6, Types DEF EndedIsOver

LEMMA Pauses == IInv => PausedRunsNothing
<1> SUFFICES ASSUME IInv, State("wf") = "PAUSED", spent.resolve = 0, NEW n \in Nodes
             PROVE  State(n) \notin RunningNode \cup {"PAUSE_REQUESTED"} /\ ~db.cyc[n].busy
  BY DEF PausedRunsNothing
<1> DEFINE r == Unresolved
<1>1. Sound(db, r) /\ Projected(db, r) /\ r /\ r \in BOOLEAN
  BY DEF IInv, Unresolved
<1> HIDE DEF r
<1>2. db.agg["wf"].state = "PAUSED"
  BY DEF State
<1>3. db.agg[n].state \in {"ACCEPTED", "CANCELLED", "PAUSED", "TRIAGE_REQUIRED"}
  BY <1>1, <1>2, PausedNodes
<1>4. ~db.cyc[n].busy
  BY <1>1, <1>2 DEF Projected
<1> QED BY <1>3, <1>4 DEF State, RunningNode

LEMMA Candidates == IInv => CandidateKept
<1> SUFFICES ASSUME IInv, spent.resolve = 0, NEW n \in Nodes, State(n) \in ReviewNode
             PROVE  db.cyc[n].state \notin BeforeCandidate
  BY DEF CandidateKept, ReviewNode, BeforeCandidate
<1> DEFINE r == Unresolved
<1>1. Sound(db, r) /\ r
  BY DEF IInv, Unresolved
<1>2. CandidatePart(db.agg[n], db.cyc[n])
  BY <1>1 DEF Sound, NodePart
<1>3. Phase(db.agg[n]) = db.agg[n].state
  BY DEF Phase, State, ReviewNode
<1> QED BY <1>2, <1>3 DEF CandidatePart, State

-----------------------------------------------------------------------------
(* Theorems                                                                  *)

\* The repository's parts agree after every transaction of the outbox
\* (BunshinOutboxProcessor._process_effect with reconcile_control_requests) and
\* after every command of the operator.
THEOREM WorkflowInvariant == Spec => []IInv
<1> QED BY Initial, Inductive, PTL DEF Spec

\* A node whose role runs holds its cycle's slot, whichever of the aggregate and
\* the cycle a handler, a control request or a triage moved last.
THEOREM RunningRolesOwnTheirSlot == Spec => []RunningOwnsSlot
<1> QED BY WorkflowInvariant, Slots, PTL

\* A workflow reported cancelled, ready to be replaced or completed has ended
\* below as well, and an aborted restart leaves no replacement running, also
\* when the process died after start_workflow.
THEOREM EndsAreFinal == Spec => []EndedIsOver
<1> QED BY WorkflowInvariant, Ends, PTL

\* CHILDREN_PAUSED is confirmed only over nodes that are still: under a paused
\* workflow no role runs and no cycle holds an assignment until a triage is
\* resolved.
THEOREM PausesAreQuiet == Spec => []PausedRunsNothing
<1> QED BY WorkflowInvariant, Pauses, PTL

\* The cycle of a node whose candidate was snapshotted does not fall back to its
\* producer through a pause, a resume, a retry or a failure.
THEOREM CandidatesAreKept == Spec => []CandidateKept
<1> QED BY WorkflowInvariant, Candidates, PTL
=============================================================================
