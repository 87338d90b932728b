------------------------ MODULE RoleAssignmentsProofs ------------------------
(* TLAPS proofs about RoleAssignments, for every attempt limit and any      *)
(* number of exits, faults and stalls.  The invariant has two halves: what  *)
(* the rows say of each other, which survives every exit of the manager,    *)
(* and what the manager's task may conclude from its own place, which is    *)
(* what protects a worker that outlived an earlier manager.                 *)
EXTENDS RoleAssignments, TLAPS

Last == att[Active]

\* The rows have their types.
RowTypes ==
    /\ asg \in Open \union {"none", "settled", "cancelled"}
    /\ att \in Seq(AttemptRow)
    /\ lease \in [owner : 0 .. Active, tok : Nat, live : BOOLEAN]
    /\ receipt \in {"none", "work", "exhausted", "blocked"}
    /\ session \in SessionStates

\* The assignment's state tells how its last attempt stands.
StatusPart ==
    /\ asg \in {"none", "queued"} => Active = 0
    /\ asg \notin {"none", "queued", "cancelled"} => Active > 0
    /\ asg = "claimed" => Last.status = "starting" /\ ~Last.bound
    /\ asg = "running" => Last.status = "running" /\ Last.bound
    /\ asg = "retry_queued" => Last.status = "lost"
    /\ asg = "cancelled" /\ Active > 0 => Last.status = "cancelled"
    /\ \A a \in 1 .. Active : a < Active => att[a].status = "lost"

\* A receipt exists exactly in the recorded states, and its attempt shows it.
ReceiptPart ==
    /\ receipt # "none" <=> asg \in Recorded
    /\ receipt = "work" => Last.status \in {"submitted", "completed"}
    /\ receipt \in {"exhausted", "blocked"} => Last.status = "failed"
    /\ receipt = "work" /\ asg = "settled" => session = "suspended"

\* A running attempt shares its lease with nobody; a closed one has none.
LeasePart ==
    /\ asg = "running" => lease.owner \in {0, Active}
    /\ asg \in {"settled", "cancelled"} /\ Active > 0 /\ Last.bound => ~Holds(Active, Last.tok)

RowInv == RowTypes /\ StatusPart /\ ReceiptPart /\ LeasePart

Pcs == {"off", "top", "prepared", "claimed", "leased", "watching", "settling", "exhausted",
        "blocked", "reporting"}

\* What the place of the supervising task says of the rows.
SupPart ==
    /\ sup \in [pc : Pcs, me : 0 .. Active, tok : Nat, fails : Nat]
    /\ procs \subseteq 1 .. Active
    /\ parent \in {"running", "frozen", "advanced", "triage"}
    /\ sup.pc \in {"claimed", "leased", "watching", "blocked"} => sup.me = Active /\ Active > 0
    /\ sup.pc \in {"claimed", "leased"} => asg # "running" /\ ~Last.bound
    /\ sup.pc = "watching" => Last.bound
    /\ sup.pc \in {"prepared", "settling", "exhausted", "reporting"} => asg \notin {"claimed", "running"}
    /\ sup.pc \in {"settling", "reporting"} => asg \in Recorded
    /\ sup.pc = "top" /\ asg = "running" => ~Holds(Active, Last.tok)

IInv == RowInv /\ SupPart

-----------------------------------------------------------------------------
(* The operators on rows.                                                   *)

\* u is s with another last row, whose status is x and whose fence is b and t.
Rewritten(s, u, x, b, t) ==
    /\ u \in Seq(AttemptRow) /\ Len(u) = Len(s)
    /\ u[Len(s)].status = x /\ u[Len(s)].bound = b /\ u[Len(s)].tok = t
    /\ \A a \in 1 .. Len(s) : a < Len(s) => u[a] = s[a]

(* Replacing the last attempt's row keeps the others.                       *)
LEMMA LastRow ==
    ASSUME NEW s \in Seq(AttemptRow), Len(s) > 0, NEW r \in AttemptRow
    PROVE  Rewritten(s, [s EXCEPT ![Len(s)] = r], r.status, r.bound, r.tok)
BY DEF Rewritten

(* The three ways the code rewrites that row.                               *)
LEMMA StatusWritten ==
    ASSUME NEW s \in Seq(AttemptRow), Len(s) > 0, NEW x \in AttemptStates
    PROVE  Rewritten(s, [s EXCEPT ![Len(s)].status = x], x, s[Len(s)].bound, s[Len(s)].tok)
<1> DEFINE r == [s[Len(s)] EXCEPT !.status = x]
<1>1. s[Len(s)] \in AttemptRow
  OBVIOUS
<1>2. r \in AttemptRow /\ r.status = x /\ r.bound = s[Len(s)].bound /\ r.tok = s[Len(s)].tok
  BY <1>1 DEF AttemptRow
<1>3. [s EXCEPT ![Len(s)].status = x] = [s EXCEPT ![Len(s)] = r]
  OBVIOUS
<1> HIDE DEF r
<1> QED BY <1>2, <1>3, LastRow

LEMMA ChargeWritten ==
    ASSUME NEW s \in Seq(AttemptRow), Len(s) > 0, NEW x \in AttemptStates, NEW c \in BOOLEAN
    PROVE  Rewritten(s, [s EXCEPT ![Len(s)] = [@ EXCEPT !.status = x, !.charged = c]],
                     x, s[Len(s)].bound, s[Len(s)].tok)
<1> DEFINE r == [s[Len(s)] EXCEPT !.status = x, !.charged = c]
<1>1. s[Len(s)] \in AttemptRow
  OBVIOUS
<1>2. r \in AttemptRow /\ r.status = x /\ r.bound = s[Len(s)].bound /\ r.tok = s[Len(s)].tok
  BY <1>1 DEF AttemptRow
<1>3. [s EXCEPT ![Len(s)] = [@ EXCEPT !.status = x, !.charged = c]] = [s EXCEPT ![Len(s)] = r]
  OBVIOUS
<1> HIDE DEF r
<1> QED BY <1>2, <1>3, LastRow

LEMMA FenceWritten ==
    ASSUME NEW s \in Seq(AttemptRow), Len(s) > 0, NEW t \in Nat
    PROVE  Rewritten(s, [s EXCEPT ![Len(s)] = [@ EXCEPT !.status = "running", !.bound = TRUE, !.tok = t]],
                     "running", TRUE, t)
<1> DEFINE r == [s[Len(s)] EXCEPT !.status = "running", !.bound = TRUE, !.tok = t]
<1>1. s[Len(s)] \in AttemptRow
  OBVIOUS
<1>2. r \in AttemptRow /\ r.status = "running" /\ r.bound = TRUE /\ r.tok = t
  BY <1>1 DEF AttemptRow, AttemptStates
<1>3. [s EXCEPT ![Len(s)] = [@ EXCEPT !.status = "running", !.bound = TRUE, !.tok = t]]
        = [s EXCEPT ![Len(s)] = r]
  OBVIOUS
<1> HIDE DEF r
<1> QED BY <1>2, <1>3, LastRow

(* queue_role_attempt_retry leaves an attempt that is lost and holds nothing. *)
LEMMA QueueRetryRows ==
    ASSUME RowInv, NEW c \in BOOLEAN, QueueRetry(c), UNCHANGED <<receipt, session>>
    PROVE  /\ RowInv' /\ Active' = Active
           /\ asg' = IF asg \in {"claimed", "running"} THEN "retry_queued" ELSE asg
           /\ asg \notin {"claimed", "running"} => UNCHANGED <<att, lease>>
<1>1. CASE asg \notin {"claimed", "running"}
  BY <1>1 DEF QueueRetry, RowInv, RowTypes, StatusPart, ReceiptPart, LeasePart, Active, Last, Holds
<1>2. CASE asg \in {"claimed", "running"}
  <2>1. att \in Seq(AttemptRow) /\ Len(att) > 0
    BY <1>2 DEF RowInv, RowTypes, StatusPart, Active
  <2>2. asg' = "retry_queued" /\ Rewritten(att, att', "lost", Last.bound, Last.tok)
    BY <1>2, <2>1, ChargeWritten DEF QueueRetry, Active, Last, AttemptStates
  <2>3. lease' \in [owner : 0 .. Active, tok : Nat, live : BOOLEAN]
    <3>1. lease' = lease \/ lease' = [lease EXCEPT !.owner = 0, !.live = FALSE]
      BY <1>2 DEF QueueRetry, Released
    <3>2. lease \in [owner : 0 .. Active, tok : Nat, live : BOOLEAN] /\ 0 \in 0 .. Active
      BY <2>1 DEF RowInv, RowTypes, Active
    <3> QED BY <3>1, <3>2
  <2>4. RowTypes'
    BY <2>2, <2>3 DEF RowInv, RowTypes, Rewritten, Open, Active
  <2>5. StatusPart' /\ ReceiptPart' /\ LeasePart'
    <3>1. StatusPart'
      BY <2>1, <2>2 DEF RowInv, StatusPart, Rewritten, Last, Active
    <3>2. ReceiptPart' /\ LeasePart'
      BY <1>2, <2>1, <2>2 DEF RowInv, ReceiptPart, LeasePart, Rewritten, Recorded, Last, Active
    <3> QED BY <3>1, <3>2
  <2> QED BY <1>2, <2>2, <2>4, <2>5 DEF RowInv, Rewritten, Active
<1> QED BY <1>1, <1>2

(* settle_role_assignment_locked closes a recorded result.                  *)
LEMMA SettledRows ==
    ASSUME RowInv, asg = "result_recorded", SettleRows
    PROVE  /\ RowInv' /\ Active' = Active /\ asg' = "settled" /\ receipt' = receipt
           /\ Last'.bound = Last.bound
           /\ receipt = "work" => session' = "suspended"
<1> DEFINE x == IF Last.status = "submitted" THEN "completed" ELSE Last.status
<1>1. att \in Seq(AttemptRow) /\ Len(att) > 0 /\ Last \in AttemptRow
  BY DEF RowInv, RowTypes, StatusPart, Active, Last
<1>2. x \in AttemptStates
  BY <1>1 DEF AttemptStates, AttemptRow
<1>3. att' = [att EXCEPT ![Len(att)].status = x]
  BY DEF SettleRows, Active, Last
<1>4. Rewritten(att, att', x, Last.bound, Last.tok)
  <2> HIDE DEF x
  <2> QED BY <1>1, <1>2, <1>3, StatusWritten DEF Last, Active
<1>5. /\ lease' \in [owner : 0 .. Active, tok : Nat, live : BOOLEAN]
      /\ Last.bound => ~(lease'.live /\ lease'.owner = Active /\ lease'.tok = Last.tok)
  BY <1>1 DEF SettleRows, Deleted, NoLease, RowInv, RowTypes, Active, Last
<1>6. receipt = "work" => session' = "suspended"
  BY DEF SettleRows, SessionTarget
<1>7. session' \in SessionStates
  BY DEF SettleRows, SessionTarget, RowInv, RowTypes, SessionStates
<1>8. RowTypes'
  BY <1>4, <1>5, <1>7 DEF RowInv, RowTypes, Rewritten, SettleRows, Active
<1>9. StatusPart' /\ ReceiptPart' /\ LeasePart'
  BY <1>1, <1>4, <1>5, <1>6
     DEF RowInv, StatusPart, ReceiptPart, LeasePart, Rewritten, SettleRows, Recorded, Last, Active, Holds
<1> QED BY <1>4, <1>6, <1>8, <1>9 DEF RowInv, Rewritten, SettleRows, Active, Last

(* cancel_role_assignments closes the assignment, whatever it had reached.  *)
LEMMA CancelledRows ==
    ASSUME RowInv, asg \in Open, CancelRows
    PROVE  /\ RowInv' /\ Active' = Active /\ asg' \in {"settled", "cancelled"} /\ receipt' = receipt
           /\ receipt = "work" /\ asg' = "settled" => session' = "suspended"
           /\ Active > 0 => Last'.bound = Last.bound
           /\ asg = "result_recorded" => asg' = "settled"
<1>1. CASE asg = "result_recorded"
  BY <1>1, SettledRows DEF CancelRows
<1>2. CASE asg # "result_recorded"
  <2>1. /\ asg' = "cancelled" /\ receipt' = receipt /\ lease' = Deleted(Active)
        /\ session' = SessionTarget(session, "park")
        /\ att' = IF Active > 0 THEN [att EXCEPT ![Active].status = "cancelled"] ELSE att
    BY <1>2 DEF CancelRows
  <2>2. /\ Active > 0 => Rewritten(att, att', "cancelled", Last.bound, Last.tok)
        /\ Active = 0 => att' = att
    <3>1. "cancelled" \in AttemptStates /\ att \in Seq(AttemptRow)
      BY DEF RowInv, RowTypes, AttemptStates
    <3>2. ASSUME Active > 0
          PROVE  Rewritten(att, att', "cancelled", Last.bound, Last.tok)
      <4>1. att' = [att EXCEPT ![Len(att)].status = "cancelled"] /\ Len(att) > 0
        BY <2>1, <3>2 DEF Active
      <4> QED BY <3>1, <4>1, StatusWritten DEF Active, Last
    <3>3. Active = 0 => att' = att
      BY <2>1, <3>1 DEF Active
    <3> QED BY <3>2, <3>3
  <2>3. att' \in Seq(AttemptRow) /\ Active' = Active
    BY <2>2 DEF Rewritten, RowInv, RowTypes, Active
  <2>4. /\ lease' \in [owner : 0 .. Active, tok : Nat, live : BOOLEAN]
        /\ Active > 0 /\ Last.bound => ~(lease'.live /\ lease'.owner = Active /\ lease'.tok = Last.tok)
    BY <2>1 DEF Deleted, NoLease, RowInv, RowTypes, Active, Last
  <2>5. RowTypes'
    BY <2>1, <2>3, <2>4 DEF RowInv, RowTypes, SessionTarget, SessionStates
  <2>6. StatusPart'
    BY <2>1, <2>2, <2>3 DEF RowInv, StatusPart, Rewritten, Last, Active
  <2>7. ReceiptPart'
    BY <1>2, <2>1 DEF RowInv, RowTypes, ReceiptPart, Open, Recorded
  <2>8. LeasePart'
    BY <2>1, <2>2, <2>3, <2>4 DEF LeasePart, Rewritten, Last, Active, Holds
  <2>9. Active > 0 => Last'.bound = Last.bound
    BY <2>2, <2>3 DEF Rewritten, Last, Active
  <2> QED BY <1>2, <2>1, <2>3, <2>5, <2>6, <2>7, <2>8, <2>9 DEF RowInv
<1> QED BY <1>1, <1>2

LEMMA SameRows ==
    ASSUME RowInv, UNCHANGED rows
    PROVE  RowInv' /\ Active' = Active /\ Last' = Last /\ (\A a, t : Holds(a, t)' <=> Holds(a, t))
BY DEF rows, RowInv, RowTypes, StatusPart, ReceiptPart, LeasePart, Active, Last, Holds

(* Nothing runs: the task ended, and the rows are those of a legal state.   *)
LEMMA TaskOver ==
    ASSUME SupPart, Active' = Active, Active \in Nat, sup' = Idle, procs' \subseteq procs,
           parent' \in {"running", "frozen", "advanced", "triage"}
    PROVE  SupPart'
BY DEF SupPart, Idle, Pcs

(* The exception handler restarts the loop or goes on to record a failure.  *)
LEMMA HandleStep ==
    ASSUME SupPart, Active \in Nat, NEW p \in BOOLEAN, Handle(p)
    PROVE  /\ sup' \in [pc : Pcs, me : 0 .. Active, tok : Nat, fails : Nat]
           /\ ~p => sup'.pc \in {"top", "exhausted"}
           /\ p => sup'.pc = "blocked" /\ sup'.me = sup.me
<1>1. sup \in [pc : Pcs, me : 0 .. Active, tok : Nat, fails : Nat] /\ 0 \in 0 .. Active
  BY DEF SupPart
<1>2. {"top", "exhausted", "blocked"} \subseteq Pcs /\ sup.fails + 1 \in Nat
  BY <1>1 DEF Pcs
<1>3. \/ ~p /\ sup' = [Idle EXCEPT !.pc = "top", !.fails = sup.fails + 1]
      \/ sup' = [sup EXCEPT !.pc = IF p THEN "blocked" ELSE "exhausted", !.fails = sup.fails + 1]
  BY DEF Handle
<1>4. CASE ~p /\ sup' = [Idle EXCEPT !.pc = "top", !.fails = sup.fails + 1]
  <2>1. sup' = [pc |-> "top", me |-> 0, tok |-> 0, fails |-> sup.fails + 1]
    BY <1>4 DEF Idle
  <2> QED BY <1>1, <1>2, <1>4, <2>1
<1>5. CASE sup' = [sup EXCEPT !.pc = IF p THEN "blocked" ELSE "exhausted", !.fails = sup.fails + 1]
  BY <1>1, <1>2, <1>5
<1> QED BY <1>3, <1>4, <1>5

(* A stage that raises leaves an assignment nobody runs.                    *)
LEMMA RaiseStep ==
    ASSUME IInv, Raise(FALSE), procs' = procs
    PROVE  IInv' /\ receipt' = receipt /\ session' = session /\ Active' = Active
<1>1. CASE asg = "none"
  <2>1. UNCHANGED rows /\ sup' = Idle /\ parent' \in {parent, "triage"}
    BY <1>1 DEF Raise, Return
  <2> QED BY <2>1, SameRows, TaskOver DEF IInv, RowInv, RowTypes, SupPart, rows, Active
<1>2. CASE asg # "none" /\ Disposed
  <2>1. UNCHANGED rows /\ sup' = Idle /\ parent' = parent
    BY <1>2 DEF Raise, Return, rows
  <2> QED BY <2>1, SameRows, TaskOver DEF IInv, RowInv, RowTypes, SupPart, rows, Active
<1>3. CASE asg # "none" /\ ~Disposed
  <2>1. QueueRetry(TRUE) /\ Handle(FALSE) /\ UNCHANGED <<receipt, session, parent>>
    BY <1>3 DEF Raise
  <2>2. /\ RowInv' /\ Active' = Active
        /\ asg' = IF asg \in {"claimed", "running"} THEN "retry_queued" ELSE asg
    BY <2>1, QueueRetryRows DEF IInv
  <2>3. Active \in Nat
    BY DEF IInv, RowInv, RowTypes, Active
  <2>4. /\ sup' \in [pc : Pcs, me : 0 .. Active, tok : Nat, fails : Nat]
        /\ sup'.pc \in {"top", "exhausted"}
    BY <2>1, <2>3, HandleStep DEF IInv
  <2>5. parent' = parent /\ asg' \notin {"claimed", "running"}
    BY <2>1, <2>2
  <2>6. SupPart'
    BY <2>2, <2>4, <2>5 DEF IInv, SupPart
  <2> QED BY <2>1, <2>2, <2>6 DEF IInv
<1> QED BY <1>1, <1>2, <1>3

-----------------------------------------------------------------------------
(* One lemma per step.                                                      *)

(* A step that only moves the task: where to, with the rows as they are.    *)
LEMMA TaskMoves ==
    ASSUME IInv, UNCHANGED <<asg, att, lease, receipt, session, parent, procs>>,
           NEW pc \in {"prepared", "settling", "reporting"}, Goto(pc),
           asg \notin {"claimed", "running"},
           pc \in {"settling", "reporting"} => asg \in Recorded
    PROVE  IInv'
<1>1. UNCHANGED rows
  BY DEF rows
<1>2. RowInv' /\ Active' = Active
  BY <1>1, SameRows DEF IInv
<1>3. sup \in [pc : Pcs, me : 0 .. Active, tok : Nat, fails : Nat] /\ pc \in Pcs
  BY DEF IInv, SupPart, Pcs
<1>4. sup' \in [pc : Pcs, me : 0 .. Active, tok : Nat, fails : Nat] /\ sup'.pc = pc
  BY <1>3 DEF Goto
<1>5. SupPart'
  BY <1>2, <1>4 DEF IInv, SupPart
<1> QED BY <1>2, <1>5 DEF IInv

(* A new task starts at the top of the loop while no attempt is live.       *)
LEMMA TaskStarts ==
    ASSUME IInv, UNCHANGED <<asg, att, lease, receipt, session, parent, procs>>,
           sup' = [pc |-> "top", me |-> 0, tok |-> 0, fails |-> 0], ~AttemptIsLive
    PROVE  IInv'
<1>1. UNCHANGED rows
  BY DEF rows
<1>2. RowInv' /\ Active' = Active /\ Last' = Last /\ (\A a, t : Holds(a, t)' <=> Holds(a, t))
  BY <1>1, SameRows DEF IInv
<1>3. "top" \in Pcs /\ 0 \in 0 .. Active
  BY DEF Pcs, IInv, RowInv, RowTypes, Active
<1>4. sup' \in [pc : Pcs, me : 0 .. Active, tok : Nat, fails : Nat] /\ sup'.pc = "top"
  BY <1>3
<1>5. asg = "running" => ~Holds(Active, Last.tok)
  <2>1. asg = "running" => Active > 0 /\ Last.bound
    BY DEF IInv, RowInv, StatusPart
  <2> QED BY <2>1 DEF AttemptIsLive, Last
<1>6. SupPart'
  BY <1>2, <1>4, <1>5 DEF IInv, SupPart
<1> QED BY <1>2, <1>6 DEF IInv

LEMMA TaskEnds ==
    ASSUME IInv, RowInv', Active' = Active, sup' = Idle, procs' \subseteq procs,
           parent' \in {parent, "triage", "advanced"}
    PROVE  IInv'
<1>1. Active \in Nat
  BY DEF IInv, RowInv, RowTypes, Active
<1> QED BY <1>1, TaskOver DEF IInv, SupPart

LEMMA LaunchStep == ASSUME IInv, Launch PROVE IInv'
<1>1. UNCHANGED <<asg, att, lease, receipt, session, parent, procs>> /\ ~AttemptIsLive
  BY DEF Launch, rows, IInv, RowInv, RowTypes, StatusPart, AttemptIsLive, Active
<1>2. sup' = [pc |-> "top", me |-> 0, tok |-> 0, fails |-> 0]
  BY DEF Launch, Idle
<1> QED BY <1>1, <1>2, TaskStarts

LEMMA RecoverStep == ASSUME IInv, Recover PROVE IInv'
<1>1. CASE Disposed
  <2>1. CancelRows /\ asg \in Open /\ sup.pc = "off" /\ UNCHANGED <<parent, sup, procs>>
    BY <1>1 DEF Recover, At
  <2>2. RowInv' /\ Active' = Active
    BY <2>1, CancelledRows DEF IInv
  <2>3. SupPart'
    BY <2>1, <2>2 DEF IInv, SupPart
  <2> QED BY <2>2, <2>3 DEF IInv
<1>2. CASE ~Disposed
  <2>1. UNCHANGED <<asg, att, lease, receipt, session, parent, procs>> /\ ~AttemptIsLive
        /\ sup' = [pc |-> "top", me |-> 0, tok |-> 0, fails |-> 0]
    BY <1>2 DEF Recover, rows, Idle
  <2> QED BY <2>1, TaskStarts
<1> QED BY <1>1, <1>2

(* The loop head has an answer for every state the rows can be in.          *)
LEMMA PrepareCases ==
    ASSUME IInv
    PROVE  \/ asg # "none" /\ Disposed
           \/ asg = "none"
           \/ asg \in {"claimed", "running"} /\ ~Disposed
           \/ asg \in {"queued", "retry_queued"} /\ ~Disposed
           \/ asg \in Recorded /\ ~Disposed
BY DEF IInv, RowInv, RowTypes, Open, Recorded, Disposed

LEMMA PrepareStep == ASSUME IInv, Prepare PROVE IInv'
<1>1. UNCHANGED <<parent, procs>> /\ sup.pc = "top"
  BY DEF Prepare, At
<1>2. CASE UNCHANGED rows /\ Return
  <2>1. RowInv' /\ Active' = Active
    BY <1>2, SameRows DEF IInv
  <2> QED BY <1>1, <1>2, <2>1, TaskEnds DEF Return
<1>3. CASE asg = "none" /\ asg' = "queued" /\ Goto("prepared") /\ UNCHANGED <<att, lease, receipt, session>>
  <2>1. RowTypes'
    BY <1>3 DEF IInv, RowInv, RowTypes, Open, Active
  <2>2. StatusPart' /\ ReceiptPart' /\ LeasePart' /\ Active' = Active
    BY <1>3 DEF IInv, RowInv, StatusPart, ReceiptPart, LeasePart, Recorded, Active, Last
  <2>3. sup \in [pc : Pcs, me : 0 .. Active, tok : Nat, fails : Nat] /\ "prepared" \in Pcs
    BY DEF IInv, SupPart, Pcs
  <2>4. sup' \in [pc : Pcs, me : 0 .. Active, tok : Nat, fails : Nat] /\ sup'.pc = "prepared"
    BY <1>3, <2>3 DEF Goto
  <2>5. SupPart'
    BY <1>1, <1>3, <2>2, <2>4 DEF IInv, SupPart
  <2> QED BY <2>1, <2>2, <2>5 DEF IInv, RowInv
<1>4. CASE QueueRetry(TRUE) /\ Goto("prepared") /\ UNCHANGED <<receipt, session>>
  <2>1. /\ RowInv' /\ Active' = Active
        /\ asg' = IF asg \in {"claimed", "running"} THEN "retry_queued" ELSE asg
    BY <1>4, QueueRetryRows DEF IInv
  <2>3. sup \in [pc : Pcs, me : 0 .. Active, tok : Nat, fails : Nat] /\ "prepared" \in Pcs
    BY DEF IInv, SupPart, Pcs
  <2>4. sup' \in [pc : Pcs, me : 0 .. Active, tok : Nat, fails : Nat] /\ sup'.pc = "prepared"
    BY <1>4, <2>3 DEF Goto
  <2>5. asg' \notin {"claimed", "running"}
    BY <2>1
  <2>6. SupPart'
    BY <1>1, <2>1, <2>4, <2>5 DEF IInv, SupPart
  <2> QED BY <2>1, <2>6 DEF IInv
<1>5. CASE asg \in {"queued", "retry_queued"} /\ Goto("prepared") /\ UNCHANGED rows
  BY <1>1, <1>5, TaskMoves DEF rows
<1>6. CASE asg \in Recorded /\ Goto("settling") /\ UNCHANGED rows
  BY <1>1, <1>6, TaskMoves DEF rows, Recorded
<1> QED BY <1>2, <1>3, <1>4, <1>5, <1>6, PrepareCases DEF Prepare, Recorded

LEMMA ClaimStep == ASSUME IInv, Claim PROVE IInv'
<1>1. CASE parent # "running"
  <2>1. UNCHANGED rows /\ sup' = Idle /\ UNCHANGED <<parent, procs>>
    BY <1>1 DEF Claim, Deferred, Return
  <2>2. RowInv' /\ Active' = Active
    BY <2>1, SameRows DEF IInv
  <2> QED BY <2>1, <2>2, TaskEnds
<1>2. CASE parent = "running"
  <2> DEFINE r == [status |-> "starting", bound |-> FALSE, tok |-> 0, charged |-> FALSE]
  <2>1. /\ asg \in {"queued", "retry_queued"} /\ asg' = "claimed" /\ att' = Append(att, r)
        /\ sup' = [sup EXCEPT !.pc = "claimed", !.me = Active + 1]
        /\ UNCHANGED <<lease, receipt, session, parent, procs>>
    BY <1>2 DEF Claim
  <2>2. r \in AttemptRow /\ r.status = "starting" /\ ~r.bound
    BY DEF AttemptRow, AttemptStates
  <2>3. att \in Seq(AttemptRow) /\ Active \in Nat
    BY DEF IInv, RowInv, RowTypes, Active
  <2>4. /\ att' \in Seq(AttemptRow) /\ Active' = Active + 1 /\ Last' = r
        /\ \A a \in 1 .. Active : att'[a] = att[a]
    <3> HIDE DEF r
    <3> QED BY <2>1, <2>2, <2>3 DEF Active, Last
  <2>5. \A a \in 1 .. Active : att[a].status = "lost"
    BY <2>1, <2>3 DEF IInv, RowInv, StatusPart, Last
  <2>6. StatusPart'
    BY <2>1, <2>2, <2>3, <2>4, <2>5 DEF StatusPart
  <2>7. RowTypes'
    BY <2>1, <2>3, <2>4 DEF IInv, RowInv, RowTypes, Open
  <2>8. ReceiptPart' /\ LeasePart'
    BY <2>1 DEF IInv, RowInv, RowTypes, ReceiptPart, LeasePart, Recorded
  <2>9. sup \in [pc : Pcs, me : 0 .. Active, tok : Nat, fails : Nat] /\ "claimed" \in Pcs
    BY DEF IInv, SupPart, Pcs
  <2>10. /\ sup' \in [pc : Pcs, me : 0 .. Active + 1, tok : Nat, fails : Nat]
         /\ sup'.pc = "claimed" /\ sup'.me = Active + 1
    <3>1. Active + 1 \in 0 .. Active + 1
      BY <2>3
    <3> QED BY <2>1, <2>9, <3>1
  <2>11. SupPart'
    BY <2>1, <2>2, <2>3, <2>4, <2>10 DEF IInv, SupPart
  <2> QED BY <2>6, <2>7, <2>8, <2>11 DEF IInv, RowInv
<1> QED BY <1>1, <1>2

LEMMA ClaimLeaseStep == ASSUME IInv, ClaimLease PROVE IInv'
<1>1. CASE lease.owner # 0 /\ lease.live
  BY <1>1, RaiseStep DEF ClaimLease
<1>2. CASE ~(lease.owner # 0 /\ lease.live)
  <2>1. /\ lease' = [owner |-> sup.me, tok |-> lease.tok + 1, live |-> TRUE]
        /\ sup' = [sup EXCEPT !.pc = "leased", !.tok = lease.tok + 1]
        /\ UNCHANGED <<asg, att, receipt, session, parent, procs>> /\ sup.pc = "claimed"
    BY <1>2 DEF ClaimLease, At
  <2>2. /\ sup \in [pc : Pcs, me : 0 .. Active, tok : Nat, fails : Nat] /\ "leased" \in Pcs
        /\ sup.me = Active /\ Active > 0 /\ asg # "running" /\ ~Last.bound
        /\ lease.tok + 1 \in Nat
    BY <2>1 DEF IInv, SupPart, Pcs, RowInv, RowTypes
  <2>3. Active' = Active /\ Last' = Last
    BY <2>1 DEF Active, Last
  <2>4. lease' \in [owner : 0 .. Active, tok : Nat, live : BOOLEAN]
    BY <2>1, <2>2
  <2>5. RowTypes' /\ StatusPart' /\ ReceiptPart'
    BY <2>1, <2>3, <2>4 DEF IInv, RowInv, RowTypes, StatusPart, ReceiptPart
  <2>6. LeasePart'
    BY <2>1, <2>2, <2>3 DEF LeasePart
  <2>7. /\ sup' \in [pc : Pcs, me : 0 .. Active, tok : Nat, fails : Nat]
        /\ sup'.pc = "leased" /\ sup'.me = sup.me
    BY <2>1, <2>2
  <2>8. SupPart'
    BY <2>1, <2>2, <2>3, <2>7 DEF IInv, SupPart
  <2> QED BY <2>5, <2>6, <2>8 DEF IInv, RowInv
<1> QED BY <1>1, <1>2

LEMMA StartStep == ASSUME IInv, Start PROVE IInv'
<1>1. CASE parent # "running"
  <2>1. UNCHANGED rows /\ sup' = Idle /\ UNCHANGED <<parent, procs>>
    BY <1>1 DEF Start, Deferred, Return
  <2>2. RowInv' /\ Active' = Active
    BY <2>1, SameRows DEF IInv
  <2> QED BY <2>1, <2>2, TaskEnds
<1>2. CASE parent = "running" /\ ~(asg = "claimed" /\ Active = sup.me /\ Holds(sup.me, sup.tok))
  BY <1>2, RaiseStep DEF Start
<1>3. CASE parent = "running" /\ asg = "claimed" /\ Active = sup.me /\ Holds(sup.me, sup.tok)
  <2>1. /\ asg' = "running" /\ sup.pc = "leased"
        /\ att' = [att EXCEPT ![Active] = [@ EXCEPT !.status = "running", !.bound = TRUE,
                                                    !.tok = sup.tok]]
        /\ session' = SessionTarget(session, "activate")
        /\ procs' = procs \union {sup.me} /\ Goto("watching")
        /\ UNCHANGED <<lease, receipt, parent>>
    BY <1>3 DEF Start, At
  <2>2. /\ sup \in [pc : Pcs, me : 0 .. Active, tok : Nat, fails : Nat] /\ "watching" \in Pcs
        /\ sup.me = Active /\ Active > 0
    BY <2>1 DEF IInv, SupPart, Pcs
  <2>3. Rewritten(att, att', "running", TRUE, sup.tok)
    BY <2>1, <2>2, FenceWritten DEF IInv, RowInv, RowTypes, Active
  <2>4. att' \in Seq(AttemptRow) /\ Active' = Active
    BY <2>3 DEF Rewritten, Active
  <2>5. RowTypes'
    BY <2>1, <2>4 DEF IInv, RowInv, RowTypes, SessionTarget, SessionStates, Open
  <2>6. StatusPart'
    BY <1>3, <2>1, <2>2, <2>3, <2>4 DEF IInv, RowInv, StatusPart, Rewritten, Active, Last
  <2>7. ReceiptPart'
    BY <1>3, <2>1 DEF IInv, RowInv, RowTypes, ReceiptPart, Recorded
  <2>8. LeasePart'
    BY <1>3, <2>1, <2>4 DEF LeasePart, Holds
  <2>9. /\ sup' \in [pc : Pcs, me : 0 .. Active, tok : Nat, fails : Nat]
        /\ sup'.pc = "watching" /\ sup'.me = sup.me
    BY <2>1, <2>2 DEF Goto
  <2>10. Last'.bound
    BY <2>3, <2>4 DEF Rewritten, Last, Active
  <2>11. SupPart'
    BY <2>1, <2>2, <2>4, <2>9, <2>10 DEF IInv, SupPart
  <2> QED BY <2>5, <2>6, <2>7, <2>8, <2>11 DEF IInv, RowInv
<1> QED BY <1>1, <1>2, <1>3

(* A lease that only loses its owner or its time keeps the rows legal.      *)
LEMMA LeaseDrops ==
    ASSUME RowInv, UNCHANGED <<asg, att, receipt, session>>,
           \/ lease' = lease
           \/ lease' = [lease EXCEPT !.owner = 0, !.live = FALSE]
           \/ lease' = [lease EXCEPT !.owner = 0]
           \/ lease' = [lease EXCEPT !.live = FALSE]
    PROVE  /\ RowInv' /\ Active' = Active /\ Last' = Last
           /\ Active > 0 => \A t : Holds(Active, t)' => Holds(Active, t)
<1>1. Active' = Active /\ Last' = Last /\ Active \in Nat /\ 0 \in 0 .. Active
  BY DEF RowInv, RowTypes, Active, Last
<1>2. lease \in [owner : 0 .. Active, tok : Nat, live : BOOLEAN]
  BY DEF RowInv, RowTypes
<1>3. /\ lease' \in [owner : 0 .. Active, tok : Nat, live : BOOLEAN]
      /\ lease'.owner \in {0, lease.owner} /\ lease'.tok = lease.tok /\ (lease'.live => lease.live)
  BY <1>1, <1>2
<1>4. RowTypes' /\ StatusPart' /\ ReceiptPart'
  BY <1>1, <1>3 DEF RowInv, RowTypes, StatusPart, ReceiptPart
<1>5. Active > 0 => \A t : Holds(Active, t)' => Holds(Active, t)
  BY <1>1, <1>3 DEF Holds
<1>6. LeasePart'
  BY <1>1, <1>3, <1>5 DEF RowInv, LeasePart
<1> QED BY <1>1, <1>4, <1>5, <1>6 DEF RowInv

LEMMA CollectStep == ASSUME IInv, Collect PROVE IInv'
<1>1. /\ lease' = lease \/ lease' = [lease EXCEPT !.owner = 0, !.live = FALSE]
      /\ UNCHANGED <<asg, att, receipt, session, parent, procs>> /\ asg \in Recorded
  BY DEF Collect, Released
<1>2. RowInv' /\ Active' = Active /\ Last' = Last
  BY <1>1, LeaseDrops DEF IInv
<1>3. sup \in [pc : Pcs, me : 0 .. Active, tok : Nat, fails : Nat] /\ "settling" \in Pcs
  BY DEF IInv, SupPart, Pcs
<1>4. sup' \in [pc : Pcs, me : 0 .. Active, tok : Nat, fails : Nat] /\ sup'.pc = "settling"
  BY <1>3 DEF Collect, Goto
<1>5. SupPart'
  BY <1>1, <1>2, <1>4 DEF IInv, SupPart, Recorded
<1> QED BY <1>2, <1>5 DEF IInv

LEMMA CollectFailureStep == ASSUME IInv, NEW p \in BOOLEAN, CollectFailure(p) PROVE IInv'
<1>1. /\ sup.pc = "watching" /\ asg \notin Recorded
      /\ lease' = lease \/ lease' = [lease EXCEPT !.owner = 0, !.live = FALSE]
      /\ UNCHANGED <<receipt, session, parent, procs>>
  BY DEF CollectFailure, Released, At
<1>2. sup.me = Active /\ Active > 0 /\ Active \in Nat /\ Last.bound
  BY <1>1 DEF IInv, SupPart, RowInv, RowTypes, Active
<1>3. /\ RowInv' /\ Active' = Active
      /\ p \/ asg' \notin {"claimed", "running"}
  <2>1. CASE ~p /\ asg = "running"
    <3>1. /\ asg' = "retry_queued"
          /\ att' = [att EXCEPT ![Active] = [@ EXCEPT !.status = "lost", !.charged = TRUE]]
      BY <1>2, <2>1 DEF CollectFailure
    <3>2. Rewritten(att, att', "lost", Last.bound, Last.tok)
      BY <1>2, <3>1, ChargeWritten DEF IInv, RowInv, RowTypes, Active, Last, AttemptStates
    <3>3. lease \in [owner : 0 .. Active, tok : Nat, live : BOOLEAN] /\ 0 \in 0 .. Active
      BY <1>2 DEF IInv, RowInv, RowTypes
    <3>4. lease' \in [owner : 0 .. Active, tok : Nat, live : BOOLEAN]
      BY <1>1, <3>3
    <3>5. RowTypes'
      BY <1>1, <3>1, <3>2, <3>4 DEF IInv, RowInv, RowTypes, Rewritten, Open, Active
    <3>6. StatusPart'
      BY <1>2, <3>1, <3>2 DEF IInv, RowInv, StatusPart, Rewritten, Last, Active
    <3>7. ReceiptPart' /\ LeasePart'
      BY <1>1, <3>1 DEF IInv, RowInv, ReceiptPart, LeasePart, Recorded
    <3> QED BY <3>1, <3>2, <3>5, <3>6, <3>7 DEF RowInv, Rewritten, Active
  <2>2. CASE p \/ asg # "running"
    <3>1. UNCHANGED <<asg, att>>
      BY <2>2 DEF CollectFailure
    <3>2. asg # "claimed"
      BY <1>2 DEF IInv, RowInv, StatusPart
    <3> QED BY <1>1, <2>2, <3>1, <3>2, LeaseDrops DEF IInv
  <2> QED BY <2>1, <2>2
<1>4. CASE Disposed
  BY <1>1, <1>3, <1>4, TaskEnds DEF CollectFailure, Return
<1>5. CASE ~Disposed
  <2>1. /\ sup' \in [pc : Pcs, me : 0 .. Active, tok : Nat, fails : Nat]
        /\ ~p => sup'.pc \in {"top", "exhausted"}
        /\ p => sup'.pc = "blocked" /\ sup'.me = sup.me
    BY <1>2, <1>5, HandleStep DEF CollectFailure, IInv
  <2>2. SupPart'
    BY <1>1, <1>2, <1>3, <2>1 DEF IInv, SupPart
  <2> QED BY <1>3, <2>2 DEF IInv
<1> QED BY <1>4, <1>5

LEMMA SettleStep == ASSUME IInv, Settle PROVE IInv'
<1>1. CASE parent = "running" /\ receipt = "work" /\ asg = "result_recorded"
  <2>1. SettleRows /\ parent' = "advanced" /\ sup' = Idle /\ procs' = procs
    BY <1>1 DEF Settle, Return
  <2>2. RowInv' /\ Active' = Active
    BY <1>1, <2>1, SettledRows DEF IInv
  <2> QED BY <2>1, <2>2, TaskEnds
<1>2. CASE ~(parent = "running" /\ receipt = "work" /\ asg = "result_recorded")
  BY <1>2, RaiseStep DEF Settle
<1> QED BY <1>1, <1>2

LEMMA RecordFailureStep == ASSUME IInv, RecordFailure PROVE IInv'
<1>1. sup.pc \in {"exhausted", "blocked"} /\ UNCHANGED <<parent, procs>>
  BY DEF RecordFailure
<1>2. CASE asg \in Recorded
  BY <1>1, <1>2, TaskMoves DEF RecordFailure, rows, Recorded
<1>3. CASE asg \notin Recorded /\ (Active = 0 \/ asg \notin Open)
  <2>1. UNCHANGED rows /\ sup' = Idle
    BY <1>3 DEF RecordFailure, Return
  <2>2. RowInv' /\ Active' = Active
    BY <2>1, SameRows DEF IInv
  <2> QED BY <1>1, <2>1, <2>2, TaskEnds
<1>4. CASE asg \notin Recorded /\ Active # 0 /\ asg \in Open
  <2>1. /\ receipt' = sup.pc /\ asg' = "result_recorded" /\ lease' = Deleted(Active)
        /\ att' = [att EXCEPT ![Active] = [@ EXCEPT !.status = "failed", !.charged = TRUE]]
        /\ session' = SessionTarget(session, "park") /\ Goto("reporting")
    BY <1>4 DEF RecordFailure
  <2>2. att \in Seq(AttemptRow) /\ Active > 0 /\ Active \in Nat /\ "failed" \in AttemptStates
    BY <1>4 DEF IInv, RowInv, RowTypes, Active, AttemptStates
  <2>3. Rewritten(att, att', "failed", Last.bound, Last.tok)
    BY <2>1, <2>2, ChargeWritten DEF Active, Last
  <2>4. att' \in Seq(AttemptRow) /\ Active' = Active
    BY <2>3 DEF Rewritten, Active
  <2>5. lease' \in [owner : 0 .. Active, tok : Nat, live : BOOLEAN]
    BY <2>1, <2>2 DEF Deleted, NoLease, IInv, RowInv, RowTypes
  <2>6. session' \in SessionStates
    BY <2>1 DEF IInv, RowInv, RowTypes, SessionTarget, SessionStates
  <2>7. RowTypes'
    BY <1>1, <2>1, <2>4, <2>5, <2>6 DEF RowTypes, Open
  <2>8. StatusPart'
    BY <2>1, <2>2, <2>3, <2>4 DEF IInv, RowInv, StatusPart, Rewritten, Active, Last
  <2>9. ReceiptPart' /\ LeasePart'
    BY <1>1, <2>1, <2>3, <2>4 DEF ReceiptPart, LeasePart, Rewritten, Active, Last, Recorded
  <2>10. sup \in [pc : Pcs, me : 0 .. Active, tok : Nat, fails : Nat] /\ "reporting" \in Pcs
    BY DEF IInv, SupPart, Pcs
  <2>11. sup' \in [pc : Pcs, me : 0 .. Active, tok : Nat, fails : Nat] /\ sup'.pc = "reporting"
    BY <2>1, <2>10 DEF Goto
  <2>12. SupPart'
    BY <1>1, <2>1, <2>4, <2>11 DEF IInv, SupPart, Recorded
  <2> QED BY <2>7, <2>8, <2>9, <2>12 DEF IInv, RowInv
<1> QED BY <1>2, <1>3, <1>4

LEMMA ReportFailureStep == ASSUME IInv, ReportFailure PROVE IInv'
<1>1. RowInv' /\ Active' = Active
  BY SettledRows, SameRows DEF ReportFailure, IInv
<1> QED BY <1>1, TaskEnds DEF ReportFailure, Return

LEMMA FaultStep == ASSUME IInv, Fault PROVE IInv'
<1>1. CASE Raise(FALSE)
  BY <1>1, RaiseStep DEF Fault
<1>2. CASE Return /\ UNCHANGED <<rows, parent>>
  <2>1. RowInv' /\ Active' = Active
    BY <1>2, SameRows DEF IInv
  <2> QED BY <1>2, <2>1, TaskEnds DEF Fault, Return
<1> QED BY <1>1, <1>2 DEF Fault

LEMMA WorkerStep ==
    ASSUME IInv, NEW a \in procs, Checkpoint(a) \/ Submit(a) \/ ProcessExit(a)
    PROVE  IInv'
<1>1. CASE Checkpoint(a)
  <2>1. UNCHANGED <<asg, att, lease, receipt, parent, sup, procs>> /\ Active' = Active /\ Last' = Last
    BY <1>1 DEF Checkpoint, Active, Last
  <2>2. session' \in SessionStates /\ (session = "suspended" => session' = "suspended")
    BY <1>1 DEF Checkpoint, SessionTarget, SessionStates, IInv, RowInv, RowTypes
  <2>3. RowInv'
    BY <2>1, <2>2 DEF IInv, RowInv, RowTypes, StatusPart, ReceiptPart, LeasePart, Holds
  <2>4. SupPart'
    BY <2>1 DEF IInv, SupPart, Holds
  <2> QED BY <2>3, <2>4 DEF IInv
<1>2. CASE Submit(a)
  <2>1. /\ asg = "running" /\ asg' = "result_recorded" /\ receipt' = "work" /\ a = Active
        /\ att' = [att EXCEPT ![Active].status = "submitted"]
        /\ UNCHANGED <<lease, session, parent, sup, procs>>
    BY <1>2 DEF Submit
  <2>2. att \in Seq(AttemptRow) /\ Active > 0 /\ "submitted" \in AttemptStates
    BY <2>1 DEF IInv, RowInv, RowTypes, StatusPart, AttemptStates
  <2>3. Rewritten(att, att', "submitted", Last.bound, Last.tok)
    BY <2>1, <2>2, StatusWritten DEF Active, Last
  <2>4. att' \in Seq(AttemptRow) /\ Active' = Active /\ Last'.bound = Last.bound
    BY <2>3 DEF Rewritten, Active, Last
  <2>5. RowTypes'
    BY <2>1, <2>4 DEF IInv, RowInv, RowTypes, Open
  <2>6. StatusPart'
    BY <2>1, <2>2, <2>3, <2>4 DEF IInv, RowInv, StatusPart, Rewritten, Active, Last
  <2>7. ReceiptPart' /\ LeasePart'
    BY <2>1, <2>3, <2>4 DEF ReceiptPart, LeasePart, Rewritten, Active, Last, Recorded
  <2>8. SupPart'
    BY <2>1, <2>4 DEF IInv, SupPart, Recorded
  <2> QED BY <2>5, <2>6, <2>7, <2>8 DEF IInv, RowInv
<1>3. CASE ProcessExit(a)
  <2>1. UNCHANGED <<asg, parent, sup>> /\ UNCHANGED rows /\ procs' \subseteq procs
    BY <1>3 DEF ProcessExit, rows
  <2>2. RowInv' /\ Active' = Active /\ Last' = Last /\ (\A b, t : Holds(b, t)' <=> Holds(b, t))
    BY <2>1, SameRows DEF IInv
  <2>3. SupPart'
    BY <2>1, <2>2 DEF IInv, SupPart
  <2> QED BY <2>2, <2>3 DEF IInv
<1> QED BY <1>1, <1>2, <1>3

(* Time, the start-up recovery of leases, and operators.                    *)
LEMMA OutsideStep ==
    ASSUME IInv, Expire \/ RecoverLease \/ Freeze \/ UNCHANGED vars
    PROVE  IInv'
<1>1. /\ UNCHANGED <<asg, att, receipt, session, sup, procs>>
      /\ \/ lease' = lease
         \/ lease' = [lease EXCEPT !.owner = 0]
         \/ lease' = [lease EXCEPT !.live = FALSE]
      /\ parent' \in {parent, "triage", "frozen"}
  BY DEF Expire, RecoverLease, Freeze, rows, vars
<1>2. /\ RowInv' /\ Active' = Active /\ Last' = Last
      /\ Active > 0 => \A t : Holds(Active, t)' => Holds(Active, t)
  BY <1>1, LeaseDrops DEF IInv
<1>3. asg = "running" => Active > 0
  BY DEF IInv, RowInv, StatusPart
<1>4. SupPart'
  BY <1>1, <1>2, <1>3 DEF IInv, SupPart
<1> QED BY <1>2, <1>4 DEF IInv

LEMMA StopStep ==
    ASSUME IInv, StopWorker \/ GracefulStop \/ Crash
    PROVE  IInv'
<1>1. CASE StopWorker
  <2>1. /\ RowInv' /\ Active' = Active /\ asg' \in {"settled", "cancelled"}
        /\ Active > 0 => Last'.bound = Last.bound
        /\ asg = "result_recorded" => asg' = "settled"
    BY <1>1, CancelledRows DEF StopWorker, IInv
  <2>2. UNCHANGED <<parent, sup>> /\ procs' \subseteq procs /\ asg \in Open
    BY <1>1 DEF StopWorker
  <2>3. sup.pc \in {"settling", "reporting"} => asg' \in Recorded
    BY <2>1, <2>2 DEF IInv, SupPart, Open, Recorded
  <2>4. SupPart'
    BY <2>1, <2>2, <2>3 DEF IInv, SupPart
  <2> QED BY <2>1, <2>4 DEF IInv
<1>2. CASE GracefulStop
  <2>1. CASE asg = "running"
    <3>1. RowInv' /\ Active' = Active
      BY <1>2, <2>1, QueueRetryRows DEF GracefulStop, IInv
    <3> QED BY <1>2, <3>1, TaskEnds DEF GracefulStop, Return
  <2>2. CASE asg # "running"
    <3>1. /\ UNCHANGED <<asg, att, receipt, session>>
          /\ lease' = lease \/ lease' = [lease EXCEPT !.owner = 0, !.live = FALSE]
      BY <1>2, <2>2 DEF GracefulStop, Released
    <3>2. RowInv' /\ Active' = Active
      BY <3>1, LeaseDrops DEF IInv
    <3> QED BY <1>2, <3>2, TaskEnds DEF GracefulStop, Return
  <2> QED BY <2>1, <2>2
<1>3. CASE Crash
  <2>1. RowInv' /\ Active' = Active
    BY <1>3, SameRows DEF Crash, IInv
  <2> QED BY <1>3, <2>1, TaskEnds DEF Crash, Return
<1> QED BY <1>1, <1>2, <1>3

LEMMA RoleInit == Init => IInv
<1> SUFFICES ASSUME Init PROVE IInv
  OBVIOUS
<1>1. Active = 0 /\ att \in Seq(AttemptRow)
  BY DEF Init, Active
<1>2. lease \in [owner : 0 .. Active, tok : Nat, live : BOOLEAN]
  BY <1>1 DEF Init, NoLease
<1>3. RowInv
  BY <1>1, <1>2
     DEF Init, RowInv, RowTypes, StatusPart, ReceiptPart, LeasePart, Open, Recorded, SessionStates
<1>4. sup \in [pc : Pcs, me : 0 .. Active, tok : Nat, fails : Nat] /\ sup.pc = "off"
  BY <1>1 DEF Init, Idle, Pcs
<1>5. SupPart
  BY <1>4 DEF Init, SupPart
<1> QED BY <1>3, <1>5 DEF IInv

LEMMA RoleStep == ASSUME IInv, [Next]_vars PROVE IInv'
BY LaunchStep, RecoverStep, PrepareStep, ClaimStep, ClaimLeaseStep, StartStep, CollectStep,
   CollectFailureStep, SettleStep, RecordFailureStep, ReportFailureStep, FaultStep, WorkerStep,
   OutsideStep, StopStep
DEF Next, Supervise, Worker

LEMMA RoleInvariant == Spec => []IInv
BY RoleInit, RoleStep, PTL DEF Spec

-----------------------------------------------------------------------------
(* What the invariant gives.                                                *)

(* record_role_submission, record_role_failure_result, settlement, retries  *)
(* and cancellation agree on every row, through every exit of a manager.    *)
THEOREM RowsAlwaysAgree == Spec => []RowsAgree
<1>1. IInv => TypeOK
  BY DEF IInv, RowInv, RowTypes, SupPart, TypeOK
<1>2. IInv => RowsAgree
  <2> SUFFICES ASSUME IInv PROVE RowsAgree
    OBVIOUS
  <2>1. (receipt # "none") = (asg \in Recorded)
    BY DEF IInv, RowInv, ReceiptPart
  <2>2. \A a \in 1 .. Active : a < Active => att[a].status = "lost"
    BY DEF IInv, RowInv, StatusPart
  <2>3. /\ receipt = "work" => att[Active].status \in {"submitted", "completed"}
        /\ receipt \in {"exhausted", "blocked"} => att[Active].status = "failed"
    BY DEF IInv, RowInv, ReceiptPart, Last
  <2>4. asg \in {"settled", "cancelled"} /\ Active > 0 /\ att[Active].bound
           => ~Holds(Active, att[Active].tok)
    BY DEF IInv, RowInv, LeasePart, Last
  <2>5. asg = "running" => Active > 0 /\ att[Active].status = "running"
    BY DEF IInv, RowInv, StatusPart, Last
  <2>6. Active > 0 /\ att[Active].status = "running" => asg = "running"
    BY DEF IInv, RowInv, RowTypes, StatusPart, ReceiptPart, Last, Open, Recorded
  <2> QED BY <1>1, <2>1, <2>2, <2>3, <2>4, <2>5, <2>6 DEF RowsAgree
<1> QED BY <1>2, RoleInvariant, PTL

(* A step that writes no receipt and appends no attempt.                    *)
LEMMA ReceiptKept ==
    ASSUME IInv, [Next]_vars, receipt # "none"
    PROVE  receipt' = receipt /\ Len(att') = Len(att)
<1>1. asg \in Recorded
  BY DEF IInv, RowInv, ReceiptPart
<1>2. CASE Launch \/ Prepare \/ Claim \/ Collect \/ Expire \/ RecoverLease \/ Freeze \/ Crash \/ UNCHANGED vars
  BY <1>1, <1>2 DEF Launch, Prepare, Claim, Collect, Expire, RecoverLease, Freeze, Crash, vars, rows,
     Recorded, QueueRetry, Deferred
<1>3. CASE Recover \/ StopWorker
  BY <1>3, CancelledRows DEF IInv, Recover, StopWorker, Active, rows
<1>4. CASE ClaimLease \/ Start \/ Fault
  BY <1>1, <1>4, RaiseStep DEF ClaimLease, Start, Fault, Deferred, rows, Active, Recorded
<1>5. CASE Settle \/ ReportFailure
  BY <1>5, SettledRows, RaiseStep DEF IInv, Settle, ReportFailure, Active, rows
<1>6. ASSUME NEW p \in BOOLEAN, CollectFailure(p) PROVE receipt' = receipt /\ Len(att') = Len(att)
  BY <1>1, <1>6 DEF CollectFailure
<1>7. CASE RecordFailure
  BY <1>1, <1>7 DEF RecordFailure, rows
<1>8. CASE GracefulStop
  BY <1>1, <1>8 DEF GracefulStop, Recorded
<1>9. CASE Worker
  BY <1>9 DEF Worker, Checkpoint, Submit, ProcessExit, rows
<1> QED BY <1>2, <1>3, <1>4, <1>5, <1>6, <1>7, <1>8, <1>9 DEF Next, Supervise

(* No step makes a session forget its checkpoint.                           *)
LEMMA SessionKept ==
    ASSUME IInv, [Next]_vars, session # "uninitialized"
    PROVE  session' # "uninitialized"
<1>1. \A act \in {"park", "initialize", "suspend", "activate"} :
         SessionTarget(session, act) # "uninitialized"
  BY DEF SessionTarget
<1>2. SettleRows \/ CancelRows => session' # "uninitialized"
  BY <1>1 DEF SettleRows, CancelRows
<1>3. Raise(FALSE) => session' = session
  BY DEF Raise, rows
<1>4. CASE Supervise
  <2>1. Prepare => session' = session
    BY PrepareCases DEF Prepare, Recorded, rows
  <2>2. Launch \/ Claim \/ Collect \/ (\E p \in BOOLEAN : CollectFailure(p)) => session' = session
    BY DEF Launch, Claim, Collect, CollectFailure, Deferred, rows
  <2>3. Recover \/ Settle \/ ReportFailure => session' # "uninitialized"
    BY <1>2, <1>3 DEF Recover, Settle, ReportFailure, rows
  <2>4. ClaimLease \/ Start \/ RecordFailure => session' # "uninitialized"
    BY <1>1, <1>3 DEF ClaimLease, Start, RecordFailure, Deferred, rows
  <2> QED BY <1>4, <2>1, <2>2, <2>3, <2>4 DEF Supervise
<1>5. CASE Worker \/ Fault
  BY <1>1, <1>3, <1>5 DEF Worker, Checkpoint, Submit, ProcessExit, Fault, rows
<1>6. CASE Expire \/ RecoverLease \/ Freeze \/ StopWorker \/ GracefulStop \/ Crash \/ UNCHANGED vars
  BY <1>2, <1>6 DEF Expire, RecoverLease, Freeze, StopWorker, GracefulStop, Crash, rows, vars
<1> QED BY <1>4, <1>5, <1>6 DEF Next

(* While a worker that is not the task's own holds its fence, no task is    *)
(* anywhere in the loop.                                                    *)
LEMMA OrphanAlone ==
    ASSUME IInv, NEW a \in procs, a # sup.me, asg = "running", Holds(a, att[a].tok)
    PROVE  a = Active /\ sup.pc = "off" /\ AttemptIsLive
<1>1. a \in 1 .. Active /\ Active \in Nat
  BY DEF IInv, SupPart, RowInv, RowTypes, Active
<1>2. a = Active
  BY <1>1 DEF IInv, RowInv, LeasePart, Holds
<1>3. Holds(Active, Last.tok) /\ Last.bound /\ Active > 0
  BY <1>1, <1>2 DEF Last, IInv, RowInv, StatusPart
<1>4. sup.pc = "off"
  BY <1>2, <1>3 DEF IInv, SupPart, Pcs
<1> QED BY <1>2, <1>3, <1>4 DEF AttemptIsLive, Last

LEMMA OrphanStep ==
    ASSUME IInv, [Next]_vars, NEW a \in procs, a # sup.me, asg = "running",
           Holds(a, att[a].tok), parent = "running"
    PROVE  Len(att') = a /\ att'[a].status \in {"running", "submitted"}
<1>1. a = Active /\ sup.pc = "off" /\ AttemptIsLive
  BY OrphanAlone
<1>2. att[a].status = "running" /\ att \in Seq(AttemptRow) /\ Active > 0 /\ lease.live
  BY <1>1 DEF IInv, RowInv, RowTypes, StatusPart, Last, AttemptIsLive, Holds
<1>3. ~Supervise /\ ~Fault /\ ~StopWorker /\ ~GracefulStop /\ ~Crash /\ ~RecoverLease
  <2>1. ~Launch /\ ~Recover
    BY <1>1 DEF Launch, Recover
  <2>2. ~Prepare /\ ~Claim /\ ~ClaimLease /\ ~Start /\ ~Collect /\ ~Settle /\ ~ReportFailure
    BY <1>1 DEF Prepare, Claim, ClaimLease, Start, Collect, Settle, ReportFailure, At
  <2>3. ~RecordFailure /\ ~Fault /\ \A p \in BOOLEAN : ~CollectFailure(p)
    BY <1>1 DEF RecordFailure, Fault, CollectFailure, At
  <2>4. ~StopWorker /\ ~GracefulStop /\ ~Crash /\ ~RecoverLease
    BY <1>1, <1>2 DEF StopWorker, GracefulStop, Crash, RecoverLease, At
  <2> QED BY <2>1, <2>2, <2>3, <2>4 DEF Supervise
<1>4. CASE att' = att
  BY <1>1, <1>2, <1>4 DEF Active
<1>5. ASSUME NEW b \in procs, Submit(b)
      PROVE  Len(att') = a /\ att'[a].status \in {"running", "submitted"}
  <2>1. att' = [att EXCEPT ![Len(att)].status = "submitted"] /\ "submitted" \in AttemptStates
    BY <1>5 DEF Submit, Active, AttemptStates
  <2>2. Rewritten(att, att', "submitted", Last.bound, Last.tok)
    BY <1>2, <2>1, StatusWritten DEF Active, Last
  <2> QED BY <1>1, <2>2 DEF Rewritten, Active
<1> QED BY <1>3, <1>4, <1>5
    DEF Next, Worker, Checkpoint, ProcessExit, Expire, Freeze, vars, rows

(* Retries, recovery and late workers neither redo durable work, nor take   *)
(* an attempt from a live orphan, nor make a session forget.                *)
THEOREM RoleRecoveryIsSafe == Spec => RecoveryIsSafe
<1>1. IInv /\ IInv' /\ [Next]_vars
        => [/\ receipt = "work" /\ asg' = "settled" => session' = "suspended"
            /\ session # "uninitialized" => session' # "uninitialized"]_vars
  BY ReceiptKept, SessionKept DEF IInv, RowInv, ReceiptPart
<1>2. IInv /\ [Next]_vars => [receipt # "none" => receipt' = receipt /\ Len(att') = Len(att)]_vars
  BY ReceiptKept
<1>3. IInv /\ [Next]_vars
        => [\A a \in procs :
              /\ a # sup.me /\ asg = "running" /\ Holds(a, att[a].tok)
              /\ parent = "running"
              => Len(att') = a /\ att'[a].status \in {"running", "submitted"}]_vars
  BY OrphanStep
<1>4. Spec => SessionRemembers
  BY <1>1, RoleInvariant, PTL DEF Spec, SessionRemembers
<1>5. Spec => WorkNeverRedone
  BY <1>2, RoleInvariant, PTL DEF Spec, WorkNeverRedone
<1>6. Spec => OrphanUndisturbed
  BY <1>3, RoleInvariant, PTL DEF Spec, OrphanUndisturbed
<1> QED BY <1>4, <1>5, <1>6 DEF RecoveryIsSafe

-----------------------------------------------------------------------------
(* The contract with the parent aggregate.                                  *)

Closed == asg \in {"settled", "cancelled"}

LEMMA ContractQuiet ==
    ASSUME UNCHANGED <<receipt, parent>>, Closed' <=> Closed
    PROVE  UNCHANGED Contract!vars
BY DEF Contract!vars, Closed

LEMMA ContractRaise ==
    ASSUME IInv, Raise(FALSE)
    PROVE  [Contract!Next]_(Contract!vars)
<1>1. CASE asg = "none"
  BY <1>1 DEF Raise, rows, Contract!Next, Contract!EnterTriage, Contract!vars
<1>2. CASE asg # "none"
  <2>1. UNCHANGED <<receipt, parent>> /\ (asg' = asg \/ (asg \in {"claimed", "running"} /\ asg' = "retry_queued"))
    BY <1>2 DEF Raise, QueueRetry
  <2> QED BY <2>1, ContractQuiet DEF Closed
<1> QED BY <1>1, <1>2

(* A parent that left the role's state closes the assignment.               *)
LEMMA ContractCancel ==
    ASSUME IInv, CancelRows, asg \in Open, parent # "running", parent' = parent
    PROVE  Contract!Next
<1>1. asg' \in {"settled", "cancelled"} /\ receipt' = receipt
  BY CancelledRows DEF IInv
<1> QED BY <1>1 DEF Contract!Next, Contract!Abandon, Open

LEMMA ContractStep ==
    ASSUME IInv, [Next]_vars
    PROVE  [Contract!Next]_(Contract!vars)
<1>1. CASE Launch \/ Collect \/ Expire \/ Crash \/ Claim \/ UNCHANGED vars
  <2>1. UNCHANGED <<receipt, parent>> /\ (asg' = asg \/ (asg \in {"queued", "retry_queued"} /\ asg' = "claimed"))
    BY <1>1 DEF Launch, Collect, Expire, Crash, Claim, Deferred, vars, rows
  <2> QED BY <2>1, ContractQuiet DEF Closed
<1>2. CASE Recover
  <2>1. CASE Disposed
    BY <1>2, <2>1, ContractCancel DEF Recover, Disposed, Open
  <2>2. CASE ~Disposed
    BY <1>2, <2>2, ContractQuiet DEF Recover, rows, Closed
  <2> QED BY <2>1, <2>2
<1>3. CASE Prepare
  <2>1. /\ UNCHANGED <<receipt, parent>>
        /\ \/ asg' = asg
           \/ asg = "none" /\ asg' = "queued"
           \/ asg \in {"claimed", "running"} /\ asg' = "retry_queued"
    BY <1>3, PrepareCases DEF Prepare, QueueRetry, rows, Recorded
  <2> QED BY <2>1, ContractQuiet DEF Closed
<1>4. CASE ClaimLease
  BY <1>4, ContractRaise, ContractQuiet DEF ClaimLease, Closed
<1>5. CASE Start
  <2>1. \/ Raise(FALSE)
        \/ UNCHANGED <<receipt, parent>> /\ (asg' = asg \/ (asg = "claimed" /\ asg' = "running"))
    BY <1>5 DEF Start, Deferred, rows
  <2> QED BY <2>1, ContractRaise, ContractQuiet DEF Closed
<1>6. ASSUME NEW p \in BOOLEAN, CollectFailure(p) PROVE [Contract!Next]_(Contract!vars)
  <2>1. UNCHANGED <<receipt, parent>> /\ (asg' = asg \/ (asg = "running" /\ asg' = "retry_queued"))
    BY <1>6 DEF CollectFailure
  <2> QED BY <2>1, ContractQuiet DEF Closed
<1>7. CASE Settle
  <2>1. CASE parent = "running" /\ receipt = "work" /\ asg = "result_recorded"
    <3>1. asg' = "settled" /\ receipt' = receipt /\ parent' = "advanced"
      BY <1>7, <2>1 DEF Settle, SettleRows
    <3> QED BY <2>1, <3>1 DEF Contract!Next, Contract!Apply
  <2>2. CASE Raise(FALSE)
    BY <2>2, ContractRaise
  <2> QED BY <1>7, <2>1, <2>2 DEF Settle
<1>8. CASE RecordFailure
  <2>1. CASE UNCHANGED rows
    BY <1>8, <2>1, ContractQuiet DEF RecordFailure, rows, Closed
  <2>2. CASE /\ receipt' = sup.pc /\ asg' = "result_recorded" /\ asg \in Open /\ asg \notin Recorded
    <3>1. receipt = "none" /\ sup.pc \in {"exhausted", "blocked"} /\ parent' = parent
      BY <1>8, <2>2 DEF IInv, RowInv, ReceiptPart, RecordFailure
    <3> QED BY <2>2, <3>1 DEF Contract!Next, Contract!Choose, Contract!Results, Open
  <2> QED BY <1>8, <2>1, <2>2 DEF RecordFailure
<1>9. CASE ReportFailure
  <2>1. asg \in Recorded /\ receipt # "none"
    BY <1>9 DEF IInv, SupPart, RowInv, ReceiptPart, ReportFailure, At
  <2>2. asg' = "settled" /\ receipt' = receipt /\ parent' = IF parent = "running" THEN "triage" ELSE parent
    BY <1>9, <2>1 DEF ReportFailure, SettleRows, rows, Recorded
  <2>3. CASE asg = "result_recorded" /\ parent = "running"
    BY <2>1, <2>2, <2>3 DEF Contract!Next, Contract!Triage
  <2>4. CASE asg = "result_recorded" /\ parent # "running"
    BY <2>2, <2>4 DEF Contract!Next, Contract!Abandon
  <2>5. CASE asg = "settled" /\ parent = "running"
    BY <2>2, <2>5 DEF Contract!Next, Contract!EnterTriage
  <2>6. CASE asg = "settled" /\ parent # "running"
    BY <2>2, <2>6, ContractQuiet DEF Closed
  <2> QED BY <2>1, <2>3, <2>4, <2>5, <2>6 DEF Recorded
<1>10. CASE Fault
  BY <1>10, ContractRaise, ContractQuiet DEF Fault, rows, Closed
<1>11. ASSUME NEW a \in procs, Checkpoint(a) \/ Submit(a) \/ ProcessExit(a)
       PROVE  [Contract!Next]_(Contract!vars)
  <2>1. CASE Submit(a)
    BY <2>1 DEF Submit, Contract!Next, Contract!Choose, Contract!Results
  <2>2. CASE Checkpoint(a) \/ ProcessExit(a)
    BY <2>2, ContractQuiet DEF Checkpoint, ProcessExit, rows, Closed
  <2> QED BY <1>11, <2>1, <2>2
<1>12. CASE RecoverLease \/ Freeze
  BY <1>12 DEF RecoverLease, Freeze, rows, Contract!Next, Contract!vars, Contract!EnterTriage, Contract!Freeze
<1>13. CASE StopWorker
  BY <1>13, ContractCancel DEF StopWorker
<1>14. CASE GracefulStop
  <2>1. UNCHANGED <<receipt, parent>> /\ (asg' = asg \/ (asg = "running" /\ asg' = "retry_queued"))
    BY <1>14 DEF GracefulStop, QueueRetry
  <2> QED BY <2>1, ContractQuiet DEF Closed
<1> QED BY <1>1, <1>2, <1>3, <1>4, <1>5, <1>6, <1>7, <1>8, <1>9, <1>10, <1>11, <1>12, <1>13, <1>14
    DEF Next, Supervise, Worker

(* The assignment, its supervisor and its workers implement the contract    *)
(* its parent relies on: one result, chosen once, applied when it closes.   *)
THEOREM RoleRefinesContract == Spec => RefinesRoleContract
<1>1. Init => Contract!Init
  BY DEF Init, Contract!Init
<1> QED BY <1>1, RoleInvariant, ContractStep, PTL DEF Spec, RefinesRoleContract, Contract!Spec
=============================================================================
