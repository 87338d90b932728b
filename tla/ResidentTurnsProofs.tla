------------------------- MODULE ResidentTurnsProofs -------------------------
(* TLAPS proofs about ResidentTurns, for every set of turns, every queue    *)
(* length and every number of inputs.  The inductive invariant Inv is the   *)
(* conjunction of five parts, each with its own step lemma:                 *)
(*   SlotPart    the scheduler, the tasks, their leases and the registries  *)
(*   RecordPart  transcripts, events and the flags of a continuation        *)
(*   PumpPart    mailboxes, the pump's queue and its place                  *)
(*   FlowPart    the messages taken over, waiting and consumed              *)
(*   RestPart    interrupts, commits, gate, shutdown and the input budget   *)
(* Safe and WakePart, further down, add who keeps new turns out and who     *)
(* wakes the pump.                                                          *)
EXTENDS ResidentTurns, FiniteSetTheorems, SequenceTheorems, TLAPS

\* Stages in which the continuation's cancellation scope is still registered.
Scoped == {"created", "opening", "running", "inject", "inject_cancelled"}

(* SoleResident is inductive only with what the registries know of each     *)
(* task: a coroutine that has not exited is in turn_scopes, and a trigger's *)
(* scope and continuation come and go together.                             *)
SlotPart ==
    /\ sched \in SchedulingState(BarrierNames) /\ WellFormed(sched)
    /\ task \in [Turns -> TaskStages] /\ lease \in [Turns -> Lease \cup {NoLease}]
    /\ active \subseteq Turns /\ scopes \subseteq Turns
    /\ SoleResident
    /\ active \subseteq scopes /\ scopes \cap Triggers \subseteq active
    /\ \A t \in Turns : task[t] \in Scoped => t \in scopes

\* Whether t's TURN_START still waits for its TURN_END.
Announced(t) ==
    ~(task[t] = "none" \/ (task[t] = "done" /\ t \in Messages /\ t \notin scopes))

(* A transcript is open only under a published continuation, and an event   *)
(* pair is open until the runner of a chat turn, or else the done callback, *)
(* has closed it.                                                           *)
RecordPart ==
    /\ l1 \in [Turns -> L1States] /\ rounds \in [Turns -> Nat] /\ open \in [Turns -> Int]
    /\ interrupted \subseteq Turns /\ cancelling \subseteq Turns
    /\ \A t \in Turns : l1[t] = "active" => t \in active
    /\ \A t \in Turns : open[t] = IF Announced(t) THEN 1 ELSE 0

\* The pump's place is one the code can suspend at, with a subject where it needs one.
PumpPart ==
    /\ inbox \in Seq(InboxEvent) /\ trigs \subseteq Triggers /\ queue \in Seq(QueueEvent)
    /\ woken \in BOOLEAN
    /\ pc \in PumpPlaces /\ ret \in {"idle", "pop"} /\ subject \in Turns \cup {NoLease}
    /\ pc = "ingress" => subject \in Messages
    /\ pc = "prep" => pending # <<>>

FlowPart ==
    /\ pending \in Seq(Messages) /\ accepted \in Seq(Messages) /\ consumed \in Seq(Messages)
    /\ MessagesConserved

RestPart ==
    /\ itask \in [Turns -> {"none", "begin", "cancel"}]
    /\ aim \in [Turns -> Lease \cup {NoLease}]
    /\ commits \subseteq Commit /\ drained \in BOOLEAN
    /\ ticket \in {"none", "claimed", "generating", "committed"}
    /\ shutdown \in {"no", "begun", "joining", "waiting", "saved"}
    /\ budget \in [arrivals : [Messages -> Nat], fired : SUBSET Triggers,
                   controls : Nat, dreams : Nat]

DroppedPart == dropped \subseteq Triggers

Inv == SlotPart /\ RecordPart /\ PumpPart /\ FlowPart /\ RestPart /\ DroppedPart
-----------------------------------------------------------------------------
\* The reducer, as the runtime uses it.

(* What the scheduler's own reducer does with an event of turn t that does  *)
(* not end its task: the slot stays with its owner.                         *)
LEMMA OwnerEventLemma ==
    ASSUME NEW s \in SchedulingState(BarrierNames), WellFormed(s),
           NEW event \in {"cancel", "program_finished"}, NEW t
    PROVE  /\ OwnerEvent(s, event, t) \in SchedulingState(BarrierNames)
           /\ WellFormed(OwnerEvent(s, event, t))
           /\ OwnerEvent(s, event, t).owner = s.owner
           /\ OwnerEvent(s, event, t).barriers = s.barriers
           /\ OwnerEvent(s, event, t).generation = s.generation
<1>1. CASE s.owner = NoLease \/ s.owner.turn # t
  BY <1>1 DEF OwnerEvent
<1>2. CASE s.owner # NoLease /\ s.owner.turn = t
  <2>1. s.phase \in {"running", "finalizing"}
    BY <1>2 DEF WellFormed, SchedulingState, Phases
  <2>2. PhaseTarget(s.phase, event) = "finalizing"
    BY <2>1 DEF PhaseTarget
  <2>3. OwnerEvent(s, event, t) = [s EXCEPT !.phase = "finalizing"]
    BY <1>2, <2>2 DEF OwnerEvent, Owned, ReduceOwned, Accept, SchedulingState
  <2> QED BY <1>2, <2>3 DEF SchedulingState, WellFormed, Phases
<1> QED BY <1>1, <1>2

\* Raising or dropping a barrier leaves the slot alone.
LEMMA BarrierLemma ==
    ASSUME NEW s \in SchedulingState(BarrierNames), WellFormed(s),
           NEW name \in BarrierNames, NEW enabled \in BOOLEAN
    PROVE  /\ SetBarrier(s, name, enabled) \in SchedulingState(BarrierNames)
           /\ WellFormed(SetBarrier(s, name, enabled))
           /\ SetBarrier(s, name, enabled).owner = s.owner
           /\ SetBarrier(s, name, enabled).generation = s.generation
           /\ SetBarrier(s, name, enabled).barriers =
                 IF enabled THEN s.barriers \cup {name} ELSE s.barriers \ {name}
BY DEF SetBarrier, SchedulingState, WellFormed

\* An accepted admission found an empty slot and gives it to a fresh lease of t.
LEMMA DecisionLemma ==
    ASSUME SlotPart, NEW t \in Turns, NEW q, Decision(t, q).accepted
    PROVE  LET s == Decision(t, q).state
           IN  /\ sched.owner = NoLease
               /\ s \in SchedulingState(BarrierNames) /\ WellFormed(s)
               /\ s.owner \in Lease /\ s.owner # NoLease /\ s.owner.turn = t
               /\ ticket = "none" /\ sched.barriers = {} /\ s.barriers = {}
<1> DEFINE d == ReduceAdmit(sched, t, KindOf(t), PendingUsers(q), OtherWork)
           reason == AdmissionReason(sched, KindOf(t), PendingUsers(q), OtherWork)
           fresh == [turn |-> t, kind |-> KindOf(t), generation |-> sched.generation + 1]
<1>0. sched \in SchedulingState(BarrierNames) /\ WellFormed(sched)
  BY DEF SlotPart
<1>1. Decision(t, q) = d /\ d.accepted
  BY DEF Decision, Refuse
<1>2. reason = ""
  BY <1>1 DEF ReduceAdmit, Refuse
<1>t. ticket = "none"
  BY DEF Decision, Refuse
<1>3. sched.phase = "idle" /\ sched.barriers = {}
  BY <1>0, <1>2 DEF AdmissionReason, SchedulingState, Phases
<1>4. d.state = [sched EXCEPT !.phase = "running", !.generation = sched.generation + 1,
                              !.owner = fresh]
  BY <1>2, <1>3 DEF ReduceAdmit, Accept, PhaseTarget
<1>5. KindOf(t) \in Kinds
  BY DEF KindOf, Kinds
<1>6. fresh \in Lease
  BY <1>0, <1>5 DEF Lease, SchedulingState
<1>7. fresh # NoLease /\ fresh.turn = t /\ fresh.generation = sched.generation + 1
  BY <1>6, NoLeaseAssumption
<1>8. sched.owner = NoLease
  BY <1>0, <1>3 DEF WellFormed
<1> HIDE DEF fresh, reason, d
<1>9. /\ d.state \in SchedulingState(BarrierNames) /\ d.state.owner = fresh
      /\ d.state.generation = sched.generation + 1 /\ d.state.phase = "running"
      /\ d.state.barriers = sched.barriers
  <2>1. fresh \in Lease \cup {NoLease} /\ sched.generation + 1 \in Nat
    BY <1>0, <1>6 DEF SchedulingState
  <2>2. "running" \in Phases
    BY DEF Phases
  <2> QED BY <1>0, <1>4, <2>1, <2>2 DEF SchedulingState
<1> QED BY <1>1, <1>t, <1>3, <1>6, <1>7, <1>8, <1>9 DEF WellFormed

\* The done callback of the owner's task empties the slot, whatever its phase.
LEMMA ReleaseLemma ==
    ASSUME NEW s \in SchedulingState(BarrierNames), WellFormed(s), s.owner # NoLease
    PROVE  LET r == ReduceOwned(Owned(s, "program_finished", s.owner),
                                "task_finished", s.owner).state
           IN  /\ r \in SchedulingState(BarrierNames) /\ WellFormed(r) /\ r.owner = NoLease
               /\ r.barriers = s.barriers /\ r.generation = s.generation
<1> DEFINE e == Owned(s, "program_finished", s.owner)
           r == ReduceOwned(e, "task_finished", s.owner).state
<1>1. s.phase \in {"running", "finalizing"}
  BY DEF WellFormed, SchedulingState, Phases
<1>2. PhaseTarget(s.phase, "program_finished") = "finalizing"
  BY <1>1 DEF PhaseTarget
<1>3. e = [s EXCEPT !.phase = "finalizing"]
  BY <1>2 DEF Owned, ReduceOwned, Accept, SchedulingState
<1>4. /\ e.phase = "finalizing" /\ e.owner = s.owner /\ e \in SchedulingState(BarrierNames)
      /\ e.barriers = s.barriers /\ e.generation = s.generation
  BY <1>3 DEF SchedulingState, Phases
<1>5. PhaseTarget(e.phase, "task_finished") = "idle"
  BY <1>4 DEF PhaseTarget
<1> HIDE DEF e
<1>6. r = [e EXCEPT !.phase = "idle", !.owner = NoLease]
  BY <1>4, <1>5 DEF ReduceOwned, Accept
<1>7. /\ r \in SchedulingState(BarrierNames) /\ r.owner = NoLease /\ r.phase = "idle"
      /\ r.barriers = e.barriers /\ r.generation = e.generation
  BY <1>4, <1>6 DEF SchedulingState, Phases
<1> QED BY <1>4, <1>7 DEF WellFormed, e
-----------------------------------------------------------------------------
\* The slot.

\* Barriers do not touch turns.
LEMMA BarrierSlot ==
    ASSUME SlotPart, NEW name \in BarrierNames, NEW enabled \in BOOLEAN,
           sched' = SetBarrier(sched, name, enabled), UNCHANGED <<task, lease, active, scopes>>
    PROVE  SlotPart'
<1>1. /\ sched' \in SchedulingState(BarrierNames) /\ WellFormed(sched')
      /\ sched'.owner = sched.owner
  <2>1. sched \in SchedulingState(BarrierNames) /\ WellFormed(sched)
    BY DEF SlotPart
  <2>2. /\ SetBarrier(sched, name, enabled) \in SchedulingState(BarrierNames)
        /\ WellFormed(SetBarrier(sched, name, enabled))
        /\ SetBarrier(sched, name, enabled).owner = sched.owner
    BY <2>1, BarrierLemma, ZenonT(60)
  <2>3. sched' = SetBarrier(sched, name, enabled)
    OBVIOUS
  <2>4. WellFormed(sched)' <=> WellFormed(sched')
    BY DEF WellFormed
  <2> QED BY <2>2, <2>3, <2>4
<1>2. SoleResident'
  BY <1>1 DEF SlotPart, SoleResident
<1> QED BY <1>1, <1>2 DEF SlotPart

\* A new task takes an empty slot: nobody else has a task.
LEMMA StartSlot ==
    ASSUME SlotPart, NEW t \in Turns, NEW q, Decision(t, q).accepted,
           StartTask(t, Decision(t, q).state)
    PROVE  SlotPart'
<1>1. /\ sched.owner = NoLease
      /\ sched' \in SchedulingState(BarrierNames) /\ WellFormed(sched')
      /\ sched'.owner \in Lease /\ sched'.owner # NoLease /\ sched'.owner.turn = t
  BY DecisionLemma DEF StartTask
<1>2. \A u \in Turns : task[u] = "none"
  BY <1>1 DEF SlotPart, SoleResident
<1>3. active = {} /\ scopes = {}
  BY <1>2 DEF SlotPart, SoleResident
<1>4. /\ lease' = [lease EXCEPT ![t] = sched'.owner] /\ task' = [task EXCEPT ![t] = "created"]
      /\ active' = IF t \in Triggers THEN {t} ELSE {}
      /\ scopes' = {t}
  BY <1>3 DEF StartTask
<1>5. /\ task' \in [Turns -> TaskStages] /\ lease' \in [Turns -> Lease \cup {NoLease}]
      /\ task'[t] = "created" /\ lease'[t] = sched'.owner
      /\ \A u \in Turns : u # t => task'[u] = "none"
  BY <1>1, <1>2, <1>4 DEF SlotPart, TaskStages
<1>6. SoleResident'
  BY <1>1, <1>4, <1>5 DEF SoleResident
<1>7. \A u \in Turns : task'[u] \in Scoped => u \in scopes'
  BY <1>4, <1>5 DEF Scoped
<1>8. /\ active' \subseteq Turns /\ scopes' \subseteq Turns
      /\ active' \subseteq scopes' /\ scopes' \cap Triggers \subseteq active'
  BY <1>4
<1> QED BY <1>1, <1>5, <1>6, <1>7, <1>8 DEF SlotPart

\* A live or finished task moves on without giving up its lease.
LEMMA StageSlot ==
    ASSUME SlotPart, NEW t \in Turns, task[t] # "none",
           NEW to \in TaskStages \ {"none"}, task' = [task EXCEPT ![t] = to],
           lease' = lease,
           sched' \in SchedulingState(BarrierNames), WellFormed(sched'),
           sched'.owner = sched.owner,
           \/ active' = active /\ scopes' = scopes
           \/ active' = active \cup {t} /\ scopes' = scopes /\ t \in scopes
           \/ active' = active \ {t} /\ scopes' = scopes \ {t},
           to \in Scoped => t \in scopes'
    PROVE  SlotPart'
<1>1. task' \in [Turns -> TaskStages] /\ \A u \in Turns : task'[u] # "none" <=> task[u] # "none"
  BY DEF SlotPart
<1>2. SoleResident'
  <2>1. \A u \in Turns : task'[u] # "none" =>
            sched'.owner # NoLease /\ sched'.owner.turn = u /\ lease'[u] = sched'.owner
    BY <1>1 DEF SlotPart, SoleResident
  <2>2. sched'.owner # NoLease => task'[sched'.owner.turn] # "none"
    BY <1>1 DEF SlotPart, SoleResident, SchedulingState, Lease
  <2>3. \A u \in active' \cup scopes' : task'[u] # "none"
    BY <1>1 DEF SlotPart, SoleResident
  <2> QED BY <2>1, <2>2, <2>3 DEF SoleResident
<1>3. /\ active' \subseteq Turns /\ scopes' \subseteq Turns
      /\ active' \subseteq scopes' /\ scopes' \cap Triggers \subseteq active'
  BY DEF SlotPart
<1>4. \A u \in Turns : task'[u] \in Scoped => u \in scopes'
  BY DEF SlotPart
<1>5. lease' \in [Turns -> Lease \cup {NoLease}]
  BY DEF SlotPart
<1> QED BY <1>1, <1>2, <1>3, <1>4, <1>5 DEF SlotPart

\* The done callback leaves nothing of its turn behind.
LEMMA DoneSlot ==
    ASSUME SlotPart, NEW t \in Turns, TurnDone(t)
    PROVE  SlotPart'
<1>1. /\ task[t] = "done" /\ lease[t] = sched.owner /\ sched.owner # NoLease
      /\ sched.owner.turn = t
  BY DEF TurnDone, SlotPart, SoleResident
<1>2. /\ sched' \in SchedulingState(BarrierNames) /\ WellFormed(sched')
      /\ sched'.owner = NoLease
  BY <1>1, ReleaseLemma DEF SlotPart, TurnDone, ReleaseLease
<1>3. \A u \in Turns : u # t => task[u] = "none"
  BY <1>1 DEF SlotPart, SoleResident
<1>4. active \subseteq {t} /\ scopes \subseteq {t}
  BY <1>3 DEF SlotPart, SoleResident
<1>5. active' = {} /\ scopes' = {}
  <2>1. CASE Untidy(t)
    BY <1>4, <2>1 DEF TurnDone, Cleanup
  <2>2. CASE ~Untidy(t)
    <3>1. UNCHANGED <<active, scopes>> /\ (t \in Messages => t \notin scopes)
          /\ (t \notin Messages => t \notin active)
      BY <1>1, <2>2 DEF TurnDone, Untidy
    <3>2. t \notin scopes /\ t \notin active
      BY <3>1 DEF SlotPart, Triggers
    <3> QED BY <1>4, <3>1, <3>2
  <2> QED BY <2>1, <2>2
<1>6. /\ task' \in [Turns -> TaskStages] /\ \A u \in Turns : task'[u] = "none"
      /\ lease' \in [Turns -> Lease \cup {NoLease}]
  BY <1>3 DEF SlotPart, TurnDone, TaskStages
<1>7. SoleResident'
  BY <1>2, <1>5, <1>6 DEF SoleResident
<1>8. \A u \in Turns : task'[u] \notin Scoped
  BY <1>6 DEF Scoped
<1> QED BY <1>2, <1>5, <1>6, <1>7, <1>8 DEF SlotPart

\* The steps that do not touch the slot at all.
SlotIdle ==
    \/ Environment
    \/ PumpDrain \/ StartNextQueued \/ PumpRest \/ PopUser \/ PopSlash \/ ControlRefused
    \/ PopInterrupt \/ InterruptJoined \/ ResetDrained \/ ResetTimeout \/ ResetHistory
    \/ CompactRun \/ CompactGenerate
    \/ \E t \in Turns : InterruptCancel(t)
    \/ ShutdownInterrupt \/ ShutdownJoined \/ ShutdownSave \/ PumpStop \/ Rest

LEMMA SlotIdleLemma ==
    ASSUME SlotIdle PROVE UNCHANGED <<sched, task, lease, active, scopes>>
BY DEF SlotIdle, Environment, Arrive, Fire, RequestControl, PumpDrain, StartNextQueued,
       PumpRest, PopUser, PopSlash, ControlRefused, PopInterrupt, InterruptJoined, ResetDrained,
       ResetTimeout, ResetHistory, CompactRun, CompactGenerate, InterruptCancel,
       ShutdownInterrupt, ShutdownJoined, ShutdownSave, PumpStop, Rest, turnVars, vars

(* The identities the pump hands to admission are turns, of the kind the    *)
(* handler expects.                                                         *)
LEMMA SubjectLemma ==
    ASSUME Inv
    PROVE  /\ pc = "prep" => Head(pending) \in Messages
           /\ pc = "ingress" => subject \in Messages
           /\ Popped("trigger") => Head(queue).id \in Triggers
           /\ Popped("user") => Head(queue).id \in Messages
           /\ Popped("slash") => Head(queue).id \in ControlKinds
<1>1. pc = "prep" => Head(pending) \in Messages
  BY DEF Inv, PumpPart, FlowPart
<1>2. pc = "ingress" => subject \in Messages
  BY DEF Inv, PumpPart
<1>3. queue # <<>> => Head(queue) \in QueueEvent
  BY DEF Inv, PumpPart
<1>4. \A e \in QueueEvent : /\ e.kind = "trigger" => e.id \in Triggers
                            /\ e.kind = "user" => e.id \in Messages
                            /\ e.kind = "slash" => e.id \in ControlKinds
  BY DEF QueueEvent, InboxEvent, User, Slash, Control, Trigger
<1> QED BY <1>1, <1>2, <1>3, <1>4 DEF Popped

\* Whoever closes a turn's coroutine leaves the slot to the done callback.
LEMMA ExitSlot ==
    ASSUME SlotPart, NEW t \in Turns, task[t] # "none", Exit(t)
    PROVE  SlotPart'
<1>1. /\ sched' \in SchedulingState(BarrierNames) /\ WellFormed(sched')
      /\ sched'.owner = sched.owner
  BY OwnerEventLemma DEF SlotPart, Exit
<1>2. /\ task' = [task EXCEPT ![t] = "done"] /\ lease' = lease
      /\ active' = active \ {t} /\ scopes' = scopes \ {t}
  BY DEF Exit, Cleanup
<1>3. "done" \in TaskStages \ {"none"} /\ "done" \notin Scoped
  BY DEF TaskStages, Scoped
<1> QED BY <1>1, <1>2, <1>3, StageSlot

\* Every step of a turn's own task keeps the slot and the registries in agreement.
LEMMA TurnSlot ==
    ASSUME Inv, NEW t \in Turns, TurnTask(t)
    PROVE  SlotPart'
<1>0. /\ SlotPart /\ sched \in SchedulingState(BarrierNames) /\ WellFormed(sched)
      /\ (task[t] \in Scoped => t \in scopes)
  BY DEF Inv, SlotPart
<1>1. CASE TurnBegin(t)
  <2>1. /\ task[t] = "created" /\ task' = [task EXCEPT ![t] = "opening"]
        /\ UNCHANGED <<sched, lease, active, scopes>>
    BY <1>1 DEF TurnBegin, Step
  <2> QED BY <1>0, <2>1, StageSlot DEF TaskStages, Scoped
<1>2. CASE TurnOpen(t)
  <2>1. /\ task[t] = "opening" /\ task' = [task EXCEPT ![t] = "running"]
        /\ active' = active \cup {t} /\ UNCHANGED <<sched, lease, scopes>>
    BY <1>2 DEF TurnOpen, Step
  <2> QED BY <1>0, <2>1, StageSlot DEF TaskStages, Scoped
<1>3. CASE Round(t)
  <2>1. /\ task[t] = "running" /\ task' = [task EXCEPT ![t] = "running"]
        /\ UNCHANGED <<sched, lease, active, scopes>>
    BY <1>3 DEF Round, Step
  <2> QED BY <1>0, <2>1, StageSlot DEF TaskStages, Scoped
<1>4. CASE Inject(t)
  <2>1. /\ task[t] = "running" /\ task' = [task EXCEPT ![t] = "inject"]
        /\ UNCHANGED <<sched, lease, active, scopes>>
    BY <1>4 DEF Inject, Step
  <2> QED BY <1>0, <2>1, StageSlot DEF TaskStages, Scoped
<1>5. CASE AbsorbCancel(t)
  <2>1. /\ task[t] = "inject" /\ task' = [task EXCEPT ![t] = "inject_cancelled"]
        /\ UNCHANGED <<sched, lease, active, scopes>>
    BY <1>5 DEF AbsorbCancel
  <2> QED BY <1>0, <2>1, StageSlot DEF TaskStages, Scoped
<1>6. CASE Finish(t)
  <2>0. PICK to \in {"post", "failing"} :
          task[t] = "running" /\ task' = [task EXCEPT ![t] = to]
    BY <1>6 DEF Finish, Step
  <2>1. /\ active' = active \ {t} /\ scopes' = scopes \ {t} /\ lease' = lease
        /\ sched' = OwnerEvent(sched, "program_finished", t)
    BY <1>6 DEF Finish
  <2>2. /\ sched' \in SchedulingState(BarrierNames) /\ WellFormed(sched')
        /\ sched'.owner = sched.owner
    BY <1>0, <2>1, OwnerEventLemma
  <2>3. to \in TaskStages \ {"none"} /\ to \notin Scoped
    BY DEF TaskStages, Scoped
  <2> QED BY <1>0, <2>0, <2>1, <2>2, <2>3, StageSlot
<1>7. CASE Fail(t)
  <2>1. /\ task[t] \in {"opening", "running"} /\ task' = [task EXCEPT ![t] = "failing"]
        /\ UNCHANGED <<sched, lease, active, scopes>>
    BY <1>7 DEF Fail, Step
  <2> QED BY <1>0, <2>1, StageSlot DEF TaskStages, Scoped
<1>8. CASE TurnRefused(t)
  BY <1>0, <1>8, ExitSlot DEF TurnRefused
<1>9. CASE TurnExit(t)
  BY <1>0, <1>9, ExitSlot DEF TurnExit
<1>10. CASE CancelledUnstarted(t)
  <2>1. /\ task[t] = "created" /\ task' = [task EXCEPT ![t] = "done"]
        /\ UNCHANGED <<sched, lease, active, scopes>>
    BY <1>10 DEF CancelledUnstarted
  <2> QED BY <1>0, <2>1, StageSlot DEF TaskStages, Scoped
<1>11. CASE TurnDone(t)
  BY <1>0, <1>11, DoneSlot
<1> QED BY <1>1, <1>2, <1>3, <1>4, <1>5, <1>6, <1>7, <1>8, <1>9, <1>10, <1>11 DEF TurnTask

\* A commit resumes the turn that waits for it, and no other.
LEMMA CommitSlot ==
    ASSUME Inv, NEW c \in commits, InjectCommit(c)
    PROVE  SlotPart'
<1>0. SlotPart /\ c.owner.turn \in Turns
  BY DEF Inv, RestPart, Commit, Lease
<1>1. UNCHANGED <<sched, lease, active, scopes>>
  BY DEF InjectCommit
<1>2. CASE task' = task
  BY <1>0, <1>1, <1>2 DEF SlotPart, SoleResident
<1>3. CASE task[c.owner.turn] = "inject" /\ task' = [task EXCEPT ![c.owner.turn] = "running"]
  <2>1. c.owner.turn \in scopes
    BY <1>0, <1>3 DEF SlotPart, Scoped
  <2>2. "running" \in TaskStages \ {"none"}
    BY DEF TaskStages
  <2>3. sched' \in SchedulingState(BarrierNames) /\ WellFormed(sched')
    BY <1>0, <1>1 DEF SlotPart
  <2> QED BY <1>0, <1>1, <1>3, <2>1, <2>2, <2>3, StageSlot
<1> QED BY <1>2, <1>3 DEF InjectCommit

\* The slot part survives every step.
LEMMA SlotStep == ASSUME Inv, Next PROVE SlotPart'
<1>0. SlotPart /\ sched \in SchedulingState(BarrierNames) /\ WellFormed(sched)
  BY DEF Inv, SlotPart
<1>1. CASE SlotIdle
  BY <1>0, <1>1, SlotIdleLemma DEF SlotPart, SoleResident
<1>2. CASE \E t \in Turns : TurnTask(t)
  BY <1>2, TurnSlot
<1>3. CASE \E c \in commits : InjectCommit(c)
  BY <1>3, CommitSlot
<1>4. CASE \E t \in Turns : InterruptBegin(t)
  <2> PICK t \in Turns : InterruptBegin(t)
    BY <1>4
  <2>1. UNCHANGED <<task, lease, active, scopes>> /\ sched' = OwnerEvent(sched, "cancel", t)
    BY DEF InterruptBegin
  <2>2. /\ sched' \in SchedulingState(BarrierNames) /\ WellFormed(sched')
        /\ sched'.owner = sched.owner
    BY <1>0, <2>1, OwnerEventLemma
  <2> QED BY <1>0, <2>1, <2>2 DEF SlotPart, SoleResident
<1>5. CASE StartPrepared
  <2> DEFINE m == Head(pending)
  <2>1. m \in Turns
    BY <1>5, SubjectLemma, MessagesAreTurns DEF StartPrepared
  <2>2. CASE Decision(m, queue).accepted
    BY <1>0, <1>5, <2>1, <2>2, StartSlot DEF StartPrepared
  <2>3. CASE ~Decision(m, queue).accepted
    BY <1>0, <1>5, <2>3 DEF StartPrepared, turnVars, SlotPart, SoleResident
  <2> QED BY <2>2, <2>3
<1>6. CASE IngressAdmit
  <2>1. subject \in Turns
    BY <1>6, SubjectLemma, MessagesAreTurns DEF IngressAdmit
  <2>2. CASE Decision(subject, queue).accepted /\ StartTask(subject, Decision(subject, queue).state)
    BY <1>0, <2>1, <2>2, StartSlot
  <2>3. CASE UNCHANGED <<sched, turnVars>>
    BY <1>0, <2>3 DEF turnVars, SlotPart, SoleResident
  <2> QED BY <1>6, <2>2, <2>3 DEF IngressAdmit
<1>7. CASE PopTrigger
  <2> DEFINE t == Head(queue).id
  <2>1. t \in Turns
    BY <1>7, SubjectLemma DEF PopTrigger, Triggers
  <2>2. CASE Decision(t, Tail(queue)).accepted /\ StartTask(t, Decision(t, Tail(queue)).state)
    BY <1>0, <2>1, <2>2, StartSlot
  <2>3. CASE UNCHANGED <<sched, turnVars>>
    BY <1>0, <2>3 DEF turnVars, SlotPart, SoleResident
  <2> QED BY <1>7, <2>2, <2>3 DEF PopTrigger
<1>8. CASE PopReset \/ PopCompact
  <2>1. UNCHANGED <<task, lease, active, scopes>>
    BY <1>8 DEF PopReset, PopCompact, turnVars
  <2>2. CASE sched' = sched
    BY <1>0, <2>1, <2>2 DEF SlotPart, SoleResident
  <2>3. CASE sched' = SetBarrier(sched, "quiescing:reset", TRUE)
    BY <1>0, <2>1, <2>3, BarrierSlot DEF BarrierNames
  <2>4. CASE sched' = SetBarrier(sched, "compact", TRUE)
    BY <1>0, <2>1, <2>4, BarrierSlot DEF BarrierNames
  <2> QED BY <1>8, <2>2, <2>3, <2>4 DEF PopReset, PopCompact
<1>9. CASE ResetEnd
  BY <1>0, <1>9, BarrierSlot DEF ResetEnd, turnVars, BarrierNames
<1>10. CASE CompactEnd
  BY <1>0, <1>10, BarrierSlot DEF CompactEnd, turnVars, BarrierNames
<1>11. CASE DreamEnter
  BY <1>0, <1>11, BarrierSlot DEF DreamEnter, turnVars, BarrierNames
<1>12. CASE DreamLeave
  BY <1>0, <1>12, BarrierSlot DEF DreamLeave, turnVars, BarrierNames
<1>13. CASE ShutdownBegin
  BY <1>0, <1>13, BarrierSlot DEF ShutdownBegin, turnVars, BarrierNames
<1> QED BY <1>1, <1>2, <1>3, <1>4, <1>5, <1>6, <1>7, <1>8, <1>9, <1>10, <1>11, <1>12, <1>13
        DEF Next, Pump, InterruptTask, Shutdown, SlotIdle
-----------------------------------------------------------------------------
\* Transcripts and events.

recordVars == <<task, active, scopes, l1, rounds, open, interrupted, cancelling>>

\* The steps that leave every turn's record alone.
RecordIdle ==
    \/ Environment
    \/ PumpDrain \/ StartNextQueued \/ PumpRest \/ PopUser \/ PopSlash \/ ControlRefused
    \/ PopInterrupt \/ InterruptJoined \/ PopReset \/ ResetDrained \/ ResetTimeout
    \/ ResetEnd \/ PopCompact \/ CompactRun \/ CompactGenerate \/ CompactEnd
    \/ DreamEnter \/ DreamLeave \/ Shutdown \/ Rest

LEMMA RecordIdleLemma ==
    ASSUME RecordIdle PROVE UNCHANGED recordVars
BY DEF RecordIdle, Environment, Arrive, Fire, RequestControl, PumpDrain, StartNextQueued,
       PumpRest, PopUser, PopSlash, ControlRefused, PopInterrupt, InterruptJoined, PopReset,
       ResetDrained, ResetTimeout, ResetEnd, PopCompact, CompactRun, CompactGenerate,
       CompactEnd, DreamEnter, DreamLeave, Shutdown, ShutdownBegin, ShutdownInterrupt,
       ShutdownJoined, ShutdownSave, PumpStop, Rest, turnVars, vars, recordVars

\* Closing a transcript closes it for good and leaves the others alone.
LEMMA CloseLemma ==
    ASSUME l1 \in [Turns -> L1States], NEW t \in Turns, NEW as \in L1States \ {"active"}
    PROVE  /\ CloseL1(t, as) \in [Turns -> L1States]
           /\ CloseL1(t, as)[t] # "active"
           /\ \A u \in Turns : u # t => CloseL1(t, as)[u] = l1[u]
BY DEF CloseL1

\* A new task announces itself once.
LEMMA StartRecord ==
    ASSUME SlotPart, RecordPart, NEW t \in Turns, NEW q, Decision(t, q).accepted,
           StartTask(t, Decision(t, q).state)
    PROVE  RecordPart'
<1>1. sched.owner = NoLease
  BY DecisionLemma
<1>2. \A u \in Turns : task[u] = "none"
  BY <1>1 DEF SlotPart, SoleResident
<1>3. \A u \in Turns : l1[u] # "active" /\ open[u] = 0
  BY <1>2 DEF SlotPart, RecordPart, Announced, SoleResident
<1>4. \A u \in Turns : task'[u] = IF u = t THEN "created" ELSE "none"
  BY <1>2 DEF SlotPart, StartTask
<1>5. open' \in [Turns -> Int] /\ \A u \in Turns : open'[u] = IF u = t THEN 1 ELSE 0
  BY <1>3 DEF RecordPart, StartTask
<1>6. rounds' \in [Turns -> Nat] /\ UNCHANGED <<l1, interrupted, cancelling>>
  BY DEF RecordPart, StartTask
<1> QED BY <1>3, <1>4, <1>5, <1>6 DEF RecordPart, Announced

\* A coroutine's exit closes the transcript its continuation had open.
LEMMA ExitRecord ==
    ASSUME Inv, NEW t \in Turns, task[t] \notin {"none", "done"}, Exit(t)
    PROVE  RecordPart'
<1>0. RecordPart /\ task \in [Turns -> TaskStages] /\ active \subseteq Turns
  BY DEF Inv, SlotPart
<1>1. /\ task' = [task EXCEPT ![t] = "done"] /\ active' = active \ {t} /\ scopes' = scopes \ {t}
      /\ UNCHANGED <<rounds, interrupted>> /\ cancelling' = cancelling \ {t}
      /\ l1' = IF t \in active THEN CloseL1(t, "interrupted") ELSE l1
      /\ open' = IF t \in Messages THEN [open EXCEPT ![t] = @ - 1] ELSE open
  BY DEF Exit, Cleanup
<1>2. l1' \in [Turns -> L1States] /\ \A u \in Turns : l1'[u] = "active" => u \in active'
  BY <1>0, <1>1, CloseLemma DEF RecordPart, L1States
<1>3. open[t] = 1
  BY <1>0 DEF RecordPart, Announced
<1>4. open' \in [Turns -> Int]
  BY <1>0, <1>1 DEF RecordPart
<1>5. \A u \in Turns : open'[u] = IF Announced(u)' THEN 1 ELSE 0
  <2> TAKE u \in Turns
  <2>1. CASE u = t
    BY <1>0, <1>1, <1>3, <2>1 DEF RecordPart, Announced
  <2>2. CASE u # t
    BY <1>0, <1>1, <2>2 DEF RecordPart, Announced
  <2> QED BY <2>1, <2>2
<1> QED BY <1>0, <1>1, <1>2, <1>4, <1>5 DEF RecordPart

\* A step inside the coroutine: the task stays live and its pair stays open.
LEMMA StageRecord ==
    ASSUME Inv, NEW t \in Turns, task[t] \notin {"none", "done"},
           NEW to \in TaskStages \ {"none", "done"}, task' = [task EXCEPT ![t] = to],
           \A u \in Turns : u # t => (u \in active' <=> u \in active) /\ (u \in scopes' <=> u \in scopes),
           l1' \in [Turns -> L1States], \A u \in Turns : u # t => l1'[u] = l1[u],
           l1'[t] = "active" => t \in active',
           rounds' \in [Turns -> Nat], UNCHANGED <<open, interrupted>>,
           cancelling' \subseteq Turns
    PROVE  RecordPart'
<1>0. RecordPart /\ task \in [Turns -> TaskStages]
  BY DEF Inv, SlotPart
<1>1. \A u \in Turns : Announced(u)' <=> Announced(u)
  BY <1>0 DEF Announced
<1>2. \A u \in Turns : open'[u] = IF Announced(u)' THEN 1 ELSE 0
  BY <1>0, <1>1 DEF RecordPart
<1>3. \A u \in Turns : l1'[u] = "active" => u \in active'
  BY <1>0 DEF RecordPart
<1> QED BY <1>0, <1>2, <1>3 DEF RecordPart

\* The done callback closes what the coroutine could not.
LEMMA DoneRecord ==
    ASSUME Inv, NEW t \in Turns, TurnDone(t)
    PROVE  RecordPart'
<1>0. SlotPart /\ RecordPart /\ SlotPart'
  BY DoneSlot DEF Inv
<1>1. /\ task[t] = "done" /\ lease[t] = sched.owner
      /\ \A u \in Turns : task'[u] = IF u = t THEN "none" ELSE task[u]
  BY <1>0 DEF TurnDone, SlotPart, SoleResident
<1>2. /\ rounds' \in [Turns -> Nat] /\ interrupted' \subseteq Turns /\ cancelling' \subseteq Turns
  BY <1>0 DEF TurnDone, RecordPart
<1>3. open' = IF Announced(t) THEN [open EXCEPT ![t] = @ - 1] ELSE open
  BY <1>1 DEF TurnDone, Untidy, Announced, Triggers
<1>4. open' \in [Turns -> Int] /\ \A u \in Turns : open'[u] = IF Announced(u)' THEN 1 ELSE 0
  <2>1. open' \in [Turns -> Int]
    BY <1>0, <1>3 DEF RecordPart
  <2>2. open'[t] = 0 /\ ~Announced(t)'
    BY <1>0, <1>1, <1>3 DEF RecordPart, Announced
  <2>3. ASSUME NEW u \in Turns, u # t
        PROVE  open'[u] = open[u] /\ (Announced(u)' <=> Announced(u))
    <3>1. scopes' \subseteq scopes /\ scopes \ {t} \subseteq scopes'
      BY DEF TurnDone, Cleanup
    <3> QED BY <1>0, <1>1, <1>3, <2>3, <3>1 DEF RecordPart, Announced
  <2> QED BY <1>0, <2>1, <2>2, <2>3 DEF RecordPart
<1>5. l1' \in [Turns -> L1States] /\ \A u \in Turns : l1'[u] = "active" => u \in active'
  <2>1. CASE Untidy(t)
    BY <1>0, <2>1, CloseLemma DEF TurnDone, Cleanup, RecordPart, L1States
  <2>2. CASE ~Untidy(t)
    BY <1>0, <2>2 DEF TurnDone, RecordPart
  <2> QED BY <2>1, <2>2
<1> QED BY <1>2, <1>4, <1>5 DEF RecordPart

\* Every step of a turn's own task keeps its records paired and closed.
LEMMA TurnRecord ==
    ASSUME Inv, NEW t \in Turns, TurnTask(t)
    PROVE  RecordPart'
<1>0. RecordPart /\ SlotPart
  BY DEF Inv
<1>1. CASE TurnBegin(t)
  BY <1>0, <1>1, StageRecord DEF TurnBegin, Step, TaskStages, RecordPart
<1>2. CASE TurnOpen(t)
  BY <1>0, <1>2, StageRecord DEF TurnOpen, Step, TaskStages, RecordPart, L1States
<1>3. CASE Round(t)
  <2>1. task[t] = "running" /\ task' = [task EXCEPT ![t] = "running"]
        /\ UNCHANGED <<active, scopes, l1, open, interrupted, cancelling>>
    BY <1>3 DEF Round, Step
  <2>2. rounds' \in [Turns -> Nat]
    BY <1>0, <1>3 DEF Round, RecordPart
  <2> QED BY <1>0, <2>1, <2>2, StageRecord DEF TaskStages, RecordPart
<1>4. CASE Inject(t)
  <2>1. task[t] = "running" /\ task' = [task EXCEPT ![t] = "inject"]
        /\ UNCHANGED <<active, scopes, l1, open, interrupted, cancelling>>
    BY <1>4 DEF Inject, Step
  <2>2. rounds' \in [Turns -> Nat]
    BY <1>0, <1>4 DEF Inject, RecordPart
  <2> QED BY <1>0, <2>1, <2>2, StageRecord DEF TaskStages, RecordPart
<1>5. CASE AbsorbCancel(t)
  BY <1>0, <1>5, StageRecord DEF AbsorbCancel, TaskStages, RecordPart
<1>6. CASE Finish(t)
  <2>0. PICK to \in {"post", "failing"} :
          task[t] = "running" /\ task' = [task EXCEPT ![t] = to]
    BY <1>6 DEF Finish, Step
  <2>1. /\ active' = active \ {t} /\ scopes' = scopes \ {t} /\ l1' = CloseL1(t, "settled")
        /\ UNCHANGED <<rounds, open, interrupted, cancelling>>
    BY <1>6 DEF Finish
  <2>2. /\ l1' \in [Turns -> L1States] /\ l1'[t] # "active"
        /\ \A u \in Turns : u # t => l1'[u] = l1[u]
    BY <1>0, <2>1, CloseLemma DEF RecordPart, L1States
  <2> QED BY <1>0, <2>0, <2>1, <2>2, StageRecord DEF RecordPart, TaskStages
<1>7. CASE Fail(t)
  <2>1. /\ task[t] \in {"opening", "running"} /\ task' = [task EXCEPT ![t] = "failing"]
        /\ l1' = CloseL1(t, "aborted")
        /\ UNCHANGED <<active, scopes, rounds, open, interrupted, cancelling>>
    BY <1>7 DEF Fail, Step
  <2>2. /\ l1' \in [Turns -> L1States] /\ l1'[t] # "active"
        /\ \A u \in Turns : u # t => l1'[u] = l1[u]
    BY <1>0, <2>1, CloseLemma DEF RecordPart, L1States
  <2> QED BY <1>0, <2>1, <2>2, StageRecord DEF RecordPart, TaskStages
<1>8. CASE TurnRefused(t)
  BY <1>8, ExitRecord DEF TurnRefused
<1>9. CASE TurnExit(t)
  BY <1>9, ExitRecord DEF TurnExit
<1>10. CASE CancelledUnstarted(t)
  <2>1. /\ task[t] = "created" /\ task' = [task EXCEPT ![t] = "done"]
        /\ UNCHANGED <<active, scopes, l1, rounds, open, interrupted>>
        /\ cancelling' = cancelling \ {t}
    BY <1>10 DEF CancelledUnstarted
  <2>2. t \in scopes
    BY <1>0, <2>1 DEF SlotPart, Scoped
  <2>3. \A u \in Turns : Announced(u)' <=> Announced(u)
    BY <1>0, <2>1, <2>2 DEF SlotPart, Announced
  <2> QED BY <1>0, <2>1, <2>3 DEF RecordPart
<1>11. CASE TurnDone(t)
  BY <1>11, DoneRecord
<1> QED BY <1>1, <1>2, <1>3, <1>4, <1>5, <1>6, <1>7, <1>8, <1>9, <1>10, <1>11 DEF TurnTask

\* The record part survives every step.
LEMMA RecordStep == ASSUME Inv, Next PROVE RecordPart'
<1>0. RecordPart /\ SlotPart
  BY DEF Inv
<1>1. CASE RecordIdle
  <2>1. UNCHANGED recordVars
    BY <1>1, RecordIdleLemma
  <2> QED BY <1>0, <2>1 DEF recordVars, RecordPart, Announced
<1>2. CASE \E t \in Turns : TurnTask(t)
  BY <1>2, TurnRecord
<1>3. CASE \E c \in commits : InjectCommit(c)
  <2> PICK c \in commits : InjectCommit(c)
    BY <1>3
  <2>0. c.owner.turn \in Turns
    BY DEF Inv, RestPart, Commit, Lease
  <2>1. UNCHANGED <<active, scopes, l1, rounds, open, interrupted, cancelling>>
    BY DEF InjectCommit
  <2>2. \A u \in Turns : Announced(u)' <=> Announced(u)
    BY <1>0, <2>0, <2>1 DEF InjectCommit, Announced, SlotPart
  <2> QED BY <1>0, <2>1, <2>2 DEF RecordPart
<1>4. CASE \E t \in Turns : InterruptBegin(t)
  <2> PICK t \in Turns : InterruptBegin(t)
    BY <1>4
  <2>1. UNCHANGED <<task, active, scopes, rounds, open, cancelling>>
    BY DEF InterruptBegin
  <2>2. interrupted' \subseteq Turns
    BY <1>0 DEF InterruptBegin, RecordPart
  <2>3. l1' \in [Turns -> L1States] /\ \A u \in Turns : l1'[u] = "active" => u \in active
    BY <1>0, CloseLemma DEF InterruptBegin, RecordPart, L1States
  <2> QED BY <1>0, <2>1, <2>2, <2>3 DEF RecordPart, Announced
<1>5. CASE \E t \in Turns : InterruptCancel(t)
  BY <1>0, <1>5 DEF InterruptCancel, RecordPart, Announced
<1>6. CASE ResetHistory
  <2>1. UNCHANGED <<task, active, scopes, rounds, open, interrupted, cancelling>>
        /\ l1' \in {[t \in Turns |-> "none"], l1}
    BY <1>6 DEF ResetHistory
  <2>2. l1' \in [Turns -> L1States] /\ \A u \in Turns : l1'[u] = "active" => u \in active
    BY <1>0, <2>1 DEF RecordPart, L1States
  <2> QED BY <1>0, <2>1, <2>2 DEF RecordPart, Announced
<1>7. CASE StartPrepared
  <2> DEFINE m == Head(pending)
  <2>1. m \in Turns
    BY <1>7, SubjectLemma, MessagesAreTurns DEF StartPrepared
  <2>2. CASE Decision(m, queue).accepted
    BY <1>0, <1>7, <2>1, <2>2, StartRecord DEF StartPrepared
  <2>3. CASE ~Decision(m, queue).accepted
    BY <1>0, <1>7, <2>3 DEF StartPrepared, turnVars, RecordPart, Announced
  <2> QED BY <2>2, <2>3
<1>8. CASE IngressAdmit
  <2>1. subject \in Turns
    BY <1>8, SubjectLemma, MessagesAreTurns DEF IngressAdmit
  <2>2. CASE Decision(subject, queue).accepted /\ StartTask(subject, Decision(subject, queue).state)
    BY <1>0, <2>1, <2>2, StartRecord
  <2>3. CASE UNCHANGED turnVars
    BY <1>0, <2>3 DEF turnVars, RecordPart, Announced
  <2> QED BY <1>8, <2>2, <2>3 DEF IngressAdmit
<1>9. CASE PopTrigger
  <2> DEFINE t == Head(queue).id
  <2>1. t \in Turns
    BY <1>9, SubjectLemma DEF PopTrigger, Triggers
  <2>2. CASE Decision(t, Tail(queue)).accepted /\ StartTask(t, Decision(t, Tail(queue)).state)
    BY <1>0, <2>1, <2>2, StartRecord
  <2>3. CASE UNCHANGED turnVars
    BY <1>0, <2>3 DEF turnVars, RecordPart, Announced
  <2> QED BY <1>9, <2>2, <2>3 DEF PopTrigger
<1> QED BY <1>1, <1>2, <1>3, <1>4, <1>5, <1>6, <1>7, <1>8, <1>9
        DEF Next, Pump, InterruptTask, RecordIdle
-----------------------------------------------------------------------------
\* The messages.

\* The steps that leave the flow of messages alone.
FlowIdle ==
    \/ Environment
    \/ PumpDrain \/ StartNextQueued \/ PumpRest \/ PopUser \/ PopTrigger \/ PopSlash \/ ControlRefused
    \/ PopInterrupt \/ InterruptJoined \/ PopReset \/ ResetDrained \/ ResetTimeout
    \/ ResetHistory \/ ResetEnd \/ PopCompact \/ CompactRun \/ CompactGenerate \/ CompactEnd
    \/ \E t \in Turns : TurnTask(t) \/ InterruptTask(t)
    \/ DreamEnter \/ DreamLeave \/ Shutdown \/ Rest

LEMMA FlowIdleLemma ==
    ASSUME FlowIdle PROVE UNCHANGED <<pending, accepted, consumed>>
<1>1. ASSUME NEW t \in Turns, TurnTask(t) PROVE UNCHANGED <<pending, accepted, consumed>>
  BY <1>1 DEF flowVars, TurnTask, TurnBegin, TurnOpen, Round, Inject, AbsorbCancel, Finish, Fail,
              TurnRefused, TurnExit, Exit, CancelledUnstarted, TurnDone
<1>2. ASSUME NEW t \in Turns, InterruptTask(t) PROVE UNCHANGED <<pending, accepted, consumed>>
  BY <1>2 DEF flowVars, InterruptTask, InterruptBegin, InterruptCancel
<1>3. ASSUME Environment \/ Shutdown \/ DreamEnter \/ DreamLeave \/ Rest
      PROVE  UNCHANGED <<pending, accepted, consumed>>
  BY <1>3 DEF flowVars, Environment, Arrive, Fire, RequestControl, Shutdown, ShutdownBegin,
              ShutdownInterrupt, ShutdownJoined, ShutdownSave, PumpStop, DreamEnter,
              DreamLeave, Rest, vars
<1>4. ASSUME \/ PumpDrain \/ StartNextQueued \/ PumpRest \/ PopUser \/ PopTrigger
             \/ PopSlash \/ ControlRefused \/ PopInterrupt \/ InterruptJoined \/ PopReset \/ ResetDrained
             \/ ResetTimeout \/ ResetHistory \/ ResetEnd \/ PopCompact \/ CompactRun
             \/ CompactGenerate \/ CompactEnd
      PROVE  UNCHANGED <<pending, accepted, consumed>>
  BY <1>4 DEF flowVars, PumpDrain, StartNextQueued, PumpRest, PopUser, PopTrigger, PopSlash, ControlRefused,
              PopInterrupt, InterruptJoined, PopReset, ResetDrained, ResetTimeout,
              ResetHistory, ResetEnd, PopCompact, CompactRun, CompactGenerate, CompactEnd
<1> QED BY <1>1, <1>2, <1>3, <1>4 DEF FlowIdle

\* Serving the head, and serving a batch, are steps of the ledger.
LEMMA ServeHead ==
    ASSUME NEW w \in Seq(Messages), w # <<>>, NEW s \in Seq(Messages)
    PROVE  /\ 1 \in 1..Len(w)
           /\ Append(s, Head(w)) = s \o SubSeq(w, 1, 1)
           /\ Tail(w) = SubSeq(w, 1 + 1, Len(w))
<1>1. Len(w) \in Nat /\ Len(w) >= 1
  BY EmptySeq
<1>2. SubSeq(w, 1, 1) = <<Head(w)>>
  <2>1. SubSeq(w, 1, 1) = SubSeq(w, 1, 1 - 1) \o <<w[1]>>
    BY <1>1, SubSeqRecursiveSecond
  <2>2. SubSeq(w, 1, 1 - 1) = <<>>
    BY SubSeqEmpty
  <2>3. w[1] = Head(w) /\ <<w[1]>> \in Seq(Messages)
    BY <1>1
  <2> QED BY <2>1, <2>2, <2>3, ConcatEmptySeq
<1> QED BY <1>1, <1>2, TailIsSubSeq, AppendIsConcat, HeadTailProperties

(* A message that may start at once is admitted: nothing can have changed   *)
(* between the check of resident_admission_reason and the admission, which  *)
(* is why the code may ignore the start's result.                           *)
LEMMA AdmittedLemma ==
    ASSUME NEW m \in Messages, MayStart("chat", queue)
    PROVE  Decision(m, queue).accepted
BY DEF MayStart, Decision, KindOf, ReduceAdmit, Accept

(* Every step of the runtime is a step of the ledger or leaves it alone.    *)
LEMMA LedgerStep ==
    ASSUME Inv, Next PROVE [Ledger!Next]_(Ledger!ledger)
<1>0. /\ pending \in Seq(Messages) /\ accepted \in Seq(Messages) /\ consumed \in Seq(Messages)
      /\ (pc = "prep" => pending # <<>>)
  BY DEF Inv, FlowPart, PumpPart
<1>1. CASE FlowIdle
  BY <1>1, FlowIdleLemma DEF Ledger!ledger
<1>2. CASE StartPrepared
  <2> DEFINE handled == Decision(Head(pending), queue).accepted \/ TaskLive(Head(pending))
  <2>1. /\ pending # <<>> /\ UNCHANGED accepted
        /\ pending' = IF handled THEN Tail(pending) ELSE pending
        /\ consumed' = IF handled THEN Append(consumed, Head(pending)) ELSE consumed
    BY <1>0, <1>2 DEF StartPrepared, PoppedHead
  <2> HIDE DEF handled
  <2>2. CASE ~handled
    BY <2>1, <2>2 DEF Ledger!ledger
  <2>3. CASE handled
    <3>1. Ledger!Serve
      BY <1>0, <2>1, <2>3, ServeHead DEF Ledger!Serve
    <3> QED BY <3>1 DEF Ledger!Next
  <2> QED BY <2>2, <2>3
<1>3. CASE IngressAdmit
  <2>0. subject \in Messages
    BY <1>3, SubjectLemma DEF IngressAdmit
  <2>1. CASE UNCHANGED <<pending, accepted, consumed>>
    BY <2>1 DEF Ledger!ledger
  <2>2. CASE /\ pending' = Append(pending, subject) /\ accepted' = Append(accepted, subject)
             /\ UNCHANGED consumed
    BY <2>0, <2>2 DEF Ledger!Next, Ledger!Take
  <2>3. CASE /\ pending = <<>> /\ UNCHANGED pending /\ accepted' = Append(accepted, subject)
             /\ consumed' = Append(consumed, subject)
    BY <2>0, <2>3 DEF Ledger!Next, Ledger!TakeAndServe
  <2>4. ~MustWait => pending = <<>> /\ Decision(subject, queue).accepted
    BY <2>0, AdmittedLemma DEF MustWait
  <2> QED BY <1>3, <2>1, <2>2, <2>3, <2>4 DEF IngressAdmit
<1>4. CASE \E c \in commits : InjectCommit(c)
  <2> PICK c \in commits : InjectCommit(c)
    BY <1>4
  <2>0. c.batch \in Seq(Messages) /\ c.batch # <<>>
    BY DEF Inv, RestPart, Commit
  <2>1. CASE UNCHANGED <<pending, consumed>>
    BY <2>1 DEF InjectCommit, Ledger!ledger
  <2>2. CASE ~UNCHANGED <<pending, consumed>>
    <3>1. /\ Len(c.batch) <= Len(pending) /\ SubSeq(pending, 1, Len(c.batch)) = c.batch
          /\ pending' = SubSeq(pending, Len(c.batch) + 1, Len(pending))
          /\ consumed' = consumed \o SubSeq(pending, 1, Len(c.batch))
          /\ UNCHANGED accepted
      BY <2>2 DEF InjectCommit, Acknowledged
    <3>2. Len(c.batch) \in 1..Len(pending)
      BY <1>0, <2>0, <3>1, EmptySeq
    <3> QED BY <3>1, <3>2 DEF Ledger!Next, Ledger!Serve
  <2> QED BY <2>1, <2>2
<1> QED BY <1>1, <1>2, <1>3, <1>4 DEF Next, Pump, FlowIdle

\* Concatenation is associative, at the one type the ledger needs.
LEMMA ConcatThree ==
    ASSUME NEW a \in Seq(Messages), NEW b \in Seq(Messages), NEW c \in Seq(Messages)
    PROVE  (a \o b) \o c = a \o (b \o c)
BY ConcatAssociative

(* The ledger conserves messages: what is taken is what was served followed *)
(* by what waits.                                                           *)
LEMMA LedgerConserves ==
    ASSUME FlowPart, Ledger!Next
    PROVE  FlowPart'
<1>0. /\ pending \in Seq(Messages) /\ accepted \in Seq(Messages)
      /\ consumed \in Seq(Messages) /\ accepted = consumed \o pending
  BY DEF FlowPart, MessagesConserved
<1>1. ASSUME NEW m \in Messages, Ledger!Take(m) PROVE FlowPart'
  <2>1. /\ pending' = pending \o <<m>> /\ accepted' = accepted \o <<m>>
        /\ UNCHANGED consumed /\ <<m>> \in Seq(Messages)
    BY <1>0, <1>1, AppendIsConcat DEF Ledger!Take
  <2>2. (consumed \o pending) \o <<m>> = consumed \o (pending \o <<m>>)
    BY <1>0, <2>1, ConcatThree
  <2>3. pending' \in Seq(Messages) /\ accepted' \in Seq(Messages)
    BY <1>0, <1>1, AppendProperties DEF Ledger!Take
  <2> QED BY <1>0, <2>1, <2>2, <2>3 DEF FlowPart, MessagesConserved
<1>2. ASSUME NEW m \in Messages, Ledger!TakeAndServe(m) PROVE FlowPart'
  <2>1. accepted = consumed /\ accepted' = Append(accepted, m) /\ UNCHANGED pending
        /\ consumed' = Append(consumed, m) /\ pending = <<>>
    BY <1>0, <1>2, ConcatEmptySeq DEF Ledger!TakeAndServe
  <2>2. accepted' \in Seq(Messages) /\ consumed' \in Seq(Messages)
    BY <1>0, <2>1, AppendProperties
  <2> QED BY <1>0, <2>1, <2>2, ConcatEmptySeq DEF FlowPart, MessagesConserved
<1>3. ASSUME Ledger!Serve PROVE FlowPart'
  <2> PICK n \in 1..Len(pending) :
        /\ consumed' = consumed \o SubSeq(pending, 1, n)
        /\ pending' = SubSeq(pending, n + 1, Len(pending))
        /\ UNCHANGED accepted
    BY <1>3 DEF Ledger!Serve
  <2> DEFINE front == SubSeq(pending, 1, n)
             back == SubSeq(pending, n + 1, Len(pending))
  <2>1. Len(pending) \in Nat /\ n \in Nat /\ \A i \in 1..Len(pending) : pending[i] \in Messages
    BY <1>0, LenProperties, ElementOfSeq
  <2>2. front \in Seq(Messages)
    BY <2>1, SubSeqProperties
  <2>3. back \in Seq(Messages)
    BY <2>1, SubSeqProperties
  <2>4. front \o back = pending
    <3>1. 1 \in 1..Len(pending) + 1 /\ n \in 1 - 1..Len(pending) /\ Len(pending) \in n..Len(pending)
      BY <2>1
    <3>2. SubSeq(pending, 1, n) \o SubSeq(pending, n + 1, Len(pending))
            = SubSeq(pending, 1, Len(pending))
      BY <1>0, <3>1, ConcatAdjacentSubSeq
    <3> QED BY <1>0, <3>2, SubSeqFull
  <2> HIDE DEF front, back
  <2>5. (consumed \o front) \o back = consumed \o pending
    <3>0. consumed \in Seq(Messages)
      BY <1>0
    <3>1. (consumed \o front) \o back = consumed \o (front \o back)
      BY <2>2, <2>3, <3>0, ConcatThree
    <3> QED BY <2>4, <3>1
  <2>6. consumed \o front \in Seq(Messages)
    BY <1>0, <2>2, ConcatProperties
  <2>7. consumed' = consumed \o front /\ pending' = back /\ accepted' = accepted
    BY DEF front, back
  <2> QED BY <1>0, <2>3, <2>5, <2>6, <2>7 DEF FlowPart, MessagesConserved
<1> QED BY <1>1, <1>2, <1>3 DEF Ledger!Next

\* The flow part survives every step, by way of the ledger.
LEMMA FlowStep == ASSUME Inv, Next PROVE FlowPart'
<1>1. FlowPart
  BY DEF Inv
<1>2. CASE Ledger!Next
  BY <1>1, <1>2, LedgerConserves
<1>3. CASE UNCHANGED Ledger!ledger
  BY <1>1, <1>3 DEF Ledger!ledger, FlowPart, MessagesConserved
<1> QED BY <1>2, <1>3, LedgerStep
-----------------------------------------------------------------------------
\* The pump.

\* What a step of anyone but the pump may do to the pump: wake it.
LEMMA WokenPump ==
    ASSUME PumpPart, UNCHANGED <<inbox, trigs, queue, pumpVars, pending>>, woken' \in BOOLEAN
    PROVE  PumpPart'
BY DEF PumpPart, pumpVars

\* Nobody but the pump moves the pump; the lock keeps the queue's head while it waits.
LEMMA OthersPump ==
    ASSUME Inv,
           \/ \E t \in Turns : TurnTask(t) \/ InterruptTask(t)
           \/ DreamEnter \/ DreamLeave
           \/ ShutdownBegin \/ ShutdownInterrupt \/ ShutdownJoined \/ ShutdownSave \/ Rest
    PROVE  PumpPart'
<1>0. PumpPart /\ woken \in BOOLEAN
  BY DEF Inv, PumpPart
<1>1. ASSUME NEW t \in Turns, TurnTask(t)
      PROVE  UNCHANGED <<inbox, trigs, queue, pumpVars, pending>> /\ woken' \in BOOLEAN
  BY <1>0, <1>1 DEF TurnTask, TurnBegin, TurnOpen, Round, Inject, AbsorbCancel, Finish, Fail,
              TurnRefused, TurnExit, Exit, CancelledUnstarted, TurnDone, ReleaseLease,
              inputVars, flowVars
<1>2. ASSUME NEW t \in Turns, InterruptTask(t)
      PROVE  UNCHANGED <<inbox, trigs, queue, pumpVars, pending>> /\ woken' \in BOOLEAN
  BY <1>0, <1>2 DEF InterruptTask, InterruptBegin, InterruptCancel, inputVars, flowVars
<1>3. ASSUME \/ DreamEnter \/ DreamLeave
             \/ ShutdownBegin \/ ShutdownInterrupt \/ ShutdownJoined \/ ShutdownSave \/ Rest
      PROVE  UNCHANGED <<inbox, trigs, queue, pumpVars, pending>> /\ woken' \in BOOLEAN
  BY <1>0, <1>3 DEF DreamEnter, DreamLeave, ShutdownBegin, ShutdownInterrupt, ShutdownJoined,
              ShutdownSave, Rest, inputVars, flowVars, vars
<1> QED BY <1>0, <1>1, <1>2, <1>3, WokenPump

LEMMA CommitPump ==
    ASSUME Inv, NEW c \in commits, InjectCommit(c)
    PROVE  PumpPart'
BY DEF Inv, PumpPart, InjectCommit, LockFree, inputVars, pumpVars

\* The sources hand over only what they hold.
LEMMA ReadyLemma ==
    ASSUME trigs \subseteq Triggers, NEW q, NEW ready \in Ready(q)
    PROVE  ready \subseteq trigs
BY DEF Ready, ProactiveReady, PackageReady

\* A set of triggers makes a finite set of events.
LEMMA TriggersFinite ==
    ASSUME NEW ready \in SUBSET Triggers
    PROVE  IsFiniteSet({Trigger(t) : t \in ready})
<1> DEFINE S == {Trigger(t) : t \in ready}
           f == [t \in ready |-> Trigger(t)]
<1>1. IsFiniteSet(ready)
  BY TurnsAreFinite, FS_Subset DEF Triggers
<1>2. f \in Surjection(ready, S)
  BY DEF Surjection
<1> HIDE DEF f, S
<1>3. IsFiniteSet(S)
  BY <1>1, <1>2, FS_Surjection
<1> QED BY <1>3 DEF S

\* Queueing a finite set of events, in any order, yields a sequence of them.
LEMMA OrdersLemma ==
    ASSUME NEW ready \in SUBSET Triggers, NEW events \in Orders({Trigger(t) : t \in ready})
    PROVE  events \in Seq(QueueEvent)
<1> DEFINE S == {Trigger(t) : t \in ready}
           n == Cardinality(S)
<1>2. IsFiniteSet(S)
  BY TriggersFinite
<1>3. n \in Nat
  BY <1>2, FS_CardinalityType
<1>4. S \subseteq QueueEvent
  BY DEF QueueEvent
<1>5. events \in [1..n -> S]
  BY DEF Orders
<1> HIDE DEF n, S
<1>6. events \in [1..n -> QueueEvent]
  BY <1>4, <1>5
<1> QED BY <1>3, <1>6, SeqDef

LEMMA DrainPump == ASSUME Inv, PumpDrain PROVE PumpPart'
<1>0. /\ inbox \in Seq(InboxEvent) /\ trigs \subseteq Triggers /\ queue \in Seq(QueueEvent)
      /\ subject \in Turns \cup {NoLease}
  BY DEF Inv, PumpPart
<1>1. PICK channelFirst \in BOOLEAN :
      \E ready \in Ready(IF channelFirst THEN queue \o inbox ELSE queue) :
      \E events \in Orders({Trigger(t) : t \in ready}) :
         /\ queue' = queue \o (IF channelFirst THEN inbox \o events ELSE events \o inbox)
         /\ trigs' = trigs \ ready
  BY DEF PumpDrain
<1>2. PICK ready \in Ready(IF channelFirst THEN queue \o inbox ELSE queue) :
      \E events \in Orders({Trigger(t) : t \in ready}) :
         /\ queue' = queue \o (IF channelFirst THEN inbox \o events ELSE events \o inbox)
         /\ trigs' = trigs \ ready
  BY <1>1
<1>3. PICK events \in Orders({Trigger(t) : t \in ready}) :
         /\ queue' = queue \o (IF channelFirst THEN inbox \o events ELSE events \o inbox)
         /\ trigs' = trigs \ ready
  BY <1>2
<1>4. ready \subseteq Triggers
  BY <1>0, ReadyLemma
<1>5. events \in Seq(QueueEvent)
  BY <1>4, OrdersLemma
<1>6. inbox \in Seq(QueueEvent)
  BY <1>0, SeqMonotonic DEF QueueEvent
<1>7. queue' \in Seq(QueueEvent)
  <2>1. inbox \o events \in Seq(QueueEvent) /\ events \o inbox \in Seq(QueueEvent)
    BY <1>5, <1>6, ConcatProperties
  <2> QED BY <1>0, <1>3, <2>1, ConcatProperties
<1>8. /\ trigs' \subseteq Triggers /\ inbox' = <<>> /\ woken' = FALSE
      /\ pc' = "next" /\ ret' = "pop" /\ subject' = subject
  BY <1>0, <1>3 DEF PumpDrain
<1>9. inbox' \in Seq(InboxEvent) /\ pc' \in PumpPlaces /\ ret' \in {"idle", "pop"}
  BY <1>8 DEF PumpPlaces
<1> QED BY <1>0, <1>7, <1>8, <1>9 DEF PumpPart

\* The pump's own steps keep its place and its queue.
LEMMA PumpOwn == ASSUME Inv, Pump PROVE PumpPart'
<1>0. /\ PumpPart /\ queue \in Seq(QueueEvent) /\ trigs \subseteq Triggers
      /\ pending \in Seq(Messages) /\ woken \in BOOLEAN /\ ret \in {"idle", "pop"}
  BY DEF Inv, PumpPart, FlowPart
<1>q. queue # <<>> => Tail(queue) \in Seq(QueueEvent)
  BY <1>0, HeadTailProperties
<1>1. CASE PumpDrain
  BY <1>1, DrainPump
<1>2. CASE StartNextQueued
  BY <1>0, <1>2 DEF StartNextQueued, Resume, PumpPart, PumpPlaces, flowVars
<1>3. CASE StartPrepared
  <2>1. /\ UNCHANGED <<inbox, trigs, queue, ret, subject>> /\ pc = "prep"
        /\ pending' \in {pending, Tail(pending)}
        /\ \/ UNCHANGED <<pc, woken>> /\ Len(pending) > 1
           \/ pc' = ret /\ woken' = (woken \/ ret = "idle")
    BY <1>3 DEF StartPrepared, PoppedHead, Resume
  <2>2. Len(pending) > 1 => pending' # <<>>
    BY <1>0, <2>1
  <2> QED BY <1>0, <2>1, <2>2 DEF PumpPart, PumpPlaces
<1>4. CASE PopUser
  <2>1. /\ UNCHANGED <<inbox, trigs, ret, pending>> /\ queue' = Tail(queue) /\ queue # <<>>
        /\ \/ pc' = "idle" /\ woken' = TRUE /\ UNCHANGED subject
           \/ pc' = "ingress" /\ subject' = Head(queue).id /\ UNCHANGED woken
    BY <1>4 DEF PopUser, Popped, PopQueue, PumpAgain, flowVars
  <2>2. Head(queue).id \in Messages /\ Head(queue).id \in Turns
    BY <1>4, SubjectLemma, MessagesAreTurns DEF PopUser
  <2> QED BY <1>0, <1>q, <2>1, <2>2 DEF PumpPart, PumpPlaces
<1>5. CASE IngressAdmit
  BY <1>0, <1>5 DEF IngressAdmit, PumpAgain, PumpPart, PumpPlaces
<1>6. CASE PopTrigger
  <2>1. /\ UNCHANGED <<inbox, ret, subject, pending>> /\ queue' = Tail(queue) /\ queue # <<>>
        /\ pc' = "idle" /\ woken' = TRUE /\ trigs' \in {trigs, trigs \cup {Head(queue).id}}
    BY <1>6 DEF PopTrigger, Popped, PopQueue, PumpAgain, Requeue, flowVars
  <2>2. Head(queue).id \in Triggers
    BY <1>6, SubjectLemma DEF PopTrigger
  <2> QED BY <1>0, <1>q, <2>1, <2>2 DEF PumpPart, PumpPlaces
<1>7. CASE PumpRest \/ ControlRefused
  BY <1>0, <1>q, <1>7 DEF PumpRest, ControlRefused, Popped, PopQueue, PumpAgain, PumpPart,
                          PumpPlaces, inputVars, flowVars
<1>8. CASE PopInterrupt \/ PopReset
  <2>1. /\ UNCHANGED <<inbox, trigs, ret, pending>> /\ queue' = Tail(queue) /\ queue # <<>>
        /\ woken' \in BOOLEAN
        /\ pc' \in {"idle", "interrupt", "reset_interrupt", "reset_drain"}
        /\ \/ UNCHANGED subject
           \/ sched.owner # NoLease /\ subject' = sched.owner.turn
    BY <1>0, <1>8 DEF PopInterrupt, PopReset, PoppedControl, Popped, PopQueue, PumpAgain, OwnerLive,
                OwnerTurn, flowVars
  <2>2. sched.owner # NoLease => sched.owner.turn \in Turns
    BY DEF Inv, SlotPart, SchedulingState, Lease
  <2> QED BY <1>0, <1>q, <2>1, <2>2 DEF PumpPart, PumpPlaces
<1>9. CASE InterruptJoined
  BY <1>0, <1>9 DEF InterruptJoined, PumpAgain, PumpPart, PumpPlaces, flowVars
<1>10. CASE ResetDrained \/ ResetTimeout \/ ResetHistory \/ ResetEnd
  BY <1>0, <1>10 DEF ResetDrained, ResetTimeout, ResetHistory, ResetEnd, PumpPart, PumpPlaces,
                     inputVars, flowVars
<1>11. CASE PopCompact
  BY <1>0, <1>q, <1>11 DEF PopCompact, PoppedControl, Popped, PopQueue, PumpAgain, PumpPart,
                           PumpPlaces, flowVars
<1>12. CASE CompactRun \/ CompactGenerate \/ CompactEnd
  BY <1>0, <1>12 DEF CompactRun, CompactGenerate, CompactEnd, PumpPart, PumpPlaces, inputVars,
                     flowVars
<1>13. CASE PopSlash
  <2>1. Control(Head(queue).id) \in QueueEvent
    BY <1>13, SubjectLemma DEF PopSlash, QueueEvent
  <2>2. queue' = Append(Tail(queue), Control(Head(queue).id)) /\ queue # <<>>
    BY <1>13 DEF PopSlash, Popped
  <2>3. queue' \in Seq(QueueEvent)
    BY <1>q, <2>1, <2>2, AppendProperties
  <2> QED BY <1>0, <1>13, <2>3 DEF PopSlash, PumpAgain, PumpPart, PumpPlaces, flowVars
<1> QED BY <1>1, <1>2, <1>3, <1>4, <1>5, <1>6, <1>7, <1>8, <1>9, <1>10, <1>11, <1>12, <1>13
        DEF Pump

\* The pump part survives every step.
LEMMA PumpStep == ASSUME Inv, Next PROVE PumpPart'
<1>0. PumpPart
  BY DEF Inv
<1>1. CASE Environment
  <2>1. UNCHANGED <<queue, pumpVars, pending>> /\ woken' = TRUE
    BY <1>1 DEF Environment, Arrive, Fire, RequestControl, flowVars
  <2>2. inbox' \in Seq(InboxEvent)
    <3>0. inbox \in Seq(InboxEvent)
      BY <1>0 DEF PumpPart
    <3>1. ASSUME NEW m \in Messages, Arrive(m) PROVE inbox' \in Seq(InboxEvent)
      <4>1. User(m) \in InboxEvent /\ inbox' = Append(inbox, User(m))
        BY <3>1 DEF InboxEvent, Arrive
      <4> QED BY <3>0, <4>1, AppendProperties
    <3>2. ASSUME NEW k \in ControlKinds, RequestControl(k) PROVE inbox' \in Seq(InboxEvent)
      <4>1. Slash(k) \in InboxEvent /\ inbox' = Append(inbox, Slash(k))
        BY <3>2 DEF InboxEvent, RequestControl
      <4> QED BY <3>0, <4>1, AppendProperties
    <3>3. ASSUME NEW t, Fire(t) PROVE inbox' \in Seq(InboxEvent)
      BY <3>0, <3>3 DEF Fire
    <3> QED BY <1>1, <3>1, <3>2, <3>3 DEF Environment
  <2>3. trigs' \subseteq Triggers
    BY <1>0, <1>1 DEF PumpPart, Environment, Arrive, Fire, RequestControl
  <2> QED BY <1>0, <2>1, <2>2, <2>3 DEF PumpPart, pumpVars
<1>2. CASE Pump
  BY <1>2, PumpOwn
<1>3. CASE \E c \in commits : InjectCommit(c)
  BY <1>3, CommitPump
<1>4. CASE PumpStop
  BY <1>0, <1>4 DEF PumpStop, PumpPart, PumpPlaces, inputVars, flowVars
<1>5. CASE \/ \E t \in Turns : TurnTask(t) \/ InterruptTask(t)
           \/ DreamEnter \/ DreamLeave
           \/ ShutdownBegin \/ ShutdownInterrupt \/ ShutdownJoined \/ ShutdownSave \/ Rest
  BY <1>5, OthersPump
<1> QED BY <1>1, <1>2, <1>3, <1>4, <1>5 DEF Next, Shutdown
-----------------------------------------------------------------------------
\* Interrupts, commits, the gate, shutdown and the inputs.

restVars == <<itask, aim, commits, drained, ticket, shutdown, budget>>

\* Raising an interrupt aims it at the owner's lease.
LEMMA RequestLemma ==
    ASSUME Inv, OwnerLive, RequestInterrupt
    PROVE  /\ itask' \in [Turns -> {"none", "begin", "cancel"}]
           /\ aim' \in [Turns -> Lease \cup {NoLease}]
<1>1. sched.owner \in Lease /\ OwnerTurn \in Turns
  BY DEF Inv, SlotPart, OwnerLive, OwnerTurn, SchedulingState, Lease
<1> QED BY <1>1 DEF RequestInterrupt, Inv, RestPart

LEMMA TurnRest ==
    ASSUME Inv, NEW t \in Turns, TurnTask(t)
    PROVE  RestPart'
<1>0. RestPart
  BY DEF Inv
<1>1. CASE Inject(t)
  <2>1. PICK n \in 1..Len(pending) :
          commits' = commits \cup {[owner |-> lease[t], batch |-> SubSeq(pending, 1, n)]}
    BY <1>1 DEF Inject
  <2>2. lease[t] \in Lease
    BY <1>1 DEF Inject, Step, Inv, SlotPart, SoleResident
  <2>3. SubSeq(pending, 1, n) \in Seq(Messages) \ {<<>>}
    <3>1. /\ Len(pending) \in Nat /\ n \in Int /\ 1 <= n
          /\ \A i \in 1..n : pending[i] \in Messages
      BY LenProperties, ElementOfSeq DEF Inv, FlowPart
    <3>2. SubSeq(pending, 1, n) \in Seq(Messages) /\ Len(SubSeq(pending, 1, n)) = n - 1 + 1
      BY <3>1, SubSeqProperties
    <3>3. SubSeq(pending, 1, n) # <<>>
      BY <3>1, <3>2, EmptySeq
    <3> QED BY <3>2, <3>3
  <2>4. [owner |-> lease[t], batch |-> SubSeq(pending, 1, n)] \in Commit
    BY <2>2, <2>3 DEF Commit
  <2>5. UNCHANGED <<itask, aim, drained, ticket, shutdown, budget>>
    BY <1>1 DEF Inject, interruptVars
  <2> QED BY <1>0, <2>1, <2>4, <2>5 DEF RestPart
<1>2. CASE TurnDone(t)
  BY <1>0, <1>2 DEF TurnDone, ReleaseLease, ReduceOwned, Accept, Refuse, RestPart, interruptVars
<1>3. CASE \/ TurnBegin(t) \/ TurnOpen(t) \/ Round(t) \/ AbsorbCancel(t) \/ Finish(t)
           \/ Fail(t) \/ TurnRefused(t) \/ TurnExit(t) \/ CancelledUnstarted(t)
  <2>1. UNCHANGED restVars
    BY <1>3 DEF TurnBegin, TurnOpen, Round, AbsorbCancel, Finish, Fail, TurnRefused, TurnExit,
                Exit, CancelledUnstarted, interruptVars, restVars
  <2> QED BY <1>0, <2>1 DEF RestPart, restVars
<1> QED BY <1>1, <1>2, <1>3 DEF TurnTask

\* The rest part survives every step.
LEMMA RestStep == ASSUME Inv, Next PROVE RestPart'
<1>0. RestPart
  BY DEF Inv
<1>1. CASE \E t \in Turns : TurnTask(t)
  BY <1>1, TurnRest
<1>2. CASE \E c \in commits : InjectCommit(c)
  BY <1>0, <1>2 DEF InjectCommit, RestPart, interruptVars
<1>3. CASE \E t \in Turns : InterruptTask(t)
  <2> PICK t \in Turns : InterruptTask(t)
    BY <1>3
  <2>1. UNCHANGED <<aim, commits, drained, ticket, shutdown, budget>>
    BY DEF InterruptTask, InterruptBegin, InterruptCancel
  <2>2. itask' \in [Turns -> {"none", "begin", "cancel"}]
    BY <1>0 DEF InterruptTask, InterruptBegin, InterruptCancel, RestPart
  <2> QED BY <1>0, <2>1, <2>2 DEF RestPart
<1>4. CASE Environment
  <2>1. UNCHANGED <<itask, aim, commits, drained, ticket, shutdown>>
    BY <1>4 DEF Environment, Arrive, Fire, RequestControl, interruptVars
  <2>2. budget' \in [arrivals : [Messages -> Nat], fired : SUBSET Triggers,
                     controls : Nat, dreams : Nat]
    BY <1>0, <1>4 DEF Environment, Arrive, Fire, RequestControl, RestPart
  <2> QED BY <1>0, <2>1, <2>2 DEF RestPart
<1>5. CASE \/ PumpDrain \/ StartNextQueued \/ PumpRest \/ PopUser \/ PopSlash \/ ControlRefused
           \/ InterruptJoined \/ ResetDrained \/ ResetTimeout \/ ResetHistory
           \/ DreamLeave \/ ShutdownBegin \/ ShutdownJoined \/ ShutdownSave \/ PumpStop \/ Rest
  BY <1>0, <1>5 DEF PumpDrain, StartNextQueued, PumpRest, PopUser, PopSlash, ControlRefused,
                    InterruptJoined, ResetDrained, ResetTimeout, ResetHistory, DreamLeave,
                    ShutdownBegin, ShutdownJoined, ShutdownSave, PumpStop, Rest, vars,
                    interruptVars, RestPart
<1>6. CASE StartPrepared \/ IngressAdmit \/ PopTrigger
  <2>1. UNCHANGED <<itask, aim, commits, ticket, shutdown, budget>> /\ drained' \in {drained, FALSE}
    BY <1>6 DEF StartPrepared, IngressAdmit, PopTrigger, StartTask, interruptVars
  <2> QED BY <1>0, <2>1 DEF RestPart
<1>7. CASE PopInterrupt \/ PopReset \/ ShutdownInterrupt
  <2>1. /\ UNCHANGED <<commits, ticket, budget>> /\ drained' \in BOOLEAN
        /\ shutdown' \in {shutdown, "joining", "waiting"}
        /\ UNCHANGED interruptVars \/ (OwnerLive /\ RequestInterrupt)
    BY <1>0, <1>7 DEF PopInterrupt, PopReset, ShutdownInterrupt, Probe, RestPart
  <2> QED BY <1>0, <2>1, RequestLemma DEF RestPart, interruptVars
<1>8. CASE ResetEnd \/ PopCompact \/ CompactRun \/ CompactGenerate \/ CompactEnd
  <2>1. /\ UNCHANGED <<itask, aim, commits, shutdown, budget>> /\ drained' \in BOOLEAN
        /\ ticket' \in {ticket, "none", "claimed", "generating", "committed"}
    BY <1>0, <1>8 DEF ResetEnd, PopCompact, CompactRun, CompactGenerate, CompactEnd, Probe,
                      interruptVars, RestPart
  <2> QED BY <1>0, <2>1 DEF RestPart
<1>9. CASE DreamEnter
  <2>1. UNCHANGED <<itask, aim, commits, ticket, shutdown>> /\ drained' \in BOOLEAN
    BY <1>9 DEF DreamEnter, Probe, interruptVars
  <2>2. budget' \in [arrivals : [Messages -> Nat], fired : SUBSET Triggers,
                     controls : Nat, dreams : Nat]
    BY <1>0, <1>9 DEF DreamEnter, RestPart
  <2> QED BY <1>0, <2>1, <2>2 DEF RestPart
<1> QED BY <1>1, <1>2, <1>3, <1>4, <1>5, <1>6, <1>7, <1>8, <1>9 DEF Next, Pump, Shutdown

\* Only a trigger the pump has popped is ever disposed of.
LEMMA DroppedStep == ASSUME Inv, Next PROVE DroppedPart'
<1>0. dropped \subseteq Triggers
  BY DEF Inv, DroppedPart
<1>1. ASSUME NEW t \in Turns, TurnTask(t) \/ InterruptTask(t) PROVE UNCHANGED dropped
  BY <1>1 DEF flowVars, TurnTask, TurnBegin, TurnOpen, Round, Inject, AbsorbCancel, Finish, Fail,
              TurnRefused, TurnExit, Exit, CancelledUnstarted, TurnDone, InterruptTask,
              InterruptBegin, InterruptCancel
<1>2. ASSUME \/ Environment \/ Shutdown \/ DreamEnter \/ DreamLeave \/ Rest
             \/ \E c \in commits : InjectCommit(c)
      PROVE  UNCHANGED dropped
  BY <1>2 DEF flowVars, Environment, Arrive, Fire, RequestControl, Shutdown, ShutdownBegin,
              ShutdownInterrupt, ShutdownJoined, ShutdownSave, PumpStop, DreamEnter,
              DreamLeave, Rest, vars, InjectCommit
<1>3. ASSUME Pump PROVE UNCHANGED dropped \/ (PopTrigger /\ dropped' = dropped \cup {Head(queue).id})
  BY <1>3 DEF Pump, flowVars, PumpDrain, StartNextQueued, StartPrepared, PumpRest, PopUser,
              IngressAdmit, PopTrigger, PopSlash, ControlRefused, PopInterrupt, InterruptJoined, PopReset,
              ResetDrained, ResetTimeout, ResetHistory, ResetEnd, PopCompact, CompactRun,
              CompactGenerate, CompactEnd
<1>4. PopTrigger => Head(queue).id \in Triggers
  BY SubjectLemma DEF PopTrigger
<1> QED BY <1>0, <1>1, <1>2, <1>3, <1>4 DEF Next, DroppedPart
-----------------------------------------------------------------------------
\* The theorems.

LEMMA InitInv == Init => Inv
<1> SUFFICES ASSUME Init PROVE Inv
  OBVIOUS
<1>1. SlotPart
  BY DEF Init, SlotPart, InitialScheduling, SchedulingState, Phases, WellFormed, TaskStages,
         SoleResident, Scoped
<1>2. RecordPart
  BY DEF Init, RecordPart, L1States, Announced
<1>3. PumpPart
  BY DEF Init, PumpPart, PumpPlaces
<1>4. FlowPart
  BY DEF Init, FlowPart, MessagesConserved
<1>5. RestPart
  BY BoundsAreNaturals DEF Init, RestPart
<1>6. DroppedPart
  BY DEF Init, DroppedPart
<1> QED BY <1>1, <1>2, <1>3, <1>4, <1>5, <1>6 DEF Inv

LEMMA StepInv == Inv /\ [Next]_vars => Inv'
<1> SUFFICES ASSUME Inv, [Next]_vars PROVE Inv'
  OBVIOUS
<1>1. CASE Next
  BY <1>1, SlotStep, RecordStep, PumpStep, FlowStep, RestStep, DroppedStep DEF Inv
<1>2. CASE UNCHANGED vars
  BY <1>2 DEF vars, inputVars, flowVars, pumpVars, turnVars, interruptVars, Inv, SlotPart,
              SoleResident, RecordPart, Announced, PumpPart, FlowPart, MessagesConserved, RestPart,
              DroppedPart
<1> QED BY <1>1, <1>2

LEMMA RuntimeInvariant == Spec => []Inv
BY InitInv, StepInv, PTL DEF Spec

(* The runtime's state keeps its shape for any number of turns, messages    *)
(* and inputs.                                                              *)
THEOREM RuntimeTypeOK == Spec => []TypeOK
<1>1. Inv => TypeOK
  BY DEF Inv, SlotPart, RecordPart, PumpPart, FlowPart, RestPart, DroppedPart, TypeOK
<1> QED BY <1>1, RuntimeInvariant, PTL

(* One resident: the slot, the tracked tasks, their leases and both         *)
(* registries agree, through every exit a turn can take.                    *)
THEOREM RuntimeSoleResident == Spec => []SoleResident
<1>1. Inv => SoleResident
  BY DEF Inv, SlotPart
<1> QED BY <1>1, RuntimeInvariant, PTL

(* A turn whose task is gone has no open L1 transcript.                     *)
THEOREM RuntimeTranscriptClosed == Spec => []TranscriptClosed
<1>1. Inv => TranscriptClosed
  BY DEF Inv, SlotPart, SoleResident, RecordPart, TranscriptClosed
<1> QED BY <1>1, RuntimeInvariant, PTL

(* TURN_START and TURN_END are paired, whether the runner or the done       *)
(* callback announces the end.                                              *)
THEOREM RuntimeEventsPaired == Spec => []EventsPaired
<1>1. Inv => EventsPaired
  BY DEF Inv, RecordPart, Announced, EventsPaired
<1> QED BY <1>1, RuntimeInvariant, PTL

(* A turn that is gone leaves neither an open transcript nor an unmatched   *)
(* TURN_START, through every exit it can take.                              *)
THEOREM RuntimeNothingLeftOpen == Spec => []NothingLeftOpen
BY RuntimeTranscriptClosed, RuntimeEventsPaired, PTL DEF NothingLeftOpen

(* No message the core took over is lost, duplicated or overtaken, for any  *)
(* queue length and any batches.                                            *)
THEOREM RuntimeMessagesConserved == Spec => []MessagesConserved
<1>1. Inv => MessagesConserved
  BY DEF Inv, FlowPart
<1> QED BY <1>1, RuntimeInvariant, PTL

(* The queue, the interjections and the turns implement the FIFO ledger.    *)
THEOREM RuntimeRefinesLedger == Spec => RefinesLedger
<1>1. Init => Ledger!Init
  BY DEF Init, Ledger!Init
<1>2. Inv /\ [Next]_vars => [Ledger!Next]_(Ledger!ledger)
  <2>1. CASE Next
    BY <2>1, LedgerStep
  <2>2. CASE UNCHANGED vars
    BY <2>2 DEF vars, flowVars, Ledger!ledger
  <2> QED BY <2>1, <2>2
<1> QED BY <1>1, <1>2, RuntimeInvariant, PTL DEF Spec, RefinesLedger, Ledger!Spec
-----------------------------------------------------------------------------
(* What is left needs to know who holds the pump and the barriers.  Safe    *)
(* has three parts, inductive together with Inv:                            *)
(*   ShutdownPart  the shutdown barrier stays up                            *)
(*   WriterPart    compaction, reset and maintenance run over an empty slot *)
(*   AimPart       an interrupt in flight keeps new turns out               *)

CompactPlaces == {"compact_run", "compact_generate", "compact_end"}
ResetWaits    == {"reset_interrupt", "reset_drain"}

ShutdownPart == shutdown # "no" => "quiescing:shutdown" \in sched.barriers

(* The gate is held only where the pump awaits a compaction; a drained event *)
(* seen by a reset is true; and neither coexists with maintenance.           *)
WriterPart ==
    /\ ticket # "none" => pc \in CompactPlaces
    /\ pc \in CompactPlaces \cup {"reset_history"} => sched.owner = NoLease
    /\ pc \in ResetWaits /\ drained => sched.owner = NoLease
    /\ Sleeping => /\ sched.owner = NoLease
                   /\ pc \notin CompactPlaces \cup ResetWaits \cup {"reset_history"}

\* The pump awaits the interrupt it requested; otherwise the process is shutting down.
AimPart ==
    /\ \A t \in Turns : itask[t] # "none" =>
          (pc \in {"interrupt", "reset_interrupt"} /\ subject = t) \/ shutdown # "no"
    /\ InterruptAimed

Safe == ShutdownPart /\ WriterPart /\ AimPart

\* A turn is admitted: by the queue, for a fresh message or for a trigger.
Starts ==
    /\ StartPrepared \/ IngressAdmit \/ PopTrigger
    /\ \E t \in Turns, q \in {queue, Tail(queue)} :
          Decision(t, q).accepted /\ StartTask(t, Decision(t, q).state)

\* Admission needs an empty slot, a free gate and no barrier at all.
LEMMA StartsLemma ==
    ASSUME Inv, Starts
    PROVE  /\ sched.owner = NoLease /\ sched.barriers = {} /\ ticket = "none"
           /\ sched'.owner # NoLease /\ sched'.barriers = {}
           /\ pc \in {"prep", "ingress", "pop"}
           /\ UNCHANGED <<l1, itask, ticket, shutdown>>
<1>1. PICK t \in Turns, q \in {queue, Tail(queue)} :
        Decision(t, q).accepted /\ StartTask(t, Decision(t, q).state)
  BY DEF Starts
<1>2. /\ sched.owner = NoLease /\ sched.barriers = {} /\ ticket = "none"
      /\ sched'.owner # NoLease /\ sched'.barriers = {}
  BY <1>1, DecisionLemma DEF Inv, StartTask
<1>3. pc \in {"prep", "ingress", "pop"} /\ UNCHANGED <<itask, ticket, shutdown>>
  BY DEF Starts, StartPrepared, IngressAdmit, PopTrigger, Popped, interruptVars
<1> QED BY <1>1, <1>2, <1>3 DEF StartTask

\* The three admitting handlers leave the slot alone when they admit nobody.
LEMMA NoStartLemma ==
    ASSUME Inv, StartPrepared \/ IngressAdmit \/ PopTrigger, ~Starts
    PROVE  UNCHANGED <<sched, turnVars, drained>>
<1>1. CASE StartPrepared
  <2>1. Head(pending) \in Turns
    BY <1>1, SubjectLemma, MessagesAreTurns DEF StartPrepared
  <2> QED BY <1>1, <2>1 DEF StartPrepared, Starts
<1>2. CASE IngressAdmit
  <2>1. subject \in Turns
    BY <1>2, SubjectLemma, MessagesAreTurns DEF IngressAdmit
  <2> QED BY <1>2, <2>1 DEF IngressAdmit, Starts
<1>3. CASE PopTrigger
  <2>1. Head(queue).id \in Turns
    BY <1>3, SubjectLemma DEF PopTrigger, Triggers
  <2> QED BY <1>3, <2>1 DEF PopTrigger, Starts
<1> QED BY <1>1, <1>2, <1>3

\* What a turn's own task changes outside its record: it may give the slot back.
LEMMA TurnMoves ==
    ASSUME Inv, NEW t \in Turns, TurnTask(t)
    PROVE  /\ UNCHANGED <<inbox, trigs, queue, pumpVars, pending, itask, aim, ticket, shutdown>>
           /\ sched'.barriers = sched.barriers /\ sched'.generation = sched.generation
           /\ \A u \in Turns : TaskLive(u)' => TaskLive(u) /\ lease'[u] = lease[u]
           /\ \/ sched'.owner = sched.owner /\ UNCHANGED drained /\ woken' \in {woken, TRUE}
              \/ sched'.owner = NoLease /\ woken' = TRUE
<1>0. /\ sched \in SchedulingState(BarrierNames) /\ WellFormed(sched)
      /\ task \in [Turns -> TaskStages] /\ lease \in [Turns -> Lease \cup {NoLease}]
  BY DEF Inv, SlotPart
<1>1. UNCHANGED <<inbox, trigs, queue, pumpVars, pending, itask, aim, ticket, shutdown>>
  BY DEF TurnTask, TurnBegin, TurnOpen, Round, Inject, AbsorbCancel, Finish, Fail,
         TurnRefused, TurnExit, Exit, CancelledUnstarted, TurnDone, inputVars, flowVars,
         interruptVars
<1>2. CASE TurnDone(t)
  <2>1. lease[t] = sched.owner /\ sched.owner # NoLease
    BY <1>2 DEF TurnDone, Inv, SlotPart, SoleResident
  <2>2. /\ sched'.owner = NoLease /\ sched'.barriers = sched.barriers
        /\ sched'.generation = sched.generation /\ woken' = TRUE
    BY <1>0, <1>2, <2>1, ReleaseLemma DEF TurnDone, ReleaseLease
  <2>3. \A u \in Turns : TaskLive(u)' => TaskLive(u) /\ lease'[u] = lease[u]
    BY <1>0, <1>2 DEF TurnDone, TaskLive
  <2> QED BY <1>1, <2>2, <2>3
<1>3. CASE TurnRefused(t) \/ TurnExit(t) \/ Finish(t)
  <2>1. /\ sched' = OwnerEvent(sched, "program_finished", t) /\ lease' = lease
        /\ UNCHANGED drained /\ woken' \in {woken, TRUE}
    BY <1>3 DEF TurnRefused, TurnExit, Finish, Exit, inputVars
  <2>2. /\ sched'.owner = sched.owner /\ sched'.barriers = sched.barriers
        /\ sched'.generation = sched.generation
    BY <1>0, <2>1, OwnerEventLemma
  <2>3. TaskLive(t) /\ \E to \in TaskStages : task' = [task EXCEPT ![t] = to]
    BY <1>0, <1>3 DEF TurnRefused, TurnExit, Finish, Exit, Step, TaskLive, TaskStages
  <2>4. \A u \in Turns : TaskLive(u)' => TaskLive(u)
    BY <1>0, <2>3 DEF TaskLive
  <2> QED BY <1>1, <2>1, <2>2, <2>4
<1>4. CASE \/ TurnBegin(t) \/ TurnOpen(t) \/ Round(t) \/ Inject(t) \/ AbsorbCancel(t)
           \/ Fail(t) \/ CancelledUnstarted(t)
  <2>1. UNCHANGED <<sched, lease, drained, woken>>
    BY <1>4 DEF TurnBegin, TurnOpen, Round, Inject, AbsorbCancel, Fail, CancelledUnstarted,
                inputVars
  <2>2. TaskLive(t) /\ \E to \in TaskStages : task' = [task EXCEPT ![t] = to]
    BY <1>0, <1>4 DEF TurnBegin, TurnOpen, Round, Inject, AbsorbCancel, Fail,
                      CancelledUnstarted, Step, TaskLive, TaskStages
  <2>3. \A u \in Turns : TaskLive(u)' => TaskLive(u)
    BY <1>0, <2>2 DEF TaskLive
  <2> QED BY <1>1, <2>1, <2>3
<1> QED BY <1>2, <1>3, <1>4 DEF TurnTask

\* What an interrupt task changes outside its turn's record: nothing.
LEMMA InterruptMoves ==
    ASSUME Inv, NEW t \in Turns, InterruptTask(t)
    PROVE  /\ UNCHANGED <<inputVars, pumpVars, pending, task, lease, aim, drained, ticket,
                          shutdown>>
           /\ sched'.owner = sched.owner /\ sched'.barriers = sched.barriers
           /\ sched'.generation = sched.generation
           /\ \A u \in Turns : itask'[u] # "none" => itask[u] # "none"
<1>1. UNCHANGED <<inputVars, pumpVars, pending, task, lease, aim, drained, ticket, shutdown>>
  BY DEF InterruptTask, InterruptBegin, InterruptCancel, flowVars
<1>2. sched' \in {sched, OwnerEvent(sched, "cancel", t)}
  BY DEF InterruptTask, InterruptBegin, InterruptCancel
<1>3. /\ sched'.owner = sched.owner /\ sched'.barriers = sched.barriers
      /\ sched'.generation = sched.generation
  BY <1>2, OwnerEventLemma DEF Inv, SlotPart
<1>4. \A u \in Turns : itask'[u] # "none" => itask[u] # "none"
  BY DEF InterruptTask, InterruptBegin, InterruptCancel, Inv, RestPart
<1> QED BY <1>1, <1>3, <1>4

\* A commit touches the queue only while its turn holds the slot.
LEMMA CommitMoves ==
    ASSUME Inv, NEW c \in commits, InjectCommit(c)
    PROVE  /\ UNCHANGED <<sched, inputVars, pumpVars, lease, l1, itask, aim, drained, ticket,
                          shutdown>>
           /\ \A u \in Turns : TaskLive(u)' => TaskLive(u)
           /\ pending' = pending \/ sched.owner # NoLease
<1>1. UNCHANGED <<sched, inputVars, pumpVars, lease, l1, itask, aim, drained, ticket, shutdown>>
  BY DEF InjectCommit, interruptVars
<1>2. c.owner.turn \in Turns
  BY DEF Inv, RestPart, Commit, Lease
<1>3. \A u \in Turns : TaskLive(u)' => TaskLive(u)
  BY <1>2 DEF InjectCommit, TaskLive, Inv, SlotPart
<1>4. pending' = pending \/ l1[c.owner.turn] = "active"
  BY DEF InjectCommit
<1>5. l1[c.owner.turn] = "active" => sched.owner # NoLease
  BY <1>2 DEF Inv, RecordPart, SlotPart, SoleResident
<1> QED BY <1>1, <1>3, <1>4, <1>5
(* The steps that neither admit a turn nor move a barrier, the gate or an   *)
(* interrupt: they only carry the pump between its ordinary places.         *)
Plain ==
    \/ Environment
    \/ (StartPrepared \/ IngressAdmit \/ PopTrigger) /\ ~Starts
    \/ PumpDrain \/ StartNextQueued \/ PumpRest \/ PopUser \/ PopSlash \/ ControlRefused
    \/ ShutdownJoined \/ ShutdownSave \/ PumpStop \/ Rest

PlainPlaces == {"idle", "next", "prep", "pop", "ingress", "stopped"}

LEMMA PlainMoves ==
    ASSUME Inv, Plain
    PROVE  /\ UNCHANGED <<sched, task, lease, l1, itask, aim, drained, ticket>>
           /\ UNCHANGED <<pc, subject>> \/ (pc \in PlainPlaces /\ pc' \in PlainPlaces)
           /\ shutdown' # "no" <=> shutdown # "no"
<1>1. CASE StartPrepared \/ IngressAdmit \/ PopTrigger
  <2>1. UNCHANGED <<sched, turnVars, drained>>
    BY <1>1, NoStartLemma DEF Plain, PumpDrain, StartNextQueued, PumpRest, PopUser, PopSlash,
         ControlRefused, ShutdownJoined, ShutdownSave, PumpStop, Rest, vars, turnVars,
         Environment, Arrive, Fire, RequestControl
  <2>2. UNCHANGED <<itask, aim, ticket, shutdown>>
    BY <1>1 DEF StartPrepared, IngressAdmit, PopTrigger, interruptVars
  <2>3. pc \in PlainPlaces /\ pc' \in {pc, "idle", "pop"}
    BY <1>1 DEF StartPrepared, IngressAdmit, PopTrigger, Popped, PumpAgain, Resume,
                PlainPlaces, Inv, PumpPart
  <2> QED BY <2>1, <2>2, <2>3 DEF turnVars, PlainPlaces
<1>2. CASE Environment \/ Rest
  BY <1>2 DEF Environment, Arrive, Fire, RequestControl, Rest, vars, turnVars, interruptVars,
              pumpVars
<1>3. CASE ShutdownJoined \/ ShutdownSave
  BY <1>3 DEF ShutdownJoined, ShutdownSave, turnVars, interruptVars, pumpVars
<1>4. CASE \/ PumpDrain \/ StartNextQueued \/ PumpRest \/ PopUser \/ PopSlash
           \/ ControlRefused \/ PumpStop
  <2>1. UNCHANGED <<sched, task, lease, l1, itask, aim, drained, ticket, shutdown>>
    BY <1>4 DEF PumpDrain, StartNextQueued, PumpRest, PopUser, PopSlash, ControlRefused,
                PumpStop, turnVars, interruptVars
  <2>2. pc \in PlainPlaces /\ pc' \in PlainPlaces
    BY <1>4 DEF PumpDrain, StartNextQueued, PumpRest, PopUser, PopSlash, ControlRefused,
                PumpStop, Popped, PumpAgain, Resume, PlainPlaces, Inv, PumpPart
  <2> QED BY <2>1, <2>2
<1> QED BY <1>1, <1>2, <1>3, <1>4 DEF Plain

\* Every step is of one of these kinds.
LEMMA StepKinds ==
    ASSUME Next
    PROVE  \/ Plain \/ Starts
           \/ \E t \in Turns : TurnTask(t)
           \/ \E t \in Turns : InterruptTask(t)
           \/ \E c \in commits : InjectCommit(c)
           \/ PopInterrupt \/ InterruptJoined
           \/ PopReset \/ ResetDrained \/ ResetTimeout \/ ResetHistory \/ ResetEnd
           \/ PopCompact \/ CompactRun \/ CompactGenerate \/ CompactEnd
           \/ DreamEnter \/ DreamLeave \/ ShutdownBegin \/ ShutdownInterrupt
BY DEF Next, Pump, Shutdown, Plain

(* The shutdown barrier goes up with the shutdown, and only a reset, a      *)
(* compaction or maintenance lowers a barrier: its own.                     *)
LEMMA ShutdownStep == ASSUME Inv, Safe, Next PROVE ShutdownPart'
<1>0. sched \in SchedulingState(BarrierNames) /\ WellFormed(sched)
  BY DEF Inv, SlotPart
<1>a. ShutdownPart
  BY DEF Safe
<1>1. CASE Plain
  BY <1>1, <1>a, PlainMoves DEF ShutdownPart
<1>2. CASE Starts
  BY <1>2, <1>a, StartsLemma DEF ShutdownPart
<1>3. CASE \E t \in Turns : TurnTask(t)
  BY <1>3, <1>a, TurnMoves DEF ShutdownPart
<1>4. CASE \E t \in Turns : InterruptTask(t)
  BY <1>4, <1>a, InterruptMoves DEF ShutdownPart
<1>5. CASE \E c \in commits : InjectCommit(c)
  BY <1>5, <1>a, CommitMoves DEF ShutdownPart
<1>6. CASE \/ PopInterrupt \/ InterruptJoined \/ ResetDrained \/ ResetTimeout \/ ResetHistory
           \/ CompactRun \/ CompactGenerate
  BY <1>6, <1>a DEF PopInterrupt, InterruptJoined, ResetDrained, ResetTimeout, ResetHistory,
              CompactRun, CompactGenerate, ShutdownPart
<1>7. CASE PopReset \/ PopCompact
  <2>1. /\ UNCHANGED shutdown
        /\ UNCHANGED sched \/ \E name \in BarrierNames : sched' = SetBarrier(sched, name, TRUE)
    BY <1>7 DEF PopReset, PopCompact, BarrierNames
  <2>2. ASSUME NEW name \in BarrierNames, sched' = SetBarrier(sched, name, TRUE)
        PROVE  sched.barriers \subseteq sched'.barriers
    <3>1. sched'.barriers = sched.barriers \cup {name}
      BY <1>0, <2>2, BarrierLemma
    <3> QED BY <3>1
  <2> QED BY <1>a, <2>1, <2>2 DEF ShutdownPart
<1>8. CASE ResetEnd \/ CompactEnd \/ DreamLeave
  <2>1. PICK name \in {"quiescing:reset", "compact", "memory_maintenance"} :
          UNCHANGED shutdown /\ sched' = SetBarrier(sched, name, FALSE)
    BY <1>8 DEF ResetEnd, CompactEnd, DreamLeave
  <2>2. name \in BarrierNames /\ name # "quiescing:shutdown"
    BY DEF BarrierNames
  <2>3. sched'.barriers = sched.barriers \ {name}
    BY <1>0, <2>1, <2>2, BarrierLemma
  <2> QED BY <1>a, <2>1, <2>2, <2>3 DEF ShutdownPart
<1>9. CASE DreamEnter
  BY <1>0, <1>a, <1>9, BarrierLemma DEF DreamEnter, ShutdownPart, BarrierNames
<1>10. CASE ShutdownBegin
  <2>1. "quiescing:shutdown" \in BarrierNames
    BY DEF BarrierNames
  <2>2. SetBarrier(sched, "quiescing:shutdown", TRUE).barriers
          = sched.barriers \cup {"quiescing:shutdown"}
    BY <1>0, <2>1, BarrierLemma
  <2>3. sched' = SetBarrier(sched, "quiescing:shutdown", TRUE)
    BY <1>10 DEF ShutdownBegin
  <2> QED BY <2>2, <2>3 DEF ShutdownPart
<1>11. CASE ShutdownInterrupt
  BY <1>11, <1>a DEF ShutdownInterrupt, ShutdownPart
<1> QED BY <1>1, <1>2, <1>3, <1>4, <1>5, <1>6, <1>7, <1>8, <1>9, <1>10, <1>11, StepKinds

(* Each writer of the history is admitted over an empty slot and keeps it   *)
(* empty: by the gate's barrier, by the reset's, or by maintenance's own.   *)
LEMMA WriterStep == ASSUME Inv, Safe, Next PROVE WriterPart'
<1>0. sched \in SchedulingState(BarrierNames) /\ WellFormed(sched)
  BY DEF Inv, SlotPart
<1>a. WriterPart
  BY DEF Safe
<1>1. CASE Plain
  <2>1. UNCHANGED <<sched, drained, ticket>> /\ (UNCHANGED pc \/ (pc \in PlainPlaces /\ pc' \in PlainPlaces))
    BY <1>1, PlainMoves
  <2> QED BY <1>a, <2>1 DEF WriterPart, PlainPlaces, CompactPlaces, ResetWaits, Sleeping
<1>2. CASE Starts
  <2>1. pc' \in {"prep", "idle", "pop"} /\ UNCHANGED ticket
    BY <1>2 DEF Starts, StartPrepared, IngressAdmit, PopTrigger, PumpAgain, Resume, Inv, PumpPart
  <2>2. ticket = "none" /\ sched'.barriers = {}
    BY <1>2, StartsLemma
  <2> QED BY <2>1, <2>2 DEF WriterPart, CompactPlaces, ResetWaits, Sleeping
<1>3. CASE \E t \in Turns : TurnTask(t)
  <2>1. /\ UNCHANGED <<pc, ticket>> /\ sched'.barriers = sched.barriers
        /\ (sched'.owner = sched.owner /\ UNCHANGED drained) \/ sched'.owner = NoLease
    BY <1>3, TurnMoves DEF pumpVars
  <2> QED BY <1>a, <2>1 DEF WriterPart, Sleeping
<1>4. CASE \E t \in Turns : InterruptTask(t)
  BY <1>4, <1>a, InterruptMoves DEF WriterPart, Sleeping, pumpVars
<1>5. CASE \E c \in commits : InjectCommit(c)
  BY <1>5, <1>a, CommitMoves DEF WriterPart, Sleeping, pumpVars
<1>6. CASE PopInterrupt
  <2>1. /\ UNCHANGED <<sched, ticket>> /\ ~Sleeping /\ pc = "pop" /\ pc' \in {"interrupt", "idle"}
    BY <1>6 DEF PopInterrupt, PoppedControl, Popped, PumpAgain
  <2> QED BY <1>a, <2>1 DEF WriterPart, Sleeping, CompactPlaces, ResetWaits
<1>7. CASE InterruptJoined
  <2>1. /\ UNCHANGED <<sched, drained, ticket>>
        /\ \/ pc = "interrupt" /\ pc' = "idle"
           \/ pc = "reset_interrupt" /\ pc' = "reset_drain"
    BY <1>7 DEF InterruptJoined, PumpAgain
  <2> QED BY <1>a, <2>1 DEF WriterPart, Sleeping, CompactPlaces, ResetWaits
<1>8. CASE PopReset
  <2>1. UNCHANGED ticket /\ pc = "pop" /\ ~Sleeping
    BY <1>8 DEF PopReset, PoppedControl, Popped
  <2>2. CASE UNCHANGED sched /\ pc' = "idle"
    BY <1>a, <2>1, <2>2 DEF WriterPart, Sleeping, CompactPlaces, ResetWaits
  <2>3. CASE /\ sched' = SetBarrier(sched, "quiescing:reset", TRUE) /\ Probe
             /\ pc' \in ResetWaits
    <3>1. sched'.owner = sched.owner /\ sched'.barriers = sched.barriers \cup {"quiescing:reset"}
      BY <1>0, <2>3, BarrierLemma DEF BarrierNames
    <3> QED BY <1>a, <2>1, <2>3, <3>1 DEF WriterPart, Sleeping, CompactPlaces, ResetWaits, Probe
  <2> QED BY <1>8, <2>2, <2>3 DEF PopReset, PumpAgain, ResetWaits
<1>9. CASE ResetDrained \/ ResetTimeout \/ ResetHistory
  <2>1. /\ UNCHANGED <<sched, drained, ticket>>
        /\ \/ pc = "reset_drain" /\ drained /\ pc' = "reset_history"
           \/ pc \in {"reset_drain", "reset_history"} /\ pc' = "reset_end"
    BY <1>9 DEF ResetDrained, ResetTimeout, ResetHistory
  <2> QED BY <1>a, <2>1 DEF WriterPart, Sleeping, CompactPlaces, ResetWaits
<1>10. CASE ResetEnd
  <2>1. /\ UNCHANGED ticket /\ pc = "reset_end" /\ pc' = "next"
        /\ sched' = SetBarrier(sched, "quiescing:reset", FALSE)
    BY <1>10 DEF ResetEnd
  <2>2. sched'.owner = sched.owner /\ sched'.barriers = sched.barriers \ {"quiescing:reset"}
    BY <1>0, <2>1, BarrierLemma DEF BarrierNames
  <2> QED BY <1>a, <2>1, <2>2 DEF WriterPart, Sleeping, CompactPlaces, ResetWaits
<1>11. CASE PopCompact
  <2>1. pc = "pop" /\ ~Sleeping
    BY <1>11 DEF PopCompact, PoppedControl, Popped
  <2>2. CASE UNCHANGED <<sched, ticket>> /\ pc' = "idle"
    BY <1>a, <2>1, <2>2 DEF WriterPart, Sleeping, CompactPlaces, ResetWaits
  <2>3. CASE /\ sched.owner = NoLease /\ pc' = "compact_run"
             /\ sched' = SetBarrier(sched, "compact", TRUE)
    <3>1. sched'.owner = sched.owner /\ sched'.barriers = sched.barriers \cup {"compact"}
      BY <1>0, <2>3, BarrierLemma DEF BarrierNames
    <3> QED BY <2>1, <2>3, <3>1 DEF WriterPart, Sleeping, CompactPlaces, ResetWaits
  <2> QED BY <1>11, <2>2, <2>3 DEF PopCompact, PumpAgain
<1>12. CASE CompactRun \/ CompactGenerate
  <2>1. /\ UNCHANGED <<sched, drained>> /\ pc \in CompactPlaces /\ pc' \in CompactPlaces
    BY <1>12 DEF CompactRun, CompactGenerate, CompactPlaces
  <2> QED BY <1>a, <2>1 DEF WriterPart, Sleeping, CompactPlaces, ResetWaits
<1>13. CASE CompactEnd
  <2>1. /\ pc = "compact_end" /\ pc' = "next" /\ ticket' = "none"
        /\ sched' = SetBarrier(sched, "compact", FALSE)
    BY <1>13 DEF CompactEnd
  <2>2. sched'.owner = sched.owner /\ sched'.barriers = sched.barriers \ {"compact"}
    BY <1>0, <2>1, BarrierLemma DEF BarrierNames
  <2> QED BY <1>a, <2>1, <2>2 DEF WriterPart, Sleeping, CompactPlaces, ResetWaits
<1>14. CASE DreamEnter
  <2>1. /\ sched.owner = NoLease /\ UNCHANGED <<pc, ticket>>
        /\ pc \notin CompactPlaces \cup ResetWaits \cup {"reset_history"}
        /\ sched' = SetBarrier(sched, "memory_maintenance", TRUE)
    BY <1>14 DEF DreamEnter, MaintenanceBusy, InControl, CompactPlaces, ResetWaits, pumpVars
  <2>2. sched'.owner = NoLease
    BY <1>0, <2>1, BarrierLemma DEF BarrierNames
  <2> QED BY <1>a, <2>1, <2>2 DEF WriterPart
<1>15. CASE DreamLeave
  <2>1. /\ UNCHANGED <<pc, drained, ticket>>
        /\ sched' = SetBarrier(sched, "memory_maintenance", FALSE)
    BY <1>15 DEF DreamLeave, pumpVars
  <2>2. sched'.owner = sched.owner /\ sched'.barriers = sched.barriers \ {"memory_maintenance"}
    BY <1>0, <2>1, BarrierLemma DEF BarrierNames
  <2> QED BY <1>a, <2>1, <2>2 DEF WriterPart, Sleeping
<1>16. CASE ShutdownBegin
  <2>1. /\ UNCHANGED <<pc, drained, ticket>>
        /\ sched' = SetBarrier(sched, "quiescing:shutdown", TRUE)
    BY <1>16 DEF ShutdownBegin, pumpVars
  <2>2. sched'.owner = sched.owner /\ sched'.barriers = sched.barriers \cup {"quiescing:shutdown"}
    BY <1>0, <2>1, BarrierLemma DEF BarrierNames
  <2> QED BY <1>a, <2>1, <2>2 DEF WriterPart, Sleeping
<1>17. CASE ShutdownInterrupt
  <2>1. UNCHANGED <<sched, pc, ticket>> /\ Probe
    BY <1>17 DEF ShutdownInterrupt, pumpVars
  <2> QED BY <1>a, <2>1 DEF WriterPart, Sleeping, Probe
<1> QED BY <1>1, <1>2, <1>3, <1>4, <1>5, <1>6, <1>7, <1>8, <1>9, <1>10, <1>11, <1>12, <1>13,
           <1>14, <1>15, <1>16, <1>17, StepKinds

\* Aiming an interrupt: the owner's live task carries the lease that is written down.
LEMMA RequestAims ==
    ASSUME Inv, AimPart, OwnerLive, RequestInterrupt, UNCHANGED <<task, lease>>
    PROVE  /\ InterruptAimed'
           /\ \A t \in Turns : itask'[t] # "none" => itask[t] # "none" \/ t = OwnerTurn
<1>0. /\ OwnerTurn \in Turns /\ sched.owner \in Lease
      /\ itask \in [Turns -> {"none", "begin", "cancel"}]
      /\ aim \in [Turns -> Lease \cup {NoLease}]
  BY DEF OwnerLive, OwnerTurn, Inv, RestPart, SlotPart, SchedulingState, Lease
<1>1. TaskLive(OwnerTurn) => lease[OwnerTurn] = sched.owner
  BY <1>0 DEF TaskLive, Inv, SlotPart, SoleResident, OwnerTurn
<1>2. \A t \in Turns : t # OwnerTurn => itask'[t] = itask[t] /\ aim'[t] = aim[t]
  BY <1>0 DEF RequestInterrupt
<1>3. \/ itask[OwnerTurn] # "none" /\ UNCHANGED <<itask, aim>>
      \/ aim'[OwnerTurn] = sched.owner
  BY <1>0 DEF RequestInterrupt
<1>4. InterruptAimed
  BY DEF AimPart
<1>5. ASSUME NEW t \in Turns, itask'[t] # "none", TaskLive(t)' PROVE lease'[t] = aim'[t]
  <2>1. TaskLive(t) /\ lease'[t] = lease[t]
    BY <1>5 DEF TaskLive
  <2>2. CASE t = OwnerTurn
    BY <1>1, <1>3, <1>4, <1>5, <2>1, <2>2 DEF InterruptAimed
  <2>3. CASE t # OwnerTurn
    BY <1>2, <1>4, <1>5, <2>1, <2>3 DEF InterruptAimed
  <2> QED BY <2>2, <2>3
<1> QED BY <1>2, <1>5 DEF InterruptAimed

\* While nobody waits for an interrupt there is none, unless the process shuts down.
LEMMA NoneInFlight ==
    ASSUME AimPart, shutdown = "no", pc \notin {"interrupt", "reset_interrupt"}
    PROVE  \A t \in Turns : itask[t] = "none"
BY DEF AimPart

(* An interrupt in flight is awaited by the pump, which admits nobody       *)
(* meanwhile, or belongs to the shutdown, after which nobody is admitted:   *)
(* the task it finally cancels is the one it was requested for.             *)
LEMMA AimStep == ASSUME Inv, Safe, Next PROVE AimPart'
<1>a. AimPart /\ InterruptAimed
  BY DEF Safe, AimPart
<1>1. CASE Plain
  <2>1. /\ UNCHANGED <<task, lease, itask, aim>> /\ (shutdown' # "no" <=> shutdown # "no")
        /\ UNCHANGED <<pc, subject>> \/ pc \in PlainPlaces
    BY <1>1, PlainMoves
  <2> QED BY <1>a, <2>1 DEF AimPart, InterruptAimed, TaskLive, PlainPlaces
<1>2. CASE Starts
  <2>1. shutdown = "no" /\ pc \notin {"interrupt", "reset_interrupt"} /\ UNCHANGED itask
    BY <1>2, StartsLemma DEF Safe, ShutdownPart
  <2> QED BY <1>a, <2>1, NoneInFlight DEF AimPart, InterruptAimed
<1>3. CASE \E t \in Turns : TurnTask(t)
  <2>1. /\ UNCHANGED <<pc, subject, itask, aim, shutdown>>
        /\ \A u \in Turns : TaskLive(u)' => TaskLive(u) /\ lease'[u] = lease[u]
    BY <1>3, TurnMoves DEF pumpVars
  <2> QED BY <1>a, <2>1 DEF AimPart, InterruptAimed
<1>4. CASE \E t \in Turns : InterruptTask(t)
  <2>1. /\ UNCHANGED <<pc, subject, task, lease, aim, shutdown>>
        /\ \A u \in Turns : itask'[u] # "none" => itask[u] # "none"
    BY <1>4, InterruptMoves DEF pumpVars
  <2> QED BY <1>a, <2>1 DEF AimPart, InterruptAimed, TaskLive
<1>5. CASE \E c \in commits : InjectCommit(c)
  <2>1. /\ UNCHANGED <<pc, subject, itask, aim, lease, shutdown>>
        /\ \A u \in Turns : TaskLive(u)' => TaskLive(u)
    BY <1>5, CommitMoves DEF pumpVars
  <2> QED BY <1>a, <2>1 DEF AimPart, InterruptAimed
<1>6. CASE PopInterrupt \/ PopReset
  <2>1. UNCHANGED <<task, lease, shutdown>> /\ pc = "pop"
    BY <1>6 DEF PopInterrupt, PopReset, PoppedControl, Popped, turnVars
  <2>2. CASE UNCHANGED interruptVars
    BY <1>a, <2>1, <2>2 DEF AimPart, InterruptAimed, TaskLive, interruptVars
  <2>3. CASE /\ OwnerLive /\ RequestInterrupt
             /\ pc' \in {"interrupt", "reset_interrupt"} /\ subject' = OwnerTurn
    <3>1. /\ InterruptAimed'
          /\ \A t \in Turns : itask'[t] # "none" => itask[t] # "none" \/ t = OwnerTurn
      BY <1>a, <2>1, <2>3, RequestAims
    <3> QED BY <1>a, <2>1, <2>3, <3>1 DEF AimPart
  <2> QED BY <1>6, <2>2, <2>3 DEF PopInterrupt, PopReset
<1>7. CASE InterruptJoined
  <2>1. UNCHANGED <<task, lease, itask, aim, shutdown>> /\ itask[subject] = "none"
    BY <1>7 DEF InterruptJoined, turnVars, interruptVars
  <2> QED BY <1>a, <2>1 DEF AimPart, InterruptAimed, TaskLive
<1>8. CASE \/ ResetDrained \/ ResetTimeout \/ ResetHistory \/ ResetEnd
           \/ PopCompact \/ CompactRun \/ CompactGenerate \/ CompactEnd
  <2>1. /\ UNCHANGED <<task, lease, itask, aim, shutdown>>
        /\ pc \notin {"interrupt", "reset_interrupt"}
    BY <1>8 DEF ResetDrained, ResetTimeout, ResetHistory, ResetEnd, PopCompact, CompactRun,
                CompactGenerate, CompactEnd, PoppedControl, Popped, turnVars, interruptVars
  <2> QED BY <1>a, <2>1 DEF AimPart, InterruptAimed, TaskLive
<1>9. CASE DreamEnter \/ DreamLeave \/ ShutdownBegin
  <2>1. /\ UNCHANGED <<task, lease, itask, aim, pc, subject>>
        /\ shutdown # "no" => shutdown' # "no"
    BY <1>9 DEF DreamEnter, DreamLeave, ShutdownBegin, turnVars, interruptVars, pumpVars
  <2> QED BY <1>a, <2>1 DEF AimPart, InterruptAimed, TaskLive
<1>10. CASE ShutdownInterrupt
  <2>1. shutdown' # "no" /\ UNCHANGED <<task, lease>>
        /\ (UNCHANGED <<itask, aim>> \/ (OwnerLive /\ RequestInterrupt))
    BY <1>10 DEF ShutdownInterrupt, turnVars, interruptVars
  <2>2. InterruptAimed'
    BY <1>a, <2>1, RequestAims DEF InterruptAimed, TaskLive
  <2> QED BY <2>1, <2>2 DEF AimPart
<1> QED BY <1>1, <1>2, <1>3, <1>4, <1>5, <1>6, <1>7, <1>8, <1>9, <1>10, StepKinds

LEMMA SafeInvariant == Spec => [](Inv /\ Safe)
<1>1. Init => Inv /\ Safe
  <2>1. Init => Safe
    BY DEF Init, InitialScheduling, Safe, ShutdownPart, WriterPart, AimPart, InterruptAimed,
           CompactPlaces, ResetWaits, Sleeping
  <2> QED BY <2>1, InitInv
<1>2. Inv /\ Safe /\ [Next]_vars => (Inv /\ Safe)'
  <2> SUFFICES ASSUME Inv, Safe, [Next]_vars PROVE Inv' /\ Safe'
    OBVIOUS
  <2>1. Inv'
    BY StepInv
  <2>2. CASE Next
    BY <2>1, <2>2, ShutdownStep, WriterStep, AimStep DEF Safe
  <2>3. CASE UNCHANGED vars
    BY <2>1, <2>3 DEF vars, pumpVars, turnVars, interruptVars, Safe, ShutdownPart, WriterPart,
                AimPart, InterruptAimed, TaskLive, Sleeping
  <2> QED BY <2>2, <2>3
<1> QED BY <1>1, <1>2, PTL DEF Spec

(* The interrupt hits the admission it was requested for, never a later     *)
(* turn under the same id, for any number of turns and interrupts.          *)
THEOREM RuntimeInterruptAimed == Spec => []InterruptAimed
<1>1. Safe => InterruptAimed
  BY DEF Safe, AimPart
<1> QED BY <1>1, SafeInvariant, PTL

(* Nothing is admitted once the shutdown has begun: the barrier survives a  *)
(* reset, a compaction and maintenance that end after it went up.           *)
THEOREM RuntimeShutdownFinal == Spec => ShutdownFinal
<1>1. Inv /\ Safe /\ [Next]_vars
        => [shutdown # "no" => sched'.generation = sched.generation]_vars
  <2> SUFFICES ASSUME Inv, Safe, Next, shutdown # "no"
               PROVE  sched'.generation = sched.generation
    OBVIOUS
  <2>0. sched \in SchedulingState(BarrierNames) /\ WellFormed(sched)
    BY DEF Inv, SlotPart
  <2>1. ~Starts
    BY StartsLemma DEF Safe, ShutdownPart
  <2>2. CASE Plain
    BY <2>2, PlainMoves
  <2>3. CASE \/ \E t \in Turns : TurnTask(t) \/ InterruptTask(t)
             \/ \E c \in commits : InjectCommit(c)
    BY <2>3, TurnMoves, InterruptMoves, CommitMoves
  <2>4. CASE \/ PopInterrupt \/ InterruptJoined \/ ResetDrained \/ ResetTimeout \/ ResetHistory
             \/ CompactRun \/ CompactGenerate \/ ShutdownInterrupt
    BY <2>4 DEF PopInterrupt, InterruptJoined, ResetDrained, ResetTimeout, ResetHistory,
                CompactRun, CompactGenerate, ShutdownInterrupt
  <2>5. CASE \/ PopReset \/ PopCompact \/ ResetEnd \/ CompactEnd \/ DreamEnter \/ DreamLeave
             \/ ShutdownBegin
    <3>1. UNCHANGED sched \/ \E name \in BarrierNames, enabled \in BOOLEAN :
                                sched' = SetBarrier(sched, name, enabled)
      BY <2>5 DEF PopReset, PopCompact, ResetEnd, CompactEnd, DreamEnter, DreamLeave,
                  ShutdownBegin, BarrierNames
    <3>2. ASSUME NEW name \in BarrierNames, NEW enabled \in BOOLEAN,
                 sched' = SetBarrier(sched, name, enabled)
          PROVE  sched'.generation = sched.generation
      <4>1. SetBarrier(sched, name, enabled).generation = sched.generation
        BY <2>0, BarrierLemma, ZenonT(60)
      <4> QED BY <3>2, <4>1
    <3> QED BY <3>1, <3>2
  <2> QED BY <2>1, <2>2, <2>3, <2>4, <2>5, StepKinds
<1> QED BY <1>1, SafeInvariant, PTL DEF Spec, ShutdownFinal

(* One writer: a turn that has a task or an open transcript owns the slot,  *)
(* and the other three writers exclude it and each other.                   *)
THEOREM RuntimeOneWriter == Spec => []OneWriter
<1>1. ASSUME Inv, Safe PROVE OneWriter
  <2>1. \A t \in Turns : task[t] # "none" \/ l1[t] = "active" =>
            sched.owner # NoLease /\ sched.owner.turn = t
    BY <1>1 DEF Inv, SlotPart, SoleResident, RecordPart
  <2>2. WriterPart
    BY <1>1 DEF Safe
  <2>3. \E w : Writers \subseteq {w}
    <3>1. CASE sched.owner # NoLease
      <4>1. ticket = "none" /\ pc # "reset_history" /\ ~Sleeping
        BY <2>2, <3>1 DEF WriterPart
      <4>2. Writers \subseteq {sched.owner.turn}
        BY <2>1, <4>1 DEF Writers
      <4> QED BY <4>2
    <3>2. CASE sched.owner = NoLease
      <4>1. Writers \subseteq {"compaction", "reset", "dreaming"}
        BY <2>1, <3>2 DEF Writers
      <4>2. /\ "compaction" \in Writers <=> ticket # "none"
            /\ "reset" \in Writers <=> pc = "reset_history"
            /\ "dreaming" \in Writers <=> Sleeping
        BY <2>1, <3>2 DEF Writers
      <4>3. /\ ticket # "none" => pc # "reset_history" /\ ~Sleeping
            /\ pc = "reset_history" => ~Sleeping
        BY <2>2 DEF WriterPart, CompactPlaces
      <4>4. CASE ticket # "none"
        <5>1. Writers \subseteq {"compaction"}
          BY <4>1, <4>2, <4>3, <4>4
        <5> QED BY <5>1
      <4>5. CASE pc = "reset_history"
        <5>1. Writers \subseteq {"reset"}
          BY <4>1, <4>2, <4>3, <4>5
        <5> QED BY <5>1
      <4>6. CASE ticket = "none" /\ pc # "reset_history"
        <5>1. Writers \subseteq {"dreaming"}
          BY <4>1, <4>2, <4>6
        <5> QED BY <5>1
      <4> QED BY <4>4, <4>5, <4>6
    <3> QED BY <3>1, <3>2
  <2>4. PICK w : Writers \subseteq {w}
    BY <2>3
  <2>5. Writers = {} \/ Writers = {w}
    BY <2>4
  <2>6. Cardinality(Writers) = 0 \/ Cardinality(Writers) = 1
    BY <2>5, FS_EmptySet, FS_Singleton
  <2> QED BY <2>6 DEF OneWriter
<1> QED BY <1>1, SafeInvariant, PTL
-----------------------------------------------------------------------------
\* The pump and its wake-up flag.

(* With the flag down the mailbox has been read, a pump at rest has an      *)
(* empty queue, and once the slot and the barriers are free there is        *)
(* neither a message nor a trigger left that the pump has looked past.      *)
WakePart ==
    /\ ~woken => inbox = <<>>
    /\ pc = "idle" /\ ~woken => queue = <<>>
    /\ ~woken /\ sched.owner = NoLease /\ sched.barriers = {} /\ queue = <<>> =>
          /\ pc \in {"pop", "idle"} => pending = <<>> /\ trigs = {}
          /\ pc = "next" /\ ret = "pop" /\ pending = <<>> => trigs = {}

\* An empty slot without barriers admits a message, and a trigger if no message waits.
LEMMA FreeSlot ==
    ASSUME Inv, WriterPart, sched.owner = NoLease, sched.barriers = {},
           pc \notin CompactPlaces, NEW kind, NEW q, kind = "chat" \/ ~PendingUsers(q)
    PROVE  MayStart(kind, q)
<1>1. ticket = "none"
  BY DEF WriterPart
<1>2. \A t \in Turns : task[t] = "none"
  BY DEF Inv, SlotPart, SoleResident
<1>3. ~OtherWork
  BY <1>2 DEF OtherWork, TaskLive, Inv, SlotPart, SoleResident
<1>4. sched.phase = "idle"
  BY DEF Inv, SlotPart, WellFormed
<1> QED BY <1>1, <1>3, <1>4 DEF MayStart, AdmissionReason

(* The pump drains with the flag already cleared: what stays behind in the  *)
(* trigger sources stays because the slot is taken or a message comes first. *)
LEMMA DrainWake == ASSUME Inv, Safe, PumpDrain PROVE WakePart'
<1>0. /\ inbox \in Seq(InboxEvent) /\ trigs \subseteq Triggers /\ queue \in Seq(QueueEvent)
  BY DEF Inv, PumpPart
<1>1. PICK channelFirst \in BOOLEAN :
      \E ready \in Ready(IF channelFirst THEN queue \o inbox ELSE queue) :
      \E events \in Orders({Trigger(t) : t \in ready}) :
         /\ queue' = queue \o (IF channelFirst THEN inbox \o events ELSE events \o inbox)
         /\ trigs' = trigs \ ready
  BY DEF PumpDrain
<1> DEFINE q == IF channelFirst THEN queue \o inbox ELSE queue
<1>2. PICK ready \in Ready(q) :
      \E events \in Orders({Trigger(t) : t \in ready}) :
         /\ queue' = queue \o (IF channelFirst THEN inbox \o events ELSE events \o inbox)
         /\ trigs' = trigs \ ready
  BY <1>1
<1>3. PICK events \in Orders({Trigger(t) : t \in ready}) :
         /\ queue' = queue \o (IF channelFirst THEN inbox \o events ELSE events \o inbox)
         /\ trigs' = trigs \ ready
  BY <1>2
<1>4. /\ inbox' = <<>> /\ pc = "idle" /\ pc' = "next" /\ UNCHANGED <<sched, pending>>
  BY DEF PumpDrain, flowVars
<1>5. ASSUME sched.owner = NoLease, sched.barriers = {}, queue' = <<>>, pending = <<>>
      PROVE  trigs' = {}
  <2>1. ready \subseteq Triggers
    BY <1>0, ReadyLemma
  <2>2. events \in Seq(QueueEvent) /\ inbox \in Seq(QueueEvent)
    BY <1>0, <2>1, OrdersLemma, SeqMonotonic DEF QueueEvent
  <2>3. queue = <<>> /\ inbox = <<>> /\ events = <<>>
    <3>1. inbox \o events \in Seq(QueueEvent) /\ events \o inbox \in Seq(QueueEvent)
      BY <2>2, ConcatProperties
    <3>2. /\ queue = <<>>
          /\ (IF channelFirst THEN inbox \o events ELSE events \o inbox) = <<>>
      BY <1>0, <1>3, <1>5, <3>1, ConcatProperties, EmptySeq, LenProperties
    <3> QED BY <2>2, <3>2, ConcatProperties, EmptySeq, LenProperties
  <2>4. q = <<>>
    BY <1>0, <2>3, ConcatEmptySeq
  <2>5. ready = {}
    <3> DEFINE S == {Trigger(t) : t \in ready}
    <3>1. IsFiniteSet(S)
      BY <2>1, TriggersFinite
    <3>2. events \in [1..Cardinality(S) -> S]
      BY DEF Orders
    <3> HIDE DEF S
    <3>3. Cardinality(S) \in Nat
      BY <3>1, FS_CardinalityType
    <3>4. Len(events) = Cardinality(S)
      BY <2>2, <3>2, <3>3, LenProperties
    <3>5. S = {}
      BY <2>3, <3>1, <3>3, <3>4, FS_EmptySet, EmptySeq
    <3> QED BY <3>5 DEF S
  <2> HIDE DEF q
  <2>6. ~PendingUsers(q)
    <3>1. \A t \in Turns : task[t] = "none"
      BY <1>5 DEF Inv, SlotPart, SoleResident
    <3>2. ~IngressReserved
      BY <1>4, <3>1, MessagesAreTurns DEF IngressReserved
    <3> QED BY <1>5, <2>4, <3>2 DEF PendingUsers
  <2>7. MayStart("proactive", q) /\ MayStart("background", q)
    BY <1>4, <1>5, <2>6, FreeSlot DEF Safe, CompactPlaces
  <2>8. ~Sleeping
    BY <1>5 DEF Sleeping
  <2>9. PackageReady(q) = trigs \cap Background /\ ProactiveReady(q) = trigs \ Background
    BY <2>7, <2>8 DEF PackageReady, ProactiveReady
  <2>10. PackageReady(q) = {} /\ ProactiveReady(q) = {}
    BY <1>2, <2>5 DEF Ready
  <2> QED BY <1>3, <2>9, <2>10
<1> QED BY <1>4, <1>5 DEF WakePart

\* A step that leaves the pump's view alone, or wakes the pump, keeps the wake-up part.
LEMMA WakeIdle ==
    ASSUME WakePart, UNCHANGED <<inbox, trigs, queue, pc, ret>>, woken' \in {woken, TRUE},
           pending' = pending \/ sched'.owner # NoLease,
           \/ sched'.owner = sched.owner /\ sched'.barriers = sched.barriers
           \/ sched'.barriers # {}
    PROVE  WakePart'
BY DEF WakePart

\* The queue is looked at: whatever could start now is started, not passed over.
LEMMA QueueWake ==
    ASSUME Inv, Safe, WakePart, StartNextQueued \/ StartPrepared
    PROVE  WakePart'
<1>0. /\ WriterPart /\ pc \in {"next", "prep"} /\ pc \notin CompactPlaces
      /\ UNCHANGED <<inbox, trigs, queue, ret>> /\ ret \in {"idle", "pop"} /\ woken \in BOOLEAN
  BY DEF Safe, StartNextQueued, StartPrepared, CompactPlaces, Inv, PumpPart
<1>1. sched.owner = NoLease /\ sched.barriers = {} => MayStart("chat", queue)
  BY <1>0, FreeSlot
<1>2. CASE StartNextQueued
  <2>1. /\ pc = "next" /\ UNCHANGED <<sched, pending>>
        /\ \/ pc' = "prep" /\ UNCHANGED woken
           \/ /\ ~(MayStart("chat", queue) /\ pending # <<>>)
              /\ pc' = ret /\ woken' = (woken \/ ret = "idle")
    BY <1>2 DEF StartNextQueued, Resume, flowVars
  <2>2. CASE pc' = "prep" /\ UNCHANGED woken
    BY <1>0, <2>1, <2>2 DEF WakePart
  <2>3. CASE /\ ~(MayStart("chat", queue) /\ pending # <<>>)
             /\ pc' = ret /\ woken' = (woken \/ ret = "idle")
    <3>1. CASE ret = "idle"
      BY <2>3, <3>1 DEF WakePart
    <3>2. CASE ret = "pop"
      <4>1. pc' = "pop" /\ (woken' <=> woken)
        BY <2>3, <3>2
      <4>2. ~woken /\ sched.owner = NoLease /\ sched.barriers = {} /\ queue = <<>>
              => pending = <<>> /\ trigs = {}
        BY <1>1, <2>1, <2>3, <3>2 DEF WakePart
      <4>3. ~woken => inbox = <<>>
        BY DEF WakePart
      <4> QED BY <1>0, <2>1, <4>1, <4>2, <4>3 DEF WakePart
    <3> QED BY <1>0, <3>1, <3>2
  <2> QED BY <2>1, <2>2, <2>3
<1>3. CASE StartPrepared
  <2>1. Head(pending) \in Messages /\ Head(pending) \in Turns
    BY <1>3, SubjectLemma, MessagesAreTurns DEF StartPrepared
  <2>2. sched.owner = NoLease /\ sched.barriers = {} => Starts
    BY <1>1, <1>3, <2>1, AdmittedLemma DEF StartPrepared, Starts
  <2>3. sched'.owner = NoLease /\ sched'.barriers = {} => FALSE
    <3>1. CASE Starts
      BY <3>1, StartsLemma
    <3>2. CASE ~Starts
      BY <1>3, <2>2, <3>2, NoStartLemma
    <3> QED BY <3>1, <3>2
  <2>4. /\ woken' \in {woken, TRUE} /\ (pc' = "idle" => woken')
    BY <1>0, <1>3 DEF StartPrepared, Resume
  <2>5. ~woken' => inbox' = <<>>
    <3>1. ~woken' => ~woken
      BY <2>4
    <3>2. inbox' = inbox /\ (~woken => inbox = <<>>)
      BY <1>0 DEF WakePart
    <3> QED BY <3>1, <3>2
  <2> QED BY <2>3, <2>4, <2>5 DEF WakePart
<1> QED BY <1>2, <1>3

(* The wake-up part survives every step: whoever frees the slot or a        *)
(* barrier, or brings input, raises the flag.                               *)
LEMMA WakeStep == ASSUME Inv, Safe, WakePart, Next PROVE WakePart'
<1>0. sched \in SchedulingState(BarrierNames) /\ WellFormed(sched) /\ woken \in BOOLEAN
  BY DEF Inv, SlotPart, PumpPart
<1>1. CASE PumpDrain
  BY <1>1, DrainWake
<1>2. CASE StartNextQueued \/ StartPrepared
  BY <1>2, QueueWake
<1>3. CASE Environment \/ IngressAdmit \/ PopTrigger \/ PopSlash \/ ControlRefused \/ DreamLeave
  <2>1. woken' = TRUE
    BY <1>3 DEF Environment, Arrive, Fire, RequestControl, IngressAdmit, PopTrigger, PopSlash,
                ControlRefused, DreamLeave, PumpAgain
  <2> QED BY <2>1 DEF WakePart
<1>4. CASE PumpRest
  BY <1>4 DEF PumpRest, inputVars, flowVars, WakePart
<1>5. CASE PopUser \/ PopInterrupt \/ PopReset \/ PopCompact \/ InterruptJoined
  <2>1. /\ UNCHANGED inbox
        /\ \/ woken' = TRUE
           \/ /\ UNCHANGED woken
              /\ pc' \in {"ingress", "interrupt", "reset_interrupt", "reset_drain", "compact_run"}
    BY <1>5 DEF PopUser, PopInterrupt, PopReset, PopCompact, InterruptJoined, PumpAgain
  <2> QED BY <2>1 DEF WakePart
<1>6. CASE \/ ResetDrained \/ ResetTimeout \/ ResetHistory \/ ResetEnd
           \/ CompactRun \/ CompactGenerate \/ CompactEnd \/ PumpStop
  <2>1. /\ UNCHANGED <<inbox, woken>>
        /\ \/ pc' \in {"reset_history", "reset_end", "compact_generate", "compact_end", "stopped"}
           \/ pc' = "next" /\ ret' = "idle"
    BY <1>6 DEF ResetDrained, ResetTimeout, ResetHistory, ResetEnd, CompactRun, CompactGenerate,
                CompactEnd, PumpStop, inputVars
  <2> QED BY <2>1 DEF WakePart
<1>7. CASE \E t \in Turns : TurnTask(t)
  <2>1. /\ UNCHANGED <<inbox, trigs, queue, pc, ret, pending>>
        /\ sched'.barriers = sched.barriers
        /\ (sched'.owner = sched.owner /\ woken' \in {woken, TRUE}) \/ woken' = TRUE
    BY <1>7, TurnMoves DEF pumpVars
  <2> QED BY <2>1 DEF WakePart
<1>8. CASE \E t \in Turns : InterruptTask(t)
  <2>1. /\ UNCHANGED <<inbox, trigs, queue, woken, pc, ret, pending>>
        /\ sched'.barriers = sched.barriers /\ sched'.owner = sched.owner
    BY <1>8, InterruptMoves DEF pumpVars, inputVars
  <2> QED BY <2>1, WakeIdle
<1>9. CASE \E c \in commits : InjectCommit(c)
  <2>1. /\ UNCHANGED <<sched, inbox, trigs, queue, woken, pc, ret>>
        /\ pending' = pending \/ sched.owner # NoLease
    BY <1>9, CommitMoves DEF pumpVars, inputVars
  <2> QED BY <2>1, WakeIdle
<1>10. CASE DreamEnter \/ ShutdownBegin
  <2>1. UNCHANGED <<inbox, trigs, queue, woken, pc, ret, pending>>
    BY <1>10 DEF DreamEnter, ShutdownBegin, inputVars, pumpVars, flowVars
  <2>2. PICK name \in {"memory_maintenance", "quiescing:shutdown"} :
          sched' = SetBarrier(sched, name, TRUE)
    BY <1>10 DEF DreamEnter, ShutdownBegin
  <2>3. sched'.barriers # {}
    <3>1. name \in BarrierNames
      BY DEF BarrierNames
    <3>2. sched'.barriers = sched.barriers \cup {name}
      BY <1>0, <2>2, <3>1, BarrierLemma
    <3> QED BY <3>2
  <2> QED BY <2>1, <2>3, WakeIdle
<1>11. CASE ShutdownInterrupt \/ ShutdownJoined \/ ShutdownSave \/ Rest
  <2>1. UNCHANGED <<sched, inbox, trigs, queue, woken, pc, ret, pending>>
    BY <1>11 DEF ShutdownInterrupt, ShutdownJoined, ShutdownSave, Rest, vars, inputVars,
                 pumpVars, flowVars
  <2> QED BY <2>1, WakeIdle
<1> QED BY <1>1, <1>2, <1>3, <1>4, <1>5, <1>6, <1>7, <1>8, <1>9, <1>10, <1>11
        DEF Next, Pump, Shutdown

(* No lost wake-up: a pump that sleeps over work is waited on by the        *)
(* owner's done callback or by a barrier's holder, whatever the order of    *)
(* arrivals, releases and drains.                                           *)
THEOREM RuntimeNoLostWakeup == Spec => []NoLostWakeup
<1>1. Init => WakePart
  BY DEF Init, WakePart
<1>2. Inv /\ Safe /\ WakePart /\ [Next]_vars => WakePart'
  <2> SUFFICES ASSUME Inv, Safe, WakePart, [Next]_vars PROVE WakePart'
    OBVIOUS
  <2>1. CASE Next
    BY <2>1, WakeStep
  <2>2. CASE UNCHANGED vars
    BY <2>2 DEF vars, inputVars, flowVars, pumpVars, WakePart
  <2> QED BY <2>1, <2>2
<1>3. WakePart => NoLostWakeup
  BY DEF WakePart, NoLostWakeup
<1> QED BY <1>1, <1>2, <1>3, SafeInvariant, PTL DEF Spec
=============================================================================
