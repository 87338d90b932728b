---------------------------- MODULE ResidentTurns ----------------------------
(* The resident core of src/pal/core/runtime.py: the event pump, the queue  *)
(* of user messages, the turn tasks it starts, interjections, /interrupt,   *)
(* /reset and /compact, the memory-maintenance writer and process shutdown. *)
(*                                                                          *)
(* asyncio runs one coroutine at a time, so one action is one stretch of    *)
(* code between two awaits.  channel_turn_transition_lock is held across an *)
(* await in one place only (pc = "prep"); every other critical section is a *)
(* single step that needs the lock to be free.                              *)
EXTENDS Scheduling, Integers, Sequences, FiniteSets

CONSTANTS
    Messages,       \* user messages; event_id is the turn id
    Background,     \* package completions; the other turns are proactive triggers
    Injectable,     \* messages inject_pending_interjection_async can convert
    Controls,       \* control actions users send, and "shutdown" for SIGTERM
    MaxArrivals,    \* deliveries of one message by the channel
    MaxControls,    \* control actions in one behaviour
    MaxRounds,      \* tool rounds of one turn
    MaxDreams,      \* memory-maintenance periods in one behaviour
    MaxTriggers     \* triggers that fire in one behaviour

ControlKinds == {"interrupt", "reset", "compact"}
Triggers     == Turns \ Messages

ASSUME TurnsAreFinite == IsFiniteSet(Turns)
ASSUME MessagesAreTurns == Messages \subseteq Turns
ASSUME BackgroundAreTriggers == Background \subseteq Triggers
ASSUME ControlsAreKinds == Controls \subseteq ControlKinds \cup {"shutdown"}
ASSUME BoundsAreNaturals == {MaxArrivals, MaxControls, MaxRounds, MaxDreams, MaxTriggers} \subseteq Nat

\* Barrier names; a barrier's name is its owner's identity.
BarrierNames == {"quiescing:reset", "quiescing:shutdown", "memory_maintenance", "compact"}

VARIABLES
    sched,        \* state.scheduler.state
    inbox,        \* the channel's mailbox, not yet drained by the pump
    trigs,        \* proactive trigger mailbox and undelivered package completions
    queue,        \* main_loop.queue
    woken,        \* main_loop._wakeup_event
    pending,      \* pending_channel_turns
    pc,           \* where the pump coroutine is suspended
    ret,          \* where it continues after _start_next_queued_turn_async
    subject,      \* the message being scheduled or the turn being interrupted
    task,         \* stage of each turn's asyncio task; "none" without turn_tasks entry
    lease,        \* the lease each task's done callback closed over
    active,       \* keys of active_turns
    scopes,       \* keys of turn_scopes
    l1,           \* state of each turn's L1 transcript
    rounds,       \* llm_round_index of each continuation
    interrupted,  \* continuations marked interrupted
    cancelling,   \* tasks with an undelivered cancel()
    itask,        \* the _interrupt_turn_async task of each turn
    aim,          \* history: the lease that was running when itask was requested
    commits,      \* append_and_acknowledge tasks: shielded, may outlive their turn
    drained,      \* resident_drained_event
    ticket,       \* phase of the resident compaction ticket, "none" without one
    shutdown,     \* progress of _checkpoint_for_shutdown_async
    open,         \* TURN_START minus TURN_END events of each turn
    accepted,     \* history: messages taken over by the core, in order
    consumed,     \* history: messages that opened a turn or were injected, in order
    dropped,      \* history: triggers disposed of without a turn
    budget        \* what is left of each bounded input

pumpVars  == <<pc, ret, subject>>
turnVars  == <<task, lease, active, scopes, l1, rounds, interrupted, cancelling, open>>
inputVars == <<inbox, trigs, queue, woken>>
flowVars  == <<pending, accepted, consumed, dropped>>
interruptVars == <<itask, aim>>
vars == <<sched, inputVars, flowVars, pumpVars, turnVars, interruptVars, commits,
          drained, ticket, shutdown, budget>>

TaskStages == {"none", "created", "opening", "running", "inject", "inject_cancelled",
               "failing", "post", "done"}
L1States == {"none", "active", "settled", "interrupted", "aborted"}
Commit == [owner : Lease, batch : Seq(Messages) \ {<<>>}]

User(m)    == [kind |-> "user", id |-> m]
Slash(k)   == [kind |-> "slash", id |-> k]
Control(k) == [kind |-> "control", id |-> k]
Trigger(t) == [kind |-> "trigger", id |-> t]
InboxEvent == {User(m) : m \in Messages} \cup {Slash(k) : k \in ControlKinds}
QueueEvent == InboxEvent \cup {Control(k) : k \in ControlKinds} \cup {Trigger(t) : t \in Triggers}

Init ==
    /\ sched = InitialScheduling
    /\ inbox = <<>> /\ trigs = {} /\ queue = <<>> /\ woken = TRUE
    /\ pending = <<>> /\ accepted = <<>> /\ consumed = <<>> /\ dropped = {}
    /\ pc = "idle" /\ ret = "idle" /\ subject = NoLease
    /\ task = [t \in Turns |-> "none"] /\ lease = [t \in Turns |-> NoLease]
    /\ active = {} /\ scopes = {} /\ interrupted = {} /\ cancelling = {}
    /\ l1 = [t \in Turns |-> "none"] /\ rounds = [t \in Turns |-> 0]
    /\ open = [t \in Turns |-> 0]
    /\ itask = [t \in Turns |-> "none"] /\ aim = [t \in Turns |-> NoLease] /\ commits = {}
    /\ drained = TRUE /\ ticket = "none" /\ shutdown = "no"
    /\ budget = [arrivals |-> [m \in Messages |-> MaxArrivals], fired |-> {},
                 controls |-> MaxControls, dreams |-> MaxDreams]
-----------------------------------------------------------------------------
\* Predicates the runtime evaluates.

KindOf(t) == IF t \in Messages THEN "chat"
             ELSE IF t \in Background THEN "background" ELSE "proactive"

TaskLive(t) == task[t] \notin {"none", "done"}            \* a task that is not done()
Quiescing   == {"quiescing:reset", "quiescing:shutdown"} \cap sched.barriers # {}
Sleeping    == "memory_maintenance" \in sched.barriers
LockFree    == pc # "prep"

\* _resident_other_work
OtherWork == active # {} \/ \E t \in Turns : TaskLive(t)

\* memory_ingress_reservations: the pump scheduling a message, or a chat turn past
\* its own admission check.
IngressReserved ==
    \/ pc = "ingress"
    \/ \E m \in Messages :
          task[m] \in {"opening", "running", "inject", "inject_cancelled", "failing", "post"}

\* memory_control_reservations: the pump inside handle_control_action_async.
InControl ==
    \/ pc \in {"interrupt", "reset_interrupt", "reset_drain", "reset_history",
               "reset_end", "compact_run", "compact_generate", "compact_end"}
    \/ pc \in {"next", "prep"} /\ ret = "idle"

\* _pending_user_work, for the pump queue q
PendingUsers(q) ==
    \/ pending # <<>> \/ IngressReserved
    \/ \E i \in DOMAIN q : q[i].kind = "user"

\* resident_admission_reason(kind) is empty
MayStart(kind, q) ==
    /\ ticket = "none"
    /\ AdmissionReason(sched, kind, PendingUsers(q), OtherWork) = ""

\* Mutant: control actions in progress are not counted.
MaintenanceBusyNoControl ==
    \/ Sleeping \/ Quiescing \/ IngressReserved
    \/ pending # <<>> \/ queue # <<>> \/ inbox # <<>>
    \/ sched.owner # NoLease
    \/ \E t \in Turns : TaskLive(t)

\* memory_maintenance_busy
MaintenanceBusy ==
    \/ Sleeping \/ Quiescing \/ IngressReserved \/ InControl
    \/ pending # <<>> \/ queue # <<>> \/ inbox # <<>>
    \/ sched.owner # NoLease
    \/ \E t \in Turns : TaskLive(t)

\* The scheduler's reaction to an event of turn t, if t owns the slot.
OwnerEvent(s, event, t) ==
    IF s.owner # NoLease /\ s.owner.turn = t THEN Owned(s, event, s.owner) ELSE s

\* settle, interrupt and abort refuse a transcript that is not active
CloseL1(t, as) == IF l1[t] = "active" THEN [l1 EXCEPT ![t] = as] ELSE l1
-----------------------------------------------------------------------------
\* Inputs.

\* The channel puts a message into its mailbox, possibly the same one again.
Arrive(m) ==
    /\ budget.arrivals[m] > 0
    /\ inbox' = Append(inbox, User(m)) /\ woken' = TRUE
    /\ budget' = [budget EXCEPT !.arrivals[m] = @ - 1]
    /\ UNCHANGED <<sched, trigs, queue, flowVars, pumpVars, turnVars, interruptVars,
                   commits, drained, ticket, shutdown>>

\* A proactive trigger falls due, or a package operation completes.
Fire(t) ==
    /\ t \notin budget.fired /\ Cardinality(budget.fired) < MaxTriggers
    /\ trigs' = trigs \cup {t} /\ woken' = TRUE
    /\ budget' = [budget EXCEPT !.fired = @ \cup {t}]
    /\ UNCHANGED <<sched, inbox, queue, flowVars, pumpVars, turnVars, interruptVars,
                   commits, drained, ticket, shutdown>>

\* A user sends /interrupt or /compact, or confirms a /reset.
RequestControl(k) ==
    /\ budget.controls > 0
    /\ inbox' = Append(inbox, Slash(k)) /\ woken' = TRUE
    /\ budget' = [budget EXCEPT !.controls = @ - 1]
    /\ UNCHANGED <<sched, trigs, queue, flowVars, pumpVars, turnVars, interruptVars,
                   commits, drained, ticket, shutdown>>
-----------------------------------------------------------------------------
\* The pump: MainLoop.run_once_async, one event at a time.

\* Trigger sources hand over what they hold only while a turn of their kind could
\* start: every proactive trigger, but one package completion at a time.
ProactiveReady(q) == IF Sleeping \/ ~MayStart("proactive", q) THEN {} ELSE trigs \ Background
PackageReady(q)   == IF MayStart("background", q) THEN trigs \cap Background ELSE {}
Ready(q) ==
    IF PackageReady(q) = {} THEN {ProactiveReady(q)}
    ELSE {ProactiveReady(q) \cup {b} : b \in PackageReady(q)}

\* The ways to queue a set of events one after the other.
Orders(S) ==
    {s \in [1..Cardinality(S) -> S] : \A i, j \in DOMAIN s : i # j => s[i] # s[j]}

\* drain_ready_sources; the wake-up flag is cleared before the sources are read.
PumpDrain ==
    /\ pc = "idle" /\ woken
    /\ \E channelFirst \in BOOLEAN :
       \E ready \in Ready(IF channelFirst THEN queue \o inbox ELSE queue) :
       \E events \in Orders({Trigger(t) : t \in ready}) :
          /\ queue' = queue \o (IF channelFirst THEN inbox \o events ELSE events \o inbox)
          /\ trigs' = trigs \ ready
    /\ inbox' = <<>> /\ woken' = FALSE
    /\ pc' = "next" /\ ret' = "pop"
    /\ UNCHANGED <<sched, flowVars, subject, turnVars, interruptVars, commits, drained,
                   ticket, shutdown, budget>>

\* Admission of t by _admit_resident_turn and the bookkeeping of its new task.
\* A trigger's continuation exists already; a chat turn builds its own later.
StartTask(t, admitted) ==
    /\ sched' = admitted
    /\ lease' = [lease EXCEPT ![t] = admitted.owner]
    /\ task' = [task EXCEPT ![t] = "created"]
    /\ active' = IF t \in Triggers THEN active \cup {t} ELSE active
    /\ scopes' = scopes \cup {t}
    /\ open' = [open EXCEPT ![t] = @ + 1]
    /\ rounds' = [rounds EXCEPT ![t] = 0]
    /\ drained' = FALSE
    /\ UNCHANGED <<l1, interrupted, cancelling>>

Decision(t, q) ==
    IF ticket # "none" THEN Refuse(sched, "compaction")
    ELSE ReduceAdmit(sched, t, KindOf(t), PendingUsers(q), OtherWork)

\* Control returns to the pump loop, which runs again at once after an event.
PumpAgain == pc' = "idle" /\ woken' = TRUE
Resume(to) == pc' = to /\ woken' = (woken \/ to = "idle")

\* _start_next_queued_turn_async up to its await; the lock is taken and kept.
StartNextQueued ==
    /\ pc = "next"
    /\ IF MayStart("chat", queue) /\ pending # <<>>
       THEN pc' = "prep" /\ UNCHANGED woken
       ELSE Resume(ret)
    /\ UNCHANGED <<sched, inbox, trigs, queue, flowVars, ret, subject, turnVars,
                   interruptVars, commits, drained, ticket, shutdown, budget>>

PoppedHead(started) == IF started THEN Tail(pending) ELSE pending

\* ... and after it: the head leaves the queue only if its turn was admitted, or if
\* that very turn is running already, which sends the loop to the next message.
StartPrepared ==
    /\ pc = "prep"
    /\ LET head     == Head(pending)
           decision == Decision(head, queue)
           handled  == decision.accepted \/ TaskLive(head)
       IN  /\ pending' = PoppedHead(handled)
           /\ consumed' = IF handled THEN Append(consumed, head) ELSE consumed
           /\ IF decision.accepted THEN StartTask(head, decision.state)
                                   ELSE UNCHANGED <<sched, turnVars, drained>>
           /\ IF TaskLive(head) /\ Len(pending) > 1 THEN UNCHANGED <<pc, woken>>
                                                     ELSE Resume(ret)
    /\ UNCHANGED <<inbox, trigs, queue, accepted, dropped, ret, subject, interruptVars,
                   commits, ticket, shutdown, budget>>

\* MainLoop.pop and the dispatcher; an empty queue ends the pass.
PumpRest ==
    /\ pc = "pop" /\ queue = <<>>
    /\ pc' = "idle"
    /\ UNCHANGED <<sched, inputVars, flowVars, ret, subject, turnVars, interruptVars,
                   commits, drained, ticket, shutdown, budget>>

Popped(kind) == pc = "pop" /\ queue # <<>> /\ Head(queue).kind = kind
PopQueue == queue' = Tail(queue)

\* schedule_channel_turn_async: a message is turned away while memory is asleep,
\* otherwise it reserves ingress and is prepared (an await).
PopUser ==
    /\ Popped("user") /\ PopQueue
    /\ IF Sleeping THEN PumpAgain /\ UNCHANGED subject
                   ELSE /\ pc' = "ingress" /\ subject' = Head(queue).id
                        /\ UNCHANGED woken
    /\ UNCHANGED <<sched, inbox, trigs, flowVars, ret, turnVars, interruptVars, commits,
                   drained, ticket, shutdown, budget>>

MustWait == ~MayStart("chat", queue) \/ pending # <<>>
Duplicate(m) == TaskLive(m) \/ \E i \in DOMAIN pending : pending[i] = m

\* _schedule_admitted_channel_turn_async after the preparation: drop a duplicate,
\* queue behind others, or start.
IngressAdmit ==
    /\ pc = "ingress" /\ PumpAgain /\ subject' = NoLease
    /\ \/ /\ Duplicate(subject)
          /\ UNCHANGED <<sched, turnVars, drained, pending, accepted, consumed>>
       \/ /\ ~Duplicate(subject) /\ MustWait
          /\ pending' = Append(pending, subject)
          /\ accepted' = Append(accepted, subject)
          /\ UNCHANGED <<sched, turnVars, drained, consumed>>
       \/ /\ ~Duplicate(subject) /\ ~MustWait     \* the start's result is not looked at
          /\ accepted' = Append(accepted, subject)
          /\ LET decision == Decision(subject, queue)
             IN  IF decision.accepted
                 THEN /\ StartTask(subject, decision.state)
                      /\ consumed' = Append(consumed, subject)
                 ELSE UNCHANGED <<sched, turnVars, drained, consumed>>
          /\ UNCHANGED pending
    /\ UNCHANGED <<inbox, trigs, queue, dropped, ret, interruptVars, commits, ticket,
                   shutdown, budget>>

\* enqueue_trigger, or the claim on a package completion given back
Requeue(t) == trigs' = trigs \cup {t}

\* ProactiveTriggerHandler.handle and the package completion handler: admission is
\* asked again, and a trigger that lost it goes back to its source.  A trigger whose
\* definition is gone or cannot be built, and a completion that a status query has
\* delivered meanwhile, ends here without a turn.
PopTrigger ==
    /\ Popped("trigger") /\ PopQueue /\ PumpAgain
    /\ LET t == Head(queue).id
           decision == Decision(t, Tail(queue))
       IN  \/ /\ decision.accepted /\ StartTask(t, decision.state)
              /\ UNCHANGED <<trigs, dropped>>
           \/ /\ ~decision.accepted /\ Requeue(t)
              /\ UNCHANGED <<sched, turnVars, drained, dropped>>
           \/ /\ dropped' = dropped \cup {t}
              /\ UNCHANGED <<trigs, sched, turnVars, drained>>
    /\ UNCHANGED <<inbox, pending, accepted, consumed, ret, subject, interruptVars, commits,
                   ticket, shutdown, budget>>
-----------------------------------------------------------------------------
\* Control actions, run by the pump inside handle_control_action_async.

\* ControlEventHandler.handle: the parsed action is queued behind everything else.
PopSlash ==
    /\ Popped("slash") /\ PumpAgain
    /\ queue' = Append(Tail(queue), Control(Head(queue).id))
    /\ UNCHANGED <<sched, inbox, trigs, flowVars, ret, subject, turnVars, interruptVars,
                   commits, drained, ticket, shutdown, budget>>

PoppedControl(k) == Popped("control") /\ Head(queue).id = k /\ PopQueue

\* Asleep, the action is answered with the sleep notice.
ControlRefused ==
    /\ Popped("control") /\ PopQueue /\ Sleeping /\ PumpAgain
    /\ UNCHANGED <<sched, inbox, trigs, flowVars, ret, subject, turnVars, interruptVars,
                   commits, drained, ticket, shutdown, budget>>

\* interrupt_active_turn of a live owner: one interrupt task per turn, joined if it
\* is still in flight.
OwnerTurn == sched.owner.turn
OwnerLive == sched.owner # NoLease /\ (TaskLive(OwnerTurn) \/ OwnerTurn \in active)
RequestInterrupt ==
    LET inFlight == itask[OwnerTurn] # "none"
    IN  /\ itask' = IF inFlight THEN itask ELSE [itask EXCEPT ![OwnerTurn] = "begin"]
        /\ aim' = IF inFlight THEN aim ELSE [aim EXCEPT ![OwnerTurn] = sched.owner]

\* latest_active_turn_id corrects the drained event as it answers.
Probe == drained' = (sched.owner = NoLease)

\* _handle_interrupt_turn_async
PopInterrupt ==
    /\ PoppedControl("interrupt") /\ ~Sleeping /\ Probe
    /\ IF OwnerLive
       THEN RequestInterrupt /\ pc' = "interrupt" /\ subject' = OwnerTurn /\ UNCHANGED woken
       ELSE PumpAgain /\ UNCHANGED <<interruptVars, subject>>
    /\ UNCHANGED <<sched, inbox, trigs, flowVars, ret, turnVars, commits, ticket, shutdown,
                   budget>>

\* Mutant: the pump does not wait for the interrupt task.
InterruptJoinedEarly ==
    /\ pc \in {"interrupt", "reset_interrupt"}
    /\ subject' = NoLease
    /\ IF pc = "interrupt" THEN PumpAgain ELSE pc' = "reset_drain" /\ UNCHANGED woken
    /\ UNCHANGED <<sched, inbox, trigs, queue, flowVars, ret, turnVars, interruptVars,
                   commits, drained, ticket, shutdown, budget>>

\* The pump's await of the interrupt task ends: after /interrupt, or within /reset.
InterruptJoined ==
    /\ pc \in {"interrupt", "reset_interrupt"} /\ itask[subject] = "none"
    /\ subject' = NoLease
    /\ IF pc = "interrupt" THEN PumpAgain ELSE pc' = "reset_drain" /\ UNCHANGED woken
    /\ UNCHANGED <<sched, inbox, trigs, queue, flowVars, ret, turnVars, interruptVars,
                   commits, drained, ticket, shutdown, budget>>

\* _execute_soft_reset_async: a barrier, a fresh drained event, then the owner is
\* interrupted.
PopReset ==
    /\ PoppedControl("reset") /\ ~Sleeping
    /\ \/ Quiescing /\ PumpAgain /\ UNCHANGED <<sched, subject, interruptVars, drained>>
       \/ /\ ~Quiescing /\ Probe
          /\ sched' = SetBarrier(sched, "quiescing:reset", TRUE)
          /\ IF OwnerLive
             THEN RequestInterrupt /\ pc' = "reset_interrupt" /\ subject' = OwnerTurn
             ELSE pc' = "reset_drain" /\ UNCHANGED <<interruptVars, subject>>
          /\ UNCHANGED woken
    /\ UNCHANGED <<inbox, trigs, flowVars, ret, turnVars, commits, ticket, shutdown, budget>>

\* The bounded wait for the drained event; its timeout gives the reset up.
ResetDrained ==
    /\ pc = "reset_drain" /\ drained /\ pc' = "reset_history"
    /\ UNCHANGED <<sched, inputVars, flowVars, ret, subject, turnVars, interruptVars,
                   commits, drained, ticket, shutdown, budget>>

ResetTimeout ==
    /\ pc = "reset_drain" /\ ~drained /\ pc' = "reset_end"
    /\ UNCHANGED <<sched, inputVars, flowVars, ret, subject, turnVars, interruptVars,
                   commits, drained, ticket, shutdown, budget>>

\* The history is cleared, or clearing it fails and the old one stays.
ResetHistory ==
    /\ pc = "reset_history" /\ pc' = "reset_end"
    /\ l1' \in {[t \in Turns |-> "none"], l1}
    /\ UNCHANGED <<sched, inputVars, flowVars, ret, subject, task, lease, active, scopes,
                   rounds, interrupted, cancelling, open, interruptVars, commits, drained,
                   ticket, shutdown, budget>>

\* Mutant: the reset takes every quiescing barrier down.
ResetEndAllBarriers ==
    /\ pc = "reset_end" /\ pc' = "next" /\ ret' = "idle"
    /\ sched' = [sched EXCEPT !.barriers = @ \ {"quiescing:reset", "quiescing:shutdown"}]
    /\ drained' = TRUE
    /\ UNCHANGED <<inputVars, flowVars, subject, turnVars, interruptVars, commits, ticket,
                   shutdown, budget>>

\* finally: only this reset's own barrier comes down, and the queue is looked at.
ResetEnd ==
    /\ pc = "reset_end" /\ pc' = "next" /\ ret' = "idle"
    /\ sched' = SetBarrier(sched, "quiescing:reset", FALSE) /\ drained' = TRUE
    /\ UNCHANGED <<inputVars, flowVars, subject, turnVars, interruptVars, commits, ticket,
                   shutdown, budget>>

\* _handle_compact_memory_async claims the gate only over an idle resident; the gate
\* raises its barrier with the claim.  The answer is no when the resident is busy or
\* when the reminder the user answered is out of date.
PopCompact ==
    /\ PoppedControl("compact") /\ ~Sleeping /\ Probe
    /\ \/ /\ sched.owner = NoLease /\ ~\E t \in Turns : TaskLive(t)
          /\ pending = <<>> /\ ~Quiescing /\ ticket = "none"
          /\ ticket' = "claimed" /\ pc' = "compact_run" /\ UNCHANGED woken
          /\ sched' = SetBarrier(sched, "compact", TRUE)
       \/ PumpAgain /\ UNCHANGED <<sched, ticket>>
    /\ UNCHANGED <<inbox, trigs, flowVars, ret, subject, turnVars, interruptVars, commits,
                   shutdown, budget>>

\* Nothing to compact, or _run_control_compaction_async starts generating.
CompactRun ==
    /\ pc = "compact_run"
    /\ \/ pc' = "compact_end" /\ UNCHANGED ticket
       \/ pc' = "compact_generate" /\ ticket' = "generating"
    /\ UNCHANGED <<sched, inputVars, flowVars, ret, subject, turnVars, interruptVars,
                   commits, drained, shutdown, budget>>

\* The summary is installed, or the attempts end without one.
CompactGenerate ==
    /\ pc = "compact_generate" /\ pc' = "compact_end"
    /\ ticket' \in {"committed", ticket}
    /\ UNCHANGED <<sched, inputVars, flowVars, ret, subject, turnVars, interruptVars,
                   commits, drained, shutdown, budget>>

\* finally: the ticket is released with its barrier, and the queue is looked at.
CompactEnd ==
    /\ pc = "compact_end" /\ pc' = "next" /\ ret' = "idle"
    /\ ticket' = "none" /\ sched' = SetBarrier(sched, "compact", FALSE)
    /\ UNCHANGED <<inputVars, flowVars, subject, turnVars, interruptVars, commits, drained,
                   shutdown, budget>>
-----------------------------------------------------------------------------
\* The interrupt task of turn t (_interrupt_turn_async).

\* The owner is told to finalize and a published continuation is closed; then the
\* stream abort and the execution interrupt are awaited.
InterruptBegin(t) ==
    /\ itask[t] = "begin" /\ itask' = [itask EXCEPT ![t] = "cancel"]
    /\ sched' = OwnerEvent(sched, "cancel", t)
    /\ IF t \in active
       THEN interrupted' = interrupted \cup {t} /\ l1' = CloseL1(t, "interrupted")
       ELSE UNCHANGED <<interrupted, l1>>
    /\ UNCHANGED <<inputVars, flowVars, pumpVars, task, lease, active, scopes, rounds,
                   cancelling, open, aim, commits, drained, ticket, shutdown, budget>>

\* Whatever task turn_tasks holds for t by now is cancelled.
InterruptCancel(t) ==
    /\ itask[t] = "cancel" /\ itask' = [itask EXCEPT ![t] = "none"]
    /\ cancelling' = IF TaskLive(t) THEN cancelling \cup {t} ELSE cancelling
    /\ UNCHANGED <<sched, inputVars, flowVars, pumpVars, task, lease, active, scopes, l1,
                   rounds, interrupted, open, aim, commits, drained, ticket, shutdown,
                   budget>>
-----------------------------------------------------------------------------
\* The task of turn t.  A cancel() is delivered at the task's next step.

Step(t, from, to) == /\ task[t] = from /\ t \notin cancelling
                     /\ task' = [task EXCEPT ![t] = to]

\* process_channel_turn_async asks once more whether the resident may run; a trigger's
\* coroutine goes straight to its continuation.
TurnBegin(t) ==
    /\ t \in Messages => LockFree /\ ~Quiescing /\ ~Sleeping /\ ticket = "none"
    /\ Step(t, "created", "opening")
    /\ UNCHANGED <<sched, inputVars, flowVars, pumpVars, lease, active, scopes, l1, rounds,
                   interrupted, cancelling, open, interruptVars, commits, drained, ticket,
                   shutdown, budget>>

\* The continuation is published and its L1 transcript opened; the transcript of an
\* earlier turn of the same id stays as it was closed.
TurnOpen(t) ==
    /\ Step(t, "opening", "running")
    /\ active' = active \cup {t}
    /\ l1' = [l1 EXCEPT ![t] = IF @ = "none" THEN "active" ELSE @]
    /\ UNCHANGED <<sched, inputVars, flowVars, pumpVars, lease, scopes, rounds, interrupted,
                   cancelling, open, interruptVars, commits, drained, ticket, shutdown,
                   budget>>

\* One effect (a model request and its tool batch) completes.
Round(t) ==
    /\ rounds[t] < MaxRounds /\ t \notin interrupted
    /\ Step(t, "running", "running")
    /\ rounds' = [rounds EXCEPT ![t] = @ + 1]
    /\ UNCHANGED <<sched, inputVars, flowVars, pumpVars, lease, active, scopes, l1,
                   interrupted, cancelling, open, interruptVars, commits, drained, ticket,
                   shutdown, budget>>

\* The first n waiting messages are those one interjection can carry: it stops at the
\* first that cannot be interjected.
IsBatch(n) ==
    /\ \A i \in 1..n : pending[i] \in Injectable
    /\ n < Len(pending) => pending[n + 1] \notin Injectable

\* inject_pending_interjection_async: between rounds of a turn that is not proactive,
\* the queued messages are snapshot and a shielded commit task is started.  A round
\* has one interjection point.
Inject(t) ==
    /\ rounds[t] \in 1..MaxRounds /\ KindOf(t) # "proactive" /\ LockFree /\ ticket = "none"
    /\ \E n \in 1..Len(pending) :
          /\ IsBatch(n)
          /\ commits' = commits \cup {[owner |-> lease[t], batch |-> SubSeq(pending, 1, n)]}
    /\ Step(t, "running", "inject")
    /\ rounds' = [rounds EXCEPT ![t] = @ + 1]
    /\ UNCHANGED <<sched, inputVars, flowVars, pumpVars, lease, active, scopes, l1,
                   interrupted, cancelling, open, interruptVars, drained, ticket, shutdown,
                   budget>>

\* Mutant: one message is acknowledged, whatever the batch.
AcknowledgedHead(batch) == Tail(pending)

\* pending_channel_turns without the batch that was appended
Acknowledged(batch) == SubSeq(pending, Len(batch) + 1, Len(pending))

\* append_and_acknowledge: the batch must still head the queue and the transcript must
\* still be open; the append and the acknowledgement are one critical section.
InjectCommit(c) ==
    /\ LockFree
    /\ commits' = commits \ {c}
    /\ IF /\ ticket = "none" /\ l1[c.owner.turn] = "active"
          /\ Len(c.batch) <= Len(pending) /\ SubSeq(pending, 1, Len(c.batch)) = c.batch
       THEN /\ pending' = Acknowledged(c.batch)
            /\ consumed' = consumed \o c.batch
       ELSE UNCHANGED <<pending, consumed>>
    /\ LET t == c.owner.turn
       IN  task' = IF lease[t] = c.owner /\ task[t] = "inject" /\ t \notin cancelling
                   THEN [task EXCEPT ![t] = "running"] ELSE task
    /\ UNCHANGED <<sched, inputVars, accepted, dropped, pumpVars, lease, active, scopes, l1,
                   rounds, interrupted, cancelling, open, interruptVars, drained, ticket,
                   shutdown, budget>>

\* The first cancellation during an interjection waits for the commit.
AbsorbCancel(t) ==
    /\ task[t] = "inject" /\ t \in cancelling
    /\ task' = [task EXCEPT ![t] = "inject_cancelled"] /\ cancelling' = cancelling \ {t}
    /\ UNCHANGED <<sched, inputVars, flowVars, pumpVars, lease, active, scopes, l1, rounds,
                   interrupted, open, interruptVars, commits, drained, ticket, shutdown,
                   budget>>

\* The program returns: resume retires the continuation, the post-turn commit settles
\* the transcript, or fails because someone else has closed it.
Finish(t) ==
    /\ t \notin interrupted
    /\ Step(t, "running", IF l1[t] = "active" THEN "post" ELSE "failing")
    /\ sched' = OwnerEvent(sched, "program_finished", t)
    /\ active' = active \ {t} /\ scopes' = scopes \ {t} /\ l1' = CloseL1(t, "settled")
    /\ UNCHANGED <<inputVars, flowVars, pumpVars, lease, rounds, interrupted, cancelling,
                   open, interruptVars, commits, drained, ticket, shutdown, budget>>

\* An effect raises: the transcript is closed as aborted and the error travels up.
Fail(t) ==
    /\ task[t] \in {"opening", "running"}
    /\ Step(t, task[t], "failing")
    /\ l1' = CloseL1(t, "aborted")
    /\ UNCHANGED <<sched, inputVars, flowVars, pumpVars, lease, active, scopes, rounds,
                   interrupted, cancelling, open, interruptVars, commits, drained, ticket,
                   shutdown, budget>>

\* Mutant: the continuation is dropped without closing its transcript.
CleanupOpen(t) ==
    /\ active' = active \ {t} /\ scopes' = scopes \ {t}
    /\ UNCHANGED l1

\* cleanup_interrupted and _mark_turn_exited
Cleanup(t) ==
    /\ active' = active \ {t} /\ scopes' = scopes \ {t}
    /\ l1' = IF t \in active THEN CloseL1(t, "interrupted") ELSE l1

\* The runner's except and finally clauses; chat turns announce their end here.
Exit(t) ==
    /\ sched' = OwnerEvent(sched, "program_finished", t)
    /\ Cleanup(t)
    /\ open' = IF t \in Messages THEN [open EXCEPT ![t] = @ - 1] ELSE open
    /\ task' = [task EXCEPT ![t] = "done"] /\ cancelling' = cancelling \ {t}
    /\ woken' = TRUE
    /\ UNCHANGED <<inbox, trigs, queue, flowVars, pumpVars, lease, rounds, interrupted,
                   interruptVars, commits, drained, ticket, shutdown, budget>>

\* The admission check of process_channel_turn_async raises.
TurnRefused(t) ==
    /\ t \in Messages /\ task[t] = "created" /\ t \notin cancelling /\ LockFree
    /\ Quiescing \/ Sleeping \/ ticket # "none"
    /\ Exit(t)

\* Mutant: the cancelled interjection does not notice that its commit is done.
TurnExitStuck(t) ==
    /\ \/ task[t] \in {"failing", "post"}
       \/ task[t] = "running" /\ t \in interrupted
       \/ task[t] \in {"opening", "running", "inject_cancelled"} /\ t \in cancelling
    /\ Exit(t)

\* The coroutine ends: by itself, by the interrupted flag, or by CancelledError.
TurnExit(t) ==
    /\ \/ task[t] \in {"failing", "post"}
       \/ task[t] = "running" /\ t \in interrupted
       \/ task[t] \in {"opening", "running", "inject_cancelled"} /\ t \in cancelling
       \/ task[t] = "inject_cancelled" /\ ~\E c \in commits : c.owner = lease[t]
    /\ Exit(t)

\* A task cancelled before its first step never enters its coroutine.
CancelledUnstarted(t) ==
    /\ task[t] = "created" /\ t \in cancelling
    /\ task' = [task EXCEPT ![t] = "done"] /\ cancelling' = cancelling \ {t}
    /\ UNCHANGED <<sched, inputVars, flowVars, pumpVars, lease, active, scopes, l1, rounds,
                   interrupted, open, interruptVars, commits, drained, ticket, shutdown,
                   budget>>

\* The owner's coroutine never ran, or left its continuation behind.
Untidy(t) ==
    /\ lease[t] = sched.owner
    /\ IF t \in Messages THEN t \in scopes ELSE t \in active

\* Mutant: the pump is not woken.
ReleaseLeaseSilently(t) ==
    LET ended    == Owned(sched, "program_finished", lease[t])
        decision == ReduceOwned(ended, "task_finished", lease[t])
    IN  /\ sched' = decision.state
        /\ drained' = (drained \/ decision.accepted)
        /\ UNCHANGED woken

\* _on_turn_task_done and _finish_resident_turn
ReleaseLease(t) ==
    LET ended    == Owned(sched, "program_finished", lease[t])
        decision == ReduceOwned(ended, "task_finished", lease[t])
    IN  /\ sched' = decision.state
        /\ drained' = (drained \/ decision.accepted)
        /\ woken' = TRUE

\* The done callback: what the coroutine could not close is closed here, then the
\* lease is released and the pump is woken.
TurnDone(t) ==
    /\ task[t] = "done"
    /\ IF Untidy(t) THEN Cleanup(t) ELSE UNCHANGED <<active, scopes, l1>>
    /\ open' = IF Untidy(t) \/ (t \in Triggers /\ lease[t] = sched.owner)
               THEN [open EXCEPT ![t] = @ - 1] ELSE open
    /\ ReleaseLease(t)
    /\ task' = [task EXCEPT ![t] = "none"] /\ lease' = [lease EXCEPT ![t] = NoLease]
    /\ rounds' = [rounds EXCEPT ![t] = 0] /\ interrupted' = interrupted \ {t}
    /\ UNCHANGED <<inbox, trigs, queue, flowVars, pumpVars, cancelling, interruptVars,
                   commits, ticket, shutdown, budget>>
-----------------------------------------------------------------------------
\* Memory maintenance ("dreaming") and process shutdown.

\* try_enter_memory_maintenance_async: one check and the writer fence, no await between.
DreamEnter ==
    /\ LockFree /\ budget.dreams > 0 /\ ~MaintenanceBusy
    /\ sched' = SetBarrier(sched, "memory_maintenance", TRUE)
    /\ Probe
    /\ budget' = [budget EXCEPT !.dreams = @ - 1]
    /\ UNCHANGED <<inputVars, flowVars, pumpVars, turnVars, interruptVars, commits, ticket,
                   shutdown>>

\* Mutant: the pump is not told that the barrier is gone.
DreamLeaveSilently ==
    /\ LockFree /\ Sleeping
    /\ sched' = SetBarrier(sched, "memory_maintenance", FALSE)
    /\ UNCHANGED <<inputVars, flowVars, pumpVars, turnVars, interruptVars, commits, drained,
                   ticket, shutdown, budget>>

\* leave_memory_maintenance_async
DreamLeave ==
    /\ LockFree /\ Sleeping
    /\ sched' = SetBarrier(sched, "memory_maintenance", FALSE) /\ woken' = TRUE
    /\ UNCHANGED <<inbox, trigs, queue, flowVars, pumpVars, turnVars, interruptVars, commits,
                   drained, ticket, shutdown, budget>>

\* request_stop: the shutdown task raises its barrier, without the transition lock.
ShutdownBegin ==
    /\ "shutdown" \in Controls /\ shutdown = "no" /\ shutdown' = "begun"
    /\ sched' = SetBarrier(sched, "quiescing:shutdown", TRUE)
    /\ UNCHANGED <<inputVars, flowVars, pumpVars, turnVars, interruptVars, commits, drained,
                   ticket, budget>>

\* interrupt_active_turn(reason="process_shutdown")
ShutdownInterrupt ==
    /\ shutdown = "begun" /\ Probe
    /\ IF OwnerLive THEN RequestInterrupt /\ shutdown' = "joining"
                    ELSE shutdown' = "waiting" /\ UNCHANGED interruptVars
    /\ UNCHANGED <<sched, inputVars, flowVars, pumpVars, turnVars, commits, ticket, budget>>

\* Its await ends; the barrier keeps any other turn from being interrupted meanwhile.
ShutdownJoined ==
    /\ shutdown = "joining" /\ \A t \in Turns : itask[t] = "none"
    /\ shutdown' = "waiting"
    /\ UNCHANGED <<sched, inputVars, flowVars, pumpVars, turnVars, interruptVars, commits,
                   drained, ticket, budget>>

\* The bounded wait ends, drained or not, and the checkpoint is published.
ShutdownSave ==
    /\ shutdown = "waiting" /\ shutdown' = "saved"
    /\ UNCHANGED <<sched, inputVars, flowVars, pumpVars, turnVars, interruptVars, commits,
                   drained, ticket, budget>>

\* PalRuntimeApp.run leaves its loop between two passes once stop_event is set.
PumpStop ==
    /\ pc = "idle" /\ shutdown # "no" /\ pc' = "stopped"
    /\ UNCHANGED <<sched, inputVars, flowVars, ret, subject, turnVars, interruptVars, commits,
                   drained, ticket, shutdown, budget>>
-----------------------------------------------------------------------------
Pump ==
    \/ PumpDrain \/ StartNextQueued \/ StartPrepared \/ PumpRest
    \/ PopUser \/ IngressAdmit \/ PopTrigger
    \/ PopSlash \/ ControlRefused \/ PopInterrupt \/ InterruptJoined
    \/ PopReset \/ ResetDrained \/ ResetTimeout \/ ResetHistory \/ ResetEnd
    \/ PopCompact \/ CompactRun \/ CompactGenerate \/ CompactEnd

TurnTask(t) ==
    \/ TurnBegin(t) \/ TurnOpen(t) \/ Round(t) \/ Inject(t) \/ AbsorbCancel(t)
    \/ Finish(t) \/ Fail(t) \/ TurnRefused(t) \/ TurnExit(t)
    \/ CancelledUnstarted(t) \/ TurnDone(t)

InterruptTask(t) == InterruptBegin(t) \/ InterruptCancel(t)

Shutdown == ShutdownBegin \/ ShutdownInterrupt \/ ShutdownJoined \/ ShutdownSave \/ PumpStop

Environment ==
    \/ \E m \in Messages : Arrive(m)
    \/ \E t \in Triggers : Fire(t)
    \/ \E k \in Controls \cap ControlKinds : RequestControl(k)

\* Nothing is running and nobody has been woken: all inputs have been dealt with.
AtRest ==
    /\ (pc = "idle" /\ ~woken) \/ pc = "stopped"
    /\ \A t \in Turns : task[t] = "none" /\ itask[t] = "none"
    /\ commits = {} /\ ~Sleeping /\ shutdown \in {"no", "saved"}
Rest == AtRest /\ UNCHANGED vars

Next ==
    \/ Environment \/ Pump
    \/ \E t \in Turns : TurnTask(t) \/ InterruptTask(t)
    \/ \E c \in commits : InjectCommit(c)
    \/ DreamEnter \/ DreamLeave \/ Shutdown \/ Rest

Spec == Init /\ [][Next]_vars

\* The event loop runs every ready coroutine; nothing obliges anyone to send input,
\* to start dreaming or to shut the process down.  A turn is assumed to end.
Fairness ==
    /\ WF_vars(Pump)
    /\ \A t \in Turns : WF_vars(TurnTask(t)) /\ WF_vars(InterruptTask(t))
    /\ WF_vars(\E c \in commits : InjectCommit(c))
    /\ WF_vars(DreamLeave)

FairSpec == Spec /\ Fairness
-----------------------------------------------------------------------------
\* Properties.

PumpPlaces ==
    {"idle", "next", "prep", "pop", "ingress", "interrupt", "reset_interrupt",
     "reset_drain", "reset_history", "reset_end", "compact_run", "compact_generate",
     "compact_end", "stopped"}

\* Every variable of the runtime keeps its shape, in every interleaving.
TypeOK ==
    /\ sched \in SchedulingState(BarrierNames)
    /\ inbox \in Seq(InboxEvent) /\ trigs \subseteq Triggers /\ queue \in Seq(QueueEvent)
    /\ woken \in BOOLEAN /\ drained \in BOOLEAN
    /\ pending \in Seq(Messages) /\ accepted \in Seq(Messages) /\ consumed \in Seq(Messages)
    /\ dropped \subseteq Triggers
    /\ pc \in PumpPlaces /\ ret \in {"idle", "pop"} /\ subject \in Turns \cup {NoLease}
    /\ task \in [Turns -> TaskStages] /\ lease \in [Turns -> Lease \cup {NoLease}]
    /\ active \subseteq Turns /\ scopes \subseteq Turns
    /\ interrupted \subseteq Turns /\ cancelling \subseteq Turns
    /\ l1 \in [Turns -> L1States] /\ rounds \in [Turns -> Nat] /\ open \in [Turns -> Int]
    /\ itask \in [Turns -> {"none", "begin", "cancel"}]
    /\ aim \in [Turns -> Lease \cup {NoLease}]
    /\ commits \subseteq Commit
    /\ ticket \in {"none", "claimed", "generating", "committed"}
    /\ shutdown \in {"no", "begun", "joining", "waiting", "saved"}
    /\ budget \in [arrivals : [Messages -> Nat], fired : SUBSET Triggers,
                   controls : Nat, dreams : Nat]

(* The resident slot and the asyncio tasks agree: the tracked task is the   *)
(* owner's and carries the owner's lease, and a taken slot always has a     *)
(* task whose done callback will release it.  A cancelled, failed, refused  *)
(* or never-started task must not leave the slot taken or free it early.    *)
SoleResident ==
    /\ \A t \in Turns : task[t] # "none" =>
          sched.owner # NoLease /\ sched.owner.turn = t /\ lease[t] = sched.owner
    /\ sched.owner # NoLease => task[sched.owner.turn] # "none"
    /\ \A t \in active \cup scopes : task[t] # "none"

\* Everyone who may be writing the conversation history.
Writers ==
    {t \in Turns : task[t] # "none" \/ l1[t] = "active"}
    \cup (IF ticket = "none" THEN {} ELSE {"compaction"})
    \cup (IF pc = "reset_history" THEN {"reset"} ELSE {})
    \cup (IF Sleeping THEN {"dreaming"} ELSE {})

(* The history has one writer: a turn until its task is gone, a compaction  *)
(* holding the gate, a reset clearing it, or the memory-maintenance writer, *)
(* never two of them, although each is admitted by a check of its own       *)
(* (resident_admission_reason, _handle_compact_memory_async, the drained    *)
(* wait of a reset, memory_maintenance_busy).                               *)
OneWriter == Cardinality(Writers) <= 1

(* No message is lost, duplicated or overtaken: what the core took over is, *)
(* in order, what turns and interjections have consumed followed by what    *)
(* still waits, whatever is cancelled between a snapshot and its commit.    *)
MessagesConserved == accepted = consumed \o pending

(* A turn that is gone leaves no open L1 transcript behind, even when its   *)
(* task was cancelled before its first step or between opening the          *)
(* transcript and noticing the interrupt.                                   *)
TranscriptClosed == \A t \in Turns : task[t] = "none" => l1[t] # "active"

(* TURN_START and TURN_END come in pairs although the end is announced by   *)
(* the runner on some paths and by the done callback on others.             *)
EventsPaired ==
    \A t \in Turns : open[t] \in {0, 1} /\ (task[t] = "none" => open[t] = 0)

(* However a turn ends, nothing of it stays open: neither its transcript    *)
(* nor its TURN_START.                                                      *)
NothingLeftOpen == TranscriptClosed /\ EventsPaired

(* The pump sleeps with work at hand only while something that will wake it *)
(* (the owner's done callback, a barrier's holder) is still outstanding.    *)
NoLostWakeup ==
    pc = "idle" /\ ~woken /\ sched.owner = NoLease /\ sched.barriers = {}
    => inbox = <<>> /\ queue = <<>> /\ pending = <<>> /\ trigs = {}

(* An interrupt task looks its turn up by id when it finally cancels; the   *)
(* admission it then hits is the one it was requested for, never a later    *)
(* turn under the same id.                                                  *)
InterruptAimed ==
    \A t \in Turns : itask[t] # "none" /\ TaskLive(t) => lease[t] = aim[t]

(* After SIGTERM nothing is admitted any more, although the barrier goes up *)
(* without the transition lock and a reset may take its own barrier down.   *)
ShutdownFinal == [][shutdown # "no" => sched'.generation = sched.generation]_vars

Ledger == INSTANCE MessageLedger
    WITH Letters <- Messages, taken <- accepted, waiting <- pending, served <- consumed

(* The queue, the interjections and the turns together implement the FIFO   *)
(* ledger, step by step.                                                    *)
RefinesLedger == Ledger!Spec

(* ... and its promise that nobody waits for ever: a message behind a turn, *)
(* a reset, a compaction or a dream is admitted or interjected in the end.  *)
ServesEveryone == Ledger!FairSpec

(* A trigger that lost admission to user messages or to a barrier is not    *)
(* forgotten: it runs in the end, or its handler disposes of it.            *)
TriggersRun ==
    \A t \in Triggers : t \in trigs ~> task[t] # "none" \/ t \in dropped

(* A turn holds the slot, or the pump is inside a handler or control action. *)
Busy == pc # "idle" \/ \E t \in Turns : task[t] # "none"

(* Nobody waits for ever on a fair event loop: not a trigger; not a turn,   *)
(* which gives the slot back through whichever exit it takes; not the pump, *)
(* which waits in control actions for an interrupt, for a drained resident  *)
(* or for a compaction.                                                     *)
EverythingEnds == TriggersRun /\ (Busy ~> ~Busy)
=============================================================================
