# Pal: a TLA+ verification project

Pal is a resident conversational agent written in Python (`src/src/pal`). One
process holds one conversation history and runs one *resident turn* at a time
inside a single asyncio event loop. Around that turn everything else happens:
channels deliver messages, users send `/interrupt`, `/reset` and `/compact`,
proactive triggers fall due, package operations complete, a background writer
("dreaming") reorganises memory, and signals ask the process to stop.

Beside it a second process, the *Bunshin manager*, drives long-running workflows
from a database: aggregates change by transition tables, each change leaves
effects in an outbox, and role assignments run in worker processes that may
outlive the manager.

This project models both cores, model-checks them with TLC on small instances
and proves the safety properties of those runs with TLAPS for instances of any
size; the liveness properties are model-checked.

## 1. Inventory

### Components, their state and operations

| Component (source) | State | Operations | Hard behaviour |
|---|---|---|---|
| Resident scheduler (`core/scheduling.py`) | phase, owner lease, generation, barriers | admit, cancel, program_finished, task_finished, set_barrier | stale leases; re-admitted turn ids; barriers dropped in any order |
| Resident runtime (`core/runtime.py`) | pump queue, wake-up event, `pending_channel_turns`, `turn_tasks`, `turn_scopes`, `active_turns`, drained event | pump pass, admission, queueing, start of queued turns, done callbacks, interrupt, reset, compact | await points inside decisions, cancellation before the first step, lost wake-ups, redelivery |
| Interjection (`core/interjection.py`) | a shielded commit task per injection | snapshot a batch of waiting messages, append them to the running turn, acknowledge | commit outlives its cancelled turn; queue changes under the snapshot |
| Memory maintenance (`core/memory_maintenance.py`) | barrier `memory_maintenance`, reservations | try-enter, leave | admitted by a predicate of its own |
| Compaction gate (`core/compaction_coordinator.py`) and engine (`core/compaction.py`) | one ticket per scope, barrier per ticket, deadline | claim, sweep, advance, cancel, release; guard, stage, install | expired holders that come back; guard asked before an await |
| Process shutdown (`runtime_app.py`) | shutdown task, barrier `quiescing:shutdown` | raise barrier, interrupt, bounded wait, checkpoint | barrier raised without the lock, inside other critical sections |
| Proactive triggers (`proactive/`) | trigger mailbox, schedule, run records | fall due, drain, admit, requeue | admission lost between source and handler |
| Package completions (`packages/jobs.py`, `notifications.py`) | job threads; pending, claimed, started, seen, consumed news | start, finish, notify, status read and its delivery, drain, handle, completion turn, close | a thread against the tool call that started it; a task cancelled before its first step |
| Model switch (`core/model_switch.py`) | one draft per scope, its state, a gate ticket | open, select, think, compact, commit, cancel, expire, refresh | checks made before an await; commit after withdrawal |
| Side conversations (`core/btw.py`) | one slot, a task with shielded cleanup | start, run, reply, clean up, done callback; quiesce, close | unbounded waits in reset and shutdown; a second cancellation during cleanup |
| Persistence (`memory/persistence/`, `runtime_app.py`) | base file, journal file, cursor in memory | append, checkpoint, rebase, reset, restore | kill, power loss or failed system call between any two steps |
| Bunshin effect outbox (`bunshin/orchestration.py`, `bunshin/storage/`) | outbox rows, attempt rows, receipts | insert, claim, take over, heartbeat, complete, retry, defer, fail and triage | locks that expire under a running task, replay after a crash |
| Bunshin role assignments (`bunshin/semantic_orchestration/`) | assignment, attempts, fenced lease, receipt, session | claim, start, submit, settle, retry, fail, cancel, recover | workers that outlive their manager; two-transaction steps |
| Bunshin workflow control (`bunshin/machines.py`, `orchestration.py`, `workflow_runtime.py`) | workflow, epoch and node aggregates, node cycles, effects | schedule, hand over, pause, resume, cancel, restart, triage, resolve, reconcile | two records of one role; late effects; nested control requests |
| Bunshin architecture phase, replanning, dependency repair, manager process | | | not modelled |
| Turn executor (`core/turn_executor.py`, `core/turns.py`) | continuation, effects | interpret a turn program | retries, tool rounds, budgets |
| Channel runtime (`channel/`) | endpoint hubs, outboxes, mailboxes, reply waiters | poll, emit, flush, transition, reload | retries, buffering during transitions |
| Resident history (`memory/`) | L1 transcripts, history root, compaction runs | begin, append, settle, interrupt, abort, compact | concurrent compaction runs, stamps |
| Leases and sidecars (`foundation/`) | fd leases, child processes | grant, revoke, restart | use after revocation |
| Execution (`execution/`), LLM (`llm/`), control (`control/`), plugins, artifacts, presentation | mostly data and I/O | | cache admission, file freshness, plugin reload |

### How they interact

Channels put messages and slash commands into the channel mailbox and wake the
pump. The pump drains it together with the trigger sources, starts a queued
message if it can, then pops one event and runs its handler to completion. A
slash command is parsed into a control action that is queued *again*, behind
everything else. A handler either asks the scheduler for the slot and creates a
task, or performs a control action itself, awaiting inside it while the turn
task and others run. A turn reports back only through the scheduler and its
done callback. Compaction, reset, dreaming and shutdown hold admission off by
named barriers of the scheduler.

What has to be right: one resident; one writer of the history; no message lost,
duplicated or overtaken; every transcript and every event pair closed once;
nobody waits for ever; late callbacks, leases, tickets and interrupts hit
nobody but the admission they belong to.

The Bunshin manager polls its outbox every quarter of a second and runs the
claimed effects as tasks. A handler moves aggregates through the transition
engine, which inserts further effects in the same transaction, and starts role
assignments, which hold a fenced lease while their worker process runs. Every
processed effect ends with `reconcile_control_requests`, the only place where
the operator's pauses and cancels are confirmed. What has to be right there:
every effect applied and settled once however often it is delivered; no second
worker beside a live one; work that was submitted is never redone; a control
request is settled, and means what it says.

## 2. Modules

| Module | Models |
|---|---|
| `Scheduling` | the pure reducer: phases, leases, `admission_reason`, `reduce_scheduling`, barriers |
| `CoreScheduler` | the scheduler in front of callers that follow no protocol |
| `ResidentSlot` | abstract: one slot with numbered tenancies; `CoreScheduler` implements it |
| `ResidentTurns` | the resident runtime; uses `Scheduling` for every decision |
| `MessageLedger` | abstract: a FIFO of messages served once; `ResidentTurns` implements it |
| `CompactionGate` | tickets, deadlines, barriers and the coroutines that hold tickets |
| `ModelSwitch` | drafts and concurrent think handlers, composed with `CompactionGate` |
| `SideTurns` | the side conversation slot, its task and the operations that cancel it |
| `PackageCompletions` | background package jobs and the news of their completion |
| `ResidentJournal` | base, journal and cursor on a disk that fails |
| `DurableDialogue` | abstract: a dialogue that is saved atomically; `ResidentJournal` implements it |
| `EffectOutbox` | claim, execution and settlement of durable effects |
| `EffectContract` | abstract: each effect applied and settled at most once; `EffectOutbox` implements it |
| `RoleAssignments` | one assignment from queue to settlement across manager exits |
| `RoleContract` | abstract: one decided result per assignment; `RoleAssignments` implements it |
| `WorkflowControl` | workflow, epoch, nodes and node cycles under the operator's commands |
| `MCCoreScheduler`, `MCResidentTurns`, `MCModelSwitch`, `MCWorkflowControl` | symmetry sets and graphs of the runs |
| `CoreSchedulerProofs`, `ResidentTurnsProofs`, `ModelSwitchProofs`, `RoleAssignmentsProofs`, `EffectOutboxProofs`, `ResidentJournalProofs`, `WorkflowControlProofs` | the theorems about the module of that name; `ModelSwitchProofs` also holds those about `CompactionGate` |
| `SideWorkProofs` | the theorems about `SideTurns` and `PackageCompletions` |

### Scheduling and CoreScheduler

A definition per definition of `scheduling.py`. `CoreScheduler` quantifies over
all arguments a caller could pass, and `issued` remembers every lease ever
handed out, so that any of them can come back at any time.

### ResidentTurns

asyncio runs one coroutine at a time, so an action is a stretch of code between
two awaits. Actors are the pump (`pc`), one task per turn (`task`), one
interrupt task per turn (`itask`), interjection commits (`commits`), the dream
writer and the shutdown task. `channel_turn_transition_lock` is held across an
await in one place, the preparation of a queued message (`pc = "prep"`); all
other critical sections are single steps that need `LockFree`.

- *Pump.* `PumpDrain` is the draining of sources; the wake-up flag is cleared
  first. `StartNextQueued`/`StartPrepared` are the two halves of
  `_start_next_queued_turn_async`. `PopUser`/`IngressAdmit` are the two halves
  of `schedule_channel_turn_async`; the reservation between them is `pc =
  "ingress"`. `PopTrigger` is the handler of proactive triggers and of package
  completions.
- *Control.* `PopSlash` re-queues the parsed action. `PopInterrupt`,
  `PopReset`, `PopCompact` and the steps that follow them are the suspension
  points of `handle_control_action_async`; a reset ends through its `finally`
  clause whatever happened, a compaction releases its ticket likewise. A
  `/compact` may also be refused at any time (a reminder that was already used).
- *Turn.* `created`, `opening`, `running`, `inject`, `inject_cancelled`,
  `failing`, `post`, `done` are the places a turn task can be suspended at. A
  chat turn announces its end in its runner, a trigger in the done callback;
  `CancelledUnstarted` is the task whose coroutine never runs; `TurnDone` is
  the done callback with `_finish_resident_turn`.
- *Interjection.* `Inject` snapshots a batch, `InjectCommit` is the shielded
  task, which compares the head of the queue with its snapshot before it
  appends and acknowledges; `AbsorbCancel` is the first cancellation.
- *Interrupt.* `InterruptBegin` marks the continuation and closes the
  transcript, `InterruptCancel` cancels the task after its awaits, looking it up
  by id. `aim` remembers which admission the interrupt was requested for.

Abstractions, all of them on purpose:

- `active_turn_id` is folded into the scheduler's owner; the two are assigned
  together.
- An interjection batch is compared by message id where the code compares
  envelope identity; with redelivery this allows more than the code does.
- Appending the injected messages and acknowledging them is one step: the
  append is synchronous.
- A status query that delivers a package completion is seen when the
  completion's event is handled (`dropped`). Each trigger fires once;
  coalescing of due triggers is not modelled.
- One injection point per tool round; `MaxRounds` bounds the rounds, `MaxTriggers`
  the triggers that fire.
- The shutdown's join waits for all interrupt tasks (its barrier keeps new ones
  from being aimed at new turns), and the pump may stop between any two passes
  once the shutdown has begun.
- Ticket expiry lives in `CompactionGate`; in `ResidentTurns` a ticket is a
  phase and its barrier one name.
- Not in this module: side conversations and the model switch (they have modules
  of their own), the synchronous
  `process_channel_turn` and `run_turn_continuation` entry points that the
  resident process does not use, the reset's confirmation dialogue, the busy
  notice (unreachable with one serial pump), history-root compaction runs,
  reply delivery.

### CompactionGate

One scope, as in the runtime. `late` is the set of operations whose deadline
has passed; it grows at any time. Several holders can be alive because a sweep
does not stop the one it sweeps. The phases READY and RELEASED are never stored
by the code. `compaction_gate_active` does not look at deadlines, so an expired
ticket keeps admission closed until somebody claims or the holder releases.

### ModelSwitch

The draft of a scope, its buttons, its expiry, replacement and invalidation, and
the think handler from its first check to its finally clause. Each await is a
point between two actions, so a second press, a cancel, an endpoint refresh, a
manual compaction or a foreign settings write can happen at any of them. The
module extends `CompactionGate` and takes its actions as steps; `UsesGate` says
that whatever the switch does to the gate is a step of `CompactionGate`. A
deadline passes only while a ticket is held; a cancel hits whatever ticket the
gate holds, as `cancel_compaction` does. `MaxChanges` bounds refreshes and
foreign writes together. Panels and replies are left out.

### SideTurns

One slot; `place` is where the task of a turn is suspended, `cleaning` the
shielded `finish_transient_turn`, `callback` the time between the task's end and
its done callback. A closer that awaits a finished task goes on at once, before
that callback has run, which is a window the invariant `SideSlotSafe` has to
live with. What the turn's model does is an unbounded wait. The runner writes
the status of a turn whose cleanup swallowed a cancellation (`caught`) when its
task ends; a lease release that raises in the callback overwrites it with
"failed". `CancelledNeverSucceeds` follows the turn to both ends: the task ends
as interrupted, and nobody sees a success.

### PackageCompletions

The job's thread, the tool call that waits for it, the source's five sets, the
drain, the handler, the completion turn, and the status read whose result counts
only once it was delivered completely. A turn may be interrupted when its task
has not yet made its first step. The chat turn executes one tool call at a time.
Every job has the control scope of the turn that started it, and a chat turn
runs in one. A status read stages what it consumes together with its own scope,
and its delivery takes the news back only where the scopes agree: a complete
delivery elsewhere leaves the completion turn to come, as the `other_scope` case
of `tests/test_package_completion_delivery.py` requires. `NoEcho` and
`CompletionReachesPal` are about what was told in the job's scope.

### ResidentJournal

`base` and `log` are what a running process sees, `baseDisk` and `logDisk` the
sets of contents the medium may hold after a power loss: a write adds to the
set, an fsync (of the file, and of the directory for a replace or an unlink)
collapses it. The journal file exists exactly if it is non-empty or torn. `job`
is the save that holds the writer's lock, one action per system call; each call
can fail, and the cursor follows the code's order of assignments, `_uncertain`
and the truncation at `tail_offset` included. A snapshot is a set of items and a
record the difference of two; encryption and reference leases are data.

A reset of a writer whose restore was refused is two steps: the checkpoint's
base is staged and published, then the journal nobody could read is retired.

`SyncDirectory` is `_fsync_directory` (`checkpoint.py:166-174`), which all three
directory syncs go through (after the replace, after the unlink, after the first
append to a new journal): it syncs, it raises, or, when the directory cannot be
opened, it returns without having synced anything. In the last case the caller
goes on and acknowledges the save; what the directory may still name instead of
the new files is kept in `olderBase` and `olderLog` until a directory sync
succeeds. A kill leaves the new files in place; only a power loss can bring an
older one back.

`spoilt` is a history variable: it is set when a stored base becomes unreadable,
or when a power loss brings an older file back, and cleared by the next save
that completes. While it is set `DurableDialogue` promises nothing about a
restart (`Spoil`), because the code does not (section 5); the refinement maps
"an older file may come back" to its `loose`.

### EffectOutbox and RoleAssignments

One action per database transaction. The claimant's name is a constant of the
manager, so "locked by me" does not tell tasks apart. An exception and the
settlement its handler makes without an await are one step. Lock expiry under a
live task is `MaxStalls`. The states that supersede an effect are collapsed to
"frozen" and "triage"; "over" is an aggregate that has ended together with its
workflow, for which `_failed_effect_triage_action` has no action, so that a final
failure there stays without triage. Tasks take the lowest free slot, because
slots cannot be told apart.

In `RoleAssignments` one assignment of one session runs through its attempts. It
belongs to a DAG node; those of other aggregates carry no business lease and are
not deferred by claim and start when their aggregate moves on
(`storage/role_assignments.py:20`).
The business lease of the aggregate and the exceptions of the single stages are
folded into `Fault`; the release that follows a retry is one step with it, a
restart of the manager follows its exit at once, and `GracefulStop` is the
restart that waits for a safe point.

### WorkflowControl

The transition tables of `machines.py` for the execution phase, the node cycle
beside each node, the operator's commands, and one action per effect handler,
each ending with the reconciliation. Two pending effects of one type on one
aggregate count as one; the semantic effects of an aggregate that has moved on
become one `Overtaken` effect, because all their handlers do is find that out;
the eight attempts of an effect are one that may be repeated and one that fails
for good. Effects run in any order. What a crash does to a claimed effect is the
subject of `EffectOutbox`; here a crash only separates the creation of a
replacement workflow from the transition of its source. Left out: blocked and
unknown verdicts, orphan triage, the architecture phase, replanning, dependency
repair, direct and null execution, leases.

## 3. Runs

| Run | Instance | Distinct states | Shows |
|---|---|---|---|
| `core_scheduler` | 2 turns, 2 barriers, 3 generations, symmetric | 4 431 | `SchedulerSound`, `OnlyTeardownReleases`, refinement of `ResidentSlot` |
| `resident_turns` | 2 messages, one of a completion and a proactive trigger, 1 control of interrupt, reset, SIGTERM, symmetric | 2 348 845 | `SoleResident`, `NothingLeftOpen`, `ShutdownFinal`, refinement of `MessageLedger` |
| `resident_liveness` | 1 message delivered twice, 1 completion, 1 control of interrupt, reset, compact, 1 dream | 246 792 | `OneWriter`, `InterruptAimed`, `NoLostWakeup`, `ServesEveryone`, `EverythingEnds` |
| `compaction_gate` | 3 claims | 16 841 | `GateSound`, `SuccessorSafe`, `InstallsAreCurrent`, `GateNeverPinned` |
| `model_switch` | 1 scope, 2 endpoints, 2 handlers, 2 drafts, 2 claims, 1 refresh or foreign write, symmetric | 1 911 024 | `DraftsHonoured`, `UsesGate`, `SwitchSeesWhatUserSaw` |
| `side_turns` | 3 side turns, a reset and a shutdown | 20 664 | `SideSlotSafe`, `CancelledNeverSucceeds`, `CancellationsEnd` |
| `packages` | 2 jobs, 5 chat turns, 2 control scopes | 186 660 | `NewsKept`, `NoEcho`, `CompletionReachesPal` |
| `journal` | 2 items, 2 programs, 3 sequence numbers, 1 failing call, 2 losses, 1 unreadable base | 4 862 621 | `Recoverable`, `RefusedKeepsFiles`, refinement of `DurableDialogue` |
| `outbox` | 2 effects, 2 tasks, 2 attempts, 1 each of crash, stall, exception, deferral, control, 4 of these together | 548 717 | `RowsTellTheTruth`, `EffectsSettle`, refinement of `EffectContract` |
| `roles` | 3 attempts, 2 manager exits, 3 faults, 1 stall | 563 082 | `RowsAgree`, `RecoveryIsSafe`, `AssignmentsEnd`, refinement of `RoleContract` |
| `workflow_control` | 2 nodes, 2 commands, 1 fault, 1 crash | 604 250 | `EndedIsOver`, `PausedRunsNothing`, `CandidateKept` |
| `workflow_settles` | 1 node, 1 each of command, fault, resolution, rejection, crash | 52 397 | `RunningOwnsSlot`, `ControlSettles` |

*Bounds.* Two messages are the least with which one can overtake another, and a
redelivered one gives the re-admitted turn id. One control action beside each
kind of turn, and beside one dream, gives the pairs of writers; a proactive
trigger and a dream are in different instances, because together they exceed
TLC's reach. Three claims give a predecessor, the current ticket and a
successor. Two drafts and two handlers let a replaced or cancelled draft meet
the handler of its successor. Three side turns are one per slot release before
and between two closers. Two scopes are the job's own and another one; five chat
turns start two jobs and read their status in either scope before and after.
`MaxTroubles` lets any four of the five disturbances of the outbox meet in one
behaviour; each pair and triple is among them, on either effect. Two losses give
a crash during the recovery from a crash; three sequence numbers give a record
below, at and above the base's. Two attempts are the least with a retry, three
the code's limit for roles. Two nodes are a producer and the sink that consumes
it; two commands are a request made inside another one. Rejected reviews and
triage resolutions are in the instance with one node.

The single leads-to of `ControlSettles`, `EffectsSettle` and `EverythingEnds`
(something is open leads to nothing is open) says the same as one leads-to per
request, effect or turn, since inputs are bounded and their ends are final, and
is several times cheaper to check.

*Deadlock.* It is checked in `core_scheduler`, `resident_turns` and
`side_turns`. `Rest` of `ResidentTurns` is enabled only when nothing is running,
every input was dealt with and nobody sleeps behind a barrier, so a state in
which the actors wait for each other is reported. The other runs end when their
bounded inputs do, or, in `WorkflowControl`, where a workflow waits for its
operator.

*Fairness.*
- `ResidentTurns`: the event loop runs every ready coroutine: weak fairness of
  the pump, of each turn's task, of each interrupt task and of the commits. A
  turn is assumed to end and the awaits inside an interrupt to return, since
  providers and tools have time limits of their own; dreaming is left by its own
  finally clause. Nothing is assumed of input, of the start of dreaming or of
  shutdown.
- `CompactionGate`: deadlines pass and somebody claims again; nothing is assumed
  of the holders. In the runtime a `/compact` runs in the pump, so that somebody
  is a model switch or, after the engine's own deadline, the next `/compact`.
- `SideTurns`: ready tasks and callbacks run, a reply is sent or refused, the
  cleanup of tools ends. A model request may hang for ever.
- `PackageCompletions`: jobs, their callbacks, the drain and the completion turns
  run, and chat turns end.
- `EffectOutbox`: the loop comes back, its tasks run, locks and retry delays run
  out. `RoleAssignments`: likewise, worker processes end, and a lease nobody
  renews expires.
- `WorkflowControl`: the outbox loop processes pending effects. The operator owes
  nothing.

## 4. Proofs

Every theorem holds for every value of the constants under the named assumptions
of the modules: turns and effects are finite sets, messages are turns and
background turns are triggers, "no lease" and "no ticket" are not leases or
tickets, bounds are naturals, attempt limits are positive. The finiteness of
`Effects` (`OutboxAssumption`) numbers the rows by birth; that of `Turns` makes
the set of triggers drained at once a finite sequence. `ModelSwitch` assumes of
the constants it hands to the gate what the gate itself assumes. No theorem
depends on the size of a run: the bounds are constants like any other.

Each inductive invariant was first checked by TLC as an invariant of the
component's run, that of `WorkflowControl` on three smaller instances, with one
and two nodes and with resolutions, rejections and faults between them.

- `CoreSchedulerProofs`: `SchedulerSound` (type, well-formed snapshot, fencing
  generations), `OnlyTeardownReleases` and the refinement of `ResidentSlot`.
- `ResidentTurnsProofs`, in two layers. The first, `Inv`, gives `TypeOK`,
  `SoleResident`, `NothingLeftOpen`, `MessagesConserved` and
  the refinement of `MessageLedger`:
  - `SlotPart`: the slot and the tasks agree, *and* a coroutine that has not
    exited is in `turn_scopes`, and a trigger's scope and continuation come and
    go together. Without the second half a done callback could not be shown to
    clean up what the runner left behind.
  - `RecordPart`: a transcript is open only under a published continuation, and
    the event balance of a turn is 1 exactly while `Announced`. This says which
    of the two announcers is still to come.
  - `PumpPart`: the pump's place with what it relies on (a subject at
    "ingress", a non-empty queue at "prep", which the lock protects).
  - `FlowPart`: `accepted = consumed \o pending`, carried by showing first that
    each step is a step of the ledger and then that the ledger conserves.
    `AdmittedLemma` shows that the start whose result
    `_schedule_admitted_channel_turn_async` ignores cannot fail.
  - `RestPart`, `DroppedPart`: types of the remaining variables.

  The second layer rests on one lemma, `StartsLemma`: a turn is admitted only
  over an empty slot, a free gate and *no* barrier. It gives
  - `ShutdownFinal`, from `ShutdownPart` (the shutdown's barrier stays up);
  - `OneWriter`, from `WriterPart`: a ticket is held only where the pump awaits a
    compaction; compaction and the clearing of a reset run over an empty slot;
    the drained event a *waiting* reset sees is true (it may be false anywhere
    else, because `ResetEnd` sets it over a turn that never drained); nothing of
    this coexists with maintenance;
  - `InterruptAimed`, from `AimPart`: an interrupt in flight is the one the pump
    awaits, or the process is shutting down; in both cases nobody can be admitted
    under the same id until it has cancelled;
  - `NoLostWakeup`, from `WakePart`: with the flag down the mailbox is empty, a
    pump at "idle" has an empty queue, and at "next" and "pop" the pump has not
    looked past a message or trigger that could start. The core is `DrainWake`
    (a drain that queues nothing over a free slot leaves no trigger behind) and
    `QueueWake` (a head that may start is started).
- `ModelSwitchProofs`, first about the gate alone: `GateSound` (type, barrier
  mirrors ticket, no gate without a holder), `SuccessorSafe`,
  `InstallsAreCurrent`. `GatePart` relates the stored ticket to the newest claim
  and to its holder's place. These theorems are about `GateSpec`, the
  specification of `CompactionGate`.
  Then about the switch, which reuses the gate's invariant and step lemma:
  `UsesGate` (every step is a gate step or leaves the gate alone), the gate's
  soundness inside the switch, `DraftsHonoured` and `SwitchSeesWhatUserSaw`.
  `HandlerPart` ties the place of a handler to the place of the claim's coroutine
  and gives each claim one handler; `DraftPart` says that a pending draft is
  neither withdrawn nor applied; `TurnPart` that turns and the gate exclude each
  other.
- `SideWorkProofs`, first about `SideTurns`: `SideSlotSafe` and
  `CancelledNeverSucceeds`. What a closer relies on is not inductive, because it
  goes on when the task it awaits is done whatever the slot says by then;
  `WaitPart` adds that the awaited task is the only one that can still be alive.
  `CancelledNeverSucceeds` is carried by `Doomed(t)`: from the moment a
  cancellation is on its way to a live turn it is undelivered, remembered by the
  cleanup, or visible in the result, and every step keeps one of the three.
  Then about `PackageCompletions` and its specification `PackageSpec`, which
  shares no variable with the side turns: `NewsKept` and `NoEcho`. The
  invariant spells out that each job passes thread, notification, drain and turn
  once, and (`NewsTokenPart`) that a tool result in flight has staged, under its
  scope, what its delivery will consume.
- `RoleAssignmentsProofs`: `RowsAgree`, `RecoveryIsSafe` and the refinement of
  `RoleContract`. `RowInv` says what the rows imply of each other and survives
  every exit; `SupPart` says what the supervising task may conclude from its own
  place, in particular that at "top" a running row no longer holds its lease.
  Without it a recovery could take a live orphan's attempt.
- `ResidentJournalProofs`: `Recoverable`, `RefusedKeepsFiles` and the refinement
  of `DurableDialogue`. `Recoverable` speaks about what a restart would read, and
  is not inductive: whether the next system call keeps it depends on which call
  it is. The invariant says, for each place of a save, what every content the
  medium may hold replays to:
  - `FilesPart`, `JobPart`, `CursorPart`: what the process sees is among what the
    medium may hold, which job may be under way, and when a save may append: the
    cursor of a writer whose last save succeeded is where base and records lead.
  - `PublishPart`, `AppendPart`: what is on the medium at each system call of a
    rebase and of an append.
  - `PairsPart`: base and journal are lost independently, so *every* pair of a
    possible base and a possible journal is readable and replays to the snapshot
    last acknowledged or to one that was attempted since.
  - `HorizonPart`: no record a loss can leave is beyond the next sequence number,
    so a new base covers all of them, whichever journal survives.

  It says nothing of `olderBase` and `olderLog`: no running process reads them,
  and the only step that takes a file from them is a power loss, which then sets
  `spoilt`. Every other step has to keep the parts above with the directory
  synced and with it left unsynced.

  It rests on lemmas about the replay: `CoveredReplay` (records at or below the
  base's sequence change nothing), `AppendReplay` (one more record applies its
  difference), `ContiguousReplay` and `ReplayReachesAll` (a journal without a gap
  is replayed to its end). They need no induction because the model defines the
  replayed value without recursion: an item is held if the last record that
  mentions it adds it.
  The refinement maps the step at which a save is acknowledged to the save of
  `DurableDialogue`, a restart to `Restart`, and most system calls to stutters.
- `EffectOutboxProofs`: `RowsTellTheTruth` and the refinement of
  `EffectContract`. `PinPart` pins an effect's request to one version, so a
  replay repeats the recorded request or is too late for good (an aggregate that is
  over has left the pinned version behind); `ClaimPart` says
  that without a stall an effect has one task whose attempt count is the row's.
- `WorkflowControlProofs`: `EndedIsOver`, `PausedRunsNothing`, `CandidateKept`
  and `RunningOwnsSlot`, for any dependency graph. The run with two nodes has no
  resolutions and the one with resolutions has a single node; the theorems cover
  both together, and rejections and crashes with them. A handler of the outbox
  reads and writes the whole repository in several stages, so the invariant is a
  formula of a repository state, `Sound(d, r)`, and the proof follows the code:
  one lemma per stage (a dispatch, a refresh of the graph, a control request, a
  confirmation), then one per handler, then one for the five stages of
  `reconcile_control_requests`. `r` says that no triage was resolved yet.
  - `NodePart`: a node and its cycle. `SlotPart` says who holds the slot, and that
    node and cycle are accepted together; `CancelPart` that only a cancelled graph
    cancels its nodes, and that all its cycles have ended or were asked to, which
    is what keeps a late resume or a restored verdict from reviving one;
    `CandidatePart` extends `CandidateKept` to the place a paused cycle will
    resume at.
  - `ParentPart`, `ChildPart`: workflow against epoch, epoch against nodes. Each
    parent's end is confirmed from its children's states, and the two parts say
    that no child leaves that state again.
  - `CheckPart`: a node is checked after those its check needs. With the
    assumption on the sink this makes an accepted sink a completed graph.
  - `EffectPart`: which effects may still be pending for an aggregate that has
    moved on. Needed because an effect of an earlier request acts on its own
    intent: a late `propagate_cancel` finds a workflow that is still being
    cancelled, a late `publish` an epoch that is still finalizing.
  - `Projected`: what only the reconciliation establishes (the graph follows the
    epoch's cancellation, a paused workflow has no busy cycle). It does not hold
    between the stages of a handler, and so is kept apart from `Sound`.

  `FailurePlaces` says at which effects a failure can end in triage at all: the
  handlers of the other effects have an outcome in every sound state, or their
  failure is retired.

*Only model-checked:*

- Liveness, which is out of the prover's reach: `EverythingEnds`,
  `ServesEveryone`, `GateNeverPinned`, `CancellationsEnd`,
  `CompletionReachesPal`, `EffectsSettle`, `AssignmentsEnd`, `ControlSettles`.

## 5. Where code and documents disagree

Met while modelling; each is an exception stated in the property it touches, so
that the property says exactly what the code does.

- *Journal after a refused restore.* `journal.py:3-4`: "A new base is published
  before the journal is retired, so either side of a process loss remains
  replayable". After a restore that failed, the cursor is empty and the reset's
  base gets sequence 1 (`journal.py:186`), below the records of the journal that
  is retired only afterwards. A loss in between, or an unlink that fails, leaves
  the new base beside the old journal: a later restore replays records of the
  abandoned dialogue over it, or stops at a gap in the sequence. The proof of
  `Recoverable` failed at this step and showed it. `Recoverable` and
  `DurableDialogue` are stated for a base that was readable when the last save
  began (`~spoilt`).
- *Unsynced directory.* `journal.py:3`: "The disk cursor advances only after
  fsync". When the directory cannot be opened (`checkpoint.py:169-170`),
  `_fsync_directory` returns as if it had synced: `publish` succeeds, the cursor
  advances, the journal is retired, the save is acknowledged. A power loss may
  then bring back the old base, with or without its journal, and so a dialogue
  older than the last acknowledged one. Nothing is lost to a kill, nor to a power
  loss after a later directory sync. `Recoverable` speaks of the files a kill
  leaves and of those a power loss leaves unless it takes the unsynced operation
  back; `DurableDialogue` has `loose` for it.
- *Deferral after a takeover.* `outbox_results.py:143`: a deferral returns the
  effect "without spending a retry attempt". A takeover of an expired lock does
  not count an attempt, so at the limit the deferral gives nothing back
  (`:164`), and a pending row at its limit is never claimed
  (`outbox_claims.py:26`). `EffectsSettle` excepts `Stranded(e)`.
- *Failure without triage.* `orchestration.py:216`: "Errors must remain
  retryable/triaged". A task whose lock expired decides with the attempt count
  it was claimed with (`:268`), so the last failure may be recorded without
  triage; and there is no triage to enter once aggregate and workflow have ended
  (`:2041`). `FailureIsTriaged` excepts stalls and aggregates that are over.
- *Failures and process shells.* `assignment_rules.py:22`: "Count failures, not
  process shells". A failure between the claim of the lease and the start of the
  attempt (`attempt_admission.py:36`) leaves a lease of 120 seconds that the
  retry (`assignment_retries.py:38`) does not know; the retries that run into it
  are charged and may use the budget up.
- *Package completion that is skipped.* `jobs.py:60`: "Completion will be
  delivered to Pal". If its turn is cancelled before its first step, the finally
  clause (`notifications.py:213`) never clears the claim.
  `CompletionReachesPal` excepts `Skipped(j)`.
- *Late pause effects.* `tests/test_bunshin_public.py:3929` says a replayed
  pause effect cannot stop a resumed worker, which holds of the effect it tests;
  the epoch's pause effect (`orchestration.py:1944`) processed after the resume
  still stops the roles of a resumed workflow. `EndedIsOver` and `ControlSettles`
  are stated so that this is allowed.
- *Triage resolved under a pause.* The repository's own specification
  (`spec/bunshin/OrchestrationLifecycle.tla:91-95`) starts a node only if the
  desired control is "Run"; a resolution under a pause (`service.py:1283`,
  `node_admission.py:84`) starts a role. `PausedRunsNothing` is stated without
  resolutions.
- *Overwritten cursor.* `spec/bunshin/ProduceCheckCycle.tla:152-154` resumes
  triage at an assignment boundary, and `workflow_runtime.py:908-909` avoids
  "Nesting another pause"; the converse nesting, triage under a pause,
  overwrites the cursor (`cycle_protocol.py:641`). `CandidateKept` is stated
  without resolutions.

## 6. Plan

Every safety property of the runs is proved; what is left is breadth.

1. *Channel runtime*: endpoint hub reducer, buffering during transitions,
   retries, backlog and reply waiters; abstract specification: a reply is
   resolved exactly once.
2. *History root*: compaction runs over the left segment, stamps and terminal
   runs (`memory/history_root.py`), composed with the gate.
3. *Turn executor*: tool rounds, retries and budgets of a turn program.
4. *Bunshin*: architecture phase, replanning and dependency repair as further
   tables of `WorkflowControl`; the life cycle of the manager; several
   assignments of one session.
5. *Leases and sidecars*, *file state*, *cache admission*, *plugin reload*, the
   proactive schedule with coalescing.

## 7. Not modelled

Provider protocols, tool execution, prompt construction, rendering, command
parsing, storage formats, terminal and web front ends: they are I/O or data
whose correctness is not a matter of order. The other components without a
module are in the plan above; `PROJECT.json` lists each with its reason.
