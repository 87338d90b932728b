---------------------------- MODULE EffectOutbox ----------------------------
(***************************************************************************)
(* The durable effect outbox of the Bunshin manager: effects are inserted  *)
(* by the transaction that changes an aggregate, claimed under a timed lock *)
(* by a background task, executed, and settled by completion, retry,        *)
(* deferral or failure.  Every database transaction is one action; what the *)
(* event loop runs without an await is one action too, so an exception and  *)
(* the settlement its handler makes are a single step.                      *)
(*                                                                          *)
(* The claimant's name is a constant of the manager ("bunshin-v2-outbox"),  *)
(* so "locked by this worker" is "inflight": the check does not tell the    *)
(* tasks of one manager apart, nor those of two successive managers.        *)
(***************************************************************************)
EXTENDS Naturals, Sequences, FiniteSets

CONSTANTS
    Effects,       \* outbox rows, by effect_id
    Slots,         \* background tasks the manager may run at once, numbered
    MaxAttempts,   \* max_attempts of an effect draft
    MaxCrashes,    \* bound: manager exits (crash, or stop_background)
    MaxStalls,     \* bound: locks that expire under a running task
    MaxFaults,     \* bound: executions that raise
    MaxDefers,     \* bound: executions that raise DeferredEffectError
    MaxControls,   \* bound: pauses, resumes, triage resolutions and ends
    MaxTroubles    \* bound: all of these together

ASSUME OutboxAssumption ==
    /\ IsFiniteSet(Effects) /\ Slots \subseteq Nat
    /\ MaxAttempts \in Nat \ {0}
    /\ {MaxCrashes, MaxStalls, MaxFaults, MaxDefers, MaxControls,
        MaxTroubles} \subseteq Nat

VARIABLES
    outbox,    \* outbox[e]: the row of bunshin_v2_outbox
    tries,     \* tries[e]: the statuses of e's bunshin_v2_effect_attempts
    receipts,  \* effects with a row in bunshin_v2_effect_receipts
    agg,       \* the snapshot of the aggregate the effects belong to
    dedup,     \* dedup[e]: expected version recorded with e's action, 0 if none
    applied,   \* applied[e]: how often e's action changed the aggregate
    tasks,     \* tasks[s]: the background task in slot s
    triaged,   \* effects whose ENTER_TRIAGE action was dispatched
    faults,    \* faults[e]: executions of e that raised by themselves
    spent      \* how much of each bound is used

vars == <<outbox, tries, receipts, agg, dedup, applied, tasks, triaged, faults,
          spent>>

Statuses == {"absent", "pending", "inflight", "completed", "failed"}
Tries == {"running", "lost", "completed", "retryable", "failed", "deferred"}
AggStates == {"live", "frozen", "triage", "over"}
NoTask == [effect |-> "none"]

Task == [effect: Effects, attempts: 0..MaxAttempts, incremented: BOOLEAN,
         pc: {"execute", "settle"}, beat: BOOLEAN]

TypeOK ==
    /\ outbox \in [Effects -> [status: Statuses, attempts: 0..MaxAttempts,
                               lock: {"free", "live", "expired"}, due: BOOLEAN,
                               pin: Nat, born: 0..Cardinality(Effects)]]
    /\ tries \in [Effects -> Seq(Tries)]
    /\ receipts \subseteq Effects
    /\ agg \in [state: AggStates, version: Nat]
    /\ dedup \in [Effects -> Nat]
    /\ applied \in [Effects -> Nat]
    /\ tasks \in [Slots -> Task \union {NoTask}]
    /\ triaged \subseteq Effects
    /\ faults \in [Effects -> 0..MaxFaults]
    /\ spent \in [crashes: 0..MaxCrashes, stalls: 0..MaxStalls,
                  faults: 0..MaxFaults, defers: 0..MaxDefers,
                  controls: 0..MaxControls]

Init ==
    /\ outbox = [e \in Effects |-> [status |-> "absent", attempts |-> 0,
                                    lock |-> "free", due |-> FALSE, pin |-> 0,
                                    born |-> 0]]
    /\ tries = [e \in Effects |-> <<>>]
    /\ receipts = {}
    /\ agg = [state |-> "live", version |-> 1]
    /\ dedup = [e \in Effects |-> 0]
    /\ applied = [e \in Effects |-> 0]
    /\ tasks = [s \in Slots |-> NoTask]
    /\ triaged = {}
    /\ faults = [e \in Effects |-> 0]
    /\ spent = [crashes |-> 0, stalls |-> 0, faults |-> 0, defers |-> 0,
                controls |-> 0]

Busy(s) == tasks[s] # NoTask
Inflight(e) == outbox[e].status = "inflight"
Spend(what, bound) ==
    /\ spent[what] < bound
    /\ spent.crashes + spent.stalls + spent.faults + spent.defers + spent.controls
           < MaxTroubles
    /\ spent' = [spent EXCEPT ![what] = @ + 1]

\* dispatch: a business action commits its snapshot and inserts its effect,
\* pinned to the version the causative event gave the aggregate.
Emit(e) ==
    /\ outbox[e].status = "absent"
    /\ agg.state = "live"
    /\ agg' = [agg EXCEPT !.version = @ + 1]
    /\ outbox' = [outbox EXCEPT ![e] =
           [status |-> "pending", attempts |-> 0, lock |-> "free", due |-> TRUE,
            pin |-> agg.version + 1,
            born |-> Cardinality({f \in Effects : outbox[f].status # "absent"})]]
    /\ UNCHANGED <<tries, receipts, dedup, applied, tasks, triaged, faults, spent>>

\* Pause, cancellation and staleness; resume; resolution of a triage; the end
\* of the aggregate and its workflow, which supersedes no effect.
Control ==
    /\ Spend("controls", MaxControls)
    /\ agg.state # "over"
    /\ \E to \in IF agg.state = "live" THEN {"frozen", "over"} ELSE {"live"} :
          agg' = [state |-> to, version |-> agg.version + 1]
    /\ UNCHANGED <<outbox, tries, receipts, dedup, applied, tasks, triaged, faults>>

-----------------------------------------------------------------------------
(* Claims.                                                                  *)

\* Mutant: only pending rows are claimed.
ClaimableMutant(e) ==
    /\ outbox[e].due
    /\ outbox[e].status = "pending" /\ outbox[e].attempts < MaxAttempts

Claimable(e) ==
    /\ outbox[e].due
    /\ \/ outbox[e].status = "pending" /\ outbox[e].attempts < MaxAttempts
       \/ Inflight(e) /\ outbox[e].lock = "expired"

\* The claimed row: only a pending one spends an attempt.
ClaimedRow(row) ==
    [row EXCEPT !.status = "inflight", !.lock = "live",
                !.attempts = IF row.status = "pending" THEN @ + 1 ELSE @]

\* Taking over an expired claim marks its running attempt lost.
ClaimedTries(e) ==
    Append([i \in DOMAIN tries[e] |->
               IF Inflight(e) /\ tries[e][i] = "running" THEN "lost" ELSE tries[e][i]],
           "running")

\* The oldest claimable rows, as many as there are free tasks; the free slots
\* are filled in order, since nothing tells two of them apart.
Batch(room) ==
    LET queue == {e \in Effects : Claimable(e)}
        Ahead(e) == {f \in queue : outbox[f].born < outbox[e].born}
    IN  {e \in queue : Cardinality(Ahead(e)) < room}

StartAvailable ==
    LET free == {s \in Slots : ~Busy(s)}
        batch == Batch(Cardinality(free))
    IN  /\ batch # {}
        /\ \E place \in [batch -> free] :
             /\ \A e, f \in batch : e # f => place[e] # place[f]
             /\ \A e \in batch, s \in free : s < place[e] => \E f \in batch : place[f] = s
             /\ tasks' = [s \in Slots |->
                    IF \E e \in batch : place[e] = s
                    THEN LET e == CHOOSE e \in batch : place[e] = s
                         IN  [effect |-> e, attempts |-> ClaimedRow(outbox[e]).attempts,
                              incremented |-> outbox[e].status = "pending",
                              pc |-> "execute", beat |-> TRUE]
                    ELSE tasks[s]]
        /\ outbox' = [e \in Effects |->
               IF e \in batch THEN ClaimedRow(outbox[e]) ELSE outbox[e]]
        /\ tries' = [e \in Effects |->
               IF e \in batch THEN ClaimedTries(e) ELSE tries[e]]
        /\ UNCHANGED <<receipts, agg, dedup, applied, triaged, faults, spent>>

\* _heartbeat: renew the claim; a conflict ends the heartbeat, not its task.
Heartbeat(s) ==
    LET e == tasks[s].effect IN
    /\ Busy(s) /\ tasks[s].beat
    /\ IF Inflight(e)
       THEN /\ outbox' = [outbox EXCEPT ![e].lock = "live"]
            /\ UNCHANGED tasks
       ELSE /\ tasks' = [tasks EXCEPT ![s].beat = FALSE]
            /\ UNCHANGED outbox
    /\ UNCHANGED <<tries, receipts, agg, dedup, applied, triaged, faults, spent>>

Beating(e) == \E s \in Slots : Busy(s) /\ tasks[s].effect = e /\ tasks[s].beat

\* locked_until passes.  With a live heartbeat that takes a stalled event
\* loop or a suspended host, which MaxStalls bounds.
Expire(e) ==
    /\ Inflight(e) /\ outbox[e].lock = "live"
    /\ IF Beating(e) THEN Spend("stalls", MaxStalls) ELSE UNCHANGED spent
    /\ outbox' = [outbox EXCEPT ![e].lock = "expired"]
    /\ UNCHANGED <<tries, receipts, agg, dedup, applied, tasks, triaged, faults>>

\* next_retry_at passes.
RetryDue(e) ==
    /\ outbox[e].status = "pending" /\ ~outbox[e].due
    /\ outbox' = [outbox EXCEPT ![e].due = TRUE]
    /\ UNCHANGED <<tries, receipts, agg, dedup, applied, tasks, triaged, faults, spent>>

-----------------------------------------------------------------------------
(* Settlement.  Each of the four transactions first requires the claim, and *)
(* raises LeaseConflict otherwise: the row keeps its state.                 *)

\* finish_effect_attempt_locked: the newest running attempt gets the status.
Finish(e, status) ==
    tries' = [tries EXCEPT ![e] =
                 [i \in DOMAIN @ |-> IF i = Len(@) /\ @[i] = "running"
                                     THEN status ELSE @[i]]]

SettleRow(e, status, attempts, due) ==
    outbox' = [outbox EXCEPT ![e] = [@ EXCEPT !.status = status, !.lock = "free",
                                     !.attempts = attempts, !.due = due]]

\* Mutant: a completion without a claim check.
CompleteEffectMutant(e) ==
    IF e \notin receipts
    THEN /\ receipts' = receipts \union {e}
         /\ SettleRow(e, "completed", outbox[e].attempts, TRUE)
         /\ Finish(e, "completed")
    ELSE UNCHANGED <<receipts, outbox, tries>>

\* complete_outbox_effect.  A receipt makes the second completion a no-op.
CompleteEffect(e) ==
    IF e \notin receipts /\ Inflight(e)
    THEN /\ receipts' = receipts \union {e}
         /\ SettleRow(e, "completed", outbox[e].attempts, TRUE)
         /\ Finish(e, "completed")
    ELSE UNCHANGED <<receipts, outbox, tries>>

\* dispatch of ENTER_TRIAGE inside the failing transaction, unless neither the
\* aggregate nor its workflow has that transition any more.
EnterTriage(e) ==
    IF agg.state = "over" THEN UNCHANGED <<triaged, agg>>
    ELSE /\ triaged' = triaged \union {e}
         /\ agg' = [state |-> "triage", version |-> agg.version + 1]

\* fail_outbox_effect, for an error that replay cannot repair.
FailEffect(e) ==
    IF Inflight(e)
    THEN /\ SettleRow(e, "failed", outbox[e].attempts, TRUE)
         /\ Finish(e, "failed")
         /\ EnterTriage(e)
    ELSE UNCHANGED <<outbox, tries, triaged, agg>>

\* retry_outbox_effect.  The row decides whether attempts are exhausted; the
\* claim the task carries decides whether a triage action is supplied.
RetryEffect(e, claimed) ==
    LET exhausted == outbox[e].attempts >= MaxAttempts IN
    IF ~Inflight(e)
    THEN UNCHANGED <<outbox, tries, triaged, agg>>
    ELSE /\ SettleRow(e, IF exhausted THEN "failed" ELSE "pending",
                      outbox[e].attempts, exhausted)
         /\ Finish(e, IF exhausted THEN "failed" ELSE "retryable")
         /\ IF exhausted /\ claimed >= MaxAttempts
            THEN EnterTriage(e)
            ELSE UNCHANGED <<triaged, agg>>

\* defer_outbox_effect: back to the queue, returning the attempt its own
\* claim spent.
DeferEffect(e, incremented) ==
    IF Inflight(e)
    THEN /\ SettleRow(e, "pending",
                      IF incremented /\ outbox[e].attempts > 0
                      THEN outbox[e].attempts - 1 ELSE outbox[e].attempts,
                      TRUE)
         /\ Finish(e, "deferred")
    ELSE UNCHANGED <<outbox, tries>>

-----------------------------------------------------------------------------
(* _process_effect.                                                         *)

End(s) == tasks' = [tasks EXCEPT ![s] = NoTask]

\* PAUSED, CANCELLED, STALE and the requested forms; TRIAGE_REQUIRED.
Superseded == agg.state \in {"frozen", "triage"}

\* `except Exception': retire a superseded effect, else fail or retry it.
HandleError(s, permanent) ==
    LET e == tasks[s].effect IN
    /\ End(s)
    /\ IF Superseded
       THEN CompleteEffect(e) /\ UNCHANGED <<triaged, agg>>
       ELSE /\ IF permanent THEN FailEffect(e) ELSE RetryEffect(e, tasks[s].attempts)
            /\ UNCHANGED receipts

\* Mutant: the replayed action expects the version it reads, not the event's.
ExpectedMutant(e) == agg.version

\* The effect's own action, with the causative event's version as
\* expected_version and the effect as idempotency key.
Expected(e) == outbox[e].pin
Duplicate(e) == dedup[e] # 0
SameRequest(e) == dedup[e] = Expected(e)
Legal(e) == agg.state = "live" /\ agg.version = Expected(e)

\* dispatch accepts the action: for the first time, or as a duplicate.
Execute(s) ==
    LET e == tasks[s].effect IN
    /\ Busy(s) /\ tasks[s].pc = "execute"
    /\ IF Duplicate(e)
       THEN SameRequest(e) /\ UNCHANGED <<agg, dedup, applied>>
       ELSE /\ Legal(e)
            /\ agg' = [agg EXCEPT !.version = @ + 1]
            /\ dedup' = [dedup EXCEPT ![e] = Expected(e)]
            /\ applied' = [applied EXCEPT ![e] = @ + 1]
    /\ tasks' = [tasks EXCEPT ![s].pc = "settle"]
    /\ UNCHANGED <<outbox, tries, receipts, triaged, faults, spent>>

\* dispatch refuses it: unknown transition, version conflict, or an
\* idempotency key reused for a different request.
Refused(s) ==
    LET e == tasks[s].effect IN
    /\ Busy(s) /\ tasks[s].pc = "execute"
    /\ IF Duplicate(e) THEN ~SameRequest(e) ELSE ~Legal(e)
    /\ HandleError(s, FALSE)
    /\ UNCHANGED <<dedup, applied, faults, spent>>

\* The handler raises for a reason of its own, before its action or, in the
\* reconciliation that follows, after it.
Fault(s, permanent) ==
    /\ Busy(s)
    /\ permanent => tasks[s].pc = "execute"
    /\ Spend("faults", MaxFaults)
    /\ faults' = [faults EXCEPT ![tasks[s].effect] = @ + 1]
    /\ HandleError(s, permanent)
    /\ UNCHANGED <<dedup, applied>>

\* A LeaseConflict from the completion is handled by the same clause, whose
\* own settlement then raises it again: the task ends and the row stays.
Settle(s) ==
    /\ Busy(s) /\ tasks[s].pc = "settle"
    /\ CompleteEffect(tasks[s].effect)
    /\ End(s)
    /\ UNCHANGED <<agg, dedup, applied, triaged, faults, spent>>

\* DeferredEffectError: a durable safe point, a stopping supervisor, a
\* retired or frozen incarnation.
Defer(s) ==
    /\ Busy(s) /\ tasks[s].pc = "execute"
    /\ Spend("defers", MaxDefers)
    /\ DeferEffect(tasks[s].effect, tasks[s].incremented)
    /\ End(s)
    /\ UNCHANGED <<receipts, agg, dedup, applied, triaged, faults>>

\* The manager dies, or stop_background cancels its tasks: CancelledError is
\* no Exception, so nothing is settled and the claims run out by themselves.
Crash ==
    /\ \E s \in Slots : Busy(s)
    /\ Spend("crashes", MaxCrashes)
    /\ tasks' = [s \in Slots |-> NoTask]
    /\ UNCHANGED <<outbox, tries, receipts, agg, dedup, applied, triaged, faults>>

TaskStep(s) ==
    \/ Execute(s)
    \/ Refused(s)
    \/ Settle(s)

Next ==
    \/ \E e \in Effects : Emit(e) \/ Expire(e) \/ RetryDue(e)
    \/ StartAvailable
    \/ \E s \in Slots : TaskStep(s) \/ Heartbeat(s) \/ Defer(s)
    \/ \E s \in Slots, permanent \in BOOLEAN : Fault(s, permanent)
    \/ Control
    \/ Crash

Spec == Init /\ [][Next]_vars

\* The outbox loop ticks every quarter second, tasks run, and time passes:
\* an unrenewed lock and a retry delay run out.
Fairness ==
    /\ WF_vars(StartAvailable)
    /\ \A s \in Slots : WF_vars(TaskStep(s))
    /\ \A e \in Effects : WF_vars(Expire(e) /\ ~Beating(e)) /\ WF_vars(RetryDue(e))

FairSpec == Spec /\ Fairness

-----------------------------------------------------------------------------
(* Properties.                                                              *)

\* Exactly the newest attempt of an inflight effect is running, and no other
\* attempt ever stays running: so finish_effect_attempt_locked always finds
\* the row it closes, across takeovers, crashes and concurrent tasks.
AttemptLedger ==
    \A e \in Effects :
        {i \in DOMAIN tries[e] : tries[e][i] = "running"}
            = IF Inflight(e) THEN {Len(tries[e])} ELSE {}

\* Replay after a crash or a takeover never costs an effect its success: an
\* effect whose action was applied is reported failed only if some execution
\* of it raised by itself.  This is what pinning the replayed request to the
\* causative event's version is for.
ReplayNeverFails ==
    \A e \in Effects :
        outbox[e].status = "failed" /\ applied[e] > 0 => faults[e] > 0

\* "Errors must remain retryable/triaged": an effect that failed for good has
\* sent its aggregate, or its workflow, to triage, through crashes, takeovers
\* and retries.  A task that lost its claim to a stall counts fewer attempts
\* than the row does, and may exhaust the row without a triage; and an
\* aggregate that is over has none to enter.
FailureIsTriaged ==
    \A e \in Effects : outbox[e].status = "failed" =>
        e \in triaged \/ spent.stalls > 0 \/ agg.state = "over"

\* What the rows say of an effect is what happened to it.
RowsTellTheTruth == TypeOK /\ AttemptLedger /\ ReplayNeverFails /\ FailureIsTriaged

\* The outbox keeps the contract of its effects: applied at most once,
\* settled at most once, completed only when applied or overtaken.
Contract == INSTANCE EffectContract WITH
    outcome <- [e \in Effects |->
                   IF outbox[e].status \in {"pending", "inflight"} THEN "open"
                   ELSE outbox[e].status],
    applied <- {e \in Effects : applied[e] > 0},
    moved <- Superseded
RefinesContract == Contract!Spec

\* A takeover spends no attempt, so its deferral returns none: the effect
\* waits in the queue with its attempts spent, where no claim finds it.
Stranded(e) == outbox[e].status = "pending" /\ outbox[e].attempts = MaxAttempts

\* Every emitted effect is eventually completed or failed, whatever crashes,
\* stalls and faults came before: claims of dead tasks are taken over.  Only a
\* deferral can strand it.
Settling == \E e \in Effects : outbox[e].status \in {"pending", "inflight"} /\ ~Stranded(e)
EffectsSettle == Settling ~> ~Settling

=============================================================================
