------------------------- MODULE EffectOutboxProofs -------------------------
(* TLAPS proofs about EffectOutbox, for any set of effects and tasks, any    *)
(* attempt limit and any number of crashes, stalls, faults and deferrals.    *)
(* Three facts carry the argument.  The request of an effect is pinned to    *)
(* one version, so a replay either repeats the recorded request or comes     *)
(* too late for good.  Only a task whose action was applied settles by       *)
(* completion.  And as long as no task has stalled past its lock, an effect  *)
(* has one task, whose count of attempts is the row's.                       *)
EXTENDS EffectOutbox, FiniteSetTheorems, TLAPS

Row == [status: Statuses, attempts: 0..MaxAttempts, lock: {"free", "live", "expired"},
        due: BOOLEAN, pin: Nat, born: 0..Cardinality(Effects)]

\* Tasks run emitted effects; past its execution a task's action is applied.
TaskPart ==
    \A s \in Slots : Busy(s) =>
        /\ outbox[tasks[s].effect].status # "absent"
        /\ tasks[s].pc = "settle" => applied[tasks[s].effect] > 0

\* An effect's request names the version its event made, and is recorded once.
PinPart ==
    \A e \in Effects :
        /\ outbox[e].status = "absent" => dedup[e] = 0
        /\ outbox[e].status # "absent" =>
              /\ 0 < outbox[e].pin /\ outbox[e].pin <= agg.version
              /\ agg.state = "over" => outbox[e].pin < agg.version
        /\ dedup[e] \in {0, outbox[e].pin}
        /\ applied[e] > 0 <=> dedup[e] # 0

\* Failed without a fault of its own: its action came too late, for ever.
FailPart ==
    \A e \in Effects : outbox[e].status = "failed" =>
        faults[e] > 0 \/ (applied[e] = 0 /\ outbox[e].pin < agg.version)

FaultPart == \A e \in Effects : faults[e] <= spent.faults

\* Without a stall an effect has one task, which beats and counts as the row.
ClaimPart ==
    spent.stalls = 0 =>
        \A s \in Slots : Busy(s) =>
            /\ Inflight(tasks[s].effect) /\ outbox[tasks[s].effect].lock = "live"
            /\ tasks[s].beat /\ tasks[s].attempts = outbox[tasks[s].effect].attempts
            /\ \A t \in Slots : Busy(t) /\ tasks[t].effect = tasks[s].effect => t = s

IInv ==
    /\ TypeOK /\ TaskPart /\ AttemptLedger /\ PinPart /\ FailPart /\ FaultPart /\ ClaimPart
    /\ FailureIsTriaged

-----------------------------------------------------------------------------
(* The operators.                                                            *)

\* Row e gets another state; its pin and the other rows stay.
RowBecomes(e, status, attempts, lock) ==
    /\ outbox' \in [Effects -> Row]
    /\ outbox'[e].status = status /\ outbox'[e].attempts = attempts /\ outbox'[e].lock = lock
    /\ outbox'[e].pin = outbox[e].pin
    /\ \A f \in Effects : f # e => outbox'[f] = outbox[f]

LEMMA SettledRow ==
    ASSUME TypeOK, NEW e \in Effects, NEW st \in Statuses, NEW n \in 0 .. MaxAttempts,
           NEW d \in BOOLEAN, SettleRow(e, st, n, d)
    PROVE  RowBecomes(e, st, n, "free")
<1> DEFINE r == [outbox[e] EXCEPT !.status = st, !.lock = "free", !.attempts = n, !.due = d]
<1>1. outbox \in [Effects -> Row]
  BY DEF TypeOK, Row
<1>2. outbox[e] \in Row
  BY <1>1
<1>3. /\ r \in Row /\ r.status = st /\ r.attempts = n /\ r.lock = "free" /\ r.pin = outbox[e].pin
  BY <1>2 DEF Row
<1>4. outbox' = [outbox EXCEPT ![e] = r]
  BY DEF SettleRow
<1> HIDE DEF r
<1> QED BY <1>1, <1>3, <1>4 DEF RowBecomes

\* The attempts of e: the newest is closed, or one more is opened.
OthersTries(e) == tries' \in [Effects -> Seq(Tries)] /\ \A f \in Effects : f # e => tries'[f] = tries[f]

Running(q) == {i \in DOMAIN q : q[i] = "running"}

LEMMA FinishedTries ==
    ASSUME TypeOK, AttemptLedger, NEW e \in Effects, Inflight(e), NEW st \in Tries, st # "running",
           Finish(e, st)
    PROVE  OthersTries(e) /\ Running(tries'[e]) = {}
<1> DEFINE q == tries[e]
           r == [i \in DOMAIN q |-> IF i = Len(q) /\ q[i] = "running" THEN st ELSE q[i]]
<1>1. tries \in [Effects -> Seq(Tries)] /\ q \in Seq(Tries)
  BY DEF TypeOK
<1>2. tries' = [tries EXCEPT ![e] = r]
  BY DEF Finish
<1>3. r \in Seq(Tries) /\ Len(r) = Len(q) /\ DOMAIN r = 1 .. Len(q)
  <2> HIDE DEF q
  <2>1. DOMAIN q = 1 .. Len(q) /\ Len(q) \in Nat /\ \A i \in 1 .. Len(q) : q[i] \in Tries
    BY <1>1
  <2>2. r \in [1 .. Len(q) -> Tries]
    BY <2>1
  <2> QED BY <2>1, <2>2
<1>4. \A i \in DOMAIN q : q[i] = "running" => i = Len(q)
  BY DEF AttemptLedger
<1>5. Running(r) = {}
  BY <1>4 DEF Running
<1> HIDE DEF q, r
<1> QED BY <1>1, <1>2, <1>3, <1>5 DEF OthersTries

(* A bound is spent: the others are left alone.                              *)
LEMMA Spent ==
    ASSUME TypeOK
    PROVE  /\ Spend("crashes", MaxCrashes) \/ Spend("defers", MaxDefers) \/ Spend("controls", MaxControls)
                => spent'.stalls = spent.stalls /\ spent'.faults = spent.faults
           /\ Spend("stalls", MaxStalls)
                => spent'.stalls = spent.stalls + 1 /\ spent'.faults = spent.faults
           /\ Spend("faults", MaxFaults)
                => spent'.stalls = spent.stalls /\ spent'.faults = spent.faults + 1
BY DEF TypeOK, Spend

LEMMA SpentType ==
    ASSUME TypeOK,
           \/ UNCHANGED spent
           \/ Spend("crashes", MaxCrashes) \/ Spend("defers", MaxDefers) \/ Spend("controls", MaxControls)
           \/ Spend("stalls", MaxStalls) \/ Spend("faults", MaxFaults)
    PROVE  spent' \in [crashes: 0..MaxCrashes, stalls: 0..MaxStalls, faults: 0..MaxFaults,
                       defers: 0..MaxDefers, controls: 0..MaxControls]
<1> DEFINE S == [crashes: 0..MaxCrashes, stalls: 0..MaxStalls, faults: 0..MaxFaults,
                 defers: 0..MaxDefers, controls: 0..MaxControls]
<1>1. spent \in S
  BY DEF TypeOK
<1>2. CASE Spend("crashes", MaxCrashes)
  <2>1. spent' = [spent EXCEPT !.crashes = @ + 1] /\ spent.crashes < MaxCrashes /\ MaxCrashes \in Nat
    BY <1>2, OutboxAssumption DEF Spend
  <2>2. spent.crashes + 1 \in 0 .. MaxCrashes
    BY <1>1, <2>1
  <2> QED BY <1>1, <2>1, <2>2
<1>3. CASE Spend("defers", MaxDefers)
  <2>1. spent' = [spent EXCEPT !.defers = @ + 1] /\ spent.defers < MaxDefers /\ MaxDefers \in Nat
    BY <1>3, OutboxAssumption DEF Spend
  <2>2. spent.defers + 1 \in 0 .. MaxDefers
    BY <1>1, <2>1
  <2> QED BY <1>1, <2>1, <2>2
<1>4. CASE Spend("controls", MaxControls)
  <2>1. spent' = [spent EXCEPT !.controls = @ + 1] /\ spent.controls < MaxControls /\ MaxControls \in Nat
    BY <1>4, OutboxAssumption DEF Spend
  <2>2. spent.controls + 1 \in 0 .. MaxControls
    BY <1>1, <2>1
  <2> QED BY <1>1, <2>1, <2>2
<1>5. CASE Spend("stalls", MaxStalls)
  <2>1. spent' = [spent EXCEPT !.stalls = @ + 1] /\ spent.stalls < MaxStalls /\ MaxStalls \in Nat
    BY <1>5, OutboxAssumption DEF Spend
  <2>2. spent.stalls + 1 \in 0 .. MaxStalls
    BY <1>1, <2>1
  <2> QED BY <1>1, <2>1, <2>2
<1>6. CASE Spend("faults", MaxFaults)
  <2>1. spent' = [spent EXCEPT !.faults = @ + 1] /\ spent.faults < MaxFaults /\ MaxFaults \in Nat
    BY <1>6, OutboxAssumption DEF Spend
  <2>2. spent.faults + 1 \in 0 .. MaxFaults
    BY <1>1, <2>1
  <2> QED BY <1>1, <2>1, <2>2
<1> QED BY <1>1, <1>2, <1>3, <1>4, <1>5, <1>6

\* The claim of e is settled: its row gets the status, no attempt runs on.
Closes(e, status) ==
    /\ Inflight(e)
    /\ \E n \in 0 .. MaxAttempts : RowBecomes(e, status, n, "free")
    /\ OthersTries(e) /\ Running(tries'[e]) = {}

LEMMA CompleteSettles ==
    ASSUME TypeOK, AttemptLedger, NEW e \in Effects, CompleteEffect(e)
    PROVE  /\ receipts' \subseteq Effects
           /\ UNCHANGED <<outbox, tries>> \/ Closes(e, "completed")
<1>1. CASE e \notin receipts /\ Inflight(e)
  <2>1. outbox[e].attempts \in 0 .. MaxAttempts /\ "completed" \in Statuses /\ "completed" \in Tries
    BY DEF TypeOK, Statuses, Tries
  <2>2. SettleRow(e, "completed", outbox[e].attempts, TRUE) /\ Finish(e, "completed")
    BY <1>1 DEF CompleteEffect
  <2>3. RowBecomes(e, "completed", outbox[e].attempts, "free")
    BY <2>1, <2>2, SettledRow
  <2>4. OthersTries(e) /\ Running(tries'[e]) = {}
    BY <1>1, <2>1, <2>2, FinishedTries
  <2> QED BY <1>1, <2>1, <2>3, <2>4 DEF Closes, CompleteEffect, TypeOK
<1>2. CASE ~(e \notin receipts /\ Inflight(e))
  BY <1>2 DEF CompleteEffect, TypeOK
<1> QED BY <1>1, <1>2

LEMMA FailSettles ==
    ASSUME TypeOK, AttemptLedger, NEW e \in Effects, FailEffect(e)
    PROVE  UNCHANGED <<outbox, tries, triaged, agg>> \/ (Closes(e, "failed") /\ EnterTriage(e))
<1>1. CASE Inflight(e)
  <2>1. outbox[e].attempts \in 0 .. MaxAttempts /\ "failed" \in Statuses /\ "failed" \in Tries
    BY DEF TypeOK, Statuses, Tries
  <2>2. SettleRow(e, "failed", outbox[e].attempts, TRUE) /\ Finish(e, "failed") /\ EnterTriage(e)
    BY <1>1 DEF FailEffect
  <2>3. RowBecomes(e, "failed", outbox[e].attempts, "free")
    BY <2>1, <2>2, SettledRow
  <2>4. OthersTries(e) /\ Running(tries'[e]) = {}
    BY <1>1, <2>1, <2>2, FinishedTries
  <2> QED BY <1>1, <2>1, <2>2, <2>3, <2>4 DEF Closes
<1>2. CASE ~Inflight(e)
  BY <1>2 DEF FailEffect
<1> QED BY <1>1, <1>2

LEMMA RetrySettles ==
    ASSUME TypeOK, AttemptLedger, NEW e \in Effects, NEW c \in 0 .. MaxAttempts, RetryEffect(e, c)
    PROVE  \/ UNCHANGED <<outbox, tries, triaged, agg>>
           \/ Closes(e, "pending") /\ UNCHANGED <<triaged, agg>>
           \/ Closes(e, "failed") /\ EnterTriage(e)
           \/ Closes(e, "failed") /\ UNCHANGED <<triaged, agg>> /\ c # outbox[e].attempts
<1> DEFINE x == outbox[e].attempts >= MaxAttempts
           st == IF x THEN "failed" ELSE "pending"
           tr == IF x THEN "failed" ELSE "retryable"
<1>1. CASE Inflight(e)
  <2>1. /\ outbox[e].attempts \in 0 .. MaxAttempts /\ st \in Statuses /\ tr \in Tries
        /\ tr # "running" /\ x \in BOOLEAN
    BY DEF TypeOK, Statuses, Tries
  <2>2. /\ SettleRow(e, st, outbox[e].attempts, x) /\ Finish(e, tr)
        /\ \/ x /\ c >= MaxAttempts /\ EnterTriage(e)
           \/ ~(x /\ c >= MaxAttempts) /\ UNCHANGED <<triaged, agg>>
    BY <1>1 DEF RetryEffect
  <2>3. RowBecomes(e, st, outbox[e].attempts, "free")
    <3> HIDE DEF st, x
    <3> QED BY <2>1, <2>2, SettledRow
  <2>4. OthersTries(e) /\ Running(tries'[e]) = {}
    <3> HIDE DEF tr
    <3> QED BY <1>1, <2>1, <2>2, FinishedTries
  <2>5. Closes(e, st)
    BY <1>1, <2>1, <2>3, <2>4 DEF Closes
  <2>6. CASE x
    <3>1. c # outbox[e].attempts \/ c >= MaxAttempts
      BY <2>6
    <3> QED BY <2>2, <2>5, <2>6, <3>1
  <2>7. CASE ~x
    BY <2>2, <2>5, <2>7
  <2> QED BY <2>6, <2>7
<1>2. CASE ~Inflight(e)
  BY <1>2 DEF RetryEffect
<1> QED BY <1>1, <1>2

LEMMA DeferSettles ==
    ASSUME TypeOK, AttemptLedger, NEW e \in Effects, NEW i \in BOOLEAN, DeferEffect(e, i)
    PROVE  UNCHANGED <<outbox, tries>> \/ Closes(e, "pending")
<1> DEFINE n == IF i /\ outbox[e].attempts > 0 THEN outbox[e].attempts - 1 ELSE outbox[e].attempts
<1>1. CASE Inflight(e)
  <2>1. outbox[e].attempts \in 0 .. MaxAttempts /\ MaxAttempts \in Nat
    BY OutboxAssumption DEF TypeOK
  <2>2. n \in 0 .. MaxAttempts /\ "pending" \in Statuses /\ "deferred" \in Tries
    BY <2>1 DEF Statuses, Tries
  <2>3. SettleRow(e, "pending", n, TRUE) /\ Finish(e, "deferred")
    BY <1>1 DEF DeferEffect
  <2> HIDE DEF n
  <2>4. RowBecomes(e, "pending", n, "free")
    BY <2>2, <2>3, SettledRow
  <2>5. OthersTries(e) /\ Running(tries'[e]) = {}
    BY <1>1, <2>2, <2>3, FinishedTries
  <2> QED BY <1>1, <2>2, <2>4, <2>5 DEF Closes
<1>2. CASE ~Inflight(e)
  BY <1>2 DEF DeferEffect
<1> QED BY <1>1, <1>2

(* The triage of an aggregate, which one that is over does not enter.        *)
LEMMA TriageEntered ==
    ASSUME TypeOK, NEW e \in Effects, EnterTriage(e) \/ UNCHANGED <<triaged, agg>>
    PROVE  /\ agg' \in [state: AggStates, version: Nat] /\ agg.version <= agg'.version
           /\ agg'.state = "over" <=> agg.state = "over"
           /\ triaged' \subseteq Effects /\ triaged \subseteq triaged'
           /\ EnterTriage(e) => e \in triaged' \/ agg'.state = "over"
<1>1. agg \in [state: AggStates, version: Nat] /\ triaged \subseteq Effects
  BY DEF TypeOK
<1>2. CASE UNCHANGED <<triaged, agg>>
  BY <1>1, <1>2 DEF EnterTriage
<1>3. CASE EnterTriage(e) /\ agg.state # "over"
  <2>1. triaged' = triaged \union {e} /\ agg' = [state |-> "triage", version |-> agg.version + 1]
    BY <1>3 DEF EnterTriage
  <2> QED BY <1>1, <1>3, <2>1 DEF AggStates
<1>4. CASE EnterTriage(e) /\ agg.state = "over"
  BY <1>1, <1>4 DEF EnterTriage
<1> QED BY <1>2, <1>3, <1>4

(* What the handler of a raised exception leaves behind.                     *)
LEMMA ErrorSettles ==
    ASSUME TypeOK, AttemptLedger, NEW s \in Slots, Busy(s), NEW p \in BOOLEAN, HandleError(s, p),
           NEW e, e = tasks[s].effect
    PROVE  /\ receipts' \subseteq Effects /\ tasks' = [tasks EXCEPT ![s] = NoTask]
           /\ \/ UNCHANGED <<outbox, tries, triaged, agg>>
              \/ Superseded /\ Closes(e, "completed") /\ UNCHANGED <<triaged, agg>>
              \/ ~Superseded /\ Closes(e, "pending") /\ UNCHANGED <<triaged, agg>>
              \/ ~Superseded /\ Closes(e, "failed") /\ EnterTriage(e)
              \/ /\ ~Superseded /\ Closes(e, "failed") /\ UNCHANGED <<triaged, agg>>
                 /\ tasks[s].attempts # outbox[e].attempts
<1>1. e \in Effects /\ tasks[s].attempts \in 0 .. MaxAttempts
  BY DEF TypeOK, Task, Busy
<1>2. CASE Superseded
  BY <1>1, <1>2, CompleteSettles DEF HandleError, End
<1>3. CASE ~Superseded /\ p
  BY <1>1, <1>3, FailSettles DEF HandleError, End, TypeOK
<1>4. CASE ~Superseded /\ ~p
  BY <1>1, <1>4, RetrySettles DEF HandleError, End, TypeOK
<1> QED BY <1>2, <1>3, <1>4

-----------------------------------------------------------------------------
(* The steps that end a task.                                                *)

\* The task in slot s ends; its effect's row is settled, or left alone.
Ends(s) ==
    /\ Busy(s) /\ tasks' = [tasks EXCEPT ![s] = NoTask]
    /\ \/ UNCHANGED <<outbox, tries>>
       \/ \E st \in {"completed", "failed", "pending"} : Closes(tasks[s].effect, st)
    /\ agg' \in [state: AggStates, version: Nat] /\ agg.version <= agg'.version
    /\ agg'.state = "over" <=> agg.state = "over"
    /\ UNCHANGED <<dedup, applied>> /\ spent'.stalls = spent.stalls

LEMMA EndsKeeps ==
    ASSUME IInv, NEW s \in Slots, Ends(s)
    PROVE  /\ outbox' \in [Effects -> Row] /\ tries' \in [Effects -> Seq(Tries)]
           /\ tasks' \in [Slots -> Task \union {NoTask}]
           /\ TaskPart' /\ AttemptLedger' /\ PinPart' /\ ClaimPart'
<1>1. PICK e \in Effects : e = tasks[s].effect
  BY DEF IInv, TypeOK, Task, Busy, Ends
<1>2. /\ tasks \in [Slots -> Task \union {NoTask}]
      /\ outbox \in [Effects -> Row] /\ tries \in [Effects -> Seq(Tries)]
  BY DEF IInv, TypeOK, Row
<1>3. tasks' \in [Slots -> Task \union {NoTask}] /\ ~Busy(s)'
      /\ \A t \in Slots : t # s => tasks'[t] = tasks[t]
  BY <1>2 DEF Ends, Busy
<1>4. outbox[e].status # "absent"
  BY <1>1 DEF IInv, TaskPart, Ends
<1> DEFINE Rewritten ==
        /\ outbox' \in [Effects -> Row] /\ tries' \in [Effects -> Seq(Tries)]
        /\ \A f \in Effects : f # e => outbox'[f] = outbox[f] /\ tries'[f] = tries[f]
        /\ outbox'[e].pin = outbox[e].pin
        /\ outbox'[e].status # "absent"
        /\ \/ outbox'[e] = outbox[e] /\ tries'[e] = tries[e]
           \/ outbox'[e].status # "inflight" /\ Running(tries'[e]) = {}
<1>5. Rewritten
  <2>1. CASE UNCHANGED <<outbox, tries>>
    BY <1>2, <1>4, <2>1
  <2>2. ASSUME NEW st \in {"completed", "failed", "pending"}, Closes(e, st)
        PROVE  Rewritten
    <3>1. PICK n \in 0 .. MaxAttempts : RowBecomes(e, st, n, "free")
      BY <2>2 DEF Closes
    <3>2. OthersTries(e) /\ Running(tries'[e]) = {}
      BY <2>2 DEF Closes
    <3>3. outbox'[e].status # "inflight" /\ outbox'[e].status # "absent"
      BY <3>1 DEF RowBecomes, Inflight
    <3> QED BY <3>1, <3>2, <3>3 DEF RowBecomes, OthersTries
  <2> QED BY <1>1, <2>1, <2>2 DEF Ends
<1>6. AttemptLedger'
  <2> SUFFICES ASSUME NEW f \in Effects
               PROVE  Running(tries'[f]) = IF Inflight(f)' THEN {Len(tries'[f])} ELSE {}
    BY DEF AttemptLedger, Running
  <2>1. Running(tries[f]) = IF Inflight(f) THEN {Len(tries[f])} ELSE {}
    BY DEF IInv, AttemptLedger, Running
  <2>2. CASE outbox'[f] = outbox[f] /\ tries'[f] = tries[f]
    BY <2>1, <2>2 DEF Inflight
  <2>3. CASE outbox'[f].status # "inflight" /\ Running(tries'[f]) = {}
    BY <2>3 DEF Inflight
  <2> QED BY <1>5, <2>2, <2>3
<1>7. PinPart'
  <2>1. /\ agg.version \in Nat /\ agg'.version \in Nat /\ agg.version <= agg'.version
        /\ agg'.state = "over" => agg.state = "over"
        /\ UNCHANGED <<dedup, applied>>
    BY DEF IInv, TypeOK, Ends
  <2>2. \A f \in Effects : outbox'[f].pin = outbox[f].pin /\ outbox[f].pin \in Nat
                           /\ (outbox'[f].status = "absent" <=> outbox[f].status = "absent")
    BY <1>2, <1>4, <1>5 DEF Row
  <2> QED BY <2>1, <2>2 DEF IInv, PinPart
<1>8. TaskPart'
  <2>1. \A t \in Slots : Busy(t)' => tasks'[t] = tasks[t] /\ Busy(t) /\ tasks[t].effect \in Effects
    BY <1>2, <1>3 DEF Busy, Task
  <2>2. applied' = applied
    BY DEF Ends
  <2> QED BY <1>5, <2>1, <2>2 DEF IInv, TaskPart
<1>9. ClaimPart'
  <2> SUFFICES ASSUME spent'.stalls = 0 PROVE ClaimPart'
    BY DEF ClaimPart
  <2>1. spent.stalls = 0
    BY DEF Ends
  <2>2. \A t \in Slots : Busy(t)' => t # s /\ tasks'[t] = tasks[t] /\ Busy(t) /\ tasks[t].effect \in Effects
    BY <1>2, <1>3 DEF Busy, Task
  <2>3. \A t \in Slots : Busy(t)' => outbox'[tasks[t].effect] = outbox[tasks[t].effect]
    <3>1. Busy(s)
      BY DEF Ends
    <3> QED BY <1>1, <1>5, <2>1, <2>2, <3>1 DEF IInv, ClaimPart
  <2> QED BY <2>1, <2>2, <2>3 DEF IInv, ClaimPart, Inflight
<1> QED BY <1>3, <1>5, <1>6, <1>7, <1>8, <1>9

(* Refusals, faults, completions and deferrals.                              *)
LEMMA RefusedStep ==
    ASSUME IInv, NEW s \in Slots, Refused(s)
    PROVE  IInv'
<1>0. PICK e \in Effects : e = tasks[s].effect
  BY DEF IInv, TypeOK, Task, Busy, Refused
<1>1. /\ receipts' \subseteq Effects /\ tasks' = [tasks EXCEPT ![s] = NoTask] /\ Busy(s)
      /\ \/ UNCHANGED <<outbox, tries, triaged, agg>>
         \/ Superseded /\ Closes(e, "completed") /\ UNCHANGED <<triaged, agg>>
         \/ ~Superseded /\ Closes(e, "pending") /\ UNCHANGED <<triaged, agg>>
         \/ ~Superseded /\ Closes(e, "failed") /\ EnterTriage(e)
         \/ /\ ~Superseded /\ Closes(e, "failed") /\ UNCHANGED <<triaged, agg>>
            /\ tasks[s].attempts # outbox[e].attempts
      /\ UNCHANGED <<dedup, applied, faults, spent>>
  BY <1>0, ErrorSettles DEF Refused, IInv
<1>2. /\ agg' \in [state: AggStates, version: Nat] /\ agg.version <= agg'.version
      /\ agg'.state = "over" <=> agg.state = "over"
      /\ triaged' \subseteq Effects /\ triaged \subseteq triaged'
      /\ EnterTriage(e) => e \in triaged' \/ agg'.state = "over"
  BY <1>1, TriageEntered DEF IInv
<1>3. Ends(s)
  BY <1>0, <1>1, <1>2 DEF Ends
<1>4. /\ outbox' \in [Effects -> Row] /\ tries' \in [Effects -> Seq(Tries)]
      /\ tasks' \in [Slots -> Task \union {NoTask}]
      /\ TaskPart' /\ AttemptLedger' /\ PinPart' /\ ClaimPart'
  BY <1>3, EndsKeeps
<1>5. TypeOK'
  BY <1>1, <1>2, <1>4 DEF IInv, TypeOK, Row
<1>6. FaultPart'
  BY <1>1 DEF IInv, FaultPart
<1>7. \A f \in Effects : f # e => outbox'[f] = outbox[f]
  BY <1>1 DEF Closes, RowBecomes
<1>8. outbox'[e].status = "failed" => outbox[e].status = "failed" \/ (Closes(e, "failed") /\ ~Superseded)
  BY <1>1 DEF Closes, RowBecomes
<1>9. FailPart'
  <2>1. agg.version \in Nat /\ agg'.version \in Nat /\ \A f \in Effects : outbox[f].pin \in Nat
    BY <1>2 DEF IInv, TypeOK
  <2>2. outbox'[e].pin = outbox[e].pin
    BY <1>1 DEF Closes, RowBecomes
  <2>3. ~Superseded => applied[e] = 0 /\ outbox[e].pin < agg.version
    <3>1. dedup[e] = 0
      BY <1>0 DEF Refused, IInv, PinPart, Duplicate, SameRequest, Expected
    <3>2. applied[e] = 0
      BY <3>1 DEF IInv, PinPart, TypeOK
    <3>3. ~Legal(e) /\ outbox[e].pin <= agg.version
      BY <1>0, <3>1 DEF Refused, Duplicate, IInv, PinPart, TaskPart
    <3>4. ~Superseded => agg.state \in {"live", "over"}
      BY DEF Superseded, IInv, TypeOK, AggStates
    <3>5. agg.state = "over" => outbox[e].pin < agg.version
      BY <1>0, <1>1 DEF IInv, PinPart, TaskPart
    <3> QED BY <2>1, <3>2, <3>3, <3>4, <3>5 DEF Legal, Expected
  <2> QED BY <1>1, <1>2, <1>7, <1>8, <2>1, <2>2, <2>3 DEF IInv, FailPart
<1>10. FailureIsTriaged'
  <2>1. spent.stalls = 0 => tasks[s].attempts = outbox[e].attempts
    BY <1>0, <1>1 DEF IInv, ClaimPart
  <2>2. outbox'[e].status = "failed" =>
           outbox[e].status = "failed" \/ e \in triaged' \/ agg'.state = "over" \/ spent.stalls # 0
    BY <1>1, <1>2, <2>1 DEF Closes, RowBecomes
  <2>3. spent.stalls \in Nat
    BY DEF IInv, TypeOK
  <2> QED BY <1>1, <1>2, <1>7, <2>2, <2>3 DEF IInv, FailureIsTriaged
<1> QED BY <1>4, <1>5, <1>6, <1>9, <1>10 DEF IInv

LEMMA FaultStep ==
    ASSUME IInv, NEW s \in Slots, NEW p \in BOOLEAN, Fault(s, p)
    PROVE  IInv'
<1>0. PICK e \in Effects : e = tasks[s].effect
  BY DEF IInv, TypeOK, Task, Busy, Fault
<1>1. /\ receipts' \subseteq Effects /\ tasks' = [tasks EXCEPT ![s] = NoTask] /\ Busy(s)
      /\ \/ UNCHANGED <<outbox, tries, triaged, agg>>
         \/ Superseded /\ Closes(e, "completed") /\ UNCHANGED <<triaged, agg>>
         \/ ~Superseded /\ Closes(e, "pending") /\ UNCHANGED <<triaged, agg>>
         \/ ~Superseded /\ Closes(e, "failed") /\ EnterTriage(e)
         \/ /\ ~Superseded /\ Closes(e, "failed") /\ UNCHANGED <<triaged, agg>>
            /\ tasks[s].attempts # outbox[e].attempts
      /\ UNCHANGED <<dedup, applied>>
  BY <1>0, ErrorSettles DEF Fault, IInv
<1>2. /\ agg' \in [state: AggStates, version: Nat] /\ agg.version <= agg'.version
      /\ agg'.state = "over" <=> agg.state = "over"
      /\ triaged' \subseteq Effects /\ triaged \subseteq triaged'
      /\ EnterTriage(e) => e \in triaged' \/ agg'.state = "over"
  BY <1>1, TriageEntered DEF IInv
<1>3. /\ Spend("faults", MaxFaults) /\ faults' = [faults EXCEPT ![e] = @ + 1]
      /\ spent'.stalls = spent.stalls /\ spent'.faults = spent.faults + 1
  BY <1>0, Spent DEF Fault, IInv
<1>4. Ends(s)
  BY <1>0, <1>1, <1>2, <1>3 DEF Ends
<1>5. /\ outbox' \in [Effects -> Row] /\ tries' \in [Effects -> Seq(Tries)]
      /\ tasks' \in [Slots -> Task \union {NoTask}]
      /\ TaskPart' /\ AttemptLedger' /\ PinPart' /\ ClaimPart'
  BY <1>4, EndsKeeps
<1>6. /\ faults' \in [Effects -> 0 .. MaxFaults] /\ faults'[e] > 0 /\ FaultPart'
      /\ \A f \in Effects : f # e => faults'[f] = faults[f]
  <2>1. faults \in [Effects -> 0 .. MaxFaults] /\ spent.faults \in 0 .. MaxFaults /\ MaxFaults \in Nat
    BY OutboxAssumption DEF IInv, TypeOK
  <2>2. faults[e] <= spent.faults /\ spent.faults < MaxFaults
    BY <1>3 DEF IInv, FaultPart, Spend
  <2>3. faults[e] + 1 \in 0 .. MaxFaults
    BY <2>1, <2>2
  <2>4. /\ faults' \in [Effects -> 0 .. MaxFaults] /\ faults'[e] = faults[e] + 1
        /\ \A f \in Effects : f # e => faults'[f] = faults[f]
    BY <1>3, <2>1, <2>3
  <2>5. FaultPart'
    BY <1>3, <2>1, <2>4 DEF IInv, FaultPart
  <2> QED BY <2>1, <2>4, <2>5
<1>7. TypeOK'
  BY <1>1, <1>2, <1>3, <1>5, <1>6, SpentType DEF IInv, TypeOK, Row
<1>8. \A f \in Effects : f # e => outbox'[f] = outbox[f]
  BY <1>1 DEF Closes, RowBecomes
<1>9. FailPart'
  <2>1. agg.version \in Nat /\ agg'.version \in Nat /\ \A f \in Effects : outbox[f].pin \in Nat
    BY <1>2 DEF IInv, TypeOK
  <2> QED BY <1>1, <1>2, <1>6, <1>8, <2>1 DEF IInv, FailPart
<1>10. FailureIsTriaged'
  <2>1. spent.stalls = 0 => tasks[s].attempts = outbox[e].attempts
    BY <1>0, <1>1 DEF IInv, ClaimPart
  <2>2. outbox'[e].status = "failed" =>
           outbox[e].status = "failed" \/ e \in triaged' \/ agg'.state = "over" \/ spent.stalls # 0
    BY <1>1, <1>2, <2>1 DEF Closes, RowBecomes
  <2>3. spent.stalls \in Nat
    BY DEF IInv, TypeOK
  <2> QED BY <1>2, <1>3, <1>8, <2>2, <2>3 DEF IInv, FailureIsTriaged
<1> QED BY <1>5, <1>6, <1>7, <1>9, <1>10 DEF IInv

(* A completion or a deferral: nothing fails.                                *)
LEMMA CloseStep ==
    ASSUME IInv, NEW s \in Slots, Settle(s) \/ Defer(s)
    PROVE  IInv'
<1>0. PICK e \in Effects : e = tasks[s].effect
  BY DEF IInv, TypeOK, Task, Busy, Settle, Defer
<1>1. /\ receipts' \subseteq Effects /\ tasks' = [tasks EXCEPT ![s] = NoTask] /\ Busy(s)
      /\ UNCHANGED <<outbox, tries>> \/ Closes(e, "completed") \/ Closes(e, "pending")
      /\ UNCHANGED <<agg, dedup, applied, triaged, faults>>
  <2>1. CASE Settle(s)
    BY <1>0, <2>1, CompleteSettles DEF Settle, End, IInv
  <2>2. CASE Defer(s)
    <3>1. tasks[s].incremented \in BOOLEAN /\ receipts' \subseteq Effects
      BY <2>2 DEF IInv, TypeOK, Task, Busy, Defer
    <3> QED BY <1>0, <2>2, <3>1, DeferSettles DEF Defer, End, IInv
  <2> QED BY <2>1, <2>2
<1>2. /\ spent'.stalls = spent.stalls /\ spent'.faults = spent.faults
      /\ UNCHANGED spent \/ Spend("defers", MaxDefers)
  BY Spent DEF Settle, Defer, IInv
<1>3. Ends(s)
  BY <1>0, <1>1, <1>2 DEF Ends, IInv, TypeOK
<1>4. /\ outbox' \in [Effects -> Row] /\ tries' \in [Effects -> Seq(Tries)]
      /\ tasks' \in [Slots -> Task \union {NoTask}]
      /\ TaskPart' /\ AttemptLedger' /\ PinPart' /\ ClaimPart'
  BY <1>3, EndsKeeps
<1>5. TypeOK'
  BY <1>1, <1>2, <1>4, SpentType DEF IInv, TypeOK, Row
<1>6. \A f \in Effects : outbox'[f].status = "failed" => outbox'[f] = outbox[f]
  BY <1>1 DEF Closes, RowBecomes
<1>7. FailPart' /\ FaultPart' /\ FailureIsTriaged'
  BY <1>1, <1>2, <1>6 DEF IInv, FailPart, FaultPart, FailureIsTriaged
<1> QED BY <1>4, <1>5, <1>7 DEF IInv

-----------------------------------------------------------------------------
(* The other steps.                                                          *)

LEMMA ExecuteStep ==
    ASSUME IInv, NEW s \in Slots, Execute(s)
    PROVE  IInv'
<1>0. PICK e \in Effects : e = tasks[s].effect
  BY DEF IInv, TypeOK, Task, Busy, Execute
<1>1. /\ Busy(s) /\ tasks' = [tasks EXCEPT ![s].pc = "settle"]
      /\ UNCHANGED <<outbox, tries, receipts, triaged, faults, spent>>
  BY DEF Execute
<1>2. /\ tasks \in [Slots -> Task \union {NoTask}] /\ tasks[s] \in Task
      /\ outbox[e].status # "absent"
  BY <1>0, <1>1 DEF IInv, TypeOK, Busy, TaskPart
<1>3. /\ tasks' \in [Slots -> Task \union {NoTask}]
      /\ tasks'[s].effect = e /\ tasks'[s].pc = "settle" /\ tasks'[s].beat = tasks[s].beat
      /\ tasks'[s].attempts = tasks[s].attempts
      /\ \A t \in Slots : t # s => tasks'[t] = tasks[t]
  <2> DEFINE r == [tasks[s] EXCEPT !.pc = "settle"]
  <2>1. /\ r \in Task /\ r.effect = e /\ r.pc = "settle" /\ r.beat = tasks[s].beat
        /\ r.attempts = tasks[s].attempts
    BY <1>0, <1>2 DEF Task
  <2>2. tasks' = [tasks EXCEPT ![s] = r]
    BY <1>1
  <2> HIDE DEF r
  <2> QED BY <1>2, <2>1, <2>2
<1>4. /\ agg' \in [state: AggStates, version: Nat] /\ agg.version <= agg'.version
      /\ agg'.state = agg.state
      /\ dedup' \in [Effects -> Nat] /\ applied' \in [Effects -> Nat]
      /\ \A f \in Effects : f # e => dedup'[f] = dedup[f] /\ applied'[f] = applied[f]
      /\ dedup'[e] = outbox[e].pin /\ applied'[e] > 0
      /\ applied[e] > 0 \/ outbox[e].pin = agg.version
  <2>1. /\ agg \in [state: AggStates, version: Nat]
        /\ dedup \in [Effects -> Nat] /\ applied \in [Effects -> Nat] /\ outbox[e].pin \in Nat
    BY DEF IInv, TypeOK
  <2>2. CASE Duplicate(e)
    <3>1. UNCHANGED <<agg, dedup, applied>>
      BY <1>0, <2>2 DEF Execute
    <3>2. dedup[e] = outbox[e].pin /\ applied[e] > 0
      BY <2>2 DEF IInv, PinPart, Duplicate
    <3> QED BY <2>1, <3>1, <3>2
  <2>3. CASE ~Duplicate(e)
    <3>1. /\ agg' = [agg EXCEPT !.version = @ + 1] /\ dedup' = [dedup EXCEPT ![e] = outbox[e].pin]
          /\ applied' = [applied EXCEPT ![e] = @ + 1] /\ agg.version = outbox[e].pin
      BY <1>0, <2>3 DEF Execute, Legal, Expected
    <3> QED BY <2>1, <3>1
  <2> QED BY <2>2, <2>3
<1>5. TypeOK'
  BY <1>1, <1>3, <1>4 DEF IInv, TypeOK
<1>6. TaskPart'
  <2> SUFFICES ASSUME NEW t \in Slots, Busy(t)'
               PROVE  /\ outbox'[tasks'[t].effect].status # "absent"
                      /\ tasks'[t].pc = "settle" => applied'[tasks'[t].effect] > 0
    BY DEF TaskPart
  <2>1. CASE t = s
    BY <1>1, <1>2, <1>3, <1>4, <2>1
  <2>2. CASE t # s
    <3>1. Busy(t) /\ tasks'[t] = tasks[t] /\ tasks[t].effect \in Effects
      BY <1>3, <2>2 DEF Busy, IInv, TypeOK, Task
    <3> QED BY <1>1, <1>4, <3>1 DEF IInv, TaskPart
  <2> QED BY <2>1, <2>2
<1>7. AttemptLedger' /\ FaultPart' /\ FailureIsTriaged'
  BY <1>1, <1>4 DEF IInv, AttemptLedger, FaultPart, FailureIsTriaged, Inflight
<1>8. PinPart'
  <2>1. agg.version \in Nat /\ agg'.version \in Nat /\ \A f \in Effects : outbox[f].pin \in Nat
    BY <1>4 DEF IInv, TypeOK
  <2>2. 0 < outbox[e].pin
    BY <1>2 DEF IInv, PinPart
  <2> QED BY <1>1, <1>2, <1>4, <2>1, <2>2 DEF IInv, PinPart
<1>9. FailPart'
  <2>1. agg.version \in Nat /\ agg'.version \in Nat /\ \A f \in Effects : outbox[f].pin \in Nat
    BY <1>4 DEF IInv, TypeOK
  <2> QED BY <1>1, <1>4, <2>1 DEF IInv, FailPart
<1>10. ClaimPart'
  BY <1>0, <1>1, <1>3 DEF IInv, ClaimPart, Busy, Inflight
<1> QED BY <1>5, <1>6, <1>7, <1>8, <1>9, <1>10 DEF IInv

LEMMA EmitStep ==
    ASSUME IInv, NEW e \in Effects, Emit(e)
    PROVE  IInv'
<1> DEFINE b == Cardinality({f \in Effects : outbox[f].status # "absent"})
           r == [status |-> "pending", attempts |-> 0, lock |-> "free", due |-> TRUE,
                 pin |-> agg.version + 1, born |-> b]
<1>1. /\ outbox[e].status = "absent" /\ agg' = [agg EXCEPT !.version = @ + 1]
      /\ agg.state = "live"
      /\ outbox' = [outbox EXCEPT ![e] = r]
      /\ UNCHANGED <<tries, receipts, dedup, applied, tasks, triaged, faults, spent>>
  BY DEF Emit
<1>2. b \in 0 .. Cardinality(Effects)
  <2>1. {f \in Effects : outbox[f].status # "absent"} \subseteq Effects
    OBVIOUS
  <2> QED BY <2>1, OutboxAssumption, FS_Subset, FS_CardinalityType
<1>3. outbox \in [Effects -> Row] /\ agg \in [state: AggStates, version: Nat]
  BY DEF IInv, TypeOK, Row
<1>4. r \in Row /\ r.status = "pending" /\ r.pin = agg.version + 1
  <2> HIDE DEF b
  <2> QED BY <1>2, <1>3, OutboxAssumption DEF Row, Statuses
<1> HIDE DEF b, r
<1>5. /\ outbox' \in [Effects -> Row] /\ outbox'[e] = r
      /\ \A f \in Effects : f # e => outbox'[f] = outbox[f]
      /\ agg' \in [state: AggStates, version: Nat] /\ agg'.version = agg.version + 1
      /\ agg'.state = "live"
  BY <1>1, <1>3, <1>4
<1>6. TypeOK'
  BY <1>1, <1>5 DEF IInv, TypeOK, Row
<1>7. \A s \in Slots : Busy(s) => tasks[s].effect # e /\ tasks[s].effect \in Effects
  BY <1>1 DEF IInv, TypeOK, TaskPart, Busy, Task
<1>8. TaskPart' /\ ClaimPart'
  BY <1>1, <1>5, <1>7 DEF IInv, TaskPart, ClaimPart, Busy, Inflight
<1>9. AttemptLedger' /\ FaultPart' /\ FailureIsTriaged'
  <2>1. \A f \in Effects : Inflight(f)' <=> Inflight(f)
    BY <1>1, <1>4, <1>5 DEF Inflight
  <2>2. AttemptLedger'
    BY <1>1, <2>1 DEF IInv, AttemptLedger
  <2> QED BY <1>1, <1>4, <1>5, <2>2 DEF IInv, FaultPart, FailureIsTriaged
<1>10. agg.version \in Nat /\ \A f \in Effects : outbox[f].pin \in Nat
  BY <1>3 DEF Row
<1>11. PinPart' /\ FailPart'
  BY <1>1, <1>4, <1>5, <1>10 DEF IInv, PinPart, FailPart
<1> QED BY <1>6, <1>8, <1>9, <1>11 DEF IInv

(* A lock runs out, a retry delay passes, a lock is renewed: the row of e    *)
(* keeps its status, its attempts and its pin.                               *)
SameButLock(e) ==
    /\ outbox' \in [Effects -> Row]
    /\ \A f \in Effects : /\ outbox'[f].status = outbox[f].status
                          /\ outbox'[f].attempts = outbox[f].attempts
                          /\ outbox'[f].pin = outbox[f].pin
                          /\ f # e => outbox'[f] = outbox[f]

LEMMA LockRows ==
    ASSUME IInv, NEW e \in Effects, Expire(e) \/ RetryDue(e)
    PROVE  SameButLock(e) /\ (RetryDue(e) => outbox'[e].lock = outbox[e].lock)
<1>1. outbox \in [Effects -> Row] /\ outbox[e] \in Row
  BY DEF IInv, TypeOK, Row
<1>2. PICK r \in Row : /\ outbox' = [outbox EXCEPT ![e] = r]
                       /\ r.status = outbox[e].status /\ r.attempts = outbox[e].attempts
                       /\ r.pin = outbox[e].pin
                       /\ RetryDue(e) => r.lock = outbox[e].lock
  <2>1. CASE Expire(e)
    <3>1. [outbox[e] EXCEPT !.lock = "expired"] \in Row
      BY <1>1 DEF Row
    <3>2. /\ outbox' = [outbox EXCEPT ![e] = [outbox[e] EXCEPT !.lock = "expired"]]
          /\ ~RetryDue(e)
      BY <2>1 DEF Expire, RetryDue, Inflight
    <3> QED BY <1>1, <3>1, <3>2 DEF Row
  <2>2. CASE RetryDue(e)
    <3>1. [outbox[e] EXCEPT !.due = TRUE] \in Row
      BY <1>1 DEF Row
    <3>2. outbox' = [outbox EXCEPT ![e] = [outbox[e] EXCEPT !.due = TRUE]]
      BY <2>2 DEF RetryDue
    <3> QED BY <1>1, <3>1, <3>2 DEF Row
  <2> QED BY <2>1, <2>2
<1> QED BY <1>1, <1>2 DEF SameButLock

LEMMA LockStep ==
    ASSUME IInv, NEW e \in Effects, Expire(e) \/ RetryDue(e)
    PROVE  IInv'
<1>1. /\ UNCHANGED <<tries, receipts, agg, dedup, applied, tasks, triaged, faults>>
      /\ UNCHANGED spent \/ Spend("stalls", MaxStalls)
  BY DEF Expire, RetryDue
<1>2. SameButLock(e) /\ (RetryDue(e) => outbox'[e].lock = outbox[e].lock)
  BY LockRows
<1>3. /\ spent'.faults = spent.faults /\ spent.stalls \in Nat
      /\ spent'.stalls = spent.stalls \/ (spent'.stalls = spent.stalls + 1 /\ spent'.stalls # 0)
  <2>t. TypeOK
    BY DEF IInv
  <2>1. spent.stalls \in 0..MaxStalls /\ spent.stalls \in Nat
    BY <2>t DEF TypeOK
  <2>2. CASE UNCHANGED spent
    BY <2>1, <2>2
  <2>3. CASE Spend("stalls", MaxStalls)
    BY <2>t, <2>1, <2>3, Spent
  <2> QED BY <1>1, <2>2, <2>3
<1>4. TypeOK'
  BY <1>1, <1>2, SpentType DEF IInv, TypeOK, Row, SameButLock
<1>5. TaskPart'
  <2>1. \A s \in Slots : Busy(s) => tasks[s].effect \in Effects
    BY DEF IInv, TypeOK, Busy, Task
  <2> QED BY <1>1, <1>2, <2>1 DEF IInv, TaskPart, Busy, SameButLock
<1>6. AttemptLedger'
  BY <1>1, <1>2 DEF IInv, AttemptLedger, Inflight, SameButLock
<1>7. PinPart' /\ FailPart' /\ FaultPart'
  BY <1>1, <1>2, <1>3 DEF IInv, PinPart, FailPart, FaultPart, SameButLock
<1>8. FailureIsTriaged'
  BY <1>1, <1>2, <1>3 DEF IInv, FailureIsTriaged, SameButLock
<1>9. ClaimPart'
  <2> SUFFICES ASSUME spent'.stalls = 0 PROVE ClaimPart'
    BY DEF ClaimPart
  <2>1. spent.stalls = 0
    BY <1>3
  <2>2. \A s \in Slots : Busy(s) => tasks[s].effect \in Effects
    BY DEF IInv, TypeOK, Busy, Task
  <2>3. Expire(e) => ~Beating(e)
    BY <2>1, Spent DEF Expire, IInv
  <2>4. Expire(e) => \A s \in Slots : Busy(s) => tasks[s].effect # e
    BY <2>1, <2>3 DEF Beating, IInv, ClaimPart
  <2>5. \A s \in Slots : Busy(s) => outbox'[tasks[s].effect].lock = outbox[tasks[s].effect].lock
    BY <1>2, <2>2, <2>4 DEF SameButLock
  <2> QED BY <1>1, <1>2, <2>1, <2>2, <2>5 DEF IInv, ClaimPart, Busy, Inflight, SameButLock
<1> QED BY <1>4, <1>5, <1>6, <1>7, <1>8, <1>9 DEF IInv

LEMMA BeatRows ==
    ASSUME IInv, NEW s \in Slots, Heartbeat(s), NEW e \in Effects, e = tasks[s].effect, Inflight(e)
    PROVE  SameButLock(e) /\ outbox'[e].lock = "live" /\ tasks' = tasks
<1> DEFINE r == [outbox[e] EXCEPT !.lock = "live"]
<1>1. outbox \in [Effects -> Row] /\ outbox[e] \in Row
  BY DEF IInv, TypeOK, Row
<1>2. r \in Row /\ r.status = outbox[e].status /\ r.attempts = outbox[e].attempts
      /\ r.pin = outbox[e].pin /\ r.lock = "live"
  BY <1>1 DEF Row
<1>3. outbox' = [outbox EXCEPT ![e] = r] /\ tasks' = tasks
  BY DEF Heartbeat
<1> HIDE DEF r
<1> QED BY <1>1, <1>2, <1>3 DEF SameButLock

LEMMA HeartbeatStep ==
    ASSUME IInv, NEW s \in Slots, Heartbeat(s)
    PROVE  IInv'
<1>0. PICK e \in Effects : e = tasks[s].effect
  BY DEF IInv, TypeOK, Task, Busy, Heartbeat
<1>1. Busy(s) /\ UNCHANGED <<tries, receipts, agg, dedup, applied, triaged, faults, spent>>
  BY DEF Heartbeat
<1>2. /\ outbox \in [Effects -> Row] /\ outbox[e] \in Row
      /\ tasks \in [Slots -> Task \union {NoTask}] /\ tasks[s] \in Task
  BY <1>1 DEF IInv, TypeOK, Row, Busy
<1>3. CASE Inflight(e)
  <2>1. SameButLock(e) /\ outbox'[e].lock = "live" /\ tasks' = tasks
    BY <1>0, <1>3, BeatRows
  <2>2. TypeOK'
    BY <1>1, <2>1 DEF IInv, TypeOK, Row, SameButLock
  <2>3. \A t \in Slots : Busy(t) => tasks[t].effect \in Effects
    BY DEF IInv, TypeOK, Busy, Task
  <2>4. TaskPart' /\ ClaimPart'
    BY <1>1, <2>1, <2>3 DEF IInv, TaskPart, ClaimPart, Busy, Inflight, SameButLock
  <2>5. AttemptLedger'
    BY <1>1, <2>1 DEF IInv, AttemptLedger, Inflight, SameButLock
  <2>6. PinPart' /\ FailPart' /\ FaultPart' /\ FailureIsTriaged'
    BY <1>1, <2>1 DEF IInv, PinPart, FailPart, FaultPart, FailureIsTriaged, SameButLock
  <2> QED BY <2>2, <2>4, <2>5, <2>6 DEF IInv
<1>4. CASE ~Inflight(e)
  <2> DEFINE r == [tasks[s] EXCEPT !.beat = FALSE]
  <2>1. r \in Task /\ r.effect = e /\ r.pc = tasks[s].pc
    BY <1>0, <1>2 DEF Task
  <2>2. tasks' = [tasks EXCEPT ![s] = r] /\ outbox' = outbox
    BY <1>0, <1>4 DEF Heartbeat
  <2> HIDE DEF r
  <2>3. /\ tasks' \in [Slots -> Task \union {NoTask}] /\ tasks'[s].effect = e
        /\ tasks'[s].pc = tasks[s].pc /\ \A t \in Slots : t # s => tasks'[t] = tasks[t]
    BY <1>2, <2>1, <2>2
  <2>4. TypeOK'
    BY <1>1, <2>2, <2>3 DEF IInv, TypeOK
  <2>5. TaskPart'
    BY <1>0, <1>1, <2>2, <2>3 DEF IInv, TaskPart, Busy
  <2>6. spent.stalls # 0 /\ ClaimPart'
    BY <1>0, <1>1, <1>4 DEF IInv, ClaimPart
  <2>7. AttemptLedger'
    BY <1>1, <2>2 DEF IInv, AttemptLedger, Inflight
  <2>8. PinPart' /\ FailPart' /\ FaultPart' /\ FailureIsTriaged'
    BY <1>1, <2>2 DEF IInv, PinPart, FailPart, FaultPart, FailureIsTriaged
  <2> QED BY <2>4, <2>5, <2>6, <2>7, <2>8 DEF IInv
<1> QED BY <1>3, <1>4

LEMMA OtherStep ==
    ASSUME IInv, Control \/ Crash \/ UNCHANGED vars
    PROVE  IInv'
<1>1. /\ UNCHANGED <<outbox, tries, receipts, dedup, applied, triaged, faults>>
      /\ tasks' = tasks \/ tasks' = [s \in Slots |-> NoTask]
      /\ \/ UNCHANGED agg
         \/ /\ agg'.state \in AggStates /\ agg.state # "over"
            /\ agg' = [state |-> agg'.state, version |-> agg.version + 1]
      /\ UNCHANGED spent \/ Spend("controls", MaxControls) \/ Spend("crashes", MaxCrashes)
  BY DEF Control, Crash, vars, AggStates
<1>2. spent'.faults = spent.faults /\ spent'.stalls = spent.stalls
  BY <1>1, Spent DEF IInv
<1>3. /\ agg' \in [state: AggStates, version: Nat] /\ agg.version <= agg'.version
      /\ agg.version \in Nat /\ \A e \in Effects : outbox[e].pin \in Nat
      /\ agg.state = "over" => agg' = agg
      /\ agg' = agg \/ agg.version < agg'.version
  BY <1>1 DEF IInv, TypeOK
<1>4. tasks' \in [Slots -> Task \union {NoTask}] /\ \A s \in Slots : Busy(s)' => tasks'[s] = tasks[s]
  BY <1>1 DEF IInv, TypeOK, Busy
<1>5. TypeOK'
  BY <1>1, <1>3, <1>4, SpentType DEF IInv, TypeOK
<1>6. TaskPart' /\ ClaimPart'
  BY <1>1, <1>2, <1>4 DEF IInv, TaskPart, ClaimPart, Busy, Inflight
<1>7. AttemptLedger'
  BY <1>1 DEF IInv, AttemptLedger, Inflight
<1>8. PinPart' /\ FailPart' /\ FaultPart' /\ FailureIsTriaged'
  BY <1>1, <1>2, <1>3 DEF IInv, PinPart, FailPart, FaultPart, FailureIsTriaged
<1> QED BY <1>5, <1>6, <1>7, <1>8 DEF IInv

(* The claim of a row: the attempts grow by one, the older ones are over.    *)
LEMMA ClaimedOne ==
    ASSUME IInv, NEW e \in Effects, Claimable(e)
    PROVE  /\ ClaimedRow(outbox[e]) \in Row
           /\ ClaimedRow(outbox[e]).status = "inflight" /\ ClaimedRow(outbox[e]).lock = "live"
           /\ ClaimedRow(outbox[e]).pin = outbox[e].pin
           /\ ClaimedTries(e) \in Seq(Tries)
           /\ Running(ClaimedTries(e)) = {Len(ClaimedTries(e))}
<1>1. outbox[e] \in Row /\ outbox[e].attempts \in 0 .. MaxAttempts /\ MaxAttempts \in Nat
  BY OutboxAssumption DEF IInv, TypeOK, Row
<1> DEFINE n == IF outbox[e].status = "pending" THEN outbox[e].attempts + 1 ELSE outbox[e].attempts
<1>2. n \in 0 .. MaxAttempts
  BY <1>1 DEF Claimable, Inflight
<1>3. ClaimedRow(outbox[e]) = [outbox[e] EXCEPT !.status = "inflight", !.lock = "live", !.attempts = n]
  BY DEF ClaimedRow
<1>4. /\ ClaimedRow(outbox[e]) \in Row
      /\ ClaimedRow(outbox[e]).status = "inflight" /\ ClaimedRow(outbox[e]).lock = "live"
      /\ ClaimedRow(outbox[e]).pin = outbox[e].pin
  <2> HIDE DEF n
  <2> QED BY <1>1, <1>2, <1>3 DEF Row, Statuses
<1> DEFINE q == tries[e]
           w == [i \in DOMAIN q |-> IF Inflight(e) /\ q[i] = "running" THEN "lost" ELSE q[i]]
<1>5. q \in Seq(Tries) /\ {"lost", "running"} \subseteq Tries
  BY DEF IInv, TypeOK, Tries
<1>6. \A i \in DOMAIN q : q[i] = "running" => Inflight(e)
  BY DEF IInv, AttemptLedger
<1>7. ClaimedTries(e) = Append(w, "running")
  BY DEF ClaimedTries
<1> HIDE DEF q
<1>8. w \in Seq(Tries) /\ \A i \in DOMAIN w : w[i] # "running"
  <2>1. DOMAIN q = 1 .. Len(q) /\ Len(q) \in Nat /\ \A i \in 1 .. Len(q) : q[i] \in Tries
    BY <1>5
  <2>2. w \in [1 .. Len(q) -> Tries]
    BY <1>5, <2>1
  <2> QED BY <1>6, <2>1, <2>2
<1> HIDE DEF w
<1>9. ClaimedTries(e) \in Seq(Tries) /\ Len(ClaimedTries(e)) = Len(w) + 1
  BY <1>5, <1>7, <1>8
<1>10. \A i \in 1 .. Len(w) + 1 : ClaimedTries(e)[i] = IF i = Len(w) + 1 THEN "running" ELSE w[i]
  BY <1>7, <1>8
<1>11. Running(ClaimedTries(e)) = {Len(ClaimedTries(e))}
  <2>1. DOMAIN ClaimedTries(e) = 1 .. Len(w) + 1 /\ DOMAIN w = 1 .. Len(w) /\ Len(w) \in Nat
    BY <1>8, <1>9
  <2> QED BY <1>8, <1>9, <1>10, <2>1 DEF Running
<1> QED BY <1>4, <1>9, <1>11

ClaimedTask(e) ==
    [effect |-> e, attempts |-> ClaimedRow(outbox[e]).attempts,
     incremented |-> outbox[e].status = "pending", pc |-> "execute", beat |-> TRUE]

LEMMA StartStep ==
    ASSUME IInv, StartAvailable
    PROVE  IInv'
<1>1. PICK batch, place :
         /\ batch \in SUBSET Effects /\ place \in [batch -> Slots]
         /\ \A e \in batch : Claimable(e) /\ ~Busy(place[e])
         /\ \A e, f \in batch : e # f => place[e] # place[f]
         /\ tasks' = [s \in Slots |-> IF \E e \in batch : place[e] = s
                                      THEN ClaimedTask(CHOOSE e \in batch : place[e] = s)
                                      ELSE tasks[s]]
         /\ outbox' = [e \in Effects |-> IF e \in batch THEN ClaimedRow(outbox[e]) ELSE outbox[e]]
         /\ tries' = [e \in Effects |-> IF e \in batch THEN ClaimedTries(e) ELSE tries[e]]
  <2> DEFINE free == {s \in Slots : ~Busy(s)}
             batch == Batch(Cardinality(free))
  <2>1. batch \in SUBSET Effects /\ \A e \in batch : Claimable(e)
    BY DEF Batch
  <2>2. PICK place \in [batch -> free] :
           /\ \A e, f \in batch : e # f => place[e] # place[f]
           /\ tasks' = [s \in Slots |-> IF \E e \in batch : place[e] = s
                                        THEN ClaimedTask(CHOOSE e \in batch : place[e] = s)
                                        ELSE tasks[s]]
    BY DEF StartAvailable, ClaimedTask
  <2>3. /\ outbox' = [e \in Effects |-> IF e \in batch THEN ClaimedRow(outbox[e]) ELSE outbox[e]]
        /\ tries' = [e \in Effects |-> IF e \in batch THEN ClaimedTries(e) ELSE tries[e]]
    BY DEF StartAvailable
  <2> HIDE DEF batch
  <2>4. place \in [batch -> Slots] /\ \A e \in batch : ~Busy(place[e])
    BY <2>2
  <2> QED BY <2>1, <2>2, <2>3, <2>4
<1>2. UNCHANGED <<receipts, agg, dedup, applied, triaged, faults, spent>>
  BY DEF StartAvailable
<1>3. \A e \in batch :
         /\ ClaimedRow(outbox[e]) \in Row
         /\ ClaimedRow(outbox[e]).status = "inflight" /\ ClaimedRow(outbox[e]).lock = "live"
         /\ ClaimedRow(outbox[e]).pin = outbox[e].pin
         /\ ClaimedTries(e) \in Seq(Tries)
         /\ Running(ClaimedTries(e)) = {Len(ClaimedTries(e))}
         /\ outbox[e].status \in {"pending", "inflight"}
  BY <1>1, ClaimedOne DEF Claimable, Inflight
<1>4. outbox \in [Effects -> Row] /\ tries \in [Effects -> Seq(Tries)]
      /\ tasks \in [Slots -> Task \union {NoTask}]
  BY DEF IInv, TypeOK, Row
<1>5. /\ outbox' \in [Effects -> Row] /\ tries' \in [Effects -> Seq(Tries)]
      /\ \A e \in Effects : e \notin batch => outbox'[e] = outbox[e] /\ tries'[e] = tries[e]
      /\ \A e \in batch : outbox'[e] = ClaimedRow(outbox[e]) /\ tries'[e] = ClaimedTries(e)
  BY <1>1, <1>3, <1>4
<1>6. \A e \in batch : ClaimedTask(e) \in Task
  <2> SUFFICES ASSUME NEW e \in batch PROVE ClaimedTask(e) \in Task
    OBVIOUS
  <2>1. ClaimedRow(outbox[e]).attempts \in 0 .. MaxAttempts /\ e \in Effects
    BY <1>1, <1>3 DEF Row
  <2> QED BY <2>1 DEF ClaimedTask, Task
<1>7. \A s \in Slots :
         \/ tasks'[s] = tasks[s]
         \/ \E e \in batch : place[e] = s /\ ~Busy(s) /\ tasks'[s] = ClaimedTask(e)
  <2> SUFFICES ASSUME NEW s \in Slots, \E e \in batch : place[e] = s
               PROVE  \E e \in batch : place[e] = s /\ ~Busy(s) /\ tasks'[s] = ClaimedTask(e)
    BY <1>1
  <2> DEFINE c == CHOOSE e \in batch : place[e] = s
  <2>1. c \in batch /\ place[c] = s
    OBVIOUS
  <2>2. tasks'[s] = ClaimedTask(c)
    BY <1>1
  <2> HIDE DEF c
  <2> QED BY <1>1, <2>1, <2>2
<1>8. tasks' \in [Slots -> Task \union {NoTask}]
  <2>1. \A s \in Slots : tasks'[s] \in Task \union {NoTask}
    BY <1>4, <1>6, <1>7
  <2>2. tasks' = [s \in Slots |-> tasks'[s]]
    BY <1>1
  <2> QED BY <2>1, <2>2
<1>9. TypeOK'
  BY <1>2, <1>5, <1>8 DEF IInv, TypeOK, Row
<1>10. AttemptLedger'
  <2> SUFFICES ASSUME NEW f \in Effects
               PROVE  Running(tries'[f]) = IF outbox'[f].status = "inflight" THEN {Len(tries'[f])} ELSE {}
    BY DEF AttemptLedger, Running, Inflight
  <2>1. CASE f \in batch
    BY <1>3, <1>5, <2>1
  <2>2. CASE f \notin batch
    <3>1. Running(tries[f]) = IF outbox[f].status = "inflight" THEN {Len(tries[f])} ELSE {}
      BY DEF IInv, AttemptLedger, Running, Inflight
    <3> QED BY <1>5, <2>2, <3>1
  <2> QED BY <2>1, <2>2
<1>11. \A e \in Effects :
          /\ outbox'[e].pin = outbox[e].pin
          /\ outbox'[e].status = "absent" <=> outbox[e].status = "absent"
          /\ outbox'[e].status = "failed" <=> outbox[e].status = "failed"
  BY <1>3, <1>5
<1>12. PinPart' /\ FailPart' /\ FaultPart' /\ FailureIsTriaged'
  BY <1>2, <1>11 DEF IInv, PinPart, FailPart, FaultPart, FailureIsTriaged
<1>13. TaskPart'
  <2> SUFFICES ASSUME NEW s \in Slots, Busy(s)'
               PROVE  /\ outbox'[tasks'[s].effect].status # "absent"
                      /\ tasks'[s].pc = "settle" => applied'[tasks'[s].effect] > 0
    BY DEF TaskPart
  <2>1. CASE tasks'[s] = tasks[s]
    <3>1. Busy(s) /\ tasks[s].effect \in Effects
      BY <1>4, <2>1 DEF Busy, Task
    <3> QED BY <1>2, <1>11, <2>1, <3>1 DEF IInv, TaskPart
  <2>2. CASE \E e \in batch : tasks'[s] = ClaimedTask(e)
    BY <1>3, <1>5, <2>2 DEF ClaimedTask
  <2> QED BY <1>7, <2>1, <2>2
<1>14. ClaimPart'
  <2> SUFFICES ASSUME spent'.stalls = 0, NEW s \in Slots, Busy(s)'
               PROVE  LET e == tasks'[s].effect
                      IN  /\ outbox'[e].status = "inflight" /\ outbox'[e].lock = "live"
                          /\ tasks'[s].beat /\ tasks'[s].attempts = outbox'[e].attempts
                          /\ \A t \in Slots : Busy(t)' /\ tasks'[t].effect = e => t = s
    BY DEF ClaimPart, Inflight
  <2>1. spent.stalls = 0
    BY <1>2
  <2>2. \A t \in Slots : Busy(t) =>
           /\ outbox[tasks[t].effect].status = "inflight" /\ outbox[tasks[t].effect].lock = "live"
           /\ tasks[t].effect \in Effects
    BY <1>4, <2>1 DEF IInv, ClaimPart, Inflight, Busy, Task
  <2>3. \A t \in Slots : Busy(t) => tasks[t].effect \notin batch
    BY <1>1, <2>2 DEF Claimable, Inflight
  <2>4. \A t \in Slots : Busy(t)' => \/ Busy(t) /\ tasks'[t] = tasks[t]
                                     \/ \E e \in batch : /\ place[e] = t /\ tasks'[t] = ClaimedTask(e)
                                                         /\ tasks'[t].effect = e
    BY <1>7 DEF Busy, ClaimedTask
  <2>5. CASE Busy(s) /\ tasks'[s] = tasks[s]
    <3>1. outbox'[tasks[s].effect] = outbox[tasks[s].effect]
      BY <1>5, <2>2, <2>3, <2>5
    <3> QED BY <2>1, <2>2, <2>3, <2>4, <2>5, <3>1 DEF IInv, ClaimPart
  <2>6. ASSUME NEW e \in batch, place[e] = s, tasks'[s] = ClaimedTask(e)
        PROVE  LET x == tasks'[s].effect
               IN  /\ outbox'[x].status = "inflight" /\ outbox'[x].lock = "live"
                   /\ tasks'[s].beat /\ tasks'[s].attempts = outbox'[x].attempts
                   /\ \A t \in Slots : Busy(t)' /\ tasks'[t].effect = x => t = s
    <3>1. /\ tasks'[s].effect = e /\ tasks'[s].beat
          /\ tasks'[s].attempts = ClaimedRow(outbox[e]).attempts
      BY <2>6 DEF ClaimedTask
    <3>2. /\ outbox'[e].status = "inflight" /\ outbox'[e].lock = "live"
          /\ tasks'[s].attempts = outbox'[e].attempts
      BY <1>3, <1>5, <3>1
    <3>3. ASSUME NEW t \in Slots, Busy(t)', tasks'[t].effect = e PROVE t = s
      BY <2>3, <2>4, <2>6, <3>3
    <3> QED BY <3>1, <3>2, <3>3
  <2> QED BY <2>4, <2>5, <2>6
<1> QED BY <1>9, <1>10, <1>12, <1>13, <1>14 DEF IInv

LEMMA OutboxInit == Init => IInv
<1> SUFFICES ASSUME Init PROVE IInv
  OBVIOUS
<1>1. Cardinality(Effects) \in Nat
  BY OutboxAssumption, FS_CardinalityType
<1>2. outbox \in [Effects -> Row] /\ \A e \in Effects : outbox[e].status = "absent" /\ outbox[e].pin = 0
  BY <1>1, OutboxAssumption DEF Init, Row, Statuses
<1>3. spent \in [crashes: 0..MaxCrashes, stalls: 0..MaxStalls, faults: 0..MaxFaults,
                 defers: 0..MaxDefers, controls: 0..MaxControls]
  BY OutboxAssumption DEF Init
<1>4. \A e \in Effects : tries[e] = <<>>
  BY DEF Init
<1>5. TypeOK
  BY <1>2, <1>3, OutboxAssumption DEF Init, TypeOK, Row, AggStates
<1>6. TaskPart /\ ClaimPart
  BY DEF Init, TaskPart, ClaimPart, Busy
<1>7. AttemptLedger
  BY <1>2, <1>4 DEF AttemptLedger, Inflight
<1>8. PinPart /\ FailPart /\ FaultPart /\ FailureIsTriaged
  BY <1>2 DEF Init, PinPart, FailPart, FaultPart, FailureIsTriaged
<1> QED BY <1>5, <1>6, <1>7, <1>8 DEF IInv

LEMMA OutboxStep == ASSUME IInv, [Next]_vars PROVE IInv'
BY EmitStep, LockStep, StartStep, ExecuteStep, RefusedStep, CloseStep, HeartbeatStep, FaultStep,
   OtherStep
DEF Next, TaskStep

LEMMA OutboxInvariant == Spec => []IInv
BY OutboxInit, OutboxStep, PTL DEF Spec

(* What the rows say of an effect is what happened to it: the attempts'      *)
(* ledger, the failure that replay never causes and the triage of failures,  *)
(* through crashes, takeovers and concurrent tasks.                          *)
THEOREM OutboxRowsAreTrue == Spec => []RowsTellTheTruth
<1>1. IInv => ReplayNeverFails
  BY DEF IInv, FailPart, ReplayNeverFails
<1>2. IInv => RowsTellTheTruth
  BY <1>1 DEF IInv, RowsTellTheTruth
<1> QED BY <1>2, OutboxInvariant, PTL

-----------------------------------------------------------------------------
(* The contract.                                                             *)

Outcome == [e \in Effects |->
               IF outbox[e].status \in {"pending", "inflight"} THEN "open" ELSE outbox[e].status]
Applied == {e \in Effects : applied[e] > 0}

(* Rows that stay open, or as they were, are no step of the contract.        *)
LEMMA OutcomeSame ==
    ASSUME \A e \in Effects : \/ outbox'[e].status = outbox[e].status
                              \/ {outbox[e].status, outbox'[e].status} \subseteq {"pending", "inflight"}
    PROVE  Outcome' = Outcome
BY DEF Outcome

LEMMA OutcomeSet ==
    ASSUME NEW e \in Effects, \A f \in Effects : f # e => outbox'[f].status = outbox[f].status
    PROVE  Outcome' = [Outcome EXCEPT ![e] =
               IF outbox'[e].status \in {"pending", "inflight"} THEN "open" ELSE outbox'[e].status]
BY DEF Outcome

LEMMA ContractQuiet ==
    ASSUME Outcome' = Outcome, applied' = applied, agg' = agg \/ Superseded' = Superseded
    PROVE  UNCHANGED Contract!vars
<1>1. Superseded' = Superseded
  BY DEF Superseded
<1> QED BY <1>1 DEF Contract!vars, Outcome

(* The end of a task as a step of the contract.                              *)
LEMMA ContractError ==
    ASSUME IInv, NEW s \in Slots, Busy(s), NEW p \in BOOLEAN, HandleError(s, p), applied' = applied
    PROVE  [Contract!Next]_(Contract!vars)
<1>0. PICK e \in Effects : e = tasks[s].effect
  BY DEF IInv, TypeOK, Task, Busy
<1>1. \/ UNCHANGED <<outbox, tries, triaged, agg>>
      \/ Superseded /\ Closes(e, "completed") /\ UNCHANGED <<triaged, agg>>
      \/ ~Superseded /\ Closes(e, "pending") /\ UNCHANGED <<triaged, agg>>
      \/ ~Superseded /\ Closes(e, "failed") /\ (EnterTriage(e) \/ UNCHANGED <<triaged, agg>>)
  BY <1>0, ErrorSettles DEF IInv
<1>2. CASE UNCHANGED <<outbox, tries, triaged, agg>>
  BY <1>2, OutcomeSame, ContractQuiet
<1>3. CASE Superseded /\ Closes(e, "completed") /\ UNCHANGED <<triaged, agg>>
  <2>1. Outcome[e] = "open" /\ Outcome' = [Outcome EXCEPT ![e] = "completed"]
    BY <1>3, OutcomeSet DEF Closes, RowBecomes, Inflight, Outcome
  <2>2. Contract!Complete(e)
    BY <1>3, <2>1 DEF Contract!Complete, Outcome, Superseded
  <2> QED BY <2>2 DEF Contract!Next
<1>4. CASE ~Superseded /\ Closes(e, "pending") /\ UNCHANGED <<triaged, agg>>
  <2>1. Outcome' = Outcome
    BY <1>4, OutcomeSame DEF Closes, RowBecomes, Inflight
  <2> QED BY <1>4, <2>1, ContractQuiet
<1>5. CASE ~Superseded /\ Closes(e, "failed") /\ (EnterTriage(e) \/ UNCHANGED <<triaged, agg>>)
  <2>1. Outcome[e] = "open" /\ Outcome' = [Outcome EXCEPT ![e] = "failed"]
    BY <1>5, OutcomeSet DEF Closes, RowBecomes, Inflight, Outcome
  <2>2. Superseded' \in BOOLEAN
    BY DEF Superseded
  <2>3. Contract!Fail(e)
    BY <1>5, <2>1, <2>2 DEF Contract!Fail, Outcome
  <2> QED BY <2>3 DEF Contract!Next
<1> QED BY <1>1, <1>2, <1>3, <1>4, <1>5

LEMMA ContractStep ==
    ASSUME IInv, [Next]_vars
    PROVE  [Contract!Next]_(Contract!vars)
<1>1. ASSUME NEW e \in Effects, Emit(e) PROVE [Contract!Next]_(Contract!vars)
  <2>1. outbox \in [Effects -> Row]
    BY DEF IInv, TypeOK, Row
  <2>2. /\ outbox[e].status = "absent" /\ outbox'[e].status = "pending"
        /\ \A f \in Effects : f # e => outbox'[f].status = outbox[f].status
        /\ applied' = applied /\ Superseded' = Superseded
    BY <1>1, <2>1 DEF Emit, IInv, TypeOK, Superseded
  <2>3. Outcome[e] = "absent" /\ Outcome' = [Outcome EXCEPT ![e] = "open"]
    BY <2>2, OutcomeSet DEF Outcome
  <2>4. Contract!Open(e)
    BY <2>2, <2>3 DEF Contract!Open, Outcome
  <2> QED BY <2>4 DEF Contract!Next
<1>2. ASSUME NEW e \in Effects, Expire(e) \/ RetryDue(e) PROVE [Contract!Next]_(Contract!vars)
  <2>1. \A f \in Effects : outbox'[f].status = outbox[f].status
    BY <1>2, LockRows DEF SameButLock
  <2> QED BY <1>2, <2>1, OutcomeSame, ContractQuiet DEF Expire, RetryDue
<1>3. CASE StartAvailable
  <2>1. \A e \in Effects : \/ outbox'[e] = outbox[e]
                           \/ Claimable(e) /\ outbox'[e] = ClaimedRow(outbox[e])
    BY <1>3 DEF StartAvailable, Batch
  <2>2. \A e \in Effects : \/ outbox'[e].status = outbox[e].status
                           \/ {outbox[e].status, outbox'[e].status} \subseteq {"pending", "inflight"}
    BY <2>1, ClaimedOne DEF Claimable, Inflight
  <2> QED BY <1>3, <2>2, OutcomeSame, ContractQuiet DEF StartAvailable
<1>4. ASSUME NEW s \in Slots, Execute(s) PROVE [Contract!Next]_(Contract!vars)
  <2>0. PICK e \in Effects : e = tasks[s].effect
    BY <1>4 DEF IInv, TypeOK, Task, Busy, Execute
  <2>1. Outcome' = Outcome
    BY <1>4 DEF Execute, Outcome
  <2>2. CASE Duplicate(e)
    BY <1>4, <2>0, <2>1, <2>2, ContractQuiet DEF Execute
  <2>3. CASE ~Duplicate(e)
    <3>1. /\ ~Superseded /\ Superseded' = Superseded /\ applied' = [applied EXCEPT ![e] = @ + 1]
      BY <1>4, <2>0, <2>3 DEF Execute, Legal, IInv, TypeOK, Superseded
    <3>2. applied[e] = 0 /\ applied \in [Effects -> Nat]
      BY <2>3 DEF Duplicate, IInv, PinPart, TypeOK
    <3>3. Applied' = Applied \union {e} /\ e \notin Applied
      BY <3>1, <3>2 DEF Applied
    <3>4. Outcome[e] # "absent"
      BY <1>4, <2>0 DEF Execute, IInv, TaskPart, Outcome
    <3>5. Contract!Apply(e)
      BY <2>1, <3>1, <3>3, <3>4 DEF Contract!Apply, Outcome, Applied
    <3> QED BY <3>5 DEF Contract!Next
  <2> QED BY <2>2, <2>3
<1>5. ASSUME NEW s \in Slots, Refused(s) PROVE [Contract!Next]_(Contract!vars)
  BY <1>5, ContractError DEF Refused
<1>6. ASSUME NEW s \in Slots, NEW p \in BOOLEAN, Fault(s, p) PROVE [Contract!Next]_(Contract!vars)
  BY <1>6, ContractError DEF Fault
<1>7. ASSUME NEW s \in Slots, Settle(s) PROVE [Contract!Next]_(Contract!vars)
  <2>0. PICK e \in Effects : e = tasks[s].effect
    BY <1>7 DEF IInv, TypeOK, Task, Busy, Settle
  <2>1. UNCHANGED <<outbox, tries>> \/ Closes(e, "completed")
    BY <1>7, <2>0, CompleteSettles DEF Settle, IInv
  <2>2. applied[e] > 0 /\ UNCHANGED <<applied, agg>>
    BY <1>7, <2>0 DEF Settle, IInv, TaskPart
  <2>3. CASE UNCHANGED <<outbox, tries>>
    BY <2>2, <2>3, OutcomeSame, ContractQuiet
  <2>4. CASE Closes(e, "completed")
    <3>1. Outcome[e] = "open" /\ Outcome' = [Outcome EXCEPT ![e] = "completed"]
      BY <2>4, OutcomeSet DEF Closes, RowBecomes, Inflight, Outcome
    <3>2. Contract!Complete(e)
      BY <2>2, <3>1 DEF Contract!Complete, Outcome, Superseded
    <3> QED BY <3>2 DEF Contract!Next
  <2> QED BY <2>1, <2>3, <2>4
<1>8. ASSUME NEW s \in Slots, Defer(s) PROVE [Contract!Next]_(Contract!vars)
  <2>0. PICK e \in Effects : e = tasks[s].effect
    BY <1>8 DEF IInv, TypeOK, Task, Busy, Defer
  <2>1. tasks[s].incremented \in BOOLEAN
    BY <1>8 DEF IInv, TypeOK, Task, Busy, Defer
  <2>2. UNCHANGED <<outbox, tries>> \/ Closes(e, "pending")
    BY <1>8, <2>0, <2>1, DeferSettles DEF Defer, IInv
  <2>3. Outcome' = Outcome
    BY <2>2, OutcomeSame DEF Closes, RowBecomes, Inflight
  <2> QED BY <1>8, <2>3, ContractQuiet DEF Defer
<1>9. ASSUME NEW s \in Slots, Heartbeat(s) PROVE [Contract!Next]_(Contract!vars)
  <2>1. \A f \in Effects : outbox'[f].status = outbox[f].status
    <3>0. PICK e \in Effects : e = tasks[s].effect
      BY <1>9 DEF IInv, TypeOK, Task, Busy, Heartbeat
    <3>1. CASE Inflight(e)
      BY <1>9, <3>0, <3>1, BeatRows DEF SameButLock
    <3>2. CASE ~Inflight(e)
      BY <1>9, <3>0, <3>2 DEF Heartbeat
    <3> QED BY <3>1, <3>2
  <2> QED BY <1>9, <2>1, OutcomeSame, ContractQuiet DEF Heartbeat
<1>10. CASE Control
  <2>1. Outcome' = Outcome /\ applied' = applied
    BY <1>10 DEF Control, Outcome
  <2>2. Superseded' = ~Superseded \/ Superseded' = Superseded
    BY DEF Superseded
  <2>3. Superseded' = ~Superseded => Contract!Move
    BY <2>1 DEF Contract!Move, Outcome
  <2> QED BY <2>1, <2>2, <2>3, ContractQuiet DEF Contract!Next
<1>11. CASE Crash \/ UNCHANGED vars
  BY <1>11, OutcomeSame, ContractQuiet DEF Crash, vars
<1> QED BY <1>1, <1>2, <1>3, <1>4, <1>5, <1>6, <1>7, <1>8, <1>9, <1>10, <1>11 DEF Next, TaskStep

(* The outbox keeps the contract of its effects: applied at most once,       *)
(* settled at most once, completed only when applied or overtaken.           *)
THEOREM OutboxRefinesContract == Spec => RefinesContract
<1>1. Init => Contract!Init
  BY DEF Init, Contract!Init, Superseded
<1> QED BY <1>1, OutboxInvariant, ContractStep, PTL DEF Spec, RefinesContract, Contract!Spec
=============================================================================
