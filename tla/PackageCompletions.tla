------------------------- MODULE PackageCompletions -------------------------
(* Background package jobs and the news of their completion                 *)
(* (src/pal/packages/jobs.py and notifications.py): the job's thread races  *)
(* the tool call that started it; the news waits for an idle resident, is   *)
(* drained, handled and run as a background turn; a status read by the      *)
(* model consumes it once that tool result is durably delivered, in the     *)
(* control scope of the turn that started the job and in no other.          *)
EXTENDS Naturals

CONSTANTS
    MaxJobs,      \* bound on the package operations started
    MaxChats,     \* bound on the chat turns
    Scopes        \* control scopes of the chat turns

ASSUME PackageAssumption == MaxJobs \in Nat /\ MaxChats \in Nat

Jobs == 1..MaxJobs
Tokens == Jobs \X Scopes     \* a job, and the scope in which its status was read
Idle == 0
Chat == MaxJobs + 1
NoCall == [job |-> 0, kind |-> "none"]

VARIABLES
    job,        \* the thread of each job: none, running, finished (state file and
                \* done event written), over (its callback has returned)
    background, \* jobs whose tool call returned before they finished
    home,       \* the control scope of the turn that started each job
    call,       \* the tool call of the chat turn, if one is being executed
    scope,      \* the control scope of the chat turn, or of the last one
    chats,      \* chat turns so far
    resident,   \* Idle, Chat, or the job whose completion turn runs
    pending, claimed, seen, started,             \* PackageCompletionSource
    consumed,   \* its tokens: jobs with the scope a delivery told them in
    staged,     \* the tokens proposed by the chat turn's status reads
    queued,     \* drained events not yet handled
    turn,       \* the completion turn of each job: none, created, running, over
    stopped,    \* completion turns with a cancellation to deliver
    known,      \* jobs whose outcome a completely delivered tool result told
                \* Pal in the scope that started them
    told,       \* jobs whose completion turn opened in Pal's history
    shut        \* the source is closed

source == <<pending, claimed, seen, consumed, started, staged, queued>>
thread == <<job, background, home>>
turns == <<scope, chats, resident, turn, stopped>>
packageVars == <<thread, call, turns, source, known, told, shut>>

PackageInit ==
    /\ job = [j \in Jobs |-> "none"] /\ background = {}
    /\ scope \in Scopes /\ home = [j \in Jobs |-> scope]
    /\ call = NoCall /\ chats = 0 /\ resident = Idle
    /\ pending = {} /\ claimed = {} /\ seen = {} /\ consumed = {} /\ started = {}
    /\ staged = {} /\ queued = {} /\ turn = [j \in Jobs |-> "none"] /\ stopped = {}
    /\ known = {} /\ told = {} /\ shut = FALSE

-----------------------------------------------------------------------------
(* The chat turn and its tool calls.                                        *)

StartChat ==
    /\ chats < MaxChats /\ resident = Idle
    /\ chats' = chats + 1 /\ resident' = Chat /\ scope' \in Scopes
    /\ UNCHANGED <<thread, call, source, turn, stopped, known, told, shut>>

\* PackageJobs.start: one operation at a time; the call then waits for a while
StartJob(j) ==
    /\ resident = Chat /\ call = NoCall /\ ~shut
    /\ job[j] = "none" /\ \A i \in 1..j-1 : job[i] = "over"
    /\ job' = [job EXCEPT ![j] = "running"] /\ home' = [home EXCEPT ![j] = scope]
    /\ call' = [job |-> j, kind |-> "start"]
    /\ UNCHANGED <<background, turns, source, known, told, shut>>

\* ... and returns, under the completion's lock: the result, or "scheduled"
StartReturns ==
    /\ call.kind = "start"
    /\ background' = IF job[call.job] = "running" THEN background \cup {call.job} ELSE background
    /\ call' = [call EXCEPT !.kind = IF job[call.job] = "running" THEN "told_later" ELSE "result"]
    /\ UNCHANGED <<job, home, turns, source, known, told, shut>>

\* Mutant: a delivery takes back the news of its job whatever the scope
DeliveredMutant(tokens) ==
    LET taken == IF shut THEN {} ELSE {k \in tokens : k[1] \notin started}
        gone  == {j \in pending : \E k \in taken : k[1] = j}
    IN  consumed' = consumed \cup taken /\ pending' = pending \ gone /\ claimed' = claimed \ gone

\* _on_delivery: a completely delivered result consumes what it proposed, and
\* takes back the news of a job started in the same scope
Delivered(tokens) ==
    LET taken == IF shut THEN {} ELSE {k \in tokens : k[1] \notin started}
        gone  == {j \in pending : <<j, home[j]>> \in taken}
    IN  consumed' = consumed \cup taken /\ pending' = pending \ gone /\ claimed' = claimed \ gone

\* inspect_package_status of a job: stage_status_delivery proposes consumption
ReadStatus(j) ==
    /\ resident = Chat /\ call = NoCall /\ job[j] \in {"finished", "over"}
    /\ call' = [job |-> j, kind |-> "result"]
    /\ staged' = IF shut THEN staged ELSE staged \cup {<<j, scope>>}
    /\ UNCHANGED <<thread, turns, pending, claimed, seen, consumed, started, queued, known, told, shut>>

\* The tool result is committed: whole, or cut short and only referenced.
Commit(complete) ==
    /\ call.kind \in {"result", "told_later"} /\ call' = NoCall
    /\ IF complete /\ call.kind = "result"
       THEN /\ Delivered(staged \cap {<<call.job, scope>>})
            /\ known' = IF home[call.job] = scope THEN known \cup {call.job} ELSE known
       ELSE UNCHANGED <<consumed, pending, claimed, known>>
    /\ staged' = IF shut THEN staged ELSE staged \ {<<call.job, scope>>}
    /\ UNCHANGED <<thread, turns, seen, started, queued, told, shut>>

\* The chat turn ends, or is interrupted in a tool call: its tokens are dropped.
EndChat ==
    /\ resident = Chat /\ call.kind # "start"
    /\ resident' = Idle /\ call' = NoCall
    /\ staged' = IF shut THEN staged ELSE {}
    /\ UNCHANGED <<thread, scope, chats, turn, stopped, pending, claimed, seen, consumed, started, queued, known, told, shut>>

-----------------------------------------------------------------------------
(* The job's thread.                                                        *)

\* The operation ends: state file and done event, under the completion's lock.
Finish(j) ==
    /\ job[j] = "running"
    /\ job' = [job EXCEPT ![j] = IF j \in background THEN "finished" ELSE "over"]
    /\ UNCHANGED <<background, home, call, turns, source, known, told, shut>>

\* Mutant: the news is queued although a delivered status consumed it
NotifyMutant(j) ==
    /\ job[j] = "finished" /\ job' = [job EXCEPT ![j] = "over"]
    /\ IF shut \/ j \in seen
       THEN UNCHANGED <<seen, pending>>
       ELSE seen' = seen \cup {j} /\ pending' = pending \cup {j}
    /\ UNCHANGED <<background, home, call, turns, claimed, consumed, started, staged, queued, known, told, shut>>

\* notify(): once, and not when the news was consumed before it arrived
Notify(j) ==
    /\ job[j] = "finished" /\ job' = [job EXCEPT ![j] = "over"]
    /\ IF shut \/ j \in seen
       THEN UNCHANGED <<seen, pending>>
       ELSE /\ seen' = seen \cup {j}
            /\ pending' = IF <<j, home[j]>> \in consumed THEN pending ELSE pending \cup {j}
    /\ UNCHANGED <<background, home, call, turns, claimed, consumed, started, staged, queued, known, told, shut>>

-----------------------------------------------------------------------------
(* The event source and the completion turn.                                *)

\* Mutant: the drain does not claim what it hands out
DrainMutant(j) ==
    /\ ~shut /\ resident = Idle /\ j \in pending \ claimed
    /\ queued' = queued \cup {j}
    /\ UNCHANGED <<thread, call, turns, pending, claimed, seen, consumed, started, staged, known, told, shut>>

\* prepare and drain: only an idle resident claims, one job at a time
Drain(j) ==
    /\ ~shut /\ resident = Idle /\ j \in pending \ claimed
    /\ claimed' = claimed \cup {j} /\ queued' = queued \cup {j}
    /\ UNCHANGED <<thread, call, turns, pending, seen, consumed, started, staged, known, told, shut>>

\* handle, under the transition lock: the news is gone, ...
HandleGone(j) ==
    /\ j \in queued /\ queued' = queued \ {j}
    /\ shut \/ j \notin claimed \cap pending
    /\ UNCHANGED <<thread, call, turns, pending, claimed, seen, consumed, started, staged, known, told, shut>>

\* ... the resident is busy (or refuses the turn): the claim is given back, ...
HandleBusy(j) ==
    /\ j \in queued /\ queued' = queued \ {j}
    /\ ~shut /\ j \in claimed \cap pending /\ resident # Idle
    /\ claimed' = claimed \ {j}
    /\ UNCHANGED <<thread, call, turns, pending, seen, consumed, started, staged, known, told, shut>>

\* ... or the completion turn is admitted and its task created.
Handle(j) ==
    /\ j \in queued /\ queued' = queued \ {j}
    /\ ~shut /\ j \in claimed \cap pending /\ resident = Idle
    /\ started' = started \cup {j} /\ resident' = j
    /\ turn' = [turn EXCEPT ![j] = "created"]
    /\ UNCHANGED <<thread, call, scope, chats, stopped, pending, claimed, seen, consumed, staged, known, told, shut>>

\* The first step of _run opens the turn in the history; a task cancelled
\* before it ends without entering _run, and only its callback frees the slot.
TurnFirstStep(j) ==
    /\ turn[j] = "created"
    /\ IF j \in stopped
       THEN /\ turn' = [turn EXCEPT ![j] = "over"] /\ resident' = Idle
            /\ UNCHANGED told
       ELSE /\ turn' = [turn EXCEPT ![j] = "running"] /\ told' = told \cup {j}
            /\ UNCHANGED resident
    /\ stopped' = stopped \ {j}
    /\ UNCHANGED <<thread, call, scope, chats, source, known, shut>>

\* The turn succeeds, fails or is cancelled: the finally clause of _run.
RunEnds(j) ==
    /\ turn[j] = "running"
    /\ turn' = [turn EXCEPT ![j] = "over"] /\ resident' = Idle /\ stopped' = stopped \ {j}
    /\ pending' = pending \ {j} /\ claimed' = claimed \ {j} /\ started' = started \ {j}
    /\ UNCHANGED <<thread, call, scope, chats, seen, consumed, staged, queued, known, told, shut>>

\* The user, a reset or the shutdown interrupts the turn.
Interrupt(j) ==
    /\ turn[j] \in {"created", "running"}
    /\ j \notin stopped /\ stopped' = stopped \cup {j}
    /\ UNCHANGED <<thread, call, scope, chats, resident, turn, source, known, told, shut>>

\* close(): the plugin host stops
Close ==
    /\ ~shut /\ shut' = TRUE
    /\ pending' = {} /\ claimed' = {} /\ staged' = {}
    /\ stopped' = stopped \cup {j \in Jobs : turn[j] \in {"created", "running"}}
    /\ UNCHANGED <<thread, call, scope, chats, resident, turn, seen, consumed, started, queued, known, told>>

ChatStep == StartReturns \/ EndChat \/ \E b \in BOOLEAN : Commit(b)
NewsStep(j) ==
    \/ Finish(j) \/ Notify(j) \/ Drain(j) \/ HandleGone(j) \/ HandleBusy(j) \/ Handle(j)
    \/ TurnFirstStep(j) \/ RunEnds(j)

PackageNext ==
    \/ StartChat \/ ChatStep \/ Close
    \/ \E j \in Jobs : StartJob(j) \/ ReadStatus(j) \/ Interrupt(j) \/ NewsStep(j)

PackageSpec == PackageInit /\ [][PackageNext]_packageVars

\* Turns and operations end, threads run, and the main loop keeps pumping.
PackageFairSpec ==
    /\ PackageSpec /\ WF_packageVars(ChatStep) /\ WF_packageVars(EndChat)
    /\ \A j \in Jobs : WF_packageVars(NewsStep(j))
-----------------------------------------------------------------------------
\* Every set holds jobs; a started completion is claimed while the source is open.
PackageTypeOK ==
    /\ job \in [Jobs -> {"none", "running", "finished", "over"}]
    /\ turn \in [Jobs -> {"none", "created", "running", "over"}]
    /\ call \in [job : 0..MaxJobs, kind : {"none", "start", "result", "told_later"}]
    /\ chats \in 0..MaxChats /\ resident \in Jobs \cup {Idle, Chat} /\ shut \in BOOLEAN
    /\ scope \in Scopes /\ home \in [Jobs -> Scopes]
    /\ background \cup pending \cup claimed \cup seen \cup started \cup queued \cup stopped
           \cup known \cup told \subseteq Jobs
    /\ consumed \cup staged \subseteq Tokens
    /\ shut \/ started \subseteq claimed

(* Pal is never woken for what it has already been told: no completion turn *)
(* starts for a job whose outcome was completely delivered as a tool result *)
(* before in the scope that started it, whichever of thread, drain, handler *)
(* and delivery came first.  A delivery in another scope takes nothing back.*)
NoEcho == [][\A j \in Jobs : turn[j] = "none" /\ turn'[j] # "none" => j \notin known]_packageVars

(* Nothing is consumed on a promise: while the source is open, the news of  *)
(* a background job is still to come, waiting, or in a turn, unless a tool  *)
(* result in its own scope or a turn has really told Pal.                   *)
NewsNotLost ==
    \A j \in background \ (known \cup told) :
        shut \/ job[j] \in {"running", "finished"} \/ j \in pending

(* A job is answered for by its own tool call or in the background, never   *)
(* by both: what the call returned as finished is not notified again.       *)
ForegroundIsSilent == \A j \in seen : j \in background

\* The completion turn was cancelled before its task's first step: _run was
\* never entered, so neither was its finally clause, and the claim stays.
Skipped(j) == turn[j] = "over" /\ j \notin told

(* A claim is held for a reason: by an event still to be handled, or by a   *)
(* turn that is not over.  A leaked claim hides the news for ever; the one  *)
(* way to leak it is to cancel a turn before its first step.                *)
ClaimsAreHeld ==
    \A j \in claimed : j \in queued \/ turn[j] \in {"created", "running"} \/ Skipped(j)

(* The news of a job is somebody's business until Pal has it, and only one's. *)
NewsKept == PackageTypeOK /\ NewsNotLost /\ ForegroundIsSilent /\ ClaimsAreHeld

(* "Completion will be delivered to Pal to continue the initiating task     *)
(* when it is idle": the news of every background job reaches Pal, by a     *)
(* turn or by a status delivered where the job was started, and not by one  *)
(* delivered elsewhere, unless the source is closed or the turn was         *)
(* cancelled before its first step.                                         *)
CompletionReachesPal ==
    \A j \in Jobs : j \in background ~> (j \in known \cup told \/ shut \/ Skipped(j))
=============================================================================
