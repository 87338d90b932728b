------------------------------ MODULE SideTurns ------------------------------
(* Side questions (src/pal/core/btw.py): one slot, the task of a side turn  *)
(* with its shielded cleanup and its done callback, and the two operations  *)
(* that cancel it and wait: soft reset and process shutdown.  A task        *)
(* cancelled before its first step never enters its body; cancel() on a     *)
(* finished task does nothing and awaiting it returns at once, even before  *)
(* its callback has run.                                                    *)
EXTENDS Naturals

CONSTANTS
    Closers,       \* the operations that quiesce: a reset, the shutdown
    MaxTurns       \* bound on the side turns started

ASSUME SideTurnsAssumption == MaxTurns \in Nat

Turns == 1..MaxTurns
Places == {"none", "created", "running", "replying", "cleanup", "callback", "ended"}
Live == {"created", "running", "replying", "cleanup"}

VARIABLES
    slot,        \* state.btw_turn_id, with core._btw_turn; 0 for none
    registered,  \* turns in active_turns, turn_tasks and turn_scopes
    pinned,      \* turns whose history, snapshots and model branch are held
    place,       \* where the task of each turn is
    asked,       \* turns whose task has a cancellation to deliver
    status,      \* the result of each task, and then what its TURN_END reports
    caught,      \* turns that were cancelled while they cleaned up
    cleaning,    \* turns whose finish_transient_turn runs, a task of its own
    closer,      \* the quiescing operations
    awaited,     \* the turn each of them waits for
    closed,      \* PalCore was closed
    ends         \* TURN_END events per turn

task == <<place, asked, status, caught, cleaning>>
vars == <<slot, registered, pinned, task, closer, awaited, closed, ends>>

Init ==
    /\ slot = 0 /\ registered = {} /\ pinned = {}
    /\ place = [t \in Turns |-> "none"] /\ asked = {} /\ caught = {} /\ cleaning = {}
    /\ status = [t \in Turns |-> "failed"] /\ ends = [t \in Turns |-> 0] /\ closed = FALSE
    /\ closer = [c \in Closers |-> "idle"] /\ awaited = [c \in Closers |-> 0]

Quiescing == \E c \in Closers : closer[c] # "idle"
Moves(t, p) == place' = [place EXCEPT ![t] = p]

\* start_btw: refused while the runtime quiesces or the slot is taken
Start(t) ==
    /\ place[t] = "none" /\ \A u \in 1..t-1 : place[u] # "none"
    /\ ~Quiescing /\ slot = 0
    /\ slot' = t /\ registered' = registered \cup {t} /\ pinned' = pinned \cup {t}
    /\ Moves(t, "created")
    /\ UNCHANGED <<asked, status, caught, cleaning, closer, awaited, closed, ends>>

\* Mutant: a task cancelled before its first step has no callback
FirstStepMutant(t) ==
    /\ place[t] = "created"
    /\ IF t \in asked
       THEN Moves(t, "ended") /\ status' = [status EXCEPT ![t] = "interrupted"]
       ELSE Moves(t, "running") /\ UNCHANGED status
    /\ asked' = asked \ {t}
    /\ UNCHANGED <<slot, registered, pinned, caught, cleaning, closer, awaited, closed, ends>>

\* The first step of the task: a cancellation that is already there ends it.
FirstStep(t) ==
    /\ place[t] = "created"
    /\ IF t \in asked
       THEN Moves(t, "callback") /\ status' = [status EXCEPT ![t] = "interrupted"]
       ELSE Moves(t, "running") /\ UNCHANGED status
    /\ asked' = asked \ {t}
    /\ UNCHANGED <<slot, registered, pinned, caught, cleaning, closer, awaited, closed, ends>>

\* The finally clause starts the cleanup as a task of its own.
EnterCleanup(t, s) ==
    /\ Moves(t, "cleanup") /\ cleaning' = cleaning \cup {t}
    /\ status' = [status EXCEPT ![t] = s]

\* The program ended with an outcome, ...
Outcome(t) ==
    /\ place[t] = "running" /\ t \notin asked
    /\ \E s \in {"success", "failed"} : EnterCleanup(t, s)
    /\ UNCHANGED <<slot, registered, pinned, asked, caught, closer, awaited, closed, ends>>

\* ... or raised: a reply is awaited first.
Raise(t) ==
    /\ place[t] = "running" /\ t \notin asked /\ Moves(t, "replying")
    /\ UNCHANGED <<slot, registered, pinned, asked, status, caught, cleaning, closer, awaited, closed, ends>>
Replied(t) ==
    /\ place[t] = "replying" /\ t \notin asked /\ EnterCleanup(t, "failed")
    /\ UNCHANGED <<slot, registered, pinned, asked, caught, closer, awaited, closed, ends>>

\* The cancellation arrives at an await before the cleanup.
Cancelled(t) ==
    /\ place[t] \in {"running", "replying"} /\ t \in asked
    /\ asked' = asked \ {t} /\ EnterCleanup(t, "interrupted")
    /\ UNCHANGED <<slot, registered, pinned, caught, closer, awaited, closed, ends>>

\* finish_transient_turn ends, by itself
CleanupExits(t) ==
    /\ t \in cleaning /\ cleaning' = cleaning \ {t}
    /\ UNCHANGED <<slot, registered, pinned, place, asked, status, caught, closer, awaited, closed, ends>>

\* Mutant: the cleanup is not shielded: a cancellation leaves it behind
CancelledInCleanupMutant(t) ==
    /\ place[t] = "cleanup" /\ t \in asked
    /\ asked' = asked \ {t} /\ caught' = caught \cup {t} /\ Moves(t, "callback")
    /\ UNCHANGED <<slot, registered, pinned, status, cleaning, closer, awaited, closed, ends>>

\* The loop around the shielded cleanup: a cancellation is remembered, ...
CancelledInCleanup(t) ==
    /\ place[t] = "cleanup" /\ t \in asked
    /\ asked' = asked \ {t} /\ caught' = caught \cup {t}
    /\ UNCHANGED <<slot, registered, pinned, place, status, cleaning, closer, awaited, closed, ends>>

\* Mutant: the remembered cancellation is not raised again
TaskEndsMutant(t) ==
    /\ place[t] = "cleanup" /\ t \notin asked \cup cleaning
    /\ Moves(t, "callback")
    /\ \E s \in {status[t], IF status[t] = "interrupted" THEN status[t] ELSE "failed"} :
          status' = [status EXCEPT ![t] = s]
    /\ UNCHANGED <<slot, registered, pinned, asked, caught, cleaning, closer, awaited, closed, ends>>

\* ... and the task ends when the cleanup has, well or not; a remembered
\* cancellation is raised again, whatever the program's outcome was.
TaskEnds(t) ==
    /\ place[t] = "cleanup" /\ t \notin asked \cup cleaning
    /\ Moves(t, "callback")
    /\ \E s \in {status[t], IF status[t] = "interrupted" THEN status[t] ELSE "failed"} :
          status' = [status EXCEPT ![t] = IF t \in caught THEN "interrupted" ELSE s]
    /\ UNCHANGED <<slot, registered, pinned, asked, caught, cleaning, closer, awaited, closed, ends>>

\* finished(): every owner released, the registries, the slot, TURN_END; a
\* release that raises is reported as a failure.
Finished(t) ==
    /\ place[t] = "callback" /\ Moves(t, "ended")
    /\ pinned' = pinned \ {t} /\ registered' = registered \ {t}
    /\ slot' = IF slot = t THEN 0 ELSE slot
    /\ ends' = [ends EXCEPT ![t] = @ + 1]
    /\ \E s \in {status[t], "failed"} : status' = [status EXCEPT ![t] = s]
    /\ UNCHANGED <<asked, caught, cleaning, closer, awaited, closed>>

\* _execute_soft_reset_async, _checkpoint_for_shutdown_async: the barrier first
Quiesce(c) ==
    /\ closer[c] = "idle"
    /\ closer' = [closer EXCEPT ![c] = "barrier"]
    /\ UNCHANGED <<slot, registered, pinned, task, awaited, closed, ends>>

\* Task.cancel(): only a live task can still be cancelled
CancelTask(t) == asked' = IF t # 0 /\ place[t] \in Live THEN asked \cup {t} ELSE asked

\* cancel_btw
CancelBtw(c) ==
    /\ closer[c] = "barrier"
    /\ CancelTask(slot)
    /\ closer' = [closer EXCEPT ![c] = IF slot = 0 THEN "alone" ELSE "waiting"]
    /\ awaited' = [awaited EXCEPT ![c] = slot]
    /\ UNCHANGED <<slot, registered, pinned, place, status, caught, cleaning, closed, ends>>

\* The awaited task is done.  The waiter queued behind finished(), unless the
\* task was already done when it began to wait.
Awake(c) ==
    /\ closer[c] = "waiting" /\ place[awaited[c]] \in {"callback", "ended"}
    /\ closer' = [closer EXCEPT ![c] = "alone"]
    /\ UNCHANGED <<slot, registered, pinned, task, awaited, closed, ends>>

\* The reset or the checkpoint is done and its barrier is lifted.
Resume(c) ==
    /\ closer[c] = "alone"
    /\ closer' = [closer EXCEPT ![c] = "idle"] /\ awaited' = [awaited EXCEPT ![c] = 0]
    /\ UNCHANGED <<slot, registered, pinned, task, closed, ends>>

\* PalCore's own close: the side task is cancelled and not awaited
CloseCore ==
    /\ ~closed /\ closed' = TRUE /\ CancelTask(slot)
    /\ UNCHANGED <<slot, registered, pinned, place, status, caught, cleaning, closer, awaited, ends>>

TaskStep(t) ==
    \/ FirstStep(t) \/ Replied(t) \/ Cancelled(t) \/ CancelledInCleanup(t)
    \/ TaskEnds(t) \/ Finished(t) \/ CleanupExits(t)

Next ==
    \/ \E t \in Turns : Start(t) \/ Outcome(t) \/ Raise(t) \/ TaskStep(t)
    \/ \E c \in Closers : Quiesce(c) \/ CancelBtw(c) \/ Awake(c) \/ Resume(c)
    \/ CloseCore

Spec == Init /\ [][Next]_vars

\* The event loop runs what is ready, a reply is sent or refused, and the
\* cleanup of the tools ends; a model request owes nothing.
FairSpec ==
    /\ Spec
    /\ \A t \in Turns : WF_vars(TaskStep(t))
    /\ \A c \in Closers : WF_vars(CancelBtw(c)) /\ WF_vars(Awake(c))
-----------------------------------------------------------------------------
\* Slot, registries, tasks and waiters have their types.
TypeOK ==
    /\ slot \in 0..MaxTurns
    /\ registered \cup pinned \cup asked \cup caught \cup cleaning \subseteq Turns
    /\ place \in [Turns -> Places]
    /\ status \in [Turns -> {"success", "failed", "interrupted"}]
    /\ closer \in [Closers -> {"idle", "barrier", "waiting", "alone"}]
    /\ awaited \in [Closers -> 0..MaxTurns] /\ closed \in BOOLEAN /\ ends \in [Turns -> 0..1]

(* The slot is the lease of everything a side turn holds: whatever is still *)
(* registered, pinned, running or being cleaned up belongs to the turn in   *)
(* the slot, cancelled before its first step, in mid-reply or twice during  *)
(* its cleanup; so the next side turn starts with nothing left behind.      *)
SlotGuardsLeases ==
    \A t \in Turns :
        t \in registered \cup pinned \cup cleaning \/ place[t] \in Live \cup {"callback"}
            => slot = t

(* While a reset clears the history or the shutdown saves it, no side turn  *)
(* and no tool it started is still at work.                                 *)
QuiescedAlone ==
    \A c \in Closers : closer[c] = "alone" =>
        cleaning = {} /\ \A t \in Turns : place[t] \notin Live

(* One side turn at most, and none beside a reset or the shutdown.          *)
SideSlotSafe == TypeOK /\ SlotGuardsLeases /\ QuiescedAlone

(* Once a cancellation is on its way to a live side turn, the turn's task   *)
(* ends as interrupted, whichever await the cancellation meets and whatever *)
(* the program had come to by then; the observer of TURN_END may be told of *)
(* a failed release instead, and never sees the turn succeed.               *)
CancelledNeverSucceeds ==
    \A t \in Turns :
        [](t \in asked => [](/\ place[t] = "callback" => status[t] = "interrupted"
                            /\ place[t] = "ended" => status[t] # "success"))

(* Reset and shutdown wait without a timeout; they do return, even when the *)
(* side turn's model request never answers.                                 *)
ClosersReturn == \A c \in Closers : closer[c] # "idle" ~> closer[c] = "alone"

(* Every cancelled side turn ends with a TURN_END that frees the slot.      *)
CancelledTurnsEnd == \A t \in Turns : t \in asked ~> ends[t] = 1

(* A cancellation ends, for the turn it hits and for everyone who waits.    *)
CancellationsEnd == ClosersReturn /\ CancelledTurnsEnd
=============================================================================
