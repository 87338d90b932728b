---------------------------- MODULE SideWorkProofs ----------------------------
(* TLAPS proofs about the two kinds of work beside the conversation:        *)
(* SideTurns, for any number of side turns and of operations that quiesce,  *)
(* and PackageCompletions, for any number of jobs and chats.  The two share *)
(* no variable: each has its own specification, and its theorems are of it. *)
EXTENDS SideTurns, PackageCompletions, TLAPS

-----------------------------------------------------------------------------
(* SideTurns.  SlotGuardsLeases is nearly inductive; what a closer may rely *)
(* on is not, because it goes on when the task it awaits is done, whatever  *)
(* the slot says by then: IInv adds that the task it waits for is the only  *)
(* one that can still be alive.                                             *)

\* The cleanup task runs inside the turn that started it, only a live task
\* has a cancellation to deliver, and a turn has announced its end exactly
\* when its callback has run.
TaskPart ==
    \A t \in Turns :
        /\ t \in cleaning => place[t] = "cleanup"
        /\ t \in asked => place[t] \in Live
        /\ ends[t] = IF place[t] = "ended" THEN 1 ELSE 0

\* Whoever waits, waits for the last live turn.
WaitPart ==
    \A c \in Closers : closer[c] = "waiting" =>
        /\ awaited[c] \in Turns
        /\ \A t \in Turns : place[t] \in Live => t = awaited[c]

IInv == TypeOK /\ SlotGuardsLeases /\ QuiescedAlone /\ TaskPart /\ WaitPart

LEMMA SideInit == Init => IInv
<1> SUFFICES ASSUME Init PROVE IInv
  OBVIOUS
<1> USE SideTurnsAssumption DEF Init
<1>1. TypeOK
  <2>1. closed \in BOOLEAN
    BY Zenon
  <2>2. 0 \in 0..MaxTurns /\ 0 \in 0..1
    BY SMT
  <2>3. place \in [Turns -> Places] /\ status \in [Turns -> {"success", "failed", "interrupted"}]
    BY DEF Places
  <2>4. closer \in [Closers -> {"idle", "barrier", "waiting", "alone"}]
    OBVIOUS
  <2>5. awaited \in [Closers -> 0..MaxTurns] /\ ends \in [Turns -> 0..1]
    BY <2>2
  <2> QED BY <2>1, <2>2, <2>3, <2>4, <2>5 DEF TypeOK
<1>2. SlotGuardsLeases /\ TaskPart
  BY DEF SlotGuardsLeases, TaskPart, Turns, Live
<1>3. QuiescedAlone /\ WaitPart
  BY DEF QuiescedAlone, WaitPart
<1> QED BY <1>1, <1>2, <1>3 DEF IInv

(* A step of a turn's task moves one turn and no closer.                    *)
LEMMA SideTaskStep ==
    ASSUME IInv, NEW t \in Turns, Start(t) \/ Outcome(t) \/ Raise(t) \/ TaskStep(t)
    PROVE  IInv'
<1> USE SideTurnsAssumption DEF IInv, Turns
<1>1. CASE Start(t)
  BY <1>1 DEF Start, Moves, Quiescing, TypeOK, SlotGuardsLeases, QuiescedAlone, TaskPart, WaitPart, Places, Live
<1>2. CASE Outcome(t)
  BY <1>2 DEF Outcome, EnterCleanup, Moves, TypeOK, SlotGuardsLeases, QuiescedAlone, TaskPart, WaitPart, Places, Live
<1>3. CASE Raise(t)
  BY <1>3 DEF Raise, Moves, TypeOK, SlotGuardsLeases, QuiescedAlone, TaskPart, WaitPart, Places, Live
<1>4. CASE FirstStep(t)
  <2>1. CASE t \in asked
    <3>1. TypeOK'
      BY <1>4, <2>1 DEF FirstStep, Moves, TypeOK, Places
    <3>2. SlotGuardsLeases' /\ TaskPart'
      BY <1>4, <2>1 DEF FirstStep, Moves, TypeOK, SlotGuardsLeases, TaskPart, Places, Live
    <3>3. QuiescedAlone' /\ WaitPart'
      BY <1>4, <2>1 DEF FirstStep, Moves, TypeOK, QuiescedAlone, WaitPart, Places, Live
    <3> QED BY <3>1, <3>2, <3>3
  <2>2. CASE t \notin asked
    BY <1>4, <2>2 DEF FirstStep, Moves, TypeOK, SlotGuardsLeases, QuiescedAlone, TaskPart, WaitPart, Places, Live
  <2> QED BY <2>1, <2>2
<1>5. CASE Replied(t)
  BY <1>5 DEF Replied, EnterCleanup, Moves, TypeOK, SlotGuardsLeases, QuiescedAlone, TaskPart, WaitPart, Places, Live
<1>6. CASE Cancelled(t)
  BY <1>6 DEF Cancelled, EnterCleanup, Moves, TypeOK, SlotGuardsLeases, QuiescedAlone, TaskPart, WaitPart, Places, Live
<1>7. CASE CancelledInCleanup(t)
  BY <1>7 DEF CancelledInCleanup, TypeOK, SlotGuardsLeases, QuiescedAlone, TaskPart, WaitPart, Places, Live
<1>8. CASE TaskEnds(t)
  BY <1>8 DEF TaskEnds, Moves, TypeOK, SlotGuardsLeases, QuiescedAlone, TaskPart, WaitPart, Places, Live
<1>9. CASE Finished(t)
  <2>1. status' \in [Turns -> {"success", "failed", "interrupted"}]
    BY <1>9 DEF Finished, TypeOK
  <2>2. TypeOK'
    <3>1. ends[t] = 0
      BY <1>9 DEF Finished, TaskPart
    <3>2. ends' \in [Turns -> 0..1]
      BY <1>9, <3>1 DEF Finished, TypeOK
    <3>3. place' \in [Turns -> Places]
      BY <1>9 DEF Finished, Moves, TypeOK, Places
    <3>4. slot' \in 0..MaxTurns
      BY <1>9 DEF Finished, TypeOK
    <3> QED BY <1>9, <2>1, <3>2, <3>3, <3>4 DEF Finished, TypeOK
  <2>3. SlotGuardsLeases' /\ TaskPart'
    BY <1>9 DEF Finished, Moves, TypeOK, SlotGuardsLeases, TaskPart, Places, Live
  <2>4. QuiescedAlone' /\ WaitPart'
    BY <1>9 DEF Finished, Moves, TypeOK, QuiescedAlone, WaitPart, Places, Live
  <2> QED BY <2>2, <2>3, <2>4
<1>10. CASE CleanupExits(t)
  BY <1>10 DEF CleanupExits, TypeOK, SlotGuardsLeases, QuiescedAlone, TaskPart, WaitPart, Places, Live
<1> QED BY <1>1, <1>2, <1>3, <1>4, <1>5, <1>6, <1>7, <1>8, <1>9, <1>10 DEF TaskStep

(* A step of a closer, or the core's close, moves no turn.                  *)
LEMMA SideCloserStep ==
    ASSUME IInv,
           CloseCore \/ \E c \in Closers : Quiesce(c) \/ CancelBtw(c) \/ Awake(c) \/ Resume(c)
    PROVE  IInv'
<1> USE SideTurnsAssumption DEF IInv, Turns
<1>1. CASE CloseCore
  BY <1>1 DEF CloseCore, CancelTask, TypeOK, SlotGuardsLeases, QuiescedAlone, TaskPart, WaitPart
<1>2. ASSUME NEW c \in Closers, Quiesce(c) PROVE IInv'
  BY <1>2 DEF Quiesce, task, TypeOK, SlotGuardsLeases, QuiescedAlone, TaskPart, WaitPart
<1>3. ASSUME NEW c \in Closers, CancelBtw(c) PROVE IInv'
  BY <1>3 DEF CancelBtw, CancelTask, TypeOK, SlotGuardsLeases, QuiescedAlone, TaskPart, WaitPart, Live
<1>4. ASSUME NEW c \in Closers, Awake(c) PROVE IInv'
  BY <1>4 DEF Awake, task, TypeOK, SlotGuardsLeases, QuiescedAlone, TaskPart, WaitPart, Live
<1>5. ASSUME NEW c \in Closers, Resume(c) PROVE IInv'
  BY <1>5 DEF Resume, task, TypeOK, SlotGuardsLeases, QuiescedAlone, TaskPart, WaitPart
<1> QED BY <1>1, <1>2, <1>3, <1>4, <1>5

LEMMA SideStep == IInv /\ [Next]_vars => IInv'
<1> SUFFICES ASSUME IInv, [Next]_vars PROVE IInv'
  OBVIOUS
<1>1. CASE UNCHANGED vars
  BY <1>1 DEF vars, task, IInv, TypeOK, SlotGuardsLeases, QuiescedAlone, TaskPart, WaitPart
<1>2. CASE Next
  BY <1>2, SideTaskStep, SideCloserStep DEF Next
<1> QED BY <1>1, <1>2

LEMMA SideInvariant == Spec => []IInv
BY SideInit, SideStep, PTL DEF Spec

(* One slot is enough: the turn in it owns everything registered, pinned,   *)
(* running or being cleaned up, and while a reset or the shutdown is at its *)
(* critical part no side turn and no tool of one is at work.                *)
THEOREM SideSlotIsSafe == Spec => []SideSlotSafe
<1>1. IInv => SideSlotSafe
  BY DEF IInv, SideSlotSafe
<1> QED BY <1>1, SideInvariant, PTL

\* A turn that was cancelled: the cancellation is still to be delivered, was
\* remembered by the cleanup, or shows in the result.
Doomed(t) ==
    \/ t \in asked
    \/ t \in caught /\ place[t] = "cleanup"
    \/ status[t] = "interrupted" /\ place[t] \in {"cleanup", "callback", "ended"}
    \/ status[t] = "failed" /\ place[t] = "ended"

(* A doomed turn stays doomed, whoever moves.                               *)
LEMMA SideDoomedStep ==
    ASSUME IInv, [Next]_vars, NEW t \in Turns, Doomed(t)
    PROVE  Doomed(t)'
<1> USE DEF IInv, TypeOK
<1>1. ASSUME NEW u \in Turns, Start(u) \/ Outcome(u) \/ Raise(u) PROVE Doomed(t)'
  BY <1>1 DEF Start, Outcome, Raise, EnterCleanup, Moves, Doomed, TaskPart, Live
<1>2. ASSUME NEW u \in Turns, FirstStep(u) \/ Replied(u) \/ Cancelled(u) PROVE Doomed(t)'
  BY <1>2 DEF FirstStep, Replied, Cancelled, EnterCleanup, Moves, Doomed, TaskPart, Live
<1>3. ASSUME NEW u \in Turns, CancelledInCleanup(u) \/ CleanupExits(u) PROVE Doomed(t)'
  BY <1>3 DEF CancelledInCleanup, CleanupExits, Doomed
<1>4. ASSUME NEW u \in Turns, TaskEnds(u) PROVE Doomed(t)'
  BY <1>4 DEF TaskEnds, Moves, Doomed
<1>5. ASSUME NEW u \in Turns, Finished(u) PROVE Doomed(t)'
  BY <1>5 DEF Finished, Moves, Doomed, TaskPart, Live
<1>6. CASE asked \subseteq asked' /\ UNCHANGED <<place, status, caught>>
  BY <1>6 DEF Doomed
<1>7. ASSUME \/ UNCHANGED vars \/ CloseCore
             \/ \E c \in Closers : Quiesce(c) \/ CancelBtw(c) \/ Awake(c) \/ Resume(c)
      PROVE  asked \subseteq asked' /\ UNCHANGED <<place, status, caught>>
  BY <1>7 DEF vars, CloseCore, Quiesce, CancelBtw, CancelTask, Awake, Resume, task
<1> QED BY <1>1, <1>2, <1>3, <1>4, <1>5, <1>6, <1>7 DEF Next, TaskStep

(* Once a cancellation is on its way to a live side turn, its task ends as  *)
(* interrupted and its TURN_END never reports success, in whichever await,  *)
(* reply or cleanup the cancellation meets it.                              *)
THEOREM SideCancelledNeverSucceeds == Spec => CancelledNeverSucceeds
<1> SUFFICES ASSUME NEW t \in Turns
             PROVE  Spec => [](t \in asked => [](/\ place[t] = "callback" => status[t] = "interrupted"
                                                /\ place[t] = "ended" => status[t] # "success"))
  BY DEF CancelledNeverSucceeds
<1>1. t \in asked => Doomed(t)
  BY DEF Doomed
<1>2. IInv /\ [Next]_vars /\ Doomed(t) => Doomed(t)'
  BY SideDoomedStep
<1>3. IInv /\ Doomed(t) => /\ (place[t] = "callback" => status[t] = "interrupted")
                          /\ (place[t] = "ended" => status[t] # "success")
  BY DEF IInv, Doomed, TaskPart, Live
<1> QED BY <1>1, <1>2, <1>3, SideInvariant, PTL DEF Spec

-----------------------------------------------------------------------------
(* PackageCompletions.  The invariants of the run are not inductive: that a *)
(* claim is held, or that the news of a job is not told twice, rests on     *)
(* each job passing each stage once (thread, notification, drain, turn),    *)
(* which NewsInv spells out.                                                *)

\* A job is notified after it ended, and only if its tool call did not wait for it.
NewsJobPart ==
    \A j \in Jobs :
        /\ j \in seen => job[j] = "over" /\ j \in background
        /\ j \in background => job[j] # "none"
        /\ job[j] = "finished" => j \in background

\* What is claimed is pending.
NewsSourcePart ==
    claimed \subseteq pending /\ pending \subseteq seen /\ (shut => claimed = {})

\* Only a started job has tokens, and what is consumed in a job's own scope
\* was really delivered there.
NewsTokenPart ==
    /\ \A j \in Jobs, s \in Scopes : <<j, s>> \in consumed \cup staged => job[j] # "none"
    /\ \A j \in Jobs : <<j, home[j]>> \in consumed => j \in known

\* A call that waits is answered by its job alone; a result in flight will
\* consume the news of its job, unless there is none to come.
NewsCallPart ==
    /\ call.kind # "none" => call.job \in Jobs /\ job[call.job] # "none" /\ resident = Chat
    /\ call.kind = "start" => job[call.job] \in {"running", "over"} /\ call.job \notin background
    /\ call.kind = "result" /\ ~shut =>
           <<call.job, scope>> \in staged \/ (job[call.job] = "over" /\ call.job \notin seen)

\* A completion turn comes once: its job is no longer queued, and its claim
\* stays until the turn has run.
NewsTaskPart ==
    \A j \in Jobs :
        /\ turn[j] \in {"created", "running"} => resident = j
        /\ turn[j] = "running" => j \in told
        /\ j \in told => turn[j] \in {"running", "over"}
        /\ j \in started => turn[j] # "none"
        /\ turn[j] # "none" => j \in seen
        /\ turn[j] # "none" /\ ~shut => j \notin queued /\ (j \in started \/ j \notin pending)

\* What Pal knows is neither waiting nor to come, unless its turn has begun.
NewsKnownPart ==
    \A j \in known :
        /\ job[j] # "none"
        /\ \/ shut \/ turn[j] # "none"
           \/ j \notin pending /\ (<<j, home[j]>> \in consumed \/ job[j] = "over")

NewsCore ==
    /\ PackageTypeOK /\ NewsNotLost /\ ClaimsAreHeld
    /\ NewsJobPart /\ NewsSourcePart /\ NewsCallPart /\ NewsTaskPart /\ NewsKnownPart

NewsInv == NewsCore /\ NewsTokenPart

LEMMA NewsInitial == PackageInit => NewsInv
<1> SUFFICES ASSUME PackageInit PROVE NewsInv
  OBVIOUS
<1> USE PackageAssumption DEF PackageInit
<1>1. PackageTypeOK
  <2>1. shut \in BOOLEAN
    BY Zenon
  <2>2. NoCall \in [job : 0..MaxJobs, kind : {"none", "start", "result", "told_later"}]
    BY DEF NoCall
  <2> QED BY <2>1, <2>2 DEF PackageTypeOK, Jobs, Idle, Chat
<1>2. NewsNotLost /\ ClaimsAreHeld /\ NewsJobPart /\ NewsSourcePart /\ NewsTokenPart /\ NewsTaskPart /\ NewsKnownPart
  BY DEF NewsNotLost, ClaimsAreHeld, NewsJobPart, NewsSourcePart, NewsTokenPart, NewsTaskPart, NewsKnownPart
<1>3. NewsCallPart
  BY DEF NewsCallPart, NoCall
<1> QED BY <1>1, <1>2, <1>3 DEF NewsInv, NewsCore

(* The chat turn, its tool calls' returns, and the close.                   *)
LEMMA NewsChatStep ==
    ASSUME NewsInv, NEW b \in BOOLEAN,
           StartChat \/ StartReturns \/ Commit(b) \/ EndChat \/ Close
    PROVE  NewsCore'
<1> USE PackageAssumption DEF NewsInv, NewsCore
<1>1. CASE StartChat
  BY <1>1 DEF StartChat, thread, source, PackageTypeOK, Jobs, Idle, Chat, NewsNotLost, ClaimsAreHeld,
         Skipped, NewsJobPart, NewsSourcePart, NewsCallPart, NewsTaskPart, NewsKnownPart
<1>2. CASE StartReturns
  <2>1. NewsNotLost' /\ ClaimsAreHeld' /\ NewsJobPart' /\ NewsSourcePart' /\ NewsTaskPart' /\ NewsKnownPart'
    BY <1>2 DEF StartReturns, turns, source, NewsNotLost, ClaimsAreHeld, Skipped, NewsJobPart,
           NewsSourcePart, NewsTaskPart, NewsKnownPart
  <2>2. PackageTypeOK'
    <3> DEFINE kind == IF job[call.job] = "running" THEN "told_later" ELSE "result"
    <3>1. call \in [job : 0..MaxJobs, kind : {"none", "start", "result", "told_later"}]
      BY DEF PackageTypeOK
    <3>2. kind \in {"none", "start", "result", "told_later"}
      OBVIOUS
    <3>3. call' = [call EXCEPT !.kind = kind]
      BY <1>2 DEF StartReturns
    <3> HIDE DEF kind
    <3>4. call' \in [job : 0..MaxJobs, kind : {"none", "start", "result", "told_later"}]
      BY <3>1, <3>2, <3>3
    <3>5. background' \subseteq Jobs
      BY <1>2 DEF StartReturns, PackageTypeOK, NewsCallPart
    <3>6. UNCHANGED <<job, home, scope, turn, chats, resident, shut, stopped, pending, claimed, seen, consumed,
                      started, staged, queued, known, told>>
      BY <1>2 DEF StartReturns, turns, source
    <3> QED BY <3>4, <3>5, <3>6 DEF PackageTypeOK
  <2>3. NewsCallPart'
    BY <1>2 DEF StartReturns, turns, source, NewsCallPart, PackageTypeOK, Jobs, Idle, Chat, NewsJobPart
  <2> QED BY <2>1, <2>2, <2>3
<1>3. CASE Commit(b)
  <2>1. NewsNotLost'
    <3>1. pending \ pending' \subseteq known'
      <4>1. ASSUME NEW j \in pending \ pending' PROVE j = call.job /\ home[j] = scope
        BY <1>3, <4>1 DEF Commit, Delivered
      <4> QED BY <1>3, <4>1, Zenon DEF Commit, Delivered
    <3> QED BY <1>3, <3>1 DEF Commit, thread, NewsNotLost
  <2>7. NewsJobPart' /\ NewsTaskPart'
    BY <1>3 DEF Commit, Delivered, thread, turns, NewsJobPart, NewsTaskPart
  <2>4. ClaimsAreHeld'
    BY <1>3 DEF Commit, Delivered, thread, turns, ClaimsAreHeld, Skipped
  <2>5. NewsSourcePart'
    BY <1>3 DEF Commit, Delivered, thread, turns, NewsSourcePart
  <2>6. NewsCallPart'
    BY <1>3 DEF Commit, NoCall, thread, turns, NewsCallPart
  <2>2. PackageTypeOK'
    <3>1. consumed' \cup staged' \subseteq consumed \cup staged /\ pending' \subseteq pending
         /\ claimed' \subseteq claimed /\ known' \subseteq known \cup {call.job}
      BY <1>3 DEF Commit, Delivered
    <3>2. shut \/ started' \subseteq claimed'
      <4>1. ASSUME NEW j \in started, j \in claimed, ~shut PROVE j \in claimed'
        <5>1. <<j, home[j]>>[1] = j
          OBVIOUS
        <5> QED BY <1>3, <4>1, <5>1, Zenon DEF Commit, Delivered
      <4> QED BY <1>3, <4>1 DEF Commit, turns, PackageTypeOK
    <3>3. call' \in [job : 0..MaxJobs, kind : {"none", "start", "result", "told_later"}] /\ call.job \in Jobs
      BY <1>3 DEF Commit, NoCall, NewsCallPart
    <3>4. UNCHANGED <<thread, turns, seen, started, queued, told, shut>>
      BY <1>3 DEF Commit
    <3> QED BY <3>1, <3>2, <3>3, <3>4 DEF thread, turns, PackageTypeOK
  <2>3. NewsKnownPart'
    <3>1. UNCHANGED <<job, home, turn, shut>> /\ consumed \subseteq consumed' /\ pending' \subseteq pending
      BY <1>3 DEF Commit, Delivered, thread, turns
    <3>2. ASSUME NEW j \in known' \ known, ~shut, turn[j] = "none"
          PROVE  j \notin pending' /\ (<<j, home[j]>> \in consumed' \/ job[j] = "over")
      <4>1. j = call.job /\ home[j] = scope /\ call.kind = "result" /\ Delivered(staged \cap {<<j, scope>>})
        BY <1>3, <3>2 DEF Commit
      <4>2. CASE <<j, scope>> \in staged
        <5>1. j \notin started
          BY <3>2, <4>1 DEF NewsTaskPart, NewsCallPart
        <5> QED BY <3>2, <4>1, <4>2, <5>1, Zenon DEF Delivered
      <4>3. CASE job[j] = "over" /\ j \notin seen
        BY <3>1, <4>3 DEF NewsSourcePart
      <4> QED BY <3>2, <4>1, <4>2, <4>3 DEF NewsCallPart
    <3>3. \A j \in known' \ known : job[j] # "none"
      BY <1>3 DEF Commit, NewsCallPart
    <3> QED BY <3>1, <3>2, <3>3 DEF NewsKnownPart
  <2> QED BY <2>1, <2>2, <2>3, <2>4, <2>5, <2>6, <2>7
<1>4. CASE EndChat
  BY <1>4 DEF EndChat, NoCall, thread, PackageTypeOK, Jobs, Idle, Chat, NewsNotLost, ClaimsAreHeld,
         Skipped, NewsJobPart, NewsSourcePart, NewsCallPart, NewsTaskPart, NewsKnownPart
<1>5. CASE Close
  BY <1>5 DEF Close, thread, PackageTypeOK, Jobs, Idle, Chat, NewsNotLost, ClaimsAreHeld, Skipped,
         NewsJobPart, NewsSourcePart, NewsCallPart, NewsTaskPart, NewsKnownPart
<1> QED BY <1>1, <1>2, <1>3, <1>4, <1>5

(* Tool calls that start or read a job, the job's thread, the drain and the *)
(* handler.                                                                 *)
LEMMA NewsSourceStep ==
    ASSUME NewsInv, NEW j \in Jobs,
           \/ StartJob(j) \/ ReadStatus(j) \/ Finish(j) \/ Notify(j) \/ Drain(j)
           \/ HandleGone(j) \/ HandleBusy(j) \/ Handle(j)
    PROVE  NewsCore'
<1> USE PackageAssumption DEF NewsInv, NewsCore
<1>1. CASE StartJob(j)
  <2>1. NewsNotLost' /\ ClaimsAreHeld' /\ NewsJobPart' /\ NewsSourcePart' /\ NewsTaskPart'
    BY <1>1 DEF StartJob, turns, source, PackageTypeOK, NewsNotLost, ClaimsAreHeld, Skipped, NewsJobPart,
           NewsSourcePart, NewsTaskPart
  <2>3. PackageTypeOK'
    BY <1>1 DEF StartJob, turns, source, PackageTypeOK, Jobs
  <2>4. NewsKnownPart'
    BY <1>1 DEF StartJob, turns, source, PackageTypeOK, NewsKnownPart
  <2>2. NewsCallPart'
    BY <1>1 DEF StartJob, NoCall, turns, source, NewsCallPart, PackageTypeOK, Jobs, Idle, Chat, NewsJobPart
  <2> QED BY <2>1, <2>2, <2>3, <2>4
<1>2. CASE ReadStatus(j)
  <2>1. PackageTypeOK'
    BY <1>2 DEF ReadStatus, thread, turns, PackageTypeOK, Jobs, Tokens
  <2>2. NewsCallPart'
    BY <1>2 DEF ReadStatus, thread, turns, NewsCallPart
  <2>3. NewsNotLost' /\ ClaimsAreHeld' /\ NewsJobPart' /\ NewsSourcePart' /\ NewsTaskPart' /\ NewsKnownPart'
    BY <1>2 DEF ReadStatus, thread, turns, NewsNotLost, ClaimsAreHeld, Skipped, NewsJobPart, NewsSourcePart,
           NewsTaskPart, NewsKnownPart
  <2> QED BY <2>1, <2>2, <2>3
<1>3. CASE Finish(j)
  BY <1>3 DEF Finish, turns, source, PackageTypeOK, Jobs, Idle, Chat, NewsNotLost, ClaimsAreHeld,
         Skipped, NewsJobPart, NewsSourcePart, NewsCallPart, NewsTaskPart, NewsKnownPart
<1>4. CASE Notify(j)
  <2>1. PackageTypeOK' /\ ClaimsAreHeld' /\ NewsSourcePart' /\ NewsCallPart' /\ NewsTaskPart' /\ NewsKnownPart'
    BY <1>4 DEF Notify, turns, PackageTypeOK, Jobs, Idle, Chat, ClaimsAreHeld, Skipped, NewsSourcePart,
           NewsCallPart, NewsTaskPart, NewsKnownPart
  <2>2. NewsNotLost'
    BY <1>4 DEF Notify, turns, NewsNotLost, PackageTypeOK, NewsJobPart, NewsTokenPart
  <2>3. NewsJobPart'
    BY <1>4 DEF Notify, turns, NewsJobPart, PackageTypeOK, Jobs, Idle, Chat
  <2> QED BY <2>1, <2>2, <2>3
<1>5. CASE Drain(j)
  <2>1. PackageTypeOK' /\ NewsNotLost' /\ ClaimsAreHeld' /\ NewsJobPart' /\ NewsSourcePart' /\ NewsCallPart'
       /\ NewsKnownPart'
    BY <1>5 DEF Drain, thread, turns, PackageTypeOK, Jobs, Idle, Chat, NewsNotLost, ClaimsAreHeld,
           Skipped, NewsJobPart, NewsSourcePart, NewsCallPart, NewsKnownPart
  <2>2. NewsTaskPart'
    BY <1>5 DEF Drain, thread, turns, NewsTaskPart, PackageTypeOK, Jobs, Idle, Chat
  <2> QED BY <2>1, <2>2
<1>6. CASE HandleGone(j)
  <2>1. PackageTypeOK' /\ NewsNotLost' /\ NewsJobPart' /\ NewsSourcePart' /\ NewsCallPart' /\ NewsTaskPart'
       /\ NewsKnownPart'
    BY <1>6 DEF HandleGone, thread, turns, PackageTypeOK, Jobs, Idle, Chat, NewsNotLost, NewsJobPart,
           NewsSourcePart, NewsCallPart, NewsTaskPart, NewsKnownPart
  <2>2. ClaimsAreHeld'
    BY <1>6 DEF HandleGone, thread, turns, ClaimsAreHeld, Skipped, PackageTypeOK, Jobs, Idle, Chat,
           NewsSourcePart
  <2> QED BY <2>1, <2>2
<1>7. CASE HandleBusy(j)
  <2>1. NewsNotLost' /\ ClaimsAreHeld' /\ NewsJobPart' /\ NewsSourcePart' /\ NewsCallPart' /\ NewsTaskPart'
       /\ NewsKnownPart'
    BY <1>7 DEF HandleBusy, thread, turns, NewsNotLost, ClaimsAreHeld, Skipped, NewsJobPart,
           NewsSourcePart, NewsCallPart, NewsTaskPart, NewsKnownPart
  <2>2. PackageTypeOK'
    BY <1>7 DEF HandleBusy, thread, turns, PackageTypeOK, Jobs, Idle, Chat, NewsTaskPart
  <2> QED BY <2>1, <2>2
<1>8. CASE Handle(j)
  <2>1. PackageTypeOK' /\ NewsNotLost' /\ NewsJobPart' /\ NewsSourcePart' /\ NewsCallPart' /\ NewsKnownPart'
    BY <1>8 DEF Handle, thread, PackageTypeOK, Jobs, Idle, Chat, NewsNotLost, NewsJobPart, NewsSourcePart,
           NewsCallPart, NewsKnownPart
  <2>2. ClaimsAreHeld'
    BY <1>8 DEF Handle, thread, ClaimsAreHeld, Skipped, PackageTypeOK, Jobs, Idle, Chat
  <2>3. NewsTaskPart'
    BY <1>8 DEF Handle, thread, NewsTaskPart, PackageTypeOK, Jobs, Idle, Chat, NewsSourcePart
  <2> QED BY <2>1, <2>2, <2>3
<1> QED BY <1>1, <1>2, <1>3, <1>4, <1>5, <1>6, <1>7, <1>8

(* The completion turn.                                                     *)
LEMMA NewsTurnStep ==
    ASSUME NewsInv, NEW j \in Jobs, TurnFirstStep(j) \/ RunEnds(j) \/ Interrupt(j)
    PROVE  NewsCore'
<1> USE PackageAssumption DEF NewsInv, NewsCore
<1>1. CASE TurnFirstStep(j)
  <2>0. PackageTypeOK'
    <3>1. turn' \in [Jobs -> {"none", "created", "running", "over"}] /\ told' \subseteq Jobs
      BY <1>1 DEF TurnFirstStep, PackageTypeOK
    <3>2. resident' \in Jobs \cup {Idle, Chat} /\ stopped' \subseteq Jobs
      BY <1>1 DEF TurnFirstStep, PackageTypeOK
    <3>3. UNCHANGED <<thread, call, scope, chats, source, known, shut>>
      BY <1>1 DEF TurnFirstStep
    <3> QED BY <3>1, <3>2, <3>3 DEF thread, source, PackageTypeOK
  <2>1. NewsNotLost'
    BY <1>1 DEF TurnFirstStep, thread, source, NewsNotLost
  <2>5. NewsJobPart' /\ NewsSourcePart' /\ NewsCallPart'
    BY <1>1 DEF TurnFirstStep, thread, source, NewsJobPart, NewsSourcePart, NewsCallPart, NewsTaskPart, Jobs,
           Chat
  <2>2. ClaimsAreHeld'
    BY <1>1 DEF TurnFirstStep, thread, source, ClaimsAreHeld, Skipped, PackageTypeOK, Jobs, Idle, Chat,
           NewsTaskPart
  <2>3. NewsTaskPart'
    BY <1>1 DEF TurnFirstStep, thread, source, NewsTaskPart, PackageTypeOK, Jobs, Idle, Chat
  <2>4. NewsKnownPart'
    BY <1>1 DEF TurnFirstStep, thread, source, NewsKnownPart, PackageTypeOK, Jobs, Idle, Chat
  <2> QED BY <2>0, <2>1, <2>2, <2>3, <2>4, <2>5
<1>2. CASE RunEnds(j)
  <2>1. PackageTypeOK' /\ ClaimsAreHeld' /\ NewsJobPart' /\ NewsSourcePart' /\ NewsCallPart' /\ NewsTaskPart'
       /\ NewsKnownPart'
    BY <1>2 DEF RunEnds, thread, PackageTypeOK, Jobs, Idle, Chat, ClaimsAreHeld, Skipped, NewsJobPart,
           NewsSourcePart, NewsCallPart, NewsTaskPart, NewsKnownPart
  <2>2. NewsNotLost'
    BY <1>2 DEF RunEnds, thread, NewsNotLost, PackageTypeOK, Jobs, Idle, Chat, NewsTaskPart
  <2> QED BY <2>1, <2>2
<1>3. CASE Interrupt(j)
  BY <1>3 DEF Interrupt, thread, source, PackageTypeOK, Jobs, Idle, Chat, NewsNotLost, ClaimsAreHeld,
         Skipped, NewsJobPart, NewsSourcePart, NewsCallPart, NewsTaskPart, NewsKnownPart
<1> QED BY <1>1, <1>2, <1>3

(* Tokens come from status reads; a delivery consumes those of its own call *)
(* and scope, and Pal knows the job if that scope is the job's own.         *)
LEMMA NewsTokenStep == ASSUME NewsInv, PackageNext PROVE NewsTokenPart'
<1> USE DEF NewsInv, NewsCore
<1>1. ASSUME NEW j \in Jobs, StartJob(j) PROVE NewsTokenPart'
  BY <1>1 DEF StartJob, turns, source, NewsTokenPart, PackageTypeOK
<1>2. ASSUME NEW j \in Jobs, ReadStatus(j) PROVE NewsTokenPart'
  BY <1>2 DEF ReadStatus, thread, turns, NewsTokenPart
<1>3. ASSUME NEW j \in Jobs, Finish(j) \/ Notify(j) PROVE NewsTokenPart'
  BY <1>3 DEF Finish, Notify, turns, source, NewsTokenPart, PackageTypeOK
<1>4. ASSUME NEW b \in BOOLEAN, Commit(b) PROVE NewsTokenPart'
  <2>1. consumed' \subseteq consumed \cup (staged \cap {<<call.job, scope>>}) /\ staged' \subseteq staged
    BY <1>4 DEF Commit, Delivered
  <2>2. <<call.job, scope>> \in consumed' \ consumed => scope # home[call.job] \/ call.job \in known'
    BY <1>4 DEF Commit
  <2>3. UNCHANGED thread /\ known \subseteq known'
    BY <1>4 DEF Commit
  <2> QED BY <2>1, <2>2, <2>3 DEF thread, NewsTokenPart
<1>5. CASE EndChat \/ Close
  BY <1>5 DEF EndChat, Close, thread, NewsTokenPart
<1>6. CASE UNCHANGED <<job, home, consumed, staged, known>>
  BY <1>6 DEF NewsTokenPart
<1>7. ASSUME NEW j \in Jobs,
             \/ Drain(j) \/ HandleGone(j) \/ HandleBusy(j) \/ Handle(j)
             \/ TurnFirstStep(j) \/ RunEnds(j) \/ Interrupt(j)
      PROVE  UNCHANGED <<job, home, consumed, staged, known>>
  BY <1>7 DEF Drain, HandleGone, HandleBusy, Handle, TurnFirstStep, RunEnds, Interrupt, thread, turns, source
<1>8. StartChat \/ StartReturns => UNCHANGED <<job, home, consumed, staged, known>>
  BY DEF StartChat, StartReturns, thread, source
<1> QED BY <1>1, <1>2, <1>3, <1>4, <1>5, <1>6, <1>7, <1>8 DEF PackageNext, ChatStep, NewsStep

LEMMA NewsPreserved == NewsInv /\ [PackageNext]_packageVars => NewsInv'
<1> SUFFICES ASSUME NewsInv, [PackageNext]_packageVars PROVE NewsInv'
  OBVIOUS
<1>1. CASE UNCHANGED packageVars
  BY <1>1 DEF packageVars, thread, turns, source, NewsInv, NewsCore, PackageTypeOK, NewsNotLost, ClaimsAreHeld,
              Skipped, NewsJobPart, NewsSourcePart, NewsTokenPart, NewsCallPart, NewsTaskPart, NewsKnownPart
<1>2. CASE PackageNext
  <2>1. NewsCore'
    BY <1>2, NewsChatStep, NewsSourceStep, NewsTurnStep DEF PackageNext, ChatStep, NewsStep
  <2> QED BY <1>2, <2>1, NewsTokenStep DEF NewsInv
<1> QED BY <1>1, <1>2

LEMMA NewsInvariant == PackageSpec => []NewsInv
BY NewsInitial, NewsPreserved, PTL DEF PackageSpec

(* The news of a background job is still to come, waiting or in a turn      *)
(* until Pal has it; a job its tool call answered for is silent; and a      *)
(* claim is held by an event or a turn, or leaked by the one known way.     *)
THEOREM PackageNewsIsKept == PackageSpec => []NewsKept
<1>1. NewsInv => NewsKept
  BY DEF NewsInv, NewsCore, NewsKept, NewsJobPart, ForegroundIsSilent, PackageTypeOK
<1> QED BY <1>1, NewsInvariant, PTL

(* No completion turn is started for a job whose outcome a tool result has  *)
(* told Pal before, completely and in the scope that started it, in         *)
(* whatever order thread, drain, handler and delivery came.                 *)
THEOREM PackageNoEcho == PackageSpec => NoEcho
<1> DEFINE Silent == \A j \in Jobs : turn[j] = "none" /\ turn'[j] # "none" => j \notin known
<1>1. ASSUME NewsInv, [PackageNext]_packageVars PROVE [Silent]_packageVars
  <2>1. CASE UNCHANGED packageVars
    BY <2>1 DEF packageVars
  <2>2. ASSUME NEW j \in Jobs, Handle(j) PROVE Silent
    <3>1. turn[j] = "none" => j \notin known
      BY <2>2, <1>1 DEF NewsInv, NewsCore, NewsKnownPart, Handle
    <3> QED BY <2>2, <1>1, <3>1 DEF NewsInv, NewsCore, PackageTypeOK, Handle
  <2>3. ASSUME NEW j \in Jobs, TurnFirstStep(j) \/ RunEnds(j) PROVE Silent
    BY <2>3, <1>1 DEF NewsInv, NewsCore, PackageTypeOK, TurnFirstStep, RunEnds
  <2>4. CASE turn' = turn
    BY <2>4
  <2>5. ASSUME PackageNext PROVE
          turn' = turn \/ \E j \in Jobs : Handle(j) \/ TurnFirstStep(j) \/ RunEnds(j)
    BY <2>5 DEF PackageNext, ChatStep, NewsStep, StartChat, StartJob, StartReturns, ReadStatus, Commit, EndChat,
                Finish, Notify, Drain, HandleGone, HandleBusy, Interrupt, Close, turns
  <2> QED BY <1>1, <2>1, <2>2, <2>3, <2>4, <2>5
<1> QED BY <1>1, NewsInvariant, PTL DEF PackageSpec, NoEcho
=============================================================================
