----------------------------- MODULE ModelSwitch -----------------------------
(* Changing the model (src/pal/core/model_switch.py): a draft per control   *)
(* scope, the handlers of its "think" step, the compaction gate they hold   *)
(* (CompactionGate), manual compactions that compete for it, turns, and a   *)
(* settings repository another process may write.  Handlers run             *)
(* concurrently: each await of the code is a point between two actions.     *)
EXTENDS CompactionGate, FiniteSets

CONSTANTS
    Scopes,                \* control scopes
    Endpoints,             \* enabled model endpoints
    Handlers,              \* "think" handlers that may run at once
    MaxRequests,           \* bound on the drafts created
    MaxChanges             \* bound on the changes of the endpoint configuration and
                           \* on the settings another process writes, together

VARIABLES
    reqs,        \* the drafts created; a draft outlives its place in `pending`
    pending,     \* pending_requests["model_switch"] of each scope, 0 for none
    handler,     \* the "think" handlers
    cancelling,  \* cancel handlers that wait for the transition lock
    settings,    \* the active endpoint in the settings repository
    active,      \* llm.active_endpoint_id
    writes,      \* times another process wrote it
    specs,       \* generation of the endpoint configuration
    big,         \* the history does not fit the other endpoint
    turn,        \* a turn runs or finishes
    applied,     \* history: drafts applied, in order
    withdrawn    \* history: drafts cancelled, replaced, invalidated or expired

drafts == <<reqs, pending, handler, cancelling, applied, withdrawn>>
world == <<settings, writes, active, specs, big, turn>>
vars == <<gate, drafts, world>>

ASSUME ModelSwitchAssumption == MaxRequests \in Nat /\ MaxChanges \in Nat

Ids == 1..Len(reqs)
Idle == [at |-> "idle", req |-> 0, op |-> 0]
Draft == [scope : Scopes, target : Endpoints, identity : Endpoints \X (0..MaxChanges),
          stage : {"confirm", "think", "executing"}, confirmed : BOOLEAN]
At == {"idle", "lock", "advice", "compact", "apply", "replying", "ending"}

Init ==
    /\ GateInit
    /\ reqs = <<>> /\ pending = [s \in Scopes |-> 0]
    /\ handler = [h \in Handlers |-> Idle] /\ cancelling = {}
    /\ settings \in Endpoints /\ active = settings /\ writes = 0 /\ specs = 0
    /\ big \in BOOLEAN /\ turn = FALSE /\ applied = <<>> /\ withdrawn = {}

Busy == turn \/ ticket # NoTicket
Identity == <<active, specs>>
Executing(r) == reqs[r].stage = "executing"
Drop(S) ==
    /\ pending' = [s \in Scopes |-> IF s \in S THEN 0 ELSE pending[s]]
    /\ withdrawn' = withdrawn \cup ({pending[s] : s \in S} \ {0})
DraftScopes == {s \in Scopes : pending[s] # 0 /\ ~Executing(pending[s])}

-----------------------------------------------------------------------------
(* The drafts: /model, the panel and its buttons.                           *)

\* _handle_set_model_async: another endpoint, nothing busy, no executing draft
SetModel(s, target) ==
    /\ Len(reqs) < MaxRequests /\ target # settings /\ ~Busy
    /\ pending[s] # 0 => ~Executing(pending[s])
    /\ active' = settings
    /\ reqs' = Append(reqs,
           [scope |-> s, target |-> target, identity |-> <<settings, specs>>,
            stage |-> IF big THEN "confirm" ELSE "think", confirmed |-> FALSE])
    /\ pending' = [pending EXCEPT ![s] = Len(reqs) + 1]
    /\ withdrawn' = withdrawn \cup ({pending[s]} \ {0})
    /\ UNCHANGED <<gate, handler, cancelling, applied, settings, writes, specs, big, turn>>

\* _handle_show_model_async, or /model with the endpoint already active: the
\* scope's draft goes, and the runtime follows the repository
ShowModel(s) ==
    /\ active' = settings
    /\ Drop({s} \cap DraftScopes)
    /\ UNCHANGED <<gate, reqs, handler, cancelling, applied, settings, writes, specs, big, turn>>

\* expire_pending_control_requests_async: sixty seconds passed
ExpireDraft(s) ==
    /\ s \in DraftScopes /\ Drop({s})
    /\ UNCHANGED <<gate, reqs, handler, cancelling, applied, world>>

\* the "cancel" operation; an executing switch is cancelled at the gate too,
\* once the transition lock is free
CancelDraft(s) ==
    /\ pending[s] # 0 /\ Drop({s})
    /\ IF Executing(pending[s])
       THEN s \notin cancelling /\ cancelling' = cancelling \cup {s} /\ UNCHANGED active
       ELSE active' = settings /\ UNCHANGED cancelling
    /\ UNCHANGED <<gate, reqs, handler, applied, settings, writes, specs, big, turn>>

CancelTicket == IF ticket # NoTicket /\ ~ticket.cancelled THEN Cancel ELSE UNCHANGED gate

\* ... whatever ticket the gate holds by then; the model list is shown next
CancelGate(s) ==
    /\ s \in cancelling /\ cancelling' = cancelling \ {s}
    /\ CancelTicket /\ active' = settings
    /\ Drop({s} \cap DraftScopes)
    /\ UNCHANGED <<reqs, handler, applied, settings, writes, specs, big, turn>>

\* The buttons of a draft: the configuration is compared first.
Pressed(s) == pending[s] # 0 /\ ~Executing(pending[s])
Changed(s) == reqs[pending[s]].identity # <<settings, specs>>

Outdated(s) ==
    /\ Pressed(s) /\ Changed(s)
    /\ active' = settings /\ Drop({s})
    /\ UNCHANGED <<gate, reqs, handler, cancelling, applied, settings, writes, specs, big, turn>>

\* the "confirm" operation
Confirm(s) ==
    /\ Pressed(s) /\ ~Changed(s) /\ reqs[pending[s]].stage = "confirm"
    /\ active' = settings
    /\ reqs' = [reqs EXCEPT ![pending[s]] = [@ EXCEPT !.stage = "think", !.confirmed = TRUE]]
    /\ UNCHANGED <<gate, pending, handler, cancelling, applied, withdrawn, settings, writes, specs, big, turn>>

\* the "think" operation up to its wait for the transition lock
Think(s, h) ==
    /\ Pressed(s) /\ ~Changed(s) /\ reqs[pending[s]].stage = "think"
    /\ handler[h] = Idle
    /\ active' = settings
    /\ handler' = [handler EXCEPT ![h] = [at |-> "lock", req |-> pending[s], op |-> 0]]
    /\ UNCHANGED <<gate, reqs, pending, cancelling, applied, withdrawn, settings, writes, specs, big, turn>>

-----------------------------------------------------------------------------
(* The "think" handler from the lock to its finally clause.                 *)

Op(h) == handler[h].op
Req(h) == handler[h].req
Goes(h, place) == handler' = [handler EXCEPT ![h].at = place]

\* Mutant: the drafts of an executing switch are not compared with the ticket's request
CurrentMutant(h) ==
    /\ Eligible(Op(h))
    /\ reqs[Req(h)].identity = Identity
    /\ settings = active

\* current(): asked before and after the archive is staged, and before the commit
Current(h) ==
    /\ pending[reqs[Req(h)].scope] = Req(h)
    /\ Eligible(Op(h))
    /\ reqs[Req(h)].identity = Identity
    /\ settings = active

\* Under the lock: busy drops whatever draft the scope has by now, ...
ThinkRefused(h) ==
    /\ handler[h].at = "lock" /\ Busy
    /\ Drop({reqs[Req(h)].scope})
    /\ handler' = [handler EXCEPT ![h] = Idle]
    /\ UNCHANGED <<gate, reqs, cancelling, applied, world>>

\* ... otherwise the gate is claimed for this request.
ThinkClaim(h) ==
    /\ handler[h].at = "lock" /\ ~Busy
    /\ Claim
    /\ reqs' = [reqs EXCEPT ![Req(h)].stage = "executing"]
    /\ handler' = [handler EXCEPT ![h] = [@ EXCEPT !.at = "advice", !.op = claims']]
    /\ UNCHANGED <<pending, cancelling, applied, withdrawn, world>>

\* The history outgrew the target since the draft was made: ask the user.
AskAgain(h) ==
    /\ handler[h].at = "advice" /\ big /\ ~reqs[Req(h)].confirmed
    /\ reqs' = [reqs EXCEPT ![Req(h)].stage = "confirm"]
    /\ Abandon(Op(h)) /\ Goes(h, "ending")
    /\ UNCHANGED <<pending, cancelling, applied, withdrawn, world>>

Advise(h) ==
    /\ handler[h].at = "advice" /\ (big => reqs[Req(h)].confirmed)
    /\ Goes(h, IF big THEN "compact" ELSE "apply")
    /\ UNCHANGED <<gate, reqs, pending, cancelling, applied, withdrawn, world>>

\* _run_control_compaction_async with current() as its commit guard: the steps
\* of the gate's holder, each guarded one given up when the guard is false
Compact(h) ==
    /\ handler[h].at = "compact"
    /\ \/ /\ Current(h)
          /\ Begin(Op(h)) \/ Stage(Op(h)) \/ Install(Op(h))
          /\ big' \in IF installed' # installed THEN BOOLEAN ELSE {big}
          /\ UNCHANGED handler
       \/ Finish(Op(h)) /\ Goes(h, "apply") /\ UNCHANGED big
       \/ /\ ~Current(h) /\ holder[Op(h)] # "installed"
          /\ Abandon(Op(h)) /\ Goes(h, "replying") /\ UNCHANGED big
    /\ UNCHANGED <<reqs, pending, cancelling, applied, withdrawn, settings, active, writes, specs, turn>>

\* An exception: no advice for the target, the compaction failed, its run was
\* cancelled, or the handler's own task was.
Fail(h) ==
    /\ handler[h].at \in {"advice", "compact", "apply"}
    /\ IF holder[Op(h)] = "releasing" THEN UNCHANGED gate ELSE Abandon(Op(h))
    /\ Goes(h, "replying")
    /\ UNCHANGED <<reqs, pending, cancelling, applied, withdrawn, world>>

\* Mutant: the settings repository is not read again before the commit
ApplyMutant(h) ==
    /\ handler[h].at = "apply"
    /\ pending[reqs[Req(h)].scope] = Req(h) /\ Eligible(Op(h)) /\ ~big
    /\ settings' = reqs[Req(h)].target /\ active' = settings'
    /\ applied' = Append(applied, Req(h))
    /\ pending' = [pending EXCEPT ![reqs[Req(h)].scope] = 0]
    /\ IF holder[Op(h)] = "releasing" THEN UNCHANGED gate ELSE Abandon(Op(h))
    /\ Goes(h, "replying")
    /\ UNCHANGED <<reqs, cancelling, withdrawn, writes, specs, big, turn>>

\* Under the lock: current(), the advice once more, apply_model_selection.
Apply(h) ==
    /\ handler[h].at = "apply" /\ Current(h) /\ ~big
    /\ settings' = reqs[Req(h)].target /\ active' = settings'
    /\ applied' = Append(applied, Req(h))
    /\ pending' = [pending EXCEPT ![reqs[Req(h)].scope] = 0]
    /\ IF holder[Op(h)] = "releasing" THEN UNCHANGED gate ELSE Abandon(Op(h))
    /\ Goes(h, "replying")
    /\ UNCHANGED <<reqs, cancelling, withdrawn, writes, specs, big, turn>>

\* The reply was delivered, or failed: the finally clause drops its own draft, ...
Finally(h) ==
    /\ handler[h].at = "replying"
    /\ LET s == reqs[Req(h)].scope
       IN  Drop(IF pending[s] = Req(h) /\ Executing(Req(h)) THEN {s} ELSE {})
    /\ Goes(h, "ending")
    /\ UNCHANGED <<gate, reqs, cancelling, applied, world>>

\* Mutant: the gate is given back whoever holds it
LeaveMutant(h) ==
    /\ handler[h].at = "ending"
    /\ ticket' = NoTicket /\ barriers' = {}
    /\ holder' = [holder EXCEPT ![Op(h)] = "gone"]
    /\ handler' = [handler EXCEPT ![h] = Idle]
    /\ UNCHANGED <<claims, late, installed, revoked, reqs, pending, cancelling, applied, withdrawn, world>>

\* ... and gives the gate back.
Leave(h) ==
    /\ handler[h].at = "ending"
    /\ Release(Op(h))
    /\ handler' = [handler EXCEPT ![h] = Idle]
    /\ UNCHANGED <<reqs, pending, cancelling, applied, withdrawn, world>>

-----------------------------------------------------------------------------
(* Everything else that touches the same state.                             *)

\* _handle_refresh_llm_endpoint_async
RefreshEndpoints ==
    /\ specs + writes < MaxChanges /\ specs' = specs + 1
    /\ Drop(Scopes) /\ CancelTicket
    /\ active' = settings
    /\ UNCHANGED <<reqs, handler, cancelling, applied, settings, writes, big, turn>>

\* _execute_soft_reset_async, as far as the selections and the history go
Reset ==
    /\ ~turn /\ Drop(Scopes) /\ big' = FALSE
    /\ UNCHANGED <<gate, reqs, handler, cancelling, applied, settings, active, writes, specs, turn>>

\* another process writes the repository
SettingsWritten(e) ==
    /\ specs + writes < MaxChanges /\ writes' = writes + 1
    /\ e # settings /\ settings' = e
    /\ UNCHANGED <<gate, drafts, active, specs, big, turn>>

\* _handle_compact_memory_async: a manual compaction, which sweeps a late ticket
Owned == {handler[h].op : h \in Handlers}
ManualCompact ==
    /\ ~turn /\ Claim
    /\ UNCHANGED <<drafts, world>>
ManualStep(op) ==
    /\ op \notin Owned /\ Holder(op)
    /\ big' \in IF installed' # installed THEN BOOLEAN ELSE {big}
    /\ UNCHANGED <<drafts, settings, active, writes, specs, turn>>

\* a deadline matters while somebody holds the ticket
Expire(op) == holder[op] # "gone" /\ GateExpire(op) /\ UNCHANGED <<drafts, world>>

StartTurn ==
    /\ ~Busy /\ barriers = {} /\ turn' = TRUE
    /\ UNCHANGED <<gate, drafts, settings, active, writes, specs, big>>
EndTurn ==
    /\ turn /\ turn' = FALSE /\ big' \in BOOLEAN
    /\ UNCHANGED <<gate, drafts, settings, active, writes, specs>>

Switch(h) ==
    \/ ThinkRefused(h) \/ ThinkClaim(h) \/ AskAgain(h) \/ Advise(h) \/ Compact(h)
    \/ Fail(h) \/ Apply(h) \/ Finally(h) \/ Leave(h)

Next ==
    \/ \E s \in Scopes :
          \/ \E e \in Endpoints : SetModel(s, e)
          \/ ShowModel(s) \/ ExpireDraft(s) \/ CancelDraft(s) \/ CancelGate(s)
          \/ Outdated(s) \/ Confirm(s) \/ \E h \in Handlers : Think(s, h)
    \/ \E h \in Handlers : Switch(h)
    \/ RefreshEndpoints \/ Reset \/ \E e \in Endpoints : SettingsWritten(e)
    \/ ManualCompact \/ StartTurn \/ EndTurn
    \/ \E op \in Ops : ManualStep(op) \/ Expire(op)

Spec == Init /\ [][Next]_vars
-----------------------------------------------------------------------------
\* Drafts, handlers and the gate have their types; a handler past the lock has
\* the ticket it claimed.
TypeOK ==
    /\ GateTypeOK
    /\ reqs \in Seq(Draft) /\ Len(reqs) <= MaxRequests
    /\ pending \in [Scopes -> 0..Len(reqs)]
    /\ handler \in [Handlers -> [at : At, req : 0..Len(reqs), op : 0..claims]]
    /\ cancelling \subseteq Scopes /\ {settings, active} \subseteq Endpoints
    /\ specs \in 0..MaxChanges /\ writes \in 0..MaxChanges /\ {big, turn} \subseteq BOOLEAN
    /\ applied \in Seq(Ids) /\ withdrawn \subseteq Ids

(* A draft that was cancelled, replaced, expired or invalidated, at any     *)
(* moment and from any handler, never changes the model, and no draft       *)
(* changes it twice.                                                        *)
WithdrawnNeverApplied ==
    /\ \A i \in 1..Len(applied) : applied[i] \notin withdrawn
    /\ \A i, j \in 1..Len(applied) : applied[i] = applied[j] => i = j

(* No lost update: a switch confirmed against one model is committed only   *)
(* while that model is still the configured one, so it never overwrites a   *)
(* selection its user has not seen; and it is committed between turns.  A   *)
(* summary made for it is installed only while its draft still stands.      *)
SwitchSeesWhatUserSaw ==
    [][/\ applied' # applied =>
          /\ reqs[applied'[Len(applied')]].identity = <<settings, specs>>
          /\ ~turn /\ ~turn'
       /\ \A h \in Handlers :
          installed' # installed /\ installed'[Len(installed')] = Op(h)
              => Req(h) \notin withdrawn]_vars

(* An executing draft always has a handler at work: neither /model nor the  *)
(* expiry may remove one, so an abandoned one would block model changes in  *)
(* its scope for ever.                                                      *)
ExecutingIsAttended ==
    \A s \in Scopes : pending[s] # 0 /\ Executing(pending[s]) =>
        \E h \in Handlers : Req(h) = pending[s]
                            /\ handler[h].at \in {"advice", "compact", "apply", "replying"}

(* A draft ends the way its user ended it, and never stays behind.          *)
DraftsHonoured == TypeOK /\ WithdrawnNeverApplied /\ ExecutingIsAttended

(* The switch uses the gate as the gate prescribes: with its handlers as    *)
(* holders, every behaviour is one of the compaction gate's, whose          *)
(* theorems (barrier, successor, current installs) therefore apply to it.   *)
UsesGate == GateSpec
=============================================================================
