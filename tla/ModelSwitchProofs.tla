------------------------- MODULE ModelSwitchProofs -------------------------
(* TLAPS proofs about ModelSwitch for any number of scopes, endpoints,      *)
(* handlers, drafts and claims.  Every step of a model switch is a step of  *)
(* the compaction gate or leaves it alone, so the gate is proved first, by  *)
(* itself (GateSpec), and its invariant is part of the switch's.  The gate  *)
(* is safe because the current ticket is always the newest claim.           *)
EXTENDS ModelSwitch, TLAPS

\* The ticket in the scope is the newest claim, and no coroutine runs ahead of it.
NewestHolds ==
    /\ ticket # NoTicket => ticket.op = claims
    /\ \A op \in Ops : op > claims => holder[op] = "none"

\* A ticket remembers that it was cancelled; only claimed operations ever were.
CancelSticks ==
    /\ \A op \in revoked : op <= claims
    /\ ticket # NoTicket /\ ticket.op \in revoked => ticket.cancelled

GatePart == GateTypeOK /\ BarrierMirrors /\ GateHasHolder /\ NewestHolds /\ CancelSticks

\* Past the transition lock: the handler holds, or held, a ticket of the gate.
Past == {"advice", "compact", "apply", "replying", "ending"}

\* Where the coroutine of a claim may be while its handler is at a place.
HolderFits(place, where) ==
    /\ place = "advice" => where = "claimed"
    /\ place = "compact" => where \in {"claimed", "generating", "staging", "installed"}
    /\ place = "apply" => where \in {"claimed", "releasing"}
    /\ place \in {"replying", "ending"} => where = "releasing"

\* Each handler works for a draft that exists; past the lock it owns one claim
\* of the gate, alone, and the claim's coroutine is where the handler is.
HandlerPart ==
    /\ handler \in [Handlers -> [at : At, req : 0..Len(reqs), op : 0..claims]]
    /\ \A h \in Handlers : handler[h].at # "idle" => handler[h].req # 0
    /\ \A h \in Handlers : handler[h].at \in Past =>
          handler[h].op # 0 /\ HolderFits(handler[h].at, holder[handler[h].op])
    /\ \A h \in Handlers : handler[h].at \in {"idle", "lock"} => handler[h].op = 0
    /\ \A h, g \in Handlers : handler[h].op = handler[g].op /\ handler[h].op # 0 => h = g

\* A pending draft belongs to the scope that shows it, and is neither withdrawn
\* nor applied: it can be withdrawn or applied once, and not both.
DraftPart ==
    /\ reqs \in Seq(Draft) /\ Len(reqs) <= MaxRequests
    /\ pending \in [Scopes -> 0..Len(reqs)]
    /\ applied \in Seq(Ids) /\ withdrawn \subseteq Ids
    /\ WithdrawnNeverApplied
    /\ \A s \in Scopes : pending[s] # 0 =>
        /\ reqs[pending[s]].scope = s
        /\ pending[s] \notin withdrawn
        /\ \A i \in 1..Len(applied) : applied[i] # pending[s]

\* Turns and the gate exclude each other.
TurnPart == turn => ticket = NoTicket

WorldPart ==
    /\ cancelling \subseteq Scopes /\ settings \in Endpoints /\ active \in Endpoints
    /\ specs \in 0..MaxChanges /\ writes \in 0..MaxChanges
    /\ big \in BOOLEAN /\ turn \in BOOLEAN

IInv ==
    /\ GatePart /\ WorldPart /\ DraftPart /\ HandlerPart /\ TurnPart
    /\ ExecutingIsAttended

-----------------------------------------------------------------------------
(* The compaction gate by itself.                                           *)

LEMMA GateInitial == GateInit => GatePart
BY MaxClaimsAssumption, NoTicketAssumption
   DEF GateInit, GatePart, GateTypeOK, BarrierMirrors, GateHasHolder, NewestHolds, CancelSticks,
       Places, Ops

(* Every action of the gate and of its holders preserves the inductive      *)
(* invariant.                                                               *)
LEMMA GateStep == GatePart /\ [GateNext]_gate => GatePart'
<1> SUFFICES ASSUME GatePart, [GateNext]_gate PROVE GatePart'
  OBVIOUS
<1> USE MaxClaimsAssumption, NoTicketAssumption
<1>t. GateTypeOK BY DEF GatePart
<1>1. CASE Claim
  <2> DEFINE op == claims + 1
             fresh == [op |-> op, phase |-> "claimed", cancelled |-> FALSE]
  <2>1. op \in Ops /\ fresh \in Ticket /\ claims \in Nat
    BY <1>1, <1>t DEF Claim, GateTypeOK, Ops, Ticket, Phases
  <2>2. /\ ticket' = fresh /\ claims' = op
        /\ holder' = [holder EXCEPT ![op] = "claimed"]
        /\ late' = late /\ installed' = installed /\ revoked' = revoked
    BY <1>1 DEF Claim, MoveTo
  <2>3. fresh # NoTicket /\ fresh.op = op /\ ~fresh.cancelled
    BY <2>1
  <2>4. barriers' = {op}
    BY <1>1 DEF GatePart, Claim, BarrierMirrors
  <2> HIDE DEF fresh, op
  <2>5. GateTypeOK'
    BY <2>1, <2>2, <2>4, <1>t DEF GateTypeOK, Places, Ops
  <2>6. BarrierMirrors'
    BY <2>2, <2>3, <2>4 DEF BarrierMirrors
  <2>7. holder'[op] = "claimed"
    BY <2>1, <2>2, <1>t DEF GateTypeOK
  <2>8. GateHasHolder'
    BY <2>2, <2>3, <2>7 DEF GateHasHolder
  <2>9. NewestHolds'
    BY <2>1, <2>2, <2>3, <1>t DEF GatePart, NewestHolds, GateTypeOK, op, Ops
  <2>10. CancelSticks'
    BY <2>1, <2>2, <2>3, <1>t DEF GatePart, CancelSticks, op, Ops, GateTypeOK
  <2> QED BY <2>5, <2>6, <2>8, <2>9, <2>10 DEF GatePart
<1>2. CASE Cancel
  <2>1. ticket \in Ticket /\ ticket' \in Ticket /\ ticket'.op = ticket.op /\ ticket'.cancelled
    BY <1>2, <1>t DEF Cancel, GateTypeOK, Ticket
  <2>2. ticket' # NoTicket /\ ticket # NoTicket
    BY <2>1
  <2> QED BY <1>2, <2>1, <2>2
          DEF GatePart, Cancel, GateTypeOK, BarrierMirrors, GateHasHolder, NewestHolds,
              CancelSticks,
              Ticket, Ops
<1>3. ASSUME NEW op \in Ops, GateExpire(op) PROVE GatePart'
  BY <1>3 DEF GatePart, GateExpire, GateTypeOK, BarrierMirrors, GateHasHolder, NewestHolds,
              CancelSticks
<1>4. ASSUME NEW op \in Ops, Holder(op) PROVE GatePart'
  <2>1. holder[op] # "none" /\ op <= claims
    BY <1>4 DEF GatePart, Holder, Begin, Stage, Install, Finish, Abandon, Release,
                NewestHolds,
                GateTypeOK, Ops
  <2>2. ASSUME NEW place \in Places \ {"none", "gone"}, MoveTo(op, place),
               UNCHANGED <<ticket, barriers, claims, late, revoked>>,
               installed' \in Seq(Ops)
        PROVE  GatePart'
    BY <2>1, <2>2 DEF GatePart, MoveTo, GateTypeOK, BarrierMirrors, GateHasHolder, NewestHolds,
                      CancelSticks
  <2>3. ASSUME NEW place \in Places \ {"none", "gone"}, MoveTo(op, place),
               NEW phase \in Phases, Advance(op, phase),
               UNCHANGED <<claims, late, revoked, installed>>
        PROVE  GatePart'
    <3>1. CASE ~IsCurrent(op)
      BY <2>2, <2>3, <3>1, <1>t DEF Advance, Advanced, GateTypeOK
    <3>2. CASE IsCurrent(op)
      <4>1. /\ ticket' \in Ticket /\ ticket'.op = op /\ ticket'.cancelled = ticket.cancelled
            /\ ticket # NoTicket /\ ticket.op = op
        BY <2>3, <3>2, <1>t DEF Advance, Advanced, IsCurrent, GateTypeOK, Ticket
      <4>2. barriers' = {op} /\ ticket' # NoTicket
        BY <2>3, <3>2, <4>1 DEF Advance, GatePart, BarrierMirrors
      <4> QED BY <2>1, <2>3, <4>1, <4>2
              DEF GatePart, MoveTo, GateTypeOK, BarrierMirrors, GateHasHolder, NewestHolds,
                  CancelSticks
    <3> QED BY <3>1, <3>2
  <2>4. CASE Begin(op)
    BY <2>2, <2>3, <2>4, <1>t DEF Begin, GateTypeOK, Places, Phases
  <2>5. CASE Stage(op)
    BY <2>2, <2>5, <1>t DEF Stage, GateTypeOK, Places
  <2>6. CASE Install(op)
    BY <2>2, <2>6, <1>t DEF Install, GateTypeOK, Places
  <2>7. CASE Finish(op)
    BY <2>3, <2>7 DEF Finish, Places, Phases
  <2>8. CASE Abandon(op)
    BY <2>2, <2>8, <1>t DEF Abandon, GateTypeOK, Places
  <2>9. CASE Release(op)
    BY <2>1, <2>9 DEF Release, GatePart, MoveTo, IsCurrent, GateTypeOK, BarrierMirrors,
                      GateHasHolder, NewestHolds, CancelSticks, Places
  <2> QED BY <1>4, <2>4, <2>5, <2>6, <2>7, <2>8, <2>9 DEF Holder
<1>5. CASE UNCHANGED gate
  BY <1>5 DEF gate, GatePart, GateTypeOK, BarrierMirrors, GateHasHolder, NewestHolds,
              CancelSticks
<1> QED BY <1>1, <1>2, <1>3, <1>4, <1>5 DEF GateNext

LEMMA GateInductive == GateSpec => []GatePart
BY GateInitial, GateStep, PTL DEF GateSpec

(* Ticket, barrier and holder agree in every reachable state of the gate:   *)
(* the scheduler's barrier mirrors the ticket, and a held gate has a holder *)
(* that is going to release it.                                             *)
THEOREM GateIsSound == GateSpec => []GateSound
<1>1. GatePart => GateSound BY DEF GatePart, GateSound
<1> QED BY <1>1, GateInductive, PTL

(* No late release, advance or cancel takes the gate from a successor.      *)
THEOREM GateSuccessorSafe == GateSpec => SuccessorSafe
<1> DEFINE Safe == ticket # NoTicket /\ (ticket' = NoTicket \/ ticket'.op # ticket.op)
                   => holder'[ticket.op] = "gone" \/ ticket.op \in late
<1>1. GatePart /\ [GateNext]_gate => [Safe]_gate
  <2> SUFFICES ASSUME GatePart, GateNext, ticket # NoTicket,
                      ticket' = NoTicket \/ ticket'.op # ticket.op
               PROVE  holder'[ticket.op] = "gone" \/ ticket.op \in late
    OBVIOUS
  <2>t. ticket \in Ticket /\ GateTypeOK
    BY MaxClaimsAssumption, NoTicketAssumption DEF GatePart, GateTypeOK
  <2>1. CASE Claim
    BY <2>1 DEF Claim
  <2>2. CASE Cancel
    <3>1. ticket' \in Ticket /\ ticket'.op = ticket.op
      BY <2>2, <2>t DEF Cancel, Ticket
    <3> QED BY <3>1, MaxClaimsAssumption, NoTicketAssumption
  <2>3. ASSUME NEW op \in Ops, GateExpire(op) PROVE FALSE
    BY <2>3 DEF GateExpire
  <2>4. ASSUME NEW op \in Ops, NEW phase \in Phases, Advance(op, phase) PROVE FALSE
    <3>1. ticket' \in Ticket /\ ticket'.op = ticket.op
      BY <2>4, <2>t DEF Advance, Advanced, IsCurrent, Ticket
    <3> QED BY <3>1, MaxClaimsAssumption, NoTicketAssumption
  <2>5. ASSUME NEW op \in Ops, Release(op) PROVE holder'[ticket.op] = "gone"
    BY <2>5, <2>t DEF Release, MoveTo, IsCurrent, GateTypeOK
  <2>6. ASSUME NEW op \in Ops, Holder(op), ~Release(op) PROVE FALSE
    BY <2>4, <2>6 DEF Holder, Begin, Stage, Install, Finish, Abandon, Phases
  <2> QED BY <2>1, <2>2, <2>3, <2>5, <2>6 DEF GateNext
<1> QED BY <1>1, GateInductive, PTL DEF GateSpec, SuccessorSafe

(* Only the newest claim installs, before its deadline and uncancelled.     *)
THEOREM GateInstallsAreCurrent == GateSpec => InstallsAreCurrent
<1> DEFINE Newest == installed' # installed
                      => /\ installed' = Append(installed, claims)
                         /\ claims \notin revoked \cup late
<1>1. GatePart /\ [GateNext]_gate => [Newest]_gate
  <2> SUFFICES ASSUME GatePart, GateNext, installed' # installed
               PROVE  /\ installed' = Append(installed, claims)
                      /\ claims \notin revoked \cup late
    OBVIOUS
  <2>1. PICK op \in Ops : Install(op)
    BY DEF GateNext, Claim, Cancel, GateExpire, Holder, Begin, Stage, Finish, Abandon,
           Release
  <2>2. Eligible(op) /\ installed' = Append(installed, op)
    BY <2>1 DEF Install
  <2>3. op = claims
    BY <2>2 DEF Eligible, IsCurrent, GatePart, NewestHolds
  <2>4. op \notin late /\ op \notin revoked
    BY <2>2 DEF Eligible, IsCurrent, GatePart, CancelSticks
  <2> QED BY <2>2, <2>3, <2>4
<1> QED BY <1>1, GateInductive, PTL DEF GateSpec, InstallsAreCurrent

-----------------------------------------------------------------------------
(* The gate inside a model switch.                                          *)

LEMMA GateTypes == GatePart => GateTypeOK
BY DEF GatePart

\* The facts about the gate that the parts of the invariant need.
LEMMA GateFacts ==
    ASSUME GateTypeOK, [GateNext]_gate
    PROVE  /\ claims \in Nat /\ claims' \in Nat /\ claims <= claims'
           /\ Claim \/ claims' = claims
           /\ ticket' # NoTicket => ticket # NoTicket \/ Claim
<1> USE ModelSwitchAssumption, MaxClaimsAssumption, NoTicketAssumption
<1>t. claims \in 0..MaxClaims
  BY DEF GateTypeOK
<1>1. CASE Claim
  BY <1>1, <1>t DEF Claim
<1>2. CASE Cancel
  BY <1>2, <1>t DEF Cancel
<1>3. ASSUME NEW op \in Ops, GateExpire(op) \/ Holder(op)
      PROVE  claims' = claims /\ (ticket' # NoTicket => ticket # NoTicket)
  BY <1>3 DEF GateExpire, Holder, Begin, Stage, Install, Finish, Abandon, Release,
              Advance, Advanced, IsCurrent
<1>4. CASE UNCHANGED gate
  BY <1>4, <1>t DEF gate
<1> QED BY <1>1, <1>2, <1>3, <1>4, <1>t DEF GateNext

\* The steps of one holder move that holder, and no other.
LEMMA HolderMoves ==
    ASSUME GateTypeOK, NEW op \in Ops, Holder(op)
    PROVE  /\ holder[op] # "gone" /\ holder[op] # "none"
           /\ \A o \in Ops : o # op => holder'[o] = holder[o]
BY DEF GateTypeOK, Holder, Begin, Stage, Install, Finish, Abandon, Release, MoveTo

-----------------------------------------------------------------------------
(* Handlers past the lock own a claim of the gate.                          *)

LEMMA OwnsClaim ==
    ASSUME IInv, NEW h \in Handlers, handler[h].at \in Past
    PROVE  /\ Op(h) \in Ops /\ Op(h) \in 1..claims
           /\ HolderFits(handler[h].at, holder[Op(h)])
           /\ Req(h) \in Ids
<1>1. claims \in 0..MaxClaims
  BY GateTypes DEF IInv, GateTypeOK
<1>2. reqs \in Seq(Draft)
  BY DEF IInv, DraftPart
<1>3. handler[h] \in [at : At, req : 0..Len(reqs), op : 0..claims]
  BY DEF IInv, HandlerPart
<1>4. handler[h].op # 0 /\ handler[h].req # 0 /\ HolderFits(handler[h].at, holder[handler[h].op])
  BY DEF IInv, HandlerPart, Past
<1> QED BY <1>1, <1>2, <1>3, <1>4, MaxClaimsAssumption DEF Op, Req, Ids, Ops

(* Every step of a model switch is one of the gate's, or leaves it alone.   *)
LEMMA SwitchUsesGate == IInv /\ [Next]_vars => [GateNext]_gate
<1> SUFFICES ASSUME IInv, [Next]_vars PROVE [GateNext]_gate
  OBVIOUS
<1>1. CancelTicket => [GateNext]_gate
  BY DEF CancelTicket, GateNext
<1>2. \A op \in Ops : Holder(op) \/ GateExpire(op) => GateNext
  BY DEF GateNext
<1>3. ASSUME NEW s \in Scopes,
             \/ \E e \in Endpoints : SetModel(s, e)
             \/ ShowModel(s) \/ ExpireDraft(s) \/ CancelDraft(s) \/ CancelGate(s)
             \/ Outdated(s) \/ Confirm(s) \/ \E h \in Handlers : Think(s, h)
      PROVE  [GateNext]_gate
  BY <1>1, <1>3 DEF SetModel, ShowModel, ExpireDraft, CancelDraft, CancelGate, Outdated,
                          Confirm, Think
<1>4. ASSUME NEW h \in Handlers, Switch(h) PROVE [GateNext]_gate
  <2>1. CASE handler[h].at \in Past
    <3>1. Op(h) \in Ops
      BY <2>1, OwnsClaim
    <3>2. Holder(Op(h)) => GateNext
      BY <3>1, <1>2
    <3>3. handler[h].at # "lock"
      BY <2>1 DEF Past
    <3> QED BY <1>4, <3>2, <3>3
            DEF Switch, ThinkRefused, ThinkClaim, AskAgain, Advise, Compact, Fail, Apply, Finally,
                Leave, Holder
  <2>2. CASE handler[h].at \notin Past
    BY <1>4, <2>2 DEF Switch, ThinkRefused, ThinkClaim, AskAgain, Advise, Compact, Fail,
                            Apply, Finally, Leave, Past, GateNext
  <2> QED BY <2>1, <2>2
<1>5. CASE RefreshEndpoints \/ Reset \/ \E e \in Endpoints : SettingsWritten(e)
  BY <1>1, <1>5 DEF RefreshEndpoints, Reset, SettingsWritten
<1>6. CASE ManualCompact \/ StartTurn \/ EndTurn
  BY <1>6 DEF ManualCompact, StartTurn, EndTurn, GateNext
<1>7. ASSUME NEW op \in Ops, ManualStep(op) \/ Expire(op) PROVE [GateNext]_gate
  BY <1>2, <1>7 DEF ManualStep, Expire
<1>8. CASE UNCHANGED vars
  BY <1>8 DEF vars
<1> QED BY <1>3, <1>4, <1>5, <1>6, <1>7, <1>8 DEF Next

-----------------------------------------------------------------------------
(* The settings, the endpoint configuration, the turns.                     *)

LEMMA WorldStep == IInv /\ Next => WorldPart'
<1> SUFFICES ASSUME IInv, Next PROVE WorldPart'
  OBVIOUS
<1>w. WorldPart
  BY DEF IInv
<1> USE ModelSwitchAssumption, MaxClaimsAssumption, NoTicketAssumption
<1>1. ASSUME NEW s \in Scopes,
             \/ \E e \in Endpoints : SetModel(s, e)
             \/ ShowModel(s) \/ ExpireDraft(s) \/ CancelDraft(s) \/ CancelGate(s)
             \/ Outdated(s) \/ Confirm(s) \/ \E h \in Handlers : Think(s, h)
      PROVE  WorldPart'
  BY <1>w, <1>1 DEF SetModel, ShowModel, ExpireDraft, CancelDraft, CancelGate, Outdated, Confirm,
                    Think, WorldPart, world
<1>2. ASSUME NEW h \in Handlers, Compact(h) PROVE WorldPart'
  <2>1. big' = big \/ big' \in IF installed' # installed THEN BOOLEAN ELSE {big}
    BY <1>2 DEF Compact
  <2>2. big' \in BOOLEAN
    BY <1>w, <2>1 DEF WorldPart
  <2>3. UNCHANGED <<cancelling, settings, active, writes, specs, turn>>
    BY <1>2 DEF Compact
  <2> QED BY <1>w, <2>2, <2>3 DEF WorldPart
<1>3. ASSUME NEW h \in Handlers, Apply(h) PROVE WorldPart'
  <2>1. reqs \in Seq(Draft) /\ Req(h) \in 1..Len(reqs)
    BY <1>3, OwnsClaim DEF Apply, Past, IInv, DraftPart, Ids
  <2> DEFINE r == reqs[Req(h)]
  <2>r. r \in Draft
    BY <2>1
  <2> HIDE DEF r
  <2>e. r.target \in Endpoints
    BY <2>r DEF Draft
  <2>2. reqs[Req(h)].target \in Endpoints
    BY <2>e DEF r
  <2> QED BY <1>w, <1>3, <2>2 DEF Apply, WorldPart
<1>4. ASSUME NEW h \in Handlers, Switch(h), ~Compact(h), ~Apply(h) PROVE WorldPart'
  <2>1. UNCHANGED <<cancelling, world>>
    BY <1>4 DEF Switch, ThinkRefused, ThinkClaim, AskAgain, Advise, Fail, Finally, Leave, world
  <2> QED BY <1>w, <2>1 DEF WorldPart, world
<1>5. CASE RefreshEndpoints
  BY <1>w, <1>5 DEF RefreshEndpoints, WorldPart
<1>6. CASE Reset
  <2>1. UNCHANGED <<cancelling, settings, active, writes, specs, turn>> /\ big' = FALSE
    BY <1>6 DEF Reset
  <2> QED BY <1>w, <2>1 DEF WorldPart
<1>s. CASE \E e \in Endpoints : SettingsWritten(e)
  BY <1>w, <1>s DEF SettingsWritten, WorldPart, drafts
<1>7. CASE ManualCompact \/ StartTurn \/ EndTurn
  BY <1>w, <1>7 DEF ManualCompact, StartTurn, EndTurn, WorldPart, drafts, world
<1>8. ASSUME NEW op \in Ops, ManualStep(op) PROVE WorldPart'
  <2>1. big' \in BOOLEAN
    BY <1>w, <1>8 DEF ManualStep, WorldPart
  <2> QED BY <1>w, <1>8, <2>1 DEF ManualStep, WorldPart, drafts
<1>9. ASSUME NEW op \in Ops, Expire(op) PROVE WorldPart'
  BY <1>w, <1>9 DEF Expire, WorldPart, drafts, world
<1> QED BY <1>1, <1>2, <1>3, <1>4, <1>5, <1>6, <1>s, <1>7, <1>8, <1>9 DEF Next

(* No turn starts while a ticket is held, no ticket is claimed in a turn.   *)
LEMMA TurnStep == IInv /\ Next => TurnPart'
<1> SUFFICES ASSUME IInv, Next, turn', ticket' # NoTicket PROVE FALSE
  BY DEF TurnPart
<1>1. GateTypeOK /\ [GateNext]_gate
  BY SwitchUsesGate, GateTypes DEF IInv
<1>2. CASE StartTurn
  BY <1>2 DEF StartTurn, Busy, gate
<1>3. CASE ~StartTurn
  <2>1. turn
    BY <1>3 DEF Next, SetModel, ShowModel, ExpireDraft, CancelDraft, CancelGate, Outdated, Confirm,
                Think, Switch, ThinkRefused, ThinkClaim, AskAgain, Advise, Compact, Fail, Apply,
                Finally, Leave, RefreshEndpoints, Reset, SettingsWritten, ManualCompact, EndTurn,
                ManualStep, Expire, world
  <2>2. ticket = NoTicket
    BY <2>1 DEF IInv, TurnPart
  <2>3. Claim
    BY <1>1, <2>2, GateFacts
  <2>4. claims' # claims
    BY <2>3, <1>1, GateFacts DEF Claim
  <2>5. ManualCompact \/ \E h \in Handlers : ThinkClaim(h)
    <3>1. ASSUME NEW op \in Ops, ManualStep(op) \/ Expire(op) PROVE FALSE
      BY <2>4, <3>1 DEF ManualStep, Expire, Holder, Begin, Stage, Install, Finish,
                        Abandon, Release, GateExpire
    <3>2. ~CancelTicket
      BY <2>4 DEF CancelTicket, Cancel, gate
    <3>3. ASSUME NEW h \in Handlers, Switch(h), ~ThinkClaim(h) PROVE FALSE
      BY <2>4, <3>3 DEF Switch, ThinkRefused, AskAgain, Advise, Compact, Fail, Apply, Finally,
                        Leave, Begin, Stage, Install, Finish, Abandon, Release, gate
    <3> QED BY <2>4, <3>1, <3>2, <3>3
            DEF Next, SetModel, ShowModel, ExpireDraft, CancelDraft, CancelGate, Outdated, Confirm,
                Think, RefreshEndpoints, Reset, SettingsWritten, StartTurn, EndTurn, gate
  <2> QED BY <2>1, <2>5 DEF ManualCompact, ThinkClaim, Busy
<1> QED BY <1>2, <1>3

-----------------------------------------------------------------------------
(* The drafts.                                                              *)

LEMMA DraftFrame ==
    ASSUME DraftPart, UNCHANGED <<reqs, pending, applied, withdrawn>> PROVE DraftPart'
BY DEF DraftPart, Ids, WithdrawnNeverApplied

\* Removing drafts from their scopes withdraws them, and no others.
LEMMA DraftDrop ==
    ASSUME DraftPart, NEW S \in SUBSET Scopes, Drop(S), UNCHANGED <<reqs, applied>>
    PROVE  DraftPart'
<1>1. pending' \in [Scopes -> 0..Len(reqs)]
  BY DEF DraftPart, Drop
<1>3. \A s \in Scopes : pending'[s] = IF s \in S THEN 0 ELSE pending[s]
  BY DEF Drop
<1>4. \A r : r \in withdrawn' =>
          r \in withdrawn \/ \E s \in S : r = pending[s] /\ pending[s] # 0
  BY DEF Drop
<1>2. withdrawn' \subseteq Ids
  <2>1. \A s \in Scopes : pending[s] # 0 => pending[s] \in Ids
    BY DEF DraftPart, Ids
  <2> QED BY <1>4, <2>1 DEF DraftPart
<1>5. WithdrawnNeverApplied'
  BY <1>4 DEF DraftPart, WithdrawnNeverApplied
<1>6. ASSUME NEW s \in Scopes, pending'[s] # 0
      PROVE  /\ reqs[pending[s]].scope = s
             /\ pending[s] \notin withdrawn'
             /\ \A i \in 1..Len(applied) : applied[i] # pending[s]
  BY <1>3, <1>4, <1>6 DEF DraftPart
<1> QED BY <1>1, <1>2, <1>3, <1>5, <1>6 DEF DraftPart, Ids

\* A draft may change its stage; it never changes its scope.
LEMMA DraftRestage ==
    ASSUME DraftPart, NEW r \in Ids, NEW d \in Draft, d.scope = reqs[r].scope,
           reqs' = [reqs EXCEPT ![r] = d], UNCHANGED <<pending, applied, withdrawn>>
    PROVE  DraftPart'
<1>1. reqs' \in Seq(Draft) /\ Len(reqs') = Len(reqs)
  BY DEF DraftPart, Ids
<1>2. \A i \in Ids : reqs'[i].scope = reqs[i].scope
  BY DEF DraftPart, Ids
<1>3. \A s \in Scopes : pending[s] # 0 => pending[s] \in Ids
  BY DEF DraftPart, Ids
<1>4. WithdrawnNeverApplied'
  BY DEF DraftPart, WithdrawnNeverApplied
<1> QED BY <1>1, <1>2, <1>3, <1>4 DEF DraftPart, Ids

\* A new draft takes the place of the scope's old one, which is withdrawn.
LEMMA DraftNew ==
    ASSUME DraftPart, NEW s \in Scopes, NEW d \in Draft, d.scope = s,
           Len(reqs) < MaxRequests, reqs' = Append(reqs, d),
           pending' = [pending EXCEPT ![s] = Len(reqs) + 1],
           withdrawn' = withdrawn \cup ({pending[s]} \ {0}), UNCHANGED applied
    PROVE  DraftPart'
<1> DEFINE n == Len(reqs)
<1>n. n \in Nat /\ reqs \in Seq(Draft)
  BY DEF DraftPart
<1>1. /\ reqs' \in Seq(Draft) /\ Len(reqs') = n + 1 /\ reqs'[n + 1] = d
      /\ \A i \in 1..n : reqs'[i] = reqs[i]
  BY <1>n
<1>2. /\ pending \in [Scopes -> 0..n] /\ applied \in Seq(1..n) /\ withdrawn \subseteq 1..n
      /\ n + 1 <= MaxRequests
  BY ModelSwitchAssumption, MaxClaimsAssumption, NoTicketAssumption DEF DraftPart, Ids
<1>a. \A i \in 1..Len(applied) : applied[i] \in 1..n
  BY <1>2
<1> HIDE DEF n
<1>3. pending' \in [Scopes -> 0..(n + 1)]
  BY <1>2, <1>n DEF n
<1>4. applied' \in Seq(1..(n + 1))
  BY <1>2, <1>n
<1>6. \A r : r \in withdrawn' => r \in withdrawn \/ (r = pending[s] /\ pending[s] # 0)
  OBVIOUS
<1>5. withdrawn' \subseteq 1..(n + 1)
  <2>1. pending[s] # 0 => pending[s] \in 1..n
    BY <1>2, <1>n
  <2>2. ASSUME NEW r \in withdrawn' PROVE r \in 1..n
    BY <2>1, <2>2, <1>2, <1>6
  <2>3. 1..n \subseteq 1..(n + 1)
    BY <1>n
  <2> QED BY <2>2, <2>3
<1>7. WithdrawnNeverApplied'
  BY <1>6 DEF DraftPart, WithdrawnNeverApplied
<1>8. ASSUME NEW t \in Scopes, pending'[t] # 0
      PROVE  /\ reqs'[pending'[t]].scope = t
             /\ pending'[t] \notin withdrawn'
             /\ \A i \in 1..Len(applied) : applied[i] # pending'[t]
  <2>1. CASE t = s
    <3>1. pending'[t] = n + 1
      BY <2>1, <1>2 DEF n
    <3>2. n + 1 \notin withdrawn' /\ \A i \in 1..Len(applied) : applied[i] # n + 1
      BY <1>2, <1>6, <1>n, <1>a
    <3> QED BY <2>1, <3>1, <3>2, <1>1
  <2>2. CASE t # s
    <3>1. pending'[t] = pending[t] /\ pending[t] \in 1..n
      BY <2>2, <1>2, <1>8, <1>n DEF n
    <3>2. /\ reqs[pending[t]].scope = t /\ pending[t] \notin withdrawn
          /\ \A i \in 1..Len(applied) : applied[i] # pending[t]
      BY <3>1, <1>n DEF DraftPart
    <3>3. pending[s] # 0 => pending[t] # pending[s]
      BY <2>2, <3>2 DEF DraftPart
    <3> QED BY <3>1, <3>2, <3>3, <1>1, <1>6
  <2> QED BY <2>1, <2>2
<1> QED BY <1>1, <1>2, <1>3, <1>4, <1>5, <1>7, <1>8 DEF DraftPart, Ids

\* The draft a scope shows is applied: it is shown no more.
LEMMA DraftApplied ==
    ASSUME DraftPart, NEW s \in Scopes, pending[s] # 0, applied' = Append(applied, pending[s]),
           pending' = [pending EXCEPT ![s] = 0], UNCHANGED <<reqs, withdrawn>>
    PROVE  DraftPart'
<1> DEFINE n == Len(applied)
           r == pending[s]
<1>1. /\ applied \in Seq(Ids) /\ n \in Nat /\ r \in Ids /\ reqs[r].scope = s
      /\ r \notin withdrawn /\ \A i \in 1..n : applied[i] # r
      /\ pending \in [Scopes -> 0..Len(reqs)]
  BY DEF DraftPart, Ids
<1>2. /\ applied' \in Seq(Ids) /\ Len(applied') = n + 1 /\ applied'[n + 1] = r
      /\ \A i \in 1..n : applied'[i] = applied[i]
  BY <1>1
<1>3. \A i \in 1..n : applied[i] \notin withdrawn
  BY DEF DraftPart, WithdrawnNeverApplied
<1>4. \A i, j \in 1..n : applied[i] = applied[j] => i = j
  BY DEF DraftPart, WithdrawnNeverApplied
<1>5. \A t \in Scopes \ {s} : pending'[t] = pending[t] /\ pending[t] # r
  BY <1>1 DEF DraftPart
<1>6. pending'[s] = 0 /\ pending' \in [Scopes -> 0..Len(reqs)]
  BY <1>1 DEF DraftPart
<1>7. \A t \in Scopes \ {s} : pending[t] # 0 =>
        /\ reqs[pending[t]].scope = t
        /\ pending[t] \notin withdrawn
        /\ \A i \in 1..n : applied[i] # pending[t]
  BY DEF DraftPart
<1>8. applied' \in Seq(Ids')
  BY <1>2 DEF Ids
<1>9. reqs' \in Seq(Draft) /\ Len(reqs') <= MaxRequests /\ withdrawn' \subseteq Ids'
  BY DEF DraftPart, Ids
<1> HIDE DEF n, r
<1>10. \A i \in 1..(n + 1) : i = n + 1 \/ i \in 1..n
  BY <1>1
<1>11. WithdrawnNeverApplied'
  BY <1>1, <1>2, <1>3, <1>4, <1>10 DEF WithdrawnNeverApplied
<1>12. ASSUME NEW t \in Scopes, pending'[t] # 0
       PROVE  /\ reqs[pending'[t]].scope = t
              /\ pending'[t] \notin withdrawn
              /\ \A i \in 1..(n + 1) : applied'[i] # pending'[t]
  BY <1>2, <1>5, <1>6, <1>7, <1>10, <1>12
<1> QED BY <1>2, <1>6, <1>8, <1>9, <1>11, <1>12 DEF DraftPart

LEMMA DraftStep == IInv /\ Next => DraftPart'
<1> SUFFICES ASSUME IInv, Next PROVE DraftPart'
  OBVIOUS
<1>d. DraftPart /\ WorldPart
  BY DEF IInv
<1>p. reqs \in Seq(Draft) /\ pending \in [Scopes -> 0..Len(reqs)]
  BY <1>d DEF DraftPart
<1>1. ASSUME NEW s \in Scopes, NEW e \in Endpoints, SetModel(s, e) PROVE DraftPart'
  <2> DEFINE d == [scope |-> s, target |-> e, identity |-> <<settings, specs>>,
                   stage |-> IF big THEN "confirm" ELSE "think", confirmed |-> FALSE]
  <2>1. d \in Draft /\ d.scope = s
    BY <1>d DEF Draft, WorldPart
  <2>2. /\ Len(reqs) < MaxRequests /\ reqs' = Append(reqs, d)
        /\ pending' = [pending EXCEPT ![s] = Len(reqs) + 1]
        /\ withdrawn' = withdrawn \cup ({pending[s]} \ {0}) /\ UNCHANGED applied
    BY <1>1 DEF SetModel
  <2> HIDE DEF d
  <2> QED BY <1>d, <2>1, <2>2, DraftNew
<1>2. ASSUME NEW s \in Scopes, ShowModel(s) \/ CancelGate(s) PROVE DraftPart'
  <2>1. /\ {s} \cap DraftScopes \in SUBSET Scopes
        /\ Drop({s} \cap DraftScopes) /\ UNCHANGED <<reqs, applied>>
    BY <1>2 DEF ShowModel, CancelGate
  <2> QED BY <1>d, <2>1, DraftDrop
<1>3. ASSUME NEW s \in Scopes, ExpireDraft(s) \/ CancelDraft(s) \/ Outdated(s) PROVE DraftPart'
  <2>1. {s} \in SUBSET Scopes /\ Drop({s}) /\ UNCHANGED <<reqs, applied>>
    BY <1>3 DEF ExpireDraft, CancelDraft, Outdated
  <2> QED BY <1>d, <2>1, DraftDrop
<1>4. ASSUME NEW r \in Ids, NEW stage \in {"confirm", "think", "executing"},
             reqs' = [reqs EXCEPT ![r].stage = stage], UNCHANGED <<pending, applied, withdrawn>>
      PROVE  DraftPart'
  <2> DEFINE d == [reqs[r] EXCEPT !.stage = stage]
  <2>1. reqs[r] \in Draft
    BY <1>p DEF Ids
  <2>2. d \in Draft /\ d.scope = reqs[r].scope
    BY <2>1 DEF Draft
  <2>3. reqs' = [reqs EXCEPT ![r] = d]
    BY <1>4
  <2> HIDE DEF d
  <2> QED BY <1>d, <1>4, <2>2, <2>3, DraftRestage
<1>5. ASSUME NEW s \in Scopes, Confirm(s) PROVE DraftPart'
  <2> DEFINE d == [reqs[pending[s]] EXCEPT !.stage = "think", !.confirmed = TRUE]
  <2>0. pending[s] \in Ids
    BY <1>p, <1>5 DEF Confirm, Pressed, Ids
  <2>1. reqs[pending[s]] \in Draft
    BY <1>p, <2>0 DEF Ids
  <2>2. d \in Draft /\ d.scope = reqs[pending[s]].scope
    BY <2>1 DEF Draft
  <2>3. reqs' = [reqs EXCEPT ![pending[s]] = d] /\ UNCHANGED <<pending, applied, withdrawn>>
    BY <1>5 DEF Confirm
  <2> HIDE DEF d
  <2> QED BY <1>d, <2>0, <2>2, <2>3, DraftRestage
<1>6. ASSUME NEW s \in Scopes, NEW h \in Handlers, Think(s, h) PROVE DraftPart'
  BY <1>d, <1>6, DraftFrame DEF Think
<1>7. ASSUME NEW h \in Handlers, handler[h].at # "idle"
      PROVE  Req(h) \in Ids /\ reqs[Req(h)] \in Draft /\ reqs[Req(h)].scope \in Scopes
  <2>1. handler[h] \in [at : At, req : 0..Len(reqs), op : 0..claims] /\ handler[h].req # 0
    BY <1>7 DEF IInv, HandlerPart
  <2>2. Req(h) \in Ids
    BY <2>1, <1>p DEF Req, Ids
  <2>3. reqs[Req(h)] \in Draft
    BY <2>2, <1>p DEF Ids
  <2> QED BY <2>2, <2>3 DEF Draft
<1>8. ASSUME NEW h \in Handlers, ThinkRefused(h) PROVE DraftPart'
  <2>1. {reqs[Req(h)].scope} \in SUBSET Scopes
    BY <1>7, <1>8 DEF ThinkRefused
  <2>2. Drop({reqs[Req(h)].scope}) /\ UNCHANGED <<reqs, applied>>
    BY <1>8 DEF ThinkRefused
  <2> QED BY <1>d, <2>1, <2>2, DraftDrop
<1>9. ASSUME NEW h \in Handlers, ThinkClaim(h) PROVE DraftPart'
  <2>1. Req(h) \in Ids
    BY <1>7, <1>9 DEF ThinkClaim
  <2> QED BY <1>4, <1>9, <2>1 DEF ThinkClaim
<1>10. ASSUME NEW h \in Handlers, AskAgain(h) PROVE DraftPart'
  <2>1. Req(h) \in Ids
    BY <1>7, <1>10 DEF AskAgain
  <2> QED BY <1>4, <1>10, <2>1 DEF AskAgain
<1>11. ASSUME NEW h \in Handlers, Advise(h) \/ Compact(h) \/ Fail(h) \/ Leave(h) PROVE DraftPart'
  <2>1. UNCHANGED <<reqs, pending, applied, withdrawn>>
    BY <1>11 DEF Advise, Compact, Fail, Leave
  <2> QED BY <1>d, <2>1, DraftFrame
<1>12. ASSUME NEW h \in Handlers, Apply(h) PROVE DraftPart'
  <2>1. PICK s \in Scopes : s = reqs[Req(h)].scope
    BY <1>7, <1>12 DEF Apply
  <2>2. Req(h) # 0
    BY <1>7, <1>12 DEF Apply, Ids
  <2>3. /\ pending[s] = Req(h) /\ applied' = Append(applied, pending[s])
        /\ pending' = [pending EXCEPT ![s] = 0] /\ UNCHANGED <<reqs, withdrawn>>
    BY <1>12, <2>1 DEF Apply, Current
  <2> QED BY <1>d, <2>2, <2>3, DraftApplied
<1>13. ASSUME NEW h \in Handlers, Finally(h) PROVE DraftPart'
  <2>1. PICK s \in Scopes : s = reqs[Req(h)].scope
    BY <1>7, <1>13 DEF Finally
  <2>2. PICK S \in SUBSET Scopes : S = IF pending[s] = Req(h) /\ Executing(Req(h)) THEN {s} ELSE {}
    OBVIOUS
  <2>3. Drop(S) /\ UNCHANGED <<reqs, applied>>
    BY <1>13, <2>1, <2>2 DEF Finally
  <2> QED BY <1>d, <2>3, DraftDrop
<1>14. CASE RefreshEndpoints \/ Reset
  <2>1. Scopes \in SUBSET Scopes /\ Drop(Scopes) /\ UNCHANGED <<reqs, applied>>
    BY <1>14 DEF RefreshEndpoints, Reset
  <2> QED BY <1>d, <2>1, DraftDrop
<1>15. CASE (\E e \in Endpoints : SettingsWritten(e)) \/ ManualCompact \/ StartTurn \/ EndTurn
  <2>1. UNCHANGED <<reqs, pending, applied, withdrawn>>
    BY <1>15 DEF SettingsWritten, ManualCompact, StartTurn, EndTurn, drafts
  <2> QED BY <1>d, <2>1, DraftFrame
<1>16. ASSUME NEW op \in Ops, ManualStep(op) \/ Expire(op) PROVE DraftPart'
  <2>1. UNCHANGED <<reqs, pending, applied, withdrawn>>
    BY <1>16 DEF ManualStep, Expire, drafts
  <2> QED BY <1>d, <2>1, DraftFrame
<1> QED BY <1>1, <1>2, <1>3, <1>5, <1>6, <1>8, <1>9, <1>10, <1>11, <1>12, <1>13, <1>14, <1>15,
           <1>16 DEF Next, Switch

-----------------------------------------------------------------------------
(* The handlers.                                                            *)

\* Nothing happens to a handler as long as nobody moves its claim.
LEMMA HandlerFrame ==
    ASSUME HandlerPart, UNCHANGED handler, claims \in Nat, claims' \in Nat, claims <= claims',
           Len(reqs) \in Nat, Len(reqs') \in Nat, Len(reqs) <= Len(reqs'),
           \A h \in Handlers : handler[h].op # 0 => holder'[handler[h].op] = holder[handler[h].op]
    PROVE  HandlerPart'
<1>1. handler' \in [Handlers -> [at : At, req : 0..Len(reqs'), op : 0..claims']]
  <2>1. 0..Len(reqs) \subseteq 0..Len(reqs') /\ 0..claims \subseteq 0..claims'
    OBVIOUS
  <2>2. [at : At, req : 0..Len(reqs), op : 0..claims]
          \subseteq [at : At, req : 0..Len(reqs'), op : 0..claims']
    BY <2>1
  <2> QED BY <2>2 DEF HandlerPart
<1>2. \A h \in Handlers : handler[h].at \in Past =>
          handler[h].op # 0 /\ HolderFits(handler[h].at, holder'[handler[h].op])
  BY DEF HandlerPart
<1> QED BY <1>1, <1>2 DEF HandlerPart

\* One handler goes on, with its own claim or with a new one.
LEMMA HandlerMove ==
    ASSUME HandlerPart, NEW h \in Handlers, claims \in Nat, claims' \in Nat, claims <= claims',
           Len(reqs) \in Nat, Len(reqs') = Len(reqs),
           NEW v \in [at : At, req : 0..Len(reqs), op : 0..claims'],
           handler' = [handler EXCEPT ![h] = v],
           v.at # "idle" => v.req # 0,
           v.at \in Past => v.op # 0 /\ HolderFits(v.at, holder'[v.op]),
           v.at \in {"idle", "lock"} => v.op = 0,
           v.op = 0 \/ v.op = handler[h].op \/ v.op > claims,
           \A g \in Handlers \ {h} :
               handler[g].op # 0 => holder'[handler[g].op] = holder[handler[g].op]
    PROVE  HandlerPart'
<1>0. handler \in [Handlers -> [at : At, req : 0..Len(reqs), op : 0..claims]]
  BY DEF HandlerPart
<1>1. handler'[h] = v /\ \A g \in Handlers \ {h} : handler'[g] = handler[g]
  BY <1>0
<1>2. \A g \in Handlers : handler[g].op \in 0..claims
  BY <1>0
<1>3. handler' \in [Handlers -> [at : At, req : 0..Len(reqs), op : 0..claims']]
  <2>1. 0..claims \subseteq 0..claims'
    OBVIOUS
  <2>2. [at : At, req : 0..Len(reqs), op : 0..claims]
          \subseteq [at : At, req : 0..Len(reqs), op : 0..claims']
    BY <2>1
  <2>3. \A g \in Handlers : handler[g] \in [at : At, req : 0..Len(reqs), op : 0..claims']
    BY <2>2, <1>0
  <2> QED BY <2>3, <1>0
<1>4. \A g \in Handlers : handler'[g].at # "idle" => handler'[g].req # 0
  BY <1>1 DEF HandlerPart
<1>5. \A g \in Handlers : handler'[g].at \in Past =>
          handler'[g].op # 0 /\ HolderFits(handler'[g].at, holder'[handler'[g].op])
  <2> SUFFICES ASSUME NEW g \in Handlers, handler'[g].at \in Past
               PROVE  handler'[g].op # 0 /\ HolderFits(handler'[g].at, holder'[handler'[g].op])
    OBVIOUS
  <2>1. CASE g = h
    BY <2>1, <1>1
  <2>2. CASE g # h
    <3>1. handler'[g] = handler[g]
      BY <2>2, <1>1
    <3>2. handler[g].op # 0 /\ HolderFits(handler[g].at, holder[handler[g].op])
      BY <3>1 DEF HandlerPart
    <3> QED BY <2>2, <3>1, <3>2
  <2> QED BY <2>1, <2>2
<1>6. \A g \in Handlers : handler'[g].at \in {"idle", "lock"} => handler'[g].op = 0
  BY <1>1 DEF HandlerPart
<1>7. \A g \in Handlers \ {h} : v.op # 0 => handler[g].op # v.op
  BY <1>2 DEF HandlerPart
<1>8. \A f, g \in Handlers : handler'[f].op = handler'[g].op /\ handler'[f].op # 0 => f = g
  BY <1>1, <1>7 DEF HandlerPart
<1> QED BY <1>3, <1>4, <1>5, <1>6, <1>8 DEF HandlerPart

\* A handler that goes on with its own claim.
LEMMA HandlerGoes ==
    ASSUME IInv, NEW h \in Handlers, handler[h].at \in Past, NEW place \in Past, Goes(h, place),
           HolderFits(place, holder'[Op(h)]),
           \A o \in Ops : o # Op(h) => holder'[o] = holder[o],
           claims' = claims, Len(reqs') = Len(reqs)
    PROVE  HandlerPart'
<1> DEFINE v == [handler[h] EXCEPT !.at = place]
<1>1. reqs \in Seq(Draft) /\ claims \in 0..MaxClaims /\ HandlerPart
  BY GateTypes DEF IInv, DraftPart, GateTypeOK
<1>2. handler \in [Handlers -> [at : At, req : 0..Len(reqs), op : 0..claims]]
  BY <1>1 DEF HandlerPart
<1>3. /\ v \in [at : At, req : 0..Len(reqs), op : 0..claims']
      /\ v.at = place /\ v.req = Req(h) /\ v.op = Op(h)
  BY <1>2 DEF Past, At, Req, Op
<1>4. handler' = [handler EXCEPT ![h] = v]
  BY DEF Goes
<1>5. Req(h) # 0 /\ Op(h) # 0 /\ Op(h) \in Ops
  BY OwnsClaim DEF Ids
<1>6. \A g \in Handlers \ {h} :
          handler[g].op # 0 => handler[g].op \in Ops /\ handler[g].op # Op(h)
  <2>1. \A g \in Handlers : handler[g].op \in 0..claims
    BY <1>2
  <2> QED BY <2>1, <1>1, <1>5, ModelSwitchAssumption, MaxClaimsAssumption, NoTicketAssumption DEF HandlerPart, Op, Ops
<1>7. Len(reqs) \in Nat /\ claims \in Nat /\ claims' \in Nat /\ claims <= claims'
  BY <1>1, ModelSwitchAssumption, MaxClaimsAssumption, NoTicketAssumption
<1>8. place # "idle" /\ place \notin {"idle", "lock"}
  BY DEF Past
<1> HIDE DEF v
<1> QED BY <1>1, <1>3, <1>4, <1>5, <1>6, <1>7, <1>8, HandlerMove DEF Op

LEMMA HandlerStep == IInv /\ Next => HandlerPart'
<1> SUFFICES ASSUME IInv, Next PROVE HandlerPart'
  OBVIOUS
<1>t. GateTypeOK /\ HandlerPart /\ DraftPart /\ DraftPart'
  BY GateTypes, DraftStep DEF IInv
<1>n. claims \in Nat /\ claims \in 0..MaxClaims /\ Len(reqs) \in Nat /\ Len(reqs') \in Nat
  BY <1>t, ModelSwitchAssumption, MaxClaimsAssumption, NoTicketAssumption DEF GateTypeOK, DraftPart
<1>o. holder \in [Ops -> Places]
  BY <1>t DEF GateTypeOK
<1>h. handler \in [Handlers -> [at : At, req : 0..Len(reqs), op : 0..claims]]
  BY <1>t DEF HandlerPart
<1>g. \A g \in Handlers : handler[g].op # 0 => handler[g].op \in Ops /\ handler[g].op <= claims
  <2>1. \A g \in Handlers : handler[g].op \in 0..claims
    BY <1>h
  <2> QED BY <2>1, <1>n, ModelSwitchAssumption, MaxClaimsAssumption, NoTicketAssumption DEF Ops
<1>1. ASSUME UNCHANGED <<handler, holder, claims>>, Len(reqs) <= Len(reqs') PROVE HandlerPart'
  BY <1>1, <1>t, <1>n, HandlerFrame
<1>2. ASSUME NEW s \in Scopes, NEW e \in Endpoints, SetModel(s, e) PROVE HandlerPart'
  <2>1. Len(reqs') = Len(reqs) + 1
    BY <1>2, <1>t DEF SetModel, DraftPart
  <2>2. UNCHANGED <<handler, holder, claims>>
    BY <1>2 DEF SetModel, gate
  <2> QED BY <1>1, <1>n, <2>1, <2>2
<1>3. CancelTicket => UNCHANGED <<holder, claims>>
  BY DEF CancelTicket, Cancel, gate
<1>4. ASSUME NEW s \in Scopes,
             ShowModel(s) \/ ExpireDraft(s) \/ CancelDraft(s) \/ CancelGate(s) \/ Outdated(s)
      PROVE  HandlerPart'
  <2>1. UNCHANGED <<handler, holder, claims, reqs>>
    BY <1>3, <1>4 DEF ShowModel, ExpireDraft, CancelDraft, CancelGate, Outdated, gate
  <2> QED BY <1>1, <1>n, <2>1
<1>5. ASSUME NEW s \in Scopes, Confirm(s) PROVE HandlerPart'
  <2>1. Len(reqs') = Len(reqs)
    BY <1>5, <1>t DEF Confirm, DraftPart
  <2>2. UNCHANGED <<handler, holder, claims>>
    BY <1>5 DEF Confirm, gate
  <2> QED BY <1>1, <1>n, <2>1, <2>2
<1>6. ASSUME NEW s \in Scopes, NEW h \in Handlers, Think(s, h) PROVE HandlerPart'
  <2> DEFINE v == [at |-> "lock", req |-> pending[s], op |-> 0]
  <2>1. pending[s] \in 0..Len(reqs) /\ pending[s] # 0
    BY <1>6, <1>t DEF Think, Pressed, DraftPart
  <2>2. /\ v \in [at : At, req : 0..Len(reqs), op : 0..claims']
        /\ v.at = "lock" /\ v.req # 0 /\ v.op = 0
    BY <1>6, <1>n, <2>1 DEF At, Think, gate
  <2>3. handler' = [handler EXCEPT ![h] = v] /\ UNCHANGED <<holder, claims, reqs>>
    BY <1>6 DEF Think, gate
  <2>4. "lock" \notin Past /\ "lock" # "idle"
    BY DEF Past
  <2>5. claims' \in Nat /\ claims <= claims' /\ Len(reqs') = Len(reqs)
    BY <2>3, <1>n
  <2>6. \A g \in Handlers \ {h} :
            handler[g].op # 0 => holder'[handler[g].op] = holder[handler[g].op]
    BY <2>3
  <2>7. HandlerPart
    BY <1>t
  <2> HIDE DEF v
  <2> QED BY <1>n, <2>2, <2>3, <2>4, <2>5, <2>6, <2>7, HandlerMove
<1>7. ASSUME NEW h \in Handlers, handler' = [handler EXCEPT ![h] = Idle], UNCHANGED <<claims, reqs>>,
             \A g \in Handlers \ {h} :
                 handler[g].op # 0 => holder'[handler[g].op] = holder[handler[g].op]
      PROVE  HandlerPart'
  <2>1. /\ Idle \in [at : At, req : 0..Len(reqs), op : 0..claims']
        /\ Idle.at = "idle" /\ Idle.op = 0 /\ "idle" \notin Past
    BY <1>7, <1>n DEF Idle, At, Past
  <2>2. claims' \in Nat /\ claims <= claims' /\ Len(reqs') = Len(reqs)
    BY <1>7, <1>n
  <2>3. HandlerPart
    BY <1>t
  <2> QED BY <1>7, <1>n, <2>1, <2>2, <2>3, HandlerMove
<1>8. ASSUME NEW h \in Handlers, ThinkRefused(h) PROVE HandlerPart'
  BY <1>7, <1>8 DEF ThinkRefused, gate
<1>c. ASSUME Claim
      PROVE  /\ claims' = claims + 1 /\ claims' \in Ops /\ holder'[claims'] = "claimed"
             /\ \A g \in Handlers :
                    handler[g].op # 0 => holder'[handler[g].op] = holder[handler[g].op]
  <2>1. claims' = claims + 1 /\ claims' \in Ops
    BY <1>c, <1>n, ModelSwitchAssumption, MaxClaimsAssumption, NoTicketAssumption DEF Claim, Ops
  <2>2. holder' = [holder EXCEPT ![claims + 1] = "claimed"]
    BY <1>c DEF Claim, MoveTo
  <2>3. \A g \in Handlers : handler[g].op # 0 => handler[g].op # claims + 1
    BY <1>g, <1>n DEF Ops
  <2> QED BY <2>1, <2>2, <2>3, <1>g, <1>o
<1>9. ASSUME NEW h \in Handlers, ThinkClaim(h) PROVE HandlerPart'
  <2> DEFINE v == [handler[h] EXCEPT !.at = "advice", !.op = claims']
  <2>1. Claim /\ handler' = [handler EXCEPT ![h] = v] /\ handler[h].at = "lock"
    BY <1>9 DEF ThinkClaim
  <2>2. claims' \in 0..claims' /\ claims' \in Nat /\ claims <= claims' /\ claims' > claims
    BY <2>1, <1>c, <1>n
  <2>3. handler[h].req # 0 /\ handler[h] \in [at : At, req : 0..Len(reqs), op : 0..claims]
    BY <2>1, <1>t, <1>h DEF HandlerPart
  <2>4. /\ v \in [at : At, req : 0..Len(reqs), op : 0..claims']
        /\ v.at = "advice" /\ v.req # 0 /\ v.op = claims'
    BY <2>2, <2>3 DEF At
  <2>5. Len(reqs') = Len(reqs)
    BY <1>9, <1>t DEF ThinkClaim, DraftPart
  <2>6. HolderFits("advice", holder'[claims']) /\ "advice" \notin {"idle", "lock"} /\ claims' # 0
    BY <2>1, <2>2, <1>c, <1>n DEF HolderFits
  <2> HIDE DEF v
  <2> QED BY <2>1, <2>2, <2>4, <2>5, <2>6, <1>c, <1>t, <1>n, HandlerMove
<1>10. ASSUME NEW op \in Ops, Abandon(op)
       PROVE  /\ claims' = claims /\ holder'[op] = "releasing"
              /\ \A o \in Ops : o # op => holder'[o] = holder[o]
  BY <1>10, <1>o DEF Abandon, MoveTo
<1>11. ASSUME NEW h \in Handlers, handler[h].at \in {"advice", "compact", "apply"},
              NEW place \in {"replying", "ending"}, Goes(h, place), Len(reqs') = Len(reqs),
              Abandon(Op(h)) \/ (holder[Op(h)] = "releasing" /\ UNCHANGED gate)
       PROVE  HandlerPart'
  <2>1. handler[h].at \in Past /\ place \in Past
    BY <1>11 DEF Past
  <2>2. Op(h) \in Ops
    BY <2>1, OwnsClaim
  <2>3. /\ claims' = claims /\ holder'[Op(h)] = "releasing"
        /\ \A o \in Ops : o # Op(h) => holder'[o] = holder[o]
    BY <1>10, <1>11, <2>2 DEF gate
  <2>4. HolderFits(place, holder'[Op(h)])
    BY <1>11, <2>3 DEF HolderFits
  <2> QED BY <1>11, <2>1, <2>3, <2>4, HandlerGoes
<1>12. ASSUME NEW h \in Handlers, AskAgain(h) PROVE HandlerPart'
  <2>1. Len(reqs') = Len(reqs)
    BY <1>12, <1>t DEF AskAgain, DraftPart
  <2> QED BY <1>11, <1>12, <2>1 DEF AskAgain
<1>13. ASSUME NEW h \in Handlers, Fail(h) \/ Apply(h) PROVE HandlerPart'
  <2>1. /\ handler[h].at \in {"advice", "compact", "apply"} /\ Goes(h, "replying")
        /\ Abandon(Op(h)) \/ (holder[Op(h)] = "releasing" /\ UNCHANGED gate)
        /\ reqs' = reqs
    BY <1>13 DEF Fail, Apply
  <2> QED BY <1>11, <2>1
<1>14. ASSUME NEW h \in Handlers, Advise(h) PROVE HandlerPart'
  <2>1. PICK place \in {"compact", "apply"} : Goes(h, place)
    BY <1>14 DEF Advise
  <2>2. handler[h].at \in Past /\ handler[h].at = "advice" /\ place \in Past
    BY <1>14 DEF Advise, Past
  <2>3. holder[Op(h)] = "claimed"
    BY <2>2, OwnsClaim DEF HolderFits
  <2>4. UNCHANGED <<holder, claims, reqs>>
    BY <1>14 DEF Advise, gate
  <2>5. HolderFits(place, holder'[Op(h)])
    BY <2>3, <2>4 DEF HolderFits
  <2> QED BY <2>1, <2>2, <2>4, <2>5, HandlerGoes
<1>15. ASSUME NEW h \in Handlers, Compact(h) PROVE HandlerPart'
  <2>1. handler[h].at = "compact" /\ handler[h].at \in Past /\ reqs' = reqs
    BY <1>15 DEF Compact, Past
  <2>2. Op(h) \in Ops
    BY <2>1, OwnsClaim
  <2>3. CASE Eligible(Op(h)) /\ (Begin(Op(h)) \/ Stage(Op(h)) \/ Install(Op(h)))
             /\ UNCHANGED handler
    <3>1. /\ holder'[Op(h)] \in {"generating", "staging", "installed"} /\ claims' = claims
          /\ \A o \in Ops : o # Op(h) => holder'[o] = holder[o]
      BY <2>2, <2>3, <1>o DEF Begin, Stage, Install, MoveTo
    <3>2. Goes(h, "compact")
      BY <2>1, <2>3, <1>h DEF Goes
    <3>3. HolderFits("compact", holder'[Op(h)]) /\ "compact" \in Past
      BY <3>1 DEF HolderFits, Past
    <3> QED BY <2>1, <3>1, <3>2, <3>3, HandlerGoes
  <2>4. CASE Finish(Op(h)) /\ Goes(h, "apply")
    <3>1. /\ holder'[Op(h)] = "releasing" /\ claims' = claims
          /\ \A o \in Ops : o # Op(h) => holder'[o] = holder[o]
      BY <2>2, <2>4, <1>o DEF Finish, MoveTo
    <3>2. HolderFits("apply", holder'[Op(h)]) /\ "apply" \in Past
      BY <3>1 DEF HolderFits, Past
    <3> QED BY <2>1, <2>4, <3>1, <3>2, HandlerGoes
  <2>5. CASE Abandon(Op(h)) /\ Goes(h, "replying")
    BY <2>1, <2>5, <1>11
  <2> QED BY <1>15, <2>3, <2>4, <2>5 DEF Compact, Current
<1>16. ASSUME NEW h \in Handlers, Finally(h) PROVE HandlerPart'
  <2>1. handler[h].at = "replying" /\ handler[h].at \in Past /\ Goes(h, "ending")
    BY <1>16 DEF Finally, Past
  <2>2. UNCHANGED <<holder, claims, reqs>>
    BY <1>16 DEF Finally, gate
  <2>3. HolderFits("ending", holder'[Op(h)]) /\ "ending" \in Past
    BY <2>1, <2>2, OwnsClaim DEF HolderFits, Past
  <2> QED BY <2>1, <2>2, <2>3, HandlerGoes
<1>17. ASSUME NEW h \in Handlers, Leave(h) PROVE HandlerPart'
  <2>1. handler[h].at \in Past
    BY <1>17 DEF Leave, Past
  <2>2. Op(h) \in Ops /\ Op(h) # 0
    BY <2>1, OwnsClaim DEF Ops
  <2>3. \A g \in Handlers \ {h} : handler[g].op # 0 => handler[g].op # Op(h)
    BY <2>2, <1>t DEF HandlerPart, Op
  <2>4. /\ handler' = [handler EXCEPT ![h] = Idle] /\ UNCHANGED <<claims, reqs>>
        /\ holder' = [holder EXCEPT ![Op(h)] = "gone"]
    BY <1>17 DEF Leave, Release, MoveTo
  <2> QED BY <1>7, <1>g, <1>o, <2>2, <2>3, <2>4
<1>18. CASE RefreshEndpoints \/ Reset
  <2>1. UNCHANGED <<handler, holder, claims, reqs>>
    BY <1>3, <1>18 DEF RefreshEndpoints, Reset, gate
  <2> QED BY <1>1, <1>n, <2>1
<1>19. CASE (\E e \in Endpoints : SettingsWritten(e)) \/ StartTurn \/ EndTurn
  <2>1. UNCHANGED <<handler, holder, claims, reqs>>
    BY <1>19 DEF SettingsWritten, StartTurn, EndTurn, drafts, gate
  <2> QED BY <1>1, <1>n, <2>1
<1>20. CASE ManualCompact
  <2>1. UNCHANGED <<handler, reqs>> /\ Claim
    BY <1>20 DEF ManualCompact, drafts
  <2>2. claims' \in Nat /\ claims <= claims'
    BY <2>1, <1>c, <1>n
  <2> QED BY <2>1, <2>2, <1>c, <1>t, <1>n, HandlerFrame
<1>21. ASSUME NEW op \in Ops, ManualStep(op) PROVE HandlerPart'
  <2>1. UNCHANGED <<handler, reqs>> /\ Holder(op) /\ \A g \in Handlers : handler[g].op # op
    BY <1>21 DEF ManualStep, drafts, Owned
  <2>2. claims' = claims
    BY <2>1 DEF Holder, Begin, Stage, Install, Finish, Abandon, Release
  <2>3. \A g \in Handlers : handler[g].op # 0 => holder'[handler[g].op] = holder[handler[g].op]
    BY <2>1, <1>g, <1>t, HolderMoves
  <2> QED BY <2>1, <2>2, <2>3, <1>t, <1>n, HandlerFrame
<1>22. ASSUME NEW op \in Ops, Expire(op) PROVE HandlerPart'
  <2>1. UNCHANGED <<handler, holder, claims, reqs>>
    BY <1>22 DEF Expire, GateExpire, drafts
  <2> QED BY <1>1, <1>n, <2>1
<1> QED BY <1>2, <1>4, <1>5, <1>6, <1>8, <1>9, <1>12, <1>13, <1>14, <1>15, <1>16, <1>17, <1>18,
           <1>19, <1>20, <1>21, <1>22 DEF Next, Switch

-----------------------------------------------------------------------------
(* An executing draft keeps a handler.                                      *)

Attending == {"advice", "compact", "apply", "replying"}

LEMMA AttendedStep == IInv /\ Next => ExecutingIsAttended'
<1> SUFFICES ASSUME IInv, Next PROVE ExecutingIsAttended'
  OBVIOUS
<1>a. ExecutingIsAttended
  BY DEF IInv
<1>p. reqs \in Seq(Draft) /\ pending \in [Scopes -> 0..Len(reqs)] /\ Len(reqs) \in Nat
  BY DEF IInv, DraftPart
<1>h. handler \in [Handlers -> [at : At, req : 0..Len(reqs), op : 0..claims]]
  BY DEF IInv, HandlerPart
\* drafts leave, stages may fall, and the handlers at work stay at work
<1>1. ASSUME \A s \in Scopes : pending'[s] # 0 /\ reqs'[pending'[s]].stage = "executing" =>
                 pending'[s] = pending[s] /\ reqs[pending[s]].stage = "executing",
             \A h \in Handlers : handler[h].at \in Attending =>
                 handler'[h].req = handler[h].req /\ handler'[h].at \in Attending
      PROVE  ExecutingIsAttended'
  BY <1>1, <1>a DEF ExecutingIsAttended, Executing, Attending, Req
<1>2. ASSUME NEW S, Drop(S), reqs' = reqs
      PROVE  \A s \in Scopes : pending'[s] # 0 /\ reqs'[pending'[s]].stage = "executing" =>
                 pending'[s] = pending[s] /\ reqs[pending[s]].stage = "executing"
  BY <1>2 DEF Drop
<1>3. ASSUME NEW S, Drop(S), UNCHANGED <<reqs, handler>> PROVE ExecutingIsAttended'
  BY <1>1, <1>2, <1>3
<1>4. ASSUME UNCHANGED <<reqs, pending, handler>> PROVE ExecutingIsAttended'
  BY <1>1, <1>4
<1>5. ASSUME NEW s \in Scopes, NEW e \in Endpoints, SetModel(s, e) PROVE ExecutingIsAttended'
  <2> DEFINE d == [scope |-> s, target |-> e, identity |-> <<settings, specs>>,
                   stage |-> IF big THEN "confirm" ELSE "think", confirmed |-> FALSE]
  <2>1. d.stage # "executing"
    OBVIOUS
  <2>2. /\ reqs' = Append(reqs, d) /\ UNCHANGED handler
        /\ pending' = [pending EXCEPT ![s] = Len(reqs) + 1]
    BY <1>5 DEF SetModel
  <2> HIDE DEF d
  <2>3. reqs'[Len(reqs) + 1] = d /\ \A i \in 1..Len(reqs) : reqs'[i] = reqs[i]
    BY <2>2, <1>p
  <2>4. pending'[s] = Len(reqs) + 1 /\ \A t \in Scopes \ {s} : pending'[t] = pending[t]
    BY <2>2, <1>p
  <2>5. \A t \in Scopes : pending[t] # 0 => pending[t] \in 1..Len(reqs)
    BY <1>p
  <2> QED BY <1>1, <2>1, <2>2, <2>3, <2>4, <2>5
<1>6. ASSUME NEW s \in Scopes, ShowModel(s) \/ ExpireDraft(s) \/ CancelDraft(s) \/ CancelGate(s)
                               \/ Outdated(s)
      PROVE  ExecutingIsAttended'
  BY <1>3, <1>6 DEF ShowModel, ExpireDraft, CancelDraft, CancelGate, Outdated
\* no other draft's stage changes
<1>r. ASSUME NEW r \in 1..Len(reqs), NEW d \in Draft, reqs' = [reqs EXCEPT ![r] = d]
      PROVE  reqs'[r] = d /\ \A i \in 1..Len(reqs) : i # r => reqs'[i] = reqs[i]
  BY <1>r, <1>p
<1>7. ASSUME NEW s \in Scopes, Confirm(s) PROVE ExecutingIsAttended'
  <2> DEFINE d == [reqs[pending[s]] EXCEPT !.stage = "think", !.confirmed = TRUE]
  <2>0. pending[s] \in 1..Len(reqs)
    BY <1>p, <1>7 DEF Confirm, Pressed
  <2>1. reqs[pending[s]] \in Draft
    BY <1>p, <2>0
  <2>2. d \in Draft /\ d.stage # "executing"
    BY <2>1 DEF Draft
  <2>3. reqs' = [reqs EXCEPT ![pending[s]] = d] /\ UNCHANGED <<pending, handler>>
    BY <1>7 DEF Confirm
  <2> HIDE DEF d
  <2>4. \A i \in 1..Len(reqs) : reqs'[i].stage = "executing" => reqs[i].stage = "executing"
    BY <1>r, <2>0, <2>2, <2>3
  <2>5. \A t \in Scopes : pending[t] # 0 => pending[t] \in 1..Len(reqs)
    BY <1>p
  <2> QED BY <1>1, <2>3, <2>4, <2>5
<1>8. ASSUME NEW s \in Scopes, NEW h \in Handlers, Think(s, h) PROVE ExecutingIsAttended'
  <2>1. UNCHANGED <<reqs, pending>> /\ handler[h] = Idle
        /\ handler' = [handler EXCEPT ![h] = [at |-> "lock", req |-> pending[s], op |-> 0]]
    BY <1>8 DEF Think
  <2>2. handler[h].at \notin Attending /\ \A g \in Handlers \ {h} : handler'[g] = handler[g]
    BY <2>1, <1>h DEF Idle, Attending
  <2> QED BY <1>1, <2>1, <2>2
\* a handler that attends goes on attending
<1>m. ASSUME NEW h \in Handlers, NEW place \in Attending, Goes(h, place)
      PROVE  \A g \in Handlers : handler[g].at \in Attending =>
                 handler'[g].req = handler[g].req /\ handler'[g].at \in Attending
  <2>1. \A g \in Handlers \ {h} : handler'[g] = handler[g]
    BY <1>m, <1>h DEF Goes
  <2>2. handler'[h].at = place /\ handler'[h].req = handler[h].req
    BY <1>m, <1>h DEF Goes
  <2> QED BY <2>1, <2>2
<1>9. ASSUME NEW h \in Handlers, ThinkRefused(h) PROVE ExecutingIsAttended'
  <2>1. handler[h].at \notin Attending /\ \A g \in Handlers \ {h} : handler'[g] = handler[g]
    BY <1>9, <1>h DEF ThinkRefused, Attending
  <2> QED BY <1>1, <1>2, <1>9, <2>1 DEF ThinkRefused
<1>10. ASSUME NEW h \in Handlers, Advise(h) PROVE ExecutingIsAttended'
  <2>1. PICK place \in Attending : Goes(h, place)
    BY <1>10 DEF Advise, Attending
  <2> QED BY <1>1, <1>m, <1>10, <2>1 DEF Advise
<1>11. ASSUME NEW h \in Handlers, Fail(h) PROVE ExecutingIsAttended'
  <2>1. "replying" \in Attending /\ Goes(h, "replying") /\ UNCHANGED <<reqs, pending>>
    BY <1>11 DEF Fail, Attending
  <2> QED BY <1>1, <1>m, <2>1
<1>12. ASSUME NEW h \in Handlers, Compact(h) PROVE ExecutingIsAttended'
  <2>1. UNCHANGED <<reqs, pending>>
    BY <1>12 DEF Compact
  <2>2. UNCHANGED handler \/ \E place \in Attending : Goes(h, place)
    BY <1>12 DEF Compact, Attending
  <2> QED BY <1>1, <1>4, <1>m, <2>1, <2>2
<1>13. ASSUME NEW h \in Handlers, Apply(h) PROVE ExecutingIsAttended'
  <2>1. "replying" \in Attending /\ Goes(h, "replying") /\ UNCHANGED reqs
        /\ pending' = [pending EXCEPT ![reqs[Req(h)].scope] = 0]
    BY <1>13 DEF Apply, Attending
  <2>2. \A t \in Scopes : pending'[t] # 0 => pending'[t] = pending[t]
    BY <2>1, <1>p
  <2> QED BY <1>1, <1>m, <2>1, <2>2
<1>i. ASSUME NEW h \in Handlers, handler[h].at # "idle"
      PROVE  Req(h) \in 1..Len(reqs) /\ reqs[Req(h)] \in Draft
  <2>1. Req(h) # 0 /\ Req(h) \in 0..Len(reqs)
    BY <1>i, <1>h DEF IInv, HandlerPart, Req
  <2> QED BY <2>1, <1>p
\* a handler begins to attend the draft it makes executing
<1>14. ASSUME NEW h \in Handlers, ThinkClaim(h) PROVE ExecutingIsAttended'
  <2> DEFINE d == [reqs[Req(h)] EXCEPT !.stage = "executing"]
             v == [handler[h] EXCEPT !.at = "advice", !.op = claims']
  <2>1. Req(h) \in 1..Len(reqs) /\ reqs[Req(h)] \in Draft
    BY <1>14, <1>i DEF ThinkClaim
  <2>2. d \in Draft
    BY <2>1 DEF Draft
  <2>3. reqs' = [reqs EXCEPT ![Req(h)] = d] /\ handler' = [handler EXCEPT ![h] = v]
        /\ handler[h].at = "lock" /\ UNCHANGED pending
    BY <1>14 DEF ThinkClaim
  <2>4. v.at = "advice" /\ v.req = Req(h)
    BY <1>h DEF Req
  <2> HIDE DEF d, v
  <2>5. handler'[h] = v /\ \A g \in Handlers \ {h} : handler'[g] = handler[g]
    BY <2>3, <1>h
  <2>6. \A i \in 1..Len(reqs) : i # Req(h) => reqs'[i] = reqs[i]
    BY <1>r, <2>1, <2>2, <2>3
  <2>7. ASSUME NEW s \in Scopes, pending[s] # 0, reqs'[pending[s]].stage = "executing"
        PROVE  \E g \in Handlers : handler'[g].req = pending[s] /\ handler'[g].at \in Attending
    <3>1. CASE pending[s] = Req(h)
      BY <2>4, <2>5, <3>1 DEF Attending
    <3>2. CASE pending[s] # Req(h)
      <4>1. reqs[pending[s]].stage = "executing"
        BY <1>p, <2>6, <2>7, <3>2
      <4>2. PICK g \in Handlers : handler[g].req = pending[s] /\ handler[g].at \in Attending
        BY <1>a, <2>7, <4>1 DEF ExecutingIsAttended, Executing, Attending, Req
      <4>3. g # h
        BY <2>3, <4>2 DEF Attending
      <4> QED BY <2>5, <4>2, <4>3
    <3> QED BY <3>1, <3>2
  <2> QED BY <2>3, <2>7 DEF ExecutingIsAttended, Executing, Attending, Req
\* a handler stops attending the draft it gives back to the user
<1>15. ASSUME NEW h \in Handlers, AskAgain(h) PROVE ExecutingIsAttended'
  <2> DEFINE d == [reqs[Req(h)] EXCEPT !.stage = "confirm"]
  <2>1. Req(h) \in 1..Len(reqs) /\ reqs[Req(h)] \in Draft
    BY <1>15, <1>i DEF AskAgain
  <2>2. d \in Draft /\ d.stage # "executing"
    BY <2>1 DEF Draft
  <2>3. reqs' = [reqs EXCEPT ![Req(h)] = d] /\ Goes(h, "ending") /\ UNCHANGED pending
    BY <1>15 DEF AskAgain
  <2> HIDE DEF d
  <2>4. reqs'[Req(h)] = d /\ \A i \in 1..Len(reqs) : i # Req(h) => reqs'[i] = reqs[i]
    BY <1>r, <2>1, <2>2, <2>3
  <2>5. \A g \in Handlers \ {h} : handler'[g] = handler[g]
    BY <2>3, <1>h DEF Goes
  <2>6. ASSUME NEW s \in Scopes, pending[s] # 0, reqs'[pending[s]].stage = "executing"
        PROVE  \E g \in Handlers : handler'[g].req = pending[s] /\ handler'[g].at \in Attending
    <3>1. pending[s] # Req(h) /\ reqs[pending[s]].stage = "executing"
      BY <1>p, <2>2, <2>4, <2>6
    <3>2. PICK g \in Handlers : handler[g].req = pending[s] /\ handler[g].at \in Attending
      BY <1>a, <2>6, <3>1 DEF ExecutingIsAttended, Executing, Attending, Req
    <3> QED BY <2>5, <3>1, <3>2 DEF Req
  <2> QED BY <2>3, <2>6 DEF ExecutingIsAttended, Executing, Attending, Req
\* ... or that it drops
<1>16. ASSUME NEW h \in Handlers, Finally(h) PROVE ExecutingIsAttended'
  <2>1. Goes(h, "ending") /\ UNCHANGED reqs /\ Req(h) \in 1..Len(reqs)
    BY <1>16, <1>i DEF Finally
  <2>2. PICK s \in {reqs[Req(h)].scope} : 
          Drop(IF pending[s] = Req(h) /\ Executing(Req(h)) THEN {s} ELSE {})
    BY <1>16 DEF Finally
  <2>3. \A t \in Scopes : pending'[t] # 0 => pending'[t] = pending[t]
    BY <2>2 DEF Drop
  <2>4. ASSUME NEW t \in Scopes, pending'[t] = Req(h) PROVE ~Executing(Req(h))
    <3>1. pending[t] = Req(h) /\ t = s
      BY <2>1, <2>2, <2>3, <2>4, <1>p DEF IInv, DraftPart
    <3> QED BY <2>1, <2>2, <2>4, <3>1 DEF Drop
  <2>5. \A g \in Handlers \ {h} : handler'[g] = handler[g]
    BY <2>1, <1>h DEF Goes
  <2>6. ASSUME NEW t \in Scopes, pending'[t] # 0, reqs[pending'[t]].stage = "executing"
        PROVE  \E g \in Handlers : handler'[g].req = pending'[t] /\ handler'[g].at \in Attending
    <3>1. pending'[t] # Req(h) /\ pending'[t] = pending[t]
      BY <2>3, <2>4, <2>6 DEF Executing
    <3>2. PICK g \in Handlers : handler[g].req = pending[t] /\ handler[g].at \in Attending
      BY <1>a, <2>6, <3>1 DEF ExecutingIsAttended, Executing, Attending, Req
    <3> QED BY <2>5, <3>1, <3>2 DEF Req
  <2> QED BY <2>1, <2>6 DEF ExecutingIsAttended, Executing, Attending, Req
<1>17. ASSUME NEW h \in Handlers, Leave(h) PROVE ExecutingIsAttended'
  <2>1. handler[h].at \notin Attending /\ \A g \in Handlers \ {h} : handler'[g] = handler[g]
    BY <1>17, <1>h DEF Leave, Attending
  <2> QED BY <1>1, <1>17, <2>1 DEF Leave
<1>18. CASE RefreshEndpoints \/ Reset
  BY <1>3, <1>18 DEF RefreshEndpoints, Reset
<1>19. CASE (\E e \in Endpoints : SettingsWritten(e)) \/ ManualCompact \/ StartTurn \/ EndTurn
  BY <1>4, <1>19 DEF SettingsWritten, ManualCompact, StartTurn, EndTurn, drafts
<1>20. ASSUME NEW op \in Ops, ManualStep(op) \/ Expire(op) PROVE ExecutingIsAttended'
  BY <1>4, <1>20 DEF ManualStep, Expire, drafts
<1> QED BY <1>5, <1>6, <1>7, <1>8, <1>9, <1>10, <1>11, <1>12, <1>13, <1>14, <1>15, <1>16, <1>17,
           <1>18, <1>19, <1>20 DEF Next, Switch

-----------------------------------------------------------------------------
(* The inductive invariant, and what follows from it.                       *)

LEMMA SwitchInit == Init => IInv
<1> SUFFICES ASSUME Init PROVE IInv
  OBVIOUS
<1>1. GatePart /\ claims = 0 /\ ticket = NoTicket
  BY GateInitial DEF Init, GateInit
<1>2. WorldPart
  <2>1. big \in BOOLEAN /\ turn \in BOOLEAN
    BY DEF Init
  <2>2. settings \in Endpoints /\ active \in Endpoints /\ cancelling \subseteq Scopes
    BY DEF Init
  <2>3. specs \in 0..MaxChanges /\ writes \in 0..MaxChanges
    BY ModelSwitchAssumption, MaxClaimsAssumption, NoTicketAssumption DEF Init
  <2> QED BY <2>1, <2>2, <2>3 DEF WorldPart
<1>3. DraftPart
  BY ModelSwitchAssumption, MaxClaimsAssumption, NoTicketAssumption DEF Init, DraftPart, WithdrawnNeverApplied, Ids
<1>4. HandlerPart
  <2>1. /\ Idle \in [at : At, req : 0..Len(reqs), op : 0..claims]
        /\ Idle.at = "idle" /\ Idle.op = 0 /\ "idle" \notin Past
    BY <1>1 DEF Init, Idle, At, Past
  <2> QED BY <2>1 DEF Init, HandlerPart
<1>5. TurnPart /\ ExecutingIsAttended
  BY <1>1 DEF Init, TurnPart, ExecutingIsAttended
<1> QED BY <1>1, <1>2, <1>3, <1>4, <1>5 DEF IInv

LEMMA SwitchStep == IInv /\ [Next]_vars => IInv'
<1> SUFFICES ASSUME IInv, [Next]_vars PROVE IInv'
  OBVIOUS
<1>1. GatePart'
  BY SwitchUsesGate, GateStep DEF IInv
<1>2. CASE Next
  BY <1>1, <1>2, WorldStep, DraftStep, HandlerStep, TurnStep, AttendedStep DEF IInv
<1>3. CASE UNCHANGED vars
  <2>1. UNCHANGED <<gate, drafts, world>>
    BY <1>3 DEF vars
  <2>2. WorldPart' /\ TurnPart'
    BY <2>1 DEF IInv, WorldPart, TurnPart, gate, drafts, world
  <2>3. DraftPart'
    BY <2>1, DraftFrame DEF IInv, drafts
  <2>4. HandlerPart'
    BY <2>1 DEF IInv, HandlerPart, gate, drafts
  <2>5. ExecutingIsAttended'
    BY <2>1 DEF IInv, ExecutingIsAttended, Executing, Req, drafts
  <2> QED BY <1>1, <2>2, <2>3, <2>4, <2>5 DEF IInv
<1> QED BY <1>2, <1>3

LEMMA SwitchInductive == Spec => []IInv
BY SwitchInit, SwitchStep, PTL DEF Spec

(* Whatever the number of scopes, handlers and drafts: a draft that was     *)
(* cancelled, replaced, expired or invalidated never changes the model, no  *)
(* draft changes it twice, and an executing draft always has a handler at   *)
(* work on it.                                                              *)
THEOREM DraftsAreHonoured == Spec => []DraftsHonoured
<1>1. IInv => DraftsHonoured
  <2> SUFFICES ASSUME IInv PROVE DraftsHonoured
    OBVIOUS
  <2>1. GateTypeOK /\ {big, turn} \subseteq BOOLEAN
    BY GateTypes DEF IInv, WorldPart
  <2>2. TypeOK
    BY <2>1 DEF IInv, TypeOK, WorldPart, DraftPart, HandlerPart
  <2> QED BY <2>2 DEF DraftsHonoured, IInv, DraftPart
<1> QED BY <1>1, SwitchInductive, PTL

(* A model switch uses the gate as the gate prescribes: every behaviour is  *)
(* a behaviour of the compaction gate.                                      *)
THEOREM SwitchRefinesGate == Spec => UsesGate
<1>1. Init => GateInit
  BY DEF Init
<1> QED BY <1>1, SwitchUsesGate, SwitchInductive, PTL DEF Spec, UsesGate, GateSpec

(* Ticket, barrier and holder agree under model switches too: a switch can  *)
(* neither leave resident admission blocked nor open it under a running     *)
(* compaction.                                                              *)
THEOREM SwitchKeepsGateSound == Spec => []GateSound
<1>1. IInv => GateSound
  BY GateTypes DEF IInv, GatePart, GateSound
<1> QED BY <1>1, SwitchInductive, PTL

(* A switch is committed between turns and against the model its user saw,  *)
(* and a summary made for it is installed only while its draft stands.      *)
THEOREM SwitchSeesModel == Spec => SwitchSeesWhatUserSaw
<1> DEFINE Sees ==
      /\ applied' # applied =>
            /\ reqs[applied'[Len(applied')]].identity = <<settings, specs>>
            /\ ~turn /\ ~turn'
      /\ \A h \in Handlers :
            installed' # installed /\ installed'[Len(installed')] = Op(h)
                => Req(h) \notin withdrawn
<1>1. IInv /\ [Next]_vars => [Sees]_vars
  <2> SUFFICES ASSUME IInv, Next PROVE Sees
    OBVIOUS
  <2>d. DraftPart /\ installed \in Seq(Ops)
    BY GateTypes DEF IInv, GateTypeOK
  <2>1. ASSUME applied' # applied
        PROVE  reqs[applied'[Len(applied')]].identity = <<settings, specs>> /\ ~turn /\ ~turn'
    <3>1. PICK h \in Handlers : Apply(h)
      BY <2>1 DEF Next, SetModel, ShowModel, ExpireDraft, CancelDraft, CancelGate, Outdated,
                  Confirm, Think, Switch, ThinkRefused, ThinkClaim, AskAgain, Advise, Compact,
                  Fail, Finally, Leave, RefreshEndpoints, Reset, SettingsWritten, ManualCompact,
                  StartTurn, EndTurn, ManualStep, Expire, drafts
    <3>2. Current(h) /\ applied' = Append(applied, Req(h)) /\ turn' = turn
      BY <3>1 DEF Apply
    <3>3. applied'[Len(applied')] = Req(h)
      BY <3>2, <2>d DEF DraftPart
    <3>4. reqs[Req(h)].identity = <<settings, specs>> /\ ticket # NoTicket
      BY <3>2 DEF Current, Identity, Eligible, IsCurrent
    <3>5. ~turn
      BY <3>4 DEF IInv, TurnPart
    <3> QED BY <3>2, <3>3, <3>4, <3>5
  <2>2. ASSUME NEW h \in Handlers, installed' # installed, installed'[Len(installed')] = Op(h)
        PROVE  Req(h) \notin withdrawn
    <3>a. ASSUME NEW op, Install(op) PROVE installed'[Len(installed')] = op
      BY <3>a, <2>2, <2>d DEF Install
    <3>b. ASSUME NEW op, Holder(op) PROVE Install(op)
      BY <3>b, <2>2 DEF Holder, Begin, Stage, Finish, Abandon, Release
    <3>c. ~CancelTicket /\ ~Claim /\ ~UNCHANGED gate
      BY <2>2 DEF CancelTicket, Cancel, Claim, gate
    <3>1. CASE \E op \in Ops : ManualStep(op)
      <4>1. PICK op \in Ops : ManualStep(op)
        BY <3>1
      <4>2. Op(h) = op
        BY <4>1, <3>a, <3>b, <2>2 DEF ManualStep
      <4> QED BY <4>1, <4>2 DEF ManualStep, Owned, Op
    <3>2. CASE \E g \in Handlers : Switch(g)
      <4>1. PICK g \in Handlers : Switch(g)
        BY <3>2
      <4>2. Compact(g)
        BY <4>1, <3>b, <3>c, <2>2 DEF Switch, ThinkRefused, ThinkClaim, AskAgain, Advise, Fail,
                                      Apply,
                                 Finally, Leave, Abandon, Release
      <4>3. Current(g) /\ Install(Op(g))
        BY <4>2, <2>2 DEF Compact, Begin, Stage, Finish, Abandon
      <4>4. Op(g) = Op(h)
        BY <4>3, <3>a, <2>2
      <4>5. Op(g) # 0 /\ Req(g) \in Ids
        BY <4>2, OwnsClaim DEF Compact, Past
      <4>6. g = h
        BY <4>4, <4>5 DEF IInv, HandlerPart, Op
      <4>7. reqs[Req(g)] \in Draft
        BY <4>5, <2>d DEF DraftPart, Ids
      <4>8. PICK s \in Scopes : s = reqs[Req(g)].scope
        BY <4>7 DEF Draft
      <4>9. pending[s] = Req(g) /\ Req(g) # 0
        BY <4>3, <4>5, <4>8 DEF Current, Ids
      <4> QED BY <4>6, <4>9, <2>d DEF DraftPart
    <3>3. CASE ~(\E op \in Ops : ManualStep(op)) /\ ~(\E g \in Handlers : Switch(g))
      BY <3>3, <3>c, <2>2
         DEF Next, SetModel, ShowModel, ExpireDraft, CancelDraft, CancelGate, Outdated, Confirm,
             Think, RefreshEndpoints, Reset, SettingsWritten, ManualCompact, StartTurn, EndTurn,
             Expire, GateExpire
    <3> QED BY <3>1, <3>2, <3>3
  <2> QED BY <2>1, <2>2
<1> QED BY <1>1, SwitchInductive, PTL DEF Spec, SwitchSeesWhatUserSaw
=============================================================================
