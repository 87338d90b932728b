--------------------------- MODULE CompactionGate ---------------------------
(* The compaction admission gate of src/pal/core/compaction_coordinator.py  *)
(* and the coroutines that hold its tickets (runtime.py, compaction.py).    *)
(* One scope, as in the runtime.  A ticket past its deadline is swept by    *)
(* the next claim while its holder may still be waiting for a model, so     *)
(* several holders can be alive although only one ticket is current.        *)
EXTENDS Naturals, Sequences

CONSTANTS
    NoTicket,     \* the scope holds no ticket
    MaxClaims     \* bound on the tickets claimed

Ops == 1..MaxClaims     \* op_id: a fresh uuid, here the number of the claim
Phases == {"claimed", "generating", "committed"}
Ticket == [op : Ops, phase : Phases, cancelled : BOOLEAN]
Places == {"none", "claimed", "generating", "staging", "installed", "releasing", "gone"}

ASSUME MaxClaimsAssumption == MaxClaims \in Nat
ASSUME NoTicketAssumption == NoTicket \notin Ticket

VARIABLES
    ticket,      \* compaction_tickets[scope]
    barriers,    \* the scheduler's barriers "compact:<op_id>", by op_id
    claims,      \* tickets claimed so far
    late,        \* operations whose deadline has passed (time.monotonic)
    holder,      \* where the coroutine of each operation is
    installed,   \* summaries installed into the history, in order
    revoked      \* history: operations cancelled while they held the gate

gate == <<ticket, barriers, claims, late, holder, installed, revoked>>

GateInit ==
    /\ ticket = NoTicket /\ barriers = {} /\ claims = 0 /\ late = {}
    /\ holder = [op \in Ops |-> "none"]
    /\ installed = <<>> /\ revoked = {}

IsCurrent(op) == ticket # NoTicket /\ ticket.op = op

\* eligible(), the commit guard of _run_control_compaction_async
Eligible(op) == IsCurrent(op) /\ ~ticket.cancelled /\ op \notin late

MoveTo(op, place) == holder' = [holder EXCEPT ![op] = place]

\* Mutant: a claim waits for the holder, however late.
ClaimNoSweep ==
    LET op == claims + 1
    IN  /\ claims < MaxClaims /\ ticket = NoTicket
        /\ claims' = op
        /\ ticket' = [op |-> op, phase |-> "claimed", cancelled |-> FALSE]
        /\ barriers' = {op}
        /\ MoveTo(op, "claimed")
        /\ UNCHANGED <<late, installed, revoked>>

\* claim: the scope is free, or its ticket is swept; the barrier moves along.
Claim ==
    LET op    == claims + 1
        swept == IF ticket = NoTicket THEN {} ELSE {ticket.op}
    IN  /\ claims < MaxClaims
        /\ swept \subseteq late
        /\ claims' = op
        /\ ticket' = [op |-> op, phase |-> "claimed", cancelled |-> FALSE]
        /\ barriers' = (barriers \ swept) \cup {op}
        /\ MoveTo(op, "claimed")
        /\ UNCHANGED <<late, installed, revoked>>

\* The clock passes a ticket's deadline.
GateExpire(op) ==
    /\ holder[op] # "none" /\ op \notin late
    /\ late' = late \cup {op}
    /\ UNCHANGED <<ticket, barriers, claims, holder, installed, revoked>>

\* cancel and cancel_all: the commit eligibility is revoked, the gate stays held.
Cancel ==
    /\ ticket # NoTicket /\ ~ticket.cancelled
    /\ ticket' = [ticket EXCEPT !.cancelled = TRUE]
    /\ revoked' = revoked \cup {ticket.op}
    /\ UNCHANGED <<barriers, claims, late, holder, installed>>

\* advance: only the current ticket moves; its barrier is published again.
Advanced(op, phase) == IF IsCurrent(op) THEN [ticket EXCEPT !.phase = phase] ELSE ticket
Advance(op, phase) ==
    /\ ticket' = Advanced(op, phase)
    /\ barriers' = IF IsCurrent(op) THEN barriers \cup {op} ELSE barriers

\* _run_control_compaction_async: the guard is asked, then generation starts.
Begin(op) ==
    /\ holder[op] = "claimed"
    /\ IF Eligible(op)
       THEN Advance(op, "generating") /\ MoveTo(op, "generating")
       ELSE UNCHANGED <<ticket, barriers>> /\ MoveTo(op, "releasing")
    /\ UNCHANGED <<claims, late, installed, revoked>>

\* A summary arrived: the guard is asked before the archive is staged (an await).
Stage(op) ==
    /\ holder[op] = "generating"
    /\ MoveTo(op, IF Eligible(op) THEN "staging" ELSE "releasing")
    /\ UNCHANGED <<ticket, barriers, claims, late, installed, revoked>>

\* Mutant: the guard is not asked again after the archive was staged.
InstallUnguarded(op) ==
    /\ holder[op] = "staging"
    /\ installed' = Append(installed, op) /\ MoveTo(op, "installed")
    /\ UNCHANGED <<ticket, barriers, claims, late, revoked>>

\* ... and once more after it; the guard and the installation are one step.
Install(op) ==
    /\ holder[op] = "staging"
    /\ IF Eligible(op)
       THEN installed' = Append(installed, op) /\ MoveTo(op, "installed")
       ELSE UNCHANGED installed /\ MoveTo(op, "releasing")
    /\ UNCHANGED <<ticket, barriers, claims, late, revoked>>

\* The success is recorded on the ticket, if it is still the current one.
Finish(op) ==
    /\ holder[op] = "installed"
    /\ Advance(op, "committed") /\ MoveTo(op, "releasing")
    /\ UNCHANGED <<claims, late, installed, revoked>>

\* Every attempt failed, or the coroutine was cancelled at one of its awaits.
Abandon(op) ==
    /\ holder[op] \in {"claimed", "generating", "staging", "installed"}
    /\ MoveTo(op, "releasing")
    /\ UNCHANGED <<ticket, barriers, claims, late, installed, revoked>>

\* Mutant: the finally clause clears the scope, whoever holds it.
ReleaseAny(op) ==
    /\ holder[op] = "releasing" /\ MoveTo(op, "gone")
    /\ ticket' = NoTicket /\ barriers' = {}
    /\ UNCHANGED <<claims, late, installed, revoked>>

\* Mutant: an expired ticket is not released by its own holder.
ReleaseUnlessLate(op) ==
    /\ holder[op] = "releasing" /\ MoveTo(op, "gone")
    /\ IF IsCurrent(op) /\ op \notin late
       THEN ticket' = NoTicket /\ barriers' = barriers \ {op}
       ELSE UNCHANGED <<ticket, barriers>>
    /\ UNCHANGED <<claims, late, installed, revoked>>

\* release, from the holder's finally clause
Release(op) ==
    /\ holder[op] = "releasing" /\ MoveTo(op, "gone")
    /\ IF IsCurrent(op)
       THEN ticket' = NoTicket /\ barriers' = barriers \ {op}
       ELSE UNCHANGED <<ticket, barriers>>
    /\ UNCHANGED <<claims, late, installed, revoked>>

Holder(op) ==
    Begin(op) \/ Stage(op) \/ Install(op) \/ Finish(op) \/ Abandon(op) \/ Release(op)

GateNext == Claim \/ Cancel \/ \E op \in Ops : GateExpire(op) \/ Holder(op)

GateSpec == GateInit /\ [][GateNext]_gate

\* Deadlines pass and somebody keeps asking; the holders owe nothing: a model
\* request may hang for ever.
ImpatientSpec == GateSpec /\ WF_gate(Claim) /\ \A op \in Ops : WF_gate(GateExpire(op))
-----------------------------------------------------------------------------
\* A stored ticket is one of the three live phases; a released one is never kept.
GateTypeOK ==
    /\ ticket \in Ticket \cup {NoTicket}
    /\ barriers \subseteq Ops /\ claims \in 0..MaxClaims /\ late \subseteq Ops
    /\ holder \in [Ops -> Places]
    /\ installed \in Seq(Ops) /\ revoked \subseteq Ops

(* The scheduler's barrier stands exactly while a ticket does: neither a    *)
(* sweep nor a late advance or release can leave resident admission blocked *)
(* for ever, or open it under a running compaction.                         *)
BarrierMirrors == barriers = IF ticket = NoTicket THEN {} ELSE {ticket.op}

(* A held gate has a living holder whose finally clause will release it.    *)
GateHasHolder == ticket # NoTicket => holder[ticket.op] \notin {"none", "gone"}

(* Ticket, barrier and holder tell one story, through every sweep, expiry   *)
(* and late return.                                                         *)
GateSound == GateTypeOK /\ BarrierMirrors /\ GateHasHolder

(* A ticket leaves the gate by its own holder's release, or swept after its *)
(* deadline; a late release of a predecessor never frees a successor.       *)
SuccessorSafe ==
    [][ticket # NoTicket /\ (ticket' = NoTicket \/ ticket'.op # ticket.op)
        => holder'[ticket.op] = "gone" \/ ticket.op \in late]_gate

(* A summary is installed only by the newest claim, before its deadline and *)
(* never after it was cancelled, however long the model and the archive     *)
(* took and whatever was claimed meanwhile.                                 *)
InstallsAreCurrent ==
    [][installed' # installed
        => /\ installed' = Append(installed, claims)
           /\ claims \notin revoked \cup late]_gate

(* A hung provider coroutine cannot pin the scope: without any step of the  *)
(* holders the gate is claimed again.                                       *)
GateNeverPinned == \A n \in 0..MaxClaims : (claims = n /\ n < MaxClaims) ~> claims = n + 1
=============================================================================
