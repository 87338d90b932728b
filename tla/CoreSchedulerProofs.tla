------------------------ MODULE CoreSchedulerProofs ------------------------
(* TLAPS proofs about CoreScheduler for every set of turns and barriers and *)
(* every number of admissions.  The argument rests on two facts about the   *)
(* pure reducer (AdmitLemma, OwnedLemma): what an accepted decision changes *)
(* and that a refused one changes nothing.                                  *)
EXTENDS CoreScheduler, TLAPS

\* The lease an admission of this turn would carry.
FreshLease(s, turn, kind) ==
    [turn |-> turn, kind |-> kind, generation |-> s.generation + 1]

\* Decision d refuses and changes nothing, or admits under a fresh generation.
AdmitOutcome(s, turn, kind, d) ==
    /\ ~d.accepted => d.state = s
    /\ d.accepted =>
         /\ s.phase = "idle" /\ s.barriers = {}
         /\ FreshLease(s, turn, kind) \in Lease
         /\ d.state = [s EXCEPT !.phase = "running",
                                !.generation = s.generation + 1,
                                !.owner = FreshLease(s, turn, kind)]

\* Snapshot t is s, s with its owner finalizing, or s with its owner gone.
OwnedOutcome(s, event, lease, t) ==
    \/ t = s
    \/ /\ lease = s.owner /\ lease # NoLease
       /\ event # "task_finished" /\ s.phase # "idle"
       /\ t = [s EXCEPT !.phase = "finalizing"]
    \/ /\ lease = s.owner /\ lease # NoLease
       /\ event = "task_finished" /\ s.phase = "finalizing"
       /\ t = [s EXCEPT !.phase = "idle", !.owner = NoLease]

(* What reduce_scheduling(ADMIT) does: nothing, or it moves an idle,        *)
(* barrier-free snapshot to "running" under a fresh generation.             *)
LEMMA AdmitLemma ==
    ASSUME NEW s \in SchedulingState(Barriers), NEW turn \in Turns, NEW kind \in Kinds,
           NEW pendingUsers, NEW otherWork
    PROVE  AdmitOutcome(s, turn, kind, ReduceAdmit(s, turn, kind, pendingUsers, otherWork))
<1>1. CASE AdmissionReason(s, kind, pendingUsers, otherWork) # ""
  BY <1>1 DEF ReduceAdmit, Refuse, AdmitOutcome
<1>2. CASE AdmissionReason(s, kind, pendingUsers, otherWork) = ""
  <2>1. s.barriers = {}
    BY <1>2 DEF AdmissionReason
  <2>2. s.phase = "idle"
    BY <1>2, <2>1 DEF AdmissionReason, SchedulingState, Phases
  <2>3. PhaseTarget(s.phase, "admit") = "running"
    BY <2>2 DEF PhaseTarget
  <2>4. FreshLease(s, turn, kind) \in Lease
    BY DEF FreshLease, Lease, SchedulingState
  <2> QED BY <1>2, <2>1, <2>2, <2>3, <2>4
          DEF ReduceAdmit, Accept, AdmitOutcome, FreshLease
<1> QED BY <1>1, <1>2

(* What reduce_scheduling does with a receipt: nothing for any lease but    *)
(* the owner's; the owner's own moves the phase, and only "task_finished"   *)
(* of a finalizing owner empties the slot.                                  *)
LEMMA OwnedLemma ==
    ASSUME NEW s \in SchedulingState(Barriers), NEW event \in Events \ {"admit"},
           NEW lease \in Lease \cup {NoLease}
    PROVE  OwnedOutcome(s, event, lease, ReduceOwned(s, event, lease).state)
<1>1. CASE lease = NoLease \/ lease # s.owner
  BY <1>1 DEF ReduceOwned, Refuse, OwnedOutcome
<1>2. CASE lease # NoLease /\ lease = s.owner
  <2>1. CASE PhaseTarget(s.phase, event) = "none"
    BY <1>2, <2>1 DEF ReduceOwned, Refuse, OwnedOutcome
  <2>2. CASE PhaseTarget(s.phase, event) # "none"
    <3>1. ReduceOwned(s, event, lease).state =
            [s EXCEPT !.phase = PhaseTarget(s.phase, event),
                      !.owner = IF event = "task_finished" THEN NoLease ELSE @]
      BY <1>2, <2>2 DEF ReduceOwned, Accept
    <3>2. CASE event = "task_finished"
      <4>1. s.phase = "finalizing" /\ PhaseTarget(s.phase, event) = "idle"
        BY <2>2, <3>2 DEF PhaseTarget, SchedulingState, Phases
      <4> QED BY <1>2, <3>1, <3>2, <4>1 DEF OwnedOutcome
    <3>3. CASE event # "task_finished"
      <4>1. s.phase # "idle" /\ PhaseTarget(s.phase, event) = "finalizing"
        BY <2>2, <3>3 DEF PhaseTarget, SchedulingState, Phases, Events
      <4>2. ReduceOwned(s, event, lease).state = [s EXCEPT !.phase = "finalizing"]
        BY <3>1, <3>3, <4>1 DEF SchedulingState
      <4> QED BY <1>2, <3>3, <4>1, <4>2 DEF OwnedOutcome
    <3> QED BY <3>2, <3>3
  <2> QED BY <2>1, <2>2
<1> QED BY <1>1, <1>2

\* The inductive invariant: the three invariants the run checks, together.
Inv == TypeOK /\ NeverMalformed /\ GenerationsAreFences

LEMMA InitInv == Init => Inv
BY DEF Init, Inv, TypeOK, NeverMalformed, GenerationsAreFences, WellFormed,
       InitialScheduling, SchedulingState, Phases

(* An admission keeps the invariant because its generation is above every   *)
(* generation issued before it.                                             *)
LEMMA AdmitInv ==
    ASSUME Inv, NEW turn \in Turns, NEW kind \in Kinds,
           NEW pendingUsers \in BOOLEAN, NEW otherWork \in BOOLEAN,
           Admit(turn, kind, pendingUsers, otherWork)
    PROVE  Inv'
<1> DEFINE d == ReduceAdmit(state, turn, kind, pendingUsers, otherWork)
           l == FreshLease(state, turn, kind)
<1>0. state \in SchedulingState(Barriers) /\ issued \subseteq Lease
  BY DEF Inv, TypeOK
<1>a. AdmitOutcome(state, turn, kind, d)
  BY <1>0, AdmitLemma
<1>1. CASE ~d.accepted
  <2>1. state' = state /\ issued' = issued
    BY <1>1, <1>a DEF Admit, AdmitOutcome
  <2> QED BY <2>1 DEF Admit, Inv, TypeOK, NeverMalformed, GenerationsAreFences
<1>2. CASE d.accepted
  <2>1. /\ l \in Lease
        /\ state' = [state EXCEPT !.phase = "running",
                                  !.generation = state.generation + 1, !.owner = l]
    BY <1>2, <1>a DEF Admit, AdmitOutcome
  <2>2. issued' = issued \cup {l}
    BY <1>0, <1>2, <1>a DEF Admit, AdmitOutcome, SchedulingState
  <2>3. TypeOK'
    <3>0. l \in Lease \cup {NoLease} /\ state.generation + 1 \in Nat /\ "running" \in Phases
      BY <1>0, <2>1 DEF SchedulingState, Phases
    <3> HIDE DEF l
    <3>1. state' \in SchedulingState(Barriers)
      BY <1>0, <2>1, <3>0 DEF SchedulingState
    <3>2. issued' \subseteq Lease
      BY <1>0, <2>1, <2>2
    <3> QED BY <3>1, <3>2 DEF TypeOK, Admit
  <2>4. NeverMalformed'
    BY <1>0, <2>1, NoLeaseAssumption
       DEF NeverMalformed, WellFormed, SchedulingState, FreshLease
  <2>5. GenerationsAreFences'
    <3>1. state'.generation = state.generation + 1 /\ state'.owner = l
          /\ state.generation \in Nat /\ l.generation = state.generation + 1
      BY <1>0, <2>1 DEF SchedulingState, FreshLease
    <3>2. \A m \in issued : m.generation \in Nat /\ m.generation <= state.generation
      BY <1>0 DEF Inv, GenerationsAreFences, Lease
    <3> QED BY <2>2, <3>1, <3>2 DEF Inv, GenerationsAreFences
  <2> QED BY <2>3, <2>4, <2>5 DEF Inv
<1> QED BY <1>1, <1>2

\* A receipt, from whoever holds whatever lease, keeps the invariant.
LEMMA ReportInv ==
    ASSUME Inv, NEW event \in Events \ {"admit"}, NEW lease \in issued \cup {NoLease},
           Report(event, lease)
    PROVE  Inv'
<1>0. /\ state \in SchedulingState(Barriers) /\ lease \in Lease \cup {NoLease}
      /\ issued' = issued /\ receipt' = lease
  BY DEF Inv, TypeOK, Report
<1>a. OwnedOutcome(state, event, lease, state')
  BY <1>0, OwnedLemma DEF Report
<1>1. CASE state' = state
  BY <1>0, <1>1 DEF Inv, TypeOK, NeverMalformed, GenerationsAreFences
<1>2. CASE /\ state.owner # NoLease
           /\ state' = [state EXCEPT !.phase = "finalizing"]
  BY <1>0, <1>2 DEF Inv, TypeOK, NeverMalformed, WellFormed, GenerationsAreFences,
                    SchedulingState, Phases
<1>3. CASE state' = [state EXCEPT !.phase = "idle", !.owner = NoLease]
  BY <1>0, <1>3 DEF Inv, TypeOK, NeverMalformed, WellFormed, GenerationsAreFences,
                    SchedulingState, Phases
<1> QED BY <1>a, <1>1, <1>2, <1>3 DEF OwnedOutcome

LEMMA BarrierInv ==
    ASSUME Inv, NEW name \in Barriers, NEW enabled \in BOOLEAN, Barrier(name, enabled)
    PROVE  Inv'
BY DEF Inv, Barrier, SetBarrier, TypeOK, NeverMalformed, WellFormed,
       GenerationsAreFences, SchedulingState

LEMMA StepInv == Inv /\ [Next]_vars => Inv'
<1> SUFFICES ASSUME Inv, [Next]_vars PROVE Inv'
  OBVIOUS
<1>1. CASE \E turn \in Turns, kind \in Kinds, pendingUsers, otherWork \in BOOLEAN :
             Admit(turn, kind, pendingUsers, otherWork)
  BY <1>1, AdmitInv
<1>2. CASE \E event \in Events \ {"admit"}, lease \in issued \cup {NoLease} :
             Report(event, lease)
  BY <1>2, ReportInv
<1>3. CASE \E name \in Barriers, enabled \in BOOLEAN : Barrier(name, enabled)
  BY <1>3, BarrierInv
<1>4. CASE UNCHANGED vars
  BY <1>4 DEF vars, Inv, TypeOK, NeverMalformed, GenerationsAreFences
<1> QED BY <1>1, <1>2, <1>3, <1>4 DEF Next

LEMMA SchedulerInvariant == Spec => []Inv
BY InitInv, StepInv, PTL DEF Spec

(* SchedulingState's own check in __post_init__ never raises, for any       *)
(* callers: phase and owner agree and the owner's generation is current.    *)
THEOREM SchedulerNeverMalformed == Spec => []NeverMalformed
<1>1. Inv => NeverMalformed
  BY DEF Inv
<1> QED BY <1>1, SchedulerInvariant, PTL

(* No two admissions share a generation, so a stale receipt never matches a *)
(* successor's lease.                                                       *)
THEOREM SchedulerGenerationsAreFences == Spec => []GenerationsAreFences
<1>1. Inv => GenerationsAreFences
  BY DEF Inv
<1> QED BY <1>1, SchedulerInvariant, PTL

(* Shape, consistency and fencing of the scheduler together, for any set of *)
(* turns, barriers and callers.                                             *)
THEOREM SchedulerIsSound == Spec => []SchedulerSound
<1>1. Inv => SchedulerSound
  BY DEF Inv, SchedulerSound
<1> QED BY <1>1, SchedulerInvariant, PTL

(* A step that changes the owner of a taken slot is the teardown of a       *)
(* finalizing owner, and it leaves the slot empty.                          *)
LEMMA TeardownStep ==
    Inv /\ [Next]_vars =>
        (state.owner # NoLease /\ state'.owner # state.owner
            => state.phase = "finalizing" /\ state'.owner = NoLease /\ receipt' = state.owner)
<1> SUFFICES ASSUME Inv, [Next]_vars, state.owner # NoLease, state'.owner # state.owner
             PROVE  state.phase = "finalizing" /\ state'.owner = NoLease /\ receipt' = state.owner
  OBVIOUS
<1>0. state \in SchedulingState(Barriers) /\ issued \subseteq Lease /\ state.phase # "idle"
  BY DEF Inv, TypeOK, NeverMalformed, WellFormed
<1>1. CASE \E turn \in Turns, kind \in Kinds, pendingUsers, otherWork \in BOOLEAN :
             Admit(turn, kind, pendingUsers, otherWork)
  <2> PICK turn \in Turns, kind \in Kinds, pendingUsers \in BOOLEAN, otherWork \in BOOLEAN :
        Admit(turn, kind, pendingUsers, otherWork)
    BY <1>1
  <2>1. AdmitOutcome(state, turn, kind, ReduceAdmit(state, turn, kind, pendingUsers, otherWork))
    BY <1>0, AdmitLemma
  <2> QED BY <1>0, <2>1 DEF Admit, AdmitOutcome
<1>2. CASE \E event \in Events \ {"admit"}, lease \in issued \cup {NoLease} :
             Report(event, lease)
  <2> PICK event \in Events \ {"admit"}, lease \in issued \cup {NoLease} : Report(event, lease)
    BY <1>2
  <2>1. lease \in Lease \cup {NoLease}
    BY <1>0
  <2>2. CASE state' = [state EXCEPT !.phase = "finalizing"]
    BY <1>0, <2>2 DEF SchedulingState
  <2>3. CASE /\ lease = state.owner /\ state.phase = "finalizing"
             /\ state' = [state EXCEPT !.phase = "idle", !.owner = NoLease]
    BY <1>0, <2>3 DEF SchedulingState, Report
  <2>4. OwnedOutcome(state, event, lease, state')
    BY <1>0, <2>1, OwnedLemma DEF Report
  <2> QED BY <2>2, <2>3, <2>4 DEF OwnedOutcome
<1>3. CASE \E name \in Barriers, enabled \in BOOLEAN : Barrier(name, enabled)
  BY <1>0, <1>3 DEF Barrier, SetBarrier, SchedulingState
<1>4. CASE UNCHANGED vars
  BY <1>4 DEF vars
<1> QED BY <1>1, <1>2, <1>3, <1>4 DEF Next

(* The slot is never handed over directly and never released early.         *)
THEOREM SchedulerOnlyTeardownReleases == Spec => OnlyTeardownReleases
BY SchedulerInvariant, TeardownStep, PTL DEF Spec, OnlyTeardownReleases

(* Every step of the scheduler is a step of the abstract slot or leaves it  *)
(* alone: the reducer implements one slot with numbered tenancies.          *)
LEMMA SlotStep == Inv /\ [Next]_vars => [Slot!Next]_<<Holder, state.generation>>
<1> SUFFICES ASSUME Inv, [Next]_vars PROVE [Slot!Next]_<<Holder, state.generation>>
  OBVIOUS
<1>0. state \in SchedulingState(Barriers) /\ issued \subseteq Lease
      /\ ((state.phase = "idle") <=> (state.owner = NoLease))
  BY DEF Inv, TypeOK, NeverMalformed, WellFormed
<1>1. CASE \E turn \in Turns, kind \in Kinds, pendingUsers, otherWork \in BOOLEAN :
             Admit(turn, kind, pendingUsers, otherWork)
  <2> PICK turn \in Turns, kind \in Kinds, pendingUsers \in BOOLEAN, otherWork \in BOOLEAN :
        Admit(turn, kind, pendingUsers, otherWork)
    BY <1>1
  <2> DEFINE d == ReduceAdmit(state, turn, kind, pendingUsers, otherWork)
  <2>1. AdmitOutcome(state, turn, kind, d) /\ state' = d.state
    BY <1>0, AdmitLemma DEF Admit
  <2> HIDE DEF d
  <2>2. CASE ~d.accepted
    BY <2>1, <2>2 DEF AdmitOutcome, Holder
  <2>3. CASE d.accepted
    <3>1. Holder = NoLease
      BY <1>0, <2>1, <2>3 DEF AdmitOutcome, Holder
    <3>2. /\ state'.owner = FreshLease(state, turn, kind)
          /\ state'.generation = state.generation + 1
      BY <1>0, <2>1, <2>3 DEF AdmitOutcome, SchedulingState
    <3>3. state'.owner # NoLease /\ state'.owner.turn = turn
      BY <2>1, <2>3, <3>2, NoLeaseAssumption DEF AdmitOutcome, FreshLease
    <3>4. Holder' = turn
      BY <3>3 DEF Holder
    <3> QED BY <3>1, <3>2, <3>4 DEF Slot!Next, Slot!Acquire
  <2> QED BY <2>2, <2>3
<1>2. CASE \E event \in Events \ {"admit"}, lease \in issued \cup {NoLease} :
             Report(event, lease)
  <2> PICK event \in Events \ {"admit"}, lease \in issued \cup {NoLease} : Report(event, lease)
    BY <1>2
  <2>1. OwnedOutcome(state, event, lease, state')
    BY <1>0, OwnedLemma DEF Report
  <2>2. CASE state' = state
    BY <2>2 DEF Holder
  <2>3. CASE state' = [state EXCEPT !.phase = "finalizing"]
    BY <1>0, <2>3 DEF Holder, SchedulingState
  <2>4. CASE state.owner # NoLease /\ state' = [state EXCEPT !.phase = "idle", !.owner = NoLease]
    <3>1. state'.owner = NoLease /\ state'.generation = state.generation
      BY <1>0, <2>4 DEF SchedulingState
    <3>2. state.owner.turn # NoLease
      BY <1>0, <2>4, NoLeaseIsNoTurn DEF SchedulingState, Lease
    <3> QED BY <2>4, <3>1, <3>2 DEF Holder, Slot!Next, Slot!Release
  <2> QED BY <2>1, <2>2, <2>3, <2>4 DEF OwnedOutcome
<1>3. CASE \E name \in Barriers, enabled \in BOOLEAN : Barrier(name, enabled)
  BY <1>0, <1>3 DEF Barrier, SetBarrier, SchedulingState, Holder
<1>4. CASE UNCHANGED vars
  BY <1>4 DEF vars, Holder
<1> QED BY <1>1, <1>2, <1>3, <1>4 DEF Next

\* The scheduler implements the abstract resident slot, for all callers.
THEOREM SchedulerRefinesSlot == Spec => RefinesSlot
<1>1. Init => Slot!Init
  BY DEF Init, Slot!Init, Holder, InitialScheduling
<1>2. Inv /\ [Next]_vars => [Slot!Next]_<<Holder, state.generation>>
  BY SlotStep
<1> QED BY <1>1, <1>2, SchedulerInvariant, PTL DEF Spec, RefinesSlot, Slot!Spec
=============================================================================
