-------------------------- MODULE Resident_proofs ---------------------------
(***************************************************************************)
(* Proofs about Resident: what PluginGate_proofs shows of the gate alone   *)
(* holds with the daemon around it, its loop, its crashes, its event       *)
(* stream and its health listener.                                         *)
(*                                                                         *)
(* Every step of the whole is a step of the gate, leaves the gate alone,   *)
(* or makes Tissue forget that it had passed it (a pass that throws, a     *)
(* crash).  So the inductive invariant of the gate is one of the whole.    *)
(***************************************************************************)
EXTENDS Resident, PluginGate_proofs

\* Tissue forgets that it had passed the gate, or one more thing went wrong.
Forgets ==
    /\ UNCHANGED <<file, record, beacon, installing, halfway, openCode, turn, clock>>
    /\ cleared' = FALSE \/ cleared' = cleared
    /\ Fault

\* The listener and the stream keep to their states.
OwnTypeOK ==
    /\ phase \in Phases
    /\ available \in BOOLEAN
    /\ stream \in StreamStates
    /\ health \in [on : BOOLEAN, probing : BOOLEAN, resident : BOOLEAN]

-----------------------------------------------------------------------------
\* What a step of the whole is for the gate.
LEMMA StepOfTheGate ==
  ASSUME [Next]_vars
  PROVE  [GateNext]_gateVars \/ Forgets
<1>1. CASE PassThrows \/ Crash
  BY <1>1 DEF PassThrows, Crash, Forgets
<1>2. CASE RefreshLate
  BY <1>2 DEF RefreshLate, Forgets
<1>3. CASE PassClears \/ PassPrompts
  BY <1>3 DEF PassClears, PassPrompts, GateNext
<1>4. CASE Others
  BY <1>4 DEF Others, GateNext
<1>5. CASE Start \/ Assemble \/ AssembleFails \/ Reconcile \/ Probe \/ PassWithoutPrompt
           \/ TimeOut \/ Exit
  BY <1>5 DEF Start, Assemble, AssembleFails, Reconcile, Probe, PassWithoutPrompt, TimeOut, Exit
<1>6. CASE Connect \/ Event \/ Disconnected \/ Heartbeat \/ ReadEnds \/ BackoffEnds \/ Ask
           \/ Refreshed
  BY <1>6 DEF Connect, Event, Disconnected, Heartbeat, ReadEnds, BackoffEnds, Ask, Refreshed
<1>7. CASE UNCHANGED vars
  BY <1>7 DEF vars
<1>. QED BY <1>1, <1>2, <1>3, <1>4, <1>5, <1>6, <1>7 DEF Next, Process

\* To forget costs the gate nothing: no file and no process of OpenCode changes.
LEMMA ForgetStep ==
  ASSUME IInv, Forgets
  PROVE  IInv'
<1> USE DEF IInv, Forgets
<1>1. GateTypeOK'
  <2>1. cleared' \in BOOLEAN
    BY DEF GateTypeOK
  <2>2. faults' \in Nat
    BY DEF GateTypeOK, Fault
  <2>. QED BY <2>1, <2>2 DEF GateTypeOK
<1>2. FilesAgree' /\ TimesPass' /\ LoadsWhatIsThere'
  BY DEF FilesAgree, TimesPass, LoadsWhatIsThere, Up
<1>3. TurnsAreModerated'
  BY DEF TurnsAreModerated, Up
<1>4. BeaconMeansPlugin'
  <2>1. cleared' => beacon' # NoBeacon
    BY DEF BeaconMeansPlugin
  <2>. QED BY <2>1 DEF BeaconMeansPlugin, Up
<1>. QED BY <1>1, <1>2, <1>3, <1>4

LEMMA NoListenerTyped == NoListener \in [on : BOOLEAN, probing : BOOLEAN, resident : BOOLEAN]
BY DEF NoListener

LEMMA OwnTypeStep ==
  ASSUME OwnTypeOK, [Next]_vars
  PROVE  OwnTypeOK'
<1> USE DEF OwnTypeOK, Phases, StreamStates
<1>1. health' \in [on : BOOLEAN, probing : BOOLEAN, resident : BOOLEAN]
  <2>1. CASE Assemble
    BY <2>1, NoListenerTyped DEF Assemble
  <2>2. CASE Exit \/ Crash
    BY <2>2, NoListenerTyped DEF Exit, Crash
  <2>3. CASE Ask
    BY <2>3 DEF Ask
  <2>4. CASE Refreshed
    <3>1. Up \in BOOLEAN
      BY DEF Up
    <3>2. health' = [health EXCEPT !.probing = FALSE, !.resident = Up]
      BY <2>4 DEF Refreshed
    <3>. QED BY <3>1, <3>2
  <2>5. CASE RefreshLate
    BY <2>5 DEF RefreshLate
  <2>6. ASSUME [Next]_vars, ~Assemble, ~Exit, ~Crash, ~Ask, ~Refreshed, ~RefreshLate
        PROVE  health' = health
    BY <2>6 DEF Next, Process, Start, AssembleFails, Reconcile, Probe, PassWithoutPrompt,
       PassClears, PassPrompts, TimeOut, PassThrows, Connect, Event, Disconnected, Heartbeat,
       ReadEnds, BackoffEnds, Others, ownVars, vars
  <2>. QED BY <2>1, <2>2, <2>3, <2>4, <2>5, <2>6
<1>2. available' \in BOOLEAN
  <2>1. Up \in BOOLEAN
    BY DEF Up
  <2>2. CASE Reconcile \/ Probe
    BY <2>1, <2>2 DEF Reconcile, Probe
  <2>3. CASE Crash
    BY <2>3 DEF Crash
  <2>4. ASSUME [Next]_vars, ~Reconcile, ~Probe, ~Crash
        PROVE  available' = available
    BY <2>4 DEF Next, Process, Start, Assemble, AssembleFails, PassWithoutPrompt, PassClears,
       PassPrompts, TimeOut, PassThrows, Exit, Connect, Event, Disconnected, Heartbeat, ReadEnds,
       BackoffEnds, Ask, Refreshed, RefreshLate, Others, ownVars, vars
  <2>. QED BY <2>2, <2>3, <2>4
<1>3. phase' \in Phases /\ stream' \in StreamStates
  <2>1. CASE Process
    BY <2>1 DEF Process, Start, Assemble, AssembleFails, Reconcile, Probe, PassWithoutPrompt,
       PassClears, PassPrompts, TimeOut, Exit
  <2>2. CASE PassThrows \/ Crash
    BY <2>2 DEF PassThrows, Crash
  <2>3. CASE Connect \/ Event \/ Disconnected \/ Heartbeat \/ ReadEnds \/ BackoffEnds
    BY <2>3 DEF Connect, Event, Disconnected, Heartbeat, ReadEnds, BackoffEnds, Woken
  <2>4. CASE Ask \/ Refreshed \/ RefreshLate
    BY <2>4 DEF Ask, Refreshed, RefreshLate
  <2>5. CASE Others \/ UNCHANGED vars
    BY <2>5 DEF Others, ownVars, vars
  <2>. QED BY <2>1, <2>2, <2>3, <2>4, <2>5 DEF Next
<1>. QED BY <1>1, <1>2, <1>3

\* The gate's invariant is inductive in the whole.
LEMMA GateInvariant == Spec => [](IInv /\ OwnTypeOK)
<1>1. Init => IInv /\ OwnTypeOK
  <2>1. Init => OwnTypeOK
    BY NoListenerTyped DEF Init, OwnTypeOK, Phases, StreamStates
  <2>. QED BY <2>1, InitIInv DEF Init
<1>2. IInv /\ OwnTypeOK /\ [Next]_vars => (IInv /\ OwnTypeOK)'
  <2>1. IInv /\ [GateNext]_gateVars => IInv'
    BY TypeStep, FilesStep, TimesStep, LoadsStep, BeaconStep DEF IInv
  <2>. QED BY <2>1, StepOfTheGate, ForgetStep, OwnTypeStep
<1>. QED BY <1>1, <1>2, PTL DEF Spec

-----------------------------------------------------------------------------
\* The daemon's phases, its stream's and its listener's are those of the code, and the
\* gate's files and times stay values it writes.
THEOREM TypeCorrect == Spec => []TypeOK
<1>1. IInv /\ OwnTypeOK => TypeOK
  BY DEF IInv, OwnTypeOK, TypeOK
<1>. QED BY <1>1, GateInvariant, PTL

\* When the three files agree, and no deployment was cut short, the process that is up
\* loaded the plugin Tissue expects, whenever the daemon looks
\* (verifyModerationPluginLoaded).
THEOREM GateHonestInTheLoop == Spec => []GateIsHonest
<1>1. IInv => GateIsHonest
  BY InvariantIsHonest
<1>. QED BY <1>1, GateInvariant, PTL

\* No managed session works in a process without the plugin, also when a pass throws or
\* the daemon dies between the gate and the prompt (enforceManagedSessionGate).
THEOREM TurnsModeratedInTheLoop == Spec => []TurnsAreModerated
<1>1. IInv => TurnsAreModerated
  BY DEF IInv
<1>. QED BY <1>1, GateInvariant, PTL
=============================================================================
