------------------------- MODULE PluginGate_proofs --------------------------
(***************************************************************************)
(* Proofs about PluginGate, for any number of versions, deployments and    *)
(* starts of OpenCode.                                                     *)
(*                                                                         *)
(* GateIsHonest follows from how the times in the three files relate to    *)
(* the start of the process that is up: a beacon is never younger than     *)
(* that start, and a process started after the record loaded the file the  *)
(* record is about.  TurnsAreModerated follows from what a beacon says of  *)
(* every later start: the plugin file is never removed.                    *)
(***************************************************************************)
EXTENDS PluginGate, TLAPS

\* The record is about the file unless a deployment is halfway, and a deployment
\* has put its version in place.
FilesAgree ==
    /\ ~halfway => file = record.sha
    /\ installing # None => file = installing

\* No file tells of a time to come; a beacon was written by the process that is up
\* or by one before it.
TimesPass ==
    /\ record.epoch <= clock
    /\ beacon.started <= clock
    /\ openCode.started <= clock
    /\ Up /\ beacon # NoBeacon => beacon.started <= openCode.started

\* What a process loads is what it found when it started.
LoadsWhatIsThere ==
    ~halfway /\ Up /\ openCode.started >= record.epoch => openCode.plugin = file

\* A beacon means that there is a plugin, now and for every process to come.
BeaconMeansPlugin ==
    /\ beacon # NoBeacon => beacon.sha # None /\ file # None
    /\ openCode.is = "loading" => openCode.plugin # None /\ file # None
    /\ Up /\ beacon # NoBeacon => openCode.plugin # None
    /\ cleared => beacon # NoBeacon

IInv ==
    /\ GateTypeOK
    /\ FilesAgree
    /\ TimesPass
    /\ LoadsWhatIsThere
    /\ BeaconMeansPlugin
    /\ TurnsAreModerated

-----------------------------------------------------------------------------
\* Nothing is deployed and nothing runs.
LEMMA InitIInv == GateInit => IInv
<1> USE DEF GateInit, NoRecord, NoBeacon, Stopped
<1>1. GateInit => GateTypeOK
  <2> SUFFICES ASSUME GateInit PROVE GateTypeOK
    OBVIOUS
  <2>1. record \in [sha : Versions \cup {None}, epoch : Nat]
    OBVIOUS
  <2>2. beacon \in [sha : Versions \cup {None}, started : Nat]
    OBVIOUS
  <2>3. openCode \in [is : {"down", "loading", "up"}, plugin : Versions \cup {None}, started : Nat]
    OBVIOUS
  <2>. QED BY ONLY GateInit, <2>1, <2>2, <2>3 DEF GateTypeOK, GateInit
<1>2. GateInit => FilesAgree /\ TimesPass /\ LoadsWhatIsThere
  BY DEF FilesAgree, TimesPass, LoadsWhatIsThere, Up
<1>3. GateInit => BeaconMeansPlugin /\ TurnsAreModerated
  BY DEF BeaconMeansPlugin, TurnsAreModerated, Up
<1>. QED BY <1>1, <1>2, <1>3 DEF IInv

\* Every step keeps the values in their sets.
LEMMA TypeStep ==
  ASSUME GateTypeOK, [GateNext]_gateVars
  PROVE  GateTypeOK'
<1> USE GateAssumption DEF GateTypeOK, deployed
<1>1. CASE \E v \in Versions, force \in BOOLEAN : InstallFile(v, force)
  BY <1>1 DEF InstallFile
<1>2. CASE InstallRecord
  <2>1. /\ record' \in [sha : Versions \cup {None}, epoch : Nat]
        /\ clock' \in Nat
    BY <1>2 DEF InstallRecord
  <2>. QED BY <1>2, <2>1 DEF InstallRecord
<1>3. CASE InstallFails
  BY <1>3 DEF InstallFails, Fault
<1>4. CASE Boot
  <2>1. /\ openCode' \in [is : {"down", "loading", "up"}, plugin : Versions \cup {None}, started : Nat]
        /\ clock' \in Nat
    BY <1>4 DEF Boot
  <2>. QED BY <1>4, <2>1 DEF Boot
<1>5. CASE Stop
  BY <1>5 DEF Stop, Stopped
<1>6. CASE WriteLoadBeacon
  BY <1>6 DEF WriteLoadBeacon
<1>7. CASE BeaconFails
  BY <1>7 DEF BeaconFails, Fault
<1>8. CASE TurnEnds
  BY <1>8 DEF TurnEnds
<1>9. CASE Clear
  BY <1>9 DEF Clear
<1>10. CASE Post
  BY <1>10 DEF Post
<1>11. CASE UNCHANGED gateVars
  BY <1>11 DEF gateVars
<1>. QED BY <1>1, <1>2, <1>3, <1>4, <1>5, <1>6, <1>7, <1>8, <1>9, <1>10, <1>11 DEF GateNext

\* The record follows the file.
LEMMA FilesStep ==
  ASSUME FilesAgree, [GateNext]_gateVars
  PROVE  FilesAgree'
<1> USE DEF FilesAgree, deployed
<1>1. CASE \E v \in Versions, force \in BOOLEAN : InstallFile(v, force)
  BY <1>1 DEF InstallFile
<1>2. CASE InstallRecord
  BY <1>2 DEF InstallRecord
<1>3. CASE InstallFails
  BY <1>3 DEF InstallFails
<1>4. CASE Boot \/ Stop \/ WriteLoadBeacon \/ BeaconFails \/ TurnEnds \/ Clear \/ Post
  BY <1>4 DEF Boot, Stop, WriteLoadBeacon, BeaconFails, TurnEnds, Clear, Post
<1>5. CASE UNCHANGED gateVars
  BY <1>5 DEF gateVars
<1>. QED BY <1>1, <1>2, <1>3, <1>4, <1>5 DEF GateNext

\* Starts and deployments are dated after everything before them.
LEMMA TimesStep ==
  ASSUME GateTypeOK, TimesPass, [GateNext]_gateVars
  PROVE  TimesPass'
<1> USE DEF GateTypeOK, TimesPass, deployed, Up, NoBeacon
<1>1. CASE \E v \in Versions, force \in BOOLEAN : InstallFile(v, force)
  BY <1>1 DEF InstallFile
<1>2. CASE InstallRecord
  BY <1>2 DEF InstallRecord
<1>3. CASE Boot
  <2>1. openCode'.started = clock + 1 /\ clock' = clock + 1
    BY <1>3 DEF Boot
  <2>. QED BY <1>3, <2>1 DEF Boot
<1>4. CASE Stop
  BY <1>4 DEF Stop, Stopped
<1>5. CASE WriteLoadBeacon
  BY <1>5 DEF WriteLoadBeacon
<1>6. CASE InstallFails \/ BeaconFails \/ TurnEnds \/ Clear \/ Post
  BY <1>6 DEF InstallFails, BeaconFails, TurnEnds, Clear, Post
<1>7. CASE UNCHANGED gateVars
  BY <1>7 DEF gateVars
<1>. QED BY <1>1, <1>2, <1>3, <1>4, <1>5, <1>6, <1>7 DEF GateNext

\* A start loads the file that is there; a deployment is dated after the start of the
\* process that is up.
LEMMA LoadsStep ==
  ASSUME GateTypeOK, TimesPass, LoadsWhatIsThere, [GateNext]_gateVars
  PROVE  LoadsWhatIsThere'
<1> USE DEF GateTypeOK, LoadsWhatIsThere, deployed, Up
<1>1. CASE \E v \in Versions, force \in BOOLEAN : InstallFile(v, force)
  BY <1>1 DEF InstallFile
<1>2. CASE InstallRecord
  <2>1. record'.epoch > openCode'.started
    BY <1>2 DEF InstallRecord, TimesPass
  <2>2. record'.epoch \in Nat /\ openCode'.started \in Nat
    BY <1>2 DEF InstallRecord
  <2>. QED BY <2>1, <2>2
<1>3. CASE Boot
  <2>1. openCode'.plugin = file'
    BY <1>3 DEF Boot
  <2>. QED BY <2>1
<1>4. CASE Stop
  BY <1>4 DEF Stop, Stopped
<1>5. CASE WriteLoadBeacon \/ BeaconFails
  BY <1>5 DEF WriteLoadBeacon, BeaconFails
<1>6. CASE InstallFails \/ TurnEnds \/ Clear \/ Post
  BY <1>6 DEF InstallFails, TurnEnds, Clear, Post
<1>7. CASE UNCHANGED gateVars
  BY <1>7 DEF gateVars
<1>. QED BY <1>1, <1>2, <1>3, <1>4, <1>5, <1>6, <1>7 DEF GateNext

\* The plugin file is never removed, so every start after a beacon loads a plugin.
LEMMA BeaconStep ==
  ASSUME GateTypeOK, BeaconMeansPlugin, TurnsAreModerated, [GateNext]_gateVars
  PROVE  BeaconMeansPlugin' /\ TurnsAreModerated'
<1> USE GateAssumption DEF BeaconMeansPlugin, TurnsAreModerated, deployed, Up, NoBeacon
<1>1. CASE \E v \in Versions, force \in BOOLEAN : InstallFile(v, force)
  <2>1. PICK v \in Versions, force \in BOOLEAN : InstallFile(v, force)
    BY <1>1
  <2>2. v # None
    OBVIOUS
  <2>. QED BY <2>1, <2>2 DEF InstallFile
<1>2. CASE Boot
  BY <1>2 DEF Boot, GateTypeOK
<1>3. CASE Stop
  BY <1>3 DEF Stop, Stopped
<1>4. CASE WriteLoadBeacon
  BY <1>4 DEF WriteLoadBeacon, GateTypeOK
<1>5. CASE BeaconFails
  BY <1>5 DEF BeaconFails, GateTypeOK
<1>6. CASE Clear
  <2>1. beacon # NoBeacon
    BY <1>6 DEF Clear, Loaded
  <2>. QED BY <1>6, <2>1 DEF Clear
<1>7. CASE InstallRecord \/ InstallFails \/ TurnEnds
  BY <1>7 DEF InstallRecord, InstallFails, TurnEnds
<1>8. CASE Post
  <2>1. turn' => turn \/ Up
    BY <1>8, Zenon DEF Post
  <2>2. Up => openCode.plugin # None
    BY <1>8 DEF Post
  <2>. QED BY <1>8, <2>1, <2>2 DEF Post
<1>9. CASE UNCHANGED gateVars
  BY <1>9 DEF gateVars
<1>. QED BY <1>1, <1>2, <1>3, <1>4, <1>5, <1>6, <1>7, <1>8, <1>9 DEF GateNext

\* IInv is inductive.
LEMMA Inductive == GateSpec => []IInv
<1>1. GateInit => IInv
  BY InitIInv
<1>2. IInv /\ [GateNext]_gateVars => IInv'
  BY TypeStep, FilesStep, TimesStep, LoadsStep, BeaconStep DEF IInv
<1>. QED BY <1>1, <1>2, PTL DEF GateSpec

\* Files that agree date the process that is up after the record, which is about the
\* file it found.
LEMMA InvariantIsHonest == IInv => GateIsHonest
<1> SUFFICES ASSUME IInv, Loaded, Up, ~halfway
             PROVE  openCode.plugin = Ours
  BY DEF GateIsHonest
<1>1. beacon # NoBeacon
  BY GateAssumption DEF Loaded, NoBeacon
<1>2. openCode.started >= record.epoch
  BY <1>1 DEF IInv, GateTypeOK, TimesPass, Loaded
<1>3. openCode.plugin = file
  BY <1>2 DEF IInv, LoadsWhatIsThere
<1>. QED BY <1>3 DEF Loaded

\* Files, times and processes keep the values the code gives them.
THEOREM GateTypeCorrect == GateSpec => []GateTypeOK
<1>1. IInv => GateTypeOK
  BY DEF IInv
<1>. QED BY <1>1, Inductive, PTL

\* When the three files agree, and no deployment was cut short, the process that is up
\* loaded the plugin Tissue expects (verifyModerationPluginLoaded).
THEOREM GateHonest == GateSpec => []GateIsHonest
<1>1. IInv => GateIsHonest
  BY InvariantIsHonest
<1>. QED BY <1>1, Inductive, PTL

\* No managed session works in a process without the plugin, whatever happens between
\* the reading of the gate and the prompt (enforceManagedSessionGate).
THEOREM TurnsModerated == GateSpec => []TurnsAreModerated
<1>1. IInv => TurnsAreModerated
  BY DEF IInv
<1>. QED BY <1>1, Inductive, PTL
=============================================================================
