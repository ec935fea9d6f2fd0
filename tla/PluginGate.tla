----------------------------- MODULE PluginGate -----------------------------
(***************************************************************************)
(* How Tissue knows that OpenCode runs its moderation plugin.              *)
(*                                                                         *)
(* `tissue install-plugin' (resident.ts) writes the plugin file and then a *)
(* deployment record; OpenCode loads the file when it starts, and the      *)
(* plugin (tissue-moderation.ts) publishes a load beacon; Tissue compares  *)
(* file, record and beacon before every prompt.  Four programs, no lock    *)
(* and no message between them: only files and the times in them.          *)
(***************************************************************************)
EXTENDS Naturals

CONSTANTS
    Versions,   \* versions of the plugin file
    Ours,       \* the one the running Tissue was built with
    None,       \* no version, no file
    MaxTime,    \* bound: starts of OpenCode and deployments
    MaxFaults   \* bound: deployments cut short, beacons that cannot be written

ASSUME GateAssumption ==
    /\ Ours \in Versions
    /\ None \notin Versions
    /\ MaxTime \in Nat
    /\ MaxFaults \in Nat

VARIABLES
    file,        \* tissue-moderation.ts in the global plugin directory
    record,      \* deploy-record.json
    beacon,      \* plugin-loaded.json
    installing,  \* the version a deployment has put in place and not yet recorded
    halfway,     \* the file was written after the record
    openCode,    \* the resident process: what it loaded and when it was started
    cleared,     \* Tissue has passed the gate and not yet sent the prompt
    turn,        \* a managed session is at work
    clock,       \* the time of the latest start or deployment
    faults       \* faults so far

gateVars == <<file, record, beacon, installing, halfway, openCode, cleared, turn, clock, faults>>
deployed == <<file, record, installing, halfway>>

NoRecord == [sha |-> None, epoch |-> 0]
NoBeacon == [sha |-> None, started |-> 0]
Stopped == [is |-> "down", plugin |-> None, started |-> 0]

Up == openCode.is # "down"

GateTypeOK ==
    /\ file \in Versions \cup {None}
    /\ record \in [sha : Versions \cup {None}, epoch : Nat]
    /\ beacon \in [sha : Versions \cup {None}, started : Nat]
    /\ installing \in Versions \cup {None}
    /\ openCode \in [is : {"down", "loading", "up"}, plugin : Versions \cup {None}, started : Nat]
    /\ halfway \in BOOLEAN /\ cleared \in BOOLEAN /\ turn \in BOOLEAN
    /\ clock \in Nat
    /\ faults \in Nat

GateInit ==
    /\ file = None /\ record = NoRecord /\ beacon = NoBeacon
    /\ installing = None /\ halfway = FALSE
    /\ openCode = Stopped
    /\ cleared = FALSE /\ turn = FALSE
    /\ clock = 0 /\ faults = 0

Fault == faults < MaxFaults /\ faults' = faults + 1

-----------------------------------------------------------------------------
(* The deployment (installModerationPlugin).                               *)

\* The file is written when it is missing, or differs and --force was given;
\* an identical file is left alone, and the record is written all the same.
InstallFile(v, force) ==
    /\ installing = None
    /\ clock < MaxTime
    /\ file \in {None, v} \/ force
    /\ file' = v
    /\ installing' = v
    /\ halfway' = (halfway \/ file # v)
    /\ UNCHANGED <<record, beacon, openCode, cleared, turn, clock, faults>>

InstallRecord ==
    /\ installing # None
    /\ clock' = clock + 1
    /\ record' = [sha |-> installing, epoch |-> clock']
    /\ installing' = None
    /\ halfway' = FALSE
    /\ UNCHANGED <<file, beacon, openCode, cleared, turn, faults>>

\* The record cannot be written, or the command dies before it.
InstallFails ==
    /\ installing # None
    /\ Fault
    /\ installing' = None
    /\ UNCHANGED <<file, record, beacon, halfway, openCode, cleared, turn, clock>>

-----------------------------------------------------------------------------
(* OpenCode, and the plugin inside it.                                     *)

Boot ==
    /\ ~Up
    /\ clock < MaxTime
    /\ clock' = clock + 1
    /\ openCode' = [is |-> IF file = None THEN "up" ELSE "loading", plugin |-> file,
                    started |-> clock']
    /\ UNCHANGED <<deployed, beacon, cleared, turn, faults>>

Stop ==
    /\ Up
    /\ openCode' = Stopped
    /\ turn' = FALSE
    /\ UNCHANGED <<deployed, beacon, cleared, clock, faults>>

\* writeLoadBeacon hashes the file that is there now and publishes under a new
\* name only: a beacon that exists, its own or an older one, is left as it is.
WriteLoadBeacon ==
    /\ openCode.is = "loading"
    /\ openCode' = [openCode EXCEPT !.is = "up"]
    /\ beacon' = IF beacon = NoBeacon THEN [sha |-> file, started |-> openCode.started]
                                      ELSE beacon
    /\ UNCHANGED <<deployed, cleared, turn, clock, faults>>

\* A failed write is logged; moderation goes on without a beacon.
BeaconFails ==
    /\ openCode.is = "loading"
    /\ Fault
    /\ openCode' = [openCode EXCEPT !.is = "up"]
    /\ UNCHANGED <<deployed, beacon, cleared, turn, clock>>

TurnEnds ==
    /\ turn
    /\ turn' = FALSE
    /\ UNCHANGED <<deployed, beacon, openCode, cleared, clock, faults>>

-----------------------------------------------------------------------------
(* Tissue (verifyModerationPluginLoaded, enforceManagedSessionGate).       *)

\* Mutant: the beacon may be older than the record.
LoadedAnyTime ==
    /\ file = Ours
    /\ record.sha = Ours
    /\ beacon.sha = Ours

\* verifyModerationPluginLoaded: file, record and beacon are of this build, and the
\* beacon is of a start after the deployment.
Loaded ==
    /\ file = Ours
    /\ record.sha = Ours
    /\ beacon.sha = Ours
    /\ beacon.started >= record.epoch

\* Mutant: a prompt is sent whatever the files say.
ClearUnchecked ==
    /\ ~cleared
    /\ cleared' = TRUE
    /\ UNCHANGED <<deployed, beacon, openCode, turn, clock, faults>>

\* The gate is read, and the prompt is sent in a request of its own.
Clear ==
    /\ ~cleared
    /\ Loaded
    /\ cleared' = TRUE
    /\ UNCHANGED <<deployed, beacon, openCode, turn, clock, faults>>

Post ==
    /\ cleared
    /\ cleared' = FALSE
    /\ turn' = (turn \/ Up)
    /\ UNCHANGED <<deployed, beacon, openCode, clock, faults>>

GateNext ==
    \/ \E v \in Versions, force \in BOOLEAN : InstallFile(v, force)
    \/ InstallRecord \/ InstallFails
    \/ Boot \/ Stop \/ WriteLoadBeacon \/ BeaconFails \/ TurnEnds
    \/ Clear \/ Post

GateSpec == GateInit /\ [][GateNext]_gateVars

-----------------------------------------------------------------------------
(* Properties.                                                             *)

\* Three files and two clocks stand in for asking OpenCode.  When they agree, the
\* process that is up did load the plugin Tissue expects, in whatever order
\* deployments and starts came; only after a deployment that was cut short
\* between its two writes do they say nothing (verifyModerationPluginLoaded).
GateIsHonest ==
    Loaded /\ Up /\ ~halfway => openCode.plugin = Ours

\* OpenCode may be restarted, and the plugin replaced, between the reading of the
\* gate and the prompt: a managed session still never works in a process without
\* some moderation plugin (enforceManagedSessionGate).
TurnsAreModerated ==
    turn => Up /\ openCode.plugin # None

\* "After the owner starts OpenCode, the load beacon must match the deployed SHA and
\* restart epoch": a start after a finished deployment opens the gate, also when it
\* was not the first one (docs/s6-supervision.md).
StartOpensTheGate ==
    /\ openCode.is = "up"
    /\ ~halfway /\ record.sha = Ours
    /\ openCode.started >= record.epoch
    => Loaded
=============================================================================
