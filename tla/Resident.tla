------------------------------ MODULE Resident ------------------------------
(***************************************************************************)
(* The Tissue process beside OpenCode: the production entrypoint, the      *)
(* daemon's loop and its wait, the supervised event stream that may end    *)
(* the wait early, and the health listener.  OpenCode is started and       *)
(* stopped by others (PluginGate); Tissue notices by asking.               *)
(***************************************************************************)
EXTENDS PluginGate

VARIABLES
    phase,      \* where the Tissue process is
    available,  \* runDaemon's openCodeAvailable
    stream,     \* where the loop of SseWakeHint is
    health      \* the variables of startHealthServer

ownVars == <<phase, available, stream, health>>
vars == <<gateVars, ownVars>>

\* "stopping" is the finally of runDaemon, which waits for the wake hint to close.
Phases == {"down", "assembling", "reconciling", "probing", "passing", "prompting",
           "waiting", "stopping"}
\* "closing" is the finally of consumeOne, which waits for the iterator to return.
StreamStates == {"off", "opening", "open", "closing", "backoff"}

NoListener == [on |-> FALSE, probing |-> FALSE, resident |-> FALSE]
Loop == {"probing", "passing", "prompting", "waiting"}

TypeOK ==
    /\ GateTypeOK
    /\ phase \in Phases
    /\ available \in BOOLEAN
    /\ stream \in StreamStates
    /\ health \in [on : BOOLEAN, probing : BOOLEAN, resident : BOOLEAN]

Init ==
    /\ GateInit
    /\ phase = "down"
    /\ available = FALSE
    /\ stream = "off"
    /\ health = NoListener

-----------------------------------------------------------------------------
(* The process (runProductionDaemon, createProductionAssembly).            *)

\* The database is opened and the registry looked at.
Start ==
    /\ phase = "down"
    /\ phase' = "assembling"
    /\ UNCHANGED <<gateVars, available, stream, health>>

\* The assembly asks OpenCode once before anything else; the listener comes next.
Assemble ==
    /\ phase = "assembling"
    /\ Up
    /\ phase' = "reconciling"
    /\ health' = [NoListener EXCEPT !.on = TRUE]
    /\ UNCHANGED <<gateVars, available, stream>>

\* No answer: the process exits with status 1, and its supervisor starts another.
AssembleFails ==
    /\ phase = "assembling"
    /\ ~Up
    /\ phase' = "down"
    /\ UNCHANGED <<gateVars, available, stream, health>>

\* The pass P0-P6 (see Sessions), which seeds the loop with whether P2 got an answer
\* and came to its end; the hint starts after it.
Reconcile ==
    /\ phase = "reconciling"
    /\ phase' = "probing"
    /\ available' \in {Up, FALSE}
    /\ stream' = "opening"
    /\ UNCHANGED <<gateVars, health>>

-----------------------------------------------------------------------------
(* The loop (runDaemon).                                                   *)

\* Mutant: what the reconcile pass found is believed for ever.
ProbeAtFirst ==
    /\ phase = "probing"
    /\ phase' = "passing"
    /\ UNCHANGED <<gateVars, available, stream, health>>

\* checkResidentHealth, before every pass.
Probe ==
    /\ phase = "probing"
    /\ available' = Up
    /\ phase' = "passing"
    /\ UNCHANGED <<gateVars, stream, health>>

\* A pass polls in any case; what needs a prompt is left out while OpenCode is not
\* available, and refused while the plugin is not known to be loaded.
PassWithoutPrompt ==
    /\ phase = "passing"
    /\ ~(available /\ Loaded)
    /\ phase' = "waiting"
    /\ UNCHANGED <<gateVars, available, stream, health>>

PassClears ==
    /\ phase = "passing"
    /\ available
    /\ Clear
    /\ phase' = "prompting"
    /\ UNCHANGED <<available, stream, health>>

PassPrompts ==
    /\ phase = "prompting"
    /\ Post
    /\ phase' = "waiting"
    /\ UNCHANGED <<available, stream, health>>

\* Mutant: a wait without a stream has no deadline.
TimeOutWhenConnected ==
    /\ phase = "waiting"
    /\ stream = "open"
    /\ phase' = "probing"
    /\ UNCHANGED <<gateVars, available, stream, health>>

\* waitForWakeOrTimeout: the deadline is set whatever the stream does.
TimeOut ==
    /\ phase = "waiting"
    /\ phase' = "probing"
    /\ UNCHANGED <<gateVars, available, stream, health>>

\* A call of a pass throws: the hint is closed, which ends a backoff at once and
\* lets the loop return from a stream once the read under way is over.
PassThrows ==
    /\ phase \in {"passing", "prompting"}
    /\ Fault
    /\ phase' = "stopping"
    /\ cleared' = FALSE
    /\ stream' = IF stream = "backoff" THEN "off" ELSE "closing"
    /\ UNCHANGED <<file, record, beacon, installing, halfway, openCode, turn, clock,
                   available, health>>

\* The listener is closed after the hint, then the process is gone.
Exit ==
    /\ phase = "stopping"
    /\ stream = "off"
    /\ phase' = "down"
    /\ health' = NoListener
    /\ UNCHANGED <<gateVars, available, stream>>

Crash ==
    /\ phase # "down"
    /\ Fault
    /\ phase' = "down"
    /\ cleared' = FALSE
    /\ available' = FALSE
    /\ stream' = "off"
    /\ health' = NoListener
    /\ UNCHANGED <<file, record, beacon, installing, halfway, openCode, turn, clock>>

-----------------------------------------------------------------------------
(* The event stream (SseWakeHint).                                         *)

\* The first event, server.connected, wakes the loop like any other.
Woken == IF phase = "waiting" THEN "probing" ELSE phase

Connect ==
    /\ stream = "opening"
    /\ Up
    /\ stream' = "open"
    /\ phase' = Woken
    /\ UNCHANGED <<gateVars, available, health>>

\* There are waiters only while the loop waits: an event during a pass wakes nobody.
Event ==
    /\ stream = "open"
    /\ Up
    /\ phase = "waiting"
    /\ phase' = Woken
    /\ UNCHANGED <<gateVars, available, stream, health>>

\* The connection is refused or ends.
Disconnected ==
    /\ stream \in {"opening", "open"}
    /\ ~Up
    /\ stream' = "backoff"
    /\ UNCHANGED <<gateVars, phase, available, health>>

\* Nothing for W_HEARTBEAT.  The iterator's return() queues behind the read that is
\* under way, which ends with the next event or when the transport gives up.
Heartbeat ==
    /\ stream \in {"opening", "open"}
    /\ stream' = "closing"
    /\ UNCHANGED <<gateVars, phase, available, health>>

ReadEnds ==
    /\ stream = "closing"
    /\ stream' = IF phase = "stopping" THEN "off" ELSE "backoff"
    /\ UNCHANGED <<gateVars, phase, available, health>>

BackoffEnds ==
    /\ stream = "backoff"
    /\ stream' = "opening"
    /\ UNCHANGED <<gateVars, phase, available, health>>

-----------------------------------------------------------------------------
(* The health listener (startHealthServer).                                *)

\* A request is answered with the latest result and starts a refresh, unless one
\* is under way.
Ask ==
    /\ health.on
    /\ ~health.probing
    /\ health' = [health EXCEPT !.probing = TRUE]
    /\ UNCHANGED <<gateVars, phase, available, stream>>

\* Mutant: once reachable, always reachable.
RefreshedUpwards ==
    /\ health.probing
    /\ health' = [health EXCEPT !.probing = FALSE, !.resident = health.resident \/ Up]
    /\ UNCHANGED <<gateVars, phase, available, stream>>

\* The probe came back.
Refreshed ==
    /\ health.probing
    /\ health' = [health EXCEPT !.probing = FALSE, !.resident = Up]
    /\ UNCHANGED <<gateVars, phase, available, stream>>

\* 250 ms without an answer count as unreachable.
RefreshLate ==
    /\ health.probing
    /\ Up
    /\ Fault
    /\ health' = [health EXCEPT !.probing = FALSE, !.resident = FALSE]
    /\ UNCHANGED <<file, record, beacon, installing, halfway, openCode, cleared, turn, clock,
                   phase, available, stream>>

-----------------------------------------------------------------------------
Process ==
    \/ Start \/ Assemble \/ AssembleFails \/ Reconcile
    \/ Probe \/ PassWithoutPrompt \/ PassClears \/ PassPrompts \/ TimeOut \/ Exit

Others ==
    /\ \/ \E v \in Versions, force \in BOOLEAN : InstallFile(v, force)
       \/ InstallRecord \/ InstallFails
       \/ Boot \/ Stop \/ WriteLoadBeacon \/ BeaconFails
       \/ TurnEnds
    /\ UNCHANGED ownVars

Next ==
    \/ Process
    \/ PassThrows \/ Crash
    \/ Connect \/ Event \/ Disconnected \/ Heartbeat \/ ReadEnds \/ BackoffEnds
    \/ Ask \/ Refreshed \/ RefreshLate
    \/ Others

Spec == Init /\ [][Next]_vars

\* The process is supervised and its steps are bounded by timeouts; a read ends at
\* the latest with the transport's body timeout; the container's health check keeps
\* asking.  OpenCode and its operator owe nothing.
Fairness ==
    /\ WF_vars(Process)
    /\ WF_vars(ReadEnds)
    /\ WF_vars(Ask) /\ WF_vars(Refreshed)

LiveSpec == Spec /\ Fairness

-----------------------------------------------------------------------------
(* Properties.                                                             *)

\* "Never depends on SSE for progress" (runDaemon): a daemon that got as far as its
\* loop makes pass after pass, whatever becomes of the stream and of OpenCode, and one
\* whose pass threw does not hang in its shutdown.
PassesRecur ==
    <>[](phase \notin {"down", "assembling"}) => []<>(phase = "passing")

\* The same with OpenCode away while Tissue starts: "the daemon continues safe
\* polling/ingest [...] it does not exit merely because the resident is unavailable"
\* (docs/operations-runbook.md).
PollsThroughOutage == []<>(phase = "passing")

\* "a restored service resumes prompt-dependent work without a daemon restart"
\* (runDaemon): when OpenCode is up for good with the plugin known to be loaded, the
\* loop prompts again and again, whatever the reconcile pass had found.
RestoredServiceIsUsed ==
    <>[](Up /\ Loaded) => []<>(phase = "prompting")

\* A response carries the result of an earlier probe; the readiness shown still comes
\* to agree with the resident, in both directions (startHealthServer).
ReadinessFollows ==
    /\ <>[](health.on /\ Up) => <>[]health.resident
    /\ <>[](health.on /\ ~Up) => <>[]~health.resident
=============================================================================
