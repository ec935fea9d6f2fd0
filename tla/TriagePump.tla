----------------------------- MODULE TriagePump -----------------------------
(***************************************************************************)
(* The triage of one repository (triage.ts): the daemon and any number of  *)
(* `tissue tick' or `tissue reconcile' commands run the same flight code   *)
(* against one row of table repositories, while operators pause and resume *)
(* it.  A flight reads the row, prompts an agent outside any transaction,  *)
(* and applies the reply, or fails, with what it read at its start.        *)
(***************************************************************************)
EXTENDS Naturals, Sequences

CONSTANTS
    Issues,      \* issues that may be waiting for triage
    Daemon,      \* the daemon
    Commands,    \* reconcile commands, one process each
    None,        \* no issue, no work item
    MaxOps,      \* bound: operator commands
    MaxFaults    \* bound: crashes of a process during a flight

ASSUME TriageAssumption ==
    /\ Daemon \notin Commands
    /\ None \notin Issues
    /\ MaxOps \in Nat
    /\ MaxFaults \in Nat

Runners == Commands \cup {Daemon}

\* TRIAGE_ESCALATION_LIMIT
EscalationLimit == 3

VARIABLES
    pump,      \* repositories.triage_state, triage_failures, and whether
               \* triage_next_attempt_at lies ahead
    issue,     \* issues.state
    waiting,   \* issues in the order they were first seen
    link,      \* the ACTIVE work item of an issue; a work item is named by its first issue
    items,     \* rows of work_items
    flight,    \* how far each runner is, and what it read
    ops,       \* operator commands so far
    faults     \* crashes so far

rows == <<pump, issue, waiting, link, items>>
vars == <<rows, flight, ops, faults>>

\* Dispositions; REJECTED stands for the ones that leave no work item either
\* (PAUSED_TRIAGE, BLOCKED).
Dispositions == {"READY", "DUPLICATE", "REJECTED"}

Grounded == [step |-> "idle", state |-> "IDLE", failures |-> 0, issue |-> None]

TypeOK ==
    /\ pump \in [state : {"IDLE", "PROMPTING", "BACKOFF", "PAUSED_TRIAGE"},
                 failures : 0 .. EscalationLimit, later : BOOLEAN]
    /\ issue \in [Issues -> {"unseen", "TRIAGE_PENDING"} \cup Dispositions]
    /\ link \in [Issues -> Issues \cup {None}]
    /\ items \subseteq Issues
    /\ flight \in [Runners -> [step : {"idle", "listed", "stale", "begin", "park", "prompt"},
                               state : {"IDLE", "PROMPTING", "BACKOFF"},
                               failures : 0 .. EscalationLimit, issue : Issues \cup {None}]]
    /\ ops \in 0 .. MaxOps
    /\ faults \in 0 .. MaxFaults

Init ==
    /\ pump = [state |-> "IDLE", failures |-> 0, later |-> FALSE]
    /\ issue = [i \in Issues |-> "unseen"]
    /\ waiting = <<>>
    /\ link = [i \in Issues |-> None]
    /\ items = {}
    /\ flight = [r \in Runners |-> Grounded]
    /\ ops = 0
    /\ faults = 0

\* Ingest schedules an issue for triage.
Discover(i) ==
    /\ issue[i] = "unseen"
    /\ issue' = [issue EXCEPT ![i] = "TRIAGE_PENDING"]
    /\ waiting' = Append(waiting, i)
    /\ UNCHANGED <<pump, link, items, flight, ops, faults>>

(***************************************************************************)
(* The decision of runTriageRepo, from one read of the repository row and  *)
(* of the oldest issue that is due.                                        *)
(***************************************************************************)
\* nextDueIssue: the first seen of the issues that wait for triage.
IsNextDue(i) ==
    /\ issue[i] = "TRIAGE_PENDING"
    /\ \E k \in DOMAIN waiting :
          /\ waiting[k] = i
          /\ \A j \in 1 .. k - 1 : issue[waiting[j]] # "TRIAGE_PENDING"

Oldest == IF \E i \in Issues : IsNextDue(i) THEN CHOOSE i \in Issues : IsNextDue(i) ELSE None

\* Paused and backing off: the flight does not start.
Held == pump.state = "PAUSED_TRIAGE" \/ pump.later

\* Mutant of Decision: a PROMPTING pump is left to the flight it belongs to.
DecisionTrusting ==
    CASE Held \/ pump.state = "PROMPTING" -> "idle"
      [] ~Held /\ pump.state \in {"IDLE", "BACKOFF"} /\ Oldest # None -> "begin"
      [] ~Held /\ pump.state = "BACKOFF" /\ Oldest = None -> "park"
      [] OTHER -> "idle"

Decision ==
    CASE Held -> "idle"
      [] ~Held /\ pump.state = "PROMPTING" -> "stale"
      [] ~Held /\ pump.state # "PROMPTING" /\ Oldest # None -> "begin"
      [] ~Held /\ pump.state = "BACKOFF" /\ Oldest = None -> "park"
      [] OTHER -> "idle"

Decide(r) ==
    flight' = [flight EXCEPT ![r] =
        IF Decision = "idle" THEN Grounded
        ELSE [step |-> Decision, state |-> pump.state, failures |-> pump.failures,
              issue |-> Oldest]]

\* The triage phase of a pass of the daemon.
Look ==
    /\ flight[Daemon].step = "idle"
    /\ Decision # "idle"
    /\ Decide(Daemon)
    /\ UNCHANGED <<rows, ops, faults>>

\* recoverStalePrompting in P6: first the list of repositories ...
List(r) ==
    /\ flight[r].step = "idle"
    /\ pump.state = "PROMPTING"
    /\ flight' = [flight EXCEPT ![r].step = "listed"]
    /\ UNCHANGED <<rows, ops, faults>>

\* ... then a flight for those that were PROMPTING, whatever they are now.
Recover(r) ==
    /\ flight[r].step = "listed"
    /\ Decide(r)
    /\ UNCHANGED <<rows, ops, faults>>

(***************************************************************************)
(* The transactions of a flight.                                           *)
(***************************************************************************)
\* failFlight, with the count of failures read at the start of the flight; counts
\* from the limit on are one
Failed(failures) ==
    IF failures + 1 >= EscalationLimit
      THEN [state |-> "PAUSED_TRIAGE", failures |-> EscalationLimit, later |-> FALSE]
      ELSE [state |-> "BACKOFF", failures |-> failures + 1, later |-> TRUE]

FailStale(r) ==
    /\ flight[r].step = "stale"
    /\ pump' = Failed(flight[r].failures)
    /\ flight' = [flight EXCEPT ![r] = Grounded]
    /\ UNCHANGED <<issue, waiting, link, items, ops, faults>>

\* An expired backoff without work goes back to IDLE.
Park(r) ==
    /\ flight[r].step = "park"
    /\ pump' = [pump EXCEPT !.state = "IDLE"]
    /\ flight' = [flight EXCEPT ![r] = Grounded]
    /\ UNCHANGED <<issue, waiting, link, items, ops, faults>>

\* beginFlight
Begin(r) ==
    /\ flight[r].step = "begin"
    /\ pump' = [pump EXCEPT !.state = "PROMPTING"]
    /\ flight' = [flight EXCEPT ![r].step = "prompt"]
    /\ UNCHANGED <<issue, waiting, link, items, ops, faults>>

\* applyTriageEnvelope: the same disposition again is a duplicate and changes
\* nothing; only an issue that waits for triage gets one.
Repeats(i, d) == issue[i] = d

\* Mutant of Disposable: an issue without a work item may be disposed of again.
DisposableWhileUnlinked(i, d) == link[i] = None \/ Repeats(i, d)

Disposable(i, d) == issue[i] = "TRIAGE_PENDING" \/ Repeats(i, d)

\* Mutant of Grouping: every disposition without a canonical item makes one.
GroupingAll(i, d, c) ==
    IF Repeats(i, d) THEN UNCHANGED <<link, items>>
    ELSE /\ items' = items \cup (IF c = None THEN {i} ELSE {})
         /\ link' = [link EXCEPT ![i] = IF c = None THEN i ELSE c]

\* The links and work items after disposition d of issue i, which names the
\* existing work item c or none: ensureResolutionReady and ensureGrouped.
Grouping(i, d, c) ==
    IF Repeats(i, d) THEN UNCHANGED <<link, items>>
    ELSE IF d = "READY"
      THEN /\ items' = items \cup (IF link[i] = None THEN {i} ELSE {})
           /\ link' = [link EXCEPT ![i] = IF @ = None THEN i ELSE @]
      ELSE /\ link' = [link EXCEPT ![i] = c]
           /\ UNCHANGED items

\* A canonical work item that is named must exist.
Canonical(c) == c = None \/ c \in items

\* applySuggestion: the disposition, the grouping and the pump in one
\* transaction; the pump goes to IDLE whatever it holds.
Apply(r, d, c) ==
    LET i == flight[r].issue IN
    /\ flight[r].step = "prompt"
    /\ Canonical(c)
    /\ Disposable(i, d)
    /\ issue' = [issue EXCEPT ![i] = d]
    /\ Grouping(i, d, c)
    /\ pump' = [state |-> "IDLE", failures |-> 0, later |-> FALSE]
    /\ flight' = [flight EXCEPT ![r] = Grounded]
    /\ UNCHANGED <<waiting, ops, faults>>

\* The session, the body or the reply fails, or the reply is unusable (a
\* canonical item that does not exist, a disposition the issue cannot take).
Fail(r) ==
    /\ flight[r].step = "prompt"
    /\ pump' = Failed(flight[r].failures)
    /\ flight' = [flight EXCEPT ![r] = Grounded]
    /\ UNCHANGED <<issue, waiting, link, items, ops, faults>>

(***************************************************************************)
(* Operators, time and crashes.                                            *)
(***************************************************************************)
\* `tissue pause' on a repository (pauseOperation)
Pause ==
    /\ ops < MaxOps
    /\ pump' = [pump EXCEPT !.state = "PAUSED_TRIAGE"]
    /\ ops' = ops + 1
    /\ UNCHANGED <<issue, waiting, link, items, flight, faults>>

\* `tissue resume' (unpauseTriage): IDLE and the counters reset, whatever the state
Unpause ==
    /\ ops < MaxOps
    /\ pump' = [state |-> "IDLE", failures |-> 0, later |-> FALSE]
    /\ ops' = ops + 1
    /\ UNCHANGED <<issue, waiting, link, items, flight, faults>>

\* triage_next_attempt_at passes.
BackoffEnds ==
    /\ pump.later
    /\ pump' = [pump EXCEPT !.later = FALSE]
    /\ UNCHANGED <<issue, waiting, link, items, flight, ops, faults>>

Crash(r) ==
    /\ flight[r].step # "idle"
    /\ faults < MaxFaults
    /\ flight' = [flight EXCEPT ![r] = Grounded]
    /\ faults' = faults + 1
    /\ UNCHANGED <<rows, ops>>

-----------------------------------------------------------------------------
Flight(r) ==
    \/ Recover(r)
    \/ FailStale(r)
    \/ Park(r)
    \/ Begin(r)
    \/ \E d \in Dispositions, c \in Issues \cup {None} : Apply(r, d, c)
    \/ Fail(r)

Next ==
    \/ \E i \in Issues : Discover(i)
    \/ Look
    \/ \E r \in Commands : List(r)
    \/ \E r \in Runners : Flight(r) \/ Crash(r)
    \/ Pause
    \/ Unpause
    \/ BackoffEnds

Spec == Init /\ [][Next]_vars

\* The daemon looks in every pass, a flight ends (the prompt has a time limit),
\* and time passes.
LiveSpec ==
    /\ Spec
    /\ WF_vars(Look)
    /\ \A r \in Runners : WF_vars(Flight(r))
    /\ WF_vars(BackoffEnds)

-----------------------------------------------------------------------------
(***************************************************************************)
(* No resolution before READY, and none without it: the work items are     *)
(* those of the issues that are READY, one each, whichever of several      *)
(* flights disposed of the issue and whatever replies came late; and an    *)
(* issue is grouped only onto an item that exists, so its events are never *)
(* addressed to nothing.                                                   *)
(***************************************************************************)
ItemsAreReadyIssues ==
    /\ items = {i \in Issues : issue[i] = "READY"}
    /\ \A i \in items : link[i] = i
    /\ \A i \in Issues : link[i] \in items \cup {None}

(***************************************************************************)
(* A disposition is given once: the late reply of a flight that was        *)
(* already written off cannot change what a later flight decided.          *)
(***************************************************************************)
DisposedOnce ==
    [][\A i \in Issues : issue[i] \in Dispositions => issue'[i] = issue[i]]_issue

(***************************************************************************)
(* An issue that waits is disposed of, or the pump is handed to an         *)
(* operator: crashes, flights written off while they run and unpauses      *)
(* during a flight do not leave the repository without triage.             *)
(***************************************************************************)
PendingIsSettled ==
    \A i \in Issues : issue[i] = "TRIAGE_PENDING"
        ~> (issue[i] \in Dispositions \/ pump.state = "PAUSED_TRIAGE")

(***************************************************************************)
(* triage.ts:25-26 and the transition table: a paused pump stays paused    *)
(* until an operator resumes it.                                           *)
(***************************************************************************)
PausedUntilResumed ==
    [][pump.state = "PAUSED_TRIAGE" => pump'.state = "PAUSED_TRIAGE" \/ ops' > ops]_vars

(***************************************************************************)
(* triage.ts:3-4: one flight at a time.                                    *)
(***************************************************************************)
OneFlight ==
    \A r, s \in Runners : flight[r].step = "prompt" /\ flight[s].step = "prompt" => r = s
=============================================================================
