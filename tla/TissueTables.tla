---------------------------- MODULE TissueTables ----------------------------
(***************************************************************************)
(* The legal-transition tables of src/src/domain/state-machine.ts and the  *)
(* predicates the controller evaluates on them.  A table is the set of     *)
(* triples <<from, event, to>> its rules list; `IsLegal' is the gate that  *)
(* recordTransition puts in front of every audit row.                      *)
(*                                                                         *)
(* The gate looks only at the triple it is given.  Whether `from' is what  *)
(* the row really holds is up to the caller, and that is what the modules  *)
(* that use these tables are about.                                        *)
(***************************************************************************)

\* One TransitionRule: the triples of a rule with several events.
Rule(from, to, events) == {<<from, e, to>> : e \in events}

WorkItemStates ==
  {"READY", "QUEUED", "RUNNING", "WAITING", "COMPLETED", "PAUSED_WORK",
   "AWAITING_DECISION", "DEFERRED", "FAILED_HOLD", "FAILED", "REJECTED"}

HoldEvents == {"wedge", "drift", "rogue_effect", "irreconcilable_identity"}

WorkItemTransitions ==
  UNION {
    Rule("READY", "QUEUED", {"enqueue", "queue"}),
    Rule("QUEUED", "RUNNING", {"claim"}),
    Rule("QUEUED", "READY", {"dequeue", "release"}),
    Rule("RUNNING", "WAITING", {"await_review", "needs_review"}),
    Rule("WAITING", "RUNNING", {"resume", "timeout_retry"}),
    Rule("RUNNING", "COMPLETED", {"completed", "completion"}),
    Rule("READY", "PAUSED_WORK", {"pause_work"}),
    Rule("QUEUED", "PAUSED_WORK", {"pause_work"}),
    Rule("RUNNING", "PAUSED_WORK", {"pause_work"}),
    Rule("WAITING", "PAUSED_WORK", {"pause_work"}),
    Rule("PAUSED_WORK", "QUEUED", {"resume_work"}),
    Rule("RUNNING", "AWAITING_DECISION", {"await_decision"}),
    Rule("AWAITING_DECISION", "RUNNING", {"decision_received"}),
    Rule("RUNNING", "DEFERRED", {"defer"}),
    Rule("WAITING", "DEFERRED", {"defer"}),
    Rule("DEFERRED", "READY", {"dependency_completed"}),
    Rule("RUNNING", "FAILED_HOLD", HoldEvents),
    Rule("WAITING", "FAILED_HOLD", HoldEvents),
    Rule("FAILED_HOLD", "FAILED", {"cleanup"}),
    Rule("RUNNING", "FAILED", {"failed"}),
    Rule("QUEUED", "FAILED", {"failed"}),
    Rule("READY", "REJECTED", {"rejected"}),
    Rule("QUEUED", "REJECTED", {"rejected"}),
    Rule("RUNNING", "REJECTED", {"rejected"}),
    Rule("WAITING", "REJECTED", {"rejected"}) }

\* isLegalTransition: the triple is one of the table's.
IsLegal(table, from, event, to) == <<from, event, to>> \in table

\* isTerminalState: no rule of the table leaves the state.
IsTerminal(table, s) == \A t \in table : t[1] # s

\* ARTIFACT_OWNING_WORK_ITEM_STATES: the states the drift scan looks at.
ArtifactOwning ==
  {"QUEUED", "RUNNING", "WAITING", "AWAITING_DECISION", "PAUSED_WORK",
   "FAILED_HOLD"}
=============================================================================
