----------------------------- MODULE WorkQueue -----------------------------
(***************************************************************************)
(* The life of the work_items rows: every statement of the controller that *)
(* writes work_items.state, the processes that run those statements, and   *)
(* the dependency rows and pull requests they depend on.                   *)
(*                                                                         *)
(* Three kinds of process share one SQLite file:                           *)
(*   Daemon       `tissue daemon': a startup reconcile pass, then passes of *)
(*                triage, promote, claim, relay, effects, in that order;   *)
(*   Reconcilers  `tissue reconcile' / `tissue tick' run from a shell while *)
(*                the daemon is up;                                        *)
(*   Operators    `tissue pause | resume | cleanup'.                       *)
(*                                                                         *)
(* A write transaction (BEGIN IMMEDIATE) is one step.  A row read outside  *)
(* the transaction that acts on it is a step of its own: `held[p]' is what *)
(* process p read and has not yet acted on.                                *)
(***************************************************************************)
EXTENDS TissueTables, Naturals, FiniteSets

CONSTANTS
  WorkItems,     \* identities a work_items row can have
  Issues,        \* issues a resolution envelope may name as a dependency
  Repos, RepoOf, \* managed repositories, and the one each item belongs to
  Rank,          \* claim order of the items: priority DESC, created_at ASC
  GlobalLimit,   \* maxConcurrentGlobal
  RepoLimit,     \* max_concurrent_per_repo of each repository
  ClaimWindow,   \* the LIMIT of the candidate query (100 in the code)
  AutoMerge,     \* repositories configured with auto_merge
  MayConclude,   \* outcomes the agent of an item may report, `deferred' aside
  MayDependOn,   \* dependencies that agent may name when it defers
  Daemon, Operators, Reconcilers,
  None,          \* a process that holds no unacted-on read
  MaxFaults      \* bound on crashes and failed external calls

Targets == WorkItems \cup Issues
Procs == {Daemon} \cup Operators \cup Reconcilers

\* Every outcome of a resolution envelope but `deferred'.
Outcomes ==
  {"awaiting_review", "needs_changes", "awaiting_decision", "completed"}

ASSUME ItemsAssumption ==
  /\ IsFiniteSet(WorkItems)
  /\ RepoOf \in [WorkItems -> Repos]
  /\ Rank \in [WorkItems -> Nat]
  /\ MayConclude \in [WorkItems -> SUBSET Outcomes]
  /\ MayDependOn \in [WorkItems -> SUBSET Targets]

ASSUME LimitsAssumption ==
  /\ GlobalLimit \in Nat
  /\ RepoLimit \in [Repos -> Nat]
  /\ ClaimWindow \in Nat
  /\ AutoMerge \subseteq Repos
  /\ MaxFaults \in Nat

ASSUME ProcessesAssumption == Daemon \notin Operators \cup Reconcilers

VARIABLES
  state,     \* work_items.state, "ABSENT" before the row is inserted
  dep,       \* work_item_dependencies: dep[w][t] for dependent w, target t
  assembly,  \* branch, worktree and session of an item
  pr,        \* the item's pull request and its merge/monitor effect
  ready,     \* repositories whose persisted capability_state is 'ready'
  phase,     \* where the daemon is in its pass
  gated,     \* the daemon saw OpenCode unavailable at the start of the pass
  worklist,  \* rows the daemon listed and has still to visit in this phase
  held,      \* per process: a row read outside the transaction that uses it
  faults     \* crashes and failures so far

rows == <<state, dep, assembly, pr>>
pass == <<phase, gated, worklist>>
vars == <<rows, pass, ready, held, faults>>

-----------------------------------------------------------------------------
States == WorkItemStates \cup {"ABSENT"}

CapacityHolding == {"RUNNING", "WAITING", "AWAITING_DECISION"}

Phases == {"startup", "triage", "claim", "relay", "effects"}

\* "partial": the branch and worktree exist, the session does not.
Assemblies == {"none", "partial", "session"}

\* "requested": push and pr effects are pending.  "open", "merged" and
\* "closed": GitHub's view while the merge/monitor effect is pending.
\* "settled" and "abandoned": that effect is DONE after a merge or a close.
\* "stranded": the effect that should go on is one that no pass will run
\* again: EXECUTING, out of attempts, or DONE without its successor.
PrStates == {"none", "requested", "open", "merged", "closed",
             "settled", "abandoned", "stranded"}

PendingEffect == {"requested", "open", "merged", "closed"}

Ops == {"promote", "ensure", "mint", "relay", "wedge", "drift",
        "pause", "resume", "cleanup"}

Reading(op, items, seen) == [op |-> op, items |-> items, seen |-> seen]

Idle(p) == held[p] = None

\* Process p holds a read for operation op on item w.
Holds(p, op, w) == held[p] # None /\ held[p].op = op /\ w \in held[p].items

Release(p) == held' = [held EXCEPT ![p] = None]

\* The startup reconcile pass of the daemon, or a `tissue reconcile' process.
Reconciling(p) == p \in Reconcilers \/ (p = Daemon /\ phase = "startup")

Init ==
  /\ state = [w \in WorkItems |-> "ABSENT"]
  /\ dep = [w \in WorkItems |-> [t \in Targets |-> "none"]]
  /\ assembly = [w \in WorkItems |-> "none"]
  /\ pr = [w \in WorkItems |-> "none"]
  /\ ready = {}
  /\ phase = "startup"
  /\ gated = FALSE
  /\ worklist = {}
  /\ held = [p \in Procs |-> None]
  /\ faults = 0

-----------------------------------------------------------------------------
(***************************************************************************)
(* The daemon's pass: admission, promotion and the claim.                  *)
(***************************************************************************)

\* The startup pass ends and the loop starts.  The gate is read once a pass,
\* from the probe before it.
BeginPass ==
  /\ phase = "startup"
  /\ Idle(Daemon)
  /\ phase' = "triage"
  /\ gated' \in BOOLEAN
  /\ UNCHANGED <<rows, worklist, ready, held, faults>>

\* Mutant: the row of an issue that is triaged again is written over.
AdmitAgain(w) ==
  /\ phase = "triage" /\ ~gated
  /\ Idle(Daemon)
  /\ state[w] \in {"ABSENT", "COMPLETED", "FAILED"}
  /\ RepoOf[w] \in ready
  /\ state' = [state EXCEPT ![w] = "READY"]
  /\ UNCHANGED <<dep, assembly, pr, pass, ready, held, faults>>

\* Triage found an issue READY: the item's row is inserted.
Admit(w) ==
  /\ phase = "triage" /\ ~gated
  /\ Idle(Daemon)
  /\ state[w] = "ABSENT"
  /\ RepoOf[w] \in ready
  /\ state' = [state EXCEPT ![w] = "READY"]
  /\ UNCHANGED <<dep, assembly, pr, pass, ready, held, faults>>

\* promoteReadyWorkItems lists the READY rows outside its transaction.
PromoteList ==
  LET S == {w \in WorkItems : state[w] = "READY"}
  IN  /\ phase = "triage"
      /\ Idle(Daemon)
      /\ phase' = "claim"
      /\ held' = [held EXCEPT ![Daemon] =
                    IF S = {} THEN None ELSE Reading("promote", S, "READY")]
      /\ UNCHANGED <<rows, gated, worklist, ready, faults>>

\* ... and queues all of them whose repository is ready, without looking at
\* their state again.
PromoteWrite ==
  /\ ~Idle(Daemon) /\ held[Daemon].op = "promote"
  /\ state' = [w \in WorkItems |->
                 IF w \in held[Daemon].items /\ RepoOf[w] \in ready
                   THEN "QUEUED" ELSE state[w]]
  /\ Release(Daemon)
  /\ UNCHANGED <<dep, assembly, pr, pass, ready, faults>>

Candidates == {w \in WorkItems : state[w] = "QUEUED" /\ RepoOf[w] \in ready}

Holders == {w \in WorkItems : state[w] \in CapacityHolding}

HoldersIn(r) == {w \in Holders : RepoOf[w] = r}

\* Mutant: a limit still admits one more when it is reached.
FitsOneMore(w) ==
  /\ Cardinality(HoldersIn(RepoOf[w])) <= RepoLimit[RepoOf[w]]
  /\ Cardinality(Holders) <= GlobalLimit

Fits(w) ==
  /\ Cardinality(HoldersIn(RepoOf[w])) < RepoLimit[RepoOf[w]]
  /\ Cardinality(Holders) < GlobalLimit

\* The candidate query: the first ClaimWindow candidates in claim order
\* (every such set when several tie at the edge).
Windows ==
  {S \in SUBSET Candidates :
     /\ S = Candidates \/ Cardinality(S) = ClaimWindow
     /\ Cardinality(S) <= ClaimWindow
     /\ \A w \in S, v \in Candidates \ S : Rank[w] <= Rank[v]}

\* Mutant: the head of the window is claimed whether it fits or not.
FirstOfWindow(w, S) == w \in S /\ \A v \in S : Rank[w] <= Rank[v]

\* The first candidate of S, in claim order, that fits.
FirstFit(w, S) ==
  /\ w \in S
  /\ Fits(w)
  /\ \A v \in S : Fits(v) => Rank[w] <= Rank[v]

\* claimNextWorkItem, one transaction; the daemon goes on to assemble w.
Claim(w) ==
  /\ phase = "claim" /\ ~gated
  /\ Idle(Daemon)
  /\ \E S \in Windows : FirstFit(w, S)
  /\ state' = [state EXCEPT ![w] = "RUNNING"]
  /\ held' = [held EXCEPT ![Daemon] = Reading("ensure", {w}, "RUNNING")]
  /\ UNCHANGED <<dep, assembly, pr, pass, ready, faults>>

\* Mutant: the claim loop may end while a candidate still fits.
ClaimsEndEarly ==
  /\ phase = "claim"
  /\ Idle(Daemon)
  /\ phase' = "relay"
  /\ worklist' = IF gated THEN {}
                 ELSE {w \in WorkItems : state[w] \in {"RUNNING", "WAITING"}}
  /\ UNCHANGED <<rows, gated, ready, held, faults>>

\* The claim loop ends: gated, nothing in the window fits, or the claim threw
\* (SQLITE_BUSY).  The relay loop lists the rows it will visit.
ClaimsEnd ==
  /\ phase = "claim"
  /\ Idle(Daemon)
  /\ \/ gated /\ UNCHANGED faults
     \/ /\ \E S \in Windows : \A w \in S : ~Fits(w)
        /\ UNCHANGED faults
     \/ faults < MaxFaults /\ faults' = faults + 1
  /\ phase' = "relay"
  /\ worklist' = IF gated THEN {}
                 ELSE {w \in WorkItems : state[w] \in {"RUNNING", "WAITING"}}
  /\ UNCHANGED <<rows, gated, ready, held>>

-----------------------------------------------------------------------------
(***************************************************************************)
(* ensureResolutionAssembly, after a claim.                                *)
(***************************************************************************)

\* An active resolution session is reused.
EnsureExisting(w) ==
  /\ Holds(Daemon, "ensure", w)
  /\ assembly[w] = "session"
  /\ Release(Daemon)
  /\ UNCHANGED <<rows, pass, ready, faults>>

\* createWorktree, which refuses a branch that already exists.
EnsureWorktree(w) ==
  /\ Holds(Daemon, "ensure", w)
  /\ assembly[w] = "none"
  /\ assembly' = [assembly EXCEPT ![w] = "partial"]
  /\ held' = [held EXCEPT ![Daemon].op = "mint"]
  /\ UNCHANGED <<state, dep, pr, pass, ready, faults>>

\* createRealSession.
EnsureSession(w) ==
  /\ Holds(Daemon, "mint", w)
  /\ assembly' = [assembly EXCEPT ![w] = "session"]
  /\ Release(Daemon)
  /\ UNCHANGED <<state, dep, pr, pass, ready, faults>>

\* The assembly throws: always when the branch is left from an earlier try,
\* else because git or OpenCode failed.  The claim is not undone.
EnsureFails(w) ==
  /\ \/ /\ Holds(Daemon, "ensure", w) /\ assembly[w] = "partial"
        /\ UNCHANGED faults
     \/ /\ Holds(Daemon, "mint", w) \/ Holds(Daemon, "ensure", w)
        /\ faults < MaxFaults /\ faults' = faults + 1
  /\ Release(Daemon)
  /\ UNCHANGED <<rows, pass, ready>>

-----------------------------------------------------------------------------
(***************************************************************************)
(* The relay: one visit to each listed row that has a session.             *)
(***************************************************************************)

\* Mutant: the visit does not look for an active session.
RelayBeginBlind(w) ==
  /\ phase = "relay"
  /\ Idle(Daemon)
  /\ w \in worklist
  /\ RepoOf[w] \in ready
  /\ worklist' = worklist \ {w}
  /\ held' = [held EXCEPT ![Daemon] = Reading("relay", {w}, state[w])]
  /\ UNCHANGED <<rows, phase, gated, ready, faults>>

\* The visit starts; `dispatch' readiness is asserted first.
RelayBegin(w) ==
  /\ phase = "relay"
  /\ Idle(Daemon)
  /\ w \in worklist
  /\ RepoOf[w] \in ready
  /\ assembly[w] = "session"
  /\ worklist' = worklist \ {w}
  /\ held' = [held EXCEPT ![Daemon] = Reading("relay", {w}, state[w])]
  /\ UNCHANGED <<rows, phase, gated, ready, faults>>

\* No dispatch, no session, nothing pending, the session busy.
RelaySkip(w) ==
  /\ phase = "relay"
  /\ Idle(Daemon)
  /\ w \in worklist
  /\ worklist' = worklist \ {w}
  /\ UNCHANGED <<rows, phase, gated, ready, held, faults>>

OutcomeTo ==
  [awaiting_review |-> "WAITING", needs_changes |-> "RUNNING",
   awaiting_decision |-> "AWAITING_DECISION"]

OutcomeEvent ==
  [awaiting_review |-> "await_review", needs_changes |-> "resume",
   awaiting_decision |-> "await_decision"]

\* applyResolutionEnvelope for the outcomes without a dependency: the state
\* is read inside the transaction, an illegal outcome throws.
ApplyOutcome(w, o) ==
  /\ Holds(Daemon, "relay", w)
  /\ o \in MayConclude[w] \ {"completed"}
  /\ IsLegal(WorkItemTransitions, state[w], OutcomeEvent[o], OutcomeTo[o])
  /\ state' = [state EXCEPT ![w] = OutcomeTo[o]]
  /\ Release(Daemon)
  /\ UNCHANGED <<dep, assembly, pr, pass, ready, faults>>

\* t already waits for w along ACTIVE rows: every set that holds t and is
\* closed under "waits for" also holds w (the visit() of addWorkItemDependency).
WaitsFor(t, w) ==
  \A S \in SUBSET Targets :
    (/\ t \in S
     /\ \A x \in S \cap WorkItems, y \in Targets :
          dep[x][y] = "ACTIVE" => y \in S)
    => w \in S

\* Mutant: looks for a circle of two items only.
DeferLooksOneStep(w, t) ==
  /\ Holds(Daemon, "relay", w)
  /\ IsLegal(WorkItemTransitions, state[w], "defer", "DEFERRED")
  /\ t \in MayDependOn[w]
  /\ t # w
  /\ t \in WorkItems => state[t] # "ABSENT" /\ dep[t][w] # "ACTIVE"
  /\ dep[w][t] = "none"
  /\ dep' = [dep EXCEPT ![w][t] = "ACTIVE"]
  /\ state' = [state EXCEPT ![w] = "DEFERRED"]
  /\ Release(Daemon)
  /\ UNCHANGED <<assembly, pr, pass, ready, faults>>

\* Outcome `deferred': one dependency row, then the state.
ApplyDefer(w, t) ==
  /\ Holds(Daemon, "relay", w)
  /\ IsLegal(WorkItemTransitions, state[w], "defer", "DEFERRED")
  /\ t \in MayDependOn[w]
  /\ t # w
  /\ t \in WorkItems => state[t] # "ABSENT"
  /\ ~WaitsFor(t, w)
  /\ dep[w][t] = "none"                     \* UNIQUE(dependent, dependency)
  /\ dep' = [dep EXCEPT ![w][t] = "ACTIVE"]
  /\ state' = [state EXCEPT ![w] = "DEFERRED"]
  /\ Release(Daemon)
  /\ UNCHANGED <<assembly, pr, pass, ready, faults>>

\* Mutant: the agent's word completes the item.
ApplyCompletedAtOnce(w) ==
  /\ Holds(Daemon, "relay", w)
  /\ "completed" \in MayConclude[w]
  /\ state' = [state EXCEPT ![w] = "COMPLETED"]
  /\ Release(Daemon)
  /\ UNCHANGED <<dep, assembly, pr, pass, ready, faults>>

\* Outcome `completed' inserts the push and pr effects if absent and leaves
\* the state alone, whatever it has become meanwhile.
ApplyCompleted(w) ==
  /\ Holds(Daemon, "relay", w)
  /\ "completed" \in MayConclude[w]
  /\ pr' = [pr EXCEPT ![w] = IF @ = "none" THEN "requested" ELSE @]
  /\ Release(Daemon)
  /\ UNCHANGED <<state, dep, assembly, pass, ready, faults>>

\* The turn is still running, was recycled, or its envelope threw.
RelayEnd(w) ==
  /\ Holds(Daemon, "relay", w)
  /\ Release(Daemon)
  /\ UNCHANGED <<rows, pass, ready, faults>>

RelaysEnd ==
  /\ phase = "relay"
  /\ Idle(Daemon)
  /\ worklist = {}
  /\ phase' = "effects"
  /\ worklist' = {w \in WorkItems : pr[w] \in PendingEffect}
  /\ UNCHANGED <<rows, gated, ready, held, faults>>

-----------------------------------------------------------------------------
(***************************************************************************)
(* The effect executor and GitHub, as far as they reach the work items.    *)
(***************************************************************************)

\* p may run w's effect: the daemon visits its list and asserts readiness,
\* the reconcile pass does not.
Executes(p, w) ==
  /\ Idle(p)
  /\ \/ Reconciling(p) /\ UNCHANGED worklist
     \/ /\ p = Daemon /\ phase = "effects"
        /\ w \in worklist
        /\ RepoOf[w] \in ready
        /\ worklist' = worklist \ {w}

\* push, pr and adoption of the pull request, ending with its merge/monitor
\* effect inserted.
OpenPr(p, w) ==
  /\ Executes(p, w)
  /\ pr[w] = "requested"
  /\ pr' = [pr EXCEPT ![w] = "open"]
  /\ UNCHANGED <<state, dep, assembly, phase, gated, ready, held, faults>>

\* runMerge holds for review, checks or policy: RUNNING becomes WAITING.
HoldWaiting(p, w) ==
  /\ Executes(p, w)
  /\ pr[w] = "open"
  /\ RepoOf[w] \in AutoMerge
  /\ IsLegal(WorkItemTransitions, state[w], "await_review", "WAITING")
  /\ state' = [state EXCEPT ![w] = "WAITING"]
  /\ UNCHANGED <<dep, assembly, pr, phase, gated, ready, held, faults>>

\* Mutants of the completion: a merge whose item cannot complete is left
\* alone; the dependents are not released.
Completed(w) ==
  /\ pr' = [pr EXCEPT ![w] = "settled"]
  /\ state' = [state EXCEPT ![w] = "COMPLETED"]

\* Mutant: an item that cannot complete keeps its dependents waiting.
CompleteOnlyLegal(p, w) ==
  /\ Executes(p, w)
  /\ pr[w] = "merged"
  /\ state[w] \in {"RUNNING", "WAITING"}
  /\ Completed(w)
  /\ dep' = [v \in WorkItems |->
               [dep[v] EXCEPT ![w] = IF @ = "ACTIVE" THEN "SETTLED" ELSE @]]
  /\ UNCHANGED <<assembly, phase, gated, ready, held, faults>>

\* Mutant: the rows settle, the dependents stay DEFERRED.
CompleteUnreleased(p, w) ==
  /\ Executes(p, w)
  /\ pr[w] = "merged"
  /\ Completed(w)
  /\ dep' = [v \in WorkItems |->
               [dep[v] EXCEPT ![w] = IF @ = "ACTIVE" THEN "SETTLED" ELSE @]]
  /\ UNCHANGED <<assembly, phase, gated, ready, held, faults>>

\* completeMergedWorkItem, one transaction: the effect is DONE, the item
\* completes if its state allows it, every ACTIVE row that names it settles,
\* and the dependents that are DEFERRED become READY.
CompleteMerged(p, w) ==
  LET from == IF state[w] = "WAITING" THEN "RUNNING" ELSE state[w]
      completes == IsLegal(WorkItemTransitions, from, "completed", "COMPLETED")
  IN  /\ Executes(p, w)
      /\ pr[w] = "merged"
      /\ pr' = [pr EXCEPT ![w] = "settled"]
      /\ state' = [v \in WorkItems |->
                     IF v = w /\ completes THEN "COMPLETED"
                     ELSE IF dep[v][w] = "ACTIVE" /\ state[v] = "DEFERRED"
                       THEN "READY" ELSE state[v]]
      /\ dep' = [v \in WorkItems |->
                   [dep[v] EXCEPT ![w] = IF @ = "ACTIVE" THEN "SETTLED" ELSE @]]
      /\ UNCHANGED <<assembly, phase, gated, ready, held, faults>>

\* Mutant: a close releases the dependents, as a merge does.
AbandonReleases(p, w) ==
  /\ Executes(p, w)
  /\ pr[w] = "closed"
  /\ pr' = [pr EXCEPT ![w] = "abandoned"]
  /\ state' = [v \in WorkItems |->
                 IF dep[v][w] = "ACTIVE" /\ state[v] = "DEFERRED"
                   THEN "READY" ELSE state[v]]
  /\ UNCHANGED <<dep, assembly, phase, gated, ready, held, faults>>

\* The pull request was closed: the effect is DONE, the item is left alone.
Abandon(p, w) ==
  /\ Executes(p, w)
  /\ pr[w] = "closed"
  /\ pr' = [pr EXCEPT ![w] = "abandoned"]
  /\ UNCHANGED <<state, dep, assembly, phase, gated, ready, held, faults>>

\* The daemon's visit requeues the effect to wait.
EffectWaits(w) ==
  /\ Executes(Daemon, w)
  /\ phase = "effects"
  /\ pr[w] \in {"requested", "open"}
  /\ UNCHANGED <<rows, phase, gated, ready, held, faults>>

\* The effect of w will never be run again.
Strands(w) ==
  /\ pr[w] \in PendingEffect
  /\ pr' = [pr EXCEPT ![w] = "stranded"]

\* git or GitHub fails: the effect is FAILED and tried again in a later pass,
\* unless this was the last of its attempts.
EffectFails(w) ==
  /\ Executes(Daemon, w)
  /\ phase = "effects"
  /\ faults < MaxFaults /\ faults' = faults + 1
  /\ Strands(w) \/ UNCHANGED pr
  /\ UNCHANGED <<state, dep, assembly, phase, gated, ready, held>>

\* p is between the EXECUTING mark of w's effect and the next one.  Pushes,
\* pull requests and merges are marked, monitors are not.
MidEffect(p, w) ==
  /\ Idle(p)
  /\ \/ Reconciling(p)
     \/ p = Daemon /\ phase = "effects" /\ w \in worklist /\ RepoOf[w] \in ready
  /\ \/ pr[w] = "requested"
     \/ pr[w] \in {"open", "merged"} /\ RepoOf[w] \in AutoMerge

\* A reconcile command is killed there.
KilledMidEffect(p, w) ==
  /\ p \in Reconcilers
  /\ MidEffect(p, w)
  /\ Strands(w)
  /\ UNCHANGED <<state, dep, assembly, pass, ready, held, faults>>

\* The pass ends; a listed effect of a repository that is not ready throws
\* and ends it early.
EndPass ==
  /\ phase = "effects"
  /\ Idle(Daemon)
  /\ worklist = {} \/ \E w \in worklist : RepoOf[w] \notin ready
  /\ phase' = "triage"
  /\ gated' \in BOOLEAN
  /\ worklist' = {}
  /\ UNCHANGED <<rows, ready, held, faults>>

\* GitHub: the pull request is merged (by the controller or by a human) or
\* closed.
GitHubMerges(w) ==
  /\ pr[w] = "open"
  /\ pr' = [pr EXCEPT ![w] = "merged"]
  /\ UNCHANGED <<state, dep, assembly, pass, ready, held, faults>>

GitHubCloses(w) ==
  /\ pr[w] = "open"
  /\ pr' = [pr EXCEPT ![w] = "closed"]
  /\ UNCHANGED <<state, dep, assembly, pass, ready, held, faults>>

-----------------------------------------------------------------------------
(***************************************************************************)
(* Holds, the reconcile pass and the operator: a row is read, and written  *)
(* in a later transaction on the strength of what was read.                *)
(***************************************************************************)

\* What verifyRepository may say of r: whether gh is authenticated, the checkout
\* and its remotes are those configured, Issues are enabled, the base branch is
\* the default one and the push remote takes pushes is the world's choice.
Verdicts == {"ready", "not_ready", "unknown"}

\* persistRepositoryCapability: the last verdict stands, whoever wrote it.
Persist(r, verdict) ==
  ready' = IF verdict = "ready" THEN ready \cup {r} ELSE ready \ {r}

\* P1 verifies a repository and persists the verdict, "unknown" when the
\* verification throws.
VerifyRepo(p, r) ==
  /\ Reconciling(p)
  /\ Idle(p)
  /\ \E verdict \in Verdicts : Persist(r, verdict)
  /\ UNCHANGED <<rows, pass, held, faults>>

\* Process p reads w for op; `event' and `to' are what the write will record.
ReadRow(p, op, w, event, to) ==
  /\ IsLegal(WorkItemTransitions, state[w], event, to)
  /\ held' = [held EXCEPT ![p] = Reading(op, {w}, state[w])]
  /\ UNCHANGED <<rows, pass, ready, faults>>

\* The write: recordTransition gates what was read, setWorkItemState
\* overwrites what is there.
WriteRow(p, op, w, event, to) ==
  /\ Holds(p, op, w)
  /\ IsLegal(WorkItemTransitions, held[p].seen, event, to)
  /\ state' = [state EXCEPT ![w] = to]
  /\ Release(p)
  /\ UNCHANGED <<dep, assembly, pr, pass, ready, faults>>

\* holdWorkItem in the relay (session missing, or no reply for too long).
RelayWedgeRead(w) ==
  /\ Holds(Daemon, "relay", w)
  /\ ReadRow(Daemon, "wedge", w, "wedge", "FAILED_HOLD")

\* applySessionCensusRecovery in the reconcile pass.
CensusWedgeRead(p, w) ==
  /\ Reconciling(p) /\ Idle(p)
  /\ assembly[w] = "session"
  /\ ReadRow(p, "wedge", w, "wedge", "FAILED_HOLD")

WedgeWrite(p, w) == WriteRow(p, "wedge", w, "wedge", "FAILED_HOLD")

\* scanAndAdoptDrift: the row is read, GitHub and git are scanned, and an
\* unexpected artifact puts the item on hold.
DriftRead(p, w) ==
  /\ Reconciling(p) /\ Idle(p)
  /\ state[w] \in ArtifactOwning
  /\ ReadRow(p, "drift", w, "drift", "FAILED_HOLD")

DriftWrite(p, w) == WriteRow(p, "drift", w, "drift", "FAILED_HOLD")

\* pauseOperation, resumeOperation and cleanupOperation.
PauseRead(p, w) ==
  /\ p \in Operators /\ Idle(p)
  /\ ReadRow(p, "pause", w, "pause_work", "PAUSED_WORK")

PauseWrite(p, w) == WriteRow(p, "pause", w, "pause_work", "PAUSED_WORK")

ResumeRead(p, w) ==
  /\ p \in Operators /\ Idle(p)
  /\ ReadRow(p, "resume", w, "resume_work", "QUEUED")

ResumeWrite(p, w) == WriteRow(p, "resume", w, "resume_work", "QUEUED")

CleanupRead(p, w) ==
  /\ p \in Operators /\ Idle(p)
  /\ ReadRow(p, "cleanup", w, "cleanup", "FAILED")

CleanupWrite(p, w) == WriteRow(p, "cleanup", w, "cleanup", "FAILED")

\* The scan found nothing, the worktree could not be removed, or the shell
\* command was killed: what was read is dropped.
GiveUp(p) ==
  /\ ~Idle(p)
  /\ p # Daemon \/ held[p].op = "drift"
  /\ Release(p)
  /\ UNCHANGED <<rows, pass, ready, faults>>

\* The daemon dies and s6 starts it again; only the database survives.
Crash ==
  /\ \/ UNCHANGED pr
     \/ \E w \in WorkItems : MidEffect(Daemon, w) /\ Strands(w)
  /\ faults < MaxFaults
  /\ faults' = faults + 1
  /\ phase' = "startup"
  /\ gated' = FALSE
  /\ worklist' = {}
  /\ Release(Daemon)
  /\ UNCHANGED <<state, dep, assembly, ready>>

-----------------------------------------------------------------------------
Pass ==
  \/ BeginPass \/ PromoteList \/ PromoteWrite \/ ClaimsEnd
  \/ RelaysEnd \/ EndPass
  \/ \E w \in WorkItems :
       \/ Admit(w) \/ Claim(w)
       \/ EnsureExisting(w) \/ EnsureWorktree(w) \/ EnsureSession(w)
       \/ EnsureFails(w)
       \/ RelayBegin(w) \/ RelaySkip(w) \/ RelayEnd(w) \/ RelayWedgeRead(w)
       \/ \E o \in Outcomes : ApplyOutcome(w, o)
       \/ \E t \in Targets : ApplyDefer(w, t)
       \/ ApplyCompleted(w)
       \/ EffectWaits(w) \/ EffectFails(w)

Executor(p, w) ==
  \/ OpenPr(p, w) \/ HoldWaiting(p, w) \/ CompleteMerged(p, w)
  \/ Abandon(p, w)

Reconcile(p, w) ==
  \/ CensusWedgeRead(p, w) \/ WedgeWrite(p, w)
  \/ DriftRead(p, w) \/ DriftWrite(p, w)

Operate(p, w) ==
  \/ PauseRead(p, w) \/ PauseWrite(p, w)
  \/ ResumeRead(p, w) \/ ResumeWrite(p, w)
  \/ CleanupRead(p, w) \/ CleanupWrite(p, w)

GitHub(w) == GitHubMerges(w) \/ GitHubCloses(w)

Next ==
  \/ Pass
  \/ \E p \in Procs, w \in WorkItems :
       \/ Executor(p, w) \/ KilledMidEffect(p, w)
       \/ Reconcile(p, w) \/ Operate(p, w)
  \/ \E p \in Procs, r \in Repos : VerifyRepo(p, r)
  \/ \E p \in Procs : GiveUp(p)
  \/ \E w \in WorkItems : GitHub(w)
  \/ Crash

Spec == Init /\ [][Next]_vars

\* The daemon's loop keeps going: it takes the next step of its pass, runs the
\* effects it lists, writes what it read.  The startup pass visits each row
\* once, so it comes to an end.  Nothing is assumed of operators, of `tissue
\* reconcile', of GitHub or of the agents.
Fairness ==
  /\ WF_vars(Pass)
  /\ SF_vars(BeginPass)
  /\ \A w \in WorkItems :
       /\ WF_vars(Executor(Daemon, w))
       /\ WF_vars(WedgeWrite(Daemon, w) \/ DriftWrite(Daemon, w))

LiveSpec == Spec /\ Fairness

-----------------------------------------------------------------------------
(***************************************************************************)
(* What must hold.                                                         *)
(***************************************************************************)

\* Type invariant: the columns hold what the schema and the tables allow.
TypeOK ==
  /\ state \in [WorkItems -> States]
  /\ dep \in [WorkItems -> [Targets -> {"none", "ACTIVE", "SETTLED"}]]
  /\ assembly \in [WorkItems -> Assemblies]
  /\ pr \in [WorkItems -> PrStates]
  /\ ready \in SUBSET Repos
  /\ phase \in Phases
  /\ gated \in BOOLEAN
  /\ worklist \in SUBSET WorkItems
  /\ held \in [Procs ->
                 {None} \cup [op : Ops, items : SUBSET WorkItems, seen : States]]
  /\ faults \in 0 .. MaxFaults

\* Whatever the processes interleave and whatever a stale write overwrites,
\* the items that hold a run slot never exceed the global limit nor the limit
\* of their repository (queue.ts, "Capacity semantics").
CapacityRespected ==
  /\ Cardinality(Holders) <= GlobalLimit
  /\ \A r \in Repos : Cardinality(HoldersIn(r)) <= RepoLimit[r]

\* Only a verified merge completes an item; no envelope, hold or operator does
\* (CONTRACTS.md: "completion remains on the verified push, pull-request,
\* protection, and merge effect path").
CompletedMeansMerged ==
  \A w \in WorkItems : state[w] = "COMPLETED" => pr[w] = "settled"

\* A DEFERRED item always has a row that can still release it: the row is
\* written with the state and settles in the transaction that releases it
\* (addWorkItemDependency, completeMergedWorkItem).
DeferredHasActiveRow ==
  \A w \in WorkItems :
    state[w] = "DEFERRED" => \E t \in Targets : dep[w][t] = "ACTIVE"

\* Items never wait for each other in a circle, however deferrals of
\* different items interleave with releases (addWorkItemDependency's visit).
NoDependencyCycle ==
  \A w \in WorkItems :
    \A t \in Targets : dep[w][t] = "ACTIVE" => ~WaitsFor(t, w)

\* Work that is under way stands on a session: an item whose pull request
\* exists, or that waits for review, a decision or a dependency, has been
\* assembled completely.
WorkHasSession ==
  \A w \in WorkItems :
    \/ pr[w] # "none"
    \/ state[w] \in {"WAITING", "AWAITING_DECISION", "DEFERRED"}
    => assembly[w] = "session"

\* isTerminal: no rule leaves the state.
Terminal == {s \in WorkItemStates : IsTerminal(WorkItemTransitions, s)}

\* Some process is about to act on a read of w that is out of date.
StaleReader(w) ==
  \E p \in Procs :
    held[p] # None /\ w \in held[p].items /\ held[p].seen # state[w]

\* The table has a rule from one state to the other, whatever its trigger.
Rules(from, to) == \E t \in WorkItemTransitions : t[1] = from /\ t[3] = to

\* What a step did to the column is what the audit rows say of it: a row is
\* inserted READY and then moves along the rules of the table, a merge out of
\* WAITING by two of them in one transaction.  Only a write on the
\* strength of a read that is out of date does otherwise (recordTransition is
\* given what was read, setWorkItemState overwrites what is there).
MovesFollowTheTable ==
  [][\A w \in WorkItems :
       state'[w] # state[w] =>
         \/ Rules(state[w], state'[w])
         \/ state[w] = "ABSENT" /\ state'[w] = "READY"
         \/ state[w] = "WAITING" /\ state'[w] = "COMPLETED"
         \/ StaleReader(w)]_vars

\* So a settled item moves again only when some process writes on the strength
\* of a read that is out of date; no transaction that reads what it acts on
\* ever leaves a terminal state.
TerminalMovesOnlyByStaleWrite ==
  [][\A w \in WorkItems :
       state[w] \in Terminal /\ state'[w] # state[w] => StaleReader(w)]_vars

\* Nothing but the merge of a dependency releases a deferred item: not a
\* restart, a reconcile pass, or the release of an unrelated item (README,
\* "restart, elapsed time, reconcile, or generic BLOCKED handling does not
\* release it").
ReleasedOnlyByMerge ==
  [][\A w \in WorkItems :
       state[w] = "DEFERRED" /\ state'[w] = "READY"
       => \E d \in WorkItems :
            dep[w][d] = "ACTIVE" /\ pr[d] = "merged" /\ pr'[d] = "settled"]_vars

\* A terminal item stays terminal (the table has no rule that leaves it, and
\* transitions.ts says the gate and the row "cannot drift apart").
TerminalIsFinal ==
  [][\A w \in WorkItems :
       state[w] \in Terminal => state'[w] = state[w]]_vars

\* A paused item leaves PAUSED_WORK only for the queue, and only because an
\* operator resumed it ("PAUSED_WORK re-enters the QUEUE on resume").
PauseSticks ==
  [][\A w \in WorkItems :
       state[w] = "PAUSED_WORK" /\ state'[w] # "PAUSED_WORK"
       => \E p \in Operators : Holds(p, "resume", w)]_vars

\* A deferred item waits for something that has not happened yet: its
\* dependency is not already complete ("deferred means it is waiting on
\* exactly one recorded issue or WorkItem dependency").
WaitsForTheFuture ==
  \A w, d \in WorkItems :
    state[w] = "DEFERRED" /\ dep[w][d] = "ACTIVE" => state[d] # "COMPLETED"

\* The merge of a dependency reaches the items that wait for it, across crashes
\* of the daemon: once the pull request is merged, the row settles, unless a
\* crash or a failure strands the effect (EffectOutbox is about those).  Every
\* repository has to stay ready, because one that is not ends the daemon's
\* effect loop early for all of them (defaultNormalLoopIo.executeEffects), and
\* operators have to leave the rows alone at last: an item paused and resumed
\* over and over keeps the claim loop from ever ending.
MergeReachesDependents ==
  \A w, d \in WorkItems :
    <>[](ready = Repos /\ \A p \in Operators : Idle(p)) =>
    ((dep[w][d] = "ACTIVE" /\ pr[d] = "merged")
       ~> (dep[w][d] = "SETTLED" \/ pr[d] = "stranded"))

\* A repository that is not ready does not starve the others: a merge of an
\* item whose own repository is ready is noticed (runNormalLoopPass, "one
\* failing repository or effect cannot starve the rest of the loop").
OneRepoStarvesNoOther ==
  \A w \in WorkItems :
    <>[](RepoOf[w] \in ready) => (pr[w] = "merged" ~> pr[w] # "merged")

\* The queue is work-conserving: as long as the daemon is not gated, an item
\* that fits does not wait for ever while the slot it could have stays free.
NoIdleSlot ==
  \A w \in WorkItems :
    <>[](~gated) => []<>(~(w \in Candidates /\ Fits(w)))

\* A slot claimed by an item whose assembly failed is given back
\* (DEFAULT_CLAIM_LEASE_TTL_MS: "A crashed claimant's slot frees after this").
CrashedClaimFrees ==
  \A w \in WorkItems :
    (w \in Holders /\ assembly[w] # "session")
      ~> (w \notin Holders \/ assembly[w] = "session")

\* The states of the rows implement the slot pool.
Slots == INSTANCE SlotPool WITH busy <- Holders
RefinesSlots == Slots!Spec
=============================================================================
