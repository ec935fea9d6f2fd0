# Tissue: a TLA+ model of the controller

Tissue is a controller that turns GitHub issues into agent work: it polls
repositories, triages issues, queues work items, gives each a worktree and an
OpenCode session, relays events to the agent, and pushes, opens and merges pull
requests. All of its state is in one SQLite file. This directory holds TLA+
modules of the controller, the TLC configurations that check them on small
instances, and theorems about them checked by TLAPS. Source paths below are
relative to `src/src/`.

## Inventory

| Component | State it keeps | Operations | Talks to | What is hard | What makes it correct |
|---|---|---|---|---|---|
| Transition tables (`domain/`) | none | `isLegalTransition`, `recordTransition` | every writer of a state column | the gate sees the triple it is given, not the row | a row only moves along the table |
| Work queue (`controller/queue.ts`, `promoteReadyWorkItems`) | `work_items.state` | promote, claim | repositories' readiness, operators | claims race with holds, pauses, merges | capacity, no starvation, no lost slot |
| Dependencies (`db/repositories.ts`) | `work_item_dependencies` | add, settle, list | envelopes, completion of a merge | deferrals interleave with releases | no circle, released by the merge only, never stranded |
| Normal loop (`runtime/daemon.ts`) | the place in a pass | poll, triage, promote, claim, relay, effects | all others | the daemon may die between any two writes | every phase is reached again |
| Inbox relay (`inbox-relay.ts`) | `inbox` rows, nonce | deliver, observe, recycle, hold | OpenCode transcript | lost replies, timeouts, a result read twice | settled on an answer only, an answer applied once, nothing forgotten |
| Envelopes (`domain/envelopes.ts`) | applied envelope ids | apply | dependencies, work items | repeated or late envelopes | idempotent, legal |
| Effect outbox (`effects.ts`) | `side_effects`, `pull_requests` | push, pr, monitor, merge | git, GitHub | crash between mutation and record; two executors | DONE is true, the work goes through its stages |
| Ingest and poll (`ingest.ts`, `poll.ts`, `enqueue.ts`) | issues, pull requests, inbox events, watermark | poll, ingest, enqueue | GitHub | GitHub changes during a poll; polls repeat | what is stored is reported once and reaches its item |
| Triage pump (`triage.ts`) | `triage_state`, failures, backoff, `issues.state` | begin, apply, fail, park, unpause | OpenCode | a command's flight beside the daemon's; late replies | one disposition an issue, every issue settled or parked |
| Reconcile (`reconcile.ts`, `drift.ts`) | capability verdicts, ROGUE rows | phases P0-P6, session census | git, GitHub, OpenCode | runs from a shell beside the daemon | holds what is lost, never what is done |
| Worktrees and sessions (`worktrees.ts`, `opencode-driver.ts`, `terminal-cleanup.ts`) | rows, directories, branches, sessions | assemble, clean up | git, OpenCode | files, server and rows change one after the other | gone when CLEANED, cleaned when terminal |
| Session registry (`session-registry.ts`) and plugin | marker files | write, prune, rebuild, classify | OpenCode server | order of marker, session and row; a volume that is lost | nobody works in a session without its marker |
| Plugin deployment (`resident.ts`, `plugin/tissue-moderation.ts`) | plugin file, deployment record, load beacon | install, load, verify | OpenCode's start | three files, four programs, no lock | nothing is prompted without the plugin |
| Process (`entrypoint.ts`, wake hint, `health-server.ts`) | stream, readiness cache | start, wait, probe, close | OpenCode, s6 | streams that hang, a service that goes and comes | passes recur, an outage ends by itself |
| Operator commands (`controller/ops.ts`) | none | pause, resume, cleanup | work items | read outside the transaction | an operator's word is kept |

The components meet in the database. The daemon is one process and awaits one
call after the other, so inside it nothing runs in parallel, except that the
event stream and the health listener answer while it waits; but `tissue pause`,
`resume`, `cleanup`, `enqueue`, `reconcile` and `tick` are processes of their own
on the same file, and no lease keeps them apart. A `runWrite` is a `BEGIN
IMMEDIATE` transaction and therefore one step of the models. What the code reads
before the transaction that acts on it is a step of its own, and what was read is
kept in a variable until it is used; every awaited call is a step, and so is a
file operation that another program can see.

## Modules

| Module | Models |
|---|---|
| `TissueTables` | the work-item table of `domain/state-machine.ts` and its predicates |
| `SlotPool` | abstract: a pool of run slots with a global and a per-repository limit |
| `WorkQueue` | every statement that writes `work_items.state`, dependencies, and the processes that run them; implements `SlotPool` |
| `Pipeline` | abstract: working, published, proposed, merged or rejected, completed |
| `EffectOutbox` | the `side_effects` rows and their executors, against git and GitHub; implements `Pipeline` |
| `Mailbox` | abstract: waiting, told, answered, settled, in the order of the events of an issue |
| `InboxRelay` | the inbox rows of one work item and the relay, against the transcript of its session; implements `Mailbox` |
| `Ingest` | poll, ingest, enqueue and housekeeping of one repository, against GitHub |
| `TriagePump` | the triage of one repository by the daemon and commands, with operators |
| `Sessions` | sessions, markers, rows and files of a repository and an item; start, census, cleanup |
| `PluginGate` | plugin file, deployment record, load beacon and the gate before a prompt |
| `Resident` | extends `PluginGate` by the Tissue process: loop, wait, event stream, health listener |
| `WorkQueueMC`, `InboxRelayMC` | values of constants that a configuration cannot write down |
| `WorkQueue_proofs`, `EffectOutbox_proofs`, `InboxRelay_proofs`, `Ingest_proofs`, `TriagePump_proofs`, `Sessions_proofs`, `PluginGate_proofs` | theorems about the module of that name |
| `Resident_proofs` | theorems about `Resident`, from those about `PluginGate` |

The modules overlap where components meet, each with the others' part reduced to
what they do to its rows. `WorkQueue` has all the writers of a work item, an
effect, a relay visit or a triage flight being one or two steps; `EffectOutbox`,
`InboxRelay`, `TriagePump` and `Sessions` cut these into their calls and
transactions and know of the rest of the controller only how it moves the item.
`PluginGate` and `Resident` are composed by EXTENDS: the actions of both are in
`Resident!Next`.

### WorkQueue and the code

`state`, `dep`, `assembly`, `pr` and `ready` are columns and rows: the state of
the item, its dependency rows, whether branch, worktree and session exist, its
pull request together with the effect that waits for it, and the repositories
whose `capability_state` is `ready`. `phase`, `gated` and `worklist` are the
daemon's place in its pass; `held[p]` is what process `p` has read outside a
transaction and not yet acted on, together with the step it is in.

- Admission, promotion, claim: `Admit`, `PromoteList` / `PromoteWrite`, `Claim`,
  `ClaimsEnd`. The candidate window (`LIMIT 100`) is the constant `ClaimWindow`.
- Assembly: `EnsureExisting`, `EnsureWorktree`, `EnsureSession`, `EnsureFails`.
- Relay: `RelayBegin` to `RelayEnd`, one visit to each listed row; the outcome
  of the agent is `ApplyOutcome`, `ApplyDefer` or `ApplyCompleted`.
- Effects: `OpenPr`, `HoldWaiting`, `CompleteMerged`, `Abandon`, `EffectWaits`,
  `EffectFails`. An effect that no pass will run again is `stranded`.
- Holds and operators: a read (`RelayWedgeRead`, `CensusWedgeRead`, `DriftRead`,
  `PauseRead`, `ResumeRead`, `CleanupRead`), and later a write that gates the
  transition on what was *read* and overwrites what is *there* (`WriteRow`).
- `GitHubMerges`, `GitHubCloses`, `Crash`, `KilledMidEffect`, `GiveUp`: the
  environment.

### EffectOutbox and the code

`row[w][k]` is the row of kind `k` ("land" is `monitor`, or `merge` for a
repository with auto-merge), with its state, attempts, whether its backoff still
runs (`later`), the commit of its payload and its age. `head`, `remote` and
`pull` are the local branch, the branch on the push remote and the pull request.
`job[x]` is what executor `x` listed and where it is in `executeVerifiedEffect`:

| Place | Code (`controller/effects.ts`) |
|---|---|
| `next`, `start`, `call`, `look` | the loop; before `markExecuting`; before the mutation; before the answer is judged |
| `done`, `fail`, `requeue` | decided on `markDone`, `markFailed`, `requeueSideEffect`, not yet written |
| `find`, `gate`, `adopt` | `runCreatePr`: before `findPrByHead`, before the push row is read, before `adoptPrAndScheduleMerge` |
| `read`, `policy`, `hold`, `complete` | `runMonitor`, `runMerge`: before the pull request is read, before reviews and checks are, decided on `holdWaiting`, on `completeMergedWorkItem` |

A decision and the write that follows it are two steps, because two executors
may decide at the same time. A call that throws (`Throw`, and the second case of
`LandCall`) may have had its effect or not. A pull request that cannot be found
any more is a closed one; foreign forks, drafts and required checks are the
choices of `Adoptable`, `LandPolicy` and `TurnsGreen`.

### InboxRelay and the code

`row` and `nonce` are the columns of `inbox`, `told` and `answer` what the
transcript holds, `at` is the daemon's place in `relayOldestInbox` and `hand` what
it holds there. A visit goes `Visit`, then either `ClaimBundle`, `Sample` (the
idle samples), `Mark` (the nonce is recorded before the prompt), `Prompt`,
`Observe`; or, when rows are DELIVERING, `Resume` and `Observe`. An answer leads to
`ReadResult`, `Apply`, `Adopt`; none to waiting, `Recycle` or `Hold`. `Apply` and
`Adopt` are two transactions, and `Interrupted` may fall between them. `worktree` is
whether the item has an ACTIVE worktree, without which `Apply` throws and nothing is
written; `WorktreeLost` is whoever takes it away. Time is counted in multiples of `W_TURN_MS` from the moments the code measures from; no
comparison looks further than `W_WEDGE_MS`, where the counters stop.

### Ingest and the code

Issues and pull requests are numbers, in the order in which they were opened. A poll
reads issues, pull requests and details in calls of their own (`ReadIssues`,
`ReadPulls`, `ReadDetails`). A list of GitHub has the `ListLimit` newest
(`ListedIssues`, `ListedPulls`), of which the poll keeps those that changed since its
watermark. Meanwhile `EditIssue`, `CommentOn`,
`OpenPull` and `ChangePull` go on. `Ingest` is the one transaction that stores it,
with `IssueAfter` the row of an issue, `Reports` the events and `Inserted` their
de-duplication by `event_key`. A snapshot hash is the time of the last change,
an event key a tuple. `IngestRollsBack` is the transaction a unique index refuses
(`PullsCollide`). `Enqueue`, `TriageReady`, `TriageDrops` and `Housekeep` are the
other writers of these rows.

### TriagePump and the code

`pump` is the row of the repository, `flight[r]` what a runner has read of it and
where it is in `runTriageRepo`. `Decide` is what `runTriageRepo` makes of what it
read, `Begin`, `Apply`, `Fail`, `Park` its transactions, `List` and `Recover` the
stale flights of `recoverStalePrompting`. A reply is any disposition, a duplicate
of an earlier one, or one that cannot be used.

### Sessions and the code

`server`, `marker`, `srow` are a session on the server, its marker file and its row,
written in that order by `Post`, `PutMarker`, `InsertRow`; `dir`, `branch`, `wrow`
the worktree and its row. `proc[p]` is where a process is. `Start` is
`runStartupRegistryReconciliation`, `Reconcile` begins a pass. Of its census,
`Classified` is the verdict on a session (idle and busy are none, for nothing is
done about them), `Recover` the reading that decides what an entry calls for
(`Remedy`), and `HoldOwner`, `RetainSession` and `ReleaseMapping` the transactions
that do it, one to an entry. `BeginCleaning`, `RemoveDirectory`, `DeleteBranch`,
`CloseCleaned` the cleanup. The age of a row and of a turn is one bit each, older
than `W_WEDGE_MS` or not. `VolumeLost` and `Remounted` are what happens to the
registry's volume between two starts of the containers.

### PluginGate, Resident and the code

The files are records of a version and a time; `clock` counts deployments and
starts of OpenCode, the only things whose times are compared. `InstallFile` and
`InstallRecord` are the two writes of `installModerationPlugin`,
`WriteLoadBeacon` the plugin's, `Loaded` is `verifyModerationPluginLoaded`,
`Clear` and `Post` the check and the prompt that follows it. In `Resident`, `phase`
is where `runDaemon` is, `available` its `openCodeAvailable`, `stream` the loop of
`SseWakeHint` and `health` the variables of `startHealthServer`.

Definitions whose comment begins with "Mutant" are plausible mistakes, kept
beside the definition they would replace: every property that passes is also
run against one of them, and has to fail.

## Runs

The first ten runs pass; the last two show the code doing other than a document
or comment of the repository says, each with one property that TLC finds
violated.

| Run | Instance | Shows |
|---|---|---|
| `processes` | 2 items, daemon, operator, `tissue reconcile` | no limit over-committed; completed means merged; rows move along the transition table except by out-of-date writes; only a merge releases; `SlotPool` implemented |
| `alone` | 3 items, any outcome and any deferral, one fault | no circle of dependencies; a deferred item has a row that can release it; no work without a session; terminal is final |
| `live` | 2 items and an issue, one fault, fairness | a merge reaches those who wait for it; no slot stays free while an item fits |
| `outbox_shared` | 1 item, daemon and `tissue reconcile`, 2 commits, a crash, a call that throws | DONE is true of git and GitHub; a pull request has its turn; `Pipeline` implemented |
| `outbox_live` | 2 items, one with auto-merge, a commit of each or two of one at any time, one call that throws, fairness | a finished turn lands, unless a commit came between its report and its push; a merge by people is noticed |
| `relay` | 2 events, of which one issue is attached on the way; 3 outcomes; 2 faults, fairness | DELIVERED rows were answered and the answer heeded; one prompt at a time; an answer moves the item once; `Mailbox` implemented; every event settles |
| `ingest` | an issue from before the baseline and two later ones, one with an item; lists that have two; 2 pull requests, 4 changes, a failed poll, fairness | what is stored is reported, once; reports reach the item; what housekeeping took stays out; a change made between two polls to an issue of the list is stored |
| `triage` | 2 issues, daemon, reconcile command, 2 operator commands, a crash, fairness | items belong to READY issues; one disposition an issue; every issue is settled or parked |
| `sessions` | daemon, reconcile command, `tissue cleanup`, 2 sessions, a crash, failed call, lost session or lost volume, fairness | nobody works without a marker; a mapped triage session can be prompted; CLEANED is gone; once nothing fails any more, a reconcile pass that is to come, or has not reached that phase, cleans the leftovers up and notices a lost session |
| `resident` | 2 versions of the plugin, 5 deployments and starts of OpenCode in any order, one fault, fairness | the files never vouch for a plugin that is not loaded; no turn without a plugin; passes recur; a restored service is used; the readiness follows |
| `reload` | no fault | after a second deployment no start of OpenCode opens the gate again |
| `outbox_turn` | two completed turns | the second turn leaves no intent to push |

Each property of the passing runs has a mutant in `PROJECT.json`. The type
invariants are left out of the runs: each is a theorem (to see one on an instance,
add `TypeOK` to its configuration).

### Bounds

- Two items are enough for a claim against a claim, a release, a stale write on
  one item while another uses its slot; three for a circle that is not a mutual
  one. Items interact only through capacity, dependencies and windows.
- One slot makes every claim a conflict. The general case, with any number of
  slots, items and repositories, is the theorem `CapacityHolds`.
- One operator and one command of a kind: each holds one unacted-on read, and
  two reads of the same row are already possible with the daemon's.
- `MaxFaults`, `MaxCrashes`, `MaxFailures` bound crashes and failed calls. One
  crash at every possible step, and one failure of every possible call, is what
  the recovery code is written for; the theorems have no bound. The relay has two,
  so that a recycled delivery can fail again.
- `ClaimWindow` (100) and `DueWindow` (50) are as large as the instance, so that
  neither cuts anything off. What a full window does is shown by
  `WorkQueue_window.cfg` and `EffectOutbox_window.cfg`, see "Noticed".
- `ListLimit` (100, of `gh issue list` and `gh pr list`) is 2 in `ingest`, of three
  issues: the oldest drops out of the list when the youngest is opened. What that does
  to an issue is shown by `Ingest_oldest.cfg`, see "Noticed".
- `MaxAttempts` is 8 as in the code, and 2 in `outbox_shared` so that exhaustion
  is reached with few failures.
- `MaxCommits` (2) bounds the commits of an agent, and of any two agents together. Two
  allow for a commit between a turn and its push or after it, and for a second turn;
  in `outbox_live` the other item is then without any.
- `MaxNonces` (4) allows for each event to be told, recycled by a fault and told
  again. `IdleSamples` is 2, as in the code.
- `MaxTime` in `Ingest` (4 changes): an issue, its attachment, and changes before,
  during and after one poll. In `Resident` (5): a deployment, a start, another
  deployment, and two more starts. In `resident` one fault may cut a deployment short.
- `MaxOps` (2): a pause and a resume, or a resume during a flight and another.
- `MaxSessions` (2): a triage and a resolution session, or a session that was lost
  and its successor.

`CHECK_DEADLOCK FALSE` is set because an instance does come to rest: all items
completed or held, the bounds used up, and nobody who has anything to do.

### Fairness

- `WorkQueue`: the daemon's loop takes its next step (`Pass`), runs the effects it
  has listed and writes what it has read. The loop of `runDaemon` does exactly
  that, never waits for another process, and s6 restarts it after a crash. The
  strong fairness of `BeginPass` says that the startup pass, whose verdicts can be
  repeated by the model but visit each row once in the code, ends. Operators, other
  commands, GitHub and the agents may stop at any time.
- `EffectOutbox`: the daemon executes, backoffs end, a `completed` report is
  relayed, and reviews and checks come in some day (`TurnsGreen`); without the
  last no auto-merge can be promised. Nobody has to merge, close or commit.
- `InboxRelay`: the daemon goes on, time passes, and a turn that OpenCode does not
  drop ends. Strong for time, which the model stops only while a counter is full.
- `Ingest`: the daemon polls in every pass. Nothing has to change on GitHub, and
  nobody has to triage.
- `TriagePump`: the daemon looks, flights go on (their prompt has a timeout), and
  backoffs end. Operators do nothing they do not want to.
- `Sessions`: the loop of the daemon goes on, a daemon that is down is started
  when its volume is there (s6 does), and a pass that was begun ends. The daemon runs
  a reconcile pass at its start only, and no command need ever be run. That a pass is
  to come, or is under way and not yet past the phase in question, is therefore a
  premise of `LeftoversAreCleaned` (`PassAhead`) and `LossIsNoticed` (`CountAhead`).
  So is that the faults of the instance are over (`FaultsAreOver`): a pass that is cut
  short leaves its work to the one after it.
- `Resident`: the process takes its steps, the read of a dead stream ends (the HTTP
  client gives up on a body that does not come), somebody asks for the readiness
  from time to time (the container's health check), and the probe, which is bounded
  by a timeout, is answered. OpenCode need not be started.

## Proofs

All theorems hold for any number of items, repositories and processes and any
bounds; the assumptions are those named in the modules (`ItemsAssumption`,
`LimitsAssumption`, `ProcessesAssumption`, `OutboxAssumption`, `RelayAssumption`,
`IngestAssumption`, `TriageAssumption`, `SessionsAssumption`, `GateAssumption`):
types of the constants, finitely many items and events, and that the daemon is none
of the others. Every invariant and every action property of a passing run is stated
by a theorem. Each inductive invariant `IInv` that is more than its types and the
properties was checked by TLC on the instance of the run before it was proved. Theorems marked
(+) state properties that no run lists.

`WorkQueue_proofs`. The lemma `RowWriters` reduces the next-state relation to the
steps that write a row and what they know of the row then; the invariants about
rows are proved along its cases.

| Theorem | States | Rests on |
|---|---|---|
| `TypeCorrect` | `TypeOK` | inductive by itself |
| `CapacityHolds`, `SlotsImplemented` | no limit is over-committed; `SlotPool` is implemented | only `Claim` takes a slot, and it counts in its own transaction; every other legal transition into a holding state starts in one |
| `CompletionIsVerified` | COMPLETED only after the recorded merge | `completed` is written by one transaction |
| `DeferredIsRecorded`, `WorkStandsOnASession` | an ACTIVE row, a session | `IInv`: also what the unacted-on reads of the relay and the promotion stand for |
| `MovesAreAudited` | a row moves by a rule of the table from the state it is in, or by the two rules of a merge out of WAITING, except by a write on an out-of-date read | `RowWriters`, case by case (`MoveStep`): a write that is not out of date was checked against the state that the row still has |
| `OnlyStaleWritesUndoTerminal` (+) | a terminal state is left only by a stale write | no legal triple starts in a terminal state, so the row read was another |
| `TerminalIsFinalAlone` | with neither operators nor other reconcile passes, a terminal state is never left | `FreshRead`: what the daemon has read is still so when it writes, because it writes or drops it before it does anything else |
| `MergeAloneReleases` | only the recorded merge of a dependency releases | `RowWriters` |
| `DependenciesAreAcyclic` | no circle of ACTIVE rows | a relation that is closed under the old rows and the new one, without the circle |

`EffectOutbox_proofs`. `IInv` is `TypeOK`, the facts `DoneIsReal`,
`PullHasTheTurn` and `RowsFit` (which rows exist together, and that no commit is
further than the branch), and `JobsFit`: what an executor has seen when it
reaches a place. `DoneIsReal` alone is not inductive, since a row becomes DONE
some steps after GitHub was asked; `JobsFit` carries the answer over these steps.
It survives the steps of everybody else because of `WorldGrows`: a branch only
gains commits, a pull request that is merged or closed remains so, a row keeps
its commit.

| Theorem | States |
|---|---|
| `TypeCorrect` | `TypeOK` |
| `DoneRowsAreReal` | a DONE row is true of git and GitHub |
| `PullsHaveTheTurn` | no pull request without the commit of its turn |
| `PipelineImplemented` | no stage is skipped or taken back, only a merge completes |
| `CompletedMeansMerged` (+) | a COMPLETED item has a merged pull request with the commit of its turn |
| `DoneIsFinalAlone` (+) | with no command beside the daemon, what is DONE is never written again |

`CompletedMeansMerged` adds to `IInv` that COMPLETED stands on a merged pull request
(`CompletedIsMerged`), which nobody reopens (`MergedStays`). `DoneIsFinalAlone` adds
`DoneIsLeft`: the daemon is not in the middle of an effect that is DONE, and such an
effect waits for no backoff. It needs the daemon alone: `executeVerifiedEffect` looks
whether the effect is DONE once, and what a command decided after its own look is
written over it.

`InboxRelay_proofs`. `DeliveredIsAnswered` is about the moment when rows are
settled, some awaited calls after the answer was seen, and a crash may fall between
any two of them. `IInv` ties rows, transcript and daemon together by the nonce:

- `OneBundle`: all DELIVERING rows have one nonce, and its message, once it is in the
  transcript, holds exactly these rows. So what a restarted daemon finds in the table
  is what the agent was told.
- `HeldBundle`, `ClaimedBundle`, `BundleInOrder`: what the daemon has in its hand is
  that bundle, and nothing earlier of the same issue is left out of it.
- `FreshNonce`, `NoTurnYet`: a nonce is prompted once, and only when no turn is
  left. So an answer stays the answer to its message (`AnswerInHand`).
- `Transcript`, `RowsInOrder`, `DeliveredIsNamed`: the form of the rest.

| Theorem | States |
|---|---|
| `TypeCorrect` | `TypeOK` |
| `DeliveredMeansAnswered`, `ReportsAreHeeded` | a DELIVERED event was in an answered message; the item got that answer, unless the session was deleted |
| `OneTurnOnly` | never two messages before the agent |
| `AnswersMoveOnce` | an answer read twice moves the item once |
| `MailboxIsImplemented` | told, answered, settled, in the order of the events: each step of the relay is a step of `Mailbox` or none |
| `EventsSettleInOrder` (+) | no event is DELIVERED while an earlier one of its issue is not |
| `DeliveredStaysDelivered` (+) | no retry, recycling or reparenting touches a DELIVERED row |

`EventsSettleInOrder` needs the order of what is under way as well (`SentInOrder`): a
DELIVERING event has only DELIVERING and DELIVERED ones of its issue before it, since a
bundle takes them in order, settles as a whole and is taken back as a whole.

`Ingest_proofs`. A poll reads its parts at different times, so what it holds need not
be what GitHub or the tables hold at any one time, and the listed properties do not
rely on it: they hold because of what the transaction compares at its end, and with
the types each is inductive. `SnapshotsOnlyAdvance` is the exception. The transaction
does not compare the age of a version with that of the stored one, it replaces any
other; that this is never a step back rests on `ReadInOrder`: of each issue, the row
is no younger than what the poll holds and that no younger than GitHub's own, because
one poll is over before the next begins and nothing else stores versions.

| Theorem | States |
|---|---|
| `TypeCorrect` | `TypeOK` |
| `NothingIsSwallowed` | a stored version of an admitted issue was reported |
| `EventsFindTheirItem` | a pending event of an attached issue has its item |
| `KeysAreUnique`, `TerminalRowsStay` | one row per event key; a row that housekeeping ended stays so |
| `SnapshotsOnlyAdvance` (+) | no poll puts an older version of an issue, or an older watermark, over a newer one |

`TriagePump_proofs`. A flight that was written off still lands, so `IInv` says
nothing about who flies: it has `FlightsHoldIssues` (who prompts holds an issue) and
`WaitingIsUnlinked` (only a disposition links an issue), and what a reply may write
follows from the state of the issue alone.

| Theorem | States |
|---|---|
| `TypeCorrect` | `TypeOK` |
| `WorkOnlyOnReady` | `ItemsAreReadyIssues`: items are those of READY issues, groupings lead to an item |
| `DispositionIsFinal` | `DisposedOnce`: an issue that has its disposition keeps it |

`Sessions_proofs`. `WorkIsModerated` looks at a session with a turn; what makes it
true is the order of `createRealSession`, long before. `IInv` follows the daemon
through it: the session exists from the marker on (`MadeAsAsked`), is marked before it
is recorded (`MadeIsMarked`) and recorded before it is prompted or mapped
(`MarkedIsRecorded`, `BusyIsRecorded`, `MappedIsRecorded`); the prune at a start spares
what has a row, and a daemon without the volume does not run (`RunsOnTheVolume`).
For `CleanedIsGone`, a cleanup works on a row of `worktrees` (`CleaningHasRow`) and an
assembly makes files for good only where there was none (`AssemblyIsFirst`), so what a
cleanup has removed is still away when it writes CLEANED (`RemovedStaysAway`). That is
not so for an item that has no session yet: there the property says nothing.

| Theorem | States |
|---|---|
| `TypeCorrect` | `TypeOK` |
| `WorkIsAlwaysModerated` | a session with a turn has its marker where the plugin looks |
| `TriageStaysPromptable` | the mapped triage session keeps its marker, unless the volume was lost |
| `CleanedMeansGone` | CLEANED only after directory and branch are gone |
| `OneSessionPerItem` (+) | an item has at most one session, over its claims, pauses, crashes and failed calls |

`OneSessionPerItem` is what `getActiveResolutionSession` relies on when it asks for one
row. `Claim` looks for a session and `createRealSession` writes its row five
steps later; `AssemblyStaysFirst` says that in between the item still has none. A session that
the census retained is not found any more; by `RetainedIsThrough` its item has ended,
or was put on hold after that (`Over`), and is not assembled again.

`PluginGate_proofs`, about `GateSpec`, the four programs and their files. The gate
compares times of three files, so `IInv` says how these times relate to the start
of the process that is up: `TimesPass` (no file tells of a time to come, and a
beacon is no younger than that start) and `LoadsWhatIsThere` (a process started
after the record loaded what the record is about, unless a deployment was cut short
between its two writes). `TurnsAreModerated` needs `BeaconMeansPlugin`: a plugin
file is replaced and never removed, so a beacon, however old, means that every
later process has some plugin.

| Theorem | States |
|---|---|
| `GateTypeCorrect` | `GateTypeOK` |
| `GateHonest` | `GateIsHonest`: when the gate is open, OpenCode runs the recorded file |
| `TurnsModerated` | `TurnsAreModerated`: no managed turn without a plugin |

`Resident_proofs`, about the whole of `Resident`. By `StepOfTheGate` each of its
steps is a step of the gate, leaves the gate alone, or makes Tissue forget that it
had passed (`Forgets`: a pass that throws, a crash). Only the third is new, and it
keeps the gate's `IInv`: to know less does no harm.

| Theorem | States |
|---|---|
| `TypeCorrect` | `TypeOK` |
| `GateHonestInTheLoop`, `TurnsModeratedInTheLoop` | `GateIsHonest` and `TurnsAreModerated` for `Resident` |

Only model-checked are the liveness properties: `MergeReachesDependents`,
`NoIdleSlot`, `TurnsLand`, `MergeIsNoticed`, `EventsSettle`, `QuietChangeIsStored`,
`PendingIsSettled`, `LeftoversAreCleaned`, `LossIsNoticed`, `PassesRecur`,
`RestoredServiceIsUsed` and `ReadinessFollows`. They need ENABLED and arguments over
data that decrease, which are out of TLAPS's reach. `TerminalIsFinal` is false with
an operator or a second reconcile pass (see `WorkQueue_terminal.cfg`), so its theorem
is about the daemon alone.

## Noticed

Disagreements with a run are in `PROJECT.json`. The modules show more of them. Where
a configuration is named it is kept beside the runs, and TLC finds its property
violated; the others come from reading or from a run during modelling.

Work queue

- `pause`, `resume` and `cleanup` read a row outside the transaction that writes
  it: a pause overwrites COMPLETED (`ops.ts:260`; `WorkQueue_terminal.cfg`).
- The promotion queues a list read before its transaction: a pause is undone
  (`daemon.ts:232`, against `queue.ts:17-18`; `WorkQueue_pause.cfg`).
- A claim whose assembly failed keeps its slot; `lease_until` is written and never
  read (`daemon.ts:318`, against `queue.ts:38`; `WorkQueue_lease.cfg`).
- An item may defer on one that is COMPLETED, and waits for ever
  (`repositories.ts:582`, against `README.md:47`; `WorkQueue_wakeup.cfg`).
- `executeEffects` stops at the first effect that throws: an older effect of a
  repository that is not ready keeps all others from running (`daemon.ts:487`,
  against `daemon.ts:256-258`; `WorkQueue_starve.cfg`).
- The claim looks at `capability_state` and not at `enabled`: queued items of a
  repository that was disabled while ready are claimed, and fail their assembly.
- A repository whose verification failed at the start stays out until the next
  reconcile pass: the loop verifies nothing.
- `claimNextWorkItem` cuts its candidates off at 100 before it looks at capacity:
  100 queued items of a saturated repository hide every later one (`queue.ts:130`;
  `WorkQueue_window.cfg`).
- `completeMergedWorkItem` releases dependents of an item that was paused or held
  when its pull request merged, and so is not COMPLETED.

Effect outbox

- A crash after `markExecuting` leaves a row that no pass lists (`effects.ts:374`,
  against `effects.ts:7-8`; `EffectOutbox_crash.cfg`).
- A crash between DONE and the insertion of the successor leaves the pull request
  unwatched (`effects.ts:537`, against `effects.ts:311-313`; `EffectOutbox_adopt.cfg`).
- The push of a turn pushes the branch, and is DONE only when the remote then shows
  the very commit of its row. When the agent commits between its report and the push,
  each attempt fails until none is left (`effects.ts:408-414`;
  `EffectOutbox_overtaken.cfg`). `TurnsLand` excepts such a turn (`Overtaken`).
- `listDueSideEffects` cuts off at 50. A waiting effect is due again after a
  minute, so 50 waiting pull requests fill every pass (`repositories.ts:1189`;
  `EffectOutbox_window.cfg`); exhausted FAILED rows stay due as well.
- Failed readings count as attempts: after eight a merge goes unnoticed
  (`effects.ts:337`; `EffectOutbox_exhausted.cfg`, with two for eight).
- `markFailed` of a slower executor overwrites the DONE of a faster one.
- The reconcile pass executes effects without `assertDispatchReady`, which the
  daemon's loop asks for each.

Inbox relay

- Every recycle restarts the clock, so a session that drops its turns is held only
  when passes are far apart (`inbox-relay.ts:238`; `InboxRelay_wedge.cfg`).
- A session deleted between `observeCompletion` and `readResolutionResult` leaves
  the rows DELIVERED with no result read; `DeliveredIsHeeded` excepts it.
- An answer that cannot be applied throws in every pass and its rows stay
  DELIVERING, as does every answer of an item that lost its ACTIVE worktree
  (`inbox-relay.ts:338`); `EventsSettle` excepts both.
- The nonce of a second delivery is new, but an agent that repeats its
  `envelope_id` has the later answer dropped as a duplicate.

Ingest and polling

- `tissue enqueue` admits an issue the poll has seen already; nothing triages it
  until it changes on GitHub (`ingest.ts:143`, against `enqueue.ts:5-8`;
  `Ingest_enqueue.cfg`).
- The watermark is the end of a poll: a change during it can be skipped until the
  next change (`poll.ts:396`, against `poll.ts:6-8`; `Ingest_skips.cfg`).
- A comment on an issue from before the baseline is recorded as an event
  (`ingest.ts:453`, against `ingest.ts:9-11`; `Ingest_silent.cfg`).
- A poll lists the 100 newest issues and pull requests, and only then looks which of
  them changed: a change to an older one is never read (`poll.ts:365`;
  `Ingest_oldest.cfg`). `QuietChangeIsStored` excepts it (`OutOfReach`).
- Two open pull requests on the branch of one item violate `ux_pr_one_active`, and
  nothing of the repository is stored while both are open.
- The keys of check and conflict events name no commit: the same check failing
  again after a push is not reported. A label that is added later does not admit an
  issue that was left out.

Triage

- A pause during a flight is undone by its end, against `triage.ts:25-26`
  (`TriagePump_pause.cfg`); a command's flight runs beside the daemon's, against
  `triage.ts:3-4` (`TriagePump_oneflight.cfg`). `ItemsAreReadyIssues` and
  `DisposedOnce` hold all the same.

Sessions

- The census takes the age of the row for the age of the turn, and the relay's
  prompt does not touch the row: a turn that has just begun is called wedged
  (`reconcile.ts:295`, against `reconcile.ts:298`; `Sessions_wedged.cfg`).
- The loop of the daemon runs no reconcile pass. A worktree left CLEANING, or of an
  item that ended since the start, and an item RUNNING on a session that is gone wait
  for a restart or for `tissue reconcile` (`daemon.ts:726`; `Sessions_loop.cfg`,
  `Sessions_unnoticed.cfg`). The relay finds a session gone only with rows to relay.
- The recovery of the census reads the item and then holds it in a transaction that
  does not look again: an item that ended in between is back on hold
  (`reconcile.ts:397`). `LeftoversAreCleaned` excepts it.
- A crash between `git worktree add` and the insertion of its row leaves files that
  no cleanup finds (`Sessions_stray.cfg`), and the item's next assembly refuses
  because the branch exists.
- A triage session that lost its marker is refused for ever: `promptTriage`, unlike
  the relay, recreates none. A crash between `insertSession` and
  `updateTriageState` orphans a triage session.

Process and plugin

- With OpenCode down, the assembly of the process throws, and Tissue exits instead
  of polling (`entrypoint.ts:226`, against `docs/operations-runbook.md:44`;
  `Resident_outage.cfg`).
- The heartbeat of the wake hint closes a stream by `iterator.return()`, which waits
  for the read that hangs; the reconnect comes when the HTTP client gives up.
- Installing the same plugin again closes the gate as a second deployment does. Two
  deployments cut short between file and record can leave a record that vouches for
  another file than the one loaded; `GateIsHonest` excepts a deployment that is halfway.

## Not modelled

- Comment, close and reopen effects: no caller creates any.
- The matcher of `tissue-moderation.ts` that allows or refuses a command: a pure
  function of strings. The classification of a session by its marker is in `Sessions`.
- `acquireLease` and `releaseLease`: called by tests only.
- Configuration, logging, CLI parsing, argument building for `gh` and `git`, and the
  parsing of their output; `synchronizeConfiguredRepositories`, which gives the
  repositories every module starts from; the migration runner; the probe scripts
  under `scripts/`.
- The contents of prompts, envelopes and payloads beyond what the properties tell
  apart. The ROGUE rows of the drift scan and the local `pull_requests` rows that
  effects write: no decision reads them.

## Plan

The modules listed above are written, and each safety property of their runs is a
theorem. Of the step properties planned beside them these are proved: a transaction
of a poll never takes a stored version back, a relayed event is settled once and in
order, an effect of the daemon alone is final, an item has one session. What could
still be added, in this order:

- the steps under the liveness properties that are not temporal: each `at` of the relay
  and each place of an executor leads to the next or back to the start of the visit;
- what `WorkQueue` takes from the detailed modules in one step (a relay visit, an
  effect, a triage flight) against what these modules' theorems show of it;
- the hazards of `PROJECT.json` without a property, each of which needs a part that is
  not modelled now (several repositories in one effect loop, the unique index of
  `pull_requests`).
