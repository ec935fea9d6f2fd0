-------------------------- MODULE WorkQueue_proofs --------------------------
(***************************************************************************)
(* Theorems about WorkQueue, for every value of its constants: any number  *)
(* of items, repositories and processes, any limits.                       *)
(*                                                                         *)
(* `RowWriters' reduces the next-state relation to the steps that write a  *)
(* row; each invariant about rows is then proved along those cases.        *)
(***************************************************************************)
EXTENDS WorkQueue, FiniteSetTheorems, TLAPS

-----------------------------------------------------------------------------
(***************************************************************************)
(* The table of legal transitions.                                         *)
(***************************************************************************)

\* A legal transition leaves a state that is not terminal.
LEMMA LegalIsNotTerminal ==
  ASSUME NEW s, NEW e, NEW t, IsLegal(WorkItemTransitions, s, e, t)
  PROVE  ~IsTerminal(WorkItemTransitions, s)
<1> DEFINE m == <<s, e, t>>
<1>1. m \in WorkItemTransitions /\ m[1] = s
  BY DEF IsLegal
<1> QED
  BY <1>1 DEF IsTerminal

\* The triple of a rule belongs to the table.
LEMMA LegalTriples ==
  /\ IsLegal(WorkItemTransitions, "DEFERRED", "dependency_completed", "READY")
  /\ IsLegal(WorkItemTransitions, "WAITING", "resume", "RUNNING")
  /\ IsLegal(WorkItemTransitions, "READY", "queue", "QUEUED")
  /\ IsLegal(WorkItemTransitions, "QUEUED", "claim", "RUNNING")
BY DEF IsLegal, WorkItemTransitions, Rule

\* `await_review' is legal only for a RUNNING item.
LEMMA AwaitReview ==
  ASSUME NEW s, IsLegal(WorkItemTransitions, s, "await_review", "WAITING")
  PROVE  s = "RUNNING"
BY DEF IsLegal, WorkItemTransitions, Rule, HoldEvents

\* The outcomes that keep an item under way are legal only for an item that
\* already holds a slot.
LEMMA OutcomeFromHolder ==
  ASSUME NEW s, NEW o \in Outcomes \ {"completed"},
         IsLegal(WorkItemTransitions, s, OutcomeEvent[o], OutcomeTo[o])
  PROVE  /\ s \in CapacityHolding
         /\ OutcomeTo[o] \in CapacityHolding
<1>1. CASE o = "awaiting_review"
  <2>1. OutcomeEvent[o] = "await_review" /\ OutcomeTo[o] = "WAITING"
    BY <1>1 DEF OutcomeEvent, OutcomeTo
  <2> QED
    BY <2>1, AwaitReview DEF CapacityHolding
<1>2. CASE o = "needs_changes"
  <2>1. OutcomeEvent[o] = "resume" /\ OutcomeTo[o] = "RUNNING"
    BY <1>2 DEF OutcomeEvent, OutcomeTo
  <2>2. s = "WAITING"
    BY <2>1 DEF IsLegal, WorkItemTransitions, Rule, HoldEvents
  <2> QED
    BY <2>1, <2>2 DEF CapacityHolding
<1>3. CASE o = "awaiting_decision"
  <2>1. OutcomeEvent[o] = "await_decision" /\ OutcomeTo[o] = "AWAITING_DECISION"
    BY <1>3 DEF OutcomeEvent, OutcomeTo
  <2>2. s = "RUNNING"
    BY <2>1 DEF IsLegal, WorkItemTransitions, Rule, HoldEvents
  <2> QED
    BY <2>1, <2>2 DEF CapacityHolding
<1> QED
  BY <1>1, <1>2, <1>3 DEF Outcomes

-----------------------------------------------------------------------------
(***************************************************************************)
(* Type correctness.                                                       *)
(***************************************************************************)

\* A read that is kept has the type of `held'.
LEMMA ReadingType ==
  ASSUME NEW op \in Ops, NEW items \in SUBSET WorkItems, NEW seen \in States
  PROVE  Reading(op, items, seen)
           \in [op : Ops, items : SUBSET WorkItems, seen : States]
BY DEF Reading

\* The daemon's pass preserves the type invariant.
LEMMA PassType ==
  ASSUME TypeOK, Pass
  PROVE  TypeOK'
<1> USE DEF TypeOK, Idle, Holds, Release
<1>1. CASE BeginPass
  BY <1>1 DEF BeginPass, rows, Phases
<1>2. CASE PromoteList
  <2> DEFINE S == {w \in WorkItems : state[w] = "READY"}
  <2>1. Reading("promote", S, "READY")
          \in [op : Ops, items : SUBSET WorkItems, seen : States]
    BY ReadingType DEF Ops, States, WorkItemStates
  <2> QED
    BY <1>2, <2>1 DEF PromoteList, rows, Phases, Procs
<1>3. CASE PromoteWrite
  BY <1>3 DEF PromoteWrite, pass, States, WorkItemStates
<1>4. CASE ClaimsEnd
  BY <1>4, LimitsAssumption DEF ClaimsEnd, rows, Phases
<1>5. CASE RelaysEnd
  BY <1>5 DEF RelaysEnd, rows, Phases
<1>6. CASE EndPass
  BY <1>6 DEF EndPass, rows, Phases
<1>7. ASSUME NEW w \in WorkItems, Admit(w) PROVE TypeOK'
  BY <1>7 DEF Admit, pass, States, WorkItemStates
<1>8. ASSUME NEW w \in WorkItems, Claim(w) PROVE TypeOK'
  <2>1. Reading("ensure", {w}, "RUNNING")
          \in [op : Ops, items : SUBSET WorkItems, seen : States]
    BY ReadingType DEF Ops, States, WorkItemStates
  <2> QED
    BY <1>8, <2>1 DEF Claim, pass, States, WorkItemStates, Procs
<1>9. ASSUME NEW w \in WorkItems,
             EnsureExisting(w) \/ EnsureSession(w) \/ EnsureFails(w)
      PROVE  TypeOK'
  <2>1. CASE EnsureExisting(w)
    BY <2>1 DEF EnsureExisting, rows, pass
  <2>2. CASE EnsureSession(w)
    BY <2>2 DEF EnsureSession, rows, pass, Assemblies
  <2>3. CASE EnsureFails(w)
    <3>1. faults' \in 0..MaxFaults
      BY <2>3, LimitsAssumption DEF EnsureFails
    <3> QED
      BY <2>3, <3>1 DEF EnsureFails, rows, pass
  <2> QED
    BY <1>9, <2>1, <2>2, <2>3
<1>10. ASSUME NEW w \in WorkItems, EnsureWorktree(w) PROVE TypeOK'
  <2>1. [held[Daemon] EXCEPT !.op = "mint"]
          \in [op : Ops, items : SUBSET WorkItems, seen : States]
    BY <1>10 DEF EnsureWorktree, Ops, Procs
  <2> QED
    BY <1>10, <2>1 DEF EnsureWorktree, pass, Assemblies
<1>11. ASSUME NEW w \in WorkItems, RelayBegin(w) PROVE TypeOK'
  <2>1. Reading("relay", {w}, state[w])
          \in [op : Ops, items : SUBSET WorkItems, seen : States]
    BY DEF Reading, Ops
  <2> QED
    BY <1>11, <2>1 DEF RelayBegin, rows, Procs
<1>12. ASSUME NEW w \in WorkItems, RelaySkip(w) \/ RelayEnd(w) PROVE TypeOK'
  BY <1>12 DEF RelaySkip, RelayEnd, rows, pass
<1>13. ASSUME NEW w \in WorkItems, RelayWedgeRead(w) PROVE TypeOK'
  <2>1. Reading("wedge", {w}, state[w])
          \in [op : Ops, items : SUBSET WorkItems, seen : States]
    BY DEF Reading, Ops
  <2> QED
    BY <1>13, <2>1 DEF RelayWedgeRead, ReadRow, rows, pass, Procs
<1>14. ASSUME NEW w \in WorkItems, NEW o \in Outcomes, ApplyOutcome(w, o)
       PROVE  TypeOK'
  <2>1. OutcomeTo[o] \in States
    <3>1. o \in Outcomes \ {"completed"}
      BY <1>14 DEF ApplyOutcome
    <3> QED
      BY <1>14, <3>1, OutcomeFromHolder
      DEF ApplyOutcome, CapacityHolding, States, WorkItemStates
  <2> QED
    BY <1>14, <2>1 DEF ApplyOutcome, pass
<1>15. ASSUME NEW w \in WorkItems, NEW t \in Targets, ApplyDefer(w, t)
       PROVE  TypeOK'
  <2>1. dep' = [dep EXCEPT ![w] = [dep[w] EXCEPT ![t] = "ACTIVE"]]
    BY <1>15 DEF ApplyDefer
  <2>2. dep' \in [WorkItems -> [Targets -> {"none", "ACTIVE", "SETTLED"}]]
    BY <2>1
  <2> QED
    BY <1>15, <2>2 DEF ApplyDefer, pass, States, WorkItemStates
<1>16. ASSUME NEW w \in WorkItems, ApplyCompleted(w) PROVE TypeOK'
  BY <1>16 DEF ApplyCompleted, pass, PrStates
<1>17. ASSUME NEW w \in WorkItems, EffectWaits(w) PROVE TypeOK'
  BY <1>17 DEF EffectWaits, Executes, rows
<1>18. ASSUME NEW w \in WorkItems, EffectFails(w) PROVE TypeOK'
  BY <1>18, LimitsAssumption DEF EffectFails, Executes, Strands, PrStates
<1> QED
  BY <1>1, <1>2, <1>3, <1>4, <1>5, <1>6, <1>7, <1>8, <1>9, <1>10, <1>11,
     <1>12, <1>13, <1>14, <1>15, <1>16, <1>17, <1>18 DEF Pass

\* So do the effect executor and GitHub.
LEMMA EffectType ==
  ASSUME TypeOK, NEW p \in Procs, NEW w \in WorkItems,
         Executor(p, w) \/ KilledMidEffect(p, w) \/ GitHub(w)
  PROVE  TypeOK'
<1> USE DEF TypeOK, Executes
<1>1. CASE OpenPr(p, w)
  BY <1>1 DEF OpenPr, PrStates
<1>2. CASE HoldWaiting(p, w)
  BY <1>2 DEF HoldWaiting, States, WorkItemStates
<1>3. CASE CompleteMerged(p, w)
  <2>1. state' \in [WorkItems -> States]
    BY <1>3 DEF CompleteMerged, States, WorkItemStates
  <2>2. ASSUME NEW v \in WorkItems
        PROVE  [dep[v] EXCEPT ![w] = IF @ = "ACTIVE" THEN "SETTLED" ELSE @]
                 \in [Targets -> {"none", "ACTIVE", "SETTLED"}]
    <3>1. dep[v] \in [Targets -> {"none", "ACTIVE", "SETTLED"}]
      OBVIOUS
    <3> QED
      BY ONLY <3>1
  <2>3. dep' \in [WorkItems -> [Targets -> {"none", "ACTIVE", "SETTLED"}]]
    BY <1>3, <2>2 DEF CompleteMerged
  <2> QED
    BY <1>3, <2>1, <2>3 DEF CompleteMerged, PrStates
<1>4. CASE Abandon(p, w)
  BY <1>4 DEF Abandon, PrStates
<1>5. CASE GitHub(w)
  BY <1>5 DEF GitHub, GitHubMerges, GitHubCloses, pass, PrStates
<1>6. CASE KilledMidEffect(p, w)
  BY <1>6 DEF KilledMidEffect, Strands, pass, PrStates
<1> QED
  BY <1>1, <1>2, <1>3, <1>4, <1>5, <1>6 DEF Executor

\* Reading a row, and writing it back, keep the type invariant.
LEMMA ReadRowType ==
  ASSUME TypeOK, NEW p \in Procs, NEW w \in WorkItems, NEW op \in Ops,
         NEW e, NEW t, ReadRow(p, op, w, e, t)
  PROVE  TypeOK'
<1>1. Reading(op, {w}, state[w])
        \in [op : Ops, items : SUBSET WorkItems, seen : States]
  BY ReadingType DEF TypeOK
<1> QED
  BY <1>1 DEF TypeOK, ReadRow, rows, pass

LEMMA WriteRowType ==
  ASSUME TypeOK, NEW p \in Procs, NEW w \in WorkItems, NEW op,
         NEW e, NEW t \in States, WriteRow(p, op, w, e, t)
  PROVE  TypeOK'
BY DEF TypeOK, WriteRow, Release, pass

\* The reconcile pass and the operators keep it too.
LEMMA HoldType ==
  ASSUME TypeOK, NEW p \in Procs, NEW w \in WorkItems,
         Reconcile(p, w) \/ Operate(p, w)
  PROVE  TypeOK'
<1>1. "wedge" \in Ops /\ "drift" \in Ops /\ "pause" \in Ops /\ "resume" \in Ops
      /\ "cleanup" \in Ops
  BY DEF Ops
<1>2. "FAILED_HOLD" \in States /\ "PAUSED_WORK" \in States
      /\ "QUEUED" \in States /\ "FAILED" \in States
  BY DEF States, WorkItemStates
<1>3. CASE CensusWedgeRead(p, w) \/ DriftRead(p, w)
  BY <1>1, <1>3, ReadRowType DEF CensusWedgeRead, DriftRead
<1>4. CASE PauseRead(p, w) \/ ResumeRead(p, w) \/ CleanupRead(p, w)
  BY <1>1, <1>4, ReadRowType DEF PauseRead, ResumeRead, CleanupRead
<1>5. CASE WedgeWrite(p, w) \/ DriftWrite(p, w)
  BY <1>2, <1>5, WriteRowType DEF WedgeWrite, DriftWrite
<1>6. CASE PauseWrite(p, w) \/ ResumeWrite(p, w) \/ CleanupWrite(p, w)
  BY <1>2, <1>6, WriteRowType DEF PauseWrite, ResumeWrite, CleanupWrite
<1> QED
  BY <1>3, <1>4, <1>5, <1>6 DEF Reconcile, Operate

\* Every step keeps the type invariant.
LEMMA StepType ==
  ASSUME TypeOK, [Next]_vars
  PROVE  TypeOK'
<1>1. CASE Pass
  BY <1>1, PassType
<1>2. ASSUME NEW p \in Procs, NEW w \in WorkItems,
             \/ Executor(p, w) \/ KilledMidEffect(p, w)
             \/ Reconcile(p, w) \/ Operate(p, w)
      PROVE  TypeOK'
  BY <1>2, EffectType, HoldType
<1>3. ASSUME NEW p \in Procs, NEW r \in Repos, VerifyRepo(p, r)
      PROVE  TypeOK'
  BY <1>3 DEF TypeOK, VerifyRepo, Persist, rows, pass
<1>4. ASSUME NEW p \in Procs, GiveUp(p) PROVE TypeOK'
  BY <1>4 DEF TypeOK, GiveUp, Release, rows, pass
<1>5. ASSUME NEW w \in WorkItems, GitHub(w) PROVE TypeOK'
  <2>1. Daemon \in Procs
    BY DEF Procs
  <2> QED
    BY <1>5, <2>1, EffectType
<1>6. CASE Crash
  <2>1. faults' \in 0 .. MaxFaults
    BY <1>6, LimitsAssumption DEF TypeOK, Crash
  <2>2. held' \in [Procs -> {None} \cup
                     [op : Ops, items : SUBSET WorkItems, seen : States]]
    BY <1>6 DEF TypeOK, Crash, Release
  <2>3. pr' \in [WorkItems -> PrStates]
    BY <1>6 DEF TypeOK, Crash, Strands, PrStates
  <2> QED
    BY <1>6, <2>1, <2>2, <2>3 DEF TypeOK, Crash, Phases
<1>7. CASE UNCHANGED vars
  BY <1>7 DEF TypeOK, vars, rows, pass
<1> QED
  BY <1>1, <1>2, <1>3, <1>4, <1>5, <1>6, <1>7 DEF Next

LEMMA InitType == Init => TypeOK
<1> SUFFICES ASSUME Init PROVE TypeOK
  OBVIOUS
<1>1. dep \in [WorkItems -> [Targets -> {"none", "ACTIVE", "SETTLED"}]]
  BY DEF Init
<1>2. faults \in 0 .. MaxFaults
  BY LimitsAssumption DEF Init
<1> QED
  BY <1>1, <1>2 DEF Init, TypeOK, States, Assemblies, PrStates, Phases

\* Whatever the daemon, the shell commands and GitHub do, every row, every
\* dependency and every unacted-on read keeps the values the schema and the
\* code give it.
THEOREM TypeCorrect == Spec => []TypeOK
BY InitType, StepType, PTL DEF Spec

-----------------------------------------------------------------------------
(***************************************************************************)
(* The steps that write a row.                                             *)
(***************************************************************************)

\* What a hold or an operator may overwrite a row with.
Overwrites == {"FAILED_HOLD", "PAUSED_WORK", "QUEUED", "FAILED"}

OverwriteEvents ==
  {"wedge", "drift", "pause_work", "resume_work", "cleanup"}

\* w is overwritten with t on the strength of what some process has read.
Overwrite(w, t) ==
  \E p \in Procs, op \in Ops, e \in OverwriteEvents : WriteRow(p, op, w, e, t)

RowStep ==
  \/ UNCHANGED rows
  \/ PromoteWrite
  \/ \E w \in WorkItems :
       \/ Admit(w) \/ Claim(w) \/ EnsureWorktree(w) \/ EnsureSession(w)
       \/ \E o \in Outcomes : ApplyOutcome(w, o)
       \/ \E t \in Targets : ApplyDefer(w, t)
       \/ ApplyCompleted(w)
       \/ \E p \in Procs : Executor(p, w)
       \/ GitHub(w)
       \/ Strands(w) /\ UNCHANGED <<state, dep, assembly>>
       \/ \E t \in Overwrites : Overwrite(w, t)

\* Every step leaves the rows alone or is one of those.
LEMMA RowWriters ==
  ASSUME [Next]_vars
  PROVE  RowStep
<1>1. CASE Pass
  <2>1. CASE BeginPass \/ PromoteList \/ ClaimsEnd \/ RelaysEnd \/ EndPass
    BY <2>1 DEF BeginPass, PromoteList, ClaimsEnd, RelaysEnd, EndPass, RowStep
  <2>2. ASSUME NEW w \in WorkItems,
               \/ EnsureExisting(w) \/ EnsureFails(w)
               \/ RelayBegin(w) \/ RelaySkip(w) \/ RelayEnd(w)
               \/ RelayWedgeRead(w) \/ EffectWaits(w)
        PROVE  RowStep
    BY <2>2 DEF EnsureExisting, EnsureFails, RelayBegin, RelaySkip, RelayEnd,
                RelayWedgeRead, EffectWaits, ReadRow, RowStep
  <2>3. ASSUME NEW w \in WorkItems, EffectFails(w) PROVE RowStep
    BY <2>3 DEF EffectFails, RowStep, rows
  <2> QED
    BY <1>1, <2>1, <2>2, <2>3 DEF Pass, RowStep
<1>2. ASSUME NEW p \in Procs, NEW w \in WorkItems, Reconcile(p, w)
      PROVE  RowStep
  <2>1. CASE CensusWedgeRead(p, w) \/ DriftRead(p, w)
    BY <2>1 DEF CensusWedgeRead, DriftRead, ReadRow, RowStep
  <2>2. CASE WedgeWrite(p, w) \/ DriftWrite(p, w)
    <3>1. Overwrite(w, "FAILED_HOLD")
      BY <2>2 DEF WedgeWrite, DriftWrite, Overwrite, OverwriteEvents, Ops
    <3> QED
      BY <3>1 DEF RowStep, Overwrites
  <2> QED
    BY <1>2, <2>1, <2>2 DEF Reconcile
<1>3. ASSUME NEW p \in Procs, NEW w \in WorkItems, Operate(p, w)
      PROVE  RowStep
  <2>1. CASE PauseRead(p, w) \/ ResumeRead(p, w) \/ CleanupRead(p, w)
    BY <2>1 DEF PauseRead, ResumeRead, CleanupRead, ReadRow, RowStep
  <2>2. CASE PauseWrite(p, w)
    <3>1. Overwrite(w, "PAUSED_WORK")
      BY <2>2 DEF PauseWrite, Overwrite, OverwriteEvents, Ops
    <3> QED
      BY <3>1 DEF RowStep, Overwrites
  <2>3. CASE ResumeWrite(p, w)
    <3>1. Overwrite(w, "QUEUED")
      BY <2>3 DEF ResumeWrite, Overwrite, OverwriteEvents, Ops
    <3> QED
      BY <3>1 DEF RowStep, Overwrites
  <2>4. CASE CleanupWrite(p, w)
    <3>1. Overwrite(w, "FAILED")
      BY <2>4 DEF CleanupWrite, Overwrite, OverwriteEvents, Ops
    <3> QED
      BY <3>1 DEF RowStep, Overwrites
  <2> QED
    BY <1>3, <2>1, <2>2, <2>3, <2>4 DEF Operate
<1>4. ASSUME NEW p \in Procs, NEW r \in Repos, VerifyRepo(p, r)
      PROVE  RowStep
  BY <1>4 DEF VerifyRepo, Persist, RowStep
<1>5. ASSUME NEW p \in Procs, GiveUp(p) PROVE RowStep
  BY <1>5 DEF GiveUp, RowStep
<1>6. CASE Crash \/ UNCHANGED vars
  BY <1>6 DEF Crash, RowStep, rows, vars
<1>7. ASSUME NEW p \in Procs, NEW w \in WorkItems,
             Executor(p, w) \/ KilledMidEffect(p, w)
      PROVE  RowStep
  BY <1>7 DEF RowStep, KilledMidEffect
<1>8. ASSUME NEW w \in WorkItems, GitHub(w) PROVE RowStep
  BY <1>8 DEF RowStep
<1> QED
  BY <1>1, <1>2, <1>3, <1>4, <1>5, <1>6, <1>7, <1>8 DEF Next

-----------------------------------------------------------------------------
(***************************************************************************)
(* Capacity.  Only the claim gives an item a slot, and it does so only     *)
(* when both counts are below their limits.                                *)
(***************************************************************************)

\* A claim is an Acquire of the slot pool; every other step gives slots back
\* or leaves them alone.
LEMMA OnlyClaimTakesASlot ==
  ASSUME TypeOK, [Next]_vars
  PROVE  \/ Holders' \subseteq Holders
         \/ \E w \in WorkItems :
              Fits(w) /\ w \notin Holders /\ Holders' = Holders \cup {w}
<1> DEFINE Fewer == Holders' \subseteq Holders
<1>1. RowStep
  BY RowWriters
<1>2. CASE UNCHANGED rows
  BY <1>2 DEF rows, Holders
<1>3. CASE PromoteWrite
  BY <1>3 DEF TypeOK, PromoteWrite, Holders, CapacityHolding
<1>4. ASSUME NEW w \in WorkItems, Admit(w) PROVE Fewer
  BY <1>4 DEF TypeOK, Admit, Holders, CapacityHolding
<1>5. ASSUME NEW w \in WorkItems, Claim(w)
      PROVE  Fits(w) /\ w \notin Holders /\ Holders' = Holders \cup {w}
  <2>1. Fits(w)
    BY <1>5 DEF Claim, FirstFit
  <2>2. state[w] = "QUEUED"
    BY <1>5 DEF Claim, FirstFit, Windows, Candidates
  <2> QED
    BY <1>5, <2>1, <2>2 DEF TypeOK, Claim, Holders, CapacityHolding
<1>6. ASSUME NEW w \in WorkItems, EnsureWorktree(w) \/ EnsureSession(w)
      PROVE  Fewer
  BY <1>6 DEF EnsureWorktree, EnsureSession, Holders
<1>7. ASSUME NEW w \in WorkItems, NEW o \in Outcomes, ApplyOutcome(w, o)
      PROVE  Fewer
  <2>1. w \in Holders
    BY <1>7, OutcomeFromHolder DEF ApplyOutcome, Holders
  <2> QED
    BY <1>7, <2>1 DEF TypeOK, ApplyOutcome, Holders
<1>8. ASSUME NEW w \in WorkItems, NEW t \in Targets, ApplyDefer(w, t)
      PROVE  Fewer
  BY <1>8 DEF TypeOK, ApplyDefer, Holders, CapacityHolding
<1>9. ASSUME NEW w \in WorkItems,
             \/ ApplyCompleted(w) \/ GitHub(w)
             \/ Strands(w) /\ UNCHANGED <<state, dep, assembly>>
      PROVE  Fewer
  BY <1>9 DEF ApplyCompleted, GitHub, GitHubMerges, GitHubCloses, Holders
<1>10. ASSUME NEW w \in WorkItems, NEW p \in Procs, Executor(p, w)
       PROVE  Fewer
  <2>1. CASE OpenPr(p, w) \/ Abandon(p, w)
    BY <2>1 DEF OpenPr, Abandon, Holders
  <2>2. CASE HoldWaiting(p, w)
    <3>1. state[w] = "RUNNING"
      BY <2>2, AwaitReview DEF HoldWaiting
    <3> QED
      BY <2>2, <3>1 DEF TypeOK, HoldWaiting, Holders, CapacityHolding
  <2>3. CASE CompleteMerged(p, w)
    BY <2>3 DEF TypeOK, CompleteMerged, Holders, CapacityHolding
  <2> QED
    BY <1>10, <2>1, <2>2, <2>3 DEF Executor
<1>11. ASSUME NEW w \in WorkItems, NEW t \in Overwrites, Overwrite(w, t)
       PROVE  Fewer
  <2>1. state' = [state EXCEPT ![w] = t]
    BY <1>11 DEF Overwrite, WriteRow
  <2> QED
    BY <2>1 DEF TypeOK, Overwrites, Holders, CapacityHolding
<1> QED
  BY <1>1, <1>2, <1>3, <1>4, <1>5, <1>6, <1>7, <1>8, <1>9, <1>10, <1>11
  DEF RowStep

\* Taking a slot only below both limits, and giving slots back, keeps the pool
\* within its limits.
LEMMA CapacityStep ==
  ASSUME TypeOK, CapacityRespected, [Next]_vars
  PROVE  CapacityRespected'
<1>1. IsFiniteSet(Holders) /\ \A r \in Repos : IsFiniteSet(HoldersIn(r))
  <2>1. Holders \subseteq WorkItems /\ \A r \in Repos : HoldersIn(r) \subseteq WorkItems
    BY DEF Holders, HoldersIn
  <2> QED
    BY <2>1, ItemsAssumption, FS_Subset
<1>2. CASE Holders' \subseteq Holders
  <2>1. Cardinality(Holders') <= Cardinality(Holders)
    BY <1>1, <1>2, FS_Subset
  <2>2. ASSUME NEW r \in Repos
        PROVE  Cardinality(HoldersIn(r)') <= RepoLimit[r]
    <3>1. HoldersIn(r)' \subseteq HoldersIn(r)
      BY <1>2 DEF HoldersIn
    <3>2. Cardinality(HoldersIn(r)') <= Cardinality(HoldersIn(r))
      BY <1>1, <3>1, FS_Subset
    <3>3. Cardinality(HoldersIn(r)) \in Nat /\ IsFiniteSet(HoldersIn(r)')
      BY <1>1, <3>1, FS_CardinalityType, FS_Subset
    <3>4. Cardinality(HoldersIn(r)') \in Nat
      BY <3>3, FS_CardinalityType
    <3> QED
      BY <3>2, <3>3, <3>4, LimitsAssumption DEF CapacityRespected
  <2>3. Cardinality(Holders) \in Nat /\ IsFiniteSet(Holders')
    BY <1>1, <1>2, FS_CardinalityType, FS_Subset
  <2>4. Cardinality(Holders') \in Nat
    BY <2>3, FS_CardinalityType
  <2> QED
    BY <2>1, <2>2, <2>3, <2>4, LimitsAssumption DEF CapacityRespected
<1>3. ASSUME NEW w \in WorkItems,
             Fits(w), w \notin Holders, Holders' = Holders \cup {w}
      PROVE  CapacityRespected'
  <2>1. Cardinality(Holders') = Cardinality(Holders) + 1
    BY <1>1, <1>3, FS_AddElement
  <2>2. Cardinality(Holders) \in Nat
    BY <1>1, FS_CardinalityType
  <2>3. ASSUME NEW r \in Repos
        PROVE  Cardinality(HoldersIn(r)') <= RepoLimit[r]
    <3>1. Cardinality(HoldersIn(r)) \in Nat
      BY <1>1, FS_CardinalityType
    <3>2. CASE RepoOf[w] = r
      <4>1. HoldersIn(r)' = HoldersIn(r) \cup {w} /\ w \notin HoldersIn(r)
        BY <1>3, <3>2 DEF HoldersIn
      <4>2. Cardinality(HoldersIn(r)') = Cardinality(HoldersIn(r)) + 1
        BY <1>1, <4>1, FS_AddElement
      <4> QED
        BY <1>3, <3>1, <3>2, <4>2, LimitsAssumption DEF Fits
    <3>3. CASE RepoOf[w] # r
      <4>1. HoldersIn(r)' = HoldersIn(r)
        BY <1>3, <3>3 DEF HoldersIn
      <4> QED
        BY <4>1 DEF CapacityRespected
    <3> QED
      BY <3>2, <3>3
  <2> QED
    BY <1>3, <2>1, <2>2, <2>3, LimitsAssumption DEF CapacityRespected, Fits
<1> QED
  BY <1>2, <1>3, OnlyClaimTakesASlot

\* However the daemon, shells, holds and merges interleave, and whatever row a
\* stale write overwrites, the run slots in use never exceed the global limit
\* nor the limit of a repository (queue.ts, "Capacity semantics").
THEOREM CapacityHolds == Spec => []CapacityRespected
<1>1. Init => CapacityRespected
  <2> SUFFICES ASSUME Init PROVE CapacityRespected
    OBVIOUS
  <2>1. Holders = {} /\ \A r \in Repos : HoldersIn(r) = {}
    BY DEF Init, Holders, HoldersIn, CapacityHolding
  <2> QED
    BY <2>1, FS_EmptySet, LimitsAssumption DEF CapacityRespected
<1>2. TypeOK /\ CapacityRespected /\ [Next]_vars => CapacityRespected'
  BY CapacityStep
<1> QED
  BY <1>1, <1>2, TypeCorrect, PTL DEF Spec

\* The states of the rows implement the slot pool: a claim takes one slot, and
\* every other step gives slots back or leaves the pool alone.
THEOREM SlotsImplemented == Spec => RefinesSlots
<1>1. Init => Slots!Init
  BY DEF Init, Slots!Init, Holders, CapacityHolding
<1>2. TypeOK /\ [Next]_vars => [Slots!Next]_Holders
  <2> SUFFICES ASSUME TypeOK, [Next]_vars
               PROVE  [Slots!Next]_Holders
    OBVIOUS
  <2>1. CASE Holders' \subseteq Holders
    <3>1. CASE Holders' = Holders
      BY <3>1
    <3>2. CASE Holders' # Holders
      <4>1. Holders \ Holders' \in SUBSET Holders
        OBVIOUS
      <4>2. Holders \ Holders' # {} /\ Holders' = Holders \ (Holders \ Holders')
        BY <2>1, <3>2
      <4> QED
        BY <4>1, <4>2 DEF Slots!Next, Slots!Release
    <3> QED
      BY <3>1, <3>2
  <2>2. ASSUME NEW w \in WorkItems,
               Fits(w), w \notin Holders, Holders' = Holders \cup {w}
        PROVE  Slots!Next
    <3>1. Slots!InRepo(Holders, RepoOf[w]) = HoldersIn(RepoOf[w])
      BY DEF Slots!InRepo, HoldersIn
    <3>2. ASSUME NEW S PROVE Slots!Cardinality(S) = Cardinality(S)
      BY Zenon DEF Slots!Cardinality, Cardinality
    <3>3. Slots!Acquire(w)
      BY <2>2, <3>1, <3>2 DEF Slots!Acquire, Fits
    <3> QED
      BY <3>3 DEF Slots!Next
  <2> QED
    BY <2>1, <2>2, OnlyClaimTakesASlot
<1> QED
  BY <1>1, <1>2, TypeCorrect, PTL DEF Spec, RefinesSlots, Slots!Spec

-----------------------------------------------------------------------------
(***************************************************************************)
(* Rows, pull requests and sessions agree.                                 *)
(***************************************************************************)

\* A turn is relayed only for an item that has a session.
RelayHasSession ==
  held[Daemon] # None /\ held[Daemon].op = "relay"
    => \A w \in held[Daemon].items : assembly[w] = "session"

\* The promotion writes on a read of READY rows.
PromoteReadsReady ==
  \A p \in Procs :
    held[p] # None /\ held[p].op = "promote" => held[p].seen = "READY"

ReadFacts == RelayHasSession /\ PromoteReadsReady

\* A step that keeps the sessions, and keeps or drops reads, keeps both facts.
LEMMA ReadsKept ==
  ASSUME TypeOK, ReadFacts,
         \A w \in WorkItems :
           assembly[w] = "session" => assembly'[w] = "session",
         \A p \in Procs : held'[p] \in {held[p], None}
  PROVE  ReadFacts'
<1>1. Daemon \in Procs
  BY DEF Procs
<1> QED
  BY <1>1 DEF TypeOK, ReadFacts, RelayHasSession, PromoteReadsReady

\* A step that makes a read establishes them for it.
LEMMA ReadsMade ==
  ASSUME TypeOK, ReadFacts, UNCHANGED assembly,
         NEW p \in Procs, NEW S \in SUBSET WorkItems, NEW s \in States,
         NEW op \in Ops,
         held' = [held EXCEPT ![p] = Reading(op, S, s)],
         op = "relay" => \A w \in S : assembly[w] = "session",
         op = "promote" => s = "READY"
  PROVE  ReadFacts'
<1>1. Daemon \in Procs
  BY DEF Procs
<1> QED
  BY <1>1 DEF TypeOK, ReadFacts, RelayHasSession, PromoteReadsReady, Reading

\* Both facts survive every step.
LEMMA ReadsStep ==
  ASSUME TypeOK, ReadFacts, [Next]_vars
  PROVE  ReadFacts'
<1>0. Daemon \in Procs
  BY DEF Procs
<1>3. CASE Pass
  <2>1. CASE BeginPass \/ PromoteWrite \/ ClaimsEnd \/ RelaysEnd \/ EndPass
    BY <2>1, ReadsKept
    DEF TypeOK, BeginPass, PromoteWrite, ClaimsEnd, RelaysEnd, EndPass,
        Release, rows
  <2>2. CASE PromoteList
    <3> DEFINE S == {w \in WorkItems : state[w] = "READY"}
    <3>1. CASE S = {}
      BY <2>2, <3>1, ReadsKept DEF TypeOK, PromoteList, rows
    <3>2. CASE S # {}
      <4>1. held' = [held EXCEPT ![Daemon] = Reading("promote", S, "READY")]
            /\ UNCHANGED assembly
        BY <2>2, <3>2 DEF PromoteList, rows
      <4>2. S \in SUBSET WorkItems /\ "READY" \in States /\ "promote" \in Ops
        BY DEF States, WorkItemStates, Ops
      <4> QED
        BY <1>0, <4>1, <4>2, ReadsMade
    <3> QED
      BY <3>1, <3>2
  <2>3. ASSUME NEW w \in WorkItems, Claim(w) PROVE ReadFacts'
    <3>1. held' = [held EXCEPT ![Daemon] = Reading("ensure", {w}, "RUNNING")]
          /\ UNCHANGED assembly
      BY <2>3 DEF Claim
    <3>2. {w} \in SUBSET WorkItems /\ "RUNNING" \in States /\ "ensure" \in Ops
      BY DEF States, WorkItemStates, Ops
    <3> QED
      BY <1>0, <3>1, <3>2, ReadsMade
  <2>4. ASSUME NEW w \in WorkItems, EnsureWorktree(w) PROVE ReadFacts'
    BY <1>0, <2>4
    DEF EnsureWorktree, Holds, TypeOK, ReadFacts, RelayHasSession,
        PromoteReadsReady
  <2>5. ASSUME NEW w \in WorkItems, RelayBegin(w) PROVE ReadFacts'
    <3>1. held' = [held EXCEPT ![Daemon] = Reading("relay", {w}, state[w])]
          /\ UNCHANGED assembly /\ assembly[w] = "session"
      BY <2>5 DEF RelayBegin, rows
    <3>2. {w} \in SUBSET WorkItems /\ state[w] \in States /\ "relay" \in Ops
      BY DEF TypeOK, Ops
    <3> QED
      BY <1>0, <3>1, <3>2, ReadsMade
  <2>6. ASSUME NEW w \in WorkItems, RelayWedgeRead(w) PROVE ReadFacts'
    <3>1. held' = [held EXCEPT ![Daemon] = Reading("wedge", {w}, state[w])]
          /\ UNCHANGED assembly
      BY <2>6 DEF RelayWedgeRead, ReadRow, rows
    <3>2. {w} \in SUBSET WorkItems /\ state[w] \in States /\ "wedge" \in Ops
      BY DEF TypeOK, Ops
    <3> QED
      BY <1>0, <3>1, <3>2, ReadsMade
  <2>7. ASSUME NEW w \in WorkItems,
               \/ Admit(w) \/ EnsureExisting(w) \/ EnsureSession(w)
               \/ EnsureFails(w) \/ RelaySkip(w) \/ RelayEnd(w)
        PROVE  ReadFacts'
    BY <2>7, ReadsKept
    DEF TypeOK, Admit, EnsureExisting, EnsureSession, EnsureFails, RelaySkip,
        RelayEnd, Release, rows
  <2>8. ASSUME NEW w \in WorkItems,
               \/ \E o \in Outcomes : ApplyOutcome(w, o)
               \/ \E t \in Targets : ApplyDefer(w, t)
               \/ ApplyCompleted(w) \/ EffectWaits(w) \/ EffectFails(w)
        PROVE  ReadFacts'
    BY <2>8, ReadsKept
    DEF TypeOK, ApplyOutcome, ApplyDefer, ApplyCompleted, EffectWaits,
        EffectFails, Release, rows
  <2> QED
    BY <1>3, <2>1, <2>2, <2>3, <2>4, <2>5, <2>6, <2>7, <2>8 DEF Pass
<1>4. ASSUME NEW p \in Procs, NEW w \in WorkItems,
             Executor(p, w) \/ KilledMidEffect(p, w)
      PROVE  ReadFacts'
  BY <1>4, ReadsKept
  DEF TypeOK, Executor, OpenPr, HoldWaiting, CompleteMerged, Abandon,
      KilledMidEffect
<1>5. ASSUME NEW p \in Procs, NEW w \in WorkItems,
             Reconcile(p, w) \/ Operate(p, w)
      PROVE  ReadFacts'
  <2>1. ASSUME NEW op \in Ops \ {"relay", "promote"}, NEW e, NEW t,
               ReadRow(p, op, w, e, t)
        PROVE  ReadFacts'
    BY <2>1, ReadsMade DEF TypeOK, ReadRow, rows
  <2>2. ASSUME NEW op, NEW e, NEW t, WriteRow(p, op, w, e, t) PROVE ReadFacts'
    BY <2>2, ReadsKept DEF TypeOK, WriteRow, Release
  <2>3. {"wedge", "drift", "pause", "resume", "cleanup"}
          \subseteq Ops \ {"relay", "promote"}
    BY DEF Ops
  <2>4. CASE CensusWedgeRead(p, w) \/ DriftRead(p, w) \/ PauseRead(p, w)
             \/ ResumeRead(p, w) \/ CleanupRead(p, w)
    BY <2>1, <2>3, <2>4
    DEF CensusWedgeRead, DriftRead, PauseRead, ResumeRead, CleanupRead
  <2>5. CASE WedgeWrite(p, w) \/ DriftWrite(p, w) \/ PauseWrite(p, w)
             \/ ResumeWrite(p, w) \/ CleanupWrite(p, w)
    BY <2>2, <2>5
    DEF WedgeWrite, DriftWrite, PauseWrite, ResumeWrite, CleanupWrite
  <2> QED
    BY <1>5, <2>4, <2>5 DEF Reconcile, Operate
<1>6. ASSUME NEW p \in Procs, NEW r \in Repos, VerifyRepo(p, r) PROVE ReadFacts'
  BY <1>6, ReadsKept DEF TypeOK, VerifyRepo, Persist, rows
<1>7. ASSUME NEW p \in Procs, GiveUp(p) PROVE ReadFacts'
  BY <1>7, ReadsKept DEF TypeOK, GiveUp, Release, rows
<1>8. ASSUME NEW w \in WorkItems, GitHub(w) PROVE ReadFacts'
  BY <1>8, ReadsKept DEF TypeOK, GitHub, GitHubMerges, GitHubCloses
<1>9. CASE Crash \/ UNCHANGED vars
  BY <1>9, ReadsKept DEF TypeOK, Crash, Release, rows, vars
<1> QED
  BY <1>3, <1>4, <1>5, <1>6, <1>7, <1>8, <1>9 DEF Next

\* A COMPLETED item's merge has been recorded, and no step takes that back.
LEMMA CompletedStep ==
  ASSUME TypeOK, CompletedMeansMerged, [Next]_vars
  PROVE  CompletedMeansMerged'
<1> DEFINE Goal == CompletedMeansMerged'
<1> USE DEF TypeOK, CompletedMeansMerged
<1>1. RowStep
  BY RowWriters
<1>2. CASE UNCHANGED rows
  BY <1>2 DEF rows
<1>3. CASE PromoteWrite
  BY <1>3 DEF PromoteWrite
<1>4. ASSUME NEW w \in WorkItems,
             \/ Admit(w) \/ Claim(w) \/ EnsureWorktree(w) \/ EnsureSession(w)
             \/ \E t \in Targets : ApplyDefer(w, t)
             \/ ApplyCompleted(w) \/ GitHub(w)
             \/ Strands(w) /\ UNCHANGED <<state, dep, assembly>>
      PROVE  Goal
  BY <1>4 DEF Admit, Claim, EnsureWorktree, EnsureSession, ApplyDefer,
              ApplyCompleted, GitHub, GitHubMerges, GitHubCloses, Strands,
              PendingEffect
<1>5. ASSUME NEW w \in WorkItems, NEW o \in Outcomes, ApplyOutcome(w, o)
      PROVE  Goal
  <2>1. OutcomeTo[o] \in CapacityHolding
    BY <1>5, OutcomeFromHolder DEF ApplyOutcome
  <2> QED
    BY <1>5, <2>1 DEF ApplyOutcome, CapacityHolding
<1>6. ASSUME NEW w \in WorkItems, NEW p \in Procs, Executor(p, w)
      PROVE  Goal
  BY <1>6 DEF Executor, OpenPr, HoldWaiting, CompleteMerged, Abandon
<1>7. ASSUME NEW w \in WorkItems, NEW t \in Overwrites, Overwrite(w, t)
      PROVE  Goal
  BY <1>7 DEF Overwrite, Overwrites, WriteRow
<1> QED
  BY <1>1, <1>2, <1>3, <1>4, <1>5, <1>6, <1>7 DEF RowStep

\* No envelope, hold, operator or stale write completes an item: COMPLETED
\* always means that a merge was verified (completeMergedWorkItem).
THEOREM CompletionIsVerified == Spec => []CompletedMeansMerged
<1>1. Init => CompletedMeansMerged
  BY DEF Init, CompletedMeansMerged
<1>2. TypeOK /\ CompletedMeansMerged /\ [Next]_vars => CompletedMeansMerged'
  BY CompletedStep
<1> QED
  BY <1>1, <1>2, TypeCorrect, PTL DEF Spec

\* A DEFERRED item keeps an ACTIVE row: the step that settles its rows takes
\* it out of DEFERRED.
LEMMA DeferredStep ==
  ASSUME TypeOK, DeferredHasActiveRow, [Next]_vars
  PROVE  DeferredHasActiveRow'
<1> DEFINE Goal == DeferredHasActiveRow'
<1> USE DEF TypeOK, DeferredHasActiveRow
<1>1. RowStep
  BY RowWriters
<1>2. CASE UNCHANGED rows
  BY <1>2 DEF rows
<1>3. CASE PromoteWrite
  BY <1>3 DEF PromoteWrite
<1>4. ASSUME NEW w \in WorkItems,
             \/ Admit(w) \/ Claim(w) \/ EnsureWorktree(w) \/ EnsureSession(w)
             \/ ApplyCompleted(w) \/ GitHub(w)
             \/ Strands(w) /\ UNCHANGED <<state, dep, assembly>>
      PROVE  Goal
  BY <1>4 DEF Admit, Claim, EnsureWorktree, EnsureSession,
              ApplyCompleted, GitHub, GitHubMerges, GitHubCloses
<1>5. ASSUME NEW w \in WorkItems, NEW o \in Outcomes, ApplyOutcome(w, o)
      PROVE  Goal
  <2>1. OutcomeTo[o] \in CapacityHolding
    BY <1>5, OutcomeFromHolder DEF ApplyOutcome
  <2> QED
    BY <1>5, <2>1 DEF ApplyOutcome, CapacityHolding
<1>6. ASSUME NEW w \in WorkItems, NEW t \in Targets, ApplyDefer(w, t)
      PROVE  Goal
  BY <1>6 DEF ApplyDefer
<1>7. ASSUME NEW w \in WorkItems, NEW p \in Procs, Executor(p, w)
      PROVE  Goal
  <2>1. CASE OpenPr(p, w) \/ HoldWaiting(p, w) \/ Abandon(p, w)
    BY <2>1 DEF OpenPr, HoldWaiting, Abandon
  <2>2. CASE CompleteMerged(p, w)
    <3> SUFFICES ASSUME NEW v \in WorkItems, state'[v] = "DEFERRED"
                 PROVE  \E t \in Targets : dep'[v][t] = "ACTIVE"
      BY DEF DeferredHasActiveRow
    <3>1. state[v] = "DEFERRED" /\ dep[v][w] # "ACTIVE"
      BY <2>2 DEF CompleteMerged
    <3>2. PICK t \in Targets : dep[v][t] = "ACTIVE"
      BY <3>1
    <3>3. dep'[v][t] = dep[v][t]
      BY <2>2, <3>1, <3>2 DEF CompleteMerged
    <3> QED
      BY <3>2, <3>3
  <2> QED
    BY <1>7, <2>1, <2>2 DEF Executor
<1>8. ASSUME NEW w \in WorkItems, NEW t \in Overwrites, Overwrite(w, t)
      PROVE  Goal
  BY <1>8 DEF Overwrite, Overwrites, WriteRow
<1> QED
  BY <1>1, <1>2, <1>3, <1>4, <1>5, <1>6, <1>7, <1>8 DEF RowStep

\* A deferred item is never stranded without a row that can release it,
\* whatever crashes or stale writes come between.
THEOREM DeferredIsRecorded == Spec => []DeferredHasActiveRow
<1>1. Init => DeferredHasActiveRow
  BY DEF Init, DeferredHasActiveRow
<1>2. TypeOK /\ DeferredHasActiveRow /\ [Next]_vars => DeferredHasActiveRow'
  BY DeferredStep
<1> QED
  BY <1>1, <1>2, TypeCorrect, PTL DEF Spec

\* Work under way keeps its session: what is reported needs a session to be
\* relayed to, and what GitHub adds needs a pull request.
LEMMA WorkStep ==
  ASSUME TypeOK, RelayHasSession, WorkHasSession, [Next]_vars
  PROVE  WorkHasSession'
<1> DEFINE Goal == WorkHasSession'
<1> USE DEF TypeOK, WorkHasSession
<1>1. RowStep
  BY RowWriters
<1>2. CASE UNCHANGED rows
  BY <1>2 DEF rows
<1>3. CASE PromoteWrite
  BY <1>3 DEF PromoteWrite
<1>4. ASSUME NEW w \in WorkItems,
             \/ Admit(w) \/ Claim(w) \/ EnsureWorktree(w) \/ EnsureSession(w)
             \/ GitHub(w)
             \/ Strands(w) /\ UNCHANGED <<state, dep, assembly>>
      PROVE  Goal
  BY <1>4 DEF Admit, Claim, EnsureWorktree, EnsureSession,
              GitHub, GitHubMerges, GitHubCloses, Strands,
              PendingEffect
<1>5. ASSUME NEW w \in WorkItems,
             \/ \E o \in Outcomes : ApplyOutcome(w, o)
             \/ \E t \in Targets : ApplyDefer(w, t)
             \/ ApplyCompleted(w)
      PROVE  Goal
  <2>1. assembly[w] = "session"
    BY <1>5 DEF ApplyOutcome, ApplyDefer, ApplyCompleted, Holds, RelayHasSession
  <2> QED
    BY <1>5, <2>1 DEF ApplyOutcome, ApplyDefer, ApplyCompleted
<1>6. ASSUME NEW w \in WorkItems, NEW p \in Procs, Executor(p, w)
      PROVE  Goal
  BY <1>6 DEF Executor, OpenPr, HoldWaiting, CompleteMerged, Abandon
<1>7. ASSUME NEW w \in WorkItems, NEW t \in Overwrites, Overwrite(w, t)
      PROVE  Goal
  BY <1>7 DEF Overwrite, Overwrites, WriteRow
<1> QED
  BY <1>1, <1>2, <1>3, <1>4, <1>5, <1>6, <1>7 DEF RowStep

\* The inductive invariant of the two properties about reads and sessions.
IInv == TypeOK /\ ReadFacts /\ WorkHasSession

LEMMA Inductive == Spec => []IInv
<1>1. Init => IInv
  <2>1. Init => ReadFacts /\ WorkHasSession
    BY DEF Init, ReadFacts, RelayHasSession, PromoteReadsReady, WorkHasSession,
           Procs
  <2> QED
    BY <2>1, InitType DEF IInv
<1>2. IInv /\ [Next]_vars => IInv'
  BY StepType, ReadsStep, WorkStep DEF IInv, ReadFacts
<1> QED
  BY <1>1, <1>2, PTL DEF Spec

\* Nothing is under review, waits for a decision or a dependency, or has a pull
\* request, without the session that did the work.
THEOREM WorkStandsOnASession == Spec => []WorkHasSession
<1>1. IInv => WorkHasSession
  BY DEF IInv
<1> QED
  BY <1>1, Inductive, PTL

-----------------------------------------------------------------------------
(***************************************************************************)
(* What a step may never do.                                               *)
(***************************************************************************)

\* The states that every write but a stale one leaves are not terminal.
LEMMA NotTerminal ==
  \A s \in {"ABSENT", "READY", "QUEUED", "RUNNING", "WAITING", "DEFERRED"} :
    s \notin Terminal
<1>1. ~IsTerminal(WorkItemTransitions, "READY")
      /\ ~IsTerminal(WorkItemTransitions, "QUEUED")
      /\ ~IsTerminal(WorkItemTransitions, "WAITING")
      /\ ~IsTerminal(WorkItemTransitions, "DEFERRED")
  BY LegalTriples, LegalIsNotTerminal
<1>2. ~IsTerminal(WorkItemTransitions, "RUNNING")
  <2>1. IsLegal(WorkItemTransitions, "RUNNING", "defer", "DEFERRED")
    BY DEF IsLegal, WorkItemTransitions, Rule
  <2> QED
    BY <2>1, LegalIsNotTerminal
<1>3. "ABSENT" \notin WorkItemStates
  BY DEF WorkItemStates
<1> QED
  BY <1>1, <1>2, <1>3 DEF Terminal

\* A legal triple is one of the rules between its states.
LEMMA LegalIsARule ==
  ASSUME NEW s, NEW e, NEW t, IsLegal(WorkItemTransitions, s, e, t)
  PROVE  Rules(s, t)
<1> DEFINE m == <<s, e, t>>
<1>1. m \in WorkItemTransitions /\ m[1] = s /\ m[3] = t
  BY DEF IsLegal
<1> QED
  BY <1>1 DEF Rules

\* The moves whose triple the code does not look up.
LEMMA RulesTaken ==
  /\ Rules("READY", "QUEUED")
  /\ Rules("QUEUED", "RUNNING")
  /\ Rules("DEFERRED", "READY")
BY LegalTriples, LegalIsARule

\* How a step may change the state of an item.
Follows(w) ==
  \/ Rules(state[w], state'[w])
  \/ state[w] = "ABSENT" /\ state'[w] = "READY"
  \/ state[w] = "WAITING" /\ state'[w] = "COMPLETED"
  \/ StaleReader(w)

\* Every statement that moves a row follows the table from what is there, or from what
\* its process has read.
LEMMA MoveStep ==
  ASSUME TypeOK, PromoteReadsReady, [Next]_vars, NEW w \in WorkItems, state'[w] # state[w]
  PROVE  Follows(w)
<1> USE DEF TypeOK
<1>1. RowStep
  BY RowWriters
<1>2. CASE UNCHANGED rows
  BY <1>2 DEF rows
<1>3. CASE PromoteWrite
  <2>1. Daemon \in Procs
    BY DEF Procs
  <2>2. /\ w \in held[Daemon].items /\ held[Daemon] # None
        /\ held[Daemon].seen = "READY"
        /\ state'[w] = "QUEUED"
    BY <1>3, <2>1 DEF PromoteWrite, Idle, PromoteReadsReady
  <2> QED
    BY <2>1, <2>2, RulesTaken DEF Follows, StaleReader
<1>4. ASSUME NEW v \in WorkItems, Admit(v) \/ Claim(v) PROVE Follows(w)
  <2>1. \/ state[w] = "ABSENT" /\ state'[w] = "READY"
        \/ state[w] = "QUEUED" /\ state'[w] = "RUNNING"
    BY <1>4 DEF Admit, Claim, FirstFit, Windows, Candidates
  <2> QED
    BY <2>1, RulesTaken DEF Follows
<1>5. ASSUME NEW v \in WorkItems,
             \/ EnsureWorktree(v) \/ EnsureSession(v) \/ ApplyCompleted(v)
             \/ GitHub(v)
             \/ Strands(v) /\ UNCHANGED <<state, dep, assembly>>
      PROVE  FALSE
  BY <1>5 DEF EnsureWorktree, EnsureSession, ApplyCompleted,
              GitHub, GitHubMerges, GitHubCloses, Strands,
              PendingEffect
<1>6. ASSUME NEW v \in WorkItems,
             \/ \E o \in Outcomes : ApplyOutcome(v, o)
             \/ \E t \in Targets : ApplyDefer(v, t)
      PROVE  Follows(w)
  <2>1. v = w
    BY <1>6 DEF ApplyOutcome, ApplyDefer
  <2>2. \E e : IsLegal(WorkItemTransitions, state[w], e, state'[w])
    BY <1>6, <2>1 DEF ApplyOutcome, ApplyDefer
  <2> QED
    BY <2>2, LegalIsARule DEF Follows
<1>7. ASSUME NEW v \in WorkItems, NEW p \in Procs, Executor(p, v) PROVE Follows(w)
  <2>1. CASE OpenPr(p, v) \/ Abandon(p, v)
    BY <2>1 DEF OpenPr, Abandon
  <2>2. CASE HoldWaiting(p, v)
    <3>1. IsLegal(WorkItemTransitions, state[w], "await_review", state'[w])
      BY <2>2 DEF HoldWaiting
    <3> QED
      BY <3>1, LegalIsARule DEF Follows
  <2>3. CASE CompleteMerged(p, v)
    <3>1. CASE state'[w] = "READY" /\ state[w] = "DEFERRED"
      BY <3>1, RulesTaken DEF Follows
    <3>2. CASE ~(state'[w] = "READY" /\ state[w] = "DEFERRED")
      <4>1. /\ state'[w] = "COMPLETED"
            /\ state[w] # "WAITING" =>
                 IsLegal(WorkItemTransitions, state[w], "completed", "COMPLETED")
        BY <2>3, <3>2 DEF CompleteMerged
      <4> QED
        BY <4>1, LegalIsARule DEF Follows
    <3> QED
      BY <3>1, <3>2
  <2> QED
    BY <1>7, <2>1, <2>2, <2>3 DEF Executor
<1>8. ASSUME NEW v \in WorkItems, NEW t \in Overwrites, Overwrite(v, t)
      PROVE  Follows(w)
  <2>1. PICK p \in Procs, op \in Ops, e \in OverwriteEvents :
               WriteRow(p, op, v, e, t)
    BY <1>8 DEF Overwrite
  <2>2. v = w /\ held[p] # None /\ w \in held[p].items /\ state'[w] = t
    BY <2>1 DEF WriteRow, Holds
  <2>3. Rules(held[p].seen, t)
    BY <2>1, LegalIsARule DEF WriteRow
  <2> QED
    BY <2>2, <2>3 DEF Follows, StaleReader
<1> QED
  BY <1>1, <1>2, <1>3, <1>4, <1>5, <1>6, <1>7, <1>8 DEF RowStep

\* The rules do not leave a terminal state, so only a stale read does.
LEMMA TerminalStep ==
  ASSUME TypeOK, PromoteReadsReady, [Next]_vars,
         NEW w \in WorkItems, state[w] \in Terminal, state'[w] # state[w]
  PROVE  StaleReader(w)
<1>1. ~Rules(state[w], state'[w])
  BY DEF Rules, Terminal, IsTerminal
<1>2. state[w] \notin {"ABSENT", "WAITING"}
  BY NotTerminal
<1> QED
  BY <1>1, <1>2, MoveStep DEF Follows

\* A row moves as the audit rows say, whatever interleaves (recordTransition and
\* setWorkItemState), except where a process writes what an old read allows.
THEOREM MovesAreAudited == Spec => MovesFollowTheTable
<1>1. IInv /\ [Next]_vars
        => [\A w \in WorkItems :
              state'[w] # state[w] =>
                \/ Rules(state[w], state'[w])
                \/ state[w] = "ABSENT" /\ state'[w] = "READY"
                \/ state[w] = "WAITING" /\ state'[w] = "COMPLETED"
                \/ StaleReader(w)]_vars
  BY MoveStep DEF IInv, ReadFacts, Follows
<1> QED
  BY <1>1, Inductive, PTL DEF Spec, MovesFollowTheTable

\* No transaction that reads the row it acts on ever leaves a terminal state:
\* where a settled item moves, some process held a read that was out of date.
THEOREM OnlyStaleWritesUndoTerminal == Spec => TerminalMovesOnlyByStaleWrite
<1>1. IInv /\ [Next]_vars
        => [\A w \in WorkItems :
              state[w] \in Terminal /\ state'[w] # state[w]
                => StaleReader(w)]_vars
  BY TerminalStep DEF IInv, ReadFacts
<1> QED
  BY <1>1, Inductive, PTL DEF Spec, TerminalMovesOnlyByStaleWrite

\* The daemon's read is still true.
FreshRead ==
  held[Daemon] # None => \A w \in held[Daemon].items : held[Daemon].seen = state[w]

\* Alone, the daemon writes or drops what it has read before it does anything else.
LEMMA FreshStep ==
  ASSUME TypeOK, FreshRead, Procs = {Daemon}, [Next]_vars
  PROVE  FreshRead'
<1> USE DEF TypeOK, FreshRead
<1>1. ASSUME UNCHANGED <<state, held>>
      PROVE  FreshRead'
  BY <1>1
<1>2. ASSUME held'[Daemon] = None
      PROVE  FreshRead'
  BY <1>2
<1>3. ASSUME NEW S \in SUBSET WorkItems, NEW s, NEW op,
             held' = [held EXCEPT ![Daemon] = Reading(op, S, s)], \A w \in S : state'[w] = s
      PROVE  FreshRead'
  BY <1>3 DEF Reading
<1>4. ASSUME NEW op, NEW w \in WorkItems, NEW e, NEW to, ReadRow(Daemon, op, w, e, to)
      PROVE  FreshRead'
  <2>1. held' = [held EXCEPT ![Daemon] = Reading(op, {w}, state[w])] /\ state' = state
    BY <1>4 DEF ReadRow, rows
  <2>2. {w} \in SUBSET WorkItems /\ \A v \in {w} : state'[v] = state[w]
    BY <2>1
  <2> QED
    BY <2>1, <2>2, <1>3
<1>5. ASSUME NEW op, NEW w \in WorkItems, NEW e, NEW to, WriteRow(Daemon, op, w, e, to)
      PROVE  FreshRead'
  BY <1>2, <1>5 DEF WriteRow, Release
<1>6. CASE Pass
  <2>1. CASE BeginPass \/ ClaimsEnd \/ RelaysEnd \/ EndPass
             \/ \E w \in WorkItems : RelaySkip(w) \/ EffectWaits(w) \/ EffectFails(w)
    BY <1>1, <2>1 DEF BeginPass, ClaimsEnd, RelaysEnd, EndPass, RelaySkip, EffectWaits,
       EffectFails, rows
  <2>2. CASE PromoteWrite \/ \E w \in WorkItems :
               \/ EnsureExisting(w) \/ EnsureSession(w) \/ EnsureFails(w) \/ RelayEnd(w)
               \/ (\E o \in Outcomes : ApplyOutcome(w, o))
               \/ (\E d \in Targets : ApplyDefer(w, d)) \/ ApplyCompleted(w)
    BY <1>2, <2>2 DEF PromoteWrite, EnsureExisting, EnsureSession, EnsureFails, RelayEnd,
       ApplyOutcome, ApplyDefer, ApplyCompleted, Release
  <2>3. CASE PromoteList
    <3> DEFINE S == {w \in WorkItems : state[w] = "READY"}
    <3>1. held' = [held EXCEPT ![Daemon] =
                     IF S = {} THEN None ELSE Reading("promote", S, "READY")]
          /\ state' = state
      BY <2>3 DEF PromoteList, rows
    <3>2. \A w \in S : state[w] = "READY"
      OBVIOUS
    <3> HIDE DEF S
    <3>3. CASE S = {}
      BY <1>2, <3>1, <3>3
    <3>4. CASE S # {} /\ S \in SUBSET WorkItems
      <4>1. held' = [held EXCEPT ![Daemon] = Reading("promote", S, "READY")]
        BY <3>1, <3>4
      <4>2. \A w \in S : state'[w] = "READY"
        BY <3>1, <3>2
      <4> QED
        BY ONLY <1>3, <3>4, <4>1, <4>2
    <3> QED
      BY <3>3, <3>4 DEF S
  <2>4. ASSUME NEW w \in WorkItems, Admit(w)
        PROVE  FreshRead'
    BY <1>2, <2>4 DEF Admit, Idle
  <2>5. ASSUME NEW w \in WorkItems, Claim(w)
        PROVE  FreshRead'
    <3>1. held' = [held EXCEPT ![Daemon] = Reading("ensure", {w}, "RUNNING")]
          /\ state'[w] = "RUNNING"
      BY <2>5 DEF Claim
    <3>2. {w} \in SUBSET WorkItems /\ \A v \in {w} : state'[v] = "RUNNING"
      BY <3>1
    <3> QED
      BY <1>3, <3>1, <3>2
  <2>6. ASSUME NEW w \in WorkItems, EnsureWorktree(w)
        PROVE  FreshRead'
    BY <2>6 DEF EnsureWorktree, Holds
  <2>7. ASSUME NEW w \in WorkItems, RelayBegin(w)
        PROVE  FreshRead'
    <3>1. held' = [held EXCEPT ![Daemon] = Reading("relay", {w}, state[w])] /\ state' = state
      BY <2>7 DEF RelayBegin, rows
    <3>2. {w} \in SUBSET WorkItems /\ \A v \in {w} : state'[v] = state[w]
      BY <3>1
    <3> QED
      BY <1>3, <3>1, <3>2
  <2>8. ASSUME NEW w \in WorkItems, RelayWedgeRead(w)
        PROVE  FreshRead'
    BY <1>4, <2>8 DEF RelayWedgeRead
  <2> QED
    BY <1>6, <2>1, <2>2, <2>3, <2>4, <2>5, <2>6, <2>7, <2>8 DEF Pass
<1>7. ASSUME NEW w \in WorkItems, Executor(Daemon, w)
      PROVE  FreshRead'
  <2>1. held[Daemon] = None /\ held' = held
    BY <1>7 DEF Executor, OpenPr, HoldWaiting, CompleteMerged, Abandon, Executes, Idle
  <2> QED
    BY <1>2, <2>1
<1>8. ASSUME NEW w \in WorkItems, Reconcile(Daemon, w) \/ Operate(Daemon, w)
      PROVE  FreshRead'
  BY <1>4, <1>5, <1>8 DEF Reconcile, Operate, CensusWedgeRead, WedgeWrite, DriftRead, DriftWrite,
     PauseRead, PauseWrite, ResumeRead, ResumeWrite, CleanupRead, CleanupWrite
<1>9. ASSUME \/ \E w \in WorkItems : KilledMidEffect(Daemon, w) \/ GitHub(w)
             \/ \E r \in Repos : VerifyRepo(Daemon, r)
             \/ UNCHANGED vars
      PROVE  FreshRead'
  BY <1>1, <1>9 DEF KilledMidEffect, GitHub, GitHubMerges, GitHubCloses, VerifyRepo, rows, vars
<1>10. ASSUME GiveUp(Daemon) \/ Crash
       PROVE  FreshRead'
  BY <1>2, <1>10 DEF GiveUp, Crash, Release
<1> QED
  BY <1>6, <1>7, <1>8, <1>9, <1>10 DEF Next

\* Where the daemon is the only process, no row that is terminal ever changes
\* (transitions.ts, the gate and the row "cannot drift apart"): what undoes it
\* takes an operator's command or a second reconcile pass.
THEOREM TerminalIsFinalAlone ==
  ASSUME Operators = {}, Reconcilers = {}
  PROVE  Spec => TerminalIsFinal
<1>1. Procs = {Daemon}
  BY DEF Procs
<1>2. Init => FreshRead
  BY <1>1 DEF Init, FreshRead
<1>3. IInv /\ FreshRead /\ [Next]_vars => FreshRead'
  BY <1>1, FreshStep DEF IInv
<1>4. FreshRead => \A w \in WorkItems : ~StaleReader(w)
  BY <1>1 DEF FreshRead, StaleReader
<1>5. IInv /\ FreshRead /\ [Next]_vars
        => [\A w \in WorkItems : state[w] \in Terminal => state'[w] = state[w]]_vars
  BY <1>4, TerminalStep DEF IInv, ReadFacts
<1> QED
  BY <1>2, <1>3, <1>5, Inductive, PTL DEF Spec, TerminalIsFinal

\* A deferred item becomes READY only in the step that records the merge of a
\* pull request it waits for.
LEMMA ReleaseStep ==
  ASSUME TypeOK, [Next]_vars,
         NEW w \in WorkItems, state[w] = "DEFERRED", state'[w] = "READY"
  PROVE  \E d \in WorkItems :
           dep[w][d] = "ACTIVE" /\ pr[d] = "merged" /\ pr'[d] = "settled"
<1> USE DEF TypeOK
<1>1. RowStep
  BY RowWriters
<1>2. CASE UNCHANGED rows \/ PromoteWrite
  BY <1>2 DEF rows, PromoteWrite
<1>3. ASSUME NEW v \in WorkItems,
             \/ Admit(v) \/ Claim(v) \/ EnsureWorktree(v) \/ EnsureSession(v)
             \/ \E t \in Targets : ApplyDefer(v, t)
             \/ ApplyCompleted(v) \/ GitHub(v)
             \/ Strands(v) /\ UNCHANGED <<state, dep, assembly>>
      PROVE  FALSE
  BY <1>3 DEF Admit, Claim, EnsureWorktree, EnsureSession, ApplyDefer,
              ApplyCompleted, GitHub, GitHubMerges, GitHubCloses
<1>4. ASSUME NEW v \in WorkItems, NEW o \in Outcomes, ApplyOutcome(v, o)
      PROVE  FALSE
  <2>1. OutcomeTo[o] \in CapacityHolding
    BY <1>4, OutcomeFromHolder DEF ApplyOutcome
  <2> QED
    BY <1>4, <2>1 DEF ApplyOutcome, CapacityHolding
<1>5. ASSUME NEW v \in WorkItems, NEW p \in Procs, Executor(p, v)
      PROVE  dep[w][v] = "ACTIVE" /\ pr[v] = "merged" /\ pr'[v] = "settled"
  BY <1>5 DEF Executor, OpenPr, HoldWaiting, CompleteMerged, Abandon
<1>6. ASSUME NEW v \in WorkItems, NEW t \in Overwrites, Overwrite(v, t)
      PROVE  FALSE
  BY <1>6 DEF Overwrite, Overwrites, WriteRow
<1> QED
  BY <1>1, <1>2, <1>3, <1>4, <1>5, <1>6 DEF RowStep

\* Restarts, elapsed time, reconcile passes, operators and other items' merges
\* release nothing (README, "deferred").
THEOREM MergeAloneReleases == Spec => ReleasedOnlyByMerge
<1>1. TypeOK /\ [Next]_vars
        => [\A w \in WorkItems :
              state[w] = "DEFERRED" /\ state'[w] = "READY"
              => \E d \in WorkItems :
                   dep[w][d] = "ACTIVE" /\ pr[d] = "merged"
                     /\ pr'[d] = "settled"]_vars
  BY ReleaseStep
<1> QED
  BY <1>1, TypeCorrect, PTL DEF Spec, ReleasedOnlyByMerge

-----------------------------------------------------------------------------
(***************************************************************************)
(* Dependencies never form a circle.  A row x -> y is on no circle when    *)
(* some set of targets is closed under "waits for", holds y and not x; a   *)
(* closed set stays closed when rows settle, and the row a deferral adds   *)
(* can be kept out of, or taken into, each of those sets.                  *)
(***************************************************************************)

Closed(S) ==
  \A x \in S \cap WorkItems, y \in Targets : dep[x][y] = "ACTIVE" => y \in S

\* What WaitsFor says, the other way round.
LEMMA NotWaiting ==
  ASSUME NEW t, NEW w
  PROVE  ~WaitsFor(t, w)
           <=> \E S \in SUBSET Targets : t \in S /\ w \notin S /\ Closed(S)
BY DEF WaitsFor, Closed

\* No row becomes ACTIVE: what was closed stays closed.
LEMMA FewerRows ==
  ASSUME TypeOK, NoDependencyCycle,
         \A x \in WorkItems, y \in Targets :
           dep'[x][y] = "ACTIVE" => dep[x][y] = "ACTIVE"
  PROVE  NoDependencyCycle'
<1> SUFFICES ASSUME NEW x \in WorkItems, NEW y \in Targets,
                    dep'[x][y] = "ACTIVE"
             PROVE  \E S \in SUBSET Targets :
                      y \in S /\ x \notin S /\ Closed(S)'
  BY DEF NoDependencyCycle, WaitsFor, Closed
<1>1. PICK S \in SUBSET Targets : y \in S /\ x \notin S /\ Closed(S)
  BY NotWaiting DEF NoDependencyCycle
<1> QED
  BY <1>1 DEF Closed

\* One row w -> t becomes ACTIVE, and t does not wait for w.
LEMMA OneRow ==
  ASSUME TypeOK, NoDependencyCycle,
         NEW w \in WorkItems, NEW t \in Targets, ~WaitsFor(t, w),
         dep' = [dep EXCEPT ![w][t] = "ACTIVE"]
  PROVE  NoDependencyCycle'
<1>1. PICK T \in SUBSET Targets : t \in T /\ w \notin T /\ Closed(T)
  BY NotWaiting
<1>2. \A x \in WorkItems, y \in Targets :
        dep'[x][y] = "ACTIVE" => dep[x][y] = "ACTIVE" \/ (x = w /\ y = t)
  BY DEF TypeOK
<1>3. ASSUME NEW S \in SUBSET Targets, Closed(S), w \notin S
      PROVE  Closed(S)'
  BY <1>2, <1>3 DEF Closed
<1> SUFFICES ASSUME NEW x \in WorkItems, NEW y \in Targets,
                    dep'[x][y] = "ACTIVE"
             PROVE  \E S \in SUBSET Targets :
                      y \in S /\ x \notin S /\ Closed(S)'
  BY DEF NoDependencyCycle, WaitsFor, Closed
<1>4. CASE x = w /\ y = t
  BY <1>1, <1>3, <1>4
<1>5. CASE dep[x][y] = "ACTIVE"
  <2>1. PICK S \in SUBSET Targets : y \in S /\ x \notin S /\ Closed(S)
    BY <1>5, NotWaiting DEF NoDependencyCycle
  <2>2. CASE x \in T
    <3>1. Closed(S \cap T) /\ y \in S \cap T
      BY <1>1, <1>5, <2>1, <2>2 DEF Closed
    <3> QED
      BY <1>1, <1>3, <2>1, <3>1
  <2>3. CASE x \notin T
    <3>1. Closed(S \cup T)'
      BY <1>1, <1>2, <2>1 DEF Closed
    <3> QED
      BY <2>1, <2>3, <3>1
  <2> QED
    BY <2>2, <2>3
<1> QED
  BY <1>2, <1>4, <1>5

\* Only a deferral makes a row ACTIVE.
LEMMA CycleStep ==
  ASSUME TypeOK, NoDependencyCycle, [Next]_vars
  PROVE  NoDependencyCycle'
<1> DEFINE NoNewRow == \A x \in WorkItems, y \in Targets :
                         dep'[x][y] = "ACTIVE" => dep[x][y] = "ACTIVE"
<1>1. RowStep
  BY RowWriters
<1>2. CASE UNCHANGED rows \/ PromoteWrite
  BY <1>2, FewerRows DEF rows, PromoteWrite
<1>3. ASSUME NEW w \in WorkItems,
             \/ Admit(w) \/ Claim(w) \/ EnsureWorktree(w) \/ EnsureSession(w)
             \/ \E o \in Outcomes : ApplyOutcome(w, o)
             \/ ApplyCompleted(w) \/ GitHub(w)
             \/ Strands(w) /\ UNCHANGED <<state, dep, assembly>>
      PROVE  NoNewRow
  BY <1>3 DEF Admit, Claim, EnsureWorktree, EnsureSession, ApplyOutcome,
              ApplyCompleted, GitHub, GitHubMerges, GitHubCloses
<1>4. ASSUME NEW w \in WorkItems, NEW t \in Targets, ApplyDefer(w, t)
      PROVE  NoDependencyCycle'
  BY <1>4, OneRow DEF ApplyDefer
<1>5. ASSUME NEW w \in WorkItems, NEW p \in Procs, Executor(p, w)
      PROVE  NoNewRow
  <2>1. CASE OpenPr(p, w) \/ HoldWaiting(p, w) \/ Abandon(p, w)
    BY <2>1 DEF OpenPr, HoldWaiting, Abandon
  <2>2. CASE CompleteMerged(p, w)
    BY <2>2 DEF CompleteMerged, TypeOK
  <2> QED
    BY <1>5, <2>1, <2>2 DEF Executor
<1>6. ASSUME NEW w \in WorkItems, NEW t \in Overwrites, Overwrite(w, t)
      PROVE  NoNewRow
  BY <1>6 DEF Overwrite, WriteRow
<1> QED
  BY <1>1, <1>2, <1>3, <1>4, <1>5, <1>6, FewerRows DEF RowStep

\* Whatever items are deferred on each other, and in whatever order, none of
\* them ever waits for itself (addWorkItemDependency's visit).
THEOREM DependenciesAreAcyclic == Spec => []NoDependencyCycle
<1>1. Init => NoDependencyCycle
  BY DEF Init, NoDependencyCycle, Targets
<1>2. TypeOK /\ NoDependencyCycle /\ [Next]_vars => NoDependencyCycle'
  BY CycleStep
<1> QED
  BY <1>1, <1>2, TypeCorrect, PTL DEF Spec
=============================================================================
