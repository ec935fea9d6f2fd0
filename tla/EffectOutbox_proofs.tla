------------------------- MODULE EffectOutbox_proofs -------------------------
(***************************************************************************)
(* Theorems about EffectOutbox, for any number of items, executors and     *)
(* faults: the type invariant, what a DONE row and a pull request stand    *)
(* for, and the refinement of Pipeline.                                    *)
(*                                                                         *)
(* The argument has two halves.  What is true of the world stays true      *)
(* (WorldGrows): a branch only gains commits, a pull request that is       *)
(* merged or closed remains so, a row keeps its commit.  And what an       *)
(* executor has decided was true when it looked (JobsFit), hence still is  *)
(* when it acts, however late.                                             *)
(***************************************************************************)
EXTENDS EffectOutbox, TLAPS

-----------------------------------------------------------------------------
(* Type correctness. *)

\* The three ways to write a side_effects row give a row.
LEMMA RowTypes ==
  ASSUME NEW r \in RowType, NEW later \in BOOLEAN
  PROVE  /\ \A s \in RowStates : Marked(r, s, later) \in RowType
         /\ Requeued(r, later) \in RowType
<1>1. Counted(r.attempt) \in 0..MaxAttempts
  BY OutboxAssumption DEF RowType, Counted
<1> QED
  BY <1>1 DEF RowType, RowStates, Marked, Requeued

\* A new row is a row, if its commit is one.
LEMMA NewRowType ==
  ASSUME rows \in Nat, NEW n \in 0..MaxCommits
  PROVE  NewRow(n) \in RowType
BY OutboxAssumption DEF NewRow, RowType, RowStates

\* The initial state has the right types.
LEMMA InitType == Init => TypeOK
<1> SUFFICES ASSUME Init PROVE TypeOK
  OBVIOUS
<1>1. NoRow \in RowType
  BY OutboxAssumption DEF NoRow, RowType, RowStates
<1>2. NoPull \in PullType
  BY OutboxAssumption DEF NoPull, PullType
<1>3. Rest \in JobType
  BY DEF Rest, JobType, Places, Kinds
<1> QED
  BY <1>1, <1>2, <1>3, OutboxAssumption DEF Init, TypeOK

\* A pull request that ends is a pull request.
LEMMA EndedPullType ==
  ASSUME TypeOK, NEW w \in Items, NEW end \in {"MERGED", "CLOSED"}
  PROVE  [pull EXCEPT ![w].state = end] \in [Items -> PullType]
<1>1. pull \in [Items -> PullType]
  BY DEF TypeOK
<1>2. [pull[w] EXCEPT !.state = end] \in PullType
  BY <1>1 DEF PullType
<1> QED
  BY <1>1, <1>2

\* Moving an executor to another place of the code keeps the type of `job'.
LEMMA GotoType ==
  ASSUME TypeOK, NEW x \in Executors
  PROVE  /\ \A place \in Places :
              Goto(x, place) => job' \in [Executors -> JobType]
         /\ \A place \in Places, later \in BOOLEAN :
              GotoLater(x, place, later) => job' \in [Executors -> JobType]
<1> SUFFICES ASSUME NEW place \in Places, NEW later \in BOOLEAN
             PROVE  /\ Goto(x, place) => job' \in [Executors -> JobType]
                    /\ GotoLater(x, place, later) => job' \in [Executors -> JobType]
  OBVIOUS
<1>1. job \in [Executors -> JobType]
  BY DEF TypeOK
<1>2. /\ [job[x] EXCEPT !.at = place] \in JobType
      /\ [job[x] EXCEPT !.at = place, !.later = later] \in JobType
  BY <1>1 DEF JobType
<1>3. Goto(x, place) => job' \in [Executors -> JobType]
  BY <1>1, <1>2 DEF Goto
<1>4. GotoLater(x, place, later) => job' \in [Executors -> JobType]
  BY <1>1, <1>2 DEF GotoLater
<1> QED
  BY <1>3, <1>4

\* The transactions on one row.
LEMMA VisitType ==
  ASSUME TypeOK, NEW x \in Executors, NEW w \in Items, NEW k \in Kinds,
         Visit(x, w, k)
  PROVE  TypeOK'
<1> USE DEF db, agent, github, bounds
<1>0. row[w][k] \in RowType /\ job[x] \in JobType
  BY DEF TypeOK
<1>1. CASE Take(x, w, k)
  <2> DEFINE at == IF row[w][k].state = "DONE" THEN "next"
                   ELSE IF row[w][k].attempt + 1 > MaxAttempts THEN "fail"
                   ELSE First(k)
             j == [at |-> at, todo |-> job[x].todo \ {<<w, k>>}, item |-> w,
                   kind |-> k, later |-> FALSE]
  <2>1. First(k) \in Places
    BY DEF First, Places, Kinds
  <2>2. at \in Places
    BY <2>1 DEF Places
  <2>3. j \in JobType
    BY <1>0, <2>2 DEF JobType
  <2>4. job' = [job EXCEPT ![x] = j]
    BY <1>1 DEF Take
  <2> QED
    BY <1>1, <2>3, <2>4 DEF Take, TypeOK
<1>2. CASE Start(x, w, k)
  BY <1>0, <1>2, RowTypes, GotoType
  DEF Start, TypeOK, RowStates, Places
<1>3. CASE Done(x, w, k)
  BY <1>0, <1>3, RowTypes, GotoType
  DEF Done, TypeOK, RowStates, Places
<1>4. CASE Fail(x, w, k)
  <2>1. job[x].later \in BOOLEAN
    BY <1>0 DEF JobType
  <2> QED
    BY <1>0, <1>4, <2>1, RowTypes, GotoType
    DEF Fail, TypeOK, RowStates, Places
<1>5. CASE Requeue(x, w, k)
  <2>1. job[x].later \in BOOLEAN
    BY <1>0 DEF JobType
  <2> QED
    BY <1>0, <1>5, <2>1, RowTypes, GotoType DEF Requeue, TypeOK, Places
<1> QED
  BY <1>1, <1>2, <1>3, <1>4, <1>5 DEF Visit

\* Steps that only move an executor.
Reads(x, w) ==
  \/ PushLook(x, w)
  \/ PrFind(x, w) \/ PrGate(x, w) \/ PrLook(x, w)
  \/ LandRead(x, w) \/ LandPolicy(x, w) \/ LandLook(x, w)

\* A step that only reads changes nothing but the place and the backoff.
LEMMA ReadsMove ==
  ASSUME NEW x \in Executors, NEW w \in Items, Reads(x, w)
  PROVE  /\ \E place \in Places, later \in BOOLEAN : GotoLater(x, place, later)
         /\ UNCHANGED <<db, agent, github, bounds>>
<1>1. CASE PushLook(x, w)
  BY <1>1 DEF PushLook, Places
<1>2. CASE PrFind(x, w) \/ PrGate(x, w) \/ PrLook(x, w)
  BY <1>2 DEF PrFind, PrGate, PrLook, Places
<1>3. CASE LandRead(x, w)
  BY <1>3 DEF LandRead, Places
<1>4. CASE LandPolicy(x, w)
  BY <1>4 DEF LandPolicy, Places
<1>5. CASE LandLook(x, w)
  BY <1>5 DEF LandLook, Places
<1> QED
  BY <1>1, <1>2, <1>3, <1>4, <1>5 DEF Reads

\* The calls, and the transactions that belong to one kind of effect.
LEMMA KindType ==
  ASSUME TypeOK, NEW x \in Executors, NEW w \in Items,
         Push(x, w) \/ Propose(x, w) \/ Land(x, w)
  PROVE  TypeOK'
<1> USE DEF db, agent, github, bounds
<1>1. CASE Reads(x, w)
  BY <1>1, ReadsMove, GotoType DEF TypeOK
<1>2. CASE PushCall(x, w)
  <2>1. pull' \in [Items -> PullType]
    BY <1>2 DEF PushCall, TypeOK, PullType
  <2>2. job' \in [Executors -> JobType]
    BY <1>2, GotoType DEF PushCall, Places
  <2> QED
    BY <1>2, <2>1, <2>2 DEF PushCall, TypeOK
<1>3. CASE PrCall(x, w)
  <2> DEFINE opened == [state |-> "OPEN", sha |-> remote[w]]
  <2>0. opened \in PullType
    BY DEF TypeOK, PullType
  <2>1. pull' \in [Items -> PullType]
    <3>1. pull' = [pull EXCEPT ![w] = opened] \/ pull' = pull
      BY <1>3 DEF PrCall
    <3> QED
      BY <2>0, <3>1 DEF TypeOK
  <2>2. job' \in [Executors -> JobType]
    BY <1>3, GotoType DEF PrCall, Places
  <2> QED
    BY <1>3, <2>1, <2>2 DEF PrCall, TypeOK
<1>4. CASE PrAdopt(x, w)
  <2>1. row[w]["pr"].sha \in 0..MaxCommits
    BY DEF TypeOK, RowType, Kinds
  <2> DEFINE new == NewRow(row[w]["pr"].sha)
  <2>2. row' \in [Items -> [Kinds -> RowType]] /\ rows' \in Nat
    <3>1. new \in RowType
      BY <2>1, NewRowType DEF TypeOK
    <3>2. \/ row' = [row EXCEPT ![w]["land"] = new] /\ rows' = rows + 1
          \/ row' = row /\ rows' = rows
      BY <1>4 DEF PrAdopt
    <3> HIDE DEF new
    <3>3. row \in [Items -> [Kinds -> RowType]] /\ rows \in Nat
      BY DEF TypeOK
    <3> QED
      BY <3>1, <3>2, <3>3
  <2>3. job' \in [Executors -> JobType]
    BY <1>4, GotoType DEF PrAdopt, Places
  <2> QED
    BY <1>4, <2>2, <2>3 DEF PrAdopt, TypeOK
<1>5. CASE LandHold(x, w)
  BY <1>5, GotoType DEF LandHold, TypeOK, Places
<1>6. CASE LandCall(x, w)
  <2>1. pull' \in [Items -> PullType]
    BY <1>6, EndedPullType DEF LandCall, TypeOK
  <2>2. job' \in [Executors -> JobType]
    BY <1>6, GotoType DEF LandCall, Places
  <2>3. failures' \in 0..MaxFailures
    <3>1. \/ failures' = failures
          \/ failures < MaxFailures /\ failures' = failures + 1
      BY <1>6 DEF LandCall
    <3> QED
      BY <3>1, OutboxAssumption DEF TypeOK
  <2> QED
    BY <1>6, <2>1, <2>2, <2>3 DEF LandCall, TypeOK
<1>7. CASE LandComplete(x, w)
  <2>1. row[w]["land"] \in RowType
    BY DEF TypeOK, Kinds
  <2>2. Marked(row[w]["land"], "DONE", FALSE) \in RowType
    BY <2>1, RowTypes DEF RowStates
  <2> QED
    BY <1>7, <2>2, GotoType DEF LandComplete, TypeOK, Places
<1> QED
  BY <1>1, <1>2, <1>3, <1>4, <1>5, <1>6, <1>7 DEF Push, Propose, Land, Reads

\* The executor's loop, its failures and the world around it.
LEMMA RestType ==
  ASSUME TypeOK
  PROVE  /\ \A x \in Executors :
              List(x) \/ Finish(x) \/ Throw(x) \/ Crash(x) => TypeOK'
         /\ \A w \in Items : World(w) => TypeOK'
<1> USE DEF db, agent, github, bounds
<1>1. ASSUME NEW x \in Executors, List(x) PROVE TypeOK'
  <2>1. PICK L \in Listings :
          job' = [job EXCEPT ![x].at = "next", ![x].todo = L]
    BY <1>1 DEF List
  <2>2. L \in SUBSET (Items \X Kinds)
    BY DEF Listings, Due
  <2>3. [job[x] EXCEPT !.at = "next", !.todo = L] \in JobType
    <3>1. job[x] \in JobType /\ "next" \in Places
      BY DEF TypeOK, Places
    <3> QED
      BY <2>2, <3>1 DEF JobType
  <2>4. job' = [job EXCEPT ![x] = [job[x] EXCEPT !.at = "next", !.todo = L]]
    BY <2>1 DEF TypeOK, JobType
  <2> QED
    BY <1>1, <2>3, <2>4 DEF List, TypeOK
<1>2. ASSUME NEW x \in Executors, Finish(x) \/ Crash(x) PROVE TypeOK'
  <2>1. Rest \in JobType
    BY DEF Rest, JobType, Places, Kinds
  <2>2. crashes' \in 0..MaxCrashes
    BY <1>2, OutboxAssumption DEF Finish, Crash, TypeOK
  <2> QED
    BY <1>2, <2>1, <2>2 DEF Finish, Crash, TypeOK
<1>3. ASSUME NEW x \in Executors, Throw(x) PROVE TypeOK'
  <2>1. job' \in [Executors -> JobType]
    BY <1>3, GotoType DEF Throw, Places
  <2>2. failures' \in 0..MaxFailures
    BY <1>3, OutboxAssumption DEF Throw, TypeOK
  <2> QED
    BY <1>3, <2>1, <2>2 DEF Throw, TypeOK
<1>4. ASSUME NEW w \in Items, Commit(w) PROVE TypeOK'
  <2>1. head' \in [Items -> 0..MaxCommits]
    BY <1>4, OutboxAssumption DEF Commit, TypeOK
  <2> QED
    BY <1>4, <2>1 DEF Commit, TypeOK
<1>5. ASSUME NEW w \in Items, Turn(w) PROVE TypeOK'
  <2>1. NewRow(head[w]) \in RowType
    BY NewRowType DEF TypeOK
  <2> DEFINE new == NewRow(head[w])
  <2>2. row' \in [Items -> [Kinds -> RowType]] /\ rows' \in Nat
    <3>1. \/ /\ row' = [row EXCEPT ![w]["push"] = new, ![w]["pr"] = new]
             /\ rows' = rows + 1
          \/ row' = row /\ rows' = rows
      BY <1>5 DEF Turn
    <3> HIDE DEF new
    <3>2. new \in RowType
      BY <2>1 DEF new
    <3>3. row \in [Items -> [Kinds -> RowType]] /\ rows \in Nat
      BY DEF TypeOK
    <3>4. [row EXCEPT ![w]["push"] = new, ![w]["pr"] = new] \in [Items -> [Kinds -> RowType]]
      BY <3>2, <3>3
    <3> QED
      BY <3>1, <3>3, <3>4
  <2> QED
    BY <1>5, <2>2 DEF Turn, TypeOK
<1>6. ASSUME NEW w \in Items, GitHubMerges(w) \/ GitHubCloses(w) PROVE TypeOK'
  <2>1. pull' \in [Items -> PullType]
    BY <1>6, EndedPullType DEF GitHubMerges, GitHubCloses
  <2> QED
    BY <1>6, <2>1 DEF GitHubMerges, GitHubCloses, TypeOK
<1>7. ASSUME NEW w \in Items, TurnsGreen(w) PROVE TypeOK'
  BY <1>7 DEF TurnsGreen, TypeOK
<1>8. ASSUME NEW w \in Items, NEW k \in Kinds, BackoffEnds(w, k) PROVE TypeOK'
  <2>1. [row[w][k] EXCEPT !.later = FALSE] \in RowType
    <3>1. row[w][k] \in RowType
      BY DEF TypeOK
    <3> QED
      BY <3>1 DEF RowType
  <2> QED
    BY <1>8, <2>1 DEF BackoffEnds, TypeOK
<1> QED
  BY <1>1, <1>2, <1>3, <1>4, <1>5, <1>6, <1>7, <1>8 DEF World

\* Every step keeps the types.
LEMMA StepType == TypeOK /\ [Next]_vars => TypeOK'
<1> SUFFICES ASSUME TypeOK, [Next]_vars PROVE TypeOK'
  OBVIOUS
<1>1. CASE UNCHANGED vars
  BY <1>1 DEF TypeOK, vars, db, agent, github, bounds
<1>2. CASE Next
  BY <1>2, VisitType, KindType, RestType DEF Next, Execute
<1> QED
  BY <1>1, <1>2

\* Rows, pull requests and jobs keep the values the schema gives them, for
\* any number of items and executors.
THEOREM TypeCorrect == Spec => []TypeOK
BY InitType, StepType, PTL DEF Spec

-----------------------------------------------------------------------------
(* What the rows, the world and the executors know of each other. *)

HasRow(w, k) == row[w][k].state # "none"

\* Push and pr are inserted together, land after the pull request; a row is
\* about some commit, and nothing has a commit that the branch has not.
RowsFit ==
  \A w \in Items :
    /\ HasRow(w, "push") <=> HasRow(w, "pr")
    /\ HasRow(w, "land") => pull[w].state # "none"
    /\ pull[w].state # "none" => HasRow(w, "pr")
    /\ \A k \in Kinds : HasRow(w, k) => row[w][k].sha > 0
    /\ remote[w] <= head[w]
    /\ pull[w].sha <= remote[w]

\* What an executor has seen when it reaches a place in an effect.
Rests(place, w, k) ==
  /\ k = "push" /\ place = "done" => remote[w] >= row[w]["push"].sha
  /\ k = "pr" /\ place \in {"start", "call"} => remote[w] >= row[w]["pr"].sha
  /\ k = "pr" /\ place \in {"look", "done", "adopt"} => pull[w].state # "none"
  /\ k = "land" /\ place = "done" => pull[w].state \in {"MERGED", "CLOSED"}
  /\ k = "land" /\ place = "complete" => pull[w].state = "MERGED"

\* An executor lists and visits effects that exist, on the strength of that.
Decided(x, w, k) ==
  /\ <<w, k>> \in job[x].todo => HasRow(w, k)
  /\ job[x].item = w /\ job[x].kind = k /\ job[x].at \notin {"idle", "next"} =>
       HasRow(w, k) /\ Rests(job[x].at, w, k)

JobsFit == \A x \in Executors, w \in Items, k \in Kinds : Decided(x, w, k)

Facts == RowsFit /\ DoneIsReal /\ PullHasTheTurn

IInv == TypeOK /\ Facts /\ JobsFit

\* The step keeps what an executor may rely on: a row keeps its commit, a
\* branch its commits, a pull request its existence and its end.
WorldGrows ==
  \A w \in Items :
    /\ \A k \in Kinds :
         HasRow(w, k) => HasRow(w, k)' /\ row'[w][k].sha = row[w][k].sha
    /\ remote[w] <= remote'[w]
    /\ pull[w].state # "none" => pull'[w].state # "none"
    /\ pull[w].state \in {"MERGED", "CLOSED"} => pull'[w].state = pull[w].state

-----------------------------------------------------------------------------
(* Steps and what they do to the facts. *)

\* A step that leaves rows, branch and pull request alone.
LEMMA QuietStep ==
  ASSUME TypeOK, Facts, TypeOK', UNCHANGED <<row, remote, pull>>,
         \A w \in Items : head[w] <= head'[w]
  PROVE  Facts' /\ WorldGrows
<1>1. RowsFit'
  BY DEF Facts, RowsFit, HasRow, TypeOK, PullType
<1>2. DoneIsReal' /\ PullHasTheTurn'
  BY DEF Facts, DoneIsReal, PullHasTheTurn
<1>3. WorldGrows
  BY DEF WorldGrows, HasRow, TypeOK
<1> QED
  BY <1>1, <1>2, <1>3 DEF Facts

\* What a DONE row of kind k stands for.
Real(w, k) ==
  /\ k = "push" => remote[w] >= row[w]["push"].sha
  /\ k = "pr" => pull[w].state # "none"
  /\ k = "land" => pull[w].state \in {"MERGED", "CLOSED"}

\* A step that marks one row, whose commit and existence stay as they are.
LEMMA MarkStep ==
  ASSUME TypeOK, Facts, NEW w \in Items, NEW k \in Kinds, NEW r \in RowType,
         row' = [row EXCEPT ![w][k] = r],
         r.sha = row[w][k].sha,
         r.state = "none" <=> row[w][k].state = "none",
         r.state = "DONE" => row[w][k].state = "DONE" \/ Real(w, k),
         UNCHANGED <<remote, pull, head>>
  PROVE  Facts' /\ WorldGrows
<1>1. row \in [Items -> [Kinds -> RowType]]
  BY DEF TypeOK
<1>2. /\ row'[w][k] = r
      /\ \A v \in Items, l \in Kinds : v # w \/ l # k => row'[v][l] = row[v][l]
  BY <1>1
<1>3. \A v \in Items, l \in Kinds :
        /\ row'[v][l].sha = row[v][l].sha
        /\ HasRow(v, l)' <=> HasRow(v, l)
  BY <1>2 DEF HasRow
<1>4. "push" \in Kinds /\ "pr" \in Kinds /\ "land" \in Kinds
  BY DEF Kinds
<1>5. RowsFit'
  BY <1>3, <1>4 DEF Facts, RowsFit
<1>6. PullHasTheTurn'
  BY <1>3, <1>4 DEF Facts, PullHasTheTurn
<1>7. WorldGrows
  <2>1. remote \in [Items -> 0..MaxCommits]
    BY DEF TypeOK
  <2> QED
    BY <1>3, <2>1 DEF WorldGrows
<1>8. \A v \in Items, l \in Kinds : row'[v][l].state = "DONE" => Real(v, l)'
  <2> SUFFICES ASSUME NEW v \in Items, NEW l \in Kinds,
                      row'[v][l].state = "DONE"
               PROVE  Real(v, l)'
    OBVIOUS
  <2>1. row[v][l].state = "DONE" \/ Real(v, l)
    BY <1>2
  <2>2. Real(v, l)
    BY <2>1 DEF Facts, DoneIsReal, Real, Kinds
  <2> QED
    BY <2>2, <1>3, <1>4 DEF Real
<1>9. DoneIsReal'
  BY <1>8, <1>4 DEF DoneIsReal, Real
<1> QED
  BY <1>5, <1>6, <1>7, <1>9 DEF Facts

\* An executor that does not move keeps what it knows.
LEMMA DecidedStays ==
  ASSUME TypeOK, TypeOK', WorldGrows, NEW x \in Executors,
         NEW w \in Items, NEW k \in Kinds, Decided(x, w, k),
         job'[x] = job[x]
  PROVE  Decided(x, w, k)'
<1>1. HasRow(w, k) => HasRow(w, k)'
  BY DEF WorldGrows
<1>2. ASSUME HasRow(w, k), Rests(job[x].at, w, k) PROVE Rests(job[x].at, w, k)'
  <2>1. /\ row'[w][k].sha = row[w][k].sha
        /\ remote[w] <= remote'[w]
        /\ pull[w].state # "none" => pull'[w].state # "none"
        /\ pull[w].state \in {"MERGED", "CLOSED"} => pull'[w].state = pull[w].state
    BY <1>2 DEF WorldGrows
  <2>2. /\ remote[w] \in Nat /\ remote'[w] \in Nat
        /\ row[w][k].sha \in Nat
    BY DEF TypeOK, RowType
  <2> QED
    BY <1>2, <2>1, <2>2 DEF Rests
<1> QED
  BY <1>1, <1>2 DEF Decided

\* A step in which no executor moves.
LEMMA JobsStay ==
  ASSUME TypeOK, TypeOK', JobsFit, WorldGrows, job' = job
  PROVE  JobsFit'
BY DecidedStays DEF JobsFit

\* A step in which one executor goes on with its effect.
LEMMA JobMoves ==
  ASSUME TypeOK, TypeOK', JobsFit, WorldGrows,
         NEW x \in Executors, NEW w \in Items, NEW k \in Kinds,
         job[x].item = w, job[x].kind = k, job[x].at \notin {"idle", "next"},
         NEW place \in Places, Rests(place, w, k)',
         Goto(x, place) \/ \E later \in BOOLEAN : GotoLater(x, place, later)
  PROVE  JobsFit'
<1>1. job \in [Executors -> JobType]
  BY DEF TypeOK
<1>2. /\ job'[x].at = place /\ job'[x].todo = job[x].todo
      /\ job'[x].item = w /\ job'[x].kind = k
      /\ \A y \in Executors : y # x => job'[y] = job[y]
  BY <1>1 DEF Goto, GotoLater, JobType
<1> SUFFICES ASSUME NEW y \in Executors, NEW v \in Items, NEW l \in Kinds
             PROVE  Decided(y, v, l)'
  BY DEF JobsFit
<1>3. Decided(y, v, l) /\ Decided(x, w, k)
  BY DEF JobsFit
<1>4. CASE y # x
  BY <1>2, <1>3, <1>4, DecidedStays
<1>5. CASE y = x
  <2>1. HasRow(v, l) => HasRow(v, l)'
    BY DEF WorldGrows
  <2>2. HasRow(w, k)
    BY <1>3 DEF Decided
  <2> QED
    BY <1>2, <1>3, <1>5, <2>1, <2>2 DEF Decided
<1> QED
  BY <1>4, <1>5

\* The transactions on one row: a row is DONE only if what it stands for is
\* so, and every place is reached with what it rests on.
LEMMA VisitKeeps ==
  ASSUME IInv, TypeOK', NEW x \in Executors, NEW w \in Items, NEW k \in Kinds,
         Visit(x, w, k)
  PROVE  Facts' /\ JobsFit'
<1> USE DEF IInv, db, agent, github, bounds
<1>0. /\ row[w][k] \in RowType /\ job \in [Executors -> JobType]
      /\ job[x] \in JobType /\ head \in [Items -> 0..MaxCommits]
  BY DEF TypeOK
<1>a. \A v \in Items : head[v] <= head[v]
  BY <1>0
<1>1. CASE Take(x, w, k)
  <2>1. Facts' /\ WorldGrows
    BY <1>1, <1>a, QuietStep DEF Take
  <2> DEFINE at == IF row[w][k].state = "DONE" THEN "next"
                   ELSE IF row[w][k].attempt + 1 > MaxAttempts THEN "fail"
                   ELSE First(k)
             j == [at |-> at, todo |-> job[x].todo \ {<<w, k>>}, item |-> w,
                   kind |-> k, later |-> FALSE]
  <2>2. job' = [job EXCEPT ![x] = j] /\ <<w, k>> \in job[x].todo
    BY <1>1 DEF Take
  <2>3. \A v \in Items, l \in Kinds : Decided(x, v, l)
    BY DEF JobsFit
  <2>4. HasRow(w, k)'
    BY <2>1, <2>2, <2>3 DEF Decided, WorldGrows
  <2>5. \A place \in {"next", "fail", First(k)} : Rests(place, w, k)'
    BY DEF Rests, First, Kinds
  <2>6. \A v \in Items, l \in Kinds : Decided(x, v, l)'
    <3> HIDE DEF at
    <3>1. job'[x] = j
      BY <1>0, <2>2
    <3> SUFFICES ASSUME NEW v \in Items, NEW l \in Kinds PROVE Decided(x, v, l)'
      OBVIOUS
    <3>2. HasRow(v, l) => HasRow(v, l)'
      BY <2>1 DEF WorldGrows
    <3>3. /\ job'[x].at = at /\ job'[x].item = w /\ job'[x].kind = k
          /\ job'[x].todo \subseteq job[x].todo
      BY <3>1
    <3>4. <<v, l>> \in job[x].todo => HasRow(v, l)
      BY <2>3 DEF Decided
    <3>5. <<v, l>> \in job'[x].todo => HasRow(v, l)'
      BY <3>2, <3>3, <3>4
    <3>6. PICK place \in {"next", "fail", First(k)} : job'[x].at = place
      BY <3>3 DEF at
    <3>7. Rests(place, w, k)'
      BY <2>5
    <3> QED
      BY <2>4, <3>3, <3>5, <3>6, <3>7 DEF Decided
  <2>7. \A y \in Executors : y # x => job'[y] = job[y]
    BY <1>0, <2>2
  <2> QED
    BY <2>1, <2>6, <2>7, DecidedStays DEF JobsFit
<1>b. ~Take(x, w, k) => At(x, "start", w, k) \/ At(x, "done", w, k)
                        \/ At(x, "fail", w, k) \/ At(x, "requeue", w, k)
  BY DEF Visit, Start, Done, Fail, Requeue
<1>c. ~Take(x, w, k) => HasRow(w, k) /\ Rests(job[x].at, w, k)
  BY <1>b DEF JobsFit, Decided, At
<1>2. CASE Start(x, w, k)
  <2> DEFINE r == Marked(row[w][k], "EXECUTING", FALSE)
  <2>1. r \in RowType
    BY <1>0, RowTypes DEF RowStates
  <2>2. r.sha = row[w][k].sha /\ r.state = "EXECUTING"
    BY <1>0 DEF Marked, RowType
  <2>3. row' = [row EXCEPT ![w][k] = r] /\ UNCHANGED <<remote, pull, head>>
    BY <1>2 DEF Start
  <2>4. HasRow(w, k) /\ Rests("start", w, k)
    BY <1>2, <1>c DEF Start, At, Take
  <2> HIDE DEF r
  <2>5. Facts' /\ WorldGrows
    BY <2>1, <2>2, <2>3, <2>4, MarkStep DEF HasRow
  <2>6. Rests("call", w, k)'
    BY <2>4, <2>5, <2>3 DEF Rests, WorldGrows
  <2> QED
    BY <1>2, <2>5, <2>6, JobMoves DEF Start, At, Places
<1>3. CASE Done(x, w, k)
  <2> DEFINE r == Marked(row[w][k], "DONE", FALSE)
             place == IF k = "pr" THEN "adopt" ELSE "next"
  <2>1. r \in RowType
    BY <1>0, RowTypes DEF RowStates
  <2>2. r.sha = row[w][k].sha /\ r.state = "DONE"
    BY <1>0 DEF Marked, RowType
  <2>3. row' = [row EXCEPT ![w][k] = r] /\ UNCHANGED <<remote, pull, head>>
    BY <1>3 DEF Done
  <2>4. HasRow(w, k) /\ Rests("done", w, k)
    BY <1>3, <1>c DEF Done, At, Take
  <2>5. Real(w, k)
    BY <2>4 DEF Real, Rests, Kinds
  <2> HIDE DEF r
  <2>6. Facts' /\ WorldGrows
    BY <2>1, <2>2, <2>3, <2>4, <2>5, MarkStep DEF HasRow
  <2>7. Rests(place, w, k)'
    BY <2>4, <2>3 DEF Rests
  <2>8. Goto(x, place) /\ place \in Places
    BY <1>3 DEF Done, Places
  <2>9. job[x].item = w /\ job[x].kind = k /\ job[x].at \notin {"idle", "next"}
    BY <1>3 DEF Done, At
  <2> HIDE DEF place
  <2> QED
    BY <2>6, <2>7, <2>8, <2>9, JobMoves
<1>4. CASE Fail(x, w, k)
  <2> DEFINE r == Marked(row[w][k], "FAILED", job[x].later)
  <2>0. job[x].later \in BOOLEAN
    BY <1>0 DEF JobType
  <2>1. r \in RowType
    BY <1>0, <2>0, RowTypes DEF RowStates
  <2>2. r.sha = row[w][k].sha /\ r.state = "FAILED"
    BY <1>0 DEF Marked, RowType
  <2>3. row' = [row EXCEPT ![w][k] = r] /\ UNCHANGED <<remote, pull, head>>
    BY <1>4 DEF Fail
  <2>4. HasRow(w, k)
    BY <1>4, <1>c DEF Fail, At, Take
  <2> HIDE DEF r
  <2>5. Facts' /\ WorldGrows
    BY <2>1, <2>2, <2>3, <2>4, MarkStep DEF HasRow
  <2>6. Rests("next", w, k)'
    BY DEF Rests
  <2> QED
    BY <1>4, <2>5, <2>6, JobMoves DEF Fail, At, Places
<1>5. CASE Requeue(x, w, k)
  <2> DEFINE r == Requeued(row[w][k], job[x].later)
  <2>0. job[x].later \in BOOLEAN
    BY <1>0 DEF JobType
  <2>1. r \in RowType
    BY <1>0, <2>0, RowTypes
  <2>2. r.sha = row[w][k].sha /\ r.state = "PENDING"
    BY <1>0 DEF Requeued, RowType
  <2>3. row' = [row EXCEPT ![w][k] = r] /\ UNCHANGED <<remote, pull, head>>
    BY <1>5 DEF Requeue
  <2>4. HasRow(w, k)
    BY <1>5, <1>c DEF Requeue, At, Take
  <2> HIDE DEF r
  <2>5. Facts' /\ WorldGrows
    BY <2>1, <2>2, <2>3, <2>4, MarkStep DEF HasRow
  <2>6. Rests("next", w, k)'
    BY DEF Rests
  <2> QED
    BY <1>5, <2>5, <2>6, JobMoves DEF Requeue, At, Places
<1> QED
  BY <1>1, <1>2, <1>3, <1>4, <1>5 DEF Visit

\* A step that only reads goes on to a place that what it read allows.
LEMMA ReadsKeep ==
  ASSUME IInv, TypeOK', NEW x \in Executors, NEW w \in Items, Reads(x, w)
  PROVE  Facts' /\ JobsFit'
<1> USE DEF IInv, db, agent, github, bounds
<1>0. UNCHANGED <<row, remote, pull, head>>
  BY ReadsMove
<1>1. head \in [Items -> 0..MaxCommits] /\ remote \in [Items -> 0..MaxCommits]
  BY DEF TypeOK
<1>2. Facts' /\ WorldGrows
  BY <1>0, <1>1, QuietStep
<1>3. ASSUME NEW k \in Kinds, NEW place \in Places,
             job[x].item = w, job[x].kind = k, job[x].at \notin {"idle", "next"},
             Rests(place, w, k), \E later \in BOOLEAN : GotoLater(x, place, later)
      PROVE  JobsFit'
  <2>1. Rests(place, w, k)'
    BY <1>0, <1>3 DEF Rests
  <2> QED
    BY <1>2, <1>3, <2>1, JobMoves
<1>4. \A k \in Kinds :
        job[x].item = w /\ job[x].kind = k /\ job[x].at \notin {"idle", "next"}
        => HasRow(w, k) /\ Rests(job[x].at, w, k)
  BY DEF JobsFit, Decided
<1>5. CASE PushLook(x, w)
  <2>1. PICK place \in {"done", "fail"} :
          /\ GotoLater(x, place, FALSE)
          /\ place = "done" => remote[w] = row[w]["push"].sha
    BY <1>5 DEF PushLook
  <2>2. Rests(place, w, "push")
    BY <2>1, <1>1 DEF Rests
  <2> QED
    BY <1>2, <1>3, <1>5, <2>1, <2>2 DEF PushLook, At, Places, Kinds
<1>6. CASE PrFind(x, w)
  <2>1. PICK place \in {"done", "requeue", "gate"} :
          /\ GotoLater(x, place, FALSE)
          /\ place = "done" => pull[w].state # "none"
    BY <1>6 DEF PrFind, Adoptable
  <2>2. Rests(place, w, "pr")
    BY <2>1 DEF Rests
  <2> QED
    BY <1>2, <1>3, <1>6, <2>1, <2>2 DEF PrFind, At, Places, Kinds
<1>7. CASE PrGate(x, w)
  <2>1. PICK place \in {"start", "requeue"} :
          /\ GotoLater(x, place, FALSE)
          /\ place = "start" => /\ row[w]["push"].state = "DONE"
                                /\ row[w]["push"].sha = row[w]["pr"].sha
    BY <1>7 DEF PrGate
  <2>2. place = "start" => remote[w] >= row[w]["pr"].sha
    BY <2>1 DEF Facts, DoneIsReal
  <2>3. Rests(place, w, "pr")
    BY <2>1, <2>2 DEF Rests
  <2> QED
    BY <1>2, <1>3, <1>7, <2>1, <2>3 DEF PrGate, At, Places, Kinds
<1>8. CASE PrLook(x, w)
  <2>1. PICK place \in {"done", "fail"} :
          /\ GotoLater(x, place, FALSE)
          /\ place = "done" => pull[w].state # "none"
    BY <1>8 DEF PrLook, Adoptable
  <2>2. Rests(place, w, "pr")
    BY <2>1 DEF Rests
  <2> QED
    BY <1>2, <1>3, <1>8, <2>1, <2>2 DEF PrLook, At, Places, Kinds
<1>9. CASE LandRead(x, w) \/ LandPolicy(x, w) \/ LandLook(x, w)
  <2>1. PICK place \in {"complete", "done", "policy", "requeue", "start", "hold", "fail"},
             later \in BOOLEAN :
          /\ GotoLater(x, place, later)
          /\ place = "complete" => pull[w].state = "MERGED"
          /\ place = "done" => pull[w].state \in {"MERGED", "CLOSED"}
    <3>1. CASE LandRead(x, w)
      BY <3>1 DEF LandRead
    <3>2. CASE LandPolicy(x, w)
      BY <3>2 DEF LandPolicy
    <3>3. CASE LandLook(x, w)
      BY <3>3 DEF LandLook
    <3> QED
      BY <1>9, <3>1, <3>2, <3>3
  <2>2. Rests(place, w, "land")
    BY <2>1 DEF Rests
  <2> QED
    BY <1>2, <1>3, <1>9, <2>1, <2>2 DEF LandRead, LandPolicy, LandLook, At, Places, Kinds
<1> QED
  BY <1>5, <1>6, <1>7, <1>8, <1>9 DEF Reads

\* The world around the controller, but for the agent's turn.
LEMMA WorldKeeps ==
  ASSUME IInv, TypeOK', NEW w \in Items,
         \/ Commit(w) \/ GitHubMerges(w) \/ GitHubCloses(w) \/ TurnsGreen(w)
         \/ \E k \in Kinds : BackoffEnds(w, k)
  PROVE  Facts' /\ JobsFit'
<1> USE DEF IInv, db, agent, github, bounds
<1>0. /\ head \in [Items -> 0..MaxCommits] /\ remote \in [Items -> 0..MaxCommits]
      /\ pull \in [Items -> PullType]
  BY DEF TypeOK
<1>1. CASE Commit(w)
  <2>1. \A v \in Items : head[v] <= head'[v]
    BY <1>0, <1>1 DEF Commit
  <2>2. Facts' /\ WorldGrows
    BY <1>1, <2>1, QuietStep DEF Commit
  <2> QED
    BY <1>1, <2>2, JobsStay DEF Commit
<1>2. CASE TurnsGreen(w)
  <2>1. Facts' /\ WorldGrows
    BY <1>0, <1>2, QuietStep DEF TurnsGreen
  <2> QED
    BY <1>2, <2>1, JobsStay DEF TurnsGreen
<1>3. CASE GitHubMerges(w) \/ GitHubCloses(w)
  <2>1. PICK s \in {"MERGED", "CLOSED"} : pull' = [pull EXCEPT ![w].state = s]
    BY <1>3 DEF GitHubMerges, GitHubCloses
  <2>2. /\ UNCHANGED <<row, remote, head, job>>
        /\ pull[w].state = "OPEN"
    BY <1>3 DEF GitHubMerges, GitHubCloses
  <2>3. \A v \in Items :
          /\ pull'[v].sha = pull[v].sha
          /\ pull'[v].state = IF v = w THEN s ELSE pull[v].state
    BY <1>0, <2>1 DEF PullType
  <2>4. WorldGrows
    BY <1>0, <2>2, <2>3 DEF WorldGrows, HasRow
  <2>5. RowsFit'
    BY <2>2, <2>3 DEF Facts, RowsFit, HasRow
  <2>6. DoneIsReal' /\ PullHasTheTurn'
    BY <2>2, <2>3 DEF Facts, DoneIsReal, PullHasTheTurn
  <2> QED
    BY <2>2, <2>4, <2>5, <2>6, JobsStay DEF Facts
<1>4. ASSUME NEW k \in Kinds, BackoffEnds(w, k) PROVE Facts' /\ JobsFit'
  <2> DEFINE r == [row[w][k] EXCEPT !.later = FALSE]
  <2>1. row[w][k] \in RowType
    BY DEF TypeOK
  <2>2. r \in RowType /\ r.sha = row[w][k].sha /\ r.state = row[w][k].state
    BY <2>1 DEF RowType
  <2>3. row' = [row EXCEPT ![w][k] = r] /\ UNCHANGED <<remote, pull, head, job>>
    BY <1>4 DEF BackoffEnds
  <2> HIDE DEF r
  <2>4. Facts' /\ WorldGrows
    BY <2>2, <2>3, MarkStep
  <2> QED
    BY <2>3, <2>4, JobsStay
<1> QED
  BY <1>1, <1>2, <1>3, <1>4

\* A turn inserts the two intents of an item that has no row yet, hence no
\* pull request either.
LEMMA TurnKeeps ==
  ASSUME IInv, TypeOK', NEW w \in Items, Turn(w)
  PROVE  Facts' /\ JobsFit'
<1> USE DEF IInv
<1>0. /\ head \in [Items -> 0..MaxCommits] /\ turned \in [Items -> 0..MaxCommits]
      /\ remote \in [Items -> 0..MaxCommits]
      /\ row \in [Items -> [Kinds -> RowType]]
  BY DEF TypeOK
<1>1. UNCHANGED <<remote, pull, head, job>> /\ turned[w] < head[w]
  BY DEF Turn, github
<1>2. CASE row[w]["push"] # NoRow
  <2>1. row' = row
    BY <1>2 DEF Turn
  <2>2. Facts' /\ WorldGrows
    BY <1>0, <1>1, <2>1, QuietStep
  <2> QED
    BY <1>1, <2>2, JobsStay
<1>3. CASE row[w]["push"] = NoRow
  <2> DEFINE new == NewRow(head[w])
  <2>1. new.sha = head[w] /\ new.state = "PENDING" /\ head[w] > 0
    BY <1>0, <1>1 DEF NewRow
  <2>2. row' = [row EXCEPT ![w]["push"] = new, ![w]["pr"] = new]
    BY <1>3 DEF Turn
  <2> HIDE DEF new
  <2>3. "push" \in Kinds /\ "pr" \in Kinds /\ "land" \in Kinds
    BY DEF Kinds
  <2>4. /\ row'[w]["push"] = new /\ row'[w]["pr"] = new
        /\ \A v \in Items, k \in Kinds :
             v # w \/ k \notin {"push", "pr"} => row'[v][k] = row[v][k]
    BY <1>0, <2>2, <2>3
  <2>5. ~HasRow(w, "push") /\ ~HasRow(w, "pr") /\ pull[w].state = "none"
    BY <1>3 DEF Facts, RowsFit, HasRow, NoRow
  <2>6. \A v \in Items, k \in Kinds : HasRow(v, k) => row'[v][k] = row[v][k]
    BY <2>4, <2>5
  <2>7. WorldGrows
    BY <1>0, <1>1, <2>6 DEF WorldGrows, HasRow
  <2>8. RowsFit'
    <3> SUFFICES ASSUME NEW v \in Items PROVE
          /\ HasRow(v, "push")' <=> HasRow(v, "pr")'
          /\ HasRow(v, "land")' => pull'[v].state # "none"
          /\ pull'[v].state # "none" => HasRow(v, "pr")'
          /\ \A k \in Kinds : HasRow(v, k)' => row'[v][k].sha > 0
          /\ remote'[v] <= head'[v]
          /\ pull'[v].sha <= remote'[v]
      BY DEF RowsFit
    <3>1. CASE v # w
      BY <1>1, <2>3, <2>4, <3>1 DEF Facts, RowsFit, HasRow
    <3>2. CASE v = w
      <4>1. \A k \in Kinds : HasRow(w, k)' => row'[w][k].sha > 0
        BY <2>1, <2>4 DEF Facts, RowsFit, HasRow, Kinds
      <4> QED
        BY <1>1, <2>1, <2>3, <2>4, <2>5, <3>2, <4>1 DEF Facts, RowsFit, HasRow
    <3> QED
      BY <3>1, <3>2
  <2>9. DoneIsReal' /\ PullHasTheTurn'
    <3>1. \A v \in Items, k \in Kinds :
            row'[v][k].state = "DONE" => row'[v][k] = row[v][k]
      BY <2>1, <2>4
    <3>2. DoneIsReal'
      BY <1>1, <2>3, <3>1 DEF Facts, DoneIsReal
    <3>3. PullHasTheTurn'
      BY <1>1, <2>3, <2>4, <2>5 DEF Facts, PullHasTheTurn
    <3> QED
      BY <3>2, <3>3
  <2> QED
    BY <1>1, <2>7, <2>8, <2>9, JobsStay DEF Facts
<1> QED
  BY <1>2, <1>3

\* A step in which the branch or the pull request of one item moves on, as
\* far as the local branch goes, on a pull request that has the turn.
LEMMA GitHubStep ==
  ASSUME TypeOK, TypeOK', Facts, NEW w \in Items, UNCHANGED <<row, head>>,
         \A v \in Items : v # w => remote'[v] = remote[v] /\ pull'[v] = pull[v],
         remote[w] <= remote'[w], remote'[w] <= head[w],
         pull[w].sha <= pull'[w].sha, pull'[w].sha <= remote'[w],
         pull[w].state # "none" => pull'[w].state # "none",
         pull[w].state \in {"MERGED", "CLOSED"} => pull'[w].state = pull[w].state,
         pull[w].state = "none" /\ pull'[w].state # "none" =>
           HasRow(w, "pr") /\ pull'[w].sha >= row[w]["pr"].sha
  PROVE  Facts' /\ WorldGrows
<1>1. /\ remote \in [Items -> 0..MaxCommits] /\ remote' \in [Items -> 0..MaxCommits]
      /\ \A v \in Items : pull[v].sha \in Nat /\ pull'[v].sha \in Nat
      /\ \A v \in Items, k \in Kinds : row[v][k].sha \in Nat
      /\ head \in [Items -> 0..MaxCommits]
  BY DEF TypeOK, PullType, RowType
<1>2. "push" \in Kinds /\ "pr" \in Kinds /\ "land" \in Kinds
  BY DEF Kinds
<1>3. WorldGrows
  BY <1>1 DEF WorldGrows, HasRow
<1>4. RowsFit'
  <2> SUFFICES ASSUME NEW v \in Items PROVE
        /\ HasRow(v, "push")' <=> HasRow(v, "pr")'
        /\ HasRow(v, "land")' => pull'[v].state # "none"
        /\ pull'[v].state # "none" => HasRow(v, "pr")'
        /\ \A k \in Kinds : HasRow(v, k)' => row'[v][k].sha > 0
        /\ remote'[v] <= head'[v]
        /\ pull'[v].sha <= remote'[v]
    BY DEF RowsFit
  <2>1. CASE v # w
    BY <2>1 DEF Facts, RowsFit, HasRow
  <2>2. CASE v = w
    BY <2>2 DEF Facts, RowsFit, HasRow
  <2> QED
    BY <2>1, <2>2
<1>5. DoneIsReal'
  BY <1>1, <1>2, <1>3 DEF Facts, DoneIsReal, WorldGrows
<1>6. PullHasTheTurn'
  <2> SUFFICES ASSUME NEW v \in Items, pull'[v].state # "none"
               PROVE  row[v]["pr"].sha > 0 /\ pull'[v].sha >= row[v]["pr"].sha
    BY DEF PullHasTheTurn
  <2>1. CASE v # w
    BY <2>1 DEF Facts, PullHasTheTurn
  <2>2. CASE v = w /\ pull[w].state # "none"
    BY <1>1, <1>2, <2>2 DEF Facts, PullHasTheTurn
  <2>3. CASE v = w /\ pull[w].state = "none"
    BY <1>2, <2>3 DEF Facts, RowsFit
  <2> QED
    BY <2>1, <2>2, <2>3
<1> QED
  BY <1>3, <1>4, <1>5, <1>6 DEF Facts

\* The calls that change git or GitHub.
LEMMA CallsKeep ==
  ASSUME IInv, TypeOK', NEW x \in Executors, NEW w \in Items,
         PushCall(x, w) \/ PrCall(x, w) \/ LandCall(x, w)
  PROVE  Facts' /\ JobsFit'
<1> USE DEF IInv, db, agent, github, bounds
<1>0. /\ head \in [Items -> 0..MaxCommits] /\ remote \in [Items -> 0..MaxCommits]
      /\ pull \in [Items -> PullType]
      /\ \A v \in Items : pull[v].sha \in Nat /\ remote[v] \in Nat /\ head[v] \in Nat
      /\ \A v \in Items, k \in Kinds : row[v][k].sha \in Nat
  BY DEF TypeOK, PullType, RowType
<1>1. \A v \in Items : remote[v] <= head[v] /\ pull[v].sha <= remote[v]
  BY DEF Facts, RowsFit
<1>2. \A k \in Kinds :
        job[x].item = w /\ job[x].kind = k /\ job[x].at = "call"
        => HasRow(w, k) /\ Rests("call", w, k)
  BY DEF JobsFit, Decided
<1>3. CASE PushCall(x, w)
  <2>1. /\ UNCHANGED <<row, head>> /\ remote' = [remote EXCEPT ![w] = head[w]]
        /\ \/ pull' = pull
           \/ pull' = [pull EXCEPT ![w].sha = head[w]]
        /\ Goto(x, "look")
        /\ job[x].item = w /\ job[x].kind = "push" /\ job[x].at = "call"
    BY <1>3 DEF PushCall, At
  <2>2. /\ \A v \in Items : v # w => remote'[v] = remote[v] /\ pull'[v] = pull[v]
        /\ remote'[w] = head[w] /\ pull'[w].state = pull[w].state
        /\ pull'[w].sha \in {pull[w].sha, head[w]}
    BY <1>0, <2>1 DEF PullType
  <2>3. Facts' /\ WorldGrows
    BY <1>0, <1>1, <2>1, <2>2, GitHubStep
  <2>4. Rests("look", w, "push")'
    BY DEF Rests
  <2> QED
    BY <2>1, <2>3, <2>4, JobMoves DEF Kinds, Places
<1>4. CASE PrCall(x, w)
  <2>1. /\ UNCHANGED <<row, head, remote>>
        /\ job[x].item = w /\ job[x].kind = "pr" /\ job[x].at = "call"
    BY <1>4 DEF PrCall, At
  <2>2. HasRow(w, "pr") /\ remote[w] >= row[w]["pr"].sha
    BY <1>2, <2>1 DEF Rests, Kinds
  <2>3. CASE pull[w].state = "none"
    <3>1. /\ pull' = [pull EXCEPT ![w] = [state |-> "OPEN", sha |-> remote[w]]]
          /\ Goto(x, "look")
      BY <1>4, <2>3 DEF PrCall
    <3>2. /\ \A v \in Items : v # w => pull'[v] = pull[v]
          /\ pull'[w].state = "OPEN" /\ pull'[w].sha = remote[w]
      BY <1>0, <3>1
    <3>3. pull[w].sha <= remote[w]
      BY <1>0, <2>3 DEF Facts, RowsFit
    <3>4. Facts' /\ WorldGrows
      BY <1>0, <1>1, <2>1, <2>2, <2>3, <3>2, <3>3, GitHubStep
    <3>5. Rests("look", w, "pr")'
      BY <3>2 DEF Rests
    <3> QED
      BY <2>1, <3>1, <3>4, <3>5, JobMoves DEF Kinds, Places
  <2>4. CASE pull[w].state # "none"
    <3>1. pull' = pull /\ GotoLater(x, "fail", FALSE)
      BY <1>4, <2>4 DEF PrCall
    <3>2. Facts' /\ WorldGrows
      BY <1>0, <2>1, <3>1, QuietStep
    <3>3. Rests("fail", w, "pr")'
      BY DEF Rests
    <3> QED
      BY <2>1, <3>1, <3>2, <3>3, JobMoves DEF Kinds, Places
  <2> QED
    BY <2>3, <2>4
<1>5. CASE LandCall(x, w)
  <2>1. /\ UNCHANGED <<row, head, remote>>
        /\ job[x].item = w /\ job[x].kind = "land" /\ job[x].at = "call"
        /\ \/ pull' = pull
           \/ pull[w].state = "OPEN" /\ pull' = [pull EXCEPT ![w].state = "MERGED"]
    BY <1>5 DEF LandCall, At
  <2>2. PICK place \in {"look", "fail"} :
          Goto(x, place) \/ GotoLater(x, place, FALSE)
    BY <1>5 DEF LandCall
  <2>3. /\ \A v \in Items : v # w => pull'[v] = pull[v]
        /\ pull'[w].sha = pull[w].sha
        /\ \/ pull'[w].state = pull[w].state
           \/ pull[w].state = "OPEN" /\ pull'[w].state = "MERGED"
    BY <1>0, <2>1 DEF PullType
  <2>4. Facts' /\ WorldGrows
    BY <1>0, <1>1, <2>1, <2>3, GitHubStep
  <2>5. Rests(place, w, "land")'
    BY <2>2 DEF Rests
  <2>6. place \in Places /\ "land" \in Kinds
    BY <2>2 DEF Places, Kinds
  <2> QED
    BY <2>1, <2>2, <2>4, <2>5, <2>6, JobMoves
<1> QED
  BY <1>3, <1>4, <1>5

\* The writes that belong to one kind of effect: the watching effect of a new
\* pull request, the hold of an item, and its completion.
LEMMA WritesKeep ==
  ASSUME IInv, TypeOK', NEW x \in Executors, NEW w \in Items,
         PrAdopt(x, w) \/ LandHold(x, w) \/ LandComplete(x, w)
  PROVE  Facts' /\ JobsFit'
<1> USE DEF IInv, db, agent, github, bounds
<1>0. /\ head \in [Items -> 0..MaxCommits] /\ remote \in [Items -> 0..MaxCommits]
      /\ row \in [Items -> [Kinds -> RowType]]
      /\ "push" \in Kinds /\ "pr" \in Kinds /\ "land" \in Kinds
  BY DEF TypeOK, Kinds
<1>1. \A k \in Kinds :
        job[x].item = w /\ job[x].kind = k /\ job[x].at \notin {"idle", "next"}
        => HasRow(w, k) /\ Rests(job[x].at, w, k)
  BY DEF JobsFit, Decided
<1>2. CASE LandHold(x, w)
  <2>1. Facts' /\ WorldGrows
    BY <1>0, <1>2, QuietStep DEF LandHold
  <2>2. Rests("requeue", w, "land")'
    BY DEF Rests
  <2> QED
    BY <1>0, <1>2, <2>1, <2>2, JobMoves DEF LandHold, At, Places
<1>3. CASE LandComplete(x, w)
  <2> DEFINE r == Marked(row[w]["land"], "DONE", FALSE)
  <2>0. row[w]["land"] \in RowType
    BY <1>0
  <2>1. r \in RowType
    BY <2>0, RowTypes DEF RowStates
  <2>2. r.sha = row[w]["land"].sha /\ r.state = "DONE"
    BY <2>0 DEF Marked, RowType
  <2>3. row' = [row EXCEPT ![w]["land"] = r] /\ UNCHANGED <<remote, pull, head>>
    BY <1>3 DEF LandComplete
  <2>4. HasRow(w, "land") /\ Rests("complete", w, "land")
    BY <1>0, <1>1, <1>3 DEF LandComplete, At
  <2>5. Real(w, "land")
    BY <2>4 DEF Real, Rests
  <2> HIDE DEF r
  <2>6. Facts' /\ WorldGrows
    BY <1>0, <2>1, <2>2, <2>3, <2>4, <2>5, MarkStep DEF HasRow
  <2>7. Rests("next", w, "land")'
    BY DEF Rests
  <2> QED
    BY <1>0, <1>3, <2>6, <2>7, JobMoves DEF LandComplete, At, Places
<1>4. CASE PrAdopt(x, w)
  <2>1. /\ job[x].item = w /\ job[x].kind = "pr" /\ job[x].at = "adopt"
        /\ UNCHANGED <<remote, pull, head>> /\ Goto(x, "next")
    BY <1>4 DEF PrAdopt, At
  <2>2. HasRow(w, "pr") /\ pull[w].state # "none"
    BY <1>0, <1>1, <2>1 DEF Rests
  <2>3. Rests("next", w, "pr")'
    BY DEF Rests
  <2>4. CASE row[w]["land"] # NoRow
    <3>1. row' = row
      BY <1>4, <2>4 DEF PrAdopt
    <3>2. Facts' /\ WorldGrows
      BY <1>0, <2>1, <3>1, QuietStep
    <3> QED
      BY <1>0, <2>1, <2>3, <3>2, JobMoves DEF Places
  <2>5. CASE row[w]["land"] = NoRow
    <3> DEFINE new == NewRow(row[w]["pr"].sha)
    <3>1. new.sha = row[w]["pr"].sha /\ new.state = "PENDING"
      BY DEF NewRow
    <3>2. row' = [row EXCEPT ![w]["land"] = new]
      BY <1>4, <2>5 DEF PrAdopt
    <3> HIDE DEF new
    <3>3. /\ row'[w]["land"] = new
          /\ \A v \in Items, k \in Kinds :
               v # w \/ k # "land" => row'[v][k] = row[v][k]
      BY <1>0, <3>2
    <3>4. ~HasRow(w, "land")
      BY <2>5 DEF HasRow, NoRow
    <3>5. WorldGrows
      BY <1>0, <2>1, <3>3, <3>4 DEF WorldGrows, HasRow
    <3>6. RowsFit'
      <4>1. row[w]["pr"].sha > 0
        BY <1>0, <2>2 DEF Facts, RowsFit
      <4>2. \A v \in Items :
              /\ row'[v]["push"] = row[v]["push"] /\ row'[v]["pr"] = row[v]["pr"]
              /\ HasRow(v, "land")' => pull[v].state # "none"
        BY <1>0, <2>2, <3>3 DEF Facts, RowsFit, HasRow
      <4>3. \A v \in Items, k \in Kinds : HasRow(v, k)' => row'[v][k].sha > 0
        BY <3>1, <3>3, <4>1 DEF Facts, RowsFit, HasRow
      <4> QED
        BY <2>1, <4>2, <4>3 DEF Facts, RowsFit, HasRow
    <3>7. DoneIsReal' /\ PullHasTheTurn'
      <4>1. \A v \in Items, k \in Kinds :
              row'[v][k].state = "DONE" => row'[v][k] = row[v][k]
        BY <3>1, <3>3
      <4>2. DoneIsReal'
        BY <1>0, <2>1, <4>1 DEF Facts, DoneIsReal
      <4>3. PullHasTheTurn'
        BY <1>0, <2>1, <3>3 DEF Facts, PullHasTheTurn
      <4> QED
        BY <4>2, <4>3
    <3> QED
      BY <1>0, <2>1, <2>3, <3>5, <3>6, <3>7, JobMoves DEF Places, Facts
  <2> QED
    BY <2>4, <2>5
<1> QED
  BY <1>2, <1>3, <1>4

\* The executor's loop: what it lists exists, and nothing is decided yet.
LEMMA LoopKeeps ==
  ASSUME IInv, TypeOK', NEW x \in Executors,
         List(x) \/ Finish(x) \/ Throw(x) \/ Crash(x)
  PROVE  Facts' /\ JobsFit'
<1> USE DEF IInv, db, agent, github, bounds
<1>0. /\ head \in [Items -> 0..MaxCommits] /\ job \in [Executors -> JobType]
  BY DEF TypeOK
<1>1. UNCHANGED <<row, remote, pull, head>>
  BY DEF List, Finish, Throw, Crash
<1>2. Facts' /\ WorldGrows
  BY <1>0, <1>1, QuietStep
<1>3. \A v \in Items, k \in Kinds : HasRow(v, k)' = HasRow(v, k)
  BY <1>1 DEF HasRow
<1>4. ASSUME \A y \in Executors : y # x => job'[y] = job[y],
             job'[x].at \in {"idle", "next"},
             \A v \in Items, k \in Kinds : <<v, k>> \in job'[x].todo => HasRow(v, k)
      PROVE  JobsFit'
  <2> SUFFICES ASSUME NEW y \in Executors, NEW v \in Items, NEW k \in Kinds
               PROVE  Decided(y, v, k)'
    BY DEF JobsFit
  <2>1. CASE y = x
    BY <1>3, <1>4, <2>1 DEF Decided
  <2>2. CASE y # x
    BY <1>2, <1>4, <2>2, DecidedStays DEF JobsFit
  <2> QED
    BY <2>1, <2>2
<1>5. CASE List(x)
  <2>1. PICK L \in Listings :
          job' = [job EXCEPT ![x].at = "next", ![x].todo = L]
    BY <1>5 DEF List
  <2>2. \A v \in Items, k \in Kinds : <<v, k>> \in L => HasRow(v, k)
    BY DEF Listings, Due, HasRow
  <2>3. /\ \A y \in Executors : y # x => job'[y] = job[y]
        /\ job'[x].at = "next" /\ job'[x].todo = L
    BY <1>0, <2>1 DEF JobType
  <2> QED
    BY <1>2, <1>4, <2>2, <2>3
<1>6. CASE Finish(x) \/ Crash(x)
  <2>1. job' = [job EXCEPT ![x] = Rest]
    BY <1>6 DEF Finish, Crash
  <2>2. /\ \A y \in Executors : y # x => job'[y] = job[y]
        /\ job'[x] = Rest
    BY <1>0, <2>1
  <2> QED
    BY <1>2, <1>4, <2>2 DEF Rest
<1>7. CASE Throw(x)
  <2>1. /\ job[x].at \notin {"idle", "next"}
        /\ \E later \in BOOLEAN : GotoLater(x, "fail", later)
    BY <1>7 DEF Throw
  <2>2. CASE \E w \in Items, k \in Kinds : job[x].item = w /\ job[x].kind = k
    <3>1. PICK w \in Items, k \in Kinds : job[x].item = w /\ job[x].kind = k
      BY <2>2
    <3>2. Rests("fail", w, k)'
      BY DEF Rests
    <3> QED
      BY <1>2, <2>1, <3>1, <3>2, JobMoves DEF Places
  <2>3. CASE ~ \E w \in Items, k \in Kinds : job[x].item = w /\ job[x].kind = k
    <3>1. /\ \A y \in Executors : y # x => job'[y] = job[y]
          /\ job'[x].todo = job[x].todo
          /\ job'[x].item = job[x].item /\ job'[x].kind = job[x].kind
      BY <1>0, <2>1 DEF GotoLater, JobType
    <3> SUFFICES ASSUME NEW y \in Executors, NEW v \in Items, NEW k \in Kinds
                 PROVE  Decided(y, v, k)'
      BY <1>2 DEF JobsFit
    <3>2. Decided(y, v, k)
      BY DEF JobsFit
    <3> QED
      BY <1>2, <1>3, <2>3, <3>1, <3>2, DecidedStays DEF Decided
  <2> QED
    BY <2>2, <2>3
<1> QED
  BY <1>5, <1>6, <1>7

-----------------------------------------------------------------------------
(* The theorems. *)

\* At first there is nothing to be wrong about.
LEMMA InitFacts == Init => IInv
<1> SUFFICES ASSUME Init PROVE IInv
  OBVIOUS
<1>1. TypeOK
  BY InitType
<1>2. /\ \A w \in Items, k \in Kinds : row[w][k] = NoRow
      /\ \A w \in Items : pull[w] = NoPull /\ remote[w] = 0 /\ head[w] = 0
      /\ \A x \in Executors : job[x] = Rest
  BY DEF Init
<1>3. Facts
  BY <1>2 DEF Facts, RowsFit, DoneIsReal, PullHasTheTurn, HasRow, NoRow, NoPull, Kinds
<1>4. JobsFit
  BY <1>2 DEF JobsFit, Decided, Rest
<1> QED
  BY <1>1, <1>3, <1>4 DEF IInv

\* The invariant is inductive.
LEMMA StepFacts == IInv /\ [Next]_vars => IInv'
<1> SUFFICES ASSUME IInv, [Next]_vars PROVE IInv'
  OBVIOUS
<1>1. TypeOK'
  BY StepType DEF IInv
<1>2. CASE UNCHANGED vars
  <2>1. head \in [Items -> 0..MaxCommits]
    BY DEF IInv, TypeOK
  <2>2. Facts' /\ WorldGrows
    BY <1>1, <1>2, <2>1, QuietStep DEF IInv, vars, db, agent, github
  <2> QED
    BY <1>1, <1>2, <2>2, JobsStay DEF IInv, vars
<1>3. CASE Next
  <2>1. ASSUME NEW w \in Items, World(w) PROVE Facts' /\ JobsFit'
    BY <1>1, <2>1, WorldKeeps, TurnKeeps DEF World
  <2>2. ASSUME NEW x \in Executors, Execute(x) \/ Throw(x) \/ Crash(x)
        PROVE  Facts' /\ JobsFit'
    <3>1. CASE List(x) \/ Finish(x) \/ Throw(x) \/ Crash(x)
      BY <1>1, <3>1, LoopKeeps
    <3>2. ASSUME NEW w \in Items, NEW k \in Kinds, Visit(x, w, k)
          PROVE  Facts' /\ JobsFit'
      BY <1>1, <3>2, VisitKeeps
    <3>3. ASSUME NEW w \in Items, Push(x, w) \/ Propose(x, w) \/ Land(x, w)
          PROVE  Facts' /\ JobsFit'
      BY <1>1, <3>3, ReadsKeep, CallsKeep, WritesKeep
      DEF Push, Propose, Land, Reads
    <3> QED
      BY <2>2, <3>1, <3>2, <3>3 DEF Execute
  <2> QED
    BY <1>1, <1>3, <2>1, <2>2 DEF Next, IInv
<1> QED
  BY <1>2, <1>3

\* An effect that is marked DONE is true of git and GitHub: for any number of
\* executors, crashes and lost replies.
THEOREM DoneRowsAreReal == Spec => []DoneIsReal
<1>1. IInv => DoneIsReal
  BY DEF IInv, Facts
<1> QED
  BY <1>1, InitFacts, StepFacts, PTL DEF Spec

\* No pull request stands without the commit of the turn it was opened for.
THEOREM PullsHaveTheTurn == Spec => []PullHasTheTurn
<1>1. IInv => PullHasTheTurn
  BY DEF IInv, Facts
<1> QED
  BY <1>1, InitFacts, StepFacts, PTL DEF Spec

-----------------------------------------------------------------------------
(* What a completed item stands for. *)

\* What the actions leave alone.
LEMMA Frames ==
  ASSUME NEW x \in Executors, NEW w \in Items
  PROVE  /\ Reads(x, w) \/ List(x) \/ Finish(x) \/ Throw(x) \/ Crash(x)
              => UNCHANGED <<row, item, pull>>
         /\ \A k \in Kinds : Visit(x, w, k) => UNCHANGED <<item, pull>>
         /\ \A k \in Kinds : Take(x, w, k) => UNCHANGED row
         /\ PushCall(x, w) \/ PrCall(x, w) \/ LandCall(x, w) => UNCHANGED <<row, item>>
         /\ PrAdopt(x, w) => UNCHANGED <<item, pull>>
         /\ LandHold(x, w) => UNCHANGED <<row, pull>>
         /\ LandComplete(x, w) => UNCHANGED pull
         /\ Commit(w) \/ TurnsGreen(w) => UNCHANGED <<row, item, pull>>
         /\ Turn(w) => UNCHANGED <<item, pull>>
         /\ \A k \in Kinds : BackoffEnds(w, k) => UNCHANGED <<item, pull>>
         /\ GitHubMerges(w) \/ GitHubCloses(w) => UNCHANGED <<row, item>>
<1>1. Reads(x, w) => UNCHANGED <<row, item, pull>>
  BY DEF Reads, PushLook, PrFind, PrGate, PrLook, LandRead, LandPolicy, LandLook, db, github
<1>2. List(x) \/ Finish(x) => UNCHANGED <<row, item, pull>>
  BY DEF List, Finish, db, github
<1>3. Throw(x) \/ Crash(x) => UNCHANGED <<row, item, pull>>
  BY DEF Throw, Crash, db, github
<1>4. \A k \in Kinds : Take(x, w, k) => UNCHANGED <<row, item, pull>>
  BY DEF Take, db, github
<1>5. \A k \in Kinds : Start(x, w, k) \/ Done(x, w, k) => UNCHANGED <<item, pull>>
  BY DEF Start, Done, github
<1>6. \A k \in Kinds : Fail(x, w, k) \/ Requeue(x, w, k) => UNCHANGED <<item, pull>>
  BY DEF Fail, Requeue, github
<1>7. PushCall(x, w) \/ PrCall(x, w) \/ LandCall(x, w) => UNCHANGED <<row, item>>
  BY DEF PushCall, PrCall, LandCall, db
<1>8. PrAdopt(x, w) => UNCHANGED <<item, pull>>
  BY DEF PrAdopt, github
<1>9. LandHold(x, w) => UNCHANGED <<row, pull>>
  BY DEF LandHold, github
<1>10. LandComplete(x, w) => UNCHANGED pull
  BY DEF LandComplete, github
<1>11. Commit(w) \/ TurnsGreen(w) => UNCHANGED <<row, item, pull>>
  BY DEF Commit, TurnsGreen, db, github
<1>12. Turn(w) => UNCHANGED <<item, pull>>
  BY DEF Turn, github
<1>13. \A k \in Kinds : BackoffEnds(w, k) => UNCHANGED <<item, pull>>
  BY DEF BackoffEnds, github
<1>14. GitHubMerges(w) \/ GitHubCloses(w) => UNCHANGED <<row, item>>
  BY DEF GitHubMerges, GitHubCloses, db
<1> QED
  BY <1>1, <1>2, <1>3, <1>4, <1>5, <1>6, <1>7, <1>8, <1>9, <1>10, <1>11, <1>12, <1>13, <1>14
  DEF Visit

\* Nobody reopens a merged pull request, nor pushes to it.
LEMMA MergedStays ==
  ASSUME TypeOK, [Next]_vars, NEW w \in Items, pull[w].state = "MERGED"
  PROVE  pull'[w].state = "MERGED"
<1>0. pull \in [Items -> PullType]
  BY DEF TypeOK
<1>1. ASSUME NEW v \in Items, NEW s \in {"MERGED", "CLOSED"}, pull[v].state = "OPEN",
             pull' = [pull EXCEPT ![v].state = s]
      PROVE  pull'[w].state = "MERGED"
  <2>1. v # w
    BY <1>1
  <2> QED
    BY <1>0, <1>1, <2>1
<1>2. ASSUME NEW v \in Items, GitHubMerges(v) \/ GitHubCloses(v)
      PROVE  pull'[w].state = "MERGED"
  BY <1>1, <1>2 DEF GitHubMerges, GitHubCloses
<1>3. ASSUME NEW x \in Executors, NEW v \in Items, LandCall(x, v)
      PROVE  pull'[w].state = "MERGED"
  BY <1>1, <1>3 DEF LandCall
<1>4. ASSUME NEW x \in Executors, NEW v \in Items, PushCall(x, v)
      PROVE  pull'[w].state = "MERGED"
  <2>1. pull' = pull \/ pull' = [pull EXCEPT ![v].sha = head[v]]
    BY <1>4 DEF PushCall
  <2> QED
    BY <1>0, <2>1 DEF PullType
<1>5. ASSUME NEW x \in Executors, NEW v \in Items, PrCall(x, v)
      PROVE  pull'[w].state = "MERGED"
  <2>1. \/ pull' = pull
        \/ /\ pull[v].state = "none"
           /\ pull' = [pull EXCEPT ![v] = [state |-> "OPEN", sha |-> remote[v]]]
    BY <1>5 DEF PrCall
  <2> QED
    BY <1>0, <2>1
<1>6. ASSUME ~(\E v \in Items : GitHubMerges(v) \/ GitHubCloses(v)),
             ~(\E x \in Executors, v \in Items : LandCall(x, v) \/ PushCall(x, v) \/ PrCall(x, v))
      PROVE  pull' = pull
  <2>1. CASE \E v \in Items : World(v)
    BY <1>6, <2>1, Frames DEF World, Executors
  <2>2. ASSUME NEW x \in Executors, Execute(x) \/ Throw(x) \/ Crash(x)
        PROVE  pull' = pull
    BY <1>6, <2>2, Frames DEF Execute, Push, Propose, Land, Reads
  <2>3. CASE UNCHANGED vars
    BY <2>3 DEF vars, github
  <2> QED
    BY <2>1, <2>2, <2>3 DEF Next
<1> QED
  BY <1>2, <1>3, <1>4, <1>5, <1>6

\* completeMergedWorkItem: COMPLETED is a merge, of a pull request with the turn's commit.
CompletedIsTheTurn ==
  \A w \in Items : item[w] = "COMPLETED" =>
    /\ pull[w].state = "MERGED"
    /\ row[w]["pr"].sha > 0 /\ pull[w].sha >= row[w]["pr"].sha

CompletedIsMerged == \A w \in Items : item[w] = "COMPLETED" => pull[w].state = "MERGED"

LEMMA CompletedStep == IInv /\ CompletedIsMerged /\ [Next]_vars => CompletedIsMerged'
<1> SUFFICES ASSUME IInv, CompletedIsMerged, [Next]_vars, NEW w \in Items, item'[w] = "COMPLETED"
             PROVE  pull'[w].state = "MERGED"
  BY DEF CompletedIsMerged
<1>0. TypeOK /\ item \in [Items -> {"RUNNING", "WAITING", "COMPLETED"}]
  BY DEF IInv, TypeOK
<1>1. item[w] = "COMPLETED" \/ pull[w].state = "MERGED"
  <2>1. ASSUME NEW x \in Executors, NEW v \in Items, LandComplete(x, v)
        PROVE  item[w] = "COMPLETED" \/ pull[w].state = "MERGED"
    <3>1. pull[v].state = "MERGED"
      BY <2>1 DEF IInv, JobsFit, Decided, LandComplete, At, Rests, Kinds
    <3>2. w # v => item'[w] = item[w]
      BY <1>0, <2>1 DEF LandComplete
    <3> QED
      BY <3>1, <3>2
  <2>2. ASSUME NEW x \in Executors, NEW v \in Items, LandHold(x, v)
        PROVE  item[w] = "COMPLETED"
    BY <1>0, <2>2 DEF LandHold
  <2>3. ASSUME ~(\E x \in Executors, v \in Items : LandComplete(x, v) \/ LandHold(x, v))
        PROVE  item' = item
    <3>1. CASE \E v \in Items : World(v)
      BY <3>1, Frames DEF World, Executors
    <3>2. ASSUME NEW x \in Executors, Execute(x) \/ Throw(x) \/ Crash(x)
          PROVE  item' = item
      BY <2>3, <3>2, Frames DEF Execute, Push, Propose, Land, Reads
    <3>3. CASE UNCHANGED vars
      BY <3>3 DEF vars, db
    <3> QED
      BY <3>1, <3>2, <3>3 DEF Next
  <2> QED
    BY <2>1, <2>2, <2>3
<1> QED
  BY <1>0, <1>1, MergedStays DEF CompletedIsMerged

\* An item is COMPLETED only when a pull request was merged that has the commit its turn was
\* about, whichever of the executors saw the merge (completeMergedWorkItem, runCreatePr).
THEOREM CompletedMeansMerged == Spec => []CompletedIsTheTurn
<1>1. Init => CompletedIsMerged
  BY DEF Init, CompletedIsMerged
<1>2. IInv /\ CompletedIsMerged => CompletedIsTheTurn
  BY DEF IInv, Facts, PullHasTheTurn, CompletedIsMerged, CompletedIsTheTurn
<1> QED
  BY <1>1, <1>2, InitFacts, StepFacts, CompletedStep, PTL DEF Spec

-----------------------------------------------------------------------------
(* The daemon alone. *)

\* The daemon is in the middle of effect k of w.
AtWork(w, k) ==
  /\ job[Daemon].item = w /\ job[Daemon].kind = k
  /\ job[Daemon].at \notin {"idle", "next", "adopt"}

\* It works on nothing that is DONE, and what is DONE waits for nothing.
DoneIsLeft ==
  \A w \in Items, k \in Kinds :
    row[w][k].state = "DONE" => ~row[w][k].later /\ ~AtWork(w, k)

\* What is DONE is never touched again: executeVerifiedEffect returns at once.
DoneIsFinal ==
  [][\A w \in Items, k \in Kinds : row[w][k].state = "DONE" => row'[w][k] = row[w][k]]_vars

\* A write to one row.
LEMMA OneRow ==
  ASSUME TypeOK, NEW w \in Items, NEW k \in Kinds, NEW r, row' = [row EXCEPT ![w][k] = r]
  PROVE  /\ row'[w][k] = r
         /\ \A v \in Items, l \in Kinds : v # w \/ l # k => row'[v][l] = row[v][l]
BY DEF TypeOK

\* What a step may do to a row: leave it, or change one that is not DONE.
Unfinished(w, k) ==
  /\ row[w][k].state # "DONE"
  /\ row'[w][k].state = "DONE" => ~row'[w][k].later /\ ~AtWork(w, k)'

LEMMA RowsAlone ==
  ASSUME IInv, Commands = {}, DoneIsLeft, [Next]_vars, NEW v \in Items, NEW l \in Kinds
  PROVE  row'[v][l] = row[v][l] \/ Unfinished(v, l)
<1>0. TypeOK /\ RowsFit /\ job \in [Executors -> JobType] /\ Executors = {Daemon}
  BY DEF IInv, Facts, TypeOK, Executors
<1>1. ASSUME NEW w \in Items, NEW k \in Kinds, NEW r, row' = [row EXCEPT ![w][k] = r],
             row[w][k].state # "DONE", r.state = "DONE" => ~r.later /\ ~AtWork(w, k)'
      PROVE  row'[v][l] = row[v][l] \/ Unfinished(v, l)
  <2>1. row'[w][k] = r
    <3>1. row \in [Items -> [Kinds -> RowType]]
      BY <1>0 DEF TypeOK
    <3> QED
      BY ONLY <1>1, <3>1, k \in Kinds, w \in Items
  <2>2. CASE v = w /\ l = k
    <3>1. row[v][l].state # "DONE" /\ row'[v][l] = r
      BY <1>1, <2>1, <2>2
    <3>2. r.state = "DONE" => ~r.later /\ ~AtWork(v, l)'
      BY <1>1, <2>2
    <3> QED
      BY <3>1, <3>2 DEF Unfinished
  <2>3. CASE v # w \/ l # k
    BY <1>0, <1>1, <2>3, OneRow
  <2> QED
    BY <2>2, <2>3
<1>2. \A w \in Items, k \in Kinds : row[w][k] \in RowType
  BY <1>0 DEF TypeOK
<1>3. ASSUME NEW w \in Items, NEW k \in Kinds, NEW place \in Places \ {"idle", "next", "adopt"},
             At(Daemon, place, w, k)
      PROVE  row[w][k].state # "DONE"
  BY <1>3 DEF DoneIsLeft, AtWork, At
<1>4. \A r \in RowType, later \in BOOLEAN :
        /\ Marked(r, "EXECUTING", later).state = "EXECUTING"
        /\ Marked(r, "FAILED", later).state = "FAILED"
        /\ Marked(r, "DONE", later).later = later
        /\ Requeued(r, later).state = "PENDING"
  BY DEF Marked, Requeued, RowType
<1>5. ASSUME NEW w \in Items, NEW k \in Kinds, Start(Daemon, w, k) \/ Fail(Daemon, w, k)
                                                \/ Requeue(Daemon, w, k)
      PROVE  row'[v][l] = row[v][l] \/ Unfinished(v, l)
  <2>1. row[w][k].state # "DONE"
    BY <1>3, <1>5 DEF Start, Fail, Requeue, Places
  <2>2. job[Daemon].later \in BOOLEAN
    BY <1>0 DEF JobType
  <2>3. PICK r : row' = [row EXCEPT ![w][k] = r] /\ r.state # "DONE"
    <3>1. CASE Start(Daemon, w, k)
      BY <1>2, <1>4, <3>1 DEF Start
    <3>2. CASE Fail(Daemon, w, k)
      BY <1>2, <1>4, <2>2, <3>2 DEF Fail
    <3>3. CASE Requeue(Daemon, w, k)
      BY <1>2, <1>4, <2>2, <3>3 DEF Requeue
    <3> QED
      BY <1>5, <3>1, <3>2, <3>3
  <2> QED
    BY <1>1, <2>1, <2>3
<1>6. ASSUME NEW w \in Items, NEW k \in Kinds,
             Done(Daemon, w, k) \/ (LandComplete(Daemon, w) /\ k = "land")
      PROVE  row'[v][l] = row[v][l] \/ Unfinished(v, l)
  <2>1. row[w][k].state # "DONE"
    BY <1>3, <1>6 DEF Done, LandComplete, Places
  <2>2. row' = [row EXCEPT ![w][k] = Marked(row[w][k], "DONE", FALSE)]
    BY <1>6 DEF Done, LandComplete
  <2>3. Goto(Daemon, "adopt") \/ Goto(Daemon, "next")
    BY <1>6 DEF Done, LandComplete
  <2>4. ~AtWork(w, k)'
    BY <1>0, <2>3 DEF Goto, AtWork, JobType
  <2>5. ~Marked(row[w][k], "DONE", FALSE).later
    BY <1>2, <1>4
  <2> QED
    BY <1>1, <2>1, <2>2, <2>4, <2>5
<1>7. \A n : NewRow(n).state = "PENDING"
  BY DEF NewRow
<1>8. ASSUME NEW w \in Items, PrAdopt(Daemon, w)
      PROVE  row'[v][l] = row[v][l] \/ Unfinished(v, l)
  <2>1. CASE row[w]["land"] = NoRow
    <3>1. row' = [row EXCEPT ![w]["land"] = NewRow(row[w]["pr"].sha)]
      BY <1>8, <2>1 DEF PrAdopt
    <3>2. row[w]["land"].state # "DONE"
      BY <2>1 DEF NoRow
    <3> QED
      BY <1>1, <1>7, <3>1, <3>2 DEF Kinds
  <2>2. CASE row' = row
    BY <2>2
  <2> QED
    BY <1>8, <2>1, <2>2 DEF PrAdopt
<1>9. ASSUME NEW w \in Items, Turn(w)
      PROVE  row'[v][l] = row[v][l] \/ Unfinished(v, l)
  <2>1. CASE row[w]["push"] = NoRow
    <3>1. row' = [row EXCEPT ![w]["push"] = NewRow(head[w]), ![w]["pr"] = NewRow(head[w])]
      BY <1>9, <2>1 DEF Turn
    <3>2. row[w]["push"].state = "none" /\ row[w]["pr"].state = "none"
      BY <1>0, <2>1 DEF NoRow, RowsFit, HasRow
    <3>3. row'[v][l] = row[v][l] \/ (v = w /\ l \in {"push", "pr"} /\ row'[v][l] = NewRow(head[w]))
      BY <1>0, <3>1 DEF TypeOK, Kinds
    <3> QED
      BY <1>7, <3>2, <3>3 DEF Unfinished
  <2>2. CASE row' = row
    BY <2>2
  <2> QED
    BY <1>9, <2>1, <2>2 DEF Turn
<1>10. ASSUME NEW w \in Items, NEW k \in Kinds, BackoffEnds(w, k)
       PROVE  row'[v][l] = row[v][l] \/ Unfinished(v, l)
  <2>1. row[w][k].later /\ row' = [row EXCEPT ![w][k] = [row[w][k] EXCEPT !.later = FALSE]]
    BY <1>0, <1>10 DEF BackoffEnds, TypeOK
  <2>2. row[w][k].state # "DONE"
    BY <2>1 DEF DoneIsLeft
  <2>3. [row[w][k] EXCEPT !.later = FALSE].state = row[w][k].state
    BY <1>2 DEF RowType
  <2> QED
    BY <1>1, <2>1, <2>2, <2>3
<1>11. ASSUME ~(\E w \in Items, k \in Kinds :
                  \/ Start(Daemon, w, k) \/ Fail(Daemon, w, k) \/ Requeue(Daemon, w, k)
                  \/ Done(Daemon, w, k) \/ BackoffEnds(w, k)),
              ~(\E w \in Items : LandComplete(Daemon, w) \/ PrAdopt(Daemon, w) \/ Turn(w))
       PROVE  row' = row
  <2>1. CASE \E w \in Items : World(w)
    BY <1>11, <2>1, Frames DEF World, Executors
  <2>2. CASE Execute(Daemon) \/ Throw(Daemon) \/ Crash(Daemon)
    BY <1>0, <1>11, <2>2, Frames DEF Execute, Visit, Push, Propose, Land, Reads
  <2>3. CASE UNCHANGED vars
    BY <2>3 DEF vars, db
  <2> QED
    BY <1>0, <2>1, <2>2, <2>3 DEF Next
<1>12. "land" \in Kinds
  BY DEF Kinds
<1> QED
  BY <1>5, <1>6, <1>8, <1>9, <1>10, <1>11, <1>12

\* The daemon takes up nothing that is DONE.
LEMMA WorkAlone ==
  ASSUME TypeOK, Commands = {}, [Next]_vars, NEW w \in Items, NEW k \in Kinds, AtWork(w, k)'
  PROVE  AtWork(w, k) \/ row[w][k].state # "DONE"
<1>0. job \in [Executors -> JobType] /\ Executors = {Daemon}
  BY DEF TypeOK, Executors
<1>1. ASSUME NEW v \in Items, NEW l \in Kinds, Take(Daemon, v, l)
      PROVE  row[w][k].state # "DONE"
  <2> DEFINE at == IF row[v][l].state = "DONE" THEN "next"
                   ELSE IF row[v][l].attempt + 1 > MaxAttempts THEN "fail"
                   ELSE First(l)
             j == [at |-> at, todo |-> job[Daemon].todo \ {<<v, l>>}, item |-> v,
                   kind |-> l, later |-> FALSE]
  <2>1. job' = [job EXCEPT ![Daemon] = j]
    BY <1>1 DEF Take
  <2> HIDE DEF at
  <2>2. job'[Daemon].at = at /\ job'[Daemon].item = v /\ job'[Daemon].kind = l
    BY <1>0, <2>1
  <2>3. v = w /\ l = k /\ at # "next"
    BY <2>2 DEF AtWork
  <2> QED
    BY <2>3 DEF at
<1>2. ASSUME job[Daemon].at \notin {"idle", "next", "adopt"},
             \E place \in Places, later \in BOOLEAN :
               Goto(Daemon, place) \/ GotoLater(Daemon, place, later)
      PROVE  AtWork(w, k)
  <2>1. job'[Daemon].item = job[Daemon].item /\ job'[Daemon].kind = job[Daemon].kind
    BY <1>0, <1>2 DEF Goto, GotoLater, JobType
  <2> QED
    BY <1>2, <2>1 DEF AtWork
<1>3. ASSUME NEW v \in Items, NEW l \in Kinds, Start(Daemon, v, l) \/ Done(Daemon, v, l)
                                                \/ Fail(Daemon, v, l) \/ Requeue(Daemon, v, l)
      PROVE  AtWork(w, k)
  <2>1. job[Daemon].at \in {"start", "done", "fail", "requeue"}
    BY <1>3 DEF Start, Done, Fail, Requeue, At
  <2>2. \E place \in {"call", "next", "adopt"} : Goto(Daemon, place)
    BY <1>3 DEF Start, Done, Fail, Requeue
  <2> QED
    BY <1>2, <2>1, <2>2 DEF Places
<1>4. ASSUME NEW v \in Items, Reads(Daemon, v)
      PROVE  AtWork(w, k)
  <2>1. job[Daemon].at \in {"look", "find", "gate", "read", "policy"}
    BY <1>4 DEF Reads, PushLook, PrFind, PrGate, PrLook, LandRead, LandPolicy, LandLook, At
  <2>2. \E place \in Places, later \in BOOLEAN : GotoLater(Daemon, place, later)
    BY <1>0, <1>4, ReadsMove
  <2> QED
    BY <1>2, <2>1, <2>2
<1>5. ASSUME NEW v \in Items, PushCall(Daemon, v) \/ PrCall(Daemon, v) \/ LandCall(Daemon, v)
                               \/ LandHold(Daemon, v) \/ LandComplete(Daemon, v)
      PROVE  AtWork(w, k)
  <2>1. job[Daemon].at \in {"call", "hold", "complete"}
    BY <1>5 DEF PushCall, PrCall, LandCall, LandHold, LandComplete, At
  <2>2. \E place \in {"look", "fail", "requeue", "next"}, later \in BOOLEAN :
          Goto(Daemon, place) \/ GotoLater(Daemon, place, later)
    BY <1>5 DEF PushCall, PrCall, LandCall, LandHold, LandComplete
  <2> QED
    BY <1>2, <2>1, <2>2 DEF Places
<1>6. CASE Throw(Daemon)
  BY <1>2, <1>6 DEF Throw, Places
<1>7. ASSUME NEW v \in Items, PrAdopt(Daemon, v)
      PROVE  FALSE
  <2>1. Goto(Daemon, "next")
    BY <1>7 DEF PrAdopt
  <2> QED
    BY <1>0, <2>1 DEF Goto, AtWork, JobType
<1>8. ~List(Daemon) /\ ~Finish(Daemon) /\ ~Crash(Daemon)
  <2>1. List(Daemon) => job'[Daemon].at = "next"
    BY <1>0 DEF List, JobType
  <2>2. Finish(Daemon) \/ Crash(Daemon) => job'[Daemon].at = "idle"
    BY <1>0 DEF Finish, Crash, Rest
  <2> QED
    BY <2>1, <2>2 DEF AtWork
<1>9. ASSUME (\E v \in Items : World(v)) \/ UNCHANGED vars
      PROVE  job' = job
  BY <1>9 DEF World, Commit, Turn, GitHubMerges, GitHubCloses, TurnsGreen, BackoffEnds, vars
<1>10. CASE job' = job
  BY <1>10 DEF AtWork
<1> QED
  BY <1>0, <1>1, <1>3, <1>4, <1>5, <1>6, <1>7, <1>8, <1>9, <1>10
  DEF Next, Execute, Visit, Push, Propose, Land, Reads

LEMMA DoneIsLeftStep ==
  ASSUME IInv, Commands = {}, DoneIsLeft, [Next]_vars
  PROVE  DoneIsLeft'
<1> SUFFICES ASSUME NEW w \in Items, NEW k \in Kinds, row'[w][k].state = "DONE"
             PROVE  ~row'[w][k].later /\ ~AtWork(w, k)'
  BY DEF DoneIsLeft
<1>1. CASE row[w][k].state = "DONE"
  <2>1. row'[w][k] = row[w][k] /\ ~row[w][k].later /\ ~AtWork(w, k)
    BY <1>1, RowsAlone DEF Unfinished, DoneIsLeft
  <2>2. ~AtWork(w, k)'
    BY <1>1, <2>1, WorkAlone DEF IInv
  <2> QED
    BY <2>1, <2>2
<1>2. CASE row[w][k].state # "DONE"
  BY <1>2, RowsAlone DEF Unfinished
<1> QED
  BY <1>1, <1>2

\* Where no command executes effects beside the daemon, an effect that is DONE is never marked
\* anything else, over crashes, throws and restarts: the row is read again before it is taken
\* (executeVerifiedEffect).  A second executor can undo it with what it decided before.
THEOREM DoneIsFinalAlone ==
  ASSUME Commands = {}
  PROVE  Spec => DoneIsFinal
<1>1. Init => DoneIsLeft
  BY DEF Init, DoneIsLeft, NoRow
<1>2. IInv /\ DoneIsLeft /\ [Next]_vars => DoneIsLeft'
  BY DoneIsLeftStep
<1>3. IInv /\ DoneIsLeft /\ [Next]_vars =>
        [\A w \in Items, k \in Kinds : row[w][k].state = "DONE" => row'[w][k] = row[w][k]]_vars
  BY RowsAlone DEF Unfinished
<1> QED
  BY <1>1, <1>2, <1>3, InitFacts, StepFacts, PTL DEF Spec, DoneIsFinal

-----------------------------------------------------------------------------
(* The refinement. *)

\* A step on one item is a move of that item, or no move.
LEMMA StageMoves ==
  ASSUME NEW w \in Items,
         \A v \in Items : v # w =>
           item'[v] = item[v] /\ pull'[v].state = pull[v].state /\ remote'[v] = remote[v]
  PROVE  Stage' = [Stage EXCEPT ![w] = Stage'[w]]
<1>1. ASSUME NEW v \in Items, v # w PROVE StageOf(v)' = StageOf(v)
  BY <1>1 DEF StageOf
<1>2. Stage' = [v \in Items |-> StageOf(v)']
  BY DEF Stage
<1> QED
  BY <1>1, <1>2 DEF Stage

\* A step that leaves item, branch and the pull request's state alone.
LEMMA StageStays ==
  ASSUME UNCHANGED <<item, remote>>,
         \A v \in Items : pull'[v].state = pull[v].state
  PROVE  UNCHANGED Stage
BY DEF Stage, StageOf

\* Every step of the outbox is a step of the pipeline, or none.
LEMMA StepRefines == IInv /\ IInv' /\ [Next]_vars => [P!Next]_Stage
<1> SUFFICES ASSUME IInv, IInv', [Next]_vars PROVE P!Next \/ UNCHANGED Stage
  OBVIOUS
<1> USE DEF db, agent, github, bounds
<1>0. /\ TypeOK /\ TypeOK' /\ pull \in [Items -> PullType]
      /\ item \in [Items -> {"RUNNING", "WAITING", "COMPLETED"}]
      /\ remote \in [Items -> 0..MaxCommits] /\ head \in [Items -> 0..MaxCommits]
      /\ \A v \in Items : remote[v] \in Nat /\ head[v] \in Nat
  BY DEF IInv, TypeOK
<1>1. \A x \in Executors, w \in Items, k \in Kinds :
        job[x].item = w /\ job[x].kind = k /\ job[x].at \notin {"idle", "next"}
        => HasRow(w, k) /\ Rests(job[x].at, w, k)
  BY DEF IInv, JobsFit, Decided
<1>2. ASSUME NEW w \in Items, NEW from, NEW to,
             Stage' = [Stage EXCEPT ![w] = Stage'[w]],
             Stage[w] = from, Stage'[w] = to,
             <<from, to>> \in {<<"working", "published">>, <<"published", "proposed">>,
                               <<"proposed", "merged">>, <<"proposed", "rejected">>,
                               <<"merged", "completed">>}
      PROVE  P!Next
  BY <1>2 DEF P!Next, P!Publish, P!Propose, P!Merge, P!Reject, P!Complete, P!Move
<1>3. ASSUME NEW w \in Items, Stage' = [Stage EXCEPT ![w] = Stage'[w]],
             Stage'[w] = Stage[w]
      PROVE  UNCHANGED Stage
  BY <1>3 DEF Stage, StageOf
<1>4. CASE UNCHANGED vars
  BY <1>4, StageStays DEF vars
<1>5. ASSUME NEW w \in Items,
             \/ Commit(w) \/ Turn(w) \/ TurnsGreen(w)
             \/ \E k \in Kinds : BackoffEnds(w, k)
      PROVE  UNCHANGED Stage
  BY <1>5, StageStays DEF Commit, Turn, TurnsGreen, BackoffEnds
<1>6. ASSUME NEW x \in Executors, List(x) \/ Finish(x) \/ Throw(x) \/ Crash(x)
      PROVE  UNCHANGED Stage
  BY <1>6, StageStays DEF List, Finish, Throw, Crash
<1>7. ASSUME NEW x \in Executors, NEW w \in Items, NEW k \in Kinds, Visit(x, w, k)
      PROVE  UNCHANGED Stage
  BY <1>7, StageStays DEF Visit, Take, Start, Done, Fail, Requeue
<1>8. ASSUME NEW x \in Executors, NEW w \in Items, Reads(x, w) \/ PrAdopt(x, w)
      PROVE  UNCHANGED Stage
  BY <1>8, ReadsMove, StageStays DEF PrAdopt
<1>9. ASSUME NEW x \in Executors, NEW w \in Items, LandHold(x, w)
      PROVE  UNCHANGED Stage
  <2>1. /\ UNCHANGED <<pull, remote>>
        /\ \A v \in Items : item'[v] = "COMPLETED" <=> item[v] = "COMPLETED"
    BY <1>0, <1>9 DEF LandHold
  <2>2. ASSUME NEW v \in Items PROVE StageOf(v)' = StageOf(v)
    BY <2>1 DEF StageOf
  <2> QED
    BY <2>2 DEF Stage
<1>10. ASSUME NEW w \in Items, GitHubMerges(w) \/ GitHubCloses(w)
       PROVE  P!Next \/ UNCHANGED Stage
  <2>1. PICK s \in {"MERGED", "CLOSED"} : pull' = [pull EXCEPT ![w].state = s]
    BY <1>10 DEF GitHubMerges, GitHubCloses
  <2>2. UNCHANGED <<item, remote>> /\ pull[w].state = "OPEN"
    BY <1>10 DEF GitHubMerges, GitHubCloses
  <2>3. pull'[w].state = s /\ \A v \in Items : v # w => pull'[v] = pull[v]
    BY <1>0, <2>1 DEF PullType
  <2>4. Stage' = [Stage EXCEPT ![w] = Stage'[w]]
    BY <2>2, <2>3, StageMoves
  <2>5. CASE item[w] = "COMPLETED"
    <3>1. Stage'[w] = Stage[w]
      BY <2>2, <2>5 DEF Stage, StageOf
    <3> QED
      BY <1>3, <2>4, <3>1
  <2>6. CASE item[w] # "COMPLETED"
    <3>1. /\ Stage[w] = "proposed"
          /\ Stage'[w] = IF s = "MERGED" THEN "merged" ELSE "rejected"
      BY <2>2, <2>3, <2>6 DEF Stage, StageOf
    <3> QED
      BY <1>2, <2>4, <3>1
  <2> QED
    BY <2>5, <2>6
<1>11. ASSUME NEW x \in Executors, NEW w \in Items, LandCall(x, w)
       PROVE  P!Next \/ UNCHANGED Stage
  <2>1. UNCHANGED <<item, remote>>
    BY <1>11 DEF LandCall
  <2>2. CASE pull' = pull
    BY <2>1, <2>2, StageStays
  <2>3. CASE pull[w].state = "OPEN" /\ pull' = [pull EXCEPT ![w].state = "MERGED"]
    <3>1. pull'[w].state = "MERGED" /\ \A v \in Items : v # w => pull'[v] = pull[v]
      BY <1>0, <2>3 DEF PullType
    <3>2. Stage' = [Stage EXCEPT ![w] = Stage'[w]]
      BY <2>1, <3>1, StageMoves
    <3>3. CASE item[w] = "COMPLETED"
      <4>1. Stage'[w] = Stage[w]
        BY <2>1, <3>3 DEF Stage, StageOf
      <4> QED
        BY <1>3, <3>2, <4>1
    <3>4. CASE item[w] # "COMPLETED"
      <4>1. Stage[w] = "proposed" /\ Stage'[w] = "merged"
        BY <2>1, <2>3, <3>1, <3>4 DEF Stage, StageOf
      <4> QED
        BY <1>2, <3>2, <4>1
    <3> QED
      BY <3>3, <3>4
  <2> QED
    BY <1>11, <2>2, <2>3 DEF LandCall
<1>12. ASSUME NEW x \in Executors, NEW w \in Items, PushCall(x, w)
       PROVE  P!Next \/ UNCHANGED Stage
  <2>1. /\ item' = item /\ remote' = [remote EXCEPT ![w] = head[w]]
        /\ pull' = pull \/ pull' = [pull EXCEPT ![w].sha = head[w]]
    BY <1>12 DEF PushCall
  <2>2. /\ \A v \in Items : pull'[v].state = pull[v].state
        /\ remote'[w] = head[w] /\ \A v \in Items : v # w => remote'[v] = remote[v]
    BY <1>0, <2>1 DEF PullType
  <2>3. remote[w] <= head[w]
    BY DEF IInv, Facts, RowsFit
  <2>4. Stage' = [Stage EXCEPT ![w] = Stage'[w]]
    BY <2>1, <2>2, StageMoves
  <2>5. CASE item[w] # "COMPLETED" /\ pull[w].state = "none"
             /\ remote[w] = 0 /\ head[w] > 0
    <3>1. Stage[w] = "working" /\ Stage'[w] = "published"
      BY <2>1, <2>2, <2>5 DEF Stage, StageOf
    <3> QED
      BY <1>2, <2>4, <3>1
  <2>6. CASE ~(item[w] # "COMPLETED" /\ pull[w].state = "none"
               /\ remote[w] = 0 /\ head[w] > 0)
    <3>1. item[w] # "COMPLETED" /\ pull[w].state = "none" =>
            (remote'[w] > 0 <=> remote[w] > 0)
      BY <1>0, <2>2, <2>3, <2>6
    <3>2. Stage'[w] = Stage[w]
      BY <2>1, <2>2, <3>1 DEF Stage, StageOf
    <3> QED
      BY <1>3, <2>4, <3>2
  <2> QED
    BY <2>5, <2>6
<1>13. ASSUME NEW x \in Executors, NEW w \in Items, PrCall(x, w)
       PROVE  P!Next \/ UNCHANGED Stage
  <2>1. UNCHANGED <<item, remote>>
    BY <1>13 DEF PrCall
  <2>2. CASE pull[w].state # "none"
    <3>1. pull' = pull
      BY <1>13, <2>2 DEF PrCall
    <3> QED
      BY <2>1, <3>1, StageStays
  <2>3. CASE pull[w].state = "none"
    <3>1. pull' = [pull EXCEPT ![w] = [state |-> "OPEN", sha |-> remote[w]]]
      BY <1>13, <2>3 DEF PrCall
    <3>2. pull'[w].state = "OPEN" /\ \A v \in Items : v # w => pull'[v] = pull[v]
      BY <1>0, <3>1
    <3>3. HasRow(w, "pr") /\ remote[w] >= row[w]["pr"].sha
      BY <1>1, <1>13 DEF PrCall, At, Rests, Kinds
    <3>4. row[w]["pr"].sha > 0 /\ row[w]["pr"].sha \in Nat
      BY <3>3 DEF IInv, Facts, RowsFit, Kinds, TypeOK, RowType
    <3>5. remote[w] > 0
      BY <1>0, <3>3, <3>4
    <3>6. Stage' = [Stage EXCEPT ![w] = Stage'[w]]
      BY <2>1, <3>2, StageMoves
    <3>7. CASE item[w] = "COMPLETED"
      <4>1. Stage'[w] = Stage[w]
        BY <2>1, <3>7 DEF Stage, StageOf
      <4> QED
        BY <1>3, <3>6, <4>1
    <3>8. CASE item[w] # "COMPLETED"
      <4>1. Stage[w] = "published" /\ Stage'[w] = "proposed"
        BY <2>1, <2>3, <3>2, <3>5, <3>8 DEF Stage, StageOf
      <4> QED
        BY <1>2, <3>6, <4>1
    <3> QED
      BY <3>7, <3>8
  <2> QED
    BY <2>2, <2>3
<1>14. ASSUME NEW x \in Executors, NEW w \in Items, LandComplete(x, w)
       PROVE  P!Next \/ UNCHANGED Stage
  <2>1. pull[w].state = "MERGED"
    BY <1>1, <1>14 DEF LandComplete, At, Rests, Kinds
  <2>2. UNCHANGED <<pull, remote>> /\ item' = [item EXCEPT ![w] = "COMPLETED"]
    BY <1>14 DEF LandComplete
  <2>3. item'[w] = "COMPLETED" /\ \A v \in Items : v # w => item'[v] = item[v]
    BY <1>0, <2>2
  <2>4. Stage' = [Stage EXCEPT ![w] = Stage'[w]]
    BY <2>2, <2>3, StageMoves
  <2>5. Stage[w] \in {"merged", "completed"} /\ Stage'[w] = "completed"
    BY <2>1, <2>3 DEF Stage, StageOf
  <2> QED
    BY <1>2, <1>3, <2>4, <2>5
<1> QED
  BY <1>4, <1>5, <1>6, <1>7, <1>8, <1>9, <1>10, <1>11, <1>12, <1>13, <1>14
  DEF Next, World, Execute, Push, Propose, Land, Reads

\* The outbox implements the pipeline: no stage is skipped or taken back, and
\* an item is recorded as completed only after its merge.
THEOREM PipelineImplemented == Spec => RefinesPipeline
<1>1. Init => P!Init
  BY DEF Init, P!Init, Stage, StageOf, NoPull
<1> QED
  BY <1>1, InitFacts, StepFacts, StepRefines, PTL DEF Spec, RefinesPipeline, P!Spec
=============================================================================
