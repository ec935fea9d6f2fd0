---------------------------- MODULE EffectOutbox ----------------------------
(***************************************************************************)
(* The side_effects rows of one work item after another: a finished turn   *)
(* commits a push and a pr intent, the pr effect adds a monitor or a merge *)
(* effect, and executeVerifiedEffect carries them out on git and GitHub.   *)
(*                                                                         *)
(* Every process that executes effects takes a snapshot of the rows that   *)
(* are due and visits them one by one: the daemon in each of its passes, a *)
(* `tissue reconcile' command in phase P3.  Nothing claims a row, so two   *)
(* executors may be at the same effect at once.  An execution is cut into  *)
(* steps at every transaction and every awaited call; `job[x].at' is the   *)
(* place executor x has reached and thus what it has decided on a reading  *)
(* that may be out of date by the time it acts.                            *)
(*                                                                         *)
(* A commit is a number: the n-th commit on the item's branch.  Effects of *)
(* the kinds comment, close and reopen are executed by the same function   *)
(* but no caller in the repository creates any; they are left out.         *)
(***************************************************************************)
EXTENDS Naturals, FiniteSets

CONSTANTS
  Items,        \* work items with a branch of their own
  AutoMerge,    \* those of repositories with auto_merge
  Daemon, Commands,  \* who executes effects: the daemon, reconcile commands
  None,         \* no item
  MaxAttempts,  \* DEFAULT_MAX_ATTEMPTS (8)
  DueWindow,    \* the LIMIT of listDueSideEffects (50)
  MaxCommits,   \* bound on the commits of one agent, and of any two together
  MaxCrashes, MaxFailures  \* bounds on crashes and on calls that throw

Executors == {Daemon} \cup Commands

ASSUME OutboxAssumption ==
  /\ AutoMerge \subseteq Items
  /\ None \notin Items
  /\ Daemon \notin Commands
  /\ MaxAttempts \in Nat
  /\ DueWindow \in Nat \ {0}
  /\ MaxCommits \in Nat
  /\ MaxCrashes \in Nat
  /\ MaxFailures \in Nat

VARIABLES
  row,      \* side_effects: row[w][k], of kind k of item w
  rows,     \* how many were created so far: the clock behind created_at
  item,     \* work_items.state, as far as the effects move it
  head,     \* the last commit on the item's local branch
  turned,   \* the commit at which the agent last reported `completed'
  remote,   \* the commit of the branch on the push remote, 0 if absent
  pull,     \* the pull request of the branch on GitHub
  green,    \* items whose required reviews and checks are in
  job,      \* per executor: the effects it listed and the one it is at
  crashes, failures

db == <<row, rows, item>>
agent == <<head, turned>>
github == <<remote, pull, green>>
bounds == <<crashes, failures>>
vars == <<db, agent, github, job, bounds>>

-----------------------------------------------------------------------------
Kinds == {"push", "pr", "land"}      \* "land": monitor, or merge if AutoMerge

RowStates == {"none", "PENDING", "EXECUTING", "DONE", "FAILED"}

NoRow == [state |-> "none", attempt |-> 0, later |-> FALSE, sha |-> 0, born |-> 0]

\* A PENDING row for commit n; `later': next_attempt_at lies in the future.
NewRow(n) ==
  [state |-> "PENDING", attempt |-> 0, later |-> FALSE, sha |-> n, born |-> rows]

\* Attempts beyond MaxAttempts make no difference and are not counted.
Counted(n) == IF n < MaxAttempts THEN n + 1 ELSE n

\* setSideEffectState: every change of state counts as an attempt.
Marked(r, s, later) ==
  [r EXCEPT !.state = s, !.attempt = Counted(@), !.later = later]

\* requeueSideEffect: back to PENDING, not counted.
Requeued(r, later) == [r EXCEPT !.state = "PENDING", !.later = later]

NoPull == [state |-> "none", sha |-> 0]

Rest == [at |-> "idle", todo |-> {}, item |-> None, kind |-> "push", later |-> FALSE]

Places == {"idle", "next", "start", "call", "look", "done", "adopt", "find",
           "gate", "read", "policy", "hold", "complete", "requeue", "fail"}

Init ==
  /\ row = [w \in Items |-> [k \in Kinds |-> NoRow]]
  /\ rows = 0
  /\ item = [w \in Items |-> "RUNNING"]
  /\ head = [w \in Items |-> 0]
  /\ turned = [w \in Items |-> 0]
  /\ remote = [w \in Items |-> 0]
  /\ pull = [w \in Items |-> NoPull]
  /\ green = {}
  /\ job = [x \in Executors |-> Rest]
  /\ crashes = 0
  /\ failures = 0

-----------------------------------------------------------------------------
\* The agent commits; it does not push.
Commit(w) ==
  /\ item[w] # "COMPLETED"
  /\ head[w] < MaxCommits
  /\ \A v \in Items \ {w} : head[v] + head[w] < MaxCommits
  /\ head' = [head EXCEPT ![w] = @ + 1]
  /\ UNCHANGED <<db, turned, github, job, bounds>>

\* The row ids are fx-push-<item> and fx-pr-<item>: INSERT OR IGNORE leaves
\* rows of an earlier turn as they are.
Turn(w) ==
  /\ job[Daemon].at = "idle"              \* the daemon relays, then executes
  /\ item[w] # "COMPLETED"
  /\ turned[w] < head[w]
  /\ turned' = [turned EXCEPT ![w] = head[w]]
  /\ IF row[w]["push"] = NoRow
     THEN /\ row' = [row EXCEPT ![w]["push"] = NewRow(head[w]),
                                ![w]["pr"] = NewRow(head[w])]
          /\ rows' = rows + 1
     ELSE UNCHANGED <<row, rows>>
  /\ UNCHANGED <<item, head, github, job, bounds>>

-----------------------------------------------------------------------------
(* The executor's loop. *)

Due ==
  {e \in Items \X Kinds :
     /\ row[e[1]][e[2]].state \in {"PENDING", "FAILED"}
     /\ ~row[e[1]][e[2]].later}

Born(e) == row[e[1]][e[2]].born

\* The oldest DueWindow of them; a tie of created_at is broken by the id,
\* which is no matter of age.
Listings ==
  {L \in SUBSET Due :
     /\ Cardinality(L) =
          IF Cardinality(Due) < DueWindow THEN Cardinality(Due) ELSE DueWindow
     /\ \A e \in L, f \in Due \ L : Born(e) <= Born(f)}

List(x) ==
  /\ job[x].at = "idle"
  /\ Due # {}
  /\ \E L \in Listings : job' = [job EXCEPT ![x].at = "next", ![x].todo = L]
  /\ UNCHANGED <<db, agent, github, bounds>>

\* Where the execution of each kind begins.
First(k) == CASE k = "push" -> "start" [] k = "pr" -> "find" [] k = "land" -> "read"

\* The row is read once more; only DONE and the attempts are looked at.
Take(x, w, k) ==
  /\ job[x].at = "next"
  /\ <<w, k>> \in job[x].todo
  /\ \A e \in job[x].todo : Born(<<w, k>>) <= Born(e)
  /\ LET left == job[x].todo \ {<<w, k>>}
         r == row[w][k]
     IN job' = [job EXCEPT ![x] =
          [at |-> IF r.state = "DONE" THEN "next"
                  ELSE IF r.attempt + 1 > MaxAttempts THEN "fail" ELSE First(k),
           todo |-> left, item |-> w, kind |-> k, later |-> FALSE]]
  /\ UNCHANGED <<db, agent, github, bounds>>

Finish(x) ==
  /\ job[x].at = "next"
  /\ job[x].todo = {}
  /\ job' = [job EXCEPT ![x] = Rest]
  /\ UNCHANGED <<db, agent, github, bounds>>

-----------------------------------------------------------------------------
(* Steps that all kinds share. *)

At(x, place, w, k) == job[x].at = place /\ job[x].item = w /\ job[x].kind = k

Goto(x, place) == job' = [job EXCEPT ![x].at = place]

\* To markFailed or requeueSideEffect, with or without a backoff.
GotoLater(x, place, later) ==
  job' = [job EXCEPT ![x].at = place, ![x].later = later]

\* markExecuting
Start(x, w, k) ==
  /\ At(x, "start", w, k)
  /\ row' = [row EXCEPT ![w][k] = Marked(@, "EXECUTING", FALSE)]
  /\ Goto(x, "call")
  /\ UNCHANGED <<rows, item, agent, github, bounds>>

\* markDone; runCreatePr goes on to adoptPrAndScheduleMerge.
Done(x, w, k) ==
  /\ At(x, "done", w, k)
  /\ row' = [row EXCEPT ![w][k] = Marked(@, "DONE", FALSE)]
  /\ Goto(x, IF k = "pr" THEN "adopt" ELSE "next")
  /\ UNCHANGED <<rows, item, agent, github, bounds>>

\* Mutant: an error that was thrown is not recorded.
FailUnmarked(x, w, k) ==
  /\ At(x, "fail", w, k)
  /\ Goto(x, "next")
  /\ UNCHANGED <<db, agent, github, bounds>>

\* markFailed
Fail(x, w, k) ==
  /\ At(x, "fail", w, k)
  /\ row' = [row EXCEPT ![w][k] = Marked(@, "FAILED", job[x].later)]
  /\ Goto(x, "next")
  /\ UNCHANGED <<rows, item, agent, github, bounds>>

\* requeueSideEffect
Requeue(x, w, k) ==
  /\ At(x, "requeue", w, k)
  /\ row' = [row EXCEPT ![w][k] = Requeued(@, job[x].later)]
  /\ Goto(x, "next")
  /\ UNCHANGED <<rows, item, agent, github, bounds>>

\* A call throws: before it had an effect (at "call") or after (at "look").
\* A transient error backs off, any other is due at once.
Throw(x) ==
  /\ failures < MaxFailures
  /\ job[x].at \in {"call", "look", "find", "read", "policy"}
  /\ \E transient \in BOOLEAN : GotoLater(x, "fail", transient)
  /\ failures' = failures + 1
  /\ UNCHANGED <<db, agent, github, crashes>>
-----------------------------------------------------------------------------
(* runPush: the branch is pushed as it is, not the commit of the payload.  *)

PushCall(x, w) ==
  /\ At(x, "call", w, "push")
  /\ remote' = [remote EXCEPT ![w] = head[w]]
  /\ pull' = IF pull[w].state = "OPEN"
             THEN [pull EXCEPT ![w].sha = head[w]] ELSE pull
  /\ Goto(x, "look")
  /\ UNCHANGED <<db, agent, green, bounds>>

\* The remote's own word, not the exit code of git push, makes it DONE.
PushLook(x, w) ==
  /\ At(x, "look", w, "push")
  /\ GotoLater(x, IF remote[w] = row[w]["push"].sha THEN "done" ELSE "fail", FALSE)
  /\ UNCHANGED <<db, agent, github, bounds>>

-----------------------------------------------------------------------------
(* runCreatePr *)

\* adoptVerifiedPullRequest: the branch and its owner match by construction,
\* the commit is compared.
Adoptable(w) == pull[w].state # "none" /\ pull[w].sha = row[w]["pr"].sha

\* An existing pull request is adopted; one that does not match goes back to
\* the queue uncounted.
PrFind(x, w) ==
  /\ At(x, "find", w, "pr")
  /\ GotoLater(x, IF Adoptable(w) THEN "done"
                  ELSE IF pull[w].state # "none" THEN "requeue" ELSE "gate", FALSE)
  /\ UNCHANGED <<db, agent, github, bounds>>

\* Mutant: the push_pending gate is dropped.
PrGateOpen(x, w) ==
  /\ At(x, "gate", w, "pr")
  /\ GotoLater(x, "start", FALSE)
  /\ UNCHANGED <<db, agent, github, bounds>>

\* No pull request before the push of this commit is verified (push_pending).
PrGate(x, w) ==
  /\ At(x, "gate", w, "pr")
  /\ LET pushed == /\ row[w]["push"].state = "DONE"
                   /\ row[w]["push"].sha = row[w]["pr"].sha
     IN GotoLater(x, IF pushed THEN "start" ELSE "requeue", FALSE)
  /\ UNCHANGED <<db, agent, github, bounds>>

\* GitHub refuses a second pull request for a branch: the call throws.
PrCall(x, w) ==
  /\ At(x, "call", w, "pr")
  /\ IF pull[w].state = "none"
     THEN /\ pull' = [pull EXCEPT ![w] = [state |-> "OPEN", sha |-> remote[w]]]
          /\ Goto(x, "look")
     ELSE /\ GotoLater(x, "fail", FALSE)
          /\ UNCHANGED pull
  /\ UNCHANGED <<db, agent, remote, green, bounds>>

PrLook(x, w) ==
  /\ At(x, "look", w, "pr")
  /\ GotoLater(x, IF Adoptable(w) THEN "done" ELSE "fail", FALSE)
  /\ UNCHANGED <<db, agent, github, bounds>>

\* adoptPrAndScheduleMerge: a transaction after the one that marked DONE.
PrAdopt(x, w) ==
  /\ At(x, "adopt", w, "pr")
  /\ IF row[w]["land"] = NoRow
     THEN /\ row' = [row EXCEPT ![w]["land"] = NewRow(row[w]["pr"].sha)]
          /\ rows' = rows + 1
     ELSE UNCHANGED <<row, rows>>
  /\ Goto(x, "next")
  /\ UNCHANGED <<item, agent, github, bounds>>

-----------------------------------------------------------------------------
(* runMonitor and runMerge *)

\* Mutant: any pull request that is no longer open counts as merged.
LandReadHasty(x, w) ==
  /\ At(x, "read", w, "land")
  /\ GotoLater(x, CASE pull[w].state # "OPEN" -> "complete"
                    [] w \in AutoMerge -> "policy"
                    [] OTHER -> "requeue", TRUE)
  /\ UNCHANGED <<db, agent, github, bounds>>

\* Mutant: a merge is recorded like a close, without completing the item.
LandReadEnds(x, w) ==
  /\ At(x, "read", w, "land")
  /\ GotoLater(x, CASE pull[w].state # "OPEN" -> "done"
                    [] w \in AutoMerge -> "policy"
                    [] OTHER -> "requeue", TRUE)
  /\ UNCHANGED <<db, agent, github, bounds>>

\* Reality is adopted; a monitor only ever waits for it.
LandRead(x, w) ==
  /\ At(x, "read", w, "land")
  /\ GotoLater(x, CASE pull[w].state = "MERGED" -> "complete"
                    [] pull[w].state = "CLOSED" -> "done"
                    [] w \in AutoMerge -> "policy"
                    [] OTHER -> "requeue", TRUE)
  /\ UNCHANGED <<db, agent, github, bounds>>

\* Draft, unknown policy, missing approvals or checks hold the item; a pull
\* request that is not mergeable only waits.
LandPolicy(x, w) ==
  /\ At(x, "policy", w, "land")
  /\ IF w \in green
     THEN GotoLater(x, "start", TRUE)
     ELSE \E place \in {"hold", "requeue"} : GotoLater(x, place, TRUE)
  /\ UNCHANGED <<db, agent, github, bounds>>

\* holdWaiting: first the item, then the effect.
LandHold(x, w) ==
  /\ At(x, "hold", w, "land")
  /\ item' = IF item[w] = "RUNNING" THEN [item EXCEPT ![w] = "WAITING"] ELSE item
  /\ Goto(x, "requeue")
  /\ UNCHANGED <<row, rows, agent, github, bounds>>

\* `gh pr merge': a pull request that is not open makes it throw; a branch
\* with a merge queue accepts the call and leaves the pull request open.
LandCall(x, w) ==
  /\ At(x, "call", w, "land")
  /\ \/ /\ pull[w].state = "OPEN"
        /\ pull' = [pull EXCEPT ![w].state = "MERGED"]
        /\ Goto(x, "look")
        /\ UNCHANGED failures
     \/ /\ pull[w].state = "OPEN" /\ failures < MaxFailures
        /\ Goto(x, "look")
        /\ failures' = failures + 1
        /\ UNCHANGED pull
     \/ /\ pull[w].state # "OPEN"
        /\ GotoLater(x, "fail", FALSE)
        /\ UNCHANGED <<pull, failures>>
  /\ UNCHANGED <<db, agent, remote, green, crashes>>

\* Mutant: that the merge call returned is taken for a merge.
LandLookBlind(x, w) ==
  /\ At(x, "look", w, "land")
  /\ GotoLater(x, "complete", FALSE)
  /\ UNCHANGED <<db, agent, github, bounds>>

LandLook(x, w) ==
  /\ At(x, "look", w, "land")
  /\ GotoLater(x, IF pull[w].state = "MERGED" THEN "complete" ELSE "fail", FALSE)
  /\ UNCHANGED <<db, agent, github, bounds>>

\* completeMergedWorkItem: the effect and the item in one transaction.
LandComplete(x, w) ==
  /\ At(x, "complete", w, "land")
  /\ row' = [row EXCEPT ![w]["land"] = Marked(@, "DONE", FALSE)]
  /\ item' = [item EXCEPT ![w] = "COMPLETED"]
  /\ Goto(x, "next")
  /\ UNCHANGED <<rows, agent, github, bounds>>

-----------------------------------------------------------------------------
(* The world around the controller. *)

GitHubMerges(w) ==
  /\ pull[w].state = "OPEN"
  /\ pull' = [pull EXCEPT ![w].state = "MERGED"]
  /\ UNCHANGED <<db, agent, remote, green, job, bounds>>

GitHubCloses(w) ==
  /\ pull[w].state = "OPEN"
  /\ pull' = [pull EXCEPT ![w].state = "CLOSED"]
  /\ UNCHANGED <<db, agent, remote, green, job, bounds>>

\* The last required review or check comes in.
TurnsGreen(w) ==
  /\ pull[w].state = "OPEN"
  /\ w \notin green
  /\ green' = green \cup {w}
  /\ UNCHANGED <<db, agent, remote, pull, job, bounds>>

\* next_attempt_at has come.
BackoffEnds(w, k) ==
  /\ row[w][k].later
  /\ row' = [row EXCEPT ![w][k].later = FALSE]
  /\ UNCHANGED <<rows, item, agent, github, job, bounds>>

\* An executor dies: the rows stay as they are.
Crash(x) ==
  /\ crashes < MaxCrashes
  /\ job[x].at # "idle"
  /\ job' = [job EXCEPT ![x] = Rest]
  /\ crashes' = crashes + 1
  /\ UNCHANGED <<db, agent, github, failures>>

-----------------------------------------------------------------------------
Visit(x, w, k) ==
  \/ Take(x, w, k) \/ Start(x, w, k) \/ Done(x, w, k)
  \/ Fail(x, w, k) \/ Requeue(x, w, k)

Push(x, w) == PushCall(x, w) \/ PushLook(x, w)

Propose(x, w) ==
  PrFind(x, w) \/ PrGate(x, w) \/ PrCall(x, w) \/ PrLook(x, w) \/ PrAdopt(x, w)

Land(x, w) ==
  \/ LandRead(x, w) \/ LandPolicy(x, w) \/ LandHold(x, w)
  \/ LandCall(x, w) \/ LandLook(x, w) \/ LandComplete(x, w)

\* What executor x does of its own accord.
Execute(x) ==
  \/ List(x) \/ Finish(x)
  \/ \E w \in Items :
       \/ \E k \in Kinds : Visit(x, w, k)
       \/ Push(x, w) \/ Propose(x, w) \/ Land(x, w)

World(w) ==
  \/ Commit(w) \/ Turn(w)
  \/ GitHubMerges(w) \/ GitHubCloses(w) \/ TurnsGreen(w)
  \/ \E k \in Kinds : BackoffEnds(w, k)

Next ==
  \/ \E w \in Items : World(w)
  \/ \E x \in Executors : Execute(x) \/ Throw(x) \/ Crash(x)

Spec == Init /\ [][Next]_vars

\* The daemon's pass comes round, time passes, and reviews come in some day.
Fairness ==
  /\ WF_vars(Execute(Daemon))
  /\ \A w \in Items :
       /\ WF_vars(Turn(w))
       /\ WF_vars(TurnsGreen(w))
       /\ \A k \in Kinds : WF_vars(BackoffEnds(w, k))

LiveSpec == Spec /\ Fairness

-----------------------------------------------------------------------------
\* Every row, reading and job keeps the values the schema and the code give it.
RowType ==
  [state : RowStates, attempt : 0..MaxAttempts, later : BOOLEAN,
   sha : 0..MaxCommits, born : Nat]

PullType == [state : {"none", "OPEN", "MERGED", "CLOSED"}, sha : 0..MaxCommits]

JobType ==
  [at : Places, todo : SUBSET (Items \X Kinds), item : Items \cup {None},
   kind : Kinds, later : BOOLEAN]

\* Type invariant: states are those of the side_effect and work_item tables.
TypeOK ==
  /\ row \in [Items -> [Kinds -> RowType]]
  /\ rows \in Nat
  /\ item \in [Items -> {"RUNNING", "WAITING", "COMPLETED"}]
  /\ head \in [Items -> 0..MaxCommits]
  /\ turned \in [Items -> 0..MaxCommits]
  /\ remote \in [Items -> 0..MaxCommits]
  /\ pull \in [Items -> PullType]
  /\ green \subseteq Items
  /\ job \in [Executors -> JobType]
  /\ crashes \in 0..MaxCrashes
  /\ failures \in 0..MaxFailures

\* "Every effect is re-verified against external reality before it is marked
\* DONE" (effects.ts): a DONE row is true of git and GitHub, whoever marked it.
DoneIsReal ==
  \A w \in Items :
    /\ row[w]["push"].state = "DONE" => remote[w] >= row[w]["push"].sha
    /\ row[w]["pr"].state = "DONE" => pull[w].state # "none"
    /\ row[w]["land"].state = "DONE" => pull[w].state \in {"MERGED", "CLOSED"}

\* A pull request stands on a verified push: it never lacks the commit of the
\* turn it was opened for (runCreatePr's push_pending gate).
PullHasTheTurn ==
  \A w \in Items :
    pull[w].state # "none" =>
      row[w]["pr"].sha > 0 /\ pull[w].sha >= row[w]["pr"].sha

\* The work of an item moves through the stages of Pipeline.
StageOf(w) ==
  CASE item[w] = "COMPLETED" -> "completed"
    [] item[w] # "COMPLETED" /\ pull[w].state = "MERGED" -> "merged"
    [] item[w] # "COMPLETED" /\ pull[w].state = "CLOSED" -> "rejected"
    [] item[w] # "COMPLETED" /\ pull[w].state = "OPEN" -> "proposed"
    [] item[w] # "COMPLETED" /\ pull[w].state = "none" ->
         IF remote[w] > 0 THEN "published" ELSE "working"

Stage == [w \in Items |-> StageOf(w)]

P == INSTANCE Pipeline WITH stage <- Stage

\* Refinement: two executors, crashes and lost replies never skip a stage,
\* and nothing but a merge completes an item.
RefinesPipeline == P!Spec

\* A turn that reported `completed' leaves an intent to push its commit.
EveryTurnHasItsIntent ==
  \A w \in Items : turned[w] > 0 => row[w]["push"].sha = turned[w]

\* runPush pushes the branch as it is and then asks for the commit of the payload:
\* after a commit between the turn and its push, every attempt ends in FAILED
\* (remote_sha_mismatch), and nothing asks for a push of the later commit.
Overtaken(w) ==
  /\ row[w]["push"].state # "DONE"
  /\ remote[w] > row[w]["push"].sha

\* A finished turn of an auto-merge item is landed or refused by GitHub, unless
\* the agent went on committing before the push; as long as the window of due
\* effects is not filled by others and no call throws more often than a row has
\* attempts.
TurnsLand ==
  \A w \in AutoMerge :
    turned[w] > 0 ~>
      item[w] = "COMPLETED" \/ pull[w].state = "CLOSED" \/ Overtaken(w)

\* The same without the exception: a finished turn lands, whatever the agent does
\* after it. The code does not keep this.
EveryTurnLands ==
  \A w \in AutoMerge :
    turned[w] > 0 ~> item[w] = "COMPLETED" \/ pull[w].state = "CLOSED"

\* A merge done by anybody on GitHub completes the item whose effect watches
\* the pull request ("adopted as reality, never fought").
MergeIsNoticed ==
  \A w \in Items :
    row[w]["land"] # NoRow /\ pull[w].state = "MERGED" ~> item[w] = "COMPLETED"

\* A crash in the middle of an effect is reconciled: the row is taken up again.
NotLeftExecuting ==
  \A w \in Items, k \in Kinds :
    row[w][k].state = "EXECUTING" ~> row[w][k].state # "EXECUTING"

\* A pull request that was created is watched, whenever the daemon died.
PullIsWatched ==
  \A w \in Items : row[w]["pr"].state = "DONE" ~> row[w]["land"] # NoRow
=============================================================================
