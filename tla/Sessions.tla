------------------------------ MODULE Sessions ------------------------------
(***************************************************************************)
(* The OpenCode sessions of one repository and one work item, with the     *)
(* registry markers and the worktree that belong to them: how they are     *)
(* made, prompted, counted after a restart, and cleaned up.                *)
(*                                                                         *)
(* Three things outlive the processes and are written one after the other: *)
(* the server's sessions, the marker files and the database rows.  The     *)
(* daemon creates; a `tissue reconcile' (or tick) command counts and       *)
(* cleans up beside it, and an operator may run `tissue cleanup'.  Every   *)
(* awaited call, file operation and transaction is a step.                 *)
(*                                                                         *)
(* Left out: the pump that decides when there is a triage flight (see      *)
(* TriagePump; a command begins one only in the race shown there), what is *)
(* in the prompts (InboxRelay) and the beacon gate (Resident).             *)
(***************************************************************************)
EXTENDS Naturals, FiniteSets, TissueTables

CONSTANTS
  Daemon, Commands, Operators,
  MaxSessions, \* bound on sessions of the server
  MaxFaults    \* bound on crashes, failed calls, lost sessions and volumes

Procs == {Daemon} \cup Commands \cup Operators
Ids == 1 .. MaxSessions
Terminal == {"COMPLETED", "REJECTED", "FAILED"}  \* TERMINAL_WORK_ITEM_STATES

ASSUME SessionsAssumption ==
  /\ Daemon \notin Commands \cup Operators
  /\ Commands \cap Operators = {}
  /\ MaxSessions \in Nat /\ MaxFaults \in Nat

VARIABLES
  server,  \* what the server says of a session; "none" before it exists
  overdue, \* sessions whose present turn has run for longer than W_WEDGE
  marker,  \* marker files of the registry
  srow,    \* opencode_sessions: state of the row, or "none"
  kind,    \* what a session was made for
  aged,    \* sessions whose row was last written more than W_WEDGE ago
  owed,    \* sessions with a prompt accepted and its answer not yet seen
  triage,  \* repositories.triage_session_id, 0 when NULL
  item,    \* work_items.state
  wrow,    \* worktrees.state, or "none"
  dir, branch, \* git: the linked worktree and its branch
  proc,    \* where each process is, and what it holds there
  emptied, \* the registry volume was replaced by an empty one
  mounted, \* the daemon's container has the volume, not a directory of its own
  faults

registry == <<marker, emptied, mounted>>
rows == <<srow, aged, triage, item, wrow>>
sessions == <<server, overdue, kind, owed>>
files == <<dir, branch>>
vars == <<registry, rows, sessions, files, proc, faults>>

Kinds == {"triage", "resolution"}
Verdicts == {"missing", "wedged", "incomplete"}
Places == {"down", "loop", "ask", "reply", "assemble", "record",
           "post", "mark", "insert", "map", "off",
           "count", "hold", "retain", "release", "list",
           "cleaning", "remove", "delete", "close"}

Idle(place) == [at |-> place, id |-> 0, kind |-> "none", todo |-> {},
                seen |-> [s \in Ids |-> "none"], wrow |-> "none"]

At(p, place) == proc[p].at = place
GoTo(p, place) == proc' = [proc EXCEPT ![p].at = place]
Rest(p) == proc' = [proc EXCEPT ![p] = Idle(IF p = Daemon THEN "loop" ELSE "off")]
Faulty == faults < MaxFaults /\ faults' = faults + 1

TypeOK ==
  /\ server \in [Ids -> {"none", "idle", "busy", "gone"}]
  /\ overdue \subseteq {s \in Ids : server[s] = "busy"}
  /\ marker \subseteq Ids /\ aged \subseteq Ids /\ owed \subseteq Ids
  /\ srow \in [Ids -> {"none", "ACTIVE", "RETAINED"}]
  /\ kind \in [Ids -> Kinds \cup {"none"}]
  /\ triage \in Ids \cup {0}
  /\ item \in WorkItemStates
  /\ wrow \in {"none", "ACTIVE", "CLEANING", "CLEANED"}
  /\ dir \in BOOLEAN /\ branch \in BOOLEAN /\ emptied \in BOOLEAN /\ mounted \in BOOLEAN
  /\ proc \in [Procs -> [at : Places, id : Ids \cup {0}, kind : Kinds \cup {"none"},
                         todo : SUBSET Ids, seen : [Ids -> Verdicts \cup {"none"}],
                         wrow : {"none", "ACTIVE", "CLEANING"}]]
  /\ faults \in 0 .. MaxFaults

Init ==
  /\ server = [s \in Ids |-> "none"] /\ kind = [s \in Ids |-> "none"]
  /\ overdue = {} /\ owed = {} /\ marker = {} /\ aged = {}
  /\ srow = [s \in Ids |-> "none"]
  /\ triage = 0 /\ item = "QUEUED" /\ wrow = "none"
  /\ dir = FALSE /\ branch = FALSE /\ emptied = FALSE /\ mounted = TRUE
  /\ proc = [p \in Procs |-> Idle(IF p = Daemon THEN "down" ELSE "off")]
  /\ faults = 0

Recorded == {s \in Ids : srow[s] # "none"}
\* getActiveResolutionSession: there is at most one.
Working == {s \in Ids : kind[s] = "resolution" /\ srow[s] = "ACTIVE"}

\* classifySession of the plugin: a session with a marker is MANAGED, any other
\* is UNMANAGED and none of its commands are looked at.
Managed(s) == s \in marker

\* recordSessionObservation dates the row, if there is one.
Observed(s) == aged' = aged \ {s}

-----------------------------------------------------------------------------
(***************************************************************************)
(* Container start.                                                        *)
(***************************************************************************)
BeginCount(p) == proc' = [proc EXCEPT ![p] = [Idle("count") EXCEPT !.todo = Recorded]]

\* The marker files a process of Tissue can make or take away are those of the
\* directory it has, which the plugin sees when it is the volume.
Kept(ids) == marker' = IF mounted THEN ids ELSE marker

\* Mutant: any directory will do.
StartAnywhere ==
  /\ At(Daemon, "down")
  /\ Kept(marker \cap Recorded)
  /\ BeginCount(Daemon)
  /\ UNCHANGED <<emptied, mounted, rows, sessions, files, faults>>

\* assertRegistryMount, without which the daemon exits; then
\* pruneMarkersWithoutDbRow and the reconcile pass.  Only the daemon makes
\* markers and rows, so nothing changes under the prune.
Start ==
  /\ At(Daemon, "down")
  /\ mounted
  /\ Kept(marker \cap Recorded)
  /\ BeginCount(Daemon)
  /\ UNCHANGED <<emptied, mounted, rows, sessions, files, faults>>

\* `tissue reconcile' and `tissue tick': the same pass in a process of its own.
Reconcile(p) ==
  /\ p \in Commands /\ At(p, "off")
  /\ BeginCount(p)
  /\ UNCHANGED <<registry, rows, sessions, files, faults>>

(***************************************************************************)
(* P2: the census and what is done about it.                               *)
(***************************************************************************)
\* The age of a session that is not idle is that of its row. Idle and busy are no
\* verdicts here: nothing is done about them.
Classified(s) ==
  IF server[s] = "gone" THEN "missing"
  ELSE IF kind[s] = "resolution" /\ item \in Terminal THEN "incomplete"
  ELSE IF server[s] = "busy" /\ s \in aged THEN "wedged" ELSE "none"

\* One getSessionStatus of the census, in the order of the rows.
Status(p) ==
  LET s == CHOOSE x \in proc[p].todo : \A y \in proc[p].todo : x <= y IN
  /\ At(p, "count") /\ proc[p].todo # {}
  /\ proc' = [proc EXCEPT ![p].todo = @ \ {s}, ![p].seen[s] = Classified(s)]
  /\ UNCHANGED <<registry, rows, sessions, files, faults>>

\* The server does not answer: P2 fails, and P3 comes next all the same.
CensusFails(p) ==
  /\ At(p, "count")
  /\ Faulty
  /\ proc' = [proc EXCEPT ![p] = Idle("list")]
  /\ UNCHANGED <<registry, rows, sessions, files>>

Lost(p, s) == proc[p].seen[s] \in {"missing", "wedged"}

Holdable == IsLegal(WorkItemTransitions, item, "wedge", "FAILED_HOLD")

\* Mutant: a session that is missing holds nobody.
RemedyOfWedged(p, s) ==
  CASE kind[s] = "resolution" /\ proc[p].seen[s] = "wedged" /\ Holdable -> "hold"
    [] proc[p].seen[s] = "incomplete" /\ srow[s] = "ACTIVE" -> "retain"
    [] kind[s] = "triage" /\ Lost(p, s) /\ triage = s -> "release"
    [] OTHER -> "count"

\* What an entry of the census calls for, as the rows stand when it is taken up; "count"
\* if nothing but evidence is recorded.
Remedy(p, s) ==
  CASE kind[s] = "resolution" /\ Lost(p, s) /\ Holdable -> "hold"
    [] proc[p].seen[s] = "incomplete" /\ srow[s] = "ACTIVE" -> "retain"
    [] kind[s] = "triage" /\ Lost(p, s) /\ triage = s -> "release"
    [] OTHER -> "count"

\* applySessionCensusRecovery, entry by entry: what it calls for is read from the rows,
\* and done in a transaction of its own that does not look again.
Recover(p) ==
  LET left == {s \in Ids : proc[p].seen[s] # "none"} IN
  /\ At(p, "count") /\ proc[p].todo = {}
  /\ \/ left = {} /\ proc' = [proc EXCEPT ![p] = Idle("list")]
     \/ \E s \in left :
          /\ \A r \in left : s <= r
          /\ proc' = [proc EXCEPT ![p].at = Remedy(p, s), ![p].id = s, ![p].seen[s] = "none"]
  /\ UNCHANGED <<registry, rows, sessions, files, faults>>

HoldOwner(p) ==
  /\ At(p, "hold")
  /\ item' = "FAILED_HOLD"
  /\ GoTo(p, "count")
  /\ UNCHANGED <<srow, aged, triage, wrow, registry, sessions, files, faults>>

RetainSession(p) ==
  /\ At(p, "retain")
  /\ srow' = [s \in Ids |-> IF s = proc[p].id /\ s \in Recorded THEN "RETAINED" ELSE srow[s]]
  /\ Observed(proc[p].id)
  /\ GoTo(p, "count")
  /\ UNCHANGED <<triage, item, wrow, registry, sessions, files, faults>>

ReleaseMapping(p) ==
  /\ At(p, "release")
  /\ triage' = 0
  /\ GoTo(p, "count")
  /\ UNCHANGED <<srow, aged, item, wrow, registry, sessions, files, faults>>

(***************************************************************************)
(* P3: worktrees of items that are through (cleanupTerminalLeftovers), and *)
(* `tissue cleanup' of an item on hold, which removes the files first and  *)
(* then writes FAILED over the hold.                                       *)
(***************************************************************************)
\* The row and the state of its item are read in one query.
List(p) ==
  /\ At(p, "list")
  /\ IF item \in Terminal /\ wrow \in {"ACTIVE", "CLEANING"}
     THEN proc' = [proc EXCEPT ![p] = [Idle("cleaning") EXCEPT !.wrow = wrow]]
     ELSE Rest(p)
  /\ UNCHANGED <<registry, rows, sessions, files, faults>>

\* Mutant: a row found CLEANING is somebody else's work.
BeginCleaningOnce(p) ==
  /\ At(p, "cleaning")
  /\ wrow' = IF proc[p].wrow = "ACTIVE" /\ wrow = "ACTIVE" THEN "CLEANING" ELSE wrow
  /\ IF proc[p].wrow = "ACTIVE" THEN GoTo(p, "remove") ELSE Rest(p)
  /\ UNCHANGED <<srow, aged, triage, item, registry, sessions, files, faults>>

BeginCleaning(p) ==
  /\ At(p, "cleaning")
  /\ wrow' = IF proc[p].wrow = "ACTIVE" /\ wrow = "ACTIVE" THEN "CLEANING" ELSE wrow
  /\ GoTo(p, "remove")
  /\ UNCHANGED <<srow, aged, triage, item, registry, sessions, files, faults>>

\* cleanupOperation
Cleanup(p) ==
  /\ p \in Operators /\ At(p, "off")
  /\ item = "FAILED_HOLD"
  /\ GoTo(p, IF wrow \in {"ACTIVE", "CLEANING"} THEN "remove" ELSE "close")
  /\ UNCHANGED <<registry, rows, sessions, files, faults>>

\* cleanupWorktree: remove the directory if it is there (the second try with
\* --force), prune, ...
RemoveDirectory(p) ==
  /\ At(p, "remove")
  /\ dir' = FALSE
  /\ GoTo(p, "delete")
  /\ UNCHANGED <<branch, registry, rows, sessions, faults>>

\* Mutant: the branch is left for a human.
DeleteNoBranch(p) ==
  /\ At(p, "delete")
  /\ GoTo(p, "close")
  /\ UNCHANGED <<files, registry, rows, sessions, faults>>

\* ... and delete the branch, which git refuses while a worktree has it.
DeleteBranch(p) ==
  /\ At(p, "delete")
  /\ IF dir /\ branch
     THEN Rest(p) /\ UNCHANGED branch
     ELSE branch' = FALSE /\ GoTo(p, "close")
  /\ UNCHANGED <<dir, registry, rows, sessions, faults>>

\* git fails: the row stays CLEANING for the next pass.
CleaningFails(p) ==
  /\ proc[p].at \in {"remove", "delete"}
  /\ Faulty
  /\ Rest(p)
  /\ UNCHANGED <<registry, rows, sessions, files>>

CloseCleaned(p) ==
  /\ At(p, "close")
  /\ IF p \in Operators THEN item' = "FAILED" /\ UNCHANGED wrow
                        ELSE wrow' = "CLEANED" /\ UNCHANGED item
  /\ Rest(p)
  /\ UNCHANGED <<srow, aged, triage, registry, sessions, files, faults>>

-----------------------------------------------------------------------------
(***************************************************************************)
(* The normal loop: assembly of a claimed item.                            *)
(***************************************************************************)
\* A session that is recorded is enough (ensureResolutionAssembly).
Claim ==
  /\ At(Daemon, "loop")
  /\ item = "QUEUED"
  /\ item' = "RUNNING"
  /\ GoTo(Daemon, IF Working = {} THEN "assemble" ELSE "loop")
  /\ UNCHANGED <<srow, aged, triage, wrow, registry, sessions, files, faults>>

\* createWorktree: a branch that exists is not reused.
Assemble ==
  /\ At(Daemon, "assemble")
  /\ IF branch
     THEN Rest(Daemon) /\ UNCHANGED files
     ELSE dir' = TRUE /\ branch' = TRUE /\ GoTo(Daemon, "record")
  /\ UNCHANGED <<registry, rows, sessions, faults>>

\* insertWorktree; its id is that of the item, so there is one row for ever.
RecordWorktree ==
  /\ At(Daemon, "record")
  /\ IF wrow = "none"
     THEN /\ wrow' = "ACTIVE"
          /\ proc' = [proc EXCEPT ![Daemon] = [Idle("post") EXCEPT !.kind = "resolution"]]
     ELSE Rest(Daemon) /\ UNCHANGED wrow
  /\ UNCHANGED <<srow, aged, triage, item, registry, sessions, files, faults>>

(***************************************************************************)
(* createRealSession: server, marker, row, in this order.                  *)
(***************************************************************************)
Fresh == {s \in Ids : server[s] = "none" /\ \A r \in Ids : r < s => server[r] # "none"}

Post ==
  /\ At(Daemon, "post")
  /\ \E s \in Fresh :
       /\ server' = [server EXCEPT ![s] = "idle"]
       /\ kind' = [kind EXCEPT ![s] = proc[Daemon].kind]
       /\ proc' = [proc EXCEPT ![Daemon].id = s, ![Daemon].at = "mark"]
  /\ UNCHANGED <<overdue, owed, registry, rows, files, faults>>

\* The call fails; the server may have made the session.
PostFails ==
  /\ At(Daemon, "post")
  /\ Faulty
  /\ UNCHANGED server \/ \E s \in Fresh : server' = [server EXCEPT ![s] = "idle"]
  /\ Rest(Daemon)
  /\ UNCHANGED <<overdue, kind, owed, registry, rows, files>>

\* Mutant: the row is left to the caller.
PutMarkerOnly ==
  /\ At(Daemon, "mark")
  /\ Kept(marker \cup {proc[Daemon].id})
  /\ GoTo(Daemon, IF proc[Daemon].kind = "triage" THEN "map" ELSE "insert")
  /\ UNCHANGED <<emptied, mounted, rows, sessions, files, faults>>

PutMarker ==
  /\ At(Daemon, "mark")
  /\ Kept(marker \cup {proc[Daemon].id})
  /\ GoTo(Daemon, "insert")
  /\ UNCHANGED <<emptied, mounted, rows, sessions, files, faults>>

InsertRow ==
  /\ At(Daemon, "insert")
  /\ srow' = [srow EXCEPT ![proc[Daemon].id] = "ACTIVE"]
  /\ IF proc[Daemon].kind = "triage" THEN GoTo(Daemon, "map") ELSE Rest(Daemon)
  /\ UNCHANGED <<aged, triage, item, wrow, registry, sessions, files, faults>>

-----------------------------------------------------------------------------
(***************************************************************************)
(* Prompts.  A resumed session gets its marker back first; a triage        *)
(* session has to have it.                                                 *)
(***************************************************************************)
TriageBegins ==
  /\ At(Daemon, "loop")
  /\ proc' = [proc EXCEPT ![Daemon] =
                IF triage = 0 THEN [Idle("post") EXCEPT !.kind = "triage"]
                              ELSE [Idle("ask") EXCEPT !.id = triage]]
  /\ UNCHANGED <<registry, rows, sessions, files, faults>>

\* updateTriageState with the new session
MapTriage ==
  /\ At(Daemon, "map")
  /\ triage' = proc[Daemon].id
  /\ GoTo(Daemon, "ask")
  /\ UNCHANGED <<srow, aged, item, wrow, registry, sessions, files, faults>>

\* promptTriage; without marker or session the flight fails.
AskTriage ==
  LET s == proc[Daemon].id IN
  /\ At(Daemon, "ask")
  /\ IF Managed(s) /\ server[s] # "gone"
     THEN /\ server' = [server EXCEPT ![s] = "busy"]
          /\ overdue' = overdue \ {s}
          /\ GoTo(Daemon, "reply")
     ELSE Rest(Daemon) /\ UNCHANGED <<server, overdue>>
  /\ UNCHANGED <<kind, owed, registry, rows, files, faults>>

\* The reply dates the row (captureObservedMetadata); a session that went away,
\* or a limit that is reached, fails the flight.
TriageReplies ==
  LET s == proc[Daemon].id IN
  /\ At(Daemon, "reply")
  /\ \/ server[s] = "idle" /\ Observed(s) /\ UNCHANGED faults
     \/ server[s] = "gone" /\ UNCHANGED <<aged, faults>>
     \/ server[s] = "busy" /\ Faulty /\ UNCHANGED aged
  /\ Rest(Daemon)
  /\ UNCHANGED <<srow, triage, item, wrow, registry, sessions, files>>

\* The relay at an idle session: promptAsync makes the marker if need be.
Relay ==
  /\ At(Daemon, "loop")
  /\ item = "RUNNING"
  /\ \E s \in Working \ owed :
       /\ server[s] = "idle"
       /\ Kept(marker \cup {s})
       /\ server' = [server EXCEPT ![s] = "busy"]
       /\ owed' = owed \cup {s}
  /\ UNCHANGED <<emptied, mounted, overdue, kind, rows, files, proc, faults>>

\* observeCompletion finds the answer, or the bundle is recycled without one.
Observe ==
  /\ At(Daemon, "loop")
  /\ item = "RUNNING"
  /\ \E s \in Working \cap owed :
       /\ server[s] = "idle"
       /\ owed' = owed \ {s}
       /\ Observed(s) \/ UNCHANGED aged
  /\ UNCHANGED <<server, overdue, kind, srow, triage, item, wrow, registry, files, proc, faults>>

\* The relay finds the session gone and holds the item.
RelayHolds ==
  /\ At(Daemon, "loop")
  /\ item = "RUNNING"
  /\ \E s \in Working : server[s] = "gone"
  /\ item' = "FAILED_HOLD"
  /\ UNCHANGED <<srow, aged, triage, wrow, registry, sessions, files, proc, faults>>

-----------------------------------------------------------------------------
(***************************************************************************)
(* The rest of the world.                                                  *)
(***************************************************************************)
\* The other writers of the row, see WorkQueue: an operator pauses and resumes,
\* a merge completes, the drift scan holds.
ItemMoves ==
  /\ \/ item = "RUNNING" /\ item' \in {"PAUSED_WORK", "FAILED_HOLD"}
     \/ item = "RUNNING" /\ Working # {} /\ item' = "COMPLETED"
     \/ item = "PAUSED_WORK" /\ item' = "QUEUED"
  /\ UNCHANGED <<srow, aged, triage, wrow, registry, sessions, files, proc, faults>>

TurnEnds(s) ==
  /\ server[s] = "busy"
  /\ server' = [server EXCEPT ![s] = "idle"]
  /\ overdue' = overdue \ {s}
  /\ UNCHANGED <<kind, owed, registry, rows, files, proc, faults>>

SessionDeleted(s) ==
  /\ server[s] \in {"idle", "busy"}
  /\ Faulty
  /\ server' = [server EXCEPT ![s] = "gone"]
  /\ overdue' = overdue \ {s}
  /\ UNCHANGED <<kind, owed, registry, rows, files, proc>>

\* W_WEDGE passes.
TimePasses ==
  /\ aged' = Recorded
  /\ overdue' = {s \in Ids : server[s] = "busy"}
  /\ UNCHANGED <<server, kind, owed, srow, triage, item, wrow, registry, files, proc, faults>>

\* All containers go down and come back with an empty registry volume, or the
\* daemon's without any.
VolumeLost ==
  /\ Faulty
  /\ \/ marker' = {} /\ emptied' = TRUE /\ UNCHANGED mounted
     \/ mounted' = FALSE /\ UNCHANGED <<marker, emptied>>
  /\ server' = [s \in Ids |-> IF server[s] = "busy" THEN "idle" ELSE server[s]]
  /\ overdue' = {}
  /\ proc' = [p \in Procs |-> Idle(IF p = Daemon THEN "down" ELSE "off")]
  /\ UNCHANGED <<kind, owed, rows, files>>

\* The container is started once more, as it should be.
Remounted ==
  /\ At(Daemon, "down")
  /\ ~mounted
  /\ mounted' = TRUE
  /\ UNCHANGED <<marker, emptied, rows, sessions, files, proc, faults>>

Crash(p) ==
  /\ proc[p].at \notin {"down", "off"}
  /\ Faulty
  /\ proc' = [proc EXCEPT ![p] = Idle(IF p = Daemon THEN "down" ELSE "off")]
  /\ UNCHANGED <<registry, rows, sessions, files>>

\* The reconcile pass of a process.
Pass(p) ==
  \/ Status(p) \/ CensusFails(p)
  \/ Recover(p) \/ HoldOwner(p) \/ RetainSession(p) \/ ReleaseMapping(p) \/ List(p)
  \/ BeginCleaning(p) \/ RemoveDirectory(p) \/ DeleteBranch(p)
  \/ CleaningFails(p) \/ CloseCleaned(p)

Loop ==
  \/ Start \/ Claim \/ Assemble \/ RecordWorktree
  \/ Post \/ PostFails \/ PutMarker \/ InsertRow \/ MapTriage
  \/ TriageBegins \/ AskTriage \/ TriageReplies
  \/ Relay \/ Observe \/ RelayHolds

Next ==
  \/ Loop
  \/ \E p \in Procs : Pass(p) \/ Reconcile(p) \/ Cleanup(p) \/ Crash(p)
  \/ ItemMoves \/ TimePasses \/ VolumeLost \/ Remounted
  \/ \E s \in Ids : TurnEnds(s) \/ SessionDeleted(s)

Spec == Init /\ [][Next]_vars

\* The daemon is restarted and gets on with its work, and the pass that a command has
\* begun goes on.
LiveSpec ==
  /\ Spec
  /\ WF_vars(Loop \/ Pass(Daemon))
  /\ \A p \in Commands : WF_vars(Pass(p))

-----------------------------------------------------------------------------
(***************************************************************************)
(* session-registry.ts:17-18: Tissue works in a session only while its     *)
(* marker exists where the plugin looks for it, also after the registry    *)
(* was lost or the container came without it, and the prune at start never *)
(* takes the marker of a session that still works for a daemon that died.  *)
(***************************************************************************)
WorkIsModerated == \A s \in Ids : server[s] = "busy" => Managed(s)

(***************************************************************************)
(* promptTriage never makes a marker: whatever step of createRealSession a *)
(* crash interrupts, the session that the repository is mapped to kept its *)
(* marker through the prune of every start, unless the volume was lost.    *)
(***************************************************************************)
MappedTriageIsPromptable == triage # 0 => triage \in marker \/ emptied

(***************************************************************************)
(* terminal-cleanup.ts: when CLEANED is recorded for an item that got its  *)
(* session, the directory and the branch are gone, whoever else cleans up  *)
(* or claims at the time.  (An item without a session can be in the middle *)
(* of its assembly while it is held and cleaned up.)                       *)
(***************************************************************************)
CleanedIsGone ==
  [][wrow # "CLEANED" /\ wrow' = "CLEANED" /\ (\E s \in Recorded : kind[s] = "resolution")
       => ~dir /\ ~branch]_vars

(***************************************************************************)
(* The loop of the daemon neither counts sessions nor cleans up worktrees: *)
(* what a reconcile pass is for is promised by a pass only, that of the    *)
(* next start or that of a command, and by the next one again when a fault *)
(* comes in between.  So both properties are about the time when there are *)
(* no more faults.                                                         *)
(***************************************************************************)
FaultsAreOver == faults = MaxFaults

Starting == At(Daemon, "down") /\ mounted

\* A pass is to come, or has not come to the worktrees yet.
PassAhead == Starting \/ \E p \in Procs : proc[p].at \in {"count", "list"}

\* A pass is to come, or has not asked for session s yet.
CountAhead(s) ==
  Starting \/ \E p \in Procs : At(p, "count") /\ s \in proc[p].todo

(***************************************************************************)
(* terminal-cleanup.ts:5-7: the next pass does again a cleanup that failed *)
(* or died half way, and until it is through; unless the item is taken out *)
(* of its final state (by a hold that was decided on before, see Recover). *)
(* An assembly of the item that is still under way is excepted: it makes   *)
(* its files anew when the cleanup has just removed them.                  *)
(***************************************************************************)
Leftover ==
  /\ item \in Terminal
  /\ wrow \in {"ACTIVE", "CLEANING"}
  /\ ~At(Daemon, "assemble")

LeftoversAreCleaned ==
  Leftover /\ PassAhead /\ FaultsAreOver ~> wrow = "CLEANED" \/ item \notin Terminal

(***************************************************************************)
(* reconcile.ts P2: after a pass no item is RUNNING on a session that the  *)
(* server had lost before it.                                              *)
(***************************************************************************)
RunsOnLost(s) == item = "RUNNING" /\ s \in Working /\ server[s] = "gone"

LossIsNoticed ==
  (\E s \in Ids : RunsOnLost(s) /\ CountAhead(s)) /\ FaultsAreOver ~> item # "RUNNING"

(***************************************************************************)
(* The same of the daemon alone, with no further start and no command: the *)
(* code does not keep these.                                               *)
(***************************************************************************)
LoopCleansUp == Leftover ~> ~Leftover
LoopNoticesLoss == \A s \in Ids : RunsOnLost(s) ~> ~RunsOnLost(s)

(***************************************************************************)
(* reconcile.ts:157: wedged is a session that has been other than idle for *)
(* longer than W_WEDGE.                                                    *)
(***************************************************************************)
FreshTurnIsNotWedged ==
  [][\A p \in Procs, s \in Ids :
       proc[p].seen[s] # "wedged" /\ proc'[p].seen[s] = "wedged" => s \in overdue]_vars

(***************************************************************************)
(* terminal-cleanup.ts:5-6: no worktree is left behind by an item that is  *)
(* through, also not one that a crash kept from being recorded.            *)
(***************************************************************************)
NothingIsLeftBehind == item \in Terminal /\ wrow = "none" /\ dir ~> ~dir
=============================================================================
