-------------------------- MODULE Sessions_proofs ---------------------------
(***************************************************************************)
(* Proofs about Sessions, for any number of sessions, of commands and      *)
(* operators beside the daemon, and of crashes.                            *)
(*                                                                         *)
(* Only the daemon makes sessions, markers and rows, in an order of its    *)
(* own, so what is in its hand says how far a session is made: it exists   *)
(* from "mark" on, has its marker from "insert" on and its row from "map"  *)
(* on.  The prune of a start spares what has a row; so what matters is     *)
(* that nothing is prompted or mapped before its row is there.  A cleanup  *)
(* that removes files was begun over a row of table worktrees, and the     *)
(* daemon makes files for good only where there was no such row.           *)
(***************************************************************************)
EXTENDS Sessions, TLAPS

\* A daemon that runs has the volume (assertRegistryMount).
RunsOnTheVolume == At(Daemon, "down") \/ mounted

\* createRealSession, step by step.
HandHoldsSession ==
  proc[Daemon].at \in {"mark", "insert", "map", "ask", "reply"} => proc[Daemon].id \in Ids
MadeIsMarked ==
  proc[Daemon].at \in {"insert", "map"} => proc[Daemon].id \in marker \/ emptied
MarkedIsRecorded ==
  proc[Daemon].at \in {"map", "ask"} => proc[Daemon].id \in Recorded
MadeAsAsked ==
  proc[Daemon].at \in {"mark", "insert"} =>
    /\ kind[proc[Daemon].id] = proc[Daemon].kind
    /\ server[proc[Daemon].id] # "none"

\* What has a row: the session of the repository's triage, a session with a prompt.
MappedIsRecorded == triage # 0 => triage \in Recorded
BusyIsRecorded == \A s \in Ids : server[s] = "busy" => s \in Recorded
RecordedWasMade == \A s \in Recorded : server[s] # "none"

\* Sessions are retained, and counted incomplete, for an item that is through; the hold of
\* a pass that decided on it before can still take it out of its final state.
Over == Terminal \cup {"FAILED_HOLD"}
RetainedIsThrough ==
  /\ \A s \in Ids : srow[s] = "RETAINED" => item \in Over
  /\ \A p \in Procs, s \in Ids : proc[p].seen[s] = "incomplete" => item \in Over
  /\ \A p \in Procs : At(p, "retain") => item \in Over

\* The item got a session of its own, or is getting one over its new worktree.
Staffed == \E s \in Recorded : kind[s] = "resolution"
Equipped ==
  Staffed \/ (proc[Daemon].at \in {"post", "mark", "insert"} /\ proc[Daemon].kind = "resolution")

\* An assembly begins, and goes on, for an item without a session.
AssemblyIsFirst == At(Daemon, "assemble") => ~Staffed
AssemblyStaysFirst ==
  At(Daemon, "record") \/ (/\ proc[Daemon].at \in {"post", "mark", "insert"}
                           /\ proc[Daemon].kind = "resolution")
    => ~Staffed

\* The item has one session at most, over all its claims, crashes and pauses
\* (getActiveResolutionSession asks for one row).
OneSession ==
  \A r, s \in Recorded : kind[r] = "resolution" /\ kind[s] = "resolution" => r = s

\* A reconcile pass cleans up over a row, and what it has removed stays away once the
\* item has its session.
CleaningHasRow ==
  \A p \in Procs \ Operators :
    proc[p].at \in {"cleaning", "remove", "delete", "close"} => wrow # "none"
RemovedStaysAway ==
  Equipped => \A p \in Procs \ Operators : /\ At(p, "delete") => ~dir
                                           /\ At(p, "close") => ~dir /\ ~branch

IInv ==
  /\ TypeOK
  /\ RunsOnTheVolume
  /\ HandHoldsSession /\ MadeIsMarked /\ MarkedIsRecorded /\ MadeAsAsked
  /\ MappedIsRecorded /\ BusyIsRecorded /\ RecordedWasMade
  /\ RetainedIsThrough
  /\ AssemblyIsFirst /\ AssemblyStaysFirst /\ OneSession
  /\ CleaningHasRow /\ RemovedStaysAway
  /\ WorkIsModerated
  /\ MappedTriageIsPromptable

\* What a process has in its hand.
Hands == [at : Places, id : Ids \cup {0}, kind : Kinds \cup {"none"},
          todo : SUBSET Ids, seen : [Ids -> Verdicts \cup {"none"}],
          wrow : {"none", "ACTIVE", "CLEANING"}]

-----------------------------------------------------------------------------
(***************************************************************************)
(* The helpers.                                                            *)
(***************************************************************************)
LEMMA IdleIsAHand ==
  ASSUME NEW place \in Places
  PROVE  Idle(place) \in Hands
BY DEF Idle, Hands, Verdicts

\* ... and one that was told what to make, or which session to ask.
LEMMA ToldIsAHand ==
  ASSUME NEW h \in Hands
  PROVE  /\ \A k \in Kinds : [h EXCEPT !.kind = k] \in Hands
         /\ \A s \in Ids \cup {0} : [h EXCEPT !.id = s] \in Hands
         /\ \A place \in Places : [h EXCEPT !.at = place] \in Hands
         /\ \A S \in SUBSET Ids : [h EXCEPT !.todo = S] \in Hands
         /\ \A w \in {"ACTIVE", "CLEANING"} : [h EXCEPT !.wrow = w] \in Hands
BY DEF Hands

LEMMA DaemonIsAProcess == Daemon \in Procs /\ Daemon \notin Operators
BY SessionsAssumption DEF Procs

LEMMA HandsTyped == TypeOK => proc \in [Procs -> Hands]
BY DEF TypeOK, Hands

\* A process that goes on, or rests, keeps its hand well-formed.
LEMMA GoToIsTyped ==
  ASSUME TypeOK, NEW p \in Procs, NEW place \in Places, GoTo(p, place)
  PROVE  proc' \in [Procs -> Hands]
<1>. DEFINE h == [proc[p] EXCEPT !.at = place]
<1>1. h \in Hands
  BY HandsTyped DEF Hands
<1>2. proc' = [proc EXCEPT ![p] = h]
  BY DEF GoTo
<1>. HIDE DEF h
<1>. QED BY <1>1, <1>2, HandsTyped

LEMMA TakesIsTyped ==
  ASSUME TypeOK, NEW p \in Procs, NEW h \in Hands, proc' = [proc EXCEPT ![p] = h]
  PROVE  proc' \in [Procs -> Hands]
BY HandsTyped

LEMMA RestIsTyped ==
  ASSUME TypeOK, NEW p \in Procs, Rest(p)
  PROVE  proc' \in [Procs -> Hands]
BY IdleIsAHand, HandsTyped DEF Rest, Places

\* A session is looked at, ...
LEMMA LooksAtASession ==
  ASSUME TypeOK, NEW p \in Procs, Status(p)
  PROVE  /\ proc[p].at = "count" /\ proc'[p].at = "count"
         /\ \A q \in Procs \ {p} : proc'[q] = proc[q]
<1>. DEFINE s == CHOOSE x \in proc[p].todo : \A y \in proc[p].todo : x <= y
<1>1. proc' = [proc EXCEPT ![p].todo = @ \ {s}, ![p].seen[s] = Classified(s)]
  BY DEF Status
<1>2. proc[p].at = "count"
  BY DEF Status, At
<1>. HIDE DEF s
<1>3. proc[p] \in Hands /\ DOMAIN proc = Procs
  BY HandsTyped
<1>. QED BY <1>1, <1>2, <1>3 DEF Hands

\* ... something is done about an entry of the census, and then the next is taken up.
LEMMA TakesUpAnEntry ==
  ASSUME TypeOK, NEW p \in Procs, Recover(p)
  PROVE  /\ proc' \in [Procs -> Hands]
         /\ proc[p].at = "count"
         /\ proc'[p].at \in {"list", "count", "hold", "retain", "release"}
         /\ \A q \in Procs \ {p} : proc'[q] = proc[q]
         /\ \A s \in Ids : proc'[p].seen[s] \in {proc[p].seen[s], "none"}
         /\ proc'[p].at = "retain" => \E s \in Ids : proc[p].seen[s] = "incomplete"
<1>1. proc[p].at = "count"
  BY DEF Recover, At
<1>2. CASE proc' = [proc EXCEPT ![p] = Idle("list")]
  <2>1. Idle("list") \in Hands
    BY IdleIsAHand DEF Places
  <2>2. Idle("list").at = "list" /\ \A s \in Ids : Idle("list").seen[s] = "none"
    BY DEF Idle
  <2>. QED BY <1>1, <1>2, <2>1, <2>2, HandsTyped
<1>3. ASSUME NEW s \in Ids,
             proc' = [proc EXCEPT ![p].at = Remedy(p, s), ![p].id = s, ![p].seen[s] = "none"]
      PROVE  /\ proc' \in [Procs -> Hands]
             /\ proc'[p].at \in {"count", "hold", "retain", "release"}
             /\ \A q \in Procs \ {p} : proc'[q] = proc[q]
             /\ \A r \in Ids : proc'[p].seen[r] \in {proc[p].seen[r], "none"}
             /\ proc'[p].at = "retain" => \E r \in Ids : proc[p].seen[r] = "incomplete"
  <2>. DEFINE place == Remedy(p, s)
              h == [proc[p] EXCEPT !.at = place, !.id = s, !.seen[s] = "none"]
  <2>1. /\ place \in {"count", "hold", "retain", "release"}
        /\ place = "retain" => proc[p].seen[s] = "incomplete"
    BY DEF Remedy
  <2>. HIDE DEF place
  <2>2. proc' = [proc EXCEPT ![p] = h]
    BY <1>3, HandsTyped DEF place
  <2>3. proc[p] \in Hands
    BY HandsTyped
  <2>4. /\ h \in Hands /\ h.at = place
        /\ \A r \in Ids : h.seen[r] \in {proc[p].seen[r], "none"}
    BY <2>1, <2>3 DEF Hands, Places
  <2>. HIDE DEF h
  <2>. QED BY <2>1, <2>2, <2>4, HandsTyped
<1>. QED BY <1>1, <1>2, <1>3 DEF Recover

\* A worktree is to be cleaned up, or the pass is over.
LEMMA ListsALeftover ==
  ASSUME TypeOK, NEW p \in Procs, List(p)
  PROVE  /\ proc'[p].at \in {"cleaning", "loop", "off"}
         /\ \A q \in Procs \ {p} : proc'[q] = proc[q]
<1>1. CASE proc' = [proc EXCEPT ![p] = [Idle("cleaning") EXCEPT !.wrow = wrow]]
  <2>. DEFINE h == [Idle("cleaning") EXCEPT !.wrow = wrow]
  <2>1. h.at = "cleaning"
    BY DEF Idle
  <2>2. proc' = [proc EXCEPT ![p] = h]
    BY <1>1
  <2>. HIDE DEF h
  <2>3. proc'[p] = h /\ \A q \in Procs \ {p} : proc'[q] = proc[q]
    BY <2>2, HandsTyped
  <2>. QED BY <2>1, <2>3
<1>2. CASE Rest(p)
  BY <1>2, HandsTyped DEF Rest, Idle
<1>. QED BY <1>1, <1>2 DEF List

LEMMA ComesBackToCount ==
  ASSUME NEW p, HoldOwner(p) \/ RetainSession(p) \/ ReleaseMapping(p)
  PROVE  GoTo(p, "count") /\ proc[p].at \in {"hold", "retain", "release"}
BY DEF HoldOwner, RetainSession, ReleaseMapping, At

-----------------------------------------------------------------------------
(***************************************************************************)
(* Types.                                                                  *)
(***************************************************************************)
LEMMA ProcStep ==
  ASSUME TypeOK, [Next]_vars
  PROVE  proc' \in [Procs -> Hands]
<1>. USE DEF At
<1>1. ASSUME NEW p \in Procs, Pass(p)
      PROVE  proc' \in [Procs -> Hands]
  <2>1. CASE Status(p)
    <3>. DEFINE s == CHOOSE x \in proc[p].todo : \A y \in proc[p].todo : x <= y
                h == [proc[p] EXCEPT !.todo = @ \ {s}, !.seen[s] = Classified(s)]
    <3>1. Classified(s) \in Verdicts \cup {"none"}
      BY DEF Classified, Verdicts
    <3>2. proc[p] \in Hands
      BY HandsTyped
    <3>3. proc' = [proc EXCEPT ![p].todo = @ \ {s}, ![p].seen[s] = Classified(s)]
      BY <2>1 DEF Status
    <3>. HIDE DEF s
    <3>4. proc' = [proc EXCEPT ![p] = h]
      BY <3>3, HandsTyped
    <3>5. h \in Hands
      BY <3>1, <3>2 DEF Hands
    <3>. HIDE DEF h
    <3>. QED BY <3>4, <3>5, TakesIsTyped
  <2>2. CASE CensusFails(p)
    <3>1. proc' = [proc EXCEPT ![p] = Idle("list")] /\ Idle("list") \in Hands
      BY <2>2, IdleIsAHand DEF CensusFails, Places
    <3>. QED BY <3>1, TakesIsTyped
  <2>3. CASE Recover(p)
    BY <2>3, TakesUpAnEntry
  <2>4. CASE HoldOwner(p) \/ RetainSession(p) \/ ReleaseMapping(p)
    BY <2>4, ComesBackToCount, GoToIsTyped DEF Places
  <2>5. CASE List(p)
    <3>1. CASE item \in Terminal /\ wrow \in {"ACTIVE", "CLEANING"}
      <4>. DEFINE h == [Idle("cleaning") EXCEPT !.wrow = wrow]
      <4>1. h \in Hands
        <5>1. Idle("cleaning") \in Hands
          BY IdleIsAHand DEF Places
        <5>. QED BY <3>1, <5>1, ToldIsAHand
      <4>2. proc' = [proc EXCEPT ![p] = h]
        BY <2>5, <3>1 DEF List
      <4>. HIDE DEF h
      <4>. QED BY <4>1, <4>2, TakesIsTyped
    <3>. QED BY <2>5, <3>1, RestIsTyped DEF List
  <2>6. CASE BeginCleaning(p) \/ RemoveDirectory(p)
    BY <2>6, GoToIsTyped DEF BeginCleaning, RemoveDirectory, Places
  <2>7. CASE DeleteBranch(p)
    BY <2>7, GoToIsTyped, RestIsTyped DEF DeleteBranch, Places
  <2>8. CASE CleaningFails(p) \/ CloseCleaned(p)
    BY <2>8, RestIsTyped DEF CleaningFails, CloseCleaned
  <2>. QED BY <1>1, <2>1, <2>2, <2>3, <2>4, <2>5, <2>6, <2>7, <2>8 DEF Pass
<1>2. ASSUME NEW p \in Procs, Cleanup(p) \/ Crash(p)
      PROVE  proc' \in [Procs -> Hands]
  BY <1>2, GoToIsTyped, TakesIsTyped, IdleIsAHand DEF Cleanup, Crash, Places
<1>3. ASSUME NEW p \in Procs, BeginCount(p)
      PROVE  proc' \in [Procs -> Hands]
  <2>. DEFINE h == [Idle("count") EXCEPT !.todo = Recorded]
  <2>1. h \in Hands
    <3>1. Idle("count") \in Hands /\ Recorded \in SUBSET Ids
      BY IdleIsAHand DEF Places, Recorded
    <3>. QED BY <3>1, ToldIsAHand
  <2>2. proc' = [proc EXCEPT ![p] = h]
    BY <1>3 DEF BeginCount
  <2>. HIDE DEF h
  <2>. QED BY <2>1, <2>2, TakesIsTyped
<1>4. CASE RecordWorktree
  <2>. DEFINE h == [Idle("post") EXCEPT !.kind = "resolution"]
  <2>1. h \in Hands
    <3>1. Idle("post") \in Hands /\ "resolution" \in Kinds
      BY IdleIsAHand DEF Places, Kinds
    <3>. QED BY <3>1, ToldIsAHand
  <2>2. proc' = [proc EXCEPT ![Daemon] = h] \/ Rest(Daemon)
    BY <1>4 DEF RecordWorktree
  <2>. HIDE DEF h
  <2>. QED BY <2>1, <2>2, TakesIsTyped, RestIsTyped, DaemonIsAProcess
<1>5. CASE Post
  <2>1. PICK s \in Fresh : proc' = [proc EXCEPT ![Daemon].id = s, ![Daemon].at = "mark"]
    BY <1>5 DEF Post
  <2>. DEFINE g == [proc[Daemon] EXCEPT !.id = s]
              h == [g EXCEPT !.at = "mark"]
  <2>2. proc' = [proc EXCEPT ![Daemon] = h]
    BY <2>1, HandsTyped
  <2>3. g \in Hands
    <3>1. proc[Daemon] \in Hands /\ s \in Ids \cup {0}
      BY HandsTyped, DaemonIsAProcess DEF Fresh
    <3>. QED BY <3>1, ToldIsAHand
  <2>. HIDE DEF g
  <2>4. h \in Hands
    BY <2>3, ToldIsAHand DEF Places
  <2>. HIDE DEF h
  <2>. QED BY <2>2, <2>4, TakesIsTyped, DaemonIsAProcess
<1>6. CASE TriageBegins
  <2>. DEFINE h == IF triage = 0 THEN [Idle("post") EXCEPT !.kind = "triage"]
                                 ELSE [Idle("ask") EXCEPT !.id = triage]
  <2>1. h \in Hands
    <3>1. triage \in Ids \cup {0}
      BY DEF TypeOK
    <3>2. Idle("post") \in Hands /\ Idle("ask") \in Hands /\ "triage" \in Kinds
      BY IdleIsAHand DEF Places, Kinds
    <3>3. /\ [Idle("post") EXCEPT !.kind = "triage"] \in Hands
          /\ [Idle("ask") EXCEPT !.id = triage] \in Hands
      BY <3>1, <3>2, ToldIsAHand
    <3>. QED BY <3>3
  <2>2. proc' = [proc EXCEPT ![Daemon] = h]
    BY <1>6 DEF TriageBegins
  <2>. HIDE DEF h
  <2>. QED BY <2>1, <2>2, TakesIsTyped, DaemonIsAProcess
<1>7. CASE Claim \/ Assemble \/ PutMarker \/ InsertRow \/ MapTriage \/ AskTriage
  BY <1>7, GoToIsTyped, RestIsTyped, DaemonIsAProcess
     DEF Claim, Assemble, PutMarker, InsertRow, MapTriage, AskTriage, Places
<1>8. CASE PostFails \/ TriageReplies
  BY <1>8, RestIsTyped, DaemonIsAProcess DEF PostFails, TriageReplies
<1>9. CASE VolumeLost
  BY <1>9, IdleIsAHand DEF VolumeLost, Places
<1>10. ASSUME Relay \/ Observe \/ RelayHolds \/ ItemMoves \/ TimePasses \/ Remounted
               \/ (\E s \in Ids : TurnEnds(s) \/ SessionDeleted(s)) \/ UNCHANGED vars
       PROVE  proc' \in [Procs -> Hands]
  BY <1>10, HandsTyped DEF Relay, Observe, RelayHolds, ItemMoves, TimePasses, Remounted,
     TurnEnds, SessionDeleted, vars
<1>. QED
  BY <1>1, <1>2, <1>3, <1>4, <1>5, <1>6, <1>7, <1>8, <1>9, <1>10, DaemonIsAProcess
     DEF Next, Loop, Start, Reconcile

\* The server's sessions.
LEMMA SessionsStep ==
  ASSUME TypeOK, HandHoldsSession, [Next]_vars
  PROVE  /\ server' \in [Ids -> {"none", "idle", "busy", "gone"}]
         /\ overdue' \subseteq {s \in Ids : server'[s] = "busy"}
         /\ kind' \in [Ids -> Kinds \cup {"none"}]
         /\ owed' \subseteq Ids
<1>. USE DEF TypeOK
<1>1. CASE Post
  <2>1. PICK s \in Fresh : /\ server' = [server EXCEPT ![s] = "idle"]
                           /\ kind' = [kind EXCEPT ![s] = proc[Daemon].kind]
                           /\ overdue' = overdue /\ owed' = owed
    BY <1>1 DEF Post
  <2>2. proc[Daemon].kind \in Kinds \cup {"none"} /\ s \in Ids /\ server[s] = "none"
    BY DaemonIsAProcess, <2>1 DEF Fresh
  <2>. QED BY <2>1, <2>2
<1>2. CASE PostFails
  BY <1>2 DEF PostFails, Fresh
<1>3. CASE AskTriage
  <2>1. proc[Daemon].id \in Ids
    BY <1>3 DEF AskTriage, HandHoldsSession, At
  <2>. QED BY <1>3, <2>1 DEF AskTriage
<1>4. CASE Relay
  BY <1>4 DEF Relay, Working
<1>5. CASE Observe
  BY <1>5 DEF Observe
<1>6. ASSUME NEW s \in Ids, TurnEnds(s) \/ SessionDeleted(s)
      PROVE  /\ server' \in [Ids -> {"none", "idle", "busy", "gone"}]
             /\ overdue' \subseteq {r \in Ids : server'[r] = "busy"}
             /\ UNCHANGED <<kind, owed>>
  BY <1>6 DEF TurnEnds, SessionDeleted
<1>7. CASE TimePasses
  BY <1>7 DEF TimePasses
<1>8. CASE VolumeLost
  BY <1>8 DEF VolumeLost
<1>9. ASSUME Next, ~Post, ~PostFails, ~AskTriage, ~Relay, ~Observe, ~TimePasses, ~VolumeLost,
             ~(\E s \in Ids : TurnEnds(s) \/ SessionDeleted(s))
      PROVE  UNCHANGED sessions
  BY <1>9 DEF Next, Loop, Pass, Start, Claim, Assemble, RecordWorktree, PutMarker, InsertRow,
     MapTriage, TriageBegins, TriageReplies, RelayHolds, Status, CensusFails, Recover, HoldOwner,
     RetainSession, ReleaseMapping, List, BeginCleaning, RemoveDirectory, DeleteBranch,
     CleaningFails, CloseCleaned, Reconcile, Cleanup, Crash, ItemMoves, Remounted
<1>10. CASE UNCHANGED sessions
  BY <1>10 DEF sessions
<1>. QED BY <1>1, <1>2, <1>3, <1>4, <1>5, <1>6, <1>7, <1>8, <1>9, <1>10 DEF vars

\* The rows of the database.
LEMMA RowsStep ==
  ASSUME TypeOK, HandHoldsSession, [Next]_vars
  PROVE  /\ srow' \in [Ids -> {"none", "ACTIVE", "RETAINED"}]
         /\ aged' \subseteq Ids
         /\ triage' \in Ids \cup {0}
         /\ item' \in WorkItemStates
         /\ wrow' \in {"none", "ACTIVE", "CLEANING", "CLEANED"}
<1>. USE DEF TypeOK
<1>1. CASE \E p \in Procs : HoldOwner(p) \/ RetainSession(p) \/ ReleaseMapping(p)
  BY <1>1 DEF HoldOwner, RetainSession, ReleaseMapping, Observed, WorkItemStates
<1>2. CASE \E p \in Procs : BeginCleaning(p) \/ CloseCleaned(p)
  BY <1>2 DEF BeginCleaning, CloseCleaned, WorkItemStates
<1>3. CASE Claim \/ RecordWorktree \/ RelayHolds \/ ItemMoves
  BY <1>3 DEF Claim, RecordWorktree, RelayHolds, ItemMoves, WorkItemStates
<1>4. CASE InsertRow \/ MapTriage
  BY <1>4 DEF InsertRow, MapTriage, HandHoldsSession, At
<1>5. CASE TriageReplies \/ Observe
  BY <1>5 DEF TriageReplies, Observe, Observed
<1>6. CASE TimePasses
  BY <1>6 DEF TimePasses, Recorded
<1>7. ASSUME Next, ~(\E p \in Procs : HoldOwner(p) \/ RetainSession(p) \/ ReleaseMapping(p)
                                      \/ BeginCleaning(p) \/ CloseCleaned(p)),
             ~Claim, ~RecordWorktree, ~RelayHolds, ~ItemMoves, ~InsertRow, ~MapTriage,
             ~TriageReplies, ~Observe, ~TimePasses
      PROVE  UNCHANGED rows
  BY <1>7 DEF Next, Loop, Pass, Start, Assemble, Post, PostFails, PutMarker, TriageBegins,
     AskTriage, Relay, Status, CensusFails, Recover, List, RemoveDirectory, DeleteBranch,
     CleaningFails, Reconcile, Cleanup, Crash, VolumeLost, Remounted, TurnEnds, SessionDeleted
<1>8. CASE UNCHANGED rows
  BY <1>8 DEF rows
<1>. QED BY <1>1, <1>2, <1>3, <1>4, <1>5, <1>6, <1>7, <1>8 DEF vars

\* Markers, files and the count of what went wrong.
LEMMA FilesStep ==
  ASSUME TypeOK, HandHoldsSession, [Next]_vars
  PROVE  /\ marker' \subseteq Ids /\ emptied' \in BOOLEAN /\ mounted' \in BOOLEAN
         /\ dir' \in BOOLEAN /\ branch' \in BOOLEAN
         /\ faults' \in 0 .. MaxFaults
<1>1. marker' \subseteq Ids
  <2>1. CASE Start
    BY <2>1 DEF Start, Kept, TypeOK
  <2>2. CASE PutMarker \/ Relay
    BY <2>2 DEF PutMarker, Relay, Kept, HandHoldsSession, At, Working, TypeOK
  <2>3. CASE VolumeLost
    BY <2>3 DEF VolumeLost, TypeOK
  <2>4. ASSUME Next, ~Start, ~PutMarker, ~Relay, ~VolumeLost
        PROVE  marker' = marker
    BY <2>4 DEF Next, Loop, Pass, Claim, Assemble, RecordWorktree, Post, PostFails, InsertRow,
       MapTriage, TriageBegins, AskTriage, TriageReplies, Observe, RelayHolds, Status,
       CensusFails, Recover, HoldOwner, RetainSession, ReleaseMapping, List, BeginCleaning,
       RemoveDirectory, DeleteBranch, CleaningFails, CloseCleaned, Reconcile, Cleanup, Crash,
       ItemMoves, TimePasses, Remounted, TurnEnds, SessionDeleted, registry
  <2>5. CASE UNCHANGED vars
    BY <2>5 DEF vars, registry, TypeOK
  <2>. QED BY <2>1, <2>2, <2>3, <2>4, <2>5 DEF TypeOK
<1>2. emptied' \in BOOLEAN /\ mounted' \in BOOLEAN
  <2>1. CASE VolumeLost \/ Remounted
    BY <2>1, Zenon DEF VolumeLost, Remounted, TypeOK
  <2>2. ASSUME Next, ~VolumeLost, ~Remounted
        PROVE  UNCHANGED <<emptied, mounted>>
    BY <2>2 DEF Next, Loop, Pass, Start, Claim, Assemble, RecordWorktree, Post, PostFails,
       PutMarker, InsertRow, MapTriage, TriageBegins, AskTriage, TriageReplies, Relay, Observe,
       RelayHolds, Status, CensusFails, Recover, HoldOwner, RetainSession, ReleaseMapping, List,
       BeginCleaning, RemoveDirectory, DeleteBranch, CleaningFails, CloseCleaned, Reconcile,
       Cleanup, Crash, ItemMoves, TimePasses, TurnEnds, SessionDeleted, registry
  <2>3. CASE UNCHANGED <<emptied, mounted>>
    BY <2>3 DEF TypeOK
  <2>. QED BY <2>1, <2>2, <2>3 DEF vars, registry
<1>3. dir' \in BOOLEAN /\ branch' \in BOOLEAN
  <2>1. CASE Assemble
    BY <2>1, Zenon DEF Assemble, files, TypeOK
  <2>2. ASSUME NEW p \in Procs, RemoveDirectory(p) \/ DeleteBranch(p)
        PROVE  dir' \in BOOLEAN /\ branch' \in BOOLEAN
    BY <2>2, Zenon DEF RemoveDirectory, DeleteBranch, TypeOK
  <2>3. ASSUME Next, ~Assemble, ~(\E p \in Procs : RemoveDirectory(p) \/ DeleteBranch(p))
        PROVE  UNCHANGED files
    BY <2>3 DEF Next, Loop, Pass, Start, Claim, RecordWorktree, Post, PostFails, PutMarker,
       InsertRow, MapTriage, TriageBegins, AskTriage, TriageReplies, Relay, Observe, RelayHolds,
       Status, CensusFails, Recover, HoldOwner, RetainSession, ReleaseMapping, List,
       BeginCleaning, CleaningFails, CloseCleaned, Reconcile, Cleanup, Crash, ItemMoves,
       TimePasses, VolumeLost, Remounted, TurnEnds, SessionDeleted
  <2>4. CASE UNCHANGED files
    BY <2>4 DEF files, TypeOK
  <2>. QED BY <2>1, <2>2, <2>3, <2>4 DEF vars
<1>4. faults' \in 0 .. MaxFaults
  <2>1. CASE Faulty
    BY <2>1, SessionsAssumption DEF Faulty, TypeOK
  <2>2. ASSUME Next, ~Faulty
        PROVE  faults' = faults
    BY <2>2 DEF Next, Loop, Pass, Start, Claim, Assemble, RecordWorktree, Post, PostFails,
       PutMarker, InsertRow, MapTriage, TriageBegins, AskTriage, TriageReplies, Relay, Observe,
       RelayHolds, Status, CensusFails, Recover, HoldOwner, RetainSession, ReleaseMapping, List,
       BeginCleaning, RemoveDirectory, DeleteBranch, CleaningFails, CloseCleaned, Reconcile,
       Cleanup, Crash, ItemMoves, TimePasses, VolumeLost, Remounted, TurnEnds, SessionDeleted
  <2>. QED BY <2>1, <2>2 DEF vars, TypeOK
<1>. QED BY <1>1, <1>2, <1>3, <1>4

LEMMA TypeStep ==
  ASSUME TypeOK, HandHoldsSession, [Next]_vars
  PROVE  TypeOK'
BY ProcStep, SessionsStep, RowsStep, FilesStep DEF TypeOK, Hands

-----------------------------------------------------------------------------
(***************************************************************************)
(* What no step takes back.                                                *)
(***************************************************************************)
\* A row stays, and only the daemon, at "insert", makes one.
LEMMA RowsStay ==
  ASSUME TypeOK, [Next]_vars
  PROVE  /\ ~InsertRow => Recorded' = Recorded
         /\ InsertRow => Recorded' = Recorded \cup ({proc[Daemon].id} \cap Ids)
<1>1. CASE InsertRow
  <2>1. srow' = [srow EXCEPT ![proc[Daemon].id] = "ACTIVE"]
    BY <1>1 DEF InsertRow
  <2>. QED BY <1>1, <2>1 DEF Recorded, TypeOK
<1>2. CASE ~InsertRow /\ \E p \in Procs : RetainSession(p)
  <2>1. \A s \in Ids : (srow'[s] = "RETAINED" /\ srow[s] # "none") \/ srow'[s] = srow[s]
    BY <1>2 DEF RetainSession, Recorded
  <2>. QED BY <1>2, <2>1 DEF Recorded
<1>3. ASSUME [Next]_vars, ~InsertRow, ~(\E p \in Procs : RetainSession(p))
      PROVE  srow' = srow
  BY <1>3 DEF Next, Loop, Pass, Start, Claim, Assemble, RecordWorktree, Post, PostFails, PutMarker,
     MapTriage, TriageBegins, AskTriage, TriageReplies, Relay, Observe, RelayHolds, Status,
     CensusFails, Recover, HoldOwner, ReleaseMapping, List, BeginCleaning, RemoveDirectory,
     DeleteBranch, CleaningFails, CloseCleaned, Reconcile, Cleanup, Crash, ItemMoves, TimePasses,
     VolumeLost, Remounted, TurnEnds, SessionDeleted, rows, vars
<1>. QED BY <1>1, <1>2, <1>3 DEF Recorded

\* A session that was made is never unmade, and its kind is its own.
LEMMA SessionsStay ==
  ASSUME TypeOK, [Next]_vars
  PROVE  \A s \in Ids : server[s] # "none" => server'[s] # "none" /\ kind'[s] = kind[s]
<1>1. CASE Post
  BY <1>1 DEF Post, Fresh, TypeOK
<1>2. CASE PostFails
  BY <1>2 DEF PostFails, Fresh, TypeOK
<1>3. CASE AskTriage \/ Relay
  BY <1>3 DEF AskTriage, Relay, TypeOK
<1>4. CASE \E s \in Ids : TurnEnds(s) \/ SessionDeleted(s)
  BY <1>4 DEF TurnEnds, SessionDeleted, TypeOK
<1>5. CASE VolumeLost
  BY <1>5 DEF VolumeLost, TypeOK
<1>6. ASSUME [Next]_vars, ~Post, ~PostFails, ~AskTriage, ~Relay, ~VolumeLost,
             ~(\E s \in Ids : TurnEnds(s) \/ SessionDeleted(s))
      PROVE  UNCHANGED <<server, kind>>
  BY <1>6 DEF Next, Loop, Pass, Start, Claim, Assemble, RecordWorktree, PutMarker, InsertRow,
     MapTriage, TriageBegins, TriageReplies, Observe, RelayHolds, Status, CensusFails, Recover,
     HoldOwner, RetainSession, ReleaseMapping, List, BeginCleaning, RemoveDirectory,
     DeleteBranch, CleaningFails, CloseCleaned, Reconcile, Cleanup, Crash, ItemMoves, TimePasses,
     Remounted, sessions, vars
<1>. QED BY <1>1, <1>2, <1>3, <1>4, <1>5, <1>6

\* Only a prompt makes a session busy.
LEMMA BusyByPrompt ==
  ASSUME TypeOK, [Next]_vars, ~AskTriage, ~Relay, NEW s \in Ids, server'[s] = "busy"
  PROVE  server[s] = "busy" /\ ~VolumeLost
<1>1. ~VolumeLost
  <2>1. VolumeLost => server' = [r \in Ids |-> IF server[r] = "busy" THEN "idle" ELSE server[r]]
    BY DEF VolumeLost
  <2>. QED BY <2>1
<1>2. CASE Post \/ PostFails
  BY <1>1, <1>2 DEF Post, PostFails, Fresh, TypeOK
<1>3. CASE \E r \in Ids : TurnEnds(r) \/ SessionDeleted(r)
  BY <1>1, <1>3 DEF TurnEnds, SessionDeleted, TypeOK
<1>4. ASSUME ~Post, ~PostFails, ~(\E r \in Ids : TurnEnds(r) \/ SessionDeleted(r))
      PROVE  server' = server
  BY <1>1, <1>4 DEF Next, Loop, Pass, Start, Claim, Assemble, RecordWorktree, PutMarker,
     InsertRow, MapTriage, TriageBegins, TriageReplies, Observe, RelayHolds, Status, CensusFails,
     Recover, HoldOwner, RetainSession, ReleaseMapping, List, BeginCleaning, RemoveDirectory,
     DeleteBranch, CleaningFails, CloseCleaned, Reconcile, Cleanup, Crash, ItemMoves, TimePasses,
     Remounted, sessions, vars
<1>. QED BY <1>1, <1>2, <1>3, <1>4

\* The prune of a start takes only markers without a row; the volume may go.
LEMMA MarkersStay ==
  ASSUME TypeOK, [Next]_vars
  PROVE  /\ emptied => emptied'
         /\ VolumeLost \/ marker \cap Recorded \subseteq marker'
         /\ emptied' \/ marker \cap Recorded \subseteq marker'
         /\ VolumeLost \/ Start \/ marker \subseteq marker'
<1>1. CASE Start
  BY <1>1 DEF Start, Kept
<1>2. CASE PutMarker \/ Relay
  BY <1>2 DEF PutMarker, Relay, Kept
<1>3. CASE VolumeLost
  <2>1. CASE emptied' = TRUE
    BY <1>3, <2>1
  <2>2. CASE UNCHANGED <<marker, emptied>>
    BY <1>3, <2>2
  <2>. QED BY <1>3, <2>1, <2>2 DEF VolumeLost
<1>4. ASSUME ~Start, ~PutMarker, ~Relay, ~VolumeLost
      PROVE  UNCHANGED <<marker, emptied>>
  BY <1>4 DEF Next, Loop, Pass, Claim, Assemble, RecordWorktree, Post, PostFails, InsertRow,
     MapTriage, TriageBegins, AskTriage, TriageReplies, Observe, RelayHolds, Status, CensusFails,
     Recover, HoldOwner, RetainSession, ReleaseMapping, List, BeginCleaning, RemoveDirectory,
     DeleteBranch, CleaningFails, CloseCleaned, Reconcile, Cleanup, Crash, ItemMoves, TimePasses,
     Remounted, TurnEnds, SessionDeleted, registry, vars
<1>. QED BY <1>1, <1>2, <1>3, <1>4

\* An item that is through is never claimed again.
LEMMA ThroughStays ==
  ASSUME TypeOK, [Next]_vars, item \in Over
  PROVE  item' \in Over
<1>1. CASE \E p \in Procs : HoldOwner(p)
  BY <1>1 DEF HoldOwner, Over
<1>2. CASE \E p \in Procs : CloseCleaned(p)
  BY <1>2 DEF CloseCleaned, Over, Terminal
<1>3. CASE Claim \/ RelayHolds \/ ItemMoves
  BY <1>3 DEF Claim, RelayHolds, ItemMoves, Over, Terminal
<1>4. ASSUME [Next]_vars, ~Claim, ~RelayHolds, ~ItemMoves,
             ~(\E p \in Procs : HoldOwner(p) \/ CloseCleaned(p))
      PROVE  item' = item
  BY <1>4 DEF Next, Loop, Pass, Start, Assemble, RecordWorktree, Post, PostFails, PutMarker,
     InsertRow, MapTriage, TriageBegins, AskTriage, TriageReplies, Relay, Observe, Status,
     CensusFails, Recover, RetainSession, ReleaseMapping, List, BeginCleaning, RemoveDirectory,
     DeleteBranch, CleaningFails, Reconcile, Cleanup, Crash, TimePasses, VolumeLost, Remounted,
     TurnEnds, SessionDeleted, rows, vars
<1>. QED BY <1>1, <1>2, <1>3, <1>4

\* A worktree's row stays.
LEMMA WorktreeRowStays ==
  ASSUME [Next]_vars, wrow # "none"
  PROVE  wrow' # "none"
<1>1. CASE \E p \in Procs : BeginCleaning(p) \/ CloseCleaned(p)
  BY <1>1 DEF BeginCleaning, CloseCleaned
<1>2. CASE RecordWorktree
  BY <1>2 DEF RecordWorktree
<1>3. ASSUME [Next]_vars, ~RecordWorktree, ~(\E p \in Procs : BeginCleaning(p) \/ CloseCleaned(p))
      PROVE  wrow' = wrow
  BY <1>3 DEF Next, Loop, Pass, Start, Claim, Assemble, Post, PostFails, PutMarker, InsertRow,
     MapTriage, TriageBegins, AskTriage, TriageReplies, Relay, Observe, RelayHolds, Status,
     CensusFails, Recover, HoldOwner, RetainSession, ReleaseMapping, List, RemoveDirectory,
     DeleteBranch, CleaningFails, Reconcile, Cleanup, Crash, ItemMoves, TimePasses, VolumeLost,
     Remounted, TurnEnds, SessionDeleted, rows, vars
<1>. QED BY <1>1, <1>2, <1>3

\* Only an assembly makes a directory or a branch.
LEMMA FilesStayAway ==
  ASSUME [Next]_vars, ~Assemble
  PROVE  (~dir => ~dir') /\ (~branch => ~branch')
<1>1. ASSUME NEW p \in Procs, RemoveDirectory(p) \/ DeleteBranch(p)
      PROVE  (~dir => ~dir') /\ (~branch => ~branch')
  <2>1. CASE RemoveDirectory(p)
    BY <2>1 DEF RemoveDirectory
  <2>2. CASE DeleteBranch(p)
    BY <2>2 DEF DeleteBranch
  <2>. QED BY <1>1, <2>1, <2>2
<1>2. ASSUME ~(\E p \in Procs : RemoveDirectory(p) \/ DeleteBranch(p))
      PROVE  UNCHANGED files
  BY <1>2 DEF Next, Loop, Pass, Start, Claim, RecordWorktree, Post, PostFails, PutMarker,
     InsertRow, MapTriage, TriageBegins, AskTriage, TriageReplies, Relay, Observe, RelayHolds,
     Status, CensusFails, Recover, HoldOwner, RetainSession, ReleaseMapping, List, BeginCleaning,
     CleaningFails, CloseCleaned, Reconcile, Cleanup, Crash, ItemMoves, TimePasses, VolumeLost,
     Remounted, TurnEnds, SessionDeleted, vars
<1>3. UNCHANGED files => (~dir => ~dir') /\ (~branch => ~branch')
  <2>1. UNCHANGED files => dir' = dir /\ branch' = branch
    BY DEF files
  <2>. QED BY <2>1, Zenon
<1>. QED BY <1>1, <1>2, <1>3

-----------------------------------------------------------------------------
(***************************************************************************)
(* The daemon's hand.                                                      *)
(***************************************************************************)
\* Where the daemon makes or prompts something.
Making == {"assemble", "post", "mark", "insert", "map", "ask", "reply"}

\* Whatever else happens leaves its hand alone, or takes it out of there.
LEMMA HandStays ==
  ASSUME TypeOK, [Next]_vars,
         ~Claim, ~RecordWorktree, ~Post, ~PutMarker, ~InsertRow, ~MapTriage, ~TriageBegins,
         ~AskTriage, proc'[Daemon].at \in Making
  PROVE  proc'[Daemon] = proc[Daemon]
<1>. USE HandsTyped, DaemonIsAProcess DEF Hands, Idle
<1>1. ASSUME NEW p \in Procs, Pass(p)
      PROVE  proc'[Daemon] = proc[Daemon]
  <2>1. CASE Recover(p)
    BY <2>1, TakesUpAnEntry DEF Making
  <2>2. CASE HoldOwner(p) \/ RetainSession(p) \/ ReleaseMapping(p)
    BY <2>2, ComesBackToCount DEF GoTo, Making
  <2>3. CASE Status(p)
    <3>1. p = Daemon => proc'[Daemon].at = "count"
      BY <2>3, LooksAtASession
    <3>2. p # Daemon => proc'[Daemon] = proc[Daemon]
      BY <2>3, LooksAtASession
    <3>. QED BY <3>1, <3>2 DEF Making
  <2>4. CASE List(p)
    <3>1. p = Daemon => proc'[Daemon].at \in {"cleaning", "loop", "off"}
      BY <2>4, ListsALeftover
    <3>2. p # Daemon => proc'[Daemon] = proc[Daemon]
      BY <2>4, ListsALeftover
    <3>. QED BY <3>1, <3>2 DEF Making
  <2>5. CASE CensusFails(p) \/ CleaningFails(p) \/ CloseCleaned(p)
    BY <2>5 DEF CensusFails, CleaningFails, CloseCleaned, Rest, Making
  <2>6. CASE BeginCleaning(p) \/ RemoveDirectory(p) \/ DeleteBranch(p)
    <3>1. Rest(p) \/ GoTo(p, "remove") \/ GoTo(p, "delete") \/ GoTo(p, "close")
      BY <2>6 DEF BeginCleaning, RemoveDirectory, DeleteBranch
    <3>. QED BY <3>1 DEF Rest, GoTo, Making
  <2>. QED BY <1>1, <2>1, <2>2, <2>3, <2>4, <2>5, <2>6 DEF Pass
<1>2. ASSUME NEW p \in Procs, Reconcile(p) \/ Cleanup(p) \/ Crash(p)
      PROVE  proc'[Daemon] = proc[Daemon]
  BY <1>2 DEF Reconcile, Cleanup, Crash, BeginCount, GoTo, Making
<1>3. CASE Start \/ VolumeLost
  BY <1>3 DEF Start, VolumeLost, BeginCount, Making
<1>4. CASE Assemble \/ PostFails \/ TriageReplies
  <2>1. GoTo(Daemon, "record") \/ Rest(Daemon)
    BY <1>4 DEF Assemble, PostFails, TriageReplies
  <2>. QED BY <2>1 DEF Rest, GoTo, Making
<1>5. CASE Relay \/ Observe \/ RelayHolds \/ ItemMoves \/ TimePasses \/ Remounted
           \/ (\E s \in Ids : TurnEnds(s) \/ SessionDeleted(s)) \/ UNCHANGED vars
  BY <1>5 DEF Relay, Observe, RelayHolds, ItemMoves, TimePasses, Remounted, TurnEnds,
     SessionDeleted, vars
<1>. QED BY <1>1, <1>2, <1>3, <1>4, <1>5 DEF Next, Loop

LEMMA PostedInHand ==
  ASSUME TypeOK, Post
  PROVE  /\ proc'[Daemon].at = "mark" /\ proc'[Daemon].kind = proc[Daemon].kind
         /\ proc[Daemon].at = "post"
         /\ \A q \in Procs \ {Daemon} : proc'[q] = proc[q]
<1>1. PICK s \in Fresh : proc' = [proc EXCEPT ![Daemon].id = s, ![Daemon].at = "mark"]
  BY DEF Post
<1>2. proc[Daemon].at = "post"
  BY DEF Post, At
<1>. QED BY <1>1, <1>2, HandsTyped, DaemonIsAProcess DEF Hands

LEMMA HandHoldsStep ==
  ASSUME TypeOK, HandHoldsSession, [Next]_vars
  PROVE  HandHoldsSession'
<1>. USE HandsTyped, DaemonIsAProcess DEF Hands, Idle, At
<1>1. CASE Claim \/ RecordWorktree
  BY <1>1 DEF Claim, RecordWorktree, GoTo, Rest, HandHoldsSession
<1>2. CASE Post
  BY <1>2 DEF Post, Fresh, HandHoldsSession
<1>3. CASE PutMarker \/ InsertRow \/ MapTriage \/ AskTriage
  BY <1>3 DEF PutMarker, InsertRow, MapTriage, AskTriage, GoTo, Rest, HandHoldsSession
<1>4. CASE TriageBegins
  <2>1. triage \in Ids \cup {0}
    BY DEF TypeOK
  <2>2. proc'[Daemon] = IF triage = 0 THEN [Idle("post") EXCEPT !.kind = "triage"]
                                      ELSE [Idle("ask") EXCEPT !.id = triage]
    BY <1>4 DEF TriageBegins
  <2>. QED BY <2>1, <2>2 DEF HandHoldsSession
<1>. QED BY <1>1, <1>2, <1>3, <1>4, HandStays DEF HandHoldsSession, Making

\* A start checks the volume, and who loses it has gone down.
LEMMA VolumeStep ==
  ASSUME TypeOK, RunsOnTheVolume, [Next]_vars
  PROVE  RunsOnTheVolume'
<1>. USE HandsTyped, DaemonIsAProcess DEF Hands, Idle, At
<1>1. CASE VolumeLost
  BY <1>1 DEF VolumeLost, RunsOnTheVolume
<1>2. CASE Remounted
  BY <1>2 DEF Remounted, RunsOnTheVolume
<1>3. CASE Start
  BY <1>3 DEF Start, RunsOnTheVolume
<1>4. ASSUME [Next]_vars, ~VolumeLost, ~Remounted, ~Start
      PROVE  /\ mounted' = mounted
             /\ proc[Daemon].at = "down" => proc'[Daemon].at = "down"
  <2>1. mounted' = mounted
    BY <1>4 DEF Next, Loop, Pass, Claim, Assemble, RecordWorktree, Post, PostFails, PutMarker,
       InsertRow, MapTriage, TriageBegins, AskTriage, TriageReplies, Relay, Observe, RelayHolds,
       Status, CensusFails, Recover, HoldOwner, RetainSession, ReleaseMapping, List,
       BeginCleaning, RemoveDirectory, DeleteBranch, CleaningFails, CloseCleaned, Reconcile,
       Cleanup, Crash, ItemMoves, TimePasses, TurnEnds, SessionDeleted, registry, vars
  <2>2. ASSUME proc[Daemon].at = "down"
        PROVE  proc'[Daemon].at = "down"
    <3>1. ASSUME NEW p \in Procs, Pass(p) \/ Reconcile(p) \/ Cleanup(p) \/ Crash(p)
          PROVE  proc'[Daemon] = proc[Daemon]
      BY <2>2, <3>1, SessionsAssumption DEF Pass, Status, CensusFails, Recover, HoldOwner,
         RetainSession, ReleaseMapping, List, BeginCleaning, RemoveDirectory, DeleteBranch,
         CleaningFails, CloseCleaned, Reconcile, Cleanup, Crash, BeginCount, Rest, GoTo
    <3>2. ~Loop
      BY <1>4, <2>2 DEF Loop, Claim, Assemble, RecordWorktree, Post, PostFails, PutMarker,
         InsertRow, MapTriage, TriageBegins, AskTriage, TriageReplies, Relay, Observe, RelayHolds
    <3>3. CASE ItemMoves \/ TimePasses \/ (\E s \in Ids : TurnEnds(s) \/ SessionDeleted(s))
               \/ UNCHANGED vars
      BY <3>3, <2>2 DEF ItemMoves, TimePasses, TurnEnds, SessionDeleted, vars
    <3>. QED BY <1>4, <2>2, <3>1, <3>2, <3>3 DEF Next
  <2>. QED BY <2>1, <2>2
<1>. QED BY <1>1, <1>2, <1>3, <1>4 DEF RunsOnTheVolume

-----------------------------------------------------------------------------
(***************************************************************************)
(* createRealSession: how far a session is made.                           *)
(***************************************************************************)
LEMMA MadeIsMarkedStep ==
  ASSUME TypeOK, RunsOnTheVolume, HandHoldsSession, MadeIsMarked, [Next]_vars
  PROVE  MadeIsMarked'
<1>. USE HandsTyped, DaemonIsAProcess DEF Hands, Idle, At
<1>1. CASE PutMarker
  <2>1. /\ mounted
        /\ proc'[Daemon].id = proc[Daemon].id
        /\ Kept(marker \cup {proc[Daemon].id})
    BY <1>1 DEF PutMarker, GoTo, RunsOnTheVolume
  <2>. QED BY <2>1 DEF Kept, MadeIsMarked
<1>2. CASE InsertRow
  <2>1. /\ marker' = marker /\ emptied' = emptied
        /\ proc[Daemon].at = "insert"
        /\ proc'[Daemon].at = "map" => proc'[Daemon].id = proc[Daemon].id
        /\ proc'[Daemon].at # "insert"
    BY <1>2 DEF InsertRow, GoTo, Rest, registry
  <2>. QED BY <2>1 DEF MadeIsMarked
<1>3. ASSUME Claim \/ RecordWorktree \/ Post \/ MapTriage \/ TriageBegins \/ AskTriage
      PROVE  proc'[Daemon].at \notin {"insert", "map"}
  <2>1. CASE Claim \/ RecordWorktree \/ MapTriage \/ AskTriage
    BY <2>1 DEF Claim, RecordWorktree, MapTriage, AskTriage, GoTo, Rest
  <2>2. CASE Post
    BY <2>2, PostedInHand
  <2>3. CASE TriageBegins
    BY <2>3 DEF TriageBegins
  <2>. QED BY <1>3, <2>1, <2>2, <2>3
<1>4. ASSUME proc'[Daemon] = proc[Daemon], proc[Daemon].at \in {"insert", "map"}, ~PutMarker,
             ~InsertRow
      PROVE  proc'[Daemon].id \in marker' \/ emptied'
  <2>1. CASE VolumeLost
    <3>1. emptied' = TRUE \/ (marker' = marker /\ emptied' = emptied)
      BY <2>1 DEF VolumeLost
    <3>. QED BY <1>4, <3>1 DEF MadeIsMarked
  <2>2. ~Start
    BY <1>4 DEF Start
  <2>. QED BY <1>4, <2>1, <2>2, MarkersStay DEF MadeIsMarked
<1>. QED BY <1>1, <1>2, <1>3, <1>4, HandStays DEF MadeIsMarked, Making

LEMMA MarkedIsRecordedStep ==
  ASSUME TypeOK, HandHoldsSession, MarkedIsRecorded, MappedIsRecorded, [Next]_vars
  PROVE  MarkedIsRecorded'
<1>. USE HandsTyped, DaemonIsAProcess DEF Hands, Idle, At
<1>1. Recorded \subseteq Recorded'
  BY RowsStay
<1>2. CASE InsertRow
  <2>1. /\ proc[Daemon].at = "insert"
        /\ proc'[Daemon].at = "map" => proc'[Daemon].id = proc[Daemon].id
        /\ proc'[Daemon].at # "ask"
    BY <1>2 DEF InsertRow, GoTo, Rest
  <2>. QED BY <1>2, <2>1, RowsStay DEF MarkedIsRecorded, HandHoldsSession
<1>3. CASE MapTriage
  <2>1. proc[Daemon].at = "map" /\ proc'[Daemon].id = proc[Daemon].id
    BY <1>3 DEF MapTriage, GoTo
  <2>. QED BY <1>1, <2>1 DEF MarkedIsRecorded
<1>4. CASE TriageBegins
  <2>1. triage \in Ids \cup {0}
    BY DEF TypeOK
  <2>2. proc'[Daemon] = IF triage = 0 THEN [Idle("post") EXCEPT !.kind = "triage"]
                                      ELSE [Idle("ask") EXCEPT !.id = triage]
    BY <1>4 DEF TriageBegins
  <2>. QED BY <1>1, <2>1, <2>2 DEF MarkedIsRecorded, MappedIsRecorded
<1>5. ASSUME Claim \/ RecordWorktree \/ Post \/ PutMarker
      PROVE  proc'[Daemon].at \notin {"map", "ask"}
  <2>1. CASE PutMarker
    <3>1. GoTo(Daemon, "insert")
      BY <2>1 DEF PutMarker
    <3>. QED BY <3>1 DEF GoTo
  <2>2. CASE Claim \/ RecordWorktree
    BY <2>2 DEF Claim, RecordWorktree, GoTo, Rest
  <2>. QED BY <1>5, <2>1, <2>2, PostedInHand
<1>6. CASE AskTriage
  <2>1. GoTo(Daemon, "reply") \/ Rest(Daemon)
    BY <1>6 DEF AskTriage
  <2>. QED BY <2>1 DEF GoTo, Rest, MarkedIsRecorded
<1>. QED BY <1>1, <1>2, <1>3, <1>4, <1>5, <1>6, HandStays DEF MarkedIsRecorded, Making

LEMMA MadeAsAskedStep ==
  ASSUME TypeOK, HandHoldsSession, MadeAsAsked, [Next]_vars
  PROVE  MadeAsAsked'
<1>. USE HandsTyped, DaemonIsAProcess DEF Hands, Idle, At
<1>1. CASE Post
  <2>1. PICK s \in Fresh : /\ server' = [server EXCEPT ![s] = "idle"]
                           /\ kind' = [kind EXCEPT ![s] = proc[Daemon].kind]
                           /\ proc' = [proc EXCEPT ![Daemon].id = s, ![Daemon].at = "mark"]
    BY <1>1 DEF Post
  <2>2. proc'[Daemon].id = s /\ proc'[Daemon].kind = proc[Daemon].kind /\ s \in Ids
    BY <2>1 DEF Fresh
  <2>. QED BY <2>1, <2>2 DEF MadeAsAsked, TypeOK
<1>2. CASE PutMarker
  <2>1. /\ server' = server /\ kind' = kind
        /\ proc[Daemon].at = "mark"
        /\ proc'[Daemon].id = proc[Daemon].id /\ proc'[Daemon].kind = proc[Daemon].kind
    BY <1>2 DEF PutMarker, GoTo, sessions
  <2>. QED BY <2>1 DEF MadeAsAsked
<1>3. ASSUME Claim \/ RecordWorktree \/ InsertRow \/ MapTriage \/ TriageBegins \/ AskTriage
      PROVE  proc'[Daemon].at \notin {"mark", "insert"}
  BY <1>3 DEF Claim, RecordWorktree, InsertRow, MapTriage, TriageBegins, AskTriage, GoTo, Rest
<1>4. ASSUME proc'[Daemon] = proc[Daemon], proc[Daemon].at \in {"mark", "insert"}
      PROVE  /\ kind'[proc'[Daemon].id] = proc'[Daemon].kind
             /\ server'[proc'[Daemon].id] # "none"
  BY <1>4, SessionsStay DEF MadeAsAsked, HandHoldsSession
<1>. QED BY <1>1, <1>2, <1>3, <1>4, HandStays DEF MadeAsAsked, Making

LEMMA RecordedWasMadeStep ==
  ASSUME TypeOK, HandHoldsSession, MadeAsAsked, RecordedWasMade, [Next]_vars
  PROVE  RecordedWasMade'
<1>1. \A s \in Recorded : server'[s] # "none"
  BY SessionsStay DEF RecordedWasMade, Recorded
<1>2. CASE InsertRow
  <2>1. server'[proc[Daemon].id] # "none"
    BY <1>2, SessionsStay DEF InsertRow, At, MadeAsAsked, HandHoldsSession
  <2>. QED BY <1>1, <1>2, <2>1, RowsStay DEF RecordedWasMade
<1>. QED BY <1>1, <1>2, RowsStay DEF RecordedWasMade

LEMMA MappedIsRecordedStep ==
  ASSUME TypeOK, MarkedIsRecorded, MappedIsRecorded, [Next]_vars
  PROVE  MappedIsRecorded'
<1>1. Recorded \subseteq Recorded'
  BY RowsStay
<1>2. CASE MapTriage
  BY <1>1, <1>2 DEF MapTriage, At, MarkedIsRecorded, MappedIsRecorded
<1>3. ASSUME ~MapTriage
      PROVE  triage' \in {triage, 0}
  BY <1>3 DEF Next, Loop, Pass, Start, Claim, Assemble, RecordWorktree, Post, PostFails,
     PutMarker, InsertRow, TriageBegins, AskTriage, TriageReplies, Relay, Observe, RelayHolds,
     Status, CensusFails, Recover, HoldOwner, RetainSession, ReleaseMapping, List, BeginCleaning,
     RemoveDirectory, DeleteBranch, CleaningFails, CloseCleaned, Reconcile, Cleanup, Crash,
     ItemMoves, TimePasses, VolumeLost, Remounted, TurnEnds, SessionDeleted, rows, vars
<1>. QED BY <1>1, <1>2, <1>3 DEF MappedIsRecorded

LEMMA BusyIsRecordedStep ==
  ASSUME TypeOK, MarkedIsRecorded, BusyIsRecorded, [Next]_vars
  PROVE  BusyIsRecorded'
<1>1. Recorded \subseteq Recorded'
  BY RowsStay
<1>2. CASE AskTriage
  <2>1. \A s \in Ids : server'[s] = "busy" => server[s] = "busy" \/ s = proc[Daemon].id
    BY <1>2 DEF AskTriage, TypeOK
  <2>2. proc[Daemon].id \in Recorded
    BY <1>2 DEF AskTriage, At, MarkedIsRecorded
  <2>. QED BY <1>1, <2>1, <2>2 DEF BusyIsRecorded
<1>3. CASE Relay
  <2>1. PICK r \in Working : server' = [server EXCEPT ![r] = "busy"]
    BY <1>3 DEF Relay
  <2>2. r \in Recorded
    BY <2>1 DEF Working, Recorded
  <2>. QED BY <1>1, <2>1, <2>2 DEF BusyIsRecorded, TypeOK
<1>4. CASE ~AskTriage /\ ~Relay
  BY <1>1, <1>4, BusyByPrompt DEF BusyIsRecorded
<1>. QED BY <1>2, <1>3, <1>4

-----------------------------------------------------------------------------
(***************************************************************************)
(* The two safety invariants.                                              *)
(***************************************************************************)
LEMMA ModeratedStep ==
  ASSUME TypeOK, RunsOnTheVolume, HandHoldsSession, BusyIsRecorded, WorkIsModerated, [Next]_vars
  PROVE  WorkIsModerated'
<1>1. CASE AskTriage
  <2>1. /\ \A s \in Ids : server'[s] = "busy" => server[s] = "busy" \/ s \in marker
        /\ marker' = marker
    BY <1>1 DEF AskTriage, Managed, registry, TypeOK
  <2>. QED BY <2>1 DEF WorkIsModerated, Managed
<1>2. CASE Relay
  <2>1. mounted
    BY <1>2 DEF Relay, At, RunsOnTheVolume
  <2>2. PICK r \in Working : /\ server' = [server EXCEPT ![r] = "busy"]
                             /\ Kept(marker \cup {r})
    BY <1>2 DEF Relay
  <2>3. marker' = marker \cup {r}
    BY <2>1, <2>2 DEF Kept
  <2>. QED BY <2>2, <2>3 DEF WorkIsModerated, Managed, TypeOK
<1>3. ASSUME ~AskTriage, ~Relay, NEW s \in Ids, server'[s] = "busy"
      PROVE  s \in marker'
  <2>1. server[s] = "busy" /\ ~VolumeLost
    BY <1>3, BusyByPrompt
  <2>2. s \in marker \cap Recorded
    BY <2>1 DEF BusyIsRecorded, WorkIsModerated, Managed
  <2>. QED BY <2>1, <2>2, MarkersStay
<1>. QED BY <1>1, <1>2, <1>3 DEF WorkIsModerated, Managed

LEMMA PromptableStep ==
  ASSUME TypeOK, MadeIsMarked, MappedIsRecorded, MappedTriageIsPromptable, [Next]_vars
  PROVE  MappedTriageIsPromptable'
<1>1. CASE MapTriage
  <2>1. /\ triage' = proc[Daemon].id /\ proc[Daemon].at = "map"
        /\ marker' = marker /\ emptied' = emptied
    BY <1>1 DEF MapTriage, At, registry
  <2>. QED BY <2>1 DEF MadeIsMarked, MappedTriageIsPromptable
<1>2. ASSUME ~MapTriage
      PROVE  triage' \in {triage, 0}
  BY <1>2 DEF Next, Loop, Pass, Start, Claim, Assemble, RecordWorktree, Post, PostFails,
     PutMarker, InsertRow, TriageBegins, AskTriage, TriageReplies, Relay, Observe, RelayHolds,
     Status, CensusFails, Recover, HoldOwner, RetainSession, ReleaseMapping, List, BeginCleaning,
     RemoveDirectory, DeleteBranch, CleaningFails, CloseCleaned, Reconcile, Cleanup, Crash,
     ItemMoves, TimePasses, VolumeLost, Remounted, TurnEnds, SessionDeleted, rows, vars
<1>3. ASSUME triage' = triage, triage # 0
      PROVE  triage \in marker' \/ emptied'
  BY <1>3, MarkersStay DEF MappedIsRecorded, MappedTriageIsPromptable
<1>. QED BY <1>1, <1>2, <1>3 DEF MappedTriageIsPromptable

-----------------------------------------------------------------------------
(***************************************************************************)
(* Cleanup.                                                                *)
(***************************************************************************)
\* A session is about to be retained where its entry was taken up.
LEMMA HandAtRetain ==
  ASSUME TypeOK, [Next]_vars, NEW q \in Procs, proc'[q].at = "retain"
  PROVE  proc[q].at = "retain" \/ Recover(q)
<1>. USE HandsTyped, DaemonIsAProcess DEF Hands, Idle, At
<1>1. ASSUME NEW p \in Procs, Pass(p), ~Recover(p)
      PROVE  proc[q].at = "retain"
  <2>1. CASE Status(p)
    <3>1. p = q => proc'[q].at = "count"
      BY <2>1, LooksAtASession
    <3>2. p # q => proc'[q] = proc[q]
      BY <2>1, LooksAtASession
    <3>. QED BY <1>1, <3>1, <3>2
  <2>2. CASE CensusFails(p) \/ CleaningFails(p) \/ CloseCleaned(p)
    BY <2>2 DEF CensusFails, CleaningFails, CloseCleaned, Rest
  <2>3. CASE List(p)
    <3>1. p = q => proc'[q].at \in {"cleaning", "loop", "off"}
      BY <2>3, ListsALeftover
    <3>2. p # q => proc'[q] = proc[q]
      BY <2>3, ListsALeftover
    <3>. QED BY <1>1, <3>1, <3>2
  <2>4. CASE BeginCleaning(p) \/ RemoveDirectory(p) \/ DeleteBranch(p)
    <3>1. Rest(p) \/ GoTo(p, "remove") \/ GoTo(p, "delete") \/ GoTo(p, "close")
      BY <2>4 DEF BeginCleaning, RemoveDirectory, DeleteBranch
    <3>. QED BY <3>1 DEF Rest, GoTo
  <2>5. CASE HoldOwner(p) \/ RetainSession(p) \/ ReleaseMapping(p)
    BY <2>5, ComesBackToCount DEF GoTo
  <2>. QED BY <1>1, <2>1, <2>2, <2>3, <2>4, <2>5 DEF Pass
<1>2. ASSUME NEW p \in Procs, Recover(p)
      PROVE  proc[q].at = "retain" \/ Recover(q)
  BY <1>2, TakesUpAnEntry
<1>3. ASSUME NEW p \in Procs, Reconcile(p) \/ Cleanup(p) \/ Crash(p)
      PROVE  proc[q].at = "retain"
  BY <1>3 DEF Reconcile, Cleanup, Crash, BeginCount, GoTo
<1>4. ~VolumeLost /\ (Start => proc[q].at = "retain")
  BY DEF VolumeLost, Start, BeginCount
<1>5. CASE TriageBegins \/ RecordWorktree
  <2>1. (\A p \in Procs \ {Daemon} : proc'[p] = proc[p])
          /\ proc'[Daemon].at \in {"post", "ask", "loop"}
    BY <1>5 DEF TriageBegins, RecordWorktree, Rest
  <2>. QED BY <2>1
<1>6. CASE Post
  BY <1>6, PostedInHand
<1>7. CASE Claim \/ Assemble \/ PostFails \/ PutMarker \/ InsertRow \/ MapTriage
           \/ AskTriage \/ TriageReplies
  <2>1. Rest(Daemon) \/ \E at \in {"assemble", "loop", "record", "insert", "map", "ask", "reply"} :
          GoTo(Daemon, at)
    BY <1>7 DEF Claim, Assemble, PostFails, PutMarker, InsertRow, MapTriage, AskTriage,
       TriageReplies
  <2>. QED BY <2>1 DEF Rest, GoTo
<1>8. CASE Relay \/ Observe \/ RelayHolds \/ ItemMoves \/ TimePasses \/ Remounted
           \/ (\E s \in Ids : TurnEnds(s) \/ SessionDeleted(s)) \/ UNCHANGED vars
  <2>1. proc' = proc
    BY <1>8 DEF Relay, Observe, RelayHolds, ItemMoves, TimePasses, Remounted, TurnEnds,
       SessionDeleted, vars
  <2>. QED BY <2>1
<1>. QED BY <1>1, <1>2, <1>3, <1>4, <1>5, <1>6, <1>7, <1>8 DEF Next, Loop

LEMMA ThroughStep ==
  ASSUME TypeOK, RetainedIsThrough, [Next]_vars
  PROVE  RetainedIsThrough'
<1>1. ASSUME NEW s \in Ids, srow'[s] = "RETAINED"
      PROVE  item' \in Over
  <2>1. CASE srow[s] = "RETAINED"
    BY <2>1, ThroughStays DEF RetainedIsThrough
  <2>2. CASE srow[s] # "RETAINED"
    <3>1. CASE InsertRow
      BY <1>1, <2>2, <3>1 DEF InsertRow, TypeOK
    <3>2. ASSUME NEW p \in Procs, RetainSession(p)
          PROVE  item \in Over
      BY <3>2 DEF RetainSession, RetainedIsThrough
    <3>3. ASSUME ~InsertRow, ~(\E p \in Procs : RetainSession(p))
          PROVE  srow' = srow
      BY <3>3 DEF Next, Loop, Pass, Start, Claim, Assemble, RecordWorktree, Post, PostFails,
         PutMarker, MapTriage, TriageBegins, AskTriage, TriageReplies, Relay, Observe, RelayHolds,
         Status, CensusFails, Recover, HoldOwner, ReleaseMapping, List, BeginCleaning,
         RemoveDirectory, DeleteBranch, CleaningFails, CloseCleaned, Reconcile, Cleanup, Crash,
         ItemMoves, TimePasses, VolumeLost, Remounted, TurnEnds, SessionDeleted, rows, vars
    <3>. QED BY <1>1, <2>2, <3>1, <3>2, <3>3, ThroughStays
  <2>. QED BY <2>1, <2>2
<1>2. ASSUME NEW q \in Procs, NEW s \in Ids, proc'[q].seen[s] = "incomplete"
      PROVE  item' \in Over
  <2>. USE HandsTyped, DaemonIsAProcess DEF Hands, Idle
  <2>1. ASSUME NEW p \in Procs, Status(p)
        PROVE  item \in Over
    <3>. DEFINE r == CHOOSE x \in proc[p].todo : \A y \in proc[p].todo : x <= y
    <3>1. proc' = [proc EXCEPT ![p].todo = @ \ {r}, ![p].seen[r] = Classified(r)]
      BY <2>1 DEF Status
    <3>. HIDE DEF r
    <3>2. proc'[q].seen[s] = proc[q].seen[s] \/ Classified(r) = "incomplete"
      BY <1>2, <3>1
    <3>3. Classified(r) = "incomplete" => item \in Over
      BY DEF Classified, Over
    <3>. QED BY <1>2, <3>2, <3>3 DEF RetainedIsThrough
  <2>2. ASSUME NEW p \in Procs, Pass(p) /\ ~Status(p)
        PROVE  proc[q].seen[s] = "incomplete"
    <3>1. CASE BeginCleaning(p) \/ RemoveDirectory(p) \/ (\E place \in Places : GoTo(p, place))
      BY <1>2, <3>1 DEF BeginCleaning, RemoveDirectory, GoTo
    <3>2. CASE CensusFails(p) \/ CleaningFails(p) \/ CloseCleaned(p) \/ Rest(p)
      BY <1>2, <3>2 DEF CensusFails, CleaningFails, CloseCleaned, Rest
    <3>3. CASE List(p)
      <4>1. Rest(p) \/ proc' = [proc EXCEPT ![p] = [Idle("cleaning") EXCEPT !.wrow = wrow]]
        BY <3>3 DEF List
      <4>. QED BY <1>2, <3>2, <4>1
    <3>4. CASE DeleteBranch(p)
      <4>1. Rest(p) \/ GoTo(p, "close")
        BY <3>4 DEF DeleteBranch
      <4>. QED BY <3>1, <3>2, <4>1 DEF Places
    <3>5. CASE Recover(p)
      <4>1. proc'[q] = proc[q] \/ proc'[q].seen[s] \in {proc[q].seen[s], "none"}
        BY <3>5, TakesUpAnEntry
      <4>. QED BY <1>2, <4>1
    <3>6. CASE HoldOwner(p) \/ RetainSession(p) \/ ReleaseMapping(p)
      BY <3>1, <3>6, ComesBackToCount DEF Places
    <3>. QED BY <2>2, <3>1, <3>2, <3>3, <3>4, <3>5, <3>6 DEF Pass
  <2>3. ASSUME NEW p \in Procs, Reconcile(p) \/ Cleanup(p) \/ Crash(p)
        PROVE  proc[q].seen[s] = "incomplete"
    BY <1>2, <2>3 DEF Reconcile, Cleanup, Crash, BeginCount, GoTo
  <2>4. ASSUME Start \/ VolumeLost
        PROVE  proc[q].seen[s] = "incomplete"
    <3>1. CASE Start
      BY <1>2, <3>1 DEF Start, BeginCount
    <3>2. CASE VolumeLost
      BY <1>2, <3>2 DEF VolumeLost
    <3>. QED BY <2>4, <3>1, <3>2
  <2>5. ASSUME Claim \/ Assemble \/ RecordWorktree \/ PostFails \/ PutMarker \/ InsertRow
               \/ MapTriage \/ AskTriage \/ TriageReplies
        PROVE  proc[q].seen[s] = "incomplete"
    BY <1>2, <2>5 DEF Claim, Assemble, RecordWorktree, PostFails, PutMarker, InsertRow, MapTriage,
       AskTriage, TriageReplies, Rest, GoTo
  <2>6. CASE TriageBegins
    <3>1. proc' = [proc EXCEPT ![Daemon] = IF triage = 0
                     THEN [Idle("post") EXCEPT !.kind = "triage"]
                     ELSE [Idle("ask") EXCEPT !.id = triage]]
      BY <2>6 DEF TriageBegins
    <3>2. proc[q].seen[s] = "incomplete"
      BY <1>2, <3>1
    <3>. QED BY <3>2, ThroughStays DEF RetainedIsThrough
  <2>7. CASE Post
    <3>1. PICK r \in Fresh : proc' = [proc EXCEPT ![Daemon].id = r, ![Daemon].at = "mark"]
      BY <2>7 DEF Post
    <3>2. proc[q].seen[s] = "incomplete"
      BY <1>2, <3>1
    <3>. QED BY <3>2, ThroughStays DEF RetainedIsThrough
  <2>8. ASSUME Relay \/ Observe \/ RelayHolds \/ ItemMoves \/ TimePasses \/ Remounted
               \/ (\E r \in Ids : TurnEnds(r) \/ SessionDeleted(r)) \/ UNCHANGED vars
        PROVE  proc' = proc
    BY <2>8 DEF Relay, Observe, RelayHolds, ItemMoves, TimePasses, Remounted, TurnEnds,
       SessionDeleted, vars
  <2>. QED BY <1>2, <2>1, <2>2, <2>3, <2>4, <2>5, <2>6, <2>7, <2>8, ThroughStays
           DEF RetainedIsThrough, Next, Loop
<1>3. ASSUME NEW q \in Procs, proc'[q].at = "retain"
      PROVE  item' \in Over
  <2>1. proc[q].at = "retain" \/ Recover(q)
    BY <1>3, HandAtRetain
  <2>2. item \in Over
    BY <1>3, <2>1, TakesUpAnEntry DEF RetainedIsThrough, At
  <2>. QED BY <2>2, ThroughStays
<1>. QED BY <1>1, <1>2, <1>3 DEF RetainedIsThrough, At

\* A claim finds the item without a session, or has no assembly.
LEMMA AssemblyStep ==
  ASSUME TypeOK, HandHoldsSession, RecordedWasMade, RetainedIsThrough, AssemblyIsFirst, [Next]_vars
  PROVE  AssemblyIsFirst'
<1>. USE HandsTyped, DaemonIsAProcess DEF Hands, Idle, At
<1>1. CASE Claim
  <2>1. /\ item = "QUEUED" /\ srow' = srow /\ kind' = kind
        /\ proc'[Daemon].at = "assemble" => Working = {}
    BY <1>1 DEF Claim, GoTo, sessions
  <2>2. \A s \in Ids : srow[s] # "RETAINED"
    BY <2>1 DEF RetainedIsThrough, Over, Terminal
  <2>3. Working = {} => ~Staffed
    BY <2>2 DEF Working, Staffed, Recorded, TypeOK
  <2>4. Staffed' = Staffed
    BY <2>1 DEF Staffed, Recorded
  <2>. QED BY <2>1, <2>3, <2>4 DEF AssemblyIsFirst
<1>2. ASSUME RecordWorktree \/ PutMarker \/ InsertRow \/ MapTriage \/ AskTriage
      PROVE  GoTo(Daemon, "insert") \/ GoTo(Daemon, "map") \/ GoTo(Daemon, "ask")
               \/ GoTo(Daemon, "reply") \/ Rest(Daemon) \/ proc'[Daemon].at = "post"
  BY <1>2 DEF RecordWorktree, PutMarker, InsertRow, MapTriage, AskTriage
<1>3. ASSUME RecordWorktree \/ PutMarker \/ InsertRow \/ MapTriage \/ AskTriage
             \/ TriageBegins \/ Post
      PROVE  proc'[Daemon].at # "assemble"
  <2>1. CASE TriageBegins
    <3>. DEFINE g == [Idle("post") EXCEPT !.kind = "triage"]
                h == [Idle("ask") EXCEPT !.id = triage]
    <3>1. proc' = [proc EXCEPT ![Daemon] = g] \/ proc' = [proc EXCEPT ![Daemon] = h]
      BY <2>1 DEF TriageBegins
    <3>2. g.at = "post" /\ h.at = "ask"
      BY DEF Idle
    <3>. HIDE DEF g, h
    <3>. QED BY <3>1, <3>2
  <2>2. CASE Post
    BY <2>2, PostedInHand
  <2>. QED BY <1>2, <1>3, <2>1, <2>2 DEF GoTo, Rest
<1>4. ASSUME proc'[Daemon] = proc[Daemon], proc[Daemon].at = "assemble"
      PROVE  ~Staffed'
  <2>1. ~InsertRow
    BY <1>4 DEF InsertRow
  <2>2. Recorded' = Recorded
    BY <2>1, RowsStay
  <2>3. \A s \in Recorded : kind'[s] = kind[s]
    BY SessionsStay DEF RecordedWasMade, Recorded
  <2>. QED BY <1>4, <2>2, <2>3 DEF AssemblyIsFirst, Staffed
<1>. QED BY <1>1, <1>3, <1>4, HandStays DEF AssemblyIsFirst, Making

\* A worktree is recorded where it was assembled.
LEMMA HandAtRecord ==
  ASSUME TypeOK, [Next]_vars, proc'[Daemon].at = "record"
  PROVE  Assemble \/ proc[Daemon].at = "record"
<1>. USE HandsTyped, DaemonIsAProcess DEF Hands, Idle, At
<1>1. ASSUME NEW p \in Procs, Pass(p) \/ Reconcile(p) \/ Cleanup(p) \/ Crash(p)
      PROVE  proc[Daemon].at = "record"
  <2>1. CASE Status(p)
    BY <1>1, <2>1 DEF Status
  <2>2. CASE Recover(p)
    BY <2>2, TakesUpAnEntry
  <2>3. CASE HoldOwner(p) \/ RetainSession(p) \/ ReleaseMapping(p)
    BY <2>3, ComesBackToCount DEF GoTo
  <2>4. CASE CensusFails(p) \/ CleaningFails(p) \/ CloseCleaned(p)
    BY <2>4 DEF CensusFails, CleaningFails, CloseCleaned, Rest
  <2>5. CASE List(p) \/ BeginCleaning(p) \/ RemoveDirectory(p) \/ DeleteBranch(p)
    BY <2>5 DEF List, BeginCleaning, RemoveDirectory, DeleteBranch, Rest, GoTo
  <2>6. CASE Reconcile(p) \/ Cleanup(p)
    <3>1. p # Daemon /\ (BeginCount(p) \/ \E place \in Places : GoTo(p, place))
      BY <2>6, SessionsAssumption DEF Reconcile, Cleanup, Places
    <3>. QED BY <3>1 DEF BeginCount, GoTo
  <2>7. CASE Crash(p)
    <3>1. \/ proc' = [proc EXCEPT ![p] = Idle("down")]
          \/ proc' = [proc EXCEPT ![p] = Idle("off")]
      BY <2>7 DEF Crash
    <3>. QED BY <3>1
  <2>. QED BY <1>1, <2>1, <2>2, <2>3, <2>4, <2>5, <2>6, <2>7 DEF Pass
<1>2. ~Start /\ ~VolumeLost
  <2>1. Start => proc'[Daemon].at = "count"
    BY DEF Start, BeginCount
  <2>2. VolumeLost => proc'[Daemon].at = "down"
    BY DEF VolumeLost
  <2>. QED BY <2>1, <2>2
<1>3. ~Post /\ ~TriageBegins
  <2>1. ~Post
    BY PostedInHand
  <2>2. TriageBegins => proc'[Daemon].at \in {"post", "ask"}
    BY DEF TriageBegins
  <2>. QED BY <2>1, <2>2
<1>4. ~Claim /\ ~PutMarker /\ ~InsertRow /\ ~MapTriage /\ ~AskTriage /\ ~RecordWorktree
  <2>1. ASSUME Claim \/ PutMarker \/ InsertRow \/ MapTriage \/ AskTriage
        PROVE  Rest(Daemon) \/ \E at \in {"assemble", "loop", "insert", "map", "ask", "reply"} :
                 GoTo(Daemon, at)
    BY <2>1 DEF Claim, PutMarker, InsertRow, MapTriage, AskTriage
  <2>2. RecordWorktree => proc'[Daemon].at \in {"post", "loop"}
    BY DEF RecordWorktree, Rest
  <2>. QED BY <2>1, <2>2 DEF Rest, GoTo
<1>5. ~PostFails /\ ~TriageReplies
  BY DEF PostFails, TriageReplies, Rest
<1>6. ASSUME Relay \/ Observe \/ RelayHolds \/ ItemMoves \/ TimePasses \/ Remounted
             \/ (\E s \in Ids : TurnEnds(s) \/ SessionDeleted(s)) \/ UNCHANGED vars
      PROVE  proc' = proc
  BY <1>6 DEF Relay, Observe, RelayHolds, ItemMoves, TimePasses, Remounted, TurnEnds,
     SessionDeleted, vars
<1>. QED BY <1>1, <1>2, <1>3, <1>4, <1>5, <1>6 DEF Next, Loop

\* Whether the item has its session changes only where its row is written.
LEMMA StaffedStays ==
  ASSUME TypeOK, RecordedWasMade, [Next]_vars, ~InsertRow
  PROVE  Staffed' = Staffed
<1>1. Recorded' = Recorded
  BY RowsStay
<1>2. \A s \in Recorded : kind'[s] = kind[s]
  BY SessionsStay DEF RecordedWasMade, Recorded
<1>. QED BY <1>1, <1>2 DEF Staffed

LEMMA AssemblyGoesOnStep ==
  ASSUME TypeOK, RecordedWasMade, AssemblyIsFirst, AssemblyStaysFirst, [Next]_vars
  PROVE  AssemblyStaysFirst'
<1>. DEFINE Resolving == /\ proc[Daemon].at \in {"post", "mark", "insert"}
                         /\ proc[Daemon].kind = "resolution"
            WasFirst == proc[Daemon].at \in {"assemble", "record"} \/ Resolving
<1>. USE HandsTyped, DaemonIsAProcess DEF Hands, Idle, At
<1>1. ASSUME InsertRow
      PROVE  proc'[Daemon].at \in {"map", "loop"}
  BY <1>1 DEF InsertRow, Rest, GoTo
<1>2. ASSUME proc'[Daemon].at = "record"
      PROVE  WasFirst
  BY <1>2, HandAtRecord DEF Assemble
<1>3. ASSUME Resolving'
      PROVE  WasFirst
  <2>1. CASE RecordWorktree
    BY <2>1 DEF RecordWorktree
  <2>2. CASE Post
    BY <1>3, <2>2, PostedInHand
  <2>3. CASE PutMarker
    <3>1. GoTo(Daemon, "insert") /\ proc[Daemon].at = "mark"
      BY <2>3 DEF PutMarker
    <3>. QED BY <1>3, <3>1 DEF GoTo
  <2>4. CASE TriageBegins
    BY <1>3, <2>4 DEF TriageBegins
  <2>5. CASE Claim \/ MapTriage \/ AskTriage
    <3>1. Rest(Daemon) \/ \E at \in {"assemble", "loop", "ask", "reply"} : GoTo(Daemon, at)
      BY <2>5 DEF Claim, MapTriage, AskTriage
    <3>. QED BY <1>3, <3>1 DEF Rest, GoTo
  <2>. QED BY <1>1, <1>3, <2>1, <2>2, <2>3, <2>4, <2>5, HandStays DEF Making
<1>4. WasFirst => ~Staffed
  BY DEF AssemblyIsFirst, AssemblyStaysFirst
<1>5. ASSUME proc'[Daemon].at = "record" \/ Resolving'
      PROVE  ~Staffed'
  <2>1. ~InsertRow
    BY <1>1, <1>5
  <2>. QED BY <1>2, <1>3, <1>4, <1>5, <2>1, StaffedStays
<1>. QED BY <1>5 DEF AssemblyStaysFirst

LEMMA OneSessionStep ==
  ASSUME TypeOK, HandHoldsSession, MadeAsAsked, RecordedWasMade, AssemblyStaysFirst, OneSession,
         [Next]_vars
  PROVE  OneSession'
<1>1. \A s \in Recorded : kind'[s] = kind[s]
  BY SessionsStay DEF RecordedWasMade, Recorded
<1>2. CASE InsertRow
  <2>. DEFINE d == proc[Daemon].id
  <2>1. /\ proc[Daemon].at = "insert" /\ kind' = kind
        /\ Recorded' = Recorded \cup ({d} \cap Ids)
    BY <1>2, RowsStay DEF InsertRow, At, sessions
  <2>2. kind[d] = proc[Daemon].kind
    BY <2>1 DEF MadeAsAsked
  <2>3. kind[d] = "resolution" => \A s \in Recorded : kind[s] # "resolution"
    BY <2>1, <2>2 DEF AssemblyStaysFirst, Staffed
  <2>. HIDE DEF d
  <2>. QED BY <2>1, <2>3 DEF OneSession
<1>3. CASE ~InsertRow
  BY <1>1, <1>3, RowsStay DEF OneSession
<1>. QED BY <1>2, <1>3

\* Where a process cleans up, and how it got there.
LEMMA HandAtCleaning ==
  ASSUME TypeOK, [Next]_vars, NEW q \in Procs \ Operators
  PROVE  /\ proc'[q].at = "cleaning" => proc[q].at = "cleaning" \/ wrow # "none"
         /\ proc'[q].at = "remove" => proc[q].at \in {"cleaning", "remove"}
         /\ proc'[q].at = "delete" => proc[q].at = "delete" \/ RemoveDirectory(q)
         /\ proc'[q].at = "close" => proc[q].at = "close" \/ DeleteBranch(q)
<1>. USE HandsTyped, DaemonIsAProcess DEF Hands, Idle, At
<1>1. ASSUME NEW p \in Procs, List(p)
      PROVE  /\ proc'[q].at = "cleaning" => proc[q].at = "cleaning" \/ wrow # "none"
             /\ proc'[q].at \in {"remove", "delete", "close"} => proc'[q] = proc[q]
  BY <1>1 DEF List, Rest
<1>2. ASSUME NEW p \in Procs, BeginCleaning(p)
      PROVE  /\ proc'[q].at = "remove" => proc[q].at \in {"cleaning", "remove"}
             /\ proc'[q].at \in {"cleaning", "delete", "close"} => proc'[q] = proc[q]
  BY <1>2 DEF BeginCleaning, GoTo
<1>3. ASSUME NEW p \in Procs, RemoveDirectory(p)
      PROVE  /\ proc'[q].at = "delete" => proc[q].at = "delete" \/ RemoveDirectory(q)
             /\ proc'[q].at \in {"cleaning", "remove", "close"} => proc'[q] = proc[q]
  <2>1. CASE p = q
    BY <1>3, <2>1 DEF GoTo, RemoveDirectory
  <2>2. CASE p # q
    BY <1>3, <2>2 DEF GoTo, RemoveDirectory
  <2>. QED BY <2>1, <2>2
<1>4. ASSUME NEW p \in Procs, DeleteBranch(p)
      PROVE  /\ proc'[q].at = "close" => proc[q].at = "close" \/ DeleteBranch(q)
             /\ proc'[q].at \in {"cleaning", "remove", "delete"} => proc'[q] = proc[q]
  <2>1. GoTo(p, "close") \/ Rest(p)
    BY <1>4 DEF DeleteBranch
  <2>2. CASE p = q
    BY <1>4, <2>1, <2>2 DEF GoTo, Rest
  <2>3. CASE p # q
    BY <2>1, <2>3 DEF GoTo, Rest
  <2>. QED BY <2>2, <2>3
<1>5. ASSUME NEW p \in Procs, Cleanup(p)
      PROVE  proc'[q] = proc[q]
  BY <1>5 DEF Cleanup, GoTo
<1>6. ASSUME proc'[q].at \in {"cleaning", "remove", "delete", "close"},
             ~(\E p \in Procs : List(p) \/ BeginCleaning(p) \/ RemoveDirectory(p)
                                \/ DeleteBranch(p) \/ Cleanup(p))
      PROVE  proc'[q] = proc[q]
  <2>1. ASSUME NEW p \in Procs, Status(p)
        PROVE  proc'[q] = proc[q]
    <3>1. proc[p].at = "count" /\ proc'[p].at = "count" /\ (p # q => proc'[q] = proc[q])
      BY <2>1 DEF Status
    <3>. QED BY <1>6, <3>1
  <2>2. ASSUME NEW p \in Procs, Recover(p)
        PROVE  proc'[q] = proc[q]
    BY <1>6, <2>2, TakesUpAnEntry
  <2>3. ASSUME NEW p \in Procs, HoldOwner(p) \/ RetainSession(p) \/ ReleaseMapping(p)
         PROVE  proc'[q] = proc[q]
    BY <1>6, <2>3, ComesBackToCount DEF GoTo
  <2>4. ASSUME NEW p \in Procs, CensusFails(p) \/ CleaningFails(p)
                               \/ CloseCleaned(p) \/ Reconcile(p) \/ Crash(p)
        PROVE  proc'[q] = proc[q]
    BY <1>6, <2>4 DEF CensusFails, CleaningFails, CloseCleaned, Reconcile, Crash, BeginCount,
       Rest
  <2>5. CASE Start
    BY <1>6, <2>5 DEF Start, BeginCount
  <2>6. CASE VolumeLost
    BY <1>6, <2>6 DEF VolumeLost
  <2>7. CASE TriageBegins \/ RecordWorktree
    <3>1. (\A p \in Procs \ {Daemon} : proc'[p] = proc[p])
            /\ proc'[Daemon].at \in {"post", "ask", "loop"}
      BY <2>7 DEF TriageBegins, RecordWorktree, Rest
    <3>. QED BY <1>6, <3>1
  <2>8. CASE Post
    BY <1>6, <2>8, PostedInHand
  <2>9. CASE Claim \/ Assemble \/ PostFails \/ PutMarker \/ InsertRow \/ MapTriage
             \/ AskTriage \/ TriageReplies
    <3>1. Rest(Daemon) \/ \E at \in {"assemble", "loop", "record", "insert", "map", "ask", "reply"} :
            GoTo(Daemon, at)
      BY <2>9 DEF Claim, Assemble, PostFails, PutMarker, InsertRow, MapTriage, AskTriage,
         TriageReplies
    <3>. QED BY <1>6, <3>1 DEF Rest, GoTo
  <2>10. CASE Relay \/ Observe \/ RelayHolds \/ ItemMoves \/ TimePasses \/ Remounted
             \/ (\E s \in Ids : TurnEnds(s) \/ SessionDeleted(s)) \/ UNCHANGED vars
    BY <2>10 DEF Relay, Observe, RelayHolds, ItemMoves, TimePasses, Remounted, TurnEnds,
       SessionDeleted, vars
  <2>. QED BY <1>6, <2>1, <2>2, <2>3, <2>4, <2>5, <2>6, <2>7, <2>8, <2>9, <2>10
           DEF Next, Loop, Pass
<1>. QED BY <1>1, <1>2, <1>3, <1>4, <1>5, <1>6

LEMMA CleaningHasRowStep ==
  ASSUME TypeOK, CleaningHasRow, [Next]_vars
  PROVE  CleaningHasRow'
<1>. DEFINE Cleaning == {"cleaning", "remove", "delete", "close"}
<1>1. ASSUME NEW q \in Procs \ Operators, proc'[q].at \in Cleaning
      PROVE  proc[q].at \in Cleaning \/ wrow # "none"
  BY <1>1, HandAtCleaning DEF RemoveDirectory, DeleteBranch, At
<1>. QED BY <1>1, WorktreeRowStays DEF CleaningHasRow

\* The item gets its session, over a worktree with a row of its own.
LEMMA EquippedBefore ==
  ASSUME TypeOK, HandHoldsSession, MadeAsAsked, RecordedWasMade, [Next]_vars, Equipped'
  PROVE  Equipped \/ RecordWorktree
<1>. USE HandsTyped, DaemonIsAProcess DEF Hands, Idle, At
<1>1. CASE Staffed'
  <2>1. PICK s \in Recorded' : kind'[s] = "resolution"
    BY <1>1 DEF Staffed
  <2>2. CASE s \in Recorded
    BY <2>1, <2>2, SessionsStay DEF Recorded, RecordedWasMade, Staffed, Equipped
  <2>3. CASE s \notin Recorded
    <3>1. InsertRow /\ s = proc[Daemon].id
      BY <2>1, <2>3, RowsStay
    <3>2. proc[Daemon].at = "insert" /\ kind' = kind
      BY <3>1 DEF InsertRow, sessions
    <3>. QED BY <2>1, <3>1, <3>2 DEF MadeAsAsked, Equipped
  <2>. QED BY <2>2, <2>3
<1>2. CASE proc'[Daemon].at \in {"post", "mark", "insert"} /\ proc'[Daemon].kind = "resolution"
  <2>1. CASE Post
    BY <1>2, <2>1, PostedInHand DEF Equipped
  <2>2. CASE PutMarker
    <3>1. GoTo(Daemon, "insert") /\ proc[Daemon].at = "mark"
      BY <2>2 DEF PutMarker
    <3>. QED BY <1>2, <3>1 DEF GoTo, Equipped
  <2>3. CASE TriageBegins
    BY <1>2, <2>3 DEF TriageBegins
  <2>4. CASE Claim \/ InsertRow \/ MapTriage \/ AskTriage
    <3>1. Rest(Daemon) \/ \E at \in {"assemble", "loop", "map", "ask", "reply"} : GoTo(Daemon, at)
      BY <2>4 DEF Claim, InsertRow, MapTriage, AskTriage
    <3>. QED BY <1>2, <3>1 DEF Rest, GoTo
  <2>. QED BY <1>2, <2>1, <2>2, <2>3, <2>4, HandStays DEF Equipped, Making
<1>. QED BY <1>1, <1>2 DEF Equipped

LEMMA RemovedStep ==
  ASSUME TypeOK, HandHoldsSession, MadeAsAsked, RecordedWasMade, AssemblyIsFirst, CleaningHasRow,
         RemovedStaysAway, [Next]_vars
  PROVE  RemovedStaysAway'
<1>. USE DEF At
<1>1. ASSUME Equipped', NEW q \in Procs \ Operators, proc'[q].at \in {"delete", "close"}
      PROVE  ~dir' /\ (proc'[q].at = "close" => ~branch')
  <2>1. ASSUME RecordWorktree
        PROVE  Equipped
    <3>1. wrow = "none" \/ Rest(Daemon)
      BY <2>1 DEF RecordWorktree
    <3>2. wrow # "none"
      BY <1>1, <2>1, HandAtCleaning DEF CleaningHasRow, RemoveDirectory, DeleteBranch
    <3>3. wrow = "none" \/ ~(proc'[Daemon].at \in {"post", "mark", "insert"})
      BY <3>1, HandsTyped, DaemonIsAProcess DEF Rest, Idle
    <3>4. Staffed'
      BY <1>1, <3>2, <3>3 DEF Equipped
    <3>5. srow' = srow /\ kind' = kind
      BY <2>1 DEF RecordWorktree, sessions
    <3>. QED BY <3>4, <3>5 DEF Staffed, Recorded, Equipped
  <2>2. CASE Equipped /\ ~Assemble
    <3>1. CASE RemoveDirectory(q)
      <4>1. dir' = FALSE /\ proc'[q].at = "delete"
        BY <3>1, HandsTyped DEF RemoveDirectory, GoTo, Hands
      <4>. QED BY <4>1
    <3>2. CASE DeleteBranch(q) /\ proc'[q].at = "close"
      <4>1. proc[q].at = "delete" /\ dir' = dir
        BY <3>2 DEF DeleteBranch
      <4>2. ~dir
        BY <2>2, <4>1 DEF RemovedStaysAway
      <4>3. branch' = FALSE
        BY <3>2, <4>2 DEF DeleteBranch
      <4>. QED BY <4>1, <4>2, <4>3
    <3>3. CASE proc[q].at = proc'[q].at
      <4>1. ~dir /\ (proc[q].at = "close" => ~branch)
        BY <1>1, <2>2, <3>3 DEF RemovedStaysAway
      <4>2. ~dir' /\ (~branch => ~branch')
        BY <2>2, <4>1, FilesStayAway
      <4>. QED BY <3>3, <4>1, <4>2
    <3>. QED BY <1>1, <3>1, <3>2, <3>3, HandAtCleaning
  <2>3. CASE Assemble
    <3>1. proc[Daemon].at = "assemble" /\ ~Staffed
      BY <2>3 DEF Assemble, AssemblyIsFirst
    <3>2. ~Equipped
      BY <3>1 DEF Equipped
    <3>. QED BY <1>1, <2>1, <3>2, EquippedBefore
  <2>. QED BY <1>1, <2>1, <2>2, <2>3, EquippedBefore
<1>2. ASSUME Equipped', NEW q \in Procs \ Operators
      PROVE  /\ proc'[q].at = "delete" => ~dir'
             /\ proc'[q].at = "close" => ~dir' /\ ~branch'
  BY <1>1, <1>2
<1>. QED BY <1>2 DEF RemovedStaysAway

-----------------------------------------------------------------------------
LEMMA InitIInv == Init => IInv
<1>. SUFFICES ASSUME Init PROVE IInv
  OBVIOUS
<1>. USE SessionsAssumption, DaemonIsAProcess DEF Init
<1>1. TypeOK
  <2>1. proc \in [Procs -> Hands]
    BY IdleIsAHand DEF Places
  <2>2. /\ server \in [Ids -> {"none", "idle", "busy", "gone"}]
        /\ kind \in [Ids -> Kinds \cup {"none"}]
        /\ srow \in [Ids -> {"none", "ACTIVE", "RETAINED"}]
    OBVIOUS
  <2>3. item \in WorkItemStates
    BY DEF WorkItemStates
  <2>4. faults \in 0 .. MaxFaults
    OBVIOUS
  <2>5. dir \in BOOLEAN /\ branch \in BOOLEAN /\ emptied \in BOOLEAN /\ mounted \in BOOLEAN
    OBVIOUS
  <2>6. /\ overdue = {} /\ owed = {} /\ marker = {} /\ aged = {}
        /\ triage = 0 /\ wrow = "none"
    OBVIOUS
  <2>. QED BY <2>1, <2>2, <2>3, <2>4, <2>5, <2>6 DEF TypeOK, Hands
<1>2. Recorded = {} /\ proc[Daemon].at = "down"
  BY DEF Recorded, Idle
<1>3. /\ RunsOnTheVolume /\ HandHoldsSession /\ MadeIsMarked /\ MarkedIsRecorded /\ MadeAsAsked
      /\ MappedIsRecorded /\ BusyIsRecorded /\ RecordedWasMade /\ AssemblyIsFirst
      /\ AssemblyStaysFirst /\ OneSession
  BY <1>2 DEF RunsOnTheVolume, HandHoldsSession, MadeIsMarked, MarkedIsRecorded, MadeAsAsked,
     MappedIsRecorded, BusyIsRecorded, RecordedWasMade, AssemblyIsFirst, AssemblyStaysFirst,
     OneSession, At
<1>4. \A p \in Procs : proc[p].at \in {"down", "off"} /\ \A s \in Ids : proc[p].seen[s] = "none"
  BY DEF Idle
<1>5. RetainedIsThrough /\ CleaningHasRow /\ RemovedStaysAway
  BY <1>4 DEF RetainedIsThrough, CleaningHasRow, RemovedStaysAway, At
<1>6. WorkIsModerated /\ MappedTriageIsPromptable
  BY DEF WorkIsModerated, MappedTriageIsPromptable
<1>. QED BY <1>1, <1>3, <1>5, <1>6 DEF IInv

\* IInv is inductive.
LEMMA Inductive == Spec => []IInv
<1>1. IInv /\ [Next]_vars => IInv'
  BY TypeStep, VolumeStep, HandHoldsStep, MadeIsMarkedStep, MarkedIsRecordedStep, MadeAsAskedStep,
     MappedIsRecordedStep, BusyIsRecordedStep, RecordedWasMadeStep, ThroughStep, AssemblyStep,
     AssemblyGoesOnStep, OneSessionStep, CleaningHasRowStep, RemovedStep, ModeratedStep,
     PromptableStep DEF IInv
<1>. QED BY <1>1, InitIInv, PTL DEF Spec

-----------------------------------------------------------------------------
\* Sessions, rows, markers and what a process has in its hand are values the code gives
\* them; a turn that has run for too long is a turn.
THEOREM TypeCorrect == Spec => []TypeOK
<1>1. IInv => TypeOK
  BY DEF IInv
<1>. QED BY <1>1, Inductive, PTL

\* A session with a turn has its marker where the plugin looks for it, over crashes of
\* createRealSession at every step, prunes at start and the loss of the volume
\* (assertRegistryMount, promptAsync, promptTriage).
THEOREM WorkIsAlwaysModerated == Spec => []WorkIsModerated
<1>1. IInv => WorkIsModerated
  BY DEF IInv
<1>. QED BY <1>1, Inductive, PTL

\* The session a repository's triage is mapped to kept its marker, unless the volume was
\* lost: updateTriageState comes after the marker and the row.
THEOREM TriageStaysPromptable == Spec => []MappedTriageIsPromptable
<1>1. IInv => MappedTriageIsPromptable
  BY DEF IInv
<1>. QED BY <1>1, Inductive, PTL

\* There is one resolution session to an item and never a second, whatever crash interrupts
\* its assembly and however often it is claimed again (ensureResolutionAssembly,
\* createWorktree, insertWorktree).
THEOREM OneSessionPerItem == Spec => []OneSession
<1>1. IInv => OneSession
  BY DEF IInv
<1>. QED BY <1>1, Inductive, PTL

\* CLEANED is recorded for an item with a session only when its directory and its branch
\* are gone, whoever cleans up beside (cleanupTerminalLeftovers, cleanupOperation).
THEOREM CleanedMeansGone == Spec => CleanedIsGone
<1>1. ASSUME IInv, [Next]_vars, wrow # "CLEANED", wrow' = "CLEANED",
             \E s \in Recorded : kind[s] = "resolution"
      PROVE  ~dir /\ ~branch
  <2>1. PICK p \in Procs : CloseCleaned(p) /\ p \notin Operators
    <3>1. ASSUME ~(\E p \in Procs : CloseCleaned(p))
          PROVE  wrow' \in {wrow, "ACTIVE", "CLEANING"}
      BY <1>1, <3>1 DEF Next, Loop, Pass, Start, Claim, Assemble, RecordWorktree, Post,
         PostFails, PutMarker, InsertRow, MapTriage, TriageBegins, AskTriage, TriageReplies,
         Relay, Observe, RelayHolds, Status, CensusFails, Recover, HoldOwner, RetainSession,
         ReleaseMapping, List, BeginCleaning, RemoveDirectory, DeleteBranch, CleaningFails,
         Reconcile, Cleanup, Crash, ItemMoves, TimePasses, VolumeLost, Remounted, TurnEnds,
         SessionDeleted, rows, vars
    <3>2. \A p \in Procs : CloseCleaned(p) /\ p \in Operators => wrow' = wrow
      BY DEF CloseCleaned
    <3>. QED BY <1>1, <3>1, <3>2
  <2>2. Equipped /\ At(p, "close")
    BY <1>1, <2>1 DEF Equipped, Staffed, CloseCleaned
  <2>. QED BY <1>1, <2>1, <2>2 DEF IInv, RemovedStaysAway
<1>2. IInv /\ [Next]_vars => [wrow # "CLEANED" /\ wrow' = "CLEANED"
                               /\ (\E s \in Recorded : kind[s] = "resolution")
                                 => ~dir /\ ~branch]_vars
  BY <1>1
<1>. QED BY <1>2, Inductive, PTL DEF Spec, CleanedIsGone

=============================================================================
