------------------------------- MODULE Ingest -------------------------------
(***************************************************************************)
(* What Tissue knows of one repository on GitHub: the poll of the daemon   *)
(* (poll.ts), the transaction that stores a poll (ingest.ts), the explicit *)
(* `tissue enqueue' (enqueue.ts) and the housekeeping of events nobody     *)
(* will read (housekeeping.ts).                                            *)
(*                                                                         *)
(* A poll is several calls of gh, one after the other, and GitHub goes on  *)
(* changing between them; only the transaction at the end is one step.     *)
(* Time is counted in changes on GitHub: a change carries the time `clock' *)
(* and moves it on.                                                        *)
(***************************************************************************)
EXTENDS Naturals, FiniteSets, TissueTables

CONSTANTS
    Issues,      \* numbers of the repository's issues, oldest first
    Old,         \* those created before the repository's baseline
    NeedLabel,   \* whether the configuration names labels
    Worked,      \* the issue whose work item has the branch pull requests come from
    Pulls,       \* numbers of pull requests on that branch, oldest first
    Facts,       \* what a pull request may show: a red check, a review, a conflict
    ListLimit,   \* how many issues or pull requests one call of gh lists (100)
    MaxTime,     \* bound: changes on GitHub
    MaxFaults    \* bound: polls that fail

ASSUME IngestAssumption ==
    /\ Issues \subseteq Nat
    /\ Old \subseteq Issues
    /\ \A i \in Old, j \in Issues \ Old : i < j
    /\ NeedLabel \in BOOLEAN
    /\ Worked \in Issues \ Old
    /\ Pulls \subseteq Nat
    /\ ListLimit \in Nat \ {0}
    /\ MaxTime \in Nat \ {0}
    /\ MaxFaults \in Nat

VARIABLES
    clock,      \* GitHub's time
    issue,      \* GitHub's issues: when last updated (0: not there yet), label, comments
    pull,       \* GitHub's pull requests on the branch of Worked's item
    row,        \* the rows of table issues: state ("none" without a row) and snapshot
    attached,   \* issues with an ACTIVE row in issue_work_items
    pullRow,    \* the rows of table pull_requests: state, "none" without a row
    inbox,      \* the rows of table inbox
    watermark,  \* repositories.poll_watermark
    poll,       \* how far the daemon's poll is, and what it has read
    faults      \* polls that failed so far

github == <<clock, issue, pull>>
tables == <<row, attached, pullRow, inbox, watermark>>
vars == <<github, tables, poll, faults>>

Times == 0 .. MaxTime

IssueStates == {"none", "BASELINE_EXCLUDED", "NEW", "TRIAGE_PENDING", "READY",
                "REJECTED"}

\* Identities of events (event_key): an issue's version, a comment, a pull
\* request's head and state, something observed of a pull request.
IssueKeys == {"issue"} \X Issues \X Times
CommentKeys == {"comment"} \X Issues \X Times
PullKeys == {"pull"} \X Pulls \X Times \X {"ACTIVE", "CLOSED"}
FactKeys == {"fact"} \X Pulls \X Facts

InboxRows == [key : IssueKeys \cup CommentKeys \cup PullKeys \cup FactKeys,
              issue : Issues, item : BOOLEAN, state : {"PENDING", "TERMINAL"}]

Idle == [step |-> "idle", since |-> 0, issues |-> {}, pulls |-> {},
         facts |-> {}, comments |-> {}]

TypeOK ==
    /\ clock \in Times
    /\ issue \in [Issues -> [updated : Times, label : BOOLEAN, comments : SUBSET Times]]
    /\ pull \in [Pulls -> [updated : Times, head : Times, facts : SUBSET Facts,
                           state : {"none", "ACTIVE", "CLOSED"}, foreign : BOOLEAN]]
    /\ row \in [Issues -> [state : IssueStates, hash : Times]]
    /\ attached \subseteq Issues
    /\ pullRow \in [Pulls -> {"none", "ACTIVE", "CLOSED", "ROGUE"}]
    /\ inbox \subseteq InboxRows
    /\ watermark \in Times
    /\ poll \in [step : {"idle", "pulls", "details", "ingest"}, since : Times,
                 issues : SUBSET [id : Issues, hash : Times, label : BOOLEAN],
                 pulls : SUBSET [id : Pulls, head : Times, state : {"ACTIVE", "CLOSED"},
                                 foreign : BOOLEAN],
                 facts : SUBSET (Pulls \X Facts), comments : SUBSET (Issues \X Times)]
    /\ faults \in 0 .. MaxFaults

Init ==
    /\ clock = 1
    /\ issue = [i \in Issues |-> [updated |-> IF i \in Old THEN 1 ELSE 0,
                                  label |-> TRUE, comments |-> {}]]
    /\ pull = [p \in Pulls |-> [updated |-> 0, head |-> 0, facts |-> {},
                                state |-> "none", foreign |-> FALSE]]
    /\ row = [i \in Issues |-> [state |-> "none", hash |-> 0]]
    /\ attached = {}
    /\ pullRow = [p \in Pulls |-> "none"]
    /\ inbox = {}
    /\ watermark = 0
    /\ poll = Idle
    /\ faults = 0

(***************************************************************************)
(* GitHub.                                                                 *)
(***************************************************************************)
TimePasses == clock < MaxTime /\ clock' = clock + 1

\* An issue is opened, with the next number, or edited, its labels too.
EditIssue(i) ==
    /\ \A j \in Issues : j < i => issue[j].updated > 0
    /\ TimePasses
    /\ \E l \in BOOLEAN : issue' = [issue EXCEPT ![i].updated = clock, ![i].label = l]
    /\ UNCHANGED <<pull, tables, poll, faults>>

\* A comment updates its issue.
CommentOn(i) ==
    /\ issue[i].updated > 0
    /\ TimePasses
    /\ issue' = [issue EXCEPT ![i].updated = clock, ![i].comments = @ \cup {clock}]
    /\ UNCHANGED <<pull, tables, poll, faults>>

\* A pull request is opened from the branch (a second one after the first is closed,
\* or against another base), or from a fork's branch of that name.
OpenPull(p) ==
    /\ Worked \in attached
    /\ pull[p].state = "none"
    /\ \A q \in Pulls : q < p => pull[q].state # "none"
    /\ TimePasses
    /\ \E f \in BOOLEAN :
          pull' = [pull EXCEPT ![p] = [updated |-> clock, head |-> clock, facts |-> {},
                                       state |-> "ACTIVE", foreign |-> f]]
    /\ UNCHANGED <<issue, tables, poll, faults>>

\* A push; what the checks, reviews and the base say of the head; the end.
Push(p) == pull' = [pull EXCEPT ![p].updated = clock, ![p].head = clock]

Show(p) == \E fs \in SUBSET Facts : pull' = [pull EXCEPT ![p].updated = clock, ![p].facts = fs]

Close(p) == pull' = [pull EXCEPT ![p].updated = clock, ![p].state = "CLOSED"]

ChangePull(p) ==
    /\ pull[p].state = "ACTIVE"
    /\ TimePasses
    /\ Push(p) \/ Show(p) \/ Close(p)
    /\ UNCHANGED <<issue, tables, poll, faults>>

(***************************************************************************)
(* The poll (pollRepository): three rounds of gh calls, nothing written.   *)
(***************************************************************************)
\* Mutant of After: a change in the second of the last poll is lost.
AfterStrictly(t, w) == w = 0 \/ t > w

\* after(updatedAt, watermark)
After(t, w) == t >= w

\* Mutant of Newest: the list begins with the oldest.
Oldest(numbers) ==
    {n \in numbers : Cardinality({m \in numbers : m < n}) < ListLimit}

\* `gh issue list' and `gh pr list' with --limit: the newest, in order of creation,
\* whenever they changed last.
Newest(numbers) ==
    {n \in numbers : Cardinality({m \in numbers : m > n}) < ListLimit}

ListedIssues == Newest({i \in Issues : issue[i].updated > 0})

ListedPulls == Newest({p \in Pulls : pull[p].state # "none"})

\* The list of issues; of these, the ones updated since the watermark are kept.
ReadIssues ==
    /\ poll.step = "idle"
    /\ poll' = [Idle EXCEPT !.step = "pulls", !.since = watermark,
                  !.issues = {[id |-> i, hash |-> issue[i].updated, label |-> issue[i].label] :
                                i \in {j \in ListedIssues : After(issue[j].updated, watermark)}}]
    /\ UNCHANGED <<github, tables, faults>>

\* The list of pull requests, limited and filtered in the same way.  Those of other
\* branches, which take up places of the list as well, are left out.
ReadPulls ==
    /\ poll.step = "pulls"
    /\ poll' = [poll EXCEPT !.step = "details",
                  !.pulls = {[id |-> p, head |-> pull[p].head, state |-> pull[p].state,
                              foreign |-> pull[p].foreign] :
                               p \in {q \in ListedPulls : After(pull[q].updated, poll.since)}}]
    /\ UNCHANGED <<github, tables, faults>>

\* Checks, reviews, conflicts and comments of what the two lists kept.
ReadDetails ==
    /\ poll.step = "details"
    /\ poll' = [poll EXCEPT !.step = "ingest",
                  !.facts = {f \in {q.id : q \in poll.pulls} \X Facts : f[2] \in pull[f[1]].facts},
                  !.comments = {c \in {s.id : s \in poll.issues} \X Times :
                                  c[2] \in issue[c[1]].comments}]
    /\ UNCHANGED <<github, tables, faults>>

\* A gh call fails, or the daemon dies: nothing of the poll is stored.
PollFails ==
    /\ poll.step # "idle"
    /\ faults < MaxFaults
    /\ poll' = Idle
    /\ faults' = faults + 1
    /\ UNCHANGED <<github, tables>>

(***************************************************************************)
(* The transaction (ingestSnapshot).                                       *)
(***************************************************************************)
\* admitIssue without an explicit enqueue
Admitted(s) == s.id \notin Old /\ (NeedLabel => s.label)

\* upsertIssueFromSnapshot: a new row gets the state, one that is there keeps its own.
Upserted(s, state) ==
    [state |-> IF row[s.id].state = "none" THEN state ELSE row[s.id].state,
     hash |-> s.hash]

\* The row of an issue after the transaction.
IssueAfter(s) ==
    LET known == row[s.id].state IN
    IF known = "NEW" \/ (known = "none" /\ Admitted(s))
      THEN [Upserted(s, "NEW") EXCEPT !.state = "TRIAGE_PENDING"]
    ELSE IF known = "none" THEN Upserted(s, "BASELINE_EXCLUDED")
    ELSE IF Admitted(s) THEN Upserted(s, known)
    ELSE row[s.id]

\* Mutant of Reported: an enqueued issue is scheduled without an event.
ReportedWhenSeen(s) ==
    /\ Admitted(s)
    /\ row[s.id].state # "BASELINE_EXCLUDED"
    /\ row[s.id].state = "none" \/ row[s.id].hash # s.hash

\* Whether it gets an issue_discovered or issue_updated event.
Reported(s) ==
    \/ row[s.id].state = "NEW"
    \/ /\ Admitted(s)
       /\ row[s.id].state # "BASELINE_EXCLUDED"
       /\ row[s.id].state = "none" \/ row[s.id].hash # s.hash

\* The controller's own pull requests: a fork's is stored as ROGUE and linked to nothing.
Linked == {q \in poll.pulls : Worked \in attached /\ ~q.foreign}

\* mapPrState, and ROGUE for a foreign head
PullAfter(q) == IF q.foreign THEN "ROGUE" ELSE q.state

\* Two rows of one item are ACTIVE at once in the order gh lists them, newest
\* first: ux_pr_one_active refuses the second, and with it the transaction.
PullsCollide ==
    \E p \in {q \in poll.pulls : Worked \in attached /\ PullAfter(q) = "ACTIVE"} :
        \E o \in Pulls \ {p.id} :
            LET newer == {q \in poll.pulls : q.id = o /\ o > p.id} IN
            IF newer = {} THEN pullRow[o] = "ACTIVE"
                          ELSE \E q \in newer : PullAfter(q) = "ACTIVE"

Event(k, i) == [key |-> k, issue |-> i, item |-> i \in attached, state |-> "PENDING"]

\* What the snapshot reports, as new rows.
Reports ==
    {Event(<<"issue", s.id, s.hash>>, s.id) : s \in {x \in poll.issues : Reported(x)}}
      \cup {Event(<<"comment", c[1], c[2]>>, c[1]) : c \in poll.comments}
      \cup {Event(<<"pull", q.id, q.head, q.state>>, Worked) : q \in Linked}
      \cup {Event(<<"fact", f[1], f[2]>>, Worked) :
              f \in {g \in poll.facts : \E q \in Linked : q.id = g[1]}}

\* Mutant of Inserted: event_key is not unique.
InsertedAgain(rows, new) == rows \cup new

\* insertInboxEventIfAbsent: the first row with an event_key stays.
Inserted(rows, new) == rows \cup {e \in new : \A r \in rows : r.key # e.key}

\* Mutant of Reparented: without the guard on terminal_action.
ReparentedAll(rows, is) ==
    {IF r.issue \in is /\ ~r.item THEN [r EXCEPT !.item = TRUE] ELSE r : r \in rows}

\* reparentInboxByIssue: rows without an item get it, those marked terminal never.
Reparented(rows, is) ==
    {IF r.issue \in is /\ ~r.item /\ r.state # "TERMINAL" THEN [r EXCEPT !.item = TRUE] ELSE r :
        r \in rows}

Ingest ==
    /\ poll.step = "ingest"
    /\ ~PullsCollide
    /\ row' = [i \in Issues |->
                 IF \E s \in poll.issues : s.id = i
                   THEN IssueAfter(CHOOSE s \in poll.issues : s.id = i)
                   ELSE row[i]]
    /\ pullRow' = [p \in Pulls |->
                     IF Worked \in attached /\ \E q \in poll.pulls : q.id = p
                       THEN PullAfter(CHOOSE q \in poll.pulls : q.id = p)
                       ELSE pullRow[p]]
    /\ inbox' = Reparented(Inserted(inbox, Reports),
                           attached \cap {s.id : s \in {x \in poll.issues :
                                             row[x.id].state = "NEW" \/ Admitted(x)}})
    /\ watermark' = clock
    /\ poll' = Idle
    /\ UNCHANGED <<github, attached, faults>>

\* The transaction throws and is rolled back; the pass records the error and goes on.
IngestRollsBack ==
    /\ poll.step = "ingest"
    /\ PullsCollide
    /\ poll' = Idle
    /\ UNCHANGED <<github, tables, faults>>

(***************************************************************************)
(* Other writers of these tables.                                          *)
(***************************************************************************)
\* `tissue enqueue' (enqueueIssue)
Enqueue(i) ==
    /\ row[i].state = "BASELINE_EXCLUDED"
    /\ row' = [row EXCEPT ![i].state = "NEW"]
    /\ UNCHANGED <<github, attached, pullRow, inbox, watermark, poll, faults>>

\* Mutant of TriageReady: attaches without reparenting.
TriageReadyOnly(i) ==
    /\ row[i].state = "TRIAGE_PENDING"
    /\ row' = [row EXCEPT ![i].state = "READY"]
    /\ attached' = attached \cup {i}
    /\ UNCHANGED <<github, pullRow, watermark, poll, faults, inbox>>

\* The triage pump disposes of an issue; READY creates and attaches its work item.
TriageReady(i) ==
    /\ row[i].state = "TRIAGE_PENDING"
    /\ row' = [row EXCEPT ![i].state = "READY"]
    /\ attached' = attached \cup {i}
    /\ inbox' = Reparented(inbox, {i})
    /\ UNCHANGED <<github, pullRow, watermark, poll, faults>>

\* REJECTED stands for DUPLICATE without a canonical item as well.
TriageDrops(i) ==
    /\ row[i].state = "TRIAGE_PENDING"
    /\ row' = [row EXCEPT ![i].state = "REJECTED"]
    /\ UNCHANGED <<github, attached, pullRow, inbox, watermark, poll, faults>>

\* P5 of a reconcile pass (housekeepTerminalUnattachedInbox)
Unread == {r \in inbox : /\ ~r.item
                         /\ r.state # "TERMINAL"
                         /\ row[r.issue].state \in {"REJECTED", "BASELINE_EXCLUDED"}}

Housekeep ==
    /\ Unread # {}
    /\ inbox' = (inbox \ Unread) \cup {[r EXCEPT !.state = "TERMINAL"] : r \in Unread}
    /\ UNCHANGED <<github, row, attached, pullRow, watermark, poll, faults>>

-----------------------------------------------------------------------------
GitHub == (\E i \in Issues : EditIssue(i) \/ CommentOn(i)) \/ (\E p \in Pulls : OpenPull(p) \/ ChangePull(p))

Poll == ReadIssues \/ ReadPulls \/ ReadDetails \/ Ingest \/ IngestRollsBack

Next ==
    \/ GitHub
    \/ Poll
    \/ PollFails
    \/ \E i \in Issues : Enqueue(i) \/ TriageReady(i) \/ TriageDrops(i)
    \/ Housekeep

Spec == Init /\ [][Next]_vars

\* The daemon polls once in every pass, for as long as it runs.
LiveSpec == Spec /\ WF_vars(Poll)

-----------------------------------------------------------------------------
Known(k) == \E r \in inbox : r.key = k

(***************************************************************************)
(* Whatever version of an admitted issue Tissue has stored, it has also    *)
(* reported, or the change suppression would swallow it for ever: the      *)
(* stored hash and the event are written by the same transaction.          *)
(***************************************************************************)
StoredIsReported ==
    \A i \in Issues : row[i].state \notin {"none", "BASELINE_EXCLUDED", "NEW"}
                         => Known(<<"issue", i, row[i].hash>>)

(***************************************************************************)
(* An event of an attached issue has the work item, so the relay finds it: *)
(* whether it came before the attachment, in a poll that was under way     *)
(* during it, or after it.                                                 *)
(***************************************************************************)
AttachedIsAddressed ==
    \A r \in inbox : r.issue \in attached /\ r.state = "PENDING" => r.item

(***************************************************************************)
(* One row per event_key, through polls that read the same state again,    *)
(* failed polls and housekeeping.                                          *)
(***************************************************************************)
ReportedOnce == \A r, s \in inbox : r.key = s.key => r = s

(***************************************************************************)
(* Housekeeping takes only events that have no way to an agent: a row it   *)
(* marked never gets a work item, whatever is enqueued or attached later.  *)
(***************************************************************************)
HousekeptStaysOut ==
    [][\A r \in inbox : r.state = "TERMINAL" => r \in inbox']_inbox

(***************************************************************************)
(* What changes while no poll is under way reaches the tables with the     *)
(* next good poll, or is overtaken by a later change, as long as the issue *)
(* is among the ListLimit newest: a list is cut off before the watermark   *)
(* is looked at (pollRepository).  A second pull request on the branch is  *)
(* excepted: it can stop the ingest (see PullsCollide).                    *)
(***************************************************************************)
Stored(i, t) ==
    \/ row[i].hash = t
    \/ issue[i].updated # t

QuietChange(i, t) ==
    /\ poll.step = "idle"
    /\ issue[i].updated = t
    /\ issue[i].label
    /\ t >= watermark

\* As many issues as a list has were opened after i.
OutOfReach(i) ==
    Cardinality({j \in Issues : j > i /\ issue[j].updated > 0}) >= ListLimit

QuietChangeIsStored ==
    \A i \in Issues \ Old, t \in 1 .. MaxTime :
        QuietChange(i, t)
            ~> \/ Stored(i, t)
               \/ OutOfReach(i)
               \/ \E p \in Pulls : p > 1 /\ pull[p].state # "none"

(***************************************************************************)
(* The same of every issue, however many were opened after it.  The code   *)
(* does not keep this.                                                     *)
(***************************************************************************)
OldIssuesAreReadToo ==
    \A i \in Issues \ Old, t \in 1 .. MaxTime :
        QuietChange(i, t)
            ~> Stored(i, t) \/ \E p \in Pulls : p > 1 /\ pull[p].state # "none"

(***************************************************************************)
(* poll.ts:6-8: the watermark only bounds volume.  Once a watermark has    *)
(* passed a change to an admitted issue, the change is stored.             *)
(***************************************************************************)
WatermarkOnlySkipsTheStored ==
    \A i \in Issues \ Old : row[i].state # "BASELINE_EXCLUDED" /\ issue[i].label
        /\ issue[i].updated > 0 /\ issue[i].updated < watermark
            => row[i].hash = issue[i].updated

(***************************************************************************)
(* ingest.ts:9-11: issues from before the baseline get events only after   *)
(* an explicit enqueue.                                                    *)
(***************************************************************************)
ExcludedIsSilent ==
    [][\A r \in inbox' : row'[r.issue].state = "BASELINE_EXCLUDED" => r \in inbox]_inbox

(***************************************************************************)
(* enqueue.ts:5-8: an explicit enqueue admits the issue into the pipeline. *)
(***************************************************************************)
EnqueuedIsTriaged == \A i \in Issues : row[i].state = "NEW" ~> row[i].state # "NEW"
=============================================================================
