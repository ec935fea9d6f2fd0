---------------------------- MODULE Ingest_proofs ----------------------------
(***************************************************************************)
(* Proofs about Ingest, for any issues and pull requests, any configured   *)
(* label and baseline, and any number of changes and failed polls.         *)
(*                                                                         *)
(* A poll may have read its parts at different times, and the tables may   *)
(* have changed since: all that relates it to GitHub and to the tables is  *)
(* that it is no younger than the one and no older than the other          *)
(* (ReadInOrder).  The three safety properties hold because of what the    *)
(* transaction compares at its end, and each is inductive with the types.  *)
(***************************************************************************)
EXTENDS Ingest, TLAPS

\* What a poll holds of an issue is as old as its row or younger, and GitHub's own is
\* younger still: nobody else stores versions, and one poll is over before the next.
ReadInOrder ==
    /\ watermark <= clock
    /\ \A i \in Issues : row[i].hash <= issue[i].updated /\ issue[i].updated <= clock
    /\ \A s \in poll.issues : row[s.id].hash <= s.hash /\ s.hash <= issue[s.id].updated

\* ingestSnapshot never puts an older version of an issue over a newer one, nor an older
\* watermark.
SnapshotsNeverGoBack ==
    [][/\ \A i \in Issues : row'[i].hash >= row[i].hash
       /\ watermark' >= watermark]_vars

IInv ==
    /\ TypeOK
    /\ ReadInOrder
    /\ StoredIsReported
    /\ AttachedIsAddressed
    /\ ReportedOnce

Polls == [step : {"idle", "pulls", "details", "ingest"}, since : Times,
          issues : SUBSET [id : Issues, hash : Times, label : BOOLEAN],
          pulls : SUBSET [id : Pulls, head : Times, state : {"ACTIVE", "CLOSED"},
                          foreign : BOOLEAN],
          facts : SUBSET (Pulls \X Facts), comments : SUBSET (Issues \X Times)]

Keys == IssueKeys \cup CommentKeys \cup PullKeys \cup FactKeys

\* The issue an event is about: its key says which, or it is of the one pull requests
\* are made for.
About(k) == IF k[1] \in {"issue", "comment"} THEN k[2] ELSE Worked

-----------------------------------------------------------------------------
(***************************************************************************)
(* The helpers.                                                            *)
(***************************************************************************)
\* A row as reparentInboxByIssue leaves it.
Addressed(r, is) ==
    IF r.issue \in is /\ ~r.item /\ r.state # "TERMINAL" THEN [r EXCEPT !.item = TRUE] ELSE r

\* It changes nothing but the work item, and nothing at all of a terminal row.
LEMMA AddressedRow ==
  ASSUME NEW r \in InboxRows, NEW is
  PROVE  /\ Addressed(r, is) \in InboxRows
         /\ Addressed(r, is).key = r.key
         /\ Addressed(r, is).issue = r.issue
         /\ Addressed(r, is).state = r.state
         /\ r.item => Addressed(r, is).item
         /\ r.issue \in is /\ r.state # "TERMINAL" => Addressed(r, is).item
         /\ r.state = "TERMINAL" => Addressed(r, is) = r
BY DEF Addressed, InboxRows

LEMMA ReparentedRows ==
  ASSUME NEW rows, NEW is
  PROVE  Reparented(rows, is) = {Addressed(r, is) : r \in rows}
BY DEF Reparented, Addressed

\* Reparenting keeps the identities, so it keeps what is known and what is unique.
LEMMA ReparentedKeeps ==
  ASSUME NEW rows \in SUBSET InboxRows, NEW is
  PROVE  /\ Reparented(rows, is) \in SUBSET InboxRows
         /\ \A r \in rows : \E s \in Reparented(rows, is) : s.key = r.key
         /\ \A r \in rows : r.state = "TERMINAL" => r \in Reparented(rows, is)
         /\ (\A r, s \in rows : r.key = s.key => r = s)
              => \A r, s \in Reparented(rows, is) : r.key = s.key => r = s
<1>1. Reparented(rows, is) = {Addressed(r, is) : r \in rows}
  BY ReparentedRows
<1>2. \A r \in rows : /\ Addressed(r, is) \in InboxRows
                      /\ Addressed(r, is).key = r.key
                      /\ r.state = "TERMINAL" => Addressed(r, is) = r
  BY AddressedRow
<1>. QED BY ONLY <1>1, <1>2

\* The events of a snapshot are rows, and their key determines them.
LEMMA ReportsAreRows ==
  ASSUME TypeOK
  PROVE  /\ Reports \in SUBSET InboxRows
         /\ \A e \in Reports : e.state = "PENDING" /\ e.item = (e.issue \in attached)
         /\ \A d, e \in Reports : d.key = e.key => d = e
<1>1. Worked \in Issues
  BY IngestAssumption
<1>2. ASSUME NEW k \in Keys, NEW i \in Issues
      PROVE  /\ Event(k, i) \in InboxRows
             /\ Event(k, i).state = "PENDING" /\ Event(k, i).key = k /\ Event(k, i).issue = i
             /\ Event(k, i).item = (i \in attached)
  <2>1. Event(k, i).item = (i \in attached)
    BY DEF Event
  <2>2. Event(k, i) \in InboxRows
    BY DEF Event, InboxRows, Keys
  <2>3. Event(k, i).key = k /\ Event(k, i).issue = i /\ Event(k, i).state = "PENDING"
    BY DEF Event
  <2>. QED BY <2>1, <2>2, <2>3
<1>3. ASSUME NEW e \in Reports
      PROVE  \E k \in Keys : e = Event(k, About(k)) /\ About(k) \in Issues
  <2>1. ASSUME NEW s \in poll.issues, e = Event(<<"issue", s.id, s.hash>>, s.id)
        PROVE  \E k \in Keys : e = Event(k, About(k)) /\ About(k) \in Issues
    <3>. DEFINE k == <<"issue", s.id, s.hash>>
    <3>1. s.id \in Issues /\ s.hash \in Times
      BY DEF TypeOK
    <3>2. k \in Keys /\ About(k) = s.id
      BY <3>1 DEF Keys, IssueKeys, About
    <3>. QED BY <2>1, <3>1, <3>2
  <2>2. ASSUME NEW c \in poll.comments, e = Event(<<"comment", c[1], c[2]>>, c[1])
        PROVE  \E k \in Keys : e = Event(k, About(k)) /\ About(k) \in Issues
    <3>. DEFINE k == <<"comment", c[1], c[2]>>
    <3>1. c[1] \in Issues /\ c[2] \in Times
      BY DEF TypeOK
    <3>2. k \in Keys /\ About(k) = c[1]
      BY <3>1 DEF Keys, CommentKeys, About
    <3>. QED BY <2>2, <3>1, <3>2
  <2>3. ASSUME NEW q \in Linked, e = Event(<<"pull", q.id, q.head, q.state>>, Worked)
        PROVE  \E k \in Keys : e = Event(k, About(k)) /\ About(k) \in Issues
    <3>. DEFINE k == <<"pull", q.id, q.head, q.state>>
    <3>1. q.id \in Pulls /\ q.head \in Times /\ q.state \in {"ACTIVE", "CLOSED"}
      BY DEF TypeOK, Linked
    <3>2. k \in Keys /\ About(k) = Worked
      BY <3>1 DEF Keys, PullKeys, About
    <3>. QED BY <1>1, <2>3, <3>2
  <2>4. ASSUME NEW f \in poll.facts, e = Event(<<"fact", f[1], f[2]>>, Worked)
        PROVE  \E k \in Keys : e = Event(k, About(k)) /\ About(k) \in Issues
    <3>. DEFINE k == <<"fact", f[1], f[2]>>
    <3>1. f[1] \in Pulls /\ f[2] \in Facts
      BY DEF TypeOK
    <3>2. k \in Keys /\ About(k) = Worked
      BY <3>1 DEF Keys, FactKeys, About
    <3>. QED BY <1>1, <2>4, <3>2
  <2>. QED BY <2>1, <2>2, <2>3, <2>4 DEF Reports
<1>4. ASSUME NEW e \in Reports
      PROVE  e \in InboxRows /\ e.state = "PENDING" /\ e.item = (e.issue \in attached)
  <2>1. PICK k \in Keys : e = Event(k, About(k)) /\ About(k) \in Issues
    BY <1>3
  <2>. QED BY <1>2, <2>1
<1>5. ASSUME NEW d \in Reports, NEW e \in Reports, d.key = e.key
      PROVE  d = e
  <2>1. PICK k \in Keys : d = Event(k, About(k)) /\ About(k) \in Issues
    BY <1>3
  <2>2. PICK l \in Keys : e = Event(l, About(l)) /\ About(l) \in Issues
    BY <1>3
  <2>3. k = l
    BY <1>2, <1>5, <2>1, <2>2
  <2>. QED BY <2>1, <2>2, <2>3
<1>. QED BY <1>4, <1>5

\* insertInboxEventIfAbsent: rows stay, every event is known, no key comes twice.
LEMMA InsertedRows ==
  ASSUME TypeOK, ReportedOnce
  PROVE  LET rows == Inserted(inbox, Reports) IN
         /\ rows \in SUBSET InboxRows
         /\ inbox \subseteq rows
         /\ \A r \in rows \ inbox : r.state = "PENDING" /\ r.item = (r.issue \in attached)
         /\ \A e \in Reports : \E r \in rows : r.key = e.key
         /\ \A r, s \in rows : r.key = s.key => r = s
BY ReportsAreRows DEF Inserted, TypeOK, ReportedOnce

-----------------------------------------------------------------------------
(***************************************************************************)
(* The conjuncts of IInv, step by step.                                    *)
(***************************************************************************)
LEMMA InitIInv == Init => IInv
<1> SUFFICES ASSUME Init PROVE IInv
  OBVIOUS
<1>1. TypeOK
  <2>1. poll \in Polls
    BY IngestAssumption DEF Init, Idle, Polls, Times
  <2>2. /\ clock \in Times /\ watermark \in Times /\ faults \in 0 .. MaxFaults
        /\ issue \in [Issues -> [updated : Times, label : BOOLEAN, comments : SUBSET Times]]
        /\ pull \in [Pulls -> [updated : Times, head : Times, facts : SUBSET Facts,
                               state : {"none", "ACTIVE", "CLOSED"}, foreign : BOOLEAN]]
    BY IngestAssumption DEF Init, Times
  <2>3. /\ row \in [Issues -> [state : IssueStates, hash : Times]]
        /\ attached \subseteq Issues /\ inbox \subseteq InboxRows
        /\ pullRow \in [Pulls -> {"none", "ACTIVE", "CLOSED", "ROGUE"}]
    BY IngestAssumption DEF Init, Times, IssueStates
  <2>. QED BY <2>1, <2>2, <2>3 DEF TypeOK, Polls
<1>2. StoredIsReported /\ AttachedIsAddressed /\ ReportedOnce
  BY DEF Init, StoredIsReported, AttachedIsAddressed, ReportedOnce
<1>3. ReadInOrder
  BY DEF Init, Idle, ReadInOrder
<1>. QED BY <1>1, <1>2, <1>3 DEF IInv

\* A list of gh holds nothing that is not on GitHub.
LEMMA ListsHoldWhatIsThere ==
  /\ ListedIssues \subseteq Issues
  /\ \A p \in ListedPulls : p \in Pulls /\ pull[p].state # "none"
BY DEF ListedIssues, ListedPulls, Newest

\* The rows the transaction writes are rows.
LEMMA IngestedRows ==
  ASSUME TypeOK, Ingest
  PROVE  /\ row' \in [Issues -> [state : IssueStates, hash : Times]]
         /\ pullRow' \in [Pulls -> {"none", "ACTIVE", "CLOSED", "ROGUE"}]
<1>1. ASSUME NEW s \in poll.issues
      PROVE  IssueAfter(s) \in [state : IssueStates, hash : Times]
  <2>1. s.id \in Issues /\ s.hash \in Times
    BY DEF TypeOK
  <2>2. ASSUME NEW t \in IssueStates PROVE Upserted(s, t) \in [state : IssueStates, hash : Times]
    BY <2>1, <2>2 DEF Upserted, TypeOK
  <2>3. row[s.id] \in [state : IssueStates, hash : Times]
    BY <2>1 DEF TypeOK
  <2>. QED BY <2>2, <2>3 DEF IssueAfter, IssueStates
<1>2. ASSUME NEW q \in poll.pulls
      PROVE  PullAfter(q) \in {"none", "ACTIVE", "CLOSED", "ROGUE"}
  BY DEF PullAfter, TypeOK
<1>. QED BY <1>1, <1>2 DEF Ingest, TypeOK

\* Every step keeps the values in their sets.
LEMMA TypeStep ==
  ASSUME TypeOK, ReportedOnce, [Next]_vars
  PROVE  TypeOK'
<1>. USE DEF TypeOK
<1>0. MaxTime \in Nat \ {0} /\ MaxFaults \in Nat
  BY IngestAssumption
<1>a. ASSUME TimePasses PROVE clock' \in Times
  BY <1>0, <1>a DEF TimePasses, Times
<1>b. Idle \in Polls
  BY <1>0 DEF Idle, Polls, Times
<1>1. ASSUME NEW i \in Issues, EditIssue(i) \/ CommentOn(i)
      PROVE  TypeOK'
  <2>1. issue' \in [Issues -> [updated : Times, label : BOOLEAN, comments : SUBSET Times]]
    <3>. DEFINE m == [issue EXCEPT ![i].updated = clock]
    <3>m. m \in [Issues -> [updated : Times, label : BOOLEAN, comments : SUBSET Times]]
      <4>1. /\ issue \in [Issues -> [updated : Times, label : BOOLEAN, comments : SUBSET Times]]
            /\ clock \in Times
        OBVIOUS
      <4>. QED BY ONLY <4>1, i \in Issues
    <3>n. ASSUME EditIssue(i)
          PROVE  \E l \in BOOLEAN : issue' = [m EXCEPT ![i].label = l]
      <4>1. PICK l \in BOOLEAN : issue' = [issue EXCEPT ![i].updated = clock, ![i].label = l]
        BY <3>n DEF EditIssue
      <4>. QED BY <4>1
    <3>o. ASSUME CommentOn(i)
          PROVE  issue' = [m EXCEPT ![i].comments = @ \cup {clock}]
      BY <3>o DEF CommentOn
    <3>. HIDE DEF m
    <3>c. clock \in Times
      OBVIOUS
    <3>1. CASE EditIssue(i)
      <4>1. PICK l \in BOOLEAN : issue' = [m EXCEPT ![i].label = l]
        BY <3>1, <3>n
      <4>. QED BY ONLY <4>1, <3>m, i \in Issues
    <3>2. CASE CommentOn(i)
      <4>1. issue' = [m EXCEPT ![i].comments = @ \cup {clock}]
        BY <3>2, <3>o
      <4>2. m[i].comments \cup {clock} \in SUBSET Times
        BY ONLY <3>m, <3>c, i \in Issues
      <4>. QED BY ONLY <4>1, <4>2, <3>m, i \in Issues
    <3>. QED BY <1>1, <3>1, <3>2
  <2>2. TimePasses /\ UNCHANGED <<pull, tables, poll, faults>>
    BY <1>1 DEF EditIssue, CommentOn
  <2>. QED BY <1>a, <2>1, <2>2 DEF tables
<1>2. ASSUME NEW p \in Pulls, OpenPull(p) \/ ChangePull(p)
      PROVE  TypeOK'
  <2>1. pull' \in [Pulls -> [updated : Times, head : Times, facts : SUBSET Facts,
                             state : {"none", "ACTIVE", "CLOSED"}, foreign : BOOLEAN]]
    <3>1. CASE OpenPull(p)
      BY <3>1 DEF OpenPull
    <3>. DEFINE m == [pull EXCEPT ![p].updated = clock]
    <3>m. m \in [Pulls -> [updated : Times, head : Times, facts : SUBSET Facts,
                           state : {"none", "ACTIVE", "CLOSED"}, foreign : BOOLEAN]]
      <4>1. /\ pull \in [Pulls -> [updated : Times, head : Times, facts : SUBSET Facts,
                                   state : {"none", "ACTIVE", "CLOSED"}, foreign : BOOLEAN]]
            /\ clock \in Times
        OBVIOUS
      <4>. QED BY ONLY <4>1, p \in Pulls
    <3>n. /\ Push(p) => pull' = [m EXCEPT ![p].head = clock]
          /\ Show(p) => \E fs \in SUBSET Facts : pull' = [m EXCEPT ![p].facts = fs]
          /\ Close(p) => pull' = [m EXCEPT ![p].state = "CLOSED"]
      BY DEF Push, Show, Close
    <3>. HIDE DEF m
    <3>c. clock \in Times
      OBVIOUS
    <3>2. CASE Push(p)
      BY ONLY <3>2, <3>m, <3>n, <3>c, p \in Pulls
    <3>3. CASE Show(p)
      <4>1. PICK fs \in SUBSET Facts : pull' = [m EXCEPT ![p].facts = fs]
        BY <3>3, <3>n
      <4>. QED BY ONLY <4>1, <3>m, p \in Pulls
    <3>4. CASE Close(p)
      BY ONLY <3>4, <3>m, <3>n, p \in Pulls
    <3>. QED BY <1>2, <3>1, <3>2, <3>3, <3>4 DEF ChangePull
  <2>. QED BY <1>2, <1>a, <2>1 DEF OpenPull, ChangePull, tables
<1>3. CASE ReadIssues
  <2>1. poll' \in Polls
    <3>. DEFINE kept == {[id |-> i, hash |-> issue[i].updated, label |-> issue[i].label] :
                           i \in {j \in ListedIssues : After(issue[j].updated, watermark)}}
    <3>1. kept \in SUBSET [id : Issues, hash : Times, label : BOOLEAN]
      BY ListsHoldWhatIsThere
    <3>2. poll' = [Idle EXCEPT !.step = "pulls", !.since = watermark, !.issues = kept]
      BY <1>3 DEF ReadIssues
    <3>. HIDE DEF kept
    <3>. QED BY <1>b, <3>1, <3>2 DEF Polls
  <2>. QED BY <1>3, <2>1 DEF ReadIssues, github, tables, Polls
<1>4. CASE ReadPulls
  <2>1. poll' \in Polls
    <3>. DEFINE kept == {[id |-> p, head |-> pull[p].head, state |-> pull[p].state,
                          foreign |-> pull[p].foreign] :
                           p \in {q \in ListedPulls : After(pull[q].updated, poll.since)}}
    <3>1. kept \in SUBSET [id : Pulls, head : Times, state : {"ACTIVE", "CLOSED"},
                           foreign : BOOLEAN]
      <4>1. ASSUME NEW p \in ListedPulls
            PROVE  /\ p \in Pulls
                   /\ pull[p].head \in Times
                   /\ pull[p].state \in {"ACTIVE", "CLOSED"}
                   /\ pull[p].foreign \in BOOLEAN
        BY <4>1, ListsHoldWhatIsThere
      <4>. QED BY <4>1
    <3>2. poll' = [poll EXCEPT !.step = "details", !.pulls = kept]
      BY <1>4 DEF ReadPulls
    <3>. HIDE DEF kept
    <3>. QED BY <3>1, <3>2 DEF Polls
  <2>. QED BY <1>4, <2>1 DEF ReadPulls, github, tables, Polls
<1>5. CASE ReadDetails
  <2>1. poll' \in Polls
    <3>. DEFINE fs == {f \in {q.id : q \in poll.pulls} \X Facts : f[2] \in pull[f[1]].facts}
                cs == {c \in {s.id : s \in poll.issues} \X Times : c[2] \in issue[c[1]].comments}
    <3>1. fs \in SUBSET (Pulls \X Facts) /\ cs \in SUBSET (Issues \X Times)
      OBVIOUS
    <3>2. poll' = [poll EXCEPT !.step = "ingest", !.facts = fs, !.comments = cs]
      BY <1>5 DEF ReadDetails
    <3>. HIDE DEF fs, cs
    <3>. QED BY <3>1, <3>2 DEF Polls
  <2>. QED BY <1>5, <2>1 DEF ReadDetails, github, tables, Polls
<1>6. CASE Ingest
  <2>1. inbox' \subseteq InboxRows
    BY <1>6, InsertedRows, ReparentedKeeps DEF Ingest
  <2>. QED BY <1>b, <1>6, <2>1, IngestedRows DEF Ingest, github, Polls
<1>7. CASE IngestRollsBack \/ PollFails
  <2>1. faults' \in 0 .. MaxFaults
    BY <1>0, <1>7 DEF IngestRollsBack, PollFails
  <2>2. poll' = Idle /\ UNCHANGED <<github, tables>>
    BY <1>7 DEF IngestRollsBack, PollFails
  <2>. QED BY <1>b, <2>1, <2>2 DEF github, tables, Polls
<1>8. ASSUME NEW i \in Issues, Enqueue(i) \/ TriageDrops(i)
      PROVE  TypeOK'
  <2>1. row' \in [Issues -> [state : IssueStates, hash : Times]]
    <3>1. row' = [row EXCEPT ![i].state = "NEW"] \/ row' = [row EXCEPT ![i].state = "REJECTED"]
      BY <1>8 DEF Enqueue, TriageDrops
    <3>2. row \in [Issues -> [state : IssueStates, hash : Times]]
      OBVIOUS
    <3>. QED BY ONLY <3>1, <3>2 DEF IssueStates
  <2>2. UNCHANGED <<github, attached, pullRow, inbox, watermark, poll, faults>>
    BY <1>8 DEF Enqueue, TriageDrops
  <2>. QED BY <2>1, <2>2 DEF github
<1>9. ASSUME NEW i \in Issues, TriageReady(i)
       PROVE  TypeOK'
  <2>1. inbox' \subseteq InboxRows
    BY <1>9, ReparentedKeeps DEF TriageReady
  <2>2. row' \in [Issues -> [state : IssueStates, hash : Times]]
    BY <1>9 DEF TriageReady, IssueStates
  <2>. QED BY <1>9, <2>1, <2>2 DEF TriageReady, github
<1>10. CASE Housekeep
  <2>1. \A r \in InboxRows : [r EXCEPT !.state = "TERMINAL"] \in InboxRows
    BY DEF InboxRows
  <2>2. inbox' \subseteq InboxRows
    BY <1>10, <2>1 DEF Housekeep, Unread
  <2>. QED BY <1>10, <2>2 DEF Housekeep, github
<1>11. CASE UNCHANGED vars
  BY <1>11, Zenon DEF vars, github, tables
<1>. QED BY <1>1, <1>2, <1>3, <1>4, <1>5, <1>6, <1>7, <1>8, <1>9, <1>10, <1>11
         DEF Next, GitHub, Poll

\* The transaction reparents what it has inserted, for issues that are attached.
LEMMA IngestedInbox ==
  ASSUME Ingest
  PROVE  \E is \in SUBSET attached : inbox' = Reparented(Inserted(inbox, Reports), is)
<1>. DEFINE is == attached \cap {s.id : s \in {x \in poll.issues :
                                                 row[x.id].state = "NEW" \/ Admitted(x)}}
<1>1. inbox' = Reparented(Inserted(inbox, Reports), is)
  BY Zenon DEF Ingest
<1>2. is \in SUBSET attached
  OBVIOUS
<1>. QED BY <1>1, <1>2, Zenon

\* What is known stays known.
LEMMA KnownStays ==
  ASSUME TypeOK, ReportedOnce, [Next]_vars, NEW r \in inbox
  PROVE  \E s \in inbox' : s.key = r.key
<1>1. r \in InboxRows
  BY DEF TypeOK
<1>2. CASE Ingest
  <2>1. /\ Inserted(inbox, Reports) \in SUBSET InboxRows
        /\ r \in Inserted(inbox, Reports)
    BY InsertedRows
  <2>2. PICK is : inbox' = Reparented(Inserted(inbox, Reports), is)
    BY <1>2, IngestedInbox
  <2>3. \E s \in Reparented(Inserted(inbox, Reports), is) : s.key = r.key
    BY <2>1, ReparentedKeeps
  <2>. QED BY <2>2, <2>3
<1>3. ASSUME NEW i \in Issues, TriageReady(i)
      PROVE  \E s \in inbox' : s.key = r.key
  <2>1. inbox' = Reparented(inbox, {i}) /\ inbox \in SUBSET InboxRows
    BY <1>3 DEF TriageReady, TypeOK
  <2>2. \E s \in Reparented(inbox, {i}) : s.key = r.key
    BY <2>1, ReparentedKeeps
  <2>. QED BY <2>1, <2>2
<1>4. CASE Housekeep
  <2>1. [r EXCEPT !.state = "TERMINAL"].key = r.key
    BY <1>1 DEF InboxRows
  <2>. QED BY <1>4, <2>1 DEF Housekeep
<1>5. ASSUME Next, ~Ingest, ~Housekeep, ~(\E i \in Issues : TriageReady(i))
      PROVE  UNCHANGED inbox
  BY <1>5 DEF Next, GitHub, Poll, EditIssue, CommentOn, OpenPull, ChangePull, ReadIssues, ReadPulls,
     ReadDetails, PollFails, IngestRollsBack, Enqueue, TriageDrops, tables
<1>6. CASE UNCHANGED inbox
  BY <1>6
<1>. QED BY <1>2, <1>3, <1>4, <1>5, <1>6 DEF vars, tables

\* The transaction that stores a version of an issue reports it, or it was known.
LEMMA StoredStep ==
  ASSUME TypeOK, ReportedOnce, StoredIsReported, [Next]_vars
  PROVE  StoredIsReported'
<1>. DEFINE Silent == {"none", "BASELINE_EXCLUDED", "NEW"}
<1>1. CASE Ingest
  <2> SUFFICES ASSUME NEW i \in Issues, row'[i].state \notin Silent
               PROVE  Known(<<"issue", i, row[i].hash>>)'
    BY DEF StoredIsReported
  <2>1. CASE row'[i] = row[i]
    <3>1. PICK r \in inbox : r.key = <<"issue", i, row[i].hash>>
      BY <2>1 DEF StoredIsReported, Known
    <3>2. \E q \in inbox' : q.key = r.key
      BY KnownStays
    <3>. QED BY <2>1, <3>1, <3>2 DEF Known
  <2>2. CASE row'[i] # row[i]
    <3>1. PICK s \in poll.issues : s.id = i /\ row'[i] = IssueAfter(s)
      BY <1>1, <2>2 DEF Ingest
    <3>2. row'[i].hash = s.hash
      BY <2>2, <3>1 DEF IssueAfter, Upserted
    <3>3. Reported(s) \/ (row[i].state \notin Silent /\ row[i].hash = s.hash)
      BY <2>2, <3>1 DEF IssueAfter, Upserted, Reported
    <3>4. CASE Reported(s)
      <4>1. Event(<<"issue", s.id, s.hash>>, s.id) \in Reports
        BY <3>4 DEF Reports
      <4>2. Event(<<"issue", s.id, s.hash>>, s.id).key = <<"issue", i, s.hash>>
        BY <3>1 DEF Event
      <4>3. PICK r \in Inserted(inbox, Reports) : r.key = <<"issue", i, s.hash>>
        BY <4>1, <4>2, InsertedRows
      <4>4. Inserted(inbox, Reports) \in SUBSET InboxRows
        BY InsertedRows
      <4>5. PICK is : inbox' = Reparented(Inserted(inbox, Reports), is)
        BY <1>1, IngestedInbox
      <4>6. \E q \in Reparented(Inserted(inbox, Reports), is) : q.key = r.key
        BY <4>4, ReparentedKeeps
      <4>. QED BY <3>2, <4>3, <4>5, <4>6 DEF Known
    <3>5. CASE row[i].state \notin Silent /\ row[i].hash = s.hash
      <4>1. PICK r \in inbox : r.key = <<"issue", i, s.hash>>
        BY <3>5 DEF StoredIsReported, Known
      <4>2. \E q \in inbox' : q.key = r.key
        BY KnownStays
      <4>. QED BY <3>2, <4>1, <4>2 DEF Known
    <3>. QED BY <3>3, <3>4, <3>5
  <2>. QED BY <2>1, <2>2
<1>2. ASSUME NEW i \in Issues, Enqueue(i) \/ TriageReady(i) \/ TriageDrops(i), NEW j \in Issues,
             row'[j].state \notin Silent
      PROVE  row'[j].hash = row[j].hash /\ row[j].state \notin Silent
  BY <1>2 DEF Enqueue, TriageReady, TriageDrops, TypeOK
<1>3. ASSUME NEW i \in Issues, Enqueue(i) \/ TriageReady(i) \/ TriageDrops(i)
      PROVE  StoredIsReported'
  <2> SUFFICES ASSUME NEW j \in Issues, row'[j].state \notin Silent
               PROVE  Known(<<"issue", j, row[j].hash>>)'
    BY DEF StoredIsReported
  <2>1. row'[j].hash = row[j].hash /\ row[j].state \notin Silent
    BY <1>2, <1>3
  <2>2. PICK r \in inbox : r.key = <<"issue", j, row[j].hash>>
    BY <2>1 DEF StoredIsReported, Known
  <2>3. \E q \in inbox' : q.key = r.key
    BY KnownStays
  <2>. QED BY <2>1, <2>2, <2>3 DEF Known
<1>4. ASSUME Next, ~Ingest, ~(\E i \in Issues : Enqueue(i) \/ TriageReady(i) \/ TriageDrops(i))
      PROVE  UNCHANGED row
  BY <1>4 DEF Next, GitHub, Poll, EditIssue, CommentOn, OpenPull, ChangePull, ReadIssues, ReadPulls,
     ReadDetails, PollFails, IngestRollsBack, Housekeep, tables
<1>5. CASE UNCHANGED row
  <2> SUFFICES ASSUME NEW j \in Issues, row'[j].state \notin Silent
               PROVE  Known(<<"issue", j, row[j].hash>>)'
    BY DEF StoredIsReported
  <2>1. PICK r \in inbox : r.key = <<"issue", j, row[j].hash>>
    BY <1>5 DEF StoredIsReported, Known
  <2>2. \E q \in inbox' : q.key = r.key
    BY KnownStays
  <2>. QED BY <1>5, <2>1, <2>2 DEF Known
<1>. QED BY <1>1, <1>3, <1>4, <1>5 DEF vars, tables

\* The transaction addresses its events to the items there are, and the attachment of an
\* issue the events that came before it.
LEMMA AttachedStep ==
  ASSUME TypeOK, ReportedOnce, AttachedIsAddressed, [Next]_vars
  PROVE  AttachedIsAddressed'
<1>1. CASE Ingest
  <2>. DEFINE rows == Inserted(inbox, Reports)
  <2>1. /\ rows \in SUBSET InboxRows
        /\ \A r \in rows \ inbox : r.item = (r.issue \in attached)
    BY InsertedRows
  <2>. HIDE DEF rows
  <2>2. PICK is \in SUBSET attached : inbox' = Reparented(rows, is)
    BY <1>1, IngestedInbox DEF rows
  <2>3. attached' = attached
    BY <1>1 DEF Ingest
  <2>4. \A r \in rows : r.issue \in attached /\ r.state = "PENDING" => r.item
    BY <2>1 DEF AttachedIsAddressed
  <2>5. ASSUME NEW q \in inbox', q.issue \in attached, q.state = "PENDING"
        PROVE  q.item
    <3>1. PICK r \in rows : q = Addressed(r, is)
      BY <2>2, <2>5, ReparentedRows
    <3>2. r \in InboxRows /\ r.issue = q.issue /\ r.state = q.state /\ (r.item => q.item)
      BY <2>1, <3>1, AddressedRow
    <3>. QED BY <2>4, <2>5, <3>2
  <2>. QED BY <2>3, <2>5 DEF AttachedIsAddressed
<1>2. ASSUME NEW i \in Issues, TriageReady(i)
      PROVE  AttachedIsAddressed'
  <2>1. inbox' = Reparented(inbox, {i}) /\ attached' = attached \cup {i}
    BY <1>2 DEF TriageReady
  <2>2. ASSUME NEW q \in inbox', q.issue \in attached', q.state = "PENDING"
        PROVE  q.item
    <3>1. PICK r \in inbox : q = Addressed(r, {i})
      BY <2>1, <2>2, ReparentedRows
    <3>2. /\ r \in InboxRows /\ r.issue = q.issue /\ r.state = q.state /\ (r.item => q.item)
          /\ r.issue \in {i} /\ r.state # "TERMINAL" => q.item
      BY <3>1, AddressedRow DEF TypeOK
    <3>. QED BY <2>1, <2>2, <3>2 DEF AttachedIsAddressed
  <2>. QED BY <2>2 DEF AttachedIsAddressed
<1>3. CASE Housekeep
  <2>1. \A r \in InboxRows : [r EXCEPT !.state = "TERMINAL"].state # "PENDING"
    BY DEF InboxRows
  <2>2. inbox' = (inbox \ Unread) \cup {[r EXCEPT !.state = "TERMINAL"] : r \in Unread}
    BY <1>3 DEF Housekeep
  <2>3. Unread \subseteq InboxRows /\ attached' = attached
    BY <1>3 DEF Housekeep, Unread, TypeOK
  <2>. HIDE DEF Unread
  <2>4. ASSUME NEW q \in inbox', q.state = "PENDING"
        PROVE  q \in inbox
    <3>1. CASE \E r \in Unread : q = [r EXCEPT !.state = "TERMINAL"]
      BY <2>1, <2>3, <2>4, <3>1
    <3>. QED BY <2>2, <2>4, <3>1
  <2>. QED BY <2>3, <2>4 DEF AttachedIsAddressed
<1>4. ASSUME Next, ~Ingest, ~Housekeep, ~(\E i \in Issues : TriageReady(i))
      PROVE  UNCHANGED <<inbox, attached>>
  BY <1>4 DEF Next, GitHub, Poll, EditIssue, CommentOn, OpenPull, ChangePull, ReadIssues, ReadPulls,
     ReadDetails, PollFails, IngestRollsBack, Enqueue, TriageDrops, tables
<1>5. CASE UNCHANGED <<inbox, attached>>
  BY <1>5 DEF AttachedIsAddressed
<1>. QED BY <1>1, <1>2, <1>3, <1>4, <1>5 DEF vars, tables

\* No step gives two rows one key.
LEMMA OnceStep ==
  ASSUME TypeOK, ReportedOnce, [Next]_vars
  PROVE  ReportedOnce'
<1>1. CASE Ingest
  <2>. DEFINE rows == Inserted(inbox, Reports)
  <2>1. rows \in SUBSET InboxRows /\ \A r, s \in rows : r.key = s.key => r = s
    BY InsertedRows
  <2>2. PICK is : inbox' = Reparented(rows, is)
    BY <1>1, IngestedInbox
  <2>. HIDE DEF rows
  <2>3. \A r, s \in Reparented(rows, is) : r.key = s.key => r = s
    BY <2>1, ReparentedKeeps
  <2>. QED BY <2>2, <2>3 DEF ReportedOnce
<1>2. ASSUME NEW i \in Issues, TriageReady(i)
      PROVE  ReportedOnce'
  <2>1. inbox' = Reparented(inbox, {i}) /\ inbox \in SUBSET InboxRows
    BY <1>2 DEF TriageReady, TypeOK
  <2>2. \A r, s \in Reparented(inbox, {i}) : r.key = s.key => r = s
    BY <2>1, ReparentedKeeps DEF ReportedOnce
  <2>. QED BY <2>1, <2>2 DEF ReportedOnce
<1>3. CASE Housekeep
  <2>1. \A r \in inbox : [r EXCEPT !.state = "TERMINAL"].key = r.key
    BY DEF TypeOK, InboxRows
  <2>2. \A q \in inbox' : \/ q \in inbox /\ q \notin Unread
                          \/ \E r \in Unread : q = [r EXCEPT !.state = "TERMINAL"]
    BY <1>3 DEF Housekeep
  <2>3. Unread \subseteq inbox
    BY DEF Unread
  <2>. HIDE DEF Unread
  <2>4. ASSUME NEW q \in inbox'
        PROVE  \E r \in inbox : /\ r.key = q.key
                                /\ r \notin Unread => q = r
                                /\ r \in Unread => q = [r EXCEPT !.state = "TERMINAL"]
    <3>1. CASE q \in inbox /\ q \notin Unread
      BY <3>1
    <3>2. CASE \E r \in Unread : q = [r EXCEPT !.state = "TERMINAL"]
      BY <2>1, <2>3, <3>2
    <3>. QED BY <2>2, <2>4, <3>1, <3>2
  <2>5. ASSUME NEW q \in inbox', NEW o \in inbox', q.key = o.key
        PROVE  q = o
    <3>1. PICK r \in inbox : /\ r.key = q.key
                             /\ r \notin Unread => q = r
                             /\ r \in Unread => q = [r EXCEPT !.state = "TERMINAL"]
      BY <2>4, <2>5
    <3>2. PICK s \in inbox : /\ s.key = o.key
                             /\ s \notin Unread => o = s
                             /\ s \in Unread => o = [s EXCEPT !.state = "TERMINAL"]
      BY <2>4, <2>5
    <3>3. r = s
      BY <2>5, <3>1, <3>2 DEF ReportedOnce
    <3>. QED BY <3>1, <3>2, <3>3
  <2>. QED BY <2>5 DEF ReportedOnce
<1>4. ASSUME Next, ~Ingest, ~Housekeep, ~(\E i \in Issues : TriageReady(i))
      PROVE  UNCHANGED inbox
  BY <1>4 DEF Next, GitHub, Poll, EditIssue, CommentOn, OpenPull, ChangePull, ReadIssues, ReadPulls,
     ReadDetails, PollFails, IngestRollsBack, Enqueue, TriageDrops, tables
<1>5. CASE UNCHANGED inbox
  BY <1>5 DEF ReportedOnce
<1>. QED BY <1>1, <1>2, <1>3, <1>4, <1>5 DEF vars, tables

\* The version the transaction leaves in a row: its own, or that of the poll.
LEMMA VersionAfter ==
  ASSUME TypeOK, NEW s \in poll.issues
  PROVE  IssueAfter(s).hash \in {s.hash, row[s.id].hash}
<1>1. \A t \in IssueStates : Upserted(s, t).hash = s.hash
  BY DEF Upserted
<1>2. [Upserted(s, "NEW") EXCEPT !.state = "TRIAGE_PENDING"].hash = s.hash
  BY DEF Upserted
<1>3. row[s.id].state \in IssueStates
  BY DEF TypeOK
<1>. QED BY <1>1, <1>2, <1>3 DEF IssueAfter, IssueStates

\* What happens to the versions: the transaction stores those of the poll ...
LEMMA IngestVersions ==
  ASSUME TypeOK, ReadInOrder, Ingest
  PROVE  /\ \A i \in Issues : row[i].hash <= row'[i].hash /\ row'[i].hash <= issue[i].updated
         /\ watermark' = clock /\ poll'.issues = {}
         /\ UNCHANGED <<clock, issue>>
<1>1. ASSUME NEW i \in Issues
      PROVE  row[i].hash <= row'[i].hash /\ row'[i].hash <= issue[i].updated
  <2>0. /\ row[i].hash \in Times /\ issue[i].updated \in Times
        /\ row[i].hash <= issue[i].updated
    BY DEF TypeOK, ReadInOrder
  <2>1. row'[i] = IF \E s \in poll.issues : s.id = i
                    THEN IssueAfter(CHOOSE s \in poll.issues : s.id = i)
                    ELSE row[i]
    BY DEF Ingest
  <2>2. CASE \E s \in poll.issues : s.id = i
    <3>1. PICK s \in poll.issues : s.id = i /\ row'[i] = IssueAfter(s)
      BY <2>1, <2>2
    <3>2. row'[i].hash = s.hash \/ row'[i].hash = row[i].hash
      BY <3>1, VersionAfter
    <3>3. row[i].hash <= s.hash /\ s.hash <= issue[i].updated
      BY <3>1 DEF ReadInOrder
    <3>. QED BY ONLY <2>0, <3>2, <3>3 DEF Times
  <2>3. CASE ~\E s \in poll.issues : s.id = i
    BY <2>0, <2>1, <2>3 DEF Times
  <2>. QED BY <2>2, <2>3
<1>2. watermark' = clock /\ poll'.issues = {} /\ UNCHANGED <<clock, issue>>
  BY DEF Ingest, github, Idle
<1>. QED BY <1>1, <1>2

\* ... and nobody else touches them, while GitHub's grow.
LEMMA OtherVersions ==
  ASSUME TypeOK, [Next]_vars, ~Ingest
  PROVE  /\ watermark' = watermark
         /\ \A i \in Issues : row'[i].hash = row[i].hash
<1>1. ASSUME NEW i \in Issues, Enqueue(i) \/ TriageReady(i) \/ TriageDrops(i)
      PROVE  /\ watermark' = watermark
             /\ \A j \in Issues : row'[j].hash = row[j].hash
  <2>1. PICK t \in {"NEW", "READY", "REJECTED"} : row' = [row EXCEPT ![i].state = t]
    BY <1>1 DEF Enqueue, TriageReady, TriageDrops
  <2>2. watermark' = watermark
    BY <1>1 DEF Enqueue, TriageReady, TriageDrops
  <2>3. row \in [Issues -> [state : IssueStates, hash : Times]]
    BY DEF TypeOK
  <2>. QED BY ONLY <2>1, <2>2, <2>3
<1>2. ASSUME ~(\E i \in Issues : Enqueue(i) \/ TriageReady(i) \/ TriageDrops(i))
      PROVE  row' = row /\ watermark' = watermark
  BY <1>2 DEF Next, GitHub, Poll, EditIssue, CommentOn, OpenPull, ChangePull, ReadIssues, ReadPulls,
     ReadDetails, PollFails, IngestRollsBack, Housekeep, tables, vars
<1>. QED BY <1>1, <1>2

LEMMA GitHubVersions ==
  ASSUME TypeOK, ReadInOrder, [Next]_vars
  PROVE  /\ clock <= clock'
         /\ \A i \in Issues : /\ issue[i].updated <= issue'[i].updated
                             /\ issue'[i].updated <= clock'
<1>0. /\ clock \in Nat
      /\ \A i \in Issues : issue[i].updated \in Nat /\ issue[i].updated <= clock
  BY IngestAssumption DEF TypeOK, Times, ReadInOrder
<1>1. ASSUME NEW i \in Issues, EditIssue(i) \/ CommentOn(i)
      PROVE  /\ clock' = clock + 1
             /\ \A j \in Issues : issue'[j].updated \in {issue[j].updated, clock}
  <2>1. clock' = clock + 1
    BY <1>1 DEF EditIssue, CommentOn, TimePasses
  <2>2. CASE EditIssue(i)
    <3>1. PICK l \in BOOLEAN : issue' = [issue EXCEPT ![i].updated = clock, ![i].label = l]
      BY <2>2 DEF EditIssue
    <3>. QED BY <2>1, <3>1 DEF TypeOK
  <2>3. CASE CommentOn(i)
    <3>1. issue' = [issue EXCEPT ![i].updated = clock, ![i].comments = @ \cup {clock}]
      BY <2>3 DEF CommentOn
    <3>. QED BY <2>1, <3>1 DEF TypeOK
  <2>. QED BY <1>1, <2>2, <2>3
<1>2. ASSUME ~(\E i \in Issues : EditIssue(i) \/ CommentOn(i))
      PROVE  issue' = issue /\ clock' \in {clock, clock + 1}
  BY <1>2 DEF Next, GitHub, Poll, OpenPull, ChangePull, TimePasses, ReadIssues, ReadPulls,
     ReadDetails, PollFails, Ingest, IngestRollsBack, Enqueue, TriageReady, TriageDrops, Housekeep,
     github, vars
<1>. QED BY <1>0, <1>1, <1>2

\* What a poll holds is what it read when it began.
LEMMA PolledVersions ==
  ASSUME TypeOK, ReadInOrder, [Next]_vars, ~Ingest, NEW s \in poll'.issues
  PROVE  s.id \in Issues /\ row[s.id].hash <= s.hash /\ s.hash <= issue[s.id].updated
<1>1. CASE ReadIssues
  <2>1. poll'.issues = {[id |-> i, hash |-> issue[i].updated, label |-> issue[i].label] :
                          i \in {j \in ListedIssues : After(issue[j].updated, watermark)}}
    BY <1>1 DEF ReadIssues, Idle
  <2>2. PICK i \in Issues : s = [id |-> i, hash |-> issue[i].updated, label |-> issue[i].label]
    BY <2>1, ListsHoldWhatIsThere
  <2>3. s.id = i /\ s.hash = issue[i].updated
    BY <2>2
  <2>4. issue[i].updated \in Nat
    BY DEF TypeOK, Times
  <2>. QED BY <2>3, <2>4 DEF ReadInOrder
<1>2. CASE PollFails \/ IngestRollsBack
  BY <1>2 DEF PollFails, IngestRollsBack, Idle
<1>3. ASSUME ~ReadIssues, ~PollFails, ~IngestRollsBack
      PROVE  poll'.issues = poll.issues
  <2>1. CASE ReadPulls \/ ReadDetails
    BY <2>1 DEF ReadPulls, ReadDetails, TypeOK
  <2>2. ASSUME ~ReadPulls, ~ReadDetails
        PROVE  poll' = poll
    BY <1>3, <2>2 DEF Next, GitHub, Poll, EditIssue, CommentOn, OpenPull, ChangePull, Enqueue,
       TriageReady, TriageDrops, Housekeep, vars
  <2>. QED BY <2>1, <2>2
<1>4. s \in poll.issues => s.id \in Issues
  BY DEF TypeOK
<1>. QED BY <1>1, <1>2, <1>3, <1>4 DEF ReadInOrder

LEMMA ReadInOrderStep ==
  ASSUME TypeOK, TypeOK', ReadInOrder, [Next]_vars
  PROVE  ReadInOrder'
<1>0. /\ clock \in Nat /\ clock' \in Nat /\ watermark \in Nat
      /\ \A i \in Issues : /\ issue[i].updated \in Nat /\ issue'[i].updated \in Nat
                          /\ row[i].hash \in Nat /\ row'[i].hash \in Nat
      /\ \A s \in poll'.issues : s.hash \in Nat
  BY DEF TypeOK, Times
<1>1. CASE Ingest
  <2>1. \A i \in Issues : row'[i].hash <= issue'[i].updated
    BY <1>1, IngestVersions
  <2>2. watermark' <= clock' /\ poll'.issues = {}
    BY <1>0, <1>1, IngestVersions
  <2>. QED BY <2>1, <2>2, GitHubVersions DEF ReadInOrder
<1>2. CASE ~Ingest
  <2>1. watermark' <= clock'
    <3>1. watermark' = watermark /\ watermark <= clock /\ clock <= clock'
      BY <1>2, OtherVersions, GitHubVersions DEF ReadInOrder
    <3>. QED BY ONLY <1>0, <3>1
  <2>2. ASSUME NEW i \in Issues
        PROVE  row'[i].hash <= issue'[i].updated /\ issue'[i].updated <= clock'
    <3>1. /\ row'[i].hash = row[i].hash /\ row[i].hash <= issue[i].updated
          /\ issue[i].updated <= issue'[i].updated /\ issue'[i].updated <= clock'
      BY <1>2, OtherVersions, GitHubVersions DEF ReadInOrder
    <3>. QED BY ONLY <1>0, <3>1, i \in Issues
  <2>3. ASSUME NEW s \in poll'.issues
        PROVE  row'[s.id].hash <= s.hash /\ s.hash <= issue'[s.id].updated
    <3>1. s.id \in Issues /\ row[s.id].hash <= s.hash /\ s.hash <= issue[s.id].updated
      BY <1>2, PolledVersions
    <3>2. row'[s.id].hash = row[s.id].hash /\ issue[s.id].updated <= issue'[s.id].updated
      BY <1>2, <3>1, OtherVersions, GitHubVersions
    <3>. QED BY ONLY <1>0, <3>1, <3>2, s \in poll'.issues
  <2>. QED BY <2>1, <2>2, <2>3 DEF ReadInOrder
<1>. QED BY <1>1, <1>2

\* IInv is inductive.
LEMMA Inductive == Spec => []IInv
<1>1. Init => IInv
  BY InitIInv
<1>2. IInv /\ [Next]_vars => IInv'
  BY TypeStep, ReadInOrderStep, StoredStep, AttachedStep, OnceStep DEF IInv
<1>. QED BY <1>1, <1>2, PTL DEF Spec

-----------------------------------------------------------------------------
\* What a poll has read and what the tables hold stay values the code gives them: an
\* unknown pull request is never stored as one of the repository's, nor an event of one.
THEOREM TypeCorrect == Spec => []TypeOK
<1>1. IInv => TypeOK
  BY DEF IInv
<1>. QED BY <1>1, Inductive, PTL

\* A stored version of an admitted issue was reported (ingestSnapshot: the snapshot hash
\* and the event in one transaction), so the change suppression swallows nothing unseen.
THEOREM NothingIsSwallowed == Spec => []StoredIsReported
<1>1. IInv => StoredIsReported
  BY DEF IInv
<1>. QED BY <1>1, Inductive, PTL

\* A pending event of an attached issue has its work item (insertInboxEventIfAbsent,
\* reparentInboxByIssue), whether the poll or the attachment came first.
THEOREM EventsFindTheirItem == Spec => []AttachedIsAddressed
<1>1. IInv => AttachedIsAddressed
  BY DEF IInv
<1>. QED BY <1>1, Inductive, PTL

\* There is one row per event_key, over polls that read the same again and over
\* reparenting and housekeeping.
THEOREM KeysAreUnique == Spec => []ReportedOnce
<1>1. IInv => ReportedOnce
  BY DEF IInv
<1>. QED BY <1>1, Inductive, PTL

\* The stored version of an issue and the watermark only grow, however long a poll takes and
\* whatever fails or changes meanwhile (upsertIssueFromSnapshot, setPollWatermark).
THEOREM SnapshotsOnlyAdvance == Spec => SnapshotsNeverGoBack
<1>1. ASSUME IInv, [Next]_vars
      PROVE  /\ \A i \in Issues : row'[i].hash >= row[i].hash
             /\ watermark' >= watermark
  <2>1. TypeOK /\ ReadInOrder
    BY <1>1 DEF IInv
  <2>2. /\ clock \in Nat /\ watermark \in Nat /\ watermark <= clock
        /\ \A i \in Issues : row[i].hash \in Nat
    BY <2>1 DEF TypeOK, Times, ReadInOrder
  <2>3. CASE Ingest
    <3>1. /\ \A i \in Issues : row[i].hash <= row'[i].hash
          /\ watermark' = clock
      BY <2>1, <2>3, IngestVersions
    <3>. QED BY ONLY <2>2, <3>1
  <2>4. CASE ~Ingest
    <3>1. watermark' = watermark /\ \A i \in Issues : row'[i].hash = row[i].hash
      BY <1>1, <2>1, <2>4, OtherVersions
    <3>. QED BY ONLY <2>2, <3>1
  <2>. QED BY <2>3, <2>4
<1>2. IInv /\ [Next]_vars => [/\ \A i \in Issues : row'[i].hash >= row[i].hash
                              /\ watermark' >= watermark]_vars
  BY <1>1
<1>. QED BY <1>2, Inductive, PTL DEF Spec, SnapshotsNeverGoBack

\* A row that housekeeping made terminal is never touched again, by a reparenting in
\* particular (the guard on terminal_action in reparentInboxByIssue).
THEOREM TerminalRowsStay == Spec => HousekeptStaysOut
<1>1. ASSUME IInv, [Next]_vars, NEW r \in inbox, r.state = "TERMINAL"
      PROVE  r \in inbox'
  <2>0. TypeOK /\ ReportedOnce
    BY <1>1 DEF IInv
  <2>1. CASE Ingest
    <3>1. Inserted(inbox, Reports) \in SUBSET InboxRows /\ r \in Inserted(inbox, Reports)
      BY <2>0, InsertedRows
    <3>2. PICK is : inbox' = Reparented(Inserted(inbox, Reports), is)
      BY <2>1, IngestedInbox
    <3>3. r \in Reparented(Inserted(inbox, Reports), is)
      BY <1>1, <3>1, ReparentedKeeps
    <3>. QED BY <3>2, <3>3
  <2>2. ASSUME NEW i \in Issues, TriageReady(i)
        PROVE  r \in inbox'
    BY <1>1, <2>0, <2>2, ReparentedKeeps DEF TriageReady, TypeOK
  <2>3. CASE Housekeep
    BY <1>1, <2>3 DEF Housekeep, Unread
  <2>4. ASSUME Next, ~Ingest, ~Housekeep, ~(\E i \in Issues : TriageReady(i))
        PROVE  UNCHANGED inbox
    BY <2>4 DEF Next, GitHub, Poll, EditIssue, CommentOn, OpenPull, ChangePull, ReadIssues,
       ReadPulls, ReadDetails, PollFails, IngestRollsBack, Enqueue, TriageDrops, tables
  <2>. QED BY <1>1, <2>1, <2>2, <2>3, <2>4 DEF vars, tables
<1>2. IInv /\ [Next]_vars => [\A r \in inbox : r.state = "TERMINAL" => r \in inbox']_inbox
  BY <1>1
<1>. QED BY <1>2, Inductive, PTL DEF Spec, HousekeptStaysOut
=============================================================================
