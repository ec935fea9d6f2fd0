------------------------- MODULE TriagePump_proofs --------------------------
(***************************************************************************)
(* Proofs about TriagePump, for any number of issues, of reconcile         *)
(* commands, of operator commands and of crashes.                          *)
(*                                                                         *)
(* Nothing of the argument is about who flies: a flight that was written   *)
(* off, or that went on after the pump was resumed, still holds an issue   *)
(* (FlightsHoldIssues), and what it may write is decided by the state of   *)
(* that issue alone.  An issue that waits has no link yet                  *)
(* (WaitingIsUnlinked), so its first disposition decides its link.         *)
(***************************************************************************)
EXTENDS TriagePump, TLAPS

\* A flight that prompts, or is about to, was given an issue.
FlightsHoldIssues ==
    \A r \in Runners : flight[r].step \in {"begin", "prompt"} => flight[r].issue \in Issues

\* Only a disposition links an issue.
WaitingIsUnlinked ==
    \A i \in Issues : issue[i] \in {"unseen", "TRIAGE_PENDING"} => link[i] = None

IInv ==
    /\ TypeOK
    /\ FlightsHoldIssues
    /\ WaitingIsUnlinked
    /\ ItemsAreReadyIssues

\* The pumps, and what a flight holds.
Pumps == [state : {"IDLE", "PROMPTING", "BACKOFF", "PAUSED_TRIAGE"},
          failures : 0 .. EscalationLimit, later : BOOLEAN]
Flights == [step : {"idle", "listed", "stale", "begin", "park", "prompt"},
            state : {"IDLE", "PROMPTING", "BACKOFF"},
            failures : 0 .. EscalationLimit, issue : Issues \cup {None}]

-----------------------------------------------------------------------------
(***************************************************************************)
(* The helpers.                                                            *)
(***************************************************************************)
\* nextDueIssue finds an issue or none.
LEMMA OldestIsAnIssue == Oldest \in Issues \cup {None}
BY DEF Oldest

LEMMA GroundedIsAFlight == Grounded \in Flights
BY DEF Grounded, Flights, EscalationLimit

\* failFlight counts up to the limit.
LEMMA FailedIsAPump ==
  ASSUME NEW n \in 0 .. EscalationLimit
  PROVE  Failed(n) \in Pumps
BY DEF Failed, Pumps, EscalationLimit

\* A paused pump gives no flight, and a flight that begins has an issue.
LEMMA DecideStep ==
  ASSUME TypeOK, NEW r \in Runners, Decide(r)
  PROVE  /\ flight' \in [Runners -> Flights]
         /\ FlightsHoldIssues => FlightsHoldIssues'
<1>1. CASE Decision = "idle"
  <2>1. flight' = [flight EXCEPT ![r] = Grounded]
    BY <1>1 DEF Decide
  <2>2. flight' \in [Runners -> Flights]
    BY <2>1, GroundedIsAFlight DEF TypeOK, Flights
  <2>3. FlightsHoldIssues => FlightsHoldIssues'
    BY <2>1 DEF FlightsHoldIssues, Grounded, TypeOK
  <2>. QED BY <2>2, <2>3
<1>2. CASE Decision # "idle"
  <2>. DEFINE f == [step |-> Decision, state |-> pump.state, failures |-> pump.failures,
                    issue |-> Oldest]
  <2>1. flight' = [flight EXCEPT ![r] = f]
    BY <1>2 DEF Decide
  <2>2. pump.state # "PAUSED_TRIAGE" /\ Decision \in {"stale", "begin", "park"}
    BY <1>2 DEF Decision, Held
  <2>3. f \in Flights
    BY <2>2, OldestIsAnIssue DEF TypeOK, Flights
  <2>4. Decision = "begin" => Oldest # None
    BY DEF Decision
  <2>5. flight' \in [Runners -> Flights]
    BY <2>1, <2>3 DEF TypeOK, Flights
  <2>6. ASSUME FlightsHoldIssues, NEW s \in Runners, flight'[s].step \in {"begin", "prompt"}
        PROVE  flight'[s].issue \in Issues
    <3>1. CASE s = r
      <4>1. flight'[s] = f
        BY <2>1, <3>1 DEF TypeOK
      <4>2. f.issue \in Issues
        BY <2>2, <2>4, <2>6, <4>1, OldestIsAnIssue
      <4>. QED BY <4>1, <4>2
    <3>2. CASE s # r
      BY <2>1, <2>6, <3>2 DEF FlightsHoldIssues, TypeOK
    <3>. QED BY <3>1, <3>2
  <2>7. FlightsHoldIssues => FlightsHoldIssues'
    BY <2>6 DEF FlightsHoldIssues
  <2>. QED BY <2>5, <2>7
<1>. QED BY <1>1, <1>2

-----------------------------------------------------------------------------
(***************************************************************************)
(* The conjuncts of IInv, step by step.                                    *)
(***************************************************************************)
\* An untriaged repository: no flight, no link, no work item.
LEMMA InitIInv == Init => IInv
<1> SUFFICES ASSUME Init PROVE IInv
  OBVIOUS
<1>1. TypeOK
  <2>1. pump \in Pumps
    BY DEF Init, Pumps, EscalationLimit
  <2>2. flight \in [Runners -> Flights]
    BY GroundedIsAFlight DEF Init
  <2>. QED BY <2>1, <2>2, TriageAssumption DEF Init, TypeOK, Pumps, Flights
<1>2. FlightsHoldIssues /\ WaitingIsUnlinked /\ ItemsAreReadyIssues
  BY DEF Init, Grounded, FlightsHoldIssues, WaitingIsUnlinked, ItemsAreReadyIssues
<1>. QED BY <1>1, <1>2 DEF IInv

\* Every step keeps the values in their sets.
LEMMA TypeStep ==
  ASSUME TypeOK, FlightsHoldIssues, [Next]_vars
  PROVE  TypeOK'
<1> USE TriageAssumption DEF TypeOK
<1>1. CASE \E i \in Issues : Discover(i)
  BY <1>1 DEF Discover
<1>2. CASE Look
  BY <1>2, DecideStep DEF Look, rows, Runners, Flights
<1>3. ASSUME NEW r \in Commands, List(r)
      PROVE  TypeOK'
  BY <1>3 DEF List, rows, Runners
<1>4. ASSUME NEW r \in Runners, Recover(r)
      PROVE  TypeOK'
  BY <1>4, DecideStep DEF Recover, rows, Flights
<1>5. ASSUME NEW r \in Runners, FailStale(r) \/ Fail(r)
      PROVE  TypeOK'
  <2>1. pump' \in Pumps
    BY <1>5, FailedIsAPump DEF FailStale, Fail
  <2>2. flight' \in [Runners -> Flights]
    BY <1>5, GroundedIsAFlight DEF FailStale, Fail, Flights
  <2>. QED BY <1>5, <2>1, <2>2 DEF FailStale, Fail, Pumps, Flights
<1>6. ASSUME NEW r \in Runners, Park(r)
      PROVE  TypeOK'
  <2>1. flight' \in [Runners -> Flights]
    BY <1>6, GroundedIsAFlight DEF Park, Flights
  <2>. QED BY <1>6, <2>1 DEF Park, Flights
<1>7. ASSUME NEW r \in Runners, Begin(r)
      PROVE  TypeOK'
  BY <1>7 DEF Begin
<1>8. ASSUME NEW r \in Runners, NEW d \in Dispositions, NEW c \in Issues \cup {None},
             Apply(r, d, c)
      PROVE  TypeOK'
  <2>1. flight[r].issue \in Issues
    BY <1>8 DEF Apply, FlightsHoldIssues
  <2>2. pump' \in Pumps
    BY <1>8 DEF Apply, Pumps, EscalationLimit
  <2>3. flight' \in [Runners -> Flights]
    BY <1>8, GroundedIsAFlight DEF Apply, Flights
  <2>4. issue' \in [Issues -> {"unseen", "TRIAGE_PENDING"} \cup Dispositions]
    BY <1>8, <2>1 DEF Apply
  <2>5. link' \in [Issues -> Issues \cup {None}] /\ items' \subseteq Issues
    BY <1>8, <2>1 DEF Apply, Grouping
  <2>6. ops' = ops /\ faults' = faults
    BY <1>8 DEF Apply
  <2>. QED BY <2>2, <2>3, <2>4, <2>5, <2>6 DEF Pumps, Flights
<1>9. ASSUME NEW r \in Runners, Crash(r)
      PROVE  TypeOK'
  <2>1. flight' \in [Runners -> Flights]
    BY <1>9, GroundedIsAFlight DEF Crash, Flights
  <2>. QED BY <1>9, <2>1 DEF Crash, rows, Flights
<1>10. CASE Pause
  BY <1>10 DEF Pause
<1>11. CASE Unpause
  <2>1. pump' \in Pumps
    BY <1>11 DEF Unpause, Pumps, EscalationLimit
  <2>. QED BY <1>11, <2>1 DEF Unpause, Pumps
<1>12. CASE BackoffEnds
  BY <1>12 DEF BackoffEnds
<1>13. CASE UNCHANGED vars
  BY <1>13 DEF vars, rows
<1>. QED BY <1>1, <1>2, <1>3, <1>4, <1>5, <1>6, <1>7, <1>8, <1>9, <1>10, <1>11, <1>12, <1>13
         DEF Next, Flight

\* A flight gets its issue when it begins, and keeps it until it lands.
LEMMA FlightsStep ==
  ASSUME TypeOK, FlightsHoldIssues, [Next]_vars
  PROVE  FlightsHoldIssues'
<1>1. CASE Look
  BY <1>1, DecideStep DEF Look, Runners
<1>2. ASSUME NEW r \in Runners, Recover(r)
      PROVE  FlightsHoldIssues'
  BY <1>2, DecideStep DEF Recover
<1>3. ASSUME NEW r \in Commands, List(r)
      PROVE  FlightsHoldIssues'
  BY <1>3 DEF List, FlightsHoldIssues, TypeOK, Runners
<1>4. ASSUME NEW r \in Runners, Begin(r)
      PROVE  FlightsHoldIssues'
  BY <1>4 DEF Begin, FlightsHoldIssues, TypeOK
<1>5. ASSUME NEW r \in Runners, flight' = [flight EXCEPT ![r] = Grounded]
      PROVE  FlightsHoldIssues'
  BY <1>5 DEF FlightsHoldIssues, TypeOK, Grounded
<1>6. ASSUME NEW r \in Runners,
             \/ FailStale(r) \/ Park(r) \/ Fail(r) \/ Crash(r)
             \/ \E d \in Dispositions, c \in Issues \cup {None} : Apply(r, d, c)
      PROVE  flight' = [flight EXCEPT ![r] = Grounded]
  BY <1>6 DEF FailStale, Park, Fail, Crash, Apply
<1>7. CASE (\E i \in Issues : Discover(i)) \/ Pause \/ Unpause \/ BackoffEnds \/ UNCHANGED vars
  BY <1>7 DEF Discover, Pause, Unpause, BackoffEnds, vars, FlightsHoldIssues
<1>. QED BY <1>1, <1>2, <1>3, <1>4, <1>5, <1>6, <1>7 DEF Next, Flight

\* Issues, links and work items change only when an issue is discovered and when a
\* reply is applied.
LEMMA OnlyDiscoverAndApply ==
  ASSUME [Next]_vars
  PROVE  \/ \E i \in Issues : Discover(i)
         \/ \E r \in Runners, d \in Dispositions, c \in Issues \cup {None} : Apply(r, d, c)
         \/ UNCHANGED <<issue, link, items>>
BY DEF Next, Flight, Look, List, Recover, FailStale, Park, Begin, Fail, Pause, Unpause,
       BackoffEnds, Crash, vars, rows

\* A new issue waits without a link; a reply leaves no issue waiting that it touches.
LEMMA WaitingStep ==
  ASSUME TypeOK, FlightsHoldIssues, WaitingIsUnlinked, [Next]_vars
  PROVE  WaitingIsUnlinked'
<1>1. CASE \E i \in Issues : Discover(i)
  BY <1>1 DEF Discover, WaitingIsUnlinked, TypeOK
<1>2. ASSUME NEW r \in Runners, NEW d \in Dispositions, NEW c \in Issues \cup {None},
             Apply(r, d, c)
      PROVE  WaitingIsUnlinked'
  <2>. DEFINE i == flight[r].issue
  <2>1. i \in Issues /\ d \notin {"unseen", "TRIAGE_PENDING"}
    BY <1>2 DEF Apply, FlightsHoldIssues, Dispositions
  <2>2. issue' = [issue EXCEPT ![i] = d]
    BY <1>2 DEF Apply
  <2>3. \A k \in Issues \ {i} : link'[k] = link[k]
    BY <1>2 DEF Apply, Grouping, TypeOK
  <2>. QED BY <2>1, <2>2, <2>3 DEF WaitingIsUnlinked, TypeOK
<1>3. CASE UNCHANGED <<issue, link, items>>
  BY <1>3 DEF WaitingIsUnlinked
<1>. QED BY <1>1, <1>2, <1>3, OnlyDiscoverAndApply

\* The first disposition of an issue makes its work item or names one that exists.
LEMMA ItemsStep ==
  ASSUME TypeOK, FlightsHoldIssues, WaitingIsUnlinked, ItemsAreReadyIssues, [Next]_vars
  PROVE  ItemsAreReadyIssues'
<1>1. CASE \E i \in Issues : Discover(i)
  BY <1>1 DEF Discover, ItemsAreReadyIssues, TypeOK
<1>2. ASSUME NEW r \in Runners, NEW d \in Dispositions, NEW c \in Issues \cup {None},
             Apply(r, d, c)
      PROVE  ItemsAreReadyIssues'
  <2>. DEFINE i == flight[r].issue
  <2>1. i \in Issues /\ issue' = [issue EXCEPT ![i] = d] /\ Canonical(c) /\ Grouping(i, d, c)
    BY <1>2 DEF Apply, FlightsHoldIssues
  <2>2. CASE Repeats(i, d)
    <3>1. issue' = issue /\ UNCHANGED <<link, items>>
      BY <2>1, <2>2 DEF Repeats, Grouping, TypeOK
    <3>. QED BY <3>1 DEF ItemsAreReadyIssues
  <2>3. CASE ~Repeats(i, d)
    <3>1. issue[i] = "TRIAGE_PENDING" /\ link[i] = None /\ i \notin items
      BY <1>2, <2>1, <2>3 DEF Apply, Disposable, WaitingIsUnlinked, ItemsAreReadyIssues
    <3>2. CASE d = "READY"
      <4>1. items' = items \cup {i} /\ link' = [link EXCEPT ![i] = i]
        BY <2>1, <2>3, <3>1, <3>2 DEF Grouping, TypeOK
      <4>. QED BY <2>1, <3>2, <4>1 DEF ItemsAreReadyIssues, TypeOK
    <3>3. CASE d # "READY"
      <4>1. items' = items /\ link' = [link EXCEPT ![i] = c] /\ c \in items \cup {None}
        BY <2>1, <2>3, <3>3 DEF Grouping, Canonical
      <4>. QED BY <2>1, <3>1, <3>3, <4>1 DEF ItemsAreReadyIssues, TypeOK
    <3>. QED BY <3>2, <3>3
  <2>. QED BY <2>2, <2>3
<1>3. CASE UNCHANGED <<issue, link, items>>
  BY <1>3 DEF ItemsAreReadyIssues
<1>. QED BY <1>1, <1>2, <1>3, OnlyDiscoverAndApply

\* IInv is inductive.
LEMMA Inductive == Spec => []IInv
<1>1. Init => IInv
  BY InitIInv
<1>2. IInv /\ [Next]_vars => IInv'
  BY TypeStep, FlightsStep, WaitingStep, ItemsStep DEF IInv
<1>. QED BY <1>1, <1>2, PTL DEF Spec

-----------------------------------------------------------------------------
\* The pump, the issues and the flights keep the values the code gives them, whoever
\* flies: a flight never writes back a paused state it read.
THEOREM TypeCorrect == Spec => []TypeOK
<1>1. IInv => TypeOK
  BY DEF IInv
<1>. QED BY <1>1, Inductive, PTL

\* Work items are those of the READY issues, one each, and no issue is grouped onto an
\* item that does not exist (ensureResolutionReady, ensureGrouped), with any number of
\* flights at once and whatever reply comes late.
THEOREM WorkOnlyOnReady == Spec => []ItemsAreReadyIssues
<1>1. IInv => ItemsAreReadyIssues
  BY DEF IInv
<1>. QED BY <1>1, Inductive, PTL

\* The reply of a flight that was written off cannot change what a later flight
\* decided (applyTriageEnvelope).
THEOREM DispositionIsFinal == Spec => DisposedOnce
<1>1. ASSUME IInv, [Next]_vars
      PROVE  [\A i \in Issues : issue[i] \in Dispositions => issue'[i] = issue[i]]_issue
  <2>. USE DEF IInv
  <2>1. CASE \E i \in Issues : Discover(i)
    BY <1>1, <2>1 DEF Discover, Dispositions, TypeOK
  <2>2. ASSUME NEW r \in Runners, NEW d \in Dispositions, NEW c \in Issues \cup {None},
               Apply(r, d, c)
        PROVE  \A i \in Issues : issue[i] \in Dispositions => issue'[i] = issue[i]
    BY <1>1, <2>2 DEF Apply, Disposable, Repeats, Dispositions, TypeOK, FlightsHoldIssues
  <2>3. CASE UNCHANGED <<issue, link, items>>
    BY <2>3
  <2>. QED BY <1>1, <2>1, <2>2, <2>3, OnlyDiscoverAndApply
<1>. QED BY <1>1, Inductive, PTL DEF Spec, DisposedOnce
=============================================================================
