----------------------------- MODULE InboxRelay -----------------------------
(***************************************************************************)
(* The delivery of inbox events to the resolution session of one work item *)
(* (relayOldestInbox), against the transcript of that session.             *)
(*                                                                         *)
(* A bundle of PENDING rows gets a nonce and is marked DELIVERING before   *)
(* the prompt is sent; the rows are DELIVERED when the transcript holds an *)
(* assistant turn whose parent is the message with the nonce.  Every       *)
(* awaited call is a step; `at' is the daemon's place in the function and  *)
(* `hand' what it holds there.  Sessions of other items share nothing with *)
(* this one; the rest of the controller appears as moves of `item', which  *)
(* WorkQueue has in detail.                                                *)
(*                                                                         *)
(* Time is counted in ticks of W_turn, from each moment the code measures  *)
(* from, up to W_wedge: no comparison in the code looks further.           *)
(***************************************************************************)
EXTENDS Naturals, FiniteSets, TissueTables

CONSTANTS
  Events,      \* inbox ids: naturals, in the order of insertion
  IssueOf,     \* the issue of each event
  HomeIssue,   \* the issue the work item was made for
  Outcomes,    \* what a turn may report: outcomes of the table, or "garbage"
  IdleSamples, \* K_IDLE_SAMPLES
  MaxNonces,   \* bound on deliveries
  MaxFaults    \* bound on crashes, lost replies, dropped and slow turns

Turn == 1      \* W_TURN_MS
Wedge == 2     \* W_WEDGE_MS

\* RESOLUTION_OUTCOME_TO and RESOLUTION_OUTCOME_EVENT; `completed' moves the
\* item only when its effects are through, see EffectOutbox.
OutcomeTo ==
  [review |-> "WAITING", changes |-> "RUNNING",
   decision |-> "AWAITING_DECISION", deferred |-> "DEFERRED"]

OutcomeEvent ==
  [review |-> "await_review", changes |-> "resume",
   decision |-> "await_decision", deferred |-> "defer"]

Valid == DOMAIN OutcomeTo \cup {"completed"}

Nonces == 1 .. MaxNonces

Issues == {IssueOf[e] : e \in Events} \cup {HomeIssue}

ASSUME RelayAssumption ==
  /\ Events \subseteq Nat /\ IsFiniteSet(Events)
  /\ Outcomes \subseteq Valid \cup {"garbage"}
  /\ IdleSamples \in Nat \ {0}
  /\ MaxNonces \in Nat /\ MaxFaults \in Nat

VARIABLES
  row,      \* inbox.state, or "absent"; "loose" while work_item_id is NULL
  nonce,    \* inbox.delivery_nonce, 0 when NULL
  issued,   \* how many nonces were made
  item,     \* work_items.state
  applied,  \* nonces whose envelope has an applied transition, or effect rows
  heeded,   \* nonces whose answer was applied or recorded as a duplicate
  attached, \* issues attached to the item
  told,     \* transcript: the events of the message with each nonce
  answer,   \* transcript: its parent-linked turn
  turns,    \* messages whose turn has not ended
  exists,   \* the session exists
  worktree, \* its worktree is ACTIVE and has a HEAD to read
  at, hand, \* the daemon's place, and what it holds
  age,      \* time since delivery_started of the DELIVERING rows
  passAge,  \* time since the daemon's `now'
  recycled, \* events recycled after W_turn without a reply
  faults

rows == <<row, nonce, issued, attached>>
lifecycle == <<item, applied, heeded>>
session == <<told, answer, turns, exists, worktree>>
daemon == <<at, hand>>
clocks == <<age, passAge>>
vars == <<rows, lifecycle, session, daemon, clocks, recycled, faults>>

RowStates == {"absent", "loose", "PENDING", "DELIVERING", "DELIVERED"}
In(s) == {e \in Events : row[e] = s}
Relayed == {"RUNNING", "WAITING"}      \* what the normal loop lists

Answered(n) == exists /\ told[n] # {} /\ answer[n] \notin {"none", "summary"}

NoHand == [ids |-> {}, nonce |-> 0, left |-> 0, seen |-> 0, resumed |-> FALSE]

Places == {"rest", "list", "visit", "sample", "mark", "prompt", "observe",
           "read", "apply", "adopt", "recycle", "hold"}

Init ==
  /\ row = [e \in Events |-> "absent"]
  /\ nonce = [e \in Events |-> 0]
  /\ issued = 0
  /\ attached = {HomeIssue}
  /\ item = "RUNNING"
  /\ applied = {}
  /\ heeded = {}
  /\ told = [n \in Nonces |-> {}]
  /\ answer = [n \in Nonces |-> "none"]
  /\ turns = {}
  /\ exists = TRUE /\ worktree = TRUE
  /\ at = "rest"
  /\ hand = NoHand
  /\ age = 0 /\ passAge = 0
  /\ recycled = {}
  /\ faults = 0

-----------------------------------------------------------------------------
(* The normal loop and the choice between resuming and claiming. *)

Rest == at' = "rest" /\ hand' = NoHand /\ passAge' = 0
GoTo(place) == at' = place /\ UNCHANGED <<hand, passAge>>

\* io.now() at the start of the pass: all ages of the pass refer to it.
BeginPass ==
  /\ at = "rest"
  /\ at' = "list"
  /\ hand' = [NoHand EXCEPT !.seen = age]
  /\ passAge' = 0
  /\ UNCHANGED <<rows, lifecycle, session, age, recycled, faults>>

ListItem ==
  /\ at = "list"
  /\ IF item \in Relayed THEN GoTo("visit") ELSE Rest
  /\ UNCHANGED <<rows, lifecycle, session, age, recycled, faults>>

\* DELIVERING rows come first, and all of them go by the nonce of the first.
Resume ==
  /\ In("DELIVERING") # {}
  /\ hand' = [hand EXCEPT
                !.ids = In("DELIVERING"), !.resumed = TRUE,
                !.nonce = nonce[CHOOSE e \in In("DELIVERING") :
                                  \A d \in In("DELIVERING") : e <= d]]
  /\ at' = "observe" /\ UNCHANGED passAge

\* Mutant: the newest event first.
ClaimNewest ==
  /\ In("DELIVERING") = {} /\ In("PENDING") # {}
  /\ hand' = [hand EXCEPT !.left = IdleSamples,
                          !.ids = {CHOOSE e \in In("PENDING") : \A d \in In("PENDING") : d <= e}]
  /\ at' = "sample" /\ UNCHANGED passAge

ClaimBundle ==
  /\ In("DELIVERING") = {} /\ In("PENDING") # {}
  /\ hand' = [hand EXCEPT !.ids = In("PENDING"), !.left = IdleSamples]
  /\ at' = "sample" /\ UNCHANGED passAge

NothingToRelay == In("DELIVERING") = {} /\ In("PENDING") = {} /\ Rest

Visit ==
  /\ at = "visit"
  /\ Resume \/ ClaimBundle \/ NothingToRelay
  /\ UNCHANGED <<rows, lifecycle, session, age, recycled, faults>>

\* Mutant: one reading is enough, whatever it says.
SampleHasty ==
  /\ at = "sample"
  /\ IF exists THEN GoTo("mark") ELSE GoTo("hold")
  /\ UNCHANGED <<rows, lifecycle, session, age, recycled, faults>>

\* observeIdleAcrossSamples and getSessionStatus: one sample.
Sample ==
  /\ at = "sample"
  /\ \/ ~exists /\ GoTo("hold")
     \/ exists /\ turns # {} /\ Rest                       \* busy_hold
     \/ /\ exists /\ turns = {}
        /\ at' = IF hand.left = 1 THEN "mark" ELSE "sample"
        /\ hand' = [hand EXCEPT !.left = @ - 1]
        /\ UNCHANGED passAge
  /\ UNCHANGED <<rows, lifecycle, session, age, recycled, faults>>

\* markInboxDelivering: the nonce is on the rows before the prompt is sent, and
\* delivery_started is dated back to the start of the pass.
Mark ==
  /\ at = "mark"
  /\ issued < MaxNonces
  /\ issued' = issued + 1
  /\ LET ids == hand.ids \cap In("PENDING") IN
     /\ row' = [e \in Events |-> IF e \in ids THEN "DELIVERING" ELSE row[e]]
     /\ nonce' = [e \in Events |-> IF e \in ids THEN issued' ELSE nonce[e]]
  /\ hand' = [hand EXCEPT !.nonce = issued']
  /\ at' = "prompt"
  /\ age' = passAge
  /\ UNCHANGED <<attached, lifecycle, session, passAge, recycled, faults>>

-----------------------------------------------------------------------------
(* The prompt, and what the transcript says of it. *)

Receive ==
  /\ told' = [told EXCEPT ![hand.nonce] = hand.ids]
  /\ turns' = turns \cup {hand.nonce}
  /\ UNCHANGED <<answer, exists, worktree>>

\* promptAsync; a reply that is lost after 30 s is an error like any other.
Prompt ==
  /\ at = "prompt"
  /\ \/ exists /\ Receive /\ GoTo("observe") /\ UNCHANGED faults
     \/ ~exists /\ GoTo("recycle") /\ UNCHANGED <<session, faults>>
     \/ /\ faults < MaxFaults /\ faults' = faults + 1
        /\ UNCHANGED session \/ (exists /\ Receive)
        /\ GoTo("recycle")
  /\ UNCHANGED <<rows, lifecycle, age, recycled>>

\* observeCompletion, and what relayOldestInbox makes of it.  A bundle that was
\* prompted in this very pass is only looked at.
Verdict ==
  IF Answered(hand.nonce) THEN "read"
  ELSE IF ~hand.resumed THEN "rest"
  ELSE IF ~exists THEN "hold"
  ELSE IF hand.seen < Turn THEN "rest"
  ELSE IF hand.seen >= Wedge THEN "hold" ELSE "recycle"

\* Mutant: an idle session after the turn limit counts as completion.
ObserveIdle ==
  /\ at = "observe"
  /\ IF hand.resumed /\ turns = {} /\ hand.seen >= Turn THEN GoTo("adopt") ELSE Rest
  /\ UNCHANGED <<rows, lifecycle, session, age, recycled, faults>>

\* Mutant: the daemon gives up on rows it has to adopt after a restart.
ObserveOnce ==
  /\ at = "observe"
  /\ IF Verdict = "read" /\ ~hand.resumed THEN GoTo("read") ELSE Rest
  /\ UNCHANGED <<rows, lifecycle, session, age, recycled, faults>>

Observe ==
  /\ at = "observe"
  /\ IF Verdict = "rest" THEN Rest ELSE GoTo(Verdict)
  /\ UNCHANGED <<rows, lifecycle, session, age, recycled, faults>>

\* Mutant: an answer that cannot be read is no result, as if there were none.
ReadLenient ==
  /\ at = "read"
  /\ IF Answered(hand.nonce) /\ answer[hand.nonce] \in Valid
     THEN GoTo("apply") ELSE GoTo("adopt")
  /\ UNCHANGED <<rows, lifecycle, session, age, recycled, faults>>

\* readResolutionResult looks at the transcript again.  A session that has gone
\* since is no result, and no error either; an answer that does not parse is.
ReadResult ==
  /\ at = "read"
  /\ \/ Answered(hand.nonce) /\ answer[hand.nonce] \in Valid /\ GoTo("apply")
     \/ Answered(hand.nonce) /\ answer[hand.nonce] = "garbage" /\ Rest
     \/ ~Answered(hand.nonce) /\ GoTo("adopt")
  /\ UNCHANGED <<rows, lifecycle, session, age, recycled, faults>>

\* Mutant: without isDuplicate.
ApplyAgain ==
  LET n == hand.nonce  a == answer[n] IN
  /\ at = "apply"
  /\ \/ ~worktree /\ UNCHANGED lifecycle /\ Rest
     \/ /\ worktree
        /\ applied' = applied \cup {n} /\ heeded' = heeded \cup {n}
        /\ item' = IF a = "completed" THEN item ELSE OutcomeTo[a]
        /\ GoTo("adopt")
  /\ UNCHANGED <<rows, session, age, recycled, faults>>

\* applyResolutionResult needs the worktree and its HEAD, whatever the outcome; then
\* insertSideEffectIfAbsent, or applyResolutionEnvelope with isDuplicate.  Without a
\* worktree, and for an illegal move, it throws, and the rows stay DELIVERING.
Apply ==
  LET n == hand.nonce  a == answer[n] IN
  /\ at = "apply"
  /\ IF ~worktree
     THEN UNCHANGED lifecycle /\ Rest
     ELSE IF a = "completed"
     THEN applied' = applied \cup {n} /\ heeded' = heeded \cup {n}
          /\ UNCHANGED item /\ GoTo("adopt")
     ELSE IF n \in applied \/ item = OutcomeTo[a]
     THEN heeded' = heeded \cup {n} /\ UNCHANGED <<item, applied>> /\ GoTo("adopt")
     ELSE IF IsLegal(WorkItemTransitions, item, OutcomeEvent[a], OutcomeTo[a])
     THEN item' = OutcomeTo[a] /\ applied' = applied \cup {n}
          /\ heeded' = heeded \cup {n} /\ GoTo("adopt")
     ELSE UNCHANGED lifecycle /\ Rest
  /\ UNCHANGED <<rows, session, age, recycled, faults>>

Settled(S, s, n) ==
  /\ row' = [e \in Events |-> IF e \in S /\ row[e] = "DELIVERING" THEN s ELSE row[e]]
  /\ nonce' = [e \in Events |-> IF e \in S /\ row[e] = "DELIVERING" THEN n ELSE nonce[e]]
  /\ UNCHANGED <<issued, attached>>

\* adoptDelivered: the rows keep their nonce.
Adopt ==
  /\ at = "adopt"
  /\ Settled(hand.ids, "DELIVERED", hand.nonce)
  /\ Rest
  /\ age' = 0
  /\ UNCHANGED <<lifecycle, session, recycled, faults>>

\* recycle, after W_turn without an answer or a prompt that threw.
Recycle ==
  /\ at = "recycle"
  /\ Settled(hand.ids, "PENDING", 0)
  /\ Rest
  /\ age' = 0
  /\ recycled' = IF hand.resumed THEN recycled \cup hand.ids ELSE recycled
  /\ UNCHANGED <<lifecycle, session, faults>>

\* holdWorkItem: the rows stay as they are.
Hold ==
  /\ at = "hold"
  /\ item' = IF IsLegal(WorkItemTransitions, item, "wedge", "FAILED_HOLD")
             THEN "FAILED_HOLD" ELSE item
  /\ Rest
  /\ UNCHANGED <<rows, applied, heeded, session, age, recycled, faults>>

-----------------------------------------------------------------------------
(* The rest of the world. *)

\* ingest: an event is inserted once, for the item if its issue is attached.
Insert(e) ==
  /\ row[e] = "absent"
  /\ \A d \in Events : d < e => row[d] # "absent"
  /\ row' = [row EXCEPT ![e] = IF IssueOf[e] \in attached THEN "PENDING" ELSE "loose"]
  /\ UNCHANGED <<nonce, issued, attached, lifecycle, session, daemon, clocks, recycled, faults>>

\* attachIssueToWorkItem and reparentInboxByIssue, in one transaction.
Attach(i) ==
  /\ i \notin attached
  /\ item \notin {"COMPLETED", "FAILED_HOLD"}
  /\ attached' = attached \cup {i}
  /\ row' = [e \in Events |->
               IF row[e] = "loose" /\ IssueOf[e] = i THEN "PENDING" ELSE row[e]]
  /\ UNCHANGED <<nonce, issued, lifecycle, session, daemon, clocks, recycled, faults>>

\* The controller around the relay; all of it is in WorkQueue.
ItemMoves ==
  /\ \E to \in {"RUNNING", "PAUSED_WORK", "FAILED_HOLD", "COMPLETED"} :
       /\ \/ to = "RUNNING" /\ item \in {"DEFERRED", "WAITING", "AWAITING_DECISION",
                                        "PAUSED_WORK"}
          \/ to = "PAUSED_WORK" /\ item = "RUNNING"
          \/ to = "FAILED_HOLD" /\ item \in Relayed     \* drift, session census
          \/ /\ to = "COMPLETED" /\ item = "RUNNING"
             /\ \E n \in applied : answer[n] = "completed"
       /\ item' = to
  /\ UNCHANGED <<rows, applied, heeded, session, daemon, clocks, recycled, faults>>

\* OpenCode takes messages in order; a turn ends in a report.
AgentAnswers ==
  /\ turns # {} /\ exists
  /\ \E a \in Outcomes :
       LET n == CHOOSE m \in turns : \A k \in turns : m <= k IN
       /\ answer' = [answer EXCEPT ![n] = a]
       /\ turns' = turns \ {n}
  /\ UNCHANGED <<rows, lifecycle, told, exists, worktree, daemon, clocks, recycled, faults>>

\* noReply, an aborted turn, or one that only leaves a compaction summary.
TurnDropped ==
  /\ turns # {} /\ faults < MaxFaults
  /\ \E n \in turns, a \in {"none", "summary"} :
       /\ answer' = [answer EXCEPT ![n] = a]
       /\ turns' = turns \ {n}
  /\ faults' = faults + 1
  /\ UNCHANGED <<rows, lifecycle, told, exists, worktree, daemon, clocks, recycled>>

SessionDeleted ==
  /\ exists /\ faults < MaxFaults
  /\ exists' = FALSE /\ turns' = {}
  /\ faults' = faults + 1
  /\ UNCHANGED <<rows, lifecycle, told, answer, worktree, daemon, clocks, recycled>>

\* A cleanup, or somebody beside Tissue, takes the files of the item away.
WorktreeLost ==
  /\ worktree /\ faults < MaxFaults
  /\ worktree' = FALSE
  /\ faults' = faults + 1
  /\ UNCHANGED <<rows, lifecycle, told, answer, turns, exists, daemon, clocks, recycled>>

\* The daemon dies and is started again, or a call of this visit throws.
Interrupted ==
  /\ at # "rest" /\ faults < MaxFaults
  /\ Rest
  /\ faults' = faults + 1
  /\ UNCHANGED <<rows, lifecycle, session, age, recycled>>

Later(t, on) == IF on /\ t < Wedge THEN t + 1 ELSE t

\* A turn or a pass that takes longer than W_turn is a fault.
Tick ==
  LET slow == \/ turns # {} /\ Later(age, In("DELIVERING") # {}) >= Turn
              \/ at \notin {"rest", "observe"} /\ passAge < Turn IN
  /\ age' = Later(age, In("DELIVERING") # {})
  /\ passAge' = Later(passAge, at # "rest")
  /\ IF slow THEN faults < MaxFaults /\ faults' = faults + 1 ELSE UNCHANGED faults
  /\ UNCHANGED <<rows, lifecycle, session, daemon, recycled>>

-----------------------------------------------------------------------------
Daemon ==
  \/ BeginPass \/ ListItem \/ Visit \/ Sample \/ Mark \/ Prompt \/ Observe
  \/ ReadResult \/ Apply \/ Adopt \/ Recycle \/ Hold

World ==
  \/ \E e \in Events : Insert(e)
  \/ \E i \in Issues : Attach(i)
  \/ ItemMoves \/ AgentAnswers \/ TurnDropped \/ SessionDeleted \/ WorktreeLost
  \/ Interrupted \/ Tick

Next == Daemon \/ World

Spec == Init /\ [][Next]_vars

\* The daemon passes again and again, a turn that is not dropped ends, and time
\* passes.
Fairness == WF_vars(Daemon) /\ WF_vars(AgentAnswers) /\ SF_vars(Tick)
LiveSpec == Spec /\ Fairness

-----------------------------------------------------------------------------
(* Properties. *)

TypeOK ==
  /\ row \in [Events -> RowStates]
  /\ nonce \in [Events -> Nonces \cup {0}]
  /\ issued \in Nonces \cup {0}
  /\ attached \in SUBSET Issues
  /\ item \in WorkItemStates
  /\ applied \in SUBSET Nonces /\ heeded \in SUBSET Nonces
  /\ told \in [Nonces -> SUBSET Events]
  /\ answer \in [Nonces -> {"none", "summary"} \cup Outcomes]
  /\ turns \in SUBSET Nonces
  /\ exists \in BOOLEAN /\ worktree \in BOOLEAN
  /\ at \in Places
  /\ hand \in [ids : SUBSET Events, nonce : Nonces \cup {0}, left : 0 .. IdleSamples,
               seen : 0 .. Wedge, resumed : BOOLEAN]
  /\ age \in 0 .. Wedge /\ passAge \in 0 .. Wedge
  /\ recycled \in SUBSET Events
  /\ faults \in 0 .. MaxFaults

\* A DELIVERED event was in the very message its nonce names, and that message
\* was answered (rule 3 of the header: neither acceptance nor idleness counts).
DeliveredIsAnswered ==
  \A e \in Events : row[e] = "DELIVERED" =>
    /\ e \in told[nonce[e]]
    /\ answer[nonce[e]] \notin {"none", "summary"}

\* No report is lost: unless the session was deleted, the answer to every
\* DELIVERED event has reached the work item (applyResolutionResult before
\* adoptDelivered, across crashes, retries and answers that do not parse).
DeliveredIsHeeded ==
  \A e \in Events : row[e] = "DELIVERED" /\ exists => nonce[e] \in heeded

\* The agent never has two of the relay's messages before it: after a recycled
\* delivery the next prompt waits for the turn that may still run (G3, G4).
OnePromptAtATime == Cardinality(turns) <= 1

\* An answer moves the item at most once, although a crash between the result
\* and adoptDelivered has it read again, possibly after the item went on.
AnswerMovesOnce ==
  [][\A n \in Nonces : at = "apply" /\ hand.nonce = n /\ n \in applied =>
       item' = item \/ at' = "apply"]_vars

\* Every event that can be relayed is settled in the end, while the item stays
\* with the agent, unless a turn reported something that cannot be applied, or
\* cannot for want of the worktree.
Unusable ==
  \/ ~worktree
  \/ \E n \in Nonces : \/ answer[n] = "garbage"
                       \/ answer[n] = "decision" /\ item = "WAITING"

EventsSettle ==
  \A e \in Events :
    <>[](item \in Relayed) => (row[e] = "PENDING" ~> row[e] = "DELIVERED" \/ Unusable)

\* The header's rule 4: W_wedge after an event was first delivered and not
\* answered, it is not recycled again but the item is put on hold.  Two recycles
\* without a reply, each after W_turn, are W_wedge.
WedgeIsHeld ==
  [][at = "recycle" /\ hand.resumed => hand.ids \cap recycled = {}]_vars

\* The detailed relay implements the mailbox.
StageOf(e) ==
  IF row[e] = "DELIVERED" THEN "settled"
  ELSE IF \E n \in Nonces : e \in told[n] /\ answer[n] \notin {"none", "summary"}
  THEN "answered"
  ELSE IF \E n \in Nonces : e \in told[n] THEN "told" ELSE "waiting"

Box == INSTANCE Mailbox WITH stage <- [e \in Events |-> StageOf(e)]

MailboxImplemented == Box!Spec
=============================================================================
