-------------------------- MODULE InboxRelay_proofs --------------------------
(***************************************************************************)
(* Proofs about InboxRelay, for any events, any number of deliveries and   *)
(* any number of faults.                                                   *)
(*                                                                         *)
(* The rows of table inbox and the transcript are tied together by the     *)
(* nonce.  All DELIVERING rows are one bundle: they have one nonce, and    *)
(* the message with it, once it is in the transcript, holds exactly them   *)
(* (OneBundle).  What the daemon holds between two awaited calls is that   *)
(* bundle (HeldBundle), and an answer it has seen stays an answer, because *)
(* a nonce is prompted only once and only when no turn is left             *)
(* (FreshNonce, NoTurnYet).  So the rows it settles are those whose answer *)
(* it has read.                                                            *)
(***************************************************************************)
EXTENDS InboxRelay, FiniteSetTheorems, WellFoundedInduction, TLAPS

\* The transcript holds a turn that answers the message with nonce n.
Heard(n) == told[n] # {} /\ answer[n] \notin {"none", "summary"}

\* No message is in the transcript before its nonce was made, the agent has at most
\* one message before it, and a turn that has ended is over.
Transcript ==
    /\ \A n \in Nonces : n > issued => told[n] = {} /\ answer[n] = "none"
    /\ \A n \in turns : n <= issued /\ answer[n] = "none" /\ told[n] # {}
    /\ \A m, n \in turns : m = n
    /\ ~exists => turns = {}

\* Events come in the order of their ids, and are of the item once their issue is.
RowsInOrder ==
    /\ \A d, e \in Events : row[e] # "absent" /\ d < e => row[d] # "absent"
    /\ \A e \in Events : row[e] = "loose" => IssueOf[e] \notin attached
    /\ \A e \in Events : row[e] \in {"PENDING", "DELIVERING", "DELIVERED"} => IssueOf[e] \in attached

\* DELIVERING rows are one bundle, which is in the transcript as a whole or not at all.
OneBundle ==
    \A d, e \in In("DELIVERING") :
        /\ nonce[d] = nonce[e]
        /\ nonce[e] \in 1 .. issued
        /\ told[nonce[e]] \in {{}, In("DELIVERING")}

\* Between the choice of a bundle and its nonce: the rows wait.
ClaimedBundle ==
    at \in {"sample", "mark"} =>
        hand.ids # {} /\ hand.ids \subseteq In("PENDING") /\ In("DELIVERING") = {}

\* A bundle that is to be prompted leaves out nothing earlier of its issues.
BundleInOrder ==
    at \in {"sample", "mark", "prompt"} =>
        \A e \in hand.ids, d \in Events :
            d < e /\ IssueOf[d] = IssueOf[e] => d \in hand.ids \/ row[d] = "DELIVERED"

\* The samples found the session idle, and only the prompt starts a turn.
NoTurnYet ==
    /\ at = "sample" => hand.left >= 1 /\ (hand.left < IdleSamples => turns = {})
    /\ at \in {"mark", "prompt"} => turns = {}

\* The nonce of a prompt is new.
FreshNonce ==
    at = "prompt" =>
        /\ hand.nonce = issued /\ hand.nonce \in Nonces
        /\ told[hand.nonce] = {} /\ answer[hand.nonce] = "none"

\* From the nonce on, the daemon holds the bundle that is DELIVERING.
HeldBundle ==
    at \in {"prompt", "observe", "read", "apply", "adopt", "recycle"} =>
        /\ hand.ids = In("DELIVERING") /\ hand.ids # {}
        /\ \A e \in hand.ids : nonce[e] = hand.nonce

\* What the daemon does with an answer, it does with one that is there.
AnswerInHand ==
    /\ at \in {"read", "apply", "adopt"} => Heard(hand.nonce)
    /\ at = "apply" => answer[hand.nonce] \in Valid
    /\ at = "adopt" /\ exists => hand.nonce \in heeded

\* What is sent of an issue is sent with everything earlier of it, or after that.
SentInOrder ==
    \A d, e \in Events :
        d < e /\ IssueOf[d] = IssueOf[e] =>
            /\ row[e] = "DELIVERED" => row[d] = "DELIVERED"
            /\ row[e] = "DELIVERING" => row[d] \in {"DELIVERING", "DELIVERED"}

\* relayOldestInbox: the agent is never told of an event as settled while an earlier one
\* of the same issue is not.
DeliveredInOrder ==
    \A d, e \in Events :
        d < e /\ IssueOf[d] = IssueOf[e] /\ row[e] = "DELIVERED" => row[d] = "DELIVERED"

\* adoptDelivered is final: no retry, recycling or re-parenting touches the row again.
DeliveredIsFinal ==
    [][\A e \in Events : row[e] = "DELIVERED" => row'[e] = "DELIVERED" /\ nonce'[e] = nonce[e]]_vars

\* A DELIVERED row keeps a nonce.
DeliveredIsNamed == \A e \in Events : row[e] = "DELIVERED" => nonce[e] \in Nonces

WhatIsHeld ==
    /\ ClaimedBundle
    /\ BundleInOrder
    /\ NoTurnYet
    /\ FreshNonce
    /\ HeldBundle
    /\ AnswerInHand

IInv ==
    /\ TypeOK
    /\ Transcript
    /\ RowsInOrder
    /\ OneBundle
    /\ WhatIsHeld
    /\ SentInOrder
    /\ DeliveredIsNamed
    /\ DeliveredIsAnswered
    /\ DeliveredIsHeeded

Hands == [ids : SUBSET Events, nonce : Nonces \cup {0}, left : 0 .. IdleSamples,
          seen : 0 .. Wedge, resumed : BOOLEAN]

-----------------------------------------------------------------------------
(***************************************************************************)
(* The helpers.                                                            *)
(***************************************************************************)
LEMMA LeastNatural ==
  ASSUME NEW S \in SUBSET Nat, S # {}
  PROVE  \E m \in S : \A k \in S : m <= k
<1>1. PICK R : IsWellFoundedOn(R, Nat) /\ R = OpToRel(<, Nat)
  BY NatLessThanWellFounded, Zenon
<1>2. \A k, m \in Nat : <<k, m>> \in R <=> k < m
  <2>1. R = {ss \in Nat \X Nat : ss[1] < ss[2]}
    BY <1>1, Zenon DEF OpToRel
  <2>. QED BY ONLY <2>1
<1>3. PICK m \in S : \A k \in S : ~(<<k, m>> \in R)
  BY <1>1, WFMin, Zenon
<1>4. \A k \in S : ~(k < m)
  BY <1>2, <1>3, Zenon
<1>5. S \subseteq Nat
  OBVIOUS
<1>. QED BY ONLY <1>4, <1>5, m \in S

\* No outcome of a turn is a missing one.
LEMMA OutcomesAreAnswers ==
  /\ \A a \in Outcomes : a \notin {"none", "summary"}
  /\ \A a \in Valid : a \notin {"none", "summary", "garbage"}
  /\ \A a \in Valid \ {"completed"} : OutcomeTo[a] \in WorkItemStates
BY RelayAssumption DEF Valid, OutcomeTo, WorkItemStates

LEMMA NoHandIsAHand == NoHand \in Hands /\ NoHand.ids = {}
BY RelayAssumption DEF NoHand, Hands, Wedge

\* The rows that are resumed go by the nonce of the first of them, hence by that of all.
LEMMA ResumeStep ==
  ASSUME TypeOK, OneBundle, Resume
  PROVE  /\ hand' \in Hands
         /\ hand'.ids = In("DELIVERING") /\ hand'.resumed
         /\ \A e \in In("DELIVERING") : nonce[e] = hand'.nonce
<1>. DEFINE D == In("DELIVERING")
            first == CHOOSE e \in D : \A d \in D : e <= d
<1>1. D \in SUBSET Nat /\ D # {} /\ D \subseteq Events
  BY RelayAssumption DEF Resume, In
<1>2. first \in D
  BY <1>1, LeastNatural
<1>3. hand' = [hand EXCEPT !.ids = D, !.resumed = TRUE, !.nonce = nonce[first]]
  BY DEF Resume
<1>4. nonce[first] \in Nonces \cup {0}
  BY <1>1, <1>2 DEF TypeOK
<1>5. hand'.ids = D /\ hand'.resumed /\ hand'.nonce = nonce[first] /\ hand' \in Hands
  <2>. HIDE DEF D, first
  <2>. QED BY <1>1, <1>3, <1>4 DEF TypeOK, Hands
<1>6. \A e \in D : nonce[e] = nonce[first]
  BY <1>2 DEF OneBundle
<1>. QED BY <1>5, <1>6

-----------------------------------------------------------------------------
(***************************************************************************)
(* The conjuncts of IInv, step by step.                                    *)
(***************************************************************************)
LEMMA InitIInv == Init => IInv
<1> SUFFICES ASSUME Init PROVE IInv
  OBVIOUS
<1>1. TypeOK
  BY RelayAssumption, NoHandIsAHand
  DEF Init, TypeOK, Hands, RowStates, WorkItemStates, Places, Wedge, Nonces, Issues
<1>2. In("DELIVERING") = {}
  BY DEF Init, In
<1>. QED
  BY <1>1, <1>2 DEF Init, IInv, WhatIsHeld, Transcript, RowsInOrder, OneBundle, ClaimedBundle,
     BundleInOrder, NoTurnYet, FreshNonce, HeldBundle, AnswerInHand, SentInOrder,
     DeliveredIsNamed, DeliveredIsAnswered, DeliveredIsHeeded

\* Every step keeps the values in their sets.
LEMMA TypeStep ==
  ASSUME TypeOK, OneBundle, ClaimedBundle, NoTurnYet, FreshNonce, HeldBundle, AnswerInHand,
         [Next]_vars
  PROVE  TypeOK'
<1>. USE DEF TypeOK
<1>0. Wedge = 2 /\ MaxNonces \in Nat /\ MaxFaults \in Nat /\ IdleSamples \in Nat \ {0}
  BY RelayAssumption DEF Wedge
<1>a. ASSUME UNCHANGED <<rows, lifecycle, session, age, recycled>>,
             at' \in Places, hand' \in Hands, passAge' \in 0 .. Wedge, faults' \in 0 .. MaxFaults
      PROVE  TypeOK'
  BY <1>a DEF rows, lifecycle, session, Hands
<1>b. ASSUME Rest
      PROVE  at' \in Places /\ hand' \in Hands /\ passAge' \in 0 .. Wedge
  BY <1>0, <1>b, NoHandIsAHand DEF Rest, Places
<1>c. ASSUME NEW p \in Places, GoTo(p)
      PROVE  at' \in Places /\ hand' \in Hands /\ passAge' \in 0 .. Wedge
  BY <1>c DEF GoTo, Hands
<1>1. CASE BeginPass
  <2>1. hand' \in Hands
    BY <1>1, NoHandIsAHand DEF BeginPass, Hands
  <2>. QED BY <1>0, <1>1, <1>a, <2>1 DEF BeginPass, Places
<1>2. CASE ListItem
  BY <1>2, <1>a, <1>b, <1>c DEF ListItem, Places
<1>3. CASE Visit
  <2>1. ASSUME ClaimBundle PROVE hand' \in Hands
    <3>1. In("PENDING") \in SUBSET Events /\ IdleSamples \in 0 .. IdleSamples
      BY <1>0 DEF In
    <3>. QED BY <2>1, <3>1 DEF ClaimBundle, Hands
  <2>. QED BY <1>3, <1>a, <1>b, <2>1, ResumeStep DEF Visit, Resume, ClaimBundle, NothingToRelay, Places
<1>4. CASE Sample
  <2>1. ASSUME at = "sample", hand' = [hand EXCEPT !.left = @ - 1] PROVE hand' \in Hands
    BY <1>0, <2>1 DEF NoTurnYet, Hands
  <2>. QED BY <1>4, <1>a, <1>b, <1>c, <2>1 DEF Sample, Places
<1>5. CASE Mark
  <2>1. issued' \in Nonces
    BY <1>0, <1>5 DEF Mark, Nonces
  <2>2. row' \in [Events -> RowStates] /\ nonce' \in [Events -> Nonces \cup {0}]
    BY <1>5, <2>1 DEF Mark, RowStates
  <2>3. hand' \in Hands
    BY <1>5, <2>1 DEF Mark, Hands
  <2>. QED BY <1>5, <2>1, <2>2, <2>3 DEF Mark, lifecycle, session, Hands, Places
<1>6. CASE Prompt
  <2>1. hand.nonce \in Nonces /\ hand.ids \subseteq Events
    BY <1>6 DEF Prompt, FreshNonce
  <2>2. Receive \/ UNCHANGED session
    BY <1>6 DEF Prompt
  <2>3. /\ told' \in [Nonces -> SUBSET Events]
        /\ answer' \in [Nonces -> {"none", "summary"} \cup Outcomes]
        /\ turns' \in SUBSET Nonces /\ UNCHANGED <<exists, worktree>>
    BY <2>1, <2>2 DEF Receive, session
  <2>4. at' \in Places /\ hand' \in Hands /\ passAge' \in 0 .. Wedge
    BY <1>6, <1>c DEF Prompt, Places
  <2>5. faults' \in 0 .. MaxFaults
    BY <1>0, <1>6 DEF Prompt
  <2>. QED BY <1>6, <2>3, <2>4, <2>5 DEF Prompt, rows, lifecycle, Hands
<1>7. CASE Observe
  BY <1>7, <1>a, <1>b, <1>c DEF Observe, Verdict, Places
<1>8. CASE ReadResult
  BY <1>8, <1>a, <1>b, <1>c DEF ReadResult, Places
<1>9. CASE Apply
  <2>1. hand.nonce \in Nonces
    BY <1>9, <1>0 DEF Apply, AnswerInHand, HeldBundle, OneBundle, In, Nonces
  <2>2. at' \in Places /\ hand' \in Hands /\ passAge' \in 0 .. Wedge
    BY <1>9, <1>b, <1>c DEF Apply, Places
  <2>3. answer[hand.nonce] \in Valid
    BY <1>9 DEF Apply, AnswerInHand
  <2>4. item' \in WorkItemStates /\ applied' \in SUBSET Nonces /\ heeded' \in SUBSET Nonces
    BY <1>9, <2>1, <2>3, OutcomesAreAnswers DEF Apply, lifecycle
  <2>. QED BY <1>9, <2>2, <2>4 DEF Apply, rows, session, Hands
<1>10. CASE Adopt
  <2>1. row' \in [Events -> RowStates] /\ nonce' \in [Events -> Nonces \cup {0}]
    BY <1>10 DEF Adopt, Settled, RowStates
  <2>. QED BY <1>0, <1>10, <1>b, <2>1 DEF Adopt, Settled, lifecycle, session, Hands
<1>11. CASE Recycle
  <2>1. row' \in [Events -> RowStates] /\ nonce' \in [Events -> Nonces \cup {0}]
    BY <1>11 DEF Recycle, Settled, RowStates
  <2>2. recycled' \in SUBSET Events
    BY <1>11 DEF Recycle
  <2>. QED BY <1>0, <1>11, <1>b, <2>1, <2>2 DEF Recycle, Settled, lifecycle, session, Hands
<1>12. CASE Hold
  BY <1>12, <1>b DEF Hold, rows, session, Hands, WorkItemStates
<1>13. ASSUME NEW e \in Events, Insert(e)
       PROVE  TypeOK'
  BY <1>13 DEF Insert, RowStates, lifecycle, session, daemon, clocks
<1>14. ASSUME NEW i \in Issues, Attach(i)
       PROVE  TypeOK'
  <2>1. row' \in [Events -> RowStates]
    BY <1>14 DEF Attach, RowStates
  <2>. QED BY <1>14, <2>1 DEF Attach, lifecycle, session, daemon, clocks
<1>15. CASE ItemMoves
  BY <1>15 DEF ItemMoves, WorkItemStates, rows, session, daemon, clocks
<1>16. CASE AgentAnswers
  <2>. DEFINE n == CHOOSE m \in turns : \A k \in turns : m <= k
  <2>1. turns \in SUBSET Nat /\ turns # {}
    BY <1>16 DEF AgentAnswers, Nonces
  <2>2. n \in turns
    BY <2>1, LeastNatural
  <2>3. PICK a \in Outcomes : answer' = [answer EXCEPT ![n] = a] /\ turns' = turns \ {n}
    BY <1>16 DEF AgentAnswers
  <2>. HIDE DEF n
  <2>4. answer' \in [Nonces -> {"none", "summary"} \cup Outcomes] /\ turns' \in SUBSET Nonces
    BY <2>2, <2>3
  <2>. QED BY <1>16, <2>4 DEF AgentAnswers, rows, lifecycle, daemon, clocks
<1>17. CASE TurnDropped
  <2>1. answer' \in [Nonces -> {"none", "summary"} \cup Outcomes] /\ turns' \in SUBSET Nonces
    BY <1>17 DEF TurnDropped
  <2>. QED BY <1>0, <1>17, <2>1 DEF TurnDropped, rows, lifecycle, daemon, clocks
<1>18. CASE SessionDeleted
  <2>1. exists' \in BOOLEAN
    BY <1>18, Zenon DEF SessionDeleted
  <2>2. /\ turns' = {} /\ faults < MaxFaults /\ faults' = faults + 1
        /\ UNCHANGED <<rows, lifecycle, told, answer, worktree, daemon, clocks, recycled>>
    BY <1>18, Zenon DEF SessionDeleted
  <2>. QED BY <1>0, <2>1, <2>2 DEF rows, lifecycle, daemon, clocks
<1>19. CASE WorktreeLost
  <2>1. worktree' \in BOOLEAN
    BY <1>19, Zenon DEF WorktreeLost
  <2>2. /\ faults < MaxFaults /\ faults' = faults + 1
        /\ UNCHANGED <<rows, lifecycle, told, answer, turns, exists, daemon, clocks, recycled>>
    BY <1>19, Zenon DEF WorktreeLost
  <2>. QED BY <1>0, <2>1, <2>2 DEF rows, lifecycle, daemon, clocks
<1>20. CASE Interrupted
  BY <1>0, <1>20, <1>a, <1>b DEF Interrupted
<1>21. CASE Tick
  <2>1. age' \in 0 .. Wedge /\ passAge' \in 0 .. Wedge
    BY <1>0, <1>21 DEF Tick, Later
  <2>2. faults' \in 0 .. MaxFaults
    BY <1>0, <1>21 DEF Tick
  <2>. QED BY <1>21, <2>1, <2>2 DEF Tick, rows, lifecycle, session, daemon
<1>22. CASE UNCHANGED vars
  BY <1>22 DEF vars, rows, lifecycle, session, daemon, clocks
<1>. QED
  BY <1>1, <1>2, <1>3, <1>4, <1>5, <1>6, <1>7, <1>8, <1>9, <1>10, <1>11, <1>12, <1>13, <1>14,
     <1>15, <1>16, <1>17, <1>18, <1>19, <1>20, <1>21, <1>22 DEF Next, Daemon, World

\* A turn that ends, with an answer or without, was the only one.
LEMMA TurnEnds ==
  ASSUME TypeOK, Transcript, AgentAnswers \/ TurnDropped
  PROVE  \E n \in Nonces, a \in {"none", "summary"} \cup Outcomes :
           /\ turns = {n} /\ turns' = {} /\ answer' = [answer EXCEPT ![n] = a]
           /\ n <= issued /\ answer[n] = "none" /\ told[n] # {}
<1>1. CASE AgentAnswers
  <2>. DEFINE n == CHOOSE m \in turns : \A k \in turns : m <= k
  <2>1. turns \in SUBSET Nat /\ turns # {} /\ turns \subseteq Nonces
    BY <1>1 DEF AgentAnswers, Nonces, TypeOK
  <2>2. n \in turns
    BY <2>1, LeastNatural
  <2>3. PICK a \in Outcomes : answer' = [answer EXCEPT ![n] = a] /\ turns' = turns \ {n}
    BY <1>1 DEF AgentAnswers
  <2>. HIDE DEF n
  <2>4. turns = {n} /\ turns' = {} /\ n \in Nonces
    BY <2>1, <2>2, <2>3 DEF Transcript
  <2>5. n <= issued /\ answer[n] = "none" /\ told[n] # {}
    BY <2>2 DEF Transcript
  <2>. QED BY <2>3, <2>4, <2>5
<1>2. CASE TurnDropped
  <2>1. PICK n \in turns, a \in {"none", "summary"} :
          answer' = [answer EXCEPT ![n] = a] /\ turns' = turns \ {n}
    BY <1>2 DEF TurnDropped
  <2>2. turns = {n} /\ turns' = {} /\ n \in Nonces
    BY <2>1 DEF Transcript, TypeOK
  <2>3. n <= issued /\ answer[n] = "none" /\ told[n] # {}
    BY <2>1 DEF Transcript
  <2>. QED BY <1>2, <2>1, <2>2, <2>3
<1>. QED BY <1>1, <1>2

\* What is not the daemon leaves the nonces and the bundles as they are.
LEMMA WorldStep ==
  ASSUME TypeOK, Transcript, World \/ UNCHANGED vars
  PROVE  /\ UNCHANGED <<nonce, issued, told, applied, heeded>>
         /\ UNCHANGED daemon \/ at' = "rest"
         /\ \A e \in Events : /\ row[e] \in {"PENDING", "DELIVERING", "DELIVERED"} => row'[e] = row[e]
                              /\ row'[e] \in {"DELIVERING", "DELIVERED"} => row[e] = row'[e]
         /\ turns' \subseteq turns
         /\ turns = {} => UNCHANGED answer
         /\ exists' => exists
<1>1. ASSUME NEW e \in Events, Insert(e)
      PROVE  /\ UNCHANGED <<nonce, issued, lifecycle, session, daemon>>
             /\ \A d \in Events : /\ row[d] \in {"PENDING", "DELIVERING", "DELIVERED"} => row'[d] = row[d]
                                  /\ row'[d] \in {"DELIVERING", "DELIVERED"} => row[d] = row'[d]
  BY <1>1 DEF Insert, TypeOK
<1>2. ASSUME NEW i \in Issues, Attach(i)
      PROVE  /\ UNCHANGED <<nonce, issued, lifecycle, session, daemon>>
             /\ \A d \in Events : /\ row[d] \in {"PENDING", "DELIVERING", "DELIVERED"} => row'[d] = row[d]
                                  /\ row'[d] \in {"DELIVERING", "DELIVERED"} => row[d] = row'[d]
  BY <1>2 DEF Attach, TypeOK
<1>3. CASE ItemMoves
  BY <1>3 DEF ItemMoves, rows, session
<1>4. CASE AgentAnswers \/ TurnDropped
  <2>1. UNCHANGED <<rows, lifecycle, told, exists, daemon>>
    BY <1>4 DEF AgentAnswers, TurnDropped
  <2>2. turns' \subseteq turns /\ turns # {}
    BY <1>4, TurnEnds
  <2>. QED BY <2>1, <2>2 DEF rows, lifecycle
<1>5. CASE SessionDeleted
  BY <1>5 DEF SessionDeleted, rows, lifecycle
<1>6. CASE Interrupted
  BY <1>6 DEF Interrupted, Rest, rows, lifecycle, session
<1>7. CASE WorktreeLost
  BY <1>7 DEF WorktreeLost, rows, lifecycle
<1>8. CASE Tick \/ UNCHANGED vars
  BY <1>8 DEF Tick, vars, rows, lifecycle, session
<1>. QED BY <1>1, <1>2, <1>3, <1>4, <1>5, <1>6, <1>7, <1>8 DEF World, lifecycle, session

\* A message in the transcript stays as it is, and so does an answer to it.
LEMMA HeardIsStable ==
  ASSUME TypeOK, Transcript, FreshNonce, [Next]_vars, NEW n \in Nonces, told[n] # {}
  PROVE  /\ told'[n] = told[n]
         /\ Heard(n) => answer'[n] = answer[n]
<1>1. CASE Prompt
  BY <1>1 DEF Prompt, Receive, session, FreshNonce, TypeOK
<1>2. CASE AgentAnswers \/ TurnDropped
  <2>1. UNCHANGED told
    BY <1>2 DEF AgentAnswers, TurnDropped
  <2>2. Heard(n) => answer'[n] = answer[n]
    BY <1>2, TurnEnds DEF Heard, TypeOK
  <2>. QED BY <2>1, <2>2
<1>3. ASSUME Next, ~Prompt, ~AgentAnswers, ~TurnDropped
      PROVE  UNCHANGED <<told, answer>>
  BY <1>3 DEF Next, Daemon, World, BeginPass, ListItem, Visit, Sample, Mark, Observe, ReadResult,
     Apply, Adopt, Recycle, Hold, Insert, Attach, ItemMoves, SessionDeleted, WorktreeLost,
     Interrupted, Tick, session
<1>4. CASE UNCHANGED vars
  BY <1>4 DEF vars, session
<1>. QED BY <1>1, <1>2, <1>3, <1>4

\* Messages get new nonces, one at a time, and a turn ends once.
LEMMA TranscriptStep ==
  ASSUME TypeOK, Transcript, NoTurnYet, FreshNonce, HeldBundle, [Next]_vars
  PROVE  Transcript'
<1>1. CASE Mark
  <2>1. issued' = issued + 1 /\ issued \in Nat /\ UNCHANGED <<told, answer, turns, exists>>
    BY <1>1 DEF Mark, TypeOK, Nonces, session
  <2>2. \A n \in Nonces : /\ n > issued' => n > issued
                          /\ n <= issued => n <= issued'
    BY <2>1 DEF Nonces
  <2>3. turns \subseteq Nonces
    BY DEF TypeOK
  <2>. QED BY <2>1, <2>2, <2>3 DEF Transcript
<1>2. CASE Prompt
  <2>. DEFINE n == hand.nonce
  <2>1. /\ n \in Nonces /\ n = issued /\ turns = {} /\ answer[n] = "none"
        /\ hand.ids # {} /\ hand.ids \subseteq Events
    BY <1>2 DEF Prompt, NoTurnYet, FreshNonce, HeldBundle, TypeOK
  <2>2. UNCHANGED issued
    BY <1>2 DEF Prompt, rows
  <2>3. CASE exists /\ Receive
    <3>1. /\ told' = [told EXCEPT ![n] = hand.ids] /\ turns' = {n}
          /\ UNCHANGED <<answer, exists>>
      BY <2>1, <2>3 DEF Receive
    <3>2. \A m \in Nonces : m > issued => told'[m] = {} /\ answer'[m] = "none"
      <4>1. \A m \in Nonces : m > issued => m # n
        BY <2>1 DEF Nonces
      <4>. QED BY <3>1, <4>1 DEF Transcript, TypeOK
    <3>3. told'[n] = hand.ids
      BY <2>1, <3>1 DEF TypeOK
    <3>4. n <= issued
      BY <2>1 DEF Nonces
    <3>5. exists'
      BY <2>3, <3>1
    <3>. QED BY <2>1, <2>2, <3>1, <3>2, <3>3, <3>4, <3>5 DEF Transcript
  <2>4. CASE UNCHANGED session
    BY <2>2, <2>4 DEF Transcript, session
  <2>. QED BY <1>2, <2>3, <2>4 DEF Prompt
<1>3. CASE AgentAnswers \/ TurnDropped
  <2>1. UNCHANGED <<told, exists, issued>>
    BY <1>3 DEF AgentAnswers, TurnDropped, rows
  <2>2. PICK n \in Nonces, a \in {"none", "summary"} \cup Outcomes :
          turns' = {} /\ answer' = [answer EXCEPT ![n] = a] /\ n <= issued
    BY <1>3, TurnEnds
  <2>3. \A m \in Nonces : m > issued => answer'[m] = answer[m]
    BY <2>2 DEF TypeOK, Nonces
  <2>. QED BY <2>1, <2>2, <2>3 DEF Transcript
<1>4. CASE SessionDeleted
  <2>1. turns' = {} /\ UNCHANGED <<told, answer, issued>>
    BY <1>4 DEF SessionDeleted, rows
  <2>. QED BY <2>1 DEF Transcript
<1>5. ASSUME Next, ~Mark, ~Prompt, ~AgentAnswers, ~TurnDropped, ~SessionDeleted
      PROVE  UNCHANGED <<told, answer, turns, exists, issued>>
  BY <1>5 DEF Next, Daemon, World, BeginPass, ListItem, Visit, Sample, Observe, ReadResult, Apply,
     Adopt, Recycle, Settled, Hold, Insert, Attach, ItemMoves, WorktreeLost, Interrupted, Tick,
     rows, session
<1>6. CASE UNCHANGED <<told, answer, turns, exists, issued>>
  BY <1>6 DEF Transcript
<1>7. CASE UNCHANGED vars
  BY <1>6, <1>7 DEF vars, rows, session
<1>. QED BY <1>1, <1>2, <1>3, <1>4, <1>5, <1>6, <1>7

\* Rows are inserted in order, and an attachment takes all rows of its issue along.
LEMMA RowsStep ==
  ASSUME TypeOK, RowsInOrder, ClaimedBundle, [Next]_vars
  PROVE  RowsInOrder'
<1>1. ASSUME NEW e \in Events, Insert(e)
      PROVE  RowsInOrder'
  <2>1. /\ row' = [row EXCEPT ![e] = IF IssueOf[e] \in attached THEN "PENDING" ELSE "loose"]
        /\ \A d \in Events : d < e => row[d] # "absent"
        /\ UNCHANGED attached
    BY <1>1 DEF Insert
  <2>2. \A d \in Events \ {e} : row'[d] = row[d]
    BY <2>1 DEF TypeOK
  <2>3. row'[e] = IF IssueOf[e] \in attached THEN "PENDING" ELSE "loose"
    BY <2>1 DEF TypeOK
  <2>4. ASSUME NEW c \in Events, NEW d \in Events, row'[d] # "absent", c < d
        PROVE  row'[c] # "absent"
    <3>1. c # d
      BY <2>4, RelayAssumption
    <3>. QED BY <2>1, <2>2, <2>3, <2>4, <3>1 DEF RowsInOrder
  <2>. QED BY <2>1, <2>2, <2>3, <2>4 DEF RowsInOrder
<1>2. ASSUME NEW i \in Issues, Attach(i)
      PROVE  RowsInOrder'
  <2>1. /\ attached' = attached \cup {i}
        /\ \A e \in Events : row'[e] = IF row[e] = "loose" /\ IssueOf[e] = i THEN "PENDING" ELSE row[e]
    BY <1>2 DEF Attach
  <2>. QED BY <2>1 DEF RowsInOrder
<1>3. ASSUME Mark \/ Adopt \/ Recycle
      PROVE  /\ UNCHANGED attached
             /\ \A e \in Events :
                  \/ row'[e] = row[e]
                  \/ {row[e], row'[e]} \subseteq {"PENDING", "DELIVERING", "DELIVERED"}
  BY <1>3 DEF Mark, Adopt, Recycle, Settled, In
<1>4. CASE Mark \/ Adopt \/ Recycle
  BY <1>3, <1>4 DEF RowsInOrder
<1>5. ASSUME Next, ~Mark, ~Adopt, ~Recycle,
             ~(\E e \in Events : Insert(e)), ~(\E i \in Issues : Attach(i))
      PROVE  UNCHANGED rows
  BY <1>5 DEF Next, Daemon, World, BeginPass, ListItem, Visit, Sample, Prompt, Observe, ReadResult,
     Apply, Hold, ItemMoves, AgentAnswers, TurnDropped, SessionDeleted, WorktreeLost,
     Interrupted, Tick
<1>6. CASE UNCHANGED rows
  BY <1>6 DEF RowsInOrder, rows
<1>7. CASE UNCHANGED vars
  BY <1>6, <1>7 DEF vars
<1>. QED BY <1>1, <1>2, <1>4, <1>5, <1>6, <1>7

\* A nonce marks a bundle when there is none, and is settled with the whole of it.
LEMMA BundleStep ==
  ASSUME TypeOK, Transcript, OneBundle, ClaimedBundle, FreshNonce, HeldBundle, [Next]_vars
  PROVE  OneBundle'
<1>. DEFINE D == In("DELIVERING")
<1>1. CASE World \/ UNCHANGED vars
  <2>1. D' = D /\ UNCHANGED <<nonce, issued, told>>
    BY <1>1, WorldStep DEF In
  <2>. QED BY <2>1 DEF OneBundle
<1>2. CASE Mark
  <2>1. D = {} /\ issued' = issued + 1 /\ UNCHANGED told
    BY <1>2 DEF Mark, ClaimedBundle, session
  <2>2. issued' \in Nonces /\ issued' > issued /\ issued' \in 1 .. issued'
    <3>1. issued \in Nat /\ issued < MaxNonces /\ MaxNonces \in Nat
      BY <1>2, RelayAssumption DEF Mark, TypeOK, Nonces
    <3>. QED BY ONLY <2>1, <3>1 DEF Nonces
  <2>3. \A e \in D' : nonce'[e] = issued'
    BY <1>2, <2>1 DEF Mark, In
  <2>4. told'[issued'] = {}
    BY <2>1, <2>2 DEF Transcript
  <2>. QED BY <2>2, <2>3, <2>4 DEF OneBundle
<1>3. CASE Adopt \/ Recycle
  <2>1. D' = {}
    BY <1>3 DEF Adopt, Recycle, Settled, HeldBundle, In
  <2>. QED BY <2>1 DEF OneBundle
<1>4. CASE Prompt
  <2>1. D' = D /\ UNCHANGED <<nonce, issued>>
    BY <1>4 DEF Prompt, rows, In
  <2>2. hand.nonce \in Nonces /\ hand.ids = D /\ \A e \in D : nonce[e] = hand.nonce
    BY <1>4 DEF Prompt, FreshNonce, HeldBundle
  <2>3. told' = told \/ told' = [told EXCEPT ![hand.nonce] = D]
    BY <1>4, <2>2 DEF Prompt, Receive, session
  <2>. HIDE DEF D
  <2>4. \A e \in D : told'[nonce[e]] \in {{}, D}
    BY <2>2, <2>3 DEF OneBundle, D, TypeOK
  <2>. QED BY <2>1, <2>4 DEF OneBundle, D
<1>5. ASSUME Daemon, ~Mark, ~Adopt, ~Recycle, ~Prompt
      PROVE  D' = D /\ UNCHANGED <<nonce, issued, told>>
  BY <1>5 DEF Daemon, BeginPass, ListItem, Visit, Sample, Observe, ReadResult, Apply, Hold, rows,
     session, In
<1>6. CASE D' = D /\ UNCHANGED <<nonce, issued, told>>
  BY <1>6 DEF OneBundle
<1>. QED BY <1>1, <1>2, <1>3, <1>4, <1>5, <1>6 DEF Next

\* What the daemon holds is true at its next place, too; at rest it holds nothing.
LEMMA HeldStep ==
  ASSUME TypeOK, Transcript, RowsInOrder, OneBundle, WhatIsHeld, [Next]_vars
  PROVE  WhatIsHeld'
<1>. DEFINE D == In("DELIVERING")
            P == In("PENDING")
<1>. USE DEF ClaimedBundle, BundleInOrder, NoTurnYet, FreshNonce, HeldBundle, AnswerInHand
<1>0. /\ ClaimedBundle /\ BundleInOrder /\ NoTurnYet /\ FreshNonce /\ HeldBundle /\ AnswerInHand
  BY DEF WhatIsHeld
<1>1. ASSUME at' \in {"rest", "list", "visit", "hold"}
      PROVE  WhatIsHeld'
  BY <1>1 DEF WhatIsHeld
<1>2. CASE World \/ UNCHANGED vars
  <2>1. CASE at' = "rest"
    BY <1>1, <2>1
  <2>2. CASE UNCHANGED daemon
    <3>1. /\ at' = at /\ hand' = hand /\ UNCHANGED <<nonce, issued, told, applied, heeded>>
          /\ D' = D /\ P \subseteq P'
          /\ \A e \in Events : row[e] = "DELIVERED" => row'[e] = "DELIVERED"
          /\ turns = {} => turns' = {} /\ UNCHANGED answer
          /\ exists' => exists
      <4>1. at' = at /\ hand' = hand
        BY <2>2 DEF daemon
      <4>2. D' = D /\ P \subseteq P'
        BY <1>2, WorldStep DEF In
      <4>. QED BY <1>2, <4>1, <4>2, WorldStep
    <3>2. ASSUME at \in {"read", "apply", "adopt"}
          PROVE  hand.nonce \in Nonces /\ Heard(hand.nonce)' /\ answer'[hand.nonce] = answer[hand.nonce]
      <4>1. hand.nonce \in Nonces
        BY <1>0, <3>2 DEF OneBundle, In, Nonces, TypeOK
      <4>2. /\ told'[hand.nonce] = told[hand.nonce]
            /\ answer'[hand.nonce] = answer[hand.nonce]
        BY <1>0, <3>2, <4>1, HeardIsStable DEF Heard
      <4>. QED BY <1>0, <3>1, <3>2, <4>1, <4>2 DEF Heard
    <3>3. ClaimedBundle' /\ BundleInOrder' /\ NoTurnYet'
      BY <1>0, <3>1
    <3>4. FreshNonce' /\ HeldBundle'
      BY <1>0, <3>1
    <3>5. AnswerInHand'
      BY <1>0, <3>1, <3>2 DEF Heard
    <3>. QED BY <3>3, <3>4, <3>5 DEF WhatIsHeld
  <2>. QED BY <1>2, <2>1, <2>2, WorldStep
<1>3. CASE BeginPass \/ ListItem \/ Adopt \/ Recycle \/ Hold
  BY <1>1, <1>3 DEF BeginPass, ListItem, Adopt, Recycle, Hold, Rest, GoTo
<1>4. CASE Visit
  <2>1. UNCHANGED <<rows, session, row, nonce, turns>>
    BY <1>4 DEF Visit, rows, session
  <2>2. CASE Resume
    <3>1. at' = "observe" /\ hand'.ids = D /\ D # {} /\ \A e \in D : nonce[e] = hand'.nonce
      BY <2>2, ResumeStep DEF Resume
    <3>. QED BY <2>1, <3>1 DEF WhatIsHeld, In
  <2>3. CASE ClaimBundle
    <3>1. /\ at' = "sample" /\ hand'.ids = P /\ hand'.left = IdleSamples
          /\ D = {} /\ P # {}
      BY <2>3 DEF ClaimBundle, TypeOK
    <3>2. P' = P /\ D' = D
      BY <2>1 DEF In
    <3>3. ASSUME NEW e \in P, NEW d \in Events, d < e, IssueOf[d] = IssueOf[e]
          PROVE  d \in P \/ row[d] = "DELIVERED"
      <4>1. row[e] = "PENDING" /\ e \in Events
        BY DEF In
      <4>2. row[d] # "absent" /\ row[d] # "loose"
        BY <3>3, <4>1 DEF RowsInOrder
      <4>3. row[d] \in RowStates /\ row[d] # "DELIVERING"
        BY <3>1 DEF TypeOK, In
      <4>. QED BY <4>2, <4>3 DEF RowStates, In
    <3>4. IdleSamples >= 1 /\ ~(IdleSamples < IdleSamples)
      BY RelayAssumption
    <3>. HIDE DEF P, D
    <3>5. ClaimedBundle' /\ NoTurnYet'
      BY <3>1, <3>2, <3>4 DEF P, D
    <3>6. BundleInOrder'
      BY <2>1, <3>1, <3>3
    <3>. QED BY <3>1, <3>5, <3>6 DEF WhatIsHeld
  <2>4. CASE NothingToRelay
    BY <1>1, <2>4 DEF NothingToRelay, Rest
  <2>. QED BY <1>4, <2>2, <2>3, <2>4 DEF Visit
<1>5. CASE Sample
  <2>1. at = "sample" /\ UNCHANGED <<row, nonce, turns>>
    BY <1>5 DEF Sample, rows, session
  <2>2. CASE GoTo("hold") \/ Rest
    BY <1>1, <2>2 DEF GoTo, Rest
  <2>3. CASE /\ turns = {}
             /\ at' = IF hand.left = 1 THEN "mark" ELSE "sample"
             /\ hand' = [hand EXCEPT !.left = @ - 1]
    <3>1. hand'.ids = hand.ids /\ hand'.left = hand.left - 1
      BY <2>3 DEF TypeOK
    <3>2. hand.left \in Nat /\ hand.left >= 1
      BY <1>0, <2>1 DEF TypeOK
    <3>3. at' = "sample" => hand'.left >= 1
      BY <2>3, <3>1, <3>2
    <3>4. ClaimedBundle' /\ BundleInOrder' /\ NoTurnYet'
      BY <1>0, <2>1, <2>3, <3>1, <3>3 DEF In
    <3>. QED BY <2>3, <3>4 DEF WhatIsHeld
  <2>. QED BY <1>5, <2>2, <2>3 DEF Sample
<1>6. CASE Mark
  <2>1. /\ at' = "prompt" /\ issued' = issued + 1
        /\ hand' = [hand EXCEPT !.nonce = issued']
        /\ row' = [e \in Events |-> IF e \in hand.ids \cap P THEN "DELIVERING" ELSE row[e]]
        /\ nonce' = [e \in Events |-> IF e \in hand.ids \cap P THEN issued' ELSE nonce[e]]
        /\ UNCHANGED <<told, answer, turns, exists>>
    BY <1>6 DEF Mark, session
  <2>2. issued' \in Nonces /\ issued' > issued
    BY <1>6, <2>1, RelayAssumption DEF Mark, TypeOK, Nonces
  <2>3. hand'.ids = hand.ids /\ hand'.nonce = issued'
    <3>1. hand \in [ids : SUBSET Events, nonce : Nonces \cup {0}, left : 0 .. IdleSamples,
                    seen : 0 .. Wedge, resumed : BOOLEAN]
      BY DEF TypeOK
    <3>2. hand' = [hand EXCEPT !.nonce = issued']
      BY <2>1
    <3>. QED BY ONLY <3>1, <3>2
  <2>4. hand.ids # {} /\ hand.ids \subseteq P /\ D = {} /\ turns = {}
    BY <1>0, <1>6 DEF Mark
  <2>5. D' = hand.ids
    BY <2>1, <2>4 DEF In
  <2>6. told'[issued'] = {} /\ answer'[issued'] = "none"
    BY <2>1, <2>2 DEF Transcript
  <2>7. BundleInOrder'
    BY <1>0, <1>6, <2>1, <2>3, <2>4 DEF Mark, In
  <2>8. \A e \in hand.ids : nonce'[e] = issued'
    BY <2>1, <2>4 DEF In
  <2>9. FreshNonce' /\ HeldBundle'
    BY <2>1, <2>2, <2>3, <2>4, <2>5, <2>6, <2>8
  <2>. QED BY <2>1, <2>4, <2>7, <2>9 DEF WhatIsHeld
<1>7. CASE Prompt
  <2>1. at = "prompt" /\ at' \in {"observe", "recycle"} /\ UNCHANGED <<hand, row, nonce>>
    BY <1>7 DEF Prompt, GoTo, rows
  <2>2. HeldBundle'
    BY <1>0, <2>1 DEF In
  <2>. QED BY <2>1, <2>2 DEF WhatIsHeld
<1>8. CASE Observe
  <2>1. at = "observe" /\ UNCHANGED <<row, nonce, told, answer>>
    BY <1>8 DEF Observe, rows, session
  <2>2. CASE Rest \/ GoTo("hold")
    BY <1>1, <2>2 DEF GoTo, Rest
  <2>3. CASE GoTo("read") /\ Answered(hand.nonce)
    <3>1. at' = "read" /\ hand' = hand /\ Heard(hand.nonce)'
      BY <2>1, <2>3 DEF GoTo, Answered, Heard
    <3>. QED BY <1>0, <2>1, <3>1 DEF WhatIsHeld, In
  <2>4. CASE GoTo("recycle")
    BY <1>0, <2>1, <2>4 DEF WhatIsHeld, GoTo, In
  <2>5. Rest \/ GoTo("hold") \/ (GoTo("read") /\ Answered(hand.nonce)) \/ GoTo("recycle")
    <3>1. \/ Verdict = "rest" \/ Verdict = "hold" \/ Verdict = "recycle"
          \/ Verdict = "read" /\ Answered(hand.nonce)
      BY Zenon DEF Verdict
    <3>2. IF Verdict = "rest" THEN Rest ELSE GoTo(Verdict)
      BY <1>8, Zenon DEF Observe
    <3>. QED BY <3>1, <3>2
  <2>. QED BY <2>2, <2>3, <2>4, <2>5
<1>9. CASE ReadResult
  <2>1. at = "read" /\ UNCHANGED <<row, nonce, told, answer, exists, heeded>>
    BY <1>9 DEF ReadResult, rows, session, lifecycle
  <2>2. CASE Rest
    BY <1>1, <2>2 DEF Rest
  <2>3. CASE GoTo("apply") /\ answer[hand.nonce] \in Valid
    <3>1. at' = "apply" /\ hand' = hand /\ Heard(hand.nonce)'
      BY <1>0, <2>1, <2>3 DEF GoTo, Heard
    <3>. QED BY <1>0, <2>1, <2>3, <3>1 DEF WhatIsHeld, In
  <2>4. CASE GoTo("adopt") /\ ~Answered(hand.nonce)
    <3>1. at' = "adopt" /\ hand' = hand /\ Heard(hand.nonce)'
      BY <1>0, <2>1, <2>4 DEF GoTo, Heard
    <3>2. ~exists'
      BY <1>0, <2>1, <2>4 DEF Answered, Heard
    <3>. QED BY <1>0, <2>1, <3>1, <3>2 DEF WhatIsHeld, In
  <2>. QED BY <1>9, <2>2, <2>3, <2>4 DEF ReadResult
<1>10. CASE Apply
  <2>1. at = "apply" /\ UNCHANGED <<row, nonce, told, answer, exists>>
    BY <1>10 DEF Apply, rows, session
  <2>2. CASE Rest
    BY <1>1, <2>2 DEF Rest
  <2>3. CASE GoTo("adopt") /\ heeded' = heeded \cup {hand.nonce}
    <3>1. at' = "adopt" /\ hand' = hand /\ Heard(hand.nonce)' /\ hand.nonce \in heeded'
      BY <1>0, <2>1, <2>3 DEF GoTo, Heard
    <3>. QED BY <1>0, <2>1, <3>1 DEF WhatIsHeld, In
  <2>. QED BY <1>10, <2>2, <2>3 DEF Apply
<1>. QED
  BY <1>2, <1>3, <1>4, <1>5, <1>6, <1>7, <1>8, <1>9, <1>10 DEF Next, Daemon

\* The claimed bundle leaves out nothing earlier, and it is settled as a whole.
LEMMA SentInOrderStep ==
  ASSUME TypeOK, Transcript, WhatIsHeld, SentInOrder, [Next]_vars
  PROVE  SentInOrder'
<1>. DEFINE D == In("DELIVERING")
<1>0. ClaimedBundle /\ BundleInOrder /\ HeldBundle
  BY DEF WhatIsHeld
<1>1. CASE World \/ UNCHANGED vars
  <2>1. \A e \in Events :
          /\ row[e] \in {"PENDING", "DELIVERING", "DELIVERED"} => row'[e] = row[e]
          /\ row'[e] \in {"DELIVERING", "DELIVERED"} => row[e] = row'[e]
    BY <1>1, WorldStep
  <2>. QED BY <2>1 DEF SentInOrder
<1>2. CASE Mark
  <2>1. /\ D = {} /\ hand.ids \subseteq In("PENDING") /\ at = "mark"
        /\ \A e \in Events : row'[e] = IF e \in hand.ids THEN "DELIVERING" ELSE row[e]
    BY <1>0, <1>2 DEF Mark, ClaimedBundle, In
  <2>2. ASSUME NEW d \in Events, NEW e \in Events, d < e, IssueOf[d] = IssueOf[e],
               row'[e] = "DELIVERED"
        PROVE  row'[d] = "DELIVERED"
    <3>1. row[e] = "DELIVERED" /\ row[d] = "DELIVERED"
      BY <2>1, <2>2 DEF SentInOrder
    <3>. QED BY <2>1, <3>1 DEF In
  <2>3. ASSUME NEW d \in Events, NEW e \in Events, d < e, IssueOf[d] = IssueOf[e],
               row'[e] = "DELIVERING"
        PROVE  row'[d] \in {"DELIVERING", "DELIVERED"}
    <3>1. e \in hand.ids
      BY <2>1, <2>3 DEF In
    <3>2. d \in hand.ids \/ row[d] = "DELIVERED"
      BY <1>0, <2>1, <2>3, <3>1 DEF BundleInOrder
    <3>. QED BY <2>1, <3>2 DEF In
  <2>. QED BY <2>2, <2>3 DEF SentInOrder
<1>3. CASE Adopt
  <2>1. \A e \in Events : row'[e] = IF row[e] = "DELIVERING" THEN "DELIVERED" ELSE row[e]
    BY <1>0, <1>3 DEF Adopt, Settled, HeldBundle, In
  <2>. QED BY <2>1 DEF SentInOrder
<1>4. CASE Recycle
  <2>1. \A e \in Events : row'[e] = IF row[e] = "DELIVERING" THEN "PENDING" ELSE row[e]
    BY <1>0, <1>4 DEF Recycle, Settled, HeldBundle, In
  <2>. QED BY <2>1 DEF SentInOrder
<1>5. ASSUME Daemon, ~Mark, ~Adopt, ~Recycle
      PROVE  row' = row
  BY <1>5 DEF Daemon, BeginPass, ListItem, Visit, Sample, Prompt, Observe, ReadResult, Apply, Hold,
     rows
<1>. QED BY <1>1, <1>2, <1>3, <1>4, <1>5 DEF Next, SentInOrder

\* Only adoptDelivered makes rows DELIVERED: those of the bundle whose answer it read.
LEMMA WhoDelivers ==
  ASSUME TypeOK, Transcript, WhatIsHeld, [Next]_vars
  PROVE  /\ \A e \in Events : row[e] = "DELIVERED" => row'[e] = "DELIVERED" /\ nonce'[e] = nonce[e]
         /\ ~Adopt => \A e \in Events : row'[e] = "DELIVERED" => row[e] = "DELIVERED"
         /\ Adopt => \A e \in Events : row'[e] = "DELIVERED" /\ row[e] # "DELIVERED" =>
                        e \in In("DELIVERING") /\ nonce'[e] = hand.nonce
<1>1. CASE World \/ UNCHANGED vars
  BY <1>1, WorldStep
<1>2. CASE Mark
  BY <1>2 DEF Mark, Adopt, In
<1>3. CASE Adopt
  <2>1. hand.ids = In("DELIVERING")
    BY <1>3 DEF Adopt, WhatIsHeld, HeldBundle
  <2>. QED BY <1>3, <2>1 DEF Adopt, Settled, In
<1>4. CASE Recycle
  BY <1>4 DEF Recycle, Adopt, Settled
<1>5. ASSUME Daemon, ~Mark, ~Adopt, ~Recycle
      PROVE  UNCHANGED <<row, nonce>>
  BY <1>5 DEF Daemon, BeginPass, ListItem, Visit, Sample, Prompt, Observe, ReadResult, Apply, Hold, rows
<1>6. CASE UNCHANGED <<row, nonce>> /\ ~Adopt
  BY <1>6
<1>. QED BY <1>1, <1>2, <1>3, <1>4, <1>5, <1>6 DEF Next

\* The bundle of an answer in hand is what the answered message holds.
LEMMA AnsweredBundle ==
  ASSUME TypeOK, OneBundle, WhatIsHeld, at = "adopt"
  PROVE  /\ hand.nonce \in Nonces
         /\ told[hand.nonce] = In("DELIVERING")
         /\ answer[hand.nonce] \notin {"none", "summary"}
         /\ exists => hand.nonce \in heeded
<1>1. /\ hand.ids = In("DELIVERING") /\ hand.ids # {} /\ \A e \in hand.ids : nonce[e] = hand.nonce
      /\ Heard(hand.nonce) /\ (exists => hand.nonce \in heeded)
  BY DEF WhatIsHeld, HeldBundle, AnswerInHand
<1>2. PICK e \in In("DELIVERING") : nonce[e] = hand.nonce
  BY <1>1
<1>3. hand.nonce \in 1 .. issued /\ told[hand.nonce] \in {{}, In("DELIVERING")}
  BY <1>2 DEF OneBundle
<1>. QED BY <1>1, <1>3 DEF Heard, TypeOK, Nonces

LEMMA DeliveredStep ==
  ASSUME TypeOK, Transcript, OneBundle, WhatIsHeld, DeliveredIsNamed, DeliveredIsAnswered,
         DeliveredIsHeeded, [Next]_vars
  PROVE  DeliveredIsNamed' /\ DeliveredIsAnswered' /\ DeliveredIsHeeded'
<1>0. FreshNonce
  BY DEF WhatIsHeld
<1>1. heeded \subseteq heeded' /\ (exists' => exists)
  <2>1. ASSUME Daemon PROVE heeded \subseteq heeded' /\ (exists' => exists)
    BY <2>1 DEF Daemon, BeginPass, ListItem, Visit, Sample, Mark, Prompt, Receive, Observe,
       ReadResult, Apply, Adopt, Recycle, Hold, lifecycle, session
  <2>. QED BY <2>1, WorldStep DEF Next
<1>2. ASSUME NEW e \in Events, row'[e] = "DELIVERED", row[e] = "DELIVERED"
      PROVE  /\ nonce'[e] \in Nonces
             /\ e \in told'[nonce'[e]] /\ answer'[nonce'[e]] \notin {"none", "summary"}
             /\ exists' => nonce'[e] \in heeded'
  <2>1. nonce'[e] = nonce[e]
    BY <1>2, WhoDelivers
  <2>2. /\ e \in told[nonce[e]] /\ answer[nonce[e]] \notin {"none", "summary"}
        /\ exists => nonce[e] \in heeded
    BY <1>2 DEF DeliveredIsAnswered, DeliveredIsHeeded
  <2>3. nonce[e] \in Nonces
    BY <1>2 DEF DeliveredIsNamed
  <2>4. told'[nonce[e]] = told[nonce[e]] /\ answer'[nonce[e]] = answer[nonce[e]]
    BY <1>0, <2>2, <2>3, HeardIsStable DEF Heard
  <2>. QED BY <1>1, <2>1, <2>2, <2>3, <2>4
<1>3. ASSUME NEW e \in Events, row'[e] = "DELIVERED", row[e] # "DELIVERED"
      PROVE  /\ nonce'[e] \in Nonces
             /\ e \in told'[nonce'[e]] /\ answer'[nonce'[e]] \notin {"none", "summary"}
             /\ exists' => nonce'[e] \in heeded'
  <2>1. Adopt /\ e \in In("DELIVERING") /\ nonce'[e] = hand.nonce
    BY <1>3, WhoDelivers
  <2>2. at = "adopt" /\ UNCHANGED <<told, answer>>
    BY <2>1 DEF Adopt, session
  <2>. QED BY <1>1, <2>1, <2>2, AnsweredBundle
<1>. QED BY <1>2, <1>3 DEF DeliveredIsNamed, DeliveredIsAnswered, DeliveredIsHeeded

\* IInv is inductive.
LEMMA Inductive == Spec => []IInv
<1>1. Init => IInv
  BY InitIInv
<1>2. IInv /\ [Next]_vars => IInv'
  <2> SUFFICES ASSUME IInv, [Next]_vars PROVE IInv'
    OBVIOUS
  <2>1. /\ TypeOK /\ Transcript /\ RowsInOrder /\ OneBundle /\ WhatIsHeld
        /\ SentInOrder /\ DeliveredIsNamed /\ DeliveredIsAnswered /\ DeliveredIsHeeded
        /\ ClaimedBundle /\ NoTurnYet /\ FreshNonce /\ HeldBundle /\ AnswerInHand
    BY DEF IInv, WhatIsHeld
  <2>. QED BY <2>1, TypeStep, TranscriptStep, RowsStep, BundleStep, HeldStep, SentInOrderStep,
           DeliveredStep DEF IInv
<1>. QED BY <1>1, <1>2, PTL DEF Spec

-----------------------------------------------------------------------------
\* Rows, transcript and daemon keep the values the code gives them; so every nonce the
\* daemon looks up is one that was made.
THEOREM TypeCorrect == Spec => []TypeOK
<1>1. IInv => TypeOK
  BY DEF IInv
<1>. QED BY <1>1, Inductive, PTL

\* A DELIVERED event was in the message its nonce names, and that message was answered
\* (adoptDelivered after observeCompletion), whatever crashed or was lost in between.
THEOREM DeliveredMeansAnswered == Spec => []DeliveredIsAnswered
<1>1. IInv => DeliveredIsAnswered
  BY DEF IInv
<1>. QED BY <1>1, Inductive, PTL

\* The answer to a DELIVERED event has reached the work item, unless the session was
\* deleted (applyResolutionResult before adoptDelivered).
THEOREM ReportsAreHeeded == Spec => []DeliveredIsHeeded
<1>1. IInv => DeliveredIsHeeded
  BY DEF IInv
<1>. QED BY <1>1, Inductive, PTL

\* Events of one issue are settled in the order they came in, over recycled bundles,
\* attachments and crashes between any two calls (listPendingInboxByWorkItem,
\* markInboxDelivering).
THEOREM EventsSettleInOrder == Spec => []DeliveredInOrder
<1>1. IInv => DeliveredInOrder
  BY DEF IInv, SentInOrder, DeliveredInOrder
<1>. QED BY <1>1, Inductive, PTL

\* A DELIVERED row is never touched again: the event is not sent twice once its answer was
\* seen, and the nonce that names the answer stays (adoptDelivered, recycle).
THEOREM DeliveredStaysDelivered == Spec => DeliveredIsFinal
<1>1. IInv /\ [Next]_vars =>
        [\A e \in Events : row[e] = "DELIVERED" =>
           row'[e] = "DELIVERED" /\ nonce'[e] = nonce[e]]_vars
  BY WhoDelivers DEF IInv
<1>. QED BY <1>1, Inductive, PTL DEF Spec, DeliveredIsFinal

\* The agent has at most one of the relay's messages before it: the idle samples come
\* before every prompt, and only the relay prompts (observeIdleAcrossSamples).
THEOREM OneTurnOnly == Spec => []OnePromptAtATime
<1>1. ASSUME IInv PROVE OnePromptAtATime
  <2>1. \A m, n \in turns : m = n
    BY <1>1 DEF IInv, Transcript
  <2>2. CASE turns = {}
    BY <2>2, FS_EmptySet DEF OnePromptAtATime
  <2>3. CASE turns # {}
    <3>1. PICK n : turns = {n}
      BY <2>1, <2>3
    <3>2. Cardinality(turns) = 1
      BY <3>1, FS_Singleton
    <3>. QED BY <3>2 DEF OnePromptAtATime
  <2>. QED BY <2>2, <2>3
<1>. QED BY <1>1, Inductive, PTL

\* An answer that is read again after a crash does not move the item a second time
\* (isDuplicate in applyResolutionEnvelope).
THEOREM AnswersMoveOnce == Spec => AnswerMovesOnce
<1>1. ASSUME [Next]_vars, NEW n \in Nonces, at = "apply", hand.nonce = n, n \in applied
      PROVE  item' = item \/ at' = "apply"
  <2>1. CASE Apply
    BY <1>1, <2>1 DEF Apply, lifecycle
  <2>2. CASE ItemMoves
    BY <1>1, <2>2 DEF ItemMoves, daemon
  <2>3. ASSUME Next, ~Apply, ~ItemMoves
        PROVE  item' = item
    BY <1>1, <2>3 DEF Next, Daemon, World, BeginPass, ListItem, Visit, Sample, Mark, Prompt, Observe,
       ReadResult, Adopt, Recycle, Hold, Insert, Attach, AgentAnswers, TurnDropped, SessionDeleted,
       WorktreeLost, Interrupted, Tick, lifecycle
  <2>4. CASE UNCHANGED vars
    BY <2>4 DEF vars, lifecycle
  <2>. QED BY <1>1, <2>1, <2>2, <2>3, <2>4
<1>2. [Next]_vars => [\A n \in Nonces : at = "apply" /\ hand.nonce = n /\ n \in applied =>
                        item' = item \/ at' = "apply"]_vars
  BY <1>1
<1>. QED BY <1>2, PTL DEF Spec, AnswerMovesOnce

-----------------------------------------------------------------------------
(***************************************************************************)
(* The refinement of Mailbox.                                              *)
(***************************************************************************)
Stage == [e \in Events |-> StageOf(e)]

\* The stage of an event: settled, heard of, told, or waiting.
ToldOf(e) == \E n \in Nonces : e \in told[n]
HeardOf(e) == \E n \in Nonces : e \in told[n] /\ answer[n] \notin {"none", "summary"}

LEMMA StageIs ==
  ASSUME NEW e \in Events
  PROVE  /\ row[e] = "DELIVERED" => Stage[e] = "settled"
         /\ row[e] # "DELIVERED" /\ HeardOf(e) => Stage[e] = "answered"
         /\ row[e] # "DELIVERED" /\ ~HeardOf(e) /\ ToldOf(e) => Stage[e] = "told"
         /\ row[e] # "DELIVERED" /\ ~ToldOf(e) => Stage[e] = "waiting"
BY Zenon DEF Stage, StageOf, ToldOf, HeardOf

LEMMA StageIsThen ==
  ASSUME NEW e \in Events
  PROVE  /\ row'[e] = "DELIVERED" => Stage'[e] = "settled"
         /\ row'[e] # "DELIVERED" /\ HeardOf(e)' => Stage'[e] = "answered"
         /\ row'[e] # "DELIVERED" /\ ~HeardOf(e)' /\ ToldOf(e)' => Stage'[e] = "told"
         /\ row'[e] # "DELIVERED" /\ ~ToldOf(e)' => Stage'[e] = "waiting"
BY Zenon DEF Stage, StageOf, ToldOf, HeardOf

\* What was heard of was told.
LEMMA HeardIsTold == ASSUME NEW e \in Events, HeardOf(e) PROVE ToldOf(e)
BY DEF HeardOf, ToldOf

LEMMA StageIsAFunction ==
  /\ Stage = [e \in Events |-> Stage[e]]
  /\ Stage' = [e \in Events |-> Stage'[e]]
BY DEF Stage

\* adoptDelivered settles a bundle whose answer was read.
LEMMA AdoptSettles ==
  ASSUME IInv, Adopt
  PROVE  Box!Settle(In("DELIVERING"))
<1>. DEFINE D == In("DELIVERING")
<1>1. /\ hand.nonce \in Nonces /\ told[hand.nonce] = D
      /\ answer[hand.nonce] \notin {"none", "summary"}
  BY AnsweredBundle DEF Adopt, IInv
<1>2. hand.ids = D
  BY DEF Adopt, IInv, WhatIsHeld, HeldBundle
<1>3. /\ row' = [e \in Events |-> IF e \in D /\ row[e] = "DELIVERING" THEN "DELIVERED" ELSE row[e]]
      /\ UNCHANGED <<told, answer>>
  BY <1>2 DEF Adopt, Settled, session
<1>4. ASSUME NEW e \in D
      PROVE  Stage[e] = "answered" /\ Stage'[e] = "settled"
  <2>1. e \in Events /\ row[e] = "DELIVERING" /\ HeardOf(e)
    BY <1>1 DEF In, HeardOf
  <2>2. row'[e] = "DELIVERED"
    BY <1>3, <2>1
  <2>. QED BY <2>1, <2>2, StageIs, StageIsThen
<1>5. ASSUME NEW e \in Events, e \notin D
      PROVE  Stage'[e] = Stage[e]
  <2>1. row'[e] = row[e]
    BY <1>3, <1>5
  <2>. QED BY <1>3, <2>1 DEF Stage, StageOf
<1>. HIDE DEF D
<1>6. Stage' = [e \in Events |-> IF e \in D THEN "settled" ELSE Stage[e]]
  BY <1>4, <1>5, StageIsAFunction
<1>. QED BY <1>4, <1>6 DEF Box!Settle, Box!Advance, Stage, D

\* A prompt tells the bundle to the agent, and what of it is told for the first time
\* leaves out nothing earlier.
LEMMA PromptTells ==
  ASSUME IInv, Prompt, Receive
  PROVE  Box!Tell({e \in hand.ids : Stage[e] = "waiting"})
<1>. DEFINE S == {e \in hand.ids : Stage[e] = "waiting"}
            n == hand.nonce
<1>1. /\ n \in Nonces /\ told[n] = {} /\ answer[n] = "none"
      /\ hand.ids = In("DELIVERING") /\ BundleInOrder /\ at = "prompt"
      /\ told \in [Nonces -> SUBSET Events]
  BY DEF IInv, WhatIsHeld, Prompt, FreshNonce, HeldBundle, TypeOK
<1>2. told' = [told EXCEPT ![n] = hand.ids] /\ answer' = answer /\ row' = row
  BY DEF Prompt, Receive, rows
<1>3. \A e \in Events : HeardOf(e)' <=> HeardOf(e)
  BY <1>1, <1>2 DEF HeardOf
<1>4. ASSUME NEW e \in hand.ids
      PROVE  e \in Events /\ row[e] = "DELIVERING" /\ row'[e] = "DELIVERING" /\ ToldOf(e)'
  BY <1>1, <1>2 DEF In, ToldOf
<1>5. \A e \in Events \ hand.ids : ToldOf(e)' <=> ToldOf(e)
  BY <1>1, <1>2 DEF ToldOf
<1>. HIDE DEF S, n
<1>6. ASSUME NEW e \in Events
      PROVE  Stage'[e] = IF e \in S THEN "told" ELSE Stage[e]
  <2>1. CASE e \in hand.ids
    BY <1>2, <1>3, <1>4, <2>1, StageIs, StageIsThen, HeardIsTold DEF S
  <2>2. CASE e \notin hand.ids
    BY <1>2, <1>3, <1>5, <2>2, StageIs, StageIsThen DEF S
  <2>. QED BY <2>1, <2>2
<1>7. Stage' = [e \in Events |-> IF e \in S THEN "told" ELSE Stage[e]]
  BY <1>6, StageIsAFunction
<1>8. ASSUME NEW e \in S, NEW d \in Box!Earlier(e)
      PROVE  d \in S \/ Stage[d] # "waiting"
  <2>1. e \in hand.ids /\ d \in Events /\ d < e /\ IssueOf[d] = IssueOf[e]
    BY <1>8 DEF S, Box!Earlier
  <2>2. d \in hand.ids \/ row[d] = "DELIVERED"
    BY <1>1, <2>1 DEF BundleInOrder
  <2>. QED BY <2>1, <2>2, StageIs DEF S
<1>9. \A e \in S : Stage[e] = "waiting"
  BY DEF S
<1>. QED BY <1>7, <1>8, <1>9 DEF Box!Tell, Stage, S

\* A turn that ends in a report answers what its message told; one that does not
\* changes nothing.
LEMMA TurnAnswers ==
  ASSUME IInv, AgentAnswers \/ TurnDropped
  PROVE  (\E S \in SUBSET Events : Box!Answer(S)) \/ Stage' = Stage
<1>1. PICK n \in Nonces, a \in {"none", "summary"} \cup Outcomes :
        answer' = [answer EXCEPT ![n] = a] /\ answer[n] = "none"
  BY TurnEnds DEF IInv
<1>2. /\ UNCHANGED <<row, told>> /\ answer \in [Nonces -> {"none", "summary"} \cup Outcomes]
      /\ told \in [Nonces -> SUBSET Events]
  BY DEF AgentAnswers, TurnDropped, rows, IInv, TypeOK
<1>3. \A e \in Events : ToldOf(e)' <=> ToldOf(e)
  BY <1>2 DEF ToldOf
<1>4. CASE a \in {"none", "summary"}
  <2>1. \A e \in Events : HeardOf(e)' <=> HeardOf(e)
    BY <1>1, <1>2, <1>4 DEF HeardOf
  <2>2. \A e \in Events : Stage'[e] = Stage[e]
    BY <1>2, <1>3, <2>1, StageIs, StageIsThen, HeardIsTold
  <2>. QED BY <2>2, StageIsAFunction
<1>5. CASE a \notin {"none", "summary"}
  <2>. DEFINE S == {e \in told[n] : Stage[e] = "told"}
  <2>1. \A e \in told[n] : HeardOf(e)' /\ ToldOf(e) /\ e \in Events
    BY <1>1, <1>2, <1>5 DEF HeardOf, ToldOf
  <2>2. \A e \in Events \ told[n] : HeardOf(e)' <=> HeardOf(e)
    BY <1>1, <1>2 DEF HeardOf
  <2>3. S \in SUBSET Events /\ \A e \in S : Stage[e] = "told"
    BY <1>2
  <2>. HIDE DEF S
  <2>4. ASSUME NEW e \in Events
        PROVE  Stage'[e] = IF e \in S THEN "answered" ELSE Stage[e]
    <3>1. CASE e \in told[n]
      BY <1>2, <2>1, <3>1, StageIs, StageIsThen DEF S
    <3>2. CASE e \notin told[n]
      BY <1>2, <1>3, <2>2, <3>2, StageIs, StageIsThen, HeardIsTold DEF S
    <3>. QED BY <3>1, <3>2
  <2>5. Stage' = [e \in Events |-> IF e \in S THEN "answered" ELSE Stage[e]]
    BY <2>4, StageIsAFunction
  <2>6. Box!Answer(S)
    BY <2>3, <2>5 DEF Box!Answer, Box!Advance, Stage
  <2>. QED BY <2>3, <2>6
<1>. QED BY <1>4, <1>5

\* Nothing else moves an event.
LEMMA RestIsStutter ==
  ASSUME IInv, [Next]_vars, ~Adopt, ~(Prompt /\ Receive), ~AgentAnswers, ~TurnDropped
  PROVE  Stage' = Stage
<1>1. \A e \in Events : row'[e] = "DELIVERED" <=> row[e] = "DELIVERED"
  BY WhoDelivers DEF IInv
<1>2. UNCHANGED <<told, answer>>
  BY DEF Next, Daemon, World, BeginPass, ListItem, Visit, Sample, Mark, Prompt, Observe, ReadResult,
     Apply, Recycle, Hold, Insert, Attach, ItemMoves, SessionDeleted, WorktreeLost,
     Interrupted, Tick, session, vars
<1>3. \A e \in Events : (HeardOf(e)' <=> HeardOf(e)) /\ (ToldOf(e)' <=> ToldOf(e))
  BY <1>2 DEF HeardOf, ToldOf
<1>4. \A e \in Events : Stage'[e] = Stage[e]
  BY <1>1, <1>3, StageIs, StageIsThen, HeardIsTold
<1>. QED BY <1>4, StageIsAFunction

\* The relay implements the mailbox (the header of inbox-relay.ts): an event is told,
\* answered and settled in this order, and the events of an issue in the order of their
\* ids, over crashes, lost replies, dropped turns and repeated deliveries.
THEOREM MailboxIsImplemented == Spec => MailboxImplemented
<1>1. Init => Box!Init
  <2> SUFFICES ASSUME Init PROVE Box!Init
    OBVIOUS
  <2>1. \A e \in Events : StageOf(e) = "waiting"
    BY DEF Init, StageOf
  <2>. QED BY <2>1 DEF Box!Init
<1>2. IInv /\ [Next]_vars => [Box!Next]_Stage
  <2> SUFFICES ASSUME IInv, [Next]_vars PROVE Box!Next \/ Stage' = Stage
    OBVIOUS
  <2>1. CASE Adopt
    <3>1. In("DELIVERING") \in SUBSET Events
      BY DEF In
    <3>. QED BY <2>1, <3>1, AdoptSettles DEF Box!Next
  <2>2. CASE Prompt /\ Receive
    <3>1. {e \in hand.ids : Stage[e] = "waiting"} \in SUBSET Events
      BY DEF IInv, TypeOK
    <3>. QED BY <2>2, <3>1, PromptTells DEF Box!Next
  <2>3. CASE AgentAnswers \/ TurnDropped
    BY <2>3, TurnAnswers DEF Box!Next
  <2>. QED BY <2>1, <2>2, <2>3, RestIsStutter
<1>. QED BY <1>1, <1>2, Inductive, PTL DEF Spec, MailboxImplemented, Box!Spec, Stage
=============================================================================
