------------------------------ MODULE Mailbox ------------------------------
(***************************************************************************)
(* What the inbox relay promises for the events of one work item, and      *)
(* nothing else (the header of inbox-relay.ts, "ordered durable inbox      *)
(* delivery"): an event is told to the agent, possibly more than once;     *)
(* the agent answers; only then is the event settled, and it stays so.     *)
(* The events of one issue are told in the order of their ids.             *)
(***************************************************************************)
EXTENDS Naturals

CONSTANTS
  Events,   \* inbox.id
  IssueOf   \* the issue each event belongs to

VARIABLE stage   \* how far each event has come

Stages == {"waiting", "told", "answered", "settled"}

Earlier(e) == {d \in Events : d < e /\ IssueOf[d] = IssueOf[e]}

Init == stage = [e \in Events |-> "waiting"]

\* A bundle is told for the first time: nothing earlier is left out.
Tell(S) ==
  /\ \A e \in S :
       /\ stage[e] = "waiting"
       /\ \A d \in Earlier(e) : d \in S \/ stage[d] # "waiting"
  /\ stage' = [e \in Events |-> IF e \in S THEN "told" ELSE stage[e]]

Advance(S, from, to) ==
  /\ \A e \in S : stage[e] = from
  /\ stage' = [e \in Events |-> IF e \in S THEN to ELSE stage[e]]

Answer(S) == Advance(S, "told", "answered")
Settle(S) == Advance(S, "answered", "settled")

Next == \E S \in SUBSET Events : Tell(S) \/ Answer(S) \/ Settle(S)

Spec == Init /\ [][Next]_stage
=============================================================================
