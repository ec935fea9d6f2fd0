------------------------------ MODULE Pipeline ------------------------------
(***************************************************************************)
(* What the effect outbox promises about the outside world: the work of an *)
(* item is published, then proposed as a pull request, then merged or      *)
(* rejected, and recorded as completed only after a merge.  No stage is    *)
(* skipped and none is taken back, whoever executes the effects and        *)
(* whatever fails on the way (the headers of effects.ts and of its         *)
(* adoptPrAndScheduleMerge and completeMergedWorkItem).                    *)
(***************************************************************************)

CONSTANT Items   \* work items

VARIABLE stage   \* how far the work of each item has come

Stages == {"working", "published", "proposed", "merged", "rejected", "completed"}

Init == stage = [w \in Items |-> "working"]

Move(w, from, to) == stage[w] = from /\ stage' = [stage EXCEPT ![w] = to]

Publish(w)  == Move(w, "working", "published")
Propose(w)  == Move(w, "published", "proposed")
Merge(w)    == Move(w, "proposed", "merged")
Reject(w)   == Move(w, "proposed", "rejected")
Complete(w) == Move(w, "merged", "completed")

Next ==
  \E w \in Items :
    Publish(w) \/ Propose(w) \/ Merge(w) \/ Reject(w) \/ Complete(w)

Spec == Init /\ [][Next]_stage
=============================================================================
