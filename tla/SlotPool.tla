------------------------------ MODULE SlotPool ------------------------------
(***************************************************************************)
(* What the work queue promises about capacity, and nothing else: a pool   *)
(* of run slots, GlobalLimit in all and RepoLimit[r] for repository r.  An *)
(* item takes a slot only while both counts are below their limit; slots   *)
(* are given back at any time, several at once if need be.                 *)
(*                                                                         *)
(* queue.ts states this promise in its header ("Capacity semantics");      *)
(* WorkQueue implements it with the states of the work_items rows.         *)
(***************************************************************************)
EXTENDS Naturals, FiniteSets

CONSTANTS
  WorkItems,    \* identities a work_items row can have
  Repos,        \* managed repositories
  RepoOf,       \* the repository each item belongs to
  GlobalLimit,  \* maxConcurrentGlobal
  RepoLimit     \* max_concurrent_per_repo of each repository

VARIABLE busy   \* the items that hold a run slot

InRepo(S, r) == {w \in S : RepoOf[w] = r}

Init == busy = {}

Acquire(w) ==
  /\ w \notin busy
  /\ Cardinality(busy) < GlobalLimit
  /\ Cardinality(InRepo(busy, RepoOf[w])) < RepoLimit[RepoOf[w]]
  /\ busy' = busy \cup {w}

Release ==
  \E S \in SUBSET busy :
    /\ S # {}
    /\ busy' = busy \ S

Next == (\E w \in WorkItems : Acquire(w)) \/ Release

Spec == Init /\ [][Next]_busy

\* The pool is never over-committed, in total or for any one repository.
WithinLimits ==
  /\ Cardinality(busy) <= GlobalLimit
  /\ \A r \in Repos : Cardinality(InRepo(busy, r)) <= RepoLimit[r]
=============================================================================
