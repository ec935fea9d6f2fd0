---------------------------- MODULE WorkQueueMC ----------------------------
(***************************************************************************)
(* Instances of WorkQueue for TLC.                                         *)
(***************************************************************************)
EXTENDS WorkQueue

CONSTANTS a, b, c, i, r1, r2

OneRepo == [w \in WorkItems |-> r1]
TwoRepos == [w \in WorkItems |-> IF w = a THEN r1 ELSE r2]
LastInOther == [w \in WorkItems |-> IF w = c THEN r2 ELSE r1]

MCRepoLimit == [r \in Repos |-> 1]

\* a before b before c in claim order.
MCRank == [w \in WorkItems |-> CASE w = a -> 1 [] w = b -> 2 [] OTHER -> 3]

\* What the agents may report.
OnlyCompleted == [w \in WorkItems |-> {"completed"}]
AnyOutcome == [w \in WorkItems |-> Outcomes]

\* What they may defer on: nothing, or anything but the item itself.
NoDependencies == [w \in WorkItems |-> {}]
OnlyBOnA == [w \in WorkItems |-> IF w = b THEN {a} ELSE {}]
AnyDependency == [w \in WorkItems |-> Targets \ {w}]
=============================================================================
