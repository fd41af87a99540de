--------------------------- MODULE MCPlanLifecycle ---------------------------
(***************************************************************************)
(* Small instances of PlanLifecycle.                                       *)
(***************************************************************************)
EXTENDS PlanPromises, TLC

CONSTANTS d1, d2, secA, secB

Block(sec, from, to, ds) == [section |-> sec, start |-> from, end |-> to, demands |-> ds]

\* What Optima may build: one block of routine work, one of signalling work, both one
\* after the other, or two on neighbouring sections.
RoutineOffers == {Block(secA, 0, 1, {d1})}
SignalOffers == {Block(secA, 0, 1, {d2})}
InTurn == {Block(secA, 0, 1, {d1}), Block(secA, 1, 2, {d2})}
SideBySide == {Block(secA, 0, 1, {d1}), Block(secB, 0, 1, {d2})}

OneWindow == 0..1
TwoWindows == 0..2
Touching == {<<secA, secB>>}
NoNeighbours == {}

Symmetric == Permutations(Plans) \cup Permutations(Users) \cup Permutations(Keys)
             \cup Permutations(Rows) \cup Permutations(Sessions) \cup Permutations(Incidents)
SymmetricIds == Permutations(Plans) \cup Permutations(Keys)
============================================================================
