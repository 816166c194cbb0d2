--------------------------- MODULE MCConfigHistory ---------------------------
EXTENDS ConfigHistory, TLC

\* Requests are not told apart.
Symmetry == Permutations(Ops)

SmallBound == [edit |-> 2, silent |-> 1, rollback |-> 2, backup |-> 1, restore |-> 1, prune |-> 1,
               failure |-> 1, any |-> 3]
=============================================================================
