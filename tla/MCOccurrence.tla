---------------------------- MODULE MCOccurrence ---------------------------
(***************************************************************************)
(* Small formulas for Occurrence over the variables 0 .. 3; the literals   *)
(* of variable v are 2v and 2v + 1.                                        *)
(***************************************************************************)
EXTENDS Occurrence

SmallFormulas ==
  { <<{0, 2}, {4, 6}>>,                         \* two components
    <<{0, 2}, {1, 4}, {3, 5}>>,                 \* a cycle
    <<{0, 2, 4}, {1, 2, 6}, {5, 7}>>,
    <<{0, 2}, {1, 3}, {4, 6}, {5, 7}>>,         \* components that propagate
    <<{0, 2, 4}, {0, 3, 6}, {1, 4, 6}>>,
    <<{0, 2}, {0, 3}, {4, 6}>>,                 \* a unit propagation misses
    <<{0, 1, 2}, {4, 6}>>,                      \* a tautology
    <<{0, 4}, {1, 6}, {2, 4}, {3, 6}>> }

=============================================================================
