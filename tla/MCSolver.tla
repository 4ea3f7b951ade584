------------------------------ MODULE MCSolver ------------------------------
(***************************************************************************)
(* Small problems for Solver.  The literals of variable v are 2v, 2v + 1.  *)
(***************************************************************************)
EXTENDS Solver

Compiler(cs) ==
  [clauses |-> cs, driver |-> "compile", phases |-> {TRUE}, maxBranches |-> 2, maxExtra |-> 1]
Counter(cs) == [Compiler(cs) EXCEPT !.driver = "count"]

BothPhases(p) == [p EXCEPT !.phases = BOOLEAN]
Limit(p, n, e) == [p EXCEPT !.maxBranches = n, !.maxExtra = e]

Late == <<{0, 2, 6}, {0, 3, 6}, {4, 7}>>       \* a unit propagation misses
Hidden == <<{0, 2}, {0, 3}, {4, 6}>>           \* two components
Mixed == <<{0, 2}, {1, 4}, {3, 4, 6}, {5, 7}>> \* chains of propagations
Wide == <<{0, 2, 4, 6}, {0, 2, 4, 7}>>         \* learnt clauses to forget
Refuted == <<{0, 2, 4}, {0, 2, 5}, {0, 3, 4}, {0, 3, 5}, {1, 2}, {1, 3}>> \* found false by the search
Units == <<{0, 2}, {3, 0}, {1}, {4, 6}>>       \* found false while it is read
Stripping == <<{0}, {0, 2}, {4, 5}, {1, 2, 4}, {3, 6}>>

Backbone == <<{0, 2}, {0, 3}, {2, 4, 6}>>      \* a unit no positive decision meets

SmallProblems ==
  { Compiler(Late), BothPhases(Compiler(Hidden)), [Compiler(Backbone) EXCEPT !.phases = {FALSE}],
    BothPhases(Counter(Mixed)), Limit(Compiler(Wide), 0, 1), Limit(Counter(Wide), 2, 0), Compiler(Refuted),
    Compiler(Units), Compiler(Stripping), Compiler(<<{0}, {1}>>) }

=============================================================================
