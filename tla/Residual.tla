----------------------------- MODULE Residual ------------------------------
(***************************************************************************)
(* What the compiler needs of an occurrence manager: a stack of residual   *)
(* formulas.  Literals are assumed or a component is singled out, each     *)
(* time on top of the formula there was, and that formula comes back.      *)
(***************************************************************************)
EXTENDS Literals, Sequences

VARIABLES
  clauses,  \* the clauses of the formula, by number
  stack     \* the formulas: the literals assumed, the clauses still there

Top == stack[Len(stack)]

\* The variables of clause c that the literals of ls leave free.
FreeVars(c, ls) == {VarOf(l) : l \in {k \in clauses[c] : {k, Neg(k)} \cap ls = {}}}

Consistent(ls) == \A l \in ls : Neg(l) \notin ls

Init == stack = <<[lits |-> {}, live |-> DOMAIN clauses]>>

\* The stack grows: said first, it spares TLC all the sets below.
Grows == Len(stack') = Len(stack) + 1

Assume ==
  /\ Grows
  /\ \E ls \in SUBSET {l \in Lit : {l, Neg(l)} \cap Top.lits = {}} :
       /\ Consistent(ls)
       /\ stack' = Append(stack, [lits |-> Top.lits \cup ls,
                                  live |-> {c \in Top.live : clauses[c] \cap ls = {}}])
  /\ UNCHANGED clauses

\* vs is a union of components: no clause is partly inside.
Restrict ==
  /\ Grows
  /\ \E vs \in SUBSET Var :
       LET inside(c) == FreeVars(c, Top.lits) \subseteq vs IN
       /\ \A c \in Top.live : inside(c) \/ FreeVars(c, Top.lits) \cap vs = {}
       /\ stack' = Append(stack, [Top EXCEPT !.live = {c \in Top.live : inside(c)}])
  /\ UNCHANGED clauses

Pop ==
  /\ Len(stack) > 1
  /\ stack' = SubSeq(stack, 1, Len(stack) - 1)
  /\ UNCHANGED clauses

Next == Assume \/ Restrict \/ Pop

Spec == Init /\ [][Next]_<<clauses, stack>>

=============================================================================
