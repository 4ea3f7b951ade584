------------------------------ MODULE Literals ------------------------------
(***************************************************************************)
(* The literals and variables of var.hpp.  A variable is an index starting *)
(* at 0; a literal is the integer 2 * variable + (1 if negative), so that  *)
(* it can index an array and its negation flips the low bit.  Both compare *)
(* as these integers do.                                                   *)
(***************************************************************************)
EXTENDS Integers

CONSTANT NumVars        \* number of variables of the "p cnf" header

ASSUME NumVarsAssumption == NumVars \in Nat \ {0}

Var == 0 .. NumVars - 1
Lit == 0 .. 2 * NumVars - 1

PosLit(v) == 2 * v              \* Literal(v, 1)
NegLit(v) == 2 * v + 1          \* Literal(v, -1)
Neg(l)    == IF l % 2 = 0 THEN l + 1 ELSE l - 1
VarOf(l)  == l \div 2

(***************************************************************************)
(* Formulas are interpreted over total assignments; an assignment is the   *)
(* set of the variables that are true in it.                               *)
(***************************************************************************)
Assignments == SUBSET Var

Satisfies(m, l) == IF l % 2 = 0 THEN VarOf(l) \in m ELSE VarOf(l) \notin m
SatClause(m, c) == \E l \in c : Satisfies(m, l)

\* The models of a set of clauses.
Models(cs) == {m \in Assignments : \A c \in cs : SatClause(m, c)}

\* The restriction of a set of assignments to the variables of vs.
ProjectOn(ms, vs) == {m \cap vs : m \in ms}

=============================================================================
