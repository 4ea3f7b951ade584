---------------------------- MODULE MCProjection ----------------------------
(***************************************************************************)
(* Small input files for Projection.                                       *)
(***************************************************************************)
EXTENDS Projection

CONSTANTS
  MaxShort,     \* clauses of a file of short clauses
  MaxOdd        \* clauses of a file of odd ones

LOCAL SE == INSTANCE SequencesExt
LOCAL FSE == INSTANCE FiniteSetsExt

\* Files of clauses of one or two literals over distinct variables, every set
\* of them in one order: growth, reuse of slots, subsumption, propagation.
ShortClauses == {c \in Clauses : Cardinality(c) \in {1, 2} /\ ~ IsTautology(c)}
ShortFiles ==
  UNION {{SE!SetToSeq(S) : S \in FSE!kSubset(n, ShortClauses)} : n \in 0 .. MaxShort}

\* Files, in every order, of the clauses a generator seldom writes: the empty
\* one, contradictory units, a tautology, repetitions.
OddClauses == {{}, {0}, {1}, {0, 1}, {0, 2}, {1, 2, 4}}
OddFiles == UNION {[1 .. n -> OddClauses] : n \in 0 .. MaxOdd}

Files == ShortFiles \cup OddFiles

=============================================================================
