------------------------------- MODULE MCCache ------------------------------
(***************************************************************************)
(* Small formulas for Cache, and a hash with collisions.                   *)
(***************************************************************************)
EXTENDS Cache

P(v) == PosLit(v)
N(v) == NegLit(v)

\* Under 0 and under its negation the clauses of 2, 3, 4 are the same, from
\* other clauses, in another order and one of them twice; 1 changes a sign.
Twice == <<{P(0), P(2), P(3)}, {P(0), N(3), P(4)}, {P(0), P(2), P(3), P(4)},
           {N(0), P(2), P(3), P(4)}, {N(0), P(2), P(3)}, {N(0), N(3), P(4)}, {N(0), P(3), P(2)},
           {P(1), P(2), N(4)}, {N(1), P(2), P(4)}>>

\* Two components side by side, of different sizes.
Apart2 == <<{P(0), P(1), P(2)}, {P(0), N(2), P(1)}, {N(0), P(1), N(2)},
            {P(0), P(3), P(4)}, {N(0), P(3), P(4)}, {N(0), N(3), P(5)}, {P(0), N(4), P(5)}>>

F(clauses, store, base, decided) ==
  [clauses |-> clauses, store |-> store, base |-> base, decided |-> decided]

MCFormulas ==
  {F(Twice, "NT", 8, {0, 1}), F(Twice, "NB", 16, {0, 2}),
   F(Apart2, "ALL", 5, {0}), F(Apart2, "NT", 16, {0, 3})}

\* Two lists, by the parity of the sum.
MCHashOf(s) == FoldLeft(+, 0, s) % 2

=============================================================================
