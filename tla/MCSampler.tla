----------------------------- MODULE MCSampler -----------------------------
(***************************************************************************)
(* Small graphs for Sampler, as the compiler prints them for formulas over *)
(* the variables 0 .. 3; the literals of variable v are 2v and 2v + 1.     *)
(***************************************************************************)
EXTENDS Sampler

E(dst, units, free) == [dst |-> dst, units |-> units, free |-> free]
Leaf == <<>>
To(dst) == E(dst, {}, <<>>)

\* A graph from the kinds of its nodes 1, 2, ... and their edges.
G(kinds, edges) ==
  [kind |-> [n \in 0 .. Len(kinds) |-> IF n = 0 THEN "true" ELSE kinds[n]],
   out  |-> [n \in 0 .. Len(kinds) |-> IF n = 0 THEN <<>> ELSE edges[n]]]

Unsat == G(<<"or", "false">>, <<<<To(2)>>, Leaf>>)
Free(units, free) == G(<<"or", "true">>, <<<<E(2, units, free)>>, Leaf>>)

\* (0 or 1) with what is left of the variables set or free.
Clause01(units, free) ==
  G(<<"or", "or", "true">>,
    <<<<E(2, units, free)>>, <<E(3, {0}, <<1>>), E(3, {1, 2}, <<>>)>>, Leaf>>)

\* (0 or 1) and (2 or 3): two components, the true node shared.
TwoClauses ==
  G(<<"or", "and", "or", "true", "or">>,
    <<<<To(2)>>, <<To(3), To(5)>>, <<E(4, {0}, <<1>>), E(4, {1, 2}, <<>>)>>, Leaf,
      <<E(4, {4}, <<3>>), E(4, {5, 6}, <<>>)>>>>)

\* A decision node reached by two edges of its parent.
Twice ==
  G(<<"or", "or", "or", "true">>,
    <<<<To(2)>>, <<E(3, {0}, <<1>>), E(3, {1, 2}, <<>>)>>,
      <<E(4, {4}, <<3>>), E(4, {5, 6}, <<>>)>>, Leaf>>)

\* A node shared by a node and its parent.
Skip ==
  G(<<"or", "or", "or", "or", "true">>,
    <<<<To(2)>>, <<E(3, {0}, <<>>), E(4, {1}, <<1>>)>>,
      <<E(4, {2}, <<>>), E(5, {3}, <<2, 3>>)>>,
      <<E(5, {4}, <<3>>), E(5, {5, 6}, <<>>)>>, Leaf>>)

\* A unary node below an and node, and a branch that is false.
Chain ==
  G(<<"or", "and", "unary", "true", "or", "false">>,
    <<<<To(2)>>, <<To(3), To(5)>>, <<E(4, {0}, <<1>>)>>, Leaf,
      <<E(4, {4, 7}, <<>>), E(6, {5}, <<3>>)>>, Leaf>>)

ProjectedGraphs ==
  {<<Unsat, {0, 1}>>, <<Unsat, {}>>, <<Free({0, 2, 4, 6}, <<>>), {}>>,
   <<Free({4, 6}, <<0, 1>>), {0, 1}>>, <<Free({3, 4, 6}, <<0>>), {0, 1}>>,
   <<Clause01({4, 6}, <<>>), {0, 1}>>, <<Clause01({6}, <<2>>), {0, 1, 2}>>,
   <<TwoClauses, Var>>, <<Twice, Var>>, <<Skip, Var>>, <<Chain, Var>>}
Graphs == {Unsat, Free({}, <<0, 1, 2, 3>>), Clause01({}, <<2, 3>>), TwoClauses,
           Twice, Skip, Chain}

\* What the projection tool promises of the two formulas: every model of the
\* projected one extends to a model of both.
Covers(in) ==
  \A p \in NnfModels(Restricted(in.pn, in.keep)) :
    \E m \in NnfModels(in.un) : m \cap in.keep = p \cap in.keep
GraphPairs ==
  {in \in {[pn |-> p[1], keep |-> p[2], un |-> u] : p \in ProjectedGraphs, u \in Graphs} :
     Covers(in)}

=============================================================================
