-------------------------------- MODULE Nnf --------------------------------
(***************************************************************************)
(* The d-DNNF graphs of cppddnnf/src/nnf.hpp and the counts and decodings  *)
(* of nnf.cpp.  A graph g is a record of two functions on its nodes:       *)
(*                                                                         *)
(*   kind   "true", "false", "and", "or" or "unary"                        *)
(*   out    the sequence of edges to the children; an edge has the node it *)
(*          leads to (dst), the literals it sets (units) and the sequence  *)
(*          of variables it leaves open (free)                             *)
(*                                                                         *)
(* Node 0 is the true node the reader puts first, node 1 the root.  The    *)
(* edges of an and node have neither units nor free variables: the         *)
(* compiler prints none, and the decodings read none.                      *)
(***************************************************************************)
EXTENDS Literals, Sequences, FiniteSets, Functions

Root == 1
Nodes(g) == DOMAIN g.kind
Sums(kind) == kind \in {"or", "unary"}

\* The graph the reader builds when it keeps the variables of vs only.
Restricted(g, vs) ==
  [g EXCEPT !.out = [n \in Nodes(g) |->
     [i \in DOMAIN g.out[n] |->
        LET e == g.out[n][i] IN
        [dst |-> e.dst, units |-> {l \in e.units : VarOf(l) \in vs},
         free |-> SelectSeq(e.free, LAMBDA v : v \in vs)]]]]

(***************************************************************************)
(* One turn of the loop of compute_ordering: the node on top of the stack  *)
(* is dropped when it is in the ordering; appended to it when its children *)
(* are; else the children that are not go on top of it.                    *)
(***************************************************************************)
NotVisited(g, n, ordering) ==
  SelectSeq([i \in DOMAIN g.out[n] |-> g.out[n][i].dst],
            LAMBDA m : m \notin Range(ordering))

OrderingStep(g, stack, ordering) ==
  LET n == stack[Len(stack)]
      below == SubSeq(stack, 1, Len(stack) - 1)
  IN IF n \in Range(ordering)
     THEN [stack |-> below, ordering |-> ordering]
     ELSE IF NotVisited(g, n, ordering) = <<>>
     THEN [stack |-> below, ordering |-> Append(ordering, n)]
     ELSE [stack |-> stack \o NotVisited(g, n, ordering), ordering |-> ordering]

(***************************************************************************)
(* Counts.  mcv holds the counts of the nodes, assumps the assumptions.    *)
(***************************************************************************)
Refuted(e, assumps) == \E l \in e.units : Neg(l) \in assumps
Open(e, assumps) ==
  SelectSeq(e.free, LAMBDA v : PosLit(v) \notin assumps /\ NegLit(v) \notin assumps)

\* Mutant: free variables that an assumption fixes are counted as open.
GetMcAllFree(mcv, assumps, e) ==
  IF Refuted(e, assumps) THEN 0 ELSE mcv[e.dst] * 2 ^ Len(e.free)

GetMc(mcv, assumps, e) ==
  IF Refuted(e, assumps) THEN 0 ELSE mcv[e.dst] * 2 ^ Len(Open(e, assumps))

GetPc(mcv, assumps, e) == IF Refuted(e, assumps) THEN 0 ELSE mcv[e.dst]

Sum(c, ks) == FoldFunctionOnSet(+, 0, c, ks)
Product(c, ks) == FoldFunctionOnSet(LAMBDA x, y : x * y, 1, c, ks)

\* The count of a node from the counts c of its edges.
NodeCount(g, n, c) ==
  CASE g.kind[n] = "true"  -> 1
    [] g.kind[n] = "false" -> 0
    [] g.kind[n] = "and"   -> Product(c, DOMAIN c)
    [] Sums(g.kind[n])     -> Sum(c, DOMAIN c)

(***************************************************************************)
(* Decoding an id between 1 and the count of a node.  c are the counts of  *)
(* the edges, as get_mc or get_pc gives them.                              *)
(***************************************************************************)

\* And node: the digits of the id, child k has radix c[k].
Digit(lid, c, k) == (((lid - 1) \div Product(c, 1 .. k - 1)) % c[k]) + 1

\* Or node: edge k is the one whose share of the ids holds lid.
Branch(lid, c, k) ==
  Sum(c, 1 .. k - 1) < lid /\ lid <= Sum(c, 1 .. k)

\* Mutant: the upper half of the ids sets no literal.
FreeLitsPositive(lid, mcv, assumps, e) ==
  LET open == Open(e, assumps)
      digit(i) == (((lid - 1) \div mcv[e.dst]) \div 2 ^ (Len(open) - i)) % 2
  IN {PosLit(open[i]) : i \in {j \in DOMAIN open : digit(j) = 0}}
       \cup {l \in assumps : VarOf(l) \in Range(e.free)}

\* The free variables of an edge are set one after the other, positive for
\* the lower half of the ids that are left: the binary digits of the id.
FreeLits(lid, mcv, assumps, e) ==
  LET open == Open(e, assumps)
      digit(i) == (((lid - 1) \div mcv[e.dst]) \div 2 ^ (Len(open) - i)) % 2
  IN {PosLit(open[i]) : i \in {j \in DOMAIN open : digit(j) = 0}}
       \cup {NegLit(open[i]) : i \in {j \in DOMAIN open : digit(j) = 1}}
       \cup {l \in assumps : VarOf(l) \in Range(e.free)}

\* What is left of the id for the node the edge leads to.
FreeRest(lid, mcv, e) == ((lid - 1) % mcv[e.dst]) + 1

-----------------------------------------------------------------------------
(***************************************************************************)
(* What a graph means: the total assignments, as sets of true variables,   *)
(* that satisfy it.  It is the reference the counts are compared with.     *)
(***************************************************************************)
SatUnits(m, e) == \A l \in e.units : Satisfies(m, l)
Agrees(m, lits) == \A l \in lits : Satisfies(m, l)

NnfModels(g) ==
  LET holds[n \in Nodes(g), m \in Assignments] ==
        CASE g.kind[n] = "true"  -> TRUE
          [] g.kind[n] = "false" -> FALSE
          [] g.kind[n] = "and"   -> \A i \in DOMAIN g.out[n] : holds[g.out[n][i].dst, m]
          [] Sums(g.kind[n])     -> \E i \in DOMAIN g.out[n] :
                                      /\ SatUnits(m, g.out[n][i])
                                      /\ holds[g.out[n][i].dst, m]
  IN {m \in Assignments : holds[Root, m]}

=============================================================================
