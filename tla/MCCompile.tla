----------------------------- MODULE MCCompile ------------------------------
(***************************************************************************)
(* Small problems for Compile.  The literals of variable v are 2v, 2v + 1. *)
(***************************************************************************)
EXTENDS Compile

\* Weights that tell the literals apart, and those of plain counting.
Weighted == [l \in Lit |-> ((2 * l) % 5) + 1]
Plain == [l \in Lit |-> 1]

Compiler(cs, projected) ==
  [clauses |-> cs, projected |-> projected, weight |-> Weighted, driver |-> "compile",
   optAnd |-> TRUE, cached |-> TRUE, certified |-> FALSE, partition |-> FALSE, store |-> "NT",
   negative |-> {TRUE}, queries |-> {}, asserts |-> TRUE]
Release(x) == [x EXCEPT !.asserts = FALSE]
Counter(cs, store) ==
  [Compiler(cs, Var) EXCEPT !.weight = Plain, !.driver = "count", !.store = store]

Questions == {{0}, {1, 6}, {7}}

Chain == {{0, 2}, {3, 4}, {5, 6}}             \* splits in the middle
Twins == {{0, 2, 4}, {0, 3, 5}, {1, 2, 4}}    \* components met again
Hidden == {{0, 2}, {0, 3}, {4, 6}}            \* a unit propagation misses
Late == {{0, 2, 6}, {0, 3, 6}, {4, 7}}        \* missed until 6 is decided

\* Two components of a unit each that propagation misses, once 8 is decided.
Apart == {{0, 2}, {0, 3}, {2, 8}, {4, 6}, {4, 7}, {6, 8}}

Pairs == {{0, 2}, {4, 6}, {1, 5, 7}}           \* two components, then one

SmallInstances ==
  { [Compiler(Chain, Var) EXCEPT !.negative = BOOLEAN],
    [Release(Compiler(Chain, {0, 2})) EXCEPT !.queries = Questions, !.certified = TRUE],
    [Compiler(Chain, {0, 2}) EXCEPT !.queries = Questions],
    [Compiler(Twins, {0, 1, 2}) EXCEPT !.partition = TRUE, !.certified = TRUE],
    [Release(Compiler(Twins, {0, 3})) EXCEPT !.queries = Questions],
    [Compiler(Twins, {0, 3}) EXCEPT !.partition = TRUE],
    [Release(Compiler(Hidden, {1, 3})) EXCEPT !.optAnd = FALSE, !.partition = TRUE],
    [Compiler(Late, {0, 2, 3}) EXCEPT !.cached = FALSE],
    [Release(Compiler(Late, {0, 3})) EXCEPT !.partition = TRUE, !.queries = Questions,
                                            !.certified = TRUE],
    [Compiler(Pairs, Var) EXCEPT !.certified = TRUE],
    [Compiler(Apart, {0, 2, 4}) EXCEPT !.certified = TRUE, !.negative = {FALSE}],
    Compiler({{0, 2}, {1, 2}, {3}}, Var),
    Counter(Chain, "ALL"), Counter(Twins, "NB"),
    [Counter(Late, "NT") EXCEPT !.projected = {0, 3}],
    [Counter(Twins, "NT") EXCEPT !.partition = TRUE],
    Counter({{0}, {1}}, "NT") }

=============================================================================
