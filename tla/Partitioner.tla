---------------------------- MODULE Partitioner -----------------------------
(***************************************************************************)
(* The default partitioner of D4, ClauseBipartiteGraphPartitioner, and the *)
(* search for equivalent variables it starts with, EquivManager.  Called   *)
(* on a component, it gives PaToH a hypergraph whose vertices are clauses  *)
(* and whose edges are variables, and returns the variables with clauses   *)
(* on both sides: deciding them should cut the component in two.           *)
(*                                                                         *)
(* The graph is not that of the formula: variables and clauses that seem   *)
(* useless are dropped, and equivalent variables share one edge.  A row of *)
(* the occurrence map is a set of positions in idxClauses, and the         *)
(* formula is what is left of it under the decisions: no clause is         *)
(* satisfied or unit, and there is a model (the solver has answered).      *)
(***************************************************************************)
EXTENDS Literals, SequencesExt

CONSTANTS
  Formulas,       \* the formulas: sequences of sets of literals
  ReduceFormula,  \* values of the option -rpg
  EquivSimp       \* values of the option -eqs

VARIABLES
  clauses,        \* the clauses of the component
  reduceFormula, equivSimp,
  pc,
  trail,          \* the literals the solver has come to know
  equivMarked,    \* EquivManager::markedVar
  equivVar,       \* the classes found
  next,           \* the position of the next variable to try
  unitEquiv,      \* literals assigned in the occurrence manager
  inCurrentComponent, useLessVariable, \* marks of the partitioner
  mapVar,         \* the row of a variable
  idxClauses, weightClause,
  occMap, vUse,   \* the rows, and the variables of the first ones
  partvec, cutVar

options == <<clauses, reduceFormula, equivSimp>>
search == <<trail, equivMarked, equivVar, next>>
marks == <<inCurrentComponent, useLessVariable>>
graph == <<mapVar, idxClauses, weightClause, occMap, vUse>>
vars == <<options, pc, search, unitEquiv, marks, graph, partvec, cutVar>>

VarsOf(c) == {VarOf(l) : l \in c}

\* Without the clauses, the variables are in the order of their numbers.
component ==
  SelectSeq([i \in 1 .. NumVars |-> i - 1], LAMBDA v : \E i \in DOMAIN clauses : v \in VarsOf(clauses[i]))

Init ==
  /\ clauses \in Formulas /\ reduceFormula \in ReduceFormula /\ equivSimp \in EquivSimp
  /\ pc = "call"
  /\ trail = {} /\ equivMarked = {} /\ equivVar = <<>> /\ next = 1
  /\ unitEquiv = {}
  /\ inCurrentComponent = {} /\ useLessVariable = {}
  /\ mapVar = [v \in Var |-> 1]
  /\ idxClauses = <<>> /\ weightClause = [i \in DOMAIN clauses |-> 1]
  /\ occMap = <<>> /\ vUse = <<>> /\ partvec = <<>> /\ cutVar = {}

Start ==
  /\ pc = "call" /\ pc' = IF equivSimp THEN "equiv" ELSE "collect"
  /\ mapVar' = [v \in Var |-> IF Contains(component, v)
                                THEN CHOOSE i \in DOMAIN component : component[i] = v
                                ELSE mapVar[v]]
  /\ inCurrentComponent' = ToSet(component)
  /\ occMap' = [i \in DOMAIN component |-> {}]
  /\ cutVar' = {}
  /\ UNCHANGED <<options, search, unitEquiv, useLessVariable, idxClauses, weightClause, vUse, partvec>>

-----------------------------------------------------------------------------
(* EquivManager::searchEquiv. *)

\* The literals that the solver knows after those of ls are enqueued.
Propagated(ls) ==
  LET round[n \in 0 .. 2 * NumVars] ==
        IF n = 0 THEN ls
        ELSE LET known == round[n - 1] IN
             known \cup UNION {{l \in clauses[i] : \A k \in clauses[i] \ {l} : Neg(k) \in known}
                                 : i \in DOMAIN clauses}
  IN round[2 * NumVars]

Conflict(ls) == \E l \in ls : Neg(l) \in ls

Known(v) == {PosLit(v), NegLit(v)} \cap trail # {}

\* resolveUnit: the learnt clause is the negation of the literal.
ResolveUnit(v, l) ==
  /\ Conflict(Propagated(trail \cup {l}))
  /\ trail' = Propagated(trail \cup {Neg(l)})
  /\ UNCHANGED <<equivVar, equivMarked>>

\* Both literals of v are propagated: what both of them assign, whatever the
\* values, is called equivalent to v, which is the last of its class.
CollectClass(v) ==
  LET pos == Propagated(trail \cup {PosLit(v)})
      neg == Propagated(trail \cup {NegLit(v)})
      class == (VarsOf(pos \ trail) \cap VarsOf(neg \ trail)) \ ({v} \cup equivMarked) IN
  /\ ~Conflict(pos) /\ ~Conflict(neg)
  /\ equivVar' = IF class = {} THEN equivVar
                  ELSE Append(equivVar, [last |-> v, others |-> class])
  /\ equivMarked' = equivMarked \cup class
  /\ UNCHANGED trail

SearchEquiv ==
  /\ pc = "equiv" /\ next <= Len(component) /\ next' = next + 1
  /\ LET v == component[next] IN
       IF Known(v) \/ v \in equivMarked
         THEN UNCHANGED <<trail, equivVar, equivMarked>>
         ELSE \/ ResolveUnit(v, PosLit(v))
              \/ ~Conflict(Propagated(trail \cup {PosLit(v)})) /\ ResolveUnit(v, NegLit(v))
              \/ CollectClass(v)
  /\ UNCHANGED <<options, pc, unitEquiv, marks, graph, partvec, cutVar>>

\* The marks go, and the literals found are assigned (preUpdate).
EndEquiv ==
  /\ pc = "equiv" /\ next > Len(component) /\ pc' = "collect"
  /\ equivMarked' = {}
  /\ unitEquiv' = trail
  /\ UNCHANGED <<options, trail, equivVar, next, marks, graph, partvec, cutVar>>

-----------------------------------------------------------------------------
(* The graph. *)

\* varIsAssigned, litIsAssigned; the rows hold the positions of these clauses.
Assigned(v) == {PosLit(v), NegLit(v)} \cap unitEquiv # {}
Clause(i) == clauses[idxClauses[i]]
FreeVars(c) == {v \in VarsOf(c) : ~Assigned(v)}

\* buildOccMap, for the first n rows, which map gives the variables.
Rows(n, map, useless, idx) ==
  [r \in DOMAIN occMap |->
     IF r > n THEN {}
     ELSE {i \in DOMAIN idx :
             \E v \in FreeVars(clauses[idx[i]]) \ useless : map[v] = r}]

\* getCurrentClauses: those that the literals found do not satisfy, in order.
CurrentClauses ==
  SelectSeq([i \in DOMAIN clauses |-> i], LAMBDA i : clauses[i] \cap unitEquiv = {})

CollectClauses ==
  /\ pc = "collect" /\ pc' = IF reduceFormula THEN "variables" ELSE "merge"
  /\ idxClauses' = CurrentClauses
  /\ weightClause' = [i \in DOMAIN clauses |->
                         IF Contains(idxClauses', i) THEN 1 ELSE weightClause[i]]
  /\ occMap' = Rows(Len(component), mapVar, useLessVariable, idxClauses')
  /\ vUse' = component
  /\ UNCHANGED <<options, search, unitEquiv, marks, mapVar, partvec, cutVar>>

\* computeUselessVariables: the clauses of the variable have no variable that
\* the first of them has not.
UselessVariables ==
  /\ pc = "variables" /\ pc' = "clauses"
  /\ LET useless(row) == row # {} /\ \A i \in row : FreeVars(Clause(i)) \subseteq FreeVars(Clause(Min(row)))
     IN useLessVariable' = useLessVariable \cup {component[r] : r \in {q \in DOMAIN component : useless(occMap[q])}}
  /\ UNCHANGED <<options, search, unitEquiv, inCurrentComponent, graph, partvec, cutVar>>

\* The variables by which computeUselessClauses compares clauses.
Shape(i) == FreeVars(Clause(i)) \ useLessVariable

\* A clause is dropped when another one that is kept has its variables, and gives
\* it its weight.  A clause with none stays.
DropClause(st, i) ==
  LET holders == {j \in st.kept \ {i} : Shape(i) \subseteq Shape(j)} IN
  IF Shape(i) = {} \/ holders = {} THEN st
  ELSE [kept |-> st.kept \ {i},
        weight |-> [st.weight EXCEPT ![idxClauses[Min(holders)]] = @ + st.weight[idxClauses[i]]]]

UselessClauses ==
  /\ pc = "clauses" /\ pc' = "rows"
  /\ LET purged == FoldLeft(DropClause, [kept |-> DOMAIN idxClauses, weight |-> weightClause],
                            [i \in DOMAIN idxClauses |-> i])
     IN /\ idxClauses' = SelectSeq(idxClauses, LAMBDA c : c \in {idxClauses[i] : i \in purged.kept})
        /\ weightClause' = purged.weight
  /\ UNCHANGED <<options, search, unitEquiv, marks, mapVar, occMap, vUse, partvec, cutVar>>

\* clearSetOfVariable, buildOccMap: the rows are numbered again; a variable that
\* is dropped or assigned keeps the number it had.
ClearVariables ==
  /\ pc = "rows" /\ pc' = "merge"
  /\ vUse' = SelectSeq(component, LAMBDA v : ~Assigned(v) /\ v \notin useLessVariable)
  /\ mapVar' = [v \in Var |-> IF Contains(vUse', v)
                                THEN CHOOSE r \in DOMAIN vUse' : vUse'[r] = v
                                ELSE mapVar[v]]
  /\ occMap' = Rows(Len(vUse'), mapVar', useLessVariable, idxClauses)
  /\ UNCHANGED <<options, search, unitEquiv, marks, idxClauses, weightClause, partvec, cutVar>>

\* Mutant: the others go with their clauses.
MergeClassOfLast(st, class) ==
  LET in(v) == v \in inCurrentComponent /\ v \notin st.useless IN
  IF ~in(class.last) THEN st
  ELSE [st EXCEPT !.useless = @ \cup {v \in class.others : in(v)}]

\* The last variable of a class gets the clauses of the others, whose rows go.
MergeClass(st, class) ==
  LET in(v) == v \in inCurrentComponent /\ v \notin st.useless
      merged == {v \in class.others : in(v)} IN
  IF ~in(class.last) THEN st
  ELSE [rows |-> [st.rows EXCEPT ![mapVar[class.last]] =
                    @ \cup UNION {st.rows[mapVar[v]] : v \in merged}],
        useless |-> st.useless \cup merged]

\* The rows that stay move up.  (mapVar is given them the wrong way round, the variable
\* for the row; nothing reads those entries before the next call writes its own.)
MergeEquivalent ==
  /\ pc = "merge" /\ pc' = "part"
  /\ LET st == FoldLeft(MergeClass, [rows |-> occMap, useless |-> useLessVariable], equivVar)
         kept == SelectSeq([r \in DOMAIN vUse |-> r], LAMBDA r : vUse[r] \notin st.useless)
     IN IF equivSimp
          THEN /\ useLessVariable' = st.useless
               /\ vUse' = [r \in DOMAIN kept |-> vUse[kept[r]]]
               /\ occMap' = [r \in DOMAIN kept |-> st.rows[kept[r]]]
               /\ mapVar' = [v \in Var |-> IF v + 1 \in DOMAIN kept
                                             THEN vUse[kept[v + 1]] + 1 ELSE mapVar[v]]
          ELSE UNCHANGED <<useLessVariable, vUse, occMap, mapVar>>
  /\ UNCHANGED <<options, search, unitEquiv, inCurrentComponent, idxClauses, weightClause, partvec, cutVar>>

-----------------------------------------------------------------------------
(* The partition. *)

\* PaToH answers with any two parts.
PaToH ==
  /\ pc = "part" /\ pc' = "cut"
  /\ partvec' \in [DOMAIN idxClauses -> {0, 1}]
  /\ UNCHANGED <<options, search, unitEquiv, marks, graph, cutVar>>

\* extractCutFromClauses: the variables with clauses in both parts.
Cut ==
  {vUse[r] : r \in {q \in DOMAIN vUse : \E i, j \in occMap[q] : partvec[i] # partvec[j]}}

\* The marks go; the literals found are no longer assigned, but the solver still
\* knows them.  (Equivalent variables are never added: their marks are gone.)
ExtractCut ==
  /\ pc = "cut" /\ pc' = "done"
  /\ cutVar' = Cut
  /\ useLessVariable' = useLessVariable \ ToSet(component)
  /\ inCurrentComponent' = inCurrentComponent \ ToSet(component)
  /\ unitEquiv' = {}
  /\ UNCHANGED <<options, search, graph, partvec>>

Done == pc = "done" /\ UNCHANGED vars

Next ==
  \/ Start \/ SearchEquiv \/ EndEquiv \/ CollectClauses \/ UselessVariables \/ UselessClauses
  \/ ClearVariables \/ MergeEquivalent \/ PaToH \/ ExtractCut \/ Done

Spec == Init /\ [][Next]_vars

-----------------------------------------------------------------------------
(* Properties *)

\* The clauses that PaToH was told something about, and put in part p.
PinnedTo(p) ==
  {idxClauses[i] : i \in {k \in UNION {occMap[r] : r \in DOMAIN vUse} : partvec[k] = p}}

\* The clauses that hold in the end are joined to those of part p.
Joined(p, ls) ==
  LET left(i) == {v \in VarsOf(clauses[i]) : {PosLit(v), NegLit(v)} \cap ls = {}}
      live == {i \in DOMAIN clauses : clauses[i] \cap ls = {}}
      reach[n \in DOMAIN clauses \cup {0}] ==
        IF n = 0 THEN PinnedTo(p) \cap live
        ELSE LET near == UNION {left(i) : i \in reach[n - 1]}
             IN reach[n - 1] \cup {i \in live : left(i) \cap near # {}}
  IN reach[Len(clauses)]

\* CutDisconnects: however the variables of the cut are decided, once the solver
\* has propagated them no clause left joins the two parts, although the graph was
\* reduced and merged before it was cut.  (A clause without any pin is on no side.)
CutDisconnects ==
  pc = "done" =>
    \A pos \in SUBSET cutVar :
      LET ls == Propagated(trail \cup {PosLit(v) : v \in pos} \cup {NegLit(v) : v \in cutVar \ pos})
      IN ~Conflict(ls) => Joined(0, ls) \cap PinnedTo(1) = {}

\* WeightsKept: the clauses that are dropped weigh on those that stand for them,
\* so that PaToH balances the clauses there are.
WeightsKept ==
  pc = "part" => MapThenSumSet(LAMBDA c : weightClause[c], ToSet(idxClauses)) = Len(CurrentClauses)

\* MarksCleared: a call leaves no mark, for the next component would lose the
\* variables that still have one.
MarksCleared == pc = "done" => inCurrentComponent \cup useLessVariable \cup equivMarked = {}

CutRight == CutDisconnects /\ WeightsKept /\ MarksCleared

=============================================================================
