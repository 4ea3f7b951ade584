------------------------------ MODULE Sampler ------------------------------
(***************************************************************************)
(* The program sampler (cppddnnf/src/sampler.cpp), with the reading of the *)
(* two graphs and the traversals of nnf.cpp.  It draws models of the       *)
(* formula uniformly: exactly, when the paths of the projected graph pn    *)
(* are few enough to count the models of each, else from a random buffer   *)
(* of paths.  The parallel loops share only graphs that nobody writes and  *)
(* sums taken in critical sections, so their iterations are taken in order.*)
(***************************************************************************)
EXTENDS Nnf

CONSTANTS
  Inputs,       \* the records [pn, un, keep] of graphs and kept variables
  Buffers,      \* the values of the option k
  N             \* the number of models to draw

ASSUME NAssumption == N \in Nat \ {0}
ASSUME BuffersAssumption == Buffers \subseteq Nat

VARIABLES
  pn,       \* pdac.pnnf, the graph of the projection on the kept variables
  un,       \* pdac.unnf, the graph of the other formula
  k,        \* the option
  pc,
  porder, uorder,       \* the orderings of the two graphs
  stack,    \* the stack of compute_ordering
  todo,     \* index of the node to annotate
  pmcv, umcv,           \* the counts of the two annotated graphs
  vpids,    \* the ids of the paths to draw from
  mcs,      \* the counts of models of the first of them
  frames,   \* the stack of get_path and get_solution: pairs <<id, node>>
  path,     \* the literals collected
  assumps,  \* the assumptions of the annotated graph un
  id,       \* the id drawn, relative to the path selected
  drawn,    \* the ids drawn so far
  answers   \* the models printed so far

vars == <<pn, un, k, pc, porder, uorder, stack, todo, pmcv, umcv, vpids, mcs,
          frames, path, assumps, id, drawn, answers>>
input == <<pn, un, k>>
ordering == <<porder, uorder, stack>>

Unannotated(g) == [n \in Nodes(g) |-> 0]

Init ==
  /\ \E in \in Inputs : pn = Restricted(in.pn, in.keep) /\ un = in.un
  /\ k \in Buffers
  /\ pc = "orderP"
  /\ porder = <<>> /\ uorder = <<>> /\ stack = <<Root>>
  /\ todo = 1
  /\ pmcv = Unannotated(pn) /\ umcv = Unannotated(un)
  /\ vpids = <<>> /\ mcs = <<>> /\ frames = <<>>
  /\ path = {} /\ assumps = {}
  /\ id = 0
  /\ drawn = <<>> /\ answers = <<>>

-----------------------------------------------------------------------------
(* pdac_from_file: both graphs are read and ordered. *)

OrderP ==
  /\ pc = "orderP" /\ stack # <<>>
  /\ LET r == OrderingStep(pn, stack, porder) IN
     porder' = r.ordering /\ stack' = r.stack
  /\ UNCHANGED <<input, pc, uorder, todo, pmcv, umcv, vpids, mcs, frames, path,
                 assumps, id, drawn, answers>>

OrderPDone ==
  /\ pc = "orderP" /\ stack = <<>>
  /\ pc' = "orderU"
  /\ stack' = <<Root>>
  /\ UNCHANGED <<input, porder, uorder, todo, pmcv, umcv, vpids, mcs, frames,
                 path, assumps, id, drawn, answers>>

OrderU ==
  /\ pc = "orderU" /\ stack # <<>>
  /\ LET r == OrderingStep(un, stack, uorder) IN
     uorder' = r.ordering /\ stack' = r.stack
  /\ UNCHANGED <<input, pc, porder, todo, pmcv, umcv, vpids, mcs, frames, path,
                 assumps, id, drawn, answers>>

OrderUDone ==
  /\ pc = "orderU" /\ stack = <<>>
  /\ pc' = "annotateP"
  /\ UNCHANGED <<input, ordering, todo, pmcv, umcv, vpids, mcs, frames, path,
                 assumps, id, drawn, answers>>

-----------------------------------------------------------------------------
(* ksampler: count the paths and choose the algorithm. *)

EdgePc(n) == [i \in DOMAIN pn.out[n] |-> GetPc(pmcv, {}, pn.out[n][i])]
EdgeMc(n) == [i \in DOMAIN un.out[n] |-> GetMc(umcv, assumps, un.out[n][i])]

\* One iteration of annotate_pc.
AnnotateP ==
  /\ pc = "annotateP" /\ todo <= Len(porder)
  /\ LET n == porder[todo] IN
     pmcv' = [pmcv EXCEPT ![n] = NodeCount(pn, n, EdgePc(n))]
  /\ todo' = todo + 1
  /\ UNCHANGED <<input, ordering, pc, umcv, vpids, mcs, frames, path, assumps,
                 id, drawn, answers>>

Paths == pmcv[Root]
Exact == Paths <= k

\* All the paths, to be measured once.
ChooseExact ==
  /\ pc = "annotateP" /\ todo > Len(porder) /\ Exact
  /\ vpids' = [i \in 1 .. Paths |-> i]
  /\ pc' = "measure"
  /\ UNCHANGED <<input, ordering, todo, pmcv, umcv, mcs, frames, path, assumps,
                 id, drawn, answers>>

ChooseHeuristic ==
  /\ pc = "annotateP" /\ todo > Len(porder) /\ ~ Exact
  /\ pc' = "buffer"
  /\ UNCHANGED <<input, ordering, todo, pmcv, umcv, vpids, mcs, frames, path,
                 assumps, id, drawn, answers>>

\* A set of k different random path ids, in increasing order; a new ANNF.
Buffer ==
  /\ pc = "buffer"
  /\ vpids' \in {s \in [1 .. k -> 1 .. Paths] : \A i \in 1 .. k - 1 : s[i] < s[i + 1]}
  /\ mcs' = <<>>
  /\ umcv' = Unannotated(un)
  /\ pc' = "measure"
  /\ UNCHANGED <<input, ordering, todo, pmcv, frames, path, assumps, id, drawn,
                 answers>>

-----------------------------------------------------------------------------
(* Both algorithms: the models of each path are counted. *)

\* get_path of path id p starts; the exact algorithm takes a new ANNF.
StartPath(p) ==
  /\ frames' = <<<<p, Root>>>>
  /\ path' = {}
  /\ umcv' = IF Exact THEN Unannotated(un) ELSE umcv
  /\ pc' = "path"

Measure ==
  /\ pc = "measure" /\ Len(mcs) < Len(vpids)
  /\ StartPath(vpids[Len(mcs) + 1])
  /\ UNCHANGED <<input, ordering, todo, pmcv, vpids, mcs, assumps, id, drawn,
                 answers>>

Top == frames[Len(frames)]
Popped == SubSeq(frames, 1, Len(frames) - 1)

\* One turn of the loop of get_path.
PathAnd ==
  /\ pc = "path" /\ frames # <<>>
  /\ LET n == Top[2]
         c == EdgePc(n)
     IN /\ pn.kind[n] = "and"
        /\ frames' = Popped \o [i \in DOMAIN c |-> <<Digit(Top[1], c, i), pn.out[n][i].dst>>]
  /\ UNCHANGED <<input, ordering, pc, todo, pmcv, umcv, vpids, mcs, path,
                 assumps, id, drawn, answers>>

PathOr ==
  /\ pc = "path" /\ frames # <<>>
  /\ LET n == Top[2]
         c == EdgePc(n)
     IN /\ Sums(pn.kind[n])
        /\ \E i \in DOMAIN c :
             /\ Branch(Top[1], c, i)
             /\ path' = path \cup pn.out[n][i].units
             /\ frames' = Append(Popped, <<Top[1] - Sum(c, 1 .. i - 1), pn.out[n][i].dst>>)
  /\ UNCHANGED <<input, ordering, pc, todo, pmcv, umcv, vpids, mcs, assumps, id,
                 drawn, answers>>

PathLeaf ==
  /\ pc = "path" /\ frames # <<>>
  /\ pn.kind[Top[2]] \in {"true", "false"}
  /\ frames' = Popped
  /\ UNCHANGED <<input, ordering, pc, todo, pmcv, umcv, vpids, mcs, path,
                 assumps, id, drawn, answers>>

\* set_assumps and the start of annotate_mc.
PathDone ==
  /\ pc = "path" /\ frames = <<>>
  /\ assumps' = path
  /\ todo' = 1
  /\ pc' = "annotateU"
  /\ UNCHANGED <<input, ordering, pmcv, umcv, vpids, mcs, frames, path, id,
                 drawn, answers>>

\* One iteration of annotate_mc.
AnnotateU ==
  /\ pc = "annotateU" /\ todo <= Len(uorder)
  /\ LET n == uorder[todo] IN
     umcv' = [umcv EXCEPT ![n] = NodeCount(un, n, EdgeMc(n))]
  /\ todo' = todo + 1
  /\ UNCHANGED <<input, ordering, pc, pmcv, vpids, mcs, frames, path, assumps,
                 id, drawn, answers>>

\* Mutant: the count is not stored.
MeasuredNotStored ==
  /\ pc = "annotateU" /\ todo > Len(uorder)
  /\ Len(mcs) < Len(vpids)
  /\ pc' = "measure"
  /\ UNCHANGED <<input, ordering, todo, pmcv, umcv, vpids, mcs, frames, path,
                 assumps, id, drawn, answers>>

Measured ==
  /\ pc = "annotateU" /\ todo > Len(uorder)
  /\ Len(mcs) < Len(vpids)
  /\ mcs' = Append(mcs, umcv[Root])
  /\ pc' = "measure"
  /\ UNCHANGED <<input, ordering, todo, pmcv, umcv, vpids, frames, path,
                 assumps, id, drawn, answers>>

-----------------------------------------------------------------------------
(* A model is drawn. *)

tmc == Sum(mcs, DOMAIN mcs)
AllMeasured == pc = "measure" /\ Len(mcs) = Len(vpids)

\* The distribution on 1 .. 0 fails its assertion.
Abort ==
  /\ AllMeasured /\ tmc = 0
  /\ pc' = "aborted"
  /\ UNCHANGED <<input, ordering, todo, pmcv, umcv, vpids, mcs, frames, path,
                 assumps, id, drawn, answers>>

\* A random id, and the path in whose share of the ids it is.
Draw ==
  /\ AllMeasured
  /\ \E x \in 1 .. tmc, j \in DOMAIN mcs :
       /\ Branch(x, mcs, j)
       /\ drawn' = Append(drawn, x)
       /\ id' = x - Sum(mcs, 1 .. j - 1)
       /\ StartPath(vpids[j])
  /\ UNCHANGED <<input, ordering, todo, pmcv, vpids, mcs, assumps, answers>>

StartSolution ==
  /\ pc = "annotateU" /\ todo > Len(uorder)
  /\ Len(mcs) = Len(vpids)
  /\ frames' = <<<<id, Root>>>>
  /\ pc' = "solution"
  /\ UNCHANGED <<input, ordering, todo, pmcv, umcv, vpids, mcs, path, assumps,
                 id, drawn, answers>>

\* One turn of the loop of get_solution.
SolutionAnd ==
  /\ pc = "solution" /\ frames # <<>>
  /\ LET n == Top[2]
         c == EdgeMc(n)
     IN /\ un.kind[n] = "and"
        /\ frames' = Popped \o [i \in DOMAIN c |-> <<Digit(Top[1], c, i), un.out[n][i].dst>>]
  /\ UNCHANGED <<input, ordering, pc, todo, pmcv, umcv, vpids, mcs, path,
                 assumps, id, drawn, answers>>

SolutionOr ==
  /\ pc = "solution" /\ frames # <<>>
  /\ LET n == Top[2]
         c == EdgeMc(n)
     IN /\ Sums(un.kind[n])
        /\ \E i \in DOMAIN c :
             LET e == un.out[n][i]
                 lid == Top[1] - Sum(c, 1 .. i - 1)
             IN /\ Branch(Top[1], c, i)
                /\ path' = path \cup e.units \cup FreeLits(lid, umcv, assumps, e)
                /\ frames' = Append(Popped, <<FreeRest(lid, umcv, e), e.dst>>)
  /\ UNCHANGED <<input, ordering, pc, todo, pmcv, umcv, vpids, mcs, assumps, id,
                 drawn, answers>>

SolutionLeaf ==
  /\ pc = "solution" /\ frames # <<>>
  /\ un.kind[Top[2]] \in {"true", "false"}
  /\ frames' = Popped
  /\ UNCHANGED <<input, ordering, pc, todo, pmcv, umcv, vpids, mcs, path,
                 assumps, id, drawn, answers>>

\* The model is printed; the next one is drawn.
Printed ==
  /\ pc = "solution" /\ frames = <<>>
  /\ answers' = Append(answers, path)
  /\ pc' = IF Len(answers') = N THEN "done" ELSE IF Exact THEN "measure" ELSE "buffer"
  /\ UNCHANGED <<input, ordering, todo, pmcv, umcv, vpids, mcs, frames, path,
                 assumps, id, drawn>>

Finished == pc \in {"done", "aborted"} /\ UNCHANGED vars

Next ==
  \/ OrderP \/ OrderPDone \/ OrderU \/ OrderUDone
  \/ AnnotateP \/ ChooseExact \/ ChooseHeuristic \/ Buffer
  \/ Measure \/ PathAnd \/ PathOr \/ PathLeaf \/ PathDone \/ AnnotateU \/ Measured
  \/ Abort \/ Draw \/ StartSolution \/ SolutionAnd \/ SolutionOr \/ SolutionLeaf
  \/ Printed \/ Finished

Spec == Init /\ [][Next]_vars

\* Every loop iteration that can be executed is executed.
FairSpec == Spec /\ WF_vars(Next)

-----------------------------------------------------------------------------
(* Properties *)

Formula == NnfModels(un) \cap NnfModels(pn)

ChildrenFirst(g, s) ==
  \A i \in DOMAIN s :
    /\ \A e \in Range(g.out[s[i]]) : \E j \in 1 .. i - 1 : s[j] = e.dst
    /\ \A j \in DOMAIN s : s[i] = s[j] => i = j

\* compute_ordering lists a node after its children and once, although a
\* shared node can be many times on its stack, and it ends with the root.
OrderingTopological ==
  /\ ChildrenFirst(pn, porder) /\ ChildrenFirst(un, uorder)
  /\ pc # "orderP" /\ stack = <<>> => Root \in Range(porder) \cap Range(uorder)

\* The count of a path is that of the models of un that agree with it.
MeasuredExact ==
  pc = "measure" /\ mcs # <<>> /\ Len(mcs) < Len(vpids) =>
    mcs[Len(mcs)] = Cardinality({m \in NnfModels(un) : Agrees(m, assumps)})

\* The exact algorithm draws from as many ids as the formula has models; it
\* stops on an empty range only for a formula without models.
TotalExact ==
  Exact /\ (AllMeasured \/ pc = "aborted") => tmc = Cardinality(Formula)

\* The counts of the paths, computed one after the other in the same array
\* over an ordering made with an explicit stack, are right, and their sum is
\* the number of models of the formula.
CountsRight == OrderingTopological /\ MeasuredExact /\ TotalExact

\* get_path and get_solution never descend into a node with an id outside
\* 1 .. its count (the error they report) and so never divide by a zero count.
IdsInRange ==
  \A i \in DOMAIN frames :
    LET n == frames[i][2] IN
    /\ frames[i][1] >= 1
    /\ frames[i][1] <= (IF pc = "path" THEN pmcv[n] ELSE umcv[n])

\* Every answer is a model of the formula, of all its variables.
AnswersAreModels ==
  \A i \in DOMAIN answers :
    /\ Cardinality(answers[i]) = NumVars
    /\ \E m \in Formula : Agrees(m, answers[i])

\* nnf.hpp:226: "Two different ids will give two different models", here over
\* the whole formula, whichever paths the two ids are in.
IdsToModels ==
  Exact => \A i, j \in DOMAIN answers :
             drawn[i] # drawn[j] => answers[i] # answers[j]

\* An id drawn is decoded, path first, then solution under the path's
\* assumptions, without leaving the range of any node on the way, into a model
\* of the formula, and two ids into two models.
AnswersRight == IdsInRange /\ AnswersAreModels /\ IdsToModels

\* The N models are printed, unless there is nothing to draw from.
Termination == <>(pc \in {"done", "aborted"})

=============================================================================
