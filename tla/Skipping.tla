------------------------------ MODULE Skipping ------------------------------
(***************************************************************************)
(* The program rhsampler (cppddnnf/src/rhsampler.cpp), a reservoir sampler *)
(* that walks over the solutions of the formula, path after path, and      *)
(* skips a random number of them between those it puts in the reservoir.   *)
(* Once Sure paths are counted it leaps over paths without counting them,  *)
(* by their mean number of solutions.                                      *)
(*                                                                         *)
(* weights[l] is the number of solutions of path l; a solution is the pair *)
(* of its path and its number there.                                       *)
(***************************************************************************)
EXTENDS Integers, Sequences, FiniteSets, Functions

CONSTANTS
  PathWeights,  \* the possible sequences of weights of the paths
  Sizes,        \* values of the option nb
  Sure,         \* the number of counted paths that makes the mean usable
  MaxSkip,      \* bound on a random skip
  MaxCount      \* bound on the number of times a path is counted

VARIABLES
  weights, nb,  \* the input
  ipath, isol,  \* the path, and the solution relative to it
  cmc, ccount,  \* solutions and paths counted (c_count)
  reservoir,
  seen,         \* history: the solutions put in the reservoir, in order
  leapt         \* history: whether paths were leapt over

input == <<weights, nb>>

Paths == DOMAIN weights
Total(S) == FoldFunctionOnSet(+, 0, weights, S)
Walking == ipath <= Len(weights)

\* gen_random_int and compute_geomeric return some natural number.
Skips == 0 .. MaxSkip

Start ==
  /\ weights \in PathWeights /\ nb \in Sizes
  /\ ipath = 1 /\ isol = 1
  /\ cmc = weights[1] /\ ccount = 1
  /\ reservoir = <<>> /\ seen = <<>> /\ leapt = FALSE

\* Path l is loaded and counted, when there is one.
Load(l) ==
  /\ ipath' = l
  /\ IF l \in Paths
     THEN cmc' = cmc + weights[l] /\ ccount' = ccount + 1
     ELSE UNCHANGED <<cmc, ccount>>

\* What is left to skip after path l.
Rest(sol, l) == sol - weights[l]

Past == Walking /\ isol > weights[ipath] /\ ccount < MaxCount

\* The solution sought is not on this path: on to the next path,
NextPath ==
  /\ Past
  /\ LET rest == Rest(isol, ipath) IN
     /\ ccount < Sure \/ rest < cmc \div ccount
     /\ isol' = rest
  /\ Load(ipath + 1)
  /\ UNCHANGED <<input, reservoir, seen, leapt>>

\* or over as many paths as their mean says: possibly none.
Leap ==
  /\ Past
  /\ LET rest == Rest(isol, ipath)
         leap == (rest * ccount) \div cmc
     IN
     /\ ccount >= Sure /\ rest >= cmc \div ccount
     /\ isol' = rest - (leap * cmc) \div ccount
     /\ Load(ipath + leap)
  /\ leapt' = TRUE
  /\ UNCHANGED <<input, reservoir, seen>>

Here == <<ipath, isol>>
Found == Walking /\ isol <= weights[ipath]

\* The first nb solutions fill the reservoir, the last with a skip after it.
Fill ==
  /\ Found /\ Len(reservoir) < nb
  /\ reservoir' = Append(reservoir, Here)
  /\ seen' = Append(seen, Here)
  /\ IF Len(reservoir') = nb
     THEN \E skip \in Skips : isol' = isol + 1 + skip
     ELSE isol' = isol + 1
  /\ UNCHANGED <<input, ipath, cmc, ccount, leapt>>

After(skip) == isol + 1 + skip

\* A later one takes a random slot.
Replace ==
  /\ Found /\ Len(reservoir) = nb
  /\ \E r \in 1 .. nb : reservoir' = [reservoir EXCEPT ![r] = Here]
  /\ seen' = Append(seen, Here)
  /\ \E skip \in Skips : isol' = After(skip)
  /\ UNCHANGED <<input, ipath, cmc, ccount, leapt>>

SNext == NextPath \/ Leap \/ Fill \/ Replace

-----------------------------------------------------------------------------
(* Properties *)

\* The position of a solution in the walk over all of them.
Position(s) == Total(1 .. s[1] - 1) + s[2]

\* Until paths are leapt over, the counts are exact and no solution is put in
\* the reservoir twice, nor a solution before one already seen: the first nb
\* are taken without a gap, and the reservoir has nb different solutions, all
\* of them if there are fewer.
NoneTwice ==
  ~ leapt =>
    /\ Walking => cmc = Total(1 .. ipath) /\ ccount = ipath
    /\ \A i, j \in DOMAIN seen : i < j => Position(seen[i]) < Position(seen[j])
    /\ \A i \in DOMAIN seen : i <= nb => Position(seen[i]) = i
    /\ Cardinality(Range(reservoir)) = Len(reservoir)
    /\ ~ Walking => Len(reservoir) = IF Total(Paths) < nb THEN Total(Paths) ELSE nb

\* The walk gets past the last path, unless it starts to leap.
WalkEnds == ~ Walking \/ leapt

\* nnf.hpp:224: "the models are mapped to the set of integers between 1 and
\* the number of models", so the solutions asked for have such a number.
SolutionIds ==
  \A i \in DOMAIN seen : seen[i][2] \in 1 .. weights[seen[i][1]]

=============================================================================
