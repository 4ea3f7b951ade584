----------------------------- MODULE Reservoir -----------------------------
(***************************************************************************)
(* The program rsampler (cppddnnf/src/rsampler.cpp): nb solutions from a   *)
(* reservoir of paths of the projected graph.  The threads of a parallel   *)
(* loop bring the paths in any order, all of them or a random buffer of    *)
(* them, and those of a second loop draw a solution of each slot.          *)
(*                                                                         *)
(* A path is its number, weights[l] the number of its solutions: at least  *)
(* one, since a model of the projected formula extends to a solution.  The *)
(* draws are nondeterministic, and law carries the probabilities along.    *)
(***************************************************************************)
EXTENDS Integers, Sequences, FiniteSets, Functions

CONSTANTS
  Crew,         \* the threads
  PathWeights,  \* the possible sequences of weights of the paths, each positive
  Sizes,        \* values of the option nb, positive
  Buffers,      \* values of the option k
  Unit          \* a multiple of every total of weights: law is in 1/Unit

VARIABLES
  weights, nb, buffer,  \* the input: ai of each path, the options nb and k
  mode,         \* "exact" or "heuristic", as the program chose
  phase,        \* "fill", then "print"
  pending,      \* the iterations no thread has taken yet
  holds,        \* for each thread, what it works on; 0 for nothing
  visited,      \* the paths drawn, heuristic mode
  reservoir, tmc,
  printed,      \* the solutions printed, pairs <<path, id>>
  law           \* history: the probability of each path to be in a slot

rvars == <<weights, nb, buffer, mode, phase, pending, holds, visited, reservoir,
           tmc, printed, law>>
given == <<weights, nb, buffer, mode>>

Paths == DOMAIN weights
Total(S) == FoldFunctionOnSet(+, 0, weights, S)

\* Mutant: the size of the buffer is not looked at.
ModeAlways(pc, k) == IF pc > 0 THEN "heuristic" ELSE "exact"

\* rsampler: the buffer is for graphs with more paths than its size.
Mode(pc, k) == IF pc > k THEN "heuristic" ELSE "exact"

\* The iterations of the first loop.
Iterations == IF mode = "exact" THEN Paths ELSE 1 .. buffer

Start ==
  /\ weights \in PathWeights /\ nb \in Sizes /\ buffer \in Buffers
  /\ mode = Mode(Len(weights), buffer)
  /\ phase = "fill"
  /\ pending = Iterations
  /\ holds = [t \in Crew |-> 0]
  /\ visited = {} /\ reservoir = <<>> /\ tmc = 0 /\ printed = <<>>
  /\ law = [l \in Paths |-> 0]

\* Exact mode: an iteration is a path.
TakePath(t) ==
  /\ phase = "fill" /\ mode = "exact" /\ holds[t] = 0
  /\ \E l \in pending :
       pending' = pending \ {l} /\ holds' = [holds EXCEPT ![t] = l]
  /\ UNCHANGED <<given, phase, visited, reservoir, tmc, printed, law>>

\* Heuristic mode: in a critical section, a path not visited yet is drawn.
DrawPath(t) ==
  /\ phase = "fill" /\ mode = "heuristic" /\ holds[t] = 0
  /\ \E i \in pending, l \in Paths \ visited :
       /\ pending' = pending \ {i}
       /\ visited' = visited \cup {l}
       /\ holds' = [holds EXCEPT ![t] = l]
  /\ UNCHANGED <<given, phase, reservoir, tmc, printed, law>>

\* A path visited before: the thread draws again, in the critical section.
Redraw(t) ==
  /\ phase = "fill" /\ mode = "heuristic" /\ holds[t] = 0
  /\ pending # {} /\ visited # {}
  /\ UNCHANGED rvars

\* Mutant: the comparison is strict.
WinningStrictly(a, total) == {d \in 1 .. total : d < a}

\* The draws from 1 .. total for which a path of weight a takes the slot.
Winning(a, total) == {d \in 1 .. total : d <= a}

\* The law of a slot once path l is counted, with the given total.
NewLaw(l, total) ==
  LET win == Cardinality(Winning(weights[l], total)) IN
  [m \in Paths |-> (law[m] * (total - win)
                      + (IF m = l THEN Unit * win ELSE 0)) \div total]

\* The first path counted fills the reservoir, a later one competes for every
\* slot, with a draw of its own for each.
Count(t) ==
  /\ phase = "fill" /\ holds[t] # 0
  /\ LET l == holds[t]
         total == tmc + weights[l]
         win == Winning(weights[l], total)
     IN
     /\ tmc' = total
     /\ IF reservoir = <<>>
        THEN /\ reservoir' = [i \in 1 .. nb |-> l]
             /\ law' = [m \in Paths |-> IF m = l THEN Unit ELSE 0]
        ELSE /\ \E d \in [1 .. nb -> {1, total}] :
                  reservoir' = [i \in 1 .. nb |->
                    IF d[i] \in win THEN l ELSE reservoir[i]]
             /\ law' = NewLaw(l, total)
  /\ holds' = [holds EXCEPT ![t] = 0]
  /\ UNCHANGED <<given, phase, pending, visited, printed>>

\* The end of the first loop, and random_shuffle.
Shuffle ==
  /\ phase = "fill" /\ pending = {} /\ \A t \in Crew : holds[t] = 0
  /\ \E p \in [DOMAIN reservoir -> DOMAIN reservoir] :
       /\ \A i, j \in DOMAIN p : p[i] = p[j] => i = j
       /\ reservoir' = [i \in DOMAIN reservoir |-> reservoir[p[i]]]
  /\ phase' = "print"
  /\ pending' = DOMAIN reservoir
  /\ UNCHANGED <<given, holds, visited, tmc, printed, law>>

\* The second loop: a thread takes a slot,
TakeSlot(t) ==
  /\ phase = "print" /\ holds[t] = 0
  /\ \E i \in pending :
       pending' = pending \ {i} /\ holds' = [holds EXCEPT ![t] = i]
  /\ UNCHANGED <<given, phase, visited, reservoir, tmc, printed, law>>

\* and prints a solution of its path, one that it drew in a critical section.
PrintSolution(t) ==
  /\ phase = "print" /\ holds[t] # 0
  /\ LET l == reservoir[holds[t]] IN
     \E id \in 1 .. weights[l] : printed' = Append(printed, <<l, id>>)
  /\ holds' = [holds EXCEPT ![t] = 0]
  /\ UNCHANGED <<given, phase, pending, visited, reservoir, tmc, law>>

Work(t) ==
  \/ TakePath(t) \/ DrawPath(t) \/ Redraw(t)
  \/ Count(t) \/ TakeSlot(t) \/ PrintSolution(t)
Sampled ==
  phase = "print" /\ pending = {} /\ \A t \in Crew : holds[t] = 0

-----------------------------------------------------------------------------
(* Properties *)

\* The paths counted so far.
Counted ==
  LET all == IF mode = "exact" THEN Paths \ pending ELSE visited
      inHand == IF phase = "fill" THEN {holds[t] : t \in Crew} ELSE {}
  IN IF phase = "print" /\ mode = "exact" THEN Paths ELSE all \ inHand

\* Whatever the order in which the threads bring the paths, every slot holds
\* each path counted with the probability of its share of the solutions, so
\* that all the solutions of these paths are drawn alike: in exact mode, all
\* those of the formula (cppddnnf/README.md:131).
UniformLaw ==
  /\ tmc = Total(Counted)
  /\ \A l \in Paths : law[l] * tmc = IF l \in Counted THEN weights[l] * Unit ELSE 0
  /\ \A i \in DOMAIN reservoir : reservoir[i] \in Counted

\* Sampling ends with nb solutions: the draw of a path not yet visited finds
\* one, since the buffer is smaller than the number of paths.  Without a path
\* or without a buffer it ends with none.
AllPrinted ==
  Sampled /\ Len(printed) = IF Paths = {} \/ buffer = 0 THEN 0 ELSE nb

=============================================================================
