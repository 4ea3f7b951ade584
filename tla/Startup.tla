------------------------------ MODULE Startup ------------------------------
(***************************************************************************)
(* What D4 does between the parser and its first call: the constructors of *)
(* the compiler (compilers/dDnnfCompiler.hh) and of the counter            *)
(* (modelCounters/ModelCounter.hh).  The clauses are given to the solver,  *)
(* which strips them in place; it is asked for an answer and simplified;   *)
(* what is left is handed to the occurrence manager, and the tables of the *)
(* bucket manager are given their sizes.  The two drivers do this in two   *)
(* orders, from two copies of the formula.                                 *)
(*                                                                         *)
(* The search is any that is right, as in module Compile.                  *)
(***************************************************************************)
EXTENDS Literals, Sequences, SequencesExt, FiniteSets, FiniteSetsExt

CONSTANTS
  Files,      \* the sequences of clauses the parser may give, each a sequence
              \* of literals, where one may be twice or with its negation
  Garbage,    \* the numbers a member that is not initialised may hold
  LongClause  \* 5 in the code: JW-TS leaves longer clauses out

VARIABLES
  driver,     \* "compile" or "count"
  cnf,        \* the parsed clauses, which addClause_ changes
  given,      \* how many were given to the solver
  solver,     \* ok, the literals of its trail, its clauses
  sizes,      \* what the bucket manager is told
  manager,    \* the occurrence manager
  stage,
  file        \* history: the clauses before addClause_

startup == <<driver, cnf, given, solver, sizes, manager, stage, file>>

NoManager == [clauses |-> <<>>, maxSizeClause |-> 0, entries |-> 0, watcher |-> <<>>]
NoSizes == [nbClauseCnf |-> 0, maxSizeClause |-> 0]

Lengths(cs) == {Len(cs[n]) : n \in DOMAIN cs}
LongestOf(cs) == Max({0} \cup Lengths(cs))

CountSizes(cs) == [nbClauseCnf |-> Len(cs), maxSizeClause |-> LongestOf(cs)]

SStart ==
  /\ driver \in {"compile", "count"} /\ file \in Files
  /\ cnf = file /\ given = 0
  /\ solver = [ok |-> TRUE, trail |-> {}, clauses |-> <<>>]
  /\ manager = NoManager
  /\ sizes = IF driver = "count" THEN CountSizes(cnf) ELSE NoSizes
  /\ stage = "add"

-----------------------------------------------------------------------------
(* The solver at level 0. *)

Falsified(c, us) == \A l \in c : Neg(l) \in us

\* us closed under unit propagation in cs.
Propagated(us, cs) ==
  LET step(ls) == ls \cup {l \in Lit : \E c \in cs : l \in c /\ Falsified(c \ {l}, ls)}
      after[n \in 0 .. 2 * NumVars] == IF n = 0 THEN us ELSE step(after[n - 1])
  IN after[2 * NumVars]

NoConflict(us, cs) ==
  (\A l \in us : Neg(l) \notin us) /\ \A c \in cs : ~Falsified(c, us)

\* sort
Sorted(ps) == SortSeq(ps, <)
InOrderOf(ls) == SetToSortSeq(ls, <)

\* Where addClause_ finds that a clause is satisfied: at a true literal, or
\* next to the negation.
SatisfiedAt(ps, us) ==
  {n \in DOMAIN ps : ps[n] \in us \/ (n > 1 /\ ps[n] = Neg(ps[n - 1]))}

\* What it has moved to the front before position n.
KeptBefore(ps, n, us) == InOrderOf({ps[m] : m \in {k \in 1 .. n - 1 : Neg(ps[k]) \notin us}})

\* It returns with the clause half moved, or with the clause stripped.
Stripped(ps, us) ==
  LET at == SatisfiedAt(ps, us) IN
  IF at = {} THEN KeptBefore(ps, Len(ps) + 1, us)
  ELSE LET front == KeptBefore(ps, Min(at), us)
       IN [n \in DOMAIN ps |-> IF n <= Len(front) THEN front[n] ELSE ps[n]]

AddClause ==
  /\ stage = "add" /\ given < Len(cnf)
  /\ given' = given + 1
  /\ LET us == solver.trail
         ps == Sorted(cnf[given + 1])
         left == Stripped(ps, us)
         grown == Propagated(us \cup ToSet(left), ToSet(solver.clauses))
     IN /\ cnf' = IF solver.ok THEN [cnf EXCEPT ![given + 1] = left] ELSE cnf
        /\ solver' =
             IF ~solver.ok \/ SatisfiedAt(ps, us) # {} THEN solver
             ELSE IF left = <<>> THEN [solver EXCEPT !.ok = FALSE]
             ELSE IF Len(left) = 1
               THEN [solver EXCEPT !.trail = grown, !.ok = NoConflict(grown, ToSet(solver.clauses))]
             ELSE [solver EXCEPT !.clauses = Append(@, ToSet(left))]
  /\ UNCHANGED <<driver, sizes, manager, stage, file>>

SolverModels == Models(ToSet(solver.clauses) \cup {{l} : l \in solver.trail})
ImpliedLits == {l \in Lit : \A m \in SolverModels : Satisfies(m, l)}
ClosedSets == {us \in SUBSET ImpliedLits : solver.trail \subseteq us /\
                                           Propagated(us, ToSet(solver.clauses)) = us}
Unsatisfied(cs, us) == SelectSeq(cs, LAMBDA c : c \cap us = {})

AllGiven == stage = "add" /\ given = Len(cnf)

\* solveWithAssumptions and simplify: units may be learnt after satisfied
\* clauses were last removed, and the second simplify may have been no turn yet.
Solve ==
  /\ AllGiven /\ solver.ok /\ SolverModels # {}
  /\ \E us \in ClosedSets, before \in ClosedSets, again \in BOOLEAN :
       /\ before \subseteq us
       /\ solver' = [solver EXCEPT !.trail = us,
                                   !.clauses = Unsatisfied(@, IF again THEN us ELSE before)]
  /\ stage' = "solved"
  /\ UNCHANGED <<driver, cnf, given, sizes, manager, file>>

SolveUnsat ==
  /\ AllGiven /\ (~solver.ok \/ SolverModels = {})
  /\ stage' = "unsat"
  /\ UNCHANGED <<driver, cnf, given, solver, sizes, manager, file>>

-----------------------------------------------------------------------------
(* The occurrence manager. *)

Unassigned(l) == {l, Neg(l)} \cap solver.trail = {}
ResidualOf(c) == {l \in c : Unassigned(l)}

\* Mutant: the marks of the clauses before are left.
AlreadyPresentStale(c, cs) ==
  \E n \in DOMAIN cs : Cardinality(cs[n]) = Cardinality(c) /\ cs[n] \subseteq c \cup UNION ToSet(cs)
AlreadyPresent(c, cs) ==
  \E n \in DOMAIN cs : Cardinality(cs[n]) = Cardinality(c) /\ cs[n] \subseteq c

\* prepareVecClauses
Prepared ==
  LET cs == Unsatisfied(solver.clauses, solver.trail)
      upto[n \in 0 .. Len(cs)] ==
        IF n = 0 THEN <<>>
        ELSE LET c == ResidualOf(cs[n])
             IN IF AlreadyPresent(c, upto[n - 1]) THEN upto[n - 1] ELSE Append(upto[n - 1], c)
  IN upto[Len(cs)]

\* reduceCnf
Reduced ==
  LET left == SelectSeq(cnf, LAMBDA c : ToSet(c) \cap solver.trail = {})
  IN [n \in DOMAIN left |-> SelectSeq(left[n], Unassigned)]

Watchers(cs) == [n \in DOMAIN cs |-> Head(cs[n])]
CopiesOf(l, c) == Cardinality({n \in DOMAIN c : c[n] = l})
OccList(l) ==
  FlattenSeq([n \in DOMAIN manager.clauses |->
                [k \in 1 .. CopiesOf(l, manager.clauses[n]) |-> n]])

\* The constructor given clauses returns early when there is none.
Construct(cs, size) ==
  manager' = [clauses |-> cs, entries |-> Len(cs), watcher |-> Watchers(cs),
              maxSizeClause |-> IF cs = <<>> THEN size ELSE LongestOf(cs)]

\* initFormula of the manager made empty: its arrays grow.
InitFormula(cs) ==
  manager' = [clauses |-> cs, entries |-> Max({manager.entries, Len(cs)}), watcher |-> Watchers(cs),
              maxSizeClause |-> Max({manager.maxSizeClause, LongestOf(cs)})]

HandToCompiler ==
  /\ stage = "solved" /\ driver = "compile"
  /\ \E size \in Garbage :
       Construct([n \in DOMAIN Prepared |-> InOrderOf(Prepared[n])], size)
  /\ solver' = [solver EXCEPT !.clauses = Unsatisfied(@, solver.trail)]
  /\ sizes' = [nbClauseCnf |-> Len(manager'.clauses), maxSizeClause |-> manager'.maxSizeClause]
  /\ stage' = "ready"
  /\ UNCHANGED <<driver, cnf, given, file>>

HandToCounter ==
  /\ stage = "solved" /\ driver = "count"
  /\ InitFormula(Reduced)
  /\ stage' = "ready"
  /\ UNCHANGED <<driver, cnf, given, solver, sizes, file>>

SNext == AddClause \/ Solve \/ SolveUnsat \/ HandToCompiler \/ HandToCounter

-----------------------------------------------------------------------------
(* How the next decision is chosen (heuristics/ScoringMethod.hh and         *)
(* PhaseHeuristic.hh, interfaces/VariableHeuristicInterface.cc), over the    *)
(* formula a driver starts from and any literals it has assigned since.      *)
(* Scores are counted in the smallest unit that occurs, to be integers.      *)

\* The literals ls were assigned through the occurrence manager since.
Now(ls) == solver.trail \cup ls

\* What preUpdate leaves in the list of a literal.
VecIdxClause(l, ls) ==
  SelectSeq(OccList(l), LAMBDA n : ToSet(manager.clauses[n]) \cap ls = {})
NbClause(l, ls) == Len(VecIdxClause(l, ls))
NbUnsat(n, ls) == Len(SelectSeq(manager.clauses[n], LAMBDA l : Neg(l) \in ls))

IsBinary(n, ls) == Len(manager.clauses[n]) - NbUnsat(n, ls) = 2
NbBinaryClause(l, ls) == Len(SelectSeq(VecIdxClause(l, ls), LAMBDA n : IsBinary(n, ls)))
OfVar(Count(_, _), v, ls) == Count(PosLit(v), ls) + Count(NegLit(v), ls)

\* MOM and JW-TS look the number of a clause up among the solver's.
SolverClause(n) == solver.clauses[n]
NbUnAssigned(n, ls) == Cardinality({l \in SolverClause(n) : {l, Neg(l)} \cap Now(ls) = {}})

ListsOf(v, ls) == VecIdxClause(NegLit(v), ls) \o VecIdxClause(PosLit(v), ls)

\* A quarter is the unit.
Mom(v, ls) ==
  OfVar(NbBinaryClause, v, ls) +
  Len(SelectSeq(ListsOf(v, ls), LAMBDA n : NbUnAssigned(n, ls) <= 2))

\* The unit is the weight of a clause of all variables.
Jwts(v, ls) ==
  2 ^ NumVars * OfVar(NbBinaryClause, v, ls) +
  FoldSeq(LAMBDA n, sum : sum + 4 * 2 ^ (NumVars - NbUnAssigned(n, ls)), 0,
          SelectSeq(ListsOf(v, ls), LAMBDA n : Cardinality(SolverClause(n)) <= LongClause))

Dlcs(v, ls) == OfVar(NbClause, v, ls)
Vsids(v, activity) == activity[v]
Vsads(v, ls, activity) == activity[v] + OfVar(NbClause, v, ls)

ComputeScore(method, v, ls, activity) ==
  CASE method = "VSADS" -> Vsads(v, ls, activity)
    [] method = "VSIDS" -> Vsids(v, activity)
    [] method = "DLCS" -> Dlcs(v, ls)
    [] method = "JW-TS" -> Jwts(v, ls)
    [] method = "MOM" -> Mom(v, ls)

NoVariable == -1    \* var_Undef

\* selectVariable: the first of the variables with the best score.
SelectVariable(method, component, ls, activity, projected) ==
  LET open(v) == {PosLit(v), NegLit(v)} \cap Now(ls) = {} /\ v \in projected
      score(v) == ComputeScore(method, v, ls, activity)
      best(v, next) == IF open(v) /\ (next = NoVariable \/ score(v) > score(next)) THEN v ELSE next
  IN FoldLeft(LAMBDA next, v : best(v, next), NoVariable, component)

\* selectPhase: TRUE is the negative literal.
SelectPhase(phase, v, ls, polarity) ==
  CASE phase = "TRUE" -> TRUE
    [] phase = "FALSE" -> FALSE
    [] phase = "POLARITY" -> polarity[v]
    [] phase = "OCCURRENCE" -> NbClause(PosLit(v), ls) < NbClause(NegLit(v), ls)

\* The literal tried first: mkLit(v, optReversePolarity - phase).
FirstBranch(v, phase, reverse) == IF reverse # phase THEN NegLit(v) ELSE PosLit(v)

-----------------------------------------------------------------------------
FileClauses == {ToSet(file[n]) : n \in DOMAIN file}
Handed == {ToSet(manager.clauses[n]) : n \in DOMAIN manager.clauses}

\* Whichever copy of the formula a driver starts from, the solver's literals
\* and the clauses handed over mean the file that was parsed.  No clause handed
\* over is empty or has an assigned literal, which the occurrence manager never
\* looks for, and the compiler is handed none twice (ShareStructures.hh:28).
StartRight ==
  /\ stage = "unsat" => Models(FileClauses) = {}
  /\ stage = "ready" =>
       /\ Models(Handed \cup {{l} : l \in solver.trail}) = Models(FileClauses)
       /\ {} \notin Handed
       /\ \A c \in Handed : \A l \in c : Unassigned(l)
       /\ driver = "compile" => Cardinality(Handed) = Len(manager.clauses)

\* Every table has an entry for every clause number and every length the
\* occurrence manager can hand out (BucketManager.hh:76, 214), though the
\* counter sizes its tables before the solver has changed the clauses; the
\* lists hold each clause as often as it holds the literal.
TablesFit ==
  stage = "ready" =>
    /\ Len(manager.clauses) <= sizes.nbClauseCnf
    /\ Len(manager.clauses) <= manager.entries
    /\ \A n \in DOMAIN manager.clauses :
         /\ Len(manager.clauses[n]) <= Min({sizes.maxSizeClause, manager.maxSizeClause})
         /\ manager.watcher[n] \in ToSet(manager.clauses[n])
    /\ \A l \in Lit : \A n \in DOMAIN manager.clauses :
         CopiesOf(n, OccList(l)) = CopiesOf(l, manager.clauses[n])

\* What the solver may have assigned when a variable is chosen.
Assumed ==
  {ls \in SUBSET {l \in Lit : Unassigned(l)} :
     NoConflict(Now(ls), Handed) /\ Propagated(Now(ls), Handed) = Now(ls)}

\* Clauses of n unassigned literals that hold the variable.
ResidualClauses(v, n, ls) ==
  {k \in DOMAIN manager.clauses :
     LET c == ToSet(manager.clauses[k])
         left == {l \in c : {l, Neg(l)} \cap Now(ls) = {}}
     IN c \cap Now(ls) = {} /\ Cardinality(left) = n /\ left \cap {PosLit(v), NegLit(v)} # {}}

SameNumbers ==
  /\ Len(solver.clauses) = Len(manager.clauses)
  /\ \A c \in Handed : \A l \in c : Neg(l) \notin c

\* MOM and JW-TS index the solver's clauses by numbers of the occurrence
\* manager (ScoringMethod.hh:61, 134).  In the compiler each number is one of the
\* solver's; where the two have the same clauses, MOM is twice the number of
\* binary clauses left, and the choice is a best variable.  By OCCURRENCE the
\* literal tried first satisfies no fewer clauses than the second.
ScoresRight ==
  stage = "ready" =>
    /\ driver = "compile" => Len(manager.clauses) <= Len(solver.clauses)
    /\ \A ls \in Assumed :
         /\ \A v \in Var :
              LET l == FirstBranch(v, SelectPhase("OCCURRENCE", v, ls, <<>>), FALSE)
              IN NbClause(l, ls) >= NbClause(Neg(l), ls)
         /\ SameNumbers =>
              /\ \A v \in Var : {PosLit(v), NegLit(v)} \cap Now(ls) = {} =>
                   /\ Mom(v, ls) = 2 * Cardinality(ResidualClauses(v, 2, ls))
                   /\ Jwts(v, ls) >= 2 ^ NumVars * Cardinality(ResidualClauses(v, 2, ls))
              /\ \A method \in {"MOM", "JW-TS", "DLCS"} :
                   LET v == SelectVariable(method, SetToSeq(Var), ls, <<>>, Var)
                       open == {w \in Var : {PosLit(w), NegLit(w)} \cap Now(ls) = {}}
                   IN IF open = {} THEN v = NoVariable
                      ELSE v \in open /\ \A w \in open :
                             ComputeScore(method, w, ls, <<>>) <= ComputeScore(method, v, ls, <<>>)

=============================================================================
