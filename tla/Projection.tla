----------------------------- MODULE Projection -----------------------------
(***************************************************************************)
(* The projection tool (projection/src/projection.cpp).  It reads a CNF    *)
(* formula and the variables prj to keep, simplifies it, copies it, forgets *)
(* the other variables one by one in the first copy and writes it to .p,   *)
(* then removes from the second copy the clauses over kept variables only  *)
(* and writes it to .pup.  Every loop over the formula that changes it is  *)
(* a sequence of steps here, one per iteration.                            *)
(***************************************************************************)
EXTENDS Cnf

CONSTANTS
  Formulas,     \* the clause sequences an input file may hold
  None          \* "not yet written"

ASSUME FormulasAssumption ==
  Formulas \subseteq {f \in Seq(Clauses) : Len(f) <= MaxClauses}

VARIABLES
  formula,  \* the clauses of the input file
  prj,      \* the variables of its "c p show" line
  pc,       \* the point the program is at
  cnf,      \* CNF cnf in main
  up,       \* CNF up in main, the copy made after simplify()
  at,       \* loop index over the slots (simplify, inplace_upper_bound)
  round,    \* the set u of simplify: literals still to propagate
  frgt,     \* variables still to forget
  dign,     \* variables forgotten so far
  ina,      \* nb_active when project() starts
  v,        \* the variable being forgotten
  cursor,   \* the iterators <<ip, in>> of the two nested loops of forget()
  ids,      \* the rest of the copied list of slots that forget() removes
  puvar,    \* what inplace_upper_bound() returns
  pFile,    \* the file .p
  upFile,   \* the file .pup
  logFile   \* the file .log: the true projection

vars == <<formula, prj, pc, cnf, up, at, round, frgt, dign, ina, v, cursor,
          ids, puvar, pFile, upFile, logFile>>

\* A formula as operator<< prints it.
FileOf(f, forced, show) ==
  [count |-> f.nbActive + Cardinality(f.units),
   clauses |-> Content(f), forced |-> forced, show |-> show]

Init ==
  /\ formula \in Formulas
  /\ prj \in SUBSET Var
  /\ pc = "tautologies"
  /\ cnf = CnfOf(formula)
  /\ up = CnfOf(<<>>)
  /\ at = 0
  /\ round = {} /\ frgt = {} /\ dign = {} /\ ids = {} /\ puvar = {}
  /\ ina = 0
  /\ v = 0
  /\ cursor = <<0, 0>>
  /\ pFile = None /\ upFile = None /\ logFile = None

-----------------------------------------------------------------------------
(* simplify() *)

\* One iteration of the first loop: drop the clause if it is a tautology.
Tautology ==
  /\ pc = "tautologies" /\ at < cnf.size
  /\ at' = at + 1
  /\ cnf' = IF at \in cnf.active /\ IsTautology(cnf.clauses[at])
            THEN RmClause(cnf, at) ELSE cnf
  /\ UNCHANGED <<formula, prj, pc, up, round, frgt, dign, ina, v, cursor, ids,
                 puvar, pFile, upFile, logFile>>

TautologiesDone ==
  /\ pc = "tautologies" /\ at = cnf.size
  /\ pc' = "collect"
  /\ UNCHANGED <<formula, prj, cnf, up, at, round, frgt, dign, ina, v, cursor,
                 ids, puvar, pFile, upFile, logFile>>

\* A round of propagation starts with the unit clauses there are now.
Collect ==
  /\ pc = "collect" /\ UnitIds(cnf) # {}
  /\ round' = UnitLits(cnf)
  /\ cnf' = CollectUnits(cnf)
  /\ pc' = "propagate"
  /\ UNCHANGED <<formula, prj, up, at, frgt, dign, ina, v, cursor, ids, puvar,
                 pFile, upFile, logFile>>

PropagateNext ==
  /\ pc = "propagate"
  /\ \E l \in round :
       /\ \A k \in round : l <= k
       /\ cnf' = Propagate(cnf, l)
       /\ round' = round \ {l}
  /\ pc' = IF round' = {} THEN "collect" ELSE "propagate"
  /\ UNCHANGED <<formula, prj, up, at, frgt, dign, ina, v, cursor, ids, puvar,
                 pFile, upFile, logFile>>

\* No unit clause is left: simplify() returns, main copies the formula and
\* project() starts.
Copy ==
  /\ pc = "collect" /\ UnitIds(cnf) = {}
  /\ up' = cnf
  /\ ina' = cnf.nbActive
  /\ frgt' = Var \ prj
  /\ pc' = "pick"
  /\ UNCHANGED <<formula, prj, cnf, at, round, dign, v, cursor, ids, puvar,
                 pFile, upFile, logFile>>

-----------------------------------------------------------------------------
(* project() and forget() *)

lp == PosLit(v)
ln == NegLit(v)

\* The first variable of smallest product, in the order of the set.
IsCheapest(x) ==
  \A y \in frgt : \/ OccurrenceProduct(cnf, x) < OccurrenceProduct(cnf, y)
                  \/ OccurrenceProduct(cnf, x) = OccurrenceProduct(cnf, y) /\ x <= y

IsLeast(i, S) == i \in S /\ \A j \in S : i <= j

\* forget(x) when x is a unit: only the unit of one sign is erased, and the
\* opposite literal is stripped from the clauses.
PickUnit ==
  /\ pc = "pick"
  /\ \E x \in frgt :
       /\ IsCheapest(x)
       /\ v' = x
       /\ \E l \in {PosLit(x), NegLit(x)} :
            /\ l \in cnf.units
            /\ l = NegLit(x) => PosLit(x) \notin cnf.units
            /\ cnf' = StripLiteral([cnf EXCEPT !.units = @ \ {l}], Neg(l))
       /\ ids' = cnf'.idx[PosLit(x)]
  /\ pc' = "dropPos"
  /\ UNCHANGED <<formula, prj, up, at, round, frgt, dign, ina, cursor, puvar,
                 pFile, upFile, logFile>>

NoUnit(x) == PosLit(x) \notin cnf.units /\ NegLit(x) \notin cnf.units

\* forget(x) when x occurs with one sign at most: the loops do nothing.
PickPure ==
  /\ pc = "pick"
  /\ \E x \in frgt :
       /\ IsCheapest(x) /\ NoUnit(x)
       /\ cnf.idx[PosLit(x)] = {} \/ cnf.idx[NegLit(x)] = {}
       /\ v' = x
       /\ ids' = cnf.idx[PosLit(x)]
  /\ pc' = "dropPos"
  /\ UNCHANGED <<formula, prj, cnf, up, at, round, frgt, dign, ina, cursor,
                 puvar, pFile, upFile, logFile>>

\* forget(x) when x occurs with both signs: the loops over the pairs start.
PickPairs ==
  /\ pc = "pick"
  /\ \E x \in frgt :
       /\ IsCheapest(x) /\ NoUnit(x)
       /\ v' = x
       /\ \E i \in cnf.idx[PosLit(x)], j \in cnf.idx[NegLit(x)] :
            /\ IsLeast(i, cnf.idx[PosLit(x)]) /\ IsLeast(j, cnf.idx[NegLit(x)])
            /\ cursor' = <<i, j>>
  /\ pc' = "resolve"
  /\ UNCHANGED <<formula, prj, cnf, up, at, round, frgt, dign, ina, ids, puvar,
                 pFile, upFile, logFile>>

\* The iterators move over the lists as they are after the addition.
Advance(f) ==
  LET nextIn == {j \in f.idx[ln] : j > cursor[2]}
      nextIp == {i \in f.idx[lp] : i > cursor[1]}
  IN \/ /\ \E j \in nextIn : IsLeast(j, nextIn) /\ cursor' = <<cursor[1], j>>
        /\ UNCHANGED <<pc, ids>>
     \/ /\ nextIn = {}
        /\ \E i \in nextIp, j \in f.idx[ln] :
             IsLeast(i, nextIp) /\ IsLeast(j, f.idx[ln]) /\ cursor' = <<i, j>>
        /\ UNCHANGED <<pc, ids>>
     \/ /\ nextIn = {} /\ nextIp = {}
        /\ pc' = "dropPos"
        /\ ids' = f.idx[lp]
        /\ UNCHANGED cursor

\* The resolvent of the two clauses at the cursor.
AtCursor == Resolvent(cnf, cursor[1], cursor[2], lp)

\* One iteration of the nested loops: resolve the two clauses at the cursor.
Resolve ==
  /\ pc = "resolve" /\ AtCursor # {}
  /\ cnf.avail # <<>> \/ cnf.size < MaxClauses
  /\ cnf' = IF TrivialResolvent(cnf, cursor[1], cursor[2], lp) THEN cnf
            ELSE AddClauseNonredundant(cnf, AtCursor)
  /\ Advance(cnf')
  /\ UNCHANGED <<formula, prj, up, at, round, frgt, dign, ina, v, puvar, pFile,
                 upFile, logFile>>

\* The unit clauses of both literals leave an empty resolvent.  The parameter of
\* add_clause_nonredundant is a copy of an empty vector, whose begin() is null, and
\* reading *c.begin() ends the program before a file is opened.
ResolveEmpty ==
  /\ pc = "resolve" /\ AtCursor = {}
  /\ pc' = "crashed"
  /\ UNCHANGED <<formula, prj, cnf, up, at, round, frgt, dign, ina, v, cursor, ids,
                 puvar, pFile, upFile, logFile>>

\* The old clauses with lp, then those with ln, are removed.
DropOne ==
  /\ pc \in {"dropPos", "dropNeg"}
  /\ \E id \in ids : /\ IsLeast(id, ids)
                     /\ cnf' = RmClause(cnf, id)
                     /\ ids' = ids \ {id}
  /\ UNCHANGED <<formula, prj, pc, up, at, round, frgt, dign, ina, v, cursor,
                 puvar, pFile, upFile, logFile>>

DropNegStart ==
  /\ pc = "dropPos" /\ ids = {}
  /\ ids' = cnf.idx[ln]
  /\ pc' = "dropNeg"
  /\ UNCHANGED <<formula, prj, cnf, up, at, round, frgt, dign, ina, v, cursor,
                 puvar, pFile, upFile, logFile>>

\* Mutant: the variable stays among those to forget.
ForgottenAgain ==
  /\ pc = "dropNeg" /\ ids = {}
  /\ dign' = dign \cup {v}
  /\ \/ pc' = "write"
     \/ cnf.nbActive < 3 * ina /\ pc' = "pick"
  /\ UNCHANGED <<formula, prj, cnf, up, at, round, frgt, ina, v, cursor, ids,
                 puvar, pFile, upFile, logFile>>

\* forget() returns.  project() stops when the formula has grown three times
\* as large or the time is out, which the clock may say at any iteration.
Forgotten ==
  /\ pc = "dropNeg" /\ ids = {}
  /\ frgt' = frgt \ {v}
  /\ dign' = dign \cup {v}
  /\ \/ pc' = "write"
     \/ cnf.nbActive < 3 * ina /\ pc' = "pick"
  /\ UNCHANGED <<formula, prj, cnf, up, at, round, ina, v, cursor, ids, puvar,
                 pFile, upFile, logFile>>

AllForgotten ==
  /\ pc = "pick" /\ frgt = {}
  /\ pc' = "write"
  /\ UNCHANGED <<formula, prj, cnf, up, at, round, frgt, dign, ina, v, cursor,
                 ids, puvar, pFile, upFile, logFile>>

-----------------------------------------------------------------------------
(* main() after project() *)

TrueProjection == Var \ dign

WriteP ==
  /\ pc = "write"
  /\ pFile' = FileOf(cnf, dign, prj)
  /\ at' = 0
  /\ pc' = "upperBound"
  /\ UNCHANGED <<formula, prj, cnf, up, round, frgt, dign, ina, v, cursor, ids,
                 puvar, upFile, logFile>>

\* One iteration of inplace_upper_bound(), over every slot, active or not.
UpperBound ==
  /\ pc = "upperBound" /\ at < up.size
  /\ at' = at + 1
  /\ LET vs == {VarOf(l) : l \in up.clauses[at]} IN
     \/ /\ vs \subseteq TrueProjection
        /\ up' = RmClause(up, at)
        /\ UNCHANGED puvar
     \/ /\ ~ vs \subseteq TrueProjection
        /\ puvar' = puvar \cup vs
        /\ UNCHANGED up
  /\ UNCHANGED <<formula, prj, pc, cnf, round, frgt, dign, ina, v, cursor, ids,
                 pFile, upFile, logFile>>

\* reset_prj() and the last two files.
WriteUp ==
  /\ pc = "upperBound" /\ at = up.size
  /\ upFile' = FileOf(up, {}, Var)
  /\ logFile' = TrueProjection
  /\ pc' = "done"
  /\ UNCHANGED <<formula, prj, cnf, up, at, round, frgt, dign, ina, v, cursor,
                 ids, puvar, pFile>>

Finished == pc \in {"done", "crashed"} /\ UNCHANGED vars

Next ==
  \/ Tautology \/ TautologiesDone \/ Collect \/ PropagateNext \/ Copy
  \/ PickUnit \/ PickPure \/ PickPairs \/ Resolve \/ ResolveEmpty
  \/ DropOne \/ DropNegStart \/ Forgotten \/ AllForgotten
  \/ WriteP \/ UpperBound \/ WriteUp \/ Finished

Spec == Init /\ [][Next]_vars

\* The program is sequential: it runs until it returns.
FairSpec == Spec /\ WF_vars(Next)

-----------------------------------------------------------------------------
(* Properties *)

Input == {formula[i] : i \in 1 .. Len(formula)}
FileModels(file) == Models(file.clauses \cup {{PosLit(x)} : x \in file.forced})

\* Every variable has its type; a slot index stays inside the vector.
TypeOK ==
  /\ formula \in Seq(Clauses) /\ prj \in SUBSET Var
  /\ pc \in {"tautologies", "collect", "propagate", "pick", "resolve",
             "dropPos", "dropNeg", "write", "upperBound", "done", "crashed"}
  /\ cnf \in CnfObject /\ up \in CnfObject
  /\ at \in 0 .. MaxClauses
  /\ round \in SUBSET Lit
  /\ frgt \in SUBSET Var /\ dign \in SUBSET Var /\ puvar \in SUBSET Var
  /\ ina \in Word
  /\ v \in Var
  /\ cursor \in Nat \X Nat
  /\ ids \in SUBSET Slot

\* The inverted lists name exactly the active clauses a literal is in, but for
\* the unit clauses of a round that are not propagated yet, which their own
\* list still names: what simplify, rm_clause, add_clause and forget maintain.
IndexExact == WellIndexed(cnf, round)

\* nb_active is the number of active clauses of the projected formula: the
\* decision to stop in project() and the header of .p rest on it.
NbActiveExact == WellCounted(cnf)

\* available_ids holds unused slots, each once: a resolvent never takes the
\* place of a clause of the formula.
AvailFree == WellFreed(cnf) /\ WellSized(cnf)

\* After the first loop no clause of the formula is a tautology, and no
\* resolvent that forget() adds is one: a clause never has both literals of
\* the variable its resolution is about.
NoTautology ==
  \A i \in cnf.active :
    pc # "tautologies" \/ i < at => ~ IsTautology(cnf.clauses[i])

\* The iterators of forget() point into the lists they walk, and the copied
\* lists of slots it removes are those lists still.
IteratorsValid ==
  /\ pc = "resolve" => cursor[1] \in cnf.idx[lp] /\ cursor[2] \in cnf.idx[ln]
  /\ pc = "dropPos" => ids = cnf.idx[lp]
  /\ pc = "dropNeg" => ids = cnf.idx[ln] /\ cnf.idx[lp] = {}

\* A loop over the slots stays in the vector; units are set aside in a round of
\* propagation only.
LoopsInside ==
  /\ pc = "tautologies" => at <= cnf.size
  /\ pc = "upperBound" => at <= up.size
  /\ pc # "propagate" => round = {}

\* Once forgotten, a variable is in no clause of the formula again.
ForgottenGone ==
  \A x \in dign : cnf.idx[PosLit(x)] = {} /\ cnf.idx[NegLit(x)] = {}

\* The inductive invariant behind the bookkeeping of the projected formula.
Inv == /\ TypeOK /\ IndexExact /\ NbActiveExact /\ AvailFree
       /\ NoTautology /\ IteratorsValid /\ LoopsInside /\ ForgottenGone

\* forget() adds resolvents while it walks the lists of both literals: the
\* lists it walks do not change and no clause it has still to read is lost.
KeepsIteration ==
  pc = "resolve" =>
    /\ cnf'.idx[lp] = cnf.idx[lp] /\ cnf'.idx[ln] = cnf.idx[ln]
    /\ \A i \in cnf.active : i \in cnf'.active /\ cnf'.clauses[i] = cnf.clauses[i]
StableIteration == [][KeepsIteration]_vars

\* The formula of .p says of the kept variables what the input says of them:
\* neither more nor fewer of their assignments extend to a model.
KeptExact ==
  ProjectOn(FileModels(pFile), logFile) = ProjectOn(Models(Input), logFile)

\* .p fixes every forgotten variable, so that it has as many models as the
\* input has projected models: no forgotten variable is free in its d-DNNF.
PathCountExact ==
  Cardinality(FileModels(pFile)) = Cardinality(ProjectOn(Models(Input), logFile))

\* The models of .pup that extend a projected model are the models of the
\* input: the count that pdac computes, the sum over the paths of the models
\* of .pup, rests on it.
DivisionExact ==
  {m \in FileModels(upFile) :
     m \cap logFile \in ProjectOn(FileModels(pFile), logFile)} = Models(Input)

\* Together the three files say what the input says, wherever project()
\* stopped: the projected formula, one path for each of its models, and the
\* formula that has the models of each path.  No files are missing for a formula
\* that has a model: the tool dies of an empty resolvent only when there is none.
ProjectionExact ==
  /\ pc = "done" => KeptExact /\ PathCountExact /\ DivisionExact
  /\ pc = "crashed" => Models(Input) = {}

\* The tool always ends, for a formula that has a model with its three files:
\* propagation, forgetting and the upper bound all terminate.
Termination ==
  /\ <>(pc \in {"done", "crashed"})
  /\ Models(Input) # {} => <>(pc = "done")

\* CNF.hpp:188: forget performs "F = (F /\ v) \/ (F /\ ~v)".
ForgetIsProjection ==
  pc = "dropNeg" /\ ids = {} =>
    LET kept == Var \ (dign \cup {v}) IN
    ProjectOn(Models(Content(cnf)), kept) = ProjectOn(Models(Input), kept)

\* CNF.hpp:275: nb_active_clauses() is "The number of clauses that are active",
\* here for the formula written to .pup.
UpperNbActive == pc = "done" => WellCounted(up)

=============================================================================
