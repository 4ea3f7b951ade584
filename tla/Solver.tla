------------------------------- MODULE Solver -------------------------------
(***************************************************************************)
(* The SAT solver of D4 (utils/Solver.cc, utils/Solver.hh), used as its    *)
(* two drivers use it: one stack of assumptions over many calls, decisions *)
(* in one component only, levels kept from call to call, units asked for   *)
(* between calls, and a search for implied literals by probing             *)
(* (utils/equiv.hh).                                                       *)
(*                                                                         *)
(* Orders that come from activities (of decisions, of watch lists, of the  *)
(* clauses to forget) are any order.  Modules Compile and Occurrence take  *)
(* the solver as any that answers right; that is what is checked here.     *)
(***************************************************************************)
EXTENDS Literals, FiniteSets, FiniteSetsExt, Sequences, SequencesExt

CONSTANT
  Problems    \* records: clauses, a sequence of sets of literals; driver; phases,
              \* the signs decisions may have (FALSE is the positive literal);
              \* maxBranches, a bound on the decisions of the driver;
              \* maxExtra, one on restarts, reductions of the learnt clauses and probes

ASSUME ProblemsAssumption ==
  \A x \in Problems :
    /\ x.clauses \in Seq(SUBSET Lit)
    /\ x.driver \in {"compile", "count"}
    /\ x.phases \in (SUBSET BOOLEAN) \ {{}}
    /\ x.maxBranches \in Nat /\ x.maxExtra \in Nat

VARIABLES
  problem,
  added, ok,    \* the clauses given to addClause; FALSE once one is refuted
  db,           \* the clauses with their two watches; a freed one is empty
  trail, lims,  \* the literals in order of assignment, where levels begin
  qhead,        \* how far the trail is propagated
  visiting,     \* the clauses still to visit for the last literal propagated
  conflict,     \* the clause found false, or 0
  assumptions,
  component, heap, \* the variables of the stamp; those to be decided
  mode,         \* what the solver is called for, and is to go on with
  sat,          \* the last answer
  frames,       \* the calls of the driver that wait: their variables and units
  calls, extra, \* counted for the bounds
  known         \* history: the levels when the last call began

clauseVars == <<added, ok, db>>
search == <<trail, lims, qhead, visiting, conflict>>
order == <<component, heap>>
callers == <<assumptions, frames, calls, known>>
vars == <<problem, clauseVars, search, order, mode, sat, callers, extra>>

Formula == ToSet(problem.clauses)
NoReason == 0
Entry(l, reason) == [lit |-> l, reason |-> reason]
Freed == [lits |-> {}, watches |-> {}, learnt |-> FALSE]

Init ==
  /\ problem \in Problems
  /\ added = 0 /\ ok = TRUE /\ db = <<>>
  /\ trail = <<>> /\ lims = <<>> /\ qhead = 0 /\ visiting = {} /\ conflict = 0
  /\ assumptions = <<>>
  /\ component = Var /\ heap = Var
  /\ mode = "add" /\ sat = FALSE
  /\ frames = <<>> /\ calls = 0 /\ extra = 0 /\ known = <<>>

-----------------------------------------------------------------------------
(* Values and levels. *)

LitsOf(t) == {t[i].lit : i \in DOMAIN t}
TrueLits == LitsOf(trail)
IsTrue(l) == l \in TrueLits
IsFalse(l) == Neg(l) \in TrueLits
Undefined(v) == {PosLit(v), NegLit(v)} \cap TrueLits = {}

DecisionLevel == Len(lims)
LevelAt(i) == Cardinality({n \in DOMAIN lims : lims[n] < i})
At(l) == CHOOSE i \in DOMAIN trail : VarOf(trail[i].lit) = VarOf(l)
LevelOf(l) == LevelAt(At(l))

\* The literals at level n and below.
UpTo(n) == IF n < DecisionLevel THEN LitsOf(SubSeq(trail, 1, lims[n + 1])) ELSE TrueLits

\* What cancelUntil leaves.
TrailAt(n) == IF n < DecisionLevel THEN SubSeq(trail, 1, lims[n + 1]) ELSE trail
LimsAt(n) == IF n < DecisionLevel THEN SubSeq(lims, 1, n) ELSE lims
FreedAt(n) == {VarOf(l) : l \in TrueLits \ LitsOf(TrailAt(n))}
\* Mutant: variables are not put back among those to decide.
HeapAtNone(n) == heap
HeapAt(n) == heap \cup (FreedAt(n) \cap component)

CancelUntil(n) ==
  /\ trail' = TrailAt(n) /\ lims' = LimsAt(n) /\ heap' = HeapAt(n)
  /\ qhead' = IF n < DecisionLevel THEN Len(TrailAt(n)) ELSE qhead
  /\ UNCHANGED <<visiting, conflict, component>>

\* newDecisionLevel and uncheckedEnqueue.
DecideLit(l) ==
  /\ lims' = Append(lims, Len(trail))
  /\ trail' = Append(trail, Entry(l, NoReason))
  /\ UNCHANGED <<qhead, visiting, conflict>>
\* Mutant: no level for an assumption that is true.
NewDecisionLevelNone == UNCHANGED search
NewDecisionLevel ==
  /\ lims' = Append(lims, Len(trail))
  /\ UNCHANGED <<trail, qhead, visiting, conflict>>

Quiet == visiting = {} /\ conflict = 0 /\ qhead = Len(trail)

-----------------------------------------------------------------------------
(* propagate *)

Propagating == visiting = {} /\ conflict = 0 /\ qhead < Len(trail)

TakeLiteral ==
  /\ Propagating
  /\ qhead' = qhead + 1
  /\ visiting' = {k \in DOMAIN db : Neg(trail[qhead + 1].lit) \in db[k].watches}
  /\ UNCHANGED <<problem, clauseVars, trail, lims, conflict, order, mode, sat, callers, extra>>

FalseLit == Neg(trail[qhead].lit)
First(k) == CHOOSE l \in db[k].watches : l # FalseLit
OnlyVisited(k) ==
  /\ visiting' = visiting \ {k}
  /\ UNCHANGED <<problem, added, ok, lims, qhead, order, mode, sat, callers, extra>>

\* The other watch is true, or the blocker, which may be any literal.
VisitSatisfied(k) ==
  /\ k \in visiting /\ db[k].lits \cap TrueLits # {}
  /\ OnlyVisited(k) /\ UNCHANGED <<db, trail, conflict>>

\* Mutant: any literal is watched next.
CanWatchAny(k) == db[k].lits \ db[k].watches
CanWatch(k) == {l \in db[k].lits \ db[k].watches : ~IsFalse(l)}

VisitMove(k) ==
  /\ k \in visiting /\ ~IsTrue(First(k))
  /\ \E l \in CanWatch(k) : db' = [db EXCEPT ![k].watches = {First(k), l}]
  /\ OnlyVisited(k) /\ UNCHANGED <<trail, conflict>>

NoOther(k) == k \in visiting /\ ~IsTrue(First(k)) /\ CanWatch(k) = {}

VisitUnit(k) ==
  /\ NoOther(k) /\ ~IsFalse(First(k))
  /\ trail' = Append(trail, Entry(First(k), k))
  /\ OnlyVisited(k) /\ UNCHANGED <<db, conflict>>

VisitConflict(k) ==
  /\ NoOther(k) /\ IsFalse(First(k))
  /\ conflict' = k /\ qhead' = Len(trail) /\ visiting' = {}
  /\ UNCHANGED <<problem, clauseVars, trail, lims, order, mode, sat, callers, extra>>

-----------------------------------------------------------------------------
(* addClause_ *)

Adding == mode = "add" /\ Quiet /\ ok /\ added < Len(problem.clauses)
NextClause == problem.clauses[added + 1]
Dropped == NextClause \cap TrueLits # {} \/ \E l \in NextClause : Neg(l) \in NextClause
Stripped == {l \in NextClause : ~IsFalse(l)}
AddUnchanged == UNCHANGED <<problem, lims, qhead, visiting, conflict, order, mode, sat, callers, extra>>

\* The two first literals are watched.
AddClause ==
  /\ Adding /\ ~Dropped /\ Cardinality(Stripped) > 1
  /\ LET first == Min(Stripped)
         watches == {first, Min(Stripped \ {first})}
     IN db' = Append(db, [lits |-> Stripped, watches |-> watches, learnt |-> FALSE])
  /\ added' = added + 1
  /\ UNCHANGED <<ok, trail>> /\ AddUnchanged

AddUnit ==
  /\ Adding /\ ~Dropped /\ Cardinality(Stripped) = 1
  /\ \E l \in Stripped : trail' = Append(trail, Entry(l, NoReason))
  /\ added' = added + 1
  /\ UNCHANGED <<ok, db>> /\ AddUnchanged

AddNothing ==
  /\ Adding /\ (Dropped \/ Stripped = {})
  /\ ok' = Dropped
  /\ added' = added + 1
  /\ UNCHANGED <<db, trail>> /\ AddUnchanged

AddConflict ==
  /\ mode = "add" /\ conflict # 0 /\ ok
  /\ ok' = FALSE
  /\ UNCHANGED <<problem, added, db, search, order, mode, sat, callers, extra>>

-----------------------------------------------------------------------------
(* analyze, analyzeLastUIP, litRedundant, analyzeFinal *)

Deep(ls) == {l \in ls : LevelOf(l) > 0}

\* What is left of the clause ls after resolving it with the reasons of the
\* literals above position i of the trail.
Resolvents(ls) ==
  LET walk[i \in 0 .. Len(trail)] ==
        IF i = Len(trail) THEN Deep(ls)
        ELSE LET t == trail[i + 1]
                 r == walk[i + 1]
             IN IF Neg(t.lit) \in r /\ t.reason # NoReason
                THEN (r \ {Neg(t.lit)}) \cup Deep(db[t.reason].lits \ {t.lit}) ELSE r
  IN walk

OfThisLevel(ls) == {l \in ls : LevelOf(l) = DecisionLevel}

\* The last position where one literal of the level is left.
FirstUip(walk) ==
  Max({i \in DOMAIN trail : OfThisLevel(walk[i]) = {Neg(trail[i].lit)}})

\* Mutant: any literal that was propagated.
RedundantInAny(ls) == {l \in ls : trail[At(l)].reason # NoReason}

\* The literals of ls that follow from others of it.
RedundantIn(ls) ==
  LET follows(i, below) ==
        /\ trail[i].reason # NoReason
        /\ Deep(db[trail[i].reason].lits \ {trail[i].lit}) \subseteq ls \cup below
      redundant[i \in 0 .. Len(trail)] ==
        IF i = 0 THEN {}
        ELSE LET below == redundant[i - 1] IN
             IF follows(i, below) THEN below \cup {Neg(trail[i].lit)} ELSE below
  IN ls \cap redundant[Len(trail)]

\* The clause that asserts the literal l of ls.
Minimised(ls, l) == (ls \ RedundantIn(ls)) \cup {l}

\* What is kept of the clause resolved down to position i.
LearntAt(walk, i) ==
  [lits |-> Minimised(walk[i], Neg(trail[i].lit)), lit |-> Neg(trail[i].lit)]

\* From the clause found false: down to the first literal alone on its level,
\* or to the decision.
analyze(ls) == LET walk == Resolvents(ls) IN LearntAt(walk, FirstUip(walk))
analyzeLastUIP(ls) == LearntAt(Resolvents(ls), lims[DecisionLevel] + 1)

Levels(ls) == {LevelOf(l) : l \in ls}
BacktrackLevel(ls, l) == IF ls = {l} THEN 0 ELSE Max(Levels(ls \ {l}))

\* The clause ls is kept, and its literal l made true at the level where it is unit.
AssertLit(ls, l) ==
  LET level == BacktrackLevel(ls, l) IN
  /\ IF ls = {l}
       THEN /\ trail' = Append(TrailAt(level), Entry(l, NoReason))
            /\ UNCHANGED db
       ELSE /\ trail' = Append(TrailAt(level), Entry(l, Len(db) + 1))
            /\ \E k \in {m \in ls \ {l} : LevelOf(m) = level} :
                 db' = Append(db, [lits |-> ls, watches |-> {l, k}, learnt |-> TRUE])
  /\ lims' = LimsAt(level) /\ heap' = HeapAt(level)
  /\ qhead' = Len(TrailAt(level)) /\ conflict' = 0
  /\ UNCHANGED <<problem, added, ok, visiting, component, sat, callers>>

\* The decisions that make the literal p false, from the last one.
Culprits(p) ==
  LET walk == Resolvents({p}) IN
  {Neg(trail[i].lit) : i \in {j \in DOMAIN trail : trail[j].reason = NoReason /\ Neg(trail[j].lit) \in walk[j]}}

-----------------------------------------------------------------------------
(* search *)

Searching == mode = "search" /\ Quiet
Answer(b) == sat' = b /\ mode' = "answered"

\* A conflict below every assumption.
RootConflict ==
  /\ mode = "search" /\ conflict # 0 /\ DecisionLevel = 0
  /\ Answer(FALSE)
  /\ UNCHANGED <<problem, clauseVars, search, order, callers, extra>>

Learn ==
  /\ mode = "search" /\ conflict # 0 /\ DecisionLevel > 0
  /\ \E learnt \in {analyze(db[conflict].lits)} : AssertLit(learnt.lits, learnt.lit)
  /\ UNCHANGED <<mode, extra>>

Restart ==
  /\ Searching /\ DecisionLevel > Len(assumptions) /\ extra < problem.maxExtra
  /\ CancelUntil(Len(assumptions))
  /\ extra' = extra + 1
  /\ UNCHANGED <<problem, clauseVars, mode, sat, callers>>

SatisfiedClauses == {k \in DOMAIN db : db[k].lits \cap TrueLits # {}}
Without(ks) == [k \in DOMAIN db |-> IF k \in ks THEN Freed ELSE db[k]]

\* simplify: learnt clauses only, after the constructor of the driver.
CanSimplify == {k \in SatisfiedClauses : db[k].learnt \/ calls = 1}
Simplify ==
  /\ db' = Without(CanSimplify)
  /\ trail' = [i \in DOMAIN trail |->
                 IF trail[i].reason \in CanSimplify THEN Entry(trail[i].lit, NoReason) ELSE trail[i]]
  /\ heap' = {v \in component : Undefined(v)}
  /\ UNCHANGED <<problem, added, ok, lims, qhead, visiting, conflict, component, callers, extra>>

SearchSimplify ==
  /\ Searching /\ DecisionLevel = 0 /\ CanSimplify # {}
  /\ Simplify /\ UNCHANGED <<mode, sat>>

\* reduceDB: learnt clauses that are no reason and have more than two literals.
Locked(k) == \E i \in DOMAIN trail : trail[i].reason = k
CanForget == {k \in DOMAIN db : db[k].learnt /\ Cardinality(db[k].lits) > 2 /\ ~Locked(k)}

ReduceDB ==
  /\ Searching /\ DecisionLevel >= Len(assumptions) /\ extra < problem.maxExtra
  /\ \E ks \in SUBSET CanForget : ks # {} /\ db' = Without(ks)
  /\ extra' = extra + 1
  /\ UNCHANGED <<problem, added, ok, search, order, mode, sat, callers>>

\* The assumption of the next level.
Assuming == DecisionLevel < Len(assumptions)
NextAssumption == assumptions[DecisionLevel + 1]

AssumeTrue ==
  /\ Assuming /\ IsTrue(NextAssumption) /\ NewDecisionLevel
  /\ UNCHANGED <<problem, clauseVars, order, mode, sat, callers, extra>>
AssumeDecide ==
  /\ Assuming /\ Undefined(VarOf(NextAssumption)) /\ DecideLit(NextAssumption)
  /\ UNCHANGED <<problem, clauseVars, order, mode, sat, callers, extra>>
SearchAssume == Searching /\ (AssumeTrue \/ AssumeDecide)

\* analyzeFinal: the conflict among the assumptions is kept as a clause.
AssumeFalse ==
  /\ Searching /\ Assuming /\ IsFalse(NextAssumption)
  /\ LET p == Neg(NextAssumption)
         ls == Culprits(NextAssumption)
         last == CHOOSE l \in ls : \A k \in ls : At(k) <= At(l)
     IN IF LevelOf(p) = 0
        THEN CancelUntil(0) /\ UNCHANGED db
        ELSE /\ db' = Append(db, [lits |-> {p} \cup ls, watches |-> {p, last}, learnt |-> TRUE])
             /\ UNCHANGED <<search, order>>
  /\ Answer(FALSE)
  /\ UNCHANGED <<problem, added, ok, callers, extra>>

\* pickBranchLit: any variable of the component, with any phase.
ToDecide == {v \in heap : Undefined(v)}

Pick ==
  /\ Searching /\ ~Assuming
  /\ \E v \in ToDecide, sign \in problem.phases :
       DecideLit(IF sign THEN NegLit(v) ELSE PosLit(v)) /\ heap' = heap \ {v}
  /\ UNCHANGED <<problem, clauseVars, component, mode, sat, callers, extra>>

Satisfiable ==
  /\ Searching /\ ~Assuming /\ ToDecide = {}
  /\ CancelUntil(Len(assumptions))
  /\ Answer(TRUE)
  /\ UNCHANGED <<problem, clauseVars, callers, extra>>

-----------------------------------------------------------------------------
(* The driver.  The first call is that of its constructor; the compiler has  *)
(* another before that of compile_ for the whole formula.                   *)

RootCalls == IF problem.driver = "compile" THEN 3 ELSE 2

KnownLevels == [n \in 1 .. DecisionLevel + 1 |-> UpTo(n - 1)]

\* rebuildWithConnectedComponent and solveWithAssumptions.
Solve(as, vs) ==
  /\ assumptions' = as
  /\ component' = vs /\ heap' = vs
  /\ calls' = calls + 1
  /\ known' = KnownLevels
  /\ mode' = "search"
  /\ UNCHANGED <<problem, clauseVars, search, sat, frames, extra>>

AddedAll == mode = "add" /\ Quiet /\ ok /\ added = Len(problem.clauses)
FirstCall == AddedAll /\ Solve(<<>>, Var)

\* solve_ returns at once, the constructor goes no further.
AddedUnsat ==
  /\ mode = "add" /\ ~ok /\ Answer(FALSE)
  /\ UNCHANGED <<problem, clauseVars, search, order, callers, extra>>

\* The constructor simplifies, unless nothing was propagated since.
Constructed ==
  /\ mode = "answered" /\ sat /\ calls = 1
  /\ mode' = "idle" /\ UNCHANGED sat
  /\ Simplify \/ UNCHANGED <<problem, clauseVars, search, order, callers, extra>>

SolveAgain ==
  /\ mode = "answered" /\ sat /\ 1 < calls /\ calls < RootCalls
  /\ mode' = "idle"
  /\ UNCHANGED <<problem, clauseVars, search, order, sat, callers, extra>>

RootCall == mode = "idle" /\ frames = <<>> /\ Solve(<<>>, Var)

\* collectUnit and preUpdate: the call waits with its variables and units.
CollectUnit ==
  /\ mode = "answered" /\ sat /\ calls >= RootCalls
  /\ frames' = Append(frames, [vars |-> component,
                               lits |-> {l \in TrueLits : VarOf(l) \in component}])
  /\ mode' = "idle"
  /\ UNCHANGED <<problem, clauseVars, search, order, sat, assumptions, calls, known, extra>>

\* The branch is false; its assumption is dropped.
Unsatisfiable ==
  /\ mode = "answered" /\ ~sat /\ frames # <<>>
  /\ assumptions' = Front(assumptions)
  /\ CancelUntil(Len(assumptions) - 1)
  /\ mode' = "idle"
  /\ UNCHANGED <<problem, clauseVars, sat, frames, calls, known, extra>>

Collected == UNION {frames[i].lits : i \in DOMAIN frames}
VarsOf(ls) == {VarOf(l) : l \in ls}

\* The component of v in the formula that is left, among unassigned variables.
Connected(v) ==
  LET left(c) == VarsOf({l \in c : Neg(l) \notin Collected})
      closed(s) == \A c \in Formula : c \cap Collected = {} /\ left(c) \cap s # {} => left(c) \subseteq s
  IN {w \in Var : \A s \in SUBSET Var : v \in s /\ closed(s) => w \in s}

InFrame == mode = "idle" /\ frames # <<>>
Open(v) == v \in Last(frames).vars /\ Undefined(v)

\* A decision in a component.
Branch ==
  /\ InFrame /\ calls < RootCalls + problem.maxBranches
  /\ \E v \in {w \in Var : Open(w)} : \E l \in {PosLit(v), NegLit(v)} :
       Cardinality(Connected(v)) > 1 /\ Solve(Append(assumptions, l), Connected(v))

\* interCollectUnit: a literal is tried, at a level of its own.
Probe ==
  /\ InFrame /\ extra < problem.maxExtra
  /\ \E v \in {w \in Var : Open(w)} : \E l \in {PosLit(v), NegLit(v)} : DecideLit(l)
  /\ mode' = "probe" /\ extra' = extra + 1
  /\ UNCHANGED <<problem, clauseVars, order, sat, callers>>

ProbeDone ==
  /\ mode = "probe" /\ Quiet
  /\ CancelUntil(DecisionLevel - 1)
  /\ mode' = "idle"
  /\ UNCHANGED <<problem, clauseVars, sat, callers, extra>>

\* resolveUnit: the literal is false; what remains of the conflict is kept.
ResolveUnit ==
  /\ mode = "probe" /\ conflict # 0
  /\ \E learnt \in {analyzeLastUIP(db[conflict].lits)} : AssertLit(learnt.lits, learnt.lit)
  /\ mode' = "resolved" /\ UNCHANGED extra

\* insertClauseAndPropagate, and refillAssums: the levels are made again.
Refilling == mode = "resolved" \/ (mode = "return" /\ problem.driver = "compile")
Refill == Refilling /\ Quiet /\ (AssumeTrue \/ AssumeDecide)

Resolved ==
  /\ mode = "resolved" /\ Quiet /\ ~Assuming
  /\ mode' = "idle"
  /\ UNCHANGED <<problem, clauseVars, search, order, sat, callers, extra>>

\* The call on top ends; the counter makes no level again.
Return ==
  /\ InFrame
  /\ mode' = "return"
  /\ UNCHANGED <<problem, clauseVars, search, order, sat, callers, extra>>

Returned ==
  /\ mode = "return" /\ Quiet /\ (Assuming => ~Refilling)
  /\ frames' = Front(frames)
  /\ assumptions' = IF assumptions = <<>> THEN <<>> ELSE Front(assumptions)
  /\ CancelUntil(Len(assumptions'))
  /\ mode' = IF Len(frames) = 1 THEN "done" ELSE "idle"
  /\ UNCHANGED <<problem, clauseVars, sat, calls, known, extra>>

InitUnsat ==
  /\ mode = "answered" /\ ~sat /\ frames = <<>>
  /\ mode' = "done"
  /\ UNCHANGED <<problem, clauseVars, search, order, sat, callers, extra>>

Finished == mode = "done" /\ UNCHANGED vars

Next ==
  \/ TakeLiteral
  \/ \E k \in DOMAIN db : VisitSatisfied(k) \/ VisitMove(k) \/ VisitUnit(k) \/ VisitConflict(k)
  \/ AddClause \/ AddUnit \/ AddNothing \/ AddConflict \/ AddedUnsat \/ FirstCall
  \/ RootConflict \/ Learn \/ Restart \/ SearchSimplify \/ ReduceDB
  \/ SearchAssume \/ AssumeFalse \/ Pick \/ Satisfiable
  \/ Constructed \/ SolveAgain \/ RootCall \/ CollectUnit \/ Unsatisfiable \/ Branch
  \/ Probe \/ ProbeDone \/ ResolveUnit \/ Refill \/ Resolved
  \/ Return \/ Returned \/ InitUnsat \/ Finished

Spec == Init /\ [][Next]_vars
FairSpec == Spec /\ WF_vars(Next)

-----------------------------------------------------------------------------
(* Properties *)

ModelsWith(ls) == {m \in Models(Formula) : \A l \in ls : Satisfies(m, l)}
FirstAssumptions(n) == {assumptions[i] : i \in 1 .. n}

\* Solver.cc:193-380: learnt clauses follow from the formula, and what is
\* forgotten, simplified or stripped never loses a part of it.
ClausesExact ==
  mode # "add" /\ ok =>
    LET kept == {db[k].lits : k \in DOMAIN db} \ {{}}
        models == Models(Formula)
    IN /\ \A m \in models : \A c \in kept : SatClause(m, c)
       /\ Models(kept \cup {{l} : l \in UpTo(0)}) = models

\* Solver.cc:725-778: when all is propagated, a clause with a false watch has a
\* true literal that will not be unassigned before it; so no clause is ever
\* missed, however far the solver backtracks.
WatchesSound ==
  Quiet =>
    \A k \in DOMAIN db : \A w \in db[k].watches :
      IsFalse(w) => \E l \in db[k].lits : IsTrue(l) /\ LevelOf(l) <= LevelOf(w)

\* Nothing more follows from ls by unit propagation.
Propagated(ls) ==
  \A c \in Formula :
    \/ c \cap ls # {}
    \/ \E k, l \in c : k # l /\ Neg(k) \notin ls /\ Neg(l) \notin ls
    \/ \E l \in c : Neg(l) \in c

\* Between calls each level has the assumptions up to it, only what follows from
\* them, all that propagates, and what was known when the call began.
LevelsSound ==
  mode \in {"answered", "idle", "done"} /\ calls > 0 =>
    \A n \in 0 .. Min({DecisionLevel, Len(assumptions)}) :
      /\ FirstAssumptions(n) \subseteq UpTo(n)
      /\ ModelsWith(UpTo(n)) = ModelsWith(FirstAssumptions(n))
      /\ ModelsWith({}) # {} => Propagated(UpTo(n))
      /\ mode = "answered" /\ n < Len(known) /\ n < Len(assumptions) => known[n + 1] \subseteq UpTo(n)

\* The answer to a call is right though only one component was decided, and no
\* assumption is refuted while the levels are made again.
DecidedRight ==
  /\ mode = "answered" => sat = (ModelsWith(ToSet(assumptions)) # {})
  /\ Refilling => conflict = 0 /\ (Quiet /\ Assuming => ~IsFalse(NextAssumption))

\* What a caller reads between two calls is right: the answer and the levels.
AnswersRight == DecidedRight /\ LevelsSound

\* Every call ends, and so does the run of the driver.
Termination == <>(mode = "done")

=============================================================================
