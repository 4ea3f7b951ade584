---------------------------- MODULE SolverProofs ----------------------------
(***************************************************************************)
(* WatchesSound, ClausesExact and AnswersRight of module Solver, for every *)
(* formula, every order of decisions and every bound.                      *)
(*                                                                         *)
(* CoreInv is about the trail, the levels, the watches, the reasons and    *)
(* the clauses; each operation of the solver keeps it (the lemmas ...Core).*)
(* RestInv is about what the driver and the solver have agreed on, which   *)
(* decides what may be called when (the lemmas ...Step).                   *)
(* AnswerInv is about the calls that wait, their assumptions and units,    *)
(* and what was answered (the lemmas ...Answers).                          *)
(***************************************************************************)
EXTENDS Solver, FiniteSetTheorems, SequenceTheorems, WellFoundedInduction, TLAPS

ClauseRecords == [lits : SUBSET Lit, watches : SUBSET Lit, learnt : BOOLEAN]
Entries == [lit : Lit, reason : Nat]

CoreType ==
  /\ problem \in Problems
  /\ added \in 0 .. Len(problem.clauses) /\ ok \in BOOLEAN
  /\ db \in Seq(ClauseRecords)
  /\ trail \in Seq(Entries) /\ lims \in Seq(Nat)
  /\ qhead \in 0 .. Len(trail) /\ visiting \in SUBSET DOMAIN db /\ conflict \in {0} \cup DOMAIN db
  /\ component \in SUBSET Var /\ heap \in SUBSET Var

RestType ==
  /\ assumptions \in Seq(Lit)
  /\ mode \in {"add", "search", "answered", "idle", "probe", "resolved", "return", "done"}
  /\ sat \in BOOLEAN
  /\ frames \in Seq([vars : SUBSET Var, lits : SUBSET Lit])
  /\ calls \in Nat /\ extra \in Nat

\* A variable once on the trail; levels begin in order, none past what is
\* propagated while a clause is visited.
TrailInv ==
  /\ \A i, j \in DOMAIN trail : VarOf(trail[i].lit) = VarOf(trail[j].lit) => i = j
  /\ \A m, n \in DOMAIN lims : m <= n => lims[m] <= lims[n]
  /\ \A n \in DOMAIN lims : lims[n] <= qhead
  /\ visiting # {} => 0 < qhead /\ \A n \in DOMAIN lims : lims[n] < qhead
  /\ conflict # 0 => visiting = {} /\ qhead = Len(trail)

\* Positions by the levels that begin before them: i is at the root; j no deeper
\* than i; as deep; on the last level.
Root(i) == \A n \in DOMAIN lims : i <= lims[n]
NotAbove(j, i) == \A n \in DOMAIN lims : lims[n] < j => lims[n] < i
SameLevel(j, i) == \A n \in DOMAIN lims : lims[n] < j <=> lims[n] < i
Deepest(i) == \A n \in DOMAIN lims : lims[n] < i

\* Two watches, unless the clause is freed.
WatchesInv ==
  /\ \A k \in DOMAIN db :
       \/ db[k].lits = {} /\ db[k].watches = {}
       \/ \E a, b \in db[k].lits : a # b /\ db[k].watches = {a, b}
  /\ \A k \in visiting : FalseLit \in db[k].watches

\* A false watch whose literal is propagated has a true literal beside it, no
\* deeper; after a conflict this is known below the last level only, which the
\* analysis undoes.
Checked(i) == IF conflict = 0 THEN i <= qhead ELSE ~Deepest(i)
WatchInv ==
  \A k \in DOMAIN db : \A i \in DOMAIN trail :
    Neg(trail[i].lit) \in db[k].watches /\ Checked(i) /\ ~(k \in visiting /\ i = qhead) =>
      \E j \in DOMAIN trail : trail[j].lit \in db[k].lits /\ NotAbove(j, i)

\* The conflict is false, with a literal of the last level.
ConflictInv ==
  conflict # 0 =>
    /\ \A l \in db[conflict].lits : IsFalse(l)
    /\ \E i \in DOMAIN trail : Deepest(i) /\ Neg(trail[i].lit) \in db[conflict].lits

\* A literal above the root is a decision or follows by a clause from literals
\* before it, one of them on its level.
ReasonInv ==
  \A i \in DOMAIN trail : LET t == trail[i] IN
    IF t.reason = NoReason
    THEN Root(i) \/ \E n \in DOMAIN lims : i = lims[n] + 1
    ELSE /\ t.reason \in DOMAIN db /\ t.lit \in db[t.reason].lits
         /\ \A l \in db[t.reason].lits \ {t.lit} : \E j \in 1 .. i - 1 : trail[j].lit = Neg(l)
         /\ Root(i) \/ \E j \in 1 .. i - 1 : Neg(trail[j].lit) \in db[t.reason].lits /\ SameLevel(j, i)

\* No variable of the component is lost.
HeapInv == \A v \in component : v \in heap \/ ~Undefined(v)

\* When the solver is called, and with what.
ModeInv ==
  /\ mode = "add" => calls = 0 /\ lims = <<>> /\ component = Var /\ assumptions = <<>> /\ frames = <<>>
  /\ mode \in {"search", "idle", "probe", "resolved", "return"} =>
       ok /\ calls > 0
  /\ mode # "add" /\ ok => added = Len(problem.clauses)
  /\ mode = "idle" => Quiet
  /\ mode = "answered" /\ (sat \/ frames # <<>>) => Quiet /\ ok
  /\ mode = "answered" /\ sat => DecisionLevel <= Len(assumptions) /\ calls > 0
  /\ mode = "answered" /\ ~sat /\ frames # <<>> => assumptions # <<>>
  /\ calls = 1 => assumptions = <<>> /\ component = Var
  /\ mode = "probe" => lims # <<>>
  /\ mode \in {"probe", "resolved", "return"} => frames # <<>>
  /\ conflict # 0 => mode \in {"add", "search", "answered", "done", "probe", "resolved", "return"}
  /\ frames # <<>> => calls > 0

Given == {problem.clauses[i] : i \in 1 .. added}
Tautology(c) == \E l \in c : Neg(l) \in c

\* What is kept or true at the root follows from the clauses given.
ImpliedInv ==
  \A m \in Models(Given) :
    /\ \A k \in DOMAIN db : db[k].lits # {} => SatClause(m, db[k].lits)
    /\ \A i \in DOMAIN trail : Root(i) => Satisfies(m, trail[i].lit)

\* Of each clause given something is kept that implies it.
KeptInv ==
  ok => \A c \in Given :
    \/ Tautology(c)
    \/ \E i \in DOMAIN trail : Root(i) /\ trail[i].lit \in c
    \/ \E k \in DOMAIN db : ~db[k].learnt /\ db[k].lits # {} /\ db[k].lits \subseteq c

\* Once the driver is past its first call the formula has a model.
SatInv ==
  calls > 1 \/ (mode = "answered" /\ sat) \/ mode = "idle" \/ frames # <<>> => Models(Formula) # {}

CoreInv ==
  /\ CoreType /\ TrailInv /\ WatchesInv /\ WatchInv /\ ConflictInv /\ ReasonInv /\ HeapInv
  /\ ImpliedInv /\ KeptInv
RestInv == RestType /\ ModeInv /\ SatInv
SolverInv == CoreInv /\ RestInv

-----------------------------------------------------------------------------
\* Literals and their negations.
LEMMA LitLaws ==
  /\ \A l \in Lit : /\ Neg(l) \in Lit /\ Neg(Neg(l)) = l /\ Neg(l) # l
                     /\ VarOf(l) \in Var /\ VarOf(Neg(l)) = VarOf(l)
  /\ \A k, l \in Lit : VarOf(k) = VarOf(l) <=> k = l \/ k = Neg(l)
  /\ \A v \in Var : /\ PosLit(v) \in Lit /\ NegLit(v) \in Lit
                     /\ VarOf(PosLit(v)) = v /\ VarOf(NegLit(v)) = v /\ Neg(PosLit(v)) = NegLit(v)
<1> USE NumVarsAssumption
<1>1. \A l \in Lit : /\ Neg(l) \in Lit /\ Neg(Neg(l)) = l /\ Neg(l) # l
                     /\ VarOf(l) \in Var /\ VarOf(Neg(l)) = VarOf(l)
  BY DEF Lit, Neg, VarOf, Var
<1>2. \A k, l \in Lit : VarOf(k) = VarOf(l) <=> k = l \/ k = Neg(l)
  BY DEF Lit, Neg, VarOf
<1>3. \A v \in Var : /\ PosLit(v) \in Lit /\ NegLit(v) \in Lit
                     /\ VarOf(PosLit(v)) = v /\ VarOf(NegLit(v)) = v /\ Neg(PosLit(v)) = NegLit(v)
  BY DEF Lit, Neg, VarOf, Var, PosLit, NegLit
<1> QED
  BY <1>1, <1>2, <1>3

\* An assignment satisfies one of a literal and its negation.
LEMMA NegSatisfied ==
  ASSUME NEW m, NEW l \in Lit
  PROVE  Satisfies(m, Neg(l)) <=> ~Satisfies(m, l)
BY NumVarsAssumption DEF Lit, Neg, VarOf, Satisfies

\* A set of numbers has a least one.
LEMMA LeastNat ==
  ASSUME NEW T, T \subseteq Nat, T # {}
  PROVE  \E n \in T : \A m \in T : n <= m
<1>1. PICK x \in T : \A y \in T : ~ (<<y, x>> \in OpToRel(<, Nat))
  BY NatLessThanWellFounded, WFMin
<1>2. \A y \in T : <<y, x>> \in Nat \X Nat /\ ~(y < x)
  BY <1>1 DEF OpToRel
<1>3. ASSUME NEW m \in T PROVE x <= m
  <2>1. m \in Nat /\ x \in Nat
    OBVIOUS
  <2>2. ~(m < x)
    BY <1>2
  <2> QED
    BY <2>1, <2>2
<1> QED
  BY <1>3

-----------------------------------------------------------------------------
\* The records and sequences of the solver, from their types.
LEMMA Shape ==
  ASSUME CoreType
  PROVE  /\ DOMAIN trail = 1 .. Len(trail) /\ Len(trail) \in Nat
         /\ \A i \in DOMAIN trail : trail[i] \in Entries /\ trail[i].lit \in Lit /\ trail[i].reason \in Nat
         /\ DOMAIN lims = 1 .. Len(lims) /\ Len(lims) \in Nat
         /\ \A n \in DOMAIN lims : lims[n] \in Nat
         /\ DOMAIN db = 1 .. Len(db) /\ Len(db) \in Nat
         /\ \A k \in DOMAIN db : /\ db[k] \in ClauseRecords /\ db[k].lits \subseteq Lit
                                 /\ db[k].watches \subseteq Lit /\ db[k].learnt \in BOOLEAN
<1>1. trail \in Seq(Entries) /\ lims \in Seq(Nat) /\ db \in Seq(ClauseRecords)
  BY DEF CoreType
<1>2. DOMAIN trail = 1 .. Len(trail) /\ Len(trail) \in Nat /\ \A i \in DOMAIN trail : trail[i] \in Entries
  BY <1>1
<1>3. \A i \in DOMAIN trail : trail[i].lit \in Lit /\ trail[i].reason \in Nat
  BY <1>2 DEF Entries
<1>4. DOMAIN lims = 1 .. Len(lims) /\ Len(lims) \in Nat /\ \A n \in DOMAIN lims : lims[n] \in Nat
  BY <1>1
<1>5. DOMAIN db = 1 .. Len(db) /\ Len(db) \in Nat /\ \A k \in DOMAIN db : db[k] \in ClauseRecords
  BY <1>1
<1>6. \A k \in DOMAIN db : db[k].lits \in SUBSET Lit /\ db[k].watches \in SUBSET Lit /\ db[k].learnt \in BOOLEAN
  BY <1>5 DEF ClauseRecords
<1> QED
  BY <1>2, <1>3, <1>4, <1>5, <1>6

\* uncheckedEnqueue: one more entry at the end.
LEMMA Enqueued ==
  ASSUME NEW t \in Seq(Entries), NEW l \in Lit, NEW r \in Nat
  PROVE  LET u == Append(t, Entry(l, r)) IN
         /\ u \in Seq(Entries) /\ Len(u) = Len(t) + 1 /\ Len(t) \in Nat
         /\ DOMAIN t = 1 .. Len(t) /\ DOMAIN u = 1 .. Len(t) + 1
         /\ \A i \in DOMAIN t : u[i] = t[i]
         /\ u[Len(t) + 1].lit = l /\ u[Len(t) + 1].reason = r
<1>1. Entry(l, r) \in Entries
  BY DEF Entry, Entries
<1>2. /\ Append(t, Entry(l, r)) \in Seq(Entries) /\ Len(Append(t, Entry(l, r))) = Len(t) + 1
      /\ \A i \in 1 .. Len(t) : Append(t, Entry(l, r))[i] = t[i]
      /\ Append(t, Entry(l, r))[Len(t) + 1] = Entry(l, r)
  BY <1>1, AppendProperties
<1>3. Entry(l, r).lit = l /\ Entry(l, r).reason = r
  BY DEF Entry
<1>4. /\ Len(t) \in Nat /\ DOMAIN t = 1 .. Len(t)
      /\ DOMAIN Append(t, Entry(l, r)) = 1 .. Len(Append(t, Entry(l, r)))
  BY <1>2
<1> QED
  BY <1>2, <1>3, <1>4

\* What the trail says of a literal.
LEMMA Values ==
  ASSUME CoreType, TrailInv, NEW l \in Lit
  PROVE  /\ IsTrue(l) <=> \E i \in DOMAIN trail : trail[i].lit = l
         /\ IsFalse(l) <=> \E i \in DOMAIN trail : trail[i].lit = Neg(l)
         /\ Undefined(VarOf(l)) <=> ~IsTrue(l) /\ ~IsFalse(l)
         /\ Undefined(VarOf(l)) <=> \A i \in DOMAIN trail : VarOf(trail[i].lit) # VarOf(l)
         /\ ~(IsTrue(l) /\ IsFalse(l))
<1>1. /\ IsTrue(l) <=> \E i \in DOMAIN trail : trail[i].lit = l
      /\ IsFalse(l) <=> \E i \in DOMAIN trail : trail[i].lit = Neg(l)
  BY DEF IsTrue, IsFalse, TrueLits, LitsOf
<1>2. \A i \in DOMAIN trail : VarOf(trail[i].lit) = VarOf(l) <=> trail[i].lit = l \/ trail[i].lit = Neg(l)
  BY LitLaws, Shape
<1>3. {PosLit(VarOf(l)), NegLit(VarOf(l))} = {l, Neg(l)}
  BY NumVarsAssumption DEF PosLit, NegLit, VarOf, Neg, Lit
<1>4. Undefined(VarOf(l)) <=> ~IsTrue(l) /\ ~IsFalse(l)
  BY <1>3 DEF Undefined, IsTrue, IsFalse
<1>5. ~(IsTrue(l) /\ IsFalse(l))
  BY <1>1, <1>2, LitLaws DEF TrailInv
<1> QED
  BY <1>1, <1>2, <1>4, <1>5

\* propagate takes the next literal: the clauses it makes a watch of false are to
\* visit.
LEMMA TakeLiteralCore == CoreInv /\ TakeLiteral => CoreInv'
<1> SUFFICES ASSUME CoreInv, TakeLiteral PROVE CoreInv'
  OBVIOUS
<1> USE DEF CoreInv, clauseVars, order, callers
<1>0. /\ qhead' = qhead + 1 /\ qhead < Len(trail) /\ visiting = {} /\ conflict = 0 /\ conflict' = 0
      /\ visiting' = {k \in DOMAIN db : Neg(trail[qhead + 1].lit) \in db[k].watches}
      /\ problem' = problem /\ added' = added /\ ok' = ok /\ db' = db /\ trail' = trail /\ lims' = lims
      /\ component' = component /\ heap' = heap
  BY DEF TakeLiteral, Propagating
<1>1. CoreType'
  BY <1>0 DEF CoreType
<1>2. TrailInv'
  BY <1>0 DEF TrailInv, CoreType
<1>3. WatchesInv'
  BY <1>0 DEF WatchesInv, CoreType, FalseLit
<1>4. WatchInv'
  <2> SUFFICES ASSUME NEW k \in DOMAIN db, NEW i \in DOMAIN trail, Neg(trail[i].lit) \in db[k].watches,
                      i <= qhead + 1, ~(k \in visiting' /\ i = qhead + 1)
               PROVE  \E j \in DOMAIN trail : trail[j].lit \in db[k].lits /\ NotAbove(j, i)
    BY <1>0 DEF WatchInv, Checked, NotAbove
  <2>1. i # qhead + 1 /\ i \in Nat /\ qhead \in Nat
    BY <1>0, Shape DEF CoreType
  <2> QED
    BY <2>1, <1>0 DEF WatchInv, Checked
<1>5. ConflictInv' /\ ReasonInv' /\ HeapInv'
  BY <1>0 DEF ConflictInv, ReasonInv, HeapInv, SameLevel, Root, Undefined, TrueLits
<1>6. ImpliedInv' /\ KeptInv'
  BY <1>0 DEF ImpliedInv, KeptInv, Given, Root
<1> QED
  BY <1>1, <1>2, <1>3, <1>4, <1>5, <1>6

\* What is known of a clause that is visited.
LEMMA Visited ==
  ASSUME CoreInv, NEW k \in visiting
  PROVE  /\ k \in DOMAIN db /\ First(k) \in Lit /\ FalseLit \in Lit
         /\ First(k) # FalseLit /\ db[k].watches = {First(k), FalseLit}
         /\ First(k) \in db[k].lits /\ FalseLit \in db[k].lits /\ db[k].lits \subseteq Lit
         /\ qhead \in DOMAIN trail /\ trail[qhead].lit = Neg(FalseLit) /\ Deepest(qhead)
         /\ conflict = 0
<1> USE DEF CoreInv
<1>1. k \in DOMAIN db /\ db[k].lits \subseteq Lit /\ db[k].watches \subseteq Lit
  BY Shape DEF CoreType
<1>2. qhead \in 1 .. Len(trail) /\ \A n \in DOMAIN lims : lims[n] < qhead
  BY DEF TrailInv, CoreType
<1>3. qhead \in DOMAIN trail /\ trail[qhead].lit \in Lit /\ FalseLit \in Lit /\ trail[qhead].lit = Neg(FalseLit)
  BY <1>2, LitLaws, Shape DEF FalseLit
<1>4. FalseLit \in db[k].watches
  BY DEF WatchesInv
<1>5. PICK a, b \in db[k].lits : a # b /\ db[k].watches = {a, b}
  BY <1>1, <1>4 DEF WatchesInv
<1>6. PICK c \in db[k].watches : c # FalseLit /\ db[k].watches = {c, FalseLit}
  BY <1>5, <1>4
<1>7. First(k) = c
  BY <1>6 DEF First
<1>8. conflict = 0
  BY DEF TrailInv
<1> QED
  BY <1>1, <1>2, <1>3, <1>5, <1>6, <1>7, <1>8 DEF Deepest

\* A clause with a true literal is left as it is: that literal is at the deepest
\* level or before.
LEMMA VisitSatisfiedCore == \A k \in DOMAIN db : CoreInv /\ VisitSatisfied(k) => CoreInv'
<1> SUFFICES ASSUME NEW k \in DOMAIN db, CoreInv, VisitSatisfied(k) PROVE CoreInv'
  OBVIOUS
<1> USE DEF order, callers
<1>0. /\ visiting' = visiting \ {k} /\ k \in visiting /\ conflict' = conflict /\ qhead' = qhead
      /\ problem' = problem /\ added' = added /\ ok' = ok /\ db' = db /\ trail' = trail /\ lims' = lims
      /\ component' = component /\ heap' = heap
  BY DEF VisitSatisfied, OnlyVisited
<1>a. PICK j \in DOMAIN trail : trail[j].lit \in db[k].lits
  BY DEF VisitSatisfied, TrueLits, LitsOf
<1>b. NotAbove(j, qhead)
  BY Visited, <1>0 DEF Deepest, NotAbove
<1> USE DEF CoreInv
<1>1. CoreType'
  BY <1>0 DEF CoreType
<1>2. TrailInv'
  BY <1>0 DEF TrailInv, CoreType
<1>3. WatchesInv'
  BY <1>0 DEF WatchesInv, CoreType, FalseLit
<1>4. WatchInv'
  BY <1>0, <1>a, <1>b DEF WatchInv, CoreType, Checked, NotAbove, Deepest
<1>5. ConflictInv' /\ ReasonInv' /\ HeapInv'
  BY <1>0 DEF ConflictInv, ReasonInv, HeapInv, SameLevel, Root, Undefined, TrueLits, Deepest, IsFalse
<1>6. ImpliedInv' /\ KeptInv'
  BY <1>0 DEF ImpliedInv, KeptInv, Given, Root
<1> QED
  BY <1>1, <1>2, <1>3, <1>4, <1>5, <1>6

\* The watch moves to a literal that is not false.
LEMMA VisitMoveCore == \A k \in DOMAIN db : CoreInv /\ VisitMove(k) => CoreInv'
<1> SUFFICES ASSUME NEW k \in DOMAIN db, CoreInv, VisitMove(k) PROVE CoreInv'
  OBVIOUS
<1> USE DEF order, callers
<1>0. /\ visiting' = visiting \ {k} /\ k \in visiting /\ conflict' = conflict /\ qhead' = qhead
      /\ problem' = problem /\ added' = added /\ ok' = ok /\ trail' = trail /\ lims' = lims
      /\ component' = component /\ heap' = heap
  BY DEF VisitMove, OnlyVisited
<1>a. PICK l \in CanWatch(k) : db' = [db EXCEPT ![k].watches = {First(k), l}]
  BY DEF VisitMove
<1>b. l \in db[k].lits /\ l \in Lit /\ l # First(k) /\ ~IsFalse(l)
  BY Visited, <1>0, <1>a DEF CanWatch
<1>c. /\ db[k] \in ClauseRecords
      /\ db'[k] = [db[k] EXCEPT !.watches = {First(k), l}]
      /\ \A i \in DOMAIN db : i # k => db'[i] = db[i]
      /\ DOMAIN db' = DOMAIN db
  BY <1>a, Shape DEF CoreInv
<1>d. /\ \A i \in DOMAIN db : db'[i].lits = db[i].lits /\ db'[i].learnt = db[i].learnt
      /\ db'[k].watches = {First(k), l} /\ db'[k] \in ClauseRecords
  BY <1>c, <1>b, Visited, <1>0 DEF ClauseRecords
<1>1. CoreType'
  <2>1. db' \in Seq(ClauseRecords)
    BY <1>a, <1>c, <1>d, ExceptSeq DEF CoreInv, CoreType
  <2> QED
    BY <1>0, <2>1, <1>c DEF CoreInv, CoreType
<1> USE DEF CoreInv
<1>2. TrailInv'
  BY <1>0 DEF TrailInv, CoreType
<1>3. WatchesInv'
  <2>1. db[k].lits # {} /\ First(k) \in db[k].lits
    BY <1>0, Visited
  <2>2. ASSUME NEW h \in DOMAIN db
        PROVE  \/ db'[h].lits = {} /\ db'[h].watches = {}
               \/ \E a, b \in db'[h].lits : a # b /\ db'[h].watches = {a, b}
    <3>1. CASE h # k
      BY <3>1, <1>c DEF WatchesInv
    <3>2. CASE h = k
      BY <3>2, <2>1, <1>b, <1>d
    <3> QED
      BY <3>1, <3>2
  <2>3. \A h \in visiting' : FalseLit \in db'[h].watches
    BY <1>0, <1>c DEF WatchesInv, CoreType
  <2> QED
    BY <2>2, <2>3, <1>0, <1>c DEF WatchesInv, FalseLit
<1>4. WatchInv'
  <2> SUFFICES ASSUME NEW h \in DOMAIN db, NEW i \in DOMAIN trail, Neg(trail[i].lit) \in db'[h].watches,
                      Checked(i), ~(h \in visiting' /\ i = qhead)
               PROVE  \E j \in DOMAIN trail : trail[j].lit \in db[h].lits /\ NotAbove(j, i)
    BY <1>0, <1>c, <1>d DEF WatchInv, Checked, Deepest, NotAbove
  <2>1. CASE h # k
    BY <2>1, <1>0, <1>c DEF WatchInv
  <2>2. CASE h = k
    <3>1. Neg(trail[i].lit) # l
      BY <1>b, LitLaws, Shape DEF IsFalse, TrueLits, LitsOf
    <3>2. Neg(trail[i].lit) = First(k) /\ Neg(trail[i].lit) \in db[k].watches
      BY <3>1, <2>2, <1>d, <1>0, Visited
    <3>3. i # qhead
      BY <3>2, Visited, <1>0 DEF FalseLit
    <3> QED
      BY <3>2, <3>3, <2>2 DEF WatchInv
  <2> QED
    BY <2>1, <2>2
<1>5. ConflictInv' /\ ReasonInv' /\ HeapInv'
  BY <1>0, <1>c, <1>d, Visited DEF ConflictInv, ReasonInv, HeapInv, SameLevel, Root, Undefined, TrueLits
<1>6. ImpliedInv' /\ KeptInv'
  BY <1>0, <1>c, <1>d DEF ImpliedInv, KeptInv, Given, Root
<1> QED
  BY <1>1, <1>2, <1>3, <1>4, <1>5, <1>6

\* The literals of a clause with no other to watch.
LEMMA OthersFalse ==
  ASSUME CoreInv, NEW k \in visiting, NoOther(k)
  PROVE  \A l \in db[k].lits \ {First(k)} : IsFalse(l)
<1>1. \A l \in db[k].lits \ db[k].watches : IsFalse(l)
  BY DEF NoOther, CanWatch
<1>2. IsFalse(FalseLit)
  BY Visited, Values DEF CoreInv
<1> QED
  BY <1>1, <1>2, Visited

\* The other watch is made true: all other literals are false, the watch given up
\* at the same level.
LEMMA VisitUnitCore == \A k \in DOMAIN db : CoreInv /\ VisitUnit(k) => CoreInv'
<1> SUFFICES ASSUME NEW k \in DOMAIN db, CoreInv, VisitUnit(k) PROVE CoreInv'
  OBVIOUS
<1> DEFINE f == First(k)
           n == Len(trail)
<1> USE DEF order, callers
<1>0. /\ visiting' = visiting \ {k} /\ k \in visiting /\ conflict' = conflict /\ qhead' = qhead
      /\ problem' = problem /\ added' = added /\ ok' = ok /\ db' = db /\ lims' = lims
      /\ component' = component /\ heap' = heap
      /\ trail' = Append(trail, Entry(f, k)) /\ NoOther(k) /\ ~IsFalse(f) /\ ~IsTrue(f)
  BY DEF VisitUnit, OnlyVisited, NoOther
<1>a. CoreType /\ TrailInv /\ f \in Lit /\ f \in db[k].lits /\ k \in Nat \ {0} /\ conflict = 0
  BY <1>0, Visited, Shape DEF CoreInv
<1>b. /\ trail' \in Seq(Entries) /\ Len(trail') = n + 1 /\ n \in Nat
      /\ DOMAIN trail = 1 .. n /\ DOMAIN trail' = 1 .. n + 1
      /\ \A i \in DOMAIN trail : trail'[i] = trail[i]
      /\ trail'[n + 1].lit = f /\ trail'[n + 1].reason = k
  BY <1>0, <1>a, Enqueued DEF CoreType
<1>c. \A i \in DOMAIN trail : VarOf(trail[i].lit) # VarOf(f)
  BY <1>0, <1>a, Values
<1>d. \A l \in db[k].lits \ {f} : \E j \in DOMAIN trail : trail[j].lit = Neg(l)
  BY <1>0, <1>a, OthersFalse, Visited, Values
<1>e. /\ qhead \in DOMAIN trail /\ Deepest(qhead) /\ trail[qhead].lit = Neg(FalseLit)
      /\ FalseLit \in db[k].lits /\ db[k].watches = {f, FalseLit} /\ FalseLit \in Lit
  BY <1>0, Visited
<1>f. /\ DOMAIN lims = 1 .. Len(lims) /\ \A m \in DOMAIN lims : lims[m] \in Nat /\ lims[m] < qhead
  BY <1>a, <1>e, Shape DEF Deepest
<1>1. CoreType'
  BY <1>0, <1>a, <1>b DEF CoreType
<1>2. TrailInv'
  <2>1. \A i, j \in DOMAIN trail' : VarOf(trail'[i].lit) = VarOf(trail'[j].lit) => i = j
    BY <1>a, <1>b, <1>c DEF TrailInv
  <2> QED
    BY <2>1, <1>0, <1>a DEF TrailInv
<1>3. WatchesInv'
  BY <1>0, <1>b, <1>e DEF WatchesInv, CoreInv, CoreType, FalseLit
<1>4. WatchInv'
  <2> SUFFICES ASSUME NEW h \in DOMAIN db, NEW i \in 1 .. n + 1, Neg(trail'[i].lit) \in db[h].watches,
                      i <= qhead, ~(h \in visiting' /\ i = qhead)
               PROVE  \E j \in 1 .. n + 1 : trail'[j].lit \in db[h].lits /\ NotAbove(j, i)
    BY <1>0, <1>a, <1>b DEF WatchInv, Checked, NotAbove
  <2>1. i \in DOMAIN trail /\ trail'[i] = trail[i]
    BY <1>b, <1>e
  <2>2. CASE h = k /\ i = qhead
    <3>1. NotAbove(n + 1, i)
      BY <2>2, <1>e DEF Deepest, NotAbove
    <3> QED
      BY <3>1, <1>a, <1>b, <2>2
  <2>3. CASE ~(h = k /\ i = qhead)
    <3>1. PICK j \in DOMAIN trail : trail[j].lit \in db[h].lits /\ NotAbove(j, i)
      BY <2>1, <2>3, <1>0, <1>a DEF CoreInv, WatchInv, Checked
    <3> QED
      BY <3>1, <1>b
  <2> QED
    BY <2>2, <2>3
<1>5. ConflictInv'
  BY <1>0, <1>a DEF ConflictInv
<1>6. ReasonInv'
  <2> SUFFICES ASSUME NEW i \in 1 .. n + 1
               PROVE  IF trail'[i].reason = NoReason
                      THEN Root(i) \/ \E m \in DOMAIN lims : i = lims[m] + 1
                      ELSE /\ trail'[i].reason \in DOMAIN db /\ trail'[i].lit \in db[trail'[i].reason].lits
                           /\ \A l \in db[trail'[i].reason].lits \ {trail'[i].lit} :
                                \E j \in 1 .. i - 1 : trail'[j].lit = Neg(l)
                           /\ Root(i) \/ \E j \in 1 .. i - 1 :
                                Neg(trail'[j].lit) \in db[trail'[i].reason].lits /\ SameLevel(j, i)
    BY <1>0, <1>b DEF ReasonInv, Root, SameLevel
  <2>1. CASE i = n + 1
    <3>1. SameLevel(qhead, i)
      BY <2>1, <1>b, <1>e, <1>f DEF SameLevel
    <3>2. qhead \in 1 .. i - 1 /\ Neg(trail'[qhead].lit) \in db[k].lits
      BY <2>1, <1>b, <1>e, LitLaws
    <3> QED
      BY <2>1, <3>1, <3>2, <1>a, <1>b, <1>d DEF NoReason
  <2>2. CASE i # n + 1
    <3>1. i \in DOMAIN trail /\ trail'[i] = trail[i] /\ \A j \in 1 .. i - 1 : j \in DOMAIN trail /\ trail'[j] = trail[j]
      BY <2>2, <1>b
    <3> QED
      BY <3>1 DEF CoreInv, ReasonInv
  <2> QED
    BY <2>1, <2>2
<1>7. HeapInv'
  <2>1. TrueLits \subseteq TrueLits'
    BY <1>b DEF TrueLits, LitsOf
  <2> QED
    BY <2>1, <1>0 DEF CoreInv, HeapInv, Undefined
<1>8. ImpliedInv'
  <2> SUFFICES ASSUME NEW m \in Models(Given), NEW i \in 1 .. n + 1, Root(i)
               PROVE  Satisfies(m, trail'[i].lit)
    BY <1>0, <1>b DEF CoreInv, ImpliedInv, Given, Root
  <2>1. CASE i = n + 1
    <3>1. DOMAIN lims = {}
      BY <2>1, <1>b, <1>e, <1>f DEF Root
    <3>2. PICK l \in db[k].lits : Satisfies(m, l)
      BY <1>a, <1>0 DEF CoreInv, ImpliedInv, SatClause
    <3>3. l \in Lit
      BY <1>0, Visited
    <3>4. CASE l # f
      <4>1. PICK j \in DOMAIN trail : trail[j].lit = Neg(l)
        BY <3>4, <1>d
      <4>2. Satisfies(m, Neg(l))
        BY <4>1, <3>1 DEF CoreInv, ImpliedInv, Root
      <4> QED
        BY <4>2, <3>2, <3>3, NegSatisfied
    <3> QED
      BY <3>2, <3>4, <2>1, <1>b
  <2>2. CASE i # n + 1
    BY <2>2, <1>b DEF CoreInv, ImpliedInv
  <2> QED
    BY <2>1, <2>2
<1>9. KeptInv'
  BY <1>0, <1>b DEF CoreInv, KeptInv, Given, Root
<1> QED
  BY <1>1, <1>2, <1>3, <1>4, <1>5, <1>6, <1>7, <1>8, <1>9 DEF CoreInv

\* A clause is false: the deepest level is no longer checked.
LEMMA VisitConflictCore == \A k \in DOMAIN db : CoreInv /\ VisitConflict(k) => CoreInv'
<1> SUFFICES ASSUME NEW k \in DOMAIN db, CoreInv, VisitConflict(k) PROVE CoreInv'
  OBVIOUS
<1> USE DEF order, callers, clauseVars
<1>0. /\ visiting' = {} /\ k \in visiting /\ conflict' = k /\ qhead' = Len(trail)
      /\ problem' = problem /\ added' = added /\ ok' = ok /\ db' = db /\ lims' = lims /\ trail' = trail
      /\ component' = component /\ heap' = heap /\ NoOther(k) /\ IsFalse(First(k))
  BY DEF VisitConflict, NoOther
<1>a. /\ CoreType /\ TrailInv /\ k \in Nat \ {0} /\ conflict = 0 /\ Len(trail) \in Nat
      /\ DOMAIN trail = 1 .. Len(trail)
  BY <1>0, Visited, Shape DEF CoreInv
<1>b. /\ qhead \in DOMAIN trail /\ Deepest(qhead) /\ trail[qhead].lit = Neg(FalseLit)
      /\ FalseLit \in db[k].lits /\ FalseLit \in Lit
  BY <1>0, Visited
<1>c. \A m \in DOMAIN lims : lims[m] \in Nat /\ lims[m] < qhead
  BY <1>a, <1>b, Shape DEF Deepest
<1>1. CoreType'
  BY <1>0, <1>a DEF CoreType
<1>2. TrailInv'
  BY <1>0, <1>a, <1>b, <1>c DEF TrailInv
<1>3. WatchesInv'
  BY <1>0 DEF WatchesInv, CoreInv
<1>4. WatchInv'
  <2> SUFFICES ASSUME NEW h \in DOMAIN db, NEW i \in DOMAIN trail, Neg(trail[i].lit) \in db[h].watches, ~Deepest(i)
               PROVE  \E j \in DOMAIN trail : trail[j].lit \in db[h].lits /\ NotAbove(j, i)
    BY <1>0, <1>a DEF WatchInv, Checked, NotAbove, Deepest
  <2>1. i < qhead
    BY <1>a, <1>b, <1>c DEF Deepest
  <2> QED
    BY <2>1, <1>a, <1>b DEF CoreInv, WatchInv, Checked
<1>5. ConflictInv'
  <2>1. \A l \in db[k].lits : IsFalse(l)
    BY <1>0, OthersFalse
  <2>2. Neg(trail[qhead].lit) \in db[k].lits
    BY <1>b, LitLaws
  <2> QED
    BY <2>1, <2>2, <1>0, <1>b DEF ConflictInv, IsFalse, TrueLits, Deepest
<1>6. ReasonInv' /\ HeapInv'
  BY <1>0 DEF CoreInv, ReasonInv, HeapInv, SameLevel, Root, Undefined, TrueLits
<1>7. ImpliedInv' /\ KeptInv'
  BY <1>0 DEF CoreInv, ImpliedInv, KeptInv, Given, Root
<1> QED
  BY <1>1, <1>2, <1>3, <1>4, <1>5, <1>6, <1>7 DEF CoreInv

-----------------------------------------------------------------------------
\* One more clause at the end.
LEMMA Recorded ==
  ASSUME NEW d \in Seq(ClauseRecords), NEW e \in ClauseRecords
  PROVE  /\ Append(d, e) \in Seq(ClauseRecords) /\ Len(d) \in Nat
         /\ DOMAIN d = 1 .. Len(d) /\ DOMAIN Append(d, e) = 1 .. Len(d) + 1
         /\ \A k \in DOMAIN d : Append(d, e)[k] = d[k]
         /\ Append(d, e)[Len(d) + 1] = e
<1>1. /\ Append(d, e) \in Seq(ClauseRecords) /\ Len(Append(d, e)) = Len(d) + 1
      /\ \A i \in 1 .. Len(d) : Append(d, e)[i] = d[i]
      /\ Append(d, e)[Len(d) + 1] = e
  BY AppendProperties
<1>2. /\ Len(d) \in Nat /\ DOMAIN d = 1 .. Len(d)
      /\ DOMAIN Append(d, e) = 1 .. Len(Append(d, e))
  BY <1>1
<1> QED
  BY <1>1, <1>2

\* The clause that addClause_ is given.
LEMMA Next1 ==
  ASSUME CoreInv, ModeInv, Adding
  PROVE  /\ NextClause \subseteq Lit /\ Stripped \subseteq Lit /\ Stripped \subseteq NextClause
         /\ added + 1 \in 0 .. Len(problem.clauses) /\ lims = <<>> /\ Quiet /\ qhead = Len(trail)
         /\ \A i : Root(i)
         /\ \A m : m \in Models(Given \cup {NextClause}) => m \in Models(Given) /\ SatClause(m, NextClause)
         /\ added' = added + 1 /\ problem' = problem => Given' = Given \cup {NextClause}
<1>1. problem.clauses \in Seq(SUBSET Lit) /\ added \in 0 .. Len(problem.clauses) /\ added < Len(problem.clauses)
  BY ProblemsAssumption DEF CoreInv, CoreType, Adding
<1>2. added + 1 \in 1 .. Len(problem.clauses) /\ DOMAIN problem.clauses = 1 .. Len(problem.clauses)
  BY <1>1
<1>3. NextClause \in SUBSET Lit
  BY <1>1, <1>2 DEF NextClause
<1>4. lims = <<>> /\ Quiet
  BY DEF Adding, ModeInv
<1>5. \A i : Root(i)
  BY <1>4 DEF Root
<1>6. ASSUME added' = added + 1, problem' = problem PROVE Given' = Given \cup {NextClause}
  <2>1. 1 .. added + 1 = (1 .. added) \cup {added + 1}
    BY <1>1
  <2> QED
    BY <1>6, <2>1 DEF Given, NextClause
<1> QED
  BY <1>2, <1>3, <1>4, <1>5, <1>6 DEF Stripped, Models, Quiet

\* A model of the clause satisfies what is left of it.
LEMMA StrippedImplied ==
  ASSUME CoreInv, ModeInv, Adding, NEW m \in Models(Given \cup {NextClause})
  PROVE  \E l \in Stripped : Satisfies(m, l)
<1>1. PICK l \in NextClause : Satisfies(m, l)
  BY Next1 DEF SatClause
<1>2. m \in Models(Given) /\ l \in Lit
  BY Next1
<1>3. ~IsFalse(l)
  <2> SUFFICES ASSUME IsFalse(l) PROVE FALSE
    OBVIOUS
  <2>1. PICK i \in DOMAIN trail : trail[i].lit = Neg(l)
    BY <1>2, Values DEF CoreInv
  <2>2. Satisfies(m, Neg(l))
    BY <2>1, <1>2, Next1 DEF CoreInv, ImpliedInv
  <2> QED
    BY <2>2, <1>1, <1>2, NegSatisfied
<1> QED
  BY <1>1, <1>3 DEF Stripped

\* Its two first literals.
LEMMA TwoLiterals ==
  ASSUME NEW ls \in SUBSET Lit, Cardinality(ls) > 1
  PROVE  /\ Min(ls) \in ls /\ Min(ls \ {Min(ls)}) \in ls \ {Min(ls)}
<1>1. ASSUME NEW s \in SUBSET Lit, s # {} PROVE Min(s) \in s
  <2>1. s \subseteq Nat
    BY <1>1, NumVarsAssumption DEF Lit
  <2>2. \E n \in s : \A m \in s : n <= m
    BY <1>1, <2>1, LeastNat
  <2> QED
    BY <2>2 DEF Min
<1>2. ls # {}
  BY FS_EmptySet
<1>3. \A x : ls # {x}
  BY FS_Singleton
<1>4. ls \ {Min(ls)} # {}
  BY <1>2, <1>3
<1> QED
  BY <1>1, <1>2, <1>4

\* addClause_ keeps a clause of two literals at least, none of them false.
LEMMA AddClauseCore == CoreInv /\ ModeInv /\ AddClause => CoreInv'
<1> SUFFICES ASSUME CoreInv, ModeInv, AddClause PROVE CoreInv'
  OBVIOUS
<1> DEFINE n == Len(db) + 1
           first == Min(Stripped)
           second == Min(Stripped \ {first})
<1> USE DEF order, callers
<1>0. /\ visiting' = visiting /\ conflict' = conflict /\ qhead' = qhead /\ trail' = trail
      /\ problem' = problem /\ added' = added + 1 /\ ok' = ok /\ lims' = lims
      /\ component' = component /\ heap' = heap /\ Adding /\ ~Dropped
      /\ db' = Append(db, [lits |-> Stripped, watches |-> {first, second}, learnt |-> FALSE])
  BY DEF AddClause, AddUnchanged
<1>a. first \in Stripped /\ second \in Stripped /\ first # second
  BY <1>0, TwoLiterals, Next1 DEF AddClause
<1> HIDE DEF first, second
<1>b. /\ db' \in Seq(ClauseRecords) /\ Len(db) \in Nat
      /\ DOMAIN db = 1 .. Len(db) /\ DOMAIN db' = 1 .. Len(db) + 1
      /\ \A k \in DOMAIN db : db'[k] = db[k]
      /\ db'[n].lits = Stripped /\ db'[n].watches = {first, second} /\ db'[n].learnt = FALSE
  <2> DEFINE e == [lits |-> Stripped, watches |-> {first, second}, learnt |-> FALSE]
  <2>1. e.lits = Stripped /\ e.watches = {first, second} /\ e.learnt = FALSE /\ db' = Append(db, e)
    BY <1>0
  <2>2. e \in ClauseRecords /\ db \in Seq(ClauseRecords)
    BY <1>0, <1>a, Next1 DEF ClauseRecords, CoreInv, CoreType
  <2> HIDE DEF e
  <2>3. /\ Append(db, e) \in Seq(ClauseRecords) /\ Len(db) \in Nat
        /\ DOMAIN db = 1 .. Len(db) /\ DOMAIN Append(db, e) = 1 .. Len(db) + 1
        /\ \A k \in DOMAIN db : Append(db, e)[k] = db[k]
        /\ Append(db, e)[Len(db) + 1] = e
    BY <2>2, Recorded
  <2> QED
    BY <2>1, <2>3
<1>c. /\ added + 1 \in 0 .. Len(problem.clauses) /\ visiting = {} /\ conflict = 0 /\ \A i : Root(i)
      /\ Given' = Given \cup {NextClause} /\ Stripped \subseteq Lit /\ Stripped \subseteq NextClause
      /\ \A m \in Models(Given \cup {NextClause}) : m \in Models(Given)
  BY <1>0, Next1 DEF Quiet
<1>d. CoreType /\ TrailInv
  BY DEF CoreInv
<1>1. CoreType'
  BY <1>0, <1>b, <1>c DEF CoreInv, CoreType
<1>2. TrailInv'
  BY <1>0, <1>d DEF TrailInv
<1>3. WatchesInv'
  <2> SUFFICES ASSUME NEW k \in DOMAIN db'
               PROVE  \/ db'[k].lits = {} /\ db'[k].watches = {}
                      \/ \E a, b \in db'[k].lits : a # b /\ db'[k].watches = {a, b}
    BY <1>0, <1>c DEF WatchesInv
  <2>1. CASE k \in DOMAIN db
    BY <2>1, <1>b DEF CoreInv, WatchesInv
  <2>2. CASE k \notin DOMAIN db
    BY <2>2, <1>a, <1>b
  <2> QED
    BY <2>1, <2>2
<1>4. WatchInv'
  <2> SUFFICES ASSUME NEW k \in DOMAIN db', NEW i \in DOMAIN trail, Neg(trail[i].lit) \in db'[k].watches,
                      Checked(i)
               PROVE  \E j \in DOMAIN trail : trail[j].lit \in db'[k].lits /\ NotAbove(j, i)
    BY <1>0, <1>c DEF WatchInv, Checked, NotAbove, Deepest
  <2>1. CASE k \in DOMAIN db
    BY <2>1, <1>b, <1>c DEF CoreInv, WatchInv
  <2>2. CASE k \notin DOMAIN db
    <3>1. Neg(trail[i].lit) \in Stripped
      BY <2>2, <1>a, <1>b
    <3>2. IsFalse(Neg(trail[i].lit))
      BY <1>d, Shape, LitLaws, Values
    <3> QED
      BY <3>1, <3>2 DEF Stripped
  <2> QED
    BY <2>1, <2>2
<1>5. ConflictInv'
  BY <1>0, <1>c DEF ConflictInv
<1>6. ReasonInv'
  <2>1. \A i \in DOMAIN trail : trail[i].reason \in DOMAIN db => db'[trail[i].reason] = db[trail[i].reason] /\ trail[i].reason \in DOMAIN db'
    BY <1>b
  <2> QED
    BY <1>0, <2>1 DEF CoreInv, ReasonInv, SameLevel, Root
<1>7. HeapInv'
  BY <1>0 DEF CoreInv, HeapInv, Undefined, TrueLits
<1>8. ImpliedInv'
  <2> SUFFICES ASSUME NEW m \in Models(Given \cup {NextClause})
               PROVE  /\ \A k \in DOMAIN db' : db'[k].lits # {} => SatClause(m, db'[k].lits)
                      /\ \A i \in DOMAIN trail : Satisfies(m, trail[i].lit)
    BY <1>0, <1>c DEF ImpliedInv, Root
  <2>1. m \in Models(Given)
    BY <1>c
  <2>2. ASSUME NEW k \in DOMAIN db', db'[k].lits # {} PROVE SatClause(m, db'[k].lits)
    <3>1. CASE k \in DOMAIN db
      BY <2>1, <2>2, <3>1, <1>b DEF CoreInv, ImpliedInv
    <3>2. CASE k \notin DOMAIN db
      <4>1. db'[k].lits = Stripped
        BY <3>2, <1>b
      <4> QED
        BY <4>1, <1>0, StrippedImplied DEF SatClause
    <3> QED
      BY <3>1, <3>2
  <2> QED
    BY <2>1, <2>2, <1>c DEF CoreInv, ImpliedInv
<1>9. KeptInv'
  <2> SUFFICES ASSUME ok, NEW c \in Given \cup {NextClause}
               PROVE  \/ Tautology(c)
                      \/ \E i \in DOMAIN trail : Root(i) /\ trail[i].lit \in c
                      \/ \E k \in DOMAIN db' : ~db'[k].learnt /\ db'[k].lits # {} /\ db'[k].lits \subseteq c
    BY <1>0, <1>c DEF KeptInv, Root
  <2>1. CASE c \in Given
    BY <2>1, <1>b DEF CoreInv, KeptInv
  <2>2. CASE c = NextClause
    BY <2>2, <1>a, <1>b, <1>c
  <2> QED
    BY <2>1, <2>2
<1> QED
  BY <1>1, <1>2, <1>3, <1>4, <1>5, <1>6, <1>7, <1>8, <1>9 DEF CoreInv

\* addClause_ makes the last literal of a clause true at the root.
LEMMA AddUnitCore == CoreInv /\ ModeInv /\ AddUnit => CoreInv'
<1> SUFFICES ASSUME CoreInv, ModeInv, AddUnit PROVE CoreInv'
  OBVIOUS
<1> USE DEF order, callers
<1> DEFINE n == Len(trail)
<1>p. PICK f \in Stripped : trail' = Append(trail, Entry(f, NoReason))
  BY DEF AddUnit
<1>0. /\ visiting' = visiting /\ conflict' = conflict /\ qhead' = qhead /\ db' = db
      /\ problem' = problem /\ added' = added + 1 /\ ok' = ok /\ lims' = lims
      /\ component' = component /\ heap' = heap /\ Adding /\ ~Dropped /\ Cardinality(Stripped) = 1
  BY DEF AddUnit, AddUnchanged
<1>a. Stripped = {f}
  <2>1. PICK x : Stripped = {x}
    <3>1. IsFiniteSet(Stripped)
      <4>1. IsFiniteSet(0 .. 2 * NumVars - 1)
        BY NumVarsAssumption, FS_Interval
      <4> QED
        BY <4>1, <1>0, Next1, FS_Subset DEF Lit
    <3> QED
      BY <3>1, <1>0, FS_Singleton
  <2> QED
    BY <2>1
<1>b. /\ added + 1 \in 0 .. Len(problem.clauses) /\ visiting = {} /\ conflict = 0 /\ \A i : Root(i)
      /\ Given' = Given \cup {NextClause} /\ Stripped \subseteq Lit /\ Stripped \subseteq NextClause
      /\ \A m \in Models(Given \cup {NextClause}) : m \in Models(Given)
      /\ lims = <<>> /\ qhead = n
  BY <1>0, Next1 DEF Quiet
<1>c. CoreType /\ TrailInv /\ f \in Lit
  BY <1>b DEF CoreInv
<1>d. /\ trail' \in Seq(Entries) /\ Len(trail') = n + 1 /\ n \in Nat
      /\ DOMAIN trail = 1 .. n /\ DOMAIN trail' = 1 .. n + 1
      /\ \A i \in DOMAIN trail : trail'[i] = trail[i]
      /\ trail'[n + 1].lit = f /\ trail'[n + 1].reason = NoReason
  <2>1. NoReason \in Nat
    BY DEF NoReason
  <2>2. trail \in Seq(Entries)
    BY <1>c DEF CoreType
  <2> QED
    BY <1>p, <1>c, <2>1, <2>2, Enqueued
<1>e. \A i \in DOMAIN trail : VarOf(trail[i].lit) # VarOf(f)
  <2>1. ~IsTrue(f) /\ ~IsFalse(f)
    BY <1>0, <1>b DEF Dropped, Stripped, IsTrue
  <2> QED
    BY <2>1, <1>c, Values
<1>1. CoreType'
  BY <1>0, <1>b, <1>c, <1>d DEF CoreType
<1>2. TrailInv'
  <2>1. \A i, j \in DOMAIN trail' : VarOf(trail'[i].lit) = VarOf(trail'[j].lit) => i = j
    BY <1>c, <1>d, <1>e DEF TrailInv
  <2> QED
    BY <2>1, <1>0, <1>b, <1>c DEF TrailInv
<1>3. WatchesInv'
  BY <1>0, <1>b DEF WatchesInv, CoreInv
<1>4. WatchInv'
  <2> SUFFICES ASSUME NEW k \in DOMAIN db, NEW i \in 1 .. n + 1, Neg(trail'[i].lit) \in db[k].watches, i <= n
               PROVE  \E j \in 1 .. n + 1 : trail'[j].lit \in db[k].lits /\ NotAbove(j, i)
    BY <1>0, <1>b, <1>d DEF WatchInv, Checked, NotAbove
  <2> QED
    BY <1>b, <1>d DEF CoreInv, WatchInv, Checked
<1>5. ConflictInv'
  BY <1>0, <1>b DEF ConflictInv
<1>6. ReasonInv'
  <2> SUFFICES ASSUME NEW i \in 1 .. n + 1, trail'[i].reason # NoReason
               PROVE  /\ trail'[i].reason \in DOMAIN db /\ trail'[i].lit \in db[trail'[i].reason].lits
                      /\ \A l \in db[trail'[i].reason].lits \ {trail'[i].lit} :
                                \E j \in 1 .. i - 1 : trail'[j].lit = Neg(l)
    BY <1>0, <1>b, <1>d DEF ReasonInv, Root
  <2>3. i \in DOMAIN trail /\ trail'[i] = trail[i] /\ \A j \in 1 .. i - 1 : j \in DOMAIN trail /\ trail'[j] = trail[j]
    BY <1>d
  <2> QED
    BY <2>3 DEF CoreInv, ReasonInv
<1>7. HeapInv'
  <2>1. TrueLits \subseteq TrueLits'
    BY <1>d DEF TrueLits, LitsOf
  <2> QED
    BY <2>1, <1>0 DEF CoreInv, HeapInv, Undefined
<1>8. ImpliedInv'
  <2> SUFFICES ASSUME NEW m \in Models(Given \cup {NextClause}), NEW i \in 1 .. n + 1
               PROVE  /\ \A k \in DOMAIN db : db[k].lits # {} => SatClause(m, db[k].lits)
                      /\ Satisfies(m, trail'[i].lit)
    BY <1>0, <1>b, <1>d DEF ImpliedInv
  <2>1. m \in Models(Given) /\ Satisfies(m, f)
    BY <1>0, <1>a, <1>b, StrippedImplied
  <2> QED
    BY <2>1, <1>b, <1>d DEF CoreInv, ImpliedInv
<1>9. KeptInv'
  <2> SUFFICES ASSUME ok, NEW c \in Given \cup {NextClause}
               PROVE  \/ Tautology(c)
                      \/ \E i \in 1 .. n + 1 : trail'[i].lit \in c
                      \/ \E k \in DOMAIN db : ~db[k].learnt /\ db[k].lits # {} /\ db[k].lits \subseteq c
    BY <1>0, <1>b, <1>d DEF KeptInv, Root
  <2>1. CASE c \in Given
    BY <2>1, <1>d DEF CoreInv, KeptInv
  <2>2. CASE c = NextClause
    BY <2>2, <1>b, <1>d
  <2> QED
    BY <2>1, <2>2
<1> QED
  BY <1>1, <1>2, <1>3, <1>4, <1>5, <1>6, <1>7, <1>8, <1>9 DEF CoreInv

\* addClause_ drops a clause that holds already, or refutes the formula.
LEMMA AddNothingCore == CoreInv /\ ModeInv /\ AddNothing => CoreInv'
<1> SUFFICES ASSUME CoreInv, ModeInv, AddNothing PROVE CoreInv'
  OBVIOUS
<1> USE DEF order, callers
<1>0. /\ visiting' = visiting /\ conflict' = conflict /\ qhead' = qhead /\ db' = db /\ trail' = trail
      /\ problem' = problem /\ added' = added + 1 /\ ok' = Dropped /\ lims' = lims
      /\ component' = component /\ heap' = heap /\ Adding
  BY DEF AddNothing, AddUnchanged
<1>b. /\ added + 1 \in 0 .. Len(problem.clauses) /\ \A i : Root(i)
      /\ Given' = Given \cup {NextClause} /\ NextClause \subseteq Lit
      /\ \A m \in Models(Given \cup {NextClause}) : m \in Models(Given)
  BY <1>0, Next1 DEF Quiet
<1>1. CoreType'
  BY <1>0, <1>b DEF CoreInv, CoreType, Dropped
<1>2. TrailInv' /\ WatchesInv' /\ WatchInv'
  BY <1>0 DEF CoreInv, TrailInv, WatchesInv, WatchInv, Checked, Deepest, NotAbove, FalseLit
<1>3. ConflictInv' /\ ReasonInv' /\ HeapInv'
  BY <1>0 DEF CoreInv, ConflictInv, ReasonInv, HeapInv, SameLevel, Root, Undefined, TrueLits, Deepest, IsFalse
<1>4. ImpliedInv'
  BY <1>0, <1>b DEF CoreInv, ImpliedInv, Root
<1>5. KeptInv'
  <2> SUFFICES ASSUME Dropped, NEW c \in Given \cup {NextClause}
               PROVE  \/ Tautology(c)
                      \/ \E i \in DOMAIN trail : Root(i) /\ trail[i].lit \in c
                      \/ \E k \in DOMAIN db : ~db[k].learnt /\ db[k].lits # {} /\ db[k].lits \subseteq c
    BY <1>0, <1>b DEF KeptInv, Root
  <2>1. CASE c \in Given
    BY <2>1, <1>0 DEF CoreInv, KeptInv, Adding
  <2>2. CASE c = NextClause
    BY <2>2, <1>b DEF Dropped, Tautology, TrueLits, LitsOf
  <2> QED
    BY <2>1, <2>2
<1> QED
  BY <1>1, <1>2, <1>3, <1>4, <1>5 DEF CoreInv

\* addClause_ meets a conflict while it propagates.
LEMMA AddConflictCore == CoreInv /\ AddConflict => CoreInv'
<1> SUFFICES ASSUME CoreInv, AddConflict PROVE CoreInv'
  OBVIOUS
<1> USE DEF order, callers, search
<1>0. /\ visiting' = visiting /\ conflict' = conflict /\ qhead' = qhead /\ db' = db /\ trail' = trail
      /\ problem' = problem /\ added' = added /\ ok' = FALSE /\ lims' = lims
      /\ component' = component /\ heap' = heap
  BY DEF AddConflict
<1>1. CoreType'
  BY <1>0 DEF CoreInv, CoreType
<1>2. TrailInv' /\ WatchesInv' /\ WatchInv'
  BY <1>0 DEF CoreInv, TrailInv, WatchesInv, WatchInv, Checked, Deepest, NotAbove, FalseLit
<1>3. ConflictInv' /\ ReasonInv' /\ HeapInv'
  BY <1>0 DEF CoreInv, ConflictInv, ReasonInv, HeapInv, SameLevel, Root, Undefined, TrueLits, Deepest, IsFalse
<1>4. ImpliedInv' /\ KeptInv'
  BY <1>0 DEF CoreInv, ImpliedInv, KeptInv, Root, Given
<1> QED
  BY <1>1, <1>2, <1>3, <1>4 DEF CoreInv

-----------------------------------------------------------------------------
Cut(n) == IF n < DecisionLevel THEN lims[n + 1] ELSE Len(trail)

\* What cancelUntil keeps is a prefix that no level crosses.
LEMMA CutFacts ==
  ASSUME CoreType, TrailInv, NEW n \in Nat
  PROVE  /\ Cut(n) \in 0 .. Len(trail)
         /\ TrailAt(n) \in Seq(Entries) /\ Len(TrailAt(n)) = Cut(n) /\ DOMAIN TrailAt(n) = 1 .. Cut(n)
         /\ \A i \in 1 .. Cut(n) : i \in DOMAIN trail /\ TrailAt(n)[i] = trail[i]
         /\ LimsAt(n) \in Seq(Nat) /\ DOMAIN LimsAt(n) \subseteq DOMAIN lims
         /\ Len(LimsAt(n)) = IF n < DecisionLevel THEN n ELSE DecisionLevel
         /\ \A m \in DOMAIN LimsAt(n) : LimsAt(n)[m] = lims[m] /\ lims[m] <= Cut(n)
         /\ \A m \in DOMAIN lims \ DOMAIN LimsAt(n) : Cut(n) <= lims[m]
         /\ DOMAIN LimsAt(n) = {m \in DOMAIN lims : m <= n}
<1>1. /\ DOMAIN lims = 1 .. Len(lims) /\ Len(lims) \in Nat /\ DOMAIN trail = 1 .. Len(trail) /\ Len(trail) \in Nat
      /\ \A m \in DOMAIN lims : lims[m] \in Nat /\ lims[m] <= Len(trail)
      /\ qhead \in 0 .. Len(trail)
      /\ trail \in Seq(Entries) /\ lims \in Seq(Nat)
  <2>1. /\ DOMAIN lims = 1 .. Len(lims) /\ Len(lims) \in Nat /\ DOMAIN trail = 1 .. Len(trail) /\ Len(trail) \in Nat
        /\ \A m \in DOMAIN lims : lims[m] \in Nat
    BY Shape
  <2>2. qhead \in 0 .. Len(trail) /\ \A m \in DOMAIN lims : lims[m] <= qhead
    BY DEF CoreType, TrailInv
  <2> QED
    BY <2>1, <2>2 DEF CoreType
<1>2. \A m, k \in DOMAIN lims : m <= k => lims[m] <= lims[k]
  BY DEF TrailInv
<1>3. CASE n < DecisionLevel
  <2>1. n + 1 \in DOMAIN lims /\ Cut(n) = lims[n + 1] /\ Cut(n) \in 0 .. Len(trail)
    BY <1>1, <1>3 DEF Cut, DecisionLevel
  <2>2. TrailAt(n) = SubSeq(trail, 1, Cut(n)) /\ LimsAt(n) = SubSeq(lims, 1, n)
    BY <2>1, <1>3 DEF TrailAt, LimsAt
  <2>3. /\ TrailAt(n) \in Seq(Entries) /\ Len(TrailAt(n)) = Cut(n) /\ DOMAIN TrailAt(n) = 1 .. Cut(n)
        /\ \A i \in 1 .. Cut(n) : i \in DOMAIN trail /\ TrailAt(n)[i] = trail[i]
    BY <1>1, <2>1, <2>2, SubSeqProperties
  <2>4. /\ LimsAt(n) \in Seq(Nat) /\ Len(LimsAt(n)) = n /\ DOMAIN LimsAt(n) = 1 .. n
        /\ \A i \in 1 .. n : LimsAt(n)[i] = lims[i]
    <3>1. n \in 0 .. Len(lims)
      BY <1>1, <1>3 DEF DecisionLevel
    <3> QED
      BY <1>1, <3>1, <2>2, SubSeqProperties
  <2>5. \A m \in 1 .. n : m \in DOMAIN lims /\ lims[m] <= Cut(n)
    <3> SUFFICES ASSUME NEW m \in 1 .. n PROVE m \in DOMAIN lims /\ lims[m] <= Cut(n)
      OBVIOUS
    <3>1. m \in DOMAIN lims /\ m <= n + 1
      BY <1>1, <2>1
    <3> QED
      BY <3>1, <1>2, <2>1
  <2>6. \A m \in DOMAIN lims : m \notin 1 .. n => Cut(n) <= lims[m]
    <3> SUFFICES ASSUME NEW m \in DOMAIN lims, m \notin 1 .. n PROVE Cut(n) <= lims[m]
      OBVIOUS
    <3>1. m \in Nat /\ n + 1 <= m
      <4>1. m \in 1 .. Len(lims) /\ Len(lims) \in Nat
        BY <1>1
      <4> QED
        BY <4>1
    <3> QED
      BY <3>1, <1>2, <2>1
  <2>7. DOMAIN LimsAt(n) = {m \in DOMAIN lims : m <= n}
    BY <1>1, <2>1, <2>4
  <2> QED
    BY <2>1, <2>3, <2>4, <2>5, <2>6, <2>7, <1>3
<1>4. CASE ~(n < DecisionLevel)
  <2>1. Cut(n) = Len(trail) /\ TrailAt(n) = trail /\ LimsAt(n) = lims
    BY <1>4 DEF Cut, TrailAt, LimsAt
  <2>2. DOMAIN lims = {m \in DOMAIN lims : m <= n}
    BY <1>1, <1>4 DEF DecisionLevel
  <2> QED
    BY <1>1, <1>4, <2>1, <2>2 DEF DecisionLevel
<1> QED
  BY <1>3, <1>4

\* Among the positions kept, levels compare as before.
LEMMA CutLevels ==
  ASSUME CoreType, TrailInv, NEW n \in Nat, lims' = LimsAt(n)
  PROVE  /\ \A i \in 1 .. Cut(n) : Root(i)' <=> Root(i)
         /\ \A i, j \in 1 .. Cut(n) : NotAbove(j, i)' <=> NotAbove(j, i)
         /\ \A i, j \in 1 .. Cut(n) : SameLevel(j, i)' <=> SameLevel(j, i)
         /\ \A i \in DOMAIN trail : Root(i) => i \in 1 .. Cut(n)
         /\ \A i \in 1 .. Cut(n) : \A j \in DOMAIN trail : NotAbove(j, i) => j \in 1 .. Cut(n)
<1> DEFINE c == Cut(n)
<1>1. /\ c \in 0 .. Len(trail) /\ DOMAIN lims' \subseteq DOMAIN lims
      /\ \A m \in DOMAIN lims' : lims'[m] = lims[m] /\ lims[m] <= c
      /\ \A m \in DOMAIN lims \ DOMAIN lims' : c <= lims[m]
  BY CutFacts
<1>2. /\ DOMAIN trail = 1 .. Len(trail) /\ Len(trail) \in Nat
      /\ \A m \in DOMAIN lims : lims[m] \in Nat
      /\ DOMAIN lims = 1 .. Len(lims) /\ Len(lims) \in Nat
  BY Shape
<1>3. c = Len(trail) \/ \E m \in DOMAIN lims : c = lims[m]
  BY <1>2 DEF Cut, DecisionLevel
<1> HIDE DEF c
<1>4. \A i \in 1 .. c : Root(i)' <=> Root(i)
  BY <1>1, <1>2 DEF Root
<1>5. \A i, j \in 1 .. c : NotAbove(j, i)' <=> NotAbove(j, i)
  BY <1>1, <1>2 DEF NotAbove
<1>6. \A i, j \in 1 .. c : SameLevel(j, i)' <=> SameLevel(j, i)
  BY <1>1, <1>2 DEF SameLevel
<1>7. \A i \in DOMAIN trail : Root(i) => i \in 1 .. c
  <2> SUFFICES ASSUME NEW i \in DOMAIN trail, Root(i) PROVE i <= c
    BY <1>1, <1>2
  <2>1. i \in Nat /\ i <= Len(trail)
    BY <1>2
  <2> QED
    BY <2>1, <1>3 DEF Root
<1>8. \A i \in 1 .. c : \A j \in DOMAIN trail : NotAbove(j, i) => j \in 1 .. c
  <2> SUFFICES ASSUME NEW i \in 1 .. c, NEW j \in DOMAIN trail, NotAbove(j, i) PROVE j <= c
    BY <1>1, <1>2
  <2>1. i \in Nat /\ i <= c /\ j \in Nat /\ j <= Len(trail) /\ c \in Nat
    BY <1>1, <1>2
  <2>2. CASE c = Len(trail)
    BY <2>1, <2>2
  <2>3. ASSUME NEW m \in DOMAIN lims, c = lims[m] PROVE j <= c
    <3>1. lims[m] < j => lims[m] < i
      BY DEF NotAbove
    <3> QED
      BY <3>1, <2>1, <2>3
  <2> QED
    BY <2>2, <2>3, <1>3
<1> QED
  BY <1>4, <1>5, <1>6, <1>7, <1>8 DEF c

\* The heap gets back what is no longer assigned.
LEMMA HeapCut ==
  ASSUME CoreInv, NEW n \in Nat, heap' = HeapAt(n), component' = component,
         LitsOf(TrailAt(n)) \subseteq TrueLits'
  PROVE  HeapInv' /\ heap' \in SUBSET Var
<1>1. component \in SUBSET Var /\ heap \in SUBSET Var
  BY DEF CoreInv, CoreType
<1>2. heap' \in SUBSET Var
  BY <1>1 DEF HeapAt
<1>3. ASSUME NEW v \in component, Undefined(v)' PROVE v \in heap'
  <2>1. CASE v \in heap
    BY <2>1 DEF HeapAt
  <2>2. CASE v \notin heap
    <3>1. PICK l \in {PosLit(v), NegLit(v)} : l \in TrueLits
      BY <2>2 DEF CoreInv, HeapInv, Undefined
    <3>2. l \notin LitsOf(TrailAt(n))
      BY <3>1, <1>3 DEF Undefined
    <3>3. VarOf(l) = v
      BY <1>1, <3>1, LitLaws
    <3> QED
      BY <3>1, <3>2, <3>3 DEF HeapAt, FreedAt
  <2> QED
    BY <2>1, <2>2
<1> QED
  BY <1>2, <1>3 DEF HeapInv

\* cancelUntil keeps the watches checked, because true literals are undone no later
\* than the false watches they excuse.
LEMMA CancelCore ==
  ASSUME CoreInv, Quiet, NEW n \in Nat, CancelUntil(n), UNCHANGED <<problem, clauseVars>>
  PROVE  CoreInv' /\ Quiet'
<1> DEFINE c == Cut(n)
<1>0. /\ visiting' = visiting /\ conflict' = conflict /\ db' = db /\ trail' = TrailAt(n)
      /\ problem' = problem /\ added' = added /\ ok' = ok /\ lims' = LimsAt(n)
      /\ component' = component /\ heap' = HeapAt(n)
      /\ visiting = {} /\ conflict = 0 /\ qhead = Len(trail)
  BY DEF CancelUntil, clauseVars, Quiet
<1>a. CoreType /\ TrailInv
  BY DEF CoreInv
<1>b. /\ c \in 0 .. Len(trail) /\ trail' \in Seq(Entries) /\ Len(trail') = c /\ DOMAIN trail' = 1 .. c
      /\ \A i \in 1 .. c : i \in DOMAIN trail /\ trail'[i] = trail[i]
      /\ lims' \in Seq(Nat) /\ DOMAIN lims' \subseteq DOMAIN lims
      /\ \A m \in DOMAIN lims' : lims'[m] = lims[m] /\ lims[m] <= c
  BY <1>0, <1>a, CutFacts
<1>c. /\ \A i \in 1 .. c : Root(i)' <=> Root(i)
      /\ \A i, j \in 1 .. c : NotAbove(j, i)' <=> NotAbove(j, i)
      /\ \A i, j \in 1 .. c : SameLevel(j, i)' <=> SameLevel(j, i)
      /\ \A i \in DOMAIN trail : Root(i) => i \in 1 .. c
      /\ \A i \in 1 .. c : \A j \in DOMAIN trail : NotAbove(j, i) => j \in 1 .. c
  BY <1>0, <1>a, CutLevels
<1>d. qhead' = c
  BY <1>0, <1>b DEF CancelUntil, Cut
<1>e. HeapInv' /\ heap' \in SUBSET Var
  BY <1>0, HeapCut DEF TrueLits
<1>f. DOMAIN trail = 1 .. Len(trail) /\ Len(trail) \in Nat
  BY <1>a, Shape
<1> HIDE DEF c
<1>1. CoreType'
  BY <1>0, <1>a, <1>b, <1>d, <1>e DEF CoreType
<1>2. TrailInv'
  BY <1>0, <1>a, <1>b, <1>d DEF TrailInv
<1>3. WatchesInv'
  BY <1>0 DEF CoreInv, WatchesInv
<1>4. WatchInv'
  <2> SUFFICES ASSUME NEW h \in DOMAIN db, NEW i \in 1 .. c, Neg(trail[i].lit) \in db[h].watches
               PROVE  \E j \in 1 .. c : trail[j].lit \in db[h].lits /\ NotAbove(j, i)
    <3>1. db' = db /\ DOMAIN trail' = 1 .. c /\ \A j \in 1 .. c : trail'[j] = trail[j]
      BY <1>0, <1>b
    <3>2. \A i, j \in 1 .. c : NotAbove(j, i)' <=> NotAbove(j, i)
      BY <1>c
    <3> QED
      BY <3>1, <3>2 DEF WatchInv
  <2>1. i \in DOMAIN trail /\ Checked(i) /\ h \notin visiting
    BY <1>0, <1>b, <1>f DEF Checked
  <2>2. PICK j \in DOMAIN trail : trail[j].lit \in db[h].lits /\ NotAbove(j, i)
    BY <2>1 DEF CoreInv, WatchInv
  <2> QED
    BY <2>2, <1>c
<1>5. ConflictInv'
  BY <1>0 DEF ConflictInv
<1>6. ReasonInv'
  <2> SUFFICES ASSUME NEW i \in 1 .. c
               PROVE  IF trail[i].reason = NoReason
                      THEN Root(i) \/ \E m \in DOMAIN lims' : i = lims'[m] + 1
                      ELSE /\ trail[i].reason \in DOMAIN db /\ trail[i].lit \in db[trail[i].reason].lits
                           /\ \A l \in db[trail[i].reason].lits \ {trail[i].lit} :
                                \E j \in 1 .. i - 1 : trail'[j].lit = Neg(l)
                           /\ Root(i) \/ \E j \in 1 .. i - 1 :
                                Neg(trail'[j].lit) \in db[trail[i].reason].lits /\ SameLevel(j, i)'
    BY <1>0, <1>b, <1>c DEF ReasonInv
  <2>1. i \in DOMAIN trail
    BY <1>b
  <2>2. CASE trail[i].reason = NoReason
    <3>1. ASSUME NEW m \in DOMAIN lims, i = lims[m] + 1 PROVE m \in DOMAIN lims' /\ lims'[m] = lims[m]
      <4>1. lims[m] \in Nat
        BY <1>a, Shape
      <4>2. \A k \in DOMAIN lims \ DOMAIN lims' : c <= lims[k]
        BY <1>0, <1>a, CutFacts DEF c
      <4> QED
        BY <3>1, <4>1, <4>2, <1>b
    <3> QED
      BY <3>1, <2>1, <2>2 DEF CoreInv, ReasonInv
  <2>3. CASE trail[i].reason # NoReason
    <3>1. \A j \in 1 .. i - 1 : j \in 1 .. c /\ trail'[j] = trail[j]
      BY <1>b
    <3>2. /\ trail[i].reason \in DOMAIN db /\ trail[i].lit \in db[trail[i].reason].lits
          /\ \A l \in db[trail[i].reason].lits \ {trail[i].lit} : \E j \in 1 .. i - 1 : trail[j].lit = Neg(l)
          /\ Root(i) \/ \E j \in 1 .. i - 1 : Neg(trail[j].lit) \in db[trail[i].reason].lits /\ SameLevel(j, i)
      BY <2>1, <2>3 DEF CoreInv, ReasonInv
    <3> QED
      BY <3>1, <3>2, <2>3, <1>c
  <2> QED
    BY <2>2, <2>3
<1>7. ImpliedInv'
  BY <1>0, <1>b, <1>c DEF CoreInv, ImpliedInv, Given
<1>8. KeptInv'
  BY <1>0, <1>b, <1>c DEF CoreInv, KeptInv, Given
<1>9. Quiet'
  BY <1>0, <1>b, <1>d DEF Quiet
<1> QED
  BY <1>1, <1>2, <1>3, <1>4, <1>5, <1>6, <1>7, <1>8, <1>9, <1>e DEF CoreInv

-----------------------------------------------------------------------------
\* A new level starts at the end of the trail.
LEMMA LevelStarts ==
  ASSUME CoreType, TrailInv, Quiet, lims' = Append(lims, Len(trail))
  PROVE  /\ lims' \in Seq(Nat) /\ DOMAIN lims' = DOMAIN lims \cup {Len(lims) + 1}
         /\ Len(lims) + 1 \notin DOMAIN lims /\ lims'[Len(lims) + 1] = Len(trail)
         /\ \A m \in DOMAIN lims : lims'[m] = lims[m] /\ lims[m] <= Len(trail)
         /\ \A m, k \in DOMAIN lims' : m <= k => lims'[m] <= lims'[k]
         /\ \A i \in DOMAIN trail : Root(i)' <=> Root(i)
         /\ \A i, j \in DOMAIN trail : NotAbove(j, i)' <=> NotAbove(j, i)
         /\ \A i, j \in DOMAIN trail : SameLevel(j, i)' <=> SameLevel(j, i)
<1> DEFINE n == Len(trail)
           d == Len(lims) + 1
<1>1. /\ DOMAIN lims = 1 .. Len(lims) /\ Len(lims) \in Nat /\ DOMAIN trail = 1 .. n /\ n \in Nat
      /\ \A m \in DOMAIN lims : lims[m] \in Nat /\ lims[m] <= n
      /\ \A m, k \in DOMAIN lims : m <= k => lims[m] <= lims[k]
      /\ lims \in Seq(Nat)
  BY Shape DEF TrailInv, CoreType, Quiet
<1>2. /\ lims' \in Seq(Nat) /\ DOMAIN lims' = 1 .. d /\ lims'[d] = n
      /\ \A m \in DOMAIN lims : lims'[m] = lims[m]
  BY <1>1, AppendProperties
<1> HIDE DEF n
<1>3. \A m, k \in DOMAIN lims' : m <= k => lims'[m] <= lims'[k]
  <2> SUFFICES ASSUME NEW m \in DOMAIN lims', NEW k \in DOMAIN lims', m <= k PROVE lims'[m] <= lims'[k]
    OBVIOUS
  <2>1. CASE k = d
    BY <2>1, <1>1, <1>2
  <2>2. CASE k # d
    BY <2>2, <1>1, <1>2
  <2> QED
    BY <2>1, <2>2
<1>4. DOMAIN lims' = DOMAIN lims \cup {d} /\ d \notin DOMAIN lims
  BY <1>1, <1>2
<1> HIDE DEF d
<1>5. \A i \in DOMAIN trail : Root(i)' <=> Root(i)
  BY <1>1, <1>2, <1>4 DEF Root
<1>6. \A i, j \in DOMAIN trail : NotAbove(j, i)' <=> NotAbove(j, i)
  BY <1>1, <1>2, <1>4 DEF NotAbove
<1>7. \A i, j \in DOMAIN trail : SameLevel(j, i)' <=> SameLevel(j, i)
  BY <1>1, <1>2, <1>4 DEF SameLevel
<1> QED
  BY <1>1, <1>2, <1>3, <1>4, <1>5, <1>6, <1>7 DEF n, d

\* A level with a decision.
LEMMA DecideCore ==
  ASSUME CoreInv, Quiet, NEW f \in Lit, Undefined(VarOf(f)), DecideLit(f),
         UNCHANGED <<problem, clauseVars, component>>,
         heap' = heap \/ heap' = heap \ {VarOf(f)}
  PROVE  CoreInv'
<1> DEFINE n == Len(trail)
           d == Len(lims) + 1
<1>0. /\ visiting' = visiting /\ conflict' = conflict /\ qhead' = qhead /\ db' = db
      /\ problem' = problem /\ added' = added /\ ok' = ok /\ component' = component
      /\ visiting = {} /\ conflict = 0 /\ qhead = n
      /\ trail' = Append(trail, Entry(f, NoReason)) /\ lims' = Append(lims, n)
  BY DEF DecideLit, clauseVars, Quiet
<1>a. CoreType /\ TrailInv
  BY DEF CoreInv
<1>b. /\ trail' \in Seq(Entries) /\ Len(trail') = n + 1 /\ n \in Nat
      /\ DOMAIN trail = 1 .. n /\ DOMAIN trail' = 1 .. n + 1
      /\ \A i \in DOMAIN trail : trail'[i] = trail[i]
      /\ trail'[n + 1].lit = f /\ trail'[n + 1].reason = NoReason
  <2>1. NoReason \in Nat /\ trail \in Seq(Entries)
    BY <1>a DEF NoReason, CoreType
  <2> QED
    BY <1>0, <2>1, Enqueued
<1>c. \A i \in DOMAIN trail : VarOf(trail[i].lit) # VarOf(f)
  BY <1>a, Values
<1>d. /\ lims' \in Seq(Nat) /\ DOMAIN lims' = DOMAIN lims \cup {d} /\ lims'[d] = n
      /\ \A m \in DOMAIN lims : lims'[m] = lims[m] /\ lims[m] <= n
      /\ \A m, k \in DOMAIN lims' : m <= k => lims'[m] <= lims'[k]
      /\ \A i \in DOMAIN trail : Root(i)' <=> Root(i)
      /\ \A i, j \in DOMAIN trail : NotAbove(j, i)' <=> NotAbove(j, i)
      /\ \A i, j \in DOMAIN trail : SameLevel(j, i)' <=> SameLevel(j, i)
  BY <1>0, <1>a, LevelStarts
<1> HIDE DEF n, d
<1>e. \A i \in Nat : i > n => ~Root(i)'
  <2>1. d \in DOMAIN lims' /\ lims'[d] = n /\ n \in Nat
    BY <1>b, <1>d
  <2> QED
    BY <2>1 DEF Root
<1>1. CoreType'
  <2>1. heap' \in SUBSET Var
    BY <1>a DEF CoreType
  <2> QED
    BY <2>1, <1>0, <1>a, <1>b, <1>d DEF CoreType
<1>2. TrailInv'
  <2>1. \A i, j \in DOMAIN trail' : VarOf(trail'[i].lit) = VarOf(trail'[j].lit) => i = j
    BY <1>a, <1>b, <1>c DEF TrailInv
  <2>2. \A m \in DOMAIN lims' : lims'[m] <= qhead'
    BY <1>0, <1>b, <1>d
  <2> QED
    BY <2>1, <2>2, <1>0, <1>d DEF TrailInv
<1>3. WatchesInv'
  BY <1>0 DEF CoreInv, WatchesInv
<1>4. WatchInv'
  <2> SUFFICES ASSUME NEW h \in DOMAIN db, NEW i \in 1 .. n + 1, Neg(trail'[i].lit) \in db[h].watches, i <= n
               PROVE  \E j \in 1 .. n + 1 : trail'[j].lit \in db[h].lits /\ NotAbove(j, i)'
    BY <1>0, <1>b DEF WatchInv, Checked
  <2>1. i \in DOMAIN trail /\ Checked(i) /\ h \notin visiting /\ trail'[i] = trail[i]
    BY <1>0, <1>b DEF Checked
  <2>2. PICK j \in DOMAIN trail : trail[j].lit \in db[h].lits /\ NotAbove(j, i)
    BY <2>1 DEF CoreInv, WatchInv
  <2> QED
    BY <2>1, <2>2, <1>b, <1>d
<1>5. ConflictInv'
  BY <1>0 DEF ConflictInv
<1>6. ReasonInv'
  <2> SUFFICES ASSUME NEW i \in 1 .. n + 1
               PROVE  IF trail'[i].reason = NoReason
                      THEN Root(i)' \/ \E m \in DOMAIN lims' : i = lims'[m] + 1
                      ELSE /\ trail'[i].reason \in DOMAIN db /\ trail'[i].lit \in db[trail'[i].reason].lits
                           /\ \A l \in db[trail'[i].reason].lits \ {trail'[i].lit} :
                                \E j \in 1 .. i - 1 : trail'[j].lit = Neg(l)
                           /\ Root(i)' \/ \E j \in 1 .. i - 1 :
                                Neg(trail'[j].lit) \in db[trail'[i].reason].lits /\ SameLevel(j, i)'
    BY <1>0, <1>b DEF ReasonInv
  <2>1. CASE i = n + 1
    BY <2>1, <1>b, <1>d
  <2>2. CASE i # n + 1
    <3>1. i \in DOMAIN trail /\ trail'[i] = trail[i] /\ \A j \in 1 .. i - 1 : j \in DOMAIN trail /\ trail'[j] = trail[j]
      BY <2>2, <1>b
    <3>2. CASE trail[i].reason = NoReason
      BY <3>1, <3>2, <1>d DEF CoreInv, ReasonInv
    <3>3. CASE trail[i].reason # NoReason
      <4>1. /\ trail[i].reason \in DOMAIN db /\ trail[i].lit \in db[trail[i].reason].lits
            /\ \A l \in db[trail[i].reason].lits \ {trail[i].lit} : \E j \in 1 .. i - 1 : trail[j].lit = Neg(l)
            /\ Root(i) \/ \E j \in 1 .. i - 1 : Neg(trail[j].lit) \in db[trail[i].reason].lits /\ SameLevel(j, i)
        BY <3>1, <3>3 DEF CoreInv, ReasonInv
      <4> QED
        BY <3>1, <3>3, <4>1, <1>d
    <3> QED
      BY <3>2, <3>3
  <2> QED
    BY <2>1, <2>2
<1>7. HeapInv'
  <2>1. TrueLits \subseteq TrueLits' /\ f \in TrueLits'
    BY <1>b DEF TrueLits, LitsOf
  <2>2. ~Undefined(VarOf(f))'
    <3>1. f \in {PosLit(VarOf(f)), NegLit(VarOf(f))}
      BY NumVarsAssumption DEF PosLit, NegLit, VarOf, Lit
    <3> QED
      BY <2>1, <3>1 DEF Undefined
  <2> QED
    BY <2>1, <2>2, <1>0 DEF CoreInv, HeapInv, Undefined
<1>8. ImpliedInv'
  <2> SUFFICES ASSUME NEW m \in Models(Given), NEW i \in 1 .. n + 1, Root(i)'
               PROVE  Satisfies(m, trail'[i].lit)
    BY <1>0, <1>b DEF CoreInv, ImpliedInv, Given
  <2>1. i \in DOMAIN trail /\ trail'[i] = trail[i]
    BY <1>b, <1>e
  <2> QED
    BY <2>1, <1>d DEF CoreInv, ImpliedInv
<1>9. KeptInv'
  <2>1. \A i \in DOMAIN trail : i \in DOMAIN trail' /\ trail'[i] = trail[i] /\ (Root(i)' <=> Root(i))
    BY <1>b, <1>d
  <2> QED
    BY <2>1, <1>0 DEF CoreInv, KeptInv, Given
<1> QED
  BY <1>1, <1>2, <1>3, <1>4, <1>5, <1>6, <1>7, <1>8, <1>9 DEF CoreInv

\* A level without one, for an assumption that is true.
LEMMA NewLevelCore ==
  ASSUME CoreInv, Quiet, NewDecisionLevel, UNCHANGED <<problem, clauseVars, order>>
  PROVE  CoreInv' /\ Quiet'
<1>0. /\ visiting' = visiting /\ conflict' = conflict /\ qhead' = qhead /\ db' = db /\ trail' = trail
      /\ problem' = problem /\ added' = added /\ ok' = ok /\ component' = component /\ heap' = heap
      /\ visiting = {} /\ conflict = 0 /\ qhead = Len(trail) /\ lims' = Append(lims, Len(trail))
  BY DEF NewDecisionLevel, clauseVars, order, Quiet
<1>a. CoreType /\ TrailInv
  BY DEF CoreInv
<1>d. /\ lims' \in Seq(Nat) /\ DOMAIN lims' = DOMAIN lims \cup {Len(lims) + 1} /\ lims'[Len(lims) + 1] = Len(trail)
      /\ \A m \in DOMAIN lims : lims'[m] = lims[m] /\ lims[m] <= Len(trail)
      /\ \A m, k \in DOMAIN lims' : m <= k => lims'[m] <= lims'[k]
      /\ \A i \in DOMAIN trail : Root(i)' <=> Root(i)
      /\ \A i, j \in DOMAIN trail : NotAbove(j, i)' <=> NotAbove(j, i)
      /\ \A i, j \in DOMAIN trail : SameLevel(j, i)' <=> SameLevel(j, i)
  BY <1>0, <1>a, LevelStarts
<1>f. DOMAIN trail = 1 .. Len(trail) /\ Len(trail) \in Nat
  BY <1>a, Shape
<1>1. CoreType'
  BY <1>0, <1>a, <1>d DEF CoreType
<1>2. TrailInv'
  <2>2. \A m \in DOMAIN lims' : lims'[m] <= qhead'
    BY <1>0, <1>f, <1>d
  <2> QED
    BY <2>2, <1>0, <1>a, <1>d DEF TrailInv
<1>3. WatchesInv' /\ HeapInv'
  BY <1>0 DEF CoreInv, WatchesInv, HeapInv, Undefined, TrueLits
<1>4. WatchInv'
  BY <1>0, <1>d DEF CoreInv, WatchInv, Checked
<1>5. ConflictInv'
  BY <1>0 DEF ConflictInv
<1>6. ReasonInv'
  <2> SUFFICES ASSUME NEW i \in DOMAIN trail
               PROVE  IF trail[i].reason = NoReason
                      THEN Root(i) \/ \E m \in DOMAIN lims' : i = lims'[m] + 1
                      ELSE /\ trail[i].reason \in DOMAIN db /\ trail[i].lit \in db[trail[i].reason].lits
                           /\ \A l \in db[trail[i].reason].lits \ {trail[i].lit} :
                                \E j \in 1 .. i - 1 : trail[j].lit = Neg(l)
                           /\ Root(i) \/ \E j \in 1 .. i - 1 :
                                Neg(trail[j].lit) \in db[trail[i].reason].lits /\ SameLevel(j, i)'
    <3>1. trail' = trail /\ db' = db /\ \A i \in DOMAIN trail : Root(i)' <=> Root(i)
      BY <1>0, <1>d
    <3> QED
      BY <3>1 DEF ReasonInv
  <2>1. \A j \in 1 .. i - 1 : j \in DOMAIN trail
    BY <1>f
  <2> QED
    BY <2>1, <1>d DEF CoreInv, ReasonInv
<1>7. ImpliedInv' /\ KeptInv'
  BY <1>0, <1>d DEF CoreInv, ImpliedInv, KeptInv, Given
<1>8. Quiet'
  BY <1>0 DEF Quiet
<1> QED
  BY <1>1, <1>2, <1>3, <1>4, <1>5, <1>6, <1>7, <1>8 DEF CoreInv

-----------------------------------------------------------------------------
\* Clauses are freed.
LEMMA Forgotten ==
  ASSUME CoreInv, NEW ks \in SUBSET DOMAIN db, db' = Without(ks)
  PROVE  /\ db' \in Seq(ClauseRecords) /\ DOMAIN db' = DOMAIN db
         /\ \A k \in DOMAIN db \ ks : db'[k] = db[k]
         /\ \A k \in ks : db'[k].lits = {} /\ db'[k].watches = {} /\ db'[k].learnt = FALSE
<1>1. /\ DOMAIN db = 1 .. Len(db) /\ Len(db) \in Nat /\ \A k \in DOMAIN db : db[k] \in ClauseRecords
  BY Shape DEF CoreInv
<1>2. Freed \in ClauseRecords
  BY DEF Freed, ClauseRecords
<1>3. db' = [k \in 1 .. Len(db) |-> IF k \in ks THEN Freed ELSE db[k]]
  BY <1>1 DEF Without
<1>4. db' \in Seq(ClauseRecords) /\ DOMAIN db' = DOMAIN db
  BY <1>1, <1>2, <1>3
<1>5. Freed.lits = {} /\ Freed.watches = {} /\ Freed.learnt = FALSE
  BY DEF Freed
<1> QED
  BY <1>1, <1>3, <1>4, <1>5

\* simplify frees clauses satisfied at the root only, and forgets that they were
\* reasons.
LEMMA SimplifyCore ==
  ASSUME CoreInv, Quiet, lims = <<>>, Simplify
  PROVE  CoreInv' /\ Quiet'
<1> DEFINE ks == CanSimplify
<1>0. /\ visiting' = visiting /\ conflict' = conflict /\ qhead' = qhead /\ lims' = lims
      /\ problem' = problem /\ added' = added /\ ok' = ok /\ component' = component
      /\ heap' = {v \in component : Undefined(v)}
      /\ visiting = {} /\ conflict = 0 /\ qhead = Len(trail) /\ db' = Without(ks)
      /\ trail' = [i \in DOMAIN trail |->
                     IF trail[i].reason \in ks THEN Entry(trail[i].lit, NoReason) ELSE trail[i]]
  BY DEF Simplify, callers, Quiet
<1>a. CoreType /\ TrailInv /\ \A i : Root(i) /\ Root(i)'
  BY <1>0 DEF CoreInv, Root
<1>b. /\ ks \in SUBSET DOMAIN db
      /\ \A k \in ks : \E i \in DOMAIN trail : trail[i].lit \in db[k].lits
  BY DEF CanSimplify, SatisfiedClauses, TrueLits, LitsOf
<1>c. /\ db' \in Seq(ClauseRecords) /\ DOMAIN db' = DOMAIN db
      /\ \A k \in DOMAIN db \ ks : db'[k] = db[k]
      /\ \A k \in ks : db'[k].lits = {} /\ db'[k].watches = {} /\ db'[k].learnt = FALSE
  BY <1>0, <1>b, Forgotten
<1>d. /\ DOMAIN trail = 1 .. Len(trail) /\ Len(trail) \in Nat
      /\ \A i \in DOMAIN trail : trail[i] \in Entries /\ trail[i].lit \in Lit
  BY <1>a, Shape
<1> HIDE DEF ks
<1>e. /\ trail' \in Seq(Entries) /\ DOMAIN trail' = DOMAIN trail /\ Len(trail') = Len(trail)
      /\ \A i \in DOMAIN trail : trail'[i].lit = trail[i].lit
      /\ \A i \in DOMAIN trail : trail'[i].reason # NoReason => trail'[i].reason = trail[i].reason /\ trail[i].reason \notin ks
  <2>1. \A i \in DOMAIN trail : /\ Entry(trail[i].lit, NoReason) \in Entries
                                /\ Entry(trail[i].lit, NoReason).lit = trail[i].lit
                                /\ Entry(trail[i].lit, NoReason).reason = NoReason
    BY <1>d DEF Entry, Entries, NoReason
  <2>2. trail' \in Seq(Entries) /\ DOMAIN trail' = DOMAIN trail /\ Len(trail') = Len(trail)
    <3>1. \A i \in 1 .. Len(trail) : trail'[i] \in Entries
      BY <1>0, <1>d, <2>1
    <3>2. trail' = [i \in 1 .. Len(trail) |-> trail'[i]]
      BY <1>0, <1>d
    <3> QED
      BY <3>1, <3>2, <1>d
  <2>3. \A i \in DOMAIN trail : trail'[i].lit = trail[i].lit
    BY <1>0, <2>1
  <2>4. \A i \in DOMAIN trail : trail'[i].reason # NoReason => trail'[i].reason = trail[i].reason /\ trail[i].reason \notin ks
    BY <1>0, <2>1
  <2> QED
    BY <2>2, <2>3, <2>4
<1>f. TrueLits' = TrueLits
  BY <1>e DEF TrueLits, LitsOf
<1>1. CoreType'
  BY <1>0, <1>a, <1>c, <1>e DEF CoreType
<1>2. TrailInv'
  BY <1>0, <1>a, <1>e DEF TrailInv
<1>3. WatchesInv'
  <2>1. \A k \in DOMAIN db :
          \/ db'[k].lits = {} /\ db'[k].watches = {}
          \/ \E a, b \in db'[k].lits : a # b /\ db'[k].watches = {a, b}
    BY <1>c DEF CoreInv, WatchesInv
  <2> QED
    BY <2>1, <1>0, <1>c DEF WatchesInv
<1>4. WatchInv'
  <2> SUFFICES ASSUME NEW h \in DOMAIN db, NEW i \in DOMAIN trail, Neg(trail[i].lit) \in db'[h].watches
               PROVE  \E j \in DOMAIN trail : trail[j].lit \in db'[h].lits /\ NotAbove(j, i)
    BY <1>0, <1>c, <1>e DEF WatchInv, NotAbove
  <2>1. db'[h] = db[h] /\ Checked(i) /\ h \notin visiting
    BY <1>0, <1>c, <1>d DEF Checked
  <2> QED
    BY <2>1 DEF CoreInv, WatchInv
<1>5. ConflictInv'
  BY <1>0 DEF ConflictInv
<1>6. ReasonInv'
  <2> SUFFICES ASSUME NEW i \in DOMAIN trail, trail'[i].reason # NoReason
               PROVE  /\ trail'[i].reason \in DOMAIN db /\ trail[i].lit \in db'[trail'[i].reason].lits
                      /\ \A l \in db'[trail'[i].reason].lits \ {trail[i].lit} :
                                \E j \in 1 .. i - 1 : trail'[j].lit = Neg(l)
    BY <1>a, <1>c, <1>e DEF ReasonInv
  <2>1. trail'[i].reason = trail[i].reason /\ trail[i].reason # NoReason /\ trail[i].reason \notin ks
    BY <1>e
  <2>2. /\ trail[i].reason \in DOMAIN db /\ trail[i].lit \in db[trail[i].reason].lits
        /\ \A l \in db[trail[i].reason].lits \ {trail[i].lit} : \E j \in 1 .. i - 1 : trail[j].lit = Neg(l)
    BY <2>1 DEF CoreInv, ReasonInv
  <2>3. \A j \in 1 .. i - 1 : j \in DOMAIN trail
    BY <1>d
  <2>4. trail'[i].reason \in DOMAIN db /\ db'[trail'[i].reason] = db[trail[i].reason]
    BY <2>1, <2>2, <1>c
  <2>5. \A j \in 1 .. i - 1 : trail'[j].lit = trail[j].lit
    BY <2>3, <1>e
  <2> QED
    BY <2>2, <2>4, <2>5
<1>7. HeapInv'
  BY <1>0, <1>f DEF HeapInv, Undefined
<1>8. ImpliedInv'
  BY <1>0, <1>a, <1>c, <1>e DEF CoreInv, ImpliedInv, Given
<1>9. KeptInv'
  <2> SUFFICES ASSUME ok, NEW c \in Given
               PROVE  \/ Tautology(c)
                      \/ \E i \in DOMAIN trail' : Root(i)' /\ trail'[i].lit \in c
                      \/ \E k \in DOMAIN db' : ~db'[k].learnt /\ db'[k].lits # {} /\ db'[k].lits \subseteq c
    BY <1>0 DEF KeptInv, Given
  <2>1. ASSUME NEW k \in DOMAIN db, ~db[k].learnt, db[k].lits # {}, db[k].lits \subseteq c
        PROVE  \/ \E i \in DOMAIN trail : trail[i].lit \in c
               \/ ~db'[k].learnt /\ db'[k].lits # {} /\ db'[k].lits \subseteq c
    <3>1. CASE k \in ks
      BY <3>1, <2>1, <1>b
    <3>2. CASE k \notin ks
      BY <3>2, <2>1, <1>c
    <3> QED
      BY <3>1, <3>2
  <2>2. \/ Tautology(c)
        \/ \E i \in DOMAIN trail : trail[i].lit \in c
        \/ \E k \in DOMAIN db : ~db'[k].learnt /\ db'[k].lits # {} /\ db'[k].lits \subseteq c
    BY <2>1 DEF CoreInv, KeptInv
  <2> QED
    BY <2>2, <1>a, <1>c, <1>e
<1>10. Quiet'
  BY <1>0, <1>e DEF Quiet
<1> QED
  BY <1>1, <1>2, <1>3, <1>4, <1>5, <1>6, <1>7, <1>8, <1>9, <1>10 DEF CoreInv

\* reduceDB frees learnt clauses that are no reason.
LEMMA ReduceCore ==
  ASSUME CoreInv, ReduceDB
  PROVE  CoreInv' /\ Quiet'
<1>p. PICK ks \in SUBSET CanForget : db' = Without(ks)
  BY DEF ReduceDB
<1>0. /\ visiting' = visiting /\ conflict' = conflict /\ qhead' = qhead /\ lims' = lims /\ trail' = trail
      /\ problem' = problem /\ added' = added /\ ok' = ok /\ component' = component /\ heap' = heap
      /\ visiting = {} /\ conflict = 0 /\ qhead = Len(trail)
  BY DEF ReduceDB, Searching, callers, Quiet, search, order
<1>a. CoreType /\ TrailInv
  BY DEF CoreInv
<1>b. /\ ks \in SUBSET DOMAIN db
      /\ \A k \in ks : db[k].learnt /\ \A i \in DOMAIN trail : trail[i].reason # k
  BY DEF CanForget, Locked
<1>c. /\ db' \in Seq(ClauseRecords) /\ DOMAIN db' = DOMAIN db
      /\ \A k \in DOMAIN db \ ks : db'[k] = db[k]
      /\ \A k \in ks : db'[k].lits = {} /\ db'[k].watches = {} /\ db'[k].learnt = FALSE
  BY <1>p, <1>b, Forgotten
<1>1. CoreType'
  BY <1>0, <1>a, <1>c DEF CoreType
<1>2. TrailInv' /\ HeapInv'
  BY <1>0 DEF CoreInv, TrailInv, HeapInv, Undefined, TrueLits
<1>3. WatchesInv'
  <2>1. \A k \in DOMAIN db :
          \/ db'[k].lits = {} /\ db'[k].watches = {}
          \/ \E a, b \in db'[k].lits : a # b /\ db'[k].watches = {a, b}
    BY <1>c DEF CoreInv, WatchesInv
  <2> QED
    BY <2>1, <1>0, <1>c DEF WatchesInv
<1>4. WatchInv'
  <2> SUFFICES ASSUME NEW h \in DOMAIN db, NEW i \in DOMAIN trail, Neg(trail[i].lit) \in db'[h].watches, Checked(i)
               PROVE  \E j \in DOMAIN trail : trail[j].lit \in db'[h].lits /\ NotAbove(j, i)
    BY <1>0, <1>c DEF WatchInv, NotAbove, Checked, Deepest
  <2>1. db'[h] = db[h] /\ h \notin visiting
    BY <1>0, <1>c
  <2> QED
    BY <2>1 DEF CoreInv, WatchInv
<1>5. ConflictInv'
  BY <1>0 DEF ConflictInv
<1>6. ReasonInv'
  <2>1. \A i \in DOMAIN trail : trail[i].reason \in DOMAIN db => db'[trail[i].reason] = db[trail[i].reason]
    BY <1>b, <1>c
  <2> QED
    BY <2>1, <1>0, <1>c DEF CoreInv, ReasonInv, SameLevel, Root
<1>7. ImpliedInv'
  BY <1>0, <1>c DEF CoreInv, ImpliedInv, Given, Root
<1>8. KeptInv'
  <2>1. \A k \in DOMAIN db : ~db[k].learnt => db'[k] = db[k]
    BY <1>b, <1>c
  <2> QED
    BY <2>1, <1>0, <1>c DEF CoreInv, KeptInv, Given, Root
<1>9. Quiet'
  BY <1>0 DEF Quiet
<1> QED
  BY <1>1, <1>2, <1>3, <1>4, <1>5, <1>6, <1>7, <1>8, <1>9 DEF CoreInv

-----------------------------------------------------------------------------
\* Numbers.
LEMMA Induction ==
  ASSUME NEW S, 0 \in S, \A n \in Nat : n \in S => n + 1 \in S
  PROVE  Nat \subseteq S
<1> SUFFICES ASSUME Nat \ S # {} PROVE FALSE
  OBVIOUS
<1>1. PICK n \in Nat \ S : \A m \in Nat \ S : n <= m
  BY LeastNat
<1>2. n # 0 /\ n - 1 \in Nat
  OBVIOUS
<1>3. n - 1 \in S
  BY <1>1, <1>2
<1> QED
  BY <1>2, <1>3

\* Functions defined from the end, and from the start.
DownFrom(f, n, base, step) == f[n] = base /\ \A i \in 0 .. n - 1 : f[i] = step[i][f[i + 1]]
UpFrom(f, n, base, step) == f[0] = base /\ \A i \in 1 .. n : f[i] = step[i][f[i - 1]]

\* A function on 0 .. n given by its value at n and a step down.
LEMMA FromTheEnd ==
  ASSUME NEW n \in Nat, NEW T, NEW base \in T, NEW step \in [0 .. n -> [T -> T]]
  PROVE  \E f \in [0 .. n -> T] : DownFrom(f, n, base, step)
<1> DEFINE Good(k, f) == \A i \in n - k .. n : f[i] = IF i = n THEN base ELSE step[i][f[i + 1]]
           S == {k \in Nat : k <= n => \E f \in [n - k .. n -> T] : Good(k, f)}
<1>1. 0 \in S
  <2> DEFINE f == [i \in n .. n |-> base]
  <2>1. f \in [n - 0 .. n -> T] /\ Good(0, f)
    OBVIOUS
  <2> QED
    BY <2>1
<1>2. ASSUME NEW k \in Nat, k \in S PROVE k + 1 \in S
  <2> SUFFICES ASSUME k + 1 <= n PROVE \E f \in [n - (k + 1) .. n -> T] : Good(k + 1, f)
    OBVIOUS
  <2>1. PICK f \in [n - k .. n -> T] : Good(k, f)
    BY <1>2
  <2> DEFINE a == n - (k + 1)
             g == [i \in a .. n |-> IF i = a THEN step[a][f[a + 1]] ELSE f[i]]
  <2>2. a \in 0 .. n /\ a + 1 = n - k /\ a # n /\ f[a + 1] \in T
    OBVIOUS
  <2>3. step[a] \in [T -> T] /\ step[a][f[a + 1]] \in T
    BY <2>2
  <2>4. g \in [a .. n -> T]
    BY <2>2, <2>3
  <2>5. \A i \in n - k .. n : g[i] = f[i] /\ (i # n => g[i + 1] = f[i + 1])
    BY <2>2
  <2>6. g[a] = step[a][g[a + 1]]
    BY <2>2, <2>5
  <2>7. ASSUME NEW i \in a .. n PROVE g[i] = IF i = n THEN base ELSE step[i][g[i + 1]]
    <3>1. CASE i = a
      BY <3>1, <2>2, <2>6
    <3>2. CASE i # a
      <4>1. i \in n - k .. n
        BY <3>2, <2>2
      <4> QED
        BY <4>1, <2>1, <2>5
    <3> QED
      BY <3>1, <3>2
  <2> QED
    BY <2>4, <2>7
<1>3. n \in S
  <2> HIDE DEF S
  <2> QED
    BY <1>1, <1>2, Induction
<1>4. PICK f \in [n - n .. n -> T] : Good(n, f)
  BY <1>3
<1>5. f[n] = base /\ \A i \in 0 .. n - 1 : f[i] = step[i][f[i + 1]]
  <2>1. \A i \in 0 .. n : f[i] = IF i = n THEN base ELSE step[i][f[i + 1]]
    BY <1>4
  <2>2. n \in 0 .. n /\ \A i \in 0 .. n - 1 : i \in 0 .. n /\ i # n
    OBVIOUS
  <2> QED
    BY <2>1, <2>2
<1> QED
  BY <1>4, <1>5 DEF DownFrom

\* A function on 0 .. n given by its value at 0 and a step up.
LEMMA FromTheStart ==
  ASSUME NEW n \in Nat, NEW T, NEW base \in T, NEW step \in [0 .. n -> [T -> T]]
  PROVE  \E f \in [0 .. n -> T] : UpFrom(f, n, base, step)
<1> DEFINE Good(k, f) == \A i \in 0 .. k : f[i] = IF i = 0 THEN base ELSE step[i][f[i - 1]]
           S == {k \in Nat : k <= n => \E f \in [0 .. k -> T] : Good(k, f)}
<1>1. 0 \in S
  <2> DEFINE f == [i \in 0 .. 0 |-> base]
  <2>1. f \in [0 .. 0 -> T] /\ Good(0, f)
    OBVIOUS
  <2> QED
    BY <2>1
<1>2. ASSUME NEW k \in Nat, k \in S PROVE k + 1 \in S
  <2> SUFFICES ASSUME k + 1 <= n PROVE \E f \in [0 .. k + 1 -> T] : Good(k + 1, f)
    OBVIOUS
  <2>1. PICK f \in [0 .. k -> T] : Good(k, f)
    BY <1>2
  <2> DEFINE g == [i \in 0 .. k + 1 |-> IF i = k + 1 THEN step[k + 1][f[k]] ELSE f[i]]
  <2>2. k + 1 \in 0 .. n /\ f[k] \in T
    OBVIOUS
  <2>3. step[k + 1] \in [T -> T] /\ step[k + 1][f[k]] \in T
    BY <2>2
  <2>4. g \in [0 .. k + 1 -> T]
    BY <2>2, <2>3
  <2>5. \A i \in 0 .. k : g[i] = f[i] /\ (i # 0 => g[i - 1] = f[i - 1])
    BY <2>2
  <2>6. g[k + 1] = step[k + 1][g[k]]
    BY <2>2, <2>5
  <2>7. ASSUME NEW i \in 0 .. k + 1 PROVE g[i] = IF i = 0 THEN base ELSE step[i][g[i - 1]]
    <3>1. CASE i = k + 1
      BY <3>1, <2>2, <2>6
    <3>2. CASE i # k + 1
      <4>1. i \in 0 .. k
        BY <3>2, <2>2
      <4> QED
        BY <4>1, <2>1, <2>5
    <3> QED
      BY <3>1, <3>2
  <2> QED
    BY <2>4, <2>7
<1>3. n \in S
  <2> HIDE DEF S
  <2> QED
    BY <1>1, <1>2, Induction
<1>4. PICK f \in [0 .. n -> T] : Good(n, f)
  BY <1>3
<1>5. f[0] = base /\ \A i \in 1 .. n : f[i] = step[i][f[i - 1]]
  <2>1. \A i \in 0 .. n : f[i] = IF i = 0 THEN base ELSE step[i][f[i - 1]]
    BY <1>4
  <2>2. 0 \in 0 .. n /\ \A i \in 1 .. n : i \in 0 .. n /\ i # 0
    OBVIOUS
  <2> QED
    BY <2>1, <2>2
<1> QED
  BY <1>4, <1>5 DEF UpFrom

-----------------------------------------------------------------------------
\* The level of a position.
LEMMA LevelIs ==
  ASSUME CoreType, TrailInv, NEW i \in Nat
  PROVE  /\ LevelAt(i) \in 0 .. DecisionLevel /\ DecisionLevel \in Nat
         /\ \A n \in DOMAIN lims : lims[n] < i <=> n <= LevelAt(i)
<1> DEFINE d == DecisionLevel
           S == {n \in DOMAIN lims : lims[n] < i}
           T == {n \in 1 .. d + 1 : n \notin S}
<1>1. DOMAIN lims = 1 .. d /\ d \in Nat /\ \A n \in DOMAIN lims : lims[n] \in Nat
  BY Shape DEF DecisionLevel
<1>2. \A m, n \in DOMAIN lims : m <= n => lims[m] <= lims[n]
  BY DEF TrailInv
<1> HIDE DEF d
<1>3. T \subseteq Nat /\ d + 1 \in T
  BY <1>1
<1>4. PICK b \in T : \A n \in T : b <= n
  BY <1>3, LeastNat
<1>5. S = 1 .. b - 1
  <2>1. ASSUME NEW n \in 1 .. b - 1 PROVE n \in S
    BY <1>1, <1>3, <1>4
  <2>2. ASSUME NEW n \in S PROVE n \in 1 .. b - 1
    <3> SUFFICES ASSUME b <= n PROVE FALSE
      BY <1>1, <1>3
    <3>1. b \in DOMAIN lims /\ n \in DOMAIN lims
      BY <1>1, <1>3
    <3>2. lims[b] <= lims[n] /\ lims[n] < i /\ lims[b] \in Nat /\ lims[n] \in Nat
      BY <1>1, <1>2, <3>1
    <3>3. b \in S
      BY <3>1, <3>2
    <3> QED
      BY <3>3
  <2> QED
    BY <2>1, <2>2
<1>6. b - 1 \in 0 .. d
  BY <1>1, <1>3
<1>7. Cardinality(1 .. b - 1) = b - 1
  BY <1>6, <1>1, FS_Interval
<1>8. LevelAt(i) = b - 1
  BY <1>5, <1>7 DEF LevelAt
<1>9. \A n \in DOMAIN lims : lims[n] < i <=> n <= b - 1
  BY <1>1, <1>5, <1>6
<1> QED
  BY <1>1, <1>6, <1>8, <1>9 DEF d

\* The comparisons of positions by the starts of levels are comparisons of levels.
LEMMA LevelsCompare ==
  ASSUME CoreType, TrailInv, NEW i \in Nat
  PROVE  /\ Root(i) <=> LevelAt(i) = 0
         /\ Deepest(i) <=> LevelAt(i) = DecisionLevel
         /\ \A j \in Nat : NotAbove(j, i) <=> LevelAt(j) <= LevelAt(i)
         /\ \A j \in Nat : SameLevel(j, i) <=> LevelAt(j) = LevelAt(i)
<1> DEFINE d == DecisionLevel
<1>1. DOMAIN lims = 1 .. d /\ d \in Nat /\ \A n \in DOMAIN lims : lims[n] \in Nat
  BY Shape DEF DecisionLevel
<1>2. \A j \in Nat : /\ LevelAt(j) \in 0 .. d
                     /\ \A n \in DOMAIN lims : lims[n] < j <=> n <= LevelAt(j)
  BY LevelIs
<1> HIDE DEF d
<1>3. Root(i) <=> LevelAt(i) = 0
  <2>1. Root(i) <=> \A n \in 1 .. d : ~(n <= LevelAt(i))
    <3>1. \A n \in DOMAIN lims : i <= lims[n] <=> ~(lims[n] < i)
      BY <1>1
    <3>2. \A n \in DOMAIN lims : i <= lims[n] <=> ~(n <= LevelAt(i))
      BY <3>1, <1>2
    <3> QED
      BY <3>2, <1>1 DEF Root
  <2>2. LevelAt(i) \in 0 .. d
    BY <1>2
  <2>3. LevelAt(i) = 0 \/ LevelAt(i) \in 1 .. d
    BY <2>2, <1>1
  <2> QED
    BY <2>1, <2>2, <2>3, <1>1
<1>4. Deepest(i) <=> LevelAt(i) = d
  <2>1. Deepest(i) <=> \A n \in 1 .. d : n <= LevelAt(i)
    BY <1>1, <1>2 DEF Deepest
  <2>2. LevelAt(i) \in 0 .. d
    BY <1>2
  <2>3. d = 0 \/ d \in 1 .. d
    BY <1>1
  <2> QED
    BY <2>1, <2>2, <2>3, <1>1
<1>5. ASSUME NEW j \in Nat PROVE NotAbove(j, i) <=> LevelAt(j) <= LevelAt(i)
  <2>1. NotAbove(j, i) <=> \A n \in 1 .. d : n <= LevelAt(j) => n <= LevelAt(i)
    BY <1>1, <1>2 DEF NotAbove
  <2>2. LevelAt(j) \in 0 .. d /\ LevelAt(i) \in 0 .. d
    BY <1>2
  <2>3. LevelAt(j) = 0 \/ LevelAt(j) \in 1 .. d
    BY <2>2, <1>1
  <2> QED
    BY <2>1, <2>2, <2>3, <1>1
<1>6. ASSUME NEW j \in Nat PROVE SameLevel(j, i) <=> LevelAt(j) = LevelAt(i)
  <2>1. SameLevel(j, i) <=> \A n \in 1 .. d : n <= LevelAt(j) <=> n <= LevelAt(i)
    BY <1>1, <1>2 DEF SameLevel
  <2>2. LevelAt(j) \in 0 .. d /\ LevelAt(i) \in 0 .. d
    BY <1>2
  <2>3. (LevelAt(j) = 0 \/ LevelAt(j) \in 1 .. d) /\ (LevelAt(i) = 0 \/ LevelAt(i) \in 1 .. d)
    BY <2>2, <1>1
  <2> QED
    BY <2>1, <2>2, <2>3, <1>1
<1> QED
  BY <1>3, <1>4, <1>5, <1>6 DEF d

\* A variable is assigned at one position.
LEMMA AtIs ==
  ASSUME CoreType, TrailInv, NEW i \in DOMAIN trail, NEW l \in Lit, VarOf(trail[i].lit) = VarOf(l)
  PROVE  At(l) = i /\ LevelOf(l) = LevelAt(i)
<1>1. \A j \in DOMAIN trail : VarOf(trail[j].lit) = VarOf(l) => j = i
  BY DEF TrailInv
<1>2. At(l) = i
  BY <1>1 DEF At
<1> QED
  BY <1>2 DEF LevelOf

\* Of a false literal: its negation is at position i.
LEMMA FalseAt ==
  ASSUME CoreType, TrailInv, NEW i \in DOMAIN trail, NEW l \in Lit, trail[i].lit = Neg(l)
  PROVE  /\ At(l) = i /\ LevelOf(l) = LevelAt(i) /\ i \in Nat /\ l = Neg(trail[i].lit)
         /\ LevelOf(l) \in 0 .. DecisionLevel /\ DecisionLevel \in Nat
         /\ LevelOf(l) > 0 <=> ~Root(i)
<1>1. VarOf(trail[i].lit) = VarOf(l) /\ l = Neg(trail[i].lit)
  BY LitLaws
<1>2. i \in Nat
  BY Shape
<1>3. At(l) = i /\ LevelOf(l) = LevelAt(i)
  BY <1>1, AtIs
<1>4. LevelAt(i) \in 0 .. DecisionLevel /\ DecisionLevel \in Nat /\ (Root(i) <=> LevelAt(i) = 0)
  BY <1>2, LevelIs, LevelsCompare
<1> QED
  BY <1>1, <1>2, <1>3, <1>4

-----------------------------------------------------------------------------
\* One resolution, on the literal at position i + 1.
Resolved1(r, i) ==
  LET t == trail[i + 1] IN
  IF Neg(t.lit) \in r /\ t.reason # NoReason
  THEN (r \ {Neg(t.lit)}) \cup Deep(db[t.reason].lits \ {t.lit}) ELSE r

\* The clause that is the reason of a literal: the others are false before it, one
\* on its level.
LEMMA ReasonIs ==
  ASSUME CoreInv, NEW i \in DOMAIN trail, trail[i].reason # NoReason
  PROVE  /\ trail[i].reason \in DOMAIN db /\ trail[i].lit \in db[trail[i].reason].lits
         /\ db[trail[i].reason].lits \subseteq Lit
         /\ \A l \in db[trail[i].reason].lits \ {trail[i].lit} :
              \E j \in DOMAIN trail : j < i /\ trail[j].lit = Neg(l)
         /\ Root(i) \/ \E j \in DOMAIN trail : /\ j < i /\ SameLevel(j, i)
                                               /\ Neg(trail[j].lit) \in db[trail[i].reason].lits \ {trail[i].lit}
<1>1. /\ trail[i].reason \in DOMAIN db /\ trail[i].lit \in db[trail[i].reason].lits
      /\ \A l \in db[trail[i].reason].lits \ {trail[i].lit} : \E j \in 1 .. i - 1 : trail[j].lit = Neg(l)
      /\ Root(i) \/ \E j \in 1 .. i - 1 : Neg(trail[j].lit) \in db[trail[i].reason].lits /\ SameLevel(j, i)
  BY DEF CoreInv, ReasonInv
<1>2. DOMAIN trail = 1 .. Len(trail) /\ Len(trail) \in Nat /\ \A j \in DOMAIN trail : trail[j].lit \in Lit
  BY Shape DEF CoreInv
<1>3. \A j \in 1 .. i - 1 : j \in DOMAIN trail /\ j < i
  BY <1>2
<1>4. ASSUME NEW j \in 1 .. i - 1 PROVE Neg(trail[j].lit) # trail[i].lit
  <2>1. j \in DOMAIN trail /\ j # i
    BY <1>2, <1>3
  <2>2. VarOf(trail[j].lit) # VarOf(trail[i].lit)
    BY <2>1 DEF CoreInv, TrailInv
  <2> QED
    BY <2>1, <2>2, <1>2, LitLaws
<1>5. db[trail[i].reason].lits \subseteq Lit
  BY <1>1, Shape DEF CoreInv
<1>6. Root(i) \/ \E j \in DOMAIN trail : /\ j < i /\ SameLevel(j, i)
                                         /\ Neg(trail[j].lit) \in db[trail[i].reason].lits \ {trail[i].lit}
  BY <1>1, <1>3, <1>4
<1>7. \A l \in db[trail[i].reason].lits \ {trail[i].lit} : \E j \in DOMAIN trail : j < i /\ trail[j].lit = Neg(l)
  BY <1>1, <1>3
<1> QED
  BY <1>1, <1>5, <1>6, <1>7

\* The loop of analyze: each position resolves once or does nothing.
LEMMA ResolventsAre ==
  ASSUME CoreInv, NEW ls \in SUBSET Lit
  PROVE  /\ Resolvents(ls) \in [0 .. Len(trail) -> SUBSET Lit]
         /\ Resolvents(ls)[Len(trail)] = Deep(ls)
         /\ \A i \in 0 .. Len(trail) - 1 : Resolvents(ls)[i] = Resolved1(Resolvents(ls)[i + 1], i)
<1> DEFINE n == Len(trail)
           step == [i \in 0 .. n |-> [r \in SUBSET Lit |-> IF i < n THEN Resolved1(r, i) ELSE r]]
<1>1. DOMAIN trail = 1 .. n /\ n \in Nat
  BY Shape DEF CoreInv
<1> HIDE DEF n
<1>2. Deep(ls) \in SUBSET Lit
  BY DEF Deep
<1>3. ASSUME NEW i \in 0 .. n, i < n, NEW r \in SUBSET Lit PROVE Resolved1(r, i) \in SUBSET Lit
  <2>1. i + 1 \in DOMAIN trail
    BY <1>1, <1>3
  <2> QED
    BY <2>1, ReasonIs DEF Resolved1, Deep
<1>4. step \in [0 .. n -> [SUBSET Lit -> SUBSET Lit]]
  BY <1>3
<1>5. PICK f \in [0 .. n -> SUBSET Lit] : DownFrom(f, n, Deep(ls), step)
  <2> HIDE DEF step
  <2> QED
    BY <1>1, <1>2, <1>4, FromTheEnd
<1>6. \A i \in 0 .. n : i # n => f[i] = Resolved1(f[i + 1], i)
  <2> SUFFICES ASSUME NEW i \in 0 .. n, i # n PROVE f[i] = Resolved1(f[i + 1], i)
    OBVIOUS
  <2>1. i < n /\ f[i + 1] \in SUBSET Lit /\ i \in 0 .. n - 1
    BY <1>1
  <2>2. f[i] = step[i][f[i + 1]]
    BY <2>1, <1>5 DEF DownFrom
  <2> QED
    BY <2>1, <2>2
<1>56. f[n] = Deep(ls)
  BY <1>5 DEF DownFrom
<1> HIDE DEF step
<1>7. f = [i \in 0 .. n |->
            IF i = n THEN Deep(ls)
            ELSE LET t == trail[i + 1]
                     r == f[i + 1]
                 IN IF Neg(t.lit) \in r /\ t.reason # NoReason
                    THEN (r \ {Neg(t.lit)}) \cup Deep(db[t.reason].lits \ {t.lit}) ELSE r]
  BY <1>56, <1>6 DEF Resolved1
<1> DEFINE w == Resolvents(ls)
<1>8. w = [i \in 0 .. n |->
            IF i = n THEN Deep(ls)
            ELSE LET t == trail[i + 1]
                     r == w[i + 1]
                 IN IF Neg(t.lit) \in r /\ t.reason # NoReason
                    THEN (r \ {Neg(t.lit)}) \cup Deep(db[t.reason].lits \ {t.lit}) ELSE r]
  BY <1>7 DEF Resolvents, n
<1> HIDE DEF w
<1>9. w[n] = Deep(ls) /\ \A i \in 0 .. n - 1 : w[i] = Resolved1(w[i + 1], i)
  <2>1. w[n] = Deep(ls)
    BY <1>1, <1>8
  <2>2. ASSUME NEW i \in 0 .. n - 1 PROVE w[i] = Resolved1(w[i + 1], i)
    <3>1. i \in 0 .. n /\ i # n
      BY <1>1
    <3> QED
      BY <3>1, <1>8 DEF Resolved1
  <2> QED
    BY <2>1, <2>2
<1>10. \A i \in 0 .. n : w[i] = f[i]
  <2> DEFINE S == {k \in Nat : k <= n => w[n - k] = f[n - k]}
  <2>1. 0 \in S
    BY <1>1, <1>56, <1>9
  <2>2. ASSUME NEW k \in Nat, k \in S PROVE k + 1 \in S
    <3> SUFFICES ASSUME k + 1 <= n PROVE w[n - (k + 1)] = f[n - (k + 1)]
      OBVIOUS
    <3> DEFINE a == n - (k + 1)
    <3>1. a \in 0 .. n - 1 /\ a \in 0 .. n /\ a # n /\ a + 1 = n - k /\ k <= n
      BY <1>1
    <3>2. w[n - k] = f[n - k]
      BY <2>2, <3>1
    <3>3. w[a + 1] = f[a + 1]
      BY <3>1, <3>2
    <3> HIDE DEF a
    <3>4. w[a] = f[a]
      BY <3>1, <3>3, <1>6, <1>9
    <3> QED
      BY <3>4 DEF a
  <2>3. Nat \subseteq S
    <3> HIDE DEF S
    <3> QED
      BY <2>1, <2>2, Induction
  <2>4. ASSUME NEW i \in 0 .. n PROVE w[i] = f[i]
    <3>1. n - i \in S /\ n - (n - i) = i /\ n - i <= n
      BY <2>3, <1>1
    <3> QED
      BY <3>1
  <2> QED
    BY <2>4
<1>11. w \in [0 .. n -> SUBSET Lit]
  BY <1>8, <1>10, <1>5
<1> QED
  BY <1>9, <1>11 DEF w, n

\* The literals of ls that are not false at the root.
LEMMA DeepIs ==
  ASSUME CoreInv, NEW ls \in SUBSET Lit
  PROVE  /\ Deep(ls) \subseteq ls
         /\ \A i \in DOMAIN trail : \A l \in ls : trail[i].lit = Neg(l) => (l \in Deep(ls) <=> ~Root(i))
BY FalseAt DEF CoreInv, Deep

\* The clause ls is false, with a literal at the level of position ref, above
\* the root; w is what its resolvents are.
WalkOk(w, ls, ref, i) ==
  /\ \A l \in w[i] : \E j \in DOMAIN trail : trail[j].lit = Neg(l) /\ ~Root(j)
  /\ \A j \in DOMAIN trail : i < j /\ Neg(trail[j].lit) \in w[i] =>
       trail[j].reason = NoReason /\ Neg(trail[j].lit) \in w[j]
  /\ \E j \in DOMAIN trail : Neg(trail[j].lit) \in w[i] /\ SameLevel(j, ref)
  /\ \A m \in Models(Given) : SatClause(m, ls) => SatClause(m, w[i])

FalseClause(ls) == \A l \in ls : \E i \in DOMAIN trail : trail[i].lit = Neg(l)

\* A model satisfies what is left of a clause without the literals false at the root.
LEMMA DeepImplied ==
  ASSUME CoreInv, NEW ls \in SUBSET Lit, FalseClause(ls), NEW m \in Models(Given), NEW l \in ls, Satisfies(m, l)
  PROVE  l \in Deep(ls)
<1>1. PICK i \in DOMAIN trail : trail[i].lit = Neg(l)
  BY DEF FalseClause
<1>2. ~Root(i)
  <2> SUFFICES ASSUME Root(i) PROVE FALSE
    OBVIOUS
  <2>1. Satisfies(m, Neg(l))
    BY <1>1 DEF CoreInv, ImpliedInv
  <2> QED
    BY <2>1, NegSatisfied
<1> QED
  BY <1>1, <1>2, DeepIs

\* Before the first resolution,
LEMMA WalkFirst ==
  ASSUME CoreInv, NEW ls \in SUBSET Lit, FalseClause(ls),
         NEW ref \in DOMAIN trail, ~Root(ref), Neg(trail[ref].lit) \in ls
  PROVE  WalkOk(Resolvents(ls), ls, ref, Len(trail))
<1> DEFINE w == Resolvents(ls)
           n == Len(trail)
<1>1. w[n] = Deep(ls) /\ DOMAIN trail = 1 .. n /\ n \in Nat /\ \A j \in DOMAIN trail : trail[j].lit \in Lit
  BY ResolventsAre, Shape DEF CoreInv
<1> HIDE DEF w, n
<1>2. ASSUME NEW l \in w[n] PROVE \E j \in DOMAIN trail : trail[j].lit = Neg(l) /\ ~Root(j)
  BY <1>1, DeepIs DEF FalseClause
<1>3. \A j \in DOMAIN trail : ~(n < j)
  BY <1>1
<1>4. Neg(trail[ref].lit) \in w[n]
  BY <1>1, DeepIs, LitLaws
<1>5. SameLevel(ref, ref)
  BY DEF SameLevel
<1>6. \A m \in Models(Given) : SatClause(m, ls) => SatClause(m, w[n])
  BY <1>1, DeepImplied DEF SatClause
<1> QED
  BY <1>2, <1>3, <1>4, <1>5, <1>6 DEF WalkOk, w, n

\* after one more,
LEMMA WalkNext ==
  ASSUME CoreInv, NEW ls \in SUBSET Lit, NEW ref \in DOMAIN trail, ~Root(ref),
         NEW i \in 0 .. Len(trail) - 1, WalkOk(Resolvents(ls), ls, ref, i + 1)
  PROVE  WalkOk(Resolvents(ls), ls, ref, i)
<1> DEFINE w == Resolvents(ls)
           n == Len(trail)
           t == trail[i + 1]
           r == w[i + 1]
<1>1. /\ DOMAIN trail = 1 .. n /\ n \in Nat /\ i + 1 \in DOMAIN trail /\ i \in Nat
      /\ \A j \in DOMAIN trail : trail[j].lit \in Lit
  BY Shape DEF CoreInv
<1>2. r \in SUBSET Lit /\ w[i] = Resolved1(r, i)
  <2>1. i + 1 \in 0 .. n
    BY <1>1
  <2> QED
    BY <2>1, ResolventsAre
<1>3. /\ \A l \in r : \E j \in DOMAIN trail : trail[j].lit = Neg(l) /\ ~Root(j)
      /\ \A j \in DOMAIN trail : i + 1 < j /\ Neg(trail[j].lit) \in r =>
           trail[j].reason = NoReason /\ Neg(trail[j].lit) \in w[j]
      /\ \E j \in DOMAIN trail : Neg(trail[j].lit) \in r /\ SameLevel(j, ref)
      /\ \A m \in Models(Given) : SatClause(m, ls) => SatClause(m, r)
  BY DEF WalkOk
<1> HIDE DEF w, n
<1>4. CASE ~(Neg(t.lit) \in r /\ t.reason # NoReason)
  <2>1. w[i] = r
    BY <1>2, <1>4 DEF Resolved1
  <2>2. ASSUME NEW j \in DOMAIN trail, i < j, Neg(trail[j].lit) \in w[i]
        PROVE  trail[j].reason = NoReason /\ Neg(trail[j].lit) \in w[j]
    <3>1. CASE j = i + 1
      BY <3>1, <2>1, <2>2, <1>4
    <3>2. CASE j # i + 1
      <4>1. i + 1 < j
        BY <3>2, <2>2, <1>1
      <4> QED
        BY <4>1, <2>1, <2>2, <1>3
    <3> QED
      BY <3>1, <3>2
  <2> HIDE DEF r, t
  <2> QED
    BY <2>1, <2>2, <1>3 DEF WalkOk, w
<1>5. CASE Neg(t.lit) \in r /\ t.reason # NoReason
  <2> DEFINE others == db[t.reason].lits \ {t.lit}
  <2>1. w[i] = (r \ {Neg(t.lit)}) \cup Deep(others)
    BY <1>2, <1>5 DEF Resolved1
  <2>2. /\ t.reason \in DOMAIN db /\ t.lit \in db[t.reason].lits /\ others \in SUBSET Lit /\ t.lit \in Lit
        /\ \A l \in others : \E j \in DOMAIN trail : j < i + 1 /\ trail[j].lit = Neg(l)
        /\ Root(i + 1) \/ \E j \in DOMAIN trail : j < i + 1 /\ SameLevel(j, i + 1) /\ Neg(trail[j].lit) \in others
    BY <1>1, <1>5, ReasonIs
  <2>3. /\ FalseClause(others) /\ Deep(others) \subseteq others
        /\ \A j \in DOMAIN trail : \A l \in others : trail[j].lit = Neg(l) => (l \in Deep(others) <=> ~Root(j))
    BY <2>2, DeepIs DEF FalseClause
  <2>4. \A j, k \in DOMAIN trail : j # k => trail[j].lit # trail[k].lit /\ Neg(trail[j].lit) # Neg(trail[k].lit)
    <3>1. \A j, k \in DOMAIN trail : j # k => VarOf(trail[j].lit) # VarOf(trail[k].lit)
      BY DEF CoreInv, TrailInv
    <3> QED
      BY <3>1, <1>1, LitLaws
  <2>5. \A l \in w[i] : \E j \in DOMAIN trail : trail[j].lit = Neg(l) /\ ~Root(j)
    BY <2>1, <2>2, <2>3, <1>3
  <2>6. ASSUME NEW j \in DOMAIN trail, i < j, Neg(trail[j].lit) \in w[i]
        PROVE  trail[j].reason = NoReason /\ Neg(trail[j].lit) \in w[j]
    <3>1. Neg(trail[j].lit) \notin others
      <4> SUFFICES ASSUME Neg(trail[j].lit) \in others PROVE FALSE
        OBVIOUS
      <4>1. PICK k \in DOMAIN trail : k < i + 1 /\ trail[k].lit = Neg(Neg(trail[j].lit))
        BY <2>2
      <4>2. trail[k].lit = trail[j].lit /\ k # j
        BY <4>1, <2>6, <1>1, LitLaws
      <4> QED
        BY <4>2, <2>4
    <3>2. Neg(trail[j].lit) \in r /\ Neg(trail[j].lit) # Neg(t.lit)
      BY <3>1, <2>1, <2>3, <2>6
    <3>3. i + 1 < j
      BY <3>2, <2>6, <1>1
    <3> QED
      BY <3>2, <3>3, <1>3
  <2>7. \E j \in DOMAIN trail : Neg(trail[j].lit) \in w[i] /\ SameLevel(j, ref)
    <3>1. PICK j \in DOMAIN trail : Neg(trail[j].lit) \in r /\ SameLevel(j, ref)
      BY <1>3
    <3>2. CASE j # i + 1
      BY <3>1, <3>2, <2>1, <2>4, <1>1
    <3>3. CASE j = i + 1
      <4>1. ~Root(i + 1) /\ SameLevel(i + 1, ref)
        <5>1. SameLevel(i + 1, ref)
          BY <3>1, <3>3
        <5>2. LevelAt(i + 1) = LevelAt(ref) /\ LevelAt(ref) # 0
          BY <5>1, <1>1, LevelsCompare DEF CoreInv
        <5> QED
          BY <5>1, <5>2, <1>1, LevelsCompare DEF CoreInv
      <4>2. PICK k \in DOMAIN trail : k < i + 1 /\ SameLevel(k, i + 1) /\ Neg(trail[k].lit) \in others
        BY <4>1, <2>2
      <4>3. SameLevel(k, ref)
        BY <4>1, <4>2 DEF SameLevel
      <4>4. ~Root(k)
        <5>1. LevelAt(k) = LevelAt(i + 1) /\ LevelAt(i + 1) # 0
          BY <4>1, <4>2, <1>1, LevelsCompare DEF CoreInv
        <5> QED
          BY <5>1, <1>1, LevelsCompare DEF CoreInv
      <4>5. Neg(trail[k].lit) \in Deep(others)
        BY <4>2, <4>4, <2>3, <1>1, LitLaws
      <4> QED
        BY <4>3, <4>5, <2>1
    <3> QED
      BY <3>2, <3>3
  <2>8. ASSUME NEW m \in Models(Given), SatClause(m, ls) PROVE SatClause(m, w[i])
    <3>1. PICK l \in r : Satisfies(m, l)
      BY <1>3, <2>8 DEF SatClause
    <3>2. CASE l # Neg(t.lit)
      BY <3>1, <3>2, <2>1 DEF SatClause
    <3>3. CASE l = Neg(t.lit)
      <4>1. ~Satisfies(m, t.lit)
        BY <3>1, <3>3, <2>2, NegSatisfied
      <4>2. PICK x \in db[t.reason].lits : Satisfies(m, x)
        BY <2>2 DEF CoreInv, ImpliedInv, SatClause
      <4>3. x \in others
        BY <4>1, <4>2
      <4>4. x \in Deep(others)
        <5> HIDE DEF others
        <5> QED
          BY <4>2, <4>3, <2>2, <2>3, DeepImplied
      <4> QED
        BY <4>2, <4>4, <2>1 DEF SatClause
    <3> QED
      BY <3>2, <3>3
  <2> QED
    BY <2>5, <2>6, <2>7, <2>8 DEF WalkOk, w
<1> QED
  BY <1>4, <1>5

\* and so at every position.
LEMMA WalkAll ==
  ASSUME CoreInv, NEW ls \in SUBSET Lit, FalseClause(ls),
         NEW ref \in DOMAIN trail, ~Root(ref), Neg(trail[ref].lit) \in ls
  PROVE  \A i \in 0 .. Len(trail) : WalkOk(Resolvents(ls), ls, ref, i)
<1> DEFINE n == Len(trail)
           Ok(i) == WalkOk(Resolvents(ls), ls, ref, i)
           S == {k \in Nat : k <= n => Ok(n - k)}
<1>0. n \in Nat
  BY Shape DEF CoreInv
<1>1. 0 \in S
  BY <1>0, WalkFirst
<1>2. ASSUME NEW k \in Nat, k \in S PROVE k + 1 \in S
  <2> SUFFICES ASSUME k + 1 <= n PROVE Ok(n - (k + 1))
    OBVIOUS
  <2> DEFINE a == n - (k + 1)
  <2>1. a \in 0 .. n - 1 /\ a + 1 = n - k /\ k <= n
    BY <1>0
  <2>2. Ok(a + 1)
    BY <1>2, <2>1
  <2> HIDE DEF a
  <2>3. Ok(a)
    BY <2>1, <2>2, WalkNext
  <2> QED
    BY <2>3 DEF a
<1>3. Nat \subseteq S
  <2> HIDE DEF S
  <2> QED
    BY <1>1, <1>2, Induction
<1>4. ASSUME NEW i \in 0 .. n PROVE Ok(i)
  <2>1. n - i \in S /\ n - (n - i) = i /\ n - i <= n
    BY <1>3, <1>0
  <2> HIDE DEF Ok
  <2> QED
    BY <2>1
<1> QED
  BY <1>4

-----------------------------------------------------------------------------
\* A set of numbers below n has a greatest one.
LEMMA GreatestIn ==
  ASSUME NEW n \in Nat, NEW T, T \subseteq 0 .. n, T # {}
  PROVE  Max(T) \in T /\ \A x \in T : x <= Max(T)
<1> DEFINE S == {n - x : x \in T}
<1>1. S \subseteq Nat /\ S # {}
  <2>1. \A x \in T : x \in 0 .. n /\ n - x \in Nat
    OBVIOUS
  <2>2. S \subseteq Nat
    BY <2>1
  <2>3. PICK x \in T : TRUE
    OBVIOUS
  <2>4. n - x \in S
    OBVIOUS
  <2> QED
    BY <2>2, <2>4
<1>2. PICK b \in S : \A m \in S : b <= m
  <2> HIDE DEF S
  <2> QED
    BY <1>1, LeastNat
<1>3. PICK x \in T : b = n - x
  BY <1>2
<1>4. \A y \in T : x >= y
  <2> TAKE y \in T
  <2>1. n - y \in S
    OBVIOUS
  <2>2. b <= n - y /\ y \in Nat /\ x \in Nat
    BY <2>1, <1>2
  <2> QED
    BY <2>2, <1>3
<1>5. Max(T) \in T /\ \A y \in T : Max(T) >= y
  BY <1>4 DEF Max
<1> QED
  BY <1>5

-----------------------------------------------------------------------------
Follows(ls, i, below) ==
  /\ trail[i].reason # NoReason
  /\ Deep(db[trail[i].reason].lits \ {trail[i].lit}) \subseteq ls \cup below

FollowsOf(ls, red, x) ==
  \E i \in DOMAIN trail : x = Neg(trail[i].lit) /\ Follows(ls, i, red)

\* litRedundant: a literal is dropped if its reason has only literals that are kept
\* or dropped.
LEMMA RedundantAre ==
  ASSUME CoreInv, NEW ls \in SUBSET Lit
  PROVE  \E red : RedundantIn(ls) = ls \cap red /\ \A x \in red : FollowsOf(ls, red, x)
<1> DEFINE n == Len(trail)
           step == [i \in 0 .. n |-> [r \in SUBSET Lit |->
                     IF i > 0 /\ Follows(ls, i, r) THEN r \cup {Neg(trail[i].lit)} ELSE r]]
           w[i \in 0 .. n] ==
             IF i = 0 THEN {}
             ELSE IF Follows(ls, i, w[i - 1]) THEN w[i - 1] \cup {Neg(trail[i].lit)} ELSE w[i - 1]
<1>1. DOMAIN trail = 1 .. n /\ n \in Nat /\ \A i \in DOMAIN trail : trail[i].lit \in Lit
  BY Shape DEF CoreInv
<1>2. RedundantIn(ls) = ls \cap w[n]
  BY DEF RedundantIn, Follows
<1> HIDE DEF n
<1>3. step \in [0 .. n -> [SUBSET Lit -> SUBSET Lit]]
  BY <1>1, LitLaws
<1>4. PICK f \in [0 .. n -> SUBSET Lit] : UpFrom(f, n, {}, step)
  <2> HIDE DEF step
  <2> QED
    BY <1>1, <1>3, FromTheStart
<1>5. f[0] = {} /\ \A i \in 1 .. n : f[i] = step[i][f[i - 1]]
  <2> HIDE DEF step
  <2> QED
    BY <1>4 DEF UpFrom
<1>6. \A i \in 0 .. n : i # 0 =>
        f[i] = IF Follows(ls, i, f[i - 1]) THEN f[i - 1] \cup {Neg(trail[i].lit)} ELSE f[i - 1]
  <2> TAKE i \in 0 .. n
  <2> HAVE i # 0
  <2>1. i \in 1 .. n /\ i > 0 /\ f[i - 1] \in SUBSET Lit
    BY <1>1
  <2>2. f[i] = step[i][f[i - 1]]
    BY <2>1, <1>5
  <2> QED
    BY <2>1, <2>2
<1> HIDE DEF step
<1>7. f = [i \in 0 .. n |->
            IF i = 0 THEN {}
            ELSE IF Follows(ls, i, f[i - 1]) THEN f[i - 1] \cup {Neg(trail[i].lit)} ELSE f[i - 1]]
  BY <1>5, <1>6
<1>8. w = [i \in 0 .. n |->
            IF i = 0 THEN {}
            ELSE IF Follows(ls, i, w[i - 1]) THEN w[i - 1] \cup {Neg(trail[i].lit)} ELSE w[i - 1]]
  BY <1>7
<1> HIDE DEF w
<1> DEFINE P(k) == \A x \in w[k] : FollowsOf(ls, w[k], x)
           S == {k \in Nat : k <= n => P(k)}
<1>9. w[0] = {} /\ \A i \in 1 .. n :
        w[i] = IF Follows(ls, i, w[i - 1]) THEN w[i - 1] \cup {Neg(trail[i].lit)} ELSE w[i - 1]
  <2> HIDE DEF P, S
  <2>1. w[0] = {}
    BY <1>1, <1>8
  <2>2. \A i \in 1 .. n : i \in 0 .. n /\ i # 0
    BY <1>1
  <2>3. ASSUME NEW i \in 1 .. n
        PROVE  w[i] = IF Follows(ls, i, w[i - 1]) THEN w[i - 1] \cup {Neg(trail[i].lit)} ELSE w[i - 1]
    BY <1>8, <2>2
  <2> QED
    BY <2>1, <2>3
<1>10. 0 \in S
  BY <1>9
<1>11. ASSUME NEW k \in Nat, k \in S PROVE k + 1 \in S
  <2> SUFFICES ASSUME k + 1 <= n PROVE P(k + 1)
    OBVIOUS
  <2>1. k + 1 \in 1 .. n /\ k + 1 \in DOMAIN trail /\ (k + 1) - 1 = k /\ k <= n
    BY <1>1
  <2>2. P(k)
    BY <1>11, <2>1
  <2>3. w[k + 1] = IF Follows(ls, k + 1, w[k]) THEN w[k] \cup {Neg(trail[k + 1].lit)} ELSE w[k]
    BY <2>1, <1>9
  <2>4. \A i : Follows(ls, i, w[k]) => Follows(ls, i, w[k + 1])
    BY <2>3 DEF Follows
  <2>5. \A x \in w[k] : FollowsOf(ls, w[k + 1], x)
    BY <2>2, <2>4 DEF FollowsOf
  <2>6. Follows(ls, k + 1, w[k]) => FollowsOf(ls, w[k + 1], Neg(trail[k + 1].lit))
    BY <2>1, <2>4 DEF FollowsOf
  <2> QED
    BY <2>3, <2>5, <2>6
<1>12. n \in S
  <2> HIDE DEF S
  <2> QED
    BY <1>1, <1>10, <1>11, Induction
<1>13. P(n)
  BY <1>12, <1>1
<1> QED
  BY <1>2, <1>13

\* A clause that is false keeps its models when it is minimised.
LEMMA MinimisedImplied ==
  ASSUME CoreInv, NEW ls \in SUBSET Lit, FalseClause(ls), NEW l \in ls,
         NEW m \in Models(Given), SatClause(m, ls)
  PROVE  SatClause(m, Minimised(ls, l))
<1>1. PICK red : RedundantIn(ls) = ls \cap red /\ \A x \in red : FollowsOf(ls, red, x)
  BY RedundantAre
<1> DEFINE T == {i \in DOMAIN trail : Neg(trail[i].lit) \in ls \cup red /\ Satisfies(m, Neg(trail[i].lit))}
<1>2. DOMAIN trail = 1 .. Len(trail) /\ Len(trail) \in Nat /\ \A i \in DOMAIN trail : trail[i].lit \in Lit
  BY Shape DEF CoreInv
<1>3. T \subseteq Nat /\ T # {}
  <2>1. PICK x \in ls : Satisfies(m, x)
    BY DEF SatClause
  <2>2. PICK i \in DOMAIN trail : trail[i].lit = Neg(x)
    BY DEF FalseClause
  <2>3. x = Neg(trail[i].lit)
    BY <2>2, LitLaws
  <2> QED
    BY <2>1, <2>3, <1>2
<1>4. PICK i \in T : \A j \in T : i <= j
  BY <1>3, LeastNat
<1> DEFINE x == Neg(trail[i].lit)
<1>5. x \notin red
  <2> SUFFICES ASSUME x \in red PROVE FALSE
    OBVIOUS
  <2>1. PICK k \in DOMAIN trail : x = Neg(trail[k].lit) /\ Follows(ls, k, red)
    BY <1>1 DEF FollowsOf
  <2>2. trail[k].lit = trail[i].lit
    BY <2>1, <1>2, LitLaws
  <2>3. k = i
    BY <2>2, <1>2 DEF CoreInv, TrailInv
  <2> DEFINE others == db[trail[i].reason].lits \ {trail[i].lit}
  <2>4. trail[i].reason # NoReason /\ Deep(others) \subseteq ls \cup red
    BY <2>1, <2>3 DEF Follows
  <2>5. /\ trail[i].reason \in DOMAIN db /\ trail[i].lit \in db[trail[i].reason].lits
        /\ others \in SUBSET Lit
        /\ \A y \in others : \E j \in DOMAIN trail : j < i /\ trail[j].lit = Neg(y)
    BY <2>4, ReasonIs
  <2>6. PICK y \in db[trail[i].reason].lits : Satisfies(m, y)
    BY <2>5 DEF CoreInv, ImpliedInv, SatClause
  <2>7. ~Satisfies(m, trail[i].lit)
    BY <1>2, NegSatisfied
  <2>8. y \in others
    BY <2>6, <2>7
  <2> HIDE DEF others
  <2>9. FalseClause(others)
    BY <2>5 DEF FalseClause
  <2>10. y \in ls \cup red
    BY <2>4, <2>5, <2>6, <2>8, <2>9, DeepImplied
  <2>11. PICK j \in DOMAIN trail : j < i /\ trail[j].lit = Neg(y)
    BY <2>5, <2>8
  <2>12. y \in Lit /\ Neg(trail[j].lit) = y
    BY <2>5, <2>8, <2>11, LitLaws
  <2>13. j \in T
    BY <2>6, <2>10, <2>12
  <2> QED
    BY <2>11, <2>13, <1>4, <1>2
<1>6. x \in ls \ RedundantIn(ls) /\ Satisfies(m, x)
  BY <1>1, <1>5
<1> QED
  BY <1>6 DEF SatClause, Minimised

-----------------------------------------------------------------------------
\* A clause that is unit at the end of a lower level: its literal is false at
\* position u, the others before.
Asserting(ls, u) ==
  /\ u \in DOMAIN trail /\ Deepest(u) /\ ~Root(u)
  /\ ls \subseteq Lit /\ Neg(trail[u].lit) \in ls
  /\ \A x \in ls \ {Neg(trail[u].lit)} :
       \E j \in DOMAIN trail : trail[j].lit = Neg(x) /\ ~Root(j) /\ ~Deepest(j)
  /\ \A m \in Models(Given) : SatClause(m, ls)

\* The walk from the conflict.
LEMMA ConflictWalk ==
  ASSUME CoreInv, conflict # 0, DecisionLevel > 0
  PROVE  \E ref \in DOMAIN trail :
           /\ Deepest(ref) /\ ~Root(ref) /\ db[conflict].lits \in SUBSET Lit
           /\ \A i \in 0 .. Len(trail) : WalkOk(Resolvents(db[conflict].lits), db[conflict].lits, ref, i)
           /\ \A m \in Models(Given) : SatClause(m, db[conflict].lits)
<1>1. PICK ref \in DOMAIN trail : Deepest(ref) /\ Neg(trail[ref].lit) \in db[conflict].lits
  BY DEF CoreInv, ConflictInv
<1>2. conflict \in DOMAIN db /\ db[conflict].lits \in SUBSET Lit
  BY Shape DEF CoreInv, CoreType
<1>3. FalseClause(db[conflict].lits)
  <2> SUFFICES ASSUME NEW l \in db[conflict].lits PROVE \E i \in DOMAIN trail : trail[i].lit = Neg(l)
    BY DEF FalseClause
  <2>1. l \in Lit /\ IsFalse(l)
    BY <1>2 DEF CoreInv, ConflictInv
  <2> QED
    BY <2>1, Values DEF CoreInv
<1>4. ~Root(ref)
  <2>1. DecisionLevel \in DOMAIN lims /\ lims[DecisionLevel] \in Nat /\ ref \in Nat
    BY Shape DEF CoreInv, DecisionLevel
  <2> QED
    BY <2>1, <1>1 DEF Deepest, Root
<1>5. \A m \in Models(Given) : SatClause(m, db[conflict].lits)
  BY <1>1, <1>2 DEF CoreInv, ImpliedInv
<1>6. \A i \in 0 .. Len(trail) : WalkOk(Resolvents(db[conflict].lits), db[conflict].lits, ref, i)
  BY <1>1, <1>2, <1>3, <1>4, WalkAll
<1> QED
  BY <1>1, <1>2, <1>4, <1>5, <1>6

\* What is kept where one literal of the level is left asserts that literal.
LEMMA Asserts ==
  ASSUME CoreInv, conflict # 0, DecisionLevel > 0, NEW u \in DOMAIN trail,
         OfThisLevel(Resolvents(db[conflict].lits)[u]) = {Neg(trail[u].lit)}
  PROVE  Asserting(LearntAt(Resolvents(db[conflict].lits), u).lits, u)
<1> DEFINE w == Resolvents(db[conflict].lits)
           l == Neg(trail[u].lit)
<1>1. PICK ref \in DOMAIN trail :
           /\ Deepest(ref) /\ ~Root(ref) /\ db[conflict].lits \in SUBSET Lit
           /\ \A i \in 0 .. Len(trail) : WalkOk(w, db[conflict].lits, ref, i)
           /\ \A m \in Models(Given) : SatClause(m, db[conflict].lits)
  BY ConflictWalk
<1>2. /\ DOMAIN trail = 1 .. Len(trail) /\ Len(trail) \in Nat /\ u \in 0 .. Len(trail)
      /\ \A i \in DOMAIN trail : trail[i].lit \in Lit
  BY Shape DEF CoreInv
<1>3. w[u] \in SUBSET Lit
  BY <1>1, <1>2, ResolventsAre
<1>4. OfThisLevel(w[u]) = {l}
  OBVIOUS
<1> HIDE DEF w
<1>5. /\ \A x \in w[u] : \E j \in DOMAIN trail : trail[j].lit = Neg(x) /\ ~Root(j)
      /\ \A m \in Models(Given) : SatClause(m, w[u])
  BY <1>1, <1>2 DEF WalkOk
<1>6. l \in w[u] /\ LevelOf(l) = DecisionLevel /\ \A x \in w[u] : x # l => LevelOf(x) # DecisionLevel
  BY <1>4 DEF OfThisLevel
<1>7. ASSUME NEW x \in w[u], NEW j \in DOMAIN trail, trail[j].lit = Neg(x)
      PROVE  Deepest(j) <=> LevelOf(x) = DecisionLevel
  <2>1. x \in Lit
    BY <1>3
  <2>2. LevelOf(x) = LevelAt(j) /\ j \in Nat
    BY <2>1, <1>7, FalseAt DEF CoreInv
  <2> QED
    BY <2>2, LevelsCompare DEF CoreInv
<1>8. Deepest(u) /\ ~Root(u)
  <2>1. PICK j \in DOMAIN trail : trail[j].lit = Neg(l) /\ ~Root(j)
    BY <1>5, <1>6
  <2>2. trail[j].lit = trail[u].lit
    BY <2>1, <1>2, LitLaws
  <2>3. j = u
    BY <2>2, <1>2 DEF CoreInv, TrailInv
  <2> QED
    BY <2>1, <2>3, <1>6, <1>7
<1>9. LearntAt(w, u).lits = Minimised(w[u], l)
  BY DEF LearntAt
<1>10. Minimised(w[u], l) \subseteq w[u] /\ l \in Minimised(w[u], l)
  BY <1>6 DEF Minimised
<1>11. ASSUME NEW x \in w[u], x # l
       PROVE  \E j \in DOMAIN trail : trail[j].lit = Neg(x) /\ ~Root(j) /\ ~Deepest(j)
  BY <1>5, <1>6, <1>7, <1>11
<1>12. ASSUME NEW m \in Models(Given) PROVE SatClause(m, Minimised(w[u], l))
  <2>1. FalseClause(w[u])
    BY <1>5 DEF FalseClause
  <2> QED
    BY <2>1, <1>3, <1>5, <1>6, MinimisedImplied
<1> HIDE DEF l
<1>13. Asserting(Minimised(w[u], l), u)
  BY <1>3, <1>8, <1>10, <1>11, <1>12 DEF Asserting, l
<1> QED
  BY <1>9, <1>13 DEF w

\* The decision of the last level is alone on it.
LEMMA LastUip ==
  ASSUME CoreInv, conflict # 0, DecisionLevel > 0
  PROVE  LET u == lims[DecisionLevel] + 1 IN
         u \in DOMAIN trail /\ OfThisLevel(Resolvents(db[conflict].lits)[u]) = {Neg(trail[u].lit)}
<1> DEFINE w == Resolvents(db[conflict].lits)
           d == DecisionLevel
           u == lims[d] + 1
<1>1. PICK ref \in DOMAIN trail :
           /\ Deepest(ref) /\ ~Root(ref) /\ db[conflict].lits \in SUBSET Lit
           /\ \A i \in 0 .. Len(trail) : WalkOk(w, db[conflict].lits, ref, i)
           /\ \A m \in Models(Given) : SatClause(m, db[conflict].lits)
  BY ConflictWalk
<1>2. /\ DOMAIN trail = 1 .. Len(trail) /\ Len(trail) \in Nat
      /\ \A i \in DOMAIN trail : trail[i].lit \in Lit
      /\ DOMAIN lims = 1 .. d /\ d \in Nat /\ d \in DOMAIN lims /\ \A m \in DOMAIN lims : lims[m] \in Nat
  BY Shape DEF CoreInv, DecisionLevel
<1>3. \A m \in DOMAIN lims : lims[m] <= lims[d]
  BY <1>2 DEF CoreInv, TrailInv
<1>4. u \in DOMAIN trail /\ u \in 0 .. Len(trail) /\ u \in Nat
  <2>1. lims[d] < ref
    BY <1>1, <1>2 DEF Deepest
  <2> QED
    BY <2>1, <1>2
<1>5. w[u] \in SUBSET Lit
  BY <1>1, <1>4, ResolventsAre
<1> HIDE DEF w, d
<1>6. /\ \A l \in w[u] : \E j \in DOMAIN trail : trail[j].lit = Neg(l) /\ ~Root(j)
      /\ \A j \in DOMAIN trail : u < j /\ Neg(trail[j].lit) \in w[u] => trail[j].reason = NoReason
      /\ \E j \in DOMAIN trail : Neg(trail[j].lit) \in w[u] /\ SameLevel(j, ref)
  BY <1>1, <1>4 DEF WalkOk
<1>7. ASSUME NEW j \in DOMAIN trail, Neg(trail[j].lit) \in w[u], Deepest(j) PROVE j = u
  <2>1. lims[d] < j /\ j \in Nat /\ u <= j
    BY <1>2, <1>7 DEF Deepest
  <2>2. SUFFICES ASSUME u < j PROVE FALSE
    BY <2>1, <1>4
  <2>3. trail[j].reason = NoReason
    BY <2>2, <1>6, <1>7
  <2>4. ~Root(j)
    BY <2>1, <1>2 DEF Root
  <2>5. PICK m \in DOMAIN lims : j = lims[m] + 1
    BY <2>3, <2>4 DEF CoreInv, ReasonInv
  <2> QED
    BY <2>2, <2>5, <1>2, <1>3
<1>8. ASSUME NEW j \in DOMAIN trail PROVE Deepest(j) <=> LevelOf(Neg(trail[j].lit)) = d
  <2>1. Neg(trail[j].lit) \in Lit /\ trail[j].lit = Neg(Neg(trail[j].lit)) /\ j \in Nat
    BY <1>2, LitLaws
  <2>2. LevelOf(Neg(trail[j].lit)) = LevelAt(j)
    BY <2>1, FalseAt DEF CoreInv
  <2> QED
    BY <2>1, <2>2, LevelsCompare DEF CoreInv, d
<1>9. Neg(trail[u].lit) \in w[u] /\ Deepest(u)
  <2>1. PICK j \in DOMAIN trail : Neg(trail[j].lit) \in w[u] /\ SameLevel(j, ref)
    BY <1>6
  <2>2. Deepest(j)
    BY <2>1, <1>1 DEF SameLevel, Deepest
  <2> QED
    BY <2>1, <2>2, <1>7
<1>10. ASSUME NEW l \in w[u], LevelOf(l) = d PROVE l = Neg(trail[u].lit)
  <2>1. PICK j \in DOMAIN trail : trail[j].lit = Neg(l)
    BY <1>6
  <2>2. l = Neg(trail[j].lit)
    BY <2>1, <1>5, LitLaws
  <2>3. Deepest(j)
    BY <2>2, <1>8, <1>10
  <2> QED
    BY <2>2, <2>3, <1>7
<1>11. OfThisLevel(w[u]) = {Neg(trail[u].lit)}
  <2>1. \A l \in w[u] : l \in OfThisLevel(w[u]) <=> LevelOf(l) = d
    BY DEF OfThisLevel, d
  <2>2. OfThisLevel(w[u]) \subseteq w[u]
    BY DEF OfThisLevel
  <2>3. Neg(trail[u].lit) \in OfThisLevel(w[u])
    BY <2>1, <1>4, <1>8, <1>9
  <2> QED
    BY <2>1, <2>2, <2>3, <1>10
<1> QED
  BY <1>4, <1>11 DEF w, d

\* So analyze stops, and both analyses give a clause that asserts.
LEMMA LearntAsserts ==
  ASSUME CoreInv, conflict # 0, DecisionLevel > 0,
         NEW learnt, learnt = analyze(db[conflict].lits) \/ learnt = analyzeLastUIP(db[conflict].lits)
  PROVE  \E u \in DOMAIN trail : learnt.lit = Neg(trail[u].lit) /\ Asserting(learnt.lits, u)
<1> DEFINE w == Resolvents(db[conflict].lits)
           T == {i \in DOMAIN trail : OfThisLevel(w[i]) = {Neg(trail[i].lit)}}
           b == lims[DecisionLevel] + 1
<1>1. b \in T
  BY LastUip
<1>2. FirstUip(w) \in T
  <2>1. DOMAIN trail = 1 .. Len(trail) /\ Len(trail) \in Nat
    BY Shape DEF CoreInv
  <2>2. T \subseteq 0 .. Len(trail) /\ T # {}
    BY <1>1, <2>1
  <2>3. Max(T) \in T
    <3> HIDE DEF T
    <3> QED
      BY <2>1, <2>2, GreatestIn
  <2> QED
    BY <2>3 DEF FirstUip
<1>3. PICK u \in T : learnt = LearntAt(w, u)
  <2>1. CASE learnt = analyze(db[conflict].lits)
    BY <2>1, <1>2 DEF analyze
  <2>2. CASE learnt = analyzeLastUIP(db[conflict].lits)
    BY <2>2, <1>1 DEF analyzeLastUIP
  <2> QED
    BY <2>1, <2>2
<1>4. u \in DOMAIN trail /\ Asserting(learnt.lits, u)
  BY <1>3, Asserts
<1>5. learnt.lit = Neg(trail[u].lit)
  BY <1>3 DEF LearntAt
<1> QED
  BY <1>4, <1>5

-----------------------------------------------------------------------------
\* The level where a clause that asserts is unit: its other literals are false
\* there, one of them at that level.
LEMMA BacktrackIs ==
  ASSUME CoreInv, NEW ls, NEW u, Asserting(ls, u), NEW l, l = Neg(trail[u].lit),
         NEW n, n = BacktrackLevel(ls, l)
  PROVE  /\ n \in Nat /\ n < DecisionLevel /\ Cut(n) < u /\ Cut(n) \in Nat
         /\ \A x \in ls \ {l} : \E j \in 1 .. Cut(n) : trail[j].lit = Neg(x) /\ LevelOf(x) = LevelAt(j)
         /\ ls = {l} <=> n = 0
<1>1. /\ DOMAIN trail = 1 .. Len(trail) /\ Len(trail) \in Nat /\ u \in DOMAIN trail /\ u \in Nat
      /\ DOMAIN lims = 1 .. DecisionLevel /\ DecisionLevel \in Nat
      /\ \A m \in DOMAIN lims : lims[m] \in Nat
  BY Shape DEF CoreInv, Asserting, DecisionLevel
<1>2. Deepest(u) /\ ~Root(u) /\ ls \subseteq Lit /\ l \in ls
  BY DEF Asserting
<1>3. DecisionLevel > 0
  BY <1>1, <1>2 DEF Root
<1>4. ASSUME NEW x \in ls \ {l}
      PROVE  /\ LevelOf(x) \in 1 .. DecisionLevel - 1
             /\ \E j \in DOMAIN trail : trail[j].lit = Neg(x) /\ LevelOf(x) = LevelAt(j)
  <2>1. PICK j \in DOMAIN trail : trail[j].lit = Neg(x) /\ ~Root(j) /\ ~Deepest(j)
    BY DEF Asserting
  <2>2. x \in Lit /\ j \in Nat
    BY <1>1, <1>2
  <2>3. LevelOf(x) = LevelAt(j) /\ LevelAt(j) \in 0 .. DecisionLevel
    BY <2>1, <2>2, FalseAt DEF CoreInv
  <2>4. LevelAt(j) # 0 /\ LevelAt(j) # DecisionLevel
    BY <2>1, <2>2, LevelsCompare DEF CoreInv
  <2> QED
    BY <2>1, <2>3, <2>4, <1>1
<1>5. /\ n \in Nat /\ n < DecisionLevel /\ (ls = {l} <=> n = 0)
      /\ \A x \in ls \ {l} : LevelOf(x) <= n
  <2>1. CASE ls = {l}
    BY <2>1, <1>3 DEF BacktrackLevel
  <2>2. CASE ls # {l}
    <3> DEFINE T == Levels(ls \ {l})
    <3>1. T \subseteq 0 .. DecisionLevel /\ T # {} /\ \A x \in T : x \in 1 .. DecisionLevel - 1
      BY <1>1, <1>2, <1>4, <2>2 DEF Levels
    <3>2. n = Max(T)
      BY <2>2 DEF BacktrackLevel
    <3>3. \A x \in ls \ {l} : LevelOf(x) \in T
      BY DEF Levels
    <3> HIDE DEF T
    <3>4. n \in T /\ \A x \in T : x <= n
      BY <1>1, <3>1, <3>2, GreatestIn
    <3>5. n \in 1 .. DecisionLevel - 1
      BY <3>1, <3>4
    <3>6. n \in Nat /\ n < DecisionLevel /\ n # 0
      BY <1>1, <3>5
    <3>7. \A x \in ls \ {l} : LevelOf(x) <= n
      BY <3>3, <3>4
    <3> QED
      BY <2>2, <3>6, <3>7
  <2> QED
    BY <2>1, <2>2
<1>6. n + 1 \in DOMAIN lims /\ Cut(n) = lims[n + 1] /\ Cut(n) \in Nat /\ Cut(n) < u
  BY <1>1, <1>2, <1>5 DEF Cut, Deepest
<1>7. ASSUME NEW x \in ls \ {l}
      PROVE  \E j \in 1 .. Cut(n) : trail[j].lit = Neg(x) /\ LevelOf(x) = LevelAt(j)
  <2>1. PICK j \in DOMAIN trail : trail[j].lit = Neg(x) /\ LevelOf(x) = LevelAt(j)
    BY <1>4
  <2>2. LevelAt(j) <= n /\ LevelAt(j) \in 1 .. DecisionLevel - 1 /\ j \in Nat
    BY <2>1, <1>1, <1>4, <1>5
  <2>3. ~(lims[n + 1] < j)
    BY <2>2, <1>5, <1>6, LevelIs DEF CoreInv
  <2>4. j \in 1 .. Cut(n)
    BY <2>3, <1>1, <1>6
  <2> QED
    BY <2>1, <2>4
<1> QED
  BY <1>5, <1>6, <1>7

\* What AssertLit keeps and adds.
LEMMA Asserted ==
  ASSUME CoreInv, NEW ls, NEW u, Asserting(ls, u), NEW l, l = Neg(trail[u].lit), AssertLit(ls, l),
         NEW n, n = BacktrackLevel(ls, l)
  PROVE  \E r \in Nat :
           /\ trail' = Append(TrailAt(n), Entry(l, r))
           /\ db' \in Seq(ClauseRecords)
           /\ \A h \in DOMAIN db : h \in DOMAIN db' /\ db'[h] = db[h]
           /\ \A h \in DOMAIN db' \ DOMAIN db :
                /\ db'[h].lits = ls /\ db'[h].learnt
                /\ \E k \in ls \ {l} : db'[h].watches = {l, k} /\ LevelOf(k) = n
           /\ r = NoReason => ls = {l}
           /\ r # NoReason => r \in DOMAIN db' \ DOMAIN db /\ ls # {l}
<1>1. db \in Seq(ClauseRecords) /\ DOMAIN db = 1 .. Len(db) /\ Len(db) \in Nat
  BY Shape DEF CoreInv, CoreType
<1>2. ls \subseteq Lit /\ l \in ls
  BY DEF Asserting
<1>3. CASE ls = {l}
  <2>1. trail' = Append(TrailAt(n), Entry(l, NoReason)) /\ db' = db
    BY <1>3 DEF AssertLit
  <2> QED
    BY <2>1, <1>1, <1>3 DEF NoReason
<1>4. CASE ls # {l}
  <2>1. trail' = Append(TrailAt(n), Entry(l, Len(db) + 1))
    BY <1>4 DEF AssertLit
  <2>2. PICK k \in {m \in ls \ {l} : LevelOf(m) = n} :
          db' = Append(db, [lits |-> ls, watches |-> {l, k}, learnt |-> TRUE])
    BY <1>4 DEF AssertLit
  <2> DEFINE e == [lits |-> ls, watches |-> {l, k}, learnt |-> TRUE]
  <2>3. e.lits = ls /\ e.watches = {l, k} /\ e.learnt = TRUE /\ db' = Append(db, e)
    BY <2>2
  <2>4. e \in ClauseRecords
    BY <1>2 DEF ClauseRecords
  <2> HIDE DEF e
  <2>5. /\ db' \in Seq(ClauseRecords) /\ DOMAIN db' = 1 .. Len(db) + 1
        /\ \A h \in DOMAIN db : db'[h] = db[h]
        /\ db'[Len(db) + 1] = e
    BY <1>1, <2>3, <2>4, Recorded
  <2>6. \A h \in DOMAIN db' \ DOMAIN db : h = Len(db) + 1
    BY <1>1, <2>5
  <2>7. Len(db) + 1 # NoReason /\ Len(db) + 1 \in DOMAIN db' \ DOMAIN db /\ Len(db) + 1 \in Nat
    BY <1>1, <2>5 DEF NoReason
  <2>8. \A h \in DOMAIN db : h \in DOMAIN db'
    BY <1>1, <2>5
  <2> QED
    BY <1>4, <2>1, <2>2, <2>3, <2>5, <2>6, <2>7, <2>8
<1> QED
  BY <1>3, <1>4

\* The learnt clause is kept and its literal made true at the level where it is
\* unit.
LEMMA AssertCore ==
  ASSUME CoreInv, conflict # 0, NEW ls, NEW u, Asserting(ls, u), NEW l, l = Neg(trail[u].lit), AssertLit(ls, l)
  PROVE  CoreInv'
<1>p. PICK n : n = BacktrackLevel(ls, l)
  OBVIOUS
<1>q. PICK c : c = Cut(n)
  OBVIOUS
<1>r. PICK r \in Nat :
           /\ trail' = Append(TrailAt(n), Entry(l, r))
           /\ db' \in Seq(ClauseRecords)
           /\ \A h \in DOMAIN db : h \in DOMAIN db' /\ db'[h] = db[h]
           /\ \A h \in DOMAIN db' \ DOMAIN db :
                /\ db'[h].lits = ls /\ db'[h].learnt
                /\ \E k \in ls \ {l} : db'[h].watches = {l, k} /\ LevelOf(k) = n
           /\ r = NoReason => ls = {l}
           /\ r # NoReason => r \in DOMAIN db' \ DOMAIN db /\ ls # {l}
  BY <1>p, Asserted
<1>0. /\ visiting' = {} /\ visiting = {} /\ conflict' = 0
      /\ problem' = problem /\ added' = added /\ ok' = ok /\ lims' = LimsAt(n)
      /\ component' = component /\ heap' = HeapAt(n) /\ qhead' = Len(TrailAt(n))
  BY <1>p DEF AssertLit, CoreInv, TrailInv
<1>a. CoreType /\ TrailInv
  BY DEF CoreInv
<1>s. /\ n \in Nat /\ n < DecisionLevel /\ c < u /\ c \in Nat
      /\ \A x \in ls \ {l} : \E j \in 1 .. c : trail[j].lit = Neg(x) /\ LevelOf(x) = LevelAt(j)
      /\ ls = {l} <=> n = 0
  BY <1>p, <1>q, BacktrackIs
<1>t. /\ u \in DOMAIN trail /\ u \in Nat /\ l \in Lit /\ l \in ls /\ ls \subseteq Lit /\ trail[u].lit \in Lit
      /\ Deepest(u) /\ \A m \in Models(Given) : SatClause(m, ls)
      /\ DOMAIN trail = 1 .. Len(trail) /\ Len(trail) \in Nat
      /\ \A i \in DOMAIN trail : trail[i] \in Entries /\ trail[i].lit \in Lit
      /\ DOMAIN lims = 1 .. DecisionLevel /\ DecisionLevel \in Nat /\ \A m \in DOMAIN lims : lims[m] \in Nat
  BY <1>a, Shape, LitLaws DEF Asserting, DecisionLevel
<1>b1. /\ c \in 0 .. Len(trail) /\ TrailAt(n) \in Seq(Entries) /\ Len(TrailAt(n)) = c /\ DOMAIN TrailAt(n) = 1 .. c
       /\ \A i \in 1 .. c : i \in DOMAIN trail /\ TrailAt(n)[i] = trail[i]
       /\ lims' \in Seq(Nat) /\ DOMAIN lims' \subseteq DOMAIN lims
       /\ \A m \in DOMAIN lims' : lims'[m] = lims[m] /\ lims[m] <= c
       /\ DOMAIN lims' = {m \in DOMAIN lims : m <= n}
       /\ \A m \in DOMAIN lims \ DOMAIN lims' : c <= lims[m]
  BY <1>0, <1>a, <1>q, <1>s, CutFacts
<1>b2. /\ trail' \in Seq(Entries) /\ Len(trail') = c + 1 /\ DOMAIN trail' = 1 .. c + 1
       /\ \A i \in 1 .. c : trail'[i] = trail[i]
       /\ trail'[c + 1].lit = l /\ trail'[c + 1].reason = r /\ qhead' = c
  BY <1>0, <1>r, <1>t, <1>b1, Enqueued
<1>c. /\ \A i \in 1 .. c : Root(i)' <=> Root(i)
      /\ \A i, j \in 1 .. c : NotAbove(j, i)' <=> NotAbove(j, i)
      /\ \A i, j \in 1 .. c : SameLevel(j, i)' <=> SameLevel(j, i)
      /\ \A i \in DOMAIN trail : Root(i) => i \in 1 .. c
      /\ \A i \in 1 .. c : \A j \in DOMAIN trail : NotAbove(j, i) => j \in 1 .. c
  BY <1>0, <1>a, <1>q, <1>s, CutLevels
<1>d. \A m \in DOMAIN lims' : lims'[m] \in Nat /\ lims'[m] < c + 1
  <2> SUFFICES ASSUME NEW m \in DOMAIN lims' PROVE lims'[m] \in Nat /\ lims'[m] < c + 1
    OBVIOUS
  <2>1. m \in DOMAIN lims /\ lims'[m] = lims[m] /\ lims[m] <= c
    BY <1>b1
  <2>2. lims[m] \in Nat
    BY <2>1, <1>t
  <2> QED
    BY <2>1, <2>2, <1>s
\* A literal of the clause at the level where it is unit.
<1>e. ASSUME NEW j \in 1 .. c, LevelAt(j) = n PROVE NotAbove(c + 1, j)' /\ SameLevel(j, c + 1)'
  <2>1. \A m \in DOMAIN lims' : lims'[m] < j
    <3> SUFFICES ASSUME NEW m \in DOMAIN lims' PROVE lims'[m] < j
      OBVIOUS
    <3>1. j \in Nat /\ m \in DOMAIN lims /\ m <= LevelAt(j) /\ lims'[m] = lims[m]
      BY <1>b1, <1>e
    <3> QED
      BY <3>1, <1>a, LevelIs
  <2> QED
    BY <2>1, <1>d DEF NotAbove, SameLevel
<1>f. Root(c + 1)' => ls = {l}
  <2> SUFFICES ASSUME Root(c + 1)', n # 0 PROVE FALSE
    BY <1>s
  <2>1. 1 \in DOMAIN lims'
    BY <1>b1, <1>s, <1>t
  <2> QED
    BY <2>1, <1>d, <1>s DEF Root
<1>g. n = 0 => Root(c + 1)'
  <2>1. n = 0 => DOMAIN lims' = {}
    BY <1>b1, <1>t
  <2> QED
    BY <2>1 DEF Root
<1>h. HeapInv' /\ heap' \in SUBSET Var
  <2>1. LitsOf(TrailAt(n)) \subseteq TrueLits'
    BY <1>b1, <1>b2 DEF TrueLits, LitsOf
  <2> QED
    BY <2>1, <1>0, <1>s, HeapCut
<1>i. \A i \in DOMAIN trail' : i \in 1 .. c \/ i = c + 1
  BY <1>b2, <1>s
<1>k. \A i \in 1 .. c : i \in DOMAIN trail' /\ i \in DOMAIN trail
  BY <1>b1, <1>b2, <1>s
<1>1. CoreType'
  <2>1. qhead' \in 0 .. Len(trail')
    BY <1>b2, <1>s
  <2>2. visiting' \in SUBSET DOMAIN db' /\ conflict' \in {0} \cup DOMAIN db'
    BY <1>0
  <2>3. db' \in Seq(ClauseRecords) /\ trail' \in Seq(Entries) /\ lims' \in Seq(Nat)
    BY <1>r, <1>b1, <1>b2
  <2>4. /\ problem' \in Problems /\ added' \in 0 .. Len(problem'.clauses) /\ ok' \in BOOLEAN
        /\ component' \in SUBSET Var
    BY <1>0, <1>a DEF CoreType
  <2> QED
    BY <2>1, <2>2, <2>3, <2>4, <1>h DEF CoreType
<1>2. TrailInv'
  <2>1. \A i, j \in DOMAIN trail' : VarOf(trail'[i].lit) = VarOf(trail'[j].lit) => i = j
    <3>1. \A i \in 1 .. c : VarOf(trail[i].lit) # VarOf(l)
      <4> SUFFICES ASSUME NEW i \in 1 .. c, VarOf(trail[i].lit) = VarOf(l) PROVE FALSE
        OBVIOUS
      <4>1. VarOf(l) = VarOf(trail[u].lit)
        BY <1>t, LitLaws
      <4>2. i = u
        BY <4>1, <1>a, <1>t, <1>k DEF TrailInv
      <4> QED
        BY <4>2, <1>s
    <3>2. \A i, j \in 1 .. c : VarOf(trail[i].lit) = VarOf(trail[j].lit) => i = j
      BY <1>a, <1>k DEF TrailInv
    <3> QED
      BY <3>1, <3>2, <1>b2, <1>i
  <2>2. \A m, k \in DOMAIN lims' : m <= k => lims'[m] <= lims'[k]
    BY <1>a, <1>b1 DEF TrailInv
  <2> QED
    BY <2>1, <2>2, <1>0, <1>b1, <1>b2 DEF TrailInv
<1>3. WatchesInv'
  <2> SUFFICES ASSUME NEW h \in DOMAIN db'
               PROVE  \/ db'[h].lits = {} /\ db'[h].watches = {}
                      \/ \E a, b \in db'[h].lits : a # b /\ db'[h].watches = {a, b}
    BY <1>0 DEF WatchesInv
  <2>1. CASE h \in DOMAIN db
    BY <2>1, <1>r DEF CoreInv, WatchesInv
  <2>2. CASE h \notin DOMAIN db
    BY <2>2, <1>r, <1>t
  <2> QED
    BY <2>1, <2>2
<1>4. WatchInv'
  <2> SUFFICES ASSUME NEW h \in DOMAIN db', NEW i \in 1 .. c, Neg(trail[i].lit) \in db'[h].watches
               PROVE  \E j \in DOMAIN trail' : trail'[j].lit \in db'[h].lits /\ NotAbove(j, i)'
    <3>1. \A i \in DOMAIN trail' : Checked(i)' => i \in 1 .. c
      BY <1>0, <1>b2, <1>s DEF Checked
    <3> QED
      BY <3>1, <1>b2 DEF WatchInv
  <2>1. CASE h \in DOMAIN db
    <3>1. i \in DOMAIN trail /\ h \notin visiting /\ Neg(trail[i].lit) \in db[h].watches
      BY <2>1, <1>0, <1>k, <1>r
    <3>2. Checked(i)
      <4>1. n + 1 \in DOMAIN lims /\ c = lims[n + 1] /\ i <= c /\ i \in Nat
        BY <1>s, <1>t, <1>q DEF Cut
      <4> QED
        BY <4>1, <1>s DEF Checked, Deepest
    <3>3. PICK j \in DOMAIN trail : trail[j].lit \in db[h].lits /\ NotAbove(j, i)
      BY <2>1, <3>1, <3>2 DEF CoreInv, WatchInv
    <3> QED
      BY <2>1, <3>3, <1>b2, <1>c, <1>k, <1>r
  <2>2. CASE h \notin DOMAIN db
    <3>1. PICK k \in ls \ {l} : db'[h].watches = {l, k} /\ LevelOf(k) = n
      BY <2>2, <1>r
    <3>2. Neg(trail[i].lit) # l
      <4> SUFFICES ASSUME Neg(trail[i].lit) = l PROVE FALSE
        OBVIOUS
      <4>1. trail[i].lit = trail[u].lit
        BY <1>k, <1>t, LitLaws
      <4>2. i = u
        BY <4>1, <1>a, <1>k, <1>t DEF TrailInv
      <4> QED
        BY <4>2, <1>s
    <3>3. k = Neg(trail[i].lit)
      BY <3>1, <3>2
    <3>4. LevelAt(i) = n
      <4>1. k \in Lit /\ trail[i].lit = Neg(k) /\ i \in DOMAIN trail
        BY <3>3, <1>k, <1>t, LitLaws
      <4> QED
        BY <4>1, <3>1, <1>a, FalseAt
    <3>5. c + 1 \in DOMAIN trail' /\ trail'[c + 1].lit \in db'[h].lits
      BY <2>2, <1>b2, <1>r, <1>s, <1>t
    <3> QED
      BY <3>4, <3>5, <1>e
  <2> QED
    BY <2>1, <2>2
<1>5. ConflictInv'
  BY <1>0 DEF ConflictInv
<1>6. ReasonInv'
  <2> DEFINE ok1(i) ==
        IF trail'[i].reason = NoReason
        THEN Root(i)' \/ \E m \in DOMAIN lims' : i = lims'[m] + 1
        ELSE /\ trail'[i].reason \in DOMAIN db' /\ trail'[i].lit \in db'[trail'[i].reason].lits
             /\ \A x \in db'[trail'[i].reason].lits \ {trail'[i].lit} : \E j \in 1 .. i - 1 : trail'[j].lit = Neg(x)
             /\ Root(i)' \/ \E j \in 1 .. i - 1 :
                  Neg(trail'[j].lit) \in db'[trail'[i].reason].lits /\ SameLevel(j, i)'
  <2>1. ASSUME NEW i \in 1 .. c, trail[i].reason = NoReason PROVE ok1(i)
    <3>1. ASSUME NEW m \in DOMAIN lims, i = lims[m] + 1 PROVE m \in DOMAIN lims' /\ lims'[m] = lims[m]
      <4>1. lims[m] \in Nat
        BY <1>a, Shape
      <4> QED
        BY <3>1, <4>1, <1>b1
    <3> QED
      BY <3>1, <2>1, <1>b2, <1>c, <1>k DEF CoreInv, ReasonInv
  <2>2. ASSUME NEW i \in 1 .. c, trail[i].reason # NoReason PROVE ok1(i)
    <3>1. \A j \in 1 .. i - 1 : j \in 1 .. c /\ trail'[j] = trail[j]
      BY <1>b2, <1>s
    <3>2. /\ trail[i].reason \in DOMAIN db /\ trail[i].lit \in db[trail[i].reason].lits
          /\ \A x \in db[trail[i].reason].lits \ {trail[i].lit} : \E j \in 1 .. i - 1 : trail[j].lit = Neg(x)
          /\ Root(i) \/ \E j \in 1 .. i - 1 : Neg(trail[j].lit) \in db[trail[i].reason].lits /\ SameLevel(j, i)
      BY <2>2, <1>k DEF CoreInv, ReasonInv
    <3>3. trail'[i] = trail[i] /\ db'[trail[i].reason] = db[trail[i].reason] /\ trail[i].reason \in DOMAIN db'
      BY <3>2, <1>b2, <1>r
    <3> QED
      BY <3>1, <3>2, <3>3, <2>2, <1>c
  <2>3. ok1(c + 1)
    <3>1. CASE r = NoReason
      BY <3>1, <1>b2, <1>g, <1>r, <1>s
    <3>2. CASE r # NoReason
      <4>1. r \in DOMAIN db' /\ db'[r].lits = ls
        BY <3>2, <1>r
      <4>2. PICK k \in ls \ {l} : LevelOf(k) = n
        BY <3>2, <1>r
      <4>3. (c + 1) - 1 = c /\ \A j \in 1 .. c : trail'[j] = trail[j]
        BY <1>b2, <1>s
      <4>4. PICK j \in 1 .. c : trail[j].lit = Neg(k) /\ LevelOf(k) = LevelAt(j)
        BY <1>s
      <4>5. SameLevel(j, c + 1)' /\ Neg(trail'[j].lit) \in ls
        <5>1. Neg(Neg(k)) = k
          BY <1>t, LitLaws
        <5> QED
          BY <5>1, <4>2, <4>3, <4>4, <1>e
      <4>6. \A x \in ls \ {l} : \E h \in 1 .. c : trail'[h].lit = Neg(x)
        BY <1>s, <4>3
      <4> QED
        BY <3>2, <4>1, <4>3, <4>5, <4>6, <1>b2, <1>t
    <3> QED
      BY <3>1, <3>2
  <2>4. \A i \in DOMAIN trail' : ok1(i)
    <3> HIDE DEF ok1
    <3> QED
      BY <2>1, <2>2, <2>3, <1>i
  <2> QED
    BY <2>4 DEF ReasonInv
<1>7. ImpliedInv'
  <2> SUFFICES ASSUME NEW m \in Models(Given)
               PROVE  /\ \A h \in DOMAIN db' : db'[h].lits # {} => SatClause(m, db'[h].lits)
                      /\ \A i \in DOMAIN trail' : Root(i)' => Satisfies(m, trail'[i].lit)
    BY <1>0 DEF ImpliedInv, Given
  <2>1. ASSUME NEW h \in DOMAIN db', db'[h].lits # {} PROVE SatClause(m, db'[h].lits)
    <3>1. CASE h \in DOMAIN db
      BY <2>1, <3>1, <1>r DEF CoreInv, ImpliedInv
    <3>2. CASE h \notin DOMAIN db
      BY <3>2, <1>r, <1>t
    <3> QED
      BY <3>1, <3>2
  <2>2. \A i \in 1 .. c : Root(i)' => Satisfies(m, trail'[i].lit)
    BY <1>b2, <1>c, <1>k DEF CoreInv, ImpliedInv
  <2>3. Root(c + 1)' => Satisfies(m, trail'[c + 1].lit)
    <3>1. ls = {l} => Satisfies(m, l)
      BY <1>t DEF SatClause
    <3> QED
      BY <3>1, <1>b2, <1>f
  <2> QED
    BY <2>1, <2>2, <2>3, <1>i
<1>8. KeptInv'
  <2> SUFFICES ASSUME ok, NEW g \in Given
               PROVE  \/ Tautology(g)
                      \/ \E i \in DOMAIN trail' : Root(i)' /\ trail'[i].lit \in g
                      \/ \E h \in DOMAIN db' : ~db'[h].learnt /\ db'[h].lits # {} /\ db'[h].lits \subseteq g
    BY <1>0 DEF KeptInv, Given
  <2>1. CASE \E i \in DOMAIN trail : Root(i) /\ trail[i].lit \in g
    BY <2>1, <1>b2, <1>c, <1>k
  <2>2. CASE \E h \in DOMAIN db : ~db[h].learnt /\ db[h].lits # {} /\ db[h].lits \subseteq g
    BY <2>2, <1>r
  <2> QED
    BY <2>1, <2>2 DEF CoreInv, KeptInv
<1> QED
  BY <1>1, <1>2, <1>3, <1>4, <1>5, <1>6, <1>7, <1>8, <1>h DEF CoreInv

\* So the search goes on after a conflict, and so does resolveUnit.
LEMMA LearnCore ==
  ASSUME CoreInv, conflict # 0, DecisionLevel > 0,
         \/ \E learnt \in {analyze(db[conflict].lits)} : AssertLit(learnt.lits, learnt.lit)
         \/ \E learnt \in {analyzeLastUIP(db[conflict].lits)} : AssertLit(learnt.lits, learnt.lit)
  PROVE  CoreInv' /\ lims' # lims
<1>1. PICK learnt : /\ learnt = analyze(db[conflict].lits) \/ learnt = analyzeLastUIP(db[conflict].lits)
                    /\ AssertLit(learnt.lits, learnt.lit)
  OBVIOUS
<1>2. PICK u \in DOMAIN trail : learnt.lit = Neg(trail[u].lit) /\ Asserting(learnt.lits, u)
  BY <1>1, LearntAsserts
<1>3. CoreInv'
  BY <1>1, <1>2, AssertCore
<1>4. lims' # lims
  <2>1. PICK n : n = BacktrackLevel(learnt.lits, learnt.lit)
    OBVIOUS
  <2>2. n \in Nat /\ n < DecisionLevel
    BY <1>2, <2>1, BacktrackIs
  <2>3. lims' = LimsAt(n)
    BY <1>1, <2>1 DEF AssertLit
  <2>4. Len(LimsAt(n)) = n
    BY <2>2, CutFacts DEF CoreInv
  <2> QED
    BY <2>2, <2>3, <2>4 DEF DecisionLevel
<1> QED
  BY <1>3, <1>4

-----------------------------------------------------------------------------
\* The assumptions to blame for a false one, above the root.
LEMMA CulpritsAre ==
  ASSUME CoreInv, NEW q \in Lit, NEW s \in DOMAIN trail, trail[s].lit = Neg(q), ~Root(s)
  PROVE  /\ Culprits(q) \subseteq Lit
         /\ \A x \in Culprits(q) : \E j \in DOMAIN trail : trail[j].lit = Neg(x)
         /\ \E j \in DOMAIN trail : Neg(trail[j].lit) \in Culprits(q) /\ SameLevel(j, s)
         /\ \A m \in Models(Given) : SatClause(m, {Neg(q)} \cup Culprits(q))
<1> DEFINE w == Resolvents({q})
<1>1. /\ DOMAIN trail = 1 .. Len(trail) /\ Len(trail) \in Nat /\ \A i \in DOMAIN trail : trail[i].lit \in Lit
  BY Shape DEF CoreInv
<1>2. {q} \in SUBSET Lit /\ FalseClause({q}) /\ Neg(trail[s].lit) \in {q}
  BY LitLaws DEF FalseClause
<1>3. \A i \in 0 .. Len(trail) : WalkOk(w, {q}, s, i)
  BY <1>2, WalkAll
<1>4. Culprits(q) = {Neg(trail[i].lit) : i \in {j \in DOMAIN trail : trail[j].reason = NoReason /\ Neg(trail[j].lit) \in w[j]}}
  BY DEF Culprits
<1> HIDE DEF w
<1>5. Culprits(q) \subseteq Lit
  BY <1>1, <1>4, LitLaws
<1>6. \A x \in Culprits(q) : \E j \in DOMAIN trail : trail[j].lit = Neg(x)
  BY <1>1, <1>4, LitLaws
<1>7. WalkOk(w, {q}, s, 0)
  BY <1>1, <1>3
<1>8. ASSUME NEW j \in DOMAIN trail, Neg(trail[j].lit) \in w[0] PROVE Neg(trail[j].lit) \in Culprits(q)
  <2>1. 0 < j
    BY <1>1
  <2>2. trail[j].reason = NoReason /\ Neg(trail[j].lit) \in w[j]
    BY <2>1, <1>7, <1>8 DEF WalkOk
  <2> QED
    BY <2>2, <1>4
<1>9. w[0] \subseteq Culprits(q)
  <2> SUFFICES ASSUME NEW x \in w[0] PROVE x \in Culprits(q)
    OBVIOUS
  <2>1. w[0] \subseteq Lit
    BY <1>1, <1>2, ResolventsAre DEF w
  <2>2. PICK j \in DOMAIN trail : trail[j].lit = Neg(x)
    BY <1>7 DEF WalkOk
  <2>3. x = Neg(trail[j].lit)
    BY <2>1, <2>2, LitLaws
  <2> QED
    BY <2>3, <1>8
<1>10. \E j \in DOMAIN trail : Neg(trail[j].lit) \in Culprits(q) /\ SameLevel(j, s)
  BY <1>7, <1>8 DEF WalkOk
<1>11. ASSUME NEW m \in Models(Given) PROVE SatClause(m, {Neg(q)} \cup Culprits(q))
  <2>1. CASE Satisfies(m, q)
    <3>1. SatClause(m, w[0])
      BY <2>1, <1>7 DEF WalkOk, SatClause
    <3> QED
      BY <3>1, <1>9 DEF SatClause
  <2>2. CASE ~Satisfies(m, q)
    BY <2>2, NegSatisfied DEF SatClause
  <2> QED
    BY <2>1, <2>2
<1> QED
  BY <1>5, <1>6, <1>10, <1>11

\* A clause is recorded, watched by a literal that is true and by one that is
\* not unassigned before it.
LEMMA RecordCore ==
  ASSUME CoreInv, NEW ls \in SUBSET Lit, NEW p \in ls, NEW last \in ls, p # last,
         NEW s \in DOMAIN trail, trail[s].lit = p,
         \A i \in DOMAIN trail : Neg(trail[i].lit) = last => NotAbove(s, i),
         \A m \in Models(Given) : SatClause(m, ls),
         db' = Append(db, [lits |-> ls, watches |-> {p, last}, learnt |-> TRUE]),
         UNCHANGED <<problem, added, ok, search, order>>
  PROVE  CoreInv'
<1> DEFINE n == Len(db) + 1
<1>0. /\ visiting' = visiting /\ conflict' = conflict /\ qhead' = qhead /\ trail' = trail
      /\ problem' = problem /\ added' = added /\ ok' = ok /\ lims' = lims
      /\ component' = component /\ heap' = heap
  BY DEF search, order
<1>b. /\ db' \in Seq(ClauseRecords) /\ Len(db) \in Nat
      /\ DOMAIN db = 1 .. Len(db) /\ DOMAIN db' = 1 .. Len(db) + 1
      /\ \A k \in DOMAIN db : db'[k] = db[k]
      /\ db'[n].lits = ls /\ db'[n].watches = {p, last} /\ db'[n].learnt = TRUE
  <2> DEFINE e == [lits |-> ls, watches |-> {p, last}, learnt |-> TRUE]
  <2>1. e.lits = ls /\ e.watches = {p, last} /\ e.learnt = TRUE /\ db' = Append(db, e)
    OBVIOUS
  <2>2. e \in ClauseRecords /\ db \in Seq(ClauseRecords)
    BY DEF ClauseRecords, CoreInv, CoreType
  <2> HIDE DEF e
  <2>3. /\ Append(db, e) \in Seq(ClauseRecords) /\ Len(db) \in Nat
        /\ DOMAIN db = 1 .. Len(db) /\ DOMAIN Append(db, e) = 1 .. Len(db) + 1
        /\ \A k \in DOMAIN db : Append(db, e)[k] = db[k]
        /\ Append(db, e)[Len(db) + 1] = e
    BY <2>2, Recorded
  <2> QED
    BY <2>1, <2>3
<1>c. \A k \in DOMAIN db : k \in DOMAIN db'
  BY <1>b
<1>e. \A k \in DOMAIN db' : k \notin DOMAIN db => k = n
  BY <1>b
<1>d. CoreType /\ TrailInv
  BY DEF CoreInv
<1>g. /\ \A i \in DOMAIN trail : trail[i].lit \in Lit
      /\ \A i : (Root(i)' <=> Root(i)) /\ (Checked(i)' <=> Checked(i))
      /\ \A i, j : (NotAbove(i, j)' <=> NotAbove(i, j)) /\ (SameLevel(i, j)' <=> SameLevel(i, j))
  BY <1>0, <1>d, Shape DEF Root, Checked, NotAbove, SameLevel, Deepest
<1>1. CoreType'
  <2>1. visiting' \in SUBSET DOMAIN db' /\ conflict' \in {0} \cup DOMAIN db'
    BY <1>0, <1>c, <1>d DEF CoreType
  <2> QED
    BY <1>0, <1>b, <1>d, <2>1 DEF CoreType
<1>2. TrailInv'
  BY <1>0, <1>d DEF TrailInv
<1>3. WatchesInv'
  <2>1. ASSUME NEW k \in DOMAIN db'
        PROVE  \/ db'[k].lits = {} /\ db'[k].watches = {}
               \/ \E a, b \in db'[k].lits : a # b /\ db'[k].watches = {a, b}
    <3>1. CASE k \in DOMAIN db
      BY <3>1, <1>b DEF CoreInv, WatchesInv
    <3>2. CASE k \notin DOMAIN db
      BY <3>2, <1>b, <1>e
    <3> QED
      BY <3>1, <3>2
  <2>2. \A k \in visiting : k \in DOMAIN db /\ FalseLit \in db[k].watches
    BY <1>d DEF CoreInv, CoreType, WatchesInv
  <2>3. FalseLit' = FalseLit
    BY <1>0 DEF FalseLit
  <2> QED
    BY <2>1, <2>2, <2>3, <1>0, <1>b DEF WatchesInv
<1>4. WatchInv'
  <2> SUFFICES ASSUME NEW k \in DOMAIN db', NEW i \in DOMAIN trail, Neg(trail[i].lit) \in db'[k].watches,
                      Checked(i), ~(k \in visiting /\ i = qhead)
               PROVE  \E j \in DOMAIN trail : trail[j].lit \in db'[k].lits /\ NotAbove(j, i)
    BY <1>0, <1>g DEF WatchInv
  <2>1. CASE k \in DOMAIN db
    BY <2>1, <1>b DEF CoreInv, WatchInv
  <2>2. CASE k \notin DOMAIN db
    <3>1. Neg(trail[i].lit) \in {p, last} /\ db'[k].lits = ls
      BY <2>2, <1>b, <1>e
    <3>2. Neg(trail[i].lit) # p
      <4>1. p \in Lit /\ IsTrue(p) /\ ~IsFalse(p)
        BY <1>d, Values
      <4>2. Neg(trail[i].lit) = p => trail[i].lit = Neg(p)
        BY <1>g, LitLaws
      <4> QED
        BY <4>1, <4>2, <1>d, Values
    <3> QED
      BY <3>1, <3>2
  <2> QED
    BY <2>1, <2>2
<1>5. ConflictInv'
  <2>1. conflict # 0 => conflict \in DOMAIN db /\ db'[conflict] = db[conflict]
    BY <1>b, <1>d DEF CoreType
  <2> QED
    BY <1>0, <2>1 DEF CoreInv, ConflictInv, IsFalse, TrueLits, Deepest
<1>6. ReasonInv'
  <2>1. \A i \in DOMAIN trail : trail[i].reason \in DOMAIN db => db'[trail[i].reason] = db[trail[i].reason] /\ trail[i].reason \in DOMAIN db'
    BY <1>b
  <2> QED
    BY <1>0, <2>1 DEF CoreInv, ReasonInv, SameLevel, Root
<1>7. HeapInv'
  BY <1>0 DEF CoreInv, HeapInv, Undefined, TrueLits
<1>8. ImpliedInv'
  <2> SUFFICES ASSUME NEW m \in Models(Given)
               PROVE  /\ \A k \in DOMAIN db' : db'[k].lits # {} => SatClause(m, db'[k].lits)
                      /\ \A i \in DOMAIN trail : Root(i) => Satisfies(m, trail[i].lit)
    BY <1>0, <1>g DEF ImpliedInv, Given
  <2>1. ASSUME NEW k \in DOMAIN db', db'[k].lits # {} PROVE SatClause(m, db'[k].lits)
    <3>1. CASE k \in DOMAIN db
      BY <2>1, <3>1, <1>b DEF CoreInv, ImpliedInv
    <3>2. CASE k \notin DOMAIN db
      BY <3>2, <1>b, <1>e
    <3> QED
      BY <3>1, <3>2
  <2> QED
    BY <2>1 DEF CoreInv, ImpliedInv
<1>9. KeptInv'
  BY <1>0, <1>b, <1>c, <1>g DEF CoreInv, KeptInv, Given
<1> QED
  BY <1>1, <1>2, <1>3, <1>4, <1>5, <1>6, <1>7, <1>8, <1>9 DEF CoreInv

\* analyzeFinal: the conflict among the assumptions is recorded.
LEMMA AssumeFalseCore == CoreInv /\ RestType /\ AssumeFalse => CoreInv' /\ Quiet'
<1> SUFFICES ASSUME CoreInv, RestType, AssumeFalse PROVE CoreInv' /\ Quiet'
  OBVIOUS
<1> DEFINE q == NextAssumption
           p == Neg(q)
           ls == Culprits(q)
           last == CHOOSE l \in ls : \A k \in ls : At(k) <= At(l)
<1>1. q \in Lit
  <2>1. assumptions \in Seq(Lit) /\ DecisionLevel \in Nat /\ DecisionLevel < Len(assumptions)
    BY Shape DEF AssumeFalse, Assuming, RestType, CoreInv, DecisionLevel
  <2>2. DecisionLevel + 1 \in DOMAIN assumptions
    BY <2>1
  <2> QED
    BY <2>1, <2>2 DEF NextAssumption
<1>2. /\ Quiet /\ IsFalse(q)
      /\ IF LevelOf(p) = 0
         THEN CancelUntil(0) /\ UNCHANGED db
         ELSE /\ db' = Append(db, [lits |-> {p} \cup ls, watches |-> {p, last}, learnt |-> TRUE])
              /\ UNCHANGED <<search, order>>
      /\ UNCHANGED <<problem, added, ok>>
  BY DEF AssumeFalse, Searching
<1>3. CASE LevelOf(p) = 0
  BY <1>2, <1>3, CancelCore DEF clauseVars
<1>4. CASE LevelOf(p) # 0
  <2>1. CoreType /\ TrailInv /\ p \in Lit
    BY <1>1, LitLaws DEF CoreInv
  <2>2. PICK s \in DOMAIN trail : trail[s].lit = p
    BY <1>1, <1>2, <2>1, Values
  <2>3. ~Root(s)
    <3>1. LevelOf(p) = LevelAt(s) /\ s \in Nat
      BY <2>1, <2>2, AtIs, Shape
    <3> QED
      BY <3>1, <2>1, <1>4, LevelsCompare
  <2> HIDE DEF q, ls, last
  <2>4. /\ ls \subseteq Lit
        /\ \A x \in ls : \E j \in DOMAIN trail : trail[j].lit = Neg(x)
        /\ \E j \in DOMAIN trail : Neg(trail[j].lit) \in ls /\ SameLevel(j, s)
        /\ \A m \in Models(Given) : SatClause(m, {p} \cup ls)
    BY <1>1, <2>2, <2>3, CulpritsAre DEF ls
  <2>5. DOMAIN trail = 1 .. Len(trail) /\ Len(trail) \in Nat /\ \A i \in DOMAIN trail : trail[i].lit \in Lit
    BY <2>1, Shape
  <2>6. \A x \in ls : \A j \in DOMAIN trail : trail[j].lit = Neg(x) => At(x) = j /\ Neg(trail[j].lit) = x
    BY <2>1, <2>4, FalseAt, LitLaws
  <2>7. last \in ls /\ \A k \in ls : At(k) <= At(last)
    <3> DEFINE T == {At(k) : k \in ls}
    <3>1. \A k \in ls : At(k) \in 0 .. Len(trail)
      BY <2>4, <2>5, <2>6
    <3>2. T \subseteq 0 .. Len(trail) /\ T # {}
      BY <3>1, <2>4
    <3>3. Max(T) \in T /\ \A x \in T : x <= Max(T)
      <4> HIDE DEF T
      <4> QED
        BY <3>2, <2>5, GreatestIn
    <3>4. PICK l \in ls : Max(T) = At(l)
      BY <3>3
    <3>5. \A k \in ls : At(k) <= At(l)
      BY <3>3, <3>4
    <3> QED
      BY <3>5 DEF last
  <2>8. p # last
    <3>1. IsTrue(p) /\ ~IsFalse(p)
      BY <2>1, <2>2, Values
    <3> QED
      BY <3>1, <2>1, <2>4, <2>7, Values
  <2>9. ASSUME NEW i \in DOMAIN trail, Neg(trail[i].lit) = last PROVE NotAbove(s, i)
    <3>1. trail[i].lit = Neg(last)
      BY <2>5, <2>9, LitLaws
    <3>2. At(last) = i
      BY <3>1, <2>6, <2>7
    <3>3. PICK j \in DOMAIN trail : Neg(trail[j].lit) \in ls /\ SameLevel(j, s)
      BY <2>4
    <3>4. trail[j].lit = Neg(Neg(trail[j].lit))
      BY <2>5, LitLaws
    <3>5. At(Neg(trail[j].lit)) = j
      BY <3>3, <3>4, <2>6
    <3>6. j <= i
      BY <3>2, <3>3, <3>5, <2>7
    <3>7. /\ \A n \in DOMAIN lims : lims[n] < j <=> lims[n] < s
          /\ \A n \in DOMAIN lims : lims[n] \in Nat
          /\ j \in Nat /\ i \in Nat
      BY <3>3, <2>1, <2>5, Shape DEF SameLevel
    <3> QED
      BY <3>6, <3>7 DEF NotAbove
  <2>10. CoreInv'
    <3>1. {p} \cup ls \in SUBSET Lit /\ p \in {p} \cup ls /\ last \in {p} \cup ls
      BY <2>1, <2>4, <2>7
    <3> HIDE DEF p
    <3> QED
      BY <3>1, <2>2, <2>4, <2>8, <2>9, <1>2, <1>4, RecordCore
  <2>11. Quiet'
    BY <1>2, <1>4 DEF Quiet, search
  <2> QED
    BY <2>10, <2>11
<1> QED
  BY <1>3, <1>4

-----------------------------------------------------------------------------
\* Nothing of the solver changes.
LEMMA SameCore ==
  ASSUME CoreInv, UNCHANGED <<problem, clauseVars, search, order>>
  PROVE  CoreInv' /\ (Quiet' <=> Quiet) /\ DecisionLevel' = DecisionLevel
<1>0. /\ visiting' = visiting /\ conflict' = conflict /\ qhead' = qhead /\ trail' = trail
      /\ problem' = problem /\ added' = added /\ ok' = ok /\ lims' = lims /\ db' = db
      /\ component' = component /\ heap' = heap
  BY DEF search, order, clauseVars
<1>1. CoreType' /\ TrailInv' /\ WatchesInv' /\ WatchInv'
  BY <1>0 DEF CoreInv, CoreType, TrailInv, WatchesInv, FalseLit, WatchInv, Checked, Deepest, NotAbove
<1>2. ConflictInv' /\ ReasonInv' /\ HeapInv'
  BY <1>0 DEF CoreInv, ConflictInv, ReasonInv, HeapInv, IsFalse, TrueLits, Undefined, Deepest, Root, SameLevel
<1>3. ImpliedInv' /\ KeptInv'
  BY <1>0 DEF CoreInv, ImpliedInv, KeptInv, Given, Root
<1> QED
  BY <1>0, <1>1, <1>2, <1>3 DEF CoreInv, Quiet, DecisionLevel

\* Another component, with all of its variables to decide.
LEMMA SolveCore ==
  ASSUME CoreInv, NEW as, NEW vs \in SUBSET Var, Solve(as, vs)
  PROVE  CoreInv'
<1>0. /\ visiting' = visiting /\ conflict' = conflict /\ qhead' = qhead /\ trail' = trail
      /\ problem' = problem /\ added' = added /\ ok' = ok /\ lims' = lims /\ db' = db
      /\ component' = vs /\ heap' = vs
  BY DEF Solve, search, clauseVars
<1>1. CoreType' /\ TrailInv' /\ WatchesInv' /\ WatchInv'
  BY <1>0 DEF CoreInv, CoreType, TrailInv, WatchesInv, FalseLit, WatchInv, Checked, Deepest, NotAbove
<1>2. ConflictInv' /\ ReasonInv' /\ HeapInv'
  BY <1>0 DEF CoreInv, ConflictInv, ReasonInv, HeapInv, IsFalse, TrueLits, Undefined, Deepest, Root, SameLevel
<1>3. ImpliedInv' /\ KeptInv'
  BY <1>0 DEF CoreInv, ImpliedInv, KeptInv, Given, Root
<1> QED
  BY <1>1, <1>2, <1>3 DEF CoreInv

\* While there is something to propagate no caller is served.
LEMMA PropagateRest ==
  ASSUME RestInv, ~Quiet, UNCHANGED <<problem, added, ok, lims, component, mode, sat, callers, extra>>
  PROVE  RestInv'
<1> USE DEF RestInv, callers
<1>1. RestType'
  BY DEF RestType
<1>2. ModeInv'
  BY DEF ModeInv, RestType, DecisionLevel
<1>3. SatInv'
  BY DEF SatInv, Formula
<1> QED
  BY <1>1, <1>2, <1>3

\* While clauses are added there is no call.
LEMMA AddRest ==
  ASSUME RestInv, mode = "add", UNCHANGED <<lims, component, mode, sat, callers, extra>>
  PROVE  RestInv'
<1> USE DEF RestInv, callers
<1>1. RestType'
  BY DEF RestType
<1>2. ModeInv'
  BY DEF ModeInv
<1>3. SatInv'
  BY DEF SatInv, ModeInv
<1> QED
  BY <1>1, <1>2, <1>3

\* During the search the caller waits.
LEMMA SearchRest ==
  ASSUME RestInv, mode = "search", UNCHANGED <<problem, added, ok, component, mode, sat, callers>>, extra' \in Nat
  PROVE  RestInv'
<1> USE DEF RestInv, callers
<1>1. RestType'
  BY DEF RestType
<1>2. ModeInv'
  BY DEF ModeInv
<1>3. SatInv'
  BY DEF SatInv, Formula
<1> QED
  BY <1>1, <1>2, <1>3

\* Every clause of the formula is given.
LEMMA GivenAll ==
  ASSUME CoreType, ModeInv, mode # "add", ok
  PROVE  Given = Formula
<1>1. problem.clauses \in Seq(SUBSET Lit) /\ added = Len(problem.clauses)
  BY ProblemsAssumption DEF CoreType, ModeInv
<1>2. DOMAIN problem.clauses = 1 .. added
  BY <1>1
<1> QED
  BY <1>2 DEF Given, Formula, ToSet

\* The clauses given are over the literals.
LEMMA GivenAre ==
  ASSUME CoreType
  PROVE  \A c \in Given : c \subseteq Lit
<1>1. problem.clauses \in Seq(SUBSET Lit) /\ added \in 0 .. Len(problem.clauses)
  BY ProblemsAssumption DEF CoreType
<1>2. \A i \in 1 .. added : problem.clauses[i] \in SUBSET Lit
  BY <1>1
<1> QED
  BY <1>2 DEF Given

\* A conflict at the root leaves no model.
LEMMA NoModel ==
  ASSUME CoreInv, conflict # 0, DecisionLevel = 0
  PROVE  Models(Given) = {}
<1> SUFFICES ASSUME NEW m \in Models(Given) PROVE FALSE
  OBVIOUS
<1>1. conflict \in DOMAIN db /\ db[conflict].lits \subseteq Lit
  BY Shape DEF CoreInv, CoreType
<1>2. db[conflict].lits # {}
  BY DEF CoreInv, ConflictInv
<1>3. PICK x \in db[conflict].lits : Satisfies(m, x)
  BY <1>1, <1>2 DEF CoreInv, ImpliedInv, SatClause
<1>4. x \in Lit /\ IsFalse(x)
  BY <1>1 DEF CoreInv, ConflictInv
<1>5. PICK i \in DOMAIN trail : trail[i].lit = Neg(x)
  BY <1>4, Values DEF CoreInv
<1>6. Root(i)
  <2>1. DOMAIN lims = {}
    BY Shape DEF CoreInv, DecisionLevel
  <2> QED
    BY <2>1 DEF Root
<1>7. Satisfies(m, Neg(x))
  BY <1>5, <1>6 DEF CoreInv, ImpliedInv
<1> QED
  BY <1>3, <1>4, <1>7, NegSatisfied

\* With every variable assigned and all propagated there is a model.
LEMMA ModelFound ==
  ASSUME CoreInv, Quiet, ok, component = Var, ToDecide = {}
  PROVE  Models(Given) # {}
<1> DEFINE m == {v \in Var : PosLit(v) \in TrueLits}
<1>1. CoreType /\ TrailInv
  BY DEF CoreInv
<1>2. \A l \in Lit : IsTrue(l) \/ IsFalse(l)
  <2> SUFFICES ASSUME NEW l \in Lit PROVE ~Undefined(VarOf(l))
    BY <1>1, Values
  <2>1. VarOf(l) \in component
    BY LitLaws
  <2> QED
    BY <2>1 DEF CoreInv, HeapInv, ToDecide
<1>3. ASSUME NEW l \in Lit, IsTrue(l) PROVE Satisfies(m, l)
  <2>1. VarOf(l) \in Var
    BY LitLaws
  <2>2. CASE l % 2 = 0
    <3>1. PosLit(VarOf(l)) = l
      BY <2>2, NumVarsAssumption DEF PosLit, VarOf, Lit
    <3> QED
      BY <2>1, <2>2, <3>1, <1>3 DEF Satisfies, IsTrue
  <2>3. CASE l % 2 # 0
    <3>1. PosLit(VarOf(l)) = Neg(l)
      BY <2>3, NumVarsAssumption DEF PosLit, VarOf, Lit, Neg
    <3>2. ~IsFalse(l)
      BY <1>1, <1>3, Values
    <3>3. PosLit(VarOf(l)) \notin TrueLits
      BY <3>1, <3>2 DEF IsFalse
    <3> QED
      BY <2>3, <3>3 DEF Satisfies
  <2> QED
    BY <2>2, <2>3
<1> HIDE DEF m
<1>4. ASSUME NEW k \in DOMAIN db, db[k].lits # {} PROVE \E l \in db[k].lits : IsTrue(l)
  <2>1. PICK a, b \in db[k].lits : a # b /\ db[k].watches = {a, b}
    BY <1>4 DEF CoreInv, WatchesInv
  <2>2. a \in Lit /\ db[k].lits \subseteq Lit
    BY <2>1, <1>1, Shape
  <2>3. CASE IsTrue(a)
    BY <2>3
  <2>4. CASE IsFalse(a)
    <3>1. PICK i \in DOMAIN trail : trail[i].lit = Neg(a)
      BY <2>2, <2>4, <1>1, Values
    <3>2. Neg(trail[i].lit) \in db[k].watches
      BY <2>1, <2>2, <3>1, LitLaws
    <3>3. Checked(i) /\ k \notin visiting
      BY <1>1, Shape DEF Quiet, Checked
    <3>4. PICK j \in DOMAIN trail : trail[j].lit \in db[k].lits
      BY <3>2, <3>3 DEF CoreInv, WatchInv
    <3> QED
      BY <3>4, <2>2, <1>1, Values
  <2> QED
    BY <2>2, <2>3, <2>4, <1>2
<1>5. ASSUME NEW c \in Given PROVE SatClause(m, c)
  <2>1. c \subseteq Lit
    BY <1>1, GivenAre
  <2>2. CASE Tautology(c)
    BY <2>1, <2>2, NegSatisfied DEF Tautology, SatClause
  <2>3. CASE \E i \in DOMAIN trail : Root(i) /\ trail[i].lit \in c
    <3>1. PICK i \in DOMAIN trail : trail[i].lit \in c
      BY <2>3
    <3>2. trail[i].lit \in Lit /\ IsTrue(trail[i].lit)
      BY <2>1, <3>1, <1>1, Values
    <3> QED
      BY <3>1, <3>2, <1>3 DEF SatClause
  <2>4. CASE \E k \in DOMAIN db : ~db[k].learnt /\ db[k].lits # {} /\ db[k].lits \subseteq c
    <3>1. PICK k \in DOMAIN db : db[k].lits # {} /\ db[k].lits \subseteq c
      BY <2>4
    <3>2. PICK l \in db[k].lits : IsTrue(l)
      BY <3>1, <1>4
    <3> QED
      BY <2>1, <3>1, <3>2, <1>3 DEF SatClause
  <2> QED
    BY <2>2, <2>3, <2>4 DEF CoreInv, KeptInv
<1>6. m \in Assignments
  BY DEF m, Assignments
<1> QED
  BY <1>5, <1>6 DEF Models

-----------------------------------------------------------------------------
(* The actions, one by one. *)

\* propagate.
LEMMA PropagateStep ==
  ASSUME SolverInv,
         \/ TakeLiteral
         \/ \E k \in DOMAIN db : VisitSatisfied(k) \/ VisitMove(k) \/ VisitUnit(k) \/ VisitConflict(k)
  PROVE  SolverInv'
<1> USE DEF SolverInv
<1>1. CoreInv'
  BY TakeLiteralCore, VisitSatisfiedCore, VisitMoveCore, VisitUnitCore, VisitConflictCore
<1>2. ~Quiet /\ UNCHANGED <<problem, added, ok, lims, component, mode, sat, callers, extra>>
  <2>1. CASE TakeLiteral
    <3>1. qhead \in Nat /\ Len(trail) \in Nat
      BY Shape DEF CoreInv, CoreType
    <3> QED
      BY <2>1, <3>1 DEF TakeLiteral, Propagating, Quiet, clauseVars, order, callers
  <2>2. ASSUME NEW k \in DOMAIN db, VisitSatisfied(k) \/ VisitMove(k) \/ VisitUnit(k) \/ VisitConflict(k)
        PROVE  ~Quiet /\ UNCHANGED <<problem, added, ok, lims, component, mode, sat, callers, extra>>
    BY <2>2 DEF VisitSatisfied, VisitMove, VisitUnit, VisitConflict, OnlyVisited, NoOther, Quiet,
                clauseVars, order, callers
  <2> QED
    BY <2>1, <2>2
<1>3. RestInv'
  BY <1>2, PropagateRest
<1> QED
  BY <1>1, <1>3

\* addClause_.
LEMMA AddStep ==
  ASSUME SolverInv, AddClause \/ AddUnit \/ AddNothing \/ AddConflict
  PROVE  SolverInv'
<1> USE DEF SolverInv
<1>1. CoreInv'
  BY AddClauseCore, AddUnitCore, AddNothingCore, AddConflictCore DEF RestInv
<1>2. mode = "add" /\ UNCHANGED <<lims, component, mode, sat, callers, extra>>
  BY DEF AddClause, AddUnit, AddNothing, AddConflict, AddUnchanged, Adding, search, order, callers
<1>3. RestInv'
  BY <1>2, AddRest
<1> QED
  BY <1>1, <1>3

\* The formula is refuted while it is read.
LEMMA AddedUnsatStep ==
  ASSUME SolverInv, AddedUnsat
  PROVE  SolverInv'
<1> USE DEF SolverInv
<1>1. CoreInv'
  BY SameCore DEF AddedUnsat
<1>2. RestType'
  BY DEF RestInv, RestType, AddedUnsat, Answer, callers
<1>3. ModeInv'
  BY DEF RestInv, ModeInv, AddedUnsat, Answer, callers, clauseVars, order, search
<1>4. SatInv'
  BY DEF RestInv, SatInv, ModeInv, AddedUnsat, Answer, callers
<1> QED
  BY <1>1, <1>2, <1>3, <1>4 DEF RestInv

\* The call of the constructor.
LEMMA FirstCallStep ==
  ASSUME SolverInv, FirstCall
  PROVE  SolverInv'
<1> USE DEF SolverInv
<1>1. CoreInv'
  BY SolveCore DEF FirstCall
<1>0. /\ mode = "add" /\ calls = 0 /\ frames = <<>> /\ ok /\ added = Len(problem.clauses)
      /\ assumptions' = <<>> /\ component' = Var /\ calls' = 1 /\ mode' = "search"
      /\ UNCHANGED <<problem, added, ok, sat, frames, extra>>
  BY DEF FirstCall, Solve, AddedAll, RestInv, ModeInv, clauseVars
<1>2. RestType'
  BY <1>0 DEF RestInv, RestType
<1>3. ModeInv'
  BY <1>0 DEF ModeInv
<1>4. SatInv'
  BY <1>0 DEF SatInv
<1> QED
  BY <1>1, <1>2, <1>3, <1>4 DEF RestInv

\* A conflict at the root: the formula has no model, so the driver has no frame yet.
LEMMA RootConflictStep ==
  ASSUME SolverInv, RootConflict
  PROVE  SolverInv'
<1> USE DEF SolverInv
<1>0. /\ mode = "search" /\ mode' = "answered" /\ sat' = FALSE /\ conflict # 0 /\ DecisionLevel = 0
      /\ UNCHANGED <<problem, added, ok, component, assumptions, frames, calls, extra>>
  BY DEF RootConflict, Answer, callers, order, clauseVars
<1>1. CoreInv'
  BY SameCore DEF RootConflict
<1>2. frames = <<>>
  <2>1. Models(Given) = {}
    BY <1>0, NoModel
  <2>2. Given = Formula
    BY <1>0, GivenAll DEF CoreInv, RestInv, ModeInv
  <2> QED
    BY <2>1, <2>2 DEF RestInv, SatInv
<1>3. RestType'
  BY <1>0 DEF RestInv, RestType
<1>4. ModeInv'
  BY <1>0, <1>2 DEF RestInv, ModeInv
<1>5. SatInv'
  BY <1>0 DEF RestInv, SatInv, Formula
<1> QED
  BY <1>1, <1>3, <1>4, <1>5 DEF RestInv

\* The assumption of the next level.
LEMMA NextAssumed ==
  ASSUME CoreInv, RestType, Assuming
  PROVE  NextAssumption \in Lit /\ assumptions # <<>>
<1>1. assumptions \in Seq(Lit) /\ DecisionLevel \in Nat /\ DecisionLevel < Len(assumptions)
  BY Shape DEF Assuming, RestType, CoreInv, DecisionLevel
<1>2. DecisionLevel + 1 \in DOMAIN assumptions
  BY <1>1
<1> QED
  BY <1>1, <1>2 DEF NextAssumption

\* A level for the next assumption.
LEMMA LevelCore ==
  ASSUME CoreInv, RestType, Quiet, AssumeTrue \/ AssumeDecide
  PROVE  CoreInv' /\ UNCHANGED <<problem, clauseVars, order, mode, sat, callers, extra>>
<1>1. UNCHANGED <<problem, clauseVars, order, mode, sat, callers, extra>>
  BY DEF AssumeTrue, AssumeDecide
<1>2. CASE AssumeTrue
  BY <1>1, <1>2, NewLevelCore DEF AssumeTrue
<1>3. CASE AssumeDecide
  <2>1. NextAssumption \in Lit /\ Undefined(VarOf(NextAssumption)) /\ DecideLit(NextAssumption)
    BY <1>3, NextAssumed DEF AssumeDecide
  <2>2. UNCHANGED <<problem, clauseVars, component>> /\ heap' = heap
    BY <1>1 DEF order
  <2> QED
    BY <1>1, <2>1, <2>2, DecideCore
<1> QED
  BY <1>1, <1>2, <1>3

\* The loop of search.
LEMMA SearchStep ==
  ASSUME SolverInv, Learn \/ Restart \/ SearchSimplify \/ ReduceDB \/ SearchAssume \/ Pick
  PROVE  SolverInv'
<1> USE DEF SolverInv
<1>e. extra \in Nat
  BY DEF RestInv, RestType
<1>1. CASE Learn
  <2>1. CoreInv'
    BY <1>1, LearnCore DEF Learn
  <2>2. mode = "search" /\ UNCHANGED <<problem, added, ok, component, mode, sat, callers, extra>>
    BY <1>1 DEF Learn, AssertLit
  <2> QED
    BY <2>1, <2>2, <1>e, SearchRest
<1>2. CASE Restart
  <2>1. PICK n : n = Len(assumptions)
    OBVIOUS
  <2>2. n \in Nat
    BY <2>1 DEF RestInv, RestType
  <2>3. CoreInv'
    BY <1>2, <2>1, <2>2, CancelCore DEF Restart, Searching
  <2>4. mode = "search" /\ UNCHANGED <<problem, added, ok, component, mode, sat, callers>> /\ extra' \in Nat
    BY <1>2, <1>e DEF Restart, Searching, CancelUntil, clauseVars
  <2> QED
    BY <2>3, <2>4, SearchRest
<1>3. CASE SearchSimplify
  <2>1. lims = <<>>
    BY <1>3 DEF SearchSimplify, DecisionLevel, CoreInv, CoreType
  <2>2. CoreInv'
    BY <1>3, <2>1, SimplifyCore DEF SearchSimplify, Searching
  <2>3. mode = "search" /\ UNCHANGED <<problem, added, ok, component, mode, sat, callers, extra>>
    BY <1>3 DEF SearchSimplify, Searching, Simplify
  <2> QED
    BY <2>2, <2>3, <1>e, SearchRest
<1>4. CASE ReduceDB
  <2>1. CoreInv'
    BY <1>4, ReduceCore
  <2>2. mode = "search" /\ UNCHANGED <<problem, added, ok, component, mode, sat, callers>> /\ extra' \in Nat
    BY <1>4, <1>e DEF ReduceDB, Searching, order
  <2> QED
    BY <2>1, <2>2, SearchRest
<1>5. CASE SearchAssume
  <2>1. CoreInv' /\ UNCHANGED <<problem, clauseVars, order, mode, sat, callers, extra>> /\ mode = "search"
    BY <1>5, LevelCore DEF SearchAssume, Searching, RestInv
  <2> QED
    BY <2>1, <1>e, SearchRest DEF clauseVars, order
<1>6. CASE Pick
  <2>1. /\ Quiet /\ mode = "search"
        /\ UNCHANGED <<problem, clauseVars, component, mode, sat, callers, extra>>
    BY <1>6 DEF Pick, Searching
  <2>2. PICK v \in ToDecide, sign \in problem.phases :
          DecideLit(IF sign THEN NegLit(v) ELSE PosLit(v)) /\ heap' = heap \ {v}
    BY <1>6 DEF Pick
  <2>3. PICK l : l = IF sign THEN NegLit(v) ELSE PosLit(v)
    OBVIOUS
  <2>4. v \in Var /\ Undefined(v)
    BY DEF ToDecide, CoreInv, CoreType
  <2>5. l \in Lit /\ VarOf(l) = v
    BY <2>3, <2>4, LitLaws
  <2>6. CoreInv'
    BY <2>1, <2>2, <2>3, <2>4, <2>5, DecideCore
  <2> QED
    BY <2>1, <2>6, <1>e, SearchRest DEF clauseVars
<1> QED
  BY <1>1, <1>2, <1>3, <1>4, <1>5, <1>6

\* An assumption is false: only with an assumption, which the driver takes back.
LEMMA AssumeFalseStep ==
  ASSUME SolverInv, AssumeFalse
  PROVE  SolverInv'
<1> USE DEF SolverInv
<1>1. CoreInv' /\ Quiet'
  BY AssumeFalseCore DEF RestInv
<1>2. assumptions # <<>>
  BY NextAssumed DEF AssumeFalse, RestInv
<1>3. /\ mode = "search" /\ mode' = "answered" /\ sat' = FALSE
      /\ UNCHANGED <<problem, added, ok, component, assumptions, frames, calls, extra>>
  BY DEF AssumeFalse, Searching, Answer, callers, CancelUntil, order
<1>4. RestType'
  BY <1>3 DEF RestInv, RestType
<1>5. ModeInv'
  BY <1>1, <1>2, <1>3 DEF RestInv, ModeInv, Quiet
<1>6. SatInv'
  BY <1>3 DEF RestInv, SatInv, Formula
<1> QED
  BY <1>1, <1>4, <1>5, <1>6 DEF RestInv

\* All of the component is decided: at the first call the trail is a model.
LEMMA SatisfiableStep ==
  ASSUME SolverInv, Satisfiable
  PROVE  SolverInv'
<1> USE DEF SolverInv
<1>0. /\ mode = "search" /\ Quiet /\ ToDecide = {} /\ mode' = "answered" /\ sat' = TRUE /\ ok /\ calls > 0
      /\ UNCHANGED <<problem, clauseVars, component, assumptions, frames, calls, extra>>
  BY DEF Satisfiable, Searching, Answer, callers, CancelUntil, RestInv, ModeInv
<1>1. PICK n : n = Len(assumptions)
  OBVIOUS
<1>2. n \in Nat
  BY <1>1 DEF RestInv, RestType
<1>3. CancelUntil(n)
  BY <1>1 DEF Satisfiable
<1>4. CoreInv' /\ Quiet'
  BY <1>0, <1>2, <1>3, CancelCore
<1>5. DecisionLevel' <= Len(assumptions')
  <2>1. lims' = LimsAt(n) /\ Len(LimsAt(n)) = IF n < DecisionLevel THEN n ELSE DecisionLevel
    BY <1>2, <1>3, CutFacts DEF CoreInv, CancelUntil
  <2>2. DecisionLevel \in Nat
    BY Shape DEF CoreInv, DecisionLevel
  <2> QED
    BY <2>1, <2>2, <1>0, <1>1, <1>2 DEF DecisionLevel
<1>6. Models(Formula) # {}
  <2>1. CASE calls > 1
    BY <2>1 DEF RestInv, SatInv
  <2>2. CASE ~(calls > 1)
    <3>1. calls = 1
      BY <2>2, <1>0 DEF RestInv, RestType
    <3>2. component = Var /\ Given = Formula
      BY <3>1, <1>0, GivenAll DEF RestInv, ModeInv, CoreInv
    <3> QED
      BY <3>2, <1>0, ModelFound
  <2> QED
    BY <2>1, <2>2
<1>7. RestType'
  BY <1>0 DEF RestInv, RestType
<1>8. ModeInv'
  BY <1>0, <1>4, <1>5 DEF RestInv, ModeInv, Quiet, clauseVars
<1>9. SatInv'
  BY <1>0, <1>6 DEF SatInv, Formula
<1> QED
  BY <1>4, <1>7, <1>8, <1>9 DEF RestInv

\* The driver goes on after a positive answer.
LEMMA AnsweredStep ==
  ASSUME SolverInv, Constructed \/ SolveAgain \/ CollectUnit
  PROVE  SolverInv'
<1> USE DEF SolverInv
<1>0. /\ mode = "answered" /\ sat /\ mode' = "idle" /\ sat' = sat
      /\ UNCHANGED <<problem, added, ok, component, assumptions, calls, extra>>
  BY DEF Constructed, SolveAgain, CollectUnit, Simplify, order, clauseVars, callers
<1>1. Quiet /\ ok /\ calls > 0 /\ DecisionLevel <= Len(assumptions)
  BY <1>0 DEF RestInv, ModeInv
<1>2. CoreInv' /\ Quiet'
  <2>1. CASE UNCHANGED <<problem, clauseVars, search, order>>
    BY <2>1, <1>1, SameCore
  <2>2. CASE Constructed /\ Simplify
    <3>1. assumptions = <<>>
      BY <2>2 DEF Constructed, RestInv, ModeInv
    <3>2. lims = <<>>
      BY <3>1, <1>1 DEF DecisionLevel, CoreInv, CoreType
    <3> QED
      BY <2>2, <3>2, <1>1, SimplifyCore
  <2> QED
    BY <2>1, <2>2 DEF Constructed, SolveAgain, CollectUnit
<1>3. frames' \in Seq([vars : SUBSET Var, lits : SUBSET Lit])
  <2>1. frames \in Seq([vars : SUBSET Var, lits : SUBSET Lit])
    BY DEF RestInv, RestType
  <2>2. CASE UNCHANGED frames
    BY <2>1, <2>2
  <2>3. CASE CollectUnit
    <3> DEFINE e == [vars |-> component, lits |-> {l \in TrueLits : VarOf(l) \in component}]
    <3>1. TrueLits \subseteq Lit /\ component \subseteq Var
      BY Shape DEF TrueLits, LitsOf, CoreInv, CoreType
    <3>2. e \in [vars : SUBSET Var, lits : SUBSET Lit]
      BY <3>1
    <3>3. frames' = Append(frames, e)
      BY <2>3 DEF CollectUnit
    <3> HIDE DEF e
    <3> QED
      BY <2>1, <3>2, <3>3, AppendProperties
  <2> QED
    BY <2>2, <2>3 DEF Constructed, SolveAgain, Simplify, callers
<1>4. RestType'
  BY <1>0, <1>3 DEF RestInv, RestType
<1>5. ModeInv'
  BY <1>0, <1>1, <1>2 DEF RestInv, ModeInv, Quiet
<1>6. SatInv'
  BY <1>0 DEF RestInv, SatInv, Formula
<1> QED
  BY <1>2, <1>4, <1>5, <1>6 DEF RestInv

\* A call of the driver, for the formula or for a branch.
LEMMA CallStep ==
  ASSUME SolverInv, RootCall \/ Branch
  PROVE  SolverInv'
<1> USE DEF SolverInv
<1>1. PICK as, vs : Solve(as, vs) /\ as \in Seq(Lit) /\ vs \in SUBSET Var /\ mode = "idle"
  <2>1. CASE RootCall
    <3>1. <<>> \in Seq(Lit) /\ Var \in SUBSET Var
      BY EmptySeq
    <3>2. Solve(<<>>, Var) /\ mode = "idle"
      BY <2>1 DEF RootCall
    <3> QED
      BY <3>1, <3>2
  <2>2. CASE Branch
    <3>0. PICK v \in Var : \E l \in {PosLit(v), NegLit(v)} : Solve(Append(assumptions, l), Connected(v))
      BY <2>2 DEF Branch
    <3>1. PICK l \in {PosLit(v), NegLit(v)} : Solve(Append(assumptions, l), Connected(v))
      BY <3>0
    <3>2. l \in Lit /\ assumptions \in Seq(Lit)
      BY LitLaws DEF RestInv, RestType
    <3>3. Append(assumptions, l) \in Seq(Lit)
      BY <3>2, AppendProperties
    <3>4. Connected(v) \in SUBSET Var
      BY DEF Connected
    <3> QED
      BY <2>2, <3>1, <3>3, <3>4 DEF Branch, InFrame
  <2> QED
    BY <2>1, <2>2
<1>2. CoreInv'
  BY <1>1, SolveCore
<1>3. /\ mode = "idle" /\ mode' = "search" /\ calls' = calls + 1 /\ assumptions' = as /\ component' = vs
      /\ UNCHANGED <<problem, added, ok, sat, frames, extra>>
  BY <1>1 DEF Solve, clauseVars
<1>4. /\ ok /\ calls \in Nat /\ calls > 0 /\ sat \in BOOLEAN /\ extra \in Nat
      /\ frames \in Seq([vars : SUBSET Var, lits : SUBSET Lit])
      /\ added = Len(problem.clauses)
  BY <1>3 DEF RestInv, RestType, ModeInv
<1>n. calls' \in Nat /\ calls' > 0 /\ calls' # 1
  BY <1>3, <1>4
<1>a. as \in Seq(Lit)
  BY <1>1
<1>5. RestType'
  BY <1>a, <1>3, <1>4, <1>n DEF RestType
<1>6. ModeInv'
  BY <1>3, <1>4, <1>n DEF ModeInv
<1>7. SatInv'
  BY <1>3 DEF RestInv, SatInv, Formula
<1> QED
  BY <1>2, <1>5, <1>6, <1>7 DEF RestInv

\* All but the last of a sequence.
LEMMA FrontIs ==
  ASSUME NEW T, NEW s \in Seq(T), s # <<>>
  PROVE  Front(s) \in Seq(T) /\ Len(s) - 1 \in Nat /\ Len(Front(s)) = Len(s) - 1
<1>1. Len(s) \in Nat /\ Len(s) # 0 /\ DOMAIN s = 1 .. Len(s)
  BY EmptySeq
<1>2. Len(s) - 1 \in 0 .. Len(s)
  BY <1>1
<1> QED
  BY <1>1, <1>2, SubSeqProperties DEF Front

\* The driver takes back the assumption of a branch that is false.
LEMMA UnsatisfiableStep ==
  ASSUME SolverInv, Unsatisfiable
  PROVE  SolverInv'
<1> USE DEF SolverInv
<1>0. /\ mode = "answered" /\ ~sat /\ frames # <<>> /\ mode' = "idle"
      /\ Quiet /\ ok /\ assumptions # <<>> /\ calls > 0 /\ calls # 1
      /\ assumptions' = Front(assumptions)
      /\ UNCHANGED <<problem, clauseVars, component, sat, frames, calls, extra>>
  BY DEF Unsatisfiable, CancelUntil, RestInv, ModeInv
<1>1. assumptions \in Seq(Lit) /\ assumptions' \in Seq(Lit) /\ Len(assumptions) - 1 \in Nat
  BY <1>0, FrontIs DEF RestInv, RestType
<1>2. PICK n \in Nat : n = Len(assumptions) - 1
  BY <1>1
<1>3. CoreInv' /\ Quiet'
  BY <1>0, <1>2, CancelCore DEF Unsatisfiable
<1>4. RestType'
  BY <1>0, <1>1 DEF RestInv, RestType
<1>5. ModeInv'
  BY <1>0, <1>3 DEF RestInv, ModeInv, Quiet, clauseVars
<1>6. SatInv'
  BY <1>0 DEF RestInv, SatInv, Formula
<1> QED
  BY <1>3, <1>4, <1>5, <1>6 DEF RestInv

\* interCollectUnit tries a literal.
LEMMA ProbeStep ==
  ASSUME SolverInv, Probe
  PROVE  SolverInv'
<1> USE DEF SolverInv
<1>0. /\ mode = "idle" /\ frames # <<>> /\ mode' = "probe" /\ extra' = extra + 1 /\ Quiet /\ ok /\ calls > 0
      /\ UNCHANGED <<problem, clauseVars, component, heap, sat, callers>>
  BY DEF Probe, InFrame, RestInv, ModeInv, order
<1>p. PICK v \in {w \in Var : Open(w)} : \E l \in {PosLit(v), NegLit(v)} : DecideLit(l)
  BY DEF Probe
<1>1. PICK l \in {PosLit(v), NegLit(v)} : DecideLit(l)
  BY <1>p
<1>2. v \in Var /\ Undefined(v) /\ l \in Lit /\ VarOf(l) = v
  BY LitLaws DEF Open
<1>3. CoreInv'
  BY <1>0, <1>1, <1>2, DecideCore
<1>4. lims' # <<>> /\ conflict' = conflict
  <2>1. lims \in Seq(Nat) /\ Len(trail) \in Nat /\ lims' = Append(lims, Len(trail)) /\ conflict' = conflict
    BY <1>1, Shape DEF DecideLit, CoreInv, CoreType
  <2>2. Len(lims') = Len(lims) + 1 /\ Len(lims) \in Nat
    BY <2>1, AppendProperties
  <2> QED
    BY <2>1, <2>2, EmptySeq
<1>5. RestType'
  BY <1>0 DEF RestInv, RestType, callers
<1>6. ModeInv'
  BY <1>0, <1>4 DEF RestInv, ModeInv, clauseVars, callers
<1>7. SatInv'
  BY <1>0 DEF RestInv, SatInv, Formula, callers
<1> QED
  BY <1>3, <1>5, <1>6, <1>7 DEF RestInv

\* The literal tried is undone.
LEMMA ProbeDoneStep ==
  ASSUME SolverInv, ProbeDone
  PROVE  SolverInv'
<1> USE DEF SolverInv
<1>0. /\ mode = "probe" /\ Quiet /\ mode' = "idle" /\ frames # <<>> /\ ok /\ calls > 0 /\ lims # <<>>
      /\ UNCHANGED <<problem, clauseVars, component, sat, callers, extra>>
  BY DEF ProbeDone, CancelUntil, RestInv, ModeInv
<1>1. PICK n \in Nat : n = DecisionLevel - 1
  <2>1. lims \in Seq(Nat)
    BY DEF CoreInv, CoreType
  <2>2. DecisionLevel - 1 \in Nat
    BY <2>1, <1>0, FrontIs DEF DecisionLevel
  <2> QED
    BY <2>2
<1>2. CoreInv' /\ Quiet'
  BY <1>0, <1>1, CancelCore DEF ProbeDone
<1>3. RestType'
  BY <1>0 DEF RestInv, RestType, callers
<1>4. ModeInv'
  BY <1>0, <1>2 DEF RestInv, ModeInv, Quiet, clauseVars, callers
<1>5. SatInv'
  BY <1>0 DEF RestInv, SatInv, Formula, callers
<1> QED
  BY <1>2, <1>3, <1>4, <1>5 DEF RestInv

\* The literal tried is false.
LEMMA ResolveUnitStep ==
  ASSUME SolverInv, ResolveUnit
  PROVE  SolverInv'
<1> USE DEF SolverInv
<1>0. /\ mode = "probe" /\ conflict # 0 /\ mode' = "resolved" /\ frames # <<>> /\ ok /\ calls > 0 /\ lims # <<>>
      /\ UNCHANGED <<problem, added, ok, component, sat, callers, extra>>
  BY DEF ResolveUnit, AssertLit, RestInv, ModeInv
<1>1. DecisionLevel > 0
  <2>1. lims \in Seq(Nat)
    BY DEF CoreInv, CoreType
  <2>2. DecisionLevel - 1 \in Nat /\ DecisionLevel \in Nat
    BY <2>1, <1>0, FrontIs DEF DecisionLevel
  <2> QED
    BY <2>2
<1>2. CoreInv'
  BY <1>0, <1>1, LearnCore DEF ResolveUnit
<1>3. RestType'
  BY <1>0 DEF RestInv, RestType, callers
<1>4. ModeInv'
  BY <1>0 DEF RestInv, ModeInv, callers
<1>5. SatInv'
  BY <1>0 DEF RestInv, SatInv, Formula, callers
<1> QED
  BY <1>2, <1>3, <1>4, <1>5 DEF RestInv

\* refillAssums.
LEMMA RefillStep ==
  ASSUME SolverInv, Refill
  PROVE  SolverInv'
<1> USE DEF SolverInv
<1>0. CoreInv' /\ UNCHANGED <<problem, added, ok, component, mode, sat, callers, extra>>
  BY LevelCore DEF Refill, RestInv, order, clauseVars
<1>1. mode \in {"resolved", "return"}
  BY DEF Refill, Refilling
<1>2. RestType'
  BY <1>0 DEF RestInv, RestType, callers
<1>3. ModeInv'
  BY <1>0, <1>1 DEF RestInv, ModeInv, callers
<1>4. SatInv'
  BY <1>0 DEF RestInv, SatInv, Formula, callers
<1> QED
  BY <1>0, <1>2, <1>3, <1>4 DEF RestInv

\* Nothing of the search changes.
LEMMA DriverStep ==
  ASSUME SolverInv, Resolved \/ Return \/ InitUnsat \/ Finished
  PROVE  SolverInv'
<1> USE DEF SolverInv
<1>0. /\ UNCHANGED <<problem, added, ok, component, lims, visiting, conflict, qhead, trail, sat, callers, extra>>
      /\ UNCHANGED <<problem, clauseVars, search, order>>
  BY DEF Resolved, Return, InitUnsat, Finished, vars, clauseVars, search, order
<1>1. CoreInv'
  BY <1>0, SameCore
<1>2. RestType'
  BY <1>0 DEF RestInv, RestType, Resolved, Return, InitUnsat, Finished, vars, callers
<1>3. \/ mode = "resolved" /\ Quiet /\ mode' = "idle"
      \/ mode = "idle" /\ frames # <<>> /\ mode' = "return"
      \/ mode' = "done"
  BY DEF Resolved, Return, InitUnsat, Finished, InFrame, vars
<1>4. ModeInv'
  <2>1. mode' = "done" => (ok => added = Len(problem.clauses))
    BY DEF Resolved, Return, InitUnsat, Finished, RestInv, ModeInv, InFrame, vars
  <2>2. CASE mode = "resolved" /\ Quiet /\ mode' = "idle"
    BY <2>2, <1>0 DEF RestInv, ModeInv, Quiet, callers
  <2>3. CASE mode = "idle" /\ frames # <<>> /\ mode' = "return"
    BY <2>3, <1>0 DEF RestInv, ModeInv, callers
  <2>4. CASE mode' = "done"
    BY <2>4, <2>1, <1>0 DEF RestInv, ModeInv, callers
  <2> QED
    BY <2>2, <2>3, <2>4, <1>3
<1>5. SatInv'
  <2>1. mode = "resolved" => frames # <<>>
    BY DEF RestInv, ModeInv
  <2> QED
    BY <1>0, <1>3, <2>1 DEF RestInv, SatInv, Formula, callers
<1> QED
  BY <1>1, <1>2, <1>4, <1>5 DEF RestInv

\* The call on top returns.
LEMMA ReturnedStep ==
  ASSUME SolverInv, Returned
  PROVE  SolverInv'
<1> USE DEF SolverInv
<1>0. /\ mode = "return" /\ Quiet /\ mode' \in {"done", "idle"} /\ frames # <<>> /\ ok /\ calls > 0
      /\ frames' = Front(frames)
      /\ assumptions' = IF assumptions = <<>> THEN <<>> ELSE Front(assumptions)
      /\ UNCHANGED <<problem, clauseVars, component, sat, calls, extra>>
  BY DEF Returned, CancelUntil, RestInv, ModeInv
<1>1. assumptions' \in Seq(Lit)
  BY <1>0, FrontIs DEF RestInv, RestType
<1>2. PICK n \in Nat : n = Len(assumptions')
  BY <1>1
<1>3. CoreInv' /\ Quiet'
  BY <1>0, <1>2, CancelCore DEF Returned
<1>4. frames' \in Seq([vars : SUBSET Var, lits : SUBSET Lit])
  BY <1>0, FrontIs DEF RestInv, RestType
<1>5. RestType'
  BY <1>0, <1>1, <1>4 DEF RestInv, RestType
<1>6. ModeInv'
  BY <1>0, <1>3 DEF RestInv, ModeInv, Quiet, clauseVars
<1>7. SatInv'
  BY <1>0 DEF RestInv, SatInv, Formula
<1> QED
  BY <1>3, <1>5, <1>6, <1>7 DEF RestInv

-----------------------------------------------------------------------------
\* At the start,
LEMMA InitInv == Init => SolverInv
<1> SUFFICES ASSUME Init PROVE SolverInv
  OBVIOUS
<1> USE DEF Init
<1>1. CoreType
  <2>1. problem.clauses \in Seq(SUBSET Lit)
    BY ProblemsAssumption
  <2>2. 0 \in 0 .. Len(problem.clauses)
    BY <2>1
  <2>3. Len(<<>>) = 0 /\ \A T : <<>> \in Seq(T)
    BY EmptySeq
  <2> QED
    BY <2>2, <2>3 DEF CoreType
<1>2. TrailInv /\ WatchesInv /\ WatchInv /\ ConflictInv /\ ReasonInv /\ HeapInv
  BY DEF TrailInv, WatchesInv, WatchInv, ConflictInv, ReasonInv, HeapInv
<1>3. Given = {}
  BY DEF Given
<1>4. ImpliedInv /\ KeptInv
  BY <1>3 DEF ImpliedInv, KeptInv
<1>5. RestType
  BY EmptySeq DEF RestType
<1>6. ModeInv /\ SatInv
  BY DEF ModeInv, SatInv
<1> QED
  BY <1>1, <1>2, <1>4, <1>5, <1>6 DEF SolverInv, CoreInv, RestInv

\* and by every step.
LEMMA NextInv == SolverInv /\ [Next]_vars => SolverInv'
<1> SUFFICES ASSUME SolverInv, [Next]_vars PROVE SolverInv'
  OBVIOUS
<1>1. CASE UNCHANGED vars
  <2>1. UNCHANGED <<problem, clauseVars, search, order>>
    BY <1>1 DEF vars
  <2>2. CoreInv' /\ (Quiet' <=> Quiet) /\ DecisionLevel' = DecisionLevel
    BY <2>1, SameCore DEF SolverInv
  <2>3. UNCHANGED <<problem, added, ok, lims, component, conflict, mode, sat, assumptions, frames, calls, extra>>
    BY <1>1 DEF vars, clauseVars, search, order, callers
  <2>4. RestType'
    BY <2>3 DEF SolverInv, RestInv, RestType
  <2>5. ModeInv'
    BY <2>2, <2>3 DEF SolverInv, RestInv, ModeInv
  <2>6. SatInv'
    BY <2>3 DEF SolverInv, RestInv, SatInv, Formula
  <2> QED
    BY <2>2, <2>4, <2>5, <2>6 DEF SolverInv, RestInv
<1>2. CASE Next
  BY <1>2, PropagateStep, AddStep, AddedUnsatStep, FirstCallStep, RootConflictStep, SearchStep,
     AssumeFalseStep, SatisfiableStep, AnsweredStep, CallStep, UnsatisfiableStep, ProbeStep,
     ProbeDoneStep, ResolveUnitStep, RefillStep, DriverStep, ReturnedStep DEF Next
<1> QED
  BY <1>1, <1>2

\* The invariant of the solver holds in every state: trail, levels, watches,
\* reasons and clauses (Solver.cc), and what the drivers rely on between calls.
THEOREM SolverInvariant == Spec => []SolverInv
<1> QED
  BY InitInv, NextInv, PTL DEF Spec

\* The positions of WatchInv, read as levels.
LEMMA WatchesFromInv == SolverInv => WatchesSound
<1> SUFFICES ASSUME SolverInv, Quiet, NEW k \in DOMAIN db, NEW w \in db[k].watches, IsFalse(w)
             PROVE  \E l \in db[k].lits : IsTrue(l) /\ LevelOf(l) <= LevelOf(w)
  BY DEF WatchesSound
<1>1. CoreType /\ TrailInv /\ WatchInv
  BY DEF SolverInv, CoreInv
<1>2. w \in Lit /\ db[k].lits \subseteq Lit
  BY <1>1, Shape
<1>3. PICK i \in DOMAIN trail : trail[i].lit = Neg(w)
  BY <1>1, <1>2, Values
<1>4. i \in Nat /\ i <= Len(trail) /\ w = Neg(trail[i].lit) /\ LevelOf(w) = LevelAt(i)
  BY <1>1, <1>2, <1>3, Shape, FalseAt
<1>5. Checked(i) /\ k \notin visiting
  BY <1>4 DEF Checked, Quiet
<1>6. PICK j \in DOMAIN trail : trail[j].lit \in db[k].lits /\ NotAbove(j, i)
  BY <1>1, <1>4, <1>5 DEF WatchInv
<1>7. trail[j].lit \in Lit /\ IsTrue(trail[j].lit) /\ j \in Nat
  BY <1>1, <1>2, <1>6, Values, Shape
<1>8. LevelOf(trail[j].lit) = LevelAt(j)
  BY <1>1, <1>7, AtIs
<1>9. LevelAt(j) <= LevelAt(i)
  BY <1>1, <1>4, <1>6, <1>7, LevelsCompare
<1> QED
  BY <1>4, <1>6, <1>7, <1>8, <1>9

\* When all is propagated (Solver.cc:725-778) a clause with a false watch has a
\* true literal at that level or below: no clause is ever missed, however far the
\* solver backtracks afterwards.
THEOREM WatchesCorrect == Spec => []WatchesSound
<1> QED
  BY SolverInvariant, WatchesFromInv, PTL

\* The literals of the root.
LEMMA RootLits ==
  ASSUME CoreType, TrailInv
  PROVE  UpTo(0) = {trail[i].lit : i \in {j \in DOMAIN trail : Root(j)}}
<1>1. /\ DOMAIN trail = 1 .. Len(trail) /\ Len(trail) \in Nat
      /\ DOMAIN lims = 1 .. DecisionLevel /\ DecisionLevel \in Nat
      /\ \A m \in DOMAIN lims : lims[m] \in Nat
  BY Shape DEF DecisionLevel
<1>2. UpTo(0) = LitsOf(TrailAt(0))
  BY DEF UpTo, TrailAt, TrueLits
<1>3. /\ Cut(0) \in 0 .. Len(trail) /\ DOMAIN TrailAt(0) = 1 .. Cut(0)
      /\ \A i \in 1 .. Cut(0) : i \in DOMAIN trail /\ TrailAt(0)[i] = trail[i]
  BY CutFacts
<1>4. ASSUME NEW i \in DOMAIN trail PROVE Root(i) <=> i \in 1 .. Cut(0)
  <2>1. CASE 0 < DecisionLevel
    <3>1. 1 \in DOMAIN lims /\ Cut(0) = lims[1] /\ \A m \in DOMAIN lims : lims[1] <= lims[m]
      BY <2>1, <1>1 DEF Cut, TrailInv
    <3>2. i \in Nat /\ i >= 1
      BY <1>1
    <3> QED
      BY <3>1, <3>2, <1>1 DEF Root
  <2>2. CASE ~(0 < DecisionLevel)
    <3>1. Cut(0) = Len(trail) /\ DOMAIN lims = {}
      BY <2>2, <1>1 DEF Cut
    <3> QED
      BY <3>1, <1>1 DEF Root
  <2> QED
    BY <2>1, <2>2
<1>5. LitsOf(TrailAt(0)) = {trail[i].lit : i \in 1 .. Cut(0)}
  BY <1>3 DEF LitsOf
<1> QED
  BY <1>2, <1>3, <1>4, <1>5

\* ImpliedInv is one inclusion, KeptInv the other.
LEMMA ClausesFromInv == SolverInv => ClausesExact
<1> SUFFICES ASSUME SolverInv, mode # "add", ok PROVE ClausesExact
  BY DEF ClausesExact
<1> DEFINE kept == {db[k].lits : k \in DOMAIN db} \ {{}}
           units == {{l} : l \in UpTo(0)}
<1>1. CoreInv /\ CoreType /\ TrailInv /\ ImpliedInv /\ KeptInv
  BY DEF SolverInv, CoreInv
<1>2. Given = Formula
  BY <1>1, GivenAll DEF SolverInv, RestInv
<1>3. UpTo(0) = {trail[i].lit : i \in {j \in DOMAIN trail : Root(j)}}
  BY <1>1, RootLits
<1>4. ASSUME NEW m \in Models(Formula), NEW c \in kept PROVE SatClause(m, c)
  <2>1. PICK k \in DOMAIN db : c = db[k].lits /\ c # {}
    OBVIOUS
  <2> QED
    BY <2>1, <1>1, <1>2 DEF ImpliedInv
<1>5. ASSUME NEW m \in Models(Formula), NEW c \in units PROVE SatClause(m, c)
  <2>1. PICK i \in DOMAIN trail : Root(i) /\ c = {trail[i].lit}
    BY <1>3
  <2> QED
    BY <2>1, <1>1, <1>2 DEF ImpliedInv, SatClause
<1>6. ASSUME NEW m \in Models(kept \cup units), NEW c \in Formula PROVE SatClause(m, c)
  <2>1. c \subseteq Lit /\ c \in Given
    BY <1>1, <1>2, GivenAre
  <2>2. \A g \in kept \cup units : SatClause(m, g)
    BY DEF Models
  <2>3. CASE Tautology(c)
    BY <2>1, <2>3, NegSatisfied DEF Tautology, SatClause
  <2>4. CASE \E i \in DOMAIN trail : Root(i) /\ trail[i].lit \in c
    <3>1. PICK i \in DOMAIN trail : Root(i) /\ trail[i].lit \in c
      BY <2>4
    <3>2. {trail[i].lit} \in units
      BY <3>1, <1>3
    <3>3. SatClause(m, {trail[i].lit})
      BY <3>2, <2>2
    <3> QED
      BY <3>1, <3>3 DEF SatClause
  <2>5. CASE \E k \in DOMAIN db : ~db[k].learnt /\ db[k].lits # {} /\ db[k].lits \subseteq c
    <3>1. PICK k \in DOMAIN db : db[k].lits # {} /\ db[k].lits \subseteq c
      BY <2>5
    <3>2. SatClause(m, db[k].lits)
      BY <3>1, <2>2
    <3> QED
      BY <3>1, <3>2 DEF SatClause
  <2> QED
    BY <2>1, <2>3, <2>4, <2>5, <1>1 DEF KeptInv
<1> HIDE DEF kept, units
<1>7. Models(kept \cup units) = Models(Formula)
  BY <1>4, <1>5, <1>6 DEF Models
<1> QED
  BY <1>4, <1>7 DEF ClausesExact, kept, units

\* The clauses kept and the literals of the root have the models of the formula:
\* what is learnt, minimised, recorded for the assumptions, simplified, forgotten
\* or stripped neither adds nor loses one (Solver.cc:193-380).
THEOREM ClausesCorrect == Spec => []ClausesExact
<1> QED
  BY SolverInvariant, ClausesFromInv, PTL

-----------------------------------------------------------------------------
(* The answers and the levels.  What follows by unit propagation from the    *)
(* root and the first n assumptions is the same however it was found: levels *)
(* that are made again have again what was known at them.                    *)

\* The levels made for assumptions; that of a probe is none.
Depth == IF mode = "probe" THEN DecisionLevel - 1 ELSE DecisionLevel
Made == IF Depth < Len(assumptions) THEN Depth ELSE Len(assumptions)

\* A decision at such a level is its assumption, and its assumption is true at it.
AssumedInv ==
  /\ \A i \in DOMAIN trail : trail[i].reason = NoReason =>
       \/ Root(i)
       \/ \E n \in DOMAIN lims : i = lims[n] + 1 /\ (n <= Made => trail[i].lit = assumptions[n])
  /\ \A n \in 1 .. Made : \E i \in 1 .. Cut(n) : trail[i].lit = assumptions[n]

\* Sets of literals to which unit propagation adds nothing, and what is in all of
\* them above the root and the first n assumptions.
Closed(s) ==
  /\ \A l \in s : Neg(l) \notin s
  /\ \A k \in DOMAIN db : \A l \in db[k].lits :
       (\A x \in db[k].lits \ {l} : Neg(x) \in s) => l \in s
Above(s, n) == UpTo(0) \subseteq s /\ FirstAssumptions(n) \subseteq s
Derived(n) == {l \in Lit : \A s \in SUBSET Lit : Above(s, n) /\ Closed(s) => l \in s}

\* The units of the calls that wait, and what was known when the call began,
\* can be derived still.
HeldInv ==
  /\ known \in Seq(SUBSET Lit)
  /\ \A i \in DOMAIN frames : frames[i].lits \subseteq Derived(i - 1)
  /\ mode \in {"search", "answered"} =>
       \A n \in DOMAIN known : n <= Len(assumptions) => known[n] \subseteq Derived(n - 1)

\* One assumption for each call that waits, but the one on top.
AlignInv ==
  /\ mode \in {"search", "answered"} => Len(assumptions) = Len(frames)
  /\ mode \in {"idle", "probe", "resolved", "return"} =>
       IF frames = <<>> THEN assumptions = <<>> ELSE Len(assumptions) = Len(frames) - 1
  /\ mode \in {"add", "done"} => frames = <<>> /\ assumptions = <<>>
  /\ mode \in {"answered", "idle", "resolved", "return", "done"} => DecisionLevel <= Len(assumptions)
  /\ mode = "probe" => DecisionLevel <= Len(assumptions) + 1
  /\ calls < RootCalls => frames = <<>>

\* The component decided is closed under the clauses the units collected leave.
Remains(c) == VarsOf({l \in c : Neg(l) \notin Collected})
ClosedUnder(vs) ==
  \A c \in Formula : c \cap Collected = {} /\ Remains(c) \cap vs # {} => Remains(c) \subseteq vs
CallInv ==
  mode \in {"search", "answered"} =>
    /\ frames = <<>> => component = Var
    /\ frames # <<>> => VarOf(Last(assumptions)) \in component /\ ClosedUnder(component)

\* What was answered; the assumptions of the calls that wait have a model.
OutcomeInv ==
  /\ ~ok => Models(Given) = {}
  /\ calls > 0 => ok
  /\ frames # <<>> => ModelsWith(FirstAssumptions(Len(frames) - 1)) # {}
  /\ mode = "answered" => sat = (ModelsWith(ToSet(assumptions)) # {})
  /\ mode \in {"answered", "done"} /\ calls > 0 /\ Models(Formula) # {} => Quiet

AnswerInv == AssumedInv /\ HeldInv /\ AlignInv /\ CallInv /\ OutcomeInv

-----------------------------------------------------------------------------
(* What can be derived. *)

\* The numbers of levels.
LEMMA MadeIs ==
  ASSUME CoreType, RestType
  PROVE  /\ DecisionLevel \in Nat /\ DOMAIN lims = 1 .. DecisionLevel
         /\ Len(assumptions) \in Nat /\ DOMAIN assumptions = 1 .. Len(assumptions)
         /\ Depth \in Int /\ Made \in Int /\ Made <= DecisionLevel /\ Made <= Len(assumptions)
         /\ Made <= Depth
<1>1. DecisionLevel \in Nat /\ DOMAIN lims = 1 .. DecisionLevel
  BY Shape DEF DecisionLevel
<1>2. Len(assumptions) \in Nat /\ DOMAIN assumptions = 1 .. Len(assumptions)
  BY DEF RestType
<1> QED
  BY <1>1, <1>2 DEF Depth, Made

\* The literals at level n and below.
LEMMA UpToIs ==
  ASSUME CoreType, TrailInv, NEW n \in Nat
  PROVE  /\ UpTo(n) = {trail[i].lit : i \in 1 .. Cut(n)}
         /\ UpTo(n) \subseteq Lit /\ UpTo(n) \subseteq TrueLits
         /\ 1 .. Cut(n) \subseteq DOMAIN trail
<1>1. UpTo(n) = LitsOf(TrailAt(n))
  BY DEF UpTo, TrailAt, TrueLits
<1>2. /\ Cut(n) \in 0 .. Len(trail) /\ DOMAIN TrailAt(n) = 1 .. Cut(n)
      /\ \A i \in 1 .. Cut(n) : i \in DOMAIN trail /\ TrailAt(n)[i] = trail[i]
  BY CutFacts
<1>3. LitsOf(TrailAt(n)) = {trail[i].lit : i \in 1 .. Cut(n)}
  BY <1>2 DEF LitsOf
<1>4. \A i \in 1 .. Cut(n) : i \in DOMAIN trail /\ trail[i].lit \in Lit
  BY <1>2, Shape
<1> QED
  BY <1>1, <1>3, <1>4 DEF TrueLits, LitsOf

\* Levels grow.
LEMMA UpToGrows ==
  ASSUME CoreType, TrailInv, NEW m \in Nat, NEW n \in Nat, m <= n
  PROVE  UpTo(m) \subseteq UpTo(n) /\ Cut(m) <= Cut(n) /\ Cut(n) \in Nat /\ Cut(m) \in Nat
<1>1. /\ DOMAIN lims = 1 .. DecisionLevel /\ DecisionLevel \in Nat
      /\ \A k \in DOMAIN lims : lims[k] \in Nat
  BY Shape DEF DecisionLevel
<1>2. Cut(m) \in 0 .. Len(trail) /\ Cut(n) \in 0 .. Len(trail) /\ Len(trail) \in Nat
  BY CutFacts, Shape
<1>3. Cut(m) <= Cut(n)
  <2>1. CASE n < DecisionLevel
    <3>1. m + 1 \in DOMAIN lims /\ n + 1 \in DOMAIN lims /\ m + 1 <= n + 1
      BY <1>1, <2>1
    <3>2. lims[m + 1] <= lims[n + 1]
      BY <3>1 DEF TrailInv
    <3> QED
      BY <2>1, <3>1, <3>2, <1>1 DEF Cut
  <2>2. CASE ~(n < DecisionLevel)
    <3>1. Cut(n) = Len(trail)
      BY <2>2 DEF Cut
    <3> QED
      BY <3>1, <1>2
  <2> QED
    BY <2>1, <2>2
<1>4. 1 .. Cut(m) \subseteq 1 .. Cut(n)
  BY <1>2, <1>3
<1> QED
  BY <1>2, <1>3, <1>4, UpToIs

\* What is on the trail was derived: from the root, from an assumption, or by its
\* reason from literals before it.
LEMMA TrailDerived ==
  ASSUME CoreInv, RestType, AssumedInv, NEW n \in Nat, n <= Made
  PROVE  UpTo(n) \subseteq Derived(n)
<1> USE DEF CoreInv
<1>1. /\ UpTo(n) = {trail[i].lit : i \in 1 .. Cut(n)} /\ UpTo(n) \subseteq Lit
      /\ 1 .. Cut(n) \subseteq DOMAIN trail
  BY UpToIs
<1> SUFFICES ASSUME NEW s \in SUBSET Lit, Above(s, n), Closed(s), NEW e \in 1 .. Cut(n), trail[e].lit \notin s
             PROVE  FALSE
  BY <1>1 DEF Derived
<1>2. Cut(n) \in Nat
  BY UpToGrows
<1> DEFINE T == {i \in 1 .. Cut(n) : trail[i].lit \notin s}
<1>3. T \subseteq Nat /\ T # {}
  BY <1>2
<1>4. PICK i \in T : \A j \in T : i <= j
  BY <1>3, LeastNat
<1>5. i \in DOMAIN trail /\ i \in Nat /\ i >= 1 /\ i <= Cut(n) /\ trail[i].lit \notin s
  BY <1>1, <1>2, <1>4
<1>6. \A j \in 1 .. i - 1 : trail[j].lit \in s
  BY <1>2, <1>4, <1>5
<1>7. ~Root(i)
  BY <1>5, RootLits DEF Above
<1>8. CASE trail[i].reason = NoReason
  <2>1. PICK m \in DOMAIN lims : i = lims[m] + 1 /\ (m <= Made => trail[i].lit = assumptions[m])
    BY <1>5, <1>7, <1>8 DEF AssumedInv
  <2>2. DOMAIN lims = 1 .. DecisionLevel /\ DecisionLevel \in Nat /\ lims[m] \in Nat /\ Made \in Int
        /\ Made <= DecisionLevel
    BY MadeIs, Shape
  <2>3. m <= n
    <3>1. CASE n < DecisionLevel
      <4>1. n + 1 \in DOMAIN lims /\ Cut(n) = lims[n + 1] /\ lims[n + 1] \in Nat
        BY <2>2, <3>1, Shape DEF Cut
      <4>2. n + 1 <= m => lims[n + 1] <= lims[m]
        BY <4>1 DEF TrailInv
      <4> QED
        BY <4>1, <4>2, <2>1, <2>2, <1>5
    <3> QED
      BY <3>1, <2>2
  <2>4. m \in 1 .. n /\ m <= Made
    BY <2>2, <2>3
  <2>5. assumptions[m] \in FirstAssumptions(n)
    BY <2>4 DEF FirstAssumptions
  <2> QED
    BY <2>1, <2>4, <2>5, <1>5 DEF Above
<1>9. CASE trail[i].reason # NoReason
  <2> DEFINE k == trail[i].reason
  <2>1. /\ k \in DOMAIN db /\ trail[i].lit \in db[k].lits
        /\ \A l \in db[k].lits \ {trail[i].lit} : \E j \in 1 .. i - 1 : trail[j].lit = Neg(l)
    BY <1>5, <1>9 DEF ReasonInv
  <2>2. \A l \in db[k].lits \ {trail[i].lit} : Neg(l) \in s
    BY <2>1, <1>6
  <2> QED
    BY <2>1, <2>2, <1>5 DEF Closed
<1> QED
  BY <1>8, <1>9

\* When all is propagated a level is closed.
LEMMA LevelClosed ==
  ASSUME CoreInv, Quiet, NEW n \in Nat
  PROVE  Closed(UpTo(n))
<1> USE DEF CoreInv
<1>1. /\ UpTo(n) = {trail[i].lit : i \in 1 .. Cut(n)} /\ UpTo(n) \subseteq Lit
      /\ 1 .. Cut(n) \subseteq DOMAIN trail
  BY UpToIs
<1>2. ASSUME NEW l \in UpTo(n), Neg(l) \in UpTo(n) PROVE FALSE
  <2>1. l \in Lit /\ l \in TrueLits /\ Neg(l) \in TrueLits
    BY <1>1, <1>2, UpToIs
  <2> QED
    BY <2>1, Values DEF IsTrue, IsFalse
<1>3. ASSUME NEW k \in DOMAIN db, NEW l \in db[k].lits, \A x \in db[k].lits \ {l} : Neg(x) \in UpTo(n)
      PROVE  l \in UpTo(n)
  <2>1. PICK a, b \in db[k].lits : a # b /\ db[k].watches = {a, b}
    BY <1>3 DEF WatchesInv
  <2>2. PICK w \in db[k].watches : w # l /\ w \in db[k].lits
    BY <2>1
  <2>3. w \in Lit /\ db[k].lits \subseteq Lit
    BY <2>2, Shape
  <2>4. PICK i \in 1 .. Cut(n) : trail[i].lit = Neg(w)
    BY <1>1, <1>3, <2>2
  <2>5. i \in DOMAIN trail /\ Neg(trail[i].lit) = w
    BY <1>1, <2>3, <2>4, LitLaws
  <2>6. Checked(i) /\ k \notin visiting
    BY <2>5, Shape DEF Quiet, Checked
  <2>7. PICK j \in DOMAIN trail : trail[j].lit \in db[k].lits /\ NotAbove(j, i)
    BY <2>2, <2>5, <2>6 DEF WatchInv
  <2>8. j \in 1 .. Cut(n)
    <3>1. CASE n < DecisionLevel
      <4>1. /\ n + 1 \in DOMAIN lims /\ Cut(n) = lims[n + 1] /\ lims[n + 1] \in Nat
        BY <3>1, Shape DEF Cut, DecisionLevel
      <4>2. j \in Nat /\ j >= 1 /\ i \in Nat /\ i <= Cut(n)
        BY <2>7, <2>4, <4>1, Shape
      <4>3. lims[n + 1] < j => lims[n + 1] < i
        BY <2>7, <4>1 DEF NotAbove
      <4> QED
        BY <4>1, <4>2, <4>3
    <3>2. CASE ~(n < DecisionLevel)
      BY <3>2, <2>7, Shape DEF Cut
    <3> QED
      BY <3>1, <3>2
  <2>9. trail[j].lit \in UpTo(n)
    BY <1>1, <2>8
  <2>10. ~(Neg(trail[j].lit) \in UpTo(n))
    BY <1>2, <2>9
  <2> QED
    BY <1>3, <2>7, <2>9, <2>10
<1> QED
  BY <1>2, <1>3 DEF Closed

\* The assumptions of the levels made are true at them.
LEMMA AssumedTrue ==
  ASSUME CoreInv, RestType, AssumedInv, NEW n \in Nat, n <= Made
  PROVE  FirstAssumptions(n) \subseteq UpTo(n)
<1> SUFFICES ASSUME NEW m \in 1 .. n PROVE assumptions[m] \in UpTo(n)
  BY DEF FirstAssumptions
<1>1. m \in Nat /\ m <= n /\ m \in 1 .. Made
  BY MadeIs DEF CoreInv
<1>2. PICK i \in 1 .. Cut(m) : trail[i].lit = assumptions[m]
  BY <1>1 DEF AssumedInv
<1>3. UpTo(m) \subseteq UpTo(n) /\ UpTo(m) = {trail[j].lit : j \in 1 .. Cut(m)}
  BY <1>1, UpToGrows, UpToIs DEF CoreInv
<1> QED
  BY <1>2, <1>3

\* A level has what can be derived, when all is propagated.
LEMMA DerivedNow ==
  ASSUME CoreInv, RestType, AssumedInv, Quiet, NEW n \in Nat, n <= Made
  PROVE  Derived(n) = UpTo(n)
<1>1. UpTo(n) \in SUBSET Lit /\ UpTo(0) \subseteq UpTo(n)
  BY UpToIs, UpToGrows DEF CoreInv
<1>2. Above(UpTo(n), n)
  BY <1>1, AssumedTrue DEF Above
<1>3. Closed(UpTo(n))
  BY LevelClosed
<1>4. Derived(n) \subseteq UpTo(n)
  BY <1>1, <1>2, <1>3 DEF Derived
<1> QED
  BY <1>4, TrailDerived

\* A model with the assumptions has all that is derived.
LEMMA DerivedSatisfied ==
  ASSUME CoreInv, RestType, ModeInv, mode # "add", ok, NEW n \in Nat, n <= Len(assumptions),
         NEW m \in ModelsWith(FirstAssumptions(n)), NEW l \in Derived(n)
  PROVE  Satisfies(m, l)
<1> DEFINE s == {x \in Lit : Satisfies(m, x)}
<1>1. m \in Models(Given) /\ \A x \in FirstAssumptions(n) : Satisfies(m, x)
  BY GivenAll DEF ModelsWith, CoreInv
<1>2. \A x \in UpTo(0) : Satisfies(m, x)
  BY <1>1, RootLits DEF CoreInv, ImpliedInv
<1>3. \A k \in DOMAIN db : db[k].lits # {} => SatClause(m, db[k].lits)
  BY <1>1 DEF CoreInv, ImpliedInv
<1>4. \A k \in DOMAIN db : db[k].lits \subseteq Lit
  BY Shape DEF CoreInv
<1>5. Closed(s)
  <2>1. \A x \in s : Neg(x) \notin s
    BY NegSatisfied
  <2>2. ASSUME NEW k \in DOMAIN db, NEW x \in db[k].lits, \A y \in db[k].lits \ {x} : Neg(y) \in s
        PROVE  x \in s
    <3>1. PICK y \in db[k].lits : Satisfies(m, y)
      BY <1>3 DEF SatClause
    <3>2. y \in Lit /\ ~(Neg(y) \in s)
      BY <3>1, <1>4, NegSatisfied
    <3> QED
      BY <2>2, <3>1, <3>2
  <2> QED
    BY <2>1, <2>2 DEF Closed
<1>6. UpTo(0) \subseteq Lit /\ FirstAssumptions(n) \subseteq Lit
  BY UpToIs DEF CoreInv, RestType, FirstAssumptions
<1>7. Above(s, n) /\ s \in SUBSET Lit
  BY <1>1, <1>2, <1>6 DEF Above
<1>8. l \in s
  BY <1>5, <1>7 DEF Derived
<1> QED
  BY <1>8

-----------------------------------------------------------------------------
(* The same after a step. *)

LEMMA NextShape ==
  (CoreType => /\ DOMAIN trail = 1 .. Len(trail) /\ Len(trail) \in Nat
               /\ \A i \in DOMAIN trail : trail[i] \in Entries /\ trail[i].lit \in Lit /\ trail[i].reason \in Nat
               /\ DOMAIN lims = 1 .. Len(lims) /\ Len(lims) \in Nat
               /\ \A n \in DOMAIN lims : lims[n] \in Nat)'
<1>1. CoreType => /\ DOMAIN trail = 1 .. Len(trail) /\ Len(trail) \in Nat
                  /\ \A i \in DOMAIN trail : trail[i] \in Entries /\ trail[i].lit \in Lit /\ trail[i].reason \in Nat
                  /\ DOMAIN lims = 1 .. Len(lims) /\ Len(lims) \in Nat
                  /\ \A n \in DOMAIN lims : lims[n] \in Nat
  BY Shape
<1> QED
  BY <1>1, PTL

LEMMA NextMade ==
  (CoreType /\ RestType =>
     /\ DecisionLevel \in Nat /\ DOMAIN lims = 1 .. DecisionLevel
     /\ Len(assumptions) \in Nat /\ DOMAIN assumptions = 1 .. Len(assumptions)
     /\ Depth \in Int /\ Made \in Int /\ Made <= DecisionLevel /\ Made <= Len(assumptions))'
<1>1. CoreType /\ RestType =>
        /\ DecisionLevel \in Nat /\ DOMAIN lims = 1 .. DecisionLevel
        /\ Len(assumptions) \in Nat /\ DOMAIN assumptions = 1 .. Len(assumptions)
        /\ Depth \in Int /\ Made \in Int /\ Made <= DecisionLevel /\ Made <= Len(assumptions)
  BY MadeIs
<1> QED
  BY <1>1, PTL

LEMMA NextRootLits ==
  (CoreType /\ TrailInv => UpTo(0) = {trail[i].lit : i \in {j \in DOMAIN trail : Root(j)}})'
<1>1. CoreType /\ TrailInv => UpTo(0) = {trail[i].lit : i \in {j \in DOMAIN trail : Root(j)}}
  BY RootLits
<1> QED
  BY <1>1, PTL

LEMMA NextDerived ==
  (CoreInv /\ RestType /\ AssumedInv =>
     \A n \in Nat : n <= Made => UpTo(n) \subseteq Derived(n) /\ FirstAssumptions(n) \subseteq UpTo(n))'
<1>1. CoreInv /\ RestType /\ AssumedInv =>
        \A n \in Nat : n <= Made => UpTo(n) \subseteq Derived(n) /\ FirstAssumptions(n) \subseteq UpTo(n)
  BY TrailDerived, AssumedTrue
<1> QED
  BY <1>1, PTL

-----------------------------------------------------------------------------
(* What steps do to the trail and to what can be derived. *)

\* The trail is cut at level n, literals with a reason or of the root may be added.
Rewound(n) ==
  /\ lims' = LimsAt(n) /\ Cut(n) <= Len(trail')
  /\ \A i \in 1 .. Cut(n) : /\ trail'[i].lit = trail[i].lit
                            /\ trail'[i].reason = trail[i].reason \/ Root(i)
  /\ \A i \in DOMAIN trail' : i > Cut(n) /\ trail'[i].reason = NoReason => Root(i)'

\* A level is made for literal l, which is true or decided.
Deepened(l) ==
  /\ lims' = Append(lims, Len(trail))
  /\ \/ trail' = trail /\ IsTrue(l)
     \/ trail' = Append(trail, Entry(l, NoReason))

\* No clause is lost.
Grown == \A k \in DOMAIN db : k \in DOMAIN db' /\ db'[k].lits = db[k].lits

\* A trail that is left as it is.
LEMMA StillRewound ==
  ASSUME CoreType, TrailInv, UNCHANGED <<trail, lims>>
  PROVE  Rewound(DecisionLevel) /\ DecisionLevel \in Nat
<1>1. DecisionLevel \in Nat /\ Cut(DecisionLevel) = Len(trail) /\ LimsAt(DecisionLevel) = lims
      /\ Len(trail) \in Nat /\ DOMAIN trail = 1 .. Len(trail)
  BY Shape DEF DecisionLevel, Cut, LimsAt
<1> QED
  BY <1>1 DEF Rewound

\* cancelUntil.
LEMMA CancelRewound ==
  ASSUME CoreType, TrailInv, NEW n \in Nat, CancelUntil(n)
  PROVE  Rewound(n)
<1>1. lims' = LimsAt(n) /\ trail' = TrailAt(n)
  BY DEF CancelUntil
<1>2. /\ Cut(n) \in 0 .. Len(trail) /\ Len(TrailAt(n)) = Cut(n) /\ DOMAIN TrailAt(n) = 1 .. Cut(n)
      /\ \A i \in 1 .. Cut(n) : TrailAt(n)[i] = trail[i]
  BY CutFacts
<1>3. Cut(n) \in Nat
  BY UpToGrows
<1> QED
  BY <1>1, <1>2, <1>3 DEF Rewound

\* The root never loses a literal.
LEMMA RewoundRoot ==
  ASSUME CoreInv, CoreInv', NEW n \in Nat, Rewound(n)
  PROVE  UpTo(0) \subseteq UpTo(0)'
<1>1. CoreType /\ TrailInv /\ CoreType' /\ TrailInv'
  BY DEF CoreInv
<1>2. /\ UpTo(0) = {trail[i].lit : i \in {j \in DOMAIN trail : Root(j)}}
      /\ UpTo(0)' = {trail'[i].lit : i \in {j \in DOMAIN trail' : Root(j)'}}
  BY <1>1, RootLits, NextRootLits
<1>3. /\ \A i \in 1 .. Cut(n) : Root(i)' <=> Root(i)
      /\ \A i \in DOMAIN trail : Root(i) => i \in 1 .. Cut(n)
  BY <1>1, CutLevels DEF Rewound
<1>4. Cut(n) \in Nat /\ Cut(n) <= Len(trail')
  BY <1>1, UpToGrows DEF Rewound
<1>5. DOMAIN trail' = 1 .. Len(trail') /\ Len(trail') \in Nat
  BY <1>1, Shape, NextShape
<1>6. 1 .. Cut(n) \subseteq DOMAIN trail'
  BY <1>4, <1>5
<1>7. \A i \in DOMAIN trail : Root(i) => i \in DOMAIN trail' /\ Root(i)' /\ trail'[i].lit = trail[i].lit
  BY <1>3, <1>6 DEF Rewound
<1> QED
  BY <1>2, <1>7

LEMMA DeepenedRoot ==
  ASSUME CoreInv, CoreInv', Quiet, NEW l, Deepened(l)
  PROVE  UpTo(0) \subseteq UpTo(0)'
<1>1. CoreType /\ TrailInv /\ CoreType' /\ TrailInv'
  BY DEF CoreInv
<1>2. /\ UpTo(0) = {trail[i].lit : i \in {j \in DOMAIN trail : Root(j)}}
      /\ UpTo(0)' = {trail'[i].lit : i \in {j \in DOMAIN trail' : Root(j)'}}
  BY <1>1, RootLits, NextRootLits
<1>3. \A i \in DOMAIN trail : Root(i)' <=> Root(i)
  BY <1>1, LevelStarts DEF Deepened
<1>4. \A i \in DOMAIN trail : i \in DOMAIN trail' /\ trail'[i] = trail[i]
  <2>1. trail \in Seq(Entries)
    BY <1>1 DEF CoreType
  <2>2. CASE trail' = trail
    BY <2>2
  <2>3. CASE trail' = Append(trail, Entry(l, NoReason))
    BY <2>1, <2>3
  <2> QED
    BY <2>2, <2>3 DEF Deepened
<1> QED
  BY <1>2, <1>3, <1>4

\* With more clauses and more of the root more is derived.
LEMMA GrownDerived ==
  ASSUME Grown, UpTo(0) \subseteq UpTo(0)', NEW n, FirstAssumptions(n)' = FirstAssumptions(n)
  PROVE  Derived(n) \subseteq Derived(n)'
<1> SUFFICES ASSUME NEW l \in Lit, l \in Derived(n), NEW s \in SUBSET Lit, Above(s, n)', Closed(s)'
             PROVE  l \in s
  BY DEF Derived
<1>1. Above(s, n)
  BY DEF Above
<1>2. Closed(s)
  BY DEF Closed, Grown
<1> QED
  BY <1>1, <1>2 DEF Derived

\* Cutting keeps the assumptions of the levels left.
LEMMA RewoundAssumed ==
  ASSUME CoreInv, CoreInv', RestType, RestType', AssumedInv, NEW n \in Nat, Rewound(n),
         Made' <= Made, \A m \in 1 .. Made' : assumptions'[m] = assumptions[m]
  PROVE  AssumedInv'
<1>1. CoreType /\ TrailInv /\ CoreType' /\ TrailInv'
  BY DEF CoreInv
<1>2. /\ Cut(n) \in 0 .. Len(trail)
      /\ DOMAIN lims' = {m \in DOMAIN lims : m <= n}
      /\ \A m \in DOMAIN lims' : lims'[m] = lims[m] /\ lims[m] <= Cut(n)
      /\ \A m \in DOMAIN lims \ DOMAIN lims' : Cut(n) <= lims[m]
  BY <1>1, CutFacts DEF Rewound
<1>3. /\ DOMAIN trail = 1 .. Len(trail) /\ Len(trail) \in Nat
      /\ DOMAIN trail' = 1 .. Len(trail') /\ Len(trail') \in Nat
      /\ \A m \in DOMAIN lims : lims[m] \in Nat
  BY <1>1, Shape, NextShape
<1>4. /\ DecisionLevel \in Nat /\ DOMAIN lims = 1 .. DecisionLevel /\ Made \in Int
      /\ DecisionLevel' \in Nat /\ DOMAIN lims' = 1 .. DecisionLevel' /\ Made' \in Int
      /\ Made' <= DecisionLevel'
  BY <1>1, MadeIs, NextMade
<1>c. Cut(n) \in Nat /\ Cut(n) <= Len(trail')
  BY <1>1, UpToGrows DEF Rewound
<1>5. ASSUME NEW i \in DOMAIN trail', trail'[i].reason = NoReason
      PROVE  \/ Root(i)'
             \/ \E m \in DOMAIN lims' : i = lims'[m] + 1 /\ (m <= Made' => trail'[i].lit = assumptions'[m])
  <2>1. CASE i > Cut(n)
    BY <1>5, <2>1 DEF Rewound
  <2>2. CASE i \in 1 .. Cut(n)
    <3>1. i \in DOMAIN trail /\ (Root(i)' <=> Root(i))
      BY <2>2, <1>1, <1>2, <1>3, CutLevels DEF Rewound
    <3>2. CASE Root(i)
      BY <3>1, <3>2
    <3>3. CASE ~Root(i)
      <4>1. trail'[i].lit = trail[i].lit /\ trail[i].reason = NoReason
        BY <1>5, <2>2, <3>3 DEF Rewound
      <4>2. PICK m \in DOMAIN lims : i = lims[m] + 1 /\ (m <= Made => trail[i].lit = assumptions[m])
        BY <3>1, <3>3, <4>1 DEF AssumedInv
      <4>3. m \in DOMAIN lims' /\ lims'[m] = lims[m]
        BY <4>2, <2>2, <1>2, <1>3, <1>c
      <4>4. m <= Made' => m <= Made /\ m \in 1 .. Made'
        BY <4>2, <1>4
      <4> QED
        BY <4>1, <4>2, <4>3, <4>4
    <3> QED
      BY <3>2, <3>3
  <2> QED
    BY <2>1, <2>2, <1>3, <1>c
<1>6. ASSUME NEW m \in 1 .. Made' PROVE \E i \in 1 .. Cut(m)' : trail'[i].lit = assumptions'[m]
  <2>1. m \in 1 .. Made /\ m \in Nat /\ m \in DOMAIN lims' /\ m <= n /\ m <= DecisionLevel'
    BY <1>2, <1>4
  <2>2. PICK i \in 1 .. Cut(m) : trail[i].lit = assumptions[m]
    BY <2>1 DEF AssumedInv
  <2>3. Cut(m) <= Cut(n) /\ Cut(m) \in Nat
    BY <2>1, <1>1, UpToGrows
  <2>4. i \in 1 .. Cut(n)
    BY <2>2, <2>3, <1>c
  <2>5. Cut(m) <= Cut(m)' /\ Cut(m)' \in Nat
    <3>1. Cut(m)' = IF m < DecisionLevel' THEN lims'[m + 1] ELSE Len(trail')
      BY DEF Cut
    <3>2. CASE m < DecisionLevel'
      <4>1. m + 1 \in DOMAIN lims' /\ m + 1 \in DOMAIN lims
        BY <3>2, <2>1, <1>2, <1>4
      <4>2. Cut(m) = lims[m + 1]
        BY <4>1, <1>4 DEF Cut
      <4> QED
        BY <3>1, <3>2, <4>1, <4>2, <1>2, <1>3
    <3>3. CASE ~(m < DecisionLevel')
      BY <3>1, <3>3, <2>3, <1>c, <1>3
    <3> QED
      BY <3>2, <3>3
  <2>6. i \in 1 .. Cut(m)'
    BY <2>2, <2>3, <2>5
  <2>7. trail'[i].lit = trail[i].lit
    BY <2>4 DEF Rewound
  <2> QED
    BY <2>1, <2>2, <2>6, <2>7
<1> QED
  BY <1>5, <1>6 DEF AssumedInv

\* The new level.
LEMMA DeepenedIs ==
  ASSUME CoreType, TrailInv, Quiet, CoreType', NEW l, Deepened(l)
  PROVE  /\ DecisionLevel' = DecisionLevel + 1 /\ lims'[DecisionLevel + 1] = Len(trail)
         /\ DOMAIN lims' = 1 .. DecisionLevel + 1
         /\ \A m \in DOMAIN lims : lims'[m] = lims[m] /\ lims[m] <= Len(trail)
         /\ \A i \in DOMAIN trail : (Root(i)' <=> Root(i)) /\ i \in DOMAIN trail' /\ trail'[i] = trail[i]
         /\ \A i \in DOMAIN trail' \ DOMAIN trail : i = Len(trail) + 1 /\ trail'[i].lit = l
         /\ \E i \in 1 .. Len(trail') : trail'[i].lit = l
<1>1. /\ lims' = Append(lims, Len(trail)) /\ lims \in Seq(Nat) /\ Len(trail) \in Nat /\ trail \in Seq(Entries)
  BY Shape DEF Deepened, CoreType
<1>2. /\ Len(lims') = Len(lims) + 1 /\ lims'[Len(lims) + 1] = Len(trail) /\ Len(lims) \in Nat
      /\ DOMAIN lims' = 1 .. Len(lims) + 1
  BY <1>1, AppendProperties
<1>3. /\ \A m \in DOMAIN lims : lims'[m] = lims[m] /\ lims[m] <= Len(trail)
      /\ \A i \in DOMAIN trail : Root(i)' <=> Root(i)
  BY <1>1, LevelStarts
<1>4. /\ \A i \in DOMAIN trail : i \in DOMAIN trail' /\ trail'[i] = trail[i]
      /\ \A i \in DOMAIN trail' \ DOMAIN trail : i = Len(trail) + 1 /\ trail'[i].lit = l
      /\ \E i \in 1 .. Len(trail') : trail'[i].lit = l
  <2>0. DOMAIN trail = 1 .. Len(trail) /\ DOMAIN trail' = 1 .. Len(trail')
    BY Shape, NextShape
  <2>1. CASE trail' = trail /\ IsTrue(l)
    <3>1. \E i \in DOMAIN trail : trail[i].lit = l
      BY <2>1 DEF IsTrue, TrueLits, LitsOf
    <3> QED
      BY <2>0, <2>1, <3>1
  <2>2. CASE trail' = Append(trail, Entry(l, NoReason))
    <3>1. /\ Len(trail') = Len(trail) + 1 /\ \A i \in DOMAIN trail : trail'[i] = trail[i]
          /\ trail'[Len(trail) + 1] = Entry(l, NoReason)
      BY <1>1, <2>0, <2>2
    <3>2. trail'[Len(trail) + 1].lit = l
      BY <3>1 DEF Entry
    <3>3. DOMAIN trail' = 1 .. (Len(trail) + 1) /\ Len(trail) + 1 \in 1 .. Len(trail')
      BY <1>1, <2>0, <3>1
    <3>4. \A i \in DOMAIN trail : i \in DOMAIN trail'
      BY <1>1, <2>0, <3>3
    <3>5. \A i \in DOMAIN trail' \ DOMAIN trail : i = Len(trail) + 1
      BY <1>1, <2>0, <3>3
    <3> QED
      BY <3>1, <3>2, <3>3, <3>4, <3>5
  <2> QED
    BY <2>1, <2>2 DEF Deepened
<1> QED
  BY <1>2, <1>3, <1>4 DEF DecisionLevel

\* A new level has its assumption, if it is made for one.
LEMMA DeepenedAssumed ==
  ASSUME CoreInv, CoreInv', RestType, RestType', AssumedInv, Quiet, NEW l, Deepened(l),
         assumptions' = assumptions,
         Made' <= Made \/ (Made = DecisionLevel /\ Made' = DecisionLevel + 1 /\ l = assumptions[DecisionLevel + 1])
  PROVE  AssumedInv'
<1>1. CoreType /\ TrailInv /\ CoreType' /\ TrailInv'
  BY DEF CoreInv
<1>3. /\ DOMAIN trail = 1 .. Len(trail) /\ Len(trail) \in Nat
      /\ DOMAIN trail' = 1 .. Len(trail') /\ Len(trail') \in Nat
      /\ \A m \in DOMAIN lims : lims[m] \in Nat
  BY <1>1, Shape, NextShape
<1>d. PICK d \in Nat : d = DecisionLevel
  BY <1>1, MadeIs, NextMade
<1>m. PICK h \in Int : h = Made
  BY <1>1, MadeIs, NextMade
<1>n. PICK g \in Int : g = Made'
  BY <1>1, MadeIs, NextMade
<1>4. DOMAIN lims = 1 .. d /\ Len(lims) = d /\ h <= d
  BY <1>1, <1>d, <1>m, MadeIs DEF DecisionLevel
<1>5. /\ DecisionLevel' = d + 1 /\ DOMAIN lims' = 1 .. d + 1 /\ lims'[d + 1] = Len(trail)
      /\ \A m \in DOMAIN lims : lims'[m] = lims[m] /\ lims[m] <= Len(trail)
  BY <1>1, <1>d, DeepenedIs
<1>g. g <= h \/ (h = d /\ g = d + 1 /\ l = assumptions[d + 1])
  BY <1>d, <1>m, <1>n
<1>6. /\ \A i \in DOMAIN trail : (Root(i)' <=> Root(i)) /\ i \in DOMAIN trail' /\ trail'[i] = trail[i]
      /\ \A i \in DOMAIN trail' \ DOMAIN trail : i = Len(trail) + 1 /\ trail'[i].lit = l
      /\ \E i \in 1 .. Len(trail') : trail'[i].lit = l
  BY <1>1, DeepenedIs
<1>7. ASSUME NEW i \in DOMAIN trail', trail'[i].reason = NoReason
      PROVE  \/ Root(i)'
             \/ \E m \in DOMAIN lims' : i = lims'[m] + 1 /\ (m <= Made' => trail'[i].lit = assumptions'[m])
  <2>1. CASE i \in DOMAIN trail
    <3>1. CASE Root(i)
      BY <2>1, <3>1, <1>6
    <3>2. CASE ~Root(i)
      <4>1. PICK m \in DOMAIN lims : i = lims[m] + 1 /\ (m <= h => trail[i].lit = assumptions[m])
        BY <1>6, <1>7, <2>1, <3>2, <1>m DEF AssumedInv
      <4>2. m \in DOMAIN lims' /\ lims'[m] = lims[m] /\ m <= d /\ m \in Nat
        BY <1>4, <1>5, <1>d
      <4>3. m <= g => m <= h
        BY <4>2, <1>g
      <4> QED
        BY <4>1, <4>2, <4>3, <1>6, <2>1, <1>n
    <3> QED
      BY <3>1, <3>2
  <2>2. CASE i \notin DOMAIN trail
    <3>1. i = Len(trail) + 1 /\ trail'[i].lit = l
      BY <2>2, <1>6
    <3>2. d + 1 \in DOMAIN lims' /\ i = lims'[d + 1] + 1
      BY <3>1, <1>5, <1>d
    <3>3. d + 1 <= g => l = assumptions'[d + 1]
      BY <1>g, <1>4
    <3> QED
      BY <3>1, <3>2, <3>3, <1>n
  <2> QED
    BY <2>1, <2>2
<1>8. ASSUME NEW m \in 1 .. Made' PROVE \E i \in 1 .. Cut(m)' : trail'[i].lit = assumptions'[m]
  <2>0. m \in Nat /\ m >= 1 /\ m <= g
    BY <1>n
  <2>1. CASE m <= h
    <3>1. m \in 1 .. Made /\ m <= d
      BY <2>0, <2>1, <1>4, <1>m
    <3>2. PICK i \in 1 .. Cut(m) : trail[i].lit = assumptions[m]
      BY <3>1 DEF AssumedInv
    <3>3. Cut(m)' = Cut(m)
      <4>1. Cut(m)' = lims'[m + 1]
        BY <3>1, <1>5, <2>0 DEF Cut
      <4>2. CASE m < d
        <5>1. m + 1 \in DOMAIN lims
          BY <4>2, <2>0, <1>4
        <5>2. Cut(m) = lims[m + 1]
          BY <4>2, <1>d DEF Cut
        <5> QED
          BY <4>1, <5>1, <5>2, <1>5
      <4>3. CASE m = d
        <5>1. Cut(m) = Len(trail)
          BY <4>3, <1>d DEF Cut
        <5> QED
          BY <4>1, <4>3, <5>1, <1>5
      <4> QED
        BY <4>2, <4>3, <3>1, <2>0
    <3>4. i \in 1 .. Cut(m)' /\ i \in DOMAIN trail
      <4>1. 1 .. Cut(m) \subseteq DOMAIN trail
        BY <2>0, <1>1, UpToIs
      <4> QED
        BY <4>1, <3>2, <3>3
    <3> QED
      BY <3>2, <3>4, <1>6
  <2>2. CASE ~(m <= h)
    <3>1. m = d + 1 /\ l = assumptions[m]
      BY <2>0, <2>2, <1>g
    <3>2. Cut(m)' = Len(trail')
      BY <3>1, <1>5, <1>d DEF Cut
    <3>3. \E i \in 1 .. Len(trail') : trail'[i].lit = l
      BY <1>6
    <3> QED
      BY <3>1, <3>2, <3>3
  <2> QED
    BY <2>1, <2>2, <2>0
<1> QED
  BY <1>7, <1>8 DEF AssumedInv

-----------------------------------------------------------------------------
(* Steps with the same calls and assumptions. *)

\* Where units of calls are looked for.
LEMMA HeldWhere ==
  ASSUME RestType, AlignInv, HeldInv
  PROVE  /\ \A i \in DOMAIN frames : i - 1 \in 0 .. Len(assumptions)
         /\ \A n \in DOMAIN known : n <= Len(assumptions) => n - 1 \in 0 .. Len(assumptions)
         /\ Len(assumptions) \in Nat /\ Len(frames) \in Nat
<1>1. PICK a \in Nat : a = Len(assumptions)
  BY DEF RestType
<1>2. PICK f \in Nat : f = Len(frames) /\ DOMAIN frames = 1 .. f
  BY DEF RestType
<1>3. frames = <<>> \/ a = f \/ a = f - 1
  BY <1>1, <1>2 DEF RestType, AlignInv
<1>4. frames = <<>> => DOMAIN frames = {}
  OBVIOUS
<1>5. \A i \in DOMAIN frames : i - 1 \in 0 .. a
  BY <1>2, <1>3, <1>4
<1>6. DOMAIN known \subseteq Nat \ {0}
  BY DEF HeldInv
<1> QED
  BY <1>1, <1>2, <1>5, <1>6

\* What such a step may do to the mode, the answer and the levels.
ModeStep ==
  \/ mode' = mode
  \/ {mode, mode'} \subseteq {"idle", "probe", "resolved", "return"}
  \/ mode = "search" /\ mode' = "answered"
  \/ mode = "answered" /\ mode' \in {"idle", "done"} /\ frames = <<>>
OutcomeStep ==
  /\ mode' = "answered" => sat' = (ModelsWith(ToSet(assumptions)) # {})
  /\ mode' \in {"answered", "done"} /\ calls > 0 /\ Models(Formula) # {} => Quiet'
LevelStep ==
  /\ mode' \in {"answered", "idle", "resolved", "return", "done"} => DecisionLevel' <= Len(assumptions)
  /\ mode' = "probe" => DecisionLevel' <= Len(assumptions) + 1

LEMMA AnswersKept ==
  ASSUME RestType, AnswerInv, AssumedInv', UNCHANGED <<problem, added, ok, component, callers>>,
         ModeStep, OutcomeStep, LevelStep,
         \A n \in 0 .. Len(assumptions) : Derived(n) \subseteq Derived(n)'
  PROVE  AnswerInv'
<1>0. /\ assumptions' = assumptions /\ frames' = frames /\ calls' = calls /\ known' = known
      /\ problem' = problem /\ added' = added /\ ok' = ok /\ component' = component
  BY DEF callers
<1>1. AlignInv'
  <2>1. Len(assumptions) = Len(frames) /\ frames = <<>> => assumptions = <<>>
    BY EmptySeq DEF RestType
  <2>2. RootCalls' = RootCalls
    BY <1>0 DEF RootCalls
  <2> QED
    BY <1>0, <2>1, <2>2 DEF AnswerInv, AlignInv, ModeStep, LevelStep
<1>2. HeldInv'
  <2>1. /\ \A i \in DOMAIN frames : i - 1 \in 0 .. Len(assumptions)
        /\ \A n \in DOMAIN known : n <= Len(assumptions) => n - 1 \in 0 .. Len(assumptions)
    BY HeldWhere DEF AnswerInv
  <2>2. ASSUME NEW i \in DOMAIN frames PROVE frames[i].lits \subseteq Derived(i - 1)'
    BY <2>1 DEF AnswerInv, HeldInv
  <2>3. ASSUME mode' \in {"search", "answered"}, NEW n \in DOMAIN known, n <= Len(assumptions)
        PROVE  known[n] \subseteq Derived(n - 1)'
    <3>1. mode \in {"search", "answered"}
      BY <2>3 DEF ModeStep
    <3> QED
      BY <2>1, <2>3, <3>1 DEF AnswerInv, HeldInv
  <2> QED
    BY <1>0, <2>2, <2>3 DEF AnswerInv, HeldInv
<1>3. CallInv'
  <2>1. mode' \in {"search", "answered"} => mode \in {"search", "answered"}
    BY DEF ModeStep
  <2>2. \A c : Remains(c)' = Remains(c)
    BY <1>0 DEF Remains, Collected
  <2>3. ClosedUnder(component)' <=> ClosedUnder(component)
    BY <1>0, <2>2 DEF ClosedUnder, Collected, Formula
  <2> QED
    BY <1>0, <2>1, <2>3 DEF AnswerInv, CallInv
<1>4. OutcomeInv'
  <2>1. Given' = Given /\ Formula' = Formula /\ FirstAssumptions(Len(frames) - 1)' = FirstAssumptions(Len(frames) - 1)
        /\ ModelsWith(FirstAssumptions(Len(frames) - 1))' = ModelsWith(FirstAssumptions(Len(frames) - 1))
        /\ ModelsWith(ToSet(assumptions))' = ModelsWith(ToSet(assumptions))
    BY <1>0 DEF Given, Formula, FirstAssumptions, ModelsWith
  <2> QED
    BY <1>0, <2>1 DEF AnswerInv, OutcomeInv, OutcomeStep
<1> QED
  BY <1>1, <1>2, <1>3, <1>4 DEF AnswerInv

\* What is derived stays so.
LEMMA GrownAll ==
  ASSUME Grown, UpTo(0) \subseteq UpTo(0)', assumptions' = assumptions, NEW n
  PROVE  Derived(n) \subseteq Derived(n)'
<1>1. FirstAssumptions(n)' = FirstAssumptions(n)
  BY DEF FirstAssumptions
<1> QED
  BY <1>1, GrownDerived

\* The same levels.
LEMMA MadeSame ==
  ASSUME UNCHANGED <<lims, assumptions, mode>>
  PROVE  Made' = Made /\ DecisionLevel' = DecisionLevel
BY DEF Made, Depth, DecisionLevel

\* propagate.
LEMMA PropagateAnswers ==
  ASSUME SolverInv, SolverInv', AnswerInv,
         \/ TakeLiteral
         \/ \E k \in DOMAIN db : VisitSatisfied(k) \/ VisitMove(k) \/ VisitUnit(k) \/ VisitConflict(k)
  PROVE  AnswerInv'
<1>1. /\ CoreInv /\ CoreInv' /\ RestType /\ RestType' /\ CoreType /\ TrailInv /\ CoreType' /\ TrailInv'
  BY DEF SolverInv, CoreInv, RestInv
<1>2. ~Quiet /\ UNCHANGED <<problem, added, ok, lims, component, mode, sat, callers>>
  <2>1. CASE TakeLiteral
    <3>1. qhead \in Nat /\ Len(trail) \in Nat
      BY <1>1, Shape DEF CoreType
    <3> QED
      BY <2>1, <3>1 DEF TakeLiteral, Propagating, Quiet, clauseVars, order
  <2>2. ASSUME NEW k \in DOMAIN db, VisitSatisfied(k) \/ VisitMove(k) \/ VisitUnit(k) \/ VisitConflict(k)
        PROVE  ~Quiet /\ UNCHANGED <<problem, added, ok, lims, component, mode, sat, callers>>
    BY <2>2 DEF VisitSatisfied, VisitMove, VisitUnit, VisitConflict, OnlyVisited, NoOther, Quiet,
                clauseVars, order
  <2> QED
    BY <2>1, <2>2
<1>3. assumptions' = assumptions /\ lims' = lims /\ Made' = Made /\ DecisionLevel' = DecisionLevel
  BY <1>2, MadeSame DEF callers
<1>4. Grown
  <2>1. CASE UNCHANGED db
    BY <2>1 DEF Grown
  <2>2. ASSUME NEW k \in DOMAIN db, VisitMove(k) PROVE Grown
    <3>1. PICK l : db' = [db EXCEPT ![k].watches = {First(k), l}]
      BY <2>2 DEF VisitMove
    <3>2. \A h \in DOMAIN db : db[h] \in ClauseRecords
      BY <1>1, Shape
    <3> QED
      BY <3>1, <3>2 DEF Grown, ClauseRecords
  <2>3. (\E k \in DOMAIN db : VisitMove(k)) \/ UNCHANGED db
    BY DEF TakeLiteral, VisitSatisfied, VisitUnit, VisitConflict, clauseVars
  <2> QED
    BY <2>1, <2>2, <2>3
<1>d. PICK n \in Nat : n = DecisionLevel
  BY <1>1, MadeIs
<1>5. Rewound(n)
  <2>1. CASE UNCHANGED trail
    BY <1>1, <1>3, <1>d, <2>1, StillRewound
  <2>2. ASSUME NEW k \in DOMAIN db, VisitUnit(k) PROVE Rewound(n)
    <3>1. trail' = Append(trail, Entry(First(k), k)) /\ trail \in Seq(Entries) /\ k # NoReason
      BY <1>1, <2>2, Shape DEF VisitUnit, CoreType, NoReason
    <3>2. Cut(n) = Len(trail) /\ LimsAt(n) = lims /\ Len(trail) \in Nat /\ DOMAIN trail = 1 .. Len(trail)
      <4>1. ~(n < DecisionLevel)
        BY <1>d
      <4> QED
        BY <1>1, <4>1, Shape DEF Cut, LimsAt
    <3>3. /\ Len(trail') = Len(trail) + 1 /\ DOMAIN trail' = 1 .. Len(trail) + 1
          /\ \A i \in 1 .. Len(trail) : trail'[i] = trail[i]
          /\ trail'[Len(trail) + 1].reason = k
      BY <3>1 DEF Entry
    <3> QED
      BY <1>3, <3>1, <3>2, <3>3 DEF Rewound
  <2>3. (\E k \in DOMAIN db : VisitUnit(k)) \/ UNCHANGED trail
    BY DEF TakeLiteral, VisitSatisfied, VisitMove, VisitConflict
  <2> QED
    BY <2>1, <2>2, <2>3
<1>6. AssumedInv'
  <2>1. Made \in Int
    BY <1>1, MadeIs
  <2> QED
    BY <1>1, <1>3, <1>5, <2>1, RewoundAssumed DEF AnswerInv
<1>7. \A m \in 0 .. Len(assumptions) : Derived(m) \subseteq Derived(m)'
  BY <1>1, <1>3, <1>4, <1>5, RewoundRoot, GrownAll
<1>8. ModeStep /\ OutcomeStep /\ LevelStep
  BY <1>2, <1>3 DEF AnswerInv, OutcomeInv, AlignInv, ModeStep, OutcomeStep, LevelStep
<1> QED
  BY <1>1, <1>2, <1>6, <1>7, <1>8, AnswersKept

\* cancelUntil, with the same assumptions.
LEMMA CancelAnswers ==
  ASSUME CoreInv, CoreInv', RestType, RestType', AnswerInv, NEW n \in Nat, CancelUntil(n), Made' <= Made,
         UNCHANGED <<problem, clauseVars, callers>>, ModeStep, OutcomeStep, LevelStep
  PROVE  AnswerInv'
<1>1. Rewound(n)
  BY CancelRewound DEF CoreInv
<1>2. UNCHANGED <<assumptions, component, db>>
  BY DEF callers, CancelUntil, clauseVars
<1>3. Grown
  BY <1>2 DEF Grown
<1>4. AssumedInv'
  BY <1>1, <1>2, RewoundAssumed DEF AnswerInv
<1>5. \A m \in 0 .. Len(assumptions) : Derived(m) \subseteq Derived(m)'
  BY <1>1, <1>2, <1>3, RewoundRoot, GrownAll
<1> QED
  BY <1>2, <1>4, <1>5, AnswersKept DEF clauseVars

\* The level after cancelUntil.
LEMMA LevelAfter ==
  ASSUME CoreInv, NEW n \in Nat, lims' = LimsAt(n)
  PROVE  DecisionLevel' = (IF n < DecisionLevel THEN n ELSE DecisionLevel) /\ DecisionLevel \in Nat
<1>1. CoreType /\ TrailInv
  BY DEF CoreInv
<1> QED
  BY <1>1, CutFacts, Shape DEF DecisionLevel

LEMMA RestartAnswers ==
  ASSUME SolverInv, SolverInv', AnswerInv, Restart
  PROVE  AnswerInv'
<1>1. /\ CoreInv /\ CoreInv' /\ RestType /\ RestType' /\ CoreType
  BY DEF SolverInv, CoreInv, RestInv
<1>2. /\ mode = "search" /\ Quiet /\ DecisionLevel > Len(assumptions) /\ CancelUntil(Len(assumptions))
      /\ UNCHANGED <<problem, clauseVars, mode, sat, callers>> /\ assumptions' = assumptions
  BY DEF Restart, Searching, callers
<1>3. PICK n \in Nat : n = Len(assumptions)
  BY <1>1, MadeIs
<1>4. CancelUntil(n) /\ lims' = LimsAt(n)
  BY <1>2, <1>3 DEF CancelUntil
<1>6. DecisionLevel' = n /\ DecisionLevel \in Nat
  BY <1>1, <1>2, <1>3, <1>4, LevelAfter
<1>7. Made' = Made
  BY <1>2, <1>3, <1>6 DEF Made, Depth
<1>8. Made' <= Made
  BY <1>1, <1>7, MadeIs
<1>9. ModeStep /\ OutcomeStep /\ LevelStep
  BY <1>2 DEF ModeStep, OutcomeStep, LevelStep
<1> QED
  BY <1>1, <1>2, <1>4, <1>8, <1>9, CancelAnswers

\* The literal tried is undone.
LEMMA ProbeDoneAnswers ==
  ASSUME SolverInv, SolverInv', AnswerInv, ProbeDone
  PROVE  AnswerInv'
<1>1. /\ CoreInv /\ CoreInv' /\ RestType /\ RestType' /\ CoreType
  BY DEF SolverInv, CoreInv, RestInv
<1>2. /\ mode = "probe" /\ mode' = "idle" /\ Quiet /\ CancelUntil(DecisionLevel - 1) /\ lims # <<>>
      /\ UNCHANGED <<problem, clauseVars, sat, callers>> /\ assumptions' = assumptions
  BY DEF ProbeDone, callers, SolverInv, RestInv, ModeInv
<1>3. PICK n \in Nat : n = DecisionLevel - 1 /\ DecisionLevel \in Nat
  <2>1. lims \in Seq(Nat)
    BY <1>1 DEF CoreType
  <2>2. Len(lims) - 1 \in Nat
    BY <1>2, <2>1, FrontIs
  <2>3. Len(lims) \in Nat
    BY <2>1
  <2> QED
    BY <2>2, <2>3 DEF DecisionLevel
<1>4. CancelUntil(n) /\ lims' = LimsAt(n)
  BY <1>2, <1>3 DEF CancelUntil
<1>6. DecisionLevel' = n
  BY <1>1, <1>3, <1>4, LevelAfter
<1>7. Made' = Made
  BY <1>2, <1>3, <1>6 DEF Made, Depth
<1>8. Made' <= Made
  BY <1>1, <1>7, MadeIs
<1>9. n <= Len(assumptions)
  <2>1. DecisionLevel <= Len(assumptions) + 1
    BY <1>2 DEF AnswerInv, AlignInv
  <2>2. Len(assumptions) \in Nat
    BY <1>1, MadeIs
  <2> QED
    BY <2>1, <2>2, <1>3
<1>10. ModeStep /\ OutcomeStep /\ LevelStep
  BY <1>2, <1>6, <1>9 DEF ModeStep, OutcomeStep, LevelStep
<1> QED
  BY <1>1, <1>2, <1>4, <1>8, <1>10, CancelAnswers

\* A level more, with the same assumptions.
LEMMA DeepenAnswers ==
  ASSUME CoreInv, CoreInv', RestType, RestType', AnswerInv, Quiet, NEW l, Deepened(l),
         Made' <= Made \/ (Made = DecisionLevel /\ Made' = DecisionLevel + 1 /\ l = assumptions[DecisionLevel + 1]),
         UNCHANGED <<problem, clauseVars, component, callers>>, ModeStep, OutcomeStep, LevelStep
  PROVE  AnswerInv'
<1>1. assumptions' = assumptions /\ Grown
  BY DEF callers, clauseVars, Grown
<1>2. AssumedInv'
  BY <1>1, DeepenedAssumed DEF AnswerInv
<1>3. \A m \in 0 .. Len(assumptions) : Derived(m) \subseteq Derived(m)'
  BY <1>1, DeepenedRoot, GrownAll
<1> QED
  BY <1>2, <1>3, AnswersKept DEF clauseVars

\* The level of the next assumption.
LEMMA LevelAnswers ==
  ASSUME SolverInv, SolverInv', AnswerInv, SearchAssume \/ Refill
  PROVE  AnswerInv'
<1>1. /\ CoreInv /\ CoreInv' /\ RestType /\ RestType' /\ CoreType /\ TrailInv /\ CoreType'
  BY DEF SolverInv, CoreInv, RestInv
<1>2. /\ Quiet /\ mode \in {"search", "resolved", "return"} /\ Assuming
      /\ UNCHANGED <<problem, clauseVars, order, mode, sat, callers>>
  BY DEF SearchAssume, Searching, Refill, Refilling, AssumeTrue, AssumeDecide
<1>3. Deepened(NextAssumption)
  BY DEF SearchAssume, Refill, AssumeTrue, AssumeDecide, Deepened, NewDecisionLevel, DecideLit
<1>4. PICK l : l = NextAssumption
  OBVIOUS
<1>5. PICK d \in Nat : d = DecisionLevel
  BY <1>1, MadeIs
<1>6. PICK a \in Nat : a = Len(assumptions)
  BY <1>1, MadeIs
<1>7. d < a /\ l = assumptions[d + 1] /\ DecisionLevel' = d + 1
  BY <1>1, <1>2, <1>3, <1>4, <1>5, <1>6, DeepenedIs DEF Assuming, NextAssumption
<1>8. Made = d /\ Made' = d + 1
  <2>1. Made = d
    BY <1>2, <1>5, <1>6, <1>7 DEF Made, Depth
  <2>2. mode' # "probe" /\ Len(assumptions') = a
    BY <1>2, <1>6 DEF callers
  <2>3. Depth' = d + 1
    BY <2>2, <1>7 DEF Depth
  <2>4. Made' = IF Depth' < Len(assumptions') THEN Depth' ELSE Len(assumptions')
    BY DEF Made
  <2>5. Made' = d + 1
    BY <2>2, <2>3, <2>4, <1>7
  <2> QED
    BY <2>1, <2>5
<1>9. /\ Made = DecisionLevel /\ Made' = DecisionLevel + 1 /\ l = assumptions[DecisionLevel + 1]
      /\ DecisionLevel' <= Len(assumptions)
  BY <1>5, <1>6, <1>7, <1>8
<1>10. ModeStep /\ OutcomeStep /\ LevelStep
  BY <1>2, <1>9 DEF ModeStep, OutcomeStep, LevelStep
<1> QED
  BY <1>1, <1>2, <1>3, <1>4, <1>9, <1>10, DeepenAnswers DEF order

\* A decision of the search.
LEMMA PickAnswers ==
  ASSUME SolverInv, SolverInv', AnswerInv, Pick
  PROVE  AnswerInv'
<1>1. /\ CoreInv /\ CoreInv' /\ RestType /\ RestType' /\ CoreType /\ TrailInv /\ CoreType'
  BY DEF SolverInv, CoreInv, RestInv
<1>2. /\ Quiet /\ mode = "search" /\ ~Assuming
      /\ UNCHANGED <<problem, clauseVars, component, mode, sat, callers>>
  BY DEF Pick, Searching
<1>3. PICK l : DecideLit(l)
  BY DEF Pick
<1>4. Deepened(l)
  BY <1>3 DEF Deepened, DecideLit
<1>5. PICK d \in Nat : d = DecisionLevel
  BY <1>1, MadeIs
<1>6. PICK a \in Nat : a = Len(assumptions)
  BY <1>1, MadeIs
<1>7. a <= d /\ DecisionLevel' = d + 1
  BY <1>1, <1>2, <1>4, <1>5, <1>6, DeepenedIs DEF Assuming
<1>8. Made' <= Made
  <2>1. Made = a
    BY <1>2, <1>5, <1>6, <1>7 DEF Made, Depth
  <2>2. Len(assumptions') = a
    BY <1>2, <1>6 DEF callers
  <2>3. Made' <= Len(assumptions')
    BY <1>1, NextMade
  <2> QED
    BY <2>1, <2>2, <2>3
<1>9. ModeStep /\ OutcomeStep /\ LevelStep
  BY <1>2 DEF ModeStep, OutcomeStep, LevelStep
<1> QED
  BY <1>1, <1>2, <1>4, <1>8, <1>9, DeepenAnswers

\* A literal is tried.
LEMMA ProbeAnswers ==
  ASSUME SolverInv, SolverInv', AnswerInv, Probe
  PROVE  AnswerInv'
<1>1. /\ CoreInv /\ CoreInv' /\ RestType /\ RestType' /\ CoreType /\ TrailInv /\ CoreType'
  BY DEF SolverInv, CoreInv, RestInv
<1>2. /\ Quiet /\ mode = "idle" /\ mode' = "probe"
      /\ UNCHANGED <<problem, clauseVars, component, sat, callers>>
  BY DEF Probe, InFrame, SolverInv, RestInv, ModeInv, order
<1>3. PICK l : DecideLit(l)
  BY DEF Probe
<1>4. Deepened(l)
  BY <1>3 DEF Deepened, DecideLit
<1>5. PICK d \in Nat : d = DecisionLevel
  BY <1>1, MadeIs
<1>6. PICK a \in Nat : a = Len(assumptions) /\ a = Len(assumptions')
  BY <1>1, <1>2, MadeIs DEF callers
<1>7. d <= a /\ DecisionLevel' = d + 1
  BY <1>1, <1>2, <1>4, <1>5, <1>6, DeepenedIs DEF AnswerInv, AlignInv
<1>8. Made' <= Made
  <2>1. Made = d
    BY <1>2, <1>5, <1>6, <1>7 DEF Made, Depth
  <2>2. Depth' = d
    BY <1>2, <1>7 DEF Depth
  <2>3. Made' = IF Depth' < Len(assumptions') THEN Depth' ELSE Len(assumptions')
    BY DEF Made
  <2>4. Made' = d
    BY <2>2, <2>3, <1>6, <1>7
  <2> QED
    BY <2>1, <2>4
<1>9. DecisionLevel' <= Len(assumptions) + 1
  BY <1>6, <1>7
<1>10. ModeStep /\ OutcomeStep /\ LevelStep
  BY <1>2, <1>9 DEF ModeStep, OutcomeStep, LevelStep
<1> QED
  BY <1>1, <1>2, <1>4, <1>8, <1>10, DeepenAnswers

\* A clause is learnt, and its literal asserted where it is unit.
LEMMA AssertAnswers ==
  ASSUME SolverInv, SolverInv', AnswerInv, Learn \/ ResolveUnit
  PROVE  AnswerInv'
<1>1. /\ CoreInv /\ CoreInv' /\ RestType /\ RestType' /\ CoreType /\ TrailInv /\ CoreType' /\ TrailInv'
  BY DEF SolverInv, CoreInv, RestInv
<1>2. conflict # 0 /\ DecisionLevel > 0
  <2>1. CASE Learn
    BY <2>1 DEF Learn
  <2>2. CASE ResolveUnit
    <3>1. conflict # 0 /\ lims # <<>> /\ lims \in Seq(Nat)
      BY <2>2, <1>1 DEF ResolveUnit, SolverInv, RestInv, ModeInv, CoreType
    <3>2. Len(lims) - 1 \in Nat /\ Len(lims) \in Nat
      BY <3>1, FrontIs
    <3> QED
      BY <3>1, <3>2 DEF DecisionLevel
  <2> QED
    BY <2>1, <2>2
<1>3. PICK learnt : /\ learnt = analyze(db[conflict].lits) \/ learnt = analyzeLastUIP(db[conflict].lits)
                    /\ AssertLit(learnt.lits, learnt.lit)
  BY DEF Learn, ResolveUnit
<1>4. PICK u \in DOMAIN trail : learnt.lit = Neg(trail[u].lit) /\ Asserting(learnt.lits, u)
  BY <1>1, <1>2, <1>3, LearntAsserts
<1>5. PICK ls, l : ls = learnt.lits /\ l = learnt.lit
  OBVIOUS
<1>6. Asserting(ls, u) /\ l = Neg(trail[u].lit) /\ AssertLit(ls, l)
  BY <1>3, <1>4, <1>5
<1>n. PICK n : n = BacktrackLevel(ls, l)
  OBVIOUS
<1>7. n \in Nat /\ n < DecisionLevel /\ (ls = {l} <=> n = 0)
  BY <1>1, <1>6, <1>n, BacktrackIs
<1>8. PICK r \in Nat :
           /\ trail' = Append(TrailAt(n), Entry(l, r))
           /\ \A h \in DOMAIN db : h \in DOMAIN db' /\ db'[h] = db[h]
           /\ r = NoReason => ls = {l}
  BY <1>1, <1>6, <1>n, Asserted
<1>9. /\ lims' = LimsAt(n) /\ UNCHANGED <<problem, added, ok, component, sat, callers>> /\ assumptions' = assumptions
  BY <1>6, <1>n DEF AssertLit, callers
<1>10. Rewound(n)
  <2>1. /\ TrailAt(n) \in Seq(Entries) /\ Len(TrailAt(n)) = Cut(n)
        /\ \A i \in 1 .. Cut(n) : TrailAt(n)[i] = trail[i]
    BY <1>1, <1>7, CutFacts
  <2>2. Cut(n) \in Nat
    BY <1>1, <1>7, UpToGrows
  <2>3. /\ Len(trail') = Cut(n) + 1 /\ DOMAIN trail' = 1 .. Cut(n) + 1
        /\ \A i \in 1 .. Cut(n) : trail'[i] = trail[i]
        /\ trail'[Cut(n) + 1].reason = r
    BY <1>8, <2>1, <2>2 DEF Entry
  <2>4. r = NoReason => \A i : Root(i)'
    <3>1. r = NoReason => n = 0
      BY <1>7, <1>8
    <3>2. n = 0 => DOMAIN lims' = {m \in DOMAIN lims : m <= 0}
      BY <1>1, <1>9, CutFacts
    <3>3. \A m \in DOMAIN lims : m > 0 /\ m \in Nat
      BY <1>1, Shape
    <3>4. n = 0 => DOMAIN lims' = {}
      BY <3>2, <3>3
    <3> QED
      BY <3>1, <3>4 DEF Root
  <2>5. \A i \in DOMAIN trail' : i > Cut(n) => i = Cut(n) + 1
    BY <2>2, <2>3
  <2> QED
    BY <1>9, <2>2, <2>3, <2>4, <2>5 DEF Rewound
<1>11. Grown
  BY <1>8 DEF Grown
<1>12. \/ mode' = mode /\ mode = "search"
       \/ mode = "probe" /\ mode' = "resolved"
  BY DEF Learn, ResolveUnit
<1>d. PICK d \in Nat : d = DecisionLevel
  BY <1>1, MadeIs
<1>a. PICK a \in Nat : a = Len(assumptions) /\ a = Len(assumptions')
  BY <1>1, <1>9, MadeIs
<1>13. n < d /\ DecisionLevel' = n
  BY <1>1, <1>7, <1>9, <1>d, LevelAfter
<1>14. Made' <= Made
  <2>1. Made = IF Depth < a THEN Depth ELSE a
    BY <1>a DEF Made
  <2>2. Made' = IF Depth' < a THEN Depth' ELSE a
    BY <1>a DEF Made
  <2>3. Depth' = n
    BY <1>12, <1>13 DEF Depth
  <2>4. Depth \in {d, d - 1}
    BY <1>d DEF Depth
  <2> QED
    BY <2>1, <2>2, <2>3, <2>4, <1>7, <1>13
<1>15. mode = "probe" => DecisionLevel' <= Len(assumptions)
  <2>1. mode = "probe" => d <= a + 1
    BY <1>d, <1>a DEF AnswerInv, AlignInv
  <2> QED
    BY <2>1, <1>13, <1>a, <1>7
<1>16. AssumedInv'
  BY <1>1, <1>7, <1>9, <1>10, <1>14, RewoundAssumed DEF AnswerInv
<1>17. \A m \in 0 .. Len(assumptions) : Derived(m) \subseteq Derived(m)'
  BY <1>1, <1>7, <1>9, <1>10, <1>11, RewoundRoot, GrownAll
<1>18. ModeStep /\ OutcomeStep /\ LevelStep
  BY <1>12, <1>15 DEF ModeStep, OutcomeStep, LevelStep
<1> QED
  BY <1>1, <1>9, <1>16, <1>17, <1>18, AnswersKept

\* Clauses are forgotten: what the levels derive is on the trail.
LEMMA ReduceAnswers ==
  ASSUME SolverInv, SolverInv', AnswerInv, ReduceDB
  PROVE  AnswerInv'
<1>1. /\ CoreInv /\ CoreInv' /\ RestType /\ RestType' /\ CoreType /\ TrailInv /\ CoreType' /\ TrailInv'
  BY DEF SolverInv, CoreInv, RestInv
<1>2. /\ Quiet /\ mode = "search" /\ DecisionLevel >= Len(assumptions)
      /\ UNCHANGED <<problem, added, ok, trail, lims, component, mode, callers>> /\ assumptions' = assumptions
  BY DEF ReduceDB, Searching, search, order, callers
<1>d. PICK d \in Nat : d = DecisionLevel
  BY <1>1, MadeIs
<1>a. PICK a \in Nat : a = Len(assumptions) /\ a = Len(assumptions')
  BY <1>1, <1>2, MadeIs
<1>3. Made = a /\ Made' = a /\ Made' <= Made
  <2>1. Made = a
    BY <1>2, <1>d, <1>a DEF Made, Depth
  <2> QED
    BY <2>1, <1>2, MadeSame
<1>4. AssumedInv'
  <2>1. Rewound(d)
    BY <1>1, <1>2, <1>d, StillRewound
  <2> QED
    BY <1>1, <1>2, <1>3, <2>1, RewoundAssumed DEF AnswerInv
<1>5. ASSUME NEW n \in 0 .. Len(assumptions) PROVE Derived(n) \subseteq Derived(n)'
  <2>1. n \in Nat /\ n <= Made /\ n <= Made'
    BY <1>a, <1>3
  <2>2. Derived(n) = UpTo(n)
    BY <1>1, <1>2, <2>1, DerivedNow DEF AnswerInv
  <2>3. UpTo(n)' = UpTo(n)
    BY <1>2 DEF UpTo, TrueLits, DecisionLevel
  <2>4. UpTo(n)' \subseteq Derived(n)'
    BY <1>1, <1>4, <2>1, NextDerived
  <2> QED
    BY <2>2, <2>3, <2>4
<1>6. ModeStep /\ OutcomeStep /\ LevelStep
  BY <1>2 DEF ModeStep, OutcomeStep, LevelStep
<1> QED
  BY <1>1, <1>2, <1>4, <1>5, <1>6, AnswersKept

\* Clauses that are true at the root are removed.
LEMMA SimplifyAnswers ==
  ASSUME CoreInv, CoreInv', RestType, RestType', AnswerInv, lims = <<>>, Simplify,
         ModeStep, OutcomeStep, LevelStep
  PROVE  AnswerInv'
<1>1. /\ UNCHANGED <<problem, added, ok, lims, component, callers>> /\ assumptions' = assumptions
      /\ db' = Without(CanSimplify) /\ lims' = <<>>
  BY DEF Simplify, callers
<1>2. CoreType /\ TrailInv /\ CoreType' /\ TrailInv'
  BY DEF CoreInv
<1>3. DecisionLevel = 0 /\ DecisionLevel' = 0 /\ DOMAIN lims' = {} /\ DOMAIN lims = {}
  BY <1>1, EmptySeq DEF DecisionLevel
<1>4. AssumedInv'
  <2>1. \A i : Root(i)'
    BY <1>3 DEF Root
  <2>2. Made' \in Int /\ Made' <= 0
    BY <1>2, <1>3, NextMade
  <2>3. 1 .. Made' = {}
    BY <2>2
  <2> QED
    BY <2>1, <2>3 DEF AssumedInv
<1>5. UpTo(0) = TrueLits /\ UpTo(0)' = TrueLits /\ TrueLits \subseteq Lit
  <2>1. DOMAIN trail' = DOMAIN trail /\ \A i \in DOMAIN trail : trail'[i].lit = trail[i].lit
    BY DEF Simplify, Entry
  <2>2. UpTo(0) = TrueLits /\ UpTo(0)' = TrueLits'
    BY <1>3 DEF UpTo
  <2>3. TrueLits' = TrueLits
    BY <2>1 DEF TrueLits, LitsOf
  <2>4. TrueLits \subseteq Lit
    BY <1>2, Shape DEF TrueLits, LitsOf
  <2> QED
    BY <2>2, <2>3, <2>4
<1>6. /\ CanSimplify \in SUBSET DOMAIN db /\ DOMAIN db' = DOMAIN db
      /\ \A k \in DOMAIN db \ CanSimplify : db'[k] = db[k]
      /\ \A k \in CanSimplify : db[k].lits \cap TrueLits # {}
  <2>1. CanSimplify \in SUBSET DOMAIN db /\ \A k \in CanSimplify : db[k].lits \cap TrueLits # {}
    BY DEF CanSimplify, SatisfiedClauses
  <2> QED
    BY <1>1, <2>1, Forgotten
<1>7. ASSUME NEW n PROVE Derived(n) \subseteq Derived(n)'
  <2> SUFFICES ASSUME NEW l \in Lit, l \in Derived(n), NEW s \in SUBSET Lit, Above(s, n)', Closed(s)'
               PROVE  l \in s
    BY DEF Derived
  <2>1. TrueLits \subseteq s /\ Above(s, n)
    BY <1>1, <1>5 DEF Above, FirstAssumptions
  <2>2. \A x \in s : Neg(x) \notin s
    BY DEF Closed
  <2>3. ASSUME NEW k \in DOMAIN db, NEW x \in db[k].lits, \A y \in db[k].lits \ {x} : Neg(y) \in s
        PROVE  x \in s
    <3>1. CASE k \in CanSimplify
      <4>1. PICK y \in db[k].lits : y \in TrueLits
        BY <1>6, <3>1
      <4>2. y \in s /\ Neg(y) \notin s
        BY <2>1, <2>2, <4>1
      <4> QED
        BY <2>3, <4>1, <4>2
    <3>2. CASE k \notin CanSimplify
      BY <1>6, <2>3, <3>2 DEF Closed
    <3> QED
      BY <3>1, <3>2
  <2>4. Closed(s)
    BY <2>2, <2>3 DEF Closed
  <2> QED
    BY <2>1, <2>4 DEF Derived
<1> QED
  BY <1>1, <1>4, <1>7, AnswersKept

LEMMA SearchSimplifyAnswers ==
  ASSUME SolverInv, SolverInv', AnswerInv, SearchSimplify
  PROVE  AnswerInv'
<1>1. /\ CoreInv /\ CoreInv' /\ RestType /\ RestType' /\ CoreType
  BY DEF SolverInv, CoreInv, RestInv
<1>2. /\ mode = "search" /\ DecisionLevel = 0 /\ Simplify /\ mode' = mode
  BY DEF SearchSimplify, Searching
<1>3. lims = <<>>
  BY <1>1, <1>2, EmptySeq DEF CoreType, DecisionLevel
<1>4. ModeStep /\ OutcomeStep /\ LevelStep
  BY <1>2 DEF ModeStep, OutcomeStep, LevelStep
<1> QED
  BY <1>1, <1>2, <1>3, <1>4, SimplifyAnswers

\* The solver does nothing.
LEMMA SameAnswers ==
  ASSUME SolverInv, SolverInv', AnswerInv, UNCHANGED <<problem, clauseVars, search, order, callers>>,
         ModeStep, OutcomeStep, LevelStep, Made' <= Made
  PROVE  AnswerInv'
<1>1. /\ CoreInv /\ CoreInv' /\ RestType /\ RestType' /\ CoreType /\ TrailInv
  BY DEF SolverInv, CoreInv, RestInv
<1>2. UNCHANGED <<trail, lims, db, component, assumptions>>
  BY DEF search, clauseVars, order, callers
<1>d. PICK d \in Nat : d = DecisionLevel
  BY <1>1, MadeIs
<1>3. Rewound(d)
  BY <1>1, <1>2, <1>d, StillRewound
<1>4. Grown
  BY <1>2 DEF Grown
<1>5. AssumedInv'
  BY <1>1, <1>2, <1>3, RewoundAssumed DEF AnswerInv
<1>6. \A m \in 0 .. Len(assumptions) : Derived(m) \subseteq Derived(m)'
  BY <1>1, <1>2, <1>3, <1>4, RewoundRoot, GrownAll
<1> QED
  BY <1>1, <1>2, <1>5, <1>6, AnswersKept DEF clauseVars

\* The levels that stay when the mode is not that of a probe.
LEMMA MadeStays ==
  ASSUME CoreType, RestType, UNCHANGED <<lims, assumptions>>, mode # "probe", mode' # "probe"
  PROVE  Made' <= Made /\ DecisionLevel' = DecisionLevel
<1>1. Made' = Made /\ DecisionLevel' = DecisionLevel
  BY DEF Made, Depth, DecisionLevel
<1> QED
  BY <1>1, MadeIs

\* Before the driver decides.
LEMMA AnsweredAnswers ==
  ASSUME SolverInv, SolverInv', AnswerInv, Constructed \/ SolveAgain
  PROVE  AnswerInv'
<1>1. /\ CoreInv /\ CoreInv' /\ RestType /\ RestType' /\ CoreType /\ ModeInv
  BY DEF SolverInv, CoreInv, RestInv
<1>2. mode = "answered" /\ sat /\ mode' = "idle" /\ calls < RootCalls
  <2>1. 1 < RootCalls
    BY DEF RootCalls
  <2> QED
    BY <2>1 DEF Constructed, SolveAgain
<1>3. /\ frames = <<>> /\ assumptions = <<>> /\ lims = <<>> /\ DecisionLevel <= Len(assumptions)
  <2>1. frames = <<>> /\ Len(assumptions) = Len(frames) /\ DecisionLevel <= Len(assumptions)
    BY <1>2 DEF AnswerInv, AlignInv
  <2>2. assumptions = <<>> /\ Len(assumptions) = 0
    BY <1>1, <2>1, EmptySeq DEF RestType
  <2>3. lims \in Seq(Nat) /\ Len(lims) <= 0
    BY <1>1, <2>1, <2>2 DEF CoreType, DecisionLevel
  <2>4. Len(lims) = 0
    BY <2>3
  <2>5. lims = <<>>
    BY <2>3, <2>4, EmptySeq
  <2> QED
    BY <2>1, <2>2, <2>5
<1>4. ModeStep /\ OutcomeStep /\ (DecisionLevel' = DecisionLevel => LevelStep)
  BY <1>2, <1>3 DEF ModeStep, OutcomeStep, LevelStep
<1>5. CASE UNCHANGED <<problem, clauseVars, search, order, callers>>
  <2>1. Made' <= Made /\ DecisionLevel' = DecisionLevel
    BY <1>1, <1>2, <1>5, MadeStays DEF search, callers
  <2> QED
    BY <1>4, <1>5, <2>1, SameAnswers
<1>6. CASE Simplify
  <2>1. DecisionLevel' = DecisionLevel
    BY <1>6 DEF Simplify, DecisionLevel
  <2> QED
    BY <1>1, <1>3, <1>4, <1>6, <2>1, SimplifyAnswers
<1> QED
  BY <1>5, <1>6 DEF Constructed, SolveAgain

\* The driver goes on.
LEMMA DriverAnswers ==
  ASSUME SolverInv, SolverInv', AnswerInv, Resolved \/ Return \/ InitUnsat \/ UNCHANGED vars
  PROVE  AnswerInv'
<1>1. /\ CoreInv /\ CoreType /\ RestType /\ ModeInv
  BY DEF SolverInv, CoreInv, RestInv
<1>2. UNCHANGED <<problem, clauseVars, search, order, callers, sat>> /\ lims' = lims /\ assumptions' = assumptions
  BY DEF Resolved, Return, InitUnsat, vars, search, callers
<1>3. \/ mode = "resolved" /\ Quiet /\ mode' = "idle"
      \/ mode = "idle" /\ mode' = "return"
      \/ mode = "answered" /\ ~sat /\ frames = <<>> /\ mode' = "done"
      \/ mode' = mode
  BY DEF Resolved, Return, InitUnsat, InFrame, vars
<1>4. Made' <= Made /\ DecisionLevel' = DecisionLevel
  <2>1. CASE mode' = mode
    <3>1. Made' = Made /\ DecisionLevel' = DecisionLevel
      BY <1>2, <2>1, MadeSame
    <3> QED
      BY <1>1, <3>1, MadeIs
  <2>2. CASE mode # "probe" /\ mode' # "probe"
    BY <1>1, <1>2, <2>2, MadeStays
  <2> QED
    BY <1>3, <2>1, <2>2
<1>5. Quiet' <=> Quiet
  BY <1>2, SameCore, <1>1
<1>6. ModeStep /\ OutcomeStep /\ LevelStep
  BY <1>2, <1>3, <1>4, <1>5 DEF ModeStep, OutcomeStep, LevelStep, AnswerInv, AlignInv, OutcomeInv
<1> QED
  BY <1>2, <1>4, <1>6, SameAnswers

-----------------------------------------------------------------------------
(* The formula is read, and calls begin. *)

\* Nothing is assumed before a level is made.
LEMMA NoLevels ==
  ASSUME CoreType', RestType', lims' = <<>>
  PROVE  AssumedInv'
<1>1. DecisionLevel' = 0 /\ DOMAIN lims' = {}
  BY EmptySeq DEF DecisionLevel
<1>2. \A i : Root(i)'
  BY <1>1 DEF Root
<1>3. Made' \in Int /\ Made' <= 0
  BY <1>1, NextMade
<1>4. 1 .. Made' = {}
  BY <1>3
<1> QED
  BY <1>2, <1>4 DEF AssumedInv

\* addClause_.
LEMMA AddAnswers ==
  ASSUME SolverInv, SolverInv', AnswerInv, AddClause \/ AddUnit \/ AddNothing \/ AddConflict
  PROVE  AnswerInv'
<1>1. /\ CoreInv /\ CoreType' /\ RestType /\ RestType' /\ CoreType /\ ModeInv /\ TrailInv
  BY DEF SolverInv, CoreInv, RestInv
<1>2. /\ mode = "add" /\ mode' = "add" /\ UNCHANGED <<problem, lims, callers>> /\ ok
      /\ assumptions' = assumptions /\ frames' = frames /\ calls' = calls /\ known' = known
  BY DEF AddClause, AddUnit, AddNothing, AddConflict, AddUnchanged, Adding, search, callers
<1>3. lims = <<>> /\ lims' = <<>> /\ calls = 0 /\ frames = <<>> /\ assumptions = <<>>
  BY <1>1, <1>2 DEF ModeInv
<1>4. AssumedInv'
  BY <1>1, <1>3, NoLevels
<1>5. HeldInv' /\ AlignInv' /\ CallInv'
  <2>1. DOMAIN frames = {}
    BY <1>3
  <2> QED
    BY <1>2, <1>3, <2>1 DEF AnswerInv, HeldInv, AlignInv, CallInv
<1>6. ~ok' => Models(Given)' = {}
  <2>1. CASE AddConflict
    <3>1. conflict # 0 /\ added' = added /\ problem' = problem
      BY <2>1 DEF AddConflict
    <3>2. DecisionLevel = 0
      BY <1>3, EmptySeq DEF DecisionLevel
    <3>3. Models(Given) = {}
      BY <1>1, <3>1, <3>2, NoModel
    <3>4. Given' = Given
      BY <3>1 DEF Given
    <3> QED
      BY <3>3, <3>4
  <2>2. CASE AddNothing
    <3>1. Adding /\ added' = added + 1 /\ problem' = problem /\ (ok' \/ Stripped = {})
      BY <2>2 DEF AddNothing, AddUnchanged
    <3>2. Given' = Given \cup {NextClause}
      BY <1>1, <3>1, Next1
    <3>3. Stripped = {} => Models(Given \cup {NextClause}) = {}
      BY <1>1, <3>1, StrippedImplied
    <3>4. Models(Given)' = Models(Given')
      BY DEF Models
    <3> QED
      BY <3>1, <3>2, <3>3, <3>4
  <2>3. CASE AddClause \/ AddUnit
    BY <1>2, <2>3 DEF AddClause, AddUnit
  <2> QED
    BY <2>1, <2>2, <2>3
<1>7. OutcomeInv'
  BY <1>2, <1>3, <1>6 DEF OutcomeInv
<1> QED
  BY <1>4, <1>5, <1>7 DEF AnswerInv

\* A formula refuted while it is read has no model.
LEMMA AddedUnsatAnswers ==
  ASSUME SolverInv, SolverInv', AnswerInv, AddedUnsat
  PROVE  AnswerInv'
<1>1. /\ CoreInv /\ CoreType' /\ RestType /\ RestType' /\ CoreType /\ ModeInv /\ TrailInv
  BY DEF SolverInv, CoreInv, RestInv
<1>2. /\ mode = "add" /\ mode' = "answered" /\ sat' = FALSE /\ ~ok /\ ok' = ok
      /\ UNCHANGED <<problem, added, lims, component, assumptions, frames, calls, known>>
  BY DEF AddedUnsat, Answer, clauseVars, search, order, callers
<1>3. lims = <<>> /\ lims' = <<>> /\ calls = 0 /\ frames = <<>> /\ assumptions = <<>> /\ component = Var
  BY <1>1, <1>2 DEF ModeInv
<1>4. AssumedInv'
  BY <1>1, <1>3, NoLevels
<1>5. HeldInv'
  <2>1. DOMAIN frames = {} /\ Len(assumptions) = 0
    BY <1>3
  <2>2. known \in Seq(SUBSET Lit) /\ DOMAIN known \subseteq Nat \ {0}
    BY DEF AnswerInv, HeldInv
  <2>3. \A n \in DOMAIN known : ~(n <= 0)
    BY <2>2
  <2> QED
    BY <1>2, <1>3, <2>1, <2>2, <2>3 DEF HeldInv
<1>6. AlignInv'
  <2>1. Len(assumptions) = Len(frames) /\ DecisionLevel' <= Len(assumptions)
    BY <1>3, EmptySeq DEF DecisionLevel
  <2> QED
    BY <1>2, <1>3, <2>1 DEF AlignInv
<1>7. CallInv'
  BY <1>2, <1>3 DEF CallInv
<1>8. OutcomeInv'
  <2>1. Models(Given) = {} /\ Given' = Given /\ Formula' = Formula
    BY <1>2 DEF AnswerInv, OutcomeInv, Given, Formula
  <2>2. Given \subseteq Formula
    <3>1. problem.clauses \in Seq(SUBSET Lit) /\ added \in 0 .. Len(problem.clauses)
      BY <1>1, ProblemsAssumption DEF CoreType
    <3>2. 1 .. added \subseteq DOMAIN problem.clauses
      BY <3>1
    <3> QED
      BY <3>2 DEF Given, Formula, ToSet
  <2>3. Models(Formula) = {}
    BY <2>1, <2>2 DEF Models
  <2>4. ModelsWith(ToSet(assumptions))' = {}
    BY <2>1, <2>3 DEF ModelsWith
  <2>5. (sat = (ModelsWith(ToSet(assumptions)) # {}))'
    BY <1>2, <2>4
  <2>6. frames' = <<>> /\ calls' = 0 /\ Models(Given)' = {}
    BY <1>2, <1>3, <2>1
  <2> QED
    BY <2>5, <2>6 DEF OutcomeInv
<1> QED
  BY <1>4, <1>5, <1>6, <1>7, <1>8 DEF AnswerInv

\* What is known when a call begins.
LEMMA KnownIs ==
  ASSUME CoreType, TrailInv
  PROVE  /\ KnownLevels \in Seq(SUBSET Lit) /\ DOMAIN KnownLevels = 1 .. DecisionLevel + 1
         /\ \A n \in 1 .. DecisionLevel + 1 : KnownLevels[n] = UpTo(n - 1)
<1>1. DecisionLevel \in Nat
  BY Shape DEF DecisionLevel
<1>2. \A n \in 1 .. DecisionLevel + 1 : n - 1 \in Nat
  BY <1>1
<1>3. \A n \in 1 .. DecisionLevel + 1 : UpTo(n - 1) \in SUBSET Lit
  BY <1>2, UpToIs
<1>4. DecisionLevel + 1 \in Nat
  BY <1>1
<1> QED
  BY <1>3, <1>4 DEF KnownLevels

\* A call for the whole formula.
LEMMA RootCallAnswers ==
  ASSUME SolverInv, SolverInv', AnswerInv, FirstCall \/ RootCall
  PROVE  AnswerInv'
<1>1. /\ CoreInv /\ CoreType' /\ RestType /\ RestType' /\ CoreType /\ ModeInv /\ TrailInv
  BY DEF SolverInv, CoreInv, RestInv
<1>2. Solve(<<>>, Var) /\ ok /\ frames = <<>> /\ lims = <<>>
  <2>1. CASE FirstCall
    BY <1>1, <2>1 DEF FirstCall, AddedAll, ModeInv
  <2>2. CASE RootCall
    <3>1. frames = <<>> /\ mode = "idle" /\ assumptions = <<>> /\ DecisionLevel <= Len(assumptions)
      BY <2>2 DEF RootCall, AnswerInv, AlignInv
    <3>2. Len(lims) <= 0 /\ lims \in Seq(Nat)
      BY <1>1, <3>1, EmptySeq DEF DecisionLevel, CoreType
    <3>3. Len(lims) = 0
      BY <3>2
    <3>4. lims = <<>>
      BY <3>2, <3>3, EmptySeq
    <3> QED
      BY <1>1, <2>2, <3>1, <3>4 DEF RootCall, ModeInv
  <2> QED
    BY <2>1, <2>2
<1>3. /\ assumptions' = <<>> /\ component' = Var /\ mode' = "search" /\ frames' = <<>> /\ known' = KnownLevels
      /\ lims' = <<>> /\ ok' /\ problem' = problem
  BY <1>2 DEF Solve, clauseVars, search
<1>4. AssumedInv'
  BY <1>1, <1>3, NoLevels
<1>5. HeldInv'
  <2>1. DOMAIN frames' = {} /\ Len(assumptions') = 0
    BY <1>3
  <2>2. known' \in Seq(SUBSET Lit) /\ DOMAIN known' \subseteq Nat \ {0}
    BY <1>1, <1>3, KnownIs
  <2>3. \A n \in DOMAIN known' : ~(n <= 0)
    BY <2>2
  <2> QED
    BY <2>1, <2>2, <2>3 DEF HeldInv
<1>6. AlignInv' /\ CallInv' /\ OutcomeInv'
  BY <1>3 DEF AlignInv, CallInv, OutcomeInv
<1> QED
  BY <1>4, <1>5, <1>6 DEF AnswerInv

\* A component of the formula that is left is closed under it.
LEMMA ConnectedClosed ==
  ASSUME CoreType, ModeInv, mode # "add", ok, NEW v \in Var
  PROVE  v \in Connected(v) /\ ClosedUnder(Connected(v)) /\ Connected(v) \subseteq Var
<1> DEFINE closed(s) == \A c \in Formula : c \cap Collected = {} /\ Remains(c) \cap s # {} => Remains(c) \subseteq s
<1>1. Connected(v) = {w \in Var : \A s \in SUBSET Var : v \in s /\ closed(s) => w \in s}
  BY DEF Connected, Remains
<1>2. ASSUME NEW c \in Formula, c \cap Collected = {}, Remains(c) \cap Connected(v) # {}, NEW w \in Remains(c)
      PROVE  w \in Connected(v)
  <2>1. c \subseteq Lit
    BY GivenAll, GivenAre
  <2>2. w \in Var
    BY <2>1, LitLaws DEF Remains, VarsOf
  <2>3. ASSUME NEW s \in SUBSET Var, v \in s, closed(s) PROVE w \in s
    <3>1. PICK x \in Connected(v) : x \in Remains(c)
      BY <1>2
    <3>2. x \in s
      BY <3>1, <2>3, <1>1
    <3> QED
      BY <1>2, <2>3, <3>1, <3>2
  <2> QED
    BY <1>1, <2>2, <2>3
<1> QED
  BY <1>1, <1>2 DEF ClosedUnder

\* A call for a branch.
LEMMA BranchAnswers ==
  ASSUME SolverInv, SolverInv', AnswerInv, Branch
  PROVE  AnswerInv'
<1>1. /\ CoreInv /\ CoreInv' /\ CoreType' /\ RestType /\ RestType' /\ CoreType /\ ModeInv /\ TrailInv
  BY DEF SolverInv, CoreInv, RestInv
<1>p. PICK v \in Var : \E l \in {PosLit(v), NegLit(v)} : Solve(Append(assumptions, l), Connected(v))
  BY DEF Branch
<1>2. PICK l \in {PosLit(v), NegLit(v)} : Solve(Append(assumptions, l), Connected(v))
  BY <1>p
<1>3. /\ assumptions' = Append(assumptions, l) /\ component' = Connected(v) /\ mode' = "search"
      /\ frames' = frames /\ known' = KnownLevels /\ mode = "idle" /\ frames # <<>> /\ calls' = calls + 1
      /\ UNCHANGED <<trail, lims, db, ok, added, problem>>
  BY <1>2 DEF Solve, clauseVars, search, Branch, InFrame
<1>4. ok /\ Quiet /\ l \in Lit /\ VarOf(l) = v
  BY <1>1, <1>3, LitLaws DEF ModeInv
<1>d. PICK d \in Nat : d = DecisionLevel
  BY <1>1, MadeIs
<1>a. PICK a \in Nat : a = Len(assumptions) /\ DOMAIN assumptions = 1 .. a
  BY <1>1, MadeIs
<1>5. d <= a /\ a = Len(frames) - 1 /\ DecisionLevel' = d
  BY <1>3, <1>d, <1>a DEF AnswerInv, AlignInv, DecisionLevel
<1>6. Len(assumptions') = a + 1 /\ \A m \in 1 .. a : assumptions'[m] = assumptions[m] /\ assumptions'[a + 1] = l
  BY <1>1, <1>3, <1>4, <1>a DEF RestType
<1>7. Made = d /\ Made' = d
  <2>1. Made = d
    BY <1>3, <1>d, <1>a, <1>5 DEF Made, Depth
  <2>2. Depth' = d
    BY <1>3, <1>5 DEF Depth
  <2>3. Made' = IF Depth' < Len(assumptions') THEN Depth' ELSE Len(assumptions')
    BY DEF Made
  <2>4. Made' = d
    BY <2>2, <2>3, <1>5, <1>6
  <2> QED
    BY <2>1, <2>4
<1>8. Rewound(d)
  BY <1>1, <1>3, <1>d, StillRewound
<1>9. AssumedInv'
  <2>1. Made' <= Made /\ \A m \in 1 .. Made' : assumptions'[m] = assumptions[m]
    BY <1>5, <1>6, <1>7
  <2> QED
    BY <1>1, <1>8, <2>1, RewoundAssumed DEF AnswerInv
<1>10. ASSUME NEW n \in 0 .. a
       PROVE  FirstAssumptions(n)' = FirstAssumptions(n) /\ Derived(n) \subseteq Derived(n)'
  <2>1. FirstAssumptions(n)' = FirstAssumptions(n)
    <3>1. \A m \in 1 .. n : assumptions'[m] = assumptions[m]
      BY <1>6
    <3> QED
      BY <3>1 DEF FirstAssumptions
  <2>2. Grown
    BY <1>3 DEF Grown
  <2> QED
    BY <1>1, <1>8, <2>1, <2>2, RewoundRoot, GrownDerived
<1>11. HeldInv'
  <2>1. known' \in Seq(SUBSET Lit) /\ DOMAIN known' = 1 .. d + 1 /\ \A n \in 1 .. d + 1 : known'[n] = UpTo(n - 1)
    BY <1>1, <1>3, <1>d, KnownIs
  <2>2. ASSUME NEW i \in DOMAIN frames PROVE frames[i].lits \subseteq Derived(i - 1)'
    <3>1. i - 1 \in 0 .. a
      BY <1>1, <1>a, HeldWhere DEF AnswerInv
    <3> QED
      BY <3>1, <1>10 DEF AnswerInv, HeldInv
  <2>3. ASSUME NEW n \in 1 .. d + 1 PROVE known'[n] \subseteq Derived(n - 1)'
    <3>1. n - 1 \in 0 .. a /\ n - 1 \in Nat /\ n - 1 <= Made
      BY <1>5, <1>7
    <3>2. UpTo(n - 1) \subseteq Derived(n - 1)
      BY <1>1, <3>1, TrailDerived DEF AnswerInv
    <3> QED
      BY <2>1, <3>1, <3>2, <1>10
  <2> QED
    BY <1>3, <2>1, <2>2, <2>3 DEF HeldInv
<1>12. AlignInv'
  <2>1. Len(frames) = a + 1
    <3>1. Len(frames) \in Nat
      BY <1>1 DEF RestType
    <3> QED
      BY <3>1, <1>5
  <2>2. ~(calls' < RootCalls')
    <3>1. ~(calls < RootCalls) /\ calls \in Nat /\ RootCalls \in Nat
      BY <1>1, <1>3 DEF AnswerInv, AlignInv, RestType, RootCalls
    <3>2. RootCalls' = RootCalls
      BY <1>3 DEF RootCalls
    <3> QED
      BY <1>3, <3>1, <3>2
  <2> QED
    BY <1>3, <1>6, <2>1, <2>2 DEF AlignInv
<1>13. CallInv'
  <2>1. Last(assumptions') = l
    <3>1. assumptions \in Seq(Lit)
      BY <1>1 DEF RestType
    <3>2. Append(assumptions, l)[Len(assumptions) + 1] = l /\ Len(Append(assumptions, l)) = Len(assumptions) + 1
      BY <3>1, <1>4, AppendProperties
    <3> QED
      BY <3>2, <1>3 DEF Last
  <2>2. v \in Connected(v) /\ ClosedUnder(Connected(v))
    BY <1>1, <1>3, <1>4, ConnectedClosed
  <2>3. Collected' = Collected /\ Formula' = Formula
    BY <1>3 DEF Collected, Formula
  <2>4. \A c : Remains(c)' = Remains(c)
    BY <2>3 DEF Remains
  <2>5. ClosedUnder(component)'
    BY <1>3, <2>2, <2>3, <2>4 DEF ClosedUnder
  <2> QED
    BY <1>3, <1>4, <2>1, <2>2, <2>5 DEF CallInv
<1>14. OutcomeInv'
  <2>1. Len(frames) - 1 \in 0 .. a
    BY <1>5
  <2>2. FirstAssumptions(Len(frames) - 1)' = FirstAssumptions(Len(frames) - 1)
    <3>1. PICK n : n = Len(frames) - 1
      OBVIOUS
    <3>2. FirstAssumptions(n)' = FirstAssumptions(n)
      BY <1>10, <2>1, <3>1
    <3>3. FirstAssumptions(Len(frames) - 1)' = FirstAssumptions(n)'
      BY <3>1, <1>3 DEF FirstAssumptions
    <3> QED
      BY <3>1, <3>2, <3>3
  <2>3. ModelsWith(FirstAssumptions(Len(frames) - 1)) # {}
    BY <1>3 DEF AnswerInv, OutcomeInv
  <2>4. Formula' = Formula
    BY <1>3 DEF Formula
  <2>5. ModelsWith(FirstAssumptions(Len(frames) - 1))' = ModelsWith(FirstAssumptions(Len(frames) - 1))
    BY <2>2, <2>4 DEF ModelsWith
  <2> QED
    BY <1>3, <1>4, <2>3, <2>5 DEF OutcomeInv
<1> QED
  BY <1>9, <1>11, <1>12, <1>13, <1>14 DEF AnswerInv

-----------------------------------------------------------------------------
(* Answers. *)

\* A conflict at the root.
LEMMA RootConflictAnswers ==
  ASSUME SolverInv, SolverInv', AnswerInv, RootConflict
  PROVE  AnswerInv'
<1>1. /\ CoreInv /\ RestType /\ CoreType /\ ModeInv
  BY DEF SolverInv, CoreInv, RestInv
<1>2. /\ mode = "search" /\ mode' = "answered" /\ sat' = FALSE /\ conflict # 0 /\ DecisionLevel = 0
      /\ UNCHANGED <<problem, clauseVars, search, order, callers>> /\ lims' = lims /\ assumptions' = assumptions
  BY DEF RootConflict, Answer, search, callers
<1>3. Models(Formula) = {}
  BY <1>1, <1>2, NoModel, GivenAll DEF ModeInv
<1>4. Made' <= Made /\ DecisionLevel' = DecisionLevel
  BY <1>1, <1>2, MadeStays
<1>5. ModeStep /\ OutcomeStep /\ LevelStep
  <2>1. ModelsWith(ToSet(assumptions)) = {}
    BY <1>3 DEF ModelsWith
  <2>2. sat' = (ModelsWith(ToSet(assumptions)) # {})
    BY <1>2, <2>1
  <2>3. 0 <= Len(assumptions)
    BY <1>1, MadeIs
  <2> QED
    BY <1>2, <1>3, <1>4, <2>2, <2>3 DEF ModeStep, OutcomeStep, LevelStep
<1> QED
  BY <1>2, <1>4, <1>5, SameAnswers

\* The assumptions are the first ones.
LEMMA AssumptionsAre ==
  ASSUME RestType, NEW a, a = Len(assumptions)
  PROVE  ToSet(assumptions) = FirstAssumptions(a) /\ FirstAssumptions(a) \subseteq Lit
<1>1. assumptions \in Seq(Lit) /\ DOMAIN assumptions = 1 .. a
  BY DEF RestType
<1>2. \A i \in 1 .. a : assumptions[i] \in Lit
  BY <1>1
<1> QED
  BY <1>1, <1>2 DEF ToSet, FirstAssumptions

\* What a model of the assumptions satisfies, while no level is missing or above.
LEMMA ModelSatisfies ==
  ASSUME SolverInv, AnswerInv, mode # "add", mode # "probe", ok, DecisionLevel <= Len(assumptions),
         NEW m \in ModelsWith(FirstAssumptions(DecisionLevel)), NEW l \in TrueLits
  PROVE  Satisfies(m, l)
<1>1. /\ CoreInv /\ RestType /\ CoreType /\ ModeInv /\ AssumedInv
  BY DEF SolverInv, CoreInv, RestInv, AnswerInv
<1>2. PICK d \in Nat : d = DecisionLevel
  BY <1>1, MadeIs
<1>3. d <= Made /\ d <= Len(assumptions)
  BY <1>2 DEF Made, Depth
<1>4. UpTo(d) = TrueLits
  BY <1>2 DEF UpTo
<1>5. l \in Derived(d)
  BY <1>1, <1>3, <1>4, TrailDerived
<1> QED
  BY <1>1, <1>2, <1>3, <1>5, DerivedSatisfied

\* With fewer assumptions there are more models.
LEMMA FewerAssumptions ==
  ASSUME NEW m \in Nat, NEW n \in Nat, m <= n
  PROVE  /\ FirstAssumptions(m) \subseteq FirstAssumptions(n)
         /\ ModelsWith(FirstAssumptions(n)) \subseteq ModelsWith(FirstAssumptions(m))
         /\ Derived(m) \subseteq Derived(n)
<1>1. FirstAssumptions(m) \subseteq FirstAssumptions(n)
  <2>1. 1 .. m \subseteq 1 .. n
    OBVIOUS
  <2> QED
    BY <2>1 DEF FirstAssumptions
<1>2. ModelsWith(FirstAssumptions(n)) \subseteq ModelsWith(FirstAssumptions(m))
  BY <1>1 DEF ModelsWith
<1>3. Derived(m) \subseteq Derived(n)
  BY <1>1 DEF Derived, Above
<1> QED
  BY <1>1, <1>2, <1>3

\* No model has the assumptions when the next one is false.
LEMMA NextFalse ==
  ASSUME SolverInv, AnswerInv, mode # "add", mode # "probe", ok, Assuming, IsFalse(NextAssumption)
  PROVE  ModelsWith(ToSet(assumptions)) = {}
<1> SUFFICES ASSUME NEW m \in ModelsWith(ToSet(assumptions)) PROVE FALSE
  OBVIOUS
<1>1. CoreInv /\ RestType /\ CoreType
  BY DEF SolverInv, CoreInv, RestInv
<1>2. PICK d \in Nat : d = DecisionLevel
  BY <1>1, MadeIs
<1>3. PICK a \in Nat : a = Len(assumptions)
  BY <1>1, MadeIs
<1>4. d < a /\ NextAssumption = assumptions[d + 1]
  BY <1>2, <1>3 DEF Assuming, NextAssumption
<1>5. m \in ModelsWith(FirstAssumptions(a)) /\ m \in ModelsWith(FirstAssumptions(d))
  BY <1>1, <1>3, <1>4, AssumptionsAre, FewerAssumptions
<1>6. Satisfies(m, Neg(NextAssumption))
  BY <1>2, <1>3, <1>4, <1>5, ModelSatisfies DEF IsFalse
<1>7. NextAssumption \in FirstAssumptions(a)
  BY <1>4 DEF FirstAssumptions
<1>8. Satisfies(m, NextAssumption) /\ NextAssumption \in Lit
  BY <1>1, <1>3, <1>5, <1>7, AssumptionsAre DEF ModelsWith
<1> QED
  BY <1>6, <1>8, NegSatisfied

\* An assumption is false.
LEMMA AssumeFalseAnswers ==
  ASSUME SolverInv, SolverInv', AnswerInv, AssumeFalse
  PROVE  AnswerInv'
<1>1. /\ CoreInv /\ CoreInv' /\ RestType /\ RestType' /\ CoreType /\ ModeInv /\ TrailInv /\ CoreType'
  BY DEF SolverInv, CoreInv, RestInv
<1>2. /\ mode = "search" /\ mode' = "answered" /\ sat' = FALSE /\ Assuming /\ IsFalse(NextAssumption)
      /\ UNCHANGED <<problem, added, ok, component, callers>> /\ assumptions' = assumptions
  BY DEF AssumeFalse, Searching, Answer, CancelUntil, order, callers
<1>3. Quiet' /\ ok
  BY <1>1, <1>2, AssumeFalseCore DEF ModeInv
<1>4. ModelsWith(ToSet(assumptions)) = {}
  BY <1>2, <1>3, NextFalse
<1>5. sat' = (ModelsWith(ToSet(assumptions)) # {})
  BY <1>2, <1>4
<1>6. ModeStep /\ OutcomeStep
  BY <1>2, <1>3, <1>5 DEF ModeStep, OutcomeStep
<1>d. PICK d \in Nat : d = DecisionLevel
  BY <1>1, MadeIs
<1>a. PICK a \in Nat : a = Len(assumptions)
  BY <1>1, MadeIs
<1>7. d < a /\ Made = d
  BY <1>2, <1>d, <1>a DEF Assuming, Made, Depth
<1>8. CASE CancelUntil(0) /\ UNCHANGED db
  <2>1. lims' = LimsAt(0)
    BY <1>8 DEF CancelUntil
  <2>2. DecisionLevel' = IF 0 < d THEN 0 ELSE d
    BY <1>1, <1>d, <2>1, LevelAfter
  <2>3. DecisionLevel' <= a /\ DecisionLevel' <= d
    BY <2>2
  <2>4. Made' <= DecisionLevel' /\ Made' \in Int /\ DecisionLevel' \in Nat
    BY <1>1, NextMade
  <2>5. Made' <= Made
    BY <1>7, <2>3, <2>4
  <2>6. LevelStep
    BY <1>2, <1>a, <2>3 DEF LevelStep
  <2> QED
    BY <1>1, <1>2, <1>6, <1>8, <2>5, <2>6, CancelAnswers DEF clauseVars
<1>9. CASE /\ \E e : db' = Append(db, e)
           /\ UNCHANGED <<search, order>>
  <2>1. UNCHANGED <<trail, lims>>
    BY <1>9 DEF search
  <2>2. Made' <= Made /\ DecisionLevel' = d
    BY <1>1, <1>2, <1>d, <2>1, MadeStays
  <2>3. Rewound(d)
    BY <1>1, <1>d, <2>1, StillRewound
  <2>4. AssumedInv'
    BY <1>1, <1>2, <2>2, <2>3, RewoundAssumed DEF AnswerInv
  <2>5. Grown
    <3>1. PICK e : db' = Append(db, e)
      BY <1>9
    <3>2. db \in Seq(ClauseRecords)
      BY <1>1 DEF CoreType
    <3>3. \A k \in DOMAIN db : k \in DOMAIN db' /\ db'[k] = db[k]
      BY <3>1, <3>2
    <3> QED
      BY <3>3 DEF Grown
  <2>6. \A m \in 0 .. Len(assumptions) : Derived(m) \subseteq Derived(m)'
    BY <1>1, <1>2, <2>3, <2>5, RewoundRoot, GrownAll
  <2>7. LevelStep
    BY <1>2, <1>a, <1>7, <2>2 DEF LevelStep
  <2> QED
    BY <1>1, <1>2, <1>6, <2>4, <2>6, <2>7, AnswersKept
<1> QED
  BY <1>8, <1>9 DEF AssumeFalse

\* With the variables of a component assigned, the values on the trail there and
\* those of a model of the assumptions before elsewhere are a model.
LEMMA ComponentDecided ==
  ASSUME SolverInv, AnswerInv, Quiet, mode = "search", ~Assuming, ToDecide = {}, frames # <<>>
  PROVE  ModelsWith(ToSet(assumptions)) # {}
<1>1. /\ CoreInv /\ RestType /\ CoreType /\ ModeInv /\ TrailInv /\ ok /\ AssumedInv
  BY DEF SolverInv, CoreInv, RestInv, AnswerInv, ModeInv
<1>2. Given = Formula
  BY <1>1, GivenAll
<1>a. PICK a \in Nat : a = Len(assumptions) /\ a = Len(frames) /\ DOMAIN frames = 1 .. a /\ a >= 1
  <2>1. Len(assumptions) = Len(frames)
    BY DEF AnswerInv, AlignInv
  <2>2. Len(frames) \in Nat /\ DOMAIN frames = 1 .. Len(frames) /\ Len(frames) # 0
    BY <1>1, EmptySeq DEF RestType
  <2> QED
    BY <2>1, <2>2
<1>d. PICK d \in Nat : d = DecisionLevel
  BY <1>1, MadeIs
<1>3. a <= d /\ Made = a
  BY <1>a, <1>d DEF Assuming, Made, Depth
<1>4. a - 1 \in Nat /\ Len(frames) - 1 = a - 1
  BY <1>a
<1>5. PICK m0 : m0 \in ModelsWith(FirstAssumptions(a - 1))
  BY <1>4 DEF AnswerInv, OutcomeInv
<1>6. m0 \in Models(Formula) /\ m0 \subseteq Var /\ \A c \in Formula : SatClause(m0, c)
  BY <1>5 DEF ModelsWith, Models, Assignments
<1>7. Last(assumptions) = assumptions[a] /\ VarOf(assumptions[a]) \in component /\ ClosedUnder(component)
  BY <1>a DEF AnswerInv, CallInv, Last
<1> DEFINE m == {v \in component : PosLit(v) \in TrueLits} \cup (m0 \ component)
<1>8. ASSUME NEW l \in Lit, VarOf(l) \in component PROVE IsTrue(l) \/ IsFalse(l)
  <2>1. ~Undefined(VarOf(l))
    BY <1>1, <1>8 DEF CoreInv, HeapInv, ToDecide
  <2> QED
    BY <1>1, <2>1, Values
<1>9. ASSUME NEW l \in Lit, VarOf(l) \in component, IsTrue(l) PROVE Satisfies(m, l)
  <2>1. CASE l % 2 = 0
    <3>1. PosLit(VarOf(l)) = l
      BY <2>1, NumVarsAssumption DEF PosLit, VarOf, Lit
    <3> QED
      BY <2>1, <3>1, <1>9 DEF Satisfies, IsTrue
  <2>2. CASE l % 2 # 0
    <3>1. PosLit(VarOf(l)) = Neg(l)
      BY <2>2, NumVarsAssumption DEF PosLit, VarOf, Lit, Neg
    <3>2. ~IsFalse(l)
      BY <1>1, <1>9, Values
    <3>3. PosLit(VarOf(l)) \notin TrueLits
      BY <3>1, <3>2 DEF IsFalse
    <3> QED
      BY <1>9, <2>2, <3>3 DEF Satisfies
  <2> QED
    BY <2>1, <2>2
<1>10. ASSUME NEW l \in Lit, VarOf(l) \notin component, Satisfies(m0, l) PROVE Satisfies(m, l)
  BY <1>10 DEF Satisfies
<1>11. m \in Assignments
  BY <1>1, <1>6 DEF CoreType, Assignments
<1> HIDE DEF m
<1>12. ASSUME NEW l \in Lit, IsTrue(l), Satisfies(m0, l) PROVE Satisfies(m, l)
  BY <1>9, <1>10, <1>12
<1>13. ASSUME NEW x \in Collected PROVE x \in Lit /\ IsTrue(x) /\ Satisfies(m0, x)
  <2>1. PICK i \in DOMAIN frames : x \in frames[i].lits
    BY DEF Collected
  <2>2. i - 1 \in Nat /\ i - 1 <= a - 1 /\ i - 1 <= Made /\ i - 1 <= Len(assumptions)
    BY <1>3, <1>a
  <2>3. x \in Derived(i - 1)
    BY <2>1 DEF AnswerInv, HeldInv
  <2>4. Derived(i - 1) = UpTo(i - 1)
    BY <1>1, <2>2, DerivedNow
  <2>5. UpTo(i - 1) \subseteq TrueLits /\ UpTo(i - 1) \subseteq Lit
    BY <1>1, <2>2, UpToIs
  <2>6. m0 \in ModelsWith(FirstAssumptions(i - 1))
    BY <1>4, <1>5, <2>2, FewerAssumptions
  <2>7. Satisfies(m0, x)
    BY <1>1, <2>2, <2>3, <2>6, DerivedSatisfied
  <2> QED
    BY <2>3, <2>4, <2>5, <2>7 DEF IsTrue
<1>14. ASSUME NEW l \in FirstAssumptions(a) PROVE Satisfies(m, l)
  <2>1. PICK i \in 1 .. a : l = assumptions[i]
    BY <1>14 DEF FirstAssumptions
  <2>2. l \in Lit /\ IsTrue(l)
    <3>1. FirstAssumptions(a) \subseteq UpTo(a) /\ UpTo(a) \subseteq TrueLits /\ FirstAssumptions(a) \subseteq Lit
      BY <1>1, <1>3, <1>a, AssumedTrue, UpToIs, AssumptionsAre
    <3> QED
      BY <3>1 DEF IsTrue
  <2>3. CASE i = a
    BY <1>7, <1>9, <2>1, <2>2, <2>3
  <2>4. CASE i # a
    <3>1. i \in 1 .. a - 1
      BY <2>4, <1>a
    <3>2. l \in FirstAssumptions(a - 1)
      BY <2>1, <3>1 DEF FirstAssumptions
    <3>3. Satisfies(m0, l)
      BY <1>5, <3>2 DEF ModelsWith
    <3> QED
      BY <1>12, <2>2, <3>3
  <2> QED
    BY <2>3, <2>4
<1>15. ASSUME NEW c \in Formula PROVE SatClause(m, c)
  <2>1. c \subseteq Lit
    BY <1>1, <1>2, GivenAre
  <2>2. CASE c \cap Collected # {}
    <3>1. PICK x \in c : x \in Collected
      BY <2>2
    <3> QED
      BY <1>12, <1>13, <3>1 DEF SatClause
  <2>3. CASE c \cap Collected = {} /\ Remains(c) \cap component = {}
    <3>1. PICK l \in c : Satisfies(m0, l)
      BY <1>6 DEF SatClause
    <3>2. l \in Lit /\ Neg(l) \notin Collected
      BY <1>13, <2>1, <3>1, NegSatisfied
    <3>3. VarOf(l) \in Remains(c)
      BY <3>2 DEF Remains, VarsOf
    <3> QED
      BY <1>10, <2>3, <3>1, <3>2, <3>3 DEF SatClause
  <2>4. CASE c \cap Collected = {} /\ Remains(c) \cap component # {}
    <3>1. Remains(c) \subseteq component
      BY <1>7, <2>4 DEF ClosedUnder
    <3>2. ASSUME NEW l \in c PROVE l \in Lit /\ (IsTrue(l) => VarOf(l) \in component) /\ (IsTrue(l) \/ IsFalse(l))
      <4>1. l \in Lit
        BY <2>1
      <4>2. CASE Neg(l) \in Collected
        <5>1. IsFalse(l)
          BY <1>13, <4>2 DEF IsTrue, IsFalse
        <5>2. ~IsTrue(l)
          BY <1>1, <4>1, <5>1, Values
        <5> QED
          BY <4>1, <5>1, <5>2
      <4>3. CASE Neg(l) \notin Collected
        <5>1. VarOf(l) \in component
          BY <3>1, <4>3 DEF Remains, VarsOf
        <5> QED
          BY <1>8, <4>1, <5>1
      <4> QED
        BY <4>2, <4>3
    <3>3. ASSUME NEW l \in c, IsTrue(l) PROVE SatClause(m, c)
      BY <1>9, <3>2, <3>3 DEF SatClause
    <3>4. CASE Tautology(c)
      BY <2>1, <3>4, NegSatisfied DEF Tautology, SatClause
    <3>5. CASE \E i \in DOMAIN trail : Root(i) /\ trail[i].lit \in c
      <4>1. PICK i \in DOMAIN trail : trail[i].lit \in c
        BY <3>5
      <4>2. IsTrue(trail[i].lit)
        BY DEF IsTrue, TrueLits, LitsOf
      <4> QED
        BY <3>3, <4>1, <4>2
    <3>6. CASE \E k \in DOMAIN db : ~db[k].learnt /\ db[k].lits # {} /\ db[k].lits \subseteq c
      <4>1. PICK k \in DOMAIN db : db[k].lits # {} /\ db[k].lits \subseteq c
        BY <3>6
      <4>2. PICK x, y \in db[k].lits : x # y /\ db[k].watches = {x, y}
        BY <1>1, <4>1 DEF CoreInv, WatchesInv
      <4>3. x \in c /\ x \in Lit
        BY <2>1, <4>1, <4>2
      <4>4. CASE IsTrue(x)
        BY <3>3, <4>3, <4>4
      <4>5. CASE IsFalse(x)
        <5>1. PICK i \in DOMAIN trail : trail[i].lit = Neg(x)
          BY <1>1, <4>3, <4>5, Values
        <5>2. Neg(trail[i].lit) \in db[k].watches
          BY <4>2, <4>3, <5>1, LitLaws
        <5>3. Checked(i) /\ k \notin visiting
          BY <1>1, Shape DEF Quiet, Checked
        <5>4. PICK j \in DOMAIN trail : trail[j].lit \in db[k].lits
          BY <1>1, <5>2, <5>3 DEF CoreInv, WatchInv
        <5>5. IsTrue(trail[j].lit)
          BY DEF IsTrue, TrueLits, LitsOf
        <5> QED
          BY <3>3, <4>1, <5>4, <5>5
      <4> QED
        BY <3>2, <4>3, <4>4, <4>5
    <3> QED
      BY <1>1, <1>2, <3>4, <3>5, <3>6 DEF CoreInv, KeptInv
  <2> QED
    BY <2>2, <2>3, <2>4
<1>16. m \in Models(Formula)
  BY <1>11, <1>15 DEF Models
<1>17. ToSet(assumptions) = FirstAssumptions(a)
  BY <1>1, <1>a, AssumptionsAre
<1> QED
  BY <1>14, <1>16, <1>17 DEF ModelsWith

\* Nothing is left to decide.
LEMMA SatisfiableAnswers ==
  ASSUME SolverInv, SolverInv', AnswerInv, Satisfiable
  PROVE  AnswerInv'
<1>1. /\ CoreInv /\ CoreInv' /\ RestType /\ RestType' /\ CoreType /\ ModeInv /\ CoreType'
  BY DEF SolverInv, CoreInv, RestInv
<1>2. /\ mode = "search" /\ mode' = "answered" /\ sat' = TRUE /\ Quiet /\ ~Assuming /\ ToDecide = {}
      /\ CancelUntil(Len(assumptions)) /\ UNCHANGED <<problem, clauseVars, callers>> /\ assumptions' = assumptions
  BY DEF Satisfiable, Searching, Answer, callers
<1>3. ok
  BY <1>1, <1>2 DEF ModeInv
<1>4. ModelsWith(ToSet(assumptions)) # {}
  <2>1. CASE frames # <<>>
    BY <1>2, <2>1, ComponentDecided
  <2>2. CASE frames = <<>>
    <3>1. component = Var /\ Len(assumptions) = Len(frames)
      BY <1>2, <2>2 DEF AnswerInv, CallInv, AlignInv
    <3>2. assumptions = <<>>
      BY <1>1, <2>2, <3>1, EmptySeq DEF RestType
    <3>3. Models(Formula) # {}
      BY <1>1, <1>2, <1>3, <3>1, ModelFound, GivenAll
    <3>4. ToSet(assumptions) = {}
      BY <3>2 DEF ToSet
    <3>5. ModelsWith({}) = Models(Formula)
      BY DEF ModelsWith
    <3> QED
      BY <3>3, <3>4, <3>5
  <2> QED
    BY <2>1, <2>2
<1>5. PICK a \in Nat : a = Len(assumptions) /\ a = Len(assumptions')
  BY <1>1, <1>2, MadeIs
<1>6. CancelUntil(a) /\ lims' = LimsAt(a)
  BY <1>2, <1>5 DEF CancelUntil
<1>d. PICK d \in Nat : d = DecisionLevel
  BY <1>1, MadeIs
<1>7. a <= d /\ DecisionLevel' = a
  <2>1. a <= d
    BY <1>2, <1>5, <1>d DEF Assuming
  <2>2. DecisionLevel' = IF a < d THEN a ELSE d
    BY <1>1, <1>d, <1>6, LevelAfter
  <2> QED
    BY <2>1, <2>2
<1>8. Made' <= Made
  <2>1. Made = a
    BY <1>2, <1>5, <1>d, <1>7 DEF Made, Depth
  <2>2. Made' <= Len(assumptions')
    BY <1>1, NextMade
  <2> QED
    BY <2>1, <2>2, <1>5
<1>9. Quiet'
  BY <1>1, <1>2, <1>6, CancelCore
<1>10. ModeStep /\ OutcomeStep /\ LevelStep
  <2>1. sat' = (ModelsWith(ToSet(assumptions)) # {})
    BY <1>2, <1>4
  <2> QED
    BY <1>2, <1>5, <1>7, <1>9, <2>1 DEF ModeStep, OutcomeStep, LevelStep
<1> QED
  BY <1>1, <1>2, <1>6, <1>8, <1>10, CancelAnswers

\* The call waits, with the units of its component.
LEMMA CollectUnitAnswers ==
  ASSUME SolverInv, SolverInv', AnswerInv, CollectUnit
  PROVE  AnswerInv'
<1>1. /\ CoreInv /\ CoreInv' /\ RestType /\ RestType' /\ CoreType /\ ModeInv /\ TrailInv
  BY DEF SolverInv, CoreInv, RestInv
<1> DEFINE e == [vars |-> component, lits |-> {l \in TrueLits : VarOf(l) \in component}]
<1>2. /\ mode = "answered" /\ mode' = "idle" /\ sat /\ ~(calls < RootCalls) /\ frames' = Append(frames, e)
      /\ UNCHANGED <<problem, added, ok, trail, lims, db, component, assumptions, calls, known>>
  <2>1. calls >= RootCalls /\ calls \in Nat /\ RootCalls \in Nat
    BY <1>1 DEF CollectUnit, RestType, RootCalls
  <2> QED
    BY <2>1 DEF CollectUnit, clauseVars, search, order
<1>a. PICK a \in Nat : a = Len(assumptions) /\ a = Len(frames) /\ DOMAIN frames = 1 .. a
  <2>1. Len(assumptions) = Len(frames)
    BY <1>2 DEF AnswerInv, AlignInv
  <2> QED
    BY <1>1, <2>1 DEF RestType
<1>d. PICK d \in Nat : d = DecisionLevel
  BY <1>1, MadeIs
<1>3. d <= a /\ Made = d /\ DecisionLevel' = d /\ Made' <= Made
  <2>1. d <= a
    BY <1>2, <1>a, <1>d DEF AnswerInv, AlignInv
  <2>2. Made = d
    BY <1>2, <1>a, <1>d, <2>1 DEF Made, Depth
  <2> QED
    BY <1>1, <1>2, <1>d, <2>1, <2>2, MadeStays
<1>4. Rewound(d)
  BY <1>1, <1>2, <1>d, StillRewound
<1>5. AssumedInv'
  BY <1>1, <1>2, <1>3, <1>4, RewoundAssumed DEF AnswerInv
<1>6. ASSUME NEW n PROVE Derived(n) \subseteq Derived(n)'
  <2>1. Grown
    BY <1>2 DEF Grown
  <2> QED
    BY <1>1, <1>2, <1>4, <2>1, RewoundRoot, GrownAll
<1>7. frames \in Seq([vars : SUBSET Var, lits : SUBSET Lit]) /\ e.lits \subseteq TrueLits
  BY <1>1 DEF RestType
<1>8. Len(frames') = a + 1 /\ DOMAIN frames' = 1 .. a + 1 /\ frames' # <<>>
      /\ (\A i \in 1 .. a : frames'[i] = frames[i]) /\ frames'[a + 1].lits \subseteq TrueLits
  <2> HIDE DEF e
  <2>1. /\ Len(frames') = a + 1 /\ DOMAIN frames' = 1 .. a + 1
        /\ (\A i \in 1 .. a : frames'[i] = frames[i]) /\ frames'[a + 1] = e
    BY <1>2, <1>7, <1>a
  <2>2. frames' # <<>>
    BY <2>1, <1>a
  <2> QED
    BY <2>1, <2>2, <1>7
<1>9. HeldInv'
  <2>1. ASSUME NEW i \in 1 .. a PROVE frames[i].lits \subseteq Derived(i - 1)'
    BY <1>6, <1>a DEF AnswerInv, HeldInv
  <2>2. TrueLits \subseteq Derived(a)'
    <3>1. UpTo(d) = TrueLits
      BY <1>d DEF UpTo
    <3>2. TrueLits \subseteq Derived(d)
      BY <1>1, <1>3, <3>1, TrailDerived DEF AnswerInv
    <3>3. Derived(d) \subseteq Derived(a)
      BY <1>3, FewerAssumptions
    <3> QED
      BY <1>6, <3>2, <3>3
  <2>3. ASSUME NEW i \in 1 .. a + 1 PROVE frames'[i].lits \subseteq Derived(i - 1)'
    <3>1. CASE i = a + 1
      <4>1. i - 1 = a
        BY <3>1, <1>a
      <4> QED
        BY <3>1, <4>1, <2>2, <1>8
    <3>2. CASE i # a + 1
      <4>1. i \in 1 .. a
        BY <3>2, <1>a
      <4> QED
        BY <4>1, <2>1, <1>8
    <3> QED
      BY <3>1, <3>2
  <2> QED
    BY <1>2, <1>8, <2>3 DEF AnswerInv, HeldInv
<1>10. AlignInv'
  <2>1. RootCalls' = RootCalls
    BY <1>2 DEF RootCalls
  <2> QED
    BY <1>2, <1>3, <1>8, <1>a, <2>1 DEF AlignInv
<1>11. CallInv'
  BY <1>2 DEF CallInv
<1>12. OutcomeInv'
  <2>1. ModelsWith(FirstAssumptions(a)) # {}
    BY <1>1, <1>2, <1>a, AssumptionsAre DEF AnswerInv, OutcomeInv
  <2>2. Len(frames') - 1 = a
    BY <1>8, <1>a
  <2>3. ModelsWith(FirstAssumptions(Len(frames) - 1))' = ModelsWith(FirstAssumptions(a))
    BY <1>2, <2>2 DEF ModelsWith, FirstAssumptions, Formula
  <2>4. Given' = Given
    BY <1>2 DEF Given
  <2> QED
    BY <1>2, <2>1, <2>3, <2>4 DEF AnswerInv, OutcomeInv
<1> QED
  BY <1>5, <1>9, <1>10, <1>11, <1>12 DEF AnswerInv

\* Assumptions are dropped with their levels.
LEMMA TakenBack ==
  ASSUME CoreInv, CoreInv', RestType, RestType', AnswerInv, NEW a \in Nat, a = Len(assumptions),
         NEW b \in Nat, b = Len(assumptions'), b <= a, \A i \in 1 .. b : assumptions'[i] = assumptions[i],
         CancelUntil(b), db' = db, DecisionLevel <= a, mode # "probe"
  PROVE  /\ AssumedInv' /\ DecisionLevel' <= b
         /\ \A n \in 0 .. b : FirstAssumptions(n)' = FirstAssumptions(n) /\ Derived(n) \subseteq Derived(n)'
<1>1. CoreType /\ CoreType' /\ TrailInv /\ lims' = LimsAt(b)
  BY DEF CoreInv, CancelUntil
<1>2. Rewound(b)
  BY <1>1, CancelRewound
<1>d. PICK d \in Nat : d = DecisionLevel
  BY <1>1, MadeIs
<1>3. DecisionLevel' = IF b < d THEN b ELSE d
  BY <1>1, <1>d, LevelAfter
<1>4. DecisionLevel' <= b /\ DecisionLevel' <= d
  BY <1>3, <1>d
<1>5. Made = d
  BY <1>d DEF Made, Depth
<1>6. Made' \in Int /\ Made' <= DecisionLevel' /\ DecisionLevel' \in Nat
  BY <1>1, NextMade
<1>7. Made' <= Made /\ Made' <= b
  BY <1>4, <1>5, <1>6, <1>d
<1>8. \A i \in 1 .. Made' : assumptions'[i] = assumptions[i]
  BY <1>6, <1>7
<1>9. AssumedInv'
  BY <1>2, <1>7, <1>8, RewoundAssumed DEF AnswerInv
<1>10. ASSUME NEW n \in 0 .. b
       PROVE  FirstAssumptions(n)' = FirstAssumptions(n) /\ Derived(n) \subseteq Derived(n)'
  <2>1. FirstAssumptions(n)' = FirstAssumptions(n)
    BY DEF FirstAssumptions
  <2>2. Grown
    BY DEF Grown
  <2> QED
    BY <1>2, <2>1, <2>2, RewoundRoot, GrownDerived
<1> QED
  BY <1>4, <1>9, <1>10

\* A branch is false.
LEMMA UnsatisfiableAnswers ==
  ASSUME SolverInv, SolverInv', AnswerInv, Unsatisfiable
  PROVE  AnswerInv'
<1>1. /\ CoreInv /\ CoreInv' /\ RestType /\ RestType' /\ CoreType /\ ModeInv
  BY DEF SolverInv, CoreInv, RestInv
<1>2. /\ mode = "answered" /\ mode' = "idle" /\ frames # <<>> /\ assumptions # <<>>
      /\ assumptions' = Front(assumptions) /\ CancelUntil(Len(assumptions) - 1)
      /\ UNCHANGED <<problem, added, ok, db, frames, calls, known>>
  BY <1>1 DEF Unsatisfiable, clauseVars, ModeInv
<1>a. PICK a \in Nat : a = Len(assumptions) /\ a = Len(frames)
  BY <1>1, <1>2, MadeIs DEF AnswerInv, AlignInv
<1>b. PICK b \in Nat : b = a - 1 /\ Len(assumptions') = b
  BY <1>1, <1>2, <1>a, FrontIs DEF RestType
<1>3. \A i \in 1 .. b : assumptions'[i] = assumptions[i]
  <2>1. assumptions' = SubSeq(assumptions, 1, b)
    BY <1>2, <1>a, <1>b DEF Front
  <2>2. assumptions \in Seq(Lit) /\ b <= Len(assumptions)
    BY <1>1, <1>a, <1>b DEF RestType
  <2> QED
    BY <2>1, <2>2
<1>4. CancelUntil(b) /\ DecisionLevel <= a
  BY <1>2, <1>a, <1>b DEF AnswerInv, AlignInv
<1>5. /\ AssumedInv' /\ DecisionLevel' <= b
      /\ \A n \in 0 .. b : FirstAssumptions(n)' = FirstAssumptions(n) /\ Derived(n) \subseteq Derived(n)'
  <2>1. b <= a
    BY <1>b
  <2> QED
    BY <1>1, <1>2, <1>3, <1>4, <1>a, <1>b, <2>1, TakenBack
<1>6. HeldInv'
  <2>1. ASSUME NEW i \in DOMAIN frames PROVE frames[i].lits \subseteq Derived(i - 1)'
    <3>1. i - 1 \in 0 .. b
      BY <1>1, <1>a, <1>b DEF RestType
    <3> QED
      BY <3>1, <1>5 DEF AnswerInv, HeldInv
  <2> QED
    BY <1>2, <2>1 DEF AnswerInv, HeldInv
<1>7. AlignInv'
  <2>1. RootCalls' = RootCalls
    BY <1>2 DEF RootCalls
  <2> QED
    BY <1>2, <1>5, <1>a, <1>b, <2>1 DEF AnswerInv, AlignInv
<1>8. CallInv'
  BY <1>2 DEF CallInv
<1>9. OutcomeInv'
  <2>1. ModelsWith(FirstAssumptions(b)) # {}
    BY <1>2, <1>a, <1>b DEF AnswerInv, OutcomeInv
  <2>2. FirstAssumptions(b)' = FirstAssumptions(b) /\ Formula' = Formula
    BY <1>2, <1>5, <1>b DEF Formula
  <2>3. FirstAssumptions(Len(frames) - 1)' = FirstAssumptions(b)'
    BY <1>2, <1>a, <1>b DEF FirstAssumptions
  <2>4. ModelsWith(FirstAssumptions(Len(frames) - 1))' = ModelsWith(FirstAssumptions(b))
    BY <2>2, <2>3 DEF ModelsWith
  <2>5. Given' = Given
    BY <1>2 DEF Given
  <2> QED
    BY <1>2, <2>1, <2>4, <2>5 DEF AnswerInv, OutcomeInv
<1> QED
  BY <1>5, <1>6, <1>7, <1>8, <1>9 DEF AnswerInv

\* What is left without its last element begins as before.
LEMMA FrontElements ==
  ASSUME NEW T, NEW s \in Seq(T), s # <<>>
  PROVE  DOMAIN Front(s) = 1 .. (Len(s) - 1) /\ \A i \in 1 .. (Len(s) - 1) : Front(s)[i] = s[i] /\ i \in DOMAIN s
<1>1. Front(s) \in Seq(T) /\ Len(s) - 1 \in Nat /\ Len(Front(s)) = Len(s) - 1
  BY FrontIs
<1>2. PICK n \in Nat : n = Len(s) - 1
  BY <1>1
<1>3. Front(s) = SubSeq(s, 1, n)
  BY <1>2 DEF Front
<1>4. Len(s) = n + 1 /\ DOMAIN s = 1 .. (n + 1)
  BY <1>2, EmptySeq
<1>5. DOMAIN Front(s) = 1 .. n
  BY <1>1, <1>2
<1>6. ASSUME NEW i \in 1 .. n PROVE Front(s)[i] = s[i] /\ i \in DOMAIN s
  BY <1>3, <1>4
<1> QED
  BY <1>2, <1>5, <1>6

\* A call ends.
LEMMA ReturnedAnswers ==
  ASSUME SolverInv, SolverInv', AnswerInv, Returned
  PROVE  AnswerInv'
<1>1. /\ CoreInv /\ CoreInv' /\ RestType /\ RestType' /\ CoreType /\ ModeInv
  BY DEF SolverInv, CoreInv, RestInv
<1>2. /\ mode = "return" /\ mode' = (IF Len(frames) = 1 THEN "done" ELSE "idle") /\ frames # <<>> /\ Quiet
      /\ assumptions' = (IF assumptions = <<>> THEN <<>> ELSE Front(assumptions))
      /\ frames' = Front(frames) /\ CancelUntil(Len(assumptions'))
      /\ UNCHANGED <<problem, clauseVars, calls, known>>
  BY <1>1 DEF Returned, ModeInv
<1>u. UNCHANGED <<problem, added, ok, db, calls, known>>
  BY <1>2 DEF clauseVars
<1>a. PICK a \in Nat : a = Len(assumptions) /\ a = Len(frames) - 1 /\ Len(frames) = a + 1
  <2>1. Len(assumptions) = Len(frames) - 1
    BY <1>2, EmptySeq DEF AnswerInv, AlignInv
  <2>2. Len(frames) \in Nat
    BY <1>1 DEF RestType
  <2> QED
    BY <1>1, <2>1, <2>2, MadeIs
<1>b. PICK b \in Nat : /\ Len(assumptions') = b /\ b = (IF a = 0 THEN 0 ELSE a - 1)
                       /\ \A i \in 1 .. b : assumptions'[i] = assumptions[i]
  <2>1. CASE a = 0
    <3>1. assumptions = <<>>
      BY <1>1, <1>a, <2>1, EmptySeq DEF RestType
    <3>2. Len(assumptions') = 0
      BY <1>2, <3>1
    <3> QED
      BY <2>1, <3>2
  <2>2. CASE a # 0
    <3>1. assumptions # <<>> /\ assumptions \in Seq(Lit)
      BY <1>1, <1>a, <2>2 DEF RestType
    <3>2. assumptions' = Front(assumptions)
      BY <1>2, <3>1
    <3>4. Len(assumptions') = a - 1 /\ a - 1 \in Nat
      BY <1>a, <3>1, <3>2, FrontIs
    <3>3. \A i \in 1 .. a - 1 : assumptions'[i] = assumptions[i]
      BY <1>a, <3>1, <3>2, FrontElements
    <3> QED
      BY <2>2, <3>4, <3>3
  <2> QED
    BY <2>1, <2>2
<1>3. CancelUntil(b) /\ DecisionLevel <= a
  BY <1>2, <1>a, <1>b DEF AnswerInv, AlignInv, CancelUntil
<1>4. /\ AssumedInv' /\ DecisionLevel' <= b
      /\ \A n \in 0 .. b : FirstAssumptions(n)' = FirstAssumptions(n) /\ Derived(n) \subseteq Derived(n)'
  <2>1. b <= a
    BY <1>b
  <2> QED
    BY <1>1, <1>u, <1>2, <1>3, <1>a, <1>b, <2>1, TakenBack
<1>5. Quiet'
  BY <1>1, <1>2, <1>3, CancelCore
<1>6. /\ frames' \in Seq([vars : SUBSET Var, lits : SUBSET Lit]) /\ Len(frames') = a
      /\ DOMAIN frames' = 1 .. a /\ \A i \in 1 .. a : frames'[i] = frames[i] /\ i \in DOMAIN frames
  <2>1. frames \in Seq([vars : SUBSET Var, lits : SUBSET Lit]) /\ frames # <<>> /\ frames' = Front(frames)
    BY <1>1, <1>2 DEF RestType
  <2>2. frames' \in Seq([vars : SUBSET Var, lits : SUBSET Lit]) /\ Len(frames') = Len(frames) - 1
    BY <2>1, FrontIs
  <2>3. /\ DOMAIN frames' = 1 .. (Len(frames) - 1)
        /\ \A i \in 1 .. (Len(frames) - 1) : frames'[i] = frames[i] /\ i \in DOMAIN frames
    BY <2>1, FrontElements
  <2> QED
    BY <1>a, <2>2, <2>3
<1>7. HeldInv'
  <2>1. ASSUME NEW i \in 1 .. a PROVE frames'[i].lits \subseteq Derived(i - 1)'
    <3>1. i - 1 \in 0 .. b
      BY <1>b
    <3> QED
      BY <3>1, <1>4, <1>6 DEF AnswerInv, HeldInv
  <2>2. mode' \notin {"search", "answered"}
    BY <1>2
  <2> QED
    BY <1>u, <1>6, <2>1, <2>2 DEF AnswerInv, HeldInv
<1>8. AlignInv'
  <2>1. a = 0 => frames' = <<>> /\ assumptions' = <<>> /\ mode' = "done"
    <3>1. a = 0 => frames' = <<>> /\ mode' = "done"
      BY <1>2, <1>6, <1>a, EmptySeq
    <3>2. a = 0 => assumptions' = <<>>
      BY <1>1, <1>b, EmptySeq DEF RestType
    <3> QED
      BY <3>1, <3>2
  <2>2. a # 0 => frames' # <<>> /\ Len(assumptions') = Len(frames') - 1 /\ mode' = "idle"
    BY <1>2, <1>6, <1>a, <1>b
  <2>3. calls' < RootCalls' => frames' = <<>>
    <3>1. RootCalls' = RootCalls /\ calls' = calls
      BY <1>u DEF RootCalls
    <3> QED
      BY <3>1, <1>2 DEF AnswerInv, AlignInv
  <2>4. DecisionLevel' <= Len(assumptions')
    BY <1>4, <1>b
  <2> QED
    BY <2>1, <2>2, <2>3, <2>4 DEF AlignInv
<1>9. CallInv'
  BY <1>2 DEF CallInv
<1>10. OutcomeInv'
  <2>1. ModelsWith(FirstAssumptions(a)) # {}
    BY <1>2, <1>a DEF AnswerInv, OutcomeInv
  <2>2. frames' # <<>> => ModelsWith(FirstAssumptions(Len(frames) - 1))' # {}
    <3> SUFFICES ASSUME frames' # <<>> PROVE ModelsWith(FirstAssumptions(Len(frames) - 1))' # {}
      OBVIOUS
    <3>1. a # 0
      BY <1>6, EmptySeq
    <3>2. Len(frames') - 1 = b
      BY <3>1, <1>6, <1>b
    <3>3. FirstAssumptions(b)' = FirstAssumptions(b)
      BY <1>4, <1>b
    <3>4. ModelsWith(FirstAssumptions(a)) \subseteq ModelsWith(FirstAssumptions(b))
      BY <1>b, FewerAssumptions
    <3>5. FirstAssumptions(Len(frames) - 1)' = FirstAssumptions(b)
      BY <1>b, <3>2, <3>3 DEF FirstAssumptions
    <3>6. ModelsWith(FirstAssumptions(Len(frames) - 1))' = ModelsWith(FirstAssumptions(b))
      BY <1>u, <3>5 DEF ModelsWith, Formula
    <3> QED
      BY <2>1, <3>4, <3>6
  <2>3. Given' = Given
    BY <1>u DEF Given
  <2>4. mode' # "answered"
    BY <1>2
  <2> QED
    BY <1>u, <1>5, <2>2, <2>3, <2>4 DEF AnswerInv, OutcomeInv
<1> QED
  BY <1>4, <1>7, <1>8, <1>9, <1>10 DEF AnswerInv

-----------------------------------------------------------------------------
\* At the start,
LEMMA InitAnswers == Init => AnswerInv
<1> SUFFICES ASSUME Init PROVE AnswerInv
  OBVIOUS
<1>1. /\ lims = <<>> /\ trail = <<>> /\ assumptions = <<>> /\ frames = <<>> /\ known = <<>> /\ calls = 0
      /\ mode = "add" /\ ok = TRUE
  BY DEF Init
<1>2. CoreType /\ RestType
  BY InitInv DEF SolverInv, CoreInv, RestInv
<1>3. DecisionLevel = 0 /\ Len(assumptions) = 0 /\ DOMAIN frames = {} /\ DOMAIN trail = {} /\ DOMAIN known = {}
  BY <1>1 DEF DecisionLevel
<1>4. Made \in Int /\ Made <= 0
  BY <1>2, <1>3, MadeIs
<1>5. 1 .. Made = {}
  BY <1>4
<1>6. AssumedInv
  BY <1>3, <1>5 DEF AssumedInv
<1>7. HeldInv
  BY <1>1, <1>3, EmptySeq DEF HeldInv
<1>8. AlignInv /\ CallInv /\ OutcomeInv
  BY <1>1 DEF AlignInv, CallInv, OutcomeInv
<1> QED
  BY <1>6, <1>7, <1>8 DEF AnswerInv

\* and by every step.
LEMMA NextAnswers == SolverInv /\ AnswerInv /\ [Next]_vars => AnswerInv'
<1> SUFFICES ASSUME SolverInv, AnswerInv, [Next]_vars PROVE AnswerInv'
  OBVIOUS
<1>1. SolverInv'
  BY NextInv
<1>2. CASE UNCHANGED vars \/ Resolved \/ Return \/ InitUnsat \/ Finished
  BY <1>1, <1>2, DriverAnswers DEF Finished
<1>3. CASE \/ TakeLiteral
           \/ \E k \in DOMAIN db : VisitSatisfied(k) \/ VisitMove(k) \/ VisitUnit(k) \/ VisitConflict(k)
  BY <1>1, <1>3, PropagateAnswers
<1>4. CASE AddClause \/ AddUnit \/ AddNothing \/ AddConflict \/ AddedUnsat
  BY <1>1, <1>4, AddAnswers, AddedUnsatAnswers
<1>5. CASE FirstCall \/ RootCall \/ Branch
  BY <1>1, <1>5, RootCallAnswers, BranchAnswers
<1>6. CASE RootConflict \/ AssumeFalse \/ Satisfiable
  BY <1>1, <1>6, RootConflictAnswers, AssumeFalseAnswers, SatisfiableAnswers
<1>7. CASE Learn \/ ResolveUnit \/ Restart \/ ProbeDone
  BY <1>1, <1>7, AssertAnswers, RestartAnswers, ProbeDoneAnswers
<1>8. CASE SearchSimplify \/ ReduceDB
  BY <1>1, <1>8, SearchSimplifyAnswers, ReduceAnswers
<1>9. CASE SearchAssume \/ Refill \/ Pick \/ Probe
  BY <1>1, <1>9, LevelAnswers, PickAnswers, ProbeAnswers
<1>10. CASE Constructed \/ SolveAgain \/ CollectUnit
  BY <1>1, <1>10, AnsweredAnswers, CollectUnitAnswers
<1>11. CASE Unsatisfiable \/ Returned
  BY <1>1, <1>11, UnsatisfiableAnswers, ReturnedAnswers
<1> QED
  BY <1>2, <1>3, <1>4, <1>5, <1>6, <1>7, <1>8, <1>9, <1>10, <1>11 DEF Next

\* While the levels are made again the assumptions have a model.
LEMMA DecidedFromInv == SolverInv /\ AnswerInv => DecidedRight
<1> SUFFICES ASSUME SolverInv, AnswerInv PROVE DecidedRight
  OBVIOUS
<1>1. CoreInv /\ RestType /\ CoreType /\ ModeInv /\ TrailInv
  BY DEF SolverInv, CoreInv, RestInv
<1>2. mode = "answered" => sat = (ModelsWith(ToSet(assumptions)) # {})
  BY DEF AnswerInv, OutcomeInv
<1>3. ASSUME Refilling PROVE conflict = 0 /\ (Quiet /\ Assuming => ~IsFalse(NextAssumption))
  <2>1. mode \in {"resolved", "return"} /\ frames # <<>> /\ ok
    BY <1>1, <1>3 DEF Refilling, ModeInv
  <2>2. PICK a \in Nat : a = Len(assumptions) /\ a = Len(frames) - 1
    BY <1>1, <2>1, MadeIs DEF AnswerInv, AlignInv
  <2>3. PICK d \in Nat : d = DecisionLevel
    BY <1>1, MadeIs
  <2>4. d <= a
    BY <2>1, <2>2, <2>3 DEF AnswerInv, AlignInv
  <2>5. PICK m : m \in ModelsWith(FirstAssumptions(a))
    BY <2>1, <2>2 DEF AnswerInv, OutcomeInv
  <2>6. m \in ModelsWith(FirstAssumptions(d))
    BY <2>4, <2>5, FewerAssumptions
  <2>7. \A l \in TrueLits : Satisfies(m, l)
    BY <2>1, <2>2, <2>3, <2>4, <2>6, ModelSatisfies
  <2>8. conflict = 0
    <3> SUFFICES ASSUME conflict # 0 PROVE FALSE
      OBVIOUS
    <3>1. conflict \in DOMAIN db /\ db[conflict].lits \subseteq Lit
      BY <1>1, Shape DEF CoreType
    <3>2. db[conflict].lits # {} /\ \A l \in db[conflict].lits : IsFalse(l)
      BY <1>1 DEF CoreInv, ConflictInv
    <3>3. m \in Models(Given)
      BY <1>1, <2>1, <2>5, GivenAll DEF ModelsWith
    <3>4. PICK l \in db[conflict].lits : Satisfies(m, l)
      BY <1>1, <3>1, <3>2, <3>3 DEF CoreInv, ImpliedInv, SatClause
    <3>5. Satisfies(m, Neg(l)) /\ l \in Lit
      BY <2>7, <3>1, <3>2 DEF IsFalse
    <3> QED
      BY <3>4, <3>5, NegSatisfied
  <2>9. ASSUME Assuming, IsFalse(NextAssumption) PROVE FALSE
    <3>1. ModelsWith(ToSet(assumptions)) = {}
      BY <2>1, <2>9, NextFalse
    <3>2. ToSet(assumptions) = FirstAssumptions(a)
      BY <1>1, <2>2, AssumptionsAre
    <3> QED
      BY <2>5, <3>1, <3>2
  <2> QED
    BY <2>8, <2>9
<1> QED
  BY <1>2, <1>3 DEF DecidedRight

\* A level that is closed has no clause left to propagate.
LEMMA LevelPropagated ==
  ASSUME SolverInv, Quiet, ok, mode # "add", NEW n \in Nat
  PROVE  Propagated(UpTo(n))
<1>1. CoreInv /\ CoreType /\ ModeInv /\ TrailInv
  BY DEF SolverInv, CoreInv, RestInv
<1>2. Given = Formula
  BY <1>1, GivenAll
<1>3. Closed(UpTo(n))
  BY <1>1, LevelClosed
<1>4. UpTo(0) \subseteq UpTo(n)
  BY <1>1, UpToGrows
<1> SUFFICES ASSUME NEW c \in Formula
             PROVE  \/ c \cap UpTo(n) # {}
                    \/ \E k, l \in c : k # l /\ Neg(k) \notin UpTo(n) /\ Neg(l) \notin UpTo(n)
                    \/ \E l \in c : Neg(l) \in c
  BY DEF Propagated
<1>5. CASE Tautology(c)
  BY <1>5 DEF Tautology
<1>6. CASE \E i \in DOMAIN trail : Root(i) /\ trail[i].lit \in c
  <2>1. PICK i \in DOMAIN trail : Root(i) /\ trail[i].lit \in c
    BY <1>6
  <2>2. trail[i].lit \in UpTo(0)
    BY <1>1, <2>1, RootLits
  <2> QED
    BY <1>4, <2>1, <2>2
<1>7. CASE \E k \in DOMAIN db : ~db[k].learnt /\ db[k].lits # {} /\ db[k].lits \subseteq c
  <2>1. PICK k \in DOMAIN db : db[k].lits # {} /\ db[k].lits \subseteq c
    BY <1>7
  <2>2. CASE \A x \in db[k].lits : Neg(x) \in UpTo(n)
    <3>1. PICK x : x \in db[k].lits
      BY <2>1
    <3>2. x \in UpTo(n)
      BY <1>3, <2>2, <3>1 DEF Closed
    <3> QED
      BY <2>1, <3>1, <3>2
  <2>3. ASSUME NEW x \in db[k].lits, Neg(x) \notin UpTo(n)
        PROVE  \/ c \cap UpTo(n) # {}
               \/ \E y, l \in c : y # l /\ Neg(y) \notin UpTo(n) /\ Neg(l) \notin UpTo(n)
    <3>1. CASE \A y \in db[k].lits \ {x} : Neg(y) \in UpTo(n)
      <4>1. x \in UpTo(n)
        BY <1>3, <2>3, <3>1 DEF Closed
      <4> QED
        BY <2>1, <2>3, <4>1
    <3>2. CASE \E y \in db[k].lits \ {x} : Neg(y) \notin UpTo(n)
      BY <2>1, <2>3, <3>2
    <3> QED
      BY <3>1, <3>2
  <2> QED
    BY <2>2, <2>3
<1> QED
  BY <1>1, <1>2, <1>5, <1>6, <1>7 DEF CoreInv, KeptInv

\* The lesser of two numbers.
LEMMA LesserIs ==
  ASSUME NEW a \in Nat, NEW b \in Nat, NEW n \in 0 .. Min({a, b})
  PROVE  n \in Nat /\ n <= a /\ n <= b
<1>1. \E x \in {a, b} : \A y \in {a, b} : x <= y
  <2>1. CASE a <= b
    BY <2>1
  <2>2. CASE b <= a
    BY <2>2
  <2> QED
    BY <2>1, <2>2
<1>2. Min({a, b}) \in {a, b} /\ \A y \in {a, b} : Min({a, b}) <= y
  BY <1>1 DEF Min
<1>3. PICK x \in {a, b} : x = Min({a, b})
  BY <1>2
<1>4. x <= a /\ x <= b /\ n \in 0 .. x
  BY <1>2, <1>3
<1> QED
  BY <1>4

LEMMA LevelsFromInv == SolverInv /\ AnswerInv => LevelsSound
<1> SUFFICES ASSUME SolverInv, AnswerInv, mode \in {"answered", "idle", "done"}, calls > 0,
                    NEW n \in 0 .. Min({DecisionLevel, Len(assumptions)})
             PROVE  /\ FirstAssumptions(n) \subseteq UpTo(n)
                    /\ ModelsWith(UpTo(n)) = ModelsWith(FirstAssumptions(n))
                    /\ ModelsWith({}) # {} => Propagated(UpTo(n))
                    /\ mode = "answered" /\ n < Len(known) /\ n < Len(assumptions) => known[n + 1] \subseteq UpTo(n)
  BY DEF LevelsSound
<1>1. CoreInv /\ RestType /\ CoreType /\ ModeInv /\ TrailInv /\ AssumedInv
  BY DEF SolverInv, CoreInv, RestInv, AnswerInv
<1>2. ok
  BY DEF AnswerInv, OutcomeInv
<1>d. PICK d \in Nat : d = DecisionLevel
  BY <1>1, MadeIs
<1>a. PICK a \in Nat : a = Len(assumptions)
  BY <1>1, MadeIs
<1>3. n \in Nat /\ n <= d /\ n <= a
  BY <1>d, <1>a, LesserIs
<1>4. n <= Made
  <2>1. Made \in {d, a}
    BY <1>d, <1>a DEF Made, Depth
  <2> QED
    BY <2>1, <1>3
<1>5. FirstAssumptions(n) \subseteq UpTo(n)
  BY <1>1, <1>3, <1>4, AssumedTrue
<1>6. ModelsWith(UpTo(n)) = ModelsWith(FirstAssumptions(n))
  <2>1. ModelsWith(UpTo(n)) \subseteq ModelsWith(FirstAssumptions(n))
    BY <1>5 DEF ModelsWith
  <2>2. ASSUME NEW m \in ModelsWith(FirstAssumptions(n)), NEW l \in UpTo(n) PROVE Satisfies(m, l)
    <3>1. l \in Derived(n)
      BY <1>1, <1>3, <1>4, TrailDerived
    <3> QED
      BY <1>1, <1>2, <1>3, <1>a, <3>1, DerivedSatisfied
  <2> QED
    BY <2>1, <2>2 DEF ModelsWith
<1>7. ModelsWith({}) # {} => Propagated(UpTo(n))
  <2>1. ModelsWith({}) = Models(Formula)
    BY DEF ModelsWith
  <2>2. ModelsWith({}) # {} => Quiet
    BY <1>1, <2>1 DEF AnswerInv, OutcomeInv, ModeInv
  <2> QED
    BY <1>2, <1>3, <2>2, LevelPropagated
<1>8. ASSUME mode = "answered", n < Len(known), n < Len(assumptions) PROVE known[n + 1] \subseteq UpTo(n)
  <2>1. Len(known) \in Nat /\ DOMAIN known = 1 .. Len(known)
    BY DEF AnswerInv, HeldInv
  <2>2. n + 1 \in DOMAIN known /\ n + 1 <= Len(assumptions) /\ (n + 1) - 1 = n
    BY <1>3, <1>8, <1>a, <2>1
  <2>3. known[n + 1] \subseteq Derived(n)
    BY <1>8, <2>2 DEF AnswerInv, HeldInv
  <2>4. frames # <<>>
    <3>1. Len(assumptions) = Len(frames)
      BY <1>8 DEF AnswerInv, AlignInv
    <3>2. Len(frames) # 0
      BY <1>3, <1>8, <1>a, <3>1
    <3> QED
      BY <3>2, EmptySeq
  <2>5. Quiet
    BY <1>1, <1>8, <2>4 DEF ModeInv
  <2>6. Derived(n) = UpTo(n)
    BY <1>1, <1>3, <1>4, <2>5, DerivedNow
  <2> QED
    BY <2>3, <2>6
<1> QED
  BY <1>5, <1>6, <1>7, <1>8

\* What the drivers of D4 read between two calls is right: the answer of
\* solveWithAssumptions though only one component was decided (Solver.cc:1052-1143),
\* no assumption refuted while refillAssums makes the levels again, and at each
\* level what was known before, the assumptions and all that propagates from them.
THEOREM AnswersCorrect == Spec => []AnswersRight
<1>1. SolverInv /\ AnswerInv => AnswersRight
  BY DecidedFromInv, LevelsFromInv DEF AnswersRight
<1>2. Init => SolverInv /\ AnswerInv
  BY InitInv, InitAnswers
<1>3. SolverInv /\ AnswerInv /\ [Next]_vars => (SolverInv /\ AnswerInv)'
  BY NextInv, NextAnswers
<1> QED
  BY <1>1, <1>2, <1>3, PTL DEF Spec

=============================================================================
