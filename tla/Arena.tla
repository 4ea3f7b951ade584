------------------------------- MODULE Arena -------------------------------
(***************************************************************************)
(* The clauses of D4's SAT solver in memory (utils/SolverTypes.hh,         *)
(* mtl/Alloc.hh and the operations of utils/Solver.cc that allocate,       *)
(* attach, detach and free clauses or collect garbage).  A clause is a     *)
(* record at an offset of a region that only grows; a freed one stays in   *)
(* the lists of watches until they are cleaned, and a collection moves the *)
(* others and rewrites every offset held.                                  *)
(*                                                                         *)
(* The search is any that the solver may make: any decisions, any order of *)
(* the visits of watches, any lemma, any clauses with low activity.  The   *)
(* order of the literals of a clause matters for the first two, which are  *)
(* watched, and the order of a list does not matter.                       *)
(***************************************************************************)
EXTENDS Literals, FiniteSets, FiniteSetsExt, Sequences, SequencesExt

CONSTANTS
  Formulas,     \* pairs [clauses, lemmas]: the sequence of clauses added, sets of
                \* literals, and the set of those they imply
  Header,       \* words of a clause besides its literals
  MaxLearnts    \* bound on the clauses learnt

VARIABLES
  formula, added, ok,
  memory,       \* ca: the clauses from their offsets
  sz, wasted, cap,
  watches, dirty,       \* the offsets in each list, the lists with freed clauses
  trail, lims,  \* the literals in order of assignment, where levels begin
  reason,       \* vardata[v].reason; of an unassigned v, which is never read, Undef
  clauses, learnts,     \* the offsets in use
  lemmas        \* counted for the bound

region == <<memory, sz, wasted, cap>>
lists == <<watches, dirty>>
assignment == <<trail, lims, reason>>
Undef == -1
TrueLits == ToSet(trail)
IsTrue(l) == l \in TrueLits
IsFalse(l) == Neg(l) \in TrueLits
Unset(l) == ~IsTrue(l) /\ ~IsFalse(l)
LevelZero == lims = <<>>
Fixed == IF LevelZero THEN TrueLits ELSE ToSet(SubSeq(trail, 1, lims[1]))

-----------------------------------------------------------------------------
(* RegionAllocator and ClauseAllocator *)

Words(c) == Header + Cardinality(c.lits) + (IF c.learnt THEN 1 ELSE 0)

\* capacity: by 13/8 and 2, made even, until it is enough.
Capacity(c, least) ==
  LET grown[x \in 0 .. 2 * least + 2] ==
        IF x >= least THEN x
        ELSE grown[x + 2 * ((x \div 2 + x \div 8 + 2) \div 2)]
  IN IF c >= least THEN c ELSE grown[c]

\* A clause with its literals 0 and 1.
Clause(lits, first, second, learnt) ==
  [lits |-> lits, first |-> first, second |-> second, learnt |-> learnt,
   freed |-> FALSE]
Watched(c) == {c.first, c.second}

\* Clause c is written after the last one.
Alloc(c) ==
  /\ memory' = memory @@ (sz :> c)
  /\ sz' = sz + Words(c)
  /\ cap' = Capacity(cap, sz')
  /\ UNCHANGED wasted

\* attachClause, at offset r.
Attach(r, c) ==
  /\ watches' = [l \in Lit |-> IF Neg(l) \in Watched(c) THEN watches[l] \cup {r}
                               ELSE watches[l]]
  /\ UNCHANGED dirty

Locked(r) ==
  IsTrue(memory[r].first) /\ reason[VarOf(memory[r].first)] = r

-----------------------------------------------------------------------------
(* removeClause for the clauses of S, and garbage collection. *)

\* The freed clauses are marked,
Marked(S) ==
  [r \in DOMAIN memory |-> IF r \in S THEN [memory[r] EXCEPT !.freed = TRUE]
                           ELSE memory[r]]
WastedBy(S) == wasted + MapThenSumSet(LAMBDA r : Words(memory[r]), S)

\* those that are reasons are forgotten,
Forgotten(S) ==
  [v \in Var |-> IF \E r \in S : Locked(r) /\ VarOf(memory[r].first) = v
                 THEN Undef ELSE reason[v]]

\* Mutant: only the list of the first literal is smudged.
SmudgedFirst(S) == dirty \cup {Neg(memory[r].first) : r \in S}

\* and the lists that name them are dirty: they are detached lazily.
Smudged(S) == dirty \cup UNION {{Neg(l) : l \in Watched(memory[r])} : r \in S}

\* cleanAll: the freed clauses leave the dirty lists.
CleanAll(mem, soiled) ==
  [l \in Lit |-> IF l \in soiled THEN {r \in watches[l] : ~ mem[r].freed}
                 ELSE watches[l]]

\* reloc: each clause met is moved behind those moved before, here those of a
\* lower offset.
NewOffset(met, mem) ==
  [r \in met |-> MapThenSumSet(LAMBDA q : Words(mem[q]), {q \in met : q < r})]

\* relocAll: the watches are cleaned and rewritten; the reason of a variable if
\* its clause was moved already, or is locked; then the clauses.
Collect(mem, soiled, waste, reasons, lrn, cls) ==
  LET cleaned == CleanAll(mem, soiled)
      watched == UNION {cleaned[l] : l \in Lit}
      why == {r \in {reasons[VarOf(l)] : l \in TrueLits} :
                r # Undef /\ (r \in watched \/ Locked(r))}
      met == watched \cup why \cup lrn \cup cls
      new == NewOffset(met, mem)
      old(n) == CHOOSE r \in met : new[r] = n
      moved(S) == {new[r] : r \in S}
  IN
  /\ memory' = [n \in moved(met) |-> mem[old(n)]]
  /\ sz' = MapThenSumSet(LAMBDA r : Words(mem[r]), met)
  /\ wasted' = 0
  /\ cap' = Capacity(Capacity(0, sz - waste), sz')
  /\ watches' = [l \in Lit |-> moved(cleaned[l])] /\ dirty' = {}
  /\ reason' = [v \in Var |-> IF reasons[v] \in watched \cup why THEN new[reasons[v]]
                              ELSE reasons[v]]
  /\ learnts' = moved(lrn) /\ clauses' = moved(cls)

\* The clauses of S are freed, and checkGarbage collects when more than a fifth
\* of the region is wasted.
RemoveClauses(S) ==
  IF 5 * WastedBy(S) > sz
  THEN Collect(Marked(S), Smudged(S), WastedBy(S), Forgotten(S), learnts \ S,
               clauses \ S)
  ELSE /\ memory' = Marked(S) /\ wasted' = WastedBy(S)
       /\ dirty' = Smudged(S) /\ reason' = Forgotten(S)
       /\ learnts' = learnts \ S /\ clauses' = clauses \ S
       /\ UNCHANGED <<sz, cap, watches>>

-----------------------------------------------------------------------------
(* Operations of the solver *)

Start ==
  /\ formula \in Formulas
  /\ added = 0 /\ ok = TRUE
  /\ memory = <<>> /\ sz = 0 /\ wasted = 0 /\ cap = 0
  /\ watches = [l \in Lit |-> {}] /\ dirty = {}
  /\ trail = <<>> /\ lims = <<>> /\ reason = [v \in Var |-> Undef]
  /\ clauses = {} /\ learnts = {}
  /\ lemmas = 0

\* Visiting clause r sets a literal or finds a conflict.
Unsettled(p, r) ==
  IsTrue(p) /\ ~ memory[r].freed /\ \A l \in memory[r].lits : ~IsTrue(l)

\* Nothing is left to propagate.
Quiet == ok /\ \A p \in Lit : \A r \in watches[p] : ~Unsettled(p, r)

\* addClause_: a satisfied clause is dropped, false literals are left out.
AddClause ==
  /\ Quiet /\ LevelZero /\ added < Len(formula.clauses)
  /\ added' = added + 1
  /\ LET given == formula.clauses[added + 1]
         ps == {l \in given : ~IsFalse(l)}
     IN
     \/ /\ given \cap TrueLits # {}
        /\ UNCHANGED <<ok, region, lists, assignment, clauses>>
     \/ /\ given \cap TrueLits = {} /\ Cardinality(ps) >= 2
        /\ LET sorted == SetToSortSeq(ps, <)
               c == Clause(ps, sorted[1], sorted[2], FALSE)
           IN Alloc(c) /\ Attach(sz, c)
        /\ clauses' = clauses \cup {sz}
        /\ UNCHANGED <<ok, assignment>>
     \/ /\ given \cap TrueLits = {} /\ Cardinality(ps) <= 1
        /\ ok' = (ps # {}) /\ trail' = trail \o SetToSeq(ps)
        /\ UNCHANGED <<region, lists, lims, reason, clauses>>
  /\ UNCHANGED <<formula, learnts, lemmas>>

\* propagate begins with cleanAll; then clauses with a watch of a true literal p
\* are visited.  The false literal is put second; if the first is not true the
\* clause is watched elsewhere, or its first literal is set.
Visit(p, r) ==
  LET c == memory[r]
      first == IF c.first = Neg(p) THEN c.second ELSE c.first
      others == {l \in c.lits \ Watched(c) : ~IsFalse(l)}
      cleaned == CleanAll(memory, dirty)
  IN
  /\ ok /\ IsTrue(p) /\ r \in cleaned[p] /\ ~IsTrue(first)
  /\ dirty' = {}
  /\ \/ \E l \in others :
          /\ memory' = [memory EXCEPT ![r].first = first, ![r].second = l]
          /\ watches' = [cleaned EXCEPT ![p] = @ \ {r}, ![Neg(l)] = @ \cup {r}]
          /\ UNCHANGED <<trail, reason>>
     \/ /\ others = {} /\ Unset(first)
        /\ memory' = [memory EXCEPT ![r].first = first, ![r].second = Neg(p)]
        /\ watches' = cleaned
        /\ trail' = Append(trail, first)
        /\ reason' = [reason EXCEPT ![VarOf(first)] = r]
  /\ UNCHANGED <<formula, added, ok, sz, wasted, cap, lims, clauses, learnts, lemmas>>

\* A branch, or the next assumption.
Decide(l) ==
  /\ Quiet /\ added = Len(formula.clauses) /\ Unset(l)
  /\ lims' = Append(lims, Len(trail))
  /\ trail' = Append(trail, l)
  /\ UNCHANGED <<formula, added, ok, reason, region, lists, clauses, learnts, lemmas>>

UpTo(n) == IF n < Len(lims) THEN SubSeq(trail, 1, lims[n + 1]) ELSE trail
ReasonsUpTo(n) ==
  [v \in Var |-> IF \E l \in ToSet(UpTo(n)) : VarOf(l) = v THEN reason[v] ELSE Undef]

\* cancelUntil, for a restart or the end of a call.
CancelUntil(n) ==
  /\ Quiet /\ n \in 0 .. Len(lims) - 1
  /\ trail' = UpTo(n) /\ lims' = SubSeq(lims, 1, n) /\ reason' = ReasonsUpTo(n)
  /\ UNCHANGED <<formula, added, ok, region, lists, clauses, learnts, lemmas>>

Conflict ==
  \E p \in Lit : \E r \in watches[p] :
    Unsettled(p, r) /\ \A l \in memory[r].lits : IsFalse(l)

Refuted ==
  /\ ok /\ LevelZero /\ Conflict
  /\ ok' = FALSE
  /\ UNCHANGED <<formula, added, region, lists, assignment, clauses, learnts, lemmas>>

\* After a conflict: a lemma is learnt that is unit at an earlier level n, its
\* second literal having that level, and its first one is set.
Learn(n) ==
  /\ ok /\ Conflict /\ n \in 0 .. Len(lims) - 1 /\ lemmas < MaxLearnts
  /\ LET before == ToSet(UpTo(n))
         latest == IF n = 0 THEN before ELSE before \ ToSet(UpTo(n - 1))
     IN
     \E lemma \in formula.lemmas : \E first \in lemma :
       /\ {first, Neg(first)} \cap before = {}
       /\ \A l \in lemma \ {first} : Neg(l) \in before
       /\ \/ /\ lemma = {first} /\ n = 0
             /\ reason' = ReasonsUpTo(0)
             /\ UNCHANGED <<region, lists, learnts>>
          \/ \E second \in lemma \ {first} :
             LET c == Clause(lemma, first, second, TRUE) IN
             /\ Neg(second) \in latest
             /\ Alloc(c) /\ Attach(sz, c)
             /\ learnts' = learnts \cup {sz}
             /\ reason' = [ReasonsUpTo(n) EXCEPT ![VarOf(first)] = sz]
       /\ trail' = Append(UpTo(n), first)
  /\ lims' = SubSeq(lims, 1, n)
  /\ lemmas' = lemmas + 1
  /\ UNCHANGED <<formula, added, ok, clauses>>

\* reduceDB: of the learnt clauses with three literals or more that are not
\* locked, those with a low activity are removed.
ReduceDB ==
  /\ Quiet
  /\ \E S \in SUBSET {r \in learnts : Cardinality(memory[r].lits) > 2 /\ ~Locked(r)} :
       RemoveClauses(S)
  /\ UNCHANGED <<formula, added, ok, trail, lims, lemmas>>

\* simplify: at level 0, the satisfied clauses are removed.
Simplify ==
  /\ Quiet /\ LevelZero /\ added = Len(formula.clauses)
  /\ RemoveClauses({r \in learnts \cup clauses : memory[r].lits \cap TrueLits # {}})
  /\ UNCHANGED <<formula, added, ok, trail, lims, lemmas>>

ANext ==
  \/ AddClause \/ Refuted \/ ReduceDB \/ Simplify
  \/ \E p \in Lit : Decide(p) \/ \E r \in watches[p] : Visit(p, r)
  \/ \E n \in 0 .. Len(lims) : CancelUntil(n) \/ Learn(n)

-----------------------------------------------------------------------------
(* Properties *)

InUse == clauses \cup learnts

\* Every offset held leads to the clause it was taken for, through lazy
\* detaching and collections: the lists of clauses to clauses in use, a watch to
\* one with that literal among its first two (or to a freed one, in a list that
\* is dirty), and the reason of a literal to a clause whose first literal it is,
\* the others being false.
NothingDangles ==
  /\ InUse = {r \in DOMAIN memory : ~ memory[r].freed}
  /\ \A l \in Lit :
       /\ \A r \in watches[l] \ InUse : r \in DOMAIN memory /\ l \in dirty
       /\ watches[l] \cap InUse = {r \in InUse : Neg(l) \in Watched(memory[r])}
  /\ \A i \in DOMAIN trail :
       LET r == reason[VarOf(trail[i])] IN
       r # Undef =>
         /\ r \in InUse /\ memory[r].first = trail[i]
         /\ \A l \in memory[r].lits \ {trail[i]} : IsFalse(l)

\* The clauses do not overlap, lie within the region and account for its use.
RegionExact ==
  /\ sz = MapThenSumSet(LAMBDA r : Words(memory[r]), DOMAIN memory) /\ sz <= cap
  /\ wasted = MapThenSumSet(LAMBDA r : Words(memory[r]), DOMAIN memory \ InUse)
  /\ \A r \in DOMAIN memory : \A q \in DOMAIN memory :
       r < q => r + Words(memory[r]) <= q

\* No clause is lost or changed: each one added is in use, without the literals
\* that are false for good, or is satisfied for good.
NothingLost ==
  \A i \in 1 .. added :
    LET given == formula.clauses[i] IN
    \/ ~ ok \/ given \cap Fixed # {}
    \/ \E r \in clauses : /\ memory[r].lits \subseteq given
                          /\ \A l \in given \ memory[r].lits : Neg(l) \in Fixed

ArenaSound == NothingDangles /\ RegionExact /\ NothingLost

=============================================================================
