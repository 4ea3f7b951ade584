-------------------------------- MODULE Cnf --------------------------------
(***************************************************************************)
(* The formula object of projection/src/CNF.hpp as a record, and the       *)
(* methods of CNF.cpp that change it as operators from records to records: *)
(*                                                                         *)
(*   size      clauses.size(): the slots 0 .. size-1 are in use            *)
(*   clauses   the clause stored in each slot, a set of literals           *)
(*   active    the slots whose bit is set: they hold the formula's clauses *)
(*   idx       for each literal the set of slots of the clauses it is in   *)
(*   units     the literals found by propagation, kept outside clauses     *)
(*   avail     available_ids, a stack of slots that may be used again      *)
(*   nbActive  nb_active, a size_t: arithmetic wraps at WordSize           *)
(***************************************************************************)
EXTENDS Literals, FiniteSets, Sequences

CONSTANTS
  MaxClauses,   \* bound on the number of slots (the vector is unbounded)
  WordSize      \* 2^64 in the program

ASSUME MaxClausesAssumption == MaxClauses \in Nat
ASSUME WordSizeAssumption == WordSize \in Nat /\ MaxClauses < WordSize

Slot == 0 .. MaxClauses - 1
Word == 0 .. WordSize - 1
Clauses == SUBSET Lit

CnfObject == [size : 0 .. MaxClauses, clauses : [Slot -> Clauses],
              active : SUBSET Slot, idx : [Lit -> SUBSET Slot],
              units : SUBSET Lit, avail : Seq(Slot), nbActive : Word]

Inc(n) == IF n = WordSize - 1 THEN 0 ELSE n + 1
Sub(n, k) == IF k <= n THEN n - k ELSE n + WordSize - k

\* The object the constructor builds from the clauses of a file.
CnfOf(formula) ==
  LET n == Len(formula) IN
  [size |-> n,
   clauses |-> [i \in Slot |-> IF i < n THEN formula[i + 1] ELSE {}],
   active |-> {i \in Slot : i < n},
   idx |-> [l \in Lit |-> {i \in Slot : i < n /\ l \in formula[i + 1]}],
   units |-> {}, avail |-> <<>>, nbActive |-> n]

EraseId(idx, c, id) ==
  [l \in Lit |-> IF l \in c THEN idx[l] \ {id} ELSE idx[l]]
InsertId(idx, c, id) ==
  [l \in Lit |-> IF l \in c THEN idx[l] \cup {id} ELSE idx[l]]

\* Store c in slot id, new or recycled.
StoreClause(f, c, id) ==
  [f EXCEPT !.clauses[id] = c, !.active = @ \cup {id},
            !.nbActive = Inc(@), !.idx = InsertId(@, c, id)]

AddClause(f, c) ==
  IF f.avail # <<>>
  THEN [StoreClause(f, c, f.avail[Len(f.avail)])
          EXCEPT !.avail = SubSeq(@, 1, Len(@) - 1)]
  ELSE [StoreClause(f, c, f.size) EXCEPT !.size = @ + 1]

\* Mutant: the lists keep the slot.
RmClauseKeepsLists(f, id) ==
  [f EXCEPT !.active = @ \ {id}, !.avail = Append(@, id),
            !.nbActive = Sub(@, 1)]

RmClause(f, id) ==
  [f EXCEPT !.idx = EraseId(@, f.clauses[id], id), !.active = @ \ {id},
            !.avail = Append(@, id), !.nbActive = Sub(@, 1)]

(***************************************************************************)
(* add_clause_nonredundant looks for a clause that subsumes c only among   *)
(* those that contain its pivot, the first literal of c that is in the     *)
(* fewest clauses.  It reads *c.begin() first: c must not be empty.        *)
(***************************************************************************)
Pivot(f, c) ==
  CHOOSE j \in c : \A i \in c :
    \/ Cardinality(f.idx[j]) < Cardinality(f.idx[i])
    \/ Cardinality(f.idx[j]) = Cardinality(f.idx[i]) /\ j <= i

\* Mutant: subsumption the wrong way round.
RedundantReversed(f, c) ==
  \E id \in f.idx[Pivot(f, c)] : id \in f.active /\ c \subseteq f.clauses[id]

Redundant(f, c) ==
  \E id \in f.idx[Pivot(f, c)] : id \in f.active /\ f.clauses[id] \subseteq c

AddClauseNonredundant(f, c) == IF Redundant(f, c) THEN f ELSE AddClause(f, c)

(***************************************************************************)
(* Propagation.  A round first moves every active unit clause to units,    *)
(* then propagates the literals of the round one after the other.          *)
(***************************************************************************)
UnitIds(f) == {i \in f.active : \E l \in Lit : f.clauses[i] = {l}}
UnitLits(f) == UNION {f.clauses[i] : i \in UnitIds(f)}

CollectUnits(f) ==
  [f EXCEPT !.units = @ \cup UnitLits(f),
            !.active = @ \ UnitIds(f),
            !.nbActive = Sub(@, Cardinality(UnitIds(f)))]

\* Mutant: the unit clause, inactive already, is counted again.
RmSatisfiedCountsAll(f, l) ==
  [f EXCEPT !.active = @ \ f.idx[l],
            !.nbActive = Sub(@, Cardinality(f.idx[l])),
            !.idx = [k \in Lit |-> IF k = l THEN {}
                       ELSE @[k] \ {i \in f.idx[l] : k \in f.clauses[i]}]]

\* Every clause with l is satisfied and removed from the other lists.
RmSatisfied(f, l) ==
  [f EXCEPT !.active = @ \ f.idx[l],
            !.nbActive = Sub(@, Cardinality(f.idx[l] \cap f.active)),
            !.idx = [k \in Lit |-> IF k = l THEN {}
                       ELSE @[k] \ {i \in f.idx[l] : k \in f.clauses[i]}]]

\* The literal l is false: it leaves the clauses its list names.
StripLiteral(f, l) ==
  [f EXCEPT !.clauses = [i \in Slot |-> IF i \in f.idx[l] THEN @[i] \ {l} ELSE @[i]],
            !.idx[l] = {}]

Propagate(f, l) == StripLiteral(RmSatisfied(f, l), Neg(l))

IsTautology(c) == \E l \in c : Neg(l) \in c

(***************************************************************************)
(* Resolution on a variable: the clause of slot ip contains lp, that of    *)
(* slot in contains its negation.                                          *)
(***************************************************************************)
Kept(f, in, lp) == f.clauses[in] \ {lp, Neg(lp)}
\* Mutant: the resolvent keeps the literal resolved upon.
ResolventKeeps(f, ip, in, lp) == f.clauses[ip] \cup Kept(f, in, lp)
Resolvent(f, ip, in, lp) == (f.clauses[ip] \ {lp}) \cup Kept(f, in, lp)
\* Mutant: tautologies among the resolvents are not looked for.
TrivialNever(f, ip, in, lp) == FALSE
TrivialResolvent(f, ip, in, lp) ==
  \E l \in Kept(f, in, lp) : Neg(l) \in Resolvent(f, ip, in, lp)

OccurrenceProduct(f, v) ==
  Cardinality(f.idx[PosLit(v)]) * Cardinality(f.idx[NegLit(v)])

\* What the object says: the active clauses and the units.
Content(f) == {f.clauses[i] : i \in f.active} \cup {{l} : l \in f.units}

-----------------------------------------------------------------------------
(* What the methods maintain of the object. *)

(* Every active clause is in the list of each of its literals, and a list   *)
(* holds no other slot, but for the unit clauses of the literals of pending *)
(* that a round of propagation has set aside.                               *)
WellIndexed(f, pending) ==
  \A l \in Lit, i \in Slot :
    /\ i \in f.active /\ l \in f.clauses[i] => i \in f.idx[l]
    /\ i \in f.idx[l] => /\ l \in f.clauses[i]
                         /\ i \in f.active \/ (l \in pending /\ f.clauses[i] = {l})

WellCounted(f) == f.nbActive = Cardinality(f.active)

\* The stack of free slots holds slots in use for no clause, each once.
WellFreed(f) ==
  /\ \A k \in 1 .. Len(f.avail) : /\ f.avail[k] < f.size
                                  /\ f.avail[k] \notin f.active
  /\ \A j, k \in 1 .. Len(f.avail) : f.avail[j] = f.avail[k] => j = k

\* The slots past the end of the vector hold nothing.
WellSized(f) == \A i \in Slot : i >= f.size => i \notin f.active

WellFormed(f, pending) ==
  /\ f \in CnfObject
  /\ WellIndexed(f, pending) /\ WellCounted(f) /\ WellFreed(f) /\ WellSized(f)

=============================================================================
