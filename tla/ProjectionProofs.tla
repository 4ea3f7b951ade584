-------------------------- MODULE ProjectionProofs --------------------------
(***************************************************************************)
(* The bookkeeping of the projection tool, proved for every number of      *)
(* variables, every bound on the number of clauses and every input file:   *)
(* what the methods of the formula object preserve, then what the actions  *)
(* of the tool do.  Then what the files mean: the projected formula is the *)
(* projection, wherever project() stopped, and the two formulas together   *)
(* have the models of the input.                                           *)
(***************************************************************************)
EXTENDS Projection, FiniteSetTheorems, SequenceTheorems, TLAPS

-----------------------------------------------------------------------------
(* The methods of the object. *)

\* Negation is an involution on literals without a fixed point (var.hpp, ~).
LEMMA NegLemma ==
  ASSUME NEW l \in Lit
  PROVE  /\ Neg(l) \in Lit
         /\ Neg(Neg(l)) = l
         /\ Neg(l) # l
  BY NumVarsAssumption DEF Lit, Neg

\* The two literals of a variable are literals, and each negates the other.
LEMMA VarLemma ==
  ASSUME NEW x \in Var
  PROVE  /\ PosLit(x) \in Lit /\ NegLit(x) \in Lit
         /\ Neg(PosLit(x)) = NegLit(x) /\ Neg(NegLit(x)) = PosLit(x)
         /\ PosLit(x) # NegLit(x)
  BY NumVarsAssumption DEF Lit, Neg, Var, PosLit, NegLit

\* The active slots are finitely many and no more than the vector can hold.
LEMMA ActiveFinite ==
  ASSUME NEW f \in CnfObject
  PROVE  /\ IsFiniteSet(f.active)
         /\ Cardinality(f.active) \in Nat
         /\ Cardinality(f.active) <= MaxClauses
         /\ f.active \subseteq Slot
<1>1. IsFiniteSet(Slot) /\ Cardinality(Slot) = MaxClauses
  BY MaxClausesAssumption, FS_Interval DEF Slot
<1>2. f.active \in SUBSET Slot
  BY DEF CnfObject
<1> QED
  BY <1>1, <1>2, FS_Subset, FS_CardinalityType

\* RmClause keeps the type (rm_clause).
LEMMA RmClauseType ==
  ASSUME NEW f \in CnfObject, NEW id \in Slot
  PROVE  RmClause(f, id) \in CnfObject
<1>1. EraseId(f.idx, f.clauses[id], id) \in [Lit -> SUBSET Slot]
  BY DEF EraseId, CnfObject
<1>2. Append(f.avail, id) \in Seq(Slot)
  BY DEF CnfObject
<1>3. Sub(f.nbActive, 1) \in Word
  BY WordSizeAssumption, MaxClausesAssumption DEF Sub, Word, CnfObject
<1>4. f.active \ {id} \in SUBSET Slot
  BY DEF CnfObject
<1> QED
  BY <1>1, <1>2, <1>3, <1>4 DEF RmClause, CnfObject

\* The fields of the object after RmClause.
LEMMA RmClauseFields ==
  ASSUME NEW f \in CnfObject, NEW id \in Slot
  PROVE  LET g == RmClause(f, id) IN
         /\ g.size = f.size /\ g.clauses = f.clauses /\ g.units = f.units
         /\ g.active = f.active \ {id}
         /\ g.idx = EraseId(f.idx, f.clauses[id], id)
         /\ g.avail = Append(f.avail, id)
         /\ g.nbActive = Sub(f.nbActive, 1)
  BY DEF RmClause, CnfObject

\* Removing an active clause keeps the object well indexed, counted, freed and
\* sized (rm_clause on a slot that is active).
LEMMA RmClauseWell ==
  ASSUME NEW f \in CnfObject, NEW id \in Slot,
         id \in f.active, id < f.size,
         WellIndexed(f, {}), WellCounted(f), WellFreed(f), WellSized(f)
  PROVE  LET g == RmClause(f, id) IN
         WellIndexed(g, {}) /\ WellCounted(g) /\ WellFreed(g) /\ WellSized(g)
<1> DEFINE g == RmClause(f, id)
<1>0. /\ g.size = f.size /\ g.clauses = f.clauses
      /\ g.active = f.active \ {id}
      /\ g.idx = EraseId(f.idx, f.clauses[id], id)
      /\ g.avail = Append(f.avail, id)
      /\ g.nbActive = Sub(f.nbActive, 1)
  BY RmClauseFields
<1>a. /\ f.active \in SUBSET Slot /\ f.idx \in [Lit -> SUBSET Slot]
      /\ f.clauses \in [Slot -> Clauses] /\ f.avail \in Seq(Slot)
      /\ f.nbActive \in Word /\ f.size \in 0 .. MaxClauses
  BY DEF CnfObject
<1> HIDE DEF g
<1>1. WellIndexed(g, {})
  BY <1>0, <1>a DEF WellIndexed, EraseId
<1>2. WellCounted(g)
  <2>1. g.active = f.active \ {id}
    BY <1>0, <1>a
  <2>2. id \in f.active
    OBVIOUS
  <2>3. Cardinality(g.active) = Cardinality(f.active) - 1
    BY <2>1, <2>2, ActiveFinite, FS_RemoveElement
  <2>4. Cardinality(f.active) \in Nat /\ Cardinality(f.active) # 0
    BY <2>2, ActiveFinite, FS_EmptySet
  <2> QED
    BY <2>3, <2>4, <1>0 DEF WellCounted, Sub
<1>3. WellFreed(g)
  <2> DEFINE n == Len(f.avail)
  <2>1. /\ n \in Nat /\ Len(g.avail) = n + 1 /\ g.avail[n + 1] = id
        /\ \A k \in 1 .. n : g.avail[k] = f.avail[k] /\ f.avail[k] \in Slot
    BY <1>0, <1>a
  <2>2. \A k \in 1 .. n : /\ f.avail[k] < f.size /\ f.avail[k] \notin f.active
                          /\ f.avail[k] # id
    BY DEF WellFreed
  <2> HIDE DEF n
  <2>3. \A k \in 1 .. n + 1 : g.avail[k] < g.size /\ g.avail[k] \notin g.active
    <3>1. \A i \in Slot : i \notin f.active \/ i = id => i \notin g.active
      BY <1>0, <1>a
    <3>2. \A k \in 1 .. n : g.avail[k] < g.size /\ g.avail[k] \notin g.active
      BY <1>0, <2>1, <2>2, <3>1
    <3>3. g.avail[n + 1] < g.size /\ g.avail[n + 1] \notin g.active
      BY <1>0, <2>1, <3>1
    <3> QED
      BY <2>1, <3>2, <3>3
  <2>4. \A j, k \in 1 .. n : f.avail[j] = f.avail[k] => j = k
    BY DEF WellFreed, n
  <2>5. \A j, k \in 1 .. n + 1 : g.avail[j] = g.avail[k] => j = k
    BY <2>1, <2>2, <2>4
  <2> QED
    BY <2>1, <2>3, <2>5 DEF WellFreed
<1>4. WellSized(g)
  BY <1>0, <1>a DEF WellSized
<1> QED
  BY <1>1, <1>2, <1>3, <1>4 DEF g

\* All but the last element of a sequence.
LEMMA FrontLemma ==
  ASSUME NEW S, NEW t \in Seq(S), Len(t) >= 1
  PROVE  /\ SubSeq(t, 1, Len(t) - 1) \in Seq(S)
         /\ Len(SubSeq(t, 1, Len(t) - 1)) = Len(t) - 1
         /\ \A k \in 1 .. Len(t) - 1 : SubSeq(t, 1, Len(t) - 1)[k] = t[k]
<1>1. PICK n \in Nat : n = Len(t) - 1 /\ \A k \in 1 .. n : t[k] \in S
  OBVIOUS
<1>2. PICK s : s = SubSeq(t, 1, n)
  OBVIOUS
<1>3. /\ s \in Seq(S)
      /\ Len(s) = IF 1 <= n THEN n - 1 + 1 ELSE 0
      /\ \A i \in 1 .. n - 1 + 1 : s[i] = t[1 + i - 1]
  BY <1>1, <1>2, SubSeqProperties
<1>4. \A k \in 1 .. n : s[k] = t[k]
  BY <1>3
<1>5. Len(s) = n
  BY <1>3
<1> QED
  BY <1>1, <1>2, <1>3, <1>4, <1>5

\* g is the object f with clause c in slot id, which held none.
Stored(f, c, id, g) ==
  /\ id \notin f.active /\ id < g.size
  /\ g.size \in {f.size, f.size + 1} /\ g.size \in 0 .. MaxClauses
  /\ g.clauses = [f.clauses EXCEPT ![id] = c]
  /\ g.active = f.active \cup {id}
  /\ g.idx = InsertId(f.idx, c, id)
  /\ g.units = f.units
  /\ g.nbActive = Inc(f.nbActive)
  /\ g.avail \in Seq(Slot) /\ Len(g.avail) <= Len(f.avail)
  /\ \A k \in 1 .. Len(g.avail) : g.avail[k] = f.avail[k] /\ g.avail[k] # id
  /\ g = [size |-> g.size, clauses |-> g.clauses, active |-> g.active,
          idx |-> g.idx, units |-> g.units, avail |-> g.avail,
          nbActive |-> g.nbActive]

\* Whether a slot is new or recycled, AddClause puts the clause in a slot that
\* held none, and touches no other (add_clause).
LEMMA AddClauseStores ==
  ASSUME NEW f \in CnfObject, NEW c \in Clauses,
         f.avail # <<>> \/ f.size < MaxClauses,
         WellFreed(f), WellSized(f)
  PROVE  \E id \in Slot : Stored(f, c, id, AddClause(f, c))
<1> DEFINE g == AddClause(f, c)
           n == Len(f.avail)
<1>a. /\ f.active \in SUBSET Slot /\ f.avail \in Seq(Slot)
      /\ f.size \in 0 .. MaxClauses /\ n \in Nat
      /\ f = [size |-> f.size, clauses |-> f.clauses, active |-> f.active,
              idx |-> f.idx, units |-> f.units, avail |-> f.avail,
              nbActive |-> f.nbActive]
  BY DEF CnfObject
<1>1. CASE f.avail # <<>>
  <2> DEFINE id == f.avail[n]
             s == SubSeq(f.avail, 1, n - 1)
  <2>1. n >= 1 /\ id \in Slot /\ id \notin f.active /\ id < f.size
    BY <1>1, <1>a, EmptySeq DEF WellFreed
  <2>2. s \in Seq(Slot) /\ Len(s) = n - 1 /\ \A k \in 1 .. n - 1 : s[k] = f.avail[k]
    BY <2>1, <1>a, FrontLemma
  <2>3. \A k \in 1 .. n - 1 : f.avail[k] # id
    BY <2>1, <1>a DEF WellFreed
  <2>4. g = [size |-> f.size, clauses |-> [f.clauses EXCEPT ![id] = c],
             active |-> f.active \cup {id},
             idx |-> InsertId(f.idx, c, id), units |-> f.units,
             avail |-> s, nbActive |-> Inc(f.nbActive)]
    BY <1>1, <1>a DEF AddClause, StoreClause
  <2> HIDE DEF g, s, id
  <2>5. g = [size |-> g.size, clauses |-> g.clauses, active |-> g.active,
             idx |-> g.idx, units |-> g.units, avail |-> g.avail,
             nbActive |-> g.nbActive]
    BY <2>4
  <2>6. /\ g.avail \in Seq(Slot) /\ Len(g.avail) <= Len(f.avail)
        /\ \A k \in 1 .. Len(g.avail) : g.avail[k] = f.avail[k] /\ g.avail[k] # id
    BY <2>2, <2>3, <2>4, <1>a
  <2>7. Stored(f, c, id, g)
    BY <2>1, <2>4, <2>5, <2>6, <1>a DEF Stored
  <2> QED
    BY <2>1, <2>7 DEF g
<1>2. CASE f.avail = <<>>
  <2> DEFINE id == f.size
  <2>1. id \in Slot /\ id \notin f.active /\ f.size < MaxClauses
    BY <1>2, <1>a, MaxClausesAssumption DEF WellSized, Slot
  <2>2. g = [size |-> f.size + 1, clauses |-> [f.clauses EXCEPT ![id] = c],
             active |-> f.active \cup {id},
             idx |-> InsertId(f.idx, c, id), units |-> f.units,
             avail |-> f.avail, nbActive |-> Inc(f.nbActive)]
    BY <1>2, <1>a DEF AddClause, StoreClause
  <2> HIDE DEF g
  <2>3. g.avail = f.avail /\ Len(g.avail) = 0 /\ n = 0
    BY <1>2, <2>2, EmptySeq
  <2>4. g = [size |-> g.size, clauses |-> g.clauses, active |-> g.active,
             idx |-> g.idx, units |-> g.units, avail |-> g.avail,
             nbActive |-> g.nbActive]
    BY <2>2
  <2>5. /\ g.avail \in Seq(Slot) /\ Len(g.avail) <= Len(f.avail)
        /\ \A k \in 1 .. Len(g.avail) : g.avail[k] = f.avail[k] /\ g.avail[k] # id
    BY <2>3, <1>a
  <2>6. Stored(f, c, id, g)
    BY <2>1, <2>2, <2>4, <2>5, <1>a, MaxClausesAssumption DEF Stored
  <2> QED
    BY <2>1, <2>6 DEF g
<1> QED
  BY <1>1, <1>2

\* AddClause keeps the type and everything rm_clause keeps.  The count cannot
\* wrap: the slot it takes was free, so fewer than MaxClauses were active.
LEMMA AddClauseWell ==
  ASSUME NEW f \in CnfObject, NEW c \in Clauses,
         f.avail # <<>> \/ f.size < MaxClauses,
         WellIndexed(f, {}), WellCounted(f), WellFreed(f), WellSized(f)
  PROVE  LET g == AddClause(f, c) IN
         /\ g \in CnfObject
         /\ WellIndexed(g, {}) /\ WellCounted(g) /\ WellFreed(g) /\ WellSized(g)
<1> DEFINE g == AddClause(f, c)
<1>0. PICK id \in Slot : Stored(f, c, id, g)
  BY AddClauseStores
<1> HIDE DEF g
<1>a. /\ f.active \in SUBSET Slot /\ f.idx \in [Lit -> SUBSET Slot]
      /\ f.clauses \in [Slot -> Clauses] /\ f.avail \in Seq(Slot)
      /\ f.units \in SUBSET Lit
      /\ f.nbActive \in Word /\ f.size \in 0 .. MaxClauses
  BY DEF CnfObject
<1>2. /\ g.active = f.active \cup {id} /\ id \notin f.active
      /\ g.active \in SUBSET Slot
  BY <1>0, <1>a DEF Stored
<1>3. /\ Cardinality(g.active) = Cardinality(f.active) + 1
      /\ Cardinality(g.active) <= MaxClauses
      /\ Cardinality(f.active) \in Nat
  <2>1. IsFiniteSet(Slot) /\ Cardinality(Slot) = MaxClauses
    BY MaxClausesAssumption, FS_Interval DEF Slot
  <2>2. IsFiniteSet(f.active) /\ Cardinality(f.active) \in Nat
    BY ActiveFinite
  <2>3. Cardinality(g.active) = Cardinality(f.active) + 1
    BY <1>2, <2>2, FS_AddElement
  <2> QED
    BY <1>2, <2>1, <2>2, <2>3, FS_Subset
<1>4. g.nbActive = f.nbActive + 1 /\ g.nbActive \in Word
  BY <1>0, <1>3, <1>a, WordSizeAssumption, MaxClausesAssumption
  DEF WellCounted, Inc, Word, Stored
<1>5. g.idx \in [Lit -> SUBSET Slot]
  BY <1>0, <1>a DEF InsertId, Stored
<1>6. g \in CnfObject
  <2>1. /\ g.clauses \in [Slot -> Clauses] /\ g.active \in SUBSET Slot
        /\ g.units \in SUBSET Lit /\ g.avail \in Seq(Slot)
        /\ g.size \in 0 .. MaxClauses
    BY <1>0, <1>a DEF Stored
  <2>2. g = [size |-> g.size, clauses |-> g.clauses, active |-> g.active,
             idx |-> g.idx, units |-> g.units, avail |-> g.avail,
             nbActive |-> g.nbActive]
    BY <1>0 DEF Stored
  <2> QED
    BY <1>4, <1>5, <2>1, <2>2 DEF CnfObject
<1>7. WellIndexed(g, {})
  BY <1>0, <1>a DEF WellIndexed, InsertId, Stored
<1>8. WellCounted(g)
  BY <1>3, <1>4 DEF WellCounted
<1>9. WellFreed(g)
  <2> DEFINE n == Len(g.avail)
  <2>1. n \in Nat /\ Len(f.avail) \in Nat /\ n <= Len(f.avail)
    BY <1>0, <1>a DEF Stored
  <2>2. \A k \in 1 .. n : /\ f.avail[k] \in Slot /\ f.avail[k] < f.size
                          /\ f.avail[k] \notin f.active
    BY <2>1, <1>a DEF WellFreed
  <2>3. \A k \in 1 .. n : g.avail[k] \notin g.active
    BY <2>1, <2>2, <1>0, <1>a DEF Stored
  <2>4. \A k \in 1 .. n : g.avail[k] < g.size
    BY <2>2, <1>0, <1>a DEF Slot, Stored
  <2>5. \A j, k \in 1 .. n : g.avail[j] = g.avail[k] => j = k
    BY <2>1, <1>0 DEF WellFreed, Stored
  <2> QED
    BY <2>3, <2>4, <2>5 DEF WellFreed
<1>10. WellSized(g)
  BY <1>0, <1>a DEF WellSized, Slot, Stored
<1> QED
  BY <1>6, <1>7, <1>8, <1>9, <1>10 DEF g

\* What the constructor builds is well formed (CNF::CNF(path)).
LEMMA CnfOfWell ==
  ASSUME NEW fml \in Seq(Clauses), Len(fml) <= MaxClauses
  PROVE  LET g == CnfOf(fml) IN
         /\ g \in CnfObject
         /\ WellIndexed(g, {}) /\ WellCounted(g) /\ WellFreed(g) /\ WellSized(g)
<1> DEFINE g == CnfOf(fml)
           n == Len(fml)
<1>1. n \in 0 .. MaxClauses /\ n \in Word /\ n \in Nat
  BY MaxClausesAssumption, WordSizeAssumption DEF Word
<1>2. \A i \in Slot : i < n => fml[i + 1] \in Clauses
  BY <1>1 DEF Slot
<1>3. /\ g.clauses \in [Slot -> Clauses] /\ g.active \in SUBSET Slot
      /\ g.idx \in [Lit -> SUBSET Slot]
  BY <1>1, <1>2 DEF CnfOf, Clauses
<1>4. g \in CnfObject
  BY <1>1, <1>3, EmptySeq DEF CnfOf, CnfObject
<1>5. WellIndexed(g, {})
  BY <1>1 DEF CnfOf, WellIndexed
<1>6. WellCounted(g)
  <2>1. g.active = 0 .. n - 1
    BY <1>1, MaxClausesAssumption DEF CnfOf, Slot
  <2> QED
    <3>1. Cardinality(0 .. n - 1) = n
      <4>1. 0 \in Int /\ n - 1 \in Int
        BY <1>1
      <4>2. Cardinality(0 .. n - 1) = IF 0 > n - 1 THEN 0 ELSE n - 1 - 0 + 1
        BY <4>1, FS_Interval
      <4> QED
        BY <1>1, <4>2
    <3> QED
      BY <2>1, <3>1 DEF WellCounted, CnfOf
<1>7. WellFreed(g) /\ WellSized(g)
  <2>1. Len(g.avail) = 0
    BY EmptySeq DEF CnfOf
  <2>2. \A k \in 1 .. 0 : FALSE
    OBVIOUS
  <2>3. WellFreed(g)
    BY <2>1, <2>2 DEF WellFreed
  <2>4. WellSized(g)
    BY <1>1 DEF CnfOf, WellSized, Slot
  <2> QED
    BY <2>3, <2>4
<1> QED
  BY <1>4, <1>5, <1>6, <1>7

\* Deactivating the slots of a set T of active ones keeps count and stack.
LEMMA DeactivateWell ==
  ASSUME NEW f \in CnfObject, NEW T \in SUBSET Slot, NEW g \in CnfObject,
         WellCounted(f), WellFreed(f), WellSized(f),
         g.active = f.active \ T,
         g.nbActive = Sub(f.nbActive, Cardinality(T \cap f.active)),
         g.size = f.size, g.avail = f.avail
  PROVE  WellCounted(g) /\ WellFreed(g) /\ WellSized(g)
<1>a. f.active \in SUBSET Slot /\ f.avail \in Seq(Slot)
  BY DEF CnfObject
<1>1. WellCounted(g)
  <2>1. g.active = f.active \ T
    OBVIOUS
  <2>2. Cardinality(g.active)
          = Cardinality(f.active) - Cardinality(f.active \cap T)
    BY <2>1, ActiveFinite, FS_Difference
  <2>3. Cardinality(T \cap f.active) \in Nat
    BY ActiveFinite, FS_Intersection, FS_CardinalityType
  <2>4. Cardinality(T \cap f.active) <= Cardinality(f.active)
    BY ActiveFinite, FS_Intersection
  <2>5. T \cap f.active = f.active \cap T
    OBVIOUS
  <2> QED
    BY <2>2, <2>3, <2>4, <2>5, ActiveFinite DEF WellCounted, Sub
<1>2. \A i \in Slot : i \notin f.active => i \notin g.active
  OBVIOUS
<1>3. WellFreed(g)
  BY <1>2, <1>a DEF WellFreed
<1>4. WellSized(g)
  BY <1>2 DEF WellSized
<1> QED
  BY <1>1, <1>3, <1>4

\* The start of a round of propagation (simplify).
LEMMA CollectWell ==
  ASSUME NEW f \in CnfObject,
         WellIndexed(f, {}), WellCounted(f), WellFreed(f), WellSized(f)
  PROVE  LET g == CollectUnits(f) IN
         /\ g \in CnfObject
         /\ WellIndexed(g, UnitLits(f))
         /\ WellCounted(g) /\ WellFreed(g) /\ WellSized(g)
         /\ g.clauses = f.clauses /\ UnitLits(f) \in SUBSET Lit
<1> DEFINE g == CollectUnits(f)
           U == UnitIds(f)
<1>a. /\ f.active \in SUBSET Slot /\ f.clauses \in [Slot -> SUBSET Lit]
      /\ f.nbActive \in Word /\ f.units \in SUBSET Lit
  BY DEF CnfObject, Clauses
<1>1. /\ U \in SUBSET Slot /\ U \cap f.active = U
      /\ UnitLits(f) \in SUBSET Lit
  BY <1>a DEF UnitIds, UnitLits
<1>2. Cardinality(U) \in Nat /\ Cardinality(U) <= Cardinality(f.active)
  BY <1>1, ActiveFinite, FS_Subset, FS_CardinalityType
<1>3. Sub(f.nbActive, Cardinality(U)) \in Word
  BY <1>2, <1>a, ActiveFinite, WordSizeAssumption DEF WellCounted, Sub, Word
<1>4. /\ g.size = f.size /\ g.clauses = f.clauses /\ g.active = f.active \ U
      /\ g.idx = f.idx /\ g.units = f.units \cup UnitLits(f)
      /\ g.avail = f.avail /\ g.nbActive = Sub(f.nbActive, Cardinality(U))
  BY DEF CollectUnits, CnfObject
<1>5. g \in CnfObject
  <2>1. f.active \ U \in SUBSET Slot /\ f.units \cup UnitLits(f) \in SUBSET Lit
    BY <1>1, <1>a
  <2> QED
    BY <1>3, <2>1 DEF CollectUnits, CnfObject
<1> HIDE DEF g
<1>6. WellIndexed(g, UnitLits(f))
  <2> SUFFICES ASSUME NEW l \in Lit, NEW i \in Slot
      PROVE /\ i \in g.active /\ l \in g.clauses[i] => i \in g.idx[l]
            /\ i \in g.idx[l] => /\ l \in g.clauses[i]
                                 /\ \/ i \in g.active
                                    \/ l \in UnitLits(f) /\ g.clauses[i] = {l}
    BY DEF WellIndexed
  <2>1. i \in g.active => i \in f.active
    BY <1>4
  <2>2. i \in g.idx[l] => i \in f.active /\ l \in f.clauses[i]
    BY <1>4 DEF WellIndexed
  <2>3. i \in f.active /\ i \notin g.active => i \in U
    BY <1>4, <1>a
  <2>4. i \in U /\ l \in f.clauses[i] => l \in UnitLits(f) /\ f.clauses[i] = {l}
    BY <1>a DEF UnitIds, UnitLits
  <2> QED
    BY <2>1, <2>2, <2>3, <2>4, <1>4 DEF WellIndexed
<1>7. WellCounted(g) /\ WellFreed(g) /\ WellSized(g)
  <2>1. /\ g.active = f.active \ U /\ g.size = f.size /\ g.avail = f.avail
        /\ g.nbActive = Sub(f.nbActive, Cardinality(U \cap f.active))
    BY <1>1, <1>4
  <2> QED
    BY <1>1, <1>5, <2>1, DeactivateWell
<1> QED
  BY <1>1, <1>4, <1>5, <1>6, <1>7 DEF g

\* Removing the clauses that l satisfies (the first inner loop of simplify).
LEMMA RmSatisfiedWell ==
  ASSUME NEW f \in CnfObject, NEW l \in Lit, NEW R \in SUBSET Lit,
         WellIndexed(f, R), WellCounted(f), WellFreed(f), WellSized(f)
  PROVE  LET g == RmSatisfied(f, l) IN
         /\ g \in CnfObject
         /\ WellIndexed(g, R) /\ WellCounted(g) /\ WellFreed(g) /\ WellSized(g)
         /\ g.idx[l] = {} /\ g.clauses = f.clauses /\ g.active \subseteq f.active
         /\ \A k \in Lit : g.idx[k] \subseteq f.idx[k]
<1> DEFINE g == RmSatisfied(f, l)
           T == f.idx[l]
<1>a. /\ f.active \in SUBSET Slot /\ f.idx \in [Lit -> SUBSET Slot]
      /\ f.clauses \in [Slot -> Clauses] /\ f.nbActive \in Word
  BY DEF CnfObject
<1>1. /\ g.size = f.size /\ g.clauses = f.clauses /\ g.units = f.units
      /\ g.active = f.active \ T /\ g.avail = f.avail
      /\ g.idx = [k \in Lit |-> IF k = l THEN {}
                    ELSE f.idx[k] \ {i \in T : k \in f.clauses[i]}]
      /\ g.nbActive = Sub(f.nbActive, Cardinality(T \cap f.active))
  BY DEF RmSatisfied, CnfObject
<1>2. Sub(f.nbActive, Cardinality(T \cap f.active)) \in Word
  <2>1. /\ Cardinality(T \cap f.active) \in Nat
        /\ Cardinality(T \cap f.active) <= Cardinality(f.active)
    BY ActiveFinite, FS_Intersection, FS_CardinalityType
  <2> QED
    BY <2>1, <1>a, ActiveFinite, WordSizeAssumption DEF WellCounted, Sub, Word
<1>3. g \in CnfObject
  <2>1. /\ f.active \ T \in SUBSET Slot
        /\ [k \in Lit |-> IF k = l THEN {}
              ELSE f.idx[k] \ {i \in T : k \in f.clauses[i]}] \in [Lit -> SUBSET Slot]
    BY <1>a
  <2> QED
    BY <1>2, <2>1 DEF RmSatisfied, CnfObject
<1> HIDE DEF g
<1>4. WellIndexed(g, R)
  BY <1>1, <1>a DEF WellIndexed
<1>5. WellCounted(g) /\ WellFreed(g) /\ WellSized(g)
  <2>1. T \in SUBSET Slot
    BY <1>a
  <2> HIDE DEF T
  <2> QED
    BY <1>1, <1>3, <2>1, DeactivateWell
<1>6. g.idx[l] = {} /\ \A k \in Lit : g.idx[k] \subseteq f.idx[k]
  BY <1>1, <1>a
<1> QED
  BY <1>1, <1>3, <1>4, <1>5, <1>6 DEF g

\* Taking a false literal out of its clauses (simplify, forget).
LEMMA StripLiteralWell ==
  ASSUME NEW f \in CnfObject, NEW l \in Lit, NEW R \in SUBSET Lit,
         WellIndexed(f, R), WellCounted(f), WellFreed(f), WellSized(f)
  PROVE  LET g == StripLiteral(f, l) IN
         /\ g \in CnfObject
         /\ WellIndexed(g, R) /\ WellCounted(g) /\ WellFreed(g) /\ WellSized(g)
         /\ g.active = f.active /\ g.idx = [f.idx EXCEPT ![l] = {}]
         /\ \A i \in Slot : g.clauses[i] \subseteq f.clauses[i]
<1> DEFINE g == StripLiteral(f, l)
<1>a. /\ f.active \in SUBSET Slot /\ f.idx \in [Lit -> SUBSET Slot]
      /\ f.clauses \in [Slot -> SUBSET Lit] /\ f.nbActive \in Word
  BY DEF CnfObject, Clauses
<1>1. /\ g.size = f.size /\ g.active = f.active /\ g.units = f.units
      /\ g.avail = f.avail /\ g.nbActive = f.nbActive
      /\ g.idx = [f.idx EXCEPT ![l] = {}]
      /\ g.clauses = [i \in Slot |-> IF i \in f.idx[l] THEN f.clauses[i] \ {l}
                                     ELSE f.clauses[i]]
  BY DEF StripLiteral, CnfObject
<1>2. g \in CnfObject
  <2>1. [i \in Slot |-> IF i \in f.idx[l] THEN f.clauses[i] \ {l}
                        ELSE f.clauses[i]] \in [Slot -> Clauses]
    BY <1>a DEF Clauses
  <2> QED
    BY <2>1 DEF StripLiteral, CnfObject
<1> HIDE DEF g
<1>3. WellIndexed(g, R)
  <2> SUFFICES ASSUME NEW k \in Lit, NEW i \in Slot
      PROVE /\ i \in g.active /\ k \in g.clauses[i] => i \in g.idx[k]
            /\ i \in g.idx[k] => /\ k \in g.clauses[i]
                                 /\ i \in g.active \/ (k \in R /\ g.clauses[i] = {k})
    BY DEF WellIndexed
  <2>1. CASE k = l
    BY <2>1, <1>1, <1>a DEF WellIndexed
  <2>2. CASE k # l
    <3>1. g.idx[k] = f.idx[k] /\ (k \in g.clauses[i] <=> k \in f.clauses[i])
      BY <2>2, <1>1, <1>a
    <3>2. i \in f.idx[l] => l \in f.clauses[i]
      BY DEF WellIndexed
    <3>3. f.clauses[i] = {k} => g.clauses[i] = {k}
      BY <2>2, <3>2, <1>1
    <3> QED
      BY <3>1, <3>3, <1>1 DEF WellIndexed
  <2> QED
    BY <2>1, <2>2
<1>4. WellCounted(g) /\ WellFreed(g) /\ WellSized(g)
  BY <1>1 DEF WellCounted, WellFreed, WellSized
<1>5. \A i \in Slot : g.clauses[i] \subseteq f.clauses[i]
  BY <1>1
<1> QED
  BY <1>1, <1>2, <1>3, <1>4, <1>5 DEF g

\* One literal of a round propagated: it is no longer pending (simplify).
LEMMA PropagateWell ==
  ASSUME NEW f \in CnfObject, NEW l \in Lit, NEW R \in SUBSET Lit,
         WellIndexed(f, R), WellCounted(f), WellFreed(f), WellSized(f)
  PROVE  LET g == Propagate(f, l) IN
         /\ g \in CnfObject
         /\ WellIndexed(g, R \ {l})
         /\ WellCounted(g) /\ WellFreed(g) /\ WellSized(g)
         /\ g.active \subseteq f.active
         /\ \A i \in Slot : g.clauses[i] \subseteq f.clauses[i]
         /\ \A k \in Lit : g.idx[k] \subseteq f.idx[k]
<1> DEFINE h == RmSatisfied(f, l)
           g == StripLiteral(h, Neg(l))
<1>1. /\ h \in CnfObject
      /\ WellIndexed(h, R) /\ WellCounted(h) /\ WellFreed(h) /\ WellSized(h)
      /\ h.idx[l] = {} /\ h.clauses = f.clauses /\ h.active \subseteq f.active
      /\ \A k \in Lit : h.idx[k] \subseteq f.idx[k]
  BY RmSatisfiedWell
<1> HIDE DEF h
<1>2. /\ g \in CnfObject
      /\ WellIndexed(g, R) /\ WellCounted(g) /\ WellFreed(g) /\ WellSized(g)
      /\ g.active = h.active /\ g.idx = [h.idx EXCEPT ![Neg(l)] = {}]
      /\ \A i \in Slot : g.clauses[i] \subseteq h.clauses[i]
  BY <1>1, NegLemma, StripLiteralWell
<1> HIDE DEF g
<1>3. h.idx \in [Lit -> SUBSET Slot]
  BY <1>1 DEF CnfObject
<1>4. g.idx[l] = {} /\ \A k \in Lit : g.idx[k] \subseteq f.idx[k]
  BY <1>1, <1>2, <1>3
<1>5. WellIndexed(g, R \ {l})
  BY <1>2, <1>4 DEF WellIndexed
<1> QED
  BY <1>1, <1>2, <1>4, <1>5 DEF Propagate, g, h

-----------------------------------------------------------------------------
(* The actions of the tool. *)

\* The parts of the invariant as the lemmas on the object use them.
LEMMA InvWellFormed ==
  ASSUME Inv
  PROVE  /\ TypeOK /\ WellFormed(cnf, round)
         /\ NoTautology /\ IteratorsValid /\ LoopsInside /\ ForgottenGone
  BY DEF Inv, WellFormed, TypeOK, IndexExact, NbActiveExact, AvailFree

LEMMA WellFormedInv ==
  ASSUME TypeOK, WellFormed(cnf, round),
         NoTautology, IteratorsValid, LoopsInside, ForgottenGone
  PROVE  Inv
  BY DEF Inv, WellFormed, TypeOK, IndexExact, NbActiveExact, AvailFree

\* The first state of the program.
LEMMA InitInv == Init => Inv
<1> SUFFICES ASSUME Init PROVE Inv
  OBVIOUS
<1>1. formula \in Seq(Clauses) /\ Len(formula) <= MaxClauses
  BY FormulasAssumption DEF Init
<1>2. <<>> \in Seq(Clauses) /\ Len(<<>>) <= MaxClauses
  BY EmptySeq, MaxClausesAssumption
<1>3. WellFormed(cnf, {}) /\ up \in CnfObject
  BY <1>1, <1>2, CnfOfWell DEF Init, WellFormed
<1>4. TypeOK
  BY <1>1, <1>3, NumVarsAssumption, MaxClausesAssumption, WordSizeAssumption
  DEF Init, TypeOK, WellFormed, Var, Word
<1>5. cnf.size \in 0 .. MaxClauses
  BY <1>3 DEF WellFormed, CnfObject
<1>6. NoTautology
  BY DEF Init, NoTautology, Slot, CnfOf
<1>7. IteratorsValid /\ ForgottenGone
  BY DEF Init, IteratorsValid, ForgottenGone
<1>8. LoopsInside
  BY <1>5, MaxClausesAssumption DEF Init, LoopsInside
<1>9. round = {}
  BY DEF Init
<1> QED
  BY <1>3, <1>4, <1>6, <1>7, <1>8, <1>9, WellFormedInv

\* A step that adds nothing to the lists brings no forgotten variable back.
LEMMA StillGone ==
  ASSUME TypeOK, ForgottenGone, dign' = dign,
         \A l \in Lit : cnf'.idx[l] \subseteq cnf.idx[l]
  PROVE  ForgottenGone'
<1>1. \A x \in dign : PosLit(x) \in Lit /\ NegLit(x) \in Lit
  BY VarLemma DEF TypeOK
<1> QED
  BY <1>1 DEF ForgottenGone

\* The first loop of simplify().
LEMMA TautologyInv ==
  ASSUME Inv, Tautology PROVE Inv'
<1>1. /\ TypeOK /\ WellFormed(cnf, round)
      /\ NoTautology /\ IteratorsValid /\ LoopsInside /\ ForgottenGone
  BY InvWellFormed
<1>2. /\ pc = "tautologies" /\ at < cnf.size /\ at' = at + 1 /\ round = {}
      /\ cnf.size \in 0 .. MaxClauses /\ at \in Slot /\ at \in Nat
  BY <1>1, MaxClausesAssumption
  DEF Tautology, LoopsInside, TypeOK, WellFormed, CnfObject, Slot
<1>3. CASE /\ at \in cnf.active /\ IsTautology(cnf.clauses[at])
           /\ cnf' = RmClause(cnf, at)
  <2>1. /\ cnf' \in CnfObject /\ WellIndexed(cnf', {}) /\ WellCounted(cnf')
        /\ WellFreed(cnf') /\ WellSized(cnf')
    BY <1>1, <1>2, <1>3, RmClauseType, RmClauseWell DEF WellFormed
  <2>2. /\ cnf'.size = cnf.size /\ cnf'.clauses = cnf.clauses
        /\ cnf'.active = cnf.active \ {at}
        /\ cnf'.idx = EraseId(cnf.idx, cnf.clauses[at], at)
    BY <1>1, <1>2, <1>3, RmClauseFields DEF WellFormed
  <2>3. WellFormed(cnf, round)'
    BY <1>2, <2>1 DEF WellFormed, Tautology
  <2>4. TypeOK'
    BY <1>1, <1>2, <2>1, MaxClausesAssumption DEF TypeOK, Tautology
  <2>5. NoTautology'
    BY <1>1, <1>2, <2>2 DEF NoTautology, Tautology, TypeOK, CnfObject, Slot
  <2>6. IteratorsValid' /\ LoopsInside'
    BY <1>1, <1>2, <2>2 DEF IteratorsValid, LoopsInside, Tautology
  <2>7. ForgottenGone'
    <3>1. cnf.idx \in [Lit -> SUBSET Slot] /\ dign' = dign /\ dign \in SUBSET Var
      BY <1>1 DEF TypeOK, CnfObject, Tautology
    <3>2. \A l \in Lit : cnf.idx[l] = {} => cnf'.idx[l] = {}
      BY <2>2, <3>1 DEF EraseId
    <3> QED
      BY <1>1, <3>1, <3>2, VarLemma DEF ForgottenGone
  <2> QED
    BY <2>3, <2>4, <2>5, <2>6, <2>7
    DEF Inv, WellFormed, IndexExact, NbActiveExact, AvailFree
<1>4. CASE /\ ~ (at \in cnf.active /\ IsTautology(cnf.clauses[at]))
           /\ cnf' = cnf
  <2>1. WellFormed(cnf, round)'
    BY <1>1, <1>4 DEF WellFormed, Tautology, WellIndexed, WellCounted,
                      WellFreed, WellSized
  <2>2. TypeOK'
    BY <1>1, <1>2, <1>4, MaxClausesAssumption DEF TypeOK, Tautology
  <2>3. NoTautology'
    BY <1>1, <1>2, <1>4 DEF NoTautology, Tautology, TypeOK, CnfObject, Slot
  <2>4. IteratorsValid' /\ LoopsInside' /\ ForgottenGone'
    BY <1>1, <1>2, <1>4 DEF IteratorsValid, LoopsInside, ForgottenGone, Tautology
  <2> QED
    BY <2>1, <2>2, <2>3, <2>4
    DEF Inv, WellFormed, IndexExact, NbActiveExact, AvailFree
<1> QED
  BY <1>3, <1>4 DEF Tautology

LEMMA TautologiesDoneInv ==
  ASSUME Inv, TautologiesDone PROVE Inv'
<1>1. /\ TypeOK /\ WellFormed(cnf, round)
      /\ NoTautology /\ IteratorsValid /\ LoopsInside /\ ForgottenGone
  BY InvWellFormed
<1>2. TypeOK'
  BY <1>1 DEF TypeOK, TautologiesDone
<1>3. WellFormed(cnf, round)'
  BY <1>1 DEF TautologiesDone, WellFormed, WellIndexed, WellCounted, WellFreed,
              WellSized
<1>4. NoTautology'
  <2>1. \A i \in cnf.active : i < at
    BY <1>1 DEF TautologiesDone, WellFormed, WellSized, CnfObject, Slot
  <2> QED
    BY <1>1, <2>1 DEF NoTautology, TautologiesDone
<1>5. IteratorsValid' /\ LoopsInside' /\ ForgottenGone'
  BY <1>1 DEF IteratorsValid, LoopsInside, ForgottenGone, TautologiesDone
<1> QED
  BY <1>2, <1>3, <1>4, <1>5
  DEF Inv, WellFormed, IndexExact, NbActiveExact, AvailFree

\* The rounds of propagation of simplify().
LEMMA CollectInv ==
  ASSUME Inv, Collect PROVE Inv'
<1>1. /\ TypeOK /\ WellFormed(cnf, round)
      /\ NoTautology /\ IteratorsValid /\ LoopsInside /\ ForgottenGone
  BY InvWellFormed
<1>2. /\ pc = "collect" /\ round = {} /\ pc' = "propagate" /\ dign' = dign
      /\ cnf' = CollectUnits(cnf) /\ round' = UnitLits(cnf)
  BY <1>1 DEF Collect, LoopsInside
<1>3. /\ WellFormed(cnf', round') /\ cnf'.clauses = cnf.clauses
      /\ round' \in SUBSET Lit
  BY <1>1, <1>2, CollectWell DEF WellFormed
<1>4. cnf'.active \subseteq cnf.active /\ cnf'.idx = cnf.idx
  BY <1>1, <1>2 DEF CollectUnits, WellFormed, CnfObject
<1>5. TypeOK'
  BY <1>1, <1>3, <1>2 DEF TypeOK, Collect, WellFormed
<1>6. NoTautology'
  BY <1>1, <1>2, <1>3, <1>4 DEF NoTautology
<1>7. IteratorsValid' /\ LoopsInside'
  BY <1>2 DEF IteratorsValid, LoopsInside
<1>8. ForgottenGone'
  BY <1>1, <1>2, <1>4, StillGone
<1> QED
  BY <1>3, <1>5, <1>6, <1>7, <1>8
  DEF Inv, WellFormed, IndexExact, NbActiveExact, AvailFree

LEMMA PropagateNextInv ==
  ASSUME Inv, PropagateNext PROVE Inv'
<1>1. /\ TypeOK /\ WellFormed(cnf, round)
      /\ NoTautology /\ IteratorsValid /\ LoopsInside /\ ForgottenGone
  BY InvWellFormed
<1>2. PICK l \in round : cnf' = Propagate(cnf, l) /\ round' = round \ {l}
  BY DEF PropagateNext
<1>3. l \in Lit /\ round \in SUBSET Lit /\ round' \in SUBSET Lit
  BY <1>1, <1>2 DEF TypeOK
<1>4. /\ WellFormed(cnf', round')
      /\ cnf'.active \subseteq cnf.active
      /\ \A i \in Slot : cnf'.clauses[i] \subseteq cnf.clauses[i]
      /\ \A k \in Lit : cnf'.idx[k] \subseteq cnf.idx[k]
  BY <1>1, <1>2, <1>3, PropagateWell DEF WellFormed
<1>5. /\ pc = "propagate" /\ pc' \in {"propagate", "collect"}
      /\ (pc' # "propagate" => round' = {}) /\ dign' = dign
  BY DEF PropagateNext
<1>6. TypeOK'
  BY <1>1, <1>3, <1>4, <1>5 DEF TypeOK, PropagateNext, WellFormed
<1>7. NoTautology'
  <2>1. cnf.active \subseteq Slot
    BY <1>1 DEF TypeOK, CnfObject
  <2> QED
    BY <1>1, <1>4, <1>5, <2>1 DEF NoTautology, IsTautology
<1>8. IteratorsValid' /\ LoopsInside'
  BY <1>5 DEF IteratorsValid, LoopsInside
<1>9. ForgottenGone'
  BY <1>1, <1>4, <1>5, StillGone
<1> QED
  BY <1>4, <1>6, <1>7, <1>8, <1>9
  DEF Inv, WellFormed, IndexExact, NbActiveExact, AvailFree

\* A step that leaves the projected formula and what speaks of it alone.
LEMMA SameFormula ==
  ASSUME Inv, TypeOK', cnf' = cnf, round' = round, dign' = dign,
         IteratorsValid', LoopsInside',
         pc # "tautologies" /\ pc' # "tautologies"
  PROVE  Inv'
<1>1. /\ TypeOK /\ WellFormed(cnf, round)
      /\ NoTautology /\ IteratorsValid /\ LoopsInside /\ ForgottenGone
  BY InvWellFormed
<1>2. WellFormed(cnf, round)'
  BY <1>1 DEF WellFormed, WellIndexed, WellCounted, WellFreed, WellSized
<1>3. NoTautology' /\ ForgottenGone'
  BY <1>1 DEF NoTautology, ForgottenGone
<1> QED
  BY <1>2, <1>3 DEF Inv, WellFormed, IndexExact, NbActiveExact, AvailFree

LEMMA CopyInv ==
  ASSUME Inv, Copy PROVE Inv'
<1>1. TypeOK /\ LoopsInside
  BY DEF Inv
<1>2. TypeOK'
  BY <1>1 DEF TypeOK, Copy, CnfObject
<1>3. IteratorsValid' /\ LoopsInside'
  BY <1>1 DEF IteratorsValid, LoopsInside, Copy
<1> QED
  BY <1>2, <1>3, SameFormula DEF Copy

\* The decision of forget(): a unit of one sign goes, with the other literal.
LEMMA PickUnitInv ==
  ASSUME Inv, PickUnit PROVE Inv'
<1>1. /\ TypeOK /\ WellFormed(cnf, round)
      /\ NoTautology /\ IteratorsValid /\ LoopsInside /\ ForgottenGone
  BY InvWellFormed
<1>2. PICK x \in frgt : v' = x /\ ids' = cnf'.idx[PosLit(x)] /\
        \E l \in {PosLit(x), NegLit(x)} :
          cnf' = StripLiteral([cnf EXCEPT !.units = @ \ {l}], Neg(l))
  BY DEF PickUnit
<1>3. PICK l \in {PosLit(x), NegLit(x)} :
        cnf' = StripLiteral([cnf EXCEPT !.units = @ \ {l}], Neg(l))
  BY <1>2
<1>4. x \in Var /\ l \in Lit /\ Neg(l) \in Lit /\ PosLit(x) \in Lit
  BY <1>1, <1>2, <1>3, VarLemma, NegLemma DEF TypeOK
<1>5. pc = "pick" /\ pc' = "dropPos" /\ round = {} /\ round' = {} /\ dign' = dign
  BY <1>1 DEF PickUnit, LoopsInside
<1> DEFINE h == [cnf EXCEPT !.units = @ \ {l}]
<1>6. /\ h \in CnfObject /\ h.size = cnf.size /\ h.clauses = cnf.clauses
      /\ h.active = cnf.active /\ h.idx = cnf.idx /\ h.avail = cnf.avail
      /\ h.nbActive = cnf.nbActive
  BY <1>1 DEF WellFormed, CnfObject
<1>7. /\ WellIndexed(h, {}) /\ WellCounted(h) /\ WellFreed(h) /\ WellSized(h)
  BY <1>1, <1>5, <1>6
  DEF WellFormed, WellIndexed, WellCounted, WellFreed, WellSized
<1> HIDE DEF h
<1>8. /\ WellFormed(cnf', {}) /\ cnf'.active = h.active
      /\ cnf'.idx = [h.idx EXCEPT ![Neg(l)] = {}]
      /\ \A i \in Slot : cnf'.clauses[i] \subseteq h.clauses[i]
  <2>1. cnf' = StripLiteral(h, Neg(l))
    BY <1>3 DEF h
  <2> QED
    BY <1>4, <1>6, <1>7, <2>1, StripLiteralWell DEF WellFormed
<1>9. cnf.idx \in [Lit -> SUBSET Slot] /\ cnf'.idx \in [Lit -> SUBSET Slot]
  BY <1>1, <1>8 DEF WellFormed, CnfObject
<1>10. \A k \in Lit : cnf'.idx[k] \subseteq cnf.idx[k]
  BY <1>6, <1>8, <1>9
<1>11. TypeOK'
  <2>1. ids' \in SUBSET Slot /\ v' \in Var /\ cnf' \in CnfObject
    BY <1>2, <1>4, <1>8, <1>9 DEF WellFormed
  <2> QED
    BY <1>1, <2>1 DEF TypeOK, PickUnit
<1>12. NoTautology'
  <2>1. cnf.active \subseteq Slot
    BY <1>1 DEF TypeOK, CnfObject
  <2> QED
    BY <1>1, <1>5, <1>6, <1>8, <2>1 DEF NoTautology, IsTautology
<1>13. IteratorsValid' /\ LoopsInside'
  BY <1>2, <1>5 DEF IteratorsValid, LoopsInside, lp
<1>14. ForgottenGone'
  BY <1>1, <1>5, <1>10, StillGone
<1> QED
  BY <1>5, <1>8, <1>11, <1>12, <1>13, <1>14
  DEF Inv, WellFormed, IndexExact, NbActiveExact, AvailFree

\* The decision of forget() for a variable that is no unit.
LEMMA PickPureInv ==
  ASSUME Inv, PickPure PROVE Inv'
<1>1. TypeOK /\ LoopsInside
  BY DEF Inv
<1>2. PICK x \in frgt : v' = x /\ ids' = cnf.idx[PosLit(x)]
  BY DEF PickPure
<1>3. x \in Var /\ PosLit(x) \in Lit
  BY <1>1, <1>2, VarLemma DEF TypeOK
<1>4. TypeOK'
  BY <1>1, <1>2, <1>3 DEF TypeOK, PickPure, CnfObject
<1>5. IteratorsValid' /\ LoopsInside'
  BY <1>1, <1>2 DEF IteratorsValid, LoopsInside, PickPure, lp
<1> QED
  BY <1>4, <1>5, SameFormula DEF PickPure

LEMMA PickPairsInv ==
  ASSUME Inv, PickPairs PROVE Inv'
<1>1. TypeOK /\ LoopsInside
  BY DEF Inv
<1>2. PICK x \in frgt : v' = x /\
        \E i \in cnf.idx[PosLit(x)], j \in cnf.idx[NegLit(x)] : cursor' = <<i, j>>
  BY DEF PickPairs
<1>3. x \in Var /\ PosLit(x) \in Lit /\ NegLit(x) \in Lit
  BY <1>1, <1>2, VarLemma DEF TypeOK
<1>4. PICK i \in cnf.idx[PosLit(x)], j \in cnf.idx[NegLit(x)] : cursor' = <<i, j>>
  BY <1>2
<1>5. i \in Nat /\ j \in Nat
  BY <1>1, <1>3, <1>4 DEF TypeOK, CnfObject, Slot
<1>6. TypeOK'
  BY <1>1, <1>2, <1>3, <1>4, <1>5 DEF TypeOK, PickPairs
<1>7. IteratorsValid' /\ LoopsInside'
  BY <1>1, <1>2, <1>4 DEF IteratorsValid, LoopsInside, PickPairs, lp, ln
<1> QED
  BY <1>6, <1>7, SameFormula DEF PickPairs

LEMMA DropNegStartInv ==
  ASSUME Inv, DropNegStart PROVE Inv'
<1>1. TypeOK /\ LoopsInside /\ IteratorsValid
  BY DEF Inv
<1>2. ln \in Lit
  BY <1>1, VarLemma DEF TypeOK, ln
<1>3. TypeOK'
  BY <1>1, <1>2 DEF TypeOK, DropNegStart, CnfObject
<1>4. IteratorsValid' /\ LoopsInside'
  BY <1>1 DEF IteratorsValid, LoopsInside, DropNegStart, lp, ln
<1> QED
  BY <1>3, <1>4, SameFormula DEF DropNegStart

\* forget() returns with its variable in no list.
LEMMA ForgottenInv ==
  ASSUME Inv, Forgotten PROVE Inv'
<1>1. /\ TypeOK /\ WellFormed(cnf, round)
      /\ NoTautology /\ IteratorsValid /\ LoopsInside /\ ForgottenGone
  BY InvWellFormed
<1>2. TypeOK'
  BY <1>1 DEF TypeOK, Forgotten
<1>3. WellFormed(cnf, round)' /\ NoTautology'
  BY <1>1 DEF Forgotten, WellFormed, WellIndexed, WellCounted, WellFreed,
              WellSized, NoTautology
<1>4. IteratorsValid' /\ LoopsInside'
  BY <1>1 DEF IteratorsValid, LoopsInside, Forgotten
<1>5. ForgottenGone'
  BY <1>1 DEF ForgottenGone, Forgotten, IteratorsValid, lp, ln
<1> QED
  BY <1>2, <1>3, <1>4, <1>5
  DEF Inv, WellFormed, IndexExact, NbActiveExact, AvailFree

\* The rest of main(), which works on the copy.
LEMMA AllForgottenInv ==
  ASSUME Inv, AllForgotten PROVE Inv'
<1>1. TypeOK' /\ IteratorsValid' /\ LoopsInside'
  BY DEF Inv, TypeOK, IteratorsValid, LoopsInside, AllForgotten
<1> QED
  BY <1>1, SameFormula DEF AllForgotten

LEMMA WritePInv ==
  ASSUME Inv, WriteP PROVE Inv'
<1>1. up \in CnfObject /\ up.size \in 0 .. MaxClauses
  BY DEF Inv, TypeOK, CnfObject
<1>2. TypeOK' /\ IteratorsValid' /\ LoopsInside'
  BY <1>1, MaxClausesAssumption
  DEF Inv, TypeOK, IteratorsValid, LoopsInside, WriteP
<1> QED
  BY <1>2, SameFormula DEF WriteP

LEMMA UpperBoundInv ==
  ASSUME Inv, UpperBound PROVE Inv'
<1>1. TypeOK /\ LoopsInside /\ pc = "upperBound" /\ at < up.size /\ at' = at + 1
  BY DEF Inv, UpperBound
<1>2. up \in CnfObject /\ up.size \in 0 .. MaxClauses /\ at \in Nat /\ at \in Slot
  BY <1>1, MaxClausesAssumption DEF TypeOK, CnfObject, Slot
<1>3. up.clauses[at] \in SUBSET Lit
  BY <1>2 DEF CnfObject, Clauses
<1>4. {VarOf(l) : l \in up.clauses[at]} \subseteq Var
  <2>1. \A l \in Lit : VarOf(l) \in Var
    BY NumVarsAssumption DEF Lit, Var, VarOf
  <2> QED
    BY <1>3, <2>1
<1>5. up' \in CnfObject /\ up'.size = up.size /\ puvar' \in SUBSET Var
  BY <1>1, <1>2, <1>4, RmClauseType, RmClauseFields DEF TypeOK, UpperBound
<1>6. TypeOK' /\ IteratorsValid' /\ LoopsInside'
  BY <1>1, <1>2, <1>5, MaxClausesAssumption
  DEF Inv, TypeOK, IteratorsValid, LoopsInside, UpperBound
<1> QED
  BY <1>6, SameFormula DEF UpperBound

LEMMA WriteUpInv ==
  ASSUME Inv, WriteUp PROVE Inv'
<1>1. TypeOK' /\ IteratorsValid' /\ LoopsInside'
  BY DEF Inv, TypeOK, IteratorsValid, LoopsInside, WriteUp
<1> QED
  BY <1>1, SameFormula DEF WriteUp

\* The old clauses of the variable are removed one after the other.
LEMMA DropOneInv ==
  ASSUME Inv, DropOne PROVE Inv'
<1>1. /\ TypeOK /\ WellFormed(cnf, round)
      /\ NoTautology /\ IteratorsValid /\ LoopsInside /\ ForgottenGone
  BY InvWellFormed
<1>2. PICK id \in ids : cnf' = RmClause(cnf, id) /\ ids' = ids \ {id}
  BY DEF DropOne
<1>3. /\ pc \in {"dropPos", "dropNeg"} /\ pc' = pc /\ round = {} /\ round' = {}
      /\ dign' = dign /\ v' = v /\ at' = at /\ up' = up
  BY <1>1 DEF DropOne, LoopsInside
<1>4. /\ cnf.idx \in [Lit -> SUBSET Slot] /\ lp \in Lit /\ ln \in Lit
      /\ cnf.active \in SUBSET Slot /\ cnf.clauses \in [Slot -> SUBSET Lit]
      /\ cnf.size \in 0 .. MaxClauses
  BY <1>1, VarLemma DEF TypeOK, CnfObject, Clauses, lp, ln
<1>5. /\ id \in Slot /\ id \in cnf.active /\ id < cnf.size
      /\ pc = "dropPos" => lp \in cnf.clauses[id]
      /\ pc = "dropNeg" => ln \in cnf.clauses[id]
  <2>1. /\ pc = "dropPos" => id \in cnf.idx[lp]
        /\ pc = "dropNeg" => id \in cnf.idx[ln]
    BY <1>1, <1>2 DEF IteratorsValid
  <2>2. id \in Slot
    BY <1>3, <1>4, <2>1
  <2>3. \A l \in Lit : id \in cnf.idx[l] => id \in cnf.active /\ l \in cnf.clauses[id]
    BY <1>1, <1>3, <2>2 DEF WellFormed, WellIndexed
  <2>4. id \in cnf.active
    BY <1>3, <1>4, <2>1, <2>3
  <2>5. id < cnf.size
    BY <1>1, <1>4, <2>2, <2>4 DEF WellFormed, WellSized, Slot
  <2> QED
    BY <1>4, <2>1, <2>2, <2>3, <2>4, <2>5
<1>6. WellFormed(cnf', {})
  BY <1>1, <1>2, <1>3, <1>5, RmClauseType, RmClauseWell DEF WellFormed
<1>7. /\ cnf'.clauses = cnf.clauses /\ cnf'.active = cnf.active \ {id}
      /\ cnf'.idx = EraseId(cnf.idx, cnf.clauses[id], id)
  BY <1>1, <1>2, <1>5, RmClauseFields DEF WellFormed
<1>8. \A l \in Lit : cnf'.idx[l] \subseteq cnf.idx[l]
  BY <1>7 DEF EraseId
<1>9. TypeOK'
  <2>1. ids' \in SUBSET Slot
    BY <1>1, <1>2 DEF TypeOK
  <2> QED
    BY <1>1, <1>6, <2>1 DEF TypeOK, DropOne, WellFormed
<1>10. NoTautology'
  BY <1>1, <1>3, <1>7 DEF NoTautology
<1>11. IteratorsValid'
  <2>1. CASE pc = "dropPos"
    <3>1. cnf'.idx[lp] = cnf.idx[lp] \ {id}
      BY <2>1, <1>4, <1>5, <1>7 DEF EraseId
    <3> QED
      BY <2>1, <3>1, <1>1, <1>2, <1>3 DEF IteratorsValid, lp
  <2>2. CASE pc = "dropNeg"
    <3>1. cnf'.idx[ln] = cnf.idx[ln] \ {id}
      BY <2>2, <1>4, <1>5, <1>7 DEF EraseId
    <3>2. cnf'.idx[lp] = {}
      BY <2>2, <1>1, <1>4, <1>8 DEF IteratorsValid
    <3> QED
      BY <2>2, <3>1, <3>2, <1>1, <1>2, <1>3 DEF IteratorsValid, lp, ln
  <2> QED
    BY <1>3, <2>1, <2>2
<1>12. LoopsInside'
  BY <1>3 DEF LoopsInside
<1>13. ForgottenGone'
  BY <1>1, <1>3, <1>8, StillGone
<1> QED
  BY <1>3, <1>6, <1>9, <1>10, <1>11, <1>12, <1>13
  DEF Inv, WellFormed, IndexExact, NbActiveExact, AvailFree

\* The pair of clauses at the cursor: active clauses of the formula, of which
\* the resolvent has no literal of the variable and is a tautology only if the
\* code finds it trivial.
LEMMA ResolventFacts ==
  ASSUME Inv, pc = "resolve"
  PROVE  LET p == Resolvent(cnf, cursor[1], cursor[2], lp) IN
         /\ cursor[1] \in cnf.active /\ cursor[2] \in cnf.active
         /\ cursor[1] \in Slot /\ cursor[2] \in Slot
         /\ p \in Clauses
         /\ p \subseteq cnf.clauses[cursor[1]] \cup cnf.clauses[cursor[2]]
         /\ lp \notin p /\ ln \notin p
         /\ ~ TrivialResolvent(cnf, cursor[1], cursor[2], lp) => ~ IsTautology(p)
<1> DEFINE i == cursor[1]
           j == cursor[2]
           p == Resolvent(cnf, i, j, lp)
<1>1. /\ TypeOK /\ WellFormed(cnf, round)
      /\ NoTautology /\ IteratorsValid /\ LoopsInside
  BY InvWellFormed
<1>2. /\ cnf.idx \in [Lit -> SUBSET Slot] /\ lp \in Lit /\ ln \in Lit
      /\ Neg(lp) = ln /\ Neg(ln) = lp
      /\ cnf.clauses \in [Slot -> SUBSET Lit]
  BY <1>1, VarLemma DEF TypeOK, CnfObject, Clauses, lp, ln
<1>3. i \in cnf.idx[lp] /\ j \in cnf.idx[ln] /\ round = {}
  BY <1>1 DEF IteratorsValid, LoopsInside
<1>4. i \in Slot /\ j \in Slot
  BY <1>2, <1>3
<1>5. /\ i \in cnf.active /\ lp \in cnf.clauses[i]
      /\ j \in cnf.active /\ ln \in cnf.clauses[j]
  BY <1>1, <1>2, <1>3, <1>4 DEF WellFormed, WellIndexed
<1>6. ~ IsTautology(cnf.clauses[i]) /\ ~ IsTautology(cnf.clauses[j])
  BY <1>1, <1>5 DEF NoTautology
<1>7. p = (cnf.clauses[i] \ {lp}) \cup (cnf.clauses[j] \ {lp, ln})
  BY <1>2 DEF Resolvent, Kept
<1> HIDE DEF i, j, p
<1>8. p \in Clauses /\ p \subseteq cnf.clauses[i] \cup cnf.clauses[j]
  BY <1>2, <1>4, <1>7 DEF Clauses
<1>9. lp \notin p /\ ln \notin p
  BY <1>2, <1>5, <1>6, <1>7 DEF IsTautology
<1>10. ASSUME IsTautology(p) PROVE TrivialResolvent(cnf, i, j, lp)
  <2>1. PICK l \in p : Neg(l) \in p
    BY <1>10 DEF IsTautology
  <2>2. l \in Lit /\ Neg(Neg(l)) = l
    BY <1>8, <2>1, NegLemma DEF Clauses
  <2>3. CASE l \in cnf.clauses[j] \ {lp, ln}
    BY <2>1, <2>3, <1>2 DEF TrivialResolvent, Kept, p, i, j
  <2>4. CASE Neg(l) \in cnf.clauses[j] \ {lp, ln}
    BY <2>1, <2>2, <2>4, <1>2 DEF TrivialResolvent, Kept, p, i, j
  <2>5. CASE l \in cnf.clauses[i] /\ Neg(l) \in cnf.clauses[i]
    BY <2>5, <1>6 DEF IsTautology
  <2> QED
    BY <2>1, <2>3, <2>4, <2>5, <1>7
<1> QED
  BY <1>4, <1>5, <1>8, <1>9, <1>10 DEF i, j, p

\* What one iteration of the nested loops does to the formula.
LEMMA ResolveFormula ==
  ASSUME Inv, Resolve
  PROVE  /\ WellFormed(cnf', {})
         /\ cnf'.idx[lp] = cnf.idx[lp] /\ cnf'.idx[ln] = cnf.idx[ln]
         /\ \A i \in cnf.active : i \in cnf'.active /\ cnf'.clauses[i] = cnf.clauses[i]
         /\ \A i \in cnf'.active : ~ IsTautology(cnf'.clauses[i])
         /\ ForgottenGone'
<1> DEFINE p == Resolvent(cnf, cursor[1], cursor[2], lp)
<1>1. /\ TypeOK /\ WellFormed(cnf, {}) /\ NoTautology /\ ForgottenGone
      /\ pc = "resolve" /\ dign' = dign
  BY InvWellFormed DEF Resolve, LoopsInside
<1>2. /\ cursor[1] \in cnf.active /\ cursor[2] \in cnf.active
      /\ cursor[1] \in Slot /\ cursor[2] \in Slot
      /\ p \in Clauses
      /\ p \subseteq cnf.clauses[cursor[1]] \cup cnf.clauses[cursor[2]]
      /\ lp \notin p /\ ln \notin p
      /\ ~ TrivialResolvent(cnf, cursor[1], cursor[2], lp) => ~ IsTautology(p)
  BY <1>1, ResolventFacts
<1>3. /\ lp \in Lit /\ ln \in Lit /\ cnf.idx \in [Lit -> SUBSET Slot]
      /\ cnf.active \in SUBSET Slot /\ cnf.clauses \in [Slot -> Clauses]
  BY <1>1, VarLemma DEF TypeOK, CnfObject, lp, ln
<1>4. \A i \in cnf.active : ~ IsTautology(cnf.clauses[i])
  BY <1>1 DEF NoTautology
<1> HIDE DEF p
<1>5. CASE cnf' = cnf
  BY <1>1, <1>4, <1>5 DEF ForgottenGone
<1>6. CASE /\ ~ TrivialResolvent(cnf, cursor[1], cursor[2], lp)
           /\ cnf' = AddClause(cnf, p)
  <2>1. cnf.avail # <<>> \/ cnf.size < MaxClauses
    BY DEF Resolve
  <2>2. WellFormed(cnf', {})
    BY <1>1, <1>2, <1>6, <2>1, AddClauseWell DEF WellFormed
  <2>3. PICK id \in Slot : Stored(cnf, p, id, cnf')
    BY <1>1, <1>2, <1>6, <2>1, AddClauseStores DEF WellFormed
  <2>4. /\ id \notin cnf.active /\ cnf'.active = cnf.active \cup {id}
        /\ cnf'.clauses = [cnf.clauses EXCEPT ![id] = p]
        /\ cnf'.idx = InsertId(cnf.idx, p, id)
    BY <2>3 DEF Stored
  <2>5. cnf'.idx[lp] = cnf.idx[lp] /\ cnf'.idx[ln] = cnf.idx[ln]
    BY <1>2, <1>3, <2>4 DEF InsertId
  <2>6. \A i \in cnf.active : i \in cnf'.active /\ cnf'.clauses[i] = cnf.clauses[i]
    BY <1>3, <2>4
  <2>7. \A i \in cnf'.active : ~ IsTautology(cnf'.clauses[i])
    BY <1>2, <1>3, <1>4, <1>6, <2>4
  <2>8. ForgottenGone'
    <3> SUFFICES ASSUME NEW x \in dign,
                        NEW l \in {PosLit(x), NegLit(x)}
                 PROVE  cnf'.idx[l] = {}
      BY <1>1 DEF ForgottenGone
    <3>1. l \in Lit /\ cnf.idx[l] = {}
      BY <1>1, VarLemma DEF TypeOK, ForgottenGone
    <3>2. \A i \in cnf.active : l \notin cnf.clauses[i]
      BY <1>1, <1>3, <3>1 DEF WellFormed, WellIndexed
    <3>3. l \notin p
      BY <1>2, <3>2
    <3> QED
      BY <2>4, <3>1, <3>3 DEF InsertId
  <2> QED
    BY <2>2, <2>5, <2>6, <2>7, <2>8
<1> QED
  BY <1>5, <1>6 DEF Resolve, AddClauseNonredundant, AtCursor, p

\* One iteration of the nested loops of forget().
LEMMA ResolveInv ==
  ASSUME Inv, Resolve PROVE Inv'
<1>1. TypeOK /\ IteratorsValid /\ LoopsInside /\ pc = "resolve"
  BY DEF Inv, Resolve
<1>2. /\ WellFormed(cnf', {}) /\ ForgottenGone'
      /\ \A i \in cnf'.active : ~ IsTautology(cnf'.clauses[i])
  BY ResolveFormula
<1>3. round = {} /\ round' = {} /\ v' = v
  BY <1>1 DEF LoopsInside, Resolve
<1>4. lp \in Lit /\ ln \in Lit /\ cnf'.idx \in [Lit -> SUBSET Slot]
  BY <1>1, <1>2, VarLemma DEF TypeOK, WellFormed, CnfObject, lp, ln
<1>5. \/ /\ pc' = "resolve" /\ ids' = ids
         /\ \E j \in cnf'.idx[ln] : cursor' = <<cursor[1], j>>
      \/ /\ pc' = "resolve" /\ ids' = ids
         /\ \E i \in cnf'.idx[lp], j \in cnf'.idx[ln] : cursor' = <<i, j>>
      \/ /\ pc' = "dropPos" /\ ids' = cnf'.idx[lp] /\ cursor' = cursor
  BY <1>1 DEF Resolve, Advance
<1>6. cursor[1] \in cnf'.idx[lp] /\ cursor \in Nat \X Nat
  BY <1>1, ResolveFormula DEF IteratorsValid, TypeOK
<1>7. TypeOK' /\ IteratorsValid'
  <2>1. CASE /\ pc' = "resolve" /\ ids' = ids
             /\ \E i \in cnf'.idx[lp], j \in cnf'.idx[ln] : cursor' = <<i, j>>
    <3>1. PICK i \in cnf'.idx[lp], j \in cnf'.idx[ln] : cursor' = <<i, j>>
      BY <2>1
    <3>2. i \in Nat /\ j \in Nat
      BY <1>4, <3>1 DEF Slot
    <3>3. TypeOK'
      BY <1>1, <1>2, <2>1, <3>1, <3>2 DEF TypeOK, Resolve, WellFormed
    <3>4. IteratorsValid'
      BY <1>3, <2>1, <3>1 DEF IteratorsValid, lp, ln
    <3> QED
      BY <3>3, <3>4
  <2>2. CASE pc' = "dropPos" /\ ids' = cnf'.idx[lp] /\ cursor' = cursor
    <3>1. TypeOK'
      BY <1>1, <1>2, <1>4, <2>2 DEF TypeOK, Resolve, WellFormed
    <3>2. IteratorsValid'
      BY <1>3, <2>2 DEF IteratorsValid, lp, ln
    <3> QED
      BY <3>1, <3>2
  <2> QED
    BY <1>5, <1>6, <2>1, <2>2
<1>8. LoopsInside'
  BY <1>3, <1>5 DEF LoopsInside
<1>9. NoTautology'
  BY <1>2 DEF NoTautology
<1> QED
  BY <1>2, <1>3, <1>7, <1>8, <1>9
  DEF Inv, WellFormed, IndexExact, NbActiveExact, AvailFree

\* An empty resolvent ends the program with the formula as it is.
LEMMA ResolveEmptyInv ==
  ASSUME Inv, ResolveEmpty PROVE Inv'
<1>1. /\ pc = "resolve" /\ pc' = "crashed" /\ cnf' = cnf /\ up' = up /\ at' = at
      /\ round' = round /\ dign' = dign
  BY DEF ResolveEmpty
<1>2. TypeOK'
  BY DEF Inv, ResolveEmpty, TypeOK
<1> QED
  BY <1>1, <1>2 DEF Inv, IndexExact, NbActiveExact, AvailFree, NoTautology,
     IteratorsValid, LoopsInside, ForgottenGone, WellIndexed, WellCounted,
     WellFreed, WellSized

-----------------------------------------------------------------------------

\* The invariant is inductive.
LEMMA NextInv == Inv /\ [Next]_vars => Inv'
<1> SUFFICES ASSUME Inv, [Next]_vars PROVE Inv'
  OBVIOUS
<1>1. CASE UNCHANGED vars
  BY <1>1 DEF vars, Inv, TypeOK, IndexExact, NbActiveExact, AvailFree,
     NoTautology, IteratorsValid, LoopsInside, ForgottenGone, WellIndexed,
     WellCounted, WellFreed, WellSized, lp, ln
<1>2. CASE Next
  BY <1>1, <1>2, TautologyInv, TautologiesDoneInv, CollectInv, PropagateNextInv,
     CopyInv, PickUnitInv, PickPureInv, PickPairsInv, ResolveInv, ResolveEmptyInv,
     DropOneInv, DropNegStartInv, ForgottenInv, AllForgottenInv, WritePInv, UpperBoundInv,
     WriteUpInv DEF Next, Finished
<1> QED
  BY <1>1, <1>2

\* Everything simplify(), project() and forget() keep between two steps holds
\* in every reachable state: types, index, counter, free slots, iterators.
THEOREM SpecInv == Spec => []Inv
  BY InitInv, NextInv, PTL DEF Spec

\* Every variable keeps its type, and every slot index stays in the vector.
THEOREM TypeCorrect == Spec => []TypeOK
<1>1. Inv => TypeOK
  BY DEF Inv
<1> QED
  BY <1>1, SpecInv, PTL

\* The inverted lists are exact through simplification and forgetting.
THEOREM IndexCorrect == Spec => []IndexExact
<1>1. Inv => IndexExact
  BY DEF Inv
<1> QED
  BY <1>1, SpecInv, PTL

\* nb_active counts the active clauses of the projected formula.
THEOREM CountCorrect == Spec => []NbActiveExact
<1>1. Inv => NbActiveExact
  BY DEF Inv
<1> QED
  BY <1>1, SpecInv, PTL

\* A slot that may be used again holds no clause of the formula.
THEOREM FreeSlotsCorrect == Spec => []AvailFree
<1>1. Inv => AvailFree
  BY DEF Inv
<1> QED
  BY <1>1, SpecInv, PTL

\* A forgotten variable never comes back into the formula.
THEOREM ForgottenCorrect == Spec => []ForgottenGone
<1>1. Inv => ForgottenGone
  BY DEF Inv
<1> QED
  BY <1>1, SpecInv, PTL

\* The lists forget() walks are stable under what it adds, and no active
\* clause is overwritten.
THEOREM IterationCorrect == Spec => StableIteration
<1>1. Inv /\ [Next]_vars => [KeepsIteration]_vars
  <2> SUFFICES ASSUME Inv, Next, pc = "resolve" PROVE KeepsIteration
    BY DEF KeepsIteration
  <2>1. Resolve \/ cnf' = cnf
    BY DEF Next, ResolveEmpty, Tautology, TautologiesDone, Collect, PropagateNext, Copy,
           PickUnit, PickPure, PickPairs, DropOne, DropNegStart, Forgotten,
           AllForgotten, WriteP, UpperBound, WriteUp, Finished
  <2> QED
    BY <2>1, ResolveFormula DEF KeepsIteration
<1> QED
  BY <1>1, SpecInv, PTL DEF Spec, StableIteration

-----------------------------------------------------------------------------
(* Literals and assignments. *)

\* A literal is true where its negation is false.
LEMMA SatNeg ==
  ASSUME NEW m \in Assignments, NEW l \in Lit
  PROVE  Satisfies(m, Neg(l)) <=> ~ Satisfies(m, l)
<1>1. CASE l % 2 = 0
  <2>1. Neg(l) = l + 1 /\ (l + 1) % 2 = 1 /\ (l + 1) \div 2 = l \div 2
    BY <1>1, NumVarsAssumption DEF Neg, Lit
  <2> QED
    BY <1>1, <2>1 DEF Satisfies, VarOf
<1>2. CASE l % 2 # 0
  <2>1. Neg(l) = l - 1 /\ (l - 1) % 2 = 0 /\ (l - 1) \div 2 = l \div 2
    BY <1>2, NumVarsAssumption DEF Neg, Lit
  <2> QED
    BY <1>2, <2>1 DEF Satisfies, VarOf
<1> QED
  BY <1>1, <1>2

\* The two literals of a variable say whether it is true.
LEMMA SatVar ==
  ASSUME NEW m \in Assignments, NEW x \in Var
  PROVE  /\ Satisfies(m, PosLit(x)) <=> x \in m
         /\ Satisfies(m, NegLit(x)) <=> x \notin m
<1>1. /\ (2 * x) % 2 = 0 /\ (2 * x) \div 2 = x
      /\ (2 * x + 1) % 2 = 1 /\ (2 * x + 1) \div 2 = x
  BY NumVarsAssumption DEF Var
<1> QED
  BY <1>1 DEF Satisfies, VarOf, PosLit, NegLit

\* Only the two literals of a variable depend on it.
LEMMA OtherVar ==
  ASSUME NEW x \in Var, NEW l \in Lit, l # PosLit(x), l # NegLit(x)
  PROVE  VarOf(l) \in Var /\ VarOf(l) # x
  BY NumVarsAssumption DEF Var, Lit, VarOf, PosLit, NegLit

\* A clause without a variable is satisfied whatever its value.
LEMMA Irrelevant ==
  ASSUME NEW x \in Var, NEW c \in Clauses, PosLit(x) \notin c, NegLit(x) \notin c,
         NEW m \in Assignments, NEW n \in Assignments, m \ {x} = n \ {x}
  PROVE  SatClause(m, c) <=> SatClause(n, c)
<1>1. ASSUME NEW l \in c PROVE Satisfies(m, l) <=> Satisfies(n, l)
  <2>1. VarOf(l) # x
    BY OtherVar DEF Clauses
  <2>2. VarOf(l) \in m <=> VarOf(l) \in n
    BY <2>1
  <2> QED
    BY <2>2 DEF Satisfies
<1> QED
  BY <1>1 DEF SatClause

\* A clause is satisfied by assignments that agree on its variables together.
LEMMA SameOnClause ==
  ASSUME NEW c \in Clauses, NEW m \in Assignments, NEW n \in Assignments,
         \A l \in c : VarOf(l) \in m <=> VarOf(l) \in n
  PROVE  SatClause(m, c) <=> SatClause(n, c)
  BY DEF SatClause, Satisfies

\* A tautology is satisfied everywhere.
LEMMA TautologySat ==
  ASSUME NEW c \in Clauses, IsTautology(c), NEW m \in Assignments
  PROVE  SatClause(m, c)
  BY SatNeg DEF IsTautology, SatClause, Clauses

\* A clause with fewer literals says more.
LEMMA SubsumedSat ==
  ASSUME NEW c, NEW d, c \subseteq d, NEW m, SatClause(m, c)
  PROVE  SatClause(m, d)
  BY DEF SatClause

-----------------------------------------------------------------------------
(* Formulas. *)

\* The values the formula may have where it is exact: the variables of gone
\* are forgotten in cs, which is read with all of them true.
Exact(cs, gone) ==
  \A m \in Assignments :
    (\E n \in Models(Input) : n \ gone = m \ gone) <=> m \cup gone \in Models(cs)

\* Whether there is a value of x for w under which cs holds.
ForgetsTo(cs, x, ds) ==
  \A w \in Assignments :
    w \cup {x} \in Models(ds) <=>
      \/ w \cup {x} \in Models(cs)
      \/ w \ {x} \in Models(cs)

\* Forgetting one more variable.
LEMMA ExactStep ==
  ASSUME NEW cs, NEW ds, NEW gone \in SUBSET Var, NEW x \in Var, x \notin gone,
         Exact(cs, gone), ForgetsTo(cs, x, ds)
  PROVE  Exact(ds, gone \cup {x})
<1> SUFFICES ASSUME NEW m \in Assignments
    PROVE (\E n \in Models(Input) : n \ (gone \cup {x}) = m \ (gone \cup {x}))
            <=> m \cup (gone \cup {x}) \in Models(ds)
  BY DEF Exact
<1> DEFINE w == m \cup gone
<1>1. /\ w \in Assignments /\ m \cup {x} \in Assignments /\ m \ {x} \in Assignments
      /\ m \cup (gone \cup {x}) = w \cup {x}
      /\ (m \cup {x}) \cup gone = w \cup {x}
      /\ (m \ {x}) \cup gone = w \ {x}
  BY DEF Assignments
<1>2. w \cup {x} \in Models(ds)
        <=> (w \cup {x} \in Models(cs) \/ w \ {x} \in Models(cs))
  BY <1>1 DEF ForgetsTo
<1>3. (\E n \in Models(Input) : n \ gone = (m \cup {x}) \ gone)
        <=> w \cup {x} \in Models(cs)
  BY <1>1 DEF Exact
<1>4. (\E n \in Models(Input) : n \ gone = (m \ {x}) \ gone)
        <=> w \ {x} \in Models(cs)
  BY <1>1 DEF Exact
<1>5. ASSUME NEW n \in Models(Input)
      PROVE  n \ (gone \cup {x}) = m \ (gone \cup {x})
               <=> (n \ gone = (m \cup {x}) \ gone \/ n \ gone = (m \ {x}) \ gone)
  <2>1. n \in SUBSET Var
    BY DEF Models, Assignments
  <2>2. ASSUME n \ (gone \cup {x}) = m \ (gone \cup {x})
        PROVE  n \ gone = (m \cup {x}) \ gone \/ n \ gone = (m \ {x}) \ gone
    <3>1. CASE x \in n
      BY <2>2, <3>1
    <3>2. CASE x \notin n
      BY <2>2, <3>2
    <3> QED
      BY <3>1, <3>2
  <2>3. ASSUME n \ gone = (m \cup {x}) \ gone \/ n \ gone = (m \ {x}) \ gone
        PROVE  n \ (gone \cup {x}) = m \ (gone \cup {x})
    BY <2>3
  <2> QED
    BY <2>2, <2>3
<1> QED
  BY <1>1, <1>2, <1>3, <1>4, <1>5

\* Two formulas with the same models are exact together.
LEMMA ExactSame ==
  ASSUME NEW cs, NEW ds, NEW gone, Models(cs) = Models(ds), Exact(cs, gone)
  PROVE  Exact(ds, gone)
  BY DEF Exact

\* Before anything is forgotten, to be exact is to have the same models.
LEMMA ExactStart ==
  ASSUME NEW cs
  PROVE  Exact(cs, {}) <=> Models(cs) = Models(Input)
<1>1. \A m : m \ {} = m /\ m \cup {} = m
  OBVIOUS
<1>2. \A ds : Models(ds) \subseteq Assignments
  BY DEF Models
<1>3. Exact(cs, {}) <=> \A m \in Assignments : m \in Models(Input) <=> m \in Models(cs)
  BY <1>1, <1>2 DEF Exact
<1> QED
  BY <1>2, <1>3

-----------------------------------------------------------------------------
(* Forgetting a variable. *)

\* What the object says without the clauses about x.
Rest(f, x) ==
  {f.clauses[i] : i \in f.active \ (f.idx[PosLit(x)] \cup f.idx[NegLit(x)])}
    \cup {{l} : l \in f.units}

\* The resolvent of the clauses of slots i and j says nothing new.
Covered(f, i, j, x) ==
  LET p == Resolvent(f, i, j, PosLit(x)) IN
  IsTautology(p) \/ \E k \in f.active : f.clauses[k] \subseteq p

\* What a well-formed object with no pending units says of its lists.
LEMMA ListsExactly ==
  ASSUME NEW f, WellFormed(f, {}), NEW l \in Lit
  PROVE  /\ f.idx[l] = {i \in f.active : l \in f.clauses[i]}
         /\ f.active \subseteq Slot
         /\ \A i \in f.active : f.clauses[i] \in Clauses
         /\ f.units \in SUBSET Lit
  BY DEF WellFormed, WellIndexed, CnfObject

\* The clauses without x are those that stay.
LEMMA RestWithout ==
  ASSUME NEW f, WellFormed(f, {}), NEW x \in Var,
         PosLit(x) \notin f.units, NegLit(x) \notin f.units,
         NEW c \in Rest(f, x)
  PROVE  c \in Content(f) /\ c \in Clauses /\ PosLit(x) \notin c /\ NegLit(x) \notin c
<1>1. PosLit(x) \in Lit /\ NegLit(x) \in Lit
  BY VarLemma
<1>2. CASE c \in {{l} : l \in f.units}
  BY <1>1, <1>2, ListsExactly DEF Content, Clauses
<1>3. CASE c \in {f.clauses[i] : i \in f.active \ (f.idx[PosLit(x)] \cup f.idx[NegLit(x)])}
  <2>1. PICK i \in f.active : /\ i \notin f.idx[PosLit(x)] /\ i \notin f.idx[NegLit(x)]
                              /\ c = f.clauses[i]
    BY <1>3
  <2> QED
    BY <2>1, <1>1, ListsExactly DEF Content
<1> QED
  BY <1>2, <1>3 DEF Rest

\* A clause of the object that an assignment with x, or one without it,
\* falsifies although it satisfies the clauses that stay, has x.
LEMMA FalsifiedHere ==
  ASSUME NEW f, WellFormed(f, {}), NEW x \in Var,
         NEW m \in Assignments, m \notin Models(Content(f)), m \in Models(Rest(f, x))
  PROVE  \E i \in f.active :
           /\ ~ SatClause(m, f.clauses[i])
           /\ IF x \in m THEN i \in f.idx[NegLit(x)] ELSE i \in f.idx[PosLit(x)]
<1>1. PosLit(x) \in Lit /\ NegLit(x) \in Lit
  BY VarLemma
<1>2. PICK c \in Content(f) : ~ SatClause(m, c)
  BY DEF Models
<1>3. c \notin Rest(f, x)
  BY <1>2 DEF Models
<1>4. PICK i \in f.active : /\ c = f.clauses[i]
                            /\ i \in f.idx[PosLit(x)] \cup f.idx[NegLit(x)]
  BY <1>2, <1>3 DEF Content, Rest
<1>5. /\ i \in f.idx[PosLit(x)] => PosLit(x) \in c
      /\ i \in f.idx[NegLit(x)] => NegLit(x) \in c
  BY <1>1, <1>4, ListsExactly
<1>6. x \in m => i \notin f.idx[PosLit(x)]
  BY <1>2, <1>5, SatVar DEF SatClause
<1>7. x \notin m => i \notin f.idx[NegLit(x)]
  BY <1>2, <1>5, SatVar DEF SatClause
<1> QED
  BY <1>2, <1>4, <1>6, <1>7

\* The resolution of Davis and Putnam: once the resolvents of all pairs are
\* covered, the clauses without x say whether some value of x is possible.
LEMMA CoveredForgets ==
  ASSUME NEW f, WellFormed(f, {}), NEW x \in Var,
         PosLit(x) \notin f.units, NegLit(x) \notin f.units,
         \A i \in f.idx[PosLit(x)], j \in f.idx[NegLit(x)] : Covered(f, i, j, x)
  PROVE  ForgetsTo(Content(f), x, Rest(f, x))
<1> SUFFICES ASSUME NEW w \in Assignments
    PROVE w \cup {x} \in Models(Rest(f, x)) <=>
            (w \cup {x} \in Models(Content(f)) \/ w \ {x} \in Models(Content(f)))
  BY DEF ForgetsTo
<1> DEFINE a == w \cup {x}
           b == w \ {x}
<1>1. a \in Assignments /\ b \in Assignments /\ a \ {x} = b \ {x} /\ x \in a /\ x \notin b
  BY DEF Assignments
<1>2. /\ PosLit(x) \in Lit /\ NegLit(x) \in Lit
      /\ Neg(PosLit(x)) = NegLit(x) /\ Neg(NegLit(x)) = PosLit(x)
  BY VarLemma
<1> HIDE DEF a, b
<1>3. a \in Models(Rest(f, x)) <=> b \in Models(Rest(f, x))
  BY <1>1, RestWithout, Irrelevant DEF Models
<1>4. ASSUME a \in Models(Content(f)) \/ b \in Models(Content(f))
      PROVE  a \in Models(Rest(f, x))
  <2>1. \A c \in Rest(f, x) : c \in Content(f)
    BY RestWithout
  <2> QED
    BY <1>3, <1>4, <2>1 DEF Models
<1>5. ASSUME a \in Models(Rest(f, x)),
             a \notin Models(Content(f)), b \notin Models(Content(f))
      PROVE  FALSE
  <2>1. PICK j \in f.active : ~ SatClause(a, f.clauses[j]) /\ j \in f.idx[NegLit(x)]
    BY <1>1, <1>5, FalsifiedHere
  <2>2. PICK i \in f.active : ~ SatClause(b, f.clauses[i]) /\ i \in f.idx[PosLit(x)]
    BY <1>1, <1>3, <1>5, FalsifiedHere
  <2> DEFINE p == Resolvent(f, i, j, PosLit(x))
  <2>3. /\ f.clauses[i] \in Clauses /\ f.clauses[j] \in Clauses
        /\ p = (f.clauses[i] \ {PosLit(x)}) \cup (f.clauses[j] \ {PosLit(x), NegLit(x)})
    BY <1>2, ListsExactly DEF Resolvent, Kept
  <2> HIDE DEF p
  <2>4. p \in Clauses
    BY <2>3 DEF Clauses
  <2>5. ~ SatClause(a, p)
    <3> SUFFICES ASSUME NEW l \in p, Satisfies(a, l) PROVE FALSE
      BY DEF SatClause
    <3>1. CASE l \in f.clauses[j]
      BY <2>1, <3>1 DEF SatClause
    <3>2. CASE l \in f.clauses[i] /\ l \notin f.clauses[j] /\ l # PosLit(x)
      <4>1. l \in Lit
        BY <2>3, <3>2 DEF Clauses
      <4>2. CASE l = NegLit(x)
        BY <4>2, <1>1, SatVar
      <4>3. CASE l # NegLit(x)
        <5>1. VarOf(l) # x
          BY <3>2, <4>1, <4>3, OtherVar
        <5>2. VarOf(l) \in a <=> VarOf(l) \in b
          BY <1>1, <5>1
        <5>3. Satisfies(b, l)
          BY <5>2 DEF Satisfies
        <5> QED
          BY <2>2, <3>2, <5>3 DEF SatClause
      <4> QED
        BY <4>2, <4>3
    <3> QED
      BY <2>3, <3>1, <3>2
  <2>6. ~ IsTautology(p)
    BY <1>1, <2>4, <2>5, TautologySat
  <2>7. PICK k \in f.active : f.clauses[k] \subseteq p
    BY <2>1, <2>2, <2>6 DEF Covered, p
  <2>8. ~ SatClause(a, f.clauses[k])
    BY <2>5, <2>7, SubsumedSat
  <2>9. k \in f.idx[NegLit(x)] \cup f.idx[PosLit(x)]
    <3>1. f.clauses[k] \notin Rest(f, x)
      BY <1>5, <2>8 DEF Models
    <3> QED
      BY <3>1 DEF Rest
  <2>10. NegLit(x) \in f.clauses[k] \/ PosLit(x) \in f.clauses[k]
    BY <1>2, <2>9, ListsExactly
  <2>11. NegLit(x) \in p \/ PosLit(x) \in p
    BY <2>7, <2>10
  <2>12. NegLit(x) \in f.clauses[i]
    BY <1>2, <2>3, <2>11, NegLemma, VarLemma
  <2> QED
    BY <2>2, <2>12, <1>1, SatVar DEF SatClause
<1> QED
  BY <1>1, <1>4, <1>5 DEF a, b

-----------------------------------------------------------------------------
(* The invariant. *)

Simplifying == pc \in {"tautologies", "collect", "propagate"}
Dropping == pc \in {"dropPos", "dropNeg"}
Writing == pc \in {"upperBound", "done"}

\* A literal that was propagated is in no clause, and its negation neither.
UnitsApart ==
  /\ round \subseteq cnf.units
  /\ \A l \in cnf.units \ round : cnf.idx[l] = {} /\ cnf.idx[Neg(l)] = {}

\* A variable is forgotten once, and none before the formula is simplified.
ForgottenOnce ==
  /\ frgt \cap dign = {}
  /\ Simplifying => dign = {}
  /\ pc = "resolve" \/ Dropping => v \in frgt

\* The nested loops leave a resolvent of each pair they have passed.
Passed(i, j) == i < cursor[1] \/ (i = cursor[1] /\ j < cursor[2])
PairsCovered ==
  pc = "resolve" =>
    /\ lp \notin cnf.units /\ ln \notin cnf.units
    /\ \A i \in cnf.idx[lp], j \in cnf.idx[ln] : Passed(i, j) => Covered(cnf, i, j, v)

\* The projected formula is exact; while old clauses are removed, the others.
FormulaExact ==
  /\ ~ Dropping => Exact(Content(cnf), dign)
  /\ Dropping => Exact(Rest(cnf, v), dign \cup {v})

\* The copy has the models of the input until clauses are taken out of it, which
\* every projected model satisfies.
UpExact ==
  /\ ~ Simplifying /\ ~ Writing => Models(Content(up)) = Models(Input)
  /\ Writing =>
       /\ Models(Input) \subseteq Models(Content(up))
       /\ \A m \in Models(Content(up)) :
            (\E n \in Models(Input) : n \ dign = m \ dign) => m \in Models(Input)

FilesWritten ==
  /\ Writing => pFile.clauses = Content(cnf) /\ pFile.forced = dign
  /\ pc = "done" =>
       /\ upFile.clauses = Content(up) /\ upFile.forced = {}
       /\ logFile = Var \ dign

Meaning ==
  /\ UnitsApart /\ ForgottenOnce /\ PairsCovered
  /\ FormulaExact /\ UpExact /\ FilesWritten


\* What the parts of the invariant say of the next state, of which the input is
\* the same.
LEMMA NextExact ==
  ASSUME formula' = formula
  PROVE  /\ FormulaExact' <=>
              /\ pc' \notin {"dropPos", "dropNeg"} => Exact(Content(cnf'), dign')
              /\ pc' \in {"dropPos", "dropNeg"} =>
                   Exact(Rest(cnf', v'), dign' \cup {v'})
         /\ UpExact' <=>
              /\ pc' \notin {"tautologies", "collect", "propagate", "upperBound",
                             "done"} => Models(Content(up')) = Models(Input)
              /\ pc' \in {"upperBound", "done"} =>
                   /\ Models(Input) \subseteq Models(Content(up'))
                   /\ \A m \in Models(Content(up')) :
                        (\E n \in Models(Input) : n \ dign' = m \ dign')
                          => m \in Models(Input)
<1>1. Input' = Input
  BY DEF Input
<1> QED
  BY <1>1 DEF FormulaExact, UpExact, Exact, Dropping, Simplifying, Writing

\* The facts of the bookkeeping that the steps outside a round rest on.
LEMMA WellNow ==
  ASSUME Inv, pc # "propagate"
  PROVE  round = {} /\ WellFormed(cnf, {})
  BY InvWellFormed DEF LoopsInside

\* A step of simplify() that keeps the models of the formula.
LEMMA SimplifyStep ==
  ASSUME Meaning, Simplifying, pc' \in {"tautologies", "collect", "propagate"},
         formula' = formula, dign' = dign, frgt' = frgt, UnitsApart',
         Models(Content(cnf)) = Models(Content(cnf'))
  PROVE  Meaning'
<1>1. dign = {} /\ Exact(Content(cnf), {})
  BY DEF Meaning, Simplifying, Dropping, FormulaExact, ForgottenOnce
<1>2. Exact(Content(cnf'), {})
  BY <1>1, ExactSame
<1>3. FormulaExact' /\ UpExact'
  BY <1>1, <1>2, NextExact
<1>4. ForgottenOnce' /\ PairsCovered' /\ FilesWritten'
  BY <1>1 DEF ForgottenOnce, PairsCovered, FilesWritten, Writing, Simplifying,
     Dropping
<1> QED
  BY <1>3, <1>4 DEF Meaning

\* A tautology may go.
LEMMA TautologyMeaning ==
  ASSUME Inv, Meaning, Tautology PROVE Meaning'
<1>1. /\ WellFormed(cnf, {}) /\ round = {} /\ round' = {} /\ pc = "tautologies"
      /\ at < cnf.size /\ at \in Nat /\ cnf.size \in 0 .. MaxClauses /\ cnf \in CnfObject
  BY WellNow, InvWellFormed DEF Tautology, TypeOK, CnfObject
<1>2. CASE cnf' = cnf
  <2>1. UnitsApart'
    BY <1>1, <1>2 DEF Meaning, UnitsApart
  <2> QED
    BY <1>1, <1>2, <2>1, SimplifyStep DEF Tautology, Simplifying
<1>3. CASE /\ at \in cnf.active /\ IsTautology(cnf.clauses[at])
           /\ cnf' = RmClause(cnf, at)
  <2>1. /\ cnf'.clauses = cnf.clauses /\ cnf'.active = cnf.active \ {at}
        /\ cnf'.idx = EraseId(cnf.idx, cnf.clauses[at], at)
        /\ cnf'.units = cnf.units
    <3>1. at \in Slot
      BY <1>1, MaxClausesAssumption DEF Slot
    <3> QED
      BY <1>1, <1>3, <3>1, RmClauseFields
  <2>2. cnf.clauses[at] \in Clauses
    BY <1>1, <1>3 DEF CnfObject
  <2>3. Models(Content(cnf)) = Models(Content(cnf'))
    BY <1>3, <2>1, <2>2, TautologySat DEF Models, Content
  <2>4. UnitsApart'
    <3>1. cnf.units \in SUBSET Lit
      BY <1>1 DEF CnfObject
    <3>2. \A l \in Lit : cnf.idx[l] = {} => cnf'.idx[l] = {}
      BY <2>1 DEF EraseId
    <3> QED
      BY <1>1, <2>1, <3>1, <3>2, NegLemma DEF Meaning, UnitsApart
  <2> QED
    BY <1>1, <2>3, <2>4, SimplifyStep DEF Tautology, Simplifying
<1> QED
  BY <1>2, <1>3 DEF Tautology

LEMMA TautologiesDoneMeaning ==
  ASSUME Inv, Meaning, TautologiesDone PROVE Meaning'
<1>1. UnitsApart'
  BY DEF Meaning, UnitsApart, TautologiesDone
<1> QED
  BY <1>1, SimplifyStep DEF TautologiesDone, Simplifying

\* A unit clause that becomes a unit says the same.
LEMMA CollectMeaning ==
  ASSUME Inv, Meaning, Collect PROVE Meaning'
<1>1. /\ WellFormed(cnf, {}) /\ round = {} /\ pc = "collect"
      /\ cnf \in CnfObject /\ round' = UnitLits(cnf)
  BY WellNow DEF Collect, WellFormed
<1>2. /\ cnf'.clauses = cnf.clauses /\ cnf'.active = cnf.active \ UnitIds(cnf)
      /\ cnf'.idx = cnf.idx /\ cnf'.units = cnf.units \cup UnitLits(cnf)
  BY <1>1 DEF Collect, CollectUnits, CnfObject
<1>3. {{l} : l \in UnitLits(cnf)} = {cnf.clauses[i] : i \in UnitIds(cnf)}
  BY DEF UnitLits, UnitIds
<1>4. Content(cnf') = Content(cnf)
  BY <1>2, <1>3 DEF Content, UnitIds
<1>5. UnitsApart'
  BY <1>1, <1>2 DEF Meaning, UnitsApart
<1> QED
  BY <1>1, <1>4, <1>5, SimplifyStep DEF Collect, Simplifying

\* What propagating a literal leaves of the object.
LEMMA PropagateFields ==
  ASSUME NEW f, NEW R \in SUBSET Lit, WellFormed(f, R), NEW l \in Lit
  PROVE  LET g == Propagate(f, l) IN
         /\ g.units = f.units /\ g.active = f.active \ f.idx[l]
         /\ g.idx[l] = {} /\ g.idx[Neg(l)] = {}
         /\ \A i \in Slot : \/ g.clauses[i] = f.clauses[i]
                            \/ g.clauses[i] = f.clauses[i] \ {Neg(l)}
<1> DEFINE h == RmSatisfied(f, l)
           g == Propagate(f, l)
<1>1. /\ h.units = f.units /\ h.active = f.active \ f.idx[l]
      /\ h.clauses = f.clauses
      /\ h.idx = [k \in Lit |-> IF k = l THEN {}
                    ELSE f.idx[k] \ {i \in f.idx[l] : k \in f.clauses[i]}]
  BY DEF RmSatisfied, CnfObject, WellFormed
<1>2. /\ g = StripLiteral(h, Neg(l)) /\ Neg(l) \in Lit /\ Neg(l) # l
      /\ h \in CnfObject
  BY NegLemma, RmSatisfiedWell DEF Propagate, WellFormed
<1> HIDE DEF g, h
<1>3. /\ g.units = h.units /\ g.active = h.active
      /\ g.clauses = [i \in Slot |-> IF i \in h.idx[Neg(l)]
                                       THEN h.clauses[i] \ {Neg(l)} ELSE h.clauses[i]]
      /\ g.idx = [h.idx EXCEPT ![Neg(l)] = {}]
  BY <1>2 DEF StripLiteral, CnfObject
<1> QED
  BY <1>1, <1>2, <1>3 DEF g

\* A unit makes its clauses true and its negation false.
LEMMA PropagateNextMeaning ==
  ASSUME Inv, Meaning, PropagateNext PROVE Meaning'
<1>1. /\ WellFormed(cnf, round) /\ cnf \in CnfObject /\ round \in SUBSET Lit
      /\ pc = "propagate"
  BY InvWellFormed DEF WellFormed, TypeOK, PropagateNext
<1>2. PICK l \in round : cnf' = Propagate(cnf, l) /\ round' = round \ {l}
  BY DEF PropagateNext
<1>3. l \in Lit /\ l \in cnf.units /\ Neg(l) \in Lit
  BY <1>1, <1>2, NegLemma DEF Meaning, UnitsApart
<1>4. /\ cnf'.units = cnf.units /\ cnf'.active = cnf.active \ cnf.idx[l]
      /\ cnf'.idx[l] = {} /\ cnf'.idx[Neg(l)] = {}
      /\ \A i \in Slot : \/ cnf'.clauses[i] = cnf.clauses[i]
                         \/ cnf'.clauses[i] = cnf.clauses[i] \ {Neg(l)}
  BY <1>1, <1>2, <1>3, PropagateFields
<1>5. \A k \in Lit : cnf'.idx[k] \subseteq cnf.idx[k]
  BY <1>1, <1>2, <1>3, PropagateWell DEF WellFormed
<1>6. UnitsApart'
  <2>1. cnf.units \in SUBSET Lit
    BY <1>1 DEF CnfObject
  <2> QED
    BY <1>2, <1>4, <1>5, <2>1, NegLemma DEF Meaning, UnitsApart
<1>7. ASSUME NEW m \in Assignments, Satisfies(m, l), NEW i \in cnf.active
      PROVE  /\ i \in cnf.idx[l] => SatClause(m, cnf.clauses[i])
             /\ SatClause(m, cnf.clauses[i]) <=> SatClause(m, cnf'.clauses[i])
  <2>1. i \in Slot
    BY <1>1 DEF CnfObject
  <2>2. i \in cnf.idx[l] => l \in cnf.clauses[i]
    BY <1>1, <1>3, <2>1 DEF WellFormed, WellIndexed
  <2>3. ~ Satisfies(m, Neg(l))
    BY <1>3, <1>7, SatNeg
  <2> QED
    BY <1>4, <1>7, <2>1, <2>2, <2>3 DEF SatClause
<1>8. ASSUME NEW m \in Assignments
      PROVE  m \in Models(Content(cnf)) <=> m \in Models(Content(cnf'))
  <2>1. CASE Satisfies(m, l)
    BY <1>4, <1>7, <2>1 DEF Models, Content
  <2>2. CASE ~ Satisfies(m, l)
    <3>1. {l} \in Content(cnf) /\ {l} \in Content(cnf')
      BY <1>3, <1>4 DEF Content
    <3> QED
      BY <2>2, <3>1 DEF Models, SatClause
  <2> QED
    BY <2>1, <2>2
<1>9. Models(Content(cnf)) = Models(Content(cnf'))
  BY <1>8 DEF Models
<1> QED
  BY <1>1, <1>6, <1>9, SimplifyStep DEF PropagateNext, Simplifying

\* The copy is taken when the formula has the models of the input.
LEMMA CopyMeaning ==
  ASSUME Inv, Meaning, Copy PROVE Meaning'
<1>1. /\ dign = {} /\ Exact(Content(cnf), {}) /\ pc = "collect"
      /\ Models(Content(cnf)) = Models(Input)
  BY ExactStart
  DEF Meaning, Simplifying, Dropping, FormulaExact, ForgottenOnce, Copy
<1>2. FormulaExact' /\ UpExact'
  BY <1>1, NextExact DEF Copy
<1>3. UnitsApart' /\ ForgottenOnce' /\ PairsCovered' /\ FilesWritten'
  BY <1>1 DEF Meaning, Copy, UnitsApart, ForgottenOnce, PairsCovered, FilesWritten,
     Writing, Simplifying, Dropping
<1> QED
  BY <1>2, <1>3 DEF Meaning

\* A variable that is a unit, in no other clause, is forgotten with its unit;
\* the unit of the other sign, which makes the formula false, stays.
LEMMA UnitForgets ==
  ASSUME NEW f, WellFormed(f, {}), NEW x \in Var,
         NEW l \in {PosLit(x), NegLit(x)}, l \in f.units,
         l = NegLit(x) => PosLit(x) \notin f.units,
         f.idx[PosLit(x)] = {}, f.idx[NegLit(x)] = {}
  PROVE  LET g == StripLiteral([f EXCEPT !.units = @ \ {l}], Neg(l)) IN
         /\ ForgetsTo(Content(f), x, Rest(g, x))
         /\ g.units = f.units \ {l}
         /\ \A k \in Lit : g.idx[k] = f.idx[k]
<1> DEFINE g == StripLiteral([f EXCEPT !.units = @ \ {l}], Neg(l))
<1>1. /\ PosLit(x) \in Lit /\ NegLit(x) \in Lit /\ PosLit(x) # NegLit(x)
      /\ Neg(PosLit(x)) = NegLit(x) /\ Neg(NegLit(x)) = PosLit(x)
  BY VarLemma
<1>2. /\ f \in CnfObject /\ f.active \subseteq Slot /\ f.units \in SUBSET Lit
      /\ \A i \in f.active : /\ f.clauses[i] \in Clauses
                             /\ PosLit(x) \notin f.clauses[i]
                             /\ NegLit(x) \notin f.clauses[i]
  BY <1>1, ListsExactly DEF WellFormed
<1>3. PICK h : h = [f EXCEPT !.units = @ \ {l}]
  OBVIOUS
<1>4. /\ h \in CnfObject /\ h.units = f.units \ {l}
      /\ h.clauses = f.clauses /\ h.active = f.active /\ h.idx = f.idx
  BY <1>2, <1>3 DEF CnfObject
<1>5. g = StripLiteral(h, Neg(l))
  BY <1>3
<1> HIDE DEF g
<1>6. /\ g.units = f.units \ {l} /\ g.active = f.active
      /\ \A i \in Slot : g.clauses[i] = f.clauses[i]
      /\ g.idx = [f.idx EXCEPT ![Neg(l)] = {}]
  <2>1. Neg(l) \in Lit /\ f.idx[Neg(l)] = {}
    BY <1>1
  <2> QED
    BY <1>4, <1>5, <2>1 DEF StripLiteral, CnfObject
<1>7. \A k \in Lit : g.idx[k] = f.idx[k]
  <2>1. Neg(l) \in Lit /\ f.idx[Neg(l)] = {} /\ f.idx \in [Lit -> SUBSET Slot]
    BY <1>1, <1>2 DEF CnfObject
  <2> QED
    BY <1>6, <2>1
<1>8. Rest(g, x) = {f.clauses[i] : i \in f.active} \cup {{k} : k \in f.units \ {l}}
  <2>1. g.active \ (g.idx[PosLit(x)] \cup g.idx[NegLit(x)]) = f.active
    BY <1>1, <1>6, <1>7
  <2>2. {g.clauses[i] : i \in f.active} = {f.clauses[i] : i \in f.active}
    BY <1>2, <1>6
  <2> QED
    BY <1>6, <2>1, <2>2 DEF Rest
<1>9. Content(f) = Rest(g, x) \cup {{l}}
  BY <1>8 DEF Content
<1>10. ForgetsTo(Content(f), x, Rest(g, x))
  <2> SUFFICES ASSUME NEW w \in Assignments
      PROVE w \cup {x} \in Models(Rest(g, x)) <=>
              (w \cup {x} \in Models(Content(f)) \/ w \ {x} \in Models(Content(f)))
    BY DEF ForgetsTo
  <2>1. /\ w \cup {x} \in Assignments /\ w \ {x} \in Assignments
        /\ (w \cup {x}) \ {x} = (w \ {x}) \ {x}
    BY DEF Assignments
  <2>2. /\ Satisfies(w \cup {x}, PosLit(x)) /\ ~ Satisfies(w \ {x}, PosLit(x))
        /\ ~ Satisfies(w \cup {x}, NegLit(x)) /\ Satisfies(w \ {x}, NegLit(x))
    BY <2>1, SatVar
  <2>3. \A m \in Assignments :
          m \in Models(Content(f)) <=> m \in Models(Rest(g, x)) /\ Satisfies(m, l)
    <3>1. \A m : SatClause(m, {l}) <=> Satisfies(m, l)
      BY DEF SatClause
    <3> QED
      BY <1>9, <3>1 DEF Models
  <2>4. CASE l = PosLit(x)
    BY <2>1, <2>2, <2>3, <2>4
  <2>5. CASE l = NegLit(x)
    <3>1. \A c \in Rest(g, x) :
            c \in Clauses /\ PosLit(x) \notin c /\ NegLit(x) \notin c
      BY <1>1, <1>2, <1>8, <2>5 DEF Clauses
    <3>2. \A c \in Rest(g, x) : SatClause(w \cup {x}, c) <=> SatClause(w \ {x}, c)
      BY <2>1, <3>1, Irrelevant
    <3>3. w \cup {x} \in Models(Rest(g, x)) <=> w \ {x} \in Models(Rest(g, x))
      BY <2>1, <3>2 DEF Models
    <3> QED
      BY <2>1, <2>2, <2>3, <2>5, <3>3
  <2> QED
    BY <2>4, <2>5
<1> QED
  BY <1>6, <1>7, <1>10 DEF g

\* Where a variable is picked, nothing of the copy or the files changes.
LEMMA PickStep ==
  ASSUME Meaning, pc = "pick", pc' \in {"dropPos", "resolve"}, formula' = formula,
         up' = up, frgt' = frgt, dign' = dign, v' \in frgt, UnitsApart', PairsCovered',
         pc' = "dropPos" => Exact(Rest(cnf', v'), dign \cup {v'}),
         pc' = "resolve" => cnf' = cnf
  PROVE  Meaning'
<1>1. Exact(Content(cnf), dign) /\ Models(Content(up)) = Models(Input)
  BY DEF Meaning, FormulaExact, UpExact, Dropping, Simplifying, Writing
<1>2. FormulaExact' /\ UpExact'
  BY <1>1, NextExact
<1>3. ForgottenOnce' /\ FilesWritten'
  BY DEF Meaning, ForgottenOnce, FilesWritten, Writing, Simplifying
<1> QED
  BY <1>2, <1>3 DEF Meaning

LEMMA PickUnitMeaning ==
  ASSUME Inv, Meaning, PickUnit PROVE Meaning'
<1>1. /\ WellFormed(cnf, {}) /\ round = {} /\ round' = {} /\ pc = "pick"
      /\ frgt \in SUBSET Var /\ dign \in SUBSET Var /\ cnf.units \in SUBSET Lit
  BY WellNow, InvWellFormed DEF PickUnit, TypeOK, WellFormed, CnfObject
<1>2. PICK x \in frgt : v' = x /\
        \E l \in {PosLit(x), NegLit(x)} :
          /\ l \in cnf.units
          /\ l = NegLit(x) => PosLit(x) \notin cnf.units
          /\ cnf' = StripLiteral([cnf EXCEPT !.units = @ \ {l}], Neg(l))
  BY DEF PickUnit
<1>3. PICK l \in {PosLit(x), NegLit(x)} :
        /\ l \in cnf.units
        /\ l = NegLit(x) => PosLit(x) \notin cnf.units
        /\ cnf' = StripLiteral([cnf EXCEPT !.units = @ \ {l}], Neg(l))
  BY <1>2
<1>4. x \in Var /\ x \notin dign /\ Exact(Content(cnf), dign)
  BY <1>1, <1>2 DEF Meaning, ForgottenOnce, FormulaExact, Dropping
<1>5. cnf.idx[PosLit(x)] = {} /\ cnf.idx[NegLit(x)] = {}
  BY <1>1, <1>3, <1>4, VarLemma DEF Meaning, UnitsApart
<1>6. /\ ForgetsTo(Content(cnf), x, Rest(cnf', x))
      /\ cnf'.units = cnf.units \ {l}
      /\ \A k \in Lit : cnf'.idx[k] = cnf.idx[k]
  <2> DEFINE g == StripLiteral([cnf EXCEPT !.units = @ \ {l}], Neg(l))
  <2>1. /\ ForgetsTo(Content(cnf), x, Rest(g, x))
        /\ g.units = cnf.units \ {l}
        /\ \A k \in Lit : g.idx[k] = cnf.idx[k]
    BY <1>1, <1>3, <1>4, <1>5, UnitForgets, Zenon
  <2>2. cnf' = g
    BY <1>3
  <2> QED
    BY <2>1, <2>2
<1>7. Exact(Rest(cnf', x), dign \cup {x})
  BY <1>1, <1>4, <1>6, ExactStep
<1>8. UnitsApart'
  BY <1>1, <1>6, NegLemma DEF Meaning, UnitsApart
<1>9. PairsCovered'
  BY DEF PickUnit, PairsCovered
<1> QED
  BY <1>1, <1>2, <1>7, <1>8, <1>9, PickStep DEF PickUnit

LEMMA PickPureMeaning ==
  ASSUME Inv, Meaning, PickPure PROVE Meaning'
<1>1. /\ WellFormed(cnf, {}) /\ pc = "pick"
      /\ frgt \in SUBSET Var /\ dign \in SUBSET Var
  BY WellNow, InvWellFormed DEF PickPure, TypeOK
<1>2. PICK x \in frgt :
        /\ v' = x /\ NoUnit(x)
        /\ cnf.idx[PosLit(x)] = {} \/ cnf.idx[NegLit(x)] = {}
  BY DEF PickPure
<1>3. x \in Var /\ x \notin dign /\ Exact(Content(cnf), dign)
  BY <1>1, <1>2 DEF Meaning, ForgottenOnce, FormulaExact, Dropping
<1>4. ForgetsTo(Content(cnf), x, Rest(cnf, x))
  BY <1>1, <1>2, <1>3, CoveredForgets DEF NoUnit
<1>5. Exact(Rest(cnf, x), dign \cup {x})
  BY <1>1, <1>3, <1>4, ExactStep
<1>6. UnitsApart' /\ PairsCovered'
  BY DEF Meaning, PickPure, UnitsApart, PairsCovered
<1> QED
  BY <1>1, <1>2, <1>5, <1>6, PickStep DEF PickPure

\* The first pair is the least: no pair is passed.
LEMMA PickPairsMeaning ==
  ASSUME Inv, Meaning, PickPairs PROVE Meaning'
<1>1. /\ WellFormed(cnf, {}) /\ pc = "pick"
      /\ frgt \in SUBSET Var /\ cnf.idx \in [Lit -> SUBSET Slot]
  BY WellNow, InvWellFormed DEF PickPairs, TypeOK, CnfObject
<1>2. PICK x \in frgt :
        /\ v' = x /\ NoUnit(x)
        /\ \E i \in cnf.idx[PosLit(x)], j \in cnf.idx[NegLit(x)] :
             /\ IsLeast(i, cnf.idx[PosLit(x)]) /\ IsLeast(j, cnf.idx[NegLit(x)])
             /\ cursor' = <<i, j>>
  BY DEF PickPairs
<1>3. PICK i \in cnf.idx[PosLit(x)], j \in cnf.idx[NegLit(x)] :
        /\ IsLeast(i, cnf.idx[PosLit(x)]) /\ IsLeast(j, cnf.idx[NegLit(x)])
        /\ cursor' = <<i, j>>
  BY <1>2
<1>4. /\ cnf.idx[PosLit(x)] \subseteq Nat /\ cnf.idx[NegLit(x)] \subseteq Nat
  BY <1>1, <1>2, VarLemma DEF Slot
<1>5. \A a \in cnf.idx[PosLit(x)], b \in cnf.idx[NegLit(x)] :
        ~ (a < i \/ (a = i /\ b < j))
  BY <1>3, <1>4 DEF IsLeast
<1>6. PairsCovered'
  BY <1>2, <1>3, <1>5 DEF PickPairs, PairsCovered, Passed, lp, ln, NoUnit
<1>7. UnitsApart'
  BY DEF Meaning, PickPairs, UnitsApart
<1> QED
  BY <1>1, <1>2, <1>6, <1>7, PickStep DEF PickPairs

\* Whatever an iteration does with the resolvent of the pair at the cursor, it
\* adds at most that, and the pair is covered afterwards.
LEMMA ResolveCovers ==
  ASSUME Inv, Resolve
  PROVE  /\ cnf'.units = cnf.units
         /\ \/ cnf' = cnf
            \/ LET p == Resolvent(cnf, cursor[1], cursor[2], lp) IN
               /\ Content(cnf') = Content(cnf) \cup {p}
               /\ \E id \in Slot : cnf'.idx = InsertId(cnf.idx, p, id)
         /\ Covered(cnf', cursor[1], cursor[2], v)
<1> DEFINE i == cursor[1]
           j == cursor[2]
           p == Resolvent(cnf, i, j, lp)
<1>1. /\ WellFormed(cnf, {}) /\ cnf \in CnfObject /\ pc = "resolve"
  BY WellNow DEF Resolve, WellFormed
<1>2. /\ i \in cnf.active /\ j \in cnf.active /\ i \in Slot /\ j \in Slot
      /\ p \in Clauses /\ lp = PosLit(v)
  BY <1>1, ResolventFacts DEF lp
<1>3. CASE TrivialResolvent(cnf, i, j, lp)
  <2>1. cnf' = cnf
    BY <1>3 DEF Resolve
  <2>2. IsTautology(p)
    BY <1>3 DEF TrivialResolvent, IsTautology, Resolvent
  <2> QED
    BY <1>2, <2>1, <2>2 DEF Covered
<1>4. CASE /\ ~ TrivialResolvent(cnf, i, j, lp) /\ Redundant(cnf, p)
  <2>1. cnf' = cnf
    BY <1>4 DEF Resolve, AddClauseNonredundant, AtCursor
  <2>2. \E k \in cnf.active : cnf.clauses[k] \subseteq p
    BY <1>4 DEF Redundant
  <2> QED
    BY <1>2, <2>1, <2>2 DEF Covered
<1>5. CASE /\ ~ TrivialResolvent(cnf, i, j, lp) /\ ~ Redundant(cnf, p)
  <2> HIDE DEF p
  <2>1. cnf' = AddClause(cnf, p) /\ (cnf.avail # <<>> \/ cnf.size < MaxClauses)
    BY <1>5 DEF Resolve, AddClauseNonredundant, AtCursor, p
  <2>2. PICK id \in Slot : Stored(cnf, p, id, cnf')
    BY <1>1, <1>2, <2>1, AddClauseStores DEF WellFormed
  <2>3. /\ id \notin cnf.active /\ cnf'.active = cnf.active \cup {id}
        /\ cnf'.clauses = [cnf.clauses EXCEPT ![id] = p]
        /\ cnf'.idx = InsertId(cnf.idx, p, id) /\ cnf'.units = cnf.units
    BY <2>2 DEF Stored
  <2>4. /\ \A k \in cnf.active : cnf'.clauses[k] = cnf.clauses[k]
        /\ cnf'.clauses[id] = p
    BY <1>1, <2>3 DEF CnfObject
  <2>5. {cnf'.clauses[k] : k \in cnf'.active}
          = {cnf.clauses[k] : k \in cnf.active} \cup {p}
    BY <2>3, <2>4
  <2>6. Content(cnf') = Content(cnf) \cup {p}
    BY <2>3, <2>5 DEF Content
  <2>7. Resolvent(cnf', i, j, PosLit(v)) = p
    BY <1>2, <2>4 DEF Resolvent, Kept, p
  <2>8. id \in cnf'.active /\ cnf'.clauses[id] \subseteq p
    BY <2>3, <2>4
  <2>9. Covered(cnf', i, j, v)
    BY <2>7, <2>8 DEF Covered
  <2> QED
    BY <2>3, <2>6, <2>9 DEF p
<1> QED
  BY <1>3, <1>4, <1>5

\* A resolvent follows from the two clauses.
LEMMA ResolventFollows ==
  ASSUME Inv, pc = "resolve", NEW m \in Assignments,
         SatClause(m, cnf.clauses[cursor[1]]), SatClause(m, cnf.clauses[cursor[2]])
  PROVE  SatClause(m, Resolvent(cnf, cursor[1], cursor[2], lp))
<1> DEFINE c == cnf.clauses[cursor[1]]
           d == cnf.clauses[cursor[2]]
<1>1. /\ cursor[1] \in cnf.active /\ cursor[2] \in cnf.active
      /\ cursor[1] \in Slot /\ cursor[2] \in Slot
  BY ResolventFacts
<1>2. /\ ~ IsTautology(d) /\ WellFormed(cnf, {}) /\ v \in Var
      /\ cursor[2] \in cnf.idx[ln]
  BY <1>1, WellNow, InvWellFormed DEF NoTautology, TypeOK, IteratorsValid
<1>3. lp = PosLit(v) /\ ln = NegLit(v) /\ Neg(lp) = ln /\ Neg(ln) = lp /\ ln \in Lit
  BY <1>2, VarLemma DEF lp, ln
<1>4. ln \in d /\ lp \notin d
  BY <1>1, <1>2, <1>3, ListsExactly DEF IsTautology
<1>5. Resolvent(cnf, cursor[1], cursor[2], lp) = (c \ {lp}) \cup (d \ {ln})
  BY <1>3, <1>4 DEF Resolvent, Kept
<1> HIDE DEF c, d
<1>6. PICK k \in c : Satisfies(m, k)
  BY DEF SatClause, c
<1>7. PICK l \in d : Satisfies(m, l)
  BY DEF SatClause, d
<1>8. Satisfies(m, lp) => ~ Satisfies(m, ln)
  BY <1>2, <1>3, SatVar
<1>9. k # lp \/ l # ln
  BY <1>6, <1>7, <1>8
<1> QED
  BY <1>5, <1>6, <1>7, <1>9 DEF SatClause

\* The pairs the loops have passed stay covered, and the one at the cursor
\* joins them.
LEMMA ResolveProgress ==
  ASSUME Inv, PairsCovered, Resolve,
         NEW a \in cnf'.idx[lp], NEW b \in cnf'.idx[ln],
         a < cursor[1] \/ (a = cursor[1] /\ b <= cursor[2])
  PROVE  Covered(cnf', a, b, v)
<1>1. /\ WellFormed(cnf, {}) /\ pc = "resolve" /\ v \in Var
      /\ cursor[1] \in Nat /\ cursor[2] \in Nat
  BY WellNow, InvWellFormed DEF Resolve, TypeOK
<1>2. /\ a \in cnf.idx[lp] /\ b \in cnf.idx[ln]
      /\ \A i \in cnf.active : i \in cnf'.active /\ cnf'.clauses[i] = cnf.clauses[i]
  BY ResolveFormula
<1>3. lp = PosLit(v) /\ lp \in Lit /\ ln \in Lit
  BY <1>1, VarLemma DEF lp, ln
<1>4. a \in cnf.active /\ b \in cnf.active /\ a \in Nat /\ b \in Nat
  BY <1>1, <1>2, <1>3, ListsExactly DEF Slot
<1>5. CASE a = cursor[1] /\ b = cursor[2]
  BY <1>5, ResolveCovers
<1>6. CASE Passed(a, b)
  <2>1. Covered(cnf, a, b, v)
    BY <1>1, <1>2, <1>6 DEF PairsCovered
  <2>2. Resolvent(cnf', a, b, PosLit(v)) = Resolvent(cnf, a, b, PosLit(v))
    BY <1>2, <1>4 DEF Resolvent, Kept
  <2> QED
    BY <1>2, <2>1, <2>2 DEF Covered
<1> QED
  BY <1>1, <1>4, <1>5, <1>6 DEF Passed

\* One iteration of the nested loops keeps the meaning; the last one leaves the
\* pairs covered, so that the old clauses may go.
LEMMA ResolveMeaning ==
  ASSUME Inv, Meaning, Resolve PROVE Meaning'
<1>1. /\ WellFormed(cnf, {}) /\ pc = "resolve" /\ v \in Var /\ round = {}
      /\ cursor[1] \in Nat /\ cursor[2] \in Nat /\ dign \in SUBSET Var
      /\ cnf.units \in SUBSET Lit
  BY WellNow, InvWellFormed DEF Resolve, TypeOK, WellFormed, CnfObject
<1>2. /\ formula' = formula /\ up' = up /\ round' = round /\ frgt' = frgt
      /\ dign' = dign /\ v' = v /\ lp' = lp /\ ln' = ln /\ Advance(cnf')
  BY DEF Resolve, lp, ln
<1>3. /\ WellFormed(cnf', {}) /\ cnf'.units = cnf.units
      /\ cnf'.idx[lp] = cnf.idx[lp] /\ cnf'.idx[ln] = cnf.idx[ln]
  BY ResolveFormula, ResolveCovers
<1>4. lp = PosLit(v) /\ ln = NegLit(v) /\ lp \in Lit /\ ln \in Lit
  BY <1>1, VarLemma DEF lp, ln
<1>5. cnf'.idx[lp] \subseteq Nat /\ cnf'.idx[ln] \subseteq Nat
  BY <1>3, <1>4 DEF WellFormed, CnfObject, Slot
<1>6. Models(Content(cnf')) = Models(Content(cnf))
  <2>1. CASE cnf' = cnf
    BY <2>1
  <2>2. CASE Content(cnf') = Content(cnf)
                \cup {Resolvent(cnf, cursor[1], cursor[2], lp)}
    <3>1. /\ cnf.clauses[cursor[1]] \in Content(cnf)
          /\ cnf.clauses[cursor[2]] \in Content(cnf)
      BY <1>1, ResolventFacts DEF Content
    <3> QED
      BY <1>1, <2>2, <3>1, ResolventFollows DEF Models
  <2> QED
    BY <2>1, <2>2, ResolveCovers
<1>7. UnitsApart'
  <2>1. CASE cnf' = cnf
    BY <1>2, <2>1 DEF Meaning, UnitsApart
  <2> DEFINE p == Resolvent(cnf, cursor[1], cursor[2], lp)
  <2>2. CASE \E id \in Slot : cnf'.idx = InsertId(cnf.idx, p, id)
    <3>1. /\ p \subseteq cnf.clauses[cursor[1]] \cup cnf.clauses[cursor[2]]
          /\ cursor[1] \in cnf.active /\ cursor[2] \in cnf.active
      BY <1>1, ResolventFacts
    <3> HIDE DEF p
    <3>2. \A l \in Lit : cnf.idx[l] = {} => l \notin p
      BY <1>1, <3>1, ListsExactly
    <3>3. \A l \in Lit : cnf.idx[l] = {} => cnf'.idx[l] = {}
      BY <2>2, <3>2 DEF InsertId
    <3> QED
      BY <1>1, <1>2, <1>3, <3>3, NegLemma DEF Meaning, UnitsApart
  <2> QED
    BY <2>1, <2>2, ResolveCovers
<1>8. \A a \in cnf'.idx[lp], b \in cnf'.idx[ln] :
        a < cursor[1] \/ (a = cursor[1] /\ b <= cursor[2]) => Covered(cnf', a, b, v)
  BY ResolveProgress DEF Meaning
<1>9. lp \notin cnf'.units /\ ln \notin cnf'.units
  BY <1>1, <1>3 DEF Meaning, PairsCovered
<1>10. Exact(Content(cnf'), dign) /\ v \in frgt /\ v \notin dign
  BY <1>1, <1>6, ExactSame
  DEF Meaning, FormulaExact, ForgottenOnce, Dropping
<1>11. Models(Content(up)) = Models(Input)
  BY <1>1 DEF Meaning, UpExact, Simplifying, Writing
<1> DEFINE nextIn == {j \in cnf'.idx[ln] : j > cursor[2]}
           nextIp == {i \in cnf'.idx[lp] : i > cursor[1]}
<1>12. CASE /\ pc' = "resolve" /\ PairsCovered'
  <2>1. FormulaExact' /\ UpExact'
    BY <1>2, <1>10, <1>11, <1>12, NextExact
  <2>2. ForgottenOnce' /\ FilesWritten'
    BY <1>2, <1>10, <1>12
    DEF Meaning, ForgottenOnce, FilesWritten, Writing, Simplifying
  <2> QED
    BY <1>7, <1>12, <2>1, <2>2 DEF Meaning
<1>13. CASE /\ nextIn # {} /\ pc' = pc
            /\ \E j \in nextIn : IsLeast(j, nextIn) /\ cursor' = <<cursor[1], j>>
  <2>1. PICK j \in nextIn : IsLeast(j, nextIn) /\ cursor' = <<cursor[1], j>>
    BY <1>13
  <2>2. \A b \in cnf'.idx[ln] : b < j => b <= cursor[2]
    BY <1>1, <1>5, <2>1 DEF IsLeast
  <2>3. PairsCovered'
    BY <1>2, <1>8, <1>9, <2>1, <2>2 DEF PairsCovered, Passed
  <2> QED
    BY <1>1, <1>12, <1>13, <2>3
<1>14. CASE /\ nextIn = {} /\ pc' = pc
            /\ \E i \in nextIp, j \in cnf'.idx[ln] :
                 /\ IsLeast(i, nextIp) /\ IsLeast(j, cnf'.idx[ln])
                 /\ cursor' = <<i, j>>
  <2>1. PICK i \in nextIp, j \in cnf'.idx[ln] :
          IsLeast(i, nextIp) /\ IsLeast(j, cnf'.idx[ln]) /\ cursor' = <<i, j>>
    BY <1>14
  <2>2. \A a \in cnf'.idx[lp] : a < i => a <= cursor[1]
    BY <1>1, <1>5, <2>1 DEF IsLeast
  <2>3. \A b \in cnf'.idx[ln] : b <= cursor[2] /\ ~ (b < j)
    BY <1>1, <1>5, <1>14, <2>1 DEF IsLeast
  <2>4. \A a \in cnf'.idx[lp], b \in cnf'.idx[ln] :
          a < i \/ (a = i /\ b < j)
            => a < cursor[1] \/ (a = cursor[1] /\ b <= cursor[2])
    BY <1>1, <1>5, <2>2, <2>3
  <2>5. PairsCovered'
    BY <1>2, <1>8, <1>9, <2>1, <2>4 DEF PairsCovered, Passed
  <2> QED
    BY <1>1, <1>12, <1>14, <2>5
<1>15. CASE nextIn = {} /\ nextIp = {} /\ pc' = "dropPos"
  <2>1. \A a \in cnf'.idx[lp], b \in cnf'.idx[ln] : Covered(cnf', a, b, v)
    <3>1. \A a \in cnf'.idx[lp] : a <= cursor[1]
      BY <1>1, <1>5, <1>15
    <3>2. \A b \in cnf'.idx[ln] : b <= cursor[2]
      BY <1>1, <1>5, <1>15
    <3>3. \A a \in cnf'.idx[lp] : a < cursor[1] \/ a = cursor[1]
      BY <1>1, <1>5, <3>1
    <3> QED
      BY <1>8, <3>2, <3>3
  <2>2. ForgetsTo(Content(cnf'), v, Rest(cnf', v))
    BY <1>1, <1>3, <1>4, <1>9, <2>1, CoveredForgets
  <2>3. Exact(Rest(cnf', v), dign \cup {v})
    BY <1>1, <1>10, <2>2, ExactStep
  <2>4. FormulaExact' /\ UpExact'
    BY <1>2, <1>11, <1>15, <2>3, NextExact
  <2>5. ForgottenOnce' /\ FilesWritten' /\ PairsCovered'
    BY <1>2, <1>10, <1>15
    DEF Meaning, ForgottenOnce, FilesWritten, Writing, Simplifying, PairsCovered
  <2> QED
    BY <1>7, <2>4, <2>5 DEF Meaning
<1> QED
  BY <1>2, <1>13, <1>14, <1>15 DEF Advance

\* The program dies with the formulas as they are.
LEMMA ResolveEmptyMeaning ==
  ASSUME Inv, Meaning, ResolveEmpty PROVE Meaning'
<1>1. FormulaExact' /\ UpExact'
  BY NextExact
  DEF Meaning, ResolveEmpty, FormulaExact, UpExact, Dropping, Simplifying, Writing
<1> QED
  BY <1>1 DEF Meaning, ResolveEmpty, UnitsApart, ForgottenOnce, FilesWritten,
     PairsCovered, Writing, Simplifying, Dropping

\* An empty resolvent follows from the formula, which then has no model, and is
\* exact: the input has none either.
LEMMA EmptyResolvent ==
  ASSUME Inv, Meaning, ResolveEmpty PROVE Models(Input) = {}
<1>1. pc = "resolve" /\ AtCursor = {}
  BY DEF ResolveEmpty
<1>2. /\ cnf.clauses[cursor[1]] \in Content(cnf)
      /\ cnf.clauses[cursor[2]] \in Content(cnf)
  BY <1>1, ResolventFacts DEF Content
<1>3. Models(Content(cnf)) = {}
  <2> SUFFICES ASSUME NEW m \in Models(Content(cnf)) PROVE FALSE
    OBVIOUS
  <2>1. SatClause(m, AtCursor)
    BY <1>1, <1>2, ResolventFollows DEF Models, AtCursor
  <2> QED
    BY <1>1, <2>1 DEF SatClause
<1>4. Exact(Content(cnf), dign)
  BY <1>1 DEF Meaning, FormulaExact, Dropping
<1> QED
  BY <1>3, <1>4 DEF Exact, Models

\* The clauses that go have the variable: the others are the same.
LEMMA DropOneMeaning ==
  ASSUME Inv, Meaning, DropOne PROVE Meaning'
<1>1. /\ WellFormed(cnf, {}) /\ cnf \in CnfObject /\ pc \in {"dropPos", "dropNeg"}
      /\ round = {} /\ v \in Var /\ IteratorsValid
  BY WellNow, InvWellFormed DEF DropOne, TypeOK, WellFormed
<1>2. PICK id \in ids : cnf' = RmClause(cnf, id)
  BY DEF DropOne
<1>3. /\ lp = PosLit(v) /\ ln = NegLit(v) /\ lp \in Lit /\ ln \in Lit
      /\ id \in cnf.idx[lp] \cup cnf.idx[ln] /\ id \in Slot
  BY <1>1, <1>2, VarLemma DEF IteratorsValid, lp, ln, CnfObject
<1>4. /\ cnf'.clauses = cnf.clauses /\ cnf'.units = cnf.units
      /\ cnf'.active = cnf.active \ {id}
      /\ cnf'.idx = EraseId(cnf.idx, cnf.clauses[id], id)
  BY <1>1, <1>2, <1>3, RmClauseFields
<1>5. \A l \in Lit : cnf'.idx[l] = cnf.idx[l] \/ cnf'.idx[l] = cnf.idx[l] \ {id}
  BY <1>4 DEF EraseId
<1>6. cnf'.active \ (cnf'.idx[lp] \cup cnf'.idx[ln])
        = cnf.active \ (cnf.idx[lp] \cup cnf.idx[ln])
  BY <1>3, <1>4, <1>5
<1>7. Rest(cnf', v) = Rest(cnf, v)
  BY <1>3, <1>4, <1>6 DEF Rest
<1>8. UnitsApart'
  <2>1. cnf.units \in SUBSET Lit /\ round' = round
    BY <1>1 DEF CnfObject, DropOne
  <2> QED
    BY <1>1, <1>4, <1>5, <2>1, NegLemma DEF Meaning, UnitsApart
<1>9. FormulaExact' /\ UpExact'
  <2>1. /\ Exact(Rest(cnf, v), dign \cup {v}) /\ Models(Content(up)) = Models(Input)
    BY <1>1
    DEF Meaning, FormulaExact, UpExact, Dropping, Simplifying, Writing
  <2> QED
    BY <1>1, <1>7, <2>1, NextExact DEF DropOne
<1>10. ForgottenOnce' /\ FilesWritten' /\ PairsCovered'
  BY <1>1 DEF Meaning, DropOne, ForgottenOnce, FilesWritten, PairsCovered,
     Writing, Simplifying, Dropping
<1> QED
  BY <1>8, <1>9, <1>10 DEF Meaning

LEMMA DropNegStartMeaning ==
  ASSUME Inv, Meaning, DropNegStart PROVE Meaning'
<1>1. FormulaExact' /\ UpExact'
  BY NextExact
  DEF Meaning, DropNegStart, FormulaExact, UpExact, Dropping, Simplifying, Writing
<1> QED
  BY <1>1 DEF Meaning, DropNegStart, UnitsApart, ForgottenOnce, FilesWritten,
     PairsCovered, Writing, Simplifying, Dropping

\* Once its clauses are gone, the variable is one of the forgotten.
LEMMA ForgottenMeaning ==
  ASSUME Inv, Meaning, Forgotten PROVE Meaning'
<1>1. /\ pc = "dropNeg" /\ ids = {} /\ IteratorsValid
      /\ dign' = dign \cup {v} /\ frgt' = frgt \ {v} /\ pc' \in {"write", "pick"}
      /\ formula' = formula /\ cnf' = cnf /\ up' = up /\ round' = round
  BY InvWellFormed DEF Forgotten
<1>2. Rest(cnf, v) = Content(cnf)
  <2>1. cnf.idx[PosLit(v)] = {} /\ cnf.idx[NegLit(v)] = {}
    BY <1>1 DEF IteratorsValid, lp, ln
  <2> QED
    BY <2>1 DEF Rest, Content
<1>3. FormulaExact' /\ UpExact'
  BY <1>1, <1>2, NextExact
  DEF Meaning, FormulaExact, UpExact, Dropping, Simplifying, Writing
<1> QED
  BY <1>1, <1>3 DEF Meaning, UnitsApart, ForgottenOnce, FilesWritten,
     PairsCovered, Writing, Simplifying, Dropping

LEMMA AllForgottenMeaning ==
  ASSUME Inv, Meaning, AllForgotten PROVE Meaning'
<1>1. FormulaExact' /\ UpExact'
  BY NextExact
  DEF Meaning, AllForgotten, FormulaExact, UpExact, Dropping, Simplifying, Writing
<1> QED
  BY <1>1 DEF Meaning, AllForgotten, UnitsApart, ForgottenOnce, FilesWritten,
     PairsCovered, Writing, Simplifying, Dropping

\* .p gets the formula and the forgotten variables.
LEMMA WritePMeaning ==
  ASSUME Inv, Meaning, WriteP PROVE Meaning'
<1>1. /\ pc = "write" /\ pc' = "upperBound" /\ pFile' = FileOf(cnf, dign, prj)
      /\ formula' = formula /\ cnf' = cnf /\ up' = up /\ dign' = dign
      /\ frgt' = frgt /\ round' = round
  BY DEF WriteP
<1>2. Models(Content(up)) = Models(Input) /\ Exact(Content(cnf), dign)
  BY <1>1 DEF Meaning, FormulaExact, UpExact, Dropping, Simplifying, Writing
<1>3. FormulaExact' /\ UpExact'
  BY <1>1, <1>2, NextExact
<1>4. pFile'.clauses = Content(cnf') /\ pFile'.forced = dign'
  BY <1>1 DEF FileOf
<1> QED
  BY <1>1, <1>3, <1>4 DEF Meaning, UnitsApart, ForgottenOnce, FilesWritten,
     PairsCovered, Writing, Simplifying, Dropping

\* A clause over kept variables only may go from the copy: an assignment that
\* a model of the input extends to the forgotten variables satisfies it.
LEMMA UpperBoundMeaning ==
  ASSUME Inv, Meaning, UpperBound PROVE Meaning'
<1>1. /\ pc = "upperBound" /\ pc' = "upperBound" /\ up \in CnfObject
      /\ formula' = formula /\ cnf' = cnf /\ dign' = dign /\ frgt' = frgt
      /\ round' = round /\ pFile' = pFile /\ at \in Nat /\ at < up.size
      /\ dign \in SUBSET Var
  BY InvWellFormed DEF UpperBound, TypeOK
<1>2. at \in Slot /\ up.clauses[at] \in Clauses
  BY <1>1, MaxClausesAssumption DEF CnfObject, Slot
<1>3. /\ Models(Input) \subseteq Models(Content(up))
      /\ \A m \in Models(Content(up)) :
           (\E n \in Models(Input) : n \ dign = m \ dign) => m \in Models(Input)
      /\ Exact(Content(cnf), dign)
  BY <1>1 DEF Meaning, FormulaExact, UpExact, Dropping, Simplifying, Writing
<1>4. CASE up' = up
  <2>1. FormulaExact' /\ UpExact'
    BY <1>1, <1>3, <1>4, NextExact
  <2> QED
    BY <1>1, <2>1 DEF Meaning, UnitsApart, ForgottenOnce, FilesWritten,
       PairsCovered, Writing, Simplifying, Dropping
<1>5. CASE /\ {VarOf(l) : l \in up.clauses[at]} \subseteq TrueProjection
           /\ up' = RmClause(up, at)
  <2>1. /\ up'.clauses = up.clauses /\ up'.units = up.units
        /\ up'.active = up.active \ {at}
    BY <1>1, <1>2, <1>5, RmClauseFields
  <2>2. /\ Content(up') \subseteq Content(up)
        /\ Content(up) \subseteq Content(up') \cup {up.clauses[at]}
    BY <2>1 DEF Content
  <2>3. Models(Input) \subseteq Models(Content(up'))
    BY <1>3, <2>2 DEF Models
  <2>4. ASSUME NEW m \in Models(Content(up')), NEW n \in Models(Input),
               n \ dign = m \ dign
        PROVE  m \in Models(Input)
    <3>1. m \in Assignments /\ n \in Assignments
      BY DEF Models
    <3>2. CASE up.clauses[at] \in Content(up)
      <4>1. SatClause(n, up.clauses[at])
        BY <1>3, <3>2 DEF Models
      <4>2. \A l \in up.clauses[at] : VarOf(l) \in m <=> VarOf(l) \in n
        BY <1>5, <2>4 DEF TrueProjection
      <4>3. SatClause(m, up.clauses[at])
        BY <1>2, <3>1, <4>1, <4>2, SameOnClause
      <4>4. m \in Models(Content(up))
        BY <2>2, <4>3 DEF Models
      <4> QED
        BY <1>3, <2>4, <4>4
    <3>3. CASE up.clauses[at] \notin Content(up)
      <4>1. m \in Models(Content(up))
        BY <2>2, <3>3 DEF Models
      <4> QED
        BY <1>3, <2>4, <4>1
    <3> QED
      BY <3>2, <3>3
  <2>5. FormulaExact' /\ UpExact'
    BY <1>1, <1>3, <2>3, <2>4, NextExact
  <2> QED
    BY <1>1, <2>5 DEF Meaning, UnitsApart, ForgottenOnce, FilesWritten,
       PairsCovered, Writing, Simplifying, Dropping
<1> QED
  BY <1>4, <1>5 DEF UpperBound

\* .pup gets the copy, .log the kept variables.
LEMMA WriteUpMeaning ==
  ASSUME Inv, Meaning, WriteUp PROVE Meaning'
<1>1. /\ pc = "upperBound" /\ pc' = "done" /\ upFile' = FileOf(up, {}, Var)
      /\ formula' = formula /\ cnf' = cnf /\ up' = up /\ dign' = dign
      /\ frgt' = frgt /\ round' = round /\ pFile' = pFile /\ logFile' = Var \ dign
  BY DEF WriteUp, TrueProjection
<1>2. FormulaExact' /\ UpExact'
  BY <1>1, NextExact
  DEF Meaning, FormulaExact, UpExact, Dropping, Simplifying, Writing
<1>3. upFile'.clauses = Content(up') /\ upFile'.forced = {}
  BY <1>1 DEF FileOf
<1> QED
  BY <1>1, <1>2, <1>3 DEF Meaning, UnitsApart, ForgottenOnce, FilesWritten,
     PairsCovered, Writing, Simplifying, Dropping

\* The object built from a file says what the file says.
LEMMA InitMeaning == Init => Meaning
<1> SUFFICES ASSUME Init PROVE Meaning
  OBVIOUS
<1>1. formula \in Seq(Clauses) /\ Len(formula) <= MaxClauses
  BY FormulasAssumption DEF Init
<1>2. /\ cnf = CnfOf(formula) /\ dign = {} /\ frgt = {} /\ round = {}
      /\ pc = "tautologies"
  BY DEF Init
<1>3. Content(cnf) = Input
  <2>1. Content(cnf) = {cnf.clauses[i] : i \in cnf.active} /\ cnf.units = {}
    BY <1>2 DEF Content, CnfOf
  <2>2. /\ cnf.active = {i \in Slot : i < Len(formula)}
        /\ cnf.clauses = [i \in Slot |-> IF i < Len(formula)
                                          THEN formula[i + 1] ELSE {}]
    BY <1>2 DEF CnfOf
  <2>3. \A i \in cnf.active : i + 1 \in 1 .. Len(formula) /\ cnf.clauses[i] = formula[i + 1]
    BY <1>1, <2>2 DEF Slot
  <2>4. \A k \in 1 .. Len(formula) :
          k - 1 \in cnf.active /\ cnf.clauses[k - 1] = formula[k]
    BY <1>1, <2>2, MaxClausesAssumption DEF Slot
  <2>5. \A c \in Input : \E i \in cnf.active : c = cnf.clauses[i]
    BY <2>4 DEF Input
  <2>6. \A i \in cnf.active : cnf.clauses[i] \in Input
    BY <2>3 DEF Input
  <2> QED
    BY <2>1, <2>5, <2>6
<1>4. FormulaExact
  BY <1>2, <1>3, ExactStart DEF FormulaExact, Dropping
<1>5. UnitsApart
  BY <1>2 DEF UnitsApart, CnfOf
<1> QED
  BY <1>2, <1>4, <1>5 DEF Meaning, ForgottenOnce, PairsCovered, UpExact,
     FilesWritten, Simplifying, Dropping, Writing

-----------------------------------------------------------------------------

\* Every step keeps what the formulas mean.
LEMMA NextMeaning == Inv /\ Meaning /\ [Next]_vars => Meaning'
<1> SUFFICES ASSUME Inv, Meaning, [Next]_vars PROVE Meaning'
  OBVIOUS
<1>1. CASE UNCHANGED vars
  <2>1. FormulaExact' /\ UpExact'
    BY <1>1, NextExact
    DEF vars, Meaning, FormulaExact, UpExact, Dropping, Simplifying, Writing
  <2>2. UnitsApart' /\ ForgottenOnce' /\ FilesWritten'
    BY <1>1 DEF vars, Meaning, UnitsApart, ForgottenOnce, FilesWritten,
       Dropping, Simplifying, Writing
  <2>3. PairsCovered'
    BY <1>1 DEF vars, Meaning, PairsCovered, Passed, lp, ln
  <2> QED
    BY <2>1, <2>2, <2>3 DEF Meaning
<1>2. CASE Next
  BY <1>1, <1>2, TautologyMeaning, TautologiesDoneMeaning, CollectMeaning,
     PropagateNextMeaning, CopyMeaning, PickUnitMeaning, PickPureMeaning,
     PickPairsMeaning, ResolveMeaning, ResolveEmptyMeaning, DropOneMeaning, DropNegStartMeaning,
     ForgottenMeaning, AllForgottenMeaning, WritePMeaning, UpperBoundMeaning,
     WriteUpMeaning DEF Next, Finished
<1> QED
  BY <1>1, <1>2

\* Through propagation, resolution, removal and the upper bound, the projected
\* formula is the projection of the input on the variables not forgotten yet,
\* and the copy completes it.
THEOREM MeaningCorrect == Spec => []Meaning
  BY InitMeaning, NextMeaning, SpecInv, PTL DEF Spec

\* The program dies of an empty resolvent only.
CrashedEmpty == pc = "crashed" => Models(Input) = {}

\* Only an empty resolvent ends the program early.
LEMMA OnlyEmpty ==
  ASSUME Next, pc' = "crashed" PROVE ResolveEmpty \/ UNCHANGED vars
  BY DEF Next, Tautology, TautologiesDone, Collect, PropagateNext, Copy, PickUnit,
         PickPure, PickPairs, Resolve, Advance, DropOne, DropNegStart, Forgotten,
         AllForgotten, WriteP, UpperBound, WriteUp, Finished

\* The program dies only when the input has no model.
LEMMA NextCrashed == Inv /\ Meaning /\ CrashedEmpty /\ [Next]_vars => CrashedEmpty'
<1> SUFFICES ASSUME Inv, Meaning, CrashedEmpty, [Next]_vars, pc' = "crashed"
             PROVE  Models(Input') = {}
  BY DEF CrashedEmpty, Models
<1>1. CASE UNCHANGED vars
  BY <1>1 DEF vars, CrashedEmpty, Input
<1>2. CASE ResolveEmpty
  BY <1>2, EmptyResolvent DEF ResolveEmpty, Input
<1> QED
  BY <1>1, <1>2, OnlyEmpty

\* When the program dies, there were no models to project.
LEMMA CrashedCorrect == Spec => []CrashedEmpty
<1>1. Init => CrashedEmpty
  BY DEF Init, CrashedEmpty
<1> QED
  BY <1>1, NextCrashed, SpecInv, MeaningCorrect, PTL DEF Spec

-----------------------------------------------------------------------------
(* What the three files say. *)

\* The models of .p are the projected models with the forgotten variables true.
LEMMA PFileModels ==
  ASSUME Inv, Meaning, pc = "done", NEW m \in Assignments
  PROVE  /\ m \in FileModels(pFile)
              <=> dign \subseteq m /\ \E n \in Models(Input) : n \ dign = m \ dign
         /\ m \cap logFile = m \ dign
<1>1. /\ dign \in SUBSET Var /\ Exact(Content(cnf), dign) /\ logFile = Var \ dign
      /\ pFile.clauses = Content(cnf) /\ pFile.forced = dign
  BY InvWellFormed DEF Meaning, FormulaExact, FilesWritten, Dropping, Writing, TypeOK
<1>2. m \cap logFile = m \ dign
  BY <1>1 DEF Assignments
<1>3. ASSUME NEW x \in dign
      PROVE  SatClause(m, {PosLit(x)}) <=> x \in m
  BY <1>1, SatVar DEF SatClause
<1>4. m \in FileModels(pFile) <=> m \in Models(Content(cnf)) /\ dign \subseteq m
  <2>1. FileModels(pFile) = Models(Content(cnf) \cup {{PosLit(x)} : x \in dign})
    BY <1>1 DEF FileModels
  <2>2. m \in Models(Content(cnf) \cup {{PosLit(x)} : x \in dign}) <=>
          /\ m \in Models(Content(cnf))
          /\ \A x \in dign : SatClause(m, {PosLit(x)})
    BY DEF Models
  <2> QED
    BY <1>3, <2>1, <2>2
<1>5. dign \subseteq m => m \cup dign = m
  OBVIOUS
<1>6. (\E n \in Models(Input) : n \ dign = m \ dign)
        <=> m \cup dign \in Models(Content(cnf))
  BY <1>1 DEF Exact
<1> QED
  BY <1>2, <1>4, <1>5, <1>6

\* The file .p says of the kept variables what the input says of them.
LEMMA DoneKept ==
  ASSUME Inv, Meaning, pc = "done" PROVE KeptExact
<1>1. /\ dign \in SUBSET Var /\ Models(Input) \subseteq Assignments
      /\ FileModels(pFile) \subseteq Assignments
  BY InvWellFormed DEF TypeOK, Models, FileModels
<1>2. ASSUME NEW s \in ProjectOn(FileModels(pFile), logFile)
      PROVE  s \in ProjectOn(Models(Input), logFile)
  <2>1. PICK m \in FileModels(pFile) : s = m \cap logFile
    BY DEF ProjectOn
  <2>2. PICK n \in Models(Input) : n \ dign = m \ dign
    BY <1>1, <2>1, PFileModels
  <2>3. n \cap logFile = s
    BY <1>1, <2>1, <2>2, PFileModels
  <2> QED
    BY <2>3 DEF ProjectOn
<1>3. ASSUME NEW s \in ProjectOn(Models(Input), logFile)
      PROVE  s \in ProjectOn(FileModels(pFile), logFile)
  <2>1. PICK n \in Models(Input) : s = n \cap logFile
    BY DEF ProjectOn
  <2> DEFINE m == n \cup dign
  <2>2. m \in Assignments /\ dign \subseteq m /\ n \ dign = m \ dign
    BY <1>1 DEF Assignments
  <2>3. m \in FileModels(pFile)
    BY <2>2, PFileModels
  <2>4. m \cap logFile = s
    BY <1>1, <2>1, <2>2, PFileModels
  <2> QED
    BY <2>3, <2>4 DEF ProjectOn
<1> QED
  BY <1>2, <1>3 DEF KeptExact

\* No two models of .p agree on the kept variables: they are as many as the
\* projected models.
LEMMA DoneCount ==
  ASSUME Inv, Meaning, pc = "done" PROVE PathCountExact
<1> DEFINE P == FileModels(pFile)
           Q == ProjectOn(Models(Input), logFile)
           f == [m \in P |-> m \cap logFile]
<1>1. IsFiniteSet(P)
  <2>1. IsFiniteSet(Var)
    BY NumVarsAssumption, FS_Interval DEF Var
  <2>2. IsFiniteSet(Assignments)
    BY <2>1, FS_SUBSET DEF Assignments
  <2>3. P \in SUBSET Assignments
    BY DEF Models, FileModels
  <2> QED
    BY <2>2, <2>3, FS_Subset
<1>2. Q = {m \cap logFile : m \in P}
  BY DoneKept DEF KeptExact, ProjectOn
<1>3. \A a, b \in P : a \cap logFile = b \cap logFile => a = b
  <2> SUFFICES ASSUME NEW a \in P, NEW b \in P, a \cap logFile = b \cap logFile
      PROVE a = b
    OBVIOUS
  <2>1. a \in Assignments /\ b \in Assignments
    BY DEF Models, FileModels
  <2>2. dign \subseteq a /\ dign \subseteq b /\ a \ dign = b \ dign
    BY <2>1, PFileModels
  <2> QED
    BY <2>2
<1> HIDE DEF P, Q
<1>4. f \in Bijection(P, Q)
  <2>1. f \in [P -> Q] /\ \A t \in Q : \E s \in P : f[s] = t
    BY <1>2
  <2>2. \A a, b \in P : f[a] = f[b] => a = b
    BY <1>3
  <2> QED
    BY <2>1, <2>2 DEF Bijection, Injection, Surjection, IsInjective
<1>5. ExistsBijection(P, Q)
  BY <1>4 DEF ExistsBijection
<1>6. Cardinality(Q) = Cardinality(P)
  BY <1>1, <1>5, FS_Bijection
<1> QED
  BY <1>6 DEF PathCountExact, P, Q

\* The models of .pup that extend a model of .p are the models of the input.
LEMMA DoneDivision ==
  ASSUME Inv, Meaning, pc = "done" PROVE DivisionExact
<1>1. /\ dign \in SUBSET Var /\ logFile = Var \ dign
      /\ upFile.clauses = Content(up) /\ upFile.forced = {}
      /\ Models(Input) \subseteq Models(Content(up))
      /\ \A m \in Models(Content(up)) :
           (\E n \in Models(Input) : n \ dign = m \ dign) => m \in Models(Input)
  BY InvWellFormed DEF Meaning, UpExact, FilesWritten, Writing, TypeOK
<1>2. FileModels(upFile) = Models(Content(up))
  <2>1. {{PosLit(x)} : x \in upFile.forced} = {}
    BY <1>1
  <2> QED
    BY <1>1, <2>1 DEF FileModels
<1>3. /\ Models(Input) \subseteq Assignments
      /\ Models(Content(up)) \subseteq Assignments
  BY DEF Models
<1>4. ProjectOn(FileModels(pFile), logFile) = ProjectOn(Models(Input), logFile)
  BY DoneKept DEF KeptExact
<1>5. ASSUME NEW m \in Models(Content(up))
      PROVE  m \cap logFile \in ProjectOn(Models(Input), logFile)
               <=> m \in Models(Input)
  <2>1. ASSUME m \cap logFile \in ProjectOn(Models(Input), logFile)
        PROVE  m \in Models(Input)
    <3>1. PICK n \in Models(Input) : m \cap logFile = n \cap logFile
      BY <2>1 DEF ProjectOn
    <3>2. n \ dign = m \ dign
      BY <1>3, <3>1, PFileModels
    <3> QED
      BY <1>1, <3>2
  <2>2. ASSUME m \in Models(Input)
        PROVE  m \cap logFile \in ProjectOn(Models(Input), logFile)
    BY <2>2 DEF ProjectOn
  <2> QED
    BY <2>1, <2>2
<1> QED
  BY <1>1, <1>2, <1>4, <1>5 DEF DivisionExact

\* The three files say what the input says, whatever the formula, the kept
\* variables and the moment project() stopped: .p is the projection, it has one
\* model for each projected model, and .pup has the models of each.  The program
\* dies without them, of an empty resolvent, only when the input has no model.
THEOREM ProjectionCorrect == Spec => []ProjectionExact
<1>1. Inv /\ Meaning /\ CrashedEmpty => ProjectionExact
  BY DoneKept, DoneCount, DoneDivision DEF ProjectionExact, CrashedEmpty
<1> QED
  BY <1>1, SpecInv, MeaningCorrect, CrashedCorrect, PTL

=============================================================================
