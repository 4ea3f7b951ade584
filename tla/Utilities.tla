----------------------------- MODULE Utilities -----------------------------
(***************************************************************************)
(* The functions of D4 that keep nothing: the literals in their two        *)
(* notations, the lifted booleans and their tables, the lists of literals  *)
(* and the subsumption test (utils/SolverTypes.hh), the sort of vectors    *)
(* (mtl/Sort.hh), and the sequence that paces the restarts of the solver   *)
(* (utils/Solver.cc).                                                      *)
(***************************************************************************)
EXTENDS Literals, Sequences, FiniteSets, FiniteSetsExt, SequencesExt, Bitwise

(* Literals. *)

mkLit(var, negative) == var + var + (IF negative THEN 1 ELSE 0)
Flip(p) == p ^^ 1                 \* operator ~
sign(p) == p & 1 = 1
var(p) == shiftR(p, 1)
readableLitToLit(l) == IF l < 0 THEN mkLit(- l - 1, TRUE) ELSE mkLit(l - 1, FALSE)
readableLit(p) == IF sign(p) THEN - (var(p) + 1) ELSE var(p) + 1
lit_Undef == -2
lit_Error == -1

(* Lifted booleans: a byte, 0 when true, 1 when false, 2 or 3 when undefined. *)

Bytes == 0 .. 3

Same(a, b) == (a & 2 # 0 /\ b & 2 # 0) \/ (b & 2 = 0 /\ a = b)    \* operator ==
LXor(a, negated) == a ^^ (IF negated THEN 1 ELSE 0)                \* operator ^

\* The bits of the two constants, from the lowest byte on.
AndTable == <<244, 85, 247, 247>>
OrTable == <<0, 244, 252, 252>>
Selected(table, a, b) == shiftR(table[b + 1], 2 * a) & 3
LAnd(a, b) == Selected(AndTable, a, b)
LOr(a, b) == Selected(OrTable, a, b)

\* The value of a literal under the bytes of the variables.
value(assigns, p) == LXor(assigns[var(p)], sign(p))

(* Lists of literals. *)

addInSortedVecLit(v, l) ==
  LET i == Cardinality({k \in DOMAIN v : v[k] <= l})
  IN SubSeq(v, 1, i) \o <<l>> \o SubSeq(v, i + 1, Len(v))

removeLitFromUnsortedListLit(v, l) ==
  LET i == Min({k \in DOMAIN v : v[k] = l}) IN Front([v EXCEPT ![i] = Last(v)])

removeLitFromSortedListLit(v, l) ==
  IF l \notin ToSet(v) THEN v ELSE RemoveAt(v, Min({k \in DOMAIN v : v[k] = l}))

(* Clauses, as lists of literals. *)

\* abs: a bit for each variable, modulo 32.
calcAbstraction(c) == {var(l) & 31 : l \in ToSet(c)}

\* Mutant: a second literal may be resolved on.
FoundTwice(other, l, ret) == {j \in DOMAIN other : other[j] \in {l, Flip(l)}}
\* Where a literal of the clause, or its negation while no literal was
\* resolved on, is found in the other clause.
Found(other, l, ret) ==
  {j \in DOMAIN other : other[j] = l \/ (ret = lit_Undef /\ other[j] = Flip(l))}

subsumes(c, other) ==
  LET step(ret, l) ==
        IF ret = lit_Error \/ Found(other, l, ret) = {} THEN lit_Error
        ELSE IF other[Min(Found(other, l, ret))] = l THEN ret ELSE l
  IN IF Len(other) < Len(c) \/ ~ calcAbstraction(c) \subseteq calcAbstraction(other)
     THEN lit_Error
     ELSE FoldLeft(step, lit_Undef, c)

\* strengthen and remove
strengthen(c, p) == RemoveAt(c, Min({k \in DOMAIN c : c[k] = p}))

(* The sort.  Elements are pairs <<key, name>>, ordered by their keys only. *)

Less(x, y) == x[1] < y[1]

Swapped(a, i, j) == [a EXCEPT ![i] = a[j], ![j] = a[i]]

\* best_i: the first of the smallest elements from i on.
Best(a, i) ==
  Min({j \in i .. Len(a) : \A n \in i .. Len(a) : ~ Less(a[n], a[j])})
SelectionSort(a) ==
  FoldLeft(LAMBDA b, i : Swapped(b, i, Best(b, i)), a, [i \in 1 .. Len(a) - 1 |-> i])

\* Where the two scans may stop: nothing guards them but the elements.
ScanUp(a, i, pivot) == {n \in i + 1 .. Len(a) : ~ Less(a[n], pivot)}
ScanDown(a, j, pivot) == {n \in 1 .. j - 1 : ~ Less(pivot, a[n])}

\* The parts: the vector and the length of the first, 0 if a scan leaves it.
RECURSIVE Parted(_, _, _, _)
Parted(a, i, j, pivot) ==
  LET ups == ScanUp(a, i, pivot)
      downs == ScanDown(a, j, pivot)
  IN IF ups = {} \/ downs = {} THEN [vec |-> a, first |-> 0]
     ELSE IF Min(ups) >= Max(downs) THEN [vec |-> a, first |-> Min(ups) - 1]
     ELSE Parted(Swapped(a, Min(ups), Max(downs)), Min(ups), Max(downs), pivot)

RECURSIVE Sort(_)
Sort(a) ==
  IF Len(a) <= 15 THEN SelectionSort(a)
  ELSE LET p == Parted(a, 0, Len(a) + 1, a[Len(a) \div 2 + 1]) IN
       IF p.first \in 1 .. Len(a) - 1
       THEN Sort(SubSeq(p.vec, 1, p.first)) \o Sort(SubSeq(p.vec, p.first + 1, Len(a)))
       ELSE <<>>

(* The restarts. *)

\* The finite sequence that holds index x, as its size and its number.
RECURSIVE Finite(_, _, _)
Finite(x, size, seq) == IF size < x + 1 THEN Finite(x, 2 * size + 1, seq + 1) ELSE <<size, seq>>

RECURSIVE Within(_, _, _)
Within(x, size, seq) ==
  IF size - 1 = x THEN seq
  ELSE LET half == shiftR(size - 1, 1) IN Within(x % half, half, seq - 1)

luby(y, x) == LET f == Finite(x, 1, 0) IN y ^ Within(x, f[1], f[2])

-----------------------------------------------------------------------------
(* Properties *)

\* Kleene's three values, from the false to the true.
Truth(a) == IF a >= 2 THEN 1 ELSE IF a = 1 THEN 0 ELSE 2

\* The tables are those of three-valued logic for every pair of bytes, both
\* undefined ones included, and negating twice or asking the negated literal
\* agrees with them (SolverTypes.hh:162-205, Solver.hh:1035).
LogicRight ==
  \A a, b \in Bytes :
    /\ Same(a, b) <=> Truth(a) = Truth(b)
    /\ Truth(LAnd(a, b)) = Min({Truth(a), Truth(b)})
    /\ Truth(LOr(a, b)) = Max({Truth(a), Truth(b)})
    /\ LET assigns == [v \in {5} |-> a] IN
       \A p \in {mkLit(5, FALSE), mkLit(5, TRUE)} :
         Truth(value(assigns, Flip(p))) = 2 - Truth(value(assigns, p))

\* The comment of luby: each line is the one before twice, then a power.
RECURSIVE LubyLine(_)
LubyLine(n) == IF n = 0 THEN <<1>> ELSE LubyLine(n - 1) \o LubyLine(n - 1) \o <<2 ^ n>>
LubyRight == LET line == LubyLine(5) IN \A i \in DOMAIN line : luby(2, i - 1) = line[i]

Distinct(c) == IsInjective(c) /\ \A l \in ToSet(c) : Neg(l) \notin ToSet(c)
InOrder(v) == \A i, j \in DOMAIN v : i < j => v[i] < v[j]

\* A clause found to subsume another one does; a literal found can be resolved
\* on, so that the other clause may lose its negation; and a pair for which
\* nothing is found has neither.  The variables are 16 apart, so that some of
\* them have their bit of the abstraction in common.
Apart(l) == mkLit(16 * var(l), sign(l))
SubsumesRight(c, other) ==
  Distinct(c) /\ Distinct(other) =>
    LET p == subsumes([n \in DOMAIN c |-> Apart(c[n])], [n \in DOMAIN other |-> Apart(other[n])])
        set == ToSet(c)
        more == ToSet(other)
        Resolves(l) == l \in set /\ Neg(l) \in more /\ set \ {l} \subseteq more
    IN IF p = lit_Undef THEN set \subseteq more
       ELSE IF p = lit_Error THEN ~ set \subseteq more /\ \A l \in set : ~ Resolves(l)
       ELSE \E l \in Lit :
              /\ Apart(l) = p /\ Resolves(l)
              /\ Models({set, more}) = Models({set, ToSet(strengthen(other, Flip(l)))})

\* The two notations of a literal are inverse, and a list keeps its order and
\* its literals as they come and go.
ListsOfLitsRight(v, l) ==
  /\ readableLitToLit(readableLit(l)) = l
  /\ readableLit(Flip(l)) = - readableLit(l)
  /\ InOrder(v) /\ l \notin ToSet(v) =>
       LET w == addInSortedVecLit(v, l) IN
       InOrder(w) /\ ToSet(w) = ToSet(v) \cup {l} /\ removeLitFromSortedListLit(w, l) = v
  /\ IsInjective(v) /\ l \in ToSet(v) =>
       ToSet(removeLitFromUnsortedListLit(v, l)) = ToSet(v) \ {l}

\* Sorting keeps every element and orders them, each part is shorter than the
\* whole and no scan runs past an end.
SortedRight(a) ==
  LET b == Sort(a) IN
  /\ Len(b) = Len(a) /\ ToSet(b) = ToSet(a)
  /\ \A i, j \in DOMAIN b : i < j => ~ Less(b[j], b[i])

\* A vector long enough to be split: its literals over and over.
Repeated(v) == [n \in 1 .. 5 * Len(v) |-> v[1 + ((n * n) % Len(v))]]

\* For the clauses c and other, whose literals are also sorted by their variables
\* with their places as names.
UtilitiesRight(c, other) ==
  /\ LogicRight /\ LubyRight
  /\ SubsumesRight(c, other)
  /\ LET all == Repeated(c \o other) IN SortedRight([n \in DOMAIN all |-> <<var(all[n]), n>>])
  /\ \A l \in Lit : ListsOfLitsRight(c, l)

=============================================================================
