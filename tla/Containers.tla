----------------------------- MODULE Containers -----------------------------
(***************************************************************************)
(* The small structures of the C++ tools: the clause (Clause in CNF.cpp),  *)
(* a vector of literals kept sorted, on which its methods rely, and which  *)
(* Cnf sees as the set of its literals, LiteralSet below; the set of       *)
(* literals (LitSet in var.hpp and var.cpp), a vector of bits that grows   *)
(* with what is put in, called by its tests only; and the union-find of    *)
(* the splitter (uf.cpp), a forest of parents whose paths a search         *)
(* shortens, with the sizes of the trees at their roots.                   *)
(***************************************************************************)
EXTENDS Literals, FiniteSets, FiniteSetsExt, SequencesExt

CONSTANTS
  Sizes,                \* the sizes a set of literals is made with or resized to
  Object                \* of the union-find: 0 .. N - 1

VARIABLES
  c,                    \* the clause
  set,                  \* the bits: how many, and those that are 1
  held,                 \* history: the literals put in and not taken out since
  id, sz, cnt,
  asked                 \* the pairs merged so far

-----------------------------------------------------------------------------
(* The sorted vector *)

CStart == c = <<>>

Push(l) ==
  LET n == SelectInSeq(c, LAMBDA k : k >= l) IN
  c' = IF n = 0 THEN Append(c, l) ELSE IF c[n] = l THEN c ELSE InsertAt(c, n, l)

RemoveLiteral(l) == c' = SelectSeq(c, LAMBDA k : k # l)
RemoveVariable(v) == c' = SelectSeq(c, LAMBDA k : VarOf(k) # v)

\* The scan stops at the first literal that is not smaller.
ContainsLiteral(l) ==
  LET n == SelectInSeq(c, LAMBDA k : k >= l) IN n # 0 /\ c[n] = l

\* Two iterators, n over c and m over d.
ContainsClause(d) ==
  LET Scan[n \in 1 .. Len(c) + 1, m \in 1 .. Len(d) + 1] ==
        CASE m > Len(d) -> TRUE
          [] n > Len(c) -> FALSE
          [] c[n] = d[m] -> Scan[n + 1, m + 1]
          [] d[m] < c[n] -> FALSE
          [] OTHER -> Scan[n + 1, m]
  IN Scan[1, 1]

CNext ==
  \/ \E l \in Lit : Push(l) \/ RemoveLiteral(l)
  \/ \E v \in Var : RemoveVariable(v)

-----------------------------------------------------------------------------
(* The set of literals *)

SStart == \E n \in Sizes : set = [size |-> n, bits |-> {}] /\ held = {}

\* Bits below n only, as boost::dynamic_bitset does.
Resized(s, n) == [size |-> n, bits |-> {l \in s.bits : l < n}]

InSet(l) == l < set.size /\ l \in set.bits
Count == Cardinality(set.bits)

Insert(l) ==
  /\ set' = LET wide == IF l >= set.size THEN Resized(set, Max({l, Neg(l)}) + 1) ELSE set
            IN [wide EXCEPT !.bits = @ \cup {l}]
  /\ held' = held \cup {l}

TakeOut(l) ==
  /\ set' = IF l < set.size THEN [set EXCEPT !.bits = @ \ {l}] ELSE set
  /\ held' = held \ {l}

Reset == set' = [set EXCEPT !.bits = {}] /\ held' = {}

\* The argument is the number of bits, although its name says literals.
Resize(n) ==
  /\ set' = Resized(set, n)
  /\ held' = {l \in held : l < n}

SNext ==
  \/ \E l \in Lit : Insert(l) \/ TakeOut(l)
  \/ Reset
  \/ \E n \in Sizes : Resize(n)

-----------------------------------------------------------------------------
(* The union-find *)

UStart ==
  /\ id = [p \in Object |-> p] /\ sz = [p \in Object |-> 1]
  /\ cnt = Cardinality(Object) /\ asked = {}

\* The objects on the way from p to its root.
Way(f, p) ==
  LET Up[n \in 0 .. Cardinality(Object)] == IF n = 0 THEN p ELSE f[Up[n - 1]]
  IN {Up[n] : n \in 0 .. Cardinality(Object)}

Root(f, p) == CHOOSE r \in Way(f, p) : f[r] = r
Compressed(f, p) == [q \in Object |-> IF q \in Way(f, p) THEN Root(f, p) ELSE f[q]]

Find(p) == id' = Compressed(id, p) /\ UNCHANGED <<sz, cnt, asked>>

Joined(f, a, b) ==
  IF sz[a] < sz[b]
  THEN id' = [f EXCEPT ![a] = b] /\ sz' = [sz EXCEPT ![b] = @ + sz[a]]
  ELSE id' = [f EXCEPT ![b] = a] /\ sz' = [sz EXCEPT ![a] = @ + sz[b]]

\* The second search starts from the paths the first one shortened.
Merge(x, y) ==
  LET f == Compressed(Compressed(id, x), y)
      a == Root(id, x)
      b == Root(id, y)
  IN /\ asked' = asked \cup {<<x, y>>, <<y, x>>}
     /\ IF a = b THEN id' = f /\ UNCHANGED <<sz, cnt>>
        ELSE Joined(f, a, b) /\ cnt' = cnt - 1

UNext == \E x, y \in Object : Find(x) \/ Merge(x, y)

-----------------------------------------------------------------------------
(* Properties *)

LiteralSet == ToSet(c)
SortedVectors == {SelectSeq([n \in 1 .. 2 * NumVars |-> n - 1], LAMBDA l : l \in s) :
                    s \in SUBSET Lit}

\* Whatever was pushed and removed, the vector is sorted without repetition,
\* and both tests, which stop early, answer as the sets would: a clause is
\* found in another exactly when it subsumes it.
LookupsRight ==
  /\ \A n \in 1 .. Len(c) - 1 : c[n] < c[n + 1]
  /\ \A l \in Lit : ContainsLiteral(l) <=> l \in LiteralSet
  /\ \A d \in SortedVectors : ContainsClause(d) <=> ToSet(d) \subseteq LiteralSet

\* The tests ask no bit outside the vector, a literal that was put in is found
\* until it is taken out or the set is made too short for it, and no growing
\* brings back one that was cut off (var.cpp:24-51).
ContentsRight ==
  /\ set.bits \subseteq 0 .. set.size - 1
  /\ \A l \in Lit : InSet(l) <=> l \in held
  /\ Count = Cardinality(held)

Classes == {{q \in Object : Root(id, q) = Root(id, p)} : p \in Object}
G == INSTANCE Graphs
Together == [node |-> Object, edge |-> asked]

\* Two objects have the same root exactly when merges connect them, cnt counts
\* the classes, the root of each knows its size, and no path is longer than
\* the logarithm of it, whatever the searches between shortened.
ForestSound ==
  /\ \A p, q \in Object :
       Root(id, p) = Root(id, q) <=> G!ConnectionsIn(Together)[p, q]
  /\ cnt = Cardinality(Classes)
  /\ \A k \in Classes :
       LET r == Root(id, CHOOSE p \in k : TRUE) IN
       /\ sz[r] = Cardinality(k)
       /\ \A p \in k : 2 ^ (Cardinality(Way(id, p)) - 1) <= sz[r]

=============================================================================
