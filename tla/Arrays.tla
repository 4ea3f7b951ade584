------------------------------- MODULE Arrays -------------------------------
(***************************************************************************)
(* The arrays of D4 that grow: its vectors (mtl/Vec.hh), and the two       *)
(* arrays in which the nodes of the graph keep their lists of units and of *)
(* free variables (DAG/DAG.hh, Root.hh and Branch.hh).                     *)
(***************************************************************************)
EXTENDS Integers, Sequences, FiniteSets, FiniteSetsExt, SequencesExt

CONSTANTS
  Element,   \* the naturals a vector holds
  IntMax,    \* the largest int: odd
  Block,     \* how much the arrays of the nodes grow: 2 ^ 20 in the code
  Lists      \* the lists of naturals saved for a node, each shorter than a block

VARIABLES
  vectors,   \* two vectors: sz and data, whose length is cap
  contents,  \* history: what was put in them
  unitLits, freeVariables,     \* the arrays of the nodes
  capUnitLits, capFreeVariables,
  branches   \* history: the lists saved, and where

vecs == <<vectors, contents>>
nodes == <<unitLits, freeVariables, capUnitLits, capFreeVariables, branches>>

Raw == -2     \* memory nothing was constructed in
End == -1     \* lit_Undef and var_Undef
Empty == [data |-> <<>>, sz |-> 0]

\* rootNode: index 0 of both arrays is an empty list.
AStart ==
  /\ vectors = <<Empty, Empty>> /\ contents = <<<<>>, <<>>>>
  /\ unitLits = <<End>> /\ freeVariables = <<End>>
  /\ capUnitLits = 1 /\ capFreeVariables = 1
  /\ branches = {}

-----------------------------------------------------------------------------
(* Vectors. *)

cap(v) == Len(v.data)
Cells(n, x) == [i \in 1 .. n |-> x]
EvenBelow(n) == 2 * (n \div 2)

\* Mutant: one is not added before the last bit is cut.
AddedDown(v, min) == Max({EvenBelow(min - cap(v)), EvenBelow(cap(v) \div 2 + 2)})
Added(v, min) == Max({EvenBelow(min - cap(v) + 1), EvenBelow(cap(v) \div 2 + 2)})

\* capacity(min) has the memory; it throws when an int would overflow.
HasRoom(v, min) == cap(v) >= min \/ Added(v, min) <= IntMax - cap(v)
Capacity(v, min) ==
  IF cap(v) >= min THEN v ELSE [v EXCEPT !.data = @ \o Cells(Added(v, min), Raw)]

\* xs in place of what was from position n on.
Written(v, n, xs) ==
  [data |-> [i \in 1 .. cap(v) |-> IF i \in n .. n + Len(xs) - 1 THEN xs[i - n + 1] ELSE v.data[i]],
   sz |-> n + Len(xs) - 1]

Grown(v, n, x) == Written(Capacity(v, n), v.sz + 1, Cells(n - v.sz, x))

\* clear(dealloc)
Cleared(v, dealloc) == IF dealloc THEN Empty ELSE [v EXCEPT !.sz = 0]

Put(i, v, content) ==
  /\ vectors' = [vectors EXCEPT ![i] = v]
  /\ contents' = [contents EXCEPT ![i] = content]
  /\ UNCHANGED nodes

Push(i, x) ==
  LET v == vectors[i]
      room == IF v.sz = cap(v) THEN Capacity(v, v.sz + 1) ELSE v
  IN /\ HasRoom(v, v.sz + 1)
     /\ Put(i, Written(room, v.sz + 1, <<x>>), Append(contents[i], x))

\* pop and shrink
Shrink(i, n) ==
  /\ n \in 1 .. vectors[i].sz
  /\ Put(i, [vectors[i] EXCEPT !.sz = @ - n], SubSeq(contents[i], 1, Len(contents[i]) - n))

GrowTo(i, n, x) ==
  /\ vectors[i].sz < n /\ HasRoom(vectors[i], n)
  /\ Put(i, Grown(vectors[i], n, x), contents[i] \o Cells(n - vectors[i].sz, x))

Initialize(i, n, x) ==
  /\ HasRoom(vectors[i], n)
  /\ Put(i, Written(Capacity(vectors[i], n), 1, Cells(n, x)), Cells(n, x))

Clear(i, dealloc) ==
  /\ vectors[i].data # <<>>
  /\ Put(i, Cleared(vectors[i], dealloc), <<>>)

\* setSize to a size it had: the elements are still there.
SetSize(i, n) ==
  LET v == vectors[i] IN
  /\ n \in v.sz .. cap(v) /\ \A k \in 1 .. n : v.data[k] # Raw
  /\ Put(i, [v EXCEPT !.sz = n], contents[i] \o SubSeq(v.data, v.sz + 1, n))

\* Of an element that is there: for another one the code writes before the array.  The
\* one caller, in the preprocessing that never runs, takes out what it put in.
RemoveElt(i, x) ==
  LET v == vectors[i]
      at == {k \in 1 .. v.sz : v.data[k] = x}
      pos == Min(at)
      all == contents[i]
  IN /\ at # {}
     /\ Put(i, [data |-> [v.data EXCEPT ![pos] = v.data[v.sz]], sz |-> v.sz - 1],
               Front([all EXCEPT ![pos] = all[Len(all)]]))

CopyTo(i, j) ==
  LET v == vectors[i]
      w == Cleared(vectors[j], FALSE)
  IN /\ HasRoom(w, v.sz)
     /\ Put(j, Written(Capacity(w, v.sz), 1, SubSeq(v.data, 1, v.sz)), contents[i])

MoveTo(i, j) ==
  /\ vectors' = [vectors EXCEPT ![j] = vectors[i], ![i] = Empty]
  /\ contents' = [contents EXCEPT ![j] = contents[i], ![i] = <<>>]
  /\ UNCHANGED nodes

\* operator==
Equal(v, w) ==
  /\ v.sz = w.sz
  /\ \A k \in 1 .. v.sz : \E n \in 1 .. w.sz : v.data[k] = w.data[n]

VNext ==
  \E i \in {1, 2} :
    \/ \E x \in Element : Push(i, x) \/ RemoveElt(i, x)
    \/ \E x \in Element, n \in 0 .. IntMax - 1 : GrowTo(i, n, x) \/ Initialize(i, n, x)
    \/ \E n \in 0 .. IntMax - 1 : Shrink(i, n) \/ SetSize(i, n)
    \/ \E dealloc \in BOOLEAN : Clear(i, dealloc)
    \/ CopyTo(i, 3 - i) \/ MoveTo(i, 3 - i)

-----------------------------------------------------------------------------
(* The lists of the nodes. *)

Room(size, list, capacity) ==
  IF size + Len(list) + 1 > capacity THEN capacity + Block ELSE capacity

\* saveUnitLit and saveFreeVar: the index the list begins at, from 0.
SavedUnits(list) == Len(unitLits)
SavedFrees(list) == IF list = <<>> THEN 0 ELSE Len(freeVariables)

\* initBranch
InitBranch(units, frees) ==
  /\ unitLits' = unitLits \o Append(units, End)
  /\ capUnitLits' = Room(Len(unitLits), units, capUnitLits)
  /\ freeVariables' = IF frees = <<>> THEN freeVariables ELSE freeVariables \o Append(frees, End)
  /\ capFreeVariables' =
       IF frees = <<>> THEN capFreeVariables ELSE Room(Len(freeVariables), frees, capFreeVariables)
  /\ branches' = branches \cup
       {[units |-> units, frees |-> frees, idxUnitLit |-> SavedUnits(units), idxFreeVar |-> SavedFrees(frees)]}
  /\ UNCHANGED vecs

BNext == \E units, frees \in Lists : InitBranch(units, frees)

\* What is read from an index on: nbUnit and nbFree count it.
ListAt(array, idx) ==
  LET end == Min({n \in idx + 1 .. Len(array) : array[n] = End})
  IN SubSeq(array, idx + 1, end - 1)

-----------------------------------------------------------------------------
(* Properties *)

\* Through any growth and any sharing of memory a vector holds what was put
\* in it.  Its capacity stays even and so below INT_MAX, and the size of a push
\* cannot overflow (Vec.hh:98).  Vectors that hold no element twice are equal
\* when they have the same elements, in whatever order.
VectorsRight ==
  /\ \A i \in {1, 2} :
       LET v == vectors[i] IN
       /\ v.sz <= cap(v) /\ SubSeq(v.data, 1, v.sz) = contents[i]
       /\ cap(v) % 2 = 0 /\ cap(v) < IntMax
  /\ (\A i \in {1, 2} : IsInjective(contents[i])) =>
       (Equal(vectors[1], vectors[2]) <=> ToSet(contents[1]) = ToSet(contents[2]))

\* Every list a node saved is read back from its index, whatever was saved
\* since, and neither array outgrows its memory (DAG.hh:159, 184).
ListsRight ==
  /\ Len(unitLits) <= capUnitLits /\ Len(freeVariables) <= capFreeVariables
  /\ \A b \in branches :
       /\ ListAt(unitLits, b.idxUnitLit) = b.units
       /\ ListAt(freeVariables, b.idxFreeVar) = b.frees

ArraysRight == VectorsRight /\ ListsRight

=============================================================================
