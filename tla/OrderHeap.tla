----------------------------- MODULE OrderHeap -----------------------------
(***************************************************************************)
(* The heap of variables of D4's SAT solver (mtl/Heap.hh) under the        *)
(* operations of utils/Solver.cc that keep it: insertVarOrder, removeMin   *)
(* of pickBranchLit, decrease of varBumpActivity with its rescaling, and   *)
(* build for a component.                                                  *)
(***************************************************************************)
EXTENDS Integers, Sequences, FiniteSets, FiniteSetsExt

CONSTANTS
  Item,         \* the variables
  MaxActivity,  \* activities above it are rescaled
  Bumps,        \* values of var_inc
  Components    \* sequences of different variables: components of the formula

VARIABLES
  heap,         \* a function on 0 .. size - 1
  indices,      \* the position of each variable, or Nowhere
  activity,
  next          \* of pickBranchLit: the variable removeMin returned; else Nowhere

Nowhere == -1
Size(h) == Cardinality(DOMAIN h.heap)
left(i) == 2 * i + 1
right(i) == 2 * (i + 1)
parent(i) == (i - 1) \div 2
Lt(act, x, y) == act[x] > act[y]

\* The heap with x at position i.
PutAt(h, i, x) ==
  [heap |-> [h.heap EXCEPT ![i] = x], indices |-> [h.indices EXCEPT ![x] = i]]

\* percolateUp and percolateDown from the hole at i, for x, by the activities act.
RECURSIVE UpFrom(_, _, _, _)
UpFrom(h, i, x, act) ==
  LET p == parent(i) IN
  IF i # 0 /\ Lt(act, x, h.heap[p])
  THEN UpFrom(PutAt(h, i, h.heap[p]), p, x, act)
  ELSE PutAt(h, i, x)
PercolateUp(h, i, act) == UpFrom(h, i, h.heap[i], act)

\* Mutant: the right child is never looked at.
SmallerChildLeft(h, i, act) == left(i)

SmallerChild(h, i, act) ==
  IF right(i) < Size(h) /\ Lt(act, h.heap[right(i)], h.heap[left(i)])
  THEN right(i) ELSE left(i)
RECURSIVE DownFrom(_, _, _, _)
DownFrom(h, i, x, act) ==
  LET c == SmallerChild(h, i, act) IN
  IF left(i) < Size(h) /\ Lt(act, h.heap[c], x)
  THEN DownFrom(PutAt(h, i, h.heap[c]), c, x, act)
  ELSE PutAt(h, i, x)
PercolateDown(h, i, act) == DownFrom(h, i, h.heap[i], act)

Now == [heap |-> heap, indices |-> indices]
Become(h) == heap' = h.heap /\ indices' = h.indices
NoneTaken == next' = Nowhere
InHeap(v) == indices[v] # Nowhere

Start ==
  /\ heap = <<>> /\ indices = [v \in Item |-> Nowhere]
  /\ activity = [v \in Item |-> 0] /\ next = Nowhere

Insert(v) ==
  /\ ~ InHeap(v)
  /\ LET n == Size(Now) IN
     Become(PercolateUp([heap |-> [i \in 0 .. n |-> IF i = n THEN v ELSE heap[i]],
                         indices |-> [indices EXCEPT ![v] = n]], n, activity))
  /\ NoneTaken /\ UNCHANGED activity

\* The last variable takes the place of the first, whose index is reset.
Removed(h, n) ==
  [heap |-> [i \in 0 .. n - 2 |-> IF i = 0 THEN h.heap[n - 1] ELSE h.heap[i]],
   indices |-> [[h.indices EXCEPT ![h.heap[n - 1]] = 0]
                  EXCEPT ![h.heap[0]] = Nowhere]]

RemoveMin ==
  LET n == Size(Now)
      h == Removed(Now, n)
  IN
  /\ n > 0
  /\ next' = heap[0]
  /\ Become(IF n > 2 THEN PercolateDown(h, 0, activity) ELSE h)
  /\ UNCHANGED activity

\* The others are pushed in the order of s, then every inner node percolates.
Build(s) ==
  LET n == Len(s)
      filled == [heap |-> [i \in 0 .. n - 1 |-> s[i + 1]],
                 indices |-> [v \in Item |->
                   IF \E i \in 1 .. n : s[i] = v
                   THEN (CHOOSE i \in 1 .. n : s[i] = v) - 1 ELSE Nowhere]]
      settled[k \in 0 .. n \div 2] ==
        IF k = n \div 2 THEN filled ELSE PercolateDown(settled[k + 1], k, activity)
  IN
  /\ Become(settled[0])
  /\ NoneTaken /\ UNCHANGED activity

\* varBumpActivity; a bumped variable only rises.
Bump(v, inc) ==
  LET bumped == [activity EXCEPT ![v] = @ + inc]
  IN
  /\ bumped[v] <= MaxActivity
  /\ activity' = bumped /\ NoneTaken
  /\ IF InHeap(v) THEN Become(PercolateUp(Now, indices[v], bumped))
     ELSE UNCHANGED <<heap, indices>>

\* Too high an activity: all are scaled down by the same factor, here halved,
\* after which different ones may be equal.
Rescale(v, inc) ==
  LET bumped == [activity EXCEPT ![v] = @ + inc]
      scaled == [w \in Item |-> bumped[w] \div 2]
  IN
  /\ bumped[v] > MaxActivity
  /\ activity' = scaled /\ NoneTaken
  /\ IF InHeap(v) THEN Become(PercolateUp(Now, indices[v], scaled))
     ELSE UNCHANGED <<heap, indices>>

HNext ==
  \/ RemoveMin
  \/ \E v \in Item : Insert(v) \/ \E inc \in Bumps : Bump(v, inc) \/ Rescale(v, inc)
  \/ \E s \in Components : Build(s)

-----------------------------------------------------------------------------
(* Properties *)

\* After any sequence of operations, no variable has a higher activity than the
\* one above it, and each one's index leads to it.
HeapSound ==
  /\ \A i \in DOMAIN heap \ {0} : ~ Lt(activity, heap[i], heap[parent(i)])
  /\ \A v \in Item : IF InHeap(v) THEN indices[v] \in DOMAIN heap /\ heap[indices[v]] = v
                     ELSE \A i \in DOMAIN heap : heap[i] # v
  /\ \A i \in DOMAIN heap : indices[heap[i]] = i

\* The heap is a queue that gives a variable of the highest activity.
Queue == INSTANCE PriorityQueue WITH
           queued <- {heap[i] : i \in DOMAIN heap}

=============================================================================
