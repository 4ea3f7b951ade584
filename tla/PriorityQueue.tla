--------------------------- MODULE PriorityQueue ---------------------------
(***************************************************************************)
(* What the solver asks of its queue of variables (pickBranchLit and       *)
(* insertVarOrder of utils/Solver.cc and .hh): a set of variables, from    *)
(* which one with the highest activity is taken.                           *)
(***************************************************************************)
EXTENDS Integers

CONSTANTS Item, MaxActivity

VARIABLES
  queued, activity,
  next      \* the variable just taken, or Nowhere

qvars == <<queued, activity, next>>

Nowhere == -1

QInit == queued = {} /\ activity = [v \in Item |-> 0] /\ next = Nowhere

Put(v) ==
  /\ v \notin queued
  /\ queued' = queued \cup {v} /\ next' = Nowhere /\ UNCHANGED activity
Take(v) ==
  /\ v \in queued /\ \A w \in queued : activity[w] <= activity[v]
  /\ queued' = queued \ {v} /\ next' = v /\ UNCHANGED activity
Become(S) == queued' = S /\ next' = Nowhere /\ UNCHANGED activity
Bump(v) ==
  /\ \E a \in 0 .. MaxActivity :
       a > activity[v] /\ activity' = [activity EXCEPT ![v] = a]
  /\ next' = Nowhere /\ UNCHANGED queued

\* Rescaling, when v is bumped: of the others no two change places, and none
\* overtakes v.
Rescale(v) ==
  /\ activity' \in [Item -> 0 .. MaxActivity]
  /\ \A x \in Item \ {v}, y \in Item :
       activity[x] <= activity[y] => activity'[x] <= activity'[y]
  /\ next' = Nowhere /\ UNCHANGED queued

QNext ==
  \/ \E v \in Item : Put(v) \/ Take(v) \/ Bump(v) \/ Rescale(v)
  \/ \E S \in SUBSET Item : Become(S)

QSpec == QInit /\ [][QNext]_qvars

=============================================================================
