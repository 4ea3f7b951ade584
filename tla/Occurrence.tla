---------------------------- MODULE Occurrence -----------------------------
(***************************************************************************)
(* The occurrence manager of D4 (manager/CnfOccurrenceManager.cc and       *)
(* dynamicOccurrenceManager.cc) under the recursion that drives it         *)
(* (compile_ and compileDecisionNode of compilers/dDnnfCompiler.hh, of the *)
(* same shape in modelCounters/ModelCounter.hh).  One residual formula is  *)
(* kept in shared arrays, which each call changes and must put back.       *)
(*                                                                         *)
(* Each iteration of a loop of the manager is an action.  The SAT solver   *)
(* is any that is right; the heuristics and the cache may choose anything. *)
(***************************************************************************)
EXTENDS Literals, Sequences, FiniteSets

CONSTANT Formulas       \* the sequences of clauses to compile

NoLit == -1             \* lit_Undef

ASSUME FormulasAssumption ==
  \A f \in Formulas : f \in Seq(SUBSET Lit) /\ \A c \in DOMAIN f : f[c] # {}

VARIABLES
  clauses,
  currentValue,     \* the literals that are true
  occList,          \* for each literal, the numbers of clauses in its list
  nbSat, nbUnsat, watcher,                  \* for each clause
  currentIdx, currentSize, stackSize,
  idxComponent,     \* the variables whose entry is not 0 between two calls
  frames,   \* the calls that are active, see CallFrame and ComponentFrame
  pc,
  i,        \* index of the loop that runs
  reviewWatcher,
  trail     \* history: the literals assigned, in order

manager == <<clauses, currentValue, occList, nbSat, nbUnsat, watcher>>
sets == <<currentIdx, currentSize, stackSize>>
vars == <<manager, sets, idxComponent, frames, pc, i, reviewWatcher, trail>>

\* An execution of compile_ on setOfVar, with its units and the components
\* that are left; an execution of compileDecisionNode on a component, with
\* the literals it has still to branch on.  Both hold the length of the trail
\* when they began (history).
CallFrame(setOfVar, lits) ==
  [kind |-> "call", vars |-> setOfVar, mark |-> Len(trail), lits |-> lits, todo |-> {}]
ComponentFrame(connected, branches) ==
  [kind |-> "component", vars |-> connected, mark |-> Len(trail), branches |-> branches]

Top == frames[Len(frames)]
Below == SubSeq(frames, 1, Len(frames) - 1)
SetTop(f) == [frames EXCEPT ![Len(frames)] = f]

Undef(l) == l \notin currentValue /\ Neg(l) \notin currentValue
UndefVar(v) == Undef(PosLit(v))
UndefVars(c) == {VarOf(l) : l \in {k \in clauses[c] : Undef(k)}}

Init ==
  /\ clauses \in Formulas
  /\ currentValue = {}
  /\ occList = [l \in Lit |-> {c \in DOMAIN clauses : l \in clauses[c]}]
  /\ nbSat = [c \in DOMAIN clauses |-> 0]
  /\ nbUnsat = [c \in DOMAIN clauses |-> 0]
  /\ watcher \in {w \in [DOMAIN clauses -> Lit] : \A c \in DOMAIN clauses : w[c] \in clauses[c]}
  /\ currentIdx = [c \in DOMAIN clauses |-> c]
  /\ currentSize = Len(clauses)
  /\ stackSize = <<>>
  /\ idxComponent = {}
  /\ trail = <<>>
  /\ frames = <<ComponentFrame(Var, <<NoLit>>)>>
  /\ pc = "branch"
  /\ i = 1
  /\ reviewWatcher = {}

-----------------------------------------------------------------------------
(* The solver, external. *)

\* The models of the formula that agree with the literals of ls.
ModelsWith(ls) ==
  {m \in Assignments : /\ \A c \in DOMAIN clauses : SatClause(m, clauses[c])
                       /\ \A l \in ls : Satisfies(m, l)}

\* Unit propagation has nothing more to do under ls.
Propagated(ls) ==
  \A c \in DOMAIN clauses :
    \/ clauses[c] \cap ls # {}
    \/ \E k, l \in clauses[c] : k # l /\ Neg(k) \notin ls /\ Neg(l) \notin ls

\* What the trail of the solver may hold of the variables of vs: literals that
\* are implied, all those that unit propagation finds among them.
Units(vs, assumed) ==
  LET implied == {l \in Lit : /\ VarOf(l) \in vs
                              /\ \A m \in ModelsWith(assumed) : Satisfies(m, l)}
  IN {u \in SUBSET implied : /\ assumed \ currentValue \subseteq u
                             /\ Propagated(assumed \cup u)}

\* collectUnit: the decision, then the others by variable.
Collected(u, dec) ==
  {s \in [1 .. Cardinality(u) -> u] :
     /\ dec # NoLit => s[1] = dec
     /\ \A j, k \in DOMAIN s : j < k => (s[j] < s[k] \/ s[j] = dec) /\ s[j] # s[k]}

-----------------------------------------------------------------------------
(* compile_: the solver is asked. *)

Branching == pc = "branch" /\ Top.kind = "component" /\ Top.branches # <<>>
Decision == Head(Top.branches)
Assumed == currentValue \cup (IF Decision = NoLit THEN {} ELSE {Decision})

\* manageUnsat.
Unsat ==
  /\ Branching /\ ModelsWith(Assumed) = {}
  /\ frames' = SetTop([Top EXCEPT !.branches = Tail(@)])
  /\ UNCHANGED <<manager, sets, idxComponent, pc, i, reviewWatcher, trail>>

\* collectUnit; preUpdate begins.
Solve ==
  /\ Branching /\ ModelsWith(Assumed) # {}
  /\ \E u \in Units(Top.vars, Assumed) : \E lits \in Collected(u, Decision) :
       frames' = Append(frames, CallFrame(Top.vars, lits))
  /\ pc' = "assign" /\ i' = 1
  /\ reviewWatcher' = {}
  /\ UNCHANGED <<manager, sets, idxComponent, trail>>

-----------------------------------------------------------------------------
(* preUpdate. *)

\* Mutant: the values are not looked at.
WithoutAny(l) ==
  [k \in Lit |-> IF VarOf(k) # VarOf(l)
                   THEN occList[k] \ {c \in occList[l] : k \in clauses[c]}
                   ELSE occList[k]]

\* The lists once l is true: its clauses leave those of unassigned literals.
Without(l) ==
  [k \in Lit |-> IF Undef(k) /\ VarOf(k) # VarOf(l)
                   THEN occList[k] \ {c \in occList[l] : k \in clauses[c]}
                   ELSE occList[k]]

\* An iteration of the first loop.
Assign ==
  /\ pc = "assign" /\ i <= Len(Top.lits)
  /\ LET l == Top.lits[i] IN
     /\ currentValue' = currentValue \cup {l}
     /\ occList' = Without(l)
     /\ nbSat' = [c \in DOMAIN clauses |-> nbSat[c] + IF c \in occList[l] THEN 1 ELSE 0]
     /\ nbUnsat' = [c \in DOMAIN clauses |-> nbUnsat[c] + IF c \in occList[Neg(l)] THEN 1 ELSE 0]
     /\ reviewWatcher' = reviewWatcher \cup {c \in occList[Neg(l)] : watcher[c] = Neg(l)}
     /\ trail' = Append(trail, l)
  /\ i' = i + 1
  /\ UNCHANGED <<clauses, watcher, sets, idxComponent, frames, pc>>

\* A clause keeps its watcher if it is satisfied or has no other literal.
MayWatch(c) ==
  LET free == {l \in clauses[c] : Undef(l)} IN
  IF c \in reviewWatcher /\ nbSat[c] = 0 /\ free # {} THEN free ELSE {watcher[c]}

\* The second loop; the size of the current set is stacked.
Review ==
  /\ pc = "assign" /\ i > Len(Top.lits)
  /\ watcher' \in {w \in [DOMAIN clauses -> Lit] : \A c \in DOMAIN clauses : w[c] \in MayWatch(c)}
  /\ stackSize' = Append(stackSize, currentSize)
  /\ reviewWatcher' = {}
  /\ pc' = "keep" /\ i' = 1
  /\ UNCHANGED <<clauses, currentValue, occList, nbSat, nbUnsat, currentIdx, currentSize,
                 idxComponent, frames, trail>>

Scanned == currentIdx[i]
ScanNext == i' = i + 1 /\ UNCHANGED sets

\* Mutant: the clause at i is overwritten.
DropLost ==
  /\ currentIdx' = [currentIdx EXCEPT ![i] = currentIdx[currentSize]]
  /\ currentSize' = currentSize - 1
  /\ UNCHANGED <<stackSize, i>>

\* The clause at i changes places with the last one and leaves the set.
Drop ==
  /\ currentIdx' = [currentIdx EXCEPT ![i] = currentIdx[currentSize],
                                      ![currentSize] = currentIdx[i]]
  /\ currentSize' = currentSize - 1
  /\ UNCHANGED <<stackSize, i>>

\* An iteration of the third loop.
Keep ==
  /\ pc = "keep" /\ i <= currentSize
  /\ IF nbSat[Scanned] = 0 THEN ScanNext ELSE Drop
  /\ UNCHANGED <<manager, idxComponent, frames, pc, reviewWatcher, trail>>

-----------------------------------------------------------------------------
(* computeConnectedComponent. *)

\* Mutant: the clauses of the negative literal are forgotten.
ConnectedPositive(v) ==
  LET closed(s) == \A u \in s : \A c \in occList[PosLit(u)] : UndefVars(c) \subseteq s
  IN {w \in Var : \A s \in SUBSET Var : v \in s /\ closed(s) => w \in s}

\* The variables that the lists connect to v: the least set that holds v and
\* the unassigned variables of the clauses listed for a variable it holds.
Connected(v) ==
  LET closed(s) == \A u \in s : \A c \in occList[PosLit(u)] \cup occList[NegLit(u)] :
                     UndefVars(c) \subseteq s
  IN {w \in Var : \A s \in SUBSET Var : v \in s /\ closed(s) => w \in s}

\* A variable that is alone in its component is free.  Variables that still
\* have a component number are passed over.
Components(setOfVar) ==
  {s \in {Connected(v) : v \in {w \in setOfVar : UndefVar(w) /\ w \notin idxComponent}} :
     Cardinality(s) > 1}

\* After the third loop of preUpdate: the components are numbered, their
\* variables within setOfVar are reset.
Split ==
  /\ pc = "keep" /\ i > currentSize
  /\ LET cs == Components(Top.vars) IN
     /\ frames' = SetTop([Top EXCEPT !.todo = {s \cap Top.vars : s \in cs}])
     /\ idxComponent' = (idxComponent \cup UNION cs) \ Top.vars
  /\ pc' = "components"
  /\ UNCHANGED <<manager, sets, i, reviewWatcher, trail>>

-----------------------------------------------------------------------------
(* The loop over the components: updateCurrentClauseSet. *)

NextComponent ==
  /\ pc = "components" /\ Top.todo # {}
  /\ \E s \in Top.todo :
       /\ \A t \in Top.todo : \E v \in s : \A w \in t : v <= w
       /\ frames' = Append(SetTop([Top EXCEPT !.todo = @ \ {s}]), ComponentFrame(s, <<>>))
  /\ stackSize' = Append(stackSize, currentSize)
  /\ pc' = "restrict" /\ i' = 1
  /\ UNCHANGED <<manager, currentIdx, currentSize, idxComponent, reviewWatcher, trail>>

\* isNotSatisfiedClauseAndInComponent.
InComponent(c) == nbSat[c] = 0 /\ VarOf(watcher[c]) \in Top.vars

RestrictSet ==
  /\ pc = "restrict" /\ i <= currentSize
  /\ IF InComponent(Scanned) THEN ScanNext ELSE Drop
  /\ UNCHANGED <<manager, idxComponent, frames, pc, reviewWatcher, trail>>

\* A decision: any variable, any phase.
Decide ==
  /\ pc = "restrict" /\ i > currentSize
  /\ \E l \in Lit : /\ VarOf(l) \in Top.vars
                    /\ frames' = SetTop([Top EXCEPT !.branches = <<l, Neg(l)>>])
  /\ pc' = "branch"
  /\ UNCHANGED <<manager, sets, idxComponent, i, reviewWatcher, trail>>

\* The component is in the cache, or the solver knows all its variables by now.
NoDecision ==
  /\ pc = "restrict" /\ i > currentSize
  /\ pc' = "branch"
  /\ UNCHANGED <<manager, sets, idxComponent, frames, i, reviewWatcher, trail>>

PopPreviousClauseSet ==
  /\ currentSize' = stackSize[Len(stackSize)]
  /\ stackSize' = SubSeq(stackSize, 1, Len(stackSize) - 1)
  /\ UNCHANGED currentIdx

\* Both branches are done, or none was needed.
LeaveComponent ==
  /\ pc = "branch" /\ Top.branches = <<>> /\ Len(frames) > 1
  /\ PopPreviousClauseSet
  /\ frames' = Below
  /\ pc' = "components"
  /\ UNCHANGED <<manager, idxComponent, i, reviewWatcher, trail>>

-----------------------------------------------------------------------------
(* postUpdate. *)

Return ==
  /\ pc = "components" /\ Top.todo = {}
  /\ pc' = "unassign" /\ i' = Len(Top.lits)
  /\ UNCHANGED <<manager, sets, idxComponent, frames, reviewWatcher, trail>>

\* Mutant: the literals are undone in the order they were assigned.
UndoneForwards == Top.lits[Len(Top.lits) - i + 1]
Undone == Top.lits[i]

\* Mutant: the clauses are not pushed back.
WithBackNothing(l) == occList

\* The lists with the clauses of l back in those of unassigned literals.
WithBack(l) ==
  [k \in Lit |-> IF Undef(k) THEN occList[k] \cup {c \in occList[l] : k \in clauses[c]}
                             ELSE occList[k]]

Unassign ==
  /\ pc = "unassign" /\ i > 0
  /\ LET l == Undone IN
     /\ occList' = WithBack(l)
     /\ nbSat' = [c \in DOMAIN clauses |-> nbSat[c] - IF c \in occList[l] THEN 1 ELSE 0]
     /\ nbUnsat' = [c \in DOMAIN clauses |-> nbUnsat[c] - IF c \in occList[Neg(l)] THEN 1 ELSE 0]
     /\ currentValue' = currentValue \ {l}
     /\ trail' = SubSeq(trail, 1, Len(trail) - 1)
  /\ i' = i - 1
  /\ UNCHANGED <<clauses, watcher, sets, idxComponent, frames, pc, reviewWatcher>>

\* compile_ returns to compileDecisionNode, or to compile.
Returned ==
  /\ pc = "unassign" /\ i = 0
  /\ PopPreviousClauseSet
  /\ LET caller == frames[Len(frames) - 1] IN
     frames' = [Below EXCEPT ![Len(frames) - 1] = [caller EXCEPT !.branches = Tail(@)]]
  /\ pc' = "branch"
  /\ UNCHANGED <<manager, idxComponent, i, reviewWatcher, trail>>

Compiled == pc = "branch" /\ Len(frames) = 1 /\ Top.branches = <<>>
Finished == Compiled /\ UNCHANGED vars

Next ==
  \/ Unsat \/ Solve \/ Assign \/ Review \/ Keep \/ Split
  \/ NextComponent \/ RestrictSet \/ Decide \/ NoDecision \/ LeaveComponent
  \/ Return \/ Unassign \/ Returned \/ Finished

Spec == Init /\ [][Next]_vars
-----------------------------------------------------------------------------
(* Properties *)

Ids == DOMAIN clauses

Assigned(n) == {VarOf(trail[j]) : j \in 1 .. n}

\* dynamicOccurrenceManager.cc:84 "It's important that the order is conserved
\* between the moment where we assign and the moment we unassign": the values
\* are the literals of the active calls, oldest call first, each variable once,
\* and what a call or a component has still to do is about other variables.
OrderConserved ==
  /\ currentValue = {trail[j] : j \in DOMAIN trail}
  /\ \A j, k \in DOMAIN trail : j # k => VarOf(trail[j]) # VarOf(trail[k])
  /\ \A d \in DOMAIN frames :
       LET f == frames[d] IN
       /\ f.mark <= Len(trail)
       /\ f.kind = "call" =>
            /\ \A j \in DOMAIN f.lits :
                 /\ VarOf(f.lits[j]) \notin Assigned(f.mark)
                 /\ f.mark + j <= Len(trail) => trail[f.mark + j] = f.lits[j]
            /\ \A vs \in f.todo : vs \cap Assigned(f.mark + Len(f.lits)) = {}
       /\ f.kind = "component" => f.vars \cap Assigned(f.mark) = {}
  /\ Len(trail) = Top.mark + CASE pc = "assign" -> i - 1
                               [] pc = "unassign" -> i
                               [] pc \in {"keep", "components"} -> Len(Top.lits)
                               [] pc \in {"restrict", "branch"} -> 0

\* The literals assigned before the variable of l was.
Earlier(l) ==
  {trail[j] : j \in {n \in DOMAIN trail : \A k \in 1 .. n : VarOf(trail[k]) # VarOf(l)}}

\* Whatever was assigned and undone before, the list of a literal holds the
\* clauses that no literal assigned before it satisfies: the lists depend on
\* nothing but the values, so that each postUpdate undoes its preUpdate.
ListsExact ==
  \A l \in Lit :
    occList[l] = {c \in Ids : l \in clauses[c] /\ clauses[c] \cap Earlier(l) = {}}

\* dynamicOccurrenceManager.cc:226 "assert(nbUnsat[i] == nbU)" and nbSat: a
\* clause counts its false literals until one is true, which it counts once.
CountersExact ==
  \A c \in Ids :
    /\ nbSat[c] = IF clauses[c] \cap currentValue = {} THEN 0 ELSE 1
    /\ nbUnsat[c] = Cardinality({l \in clauses[c] : /\ Neg(l) \in currentValue
                                                    /\ clauses[c] \cap Earlier(l) = {}})

\* The assertions of removeIdxFromOccList and of postUpdate: a clause that is
\* removed is in the list, one that is pushed is not, so that the list holds
\* it once and has room for it.
ListOperationsLegal ==
  /\ pc = "assign" /\ i <= Len(Top.lits) =>
       LET l == Top.lits[i] IN
       \A c \in occList[l] : \A k \in clauses[c] :
         Undef(k) /\ VarOf(k) # VarOf(l) => c \in occList[k]
  /\ pc = "unassign" /\ i > 0 =>
       \A c \in occList[Undone] : \A k \in clauses[c] : Undef(k) => c \notin occList[k]

\* The assertion of isNotSatisfiedClauseAndInComponent: the watcher of a clause
\* that is not satisfied has no value, although postUpdate restores none.
WatchersFree ==
  pc \in {"keep", "components", "restrict", "branch"} =>
    \A c \in Ids : nbSat[c] = 0 => Undef(watcher[c]) /\ watcher[c] \in clauses[c]

Live == {currentIdx[j] : j \in 1 .. currentSize}

\* The current clauses, chosen by one literal of each, are those of the
\* component: they become the key of the cache, so one too many or too few
\* would give a component the graph of another.
LiveExact ==
  pc \in {"components", "branch"} \/ (i > currentSize /\ pc \in {"keep", "restrict"}) =>
    Live = {c \in Ids : /\ clauses[c] \cap currentValue = {}
                        /\ UndefVars(c) \subseteq Top.vars}

Tautology(c) == \E l \in clauses[c] : Neg(l) \in clauses[c]

\* What is left of a call splits: no clause joins two of its components or one
\* of them and a variable outside, only a tautology has a variable found free,
\* and no component number is left behind for the next call to stumble on.
ComponentsIndependent ==
  /\ idxComponent = {}
  /\ pc = "components" =>
       \A c \in Ids : clauses[c] \cap currentValue = {} =>
         \A s \in Top.todo : UndefVars(c) \subseteq s \/ UndefVars(c) \cap s = {}
  /\ pc = "keep" /\ i > currentSize =>
       \A c \in Live : Tautology(c) \/ \E s \in Components(Top.vars) : UndefVars(c) \subseteq s

\* The components of a call are those of the residual formula: independent of
\* one another and complete, with the clauses that belong to them and no other.
ComponentsExact == WatchersFree /\ LiveExact /\ ComponentsIndependent

-----------------------------------------------------------------------------
(* The stack of residual formulas that the arrays represent. *)

\* The formula of a call is there once its third loop has ended, that of a
\* component once it is singled out.
Depth == Len(frames) - IF pc \in {"assign", "keep", "restrict"} THEN 1 ELSE 0
SizeAt(d) == IF d <= Len(stackSize) THEN stackSize[d] ELSE currentSize
LitsAt(d) ==
  UNION {{frames[j].lits[n] : n \in DOMAIN frames[j].lits} :
           j \in {m \in 1 .. d : frames[m].kind = "call"}}
StackBar ==
  [d \in 1 .. Depth |-> [lits |-> LitsAt(d),
                         live |-> {currentIdx[j] : j \in 1 .. SizeAt(d)}]]

Abstract == INSTANCE Residual WITH stack <- StackBar

\* Sizes stacked over one permuted array are a stack of residual formulas.
ImplementsResidual == Abstract!Spec

=============================================================================
