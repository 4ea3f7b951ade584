------------------------------ MODULE Compile -------------------------------
(***************************************************************************)
(* The two drivers of D4, compilers/dDnnfCompiler.hh and                   *)
(* modelCounters/ModelCounter.hh, and the graph the first one builds       *)
(* (DAG/), which is printed, counted and queried.                          *)
(*                                                                         *)
(* The recursion is a stack of frames.  The occurrence manager is what     *)
(* module Residual says it is: the clauses left under the literals that    *)
(* the active calls have assigned.  The SAT solver is any that answers     *)
(* right; it may know more literals than the manager does, and loses some  *)
(* when it backtracks further than the driver asked.                       *)
(***************************************************************************)
EXTENDS Nnf, SequencesExt

CONSTANTS
  Instances,       \* the problems with their options, see below
  PartitionAbove,  \* components above this size are partitioned (10)
  PartitionBelow,  \* if they are below this one (5000)
  MaxQueries       \* bound: the queries answered

(***************************************************************************)
(* An instance has: clauses; projected, the projected variables; weight,   *)
(* of each literal; driver, "compile" or "count"; optAnd, cached,          *)
(* partition, the options; certified, whether the graph is built for a     *)
(* certificate (-drat); store, which clauses are part of a key of the      *)
(* cache; negative, the phases the heuristic may choose; queries, those    *)
(* asked of the graph, if any: sets of literals of different variables;    *)
(* asserts, whether the build keeps the assertions: "make" does, "make rs",*)
(* "make r" and "make p" define NDEBUG.                                    *)
(***************************************************************************)
ASSUME InstancesAssumption ==
  \A x \in Instances :
    /\ x.clauses \subseteq SUBSET Lit /\ {} \notin x.clauses
    /\ x.projected \subseteq Var /\ x.weight \in [Lit -> Nat]
    /\ x.driver \in {"compile", "count"} /\ x.store \in {"ALL", "NB", "NT"}
    /\ x.optAnd \in BOOLEAN /\ x.cached \in BOOLEAN /\ x.partition \in BOOLEAN
    /\ x.certified \in BOOLEAN /\ x.asserts \in BOOLEAN /\ x.negative \in SUBSET BOOLEAN \ {{}}
    /\ \A q \in x.queries : q # {} /\ q \subseteq Lit /\ \A l \in q : Neg(l) \notin q

VARIABLES
  inst,
  assumptions,  \* the decisions
  known,        \* known[n + 1]: the literals true in the solver at level n
  cache,        \* its entries, in the order of search
  frames,       \* the active calls, see CallFrame and ComponentFrame
  nodes,        \* the nodes of the graph, children before their parents
  pc,
  stamp, memo, globalStamp, \* of the nodes: the stamp, what is stored with it
  printing, file,           \* the calls of printNNF that are active; the output
  answers                   \* history: the queries and their answers

driver == <<assumptions, known, cache, frames>>
stamps == <<stamp, memo, globalStamp>>
output == <<printing, file>>
vars == <<inst, driver, nodes, pc, stamps, output, answers>>

NoLit == -1             \* lit_Undef
TrueNode == 1           \* globalTrueNode
FalseNode == 2          \* globalFalseNode
Constant(kind) == [kind |-> kind, out |-> <<>>]
\* The fields nbModels and saveDecision of a node.
NewMemo(decision) == [nbModels |-> 0, saveDecision |-> decision]

Counting == inst.driver = "count"

\* An execution of compile_ (or computeNbModel_) and one of compileDecisionNode
\* (or computeDecisionNode).
CallFrame(setOfVar, priority, lits, free, todo) ==
  [kind |-> "call", vars |-> setOfVar, priority |-> priority, lits |-> lits,
   free |-> free, todo |-> todo, results |-> <<>>]
ComponentFrame(connected, priority, branches) ==
  [kind |-> "component", vars |-> connected, priority |-> priority,
   branches |-> branches, partitioned |-> FALSE, chosen |-> branches # <<>>, results |-> <<>>]

\* What a call gives back: a node, or a number of the counter, and on the branch.
Result(val, units, free, fromCache) ==
  [val |-> val, units |-> units, free |-> free, fromCache |-> fromCache]

Top == Last(frames)
SetTop(f) == [frames EXCEPT ![Len(frames)] = f]
WithResult(f, r) == [f EXCEPT !.results = Append(@, r)]

\* The frame below gets the result of the one on top.
PopWith(r) ==
  LET below == Front(frames) IN
  [below EXCEPT ![Len(below)] = WithResult(@, r)]

Init ==
  /\ inst \in Instances
  /\ assumptions = <<>> /\ known = <<{}>>
  /\ cache = <<>>
  /\ frames = <<ComponentFrame(Var, {}, <<NoLit>>)>>
  /\ nodes = <<Constant("true"), Constant("false")>>
  /\ pc = "start"
  /\ stamp = <<0, 0>> /\ memo = <<NewMemo(FALSE), NewMemo(FALSE)>> /\ globalStamp = 1
  /\ printing = <<>> /\ file = [kind |-> <<>>, out |-> <<>>]
  /\ answers = <<>>

-----------------------------------------------------------------------------
(* The solver, external. *)

ModelsWith(ls) == {m \in Models(inst.clauses) : Agrees(m, ls)}
Implied(ls) == {l \in Lit : \A m \in ModelsWith(ls) : Satisfies(m, l)}

\* Unit propagation has nothing more to do under ls.
Propagated(ls) ==
  \A c \in inst.clauses :
    \/ c \cap ls # {}
    \/ \E k, l \in c : k # l /\ Neg(k) \notin ls /\ Neg(l) \notin ls

\* What the solver may have on its trail once it has propagated ls and known.
Trails(ls, before) ==
  {u \in SUBSET Implied(ls) : ls \cup before \subseteq u /\ Propagated(u)}

\* The trails at levels 0 .. Len(as) after a search under the assumptions as,
\* when it was at those of kn: each level holds what was there and the one below.
Levels(as, kn) ==
  LET upTo[n \in 0 .. Len(as)] ==
        LET ls == {as[j] : j \in 1 .. n}
            had == IF n < Len(kn) THEN kn[n + 1] ELSE {}
        IN IF n = 0 THEN {<<u>> : u \in Trails(ls, had)}
           ELSE UNION {{Append(k, u) : u \in Trails(ls, had \cup Last(k))} : k \in upTo[n - 1]}
  IN upTo[Len(as)]

KnownNow == Last(known)
\* cancelUntil of the solver.
CancelUntil(level, kn) == SubSeq(kn, 1, IF level + 1 < Len(kn) THEN level + 1 ELSE Len(kn))
UndefInSolver(v) == {PosLit(v), NegLit(v)} \cap KnownNow = {}

-----------------------------------------------------------------------------
(* The residual formula. *)

\* The literals that the calls of fs assign.
AssignedIn(fs) == UNION {fs[d].lits : d \in {e \in DOMAIN fs : fs[e].kind = "call"}}
Residual(c, ls) == {l \in c : Neg(l) \notin ls}
LiveUnder(ls) == {c \in inst.clauses : c \cap ls = {}}
VarsOf(ls) == {VarOf(l) : l \in ls}

\* The least set with v that no live clause leaves, among unassigned variables.
Connected(v, ls) ==
  LET closed(s) == \A c \in LiveUnder(ls) :
                     LET cv == VarsOf(Residual(c, ls)) IN cv \cap s # {} => cv \subseteq s
  IN {w \in Var : \A s \in SUBSET Var : v \in s /\ closed(s) => w \in s}

\* computeConnectedComponent: the components of vs, the variables left alone.
Parts(vs, ls) == {Connected(v, ls) : v \in vs \ VarsOf(ls)}
Free(vs, ls) == UNION {p \in Parts(vs, ls) : Cardinality(p) = 1}
Components(vs, ls) == {p \in Parts(vs, ls) : Cardinality(p) > 1}

\* Without decomposition the components are merged into one.
Todo(vs, ls) ==
  LET cs == Components(vs, ls) IN
  IF cs = {} \/ inst.optAnd THEN cs ELSE {UNION cs}

-----------------------------------------------------------------------------
(* The cache: a component is looked up by its variables and its clauses. *)

\* Mutant: clauses that were shortened are left out as well.
StoredNone(c, ls) == FALSE

\* A clause with no false literal ("NT"), or a binary one ("NB"), is left out.
Stored(c, ls) ==
  CASE inst.store = "ALL" -> TRUE
    [] inst.store = "NB"  -> Cardinality(c) > 2
    [] inst.store = "NT"  -> Residual(c, ls) # c

Key(vs, ls) ==
  [vars |-> vs, clauses |-> {Residual(c, ls) : c \in {d \in LiveUnder(ls) :
                               VarsOf(Residual(d, ls)) \subseteq vs /\ Stored(d, ls)}}]

\* The nodes below those of ns.
Below(ns) ==
  LET reached[n \in 1 .. Len(nodes)] ==
        n \in ns \/ \E m \in n + 1 .. Len(nodes) :
                      reached[m] /\ \E i \in DOMAIN nodes[m].out : nodes[m].out[i].dst = n
  IN {n \in 1 .. Len(nodes) : reached[n]}

\* The nodes some shared pointer keeps alive: those of the driver, of the
\* results of active calls, of the root, and what hangs below them.
Alive ==
  Below({TrueNode, FalseNode}
        \cup UNION {{frames[d].results[j].val : j \in DOMAIN frames[d].results} : d \in DOMAIN frames}
        \cup {n \in DOMAIN nodes : nodes[n].kind = "root"})

Entries(key) == SelectSeq(cache, LAMBDA e : e.key = key)

\* The first entry of the key; the compiler tests that the value is alive.
Hit(key) ==
  inst.cached /\ Entries(key) # <<>> /\ (Counting \/ Entries(key)[1].val \in Alive)

-----------------------------------------------------------------------------
(* compile_ and computeNbModel_. *)

Running(kind) == pc = "run" /\ Top.kind = kind
Branching == Running("component") /\ Top.branches # <<>>
Decision == Head(Top.branches)
Assumed == IF Decision = NoLit THEN assumptions ELSE Append(assumptions, Decision)

NodeUnchanged == UNCHANGED <<inst, nodes, pc, stamps, output, answers>>

\* The branch is done: the assumption is dropped, the solver backtracks.
BranchDone(r, kn) ==
  /\ frames' = SetTop(WithResult([Top EXCEPT !.branches = Tail(@)], r))
  /\ known' = CancelUntil(Len(assumptions), kn)

\* The constructor and compile: the formula is tried as a whole.
Start ==
  /\ pc = "start" /\ ModelsWith({}) # {}
  /\ known' \in Levels(<<>>, known)
  /\ pc' = "run"
  /\ UNCHANGED <<inst, assumptions, cache, frames, nodes, stamps, output, answers>>

\* initUnsat: the root is the false node, with what was propagated; or "s 0".
StartUnsat ==
  /\ pc = "start" /\ ModelsWith({}) = {}
  /\ \E u \in SUBSET Lit :
       /\ \A l \in u : Neg(l) \notin u
       /\ frames' = <<WithResult([Top EXCEPT !.branches = <<>>],
                        Result(IF Counting THEN 0 ELSE FalseNode, u, {}, FALSE))>>
  /\ pc' = "run"
  /\ UNCHANGED <<inst, assumptions, known, cache, nodes, stamps, output, answers>>

\* manageUnsat.  The solver is left at any lower level.
Unsat ==
  /\ Branching /\ ModelsWith(ToSet(Assumed)) = {}
  /\ \E level \in 0 .. Len(assumptions) :
       BranchDone(IF Counting THEN Result(0, {}, {}, FALSE)
                              ELSE Result(FalseNode, {Decision}, {}, FALSE),
                  CancelUntil(level, known))
  /\ UNCHANGED <<assumptions, cache>> /\ NodeUnchanged

\* collectUnit.
CollectUnit(vs, kn) == {l \in Last(kn) : VarOf(l) \in vs}

\* collectUnit, preUpdate, computeConnectedComponent.
Solve ==
  /\ Branching /\ ModelsWith(ToSet(Assumed)) # {}
  /\ assumptions' = Assumed
  /\ known' \in Levels(Assumed, known)
  /\ LET lits == CollectUnit(Top.vars, known')
         ls == AssignedIn(frames) \cup lits
     IN frames' = Append(frames, CallFrame(Top.vars, Top.priority, lits,
                                           Free(Top.vars, ls), Todo(Top.vars, ls)))
  /\ UNCHANGED cache /\ NodeUnchanged

\* The next component, in the order of the first variables.
Looping == Running("call") /\ Top.todo # {}
NextComponent ==
  CHOOSE s \in Top.todo : \A t \in Top.todo : \E v \in s : \A w \in t : v <= w
Rest == [Top EXCEPT !.todo = @ \ {NextComponent}]

CacheHit ==
  /\ Looping
  /\ LET key == Key(NextComponent, AssignedIn(frames)) IN
     /\ Hit(key)
     /\ frames' = SetTop(WithResult(Rest, Result(Entries(key)[1].val, {}, {}, TRUE)))
  /\ UNCHANGED <<assumptions, known, cache>> /\ NodeUnchanged

\* The variables of the list that are still to be decided; the compiler looks
\* for projected ones (computePrioritySubSet does not).
Priority(vs) ==
  {v \in Top.priority \cap vs : UndefInSolver(v) /\ (Counting \/ v \in inst.projected)}

CacheMiss ==
  /\ Looping
  /\ ~Hit(Key(NextComponent, AssignedIn(frames)))
  /\ frames' = Append(SetTop(Rest), ComponentFrame(NextComponent, Priority(NextComponent), <<>>))
  /\ UNCHANGED <<assumptions, known, cache>> /\ NodeUnchanged

\* refillAssums: the levels the solver has lost are made again.
Refilled ==
  IF Counting \/ Len(known) = Len(assumptions) + 1 THEN {known} ELSE Levels(assumptions, known)

Values(f) == [j \in DOMAIN f.results |-> f.results[j].val]
Weight(units, free) ==
  LET one(l) == inst.weight[l] IN
  Product([l \in Lit |-> one(l)], {l \in units : VarOf(l) \in inst.projected})
    * Product([v \in Var |-> one(PosLit(v)) + one(NegLit(v))], free \cap inst.projected)

\* saveDecision is not initialised; only that of a unary node is read before it
\* is written.
AddNode(node) ==
  /\ nodes' = Append(nodes, node)
  /\ stamp' = Append(stamp, 0)
  /\ \E decision \in IF node.kind = "unary" THEN BOOLEAN ELSE {FALSE} :
       memo' = Append(memo, NewMemo(decision))
  /\ UNCHANGED globalStamp
NoNode == UNCHANGED <<nodes, stamps>>

\* The edge to a result: the branches of a decision node and of the root keep
\* units and free variables, the children of an and node have none.
EdgeTo(r) == [dst |-> r.val, units |-> r.units, free |-> r.free, fromCache |-> r.fromCache]
EdgesOf(f) == [j \in DOMAIN f.results |-> EdgeTo(f.results[j])]

\* A component alone is the result, with where it comes from.
OnlyFromCache == Top.results[1].fromCache

\* All components are done; the branch that called gets the result.
Return ==
  /\ Running("call") /\ Top.todo = {}
  /\ LET n == Len(Top.results)
         give(val, fromCache) ==
           LET below == Front(frames)
               f == Last(below)
               r == IF Counting THEN Result(val * Weight(Top.lits, Top.free), {}, {}, FALSE)
                                ELSE Result(val, Top.lits, Top.free, fromCache)
           IN frames' = [below EXCEPT ![Len(below)] =
                           WithResult([f EXCEPT !.branches = Tail(@)], r)]
     IN IF Counting THEN give(Product(Values(Top), 1 .. n), FALSE) /\ NoNode
        ELSE IF n = 0 THEN give(TrueNode, FALSE) /\ NoNode
        ELSE IF n = 1 THEN give(Top.results[1].val, OnlyFromCache) /\ NoNode
        ELSE give(Len(nodes) + 1, FALSE) /\ AddNode([kind |-> "and", out |-> EdgesOf(Top)])
  /\ assumptions' = IF assumptions = <<>> THEN <<>> ELSE Front(assumptions)
  /\ \E kn \in Refilled : known' = CancelUntil(Len(assumptions'), kn)
  /\ UNCHANGED <<inst, cache, pc, output, answers>>

-----------------------------------------------------------------------------
(* compileDecisionNode and computeDecisionNode. *)

Choosing == Running("component") /\ ~Top.chosen

\* weCall: a component with no list of its own, of a size between the limits.
MustPartition ==
  /\ inst.partition /\ Top.priority = {} /\ ~Top.partitioned
  /\ PartitionAbove < Cardinality(Top.vars) /\ Cardinality(Top.vars) < PartitionBelow
Selecting == Choosing /\ ~MustPartition

\* The partitioner: a cut of the component, which may be any of its variables, or none.
\* The search for equivalent literals may give the solver units to propagate at
\* any level; it then makes the levels it has lost again.
Partition ==
  /\ Choosing /\ MustPartition
  /\ known' \in {known} \cup Levels(assumptions, known)
  /\ \E cut \in SUBSET {v \in Top.vars : {PosLit(v), NegLit(v)} \cap Last(known') = {}} :
       frames' = SetTop([Top EXCEPT !.priority = cut, !.partitioned = TRUE])
  /\ UNCHANGED <<assumptions, cache>> /\ NodeUnchanged

\* selectVariable: any scoring of the variables that may be decided.
Selectable(vs) == {v \in vs : UndefInSolver(v) /\ v \in inst.projected}

\* The compiler looks at the component when the cut has no such variable.
Candidates ==
  IF Top.priority # {} /\ (Counting \/ Selectable(Top.priority) # {})
    THEN Selectable(Top.priority) ELSE Selectable(Top.vars)

Decide ==
  /\ Selecting
  /\ \E v \in Candidates, neg \in inst.negative :
       LET l == IF neg THEN NegLit(v) ELSE PosLit(v) IN
       frames' = SetTop([Top EXCEPT !.branches = <<l, Neg(l)>>, !.chosen = TRUE])
  /\ UNCHANGED <<assumptions, known, cache>> /\ NodeUnchanged

\* The component gets its value, and the cache an entry.
Compiled(val) ==
  /\ cache' = IF inst.cached
                THEN Append(cache, [key |-> Key(Top.vars, AssignedIn(frames)), val |-> val])
                ELSE cache
  /\ frames' = PopWith(Result(val, {}, {}, FALSE))
  /\ UNCHANGED <<inst, assumptions, known, pc, output, answers>>

\* What the compiler asserts where nothing is left to decide: that no list of
\* variables was given, and, for the unary node of a certificate, that the solver
\* has lost no level.
Refused ==
  /\ inst.asserts /\ ~Counting
  /\ \/ Top.priority # {}
     \/ /\ inst.certified /\ CollectUnit(Top.vars, known) # {}
        /\ Len(known) # Len(assumptions) + 1

NoVariableRefused ==
  /\ Selecting /\ Candidates = {} /\ Refused
  /\ pc' = "aborted"
  /\ UNCHANGED <<inst, driver, nodes, stamps, output, answers>>

\* createTrueNode: nothing is left to decide.  The counter returns 1.
NoVariable ==
  /\ Selecting /\ Candidates = {} /\ ~Refused
  /\ LET units == CollectUnit(Top.vars, known) IN
     IF Counting THEN Compiled(1) /\ NoNode
     ELSE IF units = {} THEN Compiled(TrueNode) /\ NoNode
     ELSE /\ Compiled(Len(nodes) + 1)
          /\ AddNode([kind |-> "unary",
                      out |-> <<EdgeTo(Result(TrueNode, units, {}, FALSE))>>])

\* Both branches are there.
BothDone == Running("component") /\ Top.chosen /\ Top.branches = <<>> /\ Len(frames) > 1

DecisionNode ==
  /\ BothDone
  /\ IF Counting THEN Compiled(Sum(Values(Top), DOMAIN Top.results)) /\ NoNode
     ELSE /\ Compiled(Len(nodes) + 1)
          /\ AddNode([kind |-> "or", out |-> EdgesOf(Top)])

\* compile or computeNbModel have their result.
AllDone == Running("component") /\ Top.branches = <<>> /\ Len(frames) = 1

CountDone ==
  /\ AllDone /\ Counting
  /\ answers' = <<[conditions |-> {}, count |-> TRUE, answer |-> Top.results[1].val]>>
  /\ pc' = "done"
  /\ UNCHANGED <<inst, driver, nodes, stamps, output>>

\* assignRootNode; printNNF of the root begins.
MakeRoot ==
  /\ AllDone /\ ~Counting
  /\ nodes' = Append(nodes, [kind |-> "root", out |-> EdgesOf(Top)])
  /\ stamp' = Append(stamp, globalStamp + 1) /\ memo' = Append(memo, NewMemo(FALSE))
  /\ file' = [kind |-> <<"or">>, out |-> <<<<>>>>]
  /\ printing' = <<[node |-> Len(nodes) + 1, next |-> 1]>>
  /\ frames' = <<>>
  /\ pc' = "print"
  /\ UNCHANGED <<inst, assumptions, known, cache, globalStamp, answers>>

-----------------------------------------------------------------------------
(* printNNF: a walk that gives each node the next index, kept in its stamp. *)

Printed == nodes[Last(printing).node]
Child == Printed.out[Last(printing).next].dst
Idx(n) == stamp[n] - globalStamp        \* getIdx

\* The lines of the edges es of node n.
WriteEdges(f, n, es) ==
  [f EXCEPT !.out[Idx(n)] =
     @ \o [j \in DOMAIN es |-> [es[j] EXCEPT !.dst = Idx(es[j].dst)]]]

\* Mutant: the walk does not move on.
AdvanceNot(p) == p
Advance(p) == [p EXCEPT ![Len(p)].next = @ + 1]

NotYet(n) == stamp[n] < globalStamp

\* A child that has no index is printed first.
PrintChild ==
  /\ pc = "print" /\ Last(printing).next <= Len(Printed.out)
  /\ NotYet(Child)
  /\ stamp' = [stamp EXCEPT ![Child] = globalStamp + Len(file.kind) + 1]
  /\ file' = [kind |-> Append(file.kind, nodes[Child].kind), out |-> Append(file.out, <<>>)]
  /\ printing' = Append(Advance(printing), [node |-> Child, next |-> 1])
  /\ UNCHANGED <<inst, driver, nodes, pc, memo, globalStamp, answers>>

ChildPrinted ==
  /\ pc = "print" /\ Last(printing).next <= Len(Printed.out)
  /\ ~NotYet(Child)
  /\ printing' = Advance(printing)
  /\ UNCHANGED <<inst, driver, nodes, pc, stamps, file, answers>>

\* The children of the node are there: its edges are written.
WriteNode ==
  /\ pc = "print" /\ Last(printing).next > Len(Printed.out)
  /\ file' = WriteEdges(file, Last(printing).node, Printed.out)
  /\ printing' = Front(printing)
  /\ pc' = IF Len(printing) = 1 THEN "query" ELSE "print"
  /\ globalStamp' = IF Len(printing) = 1 THEN globalStamp + Len(file.kind) ELSE globalStamp
  /\ UNCHANGED <<inst, driver, nodes, stamp, memo, answers>>

-----------------------------------------------------------------------------
(* Counting and deciding under conditions.  A node keeps what it found with *)
(* the stamp of the query, and gives it again while the stamp is the same.  *)

RootNode == Len(nodes)

\* fixedValue: the literals of the query, of projected variables for counts.
Contradicted(e, q) == \E l \in e.units : Neg(l) \in q /\ VarOf(l) \in inst.projected

WeightUnder(e, q) ==
  Weight(e.units \cup {l \in q : VarOf(l) \in e.free}, e.free \ VarsOf(q))

AndCount(counts) == Product(counts, DOMAIN counts)

\* computeNbModels of every node, with the stamp g.
Counts(q, g) ==
  LET count[n \in DOMAIN nodes] ==
        LET edge == [i \in DOMAIN nodes[n].out |->
                       LET e == nodes[n].out[i] IN
                       IF Contradicted(e, q) THEN 0 ELSE count[e.dst] * WeightUnder(e, q)]
        IN CASE nodes[n].kind = "true"  -> 1
             [] nodes[n].kind = "false" -> 0
             [] nodes[n].kind = "and"   -> AndCount(edge)
             [] nodes[n].kind = "root"  -> Sum(edge, DOMAIN edge)
             [] nodes[n].kind \in {"or", "unary"} ->
                  IF stamp[n] = g THEN memo[n].nbModels ELSE Sum(edge, DOMAIN edge)
  IN count

\* The nodes a count comes to, and those that store what they found.
Reached(q, g) ==
  LET reached[n \in DOMAIN nodes] ==
        \/ n = RootNode
        \/ \E m \in n + 1 .. RootNode :
             /\ reached[m]
             /\ nodes[m].kind \in {"or", "unary"} => stamp[m] # g
             /\ \E i \in DOMAIN nodes[m].out :
                  nodes[m].out[i].dst = n /\ ~Contradicted(nodes[m].out[i], q)
  IN {n \in DOMAIN nodes : reached[n]}

Stores(q, g) ==
  {n \in Reached(q, g) :
     /\ stamp[n] # g
     /\ \/ nodes[n].kind = "or"
        \/ nodes[n].kind = "unary" /\ (inst.certified \/ ~Contradicted(nodes[n].out[1], q))}

Refutes(e, q) == \E l \in e.units : Neg(l) \in q

\* isSAT gives the field without a look below when the stamp is that of the query;
\* a unary node that is not certified always does, and nothing assigns its field.
Recalls(n, g) == stamp[n] = g \/ (nodes[n].kind = "unary" /\ ~inst.certified)
AllHold(out, sat) == \A i \in DOMAIN out : sat[out[i].dst]

Decisions(q, g) ==
  LET sat[n \in DOMAIN nodes] ==
        LET out == nodes[n].out
            edge(i) == sat[out[i].dst] /\ ~Refutes(out[i], q)
        IN CASE nodes[n].kind = "true"  -> TRUE
             [] nodes[n].kind = "false" -> FALSE
             [] nodes[n].kind = "and"   -> AllHold(out, sat)
             [] nodes[n].kind = "root"  -> edge(1)
             [] nodes[n].kind \in {"or", "unary"} ->
                  IF Recalls(n, g) THEN memo[n].saveDecision ELSE \E i \in DOMAIN out : edge(i)
  IN sat

\* The nodes a decision comes to: an or node stops at the first branch that
\* holds, an and node at the first that does not.
Asked(q, g) ==
  LET sat == Decisions(q, g)
      asks(m, i) ==
        LET out == nodes[m].out IN
        IF nodes[m].kind = "and" THEN \A j \in 1 .. i - 1 : sat[out[j].dst]
        ELSE /\ nodes[m].kind # "root" => ~Recalls(m, g)
             /\ ~Refutes(out[i], q)
             /\ \A j \in 1 .. i - 1 : ~sat[out[j].dst] \/ Refutes(out[j], q)
      reached[n \in DOMAIN nodes] ==
        \/ n = RootNode
        \/ \E m \in n + 1 .. RootNode :
             reached[m] /\ \E i \in DOMAIN nodes[m].out : nodes[m].out[i].dst = n /\ asks(m, i)
  IN {n \in DOMAIN nodes : reached[n] /\ nodes[n].kind \in {"or", "unary"}}

\* Mutant: the stamp of the last query is used again.
NextStampSame == globalStamp
NextStamp == globalStamp + 1

\* The nodes of ns get the stamp and the values of f.
Stamp(ns, f) ==
  /\ globalStamp' = NextStamp
  /\ stamp' = [n \in DOMAIN nodes |-> IF n \in ns THEN NextStamp ELSE stamp[n]]
  /\ memo' = [n \in DOMAIN nodes |-> IF n \in ns THEN f[n] ELSE memo[n]]
  /\ UNCHANGED <<inst, driver, nodes, output>>

AnswerCount(q) ==
  LET count == Counts(q, NextStamp) IN
  /\ Stamp(Stores(q, NextStamp), [n \in DOMAIN nodes |-> [memo[n] EXCEPT !.nbModels = count[n]]])
  /\ answers' = Append(answers, [conditions |-> q, count |-> TRUE, answer |-> count[RootNode]])

AnswerDecision(q) ==
  LET sat == Decisions(q, NextStamp) IN
  /\ Stamp(Asked(q, NextStamp), [n \in DOMAIN nodes |-> [memo[n] EXCEPT !.saveDecision = sat[n]]])
  /\ answers' = Append(answers, [conditions |-> q, count |-> FALSE, answer |-> sat[RootNode]])

\* Without queries the models are counted once.
CountAll == pc = "query" /\ inst.queries = {} /\ AnswerCount({}) /\ pc' = "done"

CountUnder ==
  /\ pc = "query" /\ Len(answers) < MaxQueries
  /\ \E q \in inst.queries : AnswerCount(q)
  /\ UNCHANGED pc

\* isSATConditioning reads the level of the solver of Branch, a pointer that is null
\* and that nothing sets, in an assertion; what else it does with it is skipped.
DecideUnder ==
  /\ pc = "query" /\ Len(answers) < MaxQueries /\ ~inst.asserts
  /\ \E q \in inst.queries : AnswerDecision(q)
  /\ UNCHANGED pc

DecideRefused ==
  /\ pc = "query" /\ Len(answers) < MaxQueries /\ inst.asserts /\ inst.queries # {}
  /\ pc' = "aborted"
  /\ UNCHANGED <<inst, driver, nodes, stamps, output, answers>>

EndOfQueries ==
  /\ pc = "query" /\ inst.queries # {}
  /\ pc' = "done"
  /\ UNCHANGED <<inst, driver, nodes, stamps, output, answers>>

Finished == pc \in {"done", "aborted"} /\ UNCHANGED vars

Next ==
  \/ Start \/ StartUnsat \/ Unsat \/ Solve \/ CacheHit \/ CacheMiss \/ Return
  \/ Partition \/ Decide \/ NoVariable \/ NoVariableRefused \/ DecisionNode
  \/ CountDone \/ MakeRoot
  \/ PrintChild \/ ChildPrinted \/ WriteNode
  \/ CountAll \/ CountUnder \/ DecideUnder \/ DecideRefused \/ EndOfQueries \/ Finished

Spec == Init /\ [][Next]_vars
FairSpec == Spec /\ WF_vars(Next)

-----------------------------------------------------------------------------
(* Properties *)

Projected == ProjectOn(Models(inst.clauses), inst.projected)
WeightOf(m, vs) == Weight({IF v \in m THEN PosLit(v) ELSE NegLit(v) : v \in vs}, {})
TotalWeight(ms, vs) == Sum([m \in ms |-> WeightOf(m, vs)], ms)
OfProjected(q) == {l \in q : VarOf(l) \in inst.projected}

Unassigned == ~inst.certified /\ \E n \in DOMAIN nodes : nodes[n].kind = "unary"

\* Main.cc:84-141: whatever order variables are decided in, and whatever was
\* asked before, a count is the weight of the projected models that agree with
\* the projected literals of the query; in a build without assertions, the only one
\* that answers it, "d" says whether there is one, if the graph has no unary node or
\* is certified.
AnswersExact ==
  \A i \in DOMAIN answers :
    LET a == answers[i]
        agreeing == {m \in Projected : Agrees(m, OfProjected(a.conditions))}
    IN IF a.count THEN a.answer = TotalWeight(agreeing, inst.projected)
       ELSE Unassigned \/ OfProjected(a.conditions) # a.conditions \/ a.answer = (agreeing # {})

\* The file, read back as cppddnnf does, means the projected formula, with each
\* node that can be reached printed once: sharing is kept.
PrintedExact ==
  pc \in {"query", "done"} /\ ~Counting =>
    /\ ProjectOn(NnfModels(file), inst.projected) = Projected
    /\ Len(file.kind) = Cardinality(Below({RootNode}))

\* UnaryNodeCertified.hh:69, BinaryDeterministicOrNodeCertified.hh:91: the marks of
\* a certified graph can be trusted without the cache: the walk comes to a node for
\* the first time by an edge that is not marked, and again only by marked ones.
MarksTell ==
  pc = "print" /\ inst.certified /\ Last(printing).next <= Len(Printed.out) =>
    \/ nodes[Child].kind \in {"true", "false"}
    \/ Printed.out[Last(printing).next].fromCache <=> ~NotYet(Child)

\* What leaves the compiler is right: the answers, the file, and the marks in
\* the order the file is printed.
OutputExact == AnswersExact /\ PrintedExact /\ MarksTell

\* The formula a key stands for: its clauses, and those never shortened.
SubFormula(key) == key.clauses \cup {c \in inst.clauses : VarsOf(c) \subseteq key.vars}
SubModels(key) ==
  ProjectOn({m \in SUBSET key.vars : \A c \in SubFormula(key) : SatClause(m, c)}, inst.projected)

\* A key that leaves clauses out still says which formula it stands for: the
\* value found with it is right wherever it is found, and no entry is dead.
CacheSound ==
  pc = "run" =>
    \A i \in DOMAIN cache :
      LET e == cache[i]
          right == TotalWeight(SubModels(e.key), e.key.vars \cap inst.projected)
      IN IF Counting THEN e.val = right
         ELSE e.val \in Alive /\ Counts({}, -1)[e.val] = right

\* Where an assertion may fail: a decision is asked for, a cut may have no variable
\* to count while others are left, or a certificate needs the levels of the solver.
MayAbort ==
  /\ inst.asserts /\ ~Counting
  /\ inst.queries # {} \/ inst.certified \/ (inst.partition /\ inst.projected # Var)

\* The recursion, the walk and the queries end, with an answer unless one of the
\* three things an assertion forbids was asked for.
Termination ==
  /\ <>(pc \in {"done", "aborted"})
  /\ ~MayAbort => <>(pc = "done")

=============================================================================
