# DivKC: a TLA+ model

DivKC counts and samples the models of a propositional formula by *divide and
compile*. A formula over the variables `V` is projected on a few variables `P`;
both the projection and what it leaves out are compiled to d-DNNF, and a query
sums or samples over the *paths* of the first graph: partial assignments of `P`,
all of whose extensions to `P` are models of the projection.

    x.cnf -> splitter -> x.log          the variables to keep, "c p show ... 0"
    x.log + x.cnf -> projection -> .p   the projected formula
                                   .pup the clauses the projection does not cover
                                   .log the variables really kept
    .p   -> d4 -dDNNF -> x.pnnf    .pup -> d4 -dDNNF -> x.unnf
    x.pnnf, x.unnf, .log -> appmc | lmc | pc | sampler | rsampler | rhsampler

The processes share nothing but these files, and nothing in the scripts tests
that the one before succeeded. Everything after the projection relies on one
contract: for each model `p` of `.p`, the models of `.pup` that agree with `p` on
the kept variables are the models of `x.cnf` that agree with `p`.

## Inventory

| component | state | operations | what makes it correct | module |
|---|---|---|---|---|
| projection tool (`projection/src`) | clause slots, active bits, inverted index, units, free slots, counter; sets of variables | simplify, forget, project, upper bound, write | index and counter exact; stable iteration; the contract above, whenever the clock stops it; it ends | Cnf, Projection |
| literals, clauses, readers (`var.*`, `Clause`, `CNF(path)`) | integer; sorted vector | push, remove, contains; read | a clause is a set; every reader finds the same formula | Literals, Containers, CnfTools |
| splitter (`splitter/src`) | the same formula object; partition; union-find | simplify, partition, cut variables, subsumption | after the cut no clause joins two parts | CnfTools, Containers |
| nnf, pdac (`cppddnnf/src`) | graph, ordering, model and path counts, assumptions | parse, order, annotate, get_path, get_solution | counts equal models and paths; ids 1..n name each of them once | Nnf |
| sampler | path counts | draw, decode | each answer is a model; different ids, different models | Sampler |
| appmc | shared mean, spread, count, `done`; one generator | OpenMP loop | mean of the samples taken; it stops with a bound that holds | AppMC |
| lmc, pc | minimum; sum | OpenMP loop | the least mean; number of paths | LowerBound |
| rsampler, rhsampler | reservoir, running total | OpenMP loops; walk with skips | uniform whatever the order of threads; no solution twice | Reservoir, Skipping |
| xoshiro | words | seed, next, jump | depends on its seed alone | Xoshiro |
| wrapper (`D4/wrapper`) | child pid, memory peak, clock | poll, kill, wait | one verdict, always given | Wrapper |
| scripts (`*.sh`) | files | run each step | a failed step is not taken for an answer | Pipeline |
| D4 compiler, counter, graph (`D4/d4`) | call stack, cache, nodes, stamps | compile, decide, split, print, query | the graph's models are the formula's; a query answers for its own conditions | Compile |
| D4 occurrence manager | lists, counters, permuted arrays | preUpdate, postUpdate, components | every undo exact | Occurrence, Residual |
| D4 cache | octets, free lists, hash lists | collect, look up, add | a hit is for the same residual formula; blocks are disjoint | Memory, Cache, CacheStore |
| D4 SAT solver | trail, levels, watches, learnt clauses | propagate, analyse, assume, probe | answers right over a stack of assumptions; every clause entailed | Solver, Arena, OrderHeap |
| D4 partitioner | hypergraph, marks, rows | reduce, merge, cut | the cut separates the component | Partitioner |
| D4 start, heuristics | tables, scores | read, hand over, choose | both drivers start from the formula given | Startup |
| build, options of the tools (`gen.cpp`, `main`) | times of files; argv | edit, build, clean; parse | what is linked is what was edited; a call does what its line says | Toolchain |
| D4 containers, options | vectors, heaps; argv | grow, share, sort; parse | arrays keep what is put in them; options have the value of the line | Arrays, Utilities, CommandLine |

What is hard here is not the volume of state but the protocols on it: index lists
changed while they are walked, slots that are reused, counters that must agree
with bits, a clock or a signal that may end a computation between any two steps,
threads that share a generator and a running mean, a reservoir whose law must not
depend on which thread comes first, a cache whose values die and whose keys leave
clauses out, a solver that forgets levels its caller thinks it has, and arithmetic
at 0 and 1 in the decoding of ids. `PROJECT.json` lists these hazards at their
lines, with the properties that cover them.

## How the modules compose

- `Literals` and `Cnf` are under everything of the C++ tools; `Projection`
  EXTENDS them. `Nnf` is under `Sampler` and `Compile`: the graph D4 prints is the
  graph the samplers read.
- `Occurrence` implements `Residual`, a stack of residual formulas; `Compile` is
  the recursion of the two drivers over what `Residual` promises, and over any
  solver that answers right, which is what `Solver` is checked to be.
- `Cache` is the cache on the memory of `Memory`; it implements `CacheStore`, a
  map, and `Compile` uses it as a map. `OrderHeap` implements `PriorityQueue`.
- `Pipeline` composes `Wrapper`, `CnfTools` (splitter and readers) and the effects
  of the projection tool and of D4 on files.
- `MCAppMC` runs four programs that draw paths at random, `MCParts` fifteen parts
  that stand alone; each picks one at the start.

Two layers are kept apart on purpose. What a program does to the state others see
is modelled step by step; what an external library or a heuristic decides (PaToH,
the choice of a variable, a random draw) is any of the values it may return.

## The C++ tools

**Literals** is `var.hpp`: literals and variables as the integers the code uses,
and the meaning of clauses over total assignments (the only thing here that is
not in the code: it is what the results are compared with).

**Cnf** is the class `CNF` of `projection/src/CNF.cpp` as a record, one field per
member, and its methods as operators from records to records. A clause is the
set of its literals; `Containers` has the sorted vector of the code, whose look-ups
(`LookupsRight`) answer as that set. The `size_t` counter wraps at `WordSize`. Two
methods run code that C++ leaves open or that is easily overlooked, and both are
modelled as built: `add_clause_nonredundant` gets a copy of the resolvent and reads
`*c.begin()`, which for the copy of an empty vector is a null pointer, so that the
program dies (`ResolveEmpty` of `Projection`; `Pivot` is for other clauses), and
`inplace_upper_bound` calls `rm_clause` on slots that are not active.

**Projection** is `main` of `projection.cpp`: `pc` is the point the program is at
and each iteration of a loop that changes the formula is an action.

| action | code |
|---|---|
| `Tautology`, `TautologiesDone` | first loop of `simplify` |
| `Collect`, `PropagateNext` | one round of units: gathered, then propagated one by one |
| `Copy` | `simplify` returns; `CNF up(cnf)`; `project` computes the variables to forget |
| `PickUnit`, `PickPure`, `PickPairs` | choice of the cheapest variable and the branch of `forget` it takes |
| `Resolve` | an iteration of the two nested loops: resolvent, tautology test, subsumption test, addition, and the iterators moving on over the lists *as they are now* |
| `ResolveEmpty` | the resolvent is empty: `pc` becomes `crashed`, before any file is opened (`CNF.cpp:463`) |
| `DropNegStart`, `DropOne` | the removal of the old clauses through copied lists |
| `Forgotten` | end of an iteration of `project`; growth test or the clock may stop it |
| `AllForgotten`, `WriteP`, `UpperBound`, `WriteUp`, `Finished` | the rest of `main` |

The clock is a nondeterministic choice at the only place where it is read.

**CnfTools** has the methods no run of the default build calls but both programs
carry: subsumption (with the splitter's version), the renaming of the variables
left, free variables and the figures per clause length. It also has what the
splitter does with the formula (`Simplified`, `Partitions`, `Shown`): units are
propagated as in the projection tool, but without its search for tautologies, and
the variables of the clauses that cross the parts of any partition are shown.
It has the two readers too. `CNF(path)` reads line by line and uses a number
once more after a failed extraction; `parse_DIMACS_main` of D4 reads number by
number. `ReadersAgree` compares them on the files both are meant for
(`OneClauseALine`), whatever comments, blank lines and late headers stand between.

**Containers** has three containers of the tools, each with its operations: the
sorted vector of a clause, the growing set of literals (`LitSet`) and the
splitter's union-find (`uf.cpp`), compared with reachability in the graph of merges.

**Nnf** is the graph of `nnf.hpp` as a record of two functions on its nodes, and
the operators of `nnf.cpp` on it: a turn of `compute_ordering`, the counts of an
edge and a node, the digits and branches by which an id is decoded. The counts
are exact integers here and `mpz_int` in the code. `NnfModels`, the set of
assignments that satisfy a graph, is not in the code: it is what the counts are
compared with.

**Sampler** is `sampler.cpp` on top of `Nnf`, each turn of each loop an action.

| action | code |
|---|---|
| `OrderP`, `OrderU` (and `...Done`) | `compute_ordering` of the two graphs, with its explicit stack |
| `AnnotateP`, `ChooseExact`, `ChooseHeuristic`, `Buffer` | `annotate_pc`; the choice of the algorithm; the ids drawn for the buffer (any `k` different ids) |
| `Measure`, `PathAnd`, `PathOr`, `PathLeaf`, `PathDone` | `get_path` and `set_assumps` |
| `AnnotateU`, `Measured` | `annotate_mc` and the sum of the counts |
| `Abort`, `Draw` | the distribution on `1 .. total`; for a total of 0 its assertion fails (the build keeps assertions) |
| `StartSolution`, `SolutionAnd`, `SolutionOr`, `SolutionLeaf`, `Printed` | `get_solution` and the output |

The parallel loops of this program are taken in order: their iterations share
graphs that no one writes and sums that are only touched in critical sections.

**AppMC** is the parallel loop of `appmc.cpp`. A thread tests `done` (`Skip`,
`Sample`) and, later and under the lock, adds its sample (`Critical`). The
generator is shared by the threads without a lock, a data race: a sample is
therefore any value. The mean and the spread are kept as integers times `Scale`,
so that no division rounds and equality can be stated; `mpf_float` rounds in the
code. `Width` stands for the options alpha and epsilon.

**Reservoir** is `rsampler.cpp`: threads take the iterations in any order, each
brings a path into the slots under the lock with a random draw per slot, and a
second loop prints a solution of each slot. The draws are nondeterministic; `law`
carries, as a multiple of `1/Unit`, the probability that a slot holds each path,
so that uniformity is an equation of integers. In heuristic mode a thread draws
paths until it meets one not yet visited. `Shuffle` is `random_shuffle` of the
reservoir between the two loops.

**Skipping** is `rhsampler.cpp`: a walk over the solutions, path after path, with
random skips; `Leap` jumps over paths by their mean count once `Sure` are counted,
with the integer divisions of the code. **LowerBound** is `lmc.cpp`: tries of
several samples each, the least mean kept in a critical section.

**Toolchain** is how the tools come about and are called. Three copies of `gen.cpp`,
the same code but for the programs they list, write the rules of a build; ninja
(external) remakes what is missing or older than what its rule declares, one
command at a time, and may be stopped between two (`Edit`, `Clean`, `Ninja`,
`Command`, `Stop`, `Done`). The second part is `main` of the eight programs up to
the call of the work: the options with their types and defaults, boost's rejection
of an option given twice or with a text that is no value, and the arguments of
`lmc` and `pc` by place.

**Xoshiro** is `xoshiro.hpp`: the six classes as two engines with three ways to
make a result, on words of 64 bits kept as the sets of their bits. What a jump does
is checked through the characteristic polynomial of the engine: the state satisfies
it, and the constants of both jumps are the powers of x modulo it that the two
functions are meant to be.

## The scripts

**Wrapper** is `D4/wrapper/src/main.cpp`.

| action | code |
|---|---|
| `Fork` | `fork`, which may fail |
| `Sample`, `PollAlive`, `Judge` | one turn of the loop: memory, `waitpid(WNOHANG)`, the limits, `kill(SIGINT)` |
| `Reap`, `WaitEnd` | the line with the verdict: after a poll, or after the wait without a limit |
| `Exec`, `ExecFails` | the child: `execv` or its failure, which returns 0 |
| `Interrupted`, `Clock` | external: the signal arrives; the time is over |

**Pipeline** runs three scripts, `compile_formula.sh`, `docker_compile_formula.sh`
and `run` of `results/gen.sh`. A program that a step starts takes one action for
each thing it does to a file or prints, and may fail (`Fails`) between any two. A
file is read by the next program as it stands: missing, empty, cut off between
two clauses (more models), or torn (rejected). What a formula file contains after
the projection is abstracted to its set of models.

| action | code |
|---|---|
| `RunStep`, `StepOver` | the script starts a program with its redirections; it goes on, whatever the program came to |
| `LooksAtLog`, `Cat`, `Clean`, `PrintBounds` | the steps the shell does itself; only `gen.sh` looks at what it has |
| `SplitterFlushes`, `SplitterPrints` | the line of variables, possibly begun only |
| `ProjectionOpensP` ... `ProjectionReturns` | the three files in the order they are opened and closed |
| `D4Opens`, `D4Rejects`, `D4Prints`, `D4Closes`, `D4Counts` | the output is emptied before the input is read, and the count is printed before the output is closed |

## D4

**Compile** is the recursion of `dDnnfCompiler.hh` and `ModelCounter.hh`, one
module for the two, since they differ in what a call gives back. `frames` is the
call stack: executions of `compile_` and of `compileDecisionNode` alternate in it.

| action | code |
|---|---|
| `Start`, `StartUnsat` | the first answer of the solver; `initUnsat` |
| `Unsat`, `Solve` | the two outcomes of a branch: `manageUnsat`, or `collectUnit`, `preUpdate` and the components |
| `CacheHit`, `CacheMiss` | the loop over the components |
| `Return` | the end of `compile_`: the and node, the product; the assumption dropped, the solver's lost levels refilled |
| `Partition`, `Decide`, `NoVariable` | `compileDecisionNode`: the cut, which may be empty, of a component between the limits; the decision, or a component with nothing to decide |
| `NoVariableRefused` | the compiler asserts that a component with nothing to decide had no list of variables (`dDnnfCompiler.hh:345`), and for a certificate that the solver has lost no level (`:591`) |
| `DecisionNode`, `MakeRoot`, `CountDone` | the or node and its cache entry; the result |
| `PrintChild`, `ChildPrinted`, `WriteNode` | `printNNF` with the global stamp |
| `CountAll`, `CountUnder`, `DecideUnder`, `EndOfQueries` | the queries, on nodes that remember answers under a stamp |
| `DecideRefused` | a decision query: the assertion `DAG.hh:131` reads the solver of `Branch`, a null pointer that nothing sets |

The field `asserts` of an instance is the build. `make` keeps the assertions: there
every decision query ends the program, and `pc` becomes `aborted`. The other targets
of `D4/d4/Makefile` (`rs`, `r`, `p`) define `NDEBUG`: there the assertions are gone,
the null pointer is only tested, and decisions are answered (`DecideUnder`).

`known` is what the solver has on its trail at each level. It may know more than
the occurrence manager, and loses levels when an unsatisfiable branch makes it
backtrack further than asked; both are what makes the drivers delicate. `Alive`
is the reference counting of the nodes: an entry of the cache whose node died
would be a miss for ever. A graph built for a certificate (`certified`) marks the
edges that come from the cache; the log of proof steps itself is left out.

**Occurrence** is D4's dynamic occurrence manager: the arrays that hold the
residual formula, under the recursion of the compiler that changes them and must
put them back.

| action | code |
|---|---|
| `Unsat`, `Solve` | start of `compile_`: the solver is asked; `manageUnsat`, or `collectUnit` |
| `Assign`, `Review`, `Keep` | the three loops of `preUpdate`: values, lists and counters; watchers; the current clauses |
| `Split` | `computeConnectedComponent` |
| `NextComponent`, `RestrictSet` | the loop over the components; `updateCurrentClauseSet` |
| `Decide`, `NoDecision`, `LeaveComponent` | `compileDecisionNode` chooses a literal, or the cache or the solver makes that unnecessary; `popPreviousClauseSet` |
| `Return`, `Unassign`, `Returned` | `postUpdate` |
| `Finished` | `compile` has its graph |

A list is a set of clause numbers: what is lost is the order, which decides
in what order work is done and no result, and repetition, which
`ListOperationsLegal` excludes (it states the assertions of the code, which the
release build compiles without). The solver answers satisfiability correctly, and
the units it reports are any set of implied literals closed under unit
propagation. The decision, the phase, a hit of the cache and whether the solver
knows all variables are free choices. Two history values are added: `trail`, the
literals in the order they were assigned, and the `mark` of a frame, the length of
the trail when it began.

**Residual** is what the compiler needs of it: a stack of residual formulas, that
grows by assuming literals or by singling out components, and gives back the one
below. `Occurrence` implements it: `StackBar` reads the stack off the sizes in
`stackSize` and the one permuted array `currentIdx` they all share.

**Memory** is `BucketManagerInterface`: blocks from the list of their size, split
off the smallest free block twice as large, or fresh from a page, the rest of a
page that is too short becoming a free block. **Cache** adds what is written
there: `CreateDistrib` and `StoreFormula` of `BucketManager.hh` turn a component
into octets (clauses grouped by size and sorted by refining intervals, variables
renumbered, one or more octets each), the packed header of `CacheBucket.hh` says
how many there are, and look-ups compare octets within a hash list. **CacheStore** is the promise:
a map from residual formulas to values. A caller that searches and adds in the
order of the recursion is part of the model.

**Solver** is `utils/Solver.cc` as the two drivers use it.

| action | code |
|---|---|
| `TakeLiteral`, `VisitSatisfied`, `VisitMove`, `VisitUnit`, `VisitConflict` | `propagate`, a watch at a time |
| `AddClause`, `AddUnit`, `AddNothing`, `AddConflict` | `addClause_` |
| `RootConflict`, `Learn`, `Restart`, `SearchSimplify`, `ReduceDB` | `search`: a conflict at level 0; `analyze` with minimisation; the rest of its loop |
| `SearchAssume`, `AssumeFalse`, `Pick`, `Satisfiable` | assumptions, with the backtracking when one is false; decisions in the component only |
| `FirstCall`, `AddedUnsat`, `Constructed`, `SolveAgain`, `RootCall`, `InitUnsat` | the calls of the constructors and of `compile` |
| `CollectUnit`, `Unsatisfiable`, `Branch`, `Refill`, `Resolved`, `Return`, `Returned` | the calls of the recursion, and its levels made again |
| `Probe`, `ProbeDone`, `ResolveUnit` | `EquivManager`'s probing of a literal and a unit found |

**Arena** is the same clauses in memory: offsets in a region, lazy detaching,
`smudge` and `cleanAll`, and a collection that moves clauses and rewrites every
offset. **OrderHeap** is the heap of variables with its index and its rescaling;
**PriorityQueue** is what the solver needs of it.

**Partitioner** is `ClauseBipartiteGraphPartitioner` with the search for
equivalent variables, on a whole component: an action for each of the stages
`SearchEquiv`, `EndEquiv`, `CollectClauses`, `UselessVariables`, `UselessClauses`,
`ClearVariables`, `MergeEquivalent`, `PaToH` (any partition), `ExtractCut`.

**Startup** is what both drivers do between the parser and their first call: the
clauses are stripped in place while the solver takes them (`AddClause`), the
solver answers and simplifies (`Solve`, `SolveUnsat`), and what is left goes to
the occurrence manager and sizes the tables (`HandToCompiler`, `HandToCounter`,
in two orders and from two copies). The scores MOM, DLCS, JW-TS, VSIDS and VSADS
and the choice of the phase are operators over the state it reaches.

**Arrays** is `Vec.hh` and the two arrays in which nodes keep their lists;
**Utilities** the literals in two notations, lifted booleans, lists of literals,
subsumption with its abstraction bits, the sort and the Luby sequence;
**CommandLine** is `parseOptions` with integers of a small width, NaN and the
arguments it leaves.

## What is checked

| run | outcome | shows |
|---|---|---|
| `projection` | holds | bookkeeping: `IndexExact`, `NbActiveExact`, the inductive `Inv`; `StableIteration`: adding resolvents disturbs neither list being walked; `ProjectionExact`: when the tool ends, `.p` is the projection on the kept variables, its models are the projected models, and the two files fulfil the contract, and when it dies of an empty resolvent the input has no model; `Termination`: it ends or dies, and ends for an input that has a model |
| `forget_units` | violated | `forget` of a variable that is a unit with both signs is not the operation its comment names (`CNF.hpp:188`): one unit stays. `ProjectionExact` holds nevertheless, because `.p` then fixes the variable to true and so contradicts the unit that stayed |
| `upper_count` | violated | `nb_active` of the second formula is not its number of active clauses (`CNF.hpp:275`) after `inplace_upper_bound`. Only the header line of `.pup` shows it |
| `sampler` | holds | `CountsRight`: ids never leave `1 .. count` and counts are those of the models; `AnswersRight`: answers are models and different ids give different ones; `Termination` |
| `appmc` | holds | `EstimateRight`: mean and spread are those of the samples counted, and the loop ends with all samples or a decision it was allowed to take; `LateSamples`: at most one more sample per other thread; `SamplesRight`: the law of `rsampler`'s reservoir is uniform in every order of threads, `rhsampler` takes no solution twice and leaves no gap until it leaps, `lmc` keeps the least mean; `Answers`: each of the four programs ends with its answer |
| `rhsampler_ids` | violated | after a leap the number of the solution asked for can be 0 or less, which no model has (`nnf.hpp:224`) |
| `occurrence` | holds | `ListsExact`, `CountersExact`: undoing is exact whatever happened in between; `ListOperationsLegal`: the assertions; `ComponentsExact`: the current clauses are those of the component, components share none, and watchers are free; `ImplementsResidual`: the refinement |
| `compile` | holds | `OutputExact`: counts, conditioned counts and decisions are those of the projected formula, the printed file means it and keeps the sharing, and marks of a certified graph tell first visits from later ones; `CacheSound`: an entry is right wherever its key is met again and never dies; `Termination`: it ends, and without a failed assertion unless a decision query, a certificate, or a partitioner with variables that are not projected meets a build with assertions |
| `solver` | holds | `ClausesExact`: every clause is entailed and none is lost; `WatchesSound`: no falsified or unit clause is overlooked between calls; `AnswersRight`: answers, levels and units are right under the stack of assumptions; `Termination` |
| `cache` | holds | `BlocksDisjoint`: blocks neither overlap nor leave their page; `ImplementsStore`: octets, hash lists and memory together are the map of `CacheStore` |
| `pipeline` | holds | `BoundsHold`: what `gen.sh` prints bounds the count of the input, however its programs ended; `FilesRight`: "done" and two counts mean complete files that belong together, and the shown variables cut the formula; `ScriptEnds`: under `wrap` a script ends although a program may hang |
| `parts` | holds | a property for the fifteen parts, see below |

The run `parts` picks a part at the start and takes its steps only, so that its
states are the sum and not the product of theirs: `ArenaSound` (no offset outlives
its clause, no clause is lost, the region's figures add up), `ArraysRight` with
`HeapSound`, `ImplementsQueue` (the heap is a queue that gives the most active
variable), `ReadersAgree`, `CommandRight` (D4's options, and those of the tools), `ToolsRight` (sorted
clause, set of literals, union-find, subsumption, renaming, figures; what ninja says is done is made
from the files as they are), `CutRight` (the cut of the reduced hypergraph
cuts the component; weights and marks), `StartRight` (the formula handed over is
the formula given, the tables fit, and the variable chosen has the best score), `UtilitiesRight`,
`GeneratorRight`.

### Bounds

- `projection`: every set of at most four clauses of one or two literals over
  three variables (growth by resolution, slot reuse, subsumption, propagation in
  several rounds), and every sequence of at most three odd clauses (the empty
  clause, contradictory units, a tautology, repetitions); every set of variables
  to keep. `MaxClauses = 8` slots is more than these files need: `Resolve` has its
  guard, deadlock is checked, and a state that ran out of slots would have no next
  step. `WordSize = 16` is enough for a count that goes below zero to be seen.
- `sampler`: pairs of graphs over four variables as the compiler prints them
  (unsatisfiable, free variables, components, shared nodes, a node reached twice by
  its parent, a unary node) that fulfil the contract of the projection.
  `Buffers = {2, 16}` makes both algorithms run; two draws suffice to compare the
  answers of two ids.
- `appmc`: two threads; for `appmc` up to four samples of three values, two that
  are close enough for the default epsilon and alpha and one that is not,
  `Scale = 12` divides by `j (j-1)` for `j` up to 4; for `rsampler` up to three
  paths of one to three solutions, reservoirs of one and two slots, buffers 0, 2, 3;
  for `rhsampler` up to five paths and skips up to 4, `Sure = 3` instead of 1000
  counted paths so that the leaps are reached; for `lmc` up to three tries of one
  or two samples.
- `occurrence`: eight formulas of two to four clauses over four variables: two
  components, cycles, components that propagate, a tautology, an implied literal that unit
  propagation misses; decisions nest, components are found inside components.
- `compile`: seventeen instances over five variables, each picked for a case:
  components met again, a unit that propagation misses or misses only under a
  decision, projected and unprojected variables, weights that tell literals apart,
  each of the three key formats, with and without cache, partitioner,
  decomposition and certificate, unsatisfiable input, builds with and without
  assertions, each of the three assertions failing, and two queries in sequence.
  `PartitionAbove = 1` and `PartitionBelow = 4` instead of 10 and 5000 let components
  of two and three variables be cut and larger ones not.
- `solver`: ten problems of two to six clauses over four variables: refuted while
  they are read, by propagation, by search; learnt clauses to forget; two
  components; a unit only probing finds. At most two decisions of the driver and
  one restart, reduction or probe (`maxBranches`, `maxExtra`).
- `cache`: four formulas over six variables in which components meet again from
  other clauses, in another order, with repetitions and changed signs; octets of
  base 5, 8 and 16 so that one and two octets are both used; pages of 60 octets so
  that blocks are split, reused and a new page begun; a hash with two values so
  that lists collide; four searches.
- `pipeline`: two formula files over three variables, every partition, every
  projection that keeps the shown variables, every script; a prefix of a file is
  represented by the least and the most it may say.
- `parts`: the lists and numbers at the top of each section of `MCParts`; for
  instance five-element heaps with activities up to 2 before rescaling, vectors up
  to `IntMax = 5` elements so that the overflow test matters, command lines of
  three arguments, clauses of the partitioner over four and six variables, two edits of
  files between runs of ninja, calls of three words. The generators are not
  scaled: words of 64 bits, states with one draw that is not zero, a word replaced by
  zero, by all ones and by each single bit where a result is looked at. The sort and
  the abstraction of clauses have the constants of the code too (15 and 32): vectors
  are repeated and variables spread until they are large enough.

`CHECK_DEADLOCK FALSE` is used for `parts` only: a part at its bound has no step.

### Fairness

`projection`, `sampler`, `compile` and `solver` are sequential programs, and
`WF_vars(Next)` says no more than that a program with a next statement executes
it. In `appmc` each thread has weak fairness of its own steps: the operating
system runs every thread, and the critical sections hold no wait; that a random
draw of `rsampler` finds a path not yet visited is part of the step that draws,
since it fails with probability zero for ever. In `pipeline` the shell, `wrap`, the clock and the delivery of a signal are
weakly fair; the programs are not, for a program may hang. `occurrence` and
`cache` state no liveness.

## What is proved

`ProjectionProofs`, `AppMCProofs`, `OccurrenceProofs`, `ResidualProofs`,
`SolverProofs`, `MemoryProofs` and `PipelineProofs` hold theorems that TLAPS
checks for every value of the constants, under the named assumptions of the
modules they extend and no others.

| theorem | states | from |
|---|---|---|
| `SpecInv` | `Spec => []Inv`, the inductive invariant of the projection tool | one lemma per action over the lemmas about `Cnf` |
| `TypeCorrect`, `IndexCorrect`, `CountCorrect`, `FreeSlotsCorrect`, `ForgottenCorrect` | types, `IndexExact`, `NbActiveExact`, free slots, forgotten variables | conjuncts of `Inv` |
| `IterationCorrect` | `Spec => StableIteration` | `Inv` before the step |
| `MeaningCorrect` | clauses, units and forgotten variables stand for the projection of the input at every step the program takes before it ends or dies | `Inv`, and one lemma per action about sets of models |
| `ProjectionCorrect` | `Spec => []ProjectionExact`: what the three files mean together, and that a program that dies of an empty resolvent was given a formula without a model | `MeaningCorrect`, a bijection for the paths, and `CrashedEmpty` |
| `FewLateSamples` | `Spec => []LateSamples` of `appmc` | its own inductive invariant |
| `EstimatesExact` | `Spec => []EstimateRight` of `appmc` | the sums over the samples counted, and what one more adds |
| `OrderCorrect` | literals are undone in the reverse of the order they were assigned | the stack facts below |
| `ListsCorrect`, `CountersCorrect`, `ListOperationsCorrect` | `ListsExact`, `CountersExact`, `ListOperationsLegal` of the occurrence manager | lists and counters as functions of the trail |
| `ComponentsCorrect` | `Spec => []ComponentsExact` | what the frames, the watchers and the permuted array say at every level of the recursion |
| `ResidualCorrect` | `Spec => ImplementsResidual`: the refinement of `Residual` | the same invariant, a step of the stack for each action |
| `SolverInvariant` | `Spec => []SolverInv`, the inductive invariant of the solver | one lemma per operation of the solver, one per step of its callers |
| `WatchesCorrect`, `ClausesCorrect` | `WatchesSound`, `ClausesExact` of the solver | parts of `SolverInv` |
| `AnswersCorrect` | `Spec => []AnswersRight` of the solver: answers, levels and units under the stack of assumptions | `SolverInv`, and `AnswerInv` over what unit propagation derives |
| `MemoryDisjoint` | `MemorySpec => []BlocksDisjoint` | an invariant over blocks handed out and free |
| `PipelineInductive` | `Spec => []PipelineInv`, the inductive invariant of the scripts | one lemma per action of the shell, of `wrap` and of each program |
| `PrintedBounds`, `DoneComplete`, `FilesOfPrograms` | `BoundsHold`, `DoneMeansComplete`, `FilesRight` of the pipeline | parts of `PipelineInv`, and the mixing of models |

*Projection.* That the inverted index is exact is not inductive alone. `rm_clause`
keeps index and counter only if its slot is active, so the invariant must know
that every slot the program holds in an iterator or a copied list is
(`IteratorsValid`); `add_clause` writes in a free slot, so each free slot must be
inactive and listed once (`AvailFree`); the lists are changed per literal, so no
clause may hold both signs once the tautologies are gone (`NoTautology`); and the
units gathered for a round must be about variables no list is being walked for.
`Inv` is the conjunction of these parts. `ProjectionProofs` proves for each method what it
preserves, and for each action that it keeps `Inv`. The assumptions are those of
`Literals`, `Cnf` and `Projection` (numbers of variables and slots, the width of
the counter, clauses over the variables).

*Meaning.* `Exact(cs, gone)` says that the assignments of the variables not in
`gone` that extend to a model of the input are those that extend to a model of the
clauses `cs`. A variable is forgotten in many steps, so the invariant follows the
two cursors of the loop: the pairs of clauses already resolved are covered by a
clause that is there (`CoveredForgets`, the step of Davis and Putnam), and while
the clauses of the variable are dropped one by one what is left still stands for
the same assignments because what was dropped does. Units are kept apart from the
clauses they were taken from. The copy written to `.pup` (`UpExact`) has the models
of the input among the extensions of those of `.p`; that each projected model is
counted once is a bijection between the models over the kept variables and the
projections. Where the resolvent is empty nothing is added and nothing is written:
the two unit clauses at the cursor stand, with the rest, for the models of the input,
which therefore has none (`EmptyResolvent`).

*AppMC.* The samples counted after a thread decided to stop, plus the threads that
still carry one, are at most the samples counted when it decided plus
`NumThreads - 1`. For the estimate, `mean * cpt` is the sum of the samples counted
and the spread is the sum of squares less what the mean accounts for; one more
sample changes both sums by its own term (`SumAppend`). A sum is a fold of the
community modules, a recursive function on subsets: that there is one (`SumsExist`)
and that the order does not matter (`SumsAnyOrder`) is proved by induction on the
number of elements, stated with the set of the numbers that have the property
(`Reaches`, from the well-foundedness of `Nat`).

*Occurrence.* The three arrays are shown to be functions of the trail: a list of
occurrences holds what `ListIn` says, the counters what `SatIn` and `FalseIn` say,
for the literals assigned so far. `preUpdate` appends to the trail and the lemmas
`AppendLists`, `AppendSat` and `AppendFalse` say what one more literal changes;
`postUpdate` takes the last one away and the same lemmas are read backwards. This
needs that literals leave in the reverse order, which is a fact about the frames of
the recursion: each frame's mark cuts the trail where it began, and pushing,
popping or replacing a frame keeps the ones below (`Push`, `PopFrame`, `Replace`,
`SamePrefix`). `CollectedDistinct` says that no literal is collected twice.

*Residual.* `ComponentsExact` speaks of the call on top, but to know it after a
return the invariant must hold of every frame below. `Levels` says for each frame
that its variables are separated from the others by the clauses open under the
literals up to it (`Separates`), that unit propagation has nothing left to do under
those of a call, and that each component still to do is separated within its call.
`Marks` ties those literals to the trail. `WatchInv` says that each open clause has
a free watcher at every level the recursion has reached: `postUpdate` restores no
watcher, and none is needed since a literal that is free later was free before. In
`ArrayInv` the sizes on `stackSize` delimit prefixes of one permutation and each
prefix is the formula of its level; a loop only exchanges clauses within the prefix
it shortens (`LoopInv`), so that the prefixes below keep their sets. From this
`ComponentsCorrect` and, reading the stack off the sizes, the refinement follow:
`Split` is `Assume`, `Decide` and `NoDecision` are `Restrict`, `LeaveComponent` and
`Returned` are `Pop`, everything else is a stutter. A tautology is the one clause
that may have a variable no component has; `Propagated` speaks of two literals, and
those of a tautology may be of the same variable.

*Solver.* `WatchesSound` speaks of the quiet states; in between, a false watch is
excused while its clause waits to be visited, and after a conflict nothing is known
of the last level, which is why both analyses must leave it (`WatchInv`, `Checked`).
`ReasonInv` says that the literals of a reason are false before the literal it
implies, one of them on its level. From it follows that the loop of `analyze` keeps
a false clause that the formula implies with a literal of the conflict's level
(`WalkOk`), hence finds a first literal alone on that level, the decision at the
latest (`LastUip`), and that minimisation drops only literals the rest implies
(`MinimisedImplied`, by the least false literal a model satisfies). The clause is
then unit at the level gone back to and its second watch is of that level
(`Asserting`, `AssertCore`). `ImpliedInv` and `KeptInv` are the two inclusions of
`ClausesExact`; a clause given is never freed while it is not satisfied at the
root. What may be called when depends on the drivers (`ModeInv`), and they on the
first answer: if it is positive the trail is a model of the formula (`ModelFound`),
so that no conflict at the root can meet a driver in the middle of its recursion
(`SatInv`, `NoModel`). Comparisons of levels are stated over the positions where
levels begin and turned into the counts of the model by `LevelsCompare`.

`AnswersRight` needs a second invariant, over the calls that wait (`AnswerInv`). The
solver undoes levels and makes them again, with other reasons and in another order,
and the drivers rely on finding there what they read before. So the invariant does
not speak of one run of `propagate`: `Derived(n)` is what is in every consistent set
that holds the root and the first `n` assumptions and to which unit propagation adds
nothing. What is learnt only makes it larger, and clauses are forgotten only while
every level has its assumption (`Solver.cc:971`), so that what followed is on the
trail (`ReduceAnswers`). When all is propagated the literals
true at level `n` are such a set, hence just `Derived(n)` (`DerivedNow`), whatever
was undone before. `AssumedInv` says that the decision of a level made for an
assumption is that assumption, `HeldInv` that the units collected by the calls that
wait, and what was `known` when a call began, can still be derived, `AlignInv` how
many assumptions there are for the calls, and `CallInv` that the component decided
shares no clause with the variables outside it once the units are taken away. That
is why it can be decided alone (`ComponentDecided`): the trail on the component and,
elsewhere, the model that the earlier assumptions have (`OutcomeInv`) make a model
of the formula.

*Memory.* The blocks handed out and the free ones of every list lie inside pages
already begun and share no octet. The specification lets a client request and
release blocks in any order as long as what it releases was handed out with that
size; that the cache is such a client is the second half of `ImplementsStore`, and
is model-checked.

*Pipeline.* A count may be of a file that was cut off anywhere, so what makes the
bounds hold is the order in which files are opened and closed: `.p` is closed
before `.pup` is opened (`OutputInv`), hence a count of `.pup`, which needs the file
to be there, shows that the count before was of a complete `.p` (`CountInv`), and of
a `.pup` cut off any number is high enough. `BoundsInv` says that `gen.sh` only
reaches its bounds with both counts. `DoneInv` adds what "done" means: `wrap` says
so of a child it has waited for, whatever its exit status, and a program that
printed its count or opened its second file had written the ones before.
`PipelineInv` is the conjunction of these with the types and with what `wrap` knows
(`WrapperInv`). That the formula between the files is the one of the input is
`FilesAssumption`, an assumption on the input files: both readers find the same
formula in them whatever log is put before it. It stands for what the readers' folds
compute, which is induction over data; TLC evaluates it on the files of the run, and
`ReadersAgree` checks it on many more. For the shown variables (`ShownSeparates`) a
model of one part and a model of the other that agree on them are mixed part by
part, and no clause tells the mixture from a model, for every partition
(`Separated`).

Only model-checked are: the counts and decodings of the samplers, `SamplesRight`, the graphs, counts
and cache entries of the compiler, the refinements `ImplementsStore` and `ImplementsQueue`, and the properties
of the parts. All liveness stays with TLC too, being about fairness.

## Findings and observations

The three runs that expect a violation are findings: a doc or comment of the
repository says one thing and the program does another. What follows was met on
the way; it is kept in the models as built where a model reaches it.

*Projection tool and splitter.* The tool dies at `CNF.cpp:463`, and leaves no file, on
an input whose clauses resolve to the empty clause, as `{x,y}`, `{x,~y}`, `{~x,y}`,
`{~x,~y}` do when neither variable is kept. Such an input has no model
(`ProjectionExact`), and one whose contradiction is found by propagation, or among
variables that are kept, still gets its files. `get_reduced_mapping`, `get_clauses_by_vars`, the
union-find, subsumption, the renaming (`RENAME`) and the figures (`STATS`) have no
caller in the default build; `LitSet` is only used by tests. Its `resize` takes a
number of bits although its comment (`var.hpp:295`) speaks of twice the number of
literals, and two sets with the same literals are equal only if they have the same
size.

*Samplers.* `rsampler` with `k = 0` prints nothing, and its `k` is 1000 by default
(`rsampler.cpp:30`). `cppddnnf/README.md:115` names `t.cnf.log` for the sampler, which reads
`t.cnf.proj.log` (`pdac.cpp:11`). The position from which
`rhsampler` draws its skip is one larger when the reservoir has just been filled
(`rhsampler.cpp:157`, after `isol += 1`) than for the solutions after (`:169`), and
a leap can be of zero paths. With early stopping a thread of `appmc` counted after
the decision prints its estimate only if the bounds are close enough then too, so
that the last estimate of a thread need not be shown (`cppddnnf/README.md:83`). `lmc.cpp:85` truncates alpha to an integer. The zero
state of xoshiro, from which every result is the same, is what the default
constructor leaves; seeding from an 8-octet `random_device` result would shift by
64; only `xoshiro512plusplus` is used.

*Scripts.* `docker_compile_formula.sh` gives the projection 3600 s, which is also
the tool's own limit, and prints as "Exact lower and upper bounds" the count of a
`.p` that was cut off between two clauses: `Dimacs.hh:104` compares the count of
clauses with itself, so nothing warns. `gen.sh` asks for both counts and is not
affected. `wrap` reports "done" whatever the exit status, also when `execv` fails.
D4 prints its "s" line before it closes the `.pnnf`.

*D4, assertions.* In the build that `D4/d4/README.md` describes first (`make`), a "d"
query kills the compiler (`DAG.hh:131`), and a component whose cut is not empty while
none of its variables is left to count stops it at `dDnnfCompiler.hh:345`, where the
builds without assertions go on rightly with a true node. With `-drat`, a component
that units of the solver settle after it has lost levels stops it at `:591`.

*D4, counts.* With `-mc`, projected variables and a partitioner,
`computeDecisionNode` counts a component as one model when the cut has no
projected variable (`ModelCounter.hh:182`), although the component may still have
several; the compiler looks at the whole component (`dDnnfCompiler.hh:341`). The
same `return 1` drops the weights of units the solver knows. The instances of run
`compile` leave the combination out, since the count is then wrong. Counts ignore
query literals on variables that are not projected. `UnaryNode.hh:126` leaves
`saveDecision` unassigned, so that a decision query through a plain unary node
reads an undefined value in the builds that answer it: `AnswersExact` excepts such
graphs; the certified node assigns it.

*D4, cache.* `CacheBucket.hh:51-55` packs the width of the distribution in two
bits below `szData`, but the width can be 4: `szData` is then read one too large,
the block given back overlaps the next, and `BlocksDisjoint` fails. It takes 65536
clauses of one size; the assertion that would tell is compiled out. `Memory` and
`Cache` keep the fields as they are, and the instances of run `cache` use widths of
one and two octets. Entries are never removed from the cache.

*D4, start.* `maxSizeClause` (`CnfOccurrenceManager.hh:34`) is not initialised when
no clause is left (`CnfOccurrenceManager.cc:69` returns first) and then sizes a
table (`BucketManager.hh:94`). The counting driver keeps tautologies, and an early
return of `addClause_` leaves a clause half moved in place, so that "1 0",
"-1 2 -2 3 0" hands a clause with a repeated literal to the occurrence manager,
whose undo is not exact on such a clause. MOM and JW-TS index the clauses of the
solver by the numbers of the manager, which agree only without duplicate clauses
(compiler) or tautologies and satisfied clauses (counter). A phase of TRUE decides
the negative literal first.

*D4, partitioner.* A member of a class that a later unit assigns keeps the row
number of another variable, whose clauses are then merged too: the cut still
separates, but a row may hold more pins than were sized. The comment calls a clause
useless if another has exactly the same variables; the code also drops subsets.

*D4, containers.* `operator==` of `Vec` is inclusion one way; `removeElt` of an
absent element writes before the array. The lists of nodes grow by one block of
2^20 at a time. `debug()` of the occurrence manager never runs its last loop.

*Build and calls.* `gen.cpp` declares no header to ninja, so that after a header is
edited only the `clean` of `README.md:52` gives programs of one version.
`appmc "t.cnf" 1000 0.01` (`README.md:135`) names no option: `appmc` ends with
"cnf option not set".

*Command line.* `argv[1]` is read as the input even when no plain argument is left;
the output is emptied before the input is parsed; an integer option is truncated
before its range is checked; NaN passes every range.

## Not modelled

- *Text.* The characters the parsers skip, the wording of messages and of the help,
  statistics, the CSV files of the experiments.
- *D4's preprocessing.* `Preproc::run` returns at its first statement
  (`Preproc.cc:48`); backbone, occurrence elimination and vivification below it
  never run.
- *The log of a certificate.* The certified nodes and their marks are modelled; the
  lines of the proof log, clause numbers of a trace, are not.
- *Code without a caller or not compiled:* `exact_mc`; `greedyOccurrenceManager`,
  `formulaManager`, `RenamableHorn`, `InterpretationRefiner`, `HittingSet`,
  `ResidualNotPC`, `Queue.hh`, `Map.hh`, `EquivClauseSimplification`, `Forgetting`;
  the functions of `Solver` for phantoms, replacement of equivalent literals,
  backbone and at-most-one; `refineCutSet`, `VarBipartite`, `MinCut`;
  the cache with `COMPRESS` set to false.
- *External code.* PaToH is any partition, Boost's numbers are exact, `random_device`
  is any value.
- *Floating point.* Means, estimates and scores are integers or scaled integers;
  rounding is left out, except where a conversion truncates.
- *Large sizes.* The cache's widths of four octets are beyond any instance TLC can
  check.

What would extend the model most: a residual formula with repeated literals in
`Occurrence`, which would turn the remark on them into a run.
