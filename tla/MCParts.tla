------------------------------ MODULE MCParts ------------------------------
(***************************************************************************)
(* The parts of the programs that stand alone.  The run picks one of them  *)
(* at the start and takes its steps; where a part only computes, what it   *)
(* computes from grows instead, and each state is looked at.               *)
(***************************************************************************)
EXTENDS CnfTools, Toolchain

CONSTANTS Subjects, NaN, MostLines, MostClauses, MostBranches, MostAsked, MostWords, Device, MostDrawn, Sizes

VARIABLES
  subject,
  \* Arena
  formula, added, ok, memory, sz, wasted, cap, watches, dirty, trail, lims, reason,
  clauses, learnts, lemmas,
  \* OrderHeap
  heap, indices, activity, next,
  \* Arrays
  vectors, contents, unitLits, freeVariables, capUnitLits, capFreeVariables, branches,
  \* CommandLine, and the line before parsing
  argv, argc, i, j, values, status, shown, line,
  \* Containers
  c, set, held, id, size, cnt, asked,
  \* Partitioner
  piece, reduceFormula, equivSimp, pc, known, equivMarked, equivVar, tried, unitEquiv,
  inCurrentComponent, useLessVariable, mapVar, idxClauses, weightClause, occMap, vUse,
  partvec, cutVar,
  \* Startup
  driver, cnf, given, solver, sizes, manager, stage, file,
  \* what grows for a part without state: lines, clauses, literals or words
  data

arena == <<formula, added, ok, memory, sz, wasted, cap, watches, dirty, trail, lims, reason,
           clauses, learnts, lemmas>>
queue == <<heap, indices, activity, next>>
arrays == <<vectors, contents, unitLits, freeVariables, capUnitLits, capFreeVariables, branches>>
command == <<argv, argc, i, j, values, status, shown, line>>
forest == <<id, size, cnt, asked>>
literals == <<set, held>>
partition == <<piece, reduceFormula, equivSimp, pc, known, equivMarked, equivVar, tried,
               unitEquiv, inCurrentComponent, useLessVariable, mapVar, idxClauses, weightClause,
               occMap, vUse, partvec, cutVar>>
start == <<driver, cnf, given, solver, sizes, manager, stage, file>>

-----------------------------------------------------------------------------
(* The clause arena: a formula with what it implies and does not hold. *)

Proper(d) == d # {} /\ \A l \in d : Neg(l) \notin d
ProperClauses == {d \in SUBSET Lit : Proper(d)}
WithLemmas(cs) ==
  LET all == {ToSet(cs[n]) : n \in DOMAIN cs} IN
  [clauses |-> [n \in DOMAIN cs |-> ToSet(cs[n])],
   lemmas |-> {d \in ProperClauses : /\ \A m \in Models(all) : SatClause(m, d)
                                     /\ \A e \in all : ~ e \subseteq d}]
ArenaFormulas ==
  {WithLemmas(<<<<0, 2>>, <<3, 4>>, <<3, 5>>, <<1, 3, 4>>, <<1, 3, 5>>>>),
   WithLemmas(<<<<0, 2, 4>>, <<0, 2, 5>>, <<1, 3, 4>>, <<3, 5>>>>)}
A == INSTANCE Arena WITH Formulas <- ArenaFormulas, Header <- 3, MaxLearnts <- 1

(* The heap of variables. *)

H == INSTANCE OrderHeap WITH
       Item <- 0 .. 4, MaxActivity <- 2, Bumps <- {1, 2},
       Components <- {<<>>, <<4, 3, 2, 1, 0>>, <<0, 1, 2, 3, 4>>, <<2, 0, 3>>, <<1, 4>>}

(* The arrays. *)

R == INSTANCE Arrays WITH
       Element <- {1, 2}, IntMax <- 5, Block <- 3, Lists <- {<<>>, <<0>>, <<1, 0>>}

(* The readers. *)

FileLines ==
  {Line("header", <<2, 2>>), Line("comment", <<>>), Line("blank", <<>>)} \cup
  {Line("clause", nums) : nums \in
     {<<1, -2, 0>>, <<1, -2>>, <<0>>, <<2, 0>>, <<-1>>, <<1, 0, 2>>, <<2, Text>>,
      <<1, 0, 2, 0>>}}

(* The command line. *)

Option(category, type, name, value, first, last, closed) ==
  [category |-> category, type |-> type, name |-> name, value |-> value,
   first |-> first, last |-> last, closed |-> closed]
LineOptions ==
  <<Option(1, "double", "rnd-freq", 0, 0, 1, TRUE),
    Option(1, "double", "gc-frac", 1, 0, 3, FALSE),
    Option(2, "int", "optCache", 1, -4, 3, TRUE), Option(1, "int", "rfirst", 1, 1, 3, TRUE),
    Option(2, "bool", "optAnd", TRUE, 0, 0, TRUE), Option(2, "string", "cs", 5, 0, 0, TRUE)>>

Argument(dashes, no, name, eq, text) ==
  [dashes |-> dashes, no |-> no, name |-> name, eq |-> eq, text |-> text]
LineArguments ==
  {Argument(0, FALSE, "file", FALSE, 0), Argument(0, FALSE, "optAnd", FALSE, 0),
   Argument(1, FALSE, "optAnd", FALSE, 0), Argument(1, TRUE, "optAnd", FALSE, 0),
   Argument(1, FALSE, "optAnd", TRUE, 1), Argument(1, FALSE, "cs", TRUE, 7),
   Argument(1, FALSE, "rfirst", FALSE, 0), Argument(1, FALSE, "rnd-freq", TRUE, NaN),
   Argument(2, FALSE, "optCache", TRUE, 1), Argument(2, FALSE, "help", FALSE, 0),
   Argument(2, FALSE, "helpful", FALSE, 0), Argument(2, FALSE, "help-verb", TRUE, 0)} \cup
  {Argument(1, FALSE, o, TRUE, n) :
     o \in {"optCache", "rfirst"}, n \in {-2, 2, 5, 8, 20, -20}} \cup
  {Argument(1, FALSE, "gc-frac", TRUE, n) : n \in {0, 2, 3}} \cup
  {Argument(1, FALSE, "rnd-freq", TRUE, n) : n \in {0, 1, 2}}
L == INSTANCE CommandLine WITH
       Options <- LineOptions, Arguments <- LineArguments, MostArgs <- 3,
       HalfInt <- 4, HalfLong <- 16

(* The tools. *)

T == INSTANCE Containers WITH Object <- 0 .. 3, sz <- size

-----------------------------------------------------------------------------
(* The partitioner: components over six variables. *)

Six == INSTANCE Literals WITH NumVars <- 6

\* The clauses of the components of at most four variables, in their order.
Pool == << {0, 3}, {1, 2}, {0, 2}, {2, 5}, {3, 4}, {4, 6}, {5, 7},
           {0, 2, 4}, {2, 4, 6}, {0, 5, 7}, {1, 3, 6}, {0, 2, 4, 6} >>

\* A variable of the class found first is then assigned, and its row given to
\* another one.
Stale == << {1, 2}, {2, 5}, {0, 4}, {4, 6}, {4, 7} >>
More == << {0, 6, 8}, {1, 6, 10}, {0, 8, 10}, {6, 8}, {7, 8}, {6, 9, 10}, {1, 8}, {0, 10},
           {8, 10}, {9, 11}, {1, 7} >>

VarsOfClause(d) == {VarOf(l) : l \in d}
Connected(cs) ==
  \A part \in SUBSET cs : part # {} /\ part # cs =>
    \E d \in part, e \in cs \ part : VarsOfClause(d) \cap VarsOfClause(e) # {}
Picks(pool, first, n) ==
  {first \o SelectSeq(pool, LAMBDA d : d \in cs) :
     cs \in {x \in UNION {kSubset(k, ToSet(pool)) : k \in 2 .. n} :
              LET all == x \cup ToSet(first) IN Connected(all) /\ Six!Models(all) # {}}}
P == INSTANCE Partitioner WITH
       NumVars <- 6, Formulas <- Picks(Pool, <<>>, 4) \cup Picks(More, Stale, 2),
       ReduceFormula <- BOOLEAN, EquivSimp <- BOOLEAN,
       clauses <- piece, trail <- known, next <- tried

(* What the drivers do before their first call. *)

RawClauses ==
  {<<0>>, <<1>>, <<3, 3>>, <<0, 2>>, <<2, 0>>, <<1, 2, 3>>, <<1, 2, 3, 4>>, <<1, 4>>, <<0, 3, 5>>,
   <<2, 5>>, <<1, 3, 4>>}
I == INSTANCE Startup WITH
       Files <- UNION {[1 .. n -> RawClauses] : n \in 1 .. MostClauses},
       Garbage <- {0, 7}, LongClause <- 2

(* The build and the command lines of the tools. *)

FilesEdited ==
  {<<"src", "CNF">>, <<"src", "nnf">>, <<"header", "var">>}
ToolWords ==
  {Given(name, Nothing) : name \in {"help", "verbose", "k", "other"}} \cup
  {Given("cnf", File), Given("nb", Number(4)), Given("nb", Number(5)),
   Given("nb", File), Given("lnb", Number(20)), Given("timeout", Decimal(1)),
   Given("alpha", Decimal(1)), Given("k", Number(50)), Given("", File),
   Given("", Number(1000)), Given("", Decimal(1))}

(* What keeps nothing. *)

W == INSTANCE Utilities
G == INSTANCE Xoshiro
Draws == 2 * G!Engine512.size

-----------------------------------------------------------------------------
\* The part that was not picked has no state, where it would have many.
NoPartition ==
  /\ piece = 0 /\ reduceFormula = 0 /\ equivSimp = 0 /\ pc = 0 /\ known = 0 /\ equivMarked = 0
  /\ equivVar = 0 /\ tried = 0 /\ unitEquiv = 0 /\ inCurrentComponent = 0 /\ useLessVariable = 0
  /\ mapVar = 0 /\ idxClauses = 0 /\ weightClause = 0 /\ occMap = 0 /\ vUse = 0 /\ partvec = 0
  /\ cutVar = 0
NoStartup ==
  /\ driver = 0 /\ cnf = 0 /\ given = 0 /\ solver = 0 /\ sizes = 0 /\ manager = 0 /\ stage = 0
  /\ file = 0
NoBuild ==
  /\ build = 0 /\ target = 0 /\ stamp = 0 /\ made = 0 /\ cleaned = 0 /\ result = 0

MCStart ==
  /\ subject \in Subjects
  /\ A!Start /\ (subject # "arena" => formula = CHOOSE f \in ArenaFormulas : TRUE)
  /\ H!Start /\ R!AStart /\ L!LStart /\ line = <<>> /\ T!CStart /\ T!UStart
  /\ IF subject = "literals" THEN T!SStart ELSE set = 0 /\ held = 0
  /\ IF subject = "partition" THEN P!Init ELSE NoPartition
  /\ IF subject = "startup" THEN I!SStart ELSE NoStartup
  /\ IF subject = "build" THEN TStart ELSE NoBuild
  /\ data = IF subject = "utilities" THEN <<<<>>, <<>>>> ELSE <<>>

Only(part) ==
  /\ UNCHANGED subject
  /\ IF part = "arena" THEN TRUE ELSE UNCHANGED arena
  /\ IF part = "heap" THEN TRUE ELSE UNCHANGED queue
  /\ IF part = "arrays" THEN TRUE ELSE UNCHANGED arrays
  /\ IF part = "command" THEN TRUE ELSE UNCHANGED command
  /\ IF part = "vector" THEN TRUE ELSE UNCHANGED c
  /\ IF part = "union" THEN TRUE ELSE UNCHANGED forest
  /\ IF part = "literals" THEN TRUE ELSE UNCHANGED literals
  /\ IF part = "partition" THEN TRUE ELSE UNCHANGED partition
  /\ IF part = "startup" THEN TRUE ELSE UNCHANGED start
  /\ IF part = "build" THEN TRUE ELSE UNCHANGED tvars
  /\ IF part = "data" THEN TRUE ELSE UNCHANGED data

ArenaStep == subject = "arena" /\ A!ANext /\ Only("arena")
HeapStep == subject = "heap" /\ H!HNext /\ Only("heap")
VectorsStep == subject = "arrays" /\ branches = {} /\ R!VNext /\ Only("arrays")
BranchStep ==
  /\ subject = "arrays" /\ vectors = <<R!Empty, R!Empty>> /\ Cardinality(branches) < MostBranches
  /\ R!BNext /\ Only("arrays")
LineStep ==
  /\ subject = "command" /\ L!LNext
  /\ line' = IF status = "written" THEN argv' ELSE line
  /\ Only("command")
VectorStep == subject = "vector" /\ T!CNext /\ Only("vector")
UnionStep ==
  subject = "union" /\ T!UNext /\ Cardinality(asked') <= MostAsked /\ Only("union")
LiteralsStep == subject = "literals" /\ T!SNext /\ Only("literals")
PartitionStep == subject = "partition" /\ P!Next /\ Only("partition")
StartupStep == subject = "startup" /\ I!SNext /\ Only("startup")
BuildStep == subject = "build" /\ TNext /\ Only("build")
Call ==
  /\ subject = "calls" /\ Len(data) < MostWords
  /\ \E w \in ToolWords : data' = Append(data, w)
  /\ Only("data")
Write ==
  /\ subject = "readers" /\ Len(data) < MostLines
  /\ \E x \in FileLines : data' = Append(data, x)
  /\ Only("data")
AddToFormula ==
  /\ subject = "formula" /\ Len(data) < MostClauses
  /\ \E d \in ProperClauses : data' = Append(data, d)
  /\ Only("data")
AddLiteral ==
  /\ subject = "utilities"
  /\ \E n \in {1, 2} : /\ Len(data[n]) <= n
                       /\ \E l \in Lit : data' = [data EXCEPT ![n] = Append(@, l)]
  /\ Only("data")
\* All but MostDrawn of the draws are 0.
Draw ==
  /\ subject = "generator" /\ Len(data) < Draws
  /\ \E w \in Device : /\ Cardinality({n \in DOMAIN data : data[n] # {}}) < MostDrawn \/ w = {}
                       /\ data' = Append(data, w)
  /\ Only("data")

MCNext ==
  \/ ArenaStep \/ HeapStep \/ VectorsStep \/ BranchStep \/ LineStep \/ VectorStep \/ UnionStep
  \/ LiteralsStep \/ PartitionStep \/ StartupStep \/ BuildStep \/ Call \/ Write
  \/ AddToFormula \/ AddLiteral \/ Draw
MCSpec ==
  MCStart /\ [][MCNext]_<<subject, arena, queue, arrays, command, c, forest, literals,
                            partition, start, tvars, data>>

-----------------------------------------------------------------------------
(* What is checked of each subject, as its module states it. *)

\* No offset into the clause memory outlives the clause: not in a list of
\* watches, a reason or a table of clauses, through removals and collections.
ArenaSound == subject = "arena" => A!ArenaSound

\* The heap with its index and its activities is a queue that gives the most
\* active variable, and loses none.
ImplementsQueue == H!Queue!QSpec

\* Growing, shrinking, moving and sharing arrays keeps what is in them, and the
\* array of a heap and its index lead to one another.
ArraysRight ==
  /\ subject = "arrays" => R!ArraysRight
  /\ subject = "heap" => H!HeapSound

\* The projection tool and D4 read one formula from the same file.
ReadersAgree == subject = "readers" => SameFormula(data)

\* The options of D4 end with the value the line gives them, or the program stops;
\* those of the tools mean the same in any order, and a tool that sets to work has
\* all it asks for.
CommandRight ==
  /\ subject = "command" => L!CommandRight(line)
  /\ subject = "calls" => OptionsRight(data)

\* The small structures of the two tools answer as the sets they stand for, and
\* what ninja made of the tools is made from the files there are.
ToolsRight ==
  /\ subject = "build" => BuildRight
  /\ subject = "vector" => T!LookupsRight
  /\ subject = "union" => T!ForestSound
  /\ subject = "literals" => T!ContentsRight
  /\ subject = "formula" => /\ SubsumptionRight(CnfOf(data))
                            /\ RenamingRight(Simplified(CnfOf(data)))
                            /\ FiguresRight(Simplified(CnfOf(data)))

\* The cut of a reduced hypergraph cuts the component it was reduced from.
CutRight == subject = "partition" => P!CutRight

\* The solver, the sizes of the tables and the occurrence manager that the two
\* drivers build stand for the formula they were given, and the variable and
\* the phase chosen first are those the heuristic promises.
StartRight ==
  subject = "startup" => I!StartRight /\ I!TablesFit /\ I!ScoresRight

\* Literals in words, lists of literals, the sort and the restarts compute what
\* their names say.
UtilitiesRight == subject = "utilities" => W!UtilitiesRight(data[1], data[2])

\* A seeded generator depends on its draws alone, loses no state, and jumps as far
\* as it says.
GeneratorRight == subject = "generator" => G!GeneratorRight(data)

=============================================================================
