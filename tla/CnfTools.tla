------------------------------ MODULE CnfTools ------------------------------
(***************************************************************************)
(* What else the C++ tools do: they read a formula and compute from the    *)
(* object made of it.  The splitter (splitter/src) simplifies its own copy *)
(* of it, gives the hypergraph of the clauses to PaToH and shows the       *)
(* variables of the clauses that lie in more than one part.  Either tool   *)
(* has subsumption, the formula renamed to the variables it has left, free *)
(* variables, and the figures about clauses of each length.                *)
(***************************************************************************)
EXTENDS Cnf, SequencesExt, FiniteSetsExt

CONSTANTS
  NbParts,        \* --nb of the splitter, 2 by default
  Text            \* what stands in a line of clauses for text that is no number

ASSUME NbPartsAssumption == NbParts \in Nat \ {0}

VarsIn(c) == {VarOf(l) : l \in c}
ActiveVars(f) == UNION {VarsIn(f.clauses[i]) : i \in f.active}
InOrder(f) == SelectSeq([n \in 1 .. f.size |-> n - 1], LAMBDA i : i \in f.active)

-----------------------------------------------------------------------------
(* The readers.  The splitter and the projection tool read a file line by    *)
(* line with streams (CNF.cpp), D4 reads it number by number whatever the    *)
(* lines (Dimacs.hh); the scripts give the same file to both.  A file is a   *)
(* sequence of lines, a line its kind and its numbers: the words of other    *)
(* lines and the white space are left out.                                   *)

Line(kind, nums) == [kind |-> kind, nums |-> nums]

\* Literal(int) and Variable(int)
LitOf(n)  == IF n > 0 THEN PosLit(n - 1) ELSE NegLit(-n - 1)
VarOfInt(n) == IF n > 0 THEN n - 1 ELSE -n - 1

-----------------------------------------------------------------------------
(* CNF::CNF(path) *)

UpToWord(nums) == SelectInSeq(nums, LAMBDA n : n = Text)

\* Mutant: the failed extraction leaves a zero.
ExtractedThenZero(nums) == IF UpToWord(nums) = 0 THEN Append(nums, 0) ELSE Append(SubSeq(nums, 1, UpToWord(nums) - 1), 0)

\* The values v takes in "while(iss) { iss >> v; ... }".  Text makes the
\* extraction fail and stores zero.  At the end of the line the stream is
\* only found empty by one more extraction, which stores nothing: v, never
\* initialised, is still the number before.
Extracted(nums) ==
  IF UpToWord(nums) = 0 THEN Append(nums, nums[Len(nums)])
  ELSE Append(SubSeq(nums, 1, UpToWord(nums) - 1), 0)

Numbers(line) == ToSet(Extracted(line.nums)) \ {0}

\* missing_trailing_zero starts FALSE.
NothingRead == [vars |-> {}, prj |-> {}, clauses |-> <<>>, missing |-> FALSE]

ReadClauseLine(acc, line) ==
  LET c == {LitOf(n) : n \in Numbers(line)} IN
  [acc EXCEPT
     !.clauses = IF c # {} \/ ~ acc.missing THEN Append(@, c) ELSE @,
     !.missing = 0 \notin ToSet(Extracted(line.nums))]

\* What one line adds.  A "c p show" line with no number at all is trimmed to
\* a comment; the splitter ignores the line altogether.
ReadLine(acc, line) ==
  CASE line.kind = "header" -> [acc EXCEPT !.vars = @ \cup 0 .. line.nums[1] - 1]
    [] line.kind = "show" /\ line.nums # <<>> ->
         [acc EXCEPT !.prj = @ \cup {VarOfInt(n) : n \in Numbers(line)}]
    [] line.kind = "clause" -> ReadClauseLine(acc, line)
    [] OTHER -> acc

Read(file) == FoldLeft(ReadLine, NothingRead, file)

\* idx has two lists for each variable of the header: a literal beyond it is
\* out of the vector, and the program is stopped by the memory it touches.
Readable(file) ==
  \A i \in 1 .. Len(file) :
    file[i].kind = "clause" =>
      \A n \in Numbers(file[i]) :
        VarOfInt(n) \in Read(SubSeq(file, 1, i - 1)).vars

-----------------------------------------------------------------------------
(* parse_DIMACS_main *)

\* cur: the literals of the clause being read; ok: exit(3) was not reached.
NothingParsed == [vars |-> 0, clauses |-> <<>>, open |-> FALSE, cur |-> {}, ok |-> TRUE]

ParseInt(acc, n) ==
  CASE n = Text -> [acc EXCEPT !.ok = FALSE]
    [] n = 0 -> [acc EXCEPT !.clauses = Append(@, acc.cur), !.cur = {}, !.open = FALSE]
    [] OTHER -> [acc EXCEPT !.cur = @ \cup {LitOf(n)}, !.open = TRUE]

\* A clause goes on over the end of a line; only where one may start are the
\* lines of text looked for.
ParseLine(acc, line) ==
  CASE line.kind = "clause" -> FoldLeft(ParseInt, acc, line.nums)
    [] line.kind = "blank" -> acc
    [] acc.open -> [acc EXCEPT !.ok = FALSE]
    [] line.kind = "header" -> [acc EXCEPT !.vars = line.nums[1]]
    [] OTHER -> acc

\* The number of clauses of the header is compared with nothing.
Parse(file) ==
  LET acc == FoldLeft(ParseLine, NothingParsed, file)
  IN [acc EXCEPT !.ok = @ /\ ~ acc.open]

-----------------------------------------------------------------------------
(* The files both readers are meant for: a line ends at most one clause, and *)
(* a clause that is not ended on its line is ended by a zero on the next one. *)

IsZero(line) == line.kind = "clause" /\ line.nums = <<0>>
ClauseLines(file) == SelectSeq(file, LAMBDA line : line.kind = "clause")
OneClauseALine(file) ==
  LET ls == ClauseLines(file) IN
  \A i \in 1 .. Len(ls) :
    /\ 0 \notin ToSet(Front(ls[i].nums))
    /\ Last(ls[i].nums) # 0 => i < Len(ls) /\ IsZero(ls[i + 1])

-----------------------------------------------------------------------------
(* The splitter *)

Sorted(S) == SetToSortSeq(S, <)

\* CNF::simplify: no search for tautologies in this copy.
Round(f) == FoldLeft(Propagate, CollectUnits(f), Sorted(UnitLits(f)))

\* Rounds until none finds a unit clause; each takes an active clause away.
Simplified(f) ==
  FoldLeft(LAMBDA g, n : IF UnitIds(g) = {} THEN g ELSE Round(g), f, [n \in 1 .. f.size |-> n])

\* split(): what PaToH returns for the hypergraph with a net for each active
\* clause of two literals or more; nothing below rests on the cut being small.
Partitions == [Var -> 0 .. NbParts - 1]

Crosses(f, p, i) == Cardinality({p[x] : x \in VarsIn(f.clauses[i])}) > 1

\* The variables of the "c p show" line.
Shown(f, p) == UNION {VarsIn(f.clauses[i]) : i \in {j \in f.active : Crosses(f, p, j)}}

(* Below an assignment of the shown variables, what one model says of a     *)
(* part goes with what another says of the rest.                            *)
Mixed(m, n, p, k) == {x \in Var : IF p[x] = k THEN x \in m ELSE x \in n}
Separated(ms, shown, p) ==
  \A m, n \in ms : m \cap shown = n \cap shown =>
    \A k \in 0 .. NbParts - 1 : Mixed(m, n, p, k) \in ms

-----------------------------------------------------------------------------
(* CNF::subsumption *)

\* Those of the list ids that are active when the loop comes to them.
SubsumedBy(f, i, ids) ==
  {k \in (ids \cap f.active) \ {i} : f.clauses[i] \subseteq f.clauses[k]}

\* The clauses leave the lists but their slots are not kept for others.
Dropped(f, ids) ==
  [f EXCEPT !.active = @ \ ids, !.nbActive = Sub(@, Cardinality(ids)),
            !.idx = [l \in Lit |-> @[l] \ {i \in ids : l \in f.clauses[i]}]]

\* The projection tool looks in one list, a shortest: the clause is not empty.
SubsumeFrom(f, i) ==
  IF i \in f.active THEN Dropped(f, SubsumedBy(f, i, f.idx[Pivot(f, f.clauses[i])]))
  ELSE f
Subsumption(f) == FoldLeft(SubsumeFrom, f, [n \in 1 .. f.size |-> n - 1])

\* The splitter looks in the list of each literal.
SubsumeFromAll(f, i) ==
  FoldLeft(LAMBDA g, l : Dropped(g, SubsumedBy(g, i, g.idx[l])),
           f, IF i \in f.active THEN SetToSortSeq(f.clauses[i], <) ELSE <<>>)
SplitterSubsumption(f) == FoldLeft(SubsumeFromAll, f, [n \in 1 .. f.size |-> n - 1])

-----------------------------------------------------------------------------
(* CNF::rename_vars *)

LongClauses(f) == SelectSeq(InOrder(f), LAMBDA i : Cardinality(f.clauses[i]) > 1)

\* Mutant: a variable met before gets a new number.
MetAgain(order, l) == Append(order, VarOf(l))

\* The variables in the order they are met; the first gets number 1.
Met(order, l) == IF VarOf(l) \in ToSet(order) THEN order ELSE Append(order, VarOf(l))
MeetingOrder(f) ==
  FoldLeft(LAMBDA order, i : FoldLeft(Met, order, SetToSortSeq(f.clauses[i], <)),
           <<>>, LongClauses(f))

NewIndex(f, v) == SelectInSeq(MeetingOrder(f), LAMBDA x : x = v) - 1
NewLiteral(f, l) ==
  IF l % 2 = 0 THEN PosLit(NewIndex(f, VarOf(l))) ELSE NegLit(NewIndex(f, VarOf(l)))

\* CNF(nbv): an object with nbv variables and no clause.
EmptyObject == CnfOf(<<>>)
RenameVars(f) ==
  FoldLeft(LAMBDA g, i : AddClause(g, {NewLiteral(f, l) : l \in f.clauses[i]}),
           EmptyObject, LongClauses(f))

-----------------------------------------------------------------------------
(* What print_stats shows *)

FreeVars(f) == Var \ (ActiveVars(f) \cup VarsIn(f.units))
OfLength(f, n) == {i \in f.active : Cardinality(f.clauses[i]) = n}

\* Both vectors grow to the longest clause; entry 1 is about the units alone.
Longest(f) == Max({1} \cup {Cardinality(f.clauses[i]) : i \in f.active})
NbByClauseLen(f) ==
  [n \in 0 .. Longest(f) |->
     Cardinality(OfLength(f, n)) + (IF n = 1 THEN Cardinality(f.units) ELSE 0)]
VarsByClauseLen(f) ==
  [n \in 0 .. Longest(f) |->
     CASE n = 0 -> ActiveVars(f)
       [] n = 1 -> VarsIn(f.units) \cup UNION {VarsIn(f.clauses[i]) : i \in OfLength(f, 1)}
       [] OTHER -> UNION {VarsIn(f.clauses[i]) : i \in OfLength(f, n)}]

OccurrenceCount(f, v) ==
  Cardinality(f.idx[PosLit(v)]) + Cardinality(f.idx[NegLit(v)])

ComputeIdx(f) ==
  [f EXCEPT !.idx = [l \in Lit |-> {i \in f.active : l \in f.clauses[i]}]]

-----------------------------------------------------------------------------
(* What the splitter offers besides *)

\* The active variables numbered from 0 in their order.
ReducedMapping(f) ==
  [v \in ActiveVars(f) |-> Cardinality({w \in ActiveVars(f) : w < v})]

-----------------------------------------------------------------------------
(* Properties *)

\* The splitter and the projection tool give D4 and each other the formula they
\* read: on those files, both readers find the same clauses, however the rest of
\* the file looks and although one of them reads v after a failed extraction.
SameFormula(file) ==
  OneClauseALine(file) /\ Parse(file).ok =>
    Read(file).clauses = Parse(file).clauses

(* Of an object f made from a file and simplified. *)

ClauseSet(f) == {f.clauses[i] : i \in f.active}
Irredundant(f) ==
  \A i, k \in f.active : i # k => ~ f.clauses[i] \subseteq f.clauses[k]

\* Both copies of subsumption keep the models and the object in order, and
\* leave no clause that another one subsumes, although they change the lists
\* they look in and one of them looks in a single list.
SubsumptionRight(f) ==
  (\A i \in f.active : f.clauses[i] # {}) =>
    \A g \in {Subsumption(f), SplitterSubsumption(f)} :
      /\ Models(Content(g)) = Models(Content(f))
      /\ WellFormed(g, {}) /\ Irredundant(g)
      /\ g.idx = ComputeIdx(g).idx

\* The models of cs over the first n variables.
CountOver(cs, n) == Cardinality({m \in SUBSET (0 .. n - 1) : \A d \in cs : SatClause(m, d)})

\* The renamed formula has as many models over its variables, numbered without
\* a gap, as the clauses it renames: together with the units and the free
\* variables, whose powers of two they do not carry, this is the count.
RenamingRight(f) ==
  LET g == RenameVars(f)
      n == Len(MeetingOrder(f))
  IN (\A i \in f.active : Cardinality(f.clauses[i]) > 1) =>
       /\ ActiveVars(g) = 0 .. n - 1
       /\ g.nbActive = f.nbActive
       /\ Cardinality(Models(Content(f)))
            = (IF \E l \in f.units : Neg(l) \in f.units THEN 0
               ELSE CountOver(ClauseSet(g), n) * 2 ^ Cardinality(FreeVars(f)))

\* Each clause and each variable is in one line of the figures, which agree with
\* the lists of occurrences.
FiguresRight(f) ==
  LET nb == NbByClauseLen(f)
      vars == VarsByClauseLen(f)
  IN (\A i \in f.active : Cardinality(f.clauses[i]) > 1) =>
       /\ FoldFunction(LAMBDA a, b : a + b, 0, nb) = f.nbActive + Cardinality(f.units)
       /\ Var \ FreeVars(f) = vars[0] \cup vars[1]
       /\ vars[0] = {v \in Var : OccurrenceCount(f, v) > 0}
       /\ vars[0] = UNION {vars[n] : n \in 2 .. Longest(f)}
       /\ \A v \in vars[0], w \in vars[0] : v < w => ReducedMapping(f)[v] < ReducedMapping(f)[w]

=============================================================================
