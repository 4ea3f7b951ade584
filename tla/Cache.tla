------------------------------- MODULE Cache --------------------------------
(***************************************************************************)
(* The cache of D4: manager/BucketManager.hh, which sorts a sub-formula    *)
(* and writes it as octets, manager/CacheBucket.hh, its header, and        *)
(* manager/CacheCNFManager.hh, the lists it is looked up in.  The memory   *)
(* is that of module Memory.                                               *)
(*                                                                         *)
(* The caller is compile_ (or computeNbModel_): a call per component that  *)
(* was not found, which adds it when it returns; between them any literal  *)
(* is decided, and the components it leaves are looked up.                 *)
(***************************************************************************)
EXTENDS Memory, Literals, SequencesExt, Bitwise

CONSTANTS
  Formulas,     \* the formulas: clauses, a sequence; store, which clauses a key
                \* has; base, the values of an octet (256 in the program);
                \* decided, bound: the variables that may be decided
  HashOf(_),    \* the list a sequence of octets belongs to
  MaxSearches,  \* bound: the searches
  Nothing, NotFound

ASSUME FormulasAssumption ==
  \A f \in Formulas :
    /\ \A i \in DOMAIN f.clauses : f.clauses[i] # {} /\ f.clauses[i] \subseteq Lit
    /\ f.store \in {"ALL", "NB", "NT"} /\ f.base \in Nat \ {0, 1}
    /\ f.decided \subseteq Var

VARIABLES
  formula,
  octets,    \* octets[p][i]: the memory, with one octet behind each page
  entries,   \* all lists of the hash table, in the order of insertion
  frames,    \* the calls: the literals they have assigned, their component, and
             \* the bucket that was looked up
  probe,     \* the bucket being looked up, or Nothing
  answer,    \* of the last search: the value of the entry
  searches

vars == <<memory, formula, octets, entries, frames, probe, answer, searches>>

Top == Last(frames)

-----------------------------------------------------------------------------
(* The residual formula, of the occurrence manager. *)

Cls == DOMAIN formula.clauses
Clause(i) == formula.clauses[i]
NegAll(ls) == {Neg(l) : l \in ls}
VarsOf(ls) == {VarOf(l) : l \in ls}
Left(i, ls) == Clause(i) \ NegAll(ls)
Live(ls) == {i \in Cls : Clause(i) \cap ls = {}}

\* Unit propagation.
Propagated(ls) ==
  LET step(s) == s \cup UNION {Left(i, s) : i \in {j \in Live(s) : Cardinality(Left(j, s)) = 1}}
      after[n \in 0 .. NumVars] == IF n = 0 THEN ls ELSE step(after[n - 1])
  IN after[NumVars]

Consistent(ls) == ls \cap NegAll(ls) = {} /\ \A i \in Cls : Left(i, ls) # {}

Component(v, ls) ==
  LET step(s) == s \cup UNION {VarsOf(Left(i, ls)) : i \in {j \in Live(ls) : VarsOf(Left(j, ls)) \cap s # {}}}
      after[n \in 0 .. NumVars] == IF n = 0 THEN {v} ELSE step(after[n - 1])
  IN after[NumVars]

Components(vs, ls) ==
  {c \in {Component(v, ls) : v \in vs \ VarsOf(ls)} : Cardinality(c) > 1}

\* A clause with no false literal ("NT"), or a short one ("NB"), is left out.
Stored(i, ls) ==
  CASE formula.store = "ALL" -> TRUE
    [] formula.store = "NB"  -> Cardinality(Clause(i)) > 2
    [] formula.store = "NT"  -> Clause(i) \cap NegAll(ls) # {}

\* The sub-formula that a search is about.
Key(vs, ls) ==
  [vars |-> vs,
   clauses |-> {Left(i, ls) : i \in {j \in Live(ls) : VarsOf(Left(j, ls)) \subseteq vs /\ Stored(j, ls)}}]

-----------------------------------------------------------------------------
(* BucketManager: the clauses are sorted by refining intervals of equal    *)
(* ones, then written as octets.                                           *)

\* Variables, clauses or sizes, smallest first.
Sorted(s) ==
  SelectSeq([k \in 1 .. NumVars + Len(formula.clauses) + 1 |-> k - 1], LAMBDA k : k \in s)

\* The state of the sort: the clauses so far (distrib), the intervals of equal
\* ones, the interval that each was cut to in this round, that of each clause
\* (0: not seen), and the interval of this round.
Unsorted == [distrib |-> <<>>, intervals |-> <<>>, cut |-> <<>>, of |-> [i \in Cls |-> 0], own |-> 0]

\* A clause that is seen for the first time.
FirstSeen(s, l, i) ==
  LET n == Len(s.distrib)
      own == IF s.own = 0 THEN Len(s.intervals) + 1 ELSE s.own
      is == IF s.own = 0 THEN Append(s.intervals, [start |-> n, end |-> n]) ELSE s.intervals
  IN [distrib |-> Append(s.distrib, <<l>>),
      intervals |-> [is EXCEPT ![own].end = @ + 1],
      cut |-> IF s.own = 0 THEN Append(s.cut, own) ELSE s.cut,
      of |-> [s.of EXCEPT ![i] = own], own |-> own]

\* Mutant: an interval that was cut in this round is cut again.
FirstCutAlways(s, old) == TRUE
FirstCut(s, old) == s.cut[old] = old

\* It goes to the front of its interval, with those that have l as well.
SeenAgain(s, l, i) ==
  LET old == s.of[i]
      new == IF FirstCut(s, old) THEN Len(s.intervals) + 1 ELSE s.cut[old]
      start == s.intervals[old].start
      is == IF FirstCut(s, old) THEN Append(s.intervals, [start |-> start, end |-> start]) ELSE s.intervals
      cut == IF FirstCut(s, old) THEN [Append(s.cut, new) EXCEPT ![old] = new] ELSE s.cut
  IN [s EXCEPT !.distrib[is[new].end + 1] = Append(@, l),
               !.intervals = [is EXCEPT ![old].start = @ + 1, ![new].end = @ + 1],
               !.cut = cut, !.of[i] = new]

CreateDistrib(s, l, ls) ==
  LET indices == Sorted({i \in Live(ls) : l \in Clause(i) /\ Stored(i, ls)})
      place(t, i) == IF t.of[i] = 0 THEN FirstSeen(t, l, i) ELSE SeenAgain(t, l, i)
      after[n \in 0 .. Len(indices)] ==
        IF n = 0 THEN [s EXCEPT !.own = 0] ELSE place(after[n - 1], indices[n])
  IN [after[Len(indices)] EXCEPT !.cut = [k \in DOMAIN @ |-> k]]

\* collectDistrib: of each interval one clause is kept.
Distrib(vs, ls) ==
  LET order == Sorted(vs)
      sorted[n \in 0 .. 2 * Len(order)] ==
        IF n = 0 THEN Unsorted
        ELSE LET v == order[(n + 1) \div 2] IN
             CreateDistrib(sorted[n - 1], IF n % 2 = 1 THEN PosLit(v) ELSE NegLit(v), ls)
      s == sorted[2 * Len(order)]
      redundant(n) == \E k \in DOMAIN s.intervals :
                        s.intervals[k].start + 1 < n /\ n <= s.intervals[k].end
  IN [n \in DOMAIN s.distrib |-> IF redundant(n) THEN <<>> ELSE s.distrib[n]]

NbOctets[v \in Nat] ==
  IF v < formula.base THEN 1 ELSE IF v < formula.base ^ 2 THEN 2 ELSE 4

\* The number v on w octets.
OnOctets(v, w) == [k \in 1 .. w |-> (v \div formula.base ^ (k - 1)) % formula.base]
WriteAll(vs, w) == FlattenSeq([k \in DOMAIN vs |-> OnOctets(vs[k], w)])

\* A literal is written by the rank of its variable in the component.
Code(l, vs) == 2 * Cardinality({v \in vs : v < VarOf(l)}) + (l % 2)

\* The three widths, on two bits each, and the size, with an or.
Packed[nbOData \in Nat, nbOVar \in Nat, nbODistrib \in Nat, szData \in Nat] ==
  nbOData | (nbOVar * 4) | (nbODistrib * 16) | (szData * 64)

\* storeFormula: the octets and the header of a component.
StoreFormula(vs, ls) ==
  LET d == SelectSeq(Distrib(vs, ls), LAMBDA c : c # <<>>)
      count(n) == Cardinality({k \in DOMAIN d : Len(d[k]) = n})
      sizes == Sorted({Len(d[k]) : k \in DOMAIN d})
      byCount == [k \in DOMAIN sizes |-> <<count(sizes[k]), sizes[k]>>]
      bySize == FlattenSeq([k \in DOMAIN sizes |-> SelectSeq(d, LAMBDA c : Len(c) = sizes[k])])
      lits == FlattenSeq(bySize)
      nbOVar == NbOctets[Max(vs) + 1]
      nbOData == NbOctets[(Cardinality(vs) + 2) * 2]
      nbODistrib == NbOctets[Max({0} \cup ToSet(FlattenSeq(byCount)))]
      data == WriteAll(Sorted(vs), nbOVar)
                \o WriteAll(FlattenSeq(byCount), nbODistrib)
                \o WriteAll([k \in DOMAIN lits |-> Code(lits[k], vs)], nbOData)
  IN [data |-> data,
      header |-> [info1 |-> <<Cardinality(vs), Len(lits), Len(bySize)>>,
                  info2 |-> Packed[nbOData, nbOVar, nbODistrib, Len(data)]]]

SzData(header) == header.info2 \div 64

-----------------------------------------------------------------------------

Root == [lits |-> {}, vars |-> Var, bucket |-> Nothing]

Init ==
  /\ MemoryInit
  /\ formula \in Formulas
  /\ octets = [p \in 1 .. MaxPages |-> [i \in Size |-> 0]]
  /\ entries = <<>> /\ frames = <<Root>> /\ probe = Nothing
  /\ answer = NotFound /\ searches = 0

Written(a, data) ==
  [octets EXCEPT ![a.page] =
     [i \in Size |-> IF i \in a.pos .. a.pos + Len(data) - 1 THEN data[i - a.pos + 1] ELSE @[i]]]

\* What an access to size octets at a finds.
Read(a, size) == [k \in 1 .. size |-> octets[a.page][a.pos + k - 1]]

\* The block that GetArray has handed out.
Handed == (CHOOSE b \in live' : b \notin live).at

\* A literal is decided and propagated; one of the components it leaves is
\* written to memory (collectBuckect).
Collect ==
  /\ probe = Nothing /\ searches < MaxSearches
  /\ \E l \in {k \in Lit : VarOf(k) \in Top.vars \cap formula.decided} :
       LET all == Propagated(Top.lits \cup {l}) IN
       /\ Consistent(all)
       /\ \E vs \in Components(Top.vars, all) :
            \E f \in {StoreFormula(vs, all)} :
            /\ GetArray(Len(f.data))
            /\ octets' = Written(Handed, f.data)
            /\ probe' = [data |-> Handed, header |-> f.header, key |-> Key(vs, all),
                         call |-> [lits |-> all, vars |-> vs]]
  /\ searches' = searches + 1
  /\ UNCHANGED <<formula, entries, frames, answer>>

\* The list of the probe, and the entries that are equal to it, in octets.
ProbeHash == HashOf(Read(probe.data, SzData(probe.header)))
SameData(e) == Read(e.data, SzData(e.header)) = Read(probe.data, SzData(e.header))
Matches ==
  SelectSeq(entries, LAMBDA e : e.hash = ProbeHash /\ e.header = probe.header /\ SameData(e))

Call(bucket) == [lits |-> probe.call.lits, vars |-> probe.call.vars, bucket |-> bucket]

\* bucketAlreadyExist finds it: the octets of the probe are given back.
Hit ==
  /\ probe # Nothing /\ Matches # <<>>
  /\ ReleaseMemory(probe.data, SzData(probe.header))
  /\ answer' = Matches[1].val
  /\ \/ UNCHANGED frames
     \/ frames' = Append(frames, Call(Matches[1]))  \* the value has expired
  /\ probe' = Nothing
  /\ UNCHANGED <<formula, octets, entries, searches>>

Miss ==
  /\ probe # Nothing /\ Matches = <<>>
  /\ answer' = NotFound
  /\ frames' = Append(frames, Call([data |-> probe.data, header |-> probe.header,
                                    hash |-> ProbeHash, key |-> probe.key]))
  /\ probe' = Nothing
  /\ UNCHANGED <<memory, formula, octets, entries, searches>>

\* addInCache, when the component has been compiled.
AddInCache ==
  /\ probe = Nothing /\ Len(frames) > 1
  /\ LET b == Top.bucket IN
     entries' = Append(entries, [data |-> b.data, header |-> b.header, hash |-> b.hash,
                                 key |-> b.key, val |-> Len(entries) + 1])
  /\ frames' = Front(frames)
  /\ UNCHANGED <<memory, formula, octets, probe, answer, searches>>

Finished ==
  /\ probe = Nothing /\ Len(frames) = 1 /\ searches = MaxSearches
  /\ UNCHANGED vars

Next == Collect \/ Hit \/ Miss \/ AddInCache \/ Finished

Spec == Init /\ [][Next]_vars

-----------------------------------------------------------------------------

\* The calls use the memory as it has to be used: what they give back is a block
\* they were handed, with its size, although they know that size only from the
\* bit field of a header.
UsesMemory == MemorySpec

\* The map the cache stands for: the first entry of each sub-formula.
FirstOf(key) == CHOOSE i \in DOMAIN entries :
                  entries[i].key = key /\ \A j \in 1 .. i - 1 : entries[j].key # key
Stands == [key \in {entries[i].key : i \in DOMAIN entries} |-> entries[FirstOf(key)].val]

Abstract == INSTANCE CacheStore WITH
  store <- Stands, asked <- IF probe = Nothing THEN Nothing ELSE probe.key

\* Octets, hash lists and memory are a map from sub-formulas to values: two
\* components have the same octets and header exactly if they have the same
\* variables and the same clauses, in whatever order and from whatever clauses
\* of the formula, however often, they come, no later block overwrites them, and
\* the memory is used as it has to be.
ImplementsStore == Abstract!Spec /\ UsesMemory

=============================================================================
