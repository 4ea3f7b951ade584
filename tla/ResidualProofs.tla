--------------------------- MODULE ResidualProofs ---------------------------
(***************************************************************************)
(* Proofs about Occurrence, for every formula: the arrays of the manager   *)
(* hold the clauses of the component that is compiled and no other, and    *)
(* they implement the stack of residual formulas of Residual.              *)
(***************************************************************************)
EXTENDS OccurrenceProofs

(***************************************************************************)
(* The inductive invariant, on top of Inv.                                 *)
(***************************************************************************)

\* The literals that a set of literals leaves free in a clause, their
\* variables, and the clauses it does not satisfy.
FreeLits(c, ls) == {k \in clauses[c] : {k, Neg(k)} \cap ls = {}}
FreeVars(c, ls) == {VarOf(l) : l \in FreeLits(c, ls)}
OpenIn(ls) == {c \in Ids : clauses[c] \cap ls = {}}

\* No clause joins a variable of vs and one that is not.
Separates(vs, ls) ==
  \A c \in OpenIn(ls) : FreeVars(c, ls) \subseteq vs \/ FreeVars(c, ls) \cap vs = {}
LiveIn(vs, ls) == {c \in OpenIn(ls) : FreeVars(c, ls) \subseteq vs}

\* The literals that a frame and the first frames of a stack assign.
FrameLits(f) == IF f.kind = "call" THEN {f.lits[n] : n \in DOMAIN f.lits} ELSE {}
LitsIn(fr, d) == UNION {FrameLits(fr[j]) : j \in 1 .. d}

\* What a frame that assigns the literals of ls in all says of the formula.
LevelOK(f, ls) ==
  /\ Separates(f.vars, ls)
  /\ f.kind = "call" =>
       /\ Propagated(ls)
       /\ \A s \in f.todo : s \subseteq f.vars /\ Separates(s, ls)
Inside(f, g) == g.vars \subseteq f.vars /\ (g.kind = "call" => g.vars = f.vars)
Levels(fr) ==
  /\ \A d \in 1 .. Len(fr) : LevelOK(fr[d], LitsIn(fr, d))
  /\ \A d \in 1 .. Len(fr) - 1 : Inside(fr[d], fr[d + 1])
Marks(fr, t) ==
  \A d \in 1 .. Len(fr) : LitsIn(fr, d - 1) = {t[j] : j \in 1 .. fr[d].mark}

FramesInv == Levels(frames) /\ Marks(frames, trail) /\ idxComponent = {}

\* Each open clause has a free watcher, at every level that is reached.
Reviewed == Len(frames) - (IF pc = "assign" THEN 1 ELSE 0)
WatchInv ==
  /\ watcher \in [Ids -> Lit] /\ \A c \in Ids : watcher[c] \in clauses[c]
  /\ \A d \in 1 .. Reviewed : \A c \in OpenIn(LitsIn(frames, d)) :
       watcher[c] \in FreeLits(c, LitsIn(frames, d))
  /\ reviewWatcher \subseteq Ids
  /\ pc = "assign" =>
       \A c \in OpenIn(currentValue) : watcher[c] \in FreeLits(c, currentValue) \/ c \in reviewWatcher

\* The sizes that are stacked delimit prefixes of one permutation.
Prefix(n) == {currentIdx[j] : j \in 1 .. n}
LiveAt(d) == LiveIn(frames[d].vars, LitsIn(frames, d))
Sizes == 0 .. Len(clauses)
ArrayInv ==
  /\ currentIdx \in [Ids -> Ids]
  /\ \A j, k \in Ids : currentIdx[j] = currentIdx[k] => j = k
  /\ currentSize \in Sizes /\ stackSize \in Seq(Sizes)
  /\ Len(stackSize) = Len(frames) - (IF pc = "assign" THEN 2 ELSE 1)
  /\ \A d \in 1 .. Len(stackSize) : currentSize <= stackSize[d]
  /\ \A d, e \in 1 .. Len(stackSize) : d < e => stackSize[e] <= stackSize[d]
  /\ \A d \in 1 .. Depth : Prefix(SizeAt(d)) = LiveAt(d)

\* The loops that drop clauses from the set of the level below.
Kept(c) == IF pc = "keep" THEN nbSat[c] = 0 ELSE InComponent(c)
LoopInv ==
  pc \in {"keep", "restrict"} =>
    /\ i >= 1 /\ Len(frames) > 1
    /\ Prefix(currentSize) \subseteq LiveAt(Len(frames) - 1)
    /\ \A c \in LiveAt(Len(frames) - 1) : Kept(c) => c \in Prefix(currentSize)
    /\ \A j \in 1 .. currentSize : j < i => Kept(currentIdx[j])

ResidualInv == FramesInv /\ WatchInv /\ ArrayInv /\ LoopInv

(***************************************************************************)
(* What literals leave of a formula.                                       *)
(***************************************************************************)

\* More literals leave fewer clauses and fewer variables.
LEMMA FreeShrinks ==
  ASSUME NEW ls, NEW ms, ls \subseteq ms
  PROVE  /\ OpenIn(ms) \subseteq OpenIn(ls)
         /\ \A c : FreeLits(c, ms) \subseteq FreeLits(c, ls)
         /\ \A c : FreeVars(c, ms) \subseteq FreeVars(c, ls)
<1>1. OpenIn(ms) \subseteq OpenIn(ls)
  BY DEF OpenIn
<1>2. \A c : FreeLits(c, ms) \subseteq FreeLits(c, ls)
  BY DEF FreeLits
<1>3. \A c : FreeVars(c, ms) \subseteq FreeVars(c, ls)
  BY <1>2 DEF FreeVars
<1> QED
  BY <1>1, <1>2, <1>3

LEMMA SeparatesMore ==
  ASSUME NEW vs, NEW ls, NEW ms, ls \subseteq ms, Separates(vs, ls)
  PROVE  Separates(vs, ms)
<1> SUFFICES ASSUME NEW c \in OpenIn(ms)
             PROVE  FreeVars(c, ms) \subseteq vs \/ FreeVars(c, ms) \cap vs = {}
  BY DEF Separates
<1>1. c \in OpenIn(ls) /\ FreeVars(c, ms) \subseteq FreeVars(c, ls)
  BY FreeShrinks
<1> QED
  BY <1>1 DEF Separates

\* Unit propagation leaves two literals in a clause that is open.
LEMMA TwoFree ==
  ASSUME NEW ls, Propagated(ls), NEW c \in OpenIn(ls), clauses \in Seq(SUBSET Lit)
  PROVE  \E k, l \in FreeLits(c, ls) : k # l
<1>1. c \in DOMAIN clauses /\ clauses[c] \cap ls = {}
  BY DEF OpenIn, Ids
<1>2. PICK k \in clauses[c], l \in clauses[c] : k # l /\ Neg(k) \notin ls /\ Neg(l) \notin ls
  BY <1>1 DEF Propagated
<1>3. k \in FreeLits(c, ls) /\ l \in FreeLits(c, ls)
  BY <1>1, <1>2 DEF FreeLits
<1> QED
  BY <1>2, <1>3

\* The values are the literals that are assigned.
LEMMA FreeNow ==
  /\ \A l : Undef(l) <=> {l, Neg(l)} \cap currentValue = {}
  /\ \A c : {l \in clauses[c] : Undef(l)} = FreeLits(c, currentValue)
  /\ \A c : UndefVars(c) = FreeVars(c, currentValue)
<1>1. \A l : Undef(l) <=> {l, Neg(l)} \cap currentValue = {}
  BY DEF Undef
<1>2. \A c : {l \in clauses[c] : Undef(l)} = FreeLits(c, currentValue)
  BY <1>1 DEF FreeLits
<1>3. \A c : UndefVars(c) = FreeVars(c, currentValue)
  BY <1>2 DEF UndefVars, FreeVars
<1> QED
  BY <1>1, <1>2, <1>3

\* A clause that unit propagation left with two literals is inside a set that
\* separates if one of its variables was.
LEMMA InsideSet ==
  ASSUME NEW vs, NEW ls, NEW ms, ls \subseteq ms, Separates(vs, ls), Propagated(ms),
         clauses \in Seq(SUBSET Lit)
  PROVE  LiveIn(vs, ms) = {c \in LiveIn(vs, ls) : clauses[c] \cap ms = {}}
<1>1. ASSUME NEW c \in LiveIn(vs, ms)
      PROVE  c \in LiveIn(vs, ls) /\ clauses[c] \cap ms = {}
  <2>1. c \in OpenIn(ms) /\ FreeVars(c, ms) \subseteq vs
    BY <1>1 DEF LiveIn
  <2>2. PICK k \in FreeLits(c, ms) : TRUE
    BY <2>1, TwoFree
  <2>3. VarOf(k) \in FreeVars(c, ms) /\ VarOf(k) \in FreeVars(c, ls) /\ c \in OpenIn(ls)
    BY <2>1, <2>2, FreeShrinks DEF FreeVars
  <2>4. FreeVars(c, ls) \subseteq vs
    BY <2>1, <2>3 DEF Separates
  <2> QED
    BY <2>1, <2>3, <2>4 DEF LiveIn, OpenIn
<1>2. ASSUME NEW c \in LiveIn(vs, ls), clauses[c] \cap ms = {}
      PROVE  c \in LiveIn(vs, ms)
  <2>1. c \in OpenIn(ms) /\ FreeVars(c, ms) \subseteq FreeVars(c, ls)
    BY <1>2, FreeShrinks DEF LiveIn, OpenIn
  <2> QED
    BY <2>1 DEF LiveIn
<1> QED
  BY <1>1, <1>2

(***************************************************************************)
(* The literals of a stack of frames.                                      *)
(***************************************************************************)

LEMMA LitsZero == ASSUME NEW fr PROVE LitsIn(fr, 0) = {}
  BY DEF LitsIn

LEMMA LitsNext ==
  ASSUME NEW fr, NEW d \in Nat
  PROVE  LitsIn(fr, d + 1) = LitsIn(fr, d) \cup FrameLits(fr[d + 1])
<1>1. 1 .. d + 1 = (1 .. d) \cup {d + 1}
  OBVIOUS
<1> QED
  BY <1>1 DEF LitsIn

LEMMA LitsSame ==
  ASSUME NEW fr, NEW gr, NEW d \in Nat, \A j \in 1 .. d : FrameLits(gr[j]) = FrameLits(fr[j])
  PROVE  LitsIn(gr, d) = LitsIn(fr, d)
  BY DEF LitsIn

LEMMA LitsGrow ==
  ASSUME NEW fr, NEW d \in Nat, NEW e \in Nat, d <= e
  PROVE  LitsIn(fr, d) \subseteq LitsIn(fr, e)
<1>1. 1 .. d \subseteq 1 .. e
  OBVIOUS
<1> QED
  BY <1>1 DEF LitsIn

LEMMA FrameLitsType ==
  ASSUME NEW f \in Frame
  PROVE  FrameLits(f) \subseteq Lit
  BY FrameType DEF FrameLits

(***************************************************************************)
(* Levels, when a frame is pushed, changed or popped.                      *)
(***************************************************************************)

LEMMA LevelsPush ==
  ASSUME NEW fr \in Seq(Frame), NEW g \in Frame, fr # <<>>, Levels(fr),
         LevelOK(g, LitsIn(fr, Len(fr)) \cup FrameLits(g)), Inside(fr[Len(fr)], g)
  PROVE  Levels(Append(fr, g))
<1> DEFINE n == Len(fr)
           h == Append(fr, g)
<1>1. /\ n \in Nat /\ n > 0 /\ Len(h) = n + 1
      /\ \A j \in 1 .. n : h[j] = fr[j]
      /\ h[n + 1] = g
  BY AppendProperties
<1> HIDE DEF h
<1>2. \A d \in 0 .. n : LitsIn(h, d) = LitsIn(fr, d)
  <2> SUFFICES ASSUME NEW d \in 0 .. n PROVE LitsIn(h, d) = LitsIn(fr, d)
    OBVIOUS
  <2>1. \A j \in 1 .. d : FrameLits(h[j]) = FrameLits(fr[j])
    BY <1>1
  <2> QED
    BY <1>1, <2>1, LitsSame
<1>3. LitsIn(h, n + 1) = LitsIn(fr, n) \cup FrameLits(g)
  BY <1>1, <1>2, LitsNext
<1>4. ASSUME NEW d \in 1 .. n + 1 PROVE LevelOK(h[d], LitsIn(h, d))
  <2>1. CASE d \in 1 .. n
    <3>1. LevelOK(fr[d], LitsIn(fr, d))
      BY <2>1 DEF Levels
    <3>2. h[d] = fr[d] /\ LitsIn(h, d) = LitsIn(fr, d)
      BY <1>1, <1>2, <2>1
    <3> QED
      BY <3>1, <3>2
  <2>2. CASE d = n + 1
    BY <1>1, <1>3, <2>2
  <2> QED
    BY <1>1, <2>1, <2>2
<1>5. ASSUME NEW d \in 1 .. n PROVE Inside(h[d], h[d + 1])
  <2>1. CASE d \in 1 .. n - 1
    <3>1. d \in 1 .. n /\ d + 1 \in 1 .. n
      BY <1>1, <2>1
    <3>2. h[d] = fr[d] /\ h[d + 1] = fr[d + 1]
      BY <1>1, <3>1
    <3>3. Inside(fr[d], fr[d + 1])
      BY <2>1 DEF Levels
    <3> QED
      BY <3>2, <3>3
  <2>2. CASE d = n
    BY <1>1, <2>2
  <2> QED
    BY <1>1, <2>1, <2>2
<1>6. Levels(h)
  BY <1>1, <1>4, <1>5 DEF Levels
<1> QED
  BY <1>6 DEF h

\* A frame that takes the place of one with its literals and variables.
LEMMA LevelsReplace ==
  ASSUME NEW fr \in Seq(Frame), NEW g \in Frame, fr # <<>>, Levels(fr),
         FrameLits(g) = FrameLits(fr[Len(fr)]), g.vars = fr[Len(fr)].vars,
         g.kind = fr[Len(fr)].kind, LevelOK(g, LitsIn(fr, Len(fr)))
  PROVE  /\ Levels([fr EXCEPT ![Len(fr)] = g])
         /\ \A d \in 0 .. Len(fr) : LitsIn([fr EXCEPT ![Len(fr)] = g], d) = LitsIn(fr, d)
<1> DEFINE n == Len(fr)
           h == [fr EXCEPT ![n] = g]
<1>1. /\ n \in Nat /\ n > 0 /\ Len(h) = n
      /\ \A j \in 1 .. n : j # n => h[j] = fr[j]
      /\ h[n] = g
  OBVIOUS
<1> HIDE DEF h
<1>2. \A d \in 0 .. n : LitsIn(h, d) = LitsIn(fr, d)
  <2> SUFFICES ASSUME NEW d \in 0 .. n PROVE LitsIn(h, d) = LitsIn(fr, d)
    OBVIOUS
  <2>1. \A j \in 1 .. d : FrameLits(h[j]) = FrameLits(fr[j])
    BY <1>1
  <2> QED
    BY <1>1, <2>1, LitsSame
<1>3. ASSUME NEW d \in 1 .. n PROVE LevelOK(h[d], LitsIn(h, d))
  BY <1>1, <1>2 DEF Levels
<1>4. ASSUME NEW d \in 1 .. n - 1 PROVE Inside(h[d], h[d + 1])
  <2>1. Inside(fr[d], fr[d + 1]) /\ h[d] = fr[d]
    BY <1>1 DEF Levels
  <2>2. h[d + 1].vars = fr[d + 1].vars /\ h[d + 1].kind = fr[d + 1].kind
    BY <1>1
  <2> QED
    BY <2>1, <2>2 DEF Inside
<1>5. Levels(h)
  BY <1>1, <1>3, <1>4 DEF Levels
<1> QED
  BY <1>2, <1>5 DEF h

LEMMA LevelsPop ==
  ASSUME NEW fr \in Seq(Frame), Len(fr) > 1, Levels(fr)
  PROVE  /\ Levels(SubSeq(fr, 1, Len(fr) - 1))
         /\ \A d \in 0 .. Len(fr) - 1 : LitsIn(SubSeq(fr, 1, Len(fr) - 1), d) = LitsIn(fr, d)
<1> DEFINE n == Len(fr)
           h == SubSeq(fr, 1, n - 1)
<1>1. /\ n \in Nat /\ n > 1 /\ Len(h) = n - 1
      /\ \A j \in 1 .. n - 1 : h[j] = fr[j]
  OBVIOUS
<1> HIDE DEF h
<1>2. \A d \in 0 .. n - 1 : LitsIn(h, d) = LitsIn(fr, d)
  <2> SUFFICES ASSUME NEW d \in 0 .. n - 1 PROVE LitsIn(h, d) = LitsIn(fr, d)
    OBVIOUS
  <2>1. \A j \in 1 .. d : FrameLits(h[j]) = FrameLits(fr[j])
    BY <1>1
  <2> QED
    BY <1>1, <2>1, LitsSame
<1>3. ASSUME NEW d \in 1 .. n - 1 PROVE LevelOK(h[d], LitsIn(h, d))
  BY <1>1, <1>2 DEF Levels
<1>4. ASSUME NEW d \in 1 .. n - 2 PROVE Inside(h[d], h[d + 1])
  <2>1. d \in 1 .. n - 1 /\ d + 1 \in 1 .. n - 1
    BY <1>1
  <2> QED
    BY <1>1, <2>1 DEF Levels
<1>5. Levels(h)
  BY <1>1, <1>3, <1>4 DEF Levels
<1> QED
  BY <1>2, <1>5 DEF h

(***************************************************************************)
(* Marks: what was on the trail when each frame began.                     *)
(***************************************************************************)

LEMMA MarksPush ==
  ASSUME NEW t \in Seq(Lit), NEW fr \in Seq(Frame), NEW g \in Frame, Marks(fr, t),
         g.mark = Len(t), LitsIn(fr, Len(fr)) = TrailLits(t)
  PROVE  Marks(Append(fr, g), t)
<1> DEFINE n == Len(fr)
           h == Append(fr, g)
<1>1. /\ n \in Nat /\ Len(h) = n + 1
      /\ \A j \in 1 .. n : h[j] = fr[j]
      /\ h[n + 1] = g
  BY AppendProperties
<1> HIDE DEF h
<1>2. \A d \in 0 .. n : LitsIn(h, d) = LitsIn(fr, d)
  <2> SUFFICES ASSUME NEW d \in 0 .. n PROVE LitsIn(h, d) = LitsIn(fr, d)
    OBVIOUS
  <2>1. \A j \in 1 .. d : FrameLits(h[j]) = FrameLits(fr[j])
    BY <1>1
  <2> QED
    BY <1>1, <2>1, LitsSame
<1>3. TrailLits(t) = {t[j] : j \in 1 .. Len(t)}
  BY DEF TrailLits
<1>4. ASSUME NEW d \in 1 .. n + 1
      PROVE  LitsIn(h, d - 1) = {t[j] : j \in 1 .. h[d].mark}
  <2>1. d - 1 \in 0 .. n
    BY <1>1
  <2>2. CASE d \in 1 .. n
    BY <1>1, <1>2, <2>1, <2>2 DEF Marks
  <2>3. CASE d = n + 1
    BY <1>1, <1>2, <1>3, <2>1, <2>3
  <2> QED
    BY <1>1, <2>2, <2>3
<1>5. Marks(h, t)
  BY <1>1, <1>4 DEF Marks
<1> QED
  BY <1>5 DEF h

LEMMA MarksReplace ==
  ASSUME NEW t, NEW fr \in Seq(Frame), NEW g \in Frame, fr # <<>>, Marks(fr, t),
         g.mark = fr[Len(fr)].mark,
         \A d \in 0 .. Len(fr) : LitsIn([fr EXCEPT ![Len(fr)] = g], d) = LitsIn(fr, d)
  PROVE  Marks([fr EXCEPT ![Len(fr)] = g], t)
<1> DEFINE n == Len(fr)
           h == [fr EXCEPT ![n] = g]
<1>1. /\ n \in Nat /\ n > 0 /\ Len(h) = n
      /\ \A j \in 1 .. n : h[j] = IF j = n THEN g ELSE fr[j]
  OBVIOUS
<1>2. \A d \in 0 .. n : LitsIn(h, d) = LitsIn(fr, d)
  OBVIOUS
<1> HIDE DEF h
<1>3. \A j \in 1 .. n : h[j].mark = fr[j].mark
  BY <1>1
<1>4. Marks(h, t)
  BY <1>1, <1>2, <1>3 DEF Marks
<1> QED
  BY <1>4 DEF h

LEMMA MarksPop ==
  ASSUME NEW t, NEW fr \in Seq(Frame), Len(fr) > 1, Marks(fr, t),
         \A d \in 0 .. Len(fr) - 1 : LitsIn(SubSeq(fr, 1, Len(fr) - 1), d) = LitsIn(fr, d)
  PROVE  Marks(SubSeq(fr, 1, Len(fr) - 1), t)
<1> DEFINE n == Len(fr)
           h == SubSeq(fr, 1, n - 1)
<1>1. /\ n \in Nat /\ n > 1 /\ Len(h) = n - 1
      /\ \A j \in 1 .. n - 1 : h[j] = fr[j]
      /\ \A d \in 0 .. n - 1 : LitsIn(h, d) = LitsIn(fr, d)
  OBVIOUS
<1> HIDE DEF h
<1>2. Marks(h, t)
  BY <1>1 DEF Marks
<1> QED
  BY <1>2 DEF h

\* The trail may change above the last mark.
LEMMA MarksTrail ==
  ASSUME NEW t \in Seq(Lit), NEW u, NEW fr, Stack(fr, t), Marks(fr, t),
         \A j \in 1 .. fr[Len(fr)].mark : u[j] = t[j]
  PROVE  Marks(fr, u)
<1> SUFFICES ASSUME NEW d \in 1 .. Len(fr)
             PROVE  {t[j] : j \in 1 .. fr[d].mark} = {u[j] : j \in 1 .. fr[d].mark}
  BY DEF Marks
<1>1. /\ fr \in Seq(Frame) /\ Len(fr) \in Nat /\ Len(fr) > 0
      /\ fr[d].mark \in Nat /\ fr[Len(fr)].mark \in Nat /\ fr[d].mark <= End(fr[d])
      /\ End(fr[d]) \in Nat
  BY FrameType DEF Stack
<1>2. fr[d].mark <= fr[Len(fr)].mark
  <2>1. CASE d = Len(fr)
    BY <1>1, <2>1
  <2>2. CASE d # Len(fr)
    <3>1. End(fr[d]) <= fr[Len(fr)].mark
      BY <1>1, <2>2 DEF Stack
    <3> QED
      BY <1>1, <3>1
  <2> QED
    BY <2>1, <2>2
<1>3. \A j \in 1 .. fr[d].mark : j \in 1 .. fr[Len(fr)].mark
  BY <1>1, <1>2
<1>4. \A j \in 1 .. fr[d].mark : u[j] = t[j]
  BY <1>3
<1> QED
  BY <1>4

\* What the values are at each point of a call.
LEMMA ValuesKnown ==
  ASSUME Inv, FramesInv
  PROVE  /\ pc \in {"keep", "components", "restrict", "branch"} =>
              currentValue = LitsIn(frames, Len(frames))
         /\ pc = "assign" =>
              currentValue = LitsIn(frames, Len(frames) - 1)
                               \cup {Top.lits[j] : j \in 1 .. i - 1}
         /\ LitsIn(frames, Len(frames)) = LitsIn(frames, Len(frames) - 1) \cup FrameLits(Top)
<1> DEFINE n == Len(frames)
           m == Top.mark
           base == {trail[j] : j \in 1 .. m}
<1>1. /\ n \in Nat /\ n > 0 /\ frames \in Seq(Frame) /\ m \in Nat /\ trail \in Seq(Lit)
      /\ FrameOK(Top, trail) /\ m <= Len(trail) /\ Len(trail) \in Nat
  BY TopFacts DEF FrameOK
<1>2. currentValue = {trail[j] : j \in 1 .. Len(trail)}
  BY <1>1 DEF Inv, TrailInv, TrailLits
<1>3. LitsIn(frames, n - 1) = base
  BY <1>1 DEF FramesInv, Marks, Top
<1>4. LitsIn(frames, n) = LitsIn(frames, n - 1) \cup FrameLits(Top)
  <2>1. n - 1 \in Nat /\ (n - 1) + 1 = n
    BY <1>1
  <2> QED
    BY <2>1, LitsNext DEF Top
<1> HIDE DEF n, m
<1>5. ASSUME NEW k \in Nat, Top.kind = "call", k <= Len(Top.lits), Len(trail) = m + k
      PROVE  currentValue = base \cup {Top.lits[j] : j \in 1 .. k}
  <2>1. Top.lits \in Seq(Lit) /\ Len(Top.lits) \in Nat /\ CallOK(Top, trail)
    BY <1>1, <1>5, TopFacts DEF FrameOK
  <2>2. ASSUME NEW j \in 1 .. k PROVE trail[m + j] = Top.lits[j]
    <3>1. j \in DOMAIN Top.lits /\ m + j <= Len(trail)
      BY <1>1, <1>5, <2>1
    <3> QED
      BY <2>1, <3>1 DEF CallOK, m
  <2>3. ASSUME NEW j \in 1 .. Len(trail)
        PROVE  trail[j] \in base \cup {Top.lits[e] : e \in 1 .. k}
    <3>1. CASE j <= m
      BY <1>1, <3>1
    <3>2. CASE j > m
      <4>1. j - m \in 1 .. k /\ m + (j - m) = j
        BY <1>1, <1>5, <3>2
      <4>2. trail[j] = Top.lits[j - m]
        BY <2>2, <4>1
      <4> QED
        BY <4>1, <4>2
    <3> QED
      BY <1>1, <3>1, <3>2
  <2>4. ASSUME NEW j \in 1 .. k PROVE Top.lits[j] \in currentValue
    <3>1. m + j \in 1 .. Len(trail)
      BY <1>1, <1>5
    <3> QED
      BY <1>2, <2>2, <3>1
  <2>5. \A j \in 1 .. m : j \in 1 .. Len(trail)
    BY <1>1
  <2> QED
    BY <1>2, <2>3, <2>4, <2>5
<1>6. CASE pc \in {"keep", "components"}
  <2>1. Top.kind = "call" /\ Len(trail) = m + Len(Top.lits) /\ Len(Top.lits) \in Nat
        /\ Top.lits \in Seq(Lit)
    BY <1>6, TopFacts DEF Inv, CallInv, m
  <2>2. currentValue = base \cup {Top.lits[j] : j \in 1 .. Len(Top.lits)}
    BY <1>5, <2>1
  <2>3. FrameLits(Top) = {Top.lits[j] : j \in 1 .. Len(Top.lits)}
    BY <2>1 DEF FrameLits
  <2> QED
    BY <1>3, <1>4, <1>6, <2>2, <2>3 DEF n
<1>7. CASE pc \in {"restrict", "branch"}
  <2>1. Top.kind = "component" /\ Len(trail) = m
    BY <1>7 DEF Inv, CallInv, m
  <2>2. FrameLits(Top) = {}
    BY <2>1 DEF FrameLits
  <2> QED
    BY <1>2, <1>3, <1>4, <1>7, <2>1, <2>2 DEF n
<1>8. CASE pc = "assign"
  <2>1. /\ Top.kind = "call" /\ i - 1 \in Nat /\ i - 1 <= Len(Top.lits)
        /\ Len(trail) = m + (i - 1)
    BY <1>8, TopFacts DEF Inv, CallInv, m
  <2>2. currentValue = base \cup {Top.lits[j] : j \in 1 .. i - 1}
    BY <1>5, <2>1
  <2> QED
    BY <1>3, <1>4, <1>8, <2>2 DEF n
<1> QED
  BY <1>4, <1>6, <1>7, <1>8 DEF n

(***************************************************************************)
(* The next state.                                                         *)
(***************************************************************************)

LEMMA FormulaPrimed ==
  ASSUME clauses' = clauses
  PROVE  /\ Ids' = Ids
         /\ \A ls : OpenIn(ls)' = OpenIn(ls)
         /\ \A c, ls : FreeLits(c, ls)' = FreeLits(c, ls) /\ FreeVars(c, ls)' = FreeVars(c, ls)
         /\ \A vs, ls : Separates(vs, ls)' = Separates(vs, ls) /\ LiveIn(vs, ls)' = LiveIn(vs, ls)
         /\ \A ls : Propagated(ls)' = Propagated(ls)
  BY DEF Ids, OpenIn, FreeLits, FreeVars, Separates, LiveIn, Propagated

LEMMA FramesPrimed ==
  ASSUME clauses' = clauses, NEW fr, frames' = fr, NEW t, trail' = t, idxComponent' = {},
         Levels(fr), Marks(fr, t)
  PROVE  /\ FramesInv'
         /\ \A d : LitsIn(frames, d)' = LitsIn(fr, d)
<1>1. \A d : LitsIn(frames, d)' = LitsIn(fr, d)
  BY DEF LitsIn, FrameLits
<1>2. Levels(frames)'
  BY <1>1, FormulaPrimed DEF Levels, LevelOK, Inside
<1>3. Marks(frames, trail)'
  BY <1>1 DEF Marks
<1> QED
  BY <1>1, <1>2, <1>3 DEF FramesInv

(***************************************************************************)
(* The frames, step by step.                                               *)
(***************************************************************************)

LEMMA InitFrames == Init => FramesInv
<1> SUFFICES ASSUME Init PROVE FramesInv
  OBVIOUS
<1> DEFINE g == ComponentFrame(Var, <<NoLit>>)
<1>1. /\ g.kind = "component" /\ g.vars = Var /\ g.mark = 0
  BY DEF ComponentFrame, Init
<1> HIDE DEF g
<1>2. frames = <<g>> /\ trail = <<>> /\ Len(frames) = 1 /\ frames[1] = g
  BY DEF Init, g
<1>3. LitsIn(frames, 0) = {} /\ LitsIn(frames, 1) = {}
  <2>1. 0 + 1 = 1 /\ 0 \in Nat
    OBVIOUS
  <2>2. LitsIn(frames, 0 + 1) = LitsIn(frames, 0) \cup FrameLits(frames[0 + 1])
    BY <2>1, LitsNext
  <2> QED
    BY <1>1, <1>2, <2>1, <2>2, LitsZero DEF FrameLits
<1>4. Separates(Var, {})
  <2>1. clauses \in Seq(SUBSET Lit)
    BY FormulasAssumption DEF Init
  <2>2. \A c \in Ids : FreeVars(c, {}) \subseteq Var
    BY <2>1, SameVar DEF FreeVars, FreeLits, Ids
  <2> QED
    BY <2>2 DEF Separates, OpenIn
<1>5. Levels(frames)
  BY <1>1, <1>2, <1>3, <1>4 DEF Levels, LevelOK
<1>6. Marks(frames, trail)
  <2>1. {trail[j] : j \in 1 .. g.mark} = {}
    BY <1>1
  <2> QED
    BY <1>2, <1>3, <2>1 DEF Marks
<1> QED
  BY <1>5, <1>6 DEF FramesInv, Init

\* Steps that leave the frames alone.
LEMMA FramesKept ==
  ASSUME Inv, FramesInv, UNCHANGED <<clauses, frames, trail, idxComponent>>
  PROVE  FramesInv'
  BY FramesPrimed DEF FramesInv

LEMMA FramesValues ==
  ASSUME Inv, FramesInv, Assign \/ Unassign
  PROVE  FramesInv'
<1> DEFINE m == Top.mark
<1>1. /\ trail \in Seq(Lit) /\ m \in Nat /\ m <= Len(trail)
      /\ UNCHANGED <<clauses, frames, idxComponent>>
  BY TopFacts DEF Assign, Unassign, FrameOK
<1>2. \A j \in 1 .. m : trail'[j] = trail[j]
  <2>1. CASE Assign
    <3>1. trail' = Append(trail, Top.lits[i]) /\ i \in DOMAIN Top.lits /\ Top.lits[i] \in Lit
      BY <2>1, NextLiteral DEF Assign
    <3> HIDE DEF m
    <3> QED
      BY <1>1, <3>1, AppendProperties
  <2>2. CASE Unassign
    <3>1. trail' = SubSeq(trail, 1, Len(trail) - 1) /\ m <= Len(trail) - 1
      <4>1. pc = "unassign" /\ i > 0 /\ trail' = SubSeq(trail, 1, Len(trail) - 1)
        BY <2>2 DEF Unassign
      <4>2. Len(trail) = m + i /\ i \in Nat
        BY <4>1 DEF Inv, CallInv
      <4> QED
        BY <1>1, <4>1, <4>2
    <3> HIDE DEF m
    <3> QED
      BY <1>1, <3>1
  <2> QED
    BY <2>1, <2>2
<1>3. Marks(frames, trail')
  BY <1>1, <1>2, TopFacts, MarksTrail DEF FramesInv, Top
<1> QED
  BY <1>1, <1>3, FramesPrimed DEF FramesInv

\* The frame on top is changed in its branches or in what it has to do.
LEMMA LevelsTop ==
  ASSUME Inv, FramesInv, NEW g \in Frame,
         FrameLits(g) = FrameLits(Top), g.vars = Top.vars, g.kind = Top.kind, g.mark = Top.mark,
         LevelOK(g, LitsIn(frames, Len(frames)))
  PROVE  /\ Levels(SetTop(g)) /\ Marks(SetTop(g), trail)
         /\ \A d \in 0 .. Len(frames) : LitsIn(SetTop(g), d) = LitsIn(frames, d)
         /\ Len(SetTop(g)) = Len(frames) /\ SetTop(g) \in Seq(Frame) /\ SetTop(g) # <<>>
         /\ SetTop(g)[Len(frames)] = g
         /\ \A d \in 1 .. Len(frames) : SetTop(g)[d].vars = frames[d].vars
<1>1. frames \in Seq(Frame) /\ frames # <<>> /\ Len(frames) \in Nat /\ Len(frames) > 0
  BY TopFacts DEF Stack
<1>2. Levels(frames) /\ Marks(frames, trail)
  BY DEF FramesInv
<1>3. Top = frames[Len(frames)]
  BY DEF Top
<1>4. /\ Levels([frames EXCEPT ![Len(frames)] = g])
      /\ \A d \in 0 .. Len(frames) :
           LitsIn([frames EXCEPT ![Len(frames)] = g], d) = LitsIn(frames, d)
  BY <1>1, <1>2, <1>3, LevelsReplace
<1>5. Marks([frames EXCEPT ![Len(frames)] = g], trail)
  BY <1>1, <1>2, <1>3, <1>4, MarksReplace
<1>6. /\ Len([frames EXCEPT ![Len(frames)] = g]) = Len(frames)
      /\ [frames EXCEPT ![Len(frames)] = g] \in Seq(Frame)
      /\ [frames EXCEPT ![Len(frames)] = g] # <<>>
      /\ [frames EXCEPT ![Len(frames)] = g][Len(frames)] = g
      /\ \A d \in 1 .. Len(frames) : d # Len(frames) =>
           [frames EXCEPT ![Len(frames)] = g][d] = frames[d]
  BY <1>1
<1>7. \A d \in 1 .. Len(frames) : [frames EXCEPT ![Len(frames)] = g][d].vars = frames[d].vars
  BY <1>3, <1>6
<1> QED
  BY <1>4, <1>5, <1>6, <1>7 DEF SetTop

\* A component takes the next branch or is given its branches.
LEMMA FramesBranches ==
  ASSUME Inv, FramesInv, Unsat \/ Decide
  PROVE  /\ FramesInv'
         /\ \A d \in 0 .. Len(frames) : LitsIn(frames, d)' = LitsIn(frames, d)
         /\ Len(frames') = Len(frames)
         /\ \A d \in 1 .. Len(frames) : (frames')[d].vars = frames[d].vars
<1>1. PICK b \in Seq(Lit \cup {NoLit}) : frames' = SetTop([Top EXCEPT !.branches = b])
  <2>1. CASE Unsat
    <3>1. Top.branches \in Seq(Lit \cup {NoLit}) /\ Top.branches # <<>>
      BY <2>1, TopFacts DEF Unsat, Branching
    <3>2. Tail(Top.branches) \in Seq(Lit \cup {NoLit})
      BY <3>1
    <3>3. frames' = SetTop([Top EXCEPT !.branches = Tail(Top.branches)])
      BY <2>1 DEF Unsat
    <3> QED
      BY <3>2, <3>3
  <2>2. CASE Decide
    <3>1. PICK l \in Lit : frames' = SetTop([Top EXCEPT !.branches = <<l, Neg(l)>>])
      BY <2>2 DEF Decide
    <3>2. <<l, Neg(l)>> \in Seq(Lit \cup {NoLit})
      BY SameVar
    <3> QED
      BY <3>1, <3>2
  <2> QED
    BY <2>1, <2>2
<1> DEFINE g == [Top EXCEPT !.branches = b]
           n == Len(frames)
<1>2. /\ Top.kind = "component" /\ UNCHANGED <<clauses, trail, idxComponent>>
  BY DEF Unsat, Decide, Branching, manager, Inv, CallInv
<1>3. Top \in ComponentFrames /\ frames \in Seq(Frame) /\ n \in Nat /\ n > 0
  BY <1>2, TopFacts
<1>4. g \in ComponentFrames /\ g.kind = "component" /\ g.vars = Top.vars /\ g.mark = Top.mark
  BY <1>2, <1>3 DEF ComponentFrames
<1> HIDE DEF g
<1>5. g \in Frame /\ FrameLits(g) = FrameLits(Top) /\ LevelOK(g, LitsIn(frames, n))
  BY <1>2, <1>3, <1>4 DEF Frame, FrameLits, FramesInv, Levels, LevelOK, Top
<1>6. frames' = SetTop(g)
  BY <1>1 DEF g
<1>7. /\ Levels(SetTop(g)) /\ Marks(SetTop(g), trail)
      /\ \A d \in 0 .. n : LitsIn(SetTop(g), d) = LitsIn(frames, d)
      /\ Len(SetTop(g)) = n /\ \A d \in 1 .. n : SetTop(g)[d].vars = frames[d].vars
  BY <1>2, <1>4, <1>5, LevelsTop
<1>8. FramesInv' /\ \A d : LitsIn(frames, d)' = LitsIn(SetTop(g), d)
  BY <1>2, <1>6, <1>7, FramesPrimed DEF FramesInv
<1> QED
  BY <1>6, <1>7, <1>8 DEF n

\* A list of different members of a set, as many as it has, holds them all.
LEMMA EnumeratesAll ==
  ASSUME NEW u, IsFiniteSet(u), NEW s \in [1 .. Cardinality(u) -> u],
         \A j, k \in DOMAIN s : j # k => s[j] # s[k]
  PROVE  {s[j] : j \in DOMAIN s} = u
<1>1. Cardinality(u) \in Nat
  BY FS_CardinalityType
<1>2. IsFiniteSet(1 .. Cardinality(u)) /\ Cardinality(1 .. Cardinality(u)) = Cardinality(u)
  BY <1>1, FS_Interval
<1>3. s \in Injection(1 .. Cardinality(u), u)
  BY DEF Injection, IsInjective
<1>4. s \in Surjection(1 .. Cardinality(u), u)
  BY <1>2, <1>3, FS_Injection
<1> QED
  BY <1>4 DEF Surjection

\* The call of the branch that is taken.
LEMMA FramesSolve ==
  ASSUME Inv, FramesInv, Solve
  PROVE  /\ FramesInv'
         /\ Len(frames') = Len(frames) + 1
         /\ \A d \in 0 .. Len(frames) : LitsIn(frames, d)' = LitsIn(frames, d)
         /\ \A d \in 1 .. Len(frames) : (frames')[d] = frames[d]
         /\ Top'.kind = "call" /\ Top'.vars = Top.vars
<1> DEFINE n == Len(frames)
<1>1. /\ Branching /\ ModelsWith(Assumed) # {}
      /\ UNCHANGED <<clauses, currentValue, trail, idxComponent>>
  BY DEF Solve, manager
<1>2. PICK u \in Units(Top.vars, Assumed) : \E lits \in Collected(u, Decision) :
         frames' = Append(frames, CallFrame(Top.vars, lits))
  BY DEF Solve
<1>3. PICK lits \in Collected(u, Decision) : frames' = Append(frames, CallFrame(Top.vars, lits))
  BY <1>2
<1> DEFINE g == CallFrame(Top.vars, lits)
<1>4. lits \in Seq(Lit)
  BY <1>1, CollectedDistinct
<1>5. /\ n \in Nat /\ n > 0 /\ frames \in Seq(Frame) /\ Top.vars \subseteq Var
      /\ trail \in Seq(Lit) /\ Len(trail) \in Nat
      /\ currentValue = TrailLits(trail) /\ currentValue = LitsIn(frames, n)
  BY <1>1, TopFacts, ValuesKnown DEF Branching, Inv, TrailInv
<1>6. /\ g.kind = "call" /\ g.vars = Top.vars /\ g.lits = lits /\ g.mark = Len(trail)
      /\ g.todo = {} /\ g \in Frame
  BY <1>4, <1>5 DEF CallFrame, CallFrames, Frame
<1> HIDE DEF g
<1>7. {lits[j] : j \in DOMAIN lits} = u
  <2>1. lits \in [1 .. Cardinality(u) -> u]
    BY DEF Collected
  <2>2. {lits[j] : j \in DOMAIN lits} \subseteq u
    BY <2>1
  <2>3. u \subseteq Lit /\ IsFiniteSet(u)
    <3>1. u \subseteq Lit
      BY DEF Units
    <3>2. 0 \in Int /\ 2 * NumVars - 1 \in Int
      BY NumVarsAssumption
    <3>3. IsFiniteSet(Lit)
      BY <3>2, FS_Interval DEF Lit
    <3> QED
      BY <3>1, <3>3, FS_Subset
  <2>4. \A j, k \in DOMAIN lits : j # k => lits[j] # lits[k]
    <3>1. \A j, k \in DOMAIN lits : j < k => lits[j] # lits[k]
      BY DEF Collected
    <3>2. \A j, k \in DOMAIN lits : j # k => j < k \/ k < j
      BY <1>4
    <3> QED
      BY <3>1, <3>2
  <2> QED
    BY <2>1, <2>3, <2>4, EnumeratesAll
<1>8. FrameLits(g) = u
  BY <1>6, <1>7 DEF FrameLits
<1>9. LitsIn(frames, n) \cup u = Assumed \cup u /\ Propagated(Assumed \cup u)
  <2>1. Assumed \ currentValue \subseteq u /\ Propagated(Assumed \cup u)
    BY DEF Units
  <2>2. currentValue \subseteq Assumed
    BY DEF Assumed
  <2> QED
    BY <1>5, <2>1, <2>2
<1>10. Separates(Top.vars, LitsIn(frames, n))
  BY <1>5 DEF FramesInv, Levels, LevelOK, Top
<1>11. LevelOK(g, LitsIn(frames, n) \cup FrameLits(g)) /\ Inside(Top, g)
  BY <1>6, <1>8, <1>9, <1>10, SeparatesMore DEF LevelOK, Inside
<1>12. Levels(frames')
  BY <1>3, <1>5, <1>6, <1>11, LevelsPush DEF FramesInv, Top, g
<1>13. Marks(frames', trail)
  BY <1>3, <1>5, <1>6, MarksPush DEF FramesInv, g
<1>14. FramesInv' /\ \A d : LitsIn(frames, d)' = LitsIn(frames', d)
  BY <1>1, <1>12, <1>13, FramesPrimed DEF FramesInv
<1>15. Len(frames') = n + 1 /\ (\A d \in 1 .. n : (frames')[d] = frames[d]) /\ (frames')[n + 1] = g
  BY <1>3, <1>5, <1>6, AppendProperties DEF g
<1>16. \A d \in 0 .. n : LitsIn(frames', d) = LitsIn(frames, d)
  <2> SUFFICES ASSUME NEW d \in 0 .. n PROVE LitsIn(frames', d) = LitsIn(frames, d)
    OBVIOUS
  <2>1. \A j \in 1 .. d : FrameLits((frames')[j]) = FrameLits(frames[j])
    BY <1>5, <1>15
  <2> QED
    BY <1>5, <2>1, LitsSame
<1>17. Top' = g
  BY <1>15 DEF Top
<1> QED
  BY <1>6, <1>14, <1>15, <1>16, <1>17 DEF n

(***************************************************************************)
(* Connected variables.                                                    *)
(***************************************************************************)

LEMMA LitsOfVar ==
  ASSUME NEW v \in Var
  PROVE  /\ PosLit(v) \in Lit /\ NegLit(v) \in Lit
         /\ VarOf(PosLit(v)) = v /\ VarOf(NegLit(v)) = v
         /\ \A l \in Lit : VarOf(l) = v => l = PosLit(v) \/ l = NegLit(v)
         /\ Neg(PosLit(v)) = NegLit(v) /\ Neg(NegLit(v)) = PosLit(v)
  BY NumVarsAssumption, SMTT(30) DEF Lit, Var, PosLit, NegLit, VarOf, Neg

LEMMA UndefLit ==
  ASSUME NEW l \in Lit
  PROVE  Undef(l) <=> UndefVar(VarOf(l))
<1>1. VarOf(l) \in Var
  BY SameVar
<1>2. l = PosLit(VarOf(l)) \/ l = NegLit(VarOf(l))
  BY <1>1, LitsOfVar
<1>3. Neg(PosLit(VarOf(l))) = NegLit(VarOf(l)) /\ Neg(NegLit(VarOf(l))) = PosLit(VarOf(l))
  BY <1>1, LitsOfVar
<1> QED
  BY <1>2, <1>3 DEF UndefVar, Undef

\* The list of a literal that is free holds the clauses that are open.
LEMMA ListOpen ==
  ASSUME Inv, NEW l \in Lit, Undef(l)
  PROVE  occList[l] = {c \in OpenIn(currentValue) : l \in clauses[c]}
<1>1. trail \in Seq(Lit) /\ currentValue = TrailLits(trail) /\ occList[l] = ListIn(trail, l)
  BY DEF Inv, TrailInv, ListsInv
<1>2. EarlierIn(trail, l) = currentValue
  BY <1>1, UndefTrail, EarlierAll
<1> QED
  BY <1>1, <1>2 DEF ListIn, OpenIn

LEMMA ConnectedInside ==
  ASSUME Inv, FramesInv, pc = "keep", NEW v \in Top.vars, UndefVar(v)
  PROVE  /\ v \in Connected(v) /\ Connected(v) \subseteq Top.vars
         /\ Separates(Connected(v), currentValue)
<1> DEFINE closed(r) == \A u \in r : \A c \in occList[PosLit(u)] \cup occList[NegLit(u)] :
                          UndefVars(c) \subseteq r
           free == {u \in Top.vars : UndefVar(u)}
<1>1. Connected(v) = {w \in Var : \A r \in SUBSET Var : v \in r /\ closed(r) => w \in r}
  BY DEF Connected
<1>2. /\ Top.vars \subseteq Var /\ clauses \in Seq(SUBSET Lit)
      /\ frames \in Seq(Frame) /\ Len(frames) \in Nat /\ Len(frames) > 0
  BY TopFacts DEF Inv, ListsInv
<1>3. currentValue = LitsIn(frames, Len(frames))
  BY ValuesKnown
<1>4. Separates(Top.vars, currentValue)
  BY <1>2, <1>3 DEF FramesInv, Levels, LevelOK, Top
<1>5. closed(free)
  <2> SUFFICES ASSUME NEW u \in free, NEW l \in {PosLit(u), NegLit(u)}, NEW c \in occList[l],
                      NEW x \in UndefVars(c)
               PROVE  x \in free
    OBVIOUS
  <2>1. u \in Top.vars /\ UndefVar(u) /\ u \in Var
    BY <1>2
  <2>2. l \in Lit /\ VarOf(l) = u /\ Undef(l)
    BY <2>1, LitsOfVar, UndefLit
  <2>3. c \in OpenIn(currentValue) /\ l \in clauses[c]
    BY <2>2, ListOpen
  <2>4. u \in UndefVars(c)
    BY <2>2, <2>3 DEF UndefVars
  <2>5. UndefVars(c) \subseteq Top.vars
    BY <1>4, <2>1, <2>3, <2>4, FreeNow DEF Separates
  <2>6. PICK k \in clauses[c] : Undef(k) /\ x = VarOf(k)
    BY DEF UndefVars
  <2>7. k \in Lit
    BY <1>2, <2>3 DEF OpenIn, Ids
  <2> QED
    BY <2>5, <2>6, <2>7, UndefLit
<1>6. Connected(v) \subseteq Top.vars
  <2>1. v \in free /\ free \in SUBSET Var /\ free \subseteq Top.vars
    BY <1>2
  <2> HIDE DEF free, closed
  <2> QED
    BY <1>1, <1>5, <2>1
<1>7. v \in Connected(v)
  BY <1>1, <1>2
<1>8. Separates(Connected(v), currentValue)
  <2> SUFFICES ASSUME NEW c \in OpenIn(currentValue),
                      NEW w \in FreeVars(c, currentValue), w \in Connected(v),
                      NEW x \in FreeVars(c, currentValue)
               PROVE  x \in Connected(v)
    BY DEF Separates
  <2> SUFFICES ASSUME NEW r \in SUBSET Var, v \in r, closed(r)
               PROVE  x \in Var /\ x \in r
    <3>1. x \in Var
      <4>1. clauses[c] \subseteq Lit
        BY <1>2 DEF OpenIn, Ids
      <4> QED
        BY <4>1, SameVar DEF FreeVars, FreeLits
    <3> HIDE DEF closed
    <3> QED
      BY <1>1, <3>1
  <2>1. clauses[c] \subseteq Lit
    BY <1>2 DEF OpenIn, Ids
  <2>2. PICK k \in clauses[c] : Undef(k) /\ w = VarOf(k)
    BY FreeNow DEF UndefVars
  <2>3. w \in Var /\ (k = PosLit(w) \/ k = NegLit(w))
    BY <2>1, <2>2, SameVar, LitsOfVar
  <2>4. c \in occList[k]
    BY <2>1, <2>2, ListOpen
  <2>5. w \in r
    <3> HIDE DEF closed
    <3> QED
      BY <1>1
  <2>6. UndefVars(c) \subseteq r
    BY <2>3, <2>4, <2>5
  <2>7. FreeVars(c, currentValue) \subseteq Var
    BY <2>1, SameVar DEF FreeVars, FreeLits
  <2> QED
    BY <2>6, <2>7, FreeNow
<1> QED
  BY <1>6, <1>7, <1>8

LEMMA FramesSplit ==
  ASSUME Inv, FramesInv, Split
  PROVE  /\ FramesInv'
         /\ \A d \in 0 .. Len(frames) : LitsIn(frames, d)' = LitsIn(frames, d)
         /\ Len(frames') = Len(frames)
         /\ \A d \in 1 .. Len(frames) : (frames')[d].vars = frames[d].vars
<1> DEFINE cs == Components(Top.vars)
           g == [Top EXCEPT !.todo = {s \cap Top.vars : s \in cs}]
           n == Len(frames)
<1>1. /\ pc = "keep" /\ frames' = SetTop(g)
      /\ idxComponent' = (idxComponent \cup UNION cs) \ Top.vars
      /\ UNCHANGED <<clauses, trail>>
  BY DEF Split, manager
<1>2. /\ Top \in CallFrames /\ Top.kind = "call" /\ Top.vars \subseteq Var
      /\ frames \in Seq(Frame) /\ n \in Nat /\ n > 0
  BY <1>1, TopFacts DEF Inv, CallInv
<1>3. currentValue = LitsIn(frames, n)
  BY <1>1, ValuesKnown
<1>4. \A s \in cs : s \subseteq Top.vars /\ Separates(s, currentValue)
  <2> SUFFICES ASSUME NEW s \in cs PROVE s \subseteq Top.vars /\ Separates(s, currentValue)
    OBVIOUS
  <2>1. PICK v \in Top.vars : UndefVar(v) /\ s = Connected(v)
    BY DEF Components
  <2> QED
    BY <1>1, <2>1, ConnectedInside
<1> HIDE DEF cs
<1>5. {s \cap Top.vars : s \in cs} = cs
  <2>1. \A s \in cs : s \cap Top.vars = s
    BY <1>4
  <2> QED
    BY <2>1
<1>6. cs \in SUBSET SUBSET Var
  BY <1>2, <1>4
<1>7. /\ g \in CallFrames /\ g.kind = "call" /\ g.mark = Top.mark /\ g.lits = Top.lits
      /\ g.vars = Top.vars /\ g.todo = cs
  BY <1>2, <1>5, <1>6 DEF CallFrames
<1> HIDE DEF g
<1>8. LevelOK(Top, LitsIn(frames, n))
  BY <1>2 DEF FramesInv, Levels, Top
<1>9. g \in Frame /\ FrameLits(g) = FrameLits(Top) /\ LevelOK(g, LitsIn(frames, n))
  BY <1>2, <1>3, <1>4, <1>7, <1>8 DEF Frame, FrameLits, LevelOK
<1>10. /\ Levels(SetTop(g)) /\ Marks(SetTop(g), trail)
       /\ \A d \in 0 .. n : LitsIn(SetTop(g), d) = LitsIn(frames, d)
       /\ Len(SetTop(g)) = n /\ \A d \in 1 .. n : SetTop(g)[d].vars = frames[d].vars
  BY <1>2, <1>7, <1>9, LevelsTop
<1>11. idxComponent' = {}
  BY <1>1, <1>4 DEF FramesInv
<1>12. FramesInv' /\ \A d : LitsIn(frames, d)' = LitsIn(SetTop(g), d)
  BY <1>1, <1>10, <1>11, FramesPrimed
<1> QED
  BY <1>1, <1>10, <1>12 DEF n

LEMMA FramesNextComponent ==
  ASSUME Inv, FramesInv, NextComponent
  PROVE  /\ FramesInv'
         /\ Len(frames') = Len(frames) + 1
         /\ \A d \in 0 .. Len(frames) + 1 : LitsIn(frames, d)' = LitsIn(frames', d)
         /\ \A d \in 0 .. Len(frames) : LitsIn(frames', d) = LitsIn(frames, d)
         /\ LitsIn(frames', Len(frames) + 1) = currentValue
         /\ \A d \in 1 .. Len(frames) : (frames')[d].vars = frames[d].vars
         /\ Top'.kind = "component"
         /\ Top'.vars \subseteq Top.vars /\ Separates(Top'.vars, currentValue)
<1> DEFINE n == Len(frames)
<1>1. PICK s \in Top.todo :
        frames' = Append(SetTop([Top EXCEPT !.todo = @ \ {s}]), ComponentFrame(s, <<>>))
  BY DEF NextComponent
<1> DEFINE f == [Top EXCEPT !.todo = @ \ {s}]
           g == ComponentFrame(s, <<>>)
           h == SetTop(f)
<1>2. /\ pc = "components" /\ UNCHANGED <<clauses, trail, idxComponent>>
  BY DEF NextComponent, manager
<1>3. /\ Top \in CallFrames /\ Top.kind = "call" /\ Top.todo \subseteq SUBSET Var
      /\ n \in Nat /\ n > 0 /\ frames \in Seq(Frame) /\ trail \in Seq(Lit) /\ Len(trail) \in Nat
      /\ currentValue = TrailLits(trail) /\ currentValue = LitsIn(frames, n)
  BY <1>2, TopFacts, FrameType, ValuesKnown DEF Inv, CallInv, TrailInv
<1>4. LevelOK(Top, LitsIn(frames, n))
  BY <1>3 DEF FramesInv, Levels, Top
<1>5. /\ f \in CallFrames /\ f.kind = "call" /\ f.mark = Top.mark /\ f.lits = Top.lits
      /\ f.todo = Top.todo \ {s} /\ f.vars = Top.vars
  BY <1>3 DEF CallFrames
<1>6. /\ g.kind = "component" /\ g.vars = s /\ g.mark = Len(trail)
      /\ g \in ComponentFrames
  BY <1>3 DEF ComponentFrame, ComponentFrames
<1> HIDE DEF f, g
<1>7. f \in Frame /\ FrameLits(f) = FrameLits(Top) /\ LevelOK(f, LitsIn(frames, n))
  BY <1>3, <1>4, <1>5 DEF Frame, FrameLits, LevelOK
<1>8. /\ Levels(h) /\ Marks(h, trail)
      /\ \A d \in 0 .. n : LitsIn(h, d) = LitsIn(frames, d)
      /\ Len(h) = n /\ h \in Seq(Frame) /\ h # <<>> /\ h[n] = f
      /\ \A d \in 1 .. n : h[d].vars = frames[d].vars
  BY <1>3, <1>5, <1>7, LevelsTop
<1> HIDE DEF h
<1>9. frames' = Append(h, g)
  BY <1>1 DEF f, g, h
<1>10. s \subseteq Top.vars /\ Separates(s, currentValue)
  BY <1>3, <1>4 DEF LevelOK
<1>11. g \in Frame /\ FrameLits(g) = {} /\ LitsIn(h, n) = currentValue
  BY <1>3, <1>6, <1>8 DEF Frame, FrameLits
<1>12. LevelOK(g, LitsIn(h, Len(h)) \cup FrameLits(g)) /\ Inside(h[Len(h)], g)
  BY <1>3, <1>5, <1>6, <1>8, <1>10, <1>11 DEF LevelOK, Inside
<1>13. Levels(Append(h, g))
  BY <1>8, <1>11, <1>12, LevelsPush
<1>14. Marks(Append(h, g), trail)
  BY <1>3, <1>6, <1>8, <1>11, MarksPush
<1>15. FramesInv' /\ \A d : LitsIn(frames, d)' = LitsIn(frames', d)
  BY <1>2, <1>9, <1>13, <1>14, FramesPrimed DEF FramesInv
<1>16. Len(frames') = n + 1 /\ (\A d \in 1 .. n : (frames')[d] = h[d]) /\ (frames')[n + 1] = g
  BY <1>8, <1>9, <1>11, AppendProperties
<1>17. \A d \in 0 .. n : LitsIn(frames', d) = LitsIn(frames, d)
  <2> SUFFICES ASSUME NEW d \in 0 .. n PROVE LitsIn(frames', d) = LitsIn(frames, d)
    OBVIOUS
  <2>1. \A j \in 1 .. d : FrameLits((frames')[j]) = FrameLits(h[j])
    BY <1>3, <1>16
  <2>2. LitsIn(frames', d) = LitsIn(h, d)
    BY <1>3, <2>1, LitsSame
  <2> QED
    BY <1>8, <2>2
<1>18. Top' = g
  BY <1>16 DEF Top
<1>19. LitsIn(frames', n + 1) = LitsIn(frames', n) \cup FrameLits((frames')[n + 1])
  BY <1>3, LitsNext
<1>20. LitsIn(frames', n + 1) = currentValue
  <2>1. LitsIn(frames', n) = currentValue
    BY <1>3, <1>17
  <2>2. FrameLits((frames')[n + 1]) = {}
    BY <1>11, <1>16
  <2> QED
    BY <1>19, <2>1, <2>2
<1>21. \A d \in 1 .. n : (frames')[d].vars = frames[d].vars
  BY <1>8, <1>16
<1> QED
  BY <1>6, <1>10, <1>15, <1>16, <1>17, <1>18, <1>20, <1>21 DEF n

\* A component is left, or a call returns to the component that made it.
LEMMA FramesPop ==
  ASSUME Inv, FramesInv, LeaveComponent \/ Returned
  PROVE  /\ FramesInv'
         /\ Len(frames) > 1 /\ Len(frames') = Len(frames) - 1
         /\ \A d \in 0 .. Len(frames) - 1 : LitsIn(frames, d)' = LitsIn(frames, d)
         /\ \A d \in 1 .. Len(frames) - 1 : (frames')[d].vars = frames[d].vars
<1> DEFINE n == Len(frames)
<1>1. /\ n \in Nat /\ frames \in Seq(Frame) /\ Stack(frames, trail)
      /\ UNCHANGED <<clauses, trail, idxComponent>>
  BY TopFacts DEF LeaveComponent, Returned, manager
<1>2. n > 1
  <2>1. CASE LeaveComponent
    BY <2>1 DEF LeaveComponent
  <2>2. CASE Returned
    <3>1. Top.kind # "component"
      BY <2>2 DEF Returned, Inv, CallInv
    <3> QED
      BY <1>1, <3>1 DEF Stack, Top
  <2> QED
    BY <2>1, <2>2
<1>3. /\ Below \in Seq(Frame) /\ Len(Below) = n - 1 /\ Below # <<>>
      /\ \A d \in 1 .. n - 1 : Below[d] = frames[d]
      /\ Levels(Below) /\ \A d \in 0 .. n - 1 : LitsIn(Below, d) = LitsIn(frames, d)
  <2>1. /\ Levels(SubSeq(frames, 1, Len(frames) - 1))
        /\ \A d \in 0 .. Len(frames) - 1 :
             LitsIn(SubSeq(frames, 1, Len(frames) - 1), d) = LitsIn(frames, d)
    BY <1>1, <1>2, LevelsPop DEF FramesInv
  <2>2. /\ Below \in Seq(Frame) /\ Len(Below) = n - 1
        /\ \A d \in 1 .. n - 1 : Below[d] = frames[d]
    BY <1>1, <1>2 DEF Below
  <2>3. Below # <<>>
    BY <1>1, <1>2, <2>2
  <2> QED
    BY <2>1, <2>2, <2>3 DEF Below
<1>4. Marks(Below, trail)
  BY <1>1, <1>2, <1>3, MarksPop DEF FramesInv, Below
<1>5. CASE LeaveComponent
  <2>1. frames' = Below
    BY <1>5 DEF LeaveComponent
  <2>2. FramesInv' /\ \A d : LitsIn(frames, d)' = LitsIn(Below, d)
    BY <1>1, <1>3, <1>4, <2>1, FramesPrimed DEF FramesInv
  <2> QED
    BY <1>2, <1>3, <2>1, <2>2
<1>6. CASE Returned
  <2> DEFINE f == frames[n - 1]
             g == [f EXCEPT !.branches = Tail(@)]
  <2>1. frames' = [Below EXCEPT ![n - 1] = g] /\ pc = "unassign"
    BY <1>6 DEF Returned
  <2>2. f \in ComponentFrames /\ f.kind = "component" /\ f.branches # <<>>
        /\ f.branches \in Seq(Lit \cup {NoLit})
    <3>1. Top.kind # "component"
      BY <2>1 DEF Inv, CallInv
    <3>2. n - 1 \in 1 .. n - 1 /\ (n - 1) + 1 = n /\ n - 1 \in 1 .. n
      BY <1>1, <1>2
    <3>3. Linked(f, Top) /\ f \in Frame
      BY <1>1, <3>2 DEF Stack, Top
    <3>4. f.kind = "component"
      BY <3>1, <3>3, TopFacts, FrameType DEF Linked
    <3> QED
      BY <3>3, <3>4, FrameType DEF Linked
  <2>3. Tail(f.branches) \in Seq(Lit \cup {NoLit})
    BY <2>2
  <2>4. g \in ComponentFrames /\ g.kind = f.kind /\ g.vars = f.vars /\ g.mark = f.mark
    BY <2>2, <2>3 DEF ComponentFrames
  <2>5. f = Below[Len(Below)] /\ n - 1 = Len(Below)
    BY <1>1, <1>2, <1>3
  <2> HIDE DEF f, g
  <2>6. LevelOK(f, LitsIn(Below, Len(Below)))
    BY <1>1, <1>2, <1>3, <2>5 DEF Levels
  <2>7. g \in Frame /\ FrameLits(g) = FrameLits(f) /\ LevelOK(g, LitsIn(Below, Len(Below)))
    BY <2>2, <2>4, <2>6 DEF Frame, FrameLits, LevelOK
  <2>8. /\ Levels([Below EXCEPT ![Len(Below)] = g])
        /\ \A d \in 0 .. Len(Below) :
             LitsIn([Below EXCEPT ![Len(Below)] = g], d) = LitsIn(Below, d)
    BY <1>3, <2>4, <2>5, <2>7, LevelsReplace
  <2>9. Marks([Below EXCEPT ![Len(Below)] = g], trail)
    BY <1>3, <1>4, <2>4, <2>5, <2>7, <2>8, MarksReplace
  <2>10. frames' = [Below EXCEPT ![Len(Below)] = g]
    BY <2>1, <2>5 DEF g
  <2>11. FramesInv' /\ \A d : LitsIn(frames, d)' = LitsIn([Below EXCEPT ![Len(Below)] = g], d)
    BY <1>1, <2>8, <2>9, <2>10, FramesPrimed DEF FramesInv
  <2>12. Len(frames') = n - 1
    BY <1>3, <2>10
  <2>13. \A d \in 1 .. n - 1 : (frames')[d].vars = frames[d].vars
    BY <1>3, <2>4, <2>5, <2>10
  <2> QED
    BY <1>2, <1>3, <2>5, <2>8, <2>11, <2>12, <2>13
<1> QED
  BY <1>5, <1>6

(***************************************************************************)
(* Watchers, step by step.                                                 *)
(***************************************************************************)

\* A clause that no value satisfies is open.
LEMMA SatOpen ==
  ASSUME Inv, NEW c \in Ids
  PROVE  nbSat[c] = 0 <=> c \in OpenIn(currentValue)
<1>1. nbSat[c] = SatIn(trail, c) /\ currentValue = TrailLits(trail)
  BY DEF Inv, ListsInv, TrailInv
<1> QED
  BY <1>1 DEF SatIn, OpenIn

LEMMA InitWatch == Init => WatchInv
<1> SUFFICES ASSUME Init PROVE WatchInv
  OBVIOUS
<1>1. /\ Len(frames) = 1 /\ pc = "branch" /\ reviewWatcher = {} /\ clauses \in Seq(SUBSET Lit)
      /\ watcher \in [Ids -> Lit] /\ \A c \in Ids : watcher[c] \in clauses[c]
  BY FormulasAssumption DEF Init, Ids
<1>2. LitsIn(frames, 1) = {}
  <2>1. frames[1].kind = "component"
    BY DEF Init, ComponentFrame
  <2>2. 1 .. 1 = {1}
    OBVIOUS
  <2> QED
    BY <2>1, <2>2 DEF LitsIn, FrameLits
<1>3. \A c : FreeLits(c, {}) = clauses[c]
  BY DEF FreeLits
<1>4. \A d \in 1 .. Reviewed : d = 1
  BY <1>1 DEF Reviewed
<1>5. \A d \in 1 .. Reviewed : \A c \in OpenIn(LitsIn(frames, d)) :
        watcher[c] \in FreeLits(c, LitsIn(frames, d))
  BY <1>1, <1>2, <1>3, <1>4 DEF OpenIn
<1>6. pc # "assign" /\ reviewWatcher \subseteq Ids
  BY <1>1
<1> QED
  BY <1>1, <1>5, <1>6 DEF WatchInv

\* Steps that look at no watcher and reach no level.
LEMMA WatchKept ==
  ASSUME Inv, WatchInv, UNCHANGED <<clauses, watcher, reviewWatcher>>,
         pc # "assign", pc' # "assign",
         Len(frames') \in Nat, Len(frames') <= Len(frames),
         \A d \in 1 .. Len(frames') : LitsIn(frames, d)' = LitsIn(frames, d)
  PROVE  WatchInv'
<1>1. Len(frames) \in Nat /\ Reviewed = Len(frames) /\ Reviewed' = Len(frames')
  BY TopFacts DEF Reviewed
<1>2. \A d \in 1 .. Len(frames') : d \in 1 .. Len(frames)
  BY <1>1
<1>3. \A d \in 1 .. Len(frames') : \A c \in OpenIn(LitsIn(frames, d)) :
        watcher[c] \in FreeLits(c, LitsIn(frames, d))
  BY <1>1, <1>2 DEF WatchInv
<1>4. (\A d \in 1 .. Reviewed : \A c \in OpenIn(LitsIn(frames, d)) :
         watcher[c] \in FreeLits(c, LitsIn(frames, d)))'
  BY <1>1, <1>3, FormulaPrimed
<1>5. /\ (watcher \in [Ids -> Lit])' /\ (\A c \in Ids : watcher[c] \in clauses[c])'
      /\ (reviewWatcher \subseteq Ids)'
  BY FormulaPrimed DEF WatchInv
<1> QED
  BY <1>4, <1>5 DEF WatchInv

LEMMA WatchSolve ==
  ASSUME Inv, FramesInv, WatchInv, Solve
  PROVE  WatchInv'
<1> DEFINE n == Len(frames)
<1>1. /\ pc = "branch" /\ pc' = "assign" /\ reviewWatcher' = {}
      /\ UNCHANGED <<clauses, currentValue, watcher>>
  BY DEF Solve, Branching, manager
<1>2. /\ n \in Nat /\ n > 0 /\ Len(frames') = n + 1
      /\ \A d \in 0 .. n : LitsIn(frames, d)' = LitsIn(frames, d)
  BY TopFacts, FramesSolve
<1>3. Reviewed = n /\ Reviewed' = n
  BY <1>1, <1>2 DEF Reviewed
<1>4. \A d \in 1 .. n : \A c \in OpenIn(LitsIn(frames, d)) :
        watcher[c] \in FreeLits(c, LitsIn(frames, d))
  BY <1>3 DEF WatchInv
<1>5. (\A d \in 1 .. Reviewed : \A c \in OpenIn(LitsIn(frames, d)) :
         watcher[c] \in FreeLits(c, LitsIn(frames, d)))'
  BY <1>1, <1>2, <1>3, <1>4, FormulaPrimed
<1>6. \A c \in OpenIn(currentValue) : watcher[c] \in FreeLits(c, currentValue)
  <2>1. currentValue = LitsIn(frames, n) /\ n \in 1 .. n
    BY <1>1, <1>2, ValuesKnown
  <2> QED
    BY <1>4, <2>1
<1>7. (\A c \in OpenIn(currentValue) : watcher[c] \in FreeLits(c, currentValue))'
  BY <1>1, <1>6, FormulaPrimed
<1>8. /\ (watcher \in [Ids -> Lit])' /\ (\A c \in Ids : watcher[c] \in clauses[c])'
      /\ (reviewWatcher \subseteq Ids)'
  BY <1>1, FormulaPrimed DEF WatchInv
<1> QED
  BY <1>5, <1>7, <1>8 DEF WatchInv

LEMMA WatchNextComponent ==
  ASSUME Inv, FramesInv, WatchInv, NextComponent
  PROVE  WatchInv'
<1> DEFINE n == Len(frames)
<1>1. /\ pc = "components" /\ pc' = "restrict"
      /\ UNCHANGED <<clauses, currentValue, watcher, reviewWatcher>>
  BY DEF NextComponent, manager
<1>2. /\ n \in Nat /\ n > 0 /\ Len(frames') = n + 1
      /\ \A d \in 0 .. n + 1 : LitsIn(frames, d)' = LitsIn(frames', d)
      /\ \A d \in 0 .. n : LitsIn(frames', d) = LitsIn(frames, d)
      /\ LitsIn(frames', n + 1) = currentValue
  BY TopFacts, FramesNextComponent
<1>3. Reviewed = n /\ Reviewed' = n + 1
  BY <1>1, <1>2 DEF Reviewed
<1>4. currentValue = LitsIn(frames, n)
  BY <1>1, ValuesKnown
<1>5. \A d \in 1 .. n : \A c \in OpenIn(LitsIn(frames, d)) :
        watcher[c] \in FreeLits(c, LitsIn(frames, d))
  BY <1>3 DEF WatchInv
<1>6. ASSUME NEW d \in 1 .. n + 1
      PROVE  \E e \in 1 .. n : LitsIn(frames, d)' = LitsIn(frames, e)
  <2>1. CASE d \in 1 .. n
    <3>1. LitsIn(frames, d)' = LitsIn(frames, d)
      BY <1>2, <2>1
    <3> QED
      BY <2>1, <3>1
  <2>2. CASE d = n + 1
    <3>1. LitsIn(frames, d)' = LitsIn(frames, n) /\ n \in 1 .. n
      BY <1>2, <1>4, <2>2
    <3> QED
      BY <3>1
  <2> QED
    BY <1>2, <2>1, <2>2
<1>7. (\A d \in 1 .. Reviewed : \A c \in OpenIn(LitsIn(frames, d)) :
         watcher[c] \in FreeLits(c, LitsIn(frames, d)))'
  <2> SUFFICES ASSUME NEW d \in 1 .. n + 1, NEW c \in OpenIn(LitsIn(frames, d)')
               PROVE  watcher[c] \in FreeLits(c, LitsIn(frames, d)')
    BY <1>1, <1>3, FormulaPrimed
  <2>1. PICK e \in 1 .. n : LitsIn(frames, d)' = LitsIn(frames, e)
    BY <1>6
  <2> QED
    BY <1>5, <2>1
<1>8. /\ (watcher \in [Ids -> Lit])' /\ (\A c \in Ids : watcher[c] \in clauses[c])'
      /\ (reviewWatcher \subseteq Ids)'
  BY <1>1, FormulaPrimed DEF WatchInv
<1> QED
  BY <1>1, <1>7, <1>8 DEF WatchInv

LEMMA WatchAssign ==
  ASSUME Inv, FramesInv, WatchInv, Assign
  PROVE  WatchInv'
<1> DEFINE l == Top.lits[i]
<1>1. /\ pc = "assign" /\ pc' = pc /\ i <= Len(Top.lits)
      /\ currentValue' = currentValue \cup {l}
      /\ reviewWatcher' = reviewWatcher \cup {c \in occList[Neg(l)] : watcher[c] = Neg(l)}
      /\ UNCHANGED <<clauses, watcher, frames>>
  BY DEF Assign
<1>2. l \in Lit /\ Undef(l) /\ Neg(l) \in Lit /\ Neg(Neg(l)) = l /\ Undef(Neg(l))
  <2>1. l \in Lit /\ VarOf(l) \notin TrailVars(trail)
    BY <1>1, NextLiteral
  <2>2. trail \in Seq(Lit) /\ currentValue = TrailLits(trail)
    BY DEF Inv, TrailInv
  <2>3. Undef(l)
    BY <2>1, <2>2, UndefTrail
  <2>4. Neg(l) \in Lit /\ Neg(Neg(l)) = l
    BY <2>1, SameVar
  <2> QED
    BY <2>1, <2>3, <2>4 DEF Undef
<1> HIDE DEF l
<1>3. /\ Len(frames) \in Nat /\ Reviewed' = Reviewed
      /\ \A d : LitsIn(frames, d)' = LitsIn(frames, d)
  BY <1>1, TopFacts DEF Reviewed, LitsIn, FrameLits
<1>4. (\A d \in 1 .. Reviewed : \A c \in OpenIn(LitsIn(frames, d)) :
         watcher[c] \in FreeLits(c, LitsIn(frames, d)))'
  BY <1>1, <1>3, FormulaPrimed DEF WatchInv
<1>5. watcher \in [Ids -> Lit] /\ (\A c \in Ids : watcher[c] \in clauses[c]) /\ reviewWatcher \subseteq Ids
  BY DEF WatchInv
<1>6. reviewWatcher' \subseteq Ids
  BY <1>1, <1>2, <1>5, ListOpen DEF OpenIn
<1>7. ASSUME NEW c \in OpenIn(currentValue')
      PROVE  watcher[c] \in FreeLits(c, currentValue') \/ c \in reviewWatcher'
  <2>1. c \in OpenIn(currentValue) /\ c \in Ids /\ l \notin clauses[c]
    BY <1>1 DEF OpenIn
  <2>2. watcher[c] \in FreeLits(c, currentValue) \/ c \in reviewWatcher
    BY <1>1, <2>1 DEF WatchInv
  <2>3. watcher[c] \in Lit /\ watcher[c] \in clauses[c] /\ watcher[c] # l
    BY <1>5, <2>1
  <2>4. CASE watcher[c] = Neg(l)
    <3>1. c \in occList[Neg(l)]
      BY <1>2, <2>1, <2>3, <2>4, ListOpen
    <3> QED
      BY <1>1, <2>4, <3>1
  <2>5. CASE watcher[c] # Neg(l) /\ watcher[c] \in FreeLits(c, currentValue)
    <3>1. Neg(Neg(watcher[c])) = watcher[c]
      BY <2>3, SameVar
    <3>2. Neg(watcher[c]) # l
      BY <2>5, <3>1
    <3> QED
      BY <1>1, <2>3, <2>5, <3>2 DEF FreeLits
  <2> QED
    BY <1>1, <2>2, <2>4, <2>5
<1>8. (\A c \in OpenIn(currentValue) :
         watcher[c] \in FreeLits(c, currentValue) \/ c \in reviewWatcher)'
  BY <1>1, <1>7, FormulaPrimed
<1>9. (watcher \in [Ids -> Lit])' /\ (\A c \in Ids : watcher[c] \in clauses[c])' /\ (reviewWatcher \subseteq Ids)'
  BY <1>1, <1>5, <1>6, FormulaPrimed
<1> QED
  BY <1>4, <1>8, <1>9 DEF WatchInv

\* A clause whose watcher was assigned and that is open finds another one.
LEMMA WatchReview ==
  ASSUME Inv, FramesInv, WatchInv, Review
  PROVE  WatchInv'
<1> DEFINE n == Len(frames)
           L(d) == LitsIn(frames, d)
<1>1. /\ pc = "assign" /\ pc' = "keep" /\ i > Len(Top.lits) /\ reviewWatcher' = {}
      /\ watcher' \in [Ids -> Lit] /\ \A c \in Ids : watcher'[c] \in MayWatch(c)
      /\ UNCHANGED <<clauses, frames>>
  BY DEF Review, Ids
<1>2. /\ n \in Nat /\ n > 0 /\ Reviewed = n - 1 /\ Reviewed' = n
      /\ \A d : LitsIn(frames, d)' = LitsIn(frames, d)
  BY <1>1, TopFacts DEF Reviewed, LitsIn, FrameLits
<1>3. Top.kind = "call" /\ Top.lits \in Seq(Lit) /\ i - 1 = Len(Top.lits) /\ Len(Top.lits) \in Nat
  BY <1>1, TopFacts DEF Inv, CallInv
<1>4. currentValue = L(n)
  <2>1. FrameLits(Top) = {Top.lits[j] : j \in 1 .. i - 1}
    BY <1>3 DEF FrameLits
  <2> QED
    BY <1>1, <2>1, ValuesKnown
<1>5. Propagated(L(n))
  <2>1. LevelOK(Top, L(n))
    BY <1>2 DEF FramesInv, Levels, Top
  <2> QED
    BY <1>3, <2>1 DEF LevelOK
<1>6. clauses \in Seq(SUBSET Lit) /\ watcher \in [Ids -> Lit] /\ \A c \in Ids : watcher[c] \in clauses[c]
  BY DEF Inv, ListsInv, WatchInv
<1>7. \A c : {l \in clauses[c] : Undef(l)} = FreeLits(c, L(n))
  BY <1>4, FreeNow
<1> DEFINE chosen(c) == c \in reviewWatcher /\ nbSat[c] = 0 /\ FreeLits(c, L(n)) # {}
<1>8. \A c \in Ids : IF chosen(c) THEN watcher'[c] \in FreeLits(c, L(n)) ELSE watcher'[c] = watcher[c]
  BY <1>1, <1>7 DEF MayWatch
<1>9. \A d \in 1 .. n : L(d) \subseteq L(n)
  BY <1>2, LitsGrow
<1>10. ASSUME NEW d \in 1 .. n, NEW c \in OpenIn(L(d))
       PROVE  watcher'[c] \in FreeLits(c, L(d))
  <2>1. c \in Ids
    BY DEF OpenIn
  <2>2. CASE chosen(c)
    BY <1>8, <1>9, <2>1, <2>2, FreeShrinks
  <2>3. CASE ~ chosen(c) /\ d \in 1 .. n - 1
    BY <1>2, <1>8, <2>1, <2>3 DEF WatchInv
  <2>4. CASE ~ chosen(c) /\ d = n
    <3>1. nbSat[c] = 0
      BY <1>4, <1>10, <2>1, <2>4, SatOpen
    <3>2. FreeLits(c, L(n)) # {}
      BY <1>5, <1>6, <1>10, <2>4, TwoFree
    <3>3. c \notin reviewWatcher
      BY <2>4, <3>1, <3>2
    <3>4. watcher[c] \in FreeLits(c, L(n))
      BY <1>1, <1>4, <1>10, <2>4, <3>3 DEF WatchInv
    <3> QED
      BY <1>8, <2>1, <2>4, <3>4
  <2> QED
    BY <1>2, <2>2, <2>3, <2>4
<1> HIDE DEF L, chosen
<1>11. (\A d \in 1 .. Reviewed : \A c \in OpenIn(LitsIn(frames, d)) :
          watcher[c] \in FreeLits(c, LitsIn(frames, d)))'
  BY <1>1, <1>2, <1>10, FormulaPrimed DEF L
<1>12. \A c \in Ids : watcher'[c] \in clauses[c]
  <2> SUFFICES ASSUME NEW c \in Ids PROVE watcher'[c] \in clauses[c]
    OBVIOUS
  <2>1. FreeLits(c, L(n)) \subseteq clauses[c]
    BY DEF FreeLits
  <2> QED
    BY <1>6, <1>8, <2>1
<1>13. (watcher \in [Ids -> Lit])' /\ (\A c \in Ids : watcher[c] \in clauses[c])' /\ (reviewWatcher \subseteq Ids)'
  BY <1>1, <1>12, FormulaPrimed
<1> QED
  BY <1>1, <1>11, <1>13 DEF WatchInv

(***************************************************************************)
(* The array of the current clauses, step by step.                         *)
(***************************************************************************)

LEMMA LivePrimed ==
  ASSUME clauses' = clauses, NEW d, LitsIn(frames, d)' = LitsIn(frames, d),
         (frames')[d].vars = frames[d].vars
  PROVE  LiveAt(d)' = LiveAt(d)
  BY DEF LiveAt, LiveIn, OpenIn, FreeVars, FreeLits, Ids

LEMMA PrefixPrimed ==
  ASSUME currentIdx' = currentIdx
  PROVE  \A m : Prefix(m)' = Prefix(m)
  BY DEF Prefix

LEMMA InitArray == Init => ArrayInv /\ LoopInv
<1> SUFFICES ASSUME Init PROVE ArrayInv /\ LoopInv
  OBVIOUS
<1>1. /\ clauses \in Seq(SUBSET Lit) /\ Len(clauses) \in Nat /\ Ids = 1 .. Len(clauses)
      /\ Len(frames) = 1 /\ pc = "branch" /\ stackSize = <<>> /\ currentSize = Len(clauses)
      /\ currentIdx = [c \in Ids |-> c]
  BY FormulasAssumption DEF Init, Ids
<1>2. currentSize \in Sizes /\ stackSize \in Seq(Sizes) /\ Len(stackSize) = 0
  BY <1>1 DEF Sizes
<1>3. Depth = 1 /\ SizeAt(1) = currentSize
  BY <1>1, <1>2 DEF Depth, SizeAt
<1>4. Prefix(currentSize) = Ids
  BY <1>1 DEF Prefix
<1>5. LiveAt(1) = Ids
  <2>1. frames[1].kind = "component" /\ frames[1].vars = Var
    BY DEF Init, ComponentFrame
  <2>2. 1 .. 1 = {1}
    OBVIOUS
  <2>3. LitsIn(frames, 1) = {}
    BY <2>1, <2>2 DEF LitsIn, FrameLits
  <2>4. \A c \in Ids : FreeVars(c, {}) \subseteq Var
    BY <1>1, SameVar DEF FreeVars, FreeLits
  <2> QED
    BY <2>1, <2>3, <2>4 DEF LiveAt, LiveIn, OpenIn
<1>6. \A d \in 1 .. Depth : Prefix(SizeAt(d)) = LiveAt(d)
  <2>1. \A d \in 1 .. Depth : d = 1
    BY <1>3
  <2> QED
    BY <1>3, <1>4, <1>5, <2>1
<1>7. ArrayInv
  BY <1>1, <1>2, <1>6 DEF ArrayInv
<1> QED
  BY <1>1, <1>7 DEF LoopInv

\* Steps that touch none of the sizes, nor the levels they delimit.
LEMMA ArrayKept ==
  ASSUME ArrayInv, UNCHANGED <<clauses, sets>>,
         Len(stackSize) = Len(frames') - (IF pc' = "assign" THEN 2 ELSE 1),
         Depth' = Depth, \A d \in 1 .. Depth : LiveAt(d)' = LiveAt(d)
  PROVE  ArrayInv'
<1>1. /\ currentIdx' = currentIdx /\ currentSize' = currentSize /\ stackSize' = stackSize
      /\ Ids' = Ids /\ Sizes' = Sizes
  BY DEF sets, Ids, Sizes
<1>2. \A d : Prefix(SizeAt(d))' = Prefix(SizeAt(d))
  BY <1>1 DEF Prefix, SizeAt
<1>3. (\A d \in 1 .. Depth : Prefix(SizeAt(d)) = LiveAt(d))'
  BY <1>2 DEF ArrayInv
<1> QED
  BY <1>1, <1>3 DEF ArrayInv

\* The size is stacked.
LEMMA ArrayPush ==
  ASSUME ArrayInv, UNCHANGED <<clauses, currentIdx, currentSize>>,
         stackSize' = Append(stackSize, currentSize), pc' # "assign",
         Depth = Len(stackSize) + 1, Depth' = Depth, Len(frames') = Depth + 1,
         \A d \in 1 .. Depth : LiveAt(d)' = LiveAt(d)
  PROVE  ArrayInv' /\ Prefix(currentSize)' = LiveAt(Depth)'
<1> DEFINE m == Len(stackSize)
           s == Append(stackSize, currentSize)
<1>1. /\ stackSize \in Seq(Sizes) /\ currentSize \in Sizes /\ m \in Nat
      /\ \A d \in 1 .. m : currentSize <= stackSize[d]
      /\ \A d, e \in 1 .. m : d < e => stackSize[e] <= stackSize[d]
      /\ \A d \in 1 .. m : stackSize[d] \in Sizes
  BY DEF ArrayInv
<1>2. Ids' = Ids /\ Sizes' = Sizes /\ \A k \in Sizes : k \in Int
  BY DEF Ids, Sizes
<1>3. /\ s \in Seq(Sizes) /\ Len(s) = m + 1
      /\ (\A d \in 1 .. m : s[d] = stackSize[d]) /\ s[m + 1] = currentSize
  BY <1>1, AppendProperties
<1> HIDE DEF s
<1>4. \A d \in 1 .. m + 1 : currentSize <= s[d]
  <2>1. currentSize <= currentSize
    BY <1>1, <1>2
  <2>2. \A d \in 1 .. m + 1 : d \in 1 .. m \/ d = m + 1
    BY <1>1
  <2> QED
    BY <1>1, <1>3, <2>1, <2>2
<1>5. \A d, e \in 1 .. m + 1 : d < e => s[e] <= s[d]
  <2> SUFFICES ASSUME NEW d \in 1 .. m + 1, NEW e \in 1 .. m + 1, d < e PROVE s[e] <= s[d]
    OBVIOUS
  <2>1. d \in 1 .. m /\ s[d] = stackSize[d]
    BY <1>1, <1>3
  <2>2. CASE e \in 1 .. m
    BY <1>1, <1>3, <2>1, <2>2
  <2>3. CASE e = m + 1
    BY <1>1, <1>3, <2>1, <2>3
  <2> QED
    BY <1>1, <2>2, <2>3
<1>6. \A d \in 1 .. Depth : SizeAt(d)' = SizeAt(d)
  <2> SUFFICES ASSUME NEW d \in 1 .. m + 1 PROVE SizeAt(d)' = SizeAt(d)
    OBVIOUS
  <2>1. stackSize' = s
    BY DEF s
  <2>2. CASE d \in 1 .. m
    BY <1>1, <1>3, <2>1, <2>2 DEF SizeAt
  <2>3. CASE d = m + 1
    BY <1>1, <1>3, <2>1, <2>3 DEF SizeAt
  <2> QED
    BY <1>1, <2>2, <2>3
<1>7. \A d \in 1 .. Depth : Prefix(SizeAt(d))' = LiveAt(d)'
  <2> SUFFICES ASSUME NEW d \in 1 .. Depth PROVE Prefix(SizeAt(d))' = LiveAt(d)'
    OBVIOUS
  <2>1. Prefix(SizeAt(d))' = Prefix(SizeAt(d))
    BY <1>6 DEF Prefix
  <2> QED
    BY <2>1 DEF ArrayInv
<1>8. ArrayInv'
  <2>1. /\ (currentIdx \in [Ids -> Ids])'
        /\ (\A j, k \in Ids : currentIdx[j] = currentIdx[k] => j = k)'
    BY <1>2 DEF ArrayInv
  <2>2. /\ (currentSize \in Sizes)' /\ (stackSize \in Seq(Sizes))'
        /\ (Len(stackSize) = Len(frames) - (IF pc = "assign" THEN 2 ELSE 1))'
    BY <1>1, <1>2, <1>3 DEF s
  <2>3. /\ (\A d \in 1 .. Len(stackSize) : currentSize <= stackSize[d])'
        /\ (\A d, e \in 1 .. Len(stackSize) : d < e => stackSize[e] <= stackSize[d])'
    BY <1>3, <1>4, <1>5 DEF s
  <2>4. (\A d \in 1 .. Depth : Prefix(SizeAt(d)) = LiveAt(d))'
    BY <1>7
  <2> QED
    BY <2>1, <2>2, <2>3, <2>4 DEF ArrayInv
<1>9. Depth \in 1 .. Depth /\ SizeAt(Depth) = currentSize
  BY <1>1 DEF SizeAt
<1>10. Prefix(currentSize)' = LiveAt(Depth)'
  <2>1. Prefix(currentSize)' = Prefix(currentSize)
    BY DEF Prefix
  <2>2. Prefix(SizeAt(Depth)) = LiveAt(Depth)
    BY <1>9 DEF ArrayInv
  <2>3. \A d \in 1 .. Depth : LiveAt(d)' = LiveAt(d)
    OBVIOUS
  <2>4. LiveAt(Depth)' = LiveAt(Depth)
    BY <1>9, <2>3
  <2> QED
    BY <1>9, <2>1, <2>2, <2>4
<1> QED
  BY <1>8, <1>10

\* A stacked size comes back.
LEMMA ArrayPop ==
  ASSUME ArrayInv, UNCHANGED clauses, PopPreviousClauseSet, pc \notin {"assign", "keep", "restrict"},
         pc' \in {"components", "branch"},
         Len(frames) \in Nat, Len(frames) > 1, Len(frames') = Len(frames) - 1,
         \A d \in 1 .. Len(frames) - 1 : LiveAt(d)' = LiveAt(d)
  PROVE  ArrayInv'
<1> DEFINE m == Len(stackSize)
           s == SubSeq(stackSize, 1, m - 1)
<1>1. /\ stackSize \in Seq(Sizes) /\ currentSize \in Sizes /\ m \in Nat /\ m > 0
      /\ m = Len(frames) - 1 /\ Depth = m + 1 /\ Depth' = m
      /\ \A d, e \in 1 .. m : d < e => stackSize[e] <= stackSize[d]
      /\ \A d \in 1 .. m : stackSize[d] \in Sizes
  BY DEF ArrayInv, Depth
<1>2. Ids' = Ids /\ Sizes' = Sizes
  BY DEF Ids, Sizes
<1>3. currentSize' = stackSize[m] /\ stackSize' = s /\ currentIdx' = currentIdx
  BY DEF PopPreviousClauseSet
<1>4. /\ s \in Seq(Sizes) /\ Len(s) = m - 1
      /\ (\A d \in 1 .. m - 1 : s[d] = stackSize[d])
  BY <1>1
<1> HIDE DEF s
<1>5. \A d \in 1 .. m - 1 : stackSize[m] <= s[d]
  BY <1>1, <1>4
<1>6. \A d, e \in 1 .. m - 1 : d < e => s[e] <= s[d]
  <2> SUFFICES ASSUME NEW d \in 1 .. m - 1, NEW e \in 1 .. m - 1, d < e PROVE s[e] <= s[d]
    OBVIOUS
  <2>1. d \in 1 .. m /\ e \in 1 .. m
    BY <1>1
  <2>2. stackSize[e] <= stackSize[d]
    BY <1>1, <2>1
  <2> QED
    BY <1>4, <2>2
<1>7. \A d \in 1 .. m : SizeAt(d)' = SizeAt(d)
  <2> SUFFICES ASSUME NEW d \in 1 .. m PROVE SizeAt(d)' = SizeAt(d)
    OBVIOUS
  <2>1. CASE d \in 1 .. m - 1
    BY <1>1, <1>3, <1>4, <2>1 DEF SizeAt
  <2>2. CASE d = m
    BY <1>1, <1>3, <1>4, <2>2 DEF SizeAt
  <2> QED
    BY <1>1, <2>1, <2>2
<1>8. \A d \in 1 .. m : Prefix(SizeAt(d))' = LiveAt(d)'
  <2> SUFFICES ASSUME NEW d \in 1 .. m PROVE Prefix(SizeAt(d))' = LiveAt(d)'
    OBVIOUS
  <2>1. Prefix(SizeAt(d))' = Prefix(SizeAt(d))
    BY <1>3, <1>7 DEF Prefix
  <2>2. d \in 1 .. Depth /\ d \in 1 .. Len(frames) - 1
    BY <1>1
  <2> QED
    BY <2>1, <2>2 DEF ArrayInv
<1>9. /\ (currentIdx \in [Ids -> Ids])'
      /\ (\A j, k \in Ids : currentIdx[j] = currentIdx[k] => j = k)'
  BY <1>2, <1>3 DEF ArrayInv
<1>10. /\ (currentSize \in Sizes)' /\ (stackSize \in Seq(Sizes))'
       /\ (Len(stackSize) = Len(frames) - (IF pc = "assign" THEN 2 ELSE 1))'
  BY <1>1, <1>2, <1>3, <1>4
<1>11. /\ (\A d \in 1 .. Len(stackSize) : currentSize <= stackSize[d])'
       /\ (\A d, e \in 1 .. Len(stackSize) : d < e => stackSize[e] <= stackSize[d])'
  BY <1>3, <1>4, <1>5, <1>6
<1>12. (\A d \in 1 .. Depth : Prefix(SizeAt(d)) = LiveAt(d))'
  BY <1>1, <1>8
<1> QED
  BY <1>9, <1>10, <1>11, <1>12 DEF ArrayInv

(***************************************************************************)
(* The loops that drop clauses.                                            *)
(***************************************************************************)

\* An exchange at the end of the current set takes one clause from it and
\* changes nothing for the sizes that are stacked.
LEMMA DropPrefix ==
  ASSUME ArrayInv, clauses \in Seq(SUBSET Lit), i \in 1 .. currentSize, Drop
  PROVE  /\ currentIdx' \in [Ids -> Ids]
         /\ \A j, k \in Ids : currentIdx'[j] = currentIdx'[k] => j = k
         /\ currentSize' = currentSize - 1 /\ currentSize' \in Sizes
         /\ \A m \in Sizes : m >= currentSize => Prefix(m)' = Prefix(m)
         /\ Prefix(currentSize)' = Prefix(currentSize) \ {Scanned}
         /\ \A j \in 1 .. currentSize - 1 : j < i => currentIdx'[j] = currentIdx[j]
<1> DEFINE s == currentSize
           new == currentIdx'
<1>1. /\ currentIdx \in [Ids -> Ids] /\ Ids = 1 .. Len(clauses) /\ Len(clauses) \in Nat
      /\ \A j, k \in Ids : currentIdx[j] = currentIdx[k] => j = k
      /\ s \in Nat /\ s <= Len(clauses) /\ i \in Nat /\ 1 <= i /\ i <= s
      /\ i \in Ids /\ s \in Ids
  BY DEF ArrayInv, Ids, Sizes
<1>2. new = [currentIdx EXCEPT ![i] = currentIdx[s], ![s] = currentIdx[i]]
  BY DEF Drop
<1>3. /\ new \in [Ids -> Ids]
      /\ new[i] = currentIdx[s] /\ new[s] = currentIdx[i]
      /\ \A j \in Ids : j # i /\ j # s => new[j] = currentIdx[j]
  BY <1>1, <1>2
<1> HIDE DEF new
<1>4. \A j, k \in Ids : new[j] = new[k] => j = k
  BY <1>1, <1>3
<1>5. ASSUME NEW m \in Sizes, m >= s
      PROVE  {new[j] : j \in 1 .. m} = {currentIdx[j] : j \in 1 .. m}
  <2>1. m \in Nat /\ m <= Len(clauses) /\ i \in 1 .. m /\ s \in 1 .. m /\ 1 .. m \subseteq Ids
    BY <1>1, <1>5 DEF Sizes
  <2>2. ASSUME NEW j \in 1 .. m
        PROVE  /\ \E k \in 1 .. m : new[j] = currentIdx[k]
               /\ \E k \in 1 .. m : currentIdx[j] = new[k]
    <3>1. CASE j = i
      BY <1>3, <2>1, <3>1
    <3>2. CASE j = s
      BY <1>3, <2>1, <3>2
    <3>3. CASE j # i /\ j # s
      BY <1>3, <2>1, <3>3
    <3> QED
      BY <3>1, <3>2, <3>3
  <2>3. {new[j] : j \in 1 .. m} \subseteq {currentIdx[j] : j \in 1 .. m}
    <3>1. \A j \in 1 .. m : \E k \in 1 .. m : new[j] = currentIdx[k]
      BY <2>2
    <3> QED
      BY <3>1
  <2>4. {currentIdx[j] : j \in 1 .. m} \subseteq {new[j] : j \in 1 .. m}
    <3>1. \A j \in 1 .. m : \E k \in 1 .. m : currentIdx[j] = new[k]
      BY <2>2
    <3> QED
      BY <3>1
  <2> QED
    BY <2>3, <2>4
<1>6. {new[j] : j \in 1 .. s - 1} = {currentIdx[j] : j \in 1 .. s} \ {currentIdx[i]}
  <2>1. 1 .. s - 1 \subseteq Ids /\ 1 .. s \subseteq Ids
    BY <1>1
  <2>2. ASSUME NEW j \in 1 .. s - 1
        PROVE  new[j] # currentIdx[i] /\ \E k \in 1 .. s : new[j] = currentIdx[k]
    <3>1. j \in Ids /\ j # s /\ new[j] # new[s] /\ j \in 1 .. s /\ s \in 1 .. s
      BY <1>1, <1>4, <2>1
    <3>2. CASE j = i
      BY <1>3, <3>1, <3>2
    <3>3. CASE j # i
      BY <1>3, <3>1, <3>3
    <3> QED
      BY <3>2, <3>3
  <2>3. ASSUME NEW j \in 1 .. s, currentIdx[j] # currentIdx[i]
        PROVE  \E k \in 1 .. s - 1 : currentIdx[j] = new[k]
    <3>1. CASE j = s
      <4>1. i \in 1 .. s - 1
        BY <1>1, <2>3, <3>1
      <4> QED
        BY <1>3, <3>1, <4>1
    <3>2. CASE j # s
      <4>1. j \in 1 .. s - 1 /\ j # i /\ j \in Ids
        BY <1>1, <2>1, <2>3, <3>2
      <4> QED
        BY <1>3, <3>2, <4>1
    <3> QED
      BY <3>1, <3>2
  <2> QED
    BY <2>2, <2>3
<1>7. \A j \in 1 .. s - 1 : j < i => new[j] = currentIdx[j]
  <2>1. \A j \in 1 .. s - 1 : j \in Ids /\ (j < i => j # i /\ j # s)
    BY <1>1
  <2> QED
    BY <1>3, <2>1
<1>8. currentSize' = s - 1 /\ s - 1 \in Sizes
  BY <1>1 DEF Drop, Sizes
<1>9. \A m \in Sizes : m >= s => Prefix(m)' = Prefix(m)
  BY <1>5 DEF Prefix, new
<1>10. Prefix(currentSize)' = Prefix(currentSize) \ {Scanned}
  BY <1>6, <1>8 DEF Prefix, Scanned, new
<1> QED
  BY <1>3, <1>4, <1>7, <1>8, <1>9, <1>10 DEF new

\* The sizes at the levels below the one that is made are not less.
LEMMA SizesBelow ==
  ASSUME ArrayInv, Len(frames) \in Nat, pc \in {"keep", "restrict"}
  PROVE  /\ Depth = Len(frames) - 1 /\ Len(stackSize) = Depth
         /\ \A d \in 1 .. Depth : SizeAt(d) = stackSize[d] /\ SizeAt(d) \in Sizes /\ SizeAt(d) >= currentSize
<1>1. Depth = Len(frames) - 1 /\ Len(stackSize) = Depth
  BY DEF Depth, ArrayInv
<1>2. ASSUME NEW d \in 1 .. Depth
      PROVE  SizeAt(d) = stackSize[d] /\ SizeAt(d) \in Sizes /\ SizeAt(d) >= currentSize
  <2>1. d \in 1 .. Len(stackSize) /\ stackSize \in Seq(Sizes) /\ currentSize <= stackSize[d]
    BY <1>1 DEF ArrayInv
  <2>2. SizeAt(d) = stackSize[d]
    BY <2>1 DEF SizeAt
  <2>3. currentSize \in Sizes /\ stackSize[d] \in Sizes
    BY <2>1 DEF ArrayInv
  <2> QED
    BY <2>1, <2>2, <2>3 DEF Sizes
<1> QED
  BY <1>1, <1>2

LEMMA KeptPrimed ==
  ASSUME UNCHANGED <<pc, nbSat, watcher, frames>>
  PROVE  \A c : Kept(c)' = Kept(c)
  BY DEF Kept, InComponent, Top

\* An iteration of either loop.
LEMMA LoopStep ==
  ASSUME Inv, ArrayInv, LoopInv, Keep \/ RestrictSet
  PROVE  ArrayInv' /\ LoopInv'
<1> DEFINE n == Len(frames)
           c0 == Scanned
<1>1. /\ pc \in {"keep", "restrict"} /\ i <= currentSize
      /\ UNCHANGED <<clauses, nbSat, watcher, frames, pc>>
      /\ IF Kept(c0) THEN ScanNext ELSE Drop
  BY DEF Keep, RestrictSet, Kept, manager
<1>2. /\ n \in Nat /\ clauses \in Seq(SUBSET Lit) /\ i \in Nat /\ currentSize \in Sizes
      /\ \A k \in Sizes : k \in Nat
  BY TopFacts DEF Inv, ListsInv, CallInv, ArrayInv, Sizes
<1>3. /\ i >= 1 /\ n > 1
      /\ Prefix(currentSize) \subseteq LiveAt(n - 1)
      /\ \A c \in LiveAt(n - 1) : Kept(c) => c \in Prefix(currentSize)
      /\ \A j \in 1 .. currentSize : j < i => Kept(currentIdx[j])
  BY <1>1 DEF LoopInv
<1>4. (\A c : Kept(c)' = Kept(c)) /\ \A d : LiveAt(d)' = LiveAt(d)
  <2>1. \A d : LiveAt(d)' = LiveAt(d)
    BY <1>1 DEF LiveAt, LiveIn, OpenIn, FreeVars, FreeLits, Ids, LitsIn, FrameLits
  <2> QED
    BY <1>1, <2>1, KeptPrimed
<1>5. Depth' = Depth /\ Len(frames') = n
  BY <1>1 DEF Depth
<1>6. CASE Kept(c0)
  <2>1. i' = i + 1 /\ UNCHANGED sets /\ UNCHANGED <<currentIdx, currentSize, stackSize>>
    BY <1>1, <1>6 DEF ScanNext, sets
  <2>2. ArrayInv'
    <3>1. Len(stackSize) = Len(frames') - (IF pc' = "assign" THEN 2 ELSE 1)
      BY <1>1, <1>5 DEF ArrayInv
    <3> QED
      BY <1>1, <1>4, <1>5, <2>1, <3>1, ArrayKept
  <2>3. \A m : Prefix(m)' = Prefix(m)
    BY <2>1, PrefixPrimed
  <2>4. \A j \in 1 .. currentSize : j < i + 1 => Kept(currentIdx[j])
    <3> SUFFICES ASSUME NEW j \in 1 .. currentSize, j < i + 1 PROVE Kept(currentIdx[j])
      OBVIOUS
    <3>1. CASE j = i
      BY <1>6, <3>1 DEF Scanned
    <3>2. CASE j # i
      BY <1>2, <1>3, <3>2
    <3> QED
      BY <3>1, <3>2
  <2>5. Prefix(currentSize)' = Prefix(currentSize)
    BY <2>1 DEF Prefix
  <2>6. /\ (i >= 1 /\ Len(frames) > 1)'
        /\ (\A j \in 1 .. currentSize : j < i => Kept(currentIdx[j]))'
    BY <1>1, <1>2, <1>3, <1>4, <2>1, <2>4
  <2>7. /\ (Prefix(currentSize) \subseteq LiveAt(Len(frames) - 1))'
        /\ (\A c \in LiveAt(Len(frames) - 1) : Kept(c) => c \in Prefix(currentSize))'
    BY <1>1, <1>3, <1>4, <2>5
  <2> QED
    BY <2>2, <2>6, <2>7 DEF LoopInv
<1>7. CASE ~ Kept(c0)
  <2>1. Drop /\ i \in 1 .. currentSize /\ i' = i /\ stackSize' = stackSize
    BY <1>1, <1>2, <1>3, <1>7 DEF Drop
  <2>2. /\ currentIdx' \in [Ids -> Ids]
        /\ \A j, k \in Ids : currentIdx'[j] = currentIdx'[k] => j = k
        /\ currentSize' = currentSize - 1 /\ currentSize' \in Sizes
        /\ \A m \in Sizes : m >= currentSize => Prefix(m)' = Prefix(m)
        /\ Prefix(currentSize)' = Prefix(currentSize) \ {c0}
        /\ \A j \in 1 .. currentSize - 1 : j < i => currentIdx'[j] = currentIdx[j]
    BY <1>2, <2>1, DropPrefix
  <2>3. /\ Depth = n - 1 /\ Len(stackSize) = Depth
        /\ \A d \in 1 .. Depth : SizeAt(d) = stackSize[d] /\ SizeAt(d) \in Sizes /\ SizeAt(d) >= currentSize
    BY <1>1, <1>2, SizesBelow
  <2>4. \A d \in 1 .. Depth : Prefix(SizeAt(d))' = LiveAt(d)'
    <3> SUFFICES ASSUME NEW d \in 1 .. Depth PROVE Prefix(SizeAt(d))' = LiveAt(d)'
      OBVIOUS
    <3>1. SizeAt(d)' = SizeAt(d)
      BY <1>2, <2>1, <2>3 DEF SizeAt
    <3>2. Prefix(stackSize[d])' = Prefix(stackSize[d])
      <4>1. stackSize[d] \in Sizes /\ stackSize[d] >= currentSize
        BY <2>3
      <4>2. \A m \in Sizes : m >= currentSize =>
              {currentIdx'[j] : j \in 1 .. m} = {currentIdx[j] : j \in 1 .. m}
        BY <2>2 DEF Prefix
      <4>3. stackSize'[d] = stackSize[d]
        BY <2>1
      <4> QED
        BY <4>1, <4>2, <4>3 DEF Prefix
    <3>3. Prefix(SizeAt(d))' = Prefix(stackSize[d])'
      BY <2>1, <2>3, <3>1 DEF Prefix
    <3>4. Prefix(SizeAt(d)) = LiveAt(d) /\ SizeAt(d) = stackSize[d]
      BY <2>3 DEF ArrayInv
    <3> QED
      BY <1>4, <3>2, <3>3, <3>4
  <2>5. Ids' = Ids /\ Sizes' = Sizes
    BY <1>1 DEF Ids, Sizes
  <2>6. \A d \in 1 .. Len(stackSize) : currentSize - 1 <= stackSize[d]
    <3> SUFFICES ASSUME NEW d \in 1 .. Len(stackSize) PROVE currentSize - 1 <= stackSize[d]
      OBVIOUS
    <3>1. stackSize[d] \in Sizes /\ stackSize[d] >= currentSize
      BY <2>3
    <3>2. stackSize[d] \in Nat /\ currentSize \in Nat
      BY <1>2, <3>1
    <3> QED
      BY <3>1, <3>2
  <2>7. ArrayInv'
    <3>1. /\ (currentIdx \in [Ids -> Ids])'
          /\ (\A j, k \in Ids : currentIdx[j] = currentIdx[k] => j = k)'
      BY <2>2, <2>5
    <3>2. /\ (currentSize \in Sizes)' /\ (stackSize \in Seq(Sizes))'
          /\ (Len(stackSize) = Len(frames) - (IF pc = "assign" THEN 2 ELSE 1))'
      BY <1>1, <1>5, <2>1, <2>2, <2>5 DEF ArrayInv
    <3>3. /\ (\A d \in 1 .. Len(stackSize) : currentSize <= stackSize[d])'
          /\ (\A d, e \in 1 .. Len(stackSize) : d < e => stackSize[e] <= stackSize[d])'
      BY <2>1, <2>2, <2>6 DEF ArrayInv
    <3>4. (\A d \in 1 .. Depth : Prefix(SizeAt(d)) = LiveAt(d))'
      BY <1>5, <2>4
    <3> QED
      BY <3>1, <3>2, <3>3, <3>4 DEF ArrayInv
  <2>8. /\ (i >= 1 /\ Len(frames) > 1)'
        /\ (\A j \in 1 .. currentSize : j < i => Kept(currentIdx[j]))'
    <3>1. \A j \in 1 .. currentSize - 1 : j \in 1 .. currentSize
      BY <1>2
    <3>2. \A j \in 1 .. currentSize - 1 : j < i => Kept(currentIdx'[j])
      BY <1>3, <2>2, <3>1
    <3>3. \A c : Kept(c)' = Kept(c)
      BY <1>4
    <3>4. (\A j \in 1 .. currentSize : j < i => Kept(currentIdx[j]))'
      BY <1>1, <2>1, <2>2, <3>2 DEF Kept, InComponent, Top
    <3> QED
      BY <1>1, <1>3, <2>1, <3>4
  <2>9. /\ (Prefix(currentSize) \subseteq LiveAt(Len(frames) - 1))'
        /\ (\A c \in LiveAt(Len(frames) - 1) : Kept(c) => c \in Prefix(currentSize))'
    <3>1. LiveAt(Len(frames) - 1)' = LiveAt(n - 1)
      BY <1>1 DEF LiveAt, LiveIn, OpenIn, FreeVars, FreeLits, Ids, LitsIn, FrameLits
    <3>2. \A c \in LiveAt(n - 1) : Kept(c) => c \in Prefix(currentSize) \ {c0}
      BY <1>3, <1>7
    <3> QED
      BY <1>3, <1>4, <2>2, <3>1, <3>2
  <2> QED
    BY <2>7, <2>8, <2>9 DEF LoopInv
<1> QED
  BY <1>6, <1>7

\* When a loop ends, what is left is the formula of the new level.
LEMMA LoopEnd ==
  ASSUME Inv, FramesInv, WatchInv, ArrayInv, LoopInv,
         pc \in {"keep", "restrict"}, i > currentSize
  PROVE  Prefix(currentSize) = LiveAt(Len(frames))
<1> DEFINE n == Len(frames)
           below == LitsIn(frames, n - 1)
           now == LitsIn(frames, n)
           vs == frames[n - 1].vars
<1>1. /\ n \in Nat /\ n > 1 /\ Top = frames[n] /\ clauses \in Seq(SUBSET Lit)
      /\ n - 1 \in 1 .. n - 1 /\ n - 1 \in 1 .. n /\ n \in 1 .. n /\ (n - 1) + 1 = n
  BY TopFacts DEF LoopInv, Top, Inv, ListsInv
<1>2. /\ LevelOK(frames[n - 1], below) /\ LevelOK(Top, now) /\ Inside(frames[n - 1], Top)
  BY <1>1 DEF FramesInv, Levels
<1>3. now = below \cup FrameLits(Top) /\ currentValue = now
  BY ValuesKnown
<1>4. \A c \in LiveAt(n - 1) : c \in Ids /\ (nbSat[c] = 0 <=> c \in OpenIn(now))
  BY <1>3, SatOpen DEF LiveAt, LiveIn, OpenIn
<1>5. Prefix(currentSize) = {c \in LiveAt(n - 1) : Kept(c)}
  <2>1. \A c \in Prefix(currentSize) : Kept(c)
    <3>1. currentSize \in Nat /\ i \in Nat
      BY DEF ArrayInv, Sizes, Inv, CallInv
    <3>2. \A j \in 1 .. currentSize : j < i
      BY <3>1
    <3> QED
      BY <3>2 DEF Prefix, LoopInv
  <2> QED
    BY <2>1 DEF LoopInv
<1> HIDE DEF n, below, now, vs
<1>6. CASE pc = "keep"
  <2>1. Top.kind = "call"
    BY <1>6, TopFacts DEF Inv, CallInv
  <2>2. Propagated(now) /\ Separates(vs, below) /\ Top.vars = vs /\ below \subseteq now
    BY <1>2, <1>3, <2>1 DEF LevelOK, Inside, vs
  <2>3. LiveIn(vs, now) = {c \in LiveIn(vs, below) : clauses[c] \cap now = {}}
    BY <1>1, <2>2, InsideSet
  <2>4. LiveAt(n) = LiveIn(vs, now) /\ LiveAt(n - 1) = LiveIn(vs, below)
    BY <1>1, <2>2 DEF LiveAt, now, below, vs, n
  <2>5. \A c \in LiveAt(n - 1) : Kept(c) <=> clauses[c] \cap now = {}
    BY <1>4, <1>6 DEF Kept, OpenIn
  <2>6. Prefix(currentSize) = LiveAt(n)
    BY <1>5, <2>3, <2>4, <2>5
  <2> QED
    BY <2>6 DEF n
<1>7. CASE pc = "restrict"
  <2>1. Top.kind = "component" /\ FrameLits(Top) = {}
    BY <1>7 DEF Inv, CallInv, FrameLits
  <2>2. now = below /\ Separates(Top.vars, now) /\ Top.vars \subseteq vs
    BY <1>2, <1>3, <2>1 DEF LevelOK, Inside, vs
  <2>3. \A c \in OpenIn(now) : watcher[c] \in FreeLits(c, now)
    <3>1. Reviewed = n
      BY <1>1, <1>7 DEF Reviewed, n
    <3> QED
      BY <1>1, <3>1 DEF WatchInv, now, n
  <2>4. \A c \in OpenIn(now) : VarOf(watcher[c]) \in Top.vars <=> FreeVars(c, now) \subseteq Top.vars
    <3> SUFFICES ASSUME NEW c \in OpenIn(now)
                 PROVE  VarOf(watcher[c]) \in Top.vars <=> FreeVars(c, now) \subseteq Top.vars
      OBVIOUS
    <3>1. VarOf(watcher[c]) \in FreeVars(c, now)
      BY <2>3 DEF FreeVars
    <3> QED
      BY <2>2, <3>1 DEF Separates
  <2>5. LiveAt(n) = LiveIn(Top.vars, now) /\ LiveAt(n - 1) = LiveIn(vs, now)
    BY <1>1, <2>2 DEF LiveAt, now, below, vs, n
  <2>6. \A c \in LiveAt(n - 1) : c \in OpenIn(now)
    BY <2>5 DEF LiveIn
  <2>7. \A c \in LiveAt(n - 1) : Kept(c) <=> FreeVars(c, now) \subseteq Top.vars
    BY <1>4, <1>7, <2>4, <2>6 DEF Kept, InComponent
  <2>8. LiveAt(n) = {c \in LiveAt(n - 1) : FreeVars(c, now) \subseteq Top.vars}
    BY <2>2, <2>5 DEF LiveIn
  <2>9. Prefix(currentSize) = LiveAt(n)
    BY <1>5, <2>7, <2>8
  <2> QED
    BY <2>9 DEF n
<1> QED
  BY <1>6, <1>7

(***************************************************************************)
(* The theorems.                                                           *)
(***************************************************************************)

AllInv == Inv /\ ResidualInv

LEMMA InitAll == Init => AllInv
  BY InitInv, InitFrames, InitWatch, InitArray DEF AllInv, ResidualInv

\* Each step keeps the whole: the values and lists first, then the levels.
LEMMA StepAll == AllInv /\ [Next]_vars => AllInv'
<1> SUFFICES ASSUME AllInv, [Next]_vars PROVE AllInv'
  OBVIOUS
<1> DEFINE n == Len(frames)
<1>1. Inv /\ FramesInv /\ WatchInv /\ ArrayInv /\ LoopInv
  BY DEF AllInv, ResidualInv
<1>2. Inv'
  BY <1>1, StepInv
<1>3. /\ n \in Nat /\ n > 0
      /\ Len(stackSize) = n - (IF pc = "assign" THEN 2 ELSE 1)
      /\ Depth = n - (IF pc \in {"assign", "keep", "restrict"} THEN 1 ELSE 0)
  BY <1>1, TopFacts DEF ArrayInv, Depth
<1>4. ASSUME UNCHANGED vars PROVE AllInv'
  <2>1. UNCHANGED <<clauses, currentValue, watcher, nbSat, currentIdx, currentSize, stackSize,
                    idxComponent, frames, pc, i, reviewWatcher, trail>>
    BY <1>4 DEF vars, manager, sets
  <2>2. FramesInv'
    BY <1>1, <2>1, FramesKept
  <2>3. WatchInv'
    <3>1. (\A d : LitsIn(frames, d)' = LitsIn(frames, d)) /\ Reviewed' = Reviewed
      BY <2>1 DEF Reviewed, LitsIn, FrameLits
    <3>2. /\ (\A d \in 1 .. Reviewed : \A c \in OpenIn(LitsIn(frames, d)) :
               watcher[c] \in FreeLits(c, LitsIn(frames, d)))'
          /\ (watcher \in [Ids -> Lit])' /\ (\A c \in Ids : watcher[c] \in clauses[c])'
          /\ (reviewWatcher \subseteq Ids)'
      BY <1>1, <2>1, <3>1, FormulaPrimed DEF WatchInv
    <3>3. (pc = "assign" => \A c \in OpenIn(currentValue) :
             watcher[c] \in FreeLits(c, currentValue) \/ c \in reviewWatcher)'
      BY <1>1, <2>1, FormulaPrimed DEF WatchInv
    <3> QED
      BY <3>2, <3>3 DEF WatchInv
  <2>4. (\A d : LiveAt(d)' = LiveAt(d)) /\ \A m : Prefix(m)' = Prefix(m)
    BY <2>1 DEF LiveAt, LiveIn, OpenIn, FreeVars, FreeLits, Ids, LitsIn, FrameLits, Prefix
  <2>5. ArrayInv'
    <3>1. Depth' = Depth /\ UNCHANGED sets
      BY <2>1 DEF Depth, sets
    <3> QED
      BY <1>1, <1>3, <2>1, <2>4, <3>1, ArrayKept
  <2>6. LoopInv'
    <3>1. \A c : Kept(c)' = Kept(c)
      BY <2>1, KeptPrimed
    <3>2. /\ Prefix(currentSize)' = Prefix(currentSize)
          /\ LiveAt(Len(frames) - 1)' = LiveAt(Len(frames) - 1)
      BY <2>1 DEF LiveAt, LiveIn, OpenIn, FreeVars, FreeLits, Ids, LitsIn, FrameLits, Prefix
    <3>3. \A j : Kept(currentIdx[j])' = Kept(currentIdx[j])
      BY <2>1 DEF Kept, InComponent, Top
    <3> QED
      BY <1>1, <2>1, <3>1, <3>2, <3>3 DEF LoopInv
  <2> QED
    BY <1>2, <2>2, <2>3, <2>5, <2>6 DEF AllInv, ResidualInv
<1>5. ASSUME Keep \/ RestrictSet PROVE AllInv'
  <2>1. /\ UNCHANGED <<clauses, watcher, reviewWatcher, frames, trail, idxComponent, pc>>
        /\ pc \in {"keep", "restrict"}
    BY <1>5 DEF Keep, RestrictSet, manager
  <2>2. \A d : LitsIn(frames, d)' = LitsIn(frames, d)
    BY <2>1 DEF LitsIn, FrameLits
  <2>3. WatchInv'
    BY <1>1, <1>3, <2>1, <2>2, WatchKept
  <2>4. FramesInv'
    BY <1>1, <2>1, FramesKept
  <2> QED
    BY <1>1, <1>2, <1>5, <2>3, <2>4, LoopStep DEF AllInv, ResidualInv
<1>6. ASSUME NoDecision \/ Decide \/ Split PROVE AllInv'
  <2>1. /\ pc \in {"keep", "restrict"} /\ pc' \in {"branch", "components"} /\ i > currentSize
        /\ UNCHANGED <<clauses, watcher, reviewWatcher, sets>>
        /\ UNCHANGED <<currentIdx, currentSize, stackSize>>
    BY <1>6 DEF NoDecision, Decide, Split, manager, sets
  <2>2. /\ FramesInv' /\ Len(frames') = n
        /\ \A d \in 0 .. n : LitsIn(frames, d)' = LitsIn(frames, d)
        /\ \A d \in 1 .. n : (frames')[d].vars = frames[d].vars
    <3>1. CASE NoDecision
      <4>1. UNCHANGED <<clauses, frames, trail, idxComponent>>
        BY <3>1 DEF NoDecision, manager
      <4>2. \A d : LitsIn(frames, d)' = LitsIn(frames, d)
        BY <4>1 DEF LitsIn, FrameLits
      <4> QED
        BY <1>1, <4>1, <4>2, FramesKept
    <3>2. CASE Decide
      BY <1>1, <3>2, FramesBranches
    <3>3. CASE Split
      BY <1>1, <3>3, FramesSplit
    <3> QED
      BY <1>6, <3>1, <3>2, <3>3
  <2>3. \A d \in 1 .. n : LiveAt(d)' = LiveAt(d)
    BY <2>1, <2>2, LivePrimed
  <2>4. WatchInv'
    BY <1>1, <1>3, <2>1, <2>2, WatchKept
  <2>5. ArrayInv'
    <3>1. Depth = n - 1 /\ Depth' = n /\ Len(stackSize) = n - 1
      BY <1>3, <2>1, <2>2 DEF Depth
    <3>2. \A d : Prefix(SizeAt(d))' = Prefix(SizeAt(d))
      BY <2>1 DEF Prefix, SizeAt
    <3>3. Prefix(SizeAt(n)) = LiveAt(n)
      <4>1. SizeAt(n) = currentSize
        BY <1>3, <3>1 DEF SizeAt
      <4> QED
        BY <1>1, <2>1, <4>1, LoopEnd
    <3>4. \A d \in 1 .. n : Prefix(SizeAt(d)) = LiveAt(d)
      <4>1. \A d \in 1 .. n : d = n \/ d \in 1 .. Depth
        BY <1>3, <3>1
      <4> QED
        BY <1>1, <3>3, <4>1 DEF ArrayInv
    <3>5. (\A d \in 1 .. Depth : Prefix(SizeAt(d)) = LiveAt(d))'
      BY <2>3, <3>1, <3>2, <3>4
    <3>6. Ids' = Ids /\ Sizes' = Sizes
      BY <2>1 DEF Ids, Sizes
    <3>7. (Len(stackSize) = Len(frames) - (IF pc = "assign" THEN 2 ELSE 1))'
      BY <2>1, <2>2, <3>1
    <3> QED
      BY <1>1, <2>1, <3>5, <3>6, <3>7 DEF ArrayInv
  <2>6. LoopInv'
    BY <2>1 DEF LoopInv
  <2> QED
    BY <1>2, <2>2, <2>4, <2>5, <2>6 DEF AllInv, ResidualInv
<1>7. ASSUME Unsat \/ Return \/ Unassign PROVE AllInv'
  <2>1. /\ pc \in {"branch", "components", "unassign"} /\ pc' \in {"branch", "unassign"}
        /\ UNCHANGED <<clauses, watcher, reviewWatcher, sets>>
        /\ UNCHANGED <<currentIdx, currentSize, stackSize>>
    <3>1. CASE Unsat
      BY <3>1 DEF Unsat, Branching, manager, sets
    <3>2. CASE Return
      BY <3>2 DEF Return, manager, sets
    <3>3. CASE Unassign
      BY <3>3 DEF Unassign, sets
    <3> QED
      BY <1>7, <3>1, <3>2, <3>3
  <2>2. /\ FramesInv' /\ Len(frames') = n
        /\ \A d \in 0 .. n : LitsIn(frames, d)' = LitsIn(frames, d)
        /\ \A d \in 1 .. n : (frames')[d].vars = frames[d].vars
    <3>1. CASE Return \/ Unassign
      <4>1. UNCHANGED <<clauses, frames, idxComponent>>
        BY <3>1 DEF Return, Unassign, manager
      <4>2. \A d : LitsIn(frames, d)' = LitsIn(frames, d)
        BY <4>1 DEF LitsIn, FrameLits
      <4>3. FramesInv'
        <5>1. CASE Return
          <6>1. UNCHANGED trail
            BY <5>1 DEF Return
          <6> QED
            BY <1>1, <4>1, <6>1, FramesKept
        <5>2. CASE Unassign
          BY <1>1, <5>2, FramesValues
        <5> QED
          BY <3>1, <5>1, <5>2
      <4> QED
        BY <4>1, <4>2, <4>3
    <3>2. CASE Unsat
      BY <1>1, <3>2, FramesBranches
    <3> QED
      BY <1>7, <3>1, <3>2
  <2>3. \A d \in 1 .. n : LiveAt(d)' = LiveAt(d)
    BY <2>1, <2>2, LivePrimed
  <2>4. WatchInv'
    BY <1>1, <1>3, <2>1, <2>2, WatchKept
  <2>5. ArrayInv'
    <3>1. Depth = n /\ Depth' = n /\ Len(stackSize) = n - 1
      BY <1>3, <2>1, <2>2 DEF Depth
    <3> QED
      BY <1>1, <2>1, <2>2, <2>3, <3>1, ArrayKept
  <2>6. LoopInv'
    BY <2>1 DEF LoopInv
  <2> QED
    BY <1>2, <2>2, <2>4, <2>5, <2>6 DEF AllInv, ResidualInv
<1>8. ASSUME LeaveComponent \/ Returned PROVE AllInv'
  <2>1. /\ pc \in {"branch", "unassign"} /\ pc' \in {"branch", "components"}
        /\ PopPreviousClauseSet /\ UNCHANGED <<clauses, watcher, reviewWatcher>>
    BY <1>8 DEF LeaveComponent, Returned, manager
  <2>2. /\ FramesInv' /\ n > 1 /\ Len(frames') = n - 1
        /\ \A d \in 0 .. n - 1 : LitsIn(frames, d)' = LitsIn(frames, d)
        /\ \A d \in 1 .. n - 1 : (frames')[d].vars = frames[d].vars
    BY <1>1, <1>8, FramesPop
  <2>3. \A d \in 1 .. n - 1 : LiveAt(d)' = LiveAt(d)
    BY <2>1, <2>2, LivePrimed
  <2>4. WatchInv'
    BY <1>1, <1>3, <2>1, <2>2, WatchKept
  <2>5. ArrayInv'
    BY <1>1, <1>3, <2>1, <2>2, <2>3, ArrayPop
  <2>6. LoopInv'
    BY <2>1 DEF LoopInv
  <2> QED
    BY <1>2, <2>2, <2>4, <2>5, <2>6 DEF AllInv, ResidualInv
<1>9. ASSUME Solve PROVE AllInv'
  <2>1. /\ pc = "branch" /\ pc' = "assign" /\ UNCHANGED <<clauses, sets>>
    BY <1>9 DEF Solve, Branching, manager
  <2>2. /\ FramesInv' /\ Len(frames') = n + 1
        /\ \A d \in 0 .. n : LitsIn(frames, d)' = LitsIn(frames, d)
        /\ \A d \in 1 .. n : (frames')[d].vars = frames[d].vars
    BY <1>1, <1>9, FramesSolve
  <2>3. \A d \in 1 .. n : LiveAt(d)' = LiveAt(d)
    BY <2>1, <2>2, LivePrimed
  <2>4. WatchInv'
    BY <1>1, <1>9, WatchSolve
  <2>5. ArrayInv'
    <3>1. Depth = n /\ Depth' = n /\ Len(stackSize) = n - 1
      BY <1>3, <2>1, <2>2 DEF Depth
    <3> QED
      BY <1>1, <1>3, <2>1, <2>2, <2>3, <3>1, ArrayKept
  <2>6. LoopInv'
    BY <2>1 DEF LoopInv
  <2> QED
    BY <1>2, <2>2, <2>4, <2>5, <2>6 DEF AllInv, ResidualInv
<1>10. ASSUME Assign PROVE AllInv'
  <2>1. /\ pc = "assign" /\ pc' = "assign" /\ UNCHANGED <<clauses, frames, sets>>
    BY <1>10 DEF Assign
  <2>2. \A d : LiveAt(d)' = LiveAt(d)
    BY <2>1 DEF LiveAt, LiveIn, OpenIn, FreeVars, FreeLits, Ids, LitsIn, FrameLits
  <2>3. ArrayInv'
    <3>1. Depth' = Depth
      BY <2>1 DEF Depth
    <3> QED
      BY <1>1, <1>3, <2>1, <2>2, <3>1, ArrayKept
  <2>4. LoopInv'
    BY <2>1 DEF LoopInv
  <2> QED
    BY <1>1, <1>2, <1>10, <2>3, <2>4, FramesValues, WatchAssign DEF AllInv, ResidualInv
<1>11. ASSUME Review PROVE AllInv'
  <2>1. /\ pc = "assign" /\ pc' = "keep" /\ i' = 1
        /\ UNCHANGED <<clauses, frames, trail, idxComponent, currentIdx, currentSize>>
        /\ stackSize' = Append(stackSize, currentSize)
    BY <1>11 DEF Review
  <2>2. \A d : LiveAt(d)' = LiveAt(d)
    BY <2>1 DEF LiveAt, LiveIn, OpenIn, FreeVars, FreeLits, Ids, LitsIn, FrameLits
  <2>3. n > 1
    <3>1. Top.kind # "component"
      BY <1>1, <2>1 DEF Inv, CallInv
    <3> QED
      BY <1>1, <1>3, <3>1, TopFacts DEF Stack, Top
  <2>4. Depth = n - 1 /\ Depth' = n - 1 /\ Len(stackSize) = n - 2
    BY <1>3, <2>1 DEF Depth
  <2>5. ArrayInv' /\ Prefix(currentSize)' = LiveAt(Depth)'
    BY <1>1, <1>3, <2>1, <2>2, <2>4, ArrayPush
  <2>6. Prefix(currentSize)' = LiveAt(Len(frames) - 1)'
    BY <2>1, <2>2, <2>4, <2>5
  <2>7. LoopInv'
    BY <1>3, <2>1, <2>3, <2>6 DEF LoopInv
  <2> QED
    BY <1>1, <1>2, <1>11, <2>1, <2>5, <2>7, FramesKept, WatchReview DEF AllInv, ResidualInv
<1>12. ASSUME NextComponent PROVE AllInv'
  <2>1. /\ pc = "components" /\ pc' = "restrict" /\ i' = 1
        /\ UNCHANGED <<clauses, currentIdx, currentSize>>
        /\ stackSize' = Append(stackSize, currentSize)
    BY <1>12 DEF NextComponent, manager
  <2>2. /\ FramesInv' /\ Len(frames') = n + 1
        /\ \A d \in 0 .. n : LitsIn(frames, d)' = LitsIn(frames, d)
        /\ \A d \in 1 .. n : (frames')[d].vars = frames[d].vars
    <3>1. /\ \A d \in 0 .. n + 1 : LitsIn(frames, d)' = LitsIn(frames', d)
          /\ \A d \in 0 .. n : LitsIn(frames', d) = LitsIn(frames, d)
      BY <1>1, <1>12, FramesNextComponent
    <3>2. \A d \in 0 .. n : d \in 0 .. n + 1
      BY <1>3
    <3> QED
      BY <1>1, <1>12, <3>1, <3>2, FramesNextComponent
  <2>3. \A d \in 1 .. n : LiveAt(d)' = LiveAt(d)
    BY <2>1, <2>2, LivePrimed
  <2>4. Depth = n /\ Depth' = n /\ Len(stackSize) = n - 1
    BY <1>3, <2>1, <2>2 DEF Depth
  <2>5. ArrayInv' /\ Prefix(currentSize)' = LiveAt(Depth)'
    BY <1>1, <1>3, <2>1, <2>2, <2>3, <2>4, ArrayPush
  <2>6. LiveAt(Len(frames) - 1)' = LiveAt(Depth)'
    BY <1>3, <2>2, <2>4 DEF LiveAt
  <2>7. LoopInv'
    BY <1>3, <2>1, <2>2, <2>5, <2>6 DEF LoopInv
  <2> QED
    BY <1>1, <1>2, <1>12, <2>2, <2>5, <2>7, WatchNextComponent DEF AllInv, ResidualInv
<1>13. CASE UNCHANGED vars
  BY <1>4, <1>13
<1>14. CASE Next
  BY <1>4, <1>5, <1>6, <1>7, <1>8, <1>9, <1>10, <1>11, <1>12, <1>14 DEF Next, Finished
<1> QED
  BY <1>13, <1>14

LEMMA SpecAll == Spec => []AllInv
  BY InitAll, StepAll, PTL DEF Spec

\* The formula of the level on top is the one of the current clauses.
LEMMA LiveNow ==
  ASSUME AllInv, pc \in {"components", "branch"} \/ (i > currentSize /\ pc \in {"keep", "restrict"})
  PROVE  Live = LiveAt(Len(frames))
<1>1. Live = Prefix(currentSize)
  BY DEF Live, Prefix
<1>2. Inv /\ FramesInv /\ WatchInv /\ ArrayInv /\ LoopInv
  BY DEF AllInv, ResidualInv
<1>3. CASE pc \in {"components", "branch"}
  <2>1. Len(frames) \in Nat /\ Len(frames) > 0 /\ Len(stackSize) = Len(frames) - 1
    BY <1>2, <1>3, TopFacts DEF ArrayInv
  <2>2. Depth = Len(frames) /\ SizeAt(Len(frames)) = currentSize
    BY <1>3, <2>1 DEF Depth, SizeAt
  <2>3. Len(frames) \in 1 .. Depth
    BY <2>1, <2>2
  <2> QED
    BY <1>1, <1>2, <2>2, <2>3 DEF ArrayInv
<1>4. CASE i > currentSize /\ pc \in {"keep", "restrict"}
  BY <1>1, <1>2, <1>4, LoopEnd
<1> QED
  BY <1>3, <1>4

\* The current clauses are those of the component, the watchers are free, and
\* the components that are found are independent and complete.
THEOREM ComponentsCorrect == Spec => []ComponentsExact
<1>1. ASSUME AllInv PROVE ComponentsExact
  <2> DEFINE n == Len(frames)
  <2>1. /\ Inv /\ FramesInv /\ WatchInv
        /\ n \in Nat /\ n > 0 /\ Top = frames[n] /\ Top.vars \subseteq Var
        /\ clauses \in Seq(SUBSET Lit)
    BY <1>1, TopFacts DEF AllInv, ResidualInv, Top, Inv, ListsInv
  <2>2. pc \in {"keep", "components", "restrict", "branch"} => currentValue = LitsIn(frames, n)
    BY <2>1, ValuesKnown
  <2>3. LevelOK(Top, LitsIn(frames, n))
    BY <2>1 DEF FramesInv, Levels
  <2>4. WatchersFree
    <3> SUFFICES ASSUME pc \in {"keep", "components", "restrict", "branch"},
                        NEW c \in Ids, nbSat[c] = 0
                 PROVE  Undef(watcher[c]) /\ watcher[c] \in clauses[c]
      BY DEF WatchersFree
    <3>1. Reviewed = n /\ n \in 1 .. n
      BY <2>1 DEF Reviewed
    <3>2. watcher[c] \in FreeLits(c, currentValue)
      BY <2>1, <2>2, <3>1, SatOpen DEF WatchInv
    <3> QED
      BY <3>2, FreeNow DEF FreeLits
  <2>5. LiveExact
    <3> SUFFICES ASSUME pc \in {"components", "branch"} \/ (i > currentSize /\ pc \in {"keep", "restrict"})
                 PROVE  Live = {c \in Ids : /\ clauses[c] \cap currentValue = {}
                                            /\ UndefVars(c) \subseteq Top.vars}
      BY DEF LiveExact
    <3>1. Live = LiveAt(n)
      BY <1>1, LiveNow
    <3> QED
      BY <2>1, <2>2, <3>1, FreeNow DEF LiveAt, LiveIn, OpenIn
  <2>6. ComponentsIndependent
    <3>1. idxComponent = {}
      BY <2>1 DEF FramesInv
    <3>2. ASSUME pc = "components", NEW c \in Ids, clauses[c] \cap currentValue = {},
                 NEW s \in Top.todo
          PROVE  UndefVars(c) \subseteq s \/ UndefVars(c) \cap s = {}
      <4>1. Top.kind = "call"
        BY <2>1, <3>2, TopFacts DEF Inv, CallInv
      <4>2. Separates(s, currentValue)
        BY <2>2, <2>3, <3>2, <4>1 DEF LevelOK
      <4> QED
        BY <3>2, <4>2, FreeNow DEF Separates, OpenIn
    <3>3. ASSUME pc = "keep", i > currentSize, NEW c \in Live, ~ Tautology(c)
          PROVE  \E s \in Components(Top.vars) : UndefVars(c) \subseteq s
      <4>1. Top.kind = "call"
        BY <2>1, <3>3, TopFacts DEF Inv, CallInv
      <4>2. c \in LiveIn(Top.vars, currentValue)
        BY <1>1, <2>1, <2>2, <3>3, LiveNow DEF LiveAt
      <4>3. c \in OpenIn(currentValue) /\ UndefVars(c) \subseteq Top.vars /\ clauses[c] \subseteq Lit
        BY <2>1, <4>2, FreeNow DEF LiveIn, OpenIn, Ids
      <4>4. PICK k \in FreeLits(c, currentValue), l \in FreeLits(c, currentValue) : k # l
        BY <2>1, <2>2, <2>3, <3>3, <4>1, <4>3, TwoFree DEF LevelOK
      <4>5. k \in clauses[c] /\ l \in clauses[c] /\ Undef(k) /\ Undef(l) /\ k \in Lit /\ l \in Lit
        BY <4>3, <4>4, FreeNow DEF FreeLits
      <4>6. VarOf(k) # VarOf(l)
        <5>1. k # Neg(l)
          BY <3>3, <4>5 DEF Tautology
        <5> QED
          BY <4>4, <4>5, <5>1, SameVar
      <4>7. VarOf(k) \in UndefVars(c) /\ VarOf(l) \in UndefVars(c)
        BY <4>5 DEF UndefVars
      <4>8. VarOf(k) \in Top.vars /\ UndefVar(VarOf(k))
        BY <4>3, <4>5, <4>7, UndefLit
      <4> DEFINE s == Connected(VarOf(k))
      <4>9. VarOf(k) \in s /\ s \subseteq Top.vars /\ Separates(s, currentValue)
        BY <2>1, <3>3, <4>8, ConnectedInside
      <4>10. UndefVars(c) \subseteq s
        BY <4>3, <4>7, <4>9, FreeNow DEF Separates
      <4>11. Cardinality(s) > 1
        <5>1. 0 \in Int /\ NumVars - 1 \in Int
          BY NumVarsAssumption
        <5>2. IsFiniteSet(Var)
          BY <5>1, FS_Interval DEF Var
        <5>3. IsFiniteSet(s) /\ Cardinality(s) \in Nat
          BY <2>1, <4>9, <5>2, FS_Subset, FS_CardinalityType
        <5>4. Cardinality(s) # 0
          BY <4>9, <5>3, FS_EmptySet
        <5>5. Cardinality(s) # 1
          <6>1. VarOf(k) \in s /\ VarOf(l) \in s
            BY <4>7, <4>10
          <6> HIDE DEF s
          <6> QED
            BY <4>6, <5>3, <6>1, FS_Singleton
        <5> HIDE DEF s
        <5> QED
          BY <5>3, <5>4, <5>5
      <4>12. VarOf(k) \notin idxComponent
        BY <3>1
      <4> QED
        BY <4>8, <4>10, <4>11, <4>12 DEF Components
    <3> QED
      BY <3>1, <3>2, <3>3 DEF ComponentsIndependent
  <2> QED
    BY <2>4, <2>5, <2>6 DEF ComponentsExact
<1> QED
  BY <1>1, SpecAll, PTL

(***************************************************************************)
(* The stack of residual formulas.                                         *)
(***************************************************************************)

LevelBar(d) == [lits |-> LitsIn(frames, d), live |-> LiveAt(d)]

LEMMA BarKnown ==
  ASSUME AllInv
  PROVE  StackBar = [d \in 1 .. Depth |-> LevelBar(d)]
<1>1. \A d : LitsAt(d) = LitsIn(frames, d)
  BY DEF LitsAt, LitsIn, FrameLits
<1>2. \A d \in 1 .. Depth : {currentIdx[j] : j \in 1 .. SizeAt(d)} = LiveAt(d)
  BY DEF AllInv, ResidualInv, ArrayInv, Prefix
<1> QED
  BY <1>1, <1>2 DEF StackBar, LevelBar

LEMMA DepthType ==
  ASSUME AllInv
  PROVE  Depth \in Nat /\ Len(frames) \in Nat /\ Len(frames) > 0 /\ Depth <= Len(frames)
<1>1. Inv /\ LoopInv
  BY DEF AllInv, ResidualInv
<1>2. Len(frames) \in Nat /\ Len(frames) > 0
  BY <1>1, TopFacts
<1> QED
  BY <1>2 DEF Depth

\* A step changes no level that it leaves.
LEMMA LevelsStay ==
  ASSUME AllInv, [Next]_vars,
         NEW d \in Nat, d >= 1, d <= Len(frames), d <= Len(frames')
  PROVE  LevelBar(d)' = LevelBar(d)
<1> DEFINE n == Len(frames)
<1>1. Inv /\ FramesInv /\ n \in Nat
  BY DepthType DEF AllInv, ResidualInv
<1>2. clauses' = clauses
  BY DEF Next, Unsat, Solve, Assign, Review, Keep, Split, NextComponent, RestrictSet, Decide,
         NoDecision, LeaveComponent, Return, Unassign, Returned, Finished, vars, manager
<1>3. LitsIn(frames, d)' = LitsIn(frames, d) /\ (frames')[d].vars = frames[d].vars
  <2>1. CASE UNCHANGED frames
    BY <2>1 DEF LitsIn, FrameLits
  <2>2. CASE Unsat \/ Decide
    BY <1>1, <2>2, FramesBranches
  <2>3. CASE Split
    BY <1>1, <2>3, FramesSplit
  <2>4. CASE Solve
    BY <1>1, <2>4, FramesSolve
  <2>5. CASE NextComponent
    <3>1. d \in 0 .. n /\ d \in 0 .. n + 1 /\ d \in 1 .. n
      BY <1>1
    <3> QED
      BY <1>1, <2>5, <3>1, FramesNextComponent
  <2>6. CASE LeaveComponent \/ Returned
    <3>1. /\ Len(frames') = n - 1
          /\ \A e \in 0 .. n - 1 : LitsIn(frames, e)' = LitsIn(frames, e)
          /\ \A e \in 1 .. n - 1 : (frames')[e].vars = frames[e].vars
      BY <1>1, <2>6, FramesPop
    <3> QED
      BY <1>1, <3>1
  <2>7. CASE Assign \/ Review \/ Keep \/ RestrictSet \/ NoDecision \/ Return \/ Unassign \/ Finished
             \/ UNCHANGED vars
    BY <2>1, <2>7 DEF Assign, Review, Keep, RestrictSet, NoDecision, Return, Unassign, Finished,
                      vars, manager
  <2> QED
    BY <2>2, <2>3, <2>4, <2>5, <2>6, <2>7 DEF Next
<1>4. LiveAt(d)' = LiveAt(d)
  BY <1>2, <1>3, LivePrimed
<1> QED
  BY <1>3, <1>4 DEF LevelBar

\* The stack when as many levels are there, one more or one less.
LEMMA BarStep ==
  ASSUME AllInv, AllInv', [Next]_vars, Depth' <= Len(frames)
  PROVE  StackBar' = [d \in 1 .. Depth' |-> LevelBar(d)]
<1>1. Depth' \in Nat /\ Depth' <= Len(frames') /\ Len(frames') \in Nat /\ Len(frames) \in Nat
  <2>1. (frames \in Seq(Frame) /\ frames # <<>>)'
    BY DEF AllInv, Inv, CallInv, Stack
  <2>2. frames' \in Seq(Frame) /\ frames' # <<>>
    BY <2>1 DEF Frame, CallFrames, ComponentFrames
  <2>3. Len(frames') \in Nat /\ Len(frames') > 0
    BY <2>2
  <2> QED
    BY <2>3, DepthType DEF Depth
<1>2. StackBar' = [d \in 1 .. Depth' |-> LevelBar(d)']
  <2>1. \A d : LitsAt(d)' = LitsIn(frames, d)'
    BY DEF LitsAt, LitsIn, FrameLits
  <2>2. \A d \in 1 .. Depth' : {currentIdx'[j] : j \in 1 .. SizeAt(d)'} = LiveAt(d)'
    BY DEF AllInv, ResidualInv, ArrayInv, Prefix
  <2> QED
    BY <2>1, <2>2 DEF StackBar, LevelBar
<1>4. \A d \in 1 .. Depth' : LevelBar(d)' = LevelBar(d)
  <2> SUFFICES ASSUME NEW d \in 1 .. Depth' PROVE LevelBar(d)' = LevelBar(d)
    OBVIOUS
  <2>1. d \in Nat /\ d >= 1 /\ d <= Len(frames) /\ d <= Len(frames')
    BY <1>1
  <2> QED
    BY <2>1, LevelsStay
<1> QED
  BY <1>2, <1>4

\* The formula of a call is the one it began with, under its literals.
LEMMA LiveCall ==
  ASSUME AllInv, Top.kind = "call", Len(frames) > 1
  PROVE  LiveAt(Len(frames))
           = {c \in LiveAt(Len(frames) - 1) : clauses[c] \cap FrameLits(Top) = {}}
<1> DEFINE n == Len(frames)
           below == LitsIn(frames, n - 1)
           now == LitsIn(frames, n)
           vs == frames[n - 1].vars
<1>1. /\ Inv /\ FramesInv /\ n \in Nat /\ Top = frames[n] /\ clauses \in Seq(SUBSET Lit)
      /\ n - 1 \in 1 .. n - 1 /\ n - 1 \in 1 .. n /\ n \in 1 .. n /\ (n - 1) + 1 = n
  BY DepthType DEF AllInv, ResidualInv, Top, Inv, ListsInv
<1>2. LevelOK(frames[n - 1], below) /\ LevelOK(Top, now) /\ Inside(frames[n - 1], Top)
  BY <1>1 DEF FramesInv, Levels
<1>3. now = below \cup FrameLits(Top)
  BY <1>1, ValuesKnown
<1>4. Propagated(now) /\ Separates(vs, below) /\ Top.vars = vs /\ below \subseteq now
  BY <1>2, <1>3 DEF LevelOK, Inside
<1> HIDE DEF n, below, now, vs
<1>5. LiveIn(vs, now) = {c \in LiveIn(vs, below) : clauses[c] \cap now = {}}
  BY <1>1, <1>4, InsideSet
<1>6. LiveAt(n) = LiveIn(vs, now) /\ LiveAt(n - 1) = LiveIn(vs, below)
  BY <1>1, <1>4 DEF LiveAt, now, below, vs, n
<1>7. \A c \in LiveIn(vs, below) : clauses[c] \cap now = {} <=> clauses[c] \cap FrameLits(Top) = {}
  BY <1>3 DEF LiveIn, OpenIn
<1>8. LiveAt(n) = {c \in LiveAt(n - 1) : clauses[c] \cap FrameLits(Top) = {}}
  BY <1>5, <1>6, <1>7
<1> QED
  BY <1>8 DEF n

\* The literals of a call are consistent and of variables without a value.
LEMMA CallLits ==
  ASSUME AllInv, Top.kind = "call"
  PROVE  /\ FrameLits(Top) \subseteq Lit
         /\ \A l \in FrameLits(Top) : /\ {l, Neg(l)} \cap LitsIn(frames, Len(frames) - 1) = {}
                                      /\ Neg(l) \notin FrameLits(Top)
<1>1. /\ Inv /\ FramesInv /\ Len(frames) \in Nat /\ Len(frames) > 0
      /\ Top.lits \in Seq(Lit) /\ Top.mark \in Nat /\ Top.mark <= Len(trail) /\ trail \in Seq(Lit)
      /\ CallOK(Top, trail)
  BY DepthType, TopFacts, FrameType DEF AllInv, ResidualInv, FrameOK
<1>2. LitsIn(frames, Len(frames) - 1) = {trail[j] : j \in 1 .. Top.mark}
  BY <1>1 DEF FramesInv, Marks, Top
<1>3. FrameLits(Top) = {Top.lits[j] : j \in DOMAIN Top.lits}
  BY DEF FrameLits
<1>4. ASSUME NEW j \in DOMAIN Top.lits
      PROVE  /\ {Top.lits[j], Neg(Top.lits[j])} \cap LitsIn(frames, Len(frames) - 1) = {}
             /\ Neg(Top.lits[j]) \notin FrameLits(Top)
  <2> DEFINE l == Top.lits[j]
  <2>1. l \in Lit /\ VarOf(l) \notin AssignedIn(trail, Top.mark)
    BY <1>1 DEF CallOK
  <2>2. Neg(l) \in Lit /\ VarOf(Neg(l)) = VarOf(l) /\ Neg(l) # l
    BY <2>1, SameVar
  <2>3. \A k \in DOMAIN Top.lits : j # k => VarOf(l) # VarOf(Top.lits[k])
    BY <1>1 DEF CallOK
  <2> HIDE DEF l
  <2>4. \A k \in DOMAIN Top.lits : Top.lits[k] # Neg(l)
    BY <2>2, <2>3 DEF l
  <2>5. \A k \in 1 .. Top.mark : trail[k] # l /\ trail[k] # Neg(l)
    BY <2>1, <2>2 DEF AssignedIn
  <2>6. Neg(l) \notin FrameLits(Top)
    BY <1>3, <2>4
  <2>7. {l, Neg(l)} \cap LitsIn(frames, Len(frames) - 1) = {}
    BY <1>2, <2>5
  <2> QED
    BY <2>6, <2>7 DEF l
<1> QED
  BY <1>1, <1>3, <1>4

Level == [lits : SUBSET Lit, live : SUBSET Ids]

LEMMA BarType ==
  ASSUME AllInv, NEW d \in 1 .. Len(frames)
  PROVE  LevelBar(d) \in Level
<1>1. Inv /\ frames \in Seq(Frame) /\ Len(frames) \in Nat
  BY TopFacts DEF AllInv
<1>2. \A j \in 1 .. d : FrameLits(frames[j]) \subseteq Lit
  BY <1>1, FrameLitsType
<1>3. LitsIn(frames, d) \subseteq Lit
  BY <1>2 DEF LitsIn
<1>4. LiveAt(d) \subseteq Ids
  BY DEF LiveAt, LiveIn, OpenIn
<1> QED
  BY <1>3, <1>4 DEF LevelBar, Level

\* One level more, one level less.
LEMMA BarGrows ==
  ASSUME AllInv, AllInv', [Next]_vars, Depth' = Depth + 1, Len(frames) = Depth + 1
  PROVE  /\ StackBar' = Append(StackBar, LevelBar(Depth + 1))
         /\ Len(StackBar') = Len(StackBar) + 1
<1>1. Depth \in Nat
  BY DepthType
<1>2. StackBar' = [d \in 1 .. Depth + 1 |-> LevelBar(d)] /\ StackBar = [d \in 1 .. Depth |-> LevelBar(d)]
  <2>1. Depth' <= Len(frames)
    BY <1>1
  <2> QED
    BY <2>1, BarStep, BarKnown
<1>3. \A d \in 1 .. Depth + 1 : LevelBar(d) \in Level
  BY BarType
<1> DEFINE s == [d \in 1 .. Depth |-> LevelBar(d)]
           e == LevelBar(Depth + 1)
           u == [d \in 1 .. Depth + 1 |-> LevelBar(d)]
           v == Append(s, e)
<1>4. s \in Seq(Level) /\ Len(s) = Depth /\ u \in Seq(Level) /\ Len(u) = Depth + 1 /\ e \in Level
  BY <1>1, <1>3
<1> HIDE DEF s, e, u
<1>5. /\ v \in Seq(Level) /\ Len(v) = Depth + 1
      /\ (\A d \in 1 .. Depth : v[d] = s[d]) /\ v[Depth + 1] = e
  BY <1>4, AppendProperties
<1> HIDE DEF v
<1>6. \A d \in 1 .. Depth + 1 : u[d] = v[d]
  <2> SUFFICES ASSUME NEW d \in 1 .. Depth + 1 PROVE u[d] = v[d]
    OBVIOUS
  <2>1. CASE d \in 1 .. Depth
    <3>1. v[d] = s[d]
      BY <1>5, <2>1
    <3>2. s[d] = LevelBar(d) /\ u[d] = LevelBar(d)
      BY <2>1 DEF s, u
    <3> QED
      BY <3>1, <3>2
  <2>2. CASE d = Depth + 1
    <3>1. u[d] = e
      BY <2>2 DEF u, e
    <3> QED
      BY <1>5, <2>2, <3>1
  <2> QED
    BY <1>1, <2>1, <2>2
<1>7. u = v
  BY <1>4, <1>5, <1>6, SeqEqual
<1>8. StackBar' = u /\ StackBar = s
  BY <1>2 DEF s, u
<1>9. Len(u) = Len(s) + 1
  BY <1>4
<1> QED
  BY <1>7, <1>8, <1>9 DEF v, e

LEMMA BarShrinks ==
  ASSUME AllInv, AllInv', [Next]_vars, Depth' = Depth - 1, Depth > 1
  PROVE  StackBar' = SubSeq(StackBar, 1, Len(StackBar) - 1) /\ Len(StackBar) > 1
<1>1. Depth \in Nat /\ Depth <= Len(frames) /\ Len(frames) \in Nat
  BY DepthType
<1>2. StackBar' = [d \in 1 .. Depth - 1 |-> LevelBar(d)] /\ StackBar = [d \in 1 .. Depth |-> LevelBar(d)]
  <2>1. Depth' <= Len(frames)
    BY <1>1
  <2> QED
    BY <2>1, BarStep, BarKnown
<1>3. \A d \in 1 .. Depth : LevelBar(d) \in Level
  BY <1>1, BarType
<1> DEFINE s == [d \in 1 .. Depth |-> LevelBar(d)]
           u == [d \in 1 .. Depth - 1 |-> LevelBar(d)]
           v == SubSeq(s, 1, Depth - 1)
<1>4. s \in Seq(Level) /\ Len(s) = Depth /\ u \in Seq(Level) /\ Len(u) = Depth - 1
  BY <1>1, <1>3
<1>5. /\ v \in Seq(Level) /\ Len(v) = Depth - 1
      /\ (\A d \in 1 .. Depth - 1 : v[d] = s[d])
  BY <1>1, <1>4
<1>6. \A d \in 1 .. Depth - 1 : u[d] = v[d]
  BY <1>1, <1>5
<1> HIDE DEF u, v
<1>7. u = v
  BY <1>4, <1>5, <1>6, SeqEqual
<1> QED
  BY <1>1, <1>2, <1>4, <1>7 DEF u, v

LEMMA BarStays ==
  ASSUME AllInv, AllInv', [Next]_vars, Depth' = Depth
  PROVE  StackBar' = StackBar
<1>1. Depth' <= Len(frames)
  BY DepthType
<1> QED
  BY <1>1, BarStep, BarKnown

LEMMA BarTop ==
  ASSUME AllInv, Depth > 0
  PROVE  Abstract!Top = LevelBar(Depth)
<1>1. StackBar = [d \in 1 .. Depth |-> LevelBar(d)] /\ Depth \in Nat
  BY BarKnown, DepthType
<1>2. Len(StackBar) = Depth
  BY <1>1
<1> QED
  BY <1>1, <1>2 DEF Abstract!Top

\* Residual reads literals the same way.
LEMMA AbstractLiterals ==
  /\ Abstract!Lit = Lit /\ Abstract!Var = Var
  /\ \A l : Abstract!Neg(l) = Neg(l) /\ Abstract!VarOf(l) = VarOf(l)
  BY DEF Abstract!Lit, Abstract!Var, Abstract!Neg, Abstract!VarOf, Lit, Var, Neg, VarOf

LEMMA StepAssume == ASSUME AllInv, AllInv', [Next]_vars, Split PROVE Abstract!Assume
<1> DEFINE n == Len(frames)
           ls == FrameLits(Top)
<1>1. /\ pc = "keep" /\ pc' = "components" /\ clauses' = clauses
      /\ Inv /\ FramesInv /\ LoopInv
  BY DEF Split, manager, AllInv, ResidualInv
<1>2. n \in Nat /\ n > 1 /\ Len(frames') = n /\ Top.kind = "call"
  BY <1>1, DepthType, FramesSplit, TopFacts DEF LoopInv, Inv, CallInv
<1>3. Depth = n - 1 /\ Depth' = n
  BY <1>1, <1>2 DEF Depth
<1>4. /\ StackBar' = Append(StackBar, LevelBar(n)) /\ Len(StackBar') = Len(StackBar) + 1
  BY <1>2, <1>3, BarGrows
<1>5. Abstract!Top = LevelBar(n - 1)
  BY <1>2, <1>3, BarTop
<1>6. /\ ls \subseteq Lit
      /\ \A l \in ls : {l, Neg(l)} \cap LitsIn(frames, n - 1) = {} /\ Neg(l) \notin ls
  BY <1>2, CallLits
<1>7. LitsIn(frames, n) = LitsIn(frames, n - 1) \cup ls
  BY <1>1, ValuesKnown
<1>8. LiveAt(n) = {c \in LiveAt(n - 1) : clauses[c] \cap ls = {}}
  BY <1>2, LiveCall
<1> HIDE DEF ls, n
<1>9. LevelBar(n) = [lits |-> Abstract!Top.lits \cup ls,
                     live |-> {c \in Abstract!Top.live : clauses[c] \cap ls = {}}]
  BY <1>5, <1>7, <1>8 DEF LevelBar
<1>10. Abstract!Top.lits = LitsIn(frames, n - 1)
  BY <1>5 DEF LevelBar
<1>11. \A l \in ls : l \in Abstract!Lit /\ {l, Abstract!Neg(l)} \cap Abstract!Top.lits = {}
  BY <1>6, <1>10, AbstractLiterals
<1>12. ls \in SUBSET {l \in Abstract!Lit : {l, Abstract!Neg(l)} \cap Abstract!Top.lits = {}}
  BY <1>11
<1>13. Abstract!Consistent(ls)
  BY <1>6, AbstractLiterals DEF Abstract!Consistent
<1>14. StackBar' = Append(StackBar, [lits |-> Abstract!Top.lits \cup ls,
                                     live |-> {c \in Abstract!Top.live : clauses[c] \cap ls = {}}])
  BY <1>4, <1>9
<1> QED
  BY <1>1, <1>4, <1>12, <1>13, <1>14 DEF Abstract!Assume, Abstract!Grows

LEMMA StepRestrict ==
  ASSUME AllInv, AllInv', [Next]_vars, Decide \/ NoDecision
  PROVE  Abstract!Restrict
<1> DEFINE n == Len(frames)
           vs == Top.vars
           ls == LitsIn(frames, n - 1)
<1>1. /\ pc = "restrict" /\ pc' = "branch" /\ clauses' = clauses
      /\ Inv /\ FramesInv /\ LoopInv
  BY DEF Decide, NoDecision, manager, AllInv, ResidualInv
<1>2. n \in Nat /\ n > 1 /\ Top.kind = "component" /\ Top = frames[n] /\ vs \subseteq Var
  BY <1>1, DepthType, TopFacts DEF LoopInv, Inv, CallInv, Top
<1>3. Len(frames') = n
  <2>1. CASE Decide
    BY <1>1, <2>1, FramesBranches
  <2>2. CASE NoDecision
    BY <2>2 DEF NoDecision
  <2> QED
    BY <2>1, <2>2
<1>4. Depth = n - 1 /\ Depth' = n
  BY <1>1, <1>2, <1>3 DEF Depth
<1>5. /\ StackBar' = Append(StackBar, LevelBar(n)) /\ Len(StackBar') = Len(StackBar) + 1
  BY <1>2, <1>4, BarGrows
<1>6. Abstract!Top = LevelBar(n - 1)
  BY <1>2, <1>4, BarTop
<1>7. LitsIn(frames, n) = ls
  <2>1. FrameLits(Top) = {}
    BY <1>2 DEF FrameLits
  <2> QED
    BY <1>1, <2>1, ValuesKnown
<1>8. Separates(vs, ls) /\ vs \subseteq frames[n - 1].vars
  <2>1. n - 1 \in 1 .. n - 1 /\ n \in 1 .. n /\ (n - 1) + 1 = n
    BY <1>2
  <2> QED
    BY <1>1, <1>2, <1>7, <2>1 DEF FramesInv, Levels, LevelOK, Inside
<1> HIDE DEF ls, n, vs
<1>9. LiveAt(n) = LiveIn(vs, ls) /\ LiveAt(n - 1) = LiveIn(frames[n - 1].vars, ls)
  BY <1>2, <1>7 DEF LiveAt, ls, vs
<1>10. LiveAt(n) = {c \in LiveAt(n - 1) : FreeVars(c, ls) \subseteq vs}
  BY <1>8, <1>9 DEF LiveIn
<1>11. \A c \in LiveAt(n - 1) : FreeVars(c, ls) \subseteq vs \/ FreeVars(c, ls) \cap vs = {}
  BY <1>8, <1>9 DEF LiveIn, Separates
<1>12. \A c : Abstract!FreeVars(c, ls) = FreeVars(c, ls)
  BY AbstractLiterals DEF Abstract!FreeVars, FreeVars, FreeLits
<1>13. Abstract!Top.lits = ls /\ Abstract!Top.live = LiveAt(n - 1)
       /\ LevelBar(n) = [lits |-> ls, live |-> LiveAt(n)]
  BY <1>6, <1>7 DEF LevelBar, ls
<1>14. [Abstract!Top EXCEPT !.live = LiveAt(n)] = LevelBar(n)
  BY <1>6, <1>7 DEF LevelBar, ls
<1>15. /\ \A c \in Abstract!Top.live : \/ Abstract!FreeVars(c, Abstract!Top.lits) \subseteq vs
                                       \/ Abstract!FreeVars(c, Abstract!Top.lits) \cap vs = {}
       /\ LiveAt(n) = {c \in Abstract!Top.live : Abstract!FreeVars(c, Abstract!Top.lits) \subseteq vs}
  BY <1>10, <1>11, <1>12, <1>13
<1>16. StackBar' = Append(StackBar,
          [Abstract!Top EXCEPT !.live = {c \in Abstract!Top.live :
                                           Abstract!FreeVars(c, Abstract!Top.lits) \subseteq vs}])
  <2>1. StackBar' = Append(StackBar, [Abstract!Top EXCEPT !.live = LiveAt(n)])
    BY <1>5, <1>14
  <2> QED
    BY <2>1, <1>15
<1>17. vs \in SUBSET Abstract!Var
  BY <1>2, AbstractLiterals
<1> QED
  BY <1>1, <1>5, <1>15, <1>16, <1>17 DEF Abstract!Restrict, Abstract!Grows

\* The sizes stacked over one permuted array are a stack of residual formulas:
\* the manager implements Residual.
THEOREM ResidualCorrect == Spec => ImplementsResidual
<1>1. Init => Abstract!Init
  <2> SUFFICES ASSUME Init PROVE Abstract!Init
    OBVIOUS
  <2>1. AllInv /\ Depth = 1 /\ Len(frames) = 1
    BY InitAll DEF Init, Depth
  <2>2. StackBar = [d \in 1 .. 1 |-> LevelBar(d)]
    BY <2>1, BarKnown
  <2>3. LitsIn(frames, 1) = {}
    <3>1. frames[1].kind = "component"
      BY DEF Init, ComponentFrame
    <3>2. 1 .. 1 = {1}
      OBVIOUS
    <3> QED
      BY <3>1, <3>2 DEF LitsIn, FrameLits
  <2>4. LiveAt(1) = DOMAIN clauses
    <3>1. frames[1].vars = Var /\ clauses \in Seq(SUBSET Lit)
      BY FormulasAssumption DEF Init, ComponentFrame
    <3>2. \A c \in Ids : FreeVars(c, {}) \subseteq Var
      BY <3>1, SameVar DEF FreeVars, FreeLits, Ids
    <3> QED
      BY <2>3, <3>1, <3>2 DEF LiveAt, LiveIn, OpenIn, Ids
  <2>5. LevelBar(1) = [lits |-> {}, live |-> DOMAIN clauses]
    BY <2>3, <2>4 DEF LevelBar
  <2>6. StackBar = <<LevelBar(1)>>
    BY <2>2
  <2> QED
    BY <2>5, <2>6 DEF Abstract!Init
<1>2. AllInv /\ AllInv' /\ [Next]_vars => [Abstract!Next]_<<clauses, StackBar>>
  <2> SUFFICES ASSUME AllInv, AllInv', [Next]_vars
               PROVE  Abstract!Next \/ UNCHANGED <<clauses, StackBar>>
    OBVIOUS
  <2>1. clauses' = clauses
    BY DEF Next, Unsat, Solve, Assign, Review, Keep, Split, NextComponent, RestrictSet, Decide,
           NoDecision, LeaveComponent, Return, Unassign, Returned, Finished, vars, manager
  <2>2. Inv /\ FramesInv /\ Len(frames) \in Nat
    BY DepthType DEF AllInv, ResidualInv
  <2>3. CASE Split
    BY <2>3, StepAssume DEF Abstract!Next
  <2>4. CASE Decide \/ NoDecision
    BY <2>4, StepRestrict DEF Abstract!Next
  <2>5. CASE LeaveComponent \/ Returned
    <3>1. Len(frames) > 1 /\ Len(frames') = Len(frames) - 1
      BY <2>2, <2>5, FramesPop
    <3>2. pc \in {"branch", "unassign"} /\ pc' \in {"branch", "components"}
      BY <2>5 DEF LeaveComponent, Returned
    <3>3. Depth = Len(frames) /\ Depth' = Len(frames) - 1
      BY <2>2, <3>1, <3>2 DEF Depth
    <3>4. StackBar' = SubSeq(StackBar, 1, Len(StackBar) - 1) /\ Len(StackBar) > 1
      BY <3>1, <3>3, BarShrinks
    <3> QED
      BY <2>1, <3>4 DEF Abstract!Next, Abstract!Pop
  <2>6. CASE Solve \/ NextComponent
    <3>1. Len(frames') = Len(frames) + 1
      BY <2>2, <2>6, FramesSolve, FramesNextComponent
    <3>2. pc \in {"branch", "components"} /\ pc' \in {"assign", "restrict"}
      BY <2>6 DEF Solve, Branching, NextComponent
    <3>3. Depth' = Depth
      BY <2>2, <3>1, <3>2 DEF Depth
    <3> QED
      BY <2>1, <3>3, BarStays
  <2>7. CASE Unsat
    <3>1. Len(frames') = Len(frames) /\ pc' = pc
      BY <2>2, <2>7, FramesBranches DEF Unsat
    <3> QED
      BY <2>1, <3>1, BarStays DEF Depth
  <2>8. CASE Assign \/ Review \/ Keep \/ RestrictSet \/ Return \/ Unassign \/ Finished \/ UNCHANGED vars
    <3>1. frames' = frames
      BY <2>8 DEF Assign, Review, Keep, RestrictSet, Return, Unassign, Finished, vars
    <3>2. pc' = pc \/ (pc = "assign" /\ pc' = "keep") \/ (pc = "components" /\ pc' = "unassign")
      BY <2>8 DEF Assign, Review, Keep, RestrictSet, Return, Unassign, Finished, vars
    <3>3. Depth' = Depth
      BY <3>1, <3>2 DEF Depth
    <3> QED
      BY <2>1, <3>3, BarStays
  <2> QED
    BY <2>3, <2>4, <2>5, <2>6, <2>7, <2>8 DEF Next
<1> QED
  BY <1>1, <1>2, SpecAll, PTL DEF ImplementsResidual, Spec, Abstract!Spec

=============================================================================
