-------------------------- MODULE OccurrenceProofs -------------------------
(***************************************************************************)
(* Proofs about Occurrence, for every formula: the lists and the counters  *)
(* of the manager are functions of the trail, so that undoing an           *)
(* assignment restores them whatever happened since.                       *)
(***************************************************************************)
EXTENDS Occurrence, FiniteSetTheorems, SequenceTheorems, TLAPS

(***************************************************************************)
(* Literals.                                                               *)
(***************************************************************************)

\* Two literals have the same variable if they are equal or opposite.
LEMMA SameVar ==
  ASSUME NEW k \in Lit, NEW l \in Lit
  PROVE  /\ Neg(k) \in Lit /\ Neg(Neg(k)) = k /\ Neg(k) # k
         /\ VarOf(k) \in Var
         /\ VarOf(k) = VarOf(l) <=> k = l \/ k = Neg(l)
  BY NumVarsAssumption, SMTT(30) DEF Lit, Var, Neg, VarOf

\* An assignment makes one of two opposite literals true.
LEMMA SatisfiesOne ==
  ASSUME NEW m \in Assignments, NEW l \in Lit, Satisfies(m, l)
  PROVE  ~ Satisfies(m, Neg(l))
  BY NumVarsAssumption, SMTT(30) DEF Assignments, Lit, Var, Neg, VarOf, Satisfies

(***************************************************************************)
(* Trails.  What the lists and the counters are, given a trail.            *)
(***************************************************************************)

TrailVars(t) == {VarOf(t[j]) : j \in DOMAIN t}
TrailLits(t) == {t[j] : j \in DOMAIN t}

EarlierIn(t, l) ==
  {t[j] : j \in {n \in DOMAIN t : \A k \in 1 .. n : VarOf(t[k]) # VarOf(l)}}
ListIn(t, l) == {c \in Ids : l \in clauses[c] /\ clauses[c] \cap EarlierIn(t, l) = {}}
SatIn(t, c) == IF clauses[c] \cap TrailLits(t) = {} THEN 0 ELSE 1
FalseIn(t, c) == {l \in clauses[c] : /\ Neg(l) \in TrailLits(t)
                                     /\ clauses[c] \cap EarlierIn(t, l) = {}}

\* A variable that is not on the trail comes after all that is.
LEMMA EarlierAll ==
  ASSUME NEW t \in Seq(Lit), NEW l \in Lit, VarOf(l) \notin TrailVars(t)
  PROVE  EarlierIn(t, l) = TrailLits(t)
<1>1. \A n \in DOMAIN t : \A k \in 1 .. n : k \in DOMAIN t
  OBVIOUS
<1>2. \A n \in DOMAIN t : \A k \in 1 .. n : VarOf(t[k]) # VarOf(l)
  BY <1>1 DEF TrailVars
<1> QED
  BY <1>2 DEF EarlierIn, TrailLits

\* A literal of a new variable is appended to the trail.
LEMMA AppendTrail ==
  ASSUME NEW t \in Seq(Lit), NEW a \in Lit
  PROVE  /\ Append(t, a) \in Seq(Lit)
         /\ TrailLits(Append(t, a)) = TrailLits(t) \cup {a}
         /\ TrailVars(Append(t, a)) = TrailVars(t) \cup {VarOf(a)}
<1> DEFINE u == Append(t, a)
<1>1. /\ u \in Seq(Lit) /\ Len(u) = Len(t) + 1
      /\ \A j \in 1 .. Len(t) : u[j] = t[j]
      /\ u[Len(t) + 1] = a
  BY AppendProperties
<1>2. DOMAIN u = DOMAIN t \cup {Len(t) + 1}
  BY <1>1
<1> HIDE DEF u
<1>3. TrailLits(u) = TrailLits(t) \cup {a}
  BY <1>1, <1>2 DEF TrailLits
<1>4. TrailVars(u) = TrailVars(t) \cup {VarOf(a)}
  BY <1>1, <1>2 DEF TrailVars
<1> QED
  BY <1>1, <1>3, <1>4 DEF u

\* It changes nothing for the variables assigned by then, itself included.
LEMMA AppendEarlier ==
  ASSUME NEW t \in Seq(Lit), NEW a \in Lit, NEW l \in Lit,
         VarOf(a) \notin TrailVars(t),
         VarOf(l) \in TrailVars(t) \cup {VarOf(a)}
  PROVE  EarlierIn(Append(t, a), l) = EarlierIn(t, l)
<1> DEFINE u == Append(t, a)
           before(s) == {n \in DOMAIN s : \A k \in 1 .. n : VarOf(s[k]) # VarOf(l)}
<1>1. /\ u \in Seq(Lit) /\ Len(u) = Len(t) + 1
      /\ \A j \in 1 .. Len(t) : u[j] = t[j]
      /\ u[Len(t) + 1] = a
  BY AppendProperties
<1> HIDE DEF u
<1>2. \E k \in 1 .. Len(t) + 1 : VarOf(u[k]) = VarOf(l)
  BY <1>1 DEF TrailVars
<1>3. Len(t) + 1 \notin before(u)
  BY <1>2
<1>4. before(u) = before(t)
  <2>1. \A n \in 1 .. Len(t) : \A k \in 1 .. n : u[k] = t[k]
    BY <1>1
  <2> QED
    BY <1>1, <1>3, <2>1
<1>5. \A n \in before(t) : u[n] = t[n]
  BY <1>1
<1>6. EarlierIn(u, l) = {u[n] : n \in before(u)} /\ EarlierIn(t, l) = {t[n] : n \in before(t)}
  BY DEF EarlierIn
<1> QED
  BY <1>4, <1>5, <1>6 DEF u

(***************************************************************************)
(* Lists and counters, when the trail grows by a literal.                  *)
(***************************************************************************)

\* What preUpdate removes from the lists, and what postUpdate pushes again.
LEMMA AppendLists ==
  ASSUME NEW t \in Seq(Lit), NEW a \in Lit, VarOf(a) \notin TrailVars(t), NEW k \in Lit
  PROVE  /\ VarOf(k) \in TrailVars(t) \cup {VarOf(a)} =>
              ListIn(Append(t, a), k) = ListIn(t, k)
         /\ VarOf(k) \notin TrailVars(t) \cup {VarOf(a)} =>
              /\ ListIn(Append(t, a), k)
                   = ListIn(t, k) \ {c \in ListIn(t, a) : k \in clauses[c]}
              /\ ListIn(t, k)
                   = ListIn(Append(t, a), k)
                       \cup {c \in ListIn(Append(t, a), a) : k \in clauses[c]}
<1>1. CASE VarOf(k) \in TrailVars(t) \cup {VarOf(a)}
  BY <1>1, AppendEarlier DEF ListIn
<1>2. CASE VarOf(k) \notin TrailVars(t) \cup {VarOf(a)}
  <2> DEFINE u == Append(t, a)
  <2>1. /\ u \in Seq(Lit) /\ TrailLits(u) = TrailLits(t) \cup {a}
        /\ TrailVars(u) = TrailVars(t) \cup {VarOf(a)}
    BY AppendTrail
  <2>2. EarlierIn(t, k) = TrailLits(t) /\ EarlierIn(t, a) = TrailLits(t)
    BY <1>2, EarlierAll
  <2>3. EarlierIn(u, k) = TrailLits(t) \cup {a}
    BY <1>2, <2>1, EarlierAll
  <2>4. EarlierIn(u, a) = TrailLits(t)
    BY <2>2, AppendEarlier
  <2> HIDE DEF u
  <2>5. ListIn(u, k) = ListIn(t, k) \ {c \in ListIn(t, a) : k \in clauses[c]}
    BY <2>2, <2>3 DEF ListIn
  <2>6. ListIn(t, k) = ListIn(u, k) \cup {c \in ListIn(u, a) : k \in clauses[c]}
    BY <2>2, <2>3, <2>4 DEF ListIn
  <2> QED
    BY <1>2, <2>5, <2>6 DEF u
<1> QED
  BY <1>1, <1>2

\* nbSat counts the clauses that the new literal is the first to satisfy.
LEMMA AppendSat ==
  ASSUME NEW t \in Seq(Lit), NEW a \in Lit, VarOf(a) \notin TrailVars(t), NEW c \in Ids
  PROVE  SatIn(Append(t, a), c) = SatIn(t, c) + (IF c \in ListIn(t, a) THEN 1 ELSE 0)
<1>1. TrailLits(Append(t, a)) = TrailLits(t) \cup {a}
  BY AppendTrail
<1>2. c \in ListIn(t, a) <=> a \in clauses[c] /\ clauses[c] \cap TrailLits(t) = {}
  BY EarlierAll DEF ListIn
<1>3. clauses[c] \cap TrailLits(Append(t, a)) = {} <=>
        clauses[c] \cap TrailLits(t) = {} /\ a \notin clauses[c]
  BY <1>1
<1> QED
  BY <1>2, <1>3 DEF SatIn

\* The false literals of a clause gain the opposite of the new literal, if no
\* literal satisfied the clause by then.
LEMMA AppendFalse ==
  ASSUME NEW t \in Seq(Lit), NEW a \in Lit, VarOf(a) \notin TrailVars(t), NEW c \in Ids,
         clauses \in Seq(SUBSET Lit)
  PROVE  Cardinality(FalseIn(Append(t, a), c))
           = Cardinality(FalseIn(t, c)) + (IF c \in ListIn(t, Neg(a)) THEN 1 ELSE 0)
<1> DEFINE u == Append(t, a)
<1>1. clauses[c] \subseteq Lit
  BY DEF Ids
<1>2. Neg(a) \in Lit /\ Neg(Neg(a)) = a /\ VarOf(Neg(a)) = VarOf(a)
  BY SameVar
<1>3. u \in Seq(Lit) /\ TrailLits(u) = TrailLits(t) \cup {a}
  BY AppendTrail
<1>4. a \notin TrailLits(t)
  BY DEF TrailLits, TrailVars
<1>5. \A l \in Lit : Neg(l) \in TrailLits(t) => VarOf(l) \in TrailVars(t)
  <2> SUFFICES ASSUME NEW l \in Lit, NEW j \in DOMAIN t, Neg(l) = t[j]
               PROVE  VarOf(l) \in TrailVars(t)
    BY DEF TrailLits
  <2>1. VarOf(Neg(l)) = VarOf(l)
    BY SameVar
  <2> QED
    BY <2>1 DEF TrailVars
<1>6. \A l \in Lit : Neg(l) \in TrailLits(t) \cup {a} => EarlierIn(u, l) = EarlierIn(t, l)
  <2> SUFFICES ASSUME NEW l \in Lit, Neg(l) \in TrailLits(t) \cup {a}
               PROVE  EarlierIn(u, l) = EarlierIn(t, l)
    OBVIOUS
  <2>1. VarOf(Neg(l)) = VarOf(l)
    BY SameVar
  <2>2. VarOf(l) \in TrailVars(t) \cup {VarOf(a)}
    BY <1>5, <2>1
  <2> QED
    BY <2>2, AppendEarlier
<1> HIDE DEF u
<1>7. FalseIn(u, c) = {l \in clauses[c] : /\ Neg(l) \in TrailLits(t) \cup {a}
                                          /\ clauses[c] \cap EarlierIn(t, l) = {}}
  BY <1>1, <1>3, <1>6 DEF FalseIn
<1>8. \A l \in Lit : Neg(l) = a <=> l = Neg(a)
  BY <1>2, SameVar
<1>9. FalseIn(u, c) = FalseIn(t, c) \cup (IF c \in ListIn(t, Neg(a)) THEN {Neg(a)} ELSE {})
  <2>1. ASSUME NEW l \in clauses[c]
        PROVE  l \in FalseIn(u, c) <=>
                 l \in FalseIn(t, c) \/ (c \in ListIn(t, Neg(a)) /\ l = Neg(a))
    BY <1>1, <1>7, <1>8 DEF FalseIn, ListIn
  <2>2. FalseIn(u, c) \subseteq clauses[c] /\ FalseIn(t, c) \subseteq clauses[c]
    BY DEF FalseIn
  <2>3. c \in ListIn(t, Neg(a)) => Neg(a) \in clauses[c]
    BY DEF ListIn
  <2> QED
    BY <2>1, <2>2, <2>3
<1>10. Neg(a) \notin FalseIn(t, c)
  BY <1>2, <1>4 DEF FalseIn
<1>11. IsFiniteSet(FalseIn(t, c)) /\ Cardinality(FalseIn(t, c)) \in Nat
  <2>1. 0 \in Int /\ 2 * NumVars - 1 \in Int
    BY NumVarsAssumption
  <2>2. IsFiniteSet(Lit)
    BY <2>1, FS_Interval DEF Lit
  <2>3. FalseIn(t, c) \subseteq Lit
    BY <1>1 DEF FalseIn
  <2> QED
    BY <2>2, <2>3, FS_Subset, FS_CardinalityType
<1>12. CASE c \in ListIn(t, Neg(a))
  BY <1>9, <1>10, <1>11, <1>12, FS_AddElement DEF u
<1>13. CASE c \notin ListIn(t, Neg(a))
  BY <1>9, <1>11, <1>13 DEF u
<1> QED
  BY <1>12, <1>13

(***************************************************************************)
(* The stack of calls.                                                     *)
(***************************************************************************)

CallFrames ==
  [kind : {"call"}, vars : SUBSET Var, mark : Nat, lits : Seq(Lit), todo : SUBSET SUBSET Var]
ComponentFrames ==
  [kind : {"component"}, vars : SUBSET Var, mark : Nat, branches : Seq(Lit \cup {NoLit})]
Frame == CallFrames \cup ComponentFrames

\* The length of the trail when all the literals of a frame are assigned.
End(f) == f.mark + (IF f.kind = "call" THEN Len(f.lits) ELSE 0)

AssignedIn(t, n) == {VarOf(t[j]) : j \in 1 .. n}

\* What a call and a component have to do is about unassigned variables.
CallOK(f, t) ==
  /\ \A j \in DOMAIN f.lits :
       /\ VarOf(f.lits[j]) \notin AssignedIn(t, f.mark)
       /\ f.mark + j <= Len(t) => t[f.mark + j] = f.lits[j]
       /\ \A k \in DOMAIN f.lits : j # k => VarOf(f.lits[j]) # VarOf(f.lits[k])
  /\ \A vs \in f.todo : vs \cap AssignedIn(t, f.mark + Len(f.lits)) = {}
ComponentOK(f, t) ==
  /\ f.vars \cap AssignedIn(t, f.mark) = {}
  /\ \A j \in DOMAIN f.branches : f.branches[j] # NoLit => VarOf(f.branches[j]) \in f.vars
FrameOK(f, t) ==
  /\ f.mark <= Len(t)
  /\ f.kind = "call" => CallOK(f, t)
  /\ f.kind = "component" => ComponentOK(f, t)

\* Calls and components alternate; the marks follow the trail.
Linked(f, g) ==
  /\ f.kind # g.kind
  /\ g.mark = End(f)
  /\ f.kind = "component" => f.branches # <<>>
Stack(fr, t) ==
  /\ fr \in Seq(Frame) /\ fr # <<>>
  /\ fr[1].kind = "component"
  /\ \A d \in 1 .. Len(fr) - 1 : Linked(fr[d], fr[d + 1])
  /\ \A d, e \in 1 .. Len(fr) : d < e => End(fr[d]) <= fr[e].mark
  /\ \A d \in 1 .. Len(fr) : FrameOK(fr[d], t)

LEMMA FrameType ==
  ASSUME NEW f \in Frame
  PROVE  /\ f.kind \in {"call", "component"} /\ f.mark \in Nat /\ f.vars \subseteq Var
         /\ f.kind = "call" <=> f \in CallFrames
         /\ f.kind = "component" <=> f \in ComponentFrames
         /\ f.kind = "call" => f.lits \in Seq(Lit) /\ f.todo \subseteq SUBSET Var
         /\ f.kind = "component" => f.branches \in Seq(Lit \cup {NoLit})
         /\ End(f) \in Nat /\ f.mark <= End(f)
<1>1. CASE f \in CallFrames
  <2>1. f.lits \in Seq(Lit) /\ Len(f.lits) \in Nat
    BY <1>1 DEF CallFrames
  <2> QED
    BY <1>1, <2>1 DEF CallFrames, ComponentFrames, End
<1>2. CASE f \in ComponentFrames
  BY <1>2 DEF CallFrames, ComponentFrames, End
<1> QED
  BY <1>1, <1>2 DEF Frame

\* Entering a call or a component.
LEMMA Push ==
  ASSUME NEW t \in Seq(Lit), NEW fr, Stack(fr, t), NEW g \in Frame,
         Linked(fr[Len(fr)], g), FrameOK(g, t)
  PROVE  Stack(Append(fr, g), t)
<1> DEFINE n == Len(fr)
           h == Append(fr, g)
<1>1. fr \in Seq(Frame) /\ n \in Nat /\ n > 0
  BY DEF Stack
<1>2. /\ h \in Seq(Frame) /\ Len(h) = n + 1
      /\ \A j \in 1 .. n : h[j] = fr[j]
      /\ h[n + 1] = g
  BY <1>1, AppendProperties
<1>3. \A j \in 1 .. n : End(fr[j]) \in Nat /\ fr[j].mark \in Nat /\ fr[j].mark <= End(fr[j])
  BY <1>1, FrameType
<1>4. g.mark = End(fr[n]) /\ g.mark \in Nat
  BY FrameType DEF Linked
<1> HIDE DEF h
<1>5. \A d \in 1 .. n : Linked(h[d], h[d + 1])
  <2> SUFFICES ASSUME NEW d \in 1 .. n PROVE Linked(h[d], h[d + 1])
    OBVIOUS
  <2>1. CASE d = n
    BY <1>1, <1>2, <2>1
  <2>2. CASE d # n
    <3>1. d \in 1 .. n - 1 /\ d + 1 \in 1 .. n
      BY <1>1, <2>2
    <3>2. Linked(fr[d], fr[d + 1])
      BY <3>1 DEF Stack
    <3>3. h[d] = fr[d] /\ h[d + 1] = fr[d + 1]
      BY <1>2, <3>1
    <3> QED
      BY <3>2, <3>3
  <2> QED
    BY <2>1, <2>2
<1>6. \A d, e \in 1 .. n + 1 : d < e => End(h[d]) <= h[e].mark
  <2> SUFFICES ASSUME NEW d \in 1 .. n + 1, NEW e \in 1 .. n + 1, d < e
               PROVE  End(h[d]) <= h[e].mark
    OBVIOUS
  <2>1. CASE e <= n
    <3>1. d \in 1 .. n /\ e \in 1 .. n
      BY <1>1, <2>1
    <3>2. End(fr[d]) <= fr[e].mark
      BY <3>1 DEF Stack
    <3> QED
      BY <1>2, <3>1, <3>2
  <2>2. CASE e = n + 1 /\ d = n
    BY <1>1, <1>2, <1>3, <1>4, <2>2
  <2>3. CASE e = n + 1 /\ d < n
    <3>1. End(fr[d]) <= fr[n].mark
      BY <1>1, <2>3 DEF Stack
    <3> QED
      BY <1>1, <1>2, <1>3, <1>4, <2>3, <3>1
  <2> QED
    BY <1>1, <2>1, <2>2, <2>3
<1>7. \A d \in 1 .. n + 1 : FrameOK(h[d], t)
  <2> SUFFICES ASSUME NEW d \in 1 .. n + 1 PROVE FrameOK(h[d], t)
    OBVIOUS
  <2>1. CASE d <= n
    BY <1>1, <1>2, <2>1 DEF Stack
  <2>2. CASE d = n + 1
    BY <1>2, <2>2
  <2> QED
    BY <1>1, <2>1, <2>2
<1>8. h[1].kind = "component" /\ h # <<>>
  BY <1>1, <1>2 DEF Stack
<1>9. Stack(h, t)
  BY <1>1, <1>2, <1>5, <1>6, <1>7, <1>8 DEF Stack
<1> QED
  BY <1>9 DEF h

\* Leaving one.
LEMMA PopFrame ==
  ASSUME NEW t \in Seq(Lit), NEW fr, Stack(fr, t), Len(fr) > 1
  PROVE  /\ Stack(SubSeq(fr, 1, Len(fr) - 1), t)
         /\ Len(SubSeq(fr, 1, Len(fr) - 1)) = Len(fr) - 1
         /\ SubSeq(fr, 1, Len(fr) - 1)[Len(fr) - 1] = fr[Len(fr) - 1]
<1> DEFINE n == Len(fr)
           h == SubSeq(fr, 1, n - 1)
<1>1. fr \in Seq(Frame) /\ n \in Nat /\ n > 1
  BY DEF Stack
<1>2. /\ h \in Seq(Frame) /\ Len(h) = n - 1
      /\ \A j \in 1 .. n - 1 : h[j] = fr[j]
  BY <1>1
<1> HIDE DEF h
<1>3. \A d \in 1 .. n - 2 : Linked(h[d], h[d + 1])
  <2>1. \A d \in 1 .. n - 2 : Linked(fr[d], fr[d + 1])
    BY <1>1 DEF Stack
  <2>2. \A d \in 1 .. n - 2 : h[d] = fr[d] /\ h[d + 1] = fr[d + 1]
    BY <1>1, <1>2
  <2> QED
    BY <2>1, <2>2
<1>4. \A d, e \in 1 .. n - 1 : d < e => End(h[d]) <= h[e].mark
  BY <1>1, <1>2 DEF Stack
<1>5. \A d \in 1 .. n - 1 : FrameOK(h[d], t)
  BY <1>1, <1>2 DEF Stack
<1>6. h[1].kind = "component" /\ h # <<>>
  BY <1>1, <1>2 DEF Stack
<1>7. Stack(h, t)
  BY <1>1, <1>2, <1>3, <1>4, <1>5, <1>6 DEF Stack
<1> QED
  BY <1>1, <1>2, <1>7 DEF h

\* Changing the frame on top.
LEMMA Replace ==
  ASSUME NEW t \in Seq(Lit), NEW fr, Stack(fr, t), NEW g \in Frame,
         g.kind = fr[Len(fr)].kind, g.mark = fr[Len(fr)].mark, FrameOK(g, t)
  PROVE  /\ Stack([fr EXCEPT ![Len(fr)] = g], t)
         /\ Len([fr EXCEPT ![Len(fr)] = g]) = Len(fr)
         /\ [fr EXCEPT ![Len(fr)] = g][Len(fr)] = g
<1> DEFINE n == Len(fr)
           h == [fr EXCEPT ![n] = g]
<1>1. fr \in Seq(Frame) /\ n \in Nat /\ n > 0
  BY DEF Stack
<1>2. /\ h \in Seq(Frame) /\ Len(h) = n
      /\ \A j \in 1 .. n : j # n => h[j] = fr[j]
      /\ h[n] = g
  BY <1>1
<1> HIDE DEF h
<1>3. \A d \in 1 .. n - 1 : Linked(h[d], h[d + 1])
  <2> SUFFICES ASSUME NEW d \in 1 .. n - 1 PROVE Linked(h[d], h[d + 1])
    OBVIOUS
  <2>1. Linked(fr[d], fr[d + 1]) /\ h[d] = fr[d]
    BY <1>1, <1>2 DEF Stack
  <2>2. h[d + 1].kind = fr[d + 1].kind /\ h[d + 1].mark = fr[d + 1].mark
    BY <1>1, <1>2
  <2> QED
    BY <2>1, <2>2 DEF Linked
<1>4. \A d, e \in 1 .. n : d < e => End(h[d]) <= h[e].mark
  <2> SUFFICES ASSUME NEW d \in 1 .. n, NEW e \in 1 .. n, d < e
               PROVE  End(h[d]) <= h[e].mark
    OBVIOUS
  <2>1. End(fr[d]) <= fr[e].mark /\ h[d] = fr[d]
    BY <1>1, <1>2 DEF Stack
  <2>2. h[e].mark = fr[e].mark
    BY <1>1, <1>2
  <2> QED
    BY <2>1, <2>2
<1>5. \A d \in 1 .. n : FrameOK(h[d], t)
  BY <1>1, <1>2 DEF Stack
<1>6. h[1].kind = "component" /\ h # <<>>
  BY <1>1, <1>2 DEF Stack
<1>7. Stack(h, t)
  BY <1>1, <1>2, <1>3, <1>4, <1>5, <1>6 DEF Stack
<1> QED
  BY <1>1, <1>2, <1>7 DEF h

\* The trail may change above the literals of the frames.
LEMMA SamePrefix ==
  ASSUME NEW t \in Seq(Lit), NEW u \in Seq(Lit), NEW fr, Stack(fr, t),
         fr[Len(fr)].mark <= Len(u),
         \A j \in 1 .. fr[Len(fr)].mark : u[j] = t[j],
         FrameOK(fr[Len(fr)], u)
  PROVE  Stack(fr, u)
<1> DEFINE n == Len(fr)
<1>1. fr \in Seq(Frame) /\ n \in Nat /\ n > 0
  BY DEF Stack
<1>2. \A d \in 1 .. n : FrameOK(fr[d], u)
  <2> SUFFICES ASSUME NEW d \in 1 .. n, d # n PROVE FrameOK(fr[d], u)
    BY <1>1
  <2> DEFINE f == fr[d]
             m == fr[n].mark
  <2>1. /\ f \in Frame /\ FrameOK(f, t) /\ End(f) <= m
        /\ m \in Nat /\ m <= Len(t) /\ m <= Len(u)
        /\ \A j \in 1 .. m : u[j] = t[j]
    <3>1. f \in Frame /\ FrameOK(f, t) /\ End(f) <= m
      BY <1>1 DEF Stack
    <3>2. fr[n] \in Frame /\ FrameOK(fr[n], t)
      BY <1>1 DEF Stack
    <3>3. m \in Nat /\ m <= Len(t)
      BY <3>2, FrameType DEF FrameOK
    <3> QED
      BY <3>1, <3>3
  <2> HIDE DEF f, m
  <2>2. /\ f.mark \in Nat /\ f.mark <= m /\ End(f) \in Nat /\ f.mark <= End(f)
        /\ f.kind = "call" => f.lits \in Seq(Lit) /\ End(f) = f.mark + Len(f.lits)
    BY <2>1, FrameType DEF End
  <2>3. \A e \in 0 .. m : AssignedIn(u, e) = AssignedIn(t, e)
    BY <2>1 DEF AssignedIn
  <2>4. f.kind = "call" => CallOK(f, u)
    <3> SUFFICES ASSUME f.kind = "call" PROVE CallOK(f, u)
      OBVIOUS
    <3>1. CallOK(f, t)
      BY <2>1 DEF FrameOK
    <3>2. \A j \in DOMAIN f.lits : f.mark + j \in 1 .. m
      BY <2>1, <2>2
    <3>3. AssignedIn(u, f.mark) = AssignedIn(t, f.mark)
      BY <2>1, <2>2, <2>3
    <3>4. AssignedIn(u, f.mark + Len(f.lits)) = AssignedIn(t, f.mark + Len(f.lits))
      BY <2>1, <2>2, <2>3
    <3>5. \A j \in DOMAIN f.lits :
            /\ VarOf(f.lits[j]) \notin AssignedIn(u, f.mark)
            /\ f.mark + j <= Len(u) => u[f.mark + j] = f.lits[j]
            /\ \A k \in DOMAIN f.lits : j # k => VarOf(f.lits[j]) # VarOf(f.lits[k])
      <4> SUFFICES ASSUME NEW j \in DOMAIN f.lits
                   PROVE  /\ VarOf(f.lits[j]) \notin AssignedIn(u, f.mark)
                          /\ u[f.mark + j] = f.lits[j]
                          /\ \A k \in DOMAIN f.lits : j # k => VarOf(f.lits[j]) # VarOf(f.lits[k])
        OBVIOUS
      <4>1. f.mark + j <= Len(t)
        BY <2>1, <3>2
      <4>2. t[f.mark + j] = f.lits[j]
        BY <3>1, <4>1 DEF CallOK
      <4> QED
        BY <2>1, <3>1, <3>2, <3>3, <4>2 DEF CallOK
    <3>6. \A vs \in f.todo : vs \cap AssignedIn(u, f.mark + Len(f.lits)) = {}
      BY <3>1, <3>4 DEF CallOK
    <3> QED
      BY <3>5, <3>6 DEF CallOK
  <2>5. f.kind = "component" => ComponentOK(f, u)
    <3>1. AssignedIn(u, f.mark) = AssignedIn(t, f.mark)
      BY <2>1, <2>2, <2>3
    <3> QED
      BY <2>1, <3>1 DEF FrameOK, ComponentOK
  <2>6. f.mark <= Len(u)
    BY <2>1, <2>2
  <2> QED
    BY <2>4, <2>5, <2>6 DEF FrameOK, f
<1> QED
  BY <1>2 DEF Stack

(***************************************************************************)
(* The solver gives literals of different variables of the component.      *)
(***************************************************************************)

LEMMA CollectedDistinct ==
  ASSUME NEW vs, NEW assumed, ModelsWith(assumed) # {}, NEW dec,
         NEW u \in Units(vs, assumed), NEW s \in Collected(u, dec)
  PROVE  /\ s \in Seq(Lit)
         /\ \A j \in DOMAIN s : VarOf(s[j]) \in vs
         /\ \A j, k \in DOMAIN s : j # k => VarOf(s[j]) # VarOf(s[k])
<1>1. PICK m \in Assignments : m \in ModelsWith(assumed)
  BY DEF ModelsWith
<1>2. /\ u \subseteq Lit
      /\ \A l \in u : VarOf(l) \in vs /\ Satisfies(m, l)
  BY <1>1 DEF Units
<1>3. Cardinality(u) \in Nat
  <2>1. 0 \in Int /\ 2 * NumVars - 1 \in Int
    BY NumVarsAssumption
  <2>2. IsFiniteSet(Lit)
    BY <2>1, FS_Interval DEF Lit
  <2> QED
    BY <1>2, <2>2, FS_Subset, FS_CardinalityType
<1>4. s \in [1 .. Cardinality(u) -> u]
  BY DEF Collected
<1>5. s \in Seq(Lit)
  BY <1>2, <1>3, <1>4
<1>6. \A j, k \in DOMAIN s : j < k => s[j] # s[k]
  BY DEF Collected
<1>7. \A j, k \in DOMAIN s : j # k => s[j] # s[k]
  <2>1. \A j, k \in DOMAIN s : j # k => j < k \/ k < j
    BY <1>5
  <2> QED
    BY <1>6, <2>1
<1>8. ASSUME NEW j \in DOMAIN s, NEW k \in DOMAIN s, j # k
      PROVE  VarOf(s[j]) # VarOf(s[k])
  <2>1. s[j] \in u /\ s[k] \in u
    BY <1>4
  <2>2. s[j] \in Lit /\ s[k] \in Lit /\ s[j] # s[k]
    BY <1>2, <1>7, <1>8, <2>1
  <2>3. s[j] # Neg(s[k])
    BY <1>2, <2>1, <2>2, SatisfiesOne
  <2> QED
    BY <2>2, <2>3, SameVar
<1> QED
  BY <1>2, <1>4, <1>5, <1>8

(***************************************************************************)
(* The inductive invariant.                                                *)
(***************************************************************************)

TrailInv ==
  /\ trail \in Seq(Lit)
  /\ currentValue = TrailLits(trail)
  /\ \A j, k \in DOMAIN trail : j # k => VarOf(trail[j]) # VarOf(trail[k])

\* Where each step of a call is in its literals.
CallInv ==
  /\ Stack(frames, trail)
  /\ pc \in {"branch", "assign", "keep", "components", "restrict", "unassign"}
  /\ i \in Nat
  /\ Top.kind = "component" <=> pc \in {"restrict", "branch"}
  /\ pc \in {"assign", "keep", "unassign"} => Top.todo = {}
  /\ pc = "assign" => i - 1 \in 0 .. Len(Top.lits) /\ Len(trail) = Top.mark + (i - 1)
  /\ pc = "unassign" => i \in 0 .. Len(Top.lits) /\ Len(trail) = Top.mark + i
  /\ pc \in {"keep", "components"} => Len(trail) = Top.mark + Len(Top.lits)
  /\ pc \in {"restrict", "branch"} => Len(trail) = Top.mark

ListsInv ==
  /\ clauses \in Seq(SUBSET Lit)
  /\ occList \in [Lit -> SUBSET Ids]
  /\ nbSat \in [Ids -> Nat]
  /\ nbUnsat \in [Ids -> Nat]
  /\ \A l \in Lit : occList[l] = ListIn(trail, l)
  /\ \A c \in Ids : nbSat[c] = SatIn(trail, c) /\ nbUnsat[c] = Cardinality(FalseIn(trail, c))

Inv == TrailInv /\ CallInv /\ ListsInv

LEMMA InitInv == Init => Inv
<1> SUFFICES ASSUME Init PROVE Inv
  OBVIOUS
<1>1. trail = <<>> /\ trail \in Seq(Lit) /\ Len(trail) = 0 /\ DOMAIN trail = {}
  BY DEF Init
<1>2. TrailLits(trail) = {} /\ \A l : EarlierIn(trail, l) = {}
  BY <1>1 DEF TrailLits, EarlierIn
<1>3. clauses \in Seq(SUBSET Lit)
  BY FormulasAssumption DEF Init
<1>4. TrailInv
  BY <1>1, <1>2 DEF TrailInv, Init
<1>5. ListsInv
  <2>1. \A c \in Ids : clauses[c] \subseteq Lit
    BY <1>3 DEF Ids
  <2>2. \A l \in Lit : occList[l] = ListIn(trail, l)
    BY <1>2 DEF Init, ListIn, Ids
  <2>3. \A c \in Ids : SatIn(trail, c) = 0 /\ FalseIn(trail, c) = {}
    BY <1>2 DEF SatIn, FalseIn
  <2>4. \A c \in Ids : nbSat[c] = SatIn(trail, c) /\ nbUnsat[c] = Cardinality(FalseIn(trail, c))
    BY <2>3, FS_EmptySet DEF Init, Ids
  <2> QED
    BY <1>3, <2>2, <2>4 DEF Init, ListsInv, Ids
<1>6. CallInv
  <2> DEFINE g == ComponentFrame(Var, <<NoLit>>)
  <2>1. /\ g.kind = "component" /\ g.vars = Var /\ g.mark = 0 /\ g.branches = <<NoLit>>
        /\ g \in Frame
    BY <1>1 DEF ComponentFrame, Frame, ComponentFrames
  <2>2. ComponentOK(g, trail)
    <3>1. AssignedIn(trail, g.mark) = {}
      BY <2>1 DEF AssignedIn
    <3>2. \A j \in DOMAIN g.branches : g.branches[j] = NoLit
      BY <2>1
    <3> QED
      BY <3>1, <3>2 DEF ComponentOK
  <2> HIDE DEF g
  <2>3. frames = <<g>> /\ Len(frames) = 1 /\ Top = g
    BY DEF Init, Top, g
  <2>4. FrameOK(g, trail)
    BY <1>1, <2>1, <2>2 DEF FrameOK
  <2>5. Stack(frames, trail)
    BY <2>1, <2>3, <2>4 DEF Stack
  <2> QED
    BY <1>1, <2>1, <2>3, <2>5 DEF Init, CallInv
<1> QED
  BY <1>4, <1>5, <1>6 DEF Inv

\* The frame on top.
LEMMA TopFacts ==
  ASSUME Inv
  PROVE  /\ frames \in Seq(Frame) /\ Len(frames) \in Nat /\ Len(frames) > 0
         /\ Stack(frames, trail) /\ trail \in Seq(Lit) /\ Len(trail) \in Nat
         /\ Top \in Frame /\ Top.mark \in Nat /\ Top.vars \subseteq Var
         /\ FrameOK(Top, trail)
         /\ Top.kind = "component" => Top \in ComponentFrames /\ Top.branches \in Seq(Lit \cup {NoLit})
         /\ Top.kind # "component" =>
              Top \in CallFrames /\ Top.kind = "call" /\ Top.lits \in Seq(Lit) /\ Len(Top.lits) \in Nat
<1>1. Stack(frames, trail) /\ trail \in Seq(Lit)
  BY DEF Inv, CallInv, TrailInv
<1>2. frames \in Seq(Frame) /\ Len(frames) \in Nat /\ Len(frames) > 0
  BY <1>1 DEF Stack
<1>3. Top \in Frame /\ FrameOK(Top, trail)
  BY <1>1, <1>2 DEF Stack, Top
<1>4. Len(trail) \in Nat
  BY <1>1
<1>5. Top.kind = "call" => Len(Top.lits) \in Nat
  BY <1>3, FrameType
<1> QED
  BY <1>1, <1>2, <1>3, <1>4, <1>5, FrameType

\* Steps that neither assign nor undo a literal.
LEMMA KeepsLists ==
  ASSUME Inv, UNCHANGED <<clauses, currentValue, occList, nbSat, nbUnsat, trail>>
  PROVE  TrailInv' /\ ListsInv'
<1>1. TrailInv'
  BY DEF Inv, TrailInv, TrailLits
<1>2. Ids' = Ids
  BY DEF Ids
<1>3. /\ \A l : ListIn(trail, l)' = ListIn(trail, l)
      /\ \A c : SatIn(trail, c)' = SatIn(trail, c) /\ FalseIn(trail, c)' = FalseIn(trail, c)
  BY <1>2 DEF ListIn, SatIn, FalseIn, EarlierIn, TrailLits
<1>4. ListsInv'
  BY <1>2, <1>3 DEF Inv, ListsInv
<1> QED
  BY <1>1, <1>4

\* The state of the calls, when neither the stack nor the trail changes.
LEMMA KeepsStack ==
  ASSUME Inv, UNCHANGED <<frames, trail>>
  PROVE  Stack(frames, trail)' /\ Top' = Top
  BY DEF Inv, CallInv, Stack, FrameOK, CallOK, ComponentOK, AssignedIn, Top

\* The stack when the frame on top is changed.
LEMMA ChangesTop ==
  ASSUME Inv, NEW g \in Frame, g.kind = Top.kind, g.mark = Top.mark, FrameOK(g, trail)
  PROVE  /\ Stack(SetTop(g), trail)
         /\ Len(SetTop(g)) = Len(frames) /\ SetTop(g)[Len(frames)] = g
<1>1. Stack(frames, trail) /\ trail \in Seq(Lit)
  BY TopFacts
<1>2. g.kind = frames[Len(frames)].kind /\ g.mark = frames[Len(frames)].mark
  BY DEF Top
<1> QED
  BY <1>1, <1>2, Replace DEF SetTop

\* The stack when it grows, shrinks or changes and the trail does not.
LEMMA StackPrimed ==
  ASSUME NEW n, Stack(frames', trail), Len(frames') = n, trail' = trail
  PROVE  Stack(frames, trail)' /\ Top' = (frames')[n]
  BY DEF Stack, FrameOK, CallOK, ComponentOK, AssignedIn, Top

LEMMA StackOfTrail ==
  ASSUME NEW t, Stack(frames, t), frames' = frames, trail' = t
  PROVE  Stack(frames, trail)' /\ Top' = Top
  BY DEF Stack, FrameOK, CallOK, ComponentOK, AssignedIn, Top

LEMMA StepUnsat == ASSUME Inv, Unsat PROVE Inv'
<1> DEFINE g == [Top EXCEPT !.branches = Tail(@)]
<1>1. /\ Top.kind = "component" /\ Top.branches # <<>> /\ pc = "branch" /\ pc' = pc
      /\ frames' = SetTop(g) /\ trail' = trail /\ i' = i
      /\ UNCHANGED <<clauses, currentValue, occList, nbSat, nbUnsat>>
  BY DEF Unsat, Branching, manager
<1>2. /\ Top \in ComponentFrames /\ Top.branches \in Seq(Lit \cup {NoLit})
      /\ ComponentOK(Top, trail) /\ FrameOK(Top, trail)
  BY <1>1, TopFacts DEF FrameOK
<1>3. /\ Tail(Top.branches) \in Seq(Lit \cup {NoLit})
      /\ \A j \in DOMAIN Tail(Top.branches) :
           j + 1 \in DOMAIN Top.branches /\ Tail(Top.branches)[j] = Top.branches[j + 1]
  BY <1>1, <1>2
<1>4. /\ g \in ComponentFrames /\ g.kind = Top.kind /\ g.mark = Top.mark /\ g.vars = Top.vars
      /\ g.branches = Tail(Top.branches)
  BY <1>2, <1>3 DEF ComponentFrames
<1> HIDE DEF g
<1>5. FrameOK(g, trail)
  BY <1>1, <1>2, <1>3, <1>4 DEF FrameOK, ComponentOK
<1>6. Stack(frames', trail) /\ Len(frames') = Len(frames) /\ (frames')[Len(frames)] = g
  BY <1>1, <1>4, <1>5, ChangesTop DEF Frame
<1>7. Stack(frames, trail)' /\ Top' = g
  BY <1>1, <1>6, StackPrimed
<1>8. CallInv'
  BY <1>1, <1>4, <1>7 DEF Inv, CallInv
<1> QED
  BY <1>1, <1>8, KeepsLists DEF Inv

\* The steps of the loops that touch no value and no call.
LEMMA StepLoops ==
  ASSUME Inv, Review \/ Keep \/ RestrictSet \/ NoDecision \/ Return
  PROVE  Inv'
<1>1. UNCHANGED <<clauses, currentValue, occList, nbSat, nbUnsat, frames, trail>>
  BY DEF Review, Keep, RestrictSet, NoDecision, Return, manager
<1>2. Stack(frames, trail)' /\ Top' = Top
  BY <1>1, KeepsStack
<1>3. CASE Review
  <2>1. pc = "assign" /\ i > Len(Top.lits) /\ pc' = "keep" /\ i' = 1
    BY <1>3 DEF Review
  <2>2. Top.kind # "component" /\ Len(Top.lits) \in Nat /\ Len(trail) = Top.mark + Len(Top.lits)
    BY <2>1, TopFacts DEF Inv, CallInv
  <2>3. CallInv'
    BY <1>1, <1>2, <2>1, <2>2 DEF Inv, CallInv
  <2> QED
    BY <1>1, <2>3, KeepsLists DEF Inv
<1>4. CASE Keep \/ RestrictSet \/ NoDecision
  <2>1. /\ pc \in {"keep", "restrict"}
        /\ pc' = pc \/ (pc = "restrict" /\ pc' = "branch")
        /\ i' = i \/ i' = i + 1
    BY <1>4 DEF Keep, RestrictSet, NoDecision, ScanNext, Drop
  <2>2. CallInv'
    BY <1>1, <1>2, <2>1 DEF Inv, CallInv
  <2> QED
    BY <1>1, <2>2, KeepsLists DEF Inv
<1>5. CASE Return
  <2>1. pc = "components" /\ Top.todo = {} /\ pc' = "unassign" /\ i' = Len(Top.lits)
    BY <1>5 DEF Return
  <2>2. Top.kind # "component" /\ Len(Top.lits) \in Nat
    BY <2>1, TopFacts DEF Inv, CallInv
  <2>3. CallInv'
    BY <1>1, <1>2, <2>1, <2>2 DEF Inv, CallInv
  <2> QED
    BY <1>1, <2>3, KeepsLists DEF Inv
<1> QED
  BY <1>3, <1>4, <1>5

LEMMA StepSolve == ASSUME Inv, Solve PROVE Inv'
<1>1. /\ Branching /\ ModelsWith(Assumed) # {}
      /\ pc' = "assign" /\ i' = 1 /\ trail' = trail
      /\ UNCHANGED <<clauses, currentValue, occList, nbSat, nbUnsat>>
  BY DEF Solve, manager
<1>2. PICK u \in Units(Top.vars, Assumed) : \E lits \in Collected(u, Decision) :
         frames' = Append(frames, CallFrame(Top.vars, lits))
  BY DEF Solve
<1>3. PICK lits \in Collected(u, Decision) : frames' = Append(frames, CallFrame(Top.vars, lits))
  BY <1>2
<1> DEFINE g == CallFrame(Top.vars, lits)
<1>4. /\ lits \in Seq(Lit)
      /\ \A j \in DOMAIN lits : VarOf(lits[j]) \in Top.vars
      /\ \A j, k \in DOMAIN lits : j # k => VarOf(lits[j]) # VarOf(lits[k])
  BY <1>1, CollectedDistinct
<1>5. /\ Top.kind = "component" /\ Top.branches # <<>> /\ Len(trail) = Top.mark
      /\ Top.vars \subseteq Var /\ Top.mark \in Nat
      /\ Top.vars \cap AssignedIn(trail, Top.mark) = {}
  BY <1>1, TopFacts DEF Branching, Inv, CallInv, FrameOK, ComponentOK
<1>6. /\ g \in Frame /\ g.kind = "call" /\ g.mark = Len(trail) /\ g.lits = lits /\ g.todo = {}
  BY <1>4, <1>5 DEF CallFrame, Frame, CallFrames
<1> HIDE DEF g
<1>7. Len(lits) \in Nat /\ DOMAIN lits = 1 .. Len(lits)
  BY <1>4
<1>8. CallOK(g, trail)
  <2>1. \A j \in DOMAIN lits : ~ (Len(trail) + j <= Len(trail))
    BY <1>5, <1>7
  <2> QED
    BY <1>4, <1>5, <1>6, <2>1 DEF CallOK
<1>9. FrameOK(g, trail) /\ Linked(frames[Len(frames)], g)
  <2>1. End(Top) = Top.mark
    BY <1>5 DEF End
  <2>2. g.mark <= Len(trail)
    BY <1>5, <1>6
  <2>3. Linked(Top, g)
    BY <1>5, <1>6, <2>1 DEF Linked
  <2> QED
    BY <1>6, <1>8, <2>2, <2>3 DEF FrameOK, Top
<1>10. Stack(frames', trail)
  BY <1>3, <1>6, <1>9, TopFacts, Push DEF g
<1>11. Len(frames') = Len(frames) + 1 /\ (frames')[Len(frames) + 1] = g
  BY <1>3, <1>6, TopFacts, AppendProperties DEF g
<1>12. Stack(frames, trail)' /\ Top' = g
  BY <1>1, <1>10, <1>11, StackPrimed
<1>13. CallInv'
  <2>1. i' - 1 = 0 /\ i' \in Nat
    BY <1>1
  <2> QED
    BY <1>1, <1>5, <1>6, <1>7, <1>12, <2>1 DEF CallInv
<1> QED
  BY <1>1, <1>13, KeepsLists DEF Inv

LEMMA StepDecide == ASSUME Inv, Decide PROVE Inv'
<1>1. PICK l \in Lit : /\ VarOf(l) \in Top.vars
                       /\ frames' = SetTop([Top EXCEPT !.branches = <<l, Neg(l)>>])
  BY DEF Decide
<1> DEFINE g == [Top EXCEPT !.branches = <<l, Neg(l)>>]
<1>2. /\ pc = "restrict" /\ pc' = "branch" /\ i' = i /\ trail' = trail
      /\ UNCHANGED <<clauses, currentValue, occList, nbSat, nbUnsat>>
  BY DEF Decide, manager
<1>3. /\ Top \in ComponentFrames /\ Top.kind = "component"
      /\ ComponentOK(Top, trail) /\ FrameOK(Top, trail)
  BY <1>2, TopFacts DEF FrameOK, Inv, CallInv
<1>4. /\ Neg(l) \in Lit /\ VarOf(Neg(l)) = VarOf(l)
      /\ <<l, Neg(l)>> \in Seq(Lit \cup {NoLit})
  BY SameVar
<1>5. /\ g \in ComponentFrames /\ g.kind = Top.kind /\ g.mark = Top.mark /\ g.vars = Top.vars
      /\ g.branches = <<l, Neg(l)>>
  BY <1>3, <1>4 DEF ComponentFrames
<1> HIDE DEF g
<1>6. FrameOK(g, trail)
  <2>1. \A j \in DOMAIN g.branches : VarOf(g.branches[j]) \in g.vars
    BY <1>1, <1>4, <1>5
  <2> QED
    BY <1>3, <1>5, <2>1 DEF FrameOK, ComponentOK
<1>7. Stack(frames', trail) /\ Len(frames') = Len(frames) /\ (frames')[Len(frames)] = g
  BY <1>1, <1>5, <1>6, ChangesTop DEF Frame, g
<1>8. Stack(frames, trail)' /\ Top' = g
  BY <1>2, <1>7, StackPrimed
<1>9. CallInv'
  BY <1>2, <1>3, <1>5, <1>8 DEF Inv, CallInv
<1> QED
  BY <1>2, <1>9, KeepsLists DEF Inv

LEMMA VarLits ==
  ASSUME NEW v \in Var
  PROVE  PosLit(v) \in Lit /\ NegLit(v) \in Lit
  BY NumVarsAssumption, SMTT(30) DEF Lit, Var, PosLit, NegLit

LEMMA LitOfVar ==
  ASSUME NEW l \in Lit, NEW v \in Var
  PROVE  /\ VarOf(l) = v => l = PosLit(v) \/ l = Neg(PosLit(v))
         /\ l = PosLit(VarOf(l)) \/ Neg(l) = PosLit(VarOf(l))
  BY NumVarsAssumption, SMTT(30) DEF Lit, Var, Neg, VarOf, PosLit, NegLit

\* A component found holds unassigned variables only.
LEMMA ComponentsFree ==
  ASSUME Inv, NEW vs \in SUBSET Var, NEW s \in Components(vs)
  PROVE  s \subseteq Var /\ s \cap TrailVars(trail) = {}
<1> DEFINE free == {w \in Var : UndefVar(w)}
           closed(r) == \A u \in r : \A c \in occList[PosLit(u)] \cup occList[NegLit(u)] :
                          UndefVars(c) \subseteq r
<1>1. PICK v \in vs : UndefVar(v) /\ s = Connected(v)
  BY DEF Components
<1>2. closed(free)
  <2> SUFFICES ASSUME NEW u \in free,
                      NEW c \in occList[PosLit(u)] \cup occList[NegLit(u)],
                      NEW l \in clauses[c], Undef(l)
               PROVE  VarOf(l) \in free
    BY DEF UndefVars
  <2>1. c \in Ids
    <3>1. PosLit(u) \in Lit /\ NegLit(u) \in Lit
      BY VarLits
    <3>2. occList \in [Lit -> SUBSET Ids]
      BY DEF Inv, ListsInv
    <3> HIDE DEF free
    <3> QED
      BY <3>1, <3>2
  <2>2. l \in Lit
    BY <2>1 DEF Inv, ListsInv, Ids
  <2>3. VarOf(l) \in Var /\ Neg(Neg(l)) = l
    BY <2>2, SameVar
  <2>4. l = PosLit(VarOf(l)) \/ Neg(l) = PosLit(VarOf(l))
    BY <2>2, <2>3, LitOfVar
  <2>5. UndefVar(VarOf(l))
    BY <2>3, <2>4 DEF UndefVar, Undef
  <2> QED
    BY <2>3, <2>5
<1>3. s = {w \in Var : \A r \in SUBSET Var : v \in r /\ closed(r) => w \in r}
  BY <1>1 DEF Connected
<1>4. v \in free /\ free \in SUBSET Var
  BY <1>1
<1> HIDE DEF closed
<1>5. s \subseteq free
  BY <1>2, <1>3, <1>4
<1>6. ASSUME NEW w \in free PROVE w \notin TrailVars(trail)
  <2> SUFFICES ASSUME NEW j \in DOMAIN trail, VarOf(trail[j]) = w PROVE FALSE
    BY DEF TrailVars
  <2>1. trail[j] \in Lit /\ trail[j] \in currentValue
    BY DEF Inv, TrailInv, TrailLits
  <2>2. trail[j] = PosLit(w) \/ trail[j] = Neg(PosLit(w))
    BY <2>1, LitOfVar
  <2> QED
    BY <2>1, <2>2 DEF UndefVar, Undef
<1> QED
  BY <1>5, <1>6

LEMMA AssignedAll ==
  ASSUME NEW t \in Seq(Lit)
  PROVE  AssignedIn(t, Len(t)) = TrailVars(t)
  BY DEF AssignedIn, TrailVars

LEMMA StepSplit == ASSUME Inv, Split PROVE Inv'
<1> DEFINE g == [Top EXCEPT !.todo = {s \cap Top.vars : s \in Components(Top.vars)}]
<1>1. /\ pc = "keep" /\ pc' = "components" /\ i' = i /\ trail' = trail
      /\ frames' = SetTop(g)
      /\ UNCHANGED <<clauses, currentValue, occList, nbSat, nbUnsat>>
  BY DEF Split, manager
<1>2. /\ Top \in CallFrames /\ Top.kind = "call" /\ Top.vars \subseteq Var
      /\ Top.lits \in Seq(Lit) /\ Top.mark \in Nat
      /\ FrameOK(Top, trail) /\ Len(trail) = Top.mark + Len(Top.lits)
  BY <1>1, TopFacts DEF Inv, CallInv
<1>3. {s \cap Top.vars : s \in Components(Top.vars)} \in SUBSET SUBSET Var
  BY <1>2
<1>4. /\ g \in CallFrames /\ g.kind = "call" /\ g.mark = Top.mark /\ g.lits = Top.lits
      /\ g.todo = {s \cap Top.vars : s \in Components(Top.vars)}
  BY <1>2, <1>3 DEF CallFrames
<1>5. \A vs \in g.todo : vs \cap AssignedIn(trail, Top.mark + Len(Top.lits)) = {}
  <2>1. AssignedIn(trail, Top.mark + Len(Top.lits)) = TrailVars(trail)
    BY <1>2, TopFacts, AssignedAll
  <2>2. \A s \in Components(Top.vars) : s \cap TrailVars(trail) = {}
    BY <1>2, ComponentsFree
  <2> QED
    BY <1>4, <2>1, <2>2
<1> HIDE DEF g
<1>6. FrameOK(g, trail)
  BY <1>2, <1>4, <1>5 DEF FrameOK, CallOK
<1>7. Stack(frames', trail) /\ Len(frames') = Len(frames) /\ (frames')[Len(frames)] = g
  BY <1>1, <1>2, <1>4, <1>6, ChangesTop DEF Frame
<1>8. Stack(frames, trail)' /\ Top' = g
  BY <1>1, <1>7, StackPrimed
<1>9. CallInv'
  BY <1>1, <1>2, <1>4, <1>8 DEF Inv, CallInv
<1> QED
  BY <1>1, <1>9, KeepsLists DEF Inv

LEMMA StepNextComponent == ASSUME Inv, NextComponent PROVE Inv'
<1>1. PICK s \in Top.todo :
        frames' = Append(SetTop([Top EXCEPT !.todo = @ \ {s}]), ComponentFrame(s, <<>>))
  BY DEF NextComponent
<1> DEFINE f == [Top EXCEPT !.todo = @ \ {s}]
           g == ComponentFrame(s, <<>>)
<1>2. /\ pc = "components" /\ pc' = "restrict" /\ i' = 1 /\ trail' = trail
      /\ UNCHANGED <<clauses, currentValue, occList, nbSat, nbUnsat>>
  BY DEF NextComponent, manager
<1>3. /\ Top \in CallFrames /\ Top.kind = "call" /\ Top.todo \subseteq SUBSET Var
      /\ Top.lits \in Seq(Lit) /\ Top.mark \in Nat
      /\ FrameOK(Top, trail) /\ CallOK(Top, trail) /\ Len(trail) = Top.mark + Len(Top.lits)
  BY <1>2, TopFacts, FrameType DEF Inv, CallInv, FrameOK
<1>4. /\ f \in CallFrames /\ f.kind = "call" /\ f.mark = Top.mark /\ f.lits = Top.lits
      /\ f.todo = Top.todo \ {s}
  BY <1>3 DEF CallFrames
<1>5. /\ g.kind = "component" /\ g.vars = s /\ g.mark = Len(trail) /\ g.branches = <<>>
      /\ g \in ComponentFrames
  BY <1>3, TopFacts DEF ComponentFrame, ComponentFrames
<1> HIDE DEF f, g
<1>6. FrameOK(f, trail)
  BY <1>3, <1>4 DEF FrameOK, CallOK
<1>7. Stack(SetTop(f), trail) /\ Len(SetTop(f)) = Len(frames) /\ SetTop(f)[Len(frames)] = f
  BY <1>3, <1>4, <1>6, ChangesTop DEF Frame
<1>8. FrameOK(g, trail)
  <2>1. s \cap AssignedIn(trail, Len(trail)) = {}
    BY <1>3 DEF CallOK
  <2>2. ComponentOK(g, trail)
    BY <1>5, <2>1 DEF ComponentOK
  <2> QED
    BY <1>5, <2>2, TopFacts DEF FrameOK
<1>9. Linked(f, g)
  BY <1>3, <1>4, <1>5 DEF Linked, End
<1>10. trail \in Seq(Lit) /\ Len(frames) \in Nat /\ g \in Frame
  BY <1>5, TopFacts DEF Frame
<1>11. frames' = Append(SetTop(f), g)
  BY <1>1 DEF f, g
<1>12. Stack(frames', trail)
  BY <1>7, <1>8, <1>9, <1>10, <1>11, Push
<1>13. SetTop(f) \in Seq(Frame)
  BY <1>7 DEF Stack
<1>14. Len(frames') = Len(frames) + 1 /\ (frames')[Len(frames) + 1] = g
  BY <1>7, <1>10, <1>11, <1>13, AppendProperties
<1>15. Stack(frames, trail)' /\ Top' = g
  BY <1>2, <1>12, <1>14, StackPrimed
<1>16. CallInv'
  BY <1>2, <1>5, <1>15 DEF Inv, CallInv
<1> QED
  BY <1>2, <1>16, KeepsLists DEF Inv

LEMMA StepLeaveComponent == ASSUME Inv, LeaveComponent PROVE Inv'
<1> DEFINE n == Len(frames)
           f == frames[n - 1]
<1>1. /\ pc = "branch" /\ n > 1 /\ frames' = SubSeq(frames, 1, n - 1)
      /\ pc' = "components" /\ i' = i /\ trail' = trail
      /\ UNCHANGED <<clauses, currentValue, occList, nbSat, nbUnsat>>
  BY DEF LeaveComponent, Below, manager
<1>2. Top.kind = "component" /\ Len(trail) = Top.mark
  BY <1>1 DEF Inv, CallInv
<1>3. n \in Nat /\ Stack(frames, trail) /\ trail \in Seq(Lit) /\ frames \in Seq(Frame)
  BY TopFacts
<1>4. Linked(f, Top) /\ f \in Frame
  <2>1. \A d \in 1 .. n - 1 : Linked(frames[d], frames[d + 1])
    BY <1>3 DEF Stack
  <2>2. n - 1 \in 1 .. n - 1 /\ (n - 1) + 1 = n /\ n - 1 \in 1 .. n
    BY <1>1, <1>3
  <2> QED
    BY <1>3, <2>1, <2>2 DEF Top
<1>5. f.kind = "call" /\ Len(trail) = f.mark + Len(f.lits)
  BY <1>2, <1>4, FrameType DEF Linked, End
<1>6. Stack(frames', trail) /\ Len(frames') = n - 1 /\ (frames')[n - 1] = f
  BY <1>1, <1>3, PopFrame
<1> HIDE DEF f
<1>7. Stack(frames, trail)' /\ Top' = f
  BY <1>1, <1>6, StackPrimed
<1>8. CallInv'
  BY <1>1, <1>5, <1>7 DEF Inv, CallInv
<1> QED
  BY <1>1, <1>8, KeepsLists DEF Inv

LEMMA StepReturned == ASSUME Inv, Returned PROVE Inv'
<1> DEFINE n == Len(frames)
           f == frames[n - 1]
           g == [f EXCEPT !.branches = Tail(@)]
<1>1. /\ pc = "unassign" /\ i = 0
      /\ frames' = [Below EXCEPT ![n - 1] = g]
      /\ pc' = "branch" /\ i' = i /\ trail' = trail
      /\ UNCHANGED <<clauses, currentValue, occList, nbSat, nbUnsat>>
  BY DEF Returned, manager
<1>2. Top.kind = "call" /\ Len(trail) = Top.mark + i /\ Top.mark \in Nat
  BY <1>1, TopFacts DEF Inv, CallInv
<1>3. n \in Nat /\ n > 0 /\ Stack(frames, trail) /\ trail \in Seq(Lit) /\ frames \in Seq(Frame)
  BY TopFacts
<1>4. n > 1
  BY <1>2, <1>3 DEF Stack, Top
<1>5. Linked(f, Top) /\ f \in Frame /\ FrameOK(f, trail)
  <2>1. \A d \in 1 .. n - 1 : Linked(frames[d], frames[d + 1])
    BY <1>3 DEF Stack
  <2>2. n - 1 \in 1 .. n - 1 /\ (n - 1) + 1 = n /\ n - 1 \in 1 .. n
    BY <1>3, <1>4
  <2>3. FrameOK(frames[n - 1], trail)
    BY <1>3, <2>2 DEF Stack
  <2> QED
    BY <1>3, <2>1, <2>2, <2>3 DEF Top
<1>6. /\ f \in ComponentFrames /\ f.kind = "component" /\ Len(trail) = f.mark
      /\ f.branches \in Seq(Lit \cup {NoLit}) /\ f.branches # <<>> /\ ComponentOK(f, trail)
  BY <1>1, <1>2, <1>5, FrameType DEF Linked, End, FrameOK
<1> HIDE DEF f
<1>7. /\ Tail(f.branches) \in Seq(Lit \cup {NoLit})
      /\ \A j \in DOMAIN Tail(f.branches) :
           j + 1 \in DOMAIN f.branches /\ Tail(f.branches)[j] = f.branches[j + 1]
  BY <1>6
<1>8. /\ g \in ComponentFrames /\ g.kind = f.kind /\ g.mark = f.mark /\ g.vars = f.vars
      /\ g.branches = Tail(f.branches)
  BY <1>6, <1>7 DEF ComponentFrames
<1> HIDE DEF g
<1>9. FrameOK(g, trail)
  BY <1>5, <1>6, <1>7, <1>8 DEF FrameOK, ComponentOK
<1>10. Stack(Below, trail) /\ Len(Below) = n - 1 /\ Below[n - 1] = f
  BY <1>3, <1>4, PopFrame DEF Below, f
<1>11. /\ Stack([Below EXCEPT ![Len(Below)] = g], trail)
       /\ Len([Below EXCEPT ![Len(Below)] = g]) = Len(Below)
       /\ [Below EXCEPT ![Len(Below)] = g][Len(Below)] = g
  BY <1>3, <1>8, <1>9, <1>10, Replace DEF Frame
<1>12. Stack(frames', trail) /\ Len(frames') = n - 1 /\ (frames')[n - 1] = g
  BY <1>1, <1>10, <1>11
<1>13. Stack(frames, trail)' /\ Top' = g
  BY <1>1, <1>12, StackPrimed
<1>14. CallInv'
  BY <1>1, <1>6, <1>8, <1>13 DEF Inv, CallInv
<1> QED
  BY <1>1, <1>14, KeepsLists DEF Inv

(***************************************************************************)
(* Assigning and undoing a literal.                                        *)
(***************************************************************************)

LEMMA UndefTrail ==
  ASSUME NEW t \in Seq(Lit), currentValue = TrailLits(t), NEW k \in Lit
  PROVE  Undef(k) <=> VarOf(k) \notin TrailVars(t)
<1>1. ASSUME NEW j \in DOMAIN t, VarOf(t[j]) = VarOf(k) PROVE ~ Undef(k)
  <2>1. t[j] \in Lit
    OBVIOUS
  <2>2. t[j] = k \/ t[j] = Neg(k)
    BY <1>1, <2>1, SameVar
  <2> QED
    BY <2>2 DEF Undef, TrailLits
<1>2. ASSUME ~ Undef(k) PROVE VarOf(k) \in TrailVars(t)
  <2>1. PICK j \in DOMAIN t : t[j] = k \/ t[j] = Neg(k)
    BY <1>2 DEF Undef, TrailLits
  <2>2. VarOf(Neg(k)) = VarOf(k)
    BY SameVar
  <2> QED
    BY <2>1, <2>2 DEF TrailVars
<1> QED
  BY <1>1, <1>2 DEF TrailVars

LEMMA FalseFinite ==
  ASSUME clauses \in Seq(SUBSET Lit), NEW t, NEW c \in Ids
  PROVE  Cardinality(FalseIn(t, c)) \in Nat
<1>1. 0 \in Int /\ 2 * NumVars - 1 \in Int
  BY NumVarsAssumption
<1>2. IsFiniteSet(Lit)
  BY <1>1, FS_Interval DEF Lit
<1>3. FalseIn(t, c) \subseteq Lit
  BY DEF FalseIn, Ids
<1> QED
  BY <1>2, <1>3, FS_Subset, FS_CardinalityType

LEMMA ListsPrimed ==
  ASSUME clauses' = clauses, NEW u, trail' = u
  PROVE  /\ Ids' = Ids
         /\ \A k : ListIn(trail, k)' = ListIn(u, k)
         /\ \A c : SatIn(trail, c)' = SatIn(u, c) /\ FalseIn(trail, c)' = FalseIn(u, c)
         /\ TrailLits(trail)' = TrailLits(u)
  BY DEF ListIn, SatIn, FalseIn, EarlierIn, TrailLits, Ids

\* The literal that a call has to assign next is of a new variable.
LEMMA NextLiteral ==
  ASSUME Inv, pc = "assign", i <= Len(Top.lits)
  PROVE  /\ i \in DOMAIN Top.lits /\ Top.lits[i] \in Lit
         /\ VarOf(Top.lits[i]) \notin TrailVars(trail)
<1>1. /\ Top.kind = "call" /\ Top.lits \in Seq(Lit) /\ CallOK(Top, trail)
      /\ Top.mark \in Nat /\ Len(trail) = Top.mark + (i - 1) /\ i - 1 \in 0 .. Len(Top.lits)
      /\ Len(Top.lits) \in Nat /\ i \in Nat
  BY TopFacts DEF Inv, CallInv, FrameOK
<1>2. i \in DOMAIN Top.lits /\ Top.lits[i] \in Lit
  BY <1>1
<1>3. ASSUME NEW j \in DOMAIN trail PROVE VarOf(trail[j]) # VarOf(Top.lits[i])
  <2>1. j \in 1 .. Len(trail)
    BY TopFacts
  <2>2. CASE j <= Top.mark
    <3>1. VarOf(trail[j]) \in AssignedIn(trail, Top.mark)
      BY <2>1, <2>2, <1>1 DEF AssignedIn
    <3> QED
      BY <1>1, <1>2, <3>1 DEF CallOK
  <2>3. CASE j > Top.mark
    <3>1. PICK k \in DOMAIN Top.lits : k # i /\ Top.mark + k = j
      <4>1. j - Top.mark \in DOMAIN Top.lits /\ j - Top.mark # i
        BY <1>1, <2>1, <2>3
      <4> QED
        BY <1>1, <2>1, <4>1
    <3>2. Top.mark + k <= Len(trail)
      BY <2>1, <3>1
    <3>3. trail[j] = Top.lits[k]
      BY <1>1, <3>1, <3>2 DEF CallOK
    <3> QED
      BY <1>1, <1>2, <3>1, <3>3 DEF CallOK
  <2> QED
    BY <1>1, <2>1, <2>2, <2>3
<1> QED
  BY <1>2, <1>3 DEF TrailVars

LEMMA StepAssign == ASSUME Inv, Assign PROVE Inv'
<1> DEFINE l == Top.lits[i]
           u == Append(trail, l)
<1>1. /\ pc = "assign" /\ i <= Len(Top.lits) /\ i' = i + 1
      /\ currentValue' = currentValue \cup {l}
      /\ occList' = Without(l)
      /\ nbSat' = [c \in DOMAIN clauses |-> nbSat[c] + IF c \in occList[l] THEN 1 ELSE 0]
      /\ nbUnsat' = [c \in DOMAIN clauses |-> nbUnsat[c] + IF c \in occList[Neg(l)] THEN 1 ELSE 0]
      /\ trail' = u /\ UNCHANGED <<clauses, frames, pc>>
  BY DEF Assign
<1>2. i \in DOMAIN Top.lits /\ l \in Lit /\ VarOf(l) \notin TrailVars(trail)
  BY <1>1, NextLiteral
<1>3. trail \in Seq(Lit) /\ Len(trail) \in Nat /\ currentValue = TrailLits(trail)
  BY DEF Inv, TrailInv
<1>4. /\ u \in Seq(Lit) /\ Len(u) = Len(trail) + 1
      /\ \A j \in 1 .. Len(trail) : u[j] = trail[j]
      /\ u[Len(trail) + 1] = l
      /\ TrailLits(u) = TrailLits(trail) \cup {l}
  BY <1>2, <1>3, AppendProperties, AppendTrail
<1>5. /\ \A k \in Lit :
            /\ VarOf(k) \in TrailVars(trail) \cup {VarOf(l)} => ListIn(u, k) = ListIn(trail, k)
            /\ VarOf(k) \notin TrailVars(trail) \cup {VarOf(l)} =>
                 ListIn(u, k) = ListIn(trail, k) \ {c \in ListIn(trail, l) : k \in clauses[c]}
  BY <1>2, <1>3, AppendLists
<1>6. \A c \in Ids : SatIn(u, c) = SatIn(trail, c) + (IF c \in ListIn(trail, l) THEN 1 ELSE 0)
  BY <1>2, <1>3, AppendSat
<1>7. \A c \in Ids : Cardinality(FalseIn(u, c))
                       = Cardinality(FalseIn(trail, c)) + (IF c \in ListIn(trail, Neg(l)) THEN 1 ELSE 0)
  BY <1>2, <1>3, AppendFalse DEF Inv, ListsInv
<1>8. Neg(l) \in Lit
  BY <1>2, SameVar
<1>9. \A k \in Lit : Undef(k) <=> VarOf(k) \notin TrailVars(trail)
  BY <1>3, UndefTrail
<1>10. ListsInv'
  <2> HIDE DEF l, u
  <2>1. /\ clauses \in Seq(SUBSET Lit) /\ occList \in [Lit -> SUBSET Ids]
        /\ nbSat \in [Ids -> Nat] /\ nbUnsat \in [Ids -> Nat]
        /\ \A k \in Lit : occList[k] = ListIn(trail, k)
        /\ \A c \in Ids : nbSat[c] = SatIn(trail, c) /\ nbUnsat[c] = Cardinality(FalseIn(trail, c))
    BY DEF Inv, ListsInv
  <2>2. occList' \in [Lit -> SUBSET Ids]
    BY <1>1, <2>1 DEF Without
  <2>3. \A k \in Lit : occList'[k] = ListIn(u, k)
    BY <1>1, <1>2, <1>5, <1>9, <2>1 DEF Without
  <2>4. nbSat' \in [Ids -> Nat] /\ \A c \in Ids : nbSat'[c] = SatIn(u, c)
    BY <1>1, <1>2, <1>6, <2>1 DEF Ids
  <2>5. nbUnsat' \in [Ids -> Nat] /\ \A c \in Ids : nbUnsat'[c] = Cardinality(FalseIn(u, c))
    BY <1>1, <1>7, <1>8, <2>1 DEF Ids
  <2> QED
    BY <1>1, <2>1, <2>2, <2>3, <2>4, <2>5, ListsPrimed DEF ListsInv
<1>11. TrailInv'
  <2>1. \A j \in 1 .. Len(trail) : VarOf(trail[j]) # VarOf(l)
    BY <1>2, <1>3 DEF TrailVars
  <2>2. \A j, k \in DOMAIN trail : j # k => VarOf(trail[j]) # VarOf(trail[k])
    BY DEF Inv, TrailInv
  <2> HIDE DEF l, u
  <2>3. DOMAIN u = 1 .. Len(trail) + 1 /\ DOMAIN trail = 1 .. Len(trail)
    BY <1>3, <1>4
  <2>4. \A j, k \in DOMAIN u : j # k => VarOf(u[j]) # VarOf(u[k])
    <3> SUFFICES ASSUME NEW j \in DOMAIN u, NEW k \in DOMAIN u, j # k
                 PROVE  VarOf(u[j]) # VarOf(u[k])
      OBVIOUS
    <3>1. CASE j \in 1 .. Len(trail) /\ k \in 1 .. Len(trail)
      BY <1>4, <2>2, <2>3, <3>1
    <3>2. CASE j = Len(trail) + 1 /\ k \in 1 .. Len(trail)
      BY <1>4, <2>1, <3>2
    <3>3. CASE k = Len(trail) + 1 /\ j \in 1 .. Len(trail)
      BY <1>4, <2>1, <3>3
    <3> QED
      BY <1>3, <2>3, <3>1, <3>2, <3>3
  <2> QED
    BY <1>1, <1>3, <1>4, <2>4, ListsPrimed DEF TrailInv
<1>12. CallInv'
  <2>1. /\ Top.kind = "call" /\ Top.lits \in Seq(Lit) /\ CallOK(Top, trail) /\ Top.todo = {}
        /\ Top.mark \in Nat /\ Len(trail) = Top.mark + (i - 1) /\ i - 1 \in 0 .. Len(Top.lits)
        /\ Len(Top.lits) \in Nat /\ i \in Nat /\ Stack(frames, trail)
    BY <1>1, TopFacts DEF Inv, CallInv, FrameOK
  <2>2. l = Top.lits[i]
    OBVIOUS
  <2> HIDE DEF l, u
  <2>3. AssignedIn(u, Top.mark) = AssignedIn(trail, Top.mark)
    <3>1. \A j \in 1 .. Top.mark : u[j] = trail[j]
      BY <1>4, <2>1
    <3> QED
      BY <3>1 DEF AssignedIn
  <2>4. ASSUME NEW j \in DOMAIN Top.lits, Top.mark + j <= Len(u)
        PROVE  u[Top.mark + j] = Top.lits[j]
    <3>1. CASE j = i
      BY <1>4, <2>1, <2>2, <3>1
    <3>2. CASE j # i
      <4>1. j \in 1 .. Len(Top.lits) /\ Len(u) = Top.mark + i
        BY <1>4, <2>1
      <4>2. j < i
        BY <2>1, <2>4, <3>2, <4>1
      <4>3. Top.mark + j \in 1 .. Len(trail)
        BY <2>1, <4>1, <4>2
      <4>4. trail[Top.mark + j] = Top.lits[j]
        BY <2>1, <4>3 DEF CallOK
      <4> QED
        BY <1>4, <4>3, <4>4
    <3> QED
      BY <3>1, <3>2
  <2>5. CallOK(Top, u)
    BY <2>1, <2>3, <2>4 DEF CallOK
  <2>6. FrameOK(Top, u)
    BY <1>4, <2>1, <2>5 DEF FrameOK
  <2>7. /\ Top.mark <= Len(u)
        /\ \A j \in 1 .. Top.mark : u[j] = trail[j]
    BY <1>4, <2>1
  <2>8. Stack(frames, u)
    BY <1>3, <1>4, <2>1, <2>6, <2>7, SamePrefix DEF Top
  <2>9. Stack(frames, trail)' /\ Top' = Top
    BY <1>1, <2>8, StackOfTrail
  <2>10. /\ pc' = "assign" /\ i' \in Nat /\ i' - 1 \in 0 .. Len(Top.lits)
         /\ Len(trail') = Top.mark + (i' - 1)
    BY <1>1, <1>4, <2>1
  <2> QED
    BY <2>1, <2>9, <2>10 DEF CallInv
<1> QED
  BY <1>10, <1>11, <1>12 DEF Inv

\* The trail of a call that undoes its literals ends with the next one.
LEMMA LastLiteral ==
  ASSUME Inv, pc = "unassign", i > 0
  PROVE  \E t \in Seq(Lit) :
           /\ t = SubSeq(trail, 1, Len(trail) - 1)
           /\ trail = Append(t, Undone) /\ Undone \in Lit /\ VarOf(Undone) \notin TrailVars(t)
           /\ Top.mark <= Len(t) /\ Len(t) = Top.mark + (i - 1)
<1> DEFINE n == Len(trail)
           t == SubSeq(trail, 1, n - 1)
<1>1. /\ Top.kind = "call" /\ Top.lits \in Seq(Lit) /\ CallOK(Top, trail)
      /\ Top.mark \in Nat /\ n = Top.mark + i /\ i \in 0 .. Len(Top.lits)
      /\ Len(Top.lits) \in Nat /\ i \in Nat /\ n \in Nat /\ trail \in Seq(Lit)
  BY TopFacts DEF Inv, CallInv, FrameOK
<1>2. i \in DOMAIN Top.lits /\ Undone = Top.lits[i] /\ Undone \in Lit
  BY <1>1 DEF Undone
<1>3. trail[n] = Undone
  <2>1. Top.mark + i <= Len(trail)
    BY <1>1
  <2> QED
    BY <1>1, <1>2, <2>1 DEF CallOK
<1>4. /\ t \in Seq(Lit) /\ Len(t) = n - 1
      /\ \A j \in 1 .. n - 1 : t[j] = trail[j]
  BY <1>1
<1>5. trail = Append(t, Undone)
  <2> DEFINE u == Append(t, Undone)
  <2>1. /\ u \in Seq(Lit) /\ Len(u) = Len(t) + 1
        /\ \A j \in 1 .. Len(t) : u[j] = t[j]
        /\ u[Len(t) + 1] = Undone
    BY <1>2, <1>4, AppendProperties
  <2> HIDE DEF u, t
  <2>2. Len(u) = n
    BY <1>1, <1>4, <2>1
  <2>3. ASSUME NEW j \in 1 .. n PROVE u[j] = trail[j]
    <3>1. CASE j = n
      BY <1>1, <1>3, <1>4, <2>1, <3>1
    <3>2. CASE j # n
      <4>1. j \in 1 .. n - 1 /\ j \in 1 .. Len(t)
        BY <1>1, <1>4, <3>2
      <4> QED
        BY <1>4, <2>1, <4>1
    <3> QED
      BY <3>1, <3>2
  <2>4. u = trail
    BY <1>1, <2>1, <2>2, <2>3, SeqEqual
  <2> QED
    BY <2>4 DEF u
<1>6. VarOf(Undone) \notin TrailVars(t)
  <2>1. \A j, k \in DOMAIN trail : j # k => VarOf(trail[j]) # VarOf(trail[k])
    BY DEF Inv, TrailInv
  <2>2. n \in DOMAIN trail /\ \A j \in 1 .. n - 1 : j \in DOMAIN trail /\ j # n
    BY <1>1, <1>2
  <2>3. \A j \in 1 .. n - 1 : VarOf(t[j]) # VarOf(Undone)
    BY <1>3, <1>4, <2>1, <2>2
  <2>4. DOMAIN t = 1 .. n - 1
    BY <1>4
  <2> HIDE DEF t
  <2> QED
    BY <2>3, <2>4 DEF TrailVars
<1>7. Top.mark <= Len(t) /\ Len(t) = Top.mark + (i - 1)
  BY <1>1, <1>4
<1> QED
  BY <1>2, <1>4, <1>5, <1>6, <1>7

LEMMA StepUnassign == ASSUME Inv, Unassign PROVE Inv'
<1> DEFINE l == Undone
<1>1. /\ pc = "unassign" /\ i > 0 /\ i' = i - 1
      /\ occList' = WithBack(l)
      /\ nbSat' = [c \in DOMAIN clauses |-> nbSat[c] - IF c \in occList[l] THEN 1 ELSE 0]
      /\ nbUnsat' = [c \in DOMAIN clauses |-> nbUnsat[c] - IF c \in occList[Neg(l)] THEN 1 ELSE 0]
      /\ currentValue' = currentValue \ {l}
      /\ trail' = SubSeq(trail, 1, Len(trail) - 1) /\ UNCHANGED <<clauses, frames, pc>>
  BY DEF Unassign
<1> HIDE DEF l
<1>2. PICK t \in Seq(Lit) :
        /\ t = SubSeq(trail, 1, Len(trail) - 1)
        /\ trail = Append(t, l) /\ l \in Lit /\ VarOf(l) \notin TrailVars(t)
        /\ Top.mark <= Len(t) /\ Len(t) = Top.mark + (i - 1)
  BY <1>1, LastLiteral DEF l
<1>3. trail' = t /\ l \in Lit /\ VarOf(l) \notin TrailVars(t)
  BY <1>1, <1>2
<1>4. /\ trail \in Seq(Lit) /\ Len(trail) = Len(t) + 1 /\ Len(t) \in Nat
      /\ \A j \in 1 .. Len(t) : trail[j] = t[j]
      /\ TrailLits(trail) = TrailLits(t) \cup {l}
      /\ TrailVars(trail) = TrailVars(t) \cup {VarOf(l)}
  <2> DEFINE u == Append(t, l)
  <2>1. /\ u \in Seq(Lit) /\ Len(u) = Len(t) + 1 /\ Len(t) \in Nat
        /\ \A j \in 1 .. Len(t) : u[j] = t[j]
        /\ TrailLits(u) = TrailLits(t) \cup {l}
        /\ TrailVars(u) = TrailVars(t) \cup {VarOf(l)}
    BY <1>3, AppendProperties, AppendTrail
  <2>2. trail = u
    BY <1>2
  <2> HIDE DEF u
  <2> QED
    BY <2>1, <2>2
<1>5. \A k \in Lit :
        /\ VarOf(k) \in TrailVars(trail) => ListIn(trail, k) = ListIn(t, k)
        /\ VarOf(k) \notin TrailVars(trail) =>
             ListIn(t, k) = ListIn(trail, k) \cup {c \in ListIn(trail, l) : k \in clauses[c]}
  <2> DEFINE u == Append(t, l)
  <2>1. \A k \in Lit :
          /\ VarOf(k) \in TrailVars(t) \cup {VarOf(l)} => ListIn(u, k) = ListIn(t, k)
          /\ VarOf(k) \notin TrailVars(t) \cup {VarOf(l)} =>
               ListIn(t, k) = ListIn(u, k) \cup {c \in ListIn(u, l) : k \in clauses[c]}
    BY <1>3, AppendLists
  <2>2. trail = u
    BY <1>2
  <2> HIDE DEF u
  <2> QED
    BY <1>4, <2>1, <2>2
<1>6. Neg(l) \in Lit /\ VarOf(Neg(l)) = VarOf(l)
  BY <1>2, SameVar
<1>7. ListIn(trail, l) = ListIn(t, l) /\ ListIn(trail, Neg(l)) = ListIn(t, Neg(l))
  BY <1>2, <1>4, <1>5, <1>6
<1>8. \A c \in Ids : SatIn(trail, c) = SatIn(t, c) + (IF c \in ListIn(t, l) THEN 1 ELSE 0)
  <2>1. \A c \in Ids :
          SatIn(Append(t, l), c) = SatIn(t, c) + (IF c \in ListIn(t, l) THEN 1 ELSE 0)
    BY <1>3, AppendSat
  <2> QED
    BY <1>2, <2>1
<1>9. \A c \in Ids : Cardinality(FalseIn(trail, c))
                       = Cardinality(FalseIn(t, c)) + (IF c \in ListIn(t, Neg(l)) THEN 1 ELSE 0)
  <2>1. clauses \in Seq(SUBSET Lit)
    BY DEF Inv, ListsInv
  <2>2. \A c \in Ids : Cardinality(FalseIn(Append(t, l), c))
                       = Cardinality(FalseIn(t, c)) + (IF c \in ListIn(t, Neg(l)) THEN 1 ELSE 0)
    BY <1>3, <2>1, AppendFalse
  <2> QED
    BY <1>2, <2>2
<1>10. currentValue = TrailLits(trail)
  BY DEF Inv, TrailInv
<1>11. \A k \in Lit : Undef(k) <=> VarOf(k) \notin TrailVars(trail)
  BY <1>4, <1>10, UndefTrail
<1>12. ListsInv'
  <2>1. /\ clauses \in Seq(SUBSET Lit) /\ occList \in [Lit -> SUBSET Ids]
        /\ nbSat \in [Ids -> Nat] /\ nbUnsat \in [Ids -> Nat]
        /\ \A k \in Lit : occList[k] = ListIn(trail, k)
        /\ \A c \in Ids : nbSat[c] = SatIn(trail, c) /\ nbUnsat[c] = Cardinality(FalseIn(trail, c))
    BY DEF Inv, ListsInv
  <2>2. occList' \in [Lit -> SUBSET Ids]
    BY <1>1, <1>2, <2>1 DEF WithBack
  <2>3. \A k \in Lit : occList'[k] = ListIn(t, k)
    BY <1>1, <1>2, <1>5, <1>11, <2>1 DEF WithBack
  <2>4. \A c \in Ids : nbSat'[c] = SatIn(t, c)
    <3> SUFFICES ASSUME NEW c \in Ids PROVE nbSat'[c] = SatIn(t, c)
      OBVIOUS
    <3>1. nbSat[c] = SatIn(t, c) + (IF c \in occList[l] THEN 1 ELSE 0)
      BY <1>2, <1>7, <1>8, <2>1
    <3>2. SatIn(t, c) \in Nat
      BY DEF SatIn
    <3> HIDE DEF SatIn
    <3> QED
      BY <1>1, <3>1, <3>2 DEF Ids
  <2>5. \A c \in Ids : nbUnsat'[c] = Cardinality(FalseIn(t, c))
    <3> SUFFICES ASSUME NEW c \in Ids PROVE nbUnsat'[c] = Cardinality(FalseIn(t, c))
      OBVIOUS
    <3>1. nbUnsat[c] = Cardinality(FalseIn(t, c)) + (IF c \in occList[Neg(l)] THEN 1 ELSE 0)
      BY <1>6, <1>7, <1>9, <2>1
    <3>2. Cardinality(FalseIn(t, c)) \in Nat
      BY <2>1, FalseFinite
    <3> QED
      BY <1>1, <3>1, <3>2 DEF Ids
  <2>6. nbSat' \in [Ids -> Nat] /\ nbUnsat' \in [Ids -> Nat]
    <3>1. DOMAIN nbSat' = Ids /\ DOMAIN nbUnsat' = Ids
      BY <1>1 DEF Ids
    <3>2. \A c \in Ids : SatIn(t, c) \in Nat /\ Cardinality(FalseIn(t, c)) \in Nat
      BY <2>1, FalseFinite DEF SatIn
    <3>3. \A c \in Ids : nbSat'[c] \in Nat /\ nbUnsat'[c] \in Nat
      BY <2>4, <2>5, <3>2
    <3>4. nbSat' = [c \in Ids |-> nbSat'[c]] /\ nbUnsat' = [c \in Ids |-> nbUnsat'[c]]
      BY <1>1, <3>1 DEF Ids
    <3> QED
      BY <3>3, <3>4
  <2>7. /\ Ids' = Ids
        /\ \A k : ListIn(trail, k)' = ListIn(t, k)
        /\ \A c : SatIn(trail, c)' = SatIn(t, c) /\ FalseIn(trail, c)' = FalseIn(t, c)
    BY <1>1, <1>3, ListsPrimed
  <2>8. clauses' = clauses
    BY <1>1
  <2> QED
    BY <2>1, <2>2, <2>3, <2>4, <2>5, <2>6, <2>7, <2>8 DEF ListsInv
<1>13. TrailInv'
  <2>1. \A j, k \in DOMAIN trail : j # k => VarOf(trail[j]) # VarOf(trail[k])
    BY DEF Inv, TrailInv
  <2>2. \A j, k \in DOMAIN t : j # k => VarOf(t[j]) # VarOf(t[k])
    BY <1>4, <2>1
  <2>3. l \notin TrailLits(t)
    BY <1>2 DEF TrailLits, TrailVars
  <2>4. currentValue' = TrailLits(t)
    BY <1>1, <1>4, <1>10, <2>3
  <2> QED
    BY <1>1, <1>3, <2>2, <2>4, ListsPrimed DEF TrailInv
<1>14. CallInv'
  <2>1. /\ Top.kind = "call" /\ Top.lits \in Seq(Lit) /\ CallOK(Top, trail) /\ Top.todo = {}
        /\ Top.mark \in Nat /\ i \in 0 .. Len(Top.lits) /\ i \in Nat
        /\ Len(Top.lits) \in Nat /\ Stack(frames, trail)
    BY <1>1, TopFacts DEF Inv, CallInv, FrameOK
  <2>2. \A j \in 1 .. Top.mark : t[j] = trail[j]
    BY <1>2, <1>4, <2>1
  <2>3. AssignedIn(t, Top.mark) = AssignedIn(trail, Top.mark)
    BY <2>2 DEF AssignedIn
  <2>4. ASSUME NEW j \in DOMAIN Top.lits, Top.mark + j <= Len(t)
        PROVE  t[Top.mark + j] = Top.lits[j]
    <3>1. Top.mark + j \in 1 .. Len(t) /\ Top.mark + j <= Len(trail)
      BY <1>4, <2>1, <2>4
    <3>2. trail[Top.mark + j] = Top.lits[j]
      BY <2>1, <3>1 DEF CallOK
    <3> QED
      BY <1>4, <3>1, <3>2
  <2>5. CallOK(Top, t)
    BY <2>1, <2>3, <2>4 DEF CallOK
  <2>6. FrameOK(Top, t)
    BY <1>2, <2>1, <2>5 DEF FrameOK
  <2>7. Stack(frames, t)
    BY <1>2, <1>4, <2>1, <2>2, <2>6, SamePrefix DEF Top
  <2>8. Stack(frames, trail)' /\ Top' = Top
    BY <1>1, <1>3, <2>7, StackOfTrail
  <2>9. /\ pc' = "unassign" /\ i' \in Nat /\ i' \in 0 .. Len(Top.lits)
        /\ Len(trail') = Top.mark + i'
    BY <1>1, <1>2, <1>3, <2>1
  <2> QED
    BY <2>1, <2>8, <2>9 DEF CallInv
<1> QED
  BY <1>12, <1>13, <1>14 DEF Inv

(***************************************************************************)
(* The theorems.                                                           *)
(***************************************************************************)

LEMMA StepInv == Inv /\ [Next]_vars => Inv'
<1> SUFFICES ASSUME Inv, [Next]_vars PROVE Inv'
  OBVIOUS
<1>1. CASE UNCHANGED vars
  <2>1. UNCHANGED <<clauses, currentValue, occList, nbSat, nbUnsat, frames, trail, pc, i>>
    BY <1>1 DEF vars, manager
  <2>2. Stack(frames, trail)' /\ Top' = Top
    BY <2>1, KeepsStack
  <2>3. CallInv'
    BY <2>1, <2>2 DEF Inv, CallInv
  <2> QED
    BY <2>1, <2>3, KeepsLists DEF Inv
<1>2. CASE Review \/ Keep \/ RestrictSet \/ NoDecision \/ Return
  BY <1>2, StepLoops
<1>3. CASE Unsat
  BY <1>3, StepUnsat
<1>4. CASE Solve
  BY <1>4, StepSolve
<1>5. CASE Assign
  BY <1>5, StepAssign
<1>6. CASE Split
  BY <1>6, StepSplit
<1>7. CASE NextComponent
  BY <1>7, StepNextComponent
<1>8. CASE Decide
  BY <1>8, StepDecide
<1>9. CASE LeaveComponent
  BY <1>9, StepLeaveComponent
<1>10. CASE Unassign
  BY <1>10, StepUnassign
<1>11. CASE Returned
  BY <1>11, StepReturned
<1>12. CASE Finished
  BY <1>1, <1>12 DEF Finished
<1> QED
  BY <1>1, <1>2, <1>3, <1>4, <1>5, <1>6, <1>7, <1>8, <1>9, <1>10, <1>11, <1>12 DEF Next

LEMMA SpecInv == Spec => []Inv
  BY InitInv, StepInv, PTL DEF Spec

\* The values are undone in the reverse of the order they were assigned,
\* whatever the solver, the heuristics and the cache answer.
THEOREM OrderCorrect == Spec => []OrderConserved
<1>1. Inv => OrderConserved
  <2> SUFFICES ASSUME Inv PROVE OrderConserved
    OBVIOUS
  <2>1. \A n : Assigned(n) = AssignedIn(trail, n)
    BY DEF Assigned, AssignedIn
  <2>2. /\ currentValue = {trail[j] : j \in DOMAIN trail}
        /\ \A j, k \in DOMAIN trail : j # k => VarOf(trail[j]) # VarOf(trail[k])
    BY DEF Inv, TrailInv, TrailLits
  <2>3. ASSUME NEW d \in DOMAIN frames
        PROVE  LET f == frames[d] IN
               /\ f.mark <= Len(trail)
               /\ f.kind = "call" =>
                    /\ \A j \in DOMAIN f.lits :
                         /\ VarOf(f.lits[j]) \notin Assigned(f.mark)
                         /\ f.mark + j <= Len(trail) => trail[f.mark + j] = f.lits[j]
                    /\ \A vs \in f.todo : vs \cap Assigned(f.mark + Len(f.lits)) = {}
               /\ f.kind = "component" => f.vars \cap Assigned(f.mark) = {}
    <3>1. FrameOK(frames[d], trail)
      <4>1. d \in 1 .. Len(frames)
        BY TopFacts
      <4> QED
        BY <4>1 DEF Inv, CallInv, Stack
    <3> QED
      BY <2>1, <3>1 DEF FrameOK, CallOK, ComponentOK
  <2>4. Len(trail) = Top.mark + CASE pc = "assign" -> i - 1
                                  [] pc = "unassign" -> i
                                  [] pc \in {"keep", "components"} -> Len(Top.lits)
                                  [] pc \in {"restrict", "branch"} -> 0
    <3>1. Top.mark \in Nat
      BY TopFacts
    <3> QED
      BY <3>1 DEF Inv, CallInv
  <2> QED
    BY <2>2, <2>3, <2>4 DEF OrderConserved
<1> QED
  BY <1>1, SpecInv, PTL

\* The lists are those of the values, so that each postUpdate gives back what
\* its preUpdate took: in every execution, for every formula.
THEOREM ListsCorrect == Spec => []ListsExact
<1>1. \A l : Earlier(l) = EarlierIn(trail, l)
  BY DEF Earlier, EarlierIn
<1>2. Inv => ListsExact
  BY <1>1 DEF Inv, ListsInv, ListIn, ListsExact
<1> QED
  BY <1>2, SpecInv, PTL

\* The counters of a clause are those of the values.
THEOREM CountersCorrect == Spec => []CountersExact
<1>1. \A l : Earlier(l) = EarlierIn(trail, l)
  BY DEF Earlier, EarlierIn
<1>2. Inv => CountersExact
  <2> SUFFICES ASSUME Inv PROVE CountersExact
    OBVIOUS
  <2>1. currentValue = TrailLits(trail)
    BY DEF Inv, TrailInv
  <2> QED
    BY <1>1, <2>1 DEF Inv, ListsInv, SatIn, FalseIn, CountersExact
<1> QED
  BY <1>2, SpecInv, PTL

\* Nothing is removed from a list that lacks it nor pushed twice: the
\* assertions that the release build leaves out hold.
THEOREM ListOperationsCorrect == Spec => []ListOperationsLegal
<1>1. Inv => ListOperationsLegal
  <2> SUFFICES ASSUME Inv PROVE ListOperationsLegal
    OBVIOUS
  <2>1. /\ trail \in Seq(Lit) /\ currentValue = TrailLits(trail)
        /\ clauses \in Seq(SUBSET Lit)
        /\ \A l \in Lit : occList[l] = ListIn(trail, l)
    BY DEF Inv, TrailInv, ListsInv
  <2>2. ASSUME NEW k \in Lit, Undef(k) PROVE EarlierIn(trail, k) = TrailLits(trail)
    BY <2>1, <2>2, UndefTrail, EarlierAll
  <2>3. ASSUME pc = "assign", i <= Len(Top.lits),
               NEW c \in occList[Top.lits[i]], NEW k \in clauses[c],
               Undef(k), VarOf(k) # VarOf(Top.lits[i])
        PROVE  c \in occList[k]
    <3>1. Top.lits[i] \in Lit /\ EarlierIn(trail, Top.lits[i]) = TrailLits(trail)
      BY <2>1, <2>3, NextLiteral, EarlierAll
    <3>2. c \in Ids /\ clauses[c] \cap TrailLits(trail) = {}
      BY <2>1, <3>1 DEF ListIn
    <3>3. k \in Lit
      BY <2>1, <3>2 DEF Ids
    <3> QED
      BY <2>1, <2>2, <2>3, <3>2, <3>3 DEF ListIn
  <2>4. ASSUME pc = "unassign", i > 0,
               NEW c \in occList[Undone], NEW k \in clauses[c], Undef(k)
        PROVE  c \notin occList[k]
    <3>1. Undone \in Lit /\ Undone \in TrailLits(trail)
      <4>1. PICK t \in Seq(Lit) : trail = Append(t, Undone) /\ Undone \in Lit
        BY <2>4, LastLiteral
      <4>2. TrailLits(Append(t, Undone)) = TrailLits(t) \cup {Undone}
        BY <4>1, AppendTrail
      <4> QED
        BY <4>1, <4>2
    <3>2. c \in Ids /\ Undone \in clauses[c]
      BY <2>1, <3>1 DEF ListIn
    <3>3. k \in Lit
      BY <2>1, <3>2 DEF Ids
    <3>4. Undone \in clauses[c] \cap EarlierIn(trail, k)
      BY <2>2, <2>4, <3>1, <3>2, <3>3
    <3> QED
      BY <2>1, <3>3, <3>4 DEF ListIn
  <2> QED
    BY <2>3, <2>4 DEF ListOperationsLegal
<1> QED
  BY <1>1, SpecInv, PTL

=============================================================================
