---------------------------- MODULE AppMCProofs ----------------------------
(***************************************************************************)
(* Proofs about AppMC, for any number of threads: once the decision to     *)
(* stop is taken, at most one sample of each other thread is counted; and  *)
(* the mean and the spread are those of the samples counted, with all of   *)
(* them or enough.                                                         *)
(***************************************************************************)
EXTENDS AppMC, FiniteSetTheorems, SequenceTheorems, WellFoundedInduction, TLAPS

\* The threads that tested done before it was set and have yet to count.
InFlight == {t \in Threads : at[t] = "critical"}

\* The part of TypeOK the argument needs.
FlightType ==
  /\ at \in [Threads -> {"test", "critical"}]
  /\ k \in Nat /\ stopped \in Nat /\ done \in BOOLEAN

\* The inductive invariant: the threads in flight are part of the allowance.
FlightInv ==
  /\ FlightType
  /\ done <=> stopped > 0
  /\ done => k + Cardinality(InFlight) <= stopped + NumThreads - 1

LEMMA ThreadsFinite == IsFiniteSet(Threads) /\ Cardinality(Threads) = NumThreads
<1>1. 0 \in Int /\ NumThreads - 1 \in Int
  BY NumThreadsAssumption
<1>2. /\ IsFiniteSet(0 .. NumThreads - 1)
      /\ Cardinality(0 .. NumThreads - 1) =
           IF 0 > NumThreads - 1 THEN 0 ELSE (NumThreads - 1) - 0 + 1
  BY <1>1, FS_Interval
<1> QED
  BY <1>2, NumThreadsAssumption DEF Threads

\* Without thread t, the threads in flight are fewer than all threads.
LEMMA FlightWithout ==
  ASSUME NEW t \in Threads
  PROVE  /\ IsFiniteSet(InFlight \ {t})
         /\ Cardinality(InFlight \ {t}) \in Nat
         /\ Cardinality(InFlight \ {t}) <= NumThreads - 1
         /\ t \in InFlight =>
              /\ Cardinality(InFlight) \in Nat
              /\ Cardinality(InFlight) = Cardinality(InFlight \ {t}) + 1
<1>1. IsFiniteSet(InFlight) /\ InFlight \subseteq Threads
  BY ThreadsFinite, FS_Subset DEF InFlight
<1>2. IsFiniteSet(Threads \ {t}) /\ Cardinality(Threads \ {t}) = NumThreads - 1
  BY ThreadsFinite, FS_RemoveElement
<1>3. InFlight \ {t} \subseteq Threads \ {t}
  BY <1>1
<1>4. IsFiniteSet(InFlight \ {t}) /\ Cardinality(InFlight \ {t}) <= Cardinality(Threads \ {t})
  BY <1>2, <1>3, FS_Subset
<1>5. Cardinality(InFlight \ {t}) \in Nat /\ Cardinality(InFlight) \in Nat
  BY <1>1, <1>4, FS_CardinalityType
<1>6. t \in InFlight => Cardinality(InFlight \ {t}) = Cardinality(InFlight) - 1
  BY <1>1, FS_RemoveElement
<1> QED
  BY <1>2, <1>4, <1>5, <1>6

LEMMA FlightInit == Init => FlightInv
<1> SUFFICES ASSUME Init PROVE FlightInv
  OBVIOUS
<1>1. done = FALSE /\ k = 0 /\ stopped = 0
  BY DEF Init
<1>2. at \in [Threads -> {"test", "critical"}]
  BY DEF Init
<1>3. FlightType
  BY <1>1, <1>2 DEF FlightType
<1>4. ~ (stopped > 0)
  BY <1>1
<1> QED
  BY <1>1, <1>3, <1>4 DEF FlightInv

LEMMA FlightStep == FlightInv /\ [Next]_vars => FlightInv'
<1> SUFFICES ASSUME FlightInv, [Next]_vars PROVE FlightInv'
  OBVIOUS
<1>1. ASSUME NEW t \in Threads, Skip(t) PROVE FlightInv'
  <2>1. UNCHANGED <<at, k, stopped, done>>
    BY <1>1 DEF Skip, shared
  <2>2. InFlight' = InFlight
    BY <2>1 DEF InFlight
  <2> QED
    BY <2>1, <2>2 DEF FlightInv, FlightType
<1>2. ASSUME NEW t \in Threads, Sample(t) PROVE FlightInv'
  <2>1. ~ done /\ UNCHANGED <<k, stopped, done>>
    BY <1>2 DEF Sample, shared
  <2>2. at' \in [Threads -> {"test", "critical"}]
    BY <1>2 DEF Sample, FlightInv, FlightType
  <2> QED
    BY <2>1, <2>2 DEF FlightInv, FlightType
<1>3. ASSUME NEW t \in Threads, Critical(t) PROVE FlightInv'
  <2>1. /\ at[t] = "critical" /\ k' = k + 1
        /\ at' = [at EXCEPT ![t] = "test"]
        /\ done => done'
        /\ done' \in BOOLEAN
        /\ stopped' = IF done' /\ ~ done THEN k' ELSE stopped
    BY <1>3 DEF Critical, FlightInv, FlightType
  <2>2. FlightType'
    BY <2>1 DEF FlightInv, FlightType
  <2>3. InFlight' = InFlight \ {t} /\ t \in InFlight
    BY <2>1 DEF InFlight, FlightInv, FlightType
  <2>4. done' <=> stopped' > 0
    BY <2>1 DEF FlightInv, FlightType
  <2>5. CASE done
    <3>1. k + Cardinality(InFlight) <= stopped + NumThreads - 1
      BY <2>5 DEF FlightInv
    <3>2. k' + Cardinality(InFlight') <= stopped' + NumThreads - 1
      BY <2>1, <2>3, <2>5, <3>1, FlightWithout, NumThreadsAssumption DEF FlightInv, FlightType
    <3> QED
      BY <2>2, <2>4, <3>2 DEF FlightInv
  <2>6. CASE ~ done
    <3>1. done' => k' + Cardinality(InFlight') <= stopped' + NumThreads - 1
      BY <2>1, <2>3, <2>6, FlightWithout, NumThreadsAssumption DEF FlightInv, FlightType
    <3> QED
      BY <2>2, <2>4, <3>1 DEF FlightInv
  <2> QED
    BY <2>5, <2>6
<1>4. CASE Finished \/ UNCHANGED vars
  <2>1. UNCHANGED <<at, k, stopped, done>>
    BY <1>4 DEF Finished, vars
  <2>2. InFlight' = InFlight
    BY <2>1 DEF InFlight
  <2> QED
    BY <2>1, <2>2 DEF FlightInv, FlightType
<1> QED
  BY <1>1, <1>2, <1>3, <1>4 DEF Next, Step

\* After done is set at most one sample of each other thread is counted,
\* however many threads the loop has.
THEOREM FewLateSamples == Spec => []LateSamples
<1>1. FlightInv => LateSamples
  <2> SUFFICES ASSUME FlightInv, stopped > 0 PROVE k <= stopped + NumThreads - 1
    BY DEF LateSamples
  <2>1. IsFiniteSet(InFlight)
    BY ThreadsFinite, FS_Subset DEF InFlight
  <2>2. Cardinality(InFlight) \in Nat
    BY <2>1, FS_CardinalityType
  <2> QED
    BY <2>2, NumThreadsAssumption DEF FlightInv, FlightType
<1> QED
  BY <1>1, FlightInit, FlightStep, PTL DEF Spec

-----------------------------------------------------------------------------
(* Sums.  What a fold of the community modules adds up is a recursive        *)
(* function on the subsets; that there is one, and that the order does not   *)
(* matter, is proved by induction on the number of elements.                 *)

\* A set of numbers has a least one.
LEMMA LeastNat ==
  ASSUME NEW T, T \subseteq Nat, T # {}
  PROVE  \E n \in T : \A m \in T : n <= m
<1>1. PICK x \in T : \A y \in T : ~ (<<y, x>> \in OpToRel(<, Nat))
  BY NatLessThanWellFounded, WFMin
<1>2. \A y \in T : <<y, x>> \in Nat \X Nat /\ ~(y < x)
  BY <1>1 DEF OpToRel
<1>3. ASSUME NEW m \in T PROVE x <= m
  <2>1. m \in Nat /\ x \in Nat
    OBVIOUS
  <2>2. ~(m < x)
    BY <1>2
  <2> QED
    BY <2>1, <2>2
<1> QED
  BY <1>3

\* Induction, for a property that is the set of the numbers that have it.
LEMMA Reaches ==
  ASSUME NEW T, 0 \in T, \A n \in Nat : n \in T => n + 1 \in T
  PROVE  \A n \in Nat : n \in T
<1> SUFFICES ASSUME NEW n \in Nat, n \notin T PROVE FALSE
  OBVIOUS
<1>1. PICK m \in Nat \ T : \A j \in Nat \ T : m <= j
  <2>1. Nat \ T \subseteq Nat /\ Nat \ T # {}
    OBVIOUS
  <2> QED
    BY <2>1, LeastNat
<1>2. m # 0 /\ m - 1 \in Nat /\ m - 1 \notin Nat \ T
  BY <1>1
<1>3. (m - 1) + 1 \in T
  BY <1>2
<1> QED
  BY <1>1, <1>3

Picked(s) == CHOOSE x \in s : TRUE
SumStep(g, f, s) == IF s = {} THEN 0 ELSE f[Picked(s)] + g[s \ {Picked(s)}]
IsSums(g, f, S) == g = [s \in SUBSET S |-> SumStep(g, f, s)]

LEMMA PickedIn == ASSUME NEW s, s # {} PROVE Picked(s) \in s
BY DEF Picked

LEMMA FoldIsSums ==
  ASSUME NEW f, NEW S
  PROVE  FoldFunctionOnSet(+, 0, f, S) = (CHOOSE g : IsSums(g, f, S))[S]
BY DEF FoldFunctionOnSet, MapThenFoldSet, IsSums, SumStep, Picked

LEMMA SumsExist ==
  ASSUME NEW f, NEW S, IsFiniteSet(S)
  PROVE  \E g : IsSums(g, f, S)
<1> DEFINE Small(n) == {s \in SUBSET S : Cardinality(s) <= n}
           Partial(n, g) == \A s \in Small(n) : g[s] = SumStep(g, f, s)
           T == {n \in Nat : \E g : Partial(n, g)}
<1>1. \A s \in SUBSET S : IsFiniteSet(s) /\ Cardinality(s) \in Nat
  BY FS_Subset, FS_CardinalityType
<1>2. 0 \in T
  <2> DEFINE g == [s \in SUBSET S |-> 0]
  <2>1. ASSUME NEW s \in Small(0) PROVE g[s] = SumStep(g, f, s)
    <3>1. Cardinality(s) = 0
      BY <1>1
    <3>2. s = {}
      BY <1>1, <3>1, FS_EmptySet
    <3> QED
      BY <3>2 DEF SumStep
  <2>2. Partial(0, g)
    BY <2>1
  <2> QED
    BY <2>2
<1>3. ASSUME NEW n \in Nat, n \in T PROVE n + 1 \in T
  <2>1. PICK g : Partial(n, g)
    BY <1>3
  <2> DEFINE h == [s \in SUBSET S |-> IF s \in Small(n) THEN g[s] ELSE SumStep(g, f, s)]
  <2>2. ASSUME NEW s \in Small(n + 1) PROVE h[s] = SumStep(h, f, s)
    <3>1. h[s] = SumStep(g, f, s)
      BY <2>1
    <3>2. CASE s = {}
      BY <3>1, <3>2 DEF SumStep
    <3>3. CASE s # {}
      <4>1. Picked(s) \in s
        BY <3>3, PickedIn
      <4>2. Cardinality(s \ {Picked(s)}) = Cardinality(s) - 1
        BY <1>1, <4>1, FS_RemoveElement
      <4>3. s \ {Picked(s)} \in Small(n)
        BY <1>1, <4>2
      <4>4. h[s \ {Picked(s)}] = g[s \ {Picked(s)}]
        BY <4>3
      <4> QED
        BY <3>1, <3>3, <4>4 DEF SumStep
    <3> QED
      BY <3>2, <3>3
  <2>3. Partial(n + 1, h)
    BY <2>2
  <2>4. n + 1 \in Nat
    OBVIOUS
  <2> QED
    BY <2>3, <2>4
<1>4. Cardinality(S) \in T
  <2> HIDE DEF T
  <2> QED
    BY <1>1, <1>2, <1>3, Reaches
<1>5. PICK g : Partial(Cardinality(S), g)
  BY <1>4
<1>6. \A s \in SUBSET S : s \in Small(Cardinality(S))
  BY FS_Subset
<1> DEFINE h == [s \in SUBSET S |-> g[s]]
<1>7. ASSUME NEW s \in SUBSET S PROVE h[s] = SumStep(h, f, s)
  <2>1. g[s] = SumStep(g, f, s)
    BY <1>5, <1>6
  <2>2. s # {} => g[s \ {Picked(s)}] = h[s \ {Picked(s)}]
    OBVIOUS
  <2> QED
    BY <2>1, <2>2 DEF SumStep
<1>8. IsSums(h, f, S)
  BY <1>7 DEF IsSums
<1> QED
  BY <1>8

\* In whatever order the fold takes them, any element may be taken out first.
LEMMA SumsAnyOrder ==
  ASSUME NEW f, NEW S, IsFiniteSet(S), \A x \in S : f[x] \in Int,
         NEW g, IsSums(g, f, S)
  PROVE  \A s \in SUBSET S : g[s] \in Int /\ \A x \in s : g[s] = f[x] + g[s \ {x}]
<1> DEFINE P(s) == g[s] \in Int /\ \A x \in s : g[s] = f[x] + g[s \ {x}]
           T == {n \in Nat : \A s \in SUBSET S : Cardinality(s) <= n => P(s)}
<1>1. \A s \in SUBSET S : IsFiniteSet(s) /\ Cardinality(s) \in Nat
  BY FS_Subset, FS_CardinalityType
<1>2. \A s \in SUBSET S : g[s] = SumStep(g, f, s)
  BY DEF IsSums
<1>3. 0 \in T
  <2>1. ASSUME NEW s \in SUBSET S, Cardinality(s) <= 0 PROVE P(s)
    <3>1. s = {}
      <4>1. Cardinality(s) = 0
        BY <1>1, <2>1
      <4> QED
        BY <1>1, <4>1, FS_EmptySet
    <3>2. g[s] = 0
      BY <1>2, <3>1 DEF SumStep
    <3> QED
      BY <3>1, <3>2
  <2> QED
    BY <2>1
<1>4. ASSUME NEW n \in Nat, n \in T PROVE n + 1 \in T
  <2>1. ASSUME NEW s \in SUBSET S, Cardinality(s) <= n + 1 PROVE P(s)
    <3>1. CASE s = {}
      <4>1. g[s] = 0
        BY <1>2, <3>1 DEF SumStep
      <4> QED
        BY <3>1, <4>1
    <3>2. CASE s # {}
      <4> DEFINE c == Picked(s)
      <4>1. c \in s /\ c \in S
        BY <3>2, PickedIn
      <4>2. \A x \in s : /\ s \ {x} \in SUBSET S
                         /\ Cardinality(s \ {x}) = Cardinality(s) - 1
        BY <1>1, FS_RemoveElement
      <4>3. \A x \in s : P(s \ {x})
        <5>1. \A x \in s : Cardinality(s \ {x}) <= n
          BY <1>1, <2>1, <4>2
        <5> QED
          BY <1>4, <4>2, <5>1
      <4>4. g[s] = f[c] + g[s \ {c}]
        BY <1>2, <3>2 DEF SumStep
      <4>5. g[s] \in Int
        BY <4>1, <4>3, <4>4
      <4>6. ASSUME NEW x \in s PROVE g[s] = f[x] + g[s \ {x}]
        <5>1. CASE x = c
          BY <4>4, <5>1
        <5>2. CASE x # c
          <6>1. x \in s \ {c} /\ c \in s \ {x} /\ (s \ {c}) \ {x} = (s \ {x}) \ {c}
            BY <4>1, <5>2
          <6>2. g[s \ {c}] = f[x] + g[(s \ {c}) \ {x}]
            BY <4>1, <4>3, <6>1
          <6>3. g[s \ {x}] = f[c] + g[(s \ {x}) \ {c}]
            BY <4>3, <6>1
          <6>4. g[(s \ {c}) \ {x}] \in Int
            <7>1. (s \ {c}) \ {x} \in SUBSET S /\ Cardinality((s \ {c}) \ {x}) <= n
              <8>1. Cardinality((s \ {c}) \ {x}) = Cardinality(s \ {c}) - 1
                BY <1>1, <4>1, <4>2, <6>1, FS_RemoveElement
              <8> QED
                BY <1>1, <2>1, <4>1, <4>2, <8>1
            <7> QED
              BY <1>4, <7>1
          <6>5. f[x] \in Int /\ f[c] \in Int
            BY <4>1
          <6>6. g[s] = f[c] + (f[x] + g[(s \ {c}) \ {x}])
            BY <4>4, <6>2
          <6>7. g[s \ {x}] = f[c] + g[(s \ {c}) \ {x}]
            BY <6>1, <6>3
          <6> HIDE DEF c
          <6> QED
            BY <6>4, <6>5, <6>6, <6>7
        <5> QED
          BY <5>1, <5>2
      <4> QED
        BY <4>5, <4>6
    <3> QED
      BY <3>1, <3>2
  <2> QED
    BY <2>1
<1>5. ASSUME NEW s \in SUBSET S PROVE P(s)
  <2> HIDE DEF P
  <2>1. Cardinality(s) \in Nat /\ Cardinality(s) <= Cardinality(s)
    BY <1>1
  <2>2. Cardinality(s) \in T
    <3> HIDE DEF T
    <3> QED
      BY <1>3, <1>4, <2>1, Reaches
  <2> QED
    BY <2>1, <2>2
<1> QED
  BY <1>5

\* Two functions that agree on a set have the same sum there.
LEMMA SumsAgree ==
  ASSUME NEW f, NEW S, IsFiniteSet(S), NEW g, IsSums(g, f, S),
         NEW e, NEW R, NEW h, IsSums(h, e, R),
         NEW U, U \subseteq S, U \subseteq R, \A x \in U : f[x] = e[x]
  PROVE  g[U] = h[U]
<1> DEFINE T == {n \in Nat : \A s \in SUBSET U : Cardinality(s) <= n => g[s] = h[s]}
<1>1. IsFiniteSet(U) /\ \A s \in SUBSET U : IsFiniteSet(s) /\ Cardinality(s) \in Nat
  BY FS_Subset, FS_CardinalityType
<1>2. \A s \in SUBSET U : g[s] = SumStep(g, f, s) /\ h[s] = SumStep(h, e, s)
  <2>1. \A s \in SUBSET U : s \in SUBSET S /\ s \in SUBSET R
    OBVIOUS
  <2> QED
    BY <2>1 DEF IsSums
<1>3. 0 \in T
  <2>1. ASSUME NEW s \in SUBSET U, Cardinality(s) <= 0 PROVE g[s] = h[s]
    <3>1. Cardinality(s) = 0
      BY <1>1, <2>1
    <3>2. s = {}
      BY <1>1, <3>1, FS_EmptySet
    <3> QED
      BY <1>2, <3>2 DEF SumStep
  <2> QED
    BY <2>1
<1>4. ASSUME NEW n \in Nat, n \in T PROVE n + 1 \in T
  <2>1. ASSUME NEW s \in SUBSET U, Cardinality(s) <= n + 1 PROVE g[s] = h[s]
    <3>1. CASE s = {}
      BY <1>2, <3>1 DEF SumStep
    <3>2. CASE s # {}
      <4>1. Picked(s) \in s /\ Picked(s) \in U
        BY <3>2, PickedIn
      <4>2. Cardinality(s \ {Picked(s)}) = Cardinality(s) - 1
        BY <1>1, <4>1, FS_RemoveElement
      <4>3. g[s \ {Picked(s)}] = h[s \ {Picked(s)}]
        BY <1>1, <1>4, <2>1, <4>2
      <4> QED
        BY <1>2, <3>2, <4>1, <4>3 DEF SumStep
    <3> QED
      BY <3>1, <3>2
  <2> QED
    BY <2>1
<1>5. Cardinality(U) \in T
  <2> HIDE DEF T
  <2> QED
    BY <1>1, <1>3, <1>4, Reaches
<1> QED
  BY <1>1, <1>5

SumOn(f, S) == FoldFunctionOnSet(+, 0, f, S)

LEMMA SumIs ==
  ASSUME NEW f, NEW S, IsFiniteSet(S)
  PROVE  \E g : IsSums(g, f, S) /\ SumOn(f, S) = g[S]
<1> DEFINE g == CHOOSE g : IsSums(g, f, S)
<1>1. IsSums(g, f, S)
  BY SumsExist
<1> QED
  BY <1>1, FoldIsSums DEF SumOn

LEMMA SumEmpty == ASSUME NEW f PROVE SumOn(f, {}) = 0
<1>1. PICK g : IsSums(g, f, {}) /\ SumOn(f, {}) = g[{}]
  BY SumIs, FS_EmptySet
<1> QED
  BY <1>1 DEF IsSums, SumStep

LEMMA SumAgree ==
  ASSUME NEW f, NEW e, NEW S, IsFiniteSet(S), \A x \in S : f[x] = e[x]
  PROVE  SumOn(f, S) = SumOn(e, S)
<1>1. PICK g : IsSums(g, f, S) /\ SumOn(f, S) = g[S]
  BY SumIs
<1>2. PICK h : IsSums(h, e, S) /\ SumOn(e, S) = h[S]
  BY SumIs
<1> QED
  BY <1>1, <1>2, SumsAgree

LEMMA SumTake ==
  ASSUME NEW f, NEW S, IsFiniteSet(S), \A x \in S : f[x] \in Int
  PROVE  /\ SumOn(f, S) \in Int
         /\ \A x \in S : SumOn(f, S) = f[x] + SumOn(f, S \ {x})
<1>1. PICK g : IsSums(g, f, S) /\ SumOn(f, S) = g[S]
  BY SumIs
<1>2. g[S] \in Int /\ \A x \in S : g[S] = f[x] + g[S \ {x}]
  BY <1>1, SumsAnyOrder
<1>3. ASSUME NEW x \in S PROVE SumOn(f, S) = f[x] + SumOn(f, S \ {x})
  <2>1. IsFiniteSet(S \ {x})
    BY FS_Subset
  <2>2. PICK h : IsSums(h, f, S \ {x}) /\ SumOn(f, S \ {x}) = h[S \ {x}]
    BY <2>1, SumIs
  <2>3. g[S \ {x}] = h[S \ {x}]
    BY <1>1, <2>1, <2>2, SumsAgree
  <2> QED
    BY <1>1, <1>2, <2>2, <2>3
<1> QED
  BY <1>1, <1>2, <1>3

\* A sum of natural numbers is one.
LEMMA SumNat ==
  ASSUME NEW f, NEW S, IsFiniteSet(S), \A x \in S : f[x] \in Nat
  PROVE  SumOn(f, S) \in Nat
<1> DEFINE T == {n \in Nat : \A s \in SUBSET S : Cardinality(s) <= n => SumOn(f, s) \in Nat}
<1>1. \A s \in SUBSET S : IsFiniteSet(s) /\ Cardinality(s) \in Nat
  BY FS_Subset, FS_CardinalityType
<1>2. 0 \in T
  <2>1. ASSUME NEW s \in SUBSET S, Cardinality(s) <= 0 PROVE SumOn(f, s) \in Nat
    <3>1. Cardinality(s) = 0
      BY <1>1, <2>1
    <3>2. s = {}
      BY <1>1, <3>1, FS_EmptySet
    <3> QED
      BY <3>2, SumEmpty
  <2> QED
    BY <2>1
<1>3. ASSUME NEW n \in Nat, n \in T PROVE n + 1 \in T
  <2>1. ASSUME NEW s \in SUBSET S, Cardinality(s) <= n + 1 PROVE SumOn(f, s) \in Nat
    <3>1. CASE s = {}
      BY <3>1, SumEmpty
    <3>2. CASE s # {}
      <4>1. PICK x \in s : TRUE
        BY <3>2
      <4>2. SumOn(f, s) = f[x] + SumOn(f, s \ {x})
        BY <1>1, SumTake
      <4>3. Cardinality(s \ {x}) = Cardinality(s) - 1
        BY <1>1, FS_RemoveElement
      <4>4. SumOn(f, s \ {x}) \in Nat
        BY <1>1, <1>3, <2>1, <4>3
      <4> QED
        BY <4>2, <4>4
    <3> QED
      BY <3>1, <3>2
  <2> QED
    BY <2>1
<1>4. Cardinality(S) \in T
  <2> HIDE DEF T
  <2> QED
    BY <1>1, <1>2, <1>3, Reaches
<1> QED
  BY <1>1, <1>4

\* The sum of a sequence with one more element.
LEMMA SumAppend ==
  ASSUME NEW s \in Seq(Int), NEW x \in Int
  PROVE  Sum(s) \in Int /\ Sum(Append(s, x)) = Sum(s) + x
<1> DEFINE n == Len(s)
           r == Append(s, x)
<1>1. n \in Nat /\ DOMAIN s = 1 .. n /\ DOMAIN r = 1 .. n + 1
  BY LenProperties, AppendProperties
<1>2. IsFiniteSet(1 .. n) /\ IsFiniteSet(1 .. n + 1)
  BY <1>1, FS_Interval
<1>3. /\ \A i \in 1 .. n : r[i] = s[i] /\ s[i] \in Int
      /\ r[n + 1] = x
      /\ \A i \in 1 .. n + 1 : r[i] \in Int
  BY <1>1
<1>4. (1 .. n + 1) \ {n + 1} = 1 .. n /\ n + 1 \in 1 .. n + 1
  BY <1>1
<1>5. Sum(r) = SumOn(r, 1 .. n + 1) /\ Sum(s) = SumOn(s, 1 .. n)
  BY <1>1 DEF Sum, SumOn, FoldFunction
<1>6. Sum(Append(s, x)) = Sum(r)
  OBVIOUS
<1> HIDE DEF n, r
<1>7. SumOn(r, 1 .. n + 1) = r[n + 1] + SumOn(r, (1 .. n + 1) \ {n + 1})
  BY <1>2, <1>3, <1>4, SumTake
<1>8. SumOn(r, 1 .. n) = SumOn(s, 1 .. n)
  BY <1>2, <1>3, SumAgree
<1>9. SumOn(s, 1 .. n) \in Int
  BY <1>2, <1>3, SumTake
<1>10. SumOn(r, 1 .. n + 1) = x + SumOn(s, 1 .. n)
  BY <1>3, <1>4, <1>7, <1>8
<1>11. Sum(r) = Sum(s) + x /\ Sum(s) \in Int
  BY <1>5, <1>9, <1>10
<1> QED
  BY <1>6, <1>11

-----------------------------------------------------------------------------
(* Arithmetic: the scale is q * j * (j + 1), so that no division rounds.     *)

LEMMA Cancel == ASSUME NEW j \in Nat, j > 0, NEW x \in Int, NEW y \in Int, j * x = j * y PROVE x = y
<1>1. j * (x - y) = 0
  OBVIOUS
<1> QED
  BY <1>1

LEMMA Divides == ASSUME NEW n \in Nat, n > 0, NEW s \in Nat, s % n = 0 PROVE \E q \in Nat : s = n * q
<1>1. s = n * (s \div n) + (s % n)
  OBVIOUS
<1>2. s \div n \in Nat
  OBVIOUS
<1>3. s = n * (s \div n)
  BY <1>1, <1>2
<1> QED
  BY <1>2, <1>3

LEMMA DivMul == ASSUME NEW n \in Nat, n > 0, NEW x \in Int PROVE (n * x) \div n = x
OBVIOUS

\* scale = q j (j + 1)
LEMMA MeanStep ==
  ASSUME NEW j \in Nat, j > 0, NEW q \in Int, NEW S \in Int, NEW a \in Int, NEW mean \in Int,
         j * mean = (j * (j + 1)) * q * S
  PROVE  /\ mean = (j + 1) * (q * S)
         /\ (j * (j + 1)) * q * a - mean = (j + 1) * (q * (j * a - S))
         /\ mean + q * (j * a - S) = j * (q * (S + a))
<1>1. j * mean = j * ((j + 1) * (q * S))
  OBVIOUS
<1>2. mean = (j + 1) * (q * S)
  BY <1>1, Cancel
<1>3. (j * (j + 1)) * q * a - (j + 1) * (q * S) = (j + 1) * (q * (j * a - S))
  OBVIOUS
<1>4. (j + 1) * (q * S) + q * (j * a - S) = j * (q * (S + a))
  OBVIOUS
<1> QED
  BY <1>2, <1>3, <1>4

LEMMA SpreadStep ==
  ASSUME NEW j \in Nat, j > 0, NEW q \in Int, NEW S \in Int, NEW a \in Int, NEW Q \in Int, NEW spread \in Int,
         j * spread = (j * (j + 1)) * q * (j * Q - S * S)
  PROVE  /\ ((j * (j + 1)) * q * a - (j + 1) * (q * S)) * ((j * (j + 1)) * q * a - j * (q * (S + a)))
              = ((j * (j + 1)) * q) * (q * ((j * a - S) * (j * a - S)))
         /\ (j + 1) * (spread + q * ((j * a - S) * (j * a - S)))
              = (j * (j + 1)) * q * ((j + 1) * (Q + a * a) - (S + a) * (S + a))
<1>1. j * spread = j * ((j + 1) * (q * (j * Q - S * S)))
  OBVIOUS
<1>2. spread = (j + 1) * (q * (j * Q - S * S))
  BY <1>1, Cancel
<1>3. /\ (j * (j + 1)) * q * a - (j + 1) * (q * S) = (j + 1) * (q * (j * a - S))
      /\ (j * (j + 1)) * q * a - j * (q * (S + a)) = j * (q * (j * a - S))
  OBVIOUS
<1>4. ((j + 1) * (q * (j * a - S))) * (j * (q * (j * a - S)))
        = ((j * (j + 1)) * q) * (q * ((j * a - S) * (j * a - S)))
  OBVIOUS
<1>5. (j + 1) * (j * Q - S * S) + (j * a - S) * (j * a - S)
        = j * ((j + 1) * (Q + a * a) - (S + a) * (S + a))
  OBVIOUS
<1>6. (j + 1) * (q * (j * Q - S * S)) + q * ((j * a - S) * (j * a - S))
        = q * (j * ((j + 1) * (Q + a * a) - (S + a) * (S + a)))
  BY <1>5
<1>7. (j + 1) * (q * (j * ((j + 1) * (Q + a * a) - (S + a) * (S + a))))
        = (j * (j + 1)) * q * ((j + 1) * (Q + a * a) - (S + a) * (S + a))
  OBVIOUS
<1> QED
  BY <1>2, <1>3, <1>4, <1>6, <1>7

\* The mean and the spread of n samples with these sums.
MeanOf(n, S, m) == n * m = Scale * S
SpreadOf(n, S, Q, sp) == n * sp = Scale * (n * Q - S * S)

\* One sample more: the mean and the spread of the code are exact.
LEMMA NextExact ==
  ASSUME NEW j \in Nat, j > 0, Scale % ((j + 1) * j) = 0,
         NEW S \in Int, NEW Q \in Int, NEW a \in Int, NEW m \in Int, NEW sp \in Int,
         MeanOf(j, S, m), SpreadOf(j, S, Q, sp)
  PROVE  /\ NewMean(m, a, j + 1) \in Int /\ NewSpread(m, sp, a, j + 1) \in Int
         /\ MeanOf(j + 1, S + a, NewMean(m, a, j + 1))
         /\ SpreadOf(j + 1, S + a, Q + a * a, NewSpread(m, sp, a, j + 1))
<1>0. j * m = Scale * S /\ j * sp = Scale * (j * Q - S * S)
  BY DEF MeanOf, SpreadOf
<1>1. Scale \in Nat /\ Scale > 0 /\ (j + 1) * j \in Nat /\ (j + 1) * j > 0
  BY ScaleAssumption
<1>2. PICK q \in Nat : Scale = ((j + 1) * j) * q
  BY <1>1, Divides
<1>3. Scale = (j * (j + 1)) * q
  BY <1>2
<1>4. /\ m = (j + 1) * (q * S)
      /\ Scale * a - m = (j + 1) * (q * (j * a - S))
      /\ m + q * (j * a - S) = j * (q * (S + a))
  <2>1. j * m = (j * (j + 1)) * q * S
    BY <1>0, <1>3
  <2> QED
    BY <1>3, <2>1, MeanStep
<1>5. NewMean(m, a, j + 1) = m + q * (j * a - S)
  <2>1. q * (j * a - S) \in Int
    OBVIOUS
  <2>2. (Scale * a - m) \div (j + 1) = q * (j * a - S)
    BY <1>4, <2>1, DivMul
  <2> QED
    BY <2>2 DEF NewMean
<1>6. NewMean(m, a, j + 1) = j * (q * (S + a))
  BY <1>4, <1>5
<1>7. /\ (Scale * a - m) * (Scale * a - j * (q * (S + a)))
           = Scale * (q * ((j * a - S) * (j * a - S)))
      /\ (j + 1) * (sp + q * ((j * a - S) * (j * a - S)))
           = Scale * ((j + 1) * (Q + a * a) - (S + a) * (S + a))
  <2>1. j * sp = (j * (j + 1)) * q * (j * Q - S * S)
    BY <1>0, <1>3
  <2>2. /\ ((j * (j + 1)) * q * a - (j + 1) * (q * S)) * ((j * (j + 1)) * q * a - j * (q * (S + a)))
              = ((j * (j + 1)) * q) * (q * ((j * a - S) * (j * a - S)))
        /\ (j + 1) * (sp + q * ((j * a - S) * (j * a - S)))
              = (j * (j + 1)) * q * ((j + 1) * (Q + a * a) - (S + a) * (S + a))
    BY <2>1, SpreadStep
  <2> QED
    BY <1>3, <1>4, <2>2
<1>8. NewSpread(m, sp, a, j + 1) = sp + q * ((j * a - S) * (j * a - S))
  <2>1. q * ((j * a - S) * (j * a - S)) \in Int
    OBVIOUS
  <2>2. (Scale * (q * ((j * a - S) * (j * a - S)))) \div Scale = q * ((j * a - S) * (j * a - S))
    BY <1>1, <2>1, DivMul
  <2>3. NewSpread(m, sp, a, j + 1) = sp + ((Scale * a - m) * (Scale * a - j * (q * (S + a)))) \div Scale
    BY <1>6 DEF NewSpread
  <2> QED
    BY <1>7, <2>2, <2>3
<1>9. (j + 1) * (j * (q * (S + a))) = Scale * (S + a)
  BY <1>3
<1> QED
  BY <1>6, <1>7, <1>8, <1>9, <1>5 DEF MeanOf, SpreadOf

\* The first sample.
LEMMA FirstExact ==
  ASSUME NEW a \in Int
  PROVE  NewMean(0, a, 1) = Scale * a /\ NewSpread(0, 0, a, 1) = 0
<1>1. Scale \in Nat /\ Scale > 0
  BY ScaleAssumption
<1>2. NewMean(0, a, 1) = Scale * a
  <2>1. (1 * (Scale * a)) \div 1 = Scale * a
    BY <1>1
  <2> QED
    BY <1>1, <2>1 DEF NewMean
<1>3. (Scale * a - 0) * (Scale * a - Scale * a) = Scale * 0
  BY <1>1
<1>4. (Scale * 0) \div Scale = 0
  BY <1>1, DivMul
<1> QED
  BY <1>2, <1>3, <1>4 DEF NewSpread

-----------------------------------------------------------------------------
(* The iterations dealt out are all of them. *)

LEMMA BlocksSum ==
  ASSUME NEW n \in Nat
  PROVE  Sum([t \in Threads |-> Block(n, t)]) = n
<1> DEFINE f == [t \in Threads |-> Block(n, t)]
           q == n \div NumThreads
           r == n % NumThreads
           Dealt(m) == m * q + (IF m < r THEN m ELSE r)
           T == {m \in Nat : m <= NumThreads => SumOn(f, 0 .. m - 1) = Dealt(m)}
<1>1. NumThreads \in Nat /\ NumThreads > 0
  BY NumThreadsAssumption
<1>2. q \in Nat /\ r \in Nat /\ r < NumThreads /\ n = NumThreads * q + r
  BY <1>1
<1>3. \A t \in Threads : f[t] = q + (IF t < r THEN 1 ELSE 0)
  BY DEF Block
<1> HIDE DEF f, q, r
<1>4. 0 \in T
  <2>1. 0 .. 0 - 1 = {}
    OBVIOUS
  <2> QED
    BY <1>2, <2>1, SumEmpty
<1>5. ASSUME NEW m \in Nat, m \in T PROVE m + 1 \in T
  <2> SUFFICES ASSUME m + 1 <= NumThreads PROVE SumOn(f, 0 .. (m + 1) - 1) = Dealt(m + 1)
    OBVIOUS
  <2>1. /\ 0 .. (m + 1) - 1 = 0 .. m /\ (0 .. m) \ {m} = 0 .. m - 1
        /\ m \in 0 .. m /\ 0 .. m \subseteq Threads
    BY <1>1 DEF Threads
  <2>2. IsFiniteSet(0 .. m)
    BY FS_Interval
  <2>3. \A t \in 0 .. m : f[t] \in Int
    BY <1>2, <1>3, <2>1
  <2>4. SumOn(f, 0 .. m) = f[m] + SumOn(f, (0 .. m) \ {m})
    BY <2>1, <2>2, <2>3, SumTake
  <2>5. SumOn(f, 0 .. m - 1) = Dealt(m)
    BY <1>1, <1>5
  <2>6. f[m] = q + (IF m < r THEN 1 ELSE 0)
    BY <1>3, <2>1
  <2>7. (m + 1) * q = m * q + q /\ m * q \in Nat
    BY <1>2
  <2>8. SumOn(f, 0 .. (m + 1) - 1) = f[m] + Dealt(m)
    BY <2>1, <2>4, <2>5
  <2>9. f[m] + Dealt(m) = Dealt(m + 1)
    BY <1>2, <2>6, <2>7
  <2> QED
    BY <2>8, <2>9
<1>6. NumThreads \in T
  <2> HIDE DEF T
  <2> QED
    BY <1>1, <1>4, <1>5, Reaches
<1>7. SumOn(f, 0 .. NumThreads - 1) = NumThreads * q + r
  BY <1>1, <1>2, <1>6
<1>8. DOMAIN f = 0 .. NumThreads - 1
  BY DEF f, Threads
<1>9. Sum(f) = n
  BY <1>2, <1>7, <1>8 DEF Sum, SumOn, FoldFunction
<1> QED
  BY <1>9 DEF f

\* A thread that has run an iteration.
LEMMA OneLess ==
  ASSUME left \in [Threads -> Nat], NEW t \in Threads, left[t] > 0
  PROVE  /\ [left EXCEPT ![t] = @ - 1] \in [Threads -> Nat]
         /\ Sum(left) \in Nat /\ Sum(left) > 0
         /\ Sum([left EXCEPT ![t] = @ - 1]) = Sum(left) - 1
<1> DEFINE f == [left EXCEPT ![t] = @ - 1]
<1>1. f \in [Threads -> Nat] /\ f[t] = left[t] - 1 /\ \A u \in Threads \ {t} : f[u] = left[u]
  OBVIOUS
<1>2. IsFiniteSet(Threads) /\ IsFiniteSet(Threads \ {t})
  BY ThreadsFinite, FS_Subset
<1>3. Sum(left) = SumOn(left, Threads) /\ Sum(f) = SumOn(f, Threads)
  BY <1>1 DEF Sum, SumOn, FoldFunction
<1> HIDE DEF f
<1>4. SumOn(left, Threads) = left[t] + SumOn(left, Threads \ {t})
  BY <1>2, SumTake
<1>5. SumOn(f, Threads) = f[t] + SumOn(f, Threads \ {t})
  BY <1>1, <1>2, SumTake
<1>6. SumOn(f, Threads \ {t}) = SumOn(left, Threads \ {t})
  BY <1>1, <1>2, SumAgree
<1>7. SumOn(left, Threads \ {t}) \in Nat
  BY <1>2, SumNat
<1>8. Sum(left) \in Nat /\ Sum(left) > 0 /\ Sum(f) = Sum(left) - 1
  BY <1>1, <1>3, <1>4, <1>5, <1>6, <1>7
<1> QED
  BY <1>1, <1>8 DEF f

-----------------------------------------------------------------------------
(* The estimate. *)

CountedSample == [value : Nat, thread : Threads]

EstimateType ==
  /\ N \in Nat /\ N <= MaxN /\ lN \in Nat
  /\ left \in [Threads -> Nat] /\ at \in [Threads -> {"test", "critical"}]
  /\ sample \in [Threads -> Nat]
  /\ k \in Nat /\ rmean \in Int /\ rm \in Int /\ done \in BOOLEAN /\ stopped \in Nat
  /\ taken \in Seq(CountedSample)

\* The inductive invariant: a thread with a sample has an iteration to finish, so
\* that no more than N samples are ever counted and Scale is divisible; with no
\* sample the mean and the spread are still zero.
EstimateInv ==
  /\ EstimateType
  /\ \A t \in Threads : at[t] = "critical" => left[t] > 0
  /\ MeanExact
  /\ k = 0 => rmean = 0 /\ rm = 0
  /\ k + Sum(left) <= N /\ (~ done => k + Sum(left) = N)
  /\ done => stopped >= lN /\ stopped >= 2 /\ lN > 0

LEMMA EstimateInit == Init => EstimateInv
<1> SUFFICES ASSUME Init PROVE EstimateInv
  OBVIOUS
<1>1. /\ N \in Nat /\ N <= MaxN /\ lN \in Nat
      /\ left = [t \in Threads |-> Block(N, t)]
      /\ at \in [Threads -> {"test", "critical"}] /\ \A t \in Threads : at[t] = "test"
      /\ sample \in [Threads -> Nat]
      /\ k = 0 /\ rmean = 0 /\ rm = 0 /\ done = FALSE /\ stopped = 0 /\ taken = <<>>
  BY ScaleAssumption DEF Init
<1>2. left \in [Threads -> Nat]
  <2>1. \A t \in Threads : Block(N, t) \in Nat
    BY <1>1, NumThreadsAssumption DEF Block
  <2> QED
    BY <1>1, <2>1
<1>3. Sum(left) = N
  BY <1>1, BlocksSum
<1>4. EstimateType
  <2>1. taken \in Seq(CountedSample)
    BY <1>1, EmptySeq
  <2>2. 0 \in Int /\ 0 \in Nat
    OBVIOUS
  <2> QED
    BY <1>1, <1>2, <2>1, <2>2 DEF EstimateType
<1>5. MeanExact
  <2>1. DOMAIN ValuesOf(<<>>) = {} /\ DOMAIN SquaresOf(<<>>) = {}
    BY DEF ValuesOf, SquaresOf
  <2>2. Sum(ValuesOf(<<>>)) = 0 /\ Sum(SquaresOf(<<>>)) = 0
    BY <2>1, SumEmpty DEF Sum, SumOn, FoldFunction
  <2>3. Len(<<>>) = 0
    OBVIOUS
  <2>4. Scale * 0 = 0 /\ Scale * (0 * 0 - 0 * 0) = 0
    BY ScaleAssumption
  <2> QED
    BY <1>1, <2>2, <2>3, <2>4 DEF MeanExact
<1> QED
  BY <1>1, <1>3, <1>4, <1>5 DEF EstimateInv

LEMMA AppendIs ==
  ASSUME NEW s \in Seq(Int), NEW x \in Int
  PROVE  Append(s, x) = [i \in 1 .. Len(s) + 1 |-> IF i <= Len(s) THEN s[i] ELSE x]
<1>1. /\ Append(s, x) \in Seq(Int) /\ Len(Append(s, x)) = Len(s) + 1
      /\ \A i \in 1 .. Len(s) : Append(s, x)[i] = s[i]
      /\ Append(s, x)[Len(s) + 1] = x
  BY AppendProperties
<1>2. Append(s, x) = [i \in 1 .. Len(s) + 1 |-> Append(s, x)[i]]
  BY <1>1, LenProperties
<1>3. Len(s) \in Nat
  OBVIOUS
<1> QED
  BY <1>1, <1>2, <1>3

\* Counting a sample.
LEMMA CountExact ==
  ASSUME EstimateInv, NEW t \in Threads, Critical(t)
  PROVE  /\ MeanExact' /\ taken' \in Seq(CountedSample)
         /\ rmean' \in Int /\ rm' \in Int
<1> DEFINE a == sample[t]
           S == Sum(ValuesOf(taken))
           Q == Sum(SquaresOf(taken))
<1>1. /\ taken \in Seq(CountedSample) /\ k \in Nat /\ rmean \in Int /\ rm \in Int
      /\ a \in Nat /\ k = Len(taken)
  BY DEF EstimateInv, EstimateType, MeanExact
<1>2. /\ taken' = Append(taken, [value |-> a, thread |-> t]) /\ k' = k + 1
      /\ rmean' = NewMean(rmean, a, k + 1) /\ rm' = NewSpread(rmean, rm, a, k + 1)
  BY DEF Critical
<1>3. taken' \in Seq(CountedSample) /\ k' = Len(taken')
  <2>1. [value |-> a, thread |-> t] \in CountedSample
    BY <1>1 DEF CountedSample
  <2> QED
    BY <1>1, <1>2, <2>1
<1>5. a \in Int /\ a * a \in Int
  BY <1>1
<1>4. /\ ValuesOf(taken) \in Seq(Int) /\ ValuesOf(taken') = Append(ValuesOf(taken), a)
      /\ SquaresOf(taken) \in Seq(Int) /\ SquaresOf(taken') = Append(SquaresOf(taken), a * a)
  <2> DEFINE v == ValuesOf(taken)
             w == SquaresOf(taken)
  <2>1. \A i \in 1 .. Len(taken) : taken[i].value \in Int
    <3>1. \A i \in 1 .. Len(taken) : taken[i] \in CountedSample
      BY <1>1, ElementOfSeq
    <3> QED
      BY <3>1 DEF CountedSample
  <2>2. v \in Seq(Int) /\ Len(v) = k /\ \A i \in 1 .. k : v[i] = taken[i].value
    BY <1>1, <2>1 DEF ValuesOf
  <2>3. w \in Seq(Int) /\ Len(w) = k /\ \A i \in 1 .. k : w[i] = taken[i].value * taken[i].value
    BY <1>1, <2>1 DEF SquaresOf
  <2>4. /\ \A i \in 1 .. k : taken'[i] = taken[i]
        /\ taken'[k + 1].value = a /\ DOMAIN taken' = 1 .. k + 1
    BY <1>1, <1>2, <1>3
  <2>5. ValuesOf(taken') = [i \in 1 .. k + 1 |-> IF i <= k THEN v[i] ELSE a]
    BY <1>1, <2>2, <2>4 DEF ValuesOf
  <2>6. SquaresOf(taken') = [i \in 1 .. k + 1 |-> IF i <= k THEN w[i] ELSE a * a]
    BY <1>1, <2>3, <2>4 DEF SquaresOf
  <2> HIDE DEF v, w, a
  <2>7. Append(v, a) = [i \in 1 .. k + 1 |-> IF i <= k THEN v[i] ELSE a]
    BY <1>1, <1>5, <2>2, AppendIs
  <2>8. Append(w, a * a) = [i \in 1 .. k + 1 |-> IF i <= k THEN w[i] ELSE a * a]
    BY <1>1, <1>5, <2>3, AppendIs
  <2>9. ValuesOf(taken') = Append(v, a) /\ SquaresOf(taken') = Append(w, a * a)
    BY <2>5, <2>6, <2>7, <2>8
  <2> QED
    BY <2>2, <2>3, <2>9 DEF v, w
<1>6. /\ S \in Int /\ Sum(ValuesOf(taken')) = S + a
      /\ Q \in Int /\ Sum(SquaresOf(taken')) = Q + a * a
  <2>1. S \in Int /\ Sum(Append(ValuesOf(taken), a)) = S + a
    BY <1>4, <1>5, SumAppend
  <2>2. Q \in Int /\ Sum(Append(SquaresOf(taken), a * a)) = Q + a * a
    BY <1>4, <1>5, SumAppend
  <2> QED
    BY <1>4, <2>1, <2>2
<1>7. k * rmean = Scale * S /\ k * rm = Scale * (k * Q - S * S)
  BY DEF EstimateInv, MeanExact
<1>8. /\ rmean' \in Int /\ rm' \in Int
      /\ k' * rmean' = Scale * (S + a)
      /\ k' * rm' = Scale * (k' * (Q + a * a) - (S + a) * (S + a))
  <2>1. CASE k = 0
    <3>1. rmean = 0 /\ rm = 0
      BY <2>1 DEF EstimateInv
    <3>2. S = 0 /\ Q = 0
      <4>1. taken = <<>>
        BY <1>1, <2>1, EmptySeq
      <4>2. DOMAIN ValuesOf(<<>>) = {} /\ DOMAIN SquaresOf(<<>>) = {}
        BY DEF ValuesOf, SquaresOf
      <4> QED
        BY <4>1, <4>2, SumEmpty DEF Sum, SumOn, FoldFunction
    <3>3. rmean' = Scale * a /\ rm' = 0
      BY <1>2, <1>5, <2>1, <3>1, FirstExact
    <3> HIDE DEF S, Q, a
    <3>4. Scale * (1 * (0 + a * a) - (0 + a) * (0 + a)) = 0 /\ Scale * a \in Int
      BY <1>5, ScaleAssumption
    <3> QED
      BY <1>2, <1>5, <2>1, <3>2, <3>3, <3>4
  <2>2. CASE k > 0
    <3>1. k + 1 \in 2 .. MaxN
      <4>1. Sum(left) > 0 /\ Sum(left) \in Nat
        BY OneLess DEF EstimateInv, EstimateType, Critical
      <4> QED
        BY <1>1, <2>2, <4>1, ScaleAssumption DEF EstimateInv, EstimateType
    <3>2. Scale % ((k + 1) * ((k + 1) - 1)) = 0
      BY <3>1, ScaleAssumption
    <3>3. Scale % ((k + 1) * k) = 0
      BY <1>1, <3>2
    <3> HIDE DEF S, Q, a
    <3>4. k + 1 \in Nat /\ k + 1 > 1 /\ (k + 1) - 1 = k /\ k \in Int
      BY <1>1, <2>2
    <3>5. S \in Int /\ Q \in Int /\ rmean \in Int /\ rm \in Int /\ k \in Nat /\ a \in Int
      BY <1>1, <1>5, <1>6
    <3>6. /\ NewMean(rmean, a, k + 1) \in Int /\ NewSpread(rmean, rm, a, k + 1) \in Int
          /\ MeanOf(k + 1, S + a, NewMean(rmean, a, k + 1))
          /\ SpreadOf(k + 1, S + a, Q + a * a, NewSpread(rmean, rm, a, k + 1))
      <4>1. MeanOf(k, S, rmean) /\ SpreadOf(k, S, Q, rm)
        BY <1>7 DEF MeanOf, SpreadOf
      <4> QED
        BY <2>2, <3>3, <3>5, <4>1, NextExact
    <3> QED
      BY <1>2, <3>6 DEF MeanOf, SpreadOf
  <2> QED
    BY <1>1, <2>1, <2>2
<1> QED
  BY <1>3, <1>6, <1>8 DEF MeanExact

LEMMA EstimateStep == EstimateInv /\ [Next]_vars => EstimateInv'
<1> SUFFICES ASSUME EstimateInv, [Next]_vars PROVE EstimateInv'
  OBVIOUS
<1>0. EstimateType
  BY DEF EstimateInv
<1>1. ASSUME NEW t \in Threads, Skip(t) PROVE EstimateInv'
  <2>1. /\ at[t] = "test" /\ left[t] > 0 /\ done
        /\ left' = [left EXCEPT ![t] = @ - 1]
        /\ UNCHANGED <<N, lN, at, sample, k, rmean, rm, done, taken, stopped>>
    BY <1>1 DEF Skip, options, shared
  <2>2. left' \in [Threads -> Nat] /\ Sum(left') = Sum(left) - 1 /\ Sum(left) \in Nat
    BY <1>0, <2>1, OneLess DEF EstimateType
  <2>3. EstimateType'
    BY <1>0, <2>1, <2>2 DEF EstimateType
  <2>4. MeanExact'
    BY <2>1 DEF EstimateInv, MeanExact
  <2>5. \A u \in Threads : at'[u] = "critical" => left'[u] > 0
    BY <1>0, <2>1 DEF EstimateInv, EstimateType
  <2>6. k' + Sum(left') <= N'
    BY <1>0, <2>1, <2>2 DEF EstimateInv, EstimateType
  <2> QED
    BY <2>1, <2>3, <2>4, <2>5, <2>6 DEF EstimateInv
<1>2. ASSUME NEW t \in Threads, Sample(t) PROVE EstimateInv'
  <2>1. /\ left[t] > 0 /\ \E a \in Values : sample' = [sample EXCEPT ![t] = a]
        /\ at' = [at EXCEPT ![t] = "critical"]
        /\ UNCHANGED <<N, lN, left, k, rmean, rm, done, taken, stopped>>
    BY <1>2 DEF Sample, options, shared
  <2>2. EstimateType'
    BY <1>0, <2>1, ValuesAssumption DEF EstimateType
  <2>3. MeanExact'
    BY <2>1 DEF EstimateInv, MeanExact
  <2>4. \A u \in Threads : at'[u] = "critical" => left'[u] > 0
    BY <1>0, <2>1 DEF EstimateInv, EstimateType
  <2> QED
    BY <2>1, <2>2, <2>3, <2>4 DEF EstimateInv
<1>3. ASSUME NEW t \in Threads, Critical(t) PROVE EstimateInv'
  <2>1. /\ at[t] = "critical" /\ k' = k + 1
        /\ left' = [left EXCEPT ![t] = @ - 1] /\ at' = [at EXCEPT ![t] = "test"]
        /\ UNCHANGED <<N, lN, sample>>
        /\ done' = (done \/ (k' > 1 /\ Enough(k', rmean', rm')))
        /\ stopped' = IF done' /\ ~ done THEN k' ELSE stopped
    BY <1>3 DEF Critical, options
  <2>2. left[t] > 0
    BY <2>1 DEF EstimateInv
  <2>3. left' \in [Threads -> Nat] /\ Sum(left') = Sum(left) - 1 /\ Sum(left) \in Nat
    BY <1>0, <2>1, <2>2, OneLess DEF EstimateType
  <2>4. MeanExact' /\ taken' \in Seq(CountedSample) /\ rmean' \in Int /\ rm' \in Int
    BY <1>3, CountExact
  <2>5. done' \in BOOLEAN /\ (done => done')
        /\ (done' /\ ~ done => k' > 1 /\ lN > 0 /\ k' >= lN)
    BY <1>0, <2>1 DEF EstimateType, Enough
  <2>6. CountedSample' = CountedSample
    BY DEF CountedSample
  <2>7. EstimateType'
    BY <1>0, <2>1, <2>3, <2>4, <2>5, <2>6 DEF EstimateType
  <2>8. \A u \in Threads : at'[u] = "critical" => left'[u] > 0
    BY <1>0, <2>1 DEF EstimateInv, EstimateType
  <2>9. k' + Sum(left') <= N' /\ (~ done' => k' + Sum(left') = N')
    <3>1. k + Sum(left) <= N /\ (~ done => k + Sum(left) = N)
      BY DEF EstimateInv
    <3>2. k \in Nat /\ N \in Nat /\ k' = k + 1 /\ N' = N
      BY <1>0, <2>1 DEF EstimateType
    <3>3. k' + Sum(left') = k + Sum(left)
      BY <2>3, <3>2
    <3> QED
      BY <2>5, <3>1, <3>2, <3>3
  <2>10. done' => stopped' >= lN' /\ stopped' >= 2 /\ lN' > 0
    BY <1>0, <2>1, <2>5 DEF EstimateInv, EstimateType
  <2>11. k' # 0
    BY <1>0, <2>1 DEF EstimateType
  <2> QED
    BY <2>4, <2>7, <2>8, <2>9, <2>10, <2>11 DEF EstimateInv
<1>4. CASE Finished \/ UNCHANGED vars
  <2>1. UNCHANGED <<N, lN, left, at, sample, k, rmean, rm, done, taken, stopped>>
    BY <1>4 DEF Finished, vars
  <2> QED
    BY <2>1 DEF EstimateInv, EstimateType, MeanExact, CountedSample
<1> QED
  BY <1>1, <1>2, <1>3, <1>4 DEF Next, Step

\* Whatever the threads do, the mean and the spread updated one sample at a time
\* are those of the samples counted, no division rounds, and these are all the
\* samples asked for, or close enough after at least lnb of them.
THEOREM EstimatesExact == Spec => []EstimateRight
<1>1. EstimateInv => EstimateRight
  BY DEF EstimateInv, EstimateRight, AllOrEnough
<1> QED
  BY <1>1, EstimateInit, EstimateStep, PTL DEF Spec

=============================================================================
