------------------------------- MODULE AppMC -------------------------------
(***************************************************************************)
(* The approximate model counter (cppddnnf/src/appmc.cpp): the threads of  *)
(* an OpenMP loop each take the samples of their block of iterations; in a *)
(* critical section they update the running mean and spread, print         *)
(* estimates and decide to stop early.                                     *)
(*                                                                         *)
(* A sample is the number of models of a random path times the number of   *)
(* paths.  The generator is used outside the critical section, a data race *)
(* whose outcome is any path: a sample is any element of Values.           *)
(*                                                                         *)
(* The reals of the program are kept exact, as multiples of 1/Scale.       *)
(***************************************************************************)
EXTENDS Integers, Sequences, FiniteSets, Functions

CONSTANTS
  NumThreads,   \* threads of the parallel loop
  MaxN,         \* bound on the option nb
  Values,       \* the samples
  Scale,        \* a multiple of j (j-1) for every j up to MaxN
  Width         \* z^2 / (1 - 1/epsilon)^2, rounded, for the options alpha, epsilon

ASSUME NumThreadsAssumption == NumThreads \in Nat \ {0}
ASSUME ValuesAssumption == Values \subseteq Nat
ASSUME ScaleAssumption ==
  /\ MaxN \in Nat /\ Scale \in Nat \ {0}
  /\ \A j \in 2 .. MaxN : Scale % (j * (j - 1)) = 0

Threads == 0 .. NumThreads - 1

VARIABLES
  N, lN, verbose,       \* the options nb, lnb and verbose
  left,     \* for each thread, the iterations it has still to run
  at,       \* for each thread, where it is in its iteration
  sample,   \* for each thread, ai
  k, rmean, rm, done,   \* as in the program; rmean and rm times Scale
  lines,    \* the estimates printed: the number of samples and the thread
  taken,    \* history: the samples with their threads, as counted
  stopped   \* history: k when done was set, 0 before

vars == <<N, lN, verbose, left, at, sample, k, rmean, rm, done, lines, taken,
          stopped>>
options == <<N, lN, verbose>>
shared == <<k, rmean, rm, done, lines, taken, stopped>>

\* The iterations are dealt in equal blocks, the first threads take the rest.
Block(n, t) == n \div NumThreads + IF t < n % NumThreads THEN 1 ELSE 0

Init ==
  /\ N \in 1 .. MaxN /\ lN \in 0 .. N /\ verbose \in BOOLEAN
  /\ left = [t \in Threads |-> Block(N, t)]
  /\ at = [t \in Threads |-> "test"]
  /\ sample = [t \in Threads |-> 0]
  /\ k = 0 /\ rmean = 0 /\ rm = 0 /\ done = FALSE
  /\ lines = <<>> /\ taken = <<>> /\ stopped = 0

\* The iteration is skipped once done is set.
Skip(t) ==
  /\ at[t] = "test" /\ left[t] > 0 /\ done
  /\ left' = [left EXCEPT ![t] = @ - 1]
  /\ UNCHANGED <<options, at, sample, shared>>

\* Mutant: done is not tested.
SampleAlways(t) ==
  /\ at[t] = "test" /\ left[t] > 0
  /\ \E a \in Values : sample' = [sample EXCEPT ![t] = a]
  /\ at' = [at EXCEPT ![t] = "critical"]
  /\ UNCHANGED <<options, left, shared>>

\* Else a path is drawn and its models are counted: nothing shared is written.
Sample(t) ==
  /\ at[t] = "test" /\ left[t] > 0 /\ ~ done
  /\ \E a \in Values : sample' = [sample EXCEPT ![t] = a]
  /\ at' = [at EXCEPT ![t] = "critical"]
  /\ UNCHANGED <<options, left, shared>>

\* The half-width of the interval is within epsilon of the mean.
CloseEnough(n, mean, spread) ==
  Width * Scale * spread <= mean * mean * n * (n - 1)

\* Mutant: the spread is updated with the new mean twice.
NewSpreadTwiceNew(mean, spread, a, n) ==
  LET newMean == mean + (Scale * a - mean) \div n
  IN spread + ((Scale * a - newMean) * (Scale * a - newMean)) \div Scale

NewMean(mean, a, n) == mean + (Scale * a - mean) \div n
NewSpread(mean, spread, a, n) ==
  spread + ((Scale * a - mean) * (Scale * a - NewMean(mean, a, n))) \div Scale

Enough(n, mean, spread) == lN > 0 /\ n >= lN /\ CloseEnough(n, mean, spread)

\* The estimates a sample makes the thread print.
LinesOf(n, mean, spread, t) ==
  LET line == [k |-> n, thread |-> t] IN
  (IF n > 1 /\ (verbose \/ n >= N) THEN <<line>> ELSE <<>>)
    \o (IF n > 1 /\ Enough(n, mean, spread) /\ ~ verbose THEN <<line>> ELSE <<>>)

Critical(t) ==
  /\ at[t] = "critical"
  /\ k' = k + 1
  /\ rmean' = NewMean(rmean, sample[t], k')
  /\ rm' = NewSpread(rmean, rm, sample[t], k')
  /\ lines' = lines \o LinesOf(k', rmean', rm', t)
  /\ done' = (done \/ (k' > 1 /\ Enough(k', rmean', rm')))
  /\ taken' = Append(taken, [value |-> sample[t], thread |-> t])
  /\ stopped' = IF done' /\ ~ done THEN k' ELSE stopped
  /\ left' = [left EXCEPT ![t] = @ - 1]
  /\ at' = [at EXCEPT ![t] = "test"]
  /\ UNCHANGED <<options, sample>>

AllDone == \A t \in Threads : left[t] = 0
Finished == AllDone /\ UNCHANGED vars

Step(t) == Skip(t) \/ Sample(t) \/ Critical(t)
Next == (\E t \in Threads : Step(t)) \/ Finished

Spec == Init /\ [][Next]_vars

-----------------------------------------------------------------------------
(* Properties *)

Sum(s) == FoldFunction(+, 0, s)
ValuesOf(s) == [i \in DOMAIN s |-> s[i].value]
SquaresOf(s) == [i \in DOMAIN s |-> s[i].value * s[i].value]

\* The mean and the sum of squared deviations updated one sample at a time,
\* by threads in any order, are those of the samples counted.
MeanExact ==
  /\ k = Len(taken)
  /\ k * rmean = Scale * Sum(ValuesOf(taken))
  /\ k * rm = Scale * (k * Sum(SquaresOf(taken)) - Sum(ValuesOf(taken)) * Sum(ValuesOf(taken)))

\* Each iteration is counted, being run or yet to run, unless the estimate was
\* found close enough after at least lnb samples.
AllOrEnough ==
  LET toRun == Sum(left) IN
  /\ ~ done => k + toRun = N
  /\ done => stopped >= lN /\ stopped >= 2 /\ lN > 0

\* An estimate is the mean of all samples asked for, or close enough after at
\* least lnb of them, and its mean and spread are exact for those counted.
EstimateRight == MeanExact /\ AllOrEnough

\* A thread that tested done too early adds its sample after the decision: at
\* most one for each other thread.
LateSamples == stopped > 0 => k <= stopped + NumThreads - 1

\* README.md:83: "By default, the model counter only display the last
\* estimate": without early stopping, one line, for all the samples.  (With
\* one sample there is no line, a spread needs two.)
LastEstimateOnly ==
  AllDone /\ lN = 0 /\ ~ verbose =>
    [i \in DOMAIN lines |-> lines[i].k] = IF N >= 2 THEN <<N>> ELSE <<>>

=============================================================================
