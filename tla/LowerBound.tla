----------------------------- MODULE LowerBound -----------------------------
(***************************************************************************)
(* The program lmc (cppddnnf/src/lmc.cpp): the threads of a parallel loop  *)
(* run N tries of k samples each and keep the smallest mean, divided by    *)
(* 2^alpha.  A sample is ai times the number of paths, for a path drawn in *)
(* a critical section.  Reals are multiples of 1/Parts.                    *)
(***************************************************************************)
EXTENDS Integers, Sequences, FiniteSets, Functions

CONSTANTS
  Crew,         \* the threads
  Tries,        \* values of the argument N
  PerTry,       \* values of the argument k
  Alphas,       \* values of the argument alpha, as truncated to an int
  Draws,        \* the samples
  Parts         \* a multiple of every j up to k, and of 2^alpha times it

VARIABLES
  tries, perTry, alpha, \* the input
  waiting,      \* the number of tries no thread has started
  j,            \* for each thread, the samples of its try; -1 with no try
  mean,         \* for each thread, the mean of the try
  best,         \* res
  totals        \* history: the sum of the samples of each thread's try, then
                \* those of the tries that are over

lvars == <<tries, perTry, alpha, waiting, j, mean, best, totals>>
input == <<tries, perTry, alpha>>

None == -1

Start ==
  /\ tries \in Tries /\ perTry \in PerTry /\ alpha \in Alphas
  /\ waiting = tries
  /\ j = [t \in Crew |-> None]
  /\ mean = [t \in Crew |-> 0]
  /\ best = None
  /\ totals = [now |-> [t \in Crew |-> 0], over |-> {}]

Begin(t) ==
  /\ j[t] = None /\ waiting > 0
  /\ waiting' = waiting - 1
  /\ j' = [j EXCEPT ![t] = 0]
  /\ mean' = [mean EXCEPT ![t] = 0]
  /\ totals' = [totals EXCEPT !.now[t] = 0]
  /\ UNCHANGED <<input, best>>

\* The running mean, after n samples and one more.
MeanWith(m, a, n) == m + (Parts * a - m) \div (n + 1)

Draw(t) ==
  /\ j[t] \in 0 .. perTry - 1
  /\ \E a \in Draws :
       /\ mean' = [mean EXCEPT ![t] = MeanWith(mean[t], a, j[t])]
       /\ totals' = [totals EXCEPT !.now[t] = @ + a]
  /\ j' = [j EXCEPT ![t] = @ + 1]
  /\ UNCHANGED <<input, waiting, best>>

Better(m) == best = None \/ m < best

\* The critical section at the end of a try.
Keep(t) ==
  /\ j[t] = perTry
  /\ LET m == mean[t] \div 2 ^ alpha IN
     best' = IF Better(m) THEN m ELSE best
  /\ totals' = [totals EXCEPT !.over = @ \cup {totals.now[t]}]
  /\ j' = [j EXCEPT ![t] = None]
  /\ UNCHANGED <<input, waiting, mean>>

Try(t) == Begin(t) \/ Draw(t) \/ Keep(t)
LNext == \E t \in Crew : Try(t)

-----------------------------------------------------------------------------
(* Properties *)

\* The result is the smallest mean over 2^alpha of the tries that are over, in
\* whatever order the threads end them, exactly.
SmallestMean ==
  LET scaled(total) == total * Parts IN
  IF totals.over = {} THEN best = None
  ELSE /\ \A s \in totals.over : best * 2 ^ alpha * perTry <= scaled(s)
       /\ \E s \in totals.over : best * 2 ^ alpha * perTry = scaled(s)

\* All tries end.
TriesEnd == waiting = 0 /\ \A t \in Crew : j[t] = None

=============================================================================
