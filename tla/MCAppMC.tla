------------------------------ MODULE MCAppMC ------------------------------
(***************************************************************************)
(* The counters and samplers of cppddnnf that draw paths at random: appmc, *)
(* rsampler, rhsampler and lmc.  The run picks one program at the start.   *)
(*                                                                         *)
(* For appmc, two close samples and one far away: the first two meet the   *)
(* default epsilon and alpha, any other mix of them does not.              *)
(***************************************************************************)
EXTENDS AppMC

CONSTANTS Programs

VARIABLES program,
  weights, nb, buffer, mode, phase, pending, holds, visited, reservoir, tmc,
  printed, law, ipath, isol, cmc, ccount, seen, leapt,
  tries, perTry, alpha, waiting, j, mean, best, totals

Samples == {20, 21, 90}
ReservoirWeights == {<<>>, <<2>>, <<1, 3>>, <<2, 2, 1>>, <<1, 2, 3>>}
SkippingWeights == {<<1>>, <<2, 1, 3>>, <<1, 2, 1, 1>>, <<2, 2, 2, 2, 2>>}

ASSUME WeightsAssumption ==
  ReservoirWeights \cup SkippingWeights \subseteq Seq(Nat \ {0})

R == INSTANCE Reservoir WITH
       Crew <- Threads, PathWeights <- ReservoirWeights, Sizes <- {1, 2},
       Buffers <- {0, 2, 3}, Unit <- 60
K == INSTANCE Skipping WITH
       PathWeights <- SkippingWeights, Sizes <- {1, 2}, Sure <- 3, MaxSkip <- 4,
       MaxCount <- 12
L == INSTANCE LowerBound WITH
       Crew <- Threads, Tries <- {0, 1, 3}, PerTry <- {1, 2}, Alphas <- {0, 1},
       Draws <- {2, 4, 5}, Parts <- 4

rest == <<weights, nb>>
rOnly == <<buffer, mode, phase, pending, holds, visited, tmc, printed, law>>
sOnly == <<ipath, isol, cmc, ccount, seen, leapt>>
lOnly == <<tries, perTry, alpha, waiting, j, mean, best, totals>>

MCInit ==
  /\ program \in Programs
  /\ IF program = "appmc" THEN Init
     ELSE /\ N = 1 /\ lN = 0 /\ verbose = FALSE
          /\ left = [t \in Threads |-> Block(N, t)]
          /\ at = [t \in Threads |-> "test"]
          /\ sample = [t \in Threads |-> 0]
          /\ k = 0 /\ rmean = 0 /\ rm = 0 /\ done = FALSE
          /\ lines = <<>> /\ taken = <<>> /\ stopped = 0
  /\ CASE program = "rsampler" -> R!Start
       [] program = "rhsampler" -> K!Start
       [] OTHER -> /\ weights = <<1>> /\ nb = 1 /\ reservoir = <<>>
  /\ program # "rsampler" =>
       /\ buffer = 1 /\ mode = "exact" /\ phase = "fill" /\ pending = {1}
       /\ holds = [t \in Threads |-> 0] /\ visited = {} /\ tmc = 0
       /\ printed = <<>> /\ law = [l \in DOMAIN weights |-> 0]
  /\ program # "rhsampler" =>
       /\ ipath = 1 /\ isol = 1 /\ cmc = 0 /\ ccount = 0
       /\ seen = <<>> /\ leapt = FALSE
  /\ IF program = "lmc" THEN L!Start
     ELSE /\ tries = 0 /\ perTry = 1 /\ alpha = 0 /\ waiting = 0
          /\ j = [t \in Threads |-> -1] /\ mean = [t \in Threads |-> 0]
          /\ best = -1 /\ totals = [now |-> [t \in Threads |-> 0], over |-> {}]

Over ==
  CASE program = "appmc" -> AllDone
    [] program = "rsampler" -> R!Sampled
    [] program = "rhsampler" -> ~ K!Walking \/ ccount = 12
    [] program = "lmc" -> L!TriesEnd

AppMCStep(t) ==
  /\ program = "appmc" /\ Step(t)
  /\ UNCHANGED <<program, rest, reservoir, rOnly, sOnly, lOnly>>
RSamplerWork(t) ==
  /\ program = "rsampler" /\ R!Work(t)
  /\ UNCHANGED <<program, vars, sOnly, lOnly>>
RSamplerShuffle ==
  /\ program = "rsampler" /\ R!Shuffle
  /\ UNCHANGED <<program, vars, sOnly, lOnly>>
RHSamplerStep ==
  /\ program = "rhsampler" /\ K!SNext
  /\ UNCHANGED <<program, vars, rOnly, lOnly>>
LmcTry(t) ==
  /\ program = "lmc" /\ L!Try(t)
  /\ UNCHANGED <<program, vars, rest, reservoir, rOnly, sOnly>>

all == <<program, vars, rest, reservoir, rOnly, sOnly, lOnly>>

MCNext ==
  \/ \E t \in Threads : AppMCStep(t) \/ RSamplerWork(t) \/ LmcTry(t)
  \/ RSamplerShuffle
  \/ RHSamplerStep
  \/ Over /\ UNCHANGED all

MCSpec ==
  /\ MCInit /\ [][MCNext]_all
  /\ \A t \in Threads :
       WF_all(AppMCStep(t)) /\ WF_all(RSamplerWork(t)) /\ WF_all(LmcTry(t))
  /\ WF_all(RSamplerShuffle) /\ WF_all(RHSamplerStep)

\* What the samplers keep and what lmc reports do not depend on which thread
\* comes first: the law of the reservoir is uniform, no solution is taken
\* twice, and the least mean of the tries wins.
SamplesRight ==
  CASE program = "rsampler" -> R!UniformLaw
    [] program = "rhsampler" -> K!NoneTwice
    [] program = "lmc" -> L!SmallestMean
    [] OTHER -> TRUE

SolutionIds == program = "rhsampler" => K!SolutionIds

\* Each program ends with its answer: appmc with an estimate when it had two
\* samples or more, and without early stopping only with the last one
\* (cppddnnf/README.md:83, LastEstimateOnly), rsampler with nb solutions,
\* rhsampler past the last path (or it leaps), lmc with no try left.
Answers ==
  <>CASE program = "appmc" -> AllDone /\ (N >= 2 => lines # <<>>) /\ LastEstimateOnly
      [] program = "rsampler" -> R!AllPrinted
      [] program = "rhsampler" -> K!WalkEnds
      [] program = "lmc" -> L!TriesEnd

=============================================================================
