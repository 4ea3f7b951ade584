CONSTANTS
  NumThreads = 2
  MaxN = 4
  Values <- Samples
  Scale = 12
  Width = 655
  Programs = {"rhsampler"}
SPECIFICATION MCSpec
INVARIANTS
  SolutionIds
