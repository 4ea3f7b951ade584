CONSTANTS
  NumThreads = 2
  MaxN = 4
  Values <- Samples
  Scale = 12
  Width = 655
  Programs = {"appmc", "rsampler", "rhsampler", "lmc"}
SPECIFICATION MCSpec
INVARIANTS EstimateRight LateSamples SamplesRight
PROPERTIES Answers
