\* Both drivers under every outcome of the solves and of the error estimate.
SPECIFICATION FairSpec
CONSTANTS
  Runs <- SmallRuns
  MaxRetry = 3
  Ratios = {5, 8, 9, 20}
  StaleSteps = {0, 3}
  GrowthFactors = {13, 20}
INVARIANTS TypeOK StepAnchored CircuitAgrees FixedStepKept
PROPERTIES Continues Terminates
