\* Solves that may converge or diverge at will, and solves that converge for
\* small moves.
SPECIFICATION FairSpec
CONSTANTS
  Sweeps <- AllSweeps
  MaxRetry = 3
  TolInv = 1000
  Junk <- SomeJunk
INVARIANTS TypeOK RetryOrdered GridCovered StopReached ProjectionDefined
PROPERTIES Continues StopIsLast Completes
