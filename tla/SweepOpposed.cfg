\* VStop and VStep of opposite signs.
SPECIFICATION Spec
CONSTANTS
  Sweeps <- Opposed
  MaxRetry = 3
  TolInv = 1000
  Junk <- SomeJunk
INVARIANT StopReached
