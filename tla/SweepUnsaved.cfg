\* A mixed-mode sweep that does not save its biases.
SPECIFICATION Spec
CONSTANTS
  Sweeps <- Unsaved
  MaxRetry = 3
  TolInv = 1000
  Junk <- SomeJunk
PROPERTY StepReduced
