\* Two sources on one electrode.
SPECIFICATION Spec
CONSTANTS
  Setups <- Opposite
  MaxStep = 14
  Horizon = 18
INVARIANT AllChangesBounded
