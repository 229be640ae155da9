\* Static cards after a transient one.
SPECIFICATION Spec
CONSTANTS
  Cards <- StaticCards
  Part = 6
  MaxRetry = 4
  TauMax = 0
  Transients = TRUE
INVARIANT EveryGuessLoaded
