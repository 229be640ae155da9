\* Static cards and transient ones in any order.
SPECIFICATION FairSpec
CONSTANTS
  Cards <- StaticCards
  Part = 6
  MaxRetry = 4
  TauMax = 0
  Transients = TRUE
INVARIANTS TypeOK RampAnchored GuessLoaded
PROPERTIES SolvedAsAsked ParametersRestored CardEnds
