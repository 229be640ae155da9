\* Sessions of operating points under every outcome of the solves.
SPECIFICATION Spec
CONSTANTS
  Cards <- SmallCards
  MaxCards = 3
  Full = 32
  MaxRetry = 3
  Decades = 2
INVARIANTS TypeOK RampAnchored PartiesAgree SourcesReached GminScaledBack
