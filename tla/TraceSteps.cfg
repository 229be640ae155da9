\* A device that answers each load line with any point and any slope.
SPECIFICATION FairSpec
CONSTANTS
  Traces <- SmallTraces
  Potentials <- SmallPotentials
  Currents <- SmallCurrents
  Slopes <- SmallSlopes
  Load <- SmallLoad
  MaxV = 12
  MaxRecovery = 2
  Smooth = 1
INVARIANTS TypeOK OnLoadLine LimitReached
PROPERTY RejectionsEnd
