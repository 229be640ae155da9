\* The IV curve may turn back.
SPECIFICATION Spec
CONSTANTS
  Traces <- SmallTraces
  Potentials <- SmallPotentials
  Currents <- SmallCurrents
  Slopes <- SmallSlopes
  Load <- SmallLoad
  MaxV = 12
  MaxRecovery = 2
  Smooth = 1
INVARIANT TurningPointsPassed
