\* The limiter under every step the driver may ask for and any retry.
SPECIFICATION Spec
CONSTANTS
  Setups <- AllSetups
  MaxStep = 14
  Horizon = 18
INVARIANTS TypeOK DvMaxIsMax ChangeBounded
PROPERTY KeepsMinimum
