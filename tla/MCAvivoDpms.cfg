CONSTANTS
  Outputs <- MCOutputs
  DriverOf <- MCDriverOf
  BlockOf <- MCBlockOf
  Tries = 5
SPECIFICATION FairSpec
INVARIANTS
  TypeOK
  LockNotLeftBehind
PROPERTIES
  PanelPoweredDownFirst
  DpmsReturns
