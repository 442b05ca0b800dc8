CONSTANTS
  Tables <- MCTables
  MaxFailures = 1
SPECIFICATION Spec
INVARIANTS
  TypeOK
  BusesAreOwned
  BlocksNotShared
  ConnectorsServed
  OnePanel
  TwinsAgree
