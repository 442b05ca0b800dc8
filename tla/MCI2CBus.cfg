CONSTANTS
  Bits = 2
  AddressBytes = 1
  Polls = 2
  AckPolls = 1
  MayStretch = TRUE
  Calls <- MCCalls
SPECIFICATION FairSpec
INVARIANTS
  TypeOK
  MasterLetsGo
  TrueMeansMoved
  IdleAfterCall
PROPERTIES
  DataStable
  CallsReturn
