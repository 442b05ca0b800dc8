CONSTANTS
  Bits = 2
  AddressBytes = 1
  Polls = 2
  AckPolls = 1
  MayStretch = FALSE
  Calls <- MCCalls
SPECIFICATION FairSpec
PROPERTY
  OneStop
