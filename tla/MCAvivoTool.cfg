CONSTANTS
  Programs = {"server", "tool"}
  McRegs <- MCRegs
  Values = {"text", "mine"}
  Map = "map"
  Mine = "mine"
  McList <- MCMcList
  Machines <- MCMachines
  Commands <- MCCommands
  MaxImage = 2
SPECIFICATION FairSpec
INVARIANTS
  TypeOK
  LandsWhereMeant
  SafeSweeps
PROPERTIES
  MapGivenBack
  ToolEnds
