CONSTANTS
  Programs = {"server", "tool"}
  McRegs <- MCRegs
  Values = {"text", "mine"}
  Map = "map"
  Mine = "mine"
  McList <- MCMcList
  Machines <- MCMachines
  Commands <- MCOutputCommands
  MaxImage = 2
SPECIFICATION Spec
INVARIANT
  EnableTurnsOn
