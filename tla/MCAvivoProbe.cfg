CONSTANTS
  Builds = {TRUE, FALSE}
  Slots <- MCSlots
  Cards <- MCCards
  Machines <- MCMachines
SPECIFICATION Spec
INVARIANTS
  TypeOK
  KnownChips
  MmioFirst
