CONSTANTS
  PciAccess = FALSE
  UseShadow = TRUE
  MemSize = 2
  MaxMap = 4
  ConsoleModes = {t1, t2}
  Gfx = gfx
  ConsoleWrites <- MCConsoleWrites
  CompatAlwaysDriven = TRUE
SPECIFICATION Spec
INVARIANT
  CrtcsRestored
