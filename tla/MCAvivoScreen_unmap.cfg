CONSTANTS
  PciAccess = FALSE
  UseShadow = TRUE
  MemSize = 8
  MaxMap = 4
  ConsoleModes = {t1, t2}
  Gfx = gfx
  ConsoleWrites <- MCConsoleWrites
  CompatAlwaysDriven = TRUE
SPECIFICATION FairSpec
PROPERTY
  UnmapWhatWasMapped
