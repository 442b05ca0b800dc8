CONSTANTS
  VGA = VGA
  DVI = DVI
  LFP = LFP
  None = None
  Outputs <- MCOutputs
  FuncsOf <- MCFuncsOf
  Compat = LFP
  Modes <- MCModes
  EdidPanel <- MCEdidPanel
  BiosPanels <- MCBiosPanels
  Xs = {6}
SYMMETRY Twins
SPECIFICATION Spec
INVARIANTS
  TypeOK
  PictureOnOutput
PROPERTIES
  PanelGetsItsTiming
  ProgrammedWhileOff
