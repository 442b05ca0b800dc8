CONSTANTS
  Clocks <- MCClocks
  Garbage <- MCGarbage
SPECIFICATION Spec
INVARIANTS
  TypeOK
  SelectionIsSound
  FindsAPair
