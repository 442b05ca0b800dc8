---------------------------- MODULE MCAvivoProbe ----------------------------
(* AvivoProbe for TLC: every device id of the lists and one of none, alone *)
(* in the machine, on five layouts of BARs; and pairs of cards.            *)
EXTENDS AvivoProbe

(* R5xx cards with the frame buffer first, an RS690, a 32K register BAR    *)
(* before the frame buffer, one that comes last, and none.                 *)
MCLayouts == {<<28, 8, 16, 0, 0, 0>>, <<27, 0, 16, 0, 8, 20>>, <<15, 26, 0, 0, 0, 0>>,
              <<28, 8, 0, 0, 0, 16>>, <<28, 8, 0, 0, 0, 0>>}

MCUnknown == \h5E4D    \* an R4xx
MCIds     == UNION {PCI_CHIP[f] : f \in Families} \cup {MCUnknown}

MCPairs == [id : {\h7249, \h71C5, MCUnknown}, vga : BOOLEAN,
            bars : {<<28, 8, 16, 0, 0, 0>>, <<15, 26, 0, 0, 0, 0>>}, mem : {27}]

MCCards ==
  MCPairs \cup
  [id : MCIds, vga : BOOLEAN, bars : {<<28, 8, 16, 0, 0, 0>>}, mem : {28}] \cup
  [id : {\h7249, \h71C5, MCUnknown}, vga : BOOLEAN, bars : MCLayouts, mem : {26, 27, 29}]

MCSlots    == {1, 2}
MCMachines == [{1} -> MCCards] \cup [{1, 2} -> MCPairs]
=============================================================================
