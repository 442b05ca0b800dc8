--------------------------- MODULE MCAvivoModeSet ---------------------------
(* AvivoModeSet for TLC: a DVI-I connector, which is two outputs, and a    *)
(* panel whose EDID and BIOS entry, if it has one, disagree.               *)
EXTENDS AvivoModeSet, TLC

CONSTANTS VGA, DVI, LFP

MCOutputs == {VGA, DVI, LFP}
MCFuncsOf == [o \in MCOutputs |-> CASE o = VGA -> "dac" [] o = DVI -> "tmds" [] o = LFP -> "lfp"]

Dir(d, s, e, t) == [display |-> d, syncStart |-> s, syncEnd |-> e, total |-> t]

MCModes == {[h |-> Dir(8, 9, 11, 12), v |-> Dir(6, 7, 8, 9), clock |-> 30],
            [h |-> Dir(10, 11, 13, 15), v |-> Dir(7, 8, 9, 11), clock |-> 40]}
MCEdidPanel == [h |-> Dir(12, 14, 15, 18), v |-> Dir(9, 10, 12, 14), clock |-> 60]
MCBiosPanels ==
  {None,
   [h |-> [res |-> 12, blank |-> 5, over |-> 2, width |-> 2],
    v |-> [res |-> 9, blank |-> 4, over |-> 1, width |-> 1], clock |-> 7]}

(* The server treats the two outputs of the connector alike. *)
Twins == Permutations({VGA, DVI})
=============================================================================
