---------------------------- MODULE MCAvivoDpms ----------------------------
(* AvivoDpms for TLC: a laptop with a VGA and a DVI connector.             *)
EXTENDS AvivoDpms

MCOutputs  == {"VGA 0", "DVI-I 0", "LFP 1"}
MCDriverOf == [o \in MCOutputs |->
  CASE o = "VGA 0" -> "dac" [] o = "DVI-I 0" -> "tmds" [] o = "LFP 1" -> "lvds"]
MCBlockOf  == [o \in MCOutputs |->
  CASE o = "VGA 0" -> "DACA" [] o = "DVI-I 0" -> "TMDSA" [] o = "LFP 1" -> "LVTMA"]
=============================================================================
