---------------------------- MODULE MCAvivoTool ----------------------------
(* AvivoTool for TLC: a register of the memory controller next to the map, *)
(* machines with one, two and no radeon, and one line of every command.    *)
EXTENDS AvivoTool

MCRegs == {"map", "mc05"}

McReg(r) == [space |-> "mc", reg |-> r]
Mmio     == [space |-> "mmio", reg |-> "map"]
MCRegList == <<McReg("map"), McReg("mc05"), Mmio>>
MCMcList  == <<"map", "mc05">>

Plain(big) == [i \in 0 .. 5 |-> CASE i = 0 -> big [] i = 2 -> "64K" [] OTHER -> "none"]
MCMachines ==
  LET x1600 == [radeon |-> TRUE, regions |-> Plain("large")]
      small == [radeon |-> TRUE, regions |-> [i \in 0 .. 5 |-> IF i = 1 THEN "64K" ELSE "none"]]
      other == [radeon |-> FALSE, regions |-> Plain("large")]
  IN  {<<other>>, <<other, x1600>>, <<x1600, small>>}

MCCommands ==
  {[name |-> n] : n \in {"bad", "debug", "i2c", "i2c-monitor"}}
    \cup [name : {"regs"}, set : Sweeps \cup {"default", "core"}]
    \cup {[name |-> "regmatch", regs |-> MCRegList]}
    \cup {[name |-> "regset", regs |-> <<McReg(r)>>, value |-> "text"] : r \in MCRegs}
    \cup [name : {"output"}, output : {"dac1", "other"}, on : {TRUE}]
    \cup [name : {"dumpimg", "loadimg"}, image : [len : {0, 2}, input : {1, 2}]]

MCOutputCommands == [name : {"output"}, output : ToolOutputs, on : BOOLEAN]
=============================================================================
