---------------------------- MODULE AvivoOutputs ----------------------------
(***************************************************************************)
(* From the connector table of the video BIOS to the outputs of the screen *)
(* (avivo_output_setup in xorg/avivo_bios.c, avivo_output_exist and        *)
(* avivo_output_init in xorg/avivo_output.c).                              *)
(*                                                                         *)
(* An entry of the table is a connector's type and number; the number also *)
(* selects the DDC register, so the register is known by the number it was *)
(* read for.  An I2C bus is known by its name, "<type> connector <number>".*)
(***************************************************************************)
EXTENDS Integers, Sequences, FiniteSets

CONSTANTS
  Tables,       \* the connector tables a BIOS may hold
  MaxFailures   \* how many allocations and calls of the server may fail

Kinds      == {"VGA", "DVI-I", "LFP"}
Connectors == Kinds \cup {"other"}    \* "other": none, DVI-D, DVI-A, S-video, component

ASSUME OutputsAssumption ==
  /\ Tables \subseteq Seq([type : Connectors, number : 0 .. 15])
  /\ MaxFailures \in Nat

VARIABLES
  pc,        \* "bios", "table", "pair", "done", "detected", or "failed": setup returned FALSE
  table,     \* the connector table
  i,         \* the loop variable
  outputs,   \* config->output
  buses,     \* the names on I2CBusList
  status,    \* what each output answered when it was asked for its monitor
  failures   \* failures so far

vars == <<pc, table, i, outputs, buses, status, failures>>

Driver == {"dac1", "dac2", "tmds1", "tmds2", "lvds"}

TypeOK ==
  /\ pc \in {"bios", "table", "pair", "done", "detected", "failed"}
  /\ i \in 1 .. Len(table) + Len(outputs) + 1
  /\ outputs \in Seq([type : Kinds, number : 0 .. 15, ddc : 0 .. 15,
                      bus : Kinds \X (0 .. 15), driver : Driver, crtcs : SUBSET {1, 2}])
  /\ buses \subseteq Kinds \X (0 .. 15)
  /\ status \in Seq({"Unknown", "Connected", "Disconnected"})
  /\ failures \in 0 .. MaxFailures

Init ==
  /\ pc = "bios" /\ table = <<>> /\ i = 1
  /\ outputs = <<>> /\ buses = {} /\ status = <<>> /\ failures = 0

(* RADEONGetBIOSInfo fails, or there is no connector table, or the table   *)
(* is what the BIOS holds at its place.                                    *)
GetBIOSInfo ==
  /\ pc = "bios"
  /\ \/ pc' = "failed" /\ UNCHANGED table
     \/ pc' = "done" /\ UNCHANGED table
     \/ pc' = "table" /\ table' \in Tables
  /\ UNCHANGED <<i, outputs, buses, status, failures>>

(* The setup and dpms functions of a new output. *)
DriverOf(type, number) ==
  CASE type = "VGA"   -> IF number = 0 THEN "dac1" ELSE "dac2"
    [] type = "DVI-I" -> IF number = 0 THEN "tmds1" ELSE "tmds2"
    [] type = "LFP"   -> "lvds"

(* Mutant: the bus stays on the list when the output cannot be created. *)
OutputInitLeaksBus(type, number, ddc) ==
  LET name == <<type, number>> IN
  IF name \in buses THEN UNCHANGED <<outputs, buses, failures>>
  ELSE \/ /\ outputs' = Append(outputs,
                         [type |-> type, number |-> number, ddc |-> ddc, bus |-> name,
                          driver |-> DriverOf(type, number), crtcs |-> {}])
          /\ buses' = buses \cup {name}
          /\ UNCHANGED failures
       \/ /\ failures < MaxFailures
          /\ failures' = failures + 1
          /\ buses' = buses \cup {name}
          /\ UNCHANGED outputs

(* avivo_output_init: xf86I2CBusInit refuses a name that is taken; an      *)
(* allocation or xf86OutputCreate may fail, and the bus is given back.     *)
OutputInit(type, number, ddc) ==
  LET name == <<type, number>> IN
  \/ /\ name \notin buses
     /\ outputs' = Append(outputs,
                    [type |-> type, number |-> number, ddc |-> ddc, bus |-> name,
                     driver |-> DriverOf(type, number), crtcs |-> {}])
     /\ buses' = buses \cup {name}
     /\ UNCHANGED failures
  \/ /\ name \in buses
     /\ UNCHANGED <<outputs, buses, failures>>
  \/ /\ failures < MaxFailures
     /\ failures' = failures + 1
     /\ UNCHANGED <<outputs, buses>>

(* The three tests of avivo_output_exist for output o. *)
Same(o, type, number)       == o.number = number /\ o.type = type
PanelIsThere(o, number)     == o.type = "LFP" /\ number >= 1
PanelTakesOver(o, type)     == type = "LFP" /\ o.number >= 1

(* Mutants: connectors told apart by their number only; a panel that does  *)
(* not make room on LVTMA.                                                 *)
HitsByNumber(type, number) ==
  {k \in 1 .. Len(outputs) : \/ outputs[k].number = number
                             \/ PanelIsThere(outputs[k], number)
                             \/ PanelTakesOver(outputs[k], type)}

HitsWithoutPanel(type, number) ==
  {k \in 1 .. Len(outputs) : Same(outputs[k], type, number)}

(* The outputs at which avivo_output_exist answers TRUE; it takes the      *)
(* first, and a panel turns that output into its own.                      *)
Hits(type, number) ==
  {k \in 1 .. Len(outputs) : \/ Same(outputs[k], type, number)
                             \/ PanelIsThere(outputs[k], number)
                             \/ PanelTakesOver(outputs[k], type)}

(* Mutant: the panel gets the DDC register and not the type. *)
TakeOverDdcOnly(k, ddc) == outputs' = [outputs EXCEPT ![k].ddc = ddc]

TakeOver(k, ddc) ==
  outputs' = [outputs EXCEPT ![k].type = "LFP", ![k].ddc = ddc]

OutputExist(type, number, ddc) ==
  LET k == CHOOSE h \in Hits(type, number) : \A g \in Hits(type, number) : h <= g
      o == outputs[k]
  IN
  /\ Hits(type, number) # {}
  /\ IF Same(o, type, number) \/ PanelIsThere(o, number)
     THEN UNCHANGED outputs
     ELSE TakeOver(k, ddc)
  /\ UNCHANGED <<buses, failures>>

(* One turn of the loop over the table; an LFP always has number 1. *)
ReadEntry ==
  /\ pc = "table" /\ i <= Len(table)
  /\ LET type   == table[i].type
         number == IF type = "LFP" THEN 1 ELSE table[i].number
         ddc    == table[i].number
     IN
     IF type \notin Kinds THEN UNCHANGED <<outputs, buses, failures>>
     ELSE IF Hits(type, number) # {} THEN OutputExist(type, number, ddc)
     ELSE OutputInit(type, number, ddc)
  /\ i' = i + 1
  /\ UNCHANGED <<pc, table, status>>

TableRead ==
  /\ pc = "table" /\ i > Len(table)
  /\ pc' = "pair" /\ i' = 1
  /\ UNCHANGED <<table, outputs, buses, status, failures>>

(* One turn of the loop that gives each DVI-I output a VGA output; the     *)
(* loop also visits the outputs it adds.                                   *)
PairDvi ==
  /\ pc = "pair" /\ i <= Len(outputs)
  /\ LET o == outputs[i]
         vga == \E k \in 1 .. Len(outputs) :
                   Same(outputs[k], "VGA", o.number) /\ outputs[k].ddc = o.ddc
     IN IF o.type = "DVI-I" /\ ~vga THEN OutputInit("VGA", o.number, o.ddc)
                                    ELSE UNCHANGED <<outputs, buses, failures>>
  /\ i' = i + 1
  /\ UNCHANGED <<pc, table, status>>

(* Mutant: the CRTCs are counted from 0. *)
SetMasksFromZero ==
  /\ pc = "pair" /\ i > Len(outputs)
  /\ pc' = "done"
  /\ outputs' = [k \in 1 .. Len(outputs) |->
       [outputs[k] EXCEPT !.crtcs = IF outputs[k].type = "LFP" THEN {0} ELSE {0, 1}]]
  /\ UNCHANGED <<table, i, buses, status, failures>>

(* The masks: any CRTC, but the first one for a panel. *)
SetMasks ==
  /\ pc = "pair" /\ i > Len(outputs)
  /\ pc' = "done"
  /\ outputs' = [k \in 1 .. Len(outputs) |->
       [outputs[k] EXCEPT !.crtcs = IF outputs[k].type = "LFP" THEN {1} ELSE {1, 2}]]
  /\ UNCHANGED <<table, i, buses, status, failures>>

(* What is read over a DDC register: nothing, or the EDID of an analog     *)
(* monitor, a digital one, or one that is DFP compatible too.              *)
Edids        == {"none", "analog", "digital", "dfp"}
InputType(e) == e \in {"digital", "dfp"}
InputDfp(e)  == e = "dfp"

(* Mutant: input_type is not looked at. *)
DetectDacByDfp(e) == IF e = "none" THEN "Unknown"
                     ELSE IF InputDfp(e) THEN "Disconnected" ELSE "Connected"

DetectDac(e)  == IF e = "none" THEN "Unknown"
                 ELSE IF InputType(e) \/ InputDfp(e) THEN "Disconnected" ELSE "Connected"

DetectTmds(e) == IF e = "none" THEN "Unknown"
                 ELSE IF InputType(e) \/ InputDfp(e) THEN "Connected" ELSE "Disconnected"

(* The functions an output was created with; one that a panel has taken    *)
(* over keeps its own.                                                     *)
Answer(driver, e) == CASE driver = "lvds"               -> "Connected"
                       [] driver \in {"dac1", "dac2"}   -> DetectDac(e)
                       [] driver \in {"tmds1", "tmds2"} -> DetectTmds(e)

(* The server asks every output.  A monitor answers on one of the          *)
(* registers; the probe of its address, or the transfer of its EDID, fails *)
(* for the outputs F.                                                      *)
Detect ==
  /\ pc = "done"
  /\ pc' = "detected"
  /\ \E d \in {0} \cup {outputs[k].ddc : k \in 1 .. Len(outputs)}, e \in Edids :
       \E F \in SUBSET {k \in 1 .. Len(outputs) : outputs[k].ddc = d} :
         status' = [k \in 1 .. Len(outputs) |->
                      Answer(outputs[k].driver,
                             IF outputs[k].ddc = d /\ k \notin F THEN e ELSE "none")]
  /\ UNCHANGED <<table, i, outputs, buses, failures>>

(* avivo_preinit goes on, also when avivo_output_setup returned FALSE. *)
Finished ==
  /\ pc \in {"detected", "failed"}
  /\ UNCHANGED vars

Next ==
  \/ GetBIOSInfo \/ ReadEntry \/ TableRead \/ PairDvi \/ SetMasks \/ Detect \/ Finished

Spec == Init /\ [][Next]_vars

-----------------------------------------------------------------------------
(* Properties *)

Block(o) == CASE o.driver = "dac1"  -> "DACA"
              [] o.driver = "dac2"  -> "DACB"
              [] o.driver = "tmds1" -> "TMDSA"
              [] OTHER              -> "LVTMA"

Entries == {table[k] : k \in 1 .. Len(table)}

(* The list of I2C buses is the list of the outputs' buses: no failure and *)
(* no change of an output's type leaves a bus behind, and no two outputs   *)
(* talk over one.                                                          *)
BusesAreOwned ==
  /\ buses = {outputs[k].bus : k \in 1 .. Len(outputs)}
  /\ \A k, h \in 1 .. Len(outputs) : outputs[k].bus = outputs[h].bus => k = h

(* With connectors numbered 0 and 1, no two outputs program the same       *)
(* block, in whatever order the table lists LFP, DVI-I and VGA.            *)
BlocksNotShared ==
  (\A e \in Entries : e.number <= 1) =>
    \A k, h \in 1 .. Len(outputs) : Block(outputs[k]) = Block(outputs[h]) => k = h

(* No connector is lost but to a panel, and only one with number above 0.  *)
ConnectorsServed ==
  (pc = "detected" /\ failures = 0) =>
    \A e \in Entries :
      (e.type \in {"VGA", "DVI-I"} /\ (e.number = 0 \/ \A f \in Entries : f.type # "LFP")) =>
        \E k \in 1 .. Len(outputs) : Same(outputs[k], e.type, e.number)

(* A panel is listed before any connector that uses its block or the       *)
(* second DAC: nothing with a number above 0 is there for it to take over. *)
PanelFirst ==
  \E k \in 1 .. Len(table) :
    /\ table[k].type = "LFP"
    /\ \A h \in 1 .. k - 1 : table[h].type \in Kinds => table[h].number = 0

(* A table with an LFP gives exactly one panel, on the first CRTC; one     *)
(* without gives none.  A panel that did not take over another output has  *)
(* the panel's functions and is found without DDC.                         *)
OnePanel ==
  (pc = "detected" /\ failures = 0) =>
    LET panels == {k \in 1 .. Len(outputs) : outputs[k].type = "LFP"} IN
    /\ Cardinality(panels) = IF \E e \in Entries : e.type = "LFP" THEN 1 ELSE 0
    /\ \A k \in panels :
         /\ outputs[k].crtcs = {1}
         /\ PanelFirst => outputs[k].driver = "lvds" /\ status[k] = "Connected"

(* The VGA and the DVI-I output of one connector ask over the same DDC     *)
(* register: when both read the monitor's EDID exactly one of them is      *)
(* connected, so that a monitor is neither missed nor driven twice.        *)
TwinsAgree ==
  pc = "detected" =>
    \A k, h \in 1 .. Len(outputs) :
      ( /\ outputs[k].type = "VGA" /\ outputs[h].type = "DVI-I"
        /\ outputs[k].ddc = outputs[h].ddc
        /\ "Unknown" \notin {status[k], status[h]} ) => status[k] # status[h]

=============================================================================
