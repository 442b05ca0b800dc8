----------------------------- MODULE AvivoTool -----------------------------
(***************************************************************************)
(* avivotool next to the X server (avivotool/avivotool.c).                 *)
(*                                                                         *)
(* A user runs one command of the tool after another, at any moment of the *)
(* server's life.  Of the server only what shares registers with the tool  *)
(* is here: the memory map it saves, sets and restores around a VT switch. *)
(* The tool's registers dumps and pokes are steps of AvivoMc; its outputs, *)
(* I2C engine and images have their own registers, so a command on them    *)
(* between two waits is one step.                                          *)
(***************************************************************************)
EXTENDS AvivoMc, SequencesExt

CONSTANTS
  Commands,    \* the command lines a user may give
  Machines,    \* the PCI cards of a machine, in the order of the bus
  McList,      \* the memory controller's registers that regs shows, in order
  Map,         \* AVIVO_MC_MEMORY_MAP
  Mine,        \* what avivo_setup_gpu_memory_map writes there
  MaxImage     \* length of the longest frame buffer

Register == [space : {"mc", "mmio"}, reg : McRegs]
Card     == [radeon : BOOLEAN, regions : [0 .. 5 -> {"none", "64K", "large"}]]
Image    == [len : 0 .. MaxImage, input : 0 .. MaxImage]   \* input: on stdin
Sweeps   == {"dynamic", "unknown", "all"}

ToolOutputs == {"tmds1", "tmds2", "dac1", "dac2", "crtc1", "lvds", "cur1"}

(* "bad" is a line main knows no command for, "debug" is --debug alone.    *)
CommandLine ==
  [name : {"bad", "debug", "i2c", "i2c-monitor"}]
    \cup [name : {"regs"}, set : Sweeps \cup {"default", "mc", "core"}]
    \cup [name : {"regmatch"}, regs : Seq(Register)]
    \cup [name : {"regset"}, regs : Seq(Register), value : Values]
    \cup [name : {"output"}, output : ToolOutputs \cup {"other"}, on : BOOLEAN]
    \cup [name : {"dumpimg", "loadimg"}, image : Image]

ASSUME ToolAssumption ==
  /\ Programs = {"server", "tool"}
  /\ Commands \subseteq CommandLine /\ Commands # {}
  /\ Machines \subseteq Seq(Card)
  /\ McList \in Seq(McRegs)
  /\ Map \in McRegs /\ Mine \in Values
  /\ MaxImage \in Nat

VARIABLES
  server,     \* where the server is with the memory map
  saved,      \* state->mc_memory_map
  found,      \* history: the map when the server began to save
  pc, cmd,    \* the tool: its step, its command line
  local,      \* its counters, see Locals
  engine,     \* the I2C engine: AVIVO_I2C_CNTL and AVIVO_I2C_START_CNTL
  lit,        \* what the tool last wrote to the registers of each output
  exit        \* how the last command ended

serverVars == <<server, saved, found>>
toolVars   == <<pc, cmd, local, engine, lit, exit>>
vars       == <<mcVars, serverVars, toolVars>>

(* The access or loop the command is in, the bytes of an image still to    *)
(* move and those still to come on stdin, i and num_ready of _i2c_wait.    *)
Locals == [at : Nat, left : 0 .. MaxImage, input : 0 .. MaxImage,
           polls : 0 .. 10, ready : 0 .. 2]
Fresh  == [at |-> 1, left |-> 0, input |-> 0, polls |-> 0, ready |-> 0]

Engine == [on : BOOLEAN, start : BOOLEAN, connector : {0, 1}]
Lit    == [enabled : BOOLEAN, forced : BOOLEAN, powered : BOOLEAN]
Shining == [enabled |-> TRUE, forced |-> FALSE, powered |-> TRUE]
Exits  == {"none", "ok", "usage", "fatal", "timeout", "crash"}

TypeOK ==
  /\ McTypeOK
  /\ server \in {"console", "saving", "saved", "mapping", "running", "restoring", "restored"}
  /\ saved \in Values /\ found \in Values
  /\ pc \in {"none", "map", "run", "sweep", "image", "write", "read"}
  /\ cmd \in Commands
  /\ local \in Locals
  /\ engine \in Engine
  /\ lit \in [ToolOutputs -> Lit]
  /\ exit \in Exits

Init ==
  /\ McInit
  /\ server = "console" /\ saved = mc[Map] /\ found = mc[Map]
  /\ pc = "none" /\ cmd = (CHOOSE c \in Commands : TRUE) /\ local = Fresh
  /\ engine = [on |-> FALSE, start |-> FALSE, connector |-> 0]
  /\ lit = [o \in ToolOutputs |-> Shining]
  /\ exit = "none"

-----------------------------------------------------------------------------
(* The server: save_state and the memory map when it enters the VT,        *)
(* restore_state when it leaves.                                           *)

Access(o, r, v) == [op |-> o, reg |-> r, value |-> v]

(* The index is taken to be at the memory map already.                     *)
SaveMapByData ==
  /\ server = "console" /\ Idle("server")
  /\ access' = [access EXCEPT !["server"] = Access("get", Map, Mine)]
  /\ server' = "saving" /\ found' = mc[Map]
  /\ UNCHANGED <<index, mc, meant, clash, saved, toolVars>>

SaveMap ==
  /\ server = "console"
  /\ WriteIndex("server", Access("get", Map, Mine))
  /\ server' = "saving" /\ found' = mc[Map]
  /\ UNCHANGED <<saved, toolVars>>

MapSaved ==
  /\ server = "saving"
  /\ MoveData("server")
  /\ saved' = Got
  /\ server' = "saved"
  /\ UNCHANGED <<found, toolVars>>

SetupMap ==
  /\ server = "saved"
  /\ WriteIndex("server", Access("set", Map, Mine))
  /\ server' = "mapping"
  /\ UNCHANGED <<saved, found, toolVars>>

RestoreMap ==
  /\ server = "running"
  /\ WriteIndex("server", Access("set", Map, saved))
  /\ server' = "restoring"
  /\ UNCHANGED <<saved, found, toolVars>>

MapWritten ==
  /\ server \in {"mapping", "restoring"}
  /\ MoveData("server")
  /\ server' = IF server = "mapping" THEN "running" ELSE "restored"
  /\ UNCHANGED <<saved, found, toolVars>>

(* The console has the card again, and may set its own map.                *)
ConsoleRuns(v) ==
  /\ server = "restored"
  /\ FirmwareSets(Map, v)
  /\ server' = "console"
  /\ UNCHANGED <<saved, found, toolVars>>

ServerNext == \/ SaveMap \/ MapSaved \/ SetupMap \/ RestoreMap \/ MapWritten
              \/ \E v \in Values : ConsoleRuns(v)

-----------------------------------------------------------------------------
(* main                                                                    *)

(* The process ends: its memory is gone, the card keeps what it was told.  *)
End(how) == pc' = "none" /\ exit' = how /\ local' = Fresh

Step(p) == pc' = p /\ UNCHANGED <<exit, local>>

(* Without arguments the tool only says how it is used.  argv[1] is NULL   *)
(* after --debug alone, and main compares it with --skip=.                 *)
Main(c) ==
  /\ pc = "none"
  /\ cmd' = c
  /\ \/ c.name = "bad" /\ End("usage")
     \/ c.name = "debug" /\ End("crash")
     \/ c.name # "debug" /\ pc' = "map" /\ exit' = "none" /\ UNCHANGED local
  /\ UNCHANGED <<mcVars, serverVars, engine, lit>>

(* The numbers of the regions are carried over from card to card: a card   *)
(* without such a region is mapped by the number of an earlier one.        *)
Regions(numbers, card) ==
  LET pick(size, old) == LET is == {i \in 0 .. 5 : card.regions[i] = size}
                         IN  IF is = {} THEN old ELSE Max(is)
  IN  IF card.radeon
      THEN [ctrl |-> pick("64K", numbers.ctrl), fb |-> pick("large", numbers.fb)]
      ELSE numbers

(* The last radeon of the bus is the one.                                  *)
MapRadeonMem(cards) ==
  LET radeons == SelectSeq(cards, LAMBDA c : c.radeon)
      numbers == FoldLeft(Regions, [ctrl |-> 0, fb |-> 0], cards)
      mapped  == /\ radeons # <<>>
                 /\ Last(radeons).regions[numbers.ctrl] # "none"
                 /\ Last(radeons).regions[numbers.fb] # "none"
  IN  /\ pc = "map"
      /\ IF mapped THEN Step("run") ELSE End("fatal")
      /\ UNCHANGED <<mcVars, serverVars, cmd, engine, lit>>

(* Among the lines main has no command for is every one with --skip=1: the *)
(* whole argument is compared with "--skip=".                              *)
Usage ==
  /\ pc = "run" /\ cmd.name = "bad"
  /\ End("usage")
  /\ UNCHANGED <<mcVars, serverVars, cmd, engine, lit>>

-----------------------------------------------------------------------------
(* regs, regmatch, regset                                                  *)

(* The loops of the three sweeps over the registers, <<i = first, i < last>>. *)
UnknownLoops == <<
  <<0, \h14>>, <<\h14 + 4, \h70>>, <<\h74 + 4, \h40c8>>, <<\h40cc, \h4ff8>>,
  <<\h5000, \h6000>>, <<\h602c + 4, \h6080>>, <<\h6080 + 4, \h6100>>,
  <<\h6138 + 4, \h6400>>, <<\h6414 + 4, \h6800>>, <<\h682c + 4, \h6880>>,
  <<\h6880 + 4, \h6900>>, <<\h6938 + 4, \h7ff8>> >>
(* Mutant: the second loop goes up to the registers it is to leave out.    *)
AllLoopsTooFar == << <<0, \h40c8>>, <<\h40cc, \h4ffc>>, <<\h5000, \h7ff8>> >>

AllLoops == << <<0, \h40c8>>, <<\h40cc, \h4ff8>>, <<\h5000, \h7ff8>> >>

Loops(sweep) == IF sweep = "all" THEN AllLoops ELSE UnknownLoops

IsSweep(c) == c.name = "regs" /\ c.set \in Sweeps

Sweep ==
  /\ \/ pc = "run" /\ IsSweep(cmd)
     \/ pc = "sweep"
  /\ IF pc = "run" THEN Step("sweep")
     ELSE IF local.at < Len(Loops(cmd.set))
     THEN local' = [local EXCEPT !.at = @ + 1] /\ UNCHANGED <<pc, exit>>
     ELSE End("ok")
  /\ UNCHANGED <<mcVars, serverVars, cmd, engine, lit>>

(* The accesses of the other commands: regs reads the memory controller,   *)
(* regmatch what its pattern names, regset reads, sets and reads each.     *)
McEntries == [i \in DOMAIN McList |-> [space |-> "mc", reg |-> McList[i]]]
Gets(regs) == [i \in DOMAIN regs |-> <<"get", regs[i]>>]

Plan(c) ==
  CASE c.name = "regs"     -> IF c.set \in {"default", "mc"} THEN Gets(McEntries) ELSE <<>>
    [] c.name = "regmatch" -> Gets(c.regs)
    [] c.name = "regset"   -> [i \in 1 .. 3 * Len(c.regs) |->
                                <<IF i % 3 = 2 THEN "set" ELSE "get", c.regs[(i + 2) \div 3]>>]

Accessing == /\ pc = "run"
             /\ cmd.name \in {"regs", "regmatch", "regset"}
             /\ ~IsSweep(cmd)
Now  == Plan(cmd)[local.at]
More == local.at <= Len(Plan(cmd))

ToolIndex ==
  /\ Accessing /\ More /\ Now[2].space = "mc"
  /\ WriteIndex("tool", Access(Now[1], Now[2].reg,
                               IF cmd.name = "regset" THEN cmd.value ELSE Mine))
  /\ UNCHANGED <<serverVars, toolVars>>

ToolData ==
  /\ MoveData("tool")
  /\ local' = [local EXCEPT !.at = @ + 1]
  /\ UNCHANGED <<serverVars, pc, cmd, engine, lit, exit>>

(* A register outside the memory controller: nothing modelled depends on   *)
(* its value.                                                              *)
ToolPlain ==
  /\ Accessing /\ More /\ Now[2].space = "mmio"
  /\ local' = [local EXCEPT !.at = @ + 1]
  /\ UNCHANGED <<mcVars, serverVars, pc, cmd, engine, lit, exit>>

PlanEnds ==
  /\ Accessing /\ ~More
  /\ End("ok")
  /\ UNCHANGED <<mcVars, serverVars, cmd, engine, lit>>

-----------------------------------------------------------------------------
(* i2c: two phases, each waited for by _i2c_wait                           *)

Stopped(e) == [e EXCEPT !.start = FALSE, !.connector = 0]

(* _i2c_start tells the engine its connector only when it is not on yet.   *)
I2cStart ==
  /\ pc = "run" /\ cmd.name = "i2c"
  /\ engine' = IF engine.on THEN [engine EXCEPT !.start = TRUE]
               ELSE [on |-> TRUE, start |-> TRUE, connector |-> 1]
  /\ Step("write")
  /\ UNCHANGED <<mcVars, serverVars, cmd, lit>>

(* The test comes after the increment.                                     *)
TimedOutLate == local.polls = 11

TimedOut == local.polls = 10

(* Stopping the engine starts the count again.                             *)
TurnFromStop(status, ready) ==
  IF status = "other" THEN Fresh ELSE [local EXCEPT !.polls = @ + 1, !.ready = ready]

Turn(status, ready) == [local EXCEPT !.polls = @ + 1, !.ready = ready]

(* One turn of _i2c_wait.  Any status but done and waiting stops the       *)
(* engine, and the loop goes on; its eleventh turn is a timeout, even if   *)
(* the third "done" came with it.                                          *)
I2cPoll(status) ==
  LET ready  == local.ready + (IF status = "done" THEN 1 ELSE 0)
      polled == IF status = "other" THEN Stopped(engine) ELSE engine
  IN  /\ pc \in {"write", "read"}
      /\ \/ /\ TimedOut
            /\ End("timeout") /\ engine' = polled
         \/ /\ ~TimedOut /\ ready < 3
            /\ local' = Turn(status, ready)
            /\ engine' = polled /\ UNCHANGED <<pc, exit>>
         \/ /\ ~TimedOut /\ ready = 3 /\ pc = "write"
            /\ local' = Fresh /\ pc' = "read"
            /\ engine' = polled /\ UNCHANGED exit
         \/ /\ ~TimedOut /\ ready = 3 /\ pc = "read"
            /\ End("ok") /\ engine' = Stopped(engine)
      /\ UNCHANGED <<mcVars, serverVars, cmd, lit>>

(* i2c-monitor reads the EDID through the software master: see I2CBus.     *)
Monitor ==
  /\ pc = "run" /\ cmd.name = "i2c-monitor"
  /\ End("ok")
  /\ UNCHANGED <<mcVars, serverVars, cmd, engine, lit>>

-----------------------------------------------------------------------------
(* output                                                                  *)

Switched(l, o, on) ==
  CASE o = "dac1" /\ on  -> Shining
    [] o = "dac1" /\ ~on -> [enabled |-> FALSE, forced |-> TRUE, powered |-> FALSE]
    [] o = "dac2" /\ on  -> [enabled |-> TRUE, forced |-> TRUE, powered |-> FALSE]
    [] o = "dac2" /\ ~on -> [l EXCEPT !.enabled = FALSE]
    [] o \in {"tmds1", "tmds2", "crtc1"} -> [l EXCEPT !.enabled = on, !.powered = on]
    [] o \in {"lvds", "cur1"}           -> [l EXCEPT !.enabled = on]

OutputSet ==
  /\ pc = "run" /\ cmd.name = "output"
  /\ IF cmd.output \in ToolOutputs
     THEN /\ lit' = [lit EXCEPT ![cmd.output] = Switched(@, cmd.output, cmd.on)]
          /\ End("ok")
     ELSE End("fatal") /\ UNCHANGED lit
  /\ UNCHANGED <<mcVars, serverVars, cmd, engine>>

-----------------------------------------------------------------------------
(* dumpimg, loadimg                                                        *)

Imaging == cmd.name \in {"dumpimg", "loadimg"}

(* No location, or FB_END equal to FB_LOCATION, is fatal.                  *)
ImageFound ==
  /\ pc = "run" /\ Imaging
  /\ IF cmd.image.len = 0 THEN End("fatal")
     ELSE /\ pc' = "image"
          /\ local' = [local EXCEPT !.left = cmd.image.len, !.input = cmd.image.input]
          /\ UNCHANGED exit
  /\ UNCHANGED <<mcVars, serverVars, cmd, engine, lit>>

(* write takes at least a byte; read gives at least a byte, or none at the *)
(* end of the input.                                                       *)
MoveImage(n) ==
  /\ pc = "image" /\ local.left > 0 /\ n <= local.left
  /\ \/ cmd.name = "dumpimg" /\ n > 0
     \/ cmd.name = "loadimg" /\ n <= local.input /\ (n > 0 \/ local.input = 0)
  /\ local' = [local EXCEPT !.left = @ - n,
                            !.input = IF cmd.name = "loadimg" THEN @ - n ELSE @]
  /\ UNCHANGED <<mcVars, serverVars, pc, cmd, engine, lit, exit>>

ImageMoved ==
  /\ pc = "image" /\ local.left = 0
  /\ End("ok")
  /\ UNCHANGED <<mcVars, serverVars, cmd, engine, lit>>

ImageFails ==
  /\ pc = "image" /\ local.left > 0
  /\ End("fatal")
  /\ UNCHANGED <<mcVars, serverVars, cmd, engine, lit>>

-----------------------------------------------------------------------------
ToolGoesOn ==
  \/ \E m \in Machines : MapRadeonMem(m)
  \/ Usage \/ Sweep
  \/ ToolIndex \/ ToolData \/ ToolPlain \/ PlanEnds
  \/ I2cStart \/ (\E s \in {"done", "wait", "other"} : I2cPoll(s)) \/ Monitor
  \/ OutputSet
  \/ ImageFound \/ (\E n \in 0 .. MaxImage : MoveImage(n)) \/ ImageMoved

Next == \/ ServerNext
        \/ \E c \in Commands : Main(c)
        \/ ToolGoesOn \/ ImageFails

(* The kernel runs the tool; nothing makes a user start it, a file fail,   *)
(* or a VT switch happen.                                                  *)
Spec     == Init /\ [][Next]_vars
FairSpec == Spec /\ WF_vars(ToolGoesOn)

-----------------------------------------------------------------------------
(* The console gets back the memory map it had when the server saved it    *)
(* (avivo_save_state, avivo_restore_state), whatever the tool reads or     *)
(* sets meanwhile, unless the two wrote the index over each other.         *)
MapGivenBack ==
  [][server = "restoring" /\ server' = "restored" /\ ~clash => mc'[Map] = found]_vars

(* The sweeps of radeon_cmd_regs stay away from the addresses its comments *)
(* call harmful, and the two that skip the known registers from the data   *)
(* port of the memory controller, whose index they do not set.             *)
Harmful == {\h40c8, \h4ff8, \h4ffc} \cup \h7ff8 .. \h8000

SafeSweeps ==
  pc = "sweep" =>
    LET loop == Loops(cmd.set)[local.at]
        reads(a) == loop[1] <= a /\ a < loop[2] /\ (a - loop[1]) % 4 = 0
    IN  /\ \A a \in Harmful : ~reads(a)
        /\ cmd.set # "all" => ~reads(\h74)

(* Every command ends, except loading an image whose input is too short:   *)
(* read returns 0 for ever, and radeon_load_img has no test for it.        *)
AtEof == pc = "image" /\ cmd.name = "loadimg" /\ local.input = 0 /\ local.left > 0
ToolEnds == []<>(pc = "none" \/ AtEof)

(* "output <output> <enable|disable> - turns the specified output on or    *)
(* off" (usage): after an enable the output is enabled, powered and not    *)
(* forced to a constant.                                                   *)
EnableTurnsOn ==
  exit = "ok" /\ cmd.name = "output" /\ cmd.on => lit[cmd.output] = Shining
=============================================================================
