-------------------------- MODULE AvivoToolProofs --------------------------
(***************************************************************************)
(* Proofs about AvivoTool, for any registers of the memory controller, any *)
(* command lines and any machines: what two programs that share the index  *)
(* and data registers may rely on as long as their accesses do not         *)
(* overlap, and which addresses a sweep over the registers leaves out.     *)
(***************************************************************************)
EXTENDS AvivoTool, SequenceTheorems, TLAPS

(* Without a clash an access under way is the only one, and the index is   *)
(* still the one it wrote.                                                 *)
PairInv ==
  /\ DOMAIN access = Programs
  /\ DOMAIN mc = McRegs
  /\ \/ clash
     \/ /\ mc = meant
        /\ \A p \in Programs : ~Idle(p) =>
             /\ index = [reg |-> access[p].reg, write |-> access[p].op = "set"]
             /\ \A q \in Programs : ~Idle(q) => q = p

(* The server's access is the one its step stands for, and what it saved   *)
(* is what it found.                                                       *)
SavedAsFound == clash \/ saved = found

ServerInv ==
  /\ server \in {"console", "saving", "saved", "mapping", "running", "restoring", "restored"}
  /\ server \in {"console", "saved", "running", "restored"} => Idle("server")
  /\ server = "saving" => /\ access["server"] = Access("get", Map, Mine)
                          /\ clash \/ mc[Map] = found
  /\ server = "mapping" => access["server"] = Access("set", Map, Mine)
  /\ server = "restoring" => access["server"] = Access("set", Map, saved)
  /\ server \in {"saved", "mapping", "running", "restoring"} => SavedAsFound

-----------------------------------------------------------------------------
(* Both halves of an access, and the firmware's, keep the pair in order.   *)
LEMMA WriteIndexKeeps ==
  ASSUME PairInv, NEW p \in Programs, NEW a, WriteIndex(p, a)
  PROVE  PairInv'
<1> USE DEF PairInv, WriteIndex, Idle
<1>1. DOMAIN access' = Programs /\ DOMAIN mc' = McRegs
  OBVIOUS
<1>2. CASE clash'
  BY <1>1, <1>2
<1>3. CASE ~clash'
  <2>1. ~clash /\ \A q \in Programs \ {p} : Idle(q)
    BY <1>3
  <2>2. mc' = meant'
    BY <2>1
  <2>3. \A q \in Programs \ {p} : access'[q] = access[q]
    OBVIOUS
  <2>4. access'[p] = a /\ index' = [reg |-> a.reg, write |-> a.op = "set"]
    OBVIOUS
  <2> QED BY <1>1, <2>1, <2>2, <2>3, <2>4
<1> QED BY <1>2, <1>3

LEMMA MoveDataKeeps ==
  ASSUME PairInv, NEW p \in Programs, MoveData(p)
  PROVE  PairInv'
<1> USE DEF PairInv, MoveData, Idle
<1>1. DOMAIN access' = Programs /\ DOMAIN mc' = McRegs
  OBVIOUS
<1>2. CASE clash
  BY <1>1, <1>2
<1>3. CASE ~clash
  <2>1. /\ mc = meant
        /\ index = [reg |-> access[p].reg, write |-> access[p].op = "set"]
        /\ \A q \in Programs : ~Idle(q) => q = p
    BY <1>3
  <2>2. mc' = meant'
    BY <2>1
  <2>3. \A q \in Programs : access'[q] = NoAccess
    BY <2>1
  <2> QED BY <1>1, <2>2, <2>3
<1> QED BY <1>2, <1>3

LEMMA FirmwareKeeps ==
  ASSUME PairInv, NEW r, NEW v, FirmwareSets(r, v)
  PROVE  PairInv'
BY DEF PairInv, FirmwareSets, Idle

-----------------------------------------------------------------------------
(* The initial states are as the invariants say.                           *)
LEMMA InitHolds == Init => PairInv /\ ServerInv
<1> SUFFICES ASSUME Init PROVE PairInv /\ ServerInv
  OBVIOUS
<1> USE ToolAssumption DEF Init, McInit, Idle
<1>1. PairInv
  BY DEF PairInv
<1>2. ServerInv
  BY DEF ServerInv
<1> QED BY <1>1, <1>2

(* A step of the tool that does not touch the pair.                        *)
Elsewhere == UNCHANGED <<mcVars, serverVars>>

LEMMA ElsewhereKeeps == PairInv /\ ServerInv /\ Elsewhere => PairInv' /\ ServerInv'
<1> SUFFICES ASSUME PairInv, ServerInv, Elsewhere PROVE PairInv' /\ ServerInv'
  OBVIOUS
<1> USE DEF Elsewhere, mcVars, serverVars, Idle
<1>1. PairInv'
  BY DEF PairInv
<1>2. ServerInv'
  BY DEF ServerInv, SavedAsFound
<1> QED BY <1>1, <1>2

(* The tool's steps are the two halves of an access, or elsewhere.         *)
LEMMA ToolSteps ==
  ASSUME ToolGoesOn \/ ImageFails \/ (\E c \in Commands : Main(c))
  PROVE  \/ Elsewhere
         \/ (\E a : WriteIndex("tool", a)) /\ UNCHANGED serverVars
         \/ MoveData("tool") /\ UNCHANGED serverVars
<1> USE DEF Elsewhere
<1>1. CASE \E c \in Commands : Main(c)
  BY <1>1 DEF Main
<1>2. CASE \E m \in Machines : MapRadeonMem(m)
  BY <1>2 DEF MapRadeonMem
<1>3. CASE Usage \/ Sweep \/ ToolPlain \/ PlanEnds \/ I2cStart \/ Monitor \/ OutputSet
  BY <1>3 DEF Usage, Sweep, ToolPlain, PlanEnds, I2cStart, Monitor, OutputSet
<1>4. CASE ToolIndex
  <2>1. \E a : WriteIndex("tool", a)
    BY <1>4 DEF ToolIndex
  <2> QED BY <1>4, <2>1 DEF ToolIndex
<1>5. CASE ToolData
  BY <1>5 DEF ToolData
<1>6. CASE \E s \in {"done", "wait", "other"} : I2cPoll(s)
  BY <1>6 DEF I2cPoll
<1>7. CASE ImageFound \/ ImageMoved \/ ImageFails
  BY <1>7 DEF ImageFound, ImageMoved, ImageFails
<1>8. CASE \E n \in 0 .. MaxImage : MoveImage(n)
  BY <1>8 DEF MoveImage
<1> QED BY <1>1, <1>2, <1>3, <1>4, <1>5, <1>6, <1>7, <1>8 DEF ToolGoesOn

(* Whatever the tool does, the server's access and what it saved stay.     *)
LEMMA ToolKeepsServer ==
  ASSUME PairInv, ServerInv, ToolGoesOn \/ ImageFails \/ (\E c \in Commands : Main(c))
  PROVE  PairInv' /\ ServerInv'
<1>1. "tool" \in Programs /\ "server" \in Programs /\ "tool" # "server"
  BY ToolAssumption
<1>2. CASE Elsewhere
  BY <1>2, ElsewhereKeeps
<1>3. CASE (\E a : WriteIndex("tool", a)) /\ UNCHANGED serverVars
  <2>1. PICK a : WriteIndex("tool", a)
    BY <1>3
  <2>2. PairInv'
    BY <1>1, <2>1, WriteIndexKeeps
  <2>3. access'["server"] = access["server"] /\ mc' = mc /\ (clash => clash')
    BY <1>1, <2>1 DEF WriteIndex, PairInv
  <2>4. ServerInv'
    BY <1>3, <2>3 DEF ServerInv, SavedAsFound, serverVars, Idle
  <2> QED BY <2>2, <2>4
<1>4. CASE MoveData("tool") /\ UNCHANGED serverVars
  <2>1. PairInv'
    BY <1>1, <1>4, MoveDataKeeps
  <2>2. access'["server"] = access["server"] /\ clash' = clash
    BY <1>1, <1>4 DEF MoveData, PairInv
  <2>3. ~Idle("server") => clash
    BY <1>1, <1>4 DEF MoveData, PairInv
  <2>4. access["server"] = Access("get", Map, Mine) => ~Idle("server")
    BY DEF Access, Idle, NoAccess
  <2>5. ServerInv'
    BY <1>4, <2>2, <2>3, <2>4 DEF ServerInv, SavedAsFound, serverVars, Idle
  <2> QED BY <2>1, <2>5
<1> QED BY <1>2, <1>3, <1>4, ToolSteps

(* The server's own steps go from one of its conditions to the next.       *)
LEMMA ServerKeeps == ASSUME PairInv, ServerInv, ServerNext PROVE PairInv' /\ ServerInv'
<1>1. "server" \in Programs /\ Map \in McRegs
  BY ToolAssumption
<1>2. CASE SaveMap
  <2>1. PairInv'
    BY <1>1, <1>2, WriteIndexKeeps DEF SaveMap
  <2>2. access'["server"] = Access("get", Map, Mine) /\ mc' = mc
    BY <1>1, <1>2 DEF SaveMap, WriteIndex, PairInv
  <2> QED BY <1>2, <2>1, <2>2 DEF SaveMap, ServerInv
<1>3. CASE MapSaved
  <2>1. PairInv'
    BY <1>1, <1>3, MoveDataKeeps DEF MapSaved
  <2>2. access'["server"] = NoAccess /\ clash' = clash
    BY <1>1, <1>3 DEF MapSaved, MoveData, PairInv
  <2>3. access["server"] = Access("get", Map, Mine) /\ ~Idle("server")
    BY <1>3 DEF MapSaved, ServerInv, MoveData
  <2>4. ~clash => index.reg = Map
    BY <1>1, <2>3 DEF PairInv, Access
  <2>5. SavedAsFound'
    BY <1>3, <2>2, <2>4 DEF MapSaved, ServerInv, SavedAsFound, Got
  <2> QED BY <1>3, <2>1, <2>2, <2>5 DEF MapSaved, ServerInv, Idle
<1>4. CASE SetupMap
  <2>1. PairInv'
    BY <1>1, <1>4, WriteIndexKeeps DEF SetupMap
  <2>2. access'["server"] = Access("set", Map, Mine) /\ (clash => clash')
    BY <1>1, <1>4 DEF SetupMap, WriteIndex, PairInv
  <2> QED BY <1>4, <2>1, <2>2 DEF SetupMap, ServerInv, SavedAsFound
<1>5. CASE RestoreMap
  <2>1. PairInv'
    BY <1>1, <1>5, WriteIndexKeeps DEF RestoreMap
  <2>2. access'["server"] = Access("set", Map, saved) /\ (clash => clash')
    BY <1>1, <1>5 DEF RestoreMap, WriteIndex, PairInv
  <2> QED BY <1>5, <2>1, <2>2 DEF RestoreMap, ServerInv, SavedAsFound
<1>6. CASE MapWritten
  <2>1. PairInv'
    BY <1>1, <1>6, MoveDataKeeps DEF MapWritten
  <2>2. access'["server"] = NoAccess /\ clash' = clash
    BY <1>1, <1>6 DEF MapWritten, MoveData, PairInv
  <2> QED BY <1>6, <2>1, <2>2 DEF MapWritten, ServerInv, SavedAsFound, Idle
<1>7. CASE \E v \in Values : ConsoleRuns(v)
  <2>1. PairInv'
    BY <1>7, FirmwareKeeps DEF ConsoleRuns
  <2>2. ServerInv'
    BY <1>7 DEF ConsoleRuns, FirmwareSets, ServerInv, Idle
  <2> QED BY <2>1, <2>2
<1> QED BY <1>2, <1>3, <1>4, <1>5, <1>6, <1>7 DEF ServerNext

LEMMA PairStep == PairInv /\ ServerInv /\ [Next]_vars => PairInv' /\ ServerInv'
<1> SUFFICES ASSUME PairInv, ServerInv, [Next]_vars PROVE PairInv' /\ ServerInv'
  OBVIOUS
<1>1. CASE UNCHANGED vars
  BY <1>1, ElsewhereKeeps DEF vars, Elsewhere
<1>2. CASE Next
  BY <1>2, ToolKeepsServer, ServerKeeps DEF Next
<1> QED BY <1>1, <1>2

-----------------------------------------------------------------------------
(* Every value lands in the register it was meant for unless an index was  *)
(* overwritten.                                                            *)
THEOREM SetsLand == Spec => []LandsWhereMeant
<1>1. Init => PairInv /\ ServerInv
  BY InitHolds
<1>2. PairInv => LandsWhereMeant
  BY DEF PairInv, LandsWhereMeant
<1> QED BY <1>1, <1>2, PairStep, PTL DEF Spec

(* A restore that follows accesses that did not overlap gives the console  *)
(* the memory map it had.                                                  *)
THEOREM MapComesBack == Spec => MapGivenBack
<1>1. Init => PairInv /\ ServerInv
  BY InitHolds
<1>2. PairInv /\ ServerInv /\ [Next]_vars =>
        [server = "restoring" /\ server' = "restored" /\ ~clash => mc'[Map] = found]_vars
  <2> SUFFICES ASSUME PairInv, ServerInv, [Next]_vars,
                      server = "restoring", server' = "restored", ~clash
               PROVE  mc'[Map] = found
    OBVIOUS
  <2>1. "server" \in Programs /\ Map \in McRegs
    BY ToolAssumption
  <2>2. MapWritten
    <3>1. server' # server
      OBVIOUS
    <3>2. Next
      BY <3>1 DEF vars, serverVars
    <3>3. ~(ToolGoesOn \/ ImageFails \/ \E c \in Commands : Main(c))
      BY <3>1, ToolSteps DEF Elsewhere, serverVars
    <3>4. ServerNext
      BY <3>2, <3>3 DEF Next
    <3> QED
      BY <3>4 DEF ServerNext, SaveMap, MapSaved, SetupMap, RestoreMap, ConsoleRuns
  <2>3. access["server"] = Access("set", Map, saved) /\ saved = found
    BY DEF ServerInv, SavedAsFound
  <2>4. index = [reg |-> Map, write |-> TRUE]
    <3>1. access["server"].reg = Map /\ access["server"].op = "set"
      BY <2>3 DEF Access
    <3>2. ~Idle("server")
      BY <2>2 DEF MapWritten, MoveData
    <3>3. index = [reg |-> access["server"].reg, write |-> access["server"].op = "set"]
      BY <2>1, <3>2 DEF PairInv
    <3> QED BY <3>1, <3>3
  <2> QED BY <2>1, <2>2, <2>3, <2>4 DEF MapWritten, MoveData, PairInv, Access
<1> QED BY <1>1, <1>2, PairStep, PTL DEF Spec, MapGivenBack

-----------------------------------------------------------------------------
(* A sweep is one of the three, and in one of its loops; an access under   *)
(* way is one of a command of accesses.                                    *)
SweepInv ==
  /\ "at" \in DOMAIN local
  /\ pc \in {"none", "map"} => local.at = 1
  /\ pc = "run" /\ IsSweep(cmd) => local.at = 1
  /\ pc = "sweep" => IsSweep(cmd) /\ local.at \in 1 .. Len(Loops(cmd.set))
  /\ ~Idle("tool") => Accessing /\ More /\ Now[2].space = "mc"

(* Nothing of it changes but the loop, which stays or becomes the next.    *)
LEMMA SweepStep ==
  ASSUME SweepInv, Sweep
  PROVE  SweepInv'
<1> USE DEF SweepInv, Sweep, End, Step, Fresh
<1>1. Len(Loops(cmd.set)) \in Nat /\ Len(Loops(cmd.set)) >= 1
  BY DEF Loops, AllLoops, UnknownLoops
<1>2. IsSweep(cmd) /\ cmd' = cmd /\ access' = access /\ Idle("tool")
  BY DEF Accessing, mcVars
<1>3. Idle("tool")' /\ IsSweep(cmd)'
  BY <1>2 DEF Idle
<1>4. CASE pc = "run"
  <2>1. pc' = "sweep" /\ local' = local /\ local.at = 1
    BY <1>2, <1>4
  <2> QED BY <1>1, <1>2, <1>3, <2>1
<1>5. CASE pc = "sweep" /\ local.at < Len(Loops(cmd.set))
  <2>1. pc' = "sweep" /\ local'.at = local.at + 1 /\ "at" \in DOMAIN local'
    BY <1>5
  <2> QED BY <1>1, <1>2, <1>3, <1>5, <2>1
<1>6. CASE pc = "sweep" /\ ~(local.at < Len(Loops(cmd.set)))
  <2>1. pc' = "none" /\ local'.at = 1 /\ "at" \in DOMAIN local'
    BY <1>6
  <2> QED BY <1>3, <2>1
<1> QED BY <1>4, <1>5, <1>6

(* The commands that neither sweep nor access leave with Fresh counters or *)
(* go where the counters do not matter.                                    *)
LEMMA OthersKeepSweep ==
  ASSUME SweepInv,
         \/ \E c \in Commands : Main(c)
         \/ \E m \in Machines : MapRadeonMem(m)
         \/ Usage \/ I2cStart \/ Monitor \/ OutputSet \/ ImageFound \/ ImageMoved
         \/ ImageFails
         \/ \E st \in {"done", "wait", "other"} : I2cPoll(st)
         \/ \E n \in 0 .. MaxImage : MoveImage(n)
  PROVE  SweepInv'
<1> USE DEF SweepInv
<1>1. "at" \in DOMAIN Fresh /\ Fresh.at = 1
  BY SMTT(30) DEF Fresh
<1>2. access' = access
  BY DEF Main, MapRadeonMem, Usage, I2cStart, Monitor, OutputSet, ImageFound, ImageMoved,
         ImageFails, I2cPoll, MoveImage, mcVars
<1>3. Idle("tool")
  BY DEF Main, MapRadeonMem, Usage, I2cStart, Monitor, OutputSet, ImageFound, ImageMoved,
         ImageFails, I2cPoll, MoveImage, Accessing, Imaging
<1>4. Idle("tool")'
  BY <1>2, <1>3 DEF Idle
<1>5. CASE \E c \in Commands : Main(c)
  BY <1>1, <1>4, <1>5 DEF Main, End
<1>6. CASE \E m \in Machines : MapRadeonMem(m)
  <2>1. pc = "map" /\ pc' \in {"run", "none"} /\ local' \in {local, Fresh}
    BY <1>6 DEF MapRadeonMem, End, Step
  <2> QED BY <1>1, <1>4, <2>1
<1>7. CASE Usage \/ Monitor \/ OutputSet \/ ImageMoved \/ ImageFails
  BY <1>1, <1>4, <1>7 DEF Usage, Monitor, OutputSet, ImageMoved, ImageFails, End
<1>8. CASE I2cStart
  BY <1>4, <1>8 DEF I2cStart, Step
<1>9. CASE ImageFound
  <2>1. \/ pc' = "none" /\ local' = Fresh
        \/ pc' = "image" /\ DOMAIN local' = DOMAIN local
    BY <1>9 DEF ImageFound, End
  <2> QED BY <1>1, <1>4, <2>1
<1>10. CASE \E st \in {"done", "wait", "other"} : I2cPoll(st)
  <2>1. \/ pc' = "none" /\ local' = Fresh
        \/ pc' = "read" /\ local' = Fresh
        \/ pc' \in {"write", "read"} /\ DOMAIN local' = DOMAIN local
    BY <1>10 DEF I2cPoll, Turn, End
  <2> QED BY <1>1, <1>4, <2>1
<1>11. CASE \E n \in 0 .. MaxImage : MoveImage(n)
  <2>1. pc' = "image" /\ DOMAIN local' = DOMAIN local
    BY <1>11 DEF MoveImage
  <2> QED BY <1>4, <2>1
<1> QED BY <1>5, <1>6, <1>7, <1>8, <1>9, <1>10, <1>11

LEMMA SweepInvStep == PairInv /\ SweepInv /\ [Next]_vars => SweepInv'
<1> SUFFICES ASSUME PairInv, SweepInv, [Next]_vars PROVE SweepInv'
  OBVIOUS
<1>1. DOMAIN access = {"server", "tool"}
  BY ToolAssumption DEF PairInv
<1>2. CASE ServerNext \/ UNCHANGED vars
  <2>1. access'["tool"] = access["tool"] /\ UNCHANGED toolVars
    BY <1>1, <1>2 DEF ServerNext, SaveMap, MapSaved, SetupMap, RestoreMap, MapWritten,
       ConsoleRuns, WriteIndex, MoveData, FirmwareSets, vars, mcVars
  <2> QED BY <2>1 DEF SweepInv, toolVars, IsSweep, Idle, Accessing, Now, More
<1>3. CASE Sweep
  BY <1>3, SweepStep
<1>4. CASE ToolIndex
  <2>1. UNCHANGED toolVars /\ Accessing /\ More /\ Now[2].space = "mc"
    BY <1>4 DEF ToolIndex
  <2> QED BY <2>1 DEF SweepInv, toolVars, IsSweep, Accessing, Now, More
<1>5. CASE ToolData
  <2>1. ~Idle("tool") /\ Idle("tool")' /\ cmd' = cmd /\ pc' = pc
    BY <1>1, <1>5 DEF ToolData, MoveData, Idle
  <2>2. Accessing /\ "at" \in DOMAIN local'
    BY <1>5, <2>1 DEF ToolData, SweepInv
  <2> QED BY <2>1, <2>2 DEF SweepInv, Accessing, IsSweep
<1>6. CASE ToolPlain
  <2>1. Accessing /\ cmd' = cmd /\ pc' = pc /\ access' = access /\ Now[2].space = "mmio"
    BY <1>6 DEF ToolPlain, mcVars
  <2>2. Idle("tool")'
    BY <2>1 DEF SweepInv, Idle
  <2>3. "at" \in DOMAIN local'
    BY <1>6 DEF ToolPlain, SweepInv
  <2> QED BY <2>1, <2>2, <2>3 DEF SweepInv, Accessing, IsSweep
<1>7. CASE PlanEnds
  <2>1. access' = access /\ pc' = "none" /\ local' = Fresh /\ ~More
    BY <1>7 DEF PlanEnds, End, mcVars
  <2>2. Idle("tool")
    BY <2>1 DEF SweepInv
  <2> QED BY <2>1, <2>2 DEF SweepInv, Idle, Fresh
<1> QED BY <1>2, <1>3, <1>4, <1>5, <1>6, <1>7, OthersKeepSweep DEF Next, ToolGoesOn

(* None of the loops comes across a harmful address, or one to be skipped. *)
LEMMA LoopsAreSafe ==
  ASSUME NEW sweep \in Sweeps, NEW k \in 1 .. Len(Loops(sweep))
  PROVE  LET loop == Loops(sweep)[k]
             reads(a) == loop[1] <= a /\ a < loop[2] /\ (a - loop[1]) % 4 = 0
         IN  /\ \A a \in Harmful : ~reads(a)
             /\ sweep # "all" => ~reads(\h74)
<1> USE DEF Loops, Harmful
<1>1. CASE sweep = "all"
  <2>1. k \in {1, 2, 3}
    BY <1>1 DEF AllLoops
  <2> QED BY <1>1, <2>1 DEF AllLoops
<1>2. CASE sweep # "all"
  <2>1. k \in {1, 2, 3, 4, 5, 6, 7, 8, 9, 10, 11, 12}
    BY <1>2 DEF UnknownLoops
  <2> QED BY <1>2, <2>1 DEF UnknownLoops
<1> QED BY <1>1, <1>2

(* No sweep over the registers reads an address that the comments of       *)
(* radeon_cmd_regs warn of, whatever commands were given before.           *)
THEOREM SweepsAreSafe == Spec => []SafeSweeps
<1>1. Init => PairInv /\ ServerInv /\ SweepInv
  <2> SUFFICES ASSUME Init PROVE SweepInv
    BY InitHolds
  <2> QED BY ToolAssumption DEF Init, McInit, SweepInv, Fresh, Idle
<1>2. SweepInv => SafeSweeps
  BY LoopsAreSafe DEF SweepInv, SafeSweeps, IsSweep
<1> QED BY <1>1, <1>2, PairStep, SweepInvStep, PTL DEF Spec

-----------------------------------------------------------------------------
(* Types.  The counter of a plan or loop begins at 1, which is what makes  *)
(* the access at it one of the plan's.                                     *)
TypeInv == TypeOK /\ local.at >= 1

LEMMA WriteIndexTypes ==
  ASSUME McTypeOK, NEW p \in Programs, NEW a \in Accesses, WriteIndex(p, a)
  PROVE  McTypeOK'
<1> USE DEF McTypeOK, WriteIndex
<1>1. a.reg \in McRegs
  BY DEF Accesses
<1>2. index' \in [reg : McRegs, write : BOOLEAN]
  BY <1>1
<1>3. access' \in [Programs -> Accesses \cup {NoAccess}]
  OBVIOUS
<1>4. clash' \in BOOLEAN
  OBVIOUS
<1> QED BY <1>2, <1>3, <1>4

LEMMA MoveDataTypes ==
  ASSUME McTypeOK, NEW p \in Programs, MoveData(p)
  PROVE  McTypeOK'
<1> USE DEF McTypeOK, MoveData
<1>1. access[p] \in Accesses
  BY DEF Idle
<1>2. access[p].reg \in McRegs /\ access[p].value \in Values /\ index.reg \in McRegs
  BY <1>1 DEF Accesses
<1>3. mc' \in [McRegs -> Values]
  BY <1>2
<1>4. meant' \in [McRegs -> Values]
  BY <1>2
<1>5. access' \in [Programs -> Accesses \cup {NoAccess}]
  OBVIOUS
<1> QED BY <1>3, <1>4, <1>5

LEMMA FirmwareTypes ==
  ASSUME McTypeOK, NEW r, NEW v \in Values, FirmwareSets(r, v)
  PROVE  McTypeOK'
BY DEF McTypeOK, FirmwareSets

(* What a command line is known to hold, by its name.                      *)
LEMMA CommandFields ==
  ASSUME NEW c \in CommandLine
  PROVE  /\ c.name = "regmatch" => c.regs \in Seq(Register)
         /\ c.name = "regset" => c.regs \in Seq(Register) /\ c.value \in Values
         /\ c.name = "output" => c.on \in BOOLEAN
         /\ c.name \in {"dumpimg", "loadimg"} => c.image \in Image
BY DEF CommandLine

(* A plan is made of reads and writes of registers.                        *)
LEMMA GetsTypes ==
  ASSUME NEW regs \in Seq(Register), NEW k \in Nat \ {0}, k <= Len(Gets(regs))
  PROVE  Gets(regs)[k][1] \in {"get", "set"} /\ Gets(regs)[k][2] \in Register
<1>1. Len(Gets(regs)) = Len(regs) /\ DOMAIN regs = 1 .. Len(regs) /\ Len(regs) \in Nat
  BY LenProperties DEF Gets
<1>2. regs[k] \in Register
  BY <1>1, ElementOfSeq
<1>3. Gets(regs)[k] = <<"get", regs[k]>>
  BY <1>1 DEF Gets
<1> QED BY <1>2, <1>3

LEMMA Third ==
  ASSUME NEW n \in Nat, NEW k \in 1 .. 3 * n
  PROVE  (k + 2) \div 3 \in 1 .. n
OBVIOUS

LEMMA PlanTypes ==
  ASSUME NEW c \in CommandLine, NEW k \in Nat \ {0}, k <= Len(Plan(c)),
         c.name \in {"regs", "regmatch", "regset"}
  PROVE  Plan(c)[k][1] \in {"get", "set"} /\ Plan(c)[k][2] \in Register
<1>1. CASE c.name = "regs"
  <2>1. McEntries \in Seq(Register)
    <3>1. DOMAIN McList = 1 .. Len(McList) /\ Len(McList) \in Nat
      BY ToolAssumption, LenProperties
    <3>2. \A j \in 1 .. Len(McList) : [space |-> "mc", reg |-> McList[j]] \in Register
      BY ToolAssumption DEF Register
    <3> DEFINE entry(j) == [space |-> "mc", reg |-> McList[j]]
    <3>3. McEntries = [j \in 1 .. Len(McList) |-> entry(j)]
      BY <3>1 DEF McEntries
    <3>4. \A j \in 1 .. Len(McList) : entry(j) \in Register
      BY <3>2
    <3> HIDE DEF entry
    <3> QED BY <3>1, <3>3, <3>4
  <2>2. Plan(c) = Gets(McEntries) \/ Plan(c) = <<>>
    BY <1>1 DEF Plan
  <2>3. Len(<<>>) = 0
    BY EmptySeq
  <2> QED BY <2>1, <2>2, <2>3, GetsTypes
<1>2. CASE c.name = "regmatch"
  BY <1>2, CommandFields, GetsTypes DEF Plan
<1>3. CASE c.name = "regset"
  <2> DEFINE n == Len(c.regs)
  <2>1. c.regs \in Seq(Register) /\ n \in Nat
    BY <1>3, CommandFields, LenProperties
  <2>2. Plan(c) = [j \in 1 .. 3 * n |-> <<IF j % 3 = 2 THEN "set" ELSE "get",
                                         c.regs[(j + 2) \div 3]>>]
    BY <1>3 DEF Plan
  <2>3. Len(Plan(c)) = 3 * n
    BY <2>1, <2>2
  <2>4. k \in 1 .. 3 * n
    BY <2>1, <2>3
  <2>5. (k + 2) \div 3 \in 1 .. n
    BY <2>1, <2>4, Third
  <2>6. c.regs[(k + 2) \div 3] \in Register
    BY <2>1, <2>5, ElementOfSeq
  <2>7. Plan(c)[k] = <<IF k % 3 = 2 THEN "set" ELSE "get", c.regs[(k + 2) \div 3]>>
    BY <2>2, <2>4
  <2> QED BY <2>6, <2>7
<1> QED BY <1>1, <1>2, <1>3

(* The pair's types, whichever program is at it.                           *)
LEMMA ServerTypes ==
  ASSUME TypeInv, ServerNext
  PROVE  TypeInv'
<1>1. "server" \in Programs /\ Map \in McRegs /\ Mine \in Values
  BY ToolAssumption
<1>2. McTypeOK /\ saved \in Values /\ found \in Values
  BY DEF TypeInv, TypeOK
<1>3. mc[Map] \in Values /\ Got \in Values
  BY <1>1, <1>2 DEF McTypeOK, Got
<1>4. /\ Access("get", Map, Mine) \in Accesses
      /\ Access("set", Map, Mine) \in Accesses
      /\ Access("set", Map, saved) \in Accesses
  BY <1>1, <1>2 DEF Access, Accesses
<1>5. McTypeOK'
  <2>1. CASE SaveMap \/ SetupMap \/ RestoreMap
    BY <1>1, <1>2, <1>4, <2>1, WriteIndexTypes DEF SaveMap, SetupMap, RestoreMap
  <2>2. CASE MapSaved \/ MapWritten
    BY <1>1, <1>2, <2>2, MoveDataTypes DEF MapSaved, MapWritten
  <2>3. CASE \E v \in Values : ConsoleRuns(v)
    BY <1>2, <2>3, FirmwareTypes DEF ConsoleRuns
  <2> QED BY <2>1, <2>2, <2>3 DEF ServerNext
<1>6. /\ server' \in {"console", "saving", "saved", "mapping", "running", "restoring", "restored"}
      /\ saved' \in Values /\ found' \in Values
      /\ UNCHANGED toolVars
  BY <1>2, <1>3 DEF ServerNext, SaveMap, MapSaved, SetupMap, RestoreMap, MapWritten, ConsoleRuns
<1> QED BY <1>5, <1>6 DEF TypeInv, TypeOK, toolVars

(* The tool's own variables, and the pair when it has an access.           *)
ToolTypes ==
  /\ pc \in {"none", "map", "run", "sweep", "image", "write", "read"}
  /\ cmd \in Commands
  /\ local \in Locals /\ local.at >= 1
  /\ engine \in Engine
  /\ lit \in [ToolOutputs -> Lit]
  /\ exit \in Exits

LEMMA FreshTypes == Fresh \in Locals /\ Fresh.at >= 1
BY ToolAssumption DEF Fresh, Locals

LEMMA LocalFields ==
  ASSUME local \in Locals
  PROVE  /\ local.at \in Nat /\ local.left \in 0 .. MaxImage /\ local.input \in 0 .. MaxImage
         /\ local.polls \in 0 .. 10 /\ local.ready \in 0 .. 2
BY DEF Locals

LEMMA NextLocal ==
  ASSUME local \in Locals
  PROVE  [local EXCEPT !.at = @ + 1] \in Locals /\ [local EXCEPT !.at = @ + 1].at >= 1
BY DEF Locals

LEMMA ImageLocal ==
  ASSUME local \in Locals, local.at >= 1, NEW n \in 0 .. MaxImage, NEW m \in 0 .. MaxImage
  PROVE  LET l == [local EXCEPT !.left = n, !.input = m] IN l \in Locals /\ l.at >= 1
BY DEF Locals

LEMMA PollLocal ==
  ASSUME local \in Locals, local.at >= 1, NEW n \in 0 .. 10, NEW m \in 0 .. 2
  PROVE  LET l == [local EXCEPT !.polls = n, !.ready = m] IN l \in Locals /\ l.at >= 1
BY DEF Locals

LEMMA LitTypes ==
  ASSUME NEW l \in Lit, NEW o \in ToolOutputs, NEW on \in BOOLEAN
  PROVE  Switched(l, o, on) \in Lit
<1>1. CASE o = "dac1"
  BY <1>1 DEF Switched, Shining, Lit
<1>2. CASE o = "dac2"
  <2>1. [l EXCEPT !.enabled = FALSE] \in Lit
    BY DEF Lit
  <2>2. [enabled |-> TRUE, forced |-> TRUE, powered |-> FALSE] \in Lit
    BY DEF Lit
  <2> QED BY <1>2, <2>1, <2>2 DEF Switched
<1>3. CASE o \in {"tmds1", "tmds2", "crtc1"}
  <2>1. [l EXCEPT !.enabled = on, !.powered = on] \in Lit
    BY DEF Lit
  <2>2. Switched(l, o, on) = [l EXCEPT !.enabled = on, !.powered = on]
    BY <1>3 DEF Switched
  <2> QED BY <2>1, <2>2
<1>4. CASE o \in {"lvds", "cur1"}
  <2>1. [l EXCEPT !.enabled = on] \in Lit
    BY DEF Lit
  <2>2. Switched(l, o, on) = [l EXCEPT !.enabled = on]
    BY <1>4 DEF Switched
  <2> QED BY <2>1, <2>2
<1> QED BY <1>1, <1>2, <1>3, <1>4 DEF ToolOutputs

LEMMA PlainTypes ==
  ASSUME TypeInv,
         \/ \E c \in Commands : Main(c)
         \/ \E m \in Machines : MapRadeonMem(m)
         \/ Usage \/ Sweep \/ ToolPlain \/ PlanEnds \/ Monitor \/ ImageMoved \/ ImageFails
         \/ I2cStart \/ OutputSet \/ ImageFound
         \/ \E s \in {"done", "wait", "other"} : I2cPoll(s)
         \/ \E n \in 0 .. MaxImage : MoveImage(n)
  PROVE  ToolTypes'
<1> USE DEF TypeInv, TypeOK, ToolTypes
<1>1. Fresh \in Locals /\ Fresh.at >= 1
  BY FreshTypes
<1>2. /\ local.left \in 0 .. MaxImage /\ local.input \in 0 .. MaxImage
      /\ local.polls \in 0 .. 10 /\ local.ready \in 0 .. 2
  BY LocalFields
<1>3. cmd \in CommandLine
  BY ToolAssumption
<1>4. ASSUME NEW how \in Exits, End(how)
      PROVE  /\ pc' \in {"none", "map", "run", "sweep", "image", "write", "read"}
             /\ local' \in Locals /\ local'.at >= 1 /\ exit' \in Exits
  BY <1>1, <1>4 DEF End
<1>5. "usage" \in Exits /\ "crash" \in Exits /\ "fatal" \in Exits /\ "ok" \in Exits
      /\ "timeout" \in Exits /\ "none" \in Exits
  BY DEF Exits
<1>6. CASE \E c \in Commands : Main(c)
  BY <1>4, <1>5, <1>6 DEF Main
<1>7. CASE \E m \in Machines : MapRadeonMem(m)
  BY <1>4, <1>5, <1>7 DEF MapRadeonMem, Step
<1>8. CASE Usage \/ PlanEnds \/ Monitor \/ ImageMoved \/ ImageFails
  BY <1>4, <1>5, <1>8 DEF Usage, PlanEnds, Monitor, ImageMoved, ImageFails
<1>9. CASE Sweep
  BY <1>4, <1>5, <1>9, NextLocal DEF Sweep, Step
<1>10. CASE ToolPlain
  BY <1>10, NextLocal DEF ToolPlain
<1>11. CASE I2cStart
  <2>1. engine' \in Engine
    BY <1>11 DEF I2cStart, Engine
  <2> QED BY <1>11, <2>1 DEF I2cStart, Step
<1>12. CASE OutputSet
  <2>1. \A l \in Lit, o \in ToolOutputs, on \in BOOLEAN : Switched(l, o, on) \in Lit
    BY LitTypes
  <2>2. cmd.on \in BOOLEAN
    BY <1>3, <1>12, CommandFields DEF OutputSet
  <2>3. lit' \in [ToolOutputs -> Lit]
    BY <1>12, <2>1, <2>2 DEF OutputSet
  <2> QED BY <1>4, <1>5, <1>12, <2>3 DEF OutputSet
<1>13. CASE ImageFound
  <2>1. cmd.image.len \in 0 .. MaxImage /\ cmd.image.input \in 0 .. MaxImage
    BY <1>3, <1>13, CommandFields DEF ImageFound, Imaging, Image
  <2>2. CASE cmd.image.len = 0
    BY <1>4, <1>5, <1>13, <2>2 DEF ImageFound
  <2>3. CASE cmd.image.len # 0
    <3>1. local' = [local EXCEPT !.left = cmd.image.len, !.input = cmd.image.input]
      BY <1>13, <2>3 DEF ImageFound
    <3>2. local' \in Locals /\ local'.at >= 1
      BY <2>1, <3>1, ImageLocal
    <3> QED BY <1>13, <2>3, <3>2 DEF ImageFound
  <2> QED BY <2>2, <2>3
<1>14. ASSUME NEW s \in {"done", "wait", "other"}, I2cPoll(s) PROVE ToolTypes'
  <2> DEFINE ready == local.ready + (IF s = "done" THEN 1 ELSE 0)
  <2>1. engine' \in Engine
    BY <1>14 DEF I2cPoll, Engine, Stopped
  <2>2. cmd' = cmd /\ lit' = lit
    BY <1>14 DEF I2cPoll
  <2>3. ASSUME ~TimedOut, ready < 3
        PROVE  Turn(s, ready) \in Locals /\ Turn(s, ready).at >= 1
    <3>1. local.polls + 1 \in 0 .. 10 /\ ready \in 0 .. 2
      BY <1>2, <2>3 DEF TimedOut
    <3> QED BY <3>1, PollLocal DEF Turn
  <2>4. /\ pc' \in {"none", "map", "run", "sweep", "image", "write", "read"}
        /\ local' \in Locals /\ local'.at >= 1 /\ exit' \in Exits
    BY <1>1, <1>4, <1>5, <1>14, <2>3 DEF I2cPoll
  <2> QED BY <2>1, <2>2, <2>4
<1>15. ASSUME NEW n \in 0 .. MaxImage, MoveImage(n) PROVE ToolTypes'
  <2>1. /\ local.left - n \in 0 .. MaxImage
        /\ (IF cmd.name = "loadimg" THEN local.input - n ELSE local.input) \in 0 .. MaxImage
    <3>1. n <= local.left /\ (cmd.name = "loadimg" => n <= local.input)
      BY <1>15 DEF MoveImage
    <3>2. MaxImage \in Nat
      BY ToolAssumption
    <3> QED BY <1>2, <3>1, <3>2
  <2>2. local' = [local EXCEPT !.left = local.left - n,
                     !.input = IF cmd.name = "loadimg" THEN local.input - n ELSE local.input]
    BY <1>15 DEF MoveImage
  <2>3. local' \in Locals /\ local'.at >= 1
    BY <2>1, <2>2, ImageLocal
  <2> QED BY <1>15, <2>3 DEF MoveImage
<1> QED BY <1>6, <1>7, <1>8, <1>9, <1>10, <1>11, <1>12, <1>13, <1>14, <1>15

(* The tool's half accesses are of registers its plan names.               *)
LEMMA AccessTypes ==
  ASSUME TypeInv, ToolIndex \/ ToolData
  PROVE  McTypeOK' /\ ToolTypes'
<1>1. "tool" \in Programs /\ cmd \in CommandLine /\ McTypeOK /\ Mine \in Values
  BY ToolAssumption DEF TypeInv, TypeOK
<1>2. local.at \in Nat \ {0}
  BY LocalFields DEF TypeInv, TypeOK
<1>3. CASE ToolIndex
  <2>1. Now[1] \in {"get", "set"} /\ Now[2].reg \in McRegs
    BY <1>1, <1>2, <1>3, PlanTypes DEF ToolIndex, Accessing, More, Now, Register
  <2>2. (IF cmd.name = "regset" THEN cmd.value ELSE Mine) \in Values
    BY <1>1, CommandFields
  <2>3. Access(Now[1], Now[2].reg, IF cmd.name = "regset" THEN cmd.value ELSE Mine) \in Accesses
    BY <2>1, <2>2 DEF Access, Accesses
  <2>4. McTypeOK'
    BY <1>1, <1>3, <2>3, WriteIndexTypes DEF ToolIndex
  <2> QED BY <1>3, <2>4 DEF ToolIndex, toolVars, TypeInv, TypeOK, ToolTypes
<1>4. CASE ToolData
  <2>1. McTypeOK'
    BY <1>1, <1>4, MoveDataTypes DEF ToolData
  <2>2. local' \in Locals /\ local'.at >= 1
    BY <1>4, NextLocal DEF ToolData, TypeInv, TypeOK
  <2> QED BY <1>4, <2>1, <2>2 DEF ToolData, TypeInv, TypeOK, ToolTypes
<1> QED BY <1>3, <1>4

LEMMA TypeStep == TypeInv /\ [Next]_vars => TypeInv'
<1> SUFFICES ASSUME TypeInv, [Next]_vars PROVE TypeInv'
  OBVIOUS
<1>1. CASE UNCHANGED vars
  BY <1>1 DEF vars, mcVars, serverVars, toolVars, TypeInv, TypeOK, McTypeOK
<1>2. CASE ServerNext
  BY <1>2, ServerTypes
<1>3. CASE ToolIndex \/ ToolData
  <2>1. UNCHANGED serverVars
    BY <1>3 DEF ToolIndex, ToolData
  <2> QED BY <1>3, <2>1, AccessTypes DEF TypeInv, TypeOK, ToolTypes, serverVars
<1>4. CASE \/ \E c \in Commands : Main(c)
           \/ \E m \in Machines : MapRadeonMem(m)
           \/ Usage \/ Sweep \/ ToolPlain \/ PlanEnds \/ Monitor \/ ImageMoved \/ ImageFails
           \/ I2cStart \/ OutputSet \/ ImageFound
           \/ \E s \in {"done", "wait", "other"} : I2cPoll(s)
           \/ \E n \in 0 .. MaxImage : MoveImage(n)
  <2>1. UNCHANGED <<mcVars, serverVars>>
    BY <1>4 DEF Main, MapRadeonMem, Usage, Sweep, ToolPlain, PlanEnds, Monitor, ImageMoved,
       ImageFails, I2cStart, OutputSet, ImageFound, I2cPoll, MoveImage
  <2>2. ToolTypes'
    BY <1>4, PlainTypes
  <2> QED BY <2>1, <2>2, SMTT(30) DEF TypeInv, TypeOK, ToolTypes, McTypeOK, mcVars, serverVars
<1> QED BY <1>1, <1>2, <1>3, <1>4 DEF Next, ToolGoesOn

(* Whatever commands are given, and whatever the server does meanwhile,    *)
(* an access is of a register that exists, the poll of _i2c_wait stays     *)
(* below its limit and an image moves no more than it has.                 *)
THEOREM ToolTypesCorrect == Spec => []TypeOK
<1>1. Init => TypeInv
  <2> SUFFICES ASSUME Init PROVE TypeInv
    OBVIOUS
  <2>1. McTypeOK
    BY DEF Init, McInit, McTypeOK
  <2>2. cmd \in Commands
    BY ToolAssumption DEF Init
  <2>3. local \in Locals /\ local.at >= 1
    BY FreshTypes DEF Init
  <2>4. saved \in Values /\ found \in Values
    BY ToolAssumption DEF Init, McInit
  <2>5. engine \in Engine /\ lit \in [ToolOutputs -> Lit] /\ exit \in Exits
    BY DEF Init, Engine, Lit, Shining, Exits
  <2>6. /\ server \in {"console", "saving", "saved", "mapping", "running", "restoring", "restored"}
        /\ pc \in {"none", "map", "run", "sweep", "image", "write", "read"}
    BY DEF Init
  <2> QED BY <2>1, <2>2, <2>3, <2>4, <2>5, <2>6 DEF TypeInv, TypeOK
<1>2. TypeInv => TypeOK
  BY DEF TypeInv
<1> QED BY <1>1, <1>2, TypeStep, PTL DEF Spec

=============================================================================
