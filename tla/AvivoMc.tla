------------------------------ MODULE AvivoMc ------------------------------
(***************************************************************************)
(* The registers of the memory controller behind AVIVO_MC_INDEX and        *)
(* AVIVO_MC_DATA, and the programs that use the pair                       *)
(* (xorg/avivo_common.c, avivotool/avivotool.c).                           *)
(*                                                                         *)
(* An access is two writes, or a write and a read, of the card; nothing    *)
(* keeps a second program from writing the index in between.  Bits 16 to   *)
(* 22 of the index address the controller, bit 23 makes the data writable. *)
(***************************************************************************)
EXTENDS Integers

CONSTANTS
  Programs,   \* the programs with the card mapped: the server and avivotool
  McRegs,     \* registers of the memory controller
  Values      \* what they hold

VARIABLES
  index,      \* AVIVO_MC_INDEX: the register, and whether data is writable
  mc,         \* the registers
  access,     \* the access each program has written the index for, if any
  meant,      \* history: the registers if every access were a single step
  clash       \* history: an index was overwritten before its data moved

mcVars == <<index, mc, access, meant, clash>>

Accesses == [op : {"get", "set"}, reg : McRegs, value : Values]
NoAccess == [op |-> "none"]

McTypeOK ==
  /\ index \in [reg : McRegs, write : BOOLEAN]
  /\ mc \in [McRegs -> Values]
  /\ access \in [Programs -> Accesses \cup {NoAccess}]
  /\ meant \in [McRegs -> Values]
  /\ clash \in BOOLEAN

McInit ==
  /\ index \in [reg : McRegs, write : BOOLEAN]
  /\ mc \in [McRegs -> Values]
  /\ access = [p \in Programs |-> NoAccess]
  /\ meant = mc
  /\ clash = FALSE

Idle(p) == access[p] = NoAccess

(* The index is written with the mask of a read.                           *)
WriteIndexForReading(p, a) ==
  /\ Idle(p)
  /\ index' = [reg |-> a.reg, write |-> FALSE]
  /\ access' = [access EXCEPT ![p] = a]
  /\ clash' = (clash \/ \E q \in Programs \ {p} : ~Idle(q))
  /\ UNCHANGED <<mc, meant>>

(* The first half of a set (offset | 0x00ff0000) or get (| 0x007f0000).    *)
WriteIndex(p, a) ==
  /\ Idle(p)
  /\ index' = [reg |-> a.reg, write |-> a.op = "set"]
  /\ access' = [access EXCEPT ![p] = a]
  /\ clash' = (clash \/ \E q \in Programs \ {p} : ~Idle(q))
  /\ UNCHANGED <<mc, meant>>

(* The second half: data goes to, or comes from, whatever the index says.  *)
Got == mc[index.reg]

MoveData(p) ==
  /\ ~Idle(p)
  /\ mc' = IF access[p].op = "set" /\ index.write
           THEN [mc EXCEPT ![index.reg] = access[p].value] ELSE mc
  /\ meant' = IF access[p].op = "set"
              THEN [meant EXCEPT ![access[p].reg] = access[p].value] ELSE meant
  /\ access' = [access EXCEPT ![p] = NoAccess]
  /\ UNCHANGED <<index, clash>>

(* The console or its firmware sets a register while nobody else is at it; *)
(* the histories start afresh.                                             *)
FirmwareSets(r, v) ==
  /\ \A p \in Programs : Idle(p)
  /\ mc' = [mc EXCEPT ![r] = v]
  /\ meant' = mc'
  /\ clash' = FALSE
  /\ UNCHANGED <<index, access>>

-----------------------------------------------------------------------------
(* Every value lands in the register it was meant for, and only there, as  *)
(* if avivo_set_mc and radeon_set_mc were single steps; the one exception  *)
(* is an index overwritten by the other program before the data moved.     *)
LandsWhereMeant == ~clash => mc = meant
=============================================================================
