----------------------------- MODULE AvivoDpms -----------------------------
(***************************************************************************)
(* The outputs of a screen being prepared, committed and power-managed     *)
(* (avivo_output_prepare, _commit and _dpms, the setup and the dpms        *)
(* functions in xorg/avivo_output.c), with the two things they share with  *)
(* others: bit 0x100 of register 0x0028, the card lock, and the power      *)
(* sequencer of the panel.                                                 *)
(*                                                                         *)
(* The driver reads and writes the lock in separate steps.  Whoever else   *)
(* takes the lock tests and sets it at once and gives it back when it      *)
(* likes.  The sequencer follows its target state in its own time.         *)
(***************************************************************************)
EXTENDS Integers

CONSTANTS Outputs,       \* the outputs of the screen
          DriverOf,      \* their setup and dpms functions
          BlockOf,       \* the block of the chip each one programs
          Tries          \* 5: how often the lock is read again

Drivers == {"dac", "tmds", "lvds"}
Blocks  == {BlockOf[o] : o \in Outputs}

(* No two outputs share a block, so at most one has the panel on LVTMA;    *)
(* AvivoOutputs!BlocksNotShared is where that comes from.                  *)
ASSUME DpmsAssumption ==
  /\ DriverOf \in [Outputs -> Drivers]
  /\ \A o, p \in Outputs : BlockOf[o] = BlockOf[p] => o = p
  /\ \A o, p \in Outputs : DriverOf[o] = "lvds" /\ DriverOf[p] = "lvds" => o = p
  /\ Tries \in Nat

VARIABLES
  pc,          \* "idle", "read", "try", "grab", "act", "wait", "release"
  out, on,     \* the output of the call, and whether it is switched on
  tmp, count,  \* the locals of avivo_output_dpms
  lock,        \* bit 0x100 of register 0x0028
  other,       \* somebody else has taken the lock and works on the card
  tx, clk,     \* transmitter or DAC, and clock, of each block are enabled
  target,      \* the target state in LVTMA_PWRSEQ_CNTL: TRUE for on
  power        \* LVTMA_PWRSEQ_STATE: "off", "on" or "changing"

call == <<out, on>>
regs == <<tx, clk>>
vars == <<pc, call, tmp, count, lock, other, regs, target, power>>

Section == {"act", "wait", "release"}

TypeOK ==
  /\ pc \in {"idle", "read", "try", "grab"} \cup Section
  /\ out \in Outputs
  /\ {on, tmp, lock, other, target} \subseteq BOOLEAN
  /\ count \in 0 .. Tries
  /\ tx \in [Blocks -> BOOLEAN] /\ clk \in [Blocks -> BOOLEAN]
  /\ power \in {"off", "on", "changing"}

(* The BIOS leaves the panel on or off, and the rest as it likes. *)
Init ==
  /\ pc = "idle" /\ out \in Outputs /\ on = FALSE
  /\ tmp = FALSE /\ count = 0 /\ lock = FALSE /\ other = FALSE
  /\ target \in BOOLEAN /\ power = IF target THEN "on" ELSE "off"
  /\ tx \in [Blocks -> BOOLEAN]
  /\ clk \in [Blocks -> BOOLEAN]

-----------------------------------------------------------------------------
(* The call: avivo_output_prepare and DPMS switch an output off or on; a   *)
(* commit runs the setup function first, outside the lock, which enables   *)
(* the DAC or the transmitter.                                             *)
Switch ==
  /\ pc = "idle"
  /\ out' \in Outputs /\ on' \in BOOLEAN
  /\ tx' \in {tx} \cup (IF on' THEN {[tx EXCEPT ![BlockOf[out']] = TRUE]} ELSE {})
  /\ pc' = "read"
  /\ UNCHANGED <<tmp, count, lock, other, clk, target, power>>

ReadLock ==
  /\ pc = "read"
  /\ tmp' = lock /\ count' = 0
  /\ pc' = "try"
  /\ UNCHANGED <<call, lock, other, regs, target, power>>

(* Mutants: the tries are not counted, or one too many. *)
TryForever ==
  /\ pc = "try"
  /\ IF tmp
     THEN tmp' = lock /\ UNCHANGED pc
     ELSE pc' = "grab" /\ UNCHANGED tmp
  /\ UNCHANGED <<call, count, lock, other, regs, target, power>>

TryOnceMore ==
  /\ pc = "try"
  /\ IF tmp /\ count <= Tries
     THEN tmp' = lock /\ count' = count + 1 /\ UNCHANGED pc
     ELSE pc' = "grab" /\ UNCHANGED <<tmp, count>>
  /\ UNCHANGED <<call, lock, other, regs, target, power>>

(* One turn of the loop, or its end. *)
Try ==
  /\ pc = "try"
  /\ IF tmp /\ count < Tries
     THEN tmp' = lock /\ count' = count + 1 /\ UNCHANGED pc
     ELSE pc' = "grab" /\ UNCHANGED <<tmp, count>>
  /\ UNCHANGED <<call, lock, other, regs, target, power>>

(* The lock is written whatever was read. *)
Grab ==
  /\ pc = "grab"
  /\ lock' = TRUE
  /\ pc' = "act"
  /\ UNCHANGED <<call, tmp, count, other, regs, target, power>>

Enable(b, t, c) == tx' = [tx EXCEPT ![b] = t] /\ clk' = [clk EXCEPT ![b] = c]

(* Mutant: the panel's transmitter goes off at once. *)
ActWithoutWait ==
  /\ pc = "act"
  /\ pc' = "release"
  /\ target' = IF DriverOf[out] = "lvds" THEN on ELSE target
  /\ Enable(BlockOf[out], on, on)
  /\ UNCHANGED <<call, tmp, count, lock, other, power>>

(* The output's dpms function.  A DAC has no clock of its own; the panel's *)
(* clock is left as it is when the panel goes on; to go off the panel has  *)
(* to wait for the sequencer.                                              *)
Act ==
  /\ pc = "act"
  /\ LET b == BlockOf[out] IN
     \/ /\ DriverOf[out] = "dac"
        /\ Enable(b, on, clk[b])
        /\ pc' = "release" /\ UNCHANGED target
     \/ /\ DriverOf[out] = "tmds"
        /\ Enable(b, on, on)
        /\ pc' = "release" /\ UNCHANGED target
     \/ /\ DriverOf[out] = "lvds" /\ on
        /\ target' = TRUE
        /\ Enable(b, TRUE, clk[b])
        /\ pc' = "release"
     \/ /\ DriverOf[out] = "lvds" /\ ~on
        /\ target' = FALSE
        /\ pc' = "wait" /\ UNCHANGED regs
  /\ UNCHANGED <<call, tmp, count, lock, other, power>>

(* The loop on LVTMA_PWRSEQ_STATE, which has no bound, and what follows. *)
PanelIsOff ==
  /\ pc = "wait"
  /\ power = "off"
  /\ Enable(BlockOf[out], FALSE, FALSE)
  /\ pc' = "release"
  /\ UNCHANGED <<call, tmp, count, lock, other, target, power>>

(* Mutant: the lock is left as it was read. *)
ReleaseAsRead ==
  /\ pc = "release"
  /\ lock' = tmp
  /\ pc' = "idle"
  /\ UNCHANGED <<call, tmp, count, other, regs, target, power>>

(* The lock is given back whoever has it. *)
Release ==
  /\ pc = "release"
  /\ lock' = FALSE
  /\ pc' = "idle"
  /\ UNCHANGED <<call, tmp, count, other, regs, target, power>>

-----------------------------------------------------------------------------
(* Somebody else: the firmware, or another program on the card. *)
OtherTakes ==
  /\ ~other /\ ~lock
  /\ lock' = TRUE /\ other' = TRUE
  /\ UNCHANGED <<pc, call, tmp, count, regs, target, power>>

OtherGives ==
  /\ other
  /\ lock' = FALSE /\ other' = FALSE
  /\ UNCHANGED <<pc, call, tmp, count, regs, target, power>>

(* The sequencer takes the panel up or down, in several steps. *)
Sequencer ==
  /\ power # IF target THEN "on" ELSE "off"
  /\ power' = IF power = "changing" THEN IF target THEN "on" ELSE "off" ELSE "changing"
  /\ UNCHANGED <<pc, call, tmp, count, lock, other, regs, target>>

Dpms  == ReadLock \/ Try \/ Grab \/ Act \/ PanelIsOff \/ Release
Next  == Switch \/ Dpms \/ OtherTakes \/ OtherGives \/ Sequencer
Spec  == Init /\ [][Next]_vars

(* The driver runs on and the sequencer gets where it is sent; whoever     *)
(* holds the lock need not ever give it back.                              *)
FairSpec == Spec /\ WF_vars(Dpms) /\ WF_vars(Sequencer)

-----------------------------------------------------------------------------
(* Properties *)

(* The transmitter of a panel is never taken away while the sequencer has  *)
(* the panel on or is still taking it down: avivo_output_lvds_dpms waits.  *)
PanelPoweredDownFirst ==
  [][\A o \in Outputs :
       (DriverOf[o] = "lvds" /\ tx[BlockOf[o]] /\ ~tx'[BlockOf[o]]) => power = "off"]_vars

(* Between two calls a set lock is somebody else's: the driver never       *)
(* leaves it behind, whether it got the lock, overran it or raced for it.  *)
LockNotLeftBehind == (pc = "idle" /\ lock) => other

(* A call ends although the lock may never be free: the tries are counted, *)
(* and the wait for the sequencer ends as the sequencer works.             *)
DpmsReturns == (pc # "idle") ~> (pc = "idle")

=============================================================================
