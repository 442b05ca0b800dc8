-------------------------- MODULE AvivoDpmsProofs --------------------------
(***************************************************************************)
(* Proofs about AvivoDpms, for any outputs and any number of tries: the    *)
(* driver leaves no lock behind and powers the panel down first.           *)
(***************************************************************************)
EXTENDS AvivoDpms, TLAPS

(* Outside the section a set lock is somebody else's; the wait is for a    *)
(* panel whose target state is off.                                        *)
DInv ==
  /\ TypeOK
  /\ (pc \notin Section /\ lock) => other
  /\ pc = "wait" => DriverOf[out] = "lvds"

(* The initial states are as the invariant says.                           *)
LEMMA DInit == Init => DInv
<1> SUFFICES ASSUME Init PROVE DInv
  OBVIOUS
<1>1. {on, tmp, lock, other, target} \subseteq BOOLEAN
  BY DEF Init
<1>2. count \in 0 .. Tries
  BY DpmsAssumption DEF Init
<1>3. power \in {"off", "on", "changing"}
  BY DEF Init
<1> QED BY <1>1, <1>2, <1>3 DEF Init, DInv, TypeOK, Section

(* The output of a call has a driver and a block.                          *)
LEMMA BlockFacts == ASSUME NEW o \in Outputs
                    PROVE  BlockOf[o] \in Blocks /\ DriverOf[o] \in Drivers
BY DpmsAssumption DEF Blocks

(* Switching a block keeps the types of the registers.                     *)
LEMMA EnableType ==
  ASSUME NEW b \in Blocks, NEW t \in BOOLEAN, NEW c \in BOOLEAN,
         tx \in [Blocks -> BOOLEAN], clk \in [Blocks -> BOOLEAN], Enable(b, t, c)
  PROVE  tx' \in [Blocks -> BOOLEAN] /\ clk' \in [Blocks -> BOOLEAN]
BY DEF Enable

(* Every step keeps the invariant.                                         *)
LEMMA DStep == DInv /\ [Next]_vars => DInv'
<1> SUFFICES ASSUME DInv, [Next]_vars PROVE DInv'
  OBVIOUS
<1> USE DEF DInv, TypeOK, Section
<1>1. CASE Switch
  <2>1. tx' \in [Blocks -> BOOLEAN]
    BY <1>1, BlockFacts DEF Switch
  <2> QED BY <1>1, <2>1 DEF Switch
<1>2. CASE ReadLock
  BY <1>2, DpmsAssumption DEF ReadLock, call, regs
<1>3. CASE Try
  <2>1. count' \in 0 .. Tries
    BY <1>3, DpmsAssumption, SMT DEF Try
  <2> QED BY <1>3, <2>1 DEF Try, call, regs
<1>4. CASE Grab
  BY <1>4 DEF Grab, call, regs
<1>5. CASE Act
  <2> DEFINE b == BlockOf[out]
  <2>1. b \in Blocks /\ clk[b] \in BOOLEAN /\ on \in BOOLEAN
    BY BlockFacts
  <2>2. tx' \in [Blocks -> BOOLEAN] /\ clk' \in [Blocks -> BOOLEAN]
    BY <1>5, <2>1, EnableType DEF Act, regs
  <2> QED BY <1>5, <2>2 DEF Act, call
<1>6. CASE PanelIsOff
  <2>1. tx' \in [Blocks -> BOOLEAN] /\ clk' \in [Blocks -> BOOLEAN]
    BY <1>6, BlockFacts, EnableType DEF PanelIsOff
  <2> QED BY <1>6, <2>1 DEF PanelIsOff, call
<1>7. CASE Release
  BY <1>7 DEF Release, call, regs
<1>8. CASE OtherTakes
  BY <1>8 DEF OtherTakes, call, regs
<1>9. CASE OtherGives
  BY <1>9 DEF OtherGives, call, regs
<1>10. CASE Sequencer
  BY <1>10 DEF Sequencer, call, regs
<1>11. CASE UNCHANGED vars
  BY <1>11 DEF vars, call, regs
<1> QED
  BY <1>1, <1>2, <1>3, <1>4, <1>5, <1>6, <1>7, <1>8, <1>9, <1>10, <1>11 DEF Next, Dpms

LEMMA DInvariant == Spec => []DInv
<1> QED BY DInit, DStep, PTL DEF Spec

(* The variables keep their types, and the loop its bound, whatever the    *)
(* number of tries.                                                        *)
THEOREM DpmsTypeCorrect == Spec => []TypeOK
<1>1. DInv => TypeOK
  BY DEF DInv
<1> QED BY <1>1, DInvariant, PTL

(* The driver never leaves the lock of avivo_output_dpms behind.           *)
THEOREM LockIsReleased == Spec => []LockNotLeftBehind
<1>1. DInv => LockNotLeftBehind
  BY DEF DInv, LockNotLeftBehind, Section
<1> QED BY <1>1, DInvariant, PTL

(* The panel's transmitter goes off only in PanelIsOff: no other output    *)
(* has its block.                                                          *)
LEMMA PanelStep ==
  ASSUME DInv, [Next]_vars, NEW o \in Outputs,
         DriverOf[o] = "lvds", tx[BlockOf[o]], ~tx'[BlockOf[o]]
  PROVE  power = "off"
<1> DEFINE p == BlockOf[o]
<1>1. tx \in [Blocks -> BOOLEAN] /\ p \in Blocks /\ out \in Outputs /\ BlockOf[out] \in Blocks
  BY BlockFacts DEF DInv, TypeOK
<1>2. CASE Switch
  <2>1. out' \in Outputs /\ BlockOf[out'] \in Blocks
    BY <1>2, BlockFacts DEF Switch
  <2>2. tx' = tx \/ tx' = [tx EXCEPT ![BlockOf[out']] = TRUE]
    BY <1>2 DEF Switch
  <2> QED BY <1>1, <2>1, <2>2
<1>3. CASE Act
  <2>1. CASE DriverOf[out] \in {"dac", "tmds"}
    <3>1. BlockOf[out] # p
      BY <1>1, <2>1, DpmsAssumption
    <3>2. tx' = [tx EXCEPT ![BlockOf[out]] = on]
      BY <1>3, <2>1 DEF Act, Enable
    <3> QED BY <1>1, <3>1, <3>2
  <2>2. CASE DriverOf[out] = "lvds"
    <3>1. tx' = tx \/ tx' = [tx EXCEPT ![BlockOf[out]] = TRUE]
      BY <1>3, <2>2 DEF Act, Enable, regs
    <3> QED BY <1>1, <3>1
  <2>3. DriverOf[out] \in Drivers
    BY <1>1, BlockFacts
  <2> QED BY <2>1, <2>2, <2>3 DEF Drivers
<1>4. CASE PanelIsOff
  BY <1>4 DEF PanelIsOff
<1>5. CASE tx' = tx
  BY <1>5
<1> QED
  BY <1>2, <1>3, <1>4, <1>5
  DEF Next, Dpms, ReadLock, Try, Grab, Release, OtherTakes, OtherGives, Sequencer, vars, regs

(* avivo_output_lvds_dpms takes the transmitter away from a panel that is  *)
(* powered down, and no other output takes it away.                        *)
THEOREM PanelIsPoweredDown == Spec => PanelPoweredDownFirst
<1>1. DInv /\ [Next]_vars =>
      [\A o \in Outputs : (DriverOf[o] = "lvds" /\ tx[BlockOf[o]] /\ ~tx'[BlockOf[o]])
                            => power = "off"]_vars
  BY PanelStep
<1> QED BY <1>1, DInvariant, PTL DEF Spec, PanelPoweredDownFirst
=============================================================================
