-------------------------- MODULE AvivoProbeProofs --------------------------
(***************************************************************************)
(* Proofs about AvivoProbe, for every machine, every build and every       *)
(* layout of the cards' BARs.                                              *)
(***************************************************************************)
EXTENDS AvivoProbe, TLAPS

(* The chips of the old probe have a family. *)
LEMMA OldChipsKnown ==
  \A id \in avivo_pci_chips : \E f \in Families : id \in chipset_family[f]
BY DEF avivo_pci_chips, Families, chipset_family

(* So have the chips of the PCI probe. *)
LEMMA PciChipsKnown ==
  \A id \in avivo_device_match : \E f \in Families : id \in chipset_family[f]
BY DEF avivo_device_match, Families, chipset_family

(* The family of a chip is the one of its names. *)
LEMMA FamilyIsTheName ==
  \A f \in Families : \A id \in chipset_family[f] :
    id \in PCI_CHIP[f] /\ id \in avivo_chips[f]
BY DEF PCI_CHIP, avivo_chips, Families, chipset_family

LEMMA SmallerOfNat ==
  ASSUME NEW a \in Nat, NEW b \in Nat
  PROVE  SmallerOf(a, b) \in Nat /\ SmallerOf(a, b) <= a /\ SmallerOf(a, b) <= b
BY DEF SmallerOf

LEMMA FbSizeFits ==
  ASSUME NEW size \in Nat, NEW mem \in Nat
  PROVE  FbSize(size, mem) \in Nat /\ (pciAccess => FbSize(size, mem) <= size)
BY DEF FbSize, SmallerOf

(* The cards are cards. *)
LEMMA CardsOfMachine ==
  ASSUME TypeOK, NEW s \in DOMAIN machine
  PROVE  /\ s \in Slots
         /\ machine[s] \in Cards
         /\ machine[s].mem \in Nat
         /\ \A b \in 1 .. 6 : machine[s].bars[b] \in Nat
<1>1. PICK S \in SUBSET Slots : machine \in [S -> Cards]
  BY ProbeAssumption DEF TypeOK
<1>2. s \in Slots /\ machine[s] \in Cards
  BY <1>1
<1>3. machine[s] \in [id : Nat, vga : BOOLEAN, bars : [1 .. 6 -> Nat], mem : Nat]
  BY <1>2, ProbeAssumption
<1>4. QED BY <1>2, <1>3

-----------------------------------------------------------------------------
(* Type correctness. *)
LEMMA TypeInit == Init => TypeOK
<1> SUFFICES ASSUME Init PROVE TypeOK
  OBVIOUS
<1>1. DOMAIN screens = {} /\ screens \in [DOMAIN screens -> Screen]
  BY DEF Init, NoScreens
<1>3. claimed = {} /\ DOMAIN screens = {} /\ todo = {} /\ cur = 0
  BY <1>1 DEF Init
<1>4. pc = "load" /\ machine \in Machines /\ pciAccess \in Builds /\ configure \in BOOLEAN /\ bar = 1
  BY DEF Init
<1>5. QED BY <1>1, <1>3, <1>4 DEF TypeOK

LEMMA DropKeepsScreens ==
  ASSUME TypeOK, NEW s, Drop(s)
  PROVE  /\ DOMAIN screens' = DOMAIN screens \ {s}
         /\ screens' \in [DOMAIN screens' -> Screen]
         /\ \A t \in DOMAIN screens' : screens'[t] = screens[t]
BY DEF TypeOK, Drop

LEMMA TypeStep == TypeOK /\ [Next]_vars => TypeOK'
<1> SUFFICES ASSUME TypeOK, [Next]_vars PROVE TypeOK'
  OBVIOUS
<1> USE DEF TypeOK
<1>0. DOMAIN machine \subseteq Slots /\ 0 \notin DOMAIN machine
  BY CardsOfMachine, ProbeAssumption
<1>1. CASE Setup
  BY <1>0, <1>1 DEF Setup, probing, given
<1>2. CASE OldProbeDetect
  BY <1>0, <1>2 DEF OldProbeDetect, probing, given
<1>3. ASSUME NEW s \in Slots, PciProbe(s) PROVE TypeOK'
  <2>1. NewScreen({}) \in Screen
    BY DEF NewScreen, Screen
  <2>2. CASE UNCHANGED <<claimed, screens>>
    BY <1>3, <2>2 DEF PciProbe, given
  <2>3. CASE screens' = [t \in DOMAIN screens \cup {s} |->
                           IF t = s THEN NewScreen({}) ELSE screens[t]]
             /\ claimed' = claimed \cup {s}
    <3>1. DOMAIN screens' = DOMAIN screens \cup {s}
      BY <2>3
    <3>2. screens' \in [DOMAIN screens' -> Screen]
      BY <2>1, <2>3, <3>1
    <3>3. s \in DOMAIN machine
      BY <1>3 DEF PciProbe
    <3>4. pc = "probe" /\ todo' = todo \ {s} /\ UNCHANGED <<pc, given, cur, bar>>
      BY <1>3 DEF PciProbe
    <3>5. DOMAIN screens' \subseteq claimed' /\ claimed' \subseteq DOMAIN machine
      BY <2>3, <3>1, <3>3
    <3>6. QED BY <3>2, <3>4, <3>5 DEF given
  <2>4. QED BY <1>3, <2>2, <2>3 DEF PciProbe
<1>4. CASE OldProbe
  <2>0. /\ pc = "probe" /\ pc' = "preinit"
        /\ claimed' \subseteq DOMAIN machine
        /\ UNCHANGED <<given, cur, bar>>
    BY <1>4 DEF OldProbe
  <2>1. CASE screens' = NoScreens /\ todo' = {}
    <3>1. DOMAIN screens' = {} /\ screens' \in [DOMAIN screens' -> Screen]
      BY <2>1 DEF NoScreens
    <3>2. QED BY <2>1, <2>0, <3>1 DEF given
  <2>2. ASSUME NEW active \in SUBSET claimed', NEW s \in claimed', s \in active,
               screens' = [t \in {s} |-> NewScreen(active \ {s})], todo' = {s}
        PROVE  TypeOK'
    <3>1. NewScreen(active \ {s}) \in Screen
      BY <1>0, <2>0 DEF NewScreen, Screen
    <3>2. DOMAIN screens' = {s} /\ screens' \in [DOMAIN screens' -> Screen]
      BY <2>2, <3>1
    <3>3. QED BY <1>0, <2>0, <2>2, <3>2 DEF given
  <2>3. QED BY <1>4, <2>1, <2>2 DEF OldProbe
<1>5. CASE Probed
  BY <1>0, <1>5 DEF Probed, probing, given
<1>6. CASE PreInit
  <2>1. PICK s \in todo : /\ todo' = todo \ {s}
                          /\ IF configure THEN Drop(s) /\ UNCHANGED <<pc, cur>>
                             ELSE cur' = s /\ pc' \in {"mmio", "fatal"} /\ UNCHANGED screens
    BY <1>6 DEF PreInit
  <2>2. CASE configure
    <3>1. /\ DOMAIN screens' = DOMAIN screens \ {s}
          /\ screens' \in [DOMAIN screens' -> Screen]
      BY <2>1, <2>2, DropKeepsScreens
    <3>2. QED BY <1>6, <2>1, <2>2, <3>1 DEF PreInit, probing, given
  <2>3. CASE ~configure
    BY <1>0, <1>6, <2>1, <2>3 DEF PreInit, probing, given, Ended
  <2>4. QED BY <2>2, <2>3
<1>7. CASE MapMmio
  <2>1. cur \in DOMAIN screens /\ screens[cur] \in Screen /\ cur \in DOMAIN machine
    BY <1>7 DEF MapMmio
  <2>2. ASSUME NEW c \in 0 .. 6, screens' = [screens EXCEPT ![cur].ctrl = c]
        PROVE  DOMAIN screens' = DOMAIN screens /\ screens' \in [DOMAIN screens' -> Screen]
    BY <2>1, <2>2 DEF Screen
  <2>3. DOMAIN screens' = DOMAIN screens /\ screens' \in [DOMAIN screens' -> Screen]
    <3>1. CASE UNCHANGED screens
      BY <3>1
    <3>2. CASE screens' = [screens EXCEPT ![cur].ctrl = IF pciAccess \/ @ = 0 THEN bar ELSE @]
      <4>1. (IF pciAccess \/ screens[cur].ctrl = 0 THEN bar ELSE screens[cur].ctrl) \in 0 .. 6
        BY <2>1 DEF Screen
      <4>2. QED BY <2>2, <3>2, <4>1
    <3>3. QED BY <1>7, <3>1, <3>2 DEF MapMmio, MmioFails
  <2>4. bar' \in 1 .. 6 /\ pc' \in {"mmio", "fb", "fatal"}
    BY <1>7 DEF MapMmio, MmioFails, NextBar
  <2>5. QED BY <1>7, <2>1, <2>3, <2>4 DEF MapMmio, probing, given, Ended
<1>8. CASE MapFb
  <2>1. cur \in DOMAIN screens /\ screens[cur] \in Screen /\ cur \in DOMAIN machine
    BY <1>8 DEF MapFb
  <2>2. FbSize(Card.bars[bar], Card.mem) \in Nat
    BY <2>1, CardsOfMachine, FbSizeFits DEF Card
  <2>3. DOMAIN screens' = DOMAIN screens /\ screens' \in [DOMAIN screens' -> Screen]
    <3>1. CASE UNCHANGED screens
      BY <3>1
    <3>2. CASE screens' = [screens EXCEPT
                             ![cur].fb = IF pciAccess \/ @ = 0 THEN bar ELSE @,
                             ![cur].fbSize = FbSize(Card.bars[bar], Card.mem)]
      <4>1. (IF pciAccess \/ screens[cur].fb = 0 THEN bar ELSE screens[cur].fb) \in 0 .. 6
        BY <2>1 DEF Screen
      <4>2. ASSUME NEW c \in 0 .. 6,
                   screens' = [screens EXCEPT ![cur].fb = c,
                                              ![cur].fbSize = FbSize(Card.bars[bar], Card.mem)]
            PROVE  DOMAIN screens' = DOMAIN screens /\ screens' \in [DOMAIN screens' -> Screen]
        BY <2>1, <2>2, <4>2 DEF Screen
      <4>3. QED BY <3>2, <4>1, <4>2
    <3>3. CASE screens' = [screens EXCEPT ![cur].fbSize = FbSize(Card.bars[bar], Card.mem)]
      BY <2>1, <2>2, <3>3 DEF Screen
    <3>4. QED
      <4> DEFINE size == FbSize(Card.bars[bar], Card.mem)
      <4> HIDE DEF size
      <4>1. \/ UNCHANGED screens
            \/ screens' = [screens EXCEPT ![cur].fb = IF pciAccess \/ @ = 0 THEN bar ELSE @,
                                         ![cur].fbSize = size]
            \/ screens' = [screens EXCEPT ![cur].fbSize = size]
        BY <1>8 DEF MapFb, size
      <4>2. QED BY <3>1, <3>2, <3>3, <4>1 DEF size
  <2>4. bar' \in 1 .. 6 /\ pc' \in {"fb", "chipset", "segv", "fatal"}
    BY <1>8 DEF MapFb, NextBar
  <2>5. QED BY <1>8, <2>1, <2>3, <2>4 DEF MapFb, probing, given, Ended
<1>9. CASE GetChipset
  <2>1. cur \in DOMAIN screens /\ screens[cur] \in Screen
    BY <1>9 DEF GetChipset
  <2>2. DOMAIN screens' = DOMAIN screens /\ screens' \in [DOMAIN screens' -> Screen]
    BY <1>9, <2>1 DEF GetChipset, Screen
  <2>3. QED BY <1>9, <2>1, <2>2 DEF GetChipset, probing, given, Ended
<1>10. CASE PreInitEnds
  <2>1. CASE UNCHANGED screens
    BY <1>0, <1>10, <2>1 DEF PreInitEnds, probing, given, Ended
  <2>2. CASE pc' = "preinit" /\ Drop(cur)
    <3>1. /\ DOMAIN screens' = DOMAIN screens \ {cur}
          /\ screens' \in [DOMAIN screens' -> Screen]
      BY <2>2, DropKeepsScreens
    <3>2. cur \notin todo
      OBVIOUS
    <3>3. QED BY <1>0, <1>10, <2>2, <3>1, <3>2 DEF PreInitEnds, probing, given
  <2>3. QED BY <1>10, <2>1, <2>2 DEF PreInitEnds
<1>11. CASE PreInitsDone
  BY <1>11 DEF PreInitsDone, probing, given
<1>12. CASE UNCHANGED vars
  BY <1>12 DEF vars, probing, given
<1>13. QED
  BY <1>1, <1>2, <1>3, <1>4, <1>5, <1>6, <1>7, <1>8, <1>9, <1>10, <1>11, <1>12
  DEF Next, Finished

(* AvivoProbe's types hold in every state. *)
THEOREM TypeCorrect == Spec => []TypeOK
<1>1. QED BY TypeInit, TypeStep, PTL DEF Spec

-----------------------------------------------------------------------------
(* Mapping the frame buffer changes no other field of a screen. *)
LEMMA MapFbScreens ==
  ASSUME TypeOK, MapFb
  PROVE  /\ DOMAIN screens' = DOMAIN screens
         /\ \A s \in DOMAIN screens' : /\ screens'[s].chipset = screens[s].chipset
                                       /\ screens'[s].others = screens[s].others
<1>1. cur \in DOMAIN screens /\ screens[cur] \in Screen
  BY DEF MapFb, TypeOK
<1>2. ASSUME NEW c, NEW size,
             \/ screens' = [screens EXCEPT ![cur].fb = c, ![cur].fbSize = size]
             \/ screens' = [screens EXCEPT ![cur].fbSize = size]
             \/ UNCHANGED screens
      PROVE  /\ DOMAIN screens' = DOMAIN screens
             /\ \A s \in DOMAIN screens' : /\ screens'[s].chipset = screens[s].chipset
                                           /\ screens'[s].others = screens[s].others
  BY <1>1, <1>2 DEF Screen, TypeOK
<1>3. \E c, size : \/ screens' = [screens EXCEPT ![cur].fb = c, ![cur].fbSize = size]
                  \/ screens' = [screens EXCEPT ![cur].fbSize = size]
                  \/ UNCHANGED screens
  BY DEF MapFb
<1>4. QED BY <1>2, <1>3

-----------------------------------------------------------------------------
(* KnownChips: what is claimed comes from a list, and every list is known. *)
KnownInv ==
  /\ \A s \in claimed : machine[s].id \in avivo_pci_chips \cup avivo_device_match
  /\ KnownChips

LEMMA KnownInit == Init => KnownInv
<1> SUFFICES ASSUME Init PROVE KnownInv
  OBVIOUS
<1>1. claimed = {} /\ DOMAIN screens = {} /\ pc = "load"
  BY DEF Init, NoScreens
<1>2. QED BY <1>1 DEF KnownInv, KnownChips

LEMMA KnownStep == TypeOK /\ KnownInv /\ [Next]_vars => KnownInv'
<1> SUFFICES ASSUME TypeOK, KnownInv, [Next]_vars PROVE KnownInv'
  OBVIOUS
<1>a. machine' = machine
  BY DEF Next, Setup, OldProbeDetect, PciProbe, OldProbe, Probed, PreInit, MapMmio, MapFb,
         GetChipset, PreInitEnds, PreInitsDone, Finished, vars, probing, given
<1>b. ASSUME claimed' \subseteq claimed, pc' # "unknown", DOMAIN screens' \subseteq DOMAIN screens,
             \A s \in DOMAIN screens' : screens'[s].chipset = screens[s].chipset
      PROVE  KnownInv'
  BY <1>a, <1>b DEF KnownInv, KnownChips
<1>1. CASE Setup \/ OldProbeDetect \/ Probed \/ PreInitsDone \/ Finished \/ UNCHANGED vars
  BY <1>1, <1>b DEF Setup, OldProbeDetect, Probed, PreInitsDone, Finished, vars, probing,
                    KnownInv, KnownChips, Ended
<1>2. ASSUME NEW s \in Slots, PciProbe(s) PROVE KnownInv'
  <2>1. CASE UNCHANGED <<claimed, screens>>
    BY <1>2, <2>1, <1>b DEF PciProbe
  <2>2. CASE /\ DeviceMatch(machine[s])
             /\ screens' = [t \in DOMAIN screens \cup {s} |->
                              IF t = s THEN NewScreen({}) ELSE screens[t]]
             /\ claimed' = claimed \cup {s}
    <3>1. \A t \in claimed' : machine'[t].id \in avivo_pci_chips \cup avivo_device_match
      BY <1>a, <2>2 DEF KnownInv, DeviceMatch
    <3>2. ASSUME NEW t \in DOMAIN screens', t # s
          PROVE  t \in DOMAIN screens /\ screens'[t] = screens[t]
      BY <2>2, <3>2
    <3>3. screens'[s].chipset = "none"
      BY <2>2 DEF NewScreen
    <3>4. pc' # "unknown"
      BY <1>2 DEF PciProbe
    <3>5. QED BY <1>a, <3>1, <3>2, <3>3, <3>4 DEF KnownInv, KnownChips
  <2>3. QED BY <1>2, <2>1, <2>2 DEF PciProbe
<1>3. CASE OldProbe
  <2>1. \A t \in claimed' : machine'[t].id \in avivo_pci_chips
    BY <1>3, <1>a DEF OldProbe
  <2>2. \A t \in DOMAIN screens' : screens'[t].chipset = "none"
    <3>1. CASE screens' = NoScreens
      BY <3>1 DEF NoScreens
    <3>2. ASSUME NEW s, NEW others, screens' = [t \in {s} |-> NewScreen(others)]
          PROVE  \A t \in DOMAIN screens' : screens'[t].chipset = "none"
      BY <3>2 DEF NewScreen
    <3>3. QED BY <1>3, <3>1, <3>2 DEF OldProbe
  <2>3. pc' # "unknown"
    BY <1>3 DEF OldProbe
  <2>4. QED BY <2>1, <2>2, <2>3 DEF KnownInv, KnownChips
<1>4. CASE PreInit
  BY <1>4, <1>b DEF PreInit, Drop, probing
<1>5. CASE MapMmio
  <2>1. pc' # "unknown" /\ claimed' = claimed
    BY <1>5 DEF MapMmio, MmioFails, NextBar, probing
  <2>2. DOMAIN screens' = DOMAIN screens
        /\ \A s \in DOMAIN screens' : screens'[s].chipset = screens[s].chipset
    BY <1>5 DEF MapMmio, MmioFails, TypeOK, Screen
  <2>3. QED BY <2>1, <2>2, <1>b
<1>6. CASE MapFb
  <2>1. pc' # "unknown" /\ claimed' = claimed
    BY <1>6 DEF MapFb, NextBar, probing
  <2>2. DOMAIN screens' = DOMAIN screens
        /\ \A s \in DOMAIN screens' : screens'[s].chipset = screens[s].chipset
    BY <1>6, MapFbScreens
  <2>3. QED BY <2>1, <2>2, <1>b
<1>7. CASE GetChipset
  <2>1. cur \in DOMAIN screens /\ cur \in claimed /\ screens[cur] \in Screen
    BY <1>7 DEF GetChipset, TypeOK
  <2>2. \E f \in Families : Card.id \in chipset_family[f]
    BY <2>1, OldChipsKnown, PciChipsKnown DEF KnownInv, Card
  <2>3. PICK f \in Families : /\ machine[cur].id \in chipset_family[f]
                             /\ screens' = [screens EXCEPT ![cur].chipset = f]
    BY <1>7, <2>2 DEF GetChipset, Card
  <2>4. pc' # "unknown" /\ claimed' = claimed
    BY <1>7, <2>2 DEF GetChipset, probing
  <2>5. DOMAIN screens' = DOMAIN screens
        /\ screens'[cur].chipset = f
        /\ \A s \in DOMAIN screens : s # cur => screens'[s] = screens[s]
    BY <2>1, <2>3 DEF Screen
  <2>6. machine[cur].id \in PCI_CHIP[f] /\ machine[cur].id \in avivo_chips[f]
    BY <2>3, FamilyIsTheName
  <2>7. QED BY <1>a, <2>4, <2>5, <2>6 DEF KnownInv, KnownChips
<1>8. CASE PreInitEnds
  BY <1>8, <1>b DEF PreInitEnds, Drop, probing
<1>9. QED
  BY <1>1, <1>2, <1>3, <1>4, <1>5, <1>6, <1>7, <1>8 DEF Next

(* No probed card is unknown to PreInit, and each gets its name's family. *)
THEOREM ChipsKnown == Spec => []KnownChips
<1>1. KnownInv => KnownChips
  BY DEF KnownInv
<1>2. QED BY <1>1, TypeInit, TypeStep, KnownInit, KnownStep, PTL DEF Spec

-----------------------------------------------------------------------------
(* MmioFirst: the register BARs that the first loop has passed are mapped, *)
(* and the second loop starts when it has passed all.                      *)
IsMmio(b) == Card.bars[b] \in {15, 16}

MmioInv ==
  pciAccess =>
    /\ pc = "mmio" => \A b \in 1 .. 6 : b < bar /\ IsMmio(b) => screens[cur].ctrl # 0
    /\ pc = "fb" => \A b \in 1 .. 6 : IsMmio(b) => screens[cur].ctrl # 0
    /\ MmioFirst

LEMMA MmioInit == Init => MmioInv
BY DEF Init, MmioInv, MmioFirst

LEMMA MmioStep == TypeOK /\ MmioInv /\ [Next]_vars => MmioInv'
<1> SUFFICES ASSUME TypeOK, MmioInv, [Next]_vars PROVE MmioInv'
  OBVIOUS
<1>a. UNCHANGED <<machine, pciAccess>>
  BY DEF Next, Setup, OldProbeDetect, PciProbe, OldProbe, Probed, PreInit, MapMmio, MapFb,
         GetChipset, PreInitEnds, PreInitsDone, Finished, vars, probing, given
<1>b. ASSUME pc' \notin {"mmio", "fb", "segv"} PROVE MmioInv'
  BY <1>b DEF MmioInv, MmioFirst
<1>1. CASE Setup \/ OldProbeDetect \/ OldProbe \/ Probed \/ PreInitEnds \/ PreInitsDone
           \/ GetChipset
  BY <1>1, <1>b DEF Setup, OldProbeDetect, OldProbe, Probed, PreInitEnds, PreInitsDone, GetChipset
<1>2. ASSUME NEW s \in Slots, PciProbe(s) PROVE MmioInv'
  BY <1>2, <1>b DEF PciProbe
<1>3. CASE Finished \/ UNCHANGED vars
  BY <1>3 DEF Finished, vars, probing, given, MmioInv, MmioFirst, IsMmio, Card
<1>4. CASE PreInit
  BY <1>4 DEF PreInit, MmioInv, MmioFirst
<1>5. CASE MapMmio
  <2>1. CASE ~pciAccess
    BY <1>a, <2>1 DEF MmioInv
  <2>2. CASE pc' = "fatal"
    BY <1>b, <2>2
  <2>3. CASE /\ pciAccess /\ NextBar("mmio", "fb")
             /\ \/ IsMmio(bar) /\ screens' = [screens EXCEPT ![cur].ctrl = bar]
                \/ ~IsMmio(bar) /\ UNCHANGED screens
    <3>1. cur \in DOMAIN screens /\ screens[cur] \in Screen /\ cur' = cur /\ bar \in 1 .. 6
      BY <1>5 DEF MapMmio, TypeOK
    <3>2. IsMmio(bar) => screens'[cur].ctrl = bar
      BY <2>3, <3>1 DEF Screen
    <3>3. ~IsMmio(bar) => screens'[cur].ctrl = screens[cur].ctrl
      BY <2>3
    <3>4. \A b \in 1 .. 6 : b <= bar /\ IsMmio(b) => screens'[cur].ctrl # 0
      BY <1>5, <2>3, <3>1, <3>2, <3>3 DEF MmioInv, MapMmio
    <3>5. \A b : IsMmio(b)' <=> IsMmio(b)
      BY <1>a, <3>1 DEF IsMmio, Card
    <3>6. \/ pc' = "mmio" /\ bar' = bar + 1
          \/ pc' = "fb" /\ bar = 6
      BY <2>3, <3>1 DEF NextBar
    <3>7. QED BY <3>1, <3>4, <3>5, <3>6 DEF MmioInv, MmioFirst
  <2>4. QED BY <1>5, <2>1, <2>2, <2>3 DEF MapMmio, MmioFails, IsMmio
<1>6. CASE MapFb
  <2>1. CASE ~pciAccess
    BY <1>a, <2>1 DEF MmioInv
  <2>2. CASE pc' \in {"chipset", "fatal"}
    BY <1>b, <2>2
  <2>3. cur \in DOMAIN screens /\ screens[cur] \in Screen /\ cur' = cur
    BY <1>6 DEF MapFb, TypeOK
  <2>4. \A b : IsMmio(b)' <=> IsMmio(b)
    BY <1>a, <2>3 DEF IsMmio, Card
  <2>5. CASE pc' = "segv"
    <3>1. screens[cur].ctrl = 0 /\ UNCHANGED screens
      BY <1>6, <2>5 DEF MapFb, NextBar
    <3>2. pc = "fb" /\ UNCHANGED pciAccess
      BY <1>6, <1>a DEF MapFb
    <3>3. pciAccess => \A b \in 1 .. 6 : ~IsMmio(b)
      BY <3>1, <3>2 DEF MmioInv
    <3>4. pciAccess' => \A b \in 1 .. 6 : ~IsMmio(b)'
      BY <2>4, <3>2, <3>3
    <3>5. MmioFirst'
      BY <3>4 DEF MmioFirst, IsMmio
    <3>6. QED BY <2>5, <3>5 DEF MmioInv
  <2>6. CASE pciAccess /\ pc' = "fb"
    <3>1. \/ UNCHANGED screens
          \/ \E size : screens' = [screens EXCEPT ![cur].fb = bar, ![cur].fbSize = size]
      BY <1>6, <2>6 DEF MapFb
    <3>2. screens'[cur].ctrl = screens[cur].ctrl
      BY <2>3, <3>1 DEF Screen
    <3>3. QED BY <1>6, <2>3, <2>4, <2>6, <3>2 DEF MmioInv, MmioFirst, MapFb
  <2>7. QED BY <1>6, <2>1, <2>2, <2>5, <2>6 DEF MapFb, NextBar
<1>7. QED
  BY <1>1, <1>2, <1>3, <1>4, <1>5, <1>6 DEF Next

(* PreInit reads no register of a card before it has mapped it. *)
THEOREM RegistersMappedFirst == Spec => []MmioFirst
<1>1. MmioInv => MmioFirst
  BY DEF MmioInv, MmioFirst
<1>2. QED BY <1>1, TypeInit, TypeStep, MmioInit, MmioStep, PTL DEF Spec

-----------------------------------------------------------------------------
(* FbFitsBar is inductive: only MapFb sets fb and fb_size, and a new       *)
(* screen has neither.                                                     *)
LEMMA FbStep == TypeOK /\ FbFitsBar /\ [Next]_vars => FbFitsBar'
<1> SUFFICES ASSUME TypeOK, FbFitsBar, [Next]_vars PROVE FbFitsBar'
  OBVIOUS
<1>a. UNCHANGED <<machine, pciAccess>>
  BY DEF Next, Setup, OldProbeDetect, PciProbe, OldProbe, Probed, PreInit, MapMmio, MapFb,
         GetChipset, PreInitEnds, PreInitsDone, Finished, vars, probing, given
<1>b. ASSUME \A s \in DOMAIN screens' :
               \/ screens'[s].fb = 0
               \/ /\ s \in DOMAIN screens
                  /\ screens'[s].fb = screens[s].fb
                  /\ screens'[s].fbSize = screens[s].fbSize
      PROVE  FbFitsBar'
  BY <1>a, <1>b DEF FbFitsBar
<1>1. CASE Setup \/ OldProbeDetect \/ Probed \/ PreInitsDone \/ Finished \/ UNCHANGED vars
  BY <1>1, <1>b DEF Setup, OldProbeDetect, Probed, PreInitsDone, Finished, vars
<1>2. ASSUME NEW s \in Slots, PciProbe(s) PROVE FbFitsBar'
  <2>1. CASE UNCHANGED screens
    BY <2>1, <1>b
  <2>2. CASE screens' = [t \in DOMAIN screens \cup {s} |->
                           IF t = s THEN NewScreen({}) ELSE screens[t]]
    BY <2>2, <1>b DEF NewScreen
  <2>3. QED BY <1>2, <2>1, <2>2 DEF PciProbe
<1>3. CASE OldProbe
  <2>1. CASE screens' = NoScreens
    BY <2>1, <1>b DEF NoScreens
  <2>2. ASSUME NEW s, NEW others, screens' = [t \in {s} |-> NewScreen(others)]
        PROVE  FbFitsBar'
    BY <2>2, <1>b DEF NewScreen
  <2>3. QED BY <1>3, <2>1, <2>2 DEF OldProbe
<1>4. CASE PreInit \/ PreInitEnds
  BY <1>4, <1>b DEF PreInit, PreInitEnds, Drop
<1>5. CASE MapMmio \/ GetChipset
  <2>1. cur \in DOMAIN screens /\ screens[cur] \in Screen
    BY <1>5 DEF MapMmio, GetChipset, TypeOK
  <2>2. ASSUME NEW c, \/ screens' = [screens EXCEPT ![cur].ctrl = c]
                      \/ screens' = [screens EXCEPT ![cur].chipset = c]
                      \/ UNCHANGED screens
        PROVE  FbFitsBar'
    BY <2>1, <2>2, <1>b DEF Screen, TypeOK
  <2>3. QED BY <1>5, <2>2 DEF MapMmio, MmioFails, GetChipset
<1>6. CASE MapFb
  <2> DEFINE size == FbSize(Card.bars[bar], Card.mem)
  <2>1. /\ cur \in DOMAIN screens /\ screens[cur] \in Screen
        /\ cur \in DOMAIN machine /\ bar \in 1 .. 6
    BY <1>6 DEF MapFb, TypeOK
  <2>2. pciAccess => size <= machine[cur].bars[bar]
    BY <2>1, CardsOfMachine, FbSizeFits DEF Card
  <2>3. CASE ~pciAccess
    BY <1>a, <2>3 DEF FbFitsBar
  <2>4. CASE UNCHANGED screens
    BY <2>4, <1>b
  <2>5. CASE pciAccess /\ screens' = [screens EXCEPT ![cur].fb = bar, ![cur].fbSize = size]
    <3> HIDE DEF size
    <3>1. /\ screens'[cur].fb = bar /\ screens'[cur].fbSize = size
          /\ DOMAIN screens' = DOMAIN screens
          /\ \A s \in DOMAIN screens : s # cur => screens'[s] = screens[s]
      BY <2>1, <2>5 DEF Screen
    <3>2. QED BY <1>a, <2>1, <2>2, <2>5, <3>1 DEF FbFitsBar
  <2>6. QED BY <1>6, <2>3, <2>4, <2>5 DEF MapFb
<1>7. QED
  BY <1>1, <1>2, <1>3, <1>4, <1>5, <1>6 DEF Next

(* With PCIACCESS, the frame buffer lies within its BAR. *)
THEOREM FrameBufferFits == Spec => []FbFitsBar
<1>1. Init => FbFitsBar
  BY DEF Init, FbFitsBar, NoScreens
<1>2. QED BY <1>1, TypeInit, TypeStep, FbStep, PTL DEF Spec
=============================================================================
