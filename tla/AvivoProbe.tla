----------------------------- MODULE AvivoProbe -----------------------------
(***************************************************************************)
(* From the cards of the machine to the screens of the server: the two     *)
(* probe functions and the first part of avivo_preinit (xorg/avivo.c),     *)
(* which maps the BARs of the screen's card and looks up its family.       *)
(*                                                                         *)
(* A card is its device id, whether it is a VGA controller, the size of    *)
(* each of its six BARs and of its memory (RADEON_CONFIG_MEMSIZE); sizes   *)
(* are powers of two and given by their exponent, 0 for no BAR.            *)
(***************************************************************************)
EXTENDS AvivoChipset

CONSTANTS
  Builds,      \* the builds: TRUE with PCIACCESS, FALSE without
  Slots,       \* the PCI slots
  Cards,       \* the ATI cards that may sit in them
  Machines     \* the machines: the card in each slot that has one

ASSUME ProbeAssumption ==
  /\ Builds \subseteq BOOLEAN
  /\ Slots \subseteq Nat \ {0}
  /\ Cards \subseteq [id : Nat, vga : BOOLEAN, bars : [1 .. 6 -> Nat], mem : Nat]
  /\ Machines \subseteq UNION {[S -> Cards] : S \in SUBSET Slots}

VARIABLES
  pc,        \* what the server does with the driver
  machine,   \* the cards
  pciAccess, \* TRUE: driver and server are built with libpciaccess
  configure, \* TRUE: the server runs as Xorg -configure
  todo,      \* the cards to offer to avivo_pci_probe, the screens to PreInit
  claimed,   \* the cards claimed for the driver
  screens,   \* the screens, each known by the card of entityList[0]
  cur,       \* the screen whose PreInit runs, or 0
  bar        \* its loop variable

given   == <<machine, pciAccess, configure>>
probing == <<given, claimed>>
vars    == <<pc, probing, todo, screens, cur, bar>>

Ended == {"unknown", "segv", "fatal"}    \* FatalError and fault

(* What a screen records: its other cards, the BARs that are mapped (0:    *)
(* none), avivo->fb_size and avivo->chipset.                               *)
Screen == [others : SUBSET Slots, ctrl : 0 .. 6, fb : 0 .. 6, fbSize : Nat,
           chipset : Families \cup {"none"}]

TypeOK ==
  /\ pc \in {"load", "detect", "probe", "preinit", "mmio", "fb", "chipset", "rest", "up"} \cup Ended
  /\ machine \in Machines
  /\ pciAccess \in Builds
  /\ configure \in BOOLEAN
  /\ claimed \subseteq DOMAIN machine
  /\ DOMAIN screens \subseteq claimed
  /\ screens \in [DOMAIN screens -> Screen]
  /\ todo \subseteq IF pc = "probe" THEN DOMAIN machine ELSE DOMAIN screens
  /\ cur \in DOMAIN screens \cup {0} /\ cur \notin todo
  /\ pc \in {"mmio", "fb", "chipset", "rest", "segv"} => cur # 0
  /\ pc \in {"load", "detect", "probe", "preinit", "up"} => cur = 0
  /\ bar \in 1 .. 6

(* A screen as xf86ConfigPciEntity and avivo_get_info leave it. *)
NewScreen(others) ==
  [others |-> others, ctrl |-> 0, fb |-> 0, fbSize |-> 0, chipset |-> "none"]

NoScreens == [s \in {} |-> NewScreen({})]

Init ==
  /\ pc = "load"
  /\ machine \in Machines
  /\ pciAccess \in Builds
  /\ configure \in BOOLEAN
  /\ todo = {} /\ claimed = {}
  /\ screens = NoScreens
  /\ cur = 0 /\ bar = 1

-----------------------------------------------------------------------------
(* avivo_setup registers the driver, once; a PCIACCESS server that makes a *)
(* configuration looks through avivo_device_match itself.                  *)
Setup ==
  /\ pc = "load"
  /\ IF configure /\ ~pciAccess
     THEN pc' = "detect" /\ UNCHANGED todo
     ELSE pc' = "probe" /\ todo' = DOMAIN machine
  /\ UNCHANGED <<probing, screens, cur, bar>>

(* avivo_old_probe with PROBE_DETECT only answers. *)
OldProbeDetect ==
  /\ pc = "detect"
  /\ pc' = "probe" /\ todo' = DOMAIN machine
  /\ UNCHANGED <<probing, screens, cur, bar>>

(* The entries of avivo_device_match. *)
DeviceMatch(card) == card.id \in avivo_device_match /\ card.vga

(* The server claims a card of the list and calls avivo_pci_probe; when    *)
(* the entity is not active there is no screen and the claim is undone.    *)
PciProbe(s) ==
  /\ pc = "probe" /\ pciAccess
  /\ s \in todo
  /\ todo' = todo \ {s}
  /\ \/ /\ DeviceMatch(machine[s])
        /\ screens' = [t \in DOMAIN screens \cup {s} |->
                         IF t = s THEN NewScreen({}) ELSE screens[t]]
        /\ claimed' = claimed \cup {s}
     \/ UNCHANGED <<claimed, screens>>
  /\ UNCHANGED <<pc, given, cur, bar>>

(* avivo_old_probe, which a server with libpciaccess calls only when       *)
(* avivo_pci_probe found nothing: xf86MatchPciInstances claims every card  *)
(* of avivo_pci_chips, and each active one is added to the screen that the *)
(* first of them made.                                                     *)
OldProbe ==
  /\ pc = "probe"
  /\ pciAccess => todo = {} /\ DOMAIN screens = {}
  /\ LET used == {s \in DOMAIN machine : machine[s].id \in avivo_pci_chips} IN
     /\ claimed' = used
     /\ \/ screens' = NoScreens /\ todo' = {}
        \/ \E active \in SUBSET used, s \in used :
             /\ s \in active /\ \A t \in active : s <= t
             /\ screens' = [t \in {s} |-> NewScreen(active \ {s})]
             /\ todo' = {s}
  /\ pc' = "preinit"
  /\ UNCHANGED <<given, cur, bar>>

Probed ==
  /\ pc = "probe" /\ pciAccess
  /\ todo = {} /\ DOMAIN screens # {}
  /\ pc' = "preinit" /\ todo' = DOMAIN screens
  /\ UNCHANGED <<probing, screens, cur, bar>>

-----------------------------------------------------------------------------
(* The card PreInit works on. *)
Card == machine[cur]

(* PreInit of screen s returned FALSE: the server deletes it. *)
Drop(s) == screens' = [t \in DOMAIN screens \ {s} |-> screens[t]]

(* avivo_preinit refuses PROBE_DETECT and the server drops the screen, or  *)
(* a submodule is missing, or the scan of the BARs begins.                 *)
PreInit ==
  /\ pc = "preinit"
  /\ \E s \in todo :
       /\ todo' = todo \ {s}
       /\ IF configure
          THEN Drop(s) /\ UNCHANGED <<pc, cur>>
          ELSE /\ cur' = s
               /\ pc' \in {"mmio", "fatal"}
               /\ UNCHANGED screens
  /\ bar' = 1
  /\ UNCHANGED probing

(* Mutant: the loop runs over seven BARs. *)
NextBarOneMore(loop, after) ==
  IF bar <= 6 THEN bar' = bar + 1 /\ pc' = loop
              ELSE bar' = 1 /\ pc' = after

(* Mutant: the loop runs over the five BARs before the last. *)
NextBarOneLess(loop, after) ==
  IF bar < 5 THEN bar' = bar + 1 /\ pc' = loop
             ELSE bar' = 1 /\ pc' = after

(* A turn of a loop over the BARs that is over after the sixth. *)
NextBar(loop, after) ==
  IF bar < 6 THEN bar' = bar + 1 /\ pc' = loop
             ELSE bar' = 1 /\ pc' = after

(* The mapping of the registers fails: FatalError with PCIACCESS, else     *)
(* PreInit goes on without.                                                *)
MmioFails ==
  /\ UNCHANGED screens
  /\ IF pciAccess THEN pc' = "fatal" /\ UNCHANGED bar
                  ELSE NextBar("mmio", "fb")

(* A BAR of 15 or 16 bits is mapped as the control registers: the first    *)
(* one stays mapped without PCIACCESS, the last one with it.               *)
MapMmio ==
  /\ pc = "mmio"
  /\ IF Card.bars[bar] \in {15, 16}
     THEN \/ /\ screens' = [screens EXCEPT ![cur].ctrl = IF pciAccess \/ @ = 0 THEN bar ELSE @]
             /\ NextBar("mmio", "fb")
          \/ MmioFails
     ELSE /\ UNCHANGED screens
          /\ NextBar("mmio", "fb")
  /\ UNCHANGED <<probing, todo, cur>>

SmallerOf(a, b) == IF a <= b THEN a ELSE b

(* avivo->fb_size: what the register says, at most 256 MB; only the        *)
(* PCIACCESS branch also asks for the size of the BAR.                     *)
FbSize(size, mem) ==
  SmallerOf(28, IF pciAccess THEN SmallerOf(size, mem) ELSE mem)

(* A BAR of 26 bits or more is the frame buffer; INREG reads through       *)
(* ctrl_base, before the mapping without PCIACCESS and after it with.      *)
MapFb ==
  /\ pc = "fb"
  /\ IF Card.bars[bar] < 26
     THEN UNCHANGED screens /\ NextBar("fb", "chipset")
     ELSE IF screens[cur].ctrl = 0
     THEN pc' \in {"segv"} \cup (IF pciAccess THEN {"fatal"} ELSE {}) /\ UNCHANGED <<screens, bar>>
     ELSE LET size == FbSize(Card.bars[bar], Card.mem) IN
          \/ /\ screens' = [screens EXCEPT
                              ![cur].fb = IF pciAccess \/ @ = 0 THEN bar ELSE @,
                              ![cur].fbSize = size]
             /\ NextBar("fb", "chipset")
          \/ /\ pciAccess
             /\ pc' = "fatal"
             /\ UNCHANGED <<screens, bar>>
          \/ /\ ~pciAccess
             /\ screens' = [screens EXCEPT ![cur].fbSize = size]
             /\ NextBar("fb", "chipset")
  /\ UNCHANGED <<probing, todo, cur>>

(* avivo_get_chipset *)
GetChipset ==
  /\ pc = "chipset"
  /\ IF \E f \in Families : Card.id \in chipset_family[f]
     THEN /\ \E f \in Families :
               /\ Card.id \in chipset_family[f]
               /\ screens' = [screens EXCEPT ![cur].chipset = f]
          /\ pc' = "rest"
     ELSE pc' = "unknown" /\ UNCHANGED screens
  /\ UNCHANGED <<probing, todo, cur, bar>>

(* The rest of PreInit (module AvivoScreen): the screen is kept, dropped,  *)
(* or a call ends the server.                                              *)
PreInitEnds ==
  /\ pc = "rest"
  /\ \/ pc' = "preinit" /\ UNCHANGED screens
     \/ pc' = "preinit" /\ Drop(cur)
     \/ pc' = "fatal" /\ UNCHANGED screens
  /\ cur' = 0
  /\ UNCHANGED <<probing, todo, bar>>

PreInitsDone ==
  /\ pc = "preinit" /\ todo = {}
  /\ pc' = "up"
  /\ UNCHANGED <<probing, todo, screens, cur, bar>>

Finished ==
  /\ pc \in Ended \cup {"up"}
  /\ UNCHANGED vars

Next ==
  \/ Setup \/ OldProbeDetect \/ (\E s \in Slots : PciProbe(s)) \/ OldProbe \/ Probed
  \/ PreInit \/ MapMmio \/ MapFb \/ GetChipset \/ PreInitEnds \/ PreInitsDone \/ Finished

Spec == Init /\ [][Next]_vars

-----------------------------------------------------------------------------
(* Properties *)

(* A card that either probe takes is one that PreInit knows, and it gets   *)
(* the family of its name: the lists, which the code is glad to have       *)
(* separate, agree.                                                        *)
KnownChips ==
  /\ pc # "unknown"
  /\ \A s \in DOMAIN screens :
       LET f == screens[s].chipset
       IN f # "none" => machine[s].id \in PCI_CHIP[f] /\ machine[s].id \in avivo_chips[f]

(* On a card with a register BAR, wherever it comes among the BARs and     *)
(* whatever the loops met before, PreInit's read of RADEON_CONFIG_MEMSIZE  *)
(* goes through a mapping; with PCIACCESS, since without it PreInit        *)
(* ignores a mapping that fails.                                           *)
MmioFirst ==
  (pciAccess /\ pc = "segv") => \A b \in 1 .. 6 : Card.bars[b] \notin {15, 16}

(* With PCIACCESS the frame buffer that PreInit announces lies within its  *)
(* BAR, whatever the memory size register says.                            *)
FbFitsBar ==
  pciAccess => \A s \in DOMAIN screens :
    screens[s].fb # 0 => screens[s].fbSize <= machine[s].bars[screens[s].fb]
=============================================================================
