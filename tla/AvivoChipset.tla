--------------------------- MODULE AvivoChipset ---------------------------
(***************************************************************************)
(* The four lists of chips of the driver (xorg/avivo_chipset.c) and the    *)
(* names of the chips (include/avivo_chipset.h).  The lists are separate   *)
(* in the code, each for another reader: libpciaccess, the user, the old   *)
(* PCI layer, the driver itself.  Each is translated on its own here too;  *)
(* a chip is its PCI device id, all are of the vendor ATI.                 *)
(***************************************************************************)
EXTENDS Integers

(* PCI_CHIP_<family>_<id> *)
PCI_CHIP ==
  [R580     |-> {\h7248, \h724E, \h7288, \h7243, \h7245, \h7246, \h7247, \h7249,
                 \h724A, \h724B, \h724C, \h724D, \h724F, \h7280, \h7240, \h7244},
   RV530GL  |-> {\h71D2, \h71DA},
   R520GL   |-> {\h7105, \h7104, \h710E, \h710F},
   RV515    |-> {\h719B, \h7146, \h715E, \h714D, \h7142, \h7180, \h7183, \h7187,
                 \h7147, \h715F, \h719F, \h7143, \h7193, \h7140, \h7181},
   M56GL    |-> {\h71C4, \h71D4},
   M58GL    |-> {\h7106, \h7103},
   M52      |-> {\h714A, \h7149, \h714B, \h714C, \h718B, \h718C, \h7196},
   M54      |-> {\h7145, \h7186, \h718D},
   M56      |-> {\h71C5, \h71D5, \h71DE, \h71D6},
   M58      |-> {\h7102, \h7101, \h7284},
   M64      |-> {\h7188},
   RS690    |-> {\h791E},
   RS690M   |-> {\h791F},
   RS600    |-> {\h793F, \h7941},
   RS600M   |-> {\h7942},
   RV515PCI |-> {\h714E, \h718F},
   RV535    |-> {\h71C3, \h71C1, \h7293, \h7291, \h71C7},
   RV530    |-> {\h71CE, \h71C0, \h71C2, \h71C6, \h71CD},
   R520     |-> {\h7100, \h7108, \h7109, \h710A, \h710B, \h710C}]

(* enum avivo_chip_type *)
Families ==
  {"R580", "RV530GL", "R520GL", "RV515", "M56GL", "M58GL", "M52", "M54", "M56", "M58",
   "M64", "RS690", "RS690M", "RS600", "RS600M", "RV515PCI", "RV535", "RV530", "R520"}

(* avivo_device_match: the display controllers (class 0x030000) that a     *)
(* PCIACCESS server offers to avivo_pci_probe.                             *)
avivo_device_match ==
  {\h7248, \h71D2, \h71DA, \h7105, \h7104, \h710E, \h710F, \h719B, \h724E, \h71C4,
   \h71D4, \h7106, \h7103, \h714A, \h7149, \h714B, \h714C, \h718B, \h718C, \h7196,
   \h7145, \h7186, \h718D, \h71C5, \h71D5, \h71DE, \h71D6, \h7102, \h7101, \h7284,
   \h791E, \h791F, \h7288, \h793F, \h7941, \h7942, \h7146, \h714E, \h715E, \h714D,
   \h71C3, \h718F, \h7142, \h7180, \h7183, \h7187, \h7147, \h715F, \h719F, \h7143,
   \h7193, \h71CE, \h7140, \h71C0, \h71C2, \h71C6, \h7181, \h71CD, \h71C1, \h7293,
   \h7291, \h71C7, \h7100, \h7108, \h7109, \h710A, \h710B, \h710C, \h7243, \h7245,
   \h7246, \h7247, \h7249, \h724A, \h724B, \h724C, \h724D, \h724F, \h7280, \h7240,
   \h7244, \h7188}

(* avivo_chips: the name shown to the user begins with the family.         *)
avivo_chips ==
  [R580     |-> {\h7248, \h724E, \h7288, \h7243, \h7245, \h7246, \h7247, \h7249,
                 \h724A, \h724B, \h724C, \h724D, \h724F, \h7280, \h7240, \h7244},
   RV530GL  |-> {\h71D2, \h71DA},
   R520GL   |-> {\h7105, \h7104, \h710E, \h710F},
   RV515    |-> {\h719B, \h7146, \h715E, \h714D, \h7142, \h7180, \h7183, \h7187,
                 \h7147, \h715F, \h719F, \h7143, \h7193, \h7140, \h7181},
   M56GL    |-> {\h71C4, \h71D4},
   M58GL    |-> {\h7106, \h7103},
   M52      |-> {\h714A, \h7149, \h714B, \h714C, \h718B, \h718C, \h7196},
   M54      |-> {\h7145, \h7186, \h718D},
   M56      |-> {\h71C5, \h71D5, \h71DE, \h71D6},
   M58      |-> {\h7102, \h7101, \h7284},
   M64      |-> {\h7188},
   RS690    |-> {\h791E},
   RS690M   |-> {\h791F},
   RS600    |-> {\h793F, \h7941},
   RS600M   |-> {\h7942},
   RV515PCI |-> {\h714E, \h718F},
   RV535    |-> {\h71C3, \h71C1, \h7293, \h7291, \h71C7},
   RV530    |-> {\h71CE, \h71C0, \h71C2, \h71C6, \h71CD},
   R520     |-> {\h7100, \h7108, \h7109, \h710A, \h710B, \h710C}]

(* avivo_pci_chips: what xf86MatchPciInstances looks for in the old probe. *)
avivo_pci_chips ==
  {\h7248, \h71D2, \h71DA, \h7105, \h7104, \h710E, \h710F, \h719B, \h724E, \h71C4,
   \h71D4, \h7106, \h7103, \h714A, \h7149, \h714B, \h714C, \h718B, \h718C, \h7196,
   \h7145, \h7186, \h718D, \h71C5, \h71D5, \h71DE, \h71D6, \h7102, \h7101, \h7284,
   \h7188, \h791E, \h791F, \h7288, \h793F, \h7941, \h7942, \h7146, \h714E, \h715E,
   \h714D, \h71C3, \h718F, \h7142, \h7180, \h7183, \h7187, \h7147, \h715F, \h719F,
   \h7143, \h7193, \h71CE, \h7140, \h71C0, \h71C2, \h71C6, \h7181, \h71CD, \h71C1,
   \h7293, \h7291, \h71C7, \h7100, \h7108, \h7109, \h710A, \h710B, \h710C, \h7243,
   \h7245, \h7246, \h7247, \h7249, \h724A, \h724B, \h724C, \h724D, \h724F, \h7280,
   \h7240, \h7244}

(* Mutant: a row is forgotten. *)
chipset_family_short == [PCI_CHIP EXCEPT !.RV530 = {\h71CE, \h71C0, \h71C2, \h71C6}]

(* chipset_family: the family avivo_get_chipset finds for a device.        *)
chipset_family ==
  [R580     |-> {\h7248, \h724E, \h7288, \h7243, \h7245, \h7246, \h7247, \h7249,
                 \h724A, \h724B, \h724C, \h724D, \h724F, \h7280, \h7240, \h7244},
   RV530GL  |-> {\h71D2, \h71DA},
   R520GL   |-> {\h7105, \h7104, \h710E, \h710F},
   RV515    |-> {\h719B, \h7146, \h715E, \h714D, \h7142, \h7180, \h7183, \h7187,
                 \h7147, \h715F, \h719F, \h7143, \h7193, \h7140, \h7181},
   M56GL    |-> {\h71C4, \h71D4},
   M58GL    |-> {\h7106, \h7103},
   M52      |-> {\h714A, \h7149, \h714B, \h714C, \h718B, \h718C, \h7196},
   M54      |-> {\h7145, \h7186, \h718D},
   M56      |-> {\h71C5, \h71D5, \h71DE, \h71D6},
   M58      |-> {\h7102, \h7101, \h7284},
   M64      |-> {\h7188},
   RS690    |-> {\h791E},
   RS690M   |-> {\h791F},
   RS600    |-> {\h793F, \h7941},
   RS600M   |-> {\h7942},
   RV515PCI |-> {\h714E, \h718F},
   RV535    |-> {\h71C3, \h71C1, \h7293, \h7291, \h71C7},
   RV530    |-> {\h71CE, \h71C0, \h71C2, \h71C6, \h71CD},
   R520     |-> {\h7100, \h7108, \h7109, \h710A, \h710B, \h710C}]
=============================================================================
