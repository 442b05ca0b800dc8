---------------------------- MODULE AvivoScreen ----------------------------
(***************************************************************************)
(* The life of one screen of the avivo driver: PreInit, ScreenInit, the    *)
(* operations of a running server, VT switches, CloseScreen and server     *)
(* regeneration (xorg/avivo.c), with the save and the restore of the       *)
(* card's registers (xorg/avivo_state.c), the GPU memory map               *)
(* (xorg/avivo_memory.c) and the registers that mode setting, DPMS and the *)
(* cursor write (xorg/avivo_crtc.c, xorg/avivo_output.c).                  *)
(*                                                                         *)
(* The server is one thread; a handler is a sequence of steps because      *)
(* avivo_wait_idle may end the server with FatalError, and a handler may   *)
(* return FALSE, after the card was partly reprogrammed.  Registers are    *)
(* grouped by how avivo_state.c treats them.                               *)
(***************************************************************************)
EXTENDS Integers

CONSTANTS
  PciAccess,           \* TRUE: built with PCIACCESS (libpciaccess mappings)
  UseShadow,           \* option ShadowFB
  MemSize,             \* RADEON_CONFIG_MEMSIZE, in units of 64 MB
  MaxMap,              \* 0x10000000: the largest frame buffer that can be mapped
  ConsoleModes,        \* the values the console leaves in registers
  Gfx,                 \* the value the driver leaves in registers
  ConsoleWrites,       \* the sets of registers the console reprograms while it has the VT
  CompatAlwaysDriven   \* TRUE: RandR never takes the CRTC from the compat output

ASSUME ScreenAssumption ==
  /\ PciAccess \in BOOLEAN
  /\ UseShadow \in BOOLEAN
  /\ MemSize \in Nat \ {0}
  /\ MaxMap \in Nat \ {0}
  /\ Gfx \notin ConsoleModes
  /\ CompatAlwaysDriven \in BOOLEAN

-----------------------------------------------------------------------------
(* Registers *)

Crtcs  == {"crtc1", "crtc2"}
NoCrtc == "none"

(* Read by avivo_save_state. *)
Saved == {"mc", "vga_base", "vga_cntl", "pll1", "pll2", "pll_source",
          "crtc1", "crtc1_vsync", "crtc1_blank", "crtc2", "crtc2_hsync",
          "output", "cursor1"}

(* Written by avivo_restore_state: CRTC1_V_SYNC_WID and CRTC2_H_SYNC_WID   *)
(* are under #if 0, CRTC1_BLANK_STATUS is not mentioned.                   *)
Restored == Saved \ {"crtc1_vsync", "crtc1_blank", "crtc2_hsync"}

(* Written by the driver, in no field of struct avivo_state: the window,   *)
(* the expansion and 0x65xx registers of CRTC2, the CRTC source, DC        *)
(* balancer, clock and power sequencer registers of the outputs, 0x454,    *)
(* the second cursor, and the frame buffer itself.                         *)
Unsaved == {"crtc2_window", "output_route", "pll_ctrl", "cursor2", "vram"}

Groups == Saved \cup Unsaved
Values == ConsoleModes \cup {Gfx}

(* avivo_setup_gpu_memory_map *)
MemoryMapWrites == {"mc", "vga_base"}

(* avivo_crtc_mode_set and avivo_crtc_set_pll *)
CrtcWrites(c) ==
  {"vga_cntl", "pll_source", "pll_ctrl", c} \cup
  (IF c = "crtc1" THEN {"pll1", "crtc1_vsync", "crtc1_blank"}
                  ELSE {"pll2", "crtc2_hsync", "crtc2_window"})

(* the setup and the dpms functions of the outputs *)
OutputWrites == {"output", "output_route"}

(* avivo_adjust_frame: OFFSET_START and OFFSET_END of the CRTC *)
FrameWrites(c) == IF c = "crtc1" THEN {"crtc1"} ELSE {"crtc2_window"}

CursorWrites(c) == IF c = "crtc1" THEN {"cursor1"} ELSE {"cursor2"}

(* What setting the mode of CRTC c has written when one of its calls of    *)
(* avivo_wait_idle gives up: in lock, in prepare, or after the PLL.        *)
LockupWrites(c) ==
  {{}, OutputWrites \cup {c}, OutputWrites \cup CrtcWrites(c)}

-----------------------------------------------------------------------------
VARIABLES
  pc,        \* where the screen is in its life, and a handler in its steps
  call,      \* the handler running: "ScreenInit" or "EnterVT"
  vtSema,    \* screen_info->vtSema
  ctrl,      \* avivo->ctrl_base is not NULL
  fbMap,     \* how much is mapped at avivo->fb_base, 0 when it is NULL
  fbSize,    \* avivo->fb_size
  shadows,   \* live allocations of avivo->fb_shadow
  inUse,     \* the CRTCs that drive an output
  compat,    \* the CRTC of the compat output
  todo,      \* the CRTCs whose mode the running handler has yet to set
  hw,        \* the registers
  saved,     \* avivo->saved_state
  con        \* what the console last left in the registers

memory == <<ctrl, fbMap, fbSize, shadows>>
layout == <<inUse, compat>>
vars   == <<pc, call, vtSema, memory, layout, todo, hw, saved, con>>

Terminal == {"exit", "aborted", "abandoned"}
Busy     == {"map", "save", "memmap", "shadow", "modes", "frame"}
Handled  == {"start", "ready", "run", "away"}

TypeOK ==
  /\ pc \in Handled \cup Busy \cup {"failed", "segv"} \cup Terminal
  /\ call \in {"ScreenInit", "EnterVT"}
  /\ vtSema \in BOOLEAN
  /\ ctrl \in BOOLEAN
  /\ fbMap \in Nat
  /\ fbSize \in Nat
  /\ shadows \in Int
  /\ inUse \subseteq Crtcs
  /\ compat \in Crtcs \cup {NoCrtc}
  /\ todo \subseteq Crtcs
  /\ hw \in [Groups -> Values]
  /\ saved \in [Saved -> Values]
  /\ con \in [Groups -> Values]

Init ==
  /\ pc = "start" /\ call = "ScreenInit" /\ vtSema = FALSE
  /\ ctrl = FALSE /\ fbMap = 0 /\ fbSize = 0 /\ shadows = 0
  /\ inUse = {} /\ compat = NoCrtc /\ todo = {}
  /\ \E m \in ConsoleModes :
       /\ hw = [g \in Groups |-> m]
       /\ con = [g \in Groups |-> m]
       /\ saved = [g \in Saved |-> m]     \* xcalloc; never used before a save

(* The driver writes the registers W. *)
Program(W) == hw' = [g \in Groups |-> IF g \in W THEN Gfx ELSE hw[g]]

(* Mutant: restore_state without the output registers. *)
RestoreForgetsOutputs ==
  hw' = [g \in Groups |-> IF g \in Restored \ {"output"} THEN saved[g] ELSE hw[g]]

(* avivo_restore_state *)
Restore == hw' = [g \in Groups |-> IF g \in Restored THEN saved[g] ELSE hw[g]]

SmallerOf(a, b) == IF a <= b THEN a ELSE b

(* avivo_map_fb_mem: what is mapped afterwards; a mapping may fail. *)
MapFb(size) ==
  IF fbMap # 0 THEN fbMap ELSE IF size <= MaxMap THEN size ELSE 0

(* avivo_unmap_ctrl_mem and avivo_unmap_fb_mem *)
UnmapMemory == ctrl' = FALSE /\ fbMap' = 0

-----------------------------------------------------------------------------
(* Mutant: PreInit maps the whole aperture. *)
PreInitMapsAperture ==
  /\ pc = "start"
  /\ pc' = "ready"
  /\ ctrl' = TRUE
  /\ fbSize' = SmallerOf(MemSize, MaxMap)
  /\ fbMap' = MaxMap
  /\ inUse' \in (SUBSET Crtcs) \ {{}}
  /\ compat' \in inUse'
  /\ UNCHANGED <<call, vtSema, shadows, todo, hw, saved, con>>

(* avivo_preinit: maps the control registers and the frame buffer, creates *)
(* the CRTCs and the outputs, picks the initial configuration; or returns  *)
(* FALSE, before or after the mapping, and the server drops the screen.    *)
PreInit ==
  /\ pc = "start"
  /\ \/ /\ ctrl' = TRUE
        /\ fbSize' = SmallerOf(MemSize, MaxMap)
        /\ fbMap' = fbSize'
        /\ \/ /\ pc' = "ready"
              /\ inUse' \in (SUBSET Crtcs) \ {{}}
              /\ compat' \in inUse'
           \/ /\ pc' = "exit"
              /\ UNCHANGED layout
     \/ /\ pc' = "exit"
        /\ UNCHANGED <<ctrl, fbMap, fbSize, layout>>
  /\ UNCHANGED <<call, vtSema, shadows, todo, hw, saved, con>>

(* The server calls ScreenInit, in its first and in later generations. *)
ScreenInit ==
  /\ pc = "ready"
  /\ pc' = "map"
  /\ call' = "ScreenInit"
  /\ UNCHANGED <<vtSema, memory, layout, todo, hw, saved, con>>

(* Mutant: only the control registers are mapped again. *)
MapMemoryForgetsFb ==
  /\ pc = "map"
  /\ pc' = "save"
  /\ IF PciAccess THEN UNCHANGED memory
                  ELSE ctrl' = TRUE /\ fbSize' = MemSize /\ UNCHANGED <<fbMap, shadows>>
  /\ UNCHANGED <<call, vtSema, layout, todo, hw, saved, con>>

(* avivo_screen_init maps again what is not mapped, except in a PCIACCESS  *)
(* build; it does not clamp fb_size the way PreInit does, and it ignores a *)
(* mapping that fails.                                                     *)
MapMemory ==
  /\ pc = "map"
  /\ pc' = "save"
  /\ IF PciAccess
     THEN UNCHANGED memory
     ELSE /\ ctrl' = TRUE
          /\ fbSize' = MemSize
          /\ fbMap' = MapFb(MemSize)
          /\ UNCHANGED shadows
  /\ UNCHANGED <<call, vtSema, layout, todo, hw, saved, con>>

(* Mutant: EnterVT trusts the state ScreenInit saved. *)
EnterVTSkipsSave ==
  /\ pc = "away"
  /\ pc' = "memmap"
  /\ call' = "EnterVT"
  /\ UNCHANGED <<vtSema, memory, layout, todo, hw, saved, con>>

(* The server calls EnterVT when the user switches back. *)
EnterVT ==
  /\ pc = "away"
  /\ pc' = "save"
  /\ call' = "EnterVT"
  /\ UNCHANGED <<vtSema, memory, layout, todo, hw, saved, con>>

(* Mutant: the save runs past the fields of struct avivo_state. *)
SaveStateOverruns ==
  /\ pc = "save"
  /\ saved' = hw
  /\ pc' = "memmap"
  /\ UNCHANGED <<call, vtSema, memory, layout, todo, hw, con>>

(* avivo_save_state, called by ScreenInit and by EnterVT. *)
SaveState ==
  /\ pc = "save"
  /\ IF ctrl
     THEN /\ saved' = [g \in Saved |-> hw[g]]
          /\ pc' = "memmap"
     ELSE /\ pc' = "segv"
          /\ UNCHANGED saved
  /\ UNCHANGED <<call, vtSema, memory, layout, todo, hw, con>>

(* Mutant: EnterVT takes the memory map of the last VT for granted. *)
SetupMemoryMapOnce ==
  /\ pc = "memmap"
  /\ \/ /\ call = "ScreenInit"
        /\ Program(MemoryMapWrites)
        /\ pc' = "shadow"
        /\ UNCHANGED <<vtSema, todo>>
     \/ /\ call = "EnterVT"
        /\ pc' = "modes"
        /\ vtSema' = TRUE
        /\ todo' = inUse
        /\ UNCHANGED hw
  /\ UNCHANGED <<call, memory, layout, saved, con>>

(* avivo_setup_gpu_memory_map, whose avivo_wait_idle may give up; then     *)
(* EnterVT takes vtSema and both handlers go on to set modes, ScreenInit   *)
(* after it built the screen.                                              *)
SetupMemoryMap ==
  /\ pc = "memmap"
  /\ Program(MemoryMapWrites)
  /\ \/ /\ call = "ScreenInit"
        /\ pc' = "shadow"
        /\ UNCHANGED <<vtSema, todo>>
     \/ /\ call = "EnterVT"
        /\ pc' = "modes"
        /\ vtSema' = TRUE
        /\ todo' = inUse
     \/ /\ pc' = "failed"
        /\ UNCHANGED <<vtSema, todo>>
  /\ UNCHANGED <<call, memory, layout, saved, con>>

(* avivo_screen_init from miClearVisualTypes to avivo_shadow_init: any of  *)
(* its calls may fail, before or after fb_shadow is allocated.             *)
BuildScreen ==
  /\ pc = "shadow"
  /\ \/ /\ pc' = "modes"
        /\ todo' = inUse
        /\ shadows' = IF UseShadow THEN shadows + 1 ELSE shadows
     \/ /\ pc' = "failed"
        /\ shadows' \in {shadows, IF UseShadow THEN shadows + 1 ELSE shadows}
        /\ UNCHANGED todo
  /\ UNCHANGED <<call, vtSema, ctrl, fbMap, fbSize, layout, hw, saved, con>>

NextCrtc == IF "crtc1" \in todo THEN "crtc1" ELSE "crtc2"

(* Mutant: the loop over the CRTCs never moves on. *)
SetCrtcModeStuck ==
  /\ pc = "modes"
  /\ todo # {}
  /\ Program(CrtcWrites(NextCrtc) \cup OutputWrites)
  /\ UNCHANGED <<pc, call, vtSema, memory, layout, todo, saved, con>>

(* One turn of the loop over the CRTCs: xf86CrtcSetMode runs lock,         *)
(* prepare, mode_set and commit of the CRTC and of its outputs.  It may    *)
(* return FALSE, and the handler with it; or the chip locks up.            *)
SetCrtcMode ==
  /\ pc = "modes"
  /\ todo # {}
  /\ \/ /\ Program(CrtcWrites(NextCrtc) \cup OutputWrites)
        /\ todo' = todo \ {NextCrtc}
        /\ UNCHANGED pc
     \/ /\ \E W \in LockupWrites(NextCrtc) : Program(W)
        /\ pc' = "failed"
        /\ UNCHANGED todo
  /\ UNCHANGED <<call, vtSema, memory, layout, saved, con>>

(* The loop ends; xf86SetDesiredModes, unlike ScreenInit, also turns off   *)
(* the CRTCs and the outputs that are not used.                            *)
ModesAreSet ==
  /\ pc = "modes"
  /\ todo = {}
  /\ pc' = "frame"
  /\ IF call = "EnterVT"
     THEN Program((Crtcs \ inUse) \cup OutputWrites)
     ELSE UNCHANGED hw
  /\ UNCHANGED <<call, vtSema, memory, layout, todo, saved, con>>

(* avivo_adjust_frame reads crtc->driver_private before it asks whether    *)
(* the compat output has a CRTC.                                           *)
AdjustFrame(done) ==
  IF compat = NoCrtc
  THEN /\ pc' = "segv"
       /\ UNCHANGED hw
  ELSE /\ pc' = done
       /\ IF compat \in inUse THEN Program(FrameWrites(compat))
                              ELSE UNCHANGED hw

(* The handler sets the viewport and returns TRUE; the server sets vtSema  *)
(* when ScreenInit succeeds.  The rest of ScreenInit may still fail.       *)
FinishHandler ==
  /\ pc = "frame"
  /\ \/ /\ AdjustFrame("run")
        /\ vtSema' = (vtSema \/ pc' = "run")
     \/ /\ call = "ScreenInit"
        /\ AdjustFrame("failed")
        /\ UNCHANGED vtSema
  /\ UNCHANGED <<call, memory, layout, todo, saved, con>>

-----------------------------------------------------------------------------
(* The running server *)

(* avivo_switch_mode: xf86SetSingleMode sets the mode of every CRTC in     *)
(* use, one after the other; it may stop at one of them, or lock up there. *)
SwitchMode ==
  /\ pc = "run"
  /\ \E done \in SUBSET inUse :
       \/ /\ Program(OutputWrites \cup UNION {CrtcWrites(c) : c \in done})
          /\ UNCHANGED pc
       \/ /\ \E c \in inUse \ done, W \in {OutputWrites, {}} :
               Program(UNION {CrtcWrites(d) : d \in done} \cup W \cup {c})
          /\ pc' = "failed"
  /\ UNCHANGED <<call, vtSema, memory, layout, todo, saved, con>>

(* RandR gives the CRTCs other outputs: it sets the mode of the CRTCs that *)
(* are used from now on and turns the others off.                          *)
Reconfigure ==
  /\ pc = "run"
  /\ inUse' \in SUBSET Crtcs
  /\ compat' \in inUse' \cup (IF CompatAlwaysDriven THEN {} ELSE {NoCrtc})
  /\ Program(OutputWrites \cup Crtcs \cup UNION {CrtcWrites(c) : c \in inUse'})
  /\ UNCHANGED <<pc, call, vtSema, memory, todo, saved, con>>

(* The server pans the viewport. *)
Pan ==
  /\ pc = "run"
  /\ AdjustFrame("run")
  /\ UNCHANGED <<call, vtSema, memory, layout, todo, saved, con>>

(* xf86DPMSSet: the dpms functions of the outputs and of their CRTCs; the  *)
(* CRTC's waits for the chip to be idle.                                   *)
Dpms ==
  /\ pc = "run"
  /\ Program(OutputWrites \cup inUse)
  /\ pc' \in {"run", "failed"}
  /\ UNCHANGED <<call, vtSema, memory, layout, todo, saved, con>>

(* Position, show and hide of a CRTC's cursor: the driver offers them to   *)
(* the server in avivo_crtc_funcs, though it does not yet call             *)
(* xf86_cursors_init.                                                      *)
MoveCursor ==
  /\ pc = "run"
  /\ \E c \in Crtcs : Program(CursorWrites(c))
  /\ UNCHANGED <<pc, call, vtSema, memory, layout, todo, saved, con>>

(* The server draws into the frame buffer.  With a shadow, damage may be   *)
(* copied after the VT is gone: avivo_window_linear has its test of vtSema *)
(* under #if 0.                                                            *)
Draw ==
  /\ pc = "run" \/ (pc = "away" /\ UseShadow)
  /\ IF fbMap = 0
     THEN /\ pc' = "segv"
          /\ UNCHANGED hw
     ELSE /\ Program({"vram"})
          /\ UNCHANGED pc
  /\ UNCHANGED <<call, vtSema, memory, layout, todo, saved, con>>

(* avivo_leave_vt; the server then clears vtSema. *)
LeaveVT ==
  /\ pc = "run"
  /\ Restore
  /\ vtSema' = FALSE
  /\ pc' = "away"
  /\ UNCHANGED <<call, memory, layout, todo, saved, con>>

(* Whoever has the VT while the server has not reprograms the card. *)
Console ==
  /\ pc = "away"
  /\ \E S \in ConsoleWrites, m \in ConsoleModes :
       /\ hw'  = [g \in Groups |-> IF g \in S THEN m ELSE hw[g]]
       /\ con' = [g \in Groups |-> IF g \in S THEN m ELSE con[g]]
  /\ UNCHANGED <<pc, call, vtSema, memory, layout, todo, saved>>

(* Mutant: CloseScreen keeps the card. *)
CloseScreenKeepsCard ==
  /\ pc \in {"run", "away"}
  /\ UnmapMemory /\ vtSema' = FALSE
  /\ shadows' = IF shadows > 0 THEN shadows - 1 ELSE shadows
  /\ pc' = "ready"
  /\ UNCHANGED <<call, fbSize, layout, todo, hw, saved, con>>

(* Mutant: the shadow is freed with the VT. *)
CloseScreenFreesWithVT ==
  /\ pc \in {"run", "away"}
  /\ IF vtSema THEN Restore ELSE UNCHANGED hw
  /\ UnmapMemory
  /\ vtSema' = FALSE
  /\ shadows' = IF vtSema /\ shadows > 0 THEN shadows - 1 ELSE shadows
  /\ pc' = "ready"
  /\ UNCHANGED <<call, fbSize, layout, todo, saved, con>>

(* avivo_close_screen: gives the VT back if the server has it, unmaps, and *)
(* frees the shadow.                                                       *)
CloseScreen ==
  /\ pc \in {"run", "away"}
  /\ IF vtSema THEN Restore ELSE UNCHANGED hw
  /\ UnmapMemory
  /\ vtSema' = FALSE
  /\ shadows' = IF shadows > 0 THEN shadows - 1 ELSE shadows
  /\ pc' = "ready"
  /\ UNCHANGED <<call, fbSize, layout, todo, saved, con>>

(* avivo_free_screen, when the server exits. *)
FreeScreen ==
  /\ pc = "ready"
  /\ pc' = "exit"
  /\ UNCHANGED <<call, vtSema, memory, layout, todo, hw, saved, con>>

(* FatalError, and a fault, end the server, which calls LeaveVT of every   *)
(* screen whose vtSema is set.                                             *)
Abort ==
  /\ pc \in {"failed", "segv"}
  /\ IF vtSema
     THEN /\ Restore
          /\ pc' = "aborted"
     ELSE /\ pc' = "abandoned"
          /\ UNCHANGED hw
  /\ UNCHANGED <<call, vtSema, memory, layout, todo, saved, con>>

Done ==
  /\ pc \in Terminal
  /\ UNCHANGED vars

-----------------------------------------------------------------------------
(* The steps of a handler once the server has called it. *)
HandlerStep ==
  \/ MapMemory \/ SaveState \/ SetupMemoryMap \/ BuildScreen
  \/ SetCrtcMode \/ ModesAreSet \/ FinishHandler

Next ==
  \/ PreInit \/ ScreenInit \/ EnterVT \/ HandlerStep
  \/ SwitchMode \/ Reconfigure \/ Pan \/ Dpms \/ MoveCursor \/ Draw
  \/ LeaveVT \/ Console \/ CloseScreen \/ FreeScreen \/ Abort \/ Done

Spec == Init /\ [][Next]_vars

(* A handler the server has called keeps running: it is straight-line code *)
(* with bounded loops.                                                     *)
FairSpec == Spec /\ WF_vars(HandlerStep)

-----------------------------------------------------------------------------
(* Properties *)

(* While another owner has the VT, and between generations, every register *)
(* that avivo_restore_state writes holds what the console last left there, *)
(* also when the console changed its mode during an earlier switch and     *)
(* when the server died after EnterVT had taken vtSema.                    *)
ConsoleRestored ==
  pc \in {"start", "ready", "away", "exit", "aborted"} =>
    \A g \in Restored : hw[g] = con[g]

(* From the moment the handler has saved the state until the card is given *)
(* back, saved_state describes the console of the last switch and not an   *)
(* older one, nor a mode of the driver's own.                              *)
SavedIsFresh ==
  (vtSema \/ pc \in {"memmap", "shadow", "modes", "frame", "run"}) =>
    \A g \in Restored : saved[g] = con[g]

(* The driver never overwrites a register it is to restore before it has   *)
(* saved what the console had in it: avivo_save_state comes before         *)
(* avivo_setup_gpu_memory_map and the mode sets in every handler.          *)
SaveBeforeTouch ==
  [][\A g \in Restored :
       (hw'[g] # hw[g] /\ con' = con) => saved[g] = con[g]]_vars

(* The server runs on a card that is wholly the driver's: the memory map,  *)
(* and the mode, PLL and output registers of each CRTC in use, were        *)
(* programmed since the console last had them (ScreenInit and EnterVT      *)
(* reprogram everything restore_state gave back).                          *)
RunsOnOwnMode ==
  pc = "run" =>
    \A g \in MemoryMapWrites \cup OutputWrites \cup UNION {CrtcWrites(c) : c \in inUse} :
      hw[g] = Gfx

(* No handler touches registers or the frame buffer through a NULL base,   *)
(* nor a CRTC that is not there.                                           *)
NoFault == pc # "segv"

(* xf86UnMapVidMem is given the size that was mapped (avivo_unmap_fb_mem   *)
(* uses avivo->fb_size, which ScreenInit changes).                         *)
UnmapWhatWasMapped ==
  [][(fbMap # 0 /\ fbMap' = 0) => fbMap = fbSize]_vars

(* Each generation allocates a shadow frame buffer and CloseScreen frees   *)
(* it, whoever has the VT then: never two are alive, and none when the     *)
(* screen is closed, over any generations and failures of ScreenInit.      *)
NoShadowLeak == /\ shadows \in 0 .. 1
                /\ pc \in {"ready", "exit"} => shadows = 0

(* ScreenInit and EnterVT come back to the server or fail.                 *)
HandlersReturn == (pc \in Busy) ~> (pc \in Handled \cup {"failed", "segv"} \cup Terminal)

(* Whatever setting a mode programs in a CRTC is as the console left it    *)
(* once the console has the card again: the CRTC functions have no save    *)
(* and restore of their own because avivo_state.c is to do it.             *)
CrtcsRestored ==
  pc \in {"ready", "away"} =>
    \A c \in Crtcs : \A g \in CrtcWrites(c) : hw[g] = con[g]

-----------------------------------------------------------------------------
(* The registers of restore_state, as the console's contract sees them.    *)
Owner ==
  IF pc \in {"start", "ready", "away", "exit", "aborted"} THEN "console"
  ELSE IF pc = "abandoned" THEN "nobody"
  ELSE "server"

Handoff == INSTANCE VTHandoff WITH
  Registers <- Restored,
  owner     <- Owner,
  shown     <- [g \in Restored |-> hw[g]],
  text      <- [g \in Restored |-> con[g]]

(* The driver keeps the contract of VTHandoff.                             *)
KeepsHandoff == Handoff!Spec
=============================================================================
