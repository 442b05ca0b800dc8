------------------------- MODULE AvivoScreenProofs -------------------------
(***************************************************************************)
(* What AvivoScreen guarantees whatever the memory size, the build, the    *)
(* console's modes and the registers it reprograms.                        *)
(***************************************************************************)
EXTENDS AvivoScreen, TLAPS

(* The places where the card is still, or again, the console's.            *)
Untouched ==
  pc \in {"start", "ready", "map", "save", "away", "exit", "aborted"} =>
    \A g \in Restored : hw[g] = con[g]

(* vtSema is only set where a handler has saved the state, and the running *)
(* server has it.                                                          *)
VtSemaOK ==
  /\ vtSema => pc \in {"modes", "frame", "run", "failed", "segv", "aborted"}
  /\ pc = "run" => vtSema

(* ConsoleRestored is not inductive: that LeaveVT, CloseScreen and Abort   *)
(* give back the right values rests on what SaveState read, and that it    *)
(* read the console's on nothing having been touched since.                *)
IInv == TypeOK /\ SavedIsFresh /\ VtSemaOK /\ Untouched

-----------------------------------------------------------------------------
(* Restored registers have a saved value; the frame buffer is not one.     *)
LEMMA RestoredFacts == Restored \subseteq Saved /\ Saved \subseteq Groups /\ "vram" \notin Restored
BY DEF Restored, Saved, Groups, Unsaved

(* Programming registers leaves the others alone and stays in the types.   *)
LEMMA ProgramFacts ==
  ASSUME NEW W, TypeOK, Program(W)
  PROVE  /\ hw' \in [Groups -> Values]
         /\ \A g \in Groups \ W : hw'[g] = hw[g]
BY DEF Program, TypeOK, Values

(* avivo_restore_state writes exactly the restored registers.              *)
LEMMA RestoreFacts ==
  ASSUME TypeOK, Restore
  PROVE  /\ hw' \in [Groups -> Values]
         /\ \A g \in Restored : hw'[g] = saved[g]
BY RestoredFacts DEF Restore, TypeOK, Values

(* AdjustFrame writes registers of the compat output's CRTC, or faults.    *)
LEMMA AdjustFrameFacts ==
  ASSUME NEW done, TypeOK, AdjustFrame(done)
  PROVE  /\ hw' \in [Groups -> Values]
         /\ pc' \in {"segv", done}
<1>1. CASE compat = NoCrtc
  BY <1>1 DEF AdjustFrame, TypeOK
<1>2. CASE compat # NoCrtc
  BY <1>2, ProgramFacts DEF AdjustFrame, TypeOK
<1> QED BY <1>1, <1>2

-----------------------------------------------------------------------------
(* No step of the server, of a handler or of the console leaves the types. *)
LEMMA TypeStep ==
  ASSUME TypeOK, [Next]_vars
  PROVE  TypeOK'
<1> USE DEF Handled, Busy, Terminal
<1>1. CASE PreInit
  BY <1>1, ScreenAssumption DEF PreInit, TypeOK, layout, SmallerOf, Crtcs, NoCrtc
<1>2. CASE ScreenInit
  BY <1>2 DEF ScreenInit, TypeOK, layout, memory
<1>3. CASE EnterVT
  BY <1>3 DEF EnterVT, TypeOK, layout, memory
<1>4. CASE MapMemory
  BY <1>4, ScreenAssumption DEF MapMemory, MapFb, TypeOK, layout, memory
<1>5. CASE SaveState
  BY <1>5, RestoredFacts DEF SaveState, TypeOK, layout, memory
<1>6. CASE SetupMemoryMap
  BY <1>6, ProgramFacts DEF SetupMemoryMap, TypeOK, layout, memory
<1>7. CASE BuildScreen
  BY <1>7 DEF BuildScreen, TypeOK, layout
<1>8. CASE SetCrtcMode
  <2>1. hw' \in [Groups -> Values]
    BY <1>8, ProgramFacts DEF SetCrtcMode
  <2> QED BY <1>8, <2>1 DEF SetCrtcMode, TypeOK, layout, memory
<1>9. CASE ModesAreSet
  <2>1. hw' \in [Groups -> Values]
    BY <1>9, ProgramFacts DEF ModesAreSet, TypeOK
  <2> QED BY <1>9, <2>1 DEF ModesAreSet, TypeOK, layout, memory
<1>10. CASE FinishHandler
  <2>1. hw' \in [Groups -> Values] /\ pc' \in {"segv", "run", "failed"}
    BY <1>10, AdjustFrameFacts DEF FinishHandler
  <2>2. vtSema' \in BOOLEAN
    BY <1>10 DEF FinishHandler, TypeOK
  <2> QED BY <1>10, <2>1, <2>2 DEF FinishHandler, TypeOK, layout, memory
<1>11. CASE SwitchMode
  <2>1. hw' \in [Groups -> Values]
    BY <1>11, ProgramFacts DEF SwitchMode
  <2> QED BY <1>11, <2>1 DEF SwitchMode, TypeOK, layout, memory
<1>12. CASE Reconfigure
  <2>1. hw' \in [Groups -> Values]
    BY <1>12, ProgramFacts DEF Reconfigure
  <2> QED BY <1>12, <2>1 DEF Reconfigure, TypeOK, memory
<1>13. CASE Pan
  <2>1. hw' \in [Groups -> Values] /\ pc' \in {"segv", "run"}
    BY <1>13, AdjustFrameFacts DEF Pan
  <2> QED BY <1>13, <2>1 DEF Pan, TypeOK, layout, memory
<1>14. CASE Dpms
  BY <1>14, ProgramFacts DEF Dpms, TypeOK, layout, memory
<1>15. CASE MoveCursor
  BY <1>15, ProgramFacts DEF MoveCursor, TypeOK, layout, memory
<1>16. CASE Draw
  <2>1. hw' \in [Groups -> Values]
    BY <1>16, ProgramFacts DEF Draw, TypeOK
  <2> QED BY <1>16, <2>1 DEF Draw, TypeOK, layout, memory
<1>17. CASE LeaveVT
  BY <1>17, RestoreFacts DEF LeaveVT, TypeOK, layout, memory
<1>18. CASE Console
  BY <1>18 DEF Console, TypeOK, layout, memory, Values
<1>19. CASE CloseScreen
  <2>1. hw' \in [Groups -> Values]
    BY <1>19, RestoreFacts DEF CloseScreen, UnmapMemory, TypeOK
  <2>2. vtSema' \in BOOLEAN /\ ctrl' \in BOOLEAN
    BY <1>19 DEF CloseScreen, UnmapMemory
  <2>3. fbMap' \in Nat /\ shadows' \in Int
    BY <1>19 DEF CloseScreen, UnmapMemory, TypeOK
  <2> QED BY <1>19, <2>1, <2>2, <2>3 DEF CloseScreen, UnmapMemory, TypeOK, layout
<1>20. CASE FreeScreen
  BY <1>20 DEF FreeScreen, TypeOK, layout, memory
<1>21. CASE Abort
  <2>1. hw' \in [Groups -> Values]
    BY <1>21, RestoreFacts DEF Abort, TypeOK
  <2> QED BY <1>21, <2>1 DEF Abort, TypeOK, layout, memory
<1>22. CASE UNCHANGED vars
  BY <1>22 DEF vars, TypeOK, layout, memory
<1> QED BY <1>1, <1>2, <1>3, <1>4, <1>5, <1>6, <1>7, <1>8, <1>9, <1>10, <1>11, <1>12,
           <1>13, <1>14, <1>15, <1>16, <1>17, <1>18, <1>19, <1>20, <1>21, <1>22
        DEF Next, HandlerStep, Done

(* PreInit has not run: nothing is mapped and the card is the console's.   *)
LEMMA TypeInit ==
  ASSUME Init
  PROVE  TypeOK
<1>1. PICK m \in ConsoleModes : /\ hw = [g \in Groups |-> m]
                                /\ con = [g \in Groups |-> m]
                                /\ saved = [g \in Saved |-> m]
  BY DEF Init
<1>2. /\ hw \in [Groups -> Values]
      /\ con \in [Groups -> Values]
      /\ saved \in [Saved -> Values]
  BY <1>1 DEF Values
<1>3. vtSema \in BOOLEAN /\ ctrl \in BOOLEAN
  BY DEF Init
<1>4. fbMap \in Nat /\ fbSize \in Nat /\ shadows \in Int
  BY DEF Init
<1> QED BY <1>2, <1>3, <1>4 DEF Init, TypeOK, Handled, Crtcs, NoCrtc

(* The variables keep their types: avivo.c's state for every constant.     *)
THEOREM TypeCorrect == Spec => []TypeOK
<1>1. Init => TypeOK
  BY TypeInit
<1>2. TypeOK /\ [Next]_vars => TypeOK'
  BY TypeStep
<1> QED BY <1>1, <1>2, PTL DEF Spec

-----------------------------------------------------------------------------
(* A step that only writes registers restore_state does not give back, or  *)
(* none, or gives all of them back, keeps IInv; so does every step.        *)
LEMMA InvStep ==
  ASSUME IInv, [Next]_vars
  PROVE  IInv'
<1> TypeOK'
  BY TypeStep DEF IInv
<1> SUFFICES (SavedIsFresh /\ VtSemaOK /\ Untouched)'
  BY DEF IInv
<1> USE DEF IInv, SavedIsFresh, VtSemaOK, Untouched
<1>1. CASE PreInit
  BY <1>1 DEF PreInit
<1>2. CASE ScreenInit
  BY <1>2 DEF ScreenInit
<1>3. CASE EnterVT
  BY <1>3 DEF EnterVT
<1>4. CASE MapMemory
  BY <1>4 DEF MapMemory, MapFb
<1>5. CASE SaveState
  BY <1>5, RestoredFacts DEF SaveState
<1>6. CASE SetupMemoryMap
  BY <1>6 DEF SetupMemoryMap
<1>7. CASE BuildScreen
  BY <1>7 DEF BuildScreen
<1>8. CASE SetCrtcMode
  BY <1>8 DEF SetCrtcMode
<1>9. CASE ModesAreSet
  BY <1>9 DEF ModesAreSet
<1>10. CASE FinishHandler
  <2>1. pc' \in {"segv", "run", "failed"}
    BY <1>10, AdjustFrameFacts DEF FinishHandler
  <2> QED BY <1>10, <2>1 DEF FinishHandler, AdjustFrame
<1>11. CASE SwitchMode
  BY <1>11 DEF SwitchMode
<1>12. CASE Reconfigure
  BY <1>12 DEF Reconfigure
<1>13. CASE Pan
  BY <1>13, AdjustFrameFacts DEF Pan
<1>14. CASE Dpms
  BY <1>14 DEF Dpms
<1>15. CASE MoveCursor
  BY <1>15 DEF MoveCursor
<1>16. CASE Draw
  <2>1. \A g \in Restored : hw'[g] = hw[g]
    BY <1>16, RestoredFacts, ProgramFacts DEF Draw
  <2> QED BY <1>16, <2>1 DEF Draw
<1>17. CASE LeaveVT
  BY <1>17, RestoreFacts DEF LeaveVT
<1>18. CASE Console
  BY <1>18, RestoredFacts DEF Console, TypeOK
<1>19. CASE CloseScreen
  <2>1. \A g \in Restored : hw'[g] = con[g]
    BY <1>19, RestoreFacts DEF CloseScreen, UnmapMemory
  <2> QED BY <1>19, <2>1 DEF CloseScreen, UnmapMemory
<1>20. CASE FreeScreen
  BY <1>20 DEF FreeScreen
<1>21. CASE Abort
  BY <1>21, RestoreFacts DEF Abort
<1>22. CASE UNCHANGED vars
  BY <1>22 DEF vars
<1> QED BY <1>1, <1>2, <1>3, <1>4, <1>5, <1>6, <1>7, <1>8, <1>9, <1>10, <1>11, <1>12,
           <1>13, <1>14, <1>15, <1>16, <1>17, <1>18, <1>19, <1>20, <1>21, <1>22
        DEF Next, HandlerStep, Done

(* The inductive invariant holds of every reachable state.                 *)
THEOREM Inductive == Spec => []IInv
<1>1. Init => TypeOK
  BY TypeInit
<1>2. Init => IInv
  <2> SUFFICES ASSUME Init PROVE IInv
    OBVIOUS
  <2>1. \A g \in Restored : hw[g] = con[g]
    BY RestoredFacts DEF Init
  <2> QED BY <1>1, <2>1 DEF Init, IInv, SavedIsFresh, VtSemaOK, Untouched
<1>3. IInv /\ [Next]_vars => IInv'
  BY InvStep
<1> QED BY <1>2, <1>3, PTL DEF Spec

(* While the console has the card, every register restore_state writes     *)
(* holds what the console left there (avivo_leave_vt, avivo_close_screen). *)
THEOREM ConsoleIsRestored == Spec => []ConsoleRestored
<1>1. IInv => ConsoleRestored
  BY DEF IInv, Untouched, ConsoleRestored
<1> QED BY <1>1, Inductive, PTL

-----------------------------------------------------------------------------
(* Where the saved state is known to be the console's. *)
SaveFreshHere == vtSema \/ pc \in {"memmap", "shadow", "modes", "frame", "run"}

(* The steps that write a register restore_state gives back, other than by *)
(* giving it back or on the console's behalf, run when saved_state holds   *)
(* the console's value of each: no handler programs the card unsaved.      *)
THEOREM TouchAfterSave == Spec => SaveBeforeTouch
<1>1. IInv /\ [Next]_vars =>
        [\A g \in Restored : (hw'[g] # hw[g] /\ con' = con) => saved[g] = con[g]]_vars
  <2> SUFFICES ASSUME IInv, [Next]_vars, NEW g \in Restored, hw'[g] # hw[g], con' = con
               PROVE  saved[g] = con[g]
    OBVIOUS
  <2>1. hw' # hw
    OBVIOUS
  <2>2. CASE SaveFreshHere
    BY <2>2 DEF SaveFreshHere, IInv, SavedIsFresh
  <2>3. CASE ~SaveFreshHere
    <3> USE DEF SaveFreshHere
    <3>1. ~(SwitchMode \/ Reconfigure \/ Pan \/ Dpms \/ MoveCursor \/ LeaveVT)
      BY <2>3 DEF SwitchMode, Reconfigure, Pan, Dpms, MoveCursor, LeaveVT
    <3>2. ~(SetupMemoryMap \/ SetCrtcMode \/ ModesAreSet \/ FinishHandler)
      BY <2>3 DEF SetupMemoryMap, SetCrtcMode, ModesAreSet, FinishHandler
    <3>3. ~(PreInit \/ ScreenInit \/ EnterVT \/ MapMemory \/ SaveState \/ BuildScreen \/ FreeScreen)
      BY <2>1 DEF PreInit, ScreenInit, EnterVT, MapMemory, MapFb, SaveState, BuildScreen, FreeScreen
    <3>4. ~Abort /\ ~CloseScreen /\ ~UNCHANGED vars
      BY <2>1, <2>3 DEF Abort, CloseScreen, UnmapMemory, vars
    <3>5. ~Draw
      BY RestoredFacts, ProgramFacts DEF Draw, IInv
    <3>6. ~Console
      <4> SUFFICES ASSUME Console PROVE FALSE
        OBVIOUS
      <4>1. hw[g] = con[g]
        BY DEF Console, IInv, Untouched
      <4>2. hw'[g] = con'[g]
        BY <4>1, RestoredFacts DEF Console
      <4> QED BY <4>1, <4>2
    <3> QED BY <3>1, <3>2, <3>3, <3>4, <3>5, <3>6 DEF Next, HandlerStep, Done
  <2> QED BY <2>2, <2>3
<1> QED BY <1>1, Inductive, PTL DEF Spec, SaveBeforeTouch

-----------------------------------------------------------------------------
(* Drawing, like saving, leaves the registers of the contract alone.       *)
LEMMA HandoffStep ==
  ASSUME IInv, IInv', [Next]_vars
  PROVE  [Handoff!Next]_(Handoff!vars)
<1> DEFINE S == [g \in Restored |-> hw[g]]
           T == [g \in Restored |-> con[g]]
<1> USE DEF Handoff!vars, Handoff!Next, Handoff!States
<1>0. S' \in [Restored -> Values] /\ T' \in [Restored -> Values]
  BY RestoredFacts DEF IInv, TypeOK
<1>1. CASE PreInit \/ FreeScreen
  BY <1>1 DEF PreInit, FreeScreen, Owner
<1>2. CASE ScreenInit \/ EnterVT
  BY <1>2 DEF ScreenInit, EnterVT, Owner, Handoff!Take
<1>3. CASE MapMemory \/ SaveState \/ BuildScreen
  BY <1>3 DEF MapMemory, MapFb, SaveState, BuildScreen, Owner
<1>4. CASE SetupMemoryMap \/ SetCrtcMode \/ ModesAreSet
  BY <1>0, <1>4 DEF SetupMemoryMap, SetCrtcMode, ModesAreSet, Owner, Handoff!Drive
<1>5. CASE FinishHandler \/ Pan
  <2>1. Owner = "server" /\ Owner' = "server" /\ con' = con
    BY <1>5, AdjustFrameFacts DEF FinishHandler, Pan, Owner, IInv
  <2> QED BY <1>0, <2>1 DEF Handoff!Drive
<1>6. CASE SwitchMode \/ Reconfigure \/ Dpms \/ MoveCursor
  BY <1>0, <1>6 DEF SwitchMode, Reconfigure, Dpms, MoveCursor, Owner, Handoff!Drive
<1>7. CASE Draw
  <2>1. S' = S /\ con' = con
    BY <1>7, RestoredFacts, ProgramFacts DEF Draw, IInv
  <2>2. CASE pc' = pc
    BY <2>1, <2>2 DEF Owner
  <2>3. CASE pc' # pc
    BY <1>7, <2>1, <2>3 DEF Draw, Owner, Handoff!Take
  <2> QED BY <2>2, <2>3
<1>8. CASE LeaveVT \/ CloseScreen
  <2>1. con' = con /\ S' = T
    BY <1>8, RestoreFacts DEF LeaveVT, CloseScreen, UnmapMemory, IInv, SavedIsFresh, VtSemaOK, Untouched
  <2>2. CASE pc = "run"
    BY <1>8, <2>1, <2>2 DEF LeaveVT, CloseScreen, UnmapMemory, Owner, Handoff!Give
  <2>3. CASE pc = "away"
    <3>1. S' = S
      BY <2>1, <2>3 DEF IInv, Untouched
    <3> QED BY <1>8, <2>1, <2>3, <3>1 DEF LeaveVT, CloseScreen, UnmapMemory, Owner
  <2> QED BY <1>8, <2>2, <2>3 DEF LeaveVT, CloseScreen, UnmapMemory
<1>9. CASE Console
  <2>1. S' = T'
    BY <1>9 DEF Console, IInv, Untouched
  <2> QED BY <1>0, <1>9, <2>1 DEF Console, Owner, Handoff!Retext
<1>10. CASE Abort
  <2>1. CASE vtSema
    <3>1. con' = con /\ S' = T
      BY <1>10, <2>1, RestoreFacts DEF Abort, IInv, SavedIsFresh
    <3> QED BY <1>10, <2>1, <3>1 DEF Abort, Owner, Handoff!Give
  <2>2. CASE ~vtSema
    BY <1>10, <2>2 DEF Abort, Owner, Handoff!Lose
  <2> QED BY <2>1, <2>2
<1>11. CASE UNCHANGED vars
  BY <1>11 DEF vars, Owner
<1> QED BY <1>1, <1>2, <1>3, <1>4, <1>5, <1>6, <1>7, <1>8, <1>9, <1>10, <1>11
        DEF Next, HandlerStep, Done

(* The driver, with its saves, restores, failures and faults, implements   *)
(* the contract between two owners of one card.                            *)
THEOREM ImplementsHandoff == Spec => KeepsHandoff
<1>1. Init => Handoff!Init
  <2> SUFFICES ASSUME Init PROVE Handoff!Init
    OBVIOUS
  <2>1. TypeOK
    BY TypeInit
  <2>2. [g \in Restored |-> con[g]] \in [Restored -> Values]
    BY <2>1, RestoredFacts DEF TypeOK
  <2>3. [g \in Restored |-> hw[g]] = [g \in Restored |-> con[g]]
    BY RestoredFacts DEF Init
  <2> QED BY <2>2, <2>3 DEF Handoff!Init, Handoff!States, Init, Owner
<1>2. IInv /\ IInv' /\ [Next]_vars => [Handoff!Next]_(Handoff!vars)
  BY HandoffStep
<1> QED BY <1>1, <1>2, Inductive, PTL DEF Spec, KeepsHandoff, Handoff!Spec

-----------------------------------------------------------------------------
(* A shadow is alive only between BuildScreen and CloseScreen; EnterVT,    *)
(* which shares the steps around BuildScreen, does not run it.             *)
ShadowInv ==
  /\ shadows \in 0 .. 1
  /\ pc = "shadow" => call = "ScreenInit"
  /\ (pc \in {"start", "ready", "map", "shadow", "exit"} \/
      (pc \in {"save", "memmap"} /\ call = "ScreenInit")) => shadows = 0

(* avivo_close_screen frees the one shadow that ScreenInit allocated.      *)
THEOREM ShadowIsFreed == Spec => []NoShadowLeak
<1>1. Init => ShadowInv
  BY DEF Init, ShadowInv
<1>2. ShadowInv /\ [Next]_vars => ShadowInv'
  <2> SUFFICES ASSUME ShadowInv, [Next]_vars PROVE ShadowInv'
    OBVIOUS
  <2> USE DEF ShadowInv, memory
  <2>1. CASE PreInit \/ ScreenInit \/ EnterVT \/ FreeScreen
    BY <2>1 DEF PreInit, ScreenInit, EnterVT, FreeScreen
  <2>2. CASE MapMemory \/ SaveState \/ SetupMemoryMap
    BY <2>2 DEF MapMemory, MapFb, SaveState, SetupMemoryMap
  <2>3. CASE BuildScreen
    BY <2>3 DEF BuildScreen
  <2>4. CASE SetCrtcMode \/ ModesAreSet
    BY <2>4 DEF SetCrtcMode, ModesAreSet
  <2>5. CASE FinishHandler \/ Pan
    BY <2>5 DEF FinishHandler, Pan, AdjustFrame
  <2>6. CASE SwitchMode \/ Reconfigure \/ Dpms \/ MoveCursor \/ Draw
    BY <2>6 DEF SwitchMode, Reconfigure, Dpms, MoveCursor, Draw
  <2>7. CASE LeaveVT \/ Console \/ Abort
    BY <2>7 DEF LeaveVT, Console, Abort
  <2>8. CASE CloseScreen
    BY <2>8 DEF CloseScreen, UnmapMemory
  <2>9. CASE UNCHANGED vars
    BY <2>9 DEF vars
  <2> QED BY <2>1, <2>2, <2>3, <2>4, <2>5, <2>6, <2>7, <2>8, <2>9
          DEF Next, HandlerStep, Done
<1>3. ShadowInv => NoShadowLeak
  BY DEF ShadowInv, NoShadowLeak
<1> QED BY <1>1, <1>2, <1>3, PTL DEF Spec

-----------------------------------------------------------------------------
(* The configuration in which the driver is sound: xf86MapPciMem mappings, *)
(* a frame buffer that can be mapped whole, and a compat output that keeps *)
(* its CRTC.  Each part is necessary: see the README.                      *)
SoundConfiguration == ~PciAccess /\ MemSize <= MaxMap /\ CompatAlwaysDriven

(* What is mapped, and that the compat output has a CRTC.                  *)
MemoryInv ==
  /\ pc \notin {"start", "exit"} => fbSize = MemSize /\ compat # NoCrtc
  /\ fbMap # 0 => fbMap = fbSize
  /\ pc \in {"save", "memmap", "shadow", "modes", "frame", "run", "away"} => ctrl /\ fbMap # 0
  /\ pc # "segv"

LEMMA MemoryInvariant ==
  ASSUME SoundConfiguration
  PROVE  Spec => [](TypeOK /\ MemoryInv)
<1>0. ~PciAccess /\ MemSize <= MaxMap /\ CompatAlwaysDriven /\ MemSize \in Nat \ {0} /\ MaxMap \in Nat
  BY ScreenAssumption DEF SoundConfiguration
<1>1. Init => MemoryInv
  BY DEF Init, MemoryInv, Busy
<1>2. TypeOK /\ MemoryInv /\ [Next]_vars => MemoryInv'
  <2> SUFFICES ASSUME TypeOK, MemoryInv, [Next]_vars PROVE MemoryInv'
    OBVIOUS
  <2> USE <1>0 DEF MemoryInv, memory, layout, Busy
  <2>1. CASE PreInit
    <3>1. CASE pc' = "exit"
      BY <2>1, <3>1 DEF PreInit
    <3>2. CASE pc' = "ready"
      <4>1. fbSize' = MemSize /\ fbMap' = fbSize' /\ compat' # NoCrtc
        BY <2>1, <3>2 DEF PreInit, SmallerOf, Crtcs, NoCrtc
      <4> QED BY <3>2, <4>1
    <3> QED BY <2>1, <3>1, <3>2 DEF PreInit
  <2>2. CASE ScreenInit \/ EnterVT \/ FreeScreen
    <3>1. CASE ScreenInit
      BY <3>1 DEF ScreenInit
    <3>2. CASE EnterVT
      BY <3>2 DEF EnterVT
    <3>3. CASE FreeScreen
      BY <3>3 DEF FreeScreen
    <3> QED BY <2>2, <3>1, <3>2, <3>3
  <2>3. CASE MapMemory
    BY <2>3 DEF MapMemory, MapFb, TypeOK
  <2>4. CASE SaveState \/ SetupMemoryMap \/ BuildScreen
    BY <2>4 DEF SaveState, SetupMemoryMap, BuildScreen
  <2>5. CASE SetCrtcMode \/ ModesAreSet
    BY <2>5 DEF SetCrtcMode, ModesAreSet
  <2>6. CASE FinishHandler \/ Pan
    BY <2>6 DEF FinishHandler, Pan, AdjustFrame
  <2>7. CASE Reconfigure
    BY <2>7 DEF Reconfigure, Crtcs, NoCrtc
  <2>8. CASE SwitchMode \/ Dpms \/ MoveCursor \/ Draw
    <3>1. CASE SwitchMode
      BY <3>1 DEF SwitchMode
    <3>2. CASE Dpms \/ MoveCursor
      BY <3>2 DEF Dpms, MoveCursor
    <3>3. CASE Draw
      BY <3>3 DEF Draw
    <3> QED BY <2>8, <3>1, <3>2, <3>3
  <2>9. CASE LeaveVT \/ Console \/ Abort
    BY <2>9 DEF LeaveVT, Console, Abort
  <2>10. CASE CloseScreen
    BY <2>10 DEF CloseScreen, UnmapMemory
  <2>11. CASE UNCHANGED vars
    BY <2>11 DEF vars
  <2> QED BY <2>1, <2>2, <2>3, <2>4, <2>5, <2>6, <2>7, <2>8, <2>9, <2>10, <2>11
          DEF Next, HandlerStep, Done
<1> QED BY <1>1, <1>2, TypeCorrect, PTL DEF Spec

(* In that configuration no register, pixel or CRTC is reached through a   *)
(* NULL pointer, in any generation and across any number of VT switches.   *)
THEOREM FaultFree ==
  ASSUME SoundConfiguration
  PROVE  Spec => []NoFault
<1>1. TypeOK /\ MemoryInv => NoFault
  BY DEF MemoryInv, NoFault
<1> QED BY <1>1, MemoryInvariant, PTL

(* In that configuration avivo_unmap_fb_mem unmaps what was mapped.        *)
THEOREM UnmapsWhatItMapped ==
  ASSUME SoundConfiguration
  PROVE  Spec => UnmapWhatWasMapped
<1>1. TypeOK /\ MemoryInv => [(fbMap # 0 /\ fbMap' = 0) => fbMap = fbSize]_vars
  BY DEF MemoryInv
<1> QED BY <1>1, MemoryInvariant, PTL DEF Spec, UnmapWhatWasMapped

-----------------------------------------------------------------------------
(* The registers W hold the driver's values.                               *)
Own(W) == \A g \in W : hw[g] = Gfx

(* How much of the card is the driver's at each step of a handler.  The    *)
(* outputs are programmed with the first CRTC; a screen without CRTCs in   *)
(* use has no compat CRTC either, and faults before it runs.               *)
OwnInv ==
  /\ compat \in inUse \cup {NoCrtc}
  /\ pc \in {"shadow", "modes", "frame", "run"} => Own(MemoryMapWrites)
  /\ pc = "modes" => /\ todo \subseteq inUse
                     /\ \A c \in inUse \ todo : Own(CrtcWrites(c))
                     /\ todo # inUse => Own(OutputWrites)
  /\ pc \in {"frame", "run"} => \A c \in inUse : Own(CrtcWrites(c))
  /\ pc = "frame" /\ inUse # {} => Own(OutputWrites)
  /\ pc = "run" => Own(OutputWrites)

(* What handlers program are groups of registers.                          *)
LEMMA WritesAreGroups ==
  /\ MemoryMapWrites \subseteq Groups /\ OutputWrites \subseteq Groups
  /\ \A c \in Crtcs : CrtcWrites(c) \subseteq Groups
BY DEF MemoryMapWrites, OutputWrites, CrtcWrites, Groups, Saved, Unsaved, Crtcs

(* Programming makes registers the driver's and takes none from it.        *)
LEMMA ProgramOwns ==
  ASSUME NEW W, NEW V, V \subseteq Groups, Program(W),
         \A g \in V : g \in W \/ hw[g] = Gfx
  PROVE  Own(V)'
BY DEF Program, Own

(* avivo_adjust_frame takes none from it either.                           *)
LEMMA AdjustFrameOwns ==
  ASSUME NEW done, NEW V, V \subseteq Groups, AdjustFrame(done), Own(V)
  PROVE  Own(V)'
BY DEF AdjustFrame, Program, Own

(* Every step keeps what the driver owns, or leaves where it has to.       *)
LEMMA OwnStep ==
  ASSUME TypeOK, OwnInv, [Next]_vars
  PROVE  OwnInv'
<1> USE WritesAreGroups DEF OwnInv, memory, layout
<1>0. inUse \subseteq Crtcs /\ todo \subseteq Crtcs
  BY DEF TypeOK
<1>1. CASE PreInit
  BY <1>1 DEF PreInit
<1>2. CASE ScreenInit \/ EnterVT \/ FreeScreen
  BY <1>2 DEF ScreenInit, EnterVT, FreeScreen
<1>3. CASE MapMemory \/ SaveState
  BY <1>3 DEF MapMemory, SaveState
<1>4. CASE SetupMemoryMap
  <2>1. Own(MemoryMapWrites)'
    BY <1>4, ProgramOwns DEF SetupMemoryMap
  <2> QED BY <1>4, <2>1 DEF SetupMemoryMap
<1>5. CASE BuildScreen
  BY <1>5 DEF BuildScreen, Own
<1>6. CASE SetCrtcMode
  <2>1. CASE pc' = "failed"
    BY <1>6, <2>1 DEF SetCrtcMode
  <2>2. CASE pc' # "failed"
    <3> DEFINE c == NextCrtc
    <3>1. /\ pc = "modes" /\ pc' = pc /\ todo' = todo \ {c}
          /\ Program(CrtcWrites(c) \cup OutputWrites)
          /\ inUse' = inUse /\ compat' = compat
      BY <1>6, <2>2 DEF SetCrtcMode
    <3>2. Own(MemoryMapWrites)' /\ Own(OutputWrites)'
      <4> HIDE DEF c
      <4> QED BY <3>1, ProgramOwns DEF Own
    <3>3. \A d \in inUse \ todo' : Own(CrtcWrites(d))'
      <4> HIDE DEF c
      <4> SUFFICES ASSUME NEW d \in inUse \ todo' PROVE Own(CrtcWrites(d))'
        OBVIOUS
      <4> QED BY <1>0, <3>1, ProgramOwns DEF Own
    <3> QED BY <3>1, <3>2, <3>3
  <2> QED BY <2>1, <2>2
<1>7. CASE ModesAreSet
  <2>1. /\ pc = "modes" /\ pc' = "frame" /\ todo = {}
        /\ inUse' = inUse /\ compat' = compat
    BY <1>7 DEF ModesAreSet
  <2>2. CASE UNCHANGED hw
    BY <2>1, <2>2 DEF Own
  <2>3. CASE Program((Crtcs \ inUse) \cup OutputWrites)
    <3>1. Own(MemoryMapWrites)' /\ Own(OutputWrites)'
      BY <2>1, <2>3, ProgramOwns DEF Own
    <3>2. \A c \in inUse : Own(CrtcWrites(c))'
      <4> SUFFICES ASSUME NEW c \in inUse PROVE Own(CrtcWrites(c))'
        OBVIOUS
      <4> QED BY <1>0, <2>1, <2>3, ProgramOwns DEF Own
    <3> QED BY <2>1, <3>1, <3>2
  <2> QED BY <1>7, <2>2, <2>3 DEF ModesAreSet
<1>8. CASE FinishHandler
  <2>1. CASE pc' # "run"
    BY <1>8, <2>1, AdjustFrameFacts DEF FinishHandler
  <2>2. CASE pc' = "run"
    <3>1. AdjustFrame("run") /\ pc = "frame" /\ inUse' = inUse /\ compat' = compat
      BY <1>8, <2>2, AdjustFrameFacts DEF FinishHandler
    <3>2. compat # NoCrtc
      BY <2>2, <3>1 DEF AdjustFrame
    <3>3. Own(MemoryMapWrites)' /\ Own(OutputWrites)'
      BY <3>1, <3>2, AdjustFrameOwns
    <3>4. \A c \in inUse : Own(CrtcWrites(c))'
      BY <1>0, <3>1, AdjustFrameOwns
    <3> QED BY <2>2, <3>1, <3>3, <3>4
  <2> QED BY <2>1, <2>2
<1>9. CASE SwitchMode \/ Dpms \/ MoveCursor \/ Draw
  <2>1. /\ inUse' = inUse /\ compat' = compat
        /\ pc' = pc \/ pc' \in {"failed", "segv"}
        /\ pc \in {"run", "away"}
    BY <1>9 DEF SwitchMode, Dpms, MoveCursor, Draw
  <2>2. (\E W : Program(W)) \/ UNCHANGED hw
    BY <1>9 DEF SwitchMode, Dpms, MoveCursor, Draw
  <2>3. ASSUME NEW V, V \subseteq Groups, Own(V)
        PROVE  Own(V)'
    BY <2>2, <2>3, ProgramOwns DEF Own
  <2> QED BY <1>0, <2>1, <2>3
<1>10. CASE Pan
  <2>1. ASSUME NEW V, V \subseteq Groups, Own(V)
        PROVE  Own(V)'
    BY <1>10, <2>1, AdjustFrameOwns DEF Pan
  <2> QED BY <1>0, <1>10, <2>1, AdjustFrameFacts DEF Pan
<1>11. CASE Reconfigure
  <2> DEFINE W == OutputWrites \cup Crtcs \cup UNION {CrtcWrites(c) : c \in inUse'}
  <2>1. /\ Program(W) /\ pc = "run" /\ pc' = "run"
        /\ inUse' \subseteq Crtcs /\ compat' \in inUse' \cup {NoCrtc}
    BY <1>11 DEF Reconfigure
  <2>2. \A c \in inUse' : CrtcWrites(c) \subseteq W
    OBVIOUS
  <2>3. OutputWrites \subseteq W
    OBVIOUS
  <2> HIDE DEF W
  <2>4. Own(MemoryMapWrites)' /\ Own(OutputWrites)'
    BY <2>1, <2>3, ProgramOwns DEF Own
  <2>5. \A c \in inUse' : Own(CrtcWrites(c))'
    <3> SUFFICES ASSUME NEW c \in inUse' PROVE Own(CrtcWrites(c))'
      OBVIOUS
    <3> QED BY <2>1, <2>2, ProgramOwns
  <2> QED BY <2>1, <2>4, <2>5
<1>12. CASE LeaveVT \/ Console \/ CloseScreen \/ Abort
  BY <1>12 DEF LeaveVT, Console, CloseScreen, Abort
<1>13. CASE UNCHANGED vars
  BY <1>13 DEF vars, Own
<1> QED BY <1>1, <1>2, <1>3, <1>4, <1>5, <1>6, <1>7, <1>8, <1>9, <1>10, <1>11, <1>12, <1>13
        DEF Next, HandlerStep, Done

(* The running server's memory map and every CRTC in use are programmed    *)
(* since the console last had the card (avivo_enter_vt, avivo_screen_init),*)
(* in every configuration.                                                 *)
THEOREM RunsOnItsOwnMode == Spec => []RunsOnOwnMode
<1>1. Init => OwnInv
  BY DEF Init, OwnInv, NoCrtc
<1>2. TypeOK /\ OwnInv /\ [Next]_vars => OwnInv'
  BY OwnStep
<1>3. OwnInv => RunsOnOwnMode
  BY DEF OwnInv, Own, RunsOnOwnMode
<1> QED BY <1>1, <1>2, <1>3, TypeCorrect, PTL DEF Spec
=============================================================================
