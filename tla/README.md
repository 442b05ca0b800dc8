# A verification of the avivo video driver

TLA+ specifications of `xf86-video-avivo`, the X server driver for ATI's R5xx
cards, and of `avivotool`, the program that pokes them; configurations that check
them with TLC; proofs that TLAPS checks. Paths below are relative to `src/`.

## The system

The driver is a set of callbacks of the X server. The server is one thread, so
inside the driver nothing runs concurrently; what does is outside it: the console
that owns the card between two VT switches, whoever else takes the card's lock,
the panel's power sequencer, I2C slaves, and `avivotool`, run on a live server.
What the driver keeps in its records has to agree, at each callback, with what
these did to the card.

| Component | State | Operations | Correct when |
|---|---|---|---|
| Screen (`xorg/avivo.c`) | `vtSema`, `ctrl_base`, `fb_base`, `fb_size`, `fb_shadow` | PreInit, ScreenInit, EnterVT, LeaveVT, SwitchMode, AdjustFrame, CloseScreen, FreeScreen | the console gets its registers back; no access through a mapping that is gone; mappings and shadow are freed as allocated |
| State (`avivo_state.c`) | `saved_state` | save, restore, cursor save and restore, wait_idle | restored state is the console's last one |
| Memory (`avivo_memory.c`) | MC map registers | setup_gpu_memory_map, offscreen allocation | programmed again whenever the console had the card |
| CRTC (`avivo_crtc.c`) | CRTC and PLL registers, `fb_rotate` | lock, prepare, mode_set, set_pll, commit, dpms, shadow_*, cursor | PLL makes the mode's clock; rotation memory freed |
| Outputs (`avivo_output.c`) | `type`, `number`, I2C bus, block registers, lock 0x0028 | exist, init, setup, dpms, prepare, commit, detect, destroy | every connector served once, no block driven twice, lock given back, panel powered down before its link is cut |
| Panel (`avivo_output_lfp.c`) | `lfp_fixed_mode` | mode_fixup, get_modes | fixed mode is a mode of the panel |
| BIOS (`avivo_bios.c`) | `vbios`, table offsets | GetBIOSInfo, output_setup, get_lfp_timing | tables read only if the BIOS is recognised |
| I2C (`avivo_i2c.c`, `avivotool/xf86i2c.c`) | bus lines; lists of buses and devices | put and get bits; WriteRead, Probe, WriteBytes, WriteVec; Create, Init, Find, Destroy | transfers are atomic to the slave, bus idle after them; list is what was registered |
| Cursor (`avivo_cursor.c`) | cursor registers | init (called by nobody) | - |
| Registers (`avivo_common.c`) | MC index | indexed get and set | index and data are used together |
| Chipsets (`avivo_chipset.c`) and probing (`avivo.c`) | constant tables; screens, mapped BARs | probe, old_probe, mapping, look up | what a probe takes PreInit knows; registers mapped before they are read |
| avivotool (`avivotool/avivotool.c`) | the card; `ctrl_region`, `fb_region` | regs, regmatch, regset, i2c, i2c-monitor, output, dumpimg, loadimg, romtables | the server and the console keep what is theirs; no address is read that hangs the machine; every command ends |

They interact by direct calls and through the card. The screen calls state and
memory around every VT switch; the server's mode setting calls the CRTC, then the
outputs, in the order lock, prepare (dpms off), mode_set, commit (setup, dpms on);
the BIOS table decides which outputs exist; an output's I2C bus reads the monitor.

The hard behaviours, each listed with its line in `PROJECT.json` under `hazards`:
a console that changes its mode between two VT switches; `FatalError` from
`avivo_wait_idle` in the middle of a mode set; `FALSE` from the middle of
ScreenInit; server regeneration; RandR taking a CRTC away between two calls; a
lock taken by read, test and write; an unbounded wait while holding it; BIOS tables
in an unexpected order; slaves that refuse, stretch or never let go; an
uninitialised local in the search for PLL dividers; two programs on one index and
data pair; two CRTCs and their outputs programmed by separate callbacks; hand-made
tables that have to agree.

## Modules

### VTHandoff and AvivoScreen

`AvivoScreen` is the core: the life of a screen. `pc` is where the screen is
between the server's calls (`ready`, `run`, `away`), or the step a handler is at
(`map`, `save`, `memmap`, `shadow`, `modes`, `frame`). A handler is several steps
because `avivo_wait_idle` may give up, and calls may fail, between them:

| Action | Code |
|---|---|
| `PreInit` | `avivo_preinit`, with its early returns before and after the mapping |
| `ScreenInit`, `MapMemory`, `SaveState`, `SetupMemoryMap`, `BuildScreen`, `SetCrtcMode`, `FinishHandler` | `avivo_screen_init` in its order |
| `EnterVT`, `SaveState`, `SetupMemoryMap`, `SetCrtcMode`, `ModesAreSet`, `FinishHandler` | `avivo_enter_vt` |
| `LeaveVT`, `CloseScreen`, `FreeScreen` | the callbacks of those names |
| `SwitchMode`, `Pan`, `Dpms`, `MoveCursor`, `Draw` | the operations of a running server |
| `Reconfigure`, `Console`, `Abort` | RandR, the other owner of the card, FatalError (outside the repository) |

Registers are grouped by how `avivo_state.c` treats them: `Saved`, `Restored`
(three groups fewer, because of two `#if 0` and a register nobody mentions) and
`Unsaved`. A group holds either a mode of the console or `Gfx`, the driver's
value. `con` is a history variable: what the console last left there.

`VTHandoff` is the abstract contract: an owner, what the console left, what is
shown; giving back shows exactly what the console left. `AvivoScreen!KeepsHandoff`
is that specification under the mapping *owner = who may write according to `pc`*,
for the restored registers. A crash after EnterVT took `vtSema` still gives the
card back (the server calls LeaveVT); a crash in ScreenInit before that does not,
which the contract has as `Lose`.

### AvivoPll

The divider search of `avivo_crtc_set_pll`, one loop turn per step, with
`sclock` starting from anything in `Garbage` or from what the last call left there (it is
compared before it is assigned). `Muls` has the two results that `ceil` of the
double product may give; multiplication and truncating division are as in C. All
intermediate values fit 32 bits for valid clocks and multipliers of the search
(at most 1690 * 1080000 < 2^31).

### I2CBus

The software master, one `I2CPutBits` or polling turn per step, and a slave on the
same open-drain lines. The driver itself uses the server's copy of this file, over
the lines of `xorg/avivo_i2c.c`. A transfer is a sequence of phases, so
`WriteRead`, `ProbeAddress`, `WriteBytes` and `WriteVec` are operators that give
the phases of each function. The slave may refuse any byte, give any data, stretch
the clock at any falling edge, and never let go.

### AvivoOutputs

From the BIOS connector table to the outputs: `avivo_output_setup` entry by
entry, `avivo_output_exist` (with its conversion of an output into a panel),
`avivo_output_init` with failing allocations and names already on the bus list,
the loop that gives each DVI-I output a VGA twin, and the masks.

Then the server asks every output for its monitor: `Detect` has one monitor on one
DDC register, with any EDID, which any subset of the outputs on that register may
fail to read (`F`), since each probes it in a transfer of its own.

### AvivoDpms

`avivo_output_dpms` around the dpms functions of each kind of output, with the
card lock (read, try again, write, release in separate steps), somebody else who
uses the lock correctly, and the power sequencer of the panel, which takes its
time. `avivo_output_commit` runs the setup function before it, outside the lock.
`DpmsAssumption` says that no two outputs share a block; the property
`AvivoOutputs!BlocksNotShared` is where that comes from.

### AvivoChipset and AvivoProbe

`AvivoChipset` has the four tables of PCI identifiers as sets and the families as
functions, in full: they are written by hand four times, and agreement is the
property. `AvivoProbe` goes from the cards of a machine to its screens, through
`avivo_pci_probe` (one call per card) and `avivo_old_probe` (all cards at once, the
later ones added to the first one's screen), in both builds; then `avivo_preinit` up to
the family: the loop over the BARs for the registers (`MapMmio`, one turn per step),
the loop for the frame buffer (`MapFb`, which reads a register), `GetChipset`. A card
has six BARs of any size in any order.

### AvivoModeSet

A mode on its way to the registers. A mode is its timings and clock; a CRTC holds them
encoded as `avivo_crtc_mode_set` does, and `Decode` reads them back, so that
properties compare what was asked with what is programmed.

| Action | Code |
|---|---|
| `Probe`, `ProbeAgain` | `avivo_output_lfp_get_modes`: the panel's EDID, or `avivo_bios_get_lfp_timing`, becomes `fixed` |
| `InitialConfiguration`, `CrtcSet`, `SwitchMode` | the start of ScreenInit's loop, of a RandR request, of `avivo_switch_mode` |
| `NextCrtc`, `Fixup`, `Rotate`, `Prepare`, `Program`, `Commit`, `CallEnds` | the callbacks in the order in which the server calls them for one CRTC |
| `AdjustFrame`, `Dpms` | `avivo_adjust_frame`, `avivo_crtc_dpms` |

The order of the callbacks and what the server does between them (which CRTC is in use,
disabling unused outputs, its own copy of the mode) is the X server's, outside the
repository, and marked external. `Rotate` refuses every rotation: nothing in the driver
initialises an offscreen manager, so `avivo_xf86AllocateOffscreenLinear` gets nothing,
whatever the uninitialised `max_size` holds; the refused call leaves the old
configuration. A pan ignores where the output was told to look (`initial_x`).

### AvivoMc and AvivoTool

`AvivoMc` is the pair AVIVO_MC_INDEX and AVIVO_MC_DATA with two users; an access is
two steps, `WriteIndex` and `MoveData`. `meant` is a history variable: the registers as
they would be if accesses were single steps; `clash` says that an index was
overwritten before its data moved.

`AvivoTool` composes it with the server's three uses of it around a VT switch (save,
set and restore the memory map) and with the tool's commands, run at any moment:

| Action | Code |
|---|---|
| `Main`, `MapRadeonMem`, `Usage` | `main`, and `map_radeon_mem`, which takes the last card, with region numbers carried over from the cards before |
| `Sweep` | the loops of `radeon_cmd_regs`, whose bounds are in `UnknownLoops`, `AllLoops` |
| `ToolIndex`, `ToolData`, `ToolPlain`, `PlanEnds` | the accesses of `regs`, `regmatch` (one read each) and `regset` (read, write, read back) |
| `I2cStart`, `I2cPoll` | `_i2c_start`, each turn of `_i2c_wait`, `_i2c_stop` |
| `Monitor`, `OutputSet` | i2c-monitor (its transfer is `I2CBus`), `radeon_output_set` |
| `ImageFound`, `MoveImage`, `ImageMoved`, `ImageFails` | dumpimg and loadimg with short reads and writes |

## Runs

| Run | Instance | What it shows |
|---|---|---|
| `lifecycle` | 2 CRTCs, 2 console modes, memory that fits | the console's registers are given back, saved before touched, refinement of VTHandoff, no fault, own mode while running, matching unmap, shadow freed, handlers return |
| `pll` | 8 valid clocks from 25 MHz to 327857 kHz and one that mode_valid refuses, 3 stack values, any sequence of calls | the chosen pair is sound and exists |
| `i2c` | bytes of 2 bits, up to 2 bytes each way, 2 pairs, a probe | returns, releases, no false success, idle bus, stable data |
| `outputs` | all tables of 0 to 4 entries over 10 connectors, one failure, any monitor | buses, blocks, connectors, panel; twins agree on a monitor |
| `dpms` | VGA, DVI-I and panel, 5 tries | lock given back, panel down first, calls return |
| `probe` | every listed device id and an unknown one alone, some in pairs; both builds; 5 layouts of BARs | tables agree, registers mapped before they are read |
| `modeset` | VGA, DVI-I and panel, 2 CRTCs, 2 modes, a panel with and without EDID and BIOS entry | outputs show what was asked; the panel its own timing; nothing programmed while it scans out |
| `tool` | 2 registers of the memory controller, every command, machines with no radeon, one, and two | values land where meant, map given back, sweeps keep off harmful addresses, commands end |
| `crtcs` | violation | restore_state misses registers that CRTC mode setting writes |
| `unmap` | violation, memory above the limit | another size is unmapped than was mapped |
| `i2c_stop` | violation | two Stops end one transaction |
| `tool_dac2` | violation | `output dac2 enable` powers the DAC down |

What the violations say is in `PROJECT.json` under `findings`, with the line of
the code and the comment or document that says otherwise.

### Bounds, and why they are enough

- *Screen.* Two console modes tell the last from an older one; a third adds no
  distinction, since properties compare one saved value with one current value.
  The console reprograms either everything or the first CRTC's timing, which makes
  partly stale saves possible. Nothing counts generations or switches: the state
  space is closed and the runs are exhaustive. `MemSize` and `MaxMap` only
  matter by their order. The proofs drop all of these bounds.
- *PLL.* The loop bounds are the code's. The clocks are the ends of the valid
  range, common modes, one clock (40500) whose product is exact and rounds either
  way, whole multiples of 27000 and the highest clock that has a pair.
- *I2C.* Two bits give a first and a last bit; the R/W bit is the last. The model
  was also checked with three. Two polls give a retry and a timeout. All but
  `CallsReturn` is proved for any width of bytes, either length of address, any
  timeouts and any calls of any number of bytes.
- *Outputs.* Four entries contain every relative order of VGA, DVI-I and a panel
  with a repetition. Numbers 0 to 2 give both blocks of each kind and one more.
  The proofs take every table, of any length, with the BIOS's numbers of four bits, and
  any number of failures.
- *Dpms.* Five tries, as in the code; one output of each kind.
- *Probe.* Two cards give a second screen or a second entity; the BARs have
  the registers before the frame buffer, after it, last of all six, and nowhere. The tables are the
  whole tables. The proofs drop the bounds.
- *Mode set.* Two modes, and the panel's timing different from both, so that a field
  taken from the wrong one shows. VGA and DVI-I are symmetric and declared so. A frame
  start of 6 is not a multiple of 4. The proofs drop the bounds.
- *Tool.* Two registers: the memory map and another. Two values. A command is there for
  each branch of `main`; the turns of `_i2c_wait` are the code's ten. Images of up to 2
  bytes give a short read, an end of input and a whole one. The registers that
  `radeon_cmd_regs` reads through the pair are the sequence `McList`, in its order. The
  proofs drop the bounds, but for the turns of `_i2c_wait`.

*Merging.* `lifecycle` checks the hand-over in the sound configuration only. That the console's
registers come back also with unclamped memory and a compat output that loses its
CRTC, where handlers do fault, is in the proofs, which take every value of the constants.

### Fairness

`AvivoScreen`: weak fairness of the steps of a handler, since once called it is
straight-line code with bounded loops (`avivo_wait_idle` reads at most 1000 times
and then ends the server). The server need not call anything. `I2CBus`: weak fairness of the master only; the slave may
hold SCL for ever. `AvivoDpms`: weak fairness of the driver, and of the power
sequencer, whose completion is what the unbounded loop at `avivo_output.c:267`
relies on; none of the other user of the lock. `AvivoTool`: weak fairness of the
tool's own steps (`ToolGoesOn`), which the kernel's scheduler gives; none of the
server, the user or failing files. `ToolEnds` excludes the one state in which it is
false, `AtEof`: loadimg at the end of its input.

## Proofs

| Theorem | Says | Rests on |
|---|---|---|
| `AvivoScreenProofs!TypeCorrect` | types | - |
| `ConsoleIsRestored`, `TouchAfterSave` | the console gets back what it left; saved before touched | `IInv` |
| `ImplementsHandoff` | refinement of VTHandoff | `IInv`, one step lemma per kind of action |
| `ShadowIsFreed` | shadow allocated once and freed | `ShadowInv` |
| `RunsOnItsOwnMode` | while running the card is the driver's | `OwnInv` |
| `FaultFree`, `UnmapsWhatItMapped` | no NULL base or CRTC; sizes match | `MemoryInv`, `SoundConfiguration` |
| `AvivoPllProofs!PllTypeCorrect`, `ChoiceIsSound` | loop bounds; the pair is programmable and near | `SafeInv` |
| `PairIsFound` | every clock up to 327857 kHz gets a pair | `SafeInv`, `PairInv` |
| `AvivoDpmsProofs!DpmsTypeCorrect`, `LockIsReleased`, `PanelIsPoweredDown` | the lock and the panel | `DInv` |
| `AvivoModeSetProofs!ModeTypesCorrect`, `EveryOutputHasItsPicture`, `PanelTimed`, `NeverRetimedWhileOn` | outputs show what was asked, the panel its own timing; nothing is programmed while it scans out | `ModeInv` (`ModesInductive`) |
| `AvivoOutputsProofs!OutputsTypesCorrect`, `NoBusLeaks`, `OneOutputPerBlock`, `NoConnectorLost`, `ExactlyOnePanel`, `OneTwinClaims` | buses, blocks, connectors, panel, twins | `OutputsInv` (`OutputsInductive`) |
| `I2CBusProofs!MasterHasLetGo`, `DataIsStable` | lines released after every call; data moves under a low clock | `LInv`, `LowBetweenPhases` |
| `BusTypesCorrect` | types, counters in their bounds | `TypeInv` |
| `BusIsIdleAfterCall` | the bus is idle again | `TypeInv`, `SlaveInv`, `SyncInv`, `ReadsHaveBytes` |
| `TrueMovesAll` | TRUE means that every byte was moved | the same and `MovedInv` |
| `AvivoProbeProofs!TypeCorrect`, `ChipsKnown` | types; tables agree | the tables' lemmas, `TypeOK` |
| `RegistersMappedFirst`, `FrameBufferFits` | no register read before it is mapped; fb_size within its BAR (both with PCIACCESS) | `TypeOK`, what the first loop has seen |
| `AvivoToolProofs!ToolTypesCorrect` | types, the poll limit | `TypeInv` |
| `AvivoToolProofs!SetsLand`, `MapComesBack` | the pair acts atomically without a clash; the map comes back | `PairInv`, `ServerInv` |
| `SweepsAreSafe` | no sweep reads an address the code warns of | `SweepInv`, `LoopsAreSafe` |

The assumptions are those of the modules (`ScreenAssumption`, `PllAssumption`,
`BusAssumption`, `DpmsAssumption`, `ProbeAssumption`, `ToolAssumption`,
`ModeSetAssumption`, `OutputsAssumption`): types, positive sizes, that there is a command
and a mode to give, one panel at most in a mode set, that the driver's value differs from
the console's, and that the programs on the card are the server and the tool. Some
theorems have a hypothesis of their own: `SoundConfiguration` and `ReadsHaveBytes`,
explained below, and a PCIACCESS build.

*Why `IInv`.* That the console's registers are right while it owns the card is
not inductive: LeaveVT writes `saved`, so it needs `SavedIsFresh` (what was saved is
what the console left) wherever the server may give the card back; that SaveState
establishes this needs `Untouched` (nothing was written since the console had the
card) at every place from which SaveState is reached; and CloseScreen and Abort
restore exactly when `vtSema` is set, so `VtSemaOK` has to say where that is.

*Why `OwnInv`.* That a running server's card is the driver's follows from what the
handler had programmed at each of its steps: the memory map before the shadow, then the
CRTCs of `inUse \ todo`, and the outputs with the first of them. A screen whose CRTCs
were all taken away has nothing but the memory map to answer for, and its compat output
no CRTC either, so that `avivo_adjust_frame` faults before it runs.

*Sound configuration.* `FaultFree` assumes no PCIACCESS build, memory that can be
mapped whole, and a compat output that keeps its CRTC. Each is needed: with
PCIACCESS the second ScreenInit maps nothing and reads registers through NULL; with more
memory than fits the second generation's mapping fails and the result is ignored; and
`avivo_adjust_frame` looks into the compat output's CRTC before it tests for it.

*The PLL.* `ClockOfBound` and `MulsBound` bound the truncating division and the
rounded product; `BetterIsSound` derives from the loop's test that the clock is at
most one multiplier step above the mode's. `SevenTimesThree` shows that the pair
(3, 7), the smallest product above 20, passes the test for every clock up to
327857 kHz when nothing was chosen before, unless the stack's value is within
1286 kHz; `PairInv` carries that through the loops.

*The pair.* That values land where they were meant is not inductive: `PairInv` says
that without a clash the access under way is the only one, and the index is still the one it
wrote. `ServerInv` ties the server's step to its access, so that what it saved is what it
found. The condition `~clash` cannot be dropped: the two programs share no lock.

*Mode setting.* `PictureOnOutput` speaks of a server between calls. In the middle of
one `PictureInv` has the same of the CRTCs that are not, or no longer, to be set, and of
the configuration a refused rotation goes back to. `AdjustedInv` says what mode_fixup
leaves in the base and the Crtc fields, which is either the mode recorded or, on a CRTC
with a panel, the panel's whole mode; `RegistersInv` what mode_set leaves for commit, and
that prepare has stopped the CRTC. A RandR request sets one CRTC
and may take outputs from the other, which nothing programs again: it still shows its mode
because the panel, whose timing it may have, is only ever fed by the first CRTC
(the masks at `avivo_bios.c:247`, which the comment above them calls unnecessary) and so
cannot be what it lost (`CrtcSetPicture`).

*The outputs.* An output's type may change, its bus never does: `OriginInv` reads
from the bus what the output was created as, which fixes its functions. `PanelAlone`
says that a panel with its own bus is the only output with a number above 0, `PanelLeads`
that a panel, created or converted, comes first among those, so that
`avivo_output_exist` always ends at it. From these follow distinct buses, and
distinct blocks when numbers are 0 and 1. `ServedInv` is what every entry read so far
has become; its step uses that no later call takes an output away but to a panel.
`PanelCreated` and `AnswerInv` are for a panel that is listed first.

*The bus.* `SyncInv` says that, in a call that found the bus idle and until the slave
holds SCL too long, the slave is where the master believes it to be: its slot in the
byte is the master's bit, it listens while bytes go out, the R/W bit it has read is that of
the phase (`ValueInv`), and the last byte of a read was refused, which takes it off SDA
before the Stop. `MovedInv` adds the counts: `HearInv` that the slave answers what is
meant for it, `CountInv` that it has moved the bytes of the phases done, `Sums`, and those
of the phase under way. `SumsAdd` proves of the recursive function `Sums` what its
recursion says.

*`ReadsHaveBytes`* asks of a call that a phase that reads has bytes to read. It is
needed: after the probe of a read address the slave has an ACK to its address and goes on
to drive its first bit into the Stop, and TLC finds `IdleAfterCall` violated when
`ProbeAddress(TRUE)` is among the calls. The driver only probes 0xA0, a write address
(`avivo_output.c:359`, `383`). `FunctionsHaveBytes` proves the condition for all that
`xf86I2CWriteRead`, `xf86I2CWriteBytes` and `xf86I2CWriteVec` can be asked for, and
that probe.

*Least elements.* The library's induction theorems take an operator and cannot be used.
`LeastOfSet` (a non-empty set of naturals has a least element) is proved from the
well-foundedness of strict inclusion of finite sets instead, and gives both "the first
output that hits" and induction over the phases of a call, by the least
counterexample.

*Only model-checked.* Liveness (`HandlersReturn`, `CallsReturn`, `DpmsReturns`,
`ToolEnds`), which is out of this prover's reach. The violations are
counterexamples. Every safety property of a passing run is proved.
*Only proved:* `FbFitsBar`, which a run checked before it was proved.

## Known departures

What modelling showed, and no run repeats:

- `avivo_output_exist` (`avivo_output.c:486`, "LVTMA is shared by LFP & DVI-I") does not
  look at the type: after a panel every VGA connector with a number above 0 is taken for
  existing, or becomes the panel. `ConnectorsServed` says what is kept.
- An output that a panel takes over keeps its functions (`avivo_output.c:489`): it is
  detected over DDC and driven as a DAC or TMDS. `OnePanel` therefore speaks of
  panels listed first.
- mode_valid accepts clocks up to 400000 kHz; above 327857 kHz the PLL gets zeros
  (`avivo_crtc.c:137`). The panel's clock (`avivo_output_lfp.c:51`) is never seen by
  mode_valid.
- The card lock is a read and a write (`avivo_output.c:300`): somebody may take it in
  between, so that the driver works on the card with another without having given up.
- Without PCIACCESS a failed mapping of the registers is ignored (`avivo.c:388`) and
  fb_size is not limited to its BAR.
- `avivotool --skip=1`, which usage offers, is taken for an unknown command
  (`avivotool.c:1801` compares the whole argument), and `avivotool --debug` alone passes
  NULL to strcmp.
- A second `i2c` command finds CNTL set and connector 0 (`avivotool.c:216`).
- After an i2c timeout the tool exits with the engine started; after a bad status it
  stops the engine and goes on polling it (`avivotool.c:193-205`).
- `loadimg` never ends when its input is shorter than the frame buffer
  (`avivotool.c:647`); `ToolEnds` excludes that state, `AtEof`, and no other.
- The tool and the server share the index and data registers without a lock; accesses
  that overlap clash (`avivo_common.c:43`), and the properties of the pair exclude them
  by `~clash`.
- `avivo_old_probe` makes a second card a second entity of the first one's screen
  (`avivo.c:316`), which PreInit never looks at.
- `avivo_adjust_frame` looks into the compat output's CRTC before it tests for it
  (`avivo.c:848`): once RandR has taken that CRTC, a pan or EnterVT faults. `NoFault`
  is checked, and proved, for a compat output that keeps its CRTC.
- sclock is compared before it is assigned (`avivo_crtc.c:136`): a stack value within
  1286 kHz of the clock can make the search reject every pair. `FindsAPair` excludes
  exactly those values.
- A cloned output on the panel's CRTC gets the panel's timing; ScreenInit does not turn
  off the outputs and CRTCs it does not use (`avivo.c:737`), and `PictureOnOutput` only
  looks at outputs with a CRTC.

## Not modelled, and why

- Values of registers in AvivoScreen: a group records who wrote it. In AvivoModeSet sync
  polarity, gamma and OFFSET_END, whose meaning the code does not know.
- Cursor initialisation, which nobody calls; build files.
- avivotool's romtables, which only prints a file, and the layout of its dumps.
- The registry of I2C buses and devices (`xf86i2c.c:607-875`): the tool registers one
  bus and one device per process, and the driver uses the server's copy.
- The ChipID and Chipset options, which let a user name another card than the one there.
- VGA save and restore under `WITH_VGAHW`, done by the server's vgahw module.

## Plan

1. Done: VTHandoff, AvivoScreen, AvivoPll, I2CBus, AvivoOutputs, AvivoDpms,
   AvivoChipset, AvivoProbe, AvivoModeSet, AvivoMc, AvivoTool.
2. Done: a theorem for every safety property of the passing runs.
3. The registry of I2C buses and devices, as a part of I2CBus.
4. Proofs that join modules: `DpmsAssumption` from `OneOutputPerBlock`, and the bytes of
   an EDID read from `TrueMovesAll`.
