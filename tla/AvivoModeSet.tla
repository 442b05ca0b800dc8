---------------------------- MODULE AvivoModeSet ----------------------------
(***************************************************************************)
(* A mode on its way to the hardware: the timing of the panel, and the     *)
(* callbacks of CRTCs and outputs that xf86CrtcSetMode calls in turn       *)
(* (xorg/avivo_output.c, avivo_output_lfp.c, avivo_crtc.c, avivo_bios.c,   *)
(* avivo.c).                                                               *)
(*                                                                         *)
(* The server is single-threaded: between two callbacks of one call only   *)
(* the call's own steps happen.  A mode is its two directions, each with   *)
(* display, sync start, sync end and total, and its clock; a CRTC holds    *)
(* them the way avivo_crtc_mode_set encodes them.  Sync polarity and       *)
(* OFFSET_END are left out.                                                *)
(***************************************************************************)
EXTENDS Integers

CONSTANTS
  Outputs,      \* the outputs of the screen
  FuncsOf,      \* which of the three tables of functions each one has
  Compat,       \* the compat output of the server
  Modes,        \* modes the server may ask for: mode_valid passed them
  EdidPanel,    \* the mode in the EDID of the panel, if it has one
  BiosPanels,   \* what the BIOS may say of the panel: an entry, or None
  None,         \* no mode, no entry
  Xs            \* where a CRTC may look at the frame buffer

Crtcs  == {1, 2}
NoCrtc == 0

Direction == [display : Nat, syncStart : Nat, syncEnd : Nat, total : Nat]
Mode      == [h : Direction, v : Direction, clock : Nat]
Sizes     == [res : Nat, blank : Nat, over : Nat, width : Nat]
Entry     == [h : Sizes, v : Sizes, clock : Nat]     \* of a panel, in the BIOS

(* AvivoOutputs!OnePanel is where the second conjunct comes from.          *)
ASSUME ModeSetAssumption ==
  /\ FuncsOf \in [Outputs -> {"dac", "tmds", "lfp"}]
  /\ \A o, p \in Outputs : FuncsOf[o] = "lfp" /\ FuncsOf[p] = "lfp" => o = p
  /\ Compat \in Outputs
  /\ Modes \subseteq Mode /\ Modes # {}
  /\ EdidPanel \in Mode
  /\ BiosPanels \subseteq Entry \cup {None} /\ BiosPanels # {}
  /\ None \notin Mode \cup Entry
  /\ Xs \subseteq Nat /\ Xs # {}

Lfps == {o \in Outputs : FuncsOf[o] = "lfp"}

VARIABLES
  pc,        \* "preinit", "next", "fixup", "rotate", "prepare", "program", "commit", "idle"
  call,      \* the server's call, if any: "ScreenInit", "CrtcSet" or "SingleMode"
  todo,      \* CRTCs the call has still to set
  wanted,    \* the mode for each, and its x
  rotate,    \* the call asks for a rotation
  cur,       \* the CRTC being set
  adjusted,  \* adjusted_mode: the fields, and the Crtc fields made from them
  route,     \* output->crtc
  mode,      \* crtc->mode, None when the CRTC is not enabled
  before,    \* route and mode as they were before the call
  bios,      \* the panel's entry in this BIOS
  fixed,     \* avivo->lfp_fixed_mode
  crtc,      \* the registers of each CRTC
  out,       \* whether an output is on, and its CRTC_SOURCE register
  lit        \* the server has not switched the screen off

request == <<call, todo, wanted, rotate, cur, adjusted, before>>
config  == <<route, mode>>
panel   == <<bios, fixed>>
regs    == <<crtc, out>>
vars    == <<pc, request, config, panel, regs, lit>>

Levels == {"On", "Standby", "Off"}

(* The timing registers of one direction. *)
Encoded == [total : Int, blankStart : Int, blankEnd : Int, syncWid : Int]

Registers == [on : BOOLEAN, h : Encoded, v : Encoded, clock : Nat,
              source : Nat \X Nat, x : {n \in Nat : n % 4 = 0}]

(* What avivo_crtc_mode_set makes of the fields of adjusted_mode: base is  *)
(* the direction as xf86 modes have it, d the Crtc fields.                 *)
Encode(base, d) ==
  [total |-> base.total - 1,
   blankStart |-> d.total - d.syncStart,
   blankEnd |-> d.total - d.syncStart + d.display,
   syncWid |-> d.syncEnd - d.syncStart]

(* And what the registers mean. *)
Decode(r) ==
  LET total == r.total + 1 start == total - r.blankStart IN
  [display |-> r.blankEnd - r.blankStart, syncStart |-> start,
   syncEnd |-> start + r.syncWid, total |-> total]

Shows(r) == [h |-> Decode(r.h), v |-> Decode(r.v), clock |-> r.clock]

InUse == {c \in Crtcs : \E o \in Outputs : route[o] = c}    \* xf86CrtcInUse
On(c) == {o \in Outputs : route[o] = c}
Allowed(o) == IF FuncsOf[o] = "lfp" THEN {1} ELSE Crtcs     \* possible_crtcs

IsRoute(r) == /\ r \in [Outputs -> Crtcs \cup {NoCrtc}]
              /\ \A o \in Outputs : r[o] \in Allowed(o) \cup {NoCrtc}

(* What is left of a call when it returns. *)
NoRequest ==
  /\ call = "none" /\ todo = {} /\ wanted = None /\ rotate = FALSE
  /\ cur = 1 /\ adjusted = None /\ before = None

Return ==
  /\ call' = "none" /\ todo' = {} /\ wanted' = None /\ rotate' = FALSE
  /\ cur' = 1 /\ adjusted' = None /\ before' = None

-----------------------------------------------------------------------------
(* The state the BIOS leaves: anything may be on. *)
Init ==
  /\ pc = "preinit" /\ NoRequest
  /\ route = [o \in Outputs |-> NoCrtc] /\ mode = [c \in Crtcs |-> None]
  /\ bios \in BiosPanels /\ fixed = None
  /\ \E text \in BOOLEAN :
       LET z == [total |-> 0, blankStart |-> 0, blankEnd |-> 0, syncWid |-> 0] IN
       /\ crtc = [c \in Crtcs |-> [on |-> text, h |-> z, v |-> z, clock |-> 0,
                                   source |-> <<0, 0>>, x |-> 0]]
       /\ out = [o \in Outputs |-> [on |-> text, source |-> 1]]
  /\ lit = TRUE

-----------------------------------------------------------------------------
(* The timing of the panel *)

(* avivo_bios_get_lfp_timing. *)
LfpDirection(b) ==
  [display |-> b.res, total |-> b.res + b.blank,
   syncStart |-> b.res + b.over, syncEnd |-> b.res + b.over + b.width]

LfpTiming == IF bios = None THEN None
             ELSE [h |-> LfpDirection(bios.h), v |-> LfpDirection(bios.v),
                   clock |-> bios.clock * 10]

(* avivo_output_lfp_get_modes: the first mode of the EDID, or the mode in  *)
(* the BIOS, becomes the panel's; without either it stays what it was.     *)
LfpGetModes(edid) ==
  fixed' = IF edid THEN EdidPanel
           ELSE IF LfpTiming # None THEN LfpTiming ELSE fixed

(* xf86ProbeOutputModes: get_modes of every output that may be connected,  *)
(* which a panel always is; the EDID may be read or not.                   *)
Probe ==
  /\ IF Lfps = {} THEN UNCHANGED fixed ELSE \E edid \in BOOLEAN : LfpGetModes(edid)
  /\ UNCHANGED bios

-----------------------------------------------------------------------------
(* The calls of the server *)

(* xf86InitialConfiguration probes and gives CRTCs to outputs; ScreenInit  *)
(* then sets the mode of every CRTC.                                       *)
InitialConfiguration ==
  /\ pc = "preinit"
  /\ Probe
  /\ \E r \in [Outputs -> Crtcs \cup {NoCrtc}] : IsRoute(r) /\ route' = r
  /\ \E m \in Modes : wanted' = [c \in Crtcs |-> [mode |-> m, x |-> 0]]
  /\ todo' = Crtcs /\ rotate' = FALSE /\ call' = "ScreenInit"
  /\ before' = [route |-> route', mode |-> mode]
  /\ pc' = "next"
  /\ UNCHANGED <<cur, adjusted, mode, regs, lit>>

(* A client has the outputs probed again. *)
ProbeAgain ==
  /\ pc = "idle"
  /\ Probe
  /\ UNCHANGED <<pc, request, config, regs, lit>>

(* xf86RandR12CrtcSet gives CRTC c to the outputs S and sets its mode; no  *)
(* outputs means that the CRTC is turned off.                              *)
CrtcSet(c, S, m, x, rot) ==
  /\ pc = "idle"
  /\ \A o \in S : c \in Allowed(o)
  /\ route' = [o \in Outputs |-> IF o \in S THEN c ELSE IF route[o] = c THEN NoCrtc ELSE route[o]]
  /\ before' = [route |-> route, mode |-> mode]
  /\ wanted' = [d \in {c} |-> [mode |-> m, x |-> x]] /\ rotate' = rot /\ call' = "CrtcSet"
  /\ todo' = {c}
  /\ pc' = "next"
  /\ UNCHANGED <<cur, adjusted, mode, panel, regs, lit>>

(* avivo_switch_mode: xf86SetSingleMode sets every CRTC, unrotated and at  *)
(* 0, to a mode of its outputs near the one asked for.                     *)
SwitchMode ==
  /\ pc = "idle"
  /\ \E w \in [Crtcs -> Modes] : wanted' = [c \in Crtcs |-> [mode |-> w[c], x |-> 0]]
  /\ before' = [route |-> route, mode |-> mode]
  /\ rotate' = FALSE /\ call' = "SingleMode" /\ todo' = Crtcs
  /\ pc' = "next"
  /\ UNCHANGED <<cur, adjusted, config, panel, regs, lit>>

(* The CRTCs are set in order.  xf86CrtcSetMode records the mode of one    *)
(* that is in use before the driver hears of it.                           *)
NextCrtc(c) ==
  /\ pc = "next" /\ c \in todo /\ \A d \in todo : c <= d
  /\ todo' = todo \ {c}
  /\ IF c \in InUse
     THEN /\ cur' = c
          /\ mode' = [mode EXCEPT ![c] = wanted[c].mode]
          /\ adjusted' = [base |-> wanted[c].mode, crtc |-> wanted[c].mode]
          /\ pc' = "fixup"
     ELSE /\ mode' = [mode EXCEPT ![c] = None]
          /\ UNCHANGED <<cur, adjusted, pc>>
  /\ UNCHANGED <<call, wanted, rotate, before, route, panel, regs, lit>>

(* avivo_crtc_enable, and the dpms function of an output. *)
SetOutputs(S, on) == [o \in Outputs |-> IF o \in S THEN [out[o] EXCEPT !.on = on] ELSE out[o]]

(* The call ends; all but ScreenInit turn off what is not used.            *)
CallEnds ==
  /\ pc = "next" /\ todo = {}
  /\ IF call = "ScreenInit" THEN UNCHANGED regs
     ELSE /\ out'  = SetOutputs({o \in Outputs : route[o] = NoCrtc}, FALSE)
          /\ crtc' = [c \in Crtcs |-> IF c \in InUse THEN crtc[c]
                                      ELSE [crtc[c] EXCEPT !.on = FALSE]]
  /\ pc' = "idle" /\ Return
  /\ UNCHANGED <<config, panel, lit>>

-----------------------------------------------------------------------------
(* The callbacks of one mode set *)

(* Mutant: the Crtc fields are not made anew. *)
FixupKeepsCrtc ==
  /\ pc = "fixup"
  /\ adjusted' = IF On(cur) \cap Lfps # {} /\ fixed # None
                 THEN [base |-> fixed, crtc |-> [adjusted.crtc EXCEPT !.clock = fixed.clock]]
                 ELSE adjusted
  /\ pc' = "rotate"
  /\ UNCHANGED <<call, todo, wanted, rotate, cur, before, config, panel, regs, lit>>

(* avivo_output_mode_fixup and avivo_crtc_mode_fixup accept everything;    *)
(* avivo_output_lfp_mode_fixup puts the panel's timing in place of the     *)
(* one asked for and calls xf86SetModeCrtc.                                *)
Fixup ==
  /\ pc = "fixup"
  /\ adjusted' = IF On(cur) \cap Lfps # {} /\ fixed # None
                 THEN [base |-> fixed, crtc |-> fixed] ELSE adjusted
  /\ pc' = "rotate"
  /\ UNCHANGED <<call, todo, wanted, rotate, cur, before, config, panel, regs, lit>>

(* A rotated CRTC needs a shadow.  avivo_crtc_shadow_allocate asks the     *)
(* server's linear allocator, which the driver never initialises, so that  *)
(* avivo_xf86AllocateOffscreenLinear returns NULL whichever way its test   *)
(* of the uninitialised max_size goes.  The server then puts its record    *)
(* back.                                                                   *)
ShadowAllocates == FALSE

Rotate ==
  /\ pc = "rotate"
  /\ IF rotate /\ ~ShadowAllocates
     THEN /\ route' = before.route /\ mode' = before.mode
          /\ pc' = "idle" /\ Return
     ELSE /\ pc' = "prepare"
          /\ UNCHANGED <<config, request>>
  /\ UNCHANGED <<panel, regs, lit>>

(* Mutant: the CRTC is left running. *)
PrepareOutputs ==
  /\ pc = "prepare"
  /\ out' = SetOutputs(On(cur), FALSE)
  /\ pc' = "program"
  /\ UNCHANGED <<request, config, panel, crtc, lit>>

(* avivo_output_prepare for each output of the CRTC, avivo_crtc_prepare. *)
Prepare ==
  /\ pc = "prepare"
  /\ out'  = SetOutputs(On(cur), FALSE)
  /\ crtc' = [crtc EXCEPT ![cur].on = FALSE]
  /\ pc' = "program"
  /\ UNCHANGED <<request, config, panel, lit>>

Aligned(x) == x - (x % 4)     \* x & ~3

(* avivo_crtc_mode_set; the outputs' mode_set is empty. *)
Program ==
  /\ pc = "program"
  /\ crtc' = [crtc EXCEPT ![cur] =
        [on     |-> crtc[cur].on,
         h      |-> Encode(adjusted.base.h, adjusted.crtc.h),
         v      |-> Encode(adjusted.crtc.v, adjusted.crtc.v),
         clock  |-> adjusted.base.clock,
         source |-> <<wanted[cur].mode.h.display, wanted[cur].mode.v.display>>,
         x      |-> Aligned(wanted[cur].x)]]
  /\ pc' = "commit"
  /\ UNCHANGED <<request, config, panel, out, lit>>

(* Mutant: the setup function is not called. *)
CommitDpmsOnly ==
  /\ pc = "commit"
  /\ crtc' = [crtc EXCEPT ![cur].on = TRUE]
  /\ out'  = SetOutputs(On(cur), TRUE)
  /\ pc' = "next"
  /\ UNCHANGED <<request, config, panel, lit>>

(* avivo_crtc_commit, and avivo_output_commit for each output: its setup   *)
(* function connects it to the CRTC.                                       *)
Commit ==
  /\ pc = "commit"
  /\ crtc' = [crtc EXCEPT ![cur].on = TRUE]
  /\ out'  = [o \in Outputs |-> IF o \in On(cur) THEN [on |-> TRUE, source |-> cur] ELSE out[o]]
  /\ pc' = "next"
  /\ UNCHANGED <<request, config, panel, lit>>

-----------------------------------------------------------------------------
(* Mutant: the frame goes where the client wants it. *)
AdjustFrameAnywhere(x) ==
  /\ pc = "idle" /\ route[Compat] # NoCrtc
  /\ crtc' = [crtc EXCEPT ![route[Compat]].x = x]
  /\ UNCHANGED <<pc, request, config, panel, out, lit>>

(* avivo_adjust_frame; AvivoScreen shows what it does when the compat      *)
(* output has no CRTC.                                                     *)
AdjustFrame(x) ==
  /\ pc = "idle" /\ route[Compat] # NoCrtc
  /\ crtc' = [crtc EXCEPT ![route[Compat]].x = Aligned(x)]
  /\ UNCHANGED <<pc, request, config, panel, out, lit>>

(* xf86DPMSSet: outputs with a CRTC, and CRTCs in use.  avivo_crtc_dpms    *)
(* keeps a CRTC running in standby, the outputs' functions do not.         *)
Dpms(level) ==
  /\ pc = "idle"
  /\ lit' = (level = "On")
  /\ out'  = SetOutputs({o \in Outputs : route[o] # NoCrtc}, level = "On")
  /\ crtc' = [c \in Crtcs |-> IF c \in InUse THEN [crtc[c] EXCEPT !.on = level # "Off"]
                                             ELSE crtc[c]]
  /\ UNCHANGED <<pc, request, config, panel>>

Next ==
  \/ InitialConfiguration \/ ProbeAgain \/ SwitchMode
  \/ \E c \in Crtcs, S \in SUBSET Outputs, m \in Modes, x \in Xs, rot \in BOOLEAN :
       CrtcSet(c, S, m, x, rot)
  \/ \E c \in Crtcs : NextCrtc(c)
  \/ CallEnds \/ Fixup \/ Rotate \/ Prepare \/ Program \/ Commit
  \/ \E x \in Xs : AdjustFrame(x)
  \/ \E level \in Levels : Dpms(level)

Spec == Init /\ [][Next]_vars

-----------------------------------------------------------------------------
(* Properties *)

(* The types; of the offset into the frame buffer it says what the comment *)
(* in avivo_crtc_mode_set warns of: "if you program somethings not         *)
(* multiple of 4 you gonna drive the GPU crazy".                           *)
TypeOK ==
  /\ pc \in {"preinit", "next", "fixup", "rotate", "prepare", "program", "commit", "idle"}
  /\ pc \in {"preinit", "idle"} => NoRequest
  /\ pc \notin {"preinit", "idle"} =>
       /\ call \in {"ScreenInit", "CrtcSet", "SingleMode"}
       /\ DOMAIN wanted \subseteq Crtcs /\ todo \subseteq DOMAIN wanted
       /\ wanted \in [DOMAIN wanted -> [mode : Modes, x : Xs \cup {0}]]
       /\ before = [route |-> before.route, mode |-> before.mode]
       /\ IsRoute(before.route) /\ before.mode \in [Crtcs -> Modes \cup {None}]
  /\ cur \in Crtcs /\ rotate \in BOOLEAN
  /\ adjusted \in [base : Mode, crtc : Mode] \cup {None}
  /\ IsRoute(route)
  /\ mode \in [Crtcs -> Modes \cup {None}]
  /\ bios \in BiosPanels /\ fixed \in Mode \cup {None}
  /\ crtc \in [Crtcs -> Registers]
  /\ out \in [Outputs -> [on : BOOLEAN, source : Crtcs]]
  /\ lit \in BOOLEAN

(* Once a call is over, and unless DPMS has switched the screen off, each  *)
(* output the server has given a CRTC shows that CRTC's picture: both are  *)
(* on, its CRTC_SOURCE is the CRTC, and the CRTC scans out the recorded    *)
(* mode, with its timing unless a panel has put in its own.  It holds      *)
(* through refused rotations, exchanged outputs and clones.                *)
PictureOnOutput ==
  (pc = "idle" /\ lit) =>
    \A o \in Outputs : route[o] # NoCrtc =>
      LET c == route[o] IN
      /\ out[o] = [on |-> TRUE, source |-> c]
      /\ crtc[c].on /\ mode[c] # None
      /\ crtc[c].source = <<mode[c].h.display, mode[c].v.display>>
      /\ On(c) \cap Lfps = {} => Shows(crtc[c]) = mode[c]

(* A CRTC that feeds the panel is always programmed with the timing and    *)
(* the clock of the panel, all of them from one mode, whatever the mode    *)
(* asked for and the other outputs of the CRTC (avivo_output_lfp_mode_     *)
(* fixup, of which avivo_crtc_mode_set reads HTotal and the Crtc fields).  *)
PanelGetsItsTiming ==
  [][\A c \in Crtcs :
       (pc = "program" /\ cur = c /\ On(c) \cap Lfps # {} /\ fixed # None) =>
         Shows(crtc'[c]) = fixed]_vars

(* Timing, clock and scaler of a CRTC change only while it is stopped: its *)
(* prepare comes first, also when two CRTCs are set in one call.           *)
ProgrammedWhileOff ==
  [][\A c \in Crtcs :
       (Shows(crtc'[c]) # Shows(crtc[c]) \/ crtc'[c].source # crtc[c].source)
         => ~crtc[c].on]_vars

=============================================================================
