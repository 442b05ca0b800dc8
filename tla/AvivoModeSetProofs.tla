------------------------- MODULE AvivoModeSetProofs -------------------------
(***************************************************************************)
(* What AvivoModeSet guarantees for any outputs, modes, panels and frames: *)
(* every output shows the mode it was given, and the panel its own timing. *)
(***************************************************************************)
EXTENDS AvivoModeSet, TLAPS

Callbacks == {"fixup", "rotate", "prepare", "program", "commit"}

(* The outputs that routing r gives CRTC c. *)
Served(r, c) == {o \in Outputs : r[o] = c}

(* Under routing r and modes m, the outputs of CRTC c show its picture.    *)
Pictured(c, r, m) ==
  \A o \in Served(r, c) :
    /\ out[o].source = c
    /\ m[c] # None
    /\ crtc[c].source = <<m[c].h.display, m[c].v.display>>
    /\ Served(r, c) \cap Lfps = {} => Shows(crtc[c]) = m[c]
    /\ lit => out[o].on /\ crtc[c].on

(* The CRTCs the call still has to set, and the one it is setting.         *)
Unset(c) == c \in todo \/ (pc \in Callbacks /\ c = cur)

(* PictureOnOutput is not inductive: in the middle of a call it holds of   *)
(* the CRTCs that are not, or no longer, to be set, and a call that may be *)
(* refused has the old picture to go back to.                              *)
PictureInv ==
  /\ \A c \in Crtcs : ~Unset(c) => Pictured(c, route, mode)
  /\ rotate => \A c \in Crtcs : Pictured(c, before.route, before.mode)
  /\ pc \in {"prepare", "program", "commit"} => ~rotate

(* The mode under way is the one recorded, before mode_fixup; after it the *)
(* Crtc fields agree with the others, and both are the recorded mode's or  *)
(* the panel's.                                                            *)
AdjustedInv ==
  /\ pc \in Callbacks => cur \in DOMAIN wanted /\ mode[cur] = wanted[cur].mode
  /\ pc = "fixup" => adjusted = [base |-> mode[cur], crtc |-> mode[cur]]
  /\ pc \in {"rotate", "prepare", "program"} =>
       /\ adjusted \in [base : Mode, crtc : Mode]
       /\ adjusted.base = adjusted.crtc
       /\ On(cur) \cap Lfps = {} => adjusted.base = mode[cur]
       /\ (On(cur) \cap Lfps # {} /\ fixed # None) => adjusted.base = fixed

(* Prepare has stopped the CRTC; what mode_set leaves is what commit needs. *)
RegistersInv ==
  /\ pc = "program" => ~crtc[cur].on
  /\ pc = "commit" =>
       /\ crtc[cur].source = <<mode[cur].h.display, mode[cur].v.display>>
       /\ On(cur) \cap Lfps = {} => Shows(crtc[cur]) = mode[cur]

ModeInv == TypeOK /\ PictureInv /\ AdjustedInv /\ RegistersInv

-----------------------------------------------------------------------------
(* The registers of a direction mean what was encoded in them.             *)
LEMMA DecodeEncode ==
  ASSUME NEW d \in Direction
  PROVE  Encode(d, d) \in Encoded /\ Decode(Encode(d, d)) = d
BY DEF Direction, Encode, Encoded, Decode

(* So do those of a CRTC programmed with one mode.                         *)
LEMMA ShowsEncoded ==
  ASSUME NEW m \in Mode, NEW r,
         r.h = Encode(m.h, m.h), r.v = Encode(m.v, m.v), r.clock = m.clock
  PROVE  Shows(r) = m
BY DecodeEncode DEF Mode, Shows

(* Frames are rounded down to a multiple of 4.                             *)
LEMMA AlignedFacts ==
  ASSUME NEW x \in Nat
  PROVE  Aligned(x) \in {n \in Nat : n % 4 = 0}
BY DEF Aligned

(* avivo_bios_get_lfp_timing gives a mode, if the BIOS has an entry.       *)
LEMMA LfpTimingFacts ==
  ASSUME bios \in BiosPanels
  PROVE  LfpTiming \in Mode \cup {None}
<1>1. CASE bios = None
  BY <1>1 DEF LfpTiming
<1>2. CASE bios # None
  <2>1. bios \in Entry
    BY <1>2, ModeSetAssumption
  <2>2. bios.h \in Sizes /\ bios.v \in Sizes /\ bios.clock \in Nat
    BY <2>1 DEF Entry
  <2>3. ASSUME NEW b \in Sizes PROVE LfpDirection(b) \in Direction
    BY <2>3 DEF LfpDirection, Sizes, Direction
  <2>4. LfpDirection(bios.h) \in Direction /\ LfpDirection(bios.v) \in Direction
    BY <2>2, <2>3
  <2>5. bios.clock * 10 \in Nat
    BY <2>2
  <2> QED BY <1>2, <2>4, <2>5 DEF LfpTiming, Mode
<1> QED BY <1>1, <1>2

(* Probing the panel leaves it with a mode or without one.                 *)
LEMMA ProbeFacts ==
  ASSUME TypeOK, Probe
  PROVE  fixed' \in Mode \cup {None} /\ bios' = bios
<1>1. fixed \in Mode \cup {None} /\ bios \in BiosPanels
  BY DEF TypeOK
<1>2. CASE UNCHANGED fixed
  BY <1>1, <1>2 DEF Probe
<1>3. CASE \E edid \in BOOLEAN : LfpGetModes(edid)
  BY <1>1, <1>3, LfpTimingFacts, ModeSetAssumption DEF Probe, LfpGetModes
<1> QED BY <1>2, <1>3 DEF Probe

(* A server mode is a mode, and None is none.                              *)
LEMMA ModesFacts == Modes \subseteq Mode /\ None \notin Mode
BY ModeSetAssumption

-----------------------------------------------------------------------------
(* Switching outputs keeps their registers in the types.                   *)
LEMMA SetOutputsFacts ==
  ASSUME TypeOK, NEW S, NEW on \in BOOLEAN
  PROVE  /\ SetOutputs(S, on) \in [Outputs -> [on : BOOLEAN, source : Crtcs]]
         /\ \A o \in Outputs : SetOutputs(S, on)[o].source = out[o].source
         /\ \A o \in Outputs : SetOutputs(S, on)[o].on = IF o \in S THEN on ELSE out[o].on
BY DEF SetOutputs, TypeOK

(* Turning a CRTC on or off, or moving its frame, keeps its registers in   *)
(* the types and what they show.                                           *)
LEMMA SwitchedRegisters ==
  ASSUME NEW r \in Registers, NEW on \in BOOLEAN
  PROVE  /\ [r EXCEPT !.on = on] \in Registers
         /\ [r EXCEPT !.on = on].on = on
         /\ [r EXCEPT !.on = on].source = r.source
         /\ Shows([r EXCEPT !.on = on]) = Shows(r)
BY DEF Registers, Shows

LEMMA MovedRegisters ==
  ASSUME NEW r \in Registers, NEW x \in {n \in Nat : n % 4 = 0}
  PROVE  /\ [r EXCEPT !.x = x] \in Registers
         /\ [r EXCEPT !.x = x].on = r.on
         /\ [r EXCEPT !.x = x].source = r.source
         /\ Shows([r EXCEPT !.x = x]) = Shows(r)
BY DEF Registers, Shows

-----------------------------------------------------------------------------
(* A call that returns leaves no request behind.                           *)
LEMMA ReturnTypes ==
  ASSUME Return, pc' = "idle", IsRoute(route'), mode' \in [Crtcs -> Modes \cup {None}],
         bios' \in BiosPanels, fixed' \in Mode \cup {None}, crtc' \in [Crtcs -> Registers],
         out' \in [Outputs -> [on : BOOLEAN, source : Crtcs]], lit' \in BOOLEAN
  PROVE  TypeOK'
<1>1. NoRequest'
  BY DEF Return, NoRequest
<1>2. cur' \in Crtcs /\ rotate' \in BOOLEAN /\ adjusted' \in [base : Mode, crtc : Mode] \cup {None}
  BY DEF Return, Crtcs
<1> QED BY <1>1, <1>2 DEF TypeOK

(* Every step of the server and every callback keeps the types.            *)
LEMMA TypeStep ==
  ASSUME TypeOK, AdjustedInv, [Next]_vars
  PROVE  TypeOK'
<1> USE DEF request, config, panel, regs
<1>1. CASE InitialConfiguration
  <2>1. fixed' \in Mode \cup {None} /\ bios' \in BiosPanels
    BY <1>1, ProbeFacts DEF InitialConfiguration, TypeOK
  <2>2. IsRoute(route')
    BY <1>1 DEF InitialConfiguration
  <2>3. PICK m \in Modes : wanted' = [c \in Crtcs |-> [mode |-> m, x |-> 0]]
    BY <1>1 DEF InitialConfiguration
  <2>4. /\ DOMAIN wanted' = Crtcs
        /\ wanted' \in [DOMAIN wanted' -> [mode : Modes, x : Xs \cup {0}]]
    BY <2>3
  <2> QED BY <1>1, <2>1, <2>2, <2>4 DEF InitialConfiguration, TypeOK
<1>2. CASE ProbeAgain
  BY <1>2, ProbeFacts DEF ProbeAgain, TypeOK, NoRequest
<1>3. CASE SwitchMode
  <2>1. PICK w \in [Crtcs -> Modes] : wanted' = [c \in Crtcs |-> [mode |-> w[c], x |-> 0]]
    BY <1>3 DEF SwitchMode
  <2>2. /\ DOMAIN wanted' = Crtcs
        /\ wanted' \in [DOMAIN wanted' -> [mode : Modes, x : Xs \cup {0}]]
    BY <2>1
  <2> QED BY <1>3, <2>2 DEF SwitchMode, TypeOK
<1>4. ASSUME NEW c \in Crtcs, NEW S \in SUBSET Outputs, NEW m \in Modes, NEW x \in Xs,
             NEW rot \in BOOLEAN, CrtcSet(c, S, m, x, rot)
      PROVE  TypeOK'
  <2>1. IsRoute(route')
    BY <1>4 DEF CrtcSet, TypeOK, IsRoute
  <2>2. /\ DOMAIN wanted' = {c}
        /\ wanted' \in [DOMAIN wanted' -> [mode : Modes, x : Xs \cup {0}]]
    BY <1>4 DEF CrtcSet
  <2> QED BY <1>4, <2>1, <2>2 DEF CrtcSet, TypeOK
<1>5. ASSUME NEW c \in Crtcs, NextCrtc(c)
      PROVE  TypeOK'
  <2>1. c \in DOMAIN wanted /\ wanted[c].mode \in Modes
    BY <1>5 DEF NextCrtc, TypeOK
  <2>2. mode' \in [Crtcs -> Modes \cup {None}]
    BY <1>5, <2>1 DEF NextCrtc, TypeOK
  <2>3. cur' \in Crtcs /\ adjusted' \in [base : Mode, crtc : Mode] \cup {None} /\ pc' \in {"next", "fixup"}
    BY <1>5, <2>1, ModesFacts DEF NextCrtc, TypeOK
  <2> QED BY <1>5, <2>2, <2>3 DEF NextCrtc, TypeOK
<1>6. CASE CallEnds
  <2>1. crtc' \in [Crtcs -> Registers]
    <3>1. CASE call = "ScreenInit"
      BY <1>6, <3>1 DEF CallEnds, TypeOK
    <3>2. CASE call # "ScreenInit"
      <4>1. crtc' = [c \in Crtcs |-> IF c \in InUse THEN crtc[c]
                                     ELSE [crtc[c] EXCEPT !.on = FALSE]]
        BY <1>6, <3>2 DEF CallEnds
      <4>2. \A c \in Crtcs : crtc[c] \in Registers /\ [crtc[c] EXCEPT !.on = FALSE] \in Registers
        BY SwitchedRegisters DEF TypeOK
      <4> QED BY <4>1, <4>2
    <3> QED BY <3>1, <3>2
  <2>2. out' \in [Outputs -> [on : BOOLEAN, source : Crtcs]]
    <3>1. CASE call = "ScreenInit"
      BY <1>6, <3>1 DEF CallEnds, TypeOK
    <3>2. CASE call # "ScreenInit"
      <4>1. out' = SetOutputs({o \in Outputs : route[o] = NoCrtc}, FALSE)
        BY <1>6, <3>2 DEF CallEnds
      <4> QED BY <4>1, SetOutputsFacts
    <3> QED BY <3>1, <3>2
  <2>3. Return /\ pc' = "idle" /\ UNCHANGED <<config, panel, lit>>
    BY <1>6 DEF CallEnds
  <2> QED BY <2>1, <2>2, <2>3, ReturnTypes DEF TypeOK, IsRoute
<1>7. CASE Fixup
  <2>1. adjusted' \in [base : Mode, crtc : Mode] \cup {None}
    BY <1>7 DEF Fixup, TypeOK
  <2> QED BY <1>7, <2>1 DEF Fixup, TypeOK
<1>8. CASE Rotate
  <2>1. CASE rotate /\ ~ShadowAllocates
    <3>1. /\ route' = before.route /\ mode' = before.mode /\ pc' = "idle" /\ Return
          /\ UNCHANGED <<panel, regs, lit>>
      BY <1>8, <2>1 DEF Rotate
    <3>2. IsRoute(before.route) /\ before.mode \in [Crtcs -> Modes \cup {None}]
      BY <1>8 DEF Rotate, TypeOK
    <3> QED BY <3>1, <3>2, ReturnTypes DEF TypeOK
  <2>2. CASE ~(rotate /\ ~ShadowAllocates)
    BY <1>8, <2>2 DEF Rotate, TypeOK
  <2> QED BY <2>1, <2>2
<1>9. CASE Prepare
  <2>1. crtc' \in [Crtcs -> Registers]
    BY <1>9, SwitchedRegisters DEF Prepare, TypeOK
  <2>2. out' \in [Outputs -> [on : BOOLEAN, source : Crtcs]]
    BY <1>9, SetOutputsFacts DEF Prepare
  <2> QED BY <1>9, <2>1, <2>2 DEF Prepare, TypeOK
<1>10. CASE Program
  <2>1. crtc' \in [Crtcs -> Registers]
    <3> DEFINE R == [on     |-> crtc[cur].on,
                     h      |-> Encode(adjusted.base.h, adjusted.crtc.h),
                     v      |-> Encode(adjusted.crtc.v, adjusted.crtc.v),
                     clock  |-> adjusted.base.clock,
                     source |-> <<wanted[cur].mode.h.display, wanted[cur].mode.v.display>>,
                     x      |-> Aligned(wanted[cur].x)]
    <3>1. pc = "program" /\ crtc' = [crtc EXCEPT ![cur] = R]
      BY <1>10 DEF Program
    <3>2. adjusted.base \in Mode /\ adjusted.crtc = adjusted.base
      BY <3>1 DEF AdjustedInv
    <3>3. /\ Encode(adjusted.base.h, adjusted.crtc.h) \in Encoded
          /\ Encode(adjusted.crtc.v, adjusted.crtc.v) \in Encoded
          /\ adjusted.base.clock \in Nat
      BY <3>2, DecodeEncode DEF Mode
    <3>4. wanted[cur].mode \in Mode /\ wanted[cur].x \in Nat
      BY <3>1, ModesFacts, ModeSetAssumption DEF AdjustedInv, Callbacks, TypeOK
    <3>5. /\ <<wanted[cur].mode.h.display, wanted[cur].mode.v.display>> \in Nat \X Nat
          /\ Aligned(wanted[cur].x) \in {n \in Nat : n % 4 = 0}
      BY <3>4, AlignedFacts DEF Mode, Direction
    <3>6. crtc \in [Crtcs -> Registers] /\ crtc[cur].on \in BOOLEAN
      BY DEF TypeOK, Registers
    <3>7. R \in Registers
      BY <3>3, <3>5, <3>6 DEF Registers
    <3> HIDE DEF R
    <3> QED BY <3>1, <3>6, <3>7
  <2> QED BY <1>10, <2>1 DEF Program, TypeOK
<1>11. CASE Commit
  <2>1. crtc' \in [Crtcs -> Registers]
    BY <1>11, SwitchedRegisters DEF Commit, TypeOK
  <2>2. out' \in [Outputs -> [on : BOOLEAN, source : Crtcs]]
    BY <1>11 DEF Commit, TypeOK
  <2> QED BY <1>11, <2>1, <2>2 DEF Commit, TypeOK
<1>12. ASSUME NEW x \in Xs, AdjustFrame(x)
       PROVE  TypeOK'
  <2>1. Aligned(x) \in {n \in Nat : n % 4 = 0}
    BY AlignedFacts, ModeSetAssumption
  <2>2. crtc' \in [Crtcs -> Registers]
    <3>1. route[Compat] \in Crtcs
      BY <1>12, ModeSetAssumption DEF AdjustFrame, TypeOK, IsRoute
    <3> QED BY <1>12, <2>1, <3>1, MovedRegisters DEF AdjustFrame, TypeOK
  <2> QED BY <1>12, <2>2 DEF AdjustFrame, TypeOK, NoRequest
<1>13. ASSUME NEW level \in Levels, Dpms(level)
       PROVE  TypeOK'
  <2>1. crtc' \in [Crtcs -> Registers]
    <3>1. \A c \in Crtcs : crtc[c] \in Registers /\ [crtc[c] EXCEPT !.on = level # "Off"] \in Registers
      BY SwitchedRegisters DEF TypeOK
    <3> QED BY <1>13, <3>1 DEF Dpms
  <2>2. out' \in [Outputs -> [on : BOOLEAN, source : Crtcs]]
    BY <1>13, SetOutputsFacts DEF Dpms
  <2>3. lit' \in BOOLEAN
    BY <1>13 DEF Dpms
  <2> QED BY <1>13, <2>1, <2>2, <2>3 DEF Dpms, TypeOK, NoRequest
<1>14. CASE UNCHANGED vars
  BY <1>14 DEF vars, TypeOK, NoRequest
<1> QED BY <1>1, <1>2, <1>3, <1>4, <1>5, <1>6, <1>7, <1>8, <1>9, <1>10, <1>11, <1>12, <1>13, <1>14
        DEF Next

-----------------------------------------------------------------------------
(* What is adjusted: only the steps of the CRTC under way touch it, and    *)
(* the panel's mode and the routing stay as they are in between.           *)
LEMMA AdjustedStep ==
  ASSUME TypeOK, AdjustedInv, [Next]_vars
  PROVE  AdjustedInv'
<1> USE DEF AdjustedInv, Callbacks, request, config, panel, regs
<1>1. ASSUME pc' \notin Callbacks
      PROVE  AdjustedInv'
  BY <1>1
<1>2. CASE InitialConfiguration \/ ProbeAgain \/ SwitchMode
  BY <1>2 DEF InitialConfiguration, ProbeAgain, SwitchMode
<1>3. ASSUME NEW c \in Crtcs, NEW S \in SUBSET Outputs, NEW m \in Modes, NEW x \in Xs,
             NEW rot \in BOOLEAN, CrtcSet(c, S, m, x, rot)
      PROVE  AdjustedInv'
  BY <1>3 DEF CrtcSet
<1>4. ASSUME NEW c \in Crtcs, NextCrtc(c)
      PROVE  AdjustedInv'
  <2>1. CASE c \in InUse
    <3>1. /\ pc' = "fixup" /\ cur' = c /\ wanted' = wanted
          /\ mode' = [mode EXCEPT ![c] = wanted[c].mode]
          /\ adjusted' = [base |-> wanted[c].mode, crtc |-> wanted[c].mode]
      BY <1>4, <2>1 DEF NextCrtc
    <3>2. c \in DOMAIN wanted /\ mode'[c] = wanted[c].mode
      BY <1>4, <3>1 DEF NextCrtc, TypeOK
    <3> QED BY <3>1, <3>2
  <2>2. CASE c \notin InUse
    BY <1>4, <2>2 DEF NextCrtc
  <2> QED BY <2>1, <2>2
<1>5. CASE CallEnds
  BY <1>5 DEF CallEnds
<1>6. CASE Fixup
  <2>1. /\ pc = "fixup" /\ pc' = "rotate" /\ cur' = cur /\ wanted' = wanted
        /\ mode' = mode /\ fixed' = fixed /\ route' = route
    BY <1>6 DEF Fixup
  <2>2. mode[cur] \in Mode /\ adjusted = [base |-> mode[cur], crtc |-> mode[cur]]
    BY <2>1, ModesFacts DEF TypeOK
  <2>3. CASE On(cur) \cap Lfps # {} /\ fixed # None
    <3>1. adjusted' = [base |-> fixed, crtc |-> fixed] /\ fixed \in Mode
      BY <1>6, <2>3 DEF Fixup, TypeOK
    <3> QED BY <2>1, <2>3, <3>1 DEF On
  <2>4. CASE ~(On(cur) \cap Lfps # {} /\ fixed # None)
    <3>1. adjusted' = adjusted
      BY <1>6, <2>4 DEF Fixup
    <3> QED BY <2>1, <2>2, <2>4, <3>1 DEF On
  <2> QED BY <2>3, <2>4
<1>7. CASE Rotate
  BY <1>7 DEF Rotate, On
<1>8. CASE Prepare
  BY <1>8 DEF Prepare, On
<1>9. CASE Program
  BY <1>9 DEF Program, On
<1>10. CASE Commit
  BY <1>10 DEF Commit
<1>11. ASSUME NEW x \in Xs, AdjustFrame(x)
       PROVE  AdjustedInv'
  BY <1>11 DEF AdjustFrame
<1>12. ASSUME NEW level \in Levels, Dpms(level)
       PROVE  AdjustedInv'
  BY <1>12 DEF Dpms
<1>13. CASE UNCHANGED vars
  BY <1>13 DEF vars, On
<1> QED BY <1>2, <1>3, <1>4, <1>5, <1>6, <1>7, <1>8, <1>9, <1>10, <1>11, <1>12, <1>13
        DEF Next

(* avivo_crtc_mode_set gives the CRTC registers that show the adjusted     *)
(* mode, and its scaler the size asked for; no other CRTC is touched.      *)
LEMMA ProgramFacts ==
  ASSUME TypeOK, AdjustedInv, Program
  PROVE  /\ \A c \in Crtcs \ {cur} : crtc'[c] = crtc[c]
         /\ crtc'[cur].on = crtc[cur].on
         /\ crtc'[cur].source = <<mode[cur].h.display, mode[cur].v.display>>
         /\ Shows(crtc'[cur]) = adjusted.base
<1> DEFINE R == [on     |-> crtc[cur].on,
                 h      |-> Encode(adjusted.base.h, adjusted.crtc.h),
                 v      |-> Encode(adjusted.crtc.v, adjusted.crtc.v),
                 clock  |-> adjusted.base.clock,
                 source |-> <<wanted[cur].mode.h.display, wanted[cur].mode.v.display>>,
                 x      |-> Aligned(wanted[cur].x)]
<1>1. pc = "program" /\ crtc' = [crtc EXCEPT ![cur] = R]
  BY DEF Program
<1>2. adjusted.base \in Mode /\ adjusted.crtc = adjusted.base
  BY <1>1 DEF AdjustedInv
<1>3. wanted[cur].mode = mode[cur]
  BY <1>1 DEF AdjustedInv, Callbacks
<1>4. crtc'[cur] = R /\ \A c \in Crtcs \ {cur} : crtc'[c] = crtc[c]
  <2> HIDE DEF R
  <2> QED BY <1>1 DEF TypeOK
<1>5. Shows(R) = adjusted.base
  BY <1>2, ShowsEncoded
<1> QED BY <1>3, <1>4, <1>5

(* The CRTC under way is stopped by prepare and shows the mode after       *)
(* mode_set.                                                               *)
LEMMA RegistersStep ==
  ASSUME TypeOK, AdjustedInv, RegistersInv, [Next]_vars
  PROVE  RegistersInv'
<1> USE DEF RegistersInv, request, config, panel, regs
<1>1. CASE Prepare
  BY <1>1 DEF Prepare, TypeOK
<1>2. CASE Program
  <2>1. pc = "program" /\ pc' = "commit" /\ cur' = cur /\ mode' = mode /\ On(cur)' = On(cur)
    BY <1>2 DEF Program, On
  <2>2. On(cur) \cap Lfps = {} => adjusted.base = mode[cur]
    BY <2>1 DEF AdjustedInv
  <2> QED BY <1>2, <2>1, <2>2, ProgramFacts
<1>3. CASE InitialConfiguration \/ ProbeAgain \/ SwitchMode \/ CallEnds \/ Fixup \/ Rotate \/ Commit
  BY <1>3 DEF InitialConfiguration, ProbeAgain, SwitchMode, CallEnds, Fixup, Rotate, Commit
<1>4. ASSUME NEW c \in Crtcs, NEW S \in SUBSET Outputs, NEW m \in Modes, NEW x \in Xs,
             NEW rot \in BOOLEAN, CrtcSet(c, S, m, x, rot)
      PROVE  RegistersInv'
  BY <1>4 DEF CrtcSet
<1>5. ASSUME NEW c \in Crtcs, NextCrtc(c)
      PROVE  RegistersInv'
  BY <1>5 DEF NextCrtc
<1>6. ASSUME NEW x \in Xs, AdjustFrame(x)
      PROVE  RegistersInv'
  BY <1>6 DEF AdjustFrame
<1>7. ASSUME NEW level \in Levels, Dpms(level)
      PROVE  RegistersInv'
  BY <1>7 DEF Dpms
<1>8. CASE UNCHANGED vars
  BY <1>8 DEF vars, On
<1> QED BY <1>1, <1>2, <1>3, <1>4, <1>5, <1>6, <1>7, <1>8 DEF Next

(* Between calls nothing is left to be set.                                *)
LEMMA IdleFacts ==
  ASSUME TypeOK, PictureInv, pc = "idle"
  PROVE  ~rotate /\ todo = {} /\ \A c \in Crtcs : Pictured(c, route, mode)
BY DEF TypeOK, NoRequest, PictureInv, Unset, Callbacks

(* RandR takes no panel from the CRTC it leaves alone, which is why that   *)
(* CRTC still shows the mode it did.                                       *)
LEMMA CrtcSetPicture ==
  ASSUME TypeOK, PictureInv,
         NEW c \in Crtcs, NEW S \in SUBSET Outputs, NEW m \in Modes, NEW x \in Xs,
         NEW rot \in BOOLEAN, CrtcSet(c, S, m, x, rot)
  PROVE  PictureInv'
<1> USE DEF request, config, panel, regs
<1>1. /\ pc = "idle" /\ pc' = "next" /\ todo' = {c} /\ mode' = mode
      /\ out' = out /\ crtc' = crtc /\ lit' = lit
      /\ before' = [route |-> route, mode |-> mode]
      /\ route' = [o \in Outputs |-> IF o \in S THEN c ELSE IF route[o] = c THEN NoCrtc ELSE route[o]]
      /\ \A o \in S : c \in Allowed(o)
  BY DEF CrtcSet
<1>2. \A d \in Crtcs : Pictured(d, route, mode)
  BY <1>1, IdleFacts
<1>3. ASSUME NEW d \in Crtcs, d # c
      PROVE  Pictured(d, route, mode)'
  <2>1. Served(route', d) \subseteq Served(route, d)
    BY <1>1, <1>3 DEF Served, Crtcs, NoCrtc
  <2>2. Served(route', d) \cap Lfps = {} => Served(route, d) \cap Lfps = {}
    <3> SUFFICES ASSUME NEW o \in Lfps, o \in Served(route, d) PROVE o \in Served(route', d)
      OBVIOUS
    <3>1. o \in Outputs /\ route[o] = d /\ Allowed(o) = {1}
      BY DEF Served, Lfps, Allowed
    <3>2. d = 1
      BY <3>1 DEF TypeOK, IsRoute, Crtcs, NoCrtc
    <3>3. o \notin S
      BY <1>1, <1>3, <3>1, <3>2
    <3> QED BY <1>1, <1>3, <3>1, <3>3 DEF Served
  <2> QED BY <1>1, <1>2, <2>1, <2>2 DEF Pictured
<1>4. \A d \in Crtcs : Pictured(d, before.route, before.mode)'
  BY <1>1, <1>2 DEF Pictured
<1>5. \A d \in Crtcs : ~Unset(d)' => d # c
  BY <1>1 DEF Unset
<1> QED BY <1>1, <1>3, <1>4, <1>5 DEF PictureInv

(* The other steps: a mode set touches its own CRTC and outputs, and when  *)
(* it is committed they show the mode; a refused rotation finds the old    *)
(* picture untouched.                                                      *)
LEMMA PictureStep ==
  ASSUME ModeInv, [Next]_vars
  PROVE  PictureInv'
<1> USE DEF request, config, panel, regs
<1>0. TypeOK /\ PictureInv /\ AdjustedInv /\ RegistersInv
  BY DEF ModeInv
<1>1. CASE InitialConfiguration \/ SwitchMode
  BY <1>1 DEF InitialConfiguration, SwitchMode, PictureInv, Unset
<1>2. CASE ProbeAgain
  BY <1>0, <1>2 DEF ProbeAgain, PictureInv, Unset, Pictured
<1>3. ASSUME NEW c \in Crtcs, NEW S \in SUBSET Outputs, NEW m \in Modes, NEW x \in Xs,
             NEW rot \in BOOLEAN, CrtcSet(c, S, m, x, rot)
      PROVE  PictureInv'
  BY <1>0, <1>3, CrtcSetPicture
<1>4. ASSUME NEW c \in Crtcs, NextCrtc(c)
      PROVE  PictureInv'
  <2>1. /\ pc = "next" /\ todo' = todo \ {c} /\ rotate' = rotate /\ before' = before
        /\ route' = route /\ out' = out /\ crtc' = crtc /\ lit' = lit
        /\ \A d \in Crtcs \ {c} : mode'[d] = mode[d]
        /\ IF c \in InUse THEN pc' = "fixup" /\ cur' = c ELSE pc' = pc /\ cur' = cur
    BY <1>0, <1>4 DEF NextCrtc, TypeOK
  <2>2. ASSUME NEW d \in Crtcs, ~Unset(d)'
        PROVE  Pictured(d, route, mode)'
    <3>1. CASE d = c
      <4>1. c \notin InUse
        BY <2>1, <2>2, <3>1 DEF Unset, Callbacks
      <4>2. Served(route', d) = {}
        BY <2>1, <3>1, <4>1 DEF InUse, Served
      <4> QED BY <4>2 DEF Pictured
    <3>2. CASE d # c
      <4>1. Pictured(d, route, mode)
        BY <1>0, <2>1, <2>2, <3>2 DEF Unset, Callbacks, PictureInv
      <4> QED BY <2>1, <3>2, <4>1 DEF Pictured
    <3> QED BY <3>1, <3>2
  <2>3. rotate' => \A d \in Crtcs : Pictured(d, before.route, before.mode)'
    BY <1>0, <2>1 DEF PictureInv, Pictured
  <2>4. pc' \notin {"prepare", "program", "commit"}
    BY <2>1
  <2> QED BY <2>2, <2>3, <2>4 DEF PictureInv
<1>5. CASE CallEnds
  <2>1. /\ pc = "next" /\ todo = {} /\ pc' = "idle" /\ rotate' = FALSE
        /\ route' = route /\ mode' = mode /\ lit' = lit
    BY <1>5 DEF CallEnds, Return
  <2>2. ASSUME NEW c \in Crtcs
        PROVE  Pictured(c, route, mode)'
    <3>1. Pictured(c, route, mode)
      BY <1>0, <2>1 DEF Unset, Callbacks, PictureInv
    <3>2. \A o \in Served(route, c) : out'[o] = out[o] /\ crtc'[c] = crtc[c]
      <4> SUFFICES ASSUME NEW o \in Served(route, c) PROVE out'[o] = out[o] /\ crtc'[c] = crtc[c]
        OBVIOUS
      <4>1. c \in InUse /\ o \in Outputs /\ route[o] # NoCrtc
        BY DEF Served, InUse, Crtcs, NoCrtc
      <4> QED BY <1>5, <4>1 DEF CallEnds, SetOutputs
    <3> QED BY <2>1, <3>1, <3>2 DEF Pictured
  <2> QED BY <2>1, <2>2 DEF PictureInv
<1>6. CASE Fixup
  BY <1>0, <1>6 DEF Fixup, PictureInv, Unset, Callbacks, Pictured
<1>7. CASE Rotate
  <2>1. CASE rotate /\ ~ShadowAllocates
    <3>1. /\ route' = before.route /\ mode' = before.mode /\ pc' = "idle" /\ rotate' = FALSE
          /\ out' = out /\ crtc' = crtc /\ lit' = lit
      BY <1>7, <2>1 DEF Rotate, Return
    <3> QED BY <1>0, <2>1, <3>1 DEF PictureInv, Pictured
  <2>2. CASE ~(rotate /\ ~ShadowAllocates)
    <3>1. ~rotate
      BY <2>2 DEF ShadowAllocates
    <3> QED BY <1>0, <1>7, <2>2, <3>1 DEF Rotate, PictureInv, Unset, Callbacks, Pictured
  <2> QED BY <2>1, <2>2
<1>8. CASE Prepare \/ Program
  <2>1. /\ pc \in {"prepare", "program"} /\ pc' \in {"program", "commit"}
        /\ cur' = cur /\ todo' = todo /\ rotate' = rotate /\ route' = route /\ mode' = mode
        /\ lit' = lit
    BY <1>8 DEF Prepare, Program
  <2>2. \A c \in Crtcs \ {cur} : crtc'[c] = crtc[c] /\ \A o \in Served(route, c) : out'[o] = out[o]
    <3>1. CASE Prepare
      BY <1>0, <3>1 DEF Prepare, TypeOK, SetOutputs, Served, On
    <3>2. CASE Program
      BY <1>0, <3>2, ProgramFacts DEF Program
    <3> QED BY <1>8, <3>1, <3>2
  <2>3. ASSUME NEW c \in Crtcs, ~Unset(c)'
        PROVE  Pictured(c, route, mode)'
    <3>1. c # cur /\ Pictured(c, route, mode)
      BY <1>0, <2>1, <2>3 DEF Unset, Callbacks, PictureInv
    <3> QED BY <2>1, <2>2, <3>1 DEF Pictured
  <2>4. ~rotate'
    BY <1>0, <2>1 DEF PictureInv
  <2> QED BY <2>3, <2>4 DEF PictureInv
<1>9. CASE Commit
  <2>1. /\ pc = "commit" /\ pc' = "next" /\ todo' = todo /\ rotate' = rotate
        /\ route' = route /\ mode' = mode /\ lit' = lit
        /\ crtc' = [crtc EXCEPT ![cur].on = TRUE]
        /\ out' = [o \in Outputs |-> IF o \in On(cur) THEN [on |-> TRUE, source |-> cur] ELSE out[o]]
    BY <1>9 DEF Commit
  <2>2. /\ crtc'[cur].on /\ crtc'[cur].source = crtc[cur].source
        /\ Shows(crtc'[cur]) = Shows(crtc[cur])
    BY <1>0, <2>1, SwitchedRegisters DEF TypeOK
  <2>3. Pictured(cur, route, mode)'
    <3>1. mode[cur] # None
      BY <1>0, <2>1, ModesFacts DEF AdjustedInv, Callbacks, TypeOK
    <3>2. \A o \in Served(route, cur) : out'[o] = [on |-> TRUE, source |-> cur]
      BY <2>1 DEF Served, On
    <3>3. On(cur) = Served(route, cur)
      BY DEF On, Served
    <3>4. /\ crtc[cur].source = <<mode[cur].h.display, mode[cur].v.display>>
          /\ Served(route, cur) \cap Lfps = {} => Shows(crtc[cur]) = mode[cur]
      BY <1>0, <2>1, <3>3 DEF RegistersInv
    <3>5. \A o \in Served(route, cur) :
            /\ out'[o].source = cur /\ out'[o].on
            /\ mode'[cur] # None
            /\ crtc'[cur].source = <<mode'[cur].h.display, mode'[cur].v.display>>
            /\ Served(route, cur) \cap Lfps = {} => Shows(crtc'[cur]) = mode'[cur]
            /\ crtc'[cur].on
      BY <2>1, <2>2, <3>1, <3>2, <3>4, SMTT(30)
    <3>6. cur' = cur
      BY <1>9 DEF Commit
    <3> QED BY <2>1, <3>5, <3>6 DEF Pictured
  <2>4. ASSUME NEW c \in Crtcs, c # cur, ~Unset(c)'
        PROVE  Pictured(c, route, mode)'
    <3>1. Pictured(c, route, mode)
      BY <1>0, <2>1, <2>4 DEF Unset, PictureInv
    <3>2. crtc'[c] = crtc[c] /\ \A o \in Served(route, c) : out'[o] = out[o]
      BY <1>0, <2>1, <2>4 DEF TypeOK, Served, On
    <3> QED BY <2>1, <3>1, <3>2 DEF Pictured
  <2>5. ~rotate' /\ cur \in Crtcs /\ cur' = cur
    BY <1>0, <1>9, <2>1 DEF PictureInv, TypeOK, Commit
  <2> QED BY <2>1, <2>3, <2>4, <2>5 DEF PictureInv
<1>10. ASSUME NEW x \in Xs, AdjustFrame(x)
       PROVE  PictureInv'
  <2>1. /\ pc = "idle" /\ pc' = "idle" /\ route' = route /\ mode' = mode /\ rotate' = rotate
        /\ out' = out /\ lit' = lit /\ route[Compat] # NoCrtc
        /\ crtc' = [crtc EXCEPT ![route[Compat]].x = Aligned(x)]
    BY <1>10 DEF AdjustFrame
  <2>2. Aligned(x) \in {n \in Nat : n % 4 = 0}
    BY AlignedFacts, ModeSetAssumption
  <2>3. ASSUME NEW c \in Crtcs
        PROVE  /\ crtc'[c].on = crtc[c].on /\ crtc'[c].source = crtc[c].source
               /\ Shows(crtc'[c]) = Shows(crtc[c])
    <3>1. crtc[c] \in Registers
      BY <1>0 DEF TypeOK
    <3>2. CASE crtc'[c] = crtc[c]
      BY <3>2
    <3>3. CASE crtc'[c] = [crtc[c] EXCEPT !.x = Aligned(x)]
      BY <2>2, <3>1, <3>3, MovedRegisters
    <3> QED BY <1>0, <2>1, <3>2, <3>3 DEF TypeOK
  <2>4. \A c \in Crtcs : Pictured(c, route, mode)'
    BY <1>0, <2>1, <2>3, IdleFacts DEF Pictured
  <2>5. ~rotate'
    BY <1>0, <2>1, IdleFacts
  <2> QED BY <2>1, <2>4, <2>5 DEF PictureInv
<1>11. ASSUME NEW level \in Levels, Dpms(level)
       PROVE  PictureInv'
  <2>1. /\ pc = "idle" /\ pc' = "idle" /\ route' = route /\ mode' = mode /\ rotate' = rotate
        /\ lit' = (level = "On")
        /\ out' = SetOutputs({o \in Outputs : route[o] # NoCrtc}, level = "On")
        /\ crtc' = [c \in Crtcs |-> IF c \in InUse THEN [crtc[c] EXCEPT !.on = level # "Off"]
                                                   ELSE crtc[c]]
    BY <1>11 DEF Dpms
  <2>2. ASSUME NEW c \in Crtcs, NEW o \in Served(route, c)
        PROVE  /\ out'[o].source = out[o].source /\ (lit' => out'[o].on)
               /\ crtc'[c].source = crtc[c].source /\ Shows(crtc'[c]) = Shows(crtc[c])
               /\ (lit' => crtc'[c].on)
    <3>1. c \in InUse /\ o \in Outputs /\ route[o] # NoCrtc
      BY <2>2 DEF Served, InUse, Crtcs, NoCrtc
    <3>2. out'[o].source = out[o].source /\ (level = "On" => out'[o].on)
      <4> DEFINE T == {p \in Outputs : route[p] # NoCrtc}
      <4>1. \E b \in BOOLEAN : out' = SetOutputs(T, b) /\ (level = "On" => b) /\ o \in T
        BY <2>1, <3>1
      <4> HIDE DEF T
      <4> QED BY <1>0, <3>1, <4>1, SetOutputsFacts
    <3>3. crtc[c] \in Registers /\ crtc'[c] = [crtc[c] EXCEPT !.on = level # "Off"]
      BY <1>0, <2>1, <3>1 DEF TypeOK
    <3>4. /\ crtc'[c].on = (level # "Off") /\ crtc'[c].source = crtc[c].source
          /\ Shows(crtc'[c]) = Shows(crtc[c])
      BY <3>3, SwitchedRegisters
    <3> QED BY <2>1, <3>2, <3>4
  <2>3. ASSUME NEW c \in Crtcs
        PROVE  Pictured(c, route, mode)'
    <3>1. Pictured(c, route, mode)
      BY <1>0, <2>1, IdleFacts
    <3> QED BY <2>1, <2>2, <3>1, SMTT(30) DEF Pictured
  <2>4. ~rotate'
    BY <1>0, <2>1, IdleFacts
  <2> QED BY <2>1, <2>3, <2>4 DEF PictureInv
<1>12. CASE UNCHANGED vars
  BY <1>0, <1>12 DEF vars, PictureInv, Unset, Pictured
<1> QED BY <1>1, <1>2, <1>3, <1>4, <1>5, <1>6, <1>7, <1>8, <1>9, <1>10, <1>11, <1>12
        DEF Next

-----------------------------------------------------------------------------
(* What the BIOS leaves behind meets the invariant: no output has a CRTC.  *)
LEMMA ModeInit == Init => ModeInv
<1> SUFFICES ASSUME Init PROVE ModeInv
  OBVIOUS
<1>1. /\ pc = "preinit" /\ NoRequest /\ fixed = None /\ bios \in BiosPanels /\ lit = TRUE
      /\ route = [o \in Outputs |-> NoCrtc] /\ mode = [c \in Crtcs |-> None]
  BY DEF Init
<1>2. crtc \in [Crtcs -> Registers] /\ out \in [Outputs -> [on : BOOLEAN, source : Crtcs]]
  <2> DEFINE z == [total |-> 0, blankStart |-> 0, blankEnd |-> 0, syncWid |-> 0]
             R(text) == [on |-> text, h |-> z, v |-> z, clock |-> 0, source |-> <<0, 0>>, x |-> 0]
  <2>1. z \in Encoded /\ <<0, 0>> \in Nat \X Nat /\ 0 \in {n \in Nat : n % 4 = 0}
    BY DEF Encoded
  <2>2. \A text \in BOOLEAN : R(text) \in Registers
    <3> HIDE DEF z
    <3> QED BY <2>1 DEF Registers
  <2>3. PICK text \in BOOLEAN : /\ crtc = [c \in Crtcs |-> R(text)]
                               /\ out = [o \in Outputs |-> [on |-> text, source |-> 1]]
    BY DEF Init
  <2>4. crtc \in [Crtcs -> Registers]
    <3> HIDE DEF R
    <3> QED BY <2>2, <2>3
  <2> QED BY <2>3, <2>4 DEF Crtcs
<1>3. IsRoute(route)
  BY <1>1 DEF IsRoute
<1>4. TypeOK
  BY <1>1, <1>2, <1>3 DEF TypeOK, NoRequest, Crtcs
<1>5. \A c \in Crtcs : Pictured(c, route, mode)
  <2>1. \A c \in Crtcs : Served(route, c) = {}
    BY <1>1 DEF Served, Crtcs, NoCrtc
  <2> QED BY <2>1 DEF Pictured
<1> QED BY <1>1, <1>4, <1>5 DEF ModeInv, PictureInv, AdjustedInv, RegistersInv, Callbacks, NoRequest

(* The whole invariant is inductive.                                       *)
THEOREM ModesInductive == Spec => []ModeInv
<1>1. ModeInv /\ [Next]_vars => ModeInv'
  <2> SUFFICES ASSUME ModeInv, [Next]_vars PROVE ModeInv'
    OBVIOUS
  <2>1. TypeOK' /\ AdjustedInv' /\ RegistersInv'
    BY TypeStep, AdjustedStep, RegistersStep DEF ModeInv
  <2>2. PictureInv'
    BY PictureStep
  <2> QED BY <2>1, <2>2 DEF ModeInv
<1> QED BY <1>1, ModeInit, PTL DEF Spec

(* Every callback leaves values of the right types, and no CRTC is ever    *)
(* given an offset that is not a multiple of 4.                            *)
THEOREM ModeTypesCorrect == Spec => []TypeOK
<1>1. ModeInv => TypeOK
  BY DEF ModeInv
<1> QED BY <1>1, ModesInductive, PTL

(* After any sequence of calls, refused or not, an output with a CRTC      *)
(* shows that CRTC's picture, for any outputs, modes and panel.            *)
THEOREM EveryOutputHasItsPicture == Spec => []PictureOnOutput
<1>1. ModeInv => PictureOnOutput
  <2> SUFFICES ASSUME ModeInv, pc = "idle", lit, NEW o \in Outputs, route[o] # NoCrtc
               PROVE  LET c == route[o] IN
                      /\ out[o] = [on |-> TRUE, source |-> c]
                      /\ crtc[c].on /\ mode[c] # None
                      /\ crtc[c].source = <<mode[c].h.display, mode[c].v.display>>
                      /\ On(c) \cap Lfps = {} => Shows(crtc[c]) = mode[c]
    BY DEF PictureOnOutput
  <2> DEFINE c == route[o]
  <2>1. TypeOK /\ c \in Crtcs /\ o \in Served(route, c)
    BY DEF ModeInv, TypeOK, IsRoute, Served
  <2>2. Pictured(c, route, mode)
    BY <2>1, IdleFacts DEF ModeInv
  <2>3. out[o].source = c /\ out[o].on
    BY <2>1, <2>2 DEF Pictured
  <2>4. out[o] \in [on : BOOLEAN, source : Crtcs]
    BY <2>1 DEF TypeOK
  <2>5. out[o] = [on |-> TRUE, source |-> c]
    BY <2>3, <2>4
  <2>6. On(c) = Served(route, c)
    BY DEF On, Served
  <2> QED BY <2>1, <2>2, <2>5, <2>6 DEF Pictured
<1> QED BY <1>1, ModesInductive, PTL

(* The CRTC of the panel is programmed with the panel's own timing,        *)
(* whichever mode, panel and clones there are.                             *)
THEOREM PanelTimed == Spec => PanelGetsItsTiming
<1> DEFINE Timed == \A c \in Crtcs :
             (pc = "program" /\ cur = c /\ On(c) \cap Lfps # {} /\ fixed # None) =>
               Shows(crtc'[c]) = fixed
<1>1. ModeInv /\ Next => Timed \/ UNCHANGED vars
  <2> SUFFICES ASSUME ModeInv, Next, pc = "program",
                      On(cur) \cap Lfps # {}, fixed # None
               PROVE  Shows(crtc'[cur]) = fixed
    OBVIOUS
  <2>1. Program
    BY DEF Next, InitialConfiguration, ProbeAgain, SwitchMode, CrtcSet, NextCrtc, CallEnds, Fixup,
           Rotate, Prepare, Commit, AdjustFrame, Dpms
  <2>2. Shows(crtc'[cur]) = adjusted.base
    BY <2>1, ProgramFacts DEF ModeInv
  <2> QED BY <2>2 DEF ModeInv, AdjustedInv
<1>2. ModeInv /\ [Next]_vars => [Timed]_vars
  BY <1>1
<1> QED BY <1>2, ModesInductive, PTL DEF Spec, PanelGetsItsTiming

(* No step but mode_set changes what a CRTC shows, and mode_set finds it   *)
(* stopped.                                                                *)
THEOREM NeverRetimedWhileOn == Spec => ProgrammedWhileOff
<1> DEFINE Stopped == \A c \in Crtcs :
             (Shows(crtc'[c]) # Shows(crtc[c]) \/ crtc'[c].source # crtc[c].source) => ~crtc[c].on
<1> USE DEF request, config, panel, regs
<1>1. ASSUME ModeInv, Next
      PROVE  Stopped
  <2>0. TypeOK /\ AdjustedInv /\ RegistersInv /\ \A c \in Crtcs : crtc[c] \in Registers
    BY <1>1 DEF ModeInv, TypeOK
  <2>1. ASSUME NEW c \in Crtcs, NEW on \in BOOLEAN, crtc'[c] = [crtc[c] EXCEPT !.on = on]
        PROVE  Shows(crtc'[c]) = Shows(crtc[c]) /\ crtc'[c].source = crtc[c].source
    BY <2>0, <2>1, SwitchedRegisters
  <2>2. CASE UNCHANGED crtc
    BY <2>2
  <2>3. CASE CallEnds
    <3>1. \A c \in Crtcs : crtc'[c] = crtc[c] \/ crtc'[c] = [crtc[c] EXCEPT !.on = FALSE]
      BY <2>0, <2>3 DEF CallEnds
    <3> QED BY <2>1, <3>1
  <2>4. CASE Prepare \/ Commit
    <3>1. \A c \in Crtcs : \/ crtc'[c] = crtc[c]
                           \/ \E on \in BOOLEAN : crtc'[c] = [crtc[c] EXCEPT !.on = on]
      BY <2>0, <2>4 DEF Prepare, Commit, TypeOK
    <3> QED BY <2>1, <3>1
  <2>5. CASE Program
    <3>1. ~crtc[cur].on
      BY <2>0, <2>5 DEF Program, RegistersInv
    <3> QED BY <2>0, <2>5, <3>1, ProgramFacts
  <2>6. ASSUME NEW x \in Xs, AdjustFrame(x)
        PROVE  Stopped
    <3>1. Aligned(x) \in {n \in Nat : n % 4 = 0}
      BY AlignedFacts, ModeSetAssumption
    <3>2. \A c \in Crtcs : crtc'[c] = crtc[c] \/ crtc'[c] = [crtc[c] EXCEPT !.x = Aligned(x)]
      BY <2>0, <2>6 DEF AdjustFrame, TypeOK
    <3>3. \A c \in Crtcs : Shows(crtc'[c]) = Shows(crtc[c]) /\ crtc'[c].source = crtc[c].source
      <4> SUFFICES ASSUME NEW c \in Crtcs, crtc'[c] = [crtc[c] EXCEPT !.x = Aligned(x)]
                   PROVE  Shows(crtc'[c]) = Shows(crtc[c]) /\ crtc'[c].source = crtc[c].source
        BY <3>2
      <4> QED BY <2>0, <3>1, MovedRegisters
    <3> QED BY <3>3
  <2>7. ASSUME NEW level \in Levels, Dpms(level)
        PROVE  Stopped
    <3>1. \A c \in Crtcs : \/ crtc'[c] = crtc[c]
                           \/ \E on \in BOOLEAN : crtc'[c] = [crtc[c] EXCEPT !.on = on]
      BY <2>0, <2>7 DEF Dpms
    <3> QED BY <2>1, <3>1
  <2> QED BY <1>1, <2>2, <2>3, <2>4, <2>5, <2>6, <2>7
          DEF Next, InitialConfiguration, ProbeAgain, SwitchMode, CrtcSet, NextCrtc, Fixup, Rotate
<1>2. ModeInv /\ [Next]_vars => [Stopped]_vars
  BY <1>1
<1> QED BY <1>2, ModesInductive, PTL DEF Spec, ProgrammedWhileOff

=============================================================================
