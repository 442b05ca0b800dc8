------------------------------ MODULE AvivoPll ------------------------------
(***************************************************************************)
(* The search for the dividers of a CRTC's PLL (avivo_crtc_set_pll in      *)
(* xorg/avivo_crtc.c), for the modes that avivo_output_mode_valid lets     *)
(* through (xorg/avivo_output.c).  Clocks are in kHz.                      *)
(*                                                                         *)
(* The local variable sclock is compared before it is ever assigned: a     *)
(* call starts with what the stack holds, which may be what the last call  *)
(* left there.                                                             *)
(***************************************************************************)
EXTENDS Integers

CONSTANTS Clocks,     \* the pixel clocks of the modes the server proposes
          Garbage     \* other values the stack slot of sclock may hold

ASSUME PllAssumption == Clocks \subseteq Nat /\ Garbage \subseteq Int

VARIABLES pc,                             \* "idle", "search" or "program"
          target,                         \* mode->Clock
          stack,                          \* sclock when the call started
          div1, div2,                     \* the loop variables
          sdiv1, sdiv2, smul, sclock,     \* the best pair so far
          pll                             \* the POST_DIV, POST_MUL and DIVIDER registers

loop == <<div1, div2>>
best == <<sdiv1, sdiv2, smul, sclock>>
vars == <<pc, target, stack, loop, best, pll>>

(* avivo_output_mode_valid, for a mode without doublescan. *)
ModeValid(clock) == clock <= 400000 /\ clock >= 25000

(* The values ceil(c * div1 * div2) may have, c = Clock * 40 / 1080000 in  *)
(* double precision: rounding may push an exact product just above itself, *)
(* unless c is a whole number.                                             *)
Muls(clock, d) ==
  LET n == clock * d IN
  IF n % 27000 # 0 THEN {n \div 27000 + 1}
  ELSE IF clock % 27000 = 0 THEN {n \div 27000}
  ELSE {n \div 27000, n \div 27000 + 1}

(* The clock the PLL makes of a multiplier and a product of dividers. *)
ClockOf(mul, d) == (mul * 1080000) \div (40 * d)

Distance(a, b) == IF a >= b THEN a - b ELSE b - a

TypeOK ==
  /\ pc \in {"idle", "search", "program"}
  /\ target \in Nat /\ stack \in Int
  /\ div1 \in 2 .. 7 /\ div2 \in 3 .. 19
  /\ sdiv1 \in Nat /\ sdiv2 \in Nat /\ smul \in Nat /\ sclock \in Int
  /\ pll \in [postDiv : Nat, postMul : Nat, divider : Nat]

Init ==
  /\ pc = "idle" /\ target = 0
  /\ div1 = 2 /\ div2 = 3
  /\ sdiv1 = 0 /\ sdiv2 = 0 /\ smul = 0
  /\ sclock \in Garbage
  /\ stack = sclock
  /\ pll = [postDiv |-> 0, postMul |-> 0, divider |-> 0]

(* The call for a valid mode. *)
Start ==
  /\ pc = "idle"
  /\ pc' = "search"
  /\ target' \in {clock \in Clocks : ModeValid(clock)}
  /\ div1' = 2 /\ div2' = 3
  /\ sdiv1' = 0 /\ sdiv2' = 0 /\ smul' = 0
  /\ sclock' \in Garbage \cup {sclock}
  /\ stack' = sclock'
  /\ UNCHANGED pll

(* Mutants: the test without the multiplier's width, and with the first    *)
(* product out of reach.                                                   *)
BetterAnyMultiplier(mul, clock) ==
  /\ div1 * div2 > 20
  /\ clock - target >= 0
  /\ Distance(sclock, target) >= Distance(clock, target)
  /\ div1 * div2 > sdiv1 * sdiv2

BetterAbove21(mul, clock) ==
  /\ div1 * div2 > 21
  /\ clock - target >= 0
  /\ Distance(sclock, target) >= Distance(clock, target)
  /\ mul < 256
  /\ div1 * div2 > sdiv1 * sdiv2

(* The test of the loop body: a larger product, a multiplier that fits, a  *)
(* clock not below the mode's and not farther from it than the last one.   *)
Better(mul, clock) ==
  /\ div1 * div2 > 20
  /\ clock - target >= 0
  /\ Distance(sclock, target) >= Distance(clock, target)
  /\ mul < 256
  /\ div1 * div2 > sdiv1 * sdiv2

(* Mutant: one divider too many. *)
TryOneMore ==
  /\ pc = "search"
  /\ div1 <= 6
  /\ IF div2 < div1 + 14
     THEN div2' = div2 + 1 /\ UNCHANGED div1
     ELSE div1' = div1 + 1 /\ div2' = div1 + 2
  /\ UNCHANGED <<pc, target, stack, best, pll>>

(* One turn of the two nested loops. *)
Try ==
  /\ pc = "search"
  /\ div1 <= 6
  /\ \E mul \in Muls(target, div1 * div2) :
       LET clock == ClockOf(mul, div1 * div2) IN
       IF Better(mul, clock)
       THEN sdiv1' = div1 /\ sdiv2' = div2 /\ smul' = mul /\ sclock' = clock
       ELSE UNCHANGED best
  /\ IF div2 + 1 < div1 + 14
     THEN div2' = div2 + 1 /\ UNCHANGED div1
     ELSE div1' = div1 + 1 /\ div2' = div1 + 2
  /\ UNCHANGED <<pc, target, stack, pll>>

LoopEnds ==
  /\ pc = "search"
  /\ div1 > 6
  /\ pc' = "program"
  /\ UNCHANGED <<target, stack, loop, best, pll>>

(* The registers are written whether a pair was found or not. *)
ProgramPll ==
  /\ pc = "program"
  /\ pll' = [postDiv |-> sdiv1, postMul |-> smul, divider |-> sdiv2]
  /\ pc' = "idle"
  /\ UNCHANGED <<target, stack, loop, best>>

Next == Start \/ Try \/ LoopEnds \/ ProgramPll

Spec == Init /\ [][Next]_vars

-----------------------------------------------------------------------------
Selected == sdiv1 * sdiv2 > 0

(* A pair that was chosen can be programmed and drives the mode: its       *)
(* dividers are in range, the multiplier fits, the clock it makes is the   *)
(* one remembered, not below the mode's, and at most one step of the       *)
(* multiplier above it (the smaller side of the loop's double rounding).   *)
SelectionIsSound ==
  Selected =>
    /\ sdiv1 \in 2 .. 6 /\ sdiv2 \in sdiv1 + 1 .. sdiv1 + 13
    /\ sdiv1 * sdiv2 > 20 /\ smul \in 1 .. 255
    /\ sclock = ClockOf(smul, sdiv1 * sdiv2)
    /\ sclock >= target
    /\ (sclock - target) * (sdiv1 * sdiv2) <= 27000

(* The highest clock for which a multiplier below 256 exists: the smallest *)
(* product above 20 that the loops visit is 3 * 7.                         *)
MaxPllClock == 327857

(* Up to MaxPllClock a pair is found, provided the stack did not hold      *)
(* something nearer to the mode's clock than 3 * 7 can come.               *)
FindsAPair ==
  (pc = "program" /\ target <= MaxPllClock /\ Distance(stack, target) >= 1286)
     => Selected

=============================================================================
