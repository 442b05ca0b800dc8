--------------------------- MODULE AvivoPllProofs ---------------------------
(***************************************************************************)
(* The search of AvivoPll, for every set of clocks and every value the     *)
(* stack may hold.                                                         *)
(***************************************************************************)
EXTENDS AvivoPll, TLAPS

(* The loops stay in their bounds, and a search is for a valid mode.       *)
LoopInv ==
  /\ div2 > div1 /\ div2 <= div1 + 13
  /\ pc # "idle" => target >= 25000 /\ target <= 400000
  /\ target # 0 => target >= 25000

(* The clock made of a multiplier never exceeds the exact quotient.        *)
LEMMA ClockOfBound ==
  ASSUME NEW mul \in Nat, NEW d \in Nat, d > 0
  PROVE  ClockOf(mul, d) \in Nat /\ ClockOf(mul, d) * d <= mul * 27000
<1> DEFINE q == ClockOf(mul, d)
           a == mul * 1080000
           b == 40 * d
<1>1. a \in Nat /\ b \in Nat /\ b > 0
  OBVIOUS
<1>2. q = a \div b
  BY DEF ClockOf
<1>3. q \in Nat /\ b * q <= a
  <2> HIDE DEF a, b, q
  <2> QED BY <1>1, <1>2
<1>4. 40 * (q * d) <= 40 * (mul * 27000)
  <2>1. b * q = 40 * (q * d)
    <3> HIDE DEF q
    <3> QED BY <1>3
  <2> QED BY <1>3, <2>1
<1>5. q * d \in Int
  <2> HIDE DEF q
  <2> QED BY <1>3
<1> HIDE DEF q
<1>6. q * d <= mul * 27000
  BY <1>4, <1>5
<1> QED BY <1>3, <1>6 DEF q

(* The multiplier is at most one above the exact one.                      *)
LEMMA MulsBound ==
  ASSUME NEW clock \in Nat, NEW d \in Nat, NEW mul \in Muls(clock, d)
  PROVE  mul \in Nat /\ mul * 27000 <= clock * d + 27000
<1> DEFINE n == clock * d
<1>1. n \in Nat
  OBVIOUS
<1>2. mul \in {n \div 27000, n \div 27000 + 1}
  BY DEF Muls
<1> HIDE DEF n
<1>3. mul \in Nat /\ mul * 27000 <= n + 27000
  BY <1>1, <1>2
<1> QED BY <1>3 DEF n

(* The product of the loop variables, as a number of its own.              *)
LEMMA ProductFacts ==
  ASSUME TypeOK, LoopInv, div1 <= 6
  PROVE  div1 * div2 \in Nat /\ div1 * div2 > 0
BY DEF TypeOK, LoopInv

(* What passes the test of the loop body can be programmed.                *)
LEMMA BetterIsSound ==
  ASSUME TypeOK, LoopInv, pc = "search", div1 <= 6,
         NEW mul \in Muls(target, div1 * div2),
         Better(mul, ClockOf(mul, div1 * div2))
  PROVE  /\ mul \in 1 .. 255
         /\ ClockOf(mul, div1 * div2) \in Nat
         /\ ClockOf(mul, div1 * div2) >= target
         /\ (ClockOf(mul, div1 * div2) - target) * (div1 * div2) <= 27000
<1> DEFINE d == div1 * div2
           q == ClockOf(mul, d)
<1>1. d \in Nat /\ d > 0
  BY ProductFacts
<1>2. target \in Nat /\ target >= 25000
  BY DEF LoopInv, TypeOK
<1>3. mul \in Nat /\ mul * 27000 <= target * d + 27000
  <2> HIDE DEF d
  <2> QED BY <1>1, <1>2, MulsBound DEF d
<1>4. q \in Nat /\ q * d <= mul * 27000
  <2> HIDE DEF d
  <2> QED BY <1>1, <1>3, ClockOfBound
<1>5. q - target >= 0 /\ mul < 256
  BY DEF Better
<1> HIDE DEF q, d
<1>6. (q - target) * d = q * d - target * d
  BY <1>1, <1>2, <1>4
<1>7. q * d \in Int /\ target * d \in Int
  BY <1>1, <1>2, <1>4
<1>8. (q - target) * d <= 27000
  BY <1>3, <1>4, <1>6, <1>7
<1>9. q * d > 0
  BY <1>1, <1>2, <1>4, <1>5
<1>10. mul >= 1
  BY <1>3, <1>4, <1>7, <1>9
<1> QED BY <1>2, <1>3, <1>4, <1>5, <1>8, <1>10 DEF d, q

-----------------------------------------------------------------------------
(* The parts of the invariant.                                             *)
SafeInv == TypeOK /\ LoopInv /\ SelectionIsSound

LEMMA SafeInit ==
  ASSUME Init
  PROVE  SafeInv
<1>1. sclock \in Int
  BY PllAssumption DEF Init
<1>2. TypeOK
  BY <1>1 DEF Init, TypeOK
<1> QED BY <1>2 DEF Init, SafeInv, LoopInv, SelectionIsSound, Selected

LEMMA SafeStep ==
  ASSUME SafeInv, [Next]_vars
  PROVE  SafeInv'
<1> USE DEF SafeInv
<1>1. CASE Start
  <2>1. target' \in Nat /\ target' >= 25000 /\ target' <= 400000 /\ sclock' \in Int
    BY <1>1, PllAssumption DEF Start, ModeValid, TypeOK
  <2>2. TypeOK'
    BY <1>1, <2>1 DEF Start, TypeOK
  <2>3. LoopInv'
    BY <1>1, <2>1 DEF Start, LoopInv
  <2>4. SelectionIsSound'
    BY <1>1 DEF Start, SelectionIsSound, Selected
  <2> QED BY <2>2, <2>3, <2>4
<1>2. CASE Try
  <2> USE <1>2
  <2>1. PICK mul \in Muls(target, div1 * div2) :
          IF Better(mul, ClockOf(mul, div1 * div2))
          THEN /\ sdiv1' = div1 /\ sdiv2' = div2 /\ smul' = mul
               /\ sclock' = ClockOf(mul, div1 * div2)
          ELSE UNCHANGED best
    BY DEF Try
  <2>2. div1' \in 2 .. 7 /\ div2' \in 3 .. 19 /\ div2' > div1' /\ div2' <= div1' + 13
    BY DEF Try, TypeOK, LoopInv
  <2>3. LoopInv'
    <3>1. pc = "search" /\ pc' = pc /\ target' = target /\ target \in Nat
      BY DEF Try, TypeOK
    <3>2. target >= 25000 /\ target <= 400000
      BY <3>1, SMT DEF LoopInv
    <3>3. target' >= 25000 /\ target' <= 400000
      BY <3>1, <3>2
    <3>4. div2' > div1' /\ div2' <= div1' + 13
      BY <2>2
    <3> QED BY <3>3, <3>4 DEF LoopInv
  <2>4. CASE Better(mul, ClockOf(mul, div1 * div2))
    <3>1. /\ mul \in 1 .. 255
          /\ ClockOf(mul, div1 * div2) \in Nat
          /\ ClockOf(mul, div1 * div2) >= target
          /\ (ClockOf(mul, div1 * div2) - target) * (div1 * div2) <= 27000
      BY <2>4, BetterIsSound DEF Try
    <3>2. TypeOK'
      BY <2>1, <2>2, <2>4, <3>1 DEF Try, TypeOK
    <3>3. div1 \in 2 .. 6 /\ div2 \in div1 + 1 .. div1 + 13 /\ div1 * div2 > 20
      BY <2>4 DEF Better, Try, TypeOK, LoopInv
    <3>4. target' = target
      BY DEF Try
    <3>5. /\ sdiv1' = div1 /\ sdiv2' = div2 /\ smul' = mul
          /\ sclock' = ClockOf(mul, div1 * div2)
      BY <2>1, <2>4
    <3>6. SelectionIsSound'
      BY <3>1, <3>3, <3>4, <3>5 DEF SelectionIsSound
    <3> QED BY <2>3, <3>2, <3>6
  <2>5. CASE ~Better(mul, ClockOf(mul, div1 * div2))
    <3>1. UNCHANGED best
      BY <2>1, <2>5
    <3>2. TypeOK'
      BY <2>2, <3>1 DEF Try, TypeOK, best
    <3>3. SelectionIsSound'
      BY <3>1 DEF Try, SelectionIsSound, Selected, best
    <3> QED BY <2>3, <3>2, <3>3
  <2> QED BY <2>4, <2>5
<1>3. CASE LoopEnds
  BY <1>3 DEF LoopEnds, TypeOK, LoopInv, SelectionIsSound, Selected, loop, best
<1>4. CASE ProgramPll
  <2>1. TypeOK'
    BY <1>4 DEF ProgramPll, TypeOK, loop, best
  <2> QED BY <1>4, <2>1 DEF ProgramPll, LoopInv, SelectionIsSound, Selected, loop, best
<1>5. CASE UNCHANGED vars
  BY <1>5 DEF vars, TypeOK, LoopInv, SelectionIsSound, Selected, loop, best
<1> QED BY <1>1, <1>2, <1>3, <1>4, <1>5 DEF Next

(* A pair that avivo_crtc_set_pll chooses is in range, fits its registers, *)
(* and makes a clock at most one multiplier step above the mode's.         *)
THEOREM ChoiceIsSound == Spec => []SelectionIsSound
<1>1. Init => SafeInv
  BY SafeInit
<1>2. SafeInv /\ [Next]_vars => SafeInv'
  BY SafeStep
<1>3. SafeInv => SelectionIsSound
  BY DEF SafeInv
<1> QED BY <1>1, <1>2, <1>3, PTL DEF Spec

(* The same invariant keeps the types.                                     *)
THEOREM PllTypeCorrect == Spec => []TypeOK
<1>1. Init => SafeInv
  BY SafeInit
<1>2. SafeInv /\ [Next]_vars => SafeInv'
  BY SafeStep
<1>3. SafeInv => TypeOK
  BY DEF SafeInv
<1> QED BY <1>1, <1>2, <1>3, PTL DEF Spec

-----------------------------------------------------------------------------
(* The smallest product above 20 always passes the test of the loop body   *)
(* when nothing was chosen yet and the stack is no nearer to the clock.    *)
LEMMA SevenTimesThree ==
  ASSUME TypeOK, target >= 25000, target <= MaxPllClock,
         div1 = 3, div2 = 7, ~Selected, sclock = stack,
         Distance(stack, target) >= 1286,
         NEW mul \in Muls(target, div1 * div2)
  PROVE  Better(mul, ClockOf(mul, div1 * div2))
<1> DEFINE n == target * 21
           clock == (mul * 1080000) \div 840
<1>1. target \in Nat /\ stack \in Int /\ n \in Nat /\ n <= 6884997
  BY SMT DEF TypeOK, MaxPllClock
<1>2. div1 * div2 = 21 /\ 40 * (div1 * div2) = 840
  BY SMT
<1>3. mul \in Nat /\ n <= mul * 27000 /\ mul * 27000 <= n + 27000
  <2>1. \/ n % 27000 # 0 /\ mul = n \div 27000 + 1
        \/ n % 27000 = 0 /\ mul \in {n \div 27000, n \div 27000 + 1}
    BY <1>2, SMT DEF Muls
  <2> HIDE DEF n
  <2> QED BY <1>1, <2>1, SMT
<1>4. mul < 256
  <2>1. \/ n % 27000 # 0 /\ mul = n \div 27000 + 1
        \/ n % 27000 = 0 /\ mul \in {n \div 27000, n \div 27000 + 1}
    BY <1>2, SMT DEF Muls
  <2> HIDE DEF n
  <2> QED BY <1>1, <2>1, SMT
<1>5. clock \in Nat /\ clock >= target /\ clock <= target + 1285
  BY <1>1, <1>3, SMT
<1>6. sdiv1 * sdiv2 < 21
  BY SMT DEF TypeOK, Selected
<1>7. ClockOf(mul, div1 * div2) = clock
  BY <1>2 DEF ClockOf
<1> HIDE DEF clock, n
<1>8. Distance(clock, target) <= Distance(stack, target)
  BY <1>1, <1>5, SMT DEF Distance
<1>9. clock - target >= 0
  BY <1>1, <1>5, SMT
<1> QED BY <1>2, <1>4, <1>6, <1>7, <1>8, <1>9, SMT DEF Better

(* The loops have been at (3, 7).                                          *)
PastSeven == div1 > 3 \/ (div1 = 3 /\ div2 > 7)

(* Until a pair is chosen sclock is what the stack held; once the loops    *)
(* have been at (3, 7) a pair is chosen.                                   *)
PairInv ==
  pc # "idle" =>
    /\ ~Selected => sclock = stack
    /\ (PastSeven /\ target <= MaxPllClock /\ Distance(stack, target) >= 1286) => Selected
    /\ pc = "program" => div1 > 6

LEMMA PairStep ==
  ASSUME SafeInv, PairInv, [Next]_vars
  PROVE  PairInv'
<1>1. CASE Start
  BY <1>1 DEF Start, PairInv, PastSeven, Selected
<1>2. CASE Try
  <2>1. PICK mul \in Muls(target, div1 * div2) :
          IF Better(mul, ClockOf(mul, div1 * div2))
          THEN /\ sdiv1' = div1 /\ sdiv2' = div2 /\ smul' = mul
               /\ sclock' = ClockOf(mul, div1 * div2)
          ELSE UNCHANGED best
    BY <1>2 DEF Try
  <2>2. pc = "search" /\ pc' = "search" /\ target' = target /\ stack' = stack
    BY <1>2 DEF Try
  <2>3. CASE Better(mul, ClockOf(mul, div1 * div2))
    <3>1. div1 * div2 > 20 /\ sdiv1' = div1 /\ sdiv2' = div2
      BY <2>1, <2>3 DEF Better
    <3>2. Selected'
      BY <3>1 DEF Selected, SafeInv, TypeOK
    <3> QED BY <2>2, <3>2 DEF PairInv
  <2>4. CASE ~Better(mul, ClockOf(mul, div1 * div2))
    <3>1. UNCHANGED best
      BY <2>1, <2>4
    <3>2. Selected' <=> Selected
      BY <3>1 DEF Selected, best
    <3>3. ~Selected' => sclock' = stack'
      BY <2>2, <3>1, <3>2 DEF PairInv, best
    <3>4. ASSUME PastSeven', target <= MaxPllClock, Distance(stack, target) >= 1286
          PROVE  Selected
      <4>1. CASE PastSeven
        BY <2>2, <3>4, <4>1 DEF PairInv
      <4>2. CASE ~PastSeven
        <5>1. div1 = 3 /\ div2 = 7
          BY <1>2, <3>4, <4>2 DEF Try, PastSeven, SafeInv, TypeOK, LoopInv
        <5>2. target >= 25000
          BY <2>2 DEF SafeInv, LoopInv
        <5>3. ~Selected => sclock = stack
          BY <2>2 DEF PairInv
        <5> QED BY <2>4, <3>4, <5>1, <5>2, <5>3, SevenTimesThree DEF SafeInv
      <4> QED BY <4>1, <4>2
    <3> QED BY <2>2, <3>2, <3>3, <3>4 DEF PairInv, Distance
  <2> QED BY <2>3, <2>4
<1>3. CASE LoopEnds
  BY <1>3 DEF LoopEnds, PairInv, PastSeven, Selected, loop, best, Distance
<1>4. CASE ProgramPll
  BY <1>4 DEF ProgramPll, PairInv
<1>5. CASE UNCHANGED vars
  BY <1>5 DEF vars, loop, best, PairInv, PastSeven, Selected, Distance
<1> QED BY <1>1, <1>2, <1>3, <1>4, <1>5 DEF Next

(* Every mode up to MaxPllClock gets dividers, unless the uninitialised    *)
(* sclock happens to hold a value close to the mode's own clock.           *)
THEOREM PairIsFound == Spec => []FindsAPair
<1>1. Init => SafeInv /\ PairInv
  BY SafeInit DEF Init, PairInv
<1>2. SafeInv /\ PairInv /\ [Next]_vars => (SafeInv /\ PairInv)'
  BY SafeStep, PairStep
<1>3. SafeInv /\ PairInv => FindsAPair
  <2> SUFFICES ASSUME SafeInv, PairInv, pc = "program", target <= MaxPllClock, Distance(stack, target) >= 1286
               PROVE  Selected
    BY DEF FindsAPair
  <2>1. div1 > 6
    BY DEF PairInv
  <2>2. PastSeven
    BY <2>1 DEF PastSeven, SafeInv, TypeOK
  <2> QED BY <2>1, <2>2 DEF PairInv
<1> QED BY <1>1, <1>2, <1>3, PTL DEF Spec
=============================================================================
