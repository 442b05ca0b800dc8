---------------------------- MODULE I2CBusProofs ----------------------------
(***************************************************************************)
(* Proofs about I2CBus, for bytes of any width, any timeouts, any calls    *)
(* and a slave that may stretch the clock for ever: the master lets go of  *)
(* the bus, data is stable while the clock is high, and the slave follows. *)
(***************************************************************************)
EXTENDS I2CBus, SequenceTheorems, FiniteSetTheorems, WellFoundedInduction, TLAPS

(* Nothing is open while no address was sent: the lines are high between   *)
(* calls, before the first start of a call, and while I2CStart polls SCL,  *)
(* where it may give up without a Stop.                                    *)
LetGo == scl = TRUE /\ sda = TRUE
LInv ==
  /\ op \in {"idle", "address"} => stage = "set"
  /\ op = "idle" => LetGo /\ ~open
  /\ (op = "address" /\ ~s) => LetGo /\ ~open
  /\ (op = "start" /\ stage = "poll") => LetGo /\ (~s => ~open)

(* Every step keeps the invariant.                                         *)
LEMMA LStep == LInv /\ [Next]_vars => LInv'
<1> SUFFICES ASSUME LInv, [Next]_vars PROVE LInv'
  OBVIOUS
<1> USE DEF LInv, LetGo, Goto
<1>1. CASE Call
  BY <1>1 DEF Call, lines
<1>2. CASE Address
  BY <1>2 DEF Address, PutBits, ghosts
<1>3. CASE PollSCL
  BY <1>3 DEF PollSCL, lines
<1>4. CASE StartSDA
  BY <1>4 DEF StartSDA
<1>5. CASE StartSCL
  BY <1>5 DEF StartSCL
<1>6. CASE SetBit
  BY <1>6 DEF SetBit, BitOps
<1>7. CASE RaiseSCL
  BY <1>7 DEF RaiseSCL, BitOps
<1>8. CASE Sample
  BY <1>8 DEF Sample, BitOps
<1>9. CASE DropSCL
  <2>1. CASE ~ok
    BY <1>9, <2>1 DEF DropSCL, ByteFails, BitOps
  <2>2. CASE ok /\ op \in {"ack", "last"}
    BY <1>9, <2>2 DEF DropSCL, ByteDone
  <2>3. CASE ok /\ op \notin {"ack", "last"}
    BY <1>9, <2>3 DEF DropSCL, BitOps
  <2> QED BY <2>1, <2>2, <2>3
<1>10. CASE Stop
  BY <1>10 DEF Stop, PutBits
<1>11. CASE Release
  BY <1>11 DEF Release, lines, locals, ghosts
<1>12. CASE UNCHANGED vars
  BY <1>12 DEF vars, lines, locals, ghosts
<1> QED
  BY <1>1, <1>2, <1>3, <1>4, <1>5, <1>6, <1>7, <1>8, <1>9, <1>10, <1>11, <1>12
  DEF Next, Master

(* When a call comes back, with TRUE or FALSE, the master pulls neither    *)
(* line and has closed what it opened (the comment on I2CWriteRead: step 3 *)
(* is executed anyway).                                                    *)
THEOREM MasterHasLetGo == Spec => []MasterLetsGo
<1>1. Init => LInv
  BY DEF Init, LInv, LetGo
<1>2. LInv => MasterLetsGo
  BY DEF LInv, LetGo, MasterLetsGo, Returned
<1> QED BY <1>1, <1>2, LStep, PTL DEF Spec

-----------------------------------------------------------------------------
(* SDA under a high SCL *)

(* A call that has sent an address begins its next phase with SCL low.     *)
LowBetweenPhases == op = "address" /\ s => ~scl

LEMMA LowStep == LowBetweenPhases /\ [Next]_vars => LowBetweenPhases'
<1> SUFFICES ASSUME LowBetweenPhases, [Next]_vars PROVE LowBetweenPhases'
  OBVIOUS
<1> USE DEF LowBetweenPhases, Goto
<1>1. CASE Call
  BY <1>1 DEF Call
<1>2. CASE Address
  BY <1>2 DEF Address
<1>3. CASE PollSCL
  BY <1>3 DEF PollSCL, lines
<1>4. CASE StartSDA \/ StartSCL \/ SetBit \/ RaiseSCL \/ Stop
  BY <1>4 DEF StartSDA, StartSCL, SetBit, RaiseSCL, Stop, BitOps
<1>5. CASE Sample
  BY <1>5 DEF Sample, BitOps
<1>6. CASE DropSCL
  <2>1. ~scl'
    BY <1>6 DEF DropSCL, PutBits
  <2> QED BY <2>1
<1>7. CASE Release
  BY <1>7 DEF Release, lines, locals
<1>8. CASE UNCHANGED vars
  BY <1>8 DEF vars, lines, locals
<1> QED BY <1>1, <1>2, <1>3, <1>4, <1>5, <1>6, <1>7, <1>8 DEF Next, Master

(* Data on SDA changes only while SCL is low: I2CWriteBit and I2CReadBit   *)
(* put SDA before they raise SCL and leave it until they have lowered it,  *)
(* in every call and however long the slave stretches the clock.           *)
THEOREM DataIsStable == Spec => DataStable
<1> DEFINE Inv == LInv /\ LowBetweenPhases
           Stable == (SCL /\ SCL' /\ SDA' # SDA) => op \in {"start", "stop"}
<1>1. Init => Inv
  BY DEF Init, LInv, LetGo, LowBetweenPhases
<1>2. Inv /\ [Next]_vars => Inv'
  BY LStep, LowStep
<1>3. ASSUME Inv, Next
      PROVE  Stable
  <2>1. CASE Call
    BY <2>1 DEF Call, lines, SDA
  <2>2. CASE Address
    BY <1>3, <2>2 DEF LInv, LetGo, LowBetweenPhases, Address, PutBits, SCL, SDA, slave
  <2>3. CASE PollSCL \/ Sample
    BY <2>3 DEF PollSCL, Sample, lines, slave, SDA
  <2>4. CASE StartSDA \/ StartSCL \/ Stop
    BY <2>4 DEF StartSDA, StartSCL, Stop
  <2>5. CASE SetBit \/ DropSCL
    BY <2>5 DEF SetBit, DropSCL, PutBits, SCL
  <2>6. CASE RaiseSCL
    BY <2>6 DEF RaiseSCL, PutBits, SCL, SDA, slave
  <2>7. CASE Release
    BY <2>7 DEF Release, SCL
  <2> QED BY <1>3, <2>1, <2>2, <2>3, <2>4, <2>5, <2>6, <2>7 DEF Next, Master
<1>4. Inv /\ [Next]_vars => [Stable]_vars
  BY <1>3
<1> QED BY <1>1, <1>2, <1>4, PTL DEF Spec, DataStable

-----------------------------------------------------------------------------
(* Types *)

Phase == [read : BOOLEAN, n : Nat]

(* What the slave may change, and what only the master does.               *)
SlaveTypes ==
  /\ hold \in BOOLEAN /\ pull \in BOOLEAN /\ busy \in BOOLEAN /\ rw \in BOOLEAN
  /\ mode \in {"off", "listen", "talk"}
  /\ slot \in 0 .. Bits /\ got \in 0 .. AddressBytes
  /\ taken \in Nat /\ given \in Nat

MasterTypes ==
  /\ scl \in BOOLEAN /\ sda \in BOOLEAN /\ ok \in BOOLEAN /\ r \in BOOLEAN /\ s \in BOOLEAN
  /\ open \in BOOLEAN /\ clean \in BOOLEAN /\ hung \in BOOLEAN
  /\ bit \in 0 .. Bits - 1 /\ addr \in 0 .. AddressBytes /\ left \in Nat
  /\ op \in {"idle", "address", "start", "out", "ack", "in", "last", "stop"}
  /\ stage \in {"set", "raise", "poll", "sample", "drop"}
  /\ phases \in Seq(Phase)

(* The loops: a call under way has a phase, a byte under way is one of the *)
(* address or one that is left, and a poll under way has turns to go.      *)
LoopInv ==
  /\ op # "idle" => phases # <<>>
  /\ op = "start" => addr > 0
  /\ op \in BitOps => addr > 0 \/ left > 0
  /\ op \in {"in", "last"} => addr = 0
  /\ polls \in 0 .. Polls + AckPolls
  /\ stage = "poll" => polls \in 1 .. Polls /\ (op = "start" \/ op \in BitOps)
  /\ stage = "sample" => polls \in 1 .. AckPolls

TypeInv == SlaveTypes /\ MasterTypes /\ LoopInv

(* The slots of a byte come round.                                         *)
LEMMA NextSlot ==
  ASSUME slot \in 0 .. Bits
  PROVE  (slot + 1) % (Bits + 1) = IF slot = Bits THEN 0 ELSE slot + 1
<1>1. Bits \in Nat /\ slot \in Nat
  BY BusAssumption
<1>2. CASE slot = Bits
  BY <1>1, <1>2
<1>3. CASE slot # Bits
  BY <1>1, <1>3
<1> QED BY <1>2, <1>3

(* Whatever the master puts on the lines, the slave stays in its types.    *)
LEMMA FallTypes ==
  ASSUME SlaveTypes, SeesFall
  PROVE  SlaveTypes'
<1> DEFINE next == (slot + 1) % (Bits + 1)
<1>1. next \in 0 .. Bits
  BY NextSlot, BusAssumption DEF SlaveTypes
<1> HIDE DEF next
<1>2. slot' = next /\ hold' \in BOOLEAN /\ pull' \in BOOLEAN
  BY BusAssumption DEF SeesFall, next
<1>3. got' \in 0 .. AddressBytes /\ taken' \in Nat
  BY BusAssumption DEF SeesFall, SlaveTypes
<1>4. mode' \in {mode, "off", "talk"}
  BY DEF SeesFall
<1>5. UNCHANGED <<busy, rw, given>>
  BY DEF SeesFall
<1> QED BY <1>1, <1>2, <1>3, <1>4, <1>5 DEF SlaveTypes

LEMMA RiseTypes ==
  ASSUME SlaveTypes, NEW d \in BOOLEAN, SeesRise(d), hold' \in BOOLEAN
  PROVE  SlaveTypes'
BY DEF SlaveTypes, SeesRise

LEMMA PutTypes ==
  ASSUME SlaveTypes, NEW c \in BOOLEAN, NEW d \in BOOLEAN, PutBits(c, d)
  PROVE  SlaveTypes' /\ scl' = c /\ sda' = d
<1>0. Bits \in 0 .. Bits /\ 0 \in 0 .. AddressBytes
  BY BusAssumption
<1>1. SeesStart /\ UNCHANGED hold => SlaveTypes'
  BY <1>0 DEF SlaveTypes, SeesStart
<1>2. SeesStop /\ UNCHANGED hold => SlaveTypes'
  BY DEF SlaveTypes, SeesStop
<1>3. UNCHANGED <<hold, slave>> => SlaveTypes'
  BY DEF SlaveTypes, slave
<1>4. SeesRise(d /\ ~pull) /\ UNCHANGED hold => SlaveTypes'
  <2>1. (d /\ ~pull) \in BOOLEAN
    BY DEF SlaveTypes
  <2> QED BY <2>1, RiseTypes DEF SlaveTypes
<1>5. SeesFall => SlaveTypes'
  BY FallTypes
<1> QED BY <1>1, <1>2, <1>3, <1>4, <1>5 DEF PutBits

(* A byte that is through leaves the loops where the next one needs them.  *)
LEMMA ByteTypes ==
  ASSUME TypeInv, op \in {"ack", "last"}, ByteDone
  PROVE  /\ bit' = 0 /\ addr' \in 0 .. AddressBytes /\ left' \in Nat
         /\ s' \in BOOLEAN /\ ok' = ok /\ r' = r
         /\ phases' \in Seq(Phase) /\ phases' # <<>>
         /\ op' \in {"out", "in", "address", "stop"} /\ stage' = "set"
         /\ op' \in BitOps => addr' > 0 \/ left' > 0
         /\ op' = "in" => addr' = 0
<1>1. phases \in Seq(Phase) /\ phases # <<>> /\ addr \in 0 .. AddressBytes /\ left \in Nat
      /\ (addr > 0 \/ left > 0) /\ AddressBytes \in Nat /\ s \in BOOLEAN
  BY BusAssumption DEF TypeInv, MasterTypes, LoopInv, BitOps
<1>2. Len(phases) > 1 => Tail(phases) \in Seq(Phase) /\ Tail(phases) # <<>>
  <2>1. Tail(phases) \in Seq(Phase) /\ Len(Tail(phases)) = Len(phases) - 1 /\ Len(phases) \in Nat
    BY <1>1, HeadTailProperties, LenProperties
  <2>2. Tail(phases) = <<>> => Len(Tail(phases)) = Len(<<>>)
    OBVIOUS
  <2>3. Len(<<>>) = 0
    BY EmptySeq
  <2>4. Len(phases) > 1 => Len(Tail(phases)) # 0
    BY <2>1, SMTT(30)
  <2>5. Len(phases) > 1 => Tail(phases) # <<>>
    BY <2>2, <2>3, <2>4, Zenon
  <2> QED BY <2>1, <2>5
<1>3. phases' \in Seq(Phase) /\ phases' # <<>>
  BY <1>1, <1>2 DEF ByteDone
<1>4. /\ bit' = 0 /\ addr' \in 0 .. AddressBytes /\ left' \in Nat
      /\ ok' = ok /\ r' = r /\ stage' = "set"
  BY <1>1 DEF ByteDone, Goto
<1>5. s' \in BOOLEAN
  BY <1>1 DEF ByteDone
<1>6. CASE addr > 1
  BY <1>1, <1>3, <1>4, <1>5, <1>6 DEF ByteDone, Goto, BitOps
<1>7. CASE ~(addr > 1)
  <2>1. addr' = 0
    BY <1>1, <1>7 DEF ByteDone
  <2>2. op' \in {"out", "in"} => left' > 0
    BY <1>1, <1>7 DEF ByteDone, Goto
  <2>3. op' \in {"out", "in", "address", "stop"}
    BY <1>7 DEF ByteDone, Goto
  <2> QED BY <1>3, <1>4, <1>5, <2>1, <2>2, <2>3 DEF BitOps
<1> QED BY <1>6, <1>7

(* Every step keeps the types and the loops within their bounds.           *)
LEMMA TypeStep ==
  ASSUME TypeInv, [Next]_vars
  PROVE  TypeInv'
<1> USE DEF Goto, ghosts, lines, locals
<1>0. /\ SlaveTypes /\ MasterTypes /\ LoopInv
      /\ Bits \in Nat \ {0} /\ AddressBytes \in {1, 2} /\ Polls \in Nat \ {0} /\ AckPolls \in Nat \ {0}
      /\ 0 \in 0 .. Bits - 1
  BY BusAssumption DEF TypeInv
<1>1. CASE Call
  <2>1. PICK ph \in Calls : phases' = ph /\ op' = (IF ph = <<>> THEN "idle" ELSE "address") /\ stage' = "set"
    BY <1>1 DEF Call
  <2>2. phases' \in Seq(Phase) /\ (op' # "idle" => phases' # <<>>) /\ op' \in {"idle", "address"}
    BY <2>1, BusAssumption DEF Phase
  <2>3. clean' \in BOOLEAN /\ r' \in BOOLEAN /\ s' \in BOOLEAN /\ hung' \in BOOLEAN
    BY <1>1 DEF Call
  <2>4. /\ taken' = 0 /\ given' = 0
        /\ UNCHANGED <<lines, hold, pull, busy, mode, slot, got, rw, polls, left, addr, bit, ok, open>>
    BY <1>1 DEF Call
  <2>5. SlaveTypes'
    BY <1>0, <2>4 DEF SlaveTypes
  <2>6. MasterTypes'
    BY <1>0, <2>1, <2>2, <2>3, <2>4 DEF MasterTypes
  <2>7. LoopInv'
    BY <1>0, <2>1, <2>2, <2>4 DEF LoopInv, BitOps
  <2> QED BY <2>5, <2>6, <2>7 DEF TypeInv
<1>2. CASE Address
  <2>1. SlaveTypes' /\ scl' = TRUE /\ sda' = TRUE
    BY <1>0, <1>2, PutTypes DEF Address
  <2>2. Head(phases).n \in Nat /\ phases # <<>>
    <3>1. phases \in Seq(Phase) /\ phases # <<>>
      BY <1>0, <1>2 DEF Address, MasterTypes, LoopInv
    <3>2. Head(phases) \in Phase
      BY <3>1, HeadTailProperties
    <3> QED BY <3>1, <3>2 DEF Phase
  <2>3. /\ op' = "start" /\ stage' = "poll" /\ polls' = Polls
        /\ left' = Head(phases).n /\ addr' = AddressBytes /\ bit' = 0 /\ ok' = TRUE
        /\ UNCHANGED <<phases, r, s, ghosts>>
    BY <1>2 DEF Address
  <2>4. MasterTypes'
    BY <1>0, <2>1, <2>2, <2>3 DEF MasterTypes
  <2>5. LoopInv'
    BY <1>0, <2>2, <2>3 DEF LoopInv, BitOps
  <2> QED BY <2>1, <2>4, <2>5 DEF TypeInv
<1>3. CASE PollSCL
  <2>1. SlaveTypes'
    BY <1>0, <1>3 DEF PollSCL, SlaveTypes, slave
  <2>2. /\ stage = "poll" /\ polls \in 1 .. Polls
        /\ UNCHANGED <<lines, phases, left, bit, s, open, clean, call>>
    BY <1>0, <1>3 DEF PollSCL, LoopInv
  <2>3. CASE SCL /\ op' = op /\ stage' = (IF op \in {"ack", "in"} THEN "sample" ELSE "drop")
             /\ polls' = AckPolls /\ UNCHANGED <<r, addr, ok, hung>>
    BY <1>0, <2>1, <2>2, <2>3 DEF MasterTypes, LoopInv, TypeInv
  <2>4. CASE polls > 1 /\ polls' = polls - 1 /\ UNCHANGED <<op, stage, r, addr, ok, hung>>
    BY <1>0, <2>1, <2>2, <2>4 DEF MasterTypes, LoopInv, TypeInv
  <2>5. CASE ok' = FALSE /\ hung' = TRUE /\ polls' = 0
             /\ IF op = "start"
                THEN r' = FALSE /\ addr' = 0 /\ op' = (IF s THEN "stop" ELSE "idle") /\ stage' = "set"
                ELSE UNCHANGED <<r, addr>> /\ op' = op /\ stage' = "drop"
    <3>1. CASE op = "start"
      <4>1. MasterTypes'
        <5>1. addr' \in 0 .. AddressBytes
          BY <1>0, <2>5, <3>1
        <5>2. op' \in {"stop", "idle"} /\ stage' = "set" /\ r' = FALSE
          BY <2>5, <3>1
        <5> QED BY <1>0, <2>2, <2>5, <5>1, <5>2 DEF MasterTypes
      <4>2. LoopInv'
        BY <1>0, <2>2, <2>5, <3>1 DEF LoopInv, BitOps
      <4> QED BY <2>1, <4>1, <4>2 DEF TypeInv
    <3>2. CASE op # "start"
      <4>1. MasterTypes'
        BY <1>0, <2>2, <2>5, <3>2 DEF MasterTypes
      <4>2. LoopInv'
        BY <1>0, <2>2, <2>5, <3>2 DEF LoopInv, BitOps
      <4> QED BY <2>1, <4>1, <4>2 DEF TypeInv
    <3> QED BY <3>1, <3>2
  <2> QED BY <1>3, <2>3, <2>4, <2>5 DEF PollSCL
<1>4. CASE StartSDA \/ StartSCL \/ SetBit \/ RaiseSCL
  <2>1. SlaveTypes' /\ scl' \in BOOLEAN /\ sda' \in BOOLEAN
    <3>1. CASE StartSDA
      BY <1>0, <3>1, PutTypes DEF StartSDA
    <3>2. CASE StartSCL
      BY <1>0, <3>2, PutTypes DEF StartSCL
    <3>3. CASE SetBit
      <4>1. PICK v \in BitValues : PutBits(FALSE, v)
        BY <3>3 DEF SetBit
      <4>2. Head(phases).read \in BOOLEAN
        <5>1. phases \in Seq(Phase) /\ phases # <<>>
          BY <1>0, <3>3 DEF SetBit, MasterTypes, LoopInv, BitOps
        <5>2. Head(phases) \in Phase
          BY <5>1, HeadTailProperties
        <5> QED BY <5>2 DEF Phase
      <4>3. v \in BOOLEAN
        BY <4>1, <4>2 DEF BitValues
      <4> QED BY <1>0, <4>1, <4>3, PutTypes
    <3>4. CASE RaiseSCL
      BY <1>0, <3>4, PutTypes DEF RaiseSCL, MasterTypes
    <3> QED BY <1>4, <3>1, <3>2, <3>3, <3>4
  <2>2. /\ UNCHANGED <<locals, clean, hung>> /\ open' \in {open, TRUE}
        /\ \/ op = "start" /\ op' \in {"start", "out"} /\ stage' \in {"raise", "set"} /\ polls' = polls
           \/ op \in BitOps /\ op' = op /\ stage' = "raise" /\ polls' = polls
           \/ op \in BitOps /\ op' = op /\ stage' = "poll" /\ polls' = Polls
    BY <1>4 DEF StartSDA, StartSCL, SetBit, RaiseSCL
  <2>3. open' \in BOOLEAN /\ op' \in {"start", "out", "ack", "in", "last"}
    BY <1>0, <2>2 DEF MasterTypes, BitOps
  <2>4. MasterTypes'
    BY <1>0, <2>1, <2>2, <2>3 DEF MasterTypes
  <2>5. LoopInv'
    BY <1>0, <2>2 DEF LoopInv, BitOps
  <2> QED BY <2>1, <2>4, <2>5 DEF TypeInv
<1>5. CASE Sample
  <2>1. SlaveTypes'
    BY <1>0, <1>5 DEF Sample, SlaveTypes, slave
  <2>2. /\ op \in BitOps /\ stage = "sample" /\ polls \in 1 .. AckPolls
        /\ op' = op /\ UNCHANGED <<lines, phases, left, addr, bit, r, s, ghosts>>
        /\ \/ stage' = "drop" /\ polls' = polls /\ ok' = ok
           \/ polls' = polls - 1 /\ stage' = (IF polls > 1 THEN "sample" ELSE "drop") /\ ok' \in BOOLEAN
    <3>1. op \in BitOps /\ stage = "sample" /\ op' = op
          /\ UNCHANGED <<lines, phases, left, addr, bit, r, s, ghosts>>
      BY <1>5 DEF Sample
    <3>2. polls \in 1 .. AckPolls
      BY <1>0, <3>1 DEF LoopInv
    <3>3. \/ stage' = "drop" /\ polls' = polls /\ ok' = ok
          \/ polls' = polls - 1 /\ stage' = (IF polls > 1 THEN "sample" ELSE "drop") /\ ok' \in BOOLEAN
      <4>1. ok' = (polls > 1) => ok' \in BOOLEAN
        OBVIOUS
      <4> QED BY <1>5, <4>1 DEF Sample
    <3> QED BY <3>1, <3>2, <3>3
  <2>3. MasterTypes'
    BY <1>0, <2>2 DEF MasterTypes
  <2>4. LoopInv'
    BY <1>0, <2>2 DEF LoopInv
  <2> QED BY <2>1, <2>3, <2>4 DEF TypeInv
<1>6. CASE DropSCL
  <2>1. SlaveTypes' /\ scl' \in BOOLEAN /\ sda' \in BOOLEAN
    BY <1>0, <1>6, PutTypes DEF DropSCL, MasterTypes
  <2>2. op \in BitOps /\ stage = "drop" /\ UNCHANGED <<polls, ghosts>>
    BY <1>6 DEF DropSCL
  <2>3. CASE ~ok
    <3>1. r' = FALSE /\ op' = "stop" /\ stage' = "set" /\ UNCHANGED <<phases, left, addr, bit, ok, s>>
      BY <1>6, <2>3 DEF DropSCL, ByteFails
    <3> QED BY <1>0, <2>1, <2>2, <3>1 DEF MasterTypes, LoopInv, TypeInv, BitOps
  <2>4. CASE ok /\ op \in {"ack", "last"}
    <3>1. ByteDone
      BY <1>6, <2>4 DEF DropSCL
    <3>2. MasterTypes'
      BY <1>0, <2>1, <2>2, <2>4, <3>1, ByteTypes DEF MasterTypes, TypeInv
    <3>3. LoopInv'
      BY <1>0, <2>2, <2>4, <3>1, ByteTypes DEF LoopInv, TypeInv
    <3> QED BY <2>1, <3>2, <3>3 DEF TypeInv
  <2>5. CASE ok /\ op \notin {"ack", "last"}
    <3>1. /\ bit' = (IF bit + 1 < Bits THEN bit + 1 ELSE 0) /\ stage' = "set"
          /\ op' = (IF bit + 1 < Bits THEN op ELSE IF op = "out" THEN "ack" ELSE "last")
          /\ UNCHANGED <<phases, left, addr, ok, r, s>>
      BY <1>6, <2>5 DEF DropSCL
    <3>2. bit' \in 0 .. Bits - 1
      BY <1>0, <3>1 DEF MasterTypes
    <3>3. MasterTypes'
      BY <1>0, <2>1, <2>2, <3>1, <3>2 DEF MasterTypes
    <3>4. LoopInv'
      BY <1>0, <2>2, <2>5, <3>1 DEF LoopInv, BitOps
    <3> QED BY <2>1, <3>3, <3>4 DEF TypeInv
  <2> QED BY <2>3, <2>4, <2>5
<1>7. CASE Stop
  <2>1. SlaveTypes' /\ scl' \in BOOLEAN /\ sda' \in BOOLEAN
    BY <1>0, <1>7, PutTypes DEF Stop
  <2>2. /\ op = "stop" /\ op' \in {"stop", "idle"} /\ stage' \in {"set", "raise", "drop"}
        /\ addr' \in {addr, 0} /\ open' \in {open, FALSE}
        /\ UNCHANGED <<polls, phases, left, bit, ok, r, s, clean, call>>
    BY <1>7 DEF Stop
  <2>3. hung' \in BOOLEAN /\ addr' \in 0 .. AddressBytes
    <3>1. hung' \in BOOLEAN
      BY <1>0, <1>7 DEF Stop, MasterTypes
    <3>2. addr' \in 0 .. AddressBytes
      BY <1>0, <2>2 DEF MasterTypes
    <3> QED BY <3>1, <3>2
  <2>4. MasterTypes'
    BY <1>0, <2>1, <2>2, <2>3 DEF MasterTypes
  <2>5. LoopInv'
    BY <1>0, <2>2 DEF LoopInv, BitOps
  <2> QED BY <2>1, <2>4, <2>5 DEF TypeInv
<1>8. CASE Release
  <2>1. UNCHANGED <<lines, op, stage, polls, locals, ghosts>> /\ hold' = FALSE
    BY <1>8 DEF Release
  <2>2. SDA \in BOOLEAN
    BY <1>0 DEF SDA, SlaveTypes, MasterTypes
  <2>3. SlaveTypes'
    <3>1. CASE SeesRise(SDA)
      BY <1>0, <2>1, <2>2, <3>1, RiseTypes
    <3>2. CASE UNCHANGED slave
      BY <1>0, <2>1, <3>2 DEF SlaveTypes, slave
    <3> QED BY <1>8, <3>1, <3>2 DEF Release
  <2>4. MasterTypes' /\ LoopInv'
    BY <1>0, <2>1 DEF MasterTypes, LoopInv
  <2> QED BY <2>3, <2>4 DEF TypeInv
<1>9. CASE UNCHANGED vars
  BY <1>0, <1>9 DEF vars, slave, SlaveTypes, MasterTypes, LoopInv, TypeInv
<1> QED BY <1>1, <1>2, <1>3, <1>4, <1>5, <1>6, <1>7, <1>8, <1>9 DEF Next, Master

LEMMA TypeInit == Init => TypeInv
<1> SUFFICES ASSUME Init PROVE TypeInv
  OBVIOUS
<1>1. 0 \in 0 .. Bits /\ 0 \in 0 .. Bits - 1 /\ 0 \in 0 .. AddressBytes /\ 0 \in 0 .. Polls + AckPolls
  BY BusAssumption
<1>2. SlaveTypes
  BY <1>1 DEF Init, SlaveTypes
<1>3. MasterTypes
  <2>1. <<>> \in Seq(Phase)
    OBVIOUS
  <2> QED BY <1>1, <2>1 DEF Init, MasterTypes
<1>4. LoopInv
  BY <1>1 DEF Init, LoopInv, BitOps
<1> QED BY <1>2, <1>3, <1>4 DEF TypeInv

(* No loop over bits, bytes, phases or polls leaves its bounds, in the     *)
(* master or in the slave.                                                 *)
THEOREM BusTypesCorrect == Spec => []TypeOK
<1>1. TypeInv => TypeOK
  BY DEF TypeInv, SlaveTypes, MasterTypes, LoopInv, Phase, TypeOK
<1> QED BY <1>1, TypeInit, TypeStep, PTL DEF Spec

-----------------------------------------------------------------------------
(* The slave follows the master *)

(* What the slave does by itself: one that dropped out pulls nothing, one  *)
(* that listens pulls SDA only for its ACK, one that talks never then.     *)
SlaveInv ==
  /\ mode = "off" => ~pull /\ ~hold
  /\ mode # "off" => busy
  /\ mode = "listen" /\ slot # Bits => ~pull
  /\ mode = "talk" /\ slot = Bits => ~pull

(* Where the master is in a byte of the call.                              *)
CallInv ==
  /\ \A k \in 1 .. Len(phases) : phases[k].read => phases[k].n > 0
  /\ op = "start" => addr = AddressBytes /\ left = Head(phases).n /\ bit = 0 /\ ok
  /\ op \in BitOps => ok \/ op = "ack" \/ hung
  /\ op \in {"out", "ack"} =>
       IF addr > 0 THEN left = Head(phases).n ELSE ~Head(phases).read
  /\ op \in {"in", "last"} => addr = 0 /\ Head(phases).read
  /\ op \in {"idle", "address", "stop"} => stage \in {"set", "raise", "drop"}

(* The lines, as the master and the slave leave them.                      *)
LineInv ==
  /\ op = "idle" => scl /\ sda /\ ~busy /\ ~hold /\ ~pull
  /\ op = "address" => ~pull /\ IF s THEN ~scl ELSE scl /\ sda /\ ~busy /\ ~hold
  /\ op = "start" =>
       /\ scl /\ ~pull /\ stage \in {"poll", "drop", "raise"}
       /\ stage = "poll" => sda
       /\ stage = "drop" => sda /\ ~hold
       /\ stage = "raise" => ~sda /\ ~hold /\ mode = "listen" /\ slot = Bits /\ got = 0 /\ ~rw
  /\ op \in BitOps =>
       /\ stage \in {"set", "raise"} <=> ~scl
       /\ stage \in {"sample", "drop"} => ~hold
  /\ op = "stop" =>
       /\ ~pull /\ stage \in {"set", "raise", "drop"}
       /\ stage = "set" /\ scl => sda /\ ~hold /\ ~busy
       /\ stage = "raise" => ~scl /\ ~sda
       /\ stage = "drop" => scl /\ ~sda

(* The slot of the slave is the bit of the master, and it knows where in   *)
(* the phase it is: how much of the address it took, and whether to talk.  *)
SlotInv ==
  op \in BitOps /\ mode # "off" =>
    /\ slot = IF op \in {"out", "in"} THEN bit ELSE Bits
    /\ op \in {"out", "ack"} => mode = "listen"
    /\ op = "ack" => pull /\ ok
    /\ mode = "listen" =>
         /\ got = AddressBytes - addr + (IF op = "ack" /\ addr > 0 THEN 1 ELSE 0)
         /\ rw => Head(phases).read
         /\ op \in {"in", "last"} => ~rw
    /\ (op = "last" /\ left = 1 /\ scl /\ ~hold) => mode # "talk"

(* What SDA says while the slave has still to read it.                     *)
ValueInv ==
  op \in BitOps /\ stage \in {"raise", "poll"} =>
    /\ op = "out" /\ addr = AddressBytes /\ bit = Bits - 1 => (sda => Head(phases).read)
    /\ op = "last" /\ left = 1 => sda

(* All of it, in a call that found the bus idle, until the slave holds SCL *)
(* too long.                                                               *)
InStep  == CallInv /\ LineInv /\ SlotInv /\ ValueInv
SyncInv == clean /\ ~hung => InStep

(* A phase that reads has bytes to read.  I2CWriteRead has no other; the   *)
(* probe of a read address would be one, and leave the slave talking, but  *)
(* the driver probes 0xA0, a write address.                                *)
ReadsHaveBytes ==
  \A ph \in Calls : \A k \in 1 .. Len(ph) : ph[k].read => ph[k].n > 0

(* It holds of every call that the functions of xf86i2c.c can make, for    *)
(* any numbers of bytes, but a probe of a read address.                    *)
LEMMA FunctionsHaveBytes ==
  ASSUME \A ph \in Calls : \/ \E w \in Nat, d \in Nat : ph = WriteRead(w, d)
                           \/ ph = ProbeAddress(FALSE)
                           \/ \E n \in Nat : ph = WriteBytes(n) \/ ph = WriteVec(n)
  PROVE  ReadsHaveBytes
<1> DEFINE Has(ph) == \A k \in 1 .. Len(ph) : ph[k].read => ph[k].n > 0
<1>1. ASSUME NEW w \in Nat, NEW d \in Nat
      PROVE  Has(WriteRead(w, d))
  <2> DEFINE a == IF w > 0 THEN <<[read |-> FALSE, n |-> w]>> ELSE <<>>
             b == IF d > 0 THEN <<[read |-> TRUE, n |-> d]>> ELSE <<>>
  <2>1. a \in Seq(Phase) /\ b \in Seq(Phase)
    <3>1. [read |-> FALSE, n |-> w] \in Phase /\ [read |-> TRUE, n |-> d] \in Phase
      BY DEF Phase
    <3>2. \A x \in Phase : <<x>> \in Seq(Phase)
      OBVIOUS
    <3>3. <<>> \in Seq(Phase)
      OBVIOUS
    <3> QED BY <3>1, <3>2, <3>3
  <2>2. /\ \A k \in 1 .. Len(a) : a[k].read => a[k].n > 0
        /\ \A k \in 1 .. Len(b) : b[k].read => b[k].n > 0
    <3>1. \A k \in 1 .. Len(a) : ~a[k].read
      OBVIOUS
    <3>2. \A k \in 1 .. Len(b) : b[k].n > 0
      OBVIOUS
    <3> QED BY <3>1, <3>2
  <2> HIDE DEF a, b
  <2>3. Len(a) \in Nat /\ Len(b) \in Nat /\ Len(a \o b) = Len(a) + Len(b)
        /\ \A k \in 1 .. Len(a) + Len(b) : (a \o b)[k] = IF k <= Len(a) THEN a[k] ELSE b[k - Len(a)]
    BY <2>1, ConcatProperties, LenProperties
  <2>4. Has(a \o b)
    <3> SUFFICES ASSUME NEW k \in 1 .. Len(a \o b), (a \o b)[k].read
                 PROVE  (a \o b)[k].n > 0
      OBVIOUS
    <3>1. CASE k <= Len(a)
      <4>1. k \in 1 .. Len(a) /\ (a \o b)[k] = a[k]
        BY <2>3, <3>1
      <4> QED BY <2>2, <4>1
    <3>2. CASE ~(k <= Len(a))
      <4>1. k - Len(a) \in 1 .. Len(b) /\ (a \o b)[k] = b[k - Len(a)]
        BY <2>3, <3>2
      <4> QED BY <2>2, <4>1
    <3> QED BY <3>1, <3>2
  <2> QED BY <2>4 DEF WriteRead, a, b
<1>2. Has(ProbeAddress(FALSE))
  BY DEF ProbeAddress
<1>3. ASSUME NEW n \in Nat
      PROVE  Has(WriteBytes(n)) /\ Has(WriteVec(n))
  <2>1. Has(WriteBytes(n))
    BY DEF WriteBytes
  <2>2. Has(WriteVec(n))
    <3>1. WriteVec(n) \in [1 .. n -> Phase]
      BY DEF WriteVec, Phase
    <3>2. WriteVec(n) \in Seq(Phase)
      <4>1. WriteVec(n) \in UNION {[1 .. m -> Phase] : m \in Nat}
        BY <3>1, SMTT(30)
      <4> QED BY <4>1, SeqDef, Zenon
    <3>3. 1 .. Len(WriteVec(n)) = 1 .. n
      <4>1. DOMAIN WriteVec(n) = 1 .. Len(WriteVec(n))
        BY <3>2, LenProperties
      <4>2. DOMAIN WriteVec(n) = 1 .. n
        BY <3>1, Zenon
      <4> QED BY <4>1, <4>2
    <3>4. \A k \in 1 .. n : ~WriteVec(n)[k].read
      BY DEF WriteVec
    <3> QED BY <3>3, <3>4
  <2> QED BY <2>1, <2>2
<1>4. \A ph \in Calls : Has(ph)
  <2> HIDE DEF Has
  <2> SUFFICES ASSUME NEW ph \in Calls PROVE Has(ph)
    OBVIOUS
  <2>2. CASE \E w \in Nat, d \in Nat : ph = WriteRead(w, d)
    BY <1>1, <2>2
  <2>3. CASE ph = ProbeAddress(FALSE)
    BY <1>2, <2>3
  <2>4. CASE \E n \in Nat : ph = WriteBytes(n) \/ ph = WriteVec(n)
    BY <1>3, <2>4
  <2> QED BY <2>2, <2>3, <2>4
<1> QED BY <1>4 DEF ReadsHaveBytes

(* The slave's own part needs nothing of the master.                       *)
LEMMA PutSlave ==
  ASSUME SlaveTypes, SlaveInv, NEW c \in BOOLEAN, NEW d \in BOOLEAN, PutBits(c, d)
  PROVE  SlaveInv'
<1>1. CASE SeesStart
  BY <1>1 DEF SeesStart, SlaveInv
<1>2. CASE SeesStop /\ ~pull /\ ~hold /\ hold' = hold
  BY <1>2 DEF SeesStop, SlaveInv
<1>3. CASE UNCHANGED <<hold, slave>>
  BY <1>3 DEF slave, SlaveInv
<1>4. CASE SeesRise(d /\ ~pull) /\ ~hold /\ hold' = hold
  BY <1>4 DEF SeesRise, SlaveInv
<1>5. CASE mode # "off" /\ SeesFall
  BY <1>5 DEF SeesFall, SlaveInv
<1> QED BY <1>1, <1>2, <1>3, <1>4, <1>5 DEF PutBits, SCL

LEMMA SlaveStep ==
  ASSUME TypeInv, SlaveInv, [Next]_vars
  PROVE  SlaveInv'
<1>0. SlaveTypes /\ sda \in BOOLEAN
  BY DEF TypeInv, MasterTypes
<1>1. CASE Address \/ StartSDA \/ StartSCL \/ Stop
  BY <1>0, <1>1, PutSlave DEF Address, StartSDA, StartSCL, Stop
<1>2. CASE SetBit
  <2>1. \E v \in BitValues : PutBits(FALSE, v)
    BY <1>2 DEF SetBit
  <2>2. ASSUME NEW v, PutBits(FALSE, v), v \in BOOLEAN
        PROVE  SlaveInv'
    BY <1>0, <2>2, PutSlave
  <2>3. CASE op = "out"
    <3>1. phases \in Seq(Phase) /\ phases # <<>>
      BY <2>3 DEF TypeInv, MasterTypes, LoopInv
    <3>2. Head(phases) \in Phase
      BY <3>1, HeadTailProperties
    <3>3. BitValues \subseteq BOOLEAN
      BY <2>3, <3>2 DEF BitValues, Phase
    <3> QED BY <2>1, <2>2, <3>3
  <2>4. CASE op # "out"
    <3>1. BitValues \subseteq BOOLEAN
      BY <2>4 DEF BitValues
    <3> QED BY <2>1, <2>2, <3>1
  <2> QED BY <2>3, <2>4
<1>3. CASE Release
  BY <1>3 DEF Release, SeesRise, SlaveInv, slave
<1>4. CASE Call \/ PollSCL \/ Sample \/ UNCHANGED vars
  BY <1>4 DEF Call, PollSCL, Sample, vars, slave, SlaveInv
<1>5. CASE RaiseSCL \/ DropSCL
  BY <1>0, <1>5, PutSlave DEF RaiseSCL, DropSCL
<1> QED BY <1>1, <1>2, <1>3, <1>4, <1>5 DEF Next, Master

-----------------------------------------------------------------------------
(* What the lines and the slave make of each kind of I2CPutBits.           *)
LEMMA PutLow ==
  ASSUME ~scl, NEW v, PutBits(FALSE, v)
  PROVE  UNCHANGED <<hold, slave>> /\ scl' = FALSE /\ sda' = v
BY DEF PutBits, SCL

LEMMA PutRise ==
  ASSUME ~scl, NEW v \in BOOLEAN, PutBits(TRUE, v)
  PROVE  /\ scl' = TRUE /\ sda' = v /\ hold' = hold
         /\ IF hold THEN UNCHANGED slave ELSE SeesRise(v /\ ~pull)
BY DEF PutBits, SCL

LEMMA PutFall ==
  ASSUME scl, ~hold, PutBits(FALSE, sda)
  PROVE  /\ scl' = FALSE /\ sda' = sda
         /\ IF mode = "off" THEN UNCHANGED <<hold, slave>> ELSE SeesFall
BY DEF PutBits, SCL, SDA

-----------------------------------------------------------------------------
(* Master and slave, one step of the master or the slave after the other.  *)

(* When SCL rises, the slave reads what the master means by the bit.       *)
LEMMA RiseInStep ==
  ASSUME TypeInv, SlaveInv, SlotInv, op \in BitOps,
         op = "out" /\ addr = AddressBytes /\ bit = Bits - 1 => (sda => Head(phases).read),
         op = "last" /\ left = 1 => sda,
         SeesRise(sda /\ ~pull), UNCHANGED <<op, phases, left, addr, bit, ok>>
  PROVE  SlotInv'
<1>1. /\ UNCHANGED <<pull, slot, got>>
      /\ mode' = (IF mode = "talk" /\ slot = Bits /\ sda /\ ~pull THEN "off" ELSE mode)
      /\ rw' = (IF mode = "listen" /\ got = 0 /\ slot = Bits - 1 THEN sda /\ ~pull ELSE rw)
  BY DEF SeesRise
<1>2. Bits \in Nat \ {0} /\ AddressBytes \in {1, 2} /\ addr \in 0 .. AddressBytes
      /\ bit \in 0 .. Bits - 1 /\ (op \in {"in", "last"} => addr = 0)
  BY BusAssumption DEF TypeInv, MasterTypes, LoopInv
<1>3. SUFFICES ASSUME mode' # "off"
               PROVE  SlotInv'
  BY DEF SlotInv
<1>4. mode # "off" /\ mode' = mode
  BY <1>1, <1>3
<1>5. mode = "listen" => (rw' => Head(phases).read) /\ (op \in {"in", "last"} => ~rw')
  <2> SUFFICES ASSUME mode = "listen"
               PROVE  (rw' => Head(phases).read) /\ (op \in {"in", "last"} => ~rw')
    OBVIOUS
  <2>1. CASE got = 0 /\ slot = Bits - 1
    <3>1. op \in {"out", "ack", "in", "last"} /\ op \notin {"in", "last"} /\ op # "ack"
      BY <1>2, <1>4, <2>1 DEF SlotInv, BitOps
    <3>2. op = "out" /\ addr = AddressBytes /\ bit = Bits - 1
      BY <1>2, <1>4, <2>1, <3>1 DEF SlotInv, BitOps
    <3> QED BY <1>1, <2>1, <3>2
  <2>2. CASE ~(got = 0 /\ slot = Bits - 1)
    BY <1>1, <1>4, <2>2 DEF SlotInv
  <2> QED BY <2>1, <2>2
<1>6. op = "last" /\ left = 1 => mode # "talk"
  <2> SUFFICES ASSUME op = "last", left = 1, mode = "talk"
               PROVE  FALSE
    OBVIOUS
  <2>1. slot = Bits
    BY <1>4 DEF SlotInv
  <2>2. sda /\ ~pull
    BY <2>1 DEF SlaveInv
  <2> QED BY <1>1, <1>4, <2>1, <2>2
<1> QED BY <1>1, <1>4, <1>5, <1>6 DEF SlotInv

(* SetBit, RaiseSCL, a poll and a sample.                                  *)
LEMMA SetInStep ==
  ASSUME TypeInv, InStep, SetBit
  PROVE  InStep'
<1> USE DEF InStep
<1>1. PICK v \in BitValues : PutBits(FALSE, v)
  BY DEF SetBit
<1>2. /\ op \in BitOps /\ stage = "set" /\ op' = op /\ stage' = "raise"
      /\ UNCHANGED <<polls, locals, ghosts>>
  BY DEF SetBit, Goto
<1>3. ~scl
  BY <1>2 DEF LineInv
<1>4. UNCHANGED <<hold, slave>> /\ scl' = FALSE /\ sda' = v
  BY <1>1, <1>3, PutLow
<1>5. CallInv'
  BY <1>2 DEF CallInv, locals, ghosts, BitOps
<1>6. LineInv'
  BY <1>2, <1>4 DEF LineInv, BitOps, slave
<1>7. SlotInv'
  BY <1>2, <1>4 DEF SlotInv, slave, locals
<1>8. ValueInv'
  <2>1. CASE op = "out"
    BY <1>1, <1>2, <1>4, <2>1 DEF ValueInv, BitValues, locals
  <2>2. CASE op = "last"
    BY <1>1, <1>2, <1>4, <2>2 DEF ValueInv, BitValues, locals
  <2>3. CASE op \notin {"out", "last"}
    BY <1>2, <2>3 DEF ValueInv
  <2> QED BY <2>1, <2>2, <2>3
<1> QED BY <1>5, <1>6, <1>7, <1>8

LEMMA RaiseInStep ==
  ASSUME TypeInv, SlaveInv, InStep, RaiseSCL
  PROVE  InStep'
<1> USE DEF InStep
<1>1. /\ op \in BitOps /\ stage = "raise" /\ op' = op /\ stage' = "poll"
      /\ PutBits(TRUE, sda) /\ UNCHANGED <<locals, ghosts>>
  BY DEF RaiseSCL, Goto
<1>2. ~scl
  BY <1>1 DEF LineInv
<1>3. /\ scl' = TRUE /\ sda' = sda /\ hold' = hold
      /\ IF hold THEN UNCHANGED slave ELSE SeesRise(sda /\ ~pull)
  <2>1. sda \in BOOLEAN
    BY DEF TypeInv, MasterTypes
  <2> QED BY <1>1, <1>2, <2>1, PutRise
<1>4. CallInv'
  BY <1>1 DEF CallInv, locals, ghosts, BitOps
<1>5. LineInv'
  BY <1>1, <1>3 DEF LineInv, BitOps
<1>6. SlotInv'
  <2>1. CASE hold
    BY <1>1, <1>3, <2>1 DEF SlotInv, slave, locals
  <2>2. CASE ~hold
    BY <1>1, <1>3, <2>2, RiseInStep DEF ValueInv, locals
  <2> QED BY <2>1, <2>2
<1>7. ValueInv'
  BY <1>1, <1>3 DEF ValueInv, locals
<1> QED BY <1>4, <1>5, <1>6, <1>7

LEMMA PollInStep ==
  ASSUME TypeInv, InStep, PollSCL, ~hung'
  PROVE  InStep'
<1> USE DEF InStep
<1>1. /\ stage = "poll" /\ op' = op
      /\ UNCHANGED <<lines, hold, slave, phases, left, addr, bit, ok, s>>
      /\ \/ SCL /\ stage' = (IF op \in {"ack", "in"} THEN "sample" ELSE "drop")
         \/ stage' = "poll"
  BY DEF PollSCL, Goto
<1>2. op = "start" \/ op \in BitOps
  BY <1>1 DEF TypeInv, MasterTypes, LineInv, CallInv, BitOps
<1>3. CallInv'
  BY <1>1, <1>2 DEF CallInv, BitOps, PollSCL
<1>4. LineInv'
  BY <1>1, <1>2 DEF LineInv, BitOps, SCL, lines, slave
<1>5. SlotInv'
  BY <1>1 DEF SlotInv, lines, slave
<1>6. ValueInv'
  BY <1>1 DEF ValueInv, lines
<1> QED BY <1>3, <1>4, <1>5, <1>6

LEMMA SampleInStep ==
  ASSUME TypeInv, InStep, Sample
  PROVE  InStep'
<1> USE DEF InStep
<1>1. /\ op \in BitOps /\ stage = "sample" /\ op' = op /\ stage' \in {"sample", "drop"}
      /\ UNCHANGED <<lines, hold, slave, phases, left, addr, bit, s, hung>>
      /\ ok' = ok \/ (op = "ack" /\ SDA)
  BY DEF Sample, Goto, ghosts
<1>2. CallInv'
  BY <1>1 DEF CallInv, BitOps
<1>3. LineInv'
  BY <1>1 DEF LineInv, BitOps, lines, slave
<1>4. SlotInv'
  <2>1. CASE ok' = ok
    BY <1>1, <2>1 DEF SlotInv, lines, slave
  <2>2. CASE op = "ack" /\ SDA
    <3>1. mode = "off"
      BY <1>1, <2>2 DEF SlotInv, SDA
    <3> QED BY <1>1, <3>1 DEF SlotInv, slave
  <2> QED BY <1>1, <2>1, <2>2
<1>5. ValueInv'
  BY <1>1 DEF ValueInv
<1> QED BY <1>2, <1>3, <1>4, <1>5

(* I2CStart finds nobody pulling SDA, and the slave sees the start.        *)
LEMMA StartInStep ==
  ASSUME TypeInv, SlaveInv, InStep, Address \/ StartSDA \/ StartSCL
  PROVE  InStep'
<1> USE DEF InStep, Goto
<1>0. /\ Bits \in Nat \ {0} /\ AddressBytes \in {1, 2} /\ TypeInv
  BY BusAssumption
<1>1. CASE Address
  <2>1. /\ op = "address" /\ PutBits(TRUE, TRUE) /\ op' = "start" /\ stage' = "poll"
        /\ left' = Head(phases).n /\ addr' = AddressBytes /\ bit' = 0 /\ ok' = TRUE /\ phases' = phases
    BY <1>1 DEF Address
  <2>2. ~pull /\ (~scl \/ (scl /\ sda))
    BY <2>1 DEF LineInv
  <2>3. scl' = TRUE /\ sda' = TRUE /\ pull' = pull
    BY <2>1, <2>2 DEF PutBits, SCL, SDA, slave, SeesRise
  <2>4. CallInv'
    BY <2>1 DEF CallInv, BitOps
  <2>5. LineInv'
    BY <2>1, <2>2, <2>3 DEF LineInv, BitOps
  <2>6. SlotInv' /\ ValueInv'
    BY <2>1 DEF SlotInv, ValueInv, BitOps
  <2> QED BY <2>4, <2>5, <2>6
<1>2. CASE StartSDA
  <2>1. /\ op = "start" /\ stage = "drop" /\ PutBits(TRUE, FALSE) /\ op' = "start" /\ stage' = "raise"
        /\ UNCHANGED locals
    BY <1>2 DEF StartSDA
  <2>2. scl /\ sda /\ ~hold /\ ~pull
    BY <2>1 DEF LineInv
  <2>3. scl' = TRUE /\ sda' = FALSE /\ SeesStart /\ hold' = hold
    BY <2>1, <2>2 DEF PutBits, SCL, SDA
  <2>4. CallInv'
    BY <2>1 DEF CallInv, BitOps, locals
  <2>5. LineInv'
    BY <2>1, <2>2, <2>3 DEF LineInv, BitOps, SeesStart
  <2>6. SlotInv' /\ ValueInv'
    BY <2>1 DEF SlotInv, ValueInv, BitOps
  <2> QED BY <2>4, <2>5, <2>6
<1>3. CASE StartSCL
  <2>1. /\ op = "start" /\ stage = "raise" /\ PutBits(FALSE, FALSE) /\ op' = "out" /\ stage' = "set"
        /\ UNCHANGED locals
    BY <1>3 DEF StartSCL
  <2>2. scl /\ ~sda /\ ~hold /\ mode = "listen" /\ slot = Bits /\ got = 0 /\ ~rw
    BY <2>1 DEF LineInv
  <2>3. scl' = FALSE /\ sda' = FALSE /\ SeesFall
    BY <2>1, <2>2 DEF PutBits, SCL, SDA
  <2>4. (slot + 1) % (Bits + 1) = 0
    BY <2>2, NextSlot DEF TypeInv, SlaveTypes
  <2>5. slot' = 0 /\ mode' = "listen" /\ got' = 0 /\ rw' = rw
    BY <1>0, <2>2, <2>3, <2>4 DEF SeesFall
  <2>6. addr = AddressBytes /\ left = Head(phases).n /\ bit = 0 /\ ok
    BY <2>1 DEF CallInv
  <2>7. CallInv'
    BY <1>0, <2>1, <2>6 DEF CallInv, BitOps, locals
  <2>8. LineInv'
    BY <2>1, <2>3 DEF LineInv, BitOps
  <2>9. SlotInv'
    BY <1>0, <2>1, <2>2, <2>5, <2>6 DEF SlotInv, BitOps, locals
  <2>10. ValueInv'
    BY <2>1 DEF ValueInv
  <2> QED BY <2>7, <2>8, <2>9, <2>10
<1> QED BY <1>1, <1>2, <1>3

(* I2CStop: nobody pulls SDA, so that the slave sees it.                   *)
LEMMA StopInStep ==
  ASSUME TypeInv, SlaveInv, InStep, Stop, ~hung'
  PROVE  InStep'
<1> USE DEF InStep, Goto
<1>1. op = "stop" /\ ~pull /\ UNCHANGED <<phases, left, bit, ok, s>>
  BY DEF Stop, LineInv
<1>2. CASE stage = "set" /\ PutBits(FALSE, FALSE) /\ op' = op /\ stage' = "raise"
  <2>1. CASE ~scl
    <3>1. UNCHANGED <<hold, slave>> /\ scl' = FALSE /\ sda' = FALSE
      BY <1>2, <2>1, PutLow
    <3> QED BY <1>1, <1>2, <3>1 DEF CallInv, LineInv, SlotInv, ValueInv, BitOps, slave
  <2>2. CASE scl
    <3>1. sda /\ ~hold
      BY <1>1, <1>2, <2>2 DEF LineInv
    <3>2. pull' = FALSE /\ scl' = FALSE /\ sda' = FALSE
      BY <1>1, <1>2, <2>2, <3>1 DEF PutBits, SCL, SDA, SeesStart, slave, TypeInv, SlaveTypes
    <3> QED BY <1>1, <1>2, <3>2 DEF CallInv, LineInv, SlotInv, ValueInv, BitOps
  <2> QED BY <2>1, <2>2
<1>3. CASE stage = "raise" /\ PutBits(TRUE, FALSE) /\ op' = op /\ stage' = "drop"
  <2>1. ~scl
    BY <1>1, <1>3 DEF LineInv
  <2>2. scl' = TRUE /\ sda' = FALSE /\ pull' = pull
    BY <1>3, <2>1, PutRise DEF slave, SeesRise
  <2> QED BY <1>1, <1>3, <2>2 DEF CallInv, LineInv, SlotInv, ValueInv, BitOps
<1>4. CASE stage = "drop" /\ PutBits(TRUE, TRUE) /\ op' \in {"stop", "idle"} /\ stage' = "set"
           /\ hung' = (hung \/ hold)
  <2>1. scl /\ ~sda /\ ~hold
    BY <1>1, <1>4 DEF LineInv
  <2>2. scl' = TRUE /\ sda' = TRUE /\ SeesStop /\ hold' = hold
    BY <1>1, <1>4, <2>1 DEF PutBits, SCL, SDA
  <2>3. ~busy' /\ ~pull' /\ ~hold'
    BY <1>1, <2>1, <2>2 DEF SeesStop
  <2> QED BY <1>1, <1>4, <2>2, <2>3 DEF CallInv, LineInv, SlotInv, ValueInv, BitOps
<1> QED BY <1>2, <1>3, <1>4 DEF Stop

(* The slave lets go of SCL only while a bit, a start or a stop waits.     *)
LEMMA ReleaseInStep ==
  ASSUME TypeInv, SlaveInv, InStep, Release
  PROVE  InStep'
<1> USE DEF InStep
<1>1. /\ hold /\ hold' = FALSE /\ UNCHANGED <<lines, op, stage, polls, locals, ghosts>>
      /\ IF scl THEN SeesRise(SDA) ELSE UNCHANGED slave
  BY DEF Release
<1>2. pull' = pull /\ busy' = busy
  BY <1>1 DEF SeesRise, slave
<1>3. CallInv'
  BY <1>1 DEF CallInv, BitOps, locals, ghosts
<1>4. LineInv'
  BY <1>1, <1>2 DEF LineInv, BitOps, lines, locals
<1>5. ValueInv'
  BY <1>1 DEF ValueInv, lines, locals
<1>6. SlotInv'
  <2>1. CASE op \notin BitOps
    BY <1>1, <2>1 DEF SlotInv
  <2>2. CASE op \in BitOps /\ scl
    <3>1. stage = "poll"
      BY <1>1, <2>2 DEF LineInv, TypeInv, MasterTypes
    <3>2. SeesRise(sda /\ ~pull)
      BY <1>1, <2>2 DEF SDA
    <3> QED BY <1>1, <2>2, <3>1, <3>2, RiseInStep DEF ValueInv, locals
  <2>3. CASE op \in BitOps /\ ~scl
    BY <1>1, <2>3 DEF SlotInv, lines, locals, slave
  <2> QED BY <2>1, <2>2, <2>3
<1> QED BY <1>3, <1>4, <1>5, <1>6

-----------------------------------------------------------------------------
(* The slave at the end of each kind of bit, when SCL falls.               *)
LEMMA OutFalls ==
  ASSUME TypeInv, CallInv, SlotInv, op = "out", mode # "off", SeesFall
  PROVE  /\ slot' = bit + 1 /\ rw' = rw
         /\ IF bit + 1 = Bits
            THEN mode' = "off" \/ (mode' = "listen" /\ pull' /\ got' = AddressBytes - addr + (IF addr > 0 THEN 1 ELSE 0))
            ELSE mode' = "listen" /\ got' = got
<1>1. /\ slot = bit /\ mode = "listen" /\ got = AddressBytes - addr /\ (rw => Head(phases).read)
      /\ (addr = 0 => ~Head(phases).read)
  BY BusAssumption DEF SlotInv, BitOps, CallInv, TypeInv, MasterTypes
<1>2. /\ Bits \in Nat \ {0} /\ AddressBytes \in {1, 2} /\ addr \in 0 .. AddressBytes
      /\ bit \in 0 .. Bits - 1
  BY BusAssumption DEF TypeInv, MasterTypes
<1>3. (slot + 1) % (Bits + 1) = bit + 1
  BY <1>1, <1>2, NextSlot DEF TypeInv, SlaveTypes
<1>4. ~(got = AddressBytes /\ rw)
  BY <1>1, <1>2
<1>5. slot' = bit + 1 /\ rw' = rw
  BY <1>3 DEF SeesFall
<1>6. CASE bit + 1 = Bits
  BY <1>1, <1>2, <1>3, <1>5, <1>6 DEF SeesFall
<1>7. CASE bit + 1 # Bits
  BY <1>1, <1>3, <1>4, <1>5, <1>7 DEF SeesFall
<1> QED BY <1>6, <1>7

LEMMA InFalls ==
  ASSUME TypeInv, SlotInv, op = "in", mode # "off", SeesFall
  PROVE  /\ slot' = bit + 1 /\ rw' = rw
         /\ mode' = "listen" => mode = "listen" /\ got' = got
<1>1. /\ slot = bit /\ (mode = "listen" => got = AddressBytes)
  BY BusAssumption DEF SlotInv, BitOps, TypeInv, MasterTypes, LoopInv
<1>2. Bits \in Nat \ {0} /\ AddressBytes \in {1, 2} /\ bit \in 0 .. Bits - 1
  BY BusAssumption DEF TypeInv, MasterTypes
<1>3. (slot + 1) % (Bits + 1) = bit + 1
  BY <1>1, <1>2, NextSlot DEF TypeInv, SlaveTypes
<1>4. slot' = bit + 1 /\ rw' = rw
  BY <1>3 DEF SeesFall
<1>5. mode' = "listen" => mode = "listen" /\ got' = got
  BY <1>1, <1>2 DEF SeesFall
<1> QED BY <1>4, <1>5

LEMMA AckFalls ==
  ASSUME TypeInv, SlotInv, op \in {"ack", "last"}, mode # "off", SeesFall
  PROVE  /\ slot' = 0 /\ rw' = rw /\ got' = got /\ mode' # "off"
         /\ mode' = "listen" => mode = "listen" /\ ~pull' /\ ~(got = AddressBytes /\ rw)
         /\ mode' = "talk" => mode = "talk" \/ (got = AddressBytes /\ rw)
<1>1. slot = Bits /\ Bits \in Nat \ {0}
  BY BusAssumption DEF SlotInv, BitOps
<1>2. (slot + 1) % (Bits + 1) = 0 /\ 0 # Bits
  BY <1>1, NextSlot DEF TypeInv, SlaveTypes
<1>3. slot' = 0 /\ rw' = rw
  BY <1>2 DEF SeesFall
<1>4. mode \in {"listen", "talk"}
  BY DEF TypeInv, SlaveTypes
<1>5. got' = got /\ mode' # "off"
  BY <1>2, <1>4 DEF SeesFall
<1>6. mode' = "listen" => mode = "listen" /\ ~pull' /\ ~(got = AddressBytes /\ rw)
  BY <1>2 DEF SeesFall
<1>7. mode' = "talk" => mode = "talk" \/ (got = AddressBytes /\ rw)
  BY <1>2 DEF SeesFall
<1> QED BY <1>3, <1>5, <1>6, <1>7

(* Where the master goes after a byte: to the next one of the address, the *)
(* next one of the phase, or past the phase.                               *)
LEMMA AfterByte ==
  ASSUME TypeInv, CallInv, op \in {"ack", "last"}, ByteDone
  PROVE  LET remains == IF addr > 0 THEN left ELSE left - 1 IN
         /\ ok' = ok /\ bit' = 0 /\ stage' = "set"
         /\ IF addr > 1
            THEN op' = "out" /\ addr' = addr - 1 /\ UNCHANGED <<left, phases>>
            ELSE IF remains > 0
            THEN /\ op' = (IF Head(phases).read THEN "in" ELSE "out")
                 /\ addr' = 0 /\ UNCHANGED phases
            ELSE /\ remains = 0 /\ op' \in {"address", "stop"} /\ s' = TRUE
                 /\ \A k \in 1 .. Len(phases') : phases'[k].read => phases'[k].n > 0
<1> DEFINE remains == IF addr > 0 THEN left ELSE left - 1
<1>1. /\ addr \in 0 .. AddressBytes /\ AddressBytes \in Nat /\ left \in Nat /\ (addr > 0 \/ left > 0)
      /\ phases \in Seq(Phase) /\ phases # <<>>
  BY BusAssumption DEF TypeInv, MasterTypes, LoopInv, BitOps
<1>2. remains \in Nat
  BY <1>1
<1>3. ok' = ok /\ bit' = 0 /\ stage' = "set"
  BY DEF ByteDone, Goto
<1>4. CASE addr > 1
  BY <1>1, <1>3, <1>4 DEF ByteDone, Goto
<1>5. CASE ~(addr > 1) /\ remains > 0
  BY <1>1, <1>2, <1>3, <1>5 DEF ByteDone, Goto
<1>6. CASE ~(addr > 1) /\ ~(remains > 0)
  <2>1. remains = 0 /\ op' \in {"address", "stop"}
    BY <1>1, <1>2, <1>6 DEF ByteDone, Goto
  <2>2. s' = TRUE
    BY <1>6 DEF ByteDone
  <2>3. phases' \in {phases, Tail(phases)}
    BY DEF ByteDone
  <2>4. Len(Tail(phases)) = Len(phases) - 1 /\ \A k \in 1 .. Len(Tail(phases)) : Tail(phases)[k] = phases[k + 1]
    BY <1>1, HeadTailProperties
  <2>5. \A k \in 1 .. Len(Tail(phases)) : k + 1 \in 1 .. Len(phases)
    BY <1>1, <2>4, LenProperties
  <2>6. \A k \in 1 .. Len(Tail(phases)) : Tail(phases)[k].read => Tail(phases)[k].n > 0
    BY <2>4, <2>5 DEF CallInv
  <2> QED BY <1>3, <1>6, <2>1, <2>2, <2>3, <2>6 DEF CallInv
<1> QED BY <1>4, <1>5, <1>6

(* The last step of a bit, which ends a byte, an address or a phase.       *)
LEMMA DropInStep ==
  ASSUME TypeInv, SlaveInv, InStep, DropSCL, ~hung
  PROVE  InStep'
<1> USE DEF InStep
<1>1. op \in BitOps /\ stage = "drop" /\ PutBits(FALSE, sda)
  BY DEF DropSCL
<1>2. scl /\ ~hold
  BY <1>1 DEF LineInv
<1>3. scl' = FALSE /\ IF mode = "off" THEN UNCHANGED <<hold, slave>> ELSE SeesFall
  BY <1>1, <1>2, PutFall
<1>4. mode = "off" => mode' = "off" /\ ~pull'
  BY <1>3 DEF slave, SlaveInv
<1>5. /\ AddressBytes \in {1, 2} /\ Bits \in Nat \ {0} /\ addr \in 0 .. AddressBytes
      /\ left \in Nat /\ bit \in 0 .. Bits - 1 /\ (op \in {"in", "last"} => addr = 0)
      /\ Len(phases) \in Nat \ {0}
  <2>1. phases \in Seq(Phase) /\ phases # <<>>
    BY <1>1 DEF TypeInv, MasterTypes, LoopInv, BitOps
  <2>2. Len(phases) \in Nat \ {0}
    BY <2>1, EmptySeq
  <2> QED BY <2>2, BusAssumption DEF TypeInv, MasterTypes, LoopInv
<1>6. CASE ~ok
  <2>1. op' = "stop" /\ stage' = "set" /\ UNCHANGED phases
    BY <1>6 DEF DropSCL, ByteFails, Goto
  <2>2. op = "ack"
    BY <1>1, <1>6 DEF CallInv
  <2>3. ~pull'
    BY <1>1, <1>4, <1>6, <2>2 DEF SlotInv
  <2> QED BY <1>3, <2>1, <2>3 DEF CallInv, LineInv, SlotInv, ValueInv, BitOps
<1>7. CASE ok /\ op \in {"out", "in"}
  <2>1. /\ bit' = (IF bit + 1 < Bits THEN bit + 1 ELSE 0) /\ stage' = "set"
        /\ op' = (IF bit + 1 < Bits THEN op ELSE IF op = "out" THEN "ack" ELSE "last")
        /\ UNCHANGED <<phases, left, addr, ok>>
    BY <1>7 DEF DropSCL, Goto
  <2>2. CallInv'
    BY <1>7, <2>1 DEF CallInv, BitOps
  <2>3. LineInv' /\ ValueInv'
    BY <1>3, <1>7, <2>1 DEF LineInv, ValueInv, BitOps
  <2>4. SlotInv'
    <3>1. SUFFICES ASSUME mode # "off"
                   PROVE  SlotInv'
      BY <1>4 DEF SlotInv
    <3>2. CASE op = "out"
      <4>1. mode = "listen" /\ got = AddressBytes - addr /\ (rw => Head(phases).read)
        BY <1>1, <1>5, <3>1, <3>2 DEF SlotInv
      <4>2. CASE bit + 1 = Bits
        BY <1>3, <1>5, <1>7, <2>1, <3>1, <3>2, <4>1, <4>2, OutFalls DEF SlotInv, BitOps
      <4>3. CASE bit + 1 # Bits
        BY <1>3, <1>5, <1>7, <2>1, <3>1, <3>2, <4>1, <4>3, OutFalls DEF SlotInv, BitOps
      <4> QED BY <4>2, <4>3
    <3>3. CASE op = "in"
      <4>1. mode = "listen" => got = AddressBytes /\ ~rw
        BY <1>1, <1>5, <3>1, <3>3 DEF SlotInv
      <4>2. slot' = bit + 1 /\ rw' = rw /\ (mode' = "listen" => mode = "listen" /\ got' = got)
        BY <1>3, <3>1, <3>3, InFalls
      <4> QED BY <1>3, <1>5, <1>7, <2>1, <3>3, <4>1, <4>2 DEF SlotInv, BitOps
    <3> QED BY <1>7, <3>2, <3>3
  <2> QED BY <2>2, <2>3, <2>4
<1>8. CASE ok /\ op \in {"ack", "last"}
  <2> DEFINE remains == IF addr > 0 THEN left ELSE left - 1
  <2>1. ByteDone
    BY <1>8 DEF DropSCL
  <2>2. /\ ok' = ok /\ bit' = 0 /\ stage' = "set"
        /\ IF addr > 1
           THEN op' = "out" /\ addr' = addr - 1 /\ UNCHANGED <<left, phases>>
           ELSE IF remains > 0
           THEN /\ op' = (IF Head(phases).read THEN "in" ELSE "out")
                /\ addr' = 0 /\ UNCHANGED phases
           ELSE /\ remains = 0 /\ op' \in {"address", "stop"} /\ s' = TRUE
                /\ \A k \in 1 .. Len(phases') : phases'[k].read => phases'[k].n > 0
    BY <1>8, <2>1, AfterByte
  <2>3. op = "ack" => IF addr > 0 THEN left = Head(phases).n ELSE ~Head(phases).read
    BY DEF CallInv
  <2>4. op = "last" => addr = 0 /\ Head(phases).read
    BY DEF CallInv
  <2>5. Head(phases).read => Head(phases).n > 0
    BY <1>5 DEF CallInv
  <2>6. mode # "off" =>
          /\ op = "ack" => mode = "listen"
          /\ op = "last" /\ left = 1 => mode # "talk"
          /\ mode = "listen" =>
               /\ got = AddressBytes - addr + (IF addr > 0 THEN 1 ELSE 0)
               /\ rw => Head(phases).read
               /\ op = "last" => ~rw
    BY <1>1, <1>2, <1>5, <1>8 DEF SlotInv
  <2>7. mode # "off" =>
          /\ slot' = 0 /\ rw' = rw /\ got' = got /\ mode' # "off"
          /\ mode' = "listen" => mode = "listen" /\ ~pull' /\ ~(got = AddressBytes /\ rw)
          /\ mode' = "talk" => mode = "talk" \/ (got = AddressBytes /\ rw)
    BY <1>3, <1>8, AckFalls
  <2>8. mode \in {"off", "listen", "talk"} /\ mode' \in {"off", "listen", "talk"}
    <3>1. SlaveTypes
      BY DEF TypeInv
    <3>2. SeesFall => SlaveTypes'
      BY <3>1, FallTypes
    <3> QED BY <1>3, <1>4, <3>1, <3>2 DEF SlaveTypes
  <2>9. ValueInv'
    BY <2>2 DEF ValueInv
  <2> HIDE DEF remains
  <2>10. CASE addr > 1
    <3>1. op = "ack"
      BY <1>8, <2>4, <2>10, <1>5
    <3>2. CallInv'
      BY <1>5, <1>8, <2>2, <2>3, <2>10, <3>1 DEF CallInv, BitOps
    <3>3. LineInv'
      BY <1>3, <2>2, <2>10 DEF LineInv, BitOps
    <3>4. mode # "off" => mode' = "listen"
      BY <1>5, <2>6, <2>7, <2>8, <2>10, <3>1
    <3>5. SlotInv'
      BY <1>4, <1>5, <2>2, <2>6, <2>7, <2>10, <3>1, <3>4 DEF SlotInv, BitOps
    <3> QED BY <2>9, <3>2, <3>3, <3>5
  <2>11. CASE ~(addr > 1) /\ remains > 0
    <3>1. CallInv'
      BY <1>8, <2>2, <2>11 DEF CallInv, BitOps
    <3>2. LineInv'
      BY <1>3, <2>2, <2>11 DEF LineInv, BitOps
    <3>3. mode = "listen" => got = AddressBytes
      BY <1>5, <2>6, <2>11
    <3>4. SlotInv'
      <4>1. SUFFICES ASSUME mode # "off"
                     PROVE  SlotInv'
        BY <1>4 DEF SlotInv
      <4>2. CASE Head(phases).read
        <5>1. op' = "in" /\ addr' = 0 /\ bit' = 0 /\ phases' = phases
          BY <2>2, <2>11, <4>2
        <5>2. mode' = "listen" => got' = AddressBytes /\ ~rw'
          BY <2>7, <3>3, <4>1
        <5> QED BY <1>5, <2>7, <4>1, <5>1, <5>2 DEF SlotInv, BitOps
      <4>3. CASE ~Head(phases).read
        <5>1. op' = "out" /\ addr' = 0 /\ bit' = 0 /\ phases' = phases
          BY <2>2, <2>11, <4>3
        <5>2. op = "ack" /\ mode = "listen" /\ ~rw
          BY <1>8, <2>4, <2>6, <4>1, <4>3
        <5>3. mode' = "listen" /\ got' = AddressBytes /\ ~rw'
          BY <2>7, <2>8, <3>3, <4>1, <5>2
        <5> QED BY <1>5, <2>7, <4>1, <5>1, <5>3 DEF SlotInv, BitOps
      <4> QED BY <4>2, <4>3
    <3> QED BY <2>9, <3>1, <3>2, <3>4
  <2>12. CASE ~(addr > 1) /\ ~(remains > 0)
    <3>1. /\ remains = 0 /\ op' \in {"address", "stop"} /\ s' = TRUE
          /\ \A k \in 1 .. Len(phases') : phases'[k].read => phases'[k].n > 0
      BY <2>2, <2>12
    <3>2. op = "last" => left = 1
      BY <1>5, <2>4, <3>1 DEF remains
    <3>3. op = "ack" => ~Head(phases).read
      BY <1>5, <2>3, <2>5, <3>1 DEF remains
    <3>4. mode # "off" => mode' = "listen"
      BY <1>8, <2>6, <2>7, <2>8, <3>2, <3>3
    <3>5. ~pull'
      BY <1>4, <2>7, <3>4
    <3>6. CallInv'
      BY <2>2, <3>1 DEF CallInv, BitOps
    <3>7. LineInv'
      BY <1>3, <2>2, <3>1, <3>5 DEF LineInv, BitOps
    <3>8. SlotInv'
      BY <3>1 DEF SlotInv, BitOps
    <3> QED BY <2>9, <3>6, <3>7, <3>8
  <2> QED BY <2>10, <2>11, <2>12
<1> QED BY <1>1, <1>6, <1>7, <1>8 DEF BitOps

(* A call that finds the bus idle begins in step.                          *)
LEMMA CallInStep ==
  ASSUME ReadsHaveBytes, TypeInv, Call, clean'
  PROVE  InStep'
<1>1. PICK ph \in Calls : phases' = ph /\ op' \in {"idle", "address"} /\ stage' = "set"
  BY DEF Call, Goto
<1>2. s' = FALSE /\ UNCHANGED <<lines, hold, pull, busy>> /\ ~busy /\ SCL /\ SDA
  BY DEF Call
<1>3. CallInv'
  BY <1>1 DEF CallInv, BitOps, ReadsHaveBytes
<1>4. LineInv'
  BY <1>1, <1>2 DEF LineInv, BitOps, lines, SCL, SDA
<1>5. SlotInv' /\ ValueInv'
  BY <1>1 DEF SlotInv, ValueInv, BitOps
<1> QED BY <1>3, <1>4, <1>5 DEF InStep

LEMMA SyncStep ==
  ASSUME ReadsHaveBytes, TypeInv, SlaveInv, SyncInv, [Next]_vars
  PROVE  SyncInv'
<1> SUFFICES ASSUME clean', ~hung'
             PROVE  InStep'
  BY DEF SyncInv
<1>1. CASE Call
  BY <1>1, CallInStep
<1>2. CASE ~Call
  <2>1. clean /\ ~hung
    <3>1. CASE PollSCL
      <4>1. clean' = clean /\ (hung' = hung \/ hung' = TRUE)
        BY <3>1 DEF PollSCL
      <4> QED BY <4>1
    <3>2. CASE Stop
      <4>1. clean' = clean
        BY <3>2 DEF Stop
      <4>2. hung' = (hung \/ hold) => ~hung
        OBVIOUS
      <4>3. hung' = hung => ~hung
        OBVIOUS
      <4>4. hung' = hung \/ hung' = (hung \/ hold)
        BY <3>2, Zenon DEF Stop
      <4> QED BY <4>1, <4>2, <4>3, <4>4
    <3>3. CASE Release \/ Sample \/ Address \/ UNCHANGED vars
      <4>1. clean' = clean /\ hung' = hung
        BY <3>3 DEF Release, Sample, Address, vars, ghosts
      <4> QED BY <4>1
    <3>4. CASE StartSDA \/ StartSCL \/ SetBit \/ RaiseSCL \/ DropSCL
      <4>1. clean' = clean /\ hung' = hung
        BY <3>4 DEF StartSDA, StartSCL, SetBit, RaiseSCL, DropSCL, ghosts
      <4> QED BY <4>1
    <3> QED BY <1>2, <3>1, <3>2, <3>3, <3>4 DEF Next, Master
  <2>2. InStep
    BY <2>1 DEF SyncInv
  <2>3. CASE UNCHANGED vars
    BY <2>2, <2>3 DEF vars, lines, slave, locals, ghosts, InStep, CallInv, LineInv, SlotInv, ValueInv,
                      BitOps
  <2> QED BY <1>2, <2>1, <2>2, <2>3, StartInStep, PollInStep, SetInStep, RaiseInStep, SampleInStep,
             DropInStep, StopInStep, ReleaseInStep DEF Next, Master
<1> QED BY <1>1, <1>2

LEMMA InSyncInit == Init => SlaveInv /\ SyncInv
<1> SUFFICES ASSUME Init PROVE SlaveInv /\ SyncInv
  OBVIOUS
<1>1. SlaveInv
  BY DEF Init, SlaveInv
<1>2. CallInv
  BY DEF Init, CallInv, BitOps
<1>3. LineInv /\ SlotInv /\ ValueInv
  BY DEF Init, LineInv, SlotInv, ValueInv, BitOps
<1> QED BY <1>1, <1>2, <1>3 DEF SyncInv, InStep

(* A call that finds the bus idle leaves it idle, for any bytes, any slave *)
(* that acknowledges or drops out of any byte, and any stretching that the *)
(* timeouts allow: the Stop is seen.                                       *)
THEOREM BusIsIdleAfterCall ==
  ASSUME ReadsHaveBytes
  PROVE  Spec => []IdleAfterCall
<1> DEFINE BusInv == TypeInv /\ SlaveInv /\ SyncInv
<1>1. Init => BusInv
  BY TypeInit, InSyncInit
<1>2. BusInv /\ [Next]_vars => BusInv'
  BY TypeStep, SlaveStep, SyncStep
<1>3. BusInv => IdleAfterCall
  BY DEF SyncInv, InStep, LineInv, IdleAfterCall, Returned, SCL, SDA
<1> QED BY <1>1, <1>2, <1>3, PTL DEF Spec

-----------------------------------------------------------------------------
(* Counting the bytes of a call                                            *)

(* A non-empty set of naturals has a least element: the intervals below    *)
(* its elements are finite, and strict inclusion of those is well founded. *)
LEMMA LeastOfSet ==
  ASSUME NEW S, S \subseteq Nat, S # {}
  PROVE  \E m \in S : \A k \in S : m <= k
<1> DEFINE R == StrictSubsetOrdering(Nat)
           T == {0 .. m : m \in S}
<1>1. T \subseteq FiniteSubsetsOf(Nat)
  <2>1. \A m \in S : IsFiniteSet(0 .. m) /\ 0 .. m \in SUBSET Nat
    BY FS_Interval
  <2> QED BY <2>1 DEF FiniteSubsetsOf
<1>2. IsWellFoundedOn(R, FiniteSubsetsOf(Nat))
  BY FS_StrictSubsetOrderingWellFounded
<1>3. T # {}
  OBVIOUS
<1>4. PICK t \in T : \A u \in T : ~ (<<u, t>> \in R)
  <2> HIDE DEF R, T
  <2> QED BY <1>1, <1>2, <1>3, WFMin
<1>5. PICK m \in S : t = 0 .. m
  BY DEF T
<1>6. ASSUME NEW k \in S, k < m PROVE FALSE
  <2>1. 0 .. k \in SUBSET Nat /\ t \in SUBSET Nat /\ 0 .. k \subseteq t
    BY <1>5, <1>6
  <2>2. m \in t /\ m \notin 0 .. k
    BY <1>5, <1>6
  <2>3. <<0 .. k, t>> \in R
    BY <2>1, <2>2 DEF StrictSubsetOrdering
  <2> QED BY <1>4, <2>3
<1> QED BY <1>6

(* Sums is a function as its recursion says, with natural values: were one *)
(* of its prefixes not, the least of these would extend the one before.    *)
LEMMA SumsAdd ==
  ASSUME NEW seq \in Seq(Phase), NEW read \in BOOLEAN
  PROVE  /\ Sums(seq, read)[0] = 0
         /\ \A i \in 1 .. Len(seq) : Sums(seq, read)[i] = Sums(seq, read)[i - 1] +
              (IF seq[i].read = read THEN seq[i].n ELSE 0)
         /\ \A i \in 0 .. Len(seq) : Sums(seq, read)[i] \in Nat
<1> DEFINE L == Len(seq)
           X(i) == IF seq[i].read = read THEN seq[i].n ELSE 0
           Adds(g, m) == g = [i \in 0 .. m |-> IF i = 0 THEN 0 ELSE g[i - 1] + X(i)]
           Good(m) == \E g \in [0 .. m -> Nat] : Adds(g, m)
           Bad == {m \in 0 .. L : ~Good(m)}
<1>1. L \in Nat /\ \A i \in 1 .. L : X(i) \in Nat
  <2>1. L \in Nat /\ \A i \in 1 .. L : seq[i] \in Phase
    BY LenProperties, ElementOfSeq
  <2> QED BY <2>1 DEF Phase
<1> HIDE DEF X
<1>2. Good(0)
  <2>1. [i \in 0 .. 0 |-> 0] \in [0 .. 0 -> Nat] /\ Adds([i \in 0 .. 0 |-> 0], 0)
    OBVIOUS
  <2> QED BY <2>1
<1>3. ASSUME NEW m \in 1 .. L, Good(m - 1)
      PROVE  Good(m)
  <2>1. PICK g \in [0 .. m - 1 -> Nat] : Adds(g, m - 1)
    BY <1>3
  <2> DEFINE h == [i \in 0 .. m |-> IF i = m THEN g[m - 1] + X(m) ELSE g[i]]
  <2>2. m \in Nat /\ m - 1 \in 0 .. m - 1 /\ X(m) \in Nat /\ m # 0
    BY <1>1
  <2>3. g[m - 1] \in Nat
    BY <2>2
  <2>4. h \in [0 .. m -> Nat]
    BY <2>2, <2>3
  <2>5. \A i \in 0 .. m : h[i] = IF i = 0 THEN 0 ELSE h[i - 1] + X(i)
    <3> SUFFICES ASSUME NEW i \in 0 .. m
                 PROVE  h[i] = IF i = 0 THEN 0 ELSE h[i - 1] + X(i)
      OBVIOUS
    <3>1. CASE i = m
      <4>1. i - 1 \in 0 .. m /\ i - 1 # m /\ i # 0
        BY <2>2, <3>1
      <4> QED BY <3>1, <4>1
    <3>2. CASE i # m /\ i # 0
      <4>1. i \in 0 .. m - 1 /\ i - 1 \in 0 .. m /\ i - 1 # m
        BY <2>2, <3>2
      <4>2. g[i] = g[i - 1] + X(i)
        BY <2>1, <3>2, <4>1
      <4> QED BY <3>2, <4>1, <4>2
    <3>3. CASE i # m /\ i = 0
      <4>1. 0 \in 0 .. m - 1
        BY <2>2
      <4>2. g[0] = 0
        BY <2>1, <4>1
      <4> QED BY <3>3, <4>2
    <3> QED BY <3>1, <3>2, <3>3
  <2> HIDE DEF h
  <2>6. Adds(h, m)
    <3>1. h = [i \in 0 .. m |-> h[i]]
      BY <2>4
    <3> QED BY <2>5, <3>1
  <2> QED BY <2>4, <2>6
<1>4. Good(L)
  <2> SUFFICES ASSUME ~Good(L) PROVE FALSE
    OBVIOUS
  <2>1. L \in Bad /\ Bad \subseteq Nat
    BY <1>1
  <2>2. PICK m \in Bad : \A k \in Bad : m <= k
    <3> HIDE DEF Bad
    <3> QED BY <2>1, LeastOfSet
  <2> HIDE DEF Good
  <2>3. m # 0 /\ m \in 0 .. L
    BY <1>2, <2>2
  <2>4. m - 1 \in 0 .. L /\ m \in 1 .. L /\ ~(m <= m - 1)
    BY <1>1, <2>3
  <2>5. Good(m - 1)
    BY <2>2, <2>4
  <2>6. ~Good(m)
    BY <2>2
  <2> QED BY <1>3, <2>4, <2>5, <2>6
<1>5. PICK g \in [0 .. L -> Nat] : Adds(g, L)
  BY <1>4
<1>6. Adds(Sums(seq, read), L)
  BY <1>5 DEF Sums, X
<1> DEFINE f == Sums(seq, read)
<1>7. f[0] = 0 /\ \A i \in 1 .. L : f[i] = f[i - 1] + X(i)
  <2>1. \A i \in 0 .. L : f[i] = IF i = 0 THEN 0 ELSE f[i - 1] + X(i)
    <3> HIDE DEF f
    <3> QED BY <1>6 DEF f
  <2> HIDE DEF f
  <2> QED BY <1>1, <2>1
<1> HIDE DEF f
<1>8. \A i \in 0 .. L : f[i] \in Nat
  <2> DEFINE Off == {i \in 0 .. L : f[i] \notin Nat}
  <2> SUFFICES ASSUME Off # {} PROVE FALSE
    OBVIOUS
  <2>1. Off \subseteq Nat
    BY <1>1
  <2>2. PICK m \in Off : \A k \in Off : m <= k
    <3> HIDE DEF Off
    <3> QED BY <2>1, LeastOfSet
  <2>3. m \in 1 .. L
    BY <1>1, <1>7, <2>2
  <2>4. m - 1 \in 0 .. L /\ ~(m <= m - 1)
    BY <1>1, <2>3
  <2>5. f[m - 1] \in Nat
    BY <2>2, <2>4
  <2>6. f[m] \in Nat
    BY <1>1, <1>7, <2>3, <2>5
  <2> QED BY <2>2, <2>6
<1> QED BY <1>7, <1>8 DEF f, X

(* The phases a call has behind it, and the bytes these moved.             *)
Done      == Len(call) - Len(phases)
Written   == Sums(call, FALSE)[Done]
ReadBytes == Sums(call, TRUE)[Done]

(* The slave answers what is meant for it: it listens while bytes go out,  *)
(* until it refuses one, and talks while they come in, because it has read *)
(* the R/W bit as it was sent; only the NACK of the last byte silences it. *)
HearInv ==
  /\ op \in {"address", "start"} => mode # "talk"
  /\ op = "out" => mode = "listen"
  /\ op = "ack" =>
       /\ mode # "talk"
       /\ stage \in {"raise", "poll", "sample"} => sda
       /\ stage = "drop" /\ ok => mode = "listen"
  /\ op = "in" => mode = "talk"
  /\ op = "last" =>
       /\ mode = "talk" \/ (mode = "off" /\ left = 1 /\ scl /\ ~hold)
       /\ left > 1 /\ stage \in {"raise", "poll"} => ~sda
  /\ op = "out" /\ addr = AddressBytes /\ bit = Bits - 1 /\ stage \in {"raise", "poll"} =>
       (Head(phases).read => sda)
  /\ op \in {"out", "ack"} /\ mode = "listen" /\ Head(phases).read =>
       rw \/ (op = "out" /\ addr = AddressBytes /\ (bit # Bits - 1 \/ ~scl \/ hold))

(* The slave's counts are those of the phases done and of the bytes of     *)
(* this one: a byte written counts at its ACK, one read at its own ACK.      *)
CountInv ==
  /\ \A k \in 1 .. Len(phases) : Done + k \in 1 .. Len(call) /\ phases[k] = call[Done + k]
  /\ IF op \in BitOps /\ addr = 0
     THEN /\ left <= Head(phases).n
          /\ IF Head(phases).read
             THEN /\ taken = Written
                  /\ given = ReadBytes + (Head(phases).n - left)
                             + (IF op = "last" /\ scl /\ ~hold THEN 1 ELSE 0)
             ELSE /\ given = ReadBytes
                  /\ taken = Written + (Head(phases).n - left)
                             + (IF op = "ack" /\ mode = "listen" THEN 1 ELSE 0)
     ELSE taken = Written /\ given = ReadBytes

Moved == taken = Total(call, FALSE) /\ given = Total(call, TRUE)

(* A call that goes to its Stop with TRUE has moved everything, and the    *)
(* slave has nothing more to give, even if it holds SCL through the Stop.  *)
(* One that runs into a timeout goes there with FALSE.                     *)
MovedInv ==
  /\ call \in Seq(Phase)
  /\ clean => IF op \in {"stop", "idle"}
              THEN r => Moved /\ mode # "talk" /\ (op = "stop" => ~hung /\ addr = 0)
              ELSE IF hung THEN op \in BitOps /\ stage = "drop" /\ ~ok
              ELSE HearInv /\ CountInv

(* A phase under way is the next one of the call.                          *)
LEMMA PhaseIsNext ==
  ASSUME TypeInv, call \in Seq(Phase), CountInv, op # "idle"
  PROVE  /\ Len(phases) \in Nat \ {0} /\ Len(call) \in Nat /\ Done \in 0 .. Len(call) - 1
         /\ Head(phases) = call[Done + 1] /\ Head(phases) \in Phase
         /\ Written \in Nat /\ ReadBytes \in Nat
<1>1. phases \in Seq(Phase) /\ phases # <<>>
  BY DEF TypeInv, MasterTypes, LoopInv
<1>2. Len(phases) \in Nat \ {0} /\ Len(call) \in Nat
  BY <1>1, EmptySeq
<1>3. Head(phases) = phases[1] /\ Head(phases) \in Phase
  BY <1>1, HeadTailProperties
<1>4. Done + 1 \in 1 .. Len(call) /\ phases[1] = call[Done + 1]
  BY <1>2 DEF CountInv
<1>5. Done \in 0 .. Len(call) - 1
  BY <1>2, <1>4 DEF Done
<1>6. Written \in Nat /\ ReadBytes \in Nat
  <2>1. Done \in 0 .. Len(call)
    BY <1>2, <1>5
  <2> QED BY <2>1, SumsAdd DEF Written, ReadBytes
<1> QED BY <1>2, <1>3, <1>4, <1>5, <1>6

(* The bytes of the phases up to the current one, with it.                 *)
LEMMA PhaseAdds ==
  ASSUME TypeInv, call \in Seq(Phase), CountInv, op # "idle"
  PROVE  /\ Sums(call, FALSE)[Done + 1] = Written + (IF Head(phases).read THEN 0 ELSE Head(phases).n)
         /\ Sums(call, TRUE)[Done + 1] = ReadBytes + (IF Head(phases).read THEN Head(phases).n ELSE 0)
<1>1. /\ Done \in 0 .. Len(call) - 1 /\ Len(call) \in Nat
      /\ Head(phases) = call[Done + 1] /\ Head(phases).read \in BOOLEAN
  BY PhaseIsNext DEF Phase
<1>2. Done + 1 \in 1 .. Len(call) /\ (Done + 1) - 1 = Done
  BY <1>1
<1>3. \A b \in BOOLEAN : Sums(call, b)[Done + 1] = Sums(call, b)[Done]
                           + (IF call[Done + 1].read = b THEN call[Done + 1].n ELSE 0)
  BY <1>2, SumsAdd
<1>4. CASE Head(phases).read = TRUE
  BY <1>1, <1>3, <1>4 DEF Written, ReadBytes
<1>5. CASE Head(phases).read = FALSE
  BY <1>1, <1>3, <1>5 DEF Written, ReadBytes
<1> QED BY <1>1, <1>4, <1>5

(* A step that moves no byte keeps the counts.                             *)
LEMMA CountStays ==
  ASSUME CountInv, UNCHANGED <<call, phases, left, addr, op, taken, given, mode>>,
         op = "last" => ((scl' /\ ~hold') <=> (scl /\ ~hold))
  PROVE  CountInv'
BY DEF CountInv, Done, Written, ReadBytes, BitOps

(* The rise of SCL, by the master or when the slave lets go of it.         *)
LEMMA RiseMoves ==
  ASSUME TypeInv, SlaveInv, InStep, HearInv, CountInv, call \in Seq(Phase),
         op \in BitOps, stage \in {"raise", "poll"}, ~scl \/ hold, SeesRise(sda /\ ~pull),
         scl', ~hold', stage' = "poll",
         UNCHANGED <<op, phases, left, addr, bit, ok, call, sda>>
  PROVE  HearInv' /\ CountInv'
<1>1. /\ UNCHANGED <<pull, slot, got, taken>>
      /\ rw' = (IF mode = "listen" /\ got = 0 /\ slot = Bits - 1 THEN sda /\ ~pull ELSE rw)
      /\ IF mode = "talk" /\ slot = Bits
         THEN given' = given + 1 /\ mode' = (IF sda /\ ~pull THEN "off" ELSE "talk")
         ELSE UNCHANGED <<given, mode>>
  BY DEF SeesRise
<1>2. Bits \in Nat \ {0} /\ AddressBytes \in {1, 2} /\ addr \in 0 .. AddressBytes
      /\ bit \in 0 .. Bits - 1 /\ left \in Nat
  BY BusAssumption DEF TypeInv, MasterTypes
<1>3. CASE op = "out"
  <2>1. mode = "listen" /\ slot = bit /\ got = AddressBytes - addr /\ ~pull
    BY <1>2, <1>3 DEF HearInv, InStep, SlotInv, SlaveInv, BitOps
  <2>2. UNCHANGED <<given, mode>>
    BY <1>1, <2>1
  <2>3. Head(phases).read => rw' \/ (addr = AddressBytes /\ bit # Bits - 1)
    <3> SUFFICES ASSUME Head(phases).read, ~(addr = AddressBytes /\ bit # Bits - 1)
                 PROVE  rw'
      OBVIOUS
    <3>1. CASE addr = AddressBytes
      <4>1. got = 0 /\ slot = Bits - 1 /\ sda
        BY <1>2, <1>3, <2>1, <3>1 DEF HearInv
      <4> QED BY <1>1, <2>1, <4>1
    <3>2. CASE addr # AddressBytes
      <4>1. got # 0 /\ rw
        BY <1>2, <1>3, <2>1, <3>2 DEF HearInv
      <4> QED BY <1>1, <4>1
    <3> QED BY <3>1, <3>2
  <2>4. HearInv'
    BY <1>3, <2>1, <2>2, <2>3 DEF HearInv
  <2>5. CountInv'
    BY <1>1, <1>3, <2>2, CountStays
  <2> QED BY <2>4, <2>5
<1>4. CASE op = "ack"
  <2>1. UNCHANGED <<given, mode>> /\ sda
    BY <1>1, <1>4 DEF HearInv
  <2>2. mode = "listen" => rw' = rw
    BY <1>1, <1>2, <1>4 DEF InStep, SlotInv, BitOps
  <2>3. HearInv'
    BY <1>4, <2>1, <2>2 DEF HearInv
  <2>4. CountInv'
    BY <1>1, <1>4, <2>1, CountStays
  <2> QED BY <2>3, <2>4
<1>5. CASE op = "in"
  <2>1. mode = "talk" /\ slot = bit
    BY <1>5 DEF HearInv, InStep, SlotInv, BitOps
  <2>2. UNCHANGED <<given, mode>>
    BY <1>1, <1>2, <2>1
  <2>3. HearInv'
    BY <1>5, <2>2 DEF HearInv
  <2>4. CountInv'
    BY <1>1, <1>5, <2>2, CountStays
  <2> QED BY <2>3, <2>4
<1>6. CASE op = "last"
  <2>1. mode = "talk" /\ slot = Bits /\ addr = 0 /\ Head(phases).read /\ left > 0
    BY <1>2, <1>6 DEF HearInv, InStep, SlotInv, CallInv, BitOps, TypeInv, LoopInv
  <2>2. given' = given + 1 /\ mode' = (IF sda /\ ~pull THEN "off" ELSE "talk")
    BY <1>1, <2>1
  <2>3. left > 1 => ~sda
    BY <1>6 DEF HearInv
  <2>4. mode' = "talk" \/ (mode' = "off" /\ left = 1)
    BY <1>2, <2>1, <2>2, <2>3
  <2>5. HearInv'
    BY <1>6, <2>3, <2>4 DEF HearInv
  <2>6. taken = Written /\ given = ReadBytes + (Head(phases).n - left) /\ left <= Head(phases).n
    <3>1. op \in BitOps /\ op # "idle" /\ ~(op = "last" /\ scl /\ ~hold)
      BY <1>6 DEF BitOps
    <3>2. Head(phases).n \in Nat /\ ReadBytes \in Nat
      BY <3>1, PhaseIsNext DEF Phase
    <3>3. taken = Written /\ given = ReadBytes + (Head(phases).n - left) + 0 /\ left <= Head(phases).n
      BY <2>1, <3>1 DEF CountInv
    <3> QED BY <1>2, <3>2, <3>3
  <2>7. given' = ReadBytes + (Head(phases).n - left) + 1
    BY <1>2, <2>2, <2>6, PhaseIsNext, <1>6 DEF Phase
  <2>8. CountInv'
    BY <1>1, <1>6, <2>1, <2>6, <2>7 DEF CountInv, Done, Written, ReadBytes, BitOps
  <2> QED BY <2>5, <2>8
<1> QED BY <1>3, <1>4, <1>5, <1>6 DEF BitOps

(* SetBit, RaiseSCL, the polls and the samples.                            *)
LEMMA BitMoves ==
  ASSUME TypeInv, SlaveInv, InStep, HearInv, CountInv, call \in Seq(Phase), ~hung',
         SetBit \/ RaiseSCL \/ PollSCL \/ Sample
  PROVE  HearInv' /\ CountInv'
<1>0. sda \in BOOLEAN /\ pull \in BOOLEAN /\ mode \in {"off", "listen", "talk"}
  BY DEF TypeInv, MasterTypes, SlaveTypes
<1>1. CASE SetBit
  <2>1. PICK v \in BitValues : PutBits(FALSE, v)
    BY <1>1 DEF SetBit
  <2>2. op \in BitOps /\ stage = "set" /\ stage' = "raise" /\ UNCHANGED <<op, locals, call>>
    BY <1>1 DEF SetBit, Goto, ghosts
  <2>3. ~scl
    BY <2>2 DEF InStep, LineInv
  <2>4. UNCHANGED <<hold, slave>> /\ scl' = FALSE /\ sda' = v
    BY <2>1, <2>3, PutLow
  <2>5. /\ op = "ack" => sda'
        /\ op = "last" /\ left > 1 => ~sda'
        /\ op = "out" /\ addr = AddressBytes /\ bit = Bits - 1 => (Head(phases).read => sda')
    <3>1. op = "ack" => v = TRUE
      BY <2>1 DEF BitValues
    <3>2. op = "last" /\ left > 1 => v = FALSE
      <4>1. op = "last" => v = (left = 1)
        BY <2>1 DEF BitValues
      <4>2. left > 1 => ~(left = 1)
        BY DEF TypeInv, MasterTypes
      <4> QED BY <4>1, <4>2
    <3>3. op = "out" /\ addr = AddressBytes /\ bit = Bits - 1 => v = Head(phases).read
      BY <2>1 DEF BitValues
    <3> QED BY <2>4, <3>1, <3>2, <3>3
  <2>6. HearInv'
    BY <2>2, <2>3, <2>4, <2>5 DEF HearInv, slave, locals, BitOps
  <2>7. CountInv'
    BY <2>2, <2>3, <2>4, CountStays DEF slave, locals
  <2> QED BY <2>6, <2>7
<1>2. CASE RaiseSCL
  <2>1. op \in BitOps /\ stage = "raise" /\ stage' = "poll" /\ UNCHANGED <<op, locals, call>>
        /\ PutBits(TRUE, sda)
    BY <1>2 DEF RaiseSCL, Goto, ghosts
  <2>2. ~scl
    BY <2>1 DEF InStep, LineInv
  <2>3. /\ scl' = TRUE /\ sda' = sda /\ hold' = hold
        /\ IF hold THEN UNCHANGED slave ELSE SeesRise(sda /\ ~pull)
    BY <1>0, <2>1, <2>2, PutRise
  <2>4. CASE hold
    <3>1. HearInv'
      BY <2>1, <2>2, <2>3, <2>4 DEF HearInv, slave, locals, BitOps
    <3>2. CountInv'
      BY <2>1, <2>2, <2>3, <2>4, CountStays DEF slave, locals
    <3> QED BY <3>1, <3>2
  <2>5. CASE ~hold
    BY <2>1, <2>2, <2>3, <2>5, RiseMoves DEF locals
  <2> QED BY <2>4, <2>5
<1>3. CASE PollSCL
  <2>1. /\ stage = "poll" /\ UNCHANGED <<lines, hold, slave, phases, left, bit, call>>
        /\ UNCHANGED <<op, addr, ok>>
        /\ stage' = "poll" \/ (stage' = "sample" /\ op \in {"ack", "in"})
                           \/ (stage' = "drop" /\ op \notin {"ack", "in"})
    BY <1>3 DEF PollSCL, Goto
  <2>2. HearInv'
    BY <2>1 DEF HearInv, slave, lines
  <2>3. CountInv'
    BY <2>1, CountStays DEF slave, lines
  <2> QED BY <2>2, <2>3
<1>4. CASE Sample
  <2>1. /\ op \in BitOps /\ stage = "sample"
        /\ UNCHANGED <<lines, hold, slave, phases, left, addr, bit, call, op>>
    BY <1>4 DEF Sample, Goto, ghosts
  <2>2. CountInv'
    BY <2>1, CountStays DEF slave, lines
  <2>3. stage' = "sample" \/ (stage' = "drop" /\ (op # "ack" \/ ~ok' \/ ~SDA))
    <3>1. CASE stage' = "drop" /\ (op = "in" \/ ~SDA)
      BY <3>1
    <3>2. CASE ok' = (polls > 1) /\ stage' = (IF polls > 1 THEN "sample" ELSE "drop")
      BY <3>2
    <3> QED BY <1>4, <3>1, <3>2 DEF Sample, Goto
  <2>4. op = "ack" /\ ~SDA => mode = "listen"
    BY <1>0, <2>1 DEF HearInv, SDA, SlaveInv
  <2>5. op # "ack" => HearInv'
    BY <2>1, <2>3 DEF HearInv, slave, lines, BitOps
  <2>6. op = "ack" => HearInv'
    BY <2>1, <2>3, <2>4 DEF HearInv, slave, lines
  <2> QED BY <2>2, <2>5, <2>6
<1> QED BY <1>1, <1>2, <1>3, <1>4

(* The fall of SCL after a bit that goes out, one that comes in, an ACK.   *)
LEMMA OutCounts ==
  ASSUME TypeInv, CallInv, SlotInv, op = "out", mode = "listen", SeesFall
  PROVE  /\ given' = given /\ rw' = rw
         /\ IF bit + 1 = Bits
            THEN \/ mode' = "off" /\ taken' = taken
                 \/ mode' = "listen" /\ taken' = IF addr = 0 THEN taken + 1 ELSE taken
            ELSE mode' = "listen" /\ taken' = taken
<1>1. /\ slot = bit /\ got = AddressBytes - addr /\ (rw => Head(phases).read)
      /\ (addr = 0 => ~Head(phases).read)
  BY BusAssumption DEF SlotInv, BitOps, CallInv, TypeInv, MasterTypes
<1>2. /\ Bits \in Nat \ {0} /\ AddressBytes \in {1, 2} /\ addr \in 0 .. AddressBytes
      /\ bit \in 0 .. Bits - 1
  BY BusAssumption DEF TypeInv, MasterTypes
<1>3. (slot + 1) % (Bits + 1) = bit + 1
  BY <1>1, <1>2, NextSlot DEF TypeInv, SlaveTypes
<1>4. ~(got = AddressBytes /\ rw) /\ (got >= AddressBytes <=> addr = 0)
  BY <1>1, <1>2
<1>5. given' = given /\ rw' = rw
  BY DEF SeesFall
<1>6. CASE bit + 1 = Bits
  BY <1>3, <1>4, <1>5, <1>6 DEF SeesFall
<1>7. CASE bit + 1 # Bits
  BY <1>3, <1>4, <1>5, <1>7 DEF SeesFall
<1> QED BY <1>6, <1>7

LEMMA InCounts ==
  ASSUME mode = "talk", SeesFall
  PROVE  UNCHANGED <<mode, taken, given>>
BY DEF SeesFall

LEMMA AckCounts ==
  ASSUME TypeInv, SlotInv, op \in {"ack", "last"}, mode # "off", SeesFall
  PROVE  /\ UNCHANGED <<taken, given, rw>>
         /\ mode' = IF mode = "talk" \/ (got = AddressBytes /\ rw) THEN "talk" ELSE "listen"
<1>1. /\ rw' = rw /\ mode' # "off"
      /\ mode' = "listen" => mode = "listen" /\ ~pull' /\ ~(got = AddressBytes /\ rw)
      /\ mode' = "talk" => mode = "talk" \/ (got = AddressBytes /\ rw)
  BY AckFalls
<1>2. (slot + 1) % (Bits + 1) = 0 /\ 0 # Bits
  <2>1. slot = Bits /\ Bits \in Nat \ {0}
    BY BusAssumption DEF SlotInv, BitOps
  <2> QED BY <2>1, NextSlot DEF TypeInv, SlaveTypes
<1>3. UNCHANGED <<taken, given>>
  BY <1>2 DEF SeesFall
<1>4. mode' \in {"off", "listen", "talk"}
  <2>1. SlaveTypes'
    BY FallTypes DEF TypeInv
  <2> QED BY <2>1 DEF SlaveTypes
<1> QED BY <1>1, <1>3, <1>4

(* The last byte of a phase: the next phase begins or the call ends.       *)
LEMMA PhaseEnds ==
  ASSUME TypeInv, CountInv, call \in Seq(Phase), op \in {"ack", "last"}, ByteDone, call' = call,
         ~(addr > 1), (IF addr > 0 THEN left ELSE left - 1) = 0, mode' # "talk",
         taken' = Sums(call, FALSE)[Done + 1], given' = Sums(call, TRUE)[Done + 1]
  PROVE  \/ op' = "address" /\ HearInv' /\ CountInv'
         \/ op' = "stop" /\ addr' = 0 /\ Moved'
<1>1. Len(phases) \in Nat \ {0} /\ Len(call) \in Nat /\ Done \in 0 .. Len(call) - 1
  <2>1. op # "idle"
    OBVIOUS
  <2> QED BY <2>1, PhaseIsNext
<1>2. CASE Len(phases) > 1
  <2>1. phases' = Tail(phases) /\ op' = "address" /\ stage' = "set"
    BY <1>2 DEF ByteDone, Goto
  <2>2. phases \in Seq(Phase) /\ phases # <<>>
    BY DEF TypeInv, MasterTypes, LoopInv
  <2>3. Len(phases') = Len(phases) - 1 /\ \A k \in 1 .. Len(phases') : phases'[k] = phases[k + 1]
    BY <2>1, <2>2, HeadTailProperties
  <2>4. Done' = Done + 1
    <3>1. Done' = Len(call) - Len(phases')
      BY DEF Done
    <3> QED BY <1>1, <2>3, <3>1 DEF Done
  <2>5. \A k \in 1 .. Len(phases') : Done' + k \in 1 .. Len(call) /\ phases'[k] = call[Done' + k]
    <3> SUFFICES ASSUME NEW k \in 1 .. Len(phases')
                 PROVE  Done' + k \in 1 .. Len(call) /\ phases'[k] = call[Done' + k]
      OBVIOUS
    <3>1. k + 1 \in 1 .. Len(phases) /\ Done' + k = Done + (k + 1)
      BY <1>1, <2>3, <2>4
    <3> QED BY <2>3, <3>1 DEF CountInv
  <2>6. taken' = Written' /\ given' = ReadBytes'
    BY <2>4 DEF Written, ReadBytes
  <2>7. CountInv'
    BY <2>1, <2>5, <2>6 DEF CountInv, BitOps
  <2>8. HearInv'
    BY <2>1 DEF HearInv
  <2> QED BY <2>1, <2>7, <2>8
<1>3. CASE ~(Len(phases) > 1)
  <2>1. op' = "stop"
    BY <1>3 DEF ByteDone, Goto
  <2>2. addr' = 0
    BY BusAssumption DEF ByteDone, TypeInv, MasterTypes
  <2>3. Done + 1 = Len(call)
    BY <1>1, <1>3 DEF Done
  <2> QED BY <2>1, <2>2, <2>3 DEF Moved, Total
<1> QED BY <1>2, <1>3

(* The end of a bit, of a byte, of a phase and of the call.                *)
LEMMA DropMoves ==
  ASSUME TypeInv, SlaveInv, InStep, HearInv, CountInv, call \in Seq(Phase), ~hung, DropSCL
  PROVE  \/ op' = "stop" /\ (r' => Moved' /\ mode' # "talk" /\ addr' = 0)
         \/ op' \notin {"stop", "idle"} /\ HearInv' /\ CountInv'
<1>1. /\ op \in BitOps /\ stage = "drop" /\ PutBits(FALSE, sda) /\ call' = call
      /\ op # "idle"
  BY DEF DropSCL, ghosts, BitOps
<1>2. scl /\ ~hold
  BY <1>1 DEF InStep, LineInv
<1>3. scl' = FALSE /\ IF mode = "off" THEN UNCHANGED <<hold, slave>> ELSE SeesFall
  BY <1>1, <1>2, PutFall
<1>4. /\ AddressBytes \in {1, 2} /\ Bits \in Nat \ {0} /\ addr \in 0 .. AddressBytes
      /\ left \in Nat /\ bit \in 0 .. Bits - 1 /\ mode \in {"off", "listen", "talk"}
      /\ (op \in {"in", "last"} => addr = 0)
  BY BusAssumption DEF TypeInv, MasterTypes, SlaveTypes, LoopInv
<1>5. /\ Head(phases).n \in Nat /\ Head(phases).read \in BOOLEAN
      /\ Written \in Nat /\ ReadBytes \in Nat
  BY <1>1, PhaseIsNext DEF Phase
<1>6. CASE ~ok
  <2>1. op' = "stop" /\ r' = FALSE
    BY <1>6 DEF DropSCL, ByteFails, Goto
  <2> QED BY <2>1
<1>7. CASE ok /\ op \in {"out", "in"}
  <2>1. /\ bit' = (IF bit + 1 < Bits THEN bit + 1 ELSE 0) /\ stage' = "set"
        /\ op' = (IF bit + 1 < Bits THEN op ELSE IF op = "out" THEN "ack" ELSE "last")
        /\ UNCHANGED <<phases, left, addr, ok>>
    BY <1>7 DEF DropSCL, Goto
  <2>2. UNCHANGED <<Done, Written, ReadBytes>>
    BY <1>1, <2>1 DEF Done, Written, ReadBytes
  <2>3. CASE op = "out"
    <3>1. mode = "listen" /\ SeesFall
      BY <1>3, <2>3 DEF HearInv
    <3>2. /\ given' = given /\ rw' = rw
          /\ IF bit + 1 = Bits
             THEN \/ mode' = "off" /\ taken' = taken
                  \/ mode' = "listen" /\ taken' = IF addr = 0 THEN taken + 1 ELSE taken
             ELSE mode' = "listen" /\ taken' = taken
      BY <2>3, <3>1, OutCounts DEF InStep
    <3>3. addr = 0 => ~Head(phases).read
      BY <2>3 DEF InStep, CallInv
    <3>4. CASE bit + 1 = Bits
      <4>1. op' = "ack" /\ mode' \in {"off", "listen"}
        BY <1>4, <2>1, <2>3, <3>2, <3>4
      <4>2. Head(phases).read => rw
        BY <1>2, <1>4, <2>3, <3>1, <3>4 DEF HearInv
      <4>3. HearInv'
        BY <2>1, <3>2, <4>1, <4>2 DEF HearInv
      <4>4. CountInv'
        <5>1. CASE addr = 0
          <6>1. left <= Head(phases).n /\ given = ReadBytes /\ taken = Written + (Head(phases).n - left) + 0
            BY <1>1, <2>3, <3>3, <5>1 DEF CountInv
          <6>2. taken' = Written + (Head(phases).n - left) + (IF mode' = "listen" THEN 1 ELSE 0)
            BY <1>4, <1>5, <3>2, <3>4, <5>1, <6>1
          <6> QED BY <1>1, <2>1, <2>2, <3>2, <3>3, <4>1, <5>1, <6>1, <6>2 DEF CountInv, BitOps
        <5>2. CASE addr # 0
          <6>1. taken = Written /\ given = ReadBytes
            BY <5>2 DEF CountInv
          <6>2. taken' = taken
            BY <3>2, <5>2
          <6> QED BY <1>1, <2>1, <2>2, <3>2, <5>2, <6>1, <6>2 DEF CountInv
        <5> QED BY <5>1, <5>2
      <4> QED BY <4>1, <4>3, <4>4
    <3>5. CASE bit + 1 # Bits
      <4>1. op' = "out" /\ mode' = "listen" /\ taken' = taken
        BY <1>4, <2>1, <2>3, <3>2, <3>5
      <4>2. HearInv'
        BY <1>3, <2>1, <2>3, <3>1, <3>2, <4>1 DEF HearInv
      <4>3. CountInv'
        BY <1>1, <2>1, <2>3, <3>1, <3>2, <4>1, CountStays
      <4> QED BY <4>1, <4>2, <4>3
    <3> QED BY <3>4, <3>5
  <2>4. CASE op = "in"
    <3>1. mode = "talk" /\ SeesFall
      BY <1>3, <2>4 DEF HearInv
    <3>2. mode' = "talk" /\ UNCHANGED <<taken, given>>
      BY <3>1, InCounts
    <3>3. op' \in {"in", "last"}
      BY <2>1, <2>4
    <3>4. HearInv'
      BY <2>1, <3>2, <3>3 DEF HearInv
    <3>5. addr = 0 /\ Head(phases).read
      BY <1>4, <2>4 DEF InStep, CallInv
    <3>6. left <= Head(phases).n /\ taken = Written /\ given = ReadBytes + (Head(phases).n - left) + 0
      BY <1>1, <2>4, <3>5 DEF CountInv
    <3>7. CountInv'
      <4>1. op' \in BitOps /\ ~(op' = "last" /\ scl' /\ ~hold')
        BY <1>3, <3>3 DEF BitOps
      <4>2. addr' = 0 /\ Head(phases').read /\ left' <= Head(phases').n
        BY <2>1, <3>5, <3>6
      <4>3. taken' = Written' /\ given' = ReadBytes' + (Head(phases').n - left') + 0
        BY <2>1, <2>2, <3>2, <3>6
      <4>4. \A k \in 1 .. Len(phases') : Done' + k \in 1 .. Len(call') /\ phases'[k] = call'[Done' + k]
        BY <1>1, <2>1, <2>2 DEF CountInv
      <4> QED BY <4>1, <4>2, <4>3, <4>4 DEF CountInv
    <3> QED BY <3>3, <3>4, <3>7
  <2> QED BY <1>7, <2>3, <2>4
<1>8. CASE ok /\ op = "ack"
  <2> DEFINE remains == IF addr > 0 THEN left ELSE left - 1
  <2>1. ByteDone
    BY <1>8 DEF DropSCL
  <2>2. mode = "listen" /\ SeesFall
    BY <1>1, <1>3, <1>8 DEF HearInv
  <2>3. /\ UNCHANGED <<taken, given, rw>>
        /\ mode' = IF got = AddressBytes /\ rw THEN "talk" ELSE "listen"
    BY <1>8, <2>2, AckCounts DEF InStep
  <2>4. got = AddressBytes - addr + (IF addr > 0 THEN 1 ELSE 0) /\ (rw <=> Head(phases).read)
    <3>1. got = AddressBytes - addr + (IF addr > 0 THEN 1 ELSE 0) /\ (rw => Head(phases).read)
      BY <1>1, <1>8, <2>2 DEF InStep, SlotInv
    <3>2. Head(phases).read => rw
      BY <1>8, <2>2 DEF HearInv
    <3> QED BY <3>1, <3>2
  <2>5. IF addr > 0 THEN left = Head(phases).n /\ taken = Written /\ given = ReadBytes
        ELSE /\ ~Head(phases).read /\ left > 0 /\ left <= Head(phases).n
             /\ given = ReadBytes /\ taken = Written + (Head(phases).n - left) + 1
    <3>1. CASE addr > 0
      <4>1. left = Head(phases).n
        BY <1>8, <3>1 DEF InStep, CallInv
      <4> QED BY <1>4, <3>1, <4>1 DEF CountInv
    <3>2. CASE ~(addr > 0)
      <4>1. ~Head(phases).read
        BY <1>8, <3>2 DEF InStep, CallInv
      <4>2. left > 0 /\ addr = 0
        BY <1>1, <1>4, <3>2 DEF TypeInv, LoopInv
      <4> QED BY <1>1, <1>8, <2>2, <3>2, <4>1, <4>2 DEF CountInv
    <3> QED BY <3>1, <3>2
  <2>6. LET rem == IF addr > 0 THEN left ELSE left - 1 IN
         /\ ok' = ok /\ bit' = 0 /\ stage' = "set"
         /\ IF addr > 1
            THEN op' = "out" /\ addr' = addr - 1 /\ UNCHANGED <<left, phases>>
            ELSE IF rem > 0
            THEN /\ op' = (IF Head(phases).read THEN "in" ELSE "out")
                 /\ addr' = 0 /\ UNCHANGED phases
            ELSE /\ rem = 0 /\ op' \in {"address", "stop"} /\ s' = TRUE
                 /\ \A k \in 1 .. Len(phases') : phases'[k].read => phases'[k].n > 0
    BY <1>8, <2>1, AfterByte DEF InStep
  <2> HIDE DEF remains
  <2>7. CASE addr > 1
    <3>1. op' = "out" /\ addr' = addr - 1 /\ addr' > 0 /\ stage' = "set" /\ UNCHANGED <<left, phases>>
      BY <1>4, <2>6, <2>7
    <3>2. mode' = "listen"
      BY <1>4, <2>3, <2>4, <2>7
    <3>3. HearInv'
      BY <2>3, <2>4, <3>1, <3>2 DEF HearInv
    <3>4. taken = Written /\ given = ReadBytes
      BY <1>4, <2>5, <2>7
    <3>5. CountInv'
      <4>1. UNCHANGED <<Done, Written, ReadBytes>>
        BY <1>1, <3>1 DEF Done, Written, ReadBytes
      <4>2. addr' # 0 /\ taken' = Written' /\ given' = ReadBytes'
        BY <1>4, <2>3, <3>1, <3>4, <4>1
      <4>3. \A k \in 1 .. Len(phases') : Done' + k \in 1 .. Len(call') /\ phases'[k] = call'[Done' + k]
        BY <1>1, <3>1, <4>1 DEF CountInv
      <4> QED BY <4>2, <4>3 DEF CountInv
    <3> QED BY <3>1, <3>3, <3>5
  <2>8. CASE ~(addr > 1) /\ remains > 0
    <3>1. /\ op' = (IF Head(phases).read THEN "in" ELSE "out")
          /\ addr' = 0 /\ stage' = "set" /\ UNCHANGED phases
      BY <2>6, <2>8 DEF remains
    <3>2. got = AddressBytes
      BY <1>4, <2>4, <2>8
    <3>3. mode' = IF Head(phases).read THEN "talk" ELSE "listen"
      BY <2>3, <2>4, <3>2
    <3>4. HearInv'
      <4>1. CASE Head(phases).read
        BY <3>1, <3>3, <4>1 DEF HearInv
      <4>2. CASE ~Head(phases).read
        BY <1>4, <3>1, <3>3, <4>2 DEF HearInv
      <4> QED BY <4>1, <4>2
    <3>5. left' = remains
      BY <2>1, <2>8 DEF ByteDone, remains
    <3>6. UNCHANGED <<Done, Written, ReadBytes>>
      BY <1>1, <3>1 DEF Done, Written, ReadBytes
    <3>7. /\ left' <= Head(phases).n
          /\ IF Head(phases).read
             THEN taken' = Written /\ given' = ReadBytes + (Head(phases).n - left') + 0
             ELSE given' = ReadBytes /\ taken' = Written + (Head(phases).n - left') + 0
      <4>1. CASE addr > 0
        BY <1>4, <1>5, <2>3, <2>5, <3>5, <4>1 DEF remains
      <4>2. CASE ~(addr > 0)
        BY <1>4, <1>5, <2>3, <2>5, <3>5, <4>2 DEF remains
      <4> QED BY <4>1, <4>2
    <3>8. op' \in BitOps /\ op' \notin {"ack", "last"}
      BY <3>1 DEF BitOps
    <3>9. \A k \in 1 .. Len(phases') : Done' + k \in 1 .. Len(call') /\ phases'[k] = call'[Done' + k]
      BY <1>1, <3>1, <3>6 DEF CountInv
    <3>10. CountInv'
      BY <3>1, <3>6, <3>7, <3>8, <3>9 DEF CountInv
    <3> QED BY <3>4, <3>8, <3>10 DEF BitOps
  <2>9. CASE ~(addr > 1) /\ ~(remains > 0)
    <3>1. remains = 0
      BY <2>6, <2>9 DEF remains
    <3>2. ~Head(phases).read
      <4>1. Head(phases).read => Head(phases).n > 0
        <5>1. 1 \in 1 .. Len(phases) /\ Head(phases) = phases[1]
          <6>1. phases \in Seq(Phase) /\ phases # <<>> /\ Len(phases) \in Nat \ {0}
            BY <1>1, PhaseIsNext DEF TypeInv, MasterTypes, LoopInv
          <6> QED BY <6>1, HeadTailProperties
        <5> QED BY <5>1 DEF InStep, CallInv
      <4> QED BY <1>4, <1>5, <2>5, <3>1, <4>1 DEF remains
    <3>3. mode' = "listen"
      BY <2>3, <2>4, <3>2
    <3>4. taken' = Written + Head(phases).n /\ given' = ReadBytes + 0
      <4>1. CASE addr > 0
        BY <1>4, <1>5, <2>3, <2>5, <3>1, <4>1 DEF remains
      <4>2. CASE ~(addr > 0)
        BY <1>4, <1>5, <2>3, <2>5, <3>1, <4>2 DEF remains
      <4> QED BY <4>1, <4>2
    <3>5. taken' = Sums(call, FALSE)[Done + 1] /\ given' = Sums(call, TRUE)[Done + 1]
      BY <1>1, <3>2, <3>4, PhaseAdds
    <3> QED BY <1>1, <1>8, <2>1, <2>9, <3>1, <3>3, <3>5, PhaseEnds DEF remains
  <2> QED BY <2>7, <2>8, <2>9
<1>9. CASE ok /\ op = "last"
  <2>1. ByteDone
    BY <1>9 DEF DropSCL
  <2>2. addr = 0 /\ Head(phases).read /\ left > 0
    BY <1>1, <1>4, <1>9 DEF InStep, CallInv, TypeInv, LoopInv
  <2>3. left <= Head(phases).n /\ taken = Written /\ given = ReadBytes + (Head(phases).n - left) + 1
    BY <1>1, <1>2, <1>9, <2>2 DEF CountInv
  <2>4. IF left = 1 THEN mode = "off" ELSE mode = "talk"
    BY <1>1, <1>2, <1>4, <1>9 DEF HearInv, InStep, SlotInv
  <2>5. mode' = mode /\ UNCHANGED <<taken, given>>
    <3>1. CASE mode = "off"
      BY <1>3, <3>1 DEF slave
    <3>2. CASE mode = "talk"
      BY <1>3, <3>2, InCounts
    <3> QED BY <2>4, <3>1, <3>2
  <2>6. CASE left - 1 > 0
    <3>1. op' = "in" /\ stage' = "set" /\ addr' = 0 /\ left' = left - 1 /\ UNCHANGED phases
      BY <1>4, <2>1, <2>2, <2>6 DEF ByteDone, Goto
    <3>2. mode' = "talk"
      BY <1>4, <2>4, <2>5, <2>6
    <3>3. HearInv'
      BY <3>1, <3>2 DEF HearInv
    <3>4. UNCHANGED <<Done, Written, ReadBytes>>
      BY <1>1, <3>1 DEF Done, Written, ReadBytes
    <3>5. left' <= Head(phases).n /\ taken' = Written /\ given' = ReadBytes + (Head(phases).n - left') + 0
      BY <1>4, <1>5, <2>3, <2>5, <3>1
    <3>6. \A k \in 1 .. Len(phases') : Done' + k \in 1 .. Len(call') /\ phases'[k] = call'[Done' + k]
      BY <1>1, <3>1, <3>4 DEF CountInv
    <3>7. CountInv'
      BY <2>2, <3>1, <3>4, <3>5, <3>6 DEF CountInv, BitOps
    <3> QED BY <3>1, <3>3, <3>7
  <2>7. CASE ~(left - 1 > 0)
    <3>1. left = 1
      BY <1>4, <2>2, <2>7
    <3>2. mode' # "talk" /\ ~(addr > 1) /\ (IF addr > 0 THEN left ELSE left - 1) = 0
      BY <2>2, <2>4, <2>5, <3>1
    <3>3. taken' = Written + 0 /\ given' = ReadBytes + Head(phases).n
      BY <1>5, <2>3, <2>5, <3>1
    <3>4. taken' = Sums(call, FALSE)[Done + 1] /\ given' = Sums(call, TRUE)[Done + 1]
      BY <1>1, <2>2, <3>3, PhaseAdds
    <3> QED BY <1>1, <1>9, <2>1, <3>2, <3>4, PhaseEnds
  <2> QED BY <2>6, <2>7
<1> QED BY <1>1, <1>6, <1>7, <1>8, <1>9 DEF BitOps

(* I2CStart moves nothing.                                                 *)
LEMMA StartMoves ==
  ASSUME TypeInv, SlaveInv, InStep, HearInv, CountInv, Address \/ StartSDA \/ StartSCL
  PROVE  op' \notin {"stop", "idle"} /\ HearInv' /\ CountInv'
<1>0. Bits \in Nat \ {0} /\ AddressBytes \in {1, 2}
  BY BusAssumption
<1>1. CASE Address
  <2>1. op = "address" /\ PutBits(TRUE, TRUE) /\ op' = "start" /\ stage' = "poll"
        /\ phases' = phases /\ call' = call
    BY <1>1 DEF Address, Goto, ghosts
  <2>2. mode # "talk" /\ ~pull /\ (~scl \/ (scl /\ sda))
    BY <2>1 DEF HearInv, InStep, LineInv
  <2>3. UNCHANGED <<mode, taken, given>>
    <3>1. SeesRise(TRUE /\ ~pull) => UNCHANGED <<mode, taken, given>>
      BY <2>2 DEF SeesRise
    <3> QED BY <2>1, <2>2, <3>1 DEF PutBits, SCL, SDA, slave
  <2>4. HearInv'
    BY <2>1, <2>2, <2>3 DEF HearInv
  <2>5. CountInv'
    BY <2>1, <2>3 DEF CountInv, Done, Written, ReadBytes, BitOps
  <2> QED BY <2>1, <2>4, <2>5
<1>2. CASE StartSDA
  <2>1. op = "start" /\ stage = "drop" /\ PutBits(TRUE, FALSE) /\ op' = "start"
        /\ phases' = phases /\ call' = call
    BY <1>2 DEF StartSDA, Goto, locals
  <2>2. scl /\ sda /\ ~hold /\ ~pull
    BY <2>1 DEF InStep, LineInv
  <2>3. mode' = "listen" /\ UNCHANGED <<taken, given>>
    BY <2>1, <2>2 DEF PutBits, SCL, SDA, SeesStart
  <2>4. HearInv'
    BY <2>1, <2>3 DEF HearInv
  <2>5. CountInv'
    BY <2>1, <2>3 DEF CountInv, Done, Written, ReadBytes, BitOps
  <2> QED BY <2>1, <2>4, <2>5
<1>3. CASE StartSCL
  <2>1. op = "start" /\ stage = "raise" /\ PutBits(FALSE, FALSE) /\ op' = "out" /\ stage' = "set"
        /\ UNCHANGED locals /\ call' = call
    BY <1>3 DEF StartSCL, Goto, ghosts
  <2>2. scl /\ ~sda /\ ~hold /\ mode = "listen" /\ slot = Bits /\ got = 0 /\ ~rw
    BY <2>1 DEF InStep, LineInv
  <2>3. scl' = FALSE /\ SeesFall
    BY <2>1, <2>2 DEF PutBits, SCL, SDA
  <2>4. (slot + 1) % (Bits + 1) = 0
    BY <2>2, NextSlot DEF TypeInv, SlaveTypes
  <2>5. mode' = "listen" /\ UNCHANGED <<taken, given>>
    BY <1>0, <2>2, <2>3, <2>4 DEF SeesFall
  <2>6. addr = AddressBytes
    BY <2>1 DEF InStep, CallInv
  <2>7. HearInv'
    BY <2>1, <2>3, <2>5, <2>6 DEF HearInv, locals
  <2>8. CountInv'
    <3>1. addr' # 0 /\ UNCHANGED <<Done, Written, ReadBytes, phases>>
      BY <1>0, <2>1, <2>6 DEF locals, Done, Written, ReadBytes
    <3>2. taken = Written /\ given = ReadBytes
      BY <2>1 DEF CountInv, BitOps
    <3> QED BY <2>1, <2>5, <3>1, <3>2 DEF CountInv
  <2> QED BY <2>1, <2>7, <2>8
<1> QED BY <1>1, <1>2, <1>3

(* Nor does I2CStop, of a slave that has nothing more to give.             *)
LEMMA StopMoves ==
  ASSUME TypeInv, InStep, Stop, mode # "talk"
  PROVE  mode' # "talk" /\ UNCHANGED <<taken, given>>
<1>1. op = "stop" /\ ~pull
  BY DEF Stop, InStep, LineInv
<1>2. CASE stage = "set" /\ PutBits(FALSE, FALSE)
  <2>1. CASE ~scl
    BY <1>2, <2>1, PutLow DEF slave
  <2>2. CASE scl
    <3>1. sda /\ ~hold
      BY <1>1, <1>2, <2>2 DEF InStep, LineInv
    <3> QED BY <1>1, <1>2, <2>2, <3>1 DEF PutBits, SCL, SDA, SeesStart, slave
  <2> QED BY <2>1, <2>2
<1>3. CASE stage = "raise" /\ PutBits(TRUE, FALSE)
  <2>1. ~scl
    BY <1>1, <1>3 DEF InStep, LineInv
  <2>2. IF hold THEN UNCHANGED slave ELSE SeesRise(FALSE /\ ~pull)
    BY <1>3, <2>1, PutRise
  <2>3. SeesRise(FALSE /\ ~pull) => UNCHANGED <<mode, taken, given>>
    BY DEF SeesRise
  <2> QED BY <2>2, <2>3 DEF slave
<1>4. CASE stage = "drop" /\ PutBits(TRUE, TRUE)
  <2>1. scl /\ ~sda
    BY <1>1, <1>4 DEF InStep, LineInv
  <2> QED BY <1>1, <1>4, <2>1 DEF PutBits, SCL, SDA, SeesStop, slave
<1> QED BY <1>2, <1>3, <1>4 DEF Stop

(* A slave that lets go of SCL may see it rise.                            *)
LEMMA ReleaseMoves ==
  ASSUME TypeInv, SlaveInv, InStep, HearInv, CountInv, call \in Seq(Phase),
         op \notin {"stop", "idle"}, Release
  PROVE  HearInv' /\ CountInv'
<1>1. /\ hold /\ hold' = FALSE /\ UNCHANGED <<lines, op, stage, locals, call>>
      /\ IF scl THEN SeesRise(SDA) ELSE UNCHANGED slave
  BY DEF Release, ghosts
<1>2. CASE ~scl
  <2>1. HearInv'
    BY <1>1, <1>2 DEF HearInv, lines, slave, locals
  <2>2. CountInv'
    BY <1>1, <1>2, CountStays DEF lines, slave, locals
  <2> QED BY <2>1, <2>2
<1>3. CASE scl /\ op \in BitOps
  <2>1. stage = "poll"
    BY <1>1, <1>3 DEF InStep, LineInv, TypeInv, MasterTypes
  <2>2. SeesRise(sda /\ ~pull)
    BY <1>1, <1>3 DEF SDA
  <2> QED BY <1>1, <1>3, <2>1, <2>2, RiseMoves DEF locals, lines
<1>4. CASE scl /\ op \notin BitOps
  <2>1. op \in {"address", "start"}
    BY <1>4 DEF BitOps, TypeInv, MasterTypes
  <2>2. UNCHANGED <<mode, taken, given>>
    BY <1>1, <1>4, <2>1 DEF HearInv, SeesRise
  <2>3. HearInv'
    BY <1>1, <2>1, <2>2 DEF HearInv
  <2>4. CountInv'
    BY <1>1, <2>1, <2>2, CountStays DEF locals
  <2> QED BY <2>3, <2>4
<1> QED BY <1>2, <1>3, <1>4

(* A call begins with nothing moved; one without phases is done at once.   *)
LEMMA CallMoves ==
  ASSUME TypeInv, SlaveInv, Call
  PROVE  MovedInv'
<1>1. PICK ph \in Calls : /\ phases' = ph /\ call' = ph /\ stage' = "set"
                          /\ op' = (IF ph = <<>> THEN "idle" ELSE "address")
  BY DEF Call, Goto
<1>2. /\ taken' = 0 /\ given' = 0 /\ clean' = (~busy /\ SCL /\ SDA) /\ hung' = FALSE
      /\ UNCHANGED mode
  BY DEF Call
<1>3. ph \in Seq(Phase)
  BY BusAssumption DEF Phase
<1>4. /\ Len(ph) \in Nat /\ Len(ph) - Len(ph) = 0
      /\ Sums(ph, TRUE)[0] = 0 /\ Sums(ph, FALSE)[0] = 0
  <2>1. Len(ph) \in Nat
    BY <1>3, LenProperties
  <2>2. Sums(ph, TRUE)[0] = 0
    BY <1>3, SumsAdd
  <2>3. Sums(ph, FALSE)[0] = 0
    BY <1>3, SumsAdd
  <2>4. Len(ph) - Len(ph) = 0
    BY <2>1
  <2> QED BY <2>1, <2>2, <2>3, <2>4
<1>5. SUFFICES ASSUME clean'
               PROVE  IF op' = "idle" THEN Moved' /\ mode' # "talk" ELSE HearInv' /\ CountInv'
  <2>1. call' \in Seq(Phase) /\ op' \in {"idle", "address"} /\ hung' = FALSE
    BY <1>1, <1>2, <1>3
  <2> HIDE DEF HearInv, CountInv, Moved
  <2> QED BY <2>1 DEF MovedInv
<1>6. mode' # "talk"
  BY <1>2, <1>5 DEF SlaveInv
<1>7. CASE ph = <<>>
  <2>1. Len(ph) = 0
    BY <1>7, EmptySeq
  <2>2. Moved'
    BY <1>1, <1>2, <1>4, <2>1 DEF Moved, Total
  <2> QED BY <1>1, <1>6, <1>7, <2>2
<1>8. CASE ph # <<>>
  <2>1. HearInv'
    BY <1>1, <1>6, <1>8 DEF HearInv
  <2>2. Done' = 0 /\ Written' = 0 /\ ReadBytes' = 0
    BY <1>1, <1>4 DEF Done, Written, ReadBytes
  <2>3. \A k \in 1 .. Len(phases') : Done' + k \in 1 .. Len(call') /\ phases'[k] = call'[Done' + k]
    BY <1>1, <1>4, <2>2
  <2>4. CountInv'
    BY <1>1, <1>2, <1>8, <2>2, <2>3 DEF CountInv, BitOps
  <2> QED BY <1>1, <1>8, <2>1, <2>4
<1> QED BY <1>7, <1>8

LEMMA MovedStep ==
  ASSUME TypeInv, SlaveInv, SyncInv, MovedInv, [Next]_vars
  PROVE  MovedInv'
<1>1. CASE Call
  BY <1>1, CallMoves
<1>2. CASE UNCHANGED vars
  BY <1>2 DEF vars, lines, slave, locals, ghosts, MovedInv, HearInv, CountInv, Moved, Done, Written,
              ReadBytes, BitOps
<1>3. CASE Master \/ Release
  <2>1. call' = call /\ clean' = clean
    BY <1>3 DEF Master, Release, Address, PollSCL, StartSDA, StartSCL, SetBit, RaiseSCL, Sample,
                DropSCL, Stop, ghosts
  <2>2. SUFFICES ASSUME clean
                 PROVE  IF op' \in {"stop", "idle"}
                        THEN r' => Moved' /\ mode' # "talk" /\ (op' = "stop" => ~hung' /\ addr' = 0)
                        ELSE IF hung' THEN op' \in BitOps /\ stage' = "drop" /\ ~ok'
                        ELSE HearInv' /\ CountInv'
    <3>1. call \in Seq(Phase)
      BY DEF MovedInv
    <3> HIDE DEF HearInv, CountInv, Moved
    <3> QED BY <2>1, <3>1 DEF MovedInv
  <2>3. ~hung => InStep
    BY <2>2 DEF SyncInv
  <2>4. CASE op \in {"stop", "idle"}
    <3>1. Stop \/ Release
      BY <1>3, <2>4 DEF Master, Address, PollSCL, StartSDA, StartSCL, SetBit, RaiseSCL, Sample,
                        DropSCL, BitOps, TypeInv, LoopInv
    <3>2. r' = r
      BY <3>1 DEF Stop, Release, locals
    <3>3. op' \in {"stop", "idle"}
      BY <2>4, <3>1 DEF Stop, Release, Goto
    <3>4. SUFFICES ASSUME r
                   PROVE  Moved' /\ mode' # "talk" /\ (op' = "stop" => ~hung' /\ addr' = 0)
      BY <3>2, <3>3
    <3>5. Moved /\ mode # "talk" /\ (op = "stop" => ~hung /\ addr = 0)
      BY <2>2, <2>4, <3>4 DEF MovedInv
    <3>6. CASE Stop
      <4>1. op = "stop" /\ addr = 0 /\ ~hung /\ InStep
        BY <2>3, <3>5, <3>6 DEF Stop
      <4>2. mode' # "talk" /\ UNCHANGED <<taken, given>>
        BY <3>5, <3>6, <4>1, StopMoves
      <4>3. op' = "idle" \/ UNCHANGED <<addr, hung>>
        <5>1. CASE stage = "drop" /\ Goto(IF addr > 0 /\ s THEN "stop" ELSE "idle", "set")
          BY <4>1, <5>1 DEF Goto
        <5>2. CASE UNCHANGED <<addr, open, hung>>
          BY <5>2
        <5> QED BY <3>6, <5>1, <5>2 DEF Stop
      <4> QED BY <2>1, <3>5, <4>1, <4>2, <4>3 DEF Moved
    <3>7. CASE Release
      <4>1. UNCHANGED <<op, addr, hung>>
        BY <3>7 DEF Release, locals, ghosts
      <4>2. mode' = mode /\ UNCHANGED <<taken, given>>
        BY <3>5, <3>7 DEF Release, SeesRise, slave
      <4> QED BY <2>1, <3>5, <4>1, <4>2 DEF Moved
    <3> QED BY <3>1, <3>6, <3>7
  <2>5. CASE op \notin {"stop", "idle"} /\ hung
    <3>1. op \in BitOps /\ stage = "drop" /\ ~ok
      BY <2>2, <2>5 DEF MovedInv
    <3>2. DropSCL \/ Release
      BY <1>3, <3>1 DEF Master, Address, PollSCL, StartSDA, StartSCL, SetBit, RaiseSCL, Sample,
                        Stop, BitOps
    <3>3. CASE DropSCL
      <4>1. op' = "stop" /\ r' = FALSE
        BY <3>1, <3>3 DEF DropSCL, ByteFails, Goto
      <4> QED BY <4>1
    <3>4. CASE Release
      <4>1. UNCHANGED <<op, stage, ok, hung>>
        BY <3>4 DEF Release, locals, ghosts
      <4> QED BY <2>5, <3>1, <4>1
    <3> QED BY <3>2, <3>3, <3>4
  <2>6. CASE op \notin {"stop", "idle"} /\ ~hung
    <3>1. InStep /\ HearInv /\ CountInv /\ call \in Seq(Phase)
      BY <2>2, <2>3, <2>6 DEF MovedInv
    <3>2. ~Stop
      BY <2>6 DEF Stop
    <3>3. CASE Address \/ StartSDA \/ StartSCL
      <4>1. hung' = hung
        BY <3>3 DEF Address, StartSDA, StartSCL, ghosts
      <4>2. op' \notin {"stop", "idle"} /\ HearInv' /\ CountInv'
        BY <3>1, <3>3, StartMoves
      <4> QED BY <2>6, <4>1, <4>2
    <3>4. CASE (SetBit \/ RaiseSCL \/ PollSCL \/ Sample) /\ ~hung'
      <4>1. op' = op
        BY <3>4 DEF SetBit, RaiseSCL, PollSCL, Sample, Goto
      <4>2. HearInv' /\ CountInv'
        BY <3>1, <3>4, BitMoves
      <4> QED BY <2>6, <3>4, <4>1, <4>2
    <3>5. CASE (SetBit \/ RaiseSCL \/ PollSCL \/ Sample) /\ hung'
      <4>1. PollSCL
        BY <2>6, <3>5 DEF SetBit, RaiseSCL, Sample, ghosts
      <4>2. IF op = "start"
            THEN r' = FALSE /\ op' \in {"stop", "idle"}
            ELSE op' = op /\ stage' = "drop" /\ ~ok'
        BY <2>6, <3>5, <4>1 DEF PollSCL, Goto
      <4>3. op = "start" \/ op \in BitOps
        BY <2>6, <3>1, <4>1 DEF PollSCL, InStep, CallInv, TypeInv, MasterTypes, BitOps
      <4> QED BY <2>6, <3>5, <4>2, <4>3
    <3>6. CASE DropSCL
      <4>1. hung' = hung
        BY <3>6 DEF DropSCL, ghosts
      <4>2. \/ op' = "stop" /\ (r' => Moved' /\ mode' # "talk" /\ addr' = 0)
            \/ op' \notin {"stop", "idle"} /\ HearInv' /\ CountInv'
        BY <2>6, <3>1, <3>6, DropMoves
      <4> QED BY <2>6, <4>1, <4>2
    <3>7. CASE Release
      <4>1. UNCHANGED <<op, hung>>
        BY <3>7 DEF Release, ghosts
      <4>2. HearInv' /\ CountInv'
        BY <2>6, <3>1, <3>7, ReleaseMoves
      <4> QED BY <2>6, <4>1, <4>2
    <3> QED BY <1>3, <3>2, <3>3, <3>4, <3>5, <3>6, <3>7 DEF Master
  <2> QED BY <2>4, <2>5, <2>6
<1> QED BY <1>1, <1>2, <1>3 DEF Next

(* A call that returns TRUE moved every byte it was asked to, and no more: *)
(* nothing is acknowledged twice, left out, or read past its end, whatever *)
(* the slave refuses and however it stretches the clock.                   *)
THEOREM TrueMovesAll ==
  ASSUME ReadsHaveBytes
  PROVE  Spec => []TrueMeansMoved
<1> DEFINE BusInv == TypeInv /\ SlaveInv /\ SyncInv /\ MovedInv
<1>1. Init => BusInv
  <2> SUFFICES ASSUME Init PROVE SlaveInv /\ SyncInv /\ MovedInv
    BY TypeInit
  <2>1. SlaveInv /\ SyncInv
    BY InSyncInit
  <2>2. call = <<>> /\ taken = 0 /\ given = 0 /\ op = "idle" /\ mode = "off"
    BY DEF Init
  <2>3. <<>> \in Seq(Phase) /\ Len(<<>>) = 0
    BY EmptySeq
  <2>4. Sums(<<>>, TRUE)[0] = 0 /\ Sums(<<>>, FALSE)[0] = 0
    BY <2>3, SumsAdd
  <2>5. Moved
    BY <2>2, <2>3, <2>4 DEF Moved, Total
  <2> QED BY <2>1, <2>2, <2>3, <2>5 DEF MovedInv
<1>2. BusInv /\ [Next]_vars => BusInv'
  BY TypeStep, SlaveStep, SyncStep, MovedStep
<1>3. BusInv => TrueMeansMoved
  BY DEF MovedInv, Moved, TrueMeansMoved, Returned
<1> QED BY <1>1, <1>2, <1>3, PTL DEF Spec

=============================================================================
