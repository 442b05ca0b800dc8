------------------------------- MODULE I2CBus -------------------------------
(***************************************************************************)
(* The software I2C master (avivotool/xf86i2c.c; the driver of xorg/ uses  *)
(* the server's copy of it over the GPIO lines of xorg/avivo_i2c.c) and    *)
(* one slave on its bus.                                                   *)
(*                                                                         *)
(* A step of the master is one I2CPutBits or one turn of a polling loop.   *)
(* The lines are open drain: each is high when nobody pulls it.  The slave *)
(* changes SDA and begins to stretch the clock when SCL falls, and lets go *)
(* of SCL when it likes.  Data bits are arbitrary; a byte has Bits of them.*)
(***************************************************************************)
EXTENDS Integers, Sequences

CONSTANTS
  Bits,          \* bits of a byte (8)
  AddressBytes,  \* bytes of a slave address: 1, or 2 for an 11 bit address
  Polls,         \* turns of the loop of I2CRaiseSCL before it times out
  AckPolls,      \* turns of the loop of I2CPutByte that waits for the ACK
  MayStretch,    \* TRUE: the slave may hold SCL low
  Calls          \* the calls made: sequences of [read, n], see Phases

ASSUME BusAssumption ==
  /\ Bits \in Nat \ {0}
  /\ AddressBytes \in {1, 2}
  /\ Polls \in Nat \ {0} /\ AckPolls \in Nat \ {0}
  /\ MayStretch \in BOOLEAN
  /\ Calls \subseteq Seq([read : BOOLEAN, n : Nat])

(* Every transfer is a sequence of phases: a start, the slave address and  *)
(* n bytes, written or read.  xf86I2CWriteRead has up to two of them,      *)
(* xf86I2CProbeAddress one without bytes, xf86I2CWriteBytes one with the   *)
(* subaddress and the bytes, xf86I2CWriteVec one for each pair of bytes.   *)
WriteRead(nWrite, nRead) ==
  (IF nWrite > 0 THEN <<[read |-> FALSE, n |-> nWrite]>> ELSE <<>>) \o
  (IF nRead > 0 THEN <<[read |-> TRUE, n |-> nRead]>> ELSE <<>>)
ProbeAddress(read)  == <<[read |-> read, n |-> 0]>>
WriteBytes(nWrite)  == IF nWrite > 0 THEN <<[read |-> FALSE, n |-> nWrite + 1]>> ELSE <<>>
WriteVec(nValues)   == [i \in 1 .. nValues |-> [read |-> FALSE, n |-> 2]]

-----------------------------------------------------------------------------
VARIABLES
  scl, sda,      \* what the master last put on the lines
  hold, pull,    \* the slave pulls SCL, SDA
  busy,          \* a START was seen on the wires and no STOP since
  mode,          \* the slave is "off", takes bytes ("listen") or gives them ("talk")
  slot,          \* the slave's bit: 0 .. Bits - 1 are data, Bits is the ACK
  got, rw,       \* address bytes the slave has taken since START, and its R/W bit
  taken, given,  \* bytes the slave has taken and given in this call
  op,            \* what the master does: "idle", "address", "start", "out", "ack",
                 \*   "in", "last", "stop"
  stage,         \* the I2CPutBits it is at
  phases, left,  \* the phases to go, the current one first; its bytes to go
  addr,          \* address bytes to go, 0 when data bytes are on
  bit, polls,    \* loop counters
  ok,            \* no timeout and no NACK in this bit
  r, s,          \* the locals r and s > 0 of I2CWriteRead
  open,          \* I2CStart succeeded and no I2CStop was sent since
  clean,         \* the bus was idle when the call was made
  hung,          \* the slave held SCL past a timeout or during a Stop
  call           \* the call that was made

lines  == <<scl, sda>>
slave  == <<pull, busy, mode, slot, got, rw, taken, given>>
locals == <<phases, left, addr, bit, ok, r, s>>
ghosts == <<open, clean, hung, call>>
vars   == <<lines, hold, slave, op, stage, polls, locals, ghosts>>

SCL == scl /\ ~hold
SDA == sda /\ ~pull

(* The bytes that the first phases of a call read or write, and all of it. *)
Sums(seq, read) ==
  LET n[i \in 0 .. Len(seq)] ==
        IF i = 0 THEN 0 ELSE n[i - 1] + (IF seq[i].read = read THEN seq[i].n ELSE 0)
  IN n
Total(seq, read) == Sums(seq, read)[Len(seq)]

TypeOK ==
  /\ {scl, sda, hold, pull, busy, rw, ok, r, s, open, clean, hung} \subseteq BOOLEAN
  /\ mode \in {"off", "listen", "talk"}
  /\ slot \in 0 .. Bits /\ bit \in 0 .. Bits - 1
  /\ addr \in 0 .. AddressBytes /\ got \in 0 .. AddressBytes
  /\ taken \in Nat /\ given \in Nat /\ left \in Nat
  /\ op \in {"idle", "address", "start", "out", "ack", "in", "last", "stop"}
  /\ stage \in {"set", "raise", "poll", "sample", "drop"}
  /\ polls \in 0 .. Polls + AckPolls
  /\ phases \in Seq([read : BOOLEAN, n : Nat])

Init ==
  /\ scl = TRUE /\ sda = TRUE /\ hold = FALSE /\ pull = FALSE
  /\ busy = FALSE /\ mode = "off" /\ slot = 0 /\ got = 0 /\ rw = FALSE
  /\ taken = 0 /\ given = 0
  /\ op = "idle" /\ stage = "set" /\ polls = 0
  /\ phases = <<>> /\ left = 0 /\ addr = 0 /\ bit = 0
  /\ ok = TRUE /\ r = TRUE /\ s = FALSE
  /\ open = FALSE /\ clean = TRUE /\ hung = FALSE /\ call = <<>>

-----------------------------------------------------------------------------
(* The slave *)

(* SDA falls while SCL is high. *)
SeesStart ==
  /\ busy' = TRUE /\ mode' = "listen" /\ slot' = Bits /\ got' = 0 /\ rw' = FALSE
  /\ pull' = FALSE
  /\ UNCHANGED <<taken, given>>

(* SDA rises while SCL is high. *)
SeesStop ==
  /\ busy' = FALSE /\ mode' = "off"
  /\ UNCHANGED <<pull, slot, got, rw, taken, given>>

(* SCL rises, and SDA is d. *)
SeesRise(d) ==
  /\ rw' = IF mode = "listen" /\ got = 0 /\ slot = Bits - 1 THEN d ELSE rw
  /\ IF mode = "talk" /\ slot = Bits
     THEN given' = given + 1 /\ mode' = (IF d THEN "off" ELSE "talk")
     ELSE UNCHANGED <<given, mode>>
  /\ UNCHANGED <<pull, busy, slot, got, taken>>

(* SCL falls: the next slot begins.  In the ACK slot the slave answers or  *)
(* drops out, after the address it may have to talk.                       *)
SeesFall ==
  LET next  == (slot + 1) % (Bits + 1)
      talks == mode = "talk" \/ (got = AddressBytes /\ rw)
  IN
  /\ slot' = next
  /\ hold' \in {FALSE, MayStretch}
  /\ \/ /\ mode = "listen" /\ next = Bits
        /\ pull' = TRUE
        /\ got' = IF got < AddressBytes THEN got + 1 ELSE got
        /\ taken' = IF got >= AddressBytes THEN taken + 1 ELSE taken
        /\ UNCHANGED mode
     \/ /\ mode = "listen" /\ next = Bits
        /\ pull' = FALSE /\ mode' = "off" /\ hold' = FALSE
        /\ UNCHANGED <<got, taken>>
     \/ /\ next # Bits /\ talks
        /\ pull' \in BOOLEAN /\ mode' = "talk"
        /\ UNCHANGED <<got, taken>>
     \/ /\ IF next = Bits THEN mode = "talk" ELSE ~talks
        /\ pull' = FALSE
        /\ UNCHANGED <<mode, got, taken>>
  /\ UNCHANGED <<busy, rw, given>>

(* The slave lets go of SCL. *)
Release ==
  /\ hold
  /\ hold' = FALSE
  /\ IF scl THEN SeesRise(SDA) ELSE UNCHANGED slave
  /\ UNCHANGED <<lines, op, stage, polls, locals, ghosts>>

(* The master's I2CPutBits, and what the slave makes of it.  When both     *)
(* lines fall at once, SDA may be seen to fall first.                      *)
PutBits(c, d) ==
  /\ scl' = c /\ sda' = d
  /\ IF SCL /\ ~c
     THEN IF SDA /\ ~d THEN \/ SeesStart /\ UNCHANGED hold
                            \/ UNCHANGED <<hold, slave>>
          ELSE IF mode = "off" THEN UNCHANGED <<hold, slave>>
          ELSE SeesFall
     ELSE /\ IF SCL /\ SDA /\ ~d THEN SeesStart
             ELSE IF SCL /\ ~sda /\ d /\ ~pull THEN SeesStop
             ELSE IF ~scl /\ c /\ ~hold THEN SeesRise(d /\ ~pull)
             ELSE UNCHANGED slave
          /\ UNCHANGED hold

-----------------------------------------------------------------------------
(* The master *)

Goto(o, st) == op' = o /\ stage' = st

(* A call of one of the transfer functions. *)
Call ==
  /\ op = "idle"
  /\ \E ph \in Calls :
       /\ phases' = ph /\ call' = ph
       /\ Goto(IF ph = <<>> THEN "idle" ELSE "address", "set")
  /\ r' = TRUE /\ s' = FALSE
  /\ taken' = 0 /\ given' = 0
  /\ clean' = (~busy /\ SCL /\ SDA)
  /\ hung' = FALSE
  /\ UNCHANGED <<lines, hold, pull, busy, mode, slot, got, rw, polls, left, addr, bit, ok, open>>

(* I2CAddress begins: I2CRaiseSCL of I2CStart puts both lines high. *)
Address ==
  /\ op = "address"
  /\ PutBits(TRUE, TRUE)
  /\ Goto("start", "poll")
  /\ polls' = Polls
  /\ left' = Head(phases).n /\ addr' = AddressBytes /\ bit' = 0 /\ ok' = TRUE
  /\ UNCHANGED <<phases, r, s, ghosts>>

(* Mutant: the loop of I2CRaiseSCL waits for the slave for ever. *)
PollForever ==
  /\ stage = "poll"
  /\ SCL
  /\ Goto(op, IF op \in {"ack", "in"} THEN "sample" ELSE "drop")
  /\ polls' = AckPolls
  /\ UNCHANGED <<lines, hold, slave, locals, ghosts>>

(* One turn of the loop of I2CRaiseSCL.  When it times out, I2CStart fails *)
(* and with it I2CAddress, without a Stop; a bit is ended first.           *)
PollSCL ==
  /\ stage = "poll"
  /\ \/ /\ SCL
        /\ Goto(op, IF op \in {"ack", "in"} THEN "sample" ELSE "drop")
        /\ polls' = AckPolls
        /\ UNCHANGED <<r, addr, ok, hung>>
     \/ /\ ~SCL /\ polls > 1
        /\ polls' = polls - 1
        /\ UNCHANGED <<op, stage, r, addr, ok, hung>>
     \/ /\ ~SCL /\ polls = 1
        /\ ok' = FALSE /\ hung' = TRUE /\ polls' = 0
        /\ IF op = "start"
           THEN r' = FALSE /\ addr' = 0 /\ Goto(IF s THEN "stop" ELSE "idle", "set")
           ELSE UNCHANGED <<r, addr>> /\ Goto(op, "drop")
  /\ UNCHANGED <<lines, hold, slave, phases, left, bit, s, open, clean, call>>

(* The rest of I2CStart: SDA falls, then SCL. *)
StartSDA ==
  /\ op = "start" /\ stage = "drop"
  /\ PutBits(TRUE, FALSE)
  /\ Goto("start", "raise")
  /\ open' = TRUE
  /\ UNCHANGED <<polls, locals, clean, hung, call>>

StartSCL ==
  /\ op = "start" /\ stage = "raise"
  /\ PutBits(FALSE, FALSE)
  /\ Goto("out", "set")
  /\ UNCHANGED <<polls, locals, ghosts>>

BitOps == {"out", "ack", "in", "last"}

(* Mutant: every byte read is acknowledged, the last one too. *)
BitValuesAlwaysAck ==
  CASE op = "out" -> IF addr = AddressBytes /\ bit = Bits - 1 THEN {Head(phases).read}
                                                              ELSE BOOLEAN
    [] op = "last" -> {FALSE}
    [] OTHER -> {TRUE}

(* The value the master puts on SDA for a bit: of the address, of data, or *)
(* the ACK it sends after a byte it read, NACK after the last one.         *)
BitValues ==
  CASE op = "out" -> IF addr = AddressBytes /\ bit = Bits - 1 THEN {Head(phases).read}
                                                              ELSE BOOLEAN
    [] op = "last" -> {left = 1}
    [] OTHER -> {TRUE}

(* I2CWriteBit, I2CReadBit and the ACK of I2CPutByte: SDA is set with SCL  *)
(* low, SCL is raised, and put low again.                                  *)
SetBit ==
  /\ op \in BitOps /\ stage = "set"
  /\ \E v \in BitValues : PutBits(FALSE, v)
  /\ Goto(op, "raise")
  /\ UNCHANGED <<polls, locals, ghosts>>

RaiseSCL ==
  /\ op \in BitOps /\ stage = "raise"
  /\ PutBits(TRUE, sda)
  /\ Goto(op, "poll")
  /\ polls' = Polls
  /\ UNCHANGED <<locals, ghosts>>

(* Mutant: the wait for the ACK ignores what it reads. *)
SampleAny ==
  /\ op \in BitOps /\ stage = "sample"
  /\ Goto(op, "drop")
  /\ UNCHANGED <<lines, hold, slave, polls, locals, ghosts>>

(* I2CGetBits: of a data bit, or of the ACK, which may take some turns. *)
Sample ==
  /\ op \in BitOps /\ stage = "sample"
  /\ \/ /\ op = "in" \/ ~SDA
        /\ Goto(op, "drop")
        /\ UNCHANGED <<polls, ok>>
     \/ /\ op = "ack" /\ SDA
        /\ polls' = polls - 1
        /\ ok' = (polls > 1)
        /\ Goto(op, IF polls > 1 THEN "sample" ELSE "drop")
  /\ UNCHANGED <<lines, hold, slave, phases, left, addr, bit, r, s, ghosts>>

(* A byte is through: the next one of the address or of the phase, the     *)
(* next phase, or the end of the call.  s is set once an address was sent. *)
ByteDone ==
  LET atAddress == addr > 1
      remains   == IF addr > 0 THEN left ELSE left - 1
      more      == Len(phases) > 1
  IN
  /\ bit' = 0
  /\ addr' = IF addr > 0 THEN addr - 1 ELSE 0
  /\ left' = IF atAddress THEN left ELSE remains
  /\ s' = (s \/ ~atAddress)
  /\ phases' = IF ~atAddress /\ remains = 0 /\ more THEN Tail(phases) ELSE phases
  /\ UNCHANGED <<r, ok>>
  /\ IF atAddress THEN Goto("out", "set")
     ELSE IF remains > 0 THEN Goto(IF Head(phases).read THEN "in" ELSE "out", "set")
     ELSE Goto(IF more THEN "address" ELSE "stop", "set")

(* Mutant: a failed byte goes back without a Stop. *)
ByteFailsNoStop ==
  /\ r' = FALSE
  /\ Goto("idle", "set")
  /\ UNCHANGED <<phases, left, addr, bit, ok, s>>

(* A timeout or a NACK ends the call; within I2CAddress it has its own     *)
(* Stop, before the one of the call.                                       *)
ByteFails ==
  /\ r' = FALSE
  /\ Goto("stop", "set")
  /\ UNCHANGED <<phases, left, addr, bit, ok, s>>

(* Mutants: SDA is let go before SCL falls; the loop over the bits runs    *)
(* once too often.                                                         *)
DropSDAFirst ==
  /\ op \in BitOps /\ stage = "drop"
  /\ PutBits(TRUE, TRUE)
  /\ IF ~ok THEN ByteFails
     ELSE IF op \in {"ack", "last"} THEN ByteDone
     ELSE /\ bit' = IF bit + 1 < Bits THEN bit + 1 ELSE 0
          /\ Goto(IF bit + 1 < Bits THEN op ELSE IF op = "out" THEN "ack" ELSE "last", "set")
          /\ UNCHANGED <<phases, left, addr, ok, r, s>>
  /\ UNCHANGED <<polls, ghosts>>

DropOneBitMore ==
  /\ op \in BitOps /\ stage = "drop"
  /\ PutBits(FALSE, sda)
  /\ IF ~ok THEN ByteFails
     ELSE IF op \in {"ack", "last"} THEN ByteDone
     ELSE /\ bit' = IF bit < Bits THEN bit + 1 ELSE 0
          /\ Goto(IF bit < Bits THEN op ELSE IF op = "out" THEN "ack" ELSE "last", "set")
          /\ UNCHANGED <<phases, left, addr, ok, r, s>>
  /\ UNCHANGED <<polls, ghosts>>

(* SCL goes low again, and the loop over the bits moves on. *)
DropSCL ==
  /\ op \in BitOps /\ stage = "drop"
  /\ PutBits(FALSE, sda)
  /\ IF ~ok THEN ByteFails
     ELSE IF op \in {"ack", "last"} THEN ByteDone
     ELSE /\ bit' = IF bit + 1 < Bits THEN bit + 1 ELSE 0
          /\ Goto(IF bit + 1 < Bits THEN op ELSE IF op = "out" THEN "ack" ELSE "last", "set")
          /\ UNCHANGED <<phases, left, addr, ok, r, s>>
  /\ UNCHANGED <<polls, ghosts>>

(* I2CStop; the Stop of I2CAddress is followed by the one of the call when *)
(* an earlier phase had sent its address.                                  *)
Stop ==
  /\ op = "stop"
  /\ \/ stage = "set"   /\ PutBits(FALSE, FALSE) /\ Goto(op, "raise")
                        /\ UNCHANGED <<addr, open, hung>>
     \/ stage = "raise" /\ PutBits(TRUE, FALSE)  /\ Goto(op, "drop")
                        /\ UNCHANGED <<addr, open, hung>>
     \/ /\ stage = "drop"
        /\ PutBits(TRUE, TRUE)
        /\ Goto(IF addr > 0 /\ s THEN "stop" ELSE "idle", "set")
        /\ addr' = 0
        /\ open' = FALSE
        /\ hung' = (hung \/ hold)
  /\ UNCHANGED <<polls, phases, left, bit, ok, r, s, clean, call>>

Master == Address \/ PollSCL \/ StartSDA \/ StartSCL \/ SetBit \/ RaiseSCL
          \/ Sample \/ DropSCL \/ Stop

Next == Call \/ Master \/ Release

Spec == Init /\ [][Next]_vars

(* The master runs on; the slave need not ever let go of SCL. *)
FairSpec == Spec /\ WF_vars(Master)

-----------------------------------------------------------------------------
(* Properties *)

Returned == op = "idle"

(* However the call ended, also with a slave that still holds SCL, the     *)
(* master has let go of both lines and closed what it had opened.          *)
MasterLetsGo == Returned => scl /\ sda /\ ~open

(* A call that says TRUE moved all its bytes: the slave acknowledged every *)
(* byte written and was asked for every byte read, no more and no fewer,   *)
(* if the bus was idle at the call.                                        *)
TrueMeansMoved ==
  (Returned /\ r /\ clean) => taken = Total(call, FALSE) /\ given = Total(call, TRUE)

(* Unless the slave held SCL past a timeout or through the Stop, the bus   *)
(* is idle again: the slave saw the Stop, also after a NACK in any byte    *)
(* and after the last byte of a read, whose NACK frees SDA.                *)
IdleAfterCall == (Returned /\ clean /\ ~hung) => ~busy /\ SCL /\ SDA

(* SDA changes under a high SCL only where a Start or a Stop is meant.     *)
DataStable == [][(SCL /\ SCL' /\ SDA' # SDA) => op \in {"start", "stop"}]_vars

(* Every call comes back, whatever the slave does with SCL.                *)
CallsReturn == (op # "idle") ~> (op = "idle")

(* One Stop ends a transaction, and none is sent on an idle bus.           *)
OneStop == [][(op = "stop" /\ stage = "set" /\ op' = "stop" /\ stage' = "raise") => open]_vars
=============================================================================
