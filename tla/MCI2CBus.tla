------------------------------ MODULE MCI2CBus ------------------------------
(* I2CBus for TLC: bytes of two bits, and every kind of call with up to    *)
(* two bytes or two pairs.                                                 *)
EXTENDS I2CBus

MCCalls == {WriteRead(w, d) : w \in 0 .. 2, d \in 0 .. 2}
           \cup {ProbeAddress(FALSE), WriteBytes(1), WriteVec(2)}
=============================================================================
