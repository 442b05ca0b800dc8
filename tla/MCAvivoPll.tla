----------------------------- MODULE MCAvivoPll -----------------------------
(* AvivoPll for TLC: the clocks of common modes, the ends of the range     *)
(* mode_valid accepts, and the highest clock the dividers reach.           *)
EXTENDS AvivoPll

MCClocks  == {24999, 25000, 25175, 40500, 65000, 108000, 162000, 312955, 327857}
MCGarbage == {0, 65003, -1000000}

=============================================================================
