--------------------------- MODULE MCAvivoOutputs ---------------------------
(* AvivoOutputs for TLC: every table of up to four connectors numbered 0   *)
(* to 2, in every order.                                                   *)
EXTENDS AvivoOutputs

MCEntries == [type : Kinds, number : 0 .. 2] \cup {[type |-> "other", number |-> 0]}
MCTables  == UNION {[1 .. n -> MCEntries] : n \in 0 .. 4}

=============================================================================
