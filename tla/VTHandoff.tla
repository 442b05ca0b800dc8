------------------------------ MODULE VTHandoff ------------------------------
(***************************************************************************)
(* What a video driver promises the console it shares a card with: a       *)
(* register the driver gives back holds what the console last left in it.  *)
(* The server takes the card, drives it as it likes, and hands it over     *)
(* again; only the console changes what the console wants to see.          *)
(***************************************************************************)
CONSTANTS Registers,    \* the registers the promise is about
          Values        \* what they may hold

VARIABLES owner,        \* who drives the card: "console", "server", or nobody
          shown,        \* the registers
          text          \* what the console left in them

vars == <<owner, shown, text>>

States == [Registers -> Values]

Init == /\ owner = "console"
        /\ text \in States
        /\ shown = text

(* The server asks for the card; it has written nothing yet. *)
Take == /\ owner = "console"
        /\ owner' = "server"
        /\ UNCHANGED <<shown, text>>

(* The server programs the card. *)
Drive == /\ owner = "server"
         /\ shown' \in States
         /\ UNCHANGED <<owner, text>>

(* The server gives the card back as it got it. *)
Give == /\ owner = "server"
        /\ owner' = "console"
        /\ shown' = text
        /\ UNCHANGED text

(* The console (another server, the kernel) reprograms the card. *)
Retext == /\ owner = "console"
          /\ text' \in States
          /\ shown' = text'
          /\ UNCHANGED owner

(* The server dies without giving the card back. *)
Lose == /\ owner = "server"
        /\ owner' = "nobody"
        /\ UNCHANGED <<shown, text>>

Next == Take \/ Drive \/ Give \/ Retext \/ Lose

Spec == Init /\ [][Next]_vars
=============================================================================
