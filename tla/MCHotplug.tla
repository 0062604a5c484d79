------------------------------ MODULE MCHotplug ------------------------------
(* Values for the constants of Hotplug: two cameras, with one serial each   *)
(* (MCSerial) or with none, as two Meet 2 have it (MCNoSerial).             *)
EXTENDS Hotplug, TLC

CONSTANTS c1, c2, s1, none

MCSerial == c1 :> s1 @@ c2 :> none
MCNoSerial == c1 :> none @@ c2 :> none
=============================================================================
