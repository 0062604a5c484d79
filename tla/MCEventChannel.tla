--------------------------- MODULE MCEventChannel ---------------------------
(* Bounds per thread for EventChannel: two events of one thread are enough *)
(* to be out of order, one more of another to be mixed up with them.       *)
EXTENDS EventChannel

CONSTANTS MaxChanges, MaxSamples
MCMaxEvents == [t \in Threads |-> IF t = "watcher" THEN MaxChanges ELSE MaxSamples]
=============================================================================
