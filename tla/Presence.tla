------------------------------ MODULE Presence ------------------------------
(***************************************************************************)
(* What the hot-plug watcher of libobsbot-core promises its subscribers,   *)
(* with nothing about how it finds out: a device key is announced by one   *)
(* DeviceAdded, is not announced again while it stands, and is withdrawn   *)
(* by one DeviceRemoved.  The log is every event the watcher ever put into *)
(* the event channel.  An event carries only the serial; the key that the  *)
(* code compares (device_key) is kept beside it to state properties.       *)
(*                                                                         *)
(* A retraction may carry another serial than the announcement did: the    *)
(* code sends the serial of its latest enumeration (see Hotplug).          *)
(***************************************************************************)
EXTENDS Naturals, Sequences

CONSTANTS Keys,      \* what device_key can return
          Serials    \* what DeviceInfo.serial can be

VARIABLES announced, \* the keys that stand announced
          log        \* the events sent so far

vars == <<announced, log>>

Added(k, s)   == [kind |-> "added",   key |-> k, serial |-> s]
Removed(k, s) == [kind |-> "removed", key |-> k, serial |-> s]

Event == [kind : {"added", "removed"}, key : Keys, serial : Serials]

Init == /\ announced = {}
        /\ log = <<>>

Announce(k, s) == /\ k \notin announced
                  /\ announced' = announced \cup {k}
                  /\ log' = Append(log, Added(k, s))

Retract(k, s) == /\ k \in announced
                 /\ announced' = announced \ {k}
                 /\ log' = Append(log, Removed(k, s))

Next == \E k \in Keys, s \in Serials : Announce(k, s) \/ Retract(k, s)

Spec == Init /\ [][Next]_vars

TypeOK == /\ announced \in SUBSET Keys
          /\ log \in Seq(Event)

-----------------------------------------------------------------------------
(* j is the first event about its key after position i (i = 0: from the start) *)
NextAbout(i, j) == \A m \in (i + 1)..(j - 1) : log[m].key # log[j].key

\* The events about one key alternate, beginning with DeviceAdded: a
\* subscriber that counts additions and removals never sees a key added twice
\* in a row, nor removed before it was added.
EventsAlternate ==
  \A j \in 1..Len(log) :
     /\ NextAbout(0, j) => log[j].kind = "added"
     /\ \A i \in 1..(j - 1) :
          log[i].key = log[j].key /\ NextAbout(i, j) => log[i].kind # log[j].kind

\* The state behind the log: a key stands announced exactly when the last
\* event about it is DeviceAdded.
LogTellsAnnounced ==
  \A k \in Keys :
    k \in announced <=>
      \E i \in 1..Len(log) :
         /\ log[i].key = k
         /\ log[i].kind = "added"
         /\ \A m \in (i + 1)..Len(log) : log[m].key # k
=============================================================================
