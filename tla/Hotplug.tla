------------------------------- MODULE Hotplug -------------------------------
(***************************************************************************)
(* The hot-plug watcher of libobsbot-core (discovery.rs): the thread that  *)
(* Devices::new spawns, that enumerates the cameras of the host every two  *)
(* seconds, compares the result with the previous one and sends DeviceAdded*)
(* and DeviceRemoved, until Drop raises the stop flag and joins it.        *)
(*                                                                         *)
(* The enumeration is not atomic: it walks the video nodes one by one      *)
(* while cameras come and go, so every node visit is a step of its own,    *)
(* and a read may fail.  The host's USB bus is external: cameras are       *)
(* plugged into and pulled from addresses at any moment.                   *)
(***************************************************************************)
EXTENDS Naturals, Sequences, FiniteSets

CONSTANTS
  Cameras,       \* the physical cameras
  Addresses,     \* USB addresses: busnum:devnum
  Nodes,         \* the video nodes one camera has (macOS: one service each)
  Serials,       \* the serial strings
  EmptySerial,   \* the serial "" of a camera without iSerial
  Serial,        \* [Cameras -> Serials], the serial a camera reports
  NoCamera,      \* a free address
  Absent,        \* a key that is not in a HashMap
  ByAddress,     \* device_key on Linux (TRUE) or on the other hosts (FALSE)
  ReuseAddress,  \* may the host hand out an address twice?
  Faults,        \* which reads may fail: "dir", "node", "serial"
  PollChunks,    \* sleep chunks in one poll interval (20 in the code)
  MaxChanges,    \* bound: plugs and unplugs
  MaxFaults      \* bound: failed reads

ASSUME ConstantsAssumption ==
  /\ NoCamera \notin Cameras
  /\ Nodes # {}
  /\ EmptySerial \in Serials
  /\ Absent \notin Serials
  /\ Serial \in [Cameras -> Serials]
  /\ ByAddress \in BOOLEAN
  /\ ReuseAddress \in BOOLEAN
  /\ Faults \subseteq {"dir", "node", "serial"}
  /\ PollChunks \in Nat \ {0}
  /\ MaxChanges \in Nat
  /\ MaxFaults \in Nat

VARIABLES
  bus,       \* external: the camera at each address
  used,      \* external: the addresses handed out so far
  stop,      \* Devices.stop
  owner,     \* the thread that holds Devices: "alive", "joining", "dropped"
  pc,        \* where the watcher is in hotplug_loop
  known,     \* the HashMap `known`: key -> serial
  current,   \* the HashMap `current`: key -> serial
  unread,    \* the nodes this enumeration has not visited yet
  pending,   \* the keys the running for-loop has still to report
  slept,     \* chunks slept
  log,       \* every event sent, in order
  sighted,   \* history: what each address held at some moment of this scan
  readings,  \* history: what could be read as each key's serial since the walk
             \* began that announced it, or the last one did
  changes,   \* plugs and unplugs so far
  faults     \* failed reads so far

busVars   == <<bus, used, changes>>
ownerVars == <<stop, owner>>
vars == <<bus, used, stop, owner, pc, known, current, unread, pending, slept,
          log, sighted, readings, changes, faults>>

-----------------------------------------------------------------------------
(* Linux compares bus and device number; elsewhere vendor, product (one    *)
(* product: the Meet 2) and serial.                                        *)
Keys == IF ByAddress THEN Addresses ELSE Serials

device_key(a, s) == IF ByAddress THEN a ELSE s

Empty == [k \in Keys |-> Absent]
KeysOf(map) == {k \in Keys : map[k] # Absent}

Added(k, s)   == [kind |-> "added",   key |-> k, serial |-> s]
Removed(k, s) == [kind |-> "removed", key |-> k, serial |-> s]
Event == [kind : {"added", "removed"}, key : Keys, serial : Serials]

OnBus == {a \in Addresses : bus[a] # NoCamera}
Occupancy(b) == {<<a, b[a]>> : a \in Addresses}

\* The serials that the cameras on the bus have under a key.
SerialsOf(k) == {Serial[bus[a]] : a \in {b \in OnBus : device_key(b, Serial[bus[b]]) = k}}

TypeOK ==
  /\ bus \in [Addresses -> Cameras \cup {NoCamera}]
  /\ used \in SUBSET Addresses
  /\ stop \in BOOLEAN
  /\ owner \in {"alive", "joining", "dropped"}
  /\ pc \in {"test", "scan", "add", "remove", "sleep", "exited"}
  /\ known \in [Keys -> Serials \cup {Absent}]
  /\ current \in [Keys -> Serials \cup {Absent}]
  /\ unread \in SUBSET (Addresses \X Nodes)
  /\ pending \in SUBSET Keys
  /\ slept \in 0..PollChunks
  /\ log \in Seq(Event)
  /\ sighted \in SUBSET (Addresses \X (Cameras \cup {NoCamera}))
  /\ readings \in [Keys -> SUBSET Serials]
  /\ changes \in 0..MaxChanges
  /\ faults \in 0..MaxFaults

-----------------------------------------------------------------------------
(* External: the host's bus.  Each change is recorded as sighted.          *)

Plug(c, a) ==
  /\ changes < MaxChanges
  /\ bus[a] = NoCamera
  /\ \A b \in Addresses : bus[b] # c
  /\ a \in used => ReuseAddress
  /\ bus' = [bus EXCEPT ![a] = c]
  /\ used' = used \cup {a}
  /\ sighted' = sighted \cup {<<a, c>>}
  /\ readings' = [readings EXCEPT ![device_key(a, Serial[c])] = @ \cup {Serial[c]}]
  /\ changes' = changes + 1
  /\ UNCHANGED <<ownerVars, pc, known, current, unread, pending, slept, log, faults>>

Unplug(a) ==
  /\ changes < MaxChanges
  /\ bus[a] # NoCamera
  /\ bus' = [bus EXCEPT ![a] = NoCamera]
  /\ sighted' = sighted \cup {<<a, NoCamera>>}
  /\ changes' = changes + 1
  /\ UNCHANGED <<used, ownerVars, pc, known, current, unread, pending, slept, log, readings, faults>>

-----------------------------------------------------------------------------
(* The owner: Drop for Devices raises stop, then joins the watcher.        *)

\* Mutant of DropBegin: Drop joins without raising stop.
DropWithoutStop ==
  /\ owner = "alive"
  /\ owner' = "joining"
  /\ UNCHANGED <<busVars, stop, pc, known, current, unread, pending, slept, log, sighted, readings, faults>>

DropBegin ==
  /\ owner = "alive"
  /\ stop' = TRUE
  /\ owner' = "joining"
  /\ UNCHANGED <<busVars, pc, known, current, unread, pending, slept, log, sighted, readings, faults>>

\* Mutant of DropReturn: Drop does not wait for the watcher.
DropWithoutJoin ==
  /\ owner = "joining"
  /\ owner' = "dropped"
  /\ UNCHANGED <<busVars, stop, pc, known, current, unread, pending, slept, log, sighted, readings, faults>>

DropReturn ==
  /\ owner = "joining"
  /\ pc = "exited"
  /\ owner' = "dropped"
  /\ UNCHANGED <<busVars, stop, pc, known, current, unread, pending, slept, log, sighted, readings, faults>>

-----------------------------------------------------------------------------
(* The watcher: hotplug_loop.  A send cannot fail, because Devices itself  *)
(* holds a receiver until after the join; its early return is not here.    *)

LoopExit ==   \* while !stop: the flag is up
  /\ pc = "test"
  /\ stop
  /\ pc' = "exited"
  /\ UNCHANGED <<busVars, ownerVars, known, current, unread, pending, slept, log, sighted, readings, faults>>

\* History: what is on the bus when a walk begins; of a key that stands
\* announced, besides what was read of it or could be since then.
SightingsBegin ==
  /\ sighted' = Occupancy(bus)
  /\ readings' = [k \in Keys |-> IF known[k] # Absent THEN readings[k] ELSE SerialsOf(k)]

\* Mutant of ScanBegin: the map of the previous scan is not emptied.
ScanKeepsCurrent ==
  /\ pc = "test"
  /\ ~stop
  /\ pc' = "scan"
  /\ unread' = Addresses \X Nodes
  /\ SightingsBegin
  /\ UNCHANGED <<busVars, ownerVars, known, current, pending, slept, log, faults>>

ScanBegin ==  \* while !stop: start to enumerate
  /\ pc = "test"
  /\ ~stop
  /\ pc' = "scan"
  /\ current' = Empty
  /\ unread' = Addresses \X Nodes
  /\ SightingsBegin
  /\ UNCHANGED <<busVars, ownerVars, known, pending, slept, log, faults>>

\* A failed read: the directory (nothing is found) or the attributes of one
\* node (it is passed over).
Fault(kind) ==
  /\ kind \in Faults
  /\ faults < MaxFaults
  /\ faults' = faults + 1

ReadDirFails ==
  /\ pc = "scan"
  /\ unread = Addresses \X Nodes
  /\ Fault("dir")
  /\ unread' = {}
  /\ UNCHANGED <<busVars, ownerVars, pc, known, current, pending, slept, log, sighted, readings>>

NodeFails(n) ==
  /\ pc = "scan"
  /\ n \in unread
  /\ bus[n[1]] # NoCamera
  /\ Fault("node")
  /\ unread' = unread \ {n}
  /\ UNCHANGED <<busVars, ownerVars, pc, known, current, pending, slept, log, sighted, readings>>

\* by_dev.entry(..).or_insert(..): the first node of a device decides.
OrInsert(map, k, s) == IF map[k] = Absent THEN [map EXCEPT ![k] = s] ELSE map

\* One node: nothing is there, or its device is recorded under its key.  The
\* serial is read last and defaults to "" when that read alone fails.
VisitNode(n) ==
  LET a == n[1]
      c == bus[a] IN
  /\ pc = "scan"
  /\ n \in unread
  /\ unread' = unread \ {n}
  /\ \/ /\ c = NoCamera
        /\ UNCHANGED <<current, readings, faults>>
     \/ /\ c # NoCamera
        /\ current' = OrInsert(current, device_key(a, Serial[c]), Serial[c])
        /\ UNCHANGED <<readings, faults>>
     \/ /\ c # NoCamera
        /\ Fault("serial")
        /\ current' = OrInsert(current, device_key(a, EmptySerial), EmptySerial)
        /\ readings' = [readings EXCEPT ![device_key(a, EmptySerial)] = @ \cup {EmptySerial}]
  /\ UNCHANGED <<busVars, ownerVars, pc, known, pending, slept, log, sighted>>

\* Mutant of ScanEnd: the walk breaks off where it should continue.
ScanStopsEarly ==
  /\ pc = "scan"
  /\ pc' = "add"
  /\ pending' = KeysOf(current) \ KeysOf(known)
  /\ UNCHANGED <<busVars, ownerVars, known, current, unread, slept, log, sighted, readings, faults>>

ScanEnd ==    \* the for-loop over `current` reports the keys `known` lacks
  /\ pc = "scan"
  /\ unread = {}
  /\ pc' = "add"
  /\ pending' = KeysOf(current) \ KeysOf(known)
  /\ UNCHANGED <<busVars, ownerVars, known, current, unread, slept, log, sighted, readings, faults>>

SendAdded(k) ==
  /\ pc = "add"
  /\ k \in pending
  /\ pending' = pending \ {k}
  /\ log' = Append(log, Added(k, current[k]))
  /\ UNCHANGED <<busVars, ownerVars, pc, known, current, unread, slept, sighted, readings, faults>>

AddedDone ==  \* the for-loop over `known` reports the keys `current` lacks
  /\ pc = "add"
  /\ pending = {}
  /\ pc' = "remove"
  /\ pending' = KeysOf(known) \ KeysOf(current)
  /\ UNCHANGED <<busVars, ownerVars, known, current, unread, slept, log, sighted, readings, faults>>

\* Mutant of SendRemoved: the removal is sent without the serial.
SendRemovedBare(k) ==
  /\ pc = "remove"
  /\ k \in pending
  /\ pending' = pending \ {k}
  /\ log' = Append(log, Removed(k, EmptySerial))
  /\ UNCHANGED <<busVars, ownerVars, pc, known, current, unread, slept, sighted, readings, faults>>

SendRemoved(k) ==
  /\ pc = "remove"
  /\ k \in pending
  /\ pending' = pending \ {k}
  /\ log' = Append(log, Removed(k, known[k]))
  /\ UNCHANGED <<busVars, ownerVars, pc, known, current, unread, slept, sighted, readings, faults>>

\* Mutant of RemovedDone: known = current is missing.
KnownNotReplaced ==
  /\ pc = "remove"
  /\ pending = {}
  /\ pc' = "sleep"
  /\ slept' = 0
  /\ UNCHANGED <<busVars, ownerVars, known, current, unread, pending, log, sighted, readings, faults>>

RemovedDone == \* known = current
  /\ pc = "remove"
  /\ pending = {}
  /\ pc' = "sleep"
  /\ known' = current
  /\ slept' = 0
  /\ UNCHANGED <<busVars, ownerVars, current, unread, pending, log, sighted, readings, faults>>

\* Mutant of SleepChunk: one chunk of sleep too many.
SleepChunkTooMany ==
  /\ pc = "sleep"
  /\ slept <= PollChunks
  /\ IF stop THEN /\ pc' = "exited"
                  /\ UNCHANGED slept
             ELSE /\ slept' = slept + 1
                  /\ UNCHANGED pc
  /\ UNCHANGED <<busVars, ownerVars, known, current, unread, pending, log, sighted, readings, faults>>

SleepChunk == \* stop is looked at before every chunk
  /\ pc = "sleep"
  /\ slept < PollChunks
  /\ IF stop THEN /\ pc' = "exited"
                  /\ UNCHANGED slept
             ELSE /\ slept' = slept + 1
                  /\ UNCHANGED pc
  /\ UNCHANGED <<busVars, ownerVars, known, current, unread, pending, log, sighted, readings, faults>>

SleepDone ==
  /\ pc = "sleep"
  /\ slept = PollChunks
  /\ pc' = "test"
  /\ UNCHANGED <<busVars, ownerVars, known, current, unread, pending, slept, log, sighted, readings, faults>>

-----------------------------------------------------------------------------
Init ==
  /\ bus \in [Addresses -> Cameras \cup {NoCamera}]
  /\ \A a, b \in Addresses : bus[a] = bus[b] /\ bus[a] # NoCamera => a = b
  /\ used = OnBus
  /\ stop = FALSE
  /\ owner = "alive"
  /\ pc = "test"
  /\ known = Empty
  /\ current = Empty
  /\ unread = {}
  /\ pending = {}
  /\ slept = 0
  /\ log = <<>>
  /\ sighted = Occupancy(bus)
  /\ readings = [k \in Keys |-> SerialsOf(k)]
  /\ changes = 0
  /\ faults = 0

Watcher ==
  \/ LoopExit \/ ScanBegin \/ ReadDirFails \/ ScanEnd
  \/ AddedDone \/ RemovedDone \/ SleepChunk \/ SleepDone
  \/ \E n \in Addresses \X Nodes : VisitNode(n) \/ NodeFails(n)
  \/ \E k \in Keys : SendAdded(k) \/ SendRemoved(k)

Bus == \/ \E c \in Cameras, a \in Addresses : Plug(c, a)
       \/ \E a \in Addresses : Unplug(a)

Next == Watcher \/ Bus \/ DropBegin \/ DropReturn

Spec == Init /\ [][Next]_vars

(* The watcher thread is scheduled; Drop, once begun, returns from its     *)
(* join.  Nothing makes the owner drop Devices, nor the bus change.        *)
FairSpec == Spec /\ WF_vars(Watcher) /\ WF_vars(DropReturn)

-----------------------------------------------------------------------------
(* Properties *)

(* The keys that stand announced, read off the watcher's own state.        *)
Announced ==
  CASE pc = "add"    -> KeysOf(known) \cup (KeysOf(current) \ pending)
    [] pc = "remove" -> KeysOf(current) \cup pending
    [] OTHER         -> KeysOf(known)

P == INSTANCE Presence WITH announced <- Announced

\* The watcher implements the abstract promise of Presence: whatever the bus
\* and the reads do, every event it sends announces a key that did not stand
\* or withdraws one that did (hotplug_loop's two diff loops).
ImplementsPresence == P!Spec

\* Additions and removals of a key alternate in the channel.
EventsAlternate == P!EventsAlternate

(* A DeviceAdded is never invented: while this enumeration ran, a camera    *)
(* with that key was on the bus, and the event carries that camera's serial *)
(* or, if the serial could not be read, none.                               *)
AddedWasPresent ==
  [][\A k \in Keys : SendAdded(k) =>
       \E o \in sighted :
          /\ o[2] # NoCamera
          /\ log'[Len(log')].serial \in {Serial[o[2]], EmptySerial}
          /\ device_key(o[1], log'[Len(log')].serial) = k]_vars

(* A DeviceRemoved is never premature: as long as no read has failed, no    *)
(* address was held for the whole enumeration by a camera with that key.    *)
RemovedWasAbsent ==
  [][\A k \in Keys : SendRemoved(k) /\ faults = 0 =>
       \A a \in Addresses : \E o \in sighted :
          /\ o[1] = a
          /\ o[2] # NoCamera => device_key(a, Serial[o[2]]) # k]_vars

\* No event is made up by a walk that is not a snapshot: what is added was there
\* during the walk, and what is removed was not there all through it.
EventsAreReal == AddedWasPresent /\ RemovedWasAbsent

\* The i-th event is the last one about k so far.
LastAbout(k, i) == log[i].key = k /\ \A m \in (i + 1)..Len(log) : log[m].key # k

\* A subscriber sees no keys and pairs a removal with an addition by their
\* serials.  Both are serials that a camera under that key had, between the
\* beginning of the walk that announced it and the removal, or none if one of
\* these could not be read then: so they are the same unless, in that time, the
\* address was given to a camera with another serial or such a read failed
\* (known = current replaces the serial that was announced).
PairsNameWhoWasThere ==
  [][\A k \in Keys : SendRemoved(k) =>
       /\ log'[Len(log')].serial \in readings[k]
       /\ \A i \in 1..Len(log) : LastAbout(k, i) => log[i].serial \in readings[k]]_vars

\* Nothing is sent once Drop has returned: the join really waits.
NothingAfterDrop == [][owner = "dropped" => log' = log]_vars

\* Drop for Devices returns: from wherever the stop flag finds it, the watcher
\* thread comes to a check of the flag and exits, and the join ends.
DropReturns == owner = "joining" ~> owner = "dropped"

(* What the subscribers ought to be told for the bus as it is.             *)
BusKeys == {device_key(a, Serial[bus[a]]) : a \in OnBus}

\* When the bus has come to rest, the announcements come to agree with it and
\* stay so, unless Devices is dropped first: a change between two scans, in
\* the middle of one, or one hidden by a failed read is caught up with.
Converges == <>[](stop \/ Announced = BusKeys)

\* The doc comment of hotplug_loop: one DeviceAdded per device present at
\* startup.  After the first comparison of a bus that has not changed and was
\* read without failure, there is one event for each camera.
OneAddedPerDeviceAtStartup ==
  pc = "sleep" /\ changes = 0 /\ faults = 0 => Len(log) = Cardinality(OnBus)
=============================================================================
