------------------------------- MODULE OpenPath -------------------------------
(***************************************************************************)
(* From an enumeration to an opened camera, on Linux: Devices::list,       *)
(* by_serial and open (discovery.rs), UsbTransport::open (usb.rs) and      *)
(* open_for (uvcvideo.rs).  A DeviceInfo names a camera by its USB         *)
(* address; it may be old when it is opened.  open_for walks the video     *)
(* nodes, keeps those of that address, sorts their names and opens the     *)
(* first by name; learn_mac is the first to speak to what was opened.      *)
(* Nothing ties one step to the next: the bus may change between any two,  *)
(* and the kernel hands out addresses and node names again.                *)
(*                                                                         *)
(* One caller: list and open share no state with other callers.  The bus   *)
(* is external; webcams of other makers are on it, too.                    *)
(***************************************************************************)
EXTENDS Naturals, FiniteSets

CONSTANTS
  Cameras,     \* the OBSBOT cameras
  Others,      \* webcams of other makers
  Addresses,   \* USB addresses: busnum:devnum
  Names,       \* the n of the nodes /dev/video<n>
  NoDevice, NoAddress,
  MaxNodes,    \* bound: nodes of one device
  MaxChanges,  \* bound: plugs and unplugs
  MaxFaults    \* bound: failed reads of a walk

ASSUME ConstantsAssumption ==
  /\ Cameras \cap Others = {}
  /\ NoDevice \notin Cameras \cup Others
  /\ NoAddress \notin Addresses
  /\ Names \subseteq 0..99
  /\ MaxNodes \in Nat \ {0}
  /\ MaxChanges \in Nat
  /\ MaxFaults \in Nat

Devices == Cameras \cup Others

VARIABLES
  where,     \* external: the address of each device
  owner,     \* external: the device each node belongs to
  changes,   \* plugs and unplugs so far
  pc,        \* "idle" or the step of list and open that comes next
  unread,    \* the nodes the walk has still to visit
  found,     \* the last list: the addresses of the cameras in it
  info,      \* the DeviceInfo to open: its address
  matches,   \* open_for: the nodes of info's address
  node,      \* the node that open_for chose
  handle,    \* the open file: the device behind it, NoDevice once that is gone
  device,    \* the Device that open returned: what its transport leads to
  result,    \* of the last open
  faults,    \* failed reads of this walk
  still,     \* history: has the bus been at rest since open began?
  there,     \* history: the devices seen at info's address since open began
  heirs,     \* history: the devices given the name of a node in `matches` since
  gap        \* history: was the address free at some moment since?

busVars == <<where, owner, changes>>
walk    == <<unread, faults>>
history == <<still, there, heirs, gap>>
vars    == <<busVars, pc, walk, found, info, matches, node, handle, device, result, history>>

-----------------------------------------------------------------------------
(* OsString order of "video<n>", n below 100: by the first digit, then the *)
(* shorter name, then the second digit.                                    *)
Lexical(n) == IF n < 10 THEN 11 * n ELSE 11 * (n \div 10) + 1 + (n % 10)

\* Mutant of IsFirst: the matches are not sorted.
IsAnyMatch(n, S) == n \in S

IsFirst(n, S) == n \in S /\ \A m \in S : Lexical(n) <= Lexical(m)

NodesOf(d) == {n \in Names : owner[n] = d}
At(a)      == {d \in Devices : where[d] = a}

\* Between the call of open and its open(2) of the node.
Searching  == pc \in {"match", "open"}

\* Mutant of Matches: busnum and devnum are not compared.
MatchesAnyAddress(n, a) == owner[n] # NoDevice

Matches(n, a) == owner[n] # NoDevice /\ where[owner[n]] = a

TypeOK ==
  /\ where \in [Devices -> Addresses \cup {NoAddress}]
  /\ owner \in [Names -> Devices \cup {NoDevice}]
  /\ changes \in 0..MaxChanges
  /\ pc \in {"idle", "list", "match", "open", "learn_mac"}
  /\ unread \in SUBSET Names
  /\ found \in SUBSET Addresses
  /\ info \in Addresses \cup {NoAddress}
  /\ Searching => info # NoAddress
  /\ matches \in SUBSET Names
  /\ node \in Names \cup {100}
  /\ pc \in {"open", "learn_mac"} => node \in matches
  /\ handle \in Devices \cup {NoDevice}
  /\ device \in Devices \cup {NoDevice}
  /\ result \in {"none", "ok", "NotFound", "Usb", "BadResponse"}
  /\ faults \in 0..MaxFaults
  /\ there \in SUBSET Devices /\ heirs \in SUBSET Devices
  /\ still \in BOOLEAN /\ gap \in BOOLEAN

-----------------------------------------------------------------------------
(* External: the bus.  A device that appears gets an address and nodes     *)
(* that are free; one that goes leaves both to the next.                   *)

Plug(d, a, ns) ==
  /\ changes < MaxChanges
  /\ where[d] = NoAddress
  /\ At(a) = {}
  /\ ns # {} /\ Cardinality(ns) <= MaxNodes
  /\ \A n \in ns : owner[n] = NoDevice
  /\ where' = [where EXCEPT ![d] = a]
  /\ owner' = [n \in Names |-> IF n \in ns THEN d ELSE owner[n]]
  /\ changes' = changes + 1
  /\ still' = FALSE
  /\ there' = IF Searching /\ a = info THEN there \cup {d} ELSE there
  /\ heirs' = IF Searching /\ ns \cap matches # {} THEN heirs \cup {d} ELSE heirs
  /\ UNCHANGED <<pc, walk, found, info, matches, node, handle, device, result, gap>>

Unplug(d) ==
  /\ changes < MaxChanges
  /\ where[d] # NoAddress
  /\ where' = [where EXCEPT ![d] = NoAddress]
  /\ owner' = [n \in Names |-> IF owner[n] = d THEN NoDevice ELSE owner[n]]
  /\ changes' = changes + 1
  /\ handle' = IF handle = d THEN NoDevice ELSE handle
  /\ still' = FALSE
  /\ gap' = (gap \/ where[d] = info)
  /\ UNCHANGED <<pc, walk, found, info, matches, node, device, result, there, heirs>>

-----------------------------------------------------------------------------
(* list: linux::enumerate.                                                 *)

\* What an earlier open returned lives on by itself.
Forget ==
  /\ matches' = {}
  /\ node' = 100
  /\ handle' = NoDevice
  /\ device' = NoDevice
  /\ result' = "none"

ListBegin ==
  /\ pc = "idle"
  /\ pc' = "list"
  /\ unread' = Names
  /\ faults' = 0
  /\ found' = {}
  /\ info' = NoAddress
  /\ Forget
  /\ there' = {}
  /\ heirs' = {}
  /\ UNCHANGED <<busVars, still, gap>>

\* The attributes of a node that has a device are read and, if it is a Meet 2
\* at an address not seen before, entered; all that open reads of an entry is its
\* address.
ListNode(n) ==
  /\ pc = "list"
  /\ n \in unread
  /\ unread' = unread \ {n}
  /\ found' = IF owner[n] \in Cameras THEN found \cup {where[owner[n]]} ELSE found
  /\ UNCHANGED <<busVars, pc, faults, info, matches, node, handle, device, result, history>>

\* The walk is over; or the directory could not be read and the list is empty.
ListEnd ==
  /\ pc = "list"
  /\ unread \in {{}, Names}
  /\ pc' = "idle"
  /\ UNCHANGED <<busVars, walk, found, info, matches, node, handle, device, result, history>>

\* Either walk: what cannot be read is passed over.
NodeFails(n) ==
  /\ pc \in {"list", "match"}
  /\ n \in unread
  /\ faults < MaxFaults
  /\ unread' = unread \ {n}
  /\ faults' = faults + 1
  /\ UNCHANGED <<busVars, pc, found, info, matches, node, handle, device, result, history>>

-----------------------------------------------------------------------------
(* open                                                                    *)

\* open of an info of the last list: the caller's choice, the first of
\* by_serial, or any (obsbot_devices_open_first; the list has no order).
OpenBegin(a) ==
  /\ pc = "idle"
  /\ a \in found
  /\ pc' = "match"
  /\ info' = a
  /\ unread' = Names
  /\ faults' = 0
  /\ Forget
  /\ still' = TRUE
  /\ there' = At(a)
  /\ heirs' = {}
  /\ gap' = (At(a) = {})
  /\ UNCHANGED <<busVars, found>>

Fail(r) ==
  /\ pc' = "idle"
  /\ result' = r
  /\ handle' = NoDevice
  /\ UNCHANGED <<busVars, walk, found, info, matches, node, device, history>>

\* busnum and devnum of the device behind the node are those of the info.
MatchNode(n) ==
  /\ pc = "match"
  /\ n \in unread
  /\ unread' = unread \ {n}
  /\ matches' = IF Matches(n, info) THEN matches \cup {n} ELSE matches
  /\ UNCHANGED <<busVars, pc, faults, found, info, node, handle, device, result, history>>

\* read_dir or one of its entries fails.
ReadDirFails == pc = "match" /\ Fail("Usb")

\* Mutant of NotFound: the walk gives up at a node of another device.
NotFoundTooSoon ==
  /\ pc = "match"
  /\ matches = {}
  /\ Fail("NotFound")

NotFound ==
  /\ pc = "match"
  /\ unread = {}
  /\ matches = {}
  /\ Fail("NotFound")

\* Mutant of SortAndTake: the chosen name is not kept.
TakeByIndex(n) ==
  /\ pc = "match"
  /\ unread = {}
  /\ IsFirst(n, matches)
  /\ pc' = "open"
  /\ UNCHANGED <<busVars, walk, found, info, matches, node, handle, device, result, history>>

SortAndTake(n) ==
  /\ pc = "match"
  /\ unread = {}
  /\ IsFirst(n, matches)
  /\ pc' = "open"
  /\ node' = n
  /\ UNCHANGED <<busVars, walk, found, info, matches, handle, device, result, history>>

\* open(2) of /dev/<name>, whatever that is by now.
OpenNode ==
  /\ pc = "open"
  /\ owner[node] # NoDevice
  /\ pc' = "learn_mac"
  /\ handle' = owner[node]
  /\ UNCHANGED <<busVars, walk, found, info, matches, node, device, result, history>>

OpenNodeFails == pc = "open" /\ Fail("Usb")

\* The MAC query over the open file, then Device::new.  Assumed of the devices:
\* only an OBSBOT camera that is still there answers the query.
LearnMac ==
  /\ pc = "learn_mac"
  /\ handle \in Cameras
  /\ pc' = "idle"
  /\ device' = handle
  /\ result' = "ok"
  /\ UNCHANGED <<busVars, walk, found, info, matches, node, handle, history>>

LearnMacFails == pc = "learn_mac" /\ \E r \in {"Usb", "BadResponse"} : Fail(r)

-----------------------------------------------------------------------------
Init ==
  /\ where \in [Devices -> Addresses \cup {NoAddress}]
  /\ \A d, e \in Devices : d # e /\ where[d] # NoAddress => where[d] # where[e]
  /\ owner \in [Names -> {d \in Devices : where[d] # NoAddress} \cup {NoDevice}]
  /\ \A d \in Devices : /\ Cardinality(NodesOf(d)) <= MaxNodes
                        /\ where[d] # NoAddress => NodesOf(d) # {}
  /\ changes = 0
  /\ pc = "idle"
  /\ unread = {} /\ faults = 0
  /\ found = {}
  /\ info = NoAddress
  /\ matches = {} /\ node = 100
  /\ handle = NoDevice /\ device = NoDevice /\ result = "none"
  /\ still = TRUE /\ there = {} /\ heirs = {} /\ gap = FALSE

Next ==
  \/ \E d \in Devices : Unplug(d) \/ \E a \in Addresses, ns \in SUBSET Names : Plug(d, a, ns)
  \/ \E n \in Names : ListNode(n) \/ NodeFails(n) \/ MatchNode(n) \/ SortAndTake(n)
  \/ \E a \in Addresses : OpenBegin(a)
  \/ ListBegin \/ ListEnd \/ ReadDirFails \/ NotFound \/ OpenNode \/ OpenNodeFails
  \/ LearnMac \/ LearnMacFails

Spec == Init /\ [][Next]_vars

-----------------------------------------------------------------------------
(* Properties *)

\* However old the info, whoever has its address by now and whatever the bus
\* does meanwhile, what open returns had that address at some moment of the call,
\* or was given during it the name of a node that had been found at that address.
OpensWhoIsThere == device # NoDevice => device \in there \cup heirs

\* NotFound is the truth: every attribute was readable only if the address was
\* free at some moment of the walk.
NotFoundIsTrue == result = "NotFound" => gap \/ faults > 0

\* On a bus at rest open takes the same node of a camera each time, in whatever
\* order the directory is read.
SameNodeEachTime ==
  device # NoDevice /\ still /\ faults = 0 =>
    /\ node \in NodesOf(device)
    /\ \A m \in NodesOf(device) : Lexical(node) <= Lexical(m)
=============================================================================
