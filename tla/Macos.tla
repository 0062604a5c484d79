-------------------------------- MODULE Macos --------------------------------
(***************************************************************************)
(* The macOS transport (transport/macos.rs): what threads do with the      *)
(* references IOKit hands out, while they list the cameras, open one, use  *)
(* it together and drop it, and while devices come and go.  A reference is *)
(* released by a Drop at the end of a scope or by hand; every early return *)
(* leaves some of them behind for that.                                    *)
(*                                                                         *)
(* IOKit is external: a set of devices, each with a registry id that no    *)
(* other ever gets.  Any call of it that can report failure may fail; the  *)
(* iterator is over the services there when it was made.  The CF objects   *)
(* of read_property are created, read and released by one function each    *)
(* and are left out; so are the bytes of a transfer (ControlValues).       *)
(***************************************************************************)
EXTENDS Naturals, FiniteSets

CONSTANTS
  Threads,    \* the watcher, the callers and the pollers
  Ids,        \* the registry ids there will ever be
  Cameras,    \* those of a Meet 2
  None        \* no id, no thread

ASSUME ConstantsAssumption == Cameras \subseteq Ids /\ None \notin Ids \cup Threads

VARIABLES
  present,    \* external: the devices in the registry
  fresh,      \* external: the ids not given out yet
  pc,         \* where each thread is
  left,       \* the services its iterator has yet to return
  at,         \* the device it has at hand
  listed,     \* the cameras the last enumerate() gave it
  opened,     \* the device of the transport it opened, None without one
  holders,    \* the threads that hold that transport's Arc
  lock,       \* the owner of that transport's Mutex
  using,      \* the thread whose transport it is in a transfer of
  live,       \* the references that have been taken and not released
  misused,    \* history: was one used or released that was not live, or lost?
  stayed,     \* history: the cameras that were there all along since enumerate() began
  seen,       \* history: those that were there at some time since
  unread      \* history: those of which a property or the id could not be read since

bus     == <<present, fresh, stayed, seen, unread>>
vars    == <<bus, pc, left, at, listed, opened, holders, lock, using, live, misused>>

Places == {"idle", "enumerate", "service", "open", "plugin", "device", "interfaces", "interface",
           "transfer"}
Kinds  == {"iterator", "service", "deviceService", "plugin", "device", "interfaces", "interface"}
Ref(t, k) == [kind |-> k, of |-> t]
Refs(t, ks) == {Ref(t, k) : k \in ks}

\* A step that uses some references of t, takes some and then releases some.
References(t, uses, takes, releases) ==
  LET held == live \cup Refs(t, takes)
  IN /\ live' = held \ Refs(t, releases)
     /\ misused' = (misused \/ ~(Refs(t, uses \cup releases) \subseteq held) \/ Refs(t, takes) \cap live # {})

Goto(t, place) == pc' = [pc EXCEPT ![t] = place]

-----------------------------------------------------------------------------
(* enumerate().                                                            *)

\* IOServiceMatching, IOServiceGetMatchingServices.  Without an iterator the
\* list is empty.
matching_iter(t) ==
  /\ pc[t] = "idle"
  /\ \/ /\ Goto(t, "enumerate")
        /\ left' = [left EXCEPT ![t] = present]
        /\ References(t, {}, {"iterator"}, {})
        /\ stayed' = [stayed EXCEPT ![t] = present \cap Cameras]
        /\ seen' = [seen EXCEPT ![t] = present \cap Cameras]
     \/ /\ stayed' = [stayed EXCEPT ![t] = {}]
        /\ seen' = [seen EXCEPT ![t] = {}]
        /\ UNCHANGED <<pc, left, live, misused>>
  /\ listed' = [listed EXCEPT ![t] = {}]
  /\ unread' = [unread EXCEPT ![t] = {}]
  /\ UNCHANGED <<present, fresh, at, opened, holders, lock, using>>

IOIteratorNext(t) ==
  /\ pc[t] = "enumerate"
  /\ left[t] # {}
  /\ \E d \in left[t] : /\ at' = [at EXCEPT ![t] = d]
                        /\ left' = [left EXCEPT ![t] = @ \ {d}]
  /\ References(t, {"iterator"}, {"service"}, {})
  /\ Goto(t, "service")
  /\ UNCHANGED <<bus, listed, opened, holders, lock, using>>

\* Mutant of Unreadable: the list ends at a service that is no camera.
EndOfTheList(t) ==
  /\ References(t, {"service"}, {}, {"service", "iterator"})
  /\ Goto(t, "idle")
  /\ UNCHANGED listed

Unreadable(t) ==
  /\ References(t, {"service"}, {}, {"service"})
  /\ Goto(t, "enumerate")
  /\ UNCHANGED listed

\* Mutant of ListedAs: every device of the bus is taken for a camera.
AnyDevice(t) == {at[t]}

ListedAs(t) == {at[t]} \cap Cameras

\* A service that is no Meet 2 is passed over, and so is a camera, there or gone,
\* of which the vendor, the product or the registry id cannot be read.  The
\* service is released with the turn of the loop.
device_info_from_service(t) ==
  /\ pc[t] = "service"
  /\ \/ /\ ListedAs(t) # {}
        /\ listed' = [listed EXCEPT ![t] = @ \cup ListedAs(t)]
        /\ References(t, {"service"}, {}, {"service"})
        /\ Goto(t, "enumerate")
        /\ UNCHANGED unread
     \/ /\ unread' = [unread EXCEPT ![t] = @ \cup ({at[t]} \cap Cameras)]
        /\ Unreadable(t)
  /\ UNCHANGED <<present, fresh, stayed, seen, left, at, opened, holders, lock, using>>

\* The iterator goes with the function.
EnumerateReturns(t) ==
  /\ pc[t] = "enumerate"
  /\ left[t] = {}
  /\ References(t, {"iterator"}, {}, {"iterator"})
  /\ Goto(t, "idle")
  /\ UNCHANGED <<bus, left, at, listed, opened, holders, lock, using>>

-----------------------------------------------------------------------------
(* MacosTransport::open.  The service of the device is held to the end of  *)
(* it, whichever way it ends.                                              *)

\* Of a camera that was listed; NotFound when it is gone.
lookup_service_by_registry_id(t, d) ==
  /\ pc[t] = "idle"
  /\ opened[t] = None
  /\ d \in listed[t] \cap present
  /\ at' = [at EXCEPT ![t] = d]
  /\ References(t, {}, {"deviceService"}, {})
  /\ Goto(t, "open")
  /\ UNCHANGED <<bus, left, listed, opened, holders, lock, using>>

\* An error return, after what the function at hand still holds was released.
Fails(t, uses, releases) ==
  /\ References(t, uses, {}, releases)
  /\ Goto(t, "idle")
  /\ UNCHANGED <<opened, holders>>

\* IOCreatePlugInInterfaceForService
CreatePlugin(t) ==
  /\ pc[t] = "open"
  /\ \/ /\ References(t, {"deviceService"}, {"plugin"}, {})
        /\ Goto(t, "plugin")
        /\ UNCHANGED <<opened, holders>>
     \/ Fails(t, {"deviceService"}, {"deviceService"})
  /\ UNCHANGED <<bus, left, at, listed, lock, using>>

\* The plugin is released whether or not it has the device interface.
QueryInterface(t) ==
  /\ pc[t] = "plugin"
  /\ \/ /\ References(t, {"plugin"}, {"device"}, {"plugin"})
        /\ Goto(t, "device")
        /\ UNCHANGED <<opened, holders>>
     \/ Fails(t, {"plugin"}, {"plugin", "deviceService"})
  /\ UNCHANGED <<bus, left, at, listed, lock, using>>

CreateInterfaceIterator(t) ==
  /\ pc[t] = "device"
  /\ \/ /\ References(t, {"device"}, {"interfaces"}, {})
        /\ Goto(t, "interfaces")
        /\ UNCHANGED <<opened, holders>>
     \/ Fails(t, {"device"}, {"device", "deviceService"})
  /\ UNCHANGED <<bus, left, at, listed, lock, using>>

\* Mutant of NoVideoControl: the device interface is not released by hand.
DeviceForgotten(t) == Fails(t, {"interfaces"}, {"interfaces", "deviceService"})

NoVideoControl(t) == Fails(t, {"interfaces"}, {"interfaces", "device", "deviceService"})

\* The first interface of the iterator.
FirstInterface(t) ==
  /\ pc[t] = "interfaces"
  /\ \/ /\ References(t, {"interfaces"}, {"interface"}, {})
        /\ Goto(t, "interface")
        /\ UNCHANGED <<opened, holders>>
     \/ NoVideoControl(t)
  /\ UNCHANGED <<bus, left, at, listed, lock, using>>

\* bInterfaceNumber.  The device interface is the transport's from here on.
InterfaceNumber(t) ==
  /\ pc[t] = "interface"
  /\ \/ /\ References(t, {"interface"}, {}, {"interface", "interfaces", "deviceService"})
        /\ opened' = [opened EXCEPT ![t] = at[t]]
        /\ holders' = [holders EXCEPT ![t] = {t}]
        /\ Goto(t, "idle")
     \/ Fails(t, {"interface"},
              {"interface", "interfaces", "device", "deviceService"})
  /\ UNCHANGED <<bus, left, at, listed, lock, using>>

-----------------------------------------------------------------------------
(* The transport, in an Arc.                                               *)

\* A clone of the Arc, as a poller gets one.
Clone(t, u) ==
  /\ pc[t] = "idle"
  /\ t \in holders[t]
  /\ holders' = [holders EXCEPT ![t] = @ \cup {u}]
  /\ UNCHANGED <<bus, pc, left, at, listed, opened, lock, using, live, misused>>

\* uvc_set, uvc_get: the Mutex, then the request.
Lock(u, t) ==
  /\ pc[u] = "idle"
  /\ u \in holders[t]
  /\ lock[t] = None
  /\ lock' = [lock EXCEPT ![t] = u]
  /\ using' = [using EXCEPT ![u] = t]
  /\ Goto(u, "transfer")
  /\ UNCHANGED <<bus, left, at, listed, opened, holders, live, misused>>

\* It succeeds or not; of a device that is gone it fails.
device_request(u) ==
  /\ pc[u] = "transfer"
  /\ References(using[u], {"device"}, {}, {})
  /\ lock' = [lock EXCEPT ![using[u]] = None]
  /\ using' = [using EXCEPT ![u] = None]
  /\ Goto(u, "idle")
  /\ UNCHANGED <<bus, left, at, listed, opened, holders>>

\* The last of the Arcs takes the device interface with it.
DropTransport(u, t) ==
  /\ pc[u] = "idle"
  /\ u \in holders[t]
  /\ holders' = [holders EXCEPT ![t] = @ \ {u}]
  /\ IF holders[t] = {u}
     THEN /\ References(t, {}, {}, {"device"})
          /\ opened' = [opened EXCEPT ![t] = None]
     ELSE UNCHANGED <<live, misused, opened>>
  /\ UNCHANGED <<bus, pc, left, at, listed, lock, using>>

-----------------------------------------------------------------------------
(* External: devices come and go.                                          *)

Plug(d) ==
  /\ d \in fresh
  /\ present' = present \cup {d}
  /\ fresh' = fresh \ {d}
  /\ seen' = [t \in Threads |-> IF pc[t] \in {"enumerate", "service"}
                                THEN seen[t] \cup ({d} \cap Cameras)
                                ELSE seen[t]]
  /\ UNCHANGED <<stayed, unread, pc, left, at, listed, opened, holders, lock, using, live, misused>>

Unplug(d) ==
  /\ d \in present
  /\ present' = present \ {d}
  /\ stayed' = [t \in Threads |-> IF pc[t] \in {"enumerate", "service"} THEN stayed[t] \ {d} ELSE stayed[t]]
  /\ UNCHANGED <<fresh, seen, unread, pc, left, at, listed, opened, holders, lock, using, live, misused>>

-----------------------------------------------------------------------------
Init ==
  /\ present = {}
  /\ fresh = Ids
  /\ pc = [t \in Threads |-> "idle"]
  /\ left = [t \in Threads |-> {}]
  /\ at = [t \in Threads |-> None]
  /\ listed = [t \in Threads |-> {}]
  /\ opened = [t \in Threads |-> None]
  /\ holders = [t \in Threads |-> {}]
  /\ lock = [t \in Threads |-> None]
  /\ using = [t \in Threads |-> None]
  /\ live = {}
  /\ misused = FALSE
  /\ stayed = [t \in Threads |-> {}]
  /\ seen = [t \in Threads |-> {}]
  /\ unread = [t \in Threads |-> {}]

enumerate(t) ==
  matching_iter(t) \/ IOIteratorNext(t) \/ device_info_from_service(t) \/ EnumerateReturns(t)

open(t) ==
  \/ \E d \in Ids : lookup_service_by_registry_id(t, d)
  \/ CreatePlugin(t) \/ QueryInterface(t)
  \/ CreateInterfaceIterator(t) \/ FirstInterface(t) \/ InterfaceNumber(t)

Next ==
  \/ \E t \in Threads : enumerate(t) \/ open(t) \/ device_request(t)
  \/ \E t, u \in Threads : Clone(t, u) \/ Lock(u, t) \/ DropTransport(u, t)
  \/ \E d \in Ids : Plug(d) \/ Unplug(d)

Spec == Init /\ [][Next]_vars

-----------------------------------------------------------------------------
TypeOK ==
  /\ present \subseteq Ids
  /\ fresh \subseteq Ids \ present
  /\ pc \in [Threads -> Places]
  /\ left \in [Threads -> SUBSET Ids]
  /\ at \in [Threads -> Ids \cup {None}]
  /\ listed \in [Threads -> SUBSET Cameras]
  /\ opened \in [Threads -> Cameras \cup {None}]
  /\ holders \in [Threads -> SUBSET Threads]
  /\ lock \in [Threads -> Threads \cup {None}]
  /\ using \in [Threads -> Threads \cup {None}]
  /\ live \subseteq [kind : Kinds, of : Threads]
  /\ misused \in BOOLEAN
  /\ stayed \in [Threads -> SUBSET Cameras]
  /\ seen \in [Threads -> SUBSET Cameras]
  /\ unread \in [Threads -> SUBSET Cameras]

(* No reference is used or released that is not held, none is taken over   *)
(* one still held, and a thread that is back from enumerate() or open(),   *)
(* by whichever return, holds none but the device interface of the         *)
(* transport it opened; that one as long as any thread holds the transport.*)
ReferencesBalanced ==
  /\ ~misused
  /\ \A t \in Threads :
       pc[t] \in {"idle", "transfer"} =>
         {r \in live : r.of = t} = IF opened[t] = None THEN {} ELSE {Ref(t, "device")}

(* What enumerate() returns, if it could ask at all, are the cameras that  *)
(* were there from its beginning to its end, and none that was never there *)
(* meanwhile, though services vanish under the iterator.  A read that      *)
(* fails costs the list the camera it was about and no other one.          *)
ListsWhatIsThere ==
  \A t \in Threads :
    pc[t] \notin {"enumerate", "service"} =>
      stayed[t] \ unread[t] \subseteq listed[t] /\ listed[t] \subseteq seen[t]
=============================================================================
