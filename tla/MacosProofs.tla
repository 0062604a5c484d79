----------------------------- MODULE MacosProofs -----------------------------
(* Proofs about Macos, for any threads, any devices and any of them cameras. *)
EXTENDS Macos, TLAPS

(* Each reference is live just as long as its holder is between the call   *)
(* that takes it and the one that releases it; the device interface, once  *)
(* the thread has a transport, as long as that has a holder.               *)
Scanning(t) == pc[t] \in {"enumerate", "service"}
Opening(t)  == pc[t] \in {"open", "plugin", "device", "interfaces", "interface"}

Carries(t) ==
  /\ Ref(t, "iterator") \in live <=> Scanning(t)
  /\ Ref(t, "service") \in live <=> pc[t] = "service"
  /\ Ref(t, "deviceService") \in live <=> Opening(t)
  /\ Ref(t, "plugin") \in live <=> pc[t] = "plugin"
  /\ Ref(t, "device") \in live <=> pc[t] \in {"device", "interfaces", "interface"} \/ opened[t] # None
  /\ Ref(t, "interfaces") \in live <=> pc[t] \in {"interfaces", "interface"}
  /\ Ref(t, "interface") \in live <=> pc[t] = "interface"

Balanced == ~misused /\ \A t \in Threads : Carries(t)

(* A thread opens one transport, of a camera it has listed; a transport is *)
(* there just as long as somebody holds it, and whoever is in a transfer   *)
(* is one of them and the owner of the Mutex.                              *)
OpensOne == \A t \in Threads : Opening(t) => opened[t] = None /\ at[t] \in Cameras

HeldWhileOpen == \A t \in Threads : opened[t] = None <=> holders[t] = {}

UserHolds ==
  \A u \in Threads : pc[u] = "transfer" =>
     using[u] \in Threads /\ u \in holders[using[u]] /\ lock[using[u]] = u

(* Meanwhile in enumerate(): a camera that stayed is listed, at hand,      *)
(* still to come or could not be read, and whatever is any of the first    *)
(* three was there.                                                        *)
InHand(t) == IF pc[t] = "service" THEN {at[t]} ELSE {}

WalkOf(t) ==
  /\ stayed[t] \subseteq listed[t] \cup left[t] \cup InHand(t) \cup unread[t]
  /\ stayed[t] \subseteq present
  /\ (listed[t] \cup left[t] \cup InHand(t)) \cap Cameras \subseteq seen[t]

Walks == \A t \in Threads : Scanning(t) => WalkOf(t)

Inv == TypeOK /\ Balanced /\ OpensOne /\ HeldWhileOpen /\ UserHolds /\ Walks /\ ListsWhatIsThere

-----------------------------------------------------------------------------
(* References of different threads or kinds are different references.      *)

\* A reference is known by its holder and its kind.
LEMMA RefIs ==
  /\ \A t, u, k, j : Ref(t, k) = Ref(u, j) <=> t = u /\ k = j
  /\ \A t \in Threads, k \in Kinds : Ref(t, k) \in [kind : Kinds, of : Threads]
BY DEF Ref

\* Several of one thread.
LEMMA RefsAre == \A t, u, k, ks : Ref(u, k) \in Refs(t, ks) <=> u = t /\ k \in ks
BY RefIs DEF Refs

\* A step of t: what it leaves t carrying, and that it misuses nothing when t
\* has what it uses and releases and has not what it takes.  The other threads
\* keep theirs.
LEMMA ReferencesOf ==
  ASSUME NEW t \in Threads, NEW uses \in SUBSET Kinds, NEW takes \in SUBSET Kinds,
         NEW releases \in SUBSET Kinds, References(t, uses, takes, releases)
  PROVE  /\ \A u \in Threads, k \in Kinds :
              Ref(u, k) \in live' <=>
                IF u = t THEN (Ref(t, k) \in live \/ k \in takes) /\ k \notin releases
                         ELSE Ref(u, k) \in live
         /\ /\ ~misused
            /\ \A k \in uses \cup releases : Ref(t, k) \in live \/ k \in takes
            /\ \A k \in takes : Ref(t, k) \notin live
            => ~misused'
<1>1. ASSUME NEW u \in Threads, NEW k \in Kinds
      PROVE  Ref(u, k) \in live' <=>
                IF u = t THEN (Ref(t, k) \in live \/ k \in takes) /\ k \notin releases
                         ELSE Ref(u, k) \in live
  BY RefsAre DEF References
<1>2. ASSUME ~misused, \A k \in uses \cup releases : Ref(t, k) \in live \/ k \in takes,
             \A k \in takes : Ref(t, k) \notin live
      PROVE  ~misused'
  <2>1. Refs(t, uses \cup releases) \subseteq live \cup Refs(t, takes)
    BY <1>2 DEF Refs
  <2>2. Refs(t, takes) \cap live = {}
    BY <1>2 DEF Refs
  <2> QED BY <2>1, <2>2, <1>2 DEF References
<1> QED BY <1>1, <1>2

\* An error return of open() that releases all that the thread carries leaves it
\* with nothing.
LEMMA FailsBalanced ==
  ASSUME TypeOK, Balanced, NEW t \in Threads, opened[t] = None, pc[t] # "idle",
         NEW releases \in SUBSET Kinds, NEW uses \in SUBSET releases, Fails(t, uses, releases),
         \A k \in Kinds : Ref(t, k) \in live <=> k \in releases
  PROVE  Balanced'
<1>1. References(t, uses, {}, releases)
  BY DEF Fails
<1>2. ~misused'
  BY <1>1, ReferencesOf DEF Balanced
<1>3. \A k \in Kinds : Ref(t, k) \notin live'
  BY <1>1, ReferencesOf
<1>4. \A u \in Threads \ {t}, k \in Kinds : Ref(u, k) \in live' <=> Ref(u, k) \in live
  BY <1>1, ReferencesOf
<1>5. pc' = [pc EXCEPT ![t] = "idle"] /\ opened' = opened
  BY DEF Fails, Goto
<1>6. Carries(t)'
  BY <1>3, <1>5 DEF Carries, Scanning, Opening, TypeOK, Kinds
<1>7. \A u \in Threads \ {t} : Carries(u)'
  BY <1>4, <1>5 DEF Balanced, Carries, Scanning, Opening, TypeOK, Kinds
<1> QED BY <1>2, <1>6, <1>7 DEF Balanced

\* No step misuses a reference, or loses one.
LEMMA StepBalanced == Inv /\ [Next]_vars => Balanced'
<1> SUFFICES ASSUME Inv, [Next]_vars PROVE Balanced'
  OBVIOUS
<1> USE DEF Inv, TypeOK, Balanced, Carries, Scanning, Opening, Goto, bus, Kinds
<1>1. ASSUME NEW t \in Threads, matching_iter(t) PROVE Balanced'
  <2>1. CASE Goto(t, "enumerate") /\ References(t, {}, {"iterator"}, {})
    BY <2>1, <1>1, ReferencesOf DEF matching_iter
  <2>2. CASE UNCHANGED <<pc, live, misused>>
    BY <2>2, <1>1 DEF matching_iter
  <2> QED BY <1>1, <2>1, <2>2 DEF matching_iter
<1>2. ASSUME NEW t \in Threads, IOIteratorNext(t) PROVE Balanced'
  BY <1>2, ReferencesOf DEF IOIteratorNext
<1>3. ASSUME NEW t \in Threads, device_info_from_service(t) PROVE Balanced'
  BY <1>3, ReferencesOf DEF device_info_from_service, Unreadable
<1>4. ASSUME NEW t \in Threads, EnumerateReturns(t) PROVE Balanced'
  BY <1>4, ReferencesOf DEF EnumerateReturns
<1>5. ASSUME NEW t \in Threads, NEW d \in Ids, lookup_service_by_registry_id(t, d) PROVE Balanced'
  BY <1>5, ReferencesOf DEF lookup_service_by_registry_id
<1>6. ASSUME NEW t \in Threads, CreatePlugin(t) PROVE Balanced'
  <2>1. CASE References(t, {"deviceService"}, {"plugin"}, {}) /\ Goto(t, "plugin") /\ UNCHANGED opened
    BY <2>1, <1>6, ReferencesOf DEF CreatePlugin
  <2>2. CASE Fails(t, {"deviceService"}, {"deviceService"})
    <3>1. opened[t] = None /\ \A k \in Kinds : Ref(t, k) \in live <=> k \in {"deviceService"}
      BY <1>6 DEF OpensOne, CreatePlugin
    <3> QED BY <2>2, <3>1, <1>6, FailsBalanced DEF CreatePlugin
  <2> QED BY <1>6, <2>1, <2>2 DEF CreatePlugin
<1>7. ASSUME NEW t \in Threads, QueryInterface(t) PROVE Balanced'
  <2>1. CASE References(t, {"plugin"}, {"device"}, {"plugin"}) /\ Goto(t, "device") /\ UNCHANGED opened
    BY <2>1, <1>7, ReferencesOf DEF OpensOne, QueryInterface
  <2>2. CASE Fails(t, {"plugin"}, {"plugin", "deviceService"})
    <3>1. /\ opened[t] = None
          /\ \A k \in Kinds : Ref(t, k) \in live <=> k \in {"plugin", "deviceService"}
      BY <1>7 DEF OpensOne, QueryInterface
    <3> QED BY <2>2, <3>1, <1>7, FailsBalanced DEF QueryInterface
  <2> QED BY <1>7, <2>1, <2>2 DEF QueryInterface
<1>8. ASSUME NEW t \in Threads, CreateInterfaceIterator(t) PROVE Balanced'
  <2>1. CASE References(t, {"device"}, {"interfaces"}, {}) /\ Goto(t, "interfaces") /\ UNCHANGED opened
    BY <2>1, <1>8, ReferencesOf DEF OpensOne, CreateInterfaceIterator
  <2>2. CASE Fails(t, {"device"}, {"device", "deviceService"})
    <3>1. /\ opened[t] = None
          /\ \A k \in Kinds : Ref(t, k) \in live <=> k \in {"device", "deviceService"}
      BY <1>8 DEF OpensOne, CreateInterfaceIterator
    <3> QED BY <2>2, <3>1, <1>8, FailsBalanced DEF CreateInterfaceIterator
  <2> QED BY <1>8, <2>1, <2>2 DEF CreateInterfaceIterator
<1>9. ASSUME NEW t \in Threads, FirstInterface(t) PROVE Balanced'
  <2>1. CASE References(t, {"interfaces"}, {"interface"}, {}) /\ Goto(t, "interface") /\ UNCHANGED opened
    BY <2>1, <1>9, ReferencesOf DEF OpensOne, FirstInterface
  <2>2. CASE Fails(t, {"interfaces"}, {"interfaces", "device", "deviceService"})
    <3>1. /\ opened[t] = None
          /\ \A k \in Kinds : Ref(t, k) \in live <=> k \in {"interfaces", "device", "deviceService"}
      BY <1>9 DEF OpensOne, FirstInterface
    <3> QED BY <2>2, <3>1, <1>9, FailsBalanced DEF FirstInterface
  <2> QED BY <1>9, <2>1, <2>2 DEF FirstInterface, NoVideoControl
<1>10. ASSUME NEW t \in Threads, InterfaceNumber(t) PROVE Balanced'
  <2>1. CASE /\ References(t, {"interface"}, {}, {"interface", "interfaces", "deviceService"})
             /\ Goto(t, "idle")
             /\ opened' = [opened EXCEPT ![t] = at[t]]
    <3> DEFINE releases == {"interface", "interfaces", "deviceService"}
    <3>1. References(t, {"interface"}, {}, releases) /\ {"interface"} \subseteq releases
          /\ releases \subseteq Kinds
      BY <2>1
    <3>2. at[t] # None /\ \A k \in releases : Ref(t, k) \in live
      BY <1>10, ConstantsAssumption DEF InterfaceNumber, OpensOne
    <3> HIDE DEF releases, Balanced, Kinds
    <3>3. ~misused'
      BY <3>1, <3>2, ReferencesOf DEF Balanced
    <3>4. \A u \in Threads, k \in Kinds :
             Ref(u, k) \in live' <=> Ref(u, k) \in live /\ ~(u = t /\ k \in releases)
      BY <3>1, ReferencesOf
    <3>5. Carries(t)'
      BY <2>1, <1>10, <3>2, <3>4 DEF releases, Kinds, Balanced, InterfaceNumber
    <3>6. \A u \in Threads \ {t} : Carries(u)'
      BY <2>1, <3>4 DEF Kinds, Balanced
    <3> QED BY <3>3, <3>5, <3>6 DEF Balanced
  <2>2. CASE Fails(t, {"interface"}, {"interface", "interfaces", "device", "deviceService"})
    <3>1. /\ opened[t] = None
          /\ \A k \in Kinds : Ref(t, k) \in live <=> k \in {"interface", "interfaces", "device", "deviceService"}
      BY <1>10 DEF OpensOne, InterfaceNumber
    <3> QED BY <2>2, <3>1, <1>10, FailsBalanced DEF InterfaceNumber
  <2> QED BY <1>10, <2>1, <2>2 DEF InterfaceNumber
<1>11. ASSUME NEW u \in Threads, device_request(u) PROVE Balanced'
  <2>1. using[u] \in Threads /\ opened[using[u]] # None
    BY <1>11 DEF device_request, UserHolds, HeldWhileOpen
  <2>2. References(using[u], {"device"}, {}, {}) /\ Goto(u, "idle") /\ pc[u] = "transfer" /\ UNCHANGED opened
    BY <1>11 DEF device_request
  <2>3. ~misused' /\ \A v \in Threads, k \in Kinds : Ref(v, k) \in live' <=> Ref(v, k) \in live
    BY <2>1, <2>2, ReferencesOf
  <2> QED BY <2>2, <2>3
<1>12. ASSUME NEW t \in Threads, NEW u \in Threads, Clone(t, u) PROVE Balanced'
  BY <1>12 DEF Clone
<1>13. ASSUME NEW t \in Threads, NEW u \in Threads, Lock(u, t) PROVE Balanced'
  BY <1>13 DEF Lock
<1>14. ASSUME NEW t \in Threads, NEW u \in Threads, DropTransport(u, t) PROVE Balanced'
  <2>1. CASE /\ References(t, {}, {}, {"device"})
             /\ opened' = [opened EXCEPT ![t] = None]
             /\ UNCHANGED pc
    <3>1. opened[t] # None /\ ~Opening(t)
      BY <1>14 DEF DropTransport, OpensOne, HeldWhileOpen
    <3> QED BY <2>1, <3>1, ReferencesOf
  <2>2. CASE UNCHANGED <<live, misused, opened, pc>>
    BY <2>2
  <2> QED BY <1>14, <2>1, <2>2 DEF DropTransport
<1>15. ASSUME NEW d \in Ids, Plug(d) \/ Unplug(d) PROVE Balanced'
  BY <1>15 DEF Plug, Unplug
<1>16. CASE UNCHANGED vars
  BY <1>16 DEF vars
<1> QED
  BY <1>1, <1>2, <1>3, <1>4, <1>5, <1>6, <1>7, <1>8, <1>9, <1>10, <1>11, <1>12, <1>13, <1>14,
     <1>15, <1>16 DEF Next, enumerate, open

\* No step gives a thread a second transport, or one of another device.
LEMMA StepOpensOne == Inv /\ [Next]_vars => (OpensOne /\ HeldWhileOpen)'
<1> SUFFICES ASSUME Inv, [Next]_vars PROVE (OpensOne /\ HeldWhileOpen)'
  OBVIOUS
<1> USE DEF Inv, TypeOK, OpensOne, HeldWhileOpen, Opening, Goto, bus
<1>1. ASSUME NEW t \in Threads, matching_iter(t) PROVE (OpensOne /\ HeldWhileOpen)'
  BY <1>1 DEF matching_iter
<1>2. ASSUME NEW t \in Threads, IOIteratorNext(t) PROVE (OpensOne /\ HeldWhileOpen)'
  BY <1>2 DEF IOIteratorNext
<1>3. ASSUME NEW t \in Threads, device_info_from_service(t) PROVE (OpensOne /\ HeldWhileOpen)'
  BY <1>3 DEF device_info_from_service, Unreadable
<1>4. ASSUME NEW t \in Threads, EnumerateReturns(t) PROVE (OpensOne /\ HeldWhileOpen)'
  BY <1>4 DEF EnumerateReturns
<1>5. ASSUME NEW t \in Threads, NEW d \in Ids, lookup_service_by_registry_id(t, d)
      PROVE  (OpensOne /\ HeldWhileOpen)'
  BY <1>5 DEF lookup_service_by_registry_id
<1>6. ASSUME NEW t \in Threads, CreatePlugin(t) PROVE (OpensOne /\ HeldWhileOpen)'
  BY <1>6 DEF CreatePlugin, Fails
<1>7. ASSUME NEW t \in Threads, QueryInterface(t) PROVE (OpensOne /\ HeldWhileOpen)'
  BY <1>7 DEF QueryInterface, Fails
<1>8. ASSUME NEW t \in Threads, CreateInterfaceIterator(t) PROVE (OpensOne /\ HeldWhileOpen)'
  BY <1>8 DEF CreateInterfaceIterator, Fails
<1>9. ASSUME NEW t \in Threads, FirstInterface(t) PROVE (OpensOne /\ HeldWhileOpen)'
  BY <1>9 DEF FirstInterface, NoVideoControl, Fails
<1>10. ASSUME NEW t \in Threads, InterfaceNumber(t) PROVE (OpensOne /\ HeldWhileOpen)'
  <2>1. at[t] # None /\ pc' = [pc EXCEPT ![t] = "idle"]
    BY <1>10, ConstantsAssumption DEF InterfaceNumber, Fails
  <2>2. CASE opened' = [opened EXCEPT ![t] = at[t]] /\ holders' = [holders EXCEPT ![t] = {t}]
    BY <1>10, <2>1, <2>2 DEF InterfaceNumber
  <2>3. CASE UNCHANGED <<opened, holders>>
    BY <1>10, <2>1, <2>3 DEF InterfaceNumber
  <2> QED BY <1>10, <2>2, <2>3 DEF InterfaceNumber, Fails
<1>11. ASSUME NEW u \in Threads, device_request(u) PROVE (OpensOne /\ HeldWhileOpen)'
  BY <1>11 DEF device_request
<1>12. ASSUME NEW t \in Threads, NEW u \in Threads, Clone(t, u) PROVE (OpensOne /\ HeldWhileOpen)'
  BY <1>12 DEF Clone
<1>13. ASSUME NEW t \in Threads, NEW u \in Threads, Lock(u, t) PROVE (OpensOne /\ HeldWhileOpen)'
  BY <1>13 DEF Lock
<1>14. ASSUME NEW t \in Threads, NEW u \in Threads, DropTransport(u, t)
       PROVE  (OpensOne /\ HeldWhileOpen)'
  BY <1>14 DEF DropTransport
<1>15. ASSUME NEW d \in Ids, Plug(d) \/ Unplug(d) PROVE (OpensOne /\ HeldWhileOpen)'
  BY <1>15 DEF Plug, Unplug
<1>16. CASE UNCHANGED vars
  BY <1>16 DEF vars
<1> QED
  BY <1>1, <1>2, <1>3, <1>4, <1>5, <1>6, <1>7, <1>8, <1>9, <1>10, <1>11, <1>12, <1>13, <1>14,
     <1>15, <1>16 DEF Next, enumerate, open

\* No step takes the transport, or its Mutex, from a thread in a transfer.
LEMMA StepUserHolds == Inv /\ [Next]_vars => UserHolds'
<1> SUFFICES ASSUME Inv, [Next]_vars PROVE UserHolds'
  OBVIOUS
<1> USE DEF Inv, TypeOK, UserHolds, Goto, bus
<1>1. ASSUME NEW t \in Threads, matching_iter(t) PROVE UserHolds'
  BY <1>1 DEF matching_iter
<1>2. ASSUME NEW t \in Threads, IOIteratorNext(t) PROVE UserHolds'
  BY <1>2 DEF IOIteratorNext
<1>3. ASSUME NEW t \in Threads, device_info_from_service(t) PROVE UserHolds'
  BY <1>3 DEF device_info_from_service, Unreadable
<1>4. ASSUME NEW t \in Threads, EnumerateReturns(t) PROVE UserHolds'
  BY <1>4 DEF EnumerateReturns
<1>5. ASSUME NEW t \in Threads, NEW d \in Ids, lookup_service_by_registry_id(t, d) PROVE UserHolds'
  BY <1>5 DEF lookup_service_by_registry_id
<1>6. ASSUME NEW t \in Threads, CreatePlugin(t) PROVE UserHolds'
  BY <1>6 DEF CreatePlugin, Fails
<1>7. ASSUME NEW t \in Threads, QueryInterface(t) PROVE UserHolds'
  BY <1>7 DEF QueryInterface, Fails
<1>8. ASSUME NEW t \in Threads, CreateInterfaceIterator(t) PROVE UserHolds'
  BY <1>8 DEF CreateInterfaceIterator, Fails
<1>9. ASSUME NEW t \in Threads, FirstInterface(t) PROVE UserHolds'
  BY <1>9 DEF FirstInterface, NoVideoControl, Fails
<1>10. ASSUME NEW t \in Threads, InterfaceNumber(t) PROVE UserHolds'
  <2>1. \A u \in Threads : pc[u] = "transfer" => using[u] # t
    BY <1>10 DEF InterfaceNumber, OpensOne, HeldWhileOpen, Opening
  <2> QED BY <1>10, <2>1 DEF InterfaceNumber, Fails
<1>11. ASSUME NEW u \in Threads, device_request(u) PROVE UserHolds'
  BY <1>11 DEF device_request
<1>12. ASSUME NEW t \in Threads, NEW u \in Threads, Clone(t, u) PROVE UserHolds'
  BY <1>12 DEF Clone
<1>13. ASSUME NEW t \in Threads, NEW u \in Threads, Lock(u, t) PROVE UserHolds'
  BY <1>13, ConstantsAssumption DEF Lock
<1>14. ASSUME NEW t \in Threads, NEW u \in Threads, DropTransport(u, t) PROVE UserHolds'
  BY <1>14 DEF DropTransport
<1>15. ASSUME NEW d \in Ids, Plug(d) \/ Unplug(d) PROVE UserHolds'
  BY <1>15 DEF Plug, Unplug
<1>16. CASE UNCHANGED vars
  BY <1>16 DEF vars
<1> QED
  BY <1>1, <1>2, <1>3, <1>4, <1>5, <1>6, <1>7, <1>8, <1>9, <1>10, <1>11, <1>12, <1>13, <1>14,
     <1>15, <1>16 DEF Next, enumerate, open

\* What happens in the middle of an enumeration is accounted for.
LEMMA StepWalks == Inv /\ [Next]_vars => (Walks /\ ListsWhatIsThere)'
<1> SUFFICES ASSUME Inv, [Next]_vars PROVE (Walks /\ ListsWhatIsThere)'
  OBVIOUS
<1> USE DEF Inv, TypeOK, Walks, WalkOf, InHand, ListsWhatIsThere, Scanning, Goto, bus
<1>1. ASSUME NEW t \in Threads, matching_iter(t) PROVE (Walks /\ ListsWhatIsThere)'
  BY <1>1 DEF matching_iter
<1>2. ASSUME NEW t \in Threads, IOIteratorNext(t) PROVE (Walks /\ ListsWhatIsThere)'
  BY <1>2 DEF IOIteratorNext
<1>3. ASSUME NEW t \in Threads, device_info_from_service(t) PROVE (Walks /\ ListsWhatIsThere)'
  <2>1. /\ pc' = [pc EXCEPT ![t] = "enumerate"] /\ pc[t] = "service"
        /\ UNCHANGED <<left, at, present, stayed, seen>>
    BY <1>3 DEF device_info_from_service, Unreadable
  <2>2. \/ /\ listed' = [listed EXCEPT ![t] = @ \cup ({at[t]} \cap Cameras)] /\ at[t] \in Cameras
           /\ unread' = unread
        \/ listed' = listed /\ unread' = [unread EXCEPT ![t] = @ \cup ({at[t]} \cap Cameras)]
    BY <1>3 DEF device_info_from_service, Unreadable, ListedAs
  <2>3. WalkOf(t)'
    BY <2>1, <2>2
  <2>4. \A u \in Threads \ {t} : listed'[u] = listed[u] /\ unread'[u] = unread[u] /\ pc'[u] = pc[u]
    BY <2>1, <2>2
  <2> QED BY <2>1, <2>3, <2>4
<1>4. ASSUME NEW t \in Threads, EnumerateReturns(t) PROVE (Walks /\ ListsWhatIsThere)'
  BY <1>4 DEF EnumerateReturns
<1>5. ASSUME NEW t \in Threads, NEW d \in Ids, lookup_service_by_registry_id(t, d)
      PROVE  (Walks /\ ListsWhatIsThere)'
  BY <1>5 DEF lookup_service_by_registry_id
<1>6. ASSUME NEW t \in Threads, CreatePlugin(t) PROVE (Walks /\ ListsWhatIsThere)'
  BY <1>6 DEF CreatePlugin, Fails
<1>7. ASSUME NEW t \in Threads, QueryInterface(t) PROVE (Walks /\ ListsWhatIsThere)'
  BY <1>7 DEF QueryInterface, Fails
<1>8. ASSUME NEW t \in Threads, CreateInterfaceIterator(t) PROVE (Walks /\ ListsWhatIsThere)'
  BY <1>8 DEF CreateInterfaceIterator, Fails
<1>9. ASSUME NEW t \in Threads, FirstInterface(t) PROVE (Walks /\ ListsWhatIsThere)'
  BY <1>9 DEF FirstInterface, NoVideoControl, Fails
<1>10. ASSUME NEW t \in Threads, InterfaceNumber(t) PROVE (Walks /\ ListsWhatIsThere)'
  BY <1>10 DEF InterfaceNumber, Fails
<1>11. ASSUME NEW u \in Threads, device_request(u) PROVE (Walks /\ ListsWhatIsThere)'
  BY <1>11 DEF device_request
<1>12. ASSUME NEW t \in Threads, NEW u \in Threads, Clone(t, u) PROVE (Walks /\ ListsWhatIsThere)'
  BY <1>12 DEF Clone
<1>13. ASSUME NEW t \in Threads, NEW u \in Threads, Lock(u, t) PROVE (Walks /\ ListsWhatIsThere)'
  BY <1>13 DEF Lock
<1>14. ASSUME NEW t \in Threads, NEW u \in Threads, DropTransport(u, t)
       PROVE  (Walks /\ ListsWhatIsThere)'
  BY <1>14 DEF DropTransport
<1>15. ASSUME NEW d \in Ids, Plug(d) \/ Unplug(d) PROVE (Walks /\ ListsWhatIsThere)'
  BY <1>15 DEF Plug, Unplug
<1>16. CASE UNCHANGED vars
  BY <1>16 DEF vars
<1> QED
  BY <1>1, <1>2, <1>3, <1>4, <1>5, <1>6, <1>7, <1>8, <1>9, <1>10, <1>11, <1>12, <1>13, <1>14,
     <1>15, <1>16 DEF Next, enumerate, open

\* References are of the kinds there are.
LEMMA ReferencesType ==
  ASSUME TypeOK, NEW t \in Threads, NEW uses, NEW takes \in SUBSET Kinds, NEW releases,
         References(t, uses, takes, releases)
  PROVE  live' \subseteq [kind : Kinds, of : Threads] /\ misused' \in BOOLEAN
<1>1. Refs(t, takes) \subseteq [kind : Kinds, of : Threads]
  BY RefIs DEF Refs
<1> QED BY <1>1 DEF References, TypeOK

\* Every variable keeps its type.
LEMMA StepType == Inv /\ [Next]_vars => TypeOK'
<1> SUFFICES ASSUME Inv, [Next]_vars PROVE TypeOK'
  OBVIOUS
<1> USE ConstantsAssumption DEF ConstantsAssumption, Inv, TypeOK, Goto, Places, Kinds, bus
<1>1. ASSUME NEW t \in Threads, matching_iter(t) PROVE TypeOK'
  <2>1. live' \subseteq [kind : Kinds, of : Threads] /\ misused' \in BOOLEAN
    BY <1>1, ReferencesType DEF matching_iter
  <2> QED BY <1>1, <2>1 DEF matching_iter
<1>2. ASSUME NEW t \in Threads, IOIteratorNext(t) PROVE TypeOK'
  <2>1. live' \subseteq [kind : Kinds, of : Threads] /\ misused' \in BOOLEAN
    BY <1>2, ReferencesType DEF IOIteratorNext
  <2> QED BY <1>2, <2>1 DEF IOIteratorNext
<1>3. ASSUME NEW t \in Threads, device_info_from_service(t) PROVE TypeOK'
  <2>1. live' \subseteq [kind : Kinds, of : Threads] /\ misused' \in BOOLEAN
    BY <1>3, ReferencesType DEF device_info_from_service, Unreadable
  <2>2. listed' \in [Threads -> SUBSET Cameras] /\ unread' \in [Threads -> SUBSET Cameras]
    BY <1>3 DEF device_info_from_service, Unreadable, ListedAs
  <2> QED BY <1>3, <2>1, <2>2 DEF device_info_from_service, Unreadable
<1>4. ASSUME NEW t \in Threads, EnumerateReturns(t) PROVE TypeOK'
  BY <1>4, ReferencesType DEF EnumerateReturns
<1>5. ASSUME NEW t \in Threads, NEW d \in Ids, lookup_service_by_registry_id(t, d) PROVE TypeOK'
  BY <1>5, ReferencesType DEF lookup_service_by_registry_id
<1>6. ASSUME NEW t \in Threads, CreatePlugin(t) PROVE TypeOK'
  <2>1. live' \subseteq [kind : Kinds, of : Threads] /\ misused' \in BOOLEAN
    BY <1>6, ReferencesType DEF CreatePlugin, Fails
  <2> QED BY <1>6, <2>1 DEF CreatePlugin, Fails
<1>7. ASSUME NEW t \in Threads, QueryInterface(t) PROVE TypeOK'
  <2>1. live' \subseteq [kind : Kinds, of : Threads] /\ misused' \in BOOLEAN
    BY <1>7, ReferencesType DEF QueryInterface, Fails
  <2> QED BY <1>7, <2>1 DEF QueryInterface, Fails
<1>8. ASSUME NEW t \in Threads, CreateInterfaceIterator(t) PROVE TypeOK'
  <2>1. live' \subseteq [kind : Kinds, of : Threads] /\ misused' \in BOOLEAN
    BY <1>8, ReferencesType DEF CreateInterfaceIterator, Fails
  <2> QED BY <1>8, <2>1 DEF CreateInterfaceIterator, Fails
<1>9. ASSUME NEW t \in Threads, FirstInterface(t) PROVE TypeOK'
  <2>1. live' \subseteq [kind : Kinds, of : Threads] /\ misused' \in BOOLEAN
    BY <1>9, ReferencesType DEF FirstInterface, NoVideoControl, Fails
  <2> QED BY <1>9, <2>1 DEF FirstInterface, NoVideoControl, Fails
<1>10. ASSUME NEW t \in Threads, InterfaceNumber(t) PROVE TypeOK'
  <2>1. live' \subseteq [kind : Kinds, of : Threads] /\ misused' \in BOOLEAN
    BY <1>10, ReferencesType DEF InterfaceNumber, Fails
  <2> QED BY <1>10, <2>1 DEF InterfaceNumber, Fails, OpensOne, Opening
<1>11. ASSUME NEW u \in Threads, device_request(u) PROVE TypeOK'
  BY <1>11, ReferencesType DEF device_request, UserHolds
<1>12. ASSUME NEW t \in Threads, NEW u \in Threads, Clone(t, u) PROVE TypeOK'
  BY <1>12 DEF Clone
<1>13. ASSUME NEW t \in Threads, NEW u \in Threads, Lock(u, t) PROVE TypeOK'
  BY <1>13 DEF Lock
<1>14. ASSUME NEW t \in Threads, NEW u \in Threads, DropTransport(u, t) PROVE TypeOK'
  BY <1>14, ReferencesType DEF DropTransport
<1>15. ASSUME NEW d \in Ids, Plug(d) \/ Unplug(d) PROVE TypeOK'
  BY <1>15 DEF Plug, Unplug
<1>16. CASE UNCHANGED vars
  BY <1>16 DEF vars
<1> QED
  BY <1>1, <1>2, <1>3, <1>4, <1>5, <1>6, <1>7, <1>8, <1>9, <1>10, <1>11, <1>12, <1>13, <1>14,
     <1>15, <1>16 DEF Next, enumerate, open

-----------------------------------------------------------------------------
\* In the beginning nothing is held, and nothing goes on.
LEMMA InitInv == Init => Inv
<1> SUFFICES ASSUME Init PROVE Inv
  OBVIOUS
<1>1. TypeOK
  BY DEF Init, TypeOK, Places
<1>2. Balanced
  BY DEF Init, Balanced, Carries, Scanning, Opening
<1>3. OpensOne /\ HeldWhileOpen /\ UserHolds
  BY DEF Init, OpensOne, HeldWhileOpen, UserHolds, Opening
<1>4. Walks /\ ListsWhatIsThere
  BY DEF Init, Walks, ListsWhatIsThere, Scanning
<1> QED BY <1>1, <1>2, <1>3, <1>4 DEF Inv

\* The invariant is inductive.
LEMMA InvHolds == Spec => []Inv
<1>1. Inv /\ [Next]_vars => Inv'
  BY StepType, StepBalanced, StepOpensOne, StepUserHolds, StepWalks DEF Inv
<1> QED BY InitInv, <1>1, PTL DEF Spec

\* Type correctness of the transport and of IOKit's side of it.
THEOREM TypeCorrect == Spec => []TypeOK
<1>1. Inv => TypeOK
  BY DEF Inv
<1> QED BY <1>1, InvHolds, PTL

\* Whatever return it takes and whatever IOKit fails at, a thread uses and releases
\* only references it holds, and is left with none but the device interface of its
\* transport, as long as that has a holder.
THEOREM Balance == Spec => []ReferencesBalanced
<1>1. Inv => ReferencesBalanced
  <2> SUFFICES ASSUME Inv, NEW t \in Threads, pc[t] \in {"idle", "transfer"}
               PROVE  {r \in live : r.of = t} = IF opened[t] = None THEN {} ELSE {Ref(t, "device")}
    BY DEF Inv, Balanced, ReferencesBalanced
  <2>1. \A r \in live : r.kind \in Kinds /\ r = Ref(r.of, r.kind)
    BY DEF Inv, TypeOK, Ref
  <2>2. \A k \in Kinds : Ref(t, k) \in live <=> k = "device" /\ opened[t] # None
    BY DEF Inv, Balanced, Carries, Scanning, Opening, Kinds
  <2>3. \A r \in live : r.of = t => r = Ref(t, "device") /\ opened[t] # None
    BY <2>1, <2>2
  <2>4. opened[t] # None => Ref(t, "device") \in live /\ Ref(t, "device").of = t
    BY <2>2 DEF Ref, Kinds
  <2> QED BY <2>3, <2>4
<1> QED BY <1>1, InvHolds, PTL

\* However services come and vanish under the iterator and whatever reads fail, the
\* cameras that were there throughout enumerate() and could be read are in its list,
\* and none that was never there.
THEOREM Listing == Spec => []ListsWhatIsThere
<1>1. Inv => ListsWhatIsThere
  BY DEF Inv
<1> QED BY <1>1, InvHolds, PTL
=============================================================================
