---------------------------- MODULE HotplugProofs ----------------------------
(* Proofs about Hotplug, for every set of cameras, addresses, nodes and     *)
(* serials, both device keys, every bound and every kind of failed read.    *)
EXTENDS Hotplug, TLAPS

(* Presence itself, for any sets of keys and serials: nothing here looks   *)
(* into Announced, or at any other variable of the watcher.                *)

\* The log only ever holds events, the announced keys are keys.
LEMMA PresenceType == P!Spec => []P!TypeOK
<1>1. P!Init => P!TypeOK
  BY DEF P!Init, P!TypeOK
<1>2. P!TypeOK /\ [P!Next]_(P!vars) => P!TypeOK'
  <2> SUFFICES ASSUME P!TypeOK, [P!Next]_(P!vars) PROVE P!TypeOK'
    OBVIOUS
  <2>1. ASSUME NEW k \in Keys, NEW s \in Serials, P!Announce(k, s) PROVE P!TypeOK'
    <3>1. P!Added(k, s) \in P!Event
      BY DEF P!Added, P!Event
    <3> QED BY <2>1, <3>1 DEF P!TypeOK, P!Announce
  <2>2. ASSUME NEW k \in Keys, NEW s \in Serials, P!Retract(k, s) PROVE P!TypeOK'
    <3>1. P!Removed(k, s) \in P!Event
      BY DEF P!Removed, P!Event
    <3> QED BY <2>2, <3>1 DEF P!TypeOK, P!Retract
  <2>3. CASE UNCHANGED P!vars
    BY <2>3 DEF P!vars, P!TypeOK
  <2> QED BY <2>1, <2>2, <2>3 DEF P!Next
<1> QED BY <1>1, <1>2, PTL DEF P!Spec

(* What is inductive: the log and the set of announced keys agree.         *)
LogInv == P!TypeOK /\ P!LogTellsAnnounced /\ P!EventsAlternate

\* Appending an event about k that differs in kind from the last one about k
\* (or is an addition, when there is none) keeps the alternation.
LEMMA AppendAlternates ==
  ASSUME log \in Seq(P!Event), NEW e \in P!Event, log' = Append(log, e),
         P!EventsAlternate,
         P!NextAbout(0, Len(log))' => e.kind = "added",
         \A i \in 1..Len(log) :
            log[i].key = e.key /\ (\A m \in (i + 1)..Len(log) : log[m].key # e.key)
              => log[i].kind # e.kind
  PROVE  P!EventsAlternate'
<1> DEFINE n == Len(log)
<1>1. Len(log') = n + 1 /\ n \in Nat /\ log'[n + 1] = e
  OBVIOUS
<1>2. \A i \in 1..n : log'[i] = log[i]
  OBVIOUS
<1>3. ASSUME NEW i \in 0..n, NEW j \in 1..n PROVE P!NextAbout(i, j)' <=> P!NextAbout(i, j)
  <2>1. log'[j] = log[j] /\ \A m \in (i + 1)..(j - 1) : log'[m] = log[m]
    BY <1>1, <1>2
  <2> QED BY <2>1 DEF P!NextAbout
<1>4. ASSUME NEW j \in 1..Len(log')
      PROVE  /\ P!NextAbout(0, j)' => log'[j].kind = "added"
             /\ \A i \in 1..(j - 1) :
                  log'[i].key = log'[j].key /\ P!NextAbout(i, j)' => log'[i].kind # log'[j].kind
  <2>1. CASE j \in 1..n
    BY <2>1, <1>1, <1>2, <1>3 DEF P!EventsAlternate
  <2>2. CASE j = n + 1
    <3>1. P!NextAbout(0, j)' => log'[j].kind = "added"
      BY <2>2, <1>1
    <3>2. ASSUME NEW i \in 1..(j - 1), log'[i].key = log'[j].key, P!NextAbout(i, j)'
          PROVE  log'[i].kind # log'[j].kind
      <4>1. i \in 1..n /\ log[i].key = e.key
        BY <3>2, <2>2, <1>1, <1>2
      <4>2. \A m \in (i + 1)..n : log[m].key # e.key
        BY <3>2, <2>2, <1>1, <1>2 DEF P!NextAbout
      <4> QED BY <4>1, <4>2, <2>2, <1>1, <1>2
    <3> QED BY <3>1, <3>2
  <2> QED BY <2>1, <2>2, <1>1
<1> QED BY <1>4 DEF P!EventsAlternate

\* What a log says about a key after one more event: the event itself, for the
\* event's key, and what it said before, for every other key.
LEMMA AppendTells ==
  ASSUME log \in Seq(P!Event), NEW e \in P!Event, log' = Append(log, e),
         P!LogTellsAnnounced,
         Announced' = IF e.kind = "added" THEN Announced \cup {e.key}
                                          ELSE Announced \ {e.key}
  PROVE  P!LogTellsAnnounced'
<1> DEFINE n == Len(log)
           Last(l, i, k) == /\ l[i].key = k
                            /\ l[i].kind = "added"
                            /\ \A m \in (i + 1)..Len(l) : l[m].key # k
<1>1. Len(log') = n + 1 /\ n \in Nat /\ log'[n + 1] = e
  OBVIOUS
<1>2. \A i \in 1..n : log'[i] = log[i]
  OBVIOUS
<1>3. ASSUME NEW k \in Keys
      PROVE  k \in Announced' <=> \E i \in 1..Len(log') : Last(log', i, k)
  <2>1. k \in Announced <=> \E i \in 1..n : Last(log, i, k)
    BY DEF P!LogTellsAnnounced
  <2>2. CASE k = e.key
    <3>1. \A i \in 1..n : ~Last(log', i, k)
      BY <2>2, <1>1
    <3>2. Last(log', n + 1, k) <=> e.kind = "added"
      BY <2>2, <1>1
    <3>3. (\E i \in 1..Len(log') : Last(log', i, k)) <=> e.kind = "added"
      BY <3>1, <3>2, <1>1
    <3> HIDE DEF Last
    <3> QED BY <3>3, <2>2
  <2>3. CASE k # e.key
    <3>1. ~Last(log', n + 1, k)
      BY <2>3, <1>1
    <3>2. \A i \in 1..n : Last(log', i, k) <=> Last(log, i, k)
      BY <2>3, <1>1, <1>2
    <3>3. (\E i \in 1..Len(log') : Last(log', i, k)) <=> \E i \in 1..n : Last(log, i, k)
      <4> HIDE DEF Last
      <4> QED BY <3>1, <3>2, <1>1
    <3> HIDE DEF Last
    <3> QED BY <3>3, <2>3, <2>1
  <2> QED BY <2>2, <2>3
<1> QED BY <1>3 DEF P!LogTellsAnnounced

\* In every behaviour of Presence the log and the announced keys agree.
LEMMA LogInvHolds == P!Spec => []LogInv
<1>1. P!Init => LogInv
  BY DEF P!Init, LogInv, P!TypeOK, P!LogTellsAnnounced, P!EventsAlternate
<1>2. LogInv /\ P!TypeOK' /\ [P!Next]_(P!vars) => LogInv'
  <2> SUFFICES ASSUME LogInv, P!TypeOK', [P!Next]_(P!vars) PROVE LogInv'
    OBVIOUS
  <2> USE DEF LogInv
  <2>1. ASSUME NEW k \in Keys, NEW s \in Serials, P!Announce(k, s) PROVE LogInv'
    <3> DEFINE e == P!Added(k, s)
    <3>1. e \in P!Event /\ e.key = k /\ e.kind = "added"
      BY DEF P!Added, P!Event
    <3>2. log \in Seq(P!Event) /\ log' = Append(log, e) /\ Announced' = Announced \cup {e.key}
      BY <2>1, <3>1 DEF P!Announce, P!TypeOK
    <3>3. \A i \in 1..Len(log) :
            log[i].key = e.key /\ (\A m \in (i + 1)..Len(log) : log[m].key # e.key)
              => log[i].kind # e.kind
      BY <2>1, <3>1 DEF P!Announce, P!LogTellsAnnounced
    <3> HIDE DEF e
    <3>4. P!EventsAlternate'
      BY <3>1, <3>2, <3>3, AppendAlternates
    <3>5. P!LogTellsAnnounced'
      BY <3>1, <3>2, AppendTells
    <3> QED BY <3>4, <3>5
  <2>2. ASSUME NEW k \in Keys, NEW s \in Serials, P!Retract(k, s) PROVE LogInv'
    <3> DEFINE e == P!Removed(k, s)
    <3>1. e \in P!Event /\ e.key = k /\ e.kind = "removed"
      BY DEF P!Removed, P!Event
    <3>2. log \in Seq(P!Event) /\ log' = Append(log, e) /\ Announced' = Announced \ {e.key}
      BY <2>2, <3>1 DEF P!Retract, P!TypeOK
    <3>3. PICK i0 \in 1..Len(log) :
            /\ log[i0].key = e.key
            /\ log[i0].kind = "added"
            /\ \A m \in (i0 + 1)..Len(log) : log[m].key # e.key
      BY <2>2, <3>1 DEF P!Retract, P!LogTellsAnnounced
    <3> HIDE DEF e
    <3>4. ~P!NextAbout(0, Len(log))'
      BY <3>1, <3>2, <3>3 DEF P!NextAbout
    <3>5. \A i \in 1..Len(log) :
            log[i].key = e.key /\ (\A m \in (i + 1)..Len(log) : log[m].key # e.key)
              => log[i].kind # e.kind
      BY <3>1, <3>2, <3>3
    <3>6. P!EventsAlternate'
      BY <3>1, <3>2, <3>4, <3>5, AppendAlternates
    <3>7. P!LogTellsAnnounced'
      BY <3>1, <3>2, AppendTells
    <3> QED BY <3>6, <3>7
  <2>3. CASE UNCHANGED P!vars
    BY <2>3 DEF P!vars, P!TypeOK, P!LogTellsAnnounced, P!EventsAlternate, P!NextAbout
  <2> QED BY <2>1, <2>2, <2>3 DEF P!Next
<1> QED BY <1>1, <1>2, PresenceType, PTL DEF P!Spec

\* In every behaviour of Presence the events about one key alternate, starting
\* with an addition.
THEOREM PresenceAlternates == P!Spec => []P!EventsAlternate
<1>1. LogInv => P!EventsAlternate
  BY DEF LogInv
<1> QED BY <1>1, LogInvHolds, PTL

-----------------------------------------------------------------------------
(* The watcher.                                                            *)

USE ConstantsAssumption DEF ConstantsAssumption

\* A camera has a key at every address.
LEMMA KeyType ==
  /\ \A a \in Addresses, s \in Serials : device_key(a, s) \in Keys
  /\ \A c \in Cameras : Serial[c] \in Serials
BY DEF device_key, Keys

\* Listing one more camera keeps the type of a listing.
LEMMA OrInsertType ==
  ASSUME NEW map \in [Keys -> Serials \cup {Absent}], NEW k \in Keys, NEW s \in Serials
  PROVE  /\ OrInsert(map, k, s) \in [Keys -> Serials \cup {Absent}]
         /\ OrInsert(map, k, s)[k] # Absent
         /\ \A j \in Keys : map[j] # Absent => OrInsert(map, k, s)[j] = map[j]
         /\ \A j \in Keys \ {k} : OrInsert(map, k, s)[j] = map[j]
         /\ map[k] = Absent => OrInsert(map, k, s)[k] = s
BY DEF OrInsert

(* The diff loops: what is still to be reported differs between the maps.   *)
PendingOK ==
  /\ pc = "add" => pending \subseteq KeysOf(current) \ KeysOf(known)
  /\ pc = "remove" => pending \subseteq KeysOf(known) \ KeysOf(current)

\* Every variable keeps its type and the loops report only differences.
Inv == TypeOK /\ PendingOK

\* Before the first walk nothing is known or announced.
LEMMA InitInv == Init => Inv
<1> SUFFICES ASSUME Init PROVE Inv
  OBVIOUS
<1>1. TypeOK
  <2>1. bus \in [Addresses -> Cameras \cup {NoCamera}] /\ used \subseteq Addresses
    BY DEF Init, OnBus
  <2>2. sighted \in SUBSET (Addresses \X (Cameras \cup {NoCamera}))
    BY <2>1 DEF Init, Occupancy
  <2>3. known \in [Keys -> Serials \cup {Absent}] /\ current \in [Keys -> Serials \cup {Absent}]
    BY DEF Init, Empty
  <2>4. log \in Seq(Event)
    BY DEF Init
  <2>5. slept \in 0..PollChunks /\ changes \in 0..MaxChanges /\ faults \in 0..MaxFaults
    BY DEF Init
  <2>6. /\ stop \in BOOLEAN /\ owner \in {"alive", "joining", "dropped"}
        /\ pc \in {"test", "scan", "add", "remove", "sleep", "exited"}
        /\ unread \in SUBSET (Addresses \X Nodes) /\ pending \in SUBSET Keys
    BY DEF Init
  <2>7. readings \in [Keys -> SUBSET Serials]
    BY <2>1, KeyType DEF Init, SerialsOf, OnBus
  <2> QED BY <2>1, <2>2, <2>3, <2>4, <2>5, <2>6, <2>7 DEF TypeOK
<1>2. PendingOK
  BY DEF Init, PendingOK
<1> QED BY <1>1, <1>2 DEF Inv

\* No step of the watcher, its owner or the bus breaks the invariant.
LEMMA NextInv == Inv /\ [Next]_vars => Inv'
<1> SUFFICES ASSUME Inv, [Next]_vars PROVE Inv'
  OBVIOUS
<1> USE DEF Inv, busVars, ownerVars
<1>1. ASSUME NEW c \in Cameras, NEW a \in Addresses, Plug(c, a) PROVE Inv'
  <2>1. device_key(a, Serial[c]) \in Keys /\ Serial[c] \in Serials
    BY KeyType
  <2>2. readings' \in [Keys -> SUBSET Serials]
    BY <1>1, <2>1 DEF Plug, TypeOK
  <2> QED BY <1>1, <2>2 DEF Plug, TypeOK, PendingOK, KeysOf
<1>2. ASSUME NEW a \in Addresses, Unplug(a) PROVE Inv'
  BY <1>2 DEF Unplug, TypeOK, PendingOK, KeysOf
<1>3. CASE DropBegin
  BY <1>3 DEF DropBegin, TypeOK, PendingOK, KeysOf
<1>4. CASE DropReturn
  BY <1>4 DEF DropReturn, TypeOK, PendingOK, KeysOf
<1>5. CASE LoopExit
  BY <1>5 DEF LoopExit, TypeOK, PendingOK
<1>6. CASE ScanBegin
  <2>1. readings' \in [Keys -> SUBSET Serials]
    BY <1>6, KeyType DEF ScanBegin, SightingsBegin, SerialsOf, OnBus, TypeOK
  <2> QED BY <1>6, <2>1 DEF ScanBegin, SightingsBegin, TypeOK, PendingOK, Empty, Occupancy
<1>7. CASE ReadDirFails
  BY <1>7 DEF ReadDirFails, Fault, TypeOK, PendingOK
<1>8. ASSUME NEW n \in Addresses \X Nodes, VisitNode(n) PROVE Inv'
  <2> DEFINE a == n[1]
             c == bus[a]
  <2>1. a \in Addresses /\ (c # NoCamera => c \in Cameras)
    BY DEF TypeOK
  <2>2. /\ current' \in [Keys -> Serials \cup {Absent}] /\ faults' \in 0..MaxFaults
        /\ readings' \in [Keys -> SUBSET Serials]
    <3>1. CASE c = NoCamera
      BY <1>8, <3>1 DEF VisitNode, TypeOK
    <3>2. CASE /\ c # NoCamera
               /\ current' = OrInsert(current, device_key(a, Serial[c]), Serial[c])
               /\ UNCHANGED <<readings, faults>>
      BY <3>2, <2>1, KeyType, OrInsertType DEF TypeOK
    <3>3. CASE /\ c # NoCamera
               /\ Fault("serial")
               /\ current' = OrInsert(current, device_key(a, EmptySerial), EmptySerial)
               /\ readings' = [readings EXCEPT ![device_key(a, EmptySerial)] = @ \cup {EmptySerial}]
      <4>1. device_key(a, EmptySerial) \in Keys /\ EmptySerial \in Serials
        BY <2>1, KeyType
      <4>2. current' \in [Keys -> Serials \cup {Absent}]
        BY <3>3, <4>1, OrInsertType DEF TypeOK
      <4> QED BY <3>3, <4>1, <4>2 DEF TypeOK, Fault
    <3> QED BY <1>8, <3>1, <3>2, <3>3 DEF VisitNode
  <2> QED BY <1>8, <2>2 DEF VisitNode, TypeOK, PendingOK
<1>9. ASSUME NEW n \in Addresses \X Nodes, NodeFails(n) PROVE Inv'
  BY <1>9 DEF NodeFails, Fault, TypeOK, PendingOK
<1>10. CASE ScanEnd
  BY <1>10 DEF ScanEnd, TypeOK, PendingOK, KeysOf
<1>11. ASSUME NEW k \in Keys, SendAdded(k) PROVE Inv'
  <2>1. Added(k, current[k]) \in Event
    BY <1>11 DEF SendAdded, Added, Event, TypeOK, PendingOK, KeysOf
  <2> QED BY <1>11, <2>1 DEF SendAdded, TypeOK, PendingOK, KeysOf
<1>12. CASE AddedDone
  BY <1>12 DEF AddedDone, TypeOK, PendingOK, KeysOf
<1>13. ASSUME NEW k \in Keys, SendRemoved(k) PROVE Inv'
  <2>1. Removed(k, known[k]) \in Event
    BY <1>13 DEF SendRemoved, Removed, Event, TypeOK, PendingOK, KeysOf
  <2> QED BY <1>13, <2>1 DEF SendRemoved, TypeOK, PendingOK, KeysOf
<1>14. CASE RemovedDone
  BY <1>14 DEF RemovedDone, TypeOK, PendingOK
<1>15. CASE SleepChunk
  BY <1>15 DEF SleepChunk, TypeOK, PendingOK
<1>16. CASE SleepDone
  BY <1>16 DEF SleepDone, TypeOK, PendingOK
<1>17. CASE UNCHANGED vars
  BY <1>17 DEF vars, TypeOK, PendingOK, KeysOf
<1> QED
  BY <1>1, <1>2, <1>3, <1>4, <1>5, <1>6, <1>7, <1>8, <1>9, <1>10, <1>11, <1>12,
     <1>13, <1>14, <1>15, <1>16, <1>17 DEF Next, Watcher, Bus

\* The invariant holds throughout.
LEMMA InvHolds == Spec => []Inv
BY InitInv, NextInv, PTL DEF Spec

\* Type correctness of the watcher, its owner and the bus.
THEOREM TypeCorrect == Spec => []TypeOK
<1>1. Inv => TypeOK
  BY DEF Inv
<1> QED BY <1>1, InvHolds, PTL

-----------------------------------------------------------------------------
\* Every step that changes what stands announced is one event of Presence;
\* every other step of the watcher, the bus or the owner is a stutter.
LEMMA StepRefines == Inv /\ Inv' /\ [Next]_vars => [P!Next]_(P!vars)
<1> SUFFICES ASSUME Inv, Inv', [Next]_vars PROVE [P!Next]_(P!vars)
  OBVIOUS
<1> USE DEF Inv, busVars, ownerVars
<1>1. ASSUME NEW k \in Keys, SendAdded(k) PROVE P!Announce(k, current[k]) /\ current[k] \in Serials
  <2>1. pc = "add" /\ pc' = "add" /\ k \in KeysOf(current) \ KeysOf(known)
    BY <1>1 DEF SendAdded, PendingOK
  <2>2. k \notin Announced /\ Announced' = Announced \cup {k}
    BY <1>1, <2>1 DEF SendAdded, Announced, KeysOf
  <2>3. log' = Append(log, P!Added(k, current[k]))
    BY <1>1 DEF SendAdded, Added, P!Added
  <2> QED BY <2>1, <2>2, <2>3 DEF P!Announce, KeysOf, TypeOK
<1>2. ASSUME NEW k \in Keys, SendRemoved(k) PROVE P!Retract(k, known[k]) /\ known[k] \in Serials
  <2>1. pc = "remove" /\ pc' = "remove" /\ k \in KeysOf(known) \ KeysOf(current)
    BY <1>2 DEF SendRemoved, PendingOK
  <2>2. k \in Announced /\ Announced' = Announced \ {k}
    BY <1>2, <2>1 DEF SendRemoved, Announced, KeysOf
  <2>3. log' = Append(log, P!Removed(k, known[k]))
    BY <1>2 DEF SendRemoved, Removed, P!Removed
  <2> QED BY <2>1, <2>2, <2>3 DEF P!Retract, KeysOf, TypeOK
<1>3. ASSUME NEW c \in Cameras, NEW a \in Addresses, Plug(c, a) PROVE UNCHANGED P!vars
  BY <1>3 DEF Plug, P!vars, Announced, KeysOf
<1>4. ASSUME NEW a \in Addresses, Unplug(a) PROVE UNCHANGED P!vars
  BY <1>4 DEF Unplug, P!vars, Announced, KeysOf
<1>5. CASE DropBegin
  BY <1>5 DEF DropBegin, P!vars, Announced, KeysOf
<1>6. CASE DropReturn
  BY <1>6 DEF DropReturn, P!vars, Announced, KeysOf
<1>7. CASE LoopExit
  BY <1>7 DEF LoopExit, P!vars, Announced, KeysOf
<1>8. CASE ScanBegin
  BY <1>8 DEF ScanBegin, P!vars, Announced, KeysOf
<1>9. CASE ReadDirFails
  BY <1>9 DEF ReadDirFails, P!vars, Announced, KeysOf
<1>10. ASSUME NEW n \in Addresses \X Nodes, VisitNode(n) PROVE UNCHANGED P!vars
  BY <1>10 DEF VisitNode, P!vars, Announced, KeysOf
<1>11. ASSUME NEW n \in Addresses \X Nodes, NodeFails(n) PROVE UNCHANGED P!vars
  BY <1>11 DEF NodeFails, P!vars, Announced, KeysOf
<1>12. CASE ScanEnd
  BY <1>12 DEF ScanEnd, P!vars, Announced, KeysOf
<1>13. CASE AddedDone
  BY <1>13 DEF AddedDone, P!vars, Announced, KeysOf
<1>14. CASE RemovedDone
  BY <1>14 DEF RemovedDone, P!vars, Announced, KeysOf
<1>15. CASE SleepChunk
  BY <1>15 DEF SleepChunk, P!vars, Announced, KeysOf
<1>16. CASE SleepDone
  BY <1>16 DEF SleepDone, P!vars, Announced, KeysOf
<1>17. CASE UNCHANGED vars
  BY <1>17 DEF vars, P!vars, Announced, KeysOf
<1> QED
  BY <1>1, <1>2, <1>3, <1>4, <1>5, <1>6, <1>7, <1>8, <1>9, <1>10, <1>11, <1>12,
     <1>13, <1>14, <1>15, <1>16, <1>17 DEF Next, Watcher, Bus, P!Next

\* The watcher implements Presence, over any bus and any failing reads.
THEOREM Refinement == Spec => ImplementsPresence
<1>1. Init => P!Init
  BY DEF Init, P!Init, Announced, KeysOf, Empty
<1> QED BY <1>1, StepRefines, InvHolds, PTL DEF Spec, ImplementsPresence, P!Spec

\* Hence the events about one key alternate in the channel, starting with an
\* addition.
THEOREM Alternation == Spec => []EventsAlternate
<1>1. P!EventsAlternate <=> EventsAlternate
  BY DEF EventsAlternate
<1> QED BY <1>1, PresenceAlternates, Refinement, PTL DEF ImplementsPresence

-----------------------------------------------------------------------------
(* What an enumeration in progress, or the comparison after it, knows:     *)
(* every entry of `current` was sighted, and every address one of whose    *)
(* nodes was visited without failure either was sighted free or has its    *)
(* camera's key in `current`.                                              *)
Scanning == pc \in {"scan", "add", "remove"}

SightedNow == \A a \in Addresses : <<a, bus[a]>> \in sighted

UnreadDone == pc \in {"add", "remove"} => unread = {}

EntrySighted(k, o) ==
  /\ o[2] # NoCamera
  /\ current[k] \in {Serial[o[2]], EmptySerial}
  /\ device_key(o[1], current[k]) = k

EntriesSighted ==
  Scanning => \A k \in KeysOf(current) : \E o \in sighted : EntrySighted(k, o)

Accounted(a, o) ==
  /\ o[1] = a
  /\ o[2] # NoCamera => current[device_key(a, Serial[o[2]])] # Absent

VisitedAccounted ==
  Scanning /\ faults = 0 =>
    \A a \in Addresses, v \in Nodes :
       <<a, v>> \notin unread => \E o \in sighted : Accounted(a, o)

ScanInv == SightedNow /\ UnreadDone /\ EntriesSighted /\ VisitedAccounted

\* A step that leaves the scan's own state alone keeps ScanInv, provided it
\* only adds to what was sighted.
LEMMA ScanFrame ==
  ASSUME ScanInv, SightedNow', UnreadDone', Scanning' => Scanning,
         UNCHANGED <<current, unread>>, sighted \subseteq sighted',
         faults' = 0 => faults = 0
  PROVE  ScanInv'
BY DEF ScanInv, EntriesSighted, EntrySighted, VisitedAccounted, Accounted, KeysOf

\* Before the first walk there is nothing to account for.
LEMMA InitScanInv == Init => ScanInv
BY DEF Init, ScanInv, Scanning, SightedNow, UnreadDone, EntriesSighted,
       VisitedAccounted, Occupancy

\* One visit of a node: the entry it makes was sighted, and its address is
\* accounted for.
LEMMA VisitScanInv ==
  ASSUME Inv, ScanInv, NEW n \in Addresses \X Nodes, VisitNode(n)
  PROVE  ScanInv'
<1> USE DEF Inv, busVars, ownerVars
<1> DEFINE a == n[1]
           c == bus[a]
<1>1. /\ a \in Addresses /\ n = <<a, n[2]>> /\ n[2] \in Nodes
      /\ c # NoCamera => c \in Cameras /\ Serial[c] \in Serials
      /\ <<a, c>> \in sighted
      /\ current \in [Keys -> Serials \cup {Absent}]
  BY KeyType DEF TypeOK, ScanInv, SightedNow
<1>2. /\ pc = "scan" /\ pc' = pc /\ unread' = unread \ {n}
      /\ UNCHANGED <<bus, sighted>> /\ n \in unread
  BY DEF VisitNode
<1>3. SightedNow' /\ UnreadDone'
  BY <1>2 DEF ScanInv, SightedNow, UnreadDone
<1>4. ASSUME NEW s \in {Serial[c], EmptySerial}, c # NoCamera,
             current' = OrInsert(current, device_key(a, s), s)
      PROVE  /\ EntriesSighted'
             /\ \A k \in Keys : current[k] # Absent => current'[k] # Absent
             /\ current'[device_key(a, s)] # Absent
  <2> DEFINE key == device_key(a, s)
  <2>1. s \in Serials /\ key \in Keys
    BY <1>1, <1>4, KeyType
  <2>2. /\ current'[key] # Absent
        /\ \A j \in Keys : current[j] # Absent => current'[j] = current[j]
        /\ \A j \in Keys \ {key} : current'[j] = current[j]
        /\ current[key] = Absent => current'[key] = s
    BY <1>1, <1>4, <2>1, OrInsertType
  <2>3. ASSUME NEW k \in KeysOf(current)' PROVE \E o \in sighted : EntrySighted(k, o)'
    <3>1. CASE current[k] # Absent
      <4>1. PICK o \in sighted : EntrySighted(k, o)
        BY <1>2, <3>1, <2>3 DEF ScanInv, EntriesSighted, Scanning, KeysOf
      <4>2. EntrySighted(k, o)'
        BY <4>1, <3>1, <2>2, <2>3 DEF EntrySighted, KeysOf
      <4> QED BY <4>2
    <3>2. CASE current[k] = Absent
      <4>1. k = key /\ current'[k] = s
        BY <3>2, <2>2, <2>3 DEF KeysOf
      <4>2. EntrySighted(k, <<a, c>>)'
        BY <4>1, <1>2, <1>4 DEF EntrySighted
      <4> QED BY <4>2, <1>1, <1>2
    <3> QED BY <3>1, <3>2
  <2> QED BY <2>2, <2>3, <1>2 DEF EntriesSighted
<1>5. CASE c = NoCamera
  <2>1. UNCHANGED current /\ UNCHANGED faults
    BY <1>5 DEF VisitNode
  <2>2. Accounted(a, <<a, c>>)
    BY <1>5 DEF Accounted
  <2>3. EntriesSighted'
    BY <2>1, <1>2 DEF ScanInv, EntriesSighted, EntrySighted, KeysOf, Scanning
  <2>4. VisitedAccounted'
    BY <2>1, <2>2, <1>1, <1>2 DEF ScanInv, VisitedAccounted, Accounted, Scanning
  <2> QED BY <1>3, <2>3, <2>4 DEF ScanInv
<1>6. CASE /\ c # NoCamera
           /\ current' = OrInsert(current, device_key(a, Serial[c]), Serial[c])
           /\ UNCHANGED faults
  <2>1. /\ EntriesSighted'
        /\ \A k \in Keys : current[k] # Absent => current'[k] # Absent
        /\ current'[device_key(a, Serial[c])] # Absent
    BY <1>4, <1>6
  <2>2. VisitedAccounted'
    <3> SUFFICES ASSUME faults = 0, NEW b \in Addresses, NEW v \in Nodes, <<b, v>> \notin unread'
                 PROVE  \E o \in sighted : Accounted(b, o)'
      BY <1>2, <1>6 DEF VisitedAccounted
    <3>1. CASE b = a
      <4>1. Accounted(b, <<a, c>>)'
        BY <2>1, <3>1, <1>2, <1>6 DEF Accounted
      <4> QED BY <4>1, <1>1, <1>2
    <3>2. CASE b # a
      <4>1. PICK o \in sighted : Accounted(b, o)
        BY <3>2, <1>1, <1>2 DEF ScanInv, VisitedAccounted, Scanning
      <4>2. o[2] # NoCamera => device_key(b, Serial[o[2]]) \in Keys
        BY KeyType DEF TypeOK
      <4>3. Accounted(b, o)'
        BY <4>1, <4>2, <2>1 DEF Accounted
      <4> QED BY <4>3
    <3> QED BY <3>1, <3>2
  <2> QED BY <1>3, <2>1, <2>2 DEF ScanInv
<1>7. CASE /\ c # NoCamera
           /\ Fault("serial")
           /\ current' = OrInsert(current, device_key(a, EmptySerial), EmptySerial)
  <2>1. EntriesSighted'
    BY <1>4, <1>7
  <2>2. faults' # 0
    BY <1>7 DEF Fault, TypeOK
  <2> QED BY <1>3, <2>1, <2>2 DEF ScanInv, VisitedAccounted
<1> QED BY <1>5, <1>6, <1>7 DEF VisitNode

\* A walk under way keeps accounting for what was on the bus since it began.
LEMMA NextScanInv == Inv /\ Inv' /\ ScanInv /\ [Next]_vars => ScanInv'
<1> SUFFICES ASSUME Inv, Inv', ScanInv, [Next]_vars PROVE ScanInv'
  OBVIOUS
<1> USE DEF Inv, busVars, ownerVars
<1>0. SightedNow /\ UnreadDone /\ bus \in [Addresses -> Cameras \cup {NoCamera}] /\ faults \in Nat
  BY DEF ScanInv, TypeOK
<1>1. ASSUME NEW c \in Cameras, NEW a \in Addresses, Plug(c, a) PROVE ScanInv'
  <2>1. SightedNow' /\ UnreadDone'
    BY <1>0, <1>1 DEF Plug, SightedNow, UnreadDone
  <2> QED BY <2>1, <1>1, ScanFrame DEF Plug, Scanning
<1>2. ASSUME NEW a \in Addresses, Unplug(a) PROVE ScanInv'
  <2>1. SightedNow' /\ UnreadDone'
    BY <1>0, <1>2 DEF Unplug, SightedNow, UnreadDone
  <2> QED BY <2>1, <1>2, ScanFrame DEF Unplug, Scanning
<1>3. CASE ScanBegin
  <2>1. \A k \in Keys : current'[k] = Absent
    BY <1>3 DEF ScanBegin, Empty
  <2>2. \A a \in Addresses, v \in Nodes : <<a, v>> \in unread'
    BY <1>3 DEF ScanBegin
  <2>3. SightedNow' /\ UnreadDone'
    BY <1>3 DEF ScanBegin, SightingsBegin, SightedNow, UnreadDone, Occupancy
  <2> QED BY <2>1, <2>2, <2>3 DEF ScanInv, EntriesSighted, VisitedAccounted, KeysOf
<1>4. CASE ReadDirFails
  <2>1. faults' # 0 /\ UNCHANGED <<bus, pc, current, sighted>>
    BY <1>0, <1>4 DEF ReadDirFails, Fault
  <2>2. UnreadDone'
    BY <1>4 DEF ReadDirFails, UnreadDone
  <2> QED BY <2>1, <2>2 DEF ScanInv, SightedNow, EntriesSighted, EntrySighted,
                VisitedAccounted, KeysOf, Scanning
<1>5. ASSUME NEW n \in Addresses \X Nodes, NodeFails(n) PROVE ScanInv'
  <2>1. faults' # 0 /\ UNCHANGED <<bus, pc, current, sighted>>
    BY <1>0, <1>5 DEF NodeFails, Fault
  <2>2. UnreadDone'
    BY <1>5 DEF NodeFails, UnreadDone
  <2> QED BY <2>1, <2>2 DEF ScanInv, SightedNow, EntriesSighted, EntrySighted,
                VisitedAccounted, KeysOf, Scanning
<1>6. ASSUME NEW n \in Addresses \X Nodes, VisitNode(n) PROVE ScanInv'
  BY <1>6, VisitScanInv
<1>7. CASE ScanEnd
  BY <1>0, <1>7, ScanFrame DEF ScanEnd, SightedNow, UnreadDone, Scanning
<1>8. ASSUME NEW k \in Keys, SendAdded(k) PROVE ScanInv'
  BY <1>0, <1>8, ScanFrame DEF SendAdded, SightedNow, UnreadDone, Scanning
<1>9. CASE AddedDone
  BY <1>0, <1>9, ScanFrame DEF AddedDone, SightedNow, UnreadDone, Scanning
<1>10. ASSUME NEW k \in Keys, SendRemoved(k) PROVE ScanInv'
  BY <1>0, <1>10, ScanFrame DEF SendRemoved, SightedNow, UnreadDone, Scanning
<1>11. CASE RemovedDone
  BY <1>0, <1>11, ScanFrame DEF RemovedDone, SightedNow, UnreadDone, Scanning
<1>12. CASE SleepChunk \/ SleepDone \/ LoopExit
  BY <1>0, <1>12, ScanFrame DEF SleepChunk, SleepDone, LoopExit, SightedNow, UnreadDone, Scanning
<1>13. CASE DropBegin \/ DropReturn
  BY <1>0, <1>13, ScanFrame DEF DropBegin, DropReturn, SightedNow, UnreadDone, Scanning
<1>14. CASE UNCHANGED vars
  BY <1>0, <1>14, ScanFrame DEF vars, SightedNow, UnreadDone, Scanning
<1> QED
  BY <1>1, <1>2, <1>3, <1>4, <1>5, <1>6, <1>7, <1>8, <1>9, <1>10, <1>11, <1>12,
     <1>13, <1>14 DEF Next, Watcher, Bus

\* What a walk has listed or passed over is always accounted for.
LEMMA ScanInvHolds == Spec => []ScanInv
BY InitScanInv, InvHolds, NextScanInv, PTL DEF Spec

\* Whatever comes and goes while the nodes are walked, and whatever read
\* fails, a DeviceAdded is about a camera that was there during the walk.
LEMMA AddedIsReal == Spec => AddedWasPresent
<1>1. Inv /\ Inv' /\ ScanInv =>
        \A k \in Keys : SendAdded(k) =>
          \E o \in sighted :
             /\ o[2] # NoCamera
             /\ log'[Len(log')].serial \in {Serial[o[2]], EmptySerial}
             /\ device_key(o[1], log'[Len(log')].serial) = k
  <2> SUFFICES ASSUME Inv, Inv', ScanInv, NEW k \in Keys, SendAdded(k)
               PROVE  \E o \in sighted :
                         /\ o[2] # NoCamera
                         /\ log'[Len(log')].serial \in {Serial[o[2]], EmptySerial}
                         /\ device_key(o[1], log'[Len(log')].serial) = k
    OBVIOUS
  <2>1. k \in KeysOf(current) /\ Scanning
    BY DEF SendAdded, Inv, PendingOK, Scanning
  <2>2. PICK o \in sighted : EntrySighted(k, o)
    BY <2>1 DEF ScanInv, EntriesSighted
  <2>3. log'[Len(log')].serial = current[k]
    BY DEF SendAdded, Added, Inv, TypeOK
  <2> QED BY <2>2, <2>3 DEF EntrySighted
<1> QED BY <1>1, InvHolds, ScanInvHolds, PTL DEF AddedWasPresent

\* Without a failed read, a DeviceRemoved is about a key that no address held
\* all through the walk.
LEMMA RemovedIsReal == Spec => RemovedWasAbsent
<1>1. Inv /\ ScanInv =>
        \A k \in Keys : SendRemoved(k) /\ faults = 0 =>
          \A a \in Addresses : \E o \in sighted :
             /\ o[1] = a
             /\ o[2] # NoCamera => device_key(a, Serial[o[2]]) # k
  <2> SUFFICES ASSUME Inv, ScanInv, NEW k \in Keys, SendRemoved(k), faults = 0,
                      NEW a \in Addresses
               PROVE  \E o \in sighted :
                         /\ o[1] = a
                         /\ o[2] # NoCamera => device_key(a, Serial[o[2]]) # k
    OBVIOUS
  <2>1. Scanning /\ unread = {} /\ current[k] = Absent
    BY DEF SendRemoved, Inv, PendingOK, Scanning, ScanInv, UnreadDone, KeysOf
  <2>2. PICK v : v \in Nodes
    OBVIOUS
  <2>3. PICK o \in sighted : Accounted(a, o)
    BY <2>1, <2>2 DEF ScanInv, VisitedAccounted
  <2> QED BY <2>1, <2>3 DEF Accounted
<1> QED BY <1>1, InvHolds, ScanInvHolds, PTL DEF RemovedWasAbsent

\* No event is made up, however the bus changes under the walk.
THEOREM EventsReal == Spec => EventsAreReal
BY AddedIsReal, RemovedIsReal DEF EventsAreReal

(* Drop has returned only after the watcher exited, and that is for good.  *)
JoinInv == owner = "dropped" => pc = "exited"

\* No event follows the return of Drop.
THEOREM DropIsFinal == Spec => NothingAfterDrop
<1>1. Init => JoinInv
  BY DEF Init, JoinInv
<1>2. JoinInv /\ [Next]_vars => JoinInv' /\ (owner = "dropped" => log' = log)
  BY DEF JoinInv, Next, Watcher, Bus, vars, busVars, ownerVars, Plug, Unplug, DropBegin,
         DropReturn, LoopExit, ScanBegin, ReadDirFails, NodeFails, VisitNode, ScanEnd,
         SendAdded, AddedDone, SendRemoved, RemovedDone, SleepChunk, SleepDone
<1> QED BY <1>1, <1>2, PTL DEF Spec, NothingAfterDrop
-----------------------------------------------------------------------------
(* Where the serials come from.  Each camera on the bus, each entry of the  *)
(* two maps and the addition of each key that stands announced has a serial *)
(* that could be read since the walk began that announced the key.          *)
BusRead == \A a \in OnBus : Serial[bus[a]] \in readings[device_key(a, Serial[bus[a]])]

CurrentRead == Scanning => \A k \in KeysOf(current) : current[k] \in readings[k]

KnownRead == \A k \in KeysOf(known) : known[k] \in readings[k]

AdditionsRead == \A k \in Keys : \A i \in 1..Len(log) :
                   LastAbout(k, i) /\ log[i].kind = "added" => log[i].serial \in readings[k]

ReadInv == BusRead /\ CurrentRead /\ KnownRead /\ AdditionsRead

\* The log tells which keys stand announced, throughout.
LEMMA LogTells == Spec => []P!LogTellsAnnounced
<1>1. LogInv => P!LogTellsAnnounced
  BY DEF LogInv
<1> QED BY <1>1, LogInvHolds, Refinement, PTL DEF ImplementsPresence

\* A step that sends nothing, lists nothing and only adds to what could be read.
LEMMA ReadFrame ==
  ASSUME ReadInv, BusRead', Scanning' => Scanning, UNCHANGED <<known, current, log>>,
         \A k \in Keys : readings[k] \subseteq readings'[k]
  PROVE  ReadInv'
<1>1. CurrentRead' /\ KnownRead'
  BY DEF ReadInv, CurrentRead, KnownRead, KeysOf
<1>2. AdditionsRead'
  BY DEF ReadInv, AdditionsRead, LastAbout
<1> QED BY <1>1, <1>2 DEF ReadInv

\* Before the first walk what can be read is what is on the bus.
LEMMA InitReadInv == Init => ReadInv
<1> SUFFICES ASSUME Init PROVE ReadInv
  OBVIOUS
<1>1. BusRead
  BY KeyType DEF Init, BusRead, SerialsOf, OnBus
<1>2. CurrentRead /\ KnownRead /\ AdditionsRead
  BY DEF Init, CurrentRead, KnownRead, AdditionsRead, Scanning, KeysOf, Empty
<1> QED BY <1>1, <1>2 DEF ReadInv

\* A camera that appears can be read from then on.
LEMMA PlugReadInv ==
  ASSUME TypeOK, ReadInv, NEW c \in Cameras, NEW a \in Addresses, Plug(c, a)
  PROVE  ReadInv'
<1> DEFINE key == device_key(a, Serial[c])
<1>1. key \in Keys /\ Serial[c] \in Serials
  BY KeyType
<1>2. \A k \in Keys : readings'[k] = IF k = key THEN readings[k] \cup {Serial[c]} ELSE readings[k]
  BY <1>1 DEF Plug, TypeOK
<1>3. \A b \in Addresses : bus'[b] = IF b = a THEN c ELSE bus[b]
  BY DEF Plug, TypeOK
<1>4. ASSUME NEW b \in OnBus'
      PROVE  Serial[bus'[b]] \in readings'[device_key(b, Serial[bus'[b]])]
  <2>1. CASE b = a
    BY <1>1, <1>2, <1>3, <2>1
  <2>2. CASE b # a
    <3>1. b \in OnBus /\ bus'[b] = bus[b] /\ bus[b] \in Cameras
      BY <1>3, <1>4, <2>2 DEF OnBus, TypeOK
    <3>2. device_key(b, Serial[bus[b]]) \in Keys
      BY <3>1, KeyType DEF OnBus
    <3> QED BY <1>2, <3>1, <3>2 DEF ReadInv, BusRead
  <2> QED BY <2>1, <2>2
<1>5. BusRead'
  BY <1>4 DEF BusRead
<1>6. (Scanning' => Scanning) /\ UNCHANGED <<known, current, log>>
  BY DEF Plug, Scanning
<1> QED BY <1>2, <1>5, <1>6, ReadFrame

\* A walk that begins forgets what could be read only of the keys that do not
\* stand announced, and takes for these what is on the bus.
LEMMA BeginReadInv ==
  ASSUME Inv, ReadInv, P!LogTellsAnnounced, ScanBegin
  PROVE  ReadInv'
<1>1. /\ UNCHANGED <<bus, known, log>>
      /\ \A k \in Keys : readings'[k] = IF known[k] # Absent THEN readings[k] ELSE SerialsOf(k)
      /\ \A k \in Keys : current'[k] = Absent
  BY DEF ScanBegin, SightingsBegin, busVars, Empty
<1>2. BusRead'
  <2> SUFFICES ASSUME NEW a \in OnBus
               PROVE  Serial[bus[a]] \in readings'[device_key(a, Serial[bus[a]])]
    BY <1>1 DEF BusRead, OnBus
  <2>1. a \in Addresses /\ bus[a] \in Cameras
    BY DEF OnBus, Inv, TypeOK
  <2>2. device_key(a, Serial[bus[a]]) \in Keys
    BY <2>1, KeyType
  <2>3. Serial[bus[a]] \in SerialsOf(device_key(a, Serial[bus[a]]))
    BY <2>1 DEF SerialsOf
  <2> QED BY <1>1, <2>2, <2>3 DEF ReadInv, BusRead
<1>3. CurrentRead' /\ KnownRead'
  BY <1>1 DEF ReadInv, CurrentRead, KnownRead, KeysOf
<1>4. Announced = KeysOf(known)
  BY DEF ScanBegin, Announced
<1>5. AdditionsRead'
  <2> SUFFICES ASSUME NEW k \in Keys, NEW i \in 1..Len(log), LastAbout(k, i), log[i].kind = "added"
               PROVE  log[i].serial \in readings'[k]
    BY <1>1 DEF AdditionsRead, LastAbout
  <2>1. k \in Announced
    BY DEF P!LogTellsAnnounced, LastAbout
  <2> QED BY <1>1, <1>4, <2>1 DEF KeysOf, ReadInv, AdditionsRead
<1> QED BY <1>2, <1>3, <1>5 DEF ReadInv

\* An entry of the walk's listing has a serial that could be read just now.
LEMMA VisitReadInv ==
  ASSUME Inv, ReadInv, NEW n \in Addresses \X Nodes, VisitNode(n)
  PROVE  ReadInv'
<1> DEFINE a == n[1]
           c == bus[a]
<1>1. /\ a \in Addresses /\ (c # NoCamera => c \in Cameras)
      /\ current \in [Keys -> Serials \cup {Absent}]
      /\ pc = "scan" /\ pc' = pc /\ UNCHANGED <<bus, known, log>>
  BY DEF VisitNode, busVars, Inv, TypeOK
<1>2. ASSUME NEW s \in Serials, current' = OrInsert(current, device_key(a, s), s),
             s \in readings'[device_key(a, s)],
             \A k \in Keys : readings[k] \subseteq readings'[k]
      PROVE  ReadInv'
  <2> DEFINE key == device_key(a, s)
  <2>1. key \in Keys
    BY <1>1, KeyType
  <2>2. /\ \A j \in Keys : current[j] # Absent => current'[j] = current[j]
        /\ \A j \in Keys \ {key} : current'[j] = current[j]
        /\ current[key] = Absent => current'[key] = s
    BY <1>1, <1>2, <2>1, OrInsertType
  <2>3. CurrentRead'
    <3> SUFFICES ASSUME NEW k \in Keys, current'[k] # Absent PROVE current'[k] \in readings'[k]
      BY DEF CurrentRead, KeysOf
    <3>1. CASE current[k] # Absent
      BY <1>1, <1>2, <2>2, <3>1 DEF ReadInv, CurrentRead, Scanning, KeysOf
    <3>2. CASE current[k] = Absent
      BY <1>2, <2>2, <3>2
    <3> QED BY <3>1, <3>2
  <2>4. KnownRead'
    BY <1>1, <1>2 DEF ReadInv, KnownRead, KeysOf
  <2>5. AdditionsRead'
    BY <1>1, <1>2 DEF ReadInv, AdditionsRead, LastAbout
  <2>6. BusRead'
    <3> SUFFICES ASSUME NEW b \in OnBus
                 PROVE  Serial[bus[b]] \in readings'[device_key(b, Serial[bus[b]])]
      BY <1>1 DEF BusRead, OnBus
    <3>1. device_key(b, Serial[bus[b]]) \in Keys
      BY KeyType DEF OnBus, Inv, TypeOK
    <3> QED BY <1>2, <3>1 DEF ReadInv, BusRead
  <2> QED BY <2>3, <2>4, <2>5, <2>6 DEF ReadInv
<1>3. CASE UNCHANGED <<current, readings>>
  <2>1. BusRead'
    BY <1>1, <1>3 DEF ReadInv, BusRead, OnBus
  <2> QED BY <1>1, <1>3, <2>1, ReadFrame DEF Scanning
<1>4. CASE /\ c # NoCamera
           /\ current' = OrInsert(current, device_key(a, Serial[c]), Serial[c])
           /\ UNCHANGED readings
  <2>1. Serial[c] \in Serials /\ Serial[c] \in readings[device_key(a, Serial[c])]
    BY <1>1, <1>4, KeyType DEF ReadInv, BusRead, OnBus
  <2> QED BY <1>2, <1>4, <2>1
<1>5. CASE /\ current' = OrInsert(current, device_key(a, EmptySerial), EmptySerial)
           /\ readings' = [readings EXCEPT ![device_key(a, EmptySerial)] = @ \cup {EmptySerial}]
  <2>1. device_key(a, EmptySerial) \in Keys
    BY <1>1, KeyType
  <2>2. /\ EmptySerial \in readings'[device_key(a, EmptySerial)]
        /\ \A k \in Keys : readings[k] \subseteq readings'[k]
    BY <1>5, <2>1 DEF Inv, TypeOK
  <2> QED BY <1>2, <1>5, <2>2
<1> QED BY <1>3, <1>4, <1>5 DEF VisitNode

\* An addition takes its serial from the listing; a removal leaves no addition
\* of its key standing.
LEMMA SendReadInv ==
  ASSUME Inv, ReadInv, NEW k \in Keys, SendAdded(k) \/ SendRemoved(k)
  PROVE  ReadInv'
<1>1. PICK e : /\ log' = Append(log, e)
               /\ e.key = k
               /\ e.kind = "added" => e.serial \in readings[k]
  <2>1. CASE SendAdded(k)
    BY <2>1 DEF SendAdded, Added, Inv, PendingOK, ReadInv, CurrentRead, Scanning
  <2>2. CASE SendRemoved(k)
    BY <2>2 DEF SendRemoved, Removed
  <2> QED BY <2>1, <2>2
<1>2. /\ Len(log') = Len(log) + 1 /\ Len(log) \in Nat
      /\ log'[Len(log) + 1] = e
      /\ \A i \in 1..Len(log) : log'[i] = log[i]
  BY <1>1 DEF Inv, TypeOK
<1>3. UNCHANGED <<bus, pc, known, current, readings>>
  BY DEF SendAdded, SendRemoved, busVars
<1>4. AdditionsRead'
  <2> SUFFICES ASSUME NEW j \in Keys, NEW i \in 1..Len(log'), LastAbout(j, i)',
                      log'[i].kind = "added"
               PROVE  log'[i].serial \in readings[j]
    BY <1>3 DEF AdditionsRead
  <2>1. CASE i = Len(log) + 1
    BY <1>1, <1>2, <2>1 DEF LastAbout
  <2>2. CASE i \in 1..Len(log)
    <3>1. LastAbout(j, i)
      BY <1>2, <2>2 DEF LastAbout
    <3> QED BY <1>2, <2>2, <3>1 DEF ReadInv, AdditionsRead
  <2> QED BY <1>2, <2>1, <2>2
<1>5. BusRead' /\ CurrentRead' /\ KnownRead'
  BY <1>3 DEF ReadInv, BusRead, OnBus, CurrentRead, Scanning, KnownRead, KeysOf
<1> QED BY <1>4, <1>5 DEF ReadInv

\* No step brings in a serial that could not be read.
LEMMA NextReadInv ==
  Inv /\ Inv' /\ P!LogTellsAnnounced /\ ReadInv /\ [Next]_vars => ReadInv'
<1> SUFFICES ASSUME Inv, P!LogTellsAnnounced, ReadInv, [Next]_vars PROVE ReadInv'
  OBVIOUS
<1> USE DEF busVars, ownerVars
<1>1. ASSUME NEW c \in Cameras, NEW a \in Addresses, Plug(c, a) PROVE ReadInv'
  BY <1>1, PlugReadInv DEF Inv
<1>2. ASSUME NEW a \in Addresses, Unplug(a) PROVE ReadInv'
  <2>1. \A b \in Addresses : bus'[b] # NoCamera => bus'[b] = bus[b]
    BY <1>2 DEF Unplug, Inv, TypeOK
  <2>2. BusRead'
    BY <1>2, <2>1 DEF Unplug, ReadInv, BusRead, OnBus
  <2> QED BY <1>2, <2>2, ReadFrame DEF Unplug, Scanning
<1>3. CASE ScanBegin
  BY <1>3, BeginReadInv
<1>4. ASSUME NEW n \in Addresses \X Nodes, VisitNode(n) PROVE ReadInv'
  BY <1>4, VisitReadInv
<1>5. ASSUME NEW k \in Keys, SendAdded(k) \/ SendRemoved(k) PROVE ReadInv'
  BY <1>5, SendReadInv
<1>6. CASE RemovedDone
  BY <1>6 DEF RemovedDone, ReadInv, BusRead, OnBus, CurrentRead, Scanning, KnownRead,
              KeysOf, AdditionsRead, LastAbout
<1>7. CASE UNCHANGED <<bus, known, current, log, readings>> /\ (Scanning' => Scanning)
  <2>1. BusRead'
    BY <1>7 DEF ReadInv, BusRead, OnBus
  <2> QED BY <1>7, <2>1, ReadFrame
<1>8. ASSUME NEW n \in Addresses \X Nodes, NodeFails(n) PROVE ReadInv'
  BY <1>7, <1>8 DEF NodeFails, Scanning
<1>9. CASE LoopExit \/ ReadDirFails \/ ScanEnd \/ AddedDone \/ SleepChunk \/ SleepDone
           \/ DropBegin \/ DropReturn \/ UNCHANGED vars
  BY <1>7, <1>9 DEF LoopExit, ReadDirFails, ScanEnd, AddedDone, SleepChunk, SleepDone,
                    DropBegin, DropReturn, vars, Scanning
<1> QED BY <1>1, <1>2, <1>3, <1>4, <1>5, <1>6, <1>8, <1>9 DEF Next, Watcher, Bus

\* Every serial that is kept or was sent could be read at its time.
LEMMA ReadInvHolds == Spec => []ReadInv
BY InitReadInv, InvHolds, LogTells, NextReadInv, PTL DEF Spec

\* A removal and the addition it takes back name serials that could be read of
\* cameras under that key since the walk began that announced it, whatever
\* addresses are handed out again and whatever reads fail (known = current).
THEOREM PairsAreExplained == Spec => PairsNameWhoWasThere
<1>1. Inv /\ ReadInv /\ P!LogTellsAnnounced =>
        \A k \in Keys : SendRemoved(k) =>
          /\ log'[Len(log')].serial \in readings[k]
          /\ \A i \in 1..Len(log) : LastAbout(k, i) => log[i].serial \in readings[k]
  <2> SUFFICES ASSUME Inv, ReadInv, P!LogTellsAnnounced, NEW k \in Keys, SendRemoved(k)
               PROVE  /\ log'[Len(log')].serial \in readings[k]
                      /\ \A i \in 1..Len(log) : LastAbout(k, i) => log[i].serial \in readings[k]
    OBVIOUS
  <2>1. k \in pending /\ pc = "remove" /\ k \in KeysOf(known)
    BY DEF SendRemoved, Inv, PendingOK
  <2>2. log'[Len(log')].serial = known[k]
    BY DEF SendRemoved, Removed, Inv, TypeOK
  <2>3. ASSUME NEW i \in 1..Len(log), LastAbout(k, i) PROVE log[i].serial \in readings[k]
    <3>1. k \in Announced
      BY <2>1 DEF Announced
    <3>2. PICK j \in 1..Len(log) : LastAbout(k, j) /\ log[j].kind = "added"
      BY <3>1 DEF P!LogTellsAnnounced, LastAbout
    <3>3. i = j
      BY <2>3, <3>2 DEF LastAbout, Inv, TypeOK
    <3> QED BY <3>2, <3>3 DEF ReadInv, AdditionsRead
  <2> QED BY <2>1, <2>2, <2>3 DEF ReadInv, KnownRead
<1> QED BY <1>1, InvHolds, ReadInvHolds, LogTells, PTL DEF PairsNameWhoWasThere
=============================================================================
