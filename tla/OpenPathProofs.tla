---------------------------- MODULE OpenPathProofs ----------------------------
(* Proofs about OpenPath, for any cameras, other webcams, addresses and    *)
(* node names, and any number of changes of the bus.                       *)
EXTENDS OpenPath, TLAPS

(* The bus: an address is one device's, a node's device is there, and a    *)
(* device that is there has a node.                                        *)
BusInv ==
  /\ \A d, e \in Devices : where[d] # NoAddress /\ where[d] = where[e] => d = e
  /\ \A n \in Names : owner[n] # NoDevice => where[owner[n]] # NoAddress
  /\ \A d \in Devices : where[d] # NoAddress => \E n \in Names : owner[n] = d

(* Whoever has the address now has been seen there.                        *)
ThereInv == Searching => \A d \in Devices : where[d] = info => d \in there

(* A matched node is vacant, or its device was seen at the address or has  *)
(* been given the node's name since.                                       *)
MatchInv == Searching => \A n \in matches : owner[n] \in there \cup heirs \cup {NoDevice}

(* So it is of the device behind the open file.                            *)
HandleInv == pc = "learn_mac" => handle \in there \cup heirs \cup {NoDevice}

(* Whoever has kept the address during the walk has all its nodes matched  *)
(* or still before it.                                                     *)
Kept == \E d \in Devices : /\ where[d] = info
                           /\ \A n \in Names : owner[n] = d => n \in unread \cup matches
WalkInv == pc = "match" /\ ~gap /\ faults = 0 => Kept

\* The first three of them, and the property that rests on them.
SafeInv == ThereInv /\ MatchInv /\ HandleInv /\ OpensWhoIsThere
FindInv == WalkInv /\ NotFoundIsTrue
Inv == TypeOK /\ BusInv /\ SafeInv /\ FindInv

\* NoDevice is no device, and NoAddress no address.
LEMMA Nobody ==
  /\ NoDevice \notin Devices /\ NoDevice \notin Cameras /\ Cameras \subseteq Devices
  /\ NoAddress \notin Addresses
BY ConstantsAssumption DEF ConstantsAssumption, Devices

\* At first nothing is listed.
LEMMA InitInv == Init => Inv
<1> SUFFICES ASSUME Init PROVE Inv
  OBVIOUS
<1>1. TypeOK
  <2>1. owner \in [Names -> Devices \cup {NoDevice}]
    BY DEF Init
  <2>2. where \in [Devices -> Addresses \cup {NoAddress}]
    BY DEF Init
  <2>3. changes \in 0..MaxChanges /\ faults \in 0..MaxFaults
    BY ConstantsAssumption DEF Init, ConstantsAssumption
  <2>4. /\ pc = "idle" /\ unread = {} /\ found = {} /\ info = NoAddress /\ matches = {}
        /\ node = 100 /\ handle = NoDevice /\ device = NoDevice /\ result = "none"
        /\ still = TRUE /\ there = {} /\ heirs = {} /\ gap = FALSE
    BY DEF Init
  <2> QED BY <2>1, <2>2, <2>3, <2>4 DEF TypeOK, Searching
<1>2. BusInv
  BY Nobody DEF Init, BusInv, NodesOf
<1>3. SafeInv /\ FindInv
  BY DEF Init, SafeInv, FindInv, ThereInv, MatchInv, HandleInv, WalkInv, OpensWhoIsThere,
         NotFoundIsTrue, Searching
<1> QED BY <1>1, <1>2, <1>3 DEF Inv

-----------------------------------------------------------------------------
(* Type correctness and the bus                                            *)

\* Every step keeps the types; what is listed is an address because a node's
\* device is there.
LEMMA NextType == TypeOK /\ BusInv /\ [Next]_vars => TypeOK'
<1> SUFFICES ASSUME TypeOK, BusInv, [Next]_vars PROVE TypeOK'
  OBVIOUS
<1> USE DEF Searching
<1>1. ASSUME NEW d \in Devices, NEW a \in Addresses, NEW ns \in SUBSET Names, Plug(d, a, ns)
      PROVE  TypeOK'
  <2>1. /\ owner' = [n \in Names |-> IF n \in ns THEN d ELSE owner[n]]
    BY <1>1 DEF Plug
  <2>2. where' \in [Devices -> Addresses \cup {NoAddress}]
    BY <1>1 DEF Plug, TypeOK
  <2>3. owner' \in [Names -> Devices \cup {NoDevice}]
    BY <2>1 DEF TypeOK
  <2>4. changes' \in 0..MaxChanges
    BY <1>1, ConstantsAssumption DEF Plug, TypeOK, ConstantsAssumption
  <2>5. there' \in SUBSET Devices /\ heirs' \in SUBSET Devices
    BY <1>1 DEF Plug, TypeOK
  <2>6. /\ still' \in BOOLEAN
        /\ UNCHANGED <<pc, unread, faults, found, info, matches, node, handle, device, result, gap>>
    BY <1>1 DEF Plug, walk
  <2> QED BY <2>2, <2>3, <2>4, <2>5, <2>6 DEF TypeOK
<1>2. ASSUME NEW d \in Devices, Unplug(d) PROVE TypeOK'
  <2>1. where' \in [Devices -> Addresses \cup {NoAddress}]
    BY <1>2 DEF Unplug, TypeOK
  <2>2. owner' \in [Names -> Devices \cup {NoDevice}]
    BY <1>2 DEF Unplug, TypeOK
  <2>3. changes' \in 0..MaxChanges
    BY <1>2, ConstantsAssumption DEF Unplug, TypeOK, ConstantsAssumption
  <2>4. handle' \in Devices \cup {NoDevice} /\ still' \in BOOLEAN
    BY <1>2 DEF Unplug, TypeOK
  <2>5. gap' \in BOOLEAN
    BY <1>2 DEF Unplug, TypeOK
  <2>6. UNCHANGED <<pc, unread, faults, found, info, matches, node, device, result, there, heirs>>
    BY <1>2 DEF Unplug, walk
  <2> QED BY <2>1, <2>2, <2>3, <2>4, <2>5, <2>6 DEF TypeOK
<1>3. CASE ListBegin
  BY <1>3, ConstantsAssumption DEF ListBegin, Forget, TypeOK, busVars, ConstantsAssumption
<1>4. ASSUME NEW n \in Names, ListNode(n) PROVE TypeOK'
  <2>1. found' \in SUBSET Addresses
    <3>1. owner[n] \in Cameras => where[owner[n]] \in Addresses
      BY Nobody DEF BusInv, TypeOK
    <3> QED BY <1>4, <3>1 DEF ListNode, TypeOK
  <2> QED BY <1>4, <2>1 DEF ListNode, TypeOK, busVars, history
<1>5. CASE ListEnd
  BY <1>5 DEF ListEnd, TypeOK, busVars, walk, history
<1>6. ASSUME NEW n \in Names, NodeFails(n) PROVE TypeOK'
  BY <1>6, ConstantsAssumption DEF NodeFails, TypeOK, busVars, history, ConstantsAssumption
<1>7. ASSUME NEW a \in Addresses, OpenBegin(a) PROVE TypeOK'
  <2>1. info' \in Addresses
    BY <1>7 DEF OpenBegin
  <2>2. info' # NoAddress
    BY <2>1, Nobody
  <2>3. UNCHANGED <<where, owner, changes, found>>
    BY <1>7 DEF OpenBegin, busVars
  <2>4. faults' \in 0..MaxFaults
    BY <1>7, ConstantsAssumption DEF OpenBegin, ConstantsAssumption
  <2>5. /\ pc' = "match" /\ unread' = Names /\ matches' = {} /\ node' = 100
        /\ handle' = NoDevice /\ device' = NoDevice /\ result' = "none"
        /\ still' = TRUE /\ there' = At(a) /\ heirs' = {} /\ gap' = (At(a) = {})
    BY <1>7 DEF OpenBegin, Forget
  <2>6. still' \in BOOLEAN /\ there' \in SUBSET Devices /\ heirs' \in SUBSET Devices /\ gap' \in BOOLEAN
    BY <2>5 DEF At
  <2> QED BY <2>1, <2>2, <2>3, <2>4, <2>5, <2>6 DEF TypeOK
<1>8. ASSUME NEW r \in {"NotFound", "Usb", "BadResponse"}, Fail(r) PROVE TypeOK'
  BY <1>8 DEF Fail, TypeOK, busVars, walk, history
<1>9. ASSUME NEW n \in Names, MatchNode(n) PROVE TypeOK'
  BY <1>9 DEF MatchNode, TypeOK, busVars, history
<1>10. ASSUME NEW n \in Names, SortAndTake(n) PROVE TypeOK'
  BY <1>10 DEF SortAndTake, IsFirst, TypeOK, busVars, walk, history
<1>11. CASE OpenNode
  BY <1>11 DEF OpenNode, TypeOK, busVars, walk, history
<1>12. CASE LearnMac
  BY <1>12, Nobody DEF LearnMac, TypeOK, busVars, walk, history
<1>13. CASE UNCHANGED vars
  BY <1>13 DEF vars, TypeOK, busVars, walk, history
<1> QED BY <1>1, <1>2, <1>3, <1>4, <1>5, <1>6, <1>7, <1>8, <1>9, <1>10, <1>11, <1>12, <1>13
        DEF Next, ReadDirFails, NotFound, OpenNodeFails, LearnMacFails

\* What opens and closes of the caller leave alone.
LEMMA BusKept == BusInv /\ UNCHANGED <<where, owner>> => BusInv'
BY DEF BusInv

\* Every step keeps the bus in order.
LEMMA NextBus == TypeOK /\ BusInv /\ [Next]_vars => BusInv'
<1> SUFFICES ASSUME TypeOK, BusInv, [Next]_vars PROVE BusInv'
  OBVIOUS
<1>1. ASSUME NEW d \in Devices, NEW a \in Addresses, NEW ns \in SUBSET Names, Plug(d, a, ns)
      PROVE  BusInv'
  <2>1. \A e \in Devices : where'[e] = IF e = d THEN a ELSE where[e]
    BY <1>1 DEF Plug, TypeOK
  <2>2. \A n \in Names : owner'[n] = IF n \in ns THEN d ELSE owner[n]
    BY <1>1 DEF Plug
  <2>3. a # NoAddress /\ d # NoDevice /\ where[d] = NoAddress /\ \A e \in Devices : where[e] # a
    BY <1>1, Nobody DEF Plug, At
  <2>4. \A n \in Names : owner[n] # NoDevice => owner[n] # d /\ where[owner[n]] # NoAddress /\ owner[n] \in Devices
    BY <2>3 DEF BusInv, TypeOK
  <2>5. \A n \in ns : owner[n] = NoDevice
    BY <1>1 DEF Plug
  <2>6. \E n \in Names : owner'[n] = d
    BY <1>1, <2>2 DEF Plug
  <2>7. \A e, f \in Devices : where'[e] # NoAddress /\ where'[e] = where'[f] => e = f
    BY <2>1, <2>3 DEF BusInv
  <2>8. \A n \in Names : owner'[n] # NoDevice => where'[owner'[n]] # NoAddress
    BY <2>1, <2>2, <2>3, <2>4
  <2>9. \A e \in Devices : where'[e] # NoAddress => \E n \in Names : owner'[n] = e
    <3> SUFFICES ASSUME NEW e \in Devices, where'[e] # NoAddress PROVE \E n \in Names : owner'[n] = e
      OBVIOUS
    <3>1. CASE e = d
      BY <2>6, <3>1
    <3>2. CASE e # d
      <4>1. PICK n \in Names : owner[n] = e
        BY <2>1, <3>2 DEF BusInv
      <4>2. owner[n] # NoDevice
        BY <4>1, Nobody
      <4> QED BY <2>2, <2>5, <4>1, <4>2
    <3> QED BY <3>1, <3>2
  <2> QED BY <2>7, <2>8, <2>9 DEF BusInv
<1>2. ASSUME NEW d \in Devices, Unplug(d) PROVE BusInv'
  <2>1. \A e \in Devices : where'[e] = IF e = d THEN NoAddress ELSE where[e]
    BY <1>2 DEF Unplug, TypeOK
  <2>2. \A n \in Names : owner'[n] = IF owner[n] = d THEN NoDevice ELSE owner[n]
    BY <1>2 DEF Unplug
  <2>3. \A e, f \in Devices : where'[e] # NoAddress /\ where'[e] = where'[f] => e = f
    BY <2>1 DEF BusInv
  <2>4. \A n \in Names : owner'[n] # NoDevice => where'[owner'[n]] # NoAddress
    BY <2>1, <2>2 DEF BusInv, TypeOK
  <2>5. \A e \in Devices : where'[e] # NoAddress => \E n \in Names : owner'[n] = e
    BY <2>1, <2>2 DEF BusInv
  <2> QED BY <2>3, <2>4, <2>5 DEF BusInv
<1>3. ASSUME NEW n \in Names, ListNode(n) \/ NodeFails(n) \/ MatchNode(n) \/ SortAndTake(n)
      PROVE  BusInv'
  BY <1>3, BusKept DEF ListNode, NodeFails, MatchNode, SortAndTake, busVars
<1>4. ASSUME NEW a \in Addresses, OpenBegin(a) PROVE BusInv'
  BY <1>4, BusKept DEF OpenBegin, busVars
<1>5. CASE ListBegin \/ ListEnd \/ ReadDirFails \/ NotFound \/ OpenNode \/ OpenNodeFails
           \/ LearnMac \/ LearnMacFails
  BY <1>5, BusKept DEF ListBegin, ListEnd, ReadDirFails, NotFound, OpenNode, OpenNodeFails,
                       LearnMac, LearnMacFails, Fail, busVars
<1>6. CASE UNCHANGED vars
  BY <1>6, BusKept DEF vars, busVars
<1> QED BY <1>1, <1>2, <1>3, <1>4, <1>5, <1>6 DEF Next

-----------------------------------------------------------------------------
(* The bus changes                                                         *)

\* A device appears: it is at no address that was taken.
LEMMA PlugInv ==
  ASSUME Inv, NEW d \in Devices, NEW a \in Addresses, NEW ns \in SUBSET Names, Plug(d, a, ns)
  PROVE  SafeInv' /\ FindInv'
<1>1. TypeOK /\ BusInv /\ SafeInv /\ FindInv
  BY DEF Inv
<1>2. /\ \A e \in Devices : where'[e] = IF e = d THEN a ELSE where[e]
      /\ \A n \in Names : owner'[n] = IF n \in ns THEN d ELSE owner[n]
      /\ there' = IF Searching /\ a = info THEN there \cup {d} ELSE there
      /\ heirs' = IF Searching /\ ns \cap matches # {} THEN heirs \cup {d} ELSE heirs
      /\ UNCHANGED <<pc, unread, faults, found, info, matches, node, handle, device, result, gap>>
  BY <1>1 DEF Plug, TypeOK, walk
<1>3. /\ where[d] = NoAddress /\ \A n \in ns : owner[n] = NoDevice
      /\ \A e \in Devices : where[e] # a
  BY DEF Plug, At
<1>4. there \subseteq there' /\ heirs \subseteq heirs' /\ (Searching' <=> Searching)
  BY <1>2 DEF Searching
<1>5. ThereInv'
  BY <1>1, <1>2, <1>4 DEF SafeInv, ThereInv
<1>6. MatchInv'
  <2> SUFFICES ASSUME Searching, NEW n \in matches
               PROVE  owner'[n] \in there' \cup heirs' \cup {NoDevice}
    BY <1>2, <1>4 DEF MatchInv
  <2>1. n \in Names
    BY <1>1 DEF TypeOK
  <2>2. CASE n \in ns
    BY <1>2, <2>1, <2>2
  <2>3. CASE n \notin ns
    BY <1>1, <1>2, <1>4, <2>1, <2>3 DEF SafeInv, MatchInv
  <2> QED BY <2>2, <2>3
<1>7. Searching => info \in Addresses
  BY <1>1 DEF TypeOK
<1>8. HandleInv' /\ OpensWhoIsThere'
  BY <1>1, <1>2, <1>4 DEF SafeInv, HandleInv, OpensWhoIsThere
<1>9. FindInv'
  <2>1. ASSUME pc = "match", Kept PROVE Kept'
    <3>1. PICK e \in Devices : /\ where[e] = info
                               /\ \A n \in Names : owner[n] = e => n \in unread \cup matches
      BY <2>1 DEF Kept
    <3>2. info \in Addresses
      BY <1>7, <2>1 DEF Searching
    <3>3. e # d /\ where'[e] = info'
      BY <1>2, <1>3, <3>1, <3>2, Nobody
    <3>4. \A n \in Names : owner'[n] = e => n \in unread' \cup matches'
      BY <1>2, <3>1, <3>3
    <3> QED BY <3>3, <3>4 DEF Kept
  <2> QED BY <1>1, <1>2, <2>1 DEF FindInv, WalkInv, NotFoundIsTrue
<1> QED BY <1>5, <1>6, <1>8, <1>9 DEF SafeInv

\* A device goes: what was matched of it is vacated, and an open file of it dead.
LEMMA UnplugInv ==
  ASSUME Inv, NEW d \in Devices, Unplug(d)
  PROVE  SafeInv' /\ FindInv'
<1>1. TypeOK /\ BusInv /\ SafeInv /\ FindInv
  BY DEF Inv
<1>2. /\ \A e \in Devices : where'[e] = IF e = d THEN NoAddress ELSE where[e]
      /\ \A n \in Names : owner'[n] = IF owner[n] = d THEN NoDevice ELSE owner[n]
      /\ UNCHANGED <<pc, unread, faults, found, info, matches, node, device, result, there, heirs>>
  BY <1>1 DEF Unplug, TypeOK, walk
<1>3. /\ handle' = handle \/ handle' = NoDevice
      /\ gap' = (gap \/ where[d] = info)
  BY DEF Unplug
<1>4. ThereInv'
  <2>1. Searching => info # NoAddress
    BY <1>1 DEF TypeOK
  <2> QED BY <1>1, <1>2, <2>1 DEF SafeInv, ThereInv, Searching
<1>5. MatchInv'
  BY <1>1, <1>2 DEF SafeInv, MatchInv, Searching, TypeOK
<1>6. HandleInv' /\ OpensWhoIsThere'
  BY <1>1, <1>2, <1>3 DEF SafeInv, HandleInv, OpensWhoIsThere
<1>7. FindInv'
  <2>1. ASSUME Kept, where[d] # info PROVE Kept'
    <3>1. PICK e \in Devices : /\ where[e] = info
                               /\ \A n \in Names : owner[n] = e => n \in unread \cup matches
      BY <2>1 DEF Kept
    <3>2. where'[e] = info'
      BY <1>2, <2>1, <3>1
    <3>3. \A n \in Names : owner'[n] = e => n \in unread' \cup matches'
      BY <1>2, <3>1, Nobody
    <3> QED BY <3>2, <3>3 DEF Kept
  <2> QED BY <1>1, <1>2, <1>3, <2>1 DEF FindInv, WalkInv, NotFoundIsTrue
<1> QED BY <1>4, <1>5, <1>6, <1>7 DEF SafeInv

-----------------------------------------------------------------------------
(* The list                                                                *)

\* A new list forgets what was listed and opened.
LEMMA ListBeginInv == ListBegin => SafeInv' /\ FindInv'
BY DEF ListBegin, Forget, SafeInv, FindInv, ThereInv, MatchInv, HandleInv, WalkInv,
       OpensWhoIsThere, NotFoundIsTrue, Searching

\* A listing leaves alone what is known of an earlier open.
LEMMA ListNodeInv ==
  ASSUME Inv, NEW n \in Names, ListNode(n)
  PROVE  SafeInv' /\ FindInv'
BY DEF Inv, ListNode, SafeInv, FindInv, ThereInv, MatchInv, HandleInv, WalkInv,
       OpensWhoIsThere, NotFoundIsTrue, Searching, busVars, history

\* The end of the list, and a node passed over.
LEMMA ListEndInv == Inv /\ ListEnd => SafeInv' /\ FindInv'
BY DEF Inv, ListEnd, SafeInv, FindInv, ThereInv, MatchInv, HandleInv, WalkInv,
       OpensWhoIsThere, NotFoundIsTrue, Searching, busVars, walk, history

LEMMA NodeFailsInv ==
  ASSUME Inv, NEW n \in Names, NodeFails(n)
  PROVE  SafeInv' /\ FindInv'
<1>1. TypeOK /\ SafeInv /\ FindInv
  BY DEF Inv
<1>2. /\ pc \in {"list", "match"} /\ faults' = faults + 1
      /\ UNCHANGED <<where, owner, pc, found, info, matches, handle, device, result,
                     there, heirs, gap>>
  BY DEF NodeFails, busVars, history
<1>3. faults' # 0 /\ faults' > 0
  BY <1>1, <1>2, ConstantsAssumption DEF TypeOK, ConstantsAssumption
<1>4. ThereInv' /\ MatchInv'
  BY <1>1, <1>2 DEF SafeInv, ThereInv, MatchInv, Searching
<1>5. HandleInv' /\ OpensWhoIsThere'
  BY <1>1, <1>2 DEF SafeInv, HandleInv, OpensWhoIsThere
<1> QED BY <1>3, <1>4, <1>5 DEF SafeInv, FindInv, WalkInv, NotFoundIsTrue

-----------------------------------------------------------------------------
(* The open                                                                *)

\* At the start every node is unread.
LEMMA OpenBeginInv ==
  ASSUME Inv, NEW a \in Addresses, OpenBegin(a)
  PROVE  SafeInv' /\ FindInv'
<1>1. TypeOK /\ SafeInv
  BY DEF Inv
<1>2. /\ pc' = "match" /\ info' = a /\ unread' = Names
      /\ matches' = {} /\ device' = NoDevice /\ result' = "none"
      /\ there' = At(a) /\ gap' = (At(a) = {})
      /\ UNCHANGED <<where, owner, found>>
  BY DEF OpenBegin, Forget, busVars
<1>3. ThereInv' /\ MatchInv'
  BY <1>2 DEF ThereInv, MatchInv, At
<1>4. HandleInv' /\ OpensWhoIsThere'
  BY <1>2 DEF HandleInv, OpensWhoIsThere
<1>5. ASSUME ~gap' PROVE Kept'
  <2>1. PICK d \in Devices : where[d] = a
    BY <1>2, <1>5 DEF At
  <2>2. where'[d] = info' /\ \A n \in Names : n \in unread' \cup matches'
    BY <1>2, <2>1
  <2> QED BY <2>2 DEF Kept
<1> QED BY <1>2, <1>3, <1>4, <1>5 DEF SafeInv, FindInv, WalkInv, NotFoundIsTrue

\* A node of the address is kept, whoever owns the address.
LEMMA MatchNodeInv ==
  ASSUME Inv, NEW n \in Names, MatchNode(n)
  PROVE  SafeInv' /\ FindInv'
<1>1. TypeOK /\ SafeInv /\ FindInv
  BY DEF Inv
<1>2. /\ pc = "match" /\ unread' = unread \ {n}
      /\ matches' = IF Matches(n, info) THEN matches \cup {n} ELSE matches
      /\ UNCHANGED <<where, owner, pc, faults, found, info, handle, device, result,
                     there, heirs, gap>>
  BY DEF MatchNode, busVars, history
<1>3. MatchInv'
  <2>1. Matches(n, info) => owner[n] \in there
    BY <1>1, <1>2 DEF Matches, SafeInv, ThereInv, Searching, TypeOK
  <2> QED BY <1>1, <1>2, <2>1 DEF SafeInv, MatchInv, Searching
<1>4. ThereInv' /\ HandleInv' /\ OpensWhoIsThere'
  BY <1>1, <1>2 DEF SafeInv, ThereInv, Searching, HandleInv, OpensWhoIsThere
<1>5. ASSUME Kept PROVE Kept'
  <2>1. PICK d \in Devices : /\ where[d] = info
                             /\ \A m \in Names : owner[m] = d => m \in unread \cup matches
    BY <1>5 DEF Kept
  <2>2. owner[n] = d => n \in matches'
    BY <1>2, <2>1, Nobody DEF Matches
  <2>3. \A m \in Names : owner'[m] = d => m \in unread' \cup matches'
    BY <1>2, <2>1, <2>2
  <2>4. where'[d] = info'
    BY <1>2, <2>1
  <2> QED BY <2>3, <2>4 DEF Kept
<1>6. FindInv'
  BY <1>1, <1>2, <1>5 DEF FindInv, WalkInv, NotFoundIsTrue
<1> QED BY <1>3, <1>4, <1>6 DEF SafeInv

\* An error ends the open; NotFound is not one of them.
LEMMA FailInv ==
  ASSUME Inv, NEW r, r # "NotFound", Fail(r)
  PROVE  SafeInv' /\ FindInv'
BY DEF Inv, Fail, SafeInv, FindInv, ThereInv, MatchInv, HandleInv, WalkInv, OpensWhoIsThere,
       NotFoundIsTrue, Searching, busVars, walk, history

\* No match: whoever kept the address would have a node, and that be matched.
LEMMA NotFoundInv ==
  ASSUME Inv, NotFound
  PROVE  SafeInv' /\ FindInv'
<1>1. TypeOK /\ BusInv /\ SafeInv /\ FindInv
  BY DEF Inv
<1>2. /\ pc = "match" /\ unread = {} /\ matches = {} /\ pc' = "idle"
      /\ UNCHANGED <<where, owner, faults, found, info, device, there, heirs, gap>>
  BY DEF NotFound, Fail, busVars, walk, history
<1>3. SafeInv'
  BY <1>1, <1>2 DEF SafeInv, ThereInv, MatchInv, Searching, HandleInv, OpensWhoIsThere
<1>4. ~ Kept
  <2> SUFFICES ASSUME NEW d \in Devices, where[d] = info,
                      \A n \in Names : owner[n] = d => n \in unread \cup matches
               PROVE  FALSE
    BY DEF Kept
  <2>1. where[d] # NoAddress
    BY <1>1, <1>2, Nobody DEF TypeOK, Searching
  <2> QED BY <1>1, <1>2, <2>1 DEF BusInv
<1>5. gap \/ faults # 0
  BY <1>1, <1>2, <1>4 DEF FindInv, WalkInv
<1>6. faults # 0 => faults > 0
  BY <1>1, ConstantsAssumption DEF TypeOK, ConstantsAssumption
<1> QED BY <1>2, <1>3, <1>5, <1>6 DEF FindInv, WalkInv, NotFoundIsTrue

\* The choice among the matches.
LEMMA SortAndTakeInv ==
  ASSUME Inv, NEW n \in Names, SortAndTake(n)
  PROVE  SafeInv' /\ FindInv'
<1>1. SafeInv /\ FindInv
  BY DEF Inv
<1>2. /\ pc = "match" /\ pc' = "open"
      /\ UNCHANGED <<where, owner, faults, found, info, matches, device, result, there, heirs, gap>>
  BY DEF SortAndTake, busVars, walk, history
<1>3. ThereInv' /\ MatchInv'
  BY <1>1, <1>2 DEF SafeInv, ThereInv, MatchInv, Searching
<1>4. HandleInv' /\ OpensWhoIsThere'
  BY <1>1, <1>2 DEF SafeInv, HandleInv, OpensWhoIsThere
<1> QED BY <1>1, <1>2, <1>3, <1>4 DEF SafeInv, FindInv, WalkInv, NotFoundIsTrue

\* What is opened is whoever has the chosen node, which is a matched one.
LEMMA OpenNodeInv ==
  ASSUME Inv, OpenNode
  PROVE  SafeInv' /\ FindInv'
<1>1. TypeOK /\ SafeInv /\ FindInv
  BY DEF Inv
<1>2. /\ pc = "open" /\ pc' = "learn_mac" /\ handle' = owner[node] /\ owner[node] # NoDevice
      /\ UNCHANGED <<where, owner, faults, found, info, device, result, there, heirs, gap>>
  BY DEF OpenNode, busVars, walk, history
<1>3. HandleInv'
  <2>1. node \in matches /\ Searching
    BY <1>1, <1>2 DEF TypeOK, Searching
  <2> QED BY <1>1, <1>2, <2>1 DEF SafeInv, MatchInv, HandleInv
<1>4. ThereInv' /\ MatchInv' /\ OpensWhoIsThere'
  BY <1>1, <1>2 DEF SafeInv, ThereInv, MatchInv, Searching, OpensWhoIsThere
<1>5. FindInv'
  BY <1>1, <1>2 DEF FindInv, WalkInv, NotFoundIsTrue
<1> QED BY <1>3, <1>4, <1>5 DEF SafeInv

\* A camera answered over the open file.
LEMMA LearnMacInv ==
  ASSUME Inv, LearnMac
  PROVE  SafeInv' /\ FindInv'
<1>1. TypeOK /\ SafeInv
  BY DEF Inv
<1>2. /\ pc = "learn_mac" /\ handle \in Cameras /\ pc' = "idle" /\ device' = handle
      /\ result' = "ok"
      /\ UNCHANGED <<where, owner, found, info, there, heirs>>
  BY DEF LearnMac, busVars, walk, history
<1>3. OpensWhoIsThere'
  BY <1>1, <1>2, Nobody DEF SafeInv, HandleInv, OpensWhoIsThere
<1>4. ThereInv' /\ MatchInv'
  BY <1>2 DEF ThereInv, MatchInv, Searching
<1> QED BY <1>2, <1>3, <1>4
        DEF SafeInv, FindInv, HandleInv, WalkInv, NotFoundIsTrue

\* Nothing happens.
LEMMA StutterInv == Inv /\ UNCHANGED vars => SafeInv' /\ FindInv'
BY DEF Inv, vars, busVars, walk, history, SafeInv, FindInv, ThereInv, MatchInv, HandleInv,
       WalkInv, Kept, OpensWhoIsThere, NotFoundIsTrue, Searching

\* The invariant is inductive.
LEMMA NextInv == Inv /\ [Next]_vars => Inv'
<1> SUFFICES ASSUME Inv, [Next]_vars PROVE Inv'
  OBVIOUS
<1>1. TypeOK' /\ BusInv'
  BY NextType, NextBus DEF Inv
<1>2. SafeInv' /\ FindInv'
  <2>1. CASE \E d \in Devices : Unplug(d) \/ \E a \in Addresses, ns \in SUBSET Names : Plug(d, a, ns)
    BY <2>1, PlugInv, UnplugInv
  <2>2. CASE \E n \in Names : ListNode(n) \/ NodeFails(n) \/ MatchNode(n) \/ SortAndTake(n)
    BY <2>2, ListNodeInv, NodeFailsInv, MatchNodeInv, SortAndTakeInv
  <2>3. CASE \E a \in Addresses : OpenBegin(a)
    BY <2>3, OpenBeginInv
  <2>4. CASE ListBegin \/ ListEnd
    BY <2>4, ListBeginInv, ListEndInv
  <2>5. CASE ReadDirFails \/ OpenNodeFails \/ LearnMacFails
    <3>1. PICK r \in {"Usb", "BadResponse"} : Fail(r)
      BY <2>5 DEF ReadDirFails, OpenNodeFails, LearnMacFails
    <3>2. r # "NotFound"
      OBVIOUS
    <3> QED BY <3>1, <3>2, FailInv
  <2>6. CASE NotFound \/ OpenNode \/ LearnMac
    BY <2>6, NotFoundInv, OpenNodeInv, LearnMacInv
  <2>7. CASE UNCHANGED vars
    BY <2>7, StutterInv
  <2> QED BY <2>1, <2>2, <2>3, <2>4, <2>5, <2>6, <2>7 DEF Next
<1> QED BY <1>1, <1>2 DEF Inv

\* The invariant holds of every behaviour.
LEMMA InvHolds == Spec => []Inv
BY InitInv, NextInv, PTL DEF Spec

-----------------------------------------------------------------------------
(* A bus at rest                                                           *)

(* While the bus rests and all is readable, the matches are the nodes of   *)
(* the address, those not visited yet aside; the chosen one is the first   *)
(* of them, and the open file is that of its device.                       *)
Chosen ==
  /\ \A n \in Names : Matches(n, info) => n \in matches
  /\ \A m \in matches : Lexical(node) <= Lexical(m)

AtRest ==
  /\ pc = "match" =>
       \A n \in Names : Matches(n, info) => n \in matches \cup unread
  /\ pc \in {"match", "open", "learn_mac"} => \A n \in matches : Matches(n, info)
  /\ pc \in {"open", "learn_mac"} => Chosen
  /\ pc = "learn_mac" => handle = owner[node]

RestInv == (still /\ faults = 0 => AtRest) /\ SameNodeEachTime

\* What neither the open nor the bus has a part in.
LEMMA RestKept ==
  ASSUME RestInv, pc' \in {"idle", "list"},
         UNCHANGED <<where, owner, node, device, still>>, faults' = 0 => faults = 0
  PROVE  RestInv'
BY DEF RestInv, AtRest, SameNodeEachTime, NodesOf

\* One more node is visited: it is matched or it is not of the address.
LEMMA RestMatchNode ==
  ASSUME TypeOK, RestInv, NEW n \in Names, MatchNode(n)
  PROVE  RestInv'
<1>1. /\ pc = "match" /\ pc' = "match" /\ unread' = unread \ {n}
      /\ matches' = IF Matches(n, info) THEN matches \cup {n} ELSE matches
      /\ UNCHANGED <<where, owner, faults, info, node, handle, device, still>>
  BY DEF MatchNode, busVars, history
<1>2. still /\ faults = 0 => AtRest'
  BY <1>1 DEF RestInv, AtRest, Matches
<1>3. SameNodeEachTime'
  BY <1>1 DEF RestInv, SameNodeEachTime, NodesOf
<1> QED BY <1>1, <1>2, <1>3 DEF RestInv

\* The first of the matches is the first node of the address.
LEMMA RestSortAndTake ==
  ASSUME TypeOK, RestInv, device = NoDevice, NEW n \in Names, SortAndTake(n)
  PROVE  RestInv'
<1>1. /\ pc = "match" /\ pc' = "open" /\ unread = {} /\ node' = n
      /\ \A m \in matches : Lexical(n) <= Lexical(m)
      /\ UNCHANGED <<where, owner, faults, info, matches, handle, device, still>>
  BY DEF SortAndTake, IsFirst, busVars, walk, history
<1>2. still /\ faults = 0 => AtRest'
  BY <1>1 DEF RestInv, AtRest, Chosen, Matches
<1> QED BY <1>1, <1>2 DEF RestInv, SameNodeEachTime

\* The device made is the owner of the chosen node, and its nodes are those
\* of the address.
LEMMA RestLearnMac ==
  ASSUME TypeOK, RestInv, LearnMac
  PROVE  RestInv'
<1>1. /\ pc = "learn_mac" /\ pc' = "idle" /\ device' = handle /\ handle \in Cameras
      /\ UNCHANGED <<where, owner, faults, info, matches, node, still>>
  BY DEF LearnMac, busVars, walk, history
<1>2. node \in matches /\ node \in Names
  BY <1>1 DEF TypeOK
<1>3. ASSUME still, faults = 0 
      PROVE  node \in NodesOf(handle) /\ \A m \in NodesOf(handle) : Lexical(node) <= Lexical(m)
  <2>1. AtRest
    BY <1>3 DEF RestInv
  <2>2. handle = owner[node] /\ Matches(node, info) /\ Chosen
    BY <1>1, <1>2, <2>1 DEF AtRest
  <2>3. \A m \in NodesOf(handle) : m \in matches
    BY <2>2 DEF NodesOf, Matches, Chosen
  <2> QED BY <1>2, <2>2, <2>3 DEF NodesOf, Chosen
<1>4. SameNodeEachTime'
  BY <1>1, <1>3 DEF SameNodeEachTime, NodesOf
<1> QED BY <1>1, <1>4 DEF RestInv, AtRest

\* While an open is under way there is no Device of it.
OpenInv == pc \in {"match", "open", "learn_mac"} => device = NoDevice

LEMMA NextOpenInv == OpenInv /\ [Next]_vars => OpenInv'
BY DEF OpenInv, Next, vars, busVars, walk, history, Plug, Unplug, ListBegin, ListNode, ListEnd,
       NodeFails, OpenBegin, MatchNode, ReadDirFails, NotFound, SortAndTake, OpenNode,
       OpenNodeFails, LearnMac, LearnMacFails, Fail, Forget

\* Every step keeps what holds of a bus at rest; a change of the bus ends it.
LEMMA NextRest == TypeOK /\ OpenInv /\ RestInv /\ [Next]_vars => RestInv'
<1> SUFFICES ASSUME TypeOK, OpenInv, RestInv, [Next]_vars PROVE RestInv'
  OBVIOUS
<1>1. CASE \E d \in Devices : Unplug(d) \/ \E a \in Addresses, ns \in SUBSET Names : Plug(d, a, ns)
  BY <1>1 DEF Unplug, Plug, RestInv, SameNodeEachTime
<1>2. ASSUME NEW n \in Names, ListNode(n) PROVE RestInv'
  BY <1>2, RestKept DEF ListNode, busVars, history
<1>3. ASSUME NEW n \in Names, NodeFails(n) PROVE RestInv'
  <2>1. faults' # 0
    BY <1>3, ConstantsAssumption DEF NodeFails, TypeOK, ConstantsAssumption
  <2> QED BY <2>1 DEF RestInv, SameNodeEachTime
<1>4. ASSUME NEW n \in Names, MatchNode(n) \/ SortAndTake(n) PROVE RestInv'
  <2>1. SortAndTake(n) => device = NoDevice
    BY DEF OpenInv, SortAndTake
  <2> QED BY <1>4, <2>1, RestMatchNode, RestSortAndTake
<1>5. ASSUME NEW a \in Addresses, OpenBegin(a) PROVE RestInv'
  BY <1>5 DEF OpenBegin, Forget, RestInv, AtRest, SameNodeEachTime
<1>6. CASE ListBegin
  BY <1>6 DEF ListBegin, Forget, RestInv, AtRest, SameNodeEachTime
<1>7. CASE ListEnd
  BY <1>7, RestKept DEF ListEnd, busVars, walk, history
<1>8. ASSUME NEW r, Fail(r) PROVE RestInv'
  BY <1>8, RestKept DEF Fail, busVars, walk, history
<1>9. CASE OpenNode
  <2>1. /\ pc = "open" /\ pc' = "learn_mac" /\ handle' = owner[node]
        /\ UNCHANGED <<where, owner, faults, info, matches, node, device, still>>
    BY <1>9 DEF OpenNode, busVars, walk, history
  <2>2. still /\ faults = 0 => AtRest'
    BY <2>1 DEF RestInv, AtRest, Chosen, Matches
  <2> QED BY <2>1, <2>2 DEF RestInv, OpenInv, SameNodeEachTime
<1>10. CASE LearnMac
  BY <1>10, RestLearnMac
<1>11. CASE UNCHANGED vars
  BY <1>11 DEF vars, busVars, walk, history, RestInv, AtRest, Chosen, Matches,
               SameNodeEachTime, NodesOf
<1> QED BY <1>1, <1>2, <1>3, <1>4, <1>5, <1>6, <1>7, <1>8, <1>9, <1>10, <1>11
        DEF Next, ReadDirFails, NotFound, OpenNodeFails, LearnMacFails

-----------------------------------------------------------------------------
(* The theorems                                                            *)

\* Every state reached is well typed (list, open and open_for).
THEOREM TypeCorrect == Spec => []TypeOK
<1>1. Inv => TypeOK
  BY DEF Inv
<1> QED BY <1>1, InvHolds, PTL

\* Whatever the age of the info and the changes of the bus, open returns what had
\* its address at some moment of the call, or was given the name of a node found
\* there (Devices::open, open_for).
THEOREM OpenedWasThere == Spec => []OpensWhoIsThere
<1>1. Inv => OpensWhoIsThere
  BY DEF Inv, SafeInv
<1> QED BY <1>1, InvHolds, PTL

\* NotFound means that the camera was away or could not be read (open_for).
THEOREM NotFoundIsTheTruth == Spec => []NotFoundIsTrue
<1>1. Inv => NotFoundIsTrue
  BY DEF Inv, FindInv
<1> QED BY <1>1, InvHolds, PTL

\* On a bus at rest open takes the first node of the camera by name, in whatever
\* order the directory lists them (open_for: sort, then the first).
THEOREM FirstNodeEachTime == Spec => []SameNodeEachTime
<1>1. Init => OpenInv /\ RestInv
  BY DEF Init, OpenInv, RestInv, AtRest, SameNodeEachTime
<1>2. Inv => TypeOK
  BY DEF Inv
<1>3. RestInv => SameNodeEachTime
  BY DEF RestInv
<1> QED BY <1>1, <1>2, <1>3, InvHolds, NextOpenInv, NextRest, PTL DEF Spec
=============================================================================
