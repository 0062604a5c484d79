-------------------------- MODULE EventChannelProofs --------------------------
(* Proofs about EventChannel, for any subscribers, any cameras and any      *)
(* number of events.                                                        *)
EXTENDS EventChannel, TLAPS

USE ConstantsAssumption DEF ConstantsAssumption

(* Who holds a sender or a receiver follows from where each owner and each  *)
(* thread is.                                                               *)
HoldersInv ==
  /\ "registry" \in receivers <=> registry # "dropped"
  /\ "registry" \in senders <=> registry \in {"alive", "joining", "joined"}
  /\ \A t \in Threads : t \in senders <=> pc[t] \in {"test", "send"}
  /\ stop["watcher"] <=> registry # "alive"
  /\ pc["watcher"] # "unborn"
  /\ pc["watcher"] = "exited" => stop["watcher"]
  /\ registry \in {"joined", "txDropped", "dropped"} => pc["watcher"] = "exited"

LifeInv == TypeOK /\ HoldersInv

(* The first part of the inductive step, one lemma per group of actions.    *)

\* The owner of Devices.
LEMMA RegistryLife == ASSUME LifeInv, DropBegin \/ Drop PROVE LifeInv'
<1> USE DEF LifeInv, owners, channel, Threads
<1>1. CASE DropBegin
  BY <1>1 DEF DropBegin, TypeOK, HoldersInv
<1>2. CASE DropJoined
  BY <1>2 DEF DropJoined, TypeOK, HoldersInv
<1>3. CASE DropTx
  BY <1>3 DEF DropTx, TypeOK, HoldersInv
<1>4. CASE DropRx
  <2>1. queue' \in Seq(Event) /\ receivers' \in SUBSET ({"registry"} \cup Subscribers)
    BY <1>4 DEF DropRx, LoseReceiver, TypeOK
  <2>2. TypeOK'
    BY <1>4, <2>1 DEF DropRx, LoseReceiver, TypeOK
  <2>3. HoldersInv'
    BY <1>4 DEF DropRx, LoseReceiver, HoldersInv
  <2> QED BY <2>2, <2>3
<1> QED BY <1>1, <1>2, <1>3, <1>4 DEF Drop

\* The owners of the Devices.
LEMMA DeviceLife ==
  ASSUME LifeInv, NEW c \in Cameras, open(c) \/ CloseBegin(c) \/ CloseReturn(c)
  PROVE  LifeInv'
<1> USE DEF LifeInv, owners, channel, Threads
<1>0. c \in Threads /\ c # "watcher" /\ c # "registry"
  OBVIOUS
<1>1. CASE open(c)
  <2>1. TypeOK'
    BY <1>0, <1>1 DEF open, TypeOK
  <2>2. HoldersInv'
    BY <1>0, <1>1 DEF open, TypeOK, HoldersInv
  <2> QED BY <2>1, <2>2
<1>2. CASE CloseBegin(c)
  <2>1. TypeOK'
    BY <1>0, <1>2 DEF CloseBegin, TypeOK
  <2>2. HoldersInv'
    BY <1>0, <1>2 DEF CloseBegin, TypeOK, HoldersInv
  <2> QED BY <2>1, <2>2
<1>3. CASE CloseReturn(c)
  BY <1>0, <1>3 DEF CloseReturn, TypeOK, HoldersInv
<1> QED BY <1>1, <1>2, <1>3

\* The threads.
LEMMA ThreadLife ==
  ASSUME LifeInv, NEW t \in Threads, Loop(t) \/ NoMoreChanges
  PROVE  LifeInv'
<1> USE DEF LifeInv, owners, channel
<1>0. "watcher" \in Threads /\ "registry" \notin Threads
  BY DEF Threads
<1>1. CASE LoopExit(t)
  <2>1. TypeOK'
    BY <1>1 DEF LoopExit, Exit, TypeOK
  <2>2. HoldersInv'
    BY <1>0, <1>1 DEF LoopExit, Exit, TypeOK, HoldersInv
  <2> QED BY <2>1, <2>2
<1>2. CASE LoopEnter(t)
  <2>1. TypeOK'
    BY <1>2 DEF LoopEnter, TypeOK
  <2>2. HoldersInv'
    BY <1>0, <1>2 DEF LoopEnter, TypeOK, HoldersInv
  <2> QED BY <2>1, <2>2
<1>3. CASE Send(t)
  <2>1. [from |-> t, seq |-> sent[t] + 1] \in Event /\ sent[t] + 1 \in Nat
    BY <1>3 DEF Send, TypeOK, Event
  <2>2. pc' \in [Threads -> {"unborn", "test", "send", "exited"}]
    <3>1. pc \in [Threads -> {"unborn", "test", "send", "exited"}]
      BY DEF TypeOK
    <3>2. pc' = [pc EXCEPT ![t] = "test"] \/ pc' = pc
      BY <1>3 DEF Send
    <3> QED BY <3>1, <3>2
  <2>3. TypeOK'
    <3>1. queue' \in Seq(Event)
      BY <1>3, <2>1 DEF Send, TypeOK
    <3>2. sent' \in [Threads -> Nat]
      BY <1>3, <2>1 DEF Send, TypeOK
    <3> QED BY <1>3, <2>2, <3>1, <3>2 DEF Send, TypeOK
  <2>4. HoldersInv'
    BY <1>0, <1>3 DEF Send, TypeOK, HoldersInv
  <2> QED BY <2>3, <2>4
<1>4. CASE SendFails(t)
  <2>1. TypeOK'
    BY <1>4 DEF SendFails, Exit, TypeOK
  <2>2. t # "watcher"
    BY <1>4 DEF SendFails, HoldersInv
  <2>3. HoldersInv'
    BY <1>0, <1>4, <2>2 DEF SendFails, Exit, TypeOK, HoldersInv
  <2> QED BY <2>1, <2>3
<1>5. CASE NoMoreChanges
  <2>1. TypeOK'
    BY <1>5 DEF NoMoreChanges, TypeOK
  <2>2. HoldersInv'
    BY <1>0, <1>5 DEF NoMoreChanges, TypeOK, HoldersInv
  <2> QED BY <2>1, <2>2
<1> QED BY <1>1, <1>2, <1>3, <1>4, <1>5 DEF Loop

Subscriber(s) == events(s) \/ RecvBegin(s) \/ Recv(s) \/ RecvTimeout(s) \/ DropReceiver(s)

\* The subscribers.
LEMMA SubscriberLife ==
  ASSUME LifeInv, NEW s \in Subscribers, Subscriber(s)
  PROVE  LifeInv'
<1> USE DEF LifeInv, owners, channel
<1>0. s # "registry"
  OBVIOUS
<1>1. CASE events(s)
  <2>1. TypeOK'
    BY <1>1 DEF events, TypeOK
  <2>2. HoldersInv'
    BY <1>0, <1>1 DEF events, HoldersInv
  <2> QED BY <2>1, <2>2
<1>2. CASE RecvBegin(s)
  <2>1. TypeOK'
    BY <1>2 DEF RecvBegin, TypeOK
  <2> QED BY <1>2, <2>1 DEF RecvBegin, HoldersInv
<1>3. CASE RecvEvent(s)
  <2>1. Head(queue) \in Event /\ Tail(queue) \in Seq(Event)
    BY <1>3 DEF RecvEvent, TypeOK
  <2>2. got' \in [Subscribers -> Seq(Event)]
    BY <1>3, <2>1 DEF RecvEvent, TypeOK
  <2>3. TypeOK'
    BY <1>3, <2>1, <2>2 DEF RecvEvent, TypeOK
  <2> QED BY <1>3, <2>3 DEF RecvEvent, HoldersInv
<1>4. CASE RecvTimeout(s)
  <2>1. TypeOK'
    BY <1>4 DEF RecvTimeout, TypeOK
  <2> QED BY <1>4, <2>1 DEF RecvTimeout, HoldersInv
<1>5. CASE RecvDisconnected(s) \/ DropReceiver(s)
  <2>1. /\ queue' \in Seq(Event) /\ receivers' \in SUBSET ({"registry"} \cup Subscribers)
        /\ sub' \in [Subscribers -> {"none", "idle", "waiting", "ended"}]
    <3>1. sub' = [sub EXCEPT ![s] = "ended"] /\ LoseReceiver(s)
      BY <1>5 DEF RecvDisconnected, DropReceiver
    <3>2. queue' \in Seq(Event)
      BY <3>1 DEF LoseReceiver, TypeOK
    <3>3. receivers' \in SUBSET ({"registry"} \cup Subscribers)
      BY <3>1 DEF LoseReceiver, TypeOK
    <3> QED BY <3>1, <3>2, <3>3 DEF TypeOK
  <2>2. TypeOK'
    BY <1>5, <2>1 DEF RecvDisconnected, DropReceiver, LoseReceiver, TypeOK
  <2>3. HoldersInv'
    BY <1>0, <1>5 DEF RecvDisconnected, DropReceiver, LoseReceiver, HoldersInv
  <2> QED BY <2>2, <2>3
<1> QED BY <1>1, <1>2, <1>3, <1>4, <1>5 DEF Subscriber, Recv

\* The lives of owners, threads and subscribers keep to the invariant.
LEMMA LifeHolds == Spec => []LifeInv
<1>1. Init => LifeInv
  BY DEF Init, LifeInv, TypeOK, HoldersInv, Threads
<1>2. LifeInv /\ [Next]_vars => LifeInv'
  <2> SUFFICES ASSUME LifeInv, [Next]_vars PROVE LifeInv'
    OBVIOUS
  <2>1. CASE Next
    <3>1. "watcher" \in Threads
      BY DEF Threads
    <3> QED BY <2>1, <3>1, RegistryLife, DeviceLife, ThreadLife, SubscriberLife
            DEF Next, Subscriber
  <2>2. CASE UNCHANGED vars
    BY <2>2 DEF vars, owners, channel, LifeInv, TypeOK, HoldersInv
  <2> QED BY <2>1, <2>2
<1> QED BY <1>1, <1>2, PTL DEF Spec

\* The state keeps its types.
THEOREM TypeCorrect == Spec => []TypeOK
<1>1. LifeInv => TypeOK
  BY DEF LifeInv
<1> QED BY <1>1, LifeHolds, PTL

\* The watcher never meets a channel without a receiver: it runs until told
\* to stop, for any behaviour of the subscribers.
THEOREM WatcherIsHeard == Spec => []WatcherLivesUntilDrop
<1>1. LifeInv => WatcherLivesUntilDrop
  BY DEF LifeInv, HoldersInv, WatcherLivesUntilDrop
<1> QED BY <1>1, LifeHolds, PTL

\* A subscriber is told of the end of the channel only when Devices is gone
\* and no thread is left that could send.
THEOREM EndIsTrue == Spec => EndMeansEnd
<1>1. ASSUME LifeInv, [Next]_vars
      PROVE  [\A s \in Subscribers : RecvDisconnected(s) =>
                /\ registry \in {"txDropped", "dropped"}
                /\ \A t \in Threads : pc[t] \in {"unborn", "exited"}]_vars
  BY <1>1 DEF LifeInv, HoldersInv, RecvDisconnected, TypeOK
<1> QED BY <1>1, LifeHolds, PTL DEF Spec, EndMeansEnd

-----------------------------------------------------------------------------
(* Where the events are.                                                    *)

(* Everything in p was sent before everything in q by the same thread.      *)
Precedes(p, q) ==
  \A x \in EventsIn(p), y \in EventsIn(q) : x.from = y.from => x.seq < y.seq

PlacesInv ==
  /\ EventsIn(queue) \subseteq SentEvents
  /\ \A s \in Subscribers : EventsIn(got[s]) \subseteq SentEvents
  /\ Ascending(queue)
  /\ \A s \in Subscribers : Ascending(got[s]) /\ Precedes(got[s], queue)
  /\ ExactlyOnce

\* What a sequence holds after one more event, and its order.
LEMMA AppendPlaces ==
  ASSUME NEW q \in Seq(Event), NEW e \in Event
  PROVE  /\ EventsIn(Append(q, e)) = EventsIn(q) \cup {e}
         /\ Ascending(q) /\ Precedes(q, <<e>>) => Ascending(Append(q, e))
<1> DEFINE n == Len(q)
           r == Append(q, e)
<1>1. n \in Nat /\ Len(r) = n + 1 /\ r[n + 1] = e /\ \A i \in 1..n : r[i] = q[i]
  OBVIOUS
<1>2. EventsIn(r) = EventsIn(q) \cup {e}
  <2>1. \A x \in EventsIn(r) : x \in EventsIn(q) \cup {e}
    BY <1>1 DEF EventsIn
  <2>2. \A x \in EventsIn(q) \cup {e} : \E i \in 1..(n + 1) : r[i] = x
    BY <1>1 DEF EventsIn
  <2>3. \A x \in EventsIn(q) \cup {e} : x \in EventsIn(r)
    BY <1>1, <2>2 DEF EventsIn
  <2> QED BY <2>1, <2>3
<1>3. ASSUME Ascending(q), Precedes(q, <<e>>) PROVE Ascending(r)
  <2>1. \A i \in 1..n : q[i] \in EventsIn(q)
    BY DEF EventsIn
  <2>2. e \in EventsIn(<<e>>)
    BY DEF EventsIn
  <2>3. \A i \in 1..n : q[i].from = e.from => q[i].seq < e.seq
    BY <1>3, <2>1, <2>2 DEF Precedes
  <2> QED BY <1>1, <1>3, <2>3 DEF Ascending
<1> QED BY <1>2, <1>3

\* A sequence without its head: what it still holds, and that the head came
\* before all of it.
LEMMA TailPlaces ==
  ASSUME NEW q \in Seq(Event), q # <<>>, Ascending(q)
  PROVE  /\ Head(q) \in Event
         /\ Tail(q) \in Seq(Event)
         /\ EventsIn(q) = EventsIn(Tail(q)) \cup {Head(q)}
         /\ Ascending(Tail(q))
         /\ Precedes(<<Head(q)>>, Tail(q))
<1> DEFINE n == Len(q)
           r == Tail(q)
<1>1. /\ n \in Nat /\ n >= 1 /\ Len(r) = n - 1 /\ Head(q) = q[1]
      /\ \A i \in 1..(n - 1) : r[i] = q[i + 1]
      /\ Head(q) \in Event /\ r \in Seq(Event)
  OBVIOUS
<1>2. EventsIn(q) = EventsIn(r) \cup {Head(q)}
  <2>1. ASSUME NEW i \in 1..n PROVE q[i] \in EventsIn(r) \cup {Head(q)}
    <3>1. CASE i = 1
      BY <3>1, <1>1
    <3>2. CASE i # 1
      <4>1. i - 1 \in 1..(n - 1) /\ r[i - 1] = q[i]
        BY <3>2, <1>1
      <4> QED BY <4>1, <1>1 DEF EventsIn
    <3> QED BY <3>1, <3>2
  <2>2. ASSUME NEW i \in 1..(n - 1) PROVE r[i] \in EventsIn(q)
    <3>1. i + 1 \in 1..n /\ r[i] = q[i + 1]
      BY <1>1
    <3> QED BY <3>1 DEF EventsIn
  <2>3. Head(q) \in EventsIn(q)
    <3>1. 1 \in 1..n
      BY <1>1
    <3> QED BY <3>1, <1>1 DEF EventsIn
  <2>4. EventsIn(q) \subseteq EventsIn(r) \cup {Head(q)}
    BY <2>1 DEF EventsIn
  <2>5. EventsIn(r) \subseteq EventsIn(q)
    BY <2>2, <1>1 DEF EventsIn
  <2> QED BY <2>3, <2>4, <2>5
<1>3. Ascending(r)
  <2> SUFFICES ASSUME NEW i \in 1..(n - 1), NEW j \in 1..(n - 1), i < j, r[i].from = r[j].from
               PROVE  r[i].seq < r[j].seq
    BY <1>1 DEF Ascending
  <2>1. i + 1 \in 1..n /\ j + 1 \in 1..n /\ i + 1 < j + 1
    BY <1>1
  <2> QED BY <1>1, <2>1 DEF Ascending
<1>4. Precedes(<<Head(q)>>, r)
  <2>1. ASSUME NEW j \in 1..(n - 1), Head(q).from = r[j].from PROVE Head(q).seq < r[j].seq
    <3>1. j + 1 \in 1..n /\ 1 \in 1..n /\ 1 < j + 1 /\ r[j] = q[j + 1]
      BY <1>1
    <3> QED BY <1>1, <2>1, <3>1 DEF Ascending
  <2>2. EventsIn(<<Head(q)>>) = {Head(q)}
    BY DEF EventsIn
  <2> QED BY <2>1, <2>2, <1>1 DEF Precedes, EventsIn
<1> QED BY <1>1, <1>2, <1>3, <1>4

\* An empty channel holds nothing.
LEMMA EmptyPlaces == EventsIn(<<>>) = {} /\ Ascending(<<>>)
BY DEF EventsIn, Ascending

\* A send puts the next event of its thread, which is nowhere yet, behind all
\* that was sent.
LEMMA SendPlaces ==
  ASSUME TypeOK, PlacesInv, NEW t \in Threads, Send(t)
  PROVE  PlacesInv'
<1> DEFINE e == [from |-> t, seq |-> sent[t] + 1]
<1>1. e \in Event /\ e.from = t /\ e.seq = sent[t] + 1 /\ sent[t] \in Nat
  BY DEF Send, TypeOK, Event
<1>2. queue' = Append(queue, e) /\ got' = got /\ receivers # {} /\ queue \in Seq(Event)
  BY DEF Send, TypeOK
<1>3. SentEvents' = SentEvents \cup {e} /\ e \notin SentEvents
  BY <1>1 DEF Send, SentEvents, Event, TypeOK
<1>4. \A x \in SentEvents : x.from = t => x.seq < e.seq
  BY <1>1 DEF SentEvents, Event, TypeOK
<1> HIDE DEF e
<1>5. EventsIn(queue') = EventsIn(queue) \cup {e}
  BY <1>1, <1>2, AppendPlaces
<1>6. EventsIn(<<e>>) = {e}
  BY DEF EventsIn
<1>7. Ascending(queue')
  BY <1>1, <1>2, <1>4, <1>6, AppendPlaces DEF PlacesInv, Precedes
<1>8. \A s \in Subscribers : Ascending(got'[s]) /\ Precedes(got'[s], queue')
  BY <1>1, <1>2, <1>4, <1>5 DEF PlacesInv, Precedes
<1>9. ExactlyOnce'
  <2>1. \A s \in Subscribers : e \notin EventsIn(got[s])
    BY <1>3 DEF PlacesInv
  <2>2. \A s \in Subscribers : EventsIn(got'[s]) \cap EventsIn(queue') = {}
    BY <2>1, <1>2, <1>5 DEF PlacesInv, ExactlyOnce
  <2>3. \A s, u \in Subscribers : s # u => EventsIn(got'[s]) \cap EventsIn(got'[u]) = {}
    BY <1>2 DEF PlacesInv, ExactlyOnce
  <2>4. SentEvents = EventsIn(queue) \cup UNION {EventsIn(got[s]) : s \in Subscribers}
    BY <1>2 DEF PlacesInv, ExactlyOnce
  <2>5. SentEvents' = EventsIn(queue') \cup UNION {EventsIn(got'[s]) : s \in Subscribers}
    BY <2>4, <1>2, <1>3, <1>5
  <2> QED BY <2>2, <2>3, <2>5 DEF ExactlyOnce
<1> QED BY <1>2, <1>3, <1>5, <1>7, <1>8, <1>9 DEF PlacesInv

\* A receive moves the oldest event from the channel to one subscriber.
LEMMA RecvPlaces ==
  ASSUME TypeOK, PlacesInv, NEW s \in Subscribers, RecvEvent(s)
  PROVE  PlacesInv'
<1> DEFINE e == Head(queue)
<1>1. /\ queue \in Seq(Event) /\ queue # <<>> /\ queue' = Tail(queue)
      /\ got \in [Subscribers -> Seq(Event)] /\ got' = [got EXCEPT ![s] = Append(@, e)]
      /\ sent' = sent /\ receivers' = receivers
  BY DEF RecvEvent, TypeOK
<1>2. /\ e \in Event /\ EventsIn(queue) = EventsIn(queue') \cup {e}
      /\ Ascending(queue') /\ Precedes(<<e>>, queue')
  BY <1>1, TailPlaces DEF PlacesInv
<1> HIDE DEF e
<1>3. SentEvents' = SentEvents
  BY <1>1 DEF SentEvents
<1>4. EventsIn(<<e>>) = {e}
  BY DEF EventsIn
<1>5. e \notin EventsIn(queue')
  BY <1>2, <1>4 DEF Precedes, Event, EventsIn
<1>6. /\ got'[s] = Append(got[s], e) /\ EventsIn(got'[s]) = EventsIn(got[s]) \cup {e}
      /\ Ascending(got'[s])
  <2>1. got'[s] = Append(got[s], e) /\ got[s] \in Seq(Event)
    BY <1>1
  <2>2. Precedes(got[s], <<e>>)
    BY <1>2, <1>4 DEF PlacesInv, Precedes
  <2> QED BY <2>1, <2>2, <1>2, AppendPlaces DEF PlacesInv
<1>7. \A u \in Subscribers : u # s => got'[u] = got[u]
  BY <1>1
<1>8. \A u \in Subscribers : Ascending(got'[u]) /\ Precedes(got'[u], queue')
  <2>1. Precedes(got'[s], queue')
    BY <1>2, <1>4, <1>6 DEF PlacesInv, Precedes
  <2>2. \A u \in Subscribers : u # s => Ascending(got'[u]) /\ Precedes(got'[u], queue')
    BY <1>2, <1>7 DEF PlacesInv, Precedes
  <2> QED BY <2>1, <2>2, <1>6
<1>9. ExactlyOnce'
  <2>1. \A u \in Subscribers : e \notin EventsIn(got[u])
    BY <1>2 DEF PlacesInv, ExactlyOnce
  <2>2. ASSUME NEW u \in Subscribers PROVE EventsIn(got'[u]) \cap EventsIn(queue') = {}
    <3>1. EventsIn(got[u]) \cap EventsIn(queue') = {}
      BY <1>2 DEF PlacesInv, ExactlyOnce
    <3>2. EventsIn(got'[u]) \subseteq EventsIn(got[u]) \cup {e}
      BY <1>6, <1>7
    <3> QED BY <3>1, <3>2, <1>5
  <2>3. ASSUME NEW u \in Subscribers, NEW v \in Subscribers, u # v
        PROVE  EventsIn(got'[u]) \cap EventsIn(got'[v]) = {}
    <3>1. EventsIn(got[u]) \cap EventsIn(got[v]) = {}
      BY <2>3 DEF PlacesInv, ExactlyOnce
    <3>2. CASE u = s
      BY <3>1, <3>2, <2>1, <2>3, <1>6, <1>7
    <3>3. CASE v = s
      BY <3>1, <3>3, <2>1, <2>3, <1>6, <1>7
    <3>4. CASE u # s /\ v # s
      BY <3>1, <3>4, <1>7
    <3> QED BY <3>2, <3>3, <3>4
  <2>4. EventsIn(queue') \cup UNION {EventsIn(got'[u]) : u \in Subscribers}
          = EventsIn(queue) \cup UNION {EventsIn(got[u]) : u \in Subscribers}
    BY <1>2, <1>6, <1>7
  <2> QED BY <2>2, <2>3, <2>4, <1>1, <1>3 DEF PlacesInv, ExactlyOnce
<1>10. \A u \in Subscribers : EventsIn(got'[u]) \subseteq SentEvents
  BY <1>2, <1>6, <1>7 DEF PlacesInv
<1> QED BY <1>2, <1>3, <1>8, <1>9, <1>10 DEF PlacesInv

\* A receiver that goes leaves everything in place, the last one an empty channel.
LEMMA LosePlaces ==
  ASSUME PlacesInv, NEW r, LoseReceiver(r), UNCHANGED <<sent, got>>
  PROVE  PlacesInv'
<1>1. SentEvents' = SentEvents
  BY DEF SentEvents
<1>2. CASE receivers' # {}
  BY <1>1, <1>2 DEF PlacesInv, ExactlyOnce, LoseReceiver
<1>3. CASE receivers' = {}
  <2>1. queue' = <<>> /\ EventsIn(queue') = {} /\ Ascending(queue')
    BY <1>3, EmptyPlaces DEF LoseReceiver
  <2> QED BY <1>1, <1>3, <2>1 DEF PlacesInv, ExactlyOnce, Precedes
<1> QED BY <1>2, <1>3

\* Every step keeps the events in their places.
LEMMA PlacesHold == Spec => []PlacesInv
<1>1. Init => PlacesInv
  BY EmptyPlaces DEF Init, PlacesInv, ExactlyOnce, Precedes, SentEvents, Event
<1>2. LifeInv /\ PlacesInv /\ [Next]_vars => PlacesInv'
  <2> SUFFICES ASSUME LifeInv, PlacesInv, [Next]_vars PROVE PlacesInv'
    OBVIOUS
  <2> USE DEF LifeInv
  <2>1. ASSUME NEW t \in Threads, Send(t) PROVE PlacesInv'
    BY <2>1, SendPlaces
  <2>2. ASSUME NEW s \in Subscribers, RecvEvent(s) PROVE PlacesInv'
    BY <2>2, RecvPlaces
  <2>3. ASSUME NEW s \in Subscribers, RecvDisconnected(s) \/ DropReceiver(s) PROVE PlacesInv'
    BY <2>3, LosePlaces DEF RecvDisconnected, DropReceiver
  <2>4. CASE DropRx
    BY <2>4, LosePlaces DEF DropRx
  <2>5. ASSUME UNCHANGED <<queue, sent, got>>, receivers' = receivers \/ receivers # {}
        PROVE  PlacesInv'
    BY <2>5 DEF PlacesInv, ExactlyOnce, SentEvents
  <2>6. ASSUME NEW s \in Subscribers, events(s) PROVE PlacesInv'
    BY <2>5, <2>6 DEF events, HoldersInv
  <2>7. ASSUME NEW s \in Subscribers, RecvBegin(s) \/ RecvTimeout(s) PROVE PlacesInv'
    BY <2>5, <2>7 DEF RecvBegin, RecvTimeout, channel
  <2>8. ASSUME NEW c \in Cameras, open(c) \/ CloseBegin(c) \/ CloseReturn(c) PROVE PlacesInv'
    BY <2>5, <2>8 DEF open, CloseBegin, CloseReturn, channel
  <2>9. ASSUME NEW t \in Threads, LoopExit(t) \/ LoopEnter(t) \/ SendFails(t) PROVE PlacesInv'
    BY <2>5, <2>9 DEF LoopExit, LoopEnter, SendFails, Exit, channel
  <2>10. CASE DropBegin \/ DropJoined \/ DropTx \/ NoMoreChanges \/ UNCHANGED vars
    BY <2>5, <2>10 DEF DropBegin, DropJoined, DropTx, NoMoreChanges, vars, channel
  <2> QED BY <2>1, <2>2, <2>3, <2>4, <2>6, <2>7, <2>8, <2>9, <2>10
          DEF Next, Drop, Loop, Recv
<1> QED BY <1>1, <1>2, LifeHolds, PTL DEF Spec

\* No event is delivered twice, and while anyone can still receive none is lost.
LEMMA DeliveredExactlyOnce == Spec => []ExactlyOnce
<1>1. PlacesInv => ExactlyOnce
  BY DEF PlacesInv
<1> QED BY <1>1, PlacesHold, PTL

\* Every subscriber sees the events of each thread in the order they were sent,
\* and nothing still queued is older than what it has seen.
LEMMA DeliveredInOrder == Spec => []OrderKept
<1>1. TypeOK /\ PlacesInv => OrderKept
  <2> SUFFICES ASSUME TypeOK, PlacesInv, NEW s \in Subscribers
               PROVE  Ascending(got[s] \o queue)
    BY DEF OrderKept
  <2> DEFINE p == got[s]
             q == queue
             r == p \o q
             m == Len(p)
             n == Len(q)
  <2>1. p \in Seq(Event) /\ q \in Seq(Event) /\ m \in Nat /\ n \in Nat
    BY DEF TypeOK
  <2>2. /\ Len(r) = m + n
        /\ \A i \in 1..m : r[i] = p[i]
        /\ \A i \in (m + 1)..(m + n) : r[i] = q[i - m]
    BY <2>1
  <2>3. Ascending(p) /\ Ascending(q) /\ Precedes(p, q)
    BY DEF PlacesInv
  <2> SUFFICES ASSUME NEW i \in 1..(m + n), NEW j \in 1..(m + n), i < j, r[i].from = r[j].from
               PROVE  r[i].seq < r[j].seq
    BY <2>2 DEF Ascending
  <2>4. CASE j <= m
    <3>1. i \in 1..m /\ j \in 1..m
      BY <2>1, <2>4
    <3>2. r[i] = p[i] /\ r[j] = p[j]
      BY <3>1, <2>2
    <3> HIDE DEF r, p
    <3> QED BY <3>1, <3>2, <2>3 DEF Ascending
  <2>5. CASE i > m
    <3>1. i - m \in 1..n /\ j - m \in 1..n /\ i - m < j - m
      BY <2>1, <2>5
    <3>2. r[i] = q[i - m] /\ r[j] = q[j - m]
      BY <2>1, <2>2, <2>5
    <3> QED BY <3>1, <3>2, <2>3 DEF Ascending
  <2>6. CASE i <= m /\ j > m
    <3>1. r[i] \in EventsIn(p)
      BY <2>1, <2>2, <2>6 DEF EventsIn
    <3>2. j - m \in 1..n /\ r[j] = q[j - m]
      BY <2>1, <2>2, <2>6
    <3>3. r[j] \in EventsIn(q)
      BY <3>2 DEF EventsIn
    <3> QED BY <3>1, <3>3, <2>3 DEF Precedes
  <2> QED BY <2>1, <2>4, <2>5, <2>6
<1> QED BY <1>1, TypeCorrect, PlacesHold, PTL

\* Every event sent while someone can receive is delivered once and in the order
\* of its thread, for any number of threads, events and subscribers.
THEOREM Delivery == Spec => []OnceAndInOrder
BY DeliveredExactlyOnce, DeliveredInOrder, PTL DEF OnceAndInOrder
=============================================================================
