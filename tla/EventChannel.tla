----------------------------- MODULE EventChannel -----------------------------
(***************************************************************************)
(* The event channel of libobsbot-core and the lifetimes around it: one    *)
(* Devices registry, its hot-plug watcher, the Devices opened through it   *)
(* with a status poller each, and the subscribers that hold clones of the  *)
(* receiver.  All threads share one unbounded crossbeam channel; who holds *)
(* a sender or a receiver at which moment decides whether a send fails,    *)
(* where an event ends up, and when a blocked subscriber is let go.        *)
(*                                                                         *)
(* The two thread loops are what Hotplug and StatusPoller detail, reduced  *)
(* to their sends and their looks at the stop flag.  The channel itself is *)
(* external: a FIFO whose send fails when no receiver is left and whose    *)
(* recv fails when it is empty and no sender is left.                      *)
(***************************************************************************)
EXTENDS Naturals, Sequences

CONSTANTS
  Subscribers,  \* threads that take a clone of the receiver
  Cameras,      \* the cameras that can be opened, each once
  MaxEvents     \* bound: the events that each thread sends

Threads == {"watcher"} \cup Cameras

ASSUME ConstantsAssumption ==
  /\ Subscribers \cap {"registry"} = {}
  /\ Cameras \cap {"registry", "watcher"} = {}
  /\ MaxEvents \in [Threads -> Nat]

VARIABLES
  registry,   \* the owner of Devices
  device,     \* the owner of each Device
  stop,       \* the stop flag each thread looks at
  pc,         \* where each thread is in its loop
  senders,    \* external: who holds a Sender
  receivers,  \* external: who holds a Receiver
  queue,      \* external: the events in the channel
  sub,        \* what each subscriber does
  sent,       \* history: events each thread has sent
  got,        \* history: events each subscriber has received
  before      \* history: `sent` when each subscriber took its clone

Event == [from : Threads, seq : Nat \ {0}]

owners  == <<registry, device>>
channel == <<senders, receivers, queue>>
vars == <<owners, stop, pc, channel, sub, sent, got, before>>

TypeOK ==
  /\ registry \in {"alive", "joining", "joined", "txDropped", "dropped"}
  /\ device \in [Cameras -> {"unopened", "open", "joining", "closed"}]
  /\ stop \in [Threads -> BOOLEAN]
  /\ pc \in [Threads -> {"unborn", "test", "send", "exited"}]
  /\ senders \in SUBSET ({"registry"} \cup Threads)
  /\ receivers \in SUBSET ({"registry"} \cup Subscribers)
  /\ queue \in Seq(Event)
  /\ sub \in [Subscribers -> {"none", "idle", "waiting", "ended"}]
  /\ sent \in [Threads -> Nat]
  /\ got \in [Subscribers -> Seq(Event)]
  /\ before \in [Subscribers -> [Threads -> Nat]]

-----------------------------------------------------------------------------
(* The owner of Devices.                                                   *)

\* Mutant of open: the poller is not counted as a sender.
OpenWithoutSender(c) ==
  /\ registry = "alive"
  /\ device[c] = "unopened"
  /\ device' = [device EXCEPT ![c] = "open"]
  /\ pc' = [pc EXCEPT ![c] = "test"]
  /\ UNCHANGED <<registry, stop, channel, sub, sent, got, before>>

\* Devices::open, once the transport is open and the MAC is learnt:
\* Device::new hands a clone of the sender to the poller it spawns.
open(c) ==
  /\ registry = "alive"
  /\ device[c] = "unopened"
  /\ device' = [device EXCEPT ![c] = "open"]
  /\ pc' = [pc EXCEPT ![c] = "test"]
  /\ senders' = senders \cup {c}
  /\ UNCHANGED <<registry, stop, receivers, queue, sub, sent, got, before>>

\* Devices::events: a clone of the receiver.
events(s) ==
  /\ registry = "alive"
  /\ sub[s] \in {"none", "ended"}
  /\ sub' = [sub EXCEPT ![s] = "idle"]
  /\ receivers' = receivers \cup {s}
  /\ before' = [before EXCEPT ![s] = sent]
  /\ UNCHANGED <<owners, stop, pc, senders, queue, sent, got>>

\* Mutant of DropBegin: Drop lets go of events_rx before the join.
DropReceiverFirst ==
  /\ registry = "alive"
  /\ registry' = "joining"
  /\ stop' = [stop EXCEPT !["watcher"] = TRUE]
  /\ receivers' = receivers \ {"registry"}
  /\ UNCHANGED <<device, pc, senders, queue, sub, sent, got, before>>

DropBegin ==
  /\ registry = "alive"
  /\ registry' = "joining"
  /\ stop' = [stop EXCEPT !["watcher"] = TRUE]
  /\ UNCHANGED <<device, pc, channel, sub, sent, got, before>>

DropJoined ==
  /\ registry = "joining"
  /\ pc["watcher"] = "exited"
  /\ registry' = "joined"
  /\ UNCHANGED <<device, stop, pc, channel, sub, sent, got, before>>

\* After the body of Drop the fields are dropped, in the order of the struct:
\* events_tx, events_rx.
DropTx ==
  /\ registry = "joined"
  /\ registry' = "txDropped"
  /\ senders' = senders \ {"registry"}
  /\ UNCHANGED <<device, stop, pc, receivers, queue, sub, sent, got, before>>

\* Mutant of LoseReceiver: every clone that goes empties the channel.
LoseReceiverDrains(r) ==
  /\ receivers' = receivers \ {r}
  /\ queue' = <<>>
  /\ UNCHANGED senders

\* With the last receiver the channel discards what it still holds.
LoseReceiver(r) ==
  /\ receivers' = receivers \ {r}
  /\ queue' = IF receivers' = {} THEN <<>> ELSE queue
  /\ UNCHANGED senders

DropRx ==
  /\ registry = "txDropped"
  /\ registry' = "dropped"
  /\ LoseReceiver("registry")
  /\ UNCHANGED <<device, stop, pc, sub, sent, got, before>>

-----------------------------------------------------------------------------
(* The owner of a Device; a Device may outlive Devices.                    *)

CloseBegin(c) ==
  /\ device[c] = "open"
  /\ device' = [device EXCEPT ![c] = "joining"]
  /\ stop' = [stop EXCEPT ![c] = TRUE]
  /\ UNCHANGED <<registry, pc, channel, sub, sent, got, before>>

CloseReturn(c) ==
  /\ device[c] = "joining"
  /\ pc[c] = "exited"
  /\ device' = [device EXCEPT ![c] = "closed"]
  /\ UNCHANGED <<registry, stop, pc, channel, sub, sent, got, before>>

-----------------------------------------------------------------------------
(* The threads: hotplug_loop and poll_loop.                                *)

\* Mutant of Exit: the sender outlives the loop of its thread.
ExitKeepsSender(t) ==
  /\ pc' = [pc EXCEPT ![t] = "exited"]
  /\ UNCHANGED senders

\* A thread that leaves its loop drops its sender with its closure.
Exit(t) ==
  /\ pc' = [pc EXCEPT ![t] = "exited"]
  /\ senders' = senders \ {t}

LoopExit(t) ==
  /\ pc[t] = "test"
  /\ stop[t]
  /\ Exit(t)
  /\ UNCHANGED <<owners, stop, receivers, queue, sub, sent, got, before>>

LoopEnter(t) ==
  /\ pc[t] = "test"
  /\ ~stop[t]
  /\ sent[t] < MaxEvents[t]
  /\ pc' = [pc EXCEPT ![t] = "send"]
  /\ UNCHANGED <<owners, stop, channel, sub, sent, got, before>>

\* Mutant of Send: a bounded channel, whose send waits.
SendBounded(t) ==
  /\ pc[t] = "send"
  /\ receivers # {}
  /\ sent[t] < MaxEvents[t]
  /\ Len(queue) < 1
  /\ sent' = [sent EXCEPT ![t] = @ + 1]
  /\ queue' = Append(queue, [from |-> t, seq |-> sent[t] + 1])
  /\ \/ pc' = [pc EXCEPT ![t] = "test"]
     \/ t = "watcher" /\ UNCHANGED pc
  /\ UNCHANGED <<owners, stop, senders, receivers, sub, got, before>>

\* Mutant of Send: events are numbered from zero.
SendFromZero(t) ==
  /\ pc[t] = "send"
  /\ receivers # {}
  /\ sent[t] < MaxEvents[t]
  /\ sent' = [sent EXCEPT ![t] = @ + 1]
  /\ queue' = Append(queue, [from |-> t, seq |-> sent[t]])
  /\ \/ pc' = [pc EXCEPT ![t] = "test"]
     \/ t = "watcher" /\ UNCHANGED pc
  /\ UNCHANGED <<owners, stop, senders, receivers, sub, got, before>>

\* A poller sends one Status per round, the watcher any number of additions
\* and removals.  The channel is unbounded: a send never waits.
Send(t) ==
  /\ pc[t] = "send"
  /\ receivers # {}
  /\ sent[t] < MaxEvents[t]
  /\ sent' = [sent EXCEPT ![t] = @ + 1]
  /\ queue' = Append(queue, [from |-> t, seq |-> sent[t] + 1])
  /\ \/ pc' = [pc EXCEPT ![t] = "test"]
     \/ t = "watcher" /\ UNCHANGED pc
  /\ UNCHANGED <<owners, stop, senders, receivers, sub, got, before>>

SendFails(t) ==
  /\ pc[t] = "send"
  /\ receivers = {}
  /\ Exit(t)
  /\ UNCHANGED <<owners, stop, receivers, queue, sub, sent, got, before>>

NoMoreChanges ==
  /\ pc["watcher"] = "send"
  /\ pc' = [pc EXCEPT !["watcher"] = "test"]
  /\ UNCHANGED <<owners, stop, channel, sub, sent, got, before>>

-----------------------------------------------------------------------------
(* A subscriber: recv on its clone of the receiver, again and again, as    *)
(* the loops of the examples and obsbot_devices_poll_event do.             *)

RecvBegin(s) ==
  /\ sub[s] = "idle"
  /\ sub' = [sub EXCEPT ![s] = "waiting"]
  /\ UNCHANGED <<owners, stop, pc, channel, sent, got, before>>

RecvEvent(s) ==
  /\ sub[s] = "waiting"
  /\ queue # <<>>
  /\ got' = [got EXCEPT ![s] = Append(@, Head(queue))]
  /\ queue' = Tail(queue)
  /\ sub' = [sub EXCEPT ![s] = "idle"]
  /\ UNCHANGED <<owners, stop, pc, senders, receivers, sent, before>>

\* recv_timeout and try_recv: nothing came.
RecvTimeout(s) ==
  /\ sub[s] = "waiting"
  /\ queue = <<>>
  /\ sub' = [sub EXCEPT ![s] = "idle"]
  /\ UNCHANGED <<owners, stop, pc, channel, sent, got, before>>

\* The channel is empty and nobody can send: recv fails, the loop ends.
RecvDisconnected(s) ==
  /\ sub[s] = "waiting"
  /\ queue = <<>>
  /\ senders = {}
  /\ sub' = [sub EXCEPT ![s] = "ended"]
  /\ LoseReceiver(s)
  /\ UNCHANGED <<owners, stop, pc, sent, got, before>>

DropReceiver(s) ==
  /\ sub[s] = "idle"
  /\ sub' = [sub EXCEPT ![s] = "ended"]
  /\ LoseReceiver(s)
  /\ UNCHANGED <<owners, stop, pc, sent, got, before>>

-----------------------------------------------------------------------------
(* Devices::new: the channel, the stop flag and the watcher.               *)
Init ==
  /\ registry = "alive"
  /\ device = [c \in Cameras |-> "unopened"]
  /\ stop = [t \in Threads |-> FALSE]
  /\ pc = [t \in Threads |-> IF t = "watcher" THEN "test" ELSE "unborn"]
  /\ senders = {"registry", "watcher"}
  /\ receivers = {"registry"}
  /\ queue = <<>>
  /\ sub = [s \in Subscribers |-> "none"]
  /\ sent = [t \in Threads |-> 0]
  /\ got = [s \in Subscribers |-> <<>>]
  /\ before = [s \in Subscribers |-> [t \in Threads |-> 0]]

Drop == DropJoined \/ DropTx \/ DropRx

Loop(t) == LoopExit(t) \/ LoopEnter(t) \/ Send(t) \/ SendFails(t)

Recv(s) == RecvEvent(s) \/ RecvDisconnected(s)

Next ==
  \/ DropBegin \/ Drop \/ NoMoreChanges
  \/ \E c \in Cameras : open(c) \/ CloseBegin(c) \/ CloseReturn(c)
  \/ \E t \in Threads : Loop(t)
  \/ \E s \in Subscribers : \/ events(s) \/ RecvBegin(s) \/ Recv(s)
                            \/ RecvTimeout(s) \/ DropReceiver(s)

Spec == Init /\ [][Next]_vars

(* The threads run, the two Drops run on once begun, and a subscriber that *)
(* sits in recv wakes when there is something to wake for.  No subscriber  *)
(* need ever call recv, and nobody need drop anything.                     *)
FairSpec ==
  /\ Spec
  /\ WF_vars(Drop)
  /\ WF_vars(Loop("watcher") \/ NoMoreChanges)
  /\ \A c \in Cameras : WF_vars(Loop(c)) /\ WF_vars(CloseReturn(c))
  /\ \A s \in Subscribers : WF_vars(Recv(s))

-----------------------------------------------------------------------------
(* Properties *)

\* The watcher's send never fails, so its early return is dead code: it exits
\* only when told to.  Whatever the subscribers do with their clones, Devices
\* keeps a receiver until the watcher is joined.
WatcherLivesUntilDrop ==
  /\ pc["watcher"] = "send" => receivers # {}
  /\ pc["watcher"] = "exited" => stop["watcher"]

EventsIn(q) == {q[i] : i \in 1..Len(q)}
SentEvents == UNION {[from : {t}, seq : 1..sent[t]] : t \in Threads}

(* No event is delivered twice, to one subscriber or to two, and as long as *)
(* anyone holds a receiver none is lost: it was received or waits in the    *)
(* channel.                                                                 *)
ExactlyOnce ==
  /\ \A s \in Subscribers : EventsIn(got[s]) \cap EventsIn(queue) = {}
  /\ \A s, u \in Subscribers : s # u => EventsIn(got[s]) \cap EventsIn(got[u]) = {}
  /\ receivers # {} =>
       SentEvents = EventsIn(queue) \cup UNION {EventsIn(got[s]) : s \in Subscribers}

(* What a subscriber has received from one thread is in the order it was    *)
(* sent, and before all that is still queued.                               *)
Ascending(q) ==
  \A i, j \in 1..Len(q) : i < j /\ q[i].from = q[j].from => q[i].seq < q[j].seq
OrderKept == \A s \in Subscribers : Ascending(got[s] \o queue)

\* Subscribers compete for the events, come and go: still each event is
\* delivered once, and those of one thread in the order it sent them.
OnceAndInOrder == ExactlyOnce /\ OrderKept

\* A subscriber sees the end of the channel only when nothing can come any
\* more: Devices is gone and no thread that could send is left.
EndMeansEnd ==
  [][\A s \in Subscribers : RecvDisconnected(s) =>
       /\ registry \in {"txDropped", "dropped"}
       /\ \A t \in Threads : pc[t] \in {"unborn", "exited"}]_vars

\* Both Drops return although nobody drains the channel: no thread is ever
\* stuck in a send while it is joined.
DropsReturn ==
  /\ registry = "joining" ~> registry = "dropped"
  /\ \A c \in Cameras : device[c] = "joining" ~> device[c] = "closed"

\* A blocked subscriber is let go: once Devices is gone and every Device that
\* was opened is closed, a pending recv returns, with an event or with the end.
Quiet == registry = "dropped" /\ \A c \in Cameras : device[c] \in {"unopened", "closed"}
NobodyIsLeftWaiting ==
  \A s \in Subscribers : Quiet /\ sub[s] = "waiting" ~> sub[s] # "waiting"

\* The doc comment of Devices::events: events are broadcast to every clone.
\* When the channel has been drained, every clone has had every event sent
\* since it was taken.
EventsBroadcast ==
  queue = <<>> =>
    \A s \in Subscribers : sub[s] \in {"idle", "waiting"} =>
      \A e \in SentEvents : e.seq > before[s][e.from] => e \in EventsIn(got[s])
=============================================================================
