----------------------------- MODULE StatusPoller -----------------------------
(***************************************************************************)
(* One opened camera of libobsbot-core (device.rs: Device) and its status  *)
(* poller: the thread that Device::new spawns, that reads the camera's     *)
(* controls, sends a Status event and sleeps for the period of the current *)
(* cadence, until Drop for Device raises poller_stop and joins it, or the  *)
(* event channel has no receiver left.                                     *)
(*                                                                         *)
(* Time is counted in sleeps of POLLER_TICK.  The reads of one sample are  *)
(* separate steps: controls change and the camera may go between them.     *)
(***************************************************************************)
EXTENDS Naturals

CONSTANTS
  NumReads,   \* the reads of one sample (5: brightness ... zoom)
  Values,     \* what a control can hold
  Default,    \* Status::default() for a field; the code's 0 may be a value too
  SlowTicks,  \* Cadence::Slow in poller ticks (100)
  FastTicks   \* Cadence::Fast in poller ticks (1)

ASSUME ConstantsAssumption ==
  /\ NumReads \in Nat \ {0}
  /\ FastTicks \in Nat \ {0}
  /\ SlowTicks \in Nat
  /\ FastTicks <= SlowTicks

VARIABLES
  plugged,    \* external: is the camera still there?
  control,    \* external: the value each control holds
  subscribed, \* external: has the event channel a receiver?
  owner,      \* the thread that holds the Device: "open", "joining", "closed"
  stop,       \* Device.poller_stop
  cadence,    \* Device.cadence_ms
  holders,    \* who holds the Arc of the transport
  pc,         \* where the poller is in poll_loop and sample_status
  reading,    \* the read that is next
  snap,       \* the local snapshot
  target,     \* the local period, in ticks
  slept,      \* ticks slept of it
  held,       \* history: the values each control had during this sample
  inProgress, \* history: was a sample in progress when stop was raised?
  afterStop,  \* history: Status events sent since
  sinceSet,   \* history: ticks slept since the cadence was last set, capped
  takenUp     \* history: has the poller loaded the cadence since then?

Fields == 1..NumReads
Cadences == {"Slow", "Fast"}
Ticks(c) == IF c = "Slow" THEN SlowTicks ELSE FastTicks

envVars  == <<plugged, control, subscribed>>
loopVars == <<reading, snap, target, slept>>
history  == <<held, inProgress, afterStop, sinceSet, takenUp>>
vars == <<envVars, owner, stop, cadence, holders, pc, loopVars, history>>

TypeOK ==
  /\ plugged \in BOOLEAN
  /\ control \in [Fields -> Values]
  /\ subscribed \in BOOLEAN
  /\ owner \in {"open", "joining", "closed"}
  /\ stop \in BOOLEAN
  /\ cadence \in Cadences
  /\ holders \in SUBSET {"device", "poller"}
  /\ pc \in {"test", "read", "send", "load", "sleep", "exited"}
  /\ reading \in 1..(NumReads + 1)
  /\ snap \in [Fields -> Values \cup {Default}]
  /\ target \in 0..SlowTicks
  /\ slept \in 0..SlowTicks
  /\ held \in [Fields -> SUBSET Values]
  /\ inProgress \in BOOLEAN
  /\ afterStop \in Nat
  /\ sinceSet \in 0..(SlowTicks + 1)
  /\ takenUp \in BOOLEAN

-----------------------------------------------------------------------------
(* External: the camera and the other holders of the event channel.        *)

\* The user, another program or a setter of this Device changes a control.
ControlChanges(f, v) ==
  /\ plugged
  /\ control[f] # v
  /\ control' = [control EXCEPT ![f] = v]
  /\ held' = [held EXCEPT ![f] = @ \cup {v}]
  /\ UNCHANGED <<plugged, subscribed, owner, stop, cadence, holders, pc, loopVars,
                 inProgress, afterStop, sinceSet, takenUp>>

\* The transport belongs to the device that was opened: a camera that is
\* plugged in again is another device, and this one stays gone.
Unplug ==
  /\ plugged
  /\ plugged' = FALSE
  /\ UNCHANGED <<control, subscribed, owner, stop, cadence, holders, pc, loopVars, history>>

\* Devices and every clone of its receiver have been dropped.
LastReceiverGone ==
  /\ subscribed
  /\ subscribed' = FALSE
  /\ UNCHANGED <<plugged, control, owner, stop, cadence, holders, pc, loopVars, history>>

-----------------------------------------------------------------------------
(* The owner of the Device.                                                *)

\* Mutant of set_status_cadence: a new cadence restarts the sleep.
SetCadenceRestarts(c) ==
  /\ owner = "open"
  /\ cadence' = c
  /\ slept' = 0
  /\ sinceSet' = 0
  /\ takenUp' = FALSE
  /\ UNCHANGED <<envVars, owner, stop, holders, pc, reading, snap, target, held, inProgress,
                 afterStop>>

set_status_cadence(c) ==
  /\ owner = "open"
  /\ cadence' = c
  /\ sinceSet' = 0
  /\ takenUp' = FALSE
  /\ UNCHANGED <<envVars, owner, stop, holders, pc, loopVars, held, inProgress, afterStop>>

\* Mutant of DropBegin: Drop joins without raising poller_stop.
DropWithoutStop ==
  /\ owner = "open"
  /\ owner' = "joining"
  /\ UNCHANGED <<envVars, stop, cadence, holders, pc, loopVars, history>>

DropBegin ==
  /\ owner = "open"
  /\ owner' = "joining"
  /\ stop' = TRUE
  /\ inProgress' = (pc \in {"read", "send"})
  /\ UNCHANGED <<envVars, cadence, holders, pc, loopVars, held, afterStop, sinceSet,
                 takenUp>>

\* Mutant of DropReturn: Drop does not wait for the poller.
DropWithoutJoin ==
  /\ owner = "joining"
  /\ owner' = "closed"
  /\ holders' = holders \ {"device"}
  /\ UNCHANGED <<envVars, stop, cadence, pc, loopVars, history>>

\* The join is over; the fields of Device are dropped, its transport among them.
DropReturn ==
  /\ owner = "joining"
  /\ pc = "exited"
  /\ owner' = "closed"
  /\ holders' = holders \ {"device"}
  /\ UNCHANGED <<envVars, stop, cadence, pc, loopVars, history>>

-----------------------------------------------------------------------------
(* The poller.                                                             *)

\* Leaving poll_loop drops what the thread's closure owns.
Exit == /\ pc' = "exited"
        /\ holders' = holders \ {"poller"}

LoopExit ==
  /\ pc = "test"
  /\ stop
  /\ Exit
  /\ UNCHANGED <<envVars, owner, stop, cadence, loopVars, history>>

\* Mutant of SampleBegin: the snapshot of the previous sample is reused.
SampleKeepsSnapshot ==
  /\ pc = "test"
  /\ ~stop
  /\ pc' = "read"
  /\ reading' = 1
  /\ held' = [f \in Fields |-> IF plugged THEN {control[f]} ELSE {}]
  /\ UNCHANGED <<envVars, owner, stop, cadence, holders, snap, target, slept,
                 inProgress, afterStop, sinceSet, takenUp>>

\* Mutant of SampleBegin: the loop does not look at poller_stop.
SampleUnchecked ==
  /\ pc = "test"
  /\ pc' = "read"
  /\ reading' = 1
  /\ snap' = [f \in Fields |-> Default]
  /\ held' = [f \in Fields |-> IF plugged THEN {control[f]} ELSE {}]
  /\ UNCHANGED <<envVars, owner, stop, cadence, holders, target, slept,
                 inProgress, afterStop, sinceSet, takenUp>>

SampleBegin ==
  /\ pc = "test"
  /\ ~stop
  /\ pc' = "read"
  /\ reading' = 1
  /\ snap' = [f \in Fields |-> Default]
  /\ held' = [f \in Fields |-> IF plugged THEN {control[f]} ELSE {}]
  /\ UNCHANGED <<envVars, owner, stop, cadence, holders, target, slept,
                 inProgress, afterStop, sinceSet, takenUp>>

\* One read: the value, or an error, which leaves the field at its default.
\* A camera that is gone always errs; one that is there may.
ReadNext ==
  /\ pc = "read"
  /\ reading <= NumReads
  /\ \/ /\ plugged
        /\ snap' = [snap EXCEPT ![reading] = control[reading]]
     \/ UNCHANGED snap
  /\ reading' = reading + 1
  /\ UNCHANGED <<envVars, owner, stop, cadence, holders, pc, target, slept, history>>

SampleEnd ==
  /\ pc = "read"
  /\ reading > NumReads
  /\ pc' = "send"
  /\ UNCHANGED <<envVars, owner, stop, cadence, holders, loopVars, history>>

SendStatus ==
  /\ pc = "send"
  /\ subscribed
  /\ pc' = "load"
  /\ afterStop' = IF stop THEN afterStop + 1 ELSE afterStop
  /\ UNCHANGED <<envVars, owner, stop, cadence, holders, loopVars, held, inProgress,
                 sinceSet, takenUp>>

SendFails ==
  /\ pc = "send"
  /\ ~subscribed
  /\ Exit
  /\ UNCHANGED <<envVars, owner, stop, cadence, loopVars, history>>

\* Mutant of LoadCadence: the period is computed once, before the loop.
LoadCadenceOnce ==
  /\ pc = "load"
  /\ pc' = "sleep"
  /\ target' = IF target = 0 THEN Ticks(cadence) ELSE target
  /\ slept' = 0
  /\ takenUp' = TRUE
  /\ UNCHANGED <<envVars, owner, stop, cadence, holders, reading, snap, held,
                 inProgress, afterStop, sinceSet>>

LoadCadence ==
  /\ pc = "load"
  /\ pc' = "sleep"
  /\ target' = Ticks(cadence)
  /\ slept' = 0
  /\ takenUp' = TRUE
  /\ UNCHANGED <<envVars, owner, stop, cadence, holders, reading, snap, held,
                 inProgress, afterStop, sinceSet>>

\* Mutant of SleepTick: one tick of sleep too many.
SleepTickTooMany ==
  /\ pc = "sleep"
  /\ slept <= target
  /\ ~stop
  /\ slept' = slept + 1
  /\ sinceSet' = IF sinceSet <= SlowTicks THEN sinceSet + 1 ELSE sinceSet
  /\ UNCHANGED <<envVars, owner, stop, cadence, holders, pc, reading, snap, target,
                 held, inProgress, afterStop, takenUp>>

SleepTick ==
  /\ pc = "sleep"
  /\ slept < target
  /\ ~stop
  /\ slept' = slept + 1
  /\ sinceSet' = IF sinceSet <= SlowTicks THEN sinceSet + 1 ELSE sinceSet
  /\ UNCHANGED <<envVars, owner, stop, cadence, holders, pc, reading, snap, target,
                 held, inProgress, afterStop, takenUp>>

SleepInterrupted ==
  /\ pc = "sleep"
  /\ slept < target
  /\ stop
  /\ Exit
  /\ UNCHANGED <<envVars, owner, stop, cadence, loopVars, history>>

SleepDone ==
  /\ pc = "sleep"
  /\ slept >= target
  /\ pc' = "test"
  /\ UNCHANGED <<envVars, owner, stop, cadence, holders, loopVars, history>>

-----------------------------------------------------------------------------
(* Device::new: the poller starts, the cadence is Slow.                    *)
Init ==
  /\ plugged \in BOOLEAN
  /\ control \in [Fields -> Values]
  /\ subscribed = TRUE
  /\ owner = "open"
  /\ stop = FALSE
  /\ cadence = "Slow"
  /\ holders = {"device", "poller"}
  /\ pc = "test"
  /\ reading = 1
  /\ snap = [f \in Fields |-> Default]
  /\ target = 0
  /\ slept = 0
  /\ held = [f \in Fields |-> {}]
  /\ inProgress = FALSE
  /\ afterStop = 0
  /\ sinceSet = 0
  /\ takenUp = FALSE

Poller == \/ LoopExit \/ SampleBegin \/ ReadNext \/ SampleEnd
          \/ SendStatus \/ SendFails \/ LoadCadence
          \/ SleepTick \/ SleepInterrupted \/ SleepDone

Owner == DropBegin \/ DropReturn \/ \E c \in Cadences : set_status_cadence(c)

Env == \/ Unplug \/ LastReceiverGone
       \/ \E f \in Fields, v \in Values : ControlChanges(f, v)

Next == Poller \/ Owner \/ Env

Spec == Init /\ [][Next]_vars

(* The poller thread is scheduled, and Drop, once begun, returns from join.*)
FairSpec == Spec /\ WF_vars(Poller) /\ WF_vars(DropReturn)

-----------------------------------------------------------------------------
(* Properties *)

\* Every field of a Status event is a value the control had while that very
\* sample was taken, or the default when it could not be read: nothing is
\* carried over from an earlier sample, or invented for a camera that is gone.
SnapshotIsRecent ==
  pc = "send" => \A f \in Fields : snap[f] \in held[f] \cup {Default}

\* Wherever poller_stop finds the thread, the sample that was in progress may
\* still be sent, but no other is taken or sent; and when Drop for Device has
\* returned nobody holds the transport any more: /dev/videoN is released (the
\* doc comment of Device).
StopIsFinal ==
  /\ afterStop <= (IF inProgress THEN 1 ELSE 0)
  /\ owner = "closed" => holders = {}

\* No Status event is sent after Drop for Device has returned.
NothingAfterClose == [][owner = "closed" => ~SendStatus]_vars

\* A cadence that is set is taken up after one Slow period of sleep at most,
\* and from then on it is the period slept.
CadenceTakenUp ==
  /\ ~takenUp => sinceSet <= SlowTicks
  /\ takenUp /\ pc = "sleep" => target = Ticks(cadence)

\* The thread ends when it has to: Drop for Device returns, and with no
\* receiver left the poller exits although the Device stays open.
ThreadEnds ==
  /\ owner = "joining" ~> owner = "closed"
  /\ ~subscribed ~> pc = "exited"

\* As long as the Device is open and someone listens, samples keep coming,
\* whatever the reads do and however often the cadence is set.
SamplesKeepComing ==
  <>[](owner = "open" /\ subscribed) => []<><<SendStatus>>_vars
=============================================================================
