------------------------- MODULE StatusPollerProofs -------------------------
(* Proofs about StatusPoller, for any number of reads, any values and any  *)
(* two cadences of which Slow is the longer.                               *)
EXTENDS StatusPoller, TLAPS

USE ConstantsAssumption DEF ConstantsAssumption

(* Who holds the transport, and what the end of one thread says of the other. *)
LifecycleInv ==
  /\ owner = "open" <=> ~stop
  /\ owner = "closed" => pc = "exited"
  /\ holders = (IF owner = "closed" THEN {} ELSE {"device"})
                 \cup (IF pc = "exited" THEN {} ELSE {"poller"})

(* A sample in progress holds only what was read during it.                *)
SampleInv ==
  /\ pc \in {"read", "send"} => \A f \in Fields : snap[f] \in held[f] \cup {Default}
  /\ pc = "read" /\ plugged => \A f \in Fields : control[f] \in held[f]

(* The Status that follows stop is the last: its sample began before.      *)
StopInv ==
  /\ afterStop <= (IF inProgress THEN 1 ELSE 0)
  /\ ~stop => afterStop = 0
  /\ stop /\ pc \in {"read", "send"} => inProgress /\ afterStop = 0

(* A cadence not yet taken up waits for the sleep in progress only.        *)
CadenceInv ==
  /\ ~takenUp => sinceSet <= SlowTicks
  /\ ~takenUp /\ pc = "sleep" => sinceSet <= slept
  /\ takenUp /\ pc = "sleep" => target = Ticks(cadence)

\* The inductive invariant.
Inv == TypeOK /\ LifecycleInv /\ SampleInv /\ StopInv /\ CadenceInv

\* A new Device starts with the invariant.
LEMMA InitInv == Init => Inv
<1> SUFFICES ASSUME Init PROVE Inv
  OBVIOUS
<1>1. TypeOK
  <2>1. /\ plugged \in BOOLEAN /\ subscribed \in BOOLEAN /\ stop \in BOOLEAN
        /\ owner \in {"open", "joining", "closed"} /\ cadence \in Cadences
        /\ holders \in SUBSET {"device", "poller"}
        /\ pc \in {"test", "read", "send", "load", "sleep", "exited"} /\ takenUp \in BOOLEAN
        /\ inProgress \in BOOLEAN
    BY DEF Init, Cadences
  <2>2. /\ control \in [Fields -> Values] /\ snap \in [Fields -> Values \cup {Default}]
        /\ held \in [Fields -> SUBSET Values]
    BY DEF Init
  <2>3. /\ reading \in 1..(NumReads + 1) /\ target \in 0..SlowTicks /\ slept \in 0..SlowTicks
        /\ afterStop \in Nat /\ sinceSet \in 0..(SlowTicks + 1)
    BY DEF Init
  <2> QED BY <2>1, <2>2, <2>3 DEF TypeOK
<1>2. LifecycleInv /\ SampleInv /\ StopInv /\ CadenceInv
  BY DEF Init, LifecycleInv, SampleInv, StopInv, CadenceInv
<1> QED BY <1>1, <1>2 DEF Inv

\* No cadence is longer than Slow.
LEMMA TicksType == \A c \in Cadences : Ticks(c) \in 0..SlowTicks
BY DEF Ticks, Cadences

\* The steps of the world around the Device.
LEMMA EnvInv == ASSUME Inv, Env PROVE Inv'
<1> USE DEF Inv, envVars, loopVars, history
<1>1. ASSUME NEW f \in Fields, NEW v \in Values, ControlChanges(f, v) PROVE Inv'
  <2>1. TypeOK'
    BY <1>1 DEF ControlChanges, TypeOK
  <2>2. LifecycleInv' /\ StopInv' /\ CadenceInv'
    BY <1>1 DEF ControlChanges, LifecycleInv, StopInv, CadenceInv
  <2>3. SampleInv'
    BY <1>1 DEF ControlChanges, SampleInv, TypeOK
  <2> QED BY <2>1, <2>2, <2>3
<1>2. CASE Unplug
  BY <1>2 DEF Unplug, TypeOK, LifecycleInv, SampleInv, StopInv, CadenceInv
<1>3. CASE LastReceiverGone
  BY <1>3 DEF LastReceiverGone, TypeOK, LifecycleInv, SampleInv, StopInv, CadenceInv
<1> QED BY <1>1, <1>2, <1>3 DEF Env

\* The steps of the thread that owns the Device.
LEMMA OwnerInv == ASSUME Inv, Owner PROVE Inv'
<1> USE DEF Inv, envVars, loopVars, history
<1>1. ASSUME NEW c \in Cadences, set_status_cadence(c) PROVE Inv'
  <2>1. TypeOK'
    <3>1. cadence' \in Cadences /\ takenUp' \in BOOLEAN /\ sinceSet' = 0
      BY <1>1 DEF set_status_cadence
    <3>2. 0 \in 0..(SlowTicks + 1)
      OBVIOUS
    <3> QED BY <1>1, <3>1, <3>2 DEF set_status_cadence, TypeOK
  <2>2. LifecycleInv' /\ SampleInv' /\ StopInv'
    BY <1>1 DEF set_status_cadence, LifecycleInv, SampleInv, StopInv
  <2>3. CadenceInv'
    BY <1>1 DEF set_status_cadence, CadenceInv, TypeOK
  <2> QED BY <2>1, <2>2, <2>3
<1>2. CASE DropBegin
  <2>1. TypeOK'
    BY <1>2 DEF DropBegin, TypeOK
  <2>2. LifecycleInv' /\ SampleInv' /\ CadenceInv'
    BY <1>2 DEF DropBegin, LifecycleInv, SampleInv, CadenceInv
  <2>3. StopInv'
    <3>1. ~stop /\ afterStop = 0 /\ afterStop' = 0 /\ pc' = pc
      BY <1>2 DEF DropBegin, LifecycleInv, StopInv
    <3>2. inProgress' <=> pc \in {"read", "send"}
      BY <1>2 DEF DropBegin
    <3> QED BY <3>1, <3>2, <1>2 DEF DropBegin, StopInv
  <2> QED BY <2>1, <2>2, <2>3
<1>3. CASE DropReturn
  BY <1>3 DEF DropReturn, TypeOK, LifecycleInv, SampleInv, StopInv, CadenceInv
<1> QED BY <1>1, <1>2, <1>3 DEF Owner

\* The steps of the poller.
LEMMA PollerInv == ASSUME Inv, Poller PROVE Inv'
<1> USE DEF Inv, envVars, loopVars, history
<1>1. CASE LoopExit
  BY <1>1 DEF LoopExit, Exit, TypeOK, LifecycleInv, SampleInv, StopInv, CadenceInv
<1>2. CASE SampleBegin
  <2>1. TypeOK'
    BY <1>2 DEF SampleBegin, TypeOK
  <2>2. LifecycleInv' /\ StopInv' /\ CadenceInv'
    BY <1>2 DEF SampleBegin, LifecycleInv, StopInv, CadenceInv
  <2>3. SampleInv'
    BY <1>2 DEF SampleBegin, SampleInv, TypeOK
  <2> QED BY <2>1, <2>2, <2>3
<1>3. CASE ReadNext
  <2>1. reading \in Fields
    BY <1>3 DEF ReadNext, TypeOK, Fields
  <2>2. /\ snap' \in [Fields -> Values \cup {Default}]
        /\ \A f \in Fields : snap'[f] \in held[f] \cup {Default}
    BY <1>3, <2>1 DEF ReadNext, TypeOK, SampleInv
  <2>3. TypeOK'
    BY <1>3, <2>1, <2>2 DEF ReadNext, TypeOK, Fields
  <2>4. LifecycleInv' /\ StopInv' /\ CadenceInv'
    BY <1>3 DEF ReadNext, LifecycleInv, StopInv, CadenceInv
  <2>5. SampleInv'
    BY <1>3, <2>2 DEF ReadNext, SampleInv
  <2> QED BY <2>3, <2>4, <2>5
<1>4. CASE SampleEnd
  BY <1>4 DEF SampleEnd, TypeOK, LifecycleInv, SampleInv, StopInv, CadenceInv
<1>5. CASE SendStatus
  BY <1>5 DEF SendStatus, TypeOK, LifecycleInv, SampleInv, StopInv, CadenceInv
<1>6. CASE SendFails
  BY <1>6 DEF SendFails, Exit, TypeOK, LifecycleInv, SampleInv, StopInv, CadenceInv
<1>7. CASE LoadCadence
  <2>1. TypeOK'
    BY <1>7, TicksType DEF LoadCadence, TypeOK
  <2>2. LifecycleInv' /\ SampleInv' /\ StopInv' /\ CadenceInv'
    BY <1>7 DEF LoadCadence, LifecycleInv, SampleInv, StopInv, CadenceInv
  <2> QED BY <2>1, <2>2
<1>8. CASE SleepTick
  <2>1. TypeOK'
    BY <1>8 DEF SleepTick, TypeOK
  <2>2. LifecycleInv' /\ SampleInv' /\ StopInv'
    BY <1>8 DEF SleepTick, LifecycleInv, SampleInv, StopInv
  <2>3. CadenceInv'
    BY <1>8 DEF SleepTick, CadenceInv, TypeOK
  <2> QED BY <2>1, <2>2, <2>3
<1>9. CASE SleepInterrupted
  BY <1>9 DEF SleepInterrupted, Exit, TypeOK, LifecycleInv, SampleInv, StopInv, CadenceInv
<1>10. CASE SleepDone
  BY <1>10 DEF SleepDone, TypeOK, LifecycleInv, SampleInv, StopInv, CadenceInv
<1> QED BY <1>1, <1>2, <1>3, <1>4, <1>5, <1>6, <1>7, <1>8, <1>9, <1>10 DEF Poller

\* No step of the poller, the owner or the camera breaks the invariant.
LEMMA NextInv == Inv /\ [Next]_vars => Inv'
<1> SUFFICES ASSUME Inv, [Next]_vars PROVE Inv'
  OBVIOUS
<1>1. CASE UNCHANGED vars
  BY <1>1 DEF Inv, vars, envVars, loopVars, history, TypeOK, LifecycleInv, SampleInv,
              StopInv, CadenceInv
<1> QED BY <1>1, EnvInv, OwnerInv, PollerInv DEF Next

\* The invariant holds throughout.
LEMMA InvHolds == Spec => []Inv
BY InitInv, NextInv, PTL DEF Spec

\* Type correctness of the Device, its poller and their surroundings.
THEOREM TypeCorrect == Spec => []TypeOK
<1>1. Inv => TypeOK
  BY DEF Inv
<1> QED BY <1>1, InvHolds, PTL

\* No Status mixes in a value from before its sample began.
THEOREM SnapshotsAreRecent == Spec => []SnapshotIsRecent
<1>1. Inv => SnapshotIsRecent
  BY DEF Inv, SampleInv, SnapshotIsRecent
<1> QED BY <1>1, InvHolds, PTL

\* Once poller_stop is up, at most the sample then in progress is sent, and when
\* Drop has returned the transport is held by nobody.
THEOREM LastStatus == Spec => []StopIsFinal
<1>1. Inv => StopIsFinal
  BY DEF Inv, StopInv, LifecycleInv, StopIsFinal
<1> QED BY <1>1, InvHolds, PTL

\* A new cadence waits for one Slow period at most, whatever the two periods.
THEOREM CadenceBound == Spec => []CadenceTakenUp
<1>1. Inv => CadenceTakenUp
  BY DEF Inv, CadenceInv, CadenceTakenUp
<1> QED BY <1>1, InvHolds, PTL

\* No Status is sent after Drop has returned.
THEOREM ClosedIsSilent == Spec => NothingAfterClose
<1>1. Inv => (owner = "closed" => ~SendStatus)
  BY DEF Inv, LifecycleInv, SendStatus
<1> QED BY <1>1, InvHolds, PTL DEF NothingAfterClose
=============================================================================
