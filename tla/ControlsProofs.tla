---------------------------- MODULE ControlsProofs ----------------------------
(* Proofs about Controls, for any callers, parts and settings, on either   *)
(* transport.                                                              *)
EXTENDS Controls, TLAPS

(* A call of one transfer; a call of two, whose first part nothing but a   *)
(* setter moves.                                                           *)
OneTransfer(o) ==
  /\ \E s \in SUBSET Parts : o.transfers = Once(s)
  /\ o.kind = "set" => \/ \E x \in Parts : o.transfers = Once({x})
                       \/ o.transfers = Once({"pan", "tilt"})
TwoAxes(o) == o.transfers = Twice({"pan"}, {"tilt"})
ModeAndTemperature(o) ==
  /\ o.transfers = Twice({"auto"}, {"temp"})
  /\ o.kind = "set" => o.want["auto"] = 0

\* The parts that every instance has.
LEMMA TheFour == "pan" \in Parts /\ "tilt" \in Parts /\ "auto" \in Parts /\ "temp" \in Parts
BY ConstantsAssumption DEF ConstantsAssumption

\* What the operations have in common.
Shaped(o) ==
  /\ o.kind \in {"set", "get"}
  /\ o.kind = "set" => DOMAIN o.want = PartsOf(o)
  /\ OneTransfer(o) \/ TwoAxes(o) \/ ModeAndTemperature(o)

\* The parts of a call of one transfer ...
LEMMA PartsOne ==
  ASSUME NEW o, NEW s, o.transfers = Once(s)
  PROVE  Len(o.transfers) = 1 /\ o.transfers[1] = s /\ PartsOf(o) = s
<1>1. o.transfers = <<s>>
  BY DEF Once
<1>2. Len(o.transfers) = 1 /\ o.transfers[1] = s
  BY <1>1
<1>3. 1..Len(o.transfers) = {1}
  BY <1>2
<1> QED BY <1>2, <1>3 DEF PartsOf

\* ... and of one of two.
LEMMA PartsTwo ==
  ASSUME NEW o, NEW r, NEW s, o.transfers = Twice(r, s)
  PROVE  /\ Len(o.transfers) = 2 /\ o.transfers[1] = r /\ o.transfers[2] = s
         /\ PartsOf(o) = r \cup s
<1>1. Len(o.transfers) = 2 /\ o.transfers[1] = r /\ o.transfers[2] = s
  BY DEF Twice
<1>2. 1..Len(o.transfers) = {1, 2}
  BY <1>1
<1>3. PartsOf(o) = UNION {o.transfers[i] : i \in {1, 2}}
  BY <1>2 DEF PartsOf
<1> QED BY <1>1, <1>3

LEMMA Transfers ==
  /\ \A s : Len(Once(s)) = 1
  /\ \A r, s : Len(Twice(r, s)) = 2 /\ Twice(r, s)[1] = r /\ Twice(r, s)[2] = s
BY DEF Once, Twice

\* The two axes, one after the other.
LEMMA AxesParts ==
  ASSUME NEW o, TwoAxes(o)
  PROVE  Len(o.transfers) = 2 /\ o.transfers[1] = {"pan"} /\ o.transfers[2] = {"tilt"}
<1>1. o.transfers = Twice({"pan"}, {"tilt"})
  BY DEF TwoAxes
<1> QED BY <1>1, Transfers

\* The mode, then the temperature.
LEMMA ModeParts ==
  ASSUME NEW o, ModeAndTemperature(o)
  PROVE  Len(o.transfers) = 2 /\ o.transfers[1] = {"auto"} /\ o.transfers[2] = {"temp"}
<1>1. o.transfers = Twice({"auto"}, {"temp"})
  BY DEF ModeAndTemperature
<1> QED BY <1>1, Transfers

\* Every operation has that shape.
LEMMA Shape == \A o \in Operations : Shaped(o)
<1> TAKE o \in Operations
<1>1. CASE \E p, q \in Settings \cup {TooLarge} : o = set_pan_tilt(p, q)
  <2>1. o.kind = "set" /\ o.transfers = PanTilt /\ DOMAIN o.want = {"pan", "tilt"}
    BY <1>1 DEF set_pan_tilt, Set
  <2>2. CASE linux
    <3>1. o.transfers = Twice({"pan"}, {"tilt"})
      BY <2>1, <2>2 DEF PanTilt
    <3>2. PartsOf(o) = {"pan", "tilt"}
      BY <3>1, PartsTwo
    <3> QED BY <2>1, <3>1, <3>2 DEF Shaped, TwoAxes
  <2>3. CASE ~linux
    <3>1. o.transfers = Once({"pan", "tilt"})
      BY <2>1, <2>3 DEF PanTilt
    <3>2. PartsOf(o) = {"pan", "tilt"}
      BY <3>1, PartsOne
    <3> QED BY <2>1, <3>1, <3>2, TheFour DEF Shaped, OneTransfer
  <2> QED BY <2>2, <2>3
<1>2. CASE \E k \in Settings : o = set_white_balance_manual(k)
  <2>1. /\ o.kind = "set" /\ o.transfers = Twice({"auto"}, {"temp"})
        /\ DOMAIN o.want = {"auto", "temp"} /\ o.want["auto"] = 0
    BY <1>2 DEF set_white_balance_manual, WhiteBalanceManual, Set
  <2>2. PartsOf(o) = {"auto", "temp"}
    BY <2>1, PartsTwo
  <2> QED BY <2>1, <2>2 DEF Shaped, ModeAndTemperature
<1>3. CASE \E x \in Parts, v \in Settings \cup {TooLarge} : o = set_one(x, v)
  <2>1. PICK x \in Parts : o.kind = "set" /\ o.transfers = Once({x}) /\ DOMAIN o.want = {x}
    BY <1>3 DEF set_one, Set
  <2>2. PartsOf(o) = {x}
    BY <2>1, PartsOne
  <2> QED BY <2>1, <2>2 DEF Shaped, OneTransfer
<1>4. CASE \E x \in Parts : o = get_one(x)
  BY <1>4 DEF get_one, Get, Shaped, OneTransfer
<1>5. CASE o = pan_tilt
  BY <1>5, TheFour DEF pan_tilt, PanTilt, Get, Shaped, OneTransfer, TwoAxes
<1>6. CASE o = set_white_balance_auto
  <2>1. o.kind = "set" /\ o.transfers = Once({"auto"}) /\ DOMAIN o.want = {"auto"}
    BY <1>6 DEF set_white_balance_auto, Set
  <2>2. PartsOf(o) = {"auto"}
    BY <2>1, PartsOne
  <2> QED BY <2>1, <2>2, TheFour DEF Shaped, OneTransfer
<1>7. CASE o = white_balance
  BY <1>7 DEF white_balance, WhiteBalance, Get, Shaped, ModeAndTemperature
<1>8. CASE o = read_status_blob
  BY <1>8 DEF read_status_blob, Get, Blob, Shaped, OneTransfer
<1> QED BY <1>1, <1>2, <1>3, <1>4, <1>5, <1>6, <1>7, <1>8 DEF Operations, One

LEMMA ShapedLength == ASSUME NEW o, Shaped(o) PROVE Len(o.transfers) \in {1, 2}
<1>1. CASE \E s : o.transfers = Once(s)
  BY <1>1, Transfers
<1>2. CASE \E r, s : o.transfers = Twice(r, s)
  BY <1>2, Transfers
<1> QED BY <1>1, <1>2 DEF Shaped, OneTransfer, TwoAxes, ModeAndTemperature

\* A call is one transfer or two.
LEMMA Lengths == \A o \in Operations : Len(o.transfers) \in {1, 2}
<1> TAKE o \in Operations
<1>1. Shaped(o)
  BY Shape
<1> QED BY <1>1, ShapedLength

-----------------------------------------------------------------------------
(* The inductive invariant                                                 *)

(* Calls that started have their arguments in range.                       *)
RangeInv == \A t \in Callers : Calling(t) => InRange(op[t])

(* Between its two transfers, a setter nobody disturbs has its first value *)
(* in the camera; a getter has read its first part, and it still holds.    *)
SetInv(t) == \A x \in op[t].transfers[1] : camera[x] = op[t].want[x]
GetInv(t) == got[t] = [x \in op[t].transfers[1] |-> camera[x]]
HalfwayInv ==
  \A t \in Callers :
    /\ step[t] = 1 => got[t] = <<>>
    /\ step[t] = 2 /\ ~disturbed[t] => /\ op[t].kind = "set" => SetInv(t)
                                       /\ op[t].kind = "get" => GetInv(t)

Inv == TypeOK /\ RangeInv /\ HalfwayInv

\* A call under way is one of the operations, at one of its transfers.
LEMMA UnderWay ==
  ASSUME TypeOK, NEW t \in Callers, Calling(t)
  PROVE  /\ op[t] \in Operations /\ Shaped(op[t])
         /\ step[t] \in 1..Len(op[t].transfers)
         /\ Now(t) \subseteq PartsOf(op[t])
<1>1. op[t] \in Operations /\ Shaped(op[t])
  BY Shape DEF TypeOK
<1>2. Len(op[t].transfers) \in {1, 2}
  BY <1>1, Lengths
<1>3. step[t] \in 1..Len(op[t].transfers)
  BY <1>2 DEF TypeOK, Calling
<1>4. Now(t) \subseteq PartsOf(op[t])
  BY <1>3 DEF PartsOf, Now
<1> QED BY <1>1, <1>3, <1>4

\* All it touches are parts of the camera.
LEMMA PartsOfOperation == \A o \in Operations : PartsOf(o) \subseteq Parts
<1> TAKE o \in Operations
<1>1. Shaped(o)
  BY Shape
<1>2. CASE OneTransfer(o)
  BY <1>2, PartsOne DEF OneTransfer
<1>3. CASE TwoAxes(o)
  BY <1>3, PartsTwo, TheFour DEF TwoAxes
<1>4. CASE ModeAndTemperature(o)
  BY <1>4, PartsTwo, TheFour DEF ModeAndTemperature
<1> QED BY <1>1, <1>2, <1>3, <1>4 DEF Shaped

\* At its second transfer it is one of the two that have two.
LEMMA Halfway ==
  ASSUME TypeOK, NEW t \in Callers, step[t] = 2
  PROVE  /\ TwoAxes(op[t]) \/ ModeAndTemperature(op[t])
         /\ Calling(t) /\ Last(t)
         /\ Now(t) = op[t].transfers[2]
         /\ PartsOf(op[t]) = op[t].transfers[1] \cup op[t].transfers[2]
<1>1. Calling(t)
  BY DEF Calling
<1>2. Shaped(op[t]) /\ step[t] <= Len(op[t].transfers)
  BY <1>1, UnderWay DEF TypeOK
<1>3. ASSUME OneTransfer(op[t]) PROVE FALSE
  <2>1. PICK s : op[t].transfers = Once(s)
    BY <1>3 DEF OneTransfer
  <2>2. Len(op[t].transfers) = 1
    BY <2>1, PartsOne
  <2> QED BY <1>2, <2>2
<1>4. TwoAxes(op[t]) \/ ModeAndTemperature(op[t])
  BY <1>2, <1>3 DEF Shaped
<1>5. Len(op[t].transfers) = 2 /\ PartsOf(op[t]) = op[t].transfers[1] \cup op[t].transfers[2]
  BY <1>4, PartsTwo DEF TwoAxes, ModeAndTemperature
<1> QED BY <1>1, <1>4, <1>5 DEF Last, Now

\* No automatism governs an axis or the mode of the white balance.
LEMMA Ungoverned == \A x \in {"pan", "tilt", "auto"} : \A cam : ~Governed(x, cam)
BY DEF Governed, Automatism

\* ... so the first part of such a call is not governed.
LEMMA FirstUngoverned ==
  ASSUME TypeOK, NEW t \in Callers, step[t] = 2
  PROVE  \A x \in op[t].transfers[1] : \A cam : ~Governed(x, cam)
<1>1. op[t].transfers[1] = {"pan"} \/ op[t].transfers[1] = {"auto"}
  BY Halfway, PartsTwo DEF TwoAxes, ModeAndTemperature
<1> QED BY <1>1, Ungoverned

\* The transport stays what it is, and with it the operations.
LEMMA SameOperations == UNCHANGED linux => Operations' = Operations
BY DEF Operations, set_pan_tilt, pan_tilt, PanTilt

\* Idle is no operation.
LEMMA IdleIsNone == Idle.transfers = <<>> /\ Idle \notin Operations
<1>1. Idle.transfers = <<>>
  BY DEF Idle, Get
<1>2. ASSUME Idle \in Operations PROVE FALSE
  <2>1. Shaped(Idle)
    BY <1>2, Shape
  <2>2. Len(Idle.transfers) \in {1, 2}
    BY <2>1, ShapedLength
  <2> QED BY <1>1, <2>2
<1> QED BY <1>1, <1>2

\* Nothing has been read.
LEMMA NothingRead == <<>> \in UNION {[s -> Settings] : s \in SUBSET Parts}
<1>1. <<>> \in [{} -> Settings]
  OBVIOUS
<1>2. {} \in SUBSET Parts
  OBVIOUS
<1> QED BY <1>1, <1>2

\* At first nothing is called.
LEMMA InitInv == Init => Inv
<1> SUFFICES ASSUME Init PROVE Inv
  OBVIOUS
<1>1. \A t \in Callers : step[t] = 0 /\ op[t] = Idle /\ ~Calling(t)
  BY DEF Init, Calling
<1>2. TypeOK
  <2>1. /\ linux \in BOOLEAN /\ camera \in [Parts -> Settings]
        /\ op \in [Callers -> Operations \cup {Idle}] /\ step \in [Callers -> 0..2]
    BY DEF Init
  <2>2. /\ got \in [Callers -> UNION {[s -> Settings] : s \in SUBSET Parts}]
        /\ result \in [Callers -> {"none", "ok", "OutOfRange", "Usb"}]
        /\ disturbed \in [Callers -> BOOLEAN]
    BY NothingRead DEF Init
  <2>3. Len(Idle.transfers) = 0
    BY IdleIsNone
  <2>4. \A t \in Callers : step[t] <= Len(op[t].transfers) /\ (op[t] = Idle <=> ~Calling(t))
    <3> TAKE t \in Callers
    <3>1. step[t] = 0 /\ Len(op[t].transfers) = 0
      BY <1>1, <2>3
    <3> QED BY <1>1, <3>1
  <2> QED BY <2>1, <2>2, <2>4 DEF TypeOK
<1> QED BY <1>1, <1>2 DEF Inv, RangeInv, HalfwayInv

\* A call begins.
LEMMA CallInv ==
  ASSUME Inv, NEW t \in Callers, NEW o \in Operations, Call(t, o)
  PROVE  Inv'
<1>1. TypeOK
  BY DEF Inv
<1>2. o # Idle /\ Len(o.transfers) \in {1, 2}
  BY IdleIsNone, Lengths
<1>3. Operations' = Operations
  BY SameOperations DEF Call
<1>4. \A u \in Callers : /\ op'[u] = IF u = t THEN o ELSE op[u]
                         /\ step'[u] = IF u = t THEN 1 ELSE step[u]
                         /\ got'[u] = IF u = t THEN <<>> ELSE got[u]
                         /\ disturbed'[u] = IF u = t THEN FALSE ELSE disturbed[u]
  BY <1>1 DEF Call, TypeOK
<1>5. TypeOK'
  <2>1. op' \in [Callers -> Operations \cup {Idle}] /\ step' \in [Callers -> 0..2]
    BY <1>1 DEF Call, TypeOK
  <2>2. /\ got' \in [Callers -> UNION {[s -> Settings] : s \in SUBSET Parts}]
        /\ result' \in [Callers -> {"none", "ok", "OutOfRange", "Usb"}]
        /\ disturbed' \in [Callers -> BOOLEAN]
    BY <1>1, NothingRead DEF Call, TypeOK
  <2>3. \A u \in Callers : step'[u] <= Len(op'[u].transfers) /\ (op'[u] = Idle <=> ~Calling(u)')
    <3> TAKE u \in Callers
    <3>1. CASE u = t
      <4>1. op'[u] = o /\ step'[u] = 1
        BY <1>4, <3>1
      <4>2. 1 <= Len(o.transfers)
        BY Lengths
      <4>3. Calling(u)' /\ op'[u] # Idle
        BY <4>1, <1>2 DEF Calling
      <4> QED BY <4>1, <4>2, <4>3
    <3>2. CASE u # t
      <4>1. op'[u] = op[u] /\ step'[u] = step[u]
        BY <1>4, <3>2
      <4>2. step[u] <= Len(op[u].transfers) /\ (op[u] = Idle <=> ~Calling(u))
        BY <1>1 DEF TypeOK
      <4> QED BY <4>1, <4>2 DEF Calling
    <3> QED BY <3>1, <3>2
  <2>4. linux' \in BOOLEAN /\ camera' \in [Parts -> Settings]
    BY <1>1 DEF Call, TypeOK
  <2> QED BY <1>3, <2>1, <2>2, <2>3, <2>4 DEF TypeOK
<1>6. RangeInv'
  <2> SUFFICES ASSUME NEW u \in Callers, Calling(u)' PROVE InRange(op'[u])
    BY DEF RangeInv, InRange
  <2>1. CASE u = t
    BY <1>4, <2>1 DEF Call, InRange
  <2>2. CASE u # t
    <3>1. op'[u] = op[u] /\ Calling(u)
      BY <1>4, <2>2 DEF Calling
    <3> QED BY <3>1 DEF Inv, RangeInv
  <2> QED BY <2>1, <2>2
<1>7. HalfwayInv'
  <2> SUFFICES ASSUME NEW u \in Callers
               PROVE  /\ step'[u] = 1 => got'[u] = <<>>
                      /\ step'[u] = 2 /\ ~disturbed'[u] => /\ op'[u].kind = "set" => SetInv(u)'
                                                           /\ op'[u].kind = "get" => GetInv(u)'
    BY DEF HalfwayInv
  <2>1. CASE u = t
    <3>1. step'[u] = 1 /\ got'[u] = <<>>
      BY <1>4, <2>1
    <3> QED BY <3>1
  <2>2. CASE u # t
    <3>1. /\ op'[u] = op[u] /\ step'[u] = step[u] /\ got'[u] = got[u]
          /\ disturbed'[u] = disturbed[u] /\ camera' = camera
      BY <1>4, <2>2 DEF Call
    <3> QED BY <3>1 DEF Inv, HalfwayInv, SetInv, GetInv
  <2> QED BY <2>1, <2>2
<1> QED BY <1>5, <1>6, <1>7 DEF Inv

\* A call is turned down.
LEMMA OutOfRangeInv ==
  ASSUME Inv, NEW t \in Callers, NEW o, OutOfRange(t, o)
  PROVE  Inv'
<1>1. Operations' = Operations
  BY SameOperations DEF OutOfRange
<1>2. TypeOK'
  BY <1>1 DEF OutOfRange, Inv, TypeOK, Calling
<1> QED BY <1>2 DEF OutOfRange, Inv, RangeInv, HalfwayInv, Calling, InRange, SetInv, GetInv

\* A return keeps the types of the callers' bookkeeping ...
LEMMA ReturnType ==
  ASSUME TypeOK, NEW t \in Callers, NEW r \in {"ok", "Usb"}, ReturnWith(t, r)
  PROVE  /\ op' \in [Callers -> Operations \cup {Idle}]
         /\ step' \in [Callers -> 0..2]
         /\ result' \in [Callers -> {"none", "ok", "OutOfRange", "Usb"}]
         /\ \A u \in Callers : step'[u] <= Len(op'[u].transfers) /\ (op'[u] = Idle <=> ~Calling(u)')
         /\ step'[t] = 0
         /\ \A u \in Callers \ {t} : op'[u] = op[u] /\ step'[u] = step[u] /\ result'[u] = result[u]
<1>1. /\ op' \in [Callers -> Operations \cup {Idle}]
      /\ step' \in [Callers -> 0..2]
      /\ result' \in [Callers -> {"none", "ok", "OutOfRange", "Usb"}]
  BY DEF TypeOK, ReturnWith
<1>2. /\ op'[t] = Idle /\ step'[t] = 0
      /\ \A u \in Callers \ {t} : op'[u] = op[u] /\ step'[u] = step[u] /\ result'[u] = result[u]
  BY DEF TypeOK, ReturnWith
<1>3. Len(Idle.transfers) = 0
  BY IdleIsNone
<1> QED BY <1>1, <1>2, <1>3 DEF TypeOK, Calling

\* ... and so does what follows a transfer: it ends the call or goes on to the second.
LEMMA ProceedType ==
  ASSUME TypeOK, NEW t \in Callers, Calling(t), UNCHANGED linux, Proceed(t)
  PROVE  /\ op' \in [Callers -> Operations \cup {Idle}]
         /\ step' \in [Callers -> 0..2]
         /\ result' \in [Callers -> {"none", "ok", "OutOfRange", "Usb"}]
         /\ \A u \in Callers : step'[u] <= Len(op'[u].transfers) /\ (op'[u] = Idle <=> ~Calling(u)')
         /\ step'[t] = 0 \/ (step[t] = 1 /\ step'[t] = 2 /\ op'[t] = op[t])
         /\ \A u \in Callers \ {t} : op'[u] = op[u] /\ step'[u] = step[u] /\ result'[u] = result[u]
<1>1. CASE Last(t)
  <2>1. ReturnWith(t, "ok")
    BY <1>1 DEF Proceed
  <2>2. /\ op' \in [Callers -> Operations \cup {Idle}]
        /\ step' \in [Callers -> 0..2]
        /\ result' \in [Callers -> {"none", "ok", "OutOfRange", "Usb"}]
        /\ \A u \in Callers : step'[u] <= Len(op'[u].transfers) /\ (op'[u] = Idle <=> ~Calling(u)')
        /\ step'[t] = 0
        /\ \A u \in Callers \ {t} : op'[u] = op[u] /\ step'[u] = step[u] /\ result'[u] = result[u]
    BY <2>1, ReturnType
  <2> QED BY <2>2
<1>2. CASE ~Last(t)
  <2>1. Len(op[t].transfers) \in {1, 2} /\ step[t] \in 1..Len(op[t].transfers)
    BY UnderWay, Lengths
  <2>2. step[t] = 1 /\ Len(op[t].transfers) = 2
    <3>1. step[t] # Len(op[t].transfers)
      BY <1>2 DEF Last
    <3>2. CASE Len(op[t].transfers) = 1
      <4>1. step[t] \in 1..1
        BY <2>1, <3>2
      <4> QED BY <3>1, <3>2, <4>1
    <3>3. CASE Len(op[t].transfers) = 2
      <4>1. step[t] \in 1..2
        BY <2>1, <3>3
      <4> QED BY <3>1, <3>3, <4>1
    <3> QED BY <2>1, <3>2, <3>3
  <2>3. UNCHANGED <<op, result>> /\ step' = [step EXCEPT ![t] = 2]
    BY <1>2, <2>2 DEF Proceed
  <2>4. step'[t] = 2 /\ \A u \in Callers \ {t} : step'[u] = step[u]
    BY <2>3 DEF TypeOK
  <2>5. step' \in [Callers -> 0..2]
    BY <2>3 DEF TypeOK
  <2>6. \A u \in Callers : step'[u] <= Len(op'[u].transfers) /\ (op'[u] = Idle <=> ~Calling(u)')
    <3> TAKE u \in Callers
    <3>1. step[u] <= Len(op[u].transfers) /\ (op[u] = Idle <=> ~Calling(u))
      BY DEF TypeOK
    <3>2. CASE u = t
      <4>1. step'[u] = 2 /\ op'[u] = op[u] /\ step[u] = 1
        BY <2>2, <2>3, <2>4, <3>2
      <4>2. step'[u] <= Len(op'[u].transfers)
        <5>1. Len(op'[u].transfers) = Len(op[u].transfers)
          BY <4>1
        <5>2. Len(op[u].transfers) = 2
          BY <2>2, <3>2
        <5> HIDE <2>2
        <5> QED BY <4>1, <5>1, <5>2
      <4>3. Calling(u) /\ Calling(u)'
        BY <4>1 DEF Calling
      <4> QED BY <3>1, <4>1, <4>2, <4>3
    <3>3. CASE u # t
      <4>1. step'[u] = step[u] /\ op'[u] = op[u]
        BY <2>3, <2>4, <3>3
      <4>2. Calling(u)' <=> Calling(u)
        BY <4>1 DEF Calling
      <4> QED BY <3>1, <4>1, <4>2
    <3> QED BY <3>2, <3>3
  <2>7. op' \in [Callers -> Operations \cup {Idle}] /\ result' \in [Callers -> {"none", "ok", "OutOfRange", "Usb"}]
    BY <2>3 DEF TypeOK
  <2> QED BY <2>2, <2>3, <2>4, <2>5, <2>6, <2>7
<1> QED BY <1>1, <1>2

\* A transfer of a setter.
LEMMA WriteInv ==
  ASSUME Inv, NEW t \in Callers, Write(t)
  PROVE  Inv'
<1>1. TypeOK /\ Calling(t) /\ op[t].kind = "set" /\ Proceed(t) /\ linux' = linux /\ got' = got
  BY DEF Inv, Write
<1>2. /\ op[t] \in Operations /\ Shaped(op[t])
      /\ Now(t) \subseteq PartsOf(op[t])
  BY <1>1, UnderWay
<1>3. \A x \in Now(t) : x \in Parts /\ op[t].want[x] \in Settings
  BY <1>1, <1>2, PartsOfOperation DEF Shaped, Inv, RangeInv, InRange
<1>4. camera' \in [Parts -> Settings]
  BY <1>1, <1>3 DEF Write, TypeOK
<1>5. /\ op' \in [Callers -> Operations \cup {Idle}]
      /\ step' \in [Callers -> 0..2]
      /\ result' \in [Callers -> {"none", "ok", "OutOfRange", "Usb"}]
      /\ \A u \in Callers : step'[u] <= Len(op'[u].transfers) /\ (op'[u] = Idle <=> ~Calling(u)')
      /\ step'[t] = 0 \/ (step[t] = 1 /\ step'[t] = 2 /\ op'[t] = op[t])
      /\ \A u \in Callers \ {t} : op'[u] = op[u] /\ step'[u] = step[u]
  BY <1>1, ProceedType
<1>6. TypeOK'
  <2>1. Operations' = Operations
    BY <1>1, SameOperations
  <2>2. disturbed' \in [Callers -> BOOLEAN]
    BY <1>1 DEF Write, TypeOK
  <2> QED BY <1>1, <1>4, <1>5, <2>1, <2>2 DEF TypeOK
<1>7. RangeInv'
  BY <1>1, <1>5 DEF Inv, RangeInv, Calling, InRange
<1>8. HalfwayInv'
  <2> SUFFICES ASSUME NEW u \in Callers
               PROVE  /\ step'[u] = 1 => got'[u] = <<>>
                      /\ step'[u] = 2 /\ ~disturbed'[u] => /\ op'[u].kind = "set" => SetInv(u)'
                                                           /\ op'[u].kind = "get" => GetInv(u)'
    BY DEF HalfwayInv
  <2>1. CASE u = t
    <3>1. CASE step'[t] = 0
      BY <2>1, <3>1
    <3>2. CASE step[t] = 1 /\ step'[t] = 2 /\ op'[t] = op[t]
      <4>1. Now(t) = op[t].transfers[1]
        BY <3>2 DEF Now
      <4>2. TypeOK'
        BY <1>6
      <4>3. \A x \in op[t].transfers[1] : ~Governed(x, camera)
        <5>1. ~OneTransfer(op[t])
          <6>1. step'[t] <= Len(op'[t].transfers)
            BY <1>5
          <6>2. 2 <= Len(op[t].transfers)
            BY <3>2, <6>1
          <6>3. Len(op[t].transfers) # 1
            BY <6>2
          <6> QED BY <6>3, PartsOne DEF OneTransfer
        <5>2. op[t].transfers[1] = {"pan"} \/ op[t].transfers[1] = {"auto"}
          BY <1>2, <5>1, PartsTwo DEF Shaped, TwoAxes, ModeAndTemperature
        <5> QED BY <5>2, Ungoverned
      <4>4. \A x \in op[t].transfers[1] : camera'[x] = op[t].want[x]
        BY <1>3, <4>1, <4>3 DEF Write
      <4>5. SetInv(t)'
        BY <3>2, <4>4 DEF SetInv
      <4> QED BY <1>1, <2>1, <3>2, <4>5
    <3> QED BY <1>5, <3>1, <3>2
  <2>2. CASE u # t
    <3>1. op'[u] = op[u] /\ step'[u] = step[u]
      BY <1>5, <2>2
    <3>2. CASE step[u] = 2 /\ ~disturbed'[u]
      <4>1. ~disturbed[u] /\ (~Calling(u) \/ Now(t) \cap PartsOf(op[u]) = {})
        BY <2>2, <3>2 DEF Write
      <4>2. /\ Calling(u)
            /\ op[u].transfers[1] \subseteq PartsOf(op[u])
            /\ op[u] \in Operations
        BY <1>1, <3>2, Halfway, UnderWay
      <4>3. \A x \in op[u].transfers[1] : x \in Parts /\ x \notin Now(t)
        BY <4>1, <4>2, PartsOfOperation
      <4>4. \A x \in op[u].transfers[1] : camera'[x] = camera[x]
        BY <4>3 DEF Write
      <4>5. /\ op[u].kind = "set" => SetInv(u)
            /\ op[u].kind = "get" => GetInv(u)
        <5>1. step[u] = 2 /\ ~disturbed[u]
          BY <3>2, <4>1
        <5>2. step[u] = 2 /\ ~disturbed[u] => (op[u].kind = "set" => SetInv(u)) /\ (op[u].kind = "get" => GetInv(u))
          BY DEF Inv, HalfwayInv
        <5> QED BY <5>1, <5>2
      <4>6. op[u].kind = "set" => SetInv(u)'
        BY <3>1, <4>4, <4>5 DEF SetInv
      <4>7. op[u].kind = "get" => GetInv(u)'
        BY <1>1, <3>1, <4>4, <4>5 DEF GetInv
      <4> QED BY <3>1, <3>2, <4>6, <4>7
    <3>3. step[u] = 1 => got'[u] = <<>>
      BY <1>1 DEF Inv, HalfwayInv
    <3> QED BY <3>1, <3>2, <3>3
  <2> QED BY <2>1, <2>2
<1> QED BY <1>6, <1>7, <1>8 DEF Inv

\* A transfer of a getter.
LEMMA ReadInv ==
  ASSUME Inv, NEW t \in Callers, Read(t)
  PROVE  Inv'
<1>1. /\ TypeOK /\ Calling(t) /\ op[t].kind = "get" /\ Proceed(t)
      /\ linux' = linux /\ camera' = camera /\ disturbed' = disturbed
  BY DEF Inv, Read
<1>2. op[t] \in Operations /\ Shaped(op[t]) /\ Now(t) \subseteq Parts
  BY <1>1, UnderWay, PartsOfOperation
<1>3. /\ op' \in [Callers -> Operations \cup {Idle}]
      /\ step' \in [Callers -> 0..2]
      /\ result' \in [Callers -> {"none", "ok", "OutOfRange", "Usb"}]
      /\ \A u \in Callers : step'[u] <= Len(op'[u].transfers) /\ (op'[u] = Idle <=> ~Calling(u)')
      /\ step'[t] = 0 \/ (step[t] = 1 /\ step'[t] = 2 /\ op'[t] = op[t])
      /\ \A u \in Callers \ {t} : op'[u] = op[u] /\ step'[u] = step[u]
  BY <1>1, ProceedType
<1> DEFINE read == [x \in DOMAIN got[t] \cup Now(t) |-> IF x \in Now(t) THEN camera[x] ELSE got[t][x]]
<1>4. got' = [got EXCEPT ![t] = read]
  BY DEF Read
<1>5. PICK s \in SUBSET Parts : got[t] \in [s -> Settings]
  BY <1>1 DEF TypeOK
<1>6. read \in [s \cup Now(t) -> Settings] /\ s \cup Now(t) \in SUBSET Parts
  BY <1>1, <1>2, <1>5 DEF TypeOK
<1>7. read \in UNION {[r -> Settings] : r \in SUBSET Parts}
  BY <1>6
<1>8. got' \in [Callers -> UNION {[r -> Settings] : r \in SUBSET Parts}]
  <2>1. got \in [Callers -> UNION {[r -> Settings] : r \in SUBSET Parts}]
    BY <1>1 DEF TypeOK
  <2> HIDE DEF read
  <2> QED BY <1>4, <1>7, <2>1
<1>9. got'[t] = read /\ \A u \in Callers \ {t} : got'[u] = got[u]
  <2>1. got \in [Callers -> UNION {[r -> Settings] : r \in SUBSET Parts}]
    BY <1>1 DEF TypeOK
  <2> HIDE DEF read
  <2> QED BY <1>4, <2>1
<1>10. TypeOK'
  <2>1. Operations' = Operations
    BY <1>1, SameOperations
  <2> QED BY <1>1, <1>3, <1>8, <2>1 DEF TypeOK
<1>11. RangeInv'
  BY <1>1, <1>3 DEF Inv, RangeInv, Calling, InRange
<1>12. HalfwayInv'
  <2> SUFFICES ASSUME NEW u \in Callers
               PROVE  /\ step'[u] = 1 => got'[u] = <<>>
                      /\ step'[u] = 2 /\ ~disturbed'[u] => /\ op'[u].kind = "set" => SetInv(u)'
                                                           /\ op'[u].kind = "get" => GetInv(u)'
    BY DEF HalfwayInv
  <2>1. CASE u = t
    <3>1. CASE step'[t] = 0
      BY <2>1, <3>1
    <3>2. CASE step[t] = 1 /\ step'[t] = 2 /\ op'[t] = op[t]
      <4>1. Now(t) = op[t].transfers[1] /\ got[t] = <<>>
        BY <3>2 DEF Now, Inv, HalfwayInv
      <4>2. read = [x \in op[t].transfers[1] |-> camera[x]]
        BY <4>1
      <4>3. GetInv(t)'
        BY <1>1, <1>9, <3>2, <4>2 DEF GetInv
      <4> QED BY <1>1, <2>1, <3>2, <4>3
    <3> QED BY <1>3, <3>1, <3>2
  <2>2. CASE u # t
    <3>1. /\ op'[u] = op[u] /\ step'[u] = step[u] /\ got'[u] = got[u]
          /\ disturbed'[u] = disturbed[u]
      BY <1>1, <1>3, <1>9, <2>2
    <3> QED BY <1>1, <3>1 DEF Inv, HalfwayInv, SetInv, GetInv
  <2> QED BY <2>1, <2>2
<1> QED BY <1>10, <1>11, <1>12 DEF Inv

\* A transfer that fails ends its call.
LEMMA TransferFailsInv ==
  ASSUME Inv, NEW t \in Callers, TransferFails(t)
  PROVE  Inv'
<1>1. TypeOK /\ ReturnWith(t, "Usb") /\ UNCHANGED <<linux, camera, got, disturbed>>
  BY DEF Inv, TransferFails
<1>2. /\ op' \in [Callers -> Operations \cup {Idle}]
      /\ step' \in [Callers -> 0..2]
      /\ result' \in [Callers -> {"none", "ok", "OutOfRange", "Usb"}]
      /\ \A u \in Callers : step'[u] <= Len(op'[u].transfers) /\ (op'[u] = Idle <=> ~Calling(u)')
      /\ step'[t] = 0
      /\ \A u \in Callers \ {t} : op'[u] = op[u] /\ step'[u] = step[u]
  BY <1>1, ReturnType
<1>3. TypeOK'
  BY <1>1, <1>2, SameOperations DEF TypeOK
<1>4. RangeInv'
  BY <1>1, <1>2 DEF Inv, RangeInv, Calling, InRange
<1>5. HalfwayInv'
  BY <1>1, <1>2 DEF Inv, HalfwayInv, SetInv, GetInv
<1> QED BY <1>3, <1>4, <1>5 DEF Inv

\* An automatism moves nothing that a call has already seen to.
LEMMA DriftInv ==
  ASSUME Inv, NEW x \in Parts, NEW v \in Settings, Drift(x, v)
  PROVE  Inv'
<1>1. /\ TypeOK /\ UNCHANGED <<linux, op, step, got, result, disturbed>>
      /\ camera' = [camera EXCEPT ![x] = v] /\ Governed(x, camera)
  BY DEF Inv, Drift, calls
<1>2. TypeOK'
  BY <1>1, SameOperations DEF TypeOK, Calling
<1>3. RangeInv'
  BY <1>1 DEF Inv, RangeInv, Calling, InRange
<1>4. \A t \in Callers : step[t] = 2 => \A y \in op[t].transfers[1] : camera'[y] = camera[y]
  <2> TAKE t \in Callers
  <2> HAVE step[t] = 2
  <2> TAKE y \in op[t].transfers[1]
  <2>1. y # x
    BY <1>1, FirstUngoverned
  <2> QED BY <1>1, <2>1 DEF TypeOK
<1>5. HalfwayInv'
  <2>1. ASSUME NEW t \in Callers, step[t] = 2
        PROVE  (SetInv(t) => SetInv(t)') /\ (GetInv(t) => GetInv(t)')
    BY <1>1, <1>4, <2>1 DEF SetInv, GetInv
  <2> QED BY <1>1, <2>1 DEF Inv, HalfwayInv
<1> QED BY <1>2, <1>3, <1>5 DEF Inv

\* No step breaks the invariant.
LEMMA NextInv == Inv /\ [Next]_vars => Inv'
<1> SUFFICES ASSUME Inv, [Next]_vars PROVE Inv'
  OBVIOUS
<1>1. CASE UNCHANGED vars
  <2>1. UNCHANGED <<linux, camera, op, step, got, result, disturbed>>
    BY <1>1 DEF vars, calls
  <2>2. TypeOK'
    BY <2>1, SameOperations DEF Inv, TypeOK, Calling
  <2> QED BY <2>1, <2>2 DEF Inv, RangeInv, HalfwayInv, SetInv, GetInv, Calling, InRange
<1> QED BY <1>1, CallInv, OutOfRangeInv, WriteInv, ReadInv, TransferFailsInv, DriftInv DEF Next

\* The invariant holds throughout.
LEMMA InvHolds == Spec => []Inv
BY InitInv, NextInv, PTL DEF Spec

-----------------------------------------------------------------------------
(* The theorems                                                            *)

\* Type correctness, for any callers, parts and settings.
THEOREM TypeCorrect == Spec => []TypeOK
<1>1. Inv => TypeOK
  BY DEF Inv
<1> QED BY <1>1, InvHolds, PTL

\* A call returns Ok with its last transfer.
LEMMA ReturnsAtLast ==
  ASSUME Inv, [Next]_vars, NEW t \in Callers, Returns(t)
  PROVE  Last(t) /\ (Write(t) \/ Read(t))
<1>1. TypeOK /\ Calling(t) /\ step'[t] = 0 /\ result'[t] = "ok"
  BY DEF Inv, Returns
<1>2. step[t] # 0
  BY <1>1 DEF Calling
<1>3. ~UNCHANGED vars
  BY <1>1, <1>2 DEF vars, calls
<1>4. ASSUME NEW u \in Callers, NEW o \in Operations, Call(u, o) \/ OutOfRange(u, o) PROVE FALSE
  BY <1>1, <1>2, <1>4 DEF Call, OutOfRange, TypeOK, Calling
<1>5. ASSUME NEW u \in Callers, TransferFails(u) PROVE FALSE
  BY <1>1, <1>2, <1>5 DEF TransferFails, ReturnWith, TypeOK
<1>6. ASSUME NEW x \in Parts, NEW v \in Settings, Drift(x, v) PROVE FALSE
  BY <1>1, <1>2, <1>6 DEF Drift, calls
<1>7. ASSUME NEW u \in Callers, Write(u) \/ Read(u) PROVE u = t /\ Last(t)
  <2>1. Proceed(u) /\ Calling(u) /\ UNCHANGED linux
    BY <1>7 DEF Write, Read
  <2>2. u = t
    BY <1>1, <1>2, <2>1, ProceedType
  <2>3. CASE ~Last(t)
    <3>1. step' = [step EXCEPT ![t] = step[t] + 1]
      BY <2>1, <2>2, <2>3 DEF Proceed
    <3>2. step[t] \in 0..2 /\ step'[t] = step[t] + 1
      BY <1>1, <3>1 DEF TypeOK
    <3> QED BY <1>1, <3>2
  <2> QED BY <2>2, <2>3
<1>8. \/ \E u \in Callers : \/ \E o \in Operations : Call(u, o) \/ OutOfRange(u, o)
                           \/ Write(u) \/ Read(u) \/ TransferFails(u)
      \/ \E x \in Parts, v \in Settings : Drift(x, v)
  BY <1>3 DEF Next
<1> QED BY <1>4, <1>5, <1>6, <1>7, <1>8

\* Whatever the other callers do, a setter that returns Ok undisturbed has
\* done all of it.
THEOREM SettersAreDone == Spec => OkIsDone
<1>1. ASSUME Inv, [Next]_vars, NEW t \in Callers, Returns(t), op[t].kind = "set", ~disturbed[t],
             NEW x \in DOMAIN op[t].want
      PROVE  \/ camera'[x] = op[t].want[x]
             \/ Governed(x, camera') /\ Len(op[t].transfers) = 1
  <2>1. TypeOK /\ Calling(t)
    BY <1>1 DEF Inv, Returns
  <2>2. Last(t) /\ Write(t)
    BY <1>1, ReturnsAtLast DEF Read
  <2>3. op[t] \in Operations /\ Shaped(op[t]) /\ x \in PartsOf(op[t]) /\ PartsOf(op[t]) \subseteq Parts
    BY <1>1, <2>1, UnderWay, PartsOfOperation DEF Shaped
  <2>4. camera' = [y \in Parts |-> IF y \in Now(t) /\ ~Governed(y, camera)
                                    THEN op[t].want[y] ELSE camera[y]]
    BY <2>2 DEF Write
  <2>5. CASE OneTransfer(op[t])
    <3>1. Len(op[t].transfers) = 1 /\ Now(t) = PartsOf(op[t])
      BY <2>2, <2>5, PartsOne DEF OneTransfer, Last, Now
    <3>2. CASE ~Governed(x, camera)
      BY <2>3, <2>4, <3>1, <3>2
    <3>3. CASE Governed(x, camera)
      <4>1. x \notin {"pan", "tilt", "auto"}
        BY <3>3, Ungoverned
      <4>2. PartsOf(op[t]) = {x}
        <5>1. op[t].transfers # Once({"pan", "tilt"})
          BY <2>3, <4>1, PartsOne
        <5>2. PICK y \in Parts : op[t].transfers = Once({y})
          BY <1>1, <2>5, <5>1 DEF OneTransfer
        <5>3. PartsOf(op[t]) = {y}
          BY <5>2, PartsOne
        <5> QED BY <2>3, <5>3
      <4>3. Automatism[x] \notin Now(t) /\ Automatism[x] \in Parts
        BY <3>1, <3>3, <4>2 DEF Governed, Automatism
      <4>4. Governed(x, camera')
        BY <2>4, <3>3, <4>3 DEF Governed
      <4> QED BY <3>1, <4>4
    <3> QED BY <3>2, <3>3
  <2>6. CASE ~OneTransfer(op[t])
    <3>1. Len(op[t].transfers) = 2 /\ step[t] = 2
      BY <2>2, <2>3, <2>6, PartsTwo DEF Shaped, TwoAxes, ModeAndTemperature, Last
    <3>2. SetInv(t)
      BY <1>1, <3>1 DEF Inv, HalfwayInv
    <3>3. /\ Now(t) = op[t].transfers[2]
          /\ PartsOf(op[t]) = op[t].transfers[1] \cup op[t].transfers[2]
      BY <2>1, <3>1, Halfway
    <3>4. CASE x \in op[t].transfers[1]
      <4>1. camera[x] = op[t].want[x]
        BY <3>2, <3>4 DEF SetInv
      <4> QED BY <2>3, <2>4, <4>1
    <3>5. CASE x \in op[t].transfers[2]
      <4>1. ~Governed(x, camera)
        <5>1. CASE TwoAxes(op[t])
          <6>1. op[t].transfers[2] = {"tilt"}
            BY <5>1, AxesParts
          <6> QED BY <3>5, <6>1, Ungoverned
        <5>2. CASE ModeAndTemperature(op[t])
          <6>1. op[t].transfers[1] = {"auto"} /\ op[t].transfers[2] = {"temp"}
            BY <5>2, ModeParts
          <6>2. op[t].want["auto"] = 0
            BY <1>1, <5>2 DEF ModeAndTemperature
          <6>3. camera["auto"] = 0
            BY <3>2, <6>1, <6>2 DEF SetInv
          <6>4. x = "temp"
            BY <3>5, <6>1
          <6> QED BY <6>3, <6>4 DEF Governed, Automatism
        <5> QED BY <2>1, <3>1, <5>1, <5>2, Halfway
      <4> QED BY <2>3, <2>4, <3>3, <3>5, <4>1
    <3> QED BY <2>3, <3>3, <3>4, <3>5
  <2> QED BY <2>5, <2>6
<1>2. Inv /\ [Next]_vars =>
        [\A t \in Callers : Returns(t) /\ op[t].kind = "set" /\ ~disturbed[t] =>
           \A x \in DOMAIN op[t].want :
              \/ camera'[x] = op[t].want[x]
              \/ Governed(x, camera') /\ Len(op[t].transfers) = 1]_vars
  BY <1>1
<1> QED BY <1>2, InvHolds, PTL DEF Spec, OkIsDone

\* A getter that returns Ok undisturbed returns values of one moment, on the
\* transport that reads them one by one as well.
THEOREM GettersAreConsistent == Spec => OneMoment
<1>1. ASSUME Inv, [Next]_vars, NEW t \in Callers, Returns(t), op[t].kind = "get", ~disturbed[t]
      PROVE  got'[t] = [x \in PartsOf(op[t]) |-> camera'[x]]
  <2>1. TypeOK /\ Calling(t)
    BY <1>1 DEF Inv, Returns
  <2>2. Last(t) /\ Read(t) /\ camera' = camera
    BY <1>1, ReturnsAtLast DEF Write, Read
  <2>3. Shaped(op[t])
    BY <2>1, UnderWay
  <2>4. got'[t] = [x \in DOMAIN got[t] \cup Now(t) |-> IF x \in Now(t) THEN camera[x] ELSE got[t][x]]
    BY <2>1, <2>2 DEF Read, TypeOK
  <2>5. CASE OneTransfer(op[t])
    <3>1. step[t] = 1 /\ Now(t) = PartsOf(op[t])
      BY <2>2, <2>5, PartsOne DEF OneTransfer, Last, Now
    <3>2. got[t] = <<>>
      BY <1>1, <3>1 DEF Inv, HalfwayInv
    <3> QED BY <2>2, <2>4, <3>1, <3>2
  <2>6. CASE ~OneTransfer(op[t])
    <3>1. step[t] = 2
      <4>1. Len(op[t].transfers) = 2
        <5>1. TwoAxes(op[t]) \/ ModeAndTemperature(op[t])
          BY <2>3, <2>6 DEF Shaped
        <5> QED BY <5>1, AxesParts, ModeParts
      <4> QED BY <2>2, <4>1 DEF Last
    <3>2. got[t] = [x \in op[t].transfers[1] |-> camera[x]]
      BY <1>1, <3>1 DEF Inv, HalfwayInv, GetInv
    <3>3. /\ Now(t) = op[t].transfers[2]
          /\ PartsOf(op[t]) = op[t].transfers[1] \cup op[t].transfers[2]
      BY <2>1, <3>1, Halfway
    <3> QED BY <2>2, <2>4, <3>2, <3>3
  <2> QED BY <2>5, <2>6
<1>2. Inv /\ [Next]_vars =>
        [\A t \in Callers : Returns(t) /\ op[t].kind = "get" /\ ~disturbed[t] =>
           got'[t] = [x \in PartsOf(op[t]) |-> camera'[x]]]_vars
  BY <1>1
<1> QED BY <1>2, InvHolds, PTL DEF Spec, OneMoment
=============================================================================
