------------------------------- MODULE Controls -------------------------------
(***************************************************************************)
(* The setters and getters of an opened camera (device.rs) over the two    *)
(* transports.  Most are one transfer.  Some are several, with nothing     *)
(* that holds them together: white balance is a mode and a temperature on  *)
(* every host; pan and tilt are one UVC control, which the Linux transport *)
(* splits into two V4L2 controls (uvcvideo.rs).  Callers interleave between *)
(* any two transfers.                                                      *)
(*                                                                         *)
(* The camera is external: a set of parts with a value each.  A part that  *)
(* an automatism governs changes by itself and does not take values.       *)
(***************************************************************************)
EXTENDS Naturals, Sequences

CONSTANTS
  Callers,    \* the threads that share the camera
  Parts,      \* the parts that are looked at; "pan", "tilt", "auto", "temp" among them
  Settings    \* the values a part can hold; 0 and 1 among them

(* The entities and their controls (uvc.rs, meet2.rs); "auto" and "temp"   *)
(* are those of the white balance.  Of the Extension Unit, five registers  *)
(* stand for all; set_media_mode, set_auto_framing and set_ai_mode write   *)
(* one and the same, "aiMode".                                             *)
CAMERA_TERMINAL == {"pan", "tilt", "zoom", "focus", "focusAuto", "ae", "exposure"}
PROCESSING_UNIT == {"brightness", "contrast", "hue", "saturation", "sharpness", "gain",
                    "backlight", "powerLine", "temp", "auto"}
XU_ENTITY       == {"wdr", "faceAe", "fov", "aiMode", "maskLevel"}

ASSUME ConstantsAssumption ==
  /\ {"pan", "tilt", "auto", "temp"} \subseteq Parts
  /\ Parts \subseteq CAMERA_TERMINAL \cup PROCESSING_UNIT \cup XU_ENTITY
  /\ {0, 1} \subseteq Settings
  /\ Settings \subseteq 0..100    \* in the range of every part

(* A value beyond every range, for the setters that check theirs.          *)
TooLarge == 65536
Checked == {"pan", "tilt", "zoom", "focus", "brightness", "contrast", "hue", "saturation",
            "sharpness", "gain", "backlight", "maskLevel"}

VARIABLES
  linux,      \* is the transport that of Linux?  Rigid.
  camera,     \* external: the value of each part
  op,         \* each caller's operation; Idle outside a call
  step,       \* its next transfer; 0 outside a call
  got,        \* what it has read so far
  result,     \* what the last call returned
  disturbed   \* history: did another caller write to what the call is about?

calls == <<op, step, got, result, disturbed>>
vars  == <<linux, camera, calls>>

-----------------------------------------------------------------------------
(* Operations: the parts of each transfer in turn and, of a setter, the    *)
(* values to write.                                                        *)

Set(transfers, want) == [kind |-> "set", transfers |-> transfers, want |-> want]
Get(transfers)       == [kind |-> "get", transfers |-> transfers, want |-> <<>>]

Once(s)     == <<s>>
Twice(r, s) == <<r, s>>

\* pantilt_set and pantilt_get: two V4L2 controls; on macOS one request.
PanTilt == IF linux THEN Twice({"pan"}, {"tilt"}) ELSE Once({"pan", "tilt"})

set_pan_tilt(p, t) == Set(PanTilt, [x \in {"pan", "tilt"} |-> IF x = "pan" THEN p ELSE t])
pan_tilt == Get(PanTilt)

\* Mutant of WhiteBalanceManual: the temperature is written while the automatism is still on.
TemperatureFirst == Twice({"temp"}, {"auto"})

\* The automatism off, then the temperature.
WhiteBalanceManual == Twice({"auto"}, {"temp"})
set_white_balance_auto == Set(Once({"auto"}), [x \in {"auto"} |-> 1])
set_white_balance_manual(k) ==
  Set(WhiteBalanceManual, [x \in {"auto", "temp"} |-> IF x = "auto" THEN 0 ELSE k])

\* Mutant of WhiteBalance: the mode is read after the temperature.
ModeLast == Twice({"temp"}, {"auto"})

WhiteBalance == Twice({"auto"}, {"temp"})
white_balance == Get(WhiteBalance)

\* All the others: one transfer for one part.
set_one(x, v) == Set(Once({x}), [y \in {x} |-> v])
get_one(x)    == Get(Once({x}))
One == Parts \ {"pan", "tilt", "auto", "temp"}

\* The status blob: one transfer for several parts (wdr, face_ae, ai_mode),
\* the only registers of the Extension Unit that can be read.
Blob == {"wdr", "faceAe", "aiMode"} \cap Parts
read_status_blob == Get(Once(Blob))

Operations ==
  {set_pan_tilt(p, t) : p, t \in Settings \cup {TooLarge}}
    \cup {set_white_balance_manual(k) : k \in Settings}
    \cup {set_one(x, v) : x \in One, v \in Settings}
    \cup {set_one(x, TooLarge) : x \in One \cap Checked}
    \cup {get_one(x) : x \in One \ XU_ENTITY}
    \cup {pan_tilt, set_white_balance_auto, white_balance}
    \cup (IF Blob = {} THEN {} ELSE {read_status_blob})

PartsOf(o) == UNION {o.transfers[i] : i \in 1..Len(o.transfers)}
InRange(o) == \A x \in DOMAIN o.want : o.want[x] \in Settings

Idle == Get(<<>>)
Calling(t) == step[t] # 0
Last(t)    == step[t] = Len(op[t].transfers)
Now(t)     == op[t].transfers[step[t]]    \* the parts of the next transfer

-----------------------------------------------------------------------------
(* Which way a transfer takes on Linux: v4l2_set and v4l2_get serve what   *)
(* is_pantilt and cid_for know; all else is a UVCIOC_CTRL_QUERY.           *)
cid_for == {"brightness", "contrast", "saturation", "temp", "auto", "focus", "zoom"}
Route(x) == IF x \in {"pan", "tilt"} \cup cid_for THEN "v4l2" ELSE "xu"

(* External: the automatism that governs a part, while it is on.           *)
Automatism == [temp |-> "auto", exposure |-> "ae", focus |-> "focusAuto"]
Governed(x, cam) ==
  /\ x \in DOMAIN Automatism
  /\ Automatism[x] \in Parts
  /\ cam[Automatism[x]] = 1

TypeOK ==
  /\ linux \in BOOLEAN
  /\ camera \in [Parts -> Settings]
  /\ op \in [Callers -> Operations \cup {Idle}]
  /\ step \in [Callers -> 0..2]
  /\ got \in [Callers -> UNION {[s -> Settings] : s \in SUBSET Parts}]
  /\ result \in [Callers -> {"none", "ok", "OutOfRange", "Usb"}]
  /\ disturbed \in [Callers -> BOOLEAN]
  /\ \A t \in Callers : /\ step[t] <= Len(op[t].transfers)
                        /\ op[t] = Idle <=> ~Calling(t)

-----------------------------------------------------------------------------
\* A call whose arguments are in range starts its transfers.
Call(t, o) ==
  /\ ~Calling(t)
  /\ InRange(o)
  /\ op' = [op EXCEPT ![t] = o]
  /\ step' = [step EXCEPT ![t] = 1]
  /\ got' = [got EXCEPT ![t] = <<>>]
  /\ result' = [result EXCEPT ![t] = "none"]
  /\ disturbed' = [disturbed EXCEPT ![t] = FALSE]
  /\ UNCHANGED <<linux, camera>>

\* Any other is turned down before the first transfer.
OutOfRange(t, o) ==
  /\ ~Calling(t)
  /\ ~InRange(o)
  /\ result' = [result EXCEPT ![t] = "OutOfRange"]
  /\ UNCHANGED <<linux, camera, op, step, got, disturbed>>

ReturnWith(t, r) ==
  /\ op' = [op EXCEPT ![t] = Idle]
  /\ step' = [step EXCEPT ![t] = 0]
  /\ result' = [result EXCEPT ![t] = r]

\* Mutant of Proceed: the last transfer is not noticed.
ProceedPastLast(t) == step' = [step EXCEPT ![t] = @ + 1] /\ UNCHANGED <<op, result>>

\* After a transfer: the next one, or Ok.
Proceed(t) ==
  IF Last(t) THEN ReturnWith(t, "ok")
             ELSE step' = [step EXCEPT ![t] = @ + 1] /\ UNCHANGED <<op, result>>

\* uvc_set of the parts of one transfer.
Write(t) ==
  /\ Calling(t)
  /\ op[t].kind = "set"
  /\ camera' = [x \in Parts |-> IF x \in Now(t) /\ ~Governed(x, camera)
                                  THEN op[t].want[x] ELSE camera[x]]
  /\ disturbed' = [u \in Callers |->
                     \/ disturbed[u]
                     \/ u # t /\ Calling(u) /\ Now(t) \cap PartsOf(op[u]) # {}]
  /\ Proceed(t)
  /\ UNCHANGED <<linux, got>>

\* uvc_get of the parts of one transfer.
Read(t) ==
  /\ Calling(t)
  /\ op[t].kind = "get"
  /\ got' = [got EXCEPT ![t] = [x \in DOMAIN @ \cup Now(t) |->
                                  IF x \in Now(t) THEN camera[x] ELSE @[x]]]
  /\ Proceed(t)
  /\ UNCHANGED <<linux, camera, disturbed>>

\* The transfer fails, or its reply does not decode: `?` ends the call.
TransferFails(t) ==
  /\ Calling(t)
  /\ ReturnWith(t, "Usb")
  /\ UNCHANGED <<linux, camera, got, disturbed>>

\* External: an automatism moves what it governs.
Drift(x, v) ==
  /\ Governed(x, camera)
  /\ camera[x] # v
  /\ camera' = [camera EXCEPT ![x] = v]
  /\ UNCHANGED <<linux, calls>>

-----------------------------------------------------------------------------
Init ==
  /\ linux \in BOOLEAN
  /\ camera \in [Parts -> Settings]
  /\ op = [t \in Callers |-> Idle]
  /\ step = [t \in Callers |-> 0]
  /\ got = [t \in Callers |-> <<>>]
  /\ result = [t \in Callers |-> "none"]
  /\ disturbed = [t \in Callers |-> FALSE]

Next ==
  \/ \E t \in Callers : \/ \E o \in Operations : Call(t, o) \/ OutOfRange(t, o)
                        \/ Write(t) \/ Read(t) \/ TransferFails(t)
  \/ \E x \in Parts, v \in Settings : Drift(x, v)

Spec == Init /\ [][Next]_vars

-----------------------------------------------------------------------------
(* Properties *)

Returns(t) == Calling(t) /\ step'[t] = 0 /\ result'[t] = "ok"

\* A setter that returns Ok, and that no other setter wrote across, has done
\* all of it: the camera holds every value asked for, except one that an
\* automatism governs.  A manual temperature is never one of those: the mode
\* is written before it.
OkIsDone ==
  [][\A t \in Callers : Returns(t) /\ op[t].kind = "set" /\ ~disturbed[t] =>
       \A x \in DOMAIN op[t].want :
          \/ camera'[x] = op[t].want[x]
          \/ Governed(x, camera') /\ Len(op[t].transfers) = 1]_vars

\* A getter that returns Ok, and that no setter wrote across, returns values
\* that the camera held together, at the moment of its last transfer: no half
\* of a pan/tilt pair, no temperature of another mode.
OneMoment ==
  [][\A t \in Callers : Returns(t) /\ op[t].kind = "get" /\ ~disturbed[t] =>
       got'[t] = [x \in PartsOf(op[t]) |-> camera'[x]]]_vars
=============================================================================
