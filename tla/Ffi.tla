--------------------------------- MODULE Ffi ---------------------------------
(***************************************************************************)
(* The C interface (lib.rs of the ffi crate) down to the camera: the       *)
(* handles, the setters and getters with their error codes, the texts      *)
(* written into the caller's buffers, the status structure and the events. *)
(* What values become on the way is in ControlValues, the frames of the    *)
(* RPC channel are in Meet2Frame.                                          *)
(*                                                                         *)
(* The caller passes no pointer it has freed, and opens no second device.  *)
(* One caller, one call at a time: how threads interleave is the matter of *)
(* Controls, RpcChannel, StatusPoller and EventChannel.  The camera is     *)
(* external.  It keeps a value per address, may refuse any transfer, and   *)
(* may be set by its button or by another program at any time.             *)
(***************************************************************************)
EXTENDS ControlValues, Meet2Frame

CONSTANTS
  Instances,  \* what is looked at together; see Instance
  Contents,   \* of an address, by the route, what others may write there
  Rooms,      \* the sizes of the buffers passed for a text
  Mac,        \* the camera's, as learned when it was opened
  Firmware,   \* its version, four numbers
  Serial,     \* its serial, the bytes of it
  UsbSerials  \* serials of the USB descriptor, as the events have them

Texts   == {"firmware", "serial"}
Setters == Controls \cup {"face_focus"}
Others  == {"handles", "status", "poll_event"}

\* What the C types of a setter's parameters can say.
Argument(c, a) ==
  /\ a \in Seq(Int)
  /\ Len(a) = IF c \in {"pan_tilt", "white_balance"} THEN 2 ELSE 1
  /\ c = "white_balance" => FitsU16(a[2])
  /\ c = "exposure_time" => 0 <= a[1] /\ a[1] \div 65536 <= 65535
  /\ c = "suspend_time" => FitsU16(a[1])
  /\ c = "button_mode" => a[1] \in u8

\* What an address can hold: the numbers of the kernel, or bytes.
Values(v4l2, at) ==
  IF at = XU_SEL_RPC THEN [0..(RPC_FRAME_LEN - 1) -> u8]
  ELSE IF v4l2 /\ (is_pantilt(at) \/ at \in cid_for) THEN Seq(Int)
  ELSE Seq(u8)

\* The route; the setters with the argument lists they are called with; the
\* getters; the other functions; the addresses that others than the caller write.
Instance(i) ==
  /\ i.linux \in BOOLEAN
  /\ DOMAIN i.args \subseteq Setters
  /\ \A c \in DOMAIN i.args : \A a \in i.args[c] : Argument(c, a)
  /\ i.gets \subseteq Readable \cup Texts
  /\ i.calls \subseteq Others
  /\ {<<i.linux, at>> : at \in i.others} \subseteq DOMAIN Contents

ASSUME FfiAssumption ==
  /\ \A i \in Instances : Instance(i)
  /\ Rooms \subseteq Nat
  /\ \A route \in DOMAIN Contents : Contents[route] \subseteq Values(route[1], route[2])
  /\ Serial \in Seq(Graphic) /\ Len(Serial) \in 1..44
  /\ Firmware \in Seq(u8) /\ Len(Firmware) = 4
  /\ UsbSerials \subseteq Seq(u8)

VARIABLES
  instance,   \* which of the Instances.  Rigid.
  registry,   \* the ObsbotDevices pointer: "null" or "live"
  device,     \* the ObsbotDevice pointer: "null" or "live"
  camera,     \* external: what the camera, or the kernel for it, holds at each address
  queue,      \* external: the events of the registry's receiver, at most one
  asked,      \* history: the arguments of a setter that last returned OBSBOT_OK, else <<>>
  call        \* history: the last call, its result and what it wrote

vars == <<instance, registry, device, camera, queue, asked, call>>

linux   == instance.linux    \* is the transport that of Linux?
setters == DOMAIN instance.args
inUse   == setters \cup instance.gets \cup instance.calls

OBSBOT_STR_MAX == 64

-----------------------------------------------------------------------------
(* The last call: function, control, result code, what was written to the  *)
(* caller's memory (<<>> for nothing), the room there was for a text, the  *)
(* bytes written, and the last frame sent.                                 *)

NoCall == [fn |-> "none", of |-> "none", rc |-> "OK", out |-> <<>>, room |-> 0, written |-> 0,
           sent |-> <<>>]
Returned(fn, c, rc, out) == [NoCall EXCEPT !.fn = fn, !.of = c, !.rc = rc, !.out = out]

\* The setters that write to one thing: to ask for one is to forget the others.
Groups == {{"ae_mode", "ae_lock"}, {"ai_mode", "auto_framing", "media_mode"}}
Group(c) == {c} \cup UNION {g \in Groups : c \in g}
Forget(cs) == [d \in setters |-> IF d \in cs THEN <<>> ELSE asked[d]]

-----------------------------------------------------------------------------
(* The camera.                                                             *)

Places(c) ==
  CASE c = "white_balance" -> {WHITE_BALANCE_TEMPERATURE, WHITE_BALANCE_TEMPERATURE_AUTO}
    [] c \in DOMAIN STATUS_OFFSET -> {Address[c], XU_SEL_MODE_REGISTER}
    [] c \in Controls \ (DOMAIN STATUS_OFFSET \cup {"white_balance"}) -> {Address[c]}
    [] c \in Texts \cup {"face_focus", "status"} -> {XU_SEL_RPC}
    [] OTHER -> {}

Initially(at) ==
  CASE at = XU_SEL_RPC           -> Zeros
    [] at = XU_SEL_MODE_REGISTER -> <<STATUS_BLOB_MARKER>>
    [] OTHER -> Held(linux, at, [i \in 1..8 |-> 0])

\* The frame by which it answers a request of the four kinds, and no other.
Reply(cmd, payload) ==
  Copied(Copied(Copied(Zeros, 0, <<170>>), 8, <<13, 10>> \o cmd \o u16_le(Len(payload))), 16, payload)
FirmwareRequest == firmware_request(Mac)
SerialRequest   == serial_request(Mac)
FaceFocusRequest == [on \in {0, 1} |-> face_focus_request(Mac, on)]
FirmwareReply == Reply(RPC_GET_FIRMWARE, Reverse(Firmware))
SerialReply   == Reply(RPC_GET_SERIAL, Serial \o [i \in 1..(44 - Len(Serial)) |-> 0])
Answered(buf, request) ==
  IF request = FirmwareRequest THEN FirmwareReply
  ELSE IF request = SerialRequest THEN SerialReply
  ELSE buf

\* The statuses it publishes, at the offsets of its firmware.
Published == [i \in {6, 7, 24} |-> CASE i = 6 -> MODE(1) [] i = 7 -> MODE(3) [] i = 24 -> MODE(22)]

\* What it may hold once a SET has succeeded.  A write of the mode register is
\* for the register it names; those for the framing and for the media mode
\* "AutoFrame" choose an AI mode too.  A frame is answered at once or late.
AfterSet(cam, at, bytes) ==
  IF at = XU_SEL_RPC
  THEN {cam, [cam EXCEPT ![at] = Answered(@, bytes)]}
  ELSE IF at # XU_SEL_MODE_REGISTER
  THEN {[cam EXCEPT ![at] = Held(linux, at, bytes)]}
  ELSE LET register == MODE(bytes[1])
           new == [cam EXCEPT ![register] = SubSeq(bytes, 3, 2 + bytes[2])]
           ai  == Address.ai_mode
       IN IF ai \in DOMAIN cam /\ (register = MODE(13) \/ (register = MODE(0) /\ bytes[3] = 2))
          THEN {[new EXCEPT ![ai] = Le2(n)] : n \in 0..5}
          ELSE {new}

\* A call makes one or two, or fails before the first.
AfterSets(sets) ==
  LET once == IF sets = <<>> THEN {camera} ELSE AfterSet(camera, sets[1].at, sets[1].bytes)
  IN IF Len(sets) < 2 THEN once ELSE UNION {AfterSet(cam, sets[2].at, sets[2].bytes) : cam \in once}

Fetch(at, n) == Fetched(linux, at, camera[at], n)

\* The button, or another program: the value of a place changes.
Changed(at) ==
  /\ \E v \in Contents[<<linux, at>>] : camera' = [camera EXCEPT ![at] = v]
  /\ asked' = Forget(UNION {Group(c) : c \in {d \in setters \ {"face_focus"} : at \in Places(d)}})
  /\ UNCHANGED <<instance, registry, device, queue, call>>

-----------------------------------------------------------------------------
(* The handles.                                                            *)

obsbot_devices_new ==
  /\ "handles" \in inUse
  /\ registry = "null"
  /\ registry' \in {"live", "null"}    \* Devices::new may fail
  /\ call' = Returned("new", "none", "OK", <<>>)
  /\ UNCHANGED <<instance, device, camera, queue, asked>>

\* Of a null pointer a no-op.  What is queued is dropped with the receiver.
obsbot_devices_free ==
  /\ "handles" \in inUse
  /\ registry' = "null"
  /\ queue' = <<>>
  /\ call' = Returned("free", "none", "OK", <<>>)
  /\ UNCHANGED <<instance, device, camera, asked>>

\* The first of the list, if there is one and it can be opened.
obsbot_devices_open_first ==
  /\ "handles" \in inUse
  /\ device = "null"
  /\ \E rc \in {"OK", "NOT_FOUND", "USB", "TIMEOUT", "BAD_RESPONSE", "FIRMWARE"} :
       /\ registry = "null" => rc = "NOT_FOUND"
       /\ device' = IF rc = "OK" THEN "live" ELSE "null"
       /\ call' = Returned("open", "none", rc, IF rc = "OK" THEN <<"device">> ELSE <<>>)
  /\ UNCHANGED <<instance, registry, camera, queue, asked>>

obsbot_device_close ==
  /\ "handles" \in inUse
  /\ device' = "null"
  /\ call' = Returned("close", "none", "OK", <<>>)
  /\ UNCHANGED <<instance, registry, camera, queue, asked>>

\* The number is looked at before the handle.  What the poller makes of a
\* cadence is in StatusPoller.
obsbot_device_set_status_cadence(n) ==
  /\ "handles" \in inUse
  /\ \/ /\ n \notin DOMAIN cadence_from_int
        /\ call' = Returned("cadence", "none", "OUT_OF_RANGE", <<>>)
     \/ /\ n \in DOMAIN cadence_from_int
        /\ call' = Returned("cadence", "none", IF device = "null" THEN "NOT_FOUND" ELSE "OK", <<>>)
  /\ UNCHANGED <<instance, registry, device, camera, queue, asked>>

-----------------------------------------------------------------------------
(* Setters.                                                                *)

SetOf(at, bytes) == [at |-> at, bytes |-> bytes]

\* The transfers of a call whose arguments are accepted.
Sets(c, a) ==
  CASE c = "face_focus" -> <<SetOf(XU_SEL_RPC, FaceFocusRequest[Flag(a[1])])>>
    [] c = "white_balance" ->
         IF wb_from_int[a[1]] = "Auto"
         THEN <<SetOf(WHITE_BALANCE_TEMPERATURE_AUTO, Le1(1))>>
         ELSE <<SetOf(WHITE_BALANCE_TEMPERATURE_AUTO, Le1(0)),
                SetOf(WHITE_BALANCE_TEMPERATURE, Le2(a[2]))>>
    [] c \in Modes ->
         <<SetOf(XU_SEL_MODE_REGISTER, mode_register_payload(Address[c][3], Bytes(c, a)))>>
    [] OTHER -> <<SetOf(Address[c], Bytes(c, a))>>

\* Before the device is asked: an integer that is no member of the enumeration
\* and a level that is no u8, even for a null handle; in the device's method
\* everything else.
TurnedDown(c, a) == ~Accepts(c, a)
BeforeTheHandle(c, a) ==
  TurnedDown(c, a) /\ (c \in DOMAIN from_int \cup {"white_balance"} \/ (c = "mask_level" /\ a[1] \notin u8))

\* with_device; a transfer that fails is the last, and leaves those before it done.
set(c, a) ==
  /\ \/ /\ TurnedDown(c, a)
        /\ call' = Returned("set", c, IF device = "null" /\ ~BeforeTheHandle(c, a)
                                      THEN "NOT_FOUND"
                                      ELSE "OUT_OF_RANGE", <<>>)
        /\ UNCHANGED <<camera, asked>>
     \/ /\ ~TurnedDown(c, a)
        /\ device = "null"
        /\ call' = Returned("set", c, "NOT_FOUND", <<>>)
        /\ UNCHANGED <<camera, asked>>
     \/ /\ ~TurnedDown(c, a)
        /\ device = "live"
        /\ camera' \in AfterSets(Sets(c, a))
        /\ asked' = [Forget(Group(c)) EXCEPT ![c] = a]
        /\ call' = [Returned("set", c, "OK", <<>>) EXCEPT
                      !.sent = IF c = "face_focus" THEN Sets(c, a)[1].bytes ELSE <<>>]
     \/ /\ ~TurnedDown(c, a)
        /\ device = "live"
        /\ \E done \in 0..(Len(Sets(c, a)) - 1) : camera' \in AfterSets(SubSeq(Sets(c, a), 1, done))
        /\ asked' = Forget(Group(c))
        /\ call' = Returned("set", c, "USB", <<>>)
  /\ UNCHANGED <<instance, registry, device, queue>>

-----------------------------------------------------------------------------
(* Getters.                                                                *)

\* GET_CUR of the mode register, the marker first.
read_status_blob ==
  [i \in {0} \cup DOMAIN Published |->
     IF i = 0 THEN Fetch(XU_SEL_MODE_REGISTER, 1)[1]
     ELSE IF Published[i] \in DOMAIN camera THEN Fetch(Published[i], 1)[1]
     ELSE 0]

\* Mutant of white_balance: the bit is taken for the mode.
BitForMode ==
  <<Flag(Fetch(WHITE_BALANCE_TEMPERATURE_AUTO, 1)[1]), U16(Fetch(WHITE_BALANCE_TEMPERATURE, 2))>>

white_balance ==
  <<IF Fetch(WHITE_BALANCE_TEMPERATURE_AUTO, 1)[1] = 0 THEN 1 ELSE 0,
    U16(Fetch(WHITE_BALANCE_TEMPERATURE, 2))>>

\* What the getter's device method returns, <<>> for Error::BadResponse.
Got(c) ==
  CASE c = "white_balance" -> white_balance
    [] c \in DOMAIN STATUS_OFFSET ->
         IF read_status_blob[0] # STATUS_BLOB_MARKER
         THEN <<>>
         ELSE Decode(c, <<read_status_blob[STATUS_OFFSET[c]]>>)
    [] OTHER -> Decode(c, Fetch(Address[c], Width(c)))

\* read_into, and the getters of two values and of enumerations, which are
\* written out.  outNull: one of the output pointers is null.
get(c, outNull) ==
  /\ \/ /\ device = "null" \/ outNull
        /\ call' = Returned("get", c, "NOT_FOUND", <<>>)
     \/ /\ device = "live" /\ ~outNull
        /\ call' = IF Got(c) = <<>>
                   THEN Returned("get", c, "BAD_RESPONSE", <<>>)
                   ELSE Returned("get", c, "OK", Got(c))
     \/ /\ device = "live" /\ ~outNull
        /\ call' = Returned("get", c, "USB", <<>>)
  /\ UNCHANGED <<instance, registry, device, camera, queue, asked>>

-----------------------------------------------------------------------------
(* Texts.                                                                  *)

Request(t) == IF t = "firmware" THEN FirmwareRequest ELSE SerialRequest
Decoded(t, buf) == IF t = "firmware" THEN decode_firmware_reply(buf) ELSE decode_serial_reply(buf)

\* The length of "a.b.c.d", and of a serial.
Digits(n) == IF n < 10 THEN 1 ELSE IF n < 100 THEN 2 ELSE 3
Length(t, text) ==
  IF t = "firmware"
  THEN 3 + Digits(text[1]) + Digits(text[2]) + Digits(text[3]) + Digits(text[4])
  ELSE Len(text)

TooLong(length, room) == length + 1 > room

\* Mutant of Copy: what fits is written before the length is looked at.
CopyThenCheck(t, text, room) ==
  IF TooLong(Length(t, text), room)
  THEN [rc |-> "OUT_OF_RANGE", out |-> <<text>>, written |-> room]
  ELSE [rc |-> "OK", out |-> <<text>>, written |-> Length(t, text) + 1]

Copy(t, text, room) ==
  IF TooLong(Length(t, text), room)
  THEN [rc |-> "OUT_OF_RANGE", out |-> <<>>, written |-> 0]
  ELSE [rc |-> "OK", out |-> <<text>>, written |-> Length(t, text) + 1]

\* copy_string_out of firmware_from_camera or of serial_from_camera.
copy_string_out(t, outNull, room) ==
  /\ \/ /\ device = "null" \/ outNull \/ room = 0
        /\ call' = Returned("text", t, "NOT_FOUND", <<>>)
        /\ UNCHANGED camera
     \/ /\ device = "live" /\ ~outNull /\ room # 0
        /\ camera' \in AfterSet(camera, XU_SEL_RPC, Request(t))
        /\ LET text == Decoded(t, camera'[XU_SEL_RPC])
               done == IF text = <<>>
                       THEN [rc |-> "BAD_RESPONSE", out |-> <<>>, written |-> 0]
                       ELSE Copy(t, text[1], room)
           IN call' = [NoCall EXCEPT !.fn = "text", !.of = t, !.rc = done.rc, !.out = done.out,
                                     !.room = room, !.written = done.written, !.sent = Request(t)]
     \/ /\ device = "live" /\ ~outNull /\ room # 0
        /\ call' = Returned("text", t, "USB", <<>>)
        /\ UNCHANGED camera
  /\ UNCHANGED <<instance, registry, device, queue, asked>>

\* The part of a text that a structure has room for.
copy_into_buf(cap, s) == SubSeq(s, 1, IF Len(s) < cap - 1 THEN Len(s) ELSE cap - 1)

-----------------------------------------------------------------------------
(* The status structure and the events.                                    *)

\* The transfers of sample_status, each of which may fail; pan and tilt are one.
Samples == {{"brightness"}, {"contrast"}, {"saturation"}, {"zoom"}, {"pan", "tilt"}}
Measured == UNION Samples
Failures == {{}, Samples} \cup {{s} : s \in Samples}    \* bound: none, all, any one
Fields == Measured \cup Texts

\* Which of the fields were filled, and the texts; what was not read is zero.
Snapshot(measured, firmware, serial) ==
  [fields |-> measured \cup (IF firmware = <<>> THEN {} ELSE {"firmware"})
                       \cup (IF serial = <<>> THEN {} ELSE {"serial"}),
   firmware |-> firmware, serial |-> serial]

\* Both texts, best effort, then the sample.  Never an error.
obsbot_device_status(outNull) ==
  /\ "status" \in inUse
  /\ \/ /\ device = "null" \/ outNull
        /\ call' = Returned("status", "none", "NOT_FOUND", <<>>)
        /\ UNCHANGED camera
     \/ /\ device = "live" /\ ~outNull
        /\ \E after \in AfterSet(camera, XU_SEL_RPC, Request("firmware")) :
           \E read \in SUBSET Texts, failed \in Failures :
             /\ camera' \in AfterSet(after, XU_SEL_RPC, Request("serial"))
             /\ LET Text(t, cam) == IF t \in read THEN Decoded(t, cam[XU_SEL_RPC]) ELSE <<>>
                IN call' = Returned("status", "none", "OK",
                                    <<Snapshot(Measured \ UNION failed, Text("firmware", after),
                                               Text("serial", camera'))>>)
  /\ UNCHANGED <<instance, registry, device, queue, asked>>

\* External: the watcher, or the poller of an open device, whose snapshots are
\* sample_status and nothing more, has sent an event.
Sent ==
  /\ "poll_event" \in inUse
  /\ registry = "live"
  /\ queue = <<>>
  /\ \E kind \in {"ADDED", "REMOVED", "STATUS"}, serial \in UsbSerials, failed \in Failures :
       queue' = <<[kind |-> kind, serial |-> serial, status |->
                     IF kind = "STATUS" THEN <<Snapshot(Measured \ UNION failed, <<>>, <<>>)>>
                                        ELSE <<>>]>>
  /\ UNCHANGED <<instance, registry, device, camera, asked, call>>

\* With nothing queued a call that does not wait, or that waits for a while, ends.
obsbot_devices_poll_event(outNull) ==
  /\ "poll_event" \in inUse
  /\ \/ /\ registry = "null" \/ outNull
        /\ call' = Returned("poll_event", "none", "NOT_FOUND", <<>>)
        /\ UNCHANGED queue
     \/ /\ registry = "live" /\ ~outNull /\ queue = <<>>
        /\ call' = Returned("poll_event", "none", "TIMEOUT", <<>>)
        /\ UNCHANGED queue
     \/ /\ registry = "live" /\ ~outNull /\ queue # <<>>
        /\ LET copied == copy_into_buf(OBSBOT_STR_MAX, queue[1].serial)
           IN call' = [Returned("poll_event", "none", "OK", <<[queue[1] EXCEPT !.serial = copied]>>)
                         EXCEPT !.room = OBSBOT_STR_MAX, !.written = Len(copied) + 1]
        /\ queue' = <<>>
  /\ UNCHANGED <<instance, registry, device, camera, asked>>

-----------------------------------------------------------------------------
Init ==
  /\ instance \in Instances
  /\ registry = IF "handles" \in inUse THEN "null" ELSE "live"
  /\ device = IF "handles" \in inUse THEN "null" ELSE "live"
  /\ camera = [at \in UNION {Places(c) : c \in inUse} |-> Initially(at)]
  /\ queue = <<>>
  /\ asked = [c \in setters |-> <<>>]
  /\ call = NoCall

Next ==
  \/ obsbot_devices_new \/ obsbot_devices_free
  \/ obsbot_devices_open_first \/ obsbot_device_close
  \/ \E n \in -1..2 : obsbot_device_set_status_cadence(n)
  \/ \E c \in setters : \E a \in instance.args[c] : set(c, a)
  \/ \E c \in instance.gets \ Texts, outNull \in BOOLEAN : get(c, outNull)
  \/ \E t \in instance.gets \cap Texts, outNull \in BOOLEAN, room \in Rooms : copy_string_out(t, outNull, room)
  \/ \E outNull \in BOOLEAN : obsbot_device_status(outNull) \/ obsbot_devices_poll_event(outNull)
  \/ Sent
  \/ \E at \in instance.others : Changed(at)

Spec == Init /\ [][Next]_vars

-----------------------------------------------------------------------------
TypeOK ==
  /\ instance \in Instances
  /\ registry \in {"null", "live"}
  /\ device \in {"null", "live"}
  /\ DOMAIN camera = UNION {Places(c) : c \in inUse}
  /\ \A at \in DOMAIN camera : camera[at] \in Values(linux, at)
  /\ Len(queue) <= 1
  /\ queue # <<>> => registry = "live"
  /\ \A c \in setters : asked[c] # <<>> => asked[c] \in instance.args[c]
  /\ call.rc \in {"OK", "USB", "NOT_FOUND", "TIMEOUT", "OUT_OF_RANGE", "FIRMWARE", "BAD_RESPONSE"}

-----------------------------------------------------------------------------
(* What the arguments of a setter mean, as the documents of the C interface*)
(* and the UVC class say: the number of the control and its bytes.         *)

TwosComplement(n, width) == [i \in 1..width |-> (n \div <<1, 256, 65536, 16777216>>[i]) % 256]

Number(c, a) ==
  CASE c \in Flags -> IF a[1] = 0 THEN 0 ELSE 1
    [] c = "ae_mode" -> <<1, 2, 4, 8>>[a[1] + 1]
    [] c = "ae_lock" -> IF a[1] = 0 THEN 2 ELSE 1
    [] c = "auto_framing" -> IF a[1] = 2 THEN 257 ELSE a[1]
    [] c \in Focals -> a[1] \div Den
    [] OTHER -> a[1]
BytesOf(c) == IF c = "exposure_time" THEN 4
              ELSE IF c \in Signed16 \cup Unsigned16 \cup Focals \cup {"suspend_time", "ai_mode", "auto_framing"}
              THEN 2
              ELSE 1
TowardZero(n) == IF n < 0 THEN -((-n) \div Den) ELSE n \div Den

\* The camera, or the kernel, holds it at the address.
HoldsNumber(v4l2, cam, at, n, width) ==
  cam[at] = IF v4l2 /\ at \in cid_for THEN <<n>> ELSE TwosComplement(n, width)

Holds(v4l2, cam, c, a) ==
  CASE c = "face_focus" -> TRUE
    [] c = "white_balance" ->
         /\ HoldsNumber(v4l2, cam, WHITE_BALANCE_TEMPERATURE_AUTO, 1 - a[1], 1)
         /\ a[1] = 1 => HoldsNumber(v4l2, cam, WHITE_BALANCE_TEMPERATURE, a[2], 2)
    [] c = "pan_tilt" ->
         LET axes == <<TowardZero(a[1]), TowardZero(a[2])>>
         IN cam[Address[c]] = IF v4l2 THEN axes
                              ELSE TwosComplement(axes[1], 4) \o TwosComplement(axes[2], 4)
    [] OTHER -> HoldsNumber(v4l2, cam, Address[c], Number(c, a), BytesOf(c))

(* As long as nobody else touches the camera, it holds what a setter was   *)
(* called with and answered OBSBOT_OK for, at the control's own address    *)
(* and in the number or the bytes the UVC class has for it, whatever other *)
(* setter is called next: no two controls share a register, no sign and no *)
(* byte order is lost on either route (device.rs, uvcvideo.rs, meet2.rs).  *)
CameraHoldsWhatWasAsked ==
  \A c \in setters : asked[c] # <<>> => Holds(linux, camera, c, asked[c])

\* The value heard back may lack what the control cannot hold.
Heard(c, a, out) ==
  CASE c \in Flags -> out = <<IF a[1] = 0 THEN 0 ELSE 1>>
    [] c \in Focals \cup {"pan_tilt"} ->
         Len(out) = Len(a) /\ \A i \in 1..Len(a) : out[i] = TowardZero(a[i]) * Den
    [] c = "white_balance" -> out[1] = a[1] /\ (a[1] = 1 => out[2] = a[2])
    [] OTHER -> out = a

(* A getter that returns OBSBOT_OK gives back, in the setter's own         *)
(* encoding, what the setter was last called with, unless the value was    *)
(* changed by others: both tables of an enumeration, both byte orders and  *)
(* the offsets of the status blob fit together (lib.rs, device.rs).  Nor   *)
(* does it answer OBSBOT_ERR_BAD_RESPONSE then, save to a blob it cannot   *)
(* read.                                                                   *)
ReadsBack ==
  call.fn = "get" /\ call.of \in setters /\ asked[call.of] # <<>> =>
    /\ call.rc = "OK" => Heard(call.of, asked[call.of], call.out)
    /\ call.rc = "BAD_RESPONSE" =>
         /\ call.of \in DOMAIN STATUS_OFFSET
         /\ camera[XU_SEL_MODE_REGISTER] # <<STATUS_BLOB_MARKER>>

(* A call that fails writes nothing to the caller's memory, and a setter   *)
(* that fails for its arguments or its handle nothing to the camera        *)
(* either; one that fails in a transfer has set no other control than its  *)
(* own (lib.rs: with_device, read_into, copy_string_out and the functions  *)
(* written out; device.rs: the range checks before the transfers).         *)
FailureLeavesAlone ==
  [][call'.rc # "OK" =>
       /\ call'.out = <<>>
       /\ call' # call /\ call'.fn = "set" =>
            /\ call'.rc \in {"OUT_OF_RANGE", "NOT_FOUND"} => camera' = camera
            /\ \A at \in DOMAIN camera \ Places(call'.of) : camera'[at] = camera[at]]_vars

(* A text that was asked for and answered OBSBOT_OK is the camera's own,   *)
(* whole, and with its NUL within the buffer (copy_string_out).  That of   *)
(* an event is the whole serial or as much of it as fits, with its NUL     *)
(* within the array, and that of a status is the camera's or none          *)
(* (copy_into_buf); no other command's reply, no request echoed from the   *)
(* buffer and no reply that runs past it is ever taken for one             *)
(* (parse_rpc_reply, decode_firmware_reply, decode_serial_reply).          *)
TextsAreWhole ==
  [][call'.rc = "OK" =>
       /\ call'.fn = "text" => /\ call'.out = <<IF call'.of = "firmware" THEN Firmware ELSE Serial>>
                               /\ call'.written <= call'.room
       /\ call'.fn = "status" => /\ call'.out[1].firmware \in {<<>>, <<Firmware>>}
                                 /\ call'.out[1].serial \in {<<>>, <<Serial>>}
       /\ call'.fn = "poll_event" => call'.written <= OBSBOT_STR_MAX
       /\ call'.fn = "poll_event" /\ queue # <<>> /\ queue' = <<>> =>
            \E rest \in {SubSeq(queue[1].serial, n, Len(queue[1].serial)) :
                          n \in 1..(Len(queue[1].serial) + 1)} :
              /\ queue[1].serial = call'.out[1].serial \o rest
              /\ rest # <<>> => call'.written = OBSBOT_STR_MAX]_vars

\* The frames a Meet 2 was seen to understand, with the MAC it has (meet2.rs, tests).
Padded(bytes) == [i \in 0..(RPC_FRAME_LEN - 1) |-> IF i < Len(bytes) THEN bytes[i + 1] ELSE 0]
RPC_REQUEST_FIRMWARE ==
  Padded(<<170, 1, 1, 0, 12, 0, 193, 80, 10, 13, 8, 4, 0, 0, 0, 0, 0, 0, 173, 182, 27, 152, 220, 141>>)
RPC_REQUEST_SERIAL ==
  Padded(<<170, 1, 3, 0, 12, 0, 49, 83, 10, 13, 200, 24, 0, 0, 0, 0, 0, 0, 0, 0, 0, 0, 0, 0,
           173, 182, 27, 152, 220, 141, 1, 1>>)
RPC_REQUEST_FACE_FOCUS_ON ==
  Padded(<<170, 37, 4, 0, 12, 0, 216, 198, 10, 2, 2, 54, 4, 0, 191, 251, 1, 0, 0, 0, 0, 0, 0, 0, 0, 0,
           173, 182, 27, 152, 220, 141, 1, 1>>)
RPC_REQUEST_FACE_FOCUS_OFF ==
  Padded(<<170, 37, 4, 0, 12, 0, 216, 198, 10, 2, 2, 54, 4, 0, 190, 7, 0, 0, 0, 0, 0, 0, 0, 0, 0, 0,
           173, 182, 27, 152, 220, 141, 1, 1>>)

(* Every frame that is sent is one the camera was seen to understand, byte *)
(* for byte with both checksums, and the one of the function called        *)
(* (build_rpc_frame, crc16_usb).                                           *)
RequestsUnderstood ==
  call.sent # <<>> =>
    call.sent = CASE call.of = "firmware" -> RPC_REQUEST_FIRMWARE
                  [] call.of = "serial" -> RPC_REQUEST_SERIAL
                  [] call.of = "face_focus" ->
                       IF asked["face_focus"] = <<0>> THEN RPC_REQUEST_FACE_FOCUS_OFF
                       ELSE RPC_REQUEST_FACE_FOCUS_ON

(* The document of ObsbotEvent: "for Status events every field is filled   *)
(* exactly as in obsbot_device_status" (lib.rs).  Here: a status event     *)
(* with all that is measured has the two texts as well.                    *)
StatusEventsFilled ==
  call.fn = "poll_event" /\ call.out # <<>> =>
    \A status \in {call.out[1].status[i] : i \in 1..Len(call.out[1].status)} :
      Measured \subseteq status.fields => status.fields = Fields
=============================================================================
