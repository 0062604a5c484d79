-------------------------------- MODULE MCFfi --------------------------------
(* Small instances of Ffi: two functions at a time, the boundaries of      *)
(* every range, one camera.                                                *)
EXTENDS Ffi

ArgumentsOf(c) ==
  CASE c \in Signed16   -> {<<-32769>>, <<-32768>>, <<-10>>, <<32767>>, <<32768>>}
    [] c \in Unsigned16 -> {<<-1>>, <<300>>, <<65535>>, <<65536>>}
    [] c \in Flags \cup {"ae_lock", "face_focus"} -> {<<0>>, <<1>>, <<256>>}
    [] c = "bg_color"   -> {<<n>> : n \in (-3)..5}
    [] c = "bg_mode"    -> {<<1>>, <<2>>, <<17>>, <<18>>}
    [] c \in DOMAIN from_int \ {"bg_color", "bg_mode"} -> {<<n>> : n \in (-1)..6}
    [] c \in Focals     -> {<<-1>>, <<601>>, <<65535 * Den>>, <<65535 * Den + 1>>}
    [] c = "pan_tilt"   -> {<<-3, 540000 * Den>>, <<-540000 * Den, 3>>, <<540000 * Den + 1, 0>>}
    [] c = "white_balance" -> {<<0, 0>>, <<1, 6500>>, <<1, 65535>>, <<2, 0>>}
    [] c = "exposure_time" -> {<<0>>, <<2147483647>>}
    [] c = "suspend_time"  -> {<<0>>, <<300>>}
    [] c = "mask_level"    -> {<<-1>>, <<100>>, <<101>>, <<256>>}
    [] c = "button_mode"   -> {<<0>>, <<255>>}

\* Twice two accepted ones.
Some(c) ==
  CASE c \in Signed16 -> {<<-10>>, <<300>>}
    [] c \in Unsigned16 \cup Focals \cup {"exposure_time", "suspend_time"} -> {<<300>>, <<65535>>}
    [] c = "pan_tilt" -> {<<-3, 540000>>, <<540000, 3>>}
    [] c = "white_balance" -> {<<0, 0>>, <<1, 6500>>}
    [] c = "mask_level" -> {<<3>>, <<100>>}
    [] OTHER -> {<<0>>, <<1>>}

InstanceOf(v4l2, args, gets, calls, others) ==
  [linux |-> v4l2, args |-> args, gets |-> gets, calls |-> calls, others |-> others]

\* One control with all its arguments, its getter, and others that write to it.
Singly ==
  {InstanceOf(v4l2, c :> ArgumentsOf(c), {c} \cap Readable, {"handles"}, Places(c)) :
     v4l2 \in BOOLEAN, c \in Controls}

\* Every two controls; where a route matters, both.
Routed == {c \in Controls : Places(c) \cap (cid_for \cup {CAMERA_TERMINAL(13)}) # {}}
Pairs ==
  {InstanceOf(FALSE, c :> Some(c) @@ d :> Some(d), {}, {}, {}) : c, d \in Controls}
  \cup {InstanceOf(TRUE, c :> Some(c) @@ d :> Some(d), {}, {}, {}) : c, d \in Routed}
  \cup {InstanceOf(FALSE, c :> ArgumentsOf(c) @@ "ai_mode" :> ArgumentsOf("ai_mode"), {"ai_mode"}, {}, {}) :
           c \in {"media_mode", "auto_framing"}}

\* What goes over the RPC channel, and the events.
Rpc ==
  {InstanceOf(TRUE, "face_focus" :> ArgumentsOf("face_focus"), {}, {"handles"}, {XU_SEL_RPC}),
   InstanceOf(TRUE, <<>>, Texts, {}, {XU_SEL_RPC}),
   InstanceOf(TRUE, <<>>, {"serial"}, {"handles"}, {}),
   InstanceOf(TRUE, <<>>, {}, {"status"}, {XU_SEL_RPC})}
Events == {InstanceOf(TRUE, <<>>, {}, {"handles", "poll_event"}, {})}

MCInstances == Singly \cup Pairs \cup Rpc \cup Events

\* Another value, and a bit map with two modes or a byte that is no member of an
\* enumeration.  In the RPC buffer: nothing, a request, a serial that runs past
\* it, one with a byte that is not graphic, a version of three bytes, and the
\* reply to another command.
MCContents ==
  [route \in BOOLEAN \X UNION {Places(c) : c \in Setters} |->
     CASE route[2] = XU_SEL_MODE_REGISTER -> {<<STATUS_BLOB_MARKER>>, <<0>>}
       [] route[2] = XU_SEL_RPC ->
            {Zeros, SerialRequest, Copied(SerialReply, 12, <<45, 0>>), Copied(SerialReply, 17, <<7>>),
             Reply(RPC_GET_FIRMWARE, <<1, 6, 4>>), Reply(RPC_GET_DEVICE_HASH, [i \in 1..24 |-> i])}
       [] OTHER -> {Held(route[1], route[2], <<6, 0, 0, 0, 6, 0, 0, 0>>)}]

MCMac      == <<173, 182, 27, 152, 220, 141>>
MCFirmware == <<4, 40, 6, 100>>
MCSerial   == <<79, 66, 83>>
MCUsbSerials == {[i \in 1..n |-> 65] : n \in {0, 63, 64, 70}}
=============================================================================
