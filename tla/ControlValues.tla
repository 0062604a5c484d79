---------------------------- MODULE ControlValues ----------------------------
(***************************************************************************)
(* What a value is at each of its stations: the argument of a C call       *)
(* (lib.rs of the ffi crate), the enumeration of the Rust API, the bytes   *)
(* of the transfer (device.rs), and the number the Linux kernel is given   *)
(* for it where the transfer goes by V4L2 (uvcvideo.rs); and back again.   *)
(*                                                                         *)
(* An argument list is a tuple: two numbers for "pan_tilt" and             *)
(* "white_balance", one for every other control.  Enumerations are the     *)
(* names the source gives them.  An f32 is counted in steps of 1/Den, that *)
(* of pan and tilt in steps of 1/(540000 * Den): what the truncation drops *)
(* is kept, what f32 arithmetic rounds is not.  A NaN is an argument out   *)
(* of range.                                                               *)
(***************************************************************************)
EXTENDS Integers, Sequences

CONSTANT Den    \* the steps a unit of an f32 has

ASSUME DenAssumption == Den \in Nat \ {0}

u8 == 0..255
FitsU16(n) == 0 <= n /\ n <= 65535
FitsI16(n) == -32768 <= n /\ n <= 32767

-----------------------------------------------------------------------------
(* Numbers and their bytes, the least significant first.                   *)

\* Mutant of Le1: the byte of a negative number is not cast.
Uncast(v) == <<v>>

Le1(v) == <<v % 256>>
Le2(v) == <<v % 256, (v \div 256) % 256>>
Le4(v) == <<v % 256, (v \div 256) % 256, (v \div 65536) % 256, (v \div 16777216) % 256>>

SignedByte(b) == IF b < 128 THEN b ELSE b - 256

U16(b) == b[1] + 256 * b[2]
I16(b) == b[1] + 256 * SignedByte(b[2])
U32(b) == b[1] + 256 * b[2] + 65536 * b[3] + 16777216 * b[4]
I32(b) == b[1] + 256 * b[2] + 65536 * b[3] + 16777216 * SignedByte(b[4])

\* `as u16` and `as i32` of an f32: toward zero.
Truncated(n) == IF n >= 0 THEN n \div Den ELSE -((-n) \div Den)

\* u8::from(bool) of `on != 0`, and c_int::from(bool) of `byte != 0`.
Flag(n) == IF n # 0 THEN 1 ELSE 0

PAN_TILT_PROVISIONAL_SCALE == 540000

-----------------------------------------------------------------------------
(* Where the controls are: the entity and the selector and, behind the     *)
(* mode register of the Extension Unit, the id of the register.            *)

CAMERA_TERMINAL(selector) == <<1, selector>>
PROCESSING_UNIT(selector) == <<3, selector>>
XU_SEL_RPC           == <<2, 2>>
XU_SEL_MODE_REGISTER == <<2, 6>>
MODE(id) == <<2, 6, id>>

WHITE_BALANCE_TEMPERATURE      == PROCESSING_UNIT(10)
WHITE_BALANCE_TEMPERATURE_AUTO == PROCESSING_UNIT(11)

CtAddress ==
  [ae_mode |-> CAMERA_TERMINAL(2), ae_lock |-> CAMERA_TERMINAL(2),
   exposure_time |-> CAMERA_TERMINAL(4), focus |-> CAMERA_TERMINAL(6),
   auto_focus |-> CAMERA_TERMINAL(8), zoom |-> CAMERA_TERMINAL(11),
   pan_tilt |-> CAMERA_TERMINAL(13)]

PuAddress ==
  [brightness |-> PROCESSING_UNIT(2), contrast |-> PROCESSING_UNIT(3),
   gain |-> PROCESSING_UNIT(4), anti_flicker |-> PROCESSING_UNIT(5),
   hue |-> PROCESSING_UNIT(6), saturation |-> PROCESSING_UNIT(7),
   sharpness |-> PROCESSING_UNIT(8), backlight_compensation |-> PROCESSING_UNIT(9)]

\* The MODE_* ids (meet2.rs).
ModeAddress ==
  [media_mode |-> MODE(0), wdr |-> MODE(1), face_ae |-> MODE(3), fov |-> MODE(4),
   bg_mode |-> MODE(5), mask_level |-> MODE(6), button_mode |-> MODE(7),
   suspend_time |-> MODE(11), portrait |-> MODE(12), auto_framing |-> MODE(13),
   bg_color |-> MODE(16), bg_enable |-> MODE(17),
   disable_sleep_without_stream |-> MODE(18), microphone_during_sleep |-> MODE(19),
   flip_horizontal |-> MODE(20), ai_mode |-> MODE(22), audio_agc |-> MODE(23),
   led |-> MODE(24)]

Modes == DOMAIN ModeAddress

Address ==
  [c \in DOMAIN CtAddress \cup DOMAIN PuAddress \cup Modes |->
     IF c \in DOMAIN CtAddress THEN CtAddress[c]
     ELSE IF c \in DOMAIN PuAddress THEN PuAddress[c]
     ELSE ModeAddress[c]]

Controls == DOMAIN Address \cup {"white_balance"}

\* Of the mode register three can be read, at an offset of the status blob.
STATUS_OFFSET == [wdr |-> 6, face_ae |-> 7, ai_mode |-> 24]
STATUS_BLOB_MARKER == 39

-----------------------------------------------------------------------------
(* The families, by what their setters take and their getters return.      *)

Signed16   == {"brightness", "hue"}
Unsigned16 == {"contrast", "saturation", "sharpness", "gain", "backlight_compensation"}
Focals     == {"zoom", "focus"}
Flags      == {"auto_focus", "face_ae", "audio_agc", "flip_horizontal", "portrait", "led",
               "bg_enable", "disable_sleep_without_stream", "microphone_during_sleep"}

Numbered(names) == [n \in 0..(Len(names) - 1) |-> names[n + 1]]

-----------------------------------------------------------------------------
(* C integers and the enumerations.                                        *)

wb_from_int      == Numbered(<<"Auto", "Manual">>)
wdr_from_int     == Numbered(<<"Off", "Dol2To1">>)
fov_from_int     == Numbered(<<"Wide", "Medium", "Narrow">>)
media_from_int   == Numbered(<<"Normal", "Background", "AutoFrame">>)
framing_from_int == Numbered(<<"Group", "SingleCloseUp", "SingleUpperBody">>)
ai_from_int      == Numbered(<<"None", "Group", "Human", "Hand", "WhiteBoard", "Desk">>)
anti_flicker_from_int == Numbered(<<"Off", "Hz50", "Hz60", "Auto">>)
ae_mode_from_int == Numbered(<<"Manual", "Auto", "ShutterPriority", "AperturePriority">>)
bg_mode_from_int ==
  [n \in {0, 1, 17, 18} |-> CASE n = 0 -> "Disable" [] n = 1 -> "Color" [] n = 17 -> "Replace" [] n = 18 -> "Blur"]
cadence_from_int == Numbered(<<"Slow", "Fast">>)
bg_color_from_int ==
  [n \in (-2)..4 |-> <<"Disable", "Null", "Blue", "Green", "Red", "Black", "White">>[n + 3]]

from_int ==
  [wdr |-> wdr_from_int, fov |-> fov_from_int, media_mode |-> media_from_int,
   auto_framing |-> framing_from_int, ai_mode |-> ai_from_int,
   anti_flicker |-> anti_flicker_from_int, ae_mode |-> ae_mode_from_int,
   bg_mode |-> bg_mode_from_int, bg_color |-> bg_color_from_int]

wdr_to_int     == [Off |-> 0, Dol2To1 |-> 1]
ai_mode_to_int == [None |-> 0, Group |-> 1, Human |-> 2, Hand |-> 3, WhiteBoard |-> 4, Desk |-> 5]
anti_flicker_to_int == [Off |-> 0, Hz50 |-> 1, Hz60 |-> 2, Auto |-> 3]
ae_mode_to_int == [Manual |-> 0, Auto |-> 1, ShutterPriority |-> 2, AperturePriority |-> 3]

to_int == [wdr |-> wdr_to_int, ai_mode |-> ai_mode_to_int,
           anti_flicker |-> anti_flicker_to_int, ae_mode |-> ae_mode_to_int]

-----------------------------------------------------------------------------
(* The enumerations and their bytes.                                       *)

encode_wdr        == [Off |-> Le1(0), Dol2To1 |-> Le1(1)]
encode_fov        == [Wide |-> Le1(0), Medium |-> Le1(1), Narrow |-> Le1(2)]
encode_media_mode == [Normal |-> Le1(0), Background |-> Le1(1), AutoFrame |-> Le1(2)]
encode_auto_framing ==
  [Group |-> <<0, 0>>, SingleCloseUp |-> <<1, 0>>, SingleUpperBody |-> <<1, 1>>]
encode_ai_mode ==
  [None |-> Le2(0), Group |-> Le2(1), Human |-> Le2(2), Hand |-> Le2(3),
   WhiteBoard |-> Le2(4), Desk |-> Le2(5)]
encode_anti_flicker == [Off |-> Le1(0), Hz50 |-> Le1(1), Hz60 |-> Le1(2), Auto |-> Le1(3)]
encode_bg_mode  == [Disable |-> Le1(0), Color |-> Le1(1), Replace |-> Le1(17), Blur |-> Le1(18)]
encode_bg_color == [Disable |-> Le1(-2), Null |-> Le1(-1), Blue |-> Le1(0), Green |-> Le1(1),
                    Red |-> Le1(2), Black |-> Le1(3), White |-> Le1(4)]

encode_ae_mode ==
  [Manual |-> Le1(1), Auto |-> Le1(2), ShutterPriority |-> Le1(4), AperturePriority |-> Le1(8)]

encode ==
  [wdr |-> encode_wdr, fov |-> encode_fov, media_mode |-> encode_media_mode,
   auto_framing |-> encode_auto_framing, ai_mode |-> encode_ai_mode,
   anti_flicker |-> encode_anti_flicker, ae_mode |-> encode_ae_mode,
   bg_mode |-> encode_bg_mode, bg_color |-> encode_bg_color]

decode_wdr     == Numbered(<<"Off", "Dol2To1">>)
decode_ai_mode == Numbered(<<"None", "Group", "Human", "Hand", "WhiteBoard", "Desk">>)
decode_anti_flicker == Numbered(<<"Off", "Hz50", "Hz60", "Auto">>)
decode_ae_mode ==
  [b \in {1, 2, 4, 8} |-> CASE b = 1 -> "Manual" [] b = 2 -> "Auto"
                            [] b = 4 -> "ShutterPriority" [] b = 8 -> "AperturePriority"]

decode == [wdr |-> decode_wdr, ai_mode |-> decode_ai_mode,
           anti_flicker |-> decode_anti_flicker, ae_mode |-> decode_ae_mode]

-----------------------------------------------------------------------------
(* Setters: which arguments one takes, and its value bytes.                *)

PanTiltRange == (-(PAN_TILT_PROVISIONAL_SCALE * Den))..(PAN_TILT_PROVISIONAL_SCALE * Den)

\* i16::try_from, u16::try_from, the tables, `contains`, and u8::try_from with
\* the check for 100 behind it; the rest take all their C type can say.
Accepts(c, a) ==
  CASE c \in Signed16        -> FitsI16(a[1])
    [] c \in Unsigned16      -> FitsU16(a[1])
    [] c \in DOMAIN from_int -> a[1] \in DOMAIN from_int[c]
    [] c = "white_balance"   -> a[1] \in DOMAIN wb_from_int
    [] c \in Focals          -> a[1] \in 0..(65535 * Den)
    [] c = "pan_tilt"        -> a[1] \in PanTiltRange /\ a[2] \in PanTiltRange
    [] c = "mask_level"      -> a[1] \in u8 /\ a[1] <= 100
    [] OTHER                 -> TRUE

Bytes(c, a) ==
  CASE c \in Signed16 \cup Unsigned16 -> Le2(a[1])
    [] c \in Flags           -> Le1(Flag(a[1]))
    [] c \in DOMAIN from_int -> encode[c][from_int[c][a[1]]]
    [] c = "ae_lock"         -> encode_ae_mode[IF a[1] # 0 THEN "Manual" ELSE "Auto"]
    [] c \in Focals          -> Le2(Truncated(a[1]))
    [] c = "pan_tilt"        -> Le4(Truncated(a[1])) \o Le4(Truncated(a[2]))
    [] c = "exposure_time"   -> Le4(a[1])
    [] c = "suspend_time"    -> Le2(a[1])
    [] OTHER                 -> Le1(a[1])    \* mask_level, button_mode

\* The payload of a SET of the mode register: id, length, value, zeros.
MODE_REGISTER_PAYLOAD_LEN == 60
mode_register_payload(id, value) ==
  [i \in 1..MODE_REGISTER_PAYLOAD_LEN |->
     (<<id, Len(value)>> \o value \o [j \in 1..58 |-> 0])[i]]

-----------------------------------------------------------------------------
(* Getters: what one makes of the bytes, <<>> when it is Error::BadResponse.*)

Readable == Signed16 \cup Unsigned16 \cup Focals \cup DOMAIN decode
              \cup {"auto_focus", "face_ae", "pan_tilt", "exposure_time", "white_balance"}

Width(c) == IF c \in {"auto_focus", "anti_flicker", "ae_mode"} THEN 1
            ELSE IF c = "exposure_time" THEN 4
            ELSE IF c = "pan_tilt" THEN 8
            ELSE 2

normalised_pantilt(arc_seconds) == arc_seconds * Den

Decode(c, b) ==
  CASE c \in Signed16      -> <<I16(b)>>
    [] c \in Unsigned16    -> <<U16(b)>>
    [] c \in Flags         -> <<Flag(b[1])>>
    [] c \in Focals        -> <<U16(b) * Den>>
    [] c = "pan_tilt"      -> <<normalised_pantilt(I32(b)), normalised_pantilt(I32(SubSeq(b, 5, 8)))>>
    [] c = "exposure_time" -> <<U32(b)>>
    [] c \in DOMAIN decode -> IF b[1] \in DOMAIN decode[c]
                              THEN <<to_int[c][decode[c][b[1]]]>>
                              ELSE <<>>

-----------------------------------------------------------------------------
(* The two routes.  By V4L2 the kernel holds a number for the control, for *)
(* pan and tilt two; every other transfer carries the bytes as they are.   *)

cid_for == {PROCESSING_UNIT(2), PROCESSING_UNIT(3), PROCESSING_UNIT(7),
            WHITE_BALANCE_TEMPERATURE, WHITE_BALANCE_TEMPERATURE_AUTO,
            CAMERA_TERMINAL(6), CAMERA_TERMINAL(11)}

is_pantilt(at) == at = CAMERA_TERMINAL(13)

\* Mutant of is_signed_2byte: no two-byte control is signed.
NoneSigned(at) == FALSE

\* By cid; the brightness.
is_signed_2byte(at) == at = PROCESSING_UNIT(2)

payload_to_i32(at, b) ==
  CASE Len(b) = 1 -> b[1]
    [] Len(b) = 2 -> IF is_signed_2byte(at) THEN I16(b) ELSE U16(b)
    [] Len(b) = 4 -> I32(b)
    [] OTHER      -> 0

\* What a SET leaves behind, and the first n bytes a GET of it returns.
Held(linux, at, b) ==
  IF linux /\ is_pantilt(at) THEN <<I32(b), I32(SubSeq(b, 5, 8))>>
  ELSE IF linux /\ at \in cid_for THEN <<payload_to_i32(at, b)>>
  ELSE b

Fetched(linux, at, held, n) ==
  IF linux /\ is_pantilt(at) THEN Le4(held[1]) \o Le4(held[2])
  ELSE IF linux /\ at \in cid_for THEN SubSeq(Le4(held[1]), 1, n)
  ELSE SubSeq(held, 1, n)
=============================================================================
