----------------------------- MODULE Meet2Frame -----------------------------
(***************************************************************************)
(* The frames of the RPC channel, byte by byte (meet2.rs): how a request   *)
(* is built, with its checksums, and how a reply is read.  RpcChannel has  *)
(* what a call makes of them; there a frame is just a kind.                *)
(*                                                                         *)
(* A frame is a function of the offset, so that offsets are the source's.  *)
(* A result that the code may withhold is <<>> or a tuple of it.           *)
(***************************************************************************)
EXTENDS Integers, Sequences, SequencesExt

RPC_FRAME_LEN == 60
Zeros == [i \in 0..(RPC_FRAME_LEN - 1) |-> 0]

\* copy_from_slice at an offset, and &buf[from..to].
Copied(buf, at, bytes) ==
  [i \in DOMAIN buf |-> IF i \in at..(at + Len(bytes) - 1) THEN bytes[i - at + 1] ELSE buf[i]]
Slice(buf, from, to) == [i \in 1..(to - from) |-> buf[from + i - 1]]

u16_le(n) == <<n % 256, n \div 256>>

-----------------------------------------------------------------------------
\* Of two u16: the bits that one of them has.
Xor(a, b) == MapThenSumSet(LAMBDA i : 2^i * ((a \div 2^i + b \div 2^i) % 2), 0..15)

\* A shift; the eight shifts of a byte, which look at the low byte and move the rest down.
Shifted(crc) == IF crc % 2 = 1 THEN Xor(crc \div 2, 40961) ELSE crc \div 2    \* 0xA001
EightShifts == [low \in 0..255 |->
                  LET two(c) == Shifted(Shifted(c)) IN two(two(two(two(low))))]
Absorb(crc, b) == Xor(EightShifts[Xor(crc, b) % 256], crc \div 256)

crc16_usb(data) == 65535 - FoldLeft(Absorb, 65535, data)

\* Mutant of build_rpc_frame: the inner checksum is taken before the payload is there.
InnerOfNothing(seq_byte, sub_seq, cmd_set, cmd_id, sub_cmd_id, payload, tail_offset, tail) ==
  LET header  == Copied(Copied(Zeros, 0, <<170, seq_byte, sub_seq, 0, 12, 0>>),
                        8, <<10, cmd_set, cmd_id, sub_cmd_id>> \o u16_le(Len(payload)))
      logical == Copied(Copied(header, 16, payload), tail_offset, tail)
      outer   == Copied(logical, 6, u16_le(crc16_usb(Slice(logical, 0, 12))))
  IN IF (seq_byte \div 32) % 4 = 0
     THEN outer
     ELSE Copied(outer, 14, u16_le(crc16_usb(Slice(header, 12, 16 + Len(payload)))))

\* The outer checksum is of the first 12 bytes, the inner one, which only some
\* sequence bytes ask for, of the length and the payload; each with its own
\* place still zero.
build_rpc_frame(seq_byte, sub_seq, cmd_set, cmd_id, sub_cmd_id, payload, tail_offset, tail) ==
  LET header  == Copied(Copied(Zeros, 0, <<170, seq_byte, sub_seq, 0, 12, 0>>),
                        8, <<10, cmd_set, cmd_id, sub_cmd_id>> \o u16_le(Len(payload)))
      logical == Copied(Copied(header, 16, payload), tail_offset, tail)
      outer   == Copied(logical, 6, u16_le(crc16_usb(Slice(logical, 0, 12))))
  IN IF (seq_byte \div 32) % 4 = 0    \* seq_byte & 0x60
     THEN outer
     ELSE Copied(outer, 14, u16_le(crc16_usb(Slice(outer, 12, 16 + Len(payload)))))

-----------------------------------------------------------------------------
(* The four requests (device.rs and meet2.rs).                             *)

mac_query_request     == build_rpc_frame(1, 0, 13, 8, 24, <<>>, 16, <<>>)
firmware_request(mac) == build_rpc_frame(1, 1, 13, 8, 4, <<>>, 18, mac)
serial_request(mac)   == build_rpc_frame(1, 3, 13, 200, 24, <<>>, 24, mac \o <<1, 1>>)
face_focus_request(mac, on) ==
  build_rpc_frame(37, 4, 2, 2, 54, <<on, 0, 0, 0>>, 26, mac \o <<1, 1>>)

-----------------------------------------------------------------------------
(* Replies.                                                                *)

\* Mutant of parse_rpc_reply: the direction marker is not looked at.
AnyDirection(buf) ==
  LET end == 16 + buf[12] + 256 * buf[13]
  IN IF buf[0] # 170 \/ end > RPC_FRAME_LEN
     THEN <<>>
     ELSE <<[cmd |-> <<buf[10], buf[11]>>, payload |-> Slice(buf, 16, end)]>>

\* The magic, the direction, and a payload that ends within the buffer; the
\* checksums and the sequence bytes are not looked at.
parse_rpc_reply(buf) ==
  LET end == 16 + buf[12] + 256 * buf[13]
  IN IF buf[0] # 170 \/ buf[8] # 13 \/ buf[9] # 10 \/ end > RPC_FRAME_LEN
     THEN <<>>
     ELSE <<[cmd |-> <<buf[10], buf[11]>>, payload |-> Slice(buf, 16, end)]>>

RPC_GET_FIRMWARE    == <<8, 4>>
RPC_GET_SERIAL      == <<200, 24>>
RPC_GET_DEVICE_HASH == <<8, 24>>

\* The payload of a reply to the command, when it is one of at least that many bytes.
Answer(buf, cmd, least) ==
  LET parsed == parse_rpc_reply(buf)
  IN IF parsed = <<>> \/ parsed[1].cmd # cmd \/ Len(parsed[1].payload) < least
     THEN <<>>
     ELSE <<parsed[1].payload>>

\* The four numbers of "a.b.c.d", which come in the opposite order.
decode_firmware_reply(buf) ==
  LET answer == Answer(buf, RPC_GET_FIRMWARE, 4)
  IN IF answer = <<>> THEN <<>> ELSE <<Reverse(SubSeq(answer[1], 1, 4))>>

\* u8::is_ascii_graphic
Graphic == 33..126

\* The bytes before the first zero, if all of them are graphic.
decode_serial_reply(buf) ==
  LET answer == Answer(buf, RPC_GET_SERIAL, 0)
      Nul(b) == b = 0
      end    == SelectInSeq(answer[1], Nul)
      text   == IF end = 0 THEN answer[1] ELSE SubSeq(answer[1], 1, end - 1)
  IN IF answer = <<>> \/ \E i \in 1..Len(text) : text[i] \notin Graphic
     THEN <<>>
     ELSE <<text>>

decode_mac_query_reply(buf) ==
  LET answer == Answer(buf, RPC_GET_DEVICE_HASH, 24)
  IN IF answer = <<>> THEN <<>> ELSE <<SubSeq(answer[1], 19, 24)>>
=============================================================================
