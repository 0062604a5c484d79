------------------------------ MODULE RpcChannel ------------------------------
(***************************************************************************)
(* The RPC channel of an opened Meet 2 (XU selector 0x02): device.rs       *)
(* learn_mac, rpc_request_then_reply and set_face_focus over the frames of *)
(* meet2.rs.  A call writes one request and polls one reply buffer; there  *)
(* is no session, no sequence check and no lock, so callers (threads that  *)
(* share a Device, or several Devices open on one camera) interleave       *)
(* between any two transfers.                                              *)
(*                                                                         *)
(* The camera is external, as the code takes it to be: it works off the    *)
(* requests later, in order, and each answer replaces the reply buffer.    *)
(* A frame is what parse_rpc_reply looks at: its direction marker, its     *)
(* (cmd_id, sub_cmd_id) and its payload.                                   *)
(***************************************************************************)
EXTENDS Integers, Sequences

CONSTANTS
  Callers,     \* the threads that call
  Attempts,    \* RPC_REPLY_POLL_ATTEMPTS (10)
  MaxLag,      \* GETs that may find a request not answered, responsive camera
  MaxInbox     \* bound: requests the camera has accepted and not answered

ASSUME ConstantsAssumption ==
  /\ Attempts \in Nat \ {0}
  /\ MaxLag \in Nat
  /\ MaxLag < Attempts
  /\ MaxInbox \in Nat \ {0}

(* The commands by (cmd_id, sub_cmd_id).                                   *)
RPC_GET_DEVICE_HASH == <<8, 24>>
RPC_GET_FIRMWARE    == <<8, 4>>
RPC_GET_SERIAL      == <<200, 24>>
FACE_FOCUS          == <<2, 54>>

Queries  == {RPC_GET_DEVICE_HASH, RPC_GET_FIRMWARE, RPC_GET_SERIAL}
Commands == Queries \cup {FACE_FOCUS}

(* Payloads: none, the answer to a query, the switch of a face-focus       *)
(* request; with the length that the decoders look at.                     *)
Payloads == {"none", "switch", "hash", "version", "serial"}
Length(p) == CASE p = "none"    -> 0
               [] p = "switch"  -> 4
               [] p = "version" -> 4
               [] p = "serial"  -> 14
               [] p = "hash"    -> 24
Answer(c) == CASE c = RPC_GET_DEVICE_HASH -> "hash"
               [] c = RPC_GET_FIRMWARE    -> "version"
               [] c = RPC_GET_SERIAL      -> "serial"
               [] OTHER                   -> "none"

(* Frames.  build_rpc_frame marks a request 0x0A, cmd_set; a reply to the  *)
(* queries (cmd_set 0x0D) has 0x0D, 0x0A; one to face-focus (cmd_set 0x02) *)
(* does not.  A buffer nothing was written to has no magic.                *)
Frame == [marker : {"request", "reply", "otherSet", "noMagic"},
          cmd : Commands, payload : Payloads]

Request(c) == [marker |-> "request", cmd |-> c,
               payload |-> IF c = FACE_FOCUS THEN "switch" ELSE "none"]
Reply(c) == [marker |-> IF c = FACE_FOCUS THEN "otherSet" ELSE "reply",
             cmd |-> c, payload |-> Answer(c)]
Blank == [marker |-> "noMagic", cmd |-> FACE_FOCUS, payload |-> "none"]

parse_rpc_reply(f) == f.marker = "reply"

(* The shortest payload each decoder takes; a serial may even be empty.    *)
MinLength(c) == CASE c = RPC_GET_DEVICE_HASH -> 24
                  [] c = RPC_GET_FIRMWARE    -> 4
                  [] OTHER                   -> 0

\* Mutant of Decodes: the echoed command is not compared.
DecodesAnyReply(c, f) == parse_rpc_reply(f) /\ Length(f.payload) >= MinLength(c)

(* decode_mac_query_reply, decode_firmware_reply, decode_serial_reply      *)
Decodes(c, f) == /\ parse_rpc_reply(f)
                 /\ f.cmd = c
                 /\ Length(f.payload) >= MinLength(c)

-----------------------------------------------------------------------------
VARIABLES
  responsive, \* external: does the camera answer within MaxLag GETs?  Rigid.
  inbox,      \* external: the requests the camera has still to work off
  reply,      \* external: the camera's reply buffer
  lag,        \* external: GETs that found the first of inbox not answered
  pc,         \* what each caller is doing: "idle", "set", "get"
  op,         \* the command of its current or last call
  attempt,    \* GETs of that call so far
  result,     \* what the last call returned
  disturbed   \* history: did other requests get in the way of the call?

camera  == <<responsive, inbox, reply, lag>>
callers == <<pc, op, attempt, result, disturbed>>
vars == <<camera, callers>>

NoResult    == [status |-> "none", payload |-> "none"]
Ok(p)       == [status |-> "ok", payload |-> p]
BadResponse == [status |-> "BadResponse", payload |-> "none"]
UsbError    == [status |-> "Usb", payload |-> "none"]

TypeOK ==
  /\ responsive \in BOOLEAN
  /\ inbox \in Seq(Commands)
  /\ Len(inbox) <= MaxInbox
  /\ reply \in Frame
  /\ lag \in 0..MaxLag
  /\ pc \in [Callers -> {"idle", "set", "get"}]
  /\ op \in [Callers -> Commands]
  /\ attempt \in [Callers -> 0..(Attempts - 1)]
  /\ result \in [Callers -> [status : {"none", "ok", "BadResponse", "Usb"},
                             payload : Payloads]]
  /\ disturbed \in [Callers -> BOOLEAN]

-----------------------------------------------------------------------------
(* A call: firmware_from_camera, serial_from_camera, learn_mac (a query)   *)
(* or set_face_focus (no reply is read).                                   *)

Call(t, c) ==
  /\ pc[t] = "idle"
  /\ pc' = [pc EXCEPT ![t] = "set"]
  /\ op' = [op EXCEPT ![t] = c]
  /\ result' = [result EXCEPT ![t] = NoResult]
  /\ disturbed' = [disturbed EXCEPT ![t] = FALSE]
  /\ UNCHANGED <<camera, attempt>>

\* Mutant of Return: a result is kept and the call goes on.
ReturnGoesOn(t, r) ==
  /\ attempt' = [attempt EXCEPT ![t] = 0]
  /\ result' = [result EXCEPT ![t] = r]
  /\ UNCHANGED pc

Return(t, r) ==
  /\ pc' = [pc EXCEPT ![t] = "idle"]
  /\ attempt' = [attempt EXCEPT ![t] = 0]
  /\ result' = [result EXCEPT ![t] = r]

\* uvc_set of the request.  Whoever is polling now is disturbed by it, and it
\* is itself disturbed by requests the camera has still to work off.
SetRequest(t) ==
  /\ pc[t] = "set"
  /\ Len(inbox) < MaxInbox
  /\ inbox' = Append(inbox, op[t])
  /\ lag' = IF inbox = <<>> THEN 0 ELSE lag
  /\ reply' \in {reply, Request(op[t])}    \* the buffer may show the request
  /\ disturbed' = [u \in Callers |-> \/ disturbed[u]
                                     \/ u # t /\ pc[u] = "get"
                                     \/ u = t /\ inbox # <<>>]
  /\ IF op[t] = FACE_FOCUS
       THEN Return(t, Ok("none"))
       ELSE /\ pc' = [pc EXCEPT ![t] = "get"]
            /\ UNCHANGED <<attempt, result>>
  /\ UNCHANGED <<responsive, op>>

\* The transfer fails: `?` returns the transport's error.
TransferFails(t) ==
  /\ pc[t] \in {"set", "get"}
  /\ Return(t, UsbError)
  /\ UNCHANGED <<camera, op, disturbed>>

\* Mutant of GetReply: one attempt too many.
GetReplyOneMore(t) ==
  /\ pc[t] = "get"
  /\ responsive /\ inbox # <<>> => lag < MaxLag
  /\ lag' = IF responsive /\ inbox # <<>> THEN lag + 1 ELSE lag
  /\ \/ /\ Decodes(op[t], reply)
        /\ Return(t, Ok(reply.payload))
     \/ /\ ~Decodes(op[t], reply)
        /\ attempt[t] + 1 <= Attempts
        /\ attempt' = [attempt EXCEPT ![t] = @ + 1]
        /\ UNCHANGED <<pc, result>>
     \/ /\ ~Decodes(op[t], reply)
        /\ attempt[t] + 1 > Attempts
        /\ Return(t, BadResponse)
  /\ UNCHANGED <<responsive, inbox, reply, op, disturbed>>

\* Mutant of GetReply: one attempt too few.
GetReplyOneLess(t) ==
  /\ pc[t] = "get"
  /\ responsive /\ inbox # <<>> => lag < MaxLag
  /\ lag' = IF responsive /\ inbox # <<>> THEN lag + 1 ELSE lag
  /\ \/ /\ Decodes(op[t], reply)
        /\ Return(t, Ok(reply.payload))
     \/ /\ ~Decodes(op[t], reply)
        /\ attempt[t] + 2 < Attempts
        /\ attempt' = [attempt EXCEPT ![t] = @ + 1]
        /\ UNCHANGED <<pc, result>>
     \/ /\ ~Decodes(op[t], reply)
        /\ attempt[t] + 2 >= Attempts
        /\ Return(t, BadResponse)
  /\ UNCHANGED <<responsive, inbox, reply, op, disturbed>>

\* uvc_get of the reply buffer and decode: done, once more, or given up.
GetReply(t) ==
  /\ pc[t] = "get"
  /\ responsive /\ inbox # <<>> => lag < MaxLag
  /\ lag' = IF responsive /\ inbox # <<>> THEN lag + 1 ELSE lag
  /\ \/ /\ Decodes(op[t], reply)
        /\ Return(t, Ok(reply.payload))
     \/ /\ ~Decodes(op[t], reply)
        /\ attempt[t] + 1 < Attempts
        /\ attempt' = [attempt EXCEPT ![t] = @ + 1]
        /\ UNCHANGED <<pc, result>>
     \/ /\ ~Decodes(op[t], reply)
        /\ attempt[t] + 1 >= Attempts
        /\ Return(t, BadResponse)
  /\ UNCHANGED <<responsive, inbox, reply, op, disturbed>>

-----------------------------------------------------------------------------
(* External: the camera.                                                   *)

CameraAnswers ==
  /\ inbox # <<>>
  /\ reply' = Reply(Head(inbox))
  /\ inbox' = Tail(inbox)
  /\ lag' = 0
  /\ UNCHANGED <<responsive, callers>>

\* A camera that does not answer: it loses the request.
CameraIgnores ==
  /\ ~responsive
  /\ inbox # <<>>
  /\ inbox' = Tail(inbox)
  /\ lag' = 0
  /\ UNCHANGED <<responsive, reply, callers>>

-----------------------------------------------------------------------------
(* The buffer starts with the previous session's reply, whichever it was.  *)
Init ==
  /\ responsive \in BOOLEAN
  /\ inbox = <<>>
  /\ reply \in {Blank} \cup {Reply(c) : c \in Commands}
  /\ lag = 0
  /\ pc = [t \in Callers |-> "idle"]
  /\ op = [t \in Callers |-> FACE_FOCUS]
  /\ attempt = [t \in Callers |-> 0]
  /\ result = [t \in Callers |-> NoResult]
  /\ disturbed = [t \in Callers |-> FALSE]

Step(t) == SetRequest(t) \/ TransferFails(t) \/ GetReply(t)

Next == \/ \E t \in Callers : Step(t) \/ \E c \in Commands : Call(t, c)
        \/ CameraAnswers
        \/ CameraIgnores

Spec == Init /\ [][Next]_vars

(* A call, once begun, runs on.  The camera takes requests off its inbox,  *)
(* answered or not, so that MaxInbox holds nobody up for ever.             *)
FairSpec == /\ Spec
            /\ \A t \in Callers : WF_vars(Step(t))
            /\ WF_vars(CameraAnswers \/ CameraIgnores)

-----------------------------------------------------------------------------
(* Properties *)

\* A call that succeeds returns the camera's answer to its own command: not
\* another caller's answer, not the previous session's leftover of another
\* command, not a request seen in the buffer - although one buffer serves all.
OkIsTheAnswer ==
  \A t \in Callers :
    result[t].status = "ok" => result[t].payload = Answer(op[t])

\* Ten polls are enough: a call that no other request got in the way of, to a
\* camera that answers within MaxLag polls, is never given up as BadResponse.
UndisturbedIsAnswered ==
  responsive =>
    \A t \in Callers : result[t].status = "BadResponse" => disturbed[t]

\* Every call returns, even from a camera that never answers.
CallsReturn == \A t \in Callers : pc[t] # "idle" ~> pc[t] = "idle"
=============================================================================
