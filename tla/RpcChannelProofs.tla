-------------------------- MODULE RpcChannelProofs --------------------------
(* Proofs about RpcChannel, for any callers, any number of attempts and a  *)
(* camera of any lag below it.                                             *)
EXTENDS RpcChannel, TLAPS

USE ConstantsAssumption DEF ConstantsAssumption

\* The tables of commands and payloads, as the proofs use them.
LEMMA Tables ==
  /\ \A c \in Commands : Request(c) \in Frame /\ Reply(c) \in Frame
  /\ Blank \in Frame
  /\ \A c \in Commands : Answer(c) \in Payloads
  /\ \A c \in Queries : Decodes(c, Reply(c))
  /\ FACE_FOCUS \notin Queries /\ Queries \subseteq Commands /\ FACE_FOCUS \in Commands
BY DEF Commands, Queries, FACE_FOCUS, RPC_GET_DEVICE_HASH, RPC_GET_FIRMWARE, RPC_GET_SERIAL,
       Request, Reply, Blank, Frame, Payloads, Answer, Decodes, parse_rpc_reply, Length, MinLength

(* A buffer that passes for a reply holds the camera's answer.             *)
ReplyInv == reply.marker = "reply" => reply.payload = Answer(reply.cmd)

(* Only queries poll, and only a polling call has used attempts.           *)
OpInv == \A t \in Callers : /\ pc[t] = "get" => op[t] \in Queries
                            /\ pc[t] # "get" => attempt[t] = 0

(* As long as nobody disturbs it, a polling call's request is the only one *)
(* not answered, and has been polled for no longer than the camera's lag;  *)
(* or it is answered, and its answer is in the buffer.                     *)
Awaiting(t) == inbox = <<op[t]>> /\ attempt[t] <= lag
Answered(t) == inbox = <<>> /\ reply = Reply(op[t])
PollInv ==
  responsive =>
    \A t \in Callers : pc[t] = "get" /\ ~disturbed[t] => Awaiting(t) \/ Answered(t)

\* The inductive invariant.
Inv == TypeOK /\ ReplyInv /\ OpInv /\ OkIsTheAnswer /\ PollInv /\ UndisturbedIsAnswered

\* No call is under way at first, and a leftover reply is an answer.
LEMMA InitInv == Init => Inv
<1> SUFFICES ASSUME Init PROVE Inv
  OBVIOUS
<1>1. TypeOK
  <2>1. reply \in Frame
    BY Tables DEF Init
  <2>2. NoResult \in [status : {"none", "ok", "BadResponse", "Usb"}, payload : Payloads]
    BY DEF NoResult, Payloads
  <2>3. inbox \in Seq(Commands) /\ Len(inbox) <= MaxInbox /\ lag \in 0..MaxLag
    BY DEF Init
  <2>4. attempt \in [Callers -> 0..(Attempts - 1)]
    BY DEF Init
  <2> QED BY <2>1, <2>2, <2>3, <2>4, Tables DEF Init, TypeOK
<1>2. ReplyInv
  BY DEF Init, ReplyInv, Blank, Reply, Answer
<1>3. OpInv /\ OkIsTheAnswer /\ PollInv /\ UndisturbedIsAnswered
  BY DEF Init, OpInv, OkIsTheAnswer, PollInv, UndisturbedIsAnswered, NoResult
<1> QED BY <1>1, <1>2, <1>3 DEF Inv

\* A caller begins a call.
LEMMA CallInv ==
  ASSUME Inv, NEW t \in Callers, NEW c \in Commands, Call(t, c)
  PROVE  Inv'
<1> USE DEF Inv, camera
<1>1. TypeOK'
  <2>1. NoResult \in [status : {"none", "ok", "BadResponse", "Usb"}, payload : Payloads]
    BY DEF NoResult, Payloads
  <2> QED BY <2>1 DEF Call, TypeOK
<1>2. ReplyInv' /\ OpInv'
  BY DEF Call, TypeOK, ReplyInv, OpInv
<1>3. OkIsTheAnswer' /\ UndisturbedIsAnswered'
  BY DEF Call, TypeOK, OkIsTheAnswer, UndisturbedIsAnswered, NoResult
<1>4. PollInv'
  BY DEF Call, TypeOK, PollInv, Awaiting, Answered
<1> QED BY <1>1, <1>2, <1>3, <1>4

\* The result that a returning call leaves.
LEMMA ReturnType ==
  ASSUME TypeOK, NEW t \in Callers, NEW r, Return(t, r),
         r \in {BadResponse, UsbError} \cup {Ok(p) : p \in Payloads}
  PROVE  /\ pc' \in [Callers -> {"idle", "set", "get"}]
         /\ attempt' \in [Callers -> 0..(Attempts - 1)]
         /\ result' \in [Callers -> [status : {"none", "ok", "BadResponse", "Usb"},
                                     payload : Payloads]]
<1>1. r \in [status : {"none", "ok", "BadResponse", "Usb"}, payload : Payloads]
  BY DEF BadResponse, UsbError, Ok, Payloads
<1> QED BY <1>1 DEF Return, TypeOK

\* A caller's request goes out.
LEMMA SetRequestInv ==
  ASSUME Inv, NEW t \in Callers, SetRequest(t)
  PROVE  Inv'
<1> USE DEF Inv
<1>1. /\ inbox' = Append(inbox, op[t]) /\ op[t] \in Commands /\ pc[t] = "set"
      /\ inbox \in Seq(Commands) /\ Len(inbox) < MaxInbox
      /\ UNCHANGED <<responsive, op>>
  BY DEF SetRequest, TypeOK
<1>2. TypeOK'
  <2>1. inbox' \in Seq(Commands) /\ Len(inbox') <= MaxInbox
    BY <1>1
  <2>2. reply' \in Frame /\ lag' \in 0..MaxLag /\ disturbed' \in [Callers -> BOOLEAN]
    BY <1>1, Tables DEF SetRequest, TypeOK
  <2>3. /\ pc' \in [Callers -> {"idle", "set", "get"}]
        /\ attempt' \in [Callers -> 0..(Attempts - 1)]
        /\ result' \in [Callers -> [status : {"none", "ok", "BadResponse", "Usb"},
                                    payload : Payloads]]
    <3>1. CASE op[t] = FACE_FOCUS
      <4>1. Return(t, Ok("none"))
        BY <3>1 DEF SetRequest
      <4> QED BY <4>1, ReturnType DEF Payloads
    <3>2. CASE op[t] # FACE_FOCUS
      BY <3>2 DEF SetRequest, TypeOK
    <3> QED BY <3>1, <3>2
  <2> QED BY <2>1, <2>2, <2>3, <1>1 DEF TypeOK
<1>3. ReplyInv'
  BY DEF SetRequest, ReplyInv, Request
<1>4. OpInv'
  BY <1>1 DEF SetRequest, OpInv, TypeOK, Return, Commands
<1>5. OkIsTheAnswer'
  <2>1. Answer(FACE_FOCUS) = "none"
    BY DEF Answer, FACE_FOCUS, RPC_GET_DEVICE_HASH, RPC_GET_FIRMWARE, RPC_GET_SERIAL
  <2>2. CASE op[t] = FACE_FOCUS
    <3>1. result' = [result EXCEPT ![t] = Ok("none")]
      BY <2>2 DEF SetRequest, Return
    <3> QED BY <2>1, <2>2, <3>1, <1>1 DEF OkIsTheAnswer, TypeOK, Ok
  <2>3. CASE op[t] # FACE_FOCUS
    BY <2>3, <1>1 DEF SetRequest, OkIsTheAnswer
  <2> QED BY <2>2, <2>3
<1>6. UndisturbedIsAnswered'
  BY <1>1 DEF SetRequest, UndisturbedIsAnswered, TypeOK, Return, Ok
<1>7. PollInv'
  <2> SUFFICES ASSUME responsive, NEW u \in Callers, pc'[u] = "get", ~disturbed'[u]
               PROVE  Awaiting(u)'
    BY <1>1 DEF PollInv
  <2>1. u = t
    BY <1>1 DEF SetRequest, TypeOK, Return
  <2>2. inbox = <<>> /\ lag' = 0
    BY <2>1, <1>1 DEF SetRequest, TypeOK
  <2>3. attempt'[t] = 0
    BY <1>1 DEF SetRequest, TypeOK, Return, OpInv
  <2>4. inbox' = <<op[t]>>
    BY <2>2, <1>1
  <2> QED BY <2>1, <2>2, <2>3, <2>4, <1>1 DEF Awaiting
<1> QED BY <1>2, <1>3, <1>4, <1>5, <1>6, <1>7

\* A failed transfer ends the call and touches nothing else.
LEMMA TransferFailsInv ==
  ASSUME Inv, NEW t \in Callers, TransferFails(t)
  PROVE  Inv'
<1> USE DEF Inv, camera
<1>1. Return(t, UsbError) /\ UNCHANGED <<responsive, inbox, reply, lag, op, disturbed>>
  BY DEF TransferFails
<1>2. TypeOK'
  BY <1>1, ReturnType DEF TypeOK
<1>3. ReplyInv' /\ OpInv' /\ OkIsTheAnswer' /\ UndisturbedIsAnswered'
  BY <1>1 DEF Return, UsbError, TypeOK, ReplyInv, OpInv, OkIsTheAnswer, UndisturbedIsAnswered
<1>4. PollInv'
  BY <1>1 DEF Return, TypeOK, PollInv, Awaiting, Answered
<1> QED BY <1>2, <1>3, <1>4

\* One poll: it cannot be the last of an undisturbed call, whose answer comes
\* before its attempts are used up.
LEMMA GetReplyInv ==
  ASSUME Inv, NEW t \in Callers, GetReply(t)
  PROVE  Inv'
<1> USE DEF Inv
<1>1. /\ pc[t] = "get" /\ op[t] \in Queries /\ op[t] \in Commands
      /\ UNCHANGED <<responsive, inbox, reply, op, disturbed>>
  BY Tables DEF GetReply, OpInv
<1>2. lag' \in 0..MaxLag /\ lag' >= lag
  BY DEF GetReply, TypeOK
<1>3. CASE Decodes(op[t], reply) /\ Return(t, Ok(reply.payload))
  <2>1. reply.payload = Answer(op[t]) /\ reply.payload \in Payloads
    BY <1>3 DEF Decodes, parse_rpc_reply, ReplyInv, TypeOK, Frame
  <2>2. TypeOK'
    BY <1>1, <1>2, <1>3, <2>1, ReturnType DEF TypeOK
  <2>3. ReplyInv' /\ OpInv' /\ OkIsTheAnswer' /\ UndisturbedIsAnswered'
    BY <1>1, <1>3, <2>1 DEF Return, Ok, TypeOK, ReplyInv, OpInv, OkIsTheAnswer, UndisturbedIsAnswered
  <2>4. PollInv'
    BY <1>1, <1>2, <1>3 DEF Return, TypeOK, PollInv, Awaiting, Answered
  <2> QED BY <2>2, <2>3, <2>4
<1>4. ASSUME ~Decodes(op[t], reply), responsive, ~disturbed[t]
      PROVE  Awaiting(t) /\ lag < MaxLag /\ lag' = lag + 1
  <2>1. ~Answered(t)
    BY <1>1, <1>4, Tables DEF Answered
  <2>2. Awaiting(t)
    BY <2>1, <1>1, <1>4 DEF PollInv
  <2>3. inbox # <<>>
    BY <2>2 DEF Awaiting
  <2> QED BY <2>2, <2>3, <1>4 DEF GetReply
<1>5. CASE /\ ~Decodes(op[t], reply)
           /\ attempt[t] + 1 < Attempts
           /\ attempt' = [attempt EXCEPT ![t] = @ + 1]
           /\ UNCHANGED <<pc, result>>
  <2>1. TypeOK'
    BY <1>1, <1>2, <1>5 DEF TypeOK
  <2>2. ReplyInv' /\ OpInv' /\ OkIsTheAnswer' /\ UndisturbedIsAnswered'
    BY <1>1, <1>5 DEF ReplyInv, OpInv, OkIsTheAnswer, UndisturbedIsAnswered
  <2>3. PollInv'
    <3> SUFFICES ASSUME responsive, NEW u \in Callers, pc[u] = "get", ~disturbed[u]
                 PROVE  Awaiting(u)' \/ Answered(u)'
      BY <1>1, <1>5 DEF PollInv
    <3>1. CASE u = t
      BY <3>1, <1>1, <1>4, <1>5 DEF Awaiting, TypeOK
    <3>2. CASE u # t
      BY <3>2, <1>1, <1>2, <1>5 DEF PollInv, Awaiting, Answered, TypeOK
    <3> QED BY <3>1, <3>2
  <2> QED BY <2>1, <2>2, <2>3
<1>6. CASE /\ ~Decodes(op[t], reply)
           /\ attempt[t] + 1 >= Attempts
           /\ Return(t, BadResponse)
  <2>1. TypeOK'
    BY <1>1, <1>2, <1>6, ReturnType DEF TypeOK
  <2>2. responsive => disturbed[t]
    BY <1>4, <1>6 DEF Awaiting, TypeOK
  <2>3. ReplyInv' /\ OpInv' /\ OkIsTheAnswer'
    BY <1>1, <1>6 DEF Return, BadResponse, TypeOK, ReplyInv, OpInv, OkIsTheAnswer
  <2>4. UndisturbedIsAnswered'
    BY <2>2, <1>1, <1>6 DEF Return, TypeOK, UndisturbedIsAnswered
  <2>5. PollInv'
    BY <1>1, <1>2, <1>6 DEF Return, TypeOK, PollInv, Awaiting, Answered
  <2> QED BY <2>1, <2>3, <2>4, <2>5
<1> QED BY <1>3, <1>5, <1>6 DEF GetReply

\* The camera works off its oldest request.
LEMMA CameraAnswersInv ==
  ASSUME Inv, CameraAnswers
  PROVE  Inv'
<1> USE DEF Inv, callers
<1>1. /\ inbox # <<>> /\ inbox \in Seq(Commands) /\ Head(inbox) \in Commands
      /\ inbox' = Tail(inbox) /\ reply' = Reply(Head(inbox)) /\ lag' = 0
      /\ UNCHANGED <<responsive, pc, op, attempt, result, disturbed>>
  BY DEF CameraAnswers, TypeOK
<1>2. TypeOK'
  <2>1. reply' \in Frame
    BY <1>1, Tables
  <2>2. inbox' \in Seq(Commands) /\ Len(inbox') <= MaxInbox
    BY <1>1 DEF TypeOK
  <2> QED BY <2>1, <2>2, <1>1 DEF TypeOK
<1>3. ReplyInv'
  BY <1>1 DEF ReplyInv, Reply
<1>4. OpInv' /\ OkIsTheAnswer' /\ UndisturbedIsAnswered'
  BY <1>1 DEF OpInv, OkIsTheAnswer, UndisturbedIsAnswered
<1>5. PollInv'
  <2> SUFFICES ASSUME responsive, NEW t \in Callers, pc[t] = "get", ~disturbed[t]
               PROVE  Answered(t)'
    BY <1>1 DEF PollInv
  <2>1. inbox = <<op[t]>>
    BY <1>1 DEF PollInv, Awaiting, Answered
  <2>2. inbox' = <<>> /\ reply' = Reply(op[t])
    BY <2>1, <1>1
  <2> QED BY <2>2, <1>1 DEF Answered
<1> QED BY <1>2, <1>3, <1>4, <1>5

\* A camera that loses a request is not a responsive one.
LEMMA CameraIgnoresInv ==
  ASSUME Inv, CameraIgnores
  PROVE  Inv'
<1> USE DEF Inv, callers
<1>1. /\ ~responsive /\ inbox # <<>> /\ inbox \in Seq(Commands)
      /\ inbox' = Tail(inbox) /\ lag' = 0
      /\ UNCHANGED <<responsive, reply, pc, op, attempt, result, disturbed>>
  BY DEF CameraIgnores, TypeOK
<1>2. TypeOK'
  BY <1>1 DEF TypeOK
<1> QED BY <1>1, <1>2 DEF ReplyInv, OpInv, OkIsTheAnswer, UndisturbedIsAnswered, PollInv

\* No step of a caller or of the camera breaks the invariant.
LEMMA NextInv == Inv /\ [Next]_vars => Inv'
<1> SUFFICES ASSUME Inv, [Next]_vars PROVE Inv'
  OBVIOUS
<1>1. CASE UNCHANGED vars
  BY <1>1 DEF Inv, vars, camera, callers, TypeOK, ReplyInv, OpInv, OkIsTheAnswer, PollInv,
              UndisturbedIsAnswered, Awaiting, Answered
<1> QED BY <1>1, CallInv, SetRequestInv, TransferFailsInv, GetReplyInv, CameraAnswersInv,
           CameraIgnoresInv DEF Next, Step

\* The invariant holds throughout.
LEMMA InvHolds == Spec => []Inv
BY InitInv, NextInv, PTL DEF Spec

\* Type correctness of the channel, for any callers and bounds.
THEOREM TypeCorrect == Spec => []TypeOK
<1>1. Inv => TypeOK
  BY DEF Inv
<1> QED BY <1>1, InvHolds, PTL

\* However many callers share the one buffer, and whatever the camera loses,
\* a call that succeeds has the answer to its own command.
THEOREM AnswersAreTrue == Spec => []OkIsTheAnswer
<1>1. Inv => OkIsTheAnswer
  BY DEF Inv
<1> QED BY <1>1, InvHolds, PTL

\* For every number of attempts above the camera's lag, a call that nobody
\* disturbs is not given up.
THEOREM AttemptsSuffice == Spec => []UndisturbedIsAnswered
<1>1. Inv => UndisturbedIsAnswered
  BY DEF Inv
<1> QED BY <1>1, InvHolds, PTL
=============================================================================
