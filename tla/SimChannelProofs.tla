--------------------------- MODULE SimChannelProofs ---------------------------
(***************************************************************************)
(* More about SimComm, byte by byte.  First what each step does to what    *)
(* was sent and to what is there to read, and the order of the commands:   *)
(* whatever is cut off by a failure and whatever is sent after it, the     *)
(* simulator finds the commands in the order they were submitted and runs  *)
(* none twice.  Then the emulator transport as a CommandChannel: where on  *)
(* the two streams the request in progress and its answer are, that both   *)
(* ends agree on where the next frame starts, and that a submit which      *)
(* works returns the reply to its own command.                             *)
(***************************************************************************)
EXTENDS SimCommProofs

(***************************************************************************)
(* The order of the commands.  A byte carries a command if it is not zero  *)
(* and not the last byte of a word.                                        *)
(***************************************************************************)
Carries(s, q) == s[q] # 0 /\ ~(q > 3 /\ s[q - 1] = 0 /\ s[q - 2] = 0 /\ s[q - 3] = 0)

(* The bytes that carry commands rise, a command's two bytes apart.        *)
Rising(s) ==
  \A p, q \in 1..Len(s) : p < q /\ Carries(s, p) /\ Carries(s, q)
    => s[p] < s[q] \/ (q = p + 1 /\ s[p] = s[q])

(* The last command whose bytes have been asked to be sent.                *)
Top == IF pc \in {"send_command", "locality", "length"} THEN cmd - 1 ELSE cmd

(* At pos, the simulator is between the two bytes of a command: no request *)
(* word starts there.                                                      *)
Stuck(s, pos) == Len(s) > pos /\ s[pos + 1] # 0

(* The stream s, of which the simulator has consumed pos bytes, carries    *)
(* commands up to top in their order, and those it has run, ex, came       *)
(* before all that it can still run.                                       *)
InOrder(s, ex, top, pos) ==
  /\ Rising(s)
  /\ \A q \in 1..Len(s) : Carries(s, q) => s[q] <= top
  /\ \A i \in 1..Len(ex) : ex[i] \in 1..top
  /\ \A i, j \in 1..Len(ex) : i < j => ex[i] < ex[j]
  /\ \/ Stuck(s, pos)
     \/ \A i \in 1..Len(ex), q \in pos + 1..Len(s) : Carries(s, q) => ex[i] < s[q]

OrderInv == InOrder(Sent, executed, Top, peerPos)

(* A connection carries a handshake, eleven bytes for each command and the *)
(* end of the session: too few for the length of a command to count in     *)
(* 65536s.                                                                 *)
Limit ==
  IF pc = "connect" THEN 0
  ELSE IF pc = "handshake" THEN 4
  ELSE IF pc \in SetupSteps10 THEN 8
  ELSE 11 * cmd + (IF pc = "send_command" THEN 1
                   ELSE IF pc = "locality" THEN 2
                   ELSE IF pc = "length" THEN 6
                   ELSE IF pc = "session_end" \/ comm = "null" THEN 12
                   ELSE 8)
LengthInv == Len(Sent) <= Limit
-----------------------------------------------------------------------------
(***************************************************************************)
(* Step by step: what each action does to the two streams.                 *)
(***************************************************************************)
(* The streams are byte strings, and what is on the connection comes first *)
(* in what was asked to be sent.                                           *)
LEMMA Streams ==
  ASSUME Inv
  PROVE  /\ Sent \in Seq(Bytes) /\ In \in Seq(Bytes) /\ out \in Seq(Bytes) /\ left \in Seq(Bytes)
         /\ Len(Sent) \in Nat /\ Len(out) \in Nat /\ Len(left) \in Nat /\ Len(In) \in Nat
         /\ Len(Sent) = Len(out) + Len(left)
         /\ \A q \in 1..Len(out) : Sent[q] = out[q]
         /\ left = << >> => Sent = out
         /\ \A q \in 1..Len(Sent) : Sent[q] \in Nat
<1>1. out \in Seq(Bytes) /\ left \in Seq(Bytes) /\ recv_bytes \in Seq(Bytes) /\ wire \in Seq(Bytes)
  BY DEF Inv, Typed, TypeOK, Sock!TypeOK, Bytes
<1>2. /\ Sent \in Seq(Bytes) /\ Len(Sent) = Len(out) + Len(left)
      /\ Len(out) \in Nat /\ Len(left) \in Nat
      /\ \A q \in 1..Len(out) : Sent[q] = out[q]
  BY <1>1, JoinIs DEF Sent
<1>3. In \in Seq(Bytes) /\ Len(In) \in Nat
  <2>1. In \in Seq(Bytes)
    BY <1>1, JoinIs DEF In
  <2> QED BY <2>1, LenProperties
<1>4. left = << >> => Sent = out
  <2>1. out \o << >> = out
    BY <1>1, ConcatEmptySeq
  <2> QED BY <2>1 DEF Sent
<1>5. \A q \in 1..Len(Sent) : Sent[q] \in Nat
  <2>1. \A b \in Bytes : b \in Nat
    BY DEF Bytes
  <2> QED BY <1>2, <2>1, LenProperties
<1> QED BY <1>1, <1>2, <1>3, <1>4, <1>5

(* The parts of the state that are not the socket's.                       *)
others == <<comm, pc, cmd, cmdBytes, resp_len, retval, response, failed, reply,
            powerVars, peer, peerPos, executed>>

(* A call in progress.                                                     *)
LEMMA SocketDoes ==
  ASSUME Inv, Socket
  PROVE  /\ UNCHANGED others
         /\ \/ (SendGoesOn \/ SendFails \/ SendWorks) /\ In' = In /\ delivered' = delivered
            \/ (ReadGoesOn \/ ReadFails \/ ReadWorks) /\ Sent' = Sent /\ out' = out /\ left' = left
<1>1. Sock!TypeOK
  BY DEF Inv, Typed, TypeOK
<1>2. UNCHANGED others
  BY DEF Socket, hostVars, simVars, others
<1>3. CASE Sock!Send
  BY <1>1, <1>2, <1>3, SendDoes DEF In
<1>4. CASE Sock!Read
  BY <1>1, <1>2, <1>4, ReadDoes DEF Sent
<1> QED BY <1>3, <1>4 DEF Socket

(* What follows a step that has worked, or starts a call: a send.          *)
Asks(m) ==
  /\ op = "idle" /\ handle = "open" /\ left = << >>
  /\ In' = In /\ out' = out /\ delivered' = delivered /\ handle' = handle
  /\ m = << >> => op' = "idle" /\ left' = << >> /\ Sent' = Sent /\ result' = MU_FAILURE
  /\ m # << >> => op' = "send" /\ left' = m /\ Sent' = Sent \o m /\ result' = result

(* The host sends m in a step of its own, and waits until it is on its way. *)
LEMMA SendStepDoes ==
  ASSUME Inv, op = "idle", handle = "open", NEW m \in Seq(Bytes), SocketSend(m)
  PROVE  Asks(m)
<1>1. Sock!TypeOK /\ left = << >>
  BY DEF Inv, Typed, TypeOK, ControlInv
<1>2. /\ UNCHANGED <<handle, recv_bytes, wire, delivered, out>>
      /\ m = << >> => UNCHANGED <<op, left>> /\ result' = MU_FAILURE
      /\ m # << >> => op' = "send" /\ left' = m /\ result' = result /\ Sent' = Sent \o m
  BY <1>1, SendCallDoes
<1> QED BY <1>1, <1>2 DEF Asks, In, Sent

(* A read.                                                                 *)
Awaits(n) ==
  /\ op = "idle" /\ handle = "open" /\ left = << >>
  /\ In' = In /\ out' = out /\ left' = left /\ Sent' = Sent /\ delivered' = delivered
  /\ handle' = handle
  /\ n = 0 => op' = "idle" /\ result' = MU_FAILURE
  /\ n # 0 => op' = "read" /\ bytes_len' = n /\ result' = result

(* The host asks for n bytes in a step of its own, and waits for them.     *)
LEMMA ReadStepDoes ==
  ASSUME Inv, op = "idle", handle = "open", NEW n \in Nat, SocketRead(n)
  PROVE  Awaits(n)
<1>1. Sock!TypeOK /\ left = << >>
  BY DEF Inv, Typed, TypeOK, ControlInv
<1>2. /\ UNCHANGED <<handle, recv_bytes, wire, delivered, out, left>>
      /\ n = 0 => op' = op /\ result' = MU_FAILURE
      /\ n # 0 => op' = "read" /\ bytes_len' = n /\ result' = result
  BY <1>1, ReadCallDoes
<1> QED BY <1>1, <1>2 DEF Awaits, In, Sent

(* The steps of the host, each with what it sends or reads.                *)
Moves(p, q) == pc = p /\ pc' = q /\ op = "idle" /\ result = OK /\ handle = "open"

(* The handshake of tpm_comm_create.                                       *)
LEMMA SetupStepDoes ==
  ASSUME Inv, SetupSteps
  PROVE  /\ UNCHANGED <<comm, cmd, cmdBytes, resp_len, retval, response, failed, reply,
                        powerVars, peer, peerPos, executed>>
         /\ \/ Moves("connect", "handshake") /\ Asks(<<0, 0, 0, 15>>)
            \/ Moves("handshake", "version") /\ Asks(<<0, 0, 0, 1>>)
            \/ Moves("version", "server_version") /\ Awaits(4)
            \/ Moves("server_version", "tpm_info") /\ Awaits(4)
            \/ Moves("tpm_info", "setup_ack") /\ Awaits(4)
<1>1. UNCHANGED <<comm, cmd, cmdBytes, resp_len, retval, response, failed, reply,
                  powerVars, peer, peerPos, executed>>
  BY DEF SetupSteps, Setup, simVars
<1>2. \A p, r : Returned(p, OK) /\ p # "idle" /\ pc' = r => Moves(p, r)
  BY StepIsOpen DEF Moves
<1>3. CASE Setup("connect", TRUE, SocketSend(Word(REMOTE_HANDSHAKE_CMD)), "handshake")
  <2>1. Moves("connect", "handshake") /\ SocketSend(<<0, 0, 0, 15>>)
    BY <1>2, <1>3, Words, Zenon DEF Setup
  <2>2. <<0, 0, 0, 15>> \in Seq(Bytes)
    BY Words, Messages, Zenon
  <2> QED BY <1>1, <2>1, <2>2, SendStepDoes DEF Moves
<1>4. CASE Setup("handshake", TRUE, SocketSend(Word(ClientVersion)), "version")
  <2>1. Moves("handshake", "version") /\ SocketSend(<<0, 0, 0, 1>>)
    BY <1>2, <1>4, Words, Zenon DEF Setup
  <2>2. <<0, 0, 0, 1>> \in Seq(Bytes)
    BY Words, Messages, Zenon
  <2> QED BY <1>1, <2>1, <2>2, SendStepDoes DEF Moves
<1>5. WordLen = 4 /\ 4 \in Nat
  BY DEF WordLen
<1>6. CASE Setup("version", TRUE, SocketRead(WordLen), "server_version")
  <2>1. Moves("version", "server_version") /\ SocketRead(4)
    BY <1>2, <1>5, <1>6, Zenon DEF Setup
  <2> QED BY <1>1, <1>5, <2>1, ReadStepDoes DEF Moves
<1>7. CASE Setup("server_version", WordRead = ClientVersion, SocketRead(WordLen), "tpm_info")
  <2>1. Moves("server_version", "tpm_info") /\ SocketRead(4)
    BY <1>2, <1>5, <1>7, Zenon DEF Setup
  <2> QED BY <1>1, <1>5, <2>1, ReadStepDoes DEF Moves
<1>8. CASE Setup("tpm_info", TRUE, SocketRead(WordLen), "setup_ack")
  <2>1. Moves("tpm_info", "setup_ack") /\ SocketRead(4)
    BY <1>2, <1>5, <1>8, Zenon DEF Setup
  <2> QED BY <1>1, <1>5, <2>1, ReadStepDoes DEF Moves
<1> QED BY <1>3, <1>4, <1>6, <1>7, <1>8 DEF SetupSteps

(* The length of a command is 0 or 2.                                      *)
LEMMA BodyIs ==
  ASSUME Inv
  PROVE  /\ cmdBytes \in Seq(Bytes)
         /\ \/ cmdBytes = << >> /\ Len(cmdBytes) = 0
            \/ cmdBytes = <<cmd, cmd>> /\ Len(cmdBytes) = 2 /\ cmdBytes # << >>
BY DEF Inv, Typed, ControlInv

(* The steps of a submit up to the read of the length.                     *)
LEMMA SubmitStepDoes ==
  ASSUME Inv, SubmitSteps
  PROVE  /\ UNCHANGED <<comm, cmd, cmdBytes, resp_len, retval, response, failed, reply,
                        powerVars, peer, peerPos, executed>>
         /\ \/ Moves("send_command", "locality") /\ Asks(<< 0 >>)
            \/ Moves("locality", "length") /\ Asks(<<0, 0, 0, Len(cmdBytes)>>)
            \/ Moves("length", "bytes") /\ Asks(cmdBytes)
            \/ Moves("bytes", "resp_length") /\ Awaits(4)
<1>1. UNCHANGED <<comm, cmd, cmdBytes, resp_len, retval, response, failed, reply,
                  powerVars, peer, peerPos, executed>>
  BY DEF SubmitSteps, Submit, simVars
<1>2. \A p, r : Returned(p, OK) /\ p # "idle" /\ pc' = r => Moves(p, r)
  BY StepIsOpen DEF Moves
<1>3. CASE Submit("send_command", SocketSend(<< 0 >>), "locality")
  <2>1. Moves("send_command", "locality") /\ SocketSend(<< 0 >>)
    BY <1>2, <1>3, Zenon DEF Submit
  <2> QED BY <1>1, <2>1, Messages, SendStepDoes DEF Moves
<1>4. CASE Submit("locality", SocketSend(Word(Len(cmdBytes))), "length")
  <2>1. Word(Len(cmdBytes)) = <<0, 0, 0, Len(cmdBytes)>> /\ Word(Len(cmdBytes)) \in Seq(Bytes)
    BY BodyIs, Words, Messages, Zenon
  <2>2. Moves("locality", "length") /\ SocketSend(<<0, 0, 0, Len(cmdBytes)>>)
    BY <1>2, <1>4, <2>1, Zenon DEF Submit
  <2> QED BY <1>1, <2>1, <2>2, SendStepDoes DEF Moves
<1>5. CASE Submit("length", SocketSend(cmdBytes), "bytes")
  <2>1. Moves("length", "bytes") /\ SocketSend(cmdBytes)
    BY <1>2, <1>5, Zenon DEF Submit
  <2> QED BY <1>1, <2>1, BodyIs, SendStepDoes DEF Moves
<1>6. CASE Submit("bytes", SocketRead(WordLen), "resp_length")
  <2>1. Moves("bytes", "resp_length") /\ SocketRead(4) /\ 4 \in Nat
    BY <1>2, <1>6 DEF Submit, WordLen
  <2> QED BY <1>1, <2>1, ReadStepDoes DEF Moves
<1> QED BY <1>3, <1>4, <1>5, <1>6 DEF SubmitSteps

(* A submit begins with the code of the command.                           *)
LEMMA SubmitCallDoes ==
  ASSUME Inv, NEW c \in Command, NEW b \in {<<c, c>>, << >>}, SubmitCall(c, b)
  PROVE  /\ comm = "open" /\ pc = "idle" /\ pc' = "send_command" /\ cmd' = cmd + 1 /\ cmd' = c
         /\ cmdBytes' = b /\ Asks(<<0, 0, 0, 8>>)
         /\ UNCHANGED <<comm, retval, response, failed, reply, powerVars, peer, peerPos,
                        executed>>
<1>1. /\ comm = "open" /\ pc = "idle" /\ handle = "open" /\ c = cmd + 1
      /\ cmd' = c /\ cmdBytes' = b /\ SocketSend(Word(REMOTE_SEND_COMMAND)) /\ pc' = "send_command"
      /\ UNCHANGED <<comm, retval, response, failed, reply, powerVars, peer, peerPos, executed>>
  BY DEF SubmitCall, simVars
<1>2. op = "idle"
  BY <1>1 DEF Inv, ControlInv
<1>3. Word(REMOTE_SEND_COMMAND) = <<0, 0, 0, 8>> /\ Word(REMOTE_SEND_COMMAND) \in Seq(Bytes)
  BY Words, Messages
<1> QED BY <1>1, <1>2, <1>3, SendStepDoes

(* tpm_comm_destroy says good-bye first.                                   *)
LEMMA DestroyCallDoes ==
  ASSUME Inv, DestroyCall
  PROVE  /\ comm = "open" /\ pc = "idle" /\ pc' = "session_end" /\ Asks(<<0, 0, 0, 20>>)
         /\ UNCHANGED <<comm, cmd, cmdBytes, resp_len, retval, response, failed, reply,
                        powerVars, peer, peerPos, executed>>
<1>1. /\ comm = "open" /\ pc = "idle" /\ handle = "open"
      /\ SocketSend(Word(REMOTE_SESSION_END_CMD)) /\ pc' = "session_end"
      /\ UNCHANGED <<comm, cmd, cmdBytes, resp_len, retval, response, failed, reply,
                     powerVars, peer, peerPos, executed>>
  BY DEF DestroyCall, simVars
<1>2. op = "idle"
  BY <1>1 DEF Inv, ControlInv
<1>3. Word(REMOTE_SESSION_END_CMD) = <<0, 0, 0, 20>> /\ Word(REMOTE_SESSION_END_CMD) \in Seq(Bytes)
  BY Words, Messages
<1> QED BY <1>1, <1>2, <1>3, SendStepDoes

(* The steps of a submit that read its answer.                             *)
LEMMA SubmitReadsDo ==
  ASSUME Inv, SubmitReadsResponse \/ SubmitReadsAck
  PROVE  /\ UNCHANGED <<comm, cmd, cmdBytes, retval, failed, reply, powerVars, peer, peerPos,
                        executed>>
         /\ \/ /\ Moves("resp_length", "response") /\ WordRead \in Nat /\ Awaits(WordRead)
               /\ resp_len' = WordRead /\ response' = response
            \/ /\ Moves("response", "ack") /\ Awaits(4)
               /\ resp_len' = resp_len /\ response' = LastRead(resp_len)
<1>1. CASE SubmitReadsResponse
  <2>1. /\ Returned("resp_length", OK) /\ resp_len' = WordRead
        /\ SocketRead(WordRead) /\ pc' = "response"
        /\ UNCHANGED <<comm, cmd, cmdBytes, retval, response, failed, reply,
                       powerVars, peer, peerPos, executed>>
    BY <1>1 DEF SubmitReadsResponse, simVars
  <2>2. Moves("resp_length", "response")
    BY <2>1, StepIsOpen DEF Moves
  <2>3. WordRead \in Nat
    BY <2>2, WordReadTyped DEF ReadSteps, Moves
  <2>4. Awaits(WordRead)
    BY <2>1, <2>2, <2>3, ReadStepDoes DEF Moves
  <2> QED BY <2>1, <2>2, <2>3, <2>4
<1>2. CASE SubmitReadsAck
  <2>1. /\ Returned("response", OK) /\ response' = LastRead(resp_len)
        /\ SocketRead(WordLen) /\ pc' = "ack"
        /\ UNCHANGED <<comm, cmd, cmdBytes, resp_len, retval, failed, reply,
                       powerVars, peer, peerPos, executed>>
    BY <1>2 DEF SubmitReadsAck, simVars
  <2>2. Moves("response", "ack")
    BY <2>1, StepIsOpen DEF Moves
  <2>3. SocketRead(4) /\ 4 \in Nat
    BY <2>1 DEF WordLen
  <2>4. Awaits(4)
    BY <2>2, <2>3, ReadStepDoes DEF Moves
  <2> QED BY <2>1, <2>2, <2>4
<1> QED BY <1>1, <1>2

(* The steps of power_on_simulator before its end, and the failures of the *)
(* setup, those of power_on_simulator among them.                          *)
PowerGoesOn == PowerConnects \/ PowerSent \/ PowerAcknowledged
Abandons == SetupFails \/ PowerFails

(* power_on_simulator leaves the connection of the commands as it is.      *)
LEMMA PowerDoes ==
  ASSUME Inv, PowerGoesOn
  PROVE  /\ pc \in {"setup_ack", "power_on", "power_ack", "nv_on"}
         /\ pc' \in {"power_on", "power_ack", "nv_on", "nv_ack"}
         /\ op = "idle" /\ result = OK /\ left = << >>
         /\ UNCHANGED <<Sent, In, out, left, op, result, delivered, comm, cmd, cmdBytes, resp_len,
                        response, failed, reply, peer, peerPos, executed>>
<1>1. /\ UNCHANGED <<sockVars, comm, cmd, cmdBytes, resp_len, response, failed, reply, peer,
                     peerPos, executed>>
      /\ pc' \in {"power_on", "power_ack", "nv_on", "nv_ack"}
      /\ pc \in PowerSteps \ {"nv_ack"} \/ Returned("setup_ack", OK)
  BY DEF PowerGoesOn, PowerConnects, PowerSent, PowerSends, PowerAcknowledged, PowerSteps
<1>2. UNCHANGED <<Sent, In, out, left, op, result, delivered>>
  BY <1>1 DEF sockVars, Sent, In
<1>3. CASE pc \in PowerSteps \ {"nv_ack"}
  BY <1>1, <1>2, <1>3, PowerIsQuiet DEF PowerSteps
<1>4. CASE Returned("setup_ack", OK)
  <2>1. pc = "setup_ack" /\ op = "idle" /\ result = OK /\ left = << >>
    BY <1>4, StepIsOpen
  <2> QED BY <1>1, <1>2, <2>1
<1> QED BY <1>1, <1>3, <1>4

(* The simulator hangs up, takes a signal or crashes: the streams stay.    *)
SimQuiet == SimHangsUp \/ SimSignal \/ SimCrashes

(* What all three leave alone.                                             *)
LEMMA QuietDoes ==
  ASSUME Inv, SimQuiet
  PROVE  UNCHANGED <<handle, op, bytes_len, result, recv_bytes, wire, out, left, delivered,
                     comm, pc, cmd, cmdBytes, resp_len, retval, response, failed, reply,
                     peerPos, executed>>
BY HangUpDoes, PowerLossDoes DEF SimQuiet, Inv, Typed, TypeOK

(* A call returns: the socket stays as it is, or goes with the handle.     *)
LEMMA ReturnDoes ==
  ASSUME Inv, SetupPowers \/ Abandons \/ SubmitOk \/ SubmitFails \/ DestroyCloses
  PROVE  /\ pc # "idle" /\ pc' = "idle" /\ op = "idle" /\ op' = "idle" /\ left = << >>
         /\ out' = out /\ left' = left /\ Sent' = Sent /\ result' = result
         /\ UNCHANGED <<cmd, cmdBytes, response, peer, peerPos, executed>>
         /\ SetupPowers => /\ pc = "nv_ack" /\ comm' = "open" /\ failed' = failed
                           /\ In' = In /\ result = OK /\ reply' = reply
         /\ Abandons \/ DestroyCloses => comm' = "null" /\ reply' = reply /\ failed' = failed
         /\ Abandons => pc \in SetupSteps10
         /\ DestroyCloses => pc = "session_end"
         /\ SubmitFails => failed' = TRUE /\ comm' = comm /\ reply' = reply
         /\ SubmitOk => /\ pc = "ack" /\ comm' = comm /\ failed' = failed /\ In' = In
                        /\ result = OK /\ reply' = Owner(response)
         /\ SubmitOk \/ SubmitFails => pc \in SubmitSteps7
<1>1. Sock!TypeOK
  BY DEF Inv, Typed, TypeOK
<1>2. op = "idle" => left = << >>
  BY DEF Inv, ControlInv
<1>3. CASE SetupPowers
  <2>1. /\ pc = "nv_ack" /\ comm' = "open" /\ pc' = "idle"
        /\ UNCHANGED <<recv_bytes, wire, op, left, out, result,
                       cmd, cmdBytes, response, failed, reply, peer, peerPos, executed>>
    BY <1>3 DEF SetupPowers, sockVars
  <2>2. pc = "nv_ack" /\ op = "idle" /\ result = OK
    BY <2>1, PowerIsQuiet DEF PowerSteps
  <2>3. ~Abandons /\ ~SubmitOk /\ ~SubmitFails /\ ~DestroyCloses
    <3>1. comm = "null"
      BY <2>2 DEF Inv, HandleInv, SetupSteps10
    <3>2. comm' # comm /\ comm' # "null"
      BY <2>1, <3>1
    <3> QED BY <3>2 DEF Abandons, SetupFails, PowerFails, SetupAbandons,
           SubmitOk, SubmitFails, DestroyCloses
  <2> QED BY <1>2, <2>1, <2>2, <2>3 DEF Sent, In
<1>4. CASE Abandons
  <2>1. /\ pc \in SetupSteps10 /\ Sock!Destroy /\ pc' = "idle" /\ retval' = MU_FAILURE
        /\ UNCHANGED <<comm, cmd, cmdBytes, resp_len, response, failed, reply, peer, peerPos,
                       executed>>
    BY <1>4 DEF Abandons, SetupFails, PowerFails, SetupAbandons, Returned, SetupSteps10
  <2>2. /\ op = "idle" /\ UNCHANGED <<op, left, result, out>>
    BY <1>1, <2>1, DestroyDoes
  <2>3. comm = "null" /\ pc # "idle" /\ pc \notin SubmitSteps7 \cup {"session_end"}
    BY <2>1 DEF Inv, HandleInv, SetupSteps10, SubmitSteps7
  <2>4. ~SetupPowers /\ ~SubmitOk /\ ~SubmitFails /\ ~DestroyCloses
    BY <2>1, <2>3 DEF SetupPowers, SubmitOk, SubmitFails, DestroyCloses, Returned, SubmitSteps7
  <2> QED BY <1>2, <2>1, <2>2, <2>3, <2>4 DEF Sent
<1>5. CASE SubmitOk \/ SubmitFails
  <2>1. /\ pc \in SubmitSteps7 /\ op = "idle" /\ pc' = "idle"
        /\ UNCHANGED <<recv_bytes, wire, op, left, out, result,
                       comm, cmd, cmdBytes, response, peer, peerPos, executed>>
        /\ SubmitOk => pc = "ack" /\ failed' = failed /\ result = OK /\ reply' = Owner(response)
        /\ SubmitFails => failed' = TRUE /\ reply' = reply
    BY <1>5 DEF SubmitOk, SubmitFails, Returned, sockVars, simVars, SubmitSteps7
  <2>2. pc # "idle" /\ pc # "session_end" /\ pc \notin SetupSteps10
    BY <2>1 DEF SubmitSteps7, SetupSteps10
  <2>3. ~SetupPowers /\ ~Abandons /\ ~DestroyCloses
    BY <2>2 DEF SetupPowers, Abandons, SetupFails, PowerFails, SetupAbandons,
           DestroyCloses, Returned, SetupSteps10
  <2> QED BY <1>2, <2>1, <2>2, <2>3 DEF Sent, In
<1>6. CASE DestroyCloses
  <2>1. /\ pc = "session_end" /\ Sock!Destroy /\ comm' = "null" /\ pc' = "idle"
        /\ UNCHANGED <<cmd, cmdBytes, response, failed, reply, peer, peerPos, executed>>
    BY <1>6 DEF DestroyCloses, Returned, simVars
  <2>2. /\ op = "idle" /\ UNCHANGED <<op, left, result, out>>
    BY <1>1, <2>1, DestroyDoes
  <2>3. ~SetupPowers /\ ~SubmitOk /\ ~SubmitFails /\ ~Abandons
    BY <2>1 DEF SetupPowers, Abandons, SetupFails, PowerFails, SetupAbandons,
           SubmitOk, SubmitFails, Returned
  <2> QED BY <1>2, <2>1, <2>2, <2>3 DEF Sent
<1> QED BY <1>3, <1>4, <1>5, <1>6

(* A connection is made, or not.                                           *)
LEMMA CreateDoesAll ==
  ASSUME Inv, Create
  PROVE  /\ UNCHANGED <<comm, cmd, cmdBytes, reply, executed>> /\ comm = "null" /\ pc = "idle"
         /\ \/ /\ pc' = "connect" /\ Sent' = << >> /\ out' = << >> /\ left' = << >> /\ In' = << >>
               /\ peerPos' = 0 /\ failed' = FALSE /\ op' = "idle" /\ result' = OK
            \/ UNCHANGED <<pc, Sent, out, left, In, peerPos, failed, op>>
<1>1. Sock!TypeOK
  BY DEF Inv, Typed, TypeOK
<1>2. CASE CreateConnects
  <2>1. /\ comm = "null" /\ pc = "idle" /\ Sock!Create /\ pc' = "connect"
        /\ peerPos' = 0 /\ failed' = FALSE
        /\ UNCHANGED <<comm, cmd, cmdBytes, reply, executed>>
    BY <1>2 DEF CreateConnects
  <2>2. /\ op = "idle" /\ result' = OK /\ UNCHANGED <<op, left>>
        /\ out' = << >> /\ recv_bytes' = << >> /\ wire' = << >>
    BY <1>1, <2>1, CreateDoes
  <2>3. left = << >>
    BY <2>2 DEF Inv, ControlInv
  <2>4. << >> \o << >> = << >>
    OBVIOUS
  <2>5. Sent' = << >> /\ In' = << >>
    BY <2>2, <2>3, <2>4, Zenon DEF Sent, In
  <2> QED BY <2>1, <2>2, <2>3, <2>5
<1>3. CASE CreateNoSocket
  BY <1>3 DEF CreateNoSocket, simVars, Sock!CreateFails, Sock!cacheVars, Sock!callVars,
              Sock!netVars, Sock!inHist, Sock!outHist, Sent, In
<1> QED BY <1>2, <1>3 DEF Create

(* A step of the simulator changes only what it reads and what it sends.   *)
SimSame == UNCHANGED <<handle, op, bytes_len, result, out, left, Sent, delivered, comm, pc, cmd,
                       cmdBytes, resp_len, response, failed, reply>>

(* The simulator answers a handshake.                                      *)
LEMMA HandshakeDoes ==
  ASSUME Inv, SimHandshake
  PROVE  /\ SimSame /\ executed' = executed /\ HandshakeReady /\ peerPos' = peerPos + 8
         /\ handle = "open" =>
              \E s \in Seq(Bytes) : Len(s) = 12 /\ In' = In \o s
<1>1. Sock!TypeOK
  BY DEF Inv, Typed, TypeOK
<1>2. PICK v \in ServerVersion, a \in Ack : PeerSays(Word(v) \o Word(TpmInfo) \o Word(a))
  BY DEF SimHandshake
<1>3. HandshakeReady /\ peerPos' = peerPos + 8
      /\ UNCHANGED <<comm, pc, cmd, cmdBytes, resp_len, response, failed, reply, executed>>
  BY DEF SimHandshake, hostVars, WordLen
<1> DEFINE s == Word(v) \o Word(TpmInfo) \o Word(a)
<1>4. s \in Seq(Bytes)
  BY AnswersTyped
<1>5. Len(s) = 12
  <2>1. /\ Word(v) \in Seq(Bytes) /\ Len(Word(v)) = 4 /\ Word(a) \in Seq(Bytes)
        /\ Len(Word(a)) = 4 /\ Word(TpmInfo) \in Seq(Bytes) /\ Len(Word(TpmInfo)) = 4
    BY WordIs, SimAssumption DEF TpmInfo, WordLen
  <2>2. PICK x \in Seq(Bytes), y \in Seq(Bytes), z \in Seq(Bytes) :
          x = Word(v) /\ y = Word(TpmInfo) /\ z = Word(a)
    BY <2>1
  <2>3. x \o y \in Seq(Bytes) /\ Len(x \o y) = Len(x) + Len(y)
    BY JoinIs
  <2>4. Len((x \o y) \o z) = Len(x \o y) + Len(z)
    BY <2>3, JoinIs
  <2> QED BY <2>1, <2>2, <2>3, <2>4
<1> HIDE DEF s
<1>6. /\ UNCHANGED <<handle, op, bytes_len, result, recv_bytes, out, left, delivered>>
      /\ handle = "open" => In' = In \o s
  BY <1>1, <1>2, <1>4, PeerSaysDoes DEF s
<1> QED BY <1>3, <1>4, <1>5, <1>6 DEF SimSame, Sent

(* The reply to command c of n bytes, byte by byte.                        *)
ReplyTo(s, n, c) ==
  /\ s \in Seq(Bytes) /\ Len(s) = n + 8
  /\ Value(s) = n
  /\ \A i \in 5..n + 4 : s[i] = c

(* The simulator runs the command it finds behind a length, and answers.   *)
LEMMA CommandDoes ==
  ASSUME Inv, NEW n \in RespSize, SimCommand(n)
  PROVE  /\ SimSame /\ CommandReady /\ peerPos' = peerPos + 9 + CommandLen
         /\ \E c \in Bytes :
              /\ c = IF CommandLen = 0 THEN 0 ELSE Pending[10]
              /\ executed' = IF c = 0 THEN executed ELSE Append(executed, c)
              /\ handle = "open" => \E s : ReplyTo(s, n, c) /\ In' = In \o s
<1>1. Sock!TypeOK /\ Typed
  BY DEF Inv, Typed, TypeOK
<1>2. CommandReady /\ peerPos' = peerPos + CommandEnd
      /\ UNCHANGED <<comm, pc, cmd, cmdBytes, resp_len, response, failed, reply>>
  BY DEF SimCommand, hostVars
<1>3. /\ CommandLen \in Nat /\ CommandEnd = 9 + CommandLen /\ 2 * WordLen + 2 = 10
      /\ CommandLen # 0 => Pending[10] \in Bytes
  BY <1>1, <1>2, CommandIs
<1> DEFINE c == IF CommandLen = 0 THEN 0 ELSE Pending[2 * WordLen + 2]
<1>4. /\ executed' = IF c = 0 THEN executed ELSE Append(executed, c)
      /\ \E a \in Ack : PeerSays(Word(n) \o [i \in 1..n |-> c] \o Word(a))
  BY Zenon DEF SimCommand
<1>5. c = (IF CommandLen = 0 THEN 0 ELSE Pending[10]) /\ c \in Bytes
  <2>1. c = IF CommandLen = 0 THEN 0 ELSE Pending[10]
    BY <1>3, Zenon
  <2>2. 0 \in Bytes
    BY DEF Bytes
  <2> HIDE DEF c
  <2> QED BY <1>3, <2>1, <2>2, Zenon
<1> HIDE DEF c
<1>6. PICK a \in Ack : PeerSays(Word(n) \o [i \in 1..n |-> c] \o Word(a))
  BY <1>4
<1> DEFINE r == [i \in 1..n |-> c]
           s == Word(n) \o r \o Word(a)
<1>7. ReplyTo(s, n, c)
  <2>1. /\ n \in Nat /\ Value(Word(n)) = n /\ Word(n) \in Seq(Bytes) /\ Len(Word(n)) = 4
        /\ Word(a) \in Seq(Bytes) /\ Len(Word(a)) = 4
    BY WordIs, SimAssumption DEF WordLen
  <2>2. r \in Seq(Bytes) /\ Len(r) = n /\ \A i \in 1..n : r[i] = c
    BY <1>5, <2>1
  <2> HIDE DEF r
  <2>3. PICK w \in Seq(Bytes), z \in Seq(Bytes) : w = Word(n) /\ z = Word(a)
    BY <2>1
  <2>4. PICK h : h = w \o r
    OBVIOUS
  <2>5. /\ h \in Seq(Bytes) /\ Len(h) = Len(w) + Len(r)
        /\ \A i \in 1..Len(w) : h[i] = w[i]
        /\ \A i \in Len(w) + 1..Len(w) + Len(r) : h[i] = r[i - Len(w)]
    BY <2>2, <2>4, JoinIs
  <2>6. /\ h \in Seq(Bytes) /\ Len(h) = 4 + n
        /\ \A i \in 1..4 : h[i] = Word(n)[i]
        /\ \A i \in 4 + 1..4 + n : h[i] = r[i - 4]
    BY <2>1, <2>2, <2>3, <2>5
  <2>7. s = h \o z
    BY <2>3, <2>4
  <2> HIDE DEF s
  <2>8. s \in Seq(Bytes) /\ Len(s) = Len(h) + Len(z) /\ \A i \in 1..Len(h) : s[i] = h[i]
    BY <2>6, <2>7, JoinIs
  <2>9. /\ s \in Seq(Bytes) /\ Len(s) = 4 + n + 4 /\ \A i \in 1..4 + n : s[i] = h[i]
    BY <2>1, <2>6, <2>3, <2>8
  <2>10. Value(s) = Value(Word(n))
    <3>1. \A i \in 1..4 : s[i] = Word(n)[i]
      BY <2>1, <2>6, <2>9
    <3>2. s[1] = Word(n)[1] /\ s[2] = Word(n)[2] /\ s[3] = Word(n)[3] /\ s[4] = Word(n)[4]
      BY <3>1
    <3> QED BY <3>2 DEF Value
  <2>11. ASSUME NEW i \in 5..n + 4 PROVE s[i] = c
    <3>1. i \in 1..4 + n /\ i \in 4 + 1..4 + n /\ i - 4 \in 1..n
      BY <2>1
    <3> QED BY <2>2, <2>6, <2>9, <3>1
  <2>12. Len(s) = n + 8
    BY <2>1, <2>9
  <2> QED BY <2>1, <2>9, <2>10, <2>11, <2>12 DEF ReplyTo
<1> HIDE DEF s
<1>8. /\ UNCHANGED <<handle, op, bytes_len, result, recv_bytes, out, left, delivered>>
      /\ handle = "open" => In' = In \o s
  <2>1. s \in Seq(Bytes) /\ PeerSays(s)
    BY <1>6, <1>7 DEF s, ReplyTo
  <2> QED BY <1>1, <2>1, PeerSaysDoes
<1>9. peerPos' = peerPos + 9 + CommandLen
  <2>1. peerPos \in Nat
    BY <1>1, PendingIs
  <2> QED BY <1>2, <1>3, <2>1
<1> QED BY <1>2, <1>4, <1>5, <1>7, <1>8, <1>9 DEF SimSame, Sent
-----------------------------------------------------------------------------
(***************************************************************************)
(* The order in which commands run.                                        *)
(***************************************************************************)
(* Cutting the end off changes nothing of what is in front.                *)
LEMMA CutCarries ==
  ASSUME NEW s, NEW t, \A q \in 1..Len(t) : t[q] = s[q], NEW q \in 1..Len(t)
  PROVE  Carries(t, q) <=> Carries(s, q)
<1>1. t[q] = s[q]
  OBVIOUS
<1>2. q > 3 => t[q - 1] = s[q - 1] /\ t[q - 2] = s[q - 2] /\ t[q - 3] = s[q - 3]
  <2> SUFFICES ASSUME q > 3 PROVE t[q - 1] = s[q - 1] /\ t[q - 2] = s[q - 2] /\ t[q - 3] = s[q - 3]
    OBVIOUS
  <2>1. q - 1 \in 1..Len(t) /\ q - 2 \in 1..Len(t) /\ q - 3 \in 1..Len(t)
    OBVIOUS
  <2> QED BY <2>1
<1> QED BY <1>1, <1>2 DEF Carries

(* A word or the locality byte at the end carries no command: what is      *)
(* there that is not zero has three zeros in front.                        *)
LEMMA WordCarries ==
  ASSUME NEW s \in Seq(Bytes), NEW m \in Seq(Bytes),
         \/ m = << 0 >>
         \/ \E d \in Nat : m = <<0, 0, 0, d>>
  PROVE  \A q \in 1..Len(s \o m) :
           /\ q <= Len(s) => (Carries(s \o m, q) <=> Carries(s, q)) /\ (s \o m)[q] = s[q]
           /\ Carries(s \o m, q) => q <= Len(s)
<1> DEFINE t == s \o m
<1>1. /\ Len(t) = Len(s) + Len(m) /\ Len(s) \in Nat /\ Len(m) \in Nat
      /\ \A i \in 1..Len(s) : t[i] = s[i]
      /\ \A i \in Len(s) + 1..Len(s) + Len(m) : t[i] = m[i - Len(s)]
  BY JoinIs
<1> HIDE DEF t
<1>2. ASSUME NEW q \in 1..Len(t), q <= Len(s)
      PROVE  (Carries(t, q) <=> Carries(s, q)) /\ t[q] = s[q]
  <2>1. q \in 1..Len(s) /\ \A i \in 1..Len(s) : s[i] = t[i]
    BY <1>1, <1>2
  <2> QED BY <2>1, <1>1, CutCarries
<1>3. ASSUME NEW q \in 1..Len(t), Carries(t, q), q > Len(s) PROVE FALSE
  <2>1. t[q] # 0
    BY <1>3 DEF Carries
  <2>2. CASE m = << 0 >>
    <3>1. Len(m) = 1 /\ m[1] = 0
      BY <2>2
    <3>2. q - Len(s) = 1 /\ q \in Len(s) + 1..Len(s) + Len(m)
      BY <1>1, <1>3, <3>1
    <3> QED BY <1>1, <2>1, <3>1, <3>2
  <2>3. ASSUME NEW d \in Nat, m = <<0, 0, 0, d>> PROVE FALSE
    <3>1. Len(m) = 4 /\ m[1] = 0 /\ m[2] = 0 /\ m[3] = 0
      BY <2>3
    <3>2. q - Len(s) \in 1..4 /\ t[q] = m[q - Len(s)]
      BY <1>1, <1>3, <3>1, SMTT(30)
    <3>3. q - Len(s) = 4
      BY <2>1, <3>1, <3>2
    <3>4. q > 3 /\ t[q - 1] = m[3] /\ t[q - 2] = m[2] /\ t[q - 3] = m[1]
      <4>1. /\ q - 1 \in Len(s) + 1..Len(s) + Len(m) /\ q - 1 - Len(s) = 3
            /\ q - 2 \in Len(s) + 1..Len(s) + Len(m) /\ q - 2 - Len(s) = 2
            /\ q - 3 \in Len(s) + 1..Len(s) + Len(m) /\ q - 3 - Len(s) = 1
        BY <1>1, <3>1, <3>3
      <4>2. /\ t[q - 1] = m[q - 1 - Len(s)] /\ t[q - 2] = m[q - 2 - Len(s)]
            /\ t[q - 3] = m[q - 3 - Len(s)]
        BY <1>1, <4>1
      <4>3. q > 3
        BY <1>1, <3>3
      <4> QED BY <4>1, <4>2, <4>3
    <3> QED BY <1>3, <3>1, <3>4 DEF Carries
  <2> QED BY <2>2, <2>3
<1>4. \A q \in 1..Len(t) : q \in Int
  BY <1>1
<1> QED BY <1>1, <1>2, <1>3, <1>4 DEF t

(* It is enough that what carries a command was there before, and that the *)
(* simulator is not freed from between two bytes.                          *)
LEMMA OrderStays ==
  ASSUME NEW s \in Seq(Bytes), NEW t \in Seq(Bytes), NEW ex, NEW top \in Int, NEW top2 \in Int,
         NEW pos \in Nat, NEW pos2 \in Nat, top2 >= top, pos2 >= pos,
         InOrder(s, ex, top, pos),
         \A q \in 1..Len(t) : Carries(t, q) => q \in 1..Len(s) /\ Carries(s, q) /\ t[q] = s[q],
         Stuck(s, pos) => Stuck(t, pos2) \/ Len(t) <= pos2
  PROVE  InOrder(t, ex, top2, pos2)
<1>1. /\ Len(s) \in Nat /\ Len(t) \in Nat
      /\ \A q \in 1..Len(s) : s[q] \in Nat
      /\ \A q \in 1..Len(t) : t[q] \in Nat
  <2>1. \A b \in Bytes : b \in Nat
    BY DEF Bytes
  <2> QED BY <2>1, LenProperties
<1>2. Rising(t)
  <2> SUFFICES ASSUME NEW p \in 1..Len(t), NEW q \in 1..Len(t), p < q, Carries(t, p), Carries(t, q)
               PROVE  t[p] < t[q] \/ (q = p + 1 /\ t[p] = t[q])
    BY DEF Rising
  <2>1. /\ p \in 1..Len(s) /\ Carries(s, p) /\ t[p] = s[p]
        /\ q \in 1..Len(s) /\ Carries(s, q) /\ t[q] = s[q]
    OBVIOUS
  <2> QED BY <2>1 DEF InOrder, Rising
<1>3. ASSUME NEW q \in 1..Len(t), Carries(t, q) PROVE t[q] <= top2
  <2>1. q \in 1..Len(s) /\ Carries(s, q) /\ t[q] = s[q]
    BY <1>3
  <2>2. s[q] <= top
    BY <2>1 DEF InOrder
  <2> QED BY <1>1, <2>1, <2>2
<1>4. \A i \in 1..Len(ex) : ex[i] \in 1..top2
  BY DEF InOrder
<1>5. \A i, j \in 1..Len(ex) : i < j => ex[i] < ex[j]
  BY DEF InOrder
<1>6. CASE Stuck(s, pos)
  <2>1. CASE Stuck(t, pos2)
    BY <1>2, <1>3, <1>4, <1>5, <2>1 DEF InOrder
  <2>2. CASE Len(t) <= pos2
    <3>1. \A q \in pos2 + 1..Len(t) : FALSE
      BY <1>1, <2>2
    <3> QED BY <1>2, <1>3, <1>4, <1>5, <3>1 DEF InOrder
  <2> QED BY <1>6, <2>1, <2>2
<1>7. CASE ~Stuck(s, pos)
  <2>1. ASSUME NEW i \in 1..Len(ex), NEW q \in pos2 + 1..Len(t), Carries(t, q)
        PROVE  ex[i] < t[q]
    <3>1. q \in 1..Len(t)
      BY <1>1
    <3>2. q \in 1..Len(s) /\ Carries(s, q) /\ t[q] = s[q]
      BY <2>1, <3>1
    <3>3. q \in pos + 1..Len(s)
      BY <1>1, <3>2
    <3> QED BY <1>7, <3>2, <3>3 DEF InOrder
  <2> QED BY <1>2, <1>3, <1>4, <1>5, <2>1 DEF InOrder
<1> QED BY <1>6, <1>7

(* The stream with its end cut off.                                        *)
LEMMA OrderCut ==
  ASSUME NEW s \in Seq(Bytes), NEW t \in Seq(Bytes), NEW ex, NEW top \in Int, NEW top2 \in Int,
         NEW pos \in Nat, top2 >= top, InOrder(s, ex, top, pos),
         Len(t) <= Len(s), \A q \in 1..Len(t) : t[q] = s[q]
  PROVE  InOrder(t, ex, top2, pos)
<1>1. Len(s) \in Nat /\ Len(t) \in Nat
  BY LenProperties
<1>2. ASSUME NEW q \in 1..Len(t), Carries(t, q)
      PROVE  q \in 1..Len(s) /\ Carries(s, q) /\ t[q] = s[q]
  <2>1. Carries(s, q)
    BY <1>2, CutCarries
  <2> QED BY <1>1, <2>1
<1>3. Stuck(s, pos) => Stuck(t, pos) \/ Len(t) <= pos
  <2> SUFFICES ASSUME Stuck(s, pos), Len(t) > pos PROVE Stuck(t, pos)
    BY <1>1
  <2>1. pos + 1 \in 1..Len(t)
    BY <1>1
  <2> QED BY <2>1 DEF Stuck
<1> QED BY <1>2, <1>3, OrderStays

(* A word or a locality byte is added.                                     *)
LEMMA OrderWord ==
  ASSUME NEW s \in Seq(Bytes), NEW m \in Seq(Bytes), NEW ex, NEW top \in Int, NEW top2 \in Int,
         NEW pos \in Nat, top2 >= top, InOrder(s, ex, top, pos),
         \/ m = << 0 >>
         \/ \E d \in Nat : m = <<0, 0, 0, d>>
  PROVE  InOrder(s \o m, ex, top2, pos)
<1> DEFINE t == s \o m
<1>1. /\ t \in Seq(Bytes) /\ Len(t) = Len(s) + Len(m) /\ Len(m) \in Nat /\ Len(s) \in Nat
      /\ \A i \in 1..Len(s) : t[i] = s[i]
  BY JoinIs
<1>2. \A q \in 1..Len(t) :
        /\ q <= Len(s) => (Carries(t, q) <=> Carries(s, q)) /\ t[q] = s[q]
        /\ Carries(t, q) => q <= Len(s)
  BY WordCarries
<1> HIDE DEF t
<1>3. ASSUME NEW q \in 1..Len(t), Carries(t, q)
      PROVE  q \in 1..Len(s) /\ Carries(s, q) /\ t[q] = s[q]
  <2>1. q \in 1..Len(s)
    BY <1>1, <1>2, <1>3
  <2> QED BY <1>1, <1>2, <1>3, <2>1
<1>4. Stuck(s, pos) => Stuck(t, pos)
  <2> SUFFICES ASSUME Stuck(s, pos) PROVE Stuck(t, pos)
    OBVIOUS
  <2>1. Len(s) > pos /\ s[pos + 1] # 0
    BY DEF Stuck
  <2>2. pos + 1 \in 1..Len(s)
    BY <1>1, <2>1
  <2>3. t[pos + 1] # 0 /\ Len(t) > pos
    BY <1>1, <2>1, <2>2
  <2> QED BY <2>3 DEF Stuck
<1>5. InOrder(t, ex, top2, pos)
  BY <1>1, <1>3, <1>4, OrderStays
<1> QED BY <1>5 DEF t

(* The bytes of the next command are added: they are larger than all       *)
(* before.                                                                 *)
LEMMA OrderBody ==
  ASSUME NEW s \in Seq(Bytes), NEW d \in Bytes, NEW ex, NEW pos \in Nat,
         InOrder(s, ex, d - 1, pos)
  PROVE  InOrder(s \o <<d, d>>, ex, d, pos)
<1> DEFINE t == s \o <<d, d>>
<1>1. /\ t \in Seq(Bytes) /\ Len(t) = Len(s) + 2 /\ Len(s) \in Nat /\ d \in Nat
      /\ \A i \in 1..Len(s) : t[i] = s[i]
      /\ t[Len(s) + 1] = d /\ t[Len(s) + 2] = d
  <2>1. <<d, d>> \in Seq(Bytes) /\ Len(<<d, d>>) = 2
    OBVIOUS
  <2>2. PICK m \in Seq(Bytes) : m = <<d, d>>
    BY <2>1
  <2>3. /\ s \o m \in Seq(Bytes) /\ Len(s \o m) = Len(s) + Len(m) /\ Len(s) \in Nat
        /\ \A i \in 1..Len(s) : (s \o m)[i] = s[i]
        /\ \A i \in Len(s) + 1..Len(s) + Len(m) : (s \o m)[i] = m[i - Len(s)]
    BY JoinIs
  <2>4. Len(m) = 2 /\ m[1] = d /\ m[2] = d
    BY <2>2
  <2>5. t = s \o m
    BY <2>2
  <2> HIDE DEF t
  <2>6. /\ Len(s) + 1 \in Len(s) + 1..Len(s) + Len(m) /\ Len(s) + 1 - Len(s) = 1
        /\ Len(s) + 2 \in Len(s) + 1..Len(s) + Len(m) /\ Len(s) + 2 - Len(s) = 2
    BY <2>3, <2>4
  <2>7. d \in Nat
    BY DEF Bytes
  <2>8. t[Len(s) + 1] = m[Len(s) + 1 - Len(s)] /\ t[Len(s) + 2] = m[Len(s) + 2 - Len(s)]
    BY <2>3, <2>5, <2>6
  <2> QED BY <2>3, <2>4, <2>5, <2>6, <2>7, <2>8
<1> HIDE DEF t
<1>2. \A q \in 1..Len(s) : (Carries(t, q) <=> Carries(s, q)) /\ s[q] \in Nat
  <2>1. \A b \in Bytes : b \in Nat
    BY DEF Bytes
  <2>2. \A i \in 1..Len(s) : s[i] = t[i]
    BY <1>1
  <2>3. \A q \in 1..Len(s) : Carries(s, q) <=> Carries(t, q)
    BY <2>2, CutCarries
  <2> QED BY <2>1, <2>3, LenProperties
<1>3. \A q \in 1..Len(t) : q \in 1..Len(s) \/ (t[q] = d /\ (q = Len(s) + 1 \/ q = Len(s) + 2))
  BY <1>1
<1>4. \A q \in 1..Len(s) : Carries(t, q) => t[q] <= d - 1 /\ t[q] = s[q]
  BY <1>1, <1>2 DEF InOrder
<1>5. Rising(t)
  <2> SUFFICES ASSUME NEW p \in 1..Len(t), NEW q \in 1..Len(t), p < q, Carries(t, p), Carries(t, q)
               PROVE  t[p] < t[q] \/ (q = p + 1 /\ t[p] = t[q])
    BY DEF Rising
  <2>1. CASE q \in 1..Len(s)
    <3>1. p \in 1..Len(s)
      BY <1>1, <2>1
    <3>2. Carries(s, p) /\ Carries(s, q) /\ t[p] = s[p] /\ t[q] = s[q]
      BY <1>1, <1>2, <2>1, <3>1
    <3>3. Rising(s)
      BY DEF InOrder
    <3> QED BY <2>1, <3>1, <3>2, <3>3 DEF Rising
  <2>2. CASE q \notin 1..Len(s)
    <3>1. t[q] = d
      BY <1>3, <2>2
    <3>2. CASE p \in 1..Len(s)
      <4>1. t[p] <= d - 1 /\ t[p] \in Nat
        BY <1>2, <1>4, <3>2
      <4> QED BY <1>1, <3>1, <4>1
    <3>3. CASE p \notin 1..Len(s)
      <4>1. t[p] = d /\ p = Len(s) + 1 /\ q = Len(s) + 2
        BY <1>1, <1>3, <2>2, <3>3
      <4> QED BY <1>1, <3>1, <4>1
    <3> QED BY <3>2, <3>3
  <2> QED BY <2>1, <2>2
<1>6. \A q \in 1..Len(t) : Carries(t, q) => t[q] <= d
  <2> SUFFICES ASSUME NEW q \in 1..Len(t), Carries(t, q) PROVE t[q] <= d
    OBVIOUS
  <2>1. CASE q \in 1..Len(s)
    <3>1. t[q] <= d - 1 /\ t[q] \in Nat
      BY <1>2, <1>4, <2>1
    <3> QED BY <1>1, <3>1
  <2>2. CASE q \notin 1..Len(s)
    <3>1. t[q] = d
      BY <1>3, <2>2
    <3> QED BY <1>1, <3>1
  <2> QED BY <2>1, <2>2
<1>7. /\ \A i \in 1..Len(ex) : ex[i] \in 1..d - 1
      /\ \A i, j \in 1..Len(ex) : i < j => ex[i] < ex[j]
  BY DEF InOrder
<1>8. \A i \in 1..Len(ex) : ex[i] \in 1..d
  BY <1>1, <1>7
<1>9. Stuck(t, pos) \/ \A i \in 1..Len(ex), q \in pos + 1..Len(t) : Carries(t, q) => ex[i] < t[q]
  <2>1. CASE Stuck(s, pos)
    <3>1. Len(s) > pos /\ s[pos + 1] # 0
      BY <2>1 DEF Stuck
    <3>2. pos + 1 \in 1..Len(s)
      BY <1>1, <3>1
    <3>3. t[pos + 1] # 0 /\ Len(t) > pos
      BY <1>1, <3>1, <3>2
    <3> QED BY <3>3 DEF Stuck
  <2>2. CASE ~Stuck(s, pos)
    <3>1. \A i \in 1..Len(ex), q \in pos + 1..Len(s) : Carries(s, q) => ex[i] < s[q]
      BY <2>2 DEF InOrder
    <3>2. ASSUME NEW i \in 1..Len(ex), NEW q \in pos + 1..Len(t), Carries(t, q) PROVE ex[i] < t[q]
      <4>1. q \in 1..Len(t)
        BY <1>1
      <4>2. CASE q \in 1..Len(s)
        <5>1. q \in pos + 1..Len(s) /\ Carries(s, q) /\ t[q] = s[q]
          BY <1>1, <1>2, <3>2, <4>2
        <5> QED BY <3>1, <5>1
      <4>3. CASE q \notin 1..Len(s)
        <5>1. t[q] = d /\ ex[i] \in 1..d - 1
          BY <1>3, <1>7, <4>1, <4>3
        <5> QED BY <1>1, <5>1
      <4> QED BY <4>2, <4>3
    <3> QED BY <3>2
  <2> QED BY <2>1, <2>2
<1>10. InOrder(t, ex, d, pos)
  BY <1>5, <1>6, <1>7, <1>8, <1>9 DEF InOrder
<1> QED BY <1>10 DEF t

(* The simulator runs the command it finds behind the length of n bytes:   *)
(* it is larger than all it has run.  What is then left of a command's two *)
(* bytes is no request.                                                    *)
LEMMA OrderRun ==
  ASSUME NEW s \in Seq(Bytes), NEW ex \in Seq(Nat), NEW top \in Int, NEW pos \in Nat, NEW n \in Nat,
         InOrder(s, ex, top, pos), ~Stuck(s, pos), n # 0, pos + 9 + n <= Len(s),
         s[pos + 10] # 0, ~(s[pos + 7] = 0 /\ s[pos + 8] = 0 /\ s[pos + 9] = 0)
  PROVE  InOrder(s, Append(ex, s[pos + 10]), top, pos + 9 + n)
<1> DEFINE p == pos + 10
           d == s[p]
           f == Append(ex, d)
           pos2 == pos + 9 + n
<1>1. /\ Len(s) \in Nat /\ p \in 1..Len(s) /\ p \in pos + 1..Len(s)
      /\ p > 3 /\ p - 1 = pos + 9 /\ p - 2 = pos + 8 /\ p - 3 = pos + 7
  BY LenProperties
<1>2. \A q \in 1..Len(s) : s[q] \in Nat
  <2>1. \A b \in Bytes : b \in Nat
    BY DEF Bytes
  <2> QED BY <2>1, LenProperties
<1>3. Carries(s, p)
  BY <1>1 DEF Carries
<1>4. /\ d \in Nat /\ d # 0 /\ d <= top
      /\ Len(ex) \in Nat /\ \A i \in 1..Len(ex) : ex[i] \in Nat
      /\ \A i \in 1..Len(ex) : ex[i] < d
  <2>1. d \in Nat /\ d # 0 /\ d <= top
    BY <1>1, <1>2, <1>3 DEF InOrder
  <2>2. \A i \in 1..Len(ex) : ex[i] < s[p]
    BY <1>1, <1>3 DEF InOrder
  <2> QED BY <2>1, <2>2, LenProperties
<1>5. /\ Len(f) = Len(ex) + 1 /\ f[Len(ex) + 1] = d
      /\ \A i \in 1..Len(ex) : f[i] = ex[i]
  BY <1>4
<1> HIDE DEF f
<1>6. \A i \in 1..Len(f) : i \in 1..Len(ex) \/ i = Len(ex) + 1
  BY <1>4, <1>5
<1>7. \A i \in 1..Len(f) : f[i] \in 1..top
  <2>1. \A i \in 1..Len(ex) : ex[i] \in 1..top
    BY DEF InOrder
  <2>2. d \in 1..top
    BY <1>4
  <2> HIDE DEF d
  <2> QED BY <1>5, <1>6, <2>1, <2>2
<1>8. ASSUME NEW i \in 1..Len(f), NEW j \in 1..Len(f), i < j PROVE f[i] < f[j]
  <2>1. i \in 1..Len(ex)
    BY <1>4, <1>5, <1>6, <1>8
  <2>2. CASE j \in 1..Len(ex)
    BY <1>5, <1>8, <2>1, <2>2 DEF InOrder
  <2>3. CASE j = Len(ex) + 1
    BY <1>4, <1>5, <2>1, <2>3
  <2> QED BY <1>6, <2>2, <2>3
<1>9. ASSUME ~Stuck(s, pos2), NEW i \in 1..Len(f), NEW q \in pos2 + 1..Len(s), Carries(s, q)
      PROVE  f[i] < s[q]
  <2>1. q \in 1..Len(s) /\ p < q
    BY <1>1
  <2>2. s[p] < s[q] \/ (q = p + 1 /\ s[p] = s[q])
    BY <1>1, <1>3, <1>9, <2>1 DEF InOrder, Rising
  <2>3. ~(q = p + 1 /\ s[p] = s[q])
    <3> SUFFICES ASSUME q = p + 1, s[p] = s[q] PROVE FALSE
      OBVIOUS
    <3>1. q = pos2 + 1
      BY <1>1
    <3>2. s[pos2 + 1] # 0 /\ Len(s) > pos2
      BY <1>1, <1>4, <3>1
    <3> QED BY <1>9, <3>2 DEF Stuck
  <2>4. f[i] = d \/ (f[i] = ex[i] /\ i \in 1..Len(ex))
    BY <1>5, <1>6
  <2>5. s[q] \in Nat /\ d < s[q]
    BY <1>2, <2>1, <2>2, <2>3
  <2> QED BY <1>4, <2>4, <2>5, SMTT(30)
<1>10. Rising(s) /\ \A q \in 1..Len(s) : Carries(s, q) => s[q] <= top
  BY DEF InOrder
<1>11. InOrder(s, f, top, pos2)
  BY <1>7, <1>8, <1>9, <1>10 DEF InOrder
<1> QED BY <1>11 DEF f

(* The types the steps rely on.                                            *)
LEMMA OrderTyped ==
  ASSUME Inv
  PROVE  /\ Sent \in Seq(Bytes) /\ Len(Sent) \in Nat /\ out \in Seq(Bytes) /\ Len(out) \in Nat
         /\ Len(out) <= Len(Sent) /\ \A q \in 1..Len(out) : Sent[q] = out[q]
         /\ peerPos \in Nat /\ cmd \in Nat /\ Top \in Int /\ executed \in Seq(Nat)
<1>1. cmd \in Nat /\ executed \in Seq(Nat) /\ Typed
  BY SimAssumption DEF Inv, Typed, TypeOK
<1>2. Top \in Int
  BY <1>1 DEF Top
<1>3. /\ Sent \in Seq(Bytes) /\ out \in Seq(Bytes)
      /\ Len(Sent) \in Nat /\ Len(out) \in Nat /\ Len(left) \in Nat
      /\ Len(Sent) = Len(out) + Len(left) /\ \A q \in 1..Len(out) : Sent[q] = out[q]
  BY Streams
<1> QED BY <1>1, <1>2, <1>3, PendingIs

(* Steps that send nothing, or lose the end of what is being sent.         *)
LEMMA OrderKept ==
  ASSUME Inv, OrderInv, executed' = executed, peerPos' = peerPos, Top' \in Int, Top' >= Top,
         Sent' = Sent \/ Sent' = out
  PROVE  OrderInv' /\ Len(Sent') <= Len(Sent)
<1>1. PICK t \in Seq(Bytes) : t = Sent' /\ Len(t) <= Len(Sent) /\ \A q \in 1..Len(t) : t[q] = Sent[q]
  BY OrderTyped
<1>2. InOrder(t, executed, Top', peerPos)
  BY <1>1, OrderTyped, OrderCut DEF OrderInv
<1> QED BY <1>1, <1>2 DEF OrderInv

(* Steps that send a word or the locality.                                 *)
LEMMA OrderAsks ==
  ASSUME Inv, OrderInv, executed' = executed, peerPos' = peerPos, Top' \in Int, Top' >= Top,
         NEW m \in Seq(Bytes), Asks(m),
         \/ m = << 0 >>
         \/ \E d \in Nat : m = <<0, 0, 0, d>>
  PROVE  OrderInv' /\ Len(Sent') = Len(Sent) + Len(m)
<1>1. m # << >>
  BY SMTT(30)
<1>2. Sent' = Sent \o m
  BY <1>1 DEF Asks
<1>3. InOrder(Sent \o m, executed, Top', peerPos)
  BY OrderTyped, OrderWord DEF OrderInv
<1>4. Len(Sent \o m) = Len(Sent) + Len(m)
  BY OrderTyped, JoinIs
<1> QED BY <1>2, <1>3, <1>4 DEF OrderInv

(* Numbers are bytes where they are sent.                                  *)
LEMMA WordBytes ==
  /\ <<0, 0, 0, 15>> \in Seq(Bytes) /\ <<0, 0, 0, 1>> \in Seq(Bytes)
  /\ <<0, 0, 0, 8>> \in Seq(Bytes) /\ <<0, 0, 0, 20>> \in Seq(Bytes) /\ << 0 >> \in Seq(Bytes)
  /\ \A d \in Bytes : <<0, 0, 0, d>> \in Seq(Bytes) /\ Len(<<0, 0, 0, d>>) = 4
  /\ Len(<< 0 >>) = 1
BY DEF Bytes

(* A call in progress, a new connection, and a call's end.                 *)
LEMMA OrderSocket ==
  ASSUME Inv, OrderInv, LengthInv, Socket
  PROVE  OrderInv' /\ LengthInv'
<1>1. UNCHANGED others /\ (Sent' = Sent \/ Sent' = out)
  <2>1. CASE (SendGoesOn \/ SendFails \/ SendWorks) /\ In' = In /\ delivered' = delivered
    <3>1. out \o << >> = out
      BY OrderTyped, ConcatEmptySeq
    <3>2. SendFails => Sent' = out
      BY <3>1, Zenon DEF SendFails, Sent
    <3>3. SendGoesOn \/ SendWorks => Sent' = Sent
      BY Zenon DEF SendGoesOn, SendWorks, Sent
    <3> QED BY <2>1, <3>2, <3>3, SocketDoes
  <2> QED BY <2>1, SocketDoes
<1>2. pc' = pc /\ comm' = comm /\ cmd' = cmd /\ executed' = executed /\ peerPos' = peerPos
  BY <1>1 DEF others
<1>3. Top' \in Int /\ Top' >= Top /\ Limit' = Limit
  BY <1>2, OrderTyped DEF Top, Limit
<1>4. OrderInv' /\ Len(Sent') <= Len(Sent)
  BY <1>1, <1>2, <1>3, OrderKept
<1>5. Limit \in Int /\ Len(Sent') \in Int
  <2>1. Len(Sent') \in Int
    BY <1>1, OrderTyped
  <2> QED BY <2>1, OrderTyped DEF Limit
<1> QED BY <1>3, <1>4, <1>5, OrderTyped DEF LengthInv

(* The actions, one by one: a connection is made, or not ...               *)
LEMMA OrderCreate ==
  ASSUME Inv, OrderInv, LengthInv, Create
  PROVE  OrderInv' /\ LengthInv'
<1>1. /\ comm = "null" /\ pc = "idle" /\ UNCHANGED <<comm, cmd, executed>>
      /\ \/ pc' = "connect" /\ Sent' = << >> /\ peerPos' = 0
         \/ UNCHANGED <<pc, Sent, peerPos>>
  BY CreateDoesAll
<1>2. CASE pc' = "connect" /\ Sent' = << >> /\ peerPos' = 0
  <2>1. Top' = cmd /\ Top = cmd /\ Limit' = 0
    BY <1>1, <1>2 DEF Top, Limit
  <2>2. PICK t : t = << >> /\ Len(t) = 0
    <3>1. Len(<< >>) = 0
      OBVIOUS
    <3> QED BY <3>1, Zenon
  <2>3. \A i \in 1..Len(t) : FALSE
    BY <2>2
  <2>4. \A i \in 0 + 1..Len(t) : FALSE
    BY <2>2
  <2>5. InOrder(t, executed, cmd, 0)
    BY <2>1, <2>3, <2>4 DEF InOrder, Rising, OrderInv
  <2> QED BY <1>1, <1>2, <2>1, <2>2, <2>5 DEF OrderInv, LengthInv
<1>3. CASE UNCHANGED <<pc, Sent, peerPos>>
  <2>1. Top' = Top /\ Limit' = Limit
    BY <1>1, <1>3 DEF Top, Limit
  <2> QED BY <1>1, <1>3, <2>1 DEF OrderInv, LengthInv
<1> QED BY <1>1, <1>2, <1>3

(* ... a call returns ...                                                  *)
LEMMA OrderReturn ==
  ASSUME Inv, OrderInv, LengthInv,
         SetupPowers \/ Abandons \/ SubmitOk \/ SubmitFails \/ DestroyCloses
  PROVE  OrderInv' /\ LengthInv'
<1>1. pc' = "idle" /\ Sent' = Sent /\ UNCHANGED <<cmd, peerPos, executed>>
  BY ReturnDoes
<1>2. Top' = cmd /\ Top' >= Top
  BY <1>1, OrderTyped DEF Top
<1>3. OrderInv'
  BY <1>1, <1>2, OrderTyped, OrderKept
<1>4. Limit' = 11 * cmd + (IF comm' = "null" THEN 12 ELSE 8)
  BY <1>1 DEF Limit, SetupSteps10
<1>5. Limit <= Limit' /\ Limit \in Int /\ Limit' \in Int
  <2>1. cmd \in Nat
    BY OrderTyped
  <2>2. CASE SetupPowers \/ Abandons
    <3>1. pc \in SetupSteps10
      BY <2>2, ReturnDoes DEF SetupSteps10
    <3> QED BY <1>4, <2>1, <3>1 DEF Limit
  <2>3. CASE SubmitOk \/ SubmitFails
    <3>1. pc \in SubmitSteps7 /\ comm = "open"
      BY <2>3, ReturnDoes DEF Inv, HandleInv
    <3>2. Limit <= 11 * cmd + 8 /\ Limit \in Int
      BY <2>1, <3>1 DEF Limit, SetupSteps10, SubmitSteps7
    <3> QED BY <1>4, <2>1, <3>2
  <2>4. CASE DestroyCloses
    <3>1. pc = "session_end" /\ comm' = "null"
      BY <2>4, ReturnDoes
    <3>2. Limit = 11 * cmd + 12
      BY <3>1 DEF Limit, SetupSteps10
    <3> QED BY <1>4, <2>1, <3>1, <3>2
  <2> QED BY <2>2, <2>3, <2>4
<1> QED BY <1>1, <1>3, <1>5, OrderTyped DEF LengthInv

(* The steps of a setup, of a submit and of the session's end.             *)
LEMMA OrderSetup ==
  ASSUME Inv, OrderInv, LengthInv, SetupSteps
  PROVE  OrderInv' /\ LengthInv'
<1>1. /\ UNCHANGED <<comm, cmd, peerPos, executed>>
      /\ \/ Moves("connect", "handshake") /\ Asks(<<0, 0, 0, 15>>)
         \/ Moves("handshake", "version") /\ Asks(<<0, 0, 0, 1>>)
         \/ /\ \/ Moves("version", "server_version") \/ Moves("server_version", "tpm_info")
               \/ Moves("tpm_info", "setup_ack")
            /\ Awaits(4)
  BY SetupStepDoes
<1>2. Top' \in Int /\ Top' >= Top
  <2>1. pc \in SetupSteps10 /\ pc' \in SetupSteps10
    BY <1>1 DEF Moves, SetupSteps10
  <2>2. Top' = cmd /\ Top = cmd
    BY <1>1, <2>1 DEF Top, SetupSteps10
  <2> QED BY <2>2, OrderTyped
<1>3. CASE Moves("connect", "handshake") /\ Asks(<<0, 0, 0, 15>>)
  <2>1. <<0, 0, 0, 15>> \in Seq(Bytes) /\ Len(<<0, 0, 0, 15>>) = 4 /\ 15 \in Nat
    BY WordBytes
  <2>2. OrderInv' /\ Len(Sent') = Len(Sent) + 4
    BY <1>1, <1>2, <1>3, <2>1, OrderAsks
  <2> QED BY <1>3, <2>2, OrderTyped DEF Moves, LengthInv, Limit
<1>4. CASE Moves("handshake", "version") /\ Asks(<<0, 0, 0, 1>>)
  <2>1. <<0, 0, 0, 1>> \in Seq(Bytes) /\ Len(<<0, 0, 0, 1>>) = 4 /\ 1 \in Nat
    BY WordBytes
  <2>2. OrderInv' /\ Len(Sent') = Len(Sent) + 4
    BY <1>1, <1>2, <1>4, <2>1, OrderAsks
  <2> QED BY <1>4, <2>2, OrderTyped DEF Moves, LengthInv, Limit, SetupSteps10
<1>5. CASE /\ \/ Moves("version", "server_version") \/ Moves("server_version", "tpm_info")
              \/ Moves("tpm_info", "setup_ack")
           /\ Awaits(4)
  <2>1. Sent' = Sent
    BY <1>5 DEF Awaits
  <2>2. OrderInv'
    BY <1>1, <1>2, <2>1, OrderKept
  <2> QED BY <1>5, <2>1, <2>2 DEF Moves, LengthInv, Limit, SetupSteps10
<1> QED BY <1>1, <1>3, <1>4, <1>5

(* ... power_on_simulator goes on ...                                      *)
LEMMA OrderPower ==
  ASSUME Inv, OrderInv, LengthInv, PowerGoesOn
  PROVE  OrderInv' /\ LengthInv'
<1>1. /\ pc \in {"setup_ack", "power_on", "power_ack", "nv_on"}
      /\ pc' \in {"power_on", "power_ack", "nv_on", "nv_ack"}
      /\ UNCHANGED <<Sent, cmd, comm, peerPos, executed>>
  BY PowerDoes
<1>2. Top' = cmd /\ Top = cmd /\ Limit' = 8 /\ Limit = 8
  BY <1>1 DEF Top, Limit, SetupSteps10
<1>3. OrderInv'
  BY <1>1, <1>2, OrderTyped, OrderKept
<1> QED BY <1>1, <1>2, <1>3 DEF LengthInv

(* ... a submit takes its next step ...                                    *)
LEMMA OrderSubmit ==
  ASSUME Inv, OrderInv, LengthInv, SubmitSteps
  PROVE  OrderInv' /\ LengthInv'
<1>1. /\ UNCHANGED <<comm, cmd, peerPos, executed>>
      /\ \/ Moves("send_command", "locality") /\ Asks(<< 0 >>)
         \/ Moves("locality", "length") /\ Asks(<<0, 0, 0, Len(cmdBytes)>>)
         \/ Moves("length", "bytes") /\ Asks(cmdBytes)
         \/ Moves("bytes", "resp_length") /\ Awaits(4)
  BY SubmitStepDoes
<1>2. /\ cmd \in Nat /\ cmd \in Bytes /\ Len(Sent) \in Nat
      /\ pc \in {"send_command", "locality", "length"} => Top = cmd - 1
      /\ Top \in Int
  <2>1. Command \subseteq Bytes
    <3>1. MaxCommand \in 0..255
      BY SimAssumption
    <3> QED BY <3>1 DEF Command, Bytes
  <2>2. pc \in SubmitSteps7
    BY <1>1 DEF Moves, SubmitSteps7
  <2>3. cmd \in Command
    BY <2>2 DEF Inv, ControlInv
  <2> QED BY <2>1, <2>2, <2>3, OrderTyped DEF Top
<1>3. CASE Moves("send_command", "locality") /\ Asks(<< 0 >>)
  <2>1. Top' = cmd - 1 /\ Top = cmd - 1
    BY <1>1, <1>2, <1>3 DEF Top, Moves
  <2>2. Top' \in Int /\ Top' >= Top
    BY <1>2, <2>1
  <2>3. OrderInv' /\ Len(Sent') = Len(Sent) + 1
    BY <1>1, <1>3, <2>2, OrderAsks, WordBytes
  <2> QED BY <1>1, <1>2, <1>3, <2>3 DEF Moves, LengthInv, Limit, SetupSteps10
<1>4. CASE Moves("locality", "length") /\ Asks(<<0, 0, 0, Len(cmdBytes)>>)
  <2>1. Top' = cmd - 1 /\ Top = cmd - 1
    BY <1>1, <1>2, <1>4 DEF Top, Moves
  <2>2. Top' \in Int /\ Top' >= Top
    BY <1>2, <2>1
  <2>3. Len(cmdBytes) \in Bytes /\ Len(cmdBytes) \in Nat
    BY BodyIs DEF Bytes
  <2>4. PICK d \in Bytes : d = Len(cmdBytes) /\ d \in Nat
    BY <2>3
  <2>5. <<0, 0, 0, d>> \in Seq(Bytes) /\ Len(<<0, 0, 0, d>>) = 4
    BY WordBytes
  <2>6. OrderInv' /\ Len(Sent') = Len(Sent) + 4
    BY <1>1, <1>4, <2>2, <2>4, <2>5, OrderAsks
  <2> QED BY <1>1, <1>2, <1>4, <2>6 DEF Moves, LengthInv, Limit, SetupSteps10
<1>5. CASE Moves("length", "bytes") /\ Asks(cmdBytes)
  <2>1. Top' = cmd /\ Top = cmd - 1 /\ Top' \in Int /\ Top' >= Top
    BY <1>1, <1>2, <1>5 DEF Top, Moves
  <2>2. CASE cmdBytes = << >>
    <3>1. Sent' = Sent
      BY <1>5, <2>2 DEF Asks
    <3>2. OrderInv'
      BY <1>1, <2>1, <3>1, OrderKept
    <3> QED BY <1>1, <1>2, <1>5, <3>1, <3>2 DEF Moves, LengthInv, Limit, SetupSteps10
  <2>3. CASE cmdBytes = <<cmd, cmd>>
    <3>1. cmdBytes # << >> /\ cmdBytes \in Seq(Bytes) /\ Len(cmdBytes) = 2
      BY <2>3, BodyIs
    <3>2. Sent' = Sent \o <<cmd, cmd>>
      BY <1>5, <2>3, <3>1, Zenon DEF Asks
    <3>3. InOrder(Sent \o <<cmd, cmd>>, executed, cmd, peerPos)
      BY <1>2, <2>1, OrderTyped, OrderBody DEF OrderInv
    <3>4. OrderInv'
      BY <1>1, <2>1, <3>2, <3>3 DEF OrderInv
    <3>5. Len(Sent \o cmdBytes) = Len(Sent) + Len(cmdBytes)
      BY <3>1, OrderTyped, JoinIs
    <3>6. Len(Sent') = Len(Sent) + 2
      BY <2>3, <3>1, <3>2, <3>5
    <3> QED BY <1>1, <1>2, <1>5, <3>4, <3>6 DEF Moves, LengthInv, Limit, SetupSteps10
  <2> QED BY <2>2, <2>3, BodyIs
<1>6. CASE Moves("bytes", "resp_length") /\ Awaits(4)
  <2>1. Sent' = Sent
    BY <1>6 DEF Awaits
  <2>2. Top' \in Int /\ Top' >= Top
    BY <1>1, <1>2, <1>6 DEF Top, Moves
  <2>3. OrderInv'
    BY <1>1, <2>1, <2>2, OrderKept
  <2> QED BY <1>1, <1>6, <2>1, <2>3 DEF Moves, LengthInv, Limit, SetupSteps10
<1> QED BY <1>1, <1>3, <1>4, <1>5, <1>6

(* ... begins ...                                                          *)
LEMMA OrderSubmitCall ==
  ASSUME Inv, OrderInv, LengthInv, NEW c \in Command, NEW b \in {<<c, c>>, << >>}, SubmitCall(c, b)
  PROVE  OrderInv' /\ LengthInv'
<1>1. /\ comm = "open" /\ pc = "idle" /\ pc' = "send_command" /\ cmd' = cmd + 1
      /\ Asks(<<0, 0, 0, 8>>) /\ UNCHANGED <<comm, peerPos, executed>>
  BY SubmitCallDoes
<1>2. Top' = cmd' - 1 /\ Top = cmd
  BY <1>1 DEF Top
<1>3. Top' \in Int /\ Top' >= Top
  BY <1>1, <1>2, OrderTyped
<1>4. <<0, 0, 0, 8>> \in Seq(Bytes) /\ Len(<<0, 0, 0, 8>>) = 4 /\ 8 \in Nat
  BY WordBytes
<1>5. OrderInv' /\ Len(Sent') = Len(Sent) + 4
  BY <1>1, <1>3, <1>4, OrderAsks
<1> QED BY <1>1, <1>5, OrderTyped, SMTT(30) DEF LengthInv, Limit, SetupSteps10

(* ... or a destroy does ...                                               *)
LEMMA OrderDestroyCall ==
  ASSUME Inv, OrderInv, LengthInv, DestroyCall
  PROVE  OrderInv' /\ LengthInv'
<1>1. /\ comm = "open" /\ pc = "idle" /\ pc' = "session_end" /\ Asks(<<0, 0, 0, 20>>)
      /\ UNCHANGED <<comm, cmd, peerPos, executed>>
  BY DestroyCallDoes
<1>2. Top' \in Int /\ Top' >= Top
  BY <1>1, OrderTyped DEF Top
<1>3. <<0, 0, 0, 20>> \in Seq(Bytes) /\ Len(<<0, 0, 0, 20>>) = 4 /\ 20 \in Nat
  BY WordBytes
<1>4. OrderInv' /\ Len(Sent') = Len(Sent) + 4
  BY <1>1, <1>2, <1>3, OrderAsks
<1> QED BY <1>1, <1>4, OrderTyped DEF LengthInv, Limit, SetupSteps10

(* ... a submit reads its answer ...                                       *)
LEMMA OrderSubmitReads ==
  ASSUME Inv, OrderInv, LengthInv, SubmitReadsResponse \/ SubmitReadsAck
  PROVE  OrderInv' /\ LengthInv'
<1>1. /\ UNCHANGED <<comm, cmd, peerPos, executed>> /\ Sent' = Sent
      /\ Moves("resp_length", "response") \/ Moves("response", "ack")
  <2>1. \A n : Awaits(n) => Sent' = Sent
    BY DEF Awaits
  <2> QED BY <2>1, SubmitReadsDo
<1>2. Top' = cmd /\ Top = cmd
  BY <1>1 DEF Top, Moves
<1>3. OrderInv'
  BY <1>1, <1>2, OrderTyped, OrderKept
<1> QED BY <1>1, <1>3 DEF Moves, LengthInv, Limit, SetupSteps10

(* The simulator.                                                          *)
LEMMA OrderSimulator ==
  ASSUME Inv, OrderInv, LengthInv, Simulator
  PROVE  OrderInv' /\ LengthInv'
<1>1. /\ Sent \in Seq(Bytes) /\ Len(Sent) \in Nat /\ Len(out) \in Nat /\ Len(out) <= Len(Sent)
      /\ \A q \in 1..Len(out) : Sent[q] = out[q]
      /\ peerPos \in Nat /\ Top \in Int /\ executed \in Seq(Nat)
  BY OrderTyped
<1>2. /\ Len(Pending) = Len(out) - peerPos /\ Typed
      /\ \A i \in 1..Len(Pending) : Pending[i] = Sent[peerPos + i]
  <2>1. /\ Len(Pending) = Len(out) - peerPos
        /\ \A i \in 1..Len(Pending) : Pending[i] = out[peerPos + i]
    BY PendingIs DEF Inv
  <2>2. \A i \in 1..Len(Pending) : peerPos + i \in 1..Len(out)
    BY <1>1, <2>1
  <2> QED BY <1>1, <2>1, <2>2 DEF Inv
<1>3. SimSame => Top' = Top /\ Limit' = Limit /\ Sent' = Sent
  BY DEF SimSame, Top, Limit
<1>4. SimSame /\ OrderInv' => OrderInv' /\ LengthInv'
  BY <1>3 DEF LengthInv
<1>5. CASE SimHandshake
  <2>1. SimSame /\ executed' = executed /\ HandshakeReady /\ peerPos' = peerPos + 8
    BY <1>5, HandshakeDoes
  <2>2. 8 <= Len(Pending) /\ Pending[1] = 0
    BY <1>2, <2>1, HandshakeIs
  <2>3. Sent[peerPos + 1] = 0
    BY <1>1, <1>2, <2>2
  <2>4. ~Stuck(Sent, peerPos)
    BY <2>3 DEF Stuck
  <2>5. peerPos + 8 \in Nat /\ peerPos + 8 >= peerPos
    BY <1>1
  <2>6. \A q \in 1..Len(Sent) : Carries(Sent, q) =>
          q \in 1..Len(Sent) /\ Carries(Sent, q) /\ Sent[q] = Sent[q]
    OBVIOUS
  <2>7. Top >= Top
    BY <1>1
  <2>8. InOrder(Sent, executed, Top, peerPos + 8)
    BY <1>1, <2>4, <2>5, <2>6, <2>7, OrderStays DEF OrderInv
  <2> QED BY <1>3, <1>4, <2>1, <2>8 DEF OrderInv
<1>6. ASSUME NEW n \in RespSize, SimCommand(n) PROVE OrderInv' /\ LengthInv'
  <2>1. SimSame /\ CommandReady /\ peerPos' = peerPos + 9 + CommandLen
    BY <1>6, CommandDoes
  <2>2. PICK c \in Bytes : /\ c = IF CommandLen = 0 THEN 0 ELSE Pending[10]
                           /\ executed' = IF c = 0 THEN executed ELSE Append(executed, c)
    BY <1>6, CommandDoes
  <2>3. /\ CommandLen \in Nat /\ 9 + CommandLen <= Len(Pending) /\ Pending[1] = 0
        /\ CommandLen = Value(<<Pending[6], Pending[7], Pending[8], Pending[9]>>)
        /\ Pending[6] \in Nat
    BY <1>2, <2>1, CommandIs
  <2>4. /\ Sent[peerPos + 1] = 0 /\ Pending[6] = Sent[peerPos + 6] /\ Pending[7] = Sent[peerPos + 7]
        /\ Pending[8] = Sent[peerPos + 8] /\ Pending[9] = Sent[peerPos + 9]
        /\ CommandLen # 0 => Pending[10] = Sent[peerPos + 10]
        /\ peerPos + 9 + CommandLen <= Len(Sent)
    <3>1. Len(Pending) \in Nat
      BY <1>2, PendingIs, LenProperties
    <3>2. \A i \in Nat : 1 <= i /\ i <= Len(Pending) => Pending[i] = Sent[peerPos + i]
      BY <1>2, <3>1
    <3>3. CommandLen # 0 => Pending[10] = Sent[peerPos + 10]
      BY <2>3, <3>1, <3>2
    <3>4. /\ Pending[1] = Sent[peerPos + 1] /\ Pending[6] = Sent[peerPos + 6]
          /\ Pending[7] = Sent[peerPos + 7] /\ Pending[8] = Sent[peerPos + 8]
          /\ Pending[9] = Sent[peerPos + 9]
      BY <2>3, <3>1, <3>2
    <3>5. peerPos + 9 + CommandLen <= Len(Sent)
      BY <1>1, <1>2, <2>3
    <3> QED BY <2>3, <3>3, <3>4, <3>5
  <2>5. ~Stuck(Sent, peerPos)
    BY <2>4 DEF Stuck
  <2>6. CASE c = 0
    <3>1. peerPos + 9 + CommandLen \in Nat /\ peerPos + 9 + CommandLen >= peerPos
      BY <1>1, <2>3, SMTT(30)
    <3>2. \A q \in 1..Len(Sent) : Carries(Sent, q) =>
            q \in 1..Len(Sent) /\ Carries(Sent, q) /\ Sent[q] = Sent[q]
      OBVIOUS
    <3>3. Top >= Top
      BY <1>1
    <3>4. InOrder(Sent, executed, Top, peerPos + 9 + CommandLen)
      BY <1>1, <2>5, <3>1, <3>2, <3>3, OrderStays DEF OrderInv
    <3> QED BY <1>3, <1>4, <2>1, <2>2, <2>6, <3>4 DEF OrderInv
  <2>7. CASE c # 0
    <3>1. CommandLen # 0 /\ c = Sent[peerPos + 10]
      <4>1. CommandLen # 0
        BY <2>2, <2>7
      <4> QED BY <2>2, <2>4, <4>1
    <3>2. ~(Sent[peerPos + 7] = 0 /\ Sent[peerPos + 8] = 0 /\ Sent[peerPos + 9] = 0)
      <4> SUFFICES ASSUME Pending[7] = 0, Pending[8] = 0, Pending[9] = 0 PROVE FALSE
        BY <2>4
      <4>1. CommandLen >= 65536
        <5>1. CommandLen = Value(<<Pending[6], 0, 0, 0>>)
          BY <2>3
        <5> QED BY <2>3, <3>1, <5>1, SMT DEF Value
      <4>2. Limit <= 11 * 255 + 12
        <5>1. cmd \in 0..255
          BY <1>2, SimAssumption DEF Typed, TypeOK
        <5>2. Limit <= 11 * cmd + 12
          BY <5>1 DEF Limit
        <5>3. Limit \in Int
          BY <5>1 DEF Limit
        <5> QED BY <5>1, <5>2, <5>3
      <4>3. Limit \in Int /\ peerPos + 9 + CommandLen <= Len(Sent) /\ Len(Sent) <= Limit
        <5>1. cmd \in Nat
          BY OrderTyped
        <5>2. Limit \in Int
          BY <5>1 DEF Limit
        <5> QED BY <2>4, <5>2 DEF LengthInv
      <4> HIDE DEF Limit
      <4> QED BY <1>1, <2>3, <4>1, <4>2, <4>3
    <3>3. InOrder(Sent, Append(executed, c), Top, peerPos + 9 + CommandLen)
      BY <1>1, <2>3, <2>4, <2>5, <2>7, <3>1, <3>2, OrderRun DEF OrderInv
    <3> QED BY <1>3, <1>4, <2>1, <2>2, <2>7, <3>3 DEF OrderInv
  <2> QED BY <2>6, <2>7
<1>7. CASE SimQuiet
  <2>1. SimSame /\ UNCHANGED <<executed, peerPos>>
    BY <1>7, QuietDoes DEF SimSame, Sent
  <2> QED BY <1>3, <1>4, <2>1 DEF OrderInv
<1> QED BY <1>5, <1>6, <1>7 DEF Simulator, SimQuiet

(* The invariants hold in every reachable state.                           *)
LEMMA OrderHolds == Spec => [](Inv /\ OrderInv /\ LengthInv)
<1>1. Init => OrderInv /\ LengthInv
  <2> SUFFICES ASSUME Init PROVE OrderInv /\ LengthInv
    OBVIOUS
  <2>1. /\ comm = "null" /\ pc = "idle" /\ cmd = 0 /\ peerPos = 0 /\ executed = << >>
        /\ out = << >> /\ left = << >>
    BY DEF Init, Sock!Init
  <2>2. << >> \o << >> = << >> /\ Len(<< >>) = 0
    OBVIOUS
  <2>3. Len(Sent) = 0 /\ Len(executed) = 0
    BY <2>1, <2>2, Zenon DEF Sent
  <2>4. (\A i \in 1..Len(Sent) : FALSE) /\ (\A i \in 0 + 1..Len(Sent) : FALSE)
        /\ \A i \in 1..Len(executed) : FALSE
    BY <2>3
  <2>5. OrderInv
    BY <2>1, <2>4 DEF OrderInv, InOrder, Rising
  <2> QED BY <2>1, <2>3, <2>5 DEF LengthInv, Limit, SetupSteps10
<1>2. Inv /\ OrderInv /\ LengthInv /\ [Next]_vars => OrderInv' /\ LengthInv'
  <2> SUFFICES ASSUME Inv, OrderInv, LengthInv, [Next]_vars PROVE OrderInv' /\ LengthInv'
    OBVIOUS
  <2>1. CASE Next
    BY <2>1, Actions, OrderSocket, OrderCreate, OrderSetup, OrderPower, OrderReturn,
       OrderSubmitCall, OrderSubmit, OrderSubmitReads, OrderDestroyCall, OrderSimulator
          DEF PowerGoesOn, Abandons
  <2>2. CASE UNCHANGED vars
    BY <2>2 DEF vars, sockVars, hostVars, simVars, OrderInv, LengthInv, Limit, Top, Sent
  <2> QED BY <2>1, <2>2
<1> QED BY <1>1, <1>2, InvHolds, PTL DEF Spec

(* tpm_comm_submit_command never sends a command again, whatever failed:   *)
(* the simulator runs the commands in the order they were submitted, and   *)
(* none twice.                                                             *)
THEOREM RunsOnce == Spec => []RunsInOrder
<1>1. Inv /\ OrderInv => RunsInOrder
  <2> SUFFICES ASSUME Inv, OrderInv PROVE RunsInOrder
    OBVIOUS
  <2>1. \A i, j \in 1..Len(executed) : i < j => executed[i] < executed[j]
    BY DEF OrderInv, InOrder
  <2>2. DOMAIN executed = 1..Len(executed)
    BY OrderTyped
  <2> QED BY <2>1, <2>2 DEF RunsInOrder
<1> QED BY <1>1, OrderHolds, PTL

-----------------------------------------------------------------------------
(***************************************************************************)
(* Frames: the request in progress, byte by byte, and where its answer is. *)
(***************************************************************************)
(* The socket call of the step has returned a failure; or it has returned. *)
Dead == op = "idle" /\ result # OK
Done == op = "idle"

(* What the host has sent of the request in progress.                      *)
FrameLen ==
  IF pc \in {"connect", "idle"} THEN 0
  ELSE IF pc \in {"handshake", "send_command", "session_end"} THEN 4
  ELSE IF pc \in SetupSteps10 THEN 8
  ELSE IF pc = "locality" THEN 5
  ELSE IF pc = "length" THEN 9
  ELSE 9 + Len(cmdBytes)
FrameByte(i) ==
  IF pc \in SetupSteps10 THEN IF i = 4 THEN 15 ELSE IF i = 8 THEN 1 ELSE 0
  ELSE IF pc = "session_end" THEN IF i = 4 THEN 20 ELSE 0
  ELSE IF i = 4 THEN 8 ELSE IF i = 9 THEN Len(cmdBytes) ELSE IF i > 9 THEN cmd ELSE 0

(* The request has not been consumed: what the simulator has yet to        *)
(* consume is the request as far as it was sent, or less of it when a      *)
(* send has failed, and nothing of an answer is there.                     *)
Unserved ==
  /\ Len(Sent) - peerPos <= FrameLen
  /\ ~Dead \/ pc = "idle" => Len(Sent) - peerPos = FrameLen /\ In = << >>
  /\ \A i \in 1..FrameLen : peerPos + i <= Len(Sent) => Sent[peerPos + i] = FrameByte(i)
  /\ pc \in SubmitSteps7 => \A i \in 1..Len(executed) : executed[i] # cmd
  /\ pc \notin {"tpm_info", "setup_ack", "response", "ack",
                "power_on", "power_ack", "nv_on", "nv_ack"}
  /\ pc \in {"server_version", "resp_length"} /\ Done => Dead
  /\ pc \in {"bytes", "resp_length"} /\ cmdBytes = << >> => Dead

(* How much of the answer is still to be read at which step, and that it   *)
(* is the answer to this request.                                          *)
AnswerLeft ==
  IF pc = "version" THEN 12
  ELSE IF pc = "server_version" THEN IF Done THEN 8 ELSE 12
  ELSE IF pc = "tpm_info" THEN IF Done THEN 4 ELSE 8
  ELSE IF pc \in {"setup_ack", "ack"} THEN IF Done THEN 0 ELSE 4
  ELSE IF pc \in {"power_on", "power_ack", "nv_on", "nv_ack"} THEN 0
  ELSE IF Done THEN 4 ELSE resp_len + 4
Answer ==
  /\ pc \in {"version", "server_version", "tpm_info", "setup_ack", "response", "ack",
             "power_on", "power_ack", "nv_on", "nv_ack"}
       => Len(In) = AnswerLeft
  /\ pc \in {"bytes", "resp_length", "response", "ack"} => cmdBytes # << >>
  /\ pc = "bytes" \/ (pc = "resp_length" /\ ~Done)
       => /\ Len(In) >= 8 /\ Value(In) = Len(In) - 8
          /\ \A i \in 5..Len(In) - 4 : In[i] = cmd
  /\ pc = "resp_length" /\ Done
       => /\ Len(In) >= 4 /\ WordRead = Len(In) - 4
          /\ \A i \in 1..Len(In) - 4 : In[i] = cmd
  /\ pc = "response" /\ ~Done => \A i \in 1..resp_len : In[i] = cmd
  /\ pc = "response" /\ Done
       => \A i \in 1..resp_len : delivered[Len(delivered) - resp_len + i] = cmd
  /\ pc = "ack" => response # << >> /\ \A i \in 1..Len(response) : response[i] = cmd

(* It has been consumed, and unless a socket call has failed its answer is *)
(* on its way.                                                             *)
Served ==
  /\ peerPos = Len(out) /\ left = << >>
  /\ pc \in {"version", "server_version", "tpm_info", "setup_ack",
             "length", "bytes", "resp_length", "response", "ack",
             "power_on", "power_ack", "nv_on", "nv_ack"}
  /\ pc = "length" => cmdBytes = << >>
  /\ pc \in SubmitSteps7 /\ cmdBytes # << >> => \E i \in 1..Len(executed) : executed[i] = cmd
  /\ ~Dead => Answer

(* A setup or a handle none of whose submits has failed.                   *)
Live == (pc # "idle" \/ comm = "open") /\ ~failed

StreamInv == Live => Unserved \/ Served
-----------------------------------------------------------------------------
(* A request is of at most eleven bytes.                                   *)
LEMMA FrameTyped ==
  ASSUME Inv
  PROVE  /\ FrameLen \in 0..11 /\ FrameLen \in Nat
         /\ In \in Seq(Bytes) /\ Len(In) \in Nat
         /\ left \in Seq(Bytes) /\ Len(left) \in Nat /\ Len(Sent) = Len(out) + Len(left)
         /\ peerPos <= Len(out) /\ Len(executed) \in Nat
         /\ pc \in {"idle", "session_end"} \cup SubmitSteps7 \cup SetupSteps10
<1>1. FrameLen \in 0..11
  <2>1. PICK n \in 0..2 : n = Len(cmdBytes)
    BY BodyIs
  <2>2. FrameLen \in {0, 4, 8, 5, 9, 9 + n}
    BY <2>1, Zenon DEF FrameLen
  <2> QED BY <2>2
<1>2. /\ executed \in Seq(Nat) /\ Typed
      /\ pc \in {"idle", "session_end"} \cup SubmitSteps7 \cup SetupSteps10
  BY DEF Inv, Typed, TypeOK
<1>3. Len(executed) \in Nat
  BY <1>2, LenProperties
<1>4. /\ In \in Seq(Bytes) /\ Len(In) \in Nat
      /\ left \in Seq(Bytes) /\ Len(left) \in Nat /\ Len(Sent) = Len(out) + Len(left)
  BY Streams
<1>5. peerPos <= Len(out)
  BY <1>2, PendingIs
<1> QED BY <1>1, <1>2, <1>3, <1>4, <1>5

(* The request goes on: what is asked to be sent follows what was sent.    *)
LEMMA FrameAsks ==
  ASSUME Inv, Unserved, ~Dead \/ pc = "idle", NEW m \in Seq(Bytes), m # << >>, Asks(m),
         peerPos' = peerPos
  PROVE  /\ Len(Sent') - peerPos' = FrameLen + Len(m) /\ In' = << >> /\ op' = "send"
         /\ \A i \in 1..FrameLen : Sent'[peerPos' + i] = FrameByte(i)
         /\ \A i \in 1..Len(m) : Sent'[peerPos' + (FrameLen + i)] = m[i]
<1>1. /\ Len(Sent) - peerPos = FrameLen /\ In = << >>
      /\ \A i \in 1..FrameLen : peerPos + i <= Len(Sent) => Sent[peerPos + i] = FrameByte(i)
  BY DEF Unserved
<1>2. op' = "send" /\ Sent' = Sent \o m /\ In' = In
  BY DEF Asks
<1>3. /\ Sent \in Seq(Bytes) /\ Len(Sent) \in Nat /\ peerPos \in Nat /\ FrameLen \in Nat
  BY OrderTyped, FrameTyped
<1>4. PICK n \in Nat : n = FrameLen
  BY <1>3
<1>5. PICK s \in Seq(Bytes) : s = Sent
  BY <1>3
<1>6. PICK t : t = s \o m
  OBVIOUS
<1>7. /\ Len(t) = Len(s) + Len(m) /\ Len(m) \in Nat /\ Len(s) = peerPos + n
      /\ \A i \in 1..Len(s) : t[i] = s[i]
      /\ \A i \in Len(s) + 1..Len(s) + Len(m) : t[i] = m[i - Len(s)]
  BY <1>1, <1>3, <1>4, <1>5, <1>6, JoinIs
<1>8. ASSUME NEW i \in 1..n PROVE t[peerPos + i] = FrameByte(i)
  <2>1. peerPos + i \in 1..Len(s) /\ peerPos + i <= Len(Sent)
    BY <1>3, <1>5, <1>7
  <2> QED BY <1>1, <1>4, <1>5, <1>7, <2>1
<1>9. ASSUME NEW i \in 1..Len(m) PROVE t[peerPos + (n + i)] = m[i]
  <2>1. PICK k \in Nat : k = peerPos + (n + i)
    BY <1>3
  <2>2. k \in Len(s) + 1..Len(s) + Len(m) /\ k - Len(s) = i
    BY <1>3, <1>7, <2>1
  <2>3. t[k] = m[k - Len(s)]
    BY <1>7, <2>2
  <2> QED BY <2>1, <2>2, <2>3, Zenon
<1>10. Len(t) - peerPos = n + Len(m)
  BY <1>3, <1>7
<1>11. t = Sent'
  BY <1>2, <1>5, <1>6
<1> QED BY <1>1, <1>2, <1>4, <1>8, <1>9, <1>10, <1>11

(* So the streams show the request as far as the next step has sent it.    *)
FrameSent ==
  /\ Len(Sent) - peerPos <= FrameLen
  /\ ~Dead \/ pc = "idle" => Len(Sent) - peerPos = FrameLen /\ In = << >>
  /\ \A i \in 1..FrameLen : peerPos + i <= Len(Sent) => Sent[peerPos + i] = FrameByte(i)

(* The bytes of the request in progress are what it sent, one message after *)
(* the other.                                                              *)
LEMMA FrameGrows ==
  ASSUME Inv, Unserved, ~Dead \/ pc = "idle", NEW m \in Seq(Bytes), m # << >>, Asks(m),
         peerPos' = peerPos, NEW n \in Nat, FrameLen = n, FrameLen' = n + Len(m),
         \A i \in 1..n : FrameByte(i)' = FrameByte(i),
         \A i \in 1..Len(m) : FrameByte(n + i)' = m[i]
  PROVE  FrameSent' /\ op' = "send"
<1>1. /\ Len(Sent') - peerPos' = FrameLen + Len(m) /\ In' = << >> /\ op' = "send"
      /\ \A i \in 1..FrameLen : Sent'[peerPos' + i] = FrameByte(i)
      /\ \A i \in 1..Len(m) : Sent'[peerPos' + (FrameLen + i)] = m[i]
  BY FrameAsks
<1>2. Len(m) \in Nat
  BY LenProperties
<1>3. ASSUME NEW i \in 1..n + Len(m) PROVE Sent'[peerPos' + i] = FrameByte(i)'
  <2>1. CASE i \in 1..n
    BY <1>1, <2>1
  <2>2. CASE i \notin 1..n
    <3>1. PICK j \in 1..Len(m) : i = n + j
      <4>1. i - n \in 1..Len(m) /\ i = n + (i - n)
        BY <1>2, <2>2
      <4> QED BY <4>1
    <3>2. Sent'[peerPos' + (n + j)] = m[j] /\ FrameByte(n + j)' = m[j]
      BY <1>1
    <3> QED BY <3>1, <3>2
  <2> QED BY <2>1, <2>2
<1>4. Len(Sent') - peerPos' = FrameLen'
  BY <1>1
<1>5. FrameLen' \in Int
  BY <1>2
<1> QED BY <1>1, <1>3, <1>4, <1>5 DEF FrameSent

(* A request that no longer can be sent, and the end of a send that fails: *)
(* the front of the request is what is there.                              *)
LEMMA FrameCut ==
  ASSUME Inv, Unserved, peerPos' = peerPos, FrameLen' = FrameLen,
         \A i \in 1..FrameLen : FrameByte(i)' = FrameByte(i),
         Sent' = Sent \/ Sent' = out
  PROVE  /\ Len(Sent') - peerPos' <= FrameLen'
         /\ \A i \in 1..FrameLen' : peerPos' + i <= Len(Sent') => Sent'[peerPos' + i] = FrameByte(i)'
<1>1. /\ Len(Sent) - peerPos <= FrameLen
      /\ \A i \in 1..FrameLen : peerPos + i <= Len(Sent) => Sent[peerPos + i] = FrameByte(i)
  BY DEF Unserved
<1>2. /\ Len(Sent) \in Nat /\ Len(out) \in Nat /\ Len(out) <= Len(Sent) /\ peerPos \in Nat
      /\ \A q \in 1..Len(out) : Sent[q] = out[q]
      /\ FrameLen \in Nat
  BY OrderTyped, FrameTyped
<1>3. CASE Sent' = Sent
  BY <1>1, <1>3
<1>4. CASE Sent' = out
  <2>1. Len(Sent') - peerPos' <= FrameLen'
    BY <1>1, <1>2, <1>4
  <2>2. ASSUME NEW i \in 1..FrameLen, peerPos + i <= Len(out)
        PROVE  out[peerPos + i] = FrameByte(i)
    <3>1. peerPos + i \in 1..Len(out) /\ peerPos + i <= Len(Sent)
      BY <1>2, <2>2
    <3> QED BY <1>1, <1>2, <3>1
  <2> QED BY <1>4, <2>1, <2>2
<1> QED BY <1>3, <1>4

(* The handshake: the next message is sent, or its answer awaited.         *)
LEMMA StreamSetup ==
  ASSUME Inv, Unserved \/ Served, SetupSteps
  PROVE  Unserved' \/ Served'
<1>1. /\ UNCHANGED <<comm, cmd, cmdBytes, resp_len, response, peerPos, executed>>
      /\ \/ Moves("connect", "handshake") /\ Asks(<<0, 0, 0, 15>>)
         \/ Moves("handshake", "version") /\ Asks(<<0, 0, 0, 1>>)
         \/ Moves("version", "server_version") /\ Awaits(4)
         \/ Moves("server_version", "tpm_info") /\ Awaits(4)
         \/ Moves("tpm_info", "setup_ack") /\ Awaits(4)
  BY SetupStepDoes
<1>2. ~Dead /\ Done /\ peerPos \in Nat /\ FrameLen \in Nat
  BY <1>1, OrderTyped, FrameTyped DEF Moves, Dead, Done
<1>3. CASE Moves("connect", "handshake") /\ Asks(<<0, 0, 0, 15>>)
  <2>1. Unserved /\ FrameLen = 0 /\ FrameLen' = 4
    BY <1>3 DEF Moves, Served, FrameLen
  <2>2. PICK m \in Seq(Bytes) : /\ m = <<0, 0, 0, 15>> /\ m # << >> /\ Len(m) = 4
                                /\ m[1] = 0 /\ m[2] = 0 /\ m[3] = 0 /\ m[4] = 15
    BY WordBytes
  <2>3. \A i \in 1..4 : FrameByte(0 + i)' = m[i]
    BY <1>3, <2>2 DEF FrameByte, Moves, SetupSteps10
  <2>4. FrameSent' /\ op' = "send"
    <3>1. Asks(m) /\ 0 \in Nat /\ FrameLen' = 0 + Len(m) /\ \A i \in 1..0 : FALSE
      BY <1>3, <2>1, <2>2
    <3> QED BY <1>1, <1>2, <2>1, <2>2, <2>3, <3>1, FrameGrows
  <2> QED BY <1>3, <2>4 DEF Unserved, FrameSent, Moves, SubmitSteps7, Dead
<1>4. CASE Moves("handshake", "version") /\ Asks(<<0, 0, 0, 1>>)
  <2>1. Unserved /\ FrameLen = 4 /\ FrameLen' = 8
    BY <1>4 DEF Moves, Served, FrameLen, SetupSteps10
  <2>2. PICK m \in Seq(Bytes) : /\ m = <<0, 0, 0, 1>> /\ m # << >> /\ Len(m) = 4
                                /\ m[1] = 0 /\ m[2] = 0 /\ m[3] = 0 /\ m[4] = 1
    BY WordBytes
  <2>3. /\ \A i \in 1..4 : FrameByte(i)' = FrameByte(i)
        /\ \A i \in 1..4 : FrameByte(4 + i)' = m[i]
    BY <1>4, <2>2 DEF FrameByte, Moves, SetupSteps10
  <2>4. FrameSent' /\ op' = "send"
    <3>1. Asks(m) /\ 4 \in Nat /\ FrameLen' = 4 + Len(m)
      BY <1>4, <2>1, <2>2
    <3> QED BY <1>1, <1>2, <2>1, <2>2, <2>3, <3>1, FrameGrows
  <2> QED BY <1>4, <2>4 DEF Unserved, FrameSent, Moves, SubmitSteps7, Dead
<1>5. CASE Moves("version", "server_version") /\ Awaits(4)
  <2>1. /\ Sent' = Sent /\ In' = In /\ op' = "read" /\ left' = left /\ out' = out
        /\ pc = "version" /\ pc' = "server_version"
    BY <1>5 DEF Moves, Awaits
  <2>2. CASE Unserved
    <3>1. FrameLen = 8 /\ FrameLen' = 8
      BY <2>1 DEF FrameLen, SetupSteps10
    <3>2. \A i \in 1..FrameLen : FrameByte(i)' = FrameByte(i)
      BY <2>1 DEF FrameByte, SetupSteps10
    <3> QED BY <1>1, <1>2, <2>1, <2>2, <3>1, <3>2, FrameCut
            DEF Unserved, SubmitSteps7, Dead, Done
  <2>3. CASE Served
    BY <1>1, <1>2, <2>1, <2>3 DEF Served, Answer, AnswerLeft, SubmitSteps7, Dead, Done
  <2> QED BY <2>2, <2>3
<1>6. CASE Moves("server_version", "tpm_info") /\ Awaits(4)
  <2>1. /\ Sent' = Sent /\ In' = In /\ op' = "read" /\ left' = left /\ out' = out
        /\ pc = "server_version" /\ pc' = "tpm_info"
    BY <1>6 DEF Moves, Awaits
  <2>2. Served
    BY <1>2, <2>1 DEF Unserved
  <2> QED BY <1>1, <1>2, <2>1, <2>2 DEF Served, Answer, AnswerLeft, SubmitSteps7, Dead, Done
<1>7. CASE Moves("tpm_info", "setup_ack") /\ Awaits(4)
  <2>1. /\ Sent' = Sent /\ In' = In /\ op' = "read" /\ left' = left /\ out' = out
        /\ pc = "tpm_info" /\ pc' = "setup_ack"
    BY <1>7 DEF Moves, Awaits
  <2>2. Served
    BY <1>2, <2>1 DEF Unserved
  <2> QED BY <1>1, <1>2, <2>1, <2>2 DEF Served, Answer, AnswerLeft, SubmitSteps7, Dead, Done
<1> QED BY <1>1, <1>3, <1>4, <1>5, <1>6, <1>7

(* The handshake is answered and its answer read before the power is asked *)
(* for: nothing is on the stream meanwhile.                                *)
LEMMA StreamPower ==
  ASSUME Inv, Unserved \/ Served, PowerGoesOn
  PROVE  Served'
<1>1. /\ pc \in {"setup_ack", "power_on", "power_ack", "nv_on"}
      /\ pc' \in {"power_on", "power_ack", "nv_on", "nv_ack"}
      /\ op = "idle" /\ result = OK
      /\ UNCHANGED <<Sent, In, out, left, op, result, delivered, comm, cmd, cmdBytes, resp_len,
                     response, failed, reply, peer, peerPos, executed>>
  BY PowerDoes
<1>2. Served /\ Answer
  BY <1>1 DEF Unserved, Served, Dead
<1>3. Len(In) = 0
  BY <1>1, <1>2 DEF Answer, AnswerLeft, Done
<1>4. Answer'
  BY <1>1, <1>3 DEF Answer, AnswerLeft
<1> QED BY <1>1, <1>2, <1>4 DEF Served, SubmitSteps7

(* A submit takes its next step: the next bytes of the request are on the stream. *)
LEMMA StreamSubmit ==
  ASSUME Inv, Unserved \/ Served, SubmitSteps
  PROVE  Unserved' \/ Served'
<1>1. /\ UNCHANGED <<comm, cmd, cmdBytes, resp_len, response, peerPos, executed>>
      /\ \/ Moves("send_command", "locality") /\ Asks(<< 0 >>)
         \/ Moves("locality", "length") /\ Asks(<<0, 0, 0, Len(cmdBytes)>>)
         \/ Moves("length", "bytes") /\ Asks(cmdBytes)
         \/ Moves("bytes", "resp_length") /\ Awaits(4)
  BY SubmitStepDoes
<1>2. ~Dead /\ Done /\ peerPos \in Nat /\ FrameLen \in Nat
  BY <1>1, OrderTyped, FrameTyped DEF Moves, Dead, Done
<1>3. CASE Moves("send_command", "locality") /\ Asks(<< 0 >>)
  <2>1. Unserved /\ FrameLen = 4 /\ FrameLen' = 5
    BY <1>3 DEF Moves, Served, FrameLen, SetupSteps10
  <2>2. PICK m \in Seq(Bytes) : m = << 0 >> /\ m # << >> /\ Len(m) = 1 /\ m[1] = 0
    BY WordBytes
  <2>3. /\ \A i \in 1..4 : FrameByte(i)' = FrameByte(i)
        /\ \A i \in 1..1 : FrameByte(4 + i)' = m[i]
    BY <1>3, <2>2 DEF FrameByte, Moves, SetupSteps10
  <2>4. FrameSent' /\ op' = "send"
    <3>1. Asks(m) /\ 4 \in Nat /\ FrameLen' = 4 + Len(m)
      BY <1>3, <2>1, <2>2
    <3> QED BY <1>1, <1>2, <2>1, <2>2, <2>3, <3>1, FrameGrows
  <2> QED BY <1>1, <1>3, <2>1, <2>4 DEF Unserved, FrameSent, Moves, SubmitSteps7, Dead
<1>4. CASE Moves("locality", "length") /\ Asks(<<0, 0, 0, Len(cmdBytes)>>)
  <2>1. Unserved /\ FrameLen = 5 /\ FrameLen' = 9
    BY <1>4 DEF Moves, Served, FrameLen, SetupSteps10
  <2>2. PICK d \in Bytes : d = Len(cmdBytes)
    BY BodyIs DEF Bytes
  <2>3. PICK m \in Seq(Bytes) : /\ m = <<0, 0, 0, d>> /\ m # << >> /\ Len(m) = 4
                                /\ m[1] = 0 /\ m[2] = 0 /\ m[3] = 0 /\ m[4] = d
    BY WordBytes
  <2>4. /\ \A i \in 1..5 : FrameByte(i)' = FrameByte(i)
        /\ \A i \in 1..4 : FrameByte(5 + i)' = m[i]
    BY <1>1, <1>4, <2>2, <2>3 DEF FrameByte, Moves, SetupSteps10
  <2>5. FrameSent' /\ op' = "send"
    <3>1. Asks(m) /\ 5 \in Nat /\ FrameLen' = 5 + Len(m)
      BY <1>4, <2>1, <2>2, <2>3
    <3> QED BY <1>1, <1>2, <2>1, <2>3, <2>4, <3>1, FrameGrows
  <2> QED BY <1>1, <1>4, <2>1, <2>5 DEF Unserved, FrameSent, Moves, SubmitSteps7, Dead
<1>5. CASE Moves("length", "bytes") /\ Asks(cmdBytes)
  <2>1. pc = "length" /\ pc' = "bytes"
    BY <1>5 DEF Moves
  <2>2. CASE cmdBytes = << >>
    <3>1. Sent' = Sent /\ Dead' /\ out' = out /\ left' = left
      BY <1>5, <2>2 DEF Asks, Dead, MU_FAILURE, OK
    <3>2. FrameLen = 9 /\ FrameLen' = 9
      BY <1>1, <2>1, <2>2, BodyIs DEF FrameLen, SetupSteps10
    <3>3. \A i \in 1..FrameLen : FrameByte(i)' = FrameByte(i)
      BY <1>1, <2>1 DEF FrameByte, SetupSteps10
    <3>4. CASE Unserved
      BY <1>1, <2>1, <3>1, <3>2, <3>3, <3>4, FrameCut DEF Unserved, SubmitSteps7
    <3>5. CASE Served
      BY <1>1, <2>1, <2>2, <3>1, <3>5 DEF Served, SubmitSteps7
    <3> QED BY <3>4, <3>5
  <2>3. CASE cmdBytes = <<cmd, cmd>>
    <3>1. cmdBytes # << >> /\ Len(cmdBytes) = 2 /\ cmdBytes \in Seq(Bytes)
          /\ cmdBytes[1] = cmd /\ cmdBytes[2] = cmd
      BY <2>3, BodyIs
    <3>2. Unserved /\ FrameLen = 9 /\ FrameLen' = 11
      BY <1>1, <2>1, <3>1 DEF Served, FrameLen, SetupSteps10
    <3>3. /\ \A i \in 1..9 : FrameByte(i)' = FrameByte(i)
          /\ \A i \in 1..2 : FrameByte(9 + i)' = cmdBytes[i]
      BY <1>1, <2>1, <3>1 DEF FrameByte, SetupSteps10
    <3>4. FrameSent' /\ op' = "send"
      <4>1. Asks(cmdBytes) /\ 9 \in Nat /\ FrameLen' = 9 + Len(cmdBytes)
        BY <1>5, <3>1, <3>2
      <4> QED BY <1>1, <1>2, <3>1, <3>2, <3>3, <4>1, FrameGrows
    <3> QED BY <1>1, <2>1, <3>1, <3>2, <3>4 DEF Unserved, FrameSent, SubmitSteps7, Dead
  <2> QED BY <2>2, <2>3, BodyIs
<1>6. CASE Moves("bytes", "resp_length") /\ Awaits(4)
  <2>1. /\ Sent' = Sent /\ In' = In /\ op' = "read" /\ left' = left /\ out' = out
        /\ pc = "bytes" /\ pc' = "resp_length"
    BY <1>6 DEF Moves, Awaits
  <2>2. CASE Unserved
    <3>1. FrameLen' = FrameLen
      BY <1>1, <2>1 DEF FrameLen, SetupSteps10
    <3>2. \A i \in 1..FrameLen : FrameByte(i)' = FrameByte(i)
      BY <1>1, <2>1 DEF FrameByte, SetupSteps10
    <3> QED BY <1>1, <1>2, <2>1, <2>2, <3>1, <3>2, FrameCut
            DEF Unserved, SubmitSteps7, Dead, Done
  <2>3. CASE Served
    BY <1>1, <1>2, <2>1, <2>3 DEF Served, Answer, AnswerLeft, SubmitSteps7, Dead, Done
  <2> QED BY <2>2, <2>3
<1> QED BY <1>1, <1>3, <1>4, <1>5, <1>6

(* A submit or the end of the session starts where nothing is in progress. *)
LEMMA StreamSubmitCall ==
  ASSUME Inv, OrderInv, Unserved \/ Served,
         NEW c \in Command, NEW b \in {<<c, c>>, << >>}, SubmitCall(c, b)
  PROVE  Unserved'
<1>1. /\ pc = "idle" /\ pc' = "send_command" /\ cmd' = cmd + 1
      /\ Asks(<<0, 0, 0, 8>>) /\ UNCHANGED <<peerPos, executed>>
  BY SubmitCallDoes
<1>2. Unserved /\ FrameLen = 0 /\ FrameLen' = 4
  BY <1>1 DEF Served, FrameLen, SetupSteps10
<1>3. PICK m \in Seq(Bytes) : /\ m = <<0, 0, 0, 8>> /\ m # << >> /\ Len(m) = 4
                              /\ m[1] = 0 /\ m[2] = 0 /\ m[3] = 0 /\ m[4] = 8
  BY WordBytes
<1>4. \A i \in 1..4 : FrameByte(0 + i)' = m[i]
  BY <1>1, <1>3 DEF FrameByte, SetupSteps10
<1>5. FrameSent' /\ op' = "send"
  <2>1. Asks(m) /\ 0 \in Nat /\ FrameLen' = 0 + Len(m) /\ \A i \in 1..0 : FALSE
    BY <1>1, <1>2, <1>3
  <2> QED BY <1>1, <1>2, <1>3, <1>4, <2>1, FrameGrows
<1>6. \A i \in 1..Len(executed') : executed'[i] # cmd'
  <2>1. \A i \in 1..Len(executed) : executed[i] \in 1..cmd
    BY <1>1 DEF OrderInv, InOrder, Top
  <2>2. cmd \in Nat
    BY OrderTyped
  <2> QED BY <1>1, <2>1, <2>2
<1> QED BY <1>1, <1>5, <1>6 DEF Unserved, FrameSent, SubmitSteps7, Dead

(* A destroy begins only where no request is on its way.                   *)
LEMMA StreamDestroyCall ==
  ASSUME Inv, Unserved \/ Served, DestroyCall
  PROVE  Unserved'
<1>1. /\ pc = "idle" /\ pc' = "session_end" /\ Asks(<<0, 0, 0, 20>>)
      /\ UNCHANGED <<peerPos, executed>>
  BY DestroyCallDoes
<1>2. Unserved /\ FrameLen = 0 /\ FrameLen' = 4
  BY <1>1 DEF Served, FrameLen, SetupSteps10
<1>3. PICK m \in Seq(Bytes) : /\ m = <<0, 0, 0, 20>> /\ m # << >> /\ Len(m) = 4
                              /\ m[1] = 0 /\ m[2] = 0 /\ m[3] = 0 /\ m[4] = 20
  BY WordBytes
<1>4. \A i \in 1..4 : FrameByte(0 + i)' = m[i]
  BY <1>1, <1>3 DEF FrameByte, SetupSteps10
<1>5. FrameSent' /\ op' = "send"
  <2>1. Asks(m) /\ 0 \in Nat /\ FrameLen' = 0 + Len(m) /\ \A i \in 1..0 : FALSE
    BY <1>1, <1>2, <1>3
  <2> QED BY <1>1, <1>2, <1>3, <1>4, <2>1, FrameGrows
<1> QED BY <1>1, <1>5 DEF Unserved, FrameSent, SubmitSteps7, Dead

(* The length of a response becomes *resp_len, and its bytes the caller's. *)
LEMMA StreamSubmitReads ==
  ASSUME Inv, Unserved \/ Served, SubmitReadsResponse \/ SubmitReadsAck
  PROVE  Unserved' \/ Served'
<1>1. /\ UNCHANGED <<comm, cmd, cmdBytes, peerPos, executed>>
      /\ \/ /\ Moves("resp_length", "response") /\ WordRead \in Nat /\ Awaits(WordRead)
            /\ resp_len' = WordRead
         \/ Moves("response", "ack") /\ Awaits(4) /\ response' = LastRead(resp_len)
  BY SubmitReadsDo
<1>2. ~Dead /\ Done /\ pc \in {"resp_length", "response"}
  BY <1>1 DEF Moves, Dead, Done
<1>3. Served /\ Answer
  BY <1>2 DEF Unserved, Served
<1>4. CASE /\ Moves("resp_length", "response") /\ WordRead \in Nat /\ Awaits(WordRead)
           /\ resp_len' = WordRead
  <2>1. /\ pc = "resp_length" /\ pc' = "response"
        /\ Sent' = Sent /\ In' = In /\ left' = left /\ out' = out
        /\ WordRead = 0 => op' = "idle" /\ result' = MU_FAILURE
        /\ WordRead # 0 => op' = "read"
    BY <1>4 DEF Moves, Awaits
  <2>2. /\ cmdBytes # << >> /\ Len(In) >= 4 /\ WordRead = Len(In) - 4
        /\ \A i \in 1..Len(In) - 4 : In[i] = cmd
    BY <1>2, <1>3, <2>1 DEF Answer
  <2>3. CASE WordRead = 0
    <3>1. Dead'
      BY <2>1, <2>3 DEF Dead, MU_FAILURE, OK
    <3> QED BY <1>1, <1>3, <2>1, <3>1 DEF Served, SubmitSteps7
  <2>4. CASE WordRead # 0
    <3>1. ~Done' /\ Len(In') = resp_len' + 4 /\ \A i \in 1..resp_len' : In'[i] = cmd'
      <4>1. Len(In) = WordRead + 4
        BY <2>2, <1>4, FrameTyped
      <4> QED BY <1>1, <1>4, <2>1, <2>2, <2>4, <4>1 DEF Done
    <3>2. Answer'
      BY <1>1, <2>1, <2>2, <3>1 DEF Answer, AnswerLeft
    <3> QED BY <1>1, <1>3, <2>1, <3>2 DEF Served, SubmitSteps7
  <2> QED BY <2>3, <2>4
<1>5. CASE Moves("response", "ack") /\ Awaits(4) /\ response' = LastRead(resp_len)
  <2>1. /\ pc = "response" /\ pc' = "ack" /\ op' = "read"
        /\ Sent' = Sent /\ In' = In /\ left' = left /\ out' = out
    BY <1>5 DEF Moves, Awaits
  <2>2. /\ cmdBytes # << >> /\ Len(In) = 4
        /\ \A i \in 1..resp_len : delivered[Len(delivered) - resp_len + i] = cmd
    BY <1>2, <1>3, <2>1 DEF Answer, AnswerLeft
  <2>3. resp_len \in Nat \ {0} /\ resp_len <= Len(delivered) /\ delivered \in Seq(Bytes)
    <3>1. Len(delivered) >= ReadSize /\ ReadSize > 0 /\ ReadSize = resp_len
      BY <1>5, <2>1 DEF Inv, ControlInv, ReadSteps, ReadSize, Moves
    <3>2. resp_len \in Nat /\ delivered \in Seq(Bytes)
      BY SimAssumption DEF Inv, Typed, TypeOK, Sock!TypeOK, Bytes
    <3>3. Len(delivered) \in Nat
      BY <3>2, LenProperties
    <3> QED BY <3>1, <3>2, <3>3
  <2>4. Len(response') = resp_len /\ \A i \in 1..resp_len : response'[i] = cmd
    <3>1. Len(delivered) - resp_len + 1 \in Nat \ {0} /\ Len(delivered) \in Nat
      BY <2>3, LenProperties
    <3>2. PICK m \in Nat \ {0} : m = Len(delivered) - resp_len + 1
      BY <3>1
    <3>3. /\ Len(delivered) - m + 1 = resp_len /\ m <= Len(delivered)
      BY <2>3, <3>1, <3>2
    <3>4. response' = SubSeq(delivered, m, Len(delivered))
      BY <1>5, <3>2 DEF LastRead
    <3>5. /\ Len(SubSeq(delivered, m, Len(delivered))) = Len(delivered) - m + 1
          /\ \A i \in 1..Len(delivered) - m + 1 :
               SubSeq(delivered, m, Len(delivered))[i] = delivered[m + i - 1]
      BY <2>3, <3>1, <3>3, PartIs
    <3>6. ASSUME NEW i \in 1..resp_len PROVE response'[i] = cmd
      <4>1. m + i - 1 = Len(delivered) - resp_len + i
        BY <2>3, <3>1, <3>2
      <4>2. response'[i] = delivered[m + i - 1]
        BY <3>3, <3>4, <3>5
      <4> QED BY <2>2, <4>1, <4>2
    <3> QED BY <3>3, <3>4, <3>5, <3>6
  <2>5. response' # << >>
    BY <2>3, <2>4
  <2>6. Answer'
    BY <1>1, <2>1, <2>2, <2>4, <2>5 DEF Answer, AnswerLeft, Done
  <2> QED BY <1>1, <1>3, <2>1, <2>6 DEF Served, SubmitSteps7
<1> QED BY <1>1, <1>4, <1>5

(* A call that works has read the whole answer; after one that fails       *)
(* nothing is claimed.                                                     *)
LEMMA StreamReturn ==
  ASSUME Inv, StreamInv, SetupPowers \/ Abandons \/ SubmitOk \/ SubmitFails \/ DestroyCloses
  PROVE  StreamInv'
<1> SUFFICES ASSUME Live' PROVE Unserved' \/ Served'
  BY DEF StreamInv
<1>1. /\ pc # "idle" /\ pc' = "idle" /\ op = "idle" /\ op' = "idle"
      /\ Sent' = Sent /\ UNCHANGED <<cmd, cmdBytes, peerPos, executed>>
  BY ReturnDoes
<1>2. comm' = "open" /\ failed' = FALSE
  BY <1>1 DEF Live, Inv, Typed, TypeOK
<1>3. ~Abandons /\ ~DestroyCloses /\ ~SubmitFails
  BY <1>2, ReturnDoes
<1>4. /\ pc \in {"nv_ack", "ack"} /\ In' = In /\ result = OK /\ failed' = failed
  BY <1>3, ReturnDoes
<1>5. Live
  BY <1>1, <1>2, <1>4 DEF Live
<1>6. Served /\ Answer
  BY <1>1, <1>4, <1>5 DEF StreamInv, Unserved, Served, Dead
<1>7. Len(In) = 0
  BY <1>1, <1>4, <1>6 DEF Answer, AnswerLeft, Done
<1>8. In = << >>
  <2>1. In \in Seq(Bytes)
    BY FrameTyped
  <2> QED BY <1>7, <2>1, EmptySeq
<1>9. Len(Sent) - peerPos = 0
  <2>1. peerPos = Len(out) /\ left = << >>
    BY <1>6 DEF Served
  <2> QED BY <2>1, Streams
<1>10. FrameLen' = 0 /\ \A i \in 1..0 : FALSE
  BY <1>1 DEF FrameLen
<1>11. Unserved'
  BY <1>1, <1>4, <1>8, <1>9, <1>10 DEF Unserved, SubmitSteps7
<1> QED BY <1>11

(* A connection is made, whose streams are empty, or none is.              *)
LEMMA StreamCreate ==
  ASSUME Inv, StreamInv, Create
  PROVE  StreamInv'
<1>1. /\ UNCHANGED <<comm, cmd, cmdBytes, executed>> /\ comm = "null" /\ pc = "idle"
      /\ \/ /\ pc' = "connect" /\ Sent' = << >> /\ out' = << >> /\ left' = << >> /\ In' = << >>
            /\ peerPos' = 0 /\ op' = "idle" /\ result' = OK
         \/ UNCHANGED <<pc, failed>>
  BY CreateDoesAll
<1>2. CASE /\ pc' = "connect" /\ Sent' = << >> /\ out' = << >> /\ left' = << >> /\ In' = << >>
           /\ peerPos' = 0 /\ op' = "idle" /\ result' = OK
  <2>1. FrameLen' = 0 /\ (\A i \in 1..0 : FALSE) /\ Len(<< >>) = 0
    BY <1>2 DEF FrameLen
  <2>2. Unserved'
    BY <1>2, <2>1 DEF Unserved, SubmitSteps7
  <2> QED BY <2>2 DEF StreamInv
<1>3. CASE UNCHANGED <<pc, failed>>
  <2>1. ~Live'
    BY <1>1, <1>3 DEF Live
  <2> QED BY <2>1 DEF StreamInv
<1> QED BY <1>1, <1>2, <1>3

(* A read of n bytes that worked: they are at the end of what was          *)
(* delivered, and the rest of the stream moves up.                         *)
ReadIs(n) ==
  /\ n \in Nat /\ n <= Len(In) /\ Len(In') = Len(In) - n
  /\ \A i \in 1..Len(In) - n : In'[i] = In[n + i]
  /\ Len(delivered') \in Nat /\ Len(delivered') >= n
  /\ \A i \in 1..n : delivered'[Len(delivered') - n + i] = In[i]

(* What a read takes is the front of what the simulator sent.              *)
LEMMA WhatWasRead ==
  ASSUME Inv, NEW n \in 0..Len(In), In' = Sock!Drop(In, n),
         delivered' = delivered \o Sock!Take(In, n)
  PROVE  ReadIs(n)
<1>1. In \in Seq(Bytes) /\ Len(In) \in Nat /\ delivered \in Seq(Bytes) /\ n \in Nat
  <2>1. In \in Seq(Bytes) /\ Len(In) \in Nat
    BY FrameTyped
  <2>2. delivered \in Seq(Bytes)
    BY DEF Inv, Typed, TypeOK, Sock!TypeOK, Bytes
  <2> QED BY <2>1, <2>2
<1>2. /\ Sock!Take(In, n) \in Seq(Bytes) /\ Len(Sock!Take(In, n)) = n
      /\ Len(Sock!Drop(In, n)) = Len(In) - n
      /\ \A i \in 1..n : Sock!Take(In, n)[i] = In[i]
      /\ \A i \in 1..Len(In) - n : Sock!Drop(In, n)[i] = In[n + i]
  BY <1>1, TakeDrop
<1>3. PICK t \in Seq(Bytes) : t = Sock!Take(In, n)
  BY <1>2
<1>4. /\ Len(delivered \o t) = Len(delivered) + Len(t) /\ Len(delivered) \in Nat
      /\ \A i \in Len(delivered) + 1..Len(delivered) + Len(t) :
           (delivered \o t)[i] = t[i - Len(delivered)]
  BY <1>1, <1>3, JoinIs
<1>5. PICK d : d = delivered \o t
  OBVIOUS
<1>6. Len(t) = n /\ Len(d) = Len(delivered) + n
  BY <1>2, <1>3, <1>4, <1>5
<1>7. ASSUME NEW i \in 1..n PROVE d[Len(d) - n + i] = In[i]
  <2>1. PICK k \in Nat : k = Len(d) - n + i /\ k = Len(delivered) + i
    BY <1>1, <1>4, <1>6
  <2>2. k \in Len(delivered) + 1..Len(delivered) + Len(t) /\ k - Len(delivered) = i
    BY <1>4, <1>6, <2>1
  <2>3. d[k] = t[i]
    BY <1>4, <1>5, <2>2
  <2> QED BY <1>2, <1>3, <2>1, <2>3
<1>8. d = delivered'
  BY <1>3, <1>5
<1>9. n <= Len(In) /\ Len(d) \in Nat /\ Len(d) >= n
  BY <1>1, <1>4, <1>6
<1>10. Len(In') = Len(In) - n /\ \A i \in 1..Len(In) - n : In'[i] = In[n + i]
  BY <1>2, Zenon
<1>11. \A i \in 1..n : delivered'[Len(delivered') - n + i] = In[i]
  BY <1>7, <1>8, Zenon
<1> QED BY <1>1, <1>8, <1>9, <1>10, <1>11, Zenon DEF ReadIs

(* The read of each step takes what AnswerLeft says.                       *)
LEMMA AnswerRead ==
  ASSUME Inv, Inv', Answer, ReadIs(ReadSize), pc \in ReadSteps, op = "read", op' = "idle",
         UNCHANGED <<pc, cmd, cmdBytes, resp_len, response>>
  PROVE  Answer'
<1>1. ~Done /\ Done'
  BY DEF Done
<1>2. CASE pc \in {"server_version", "tpm_info", "setup_ack", "ack"}
  <2>1. ReadSize = 4
    BY <1>2 DEF ReadSize, WordLen
  <2>2. Len(In') = Len(In) - 4
    BY <2>1 DEF ReadIs
  <2> QED BY <1>1, <1>2, <2>2 DEF Answer, AnswerLeft
<1>3. CASE pc = "resp_length"
  <2>1. ReadSize = 4
    BY <1>3 DEF ReadSize, WordLen
  <2>2. /\ Len(In') = Len(In) - 4 /\ \A i \in 1..Len(In) - 4 : In'[i] = In[4 + i]
        /\ Len(delivered') \in Nat /\ Len(delivered') >= 4
        /\ \A i \in 1..4 : delivered'[Len(delivered') - 4 + i] = In[i]
    BY <2>1 DEF ReadIs
  <2>3. /\ cmdBytes # << >> /\ Len(In) >= 8 /\ Value(In) = Len(In) - 8
        /\ \A i \in 5..Len(In) - 4 : In[i] = cmd
    BY <1>1, <1>3 DEF Answer
  <2>4. Len(In) \in Nat
    BY FrameTyped
  <2>5. WordRead' = Value(In)
    <3>1. PICK d \in Seq(Bytes) : d = delivered' /\ Len(d) >= 4 /\ Len(d) \in Nat
      <4>1. delivered' \in Seq(Bytes)
        BY DEF Inv, Typed, TypeOK, Sock!TypeOK, Bytes
      <4> QED BY <2>2, <4>1
    <3>2. PICK m \in Nat \ {0} : m = Len(d) - 4 + 1 /\ Len(d) - m + 1 = 4
      <4>1. PICK m : m = Len(d) - 4 + 1
        OBVIOUS
      <4>2. m \in Nat \ {0} /\ Len(d) - m + 1 = 4
        BY <3>1, <4>1
      <4> QED BY <4>1, <4>2
    <3>3. PICK w : w = SubSeq(d, m, Len(d))
      OBVIOUS
    <3>4. \A i \in 1..4 : w[i] = d[m + i - 1]
      BY <3>1, <3>2, <3>3, PartIs
    <3>5. \A i \in 1..4 : w[i] = In[i]
      <4>1. \A i \in 1..4 : m + i - 1 = Len(d) - 4 + i
        BY <3>1, <3>2
      <4> QED BY <2>2, <3>1, <3>4, <4>1
    <3>6. WordRead' = Value(w)
      BY <3>1, <3>2, <3>3 DEF WordRead, LastRead, WordLen
    <3>7. w[1] = In[1] /\ w[2] = In[2] /\ w[3] = In[3] /\ w[4] = In[4]
      BY <3>5
    <3> QED BY <3>6, <3>7 DEF Value
  <2>6. /\ Len(In') >= 4 /\ WordRead' = Len(In') - 4
        /\ \A i \in 1..Len(In') - 4 : In'[i] = cmd
    <3>1. Len(In') >= 4 /\ WordRead' = Len(In') - 4
      BY <2>2, <2>3, <2>4, <2>5
    <3>2. ASSUME NEW i \in 1..Len(In') - 4 PROVE In'[i] = cmd
      <4>1. i \in 1..Len(In) - 4 /\ 4 + i \in 5..Len(In) - 4
        BY <2>2, <2>4
      <4> QED BY <2>2, <2>3, <4>1
    <3> QED BY <3>1, <3>2
  <2> QED BY <1>1, <1>3, <2>3, <2>6 DEF Answer
<1>4. CASE pc = "response"
  <2>1. ReadSize = resp_len
    BY <1>4 DEF ReadSize
  <2>2. /\ resp_len \in Nat /\ Len(In') = Len(In) - resp_len
        /\ \A i \in 1..resp_len : delivered'[Len(delivered') - resp_len + i] = In[i]
    BY <2>1 DEF ReadIs
  <2>3. /\ cmdBytes # << >> /\ Len(In) = resp_len + 4
        /\ \A i \in 1..resp_len : In[i] = cmd
    BY <1>1, <1>4 DEF Answer, AnswerLeft
  <2>4. Len(In') = 4
    BY <2>2, <2>3
  <2> QED BY <1>1, <1>4, <2>2, <2>3, <2>4 DEF Answer, AnswerLeft
<1> QED BY <1>2, <1>3, <1>4 DEF ReadSteps

(* The socket: cutting a call into pieces moves bytes within the streams,  *)
(* and a read that works takes the next word or the response of the answer.*)
LEMMA StreamSocket ==
  ASSUME Inv, Inv', Unserved \/ Served, Socket
  PROVE  Unserved' \/ Served'
<1>1. UNCHANGED <<comm, pc, cmd, cmdBytes, resp_len, response, peerPos, executed>>
  BY SocketDoes DEF others
<1>2. /\ FrameLen' = FrameLen
      /\ \A i \in 1..FrameLen : FrameByte(i)' = FrameByte(i)
  BY <1>1 DEF FrameLen, FrameByte
<1>3. \/ (SendGoesOn \/ SendFails \/ SendWorks) /\ In' = In /\ delivered' = delivered
      \/ (ReadGoesOn \/ ReadFails \/ ReadWorks) /\ Sent' = Sent /\ out' = out /\ left' = left
  BY SocketDoes
<1>4. /\ op = "send" => pc \in SendSteps
      /\ op = "read" => pc \in ReadSteps /\ bytes_len = ReadSize /\ ReadSize > 0
  BY DEF Inv, ControlInv
<1>5. CASE (SendGoesOn \/ SendFails \/ SendWorks) /\ In' = In /\ delivered' = delivered
  <2>1. op = "send" /\ ~Dead /\ ~Done /\ pc \in SendSteps /\ pc # "idle"
    BY <1>4, <1>5 DEF SendGoesOn, SendFails, SendWorks, Dead, Done, SendSteps
  <2>2. /\ SendGoesOn => op' = "send" /\ Sent' = Sent
        /\ SendWorks => op' = "idle" /\ result' = OK /\ Sent' = Sent
        /\ SendFails => op' = "idle" /\ result' = MU_FAILURE /\ Sent' = out
    <3>1. SendGoesOn => op' = "send" /\ Sent' = Sent
      BY DEF SendGoesOn
    <3>2. SendWorks => op' = "idle" /\ result' = OK /\ Sent' = Sent
      BY Zenon DEF SendWorks, Sent
    <3>3. SendFails => op' = "idle" /\ result' = MU_FAILURE /\ Sent' = out
      <4>1. out \o << >> = out
        BY OrderTyped, ConcatEmptySeq
      <4> QED BY <4>1, Zenon DEF SendFails, Sent
    <3> QED BY <3>1, <3>2, <3>3
  <2>3. Dead' \/ Sent' = Sent
    BY <1>5, <2>2 DEF Dead, OK, MU_FAILURE
  <2>4. Sent' = Sent \/ Sent' = out
    BY <1>5, <2>2
  <2>5. CASE Unserved
    <3>1. /\ Len(Sent') - peerPos' <= FrameLen'
          /\ \A i \in 1..FrameLen' : peerPos' + i <= Len(Sent')
               => Sent'[peerPos' + i] = FrameByte(i)'
      BY <1>1, <1>2, <2>4, <2>5, FrameCut
    <3>2. ~Dead' => Len(Sent') - peerPos' = FrameLen' /\ In' = << >>
      BY <1>1, <1>2, <1>5, <2>1, <2>3, <2>5 DEF Unserved
    <3>3. pc' # "idle"
      BY <1>1, <2>1
    <3>4. pc' \notin {"tpm_info", "setup_ack", "response", "ack", "server_version", "resp_length",
                      "power_on", "power_ack", "nv_on", "nv_ack"}
      BY <1>1, <2>1 DEF SendSteps
    <3>5. pc' \in {"bytes", "resp_length"} /\ cmdBytes' = << >> => Dead'
      BY <1>1, <2>1, <2>5 DEF Unserved
    <3>6. pc' \in SubmitSteps7 => \A i \in 1..Len(executed') : executed'[i] # cmd'
      BY <1>1, <2>5 DEF Unserved
    <3> QED BY <3>1, <3>2, <3>3, <3>4, <3>5, <3>6 DEF Unserved
  <2>6. CASE Served
    <3>1. peerPos' = Len(out') /\ left' = << >>
      <4>1. peerPos = Len(out) /\ left = << >> /\ Sent = out
        BY <2>6, Streams DEF Served
      <4>2. CASE SendGoesOn
        <5>1. out' \in Seq(Bytes) /\ left' \in Seq(Bytes)
          BY DEF Inv, Typed, TypeOK, Sock!TypeOK, Bytes
        <5>2. Len(Sent') = Len(out') + Len(left') /\ Len(out') \in Nat /\ Len(left') \in Nat
          BY <5>1, JoinIs DEF Sent
        <5>3. Len(out) <= Len(out') /\ Sent' = Sent
          BY <4>2 DEF SendGoesOn
        <5>4. Len(left') = 0 /\ Len(out') = Len(out)
          BY <4>1, <5>2, <5>3, OrderTyped
        <5>5. left' = << >>
          BY <5>1, <5>4, EmptySeq
        <5> QED BY <1>1, <4>1, <5>4, <5>5
      <4>3. CASE SendFails \/ SendWorks
        <5>1. out' = out /\ left' = << >>
          BY <4>3 DEF SendFails, SendWorks
        <5> QED BY <1>1, <4>1, <5>1
      <4> QED BY <1>5, <4>2, <4>3
    <3>2. ~Dead' => Answer'
      <4> SUFFICES ASSUME ~Dead' PROVE Answer'
        OBVIOUS
      <4>1. Answer /\ pc \in {"version", "length", "bytes"}
        BY <2>1, <2>6 DEF Served, SendSteps
      <4>2. pc' = pc /\ In' = In /\ cmdBytes' = cmdBytes /\ cmd' = cmd
        BY <1>1, <1>5
      <4> QED BY <4>1, <4>2 DEF Answer, AnswerLeft
    <3> QED BY <1>1, <2>6, <3>1, <3>2 DEF Served
  <2> QED BY <2>5, <2>6
<1>6. CASE (ReadGoesOn \/ ReadFails \/ ReadWorks) /\ Sent' = Sent /\ out' = out /\ left' = left
  <2>1. op = "read" /\ ~Dead /\ ~Done /\ pc \in ReadSteps /\ pc # "idle"
    BY <1>4, <1>6 DEF ReadGoesOn, ReadFails, ReadWorks, Dead, Done, ReadSteps
  <2>2. CASE ReadGoesOn
    <3>1. op' = op /\ In' = In /\ delivered' = delivered /\ result' = result
      BY <2>2 DEF ReadGoesOn
    <3>2. CASE Unserved
      BY <1>1, <1>2, <1>6, <3>1, <3>2 DEF Unserved, Dead, Done
    <3>3. CASE Served
      <4>1. WordRead' = WordRead
        BY <3>1 DEF WordRead, LastRead, WordLen
      <4>2. Answer
        BY <2>1, <3>3 DEF Served
      <4>3. Answer'
        BY <1>1, <3>1, <4>1, <4>2 DEF Answer, AnswerLeft, Done
      <4> QED BY <1>1, <1>6, <3>3, <4>3 DEF Served
    <3> QED BY <3>2, <3>3
  <2>3. CASE ReadFails
    <3>1. Dead'
      BY <2>3 DEF ReadFails, Dead, OK, MU_FAILURE
    <3>2. CASE Unserved
      BY <1>1, <1>2, <1>6, <2>1, <3>1, <3>2 DEF Unserved
    <3>3. CASE Served
      BY <1>1, <1>6, <3>1, <3>3 DEF Served
    <3> QED BY <3>2, <3>3
  <2>4. CASE ReadWorks
    <3>1. /\ bytes_len \in 0..Len(In) /\ In' = Sock!Drop(In, bytes_len) /\ op' = "idle"
          /\ delivered' = delivered \o Sock!Take(In, bytes_len) /\ result' = OK
      BY <2>4 DEF ReadWorks
    <3>2. bytes_len = ReadSize /\ ReadSize > 0
      BY <1>4, <2>1
    <3>3. ~Unserved
      <4> SUFFICES ASSUME Unserved PROVE FALSE
        OBVIOUS
      <4>1. Len(In) = 0
        BY <2>1 DEF Unserved
      <4> QED BY <3>1, <3>2, <4>1
    <3>4. Served /\ Answer
      BY <2>1, <3>3 DEF Served
    <3>5. ReadIs(ReadSize)
      BY <3>1, <3>2, WhatWasRead
    <3>6. Answer'
      BY <1>1, <2>1, <3>1, <3>4, <3>5, AnswerRead
    <3> QED BY <1>1, <1>6, <3>4, <3>6 DEF Served
  <2> QED BY <2>2, <2>3, <2>4, <1>6
<1> QED BY <1>3, <1>5, <1>6

(* What the simulator finds is the request in progress.                    *)
LEMMA PendingIsFrame ==
  ASSUME Inv, Unserved \/ Served, Len(Pending) >= 1
  PROVE  /\ Unserved /\ Len(Pending) \in Nat /\ Len(Pending) <= FrameLen
         /\ \A i \in 1..Len(Pending) : Pending[i] = FrameByte(i)
         /\ Len(Pending) = FrameLen => left = << >> /\ peerPos + FrameLen = Len(out)
<1>1. /\ Pending \in Seq(Bytes) /\ Len(Pending) = Len(out) - peerPos
      /\ Len(out) \in Nat /\ peerPos \in Nat /\ peerPos <= Len(out)
      /\ \A i \in 1..Len(Pending) : Pending[i] = out[peerPos + i]
  BY PendingIs DEF Inv
<1>2. /\ Len(Sent) \in Nat /\ Len(out) <= Len(Sent) /\ FrameLen \in Nat
      /\ \A q \in 1..Len(out) : Sent[q] = out[q]
      /\ left \in Seq(Bytes) /\ Len(left) \in Nat /\ Len(Sent) = Len(out) + Len(left)
  BY OrderTyped, FrameTyped
<1>3. Unserved
  BY <1>1 DEF Served
<1>4. Len(Sent) - peerPos <= FrameLen
  BY <1>3 DEF Unserved
<1>5. Len(Pending) \in Nat /\ Len(Pending) <= FrameLen
  BY <1>1, <1>2, <1>4
<1>6. ASSUME NEW i \in 1..Len(Pending) PROVE Pending[i] = FrameByte(i)
  <2>1. i \in 1..FrameLen /\ peerPos + i <= Len(Sent) /\ peerPos + i \in 1..Len(out)
    BY <1>1, <1>2, <1>5
  <2>2. Sent[peerPos + i] = FrameByte(i)
    BY <1>3, <2>1 DEF Unserved
  <2> QED BY <1>1, <1>2, <2>1, <2>2
<1>7. ASSUME Len(Pending) = FrameLen PROVE left = << >> /\ peerPos + FrameLen = Len(out)
  <2>1. PICK f \in Nat, l \in Nat, o \in Nat : f = FrameLen /\ l = Len(left) /\ o = Len(out)
    BY <1>1, <1>2
  <2>2. Len(out) - peerPos = FrameLen /\ Len(Sent) = Len(out) + Len(left) /\ peerPos \in Nat
    BY <1>1, <1>2, <1>7, Zenon
  <2>3. o - peerPos = f /\ o + l - peerPos <= f
    BY <1>4, <2>1, <2>2
  <2>4. l = 0 /\ peerPos + f = o
    BY <2>1, <2>2, <2>3
  <2>5. Len(left) = 0 /\ peerPos + FrameLen = Len(out)
    BY <2>1, <2>4
  <2> QED BY <1>2, <2>5, EmptySeq
<1> QED BY <1>3, <1>5, <1>6, <1>7

(* The host has the socket unless a call has failed.                       *)
LEMMA AliveIsOpen ==
  ASSUME Inv, pc # "idle", ~Dead
  PROVE  handle = "open"
BY DEF Inv, HandleInv, Typed, TypeOK, Sock!TypeOK, Dead, OK, MU_FAILURE

(* An answer is put where nothing is.                                      *)
LEMMA AnswerArrives ==
  ASSUME NEW s \in Seq(Bytes), In = << >>, In' = In \o s
  PROVE  In' = s
BY ConcatEmptySeq

(* The simulator answers the handshake in progress.                        *)
LEMMA StreamHandshake ==
  ASSUME Inv, Unserved \/ Served, SimHandshake
  PROVE  Served'
<1>1. /\ SimSame /\ executed' = executed /\ HandshakeReady /\ peerPos' = peerPos + 8
      /\ handle = "open" => \E s \in Seq(Bytes) : Len(s) = 12 /\ In' = In \o s
  BY HandshakeDoes
<1>2. 8 <= Len(Pending) /\ Pending[4] = 15
  BY <1>1, HandshakeIs DEF Inv
<1>3. /\ Unserved /\ Len(Pending) \in Nat /\ Len(Pending) <= FrameLen
      /\ \A i \in 1..Len(Pending) : Pending[i] = FrameByte(i)
      /\ Len(Pending) = FrameLen => left = << >> /\ peerPos + FrameLen = Len(out)
  <2>1. Len(Pending) \in Nat
    BY PendingIs, LenProperties DEF Inv
  <2>2. Len(Pending) >= 1
    BY <1>2, <2>1
  <2> QED BY <2>2, PendingIsFrame
<1>4. FrameByte(4) = 15 /\ FrameLen >= 8
  <2>1. FrameLen \in Nat
    BY FrameTyped
  <2> QED BY <1>2, <1>3, <2>1
<1>5. pc \in {"version", "server_version"} /\ FrameLen = 8
  <2>1. pc \in {"idle", "session_end"} \cup SubmitSteps7 \cup SetupSteps10
    BY FrameTyped
  <2>2. pc \notin SubmitSteps7 /\ pc # "session_end" /\ pc # "idle"
    BY <1>4 DEF FrameByte, SetupSteps10, SubmitSteps7, FrameLen
  <2>3. pc \notin {"connect", "handshake"}
    BY <1>4 DEF FrameLen
  <2> QED BY <1>3, <2>1, <2>2, <2>3 DEF Unserved, SetupSteps10, FrameLen
<1>6. left = << >> /\ peerPos' = Len(out)
  <2>1. Len(Pending) = 8
    <3>1. PICK k \in Nat : k = Len(Pending) /\ 8 <= k /\ k <= 8
      BY <1>2, <1>3, <1>5
    <3> QED BY <3>1
  <2> QED BY <1>1, <1>3, <1>5, <2>1
<1>7. ~Dead => Len(In') = 12 /\ (pc = "server_version" => ~Done)
  <2> SUFFICES ASSUME ~Dead PROVE Len(In') = 12 /\ (pc = "server_version" => ~Done)
    OBVIOUS
  <2>1. In = << >> /\ handle = "open"
    BY <1>3, <1>5, AliveIsOpen DEF Unserved
  <2>2. Len(In') = 12
    BY <1>1, <2>1, AnswerArrives
  <2> QED BY <1>3, <2>2 DEF Unserved
<1>8. ~Dead' => Answer'
  <2>1. pc' = pc /\ Dead' = Dead /\ Done' = Done
    BY <1>1 DEF SimSame, Dead, Done
  <2> QED BY <1>5, <1>7, <2>1 DEF Answer, AnswerLeft
<1> QED BY <1>1, <1>5, <1>6, <1>8 DEF Served, SimSame, SubmitSteps7

(* The command the simulator runs is the one in progress, which has not    *)
(* run.                                                                    *)
LEMMA CommandRuns ==
  ASSUME Inv, Unserved \/ Served, NEW n \in RespSize, SimCommand(n)
  PROVE  /\ Unserved /\ pc \in {"length", "bytes", "resp_length"} /\ SimSame
         /\ left = << >> /\ peerPos' = Len(out)
         /\ pc = "length" => cmdBytes = << >>
         /\ cmdBytes = << >> => executed' = executed
         /\ cmdBytes # << >> => executed' = Append(executed, cmd)
         /\ ~Dead /\ cmdBytes # << >> => ReplyTo(In', n, cmd)
<1>1. SimSame /\ CommandReady /\ peerPos' = peerPos + 9 + CommandLen
  BY CommandDoes
<1>2. PICK c \in Bytes :
        /\ c = IF CommandLen = 0 THEN 0 ELSE Pending[10]
        /\ executed' = IF c = 0 THEN executed ELSE Append(executed, c)
        /\ handle = "open" => \E s : ReplyTo(s, n, c) /\ In' = In \o s
  BY CommandDoes
<1>3. /\ CommandLen \in Nat /\ 9 + CommandLen <= Len(Pending) /\ Pending[4] = 8
      /\ CommandLen = Value(<<Pending[6], Pending[7], Pending[8], Pending[9]>>)
  BY <1>1, CommandIs DEF Inv
<1>4. /\ Unserved /\ Len(Pending) \in Nat /\ Len(Pending) <= FrameLen
      /\ \A i \in 1..Len(Pending) : Pending[i] = FrameByte(i)
      /\ Len(Pending) = FrameLen => left = << >> /\ peerPos + FrameLen = Len(out)
  <2>1. Len(Pending) \in Nat
    BY PendingIs, LenProperties DEF Inv
  <2>2. Len(Pending) >= 1
    BY <1>3, <2>1
  <2> QED BY <2>2, PendingIsFrame
<1>5. /\ FrameByte(6) = Pending[6] /\ FrameByte(7) = Pending[7] /\ FrameByte(8) = Pending[8]
      /\ FrameByte(9) = Pending[9] /\ FrameLen >= 9 /\ FrameLen \in Nat
      /\ CommandLen # 0 => FrameByte(10) = Pending[10]
  <2>1. FrameLen \in Nat
    BY FrameTyped
  <2>2. 6 \in 1..Len(Pending) /\ 7 \in 1..Len(Pending) /\ 8 \in 1..Len(Pending)
        /\ 9 \in 1..Len(Pending) /\ FrameLen >= 9
    BY <1>3, <1>4, <2>1
  <2>3. CommandLen # 0 => 10 \in 1..Len(Pending)
    BY <1>3, <1>4
  <2> QED BY <1>4, <2>1, <2>2, <2>3
<1>6. pc \in {"length", "bytes", "resp_length"}
  <2>1. pc \in {"idle", "session_end"} \cup SubmitSteps7 \cup SetupSteps10
    BY FrameTyped
  <2>2. pc \notin SetupSteps10 /\ pc \notin {"idle", "session_end", "send_command", "locality"}
    BY <1>5 DEF FrameLen, SetupSteps10
  <2> QED BY <1>4, <2>1, <2>2 DEF Unserved, SubmitSteps7
<1>7. CommandLen = Len(cmdBytes)
  <2>1. FrameByte(6) = 0 /\ FrameByte(7) = 0 /\ FrameByte(8) = 0 /\ FrameByte(9) = Len(cmdBytes)
    BY <1>6 DEF FrameByte, SetupSteps10
  <2>2. CommandLen = Value(<<0, 0, 0, Len(cmdBytes)>>)
    BY <1>3, <1>5, <2>1
  <2>3. PICK k \in 0..2 : k = Len(cmdBytes)
    BY BodyIs
  <2>4. Value(<<0, 0, 0, k>>) = k
    BY SMT DEF Value
  <2> QED BY <2>2, <2>3, <2>4
<1>8. FrameLen = IF pc = "length" THEN 9 ELSE 9 + Len(cmdBytes)
  BY <1>6 DEF FrameLen, SetupSteps10
<1>9. Len(Pending) = FrameLen /\ FrameLen = 9 + CommandLen
  <2>1. PICK k \in Nat, f \in Nat, l \in Nat :
          k = Len(Pending) /\ f = FrameLen /\ l = Len(cmdBytes) /\ l = CommandLen
    BY <1>3, <1>4, <1>5, <1>7
  <2>2. 9 + l <= k /\ k <= f /\ (f = 9 \/ f = 9 + l)
    BY <1>3, <1>4, <1>8, <2>1
  <2>3. k = f /\ f = 9 + l
    BY <2>1, <2>2
  <2> QED BY <2>1, <2>3
<1>10. pc = "length" => cmdBytes = << >>
  BY <1>3, <1>7, <1>8, <1>9, BodyIs
<1>11. cmdBytes = << >> => executed' = executed
  BY <1>2, <1>7, BodyIs
<1>12. cmdBytes # << >> => c = cmd
  <2>1. cmdBytes # << >> => CommandLen # 0
    BY <1>7, BodyIs
  <2>2. FrameByte(10) = cmd
    BY <1>6 DEF FrameByte, SetupSteps10
  <2> QED BY <1>2, <1>5, <2>1, <2>2
<1>13. cmd # 0
  <2>1. cmd \in Command
    BY <1>6 DEF Inv, ControlInv, SubmitSteps7
  <2>2. MaxCommand \in Nat
    BY SimAssumption
  <2> QED BY <2>1, <2>2 DEF Command
<1>14. cmdBytes # << >> => executed' = Append(executed, cmd)
  BY <1>2, <1>12, <1>13
<1>15. ASSUME ~Dead, cmdBytes # << >> PROVE ReplyTo(In', n, cmd)
  <2>1. In = << >> /\ handle = "open"
    BY <1>4, <1>6, <1>15, AliveIsOpen DEF Unserved
  <2>2. PICK s : ReplyTo(s, n, c) /\ In' = In \o s
    BY <1>2, <2>1
  <2>3. In' = s
    BY <2>1, <2>2, AnswerArrives DEF ReplyTo
  <2> QED BY <1>12, <1>15, <2>2, <2>3
<1>16. left = << >> /\ peerPos' = Len(out)
  BY <1>1, <1>3, <1>4, <1>9, OrderTyped, SMTT(30)
<1> QED BY <1>1, <1>4, <1>6, <1>10, <1>11, <1>14, <1>15, <1>16

(* The simulator runs the command in progress, and its answer is on the stream. *)
LEMMA StreamSimulator ==
  ASSUME Inv, Unserved \/ Served, Simulator
  PROVE  Unserved' \/ Served'
<1>1. CASE SimHandshake
  BY <1>1, StreamHandshake
<1>2. ASSUME NEW n \in RespSize, SimCommand(n) PROVE Served'
  <2>1. /\ Unserved /\ pc \in {"length", "bytes", "resp_length"} /\ SimSame
        /\ left = << >> /\ peerPos' = Len(out)
        /\ pc = "length" => cmdBytes = << >>
        /\ cmdBytes # << >> => executed' = Append(executed, cmd)
        /\ ~Dead /\ cmdBytes # << >> => ReplyTo(In', n, cmd)
    BY <1>2, CommandRuns
  <2>2. /\ pc' = pc /\ Dead' = Dead /\ Done' = Done
        /\ UNCHANGED <<left, out, cmd, cmdBytes>>
    BY <2>1 DEF SimSame, Dead, Done
  <2>3. cmdBytes # << >> => \E i \in 1..Len(executed') : executed'[i] = cmd
    <3> SUFFICES ASSUME cmdBytes # << >> PROVE \E i \in 1..Len(executed') : executed'[i] = cmd
      OBVIOUS
    <3>1. executed' = Append(executed, cmd) /\ executed \in Seq(Nat) /\ cmd \in Nat
      BY <2>1, OrderTyped
    <3>2. Len(executed') = Len(executed) + 1 /\ executed'[Len(executed) + 1] = cmd
          /\ Len(executed) \in Nat
      BY <3>1, AppendProperties
    <3> QED BY <3>2
  <2>4. ~Dead => Answer'
    <3> SUFFICES ASSUME ~Dead PROVE Answer'
      OBVIOUS
    <3>1. CASE pc = "length"
      BY <2>2, <3>1 DEF Answer
    <3>2. CASE pc \in {"bytes", "resp_length"}
      <4>1. cmdBytes # << >> /\ (pc = "resp_length" => ~Done)
        BY <2>1, <3>2 DEF Unserved
      <4>2. /\ n \in Nat /\ Len(In') = n + 8 /\ Value(In') = n
            /\ \A i \in 5..n + 4 : In'[i] = cmd
        BY <2>1, <4>1, SimAssumption DEF ReplyTo
      <4>3. /\ Len(In') >= 8 /\ Value(In') = Len(In') - 8
            /\ \A i \in 5..Len(In') - 4 : In'[i] = cmd
        BY <4>2
      <4> QED BY <2>2, <3>2, <4>1, <4>3 DEF Answer
    <3> QED BY <2>1, <3>1, <3>2
  <2> QED BY <2>1, <2>2, <2>3, <2>4 DEF Served
<1>3. CASE SimQuiet
  <2>1. SimSame /\ UNCHANGED <<executed, peerPos>> /\ In' = In
    BY <1>3, QuietDoes DEF SimSame, Sent, In
  <2>2. /\ pc' = pc /\ Dead' = Dead /\ Done' = Done /\ FrameLen' = FrameLen
        /\ \A i \in 1..FrameLen : FrameByte(i)' = FrameByte(i)
        /\ WordRead' = WordRead
        /\ UNCHANGED <<left, out, Sent, cmd, cmdBytes, resp_len, response, delivered>>
    BY <2>1 DEF SimSame, Dead, Done, FrameLen, FrameByte, WordRead, LastRead, WordLen
  <2>3. CASE Unserved
    BY <2>1, <2>2, <2>3 DEF Unserved
  <2>4. CASE Served
    <3>1. Answer => Answer'
      BY <2>1, <2>2 DEF Answer, AnswerLeft
    <3> QED BY <2>1, <2>2, <2>4, <3>1 DEF Served
  <2> QED BY <2>3, <2>4
<1> QED BY <1>1, <1>2, <1>3 DEF Simulator, SimQuiet
-----------------------------------------------------------------------------
(* Whatever is cut, lost or left out on the way: on a handle none of whose *)
(* submits has failed the streams hold the request in progress and the     *)
(* answer to it, and nothing else.                                         *)
LEMMA StreamKeeps ==
  ASSUME Inv, Inv', OrderInv, StreamInv, Next
  PROVE  StreamInv'
<1> USE DEF StreamInv
<1>1. CASE Socket
  <2>1. Live' => Live
    BY <1>1, SocketDoes DEF others, Live
  <2> QED BY <1>1, <2>1, StreamSocket
<1>2. CASE Create
  BY <1>2, StreamCreate
<1>3. CASE SetupSteps
  <2>1. Live' => Live
    BY <1>3, SetupStepDoes DEF Live, Moves
  <2> QED BY <1>3, <2>1, StreamSetup
<1>10. CASE PowerGoesOn
  <2>1. Live' => Live
    BY <1>10, PowerDoes DEF Live
  <2> QED BY <1>10, <2>1, StreamPower
<1>4. CASE SetupPowers \/ Abandons \/ SubmitOk \/ SubmitFails \/ DestroyCloses
  BY <1>4, StreamReturn
<1>5. ASSUME NEW c \in Command, NEW b \in {<<c, c>>, << >>}, SubmitCall(c, b) PROVE StreamInv'
  <2>1. Live' => Live
    BY <1>5, SubmitCallDoes DEF Live
  <2> QED BY <1>5, <2>1, StreamSubmitCall
<1>6. CASE SubmitSteps
  <2>1. Live' => Live
    BY <1>6, SubmitStepDoes DEF Live, Moves
  <2> QED BY <1>6, <2>1, StreamSubmit
<1>7. CASE SubmitReadsResponse \/ SubmitReadsAck
  <2>1. Live' => Live
    BY <1>7, SubmitReadsDo DEF Live, Moves
  <2> QED BY <1>7, <2>1, StreamSubmitReads
<1>8. CASE DestroyCall
  <2>1. Live' => Live
    BY <1>8, DestroyCallDoes DEF Live
  <2> QED BY <1>8, <2>1, StreamDestroyCall
<1>9. CASE Simulator
  <2>1. SimHandshake \/ (\E n \in RespSize : SimCommand(n)) \/ SimQuiet
    BY <1>9 DEF Simulator, SimQuiet
  <2>2. UNCHANGED <<pc, comm, failed>>
    BY <2>1, HandshakeDoes, CommandDoes, QuietDoes DEF SimSame
  <2>3. Live' => Live
    BY <2>2 DEF Live
  <2> QED BY <1>9, <2>3, StreamSimulator
<1> QED BY <1>1, <1>2, <1>3, <1>4, <1>5, <1>6, <1>7, <1>8, <1>9, <1>10, Actions
        DEF PowerGoesOn, Abandons

(* The invariants hold in every reachable state.                           *)
LEMMA StreamHolds == Spec => [](Inv /\ OrderInv /\ StreamInv)
<1>1. Init => StreamInv
  BY DEF Init, StreamInv, Live
<1>2. Inv /\ Inv' /\ OrderInv /\ StreamInv /\ [Next]_vars => StreamInv'
  <2> SUFFICES ASSUME Inv, Inv', OrderInv, StreamInv, [Next]_vars PROVE StreamInv'
    OBVIOUS
  <2>1. CASE Next
    BY <2>1, StreamKeeps
  <2>2. CASE UNCHANGED vars
    <3>1. /\ UNCHANGED <<pc, comm, failed, cmd, cmdBytes, resp_len, response, peerPos, executed,
                         op, result, out, left, delivered, recv_bytes, wire>>
      BY <2>2 DEF vars, sockVars, hostVars, simVars
    <3>2. /\ Sent' = Sent /\ In' = In /\ Live' = Live /\ Dead' = Dead /\ Done' = Done
          /\ FrameLen' = FrameLen /\ \A i \in 1..FrameLen : FrameByte(i)' = FrameByte(i)
          /\ WordRead' = WordRead
      BY <3>1 DEF Sent, In, Live, Dead, Done, FrameLen, FrameByte, WordRead, LastRead, WordLen
    <3>3. Unserved => Unserved'
      BY <3>1, <3>2 DEF Unserved
    <3>4. Answer => Answer'
      BY <3>1, <3>2 DEF Answer, AnswerLeft
    <3>5. Served => Served'
      BY <3>1, <3>2, <3>4 DEF Served
    <3> QED BY <3>2, <3>3, <3>5 DEF StreamInv
  <2> QED BY <2>1, <2>2
<1> QED BY <1>1, <1>2, OrderHolds, PTL DEF Spec

(* tpm_comm_submit_command leaves the two ends where they agree on the     *)
(* start of the next frame, unless it reports a failure: no byte of a      *)
(* reply is left behind, and every byte sent has been consumed.            *)
THEOREM FramesAlign == Spec => []IdleIsFrameAligned
<1>1. Inv /\ StreamInv => IdleIsFrameAligned
  <2> SUFFICES ASSUME Inv, StreamInv, comm = "open", pc = "idle", ~failed
               PROVE  recv_bytes = << >> /\ wire = << >> /\ peerPos = Len(out)
    BY DEF IdleIsFrameAligned
  <2>1. Unserved /\ FrameLen = 0
    BY DEF StreamInv, Live, Served, FrameLen
  <2>2. In = << >> /\ Len(Sent) - peerPos = 0
    BY <2>1 DEF Unserved
  <2>3. left = << >>
    BY DEF Inv, ControlInv
  <2>4. peerPos = Len(out)
    BY <2>2, <2>3, Streams, OrderTyped
  <2>5. recv_bytes \in Seq(Bytes) /\ wire \in Seq(Bytes)
    BY DEF Inv, Typed, TypeOK, Sock!TypeOK, Bytes
  <2>6. Len(recv_bytes) = 0 /\ Len(wire) = 0
    <3>1. Len(In) = Len(recv_bytes) + Len(wire) /\ Len(recv_bytes) \in Nat /\ Len(wire) \in Nat
      BY <2>5, JoinIs DEF In
    <3>2. Len(In) = 0
      BY <2>2
    <3> QED BY <3>1, <3>2
  <2> QED BY <2>4, <2>5, <2>6, EmptySeq
<1> QED BY <1>1, StreamHolds, PTL
-----------------------------------------------------------------------------
(***************************************************************************)
(* Refinement: step by step, the transport does what CommandChannel says.  *)
(***************************************************************************)
(* The state of the channel, case by case.                                 *)
StateIs ==
  /\ comm = "null" => channelState = "closed"
  /\ comm = "open" /\ failed => channelState = "failed"
  /\ comm = "open" /\ ~failed /\ pc \in SubmitSteps7 => channelState = "busy"
  /\ comm = "open" /\ ~failed /\ pc \notin SubmitSteps7 => channelState = "ready"

(* In this state and in the next.                                          *)
LEMMA StateHolds == StateIs /\ StateIs'
BY DEF StateIs, channelState

(* A step that neither opens nor closes the handle, fails, starts a submit *)
(* or ends one is none that the channel's user sees.                       *)
LEMMA StateStays ==
  ASSUME Inv, comm' = comm, failed' = failed \/ comm = "null",
         pc' \in SubmitSteps7 <=> pc \in SubmitSteps7
  PROVE  channelState' = channelState
<1>1. comm \in {"null", "open"} /\ StateIs /\ StateIs'
  BY StateHolds DEF Inv, Typed, TypeOK
<1> QED BY <1>1 DEF StateIs

(* One more command has run.                                               *)
LEMMA RanGrows ==
  ASSUME Inv, NEW c \in Nat, executed' = Append(executed, c)
  PROVE  ran' = ran \cup {c} /\ ran \subseteq ran'
<1>1. executed \in Seq(Nat)
  BY OrderTyped
<1>2. PICK k \in Nat : k = Len(executed)
  BY <1>1, LenProperties
<1>3. /\ DOMAIN executed = 1..k /\ DOMAIN executed' = 1..k + 1
      /\ \A i \in 1..k : executed'[i] = executed[i]
      /\ executed'[k + 1] = c
  BY <1>1, <1>2, AppendProperties, LenProperties
<1>4. \A i : i \in 1..k + 1 <=> i \in 1..k \/ i = k + 1
  BY <1>2
<1> QED BY <1>3, <1>4, Zenon DEF ran

(* The commands that have run, by their places.                            *)
LEMMA RanIs ==
  ASSUME Inv, NEW c
  PROVE  c \in ran <=> \E i \in 1..Len(executed) : executed[i] = c
<1>1. DOMAIN executed = 1..Len(executed)
  BY OrderTyped, LenProperties
<1> QED BY <1>1 DEF ran

(* What happens inside a call.                                             *)
LEMMA InsideCall ==
  ASSUME Inv, Socket \/ Create \/ SetupSteps \/ PowerGoesOn \/ Abandons \/ SubmitSteps
                \/ SubmitReadsResponse \/ SubmitReadsAck \/ DestroyCall
                \/ SimHandshake \/ SimQuiet
  PROVE  UNCHANGED Channel!vars
<1> SUFFICES /\ cmd' = cmd /\ executed' = executed /\ reply' = reply
             /\ comm' = comm /\ (failed' = failed \/ comm = "null")
             /\ pc' \in SubmitSteps7 <=> pc \in SubmitSteps7
  BY StateStays, Zenon DEF Channel!vars, ran
<1>1. CASE Socket
  BY <1>1, SocketDoes DEF others
<1>2. CASE Create
  BY <1>2, CreateDoesAll DEF SubmitSteps7
<1>3. CASE SetupSteps
  BY <1>3, SetupStepDoes DEF Moves, SubmitSteps7
<1>4. CASE Abandons
  <2>1. pc \in SetupSteps10 /\ pc' = "idle" /\ comm' = "null"
    BY <1>4, ReturnDoes
  <2>2. comm = "null"
    BY <2>1 DEF Inv, HandleInv
  <2> QED BY <1>4, <2>1, <2>2, ReturnDoes DEF SetupSteps10, SubmitSteps7
<1>5. CASE SubmitSteps
  BY <1>5, SubmitStepDoes DEF Moves, SubmitSteps7
<1>6. CASE SubmitReadsResponse \/ SubmitReadsAck
  BY <1>6, SubmitReadsDo DEF Moves, SubmitSteps7
<1>7. CASE DestroyCall
  BY <1>7, DestroyCallDoes DEF SubmitSteps7
<1>8. CASE SimHandshake
  BY <1>8, HandshakeDoes DEF SimSame
<1>9. CASE SimQuiet
  BY <1>9, QuietDoes
<1>10. CASE PowerGoesOn
  BY <1>10, PowerDoes DEF SubmitSteps7
<1> QED BY <1>1, <1>2, <1>3, <1>4, <1>5, <1>6, <1>7, <1>8, <1>9, <1>10

(* After a failure whatever the caller and the simulator do is allowed.    *)
LEMMA AfterFailure ==
  ASSUME Inv, Inv', comm = "open", failed, comm' = "open", failed' = failed \/ failed' = TRUE,
         ran \subseteq ran'
  PROVE  Channel!Unspecified
<1>1. StateIs /\ StateIs'
  BY StateHolds
<1> QED BY <1>1 DEF StateIs, Channel!Unspecified

(* execute_simulator_setup, at its end, opens the channel.                 *)
LEMMA PowersOpens ==
  ASSUME Inv, SetupPowers
  PROVE  Channel!Open
<1>1. /\ pc = "nv_ack" /\ pc' = "idle" /\ comm' = "open" /\ failed' = failed
      /\ UNCHANGED <<cmd, executed, reply>>
  BY ReturnDoes
<1>2. comm = "null" /\ ~failed
  BY <1>1 DEF Inv, HandleInv, SetupSteps10
<1>3. StateIs /\ StateIs'
  BY StateHolds
<1>4. channelState = "closed" /\ channelState' = "ready"
  BY <1>1, <1>2, <1>3 DEF StateIs, SubmitSteps7
<1> QED BY <1>1, <1>4 DEF Channel!Open, ran

(* A submit starts with a command that has not run.                        *)
LEMMA CallSubmits ==
  ASSUME Inv, Inv', OrderInv, NEW c \in Command, NEW b \in {<<c, c>>, << >>}, SubmitCall(c, b)
  PROVE  Channel!Submit \/ Channel!Unspecified
<1>1. /\ comm = "open" /\ pc = "idle" /\ pc' = "send_command" /\ cmd' = c /\ c = cmd + 1
      /\ UNCHANGED <<comm, failed, executed, reply>>
  BY SubmitCallDoes
<1>2. ran' = ran
  BY <1>1 DEF ran
<1>3. CASE failed
  BY <1>1, <1>2, <1>3, AfterFailure
<1>4. CASE ~failed
  <2>1. StateIs /\ StateIs'
    BY StateHolds
  <2>2. channelState = "ready" /\ channelState' = "busy"
    BY <1>1, <1>4, <2>1 DEF StateIs, SubmitSteps7
  <2>3. c \notin ran
    <3>1. \A i \in 1..Len(executed) : executed[i] \in 1..cmd
      BY <1>1 DEF OrderInv, InOrder, Top
    <3>2. cmd \in Nat
      BY OrderTyped
    <3> QED BY <1>1, <3>1, <3>2, RanIs
  <2> QED BY <1>1, <1>2, <2>2, <2>3 DEF Channel!Submit
<1> QED BY <1>3, <1>4

(* A submit that returns 0 returns the reply to its own command, which has *)
(* run.                                                                    *)
LEMMA OkReturns ==
  ASSUME Inv, Inv', StreamInv, SubmitOk
  PROVE  Channel!ReturnReply \/ Channel!Unspecified
<1>1. /\ pc = "ack" /\ pc' = "idle" /\ comm' = comm /\ failed' = failed /\ op = "idle"
      /\ result = OK /\ reply' = Owner(response) /\ UNCHANGED <<cmd, executed>>
  BY ReturnDoes
<1>2. comm = "open" /\ cmd \in Command
  BY <1>1 DEF Inv, HandleInv, ControlInv, SubmitSteps7
<1>3. ran' = ran
  BY <1>1 DEF ran
<1>4. CASE failed
  BY <1>1, <1>2, <1>3, <1>4, AfterFailure
<1>5. CASE ~failed
  <2>1. StateIs /\ StateIs'
    BY StateHolds
  <2>2. channelState = "busy" /\ channelState' = "ready"
    BY <1>1, <1>2, <1>5, <2>1 DEF StateIs, SubmitSteps7
  <2>3. Served /\ Answer
    BY <1>1, <1>2, <1>5 DEF StreamInv, Live, Unserved, Served, Dead
  <2>4. /\ cmdBytes # << >> /\ response # << >>
        /\ \A i \in 1..Len(response) : response[i] = cmd
    BY <1>1, <2>3 DEF Answer
  <2>5. cmd \in ran
    BY <1>1, <2>3, <2>4, RanIs DEF Served, SubmitSteps7
  <2>6. Owner(response) = cmd
    <3>1. response \in Seq(Bytes)
      BY DEF Inv, Typed
    <3>2. Len(response) \in Nat /\ Len(response) # 0 /\ DOMAIN response = 1..Len(response)
      BY <2>4, <3>1, LenProperties, EmptySeq
    <3>3. response[1] = cmd
      BY <2>4, <3>2
    <3> QED BY <1>2, <2>4, <3>2, <3>3, Zenon DEF Owner
  <2> QED BY <1>1, <1>3, <2>2, <2>5, <2>6 DEF Channel!ReturnReply
<1> QED BY <1>4, <1>5

(* A submit that fails says nothing of its command.                        *)
LEMMA FailReturns ==
  ASSUME Inv, Inv', SubmitFails
  PROVE  Channel!ReturnFailure \/ Channel!Unspecified
<1>1. /\ pc \in SubmitSteps7 /\ pc' = "idle" /\ comm' = comm /\ failed' = TRUE
      /\ UNCHANGED <<cmd, executed, reply>>
  BY ReturnDoes
<1>2. comm = "open"
  BY <1>1 DEF Inv, HandleInv
<1>3. ran' = ran
  BY <1>1 DEF ran
<1>4. CASE failed
  BY <1>1, <1>2, <1>3, <1>4, AfterFailure
<1>5. CASE ~failed
  <2>1. StateIs /\ StateIs'
    BY StateHolds
  <2>2. channelState = "busy" /\ channelState' = "failed"
    BY <1>1, <1>2, <1>5, <2>1 DEF StateIs
  <2> QED BY <1>1, <1>3, <2>2 DEF Channel!ReturnFailure
<1> QED BY <1>4, <1>5

(* tpm_comm_destroy closes the channel, whatever happened on it.           *)
LEMMA DestroyEnds ==
  ASSUME Inv, Inv', DestroyCloses
  PROVE  Channel!Close
<1>1. /\ pc = "session_end" /\ comm' = "null" /\ UNCHANGED <<cmd, executed, reply>>
  BY ReturnDoes
<1>2. comm = "open"
  BY <1>1 DEF Inv, HandleInv
<1>3. StateIs /\ StateIs'
  BY StateHolds
<1>4. channelState \in {"ready", "failed"} /\ channelState' = "closed"
  BY <1>1, <1>2, <1>3 DEF StateIs, SubmitSteps7
<1> QED BY <1>1, <1>4 DEF Channel!Close, ran

(* The TPM runs the command in progress, which has not run; or, after a    *)
(* failure or once the handle is gone, whatever was left on the connection.*)
LEMMA CommandExecutes ==
  ASSUME Inv, Inv', StreamInv, NEW n \in RespSize, SimCommand(n)
  PROVE  Channel!Next \/ UNCHANGED Channel!vars
<1>1. SimSame
  BY CommandDoes
<1>2. UNCHANGED <<comm, pc, failed, cmd, reply, channelState>> /\ comm \in {"null", "open"}
  BY <1>1, StateStays DEF SimSame, Inv, Typed, TypeOK
<1>3. ran \subseteq ran'
  <2>1. PICK c \in Bytes : executed' = IF c = 0 THEN executed ELSE Append(executed, c)
    BY CommandDoes
  <2>2. c \in Nat
    BY DEF Bytes
  <2>3. CASE c = 0
    BY <2>1, <2>3 DEF ran
  <2>4. CASE c # 0
    BY <2>1, <2>2, <2>4, RanGrows
  <2> QED BY <2>3, <2>4
<1>4. StateIs
  BY StateHolds
<1>5. CASE comm = "null"
  BY <1>2, <1>3, <1>4, <1>5 DEF StateIs, Channel!LateExecute, Channel!Next
<1>6. CASE comm = "open" /\ failed
  BY <1>2, <1>3, <1>6, AfterFailure DEF Channel!Next
<1>7. CASE comm = "open" /\ ~failed
  <2>1. Unserved \/ Served
    BY <1>7 DEF StreamInv, Live
  <2>2. /\ Unserved /\ pc \in SubmitSteps7
        /\ cmdBytes = << >> => executed' = executed
        /\ cmdBytes # << >> => executed' = Append(executed, cmd)
    BY <2>1, CommandRuns DEF SubmitSteps7
  <2>3. channelState = "busy"
    BY <1>4, <1>7, <2>2 DEF StateIs
  <2>4. CASE cmdBytes = << >>
    <3>1. ran' = ran
      BY <2>2, <2>4 DEF ran
    <3> QED BY <1>2, <3>1 DEF Channel!vars
  <2>5. CASE cmdBytes # << >>
    <3>1. cmd \notin ran
      BY <2>2, RanIs DEF Unserved
    <3>2. ran' = ran \cup {cmd}
      BY <2>2, <2>5, OrderTyped, RanGrows
    <3> QED BY <1>2, <2>3, <3>1, <3>2 DEF Channel!Execute, Channel!Next
  <2> QED BY <2>4, <2>5
<1> QED BY <1>2, <1>5, <1>6, <1>7

(* tpm_comm_create, tpm_comm_submit_command and tpm_comm_destroy against   *)
(* the simulator are a command channel: on a handle none of whose submits  *)
(* has failed, a submit that returns 0 returns the reply to its own        *)
(* command, which ran exactly once.                                        *)
THEOREM IsChannel == Spec => ChannelSpec
<1>1. Init => Channel!Init
  <2> SUFFICES ASSUME Init PROVE Channel!Init
    OBVIOUS
  <2>1. comm = "null" /\ cmd = 0 /\ executed = << >> /\ reply = 0
    BY DEF Init
  <2>2. channelState = "closed"
    BY <2>1, StateHolds DEF StateIs
  <2>3. ran = {}
    <3>1. DOMAIN executed = {}
      BY <2>1
    <3> QED BY <3>1 DEF ran
  <2> QED BY <2>1, <2>2, <2>3 DEF Channel!Init, Channel!NoCommand
<1>2. Inv /\ Inv' /\ OrderInv /\ StreamInv /\ [Next]_vars => [Channel!Next]_(Channel!vars)
  <2> SUFFICES ASSUME Inv, Inv', OrderInv, StreamInv, [Next]_vars
               PROVE  Channel!Next \/ UNCHANGED Channel!vars
    OBVIOUS
  <2>1. CASE \/ Socket \/ Create \/ SetupSteps \/ PowerGoesOn \/ Abandons \/ SubmitSteps
             \/ SubmitReadsResponse \/ SubmitReadsAck \/ DestroyCall \/ SimHandshake \/ SimQuiet
    BY <2>1, InsideCall
  <2>2. CASE SetupPowers
    BY <2>2, PowersOpens DEF Channel!Next
  <2>3. ASSUME NEW c \in Command, NEW b \in {<<c, c>>, << >>}, SubmitCall(c, b)
        PROVE  Channel!Next
    BY <2>3, CallSubmits DEF Channel!Next
  <2>4. CASE SubmitOk
    BY <2>4, OkReturns DEF Channel!Next
  <2>5. CASE SubmitFails
    BY <2>5, FailReturns DEF Channel!Next
  <2>6. CASE DestroyCloses
    BY <2>6, DestroyEnds DEF Channel!Next
  <2>7. ASSUME NEW n \in RespSize, SimCommand(n) PROVE Channel!Next \/ UNCHANGED Channel!vars
    BY <2>7, CommandExecutes
  <2>8. CASE UNCHANGED vars
    <3>1. UNCHANGED <<comm, pc, failed, cmd, executed, reply>>
      BY <2>8 DEF vars, hostVars, simVars
    <3> QED BY <3>1, StateStays DEF Channel!vars, ran
  <2> QED BY <2>1, <2>2, <2>3, <2>4, <2>5, <2>6, <2>7, <2>8, Actions, Zenon
          DEF Simulator, SimQuiet, PowerGoesOn, Abandons
<1>3. Spec => []Inv /\ []OrderInv /\ []StreamInv
  BY StreamHolds, PTL
<1> QED BY <1>1, <1>2, <1>3, PTL DEF Spec, ChannelSpec, Channel!Spec
=============================================================================
