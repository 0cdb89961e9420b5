------------------------------- MODULE SimComm -------------------------------
(***************************************************************************)
(* src/tpm_comm_emulator.c over TpmSocket: the host side of the TPM        *)
(* simulator's protocol, with the simulator as the (external) peer that    *)
(* parses the bytes the host put on the connection and answers them.       *)
(*                                                                         *)
(* A call of tpm_comm_create, tpm_comm_submit_command or tpm_comm_destroy  *)
(* is a run of socket calls.  pc names the socket call in progress; once   *)
(* it has returned, one action looks at its result and makes the next.     *)
(***************************************************************************)
EXTENDS NetWord, FiniteSets

CONSTANTS
  MaxCommand,     \* bound: commands submitted in all
  RespSize,       \* sizes of the TPM's responses
  RespCapacity,   \* *resp_len on entry: the caller's buffer
  ServerVersion,  \* versions and acknowledgements the simulator may send
  Ack,
  ReuseAfterFailure, \* whether callers submit again on a handle that failed
  MAX_DATA_RECV, MaxStream, Faults   \* see TpmSocket; "peer" is added to Faults

Command == 1..MaxCommand

(* The number of a command is a byte, and the size of a response fits the  *)
(* word that announces it.                                                 *)
ASSUME SimAssumption ==
  /\ MaxCommand \in 0..255
  /\ RespSize \subseteq Nat /\ \A n \in RespSize : Value(Word(n)) = n
  /\ RespCapacity \in Nat
  /\ ServerVersion \subseteq Nat /\ Ack \subseteq Nat
  /\ ReuseAfterFailure \in BOOLEAN
  /\ MAX_DATA_RECV \in Nat \ {0} /\ MaxStream \in Nat
  /\ Faults \subseteq {"create", "send", "recv", "alloc", "peer", "platform"}

REMOTE_SIGNAL_POWER_ON_CMD == 1
REMOTE_SEND_COMMAND == 8
REMOTE_SIGNAL_NV_ON_CMD == 11
REMOTE_HANDSHAKE_CMD == 15
REMOTE_SESSION_END_CMD == 20
ClientVersion == 1
TpmInfo == 0
NoWord == -1

VARIABLES
  handle, recv_bytes, buf, op, bytes_len, left, sent_bytes, index, result,
  out, wire, peerClosed, written, delivered, asked, sendFailed, lost,
  comm,       \* TPM_COMM_HANDLE: "null" or "open"
  pc,         \* the socket call in progress, or "idle"
  cmd,        \* the command being submitted (0: none yet)
  cmdBytes,   \* its bytes
  resp_len,   \* *resp_len
  retval,     \* what the last tpm_comm call returned
  response,   \* the response bytes handed to the caller
  platform_conn, \* power_on_simulator's connection: "null", "open" or "lost"
  signal,     \* the word sent on it that the simulator has not taken, if any
  answer,     \* the acknowledgement on its way back, if any
  simOn, simNv, \* the simulator has power, and its NV memory
  peer,       \* the simulator's session: "down" or "up"
  peerPos,    \* bytes of out the simulator has consumed
  executed,   \* commands the TPM has run, in order
  failed,     \* history: a submit on this handle has failed
  reply       \* history: whose reply the last successful submit returned

Sock == INSTANCE TpmSocket WITH
          Byte <- 0..255, Message <- {}, ReadLen <- {},
          Faults <- Faults \ {"peer", "platform"}

sockVars == <<handle, recv_bytes, buf, op, bytes_len, left, sent_bytes, index,
              result, out, wire, peerClosed, written, delivered, asked,
              sendFailed, lost>>
hostVars == <<comm, pc, cmd, cmdBytes, resp_len, retval, response, failed, reply>>
powerVars == <<platform_conn, signal, answer, simOn, simNv>>
simVars  == <<powerVars, peer, peerPos, executed>>
vars == <<sockVars, hostVars, simVars>>

OK == 0
MU_FAILURE == 1

(* What the last read left in the caller's buffer. *)
LastRead(n) == SubSeq(delivered, Len(delivered) - n + 1, Len(delivered))
WordRead == Value(LastRead(WordLen))

Init ==
  /\ Sock!Init
  /\ comm = "null" /\ pc = "idle" /\ cmd = 0 /\ cmdBytes = << >>
  /\ resp_len = 0 /\ retval = OK /\ response = << >> /\ failed = FALSE /\ reply = 0
  /\ platform_conn = "null" /\ signal = NoWord /\ answer = NoWord
  /\ simOn = FALSE /\ simNv = FALSE
  /\ peer = "down" /\ peerPos = 0 /\ executed = << >>

(* tpm_socket_send and tpm_socket_read, called with these arguments.       *)
SocketSend(m) == Sock!SendCall(m) \/ Sock!SendRefused(m)
SocketRead(n) == Sock!ReadCall(n) \/ Sock!ReadRefused(n)

(* The socket call of step p has returned r. *)
Returned(p, r) == pc = p /\ op = "idle" /\ handle # "aborted" /\ result = r

(***************************************************************************)
(* tpm_comm_create and execute_simulator_setup.                            *)
(***************************************************************************)
CreateConnects ==
  /\ comm = "null" /\ pc = "idle" /\ peer = "down"
  /\ Sock!Create
  /\ pc' = "connect" /\ peer' = "up" /\ peerPos' = 0
  /\ failed' = FALSE
  /\ UNCHANGED <<comm, cmd, cmdBytes, resp_len, retval, response, reply, powerVars, executed>>

CreateNoSocket ==
  /\ comm = "null" /\ pc = "idle"
  /\ Sock!CreateFails
  /\ retval' = MU_FAILURE
  /\ UNCHANGED <<comm, pc, cmd, cmdBytes, resp_len, response, failed, reply, simVars>>

(* Step p returned 0 and what it read passes check: make the next call.    *)
Setup(p, check, call, next) ==
  /\ Returned(p, OK) /\ check
  /\ call
  /\ pc' = next
  /\ UNCHANGED <<comm, cmd, cmdBytes, resp_len, retval, response, failed, reply, simVars>>

SetupSteps ==
  \/ Setup("connect", TRUE, SocketSend(Word(REMOTE_HANDSHAKE_CMD)), "handshake")
  \/ Setup("handshake", TRUE, SocketSend(Word(ClientVersion)), "version")
  \/ Setup("version", TRUE, SocketRead(WordLen), "server_version")
  \/ Setup("server_version", WordRead = ClientVersion, SocketRead(WordLen), "tpm_info")
  \/ Setup("tpm_info", TRUE, SocketRead(WordLen), "setup_ack")

(* Mutant: the socket is not destroyed. *)
SetupAbandons_Leak ==
  /\ pc' = "idle" /\ retval' = MU_FAILURE
  /\ UNCHANGED <<sockVars, comm, cmd, cmdBytes, resp_len, response, failed, reply,
                 peer, peerPos, executed>>

(* Any failure of the setup: the socket is destroyed, no handle results.   *)
SetupAbandons ==
  /\ pc' = "idle" /\ retval' = MU_FAILURE
  /\ Sock!Destroy
  /\ UNCHANGED <<comm, cmd, cmdBytes, resp_len, response, failed, reply, peer, peerPos, executed>>

SetupFails ==
  /\ \/ \E p \in {"handshake", "version", "server_version", "tpm_info", "setup_ack"} :
           Returned(p, MU_FAILURE)
     \/ Returned("server_version", OK) /\ WordRead # ClientVersion
     \/ Returned("setup_ack", OK) /\ WordRead # 0
  /\ SetupAbandons
  /\ UNCHANGED powerVars

(***************************************************************************)
(* power_on_simulator, on a connection of its own: power first, then NV,   *)
(* each acknowledged.  A socket call on it succeeds or fails (TpmSocket    *)
(* models how); the simulator serves one such connection at a time.        *)
(***************************************************************************)
PowerConnects ==
  /\ Returned("setup_ack", OK) /\ WordRead = 0 /\ signal = NoWord
  /\ platform_conn' = "open" /\ pc' = "power_on"
  /\ UNCHANGED <<sockVars, comm, cmd, cmdBytes, resp_len, retval, response, failed, reply,
                 signal, answer, simOn, simNv, peer, peerPos, executed>>

(* What is sent on a connection the simulator has lost reaches nobody.     *)
PowerSends(p, word, next) ==
  /\ pc = p /\ pc' = next
  /\ signal' = IF platform_conn = "open" THEN word ELSE NoWord
  /\ UNCHANGED <<sockVars, comm, cmd, cmdBytes, resp_len, retval, response, failed, reply,
                 platform_conn, answer, simOn, simNv, peer, peerPos, executed>>

PowerSent ==
  \/ PowerSends("power_on", REMOTE_SIGNAL_POWER_ON_CMD, "power_ack")
  \/ PowerSends("nv_on", REMOTE_SIGNAL_NV_ON_CMD, "nv_ack")

PowerAcknowledged ==
  /\ pc = "power_ack" /\ answer = 0
  /\ answer' = NoWord /\ pc' = "nv_on"
  /\ UNCHANGED <<sockVars, comm, cmd, cmdBytes, resp_len, retval, response, failed, reply,
                 platform_conn, signal, simOn, simNv, peer, peerPos, executed>>

(* Mutant: the second acknowledgement is read and not looked at. *)
SetupPowers_Unchecked ==
  /\ pc = "nv_ack" /\ answer # NoWord
  /\ platform_conn' = "null" /\ answer' = NoWord
  /\ comm' = "open" /\ pc' = "idle" /\ retval' = OK
  /\ UNCHANGED <<sockVars, cmd, cmdBytes, resp_len, response, failed, reply,
                 signal, simOn, simNv, peer, peerPos, executed>>

(* NV is acknowledged: power_on_simulator returns 0, and with it the setup *)
(* and tpm_comm_create.                                                    *)
SetupPowers ==
  /\ pc = "nv_ack" /\ answer = 0
  /\ platform_conn' = "null" /\ answer' = NoWord
  /\ comm' = "open" /\ pc' = "idle" /\ retval' = OK
  /\ UNCHANGED <<sockVars, cmd, cmdBytes, resp_len, response, failed, reply,
                 signal, simOn, simNv, peer, peerPos, executed>>

(* A refusal, a lost connection or a fault at any of the calls.  A send    *)
(* that is reported as failed may have delivered its word all the same     *)
(* (tpm_socket_send, TpmSocket), and a read may give up on an answer.      *)
PowerFails ==
  /\ \/ "platform" \in Faults /\ Returned("setup_ack", OK) /\ WordRead = 0
     \/ "platform" \in Faults /\ pc \in {"power_on", "power_ack", "nv_on", "nv_ack"}
     \/ pc \in {"power_on", "nv_on"} /\ platform_conn = "lost"
     \/ pc \in {"power_ack", "nv_ack"} /\ platform_conn = "lost" /\ answer = NoWord
     \/ pc \in {"power_ack", "nv_ack"} /\ answer \notin {NoWord, 0}
  /\ \/ signal' = signal
     \/ \E p \in {"power_on", "nv_on"} :
          /\ pc = p /\ platform_conn = "open"
          /\ signal' = IF p = "power_on" THEN REMOTE_SIGNAL_POWER_ON_CMD
                                         ELSE REMOTE_SIGNAL_NV_ON_CMD
  /\ platform_conn' = "null" /\ answer' = NoWord
  /\ SetupAbandons
  /\ UNCHANGED <<simOn, simNv>>

(***************************************************************************)
(* tpm_comm_submit_command.                                                *)
(***************************************************************************)
(* A command of two bytes that carry its number, or the empty one that     *)
(* TSS_BuildCommand yields when it fails and nobody stops.                 *)
SubmitCall(c, b) ==
  /\ comm = "open" /\ pc = "idle" /\ handle = "open"
  /\ failed => ReuseAfterFailure
  /\ c \in Command /\ c = cmd + 1
  /\ cmd' = c /\ cmdBytes' = b
  /\ resp_len' = RespCapacity
  /\ SocketSend(Word(REMOTE_SEND_COMMAND))
  /\ pc' = "send_command"
  /\ UNCHANGED <<comm, retval, response, failed, reply, simVars>>

Submit(p, call, next) ==
  /\ Returned(p, OK)
  /\ call
  /\ pc' = next
  /\ UNCHANGED <<comm, cmd, cmdBytes, resp_len, retval, response, failed, reply, simVars>>

SubmitSteps ==
  \/ Submit("send_command", SocketSend(<<0>>), "locality")
  \/ Submit("locality", SocketSend(Word(Len(cmdBytes))), "length")
  \/ Submit("length", SocketSend(cmdBytes), "bytes")
  \/ Submit("bytes", SocketRead(WordLen), "resp_length")

(* Mutant: the announced length is not compared with the capacity. *)
SubmitReadsResponse_NoCheck ==
  /\ Returned("resp_length", OK)
  /\ resp_len' = WordRead
  /\ SocketRead(WordRead)
  /\ pc' = "response"
  /\ UNCHANGED <<comm, cmd, cmdBytes, retval, response, failed, reply, simVars>>

(* The announced length fits: it becomes *resp_len and is read.            *)
SubmitReadsResponse ==
  /\ Returned("resp_length", OK) /\ WordRead <= resp_len
  /\ resp_len' = WordRead
  /\ SocketRead(WordRead)
  /\ pc' = "response"
  /\ UNCHANGED <<comm, cmd, cmdBytes, retval, response, failed, reply, simVars>>

(* Mutants: the acknowledgement is left on the connection; the response    *)
(* is read into another buffer than the caller's.                          *)
SubmitReadsAck_Skipped ==
  /\ Returned("response", OK)
  /\ response' = LastRead(resp_len)
  /\ pc' = "idle" /\ retval' = OK
  /\ reply' = cmd
  /\ UNCHANGED <<sockVars, comm, cmd, cmdBytes, resp_len, failed, simVars>>

SubmitReadsAck_Stale ==
  /\ Returned("response", OK)
  /\ SocketRead(WordLen)
  /\ pc' = "ack"
  /\ UNCHANGED <<comm, cmd, cmdBytes, resp_len, retval, response, failed, reply, simVars>>

SubmitReadsAck ==
  /\ Returned("response", OK)
  /\ response' = LastRead(resp_len)
  /\ SocketRead(WordLen)
  /\ pc' = "ack"
  /\ UNCHANGED <<comm, cmd, cmdBytes, resp_len, retval, failed, reply, simVars>>

(* The command a response belongs to; -1 if its bytes are not one reply.   *)
Owner(r) ==
  IF r # << >> /\ \E c \in Command : \A i \in DOMAIN r : r[i] = c THEN r[1] ELSE -1

SubmitOk ==
  /\ Returned("ack", OK) /\ WordRead = 0
  /\ pc' = "idle" /\ retval' = OK
  /\ reply' = Owner(response)
  /\ UNCHANGED <<sockVars, comm, cmd, cmdBytes, resp_len, response, failed, simVars>>

(* Mutants: a command whose reply cannot be read is sent again; an over-   *)
(* long response is waited out.                                            *)
SubmitFails_Retry ==
  /\ \E p \in {"send_command", "locality", "length", "bytes",
                "resp_length", "response", "ack"} : Returned(p, MU_FAILURE)
  /\ SocketSend(Word(REMOTE_SEND_COMMAND))
  /\ pc' = "send_command"
  /\ UNCHANGED <<comm, cmd, cmdBytes, resp_len, retval, response, failed, reply, simVars>>

SubmitFails_Waits ==
  \/ /\ \/ \E p \in {"send_command", "locality", "length", "bytes",
                     "resp_length", "response", "ack"} : Returned(p, MU_FAILURE)
        \/ Returned("ack", OK) /\ WordRead # 0
     /\ pc' = "idle" /\ retval' = MU_FAILURE
     /\ failed' = TRUE
     /\ UNCHANGED <<sockVars, comm, cmd, cmdBytes, resp_len, response, reply, simVars>>
  \/ Returned("resp_length", OK) /\ WordRead > resp_len /\ UNCHANGED vars

(* Any failure returns at once: nothing is drained, nothing is closed.     *)
SubmitFails ==
  /\ \/ \E p \in {"send_command", "locality", "length", "bytes",
                  "resp_length", "response", "ack"} : Returned(p, MU_FAILURE)
     \/ Returned("resp_length", OK) /\ WordRead > resp_len
     \/ Returned("ack", OK) /\ WordRead # 0
  /\ pc' = "idle" /\ retval' = MU_FAILURE
  /\ failed' = TRUE
  /\ UNCHANGED <<sockVars, comm, cmd, cmdBytes, resp_len, response, reply, simVars>>

(***************************************************************************)
(* tpm_comm_destroy: the session is ended politely, then the socket closed.*)
(***************************************************************************)
DestroyCall ==
  /\ comm = "open" /\ pc = "idle" /\ handle = "open"
  /\ SocketSend(Word(REMOTE_SESSION_END_CMD))
  /\ pc' = "session_end"
  /\ UNCHANGED <<comm, cmd, cmdBytes, resp_len, retval, response, failed, reply, simVars>>

DestroyCloses ==
  /\ Returned("session_end", OK) \/ Returned("session_end", MU_FAILURE)
  /\ Sock!Destroy
  /\ comm' = "null" /\ pc' = "idle"
  /\ UNCHANGED <<cmd, cmdBytes, resp_len, retval, response, failed, reply, simVars>>

(***************************************************************************)
(* The simulator (external): a request is consumed when it is complete.    *)
(***************************************************************************)
Pending == SubSeq(out, peerPos + 1, Len(out))
PendingWord(i) == Value(SubSeq(Pending, i, i + WordLen - 1))
Request == PendingWord(1)

(* The bytes go to the host if it still has the socket. *)
PeerSays(s) ==
  IF handle = "open" THEN Sock!PeerWrite(s) ELSE UNCHANGED sockVars

HandshakeReady == /\ Len(Pending) >= 2 * WordLen
                  /\ Request = REMOTE_HANDSHAKE_CMD

(* After the request word come the locality byte and the length.           *)
CommandLen == PendingWord(WordLen + 2)
CommandEnd == 2 * WordLen + 1 + CommandLen
CommandReady == /\ Len(Pending) >= 2 * WordLen + 1
                /\ Request = REMOTE_SEND_COMMAND
                /\ Len(Pending) >= CommandEnd

SimHandshake ==
  /\ peer = "up" /\ HandshakeReady
  /\ \E v \in ServerVersion, a \in Ack :
       PeerSays(Word(v) \o Word(TpmInfo) \o Word(a))
  /\ peerPos' = peerPos + 2 * WordLen
  /\ UNCHANGED <<hostVars, powerVars, peer, executed>>

(* The TPM runs the command (an empty one changes nothing in it) and its   *)
(* response of n bytes is framed by its length and the acknowledgement.    *)
SimCommand(n) ==
  /\ peer = "up" /\ CommandReady
  /\ peerPos' = peerPos + CommandEnd
  /\ LET c == IF CommandLen = 0 THEN 0 ELSE Pending[2 * WordLen + 2]
     IN /\ executed' = IF c = 0 THEN executed ELSE Append(executed, c)
        /\ \E a \in Ack : PeerSays(Word(n) \o [i \in 1..n |-> c] \o Word(a))
  /\ UNCHANGED <<hostVars, powerVars, peer>>

SessionEnds ==
  /\ peer' = "down"
  /\ IF handle = "open" THEN Sock!PeerClose ELSE UNCHANGED sockVars

(* SESSION_END or a word it does not know, the host gone, or a fault.      *)
SimHangsUp ==
  /\ peer = "up"
  /\ \/ /\ Len(Pending) >= WordLen
        /\ Request \notin {REMOTE_HANDSHAKE_CMD, REMOTE_SEND_COMMAND}
     \/ handle # "open" /\ ~HandshakeReady /\ ~CommandReady
     \/ "peer" \in Faults
  /\ SessionEnds
  /\ UNCHANGED <<hostVars, powerVars, peerPos, executed>>

(* A signal is obeyed before it is acknowledged with 0; the host may have  *)
(* destroyed the connection by then.                                       *)
SimSignal ==
  /\ signal # NoWord /\ signal' = NoWord
  /\ \E a \in Ack, obeys \in BOOLEAN :
       /\ a = 0 => obeys
       /\ simOn' = (simOn \/ (obeys /\ signal = REMOTE_SIGNAL_POWER_ON_CMD))
       /\ simNv' = (simNv \/ (obeys /\ signal = REMOTE_SIGNAL_NV_ON_CMD))
       /\ answer' = IF platform_conn = "open" THEN a ELSE answer
  /\ UNCHANGED <<sockVars, hostVars, platform_conn, peer, peerPos, executed>>

(* The simulator crashes and is started again: both connections, and the   *)
(* power it was given, are gone.  An answer may already be on its way.     *)
SimCrashes ==
  /\ "peer" \in Faults
  /\ \/ peer = "up" /\ SessionEnds
     \/ peer = "down" /\ UNCHANGED <<sockVars, peer>>
  /\ simOn' = FALSE /\ simNv' = FALSE /\ signal' = NoWord
  /\ platform_conn' = IF platform_conn = "open" THEN "lost" ELSE platform_conn
  /\ UNCHANGED <<hostVars, answer, peerPos, executed>>

-----------------------------------------------------------------------------
Socket == /\ Sock!Send \/ Sock!Read
          /\ UNCHANGED <<hostVars, simVars>>

Create == CreateConnects \/ CreateNoSocket
Setups == SetupSteps \/ SetupFails
PowerOnSimulator == \/ PowerConnects \/ PowerSent \/ PowerAcknowledged
                    \/ SetupPowers \/ PowerFails
Submits == SubmitSteps \/ SubmitReadsResponse \/ SubmitReadsAck \/ SubmitOk \/ SubmitFails
Caller == \/ Create \/ DestroyCall
          \/ \E c \in Command : \E b \in {<<c, c>>, << >>} : SubmitCall(c, b)
Host == Socket \/ Setups \/ PowerOnSimulator \/ Submits \/ DestroyCloses
Simulator == \/ SimHandshake \/ (\E n \in RespSize : SimCommand(n)) \/ SimHangsUp
             \/ SimSignal \/ SimCrashes

Next == Caller \/ Host \/ Simulator

(* The host thread runs, and the simulator answers what it is asked.       *)
Fairness ==
  /\ WF_vars(Host)
  /\ WF_vars(SimHandshake)
  /\ WF_vars(\E n \in RespSize : SimCommand(n))
  /\ WF_vars(SimHangsUp)
  /\ WF_vars(SimSignal)

Spec == Init /\ [][Next]_vars
FairSpec == Spec /\ Fairness

-----------------------------------------------------------------------------
(***************************************************************************)
(* Properties.                                                             *)
(***************************************************************************)
SubmitSteps7 == {"send_command", "locality", "length", "bytes",
                 "resp_length", "response", "ack"}
SetupSteps10 == {"connect", "handshake", "version", "server_version", "tpm_info",
                 "setup_ack", "power_on", "power_ack", "nv_on", "nv_ack"}

TypeOK ==
  /\ Sock!TypeOK
  /\ comm \in {"null", "open"}
  /\ pc \in {"idle", "session_end"} \cup SubmitSteps7 \cup SetupSteps10
  /\ cmd \in 0..MaxCommand /\ resp_len \in 0..RespCapacity
  /\ retval \in {OK, MU_FAILURE}
  /\ platform_conn \in {"null", "open", "lost"}
  /\ signal \in {NoWord, REMOTE_SIGNAL_POWER_ON_CMD, REMOTE_SIGNAL_NV_ON_CMD}
  /\ answer \in {NoWord} \cup Ack
  /\ simOn \in BOOLEAN /\ simNv \in BOOLEAN /\ failed \in BOOLEAN
  /\ peer \in {"down", "up"} /\ peerPos \in 0..Len(out)
  /\ reply \in {-1, 0} \cup Command

(* Between two calls on a handle none of whose submits has failed, the two *)
(* ends agree on where the next frame starts: the simulator has consumed   *)
(* every byte sent, and no byte of a reply is cached or on its way         *)
(* (the order of sends and reads in tpm_comm_submit_command).              *)
IdleIsFrameAligned ==
  comm = "open" /\ pc = "idle" /\ ~failed
    => recv_bytes = << >> /\ (peer = "up" => wire = << >> /\ peerPos = Len(out))

(* No command runs twice, and they run in the order they were submitted,   *)
(* whatever failed in between: the transport never retries.                *)
RunsInOrder == \A i, j \in DOMAIN executed : i < j => executed[i] < executed[j]

(* A handle whose simulator is still there is one whose simulator has      *)
(* power and NV: power_on_simulator sends two requests on a connection of  *)
(* its own, any of its calls may fail, each request may be refused, and    *)
(* the simulator may crash and come back without power between any two of  *)
(* them, also after an earlier handle had powered it                       *)
(* (execute_simulator_setup returns 0 only after both acknowledgements).   *)
OpenIsPowered == comm = "open" /\ peer = "up" => simOn /\ simNv

(* The handle and its socket come and go together: no failed create leaves *)
(* a connection behind, neither its own nor that of power_on_simulator,    *)
(* and no handle outlives its connection.                                  *)
NoOrphanSocket ==
  pc = "idle" /\ handle # "aborted"
    => (comm = "open" <=> handle = "open") /\ platform_conn = "null"

(* A call in progress returns, whatever was cut into pieces on the way, as *)
(* long as the simulator answers.                                          *)
CallReturns == (pc # "idle") ~> (pc = "idle")

(* The simulator, which serves one connection, is free again after every   *)
(* tpm_comm_destroy and every tpm_comm_create that failed.                 *)
SimulatorIsReleased == (comm = "null" /\ pc = "idle") ~> (peer = "down")

(* Refinement: on a handle none of whose submits has failed, the emulator  *)
(* transport is a command channel: a submit that returns 0 returns the     *)
(* reply to its own command, which ran exactly once.                       *)
channelState ==
  CASE comm = "null" -> "closed"
    [] comm = "open" /\ failed -> "failed"
    [] comm = "open" /\ ~failed /\ pc \in SubmitSteps7 -> "busy"
    [] OTHER -> "ready"
ran == {executed[i] : i \in DOMAIN executed}

Channel == INSTANCE CommandChannel WITH state <- channelState, executed <- ran
ChannelSpec == Channel!Spec
=============================================================================
