------------------------------ MODULE LinuxComm ------------------------------
(***************************************************************************)
(* src/tpm_comm_linux.c: a handle on the kernel's TPM device, on abrmd     *)
(* through its TCTI library, or on a user mode resource manager over a     *)
(* TpmSocket, whichever tpm_comm_create finds on the machine.              *)
(*                                                                         *)
(* The device and the TCTI context exchange whole packets through a slot   *)
(* that holds one command or one reply.  The socket carries bytes, and a   *)
(* call of TpmSocket is one step here, with the outcomes TpmSocket allows: *)
(* a send puts the whole message on the connection, or fails after a       *)
(* prefix of it; a read takes what it was asked for, or fails.             *)
(***************************************************************************)
EXTENDS NetWord

CONSTANTS
  Machine,      \* the machines to look at, see MachineType
  MaxCommand,   \* bound: commands submitted in all
  RespSize,     \* sizes of the TPM's responses
  RespCapacity, \* values of *resp_len on entry
  Faults        \* what may fail on a troubled machine: a subset of FaultKind

FaultKind == {"open", "load", "connect", "write", "read", "discard", "send", "recv", "daemon"}
Command == 1..MaxCommand

MIN_TPM_RESPONSE_LENGTH == 10
REMOTE_SEND_COMMAND == 8
REMOTE_SESSION_END_CMD == 20
OK == 0
MU_FAILURE == 1

(* What a machine has: device files, an abrmd library that loads or not,   *)
(* the library files of user mode resource managers, and the one running.  *)
MachineType == [dev    : SUBSET {"tpmrm0", "tpm0"},
                abrmd  : {"none", "broken", "good"},
                trm    : SUBSET {"old", "new"},
                daemon : {"none", "old", "new"}]

(* The number of a command is a byte, and the size of a response fits the  *)
(* word that announces it.                                                 *)
ASSUME LinuxAssumption ==
  /\ Machine \subseteq MachineType
  /\ MaxCommand \in 0..255 /\ Faults \subseteq FaultKind
  /\ RespSize \subseteq {n \in Nat : n >= MIN_TPM_RESPONSE_LENGTH /\ Value(Word(n)) = n}
  /\ RespCapacity \subseteq Nat

VARIABLES
  machine,   \* the machine this program runs on
  faults,    \* what may fail on it: nothing, or Faults
  comm,      \* TPM_COMM_HANDLE: "null" or "open"
  conn_info, \* the flags of TPM_CONN_INFO
  held,      \* resources acquired and not given back
  creating,  \* where tpm_comm_create stands, "no" outside it
  pc,        \* "idle", or where tpm_comm_submit_command stands
  sends,     \* socket: messages of the submit still to be sent
  cmd, cmdBytes, \* the command being submitted, and its bytes
  resp_len,  \* *resp_len
  capacity,  \* what it was on entry
  filled,    \* bytes of the reply in the caller's buffer
  got,       \* socket: the command the response in the buffer belongs to
  retval,    \* what the last submit returned
  reply,     \* whose reply the last successful submit returned
  failed,    \* history: a submit on this handle has failed
  slot,      \* the packet between the host and the device or abrmd
  out, in,   \* the two directions of the socket
  daemonPos, \* bytes of out the resource manager has consumed
  peer,      \* its side of the connection: "up" or "down"
  executed   \* commands the TPM has run

handleVars == <<machine, faults, comm, conn_info, held, creating, failed>>
callVars == <<cmd, cmdBytes, capacity>>
respVars == <<resp_len, filled, got, retval, reply>>
netVars == <<out, in, daemonPos, peer>>
vars == <<handleVars, callVars, pc, sends, respVars, slot, netVars, executed>>

Empty == [state |-> "empty", cmd |-> 0, len |-> 0]

Init ==
  /\ machine \in Machine /\ faults \in {{}, Faults}
  /\ comm = "null" /\ conn_info = {} /\ held = {} /\ creating = "no" /\ failed = FALSE
  /\ pc = "idle" /\ sends = << >> /\ cmd = 0 /\ cmdBytes = << >> /\ capacity = 0
  /\ resp_len = 0 /\ filled = 0 /\ got = 0 /\ retval = OK /\ reply = 0
  /\ slot = Empty /\ out = << >> /\ in = << >> /\ daemonPos = 0 /\ peer = "down"
  /\ executed = {}

(***************************************************************************)
(* tpm_comm_create tries one after the other, and every attempt acquires   *)
(* something.  What an earlier handle left running is over first.          *)
(***************************************************************************)
CreateCall ==
  /\ comm = "null" /\ pc = "idle" /\ creating = "no"
  /\ peer = "down" /\ slot.state = "empty"
  /\ held' = held \cup {"info"} /\ creating' = "open_rm"
  /\ UNCHANGED <<machine, faults, comm, conn_info, failed>>
  /\ UNCHANGED <<callVars, pc, sends, respVars, slot, netVars, executed>>

(* The attempt at one place fails, or is not the last one: on to the next. *)
GoesOn(from, to) ==
  /\ creating = from /\ creating' = to
  /\ UNCHANGED <<machine, faults, comm, conn_info, failed>>
  /\ UNCHANGED <<callVars, pc, sends, respVars, slot, netVars, executed>>

(* The attempt succeeds, and tpm_comm_create returns the handle.           *)
Opened(from, flags) ==
  /\ creating = from /\ creating' = "no"
  /\ comm' = "open" /\ conn_info' = flags /\ failed' = FALSE
  /\ UNCHANGED <<machine, faults, callVars, pc, sends, respVars, slot, executed>>

(* The kernel's resource manager is preferred to the raw device.           *)
OpenRmDevice ==
  \/ /\ "tpmrm0" \in machine.dev /\ Opened("open_rm", {"SYS_DEV", "TRM"})
     /\ held' = held \cup {"fd"}
     /\ UNCHANGED netVars
  \/ /\ "tpmrm0" \notin machine.dev \/ "open" \in faults
     /\ GoesOn("open_rm", "open_raw")
     /\ UNCHANGED held

OpenDevice ==
  \/ /\ "tpm0" \in machine.dev /\ Opened("open_raw", {"SYS_DEV"})
     /\ held' = held \cup {"fd"}
     /\ UNCHANGED netVars
  \/ /\ "tpm0" \notin machine.dev \/ "open" \in faults
     /\ GoesOn("open_raw", "dlopen")
     /\ UNCHANGED held

(* load_abrmd: the library, its entry point and the memory for a context,  *)
(* and the context set up.                                                 *)
LoadAbrmd ==
  \/ /\ machine.abrmd # "none" /\ GoesOn("dlopen", "tcti")
     /\ held' = held \cup {"lib"}
  \/ /\ machine.abrmd = "none" \/ "load" \in faults
     /\ GoesOn("dlopen", "trm")
     /\ UNCHANGED held

AllocateTcti ==
  \/ GoesOn("tcti", "init") /\ held' = held \cup {"ctx"}
  \/ /\ machine.abrmd = "broken" \/ "load" \in faults
     /\ GoesOn("tcti", "unload")
     /\ UNCHANGED held

InitTcti ==
  \/ /\ machine.abrmd = "good" /\ Opened("init", {"TCTI", "TRM"})
     /\ UNCHANGED <<held, netVars>>
  \/ /\ machine.abrmd = "broken" \/ "load" \in faults
     /\ GoesOn("init", "unload")
     /\ held' = held \ {"ctx"}

(* Mutant: a library without a usable context stays loaded. *)
UnloadAbrmd_Kept == GoesOn("unload", "trm") /\ UNCHANGED held

UnloadAbrmd == GoesOn("unload", "trm") /\ held' = held \ {"lib"}

(* The library files tell which resource manager must be running; the old  *)
(* one wins.                                                               *)
ConnectTrm ==
  \/ /\ machine.trm # {} /\ machine.daemon # "none"
     /\ Opened("trm", {"SOCKET", IF "old" \in machine.trm THEN "OLD_UM_TRM" ELSE "TRM"})
     /\ held' = held \cup {"sock"}
     /\ out' = << >> /\ in' = << >> /\ daemonPos' = 0 /\ peer' = "up"
  \/ /\ machine.trm = {} \/ machine.daemon = "none" \/ "connect" \in faults
     /\ GoesOn("trm", "give_up")
     /\ UNCHANGED held

(* Nothing answered: NULL.                                                 *)
CreateFails == GoesOn("give_up", "no") /\ held' = held \ {"info"}

(* What may have reached the peer of a message when tpm_socket_send fails: *)
(* all of it included, if the network took it in pieces.                   *)
Prefixes(m) == {SubSeq(m, 1, n) : n \in 0..Len(m)}

(* tpm_comm_destroy closes what conn_info names, and frees the handle.     *)
(* The TCTI context is finalized, but its memory stays, a stray.           *)
Released(flags) ==
  CASE "SYS_DEV" \in flags -> held \ {"fd", "info"}
    [] "SOCKET" \in flags -> held \ {"sock", "info"}
    [] "TCTI" \in flags -> (held \ {"lib", "ctx", "info"}) \cup {"stray"}

(* A reply nobody has read goes with the descriptor or the context; a      *)
(* command in the slot still runs.  A socket is told good-bye, and what    *)
(* was sent on it can still be read by the resource manager.               *)
Destroy ==
  /\ comm = "open" /\ pc = "idle"
  /\ comm' = "null" /\ conn_info' = {} /\ failed' = FALSE
  /\ held' = Released(conn_info)
  /\ slot' = CASE slot.state = "replied" -> Empty
               [] slot.state = "sent" -> [slot EXCEPT !.state = "orphan"]
               [] OTHER -> slot
  /\ IF "SOCKET" \in conn_info
       THEN LET bye == Word(REMOTE_SESSION_END_CMD)
            IN  \E m \in IF "send" \in faults THEN Prefixes(bye) ELSE {bye} :
                  out' = out \o m
       ELSE UNCHANGED out
  /\ in' = << >>
  /\ UNCHANGED <<machine, faults, creating, callVars, pc, sends, respVars, daemonPos, peer, executed>>

(***************************************************************************)
(* tpm_comm_submit_command: its checks, then one of three transports.      *)
(***************************************************************************)
(* A command of two bytes that carry its number, or the empty one that     *)
(* TSS_BuildCommand yields when it fails and nobody stops.                 *)
SubmitCall(c, b, n) ==
  /\ comm = "open" /\ pc = "idle"
  /\ c = cmd + 1
  /\ cmd' = c /\ cmdBytes' = b
  /\ resp_len' = n /\ capacity' = n /\ filled' = 0
  /\ pc' = "entry"
  /\ UNCHANGED <<handleVars, sends, got, retval, reply, slot, netVars, executed>>

(* The submit returns a failure: *resp_len may be changed already.         *)
Fails == /\ pc' = "idle" /\ retval' = MU_FAILURE /\ sends' = << >>
         /\ failed' = TRUE
         /\ UNCHANGED <<machine, faults, comm, conn_info, held, creating>>
         /\ UNCHANGED <<callVars, filled, got, reply, executed>>

(* It returns 0, with n bytes of the reply to command c in the buffer and  *)
(* m in *resp_len.                                                         *)
Succeeds(c, n, m) ==
  /\ pc' = "idle" /\ retval' = OK /\ reply' = c
  /\ filled' = n /\ resp_len' = m
  /\ UNCHANGED <<handleVars, callVars, sends, got, executed>>

SubmitRefused ==
  /\ pc = "entry"
  /\ resp_len < 10
  /\ Fails
  /\ UNCHANGED <<resp_len, slot, netVars>>

(* Mutant: the flags of the old resource manager are forgotten. *)
Messages_NoFlags ==
  << Word(REMOTE_SEND_COMMAND), <<0>>, Word(Len(cmdBytes)), cmdBytes >>

(* The messages of a submit over the socket; the old resource manager      *)
(* expects its debug level and the "command sent" flag as well.            *)
Messages ==
  IF "OLD_UM_TRM" \in conn_info
    THEN << Word(REMOTE_SEND_COMMAND), <<0>>, <<0>>, <<1>>, Word(Len(cmdBytes)), cmdBytes >>
    ELSE << Word(REMOTE_SEND_COMMAND), <<0>>, Word(Len(cmdBytes)), cmdBytes >>

SubmitStarts ==
  /\ pc = "entry" /\ resp_len >= 10
  /\ CASE "SYS_DEV" \in conn_info -> pc' = "write" /\ UNCHANGED sends
       [] "TCTI" \in conn_info -> pc' = "transmit" /\ UNCHANGED sends
       [] "SOCKET" \in conn_info -> pc' = "send" /\ sends' = Messages
  /\ UNCHANGED <<handleVars, callVars, respVars, slot, netVars, executed>>

(***************************************************************************)
(* The device and abrmd: a packet down, a packet up.  Neither takes a      *)
(* command while another one, or its reply, is in the slot.                *)
(***************************************************************************)
Sent == [state |-> "sent", cmd |-> cmd, len |-> 0]
Orphan == [Sent EXCEPT !.state = "orphan"]

(* A command that is not accepted fails; a fault may come after the packet *)
(* got through, its reply being lost.                                      *)
PacketFails ==
  /\ \/ /\ slot.state # "empty" \/ cmdBytes = << >>
        /\ UNCHANGED slot
     \/ /\ "write" \in faults /\ slot.state = "empty"
        /\ slot' \in {slot} \cup (IF cmdBytes = << >> THEN {} ELSE {Orphan})
  /\ Fails
  /\ UNCHANGED <<resp_len, netVars>>

PacketSent(next) ==
  /\ slot.state = "empty" /\ cmdBytes # << >>
  /\ slot' = Sent
  /\ pc' = next
  /\ UNCHANGED <<handleVars, callVars, sends, respVars, netVars, executed>>

(* Mutant: the result of write() is not looked at. *)
DeviceWrite_Unchecked ==
  /\ pc = "write"
  /\ IF slot.state = "replied"
       THEN /\ pc' = "read"
            /\ UNCHANGED <<handleVars, callVars, sends, respVars, slot, netVars, executed>>
       ELSE PacketSent("read") \/ PacketFails

DeviceWrite == pc = "write" /\ (PacketSent("read") \/ PacketFails)
TctiTransmit == pc = "transmit" /\ (PacketSent("receive") \/ PacketFails)

Least(a, b) == IF a < b THEN a ELSE b

(* read() returns what fits of the reply, and the rest of it is lost.  It  *)
(* fails without taking the reply, or finds nothing: too long ago.         *)
DeviceRead ==
  /\ pc = "read"
  /\ \/ /\ slot.state = "replied"
        /\ LET len_read == Least(slot.len, resp_len)
           IN  len_read >= MIN_TPM_RESPONSE_LENGTH /\ Succeeds(slot.cmd, len_read, len_read)
        /\ slot' = Empty
     \/ /\ "read" \in faults \/ slot.state = "empty"
        /\ Fails
        /\ UNCHANGED <<resp_len, slot>>
  /\ UNCHANGED netVars

(* Mutant: the size receive() reports is taken as it is. *)
TctiReceive_AsTold ==
  /\ pc = "receive" /\ slot.state = "replied" /\ slot.len <= resp_len
  /\ \E bytes_returned \in {slot.len, resp_len} :
       Succeeds(slot.cmd, slot.len, bytes_returned)
  /\ slot' = Empty
  /\ UNCHANGED netVars

(* receive() may leave bytes_returned as it was, so the size in the header *)
(* of the response counts if it is less.  It fails when the five minutes   *)
(* are over or the buffer is too short, and the context keeps the reply.   *)
TctiReceive ==
  /\ pc = "receive"
  /\ \/ /\ slot.state = "replied" /\ slot.len <= resp_len
        /\ \E bytes_returned \in {slot.len, resp_len} :
             Succeeds(slot.cmd, slot.len, Least(slot.len, bytes_returned))
        /\ slot' = Empty
     \/ /\ "read" \in faults \/ (slot.state = "replied" /\ slot.len > resp_len)
        /\ Fails
        /\ UNCHANGED <<resp_len, slot>>
  /\ UNCHANGED netVars

(* The TPM runs the command in the slot (external).                        *)
TpmRuns ==
  /\ slot.state \in {"sent", "orphan"}
  /\ executed' = executed \cup {slot.cmd}
  /\ IF slot.state = "orphan" THEN slot' = Empty
     ELSE \E n \in RespSize : slot' = [slot EXCEPT !.state = "replied", !.len = n]
  /\ UNCHANGED <<handleVars, callVars, pc, sends, respVars, netVars>>

(* The driver drops a reply nobody fetches (external).                     *)
DeviceDiscards ==
  /\ "discard" \in faults
  /\ "SYS_DEV" \in conn_info /\ slot.state = "replied"
  /\ slot' = Empty
  /\ UNCHANGED <<handleVars, callVars, pc, sends, respVars, netVars, executed>>

(***************************************************************************)
(* The user mode resource manager over the socket.                         *)
(***************************************************************************)
SocketSend ==
  /\ pc = "send"
  /\ LET m == Head(sends)
     IN \/ /\ m # << >> /\ peer = "up"
           /\ out' = out \o m
           /\ sends' = Tail(sends)
           /\ pc' = IF Len(sends) = 1 THEN "resp_length" ELSE "send"
           /\ UNCHANGED <<handleVars, callVars, respVars, executed>>
        \/ /\ m = << >> \/ "send" \in faults \/ peer = "down"
           /\ \E s \in Prefixes(m) : out' = out \o s
           /\ Fails /\ UNCHANGED resp_len
  /\ UNCHANGED <<slot, in, daemonPos, peer>>

(* A read of n bytes takes them; or it fails, and what recv() brought is   *)
(* kept or, without memory, dropped.                                       *)
Taken(n) == /\ n > 0 /\ Len(in) >= n
            /\ in' = SubSeq(in, n + 1, Len(in))
NotTaken(n) == /\ n = 0 \/ "recv" \in faults \/ (peer = "down" /\ Len(in) < n)
               /\ in' \in {in} \cup (IF "recv" \in faults THEN {<< >>} ELSE {})

(* Mutant: the announced length is not compared with the capacity. *)
ReadLength_NoCheck ==
  /\ pc = "resp_length"
  /\ Taken(WordLen)
  /\ resp_len' = Value(in) /\ pc' = "response"
  /\ UNCHANGED <<handleVars, callVars, sends, filled, got, retval, reply, executed>>
  /\ UNCHANGED <<slot, out, daemonPos, peer>>

(* The announced length fits: it becomes *resp_len.                        *)
ReadLength ==
  /\ pc = "resp_length"
  /\ \/ /\ Taken(WordLen) /\ Value(in) <= resp_len
        /\ resp_len' = Value(in) /\ pc' = "response"
        /\ UNCHANGED <<handleVars, callVars, sends, filled, got, retval, reply, executed>>
     \/ /\ NotTaken(WordLen) \/ (Taken(WordLen) /\ Value(in) > resp_len)
        /\ Fails /\ UNCHANGED resp_len
  /\ UNCHANGED <<slot, out, daemonPos, peer>>

(* The command a response belongs to; -1 if its bytes are not one reply.   *)
Owner(r) == IF \E c \in Command : \A i \in DOMAIN r : r[i] = c THEN r[1] ELSE -1

ReadResponse ==
  /\ pc = "response"
  /\ \/ /\ Taken(resp_len)
        /\ got' = Owner(SubSeq(in, 1, resp_len)) /\ filled' = resp_len
        /\ pc' = "ack"
        /\ UNCHANGED <<handleVars, callVars, sends, resp_len, retval, reply, executed>>
     \/ NotTaken(resp_len) /\ Fails /\ UNCHANGED resp_len
  /\ UNCHANGED <<slot, out, daemonPos, peer>>

(* The reply is complete when the acknowledgement is 0.                    *)
ReadAck ==
  /\ pc = "ack"
  /\ \/ Taken(WordLen) /\ Value(in) = 0 /\ Succeeds(got, filled, resp_len)
     \/ /\ NotTaken(WordLen) \/ (Taken(WordLen) /\ Value(in) # 0)
        /\ Fails /\ UNCHANGED resp_len
  /\ UNCHANGED <<slot, out, daemonPos, peer>>

(* The resource manager (external) takes a request when it is complete, as *)
(* long as its own idea of it says.                                        *)
Pending == SubSeq(out, daemonPos + 1, Len(out))
PendingWord(i) == Value(SubSeq(Pending, i, i + WordLen - 1))
HeaderLen == 2 * WordLen + (IF machine.daemon = "old" THEN 3 ELSE 1)
CommandLen == PendingWord(HeaderLen - WordLen + 1)
CommandReady == /\ Len(Pending) >= HeaderLen
                /\ PendingWord(1) = REMOTE_SEND_COMMAND
                /\ Len(Pending) >= HeaderLen + CommandLen

DaemonRuns(n) ==
  /\ peer = "up" /\ CommandReady
  /\ daemonPos' = daemonPos + HeaderLen + CommandLen
  /\ LET c == IF CommandLen = 0 THEN 0 ELSE Pending[HeaderLen + 1]
     IN  /\ executed' = executed \cup ({c} \cap Command)
         /\ \E ack \in {0} \cup (IF "daemon" \in faults THEN {1} ELSE {}) :
              in' = IF comm = "open" THEN in \o Word(n) \o [i \in 1..n |-> c] \o Word(ack)
                    ELSE in
  /\ UNCHANGED <<handleVars, callVars, pc, sends, respVars, slot, out, peer>>

DaemonHangsUp ==
  /\ peer = "up"
  /\ \/ Len(Pending) >= WordLen /\ PendingWord(1) # REMOTE_SEND_COMMAND
     \/ comm = "null" /\ ~CommandReady
     \/ "daemon" \in faults
  /\ peer' = "down"
  /\ UNCHANGED <<handleVars, callVars, pc, sends, respVars, slot, out, in, daemonPos, executed>>

-----------------------------------------------------------------------------
Create == \/ OpenRmDevice \/ OpenDevice \/ LoadAbrmd \/ AllocateTcti \/ InitTcti \/ UnloadAbrmd
          \/ ConnectTrm \/ CreateFails
Caller == \/ CreateCall \/ Destroy
          \/ \E c \in Command, n \in RespCapacity :
               \E b \in {<<c, c>>, << >>} : SubmitCall(c, b, n)
Submit == \/ SubmitRefused \/ SubmitStarts
          \/ DeviceWrite \/ DeviceRead \/ TctiTransmit \/ TctiReceive
          \/ SocketSend \/ ReadLength \/ ReadResponse \/ ReadAck
Outside == \/ TpmRuns \/ DeviceDiscards
           \/ (\E n \in RespSize : DaemonRuns(n)) \/ DaemonHangsUp

Next == Caller \/ Create \/ Submit \/ Outside

-----------------------------------------------------------------------------
(***************************************************************************)
(* Properties.                                                             *)
(***************************************************************************)
Resource == {"info", "fd", "lib", "ctx", "stray", "sock", "tbs"}
Place == {"no", "open_rm", "open_raw", "dlopen", "tcti", "init", "unload", "trm", "give_up",
          "context", "device_info", "cleanup"}

TypeOK ==
  /\ machine \in Machine /\ faults \in {{}, Faults}
  /\ comm \in {"null", "open"} /\ failed \in BOOLEAN
  /\ conn_info \subseteq {"SYS_DEV", "SOCKET", "OLD_UM_TRM", "TCTI", "TRM"}
  /\ held \subseteq Resource /\ creating \in Place
  /\ pc \in {"idle", "entry", "write", "read", "transmit", "receive",
              "send", "resp_length", "response", "ack", "submit"}
  /\ cmd \in 0..MaxCommand
  /\ capacity \in RespCapacity \cup {0} /\ resp_len \in 0..capacity /\ filled \in 0..capacity
  /\ retval \in {OK, MU_FAILURE}
  /\ got \in {-1, 0} \cup Command /\ reply \in {-1, 0} \cup Command
  /\ executed \subseteq Command

(* What a handle needs is held: itself, and what its flags name.           *)
Needed == IF comm = "null" THEN {}
          ELSE {"info"} \cup (CASE "SYS_DEV" \in conn_info -> {"fd"}
                                [] "SOCKET" \in conn_info -> {"sock"}
                                [] "TCTI" \in conn_info -> {"lib", "ctx"})

(* Over the device and over abrmd a submit that returns 0 returns the      *)
(* reply to its own command, even after submits that failed half way and   *)
(* left a reply behind (write_data_to_tpm, TCTI_CTX::transmit).            *)
ReplyIsOwn ==
  [][pc # "idle" /\ pc' = "idle" /\ retval' = OK /\ "SOCKET" \notin conn_info
       => reply' = cmd]_vars

(* *resp_len says how much of the caller's buffer the reply fills, also    *)
(* when abrmd does not tell.                                               *)
LengthIsTrue ==
  [][pc # "idle" /\ pc' = "idle" /\ retval' = OK
       => resp_len' = filled' /\ filled' <= capacity]_vars

(* The resource manager that runs is the one conn_info says, and nothing   *)
(* has gone wrong on its socket.                                           *)
Agreed == "SOCKET" \in conn_info =>
            ~failed /\ ("OLD_UM_TRM" \in conn_info <=> machine.daemon = "old")

(* tpm_comm_create returns, and so does a submit as long as host and       *)
(* resource manager agree on the frames: where the files of an old one are *)
(* found beside a new one that runs, both wait for ever.                   *)
CallReturns ==
  (creating # "no" \/ (pc # "idle" /\ Agreed)) ~> (pc = "idle" /\ creating = "no")
=============================================================================
