--------------------------- MODULE TransportProofs ---------------------------
(***************************************************************************)
(* Proofs about Transport: tpm_comm_linux.c and tpm_comm_win32.c on every  *)
(* machine, for every number of commands up to 255, every size of a        *)
(* response and of a buffer, and every set of faults.  First what they     *)
(* hold and whose reply they return; then both as a CommandChannel: which  *)
(* command is in the packet slot or on the socket's two streams, that the  *)
(* one that runs is the one in progress, and that a submit which works     *)
(* returns the reply to its own command.                                   *)
(***************************************************************************)
EXTENDS Transport, SequenceTheorems, TLAPS

(* What tpm_comm_create may set conn_info to.                              *)
Connection ==
  {{"SYS_DEV", "TRM"}, {"SYS_DEV"}, {"TCTI", "TRM"},
   {"SOCKET", "OLD_UM_TRM"}, {"SOCKET", "TRM"}}

Packet == [state : {"empty", "sent", "orphan", "replied"}, cmd : 0..MaxCommand, len : Nat]

(* The types that TypeOK leaves open.                                      *)
Shape ==
  /\ platform \in {"linux", "windows"}
  /\ slot \in Packet /\ (slot.state # "empty" => slot.cmd \in Command)
  /\ out \in Seq(Nat) /\ in \in Seq(Nat) /\ cmdBytes \in Seq(Nat)
  /\ sends \in Seq(Seq(Nat)) /\ daemonPos \in Nat

(* Which calls are made on which handle: a submit only takes the steps of  *)
(* the transport that conn_info names.                                     *)
PathInv ==
  /\ pc # "idle" => comm = "open" /\ cmd \in Command
  /\ creating # "no" => comm = "null" /\ slot.state = "empty" /\ peer = "down"
  /\ platform = "windows" => /\ pc \in {"idle", "submit"} /\ conn_info = {}
                             /\ slot.state = "empty" /\ peer = "down"
  /\ platform = "linux" =>
       /\ pc # "submit"
       /\ comm = "null" => conn_info = {}
       /\ comm = "open" => conn_info \in Connection
  /\ pc \in {"write", "read"} => "SYS_DEV" \in conn_info
  /\ pc \in {"transmit", "receive"} => "TCTI" \in conn_info
  /\ pc \in {"send", "resp_length", "response", "ack"} => "SOCKET" \in conn_info
  /\ pc = "send" => sends # << >>
  /\ pc = "ack" => filled = resp_len

TypeInv == TypeOK /\ Shape /\ PathInv

(* Whoever fetches a reply finds the one to its own command in the slot:   *)
(* no other submit gets a command past one that is there.                  *)
SlotInv == pc \in {"read", "receive"} /\ slot.state # "empty" => slot.cmd = cmd

-----------------------------------------------------------------------------
(* A part of a byte string is one.                                         *)
LEMMA PartTyped ==
  ASSUME NEW s \in Seq(Nat), NEW m \in Nat \ {0}, NEW n \in Nat, n <= Len(s)
  PROVE  SubSeq(s, m, n) \in Seq(Nat)
<1>1. \A i \in m..n : s[i] \in Nat
  BY LenProperties
<1> QED BY <1>1, SubSeqProperties

(* Two sequences one after the other are as long as both.                  *)
LEMMA JoinTyped ==
  ASSUME NEW T, NEW s \in Seq(T), NEW t \in Seq(T)
  PROVE  /\ s \o t \in Seq(T) /\ Len(s \o t) = Len(s) + Len(t)
         /\ Len(s) \in Nat /\ Len(t) \in Nat
BY ConcatProperties, LenProperties

(* Four numbers that stand next to each other are the value of a word.     *)
LEMMA ValueTyped ==
  ASSUME NEW s, s[1] \in Nat, s[2] \in Nat, s[3] \in Nat, s[4] \in Nat
  PROVE  Value(s) \in Nat
BY SMT DEF Value

(* A word is four bytes, and a natural number again.                       *)
LEMMA WordTyped ==
  /\ \A n \in Nat : Word(n) \in Seq(Nat)
  /\ \A s \in Seq(Nat) : Len(s) >= WordLen => Value(s) \in Nat
<1>1. ASSUME NEW n \in Nat PROVE Word(n) \in Seq(Nat)
  <2>1. /\ (n \div 16777216) % 256 \in Nat /\ (n \div 65536) % 256 \in Nat
        /\ (n \div 256) % 256 \in Nat /\ n % 256 \in Nat
    BY SMT
  <2> QED BY <2>1, SMT DEF Word
<1>2. ASSUME NEW s \in Seq(Nat), Len(s) >= WordLen PROVE Value(s) \in Nat
  <2>1. \A i \in 1..4 : s[i] \in Nat
    BY <1>2, LenProperties DEF WordLen
  <2>2. s[1] \in Nat /\ s[2] \in Nat /\ s[3] \in Nat /\ s[4] \in Nat
    BY <2>1
  <2> QED BY <2>2, ValueTyped
<1> QED BY <1>1, <1>2

(* The owner of a response is a command, or nobody.                        *)
LEMMA OwnerTyped ==
  ASSUME NEW r \in Seq(Nat), r # << >>
  PROVE  Owner(r) \in {-1} \cup Command
<1>1. 1 \in DOMAIN r
  BY LenProperties
<1> QED BY <1>1 DEF Owner

-----------------------------------------------------------------------------
(* The empty slot.                                                         *)
LEMMA EmptyTyped == Empty \in Packet /\ Empty.state = "empty"
BY LinuxAssumption DEF Packet, Empty

(* Every step of tpm_comm_create leaves the handle as it is, or opens it   *)
(* with the flags of what it found; only a socket changes the streams.     *)
LEMMA CreateDoes ==
  ASSUME Create
  PROVE  /\ creating # "no" /\ creating' \in Place
         /\ UNCHANGED <<machine, faults, callVars, pc, sends, respVars, slot, executed>>
         /\ \/ UNCHANGED <<comm, conn_info, failed, netVars>>
            \/ /\ comm' = "open" /\ failed' = FALSE /\ creating' = "no"
               /\ conn_info' \in Connection
               /\ \/ "SOCKET" \notin conn_info' /\ UNCHANGED netVars
                  \/ /\ "SOCKET" \in conn_info'
                     /\ out' = << >> /\ in' = << >> /\ daemonPos' = 0 /\ peer' = "up"
<1> DEFINE Goal == /\ creating # "no" /\ creating' \in Place
                   /\ UNCHANGED <<machine, faults, callVars, pc, sends, respVars, slot, executed>>
                   /\ \/ UNCHANGED <<comm, conn_info, failed, netVars>>
                      \/ /\ comm' = "open" /\ failed' = FALSE /\ creating' = "no"
                         /\ conn_info' \in Connection
                         /\ \/ "SOCKET" \notin conn_info' /\ UNCHANGED netVars
                            \/ /\ "SOCKET" \in conn_info'
                               /\ out' = << >> /\ in' = << >> /\ daemonPos' = 0 /\ peer' = "up"
<1>1. ASSUME NEW from \in Place, from # "no", NEW f \in Connection, "SOCKET" \notin f,
             Opened(from, f), UNCHANGED netVars
      PROVE  Goal
  BY <1>1 DEF Opened, Place
<1>2. /\ {"SYS_DEV", "TRM"} \in Connection /\ {"SYS_DEV"} \in Connection
      /\ {"TCTI", "TRM"} \in Connection
      /\ \A f \in {"OLD_UM_TRM", "TRM"} : {"SOCKET", f} \in Connection
  BY Zenon DEF Connection
<1>3. ASSUME NEW f \in {"OLD_UM_TRM", "TRM"}, Opened("trm", {"SOCKET", f}),
             out' = << >> /\ in' = << >> /\ daemonPos' = 0 /\ peer' = "up"
      PROVE  Goal
  <2>1. conn_info' = {"SOCKET", f} /\ conn_info' \in Connection
    BY <1>2, <1>3 DEF Opened
  <2> QED BY <1>3, <2>1 DEF Opened, Place
<1>4. CASE OpenRmDevice
  <2>1. CASE Opened("open_rm", {"SYS_DEV", "TRM"}) /\ UNCHANGED netVars
    <3>1. {"SYS_DEV", "TRM"} \in Connection /\ "SOCKET" \notin {"SYS_DEV", "TRM"} /\ "open_rm" \in Place
      BY <1>2 DEF Place
    <3> QED BY <1>1, <2>1, <3>1, Zenon
  <2>2. CASE GoesOn("open_rm", "open_raw")
    BY <2>2 DEF GoesOn, Place
  <2> QED BY <1>4, <2>1, <2>2 DEF OpenRmDevice
<1>5. CASE OpenDevice
  <2>1. CASE Opened("open_raw", {"SYS_DEV"}) /\ UNCHANGED netVars
    <3>1. {"SYS_DEV"} \in Connection /\ "SOCKET" \notin {"SYS_DEV"} /\ "open_raw" \in Place
      BY <1>2 DEF Place
    <3> QED BY <1>1, <2>1, <3>1, Zenon
  <2>2. CASE GoesOn("open_raw", "dlopen")
    BY <2>2 DEF GoesOn, Place
  <2> QED BY <1>5, <2>1, <2>2 DEF OpenDevice
<1>6. CASE LoadAbrmd \/ AllocateTcti \/ UnloadAbrmd \/ CreateFails
  BY <1>6 DEF LoadAbrmd, AllocateTcti, UnloadAbrmd, CreateFails, GoesOn, Place
<1>7. CASE InitTcti
  <2>1. CASE Opened("init", {"TCTI", "TRM"}) /\ UNCHANGED netVars
    <3>1. {"TCTI", "TRM"} \in Connection /\ "SOCKET" \notin {"TCTI", "TRM"} /\ "init" \in Place
      BY <1>2 DEF Place
    <3> QED BY <1>1, <2>1, <3>1, Zenon
  <2>2. CASE GoesOn("init", "unload")
    BY <2>2 DEF GoesOn, Place
  <2> QED BY <1>7, <2>1, <2>2 DEF InitTcti
<1>8. CASE ConnectTrm
  <2>1. CASE GoesOn("trm", "give_up")
    BY <2>1 DEF GoesOn, Place
  <2>2. CASE /\ \E f \in {"OLD_UM_TRM", "TRM"} : Opened("trm", {"SOCKET", f})
             /\ out' = << >> /\ in' = << >> /\ daemonPos' = 0 /\ peer' = "up"
    BY <1>3, <2>2, Zenon
  <2>3. \/ GoesOn("trm", "give_up")
        \/ /\ \E f \in {"OLD_UM_TRM", "TRM"} : Opened("trm", {"SOCKET", f})
           /\ out' = << >> /\ in' = << >> /\ daemonPos' = 0 /\ peer' = "up"
    BY <1>8, Zenon DEF ConnectTrm
  <2> QED BY <2>1, <2>2, <2>3
<1> QED BY <1>4, <1>5, <1>6, <1>7, <1>8, Zenon DEF Create

(* What it has acquired at any point is one of the resources.              *)
LEMMA CreateHolds ==
  ASSUME Create, held \subseteq Resource
  PROVE  held' \subseteq Resource
BY DEF Create, OpenRmDevice, OpenDevice, LoadAbrmd, AllocateTcti, InitTcti, UnloadAbrmd, ConnectTrm,
       CreateFails, Resource

(* tpm_comm_create keeps the types, whatever it finds.                     *)
LEMMA CreateTyped ==
  ASSUME TypeInv, platform = "linux", platform' = platform, Create
  PROVE  TypeInv'
<1>1. held' \subseteq Resource
  BY CreateHolds DEF TypeInv, TypeOK
<1>2. /\ creating # "no" /\ creating' \in Place
      /\ UNCHANGED <<machine, faults, callVars, pc, sends, respVars, slot, executed>>
      /\ << >> \in Seq(Nat) /\ comm = "null" /\ pc = "idle"
  BY CreateDoes DEF TypeInv, PathInv
<1>3. CASE UNCHANGED <<comm, conn_info, failed, netVars>>
  BY <1>1, <1>2, <1>3 DEF callVars, respVars, netVars, TypeInv, TypeOK, Shape, PathInv
<1>4. CASE /\ comm' = "open" /\ failed' = FALSE /\ creating' = "no" /\ conn_info' \in Connection
           /\ \/ UNCHANGED netVars
              \/ out' = << >> /\ in' = << >> /\ daemonPos' = 0 /\ peer' = "up"
  <2>1. conn_info' \subseteq {"SYS_DEV", "SOCKET", "OLD_UM_TRM", "TCTI", "TRM"}
    BY <1>4 DEF Connection
  <2>2. TypeOK'
    BY <1>1, <1>2, <1>4, <2>1 DEF callVars, respVars, TypeInv, TypeOK
  <2>3. Shape'
    <3>1. out' \in Seq(Nat) /\ in' \in Seq(Nat) /\ daemonPos' \in Nat
      <4>1. out \in Seq(Nat) /\ in \in Seq(Nat) /\ daemonPos \in Nat /\ 0 \in Nat
        BY DEF TypeInv, Shape
      <4> QED BY <1>2, <1>4, <4>1, Zenon DEF netVars
    <3> QED BY <1>2, <3>1 DEF callVars, TypeInv, Shape
  <2>4. PathInv'
    BY <1>2, <1>4 DEF callVars, respVars, TypeInv, PathInv
  <2> QED BY <2>2, <2>3, <2>4 DEF TypeInv
<1> QED BY <1>3, <1>4, CreateDoes

(* The call of tpm_comm_create itself.                                     *)
LEMMA CreateCallTyped ==
  ASSUME TypeInv, platform = "linux", platform' = platform, CreateCall
  PROVE  TypeInv'
BY DEF CreateCall, Resource, Place, callVars, respVars, netVars, TypeInv, TypeOK, Shape, PathInv

(* tpm_comm_destroy gives back what the flags name.                        *)
LEMMA ReleasedIs ==
  /\ \A f \in {{"SYS_DEV", "TRM"}, {"SYS_DEV"}} : Released(f) = held \ {"fd", "info"}
  /\ Released({"TCTI", "TRM"}) = (held \ {"lib", "ctx", "info"}) \cup {"stray"}
  /\ \A t \in {"OLD_UM_TRM", "TRM"} : Released({"SOCKET", t}) = held \ {"sock", "info"}
<1>1. ASSUME NEW f, "SYS_DEV" \in f, "SOCKET" \notin f, "TCTI" \notin f
      PROVE  Released(f) = held \ {"fd", "info"}
  BY <1>1, Zenon DEF Released
<1>2. ASSUME NEW f, "SYS_DEV" \notin f, "SOCKET" \notin f, "TCTI" \in f
      PROVE  Released(f) = (held \ {"lib", "ctx", "info"}) \cup {"stray"}
  BY <1>2, Zenon DEF Released
<1>3. ASSUME NEW f, "SYS_DEV" \notin f, "SOCKET" \in f, "TCTI" \notin f
      PROVE  Released(f) = held \ {"sock", "info"}
  BY <1>3, Zenon DEF Released
<1> QED BY <1>1, <1>2, <1>3

(* So does tpm_comm_destroy, which may leave a command in the slot.        *)
LEMMA DestroyTyped ==
  ASSUME TypeInv, platform = "linux", platform' = platform, Destroy
  PROVE  TypeInv'
<1>1. /\ pc = "idle" /\ comm' = "null" /\ conn_info' = {} /\ failed' = FALSE /\ in' = << >>
      /\ UNCHANGED <<machine, faults, creating, callVars, pc, sends, respVars, daemonPos, executed>>
  BY Zenon DEF Destroy
<1>2. held' \subseteq Resource
  <2>1. Released(conn_info) \in {held \ {"fd", "info"}, held \ {"sock", "info"},
                                (held \ {"lib", "ctx", "info"}) \cup {"stray"}}
    BY ReleasedIs DEF Destroy, TypeInv, PathInv, Connection
  <2> QED BY <2>1 DEF Destroy, TypeInv, TypeOK, Resource
<1>3. out' \in Seq(Nat)
  <2> DEFINE bye == Word(REMOTE_SESSION_END_CMD)
  <2>1. bye \in Seq(Nat)
    BY WordTyped DEF REMOTE_SESSION_END_CMD
  <2>2. ASSUME NEW m \in Prefixes(bye) PROVE m \in Seq(Nat)
    <3> HIDE DEF bye
    <3>1. PICK n \in 0..Len(bye) : m = SubSeq(bye, 1, n)
      BY DEF Prefixes
    <3> QED BY <2>1, <3>1, PartTyped, LenProperties
  <2>3. \/ out' = out
        \/ out' = out \o bye
        \/ \E m \in Prefixes(bye) : out' = out \o m
    BY Zenon DEF Destroy
  <2>4. out \in Seq(Nat) /\ \A m \in Seq(Nat) : out \o m \in Seq(Nat)
    BY ConcatProperties DEF TypeInv, Shape
  <2> HIDE DEF bye
  <2> QED BY <2>1, <2>2, <2>3, <2>4
<1>4. slot' \in Packet /\ (slot'.state # "empty" => slot'.cmd \in Command)
  <2>1. slot \in Packet /\ (slot.state # "empty" => slot.cmd \in Command)
    BY DEF TypeInv, Shape
  <2>2. CASE slot.state = "replied"
    <3>1. slot' = Empty
      BY <2>2, Zenon DEF Destroy
    <3> QED BY <3>1, EmptyTyped
  <2>3. CASE slot.state = "sent"
    <3>1. slot' = [slot EXCEPT !.state = "orphan"]
      BY <2>3, Zenon DEF Destroy
    <3> QED BY <2>1, <2>3, <3>1 DEF Packet
  <2>4. CASE slot.state \notin {"replied", "sent"}
    <3>1. slot' = slot
      BY <2>4, Zenon DEF Destroy
    <3> QED BY <2>1, <3>1
  <2> QED BY <2>2, <2>3, <2>4
<1>5. in' \in Seq(Nat)
  BY <1>1
<1>6. TypeOK'
  BY <1>1, <1>2 DEF TypeInv, TypeOK, callVars, respVars
<1>7. Shape'
  BY <1>1, <1>3, <1>4, <1>5 DEF TypeInv, Shape, callVars
<1>8. PathInv'
  BY <1>1 DEF Destroy, TypeInv, PathInv, callVars, respVars
<1> QED BY <1>6, <1>7, <1>8 DEF TypeInv
-----------------------------------------------------------------------------
(* The variables between host and TPM are of their types after a step.     *)
NetTyped ==
  /\ slot \in Packet /\ (slot.state # "empty" => slot.cmd \in Command)
  /\ out \in Seq(Nat) /\ in \in Seq(Nat) /\ daemonPos \in Nat

(* A submit that fails ...                                                 *)
LEMMA FailsTyped ==
  ASSUME TypeInv, platform = "linux", platform' = platform, Fails, resp_len' = resp_len, NetTyped',
         pc # "idle"
  PROVE  TypeInv'
<1>1. << >> \in Seq(Seq(Nat))
  OBVIOUS
<1>2. TypeOK'
  BY DEF Fails, callVars, TypeInv, TypeOK
<1>3. Shape'
  BY <1>1 DEF Fails, callVars, TypeInv, Shape, NetTyped
<1>4. PathInv'
  BY DEF Fails, callVars, TypeInv, PathInv
<1> QED BY <1>2, <1>3, <1>4 DEF TypeInv

(* ... and one that returns 0 keep the types.                              *)
LEMMA SucceedsTyped ==
  ASSUME TypeInv, platform = "linux", platform' = platform, NetTyped', pc # "idle",
         NEW c \in {-1, 0} \cup Command, NEW n \in 0..capacity, NEW m \in 0..capacity,
         Succeeds(c, n, m)
  PROVE  TypeInv'
<1>1. TypeOK'
  BY DEF Succeeds, handleVars, callVars, TypeInv, TypeOK
<1>2. Shape'
  BY DEF Succeeds, handleVars, callVars, TypeInv, Shape, NetTyped
<1>3. PathInv'
  BY DEF Succeeds, handleVars, callVars, TypeInv, PathInv
<1> QED BY <1>1, <1>2, <1>3 DEF TypeInv

(* A call of tpm_comm_submit_command begins.                               *)
LEMMA SubmitCallTyped ==
  ASSUME TypeInv, platform = "linux", platform' = platform,
         NEW c \in Command, NEW n \in RespCapacity, NEW b \in {<<c, c>>, << >>}, SubmitCall(c, b, n)
  PROVE  TypeInv'
<1>1. b \in Seq(Nat) /\ n \in Nat
  <2>1. c \in Nat /\ n \in Nat
    BY LinuxAssumption DEF Command
  <2>2. <<c, c>> \in Seq(Nat) /\ << >> \in Seq(Nat)
    BY <2>1
  <2> QED BY <2>1, <2>2
<1>2. TypeOK'
  BY <1>1, LinuxAssumption DEF SubmitCall, handleVars, Command, TypeInv, TypeOK
<1>3. Shape'
  BY <1>1 DEF SubmitCall, handleVars, netVars, TypeInv, Shape
<1>4. PathInv'
  BY DEF SubmitCall, handleVars, TypeInv, PathInv
<1> QED BY <1>2, <1>3, <1>4 DEF TypeInv

(* The messages of a submit are byte strings, and there are some.          *)
LEMMA MessagesTyped ==
  ASSUME cmdBytes \in Seq(Nat)
  PROVE  Messages \in Seq(Seq(Nat)) /\ Messages # << >>
<1>1. Len(cmdBytes) \in Nat
  BY LenProperties
<1>2. /\ Word(REMOTE_SEND_COMMAND) \in Seq(Nat) /\ Word(Len(cmdBytes)) \in Seq(Nat)
      /\ << 0 >> \in Seq(Nat) /\ << 1 >> \in Seq(Nat)
  BY <1>1, WordTyped DEF REMOTE_SEND_COMMAND
<1>3. CASE "OLD_UM_TRM" \in conn_info
  BY <1>2, <1>3 DEF Messages
<1>4. CASE "OLD_UM_TRM" \notin conn_info
  BY <1>2, <1>4 DEF Messages
<1> QED BY <1>3, <1>4

(* The device and abrmd: a packet down, a packet up.                       *)
LEMMA PacketStepTyped ==
  ASSUME TypeInv, platform = "linux", platform' = platform,
         SubmitRefused \/ SubmitStarts \/ DeviceWrite \/ TctiTransmit \/ DeviceRead \/ TctiReceive
  PROVE  TypeInv'
<1>1. NetTyped
  BY DEF TypeInv, Shape, NetTyped
<1>2. CASE SubmitRefused
  <2>1. NetTyped'
    BY <1>1, <1>2 DEF SubmitRefused, netVars, NetTyped
  <2> QED BY <1>2, <2>1, FailsTyped DEF SubmitRefused
<1>3. CASE SubmitStarts
  <2>1. Messages \in Seq(Seq(Nat)) /\ Messages # << >>
    BY MessagesTyped DEF TypeInv, Shape
  <2>2. /\ pc = "entry"
        /\ \/ "SYS_DEV" \in conn_info /\ pc' = "write" /\ UNCHANGED sends
           \/ "TCTI" \in conn_info /\ pc' = "transmit" /\ UNCHANGED sends
           \/ "SOCKET" \in conn_info /\ pc' = "send" /\ sends' = Messages
    <3>1. "SYS_DEV" \in conn_info \/ "TCTI" \in conn_info \/ "SOCKET" \in conn_info
      BY <1>3 DEF SubmitStarts, TypeInv, PathInv, TypeOK, Connection
    <3> QED BY <1>3, <3>1, Zenon DEF SubmitStarts
  <2>3. UNCHANGED <<handleVars, callVars, respVars, slot, netVars, executed>>
    BY <1>3, Zenon DEF SubmitStarts
  <2>4. TypeOK'
    BY <2>2, <2>3 DEF handleVars, callVars, respVars, TypeInv, TypeOK
  <2>5. Shape'
    BY <2>1, <2>2, <2>3 DEF callVars, netVars, TypeInv, Shape
  <2>6. PathInv'
    BY <2>1, <2>2, <2>3 DEF handleVars, callVars, respVars, TypeInv, PathInv
  <2> QED BY <2>4, <2>5, <2>6 DEF TypeInv
<1>4. ASSUME NEW next \in {"read", "receive"}, PacketSent(next),
             next = "read" => "SYS_DEV" \in conn_info, next = "receive" => "TCTI" \in conn_info,
             pc \in {"write", "transmit"}
      PROVE  TypeInv'
  <2>1. slot' \in Packet /\ slot'.cmd \in Command
    BY <1>4, LinuxAssumption DEF PacketSent, Sent, Packet, TypeInv, PathInv, Command
  <2>2. TypeOK'
    BY <1>4 DEF PacketSent, handleVars, callVars, respVars, TypeInv, TypeOK
  <2>3. Shape'
    BY <1>4, <2>1 DEF PacketSent, callVars, netVars, TypeInv, Shape
  <2>4. PathInv'
    BY <1>4 DEF PacketSent, handleVars, callVars, respVars, TypeInv, PathInv
  <2> QED BY <2>2, <2>3, <2>4 DEF TypeInv
<1>5. ASSUME PacketFails, pc \in {"write", "transmit"} PROVE TypeInv'
  <2>1. slot' \in {slot, Orphan}
    BY <1>5 DEF PacketFails
  <2>2. Orphan \in Packet /\ Orphan.cmd \in Command
    BY <1>5, LinuxAssumption DEF Orphan, Sent, Packet, TypeInv, PathInv, Command
  <2>3. NetTyped'
    BY <1>1, <1>5, <2>1, <2>2 DEF PacketFails, netVars, NetTyped
  <2> QED BY <1>5, <2>3, FailsTyped DEF PacketFails
<1>6. CASE DeviceWrite
  BY <1>4, <1>5, <1>6 DEF DeviceWrite, TypeInv, PathInv
<1>7. CASE TctiTransmit
  BY <1>4, <1>5, <1>7 DEF TctiTransmit, TypeInv, PathInv
<1>8. slot.len \in Nat /\ resp_len \in 0..capacity /\ capacity \in Nat
      /\ (slot.state # "empty" => slot.cmd \in {-1, 0} \cup Command)
  BY LinuxAssumption DEF TypeInv, TypeOK, Shape, Packet
<1>9. slot' \in {slot, Empty} /\ UNCHANGED netVars => NetTyped'
  BY <1>1, EmptyTyped DEF NetTyped, netVars
<1>10. CASE DeviceRead
  <2>1. NetTyped' /\ pc # "idle"
    BY <1>9, <1>10 DEF DeviceRead
  <2>2. CASE slot.state = "replied" /\ Succeeds(slot.cmd, Least(slot.len, resp_len), Least(slot.len, resp_len))
    <3>1. Least(slot.len, resp_len) \in 0..capacity
      BY <1>8 DEF Least
    <3> QED BY <1>8, <2>1, <2>2, <3>1, SucceedsTyped
  <2>3. CASE Fails /\ UNCHANGED resp_len
    BY <2>1, <2>3, FailsTyped
  <2> QED BY <1>10, <2>2, <2>3 DEF DeviceRead
<1>11. CASE TctiReceive
  <2>1. NetTyped' /\ pc # "idle"
    BY <1>9, <1>11 DEF TctiReceive
  <2>2. ASSUME NEW n \in {slot.len, resp_len}, slot.state = "replied", slot.len <= resp_len,
               Succeeds(slot.cmd, slot.len, Least(slot.len, n))
        PROVE  TypeInv'
    <3>1. slot.len \in 0..capacity /\ Least(slot.len, n) \in 0..capacity
      BY <1>8, <2>2 DEF Least
    <3> QED BY <1>8, <2>1, <2>2, <3>1, SucceedsTyped
  <2>3. CASE Fails /\ UNCHANGED resp_len
    BY <2>1, <2>3, FailsTyped
  <2> QED BY <1>11, <2>2, <2>3 DEF TctiReceive
<1> QED BY <1>2, <1>3, <1>6, <1>7, <1>10, <1>11
-----------------------------------------------------------------------------
(* A read from the socket leaves the bytes behind what it took.            *)
LEMMA ReadTyped ==
  ASSUME in \in Seq(Nat), NEW n \in Nat
  PROVE  /\ Taken(n) => in' \in Seq(Nat)
         /\ NotTaken(n) => in' \in Seq(Nat)
<1>1. ASSUME Taken(n) PROVE in' \in Seq(Nat)
  <2>1. Len(in) \in Nat /\ in' = SubSeq(in, n + 1, Len(in))
    BY <1>1, LenProperties DEF Taken
  <2> QED BY <2>1, PartTyped
<1>2. << >> \in Seq(Nat)
  OBVIOUS
<1>3. NotTaken(n) => in' \in Seq(Nat)
  BY <1>2 DEF NotTaken
<1> QED BY <1>1, <1>3

(* A message goes out whole, or a prefix of it and the submit fails.       *)
LEMMA SocketSendTyped ==
  ASSUME TypeInv, platform = "linux", platform' = platform, SocketSend
  PROVE  TypeInv'
<1> DEFINE m == Head(sends)
<1>1. pc = "send" /\ sends \in Seq(Seq(Nat)) /\ sends # << >> /\ out \in Seq(Nat) /\ NetTyped
  BY DEF SocketSend, TypeInv, Shape, PathInv, NetTyped
<1>2. m \in Seq(Nat) /\ Tail(sends) \in Seq(Seq(Nat)) /\ Len(Tail(sends)) = Len(sends) - 1
      /\ Len(sends) \in Nat
  BY <1>1, HeadTailProperties, LenProperties
<1> HIDE DEF m
<1>3. out \o m \in Seq(Nat) /\ \A s \in Prefixes(m) : out \o s \in Seq(Nat)
  <2>1. ASSUME NEW s \in Prefixes(m) PROVE s \in Seq(Nat)
    <3>1. PICK n \in 0..Len(m) : s = SubSeq(m, 1, n)
      BY DEF Prefixes
    <3> QED BY <1>2, <3>1, PartTyped, LenProperties
  <2> QED BY <1>1, <1>2, <2>1, JoinTyped
<1>4. UNCHANGED <<slot, in, daemonPos, peer>>
  BY DEF SocketSend
<1>5. \/ /\ out' = out \o m /\ sends' = Tail(sends)
         /\ pc' = IF Len(sends) = 1 THEN "resp_length" ELSE "send"
         /\ UNCHANGED <<handleVars, callVars, respVars, executed>>
      \/ (\E s \in Prefixes(m) : out' = out \o s) /\ Fails /\ UNCHANGED resp_len
  BY Zenon DEF SocketSend, m
<1>6. out' \in Seq(Nat) /\ NetTyped'
  BY <1>1, <1>3, <1>4, <1>5 DEF NetTyped
<1>7. CASE /\ out' = out \o m /\ sends' = Tail(sends)
           /\ pc' = IF Len(sends) = 1 THEN "resp_length" ELSE "send"
           /\ UNCHANGED <<handleVars, callVars, respVars, executed>>
  <2>1. pc' \in {"send", "resp_length"} /\ (pc' = "send" => sends' # << >>)
    <3>1. Len(<< >>) = 0
      OBVIOUS
    <3>2. Len(sends) # 1 => Len(Tail(sends)) # 0
      BY <1>2
    <3>3. Len(sends) # 1 => Tail(sends) # << >>
      BY <3>1, <3>2, Zenon
    <3> QED BY <1>7, <3>3
  <2>2. TypeOK'
    BY <1>7, <2>1 DEF handleVars, callVars, respVars, TypeInv, TypeOK
  <2>3. Shape'
    BY <1>2, <1>6, <1>7 DEF callVars, TypeInv, Shape, NetTyped
  <2>4. PathInv'
    BY <1>1, <1>4, <1>7, <2>1 DEF handleVars, callVars, respVars, TypeInv, PathInv
  <2> QED BY <2>2, <2>3, <2>4 DEF TypeInv
<1>8. CASE Fails /\ UNCHANGED resp_len
  BY <1>1, <1>6, <1>8, FailsTyped
<1> QED BY <1>5, <1>7, <1>8

(* The three reads of a submit: the length, the response, the end of it.   *)
LEMMA SocketReadTyped ==
  ASSUME TypeInv, platform = "linux", platform' = platform,
         ReadLength \/ ReadResponse \/ ReadAck
  PROVE  TypeInv'
<1>1. /\ in \in Seq(Nat) /\ NetTyped /\ resp_len \in 0..capacity /\ capacity \in Nat
      /\ filled \in 0..capacity /\ got \in {-1, 0} \cup Command
      /\ pc \in {"resp_length", "response", "ack"} /\ WordLen \in Nat
      /\ UNCHANGED <<slot, out, daemonPos, peer>>
  BY LinuxAssumption
     DEF TypeInv, TypeOK, Shape, NetTyped, WordLen, ReadLength, ReadResponse, ReadAck
<1>2. in' \in Seq(Nat) /\ NetTyped'
  <2>1. resp_len \in Nat
    BY <1>1
  <2>2. \E n \in {WordLen, resp_len} : Taken(n) \/ NotTaken(n)
    BY DEF ReadLength, ReadResponse, ReadAck
  <2>3. in' \in Seq(Nat)
    BY <1>1, <2>1, <2>2, ReadTyped
  <2> QED BY <1>1, <2>3 DEF NetTyped
<1>3. CASE Fails /\ UNCHANGED resp_len
  BY <1>1, <1>2, <1>3, FailsTyped
<1>4. ASSUME ReadLength, Taken(WordLen), Value(in) <= resp_len,
             resp_len' = Value(in), pc' = "response",
             UNCHANGED <<handleVars, callVars, sends, filled, got, retval, reply, executed>>
      PROVE  TypeInv'
  <2>1. Value(in) \in Nat
    BY <1>1, <1>4, WordTyped DEF Taken
  <2>2. resp_len' \in 0..capacity'
    BY <1>1, <1>4, <2>1 DEF callVars
  <2>3. TypeOK'
    BY <1>4, <2>2 DEF handleVars, callVars, TypeInv, TypeOK
  <2>4. Shape'
    BY <1>2, <1>4 DEF callVars, TypeInv, Shape, NetTyped
  <2>5. PathInv'
    BY <1>1, <1>4 DEF handleVars, callVars, ReadLength, TypeInv, PathInv
  <2> QED BY <2>3, <2>4, <2>5 DEF TypeInv
<1>5. ASSUME ReadResponse, Taken(resp_len),
             got' = Owner(SubSeq(in, 1, resp_len)), filled' = resp_len, pc' = "ack",
             UNCHANGED <<handleVars, callVars, sends, resp_len, retval, reply, executed>>
      PROVE  TypeInv'
  <2> DEFINE r == SubSeq(in, 1, resp_len)
  <2>1. r \in Seq(Nat) /\ r # << >>
    <3>1. resp_len \in Nat /\ resp_len > 0 /\ resp_len <= Len(in)
      BY <1>1, <1>5, LenProperties DEF Taken
    <3>2. r \in Seq(Nat)
      BY <1>1, <3>1, PartTyped
    <3>3. Len(r) = resp_len
      BY <1>1, <3>1, SubSeqProperties, LenProperties
    <3> QED BY <3>1, <3>2, <3>3
  <2> HIDE DEF r
  <2>2. got' \in {-1, 0} \cup Command
    BY <1>5, <2>1, OwnerTyped DEF r
  <2>3. TypeOK'
    BY <1>1, <1>5, <2>2 DEF handleVars, callVars, TypeInv, TypeOK
  <2>4. Shape'
    BY <1>2, <1>5 DEF callVars, TypeInv, Shape, NetTyped
  <2>5. PathInv'
    BY <1>1, <1>5 DEF handleVars, callVars, ReadResponse, TypeInv, PathInv
  <2> QED BY <2>3, <2>4, <2>5 DEF TypeInv
<1>6. CASE Succeeds(got, filled, resp_len)
  BY <1>1, <1>2, <1>6, SucceedsTyped
<1> QED BY <1>3, <1>4, <1>5, <1>6 DEF ReadLength, ReadResponse, ReadAck
-----------------------------------------------------------------------------
(* What the resource manager makes of the bytes it has not consumed.       *)
LEMMA PendingTyped ==
  ASSUME out \in Seq(Nat), daemonPos \in Nat, CommandReady
  PROVE  /\ Pending \in Seq(Nat) /\ HeaderLen \in Nat /\ CommandLen \in Nat
         /\ HeaderLen + CommandLen <= Len(Pending)
         /\ CommandLen # 0 => Pending[HeaderLen + 1] \in Nat
<1>1. Pending \in Seq(Nat)
  BY PartTyped, LenProperties DEF Pending
<1>2. HeaderLen \in {9, 11} /\ Len(Pending) >= HeaderLen
  BY DEF HeaderLen, WordLen, CommandReady
<1>3. CommandLen \in Nat
  <2> DEFINE i == HeaderLen - WordLen + 1
             w == SubSeq(Pending, i, i + WordLen - 1)
  <2>1. i \in Nat \ {0} /\ i + WordLen - 1 = HeaderLen
    BY <1>2 DEF WordLen
  <2>2. w \in Seq(Nat)
    BY <1>1, <1>2, <2>1, PartTyped
  <2>3. Len(w) >= WordLen
    BY <1>1, <1>2, <2>1, SubSeqProperties, LenProperties DEF WordLen
  <2> HIDE DEF i, w
  <2>4. Value(w) \in Nat
    BY <2>2, <2>3, WordTyped
  <2>5. CommandLen = Value(w)
    BY DEF CommandLen, PendingWord, i, w
  <2> QED BY <2>4, <2>5
<1>4. HeaderLen + CommandLen <= Len(Pending) /\ Len(Pending) \in Nat
  BY <1>1, <1>2, <1>3, LenProperties DEF CommandReady
<1>5. CommandLen # 0 => HeaderLen + 1 \in DOMAIN Pending
  BY <1>1, <1>2, <1>3, <1>4, LenProperties
<1>6. CommandLen # 0 => Pending[HeaderLen + 1] \in Nat
  BY <1>1, <1>5
<1> QED BY <1>1, <1>2, <1>3, <1>4, <1>6

(* The TPM, the driver and the resource manager keep the types.            *)
LEMMA OutsideTyped ==
  ASSUME TypeInv, platform = "linux", platform' = platform, Outside
  PROVE  TypeInv'
<1>1. NetTyped /\ slot \in Packet
  BY DEF TypeInv, Shape, NetTyped
<1>2. ASSUME NetTyped', executed' \subseteq Command, platform = "linux",
             creating # "no" => slot'.state = "empty" /\ peer' = "down",
             UNCHANGED <<handleVars, callVars, pc, sends, respVars>>
      PROVE  TypeInv'
  <2>1. TypeOK'
    BY <1>2 DEF handleVars, callVars, respVars, TypeInv, TypeOK
  <2>2. Shape'
    BY <1>2 DEF handleVars, callVars, TypeInv, Shape, NetTyped
  <2>3. PathInv'
    BY <1>2 DEF handleVars, callVars, respVars, TypeInv, PathInv
  <2> QED BY <2>1, <2>2, <2>3 DEF TypeInv
<1>3. executed \subseteq Command
  BY DEF TypeInv, TypeOK
<1>4. CASE TpmRuns
  <2>1. slot.state \in {"sent", "orphan"} /\ slot.cmd \in Command
        /\ executed' = executed \cup {slot.cmd}
        /\ UNCHANGED <<handleVars, callVars, pc, sends, respVars, netVars>>
    BY <1>1, <1>4 DEF TpmRuns, NetTyped
  <2>2. slot' \in Packet /\ (slot'.state # "empty" => slot'.cmd \in Command)
    <3>1. CASE slot' = Empty
      BY <3>1, EmptyTyped
    <3>2. CASE \E n \in RespSize : slot' = [slot EXCEPT !.state = "replied", !.len = n]
      BY <1>1, <2>1, <3>2, LinuxAssumption DEF Packet
    <3> QED BY <1>4, <3>1, <3>2, Zenon DEF TpmRuns
  <2>3. NetTyped'
    BY <1>1, <2>1, <2>2 DEF NetTyped, netVars
  <2>4. creating = "no"
    BY <2>1 DEF TypeInv, PathInv
  <2> QED BY <1>2, <1>3, <2>1, <2>3, <2>4
<1>5. CASE DeviceDiscards
  <2>1. NetTyped'
    BY <1>1, <1>5, EmptyTyped DEF DeviceDiscards, NetTyped, netVars
  <2>2. creating = "no"
    BY <1>5 DEF DeviceDiscards, TypeInv, PathInv
  <2> QED BY <1>2, <1>3, <1>5, <2>1, <2>2 DEF DeviceDiscards
<1>6. ASSUME NEW n \in RespSize, DaemonRuns(n) PROVE TypeInv'
  <2> DEFINE c == IF CommandLen = 0 THEN 0 ELSE Pending[HeaderLen + 1]
             copy == [i \in 1..n |-> c]
  <2>1. n \in Nat /\ c \in Nat /\ HeaderLen \in Nat /\ CommandLen \in Nat
    BY <1>1, <1>6, PendingTyped, LinuxAssumption DEF DaemonRuns, NetTyped
  <2>2. /\ daemonPos' = daemonPos + HeaderLen + CommandLen
        /\ executed' = executed \cup ({c} \cap Command)
        /\ UNCHANGED <<handleVars, callVars, pc, sends, respVars, slot, out, peer>>
        /\ \/ in' = in
           \/ \E ack \in {0, 1} : in' = in \o Word(n) \o copy \o Word(ack)
    BY <1>6 DEF DaemonRuns
  <2>3. Word(n) \in Seq(Nat) /\ copy \in Seq(Nat) /\ \A ack \in {0, 1} : Word(ack) \in Seq(Nat)
    BY <2>1, WordTyped
  <2> HIDE DEF c, copy
  <2>4. in' \in Seq(Nat)
    <3>1. in \o Word(n) \in Seq(Nat)
      BY <1>1, <2>3, JoinTyped DEF NetTyped
    <3>2. in \o Word(n) \o copy \in Seq(Nat)
      BY <2>3, <3>1, JoinTyped
    <3>3. \A ack \in {0, 1} : in \o Word(n) \o copy \o Word(ack) \in Seq(Nat)
      BY <2>3, <3>2, JoinTyped
    <3> QED BY <1>1, <2>2, <3>3 DEF NetTyped
  <2>5. NetTyped'
    BY <1>1, <2>1, <2>2, <2>4 DEF NetTyped
  <2>6. creating # "no" => slot'.state = "empty" /\ peer' = "down"
    BY <2>2 DEF TypeInv, PathInv
  <2> QED BY <1>2, <1>3, <2>2, <2>5, <2>6
<1>7. CASE DaemonHangsUp
  <2>1. creating # "no" => slot.state = "empty"
    BY DEF TypeInv, PathInv
  <2> QED BY <1>1, <1>2, <1>3, <1>7, <2>1 DEF DaemonHangsUp, NetTyped
<1> QED BY <1>4, <1>5, <1>6, <1>7 DEF Outside
-----------------------------------------------------------------------------
(* tpm_comm_win32.c keeps them too.                                        *)
LEMMA WindowsTyped ==
  ASSUME TypeInv, WindowsNext
  PROVE  TypeInv'
<1>1. platform = "windows" /\ platform' = platform /\ UNCHANGED linuxVars /\ Win!Next
  BY DEF WindowsNext
<1>2. /\ comm \in {"null", "open"} /\ held \subseteq Resource
      /\ cmd \in 0..MaxCommand /\ capacity \in RespCapacity \cup {0} /\ resp_len \in 0..capacity
      /\ filled \in 0..capacity /\ reply \in {-1, 0} \cup Command /\ executed \subseteq Command
      /\ MaxCommand \in Nat /\ RespCapacity \subseteq Nat /\ RespSize \subseteq Nat
      /\ pc \in {"idle", "submit"} /\ (pc = "submit" => comm = "open" /\ cmd \in Command)
      /\ creating \in Place /\ (creating # "no" => comm = "null")
  BY <1>1, LinuxAssumption DEF TypeInv, TypeOK, PathInv
<1>3. ASSUME /\ UNCHANGED <<faults, platform>> /\ UNCHANGED linuxVars
             /\ comm' \in {"null", "open"} /\ held' \subseteq Resource
             /\ failed' \in BOOLEAN /\ pc' \in {"idle", "submit"}
             /\ creating' \in Place /\ (creating' # "no" => comm' = "null")
             /\ cmd' \in 0..MaxCommand /\ capacity' \in RespCapacity \cup {0}
             /\ resp_len' \in 0..capacity' /\ filled' \in 0..capacity'
             /\ retval' \in {OK, MU_FAILURE}
             /\ reply' \in {-1, 0} \cup Command /\ executed' \subseteq Command
             /\ pc' = "submit" => comm' = "open" /\ cmd' \in Command
      PROVE  TypeInv'
  <2>1. TypeOK'
    BY <1>3 DEF linuxVars, TypeInv, TypeOK
  <2>2. Shape'
    BY <1>3 DEF linuxVars, TypeInv, Shape
  <2>3. PathInv'
    BY <1>1, <1>3 DEF linuxVars, TypeInv, PathInv
  <2> QED BY <2>1, <2>2, <2>3 DEF TypeInv
<1>4. failed \in BOOLEAN /\ retval \in {OK, MU_FAILURE}
  BY DEF TypeInv, TypeOK
<1>5. CASE Win!CreateCall \/ Win!Create \/ Win!Destroy
  <2>1. /\ comm' \in {"null", "open"} /\ failed' \in BOOLEAN /\ creating' \in Place
        /\ creating' # "no" => comm' = "null"
        /\ held' \subseteq Resource /\ UNCHANGED <<faults, Win!callVars>>
    BY <1>2, <1>4, <1>5 DEF Win!CreateCall, Win!Create, Win!ContextCreate, Win!GetDeviceInfo,
                            Win!CreateFails, Win!Destroy, Resource, Place
  <2>2. UNCHANGED <<faults, pc, cmd, resp_len, capacity, filled, retval, reply, executed>>
    BY <2>1 DEF Win!callVars
  <2>3. pc' = "submit" => comm' = "open"
    BY <1>2, <1>5, <2>2 DEF Win!CreateCall, Win!Create, Win!ContextCreate, Win!GetDeviceInfo,
                            Win!CreateFails, Win!Destroy
  <2> QED BY <1>1, <1>2, <1>3, <1>4, <2>1, <2>2, <2>3
<1>6. ASSUME NEW n \in RespCapacity, Win!SubmitCall(n) PROVE TypeInv'
  <2>1. n \in Nat /\ cmd + 1 \in Command /\ cmd + 1 \in 0..MaxCommand
    BY <1>2, <1>6 DEF Win!SubmitCall, Command
  <2> QED BY <1>1, <1>2, <1>3, <1>4, <1>6, <2>1 DEF Win!SubmitCall
<1>7. CASE Win!TbsRuns
  BY <1>1, <1>2, <1>3, <1>4, <1>7 DEF Win!TbsRuns
<1>8. CASE Win!SubmitReturns
  <2>1. capacity \in Nat /\ \A n \in RespSize : n <= resp_len => n \in 0..capacity
    BY <1>2
  <2> QED BY <1>1, <1>2, <1>3, <1>4, <1>8, <2>1
          DEF Win!SubmitReturns, Win!OK, Win!MU_FAILURE, OK, MU_FAILURE
<1> QED BY <1>1, <1>5, <1>6, <1>7, <1>8 DEF Win!Next

(* The types hold at first, and every step keeps them.                     *)
LEMMA TypeInvHolds == Spec => []TypeInv
<1>1. TransportInit => TypeInv
  <2> SUFFICES ASSUME TransportInit PROVE TypeInv
    OBVIOUS
  <2>1. << >> \in Seq(Nat) /\ << >> \in Seq(Seq(Nat)) /\ MaxCommand \in Nat
    BY LinuxAssumption
  <2>2. TypeOK
    <3>1. Init
      BY DEF TransportInit
    <3>2. 0 \in 0..MaxCommand /\ 0 \in 0..0
      BY <2>1
    <3>3. /\ cmd \in 0..MaxCommand /\ capacity \in RespCapacity \cup {0}
          /\ resp_len \in 0..capacity /\ filled \in 0..capacity
      BY <3>1, <3>2, Zenon DEF Init
    <3>4. /\ machine \in Machine /\ faults \in {{}, Faults}
          /\ comm \in {"null", "open"} /\ failed \in BOOLEAN /\ retval \in {OK, MU_FAILURE}
          /\ got \in {-1, 0} \cup Command /\ reply \in {-1, 0} \cup Command
      BY <3>1, Zenon DEF Init
    <3>5. /\ conn_info = {} /\ held = {} /\ executed = {} /\ pc = "idle" /\ creating = "no"
      BY <3>1, Zenon DEF Init
    <3> QED BY <3>3, <3>4, <3>5 DEF TypeOK, Place
  <2>3. Shape
    BY <2>1, EmptyTyped DEF TransportInit, Init, Shape
  <2>4. PathInv
    BY EmptyTyped DEF TransportInit, Init, PathInv
  <2> QED BY <2>2, <2>3, <2>4 DEF TypeInv
<1>2. TypeInv /\ [TransportNext]_transportVars => TypeInv'
  <2> SUFFICES ASSUME TypeInv, [TransportNext]_transportVars PROVE TypeInv'
    OBVIOUS
  <2>1. CASE WindowsNext
    BY <2>1, WindowsTyped
  <2>2. CASE LinuxNext
    <3>1. platform = "linux" /\ platform' = platform /\ Next
      BY <2>2 DEF LinuxNext
    <3>2. CASE Caller
      BY <3>1, <3>2, CreateCallTyped, DestroyTyped, SubmitCallTyped DEF Caller
    <3>3. CASE Submit
      BY <3>1, <3>3, PacketStepTyped, SocketSendTyped, SocketReadTyped DEF Submit
    <3> QED BY <3>1, <3>2, <3>3, CreateTyped, OutsideTyped DEF Next
  <2>3. CASE UNCHANGED transportVars
    BY <2>3 DEF transportVars, vars, handleVars, callVars, respVars, netVars,
                TypeInv, TypeOK, Shape, PathInv
  <2> QED BY <2>1, <2>2, <2>3 DEF TransportNext
<1> QED BY <1>1, <1>2, PTL DEF Spec

(* Every variable keeps its type, whatever the TPM, the resource manager   *)
(* or the services answer: in particular *resp_len and the bytes a reply   *)
(* leaves in the caller's buffer never exceed the size it came with.       *)
THEOREM Typing == Spec => []TypeOK
BY TypeInvHolds, PTL DEF TypeInv

-----------------------------------------------------------------------------
(* What has been acquired at each point of tpm_comm_create, and what a     *)
(* handle has: the induction needs to know of the points in between.       *)
HeldInv ==
  /\ NothingLeftBehind
  /\ creating \in {"open_rm", "open_raw", "dlopen", "trm", "give_up", "context"} =>
       held \ {"stray"} = {"info"}
  /\ creating \in {"tcti", "unload"} => held \ {"stray"} = {"info", "lib"}
  /\ creating = "init" => held \ {"stray"} = {"info", "lib", "ctx"}
  /\ creating \in {"device_info", "cleanup"} => held \ {"stray"} = {"info", "tbs"}
  /\ platform = "windows" => "stray" \notin held

(* What the flags of a handle say it needs.                                *)
LEMMA NeededIs ==
  ASSUME NEW c, NEW f
  PROVE  LET needed == IF c = "null" THEN {}
                       ELSE {"info"} \cup (CASE "SYS_DEV" \in f -> {"fd"}
                                             [] "SOCKET" \in f -> {"sock"}
                                             [] "TCTI" \in f -> {"lib", "ctx"})
         IN  /\ c = "null" => needed = {}
             /\ c # "null" /\ f \in {{"SYS_DEV", "TRM"}, {"SYS_DEV"}} => needed = {"info", "fd"}
             /\ c # "null" /\ f = {"TCTI", "TRM"} => needed = {"info", "lib", "ctx"}
             /\ c # "null" /\ f \in {{"SOCKET", "OLD_UM_TRM"}, {"SOCKET", "TRM"}} => needed = {"info", "sock"}
<1> DEFINE named == CASE "SYS_DEV" \in f -> {"fd"}
                      [] "SOCKET" \in f -> {"sock"}
                      [] "TCTI" \in f -> {"lib", "ctx"}
           needed == IF c = "null" THEN {} ELSE {"info"} \cup named
<1>1. "SYS_DEV" \in f /\ "SOCKET" \notin f /\ "TCTI" \notin f => named = {"fd"}
  BY Zenon
<1>2. "SYS_DEV" \notin f /\ "SOCKET" \in f /\ "TCTI" \notin f => named = {"sock"}
  BY Zenon
<1>3. "SYS_DEV" \notin f /\ "SOCKET" \notin f /\ "TCTI" \in f => named = {"lib", "ctx"}
  BY Zenon
<1>4. (c = "null" => needed = {}) /\ (c # "null" => needed = {"info"} \cup named)
  BY Zenon
<1> HIDE DEF named, needed
<1>5. /\ c = "null" => needed = {}
      /\ c # "null" /\ f \in {{"SYS_DEV", "TRM"}, {"SYS_DEV"}} => needed = {"info", "fd"}
      /\ c # "null" /\ f = {"TCTI", "TRM"} => needed = {"info", "lib", "ctx"}
      /\ c # "null" /\ f \in {{"SOCKET", "OLD_UM_TRM"}, {"SOCKET", "TRM"}} => needed = {"info", "sock"}
  BY <1>1, <1>2, <1>3, <1>4
<1> QED BY <1>5 DEF needed, named

(* The same of the handle there is.                                        *)
LEMMA Needs ==
  /\ comm = "null" => Needed = {}
  /\ comm # "null" /\ conn_info \in {{"SYS_DEV", "TRM"}, {"SYS_DEV"}} => Needed = {"info", "fd"}
  /\ comm # "null" /\ conn_info = {"TCTI", "TRM"} => Needed = {"info", "lib", "ctx"}
  /\ comm # "null" /\ conn_info \in {{"SOCKET", "OLD_UM_TRM"}, {"SOCKET", "TRM"}}
       => Needed = {"info", "sock"}
BY NeededIs DEF Needed

(* And of the one there is after a step.                                   *)
LEMMA NeedsThen ==
  /\ comm' = "null" => Needed' = {}
  /\ comm' # "null" /\ conn_info' \in {{"SYS_DEV", "TRM"}, {"SYS_DEV"}} => Needed' = {"info", "fd"}
  /\ comm' # "null" /\ conn_info' = {"TCTI", "TRM"} => Needed' = {"info", "lib", "ctx"}
  /\ comm' # "null" /\ conn_info' \in {{"SOCKET", "OLD_UM_TRM"}, {"SOCKET", "TRM"}}
       => Needed' = {"info", "sock"}
BY NeededIs DEF Needed

(* Every step of tpm_comm_create on Linux: each failure gives back what    *)
(* was acquired since the attempt began, and the last one the handle.      *)
LEMMA CreateGivesBack ==
  ASSUME TypeInv, HeldInv, platform = "linux", platform' = platform, Create
  PROVE  HeldInv'
<1>1. platform' # "windows" /\ comm = "null"
  BY CreateDoes DEF TypeInv, PathInv
<1>2. CASE OpenRmDevice
  <2>1. \/ /\ Opened("open_rm", {"SYS_DEV", "TRM"}) /\ held' = held \cup {"fd"}
        \/ GoesOn("open_rm", "open_raw") /\ UNCHANGED held
    BY <1>2 DEF OpenRmDevice
  <2> QED BY <1>1, <2>1, NeedsThen DEF Opened, GoesOn, HeldInv, NothingLeftBehind
<1>3. CASE OpenDevice
  <2>1. \/ /\ Opened("open_raw", {"SYS_DEV"}) /\ held' = held \cup {"fd"}
        \/ GoesOn("open_raw", "dlopen") /\ UNCHANGED held
    BY <1>3 DEF OpenDevice
  <2> QED BY <1>1, <2>1, NeedsThen DEF Opened, GoesOn, HeldInv, NothingLeftBehind
<1>4. CASE LoadAbrmd
  <2>1. \/ GoesOn("dlopen", "tcti") /\ held' = held \cup {"lib"}
        \/ GoesOn("dlopen", "trm") /\ UNCHANGED held
    BY <1>4 DEF LoadAbrmd
  <2> QED BY <1>1, <2>1 DEF GoesOn, HeldInv, NothingLeftBehind
<1>5. CASE AllocateTcti
  <2>1. \/ GoesOn("tcti", "init") /\ held' = held \cup {"ctx"}
        \/ GoesOn("tcti", "unload") /\ UNCHANGED held
    BY <1>5 DEF AllocateTcti
  <2> QED BY <1>1, <2>1 DEF GoesOn, HeldInv, NothingLeftBehind
<1>6. CASE InitTcti
  <2>1. \/ Opened("init", {"TCTI", "TRM"}) /\ UNCHANGED held
        \/ GoesOn("init", "unload") /\ held' = held \ {"ctx"}
    BY <1>6 DEF InitTcti
  <2> QED BY <1>1, <2>1, NeedsThen DEF Opened, GoesOn, HeldInv, NothingLeftBehind
<1>7. CASE UnloadAbrmd
  BY <1>1, <1>7 DEF UnloadAbrmd, GoesOn, HeldInv, NothingLeftBehind
<1>8. CASE ConnectTrm
  <2>1. \/ /\ \E f \in {"OLD_UM_TRM", "TRM"} : Opened("trm", {"SOCKET", f})
           /\ held' = held \cup {"sock"}
        \/ GoesOn("trm", "give_up") /\ UNCHANGED held
    BY <1>8, Zenon DEF ConnectTrm
  <2> QED BY <1>1, <2>1, NeedsThen DEF Opened, GoesOn, HeldInv, NothingLeftBehind
<1>9. CASE CreateFails
  <2>1. creating = "give_up" /\ creating' = "no" /\ comm' = "null" /\ held' = held \ {"info"}
    BY <1>1, <1>9 DEF CreateFails, GoesOn
  <2> QED BY <1>1, <2>1, NeedsThen DEF HeldInv, NothingLeftBehind
<1> QED BY <1>2, <1>3, <1>4, <1>5, <1>6, <1>7, <1>8, <1>9 DEF Create

(* tpm_comm_destroy on Linux.                                              *)
LEMMA DestroyGivesBack ==
  ASSUME TypeInv, HeldInv, platform = "linux", platform' = platform, Destroy
  PROVE  HeldInv'
<1>1. /\ comm = "open" /\ comm' = "null" /\ held' = Released(conn_info) /\ creating' = creating
      /\ conn_info \in Connection /\ creating = "no" /\ platform' # "windows"
  BY Zenon DEF Destroy, TypeInv, PathInv
<1>2. held \ {"stray"} = Needed
  BY <1>1 DEF HeldInv, NothingLeftBehind
<1>3. held' \ {"stray"} = {}
  <2>1. CASE conn_info \in {{"SYS_DEV", "TRM"}, {"SYS_DEV"}}
    <3>1. held' = held \ {"fd", "info"} /\ held \ {"stray"} = {"info", "fd"}
      BY <1>1, <1>2, <2>1, ReleasedIs, Needs
    <3> QED BY <3>1
  <2>2. CASE conn_info = {"TCTI", "TRM"}
    <3>1. /\ held' = (held \ {"lib", "ctx", "info"}) \cup {"stray"}
          /\ held \ {"stray"} = {"info", "lib", "ctx"}
      BY <1>1, <1>2, <2>2, ReleasedIs, Needs
    <3> QED BY <3>1
  <2>3. CASE conn_info \in {{"SOCKET", "OLD_UM_TRM"}, {"SOCKET", "TRM"}}
    <3>1. held' = held \ {"sock", "info"} /\ held \ {"stray"} = {"info", "sock"}
      BY <1>1, <1>2, <2>3, ReleasedIs, Needs
    <3> QED BY <3>1
  <2> QED BY <1>1, <2>1, <2>2, <2>3 DEF Connection
<1> QED BY <1>1, <1>3, NeedsThen DEF HeldInv, NothingLeftBehind

(* Both on Windows, where cleanup_memory does it.                          *)
LEMMA WindowsGivesBack ==
  ASSUME TypeInv, HeldInv, WindowsNext
  PROVE  HeldInv'
<1>1. platform = "windows" /\ platform' = platform /\ Win!Next
  BY DEF WindowsNext
<1>2. creating # "no" => comm = "null"
  BY DEF TypeInv, PathInv
<1>3. CASE Win!CreateCall
  BY <1>1, <1>3 DEF Win!CreateCall, HeldInv, NothingLeftBehind
<1>4. CASE Win!ContextCreate
  BY <1>1, <1>2, <1>4 DEF Win!ContextCreate, HeldInv, NothingLeftBehind
<1>5. CASE Win!GetDeviceInfo
  BY <1>1, <1>2, <1>5 DEF Win!GetDeviceInfo, HeldInv, NothingLeftBehind
<1>6. CASE Win!CreateFails
  BY <1>1, <1>2, <1>6 DEF Win!CreateFails, HeldInv, NothingLeftBehind
<1>7. CASE Win!Destroy
  BY <1>1, <1>2, <1>7 DEF Win!Destroy, HeldInv, NothingLeftBehind
<1>8. CASE UNCHANGED <<held, comm, creating>>
  BY <1>1, <1>8 DEF HeldInv, NothingLeftBehind
<1>9. (\E n \in RespCapacity : Win!SubmitCall(n)) \/ Win!TbsRuns \/ Win!SubmitReturns
        => UNCHANGED <<held, comm, creating>>
  BY Zenon DEF Win!SubmitCall, Win!TbsRuns, Win!SubmitReturns
<1> QED BY <1>1, <1>3, <1>4, <1>5, <1>6, <1>7, <1>8, <1>9 DEF Win!Next, Win!Create

(* No other step acquires anything or gives anything back.                 *)
LEMMA OthersHold ==
  ASSUME Submit \/ Outside \/ \E c \in Command, n \in RespCapacity :
                                \E b \in {<<c, c>>, << >>} : SubmitCall(c, b, n)
  PROVE  UNCHANGED <<held, comm, conn_info, creating>>
BY Zenon DEF Submit, SubmitRefused, SubmitStarts, DeviceWrite, DeviceRead, TctiTransmit, TctiReceive,
       SocketSend, ReadLength, ReadResponse, ReadAck, PacketSent, PacketFails, Fails, Succeeds,
       Outside, TpmRuns, DeviceDiscards, DaemonRuns, DaemonHangsUp, SubmitCall, handleVars

(* Between the calls exactly what an open handle needs is held, and        *)
(* nothing without one: at whichever of its steps tpm_comm_create fails,   *)
(* the library, the memory of the context, the TBS context and the handle  *)
(* are given back, and by tpm_comm_destroy the descriptor and the socket.  *)
THEOREM EverythingGivenBack == Spec => []NothingLeftBehind
<1>1. TransportInit => HeldInv
  <2> SUFFICES ASSUME TransportInit PROVE HeldInv
    OBVIOUS
  <2>1. comm = "null" /\ held = {} /\ creating = "no"
    BY Zenon DEF TransportInit, Init
  <2> QED BY <2>1, Needs DEF HeldInv, NothingLeftBehind
<1>2. TypeInv /\ HeldInv /\ [TransportNext]_transportVars => HeldInv'
  <2> SUFFICES ASSUME TypeInv, HeldInv, [TransportNext]_transportVars PROVE HeldInv'
    OBVIOUS
  <2>1. CASE UNCHANGED <<held, comm, conn_info, creating, platform>>
    <3>1. Needed' = Needed
      BY <2>1 DEF Needed
    <3> QED BY <2>1, <3>1 DEF HeldInv, NothingLeftBehind
  <2>2. CASE WindowsNext
    BY <2>2, WindowsGivesBack
  <2>3. CASE LinuxNext
    <3>1. platform = "linux" /\ platform' = platform /\ Next
      BY <2>3 DEF LinuxNext
    <3>2. CASE CreateCall
      <4>1. /\ comm = "null" /\ creating = "no" /\ creating' = "open_rm" /\ held' = held \cup {"info"}
        BY <3>2 DEF CreateCall
      <4>2. held \ {"stray"} = {}
        BY <3>1, <4>1, Needs DEF HeldInv, NothingLeftBehind
      <4> QED BY <3>1, <4>1, <4>2 DEF HeldInv, NothingLeftBehind
    <3> QED BY <2>1, <3>1, <3>2, CreateGivesBack, DestroyGivesBack, OthersHold, Zenon DEF Next, Caller
  <2>4. CASE UNCHANGED transportVars
    BY <2>1, <2>4, Zenon DEF transportVars, vars, handleVars
  <2> QED BY <2>2, <2>3, <2>4 DEF TransportNext
<1>3. HeldInv => NothingLeftBehind
  BY DEF HeldInv
<1> QED BY <1>1, <1>2, <1>3, TypeInvHolds, PTL DEF Spec
-----------------------------------------------------------------------------
(* The steps of the transport as the two platforms take them, one by one.  *)
LEMMA Steps ==
  ASSUME TransportNext
  PROVE  /\ platform' = platform
         /\ \/ platform = "linux" /\ (Caller \/ Create \/ Submit \/ Outside)
            \/ platform = "windows" /\ Win!Next /\ UNCHANGED linuxVars
BY Zenon DEF TransportNext, LinuxNext, WindowsNext, Next

(* A submit that returns 0 on Linux is one of these three.                 *)
LEMMA SubmitEnds ==
  ASSUME TypeInv, platform = "linux", Caller \/ Create \/ Submit \/ Outside,
         pc # "idle", pc' = "idle", retval' = OK
  PROVE  \/ DeviceRead /\ \E n \in Nat : n <= resp_len /\ Succeeds(slot.cmd, n, n)
                                         /\ slot.state = "replied"
         \/ TctiReceive /\ Succeeds(slot.cmd, slot.len, slot.len) /\ slot.len <= resp_len
                        /\ slot.state = "replied"
         \/ ReadAck /\ Succeeds(got, filled, resp_len)
<1>1. retval' # MU_FAILURE
  BY DEF OK, MU_FAILURE
<1>2. ~Fails
  BY <1>1 DEF Fails
<1>3. ~Outside
  BY Zenon DEF Outside, TpmRuns, DeviceDiscards, DaemonRuns, DaemonHangsUp
<1>4. ~Caller /\ ~Create
  <2>1. ~Caller
    BY Zenon DEF Caller, CreateCall, Destroy, SubmitCall
  <2>2. Create => pc = "idle"
    BY CreateDoes DEF TypeInv, PathInv
  <2> QED BY <2>1, <2>2
<1>5. ~SubmitRefused /\ ~SubmitStarts /\ ~SocketSend /\ ~ReadLength /\ ~ReadResponse
  <2>1. ~SubmitRefused /\ ~ReadLength /\ ~ReadResponse
    BY <1>2 DEF SubmitRefused, ReadLength, ReadResponse
  <2>2. ~SocketSend
    BY <1>2 DEF SocketSend
  <2>3. ~SubmitStarts
    <3> SUFFICES ASSUME SubmitStarts PROVE FALSE
      OBVIOUS
    <3>1. "SYS_DEV" \in conn_info \/ "TCTI" \in conn_info \/ "SOCKET" \in conn_info
      BY DEF SubmitStarts, TypeInv, PathInv, TypeOK, Connection
    <3>2. pc' \in {"write", "transmit", "send"}
      BY <3>1, Zenon DEF SubmitStarts
    <3> QED BY <3>2
  <2> QED BY <2>1, <2>2, <2>3
<1>6. ~DeviceWrite /\ ~TctiTransmit
  BY <1>2 DEF DeviceWrite, TctiTransmit, PacketSent, PacketFails
<1>7. slot.len \in Nat /\ resp_len \in Nat
  BY LinuxAssumption DEF TypeInv, TypeOK, Shape, Packet
<1>8. CASE DeviceRead
  <2>1. Least(slot.len, resp_len) \in Nat /\ Least(slot.len, resp_len) <= resp_len
    BY <1>7 DEF Least
  <2> QED BY <1>2, <1>8, <2>1 DEF DeviceRead
<1>9. CASE TctiReceive
  <2>1. \A n \in {slot.len, resp_len} : slot.len <= resp_len => Least(slot.len, n) = slot.len
    BY <1>7 DEF Least
  <2> QED BY <1>2, <1>9, <2>1 DEF TctiReceive
<1>10. CASE ReadAck
  BY <1>2, <1>10 DEF ReadAck
<1> QED BY <1>3, <1>4, <1>5, <1>6, <1>8, <1>9, <1>10 DEF Submit

(* On Windows it is the return of Tbsip_Submit_Command.                    *)
LEMMA WindowsSubmits ==
  ASSUME TypeInv, platform = "windows", Win!Next, pc # "idle", pc' = "idle", retval' = OK
  PROVE  reply' = cmd /\ \E n \in RespSize : n <= resp_len /\ resp_len' = n /\ filled' = n
<1>1. ~Win!Create
  BY DEF Win!Create, Win!ContextCreate, Win!GetDeviceInfo, Win!CreateFails, TypeInv, PathInv
<1>2. ~Win!CreateCall /\ ~Win!Destroy /\ (\A n : ~Win!SubmitCall(n)) /\ ~Win!TbsRuns
  BY Zenon DEF Win!CreateCall, Win!Destroy, Win!SubmitCall, Win!TbsRuns
<1>3. Win!SubmitReturns
  BY <1>1, <1>2 DEF Win!Next
<1> QED BY <1>3 DEF Win!SubmitReturns, Win!OK, Win!MU_FAILURE, OK

(* *resp_len says how much of the caller's buffer the reply fills: every   *)
(* transport reports the bytes it put there, and no more than fit.         *)
THEOREM LengthReported == Spec => LengthIsTrue
<1>1. TypeInv /\ TypeInv' /\ [TransportNext]_transportVars
        => [pc # "idle" /\ pc' = "idle" /\ retval' = OK
            => resp_len' = filled' /\ filled' <= capacity]_vars
  <2> SUFFICES ASSUME TypeInv, TypeInv', TransportNext, pc # "idle", pc' = "idle", retval' = OK
               PROVE  resp_len' = filled' /\ filled' <= capacity
    BY Zenon DEF transportVars
  <2>1. CASE platform = "windows"
    <3>1. pc = "submit" /\ Win!Next
      BY <2>1, Steps DEF TypeInv, PathInv
    <3>2. \E n \in RespSize : n <= resp_len /\ resp_len' = n /\ filled' = n
      BY <2>1, <3>1, WindowsSubmits
    <3>3. resp_len <= capacity /\ resp_len \in Nat /\ capacity \in Nat
      BY LinuxAssumption DEF TypeInv, TypeOK
    <3> QED BY <3>2, <3>3, LinuxAssumption
  <2>2. CASE platform = "linux"
    <3>1. /\ resp_len \in 0..capacity /\ filled \in 0..capacity /\ capacity \in Nat
          /\ slot.len \in Nat
      BY LinuxAssumption DEF TypeInv, TypeOK, Shape, Packet
    <3>2. Caller \/ Create \/ Submit \/ Outside
      BY <2>2, Steps
    <3>3. ReadAck => filled = resp_len
      BY DEF ReadAck, TypeInv, PathInv
    <3> QED BY <2>2, <3>1, <3>2, <3>3, SubmitEnds DEF Succeeds
  <2> QED BY <2>1, <2>2 DEF TypeInv, Shape
<1> QED BY <1>1, TypeInvHolds, PTL DEF Spec, LengthIsTrue

(* Nothing gets past a command or a reply that is in the slot.             *)
LEMMA SlotInvHolds == Spec => []SlotInv
<1>1. TransportInit => SlotInv
  BY DEF TransportInit, Init, SlotInv
<1>2. TypeInv /\ SlotInv /\ [TransportNext]_transportVars => SlotInv'
  <2> SUFFICES ASSUME TypeInv, SlotInv, TransportNext \/ UNCHANGED transportVars,
                      pc' \in {"read", "receive"}, slot'.state # "empty"
               PROVE  slot'.cmd = cmd'
    BY DEF SlotInv
  <2>1. CASE UNCHANGED <<pc, cmd, slot>>
    BY <2>1 DEF SlotInv
  <2>2. CASE UNCHANGED transportVars
    BY <2>1, <2>2 DEF transportVars, vars, callVars
  <2>3. CASE platform = "windows" /\ TransportNext
    <3>1. Win!Next /\ pc \in {"idle", "submit"}
      BY <2>3, Steps DEF TypeInv, PathInv
    <3>2. pc' \in {"idle", "submit"}
      BY <3>1 DEF Win!Next, Win!CreateCall, Win!Create, Win!ContextCreate, Win!GetDeviceInfo,
                  Win!CreateFails, Win!Destroy, Win!SubmitCall, Win!TbsRuns, Win!SubmitReturns,
                  Win!callVars
    <3> QED BY <3>2
  <2>4. CASE platform = "linux" /\ TransportNext
    <3>1. Caller \/ Create \/ Submit \/ Outside
      BY <2>4, Steps
    <3>2. slot.state # "empty" /\ slot \in Packet => slot.state \in {"sent", "orphan", "replied"}
      BY DEF Packet
    <3>3. CASE TpmRuns
      <4>1. UNCHANGED <<pc, cmd>> /\ slot.state # "empty"
            /\ \/ slot' = Empty
               \/ \E n \in RespSize : slot' = [slot EXCEPT !.state = "replied", !.len = n]
        BY <3>3 DEF TpmRuns, callVars
      <4>2. slot' # Empty
        BY EmptyTyped
      <4>3. slot'.cmd = slot.cmd
        BY <4>1, <4>2 DEF TypeInv, Shape, Packet
      <4> QED BY <4>1, <4>3 DEF SlotInv
    <3>4. CASE DeviceDiscards \/ DaemonHangsUp
      BY <2>1, <3>4, EmptyTyped DEF DeviceDiscards, DaemonHangsUp, callVars
    <3>5. ASSUME NEW n \in RespSize, DaemonRuns(n) PROVE UNCHANGED <<pc, cmd, slot>>
      BY <3>5, Zenon DEF DaemonRuns, callVars
    <3>6. CASE Caller
      <4>1. pc' \in {"idle", "entry"}
        <5>1. (CreateCall \/ Destroy) => pc' = "idle"
          BY Zenon DEF CreateCall, Destroy
        <5>2. \A c, n, b : SubmitCall(c, b, n) => pc' = "entry"
          BY Zenon DEF SubmitCall
        <5> QED BY <3>6, <5>1, <5>2 DEF Caller
      <4> QED BY <4>1
    <3>8. CASE Create
      <4>1. pc' = pc /\ pc = "idle"
        BY <3>8, CreateDoes DEF TypeInv, PathInv
      <4> QED BY <4>1
    <3>7. CASE Submit
      <4>1. PacketSent(pc')
        <5>1. ~Fails /\ ~\E c, n, m : Succeeds(c, n, m)
          BY DEF Fails, Succeeds
        <5>2. ~SubmitStarts
          <6> SUFFICES ASSUME SubmitStarts PROVE FALSE
            OBVIOUS
          <6>1. "SYS_DEV" \in conn_info \/ "TCTI" \in conn_info \/ "SOCKET" \in conn_info
            BY <2>4 DEF SubmitStarts, TypeInv, PathInv, TypeOK, Connection
          <6>2. pc' \in {"write", "transmit", "send"}
            BY <6>1, Zenon DEF SubmitStarts
          <6> QED BY <6>2
        <5>3. ~SocketSend
          BY <5>1 DEF SocketSend
        <5>4. ~SubmitRefused /\ ~DeviceRead /\ ~TctiReceive /\ ~ReadLength /\ ~ReadResponse /\ ~ReadAck
          BY <5>1 DEF SubmitRefused, DeviceRead, TctiReceive, ReadLength, ReadResponse, ReadAck
        <5> QED BY <3>7, <5>1, <5>2, <5>3, <5>4
                DEF Submit, DeviceWrite, TctiTransmit, PacketSent, PacketFails
      <4> QED BY <4>1 DEF PacketSent, Sent, callVars
    <3> QED BY <2>1, <3>1, <3>3, <3>4, <3>5, <3>6, <3>7, <3>8 DEF Outside
  <2> QED BY <2>2, <2>3, <2>4 DEF TypeInv, Shape
<1> QED BY <1>1, <1>2, TypeInvHolds, PTL DEF Spec

(* Over the device, over abrmd and over the TBS a submit that returns 0    *)
(* returns the reply to its own command, even after submits that failed    *)
(* half way and left a command or a reply behind.                          *)
THEOREM OwnReplies == Spec => ReplyIsOwn
<1>1. TypeInv /\ SlotInv /\ [TransportNext]_transportVars
        => [pc # "idle" /\ pc' = "idle" /\ retval' = OK /\ "SOCKET" \notin conn_info
            => reply' = cmd]_vars
  <2> SUFFICES ASSUME TypeInv, SlotInv, TransportNext, pc # "idle", pc' = "idle", retval' = OK,
                      "SOCKET" \notin conn_info
               PROVE  reply' = cmd
    BY Zenon DEF transportVars
  <2>1. CASE platform = "windows"
    <3>1. pc = "submit" /\ Win!Next
      BY <2>1, Steps DEF TypeInv, PathInv
    <3> QED BY <2>1, <3>1, WindowsSubmits
  <2>2. CASE platform = "linux"
    <3>1. Caller \/ Create \/ Submit \/ Outside
      BY <2>2, Steps
    <3>2. ~ReadAck
      BY DEF ReadAck, TypeInv, PathInv
    <3>3. slot.state = "replied" /\ pc \in {"read", "receive"} => slot.cmd = cmd
      BY DEF SlotInv
    <3> QED BY <2>2, <3>1, <3>2, <3>3, SubmitEnds DEF Succeeds, DeviceRead, TctiReceive
  <2> QED BY <2>1, <2>2 DEF TypeInv, Shape
<1> QED BY <1>1, TypeInvHolds, SlotInvHolds, PTL DEF Spec, ReplyIsOwn

(***************************************************************************)
(* The bytes on the socket, on a handle in whatever state.                 *)
(***************************************************************************)
(* Every byte is the number of a command that has been submitted, or at    *)
(* most that, unless it is the last of a word.                             *)
Tame(s, top) ==
  \A q \in 1..Len(s) :
    s[q] > top => q > 3 /\ s[q - 1] = 0 /\ s[q - 2] = 0 /\ s[q - 3] = 0

(* A submit sends at most six messages of at most four bytes, and the end  *)
(* of a session is one: too few for a length to count in 16777216s.        *)
LimitAt(c, p, n, flags) ==
  24 * c - (IF p = "entry" THEN 24 ELSE IF p = "send" THEN 4 * n ELSE 0)
         + (IF "SOCKET" \in flags THEN 0 ELSE 4)
Limit == LimitAt(cmd, pc, Len(sends), conn_info)

StreamInv == Tame(out, cmd) /\ Len(out) <= Limit

(***************************************************************************)
(* The request in progress, byte by byte.                                  *)
(***************************************************************************)
Old == "OLD_UM_TRM" \in conn_info
HostHeader == IF Old THEN 11 ELSE 9

Head1 == Word(REMOTE_SEND_COMMAND)
Size1 == Word(Len(cmdBytes))

(* What is still to be sent at which step of a submit.                     *)
SendsLeft ==
  {<<Size1, cmdBytes>>, <<cmdBytes>>} \cup
    (IF Old THEN {<<Head1, << 0 >>, << 0 >>, << 1 >>, Size1, cmdBytes>>,
                  <<<< 0 >>, << 0 >>, << 1 >>, Size1, cmdBytes>>,
                  <<<< 0 >>, << 1 >>, Size1, cmdBytes>>, <<<< 1 >>, Size1, cmdBytes>>}
     ELSE {<<Head1, << 0 >>, Size1, cmdBytes>>, <<<< 0 >>, Size1, cmdBytes>>})

(* What has been sent of it.                                               *)
FrameLen ==
  IF pc \in {"idle", "entry"} THEN 0
  ELSE IF pc # "send" THEN HostHeader + Len(cmdBytes)
  ELSE IF Len(sends) = 1 THEN HostHeader
  ELSE IF Len(sends) = 2 THEN HostHeader - 4
  ELSE IF ~Old THEN IF Len(sends) = 3 THEN 4 ELSE 0
  ELSE IF Len(sends) = 3 THEN 6 ELSE IF Len(sends) = 4 THEN 5 ELSE IF Len(sends) = 5 THEN 4 ELSE 0
FrameByte(i) ==
  IF i = 4 THEN 8 ELSE IF i = 7 /\ Old THEN 1
  ELSE IF i = HostHeader THEN Len(cmdBytes) ELSE IF i > HostHeader THEN cmd ELSE 0

(* The resource manager has not consumed the request, or there is none.    *)
Unserved ==
  /\ pc \in {"idle", "entry", "send", "resp_length"}
  /\ Len(out) - daemonPos = FrameLen
  /\ \A i \in 1..FrameLen : out[daemonPos + i] = FrameByte(i)
  /\ in = << >>
  /\ pc # "idle" => cmd \notin executed
  /\ pc = "resp_length" => cmdBytes # << >>

(* It has, and its answer is there to be read: the length of the response, *)
(* the response, and a word that says it is complete.                      *)
Served ==
  /\ pc \in {"send", "resp_length", "response", "ack"}
  /\ Len(out) = daemonPos
  /\ pc = "send" => cmdBytes = << >> /\ Len(sends) = 1
  /\ pc # "send" => cmdBytes # << >> /\ cmd \in executed
  /\ pc = "resp_length" => /\ Len(in) >= 8 /\ Value(in) = Len(in) - 8
                           /\ \A i \in 5..Len(in) - 4 : in[i] = cmd
  /\ pc = "response" => Len(in) = resp_len + 4 /\ \A i \in 1..resp_len : in[i] = cmd
  /\ pc = "ack" => Len(in) = 4 /\ got = cmd

Live == comm = "open" /\ ~failed

SocketInv ==
  /\ pc = "send" => sends \in SendsLeft
  /\ Live /\ "SOCKET" \in conn_info => Unserved \/ Served

(***************************************************************************)
(* The packet in the slot.                                                 *)
(***************************************************************************)
PacketInv ==
  /\ slot.state # "empty" => slot.cmd \in 1..cmd
  /\ slot.state = "replied" => slot.cmd \in executed
  /\ Live /\ "SOCKET" \notin conn_info =>
       /\ slot.state # "orphan"
       /\ slot.state # "empty" => pc \in {"read", "receive"}
       /\ slot.state = "sent" => slot.cmd \notin executed
       /\ pc \in {"entry", "write", "transmit"} => cmd \notin executed

(* A command runs after it was submitted, and only where the handle leads. *)
RunInv ==
  /\ executed \subseteq 1..cmd
  /\ comm = "open" /\ "SOCKET" \notin conn_info /\ platform = "linux" => peer = "down"
  /\ "SOCKET" \in conn_info => slot.state = "empty"
  /\ cmdBytes \in {<< >>, <<cmd, cmd>>} /\ (platform = "windows" => cmdBytes = << >>)

ChannelInv == StreamInv /\ SocketInv /\ PacketInv /\ RunInv
-----------------------------------------------------------------------------
(***************************************************************************)
(* Byte strings.                                                           *)
(***************************************************************************)
(* Tame strings, one after the other, make a tame one ...                  *)
LEMMA TameJoin ==
  ASSUME NEW s \in Seq(Nat), NEW t \in Seq(Nat), NEW top \in Nat, Tame(s, top), Tame(t, top)
  PROVE  /\ Tame(s \o t, top) /\ s \o t \in Seq(Nat)
         /\ Len(s \o t) = Len(s) + Len(t) /\ Len(s) \in Nat /\ Len(t) \in Nat
         /\ \A i \in 1..Len(s) : (s \o t)[i] = s[i]
         /\ \A i \in 1..Len(t) : (s \o t)[Len(s) + i] = t[i]
<1>1. PICK w \in Seq(Nat) : w = s \o t
  BY JoinTyped
<1>2. /\ Len(w) = Len(s) + Len(t) /\ Len(s) \in Nat /\ Len(t) \in Nat
      /\ \A i \in 1..Len(s) : w[i] = s[i]
      /\ \A i \in Len(s) + 1..Len(s) + Len(t) : w[i] = t[i - Len(s)]
  BY <1>1, ConcatProperties, LenProperties
<1>3. ASSUME NEW i \in 1..Len(t) PROVE w[Len(s) + i] = t[i]
  <2>1. Len(s) + i \in Len(s) + 1..Len(s) + Len(t) /\ (Len(s) + i) - Len(s) = i
    <3>1. PICK a \in Nat, b \in Nat, j \in Nat : a = Len(s) /\ b = Len(t) /\ j = i /\ j \in 1..b
      BY <1>2
    <3>2. a + j \in a + 1..a + b /\ (a + j) - a = j
      BY <3>1
    <3> QED BY <3>1, <3>2, Zenon
  <2>2. w[Len(s) + i] = t[(Len(s) + i) - Len(s)]
    BY <1>2, <2>1, Zenon
  <2> QED BY <2>1, <2>2, Zenon
<1>4. ASSUME NEW q \in 1..Len(w), w[q] > top
      PROVE  q > 3 /\ w[q - 1] = 0 /\ w[q - 2] = 0 /\ w[q - 3] = 0
  <2>1. CASE q \in 1..Len(s)
    <3>1. q > 3 /\ s[q - 1] = 0 /\ s[q - 2] = 0 /\ s[q - 3] = 0
      BY <1>2, <1>4, <2>1 DEF Tame
    <3>2. q - 1 \in 1..Len(s) /\ q - 2 \in 1..Len(s) /\ q - 3 \in 1..Len(s)
      <4>1. PICK k \in Nat : k = Len(s) /\ q \in 1..k /\ q > 3
        BY <1>2, <2>1, <3>1
      <4> QED BY <4>1
    <3> QED BY <1>2, <3>1, <3>2
  <2>2. CASE q \notin 1..Len(s)
    <3>1. PICK i \in 1..Len(t) : q = Len(s) + i
      <4>1. q - Len(s) \in 1..Len(t) /\ q = Len(s) + (q - Len(s))
        BY <1>2, <2>2
      <4> QED BY <4>1
    <3>2. i > 3 /\ t[i - 1] = 0 /\ t[i - 2] = 0 /\ t[i - 3] = 0
      BY <1>3, <1>4, <3>1 DEF Tame
    <3>3. i - 1 \in 1..Len(t) /\ i - 2 \in 1..Len(t) /\ i - 3 \in 1..Len(t)
      <4>1. PICK k \in Nat : k = Len(t) /\ i \in 1..k /\ i > 3
        BY <1>2, <3>2
      <4> QED BY <4>1
    <3>4. w[Len(s) + (i - 1)] = 0 /\ w[Len(s) + (i - 2)] = 0 /\ w[Len(s) + (i - 3)] = 0
      BY <1>3, <3>2, <3>3
    <3>5. PICK k \in Nat, j \in Nat : k = Len(s) /\ j = i /\ q = k + j /\ j > 3
      BY <1>2, <3>1, <3>2
    <3>6. q - 1 = k + (j - 1) /\ q - 2 = k + (j - 2) /\ q - 3 = k + (j - 3) /\ q > 3
      BY <3>5
    <3> QED BY <3>4, <3>5, <3>6
  <2> QED BY <2>1, <2>2
<1> QED BY <1>1, <1>2, <1>3, <1>4 DEF Tame

(* ... and so is the front of one.                                         *)
LEMMA TamePart ==
  ASSUME NEW s \in Seq(Nat), NEW n \in 0..Len(s), NEW top \in Nat, Tame(s, top)
  PROVE  Tame(SubSeq(s, 1, n), top) /\ SubSeq(s, 1, n) \in Seq(Nat) /\ Len(SubSeq(s, 1, n)) = n
<1>1. n \in Nat /\ Len(s) \in Nat /\ n <= Len(s)
  BY LenProperties
<1>2. PICK w \in Seq(Nat) : w = SubSeq(s, 1, n)
  <2>1. 1 \in Nat \ {0}
    OBVIOUS
  <2> QED BY <1>1, <2>1, PartTyped
<1>3. Len(w) = n /\ \A i \in 1..n : w[i] = s[i]
  <2>1. \A i \in 1..n : s[i] \in Nat
    BY <1>1, LenProperties
  <2>2. /\ Len(SubSeq(s, 1, n)) = IF 1 <= n THEN n - 1 + 1 ELSE 0
        /\ \A i \in 1..n - 1 + 1 : SubSeq(s, 1, n)[i] = s[1 + i - 1]
    BY <1>1, <2>1, SubSeqProperties
  <2> QED BY <1>1, <1>2, <2>2
<1>4. ASSUME NEW q \in 1..Len(w), w[q] > top
      PROVE  q > 3 /\ w[q - 1] = 0 /\ w[q - 2] = 0 /\ w[q - 3] = 0
  <2>1. q \in 1..Len(s)
    BY <1>1, <1>3
  <2>2. q > 3 /\ s[q - 1] = 0 /\ s[q - 2] = 0 /\ s[q - 3] = 0
    BY <1>3, <1>4, <2>1 DEF Tame
  <2>3. q - 1 \in 1..n /\ q - 2 \in 1..n /\ q - 3 \in 1..n
    BY <1>1, <1>3, <2>2
  <2> QED BY <1>3, <2>2, <2>3
<1> QED BY <1>2, <1>3, <1>4 DEF Tame

(* So it stays when more commands have been submitted.                     *)
LEMMA TameMore ==
  ASSUME NEW s \in Seq(Nat), NEW top \in Nat, NEW more \in Nat, top <= more, Tame(s, top)
  PROVE  Tame(s, more)
<1>1. \A q \in 1..Len(s) : s[q] \in Nat
  BY LenProperties
<1> QED BY <1>1 DEF Tame

(* The words that are sent, byte by byte.                                  *)
LEMMA SmallWord ==
  ASSUME NEW n \in 0..255, NEW top \in Nat
  PROVE  /\ Word(n) = <<0, 0, 0, n>> /\ Word(n) \in Seq(Nat) /\ Len(Word(n)) = 4
         /\ Tame(Word(n), top)
<1>1. n \in Int /\ 0 <= n /\ n < 256
  BY SMT
<1>2. Word(n) = <<0, 0, 0, n>>
  <2>1. n \div 16777216 = 0 /\ n \div 65536 = 0 /\ n \div 256 = 0
    BY <1>1, SMT
  <2>2. 0 % 256 = 0 /\ n % 256 = n
    BY <1>1, SMT
  <2> QED BY <2>1, <2>2, SMT DEF Word
<1>3. PICK w \in Seq(Nat) : w = <<0, 0, 0, n>> /\ Len(w) = 4 /\ w[1] = 0 /\ w[2] = 0 /\ w[3] = 0
  <2>1. n \in Nat
    BY <1>1
  <2>2. <<0, 0, 0, n>> \in Seq(Nat) /\ Len(<<0, 0, 0, n>>) = 4
    BY <2>1
  <2> QED BY <2>2
<1>4. Tame(w, top)
  BY <1>3 DEF Tame
<1> QED BY <1>2, <1>3, <1>4

(* The short messages of a submit.                                         *)
LEMMA ShortMessages ==
  ASSUME NEW top \in Nat, top # 0
  PROVE  /\ \A b \in 0..top : <<b>> \in Seq(Nat) /\ Len(<<b>>) = 1 /\ Tame(<<b>>, top)
         /\ <<top, top>> \in Seq(Nat) /\ Len(<<top, top>>) = 2 /\ Tame(<<top, top>>, top)
         /\ << >> \in Seq(Nat) /\ Len(<< >>) = 0 /\ Tame(<< >>, top)
<1>1. ASSUME NEW b \in 0..top PROVE <<b>> \in Seq(Nat) /\ Len(<<b>>) = 1 /\ Tame(<<b>>, top)
  <2>1. b \in Nat /\ b <= top
    OBVIOUS
  <2>2. <<b>> \in Seq(Nat) /\ Len(<<b>>) = 1 /\ <<b>>[1] = b
    BY <2>1
  <2>3. PICK w \in Seq(Nat) : w = <<b>>
    BY <2>2
  <2>4. Tame(w, top)
    BY <2>1, <2>2, <2>3 DEF Tame
  <2> QED BY <2>2, <2>3, <2>4
<1>2. PICK w \in Seq(Nat) : w = <<top, top>> /\ Len(w) = 2 /\ w[1] = top /\ w[2] = top
  <2>1. <<top, top>> \in Seq(Nat) /\ Len(<<top, top>>) = 2
    OBVIOUS
  <2> QED BY <2>1
<1>3. Tame(w, top)
  BY <1>2 DEF Tame
<1>4. Tame(<< >>, top)
  BY DEF Tame
<1> QED BY <1>1, <1>2, <1>3, <1>4
-----------------------------------------------------------------------------
(***************************************************************************)
(* The messages of a submit.                                               *)
(***************************************************************************)
(* The length of a command is 0 or 2, and its number is a byte.            *)
LEMMA CommandIs ==
  ASSUME TypeInv, RunInv
  PROVE  /\ cmd \in Nat /\ cmd \in 0..255 /\ (pc # "idle" => cmd # 0)
         /\ cmdBytes \in Seq(Nat)
         /\ \/ cmdBytes = << >> /\ Len(cmdBytes) = 0
            \/ cmdBytes = <<cmd, cmd>> /\ Len(cmdBytes) = 2 /\ cmdBytes # << >>
<1>1. cmd \in Nat /\ cmd \in 0..255 /\ (pc # "idle" => cmd # 0)
  BY LinuxAssumption DEF TypeInv, TypeOK, PathInv, Command
<1> QED BY <1>1 DEF TypeInv, Shape, RunInv

(* The words of a request.                                                 *)
LEMMA RequestWords ==
  ASSUME TypeInv, RunInv
  PROVE  /\ Head1 = <<0, 0, 0, 8>> /\ Size1 = <<0, 0, 0, Len(cmdBytes)>>
         /\ Head1 \in Seq(Nat) /\ Size1 \in Seq(Nat) /\ Len(Head1) = 4 /\ Len(Size1) = 4
         /\ Tame(Head1, cmd) /\ Tame(Size1, cmd)
<1>1. 8 \in 0..255 /\ Len(cmdBytes) \in 0..255 /\ cmd \in Nat
  BY CommandIs
<1> QED BY <1>1, SmallWord DEF Head1, Size1, REMOTE_SEND_COMMAND

(* The bytes of a request, one by one.                                     *)
LEMMA FrameBytes ==
  ASSUME TypeInv, RunInv
  PROVE  /\ FrameByte(1) = 0 /\ FrameByte(2) = 0 /\ FrameByte(3) = 0 /\ FrameByte(4) = 8
         /\ FrameByte(5) = 0
         /\ Old => /\ HostHeader = 11 /\ FrameByte(6) = 0 /\ FrameByte(7) = 1
                   /\ FrameByte(8) = 0 /\ FrameByte(9) = 0 /\ FrameByte(10) = 0
                   /\ FrameByte(11) = Len(cmdBytes)
         /\ ~Old => /\ HostHeader = 9 /\ FrameByte(6) = 0 /\ FrameByte(7) = 0
                    /\ FrameByte(8) = 0 /\ FrameByte(9) = Len(cmdBytes)
         /\ \A i \in Nat : i > HostHeader => FrameByte(i) = cmd
<1>1. CASE Old
  <2>1. HostHeader = 11
    BY <1>1 DEF HostHeader
  <2> QED BY <1>1, <2>1 DEF FrameByte
<1>2. CASE ~Old
  <2>1. HostHeader = 9
    BY <1>2 DEF HostHeader
  <2> QED BY <1>2, <2>1 DEF FrameByte
<1> QED BY <1>1, <1>2

(* The messages a submit is made of.                                       *)
LEMMA Parts ==
  ASSUME TypeInv, RunInv, pc = "send"
  PROVE  \E h, z, o, l, b \in Seq(Nat) :
           /\ h = Head1 /\ z = << 0 >> /\ o = << 1 >> /\ l = Size1 /\ b = cmdBytes
           /\ Len(h) = 4 /\ h[1] = 0 /\ h[2] = 0 /\ h[3] = 0 /\ h[4] = 8
           /\ Len(z) = 1 /\ z[1] = 0 /\ Len(o) = 1 /\ o[1] = 1
           /\ Len(l) = 4 /\ l[1] = 0 /\ l[2] = 0 /\ l[3] = 0 /\ l[4] = Len(cmdBytes)
           /\ Len(b) = Len(cmdBytes) /\ Len(b) \in {0, 2} /\ \A i \in 1..Len(b) : b[i] = cmd
           /\ Tame(h, cmd) /\ Tame(z, cmd) /\ Tame(o, cmd) /\ Tame(l, cmd) /\ Tame(b, cmd)
<1>1. cmd \in Nat /\ cmd # 0 /\ cmdBytes \in Seq(Nat)
  BY CommandIs
<1>2. /\ Len(cmdBytes) \in {0, 2} /\ Tame(cmdBytes, cmd)
      /\ \A i \in 1..Len(cmdBytes) : cmdBytes[i] = cmd
  <2>1. CASE cmdBytes = << >> /\ Len(cmdBytes) = 0
    <3>1. Tame(<< >>, cmd)
      BY <1>1, ShortMessages
    <3> QED BY <2>1, <3>1
  <2>2. CASE cmdBytes = <<cmd, cmd>> /\ Len(cmdBytes) = 2
    <3>1. Tame(<<cmd, cmd>>, cmd)
      BY <1>1, ShortMessages
    <3>2. cmdBytes[1] = cmd /\ cmdBytes[2] = cmd
      BY <2>2
    <3> QED BY <2>2, <3>1, <3>2
  <2> QED BY <2>1, <2>2, CommandIs
<1>3. 0 \in 0..cmd /\ 1 \in 0..cmd
  BY <1>1
<1>4. /\ << 0 >> \in Seq(Nat) /\ Len(<< 0 >>) = 1 /\ Tame(<< 0 >>, cmd)
      /\ << 1 >> \in Seq(Nat) /\ Len(<< 1 >>) = 1 /\ Tame(<< 1 >>, cmd)
  BY <1>1, <1>3, ShortMessages
<1>5. << 0 >>[1] = 0 /\ << 1 >>[1] = 1
  OBVIOUS
<1>6. /\ Head1[1] = 0 /\ Head1[2] = 0 /\ Head1[3] = 0 /\ Head1[4] = 8
      /\ Size1[1] = 0 /\ Size1[2] = 0 /\ Size1[3] = 0 /\ Size1[4] = Len(cmdBytes)
  <2>1. PICK n : n = Len(cmdBytes)
    OBVIOUS
  <2>2. Head1 = <<0, 0, 0, 8>> /\ Size1 = <<0, 0, 0, n>>
    BY <2>1, RequestWords
  <2> QED BY <2>1, <2>2
<1> QED BY <1>1, <1>2, <1>4, <1>5, <1>6, RequestWords

(* How much of the request has been sent once the next message has.        *)
NextLen == IF Len(sends) = 1 THEN HostHeader + Len(cmdBytes)
           ELSE IF Len(sends) = 2 THEN HostHeader
           ELSE IF Len(sends) = 3 THEN HostHeader - 4
           ELSE IF ~Old THEN 4
           ELSE IF Len(sends) = 4 THEN 6 ELSE IF Len(sends) = 5 THEN 5 ELSE 4

(* The message m of step k of a submit, and where in the request it is.    *)
MessageIs(m, k, from) ==
  /\ Head(sends) = m /\ Len(sends) = k
  /\ m \in Seq(Nat) /\ Tame(m, cmd) /\ Len(m) <= 4 /\ Len(m) \in Nat
  /\ FrameLen = from /\ NextLen = from + Len(m)
  /\ \A i \in 1..Len(m) : m[i] = FrameByte(from + i)
  /\ k > 1 => Tail(sends) \in SendsLeft /\ Len(Tail(sends)) = k - 1
  /\ k = 1 => m = cmdBytes
  /\ k > 4 => Old

(* Whatever is left to be sent starts with the next bytes of the request.  *)
LEMMA NextMessage ==
  ASSUME TypeInv, RunInv, pc = "send", sends \in SendsLeft
  PROVE  \E m, k, from : k \in 1..6 /\ from \in Nat /\ MessageIs(m, k, from)
<1>1. PICK h \in Seq(Nat), z \in Seq(Nat), o \in Seq(Nat), l \in Seq(Nat), b \in Seq(Nat) :
        /\ h = Head1 /\ z = << 0 >> /\ o = << 1 >> /\ l = Size1 /\ b = cmdBytes
        /\ Len(h) = 4 /\ h[1] = 0 /\ h[2] = 0 /\ h[3] = 0 /\ h[4] = 8
        /\ Len(z) = 1 /\ z[1] = 0 /\ Len(o) = 1 /\ o[1] = 1
        /\ Len(l) = 4 /\ l[1] = 0 /\ l[2] = 0 /\ l[3] = 0 /\ l[4] = Len(cmdBytes)
        /\ Len(b) = Len(cmdBytes) /\ Len(b) \in {0, 2} /\ \A i \in 1..Len(b) : b[i] = cmd
        /\ Tame(h, cmd) /\ Tame(z, cmd) /\ Tame(o, cmd) /\ Tame(l, cmd) /\ Tame(b, cmd)
  BY Parts, Zenon
<1>2. \/ sends = <<l, b>> \/ sends = <<b>>
      \/ Old /\ \/ sends = <<h, z, z, o, l, b>> \/ sends = <<z, z, o, l, b>>
                \/ sends = <<z, o, l, b>> \/ sends = <<o, l, b>>
      \/ ~Old /\ (sends = <<h, z, l, b>> \/ sends = <<z, l, b>>)
  BY <1>1, Zenon DEF SendsLeft
<1>3. /\ <<l, b>> \in SendsLeft /\ <<b>> \in SendsLeft
      /\ Old => <<z, z, o, l, b>> \in SendsLeft /\ <<z, o, l, b>> \in SendsLeft
                /\ <<o, l, b>> \in SendsLeft
      /\ ~Old => <<z, l, b>> \in SendsLeft
  BY <1>1, Zenon DEF SendsLeft
<1>4. \A k \in 1..6 : Len(sends) = k =>
        /\ FrameLen = IF k = 1 THEN HostHeader ELSE IF k = 2 THEN HostHeader - 4
                      ELSE IF ~Old THEN (IF k = 3 THEN 4 ELSE 0)
                      ELSE IF k = 3 THEN 6 ELSE IF k = 4 THEN 5 ELSE IF k = 5 THEN 4 ELSE 0
        /\ NextLen = IF k = 1 THEN HostHeader + Len(b) ELSE IF k = 2 THEN HostHeader
                     ELSE IF k = 3 THEN HostHeader - 4 ELSE IF ~Old THEN 4
                     ELSE IF k = 4 THEN 6 ELSE IF k = 5 THEN 5 ELSE 4
  BY <1>1 DEF FrameLen, NextLen
<1>5. Len(b) \in Nat /\ Len(b) <= 4 /\ (Old => HostHeader = 11) /\ (~Old => HostHeader = 9)
  <2>1. Len(b) \in Nat /\ Len(b) <= 4
    <3>1. Len(b) = 0 \/ Len(b) = 2
      BY <1>1, Zenon
    <3>2. 0 \in Nat /\ 0 <= 4 /\ 2 \in Nat /\ 2 <= 4
      OBVIOUS
    <3> QED BY <3>1, <3>2, Zenon
  <2>2. (Old => HostHeader = 11) /\ (~Old => HostHeader = 9)
    BY Zenon DEF HostHeader
  <2> QED BY <2>1, <2>2
<1>6. CASE Old /\ sends = <<b>>
  <2>1. Head(sends) = b /\ Len(sends) = 1
    BY <1>6
  <2>3. FrameLen = 11 /\ NextLen = 11 + Len(b) /\ 11 \in Nat
    BY <1>1, <1>4, <1>5, <1>6, <2>1
  <2>4. ASSUME NEW i \in 1..Len(b) PROVE b[i] = FrameByte(11 + i)
    <3>1. 11 + i \in Nat /\ 11 + i > HostHeader
      BY <1>5, <1>6
    <3>2. FrameByte(11 + i) = cmd /\ b[i] = cmd
      BY <1>1, <3>1, FrameBytes
    <3> QED BY <3>2
  <2>5. Len(b) \in Nat /\ Len(b) <= 4
    BY <1>1, <1>5
  <2>6. MessageIs(b, 1, 11)
    BY <1>1, <2>1, <2>3, <2>4, <2>5 DEF MessageIs
  <2>7. 1 \in 1..6 /\ 11 \in Nat
    OBVIOUS
  <2> QED BY <2>6, <2>7, Zenon
<1>7. CASE ~Old /\ sends = <<b>>
  <2>1. Head(sends) = b /\ Len(sends) = 1
    BY <1>7
  <2>3. FrameLen = 9 /\ NextLen = 9 + Len(b) /\ 9 \in Nat
    BY <1>1, <1>4, <1>5, <1>7, <2>1
  <2>4. ASSUME NEW i \in 1..Len(b) PROVE b[i] = FrameByte(9 + i)
    <3>1. 9 + i \in Nat /\ 9 + i > HostHeader
      BY <1>5, <1>7
    <3>2. FrameByte(9 + i) = cmd /\ b[i] = cmd
      BY <1>1, <3>1, FrameBytes
    <3> QED BY <3>2
  <2>5. Len(b) \in Nat /\ Len(b) <= 4
    BY <1>1, <1>5
  <2>6. MessageIs(b, 1, 9)
    BY <1>1, <2>1, <2>3, <2>4, <2>5 DEF MessageIs
  <2>7. 1 \in 1..6 /\ 9 \in Nat
    OBVIOUS
  <2> QED BY <2>6, <2>7, Zenon
<1>8. CASE Old /\ sends = <<l, b>>
  <2>1. Head(sends) = l /\ Len(sends) = 2 /\ Tail(sends) = <<b>> /\ Len(<<b>>) = 1
    BY <1>8
  <2>2. Tail(sends) \in SendsLeft /\ Len(Tail(sends)) = 1
    BY <1>3, <1>8, <2>1
  <2>3. FrameLen = 7 /\ NextLen = 7 + Len(l) /\ 7 \in Nat
    BY <1>1, <1>4, <1>5, <1>8, <2>1
  <2>4. \A i \in 1..Len(l) : l[i] = FrameByte(7 + i)
    <3>1. FrameByte(7 + 1) = l[1] /\ FrameByte(7 + 2) = l[2] /\ FrameByte(7 + 3) = l[3] /\ FrameByte(7 + 4) = l[4]
      <4>1. 7 + 1 = 8 /\ 7 + 2 = 9 /\ 7 + 3 = 10 /\ 7 + 4 = 11
        OBVIOUS
      <4> QED BY <1>1, <1>8, <4>1, FrameBytes
    <3>2. 1..Len(l) = {1, 2, 3, 4}
      BY <1>1
    <3> QED BY <3>1, <3>2
  <2>5. Len(l) \in Nat /\ Len(l) <= 4
    BY <1>1, <1>5
  <2>6. MessageIs(l, 2, 7)
    BY <1>1, <2>1, <2>2, <2>3, <2>4, <2>5 DEF MessageIs
  <2>7. 2 \in 1..6 /\ 7 \in Nat
    OBVIOUS
  <2> QED BY <2>6, <2>7, Zenon
<1>9. CASE ~Old /\ sends = <<l, b>>
  <2>1. Head(sends) = l /\ Len(sends) = 2 /\ Tail(sends) = <<b>> /\ Len(<<b>>) = 1
    BY <1>9
  <2>2. Tail(sends) \in SendsLeft /\ Len(Tail(sends)) = 1
    BY <1>3, <1>9, <2>1
  <2>3. FrameLen = 5 /\ NextLen = 5 + Len(l) /\ 5 \in Nat
    BY <1>1, <1>4, <1>5, <1>9, <2>1
  <2>4. \A i \in 1..Len(l) : l[i] = FrameByte(5 + i)
    <3>1. FrameByte(5 + 1) = l[1] /\ FrameByte(5 + 2) = l[2] /\ FrameByte(5 + 3) = l[3] /\ FrameByte(5 + 4) = l[4]
      <4>1. 5 + 1 = 6 /\ 5 + 2 = 7 /\ 5 + 3 = 8 /\ 5 + 4 = 9
        OBVIOUS
      <4> QED BY <1>1, <1>9, <4>1, FrameBytes
    <3>2. 1..Len(l) = {1, 2, 3, 4}
      BY <1>1
    <3> QED BY <3>1, <3>2
  <2>5. Len(l) \in Nat /\ Len(l) <= 4
    BY <1>1, <1>5
  <2>6. MessageIs(l, 2, 5)
    BY <1>1, <2>1, <2>2, <2>3, <2>4, <2>5 DEF MessageIs
  <2>7. 2 \in 1..6 /\ 5 \in Nat
    OBVIOUS
  <2> QED BY <2>6, <2>7, Zenon
<1>10. CASE Old /\ sends = <<h, z, z, o, l, b>>
  <2>1. Head(sends) = h /\ Len(sends) = 6 /\ Tail(sends) = <<z, z, o, l, b>> /\ Len(<<z, z, o, l, b>>) = 5
    BY <1>10
  <2>2. Tail(sends) \in SendsLeft /\ Len(Tail(sends)) = 5
    BY <1>3, <1>10, <2>1
  <2>3. FrameLen = 0 /\ NextLen = 0 + Len(h) /\ 0 \in Nat
    BY <1>1, <1>4, <1>5, <1>10, <2>1
  <2>4. \A i \in 1..Len(h) : h[i] = FrameByte(0 + i)
    <3>1. FrameByte(0 + 1) = h[1] /\ FrameByte(0 + 2) = h[2] /\ FrameByte(0 + 3) = h[3] /\ FrameByte(0 + 4) = h[4]
      <4>1. 0 + 1 = 1 /\ 0 + 2 = 2 /\ 0 + 3 = 3 /\ 0 + 4 = 4
        OBVIOUS
      <4> QED BY <1>1, <1>10, <4>1, FrameBytes
    <3>2. 1..Len(h) = {1, 2, 3, 4}
      BY <1>1
    <3> QED BY <3>1, <3>2
  <2>5. Len(h) \in Nat /\ Len(h) <= 4
    BY <1>1, <1>5
  <2>6. MessageIs(h, 6, 0)
    BY <1>1, <1>10, <2>1, <2>2, <2>3, <2>4, <2>5 DEF MessageIs
  <2>7. 6 \in 1..6 /\ 0 \in Nat
    OBVIOUS
  <2> QED BY <2>6, <2>7, Zenon
<1>11. CASE Old /\ sends = <<z, z, o, l, b>>
  <2>1. Head(sends) = z /\ Len(sends) = 5 /\ Tail(sends) = <<z, o, l, b>> /\ Len(<<z, o, l, b>>) = 4
    BY <1>11
  <2>2. Tail(sends) \in SendsLeft /\ Len(Tail(sends)) = 4
    BY <1>3, <1>11, <2>1
  <2>3. FrameLen = 4 /\ NextLen = 4 + Len(z) /\ 4 \in Nat
    BY <1>1, <1>4, <1>5, <1>11, <2>1
  <2>4. \A i \in 1..Len(z) : z[i] = FrameByte(4 + i)
    <3>1. FrameByte(4 + 1) = z[1]
      <4>1. 4 + 1 = 5
        OBVIOUS
      <4> QED BY <1>1, <1>11, <4>1, FrameBytes
    <3>2. 1..Len(z) = {1}
      BY <1>1
    <3> QED BY <3>1, <3>2
  <2>5. Len(z) \in Nat /\ Len(z) <= 4
    BY <1>1, <1>5
  <2>6. MessageIs(z, 5, 4)
    BY <1>1, <1>11, <2>1, <2>2, <2>3, <2>4, <2>5 DEF MessageIs
  <2>7. 5 \in 1..6 /\ 4 \in Nat
    OBVIOUS
  <2> QED BY <2>6, <2>7, Zenon
<1>12. CASE Old /\ sends = <<z, o, l, b>>
  <2>1. Head(sends) = z /\ Len(sends) = 4 /\ Tail(sends) = <<o, l, b>> /\ Len(<<o, l, b>>) = 3
    BY <1>12
  <2>2. Tail(sends) \in SendsLeft /\ Len(Tail(sends)) = 3
    BY <1>3, <1>12, <2>1
  <2>3. FrameLen = 5 /\ NextLen = 5 + Len(z) /\ 5 \in Nat
    BY <1>1, <1>4, <1>5, <1>12, <2>1
  <2>4. \A i \in 1..Len(z) : z[i] = FrameByte(5 + i)
    <3>1. FrameByte(5 + 1) = z[1]
      <4>1. 5 + 1 = 6
        OBVIOUS
      <4> QED BY <1>1, <1>12, <4>1, FrameBytes
    <3>2. 1..Len(z) = {1}
      BY <1>1
    <3> QED BY <3>1, <3>2
  <2>5. Len(z) \in Nat /\ Len(z) <= 4
    BY <1>1, <1>5
  <2>6. MessageIs(z, 4, 5)
    BY <1>1, <2>1, <2>2, <2>3, <2>4, <2>5 DEF MessageIs
  <2>7. 4 \in 1..6 /\ 5 \in Nat
    OBVIOUS
  <2> QED BY <2>6, <2>7, Zenon
<1>13. CASE Old /\ sends = <<o, l, b>>
  <2>1. Head(sends) = o /\ Len(sends) = 3 /\ Tail(sends) = <<l, b>> /\ Len(<<l, b>>) = 2
    BY <1>13
  <2>2. Tail(sends) \in SendsLeft /\ Len(Tail(sends)) = 2
    BY <1>3, <1>13, <2>1
  <2>3. FrameLen = 6 /\ NextLen = 6 + Len(o) /\ 6 \in Nat
    BY <1>1, <1>4, <1>5, <1>13, <2>1
  <2>4. \A i \in 1..Len(o) : o[i] = FrameByte(6 + i)
    <3>1. FrameByte(6 + 1) = o[1]
      <4>1. 6 + 1 = 7
        OBVIOUS
      <4> QED BY <1>1, <1>13, <4>1, FrameBytes
    <3>2. 1..Len(o) = {1}
      BY <1>1
    <3> QED BY <3>1, <3>2
  <2>5. Len(o) \in Nat /\ Len(o) <= 4
    BY <1>1, <1>5
  <2>6. MessageIs(o, 3, 6)
    BY <1>1, <2>1, <2>2, <2>3, <2>4, <2>5 DEF MessageIs
  <2>7. 3 \in 1..6 /\ 6 \in Nat
    OBVIOUS
  <2> QED BY <2>6, <2>7, Zenon
<1>14. CASE ~Old /\ sends = <<h, z, l, b>>
  <2>1. Head(sends) = h /\ Len(sends) = 4 /\ Tail(sends) = <<z, l, b>> /\ Len(<<z, l, b>>) = 3
    BY <1>14
  <2>2. Tail(sends) \in SendsLeft /\ Len(Tail(sends)) = 3
    BY <1>3, <1>14, <2>1
  <2>3. FrameLen = 0 /\ NextLen = 0 + Len(h) /\ 0 \in Nat
    BY <1>1, <1>4, <1>5, <1>14, <2>1
  <2>4. \A i \in 1..Len(h) : h[i] = FrameByte(0 + i)
    <3>1. FrameByte(0 + 1) = h[1] /\ FrameByte(0 + 2) = h[2] /\ FrameByte(0 + 3) = h[3] /\ FrameByte(0 + 4) = h[4]
      <4>1. 0 + 1 = 1 /\ 0 + 2 = 2 /\ 0 + 3 = 3 /\ 0 + 4 = 4
        OBVIOUS
      <4> QED BY <1>1, <1>14, <4>1, FrameBytes
    <3>2. 1..Len(h) = {1, 2, 3, 4}
      BY <1>1
    <3> QED BY <3>1, <3>2
  <2>5. Len(h) \in Nat /\ Len(h) <= 4
    BY <1>1, <1>5
  <2>6. MessageIs(h, 4, 0)
    BY <1>1, <2>1, <2>2, <2>3, <2>4, <2>5 DEF MessageIs
  <2>7. 4 \in 1..6 /\ 0 \in Nat
    OBVIOUS
  <2> QED BY <2>6, <2>7, Zenon
<1>15. CASE ~Old /\ sends = <<z, l, b>>
  <2>1. Head(sends) = z /\ Len(sends) = 3 /\ Tail(sends) = <<l, b>> /\ Len(<<l, b>>) = 2
    BY <1>15
  <2>2. Tail(sends) \in SendsLeft /\ Len(Tail(sends)) = 2
    BY <1>3, <1>15, <2>1
  <2>3. FrameLen = 4 /\ NextLen = 4 + Len(z) /\ 4 \in Nat
    BY <1>1, <1>4, <1>5, <1>15, <2>1
  <2>4. \A i \in 1..Len(z) : z[i] = FrameByte(4 + i)
    <3>1. FrameByte(4 + 1) = z[1]
      <4>1. 4 + 1 = 5
        OBVIOUS
      <4> QED BY <1>1, <1>15, <4>1, FrameBytes
    <3>2. 1..Len(z) = {1}
      BY <1>1
    <3> QED BY <3>1, <3>2
  <2>5. Len(z) \in Nat /\ Len(z) <= 4
    BY <1>1, <1>5
  <2>6. MessageIs(z, 3, 4)
    BY <1>1, <2>1, <2>2, <2>3, <2>4, <2>5 DEF MessageIs
  <2>7. 3 \in 1..6 /\ 4 \in Nat
    OBVIOUS
  <2> QED BY <2>6, <2>7, Zenon
<1> QED BY <1>2, <1>6, <1>7, <1>8, <1>9, <1>10, <1>11, <1>12, <1>13, <1>14, <1>15

(* A submit starts with all of them.                                       *)
LEMMA MessagesAre ==
  /\ Messages \in SendsLeft
  /\ Len(Messages) = IF Old THEN 6 ELSE 4
<1>1. CASE Old
  <2>1. Messages = <<Head1, << 0 >>, << 0 >>, << 1 >>, Size1, cmdBytes>>
    BY <1>1, Zenon DEF Messages, Old, Head1, Size1
  <2>2. \A h, z, o, l, b : Len(<<h, z, z, o, l, b>>) = 6
    OBVIOUS
  <2>3. Messages \in SendsLeft
    BY <1>1, <2>1, Zenon DEF SendsLeft
  <2> QED BY <1>1, <2>1, <2>2, <2>3, Zenon
<1>2. CASE ~Old
  <2>1. Messages = <<Head1, << 0 >>, Size1, cmdBytes>>
    BY <1>2, Zenon DEF Messages, Old, Head1, Size1
  <2>2. \A h, z, l, b : Len(<<h, z, l, b>>) = 4
    OBVIOUS
  <2>3. Messages \in SendsLeft
    BY <1>2, <2>1, Zenon DEF SendsLeft
  <2> QED BY <1>2, <2>1, <2>2, <2>3, Zenon
<1> QED BY <1>1, <1>2
-----------------------------------------------------------------------------
(***************************************************************************)
(* The invariant, step by step.                                            *)
(***************************************************************************)
(* Nothing is sent: what has been sent stays within the bounds.            *)
LEMMA StreamKept ==
  ASSUME TypeInv, TypeInv', StreamInv, UNCHANGED out, cmd <= cmd', Limit <= Limit'
  PROVE  StreamInv'
<1>1. /\ out \in Seq(Nat) /\ cmd \in Nat /\ cmd' \in Nat
      /\ Len(sends) \in Nat /\ Len(sends') \in Nat
  BY LinuxAssumption, LenProperties DEF TypeInv, TypeOK, Shape
<1>2. Tame(out, cmd')
  BY <1>1, TameMore DEF StreamInv
<1>3. Len(out) \in Nat /\ Limit \in Int /\ Limit' \in Int
  BY <1>1, LenProperties DEF Limit, LimitAt
<1>4. Len(out) <= Limit'
  BY <1>3 DEF StreamInv
<1> QED BY <1>2, <1>4 DEF StreamInv

(* On a handle without a socket nothing is asked of one.                   *)
LEMMA NoSocket ==
  ASSUME TypeInv', "SOCKET" \notin conn_info'
  PROVE  SocketInv'
BY DEF TypeInv, PathInv, SocketInv

(* The transport of Windows.                                               *)
LEMMA WindowsKeeps ==
  ASSUME TypeInv, TypeInv', ChannelInv, WindowsNext
  PROVE  ChannelInv'
<1>1. platform = "windows" /\ platform' = platform /\ UNCHANGED linuxVars /\ Win!Next
  BY DEF WindowsNext
<1>2. /\ conn_info = {} /\ slot.state = "empty" /\ pc \in {"idle", "submit"}
      /\ conn_info' = {} /\ slot'.state = "empty" /\ pc' \in {"idle", "submit"}
  BY <1>1 DEF TypeInv, PathInv
<1>3. /\ cmd \in Nat /\ cmd' \in Nat /\ executed \subseteq 1..cmd
      /\ cmdBytes = << >> /\ cmdBytes' = << >> /\ UNCHANGED out
  BY <1>1, LinuxAssumption DEF linuxVars, TypeInv, TypeOK, ChannelInv, RunInv
<1>4. cmd <= cmd' /\ executed' \subseteq 1..cmd'
  <2>1. CASE Win!CreateCall \/ Win!Create \/ Win!Destroy \/ Win!SubmitReturns
    <3>1. cmd' = cmd /\ executed' = executed
      BY <2>1, Zenon DEF Win!CreateCall, Win!Create, Win!ContextCreate, Win!GetDeviceInfo,
                         Win!CreateFails, Win!Destroy, Win!SubmitReturns, Win!callVars
    <3> QED BY <1>3, <3>1
  <2>2. ASSUME NEW n \in RespCapacity, Win!SubmitCall(n) PROVE cmd <= cmd' /\ executed' \subseteq 1..cmd'
    BY <1>3, <2>2 DEF Win!SubmitCall
  <2>3. CASE Win!TbsRuns
    <3>1. cmd \in 1..cmd
      BY <1>3, <2>3 DEF Win!TbsRuns, TypeInv, PathInv, Command
    <3> QED BY <1>3, <2>3, <3>1 DEF Win!TbsRuns
  <2> QED BY <1>1, <2>1, <2>2, <2>3 DEF Win!Next
<1>5. Limit <= Limit'
  <2>1. Limit = 24 * cmd - 0 + 4 /\ Limit' = 24 * cmd' - 0 + 4
    BY <1>2 DEF Limit, LimitAt
  <2>2. cmd \in Nat /\ cmd' \in Nat /\ cmd <= cmd'
    BY <1>3, <1>4, Zenon
  <2>3. \A a, b \in Nat : a <= b => 24 * a - 0 + 4 <= 24 * b - 0 + 4
    OBVIOUS
  <2> QED BY <2>1, <2>2, <2>3, Zenon
<1>6. StreamInv'
  BY <1>3, <1>4, <1>5, StreamKept DEF ChannelInv
<1>7. SocketInv'
  BY <1>2, NoSocket
<1>8. PacketInv'
  BY <1>2 DEF PacketInv
<1>9. RunInv'
  BY <1>1, <1>2, <1>3, <1>4 DEF RunInv
<1> QED BY <1>6, <1>7, <1>8, <1>9 DEF ChannelInv

(* tpm_comm_create: nothing is on its way on a new handle.                 *)
LEMMA CreateKeeps ==
  ASSUME TypeInv, TypeInv', ChannelInv, platform = "linux", platform' = platform,
         CreateCall \/ Create
  PROVE  ChannelInv'
<1>1. /\ comm = "null" /\ pc = "idle" /\ peer = "down" /\ slot.state = "empty"
      /\ UNCHANGED <<machine, faults, callVars, pc, sends, respVars, slot, executed>>
  BY CreateDoes DEF CreateCall, TypeInv, PathInv
<1>2. /\ cmd' = cmd /\ cmdBytes' = cmdBytes /\ pc' = "idle" /\ slot' = slot /\ executed' = executed
      /\ cmd \in Nat /\ conn_info = {}
  BY <1>1, CommandIs DEF callVars, ChannelInv, TypeInv, PathInv
<1>3. PacketInv'
  BY <1>1, <1>2 DEF PacketInv
<1>4. ASSUME "SOCKET" \notin conn_info', UNCHANGED netVars PROVE ChannelInv'
  <2>1. UNCHANGED <<out, peer>>
    BY <1>4 DEF netVars
  <2>2. Limit <= Limit'
    BY <1>1, <1>2, <1>4 DEF Limit, LimitAt
  <2>3. StreamInv'
    BY <1>2, <2>1, <2>2, StreamKept DEF ChannelInv
  <2>4. RunInv'
    BY <1>1, <1>2, <1>4, <2>1 DEF ChannelInv, RunInv
  <2> QED BY <1>3, <1>4, <2>3, <2>4, NoSocket DEF ChannelInv
<1>5. CASE UNCHANGED <<comm, conn_info, failed, netVars>>
  BY <1>2, <1>4, <1>5
<1>6. CASE /\ "SOCKET" \in conn_info' /\ out' = << >> /\ in' = << >> /\ daemonPos' = 0
  <2>1. conn_info' # {}
    BY <1>6
  <2>2. Len(out') = 0 /\ cmd \in Nat /\ Limit' = 24 * cmd
    BY <1>1, <1>2, <1>6, <2>1 DEF Limit, LimitAt
  <2>3. StreamInv'
    BY <1>6, <2>2 DEF StreamInv, Tame
  <2>4. Unserved'
    BY <1>1, <1>2, <1>6, <2>2 DEF Unserved, FrameLen
  <2>5. SocketInv'
    BY <1>2, <2>4 DEF SocketInv
  <2>6. RunInv'
    BY <1>1, <1>2, <1>6 DEF ChannelInv, RunInv
  <2> QED BY <1>3, <2>3, <2>5, <2>6 DEF ChannelInv
<1>7. CreateCall => UNCHANGED <<comm, conn_info, failed, netVars>>
  BY Zenon DEF CreateCall
<1> QED BY <1>4, <1>5, <1>6, <1>7, CreateDoes

(* The bound on the bytes sent, at every point of a call.                  *)
LEMMA LimitIs ==
  ASSUME NEW c \in Nat, NEW n \in Nat, NEW p, NEW flags
  PROVE  /\ LimitAt(c, p, n, flags) \in Int
         /\ "SOCKET" \in flags =>
              /\ LimitAt(c, p, n, flags) <= 24 * c
              /\ p = "entry" => LimitAt(c, p, n, flags) = 24 * c - 24
              /\ p = "send" => LimitAt(c, p, n, flags) = 24 * c - 4 * n
              /\ p \notin {"entry", "send"} => LimitAt(c, p, n, flags) = 24 * c
         /\ "SOCKET" \notin flags =>
              /\ LimitAt(c, p, n, flags) <= 24 * c + 4
              /\ p = "entry" => LimitAt(c, p, n, flags) = 24 * c - 20
              /\ p \notin {"entry", "send"} => LimitAt(c, p, n, flags) = 24 * c + 4
<1>1. CASE "SOCKET" \in flags
  <2>1. CASE p = "entry"
    <3>1. LimitAt(c, p, n, flags) = 24 * c - 24 + 0
      BY <1>1, <2>1, Zenon DEF LimitAt
    <3> QED BY <1>1, <2>1, <3>1
  <2>2. CASE p = "send"
    <3>1. LimitAt(c, p, n, flags) = 24 * c - 4 * n + 0
      BY <1>1, <2>2 DEF LimitAt
    <3> QED BY <1>1, <2>2, <3>1
  <2>3. CASE p \notin {"entry", "send"}
    <3>1. LimitAt(c, p, n, flags) = 24 * c - 0 + 0
      BY <1>1, <2>3 DEF LimitAt
    <3> QED BY <1>1, <2>3, <3>1
  <2> QED BY <2>1, <2>2, <2>3
<1>2. CASE "SOCKET" \notin flags
  <2>1. CASE p = "entry"
    <3>1. LimitAt(c, p, n, flags) = 24 * c - 24 + 4
      BY <1>2, <2>1, Zenon DEF LimitAt
    <3> QED BY <1>2, <2>1, <3>1
  <2>2. CASE p = "send"
    <3>1. LimitAt(c, p, n, flags) = 24 * c - 4 * n + 4
      BY <1>2, <2>2 DEF LimitAt
    <3> QED BY <1>2, <2>2, <3>1
  <2>3. CASE p \notin {"entry", "send"}
    <3>1. LimitAt(c, p, n, flags) = 24 * c - 0 + 4
      BY <1>2, <2>3 DEF LimitAt
    <3> QED BY <1>2, <2>3, <3>1
  <2> QED BY <2>1, <2>2, <2>3
<1> QED BY <1>1, <1>2

(* A submit that fails, wherever it stood: only what it left in the slot   *)
(* and on the socket counts.                                               *)
LEMMA FailsKeeps ==
  ASSUME TypeInv, ChannelInv, pc # "idle", Fails, StreamInv', UNCHANGED <<peer, platform>>,
         slot' \in {slot, Empty} \/ (slot' = Orphan /\ "SOCKET" \notin conn_info)
  PROVE  ChannelInv'
<1>1. /\ pc' = "idle" /\ failed' = TRUE /\ cmd' = cmd /\ cmdBytes' = cmdBytes
      /\ executed' = executed /\ conn_info' = conn_info /\ comm' = comm
  BY DEF Fails, callVars
<1>2. cmd \in 1..cmd
  BY CommandIs DEF ChannelInv
<1>3. /\ Orphan.state = "orphan" /\ Orphan.cmd = cmd
      /\ Empty.state = "empty"
  BY DEF Orphan, Sent, Empty
<1>4. /\ slot'.state # "empty" => slot'.cmd \in 1..cmd
      /\ slot'.state = "replied" => slot'.cmd \in executed
  BY <1>2, <1>3 DEF ChannelInv, PacketInv
<1>5. SocketInv' /\ PacketInv'
  BY <1>1, <1>4 DEF SocketInv, PacketInv, Live
<1>6. "SOCKET" \in conn_info => slot'.state = "empty"
  BY <1>3 DEF ChannelInv, RunInv
<1>7. RunInv'
  BY <1>1, <1>6 DEF ChannelInv, RunInv
<1> QED BY <1>5, <1>7 DEF ChannelInv

(* Nothing is sent by a step to where no message is left to be sent.       *)
LEMMA StreamEnds ==
  ASSUME TypeInv, TypeInv', StreamInv, UNCHANGED <<out, conn_info, cmd>>,
         pc' \notin {"entry", "send"}
  PROVE  StreamInv'
<1>1. PICK c \in Nat, n \in Nat, m \in Nat :
        c = cmd /\ n = Len(sends) /\ m = Len(sends') /\ c = cmd'
  <2>1. cmd \in Nat
    BY LinuxAssumption DEF TypeInv, TypeOK
  <2>2. Len(sends) \in Nat
    BY LenProperties DEF TypeInv, Shape
  <2>3. Len(sends') \in Nat
    BY LenProperties DEF TypeInv, Shape
  <2> QED BY <2>1, <2>2, <2>3
<1>2. LimitAt(c, pc, n, conn_info) <= LimitAt(c, pc', m, conn_info)
  BY LimitIs
<1>3. Limit <= Limit' /\ cmd <= cmd'
  BY <1>1, <1>2 DEF Limit
<1> QED BY <1>3, StreamKept

(* tpm_comm_destroy: the end of a session is one word, or a part of it.    *)
LEMMA DestroyKeeps ==
  ASSUME TypeInv, TypeInv', ChannelInv, platform = "linux", platform' = platform, Destroy
  PROVE  ChannelInv'
<1>1. /\ pc = "idle" /\ comm' = "null" /\ conn_info' = {} /\ failed' = FALSE /\ in' = << >>
      /\ UNCHANGED <<machine, faults, creating, callVars, pc, sends, respVars, daemonPos, peer, executed>>
  BY Zenon DEF Destroy
<1>2. /\ pc' = "idle" /\ cmd' = cmd /\ cmdBytes' = cmdBytes /\ executed' = executed
      /\ cmd \in Nat /\ Len(sends) \in Nat /\ Len(sends') \in Nat /\ out \in Seq(Nat)
      /\ Len(out) \in Nat
  BY <1>1, LinuxAssumption, LenProperties DEF callVars, TypeInv, TypeOK, Shape
<1>3. Limit' = 24 * cmd + 4
  BY <1>1, <1>2, LimitIs DEF Limit
<1>4. StreamInv'
  <2> DEFINE bye == Word(REMOTE_SESSION_END_CMD)
  <2>1. /\ Tame(out, cmd) /\ Len(out) <= 24 * cmd + 4
        /\ "SOCKET" \in conn_info => Len(out) <= 24 * cmd
    BY <1>1, <1>2, LimitIs DEF ChannelInv, StreamInv, Limit
  <2>2. bye \in Seq(Nat) /\ Len(bye) = 4 /\ Tame(bye, cmd)
    <3>1. 20 \in 0..255
      OBVIOUS
    <3> QED BY <1>2, <3>1, SmallWord DEF REMOTE_SESSION_END_CMD
  <2>3. \/ out' = out
        \/ "SOCKET" \in conn_info /\ \E m \in {bye} \cup Prefixes(bye) : out' = out \o m
    <3>1. CASE "SOCKET" \in conn_info
      <4>1. PICK m \in IF "send" \in faults THEN Prefixes(bye) ELSE {bye} : out' = out \o m
        BY <3>1, Zenon DEF Destroy
      <4>2. m \in {bye} \cup Prefixes(bye)
        <5> HIDE DEF bye
        <5> QED BY <4>1
      <4> QED BY <3>1, <4>1, <4>2, Zenon
    <3>2. CASE "SOCKET" \notin conn_info
      BY <3>2, Zenon DEF Destroy
    <3> QED BY <3>1, <3>2
  <2> HIDE DEF bye
  <2>4. CASE out' = out
    BY <1>2, <1>3, <2>1, <2>4 DEF StreamInv
  <2>5. CASE "SOCKET" \in conn_info /\ \E m \in {bye} \cup Prefixes(bye) : out' = out \o m
    <3>1. PICK m \in {bye} \cup Prefixes(bye) : out' = out \o m
      BY <2>5
    <3>2. m \in Seq(Nat) /\ Tame(m, cmd) /\ Len(m) \in 0..4
      <4>1. CASE m = bye
        BY <2>2, <4>1
      <4>2. ASSUME NEW n \in 0..Len(bye), m = SubSeq(bye, 1, n) PROVE m \in Seq(Nat) /\ Tame(m, cmd) /\ Len(m) \in 0..4
        <5>1. Tame(m, cmd) /\ m \in Seq(Nat) /\ Len(m) = n
          BY <1>2, <2>2, <4>2, TamePart
        <5> QED BY <2>2, <5>1
      <4>3. m = bye \/ \E n \in 0..Len(bye) : m = SubSeq(bye, 1, n)
        BY <3>1 DEF Prefixes
      <4> QED BY <4>1, <4>2, <4>3
    <3>3. Tame(out', cmd) /\ Len(out') = Len(out) + Len(m)
      BY <1>2, <2>1, <3>1, <3>2, TameJoin
    <3>4. Len(out') <= 24 * cmd + 4
      <4>1. \A a, b, c \in Nat : a <= 24 * c /\ b <= 4 => a + b <= 24 * c + 4
        OBVIOUS
      <4>2. Len(m) \in Nat /\ Len(m) <= 4
        <5>1. Len(m) \in 0..4
          BY <3>2, Zenon
        <5>2. \A k \in 0..4 : k \in Nat /\ k <= 4
          OBVIOUS
        <5> QED BY <5>1, <5>2, Zenon
      <4>3. Len(out) <= 24 * cmd /\ Len(out) \in Nat /\ cmd \in Nat
        BY <1>2, <2>1, <2>5, Zenon
      <4>4. Len(out) + Len(m) <= 24 * cmd + 4
        BY <4>1, <4>2, <4>3, Zenon
      <4> QED BY <3>3, <4>4, Zenon
    <3> QED BY <1>2, <1>3, <3>3, <3>4 DEF StreamInv
  <2> QED BY <2>3, <2>4, <2>5
<1>5. /\ slot'.state # "empty" => slot'.cmd \in 1..cmd
      /\ slot'.state = "replied" => slot'.cmd \in executed
  <2>1. CASE slot.state = "replied"
    <3>1. slot' = Empty
      BY <2>1, Zenon DEF Destroy
    <3> QED BY <3>1 DEF Empty
  <2>2. CASE slot.state = "sent"
    <3>1. slot' = [slot EXCEPT !.state = "orphan"]
      BY <2>2, Zenon DEF Destroy
    <3>2. slot'.state = "orphan" /\ slot'.cmd = slot.cmd
      BY <3>1 DEF TypeInv, Shape, Packet
    <3> QED BY <2>2, <3>2 DEF ChannelInv, PacketInv
  <2>3. CASE slot.state \notin {"replied", "sent"}
    <3>1. slot' = slot
      BY <2>3, Zenon DEF Destroy
    <3> QED BY <3>1 DEF ChannelInv, PacketInv
  <2> QED BY <2>1, <2>2, <2>3
<1>6. SocketInv' /\ PacketInv'
  BY <1>1, <1>2, <1>5 DEF SocketInv, PacketInv, Live
<1>7. RunInv'
  BY <1>1, <1>2 DEF ChannelInv, RunInv
<1> QED BY <1>4, <1>6, <1>7 DEF ChannelInv

(* A call of tpm_comm_submit_command begins, with a command of its own.    *)
LEMMA SubmitCallKeeps ==
  ASSUME TypeInv, TypeInv', ChannelInv, platform = "linux", platform' = platform,
         NEW c \in Command, NEW n \in RespCapacity, NEW b \in {<<c, c>>, << >>}, SubmitCall(c, b, n)
  PROVE  ChannelInv'
<1>1. /\ comm = "open" /\ pc = "idle" /\ c = cmd + 1 /\ cmd' = c /\ cmdBytes' = b
      /\ pc' = "entry"
      /\ UNCHANGED <<handleVars, sends, got, retval, reply, slot, netVars, executed>>
  BY Zenon DEF SubmitCall
<1>2. /\ cmd \in Nat /\ cmd' \in Nat /\ cmd' = cmd + 1 /\ cmd <= cmd'
      /\ Len(sends) \in Nat /\ Len(sends') \in Nat
      /\ out' = out /\ in' = in /\ daemonPos' = daemonPos /\ peer' = peer
      /\ executed' = executed /\ slot' = slot /\ conn_info' = conn_info /\ comm' = comm
      /\ failed' = failed
  <2>1. cmd \in Nat
    BY LinuxAssumption DEF TypeInv, TypeOK
  <2>2. sends \in Seq(Seq(Nat)) /\ sends' = sends
    BY <1>1 DEF TypeInv, Shape
  <2> QED BY <1>1, <2>1, <2>2, LenProperties DEF handleVars, netVars
<1>3. executed \subseteq 1..cmd /\ cmd' \notin executed /\ 1..cmd \subseteq 1..cmd'
  BY <1>2 DEF ChannelInv, RunInv
<1>4. StreamInv'
  <2>1. PICK k \in Nat, l \in Nat, m \in Nat : k = cmd /\ l = Len(sends) /\ m = Len(sends')
    BY <1>2
  <2>2. LimitAt(k, "idle", l, conn_info) <= LimitAt(k + 1, "entry", m, conn_info)
    <3>1. k + 1 \in Nat /\ 24 * (k + 1) = 24 * k + 24
      OBVIOUS
    <3> QED BY <3>1, LimitIs
  <2>3. Limit <= Limit'
    BY <1>1, <1>2, <2>1, <2>2 DEF Limit
  <2> QED BY <1>2, <2>3, StreamKept DEF ChannelInv
<1>5. SocketInv'
  <2> SUFFICES ASSUME Live', "SOCKET" \in conn_info' PROVE Unserved'
    BY <1>1 DEF SocketInv
  <2>1. Unserved
    BY <1>1, <1>2 DEF Live, ChannelInv, SocketInv, Served
  <2> QED BY <1>1, <1>2, <1>3, <2>1 DEF Unserved, FrameLen
<1>6. PacketInv'
  BY <1>1, <1>2, <1>3 DEF ChannelInv, PacketInv, Live
<1>7. RunInv'
  BY <1>1, <1>2, <1>3 DEF ChannelInv, RunInv
<1> QED BY <1>4, <1>5, <1>6, <1>7 DEF ChannelInv

(* Its checks, and the first step on the way the flags lead.               *)
LEMMA SubmitStartsKeeps ==
  ASSUME TypeInv, TypeInv', ChannelInv, platform = "linux", platform' = platform, SubmitStarts
  PROVE  ChannelInv'
<1>1. pc = "entry" /\ UNCHANGED <<handleVars, callVars, respVars, slot, netVars, executed>>
  BY Zenon DEF SubmitStarts
<1>2. /\ cmd' = cmd /\ cmdBytes' = cmdBytes /\ out' = out /\ in' = in /\ daemonPos' = daemonPos
      /\ peer' = peer /\ executed' = executed /\ slot' = slot /\ conn_info' = conn_info
      /\ comm' = comm /\ failed' = failed
  BY <1>1 DEF handleVars, callVars, netVars
<1>3. /\ "SOCKET" \notin conn_info => pc' \in {"write", "transmit"}
      /\ "SOCKET" \in conn_info => pc' = "send" /\ sends' = Messages
  <2>1. /\ "SYS_DEV" \in conn_info \/ "TCTI" \in conn_info \/ "SOCKET" \in conn_info
        /\ "SOCKET" \in conn_info => "SYS_DEV" \notin conn_info /\ "TCTI" \notin conn_info
    BY <1>1 DEF TypeInv, PathInv, TypeOK, Connection
  <2> QED BY <2>1, Zenon DEF SubmitStarts
<1>4. PacketInv'
  BY <1>1, <1>2, <1>3 DEF ChannelInv, PacketInv, Live
<1>5. RunInv'
  BY <1>1, <1>2 DEF ChannelInv, RunInv
<1>6. CASE "SOCKET" \notin conn_info
  <2>1. StreamInv'
    BY <1>2, <1>3, <1>6, StreamEnds DEF ChannelInv
  <2> QED BY <1>2, <1>4, <1>5, <1>6, <2>1, NoSocket DEF ChannelInv
<1>7. CASE "SOCKET" \in conn_info
  <2>1. Messages \in SendsLeft /\ Len(Messages) = IF Old THEN 6 ELSE 4
    BY MessagesAre
  <2>2. sends' \in SendsLeft' /\ (Old' <=> Old)
    BY <1>2, <1>3, <1>7, <2>1 DEF SendsLeft, Old, Head1, Size1
  <2>3. StreamInv'
    <3>1. PICK k \in Nat, l \in Nat, m \in Nat : k = cmd /\ l = Len(sends) /\ m = Len(Messages) /\ m <= 6
      <4>1. cmd \in Nat
        BY CommandIs DEF ChannelInv
      <4>2. Len(sends) \in Nat
        BY LenProperties DEF TypeInv, Shape
      <4> QED BY <2>1, <4>1, <4>2, SMTT(30)
    <3>2. LimitAt(k, "entry", l, conn_info) <= LimitAt(k, "send", m, conn_info)
      <4>1. 24 * k - 24 <= 24 * k - 4 * m
        BY <3>1
      <4>2. /\ LimitAt(k, "entry", l, conn_info) = 24 * k - 24
            /\ LimitAt(k, "send", m, conn_info) = 24 * k - 4 * m
        BY <1>7, LimitIs
      <4> QED BY <4>1, <4>2
    <3>3. Limit <= Limit' /\ cmd <= cmd'
      BY <1>1, <1>2, <1>3, <1>7, <3>1, <3>2 DEF Limit
    <3> QED BY <1>2, <3>3, StreamKept DEF ChannelInv
  <2>4. SocketInv'
    <3> SUFFICES ASSUME Live' PROVE Unserved'
      BY <2>2 DEF SocketInv
    <3>1. Unserved /\ FrameLen = 0
      BY <1>1, <1>2, <1>7 DEF Live, ChannelInv, SocketInv, Served, FrameLen
    <3>2. FrameLen' = 0
      <4>1. CASE Old
        <5>1. Len(sends') = 6 /\ pc' = "send" /\ Old'
          BY <1>3, <1>7, <2>1, <2>2, <4>1
        <5> QED BY <5>1 DEF FrameLen
      <4>2. CASE ~Old
        <5>1. Len(sends') = 4 /\ pc' = "send" /\ ~Old'
          BY <1>3, <1>7, <2>1, <2>2, <4>2
        <5> QED BY <5>1 DEF FrameLen
      <4> QED BY <4>1, <4>2
    <3> QED BY <1>1, <1>2, <1>3, <1>7, <3>1, <3>2 DEF Unserved
  <2> QED BY <1>4, <1>5, <2>3, <2>4 DEF ChannelInv
<1> QED BY <1>6, <1>7

(* A refusal, and the packets of the device and of abrmd.                  *)
LEMMA PacketKeeps ==
  ASSUME TypeInv, TypeInv', ChannelInv, platform = "linux", platform' = platform,
         SubmitRefused \/ DeviceWrite \/ TctiTransmit \/ DeviceRead \/ TctiReceive
  PROVE  ChannelInv'
<1>1. pc # "idle" /\ UNCHANGED netVars
  BY DEF SubmitRefused, DeviceWrite, TctiTransmit, DeviceRead, TctiReceive, PacketSent, PacketFails
<1>2. out' = out /\ peer' = peer
  BY <1>1 DEF netVars
<1>3. ASSUME Fails, slot' \in {slot, Empty} \/ (slot' = Orphan /\ "SOCKET" \notin conn_info)
      PROVE  ChannelInv'
  <2>1. pc' = "idle" /\ conn_info' = conn_info /\ cmd' = cmd
    BY <1>3 DEF Fails, callVars
  <2>2. StreamInv'
    BY <1>2, <2>1, StreamEnds DEF ChannelInv
  <2> QED BY <1>1, <1>2, <1>3, <2>2, FailsKeeps
<1>4. CASE SubmitRefused
  BY <1>3, <1>4 DEF SubmitRefused
<1>5. "SOCKET" \notin conn_info \/ pc = "entry"
  BY DEF TypeInv, PathInv, Connection, SubmitRefused, DeviceWrite, TctiTransmit, DeviceRead, TctiReceive
<1>6. CASE PacketFails /\ pc \in {"write", "transmit"}
  <2>1. Fails /\ slot' \in {slot, Orphan}
    BY <1>6 DEF PacketFails
  <2> QED BY <1>3, <1>5, <1>6, <2>1
<1>7. ASSUME NEW next \in {"read", "receive"}, PacketSent(next), pc \in {"write", "transmit"}
      PROVE  ChannelInv'
  <2>1. /\ slot' = Sent /\ pc' = next /\ cmd' = cmd /\ cmdBytes' = cmdBytes /\ executed' = executed
        /\ conn_info' = conn_info /\ comm' = comm /\ failed' = failed /\ slot.state = "empty"
    BY <1>7 DEF PacketSent, handleVars, callVars
  <2>2. "SOCKET" \notin conn_info
    BY <1>5, <1>7
  <2>3. StreamInv'
    BY <1>2, <2>1, StreamEnds DEF ChannelInv
  <2>4. slot'.state = "sent" /\ slot'.cmd = cmd /\ cmd \in 1..cmd
    BY <1>1, <2>1, CommandIs DEF Sent, ChannelInv
  <2>5. PacketInv'
    BY <1>7, <2>1, <2>2, <2>4 DEF ChannelInv, PacketInv, Live
  <2>6. RunInv'
    BY <1>2, <2>1, <2>2 DEF ChannelInv, RunInv
  <2> QED BY <2>1, <2>2, <2>3, <2>5, <2>6, NoSocket DEF ChannelInv
<1>8. ASSUME NEW c, NEW n, NEW m, Succeeds(c, n, m), slot' = Empty, pc \in {"read", "receive"}
      PROVE  ChannelInv'
  <2>1. /\ pc' = "idle" /\ cmd' = cmd /\ cmdBytes' = cmdBytes /\ executed' = executed
        /\ conn_info' = conn_info /\ comm' = comm /\ failed' = failed /\ slot'.state = "empty"
    BY <1>8 DEF Succeeds, handleVars, callVars, Empty
  <2>2. "SOCKET" \notin conn_info
    BY <1>5, <1>8
  <2>3. StreamInv'
    BY <1>2, <2>1, StreamEnds DEF ChannelInv
  <2>4. PacketInv'
    BY <2>1 DEF PacketInv
  <2>5. RunInv'
    BY <1>2, <2>1, <2>2 DEF ChannelInv, RunInv
  <2> QED BY <2>1, <2>2, <2>3, <2>4, <2>5, NoSocket DEF ChannelInv
<1>9. CASE DeviceWrite \/ TctiTransmit
  BY <1>6, <1>7, <1>9 DEF DeviceWrite, TctiTransmit
<1>10. CASE DeviceRead
  <2>1. \/ (\E c, n, m : Succeeds(c, n, m)) /\ slot' = Empty
        \/ Fails /\ slot' = slot
    BY <1>10, Zenon DEF DeviceRead
  <2> QED BY <1>3, <1>8, <1>10, <2>1 DEF DeviceRead
<1>11. CASE TctiReceive
  <2>1. \/ (\E c, n, m : Succeeds(c, n, m)) /\ slot' = Empty
        \/ Fails /\ slot' = slot
    BY <1>11, Zenon DEF TctiReceive
  <2> QED BY <1>3, <1>8, <1>11, <2>1 DEF TctiReceive
<1> QED BY <1>4, <1>9, <1>10, <1>11

(* The TPM runs what is in the slot, or the driver drops it.               *)
LEMMA SlotKeeps ==
  ASSUME TypeInv, TypeInv', ChannelInv, platform = "linux", platform' = platform,
         TpmRuns \/ DeviceDiscards
  PROVE  ChannelInv'
<1>1. UNCHANGED <<handleVars, callVars, pc, sends, respVars, netVars>> /\ slot.state # "empty"
  BY DEF TpmRuns, DeviceDiscards
<1>2. /\ cmd' = cmd /\ cmdBytes' = cmdBytes /\ pc' = pc /\ out' = out /\ peer' = peer
      /\ conn_info' = conn_info /\ comm' = comm /\ failed' = failed /\ sends' = sends
  BY <1>1 DEF handleVars, callVars, netVars
<1>3. "SOCKET" \notin conn_info /\ slot.cmd \in 1..cmd
  BY <1>1 DEF ChannelInv, RunInv, PacketInv
<1>4. StreamInv'
  <2>1. Limit' = Limit
    BY <1>2 DEF Limit
  <2> QED BY <1>2, <2>1 DEF ChannelInv, StreamInv
<1>5. /\ executed' \subseteq 1..cmd /\ executed \subseteq executed' /\ executed' \subseteq executed \cup {slot.cmd}
      /\ \/ slot'.state = "empty"
         \/ slot.state = "sent" /\ slot'.state = "replied" /\ slot'.cmd = slot.cmd /\ slot.cmd \in executed'
  <2>1. CASE DeviceDiscards
    BY <2>1 DEF DeviceDiscards, Empty, ChannelInv, RunInv
  <2>2. CASE TpmRuns
    <3>1. slot.state \in {"sent", "orphan"} /\ executed' = executed \cup {slot.cmd}
      BY <2>2 DEF TpmRuns
    <3>2. \/ slot' = Empty
          \/ slot.state = "sent" /\ \E n \in RespSize : slot' = [slot EXCEPT !.state = "replied", !.len = n]
      BY <2>2, <3>1, Zenon DEF TpmRuns
    <3>3. ASSUME NEW n \in RespSize, slot' = [slot EXCEPT !.state = "replied", !.len = n]
          PROVE  slot'.state = "replied" /\ slot'.cmd = slot.cmd
      BY <3>3 DEF TypeInv, Shape, Packet
    <3>4. \/ slot'.state = "empty"
          \/ slot.state = "sent" /\ slot'.state = "replied" /\ slot'.cmd = slot.cmd
      <4>1. Empty.state = "empty"
        BY DEF Empty
      <4> QED BY <3>2, <3>3, <4>1
    <3>5. executed \subseteq 1..cmd
      BY DEF ChannelInv, RunInv
    <3> QED BY <1>3, <3>1, <3>4, <3>5
  <2> QED BY <2>1, <2>2
<1>6. PacketInv'
  <2>1. Live /\ "SOCKET" \notin conn_info => pc \in {"read", "receive"}
    BY <1>1 DEF ChannelInv, PacketInv
  <2> QED BY <1>2, <1>3, <1>5, <2>1 DEF ChannelInv, PacketInv, Live
<1>7. RunInv'
  BY <1>2, <1>3, <1>5 DEF ChannelInv, RunInv
<1> QED BY <1>2, <1>3, <1>4, <1>6, <1>7, NoSocket DEF ChannelInv

(* A message of at most four bytes, or a part of it, goes out.             *)
LEMMA StreamGrows ==
  ASSUME TypeInv, TypeInv', StreamInv, "SOCKET" \in conn_info, UNCHANGED <<cmd, conn_info>>,
         pc = "send", sends # << >>,
         \/ pc' \notin {"entry", "send"}
         \/ pc' = "send" /\ Len(sends') = Len(sends) - 1,
         NEW m \in Seq(Nat), Tame(m, cmd), Len(m) <= 4, out' = out \o m
  PROVE  StreamInv'
<1>1. PICK c \in Nat, k \in Nat, l \in Nat, n \in Nat, a \in Nat :
        c = cmd /\ k = Len(sends) /\ l = Len(sends') /\ n = Len(out) /\ a = Len(m) /\ k # 0 /\ a <= 4
  <2>1. cmd \in Nat
    BY LinuxAssumption DEF TypeInv, TypeOK
  <2>2. Len(sends) \in Nat /\ Len(sends') \in Nat /\ Len(sends) # 0
    <3>1. sends \in Seq(Seq(Nat)) /\ sends' \in Seq(Seq(Nat))
      BY DEF TypeInv, Shape
    <3> QED BY <3>1, EmptySeq, LenProperties
  <2>3. Len(out) \in Nat /\ Len(m) \in Nat
    BY LenProperties DEF TypeInv, Shape
  <2> QED BY <2>1, <2>2, <2>3
<1>2. Tame(out', cmd) /\ Len(out') = n + a
  BY <1>1, TameJoin DEF StreamInv, TypeInv, Shape
<1>3. n <= 24 * c - 4 * k
  <2>1. Limit = 24 * c - 4 * k
    BY <1>1, LimitIs DEF Limit
  <2> QED BY <1>1, <2>1 DEF StreamInv
<1>4. n + a <= Limit'
  <2>1. CASE pc' \notin {"entry", "send"}
    <3>1. Limit' = 24 * c
      BY <1>1, <2>1, LimitIs DEF Limit
    <3> QED BY <1>1, <1>3, <3>1
  <2>2. CASE pc' = "send" /\ l = k - 1
    <3>1. Limit' = 24 * c - 4 * l
      BY <1>1, <2>2, LimitIs DEF Limit
    <3> QED BY <1>1, <1>3, <2>2, <3>1
  <2> QED BY <1>1, <2>1, <2>2
<1> QED BY <1>2, <1>4 DEF StreamInv

(* Behind the first d bytes of s stand the first n of f, and b has those   *)
(* that come next.                                                         *)
Carries(s, d, f, n) == Len(s) - d = n /\ \A i \in 1..n : s[d + i] = f[i]
Continues(b, f, n) == \A i \in 1..Len(b) : b[i] = f[n + i]

(* The bytes of a request stand one after the other.                       *)
LEMMA Appended ==
  ASSUME NEW s \in Seq(Nat), NEW b \in Seq(Nat), NEW d \in Nat, NEW from \in Nat, NEW f,
         Carries(s, d, f, from), Continues(b, f, from)
  PROVE  Carries(s \o b, d, f, from + Len(b))
<1>1. PICK n \in Nat, a \in Nat : n = Len(s) /\ a = Len(b) /\ n = d + from
  <2>1. Len(s) \in Nat /\ Len(b) \in Nat
    BY LenProperties
  <2>2. Len(s) = d + from
    BY <2>1 DEF Carries
  <2> QED BY <2>1, <2>2
<1>2. PICK w : w = s \o b /\ Len(w) = n + a
               /\ \A i \in 1..n + a : w[i] = IF i <= n THEN s[i] ELSE b[i - n]
  <2>1. PICK w : w = s \o b
    OBVIOUS
  <2>2. /\ Len(w) = Len(s) + Len(b)
        /\ \A i \in 1..Len(s) : w[i] = s[i]
        /\ \A i \in Len(s) + 1..Len(s) + Len(b) : w[i] = b[i - Len(s)]
    BY <2>1, ConcatProperties
  <2>3. \A i \in 1..n + a : i \in 1..n \/ i \in n + 1..n + a
    OBVIOUS
  <2>4. \A i \in n + 1..n + a : ~(i <= n)
    OBVIOUS
  <2>5. \A i \in 1..n : i <= n
    OBVIOUS
  <2>6. ASSUME NEW i \in 1..n + a PROVE w[i] = IF i <= n THEN s[i] ELSE b[i - n]
    <3>1. CASE i \in 1..n
      BY <1>1, <2>2, <2>5, <3>1, Zenon
    <3>2. CASE i \in n + 1..n + a
      BY <1>1, <2>2, <2>4, <3>2, Zenon
    <3> QED BY <2>3, <3>1, <3>2, Zenon
  <2> QED BY <1>1, <2>1, <2>2, <2>6, Zenon
<1>3. Len(w) - d = from + a
  <2>1. n + a - d = from + a
    BY <1>1
  <2> QED BY <1>2, <2>1
<1>4. ASSUME NEW i \in 1..from + a PROVE w[d + i] = f[i]
  <2>1. d + i \in 1..n + a /\ (d + i <= n <=> i <= from)
    BY <1>1
  <2>2. CASE i <= from
    <3>1. i \in 1..from
      BY <2>2
    <3>2. s[d + i] = f[i]
      BY <3>1 DEF Carries
    <3> QED BY <1>2, <2>1, <2>2, <3>2
  <2>3. CASE ~(i <= from)
    <3>1. d + i - n = i - from /\ i - from \in 1..a /\ from + (i - from) = i
      BY <1>1, <2>3
    <3>2. w[d + i] = b[d + i - n]
      BY <1>2, <2>1, <2>3
    <3>3. b[i - from] = f[from + (i - from)]
      BY <1>1, <3>1 DEF Continues
    <3> QED BY <3>1, <3>2, <3>3
  <2> QED BY <2>2, <2>3
<1> QED BY <1>1, <1>2, <1>3, <1>4 DEF Carries

(* The next message of the request goes out.                               *)
LEMMA SentOn ==
  ASSUME TypeInv, TypeInv', ChannelInv, pc = "send", "SOCKET" \in conn_info,
         NEW m, NEW k \in 1..6, NEW from \in Nat, MessageIs(m, k, from), m # << >>,
         out' = out \o m, sends' = Tail(sends),
         pc' = IF k = 1 THEN "resp_length" ELSE "send",
         UNCHANGED <<handleVars, callVars, executed, slot, in, daemonPos, peer, platform>>
  PROVE  ChannelInv'
<1>1. /\ cmd' = cmd /\ cmdBytes' = cmdBytes /\ executed' = executed /\ conn_info' = conn_info
      /\ comm' = comm /\ failed' = failed /\ in' = in /\ slot' = slot /\ daemonPos' = daemonPos
      /\ peer' = peer /\ platform' = platform
  BY DEF handleVars, callVars
<1>2. /\ m \in Seq(Nat) /\ Tame(m, cmd) /\ Len(m) <= 4 /\ Len(m) \in Nat /\ Len(sends) = k
      /\ FrameLen = from /\ NextLen = from + Len(m)
      /\ \A i \in 1..Len(m) : m[i] = FrameByte(from + i)
      /\ k > 1 => sends' \in SendsLeft /\ Len(sends') = k - 1
      /\ k = 1 => m = cmdBytes
      /\ k > 4 => Old
  BY Zenon DEF MessageIs
<1>3. /\ k = 1 => pc' = "resp_length"
      /\ k # 1 => k > 1 /\ pc' = "send"
  OBVIOUS
<1>4. StreamInv'
  <2>1. sends # << >>
    BY DEF TypeInv, PathInv
  <2>2. pc' \notin {"entry", "send"} \/ (pc' = "send" /\ Len(sends') = Len(sends) - 1)
    BY <1>2, <1>3
  <2> QED BY <1>1, <1>2, <2>1, <2>2, StreamGrows DEF ChannelInv
<1>5. SendsLeft' = SendsLeft /\ (Old' <=> Old) /\ HostHeader' = HostHeader
      /\ \A i : FrameByte(i)' = FrameByte(i)
  BY <1>1 DEF SendsLeft, Old, HostHeader, Head1, Size1, FrameByte
<1>6. FrameLen' = NextLen
  <2>1. CASE k = 1
    BY <1>1, <1>2, <1>3, <1>5, <2>1 DEF FrameLen, NextLen
  <2>2. CASE k > 1
    <3>1. pc' = "send" /\ Len(sends') = k - 1 /\ Len(sends) = k
      BY <1>2, <1>3, <2>2
    <3>2. FrameLen' = IF k - 1 = 1 THEN HostHeader ELSE IF k - 1 = 2 THEN HostHeader - 4
                      ELSE IF ~Old THEN IF k - 1 = 3 THEN 4 ELSE 0
                      ELSE IF k - 1 = 3 THEN 6 ELSE IF k - 1 = 4 THEN 5 ELSE IF k - 1 = 5 THEN 4 ELSE 0
      BY <1>5, <3>1 DEF FrameLen
    <3>3. NextLen = IF k = 2 THEN HostHeader ELSE IF k = 3 THEN HostHeader - 4
                    ELSE IF ~Old THEN 4 ELSE IF k = 4 THEN 6 ELSE IF k = 5 THEN 5 ELSE 4
      BY <2>2, <3>1 DEF NextLen
    <3> QED BY <1>2, <2>2, <3>2, <3>3
  <2> QED BY <2>1, <2>2
<1>7. ASSUME Live PROVE Unserved'
  <2>1. Unserved
    <3>1. ~Served
      <4> SUFFICES ASSUME Served PROVE FALSE
        OBVIOUS
      <4>1. k = 1 /\ cmdBytes = << >>
        BY <1>2 DEF Served
      <4> QED BY <1>2, <4>1
    <3> QED BY <1>7, <3>1 DEF ChannelInv, SocketInv
  <2>2. /\ out \in Seq(Nat) /\ daemonPos \in Nat /\ Len(out) - daemonPos = from
        /\ \A i \in 1..from : out[daemonPos + i] = FrameByte(i)
    BY <1>2, <2>1 DEF Unserved, TypeInv, Shape
  <2> DEFINE f == [i \in Nat |-> FrameByte(i)]
  <2>3. /\ \A i \in 1..from : f[i] = FrameByte(i)
        /\ \A i \in 1..Len(m) : f[from + i] = FrameByte(from + i)
        /\ \A i \in 1..from + Len(m) : f[i] = FrameByte(i)
    <3>1. \A i \in Nat : f[i] = FrameByte(i)
      OBVIOUS
    <3>2. \A a \in Nat : /\ \A i \in 1..from : i \in Nat
                         /\ \A i \in 1..a : from + i \in Nat
                         /\ \A i \in 1..from + a : i \in Nat
      OBVIOUS
    <3> HIDE DEF f
    <3> QED BY <1>2, <3>1, <3>2
  <2> HIDE DEF f
  <2>4. Carries(out, daemonPos, f, from) /\ Continues(m, f, from)
    BY <1>2, <2>2, <2>3, Zenon DEF Carries, Continues
  <2>5. Carries(out \o m, daemonPos, f, from + Len(m))
    <3>1. m \in Seq(Nat) /\ from \in Nat
      BY <1>2
    <3> QED BY <2>2, <2>4, <3>1, Appended, Zenon
  <2>6. Len(out') - daemonPos' = FrameLen' /\ \A i \in 1..FrameLen' : out'[daemonPos' + i] = FrameByte(i)'
    <3>1. FrameLen' = from + Len(m) /\ daemonPos' = daemonPos /\ out' = out \o m
      BY <1>1, <1>2, <1>6
    <3> QED BY <1>5, <2>3, <2>5, <3>1, Zenon DEF Carries
  <2>7. pc' \in {"idle", "entry", "send", "resp_length"} /\ in' = << >> /\ cmd' \notin executed'
        /\ (pc' = "resp_length" => cmdBytes' # << >>)
    BY <1>1, <1>2, <1>3, <2>1 DEF Unserved
  <2> QED BY <2>6, <2>7 DEF Unserved
<1>8. SocketInv'
  <2>1. pc' = "send" => sends' \in SendsLeft'
    BY <1>2, <1>3, <1>5
  <2>2. Live' <=> Live
    BY <1>1 DEF Live
  <2> QED BY <1>7, <2>1, <2>2 DEF SocketInv
<1>9. PacketInv' /\ RunInv'
  <2>1. slot.state = "empty"
    BY DEF ChannelInv, RunInv
  <2> QED BY <1>1, <2>1 DEF ChannelInv, PacketInv, RunInv
<1> QED BY <1>4, <1>8, <1>9 DEF ChannelInv

(* A message goes out whole, or a part of it and the submit fails.         *)
LEMMA SocketSendKeeps ==
  ASSUME TypeInv, TypeInv', ChannelInv, platform = "linux", platform' = platform, SocketSend
  PROVE  ChannelInv'
<1>1. /\ pc = "send" /\ "SOCKET" \in conn_info /\ sends \in SendsLeft /\ sends # << >>
      /\ UNCHANGED <<slot, in, daemonPos, peer>>
  BY DEF SocketSend, TypeInv, PathInv, ChannelInv, SocketInv
<1>2. PICK m, k, from : k \in 1..6 /\ from \in Nat /\ MessageIs(m, k, from)
  BY <1>1, NextMessage, Zenon DEF ChannelInv
<1>3. /\ Head(sends) = m /\ Len(sends) = k
      /\ m \in Seq(Nat) /\ Tame(m, cmd) /\ Len(m) <= 4 /\ Len(m) \in Nat
  BY <1>2, Zenon DEF MessageIs
<1>4. \/ /\ m # << >> /\ out' = out \o m /\ sends' = Tail(sends)
         /\ pc' = IF k = 1 THEN "resp_length" ELSE "send"
         /\ UNCHANGED <<handleVars, callVars, respVars, executed>>
      \/ (\E s \in Prefixes(m) : out' = out \o s) /\ Fails
  BY <1>3, Zenon DEF SocketSend
<1>5. CASE /\ m # << >> /\ out' = out \o m /\ sends' = Tail(sends)
           /\ pc' = IF k = 1 THEN "resp_length" ELSE "send"
           /\ UNCHANGED <<handleVars, callVars, respVars, executed>>
  <2>1. UNCHANGED <<handleVars, callVars, executed, slot, in, daemonPos, peer, platform>>
    BY <1>1, <1>5
  <2> QED BY <1>1, <1>2, <1>5, <2>1, SentOn, Zenon
<1>6. CASE (\E s \in Prefixes(m) : out' = out \o s) /\ Fails
  <2>1. PICK n \in 0..Len(m) : out' = out \o SubSeq(m, 1, n)
    BY <1>6 DEF Prefixes
  <2>2. PICK t \in Seq(Nat) : t = SubSeq(m, 1, n) /\ Tame(t, cmd) /\ Len(t) <= 4
    <3>1. cmd \in Nat
      BY CommandIs DEF ChannelInv
    <3>2. /\ Tame(SubSeq(m, 1, n), cmd) /\ SubSeq(m, 1, n) \in Seq(Nat)
          /\ Len(SubSeq(m, 1, n)) = n
      BY <1>3, <3>1, TamePart
    <3>3. n <= 4
      <4>1. \A a \in Nat : a <= 4 => \A b \in 0..a : b <= 4
        OBVIOUS
      <4> QED BY <1>3, <4>1, Zenon
    <3> QED BY <3>2, <3>3, Zenon
  <2>3. pc' = "idle" /\ conn_info' = conn_info /\ cmd' = cmd
    BY <1>6 DEF Fails, callVars
  <2>4. out' = out \o t /\ pc' \notin {"entry", "send"}
    BY <2>1, <2>2, <2>3
  <2>5. StreamInv'
    BY <1>1, <2>2, <2>3, <2>4, StreamGrows DEF ChannelInv
  <2> QED BY <1>1, <1>6, <2>5, FailsKeeps
<1> QED BY <1>4, <1>5, <1>6
-----------------------------------------------------------------------------
(* A read takes bytes from the front, and leaves the others.               *)
LEMMA TakenIs ==
  ASSUME in \in Seq(Nat), NEW n \in Nat, Taken(n)
  PROVE  /\ in' \in Seq(Nat) /\ Len(in') = Len(in) - n /\ n > 0 /\ Len(in) >= n /\ Len(in) \in Nat
         /\ \A i \in 1..Len(in) - n : in'[i] = in[n + i]
<1>1. PICK l \in Nat : l = Len(in) /\ n > 0 /\ l >= n /\ in' = SubSeq(in, n + 1, l)
  BY LenProperties DEF Taken
<1>2. n + 1 \in Nat \ {0}
  BY <1>1
<1>3. in' \in Seq(Nat)
  BY <1>1, <1>2, PartTyped
<1>4. \A i \in n + 1..l : in[i] \in Nat
  BY <1>1, LenProperties
<1>5. /\ Len(in') = IF n + 1 <= l THEN l - (n + 1) + 1 ELSE 0
      /\ \A i \in 1..l - (n + 1) + 1 : in'[i] = in[n + 1 + i - 1]
  BY <1>1, <1>2, <1>4, SubSeqProperties
<1>6. /\ (IF n + 1 <= l THEN l - (n + 1) + 1 ELSE 0) = l - n
      /\ l - (n + 1) + 1 = l - n /\ \A i \in 1..l - n : n + 1 + i - 1 = n + i
  BY <1>1
<1>7. ASSUME NEW i \in 1..l - n PROVE in'[i] = in[n + i]
  BY <1>5, <1>6
<1> QED BY <1>1, <1>3, <1>5, <1>6, <1>7, Zenon

(* A response all of whose bytes are the command's number is its own.      *)
LEMMA OwnerIs ==
  ASSUME NEW r, NEW c \in Command, 1 \in DOMAIN r, \A i \in DOMAIN r : r[i] = c
  PROVE  Owner(r) = c
BY DEF Owner

(* The three reads: the length, the response, and what completes it.       *)
LEMMA ReadKeeps ==
  ASSUME TypeInv, TypeInv', ChannelInv, platform = "linux", platform' = platform,
         ReadLength \/ ReadResponse \/ ReadAck
  PROVE  ChannelInv'
<1>1. /\ pc \in {"resp_length", "response", "ack"} /\ "SOCKET" \in conn_info
      /\ UNCHANGED <<slot, out, daemonPos, peer>> /\ in \in Seq(Nat) /\ resp_len \in Nat
      /\ slot.state = "empty" /\ WordLen = 4 /\ cmd \in Nat /\ cmd \in Command
  BY CommandIs, LinuxAssumption, SMTT(30) DEF ReadLength, ReadResponse, ReadAck, TypeInv, PathInv, ChannelInv,
     RunInv, Shape, TypeOK, WordLen
<1>2. CASE Fails
  <2>1. pc' = "idle" /\ conn_info' = conn_info /\ cmd' = cmd
    BY <1>2 DEF Fails, callVars
  <2>2. StreamInv'
    BY <1>1, <2>1, StreamEnds DEF ChannelInv
  <2> QED BY <1>1, <1>2, <2>2, FailsKeeps
<1>3. ASSUME cmd' = cmd, cmdBytes' = cmdBytes, executed' = executed, conn_info' = conn_info,
             comm' = comm, failed' = failed, pc' \in {"response", "ack", "idle"},
             Live => Unserved' \/ Served'
      PROVE  ChannelInv'
  <2>1. StreamInv'
    BY <1>1, <1>3, StreamEnds DEF ChannelInv
  <2>2. SocketInv' /\ PacketInv' /\ RunInv'
    BY <1>1, <1>3 DEF ChannelInv, SocketInv, PacketInv, RunInv, Live
  <2> QED BY <2>1, <2>2 DEF ChannelInv
<1>4. ASSUME Live, in # << >> PROVE Served
  BY <1>1, <1>4 DEF ChannelInv, SocketInv, Unserved
<1>5. \A n \in Nat : Taken(n) => in # << >>
  <2>1. Len(<< >>) = 0 /\ \A n \in Nat : n > 0 => ~(0 >= n)
    OBVIOUS
  <2> QED BY <2>1, Zenon DEF Taken
<1>6. ASSUME ReadLength, Taken(WordLen), resp_len' = Value(in), pc' = "response",
             UNCHANGED <<handleVars, callVars, sends, filled, got, retval, reply, executed>>
      PROVE  ChannelInv'
  <2>1. /\ cmd' = cmd /\ cmdBytes' = cmdBytes /\ executed' = executed /\ conn_info' = conn_info
        /\ comm' = comm /\ failed' = failed /\ pc = "resp_length"
    BY <1>6 DEF handleVars, callVars, ReadLength
  <2>2. ASSUME Live PROVE Served'
    <3>1. /\ Len(out) = daemonPos /\ cmdBytes # << >> /\ cmd \in executed
          /\ Len(in) >= 8 /\ Value(in) = Len(in) - 8 /\ \A i \in 5..Len(in) - 4 : in[i] = cmd
      BY <1>1, <1>4, <1>5, <1>6, <2>1, <2>2 DEF Served
    <3>2. /\ Len(in') = Len(in) - 4 /\ Len(in) \in Nat
          /\ \A i \in 1..Len(in) - 4 : in'[i] = in[4 + i]
      BY <1>1, <1>6, TakenIs
    <3>3. PICK l \in Nat : l = Len(in) /\ l >= 8 /\ resp_len' = l - 8
      BY <1>6, <3>1, <3>2
    <3>4. l - 4 = (l - 8) + 4
      BY <3>3
    <3>5. ASSUME NEW i \in 1..l - 8 PROVE in'[i] = cmd
      <4>1. i \in 1..l - 4 /\ 4 + i \in 5..l - 4
        BY <3>3
      <4> QED BY <3>1, <3>2, <3>3, <4>1
    <3>6. Len(in') = resp_len' + 4 /\ \A i \in 1..resp_len' : in'[i] = cmd
      BY <3>2, <3>3, <3>4, <3>5
    <3> QED BY <1>1, <1>6, <2>1, <3>1, <3>6 DEF Served
  <2> QED BY <1>3, <1>6, <2>1, <2>2
<1>7. ASSUME ReadResponse, Taken(resp_len), got' = Owner(SubSeq(in, 1, resp_len)), pc' = "ack",
             UNCHANGED <<handleVars, callVars, sends, resp_len, retval, reply, executed>>
      PROVE  ChannelInv'
  <2>1. /\ cmd' = cmd /\ cmdBytes' = cmdBytes /\ executed' = executed /\ conn_info' = conn_info
        /\ comm' = comm /\ failed' = failed /\ pc = "response"
    BY <1>7 DEF handleVars, callVars, ReadResponse
  <2>2. ASSUME Live PROVE Served'
    <3>1. /\ Len(out) = daemonPos /\ cmdBytes # << >> /\ cmd \in executed
          /\ Len(in) = resp_len + 4 /\ \A i \in 1..resp_len : in[i] = cmd
      BY <1>1, <1>4, <1>5, <1>7, <2>1, <2>2 DEF Served
    <3>2. Len(in') = Len(in) - resp_len /\ resp_len > 0
      BY <1>1, <1>7, TakenIs
    <3>3. Len(in') = 4
      BY <1>1, <3>1, <3>2
    <3>4. got' = cmd
      <4> DEFINE r == SubSeq(in, 1, resp_len)
      <4>1. 1 \in Nat /\ \A i \in 1..resp_len : in[i] \in Nat
        BY <1>1, <3>1
      <4>2. /\ Len(r) = IF 1 <= resp_len THEN resp_len - 1 + 1 ELSE 0
            /\ \A i \in 1..resp_len - 1 + 1 : r[i] = in[1 + i - 1]
            /\ r \in Seq(Nat)
        BY <1>1, <4>1, SubSeqProperties
      <4> HIDE DEF r
      <4>3. DOMAIN r = 1..resp_len /\ 1 \in DOMAIN r
        BY <1>1, <3>2, <4>2, LenProperties
      <4>4. \A i \in DOMAIN r : r[i] = cmd
        BY <1>1, <3>1, <4>2, <4>3
      <4>5. Owner(r) = cmd
        BY <1>1, <4>3, <4>4, OwnerIs
      <4> QED BY <1>7, <4>5 DEF r
    <3> QED BY <1>1, <1>7, <2>1, <3>1, <3>3, <3>4 DEF Served
  <2> QED BY <1>3, <1>7, <2>1, <2>2
<1>8. ASSUME ReadAck, Taken(WordLen), Succeeds(got, filled, resp_len) PROVE ChannelInv'
  <2>1. /\ cmd' = cmd /\ cmdBytes' = cmdBytes /\ executed' = executed /\ conn_info' = conn_info
        /\ comm' = comm /\ failed' = failed /\ pc = "ack" /\ pc' = "idle"
    BY <1>8 DEF Succeeds, handleVars, callVars, ReadAck
  <2>2. ASSUME Live PROVE Unserved'
    <3>1. Len(out) = daemonPos /\ Len(in) = 4
      BY <1>1, <1>4, <1>5, <1>8, <2>1, <2>2 DEF Served
    <3>2. Len(in') = Len(in) - 4 /\ in' \in Seq(Nat)
      BY <1>1, <1>8, TakenIs
    <3>3. in' = << >>
      BY <3>1, <3>2, EmptySeq
    <3>4. Len(out) - daemonPos = 0
      BY <3>1 DEF TypeInv, Shape
    <3> QED BY <1>1, <2>1, <3>3, <3>4 DEF Unserved, FrameLen
  <2> QED BY <1>3, <2>1, <2>2
<1> QED BY <1>2, <1>6, <1>7, <1>8, Zenon DEF ReadLength, ReadResponse, ReadAck
-----------------------------------------------------------------------------
(***************************************************************************)
(* The resource manager at work.                                           *)
(***************************************************************************)
(* A part of a byte string, byte by byte.                                  *)
LEMMA PartIs ==
  ASSUME NEW s \in Seq(Nat), NEW d \in Nat, NEW n \in Nat, d + n <= Len(s)
  PROVE  /\ SubSeq(s, d + 1, d + n) \in Seq(Nat) /\ Len(SubSeq(s, d + 1, d + n)) = n
         /\ \A i \in 1..n : SubSeq(s, d + 1, d + n)[i] = s[d + i]
<1>1. PICK l \in Nat : l = Len(s) /\ d + n <= l
  BY LenProperties
<1>2. d + 1 \in Nat \ {0} /\ d + n \in Nat
  OBVIOUS
<1>3. SubSeq(s, d + 1, d + n) \in Seq(Nat)
  BY <1>1, <1>2, PartTyped
<1>4. \A i \in d + 1..d + n : s[i] \in Nat
  BY <1>1, LenProperties
<1>5. /\ Len(SubSeq(s, d + 1, d + n)) = IF d + 1 <= d + n THEN d + n - (d + 1) + 1 ELSE 0
      /\ \A i \in 1..d + n - (d + 1) + 1 : SubSeq(s, d + 1, d + n)[i] = s[d + 1 + i - 1]
  <2>1. d + 1 \in Int /\ d + n \in Int
    BY <1>2
  <2> QED BY <1>4, <2>1, SubSeqProperties, SMTT(30)
<1>6. /\ (IF d + 1 <= d + n THEN d + n - (d + 1) + 1 ELSE 0) = n
      /\ d + n - (d + 1) + 1 = n /\ \A i \in 1..n : d + 1 + i - 1 = d + i
  OBVIOUS
<1>7. ASSUME NEW i \in 1..n PROVE SubSeq(s, d + 1, d + n)[i] = s[d + i]
  BY <1>5, <1>6
<1> QED BY <1>3, <1>5, <1>6, <1>7, Zenon

(* The value of a word that is a part of one.                              *)
LEMMA WordAt ==
  ASSUME NEW s \in Seq(Nat), NEW i \in Nat, i + 4 <= Len(s)
  PROVE  /\ Value(SubSeq(s, i + 1, i + 4))
              = 16777216 * s[i + 1] + 65536 * s[i + 2] + 256 * s[i + 3] + s[i + 4]
         /\ s[i + 1] \in Nat /\ s[i + 2] \in Nat /\ s[i + 3] \in Nat /\ s[i + 4] \in Nat
<1>1. PICK w : /\ w = SubSeq(s, i + 1, i + 4)
               /\ w[1] = s[i + 1] /\ w[2] = s[i + 2] /\ w[3] = s[i + 3] /\ w[4] = s[i + 4]
  <2>1. \A k \in 1..4 : SubSeq(s, i + 1, i + 4)[k] = s[i + k]
    BY PartIs, SMTT(30)
  <2>2. 1 \in 1..4 /\ 2 \in 1..4 /\ 3 \in 1..4 /\ 4 \in 1..4
    OBVIOUS
  <2> QED BY <2>1, <2>2
<1>2. PICK l \in Nat : l = Len(s) /\ i + 4 <= l
  BY LenProperties
<1>3. i + 1 \in 1..l /\ i + 2 \in 1..l /\ i + 3 \in 1..l /\ i + 4 \in 1..l
  BY <1>2
<1>4. s[i + 1] \in Nat /\ s[i + 2] \in Nat /\ s[i + 3] \in Nat /\ s[i + 4] \in Nat
  BY <1>2, <1>3, LenProperties
<1>5. Value(w) = 16777216 * w[1] + 65536 * w[2] + 256 * w[3] + w[4]
  BY SMT DEF Value
<1> QED BY <1>1, <1>4, <1>5

(* The request the resource manager sees: where it starts, how long its    *)
(* header is, and how long the command behind it.                          *)
SizeIs(q, n) == n = 16777216 * out[q - 3] + 65536 * out[q - 2] + 256 * out[q - 1] + out[q]
RequestIs(d, h, n) ==
  /\ d = daemonPos /\ h = HeaderLen /\ n = CommandLen /\ d + h + n <= Len(out)
  /\ out[d + h - 3] \in Nat /\ out[d + h - 2] \in Nat /\ out[d + h - 1] \in Nat /\ out[d + h] \in Nat
  /\ SizeIs(d + h, n)
  /\ n # 0 => Pending[h + 1] = out[d + h + 1] /\ out[d + h + 1] \in Nat

(* A complete request is d bytes down the stream: h bytes of header, whose *)
(* last word is the size, and n of command.                                *)
LEMMA PendingIs ==
  ASSUME out \in Seq(Nat), daemonPos \in Nat, CommandReady
  PROVE  \E d, h, n \in Nat : h \in {9, 11} /\ (h = 11 <=> machine.daemon = "old") /\ RequestIs(d, h, n)
<1>1. PICK d \in Nat, l \in Nat : d = daemonPos /\ l = Len(out)
  BY LenProperties
<1>2. HeaderLen \in {9, 11} /\ (HeaderLen = 11 <=> machine.daemon = "old")
  BY DEF HeaderLen, WordLen
<1>3. PICK h \in Nat, n \in Nat : h = HeaderLen /\ n = CommandLen /\ h + n <= Len(Pending)
  BY PendingTyped
<1>4. PICK p \in Nat : d + p = l /\ Len(Pending) = p /\ h + n <= p /\ \A i \in 1..p : Pending[i] = out[d + i]
  <2>1. d < l
    <3> SUFFICES ASSUME ~(d < l) PROVE FALSE
      OBVIOUS
    <3>1. d + 1 \in Nat \ {0} /\ l \in Nat /\ ~(d + 1 <= l)
      BY <1>1
    <3>2. \A i \in d + 1..l : out[i] \in Nat
      BY <3>1
    <3>3. Len(Pending) = 0
      BY <1>1, <3>1, <3>2, SubSeqProperties DEF Pending
    <3> QED BY <1>2, <1>3, <3>3
  <2>2. PICK p \in Nat : d + p = l
    <3>1. l - d \in Nat /\ d + (l - d) = l
      BY <2>1
    <3> QED BY <3>1
  <2>3. Len(Pending) = p /\ \A i \in 1..p : Pending[i] = out[d + i]
    <3>1. d + p <= Len(out) /\ Pending = SubSeq(out, d + 1, d + p)
      BY <1>1, <2>2 DEF Pending
    <3> QED BY <3>1, PartIs
  <2> QED BY <1>3, <2>2, <2>3
<1>5. Pending \in Seq(Nat)
  BY PendingTyped
<1>6. PICK i \in Nat : i + 4 = h /\ i = h - 4
  BY <1>2, <1>3
<1>7. CommandLen = Value(SubSeq(Pending, i + 1, i + 4))
  <2>1. HeaderLen - WordLen + 1 = i + 1 /\ (i + 1) + WordLen - 1 = i + 4
    BY <1>3, <1>6 DEF WordLen
  <2> QED BY <2>1, Zenon DEF CommandLen, PendingWord
<1>8. /\ n = 16777216 * Pending[i + 1] + 65536 * Pending[i + 2] + 256 * Pending[i + 3] + Pending[i + 4]
      /\ Pending[i + 1] \in Nat /\ Pending[i + 2] \in Nat /\ Pending[i + 3] \in Nat /\ Pending[i + 4] \in Nat
  <2>1. i + 4 <= Len(Pending)
    BY <1>4, <1>6
  <2> QED BY <1>3, <1>5, <1>7, <2>1, WordAt
<1>9. /\ Pending[i + 1] = out[d + h - 3] /\ Pending[i + 2] = out[d + h - 2]
      /\ Pending[i + 3] = out[d + h - 1] /\ Pending[i + 4] = out[d + h]
  <2>1. i + 1 \in 1..p /\ i + 2 \in 1..p /\ i + 3 \in 1..p /\ i + 4 \in 1..p
    BY <1>4, <1>6
  <2>2. /\ d + (i + 1) = d + h - 3 /\ d + (i + 2) = d + h - 2
        /\ d + (i + 3) = d + h - 1 /\ d + (i + 4) = d + h
    BY <1>6
  <2>3. /\ Pending[i + 1] = out[d + (i + 1)] /\ Pending[i + 2] = out[d + (i + 2)]
        /\ Pending[i + 3] = out[d + (i + 3)] /\ Pending[i + 4] = out[d + (i + 4)]
    BY <1>4, <2>1
  <2> QED BY <2>2, <2>3
<1>10. d + h + n <= Len(out)
  BY <1>1, <1>4
<1>11. ASSUME n # 0 PROVE Pending[h + 1] = out[d + h + 1] /\ out[d + h + 1] \in Nat
  <2>1. h + 1 \in 1..p /\ d + (h + 1) = d + h + 1 /\ d + h + 1 \in 1..l
    BY <1>4, <1>11
  <2>2. Pending[h + 1] = out[d + (h + 1)]
    BY <1>4, <2>1
  <2> QED BY <1>1, <2>1, <2>2, LenProperties
<1>12. RequestIs(d, h, n)
  BY <1>1, <1>3, <1>8, <1>9, <1>10, <1>11, SMT DEF RequestIs, SizeIs
<1> QED BY <1>2, <1>3, <1>12

(* The command it runs has been submitted, whatever it takes for one: the  *)
(* number of a later one could only follow the length of a request of      *)
(* millions of bytes.                                                      *)
LEMMA RunsSubmitted ==
  ASSUME TypeInv, ChannelInv, CommandReady, CommandLen # 0
  PROVE  Pending[HeaderLen + 1] \in Nat /\ Pending[HeaderLen + 1] <= cmd
<1>1. out \in Seq(Nat) /\ daemonPos \in Nat /\ cmd \in 0..255
  BY CommandIs DEF TypeInv, Shape, ChannelInv
<1>2. PICK d \in Nat, h \in Nat, n \in Nat : h \in {9, 11} /\ RequestIs(d, h, n)
  BY <1>1, PendingIs, Zenon
<1>3. /\ n = CommandLen /\ n # 0 /\ d + h + n <= Len(out) /\ Pending[HeaderLen + 1] = out[d + h + 1]
      /\ out[d + h + 1] \in Nat
      /\ out[d + h - 3] \in Nat
  BY <1>2, Zenon DEF RequestIs
<1>4. n = 16777216 * out[d + h - 3] + 65536 * out[d + h - 2] + 256 * out[d + h - 1] + out[d + h]
  BY <1>2, SMT DEF RequestIs, SizeIs
<1>5. Len(out) <= 6124
  <2>1. PICK c \in 0..255, k \in Nat : c = cmd /\ k = Len(sends)
    BY <1>1, LenProperties DEF TypeInv, Shape
  <2>2. LimitAt(c, pc, k, conn_info) \in Int /\ LimitAt(c, pc, k, conn_info) <= 24 * c + 4
    BY LimitIs
  <2>3. Len(out) <= LimitAt(c, pc, k, conn_info) /\ Len(out) \in Nat
    BY <1>1, <2>1, LenProperties DEF ChannelInv, StreamInv, Limit
  <2> QED BY <2>2, <2>3
<1>6. ASSUME out[d + h + 1] > cmd PROVE FALSE
  <2>1. PICK q \in Nat : q = d + h + 1 /\ q \in 1..Len(out)
    <3>1. PICK l \in Nat : l = Len(out)
      BY <1>1, LenProperties
    <3>2. d + h + 1 \in 1..l
      BY <1>2, <1>3, <3>1
    <3> QED BY <3>1, <3>2
  <2>2. out[q - 1] = 0 /\ out[q - 2] = 0 /\ out[q - 3] = 0
    BY <1>6, <2>1 DEF ChannelInv, StreamInv, Tame
  <2>3. q - 1 = d + h /\ q - 2 = d + h - 1 /\ q - 3 = d + h - 2
    BY <2>1
  <2>4. PICK x \in Nat : n = 16777216 * x
    <3>1. out[d + h] = 0 /\ out[d + h - 1] = 0 /\ out[d + h - 2] = 0
      BY <2>2, <2>3
    <3>2. n = 16777216 * out[d + h - 3]
      BY <1>3, <1>4, <3>1, SMT
    <3> QED BY <1>3, <3>2
  <2>5. n >= 16777216
    BY <1>3, <2>4
  <2> QED BY <1>2, <1>3, <1>5, <2>5
<1> QED BY <1>1, <1>3, <1>6

(* How much of a request has been sent when the resource manager can take  *)
(* it for one.                                                             *)
LEMMA FrameIsLong ==
  ASSUME TypeInv, RunInv, FrameLen >= 9, Unserved
  PROVE  \/ pc = "send" /\ Len(sends) = 1 /\ FrameLen = HostHeader
         \/ pc = "resp_length" /\ Len(cmdBytes) = 2 /\ FrameLen = HostHeader + 2
<1>1. HostHeader \in {9, 11}
  BY DEF HostHeader
<1>2. ~(0 >= 9) /\ ~(4 >= 9) /\ ~(5 >= 9) /\ ~(6 >= 9) /\ \A k \in {9, 11} : ~(k - 4 >= 9)
  OBVIOUS
<1>3. pc \notin {"idle", "entry"}
  BY <1>2 DEF FrameLen
<1>4. CASE pc = "send"
  <2>1. Len(sends) = 1
    <3> SUFFICES ASSUME Len(sends) # 1 PROVE FALSE
      OBVIOUS
    <3>1. FrameLen \in {HostHeader - 4, 4, 0, 6, 5}
      BY <1>4 DEF FrameLen
    <3> QED BY <1>1, <1>2, <3>1
  <2>2. FrameLen = HostHeader
    BY <1>4, <2>1 DEF FrameLen
  <2> QED BY <1>4, <2>1, <2>2
<1>5. CASE pc = "resp_length"
  <2>1. cmdBytes # << >>
    BY <1>5 DEF Unserved
  <2>2. Len(cmdBytes) = 2
    BY <2>1, CommandIs
  <2>3. FrameLen = HostHeader + Len(cmdBytes)
    BY <1>5 DEF FrameLen
  <2> QED BY <1>5, <2>2, <2>3
<1> QED BY <1>3, <1>4, <1>5 DEF Unserved

(* On a handle that works, what the resource manager takes for a request   *)
(* is the one in progress, and all of it: it finds its command there, or   *)
(* no command has any bytes.                                               *)
LEMMA RequestIsOwn ==
  ASSUME TypeInv, ChannelInv, CommandReady, Live, "SOCKET" \in conn_info
  PROVE  /\ Unserved /\ daemonPos + HeaderLen + CommandLen = Len(out)
         /\ \/ pc = "send" /\ Len(sends) = 1 /\ cmdBytes = << >> /\ CommandLen = 0
            \/ pc = "resp_length" /\ CommandLen # 0 /\ Pending[HeaderLen + 1] = cmd
<1>1. /\ out \in Seq(Nat) /\ daemonPos \in Nat /\ RunInv /\ cmd \in Nat
      /\ (cmdBytes = << >> /\ Len(cmdBytes) = 0) \/ Len(cmdBytes) = 2
  BY CommandIs DEF TypeInv, Shape, ChannelInv
<1>2. PICK d \in Nat, h \in Nat, n \in Nat : h \in {9, 11} /\ RequestIs(d, h, n)
  BY <1>1, PendingIs, Zenon
<1>3. /\ d = daemonPos /\ h = HeaderLen /\ n = CommandLen /\ d + h + n <= Len(out)
      /\ n # 0 => Pending[h + 1] = out[d + h + 1]
  BY <1>2, Zenon DEF RequestIs
<1>4. PICK l \in Nat : l = Len(out)
  BY <1>1, LenProperties
<1>5. Unserved
  <2>1. l # d
    BY <1>2, <1>3, <1>4
  <2> QED BY <1>3, <1>4, <2>1 DEF ChannelInv, SocketInv, Served
<1>6. PICK f \in Nat : f = FrameLen /\ l = d + f /\ h + n <= f /\ f >= 9
                       /\ \A i \in 1..f : out[d + i] = FrameByte(i)
  <2>1. l - d = FrameLen /\ \A i \in 1..FrameLen : out[d + i] = FrameByte(i)
    BY <1>3, <1>4, <1>5 DEF Unserved
  <2>2. PICK f : f = FrameLen /\ l - d = f
    BY <2>1
  <2>3. f \in Nat /\ l = d + f /\ h + n <= f /\ f >= 9
    BY <1>2, <1>3, <1>4, <2>2
  <2> QED BY <2>1, <2>2, <2>3, Zenon
<1>7. \/ pc = "send" /\ Len(sends) = 1 /\ f = HostHeader
      \/ pc = "resp_length" /\ Len(cmdBytes) = 2 /\ f = HostHeader + 2
  BY <1>1, <1>5, <1>6, FrameIsLong
<1>8. n = 16777216 * FrameByte(h - 3) + 65536 * FrameByte(h - 2) + 256 * FrameByte(h - 1) + FrameByte(h)
  <2>1. n = 16777216 * out[d + h - 3] + 65536 * out[d + h - 2] + 256 * out[d + h - 1] + out[d + h]
    BY <1>2, SMT DEF RequestIs, SizeIs
  <2>2. h - 3 \in 1..f /\ h - 2 \in 1..f /\ h - 1 \in 1..f /\ h \in 1..f
    BY <1>2, <1>6
  <2>3. d + h - 3 = d + (h - 3) /\ d + h - 2 = d + (h - 2) /\ d + h - 1 = d + (h - 1)
    BY <1>2
  <2>4. /\ out[d + (h - 3)] = FrameByte(h - 3) /\ out[d + (h - 2)] = FrameByte(h - 2)
        /\ out[d + (h - 1)] = FrameByte(h - 1) /\ out[d + h] = FrameByte(h)
    BY <1>6, <2>2
  <2> QED BY <2>1, <2>3, <2>4, SMT
<1>9. /\ FrameByte(6) = 0 /\ FrameByte(8) = 0
      /\ Old => /\ HostHeader = 11 /\ FrameByte(7) = 1 /\ FrameByte(9) = 0 /\ FrameByte(10) = 0
                /\ FrameByte(11) = Len(cmdBytes)
      /\ ~Old => /\ HostHeader = 9 /\ FrameByte(7) = 0 /\ FrameByte(9) = Len(cmdBytes)
      /\ \A i \in Nat : i > HostHeader => FrameByte(i) = cmd
  BY <1>1, FrameBytes
<1>10. h = HostHeader /\ n = Len(cmdBytes)
  <2>1. CASE Old /\ h = 11
    <3>1. h - 3 = 8 /\ h - 2 = 9 /\ h - 1 = 10
      BY <2>1
    <3>2. n = 16777216 * 0 + 65536 * 0 + 256 * 0 + Len(cmdBytes)
      BY <1>8, <1>9, <2>1, <3>1, SMT
    <3> QED BY <1>1, <1>9, <2>1, <3>2
  <2>2. CASE ~Old /\ h = 9
    <3>1. h - 3 = 6 /\ h - 2 = 7 /\ h - 1 = 8
      BY <2>2
    <3>2. n = 16777216 * 0 + 65536 * 0 + 256 * 0 + Len(cmdBytes)
      BY <1>8, <1>9, <2>2, <3>1, SMT
    <3> QED BY <1>1, <1>9, <2>2, <3>2
  <2>3. CASE Old /\ h = 9
    <3>1. h - 3 = 6 /\ h - 2 = 7 /\ h - 1 = 8
      BY <2>3
    <3>2. n = 16777216 * 0 + 65536 * 1 + 256 * 0 + 0
      BY <1>8, <1>9, <2>3, <3>1, SMT
    <3>3. f <= 13
      BY <1>7, <1>9, <2>3
    <3>4. h + n <= f
      BY <1>6, Zenon
    <3>5. n = 65536
      BY <3>2, SMT
    <3>6. n <= 13
      BY <3>3, <3>4, SMT
    <3> QED BY <3>5, <3>6, SMTT(30)
  <2>4. CASE ~Old /\ h = 11
    <3>1. h - 3 = 8 /\ h - 2 = 9 /\ h - 1 = 10
      BY <2>4
    <3>2. FrameByte(10) = cmd /\ FrameByte(11) = cmd
      BY <1>9, <2>4
    <3>3. f = 11 /\ Len(cmdBytes) = 2
      BY <1>6, <1>7, <1>9, <2>4
    <3>4. n = 16777216 * 0 + 65536 * 2 + 256 * cmd + cmd
      BY <1>8, <1>9, <2>4, <3>1, <3>2, <3>3, SMT
    <3>5. h + n <= f /\ cmd \in Nat
      BY <1>1, <1>6, Zenon
    <3> QED BY <3>3, <3>4, <3>5, SMT
  <2> QED BY <1>2, <2>1, <2>2, <2>3, <2>4
<1>11. CASE pc = "send" /\ Len(sends) = 1 /\ f = HostHeader
  <2>1. n = 0
    BY <1>1, <1>6, <1>10, <1>11
  <2>2. cmdBytes = << >> /\ d + h + n = l
    BY <1>1, <1>6, <1>10, <1>11, <2>1
  <2> QED BY <1>3, <1>4, <1>5, <1>11, <2>1, <2>2
<1>12. CASE pc = "resp_length" /\ Len(cmdBytes) = 2 /\ f = HostHeader + 2
  <2>1. n = 2 /\ d + h + n = l /\ h + 1 \in 1..f /\ h + 1 > HostHeader /\ d + h + 1 = d + (h + 1)
    BY <1>6, <1>10, <1>12
  <2>2. Pending[h + 1] = FrameByte(h + 1) /\ FrameByte(h + 1) = cmd
    BY <1>3, <1>6, <1>9, <2>1
  <2> QED BY <1>3, <1>4, <1>5, <1>12, <2>1, <2>2
<1> QED BY <1>7, <1>11, <1>12

(* Four bytes make the value of a word.                                    *)
LEMMA SameValue ==
  ASSUME NEW s, NEW t, \A i \in 1..4 : s[i] = t[i]
  PROVE  Value(s) = Value(t)
<1>1. s[1] = t[1] /\ s[2] = t[2] /\ s[3] = t[3] /\ s[4] = t[4]
  OBVIOUS
<1> QED BY <1>1, SMT DEF Value

(* What it answers: the length of the response, the response, and a word   *)
(* behind it.                                                              *)
Answer(n, c, ack) == << >> \o Word(n) \o [i \in 1..n |-> c] \o Word(ack)
IsAnswer(r, n, c) == Len(r) = n + 8 /\ Value(r) = n /\ \A i \in 5..n + 4 : r[i] = c

(* Its length is announced, and its bytes are those of one command.        *)
LEMMA ResponseIs ==
  ASSUME NEW n \in RespSize, NEW c \in Nat, NEW ack \in {0, 1}
  PROVE  IsAnswer(Answer(n, c, ack), n, c)
<1> DEFINE r == Answer(n, c, ack)
<1>1. n \in Nat /\ Value(Word(n)) = n
  BY LinuxAssumption
<1>2. /\ Word(n) \in Seq(Nat) /\ Len(Word(n)) = 4 /\ Word(ack) \in Seq(Nat) /\ Len(Word(ack)) = 4
  <2>1. Len(Word(n)) = 4 /\ Len(Word(ack)) = 4
    BY SMT DEF Word
  <2> QED BY <1>1, <2>1, WordTyped
<1>3. PICK h \in Seq(Nat), b \in Seq(Nat), t \in Seq(Nat) :
        /\ h = Word(n) /\ b = [i \in 1..n |-> c] /\ t = Word(ack)
        /\ Len(h) = 4 /\ Len(b) = n /\ Len(t) = 4 /\ \A i \in 1..n : b[i] = c
  <2>1. [i \in 1..n |-> c] \in Seq(Nat) /\ Len([i \in 1..n |-> c]) = n
    BY <1>1
  <2>2. \A i \in 1..n : [j \in 1..n |-> c][i] = c
    OBVIOUS
  <2> QED BY <1>2, <2>1, <2>2
<1>4. << >> \o h = h
  BY ConcatEmptySeq
<1>5. r = h \o b \o t
  BY <1>3, <1>4 DEF Answer
<1> HIDE DEF r
<1>6. PICK u \in Seq(Nat) : /\ u = h \o b /\ Len(u) = 4 + n
                            /\ \A i \in 1..4 : u[i] = h[i]
                            /\ \A i \in 5..4 + n : u[i] = b[i - 4]
  <2>1. PICK u \in Seq(Nat) : u = h \o b
    BY JoinTyped
  <2>2. /\ Len(u) = Len(h) + Len(b)
        /\ \A i \in 1..Len(h) : u[i] = h[i]
        /\ \A i \in Len(h) + 1..Len(h) + Len(b) : u[i] = b[i - Len(h)]
    BY <2>1, ConcatProperties
  <2>3. Len(h) = 4 /\ Len(b) = n
    BY <1>3, Zenon
  <2>4. Len(u) = 4 + n /\ \A i \in 1..4 : u[i] = h[i]
    BY <2>2, <2>3
  <2>5. ASSUME NEW i \in 5..4 + n PROVE u[i] = b[i - 4]
    <3>1. i \in 4 + 1..4 + n
      OBVIOUS
    <3> QED BY <2>2, <2>3, <3>1, Zenon
  <2> QED BY <2>1, <2>4, <2>5, Zenon
<1>7. Len(r) = 4 + n + 4 /\ \A i \in 1..4 + n : r[i] = u[i]
  <2>1. /\ Len(u \o t) = Len(u) + Len(t)
        /\ \A i \in 1..Len(u) : (u \o t)[i] = u[i]
    BY ConcatProperties
  <2> QED BY <1>3, <1>5, <1>6, <2>1
<1>8. Value(r) = n
  <2>1. \A i \in 1..4 : i \in 1..4 + n
    BY <1>1
  <2>2. \A i \in 1..4 : r[i] = h[i]
    BY <1>6, <1>7, <2>1, Zenon
  <2>3. Value(r) = Value(h)
    BY <2>2, SameValue
  <2> QED BY <1>1, <1>3, <2>3
<1>9. ASSUME NEW i \in 5..n + 4 PROVE r[i] = c
  <2>1. i \in 1..4 + n /\ i \in 5..4 + n /\ i - 4 \in 1..n
    BY <1>1
  <2> QED BY <1>3, <1>6, <1>7, <2>1
<1>10. Len(r) = n + 8
  BY <1>1, <1>7
<1> QED BY <1>8, <1>9, <1>10 DEF r, IsAnswer

(* It takes a request and answers, or it goes away.                        *)
LEMMA DaemonKeeps ==
  ASSUME TypeInv, TypeInv', ChannelInv, platform = "linux", platform' = platform,
         DaemonHangsUp \/ \E n \in RespSize : DaemonRuns(n)
  PROVE  ChannelInv'
<1>1. UNCHANGED <<handleVars, callVars, pc, sends, respVars, slot, out>>
  BY Zenon DEF DaemonHangsUp, DaemonRuns
<1>2. /\ cmd' = cmd /\ cmdBytes' = cmdBytes /\ pc' = pc /\ sends' = sends /\ out' = out
      /\ conn_info' = conn_info /\ comm' = comm /\ failed' = failed /\ slot' = slot /\ machine' = machine
      /\ got' = got /\ resp_len' = resp_len /\ cmd \in Nat
  BY <1>1, CommandIs DEF handleVars, callVars, respVars, ChannelInv
<1>3. StreamInv'
  <2>1. Limit' = Limit
    BY <1>2 DEF Limit
  <2> QED BY <1>2, <2>1 DEF ChannelInv, StreamInv
<1>4. FrameLen' = FrameLen /\ SendsLeft' = SendsLeft /\ \A i : FrameByte(i)' = FrameByte(i)
  BY <1>2 DEF FrameLen, FrameByte, SendsLeft, Old, HostHeader, Head1, Size1
<1>5. CASE DaemonHangsUp
  <2>1. in' = in /\ daemonPos' = daemonPos /\ executed' = executed /\ peer' = "down"
    BY <1>5 DEF DaemonHangsUp
  <2>2. (Unserved <=> Unserved') /\ (Served <=> Served') /\ (Live <=> Live')
    BY <1>2, <1>4, <2>1 DEF Unserved, Served, Live
  <2>3. SocketInv'
    BY <1>2, <1>4, <2>2 DEF ChannelInv, SocketInv
  <2>4. PacketInv' /\ RunInv'
    BY <1>2, <2>1, <2>2 DEF ChannelInv, PacketInv, RunInv
  <2> QED BY <1>3, <2>3, <2>4 DEF ChannelInv
<1>6. ASSUME NEW n \in RespSize, DaemonRuns(n) PROVE ChannelInv'
  <2> DEFINE c == IF CommandLen = 0 THEN 0 ELSE Pending[HeaderLen + 1]
             copy == [i \in 1..n |-> c]
  <2>1. /\ peer = "up" /\ peer' = peer /\ CommandReady
        /\ daemonPos' = daemonPos + HeaderLen + CommandLen
        /\ executed' = executed \cup ({c} \cap Command)
    BY <1>6, Zenon DEF DaemonRuns
  <2>2. comm = "open" => \E ack \in {0, 1} : in' = in \o Word(n) \o copy \o Word(ack)
    BY <1>6 DEF DaemonRuns
  <2>3. c \in Nat /\ c <= cmd
    <3>1. CASE CommandLen = 0
      BY <1>2, <3>1
    <3>2. CASE CommandLen # 0
      BY <2>1, <3>2, RunsSubmitted
    <3> QED BY <3>1, <3>2
  <2>4. /\ CommandLen # 0 => c = Pending[HeaderLen + 1]
    OBVIOUS
  <2> HIDE DEF c
  <2>5. executed' \subseteq 1..cmd /\ executed \subseteq executed'
    <3>1. executed \subseteq 1..cmd
      BY DEF ChannelInv, RunInv
    <3>2. {c} \cap Command \subseteq 1..cmd
      BY <1>2, <2>3 DEF Command
    <3> QED BY <2>1, <3>1, <3>2, Zenon
  <2>6. comm = "open" => "SOCKET" \in conn_info
    BY <2>1 DEF ChannelInv, RunInv
  <2>7. RunInv' /\ PacketInv'
    BY <1>2, <2>1, <2>5, <2>6 DEF ChannelInv, PacketInv, RunInv, Live
  <2>8. ASSUME Live PROVE Served'
    <3>1. /\ Unserved /\ daemonPos + HeaderLen + CommandLen = Len(out)
          /\ \/ pc = "send" /\ Len(sends) = 1 /\ cmdBytes = << >> /\ CommandLen = 0
             \/ pc = "resp_length" /\ CommandLen # 0 /\ Pending[HeaderLen + 1] = cmd
      BY <2>1, <2>6, <2>8, RequestIsOwn DEF Live
    <3>2. Len(out') = daemonPos'
      BY <1>2, <2>1, <3>1
    <3>3. CASE pc = "send" /\ Len(sends) = 1 /\ cmdBytes = << >>
      BY <1>2, <3>2, <3>3 DEF Served
    <3>4. CASE pc = "resp_length" /\ CommandLen # 0 /\ Pending[HeaderLen + 1] = cmd
      <4>1. c = cmd /\ cmdBytes # << >> /\ in = << >>
        BY <2>4, <3>1, <3>4 DEF Unserved
      <4>2. cmd \in Command
        BY <3>4 DEF TypeInv, PathInv
      <4>3. cmd \in executed'
        BY <2>1, <4>1, <4>2
      <4>4. PICK ack \in {0, 1} : in' = << >> \o Word(n) \o [i \in 1..n |-> cmd] \o Word(ack)
        BY <2>2, <2>8, <4>1 DEF Live
      <4>5. Len(in') = n + 8 /\ Value(in') = n /\ \A i \in 5..n + 4 : in'[i] = cmd
        <5>1. in' = Answer(n, cmd, ack)
          BY <4>4, Zenon DEF Answer
        <5>2. IsAnswer(Answer(n, cmd, ack), n, cmd)
          BY <1>2, ResponseIs
        <5> QED BY <5>1, <5>2, Zenon DEF IsAnswer
      <4>6. n + 8 >= 8 /\ n = (n + 8) - 8 /\ (n + 8) - 4 = n + 4
        BY LinuxAssumption
      <4>7. Len(in') >= 8 /\ Value(in') = Len(in') - 8 /\ \A i \in 5..Len(in') - 4 : in'[i] = cmd
        BY <4>5, <4>6, Zenon
      <4> QED BY <1>2, <3>2, <3>4, <4>1, <4>3, <4>7 DEF Served
    <3> QED BY <3>1, <3>3, <3>4
  <2>9. SocketInv'
    <3>1. Live' <=> Live
      BY <1>2 DEF Live
    <3> QED BY <1>2, <1>4, <2>8, <3>1 DEF ChannelInv, SocketInv
  <2> QED BY <1>3, <2>7, <2>9 DEF ChannelInv
<1> QED BY <1>5, <1>6
-----------------------------------------------------------------------------
(* A step of the program on Linux, by what it does to the call.            *)
LEMMA LinuxSteps ==
  ASSUME TypeInv, platform = "linux", TransportNext
  PROVE  /\ platform' = platform
         /\ \/ CreateCall \/ Create \/ Destroy
            \/ \E c \in Command, n \in RespCapacity : \E b \in {<<c, c>>, << >>} : SubmitCall(c, b, n)
            \/ SubmitStarts \/ SocketSend
            \/ SubmitRefused \/ DeviceWrite \/ TctiTransmit \/ DeviceRead \/ TctiReceive
            \/ ReadLength \/ ReadResponse \/ ReadAck
            \/ TpmRuns \/ DeviceDiscards
            \/ DaemonHangsUp \/ \E n \in RespSize : DaemonRuns(n)
<1>1. platform' = platform /\ (Caller \/ Create \/ Submit \/ Outside)
  <2>1. platform # "windows"
    OBVIOUS
  <2> QED BY <2>1, Steps
<1> QED BY <1>1, Zenon DEF Caller, Submit, Outside

(* Which bytes are under way and which command they are of: it holds at    *)
(* first, and every step keeps it.                                         *)
LEMMA ChannelInvHolds == Spec => []ChannelInv
<1>1. TransportInit => ChannelInv
  <2> SUFFICES ASSUME TransportInit PROVE ChannelInv
    OBVIOUS
  <2>1. /\ comm = "null" /\ conn_info = {} /\ pc = "idle" /\ sends = << >> /\ cmd = 0
        /\ cmdBytes = << >> /\ slot = Empty /\ out = << >> /\ executed = {} /\ peer = "down"
    BY Zenon DEF TransportInit, Init
  <2>2. Len(out) = 0 /\ Limit = 24 * 0 - 0 + 4
    BY <2>1 DEF Limit, LimitAt
  <2>3. StreamInv
    BY <2>1, <2>2 DEF StreamInv, Tame
  <2>4. Empty.state = "empty"
    BY DEF Empty
  <2>5. SocketInv /\ PacketInv /\ RunInv
    BY <2>1, <2>4 DEF SocketInv, PacketInv, RunInv, Live
  <2> QED BY <2>3, <2>5 DEF ChannelInv
<1>2. TypeInv /\ TypeInv' /\ ChannelInv /\ [TransportNext]_transportVars => ChannelInv'
  <2> SUFFICES ASSUME TypeInv, TypeInv', ChannelInv, [TransportNext]_transportVars PROVE ChannelInv'
    OBVIOUS
  <2>1. CASE platform = "windows" /\ TransportNext
    <3>1. platform # "linux"
      BY <2>1
    <3>2. WindowsNext
      BY <2>1, <3>1 DEF TransportNext, LinuxNext
    <3> QED BY <3>2, WindowsKeeps
  <2>2. CASE platform = "linux" /\ TransportNext
    BY <2>2, LinuxSteps, CreateKeeps, DestroyKeeps, SubmitCallKeeps, SubmitStartsKeeps, PacketKeeps,
       SlotKeeps, SocketSendKeeps, ReadKeeps, DaemonKeeps, Zenon
  <2>3. CASE UNCHANGED transportVars
    <3>1. UNCHANGED <<machine, comm, conn_info, failed, pc, sends, cmd, cmdBytes, resp_len, got, slot,
                      out, in, daemonPos, peer, executed, platform>>
      BY <2>3, Zenon DEF transportVars, vars, handleVars, callVars, respVars, netVars
    <3>2. /\ FrameLen' = FrameLen /\ SendsLeft' = SendsLeft /\ (\A i : FrameByte(i)' = FrameByte(i))
          /\ Limit' = Limit
      BY <3>1 DEF FrameLen, FrameByte, SendsLeft, Old, HostHeader, Head1, Size1, Limit
    <3>3. StreamInv' /\ PacketInv' /\ RunInv'
      BY <3>1, <3>2 DEF ChannelInv, StreamInv, PacketInv, RunInv, Live
    <3>4. (Unserved' <=> Unserved) /\ (Served' <=> Served)
      BY <3>1, <3>2 DEF Unserved, Served
    <3>5. SocketInv'
      BY <3>1, <3>2, <3>4 DEF ChannelInv, SocketInv, Live
    <3> QED BY <3>3, <3>5 DEF ChannelInv
  <2> QED BY <2>1, <2>2, <2>3 DEF TypeInv, Shape
<1> QED BY <1>1, <1>2, TypeInvHolds, PTL DEF Spec
-----------------------------------------------------------------------------
(***************************************************************************)
(* The refinement.                                                         *)
(***************************************************************************)
(* What the channel's user sees of the handle and of the call in progress. *)
StateIs ==
  /\ comm = "null" => channelState = "closed"
  /\ comm = "open" /\ failed => channelState = "failed"
  /\ comm = "open" /\ ~failed /\ pc # "idle" => channelState = "busy"
  /\ comm = "open" /\ ~failed /\ pc = "idle" => channelState = "ready"

(* In this state and in the next.                                          *)
LEMMA StateHolds == StateIs /\ StateIs'
BY DEF StateIs, channelState

(* A step within a call, or within the TPM without effect, is none that    *)
(* the channel's user sees.                                                *)
LEMMA Unseen ==
  ASSUME UNCHANGED <<comm, failed, cmd, executed, reply>>, pc' = "idle" <=> pc = "idle"
  PROVE  UNCHANGED Channel!vars
BY DEF Channel!vars, channelState

(* After a failure whatever the caller and the TPM do is allowed.          *)
LEMMA AfterFailure ==
  ASSUME comm = "open", failed, comm' = "open", failed', executed \subseteq executed'
  PROVE  Channel!Unspecified
BY StateHolds DEF StateIs, Channel!Unspecified

(* tpm_comm_create opens the channel, whatever it connects to ...          *)
LEMMA HandleOpens ==
  ASSUME comm = "null", pc = "idle", comm' = "open", failed' = FALSE, pc' = pc,
         UNCHANGED <<cmd, executed, reply>>
  PROVE  Channel!Open
BY StateHolds DEF StateIs, Channel!Open

(* ... and tpm_comm_destroy closes it, whatever happened on it.            *)
LEMMA HandleCloses ==
  ASSUME comm = "open", pc = "idle", failed \in BOOLEAN, comm' = "null", UNCHANGED <<cmd, executed, reply>>
  PROVE  Channel!Close
BY StateHolds DEF StateIs, Channel!Close

(* A submit starts with a command that has not run.                        *)
LEMMA CallStarts ==
  ASSUME TypeInv, RunInv, comm = "open", pc = "idle", pc' # "idle",
         cmd' = cmd + 1, cmd' \in Command, UNCHANGED <<comm, failed, executed, reply>>
  PROVE  Channel!Submit \/ Channel!Unspecified
<1>1. CASE failed
  BY <1>1, AfterFailure
<1>2. CASE ~failed
  <2>1. channelState = "ready" /\ channelState' = "busy"
    BY <1>2, StateHolds DEF StateIs
  <2>2. cmd' \notin executed
    <3>1. cmd \in Nat /\ executed \subseteq 1..cmd
      BY CommandIs DEF RunInv
    <3> QED BY <3>1
  <2> QED BY <2>1, <2>2 DEF Channel!Submit
<1> QED BY <1>1, <1>2

(* A submit that returns 0 returns the reply to its own command, which has *)
(* run.                                                                    *)
LEMMA CallSucceeds ==
  ASSUME comm = "open", pc # "idle", pc' = "idle", UNCHANGED <<comm, failed, cmd, executed>>,
         failed \/ (reply' = cmd /\ cmd \in executed)
  PROVE  Channel!ReturnReply \/ Channel!Unspecified
<1>1. CASE failed
  BY <1>1, AfterFailure
<1>2. CASE ~failed
  <2>1. channelState = "busy" /\ channelState' = "ready"
    BY <1>2, StateHolds DEF StateIs
  <2> QED BY <1>2, <2>1 DEF Channel!ReturnReply
<1> QED BY <1>1, <1>2

(* One that fails says nothing of its command.                             *)
LEMMA CallFails ==
  ASSUME comm = "open", pc # "idle", failed' = TRUE, UNCHANGED <<comm, cmd, executed, reply>>
  PROVE  Channel!ReturnFailure \/ Channel!Unspecified
<1>1. CASE failed
  BY <1>1, AfterFailure
<1>2. CASE ~failed
  <2>1. channelState = "busy" /\ channelState' = "failed"
    BY <1>2, StateHolds DEF StateIs
  <2> QED BY <2>1 DEF Channel!ReturnFailure
<1> QED BY <1>1, <1>2

(* The TPM runs a command: the one in progress, which has not run; or,     *)
(* after a failure or once the handle is gone, what was left on the way.   *)
LEMMA CommandRuns ==
  ASSUME comm \in {"null", "open"}, failed \in BOOLEAN,
         UNCHANGED <<comm, failed, pc, cmd, reply>>, executed \subseteq executed',
         Live => /\ pc # "idle" /\ cmd \notin executed
                 /\ executed' = executed \cup {cmd}
  PROVE  Channel!Next
<1>1. channelState' = channelState
  BY DEF channelState
<1>2. CASE comm = "null"
  BY <1>1, <1>2, StateHolds DEF StateIs, Channel!LateExecute, Channel!Next
<1>3. CASE comm = "open" /\ failed
  BY <1>3, AfterFailure DEF Channel!Next
<1>4. CASE comm = "open" /\ ~failed
  <2>1. channelState = "busy"
    BY <1>4, StateHolds DEF StateIs, Live
  <2> QED BY <1>1, <1>4, <2>1 DEF Live, Channel!Execute, Channel!Next
<1> QED BY <1>2, <1>3, <1>4

(* A step of tpm_comm_submit_command: it goes on, it fails, or it returns  *)
(* 0 with the reply in the slot or the one read from the socket.           *)
LEMMA SubmitDoes ==
  ASSUME TypeInv, platform = "linux", Submit
  PROVE  /\ pc # "idle"
         /\ \/ pc' # "idle" /\ UNCHANGED <<comm, failed, cmd, executed, reply>>
            \/ pc' = "idle" /\ Fails
            \/ pc \in {"read", "receive"} /\ slot.state = "replied"
                 /\ pc' = "idle" /\ reply' = slot.cmd /\ UNCHANGED <<comm, failed, cmd, executed>>
            \/ pc = "ack" /\ pc' = "idle" /\ reply' = got /\ UNCHANGED <<comm, failed, cmd, executed>>
<1>1. pc # "idle"
  BY DEF Submit, SubmitRefused, SubmitStarts, DeviceWrite, DeviceRead, TctiTransmit, TctiReceive,
         SocketSend, ReadLength, ReadResponse, ReadAck
<1>2. CASE pc' = "idle" /\ retval' = OK
  <2>1. \/ DeviceRead /\ slot.state = "replied" /\ \E n \in Nat : Succeeds(slot.cmd, n, n)
        \/ TctiReceive /\ slot.state = "replied" /\ Succeeds(slot.cmd, slot.len, slot.len)
        \/ ReadAck /\ Succeeds(got, filled, resp_len)
    BY <1>1, <1>2, SubmitEnds
  <2>2. CASE DeviceRead /\ slot.state = "replied" /\ \E n \in Nat : Succeeds(slot.cmd, n, n)
    BY <1>1, <2>2, Zenon DEF DeviceRead, Succeeds, handleVars, callVars
  <2>3. CASE TctiReceive /\ slot.state = "replied" /\ Succeeds(slot.cmd, slot.len, slot.len)
    BY <1>1, <2>3, Zenon DEF TctiReceive, Succeeds, handleVars, callVars
  <2>4. CASE ReadAck /\ Succeeds(got, filled, resp_len)
    BY <1>1, <2>4, Zenon DEF ReadAck, Succeeds, handleVars, callVars
  <2> QED BY <2>1, <2>2, <2>3, <2>4
<1>3. CASE Fails
  BY <1>1, <1>3 DEF Fails
<1>4. CASE ~Fails /\ ~(pc' = "idle" /\ retval' = OK)
  <2>1. ~SubmitRefused
    BY <1>4, Zenon DEF SubmitRefused
  <2>2. ASSUME NEW c, NEW n, NEW m PROVE ~Succeeds(c, n, m)
    BY <1>4, Zenon DEF Succeeds
  <2>3. ~DeviceRead /\ ~TctiReceive /\ ~ReadAck
    BY <1>4, <2>2, Zenon DEF DeviceRead, TctiReceive, ReadAck
  <2>4. CASE SubmitStarts
    <3>1. "SYS_DEV" \in conn_info \/ "TCTI" \in conn_info \/ "SOCKET" \in conn_info
      BY <2>4 DEF SubmitStarts, TypeInv, PathInv, TypeOK, Connection
    <3>2. pc' \in {"write", "transmit", "send"}
      BY <2>4, <3>1, Zenon DEF SubmitStarts
    <3>3. UNCHANGED <<comm, failed, cmd, executed, reply>>
      BY <2>4, Zenon DEF SubmitStarts, handleVars, callVars, respVars
    <3> QED BY <1>1, <3>2, <3>3
  <2>5. CASE DeviceWrite \/ TctiTransmit
    <3>1. PacketSent("read") \/ PacketSent("receive")
      BY <1>4, <2>5, Zenon DEF DeviceWrite, TctiTransmit, PacketFails
    <3>2. pc' \in {"read", "receive"} /\ UNCHANGED <<handleVars, callVars, respVars, executed>>
      BY <3>1 DEF PacketSent
    <3> QED BY <1>1, <3>2 DEF handleVars, callVars, respVars
  <2>6. CASE SocketSend
    <3>1. pc' \in {"resp_length", "send"} /\ UNCHANGED <<handleVars, callVars, respVars, executed>>
      BY <1>4, <2>6 DEF SocketSend
    <3> QED BY <1>1, <3>1 DEF handleVars, callVars, respVars
  <2>7. CASE ReadLength \/ ReadResponse
    <3>1. pc' \in {"response", "ack"} /\ UNCHANGED <<handleVars, callVars, reply, executed>>
      BY <1>4, <2>7 DEF ReadLength, ReadResponse
    <3> QED BY <1>1, <3>1 DEF handleVars, callVars
  <2> QED BY <2>1, <2>3, <2>4, <2>5, <2>6, <2>7 DEF Submit
<1> QED BY <1>1, <1>2, <1>3, <1>4

(* It is the end of a command of the channel, or nothing its user sees.    *)
LEMMA SubmitImplements ==
  ASSUME TypeInv, SlotInv, ChannelInv, platform = "linux", Submit
  PROVE  Channel!Next \/ UNCHANGED Channel!vars
<1>1. pc # "idle" /\ comm = "open" /\ failed \in BOOLEAN
  BY SubmitDoes DEF TypeInv, TypeOK, PathInv
<1>2. CASE pc' # "idle" /\ UNCHANGED <<comm, failed, cmd, executed, reply>>
  BY <1>1, <1>2, Unseen
<1>3. CASE pc' = "idle" /\ Fails
  <2>1. failed' = TRUE /\ UNCHANGED <<comm, cmd, executed, reply>>
    BY <1>3, Zenon DEF Fails, callVars
  <2> QED BY <1>1, <2>1, CallFails, Zenon DEF Channel!Next
<1>4. CASE /\ pc \in {"read", "receive"} /\ slot.state = "replied"
           /\ pc' = "idle" /\ reply' = slot.cmd /\ UNCHANGED <<comm, failed, cmd, executed>>
  <2>1. slot.cmd = cmd /\ slot.cmd \in executed
    BY <1>4 DEF SlotInv, ChannelInv, PacketInv
  <2> QED BY <1>1, <1>4, <2>1, CallSucceeds, Zenon DEF Channel!Next
<1>5. CASE pc = "ack" /\ pc' = "idle" /\ reply' = got /\ UNCHANGED <<comm, failed, cmd, executed>>
  <2>1. ASSUME ~failed PROVE got = cmd /\ cmd \in executed
    BY <1>1, <1>5, <2>1 DEF TypeInv, PathInv, ChannelInv, SocketInv, Live, Unserved, Served
  <2> QED BY <1>1, <1>5, <2>1, CallSucceeds, Zenon DEF Channel!Next
<1> QED BY <1>2, <1>3, <1>4, <1>5, SubmitDoes

(* The TPM behind the device or abrmd runs the command in the slot.        *)
LEMMA TpmImplements ==
  ASSUME TypeInv, SlotInv, ChannelInv, platform = "linux", TpmRuns
  PROVE  Channel!Next
<1>1. /\ slot.state \in {"sent", "orphan"} /\ executed' = executed \cup {slot.cmd}
      /\ UNCHANGED <<comm, failed, pc, cmd, reply>>
  BY Zenon DEF TpmRuns, handleVars, callVars, respVars
<1>2. ASSUME Live PROVE pc # "idle" /\ slot.cmd = cmd /\ cmd \notin executed
  <2>1. "SOCKET" \notin conn_info
    BY <1>1 DEF ChannelInv, RunInv
  <2>2. pc \in {"read", "receive"} /\ slot.cmd \notin executed
    BY <1>1, <1>2, <2>1 DEF ChannelInv, PacketInv
  <2> QED BY <1>1, <2>2 DEF SlotInv
<1>3. comm \in {"null", "open"} /\ failed \in BOOLEAN
  BY DEF TypeInv, TypeOK
<1> QED BY <1>1, <1>2, <1>3, CommandRuns

(* So does the one behind the resource manager, if it finds a command in   *)
(* the bytes it takes for a request.                                       *)
LEMMA DaemonImplements ==
  ASSUME TypeInv, ChannelInv, platform = "linux", NEW n \in RespSize, DaemonRuns(n)
  PROVE  Channel!Next \/ UNCHANGED Channel!vars
<1> DEFINE c == IF CommandLen = 0 THEN 0 ELSE Pending[HeaderLen + 1]
<1>1. /\ peer = "up" /\ CommandReady /\ executed' = executed \cup ({c} \cap Command)
      /\ UNCHANGED <<comm, failed, pc, cmd, reply>>
  BY Zenon DEF DaemonRuns, handleVars, callVars, respVars
<1>2. comm \in {"null", "open"} /\ failed \in BOOLEAN
  BY DEF TypeInv, TypeOK
<1>3. CASE Live
  <2>1. "SOCKET" \in conn_info
    BY <1>1, <1>3 DEF Live, ChannelInv, RunInv
  <2>2. /\ Unserved
        /\ \/ pc = "send" /\ CommandLen = 0
           \/ pc = "resp_length" /\ CommandLen # 0 /\ Pending[HeaderLen + 1] = cmd
    BY <1>1, <1>3, <2>1, RequestIsOwn
  <2>3. CASE CommandLen = 0
    <3>1. c = 0 /\ 0 \notin Command
      BY <2>3 DEF Command
    <3>2. executed' = executed
      BY <1>1, <3>1
    <3> QED BY <1>1, <3>2, Unseen
  <2>4. CASE pc = "resp_length" /\ CommandLen # 0 /\ Pending[HeaderLen + 1] = cmd
    <3>1. c = cmd /\ cmd \in Command /\ cmd \notin executed
      BY <2>2, <2>4 DEF TypeInv, PathInv, Unserved
    <3>2. executed' = executed \cup {cmd}
      BY <1>1, <3>1
    <3> QED BY <1>1, <1>2, <2>4, <3>1, <3>2, CommandRuns
  <2> QED BY <2>2, <2>3, <2>4
<1>4. CASE ~Live
  <2>1. executed \subseteq executed'
    BY <1>1
  <2> QED BY <1>1, <1>2, <1>4, <2>1, CommandRuns
<1> QED BY <1>3, <1>4

(* tpm_comm_linux.c, step by step ...                                      *)
LEMMA LinuxImplements ==
  ASSUME TypeInv, SlotInv, ChannelInv, platform = "linux", TransportNext
  PROVE  Channel!Next \/ UNCHANGED Channel!vars
<1>1. CASE Create
  <2>1. /\ comm = "null" /\ pc = "idle" /\ UNCHANGED <<cmd, executed, reply, pc>>
        /\ \/ UNCHANGED <<comm, failed>>
           \/ comm' = "open" /\ failed' = FALSE
    BY <1>1, CreateDoes DEF callVars, respVars, TypeInv, PathInv
  <2>2. CASE UNCHANGED <<comm, failed>>
    BY <2>1, <2>2, Unseen
  <2>3. CASE comm' = "open" /\ failed' = FALSE
    BY <2>1, <2>3, HandleOpens DEF Channel!Next
  <2> QED BY <2>1, <2>2, <2>3
<1>2. CASE CreateCall
  <2>1. UNCHANGED <<comm, failed, cmd, executed, reply, pc>>
    BY <1>2, Zenon DEF CreateCall, callVars, respVars
  <2> QED BY <2>1, Unseen
<1>3. CASE Destroy
  <2>1. comm = "open" /\ pc = "idle" /\ comm' = "null" /\ UNCHANGED <<cmd, executed, reply>>
    BY <1>3, Zenon DEF Destroy, callVars, respVars
  <2>2. failed \in BOOLEAN
    BY DEF TypeInv, TypeOK
  <2> QED BY <2>1, <2>2, HandleCloses DEF Channel!Next
<1>4. ASSUME NEW c \in Command, NEW n \in RespCapacity, NEW b \in {<<c, c>>, << >>}, SubmitCall(c, b, n)
      PROVE  Channel!Next
  <2>1. /\ comm = "open" /\ pc = "idle" /\ pc' # "idle" /\ cmd' = cmd + 1 /\ cmd' \in Command
        /\ UNCHANGED <<comm, failed, executed, reply>>
    BY <1>4 DEF SubmitCall, handleVars
  <2> QED BY <2>1, CallStarts DEF ChannelInv, Channel!Next
<1>5. CASE Submit
  BY <1>5, SubmitImplements
<1>6. CASE TpmRuns
  BY <1>6, TpmImplements
<1>7. CASE DeviceDiscards \/ DaemonHangsUp
  <2>1. UNCHANGED <<comm, failed, cmd, executed, reply, pc>>
    BY <1>7, Zenon DEF DeviceDiscards, DaemonHangsUp, handleVars, callVars, respVars
  <2> QED BY <2>1, Unseen
<1>8. ASSUME NEW n \in RespSize, DaemonRuns(n) PROVE Channel!Next \/ UNCHANGED Channel!vars
  BY <1>8, DaemonImplements
<1> QED BY <1>1, <1>2, <1>3, <1>4, <1>5, <1>6, <1>7, <1>8, LinuxSteps, Zenon DEF Submit

(* ... and tpm_comm_win32.c.                                               *)
LEMMA WindowsImplements ==
  ASSUME TypeInv, ChannelInv, platform = "windows", TransportNext
  PROVE  Channel!Next \/ UNCHANGED Channel!vars
<1>1. Win!Next /\ pc \in {"idle", "submit"} /\ failed \in BOOLEAN
  BY Steps DEF TypeInv, TypeOK, PathInv
<1>2. pc = "submit" => comm = "open"
  BY DEF TypeInv, PathInv
<1>3. cmd \in Nat /\ MaxCommand \in Nat
  BY LinuxAssumption DEF TypeInv, TypeOK
<1>4. CASE Win!GetDeviceInfo
  <2>1. comm = "null" /\ pc = "idle"
    BY <1>1, <1>2, <1>4 DEF Win!GetDeviceInfo, TypeInv, PathInv
  <2>2. UNCHANGED <<cmd, executed, reply, pc>>
    BY <1>4, Zenon DEF Win!GetDeviceInfo, Win!callVars
  <2>3. UNCHANGED <<comm, failed>> \/ (comm' = "open" /\ failed' = FALSE)
    BY <1>4, Zenon DEF Win!GetDeviceInfo
  <2>4. CASE UNCHANGED <<comm, failed>>
    BY <2>2, <2>4, Unseen
  <2>5. CASE comm' = "open" /\ failed' = FALSE
    BY <2>1, <2>2, <2>5, HandleOpens DEF Channel!Next
  <2> QED BY <2>3, <2>4, <2>5
<1>5. CASE Win!CreateCall \/ Win!ContextCreate \/ Win!CreateFails
  <2>1. UNCHANGED <<comm, failed, cmd, executed, reply, pc>>
    BY <1>5, Zenon DEF Win!CreateCall, Win!ContextCreate, Win!CreateFails, Win!callVars
  <2> QED BY <2>1, Unseen
<1>6. CASE Win!Destroy
  BY <1>1, <1>6, HandleCloses DEF Win!Destroy, Win!callVars, Channel!Next
<1>7. ASSUME NEW n \in RespCapacity, Win!SubmitCall(n) PROVE Channel!Next
  <2>1. /\ comm = "open" /\ pc = "idle" /\ pc' # "idle" /\ cmd' = cmd + 1 /\ cmd' \in Command
        /\ UNCHANGED <<comm, failed, executed, reply>>
    BY <1>3, <1>7 DEF Win!SubmitCall, Command
  <2> QED BY <2>1, CallStarts DEF ChannelInv, Channel!Next
<1>8. CASE Win!TbsRuns
  <2>1. /\ pc # "idle" /\ cmd \notin executed /\ executed' = executed \cup {cmd}
        /\ UNCHANGED <<comm, failed, pc, cmd, reply>>
    BY <1>8 DEF Win!TbsRuns
  <2> QED BY <1>1, <1>2, <1>8, <2>1, CommandRuns DEF Win!TbsRuns
<1>9. CASE Win!SubmitReturns
  <2>1. comm = "open" /\ pc # "idle" /\ pc' = "idle" /\ UNCHANGED <<comm, cmd, executed>>
    BY <1>2, <1>9 DEF Win!SubmitReturns
  <2>2. \/ cmd \in executed /\ reply' = cmd /\ UNCHANGED failed
        \/ failed' = TRUE /\ UNCHANGED reply
    BY <1>9 DEF Win!SubmitReturns
  <2>3. CASE cmd \in executed /\ reply' = cmd /\ UNCHANGED failed
    BY <2>1, <2>3, CallSucceeds DEF Channel!Next
  <2>4. CASE failed' = TRUE /\ UNCHANGED reply
    BY <2>1, <2>4, CallFails DEF Channel!Next
  <2> QED BY <2>2, <2>3, <2>4
<1> QED BY <1>1, <1>4, <1>5, <1>6, <1>7, <1>8, <1>9 DEF Win!Next, Win!Create

(* tpm_comm_create, tpm_comm_submit_command and tpm_comm_destroy of        *)
(* tpm_comm_linux.c and tpm_comm_win32.c are a command channel: on a       *)
(* handle none of whose submits has failed, a submit that returns 0        *)
(* returns the reply to its own command, which ran exactly once.           *)
THEOREM TransportIsChannel == Spec => ChannelSpec
<1>1. TransportInit => Channel!Init
  <2> SUFFICES ASSUME TransportInit PROVE Channel!Init
    OBVIOUS
  <2>1. comm = "null" /\ cmd = 0 /\ executed = {} /\ reply = 0
    BY DEF TransportInit, Init
  <2> QED BY <2>1, StateHolds DEF StateIs, Channel!Init, Channel!NoCommand
<1>2. TypeInv /\ SlotInv /\ ChannelInv /\ [TransportNext]_transportVars
        => [Channel!Next]_(Channel!vars)
  <2> SUFFICES ASSUME TypeInv, SlotInv, ChannelInv, [TransportNext]_transportVars
               PROVE  Channel!Next \/ UNCHANGED Channel!vars
    OBVIOUS
  <2>1. CASE TransportNext /\ platform = "linux"
    BY <2>1, LinuxImplements
  <2>2. CASE TransportNext /\ platform = "windows"
    BY <2>2, WindowsImplements
  <2>3. CASE UNCHANGED transportVars
    <3>1. UNCHANGED <<comm, failed, cmd, executed, reply, pc>>
      BY <2>3, Zenon DEF transportVars, vars, handleVars, callVars, respVars
    <3> QED BY <3>1, Unseen
  <2> QED BY <2>1, <2>2, <2>3 DEF TypeInv, Shape
<1> QED BY <1>1, <1>2, TypeInvHolds, SlotInvHolds, ChannelInvHolds, PTL DEF Spec, ChannelSpec, Channel!Spec
=============================================================================
