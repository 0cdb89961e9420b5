---------------------------- MODULE SimCommProofs ----------------------------
(***************************************************************************)
(* Proofs about SimComm: tpm_comm_emulator.c over its socket and against   *)
(* the simulator, for every number of commands, every size of a response,  *)
(* of the caller's buffer and of a recv(), and every set of faults.        *)
(***************************************************************************)
EXTENDS SimComm, SequenceTheorems, TLAPS

Bytes == 0..255

(* What the host has asked to be sent on this connection, and what has     *)
(* been written to it and not been handed out.                             *)
Sent == out \o left
In == recv_bytes \o wire

(* The types that TypeOK leaves open.                                      *)
Typed ==
  /\ TypeOK
  /\ cmdBytes \in Seq(Bytes) /\ response \in Seq(Bytes) /\ executed \in Seq(Nat)

ReadSteps == {"server_version", "tpm_info", "setup_ack", "resp_length", "response", "ack"}
SendSteps == {"handshake", "version", "send_command", "locality", "length", "bytes",
              "session_end"}

PowerSteps == {"power_on", "power_ack", "nv_on", "nv_ack"}

(* The length the read of step pc asks for.                                *)
ReadSize == IF pc = "response" THEN resp_len ELSE WordLen

(* Which socket call is in progress at which step; a read that worked left *)
(* its bytes behind.                                                       *)
ControlInv ==
  /\ op = "send" => pc \in SendSteps /\ handle = "open"
  /\ op = "read" => pc \in ReadSteps /\ bytes_len = ReadSize /\ ReadSize > 0 /\ handle = "open"
  /\ op # "send" => left = << >>
  /\ pc \in ReadSteps /\ op = "idle" /\ result = OK => Len(delivered) >= ReadSize /\ ReadSize > 0
  /\ pc \in {"connect"} \cup PowerSteps => op = "idle" /\ result = OK
  /\ pc = "idle" => op = "idle"
  /\ cmdBytes \in {<< >>, <<cmd, cmd>>}
  /\ pc \in SubmitSteps7 => cmd \in Command

(* Who holds the sockets: a setup, the open handle, or nobody.             *)
HandleInv ==
  /\ platform_conn # "null" <=> pc \in PowerSteps
  /\ pc \in SetupSteps10 => comm = "null" /\ ~failed
  /\ pc \in SubmitSteps7 \cup {"session_end"} => comm = "open"
  /\ pc # "idle" => handle # "null"
  /\ handle = "open" => pc # "idle" \/ comm = "open"
  /\ comm = "open" => handle # "null"
  /\ handle = "aborted" => \/ pc = "idle" /\ comm = "null"
                           \/ pc # "idle" /\ op = "idle" /\ result = MU_FAILURE

-----------------------------------------------------------------------------
(***************************************************************************)
(* Byte strings.                                                           *)
(***************************************************************************)
(* A part of a byte string, byte by byte.                                  *)
LEMMA PartIs ==
  ASSUME NEW T, NEW s \in Seq(T), NEW m \in Nat \ {0}, NEW n \in Nat, n <= Len(s)
  PROVE  /\ SubSeq(s, m, n) \in Seq(T)
         /\ Len(SubSeq(s, m, n)) = IF m <= n THEN n - m + 1 ELSE 0
         /\ \A i \in 1..n - m + 1 : SubSeq(s, m, n)[i] = s[m + i - 1]
<1>1. \A i \in m..n : s[i] \in T
  BY LenProperties
<1> QED BY <1>1, SubSeqProperties

(* Two strings one after the other, byte by byte.                          *)
LEMMA JoinIs ==
  ASSUME NEW T, NEW s \in Seq(T), NEW t \in Seq(T)
  PROVE  /\ s \o t \in Seq(T) /\ Len(s \o t) = Len(s) + Len(t)
         /\ Len(s) \in Nat /\ Len(t) \in Nat
         /\ \A i \in 1..Len(s) : (s \o t)[i] = s[i]
         /\ \A i \in Len(s) + 1..Len(s) + Len(t) : (s \o t)[i] = t[i - Len(s)]
<1>1. Len(s) \in Nat /\ Len(t) \in Nat
  BY LenProperties
<1> QED BY <1>1, ConcatProperties

(* Cutting a string in two gives two that make it up again.                *)
LEMMA TakeDrop ==
  ASSUME NEW T, NEW s \in Seq(T), NEW n \in 0..Len(s)
  PROVE  /\ Sock!Take(s, n) \in Seq(T) /\ Sock!Drop(s, n) \in Seq(T)
         /\ Len(Sock!Take(s, n)) = n /\ Len(Sock!Drop(s, n)) = Len(s) - n
         /\ \A i \in 1..n : Sock!Take(s, n)[i] = s[i]
         /\ \A i \in 1..Len(s) - n : Sock!Drop(s, n)[i] = s[n + i]
         /\ Sock!Take(s, n) \o Sock!Drop(s, n) = s
<1>1. n \in Nat /\ Len(s) \in Nat
  BY LenProperties
<1>2. /\ Sock!Take(s, n) \in Seq(T) /\ Len(Sock!Take(s, n)) = n
      /\ \A i \in 1..n : Sock!Take(s, n)[i] = s[i]
  BY <1>1, PartIs DEF Sock!Take
<1>3. /\ Sock!Drop(s, n) \in Seq(T) /\ Len(Sock!Drop(s, n)) = Len(s) - n
      /\ \A i \in 1..Len(s) - n : Sock!Drop(s, n)[i] = s[n + i]
  <2>1. n + 1 \in Nat \ {0} /\ Len(s) - (n + 1) + 1 = Len(s) - n
    BY <1>1
  <2>2. /\ SubSeq(s, n + 1, Len(s)) \in Seq(T)
        /\ Len(SubSeq(s, n + 1, Len(s))) = IF n + 1 <= Len(s) THEN Len(s) - (n + 1) + 1 ELSE 0
        /\ \A i \in 1..Len(s) - (n + 1) + 1 : SubSeq(s, n + 1, Len(s))[i] = s[n + 1 + i - 1]
    BY <1>1, <2>1, PartIs
  <2> QED BY <1>1, <2>2 DEF Sock!Drop
<1>4. Sock!Take(s, n) \o Sock!Drop(s, n) = SubSeq(s, 1, Len(s))
  <2>1. 1 \in 1..Len(s)+1 /\ n \in 1-1..Len(s) /\ Len(s) \in n..Len(s)
    BY <1>1
  <2> QED BY <2>1, ConcatAdjacentSubSeq DEF Sock!Take, Sock!Drop
<1> QED BY <1>2, <1>3, <1>4, SubSeqFull

(* Where the brackets are does not matter.                                 *)
LEMMA JoinAssoc ==
  ASSUME NEW T
  PROVE  \A a, b, c \in Seq(T) : (a \o b) \o c = a \o (b \o c)
BY ConcatAssociative

(* Moving a piece from the front of one string to the back of the one      *)
(* before it leaves the whole as it was.                                   *)
LEMMA ShiftBoundary ==
  ASSUME NEW T, NEW s \in Seq(T), NEW t \in Seq(T), NEW n \in 0..Len(t)
  PROVE  (s \o Sock!Take(t, n)) \o Sock!Drop(t, n) = s \o t
<1>1. Sock!Take(t, n) \in Seq(T) /\ Sock!Drop(t, n) \in Seq(T)
      /\ Sock!Take(t, n) \o Sock!Drop(t, n) = t
  BY TakeDrop
<1>2. \A a, b \in Seq(T) : (s \o a) \o b = s \o (a \o b)
  BY ConcatAssociative, SMTT(30)
<1>3. (s \o Sock!Take(t, n)) \o Sock!Drop(t, n) = s \o (Sock!Take(t, n) \o Sock!Drop(t, n))
  BY <1>1, <1>2, Zenon
<1> QED BY <1>1, <1>3, Zenon

(* Cutting the front off a string that is continued.                       *)
LEMMA CutFront ==
  ASSUME NEW T, NEW s \in Seq(T), NEW t \in Seq(T), NEW n \in 0..Len(s)
  PROVE  /\ Sock!Take(s \o t, n) = Sock!Take(s, n)
         /\ Sock!Drop(s \o t, n) = Sock!Drop(s, n) \o t
<1> DEFINE w == s \o t
<1>1. /\ w \in Seq(T) /\ Len(w) = Len(s) + Len(t) /\ Len(s) \in Nat /\ Len(t) \in Nat
      /\ \A i \in 1..Len(s) : w[i] = s[i]
      /\ \A i \in Len(s) + 1..Len(s) + Len(t) : w[i] = t[i - Len(s)]
  BY JoinIs
<1> HIDE DEF w
<1>2. n \in 0..Len(w)
  BY <1>1
<1> DEFINE a == Sock!Take(w, n)
           b == Sock!Take(s, n)
           c == Sock!Drop(w, n)
           d == Sock!Drop(s, n)
<1>3. /\ a \in Seq(T) /\ Len(a) = n /\ \A i \in 1..n : a[i] = w[i]
      /\ c \in Seq(T) /\ Len(c) = Len(w) - n /\ \A i \in 1..Len(w) - n : c[i] = w[n + i]
  BY <1>1, <1>2, TakeDrop
<1>4. /\ b \in Seq(T) /\ Len(b) = n /\ \A i \in 1..n : b[i] = s[i]
      /\ d \in Seq(T) /\ Len(d) = Len(s) - n /\ \A i \in 1..Len(s) - n : d[i] = s[n + i]
  BY TakeDrop
<1> HIDE DEF a, b, c, d
<1>5. a = b
  <2>1. ASSUME NEW i \in 1..Len(a) PROVE a[i] = b[i]
    <3>1. i \in 1..n /\ i \in 1..Len(s)
      BY <1>1, <1>3
    <3>2. a[i] = w[i] /\ b[i] = s[i] /\ w[i] = s[i]
      BY <3>1, <1>1, <1>3, <1>4
    <3> QED BY <3>2
  <2> QED BY <2>1, <1>3, <1>4, SeqEqual
<1>6. c = d \o t
  <2> DEFINE e == d \o t
  <2>1. /\ e \in Seq(T) /\ Len(e) = Len(d) + Len(t)
        /\ \A i \in 1..Len(d) : e[i] = d[i]
        /\ \A i \in Len(d) + 1..Len(d) + Len(t) : e[i] = t[i - Len(d)]
    BY <1>4, JoinIs, ZenonT(60)
  <2> HIDE DEF e
  <2>2. \A i \in 1..Len(c) : c[i] = e[i]
    <3> TAKE i \in 1..Len(c)
    <3>1. CASE i <= Len(d)
      <4>1. n + i \in 1..Len(s) /\ i \in 1..Len(d) /\ i \in 1..Len(w) - n /\ i \in 1..Len(s) - n
        BY <3>1, <1>1, <1>3, <1>4
      <4>2. c[i] = w[n + i] /\ w[n + i] = s[n + i] /\ e[i] = d[i] /\ d[i] = s[n + i]
        BY <4>1, <2>1, <1>1, <1>3, <1>4
      <4> QED BY <4>2
    <3>2. CASE i > Len(d)
      <4>1. n + i \in Len(s) + 1..Len(s) + Len(t) /\ n + i - Len(s) = i - Len(d)
        BY <3>2, <1>1, <1>3, <1>4
      <4>2. i \in Len(d) + 1..Len(d) + Len(t) /\ i \in 1..Len(w) - n
        BY <3>2, <1>1, <1>3, <1>4
      <4>3. c[i] = w[n + i] /\ w[n + i] = t[n + i - Len(s)]
        BY <4>1, <4>2, <1>1, <1>3
      <4>4. e[i] = t[i - Len(d)]
        BY <4>2, <2>1
      <4> QED BY <4>1, <4>3, <4>4
    <3> QED
      <4>1. i \in Int /\ Len(d) \in Int
        BY <1>4, LenProperties
      <4> QED BY <3>1, <3>2, <4>1
  <2>3. Len(c) = Len(e)
    BY <2>1, <1>1, <1>3, <1>4
  <2>4. c = e
    BY <2>1, <2>2, <2>3, <1>3, SeqEqual
  <2> QED BY <2>4 DEF e
<1> QED BY <1>5, <1>6 DEF a, b, c, d, w

(* A word is four bytes.                                                   *)
LEMMA WordIs ==
  ASSUME NEW n \in Nat
  PROVE  Word(n) \in Seq(Bytes) /\ Len(Word(n)) = WordLen /\ Word(n) # << >>
<1>1. /\ (n \div 16777216) % 256 \in Bytes /\ (n \div 65536) % 256 \in Bytes
      /\ (n \div 256) % 256 \in Bytes /\ n % 256 \in Bytes
  BY SMT DEF Bytes
<1> QED BY <1>1, SMT DEF Word, WordLen

(* The words of the protocol, byte by byte.                                *)
LEMMA Words ==
  /\ Word(0) = <<0, 0, 0, 0>> /\ Word(2) = <<0, 0, 0, 2>>
  /\ Word(ClientVersion) = <<0, 0, 0, 1>> /\ Word(REMOTE_SEND_COMMAND) = <<0, 0, 0, 8>>
  /\ Word(REMOTE_HANDSHAKE_CMD) = <<0, 0, 0, 15>>
  /\ Word(REMOTE_SESSION_END_CMD) = <<0, 0, 0, 20>>
<1>1. ASSUME NEW n \in 0..255 PROVE Word(n) = <<0, 0, 0, n>>
  <2>0. n \in Int /\ 0 <= n /\ n < 256
    BY SMT
  <2>1. n \div 16777216 = 0 /\ n \div 65536 = 0 /\ n \div 256 = 0
    BY <2>0, SMT
  <2>2. 0 % 256 = 0 /\ n % 256 = n
    BY <2>0, SMT
  <2> QED BY <2>1, <2>2, SMT DEF Word
<1>2. Word(0) = <<0, 0, 0, 0>> /\ Word(2) = <<0, 0, 0, 2>> /\ Word(1) = <<0, 0, 0, 1>>
      /\ Word(8) = <<0, 0, 0, 8>> /\ Word(15) = <<0, 0, 0, 15>> /\ Word(20) = <<0, 0, 0, 20>>
  <2>1. 0 \in 0..255 /\ 1 \in 0..255 /\ 2 \in 0..255 /\ 8 \in 0..255 /\ 15 \in 0..255
        /\ 20 \in 0..255
    OBVIOUS
  <2> QED BY <1>1, <2>1, Zenon
<1> QED BY <1>2, Zenon DEF ClientVersion, REMOTE_SEND_COMMAND, REMOTE_HANDSHAKE_CMD,
                           REMOTE_SESSION_END_CMD

(* The number four bytes make up.                                          *)
LEMMA FourMakeOne ==
  ASSUME NEW s, s[1] \in Nat, s[2] \in Nat, s[3] \in Nat, s[4] \in Nat
  PROVE  Value(s) \in Nat
BY SMT DEF Value

(* The value of a word is a number.                                        *)
LEMMA ValueTyped ==
  ASSUME NEW s \in Seq(Bytes), Len(s) >= WordLen
  PROVE  Value(s) \in Nat
<1>1. \A i \in 1..4 : s[i] \in Nat
  <2>1. \A b \in Bytes : b \in Nat
    BY DEF Bytes
  <2>2. \A i \in 1..Len(s) : s[i] \in Bytes
    BY LenProperties
  <2>3. Len(s) \in Nat /\ Len(s) >= 4
    BY LenProperties DEF WordLen
  <2> QED BY <2>1, <2>2, <2>3
<1>2. s[1] \in Nat /\ s[2] \in Nat /\ s[3] \in Nat /\ s[4] \in Nat
  BY <1>1
<1> QED BY <1>2, FourMakeOne

(* What the last read of n bytes left in the caller's buffer.              *)
LEMMA LastIs ==
  ASSUME delivered \in Seq(Bytes), NEW n \in Nat, n <= Len(delivered)
  PROVE  /\ LastRead(n) \in Seq(Bytes) /\ Len(LastRead(n)) = n
         /\ \A i \in 1..n : LastRead(n)[i] = delivered[Len(delivered) - n + i]
<1>1. Len(delivered) \in Nat
  BY LenProperties
<1> DEFINE k == Len(delivered) - n + 1
<1>2. k \in Nat \ {0} /\ Len(delivered) - k + 1 = n /\ \A i \in 1..n : k + i - 1 = Len(delivered) - n + i
  BY <1>1
<1>3. LastRead(n) = SubSeq(delivered, k, Len(delivered))
  BY DEF LastRead
<1> HIDE DEF k
<1>4. /\ SubSeq(delivered, k, Len(delivered)) \in Seq(Bytes)
      /\ Len(SubSeq(delivered, k, Len(delivered)))
           = IF k <= Len(delivered) THEN Len(delivered) - k + 1 ELSE 0
      /\ \A i \in 1..Len(delivered) - k + 1 :
           SubSeq(delivered, k, Len(delivered))[i] = delivered[k + i - 1]
  BY <1>1, <1>2, PartIs
<1> QED BY <1>1, <1>2, <1>3, <1>4

-----------------------------------------------------------------------------
(***************************************************************************)
(* What a step of the socket does to the stream of each direction.         *)
(***************************************************************************)
SendGoesOn ==
  /\ op = "send" /\ op' = "send" /\ Sent' = Sent /\ Len(out) <= Len(out')
  /\ handle' = handle /\ result' = result

SendFails ==
  /\ op = "send" /\ op' = "idle" /\ left' = << >> /\ out' = out
  /\ result' = MU_FAILURE /\ handle' \in {handle, "aborted"}

SendWorks ==
  /\ op = "send" /\ op' = "idle" /\ left = << >> /\ left' = << >> /\ out' = out
  /\ result' = OK /\ handle' = handle

ReadGoesOn ==
  /\ op = "read" /\ op' = "read" /\ In' = In /\ bytes_len' = bytes_len
  /\ handle' = handle /\ result' = result /\ delivered' = delivered

ReadFails ==
  /\ op = "read" /\ op' = "idle" /\ delivered' = delivered
  /\ result' = MU_FAILURE /\ handle' \in {handle, "aborted"}

ReadWorks ==
  /\ op = "read" /\ op' = "idle" /\ bytes_len \in 0..Len(In)
  /\ In' = Sock!Drop(In, bytes_len) /\ delivered' = delivered \o Sock!Take(In, bytes_len)
  /\ result' = OK /\ handle' = handle

(* A send in progress goes on, fails, or works with every byte put on the  *)
(* connection.                                                             *)
LEMMA SendDoes ==
  ASSUME Sock!TypeOK, Sock!Send
  PROVE  /\ Sock!TypeOK' /\ UNCHANGED <<recv_bytes, wire, delivered>>
         /\ SendGoesOn \/ SendFails \/ SendWorks
<1> USE DEF Sock!TypeOK, Sock!OK, Sock!MU_FAILURE, OK, MU_FAILURE
<1>1. ASSUME NEW n \in 1..Len(left), Sock!SendSome(n)
      PROVE  Sock!TypeOK' /\ UNCHANGED <<recv_bytes, wire, delivered>> /\ SendGoesOn
  <2>1. n \in 0..Len(left) /\ n \in Int /\ left \in Seq(0..255) /\ out \in Seq(0..255)
    BY LenProperties
  <2>2. Sock!Take(left, n) \in Seq(0..255) /\ Sock!Drop(left, n) \in Seq(0..255)
        /\ Len(Sock!Take(left, n)) \in Nat
    BY <2>1, TakeDrop, LenProperties
  <2>3. /\ out' = out \o Sock!Take(left, n) /\ left' = Sock!Drop(left, n)
        /\ op = "send" /\ op' = op /\ sent_bytes' = n
        /\ UNCHANGED <<handle, recv_bytes, buf, bytes_len, index, result, wire, peerClosed,
                       written, delivered, lost, asked, sendFailed>>
    BY <1>1 DEF Sock!SendSome, Sock!cacheVars, Sock!inHist, Sock!outHist
  <2>4. out' \in Seq(0..255) /\ Len(out') = Len(out) + Len(Sock!Take(left, n))
        /\ Len(out) \in Nat
    BY <2>1, <2>2, <2>3, JoinIs
  <2>5. Sent' = Sent
    <3>1. (out \o Sock!Take(left, n)) \o Sock!Drop(left, n) = out \o left
      BY <2>1, ShiftBoundary, Zenon
    <3> QED BY <2>3, <3>1, Zenon DEF Sent
  <2>6. Sock!TypeOK'
    BY <2>1, <2>2, <2>3, <2>4
  <2>7. Len(out) <= Len(out')
    BY <2>2, <2>4
  <2> QED BY <2>3, <2>5, <2>6, <2>7 DEF SendGoesOn
<1>2. CASE Sock!SendError
  <2>1. Sock!TypeOK' /\ UNCHANGED <<recv_bytes, wire, delivered>>
    BY <1>2 DEF Sock!SendError, Sock!cacheVars, Sock!netVars, Sock!inHist, Sock!outHist
  <2>2. UNCHANGED <<op, out, left, handle, result>> /\ op = "send"
    BY <1>2 DEF Sock!SendError, Sock!netVars
  <2>3. Len(out) \in Nat
    BY LenProperties
  <2> QED BY <2>1, <2>2, <2>3 DEF SendGoesOn, Sent
<1>3. CASE Sock!SendStopped
  <2>1. << >> \in Seq(0..255)
    OBVIOUS
  <2>2. Sock!TypeOK' /\ UNCHANGED <<recv_bytes, wire, delivered>>
    BY <1>3, <2>1 DEF Sock!SendStopped, Sock!CallEnds, Sock!cacheVars, Sock!netVars, Sock!inHist
  <2>3. SendFails
    BY <1>3 DEF Sock!SendStopped, Sock!CallEnds, Sock!netVars, SendFails
  <2> QED BY <2>2, <2>3
<1>4. CASE Sock!SendReturn
  <2>1. << >> \in Seq(0..255)
    OBVIOUS
  <2>2. Sock!TypeOK' /\ UNCHANGED <<recv_bytes, wire, delivered>>
    BY <1>4, <2>1 DEF Sock!SendReturn, Sock!CallEnds, Sock!SendVerdict, Sock!cacheVars,
                      Sock!netVars, Sock!inHist
  <2>3. /\ op = "send" /\ op' = "idle" /\ left' = << >> /\ out' = out /\ handle' = handle
        /\ left = << >> \/ sent_bytes < 0
        /\ result' = IF sent_bytes < bytes_len THEN MU_FAILURE ELSE OK
    BY <1>4 DEF Sock!SendReturn, Sock!CallEnds, Sock!SendVerdict, Sock!netVars
  <2>4. CASE sent_bytes < bytes_len
    BY <2>2, <2>3, <2>4 DEF SendFails
  <2>5. CASE ~(sent_bytes < bytes_len)
    <3>1. left = << >>
      BY <2>3, <2>5
    <3> QED BY <2>2, <2>3, <2>5, <3>1 DEF SendWorks
  <2> QED BY <2>4, <2>5
<1> QED BY <1>1, <1>2, <1>3, <1>4 DEF Sock!Send

(* A read in progress goes on, fails, or works and hands out the front of  *)
(* what has come in.                                                       *)
LEMMA ReadDoes ==
  ASSUME Sock!TypeOK, Sock!Read
  PROVE  /\ Sock!TypeOK' /\ UNCHANGED <<out, left>>
         /\ ReadGoesOn \/ ReadFails \/ ReadWorks
<1> USE DEF Sock!TypeOK, Sock!OK, Sock!MU_FAILURE, OK, MU_FAILURE
<1>1. CASE Sock!ReadServed
  <2>1. /\ bytes_len \in 0..Len(recv_bytes) /\ Len(recv_bytes) \in Nat
        /\ recv_bytes \in Seq(0..255) /\ wire \in Seq(0..255) /\ delivered \in Seq(0..255)
    BY <1>1, LenProperties DEF Sock!ReadServed, Sock!recv_length
  <2>2. /\ op = "read" /\ op' = "idle" /\ result' = 0 /\ bytes_len' = 0 /\ index' = 0
        /\ delivered' = delivered \o Sock!Take(recv_bytes, bytes_len)
        /\ recv_bytes' = Sock!Drop(recv_bytes, bytes_len) /\ buf' \in {"null", "live"}
        /\ UNCHANGED <<handle, left, sent_bytes, out, wire, peerClosed, written, lost, asked,
                       sendFailed>>
    BY <1>1 DEF Sock!ReadServed, Sock!CallEnds, Sock!RemoveFromBuffer, Sock!netVars, Sock!outHist
  <2>3. Sock!Take(recv_bytes, bytes_len) \in Seq(0..255)
        /\ Sock!Drop(recv_bytes, bytes_len) \in Seq(0..255)
    BY <2>1, TakeDrop
  <2>4. delivered' \in Seq(0..255)
    BY <2>1, <2>2, <2>3, JoinIs
  <2>5. Sock!TypeOK'
    BY <2>1, <2>2, <2>3, <2>4
  <2>6. /\ Sock!Take(In, bytes_len) = Sock!Take(recv_bytes, bytes_len)
        /\ Sock!Drop(In, bytes_len) = Sock!Drop(recv_bytes, bytes_len) \o wire
    BY <2>1, CutFront DEF In
  <2>7. bytes_len \in 0..Len(In)
    <3>1. Len(In) = Len(recv_bytes) + Len(wire) /\ Len(wire) \in Nat
      BY <2>1, JoinIs DEF In
    <3> QED BY <2>1, <3>1
  <2>8. In' = Sock!Drop(In, bytes_len) /\ delivered' = delivered \o Sock!Take(In, bytes_len)
    <3>1. In' = recv_bytes' \o wire'
      BY DEF In
    <3> QED BY <2>2, <2>6, <3>1, Zenon
  <2> QED BY <2>2, <2>5, <2>7, <2>8 DEF ReadWorks
<1>2. CASE Sock!ReadStopped \/ Sock!RecvError \/ Sock!ReadGivesUp
  <2>1. /\ op = "read" /\ op' = "idle" /\ result' = 1 /\ bytes_len' = 0 /\ index' = 0
        /\ handle' \in {handle, "aborted"}
        /\ UNCHANGED <<recv_bytes, buf, left, sent_bytes, out, wire, peerClosed, written,
                       delivered, lost, asked, sendFailed>>
    BY <1>2 DEF Sock!ReadStopped, Sock!RecvError, Sock!ReadGivesUp, Sock!Receiving,
                Sock!CallEnds, Sock!cacheVars, Sock!netVars, Sock!inHist, Sock!outHist
  <2>2. Sock!TypeOK'
    BY <2>1
  <2> QED BY <2>1, <2>2 DEF ReadFails
<1>3. CASE Sock!RecvClosed
  <2>1. /\ op = "read" /\ index < 2
        /\ UNCHANGED <<recv_bytes, left, sent_bytes, out, wire, peerClosed, written, delivered,
                       lost, asked, sendFailed>>
        /\ \/ buf' = "live" /\ index' = index + 1 /\ UNCHANGED <<handle, op, bytes_len, result>>
           \/ /\ buf' \in {"stale", buf} /\ op' = "idle" /\ bytes_len' = 0 /\ index' = 0
              /\ result' = 1 /\ handle' \in {handle, "aborted"}
    BY <1>3 DEF Sock!RecvClosed, Sock!Receiving, Sock!CallEnds, Sock!netVars, Sock!inHist,
                Sock!outHist
  <2>2. Sock!TypeOK'
    BY <2>1
  <2> QED BY <2>1, <2>2 DEF ReadFails, ReadGoesOn, In
<1>4. ASSUME NEW n \in 1..Len(wire), Sock!RecvSome(n)
      PROVE  Sock!TypeOK' /\ UNCHANGED <<out, left>> /\ ReadGoesOn
  <2>1. n \in 0..Len(wire) /\ wire \in Seq(0..255) /\ recv_bytes \in Seq(0..255)
    BY LenProperties
  <2>2. Sock!Take(wire, n) \in Seq(0..255) /\ Sock!Drop(wire, n) \in Seq(0..255)
    BY <2>1, TakeDrop
  <2>3. /\ op = "read" /\ op' = op /\ index < 2 /\ index' = index + 1 /\ buf' = "live"
        /\ recv_bytes' = recv_bytes \o Sock!Take(wire, n) /\ wire' = Sock!Drop(wire, n)
        /\ UNCHANGED <<handle, bytes_len, left, sent_bytes, result, out, peerClosed, written,
                       delivered, lost, asked, sendFailed>>
    BY <1>4 DEF Sock!RecvSome, Sock!Receiving, Sock!inHist, Sock!outHist
  <2>4. recv_bytes' \in Seq(0..255)
    BY <2>1, <2>2, <2>3, JoinIs
  <2>5. Sock!TypeOK'
    BY <2>2, <2>3, <2>4
  <2>6. In' = In
    <3>1. (recv_bytes \o Sock!Take(wire, n)) \o Sock!Drop(wire, n) = recv_bytes \o wire
      BY <2>1, ShiftBoundary, Zenon
    <3> QED BY <2>3, <3>1, Zenon DEF In
  <2> QED BY <2>3, <2>5, <2>6 DEF ReadGoesOn
<1>5. ASSUME NEW n \in 1..Len(wire), Sock!RecvNoMemory(n)
      PROVE  Sock!TypeOK' /\ UNCHANGED <<out, left>> /\ ReadFails
  <2>1. n \in 0..Len(wire) /\ wire \in Seq(0..255)
    BY LenProperties
  <2>2. Sock!Drop(wire, n) \in Seq(0..255)
    BY <2>1, TakeDrop
  <2>3. /\ op = "read" /\ op' = "idle" /\ result' = 1 /\ bytes_len' = 0 /\ index' = 0
        /\ wire' = Sock!Drop(wire, n) /\ lost' = TRUE
        /\ UNCHANGED <<handle, recv_bytes, buf, left, sent_bytes, out, peerClosed, written,
                       delivered, asked, sendFailed>>
    BY <1>5 DEF Sock!RecvNoMemory, Sock!Receiving, Sock!CallEnds, Sock!cacheVars, Sock!outHist
  <2>4. Sock!TypeOK'
    BY <2>2, <2>3
  <2> QED BY <2>3, <2>4 DEF ReadFails
<1> QED BY <1>1, <1>2, <1>3, <1>4, <1>5 DEF Sock!Read

(* The call of tpm_socket_send: the message is queued, an empty one is     *)
(* refused.                                                                *)
LEMMA SendCallDoes ==
  ASSUME Sock!TypeOK, NEW m \in Seq(Bytes), SocketSend(m), handle = "open",
         op # "send" => left = << >>
  PROVE  /\ Sock!TypeOK' /\ op = "idle"
         /\ UNCHANGED <<handle, recv_bytes, wire, delivered, out>>
         /\ m = << >> => UNCHANGED <<op, left>> /\ result' = MU_FAILURE
         /\ m # << >> => op' = "send" /\ left' = m /\ result' = result /\ Sent' = Sent \o m
<1> USE DEF Sock!TypeOK, Sock!OK, Sock!MU_FAILURE, OK, MU_FAILURE, Bytes
<1>1. CASE Sock!SendCall(m)
  <2>1. /\ op = "idle" /\ m # << >> /\ op' = "send" /\ bytes_len' = Len(m) /\ left' = m
        /\ sent_bytes' = 0 /\ asked' = asked \o m
        /\ UNCHANGED <<handle, recv_bytes, buf, index, result, out, wire, peerClosed, written,
                       delivered, lost, sendFailed>>
    BY <1>1 DEF Sock!SendCall, Sock!cacheVars, Sock!netVars, Sock!inHist
  <2>2. asked \o m \in Seq(0..255) /\ Len(m) \in Nat
    BY JoinIs
  <2>3. Sock!TypeOK'
    BY <2>1, <2>2
  <2>4. Sent = out
    <3>1. out \o << >> = out
      BY ConcatEmptySeq
    <3> QED BY <2>1, <3>1 DEF Sent
  <2>5. Sent' = out \o m
    BY <2>1 DEF Sent
  <2> QED BY <2>1, <2>3, <2>4, <2>5
<1>2. CASE Sock!SendRefused(m)
  <2>1. /\ op = "idle" /\ m = << >> /\ result' = 1
        /\ UNCHANGED <<handle, recv_bytes, buf, op, bytes_len, left, sent_bytes, index, out, wire,
                       peerClosed, written, delivered, lost, asked, sendFailed>>
    BY <1>2 DEF Sock!SendRefused, Sock!cacheVars, Sock!callVars, Sock!netVars, Sock!inHist,
                Sock!outHist
  <2> QED BY <2>1
<1> QED BY <1>1, <1>2 DEF SocketSend

(* The call of tpm_socket_read.                                            *)
LEMMA ReadCallDoes ==
  ASSUME Sock!TypeOK, NEW n \in Nat, SocketRead(n), handle = "open"
  PROVE  /\ Sock!TypeOK' /\ op = "idle"
         /\ UNCHANGED <<handle, recv_bytes, wire, delivered, out, left>>
         /\ n = 0 => op' = op /\ result' = MU_FAILURE
         /\ n # 0 => op' = "read" /\ bytes_len' = n /\ result' = result
<1> USE DEF Sock!TypeOK, Sock!OK, Sock!MU_FAILURE, OK, MU_FAILURE
<1>1. CASE Sock!ReadCall(n)
  <2>1. /\ op = "idle" /\ n # 0 /\ op' = "read" /\ bytes_len' = n /\ index' = 0
        /\ UNCHANGED <<handle, recv_bytes, buf, left, sent_bytes, result, out, wire, peerClosed,
                       written, delivered, lost, asked, sendFailed>>
    BY <1>1 DEF Sock!ReadCall, Sock!cacheVars, Sock!netVars, Sock!inHist, Sock!outHist
  <2> QED BY <2>1
<1>2. CASE Sock!ReadRefused(n)
  <2>1. /\ op = "idle" /\ n = 0 /\ result' = 1
        /\ UNCHANGED <<handle, recv_bytes, buf, op, bytes_len, left, sent_bytes, index, out, wire,
                       peerClosed, written, delivered, lost, asked, sendFailed>>
    BY <1>2 DEF Sock!ReadRefused, Sock!cacheVars, Sock!callVars, Sock!netVars, Sock!inHist,
                Sock!outHist
  <2> QED BY <2>1
<1> QED BY <1>1, <1>2 DEF SocketRead

(* Creating and destroying the socket.                                     *)
LEMMA CreateDoes ==
  ASSUME Sock!TypeOK, Sock!Create
  PROVE  /\ Sock!TypeOK' /\ op = "idle" /\ handle' = "open" /\ result' = OK
         /\ UNCHANGED <<op, left>>
         /\ out' = << >> /\ recv_bytes' = << >> /\ wire' = << >> /\ delivered' = << >>
<1>1. << >> \in Seq(0..255)
  OBVIOUS
<1>2. /\ op = "idle" /\ handle' = "open" /\ result' = 0
      /\ recv_bytes' = << >> /\ buf' = "null" /\ out' = << >> /\ wire' = << >>
      /\ peerClosed' = FALSE /\ written' = << >> /\ delivered' = << >> /\ lost' = FALSE
      /\ asked' = << >> /\ sendFailed' = FALSE
      /\ UNCHANGED <<op, bytes_len, left, sent_bytes, index>>
  BY DEF Sock!Create, Sock!callVars, Sock!OK
<1> QED BY <1>1, <1>2 DEF Sock!TypeOK, Sock!OK, OK

(* tpm_socket_destroy frees the handle, or ends the process.               *)
LEMMA DestroyDoes ==
  ASSUME Sock!TypeOK, Sock!Destroy
  PROVE  /\ Sock!TypeOK' /\ op = "idle" /\ handle' \in {"null", "aborted"}
         /\ UNCHANGED <<op, left, result, out>>
<1>1. << >> \in Seq(0..255)
  OBVIOUS
<1>2. /\ op = "idle" /\ handle' \in {"null", "aborted"}
      /\ recv_bytes' = << >> /\ buf' = "null" /\ wire' = << >>
      /\ written' = << >> /\ delivered' = << >> /\ lost' = FALSE
      /\ UNCHANGED <<op, bytes_len, left, sent_bytes, index, result, out, peerClosed, asked,
                     sendFailed>>
  BY DEF Sock!Destroy, Sock!callVars, Sock!outHist
<1> QED BY <1>1, <1>2 DEF Sock!TypeOK

(* The simulator answers, or hangs up.                                     *)
LEMMA PeerSaysDoes ==
  ASSUME Sock!TypeOK, NEW s \in Seq(Bytes), PeerSays(s)
  PROVE  /\ Sock!TypeOK'
         /\ UNCHANGED <<handle, op, bytes_len, result, recv_bytes, out, left, delivered>>
         /\ handle = "open" => In' = In \o s
         /\ handle # "open" => In' = In
<1>0. (recv_bytes \o wire) \o s = recv_bytes \o (wire \o s)
  <2>1. recv_bytes \in Seq(Bytes) /\ wire \in Seq(Bytes)
    BY DEF Sock!TypeOK, Bytes
  <2>2. \A a, b, c \in Seq(Bytes) : (a \o b) \o c = a \o (b \o c)
    BY JoinAssoc
  <2> QED BY <2>1, <2>2
<1> USE DEF Sock!TypeOK, Bytes
<1>1. CASE handle = "open"
  <2>1. /\ wire' = wire \o s /\ written' = written \o s
        /\ UNCHANGED <<handle, recv_bytes, buf, op, bytes_len, left, sent_bytes, index, result,
                       out, peerClosed, delivered, lost, asked, sendFailed>>
    BY <1>1 DEF PeerSays, Sock!PeerWrite, Sock!cacheVars, Sock!callVars, Sock!outHist
  <2>2. wire \o s \in Seq(0..255) /\ written \o s \in Seq(0..255)
    <3>1. wire \in Seq(0..255) /\ written \in Seq(0..255) /\ s \in Seq(0..255)
      BY Zenon
    <3> QED BY <3>1, JoinIs
  <2>3. Sock!TypeOK'
    BY <2>1, <2>2
  <2>4. In' = In \o s
    <3> QED BY <1>0, <2>1, Zenon DEF In
  <2> QED BY <1>1, <2>1, <2>3, <2>4
<1>2. CASE handle # "open"
  BY <1>2 DEF PeerSays, sockVars, In
<1> QED BY <1>1, <1>2

(* The simulator's side of the connection goes down.                       *)
LEMMA SessionEndsDoes ==
  ASSUME Sock!TypeOK, SessionEnds
  PROVE  /\ Sock!TypeOK' /\ peer' = "down"
         /\ UNCHANGED <<handle, op, bytes_len, result, recv_bytes, wire, out, left, delivered>>
<1>1. /\ UNCHANGED <<handle, recv_bytes, buf, op, bytes_len, left, sent_bytes, index, result, out,
                     wire, written, delivered, lost, asked, sendFailed>>
      /\ peerClosed' = TRUE \/ peerClosed' = peerClosed
  BY DEF SessionEnds, Sock!PeerClose, Sock!cacheVars, Sock!callVars, Sock!inHist, Sock!outHist,
         sockVars
<1>2. peerClosed' \in BOOLEAN /\ sendFailed' \in BOOLEAN /\ lost' \in BOOLEAN
  BY <1>1, Zenon DEF Sock!TypeOK
<1>3. Sock!TypeOK'
  BY <1>1, <1>2 DEF Sock!TypeOK
<1>4. peer' = "down"
  BY DEF SessionEnds
<1> QED BY <1>1, <1>3, <1>4

(* The simulator hangs up, and nothing else changes.                       *)
LEMMA HangUpDoes ==
  ASSUME Sock!TypeOK, SimHangsUp
  PROVE  /\ Sock!TypeOK' /\ peer' = "down"
         /\ UNCHANGED <<handle, op, bytes_len, result, recv_bytes, wire, out, left, delivered,
                        comm, pc, cmd, cmdBytes, resp_len, retval, response, failed, reply,
                        powerVars, peerPos, executed>>
<1>1. SessionEnds /\ UNCHANGED <<hostVars, powerVars, peerPos, executed>>
  BY DEF SimHangsUp
<1> QED BY <1>1, SessionEndsDoes DEF hostVars
-----------------------------------------------------------------------------
(***************************************************************************)
(* Types and control.                                                      *)
(***************************************************************************)
Inv == Typed /\ ControlInv /\ HandleInv

(* The names of the steps, told apart.                                     *)
Steps == {"idle", "session_end"} \cup SubmitSteps7 \cup SetupSteps10

(* The invariant holds to begin with.                                      *)
LEMMA InitInv == Init => Inv
<1> SUFFICES ASSUME Init PROVE Inv
  OBVIOUS
<1>1. << >> \in Seq(0..255) /\ << >> \in Seq(Bytes) /\ << >> \in Seq(Nat) /\ Len(<< >>) = 0
  OBVIOUS
<1>2. Sock!TypeOK
  <2>1. /\ recv_bytes = << >> /\ left = << >> /\ out = << >> /\ wire = << >>
        /\ written = << >> /\ delivered = << >> /\ asked = << >>
        /\ handle = "null" /\ buf = "null" /\ op = "idle" /\ bytes_len = 0 /\ sent_bytes = 0
        /\ index = 0 /\ result = 0
    BY DEF Init, Sock!Init, Sock!OK
  <2>2. peerClosed \in BOOLEAN /\ sendFailed \in BOOLEAN /\ lost \in BOOLEAN
    BY Zenon DEF Init, Sock!Init
  <2>3. 0 \in Nat /\ 0 \in Int /\ 0 \in 0..2
    OBVIOUS
  <2> QED BY <1>1, <2>1, <2>2, <2>3, Zenon DEF Sock!TypeOK, Sock!OK
<1>3. TypeOK
  <2>1. Len(out) = 0
    <3>1. out = << >>
      BY DEF Init, Sock!Init
    <3> QED BY <1>1, <3>1
  <2>2. 0 \in 0..Len(out) /\ 0 \in 0..MaxCommand /\ 0 \in 0..RespCapacity
    BY <2>1, SimAssumption
  <2>3. simOn \in BOOLEAN /\ simNv \in BOOLEAN /\ failed \in BOOLEAN
    BY Zenon DEF Init
  <2>4. peerPos \in 0..Len(out) /\ cmd \in 0..MaxCommand /\ resp_len \in 0..RespCapacity
    BY <2>2, Zenon DEF Init
  <2>5. pc = "idle" /\ comm = "null" /\ retval = 0 /\ peer = "down" /\ reply = 0
    BY DEF Init, OK
  <2>6. platform_conn = "null" /\ signal = NoWord /\ answer = NoWord
    BY DEF Init
  <2> QED BY <1>2, <2>3, <2>4, <2>5, <2>6, Zenon DEF TypeOK, OK
<1>4. Typed
  <2>1. cmdBytes = << >> /\ response = << >> /\ executed = << >>
    BY DEF Init
  <2> QED BY <1>1, <1>3, <2>1, Zenon DEF Typed
<1>5. ControlInv /\ HandleInv
  BY DEF Init, Sock!Init, ControlInv, HandleInv, ReadSteps, SendSteps, PowerSteps, SubmitSteps7,
         SetupSteps10
<1> QED BY <1>4, <1>5 DEF Inv

(* A step of the socket call in progress.                                  *)
LEMMA SocketKeeps == ASSUME Inv, Socket PROVE Inv'
<1>1. Sock!TypeOK /\ Typed /\ ControlInv /\ HandleInv
  BY DEF Inv, Typed, TypeOK
<1>2. UNCHANGED <<comm, pc, cmd, cmdBytes, resp_len, retval, response, failed, reply,
                  powerVars, peer, peerPos, executed>>
  BY DEF Socket, hostVars, simVars
<1>3. CASE Sock!Send
  <2>1. /\ Sock!TypeOK' /\ UNCHANGED <<recv_bytes, wire, delivered>>
        /\ SendGoesOn \/ SendFails \/ SendWorks
    BY <1>1, <1>3, SendDoes
  <2>2. Len(out) \in Nat /\ Len(out') \in Nat /\ Len(out) <= Len(out')
    <3>1. out \in Seq(0..255) /\ out' \in Seq(0..255)
      BY <1>1, <2>1 DEF Sock!TypeOK
    <3>2. Len(out) \in Nat /\ Len(out') \in Nat
      BY <3>1, LenProperties
    <3> QED BY <2>1, <3>2 DEF SendGoesOn, SendFails, SendWorks
  <2>3. Typed'
    BY <1>1, <1>2, <2>1, <2>2 DEF Typed, TypeOK, powerVars
  <2>4. ControlInv' /\ HandleInv'
    BY <1>1, <1>2, <2>1 DEF SendGoesOn, SendFails, SendWorks, ControlInv, HandleInv, powerVars,
       PowerSteps, ReadSteps, SendSteps, ReadSize, SubmitSteps7, SetupSteps10, OK, MU_FAILURE
  <2> QED BY <2>3, <2>4 DEF Inv
<1>4. CASE Sock!Read
  <2>1. /\ Sock!TypeOK' /\ UNCHANGED <<out, left>>
        /\ ReadGoesOn \/ ReadFails \/ ReadWorks
    BY <1>1, <1>4, ReadDoes
  <2>3. Typed'
    BY <1>1, <1>2, <2>1 DEF Typed, TypeOK, powerVars
  <2>4. ReadWorks => Len(delivered') >= bytes_len
    <3> SUFFICES ASSUME ReadWorks PROVE Len(delivered') >= bytes_len
      OBVIOUS
    <3>1. recv_bytes \in Seq(Bytes) /\ wire \in Seq(Bytes) /\ delivered \in Seq(Bytes)
      BY <1>1 DEF Sock!TypeOK, Bytes
    <3>2. In \in Seq(Bytes)
      BY <3>1, JoinIs DEF In
    <3>3. Sock!Take(In, bytes_len) \in Seq(Bytes) /\ Len(Sock!Take(In, bytes_len)) = bytes_len
      BY <3>2, TakeDrop DEF ReadWorks
    <3>4. Len(delivered') = Len(delivered) + Len(Sock!Take(In, bytes_len)) /\ Len(delivered) \in Nat
      BY <3>1, <3>3, JoinIs DEF ReadWorks
    <3>5. bytes_len \in Nat
      BY <1>1 DEF Sock!TypeOK
    <3> QED BY <3>3, <3>4, <3>5
  <2>5. ControlInv' /\ HandleInv'
    BY <1>1, <1>2, <2>1, <2>4 DEF ReadGoesOn, ReadFails, ReadWorks, ControlInv, HandleInv,
       powerVars, PowerSteps, ReadSteps, SendSteps, ReadSize, SubmitSteps7, SetupSteps10, OK, MU_FAILURE
  <2> QED BY <2>3, <2>5 DEF Inv
<1> QED BY <1>3, <1>4 DEF Socket

(* An idle handle stands on an open socket.                                *)
LEMMA StepIsOpen ==
  ASSUME Inv, NEW p, NEW r, Returned(p, r), p # "idle", r = OK \/ op = "idle"
  PROVE  pc = p /\ op = "idle" /\ result = r /\ handle = "open" /\ left = << >>
BY DEF Inv, Typed, TypeOK, Sock!TypeOK, ControlInv, HandleInv, Returned

(* The call of step q is made from step p: a send.                         *)
LEMMA SendStepKeeps ==
  ASSUME Inv, op = "idle", handle = "open", pc \notin PowerSteps, NEW m \in Seq(Bytes), SocketSend(m),
         pc' \in SendSteps, comm' = comm, failed' = failed, cmdBytes' \in Seq(Bytes),
         cmdBytes' \in {<< >>, <<cmd', cmd'>>}, cmd' \in 0..MaxCommand,
         resp_len' \in 0..RespCapacity, pc' \in SetupSteps10 => comm = "null" /\ ~failed,
         pc' \notin SetupSteps10 => comm = "open", pc' \in SubmitSteps7 => cmd' \in Command,
         UNCHANGED <<retval, response, reply, powerVars, peer, peerPos, executed>>
  PROVE  Inv'
<1>1. Sock!TypeOK /\ Typed /\ ControlInv /\ HandleInv
  BY DEF Inv, Typed, TypeOK
<1>2. /\ Sock!TypeOK' /\ UNCHANGED <<handle, recv_bytes, wire, delivered, out>>
      /\ m = << >> => UNCHANGED <<op, left>> /\ result' = MU_FAILURE
      /\ m # << >> => op' = "send" /\ left' = m /\ result' = result /\ Sent' = Sent \o m
  <2>1. op # "send" => left = << >>
    BY <1>1 DEF ControlInv
  <2> QED BY <1>1, <2>1, SendCallDoes
<1>3. TypeOK'
  BY <1>1, <1>2 DEF Typed, TypeOK, powerVars, SendSteps, SubmitSteps7, SetupSteps10
<1>4. Typed'
  BY <1>1, <1>3 DEF Typed
<1>5. ControlInv'
  BY <1>1, <1>2 DEF ControlInv, SendSteps, ReadSteps, PowerSteps, SubmitSteps7, SetupSteps10
<1>6. HandleInv'
  BY <1>1, <1>2 DEF HandleInv, powerVars, SendSteps, PowerSteps, SubmitSteps7, SetupSteps10
<1> QED BY <1>4, <1>5, <1>6 DEF Inv

(* A read.                                                                 *)
LEMMA ReadStepKeeps ==
  ASSUME Inv, op = "idle", handle = "open", pc \notin PowerSteps, NEW n \in Nat, SocketRead(n),
         pc' \in ReadSteps, n = ReadSize', comm' = comm, failed' = failed,
         response' \in Seq(Bytes), resp_len' \in 0..RespCapacity,
         pc' \in SetupSteps10 => comm = "null" /\ ~failed,
         pc' \notin SetupSteps10 => comm = "open" /\ cmd \in Command,
         UNCHANGED <<cmd, cmdBytes, retval, reply, powerVars, peer, peerPos, executed>>
  PROVE  Inv'
<1>1. Sock!TypeOK /\ Typed /\ ControlInv /\ HandleInv
  BY DEF Inv, Typed, TypeOK
<1>2. /\ Sock!TypeOK' /\ UNCHANGED <<handle, recv_bytes, wire, delivered, out, left>>
      /\ n = 0 => op' = op /\ result' = MU_FAILURE
      /\ n # 0 => op' = "read" /\ bytes_len' = n /\ result' = result
  BY <1>1, ReadCallDoes
<1>3. TypeOK'
  BY <1>1, <1>2 DEF Typed, TypeOK, powerVars, ReadSteps, SubmitSteps7, SetupSteps10
<1>4. Typed'
  BY <1>1, <1>3 DEF Typed
<1>5. ControlInv'
  BY <1>1, <1>2 DEF ControlInv, SendSteps, ReadSteps, PowerSteps, SubmitSteps7, SetupSteps10, OK,
     MU_FAILURE
<1>6. HandleInv'
  BY <1>1, <1>2 DEF HandleInv, powerVars, ReadSteps, PowerSteps, SubmitSteps7, SetupSteps10
<1> QED BY <1>4, <1>5, <1>6 DEF Inv

(* tpm_comm_create up to the socket, and the requests of the handshake.    *)
LEMMA CreateKeeps == ASSUME Inv, Create PROVE Inv'
<1>1. Sock!TypeOK /\ Typed /\ ControlInv /\ HandleInv
  BY DEF Inv, Typed, TypeOK
<1>2. CASE CreateConnects
  <2>1. /\ comm = "null" /\ pc = "idle" /\ Sock!Create /\ pc' = "connect" /\ peer' = "up"
        /\ peerPos' = 0 /\ failed' = FALSE
        /\ UNCHANGED <<comm, cmd, cmdBytes, resp_len, retval, response, reply, powerVars,
                       executed>>
    BY <1>2 DEF CreateConnects
  <2>2. /\ Sock!TypeOK' /\ op = "idle" /\ handle' = "open" /\ result' = OK
        /\ UNCHANGED <<op, left>> /\ out' = << >>
    BY <1>1, <2>1, CreateDoes
  <2>3. peerPos' \in 0..Len(out')
    BY <2>1, <2>2
  <2>4. failed' \in BOOLEAN
    BY <2>1, Zenon
  <2>6. Typed'
    BY <1>1, <2>1, <2>2, <2>3, <2>4 DEF Typed, TypeOK, powerVars, SetupSteps10
  <2>5. ControlInv' /\ HandleInv'
    BY <1>1, <2>1, <2>2 DEF ControlInv, HandleInv, powerVars, PowerSteps, SubmitSteps7,
       SetupSteps10, SendSteps, ReadSteps
  <2> QED BY <2>6, <2>5 DEF Inv
<1>3. CASE CreateNoSocket
  <2>1. /\ comm = "null" /\ pc = "idle" /\ retval' = MU_FAILURE /\ result' = MU_FAILURE
        /\ op = "idle"
        /\ UNCHANGED <<handle, recv_bytes, buf, op, bytes_len, left, sent_bytes, index, out, wire,
                       peerClosed, written, delivered, asked, sendFailed, lost,
                       comm, pc, cmd, cmdBytes, resp_len, response, failed, reply,
                       powerVars, peer, peerPos, executed>>
    BY <1>3 DEF CreateNoSocket, simVars, Sock!CreateFails, Sock!cacheVars, Sock!callVars,
                Sock!netVars, Sock!inHist, Sock!outHist, Sock!MU_FAILURE, MU_FAILURE
  <2>2. Sock!TypeOK'
    BY <1>1, <2>1 DEF Sock!TypeOK, Sock!MU_FAILURE, MU_FAILURE
  <2>3. Typed'
    BY <1>1, <2>1, <2>2 DEF Typed, TypeOK, powerVars
  <2>4. ControlInv' /\ HandleInv'
    BY <1>1, <2>1 DEF ControlInv, HandleInv, powerVars, PowerSteps, SubmitSteps7,
       SetupSteps10, SendSteps, ReadSteps,
       ReadSize
  <2> QED BY <2>3, <2>4 DEF Inv
<1> QED BY <1>2, <1>3 DEF Create

(* The messages of the protocol are byte strings.                          *)
LEMMA Messages ==
  /\ Word(REMOTE_HANDSHAKE_CMD) \in Seq(Bytes) /\ Word(ClientVersion) \in Seq(Bytes)
  /\ Word(REMOTE_SEND_COMMAND) \in Seq(Bytes) /\ Word(REMOTE_SESSION_END_CMD) \in Seq(Bytes)
  /\ << 0 >> \in Seq(Bytes) /\ \A s \in Seq(Bytes) : Word(Len(s)) \in Seq(Bytes)
  /\ Word(TpmInfo) \in Seq(Bytes)
<1>1. \A n \in Nat : Word(n) \in Seq(Bytes)
  BY WordIs
<1>2. << 0 >> \in Seq(Bytes)
  BY DEF Bytes
<1>3. \A s \in Seq(Bytes) : Len(s) \in Nat
  BY LenProperties
<1>4. 15 \in Nat /\ 1 \in Nat /\ 8 \in Nat /\ 20 \in Nat /\ 0 \in Nat
  OBVIOUS
<1> QED BY <1>1, <1>2, <1>3, <1>4, Zenon DEF REMOTE_HANDSHAKE_CMD, ClientVersion, REMOTE_SEND_COMMAND,
                                REMOTE_SESSION_END_CMD, TpmInfo

(* The steps of tpm_comm_create keep it.                                   *)
LEMMA SetupStepKeeps == ASSUME Inv, SetupSteps PROVE Inv'
<1>1. Sock!TypeOK /\ Typed /\ ControlInv /\ HandleInv
  BY DEF Inv, Typed, TypeOK
<1>2. /\ cmdBytes \in Seq(Bytes) /\ cmdBytes \in {<< >>, <<cmd, cmd>>} /\ cmd \in 0..MaxCommand
      /\ resp_len \in 0..RespCapacity /\ response \in Seq(Bytes)
  BY <1>1 DEF Typed, TypeOK, ControlInv
<1>3. ASSUME NEW p \in SetupSteps10 \ PowerSteps, NEW check, NEW m \in Seq(Bytes),
             NEW q \in SendSteps \cap SetupSteps10, Setup(p, check, SocketSend(m), q)
      PROVE  Inv'
  <2>1. /\ Returned(p, OK) /\ SocketSend(m) /\ pc' = q
        /\ UNCHANGED <<comm, cmd, cmdBytes, resp_len, retval, response, failed, reply,
                       powerVars, peer, peerPos, executed>>
    BY <1>3 DEF Setup, simVars
  <2>2. pc = p /\ op = "idle" /\ handle = "open"
    BY <2>1, StepIsOpen DEF SetupSteps10
  <2>3. comm = "null" /\ ~failed /\ pc' \notin SubmitSteps7
    BY <1>1, <2>1, <2>2 DEF HandleInv, SetupSteps10, PowerSteps, SubmitSteps7
  <2> QED BY <1>2, <2>1, <2>2, <2>3, SendStepKeeps
<1>4. ASSUME NEW p \in SetupSteps10 \ PowerSteps, NEW check,
             NEW q \in ReadSteps \cap SetupSteps10, Setup(p, check, SocketRead(WordLen), q)
      PROVE  Inv'
  <2>1. /\ Returned(p, OK) /\ SocketRead(WordLen) /\ pc' = q
        /\ UNCHANGED <<comm, cmd, cmdBytes, resp_len, retval, response, failed, reply,
                       powerVars, peer, peerPos, executed>>
    BY <1>4 DEF Setup, simVars
  <2>2. pc = p /\ op = "idle" /\ handle = "open"
    BY <2>1, StepIsOpen DEF SetupSteps10
  <2>3. comm = "null" /\ ~failed
    BY <1>1, <2>2 DEF HandleInv
  <2>4. WordLen \in Nat /\ WordLen = ReadSize'
    BY <2>1 DEF ReadSize, WordLen, SetupSteps10
  <2> QED BY <1>2, <2>1, <2>2, <2>3, <2>4, ReadStepKeeps
<1>5. CASE Setup("connect", TRUE, SocketSend(Word(REMOTE_HANDSHAKE_CMD)), "handshake")
  <2>1. "connect" \in SetupSteps10 \ PowerSteps /\ "handshake" \in SendSteps \cap SetupSteps10
    BY DEF SetupSteps10, PowerSteps, SendSteps
  <2> QED BY <1>3, <1>5, <2>1, Messages
<1>6. CASE Setup("handshake", TRUE, SocketSend(Word(ClientVersion)), "version")
  <2>1. "handshake" \in SetupSteps10 \ PowerSteps /\ "version" \in SendSteps \cap SetupSteps10
    BY DEF SetupSteps10, PowerSteps, SendSteps
  <2> QED BY <1>3, <1>6, <2>1, Messages
<1>7. CASE Setup("version", TRUE, SocketRead(WordLen), "server_version")
  <2>1. "version" \in SetupSteps10 \ PowerSteps /\ "server_version" \in ReadSteps \cap SetupSteps10
    BY DEF SetupSteps10, PowerSteps, ReadSteps
  <2> QED BY <1>4, <1>7, <2>1
<1>8. CASE Setup("server_version", WordRead = ClientVersion, SocketRead(WordLen), "tpm_info")
  <2>1. "server_version" \in SetupSteps10 \ PowerSteps /\ "tpm_info" \in ReadSteps \cap SetupSteps10
    BY DEF SetupSteps10, PowerSteps, ReadSteps
  <2> QED BY <1>4, <1>8, <2>1
<1>9. CASE Setup("tpm_info", TRUE, SocketRead(WordLen), "setup_ack")
  <2>1. "tpm_info" \in SetupSteps10 \ PowerSteps /\ "setup_ack" \in ReadSteps \cap SetupSteps10
    BY DEF SetupSteps10, PowerSteps, ReadSteps
  <2> QED BY <1>4, <1>9, <2>1
<1> QED BY <1>5, <1>6, <1>7, <1>8, <1>9 DEF SetupSteps

(* A failure of the setup: the socket goes, and with it the platform       *)
(* connection if it was there.                                             *)
LEMMA AbandonKeeps ==
  ASSUME Inv, pc \in SetupSteps10, SetupAbandons, platform_conn' = "null",
         signal' \in {NoWord, REMOTE_SIGNAL_POWER_ON_CMD, REMOTE_SIGNAL_NV_ON_CMD},
         answer' \in {NoWord} \cup Ack, UNCHANGED <<simOn, simNv>>
  PROVE  Inv'
<1>1. Sock!TypeOK /\ Typed /\ ControlInv /\ HandleInv
  BY DEF Inv, Typed, TypeOK
<1>2. /\ Sock!Destroy /\ pc' = "idle" /\ retval' = MU_FAILURE
      /\ UNCHANGED <<comm, cmd, cmdBytes, resp_len, response, failed, reply, peer, peerPos,
                     executed>>
  BY DEF SetupAbandons
<1>3. /\ Sock!TypeOK' /\ op = "idle" /\ handle' \in {"null", "aborted"}
      /\ UNCHANGED <<op, left, result, out>>
  BY <1>1, <1>2, DestroyDoes
<1>4. comm = "null" /\ ~failed
  BY <1>1 DEF HandleInv
<1>5. Typed'
  BY <1>1, <1>2, <1>3 DEF Typed, TypeOK
<1>6. ControlInv' /\ HandleInv'
  BY <1>1, <1>2, <1>3, <1>4 DEF ControlInv, HandleInv, PowerSteps, SubmitSteps7, SetupSteps10,
     SendSteps, ReadSteps
<1> QED BY <1>5, <1>6 DEF Inv

(* A step of power_on_simulator that is not its last leaves the socket of  *)
(* the commands alone.                                                     *)
LEMMA PowerStepKeeps ==
  ASSUME Inv, pc \in {"setup_ack"} \cup PowerSteps, op = "idle", handle = "open", result = OK,
         pc' \in PowerSteps, platform_conn' \in {"open", "lost"},
         signal' \in {NoWord, REMOTE_SIGNAL_POWER_ON_CMD, REMOTE_SIGNAL_NV_ON_CMD},
         answer' \in {NoWord} \cup Ack,
         UNCHANGED <<sockVars, comm, cmd, cmdBytes, resp_len, retval, response, failed, reply,
                     simOn, simNv, peer, peerPos, executed>>
  PROVE  Inv'
<1>1. Sock!TypeOK /\ Typed /\ ControlInv /\ HandleInv
  BY DEF Inv, Typed, TypeOK
<1>2. UNCHANGED <<handle, recv_bytes, buf, op, bytes_len, left, sent_bytes, index, result, out,
                  wire, peerClosed, written, delivered, asked, sendFailed, lost>>
  BY DEF sockVars
<1>3. Sock!TypeOK'
  BY <1>1, <1>2 DEF Sock!TypeOK
<1>4. Typed'
  BY <1>1, <1>2, <1>3 DEF Typed, TypeOK, SetupSteps10, PowerSteps
<1>5. ControlInv' /\ HandleInv'
  BY <1>1, <1>2 DEF ControlInv, HandleInv, PowerSteps, SubmitSteps7, SetupSteps10, SendSteps,
     ReadSteps
<1> QED BY <1>4, <1>5 DEF Inv

(* While power_on_simulator runs, the socket of the commands is open and   *)
(* no call is made on it.                                                  *)
LEMMA PowerIsQuiet ==
  ASSUME Inv, pc \in PowerSteps
  PROVE  /\ op = "idle" /\ handle = "open" /\ result = OK /\ left = << >>
         /\ comm = "null" /\ ~failed /\ platform_conn \in {"open", "lost"}
BY DEF Inv, Typed, TypeOK, Sock!TypeOK, ControlInv, HandleInv, PowerSteps, SetupSteps10, OK,
       MU_FAILURE

(* What has been sent on the platform connection is a word or nothing.     *)
LEMMA PowerTyped ==
  ASSUME Inv
  PROVE  /\ platform_conn \in {"null", "open", "lost"} /\ answer \in {NoWord} \cup Ack
         /\ signal \in {NoWord, REMOTE_SIGNAL_POWER_ON_CMD, REMOTE_SIGNAL_NV_ON_CMD}
BY DEF Inv, Typed, TypeOK

(* The steps of power_on_simulator but the last.                           *)
LEMMA PowerKeeps ==
  ASSUME Inv, PowerConnects \/ PowerSent \/ PowerAcknowledged \/ PowerFails
  PROVE  Inv'
<1>1. CASE PowerConnects
  <2>1. /\ Returned("setup_ack", OK) /\ platform_conn' = "open" /\ pc' = "power_on"
        /\ UNCHANGED <<sockVars, comm, cmd, cmdBytes, resp_len, retval, response, failed, reply,
                       signal, answer, simOn, simNv, peer, peerPos, executed>>
    BY <1>1 DEF PowerConnects
  <2>2. pc = "setup_ack" /\ op = "idle" /\ handle = "open" /\ result = OK
    BY <2>1, StepIsOpen
  <2>3. pc' \in PowerSteps
    BY <2>1 DEF PowerSteps
  <2> QED BY <2>1, <2>2, <2>3, PowerTyped, PowerStepKeeps
<1>2. CASE PowerSent
  <2>1. /\ pc \in PowerSteps /\ pc' \in PowerSteps
        /\ signal' \in {NoWord, REMOTE_SIGNAL_POWER_ON_CMD, REMOTE_SIGNAL_NV_ON_CMD}
        /\ UNCHANGED <<sockVars, comm, cmd, cmdBytes, resp_len, retval, response, failed, reply,
                       platform_conn, answer, simOn, simNv, peer, peerPos, executed>>
    BY <1>2 DEF PowerSent, PowerSends, PowerSteps
  <2> QED BY <2>1, PowerIsQuiet, PowerTyped, PowerStepKeeps
<1>3. CASE PowerAcknowledged
  <2>1. /\ pc \in PowerSteps /\ pc' \in PowerSteps /\ answer' = NoWord
        /\ UNCHANGED <<sockVars, comm, cmd, cmdBytes, resp_len, retval, response, failed, reply,
                       platform_conn, signal, simOn, simNv, peer, peerPos, executed>>
    BY <1>3 DEF PowerAcknowledged, PowerSteps
  <2> QED BY <2>1, PowerIsQuiet, PowerTyped, PowerStepKeeps
<1>4. CASE PowerFails
  <2>1. /\ pc \in SetupSteps10 /\ platform_conn' = "null" /\ answer' = NoWord
        /\ SetupAbandons /\ UNCHANGED <<simOn, simNv>>
    BY <1>4 DEF PowerFails, Returned, SetupSteps10
  <2>2. signal' \in {NoWord, REMOTE_SIGNAL_POWER_ON_CMD, REMOTE_SIGNAL_NV_ON_CMD}
    BY <1>4, PowerTyped DEF PowerFails
  <2> QED BY <2>1, <2>2, AbandonKeeps
<1> QED BY <1>1, <1>2, <1>3, <1>4

(* The end of the setup.                                                   *)
LEMMA SetupEndKeeps == ASSUME Inv, SetupPowers \/ SetupFails PROVE Inv'
<1>1. Sock!TypeOK /\ Typed /\ ControlInv /\ HandleInv
  BY DEF Inv, Typed, TypeOK
<1>2. CASE SetupPowers
  <2>1. /\ pc = "nv_ack" /\ platform_conn' = "null" /\ answer' = NoWord
        /\ comm' = "open" /\ pc' = "idle" /\ retval' = OK
        /\ UNCHANGED <<handle, recv_bytes, buf, op, bytes_len, left, sent_bytes, index, result, out,
                       wire, peerClosed, written, delivered, asked, sendFailed, lost,
                       cmd, cmdBytes, resp_len, response, failed, reply, signal, simOn, simNv,
                       peer, peerPos, executed>>
    BY <1>2 DEF SetupPowers, sockVars
  <2>2. op = "idle" /\ handle = "open"
    BY <2>1, PowerIsQuiet DEF PowerSteps
  <2>3. Sock!TypeOK'
    BY <1>1, <2>1 DEF Sock!TypeOK
  <2>4. Typed'
    BY <1>1, <2>1, <2>3 DEF Typed, TypeOK, OK, MU_FAILURE
  <2>5. ControlInv' /\ HandleInv'
    BY <1>1, <2>1, <2>2 DEF ControlInv, HandleInv, PowerSteps, SubmitSteps7, SetupSteps10,
       SendSteps, ReadSteps
  <2> QED BY <2>4, <2>5 DEF Inv
<1>3. CASE SetupFails
  <2>1. /\ pc \in {"handshake", "version", "server_version", "tpm_info", "setup_ack"}
        /\ SetupAbandons /\ UNCHANGED powerVars
    BY <1>3 DEF SetupFails, Returned
  <2>2. platform_conn' = "null"
    BY <1>1, <2>1 DEF HandleInv, PowerSteps, powerVars
  <2> QED BY <2>1, <2>2, PowerTyped, AbandonKeeps DEF SetupSteps10, powerVars
<1> QED BY <1>2, <1>3

(* tpm_comm_submit_command: the call and its requests.                     *)
LEMMA SubmitCallKeeps ==
  ASSUME Inv, NEW c \in Command, NEW b \in {<<c, c>>, << >>}, SubmitCall(c, b)
  PROVE  Inv'
<1>1. Sock!TypeOK /\ Typed /\ ControlInv /\ HandleInv
  BY DEF Inv, Typed, TypeOK
<1>2. /\ comm = "open" /\ pc = "idle" /\ handle = "open" /\ c = cmd + 1
      /\ cmd' = c /\ cmdBytes' = b /\ resp_len' = RespCapacity
      /\ SocketSend(Word(REMOTE_SEND_COMMAND)) /\ pc' = "send_command"
      /\ UNCHANGED <<comm, retval, response, failed, reply, powerVars, peer, peerPos, executed>>
  BY DEF SubmitCall, simVars
<1>3. c \in Bytes /\ c \in 0..MaxCommand /\ RespCapacity \in 0..RespCapacity
  BY SimAssumption DEF Command, Bytes
<1>4. b \in Seq(Bytes) /\ b \in {<< >>, <<c, c>>}
  <2>1. <<c, c>> \in Seq(Bytes) /\ << >> \in Seq(Bytes)
    BY <1>3
  <2> QED BY <2>1
<1>5. op = "idle"
  BY <1>1, <1>2 DEF ControlInv
<1>6. /\ "send_command" \in SendSteps /\ "send_command" \notin SetupSteps10
      /\ pc \notin PowerSteps
  BY <1>2 DEF SendSteps, SetupSteps10, PowerSteps
<1> QED BY <1>2, <1>3, <1>4, <1>5, <1>6, Messages, SendStepKeeps

(* The steps of a submit keep it.                                          *)
LEMMA SubmitStepKeeps == ASSUME Inv, SubmitSteps PROVE Inv'
<1>1. Sock!TypeOK /\ Typed /\ ControlInv /\ HandleInv
  BY DEF Inv, Typed, TypeOK
<1>2. /\ cmdBytes \in Seq(Bytes) /\ cmdBytes \in {<< >>, <<cmd, cmd>>} /\ cmd \in 0..MaxCommand
      /\ resp_len \in 0..RespCapacity /\ response \in Seq(Bytes)
  BY <1>1 DEF Typed, TypeOK, ControlInv
<1>3. ASSUME NEW p \in SubmitSteps7, NEW m \in Seq(Bytes),
             NEW q \in SendSteps \cap SubmitSteps7, Submit(p, SocketSend(m), q)
      PROVE  Inv'
  <2>1. /\ Returned(p, OK) /\ SocketSend(m) /\ pc' = q
        /\ UNCHANGED <<comm, cmd, cmdBytes, resp_len, retval, response, failed, reply,
                       powerVars, peer, peerPos, executed>>
    BY <1>3 DEF Submit, simVars
  <2>2. pc = p /\ op = "idle" /\ handle = "open"
    BY <2>1, StepIsOpen DEF SubmitSteps7
  <2>3. comm = "open" /\ pc' \notin SetupSteps10 /\ cmd \in Command /\ pc \notin PowerSteps
    BY <1>1, <2>1, <2>2 DEF PowerSteps, HandleInv, ControlInv, SetupSteps10, PowerSteps, SubmitSteps7
  <2> QED BY <1>2, <2>1, <2>2, <2>3, SendStepKeeps
<1>4. CASE Submit("send_command", SocketSend(<< 0 >>), "locality")
  <2>1. "send_command" \in SubmitSteps7 /\ "locality" \in SendSteps \cap SubmitSteps7
    BY DEF SubmitSteps7, SendSteps
  <2> QED BY <1>3, <1>4, <2>1, Messages
<1>5. CASE Submit("locality", SocketSend(Word(Len(cmdBytes))), "length")
  <2>1. "locality" \in SubmitSteps7 /\ "length" \in SendSteps \cap SubmitSteps7
    BY DEF SubmitSteps7, SendSteps
  <2> QED BY <1>2, <1>3, <1>5, <2>1, Messages
<1>6. CASE Submit("length", SocketSend(cmdBytes), "bytes")
  <2>1. "length" \in SubmitSteps7 /\ "bytes" \in SendSteps \cap SubmitSteps7
    BY DEF SubmitSteps7, SendSteps
  <2> QED BY <1>2, <1>3, <1>6, <2>1
<1>7. CASE Submit("bytes", SocketRead(WordLen), "resp_length")
  <2>1. /\ Returned("bytes", OK) /\ SocketRead(WordLen) /\ pc' = "resp_length"
        /\ UNCHANGED <<comm, cmd, cmdBytes, resp_len, retval, response, failed, reply,
                       powerVars, peer, peerPos, executed>>
    BY <1>7 DEF Submit, simVars
  <2>2. pc = "bytes" /\ op = "idle" /\ handle = "open"
    BY <2>1, StepIsOpen
  <2>3. comm = "open" /\ cmd \in Command /\ pc \notin PowerSteps
    BY <1>1, <2>2 DEF PowerSteps, HandleInv, ControlInv, SubmitSteps7
  <2>4. WordLen \in Nat /\ WordLen = ReadSize' /\ pc' \in ReadSteps /\ pc' \notin SetupSteps10
    BY <2>1 DEF ReadSize, WordLen, ReadSteps, SetupSteps10
  <2> QED BY <1>2, <2>1, <2>2, <2>3, <2>4, ReadStepKeeps
<1> QED BY <1>4, <1>5, <1>6, <1>7 DEF SubmitSteps

(* A word that was read is a number.                                       *)
LEMMA WordReadTyped ==
  ASSUME Inv, pc \in ReadSteps \ {"response"}, op = "idle", result = OK
  PROVE  WordRead \in Nat
<1>1. delivered \in Seq(Bytes) /\ Len(delivered) >= WordLen
  <2>1. Len(delivered) >= WordLen
    BY DEF Inv, ControlInv, ReadSize
  <2> QED BY <2>1 DEF Inv, Typed, TypeOK, Sock!TypeOK, Bytes
<1>2. LastRead(WordLen) \in Seq(Bytes) /\ Len(LastRead(WordLen)) = WordLen
  BY <1>1, LastIs DEF WordLen
<1>3. Len(LastRead(WordLen)) >= WordLen
  BY <1>2, SMTT(30) DEF WordLen
<1>4. Value(LastRead(WordLen)) \in Nat
  BY <1>2, <1>3, ValueTyped
<1> QED BY <1>4 DEF WordRead

(* The response and its acknowledgement are read.                          *)
LEMMA SubmitReadsKeep == ASSUME Inv, SubmitReadsResponse \/ SubmitReadsAck PROVE Inv'
<1>1. Sock!TypeOK /\ Typed /\ ControlInv /\ HandleInv
  BY DEF Inv, Typed, TypeOK
<1>2. CASE SubmitReadsResponse
  <2>1. /\ Returned("resp_length", OK) /\ WordRead <= resp_len /\ resp_len' = WordRead
        /\ SocketRead(WordRead) /\ pc' = "response"
        /\ UNCHANGED <<comm, cmd, cmdBytes, retval, response, failed, reply,
                       powerVars, peer, peerPos, executed>>
    BY <1>2 DEF SubmitReadsResponse, simVars
  <2>2. pc = "resp_length" /\ op = "idle" /\ handle = "open" /\ result = OK
    BY <2>1, StepIsOpen
  <2>3. comm = "open" /\ cmd \in Command /\ pc \notin PowerSteps
    BY <1>1, <2>2 DEF PowerSteps, HandleInv, ControlInv, SubmitSteps7
  <2>4. WordRead \in Nat
    BY <2>2, WordReadTyped DEF ReadSteps
  <2>5. WordRead = ReadSize' /\ resp_len' \in 0..RespCapacity /\ response' \in Seq(Bytes)
    BY <1>1, <2>1, <2>4, SimAssumption DEF ReadSize, Typed, TypeOK
  <2>6. pc' \in ReadSteps /\ pc' \notin SetupSteps10
    BY <2>1 DEF ReadSteps, SetupSteps10
  <2> QED BY <2>1, <2>2, <2>3, <2>4, <2>5, <2>6, ReadStepKeeps
<1>3. CASE SubmitReadsAck
  <2>1. /\ Returned("response", OK) /\ response' = LastRead(resp_len)
        /\ SocketRead(WordLen) /\ pc' = "ack"
        /\ UNCHANGED <<comm, cmd, cmdBytes, resp_len, retval, failed, reply,
                       powerVars, peer, peerPos, executed>>
    BY <1>3 DEF SubmitReadsAck, simVars
  <2>2. pc = "response" /\ op = "idle" /\ handle = "open" /\ result = OK
    BY <2>1, StepIsOpen
  <2>3. comm = "open" /\ cmd \in Command /\ pc \notin PowerSteps
    BY <1>1, <2>2 DEF PowerSteps, HandleInv, ControlInv, SubmitSteps7
  <2>4. /\ delivered \in Seq(Bytes) /\ resp_len \in Nat /\ resp_len <= Len(delivered)
        /\ resp_len \in 0..RespCapacity
    BY <1>1, <2>2, SimAssumption DEF Typed, TypeOK, Sock!TypeOK, ControlInv, ReadSize, ReadSteps,
       Bytes
  <2>5. response' \in Seq(Bytes)
    BY <2>1, <2>4, LastIs
  <2>6. WordLen \in Nat /\ WordLen = ReadSize' /\ pc' \in ReadSteps /\ pc' \notin SetupSteps10
    BY <2>1 DEF ReadSize, WordLen, ReadSteps, SetupSteps10
  <2> QED BY <2>1, <2>2, <2>3, <2>4, <2>5, <2>6, ReadStepKeeps
<1> QED BY <1>2, <1>3

(* The owner of a response is a command, or nobody.                        *)
LEMMA OwnerTyped == ASSUME NEW r \in Seq(Bytes) PROVE Owner(r) \in {-1} \cup Command
<1>1. CASE r # << >> /\ \E c \in Command : \A i \in DOMAIN r : r[i] = c
  <2>1. 1 \in DOMAIN r
    <3>1. Len(r) \in Nat /\ Len(r) # 0 /\ DOMAIN r = 1..Len(r)
      BY <1>1, LenProperties, EmptySeq
    <3> QED BY <3>1
  <2> QED BY <1>1, <2>1 DEF Owner
<1>2. CASE ~(r # << >> /\ \E c \in Command : \A i \in DOMAIN r : r[i] = c)
  BY <1>2 DEF Owner
<1> QED BY <1>1, <1>2

(* The end of a submit.                                                    *)
LEMMA SubmitEndKeeps == ASSUME Inv, SubmitOk \/ SubmitFails PROVE Inv'
<1>1. Sock!TypeOK /\ Typed /\ ControlInv /\ HandleInv
  BY DEF Inv, Typed, TypeOK
<1>2. /\ pc \in SubmitSteps7 /\ op = "idle" /\ handle # "aborted" /\ pc' = "idle"
      /\ retval' \in {OK, MU_FAILURE}
      /\ UNCHANGED <<handle, recv_bytes, buf, op, bytes_len, left, sent_bytes, index, result, out,
                     wire, peerClosed, written, delivered, asked, sendFailed, lost,
                     comm, cmd, cmdBytes, resp_len, response, powerVars, peer, peerPos, executed>>
  BY DEF SubmitOk, SubmitFails, Returned, sockVars, simVars, SubmitSteps7
<1>3. reply' \in {-1, 0} \cup Command
  <2>1. CASE SubmitOk
    <3>1. response \in Seq(Bytes) /\ reply' = Owner(response)
      BY <1>1, <2>1 DEF SubmitOk, Typed
    <3> QED BY <3>1, OwnerTyped
  <2>2. CASE SubmitFails
    BY <1>1, <2>2 DEF SubmitFails, Typed, TypeOK
  <2> QED BY <2>1, <2>2
<1>4. failed' \in BOOLEAN
  <2>1. failed' = TRUE \/ failed' = failed
    BY DEF SubmitOk, SubmitFails
  <2> QED BY <1>1, <2>1, Zenon DEF Typed, TypeOK, powerVars
<1>5. Sock!TypeOK'
  BY <1>1, <1>2 DEF Sock!TypeOK
<1>6. Typed'
  BY <1>1, <1>2, <1>3, <1>4, <1>5 DEF Typed, TypeOK, powerVars
<1>7. ControlInv' /\ HandleInv'
  BY <1>1, <1>2 DEF ControlInv, HandleInv, powerVars, PowerSteps, SubmitSteps7,
       SetupSteps10, SendSteps, ReadSteps
<1> QED BY <1>6, <1>7 DEF Inv

(* tpm_comm_destroy.                                                       *)
LEMMA DestroyKeeps == ASSUME Inv, DestroyCall \/ DestroyCloses PROVE Inv'
<1>1. Sock!TypeOK /\ Typed /\ ControlInv /\ HandleInv
  BY DEF Inv, Typed, TypeOK
<1>2. CASE DestroyCall
  <2>1. /\ comm = "open" /\ pc = "idle" /\ handle = "open"
        /\ SocketSend(Word(REMOTE_SESSION_END_CMD)) /\ pc' = "session_end"
        /\ UNCHANGED <<comm, cmd, cmdBytes, resp_len, retval, response, failed, reply,
                       powerVars, peer, peerPos, executed>>
    BY <1>2 DEF DestroyCall, simVars
  <2>2. op = "idle"
    BY <1>1, <2>1 DEF ControlInv
  <2>3. /\ cmdBytes \in Seq(Bytes) /\ cmdBytes \in {<< >>, <<cmd, cmd>>} /\ cmd \in 0..MaxCommand
        /\ resp_len \in 0..RespCapacity
    BY <1>1 DEF Typed, TypeOK, ControlInv
  <2>4. /\ "session_end" \in SendSteps /\ "session_end" \notin SetupSteps10 \cup SubmitSteps7
        /\ pc \notin PowerSteps
    BY <2>1 DEF PowerSteps, SendSteps, SetupSteps10, SubmitSteps7
  <2> QED BY <2>1, <2>2, <2>3, <2>4, Messages, SendStepKeeps
<1>3. CASE DestroyCloses
  <2>1. /\ pc = "session_end" /\ Sock!Destroy /\ comm' = "null" /\ pc' = "idle"
        /\ UNCHANGED <<cmd, cmdBytes, resp_len, retval, response, failed, reply,
                       powerVars, peer, peerPos, executed>>
    BY <1>3 DEF DestroyCloses, Returned, simVars
  <2>2. /\ Sock!TypeOK' /\ op = "idle" /\ handle' \in {"null", "aborted"}
        /\ UNCHANGED <<op, left, result, out>>
    BY <1>1, <2>1, DestroyDoes
  <2>3. Typed'
    BY <1>1, <2>1, <2>2 DEF Typed, TypeOK, powerVars
  <2>4. ControlInv' /\ HandleInv'
    BY <1>1, <2>1, <2>2 DEF ControlInv, HandleInv, powerVars, PowerSteps, SubmitSteps7,
       SetupSteps10, SendSteps, ReadSteps
  <2> QED BY <2>3, <2>4 DEF Inv
<1> QED BY <1>2, <1>3
-----------------------------------------------------------------------------
(***************************************************************************)
(* What the simulator finds on the connection.                             *)
(***************************************************************************)
(* A word that holds a byte has zeros in front of it, and one that has     *)
(* something in front of its last byte is larger than a byte.              *)
LEMMA SmallWord ==
  ASSUME NEW a \in Nat, NEW b \in Nat, NEW c \in Nat, NEW d \in Nat
  PROVE  /\ Value(<<a, b, c, d>>) \in Nat
         /\ Value(<<a, b, c, d>>) < 256 => a = 0 /\ b = 0 /\ c = 0 /\ Value(<<a, b, c, d>>) = d
         /\ a # 0 => Value(<<a, b, c, d>>) > 100000
         /\ a = 0 /\ b = 0 /\ c = 0 => Value(<<a, b, c, d>>) = d
BY SMT DEF Value

(* What the simulator has received and not consumed.                       *)
LEMMA PendingIs ==
  ASSUME Typed
  PROVE  /\ Pending \in Seq(Bytes) /\ Len(Pending) = Len(out) - peerPos
         /\ Len(out) \in Nat /\ peerPos \in Nat /\ peerPos <= Len(out)
         /\ \A i \in 1..Len(Pending) : Pending[i] = out[peerPos + i] /\ Pending[i] \in Bytes
<1>1. out \in Seq(Bytes) /\ peerPos \in 0..Len(out) /\ Len(out) \in Nat
  <2>1. out \in Seq(Bytes) /\ peerPos \in 0..Len(out)
    BY DEF Typed, TypeOK, Sock!TypeOK, Bytes
  <2> QED BY <2>1, LenProperties
<1>2. peerPos \in Nat /\ peerPos <= Len(out) /\ peerPos + 1 \in Nat \ {0}
      /\ Len(out) - (peerPos + 1) + 1 = Len(out) - peerPos
  BY <1>1
<1> DEFINE k == peerPos + 1
           P == SubSeq(out, k, Len(out))
<1>3. Pending = P
  BY DEF Pending
<1>4. /\ P \in Seq(Bytes) /\ Len(P) = IF k <= Len(out) THEN Len(out) - k + 1 ELSE 0
      /\ \A i \in 1..Len(out) - k + 1 : P[i] = out[k + i - 1]
  <2>1. k \in Nat \ {0}
    BY <1>2
  <2> HIDE DEF k
  <2> QED BY <1>1, <2>1, PartIs
<1> HIDE DEF P
<1>5. Len(P) = Len(out) - peerPos
  <2>1. CASE k <= Len(out)
    BY <1>1, <1>2, <1>4, <2>1
  <2>2. CASE ~(k <= Len(out))
    <3>1. Len(P) = 0
      <4> HIDE DEF k
      <4> QED BY <1>4, <2>2, Zenon
    <3>2. \A n \in Nat : peerPos \in Nat /\ peerPos <= n /\ ~(peerPos + 1 <= n) => n - peerPos = 0
      OBVIOUS
    <3>3. ~(peerPos + 1 <= Len(out))
      BY <2>2
    <3> QED BY <3>1, <3>2, <3>3, <1>1, <1>2
  <2> QED BY <2>1, <2>2
<1>6. ASSUME NEW i \in 1..Len(P) PROVE P[i] = out[peerPos + i] /\ P[i] \in Bytes
  <2>1. i \in 1..Len(out) - k + 1 /\ k + i - 1 = peerPos + i
    BY <1>1, <1>2, <1>5
  <2>2. P[i] = out[peerPos + i]
    BY <1>4, <2>1
  <2>3. P[i] \in Bytes
    BY <1>4, LenProperties
  <2> QED BY <2>2, <2>3
<1> QED BY <1>1, <1>2, <1>3, <1>4, <1>5, <1>6

(* A word of a request, from the bytes that were sent.                     *)
LEMMA PendingWordIs ==
  ASSUME Typed, NEW i \in Nat \ {0}, i + 3 <= Len(Pending)
  PROVE  /\ PendingWord(i) = Value(<<Pending[i], Pending[i + 1], Pending[i + 2], Pending[i + 3]>>)
         /\ Pending[i] \in Nat /\ Pending[i + 1] \in Nat /\ Pending[i + 2] \in Nat
         /\ Pending[i + 3] \in Nat
         /\ PendingWord(i) \in Nat
<1>1. /\ Pending \in Seq(Bytes) /\ Len(Pending) \in Nat
      /\ \A j \in 1..Len(Pending) : Pending[j] \in Bytes
  BY PendingIs, LenProperties
<1>2. \A j \in 1..Len(Pending) : Pending[j] \in Nat
  <2>1. \A b \in Bytes : b \in Nat
    BY DEF Bytes
  <2> QED BY <1>1, <2>1
<1>3. Pending[i] \in Nat /\ Pending[i + 1] \in Nat /\ Pending[i + 2] \in Nat
      /\ Pending[i + 3] \in Nat
  <2>1. i \in 1..Len(Pending) /\ i + 1 \in 1..Len(Pending) /\ i + 2 \in 1..Len(Pending)
        /\ i + 3 \in 1..Len(Pending)
    BY <1>1
  <2> QED BY <1>2, <2>1
<1> DEFINE w == SubSeq(Pending, i, i + 3)
<1>4. w[1] = Pending[i] /\ w[2] = Pending[i + 1] /\ w[3] = Pending[i + 2] /\ w[4] = Pending[i + 3]
  <2>1. \A j \in 1..i + 3 - i + 1 : w[j] = Pending[i + j - 1]
    <3>1. i + 3 \in Nat /\ i + 3 <= Len(Pending)
      OBVIOUS
    <3> QED BY <1>1, <3>1, PartIs
  <2>2. i + 3 - i + 1 = 4 /\ i + 1 - 1 = i /\ i + 2 - 1 = i + 1 /\ i + 3 - 1 = i + 2
        /\ i + 4 - 1 = i + 3
    OBVIOUS
  <2> HIDE DEF w
  <2>3. \A j \in 1..4 : w[j] = Pending[i + j - 1]
    BY <2>1, <2>2
  <2>4. w[1] = Pending[i + 1 - 1] /\ w[2] = Pending[i + 2 - 1] /\ w[3] = Pending[i + 3 - 1]
        /\ w[4] = Pending[i + 4 - 1]
    BY <2>3
  <2> QED BY <2>2, <2>4
<1>5. PendingWord(i) = Value(w)
  <2>1. i + WordLen - 1 = i + 3
    BY DEF WordLen
  <2> QED BY <2>1 DEF PendingWord
<1> HIDE DEF w
<1>6. Value(w) = Value(<<w[1], w[2], w[3], w[4]>>)
  BY SMT DEF Value
<1>7. PendingWord(i) = Value(<<Pending[i], Pending[i + 1], Pending[i + 2], Pending[i + 3]>>)
  BY <1>4, <1>5, <1>6, Zenon
<1> QED BY <1>3, <1>7, SmallWord, SMTT(30)

(* A complete command: where it starts, how long it is, and what it holds. *)
LEMMA CommandIs ==
  ASSUME Typed, CommandReady
  PROVE  /\ CommandLen \in Nat /\ CommandEnd = 9 + CommandLen /\ 9 + CommandLen <= Len(Pending)
         /\ Pending[1] = 0 /\ Pending[2] = 0 /\ Pending[3] = 0 /\ Pending[4] = 8
         /\ CommandLen = Value(<<Pending[6], Pending[7], Pending[8], Pending[9]>>)
         /\ Pending[6] \in Nat /\ Pending[7] \in Nat /\ Pending[8] \in Nat /\ Pending[9] \in Nat
         /\ 2 * WordLen + 2 = 10
         /\ CommandLen # 0 => Pending[10] \in Bytes
<1>1. 2 * WordLen + 1 = 9 /\ WordLen + 2 = 6 /\ 2 * WordLen + 2 = 10
  BY DEF WordLen
<1>2. /\ Len(Pending) >= 9 /\ Len(Pending) \in Nat /\ PendingWord(1) = 8
      /\ Len(Pending) >= CommandEnd
  <2>1. Len(Pending) \in Nat
    BY PendingIs, LenProperties
  <2> QED BY <1>1, <2>1 DEF CommandReady, Request, REMOTE_SEND_COMMAND
<1>3. /\ PendingWord(6) = Value(<<Pending[6], Pending[7], Pending[8], Pending[9]>>)
      /\ PendingWord(6) \in Nat
      /\ Pending[6] \in Nat /\ Pending[7] \in Nat /\ Pending[8] \in Nat /\ Pending[9] \in Nat
  <2>1. 6 \in Nat \ {0} /\ 6 + 3 <= Len(Pending) /\ 6 + 1 = 7 /\ 6 + 2 = 8 /\ 6 + 3 = 9
    BY <1>2
  <2>2. /\ PendingWord(6)
            = Value(<<Pending[6], Pending[6 + 1], Pending[6 + 2], Pending[6 + 3]>>)
        /\ Pending[6] \in Nat /\ Pending[6 + 1] \in Nat /\ Pending[6 + 2] \in Nat
        /\ Pending[6 + 3] \in Nat
        /\ PendingWord(6) \in Nat
    BY <2>1, PendingWordIs
  <2> QED BY <2>1, <2>2
<1>4. CommandLen = PendingWord(6) /\ CommandEnd = 9 + CommandLen
  BY <1>1, Zenon DEF CommandLen, CommandEnd
<1>5. Pending[1] = 0 /\ Pending[2] = 0 /\ Pending[3] = 0 /\ Pending[4] = 8
  <2>1. 1 \in Nat \ {0} /\ 1 + 3 <= Len(Pending) /\ 1 + 1 = 2 /\ 1 + 2 = 3 /\ 1 + 3 = 4
    BY <1>2
  <2>2. /\ PendingWord(1)
            = Value(<<Pending[1], Pending[1 + 1], Pending[1 + 2], Pending[1 + 3]>>)
        /\ Pending[1] \in Nat /\ Pending[1 + 1] \in Nat /\ Pending[1 + 2] \in Nat
        /\ Pending[1 + 3] \in Nat
    BY <2>1, PendingWordIs
  <2>3. /\ 8 = Value(<<Pending[1], Pending[2], Pending[3], Pending[4]>>)
        /\ Pending[1] \in Nat /\ Pending[2] \in Nat /\ Pending[3] \in Nat /\ Pending[4] \in Nat
    BY <1>2, <2>1, <2>2
  <2>4. Value(<<Pending[1], Pending[2], Pending[3], Pending[4]>>) < 256
    BY <2>3
  <2> QED BY <2>3, <2>4, SmallWord
<1>6. CommandLen # 0 => Pending[10] \in Bytes
  <2>1. CommandLen # 0 => 10 \in 1..Len(Pending)
    BY <1>2, <1>3, <1>4
  <2> QED BY <2>1, PendingIs
<1> QED BY <1>1, <1>2, <1>3, <1>4, <1>5, <1>6

(* A complete handshake.                                                   *)
LEMMA HandshakeIs ==
  ASSUME Typed, HandshakeReady
  PROVE  /\ 8 <= Len(Pending) /\ 2 * WordLen = 8
         /\ Pending[1] = 0 /\ Pending[2] = 0 /\ Pending[3] = 0 /\ Pending[4] = 15
<1>1. 2 * WordLen = 8
  BY DEF WordLen
<1>2. Len(Pending) >= 8 /\ Len(Pending) \in Nat /\ PendingWord(1) = 15
  <2>1. Len(Pending) \in Nat
    BY PendingIs, LenProperties
  <2> QED BY <1>1, <2>1 DEF HandshakeReady, Request, REMOTE_HANDSHAKE_CMD
<1>3. 1 \in Nat \ {0} /\ 1 + 3 <= Len(Pending) /\ 1 + 1 = 2 /\ 1 + 2 = 3 /\ 1 + 3 = 4
  BY <1>2
<1>4. /\ PendingWord(1)
          = Value(<<Pending[1], Pending[1 + 1], Pending[1 + 2], Pending[1 + 3]>>)
      /\ Pending[1] \in Nat /\ Pending[1 + 1] \in Nat /\ Pending[1 + 2] \in Nat
      /\ Pending[1 + 3] \in Nat
  BY <1>3, PendingWordIs
<1>5. /\ 15 = Value(<<Pending[1], Pending[2], Pending[3], Pending[4]>>)
      /\ Pending[1] \in Nat /\ Pending[2] \in Nat /\ Pending[3] \in Nat /\ Pending[4] \in Nat
  BY <1>2, <1>3, <1>4
<1>6. Value(<<Pending[1], Pending[2], Pending[3], Pending[4]>>) < 256
  BY <1>5
<1> QED BY <1>1, <1>2, <1>5, <1>6, SmallWord, SMTT(30)
-----------------------------------------------------------------------------
(* What the simulator says is a byte string.                               *)
LEMMA AnswersTyped ==
  /\ \A v \in ServerVersion, a \in Ack : Word(v) \o Word(TpmInfo) \o Word(a) \in Seq(Bytes)
  /\ \A n \in RespSize, a \in Ack, c \in Bytes :
       Word(n) \o [i \in 1..n |-> c] \o Word(a) \in Seq(Bytes)
<1>1. \A n \in Nat : Word(n) \in Seq(Bytes)
  BY WordIs
<1>2. ASSUME NEW v \in ServerVersion, NEW a \in Ack
      PROVE  Word(v) \o Word(TpmInfo) \o Word(a) \in Seq(Bytes)
  <2>1. Word(v) \in Seq(Bytes) /\ Word(TpmInfo) \in Seq(Bytes) /\ Word(a) \in Seq(Bytes)
    BY <1>1, SimAssumption DEF TpmInfo
  <2>2. Word(v) \o Word(TpmInfo) \in Seq(Bytes)
    BY <2>1, JoinIs
  <2> QED BY <2>1, <2>2, JoinIs
<1>3. ASSUME NEW n \in RespSize, NEW a \in Ack, NEW c \in Bytes
      PROVE  Word(n) \o [i \in 1..n |-> c] \o Word(a) \in Seq(Bytes)
  <2>1. n \in Nat /\ Word(n) \in Seq(Bytes) /\ Word(a) \in Seq(Bytes)
    BY <1>1, SimAssumption
  <2>2. [i \in 1..n |-> c] \in Seq(Bytes)
    BY <2>1
  <2>3. Word(n) \o [i \in 1..n |-> c] \in Seq(Bytes)
    BY <2>1, <2>2, JoinIs
  <2> QED BY <2>1, <2>3, JoinIs
<1> QED BY <1>2, <1>3

(* A signal is taken, or the simulator crashes: the host and its streams   *)
(* stay as they are.                                                       *)
LEMMA PowerLossDoes ==
  ASSUME Inv, SimSignal \/ SimCrashes
  PROVE  /\ Sock!TypeOK' /\ peer' \in {"down", peer}
         /\ UNCHANGED <<handle, op, bytes_len, result, recv_bytes, wire, out, left, delivered,
                        comm, pc, cmd, cmdBytes, resp_len, retval, response, failed, reply,
                        peerPos, executed>>
<1>1. Sock!TypeOK
  BY DEF Inv, Typed, TypeOK
<1>2. CASE SimSignal \/ (SimCrashes /\ UNCHANGED <<sockVars, peer>>)
  <2>1. UNCHANGED <<sockVars, hostVars, peer, peerPos, executed>>
    BY <1>2 DEF SimSignal, SimCrashes
  <2>2. UNCHANGED <<handle, recv_bytes, buf, op, bytes_len, left, sent_bytes, index, result, out,
                    wire, peerClosed, written, delivered, asked, sendFailed, lost>>
    BY <2>1 DEF sockVars
  <2>3. Sock!TypeOK'
    BY <1>1, <2>2 DEF Sock!TypeOK
  <2> QED BY <2>1, <2>2, <2>3 DEF hostVars
<1>3. CASE SimCrashes /\ SessionEnds
  <2>1. UNCHANGED <<hostVars, peerPos, executed>>
    BY <1>3 DEF SimCrashes
  <2> QED BY <1>1, <1>3, <2>1, SessionEndsDoes DEF hostVars
<1> QED BY <1>2, <1>3 DEF SimCrashes

(* A step of the simulator leaves the host as it is, apart from what it    *)
(* has to read.                                                            *)
LEMMA SimulatorKeeps == ASSUME Inv, Simulator PROVE Inv'
<1>1. Sock!TypeOK /\ Typed /\ ControlInv /\ HandleInv
  BY DEF Inv, Typed, TypeOK
<1> DEFINE quiet ==
      /\ Sock!TypeOK'
      /\ UNCHANGED <<handle, op, bytes_len, result, out, left, delivered,
                     comm, pc, cmd, cmdBytes, resp_len, retval, response, failed, reply>>
      powered ==
      /\ simOn' \in BOOLEAN /\ simNv' \in BOOLEAN
      /\ platform_conn' \in {"null", "open", "lost"}
      /\ platform_conn' # "null" <=> platform_conn # "null"
      /\ signal' \in {NoWord, REMOTE_SIGNAL_POWER_ON_CMD, REMOTE_SIGNAL_NV_ON_CMD}
      /\ answer' \in {NoWord} \cup Ack
<1>2. ASSUME quiet, powered, executed' \in Seq(Nat), peer' \in {"down", "up"}, peerPos' \in 0..Len(out)
      PROVE  Inv'
  <2>1. Typed'
    BY <1>1, <1>2 DEF Typed, TypeOK
  <2>2. ControlInv' /\ HandleInv'
    BY <1>1, <1>2 DEF ControlInv, HandleInv, ReadSize
  <2> QED BY <2>1, <2>2 DEF Inv
<1>3. /\ executed \in Seq(Nat) /\ peer \in {"down", "up"} /\ peerPos \in 0..Len(out)
      /\ Len(out) \in Nat
  BY <1>1, PendingIs DEF Typed, TypeOK, powerVars
<1>7. UNCHANGED powerVars => powered
  BY <1>1 DEF Typed, TypeOK, powerVars
<1>4. CASE SimHandshake
  <2>1. PICK v \in ServerVersion, a \in Ack : PeerSays(Word(v) \o Word(TpmInfo) \o Word(a))
    BY <1>4 DEF SimHandshake
  <2>2. HandshakeReady /\ peerPos' = peerPos + 2 * WordLen
        /\ UNCHANGED <<comm, pc, cmd, cmdBytes, resp_len, retval, response, failed, reply,
                       powerVars, peer, executed>>
    BY <1>4 DEF SimHandshake, hostVars
  <2>3. Word(v) \o Word(TpmInfo) \o Word(a) \in Seq(Bytes)
    BY AnswersTyped
  <2>4. quiet
    BY <1>1, <2>1, <2>2, <2>3, PeerSaysDoes
  <2>5. peerPos' \in 0..Len(out)
    BY <1>1, <1>3, <2>2, HandshakeIs, PendingIs
  <2> QED BY <1>2, <1>3, <1>7, <2>2, <2>4, <2>5
<1>5. ASSUME NEW n \in RespSize, SimCommand(n) PROVE Inv'
  <2>1. PICK c \in Bytes :
          /\ c = IF CommandLen = 0 THEN 0 ELSE Pending[2 * WordLen + 2]
          /\ executed' = IF c = 0 THEN executed ELSE Append(executed, c)
          /\ \E a \in Ack : PeerSays(Word(n) \o [i \in 1..n |-> c] \o Word(a))
    <3>1. CommandReady
      BY <1>5 DEF SimCommand
    <3> DEFINE d == IF CommandLen = 0 THEN 0 ELSE Pending[2 * WordLen + 2]
    <3>2. 0 \in Bytes
      BY DEF Bytes
    <3>3. d \in Bytes
      <4>1. 2 * WordLen + 2 = 10 /\ (CommandLen # 0 => Pending[10] \in Bytes)
        BY <1>1, <3>1, CommandIs
      <4>2. CommandLen # 0 => Pending[2 * WordLen + 2] \in Bytes
        BY <4>1, Zenon
      <4> QED BY <3>2, <4>2, Zenon
    <3>4. /\ executed' = IF d = 0 THEN executed ELSE Append(executed, d)
          /\ \E a \in Ack : PeerSays(Word(n) \o [i \in 1..n |-> d] \o Word(a))
      BY <1>5, Zenon DEF SimCommand
    <3> HIDE DEF d
    <3> QED BY <3>3, <3>4, Zenon DEF d
  <2>2. PICK a \in Ack : PeerSays(Word(n) \o [i \in 1..n |-> c] \o Word(a))
    BY <2>1
  <2>3. CommandReady /\ peerPos' = peerPos + CommandEnd
        /\ UNCHANGED <<comm, pc, cmd, cmdBytes, resp_len, retval, response, failed, reply,
                       powerVars, peer>>
    BY <1>5 DEF SimCommand, hostVars
  <2>4. Word(n) \o [i \in 1..n |-> c] \o Word(a) \in Seq(Bytes)
    BY AnswersTyped
  <2>5. quiet
    BY <1>1, <2>2, <2>3, <2>4, PeerSaysDoes
  <2>6. peerPos' \in 0..Len(out)
    <3>1. CommandLen \in Nat /\ CommandEnd = 9 + CommandLen /\ 9 + CommandLen <= Len(Pending)
          /\ Len(Pending) = Len(out) - peerPos
      BY <1>1, <2>3, CommandIs, PendingIs
    <3> QED BY <1>3, <2>3, <3>1
  <2>7. executed' \in Seq(Nat)
    <3>1. c \in Nat /\ executed \in Seq(Nat)
      BY <1>3 DEF Bytes
    <3>2. Append(executed, c) \in Seq(Nat)
      BY <3>1, AppendProperties
    <3> QED BY <2>1, <3>1, <3>2
  <2> QED BY <1>2, <1>3, <1>7, <2>3, <2>5, <2>6, <2>7
<1>6. CASE SimHangsUp
  BY <1>1, <1>2, <1>3, <1>6, <1>7, HangUpDoes
<1>8. CASE SimSignal \/ SimCrashes
  <2>1. quiet /\ UNCHANGED <<peerPos, executed>> /\ peer' \in {"down", peer}
    BY <1>8, PowerLossDoes
  <2>2. powered
    <3>1. /\ simOn \in BOOLEAN /\ simNv \in BOOLEAN /\ answer \in {NoWord} \cup Ack
          /\ platform_conn \in {"null", "open", "lost"}
      BY <1>1 DEF Typed, TypeOK
    <3>2. CASE SimSignal
      <4>1. simOn' \in BOOLEAN /\ simNv' \in BOOLEAN
        BY <3>1, <3>2, Zenon DEF SimSignal
      <4> QED BY <3>1, <3>2, <4>1 DEF SimSignal
    <3>3. CASE SimCrashes
      BY <3>1, <3>3 DEF SimCrashes
    <3> QED BY <1>8, <3>2, <3>3
  <2> QED BY <1>2, <1>3, <2>1, <2>2
<1> QED BY <1>4, <1>5, <1>6, <1>8 DEF Simulator

(* The actions of the program and of the simulator, told apart.            *)
LEMMA Actions ==
  ASSUME Next
  PROVE  \/ Socket \/ Create \/ SetupSteps \/ SetupPowers \/ SetupFails
         \/ PowerConnects \/ PowerSent \/ PowerAcknowledged \/ PowerFails
         \/ \E c \in Command : \E b \in {<<c, c>>, << >>} : SubmitCall(c, b)
         \/ SubmitSteps \/ SubmitReadsResponse \/ SubmitReadsAck \/ SubmitOk \/ SubmitFails
         \/ DestroyCall \/ DestroyCloses \/ Simulator
BY DEF Next, Caller, Host, Setups, PowerOnSimulator, Submits

(* A step that changes nothing keeps it.                                   *)
LEMMA StutterKeeps == ASSUME Inv, UNCHANGED vars PROVE Inv'
<1>1. Sock!TypeOK' /\ Typed'
  BY DEF Inv, Typed, TypeOK, Sock!TypeOK, vars, sockVars, hostVars, simVars, powerVars
<1>2. ControlInv' /\ HandleInv'
  BY DEF Inv, ControlInv, HandleInv, PowerSteps, ReadSize, vars, sockVars, hostVars,
         simVars, powerVars
<1> QED BY <1>1, <1>2 DEF Inv

(* The invariant holds in every reachable state.                           *)
LEMMA InvHolds == Spec => []Inv
<1>1. Inv /\ [Next]_vars => Inv'
  <2> SUFFICES ASSUME Inv, [Next]_vars PROVE Inv'
    OBVIOUS
  <2>1. CASE Next
    BY <2>1, Actions, SocketKeeps, CreateKeeps, SetupStepKeeps, PowerKeeps, SetupEndKeeps,
       SubmitCallKeeps,
       SubmitStepKeeps, SubmitReadsKeep, SubmitEndKeeps, DestroyKeeps, SimulatorKeeps
  <2> QED BY <2>1, StutterKeeps
<1> QED BY <1>1, InitInv, PTL DEF Spec

(* Every step of the transport, its socket and the simulator keeps every   *)
(* variable in its type; in particular *resp_len never exceeds the         *)
(* caller's buffer, whatever length the simulator announces.               *)
THEOREM Typing == Spec => []TypeOK
<1>1. Inv => TypeOK
  BY DEF Inv, Typed
<1> QED BY <1>1, InvHolds, PTL

(* tpm_comm_create and tpm_comm_destroy take the socket with the handle,   *)
(* on every path through execute_simulator_setup.                          *)
THEOREM SocketFollowsHandle == Spec => []NoOrphanSocket
<1>1. Inv => NoOrphanSocket
  BY DEF Inv, Typed, TypeOK, Sock!TypeOK, HandleInv, PowerSteps, NoOrphanSocket
<1> QED BY <1>1, InvHolds, PTL

-----------------------------------------------------------------------------
(***************************************************************************)
(* The power of the simulator.                                             *)
(***************************************************************************)
(* What a step of power_on_simulator may rely on as long as the session is *)
(* still there: an acknowledgement of 0 is that of the request just sent,  *)
(* which the simulator has obeyed, and it has not crashed since.           *)
PowerInv ==
  /\ pc \in {"power_on", "nv_on"} => signal = NoWord /\ answer = NoWord
  /\ pc = "power_ack" => signal \in {NoWord, REMOTE_SIGNAL_POWER_ON_CMD}
  /\ pc = "nv_ack" => signal \in {NoWord, REMOTE_SIGNAL_NV_ON_CMD}
  /\ answer # NoWord => pc \in {"power_ack", "nv_ack"} /\ signal = NoWord
  /\ peer = "up" =>
       /\ pc = "power_ack" /\ answer = 0 => simOn
       /\ pc \in {"nv_on", "nv_ack"} => simOn
       /\ pc = "nv_ack" /\ answer = 0 => simNv
       /\ comm = "open" => simOn /\ simNv

(* Steps that touch neither the platform connection nor the power, and     *)
(* enter none of the steps of power_on_simulator.                          *)
LEMMA ElsewhereKeepsPower ==
  ASSUME Inv, PowerInv, UNCHANGED powerVars, pc' \notin PowerSteps \/ pc' = pc,
         pc' # pc => pc \notin PowerSteps, comm' \in {comm, "null"},
         peer' \in {peer, "down"} \/ (comm = "null" /\ pc' = "connect")
  PROVE  PowerInv'
BY DEF Inv, Typed, TypeOK, HandleInv, PowerInv, PowerSteps, powerVars

(* Every step of the host but those of power_on_simulator.                 *)
LEMMA HostKeepsPower ==
  ASSUME Inv, PowerInv,
         \/ Socket \/ Create \/ SetupSteps \/ SetupFails
         \/ \E c \in Command : \E b \in {<<c, c>>, << >>} : SubmitCall(c, b)
         \/ SubmitSteps \/ SubmitReadsResponse \/ SubmitReadsAck \/ SubmitOk \/ SubmitFails
         \/ DestroyCall \/ DestroyCloses
  PROVE  PowerInv'
<1>1. ASSUME UNCHANGED <<powerVars, peer>>, comm' \in {comm, "null"}, pc \notin PowerSteps,
             pc' \notin PowerSteps
      PROVE  PowerInv'
  BY <1>1, ElsewhereKeepsPower
<1>2. CASE Socket
  <2>1. UNCHANGED <<powerVars, peer, comm, pc>>
    BY <1>2 DEF Socket, hostVars, simVars
  <2> QED BY <2>1, ElsewhereKeepsPower
<1>3. CASE Create
  <2>1. comm = "null" /\ pc = "idle" /\ UNCHANGED <<powerVars, comm>>
    BY <1>3 DEF Create, CreateConnects, CreateNoSocket, simVars
  <2>2. CASE CreateConnects
    <3>1. pc' = "connect"
      BY <2>2 DEF CreateConnects
    <3> QED BY <2>1, <3>1, ElsewhereKeepsPower DEF PowerSteps
  <2>3. CASE CreateNoSocket
    <3>1. UNCHANGED <<pc, peer>>
      BY <2>3 DEF CreateNoSocket, simVars
    <3> QED BY <2>1, <3>1, ElsewhereKeepsPower
  <2> QED BY <1>3, <2>2, <2>3 DEF Create
<1>4. CASE SetupSteps
  BY <1>1, <1>4 DEF SetupSteps, Setup, Returned, simVars, PowerSteps
<1>5. CASE SetupFails
  BY <1>1, <1>5 DEF SetupFails, SetupAbandons, Returned, PowerSteps
<1>6. CASE \E c \in Command : \E b \in {<<c, c>>, << >>} : SubmitCall(c, b)
  BY <1>1, <1>6 DEF SubmitCall, simVars, PowerSteps
<1>7. CASE SubmitSteps \/ SubmitReadsResponse \/ SubmitReadsAck
  BY <1>1, <1>7 DEF SubmitSteps, Submit, SubmitReadsResponse, SubmitReadsAck, Returned, simVars,
     PowerSteps
<1>8. CASE SubmitOk \/ SubmitFails
  BY <1>1, <1>8 DEF SubmitOk, SubmitFails, Returned, simVars, PowerSteps
<1>9. CASE DestroyCall \/ DestroyCloses
  BY <1>1, <1>9 DEF DestroyCall, DestroyCloses, Returned, simVars, PowerSteps
<1> QED BY <1>2, <1>3, <1>4, <1>5, <1>6, <1>7, <1>8, <1>9

(* The steps of power_on_simulator.                                        *)
LEMMA PowerOnKeepsPower == ASSUME Inv, PowerInv, PowerOnSimulator PROVE PowerInv'
<1>1. CASE PowerConnects
  BY <1>1 DEF PowerConnects, Returned, PowerInv
<1>2. CASE PowerSent
  <2>1. platform_conn \in {"open", "lost"}
    BY <1>2, PowerIsQuiet DEF PowerSent, PowerSends, PowerSteps
  <2> QED BY <1>2, <2>1 DEF PowerSent, PowerSends, PowerInv, NoWord
<1>3. CASE PowerAcknowledged
  BY <1>3 DEF PowerAcknowledged, PowerInv, NoWord
<1>4. CASE SetupPowers
  BY <1>4 DEF SetupPowers, PowerInv, NoWord
<1>5. CASE PowerFails
  <2>1. pc' = "idle" /\ answer' = NoWord /\ UNCHANGED <<simOn, simNv, peer, comm>>
    BY <1>5 DEF PowerFails, SetupAbandons
  <2> QED BY <2>1 DEF PowerInv
<1> QED BY <1>1, <1>2, <1>3, <1>4, <1>5 DEF PowerOnSimulator

(* The steps of the simulator.                                             *)
LEMMA SimulatorKeepsPower == ASSUME Inv, PowerInv, Simulator PROVE PowerInv'
<1>1. CASE SimHandshake \/ \E n \in RespSize : SimCommand(n)
  <2>1. UNCHANGED <<powerVars, peer, comm, pc>>
    BY <1>1 DEF SimHandshake, SimCommand, hostVars
  <2> QED BY <2>1, ElsewhereKeepsPower
<1>2. CASE SimHangsUp
  <2>1. peer' = "down" /\ UNCHANGED <<powerVars, comm, pc>>
    BY <1>2 DEF SimHangsUp, SessionEnds, hostVars
  <2> QED BY <2>1, ElsewhereKeepsPower
<1>3. CASE SimSignal
  <2>1. PICK a \in Ack, obeys \in BOOLEAN :
          /\ a = 0 => obeys
          /\ simOn' = (simOn \/ (obeys /\ signal = REMOTE_SIGNAL_POWER_ON_CMD))
          /\ simNv' = (simNv \/ (obeys /\ signal = REMOTE_SIGNAL_NV_ON_CMD))
          /\ answer' = IF platform_conn = "open" THEN a ELSE answer
    BY <1>3 DEF SimSignal
  <2>2. /\ signal # NoWord /\ signal' = NoWord
        /\ UNCHANGED <<comm, pc, platform_conn, peer>>
    BY <1>3 DEF SimSignal, hostVars
  <2>3. answer = NoWord
    BY <2>2 DEF PowerInv
  <2>4. platform_conn = "open" => pc \in {"power_ack", "nv_ack"}
    BY <2>2 DEF Inv, HandleInv, PowerInv, PowerSteps
  <2>5. (simOn => simOn') /\ (simNv => simNv')
    BY <2>1, Zenon
  <2>6. answer' = 0 /\ pc = "power_ack" => simOn'
    BY <2>1, <2>2, <2>3 DEF PowerInv, NoWord
  <2>7. answer' = 0 /\ pc = "nv_ack" => simNv'
    BY <2>1, <2>2, <2>3 DEF PowerInv, NoWord
  <2>8. answer' # NoWord => platform_conn = "open"
    BY <2>1, <2>3
  <2> QED BY <2>2, <2>4, <2>5, <2>6, <2>7, <2>8 DEF PowerInv
<1>4. CASE SimCrashes
  <2>1. peer' = "down" /\ signal' = NoWord /\ UNCHANGED <<comm, pc, answer>>
    BY <1>4 DEF SimCrashes, SessionEnds, hostVars
  <2> QED BY <2>1 DEF PowerInv
<1> QED BY <1>1, <1>2, <1>3, <1>4 DEF Simulator

(* What the acknowledgements stand for, in every reachable state.          *)
LEMMA PowerInvHolds == Spec => []PowerInv
<1>1. Init => PowerInv
  BY DEF Init, PowerInv, NoWord
<1>2. Inv /\ PowerInv /\ [Next]_vars => PowerInv'
  <2> SUFFICES ASSUME Inv, PowerInv, [Next]_vars PROVE PowerInv'
    OBVIOUS
  <2>1. CASE UNCHANGED vars
    <3>1. UNCHANGED <<powerVars, comm, pc, peer>>
      BY <2>1 DEF vars, hostVars, simVars
    <3> QED BY <3>1, ElsewhereKeepsPower
  <2> QED BY <2>1, HostKeepsPower, PowerOnKeepsPower, SimulatorKeepsPower DEF Next, Caller, Host,
             Setups, Submits
<1> QED BY <1>1, <1>2, InvHolds, PTL DEF Spec

(* Whoever has a handle whose simulator is still there has a simulator     *)
(* with power and NV on: no failure, refusal or crash between the steps of *)
(* power_on_simulator is taken for a success.                              *)
THEOREM HandleIsPowered == Spec => []OpenIsPowered
<1>1. PowerInv => OpenIsPowered
  BY DEF PowerInv, OpenIsPowered
<1> QED BY <1>1, PowerInvHolds, PTL
=============================================================================
