------------------------------ MODULE TpmSocket ------------------------------
(***************************************************************************)
(* src/tpm_socket_comm.c: one TPM_SOCKET_INFO, the cache of received bytes *)
(* it keeps (recv_bytes, recv_length), and the TCP connection it sits on.  *)
(*                                                                         *)
(* The host is one thread.  A call of tpm_socket_send or tpm_socket_read   *)
(* takes one step per send() or recv(): between two of them the peer, a    *)
(* TPM simulator or a user mode resource manager, may write or close.      *)
(* The variables written, delivered, asked, sendFailed and lost are        *)
(* history: no guard reads them except to bound the model.                 *)
(***************************************************************************)
EXTENDS Integers, Sequences

CONSTANTS
  Byte,        \* the bytes that travel on the connection
  Message,     \* the byte strings tpm_socket_send is called with
  ReadLen,     \* the lengths tpm_socket_read is called with
  MAX_DATA_RECV, \* bytes asked of one recv(), 1024 in the code
  MaxStream,   \* bound on the bytes each side puts on one connection
  Faults       \* the calls that may fail: a subset of FaultKind

FaultKind == {"create", "send", "recv", "alloc"}

ASSUME SocketAssumption ==
  /\ Message \subseteq Seq(Byte)
  /\ ReadLen \subseteq Nat
  /\ MAX_DATA_RECV \in Nat \ {0}
  /\ MaxStream \in Nat
  /\ Faults \subseteq FaultKind

OK == 0
MU_FAILURE == 1

VARIABLES
  handle,      \* TPM_SOCKET_HANDLE: "null", "open", or "aborted" when the program was stopped
  recv_bytes,  \* the cached bytes; its length is recv_length
  buf,         \* the pointer recv_bytes: "null", "live", or "stale" once freed by realloc
  op,          \* the call in progress: "idle", "send" or "read"
  bytes_len,   \* the length argument of that call
  left,        \* send: the bytes from pIterator on
  sent_bytes,  \* send: what the last send() returned
  index,       \* read: the loop counter
  result,      \* what the last call returned
  out,         \* every byte the host has put on the connection
  wire,        \* bytes the peer has written and recv() has not returned
  peerClosed,  \* the peer has closed its side
  written, delivered, \* history: bytes from the peer, bytes handed to the callers
  asked,       \* history: the messages of every send on this connection
  sendFailed,  \* history: some send on this connection returned MU_FAILURE
  lost         \* history: received bytes were dropped for want of memory

cacheVars == <<recv_bytes, buf>>
callVars  == <<op, bytes_len, left, sent_bytes, index>>
netVars   == <<out, wire, peerClosed>>
inHist    == <<written, delivered, lost>>
outHist   == <<asked, sendFailed>>
vars == <<handle, cacheVars, callVars, result, netVars, inHist, outHist>>

recv_length == Len(recv_bytes)

TypeOK ==
  /\ handle \in {"null", "open", "aborted"}
  /\ recv_bytes \in Seq(Byte)
  /\ buf \in {"null", "live", "stale"}
  /\ op \in {"idle", "send", "read"}
  /\ bytes_len \in Nat
  /\ left \in Seq(Byte)
  /\ sent_bytes \in Int
  /\ index \in 0..2
  /\ result \in {OK, MU_FAILURE}
  /\ out \in Seq(Byte) /\ wire \in Seq(Byte)
  /\ peerClosed \in BOOLEAN
  /\ written \in Seq(Byte) /\ delivered \in Seq(Byte) /\ asked \in Seq(Byte)
  /\ sendFailed \in BOOLEAN /\ lost \in BOOLEAN

Init ==
  /\ handle = "null" /\ recv_bytes = << >> /\ buf = "null"
  /\ op = "idle" /\ bytes_len = 0 /\ left = << >> /\ sent_bytes = 0 /\ index = 0
  /\ result = OK
  /\ out = << >> /\ wire = << >> /\ peerClosed = FALSE
  /\ written = << >> /\ delivered = << >> /\ lost = FALSE
  /\ asked = << >> /\ sendFailed = FALSE

(* First n elements of s, and what follows them. *)
Take(s, n) == SubSeq(s, 1, n)
Drop(s, n) == SubSeq(s, n + 1, Len(s))

(***************************************************************************)
(* tpm_socket_create and tpm_socket_destroy.                               *)
(***************************************************************************)
Create ==
  /\ handle = "null" /\ op = "idle"
  /\ handle' = "open" /\ recv_bytes' = << >> /\ buf' = "null"
  /\ out' = << >> /\ wire' = << >> /\ peerClosed' = FALSE
  /\ written' = << >> /\ delivered' = << >> /\ lost' = FALSE
  /\ asked' = << >> /\ sendFailed' = FALSE
  /\ result' = OK
  /\ UNCHANGED callVars

(* malloc, socket() or connect() fails: everything acquired is given back. *)
CreateFails ==
  /\ "create" \in Faults
  /\ handle = "null" /\ op = "idle"
  /\ result' = MU_FAILURE
  /\ UNCHANGED <<handle, cacheVars, callVars, netVars, inHist, outHist>>

(* Bytes not yet received or handed out go with the connection; the peer   *)
(* can still read what was sent.  free(recv_bytes) of a stale pointer is   *)
(* undefined: libc stops the program or lets it pass.                      *)
Destroy ==
  /\ handle = "open" /\ op = "idle"
  /\ \/ handle' = "null"
     \/ buf = "stale" /\ handle' = "aborted"
  /\ recv_bytes' = << >> /\ buf' = "null" /\ wire' = << >>
  /\ written' = << >> /\ delivered' = << >> /\ lost' = FALSE
  /\ UNCHANGED <<callVars, result, out, peerClosed, outHist>>

(* A call returns r; its local variables are gone. *)
CallEnds(r) == op' = "idle" /\ bytes_len' = 0 /\ index' = 0 /\ result' = r

(***************************************************************************)
(* tpm_socket_send: arguments, then the loop of send_socket_bytes.         *)
(***************************************************************************)
SendRefused(m) ==
  /\ op = "idle" /\ handle # "aborted"
  /\ handle = "null" \/ m = << >>
  /\ result' = MU_FAILURE
  /\ UNCHANGED <<handle, cacheVars, callVars, netVars, inHist, outHist>>

SendCall(m) ==
  /\ op = "idle" /\ handle = "open" /\ m # << >>
  /\ Len(asked) + Len(m) <= MaxStream
  /\ op' = "send" /\ bytes_len' = Len(m) /\ left' = m /\ sent_bytes' = 0
  /\ asked' = asked \o m
  /\ UNCHANGED <<handle, cacheVars, index, result, netVars, inHist, sendFailed>>

(* Mutant: pIterator stays where it was, so the front is sent again. *)
SendSome_NoAdvance(n) ==
  /\ op = "send" /\ left # << >> /\ sent_bytes >= 0
  /\ n \in 1..Len(left)
  /\ sent_bytes' = n
  /\ out' = out \o Take(left, n)
  /\ left' = Take(left, Len(left) - n)
  /\ UNCHANGED <<handle, cacheVars, op, bytes_len, index, result,
                 wire, peerClosed, inHist, outHist>>

(* send() takes some of the bytes left, perhaps not all of them. *)
SendSome(n) ==
  /\ op = "send" /\ left # << >> /\ sent_bytes >= 0
  /\ n \in 1..Len(left)
  /\ sent_bytes' = n
  /\ out' = out \o Take(left, n)
  /\ left' = Drop(left, n)
  /\ UNCHANGED <<handle, cacheVars, op, bytes_len, index, result,
                 wire, peerClosed, inHist, outHist>>

(* send() returns -1: a fault of the network, or the peer has closed. *)
SendError ==
  /\ op = "send" /\ left # << >> /\ sent_bytes >= 0
  /\ "send" \in Faults \/ peerClosed
  /\ sent_bytes' = -1
  /\ UNCHANGED <<handle, cacheVars, op, bytes_len, left, index, result,
                 netVars, inHist, outHist>>

(* The peer has closed: SIGPIPE stops the program, for send() is not asked *)
(* for MSG_NOSIGNAL.                                                       *)
SendStopped ==
  /\ op = "send" /\ left # << >> /\ sent_bytes >= 0
  /\ peerClosed
  /\ handle' = "aborted"
  /\ CallEnds(MU_FAILURE)
  /\ left' = << >> /\ sent_bytes' = 0 /\ sendFailed' = TRUE
  /\ UNCHANGED <<cacheVars, netVars, inHist, asked>>

(* The verdict compares what the last send() returned with the length of  *)
(* the whole message.                                                      *)
SendVerdict == IF sent_bytes < bytes_len THEN MU_FAILURE ELSE OK

(* Mutant: the loop does not leave on an error. *)
SendReturn_NoBreak ==
  /\ op = "send" /\ left = << >>
  /\ CallEnds(SendVerdict)
  /\ left' = << >> /\ sent_bytes' = 0
  /\ sendFailed' = (sendFailed \/ SendVerdict # OK)
  /\ UNCHANGED <<handle, cacheVars, netVars, inHist, asked>>

SendReturn ==
  /\ op = "send"
  /\ left = << >> \/ sent_bytes < 0
  /\ CallEnds(SendVerdict)
  /\ left' = << >> /\ sent_bytes' = 0
  /\ sendFailed' = (sendFailed \/ SendVerdict # OK)
  /\ UNCHANGED <<handle, cacheVars, netVars, inHist, asked>>

(***************************************************************************)
(* tpm_socket_read: arguments, then at most two turns of the loop, each of *)
(* which either serves the call from the cache or calls recv() once.       *)
(***************************************************************************)
ReadRefused(n) ==
  /\ op = "idle" /\ handle # "aborted"
  /\ handle = "null" \/ n = 0
  /\ result' = MU_FAILURE
  /\ UNCHANGED <<handle, cacheVars, callVars, netVars, inHist, outHist>>

ReadCall(n) ==
  /\ op = "idle" /\ handle = "open" /\ n # 0
  /\ op' = "read" /\ bytes_len' = n /\ index' = 0
  /\ UNCHANGED <<handle, cacheVars, left, sent_bytes, result,
                 netVars, inHist, outHist>>

(* Mutants: the bytes behind the removed ones are not moved; the pointer   *)
(* of an emptied cache is freed but not cleared.                           *)
RemoveFromBuffer_NoMove(n) ==
  /\ recv_bytes' = Take(recv_bytes, recv_length - n)
  /\ buf' = IF recv_length = n THEN "null" ELSE "live"

RemoveFromBuffer_Dangling(n) ==
  /\ recv_bytes' = Drop(recv_bytes, n)
  /\ buf' = IF recv_length = n THEN "stale" ELSE "live"

(* remove_from_buffer: an emptied cache is freed, a shortened one moves.   *)
RemoveFromBuffer(n) ==
  /\ recv_bytes' = Drop(recv_bytes, n)
  /\ buf' = IF recv_length = n THEN "null" ELSE "live"

(* Mutant: served bytes stay in the cache. *)
ReadServed_NoRemove ==
  /\ op = "read" /\ index < 2 /\ recv_length >= bytes_len
  /\ delivered' = delivered \o Take(recv_bytes, bytes_len)
  /\ CallEnds(OK)
  /\ UNCHANGED <<handle, cacheVars, left, sent_bytes, netVars, written, lost, outHist>>

ReadServed ==
  /\ op = "read" /\ index < 2 /\ recv_length >= bytes_len
  /\ delivered' = delivered \o Take(recv_bytes, bytes_len)
  /\ RemoveFromBuffer(bytes_len)
  /\ CallEnds(OK)
  /\ UNCHANGED <<handle, left, sent_bytes, netVars, written, lost, outHist>>

(* Mutant: the loop has no limit. *)
Receiving_Unlimited == op = "read" /\ recv_length < bytes_len

(* remove_from_buffer does not check the malloc of the shortened cache:    *)
(* without memory it copies to address 0, and the program stops.           *)
ReadStopped ==
  /\ "alloc" \in Faults
  /\ op = "read" /\ index < 2 /\ recv_length > bytes_len
  /\ handle' = "aborted"
  /\ CallEnds(MU_FAILURE)
  /\ UNCHANGED <<cacheVars, left, sent_bytes, netVars, inHist, outHist>>

(* The cache is too short and the loop has a turn left: recv() is called.  *)
Receiving == op = "read" /\ index < 2 /\ recv_length < bytes_len

(* add_to_buffer succeeds: the bytes are appended and the loop turns.      *)
RecvSome(n) ==
  /\ Receiving
  /\ n \in 1..Len(wire) /\ n <= MAX_DATA_RECV
  /\ recv_bytes' = recv_bytes \o Take(wire, n)
  /\ buf' = "live"
  /\ wire' = Drop(wire, n)
  /\ index' = index + 1
  /\ UNCHANGED <<handle, op, bytes_len, left, sent_bytes, result,
                 out, peerClosed, inHist, outHist>>

(* add_to_buffer has no memory: the bytes recv() returned are dropped.     *)
RecvNoMemory(n) ==
  /\ "alloc" \in Faults
  /\ Receiving
  /\ n \in 1..Len(wire) /\ n <= MAX_DATA_RECV
  /\ wire' = Drop(wire, n)
  /\ lost' = TRUE
  /\ CallEnds(MU_FAILURE)
  /\ UNCHANGED <<handle, cacheVars, left, sent_bytes,
                 out, peerClosed, written, delivered, outHist>>

(* recv() returns -1: a fault, or the peer's close came as a reset.        *)
RecvError ==
  /\ Receiving
  /\ "recv" \in Faults \/ peerClosed
  /\ CallEnds(MU_FAILURE)
  /\ UNCHANGED <<handle, cacheVars, left, sent_bytes, netVars, inHist, outHist>>

(* recv() returns 0 once the peer has closed, and add_to_buffer is called  *)
(* with length 0: malloc(0) yields a block, realloc of a block that holds  *)
(* bytes keeps it, realloc(p, 0) frees p and returns NULL.  A further      *)
(* realloc of that freed pointer is undefined.                             *)
RecvClosed ==
  /\ Receiving /\ peerClosed /\ wire = << >>
  /\ \/ /\ buf = "null" \/ recv_bytes # << >>
        /\ buf' = "live" /\ index' = index + 1
        /\ UNCHANGED <<handle, op, bytes_len, result>>
     \/ /\ buf # "null" /\ recv_bytes = << >>
        /\ buf' = "stale" /\ CallEnds(MU_FAILURE)
        /\ \/ UNCHANGED handle
           \/ buf = "stale" /\ handle' = "aborted"
     \/ /\ "alloc" \in Faults
        /\ CallEnds(MU_FAILURE) /\ UNCHANGED <<buf, handle>>
  /\ UNCHANGED <<recv_bytes, left, sent_bytes, netVars, inHist, outHist>>

(* Mutant: the loop goes on until there are enough bytes. *)
ReadGivesUp_Again ==
  /\ op = "read" /\ index = 2
  /\ index' = 0
  /\ UNCHANGED <<handle, cacheVars, op, bytes_len, left, sent_bytes, result,
                 netVars, inHist, outHist>>

(* Both turns are spent: the call fails whatever the cache now holds.      *)
ReadGivesUp ==
  /\ op = "read" /\ index = 2
  /\ CallEnds(MU_FAILURE)
  /\ UNCHANGED <<handle, cacheVars, left, sent_bytes, netVars, inHist, outHist>>

(***************************************************************************)
(* The peer.                                                               *)
(***************************************************************************)
PeerWrite(s) ==
  /\ handle = "open" /\ ~peerClosed /\ s # << >>
  /\ Len(written) + Len(s) <= MaxStream
  /\ wire' = wire \o s
  /\ written' = written \o s
  /\ UNCHANGED <<handle, cacheVars, callVars, result, out, peerClosed,
                 delivered, lost, outHist>>

PeerClose ==
  /\ handle = "open" /\ ~peerClosed
  /\ peerClosed' = TRUE
  /\ UNCHANGED <<handle, cacheVars, callVars, result, out, wire, inHist, outHist>>

Call == \/ Create \/ CreateFails \/ Destroy
        \/ \E m \in Message : SendRefused(m) \/ SendCall(m)
        \/ \E n \in ReadLen : ReadRefused(n) \/ ReadCall(n)

Send == (\E n \in 1..Len(left) : SendSome(n)) \/ SendError \/ SendStopped \/ SendReturn

Read == \/ ReadServed \/ ReadStopped \/ RecvError \/ RecvClosed \/ ReadGivesUp
        \/ \E n \in 1..Len(wire) : RecvSome(n) \/ RecvNoMemory(n)

Peer == (\E m \in Message : PeerWrite(m)) \/ PeerClose

Next == Call \/ Send \/ Read \/ Peer

(* The host thread runs: a call in progress takes its next step when one   *)
(* is possible.  Nothing obliges the peer, and no caller has to call.      *)
Fairness == WF_vars(Send) /\ WF_vars(Read)

Spec == Init /\ [][Next]_vars
FairSpec == Spec /\ Fairness

-----------------------------------------------------------------------------
(***************************************************************************)
(* Properties.                                                             *)
(***************************************************************************)

(* However the bytes were cut up by recv(), cached and handed out over     *)
(* several calls, failed calls included, none is lost, repeated or         *)
(* reordered: what was delivered, what is cached and what is still on the  *)
(* wire make up what the peer wrote (add_to_buffer, remove_from_buffer).   *)
StreamIntegrity == ~lost => written = delivered \o recv_bytes \o wire

(* While every send has returned 0, the peer sees exactly the messages     *)
(* passed to tpm_socket_send, in order and whole, the one in progress      *)
(* excepted (the loop of send_socket_bytes).                               *)
SendIntegrity == ~sendFailed /\ sent_bytes >= 0 => out \o left = asked

(* The pointer recv_bytes dangles only after the peer has closed and every *)
(* byte has been handed out: no ordinary traffic leads there.              *)
StaleOnlyAfterClose == buf = "stale" => peerClosed /\ recv_bytes = << >> /\ wire = << >>

(* A length is cached only behind a pointer that holds it.                 *)
CacheHasBlock == recv_bytes # << >> => buf = "live"

(* The pointer and the length of the cache agree, whatever realloc() and   *)
(* free() did to the block: the two facts above.                           *)
PointerInv == CacheHasBlock /\ StaleOnlyAfterClose

(* Once the peer has closed, a read in progress returns: the loop of       *)
(* tpm_socket_read cannot spin on a recv() that keeps returning 0.         *)
ClosedReadReturns == (op = "read" /\ peerClosed) ~> (op = "idle")

(* A send in progress returns.                                             *)
SendReturns == (op = "send") ~> (op = "idle")

(* The inductive invariant: outside a send nothing is left to be sent.     *)
IdleShape == op # "send" => left = << >> /\ sent_bytes = 0

SocketInv == /\ TypeOK /\ IdleShape
             /\ StreamIntegrity /\ SendIntegrity
             /\ PointerInv

(* The verdict of send_socket_bytes as its log line states it ("sent byte  *)
(* amoutn is less than desired send amount."): a send fails only when      *)
(* fewer bytes went out than were asked.                                   *)
FailedSendIsShort == op = "idle" /\ sendFailed => Len(out) < Len(asked)

(* The question the loop of tpm_socket_read asks at each turn, as its      *)
(* comment states it ("Do we have enough bytes cached"): a read fails only *)
(* when the cache holds fewer bytes than were asked.                       *)
FailedReadIsShort ==
  [][op = "read" /\ op' = "idle" /\ result' = MU_FAILURE
       => recv_length < bytes_len]_vars

(* Refinement: to its callers the socket is a byte stream.  Dropping bytes *)
(* for want of memory (add_to_buffer) breaks the stream off: nothing is    *)
(* promised of this connection any more, and the next one starts anew.     *)
Stream == INSTANCE ByteStream WITH
  written <- IF lost THEN << >> ELSE written,
  delivered <- IF lost THEN << >> ELSE delivered
StreamSpec == Stream!Spec
=============================================================================
