--------------------------- MODULE TpmSocketProofs ---------------------------
(***************************************************************************)
(* Proofs about TpmSocket: the byte stream survives caching and chunking,  *)
(* for every alphabet, message set, chunk size and set of faults.          *)
(***************************************************************************)
EXTENDS TpmSocket, SequenceTheorems, TLAPS

(* Cutting a sequence in two and joining the pieces gives it back: what    *)
(* add_to_buffer, remove_from_buffer and pIterator rely on.                *)
LEMMA TakeDrop ==
  ASSUME NEW S, NEW s \in Seq(S), NEW n \in 0..Len(s)
  PROVE  /\ Take(s, n) \in Seq(S) /\ Drop(s, n) \in Seq(S)
         /\ Len(Take(s, n)) = n /\ Len(Drop(s, n)) = Len(s) - n
         /\ Take(s, n) \o Drop(s, n) = s
<1>1. n \in Nat /\ Len(s) \in Nat
  BY LenProperties
<1>2. Take(s, n) \in Seq(S) /\ Len(Take(s, n)) = n
  <2>1. \A i \in 1..n : s[i] \in S
    BY <1>1, LenProperties
  <2> QED BY <2>1, <1>1, SubSeqProperties DEF Take
<1>3. Drop(s, n) \in Seq(S) /\ Len(Drop(s, n)) = Len(s) - n
  <2>1. \A i \in n+1..Len(s) : s[i] \in S
    BY <1>1, LenProperties
  <2> QED BY <2>1, <1>1, SubSeqProperties DEF Drop
<1>4. Take(s, n) \o Drop(s, n) = SubSeq(s, 1, Len(s))
  <2>1. 1 \in 1..Len(s)+1 /\ n \in 1-1..Len(s) /\ Len(s) \in n..Len(s)
    BY <1>1
  <2>2. SubSeq(s, 1, n) \o SubSeq(s, n+1, Len(s)) = SubSeq(s, 1, Len(s))
    BY <2>1, ConcatAdjacentSubSeq
  <2> QED BY <2>2 DEF Take, Drop
<1> QED BY <1>2, <1>3, <1>4, SubSeqFull

(* Associativity of concatenation on byte strings, in quantified form.     *)
LEMMA JoinAssoc ==
  \A a, b, c \in Seq(Byte) : (a \o b) \o c = a \o (b \o c)
BY ConcatAssociative

(* Moving a piece from the front of one segment to the back of the segment *)
(* before it leaves the whole unchanged.                                   *)
LEMMA ShiftBoundary ==
  ASSUME NEW S, NEW s \in Seq(S), NEW t \in Seq(S), NEW n \in 0..Len(t)
  PROVE  (s \o Take(t, n)) \o Drop(t, n) = s \o t
<1>1. Take(t, n) \in Seq(S) /\ Drop(t, n) \in Seq(S)
      /\ Take(t, n) \o Drop(t, n) = t
  BY TakeDrop
<1>2. \A a, b \in Seq(S) : (s \o a) \o b = s \o (a \o b)
  BY ConcatAssociative
<1>3. (s \o Take(t, n)) \o Drop(t, n) = s \o (Take(t, n) \o Drop(t, n))
  BY <1>1, <1>2, Zenon
<1> QED BY <1>1, <1>3, Zenon

-----------------------------------------------------------------------------
(* Every step keeps every variable in its type.                            *)
THEOREM Typing == Spec => []TypeOK
<1>1. Init => TypeOK
  <2>1. << >> \in Seq(Byte)
    OBVIOUS
  <2> SUFFICES ASSUME Init PROVE TypeOK
    OBVIOUS
  <2> USE DEF Init, TypeOK, OK, MU_FAILURE
  <2>2. recv_bytes \in Seq(Byte) /\ left \in Seq(Byte) /\ out \in Seq(Byte)
        /\ wire \in Seq(Byte) /\ written \in Seq(Byte) /\ delivered \in Seq(Byte)
        /\ asked \in Seq(Byte)
    BY <2>1
  <2>3. peerClosed \in BOOLEAN /\ sendFailed \in BOOLEAN /\ lost \in BOOLEAN
    OBVIOUS
  <2>4. bytes_len \in Nat /\ sent_bytes \in Int /\ index \in 0..2
    OBVIOUS
  <2> QED BY <2>2, <2>3, <2>4
<1>2. TypeOK /\ [Next]_vars => TypeOK'
  <2> SUFFICES ASSUME TypeOK, [Next]_vars PROVE TypeOK'
    OBVIOUS
  <2> USE SocketAssumption DEF TypeOK, OK, MU_FAILURE
  <2>1. CASE Call
    <3>1. CASE Create
      <4>1. << >> \in Seq(Byte)
        OBVIOUS
      <4> QED BY <3>1, <4>1 DEF Create, callVars
    <3>2. CASE CreateFails
      BY <3>2 DEF CreateFails, cacheVars, callVars, netVars, inHist, outHist
    <3>3. CASE Destroy
      <4>1. << >> \in Seq(Byte)
        OBVIOUS
      <4> QED BY <3>3, <4>1 DEF Destroy, callVars, outHist
    <3>4. ASSUME NEW m \in Message, SendRefused(m) PROVE TypeOK'
      BY <3>4 DEF SendRefused, cacheVars, callVars, netVars, inHist, outHist
    <3>5. ASSUME NEW m \in Message, SendCall(m) PROVE TypeOK'
      <4>1. m \in Seq(Byte) /\ Len(m) \in Nat
        BY LenProperties
      <4>2. asked' \in Seq(Byte)
        BY <3>5, <4>1, ConcatProperties DEF SendCall
      <4> QED BY <3>5, <4>1, <4>2 DEF SendCall, cacheVars, netVars, inHist
    <3>6. ASSUME NEW n \in ReadLen, ReadRefused(n) PROVE TypeOK'
      BY <3>6 DEF ReadRefused, cacheVars, callVars, netVars, inHist, outHist
    <3>7. ASSUME NEW n \in ReadLen, ReadCall(n) PROVE TypeOK'
      BY <3>7 DEF ReadCall, cacheVars, netVars, inHist, outHist
    <3> QED BY <2>1, <3>1, <3>2, <3>3, <3>4, <3>5, <3>6, <3>7 DEF Call
  <2>2. CASE Send
    <3>1. ASSUME NEW n \in 1..Len(left), SendSome(n) PROVE TypeOK'
      <4>1. n \in 0..Len(left) /\ n \in Int
        BY LenProperties
      <4>2. Take(left, n) \in Seq(Byte) /\ Drop(left, n) \in Seq(Byte)
        BY <4>1, TakeDrop
      <4>3. out' \in Seq(Byte)
        BY <3>1, <4>2, ConcatProperties DEF SendSome
      <4> QED BY <3>1, <4>1, <4>2, <4>3 DEF SendSome, cacheVars, inHist, outHist
    <3>2. CASE SendError
      BY <3>2 DEF SendError, cacheVars, netVars, inHist, outHist
    <3>3. CASE SendReturn
      BY <3>3 DEF SendReturn, CallEnds, SendVerdict, cacheVars, netVars, inHist
    <3>4. CASE SendStopped
      <4>1. << >> \in Seq(Byte)
        OBVIOUS
      <4> QED BY <3>4, <4>1 DEF SendStopped, CallEnds, cacheVars, netVars, inHist
    <3> QED BY <2>2, <3>1, <3>2, <3>3, <3>4 DEF Send
  <2>3. CASE Read
    <3>1. CASE ReadServed
      <4>1. bytes_len \in 0..Len(recv_bytes)
        BY <3>1, LenProperties DEF ReadServed, recv_length
      <4>2. Take(recv_bytes, bytes_len) \in Seq(Byte) /\ Drop(recv_bytes, bytes_len) \in Seq(Byte)
        BY <4>1, TakeDrop
      <4>3. delivered' \in Seq(Byte)
        BY <3>1, <4>2, ConcatProperties DEF ReadServed
      <4> QED BY <3>1, <4>2, <4>3 DEF ReadServed, RemoveFromBuffer, CallEnds, netVars, outHist
    <3>2. CASE RecvError
      BY <3>2 DEF RecvError, CallEnds, cacheVars, netVars, inHist, outHist
    <3>3. CASE RecvClosed
      BY <3>3 DEF RecvClosed, Receiving, CallEnds, netVars, inHist, outHist
    <3>4. CASE ReadGivesUp \/ ReadStopped
      BY <3>4 DEF ReadGivesUp, ReadStopped, CallEnds, cacheVars, netVars, inHist, outHist
    <3>5. ASSUME NEW n \in 1..Len(wire), RecvSome(n) \/ RecvNoMemory(n) PROVE TypeOK'
      <4>1. n \in 0..Len(wire)
        BY LenProperties
      <4>2. Take(wire, n) \in Seq(Byte) /\ Drop(wire, n) \in Seq(Byte)
        BY <4>1, TakeDrop
      <4>3. recv_bytes \o Take(wire, n) \in Seq(Byte)
        BY <4>2, ConcatProperties
      <4>4. CASE RecvSome(n)
        BY <4>4, <4>2, <4>3 DEF RecvSome, Receiving, inHist, outHist
      <4>5. CASE RecvNoMemory(n)
        BY <4>5, <4>2 DEF RecvNoMemory, CallEnds, cacheVars, outHist
      <4> QED BY <3>5, <4>4, <4>5
    <3> QED BY <2>3, <3>1, <3>2, <3>3, <3>4, <3>5 DEF Read
  <2>4. CASE Peer
    <3>1. ASSUME NEW m \in Message, PeerWrite(m) PROVE TypeOK'
      <4>1. wire \o m \in Seq(Byte) /\ written \o m \in Seq(Byte)
        BY ConcatProperties
      <4> QED BY <3>1, <4>1 DEF PeerWrite, cacheVars, callVars, outHist
    <3>2. CASE PeerClose
      BY <3>2 DEF PeerClose, cacheVars, callVars, inHist, outHist
    <3> QED BY <2>4, <3>1, <3>2 DEF Peer
  <2>5. CASE UNCHANGED vars
    BY <2>5 DEF vars, cacheVars, callVars, netVars, inHist, outHist
  <2> QED BY <2>1, <2>2, <2>3, <2>4, <2>5 DEF Next
<1> QED BY <1>1, <1>2, PTL DEF Spec

-----------------------------------------------------------------------------
(* What the cache, the wire and the callers hold is what the peer wrote:   *)
(* the step part of the theorem below, one case for each action that       *)
(* touches the stream.                                                     *)
LEMMA StreamStep ==
  ASSUME TypeOK, StreamIntegrity, [Next]_vars
  PROVE  StreamIntegrity'
<1> DEFINE same == UNCHANGED <<written, delivered, lost, recv_bytes, wire>>
<1>0. same => StreamIntegrity'
  BY DEF StreamIntegrity
<1> HIDE DEF same
<1>1. CASE Call
  <2>1. << >> = << >> \o << >> \o << >>
    OBVIOUS
  <2>2. CASE Create \/ Destroy
    BY <2>1, <2>2 DEF Create, Destroy, StreamIntegrity
  <2>3. ASSUME CreateFails PROVE same
    BY <2>3 DEF CreateFails, cacheVars, netVars, inHist, same
  <2>4. ASSUME NEW m \in Message, SendRefused(m) \/ SendCall(m) PROVE same
    BY <2>4 DEF SendRefused, SendCall, cacheVars, netVars, inHist, same
  <2>5. ASSUME NEW n \in ReadLen, ReadRefused(n) \/ ReadCall(n) PROVE same
    BY <2>5 DEF ReadRefused, ReadCall, cacheVars, netVars, inHist, same
  <2> QED BY <1>0, <1>1, <2>2, <2>3, <2>4, <2>5 DEF Call
<1>2. CASE Send
  <2>1. same
    BY <1>2 DEF Send, SendSome, SendError, SendStopped, SendReturn, cacheVars, netVars, inHist, same
  <2> QED BY <1>0, <2>1
<1>3. CASE Read
  <2>1. CASE ReadServed
    <3>1. bytes_len \in 0..Len(recv_bytes)
      BY <2>1, LenProperties DEF ReadServed, recv_length, TypeOK
    <3>2. (delivered \o Take(recv_bytes, bytes_len)) \o Drop(recv_bytes, bytes_len)
             = delivered \o recv_bytes
      BY <3>1, ShiftBoundary, Zenon DEF TypeOK
    <3>3. written' = written /\ lost' = lost /\ wire' = wire
          /\ delivered' = delivered \o Take(recv_bytes, bytes_len)
          /\ recv_bytes' = Drop(recv_bytes, bytes_len)
      BY <2>1 DEF ReadServed, RemoveFromBuffer, netVars
    <3> QED BY <3>2, <3>3 DEF StreamIntegrity
  <2>2. ASSUME ReadStopped \/ RecvError \/ RecvClosed \/ ReadGivesUp PROVE same
    BY <2>2 DEF ReadStopped, RecvError, RecvClosed, ReadGivesUp, cacheVars, netVars, inHist, same
  <2>3. ASSUME NEW n \in 1..Len(wire), RecvSome(n) PROVE StreamIntegrity'
    <3>1. n \in 0..Len(wire) /\ wire \in Seq(Byte)
      BY LenProperties DEF TypeOK
    <3> DEFINE piece == Take(wire, n)
               rest  == Drop(wire, n)
               held  == delivered \o recv_bytes
    <3>2. piece \in Seq(Byte) /\ rest \in Seq(Byte)
      BY <3>1, TakeDrop
    <3>3. held \in Seq(Byte) /\ delivered \in Seq(Byte) /\ recv_bytes \in Seq(Byte)
      BY ConcatProperties DEF TypeOK
    <3>4. (held \o piece) \o rest = held \o wire
      <4> HIDE DEF held
      <4> QED BY <3>1, <3>3, ShiftBoundary, Zenon
    <3>5. held \o piece = delivered \o (recv_bytes \o piece)
      <4> HIDE DEF piece
      <4> QED BY JoinAssoc, <3>2, <3>3, ZenonT(60)
    <3>6. written' = written /\ lost' = lost /\ delivered' = delivered
          /\ recv_bytes' = recv_bytes \o piece /\ wire' = rest
      BY <2>3 DEF RecvSome, inHist
    <3> QED BY <3>4, <3>5, <3>6 DEF StreamIntegrity
  <2>4. ASSUME NEW n \in 1..Len(wire), RecvNoMemory(n) PROVE StreamIntegrity'
    BY <2>4 DEF RecvNoMemory, StreamIntegrity
  <2> QED BY <1>0, <1>3, <2>1, <2>2, <2>3, <2>4 DEF Read
<1>4. CASE Peer
  <2>1. ASSUME NEW m \in Message, PeerWrite(m) PROVE StreamIntegrity'
    <3>1. m \in Seq(Byte) /\ delivered \in Seq(Byte) /\ recv_bytes \in Seq(Byte)
          /\ wire \in Seq(Byte)
      BY SocketAssumption DEF TypeOK
    <3>2. PICK h \in Seq(Byte) : h = delivered \o recv_bytes
      BY <3>1, ConcatProperties
    <3>3. (h \o wire) \o m = h \o (wire \o m)
      BY <3>1, JoinAssoc, Zenon
    <3> QED BY <2>1, <3>2, <3>3 DEF PeerWrite, cacheVars, StreamIntegrity
  <2>2. ASSUME PeerClose PROVE same
    BY <2>2 DEF PeerClose, cacheVars, inHist, same
  <2> QED BY <1>0, <1>4, <2>1, <2>2 DEF Peer
<1>5. ASSUME UNCHANGED vars PROVE same
  BY <1>5 DEF vars, cacheVars, netVars, inHist, same
<1> QED BY <1>0, <1>1, <1>2, <1>3, <1>4, <1>5 DEF Next

(* No byte the peer wrote is lost, repeated or reordered by the cache of   *)
(* tpm_socket_read while memory lasts, whatever the chunks, the lengths    *)
(* asked and the failed calls.                                             *)
THEOREM StreamIsIntact == Spec => []StreamIntegrity
<1>1. Init => StreamIntegrity
  <2>1. << >> = << >> \o << >> \o << >>
    OBVIOUS
  <2> QED BY <2>1 DEF Init, StreamIntegrity
<1>2. TypeOK /\ StreamIntegrity /\ [Next]_vars => StreamIntegrity'
  BY StreamStep
<1> QED BY <1>1, <1>2, Typing, PTL DEF Spec

-----------------------------------------------------------------------------
(* Removing everything leaves nothing.                                     *)
LEMMA DropAll == ASSUME NEW S, NEW s \in Seq(S) PROVE Drop(s, Len(s)) = << >>
<1>1. Len(s) \in 0..Len(s)
  BY LenProperties
<1>2. Drop(s, Len(s)) \in Seq(S) /\ Len(Drop(s, Len(s))) = Len(s) - Len(s)
  BY <1>1, TakeDrop
<1>3. Len(Drop(s, Len(s))) = 0
  BY <1>2, LenProperties
<1> QED BY <1>2, <1>3, EmptySeq

(* No step leaves cached bytes behind a freed pointer, and the pointer is  *)
(* only ever freed without being cleared by a peer that has closed.        *)
LEMMA PointerStep ==
  ASSUME TypeOK, PointerInv, [Next]_vars
  PROVE  PointerInv'
<1> DEFINE same == UNCHANGED <<buf, recv_bytes, peerClosed, wire>>
<1>0. same => PointerInv'
  BY DEF PointerInv, CacheHasBlock, StaleOnlyAfterClose
<1> HIDE DEF same
<1>1. CASE Call
  <2>1. CASE Create \/ Destroy
    BY <2>1 DEF Create, Destroy, PointerInv, CacheHasBlock, StaleOnlyAfterClose
  <2>2. ASSUME CreateFails PROVE same
    BY <2>2 DEF CreateFails, cacheVars, netVars, same
  <2>3. ASSUME NEW m \in Message, SendRefused(m) \/ SendCall(m) PROVE same
    BY <2>3 DEF SendRefused, SendCall, cacheVars, netVars, same
  <2>4. ASSUME NEW n \in ReadLen, ReadRefused(n) \/ ReadCall(n) PROVE same
    BY <2>4 DEF ReadRefused, ReadCall, cacheVars, netVars, same
  <2> QED BY <1>0, <1>1, <2>1, <2>2, <2>3, <2>4 DEF Call
<1>2. CASE Send
  <2>1. same
    BY <1>2 DEF Send, SendSome, SendError, SendStopped, SendReturn, cacheVars, netVars, same
  <2> QED BY <1>0, <2>1
<1>3. CASE Read
  <2>1. CASE ReadServed
    <3>1. CASE recv_length = bytes_len
      <4>1. recv_bytes' = << >> /\ buf' = "null"
        BY <2>1, <3>1, DropAll DEF ReadServed, RemoveFromBuffer, recv_length, TypeOK
      <4> QED BY <4>1 DEF PointerInv, CacheHasBlock, StaleOnlyAfterClose
    <3>2. CASE recv_length # bytes_len
      BY <2>1, <3>2 DEF ReadServed, RemoveFromBuffer, PointerInv, CacheHasBlock, StaleOnlyAfterClose
    <3> QED BY <3>1, <3>2
  <2>2. ASSUME ReadStopped \/ RecvError \/ ReadGivesUp PROVE same
    BY <2>2 DEF ReadStopped, RecvError, ReadGivesUp, cacheVars, netVars, same
  <2>3. CASE RecvClosed
    BY <2>3 DEF RecvClosed, netVars, PointerInv, CacheHasBlock, StaleOnlyAfterClose
  <2>4. ASSUME NEW n \in 1..Len(wire), RecvSome(n) \/ RecvNoMemory(n) PROVE PointerInv'
    <3>1. wire # << >>
      BY DEF TypeOK
    <3>2. CASE RecvSome(n)
      BY <3>2 DEF RecvSome, PointerInv, CacheHasBlock, StaleOnlyAfterClose
    <3>3. CASE RecvNoMemory(n)
      BY <3>1, <3>3 DEF RecvNoMemory, cacheVars, PointerInv, CacheHasBlock, StaleOnlyAfterClose
    <3> QED BY <2>4, <3>2, <3>3
  <2> QED BY <1>0, <1>3, <2>1, <2>2, <2>3, <2>4 DEF Read
<1>4. CASE Peer
  <2>1. ASSUME NEW m \in Message, PeerWrite(m) PROVE PointerInv'
    BY <2>1 DEF PeerWrite, cacheVars, PointerInv, CacheHasBlock, StaleOnlyAfterClose
  <2>2. CASE PeerClose
    BY <2>2 DEF PeerClose, cacheVars, PointerInv, CacheHasBlock, StaleOnlyAfterClose
  <2> QED BY <1>4, <2>1, <2>2 DEF Peer
<1>5. ASSUME UNCHANGED vars PROVE same
  BY <1>5 DEF vars, cacheVars, netVars, same
<1> QED BY <1>0, <1>1, <1>2, <1>3, <1>4, <1>5 DEF Next

(* The realloc of tpm_socket_read's cache never leaves a length behind a   *)
(* block that is gone, out of memory or not; and the pointer it does leave *)
(* dangling, it leaves only once the peer has closed and every byte has    *)
(* been handed out.                                                        *)
THEOREM PointerIsGood == Spec => []PointerInv
<1>1. Init => PointerInv
  BY DEF Init, PointerInv, CacheHasBlock, StaleOnlyAfterClose
<1>2. TypeOK /\ PointerInv /\ [Next]_vars => PointerInv'
  BY PointerStep
<1> QED BY <1>1, <1>2, Typing, PTL DEF Spec

-----------------------------------------------------------------------------
(* The sending side needs IdleShape: outside a send nothing is left over.  *)
SendInv == IdleShape /\ SendIntegrity

(* Every step keeps what is still to be sent and what was sent together.   *)
LEMMA SendStep ==
  ASSUME TypeOK, SendInv, [Next]_vars
  PROVE  SendInv'
<1> DEFINE same == UNCHANGED <<left, sent_bytes, out, asked, sendFailed>>
<1>0. ASSUME same, op # "send" \/ op' = "send" PROVE SendInv'
  BY <1>0 DEF SendInv, IdleShape, SendIntegrity
<1> HIDE DEF same
<1>e. \A s \in Seq(Byte) : s \o << >> = s
  BY ConcatEmptySeq
<1>1. CASE Call
  <2>1. CASE Create
    <3>1. << >> \o << >> = << >>
      OBVIOUS
    <3>2. op # "send" /\ left = << >> /\ sent_bytes = 0
      BY <2>1 DEF Create, SendInv, IdleShape
    <3>3. UNCHANGED <<op, left, sent_bytes>> /\ out' = << >> /\ asked' = << >>
      BY <2>1 DEF Create, callVars
    <3> QED BY <3>1, <3>2, <3>3 DEF SendInv, IdleShape, SendIntegrity
  <2>2. ASSUME Destroy \/ CreateFails PROVE SendInv'
    <3>1. same /\ op # "send"
      BY <2>2 DEF Destroy, CreateFails, callVars, netVars, outHist, same
    <3> QED BY <1>0, <3>1
  <2>3. ASSUME NEW m \in Message, SendRefused(m) PROVE SendInv'
    <3>1. same /\ op # "send"
      BY <2>3 DEF SendRefused, callVars, netVars, outHist, same
    <3> QED BY <1>0, <3>1
  <2>4. ASSUME NEW m \in Message, SendCall(m) PROVE SendInv'
    <3>1. left = << >> /\ sent_bytes = 0
      BY <2>4 DEF SendCall, SendInv, IdleShape
    <3>2. ~sendFailed => out = asked
      BY <3>1, <1>e DEF SendInv, SendIntegrity, TypeOK
    <3>3. op' = "send" /\ left' = m /\ asked' = asked \o m /\ out' = out
          /\ sendFailed' = sendFailed
      BY <2>4 DEF SendCall, netVars
    <3> QED BY <3>2, <3>3 DEF SendInv, IdleShape, SendIntegrity
  <2>5. ASSUME NEW n \in ReadLen, ReadRefused(n) \/ ReadCall(n) PROVE SendInv'
    <3>1. same /\ op # "send"
      BY <2>5 DEF ReadRefused, ReadCall, callVars, netVars, outHist, same
    <3> QED BY <1>0, <3>1
  <2> QED BY <1>1, <2>1, <2>2, <2>3, <2>4, <2>5 DEF Call
<1>2. CASE Send
  <2>1. ASSUME NEW n \in 1..Len(left), SendSome(n) PROVE SendInv'
    <3>1. n \in 0..Len(left) /\ left \in Seq(Byte) /\ out \in Seq(Byte)
      BY LenProperties DEF TypeOK
    <3>2. (out \o Take(left, n)) \o Drop(left, n) = out \o left
      BY <3>1, ShiftBoundary, Zenon
    <3>3. out' = out \o Take(left, n) /\ left' = Drop(left, n) /\ asked' = asked
          /\ sendFailed' = sendFailed /\ op' = "send" /\ sent_bytes >= 0
      BY <2>1 DEF SendSome, outHist
    <3> QED BY <3>2, <3>3 DEF SendInv, IdleShape, SendIntegrity
  <2>2. CASE SendError
    BY <2>2 DEF SendError, SendInv, IdleShape, SendIntegrity
  <2>3. CASE SendReturn
    <3>1. left' = << >> /\ sent_bytes' = 0 /\ out' = out /\ asked' = asked
      BY <2>3 DEF SendReturn, netVars
    <3>2. CASE sent_bytes < 0
      <4>1. SendVerdict # OK
        BY <3>2 DEF SendVerdict, OK, MU_FAILURE, TypeOK
      <4>2. sendFailed'
        BY <2>3, <4>1 DEF SendReturn
      <4> QED BY <3>1, <4>2 DEF SendInv, IdleShape, SendIntegrity
    <3>3. CASE ~(sent_bytes < 0)
      <4>1. left = << >> /\ sent_bytes >= 0
        BY <2>3, <3>3 DEF SendReturn, TypeOK
      <4>2. sendFailed => sendFailed'
        BY <2>3 DEF SendReturn
      <4>3. ~sendFailed' => out \o left = asked
        BY <4>1, <4>2 DEF SendInv, SendIntegrity
      <4> QED BY <3>1, <4>1, <4>3 DEF SendInv, IdleShape, SendIntegrity
    <3> QED BY <3>2, <3>3
  <2>4. CASE SendStopped
    BY <2>4 DEF SendStopped, SendInv, IdleShape, SendIntegrity
  <2> QED BY <1>2, <2>1, <2>2, <2>3, <2>4 DEF Send
<1>3. CASE Read
  <2>1. op # "send"
    BY <1>3 DEF Read, ReadServed, ReadStopped, RecvError, RecvClosed, ReadGivesUp, RecvSome,
                RecvNoMemory, Receiving
  <2>2. same
    BY <1>3 DEF Read, ReadServed, ReadStopped, RecvError, RecvClosed, ReadGivesUp, RecvSome,
                RecvNoMemory, netVars, outHist, same
  <2> QED BY <1>0, <2>1, <2>2
<1>4. CASE Peer
  <2>1. same /\ op' = op
    BY <1>4 DEF Peer, PeerWrite, PeerClose, callVars, outHist, same
  <2> QED BY <1>0, <2>1
<1>5. CASE UNCHANGED vars
  <2>1. same /\ op' = op
    BY <1>5 DEF vars, callVars, netVars, outHist, same
  <2> QED BY <1>0, <2>1
<1> QED BY <1>1, <1>2, <1>3, <1>4, <1>5 DEF Next

(* As long as tpm_socket_send has reported no failure, the peer is sent    *)
(* the messages passed to it, whole and in order, however send() cuts      *)
(* them up.                                                                *)
THEOREM SendsAreWhole == Spec => [](IdleShape /\ SendIntegrity)
<1>1. Init => SendInv
  <2>1. << >> = << >> \o << >>
    OBVIOUS
  <2> QED BY <2>1 DEF Init, SendInv, IdleShape, SendIntegrity
<1>2. TypeOK /\ SendInv /\ [Next]_vars => SendInv'
  BY SendStep
<1>3. SendInv <=> IdleShape /\ SendIntegrity
  BY DEF SendInv
<1> QED BY <1>1, <1>2, <1>3, Typing, PTL DEF Spec

(* All of it together: the inductive invariant of the socket.              *)
THEOREM SocketIsSound == Spec => []SocketInv
<1>1. TypeOK /\ StreamIntegrity /\ PointerInv /\ IdleShape /\ SendIntegrity
        => SocketInv
  BY DEF SocketInv
<1> QED BY <1>1, Typing, StreamIsIntact, PointerIsGood, SendsAreWhole, PTL

-----------------------------------------------------------------------------
(***************************************************************************)
(* Refinement of ByteStream.                                               *)
(***************************************************************************)
(* What is appended to extends what was there.                             *)
LEMMA JoinExtends ==
  ASSUME NEW S, NEW s \in Seq(S), NEW t \in Seq(S)
  PROVE  /\ Stream!IsPrefix(s, s \o t)
         /\ t # << >> => Stream!IsStrictPrefix(s, s \o t)
<1>1. /\ s \o t \in Seq(S) /\ Len(s \o t) = Len(s) + Len(t)
      /\ \A i \in 1..Len(s) + Len(t) :
           (s \o t)[i] = IF i <= Len(s) THEN s[i] ELSE t[i - Len(s)]
  BY ConcatProperties
<1>2. Len(s) \in Nat /\ Len(t) \in Nat
  BY LenProperties
<1> DEFINE p == SubSeq(s \o t, 1, Len(s))
<1>3. p \in Seq(S) /\ Len(p) = Len(s) /\ \A i \in 1..Len(s) : p[i] = (s \o t)[i]
  <2>1. \A i \in 1..Len(s) : (s \o t)[i] \in S
    BY <1>1, <1>2, LenProperties
  <2>2. /\ p \in Seq(S) /\ Len(p) = IF 1 <= Len(s) THEN Len(s) - 1 + 1 ELSE 0
        /\ \A i \in 1..Len(s) - 1 + 1 : p[i] = (s \o t)[1 + i - 1]
    <3> HIDE DEF p
    <3>1. 1 \in Int /\ Len(s) \in Int
      BY <1>2
    <3> QED BY <2>1, <3>1, SubSeqProperties DEF p
  <2> HIDE DEF p
  <2> QED BY <2>2, <1>2
<1>4. p = s
  <2>1. \A i \in 1..Len(p) : p[i] = s[i]
    BY <1>1, <1>2, <1>3
  <2> HIDE DEF p
  <2> QED BY <1>3, <2>1, SeqEqual
<1>5. SubSeq(s, 1, Len(s)) = s
  BY SubSeqFull
<1>6. Stream!IsPrefix(s, s \o t)
  BY <1>1, <1>2, <1>4, <1>5 DEF Stream!IsPrefix
<1>7. ASSUME t # << >> PROVE s # s \o t
  <2>1. Len(t) # 0
    BY <1>7, EmptySeq
  <2> QED BY <1>1, <1>2, <2>1
<1> QED BY <1>6, <1>7 DEF Stream!IsStrictPrefix

(* To its callers the socket is a byte stream: what the calls of           *)
(* tpm_socket_read hand out is a growing prefix of what the peer writes,   *)
(* until the connection breaks off because add_to_buffer dropped bytes.    *)
THEOREM SocketIsStream == Spec => StreamSpec
<1> DEFINE w == IF lost THEN << >> ELSE written
           d == IF lost THEN << >> ELSE delivered
<1>1. Init => Stream!Init
  BY DEF Init, Stream!Init
<1>2. TypeOK /\ StreamIntegrity /\ [Next]_vars => [Stream!Next]_(Stream!vars)
  <2> SUFFICES ASSUME TypeOK, StreamIntegrity, [Next]_vars
               PROVE  [Stream!Next]_(Stream!vars)
    OBVIOUS
  <2> DEFINE same == UNCHANGED <<written, delivered, lost>>
  <2>0. same => [Stream!Next]_(Stream!vars)
    BY DEF Stream!vars
  <2> HIDE DEF same
  <2>1. CASE Call
    <3>1. CASE Create \/ Destroy
      BY <3>1 DEF Create, Destroy, Stream!Next, Stream!Reopen
    <3>2. ASSUME ~(Create \/ Destroy) PROVE same
      BY <2>1, <3>2 DEF Call, CreateFails, SendRefused, SendCall, ReadRefused,
                        ReadCall, inHist, same
    <3> QED BY <2>0, <3>1, <3>2
  <2>2. CASE Send
    <3>1. same
      BY <2>2 DEF Send, SendSome, SendError, SendStopped, SendReturn, inHist, same
    <3> QED BY <2>0, <3>1
  <2>3. CASE Read
    <3>1. CASE ReadServed
      <4>0. lost' = lost /\ written' = written
        BY <3>1 DEF ReadServed
      <4>1. CASE lost
        BY <4>0, <4>1 DEF Stream!vars
      <4>2. CASE ~lost
        <5> DEFINE piece == Take(recv_bytes, bytes_len)
                   rest  == Drop(recv_bytes, bytes_len)
        <5>1. bytes_len \in 0..Len(recv_bytes)
          BY <3>1, LenProperties DEF ReadServed, recv_length, TypeOK
        <5>2. delivered' = delivered \o piece
          BY <3>1 DEF ReadServed
        <5>3. /\ piece \in Seq(Byte) /\ rest \in Seq(Byte)
              /\ delivered \in Seq(Byte) /\ wire \in Seq(Byte) /\ recv_bytes \in Seq(Byte)
          BY <5>1, TakeDrop DEF TypeOK
        <5>4. (delivered \o piece) \o rest = delivered \o recv_bytes
          BY <5>1, <5>3, ShiftBoundary, Zenon
        <5>5. delivered \o piece \in Seq(Byte) /\ rest \o wire \in Seq(Byte)
          <6> HIDE DEF piece, rest
          <6> QED BY <5>3, ConcatProperties
        <5>6. written = (delivered \o piece) \o (rest \o wire)
          <6>1. written = (delivered \o recv_bytes) \o wire
            BY <4>2 DEF StreamIntegrity
          <6>2. PICK h \in Seq(Byte) : h = delivered \o piece
            BY <5>5
          <6> HIDE DEF rest
          <6>3. (h \o rest) \o wire = h \o (rest \o wire)
            BY <5>3, JoinAssoc, Zenon
          <6> QED BY <5>4, <6>1, <6>2, <6>3
        <5>7. Stream!IsPrefix(delivered', written)
          <6> HIDE DEF piece, rest
          <6> QED BY <5>2, <5>5, <5>6, JoinExtends
        <5>8. CASE piece = << >>
          <6>1. delivered \o << >> = delivered
            BY <5>3, ConcatEmptySeq
          <6> QED BY <2>0, <4>0, <5>2, <5>8, <6>1 DEF same
        <5>9. CASE piece # << >>
          <6> HIDE DEF piece
          <6>1. Stream!IsStrictPrefix(delivered, delivered')
            BY <5>2, <5>3, <5>9, JoinExtends
          <6>2. w' = w /\ w = written /\ d = delivered /\ d' = delivered'
            BY <4>0, <4>2
          <6> QED BY <5>7, <6>1, <6>2 DEF Stream!Next, Stream!Deliver
        <5> QED BY <5>8, <5>9
      <4> QED BY <4>1, <4>2
    <3>2. ASSUME NEW n \in 1..Len(wire), RecvNoMemory(n)
          PROVE  [Stream!Next]_(Stream!vars)
      <4>1. lost'
        BY <3>2 DEF RecvNoMemory
      <4> QED BY <4>1 DEF Stream!Next, Stream!Reopen
    <3>3. ASSUME ~ReadServed, ~\E n \in 1..Len(wire) : RecvNoMemory(n) PROVE same
      BY <2>3, <3>3 DEF Read, ReadStopped, RecvError, RecvClosed, ReadGivesUp, RecvSome,
                        inHist, same
    <3> QED BY <2>0, <3>1, <3>2, <3>3
  <2>4. CASE Peer
    <3>1. ASSUME NEW m \in Message, PeerWrite(m) PROVE [Stream!Next]_(Stream!vars)
      <4>1. m \in Seq(Byte) /\ m # << >> /\ written \in Seq(Byte)
        BY <3>1, SocketAssumption DEF PeerWrite, TypeOK
      <4>2. written' = written \o m /\ delivered' = delivered /\ lost' = lost
        BY <3>1 DEF PeerWrite
      <4>3. CASE lost
        BY <4>2, <4>3 DEF Stream!vars
      <4>4. CASE ~lost
        <5>1. Stream!IsStrictPrefix(written, written')
          BY <4>1, <4>2, JoinExtends
        <5>2. w = written /\ w' = written' /\ d' = d
          BY <4>2, <4>4
        <5> QED BY <5>1, <5>2 DEF Stream!Next, Stream!Write
      <4> QED BY <4>3, <4>4
    <3>2. CASE PeerClose
      <4>1. same
        BY <3>2 DEF PeerClose, inHist, same
      <4> QED BY <2>0, <4>1
    <3> QED BY <2>4, <3>1, <3>2 DEF Peer
  <2>5. CASE UNCHANGED vars
    <3>1. same
      BY <2>5 DEF vars, inHist, same
    <3> QED BY <2>0, <3>1
  <2> QED BY <2>1, <2>2, <2>3, <2>4, <2>5 DEF Next
<1> QED BY <1>1, <1>2, Typing, StreamIsIntact, PTL DEF Spec, StreamSpec, Stream!Spec
=============================================================================
