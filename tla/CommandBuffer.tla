--------------------------- MODULE CommandBuffer ----------------------------
(***************************************************************************)
(* TSS_BuildCommand of tpm_codec.c: a command put together in a buffer of  *)
(* a given capacity.                                                       *)
(*                                                                         *)
(* The buffer is kept as the pieces that were stored in it, by the offset  *)
(* of their first byte.  A piece is a number of bytes and what they are:   *)
(* a part of the command, and for a size field the value in it.            *)
(***************************************************************************)
EXTENDS Integers, Sequences

CONSTANT Null   \* the NULL pointer

Piece(bytes, part, value) == [bytes |-> bytes, part |-> part, value |-> value]

STD_RESPONSE_HEADER == 10

(* The codes TSS_BuildCommand accepts.                                     *)
KnownCode == \h11F .. \h193

NewBuffer(capacity) == [at |-> 0, room |-> capacity, memory |-> << >>]

StoredAt(memory, o, piece) ==
  [p \in DOMAIN memory \cup {o} |-> IF p = o THEN piece ELSE memory[p]]

(* Integers and arrays are stored where the buffer pointer is; the room    *)
(* left is charged in any case, and once it is negative stays so.          *)
Put(b, piece) ==
  LET room == b.room - piece.bytes IN
  IF room < 0 THEN [b EXCEPT !.room = room]
  ELSE [at |-> b.at + piece.bytes, room |-> room,
        memory |-> IF piece.bytes = 0 THEN b.memory ELSE StoredAt(b.memory, b.at, piece)]

(* A size known only later is stored again where it was, without a bound.  *)
Patch(b, o, piece) == [b EXCEPT !.memory = StoredAt(@, o, piece)]

PutAll(b, pieces) ==
  LET after[n \in 0 .. Len(pieces)] == IF n = 0 THEN b ELSE Put(after[n - 1], pieces[n])
  IN  after[Len(pieces)]

(* Where each of some fields ends, from none of them on, and all of them.  *)
Ends(sizes) ==
  LET end[n \in 0 .. Len(sizes)] == IF n = 0 THEN 0 ELSE end[n - 1] + sizes[n] IN end

SumOf(sizes) == Ends(sizes)[Len(sizes)]

Sizes(pieces)   == [i \in 1 .. Len(pieces) |-> pieces[i].bytes]
BytesOf(pieces) == SumOf(Sizes(pieces))

-----------------------------------------------------------------------------
(* A call asks for a code; for handles and sessions, which are sequences   *)
(* or a NULL pointer with a count; for params bytes of parameters; and it  *)
(* gives the capacity of the buffer.  A session is its handle, nonce,      *)
(* attributes and hmac, the nonce and the hmac with a size of two bytes.   *)
CallOK(a) ==
  /\ a.numHandles \in Nat /\ a.numSessions \in Nat /\ a.params \in Nat /\ a.capacity \in Int
  /\ a.sessions # Null =>
       \A i \in 1 .. a.numSessions : a.sessions[i].nonce \in Nat /\ a.sessions[i].hmac \in Nat

CountsAgree(a) ==
  /\ a.handles = Null => a.numHandles = 0
  /\ a.sessions = Null => a.numSessions = 0

AuthCommand(session) ==
  <<Piece(4, "sessionHandle", session.handle), Piece(2, "nonce.size", session.nonce),
    Piece(session.nonce, "nonce", session.handle), Piece(1, "sessionAttributes", session.handle),
    Piece(2, "hmac.size", session.hmac), Piece(session.hmac, "hmac", session.handle)>>

Handles(a) ==
  [i \in 1 .. a.numHandles |-> Piece(4, "handle", a.handles[i])]

(* The six pieces of each session, one session behind the other.           *)
Authorizations(a) ==
  [i \in 1 .. 6 * a.numSessions |->
     AuthCommand(a.sessions[((i - 1) \div 6) + 1])[((i - 1) % 6) + 1]]

Header(a) ==
  <<Piece(2, "tag", IF a.sessions = Null THEN "TPM_ST_NO_SESSIONS" ELSE "TPM_ST_SESSIONS"),
    Piece(4, "size", 2), Piece(4, "code", a.code)>>

(* Mutant: a buffer of any capacity is taken.                              *)
Refused_NoMinimum(a) == a.code \notin KnownCode \/ ~CountsAgree(a)

(* Invalid arguments, for which nothing is stored and 0 returned.          *)
Refused(a) ==
  \/ a.code \notin KnownCode
  \/ ~CountsAgree(a)
  \/ a.capacity < STD_RESPONSE_HEADER

(* The authorization area: a size, then the sessions, then the size again. *)
WithSessions(b, a) ==
  IF a.numSessions = 0 THEN b
  ELSE LET whole == PutAll(Put(b, Piece(4, "authSize", 0)), Authorizations(a)) IN
       Patch(whole, b.at, Piece(4, "authSize", BytesOf(Authorizations(a))))

WithParams(b, a) ==
  IF a.params = 0 THEN b ELSE Put(b, Piece(a.params, "params", a.params))

(* Mutant: the size of the authorization area is not part of the total.    *)
SizeOf_NoAuthSize(a) ==
  BytesOf(Header(a)) + BytesOf(Handles(a)) + BytesOf(Authorizations(a)) + a.params

(* The bytes the command needs: the marshal functions count what did not   *)
(* fit as well.                                                            *)
SizeOf(a) ==
  BytesOf(Header(a)) + BytesOf(Handles(a))
  + (IF a.numSessions = 0 THEN 0 ELSE 4 + BytesOf(Authorizations(a)))
  + a.params

TSS_BuildCommand(a) ==
  IF Refused(a) THEN [size |-> 0, memory |-> << >>]
  ELSE LET named == PutAll(PutAll(NewBuffer(a.capacity), Header(a)), Handles(a))
           whole == WithParams(WithSessions(named, a), a)
       IN  [size |-> SizeOf(a),
            memory |-> Patch(whole, 2, Piece(4, "size", SizeOf(a))).memory]
=============================================================================
