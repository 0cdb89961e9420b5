------------------------------ MODULE Marshal -------------------------------
(***************************************************************************)
(* The *_Marshal functions of Marshal.c: a TPM type is written to a buffer *)
(* with room for `*size' bytes, or without a bound when size is NULL.  The *)
(* functions return the bytes the type needs, whether or not they were     *)
(* written; what was is seen in the buffer and in *size.                   *)
(***************************************************************************)
EXTENDS WireFormat

VARIABLES
  source,    \* the structure, as its integers and byte arrays
  next,      \* which of them comes next
  left,      \* the calls still to come
  capacity,  \* the room given
  bounded,   \* is there a bound at all (size # NULL)
  room,      \* *size: an INT32, negative once something did not fit
  at,        \* how far *buffer has moved
  memory,    \* the bytes written, by offset from 1
  count,     \* the UINT16 returned
  stepped    \* bytes *buffer was moved by and *size not yet charged for

mvars == <<source, next, left, capacity, bounded, room, at, memory, count, stepped>>

Idle ==
  /\ source = << >> /\ next = 1 /\ left = << >>
  /\ capacity = 0 /\ bounded = TRUE /\ room = 0
  /\ at = 0 /\ memory = << >> /\ count = 0 /\ stepped = 0

(* A call for type t, of the structure s, with room for c bytes.           *)
MarshalCall(t, s, c, b) ==
  /\ left = << >>
  /\ left' = <<CallFor([type |-> t, flag |-> "no", selector |-> 1], FALSE, 1)>>
  /\ source' = s /\ next' = 1
  /\ capacity' = c /\ bounded' = b /\ room' = c
  /\ at' = 0 /\ memory' = << >> /\ count' = 0 /\ stepped' = 0

MDone == left = << >>

Writing(kind) == left # << >> /\ KindOf(Head(left)) = kind

MDesc == Schema[Head(left).type]

(* What comes next in the structure is an integer of the type's width; or  *)
(* an array of n bytes.                                                    *)
NextIsInteger ==
  next \in DOMAIN source /\ Len(source[next]) = WordsOf(MDesc.width)
NextIsArray(n) ==
  next \in DOMAIN source /\ Len(source[next]) = n /\ source[next] \in Seq(Byte)

(* The buffer with the bytes b stored from offset o on.                    *)
Stored(b, o) ==
  [p \in DOMAIN memory \cup (o + 1 .. o + Len(b)) |->
     IF p > o /\ p <= o + Len(b) THEN b[p - o] ELSE memory[p]]

(* The return values are added up as UINT16.                               *)
Returned(n) == count' = (count + n) % 65536

(* Mutant: a byte too many fits.                                          *)
Put_OffByOne(b) ==
  /\ room' = IF bounded THEN room - Len(b) ELSE room
  /\ IF ~bounded \/ room - Len(b) >= -1
       THEN memory' = Stored(b, at) /\ at' = at + Len(b)
       ELSE UNCHANGED <<memory, at>>
  /\ Returned(Len(b))
  /\ next' = next + 1

(* UINTn_Marshal and BYTE_Array_Marshal: *size is charged in any case, the *)
(* bytes are stored only if it did not become negative.                    *)
Put(b) ==
  /\ room' = IF bounded THEN room - Len(b) ELSE room
  /\ IF ~bounded \/ room - Len(b) >= 0
       THEN memory' = Stored(b, at) /\ at' = at + Len(b)
       ELSE UNCHANGED <<memory, at>>
  /\ Returned(Len(b))
  /\ next' = next + 1

Then(calls) == left' = calls \o Tail(left)

-----------------------------------------------------------------------------
WriteInteger ==
  /\ Writing("integer") /\ NextIsInteger
  /\ Put(ToBytes(source[next], MDesc.width))
  /\ Then(<< >>)
  /\ UNCHANGED <<source, capacity, bounded, stepped>>

(* The size of a TPM2B, then its bytes; nothing after a size of 0.         *)
WriteBufferSize ==
  /\ Writing("buffer") /\ NextIsInteger
  /\ Put(ToBytes(source[next], MDesc.width))
  /\ Then(<<ArrayOf(Head(left).type, Number(source[next]))>>)
  /\ UNCHANGED <<source, capacity, bounded, stepped>>

WriteBytes ==
  /\ Writing("bytes") /\ NextIsArray(CountOf(Head(left)))
  /\ Put(source[next])
  /\ Then(<< >>)
  /\ UNCHANGED <<source, capacity, bounded, stepped>>

WriteListCount ==
  /\ Writing("list") /\ NextIsInteger
  /\ Put(ToBytes(source[next], MDesc.width))
  /\ Then(Repeated(MDesc.element, Number(source[next])))
  /\ UNCHANGED <<source, capacity, bounded, stepped>>

WriteStruct ==
  /\ Writing("struct")
  /\ Then(CallsFor(MDesc.fields, FALSE, next))
  /\ UNCHANGED <<source, next, capacity, bounded, room, at, memory, count, stepped>>

(* A selector with no arm writes nothing, and returns 0.                   *)
WriteUnion ==
  /\ Writing("union")
  /\ LET selector == source[Head(left).at] IN
       Then(IF selector \in DOMAIN MDesc.arms
              THEN <<CallFor(MDesc.arms[selector], FALSE, 1)>> ELSE << >>)
  /\ UNCHANGED <<source, next, capacity, bounded, room, at, memory, count, stepped>>

(* A sized structure: two bytes are stepped over for the size, without a   *)
(* charge, and the structure is written behind them.  The size stored in   *)
(* the source is not looked at.                                            *)
WriteSizedHeader ==
  /\ Writing("sized")
  /\ at' = at + 2
  /\ next' = next + 1
  /\ stepped' = stepped + 2
  /\ Then(<<CallFor(MDesc.element, FALSE, 1), CloseOf(Head(left).type, count, at)>>)
  /\ UNCHANGED <<source, capacity, bounded, room, memory, count>>

(* Mutants: the size is the wrong way round; it costs no room.             *)
WriteSize_Swapped ==
  /\ Writing("close")
  /\ room' = IF bounded THEN room - 2 ELSE room
  /\ IF ~bounded \/ room - 2 >= 0
       THEN /\ memory' = Stored(ToBytes(<<Head(left).n - count>>, 2), Head(left).at)
            /\ stepped' = stepped - 2
       ELSE UNCHANGED <<memory, stepped>>
  /\ Returned(2)
  /\ Then(<< >>)
  /\ UNCHANGED <<source, next, capacity, bounded, at>>

WriteSize_Free ==
  /\ Writing("close")
  /\ LET n == (count - Head(left).n) % 65536 IN
       memory' = Stored(ToBytes(<<n>>, 2), Head(left).at)
  /\ Returned(2)
  /\ Then(<< >>)
  /\ UNCHANGED <<source, next, capacity, bounded, room, at, stepped>>

(* The bytes the structure needs are its size; *size is charged only now.  *)
WriteSize ==
  /\ Writing("close")
  /\ LET n == (count - Head(left).n) % 65536 IN
     /\ room' = IF bounded THEN room - 2 ELSE room
     /\ IF ~bounded \/ room - 2 >= 0
          THEN /\ memory' = Stored(ToBytes(<<n>>, 2), Head(left).at)
               /\ stepped' = stepped - 2
          ELSE UNCHANGED <<memory, stepped>>
     /\ Returned(2)
  /\ Then(<< >>)
  /\ UNCHANGED <<source, next, capacity, bounded, at>>

MNext == \/ WriteInteger \/ WriteBufferSize \/ WriteBytes \/ WriteListCount
         \/ WriteStruct \/ WriteUnion \/ WriteSizedHeader \/ WriteSize

(* The variables have their types; what is written are bytes.              *)
MTypeOK ==
  /\ source \in Seq(Seq(Word)) /\ next \in Nat \ {0}
  /\ left \in Seq(Task)
  /\ capacity \in Nat /\ bounded \in BOOLEAN
  /\ room \in Int /\ at \in Nat /\ count \in Word /\ stepped \in Int
  /\ \A p \in DOMAIN memory : p \in Nat /\ memory[p] \in Byte
=============================================================================
