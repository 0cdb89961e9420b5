----------------------------- MODULE WireFormat -----------------------------
(***************************************************************************)
(* What Marshal and Unmarshal share: the description of a TPM type, the    *)
(* byte order of integers, and the calls a type expands to.                *)
(*                                                                         *)
(* An integer is the sequence of its 16 bit words, most significant first, *)
(* so that a UINT32 fits TLC's integers; a UINT8 is one word below 256.  A *)
(* structure in memory is the sequence of its integers and byte arrays in  *)
(* the order of its fields.                                                *)
(***************************************************************************)
EXTENDS Integers, Sequences

CONSTANTS Types,   \* the names of the types
          Schema   \* the description of each type, by name

Byte == 0 .. 255
Word == 0 .. 65535

(* A part of a structure that was left as the caller had it.               *)
Untouched == << -1 >>

Value == Seq(Word) \cup {Untouched}

(* The fields of a description that the kind of the type gives a meaning:  *)
(*   integer : width bytes, checked against ranges, null and mask; code    *)
(*             is what a failed check returns, TPM_RC_SUCCESS if there is   *)
(*             none, as in UINT16_Unmarshal                                 *)
(*   bytes   : exactly `amount' bytes, with no size in front               *)
(*   buffer  : a size of `width' bytes between min and max, then the bytes *)
(*   list    : a UINT32 count between min and max, then that many elements *)
(*   struct  : fields, one after the other                                 *)
(*   union   : arms, a field for each value of its selector                *)
(*   sized   : a UINT16 size, then one structure of exactly that size;     *)
(*             `empty' if the size may be 0 and nothing follow             *)
(* A field names its type, the flag passed to the unmarshal function, and, *)
(* for a union, which integer of the structure is the selector.            *)
Field == [type : Types, flag : {"no", "yes", "same"}, selector : Nat]

Shape(d) ==
  /\ d.kind \in {"integer", "bytes", "buffer", "list", "struct", "union", "sized"}
  /\ d.kind \in {"integer", "buffer", "list", "sized"} => d.width \in {1, 2, 4, 8}
  /\ d.kind = "bytes" => d.amount \in Nat
  /\ d.kind \in {"buffer", "list"} => /\ d.min \in Nat /\ d.max \in Nat
                                     /\ d.code # "TPM_RC_SUCCESS"
  /\ d.kind = "list" => d.element \in Field
  /\ d.kind = "struct" => d.fields \in Seq(Field)
  /\ d.kind = "union" => \A w \in DOMAIN d.arms : d.arms[w] \in Field
  /\ d.kind = "sized" => /\ d.width = 2
                         /\ d.element \in Field
                         /\ d.empty \in BOOLEAN

ASSUME SchemaAssumption == \A t \in Types : Shape(Schema[t])

(* A union is a field of a structure and comes after its selector, which   *)
(* is one of the integers that the structure begins with.                  *)
IsUnion(f) == Schema[f.type].kind = "union"

SelectorIsRead(fields, i) ==
  /\ fields[i].selector \in 1 .. i - 1
  /\ \A j \in 1 .. fields[i].selector : Schema[fields[j].type].kind = "integer"

ASSUME UnionAssumption ==
  \A t \in Types : LET d == Schema[t] IN
    /\ d.kind = "struct" =>
         \A i \in DOMAIN d.fields : IsUnion(d.fields[i]) => SelectorIsRead(d.fields, i)
    /\ d.kind \in {"list", "sized"} => ~IsUnion(d.element)
    /\ d.kind = "union" => \A w \in DOMAIN d.arms : ~IsUnion(d.arms[w])

-----------------------------------------------------------------------------
(* Byte order: the most significant byte travels first.                    *)
FromBytes(b) ==
  IF Len(b) = 1 THEN b
  ELSE [i \in 1 .. Len(b) \div 2 |-> 256 * b[2 * i - 1] + b[2 * i]]

ToBytes(v, width) ==
  IF width = 1 THEN <<v[1] % 256>>
  ELSE [i \in 1 .. width |-> IF i % 2 = 1 THEN v[(i + 1) \div 2] \div 256
                                          ELSE v[i \div 2] % 256]

(* The words of an integer.                                                *)
WordsOf(width) == IF width = 1 THEN 1 ELSE width \div 2

(* The number a size or a count stands for.                                *)
Number(v) == IF Len(v) = 1 THEN v[1] ELSE 65536 * v[1] + v[2]

(* The contents of a byte array, which the code copies and never reads.    *)
Contents(n) == [i \in 1 .. n |-> i % 256]

(* Integers compared from their most significant word on.                  *)
AtMost(v, w) ==
  \/ v = w
  \/ \E i \in DOMAIN v : v[i] < w[i] /\ \A j \in 1 .. i - 1 : v[j] = w[j]

NoCommonBit(v, w) == \A b \in 0 .. 15 : ((v \div 2^b) % 2) + ((w \div 2^b) % 2) < 2

(* The checks on an integer once read: the null value is taken or refused  *)
(* by the flag, any other must lie in a range and set no reserved bit.     *)
Allowed(d, flag, v) ==
  \/ d.code = "TPM_RC_SUCCESS"
  \/ IF v \in d.null THEN flag
     ELSE /\ \E r \in d.ranges : AtMost(r[1], v) /\ AtMost(v, r[2])
          /\ \A i \in DOMAIN v : NoCommonBit(v[i], d.mask[i])

-----------------------------------------------------------------------------
(* What is still to be done, first thing first: a call for a field, the    *)
(* bytes of an array, or the end of a sized structure.                     *)
Task == [do   : {"call", "bytes", "close"},
         type : Types,
         flag : BOOLEAN,
         n    : Nat,      \* bytes: how many; close: the size, or count before it
         at   : Nat]      \* call: where the selector is; close: where it began

(* The call for field f of a type called with `flag', when the first       *)
(* integer of the structure is the value number `base'.                    *)
CallFor(f, flag, base) ==
  [do   |-> "call",
   type |-> f.type,
   flag |-> IF f.flag = "same" THEN flag ELSE f.flag = "yes",
   n    |-> 0,
   at   |-> base + f.selector - 1]

ArrayOf(t, n) == [do |-> "bytes", type |-> t, flag |-> FALSE, n |-> n, at |-> 0]

CloseOf(t, n, at) == [do |-> "close", type |-> t, flag |-> FALSE, n |-> n, at |-> at]

CallsFor(fields, flag, base) ==
  [i \in 1 .. Len(fields) |-> CallFor(fields[i], flag, base)]

Repeated(f, n) == [i \in 1 .. n |-> CallFor(f, FALSE, 1)]

(* The kind of work a task is, and its number of bytes if it is an array.  *)
KindOf(k) == IF k.do = "call" THEN Schema[k.type].kind ELSE k.do

CountOf(k) == IF k.do = "bytes" THEN k.n ELSE Schema[k.type].amount
=============================================================================
