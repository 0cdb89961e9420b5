----------------------------- MODULE Unmarshal ------------------------------
(***************************************************************************)
(* The *_Unmarshal functions of Marshal.c: a TPM type is read from a       *)
(* buffer of which `*size' bytes are left.  One step is one function: an   *)
(* integer with its check, the size of a buffer, a byte array, or the      *)
(* expansion of a type into the calls of its fields.                       *)
(*                                                                         *)
(* The bytes of the buffer are chosen when they are read: `input' is what  *)
(* was read so far, `Offered' what a step may find there.                  *)
(***************************************************************************)
EXTENDS WireFormat

CONSTANTS Roots,     \* the types whose functions are called from outside
          Lengths,   \* the sizes of the buffer
          Offered    \* the bytes an integer or a size of a type may have, by root

ASSUME OfferedAssumption ==
  \A r, t \in Types :
    Schema[t].kind \in {"integer", "buffer", "list", "sized"} =>
      \A b \in Offered[r][t] :
        /\ b \in Seq(Byte)
        /\ Len(b) = Schema[t].width

ASSUME CallsAssumption ==
  /\ Roots \subseteq Types /\ \A r \in Roots : Schema[r].kind # "union"
  /\ Lengths \subseteq Nat

VARIABLES
  root,     \* the type asked for
  length,   \* the bytes in the buffer when it was called
  todo,     \* the calls and checks still to come
  size,     \* *size: an INT32, negative once an integer did not fit
  input,    \* the bytes read so far
  value,    \* the integers and arrays stored in the target so far
  rc        \* what the functions return

uvars == <<root, length, todo, size, input, value, rc>>

UInit ==
  /\ root \in Roots
  /\ length \in Lengths
  /\ \E flag \in BOOLEAN :
       todo = <<CallFor([type |-> root, flag |-> "same", selector |-> 1], flag, 1)>>
  /\ size = length
  /\ input = << >>
  /\ value = << >>
  /\ rc = "TPM_RC_SUCCESS"

UDone == todo = << >>

Doing(kind) == todo # << >> /\ KindOf(Head(todo)) = kind

Desc == Schema[Head(todo).type]

(* Every caller returns at the first result that is not TPM_RC_SUCCESS.    *)
Fail(code) == rc' = code /\ todo' = << >>

Continue(calls) == todo' = calls \o Tail(todo) /\ UNCHANGED rc

-----------------------------------------------------------------------------
(* UINT8/16/32/64_Unmarshal: *size is charged before it is looked at, and  *)
(* nothing is read if it does not suffice.                                 *)
TooShort ==
  /\ todo # << >> /\ KindOf(Head(todo)) \in {"integer", "buffer", "list", "sized"}
  /\ size - Desc.width < 0
  /\ size' = size - Desc.width
  /\ Fail("TPM_RC_INSUFFICIENT")
  /\ UNCHANGED <<root, length, input, value>>

(* The integer in the bytes b is read into the target.                     *)
Fetch(b) ==
  /\ size - Desc.width >= 0
  /\ size' = size - Desc.width
  /\ input' = input \o b
  /\ value' = Append(value, FromBytes(b))
  /\ UNCHANGED <<root, length>>

(* An integer, an algorithm, a handle, an attribute: read, then checked.   *)
ReadInteger ==
  /\ Doing("integer")
  /\ \E b \in Offered[root][Head(todo).type] :
       /\ Fetch(b)
       /\ IF Allowed(Desc, Head(todo).flag, FromBytes(b))
            THEN Continue(<< >>)
            ELSE Fail(Desc.code)

(* Mutant: the size is not compared with that of the array.                *)
ReadBufferSize_NoMax ==
  /\ Doing("buffer")
  /\ \E b \in Offered[root][Head(todo).type] :
       /\ Fetch(b)
       /\ LET n == Number(FromBytes(b)) IN
            IF n >= Desc.min
              THEN Continue(<<ArrayOf(Head(todo).type, n)>>)
              ELSE Fail(Desc.code)

(* The size of a TPM2B or of a PCR selection.                              *)
ReadBufferSize ==
  /\ Doing("buffer")
  /\ \E b \in Offered[root][Head(todo).type] :
       /\ Fetch(b)
       /\ LET n == Number(FromBytes(b)) IN
            IF n >= Desc.min /\ n <= Desc.max
              THEN Continue(<<ArrayOf(Head(todo).type, n)>>)
              ELSE Fail(Desc.code)

(* Mutant: *size is not looked at.                                         *)
ReadBytes_Unchecked ==
  /\ Doing("bytes")
  /\ LET n == CountOf(Head(todo)) IN
     /\ size' = size - n
     /\ input' = input \o Contents(n)
     /\ value' = Append(value, Contents(n))
  /\ Continue(<< >>)
  /\ UNCHANGED <<root, length>>

(* BYTE_Array_Unmarshal: here *size is looked at before it is charged.     *)
ReadBytes ==
  /\ Doing("bytes")
  /\ LET n == CountOf(Head(todo)) IN
       IF size < n
         THEN /\ Fail("TPM_RC_INSUFFICIENT")
              /\ UNCHANGED <<root, length, size, input, value>>
         ELSE /\ size' = size - n
              /\ input' = input \o Contents(n)
              /\ value' = Append(value, Contents(n))
              /\ Continue(<< >>)
              /\ UNCHANGED <<root, length>>

(* The count of a TPML, then the loop of its *_Array_Unmarshal.            *)
ReadListCount ==
  /\ Doing("list")
  /\ \E b \in Offered[root][Head(todo).type] :
       /\ Fetch(b)
       /\ LET n == Number(FromBytes(b)) IN
            IF n >= Desc.min /\ n <= Desc.max
              THEN Continue(Repeated(Desc.element, n))
              ELSE Fail(Desc.code)

(* The fields of a structure, in order.                                    *)
ReadStruct ==
  /\ Doing("struct")
  /\ Continue(CallsFor(Desc.fields, Head(todo).flag, Len(value) + 1))
  /\ UNCHANGED <<root, length, size, input, value>>

(* A union reads the arm of its selector, which was read before it.        *)
ReadUnion ==
  /\ Doing("union")
  /\ LET selector == value[Head(todo).at] IN
       IF selector \in DOMAIN Desc.arms
         THEN Continue(<<CallFor(Desc.arms[selector], FALSE, 1)>>)
         ELSE Fail("TPM_RC_SELECTOR")
  /\ UNCHANGED <<root, length, size, input, value>>

(* The size in front of a structure: 0 is refused, except for a type that  *)
(* may be empty: the structure itself is not touched then.                 *)
ReadSizedHeader ==
  /\ Doing("sized")
  /\ \E b \in Offered[root][Head(todo).type] :
       LET n == Number(FromBytes(b)) IN
       /\ size - Desc.width >= 0
       /\ size' = size - Desc.width
       /\ input' = input \o b
       /\ IF n = 0 /\ Desc.empty
            THEN /\ value' = value \o <<FromBytes(b), Untouched>>
                 /\ Continue(<< >>)
            ELSE /\ value' = Append(value, FromBytes(b))
                 /\ IF n = 0
                      THEN Fail("TPM_RC_SIZE")
                      ELSE Continue(<<CallFor(Desc.element, Head(todo).flag, 1),
                                      CloseOf(Head(todo).type, n, size')>>)
       /\ UNCHANGED <<root, length>>

(* Mutant: the structure may be shorter than its size said.                *)
CloseSized_Within ==
  /\ Doing("close")
  /\ IF Head(todo).n < Head(todo).at - size
       THEN Fail("TPM_RC_SIZE")
       ELSE Continue(<< >>)
  /\ UNCHANGED <<root, length, size, input, value>>

(* The structure is read: what it took must be what its size said.         *)
CloseSized ==
  /\ Doing("close")
  /\ IF Head(todo).n # Head(todo).at - size
       THEN Fail("TPM_RC_SIZE")
       ELSE Continue(<< >>)
  /\ UNCHANGED <<root, length, size, input, value>>

UNext == \/ TooShort \/ ReadInteger \/ ReadBufferSize \/ ReadBytes \/ ReadListCount
         \/ ReadStruct \/ ReadUnion \/ ReadSizedHeader \/ CloseSized

USpec == UInit /\ [][UNext]_uvars

(* What the functions return: a result of a check, or of a type's own.     *)
Results ==
  {"TPM_RC_SUCCESS", "TPM_RC_INSUFFICIENT", "TPM_RC_SELECTOR", "TPM_RC_SIZE"}
    \cup {Schema[t].code : t \in {u \in Types :
            Schema[u].kind \in {"integer", "buffer", "list"}}}

(* The variables have their types.                                         *)
UTypeOK ==
  /\ root \in Types /\ length \in Nat /\ size \in Int
  /\ todo \in Seq(Task)
  /\ input \in Seq(Byte)
  /\ value \in Seq(Value)
  /\ rc \in Results
=============================================================================
