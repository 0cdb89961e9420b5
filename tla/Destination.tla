----------------------------- MODULE Destination -----------------------------
(***************************************************************************)
(* The unmarshal functions and the structures they fill: the bounds that   *)
(* Marshal.c checks, with constants of its own, against the arrays that    *)
(* TpmTypes.h declares.                                                    *)
(***************************************************************************)
EXTENDS MarshalRoundTrip

CONSTANTS
  StructureSize,   \* sizeof the structure of a type, and
  ArrayElements    \* the length of the array it ends with: see Structures

(* The array that the first thing to do is about to fill is long enough.   *)
ArrayHolds(k) ==
  /\ KindOf(k) = "bytes" => CountOf(k) <= ArrayElements[k.type]
  /\ KindOf(k) = "list"  => Schema[k.type].max <= ArrayElements[k.type]

(* An unmarshal function writes no array past its end.  And a structure is *)
(* no longer on the wire than in memory, which is what a TPM2B that has    *)
(* sizeof a structure for an array, to hold it marshaled, relies on.       *)
DestinationHolds ==
  /\ todo # << >> => ArrayHolds(Head(todo))
  /\ Accepted => Len(input) <= StructureSize[root]
=============================================================================
