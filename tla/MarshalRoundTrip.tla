-------------------------- MODULE MarshalRoundTrip --------------------------
(***************************************************************************)
(* A structure is unmarshaled and, if it was accepted, marshaled again     *)
(* with less, enough or more room than it needs, or with no bound.         *)
(***************************************************************************)
EXTENDS Unmarshal, Marshal

CONSTANT Slack   \* how much more room than needed the second call is given

ASSUME SlackAssumption == Slack \subseteq Int

VARIABLE phase

vars == <<uvars, mvars, phase>>

Init == UInit /\ Idle /\ phase = "reading"

Reading == /\ phase = "reading"
           /\ UNext
           /\ UNCHANGED <<mvars, phase>>

(* All of a structure was read: an empty TPM2B_SENSITIVE leaves most of it *)
(* as it was.                                                              *)
Accepted == /\ phase = "reading" /\ UDone /\ rc = "TPM_RC_SUCCESS"
            /\ \A i \in DOMAIN value : value[i] # Untouched

Again ==
  /\ Accepted
  /\ \/ \E d \in Slack : /\ Len(input) + d >= 0
                         /\ MarshalCall(root, value, Len(input) + d, TRUE)
     \/ MarshalCall(root, value, 0, FALSE)
  /\ phase' = "writing"
  /\ UNCHANGED uvars

Writes == /\ phase = "writing"
          /\ MNext
          /\ UNCHANGED <<uvars, phase>>

(* Nothing is left to do: an accepted structure was written, another not.  *)
Finished == /\ UDone /\ MDone /\ ~Accepted
            /\ UNCHANGED vars

Next == Reading \/ Again \/ Writes \/ Finished

Spec == Init /\ [][Next]_vars

Written == phase = "writing" /\ MDone

-----------------------------------------------------------------------------
(* The variables have their types.                                         *)
TypeOK == UTypeOK /\ MTypeOK /\ phase \in {"reading", "writing"}

(* What the unmarshal functions take from the buffer and what they charge  *)
(* to *size are the same, and never more than the buffer has: *size is     *)
(* negative only after a first integer did not fit, which ends the call.   *)
ReadsStayInside ==
  /\ Len(input) <= length
  /\ IF size >= 0 THEN Len(input) + size = length
                  ELSE UDone /\ rc = "TPM_RC_INSUFFICIENT"

(* A type has one encoding.  Marshaling an accepted structure puts back    *)
(* the bytes it came from, size fields included, each where it came from;  *)
(* given too little room, a selection of them.                             *)
OneEncoding ==
  phase = "writing" =>
    \A p \in DOMAIN memory : p <= Len(input) /\ memory[p] = input[p]

(* A marshal function returns the size of the structure whatever the room  *)
(* it is given: callers size a buffer by it, and then write it.  *size     *)
(* ends as the room less that, and so tells a caller whether every byte    *)
(* was written, which the returned size does not.                          *)
RoomTells ==
  Written =>
    /\ count = Len(input)
    /\ bounded => room = capacity - count
    /\ ~bounded \/ room >= 0 <=> DOMAIN memory = 1 .. count

(* Nothing is written past the room given, but for the two bytes of a size *)
(* field that were stepped over and not yet charged.                       *)
WritesStayInRoom ==
  bounded => \A p \in DOMAIN memory : p <= capacity + stepped

(* A size field waiting for its size lies behind the point reached; and    *)
(* as long as the room was enough, what was charged is what was written    *)
(* or stepped over.                                                        *)
Behind(o) == {k \in Task : k.do = "close" => k.at + 2 <= o}

ClosesBehind == left \in Seq(Behind(at))

RoomIsKept ==
  bounded /\ room >= 0 => /\ at + room = capacity + stepped
                         /\ \A p \in DOMAIN memory : p <= at

WriteInv == ClosesBehind /\ RoomIsKept /\ WritesStayInRoom

(* The inductive invariant of the proofs: the types, and where the reading *)
(* and the writing calls are.                                              *)
MarshalInv == TypeOK /\ ReadsStayInside /\ WriteInv
=============================================================================
