----------------------------- MODULE ByteStream -----------------------------
(***************************************************************************)
(* What one direction of a TPM connection promises its reader: the bytes   *)
(* delivered are, at every moment, a prefix of the bytes the other end has *)
(* written on this connection, and both only ever grow, until the          *)
(* connection breaks off or is opened anew.  Nothing is said of how the    *)
(* bytes are cached or in how many pieces they travel.                     *)
(***************************************************************************)
EXTENDS Integers, Sequences, SequencesExt

VARIABLES written,   \* every byte written on the connection so far
          delivered  \* every byte handed to the reader so far

vars == <<written, delivered>>

Init == written = << >> /\ delivered = << >>

(* The writer appends at the end of the stream. *)
Write == /\ IsStrictPrefix(written, written')
         /\ UNCHANGED delivered

(* The reader is handed the next bytes of the stream. *)
Deliver == /\ IsStrictPrefix(delivered, delivered')
           /\ IsPrefix(delivered', written)
           /\ UNCHANGED written

(* A connection that breaks off, or a new one: the stream is empty. *)
Reopen == written' = << >> /\ delivered' = << >>

Next == Write \/ Deliver \/ Reopen

Spec == Init /\ [][Next]_vars
=============================================================================
