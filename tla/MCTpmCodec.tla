----------------------------- MODULE MCTpmCodec -----------------------------
(***************************************************************************)
(* Values for TpmCodec: two programs with key templates of their own.      *)
(* Tokens are signed in pieces of the input buffer, or in one piece, and   *)
(* are below, at and above MAX_DIGEST_BUFFER and a multiple of a piece.    *)
(***************************************************************************)
EXTENDS TpmCodec

MCTemplate == [c \in Client |-> IF c = "p" THEN "k1" ELSE "k2"]
=============================================================================
