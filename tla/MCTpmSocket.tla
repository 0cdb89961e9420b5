----------------------------- MODULE MCTpmSocket -----------------------------
(***************************************************************************)
(* A small connection: two byte values, messages of one to three bytes and *)
(* the empty one the code refuses, reads of zero to three bytes, recv()    *)
(* limited to two bytes so that one message can need two of them.          *)
(***************************************************************************)
EXTENDS TpmSocket

MCByte == {"a", "b"}
MCMessage == {<<>>, <<"a">>, <<"a", "b">>, <<"b", "a", "a">>}
MCReadLen == {0, 1, 3}
=============================================================================
