------------------------------ MODULE MCSimComm ------------------------------
(***************************************************************************)
(* Values for SimComm: responses of one and two bytes, and one of three    *)
(* that overflows the caller's buffer of two.                              *)
(***************************************************************************)
EXTENDS SimComm
=============================================================================
