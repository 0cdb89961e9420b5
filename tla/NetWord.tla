------------------------------ MODULE NetWord ------------------------------
(***************************************************************************)
(* The 32-bit words the emulator and the user mode resource manager frame  *)
(* their messages with (send_sync_cmd, read_sync_cmd).                     *)
(***************************************************************************)
EXTENDS Integers, Sequences

(* htonl on a little-endian host: the most significant byte goes first,    *)
(* and comes first.                                                        *)
WordLen == 4
Word(n) == <<(n \div 16777216) % 256, (n \div 65536) % 256, (n \div 256) % 256, n % 256>>
Value(s) == 16777216 * s[1] + 65536 * s[2] + 256 * s[3] + s[4]
=============================================================================
