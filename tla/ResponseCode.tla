---------------------------- MODULE ResponseCode ----------------------------
(***************************************************************************)
(* TPM response codes (inc/azure_utpm_c/TpmTypes.h) and what the codec     *)
(* makes of them: CleanResponseCode of src/tpm_codec.c.  A code is a       *)
(* 32-bit word, kept as its upper and lower 16 bits; the codes of the TPM  *)
(* itself have an upper half of 0 and are written as their lower half.     *)
(***************************************************************************)
EXTENDS Integers

RC_VER1 == 256
RC_FMT1 == 128
RC_WARN == 2304

TPM_RC_SUCCESS       == 0
TPM_RC_BAD_TAG       == 30
TPM_RC_INITIALIZE    == 256     \* RC_VER1 + 0x00
TPM_RC_FAILURE       == 257     \* RC_VER1 + 0x01
TPM_RC_COMMAND_SIZE  == 322     \* RC_VER1 + 0x42
TPM_RC_COMMAND_CODE  == 323     \* RC_VER1 + 0x43
TPM_RC_NV_DEFINED    == 332     \* RC_VER1 + 0x4C
TPM_RC_VALUE         == 132     \* RC_FMT1 + 0x04
TPM_RC_HANDLE        == 139     \* RC_FMT1 + 0x0B
TPM_RC_NONCE         == 143     \* RC_FMT1 + 0x0F
TPM_RC_SIZE          == 149     \* RC_FMT1 + 0x15
TPM_RC_INSUFFICIENT  == 154     \* RC_FMT1 + 0x1A
TPM_RC_POLICY_FAIL   == 157     \* RC_FMT1 + 0x1D
TPM_RC_OBJECT_MEMORY == 2306    \* RC_WARN + 0x02
TPM_RC_SESSION_MEMORY == 2307   \* RC_WARN + 0x03
TPM_RC_RETRY         == 2338    \* RC_WARN + 0x22
TPM_RC_NOT_USED      == 2431    \* RC_WARN + 0x7F

TPM_RC_P == 64      \* the error is about a parameter
TPM_RC_S == 2048    \* the error is about a session
TPM_RC_1 == 256     \* times the number of the handle, session or parameter

(* A TBS or simulator protocol error: 0x8028xxxx. *)
IsCommMediumError(hi) == hi = 32808

(* raw & (RC_FMT1 | 0x3F): the format bit and the six bits of the error.   *)
(* raw & TPM_RC_NOT_USED (0x97F): bits 0 to 6, 8 and 11.                   *)
CleanCode(lo) ==
  IF (lo \div RC_FMT1) % 2 = 1
    THEN RC_FMT1 + (lo % 64)
    ELSE (lo % 128) + 256 * ((lo \div 256) % 2) + 2048 * ((lo \div 2048) % 2)

(* Both masks clear the upper half. *)
CleanResponseCode(hi, lo) ==
  IF IsCommMediumError(hi) THEN <<hi, lo>> ELSE <<0, CleanCode(lo)>>

(* The codes the header defines, by format; TPM_RC_NOT_USED is the largest *)
(* of the warnings.                                                        *)
VersionOneCode == {RC_VER1 + i : i \in {0, 1, 3, 11, 25} \cup 32..33 \cup 36..40
                                        \cup 45..49 \cup 66..76 \cup 80..85}
FormatOneCode == {RC_FMT1 + i : i \in (1..5) \cup (7..16) \cup {18} \cup (21..24)
                                       \cup (26..29) \cup (31..39)}
WarningCode == {RC_WARN + i : i \in (1..10) \cup (16..22) \cup (24..30)
                                     \cup (32..35) \cup {127}}
DefinedCode == {TPM_RC_SUCCESS, TPM_RC_BAD_TAG} \cup VersionOneCode \cup FormatOneCode \cup WarningCode

(* A format-one code says where the error is: parameter 1 to 15, or        *)
(* handle or session 1 to 7.                                               *)
Location == {TPM_RC_P + n * TPM_RC_1 : n \in 1..15}
            \cup {n * TPM_RC_1 : n \in 1..7}
            \cup {TPM_RC_S + n * TPM_RC_1 : n \in 1..7}
=============================================================================
