--------------------------- MODULE CommandFormat ----------------------------
(***************************************************************************)
(* What each TPM2_* function of tpm_codec.c puts into a command and takes  *)
(* out of its response, and the most bytes the types of Marshal.c take.    *)
(***************************************************************************)
EXTENDS WireTypes, FiniteSetsExt, Functions

(* A command: its code, the handles and the sessions it is sent with, the  *)
(* types of its parameters, and of the results that are unmarshaled.       *)
Command(code, handles, sessions, params, results) ==
  [code |-> code, handles |-> handles, sessions |-> sessions,
   params |-> params, results |-> results, gives |-> FALSE]

(* One that hands the handle in the response to its caller, before the     *)
(* results are unmarshaled.                                                *)
GivesHandle(command) == [command EXCEPT !.gives = TRUE]

HMAC == Command(\h155, 1, 1, <<"TPM2B_MAX_BUFFER", "TPMI_ALG_HASH">>, <<"TPM2B_DIGEST">>)

SequenceComplete ==
  Command(\h13E, 1, 1, <<"TPM2B_MAX_BUFFER", "TPMI_RH_HIERARCHY">>,
          <<"TPM2B_DIGEST", "TPMT_TK_HASHCHECK">>)

SequenceUpdate == Command(\h15C, 1, 1, <<"TPM2B_MAX_BUFFER">>, << >>)

Sign ==
  Command(\h15D, 1, 1, <<"TPM2B_DIGEST", "TPMT_SIG_SCHEME", "TPMT_TK_HASHCHECK">>,
          <<"TPMT_SIGNATURE">>)

ActivateCredential ==
  Command(\h147, 2, 2, <<"TPM2B_ID_OBJECT", "TPM2B_ENCRYPTED_SECRET">>, <<"TPM2B_DIGEST">>)

CreationInputs ==
  <<"TPM2B_SENSITIVE_CREATE", "TPM2B_PUBLIC", "TPM2B_DATA", "TPML_PCR_SELECTION">>

CreationResults ==
  <<"TPM2B_PUBLIC", "TPM2B_CREATION_DATA", "TPM2B_DIGEST", "TPMT_TK_CREATION">>

Create == Command(\h153, 1, 1, CreationInputs, <<"TPM2B_PRIVATE">> \o CreationResults)

CreatePrimary == GivesHandle(Command(\h131, 1, 1, CreationInputs, CreationResults))

EncryptDecrypt ==
  Command(\h164, 1, 1, <<"TPMI_YES_NO", "UINT16", "TPM2B_IV", "TPM2B_MAX_BUFFER">>,
          <<"TPM2B_MAX_BUFFER", "TPM2B_IV">>)

(* Two handles, of which only the first is authorized.                     *)
EvictControl == Command(\h120, 2, 1, <<"TPMI_DH_PERSISTENT">>, << >>)

FlushContext == Command(\h165, 1, 0, << >>, << >>)

GetCapability ==
  Command(\h17A, 0, 0, <<"TPM_CAP", "UINT32", "UINT32">>,
          <<"TPMI_YES_NO", "TPMS_CAPABILITY_DATA">>)

Hash ==
  Command(\h17D, 0, 0, <<"TPM2B_MAX_BUFFER", "TPMI_ALG_HASH", "TPMI_RH_HIERARCHY">>,
          <<"TPM2B_DIGEST", "TPMT_TK_HASHCHECK">>)

HashSequenceStart ==
  GivesHandle(Command(\h186, 0, 0, <<"TPM2B_DIGEST", "TPMI_ALG_HASH">>, << >>))

HMAC_Start == GivesHandle(Command(\h15B, 1, 1, <<"TPM2B_DIGEST", "TPMI_ALG_HASH">>, << >>))

Import ==
  Command(\h156, 1, 1,
          <<"TPM2B_DATA", "TPM2B_PUBLIC", "TPM2B_PRIVATE", "TPM2B_ENCRYPTED_SECRET",
            "TPMT_SYM_DEF_OBJECT">>, <<"TPM2B_PRIVATE">>)

Load ==
  GivesHandle(Command(\h157, 1, 1, <<"TPM2B_PRIVATE", "TPM2B_PUBLIC">>, <<"TPM2B_NAME">>))

PolicySecret ==
  Command(\h151, 2, 1, <<"TPM2B_DIGEST", "TPM2B_DIGEST", "TPM2B_DIGEST", "UINT32">>,
          <<"TPM2B_DIGEST", "TPMT_TK_AUTH">>)

ReadPublic == Command(\h173, 1, 0, << >>, <<"TPM2B_PUBLIC", "TPM2B_NAME", "TPM2B_NAME">>)

StartAuthSession ==
  GivesHandle(Command(\h176, 2, 0,
    <<"TPM2B_DIGEST", "TPM2B_ENCRYPTED_SECRET", "TPM_SE", "TPMT_SYM_DEF", "TPMI_ALG_HASH">>,
    <<"TPM2B_DIGEST">>))

Startup == Command(\h144, 0, 0, <<"TPM_SU">>, << >>)

Commands ==
  {HMAC, SequenceComplete, SequenceUpdate, Sign, ActivateCredential, Create, CreatePrimary,
   EncryptDecrypt, EvictControl, FlushContext, GetCapability, Hash, HashSequenceStart,
   HMAC_Start, Import, Load, PolicySecret, ReadPublic, StartAuthSession, Startup}

-----------------------------------------------------------------------------
(* The most bytes a type takes, and the fewest: with no bytes in a buffer, *)
(* no elements in a list and nothing behind a size.                        *)
Largest[t \in DOMAIN TpmSchema] ==
  LET d == TpmSchema[t] IN
  CASE d.kind = "integer" -> d.width
    [] d.kind = "bytes"   -> d.amount
    [] d.kind = "buffer"  -> d.width + d.max
    [] d.kind = "list"    -> d.width + d.max * Largest[d.element.type]
    [] d.kind = "sized"   -> d.width + Largest[d.element.type]
    [] d.kind = "union"   -> Max({Largest[d.arms[w].type] : w \in DOMAIN d.arms})
    [] d.kind = "struct"  -> SumFunction([i \in DOMAIN d.fields |-> Largest[d.fields[i].type]])

Smallest[t \in DOMAIN TpmSchema] ==
  LET d == TpmSchema[t] IN
  CASE d.kind = "integer" -> d.width
    [] d.kind = "bytes"   -> d.amount
    [] d.kind = "buffer"  -> d.width + d.min
    [] d.kind = "list"    -> d.width
    [] d.kind = "sized"   -> d.width
    [] d.kind = "union"   -> Min({Smallest[d.arms[w].type] : w \in DOMAIN d.arms})
    [] d.kind = "struct"  -> SumFunction([i \in DOMAIN d.fields |-> Smallest[d.fields[i].type]])

LargestOf(types)  == SumFunction([i \in DOMAIN types |-> Largest[types[i]]])
SmallestOf(types) == SumFunction([i \in DOMAIN types |-> Smallest[types[i]]])

(* These are numbers, for all that goes into a command and out of one.     *)
ASSUME FormatAssumption ==
  \A c \in Commands :
    /\ SmallestOf(c.params) \in Nat /\ LargestOf(c.params) \in Nat
    /\ \A i \in DOMAIN c.results :
         Smallest[c.results[i]] \in Nat /\ Largest[c.results[i]] \in Nat
=============================================================================
