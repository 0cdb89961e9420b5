----------------------------- MODULE Structures -----------------------------
(***************************************************************************)
(* The structures of TpmTypes.h that Marshal.c unmarshals into: how long   *)
(* their arrays are and what sizeof gives for them, with the alignment of  *)
(* a machine that aligns an integer to its size.                           *)
(*                                                                         *)
(* A type has the name of WireTypes; one that the header only renames      *)
(* stands for the other.                                                   *)
(***************************************************************************)
EXTENDS WireTypes, FiniteSetsExt, SequencesExt

(* A member of a type: one of it, an array of n, an array of bytes as long *)
(* as another type, or as many as a capability has room for.               *)
One(t)      == [type |-> t, many |-> "one", n |-> 1, as |-> t]
Array(t, n) == [One(t) EXCEPT !.many = "n", !.n = n]
BytesAs(t)  == [One("UINT8") EXCEPT !.many = "sizeof", !.as = t]
Share(t)    == [One(t) EXCEPT !.many = "share"]

CStruct(members) == [kind |-> "struct", members |-> members]
CUnion(members)  == [kind |-> "union", members |-> members]
Scalar(width)    == [kind |-> "scalar", width |-> width, members |-> << >>]

OneOfEach(types) == [i \in DOMAIN types |-> One(types[i])]
StructOf(types)  == CStruct(OneOfEach(types))
UnionOf(types)   == CUnion(OneOfEach(types))

(* A TPM2B: its array behind a UINT16.  The union with TPM2B makes it no   *)
(* longer, but for an array of less than two bytes.                        *)
Counted(array) == CStruct(<<One("UINT16"), array>>)

-----------------------------------------------------------------------------
MAX_DIGEST_SIZE == 64        (* SHA512_DIGEST_SIZE, the longest             *)
HASH_COUNT == 4
MAX_ECC_KEY_BYTES == 32
MAX_RSA_KEY_BYTES == 256
MAX_SYM_KEY_BYTES == 32
MAX_SYM_BLOCK_SIZE == 16
MAX_SYM_DATA == 128
MAX_DIGEST_BUFFER == 1024
MAX_NV_BUFFER_SIZE == 1024
MAX_CONTEXT_SIZE == 2474
MAX_ALG_LIST_SIZE == 64
PCR_SELECT_MAX == (24 + 7) \div 8
LABEL_MAX_BUFFER == MAX_DIGEST_SIZE
PRIVATE_VENDOR_SPECIFIC_BYTES == (MAX_RSA_KEY_BYTES \div 2) * (3 + 2)

MAX_CAP_BUFFER == 1024
MAX_CAP_DATA == MAX_CAP_BUFFER - 4 - 4

(* The integers have the size they have on the wire; the attributes are    *)
(* bit fields of an unsigned, of four bytes.                               *)
ScalarTypes ==
  [t \in {u \in DOMAIN TpmSchema : TpmSchema[u].kind = "integer"} |->
     Scalar(IF t = "TPMA_SESSION" THEN 4 ELSE TpmSchema[t].width)]
  @@ "TPMA_LOCALITY" :> Scalar(4) @@ "TPMS_EMPTY" :> Scalar(1)

DigestStructures ==
  "TPMS_ALGORITHM_DESCRIPTION" :> StructOf(<<"UINT16", "TPMA_ALGORITHM">>)
  @@ "SHA1_DIGEST" :> CStruct(<<Array("UINT8", 20)>>)
  @@ "SHA256_DIGEST" :> CStruct(<<Array("UINT8", 32)>>)
  @@ "SHA384_DIGEST" :> CStruct(<<Array("UINT8", 48)>>)
  @@ "SHA512_DIGEST" :> CStruct(<<Array("UINT8", 64)>>)
  @@ "TPMU_HA" :> UnionOf(<<"SHA1_DIGEST", "SHA256_DIGEST", "SHA384_DIGEST", "SHA512_DIGEST">>)
  @@ "TPMT_HA" :> StructOf(<<"UINT16", "TPMU_HA">>)
  @@ "TPM2B_DIGEST" :> Counted(BytesAs("TPMU_HA"))
  @@ "TPM2B_DATA" :> Counted(BytesAs("TPMT_HA"))
  @@ "TPM2B_EVENT" :> Counted(Array("UINT8", 1024))
  @@ "TPM2B_MAX_BUFFER" :> Counted(Array("UINT8", MAX_DIGEST_BUFFER))
  @@ "TPM2B_MAX_NV_BUFFER" :> Counted(Array("UINT8", MAX_NV_BUFFER_SIZE))
  @@ "TPM2B_IV" :> Counted(Array("UINT8", MAX_SYM_BLOCK_SIZE))
  @@ "TPMU_NAME" :> UnionOf(<<"TPMT_HA", "UINT32">>)
  @@ "TPM2B_NAME" :> Counted(BytesAs("TPMU_NAME"))
  @@ "TPMS_PCR_SELECT" :> CStruct(<<One("UINT8"), Array("UINT8", PCR_SELECT_MAX)>>)
  @@ "TPMS_PCR_SELECTION" :>
       CStruct(<<One("UINT16"), One("UINT8"), Array("UINT8", PCR_SELECT_MAX)>>)

ListOf(array) == CStruct(<<One("UINT32"), array>>)

ListStructures ==
  [t \in {"TPMT_TK_CREATION", "TPMT_TK_VERIFIED", "TPMT_TK_AUTH", "TPMT_TK_HASHCHECK"} |->
     StructOf(<<"UINT16", "UINT32", "TPM2B_DIGEST">>)]
  @@ "TPMS_ALG_PROPERTY" :> StructOf(<<"UINT16", "TPMA_ALGORITHM">>)
  @@ "TPMS_TAGGED_PROPERTY" :> StructOf(<<"UINT32", "UINT32">>)
  @@ "TPMS_TAGGED_PCR_SELECT" :>
       CStruct(<<One("UINT32"), One("UINT8"), Array("UINT8", PCR_SELECT_MAX)>>)
  @@ "TPMS_TAGGED_POLICY" :> StructOf(<<"UINT32", "TPMT_HA">>)
  @@ "TPML_CC" :> ListOf(Share("UINT32")) @@ "TPML_CCA" :> ListOf(Share("TPMA_CC"))
  @@ "TPML_ALG" :> ListOf(Array("UINT16", MAX_ALG_LIST_SIZE))
  @@ "TPML_HANDLE" :> ListOf(Share("UINT32"))
  @@ "TPML_DIGEST" :> ListOf(Array("TPM2B_DIGEST", 8))
  @@ "TPML_DIGEST_VALUES" :> ListOf(Array("TPMT_HA", HASH_COUNT))
  @@ "TPML_PCR_SELECTION" :> ListOf(Array("TPMS_PCR_SELECTION", HASH_COUNT))
  @@ "TPML_ALG_PROPERTY" :> ListOf(Share("TPMS_ALG_PROPERTY"))
  @@ "TPML_TAGGED_TPM_PROPERTY" :> ListOf(Share("TPMS_TAGGED_PROPERTY"))
  @@ "TPML_TAGGED_PCR_PROPERTY" :> ListOf(Share("TPMS_TAGGED_PCR_SELECT"))
  @@ "TPML_ECC_CURVE" :> ListOf(Share("UINT16"))
  @@ "TPML_TAGGED_POLICY" :> ListOf(Share("TPMS_TAGGED_POLICY"))
  @@ "TPMU_CAPABILITIES" :>
       UnionOf(<<"TPML_ALG_PROPERTY", "TPML_HANDLE", "TPML_CCA", "TPML_CC", "TPML_PCR_SELECTION",
                 "TPML_TAGGED_TPM_PROPERTY", "TPML_TAGGED_PCR_PROPERTY", "TPML_ECC_CURVE",
                 "TPML_TAGGED_POLICY">>)
  @@ "TPMS_CAPABILITY_DATA" :> StructOf(<<"TPM_CAP", "TPMU_CAPABILITIES">>)

AttestStructures ==
  "TPMS_CLOCK_INFO" :> StructOf(<<"UINT64", "UINT32", "UINT32", "TPMI_YES_NO">>)
  @@ "TPMS_TIME_INFO" :> StructOf(<<"UINT64", "TPMS_CLOCK_INFO">>)
  @@ "TPMS_TIME_ATTEST_INFO" :> StructOf(<<"TPMS_TIME_INFO", "UINT64">>)
  @@ "TPMS_CERTIFY_INFO" :> StructOf(<<"TPM2B_NAME", "TPM2B_NAME">>)
  @@ "TPMS_QUOTE_INFO" :> StructOf(<<"TPML_PCR_SELECTION", "TPM2B_DIGEST">>)
  @@ "TPMS_COMMAND_AUDIT_INFO" :>
       StructOf(<<"UINT64", "UINT16", "TPM2B_DIGEST", "TPM2B_DIGEST">>)
  @@ "TPMS_SESSION_AUDIT_INFO" :> StructOf(<<"TPMI_YES_NO", "TPM2B_DIGEST">>)
  @@ "TPMS_CREATION_INFO" :> StructOf(<<"TPM2B_NAME", "TPM2B_DIGEST">>)
  @@ "TPMS_NV_CERTIFY_INFO" :> StructOf(<<"TPM2B_NAME", "UINT16", "TPM2B_MAX_NV_BUFFER">>)
  @@ "TPMU_ATTEST" :>
       UnionOf(<<"TPMS_CERTIFY_INFO", "TPMS_CREATION_INFO", "TPMS_QUOTE_INFO",
                 "TPMS_COMMAND_AUDIT_INFO", "TPMS_SESSION_AUDIT_INFO", "TPMS_TIME_ATTEST_INFO",
                 "TPMS_NV_CERTIFY_INFO">>)
  @@ "TPMS_ATTEST" :>
       StructOf(<<"UINT32", "UINT16", "TPM2B_NAME", "TPM2B_DATA", "TPMS_CLOCK_INFO", "UINT64",
                  "TPMU_ATTEST">>)
  @@ "TPM2B_ATTEST" :> Counted(BytesAs("TPMS_ATTEST"))
  @@ "TPMS_AUTH_COMMAND" :> StructOf(<<"UINT32", "TPM2B_DIGEST", "TPMA_SESSION", "TPM2B_DIGEST">>)
  @@ "TPMS_AUTH_RESPONSE" :> StructOf(<<"TPM2B_DIGEST", "TPMA_SESSION", "TPM2B_DIGEST">>)

SymmetricStructures ==
  [t \in {"TPMU_SYM_KEY_BITS", "TPMU_SYM_MODE"} |-> UnionOf(<<"UINT16">>)]
  @@ [t \in {"TPMT_SYM_DEF", "TPMT_SYM_DEF_OBJECT"} |->
        StructOf(<<"UINT16", "TPMU_SYM_KEY_BITS", "TPMU_SYM_MODE">>)]
  @@ "TPM2B_SYM_KEY" :> Counted(Array("UINT8", MAX_SYM_KEY_BYTES))
  @@ "TPM2B_LABEL" :> Counted(Array("UINT8", LABEL_MAX_BUFFER))
  @@ "TPMS_DERIVE" :> StructOf(<<"TPM2B_LABEL", "TPM2B_LABEL">>)
  @@ "TPM2B_DERIVE" :> Counted(BytesAs("TPMS_DERIVE"))
  @@ "TPMU_SENSITIVE_CREATE" :> CUnion(<<Array("UINT8", MAX_SYM_DATA), One("TPMS_DERIVE")>>)
  @@ "TPM2B_SENSITIVE_DATA" :> Counted(BytesAs("TPMU_SENSITIVE_CREATE"))
  @@ "TPMS_SENSITIVE_CREATE" :> StructOf(<<"TPM2B_DIGEST", "TPM2B_SENSITIVE_DATA">>)
  @@ "TPM2B_SENSITIVE_CREATE" :> StructOf(<<"UINT16", "TPMS_SENSITIVE_CREATE">>)

(* A scheme is a hash, or a hash and one more integer.                     *)
SchemeStructures ==
  [t \in {"TPMS_SCHEME_ECDAA", "TPMS_SCHEME_XOR"} |-> StructOf(<<"UINT16", "UINT16">>)]
  @@ "TPMU_SCHEME_KEYEDHASH" :> UnionOf(<<"UINT16", "TPMS_SCHEME_XOR">>)
  @@ "TPMT_KEYEDHASH_SCHEME" :> StructOf(<<"UINT16", "TPMU_SCHEME_KEYEDHASH">>)
  @@ "TPMU_SIG_SCHEME" :> UnionOf(<<"TPMS_SCHEME_ECDAA", "UINT16">>)
  @@ "TPMT_SIG_SCHEME" :> StructOf(<<"UINT16", "TPMU_SIG_SCHEME">>)
  @@ "TPMU_KDF_SCHEME" :> UnionOf(<<"UINT16">>)
  @@ "TPMT_KDF_SCHEME" :> StructOf(<<"UINT16", "TPMU_KDF_SCHEME">>)
  @@ "TPMU_ASYM_SCHEME" :> UnionOf(<<"TPMS_SCHEME_ECDAA", "UINT16", "TPMS_EMPTY">>)
  @@ [t \in {"TPMT_ASYM_SCHEME", "TPMT_RSA_SCHEME", "TPMT_RSA_DECRYPT", "TPMT_ECC_SCHEME"} |->
        StructOf(<<"UINT16", "TPMU_ASYM_SCHEME">>)]

KeyStructures ==
  "TPM2B_PUBLIC_KEY_RSA" :> Counted(Array("UINT8", MAX_RSA_KEY_BYTES))
  @@ "TPM2B_PRIVATE_KEY_RSA" :> Counted(Array("UINT8", MAX_RSA_KEY_BYTES \div 2))
  @@ "TPM2B_ECC_PARAMETER" :> Counted(Array("UINT8", MAX_ECC_KEY_BYTES))
  @@ "TPMS_ECC_POINT" :> StructOf(<<"TPM2B_ECC_PARAMETER", "TPM2B_ECC_PARAMETER">>)
  @@ "TPM2B_ECC_POINT" :> StructOf(<<"UINT16", "TPMS_ECC_POINT">>)
  @@ "TPMS_ALGORITHM_DETAIL_ECC" :>
       StructOf(<<"UINT16", "UINT16", "TPMT_KDF_SCHEME", "TPMT_ECC_SCHEME">>
                \o [i \in 1 .. 7 |-> "TPM2B_ECC_PARAMETER"])
  @@ "TPMS_SIGNATURE_RSA" :> StructOf(<<"UINT16", "TPM2B_PUBLIC_KEY_RSA">>)
  @@ "TPMS_SIGNATURE_ECC" :>
       StructOf(<<"UINT16", "TPM2B_ECC_PARAMETER", "TPM2B_ECC_PARAMETER">>)
  @@ "TPMU_SIGNATURE" :> UnionOf(<<"TPMS_SIGNATURE_ECC", "TPMS_SIGNATURE_RSA", "TPMT_HA">>)
  @@ "TPMT_SIGNATURE" :> StructOf(<<"UINT16", "TPMU_SIGNATURE">>)
  @@ "ECC_SECRET" :> CStruct(<<BytesAs("TPMS_ECC_POINT")>>)
  @@ "RSA_SECRET" :> CStruct(<<Array("UINT8", MAX_RSA_KEY_BYTES)>>)
  @@ "SYMMETRIC_SECRET" :> CStruct(<<BytesAs("TPM2B_DIGEST")>>)
  @@ "TPMU_ENCRYPTED_SECRET" :> UnionOf(<<"ECC_SECRET", "RSA_SECRET", "SYMMETRIC_SECRET">>)
  @@ "TPM2B_ENCRYPTED_SECRET" :> Counted(BytesAs("TPMU_ENCRYPTED_SECRET"))

PublicStructures ==
  "TPMU_PUBLIC_ID" :>
       UnionOf(<<"TPM2B_DIGEST", "TPM2B_PUBLIC_KEY_RSA", "TPMS_ECC_POINT", "TPMS_DERIVE">>)
  @@ "TPMS_ASYM_PARMS" :> StructOf(<<"TPMT_SYM_DEF_OBJECT", "TPMT_ASYM_SCHEME">>)
  @@ "TPMS_RSA_PARMS" :>
       StructOf(<<"TPMT_SYM_DEF_OBJECT", "TPMT_RSA_SCHEME", "UINT16", "UINT32">>)
  @@ "TPMS_ECC_PARMS" :>
       StructOf(<<"TPMT_SYM_DEF_OBJECT", "TPMT_ECC_SCHEME", "UINT16", "TPMT_KDF_SCHEME">>)
  @@ "TPMU_PUBLIC_PARMS" :>
       UnionOf(<<"TPMT_KEYEDHASH_SCHEME", "TPMT_SYM_DEF_OBJECT", "TPMS_RSA_PARMS",
                 "TPMS_ECC_PARMS", "TPMS_ASYM_PARMS">>)
  @@ "TPMT_PUBLIC_PARMS" :> StructOf(<<"UINT16", "TPMU_PUBLIC_PARMS">>)
  @@ "TPMT_PUBLIC" :>
       StructOf(<<"UINT16", "UINT16", "TPMA_OBJECT", "TPM2B_DIGEST", "TPMU_PUBLIC_PARMS",
                  "TPMU_PUBLIC_ID">>)
  @@ "TPM2B_PUBLIC" :> StructOf(<<"UINT16", "TPMT_PUBLIC">>)
  @@ "TPM2B_TEMPLATE" :> Counted(BytesAs("TPMT_PUBLIC"))
  @@ "TPM2B_PRIVATE_VENDOR_SPECIFIC" :>
       Counted(Array("UINT8", PRIVATE_VENDOR_SPECIFIC_BYTES))

PrivateStructures ==
  "TPMU_SENSITIVE_COMPOSITE" :>
       UnionOf(<<"TPM2B_PRIVATE_KEY_RSA", "TPM2B_ECC_PARAMETER", "TPM2B_SENSITIVE_DATA",
                 "TPM2B_SYM_KEY", "TPM2B_PRIVATE_VENDOR_SPECIFIC">>)
  @@ "TPMT_SENSITIVE" :>
       StructOf(<<"UINT16", "TPM2B_DIGEST", "TPM2B_DIGEST", "TPMU_SENSITIVE_COMPOSITE">>)
  @@ "TPM2B_SENSITIVE" :> StructOf(<<"UINT16", "TPMT_SENSITIVE">>)
  @@ "_PRIVATE" :> StructOf(<<"TPM2B_DIGEST", "TPM2B_DIGEST", "TPM2B_SENSITIVE">>)
  @@ "TPM2B_PRIVATE" :> Counted(BytesAs("_PRIVATE"))
  @@ "TPMS_ID_OBJECT" :> StructOf(<<"TPM2B_DIGEST", "TPM2B_DIGEST">>)
  @@ "TPM2B_ID_OBJECT" :> Counted(BytesAs("TPMS_ID_OBJECT"))

NvAndContextStructures ==
  "TPMS_NV_PIN_COUNTER_PARAMETERS" :> StructOf(<<"UINT32", "UINT32">>)
  @@ "TPMS_NV_PUBLIC" :> StructOf(<<"UINT32", "UINT16", "TPMA_NV", "TPM2B_DIGEST", "UINT16">>)
  @@ "TPM2B_NV_PUBLIC" :> StructOf(<<"UINT16", "TPMS_NV_PUBLIC">>)
  @@ "TPM2B_CONTEXT_SENSITIVE" :> Counted(Array("UINT8", MAX_CONTEXT_SIZE))
  @@ "TPMS_CONTEXT_DATA" :> StructOf(<<"TPM2B_DIGEST", "TPM2B_CONTEXT_SENSITIVE">>)
  @@ "TPM2B_CONTEXT_DATA" :> Counted(BytesAs("TPMS_CONTEXT_DATA"))
  @@ "TPMS_CONTEXT" :> StructOf(<<"UINT64", "UINT32", "UINT32", "TPM2B_CONTEXT_DATA">>)
  @@ "TPMS_CREATION_DATA" :>
       StructOf(<<"TPML_PCR_SELECTION", "TPM2B_DIGEST", "TPMA_LOCALITY", "UINT16", "TPM2B_NAME",
                  "TPM2B_NAME", "TPM2B_DATA">>)
  @@ "TPM2B_CREATION_DATA" :> StructOf(<<"UINT16", "TPMS_CREATION_DATA">>)

CTypes ==
  ScalarTypes @@ DigestStructures @@ ListStructures @@ AttestStructures @@ SymmetricStructures
  @@ SchemeStructures @@ KeyStructures @@ PublicStructures @@ PrivateStructures
  @@ NvAndContextStructures

-----------------------------------------------------------------------------
RoundUp(n, to) == ((n + to - 1) \div to) * to

(* sizeof: a member of a structure lies at the next multiple of its        *)
(* alignment, and the whole is padded to that of the structure.            *)
CSizes(types) ==
  LET align[t \in DOMAIN types] ==
        IF types[t].kind = "scalar" THEN types[t].width
        ELSE Max({align[m.type] : m \in Range(types[t].members)})
      size[t \in DOMAIN types] ==
        LET Length(m) == CASE m.many \in {"one", "n"} -> m.n
                           [] m.many = "sizeof" -> size[m.as]
                           [] m.many = "share" -> MAX_CAP_DATA \div size[m.type]
            Extent(m) == Length(m) * size[m.type]
            Behind(o, m) == RoundUp(o, align[m.type]) + Extent(m)
        IN  CASE types[t].kind = "scalar" -> types[t].width
              [] types[t].kind = "struct" ->
                   RoundUp(FoldLeft(Behind, 0, types[t].members), align[t])
              [] types[t].kind = "union" ->
                   RoundUp(Max({Extent(m) : m \in Range(types[t].members)}), align[t])
  IN  [t \in DOMAIN types |-> size[t]]

SizeOf == CSizes(CTypes)

(* The elements of the array a buffer or a list ends with, or an array is, *)
(* when the types have these sizes.                                        *)
ArrayLengths(types, size) ==
  LET array == [t \in {u \in DOMAIN types : types[u].kind = "struct"} |-> Last(types[t].members)]
  IN  [t \in {u \in DOMAIN array : array[u].many # "one"} |->
         CASE array[t].many = "n" -> array[t].n
           [] array[t].many = "sizeof" -> size[array[t].as]
           [] array[t].many = "share" -> MAX_CAP_DATA \div size[array[t].type]]

ArrayLength == ArrayLengths(CTypes, SizeOf)
=============================================================================
