----------------------------- MODULE WireTypes ------------------------------
(***************************************************************************)
(* The types of Marshal.c, in its order, as the build of Implementation.h  *)
(* has them (no SM2, SM3, SM4, KDF2, ECMQV or Camellia).  A name that      *)
(* Marshal_fp.h defines as another's function is replaced by that other.   *)
(***************************************************************************)
EXTENDS Integers, Sequences, TLC

(* Integers are sequences of 16 bit words; a UINT8 is one word.            *)
Zero(width) == CASE width < 4 -> <<0>> [] width = 4 -> <<0, 0>> [] OTHER -> <<0, 0, 0, 0>>
Ones(width) == CASE width = 1 -> <<255>> [] width = 2 -> <<65535>>
                 [] width = 4 -> <<65535, 65535>>
                 [] OTHER -> <<65535, 65535, 65535, 65535>>

Integer(width) ==
  [kind |-> "integer", width |-> width, ranges |-> {<<Zero(width), Ones(width)>>},
   null |-> {}, mask |-> Zero(width), code |-> "TPM_RC_SUCCESS"]
Ranges(width, ranges, code)  == [Integer(width) EXCEPT !.ranges = ranges, !.code = code]
OneOf(width, values, code)   == Ranges(width, {<<v, v>> : v \in values}, code)
OrNull(d, v)               == [d EXCEPT !.null = {v}]
Bits(width, reserved)      == [Integer(width) EXCEPT !.mask = reserved,
                                                     !.code = "TPM_RC_RESERVED_BITS"]

(* Fields: plain, called with a flag, or a union with its selector.        *)
F(type)           == [type |-> type, flag |-> "no", selector |-> 1]
With(type, flag)  == [F(type) EXCEPT !.flag = flag]
By(type, which)   == [F(type) EXCEPT !.selector = which]

Struct(fields)    == [kind |-> "struct", fields |-> fields]
Bytes(amount)     == [kind |-> "bytes", amount |-> amount]
Buffer(max)       == [kind |-> "buffer", width |-> 2, min |-> 0, max |-> max,
                      code |-> "TPM_RC_SIZE"]
List(type, min, max, code) == [kind |-> "list", width |-> 4, min |-> min, max |-> max,
                             element |-> F(type), code |-> code]
Union(arms)       == [kind |-> "union", arms |-> arms]
Sized(field)      == [kind |-> "sized", width |-> 2, element |-> field,
                      empty |-> FALSE]

-----------------------------------------------------------------------------
(* The TPM_ALG_ID values that the build implements, and TPM_ALG_NULL.      *)
ALG == [RSA |-> <<\h1>>, TDES |-> <<\h3>>, SHA1 |-> <<\h4>>, HMAC |-> <<\h5>>, AES |-> <<\h6>>,
        MGF1 |-> <<\h7>>, KEYEDHASH |-> <<\h8>>, XOR |-> <<\hA>>, SHA256 |-> <<\hB>>,
        SHA384 |-> <<\hC>>, SHA512 |-> <<\hD>>, NULL |-> <<\h10>>, RSASSA |-> <<\h14>>,
        RSAES |-> <<\h15>>, RSAPSS |-> <<\h16>>, OAEP |-> <<\h17>>, ECDSA |-> <<\h18>>,
        ECDH |-> <<\h19>>, ECDAA |-> <<\h1A>>, ECSCHNORR |-> <<\h1C>>,
        KDF1_SP800_56A |-> <<\h20>>, KDF1_SP800_108 |-> <<\h22>>, ECC |-> <<\h23>>,
        SYMCIPHER |-> <<\h25>>, CTR |-> <<\h40>>, OFB |-> <<\h41>>, CBC |-> <<\h42>>,
        CFB |-> <<\h43>>, ECB |-> <<\h44>>]

(* The TPM_ST values that a type is checked against.                       *)
ST == [NO_SESSIONS |-> <<\h8001>>, SESSIONS |-> <<\h8002>>, ATTEST_NV |-> <<\h8014>>,
       ATTEST_COMMAND_AUDIT |-> <<\h8015>>, ATTEST_SESSION_AUDIT |-> <<\h8016>>,
       ATTEST_CERTIFY |-> <<\h8017>>, ATTEST_QUOTE |-> <<\h8018>>, ATTEST_TIME |-> <<\h8019>>,
       ATTEST_CREATION |-> <<\h801A>>, CREATION |-> <<\h8021>>, VERIFIED |-> <<\h8022>>,
       AUTH_SECRET |-> <<\h8023>>, HASHCHECK |-> <<\h8024>>, AUTH_SIGNED |-> <<\h8025>>]

(* The permanent handles, and TPM_RS_PW.                                   *)
RH == [OWNER |-> <<\h4000, \h1>>, NULL |-> <<\h4000, \h7>>, PW |-> <<\h4000, \h9>>,
       LOCKOUT |-> <<\h4000, \hA>>, ENDORSEMENT |-> <<\h4000, \hB>>,
       PLATFORM |-> <<\h4000, \hC>>, PLATFORM_NV |-> <<\h4000, \hD>>]

(* The ranges of the other handles, FIRST to LAST.                         *)
PCR            == <<<<0, 0>>, <<0, 23>>>>
NV_INDEX       == <<<<\h0100, 0>>, <<\h01FF, \hFFFF>>>>
HMAC_SESSION   == <<<<\h0200, 0>>, <<\h0200, \h3F>>>>
POLICY_SESSION == <<<<\h0300, 0>>, <<\h0300, \h3F>>>>
AUTH_ROLE      == <<<<\h4000, \h10>>, <<\h4000, \h10F>>>>
TRANSIENT      == <<<<\h8000, 0>>, <<\h8000, 2>>>>
PERSISTENT     == <<<<\h8100, 0>>, <<\h81FF, \hFFFF>>>>

Handle(values, ranges) ==
  Ranges(4, {<<v, v>> : v \in values} \cup ranges, "TPM_RC_VALUE")

-----------------------------------------------------------------------------
PlainIntegers ==
  "UINT8" :> Integer(1) @@ "UINT16" :> Integer(2) @@ "UINT32" :> Integer(4)
  @@ "UINT64" :> Integer(8)

ConstantTypes ==
  "TPM_CLOCK_ADJUST" :> OneOf(1, {<<v>> : v \in (0 .. 3) \cup (253 .. 255)}, "TPM_RC_VALUE")
  @@ "TPM_EO" :> OneOf(2, {<<v>> : v \in 0 .. 11}, "TPM_RC_VALUE")
  @@ "TPM_SU" :> OneOf(2, {<<0>>, <<1>>}, "TPM_RC_VALUE")
  @@ "TPM_SE" :> OneOf(1, {<<0>>, <<1>>, <<3>>}, "TPM_RC_VALUE")
  @@ "TPM_CAP" :> OneOf(4, {<<0, v>> : v \in (0 .. 9) \cup {256}}, "TPM_RC_VALUE")

AttributeTypes ==
  "TPMA_ALGORITHM" :> Bits(4, <<\hFFFF, \hF8F0>>)
  @@ "TPMA_OBJECT" :> Bits(4, <<\hFFF8, \hF309>>)
  @@ "TPMA_SESSION" :> Bits(1, <<\h18>>)
  @@ "TPMA_PERMANENT" :> Bits(4, <<\hFFFF, \hF8F8>>)
  @@ "TPMA_STARTUP_CLEAR" :> Bits(4, <<\h7FFF, \hFFF0>>)
  @@ "TPMA_MEMORY" :> Bits(4, <<\hFFFF, \hFFF8>>)
  @@ "TPMA_CC" :> Bits(4, <<\hC03F, 0>>)
  @@ "TPMA_MODES" :> Bits(4, <<\hFFFF, \hFFFE>>)
  @@ "TPMI_YES_NO" :> OneOf(1, {<<0>>, <<1>>}, "TPM_RC_VALUE")

ObjectHandles ==
  "TPMI_DH_OBJECT" :> OrNull(Handle({}, {TRANSIENT, PERSISTENT}), RH.NULL)
  @@ "TPMI_DH_PARENT" :> OrNull(Handle({RH.OWNER, RH.PLATFORM, RH.ENDORSEMENT},
                                       {TRANSIENT, PERSISTENT}), RH.NULL)
  @@ "TPMI_DH_PERSISTENT" :> Handle({}, {PERSISTENT})
  @@ "TPMI_DH_ENTITY" :>
       OrNull(Handle({RH.OWNER, RH.ENDORSEMENT, RH.PLATFORM, RH.LOCKOUT},
                     {TRANSIENT, PERSISTENT, NV_INDEX, PCR, AUTH_ROLE}), RH.NULL)
  @@ "TPMI_DH_PCR" :> OrNull(Handle({}, {PCR}), RH.NULL)
  @@ "TPMI_SH_AUTH_SESSION" :> OrNull(Handle({}, {HMAC_SESSION, POLICY_SESSION}), RH.PW)

SessionAndHierarchyHandles ==
  "TPMI_SH_HMAC" :> Handle({}, {HMAC_SESSION})
  @@ "TPMI_SH_POLICY" :> Handle({}, {POLICY_SESSION})
  @@ "TPMI_DH_CONTEXT" :> Handle({}, {HMAC_SESSION, POLICY_SESSION, TRANSIENT})
  @@ "TPMI_RH_HIERARCHY" :> OrNull(Handle({RH.OWNER, RH.PLATFORM, RH.ENDORSEMENT}, {}), RH.NULL)
  @@ "TPMI_RH_ENABLES" :>
       OrNull(Handle({RH.OWNER, RH.PLATFORM, RH.ENDORSEMENT, RH.PLATFORM_NV}, {}), RH.NULL)
  @@ "TPMI_RH_HIERARCHY_AUTH" :>
       Handle({RH.OWNER, RH.PLATFORM, RH.ENDORSEMENT, RH.LOCKOUT}, {})
  @@ "TPMI_RH_PLATFORM" :> Handle({RH.PLATFORM}, {})

RoleHandles ==
  "TPMI_RH_OWNER" :> OrNull(Handle({RH.OWNER}, {}), RH.NULL)
  @@ "TPMI_RH_ENDORSEMENT" :> OrNull(Handle({RH.ENDORSEMENT}, {}), RH.NULL)
  @@ "TPMI_RH_PROVISION" :> Handle({RH.OWNER, RH.PLATFORM}, {})
  @@ "TPMI_RH_CLEAR" :> Handle({RH.LOCKOUT, RH.PLATFORM}, {})
  @@ "TPMI_RH_NV_AUTH" :> Handle({RH.PLATFORM, RH.OWNER}, {NV_INDEX})
  @@ "TPMI_RH_LOCKOUT" :> Handle({RH.LOCKOUT}, {})
  @@ "TPMI_RH_NV_INDEX" :> Handle({}, {NV_INDEX})

HashAndCipherIds ==
  "TPMI_ALG_HASH" :>
       OrNull(OneOf(2, {ALG.SHA1, ALG.SHA256, ALG.SHA384, ALG.SHA512}, "TPM_RC_HASH"), ALG.NULL)
  @@ "TPMI_ALG_ASYM" :> OrNull(OneOf(2, {ALG.RSA, ALG.ECC}, "TPM_RC_ASYMMETRIC"), ALG.NULL)
  @@ "TPMI_ALG_SYM" :>
       OrNull(OneOf(2, {ALG.TDES, ALG.AES, ALG.XOR}, "TPM_RC_SYMMETRIC"), ALG.NULL)
  @@ "TPMI_ALG_SYM_OBJECT" :>
       OrNull(OneOf(2, {ALG.TDES, ALG.AES}, "TPM_RC_SYMMETRIC"), ALG.NULL)

ModeAndSchemeIds ==
  "TPMI_ALG_SYM_MODE" :>
       OrNull(OneOf(2, {ALG.CTR, ALG.OFB, ALG.CBC, ALG.CFB, ALG.ECB}, "TPM_RC_MODE"), ALG.NULL)
  @@ "TPMI_ALG_KDF" :>
       OrNull(OneOf(2, {ALG.MGF1, ALG.KDF1_SP800_56A, ALG.KDF1_SP800_108}, "TPM_RC_KDF"), ALG.NULL)
  @@ "TPMI_ALG_SIG_SCHEME" :>
       OrNull(OneOf(2, {ALG.ECDAA, ALG.RSASSA, ALG.RSAPSS, ALG.ECDSA, ALG.ECSCHNORR, ALG.HMAC},
                    "TPM_RC_SCHEME"), ALG.NULL)
  @@ "TPMI_ECC_KEY_EXCHANGE" :> OrNull(OneOf(2, {ALG.ECDH}, "TPM_RC_SCHEME"), ALG.NULL)
  @@ "TPMI_ST_COMMAND_TAG" :> OneOf(2, {ST.NO_SESSIONS, ST.SESSIONS}, "TPM_RC_BAD_TAG")

Digests ==
  "TPMS_EMPTY" :> Struct(<< >>)
  @@ "TPMS_ALGORITHM_DESCRIPTION" :> Struct(<<F("UINT16"), F("TPMA_ALGORITHM")>>)
  @@ "SHA1_DIGEST" :> Bytes(20) @@ "SHA256_DIGEST" :> Bytes(32)
  @@ "SHA384_DIGEST" :> Bytes(48) @@ "SHA512_DIGEST" :> Bytes(64)
  @@ "TPMU_HA" :> Union(ALG.SHA1 :> F("SHA1_DIGEST") @@ ALG.SHA256 :> F("SHA256_DIGEST")
                        @@ ALG.SHA384 :> F("SHA384_DIGEST") @@ ALG.SHA512 :> F("SHA512_DIGEST")
                        @@ ALG.NULL :> F("TPMS_EMPTY"))
  @@ "TPMT_HA" :> Struct(<<With("TPMI_ALG_HASH", "same"), By("TPMU_HA", 1)>>)
  @@ "TPM2B_DIGEST" :> Buffer(64)

DataBuffers ==
  "TPM2B_DATA" :> Buffer(66) @@ "TPM2B_EVENT" :> Buffer(1024)
  @@ "TPM2B_MAX_BUFFER" :> Buffer(1024) @@ "TPM2B_MAX_NV_BUFFER" :> Buffer(1024)

NamesAndSelections ==
  "TPM2B_IV" :> Buffer(16) @@ "TPM2B_NAME" :> Buffer(68)
  @@ "TPMS_PCR_SELECT" :> [Buffer(3) EXCEPT !.width = 1, !.min = 3, !.code = "TPM_RC_VALUE"]
  @@ "TPMS_PCR_SELECTION" :> Struct(<<F("TPMI_ALG_HASH"), F("TPMS_PCR_SELECT")>>)

Ticket == <<With("TPMI_RH_HIERARCHY", "yes"), F("TPM2B_DIGEST")>>

Tickets ==
  "TAG_CREATION" :> OneOf(2, {ST.CREATION}, "TPM_RC_TAG")
  @@ "TAG_VERIFIED" :> OneOf(2, {ST.VERIFIED}, "TPM_RC_TAG")
  @@ "TAG_AUTH" :> OneOf(2, {ST.AUTH_SIGNED, ST.AUTH_SECRET}, "TPM_RC_TAG")
  @@ "TAG_HASHCHECK" :> OneOf(2, {ST.HASHCHECK}, "TPM_RC_TAG")
  @@ "TPMT_TK_CREATION" :> Struct(<<F("TAG_CREATION")>> \o Ticket)
  @@ "TPMT_TK_VERIFIED" :> Struct(<<F("TAG_VERIFIED")>> \o Ticket)
  @@ "TPMT_TK_AUTH" :> Struct(<<F("TAG_AUTH")>> \o Ticket)
  @@ "TPMT_TK_HASHCHECK" :> Struct(<<F("TAG_HASHCHECK")>> \o Ticket)
  @@ "TPMS_ALG_PROPERTY" :> Struct(<<F("UINT16"), F("TPMA_ALGORITHM")>>)
  @@ "TPMS_TAGGED_PROPERTY" :> Struct(<<F("UINT32"), F("UINT32")>>)

CommandLists ==
  "TPMS_TAGGED_PCR_SELECT" :> Struct(<<F("UINT32"), F("TPMS_PCR_SELECT")>>)
  @@ "TPMS_TAGGED_POLICY" :> Struct(<<F("UINT32"), F("TPMT_HA")>>)
  @@ "TPML_CC" :> List("UINT32", 0, 254, "TPM_RC_SIZE")
  @@ "TPML_CCA" :> List("TPMA_CC", 0, 254, "TPM_RC_VALUE")
  @@ "TPML_ALG" :> List("UINT16", 0, 64, "TPM_RC_SIZE")
  @@ "TPML_HANDLE" :> List("UINT32", 0, 254, "TPM_RC_SIZE")

PropertyLists ==
  "TPML_DIGEST" :> List("TPM2B_DIGEST", 2, 8, "TPM_RC_SIZE")
  @@ "TPML_DIGEST_VALUES" :> List("TPMT_HA", 0, 4, "TPM_RC_SIZE")
  @@ "TPML_PCR_SELECTION" :> List("TPMS_PCR_SELECTION", 0, 4, "TPM_RC_SIZE")
  @@ "TPML_ALG_PROPERTY" :> List("TPMS_ALG_PROPERTY", 0, 127, "TPM_RC_VALUE")
  @@ "TPML_TAGGED_TPM_PROPERTY" :> List("TPMS_TAGGED_PROPERTY", 0, 127, "TPM_RC_VALUE")
  @@ "TPML_TAGGED_PCR_PROPERTY" :> List("TPMS_TAGGED_PCR_SELECT", 0, 127, "TPM_RC_VALUE")

Capabilities ==
  "TPML_ECC_CURVE" :> List("UINT16", 0, 508, "TPM_RC_VALUE")
  @@ "TPML_TAGGED_POLICY" :> List("TPMS_TAGGED_POLICY", 0, 14, "TPM_RC_VALUE")
  @@ "TPMU_CAPABILITIES" :>
       Union(<<0, 0>> :> F("TPML_ALG_PROPERTY") @@ <<0, 1>> :> F("TPML_HANDLE")
             @@ <<0, 2>> :> F("TPML_CCA") @@ <<0, 3>> :> F("TPML_CC") @@ <<0, 4>> :> F("TPML_CC")
             @@ <<0, 5>> :> F("TPML_PCR_SELECTION")
             @@ <<0, 6>> :> F("TPML_TAGGED_TPM_PROPERTY")
             @@ <<0, 7>> :> F("TPML_TAGGED_PCR_PROPERTY")
             @@ <<0, 8>> :> F("TPML_ECC_CURVE") @@ <<0, 9>> :> F("TPML_TAGGED_POLICY"))
  @@ "TPMS_CAPABILITY_DATA" :> Struct(<<F("TPM_CAP"), By("TPMU_CAPABILITIES", 1)>>)

-----------------------------------------------------------------------------
ClockAndQuote ==
  "TPMS_CLOCK_INFO" :> Struct(<<F("UINT64"), F("UINT32"), F("UINT32"), F("TPMI_YES_NO")>>)
  @@ "TPMS_TIME_INFO" :> Struct(<<F("UINT64"), F("TPMS_CLOCK_INFO")>>)
  @@ "TPMS_TIME_ATTEST_INFO" :> Struct(<<F("TPMS_TIME_INFO"), F("UINT64")>>)
  @@ "TPMS_CERTIFY_INFO" :> Struct(<<F("TPM2B_NAME"), F("TPM2B_NAME")>>)
  @@ "TPMS_QUOTE_INFO" :> Struct(<<F("TPML_PCR_SELECTION"), F("TPM2B_DIGEST")>>)
  @@ "TPMS_COMMAND_AUDIT_INFO" :>
       Struct(<<F("UINT64"), F("UINT16"), F("TPM2B_DIGEST"), F("TPM2B_DIGEST")>>)

AttestedParts ==
  "TPMS_SESSION_AUDIT_INFO" :> Struct(<<F("TPMI_YES_NO"), F("TPM2B_DIGEST")>>)
  @@ "TPMS_CREATION_INFO" :> Struct(<<F("TPM2B_NAME"), F("TPM2B_DIGEST")>>)
  @@ "TPMS_NV_CERTIFY_INFO" :> Struct(<<F("TPM2B_NAME"), F("UINT16"), F("TPM2B_MAX_NV_BUFFER")>>)
  @@ "TPMU_ATTEST" :>
       Union(ST.ATTEST_CERTIFY :> F("TPMS_CERTIFY_INFO")
             @@ ST.ATTEST_CREATION :> F("TPMS_CREATION_INFO")
             @@ ST.ATTEST_QUOTE :> F("TPMS_QUOTE_INFO")
             @@ ST.ATTEST_COMMAND_AUDIT :> F("TPMS_COMMAND_AUDIT_INFO")
             @@ ST.ATTEST_SESSION_AUDIT :> F("TPMS_SESSION_AUDIT_INFO")
             @@ ST.ATTEST_TIME :> F("TPMS_TIME_ATTEST_INFO")
             @@ ST.ATTEST_NV :> F("TPMS_NV_CERTIFY_INFO"))

(* The selector of the attested part is the second integer, behind magic.  *)
Attestation ==
  "TPMS_ATTEST" :>
       Struct(<<F("UINT32"), F("UINT16"), F("TPM2B_NAME"), F("TPM2B_DATA"), F("TPMS_CLOCK_INFO"),
                F("UINT64"), By("TPMU_ATTEST", 2)>>)
  @@ "TPM2B_ATTEST" :> Buffer(1280)
  @@ "TPMS_AUTH_COMMAND" :>
       Struct(<<With("TPMI_SH_AUTH_SESSION", "yes"), F("TPM2B_DIGEST"), F("TPMA_SESSION"),
                F("TPM2B_DIGEST")>>)
  @@ "TPMS_AUTH_RESPONSE" :> Struct(<<F("TPM2B_DIGEST"), F("TPMA_SESSION"), F("TPM2B_DIGEST")>>)

SymmetricKeyBits ==
  "TPMI_TDES_KEY_BITS" :> OneOf(2, {<<128>>, <<192>>}, "TPM_RC_VALUE")
  @@ "TPMI_AES_KEY_BITS" :> OneOf(2, {<<128>>, <<256>>}, "TPM_RC_VALUE")
  @@ "TPMU_SYM_KEY_BITS" :>
       Union(ALG.TDES :> F("TPMI_TDES_KEY_BITS") @@ ALG.AES :> F("TPMI_AES_KEY_BITS")
             @@ ALG.XOR :> F("TPMI_ALG_HASH") @@ ALG.NULL :> F("TPMS_EMPTY"))

SymmetricDefinitions ==
  "TPMU_SYM_MODE" :>
       Union(ALG.TDES :> With("TPMI_ALG_SYM_MODE", "yes")
             @@ ALG.AES :> With("TPMI_ALG_SYM_MODE", "yes")
             @@ ALG.XOR :> F("TPMS_EMPTY") @@ ALG.NULL :> F("TPMS_EMPTY"))
  @@ "TPMT_SYM_DEF" :>
       Struct(<<With("TPMI_ALG_SYM", "same"), By("TPMU_SYM_KEY_BITS", 1), By("TPMU_SYM_MODE", 1)>>)
  @@ "TPMT_SYM_DEF_OBJECT" :>
       Struct(<<With("TPMI_ALG_SYM_OBJECT", "same"), By("TPMU_SYM_KEY_BITS", 1),
                By("TPMU_SYM_MODE", 1)>>)
  @@ "TPM2B_SYM_KEY" :> Buffer(32)

SensitiveInputs ==
  "TPM2B_LABEL" :> Buffer(64)
  @@ "TPMS_DERIVE" :> Struct(<<F("TPM2B_LABEL"), F("TPM2B_LABEL")>>)
  @@ "TPM2B_DERIVE" :> Buffer(132) @@ "TPM2B_SENSITIVE_DATA" :> Buffer(132)
  @@ "TPMS_SENSITIVE_CREATE" :> Struct(<<F("TPM2B_DIGEST"), F("TPM2B_SENSITIVE_DATA")>>)
  @@ "TPM2B_SENSITIVE_CREATE" :> Sized(F("TPMS_SENSITIVE_CREATE"))

KeyedHashSchemes ==
  "TPMS_SCHEME_ECDAA" :> Struct(<<F("TPMI_ALG_HASH"), F("UINT16")>>)
  @@ "TPMI_ALG_KEYEDHASH_SCHEME" :>
       OrNull(OneOf(2, {ALG.HMAC, ALG.XOR}, "TPM_RC_VALUE"), ALG.NULL)
  @@ "TPMS_SCHEME_XOR" :> Struct(<<With("TPMI_ALG_HASH", "yes"), With("TPMI_ALG_KDF", "yes")>>)
  @@ "TPMU_SCHEME_KEYEDHASH" :>
       Union(ALG.HMAC :> F("TPMI_ALG_HASH") @@ ALG.XOR :> F("TPMS_SCHEME_XOR")
             @@ ALG.NULL :> F("TPMS_EMPTY"))
  @@ "TPMT_KEYEDHASH_SCHEME" :>
       Struct(<<With("TPMI_ALG_KEYEDHASH_SCHEME", "same"), By("TPMU_SCHEME_KEYEDHASH", 1)>>)

SignatureSchemes ==
  "TPMU_SIG_SCHEME" :>
       Union(ALG.ECDAA :> F("TPMS_SCHEME_ECDAA") @@ ALG.NULL :> F("TPMS_EMPTY")
             @@ [a \in {ALG.RSASSA, ALG.RSAPSS, ALG.ECDSA, ALG.ECSCHNORR, ALG.HMAC} |->
                   F("TPMI_ALG_HASH")])
  @@ "TPMT_SIG_SCHEME" :>
       Struct(<<With("TPMI_ALG_SIG_SCHEME", "same"), By("TPMU_SIG_SCHEME", 1)>>)

KdfSchemes ==
  "TPMU_KDF_SCHEME" :>
       Union(ALG.NULL :> F("TPMS_EMPTY")
             @@ [a \in {ALG.MGF1, ALG.KDF1_SP800_56A, ALG.KDF1_SP800_108} |-> F("TPMI_ALG_HASH")])
  @@ "TPMT_KDF_SCHEME" :> Struct(<<With("TPMI_ALG_KDF", "same"), By("TPMU_KDF_SCHEME", 1)>>)
  @@ "TPMI_ALG_ASYM_SCHEME" :>
       OrNull(OneOf(2, {ALG.ECDH, ALG.ECDAA, ALG.RSASSA, ALG.RSAPSS, ALG.ECDSA, ALG.ECSCHNORR,
                        ALG.RSAES, ALG.OAEP}, "TPM_RC_VALUE"), ALG.NULL)

AsymmetricSchemes ==
  "TPMU_ASYM_SCHEME" :>
       Union(ALG.ECDAA :> F("TPMS_SCHEME_ECDAA")
             @@ ALG.RSAES :> F("TPMS_EMPTY") @@ ALG.NULL :> F("TPMS_EMPTY")
             @@ [a \in {ALG.ECDH, ALG.RSASSA, ALG.RSAPSS, ALG.ECDSA, ALG.ECSCHNORR, ALG.OAEP} |->
                   F("TPMI_ALG_HASH")])
  @@ "TPMT_ASYM_SCHEME" :>
       Struct(<<With("TPMI_ALG_ASYM_SCHEME", "same"), By("TPMU_ASYM_SCHEME", 1)>>)

RsaTypes ==
  "TPMI_ALG_RSA_SCHEME" :>
       OrNull(OneOf(2, {ALG.RSAES, ALG.OAEP, ALG.RSASSA, ALG.RSAPSS}, "TPM_RC_VALUE"), ALG.NULL)
  @@ "TPMT_RSA_SCHEME" :>
       Struct(<<With("TPMI_ALG_RSA_SCHEME", "same"), By("TPMU_ASYM_SCHEME", 1)>>)
  @@ "TPMI_ALG_RSA_DECRYPT" :> OrNull(OneOf(2, {ALG.RSAES, ALG.OAEP}, "TPM_RC_VALUE"), ALG.NULL)
  @@ "TPMT_RSA_DECRYPT" :>
       Struct(<<With("TPMI_ALG_RSA_DECRYPT", "same"), By("TPMU_ASYM_SCHEME", 1)>>)
  @@ "TPM2B_PUBLIC_KEY_RSA" :> Buffer(256)

KeysAndPoints ==
  "TPMI_RSA_KEY_BITS" :> OneOf(2, {<<1024>>, <<2048>>}, "TPM_RC_VALUE")
  @@ "TPM2B_PRIVATE_KEY_RSA" :> Buffer(128) @@ "TPM2B_ECC_PARAMETER" :> Buffer(32)
  @@ "TPMS_ECC_POINT" :> Struct(<<F("TPM2B_ECC_PARAMETER"), F("TPM2B_ECC_PARAMETER")>>)
  @@ "TPM2B_ECC_POINT" :> Sized(F("TPMS_ECC_POINT"))

EccTypes ==
  "TPMI_ALG_ECC_SCHEME" :>
       OrNull(OneOf(2, {ALG.ECDAA, ALG.ECDSA, ALG.ECSCHNORR, ALG.ECDH}, "TPM_RC_SCHEME"), ALG.NULL)
  @@ "TPMI_ECC_CURVE" :> OneOf(2, {<<\h2>>, <<\h3>>, <<\h10>>}, "TPM_RC_CURVE")
  @@ "TPMT_ECC_SCHEME" :>
       Struct(<<With("TPMI_ALG_ECC_SCHEME", "same"), By("TPMU_ASYM_SCHEME", 1)>>)

CurveAndSignatureParts ==
  "TPMS_ALGORITHM_DETAIL_ECC" :>
       Struct(<<F("UINT16"), F("UINT16"), With("TPMT_KDF_SCHEME", "yes"),
                With("TPMT_ECC_SCHEME", "yes")>> \o [i \in 1 .. 7 |-> F("TPM2B_ECC_PARAMETER")])
  @@ "TPMS_SIGNATURE_RSA" :> Struct(<<F("TPMI_ALG_HASH"), F("TPM2B_PUBLIC_KEY_RSA")>>)
  @@ "TPMS_SIGNATURE_ECC" :>
       Struct(<<F("TPMI_ALG_HASH"), F("TPM2B_ECC_PARAMETER"), F("TPM2B_ECC_PARAMETER")>>)

Signatures ==
  "TPMU_SIGNATURE" :>
       Union(ALG.HMAC :> F("TPMT_HA") @@ ALG.NULL :> F("TPMS_EMPTY")
             @@ [a \in {ALG.RSASSA, ALG.RSAPSS} |-> F("TPMS_SIGNATURE_RSA")]
             @@ [a \in {ALG.ECDAA, ALG.ECDSA, ALG.ECSCHNORR} |-> F("TPMS_SIGNATURE_ECC")])
  @@ "TPMT_SIGNATURE" :>
       Struct(<<With("TPMI_ALG_SIG_SCHEME", "same"), By("TPMU_SIGNATURE", 1)>>)

-----------------------------------------------------------------------------
SecretsAndIds ==
  "ECC_SECRET" :> Bytes(68) @@ "RSA_SECRET" :> Bytes(256) @@ "SYMMETRIC_SECRET" :> Bytes(66)
  @@ "TPMU_ENCRYPTED_SECRET" :>
       Union(ALG.ECC :> F("ECC_SECRET") @@ ALG.RSA :> F("RSA_SECRET")
             @@ ALG.SYMCIPHER :> F("SYMMETRIC_SECRET") @@ ALG.KEYEDHASH :> F("SYMMETRIC_SECRET"))
  @@ "TPM2B_ENCRYPTED_SECRET" :> Buffer(256)
  @@ "TPMI_ALG_PUBLIC" :>
       OneOf(2, {ALG.RSA, ALG.ECC, ALG.KEYEDHASH, ALG.SYMCIPHER}, "TPM_RC_TYPE")
  @@ "TPMU_PUBLIC_ID" :>
       Union(ALG.KEYEDHASH :> F("TPM2B_DIGEST") @@ ALG.SYMCIPHER :> F("TPM2B_DIGEST")
             @@ ALG.RSA :> F("TPM2B_PUBLIC_KEY_RSA") @@ ALG.ECC :> F("TPMS_ECC_POINT"))

KeyParameters ==
  "TPMS_ASYM_PARMS" :>
       Struct(<<With("TPMT_SYM_DEF_OBJECT", "yes"), With("TPMT_ASYM_SCHEME", "yes")>>)
  @@ "TPMS_RSA_PARMS" :>
       Struct(<<With("TPMT_SYM_DEF_OBJECT", "yes"), With("TPMT_RSA_SCHEME", "yes"),
                F("TPMI_RSA_KEY_BITS"), F("UINT32")>>)
  @@ "TPMS_ECC_PARMS" :>
       Struct(<<With("TPMT_SYM_DEF_OBJECT", "yes"), With("TPMT_ECC_SCHEME", "yes"),
                F("TPMI_ECC_CURVE"), With("TPMT_KDF_SCHEME", "yes")>>)
  @@ "TPMU_PUBLIC_PARMS" :>
       Union(ALG.KEYEDHASH :> With("TPMT_KEYEDHASH_SCHEME", "yes")
             @@ ALG.SYMCIPHER :> F("TPMT_SYM_DEF_OBJECT")
             @@ ALG.RSA :> F("TPMS_RSA_PARMS") @@ ALG.ECC :> F("TPMS_ECC_PARMS"))

PublicAreas ==
  "TPMT_PUBLIC_PARMS" :> Struct(<<F("TPMI_ALG_PUBLIC"), By("TPMU_PUBLIC_PARMS", 1)>>)
  @@ "TPMT_PUBLIC" :>
       Struct(<<F("TPMI_ALG_PUBLIC"), With("TPMI_ALG_HASH", "same"), F("TPMA_OBJECT"),
                F("TPM2B_DIGEST"), By("TPMU_PUBLIC_PARMS", 1), By("TPMU_PUBLIC_ID", 1)>>)
  @@ "TPM2B_PUBLIC" :> Sized(With("TPMT_PUBLIC", "same"))
  @@ "TPM2B_TEMPLATE" :> Buffer(356) @@ "TPM2B_PRIVATE_VENDOR_SPECIFIC" :> Buffer(640)

(* An empty TPM2B_SENSITIVE is one, with no sensitive area behind it.      *)
SensitiveAreas ==
  "TPMU_SENSITIVE_COMPOSITE" :>
       Union(ALG.RSA :> F("TPM2B_PRIVATE_KEY_RSA") @@ ALG.ECC :> F("TPM2B_ECC_PARAMETER")
             @@ ALG.KEYEDHASH :> F("TPM2B_SENSITIVE_DATA") @@ ALG.SYMCIPHER :> F("TPM2B_SYM_KEY"))
  @@ "TPMT_SENSITIVE" :>
       Struct(<<F("TPMI_ALG_PUBLIC"), F("TPM2B_DIGEST"), F("TPM2B_DIGEST"),
                By("TPMU_SENSITIVE_COMPOSITE", 1)>>)
  @@ "TPM2B_SENSITIVE" :>
       [Sized(F("TPMT_SENSITIVE")) EXCEPT !.empty = TRUE]
  @@ "_PRIVATE" :> Struct(<<F("TPM2B_DIGEST"), F("TPM2B_DIGEST"), F("TPM2B_SENSITIVE")>>)

NvAreas ==
  "TPM2B_PRIVATE" :> Buffer(910)
  @@ "TPMS_ID_OBJECT" :> Struct(<<F("TPM2B_DIGEST"), F("TPM2B_DIGEST")>>)
  @@ "TPM2B_ID_OBJECT" :> Buffer(132)
  @@ "TPMS_NV_PIN_COUNTER_PARAMETERS" :> Struct(<<F("UINT32"), F("UINT32")>>)
  @@ "TPMA_NV" :> Bits(4, <<\h01F0, \h0300>>)
  @@ "NV_DATA_SIZE" :> Ranges(2, {<<<<0>>, <<2048>>>>}, "TPM_RC_SIZE")
  @@ "TPMS_NV_PUBLIC" :>
       Struct(<<F("TPMI_RH_NV_INDEX"), F("TPMI_ALG_HASH"), F("TPMA_NV"), F("TPM2B_DIGEST"),
                F("NV_DATA_SIZE")>>)

Contexts ==
  "TPM2B_NV_PUBLIC" :> Sized(F("TPMS_NV_PUBLIC"))
  @@ "TPM2B_CONTEXT_SENSITIVE" :> Buffer(2474)
  @@ "TPMS_CONTEXT_DATA" :> Struct(<<F("TPM2B_DIGEST"), F("TPM2B_CONTEXT_SENSITIVE")>>)
  @@ "TPM2B_CONTEXT_DATA" :> Buffer(2542)
  @@ "TPMS_CONTEXT" :>
       Struct(<<F("UINT64"), F("TPMI_DH_CONTEXT"), With("TPMI_RH_HIERARCHY", "yes"),
                F("TPM2B_CONTEXT_DATA")>>)

CreationData ==
  "TPMS_CREATION_DATA" :>
       Struct(<<F("TPML_PCR_SELECTION"), F("TPM2B_DIGEST"), F("UINT8"), F("UINT16"),
                F("TPM2B_NAME"), F("TPM2B_NAME"), F("TPM2B_DATA")>>)
  @@ "TPM2B_CREATION_DATA" :> Sized(F("TPMS_CREATION_DATA"))

TpmSchema ==
  PlainIntegers @@ ConstantTypes @@ AttributeTypes @@ ObjectHandles
  @@ SessionAndHierarchyHandles @@ RoleHandles @@ HashAndCipherIds @@ ModeAndSchemeIds
  @@ Digests @@ DataBuffers @@ NamesAndSelections @@ Tickets @@ CommandLists @@ PropertyLists
  @@ Capabilities @@ ClockAndQuote @@ AttestedParts @@ Attestation @@ SymmetricKeyBits
  @@ SymmetricDefinitions @@ SensitiveInputs @@ KeyedHashSchemes @@ SignatureSchemes
  @@ KdfSchemes @@ AsymmetricSchemes @@ RsaTypes @@ KeysAndPoints @@ EccTypes
  @@ CurveAndSignatureParts @@ Signatures @@ SecretsAndIds @@ KeyParameters @@ PublicAreas
  @@ SensitiveAreas @@ NvAreas @@ Contexts @@ CreationData
=============================================================================
