----------------------------- MODULE MCMarshal ------------------------------
(* The types of Marshal.c, each called from outside with short buffers and *)
(* with one that is long enough.                                           *)
EXTENDS Destination, Structures

MCTypes == DOMAIN TpmSchema
MCSchema == TpmSchema

OfKind(kind) == {t \in MCTypes : TpmSchema[t].kind = kind}

MCStructureSize == SizeOf
MCArrayElements == ArrayLength

(* Structures with many independent parts, which are offered fewer values. *)
Large == {"TPMS_ALGORITHM_DETAIL_ECC", "TPMS_CREATION_DATA", "TPM2B_CREATION_DATA",
          "TPM2B_PUBLIC", "TPMT_PUBLIC", "TPMT_PUBLIC_PARMS", "TPMS_ECC_PARMS"}

(* A union is called by its structure, an array by its buffer.             *)
Called == MCTypes \ (OfKind("union") \cup OfKind("bytes"))

(* A value of each word that shows the order of the bytes.                 *)
Sample == <<<<\h5A>>, <<\h1234>>, <<\h1234, \h5678>>, <<\h1234, \h5678, \h9ABC, \hDEF0>>>>
SampleOf(width) == Sample[CASE width = 1 -> 1 [] width = 2 -> 2 [] width = 4 -> 3 [] OTHER -> 4]

Complement(v, width) == [i \in DOMAIN v |-> Ones(width)[i] - v[i]]

(* An integer: the ends of its ranges, its null value, and outside them;   *)
(* an attribute: no bit, every allowed bit, a reserved bit.                *)
IntegersOf(d) ==
  IF d.mask # Zero(d.width)
  THEN {Zero(d.width), Complement(d.mask, d.width), d.mask}
  ELSE IF d = Integer(d.width) THEN {SampleOf(d.width)}
  ELSE {r[1] : r \in d.ranges} \cup {r[2] : r \in d.ranges} \cup d.null \cup {Ones(d.width)}

As(n, width) == ToBytes(IF width = 4 THEN <<0, n>> ELSE <<n>>, width)

SizesOf(d, valid) == {As(n, d.width) : n \in valid \cup {d.max + 1}}

(* Hashes stand for each other, but for the sizes of their digests.        *)
Hashes == {ALG.SHA1, ALG.SHA512, ALG.NULL, <<\hFFFF>>}

Attested == {ST.ATTEST_NV, ST.ATTEST_COMMAND_AUDIT, ST.ATTEST_SESSION_AUDIT,
             ST.ATTEST_CERTIFY, ST.ATTEST_QUOTE, ST.ATTEST_TIME, ST.ATTEST_CREATION}

OfferedOf(t, d, valid(_)) ==
  CASE t = "TPMI_ALG_HASH" -> {ToBytes(v, 2) : v \in Hashes}
    [] d.kind = "integer" -> {ToBytes(v, d.width) : v \in IntegersOf(d)}
    [] d.kind = "buffer" -> SizesOf(d, valid(d))
    [] d.kind = "list" -> SizesOf(d, {d.min, d.min + 1})
    [] d.kind = "sized" -> {As(n, 2) : n \in {0, 3, 4, 8, 14, 16, 20, 24, 25, 36}}
    [] OTHER -> {}

Ends(d) == {d.min, d.max}
Short(d) == {IF d.min = 0 THEN 1 ELSE d.min}

(* The selector of an attestation is a plain UINT16.                       *)
EveryEnd ==
  [t \in MCTypes |-> IF t = "UINT16" THEN {ToBytes(v, 2) : v \in Attested \cup {SampleOf(2)}}
                     ELSE OfferedOf(t, TpmSchema[t], Ends)]

(* The large structures: every value of a selector, but only one that is   *)
(* valid of any other integer, and of the size of a buffer.                *)
Selectors ==
  {"TPMI_ALG_PUBLIC", "TPMI_ALG_SYM_OBJECT", "TPMI_ALG_KEYEDHASH_SCHEME", "TPMI_ALG_KDF",
   "TPMI_ALG_ECC_SCHEME", "TPMI_ALG_RSA_SCHEME", "TPMI_ALG_ASYM_SCHEME"}

OneValid(d) ==
  IF d.mask # Zero(d.width) THEN {Complement(d.mask, d.width), d.mask}
  ELSE {(CHOOSE r \in d.ranges : TRUE)[1], Ones(d.width)}

EverySelector ==
  [t \in MCTypes |->
     IF TpmSchema[t].kind = "integer" /\ t \notin Selectors
     THEN {ToBytes(v, TpmSchema[t].width) : v \in OneValid(TpmSchema[t])}
     ELSE OfferedOf(t, TpmSchema[t], Short)]

MCRoots   == Called
MCOffered ==
  LET few == EverySelector
      all == EveryEnd
  IN  [r \in MCTypes |-> IF r \in Large THEN few ELSE all]
MCLengths == (0 .. 8) \cup {20, 24, 3000}
MCSlack   == {-3, -2, -1, 0, 1}
=============================================================================
