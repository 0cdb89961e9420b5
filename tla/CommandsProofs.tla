--------------------------- MODULE CommandsProofs ---------------------------
(***************************************************************************)
(* Proofs about Commands: for every call of TSS_BuildCommand, whatever the *)
(* capacity of its buffer, and for every response to every TPM2_* function *)
(* with whatever sessions.                                                 *)
(***************************************************************************)
EXTENDS Commands, SequenceTheorems, WellFoundedInduction, TLAPS

(***************************************************************************)
(* Sums, and what is done piece by piece.                                  *)
(***************************************************************************)
(* A property of all numbers up to n fails for a least one, if it fails.   *)
LEMMA LeastOf ==
  ASSUME NEW S, S \subseteq Nat, S # {}
  PROVE  \E x \in S : \A y \in Nat : y < x => y \notin S
<1>1. PICK x \in S : \A y \in S : ~(<<y, x>> \in OpToRel(<, Nat))
  BY NatLessThanWellFounded, WFMin, Zenon
<1>2. ASSUME NEW y \in Nat, y < x, y \in S PROVE FALSE
  <2>1. <<y, x>> \in Nat \X Nat
    BY <1>2
  <2>2. <<y, x>> \in OpToRel(<, Nat)
    BY <1>2, <2>1 DEF OpToRel
  <2> QED  BY <1>1, <1>2, <2>2
<1> QED  BY <1>2

(* What is so of 0, and of each number up to n if of the one before, is so *)
(* of all of them.                                                         *)
LEMMA Induction ==
  ASSUME NEW n \in Nat, NEW S, 0 \in S, \A k \in 1 .. n : k - 1 \in S => k \in S
  PROVE  \A k \in 0 .. n : k \in S
<1> DEFINE T == {k \in 0 .. n : k \notin S}
<1>1. SUFFICES ASSUME T # {} PROVE FALSE
  OBVIOUS
<1>2. PICK k \in T : \A j \in Nat : j < k => j \notin T
  <2>1. T \subseteq Nat
    OBVIOUS
  <2> QED  BY <1>1, <2>1, LeastOf
<1>3. k \in 1 .. n /\ k \notin S /\ k - 1 \in 0 .. n /\ k - 1 \in Nat /\ k - 1 < k
  OBVIOUS
<1>4. k - 1 \notin T
  BY <1>2, <1>3, Zenon
<1>5. k - 1 \in S
  BY <1>3, <1>4
<1> QED  BY <1>3, <1>5

(* The recursion of Ends defines a function.                               *)
LEMMA EndsExists ==
  ASSUME NEW s, NEW m \in Nat
  PROVE  \E f : f = [n \in 0 .. m |-> IF n = 0 THEN 0 ELSE f[n - 1] + s[n]]
<1> DEFINE Is(f, k) == f = [n \in 0 .. k |-> IF n = 0 THEN 0 ELSE f[n - 1] + s[n]]
<1> DEFINE S == {k \in Nat : \E f : Is(f, k)}
<1>1. 0 \in S
  <2> DEFINE f == [n \in 0 .. 0 |-> 0]
  <2>1. Is(f, 0)
    OBVIOUS
  <2> QED  BY <2>1
<1>2. ASSUME NEW k \in 1 .. m, k - 1 \in S PROVE k \in S
  <2>1. PICK f : Is(f, k - 1)
    BY <1>2
  <2> DEFINE g == [n \in 0 .. k |-> IF n = 0 THEN 0 ELSE f[n - 1] + s[n]]
  <2>2. ASSUME NEW n \in 0 .. k, n # 0 PROVE f[n - 1] = g[n - 1]
    <3>1. n - 1 \in 0 .. k - 1 /\ n - 1 \in 0 .. k
      BY <2>2
    <3>2. f[n - 1] = IF n - 1 = 0 THEN 0 ELSE f[(n - 1) - 1] + s[n - 1]
      BY <2>1, <3>1
    <3> QED  BY <3>1, <3>2
  <2>3. Is(g, k)
    BY <2>2
  <2>4. k \in Nat
    OBVIOUS
  <2> HIDE DEF Is, g
  <2> QED  BY <2>3, <2>4
<1> HIDE DEF S
<1>3. m \in S
  BY <1>1, <1>2, Induction
<1> QED  BY <1>3 DEF S

(* The end of each field is the end of the one before, and its size.       *)
LEMMA EndsIs ==
  ASSUME NEW s \in Seq(Nat)
  PROVE  /\ DOMAIN Ends(s) = 0 .. Len(s) /\ Ends(s)[0] = 0
         /\ \A n \in 1 .. Len(s) : Ends(s)[n] = Ends(s)[n - 1] + s[n]
<1>1. Len(s) \in Nat
  BY LenProperties
<1> DEFINE Is(f) == f = [n \in 0 .. Len(s) |-> IF n = 0 THEN 0 ELSE f[n - 1] + s[n]]
<1>2. \E f : Is(f)
  BY <1>1, EndsExists
<1>3. Ends(s) = CHOOSE f : Is(f)
  BY DEF Ends
<1>4. Is(Ends(s))
  BY <1>2, <1>3, Zenon
<1> QED  BY <1>1, <1>4

(* Fields end at numbers, each no earlier than those before it.            *)
LEMMA EndsGrow ==
  ASSUME NEW s \in Seq(Nat)
  PROVE  /\ \A n \in 0 .. Len(s) : Ends(s)[n] \in Nat
         /\ \A m, n \in 0 .. Len(s) : m <= n => Ends(s)[m] <= Ends(s)[n]
         /\ SumOf(s) \in Nat
<1>0. Len(s) \in Nat /\ \A n \in 1 .. Len(s) : s[n] \in Nat
  BY LenProperties, ElementOfSeq
<1> DEFINE e == Ends(s)
<1>1. e[0] = 0 /\ \A n \in 1 .. Len(s) : e[n] = e[n - 1] + s[n]
  BY EndsIs
<1> HIDE DEF e
<1> DEFINE S == {n \in 0 .. Len(s) : \A m \in 0 .. n : e[m] \in Nat /\ e[m] <= e[n]}
<1>2. 0 \in S
  BY <1>0, <1>1
<1>3. ASSUME NEW n \in 1 .. Len(s), n - 1 \in S PROVE n \in S
  <2>1. /\ e[n - 1] \in Nat /\ e[n] = e[n - 1] + s[n]
        /\ \A m \in 0 .. n - 1 : e[m] \in Nat /\ e[m] <= e[n - 1]
    BY <1>1, <1>3
  <2>2. e[n] \in Nat /\ e[n - 1] <= e[n]
    BY <1>0, <2>1
  <2>3. ASSUME NEW m \in 0 .. n PROVE e[m] \in Nat /\ e[m] <= e[n]
    <3>1. CASE m = n
      BY <2>2, <3>1
    <3>2. CASE m # n
      <4>1. m \in 0 .. n - 1
        BY <1>0, <3>2
      <4>2. e[m] <= e[n - 1] /\ e[m] \in Nat
        BY <2>1, <4>1
      <4> QED  BY <2>1, <2>2, <4>2
    <3> QED  BY <3>1, <3>2
  <2> QED  BY <1>0, <2>3
<1> HIDE DEF S
<1>4. \A n \in 0 .. Len(s) : n \in S
  BY <1>0, <1>2, <1>3, Induction
<1>5. \A n \in 0 .. Len(s) : e[n] \in Nat
  BY <1>4 DEF S
<1>6. \A m, n \in 0 .. Len(s) : m <= n => e[m] <= e[n]
  <2>1. \A n \in 0 .. Len(s) : \A m \in 0 .. n : e[m] <= e[n]
    BY <1>4 DEF S
  <2> QED  BY <2>1
<1>7. Len(s) \in 0 .. Len(s)
  BY <1>0
<1> QED  BY <1>5, <1>6, <1>7 DEF e, SumOf

(* The sizes of one field behind the other.                                *)
LEMMA SumOfBoth ==
  ASSUME NEW s \in Seq(Nat), NEW t \in Seq(Nat)
  PROVE  /\ s \o t \in Seq(Nat) /\ Len(s \o t) = Len(s) + Len(t)
         /\ \A n \in 0 .. Len(s) : Ends(s \o t)[n] = Ends(s)[n]
         /\ \A n \in 0 .. Len(t) : Ends(s \o t)[Len(s) + n] = SumOf(s) + Ends(t)[n]
         /\ SumOf(s \o t) = SumOf(s) + SumOf(t)
<1> DEFINE u == s \o t
<1>1. /\ u \in Seq(Nat) /\ Len(u) = Len(s) + Len(t) /\ Len(s) \in Nat /\ Len(t) \in Nat
      /\ \A n \in 1 .. Len(s) : u[n] = s[n]
      /\ \A n \in 1 .. Len(t) : u[Len(s) + n] = t[n]
  BY LenProperties, ConcatProperties
<1> HIDE DEF u
<1> DEFINE a == Ends(u)  b == Ends(s)  c == Ends(t)
<1>2. /\ a[0] = 0 /\ b[0] = 0 /\ c[0] = 0
      /\ \A n \in 1 .. Len(u) : a[n] = a[n - 1] + u[n]
      /\ \A n \in 1 .. Len(s) : b[n] = b[n - 1] + s[n]
      /\ \A n \in 1 .. Len(t) : c[n] = c[n - 1] + t[n]
  BY <1>1, EndsIs
<1>3. SumOf(s) = b[Len(s)] /\ SumOf(t) = c[Len(t)] /\ SumOf(u) = a[Len(u)] /\ SumOf(s) \in Nat
      /\ (\A n \in 1 .. Len(t) : t[n] \in Nat) /\ \A n \in 0 .. Len(t) : c[n] \in Nat
  BY EndsGrow, ElementOfSeq DEF SumOf
<1> HIDE DEF a, b, c
<1>4. \A n \in 0 .. Len(s) : a[n] = b[n]
  <2> DEFINE S == {n \in 0 .. Len(s) : a[n] = b[n]}
  <2>1. 0 \in S
    BY <1>1, <1>2
  <2>2. ASSUME NEW n \in 1 .. Len(s), n - 1 \in S PROVE n \in S
    <3>1. n \in 1 .. Len(u)
      BY <1>1
    <3> QED  BY <1>1, <1>2, <2>2, <3>1
  <2> HIDE DEF S
  <2>3. \A n \in 0 .. Len(s) : n \in S
    BY <1>1, <2>1, <2>2, Induction
  <2> QED  BY <2>3 DEF S
<1>5. \A n \in 0 .. Len(t) : a[Len(s) + n] = b[Len(s)] + c[n]
  <2> DEFINE S == {n \in 0 .. Len(t) : a[Len(s) + n] = b[Len(s)] + c[n]}
  <2>1. 0 \in S
    <3>1. Len(s) \in 0 .. Len(s) /\ Len(s) + 0 = Len(s) /\ b[Len(s)] + 0 = b[Len(s)]
      BY <1>1, <1>3
    <3> QED  BY <1>1, <1>2, <1>4, <3>1
  <2>2. ASSUME NEW n \in 1 .. Len(t), n - 1 \in S PROVE n \in S
    <3>1. Len(s) + n \in 1 .. Len(u) /\ (Len(s) + n) - 1 = Len(s) + (n - 1) /\ n - 1 \in 0 .. Len(t)
      BY <1>1
    <3>2. a[Len(s) + n] = a[Len(s) + (n - 1)] + u[Len(s) + n]
      BY <1>2, <3>1
    <3>3. u[Len(s) + n] = t[n] /\ a[Len(s) + (n - 1)] = b[Len(s)] + c[n - 1]
      BY <1>1, <2>2
    <3>4. \A x, y, z \in Nat : (x + y) + z = x + (y + z)
      OBVIOUS
    <3>5. c[n] = c[n - 1] + t[n] /\ c[n - 1] \in Nat /\ t[n] \in Nat
      BY <1>2, <1>3, <3>1
    <3> QED  BY <1>3, <3>2, <3>3, <3>4, <3>5
  <2> HIDE DEF S
  <2>3. \A n \in 0 .. Len(t) : n \in S
    BY <1>1, <2>1, <2>2, Induction
  <2> QED  BY <2>3 DEF S
<1>6. a[Len(u)] = b[Len(s)] + c[Len(t)]
  BY <1>1, <1>5
<1> QED  BY <1>1, <1>3, <1>4, <1>5, <1>6 DEF u, a, b, c

(* No field, and a single one.                                             *)
LEMMA SumOfNone == << >> \in Seq(Nat) /\ SumOf(<< >>) = 0
<1>1. << >> \in Seq(Nat) /\ Len(<< >>) = 0
  BY EmptySeq
<1> QED  BY <1>1, EndsIs DEF SumOf

(* A single field ends after all of its bytes.                             *)
LEMMA SumOfOne == \A x \in Nat : <<x>> \in Seq(Nat) /\ SumOf(<<x>>) = x
<1> TAKE x \in Nat
<1>1. <<x>> \in Seq(Nat) /\ Len(<<x>>) = 1 /\ <<x>>[1] = x
  OBVIOUS
<1> DEFINE s == <<x>>
<1> HIDE DEF s
<1>2. s \in Seq(Nat) /\ Len(s) = 1 /\ s[1] = x
  BY <1>1 DEF s
<1>3. Ends(s)[0] = 0 /\ Ends(s)[1] = Ends(s)[1 - 1] + s[1]
  BY <1>2, EndsIs
<1>4. SumOf(s) = x
  BY <1>2, <1>3 DEF SumOf
<1> QED  BY <1>2, <1>4 DEF s

-----------------------------------------------------------------------------
(***************************************************************************)
(* Commands and their responses.                                           *)
(***************************************************************************)

-----------------------------------------------------------------------------
(***************************************************************************)
(* Commands and their responses.                                           *)
(***************************************************************************)
IsList(s) == Len(s) \in Nat /\ DOMAIN s = 1 .. Len(s)

(* What the commands have in common.                                       *)
CommandOK(c) ==
  /\ c.handles \in Nat /\ c.sessions \in 0 .. 2 /\ IsList(c.results)
  /\ c.gives \in BOOLEAN /\ (ReturnsHandle(c) <=> c.gives)

(* In particular the codes that TSS_DispatchCmd takes a handle out for are *)
(* those of the functions that give one to their caller.                   *)
LEMMA CommandsAre == \A c \in Commands : CommandOK(c)
<1> DEFINE Has(c, code, gives) ==
             /\ c.code = code /\ c.handles \in Nat /\ c.sessions \in 0 .. 2
             /\ IsList(c.results) /\ c.gives = gives
<1> USE DEF Command, GivesHandle, IsList
<1>1. Has(HMAC, \h155, FALSE)
  BY DEF HMAC
<1>2. Has(SequenceComplete, \h13E, FALSE)
  BY DEF SequenceComplete
<1>3. Has(SequenceUpdate, \h15C, FALSE)
  BY DEF SequenceUpdate
<1>4. Has(Sign, \h15D, FALSE)
  BY DEF Sign
<1>5. Has(ActivateCredential, \h147, FALSE)
  BY DEF ActivateCredential
<1>6. Has(Create, \h153, FALSE)
  BY DEF Create, CreationResults
<1>7. Has(CreatePrimary, \h131, TRUE)
  BY DEF CreatePrimary, CreationResults
<1>8. Has(EncryptDecrypt, \h164, FALSE)
  BY DEF EncryptDecrypt
<1>9. Has(EvictControl, \h120, FALSE)
  BY DEF EvictControl
<1>10. Has(FlushContext, \h165, FALSE)
  BY DEF FlushContext
<1>11. Has(GetCapability, \h17A, FALSE)
  BY DEF GetCapability
<1>12. Has(Hash, \h17D, FALSE)
  BY DEF Hash
<1>13. Has(HashSequenceStart, \h186, TRUE)
  BY DEF HashSequenceStart
<1>14. Has(HMAC_Start, \h15B, TRUE)
  BY DEF HMAC_Start
<1>15. Has(Import, \h156, FALSE)
  BY DEF Import
<1>16. Has(Load, \h157, TRUE)
  BY DEF Load
<1>17. Has(PolicySecret, \h151, FALSE)
  BY DEF PolicySecret
<1>18. Has(ReadPublic, \h173, FALSE)
  BY DEF ReadPublic
<1>19. Has(StartAuthSession, \h176, TRUE)
  BY DEF StartAuthSession
<1>20. Has(Startup, \h144, FALSE)
  BY DEF Startup
<1> HIDE DEF IsList
<1> DEFINE Codes == {\h131, \h157, \h15B, \h176, \h186, \h161, \h167, \h191}
<1>21. \A c : ReturnsHandle(c) <=> c.code \in Codes
  <2>1. /\ CreatePrimary.code = \h131 /\ Load.code = \h157 /\ HMAC_Start.code = \h15B
        /\ StartAuthSession.code = \h176 /\ HashSequenceStart.code = \h186
    BY <1>7, <1>13, <1>14, <1>16, <1>19
  <2> QED  BY <2>1 DEF ReturnsHandle, ContextLoadCodes
<1>22. ASSUME NEW c, NEW code, NEW gives \in BOOLEAN, Has(c, code, gives), code \in Codes <=> gives
       PROVE  CommandOK(c)
  BY <1>21, <1>22 DEF CommandOK
<1> HIDE DEF Has, Codes
<1>23. CommandOK(HMAC)
  <2>1. \h155 \in Codes <=> FALSE
    BY DEF Codes
  <2> QED  BY <1>1, <1>22, <2>1
<1>24. CommandOK(SequenceComplete)
  <2>1. \h13E \in Codes <=> FALSE
    BY DEF Codes
  <2> QED  BY <1>2, <1>22, <2>1
<1>25. CommandOK(SequenceUpdate)
  <2>1. \h15C \in Codes <=> FALSE
    BY DEF Codes
  <2> QED  BY <1>3, <1>22, <2>1
<1>26. CommandOK(Sign)
  <2>1. \h15D \in Codes <=> FALSE
    BY DEF Codes
  <2> QED  BY <1>4, <1>22, <2>1
<1>27. CommandOK(ActivateCredential)
  <2>1. \h147 \in Codes <=> FALSE
    BY DEF Codes
  <2> QED  BY <1>5, <1>22, <2>1
<1>28. CommandOK(Create)
  <2>1. \h153 \in Codes <=> FALSE
    BY DEF Codes
  <2> QED  BY <1>6, <1>22, <2>1
<1>29. CommandOK(CreatePrimary)
  <2>1. \h131 \in Codes <=> TRUE
    BY DEF Codes
  <2> QED  BY <1>7, <1>22, <2>1
<1>30. CommandOK(EncryptDecrypt)
  <2>1. \h164 \in Codes <=> FALSE
    BY DEF Codes
  <2> QED  BY <1>8, <1>22, <2>1
<1>31. CommandOK(EvictControl)
  <2>1. \h120 \in Codes <=> FALSE
    BY DEF Codes
  <2> QED  BY <1>9, <1>22, <2>1
<1>32. CommandOK(FlushContext)
  <2>1. \h165 \in Codes <=> FALSE
    BY DEF Codes
  <2> QED  BY <1>10, <1>22, <2>1
<1>33. CommandOK(GetCapability)
  <2>1. \h17A \in Codes <=> FALSE
    BY DEF Codes
  <2> QED  BY <1>11, <1>22, <2>1
<1>34. CommandOK(Hash)
  <2>1. \h17D \in Codes <=> FALSE
    BY DEF Codes
  <2> QED  BY <1>12, <1>22, <2>1
<1>35. CommandOK(HashSequenceStart)
  <2>1. \h186 \in Codes <=> TRUE
    BY DEF Codes
  <2> QED  BY <1>13, <1>22, <2>1
<1>36. CommandOK(HMAC_Start)
  <2>1. \h15B \in Codes <=> TRUE
    BY DEF Codes
  <2> QED  BY <1>14, <1>22, <2>1
<1>37. CommandOK(Import)
  <2>1. \h156 \in Codes <=> FALSE
    BY DEF Codes
  <2> QED  BY <1>15, <1>22, <2>1
<1>38. CommandOK(Load)
  <2>1. \h157 \in Codes <=> TRUE
    BY DEF Codes
  <2> QED  BY <1>16, <1>22, <2>1
<1>39. CommandOK(PolicySecret)
  <2>1. \h151 \in Codes <=> FALSE
    BY DEF Codes
  <2> QED  BY <1>17, <1>22, <2>1
<1>40. CommandOK(ReadPublic)
  <2>1. \h173 \in Codes <=> FALSE
    BY DEF Codes
  <2> QED  BY <1>18, <1>22, <2>1
<1>41. CommandOK(StartAuthSession)
  <2>1. \h176 \in Codes <=> TRUE
    BY DEF Codes
  <2> QED  BY <1>19, <1>22, <2>1
<1>42. CommandOK(Startup)
  <2>1. \h144 \in Codes <=> FALSE
    BY DEF Codes
  <2> QED  BY <1>20, <1>22, <2>1
<1> QED  BY <1>23, <1>24, <1>25, <1>26, <1>27, <1>28, <1>29, <1>30, <1>31, <1>32,
             <1>33, <1>34, <1>35, <1>36, <1>37, <1>38, <1>39, <1>40, <1>41, <1>42 DEF Commands

-----------------------------------------------------------------------------
(***************************************************************************)
(* Response codes.                                                         *)
(***************************************************************************)
(* CleanResponseCode on every word: with the bit of format one six bits    *)
(* are kept, and nothing of where the error is ...                         *)
LEMMA CleanFormatOne ==
  ASSUME NEW i \in 0..63, NEW p \in 0..1, NEW m \in Nat,
         NEW w, w = RC_FMT1 + i + 64 * p + 256 * m
  PROVE  CleanCode(w) = RC_FMT1 + i
<1>1. w \in Int /\ w = 128 + i + 64 * p + 256 * m
  BY SMT DEF RC_FMT1
<1>2. w \div 128 = 2 * m + 1 /\ (2 * m + 1) % 2 = 1 /\ w % 64 = i
  BY <1>1, SMT
<1> QED BY <1>1, <1>2, SMT DEF CleanCode, RC_FMT1

(* ... and without it seven bits, whether the code is of a TPM 2.0, and    *)
(* whether it is a warning.                                                *)
LEMMA CleanFormatZero ==
  ASSUME NEW i \in 0..127, NEW v \in 0..1, NEW x \in 0..3, NEW s \in 0..1, NEW y \in 0..15
  PROVE  CleanCode(i + 256 * v + 512 * x + 2048 * s + 4096 * y) = i + 256 * v + 2048 * s
<1>1. PICK w \in Int : w = i + 256 * v + 512 * x + 2048 * s + 4096 * y
  BY SMT
<1>2. w % 128 = i /\ w \div 128 = 2 * (v + 2 * x + 8 * s + 16 * y)
  BY <1>1, SMT
<1>3. w \div 256 = v + 2 * (x + 4 * s + 8 * y) /\ w \div 2048 = s + 2 * y
  BY <1>1, SMT
<1>4. /\ (2 * (v + 2 * x + 8 * s + 16 * y)) % 2 = 0
      /\ (v + 2 * (x + 4 * s + 8 * y)) % 2 = v /\ (s + 2 * y) % 2 = s
  BY SMT
<1>5. CleanCode(w) = i + 256 * v + 2048 * s
  BY <1>2, <1>3, <1>4, SMT DEF CleanCode, RC_FMT1
<1> QED BY <1>1, <1>5

(* CleanResponseCode gives the caller every error the TPM defines: one     *)
(* that says where it is loses that and nothing else, the others come      *)
(* through as they are, and those of the medium are not touched.           *)
THEOREM ErrorsComeThrough ==
  /\ \A e \in FormatOneCode, l \in Location : CleanResponseCode(0, e + l) = <<0, e>>
  /\ \A e \in DefinedCode : CleanResponseCode(0, e) = <<0, e>>
  /\ \A hi, lo : IsCommMediumError(hi) => CleanResponseCode(hi, lo) = <<hi, lo>>
<1>1. \A w : CleanResponseCode(0, w) = <<0, CleanCode(w)>>
  BY DEF CleanResponseCode, IsCommMediumError
<1>2. ASSUME NEW e \in FormatOneCode, NEW l \in Location \cup {0}
      PROVE  CleanCode(e + l) = e
  <2>1. PICK i \in 0..63 : e = RC_FMT1 + i
    BY SMT DEF FormatOneCode, RC_FMT1
  <2>2. PICK p \in 0..1, m \in Nat : l = 64 * p + 256 * m
    <3>1. CASE l = 0
      BY <3>1, SMT
    <3>2. ASSUME NEW n \in 1..15, l = TPM_RC_P + n * TPM_RC_1
          PROVE  \E p \in 0..1, m \in Nat : l = 64 * p + 256 * m
      <4>1. l = 64 * 1 + 256 * n
        BY <3>2, SMT DEF TPM_RC_P, TPM_RC_1
      <4> QED BY <4>1, SMT
    <3>3. ASSUME NEW n \in 1..7, l = n * TPM_RC_1
          PROVE  \E p \in 0..1, m \in Nat : l = 64 * p + 256 * m
      <4>1. l = 64 * 0 + 256 * n
        BY <3>3, SMT DEF TPM_RC_1
      <4> QED BY <4>1, SMT
    <3>4. ASSUME NEW n \in 1..7, l = TPM_RC_S + n * TPM_RC_1
          PROVE  \E p \in 0..1, m \in Nat : l = 64 * p + 256 * m
      <4>1. l = 64 * 0 + 256 * (8 + n)
        BY <3>4, SMT DEF TPM_RC_S, TPM_RC_1
      <4> QED BY <4>1, SMT
    <3> QED BY <3>1, <3>2, <3>3, <3>4, Zenon DEF Location
  <2>3. PICK w : w = e + l
    OBVIOUS
  <2>4. w = RC_FMT1 + i + 64 * p + 256 * m
    BY <2>1, <2>2, <2>3, SMT DEF RC_FMT1
  <2>5. CleanCode(w) = RC_FMT1 + i
    BY <2>4, CleanFormatOne
  <2> QED BY <2>1, <2>3, <2>5, Zenon
<1>3. ASSUME NEW e \in DefinedCode PROVE CleanCode(e) = e
  <2>1. CASE e \in FormatOneCode
    <3>1. e \in Int
      BY <2>1, SMT DEF FormatOneCode, RC_FMT1
    <3>2. e + 0 = e
      BY <3>1
    <3> QED BY <1>2, <2>1, <3>2
  <2>2. CASE e \notin FormatOneCode
    <3>1. PICK i \in 0..127, v \in 0..1, s \in 0..1 : e = i + 256 * v + 2048 * s
      <4>1. CASE e = TPM_RC_SUCCESS \/ e = TPM_RC_BAD_TAG
        BY <4>1, SMT DEF TPM_RC_SUCCESS, TPM_RC_BAD_TAG
      <4>2. CASE e \in VersionOneCode
        <5>1. PICK i \in 0..127 : e = i + 256 * 1 + 2048 * 0
          BY <4>2, SMT DEF VersionOneCode, RC_VER1
        <5> QED BY <5>1, SMT
      <4>3. CASE e \in WarningCode
        <5>1. PICK i \in 0..127 : e = i + 256 * 1 + 2048 * 1
          BY <4>3, SMT DEF WarningCode, RC_WARN
        <5> QED BY <5>1, SMT
      <4> QED BY <2>2, <4>1, <4>2, <4>3, Zenon DEF DefinedCode
    <3>2. e = i + 256 * v + 512 * 0 + 2048 * s + 4096 * 0
      BY <3>1, SMT
    <3> QED BY <3>1, <3>2, CleanFormatZero
  <2> QED BY <2>1, <2>2
<1>4. \A e \in FormatOneCode, l \in Location : CleanResponseCode(0, e + l) = <<0, e>>
  BY <1>1, <1>2
<1>5. \A e \in DefinedCode : CleanResponseCode(0, e) = <<0, e>>
  BY <1>1, <1>3
<1>6. \A hi, lo : IsCommMediumError(hi) => CleanResponseCode(hi, lo) = <<hi, lo>>
  BY DEF CleanResponseCode
<1> QED BY <1>4, <1>5, <1>6, Zenon

(* A refusal comes through as it is, or as the error of the medium that it *)
(* is, and neither is taken for a success.                                 *)
LEMMA RefusalIs ==
  ASSUME NEW e \in DefinedCode \ {TPM_RC_SUCCESS},
         NEW raw \in {OfTpm(e), <<32808, e>>}
                     \cup (IF e \in FormatOneCode THEN {OfTpm(e + l) : l \in Location} ELSE {})
  PROVE  /\ raw # OfTpm(TPM_RC_SUCCESS)
         /\ CleanResponseCode(raw[1], raw[2]) = IF raw[1] = 0 THEN OfTpm(e) ELSE raw
         /\ CleanResponseCode(raw[1], raw[2]) # OfTpm(TPM_RC_SUCCESS)
<1>1. CASE raw = OfTpm(e)
  <2>1. CleanResponseCode(0, e) = <<0, e>>
    BY ErrorsComeThrough
  <2> QED  BY <1>1, <2>1 DEF OfTpm
<1>2. CASE raw = <<32808, e>>
  <2>1. CleanResponseCode(32808, e) = <<32808, e>>
    BY ErrorsComeThrough DEF IsCommMediumError
  <2> QED  BY <1>2, <2>1 DEF OfTpm
<1>3. CASE e \in FormatOneCode /\ raw \in {OfTpm(e + l) : l \in Location}
  <2>1. PICK l \in Location : raw = OfTpm(e + l)
    BY <1>3
  <2>2. CleanResponseCode(0, e + l) = <<0, e>>
    BY <1>3, ErrorsComeThrough
  <2>3. e + l # 0
    <3>1. e \in Int /\ e > 0
      BY <1>3, SMT DEF FormatOneCode, RC_FMT1
    <3>2. l \in Int /\ l >= 0
      BY SMT DEF Location, TPM_RC_P, TPM_RC_S, TPM_RC_1
    <3> QED  BY <3>1, <3>2
  <2> QED  BY <2>1, <2>2, <2>3 DEF OfTpm, TPM_RC_SUCCESS
<1> QED  BY <1>1, <1>2, <1>3

-----------------------------------------------------------------------------
(***************************************************************************)
(* Responses.                                                              *)
(***************************************************************************)
(* What a response takes: what comes before its results, the results, and  *)
(* the authorizations.                                                     *)
LEMMA WholeIs ==
  ASSUME NEW r, r.results \in Seq(Nat), r.auths \in Seq(Nat)
  PROVE  /\ Whole(r) = 10 + (IF r.made = TPM_RH_UNASSIGNED THEN 0 ELSE 4)
                       + (IF r.tag = "TPM_ST_SESSIONS" THEN 4 ELSE 0)
                       + SumOf(r.results) + SumOf(r.auths)
         /\ Fields(r) \in Seq(Nat)
<1> DEFINE h == IF r.made = TPM_RH_UNASSIGNED THEN << >> ELSE <<4>>
           a == IF r.tag = "TPM_ST_SESSIONS" THEN <<4>> ELSE << >>
           H == IF r.made = TPM_RH_UNASSIGNED THEN 0 ELSE 4
           A == IF r.tag = "TPM_ST_SESSIONS" THEN 4 ELSE 0
<1>1. h \in Seq(Nat) /\ SumOf(h) = H /\ a \in Seq(Nat) /\ SumOf(a) = A
  BY SumOfNone, SumOfOne
<1>2. <<2, 4, 4>> \in Seq(Nat) /\ SumOf(<<2, 4, 4>>) = 10
  <2> DEFINE s == <<2, 4, 4>>
  <2>1. s \in Seq(Nat) /\ Len(s) = 3 /\ s[1] = 2 /\ s[2] = 4 /\ s[3] = 4
    OBVIOUS
  <2> HIDE DEF s
  <2>2. /\ Ends(s)[0] = 0 /\ Ends(s)[1] = Ends(s)[0] + 2
        /\ Ends(s)[2] = Ends(s)[1] + 4 /\ Ends(s)[3] = Ends(s)[2] + 4
    <3>1. /\ 1 \in 1 .. 3 /\ 2 \in 1 .. 3 /\ 3 \in 1 .. 3 /\ 1 - 1 = 0 /\ 2 - 1 = 1 /\ 3 - 1 = 2
      OBVIOUS
    <3> QED  BY <2>1, <3>1, EndsIs
  <2>3. SumOf(s) = 10
    BY <2>1, <2>2 DEF SumOf
  <2> QED  BY <2>1, <2>3 DEF s
<1> HIDE DEF h, a
<1> DEFINE f1 == <<2, 4, 4>> \o h  f2 == f1 \o a  f3 == f2 \o r.results  f4 == f3 \o r.auths
<1>3. f1 \in Seq(Nat) /\ SumOf(f1) = 10 + H
  <2>1. SumOf(<<2, 4, 4>> \o h) = SumOf(<<2, 4, 4>>) + SumOf(h) /\ <<2, 4, 4>> \o h \in Seq(Nat)
    BY <1>1, <1>2, SumOfBoth
  <2> QED  BY <1>1, <1>2, <2>1
<1> HIDE DEF f1
<1>4. f2 \in Seq(Nat) /\ SumOf(f2) = 10 + H + A
  <2>1. SumOf(f1 \o a) = SumOf(f1) + SumOf(a) /\ f1 \o a \in Seq(Nat)
    BY <1>1, <1>3, SumOfBoth
  <2> QED  BY <1>1, <1>3, <2>1
<1> HIDE DEF f2
<1>5. f3 \in Seq(Nat) /\ SumOf(f3) = 10 + H + A + SumOf(r.results)
  BY <1>4, SumOfBoth
<1> HIDE DEF f3
<1>6. f4 \in Seq(Nat) /\ SumOf(f4) = 10 + H + A + SumOf(r.results) + SumOf(r.auths)
  BY <1>5, SumOfBoth
<1>7. Fields(r) = f4
  BY DEF Fields, f1, f2, f3, h, a
<1> QED  BY <1>6, <1>7 DEF Whole

(* The response of a TPM that did command c.                               *)
DoneIs(r, c) ==
  /\ r.tag = IF c.sessions = 0 THEN "TPM_ST_NO_SESSIONS" ELSE "TPM_ST_SESSIONS"
  /\ r.error = TPM_RC_SUCCESS /\ r.raw = OfTpm(TPM_RC_SUCCESS)
  /\ r.made = IF c.gives THEN 1 ELSE TPM_RH_UNASSIGNED
  /\ r.results \in Seq(Nat) /\ Len(r.results) = Len(c.results) /\ r.auths \in Seq(Nat)
  /\ r.received \in Int /\ r.unknown \in 0 .. Len(c.results)
  /\ r.unknown # 0 => r.received = Whole(r)

(* The response that is nothing but an error.                              *)
BareIs(r) ==
  /\ r.made = TPM_RH_UNASSIGNED /\ r.results = << >> /\ r.auths = << >>
  /\ r.received = 10 /\ r.unknown = 0 /\ r.error # TPM_RC_SUCCESS

RefusedIs(r) ==
  /\ BareIs(r) /\ r.tag = "TPM_ST_NO_SESSIONS" /\ r.raw # OfTpm(TPM_RC_SUCCESS)
  /\ CleanResponseCode(r.raw[1], r.raw[2]) = IF r.raw[1] = 0 THEN OfTpm(r.error) ELSE r.raw
  /\ CleanResponseCode(r.raw[1], r.raw[2]) # OfTpm(TPM_RC_SUCCESS)

OldIs(r) == BareIs(r) /\ r.tag = "TPM_ST_RSP_COMMAND"

(* What TSS_DispatchCmd makes of the response to a command that was done:  *)
(* if it is whole, what is left is the results and the authorizations.     *)
LEMMA DoneOutcome ==
  ASSUME NEW r, function \in Commands, DoneIs(r, function)
  PROVE  /\ r.received # Whole(r) => Outcome(r) # OfTpm(TPM_RC_SUCCESS)
         /\ r.received = Whole(r) =>
              /\ Outcome(r) = OfTpm(TPM_RC_SUCCESS)
              /\ r.received - BytesBefore(r) = SumOf(r.results) + SumOf(r.auths)
              /\ (IF function.gives THEN RetHandle(r) ELSE TPM_RH_UNASSIGNED) = r.made
<1>1. CommandOK(function)
  BY CommandsAre
<1>2. /\ r.tag = IF function.sessions = 0 THEN "TPM_ST_NO_SESSIONS" ELSE "TPM_ST_SESSIONS"
      /\ r.raw = OfTpm(TPM_RC_SUCCESS)
      /\ r.made = IF function.gives THEN 1 ELSE TPM_RH_UNASSIGNED
      /\ r.results \in Seq(Nat) /\ r.auths \in Seq(Nat)
  BY DEF DoneIs
<1>3. ReturnsHandle(function) <=> function.gives
  BY <1>1 DEF CommandOK
<1>4. ASSUME r.received # Whole(r) PROVE Outcome(r) # OfTpm(TPM_RC_SUCCESS)
  <2>1. Outcome(r) \in {OfTpm(TPM_RC_INSUFFICIENT), OfTpm(TPM_RC_COMMAND_SIZE)}
    BY <1>4 DEF Outcome, WrongSize
  <2> QED  BY <2>1 DEF OfTpm, TPM_RC_INSUFFICIENT, TPM_RC_COMMAND_SIZE, TPM_RC_SUCCESS
<1>5. ASSUME r.received = Whole(r)
      PROVE  /\ Outcome(r) = OfTpm(TPM_RC_SUCCESS)
             /\ r.received - BytesBefore(r) = SumOf(r.results) + SumOf(r.auths)
             /\ (IF function.gives THEN RetHandle(r) ELSE TPM_RH_UNASSIGNED) = r.made
  <2> DEFINE H == IF function.gives THEN 4 ELSE 0
             A == IF r.tag = "TPM_ST_SESSIONS" THEN 4 ELSE 0
  <2>1. Whole(r) = 10 + H + A + SumOf(r.results) + SumOf(r.auths)
    <3>1. (IF r.made = TPM_RH_UNASSIGNED THEN 0 ELSE 4) = H
      BY <1>1, <1>2 DEF CommandOK, TPM_RH_UNASSIGNED
    <3> QED  BY <1>2, <3>1, WholeIs
  <2>2. BytesBefore(r) = 10 + H + A
    BY <1>2, <1>3 DEF BytesBefore, STD_RESPONSE_HEADER
  <2>3. SumOf(r.results) \in Nat /\ SumOf(r.auths) \in Nat /\ H \in Nat /\ A \in Nat
    BY <1>2, EndsGrow
  <2> HIDE DEF H, A
  <2>4. r.received \in Nat /\ r.received >= 10 /\ r.received >= BytesBefore(r)
    BY <1>5, <2>1, <2>2, <2>3
  <2>5. ~NoHeader(r)
    BY <1>2, <2>4 DEF NoHeader, STD_RESPONSE_HEADER
  <2>6. ~NoHandle(r)
    BY <1>2, <1>3 DEF NoHandle, RetHandle, TPM_RH_UNASSIGNED
  <2>7. CleanResponseCode(r.raw[1], r.raw[2]) = OfTpm(TPM_RC_SUCCESS)
    <3>1. TPM_RC_SUCCESS \in DefinedCode
      BY DEF DefinedCode
    <3>2. CleanResponseCode(0, TPM_RC_SUCCESS) = <<0, TPM_RC_SUCCESS>>
      BY <3>1, ErrorsComeThrough
    <3> QED  BY <1>2, <3>2 DEF OfTpm
  <2>8. ~(r.received < BytesBefore(r))
    <3>1. BytesBefore(r) \in Nat
      BY <2>2, <2>3
    <3> QED  BY <2>4, <3>1
  <2>9. Outcome(r) = OfTpm(TPM_RC_SUCCESS)
    BY <1>5, <2>5, <2>6, <2>7, <2>8, Zenon DEF Outcome, WrongSize
  <2>10. r.received - BytesBefore(r) = SumOf(r.results) + SumOf(r.auths)
    BY <1>5, <2>1, <2>2, <2>3
  <2>11. (IF function.gives THEN RetHandle(r) ELSE TPM_RH_UNASSIGNED) = r.made
    BY <1>1, <1>2, <1>3 DEF RetHandle, CommandOK
  <2> QED  BY <2>9, <2>10, <2>11
<1> QED  BY <1>4, <1>5

(* What it makes of an error.                                              *)
LEMMA RefusedOutcome ==
  ASSUME NEW r, RefusedIs(r)
  PROVE  /\ Outcome(r) # OfTpm(TPM_RC_SUCCESS)
         /\ Outcome(r) = IF r.raw[1] = 0 THEN OfTpm(r.error) ELSE r.raw
<1>1. BareIs(r) /\ r.tag = "TPM_ST_NO_SESSIONS" /\ r.raw # OfTpm(TPM_RC_SUCCESS)
  BY DEF RefusedIs
<1>2. r.received = 10 /\ Whole(r) = 10
  <2>1. r.results \in Seq(Nat) /\ r.auths \in Seq(Nat) /\ SumOf(r.results) = 0 /\ SumOf(r.auths) = 0
    BY <1>1, SumOfNone DEF BareIs
  <2>2. Whole(r) = 10 + 0 + 0 + 0 + 0
    BY <1>1, <2>1, WholeIs DEF BareIs
  <2> QED  BY <1>1, <2>2 DEF BareIs
<1>3. ~NoHeader(r) /\ ~WrongSize(r) /\ ~(r.received < BytesBefore(r)) /\ ~NoHandle(r)
  BY <1>1, <1>2 DEF NoHeader, WrongSize, BytesBefore, NoHandle, STD_RESPONSE_HEADER
<1>4. Outcome(r) = CleanResponseCode(r.raw[1], r.raw[2])
  BY <1>3, Zenon DEF Outcome
<1> QED  BY <1>4 DEF RefusedIs

(* What it makes of the answer of a TPM 1.2.                               *)
LEMMA OldOutcome ==
  ASSUME NEW r, OldIs(r)
  PROVE  Outcome(r) # OfTpm(TPM_RC_SUCCESS)
<1>1. Outcome(r) = OfTpm(TPM_RC_INSUFFICIENT)
  BY DEF OldIs, Outcome, NoHeader
<1> QED  BY <1>1 DEF OfTpm, TPM_RC_INSUFFICIENT, TPM_RC_SUCCESS

-----------------------------------------------------------------------------
(***************************************************************************)
(* A call.                                                                 *)
(***************************************************************************)
(* What is known while a TPM2_* function runs.  In particular, once it     *)
(* takes results off the response, the response is whole, and what is left *)
(* is the results from the next one on and the authorizations.             *)
SentInv ==
  /\ function \in Commands
  /\ \A i \in 1 .. function.sessions :
       asked.sessions[i].nonce \in Nat /\ asked.sessions[i].hmac \in Nat

AnsweredInv ==
  /\ function \in Commands /\ read = 0 /\ given = TPM_RH_UNASSIGNED
  /\ DoneIs(response, function) \/ RefusedIs(response) \/ OldIs(response)

ReadingInv ==
  /\ function \in Commands /\ DoneIs(response, function)
  /\ response.received = Whole(response) /\ given = response.made
  /\ read \in 0 .. Len(function.results) /\ response.unknown \notin 1 .. read
  /\ left = (SumOf(response.results) - Ends(response.results)[read]) + SumOf(response.auths)

CallInv ==
  /\ phase \in {"idle", "sent"} =>
       response = NoResponse /\ read = 0 /\ given = TPM_RH_UNASSIGNED
  /\ phase = "sent" => SentInv
  /\ phase = "answered" => AnsweredInv
  /\ phase = "reading" => ReadingInv
  /\ ResultIsTrue /\ MadeIsNamed

(* Nothing is claimed of a call that is still going on.                    *)
LEMMA NotReturned ==
  ASSUME phase # "returned" \/ response = NoResponse
  PROVE  ResultIsTrue /\ MadeIsNamed
BY DEF ResultIsTrue, MadeIsNamed, Returned, Answered

(* At the start nothing has been answered.                                 *)
LEMMA InitCall == Init => CallInv
<1> SUFFICES ASSUME Init PROVE CallInv
  OBVIOUS
<1>1. phase = "idle" /\ response = NoResponse /\ read = 0 /\ given = TPM_RH_UNASSIGNED
  BY DEF Init
<1>2. ResultIsTrue /\ MadeIsNamed
  BY <1>1, NotReturned
<1> QED  BY <1>1, <1>2 DEF CallInv

(* The same of the state after a step.                                     *)
LEMMA NotReturnedNext ==
  ASSUME phase' # "returned" \/ response' = NoResponse
  PROVE  ResultIsTrue' /\ MadeIsNamed'
BY DEF ResultIsTrue, MadeIsNamed, Returned, Answered

(* A call of TSS_BuildCommand sends nothing.                               *)
LEMMA BuildCall == CallInv /\ Build => CallInv'
<1> SUFFICES ASSUME CallInv, Build PROVE CallInv'
  OBVIOUS
<1>1. phase' = "returned" /\ response' = NoResponse
  BY DEF Build, CallInv
<1>2. ResultIsTrue' /\ MadeIsNamed'
  BY <1>1, NotReturnedNext
<1> QED  BY <1>1, <1>2 DEF CallInv

(* The sessions of the command that is sent are ones of Sessions.          *)
LEMMA InvokeCall == CallInv /\ Invoke => CallInv'
<1> SUFFICES ASSUME CallInv, Invoke PROVE CallInv'
  OBVIOUS
<1>1. /\ phase' = "sent" /\ response' = NoResponse /\ read' = 0 /\ given' = TPM_RH_UNASSIGNED
  BY DEF Invoke, CallInv
<1>2. PICK c \in Commands, s \in Sessions :
        \E n : function' = c /\ asked' = DispatchArguments(c, n, s)
  BY DEF Invoke
<1>3. CommandOK(c)
  BY CommandsAre
<1>4. ASSUME NEW i \in 1 .. c.sessions
      PROVE  asked'.sessions[i].nonce \in Nat /\ asked'.sessions[i].hmac \in Nat
  <2>1. c.sessions # 0 /\ i \in 1 .. 2
    BY <1>3 DEF CommandOK
  <2>2. PICK n : asked' = DispatchArguments(c, n, s)
    BY <1>2
  <2>3. asked'.sessions = [j \in 1 .. c.sessions |-> s[j]]
    BY <2>1, <2>2 DEF DispatchArguments
  <2>4. asked'.sessions[i] = s[i]
    BY <2>3
  <2> QED  BY <2>1, <2>4, CommandsAssumption
<1>5. SentInv'
  BY <1>2, <1>4 DEF SentInv
<1>6. ResultIsTrue' /\ MadeIsNamed'
  BY <1>1, NotReturnedNext
<1> QED  BY <1>1, <1>5, <1>6 DEF CallInv

(* When the transport fails there is no response to be true to.            *)
LEMMA SubmitFailsCall == CallInv /\ SubmitFails => CallInv'
<1> SUFFICES ASSUME CallInv, SubmitFails PROVE CallInv'
  OBVIOUS
<1>1. phase' = "returned" /\ response' = NoResponse
  BY DEF SubmitFails, Returns, CallInv
<1>2. ResultIsTrue' /\ MadeIsNamed'
  BY <1>1, NotReturnedNext
<1> QED  BY <1>1, <1>2 DEF CallInv

(* A response is delivered.                                                *)
LEMMA DeliversCall ==
  ASSUME CallInv, phase = "sent", NEW r, NEW n, NEW u, Delivers(r, n, u),
         DoneIs(response', function) \/ RefusedIs(response') \/ OldIs(response')
  PROVE  CallInv'
<1>1. /\ phase' = "answered" /\ function' = function /\ function \in Commands
      /\ read' = 0 /\ given' = TPM_RH_UNASSIGNED
  BY DEF Delivers, CallInv, SentInv
<1>2. AnsweredInv'
  BY <1>1 DEF AnsweredInv, DoneIs, RefusedIs, OldIs, BareIs
<1>3. ResultIsTrue' /\ MadeIsNamed'
  BY <1>1, NotReturnedNext
<1> QED  BY <1>1, <1>2, <1>3 DEF CallInv

(* The fields of a response to a command that was done: it has a handle if *)
(* the command gives one, and an authorization for each session.           *)
LEMMA SucceedsCall == CallInv /\ Succeeds => CallInv'
<1> SUFFICES ASSUME CallInv, Succeeds PROVE CallInv'
  OBVIOUS
<1>1. phase = "sent" /\ SentInv
  BY DEF Succeeds, CallInv
<1>2. CommandOK(function) /\ function \in Commands
  BY <1>1, CommandsAre DEF SentInv
<1>3. PICK sizes \in {[i \in DOMAIN function.results |-> Smallest[function.results[i]]],
                      [i \in DOMAIN function.results |-> Largest[function.results[i]]]} :
        LET r == Done(function, sizes, asked) IN
        \/ \E n \in Delivered(r) : Delivers(r, n, 0)
        \/ Unknown /\ \E u \in DOMAIN sizes : Delivers(r, Whole(r), u)
  BY DEF Succeeds
<1>4. /\ sizes \in Seq(Nat) /\ Len(sizes) = Len(function.results)
      /\ DOMAIN sizes = 1 .. Len(function.results) /\ Len(function.results) \in Nat
  <2> DEFINE m == Len(function.results)
  <2>1. DOMAIN function.results = 1 .. m /\ m \in Nat
    BY <1>2 DEF CommandOK, IsList
  <2>2. \A i \in DOMAIN function.results :
          Smallest[function.results[i]] \in Nat /\ Largest[function.results[i]] \in Nat
    BY <1>2, FormatAssumption
  <2>3. sizes \in [1 .. m -> Nat]
    BY <1>3, <2>1, <2>2
  <2> HIDE DEF m
  <2>4. sizes \in Seq(Nat) /\ Len(sizes) = m /\ DOMAIN sizes = 1 .. m
    BY <2>1, <2>3
  <2> QED  BY <2>1, <2>4 DEF m
<1> DEFINE r == Done(function, sizes, asked)
<1>5. /\ r.results \in Seq(Nat) /\ r.auths \in Seq(Nat) /\ r.results = sizes
  <2> DEFINE a == [i \in 1 .. function.sessions |->
                     5 + asked.sessions[i].nonce + asked.sessions[i].hmac]
  <2>1. a \in [1 .. function.sessions -> Nat] /\ function.sessions \in Nat
    BY <1>1, <1>2 DEF SentInv, CommandOK
  <2>2. r.auths = a /\ r.results = sizes
    BY DEF Done
  <2> HIDE DEF a
  <2>3. a \in Seq(Nat)
    BY <2>1
  <2> QED  BY <1>4, <2>2, <2>3
<1>6. ASSUME NEW n \in Int, NEW u \in 0 .. Len(function.results), u # 0 => n = Whole(r),
             Delivers(r, n, u)
      PROVE  CallInv'
  <2>1. response' = [r EXCEPT !.received = n, !.unknown = u]
    BY <1>6 DEF Delivers
  <2>2. /\ response'.tag = r.tag /\ response'.error = r.error /\ response'.raw = r.raw
        /\ response'.made = r.made /\ response'.results = r.results
        /\ response'.auths = r.auths /\ response'.received = n /\ response'.unknown = u
        /\ Whole(response') = Whole(r)
    <3>1. PICK tag, e, raw, made, results, auths :
            r = [tag |-> tag, error |-> e, raw |-> raw, made |-> made,
                 results |-> results, auths |-> auths, received |-> 0, unknown |-> 0]
      BY DEF Done
    <3> HIDE DEF r
    <3>2. /\ response'.tag = r.tag /\ response'.error = r.error /\ response'.raw = r.raw
          /\ response'.made = r.made /\ response'.results = r.results
          /\ response'.auths = r.auths /\ response'.received = n /\ response'.unknown = u
      BY <2>1, <3>1
    <3>3. Fields(response') = Fields(r)
      BY <3>2 DEF Fields
    <3> QED  BY <3>2, <3>3 DEF Whole
  <2>3. /\ r.tag = IF function.sessions = 0 THEN "TPM_ST_NO_SESSIONS" ELSE "TPM_ST_SESSIONS"
        /\ r.error = TPM_RC_SUCCESS /\ r.raw = OfTpm(TPM_RC_SUCCESS)
        /\ r.made = IF function.gives THEN 1 ELSE TPM_RH_UNASSIGNED
    BY DEF Done
  <2> HIDE DEF r
  <2>4. DoneIs(response', function)
    BY <1>4, <1>5, <1>6, <2>2, <2>3 DEF DoneIs
  <2> QED  BY <1>1, <1>6, <2>4, DeliversCall
<1>7. Delivered(r) \subseteq Int
  <2>1. \A i \in 0 .. Len(Fields(r)) : Ends(Fields(r))[i] \in Nat
    BY <1>5, WholeIs, EndsGrow
  <2>2. \A i \in 1 .. Len(Fields(r)) : Ends(Fields(r))[i] \in Nat
    <3>1. Fields(r) \in Seq(Nat)
      BY <1>5, WholeIs
    <3>2. Len(Fields(r)) \in Nat
      BY <3>1, LenProperties
    <3> QED  BY <2>1, <3>2
  <2> QED  BY <2>2 DEF Delivered
<1>8. Whole(r) \in Int
  <2>1. SumOf(Fields(r)) \in Nat
    BY <1>5, WholeIs, EndsGrow
  <2> QED  BY <2>1 DEF Whole
<1>9. \/ \E n \in Delivered(r) : Delivers(r, n, 0)
      \/ \E u \in DOMAIN sizes : Delivers(r, Whole(r), u)
  BY <1>3
<1> HIDE DEF r
<1>10. CASE \E n \in Delivered(r) : Delivers(r, n, 0)
  <2>1. PICK n \in Delivered(r) : Delivers(r, n, 0)
    BY <1>10
  <2> QED  BY <1>4, <1>6, <1>7, <2>1
<1>11. CASE \E u \in DOMAIN sizes : Delivers(r, Whole(r), u)
  <2>1. PICK u \in DOMAIN sizes : Delivers(r, Whole(r), u)
    BY <1>11
  <2>2. u \in 0 .. Len(function.results)
    BY <1>4
  <2> QED  BY <1>6, <1>8, <2>1, <2>2
<1> QED  BY <1>9, <1>10, <1>11

(* An error is delivered.                                                  *)
LEMMA ErrorIs ==
  ASSUME NEW tag, NEW e, e # TPM_RC_SUCCESS, NEW raw, Delivers(Error(tag, e, raw), 10, 0)
  PROVE  BareIs(response') /\ response'.tag = tag /\ response'.error = e /\ response'.raw = raw
<1> DEFINE r == Error(tag, e, raw)
<1>1. response' = [r EXCEPT !.received = 10, !.unknown = 0]
  BY DEF Delivers
<1>2. r = [tag |-> tag, error |-> e, raw |-> raw, made |-> TPM_RH_UNASSIGNED,
           results |-> << >>, auths |-> << >>, received |-> 0, unknown |-> 0]
  BY DEF Error
<1> HIDE DEF r
<1>3. /\ response'.tag = tag /\ response'.error = e /\ response'.raw = raw
      /\ response'.made = TPM_RH_UNASSIGNED /\ response'.results = << >>
      /\ response'.auths = << >> /\ response'.received = 10 /\ response'.unknown = 0
  BY <1>1, <1>2
<1> QED  BY <1>3 DEF BareIs

(* A refusal comes out of CleanResponseCode as that error, never as        *)
(* success.                                                                *)
LEMMA RefusesCall == CallInv /\ Refuses => CallInv'
<1> SUFFICES ASSUME CallInv, Refuses PROVE CallInv'
  OBVIOUS
<1>1. phase = "sent"
  BY DEF Refuses
<1>2. PICK e \in DefinedCode \ {TPM_RC_SUCCESS} :
        \E raw \in {OfTpm(e), <<32808, e>>}
                   \cup (IF e \in FormatOneCode THEN {OfTpm(e + l) : l \in Location} ELSE {}) :
          Delivers(Error("TPM_ST_NO_SESSIONS", e, raw), 10, 0)
  BY DEF Refuses
<1>3. PICK raw \in {OfTpm(e), <<32808, e>>}
                   \cup (IF e \in FormatOneCode THEN {OfTpm(e + l) : l \in Location} ELSE {}) :
        Delivers(Error("TPM_ST_NO_SESSIONS", e, raw), 10, 0)
  BY <1>2
<1>4. /\ BareIs(response') /\ response'.tag = "TPM_ST_NO_SESSIONS"
      /\ response'.error = e /\ response'.raw = raw
  BY <1>3, ErrorIs
<1>5. /\ raw # OfTpm(TPM_RC_SUCCESS)
      /\ CleanResponseCode(raw[1], raw[2]) = IF raw[1] = 0 THEN OfTpm(e) ELSE raw
      /\ CleanResponseCode(raw[1], raw[2]) # OfTpm(TPM_RC_SUCCESS)
  BY RefusalIs
<1>6. RefusedIs(response')
  <2>1. response'.raw[1] = raw[1] /\ response'.raw[2] = raw[2]
    BY <1>4
  <2> QED  BY <1>4, <1>5, <2>1 DEF RefusedIs
<1> QED  BY <1>1, <1>3, <1>6, DeliversCall

(* The tag of a TPM 1.2 is not taken for a response.                       *)
LEMMA OldCall == CallInv /\ AnswersAsTpm12 => CallInv'
<1> SUFFICES ASSUME CallInv, AnswersAsTpm12 PROVE CallInv'
  OBVIOUS
<1>1. /\ phase = "sent" /\ TPM_RC_BAD_TAG # TPM_RC_SUCCESS
      /\ Delivers(Error("TPM_ST_RSP_COMMAND", TPM_RC_BAD_TAG, OfTpm(TPM_RC_BAD_TAG)), 10, 0)
  BY DEF AnswersAsTpm12, TPM_RC_BAD_TAG, TPM_RC_SUCCESS
<1>2. OldIs(response')
  BY <1>1, ErrorIs DEF OldIs
<1> QED  BY <1>1, <1>2, DeliversCall

(* The header is taken apart: only a response that is whole, and to a      *)
(* command that was done, is read from.                                    *)
LEMMA DispatchCall == CallInv /\ Dispatch => CallInv'
<1> SUFFICES ASSUME CallInv, Dispatch PROVE CallInv'
  OBVIOUS
<1>1. /\ phase = "answered" /\ function' = function /\ response' = response /\ read' = read
      /\ function \in Commands /\ read = 0 /\ given = TPM_RH_UNASSIGNED
      /\ DoneIs(response, function) \/ RefusedIs(response) \/ OldIs(response)
  BY DEF Dispatch, CallInv, AnsweredInv
<1>2. CASE Outcome(response) = OfTpm(TPM_RC_SUCCESS)
  <2>1. /\ phase' = "reading" /\ left' = response.received - BytesBefore(response)
        /\ given' = IF function.gives THEN RetHandle(response) ELSE given
    BY <1>2 DEF Dispatch
  <2>2. DoneIs(response, function)
    BY <1>1, <1>2, RefusedOutcome, OldOutcome
  <2>3. /\ response.received = Whole(response) /\ given' = response.made
        /\ left' = SumOf(response.results) + SumOf(response.auths)
    BY <1>1, <1>2, <2>1, <2>2, DoneOutcome
  <2>4. /\ Ends(response.results)[0] = 0 /\ SumOf(response.results) - 0 = SumOf(response.results)
    <3>1. response.results \in Seq(Nat)
      BY <2>2 DEF DoneIs
    <3> QED  BY <3>1, EndsIs, EndsGrow
  <2>5. read' = 0 /\ 0 \in 0 .. Len(function.results) /\ response.unknown \notin 1 .. 0
    <3>1. CommandOK(function)
      BY <1>1, CommandsAre
    <3>2. Len(function.results) \in Nat
      BY <3>1 DEF CommandOK, IsList
    <3> QED  BY <1>1, <3>2
  <2>6. DoneIs(response, function)'
    BY <1>1, <2>2 DEF DoneIs
  <2>7. ReadingInv'
    <3>1. left' = (SumOf(response.results) - Ends(response.results)[read']) + SumOf(response.auths)
      BY <2>3, <2>4, <2>5
    <3>2. Whole(response') = Whole(response)
      BY <1>1
    <3> QED  BY <1>1, <2>3, <2>5, <2>6, <3>1, <3>2 DEF ReadingInv
  <2>8. ResultIsTrue' /\ MadeIsNamed'
    BY <2>1, NotReturnedNext
  <2> QED  BY <2>1, <2>7, <2>8 DEF CallInv
<1>3. CASE Outcome(response) # OfTpm(TPM_RC_SUCCESS)
  <2>1. phase' = "returned" /\ result' = Outcome(response)
    BY <1>3 DEF Dispatch, Returns
  <2>2. CASE DoneIs(response, function)
    <3>1. response.received # Whole(response)
      BY <1>1, <1>3, <2>2, DoneOutcome
    <3>2. response.error = TPM_RC_SUCCESS
      BY <2>2 DEF DoneIs
    <3>3. ResultIsTrue' /\ MadeIsNamed'
      BY <1>1, <1>3, <2>1, <3>1, <3>2 DEF ResultIsTrue, MadeIsNamed
    <3> QED  BY <2>1, <3>3 DEF CallInv
  <2>3. CASE RefusedIs(response) \/ OldIs(response)
    <3>1. response.error # TPM_RC_SUCCESS /\ response.made = TPM_RH_UNASSIGNED
      BY <2>3 DEF RefusedIs, OldIs, BareIs
    <3>2. response.tag = "TPM_ST_NO_SESSIONS" =>
            Outcome(response) = IF response.raw[1] = 0 THEN OfTpm(response.error) ELSE response.raw
      BY <2>3, RefusedOutcome DEF OldIs
    <3>3. ResultIsTrue' /\ MadeIsNamed'
      BY <1>1, <1>3, <2>1, <3>1, <3>2 DEF ResultIsTrue, MadeIsNamed
    <3> QED  BY <2>1, <3>3 DEF CallInv
  <2> QED  BY <1>1, <2>2, <2>3
<1> QED  BY <1>2, <1>3

(* The next result is on the response, however large.                      *)
LEMMA NextIsLeft ==
  ASSUME ReadingInv, read < Len(function.results)
  PROVE  /\ read + 1 \in DOMAIN response.results /\ response.results[read + 1] <= left
         /\ left - response.results[read + 1]
              = (SumOf(response.results) - Ends(response.results)[read + 1]) + SumOf(response.auths)
<1> DEFINE s == response.results  m == Len(function.results)
<1>1. s \in Seq(Nat) /\ Len(s) = m /\ response.auths \in Seq(Nat)
  BY DEF ReadingInv, DoneIs
<1>2. m \in Nat /\ read \in 0 .. m /\ left = (SumOf(s) - Ends(s)[read]) + SumOf(response.auths)
  BY <1>1, LenProperties DEF ReadingInv
<1> HIDE DEF s, m
<1>3. read + 1 \in 1 .. m /\ (read + 1) - 1 = read /\ read + 1 \in DOMAIN s
  BY <1>1, <1>2 DEF m
<1>4. s[read + 1] \in Nat /\ Ends(s)[read + 1] = Ends(s)[read] + s[read + 1]
  BY <1>1, <1>3, EndsIs, ElementOfSeq
<1>5. /\ Ends(s)[read] \in Nat /\ Ends(s)[read + 1] \in Nat /\ Ends(s)[read + 1] <= SumOf(s)
      /\ SumOf(s) \in Nat /\ SumOf(response.auths) \in Nat
  <2>1. /\ \A n \in 0 .. m : Ends(s)[n] \in Nat
        /\ \A i, j \in 0 .. m : i <= j => Ends(s)[i] <= Ends(s)[j]
        /\ SumOf(s) \in Nat /\ SumOf(response.auths) \in Nat
    BY <1>1, EndsGrow
  <2>2. SumOf(s) = Ends(s)[m]
    BY <1>1 DEF SumOf
  <2>3. read + 1 \in 0 .. m /\ m \in 0 .. m /\ read + 1 <= m
    BY <1>2, <1>3
  <2> QED  BY <1>2, <2>1, <2>2, <2>3
<1>6. /\ s[read + 1] <= left
      /\ left - s[read + 1] = (SumOf(s) - Ends(s)[read + 1]) + SumOf(response.auths)
  <2>1. \A x, y, z, w, l \in Nat :
          y + z <= x /\ l = (x - y) + w => z <= l /\ l - z = (x - (y + z)) + w
    OBVIOUS
  <2>2. left = (SumOf(s) - Ends(s)[read]) + SumOf(response.auths)
    BY <1>2
  <2>3. left \in Nat
    BY <1>4, <1>5, <2>2
  <2> QED  BY <1>4, <1>5, <2>1, <2>2, <2>3
<1> QED  BY <1>3, <1>6 DEF s

(* What is left is enough for the next result if the response is whole.    *)
LEMMA ReadResultCall == CallInv /\ ReadResult => CallInv'
<1> SUFFICES ASSUME CallInv, ReadResult PROVE CallInv'
  OBVIOUS
<1>1. /\ phase = "reading" /\ function' = function /\ response' = response /\ given' = given
      /\ read < Len(function.results) /\ ReadingInv
  BY DEF ReadResult, CallInv
<1>2. /\ function \in Commands /\ DoneIs(response, function)
      /\ response.received = Whole(response) /\ given = response.made
      /\ read \in 0 .. Len(function.results) /\ response.unknown \notin 1 .. read
      /\ response.unknown \in 0 .. Len(function.results)
      /\ response.error = TPM_RC_SUCCESS
  BY <1>1 DEF ReadingInv, DoneIs
<1>3. CASE Readable(read + 1)
  <2>1. /\ phase' = "reading" /\ read' = read + 1 /\ left' = left - response.results[read + 1]
    BY <1>1, <1>3 DEF ReadResult
  <2>2. left' = (SumOf(response.results) - Ends(response.results)[read']) + SumOf(response.auths)
    BY <1>1, <2>1, NextIsLeft
  <2>3. response.unknown # read + 1
    BY <1>3 DEF Readable
  <2>4. read' \in 0 .. Len(function.results) /\ response.unknown \notin 1 .. read'
    <3>1. CommandOK(function)
      BY <1>2, CommandsAre
    <3>2. Len(function.results) \in Nat
      BY <3>1 DEF CommandOK, IsList
    <3> QED  BY <1>1, <1>2, <2>1, <2>3, <3>2
  <2>5. DoneIs(response, function)' /\ Whole(response') = Whole(response)
    BY <1>1, <1>2 DEF DoneIs
  <2>6. ReadingInv'
    BY <1>1, <1>2, <2>2, <2>4, <2>5 DEF ReadingInv
  <2>7. ResultIsTrue' /\ MadeIsNamed'
    BY <2>1, NotReturnedNext
  <2> QED  BY <2>1, <2>6, <2>7 DEF CallInv
<1>4. CASE ~Readable(read + 1)
  <2>1. phase' = "returned" /\ result' = OfTpm(TPM_RC_INSUFFICIENT)
    BY <1>1, <1>4 DEF ReadResult, Returns
  <2>2. response.unknown = read + 1
    BY <1>1, <1>4, NextIsLeft DEF Readable
  <2>3. response.unknown # 0
    BY <1>2, <2>2
  <2>4. result' # OfTpm(TPM_RC_SUCCESS)
    BY <2>1 DEF OfTpm, TPM_RC_INSUFFICIENT, TPM_RC_SUCCESS
  <2>5. ResultIsTrue' /\ MadeIsNamed'
    BY <1>1, <1>2, <2>3, <2>4 DEF ResultIsTrue, MadeIsNamed
  <2> QED  BY <2>1, <2>5 DEF CallInv
<1> QED  BY <1>3, <1>4

(* All results are read, so what is left are the authorizations.           *)
LEMMA FinishCall == CallInv /\ Finish => CallInv'
<1> SUFFICES ASSUME CallInv, Finish PROVE CallInv'
  OBVIOUS
<1>1. /\ phase = "reading" /\ phase' = "returned" /\ result' = OfTpm(TPM_RC_SUCCESS)
      /\ response' = response /\ given' = given /\ left' = left
      /\ read = Len(function.results) /\ ReadingInv
  BY DEF Finish, Returns, CallInv
<1>2. /\ DoneIs(response, function)
      /\ response.received = Whole(response) /\ given = response.made
      /\ response.unknown \notin 1 .. read /\ response.error = TPM_RC_SUCCESS
      /\ response.unknown \in 0 .. Len(function.results) /\ read \in Nat
      /\ response.results \in Seq(Nat) /\ Len(response.results) = Len(function.results)
      /\ response.auths \in Seq(Nat)
  BY <1>1 DEF ReadingInv, DoneIs
<1>3. response.unknown = 0
  BY <1>1, <1>2
<1>4. left = SumOf(response.auths)
  <2>1. SumOf(response.results) \in Nat /\ SumOf(response.auths) \in Nat
    BY <1>2, EndsGrow
  <2>2. Ends(response.results)[read] = SumOf(response.results)
    BY <1>1, <1>2 DEF SumOf
  <2>3. left = (SumOf(response.results) - SumOf(response.results)) + SumOf(response.auths)
    BY <1>1, <2>2 DEF ReadingInv
  <2> QED  BY <2>1, <2>3
<1>5. ResultIsTrue' /\ MadeIsNamed'
  BY <1>1, <1>2, <1>3, <1>4 DEF ResultIsTrue, MadeIsNamed
<1> QED  BY <1>1, <1>5 DEF CallInv

(* CallInv is inductive: by the lemma of each action.                      *)
LEMMA CallInvHolds == Spec => []CallInv
<1>1. CallInv /\ UNCHANGED vars => CallInv'
  BY DEF CallInv, SentInv, AnsweredInv, ReadingInv, DoneIs, RefusedIs, OldIs, BareIs,
         ResultIsTrue, MadeIsNamed, Returned, Answered, vars
<1>2. CallInv /\ [Next]_vars => CallInv'
  BY <1>1, BuildCall, InvokeCall, SubmitFailsCall, SucceedsCall, RefusesCall, OldCall,
     DispatchCall, ReadResultCall, FinishCall DEF Next
<1> QED  BY <1>2, InitCall, PTL DEF Spec

(* A TPM2_* function succeeds exactly if the TPM did the command and all   *)
(* of the response arrived and was understood; it has then read every      *)
(* result at its place.  Errors come through without their location.       *)
THEOREM ResultsAreTrue == Spec => []ResultIsTrue
<1>1. CallInv => ResultIsTrue
  BY DEF CallInv
<1> QED  BY <1>1, CallInvHolds, PTL

(* The caller has the handle of whatever the TPM made under a command,     *)
(* even if the function fails over one of the results.                     *)
THEOREM WhatIsMadeIsNamed == Spec => []MadeIsNamed
<1>1. CallInv => MadeIsNamed
  BY DEF CallInv
<1> QED  BY <1>1, CallInvHolds, PTL

-----------------------------------------------------------------------------
(***************************************************************************)
(* The buffer of a command.                                                *)
(***************************************************************************)
(* One piece is stored.                                                    *)
LEMMA StoredIs ==
  ASSUME NEW m, NEW o, NEW piece
  PROVE  /\ DOMAIN StoredAt(m, o, piece) = DOMAIN m \cup {o}
         /\ StoredAt(m, o, piece)[o] = piece
         /\ \A p \in DOMAIN m : p # o => StoredAt(m, o, piece)[p] = m[p]
BY DEF StoredAt

(* Pieces lie one behind the other, without a hole, from anywhere up to    *)
(* where the buffer pointer is, and that within the capacity.              *)
Apart(m) == \A p, q \in DOMAIN m : p < q => p + m[p].bytes <= q

MemoryOK(m, at) ==
  /\ \A p \in DOMAIN m : /\ p \in Nat /\ m[p].bytes \in Nat \ {0} /\ p + m[p].bytes <= at
                         /\ p + m[p].bytes = at \/ p + m[p].bytes \in DOMAIN m
  /\ Apart(m)

BufferOK(b, capacity) ==
  /\ b = [at |-> b.at, room |-> b.room, memory |-> b.memory]
  /\ b.at \in Nat /\ b.room \in Int /\ b.at <= capacity
  /\ b.room >= 0 => b.at + b.room = capacity
  /\ MemoryOK(b.memory, b.at)

(* What was in the buffer stays, and what comes is behind it.              *)
Extends(b, d) ==
  /\ b.at <= d.at
  /\ \A p \in DOMAIN b.memory : p \in DOMAIN d.memory /\ d.memory[p] = b.memory[p]
  /\ \A p \in DOMAIN d.memory : p \in DOMAIN b.memory \/ b.at <= p

(* A piece is stored behind all others.                                    *)
LEMMA MemoryGrows ==
  ASSUME NEW m, NEW at \in Nat, MemoryOK(m, at), NEW piece, piece.bytes \in Nat \ {0}
  PROVE  /\ MemoryOK(StoredAt(m, at, piece), at + piece.bytes)
         /\ at \notin DOMAIN m
<1> DEFINE s == StoredAt(m, at, piece)
<1>1. /\ DOMAIN s = DOMAIN m \cup {at} /\ s[at] = piece
      /\ \A p \in DOMAIN m : p # at => s[p] = m[p]
  BY DEF StoredAt
<1>2. \A p \in DOMAIN m : /\ p \in Nat /\ m[p].bytes \in Nat \ {0} /\ p + m[p].bytes <= at
                          /\ p + m[p].bytes = at \/ p + m[p].bytes \in DOMAIN m
  BY DEF MemoryOK
<1> HIDE DEF s
<1>3. \A p \in DOMAIN m : p < at /\ p # at
  BY <1>2
<1>4. \A p \in DOMAIN m : s[p] = m[p]
  BY <1>1, <1>3
<1>5. ASSUME NEW p \in DOMAIN s
      PROVE  /\ p \in Nat /\ s[p].bytes \in Nat \ {0} /\ p + s[p].bytes <= at + piece.bytes
             /\ p + s[p].bytes = at + piece.bytes \/ p + s[p].bytes \in DOMAIN s
  <2>1. CASE p = at
    BY <1>1, <2>1
  <2>2. CASE p # at
    <3>1. /\ p \in DOMAIN m /\ s[p] = m[p]
      BY <1>1, <1>4, <2>2
    <3>2. p \in Nat /\ s[p].bytes \in Nat \ {0} /\ p + s[p].bytes <= at
      BY <1>2, <3>1
    <3>3. p + s[p].bytes \in DOMAIN s
      BY <1>1, <1>2, <3>1
    <3> QED  BY <3>2, <3>3
  <2> QED  BY <2>1, <2>2
<1>6. ASSUME NEW p \in DOMAIN s, NEW q \in DOMAIN s, p < q PROVE p + s[p].bytes <= q
  <2>1. p # at
    <3>1. p \in Nat /\ q \in Nat
      BY <1>5
    <3>2. q <= at
      BY <1>1, <1>3, <3>1
    <3> QED  BY <1>6, <3>1, <3>2
  <2>2. p \in DOMAIN m /\ s[p] = m[p]
    BY <1>1, <1>4, <2>1
  <2>3. CASE q = at
    BY <1>2, <2>2, <2>3
  <2>4. CASE q # at
    <3>1. q \in DOMAIN m
      BY <1>1, <2>4
    <3> QED  BY <1>6, <2>2, <3>1 DEF MemoryOK, Apart
  <2> QED  BY <2>3, <2>4
<1>7. at \notin DOMAIN m
  BY <1>3
<1>8. MemoryOK(s, at + piece.bytes)
  BY <1>5, <1>6 DEF MemoryOK, Apart
<1> QED  BY <1>7, <1>8 DEF s

(* One piece is put into a buffer, if it fits.                             *)
LEMMA PutIs ==
  ASSUME NEW capacity \in Int, NEW b, BufferOK(b, capacity), NEW piece, piece.bytes \in Nat
  PROVE  LET d == Put(b, piece) IN
         /\ BufferOK(d, capacity) /\ Extends(b, d) /\ d.room = b.room - piece.bytes
         /\ d.room < 0 => d.at = b.at /\ d.memory = b.memory
         /\ d.room >= 0 => d.at = b.at + piece.bytes
         /\ d.room >= 0 /\ piece.bytes > 0 => b.at \in DOMAIN d.memory /\ d.memory[b.at] = piece
<1> DEFINE d == Put(b, piece)  n == piece.bytes
<1>1. /\ b = [at |-> b.at, room |-> b.room, memory |-> b.memory]
      /\ b.at \in Nat /\ b.room \in Int /\ b.at <= capacity
      /\ b.room >= 0 => b.at + b.room = capacity
      /\ MemoryOK(b.memory, b.at) /\ n \in Nat
  BY DEF BufferOK
<1>2. CASE b.room - n < 0
  <2>1. d = [b EXCEPT !.room = b.room - n]
    BY <1>2 DEF Put
  <2>2. d = [at |-> b.at, room |-> b.room - n, memory |-> b.memory]
    BY <1>1, <2>1
  <2>3. d.at = b.at /\ d.room = b.room - n /\ d.memory = b.memory /\ d.room \in Int /\ d.room < 0
    BY <1>1, <1>2, <2>2
  <2> HIDE DEF d
  <2>4. BufferOK(d, capacity)
    BY <1>1, <2>2, <2>3 DEF BufferOK
  <2>5. Extends(b, d)
    BY <1>1, <2>3 DEF Extends
  <2> QED  BY <2>3, <2>4, <2>5 DEF d
<1>3. CASE ~(b.room - n < 0)
  <2>1. d = [at |-> b.at + n, room |-> b.room - n,
             memory |-> IF n = 0 THEN b.memory ELSE StoredAt(b.memory, b.at, piece)]
    BY <1>3 DEF Put
  <2>2. /\ d.at = b.at + n /\ d.room = b.room - n
        /\ d.memory = IF n = 0 THEN b.memory ELSE StoredAt(b.memory, b.at, piece)
    BY <2>1
  <2>3. /\ d = [at |-> d.at, room |-> d.room, memory |-> d.memory]
    BY <2>1, <2>2
  <2> HIDE DEF d
  <2>4. /\ d.at \in Nat /\ d.room \in Int /\ d.at <= capacity /\ d.at + d.room = capacity
        /\ d.room >= 0 /\ b.at <= d.at
    BY <1>1, <1>3, <2>2
  <2>5. CASE n = 0
    <3>1. d.memory = b.memory /\ d.at = b.at
      BY <1>1, <2>2, <2>5
    <3>2. BufferOK(d, capacity)
      BY <1>1, <2>3, <2>4, <3>1 DEF BufferOK
    <3>3. Extends(b, d)
      BY <2>4, <3>1 DEF Extends
    <3> QED  BY <2>2, <2>4, <2>5, <3>2, <3>3 DEF d
  <2>6. CASE n # 0
    <3>1. d.memory = StoredAt(b.memory, b.at, piece)
      BY <2>2, <2>6
    <3>2. MemoryOK(d.memory, d.at) /\ b.at \notin DOMAIN b.memory
      BY <1>1, <2>2, <2>6, <3>1, MemoryGrows
    <3>3. BufferOK(d, capacity)
      BY <2>3, <2>4, <3>2 DEF BufferOK
    <3>4. /\ DOMAIN d.memory = DOMAIN b.memory \cup {b.at} /\ d.memory[b.at] = piece
          /\ \A p \in DOMAIN b.memory : d.memory[p] = b.memory[p]
      BY <3>1, <3>2 DEF StoredAt
    <3>5. Extends(b, d)
      BY <1>1, <2>4, <3>4 DEF Extends
    <3> QED  BY <2>2, <2>4, <3>3, <3>4, <3>5 DEF d
  <2> QED  BY <2>5, <2>6
<1> QED  BY <1>2, <1>3

(* What a buffer extends that extends a third, it extends.                 *)
LEMMA ExtendsOn ==
  ASSUME NEW b, NEW d, NEW e, b.at \in Nat, d.at \in Nat, e.at \in Nat,
         \A p \in DOMAIN e.memory : p \in Nat, Extends(b, d), Extends(d, e)
  PROVE  Extends(b, e)
BY DEF Extends

(* Pieces of no, one or more bytes each.                                   *)
PiecesOK(pieces) ==
  IsList(pieces) /\ \A i \in 1 .. Len(pieces) : pieces[i].bytes \in Nat

(* Their sizes are those of fields.                                        *)
LEMMA SizesAre ==
  ASSUME NEW pieces, PiecesOK(pieces)
  PROVE  /\ Sizes(pieces) \in Seq(Nat) /\ Len(Sizes(pieces)) = Len(pieces)
         /\ \A i \in 1 .. Len(pieces) : Sizes(pieces)[i] = pieces[i].bytes
         /\ \A i \in 0 .. Len(pieces) : Ends(Sizes(pieces))[i] \in Nat
         /\ Ends(Sizes(pieces))[0] = 0
         /\ \A i \in 1 .. Len(pieces) :
              Ends(Sizes(pieces))[i] = Ends(Sizes(pieces))[i - 1] + pieces[i].bytes
         /\ BytesOf(pieces) = Ends(Sizes(pieces))[Len(pieces)] /\ BytesOf(pieces) \in Nat
<1> DEFINE s == Sizes(pieces)
<1>1. Len(pieces) \in Nat /\ \A i \in 1 .. Len(pieces) : pieces[i].bytes \in Nat
  BY DEF PiecesOK, IsList
<1>2. /\ s \in Seq(Nat) /\ Len(s) = Len(pieces)
      /\ \A i \in 1 .. Len(pieces) : s[i] = pieces[i].bytes
  BY <1>1 DEF Sizes
<1> HIDE DEF s
<1>3. /\ Ends(s)[0] = 0 /\ \A n \in 1 .. Len(s) : Ends(s)[n] = Ends(s)[n - 1] + s[n]
  BY <1>2, EndsIs
<1>4. (\A n \in 0 .. Len(s) : Ends(s)[n] \in Nat) /\ SumOf(s) \in Nat
  BY <1>2, EndsGrow
<1> QED  BY <1>2, <1>3, <1>4 DEF BytesOf, SumOf, s

(* The recursion of PutAll defines a function.                             *)
PutsUpTo(f, b, pieces, m) ==
  f = [n \in 0 .. m |-> IF n = 0 THEN b ELSE Put(f[n - 1], pieces[n])]

(* There is such a function for every number of pieces.                    *)
LEMMA PutAllExists ==
  ASSUME NEW b, NEW pieces, NEW m \in Nat
  PROVE  \E f : PutsUpTo(f, b, pieces, m)
<1> USE DEF PutsUpTo
<1> DEFINE Is(f, k) == PutsUpTo(f, b, pieces, k)
<1> DEFINE S == {k \in Nat : \E f : Is(f, k)}
<1>1. 0 \in S
  <2> DEFINE f == [n \in 0 .. 0 |-> b]
  <2>1. Is(f, 0)
    OBVIOUS
  <2> QED  BY <2>1
<1>2. ASSUME NEW k \in 1 .. m, k - 1 \in S PROVE k \in S
  <2>1. PICK f : Is(f, k - 1)
    BY <1>2
  <2> DEFINE g == [n \in 0 .. k |-> IF n = 0 THEN b ELSE Put(f[n - 1], pieces[n])]
  <2>2. ASSUME NEW n \in 0 .. k, n # 0 PROVE f[n - 1] = g[n - 1]
    <3>1. n - 1 \in 0 .. k - 1 /\ n - 1 \in 0 .. k
      BY <2>2
    <3>2. f[n - 1] = IF n - 1 = 0 THEN b ELSE Put(f[(n - 1) - 1], pieces[n - 1])
      BY <2>1, <3>1
    <3> QED  BY <3>1, <3>2
  <2>3. Is(g, k)
    BY <2>2
  <2>4. k \in Nat
    OBVIOUS
  <2> HIDE DEF Is, g
  <2> QED  BY <2>3, <2>4
<1> HIDE DEF S
<1>3. m \in S
  BY <1>1, <1>2, Induction
<1> QED  BY <1>3 DEF S

(* The buffers in between.                                                 *)
LEMMA PutAllStep ==
  ASSUME NEW b, NEW pieces, IsList(pieces)
  PROVE  \E f : /\ f[0] = b /\ f[Len(pieces)] = PutAll(b, pieces)
                /\ \A n \in 1 .. Len(pieces) : f[n] = Put(f[n - 1], pieces[n])
<1>1. Len(pieces) \in Nat
  BY DEF IsList
<1>2. \E f : PutsUpTo(f, b, pieces, Len(pieces))
  BY <1>1, PutAllExists
<1> DEFINE g == CHOOSE f : PutsUpTo(f, b, pieces, Len(pieces))
<1>3. PutAll(b, pieces) = g[Len(pieces)]
  BY DEF PutAll, PutsUpTo
<1>4. PutsUpTo(g, b, pieces, Len(pieces))
  BY <1>2, Zenon
<1> HIDE DEF g
<1>5. /\ g[0] = b
      /\ \A n \in 1 .. Len(pieces) : g[n] = Put(g[n - 1], pieces[n])
  BY <1>1, <1>4 DEF PutsUpTo
<1> QED  BY <1>3, <1>5

(* What PutAll makes of a buffer.                                          *)
PutsAll(b, pieces, d, capacity, n) ==
  /\ BufferOK(d, capacity) /\ Extends(b, d) /\ d.room = b.room - Ends(Sizes(pieces))[n]
  /\ b.room < 0 => d.at = b.at /\ d.memory = b.memory
  /\ d.room >= 0 => d.at = b.at + Ends(Sizes(pieces))[n]
  /\ d.room >= 0 => \A i \in 1 .. n : pieces[i].bytes > 0 =>
       /\ b.at + Ends(Sizes(pieces))[i - 1] \in DOMAIN d.memory
       /\ d.memory[b.at + Ends(Sizes(pieces))[i - 1]] = pieces[i]

(* Pieces are put into a buffer one behind the other, as far as they fit.  *)
LEMMA PutAllIs ==
  ASSUME NEW capacity \in Int, NEW b, BufferOK(b, capacity), NEW pieces, PiecesOK(pieces)
  PROVE  PutsAll(b, pieces, PutAll(b, pieces), capacity, Len(pieces))
<1>1. /\ Len(pieces) \in Nat /\ IsList(pieces)
      /\ \A i \in 1 .. Len(pieces) : pieces[i].bytes \in Nat
  BY DEF PiecesOK, IsList
<1>2. PICK f : /\ f[0] = b /\ f[Len(pieces)] = PutAll(b, pieces)
               /\ \A n \in 1 .. Len(pieces) : f[n] = Put(f[n - 1], pieces[n])
  BY <1>1, PutAllStep
<1> DEFINE e == Ends(Sizes(pieces))
<1>3. /\ e[0] = 0 /\ (\A i \in 0 .. Len(pieces) : e[i] \in Nat)
      /\ \A i \in 1 .. Len(pieces) : e[i] = e[i - 1] + pieces[i].bytes
  BY SizesAre
<1> HIDE DEF e
<1> DEFINE S == {n \in 0 .. Len(pieces) : PutsAll(b, pieces, f[n], capacity, n)}
<1>4. 0 \in S
  <2>1. BufferOK(f[0], capacity) /\ b.room \in Int /\ b.at \in Nat
    BY <1>2 DEF BufferOK
  <2>2. Extends(b, f[0])
    BY <1>2, <2>1 DEF Extends
  <2>3. b.room - e[0] = b.room /\ b.at + e[0] = b.at /\ 0 \in 0 .. Len(pieces)
    BY <1>1, <1>3, <2>1
  <2>4. PutsAll(b, pieces, f[0], capacity, 0)
    BY <1>2, <2>1, <2>2, <2>3 DEF PutsAll, e
  <2> QED  BY <2>3, <2>4
<1>5. ASSUME NEW n \in 1 .. Len(pieces), n - 1 \in S PROVE n \in S
  <2> DEFINE c == f[n - 1]  d == f[n]
  <2>1. /\ BufferOK(c, capacity) /\ Extends(b, c) /\ c.room = b.room - e[n - 1]
        /\ b.room < 0 => c.at = b.at /\ c.memory = b.memory
        /\ c.room >= 0 => c.at = b.at + e[n - 1]
        /\ c.room >= 0 => \A i \in 1 .. n - 1 : pieces[i].bytes > 0 =>
             b.at + e[i - 1] \in DOMAIN c.memory /\ c.memory[b.at + e[i - 1]] = pieces[i]
    BY <1>5 DEF PutsAll, e
  <2>2. d = Put(c, pieces[n])
    BY <1>2
  <2> HIDE DEF c, d
  <2>3. pieces[n].bytes \in Nat /\ e[n] = e[n - 1] + pieces[n].bytes
        /\ e[n - 1] \in Nat /\ e[n] \in Nat
    <3>1. n - 1 \in 0 .. Len(pieces) /\ n \in 0 .. Len(pieces)
      BY <1>1
    <3> QED  BY <1>1, <1>3, <3>1
  <2>4. /\ BufferOK(d, capacity) /\ Extends(c, d) /\ d.room = c.room - pieces[n].bytes
        /\ d.room < 0 => d.at = c.at /\ d.memory = c.memory
        /\ d.room >= 0 => d.at = c.at + pieces[n].bytes
        /\ d.room >= 0 /\ pieces[n].bytes > 0 =>
             c.at \in DOMAIN d.memory /\ d.memory[c.at] = pieces[n]
    BY <2>1, <2>2, <2>3, PutIs
  <2>5. /\ b.room \in Int /\ c.room \in Int /\ d.room \in Int
        /\ b.at \in Nat /\ c.at \in Nat /\ d.at \in Nat
        /\ \A p \in DOMAIN d.memory : p \in Nat
    BY <2>1, <2>4 DEF BufferOK, MemoryOK
  <2>6. Extends(b, d)
    BY <2>1, <2>4, <2>5, ExtendsOn
  <2>7. d.room = b.room - e[n] /\ (d.room >= 0 => c.room >= 0) /\ (b.room < 0 => d.room < 0)
        /\ (d.room >= 0 => d.at = b.at + e[n])
    <3>1. \A x \in Int : \A y, z \in Nat : (x - y) - z = x - (y + z)
      OBVIOUS
    <3>2. d.room = b.room - e[n]
      <4>1. d.room = c.room - pieces[n].bytes /\ c.room = b.room - e[n - 1] /\ b.room \in Int
        BY <2>1, <2>4, <2>5
      <4>2. d.room = (b.room - e[n - 1]) - pieces[n].bytes
        BY <4>1, Zenon
      <4>3. (b.room - e[n - 1]) - pieces[n].bytes = b.room - (e[n - 1] + pieces[n].bytes)
        BY <2>3, <3>1, <4>1, Zenon
      <4> QED  BY <2>3, <4>2, <4>3, Zenon
    <3>3. d.room >= 0 => c.room >= 0
      BY <2>3, <2>4, <2>5
    <3>4. b.room < 0 => d.room < 0
      BY <2>3, <2>5, <3>2
    <3>5. \A x, y, z \in Nat : (x + y) + z = x + (y + z)
      OBVIOUS
    <3>6. ASSUME d.room >= 0 PROVE d.at = b.at + e[n]
      <4>1. c.at = b.at + e[n - 1]
        BY <2>1, <3>3, <3>6
      <4>2. d.at = c.at + pieces[n].bytes
        BY <2>4, <3>6
      <4>3. b.at \in Nat
        BY <2>5
      <4>4. d.at = (b.at + e[n - 1]) + pieces[n].bytes
        BY <4>1, <4>2, Zenon
      <4>5. (b.at + e[n - 1]) + pieces[n].bytes = b.at + (e[n - 1] + pieces[n].bytes)
        BY <2>3, <3>5, <4>3, Zenon
      <4> QED  BY <2>3, <4>4, <4>5, Zenon
    <3> QED  BY <3>2, <3>3, <3>4, <3>6
  <2>8. ASSUME d.room >= 0, NEW i \in 1 .. n, pieces[i].bytes > 0
        PROVE  b.at + e[i - 1] \in DOMAIN d.memory /\ d.memory[b.at + e[i - 1]] = pieces[i]
    <3>1. CASE i = n
      BY <2>1, <2>4, <2>7, <2>8, <3>1
    <3>2. CASE i # n
      <4>1. i \in 1 .. n - 1
        BY <3>2
      <4>2. b.at + e[i - 1] \in DOMAIN c.memory /\ c.memory[b.at + e[i - 1]] = pieces[i]
        BY <2>1, <2>7, <2>8, <4>1
      <4> QED  BY <2>4, <4>2 DEF Extends
    <3> QED  BY <3>1, <3>2
  <2>9. b.room < 0 => d.at = b.at /\ d.memory = b.memory
    BY <2>1, <2>4, <2>7
  <2>10. PutsAll(b, pieces, d, capacity, n)
    BY <2>4, <2>6, <2>7, <2>8, <2>9 DEF PutsAll, e
  <2>11. n \in 0 .. Len(pieces)
    BY <1>1
  <2> QED  BY <2>10, <2>11 DEF d
<1> HIDE DEF S
<1>6. \A n \in 0 .. Len(pieces) : n \in S
  <2>1. PICK m \in Nat : m = Len(pieces)
    BY <1>1
  <2>2. \A n \in 1 .. m : n - 1 \in S => n \in S
    BY <1>5, <2>1
  <2>3. \A n \in 0 .. m : n \in S
    BY <1>4, <2>2, Induction
  <2> QED  BY <2>1, <2>3
<1>7. PutsAll(b, pieces, f[Len(pieces)], capacity, Len(pieces))
  <2>1. Len(pieces) \in 0 .. Len(pieces)
    BY <1>1
  <2> QED  BY <1>6, <2>1 DEF S
<1> QED  BY <1>2, <1>7

(***************************************************************************)
(* What TSS_BuildCommand stores.                                           *)
(***************************************************************************)
(* The header is ten bytes, with the size of the command in the middle.    *)
LEMMA HeaderIs ==
  ASSUME NEW a
  PROVE  /\ PiecesOK(Header(a)) /\ Len(Header(a)) = 3 /\ BytesOf(Header(a)) = 10
         /\ Ends(Sizes(Header(a)))[0] = 0 /\ Ends(Sizes(Header(a)))[1] = 2
         /\ Header(a)[1].bytes = 2 /\ Header(a)[2].bytes = 4
         /\ a.sessions = Null => Header(a)[1].value = "TPM_ST_NO_SESSIONS"
         /\ a.sessions # Null => Header(a)[1].value = "TPM_ST_SESSIONS"
<1> DEFINE h == Header(a)
<1>1. /\ IsList(h) /\ Len(h) = 3 /\ h[1].bytes = 2 /\ h[2].bytes = 4 /\ h[3].bytes = 4
      /\ a.sessions = Null => h[1].value = "TPM_ST_NO_SESSIONS"
      /\ a.sessions # Null => h[1].value = "TPM_ST_SESSIONS"
  BY DEF Header, Piece, IsList
<1> HIDE DEF h
<1>2. PiecesOK(h)
  BY <1>1 DEF PiecesOK
<1> DEFINE e == Ends(Sizes(h))
<1>3. /\ e[0] = 0 /\ BytesOf(h) = e[3]
      /\ \A i \in 1 .. 3 : e[i] = e[i - 1] + h[i].bytes
  BY <1>1, <1>2, SizesAre
<1> HIDE DEF e
<1>4. e[1] = 2
  BY <1>1, <1>3
<1>5. e[2] = 6
  BY <1>1, <1>3, <1>4
<1>6. e[3] = 10
  BY <1>1, <1>3, <1>5
<1> QED  BY <1>1, <1>2, <1>3, <1>4, <1>6 DEF e, h

(* The handles are four bytes each.                                        *)
LEMMA HandlesAre ==
  ASSUME NEW a, CallOK(a)
  PROVE  /\ PiecesOK(Handles(a)) /\ Len(Handles(a)) = a.numHandles
         /\ BytesOf(Handles(a)) = 4 * a.numHandles
<1> DEFINE h == Handles(a)
<1>1. a.numHandles \in Nat
  BY DEF CallOK
<1>2. IsList(h) /\ Len(h) = a.numHandles /\ \A i \in 1 .. a.numHandles : h[i].bytes = 4
  BY <1>1 DEF Handles, Piece, IsList
<1> HIDE DEF h
<1>3. PiecesOK(h)
  BY <1>2 DEF PiecesOK
<1> DEFINE e == Ends(Sizes(h))
<1>4. /\ e[0] = 0 /\ BytesOf(h) = e[a.numHandles]
      /\ \A i \in 1 .. a.numHandles : e[i] = e[i - 1] + h[i].bytes
  BY <1>2, <1>3, SizesAre
<1> HIDE DEF e
<1> DEFINE S == {n \in Nat : e[n] = 4 * n}
<1>5. 0 \in S
  BY <1>4
<1>6. ASSUME NEW n \in 1 .. a.numHandles, n - 1 \in S PROVE n \in S
  <2>1. e[n - 1] = 4 * (n - 1) /\ e[n] = e[n - 1] + 4
    BY <1>2, <1>4, <1>6
  <2> QED  BY <2>1
<1> HIDE DEF S
<1>7. a.numHandles \in S
  <2>1. PICK m \in Nat : m = a.numHandles
    BY <1>1
  <2>2. \A n \in 1 .. m : n - 1 \in S => n \in S
    BY <1>6, <2>1
  <2>3. \A n \in 0 .. m : n \in S
    BY <1>5, <2>2, Induction
  <2>4. m \in 0 .. m
    OBVIOUS
  <2> QED  BY <2>1, <2>3, <2>4
<1>8. e[a.numHandles] = 4 * a.numHandles
  BY <1>7 DEF S
<1> QED  BY <1>2, <1>3, <1>4, <1>8 DEF h

(* The pieces of the sessions have sizes, if there are sessions.           *)
LEMMA AuthorizationsAre ==
  ASSUME NEW a, CallOK(a), a.numSessions > 0 => a.sessions # Null
  PROVE  PiecesOK(Authorizations(a))
<1> DEFINE z == Authorizations(a)  k == a.numSessions
<1>1. k \in Nat /\ \A i \in 1 .. k : a.sessions[i].nonce \in Nat /\ a.sessions[i].hmac \in Nat
  BY DEF CallOK
<1>2. z = [i \in 1 .. 6 * k |-> AuthCommand(a.sessions[((i - 1) \div 6) + 1])[((i - 1) % 6) + 1]]
  BY DEF Authorizations
<1>3. 6 * k \in Nat
  BY <1>1
<1>4. IsList(z) /\ Len(z) = 6 * k
  BY <1>2, <1>3 DEF IsList
<1>5. ASSUME NEW s, s.nonce \in Nat, s.hmac \in Nat, NEW j \in 1 .. 6
      PROVE  AuthCommand(s)[j].bytes \in Nat
  BY <1>5 DEF AuthCommand, Piece
<1>6. ASSUME NEW i \in 1 .. 6 * k PROVE z[i].bytes \in Nat
  <2>1. PICK s, j : s = ((i - 1) \div 6) + 1 /\ j = ((i - 1) % 6) + 1
    OBVIOUS
  <2>2. s \in 1 .. k /\ j \in 1 .. 6
    BY <1>1, <2>1
  <2>3. z[i] = AuthCommand(a.sessions[s])[j]
    BY <1>2, <2>1
  <2>4. a.sessions[s].nonce \in Nat /\ a.sessions[s].hmac \in Nat
    BY <1>1, <2>2
  <2> QED  BY <1>5, <2>2, <2>3, <2>4
<1> QED  BY <1>4, <1>6 DEF PiecesOK

(* These pieces are in memory m, one behind the other from offset o on.    *)
Held(m, o, pieces) ==
  \A i \in 1 .. Len(pieces) :
    pieces[i].bytes > 0 => /\ o + Ends(Sizes(pieces))[i - 1] \in DOMAIN m
                           /\ m[o + Ends(Sizes(pieces))[i - 1]] = pieces[i]

(* The header is there, and the handles behind it if they fit.             *)
Named(a) == PutAll(PutAll(NewBuffer(a.capacity), Header(a)), Handles(a))

NamedOK(b, a) ==
  /\ BufferOK(b, a.capacity) /\ b.room = a.capacity - (10 + 4 * a.numHandles)
  /\ 10 <= b.at /\ 0 \in DOMAIN b.memory /\ 2 \in DOMAIN b.memory
  /\ b.memory[0] = Header(a)[1] /\ b.memory[2] = Header(a)[2]
  /\ b.room >= 0 => b.at = 10 + 4 * a.numHandles /\ Held(b.memory, 10, Handles(a))

(* So it is, for a buffer that is not refused: the header always fits.     *)
LEMMA NamedIs ==
  ASSUME NEW a, CallOK(a), a.capacity >= 10
  PROVE  NamedOK(Named(a), a)
<1> DEFINE z == NewBuffer(a.capacity)  c == PutAll(z, Header(a))  b == PutAll(c, Handles(a))
<1>1. a.capacity \in Int /\ a.numHandles \in Nat
  BY DEF CallOK
<1>2. BufferOK(z, a.capacity) /\ z.at = 0 /\ z.room = a.capacity
  BY <1>1 DEF BufferOK, NewBuffer, MemoryOK, Apart
<1>3. /\ PiecesOK(Header(a)) /\ Len(Header(a)) = 3 /\ BytesOf(Header(a)) = 10
      /\ Ends(Sizes(Header(a)))[0] = 0 /\ Ends(Sizes(Header(a)))[1] = 2
      /\ Ends(Sizes(Header(a)))[3] = 10
      /\ Header(a)[1].bytes = 2 /\ Header(a)[2].bytes = 4
  <2>1. /\ PiecesOK(Header(a)) /\ Len(Header(a)) = 3 /\ BytesOf(Header(a)) = 10
        /\ Ends(Sizes(Header(a)))[0] = 0 /\ Ends(Sizes(Header(a)))[1] = 2
        /\ Header(a)[1].bytes = 2 /\ Header(a)[2].bytes = 4
    BY HeaderIs
  <2>2. BytesOf(Header(a)) = Ends(Sizes(Header(a)))[Len(Header(a))]
    BY <2>1, SizesAre
  <2> QED  BY <2>1, <2>2
<1>4. PutsAll(z, Header(a), c, a.capacity, 3)
  BY <1>1, <1>2, <1>3, PutAllIs
<1> HIDE DEF z, c
<1>5. /\ BufferOK(c, a.capacity) /\ c.room = a.capacity - 10 /\ c.room >= 0 /\ c.at = 10
      /\ 0 \in DOMAIN c.memory /\ c.memory[0] = Header(a)[1]
      /\ 2 \in DOMAIN c.memory /\ c.memory[2] = Header(a)[2]
  <2>1. /\ BufferOK(c, a.capacity) /\ c.room = a.capacity - 10
        /\ c.room >= 0 => c.at = 0 + 10
        /\ c.room >= 0 => \A i \in 1 .. 3 : Header(a)[i].bytes > 0 =>
             /\ 0 + Ends(Sizes(Header(a)))[i - 1] \in DOMAIN c.memory
             /\ c.memory[0 + Ends(Sizes(Header(a)))[i - 1]] = Header(a)[i]
    BY <1>2, <1>3, <1>4 DEF PutsAll
  <2>2. c.room >= 0
    BY <1>1, <2>1
  <2>3. /\ 0 + Ends(Sizes(Header(a)))[1 - 1] \in DOMAIN c.memory
        /\ c.memory[0 + Ends(Sizes(Header(a)))[1 - 1]] = Header(a)[1]
    BY <1>3, <2>1, <2>2
  <2>4. /\ 0 + Ends(Sizes(Header(a)))[2 - 1] \in DOMAIN c.memory
        /\ c.memory[0 + Ends(Sizes(Header(a)))[2 - 1]] = Header(a)[2]
    BY <1>3, <2>1, <2>2
  <2>5. 1 - 1 = 0 /\ 2 - 1 = 1 /\ 0 + 0 = 0 /\ 0 + 2 = 2
    OBVIOUS
  <2> QED  BY <1>3, <2>1, <2>2, <2>3, <2>4, <2>5
<1>6. /\ PiecesOK(Handles(a)) /\ Len(Handles(a)) = a.numHandles
      /\ Ends(Sizes(Handles(a)))[a.numHandles] = 4 * a.numHandles
  BY HandlesAre, SizesAre
<1>7. PutsAll(c, Handles(a), b, a.capacity, a.numHandles)
  BY <1>1, <1>5, <1>6, PutAllIs
<1> HIDE DEF b
<1>8. BufferOK(b, a.capacity) /\ Extends(c, b) /\ b.room = c.room - 4 * a.numHandles
  BY <1>6, <1>7 DEF PutsAll
<1>9. /\ 10 <= b.at /\ 0 \in DOMAIN b.memory /\ 2 \in DOMAIN b.memory
      /\ b.memory[0] = Header(a)[1] /\ b.memory[2] = Header(a)[2]
  BY <1>5, <1>8 DEF Extends
<1>10. b.room = a.capacity - (10 + 4 * a.numHandles)
  BY <1>1, <1>5, <1>8
<1>11. ASSUME b.room >= 0 PROVE b.at = 10 + 4 * a.numHandles /\ Held(b.memory, 10, Handles(a))
  BY <1>5, <1>6, <1>7, <1>11 DEF PutsAll, Held
<1> QED  BY <1>8, <1>9, <1>10, <1>11 DEF NamedOK, Named, b, c, z

(* Pieces that do not overlap, wherever they end.                          *)
MemoryApart(m) ==
  /\ \A p \in DOMAIN m : p \in Nat /\ m[p].bytes \in Nat \ {0}
  /\ Apart(m)

(* A piece is stored over one of the same size: all is where it was.       *)
LEMMA PatchKeeps ==
  ASSUME NEW m, NEW o \in DOMAIN m, NEW piece, piece.bytes = m[o].bytes
  PROVE  /\ MemoryApart(m) => MemoryApart(StoredAt(m, o, piece))
         /\ \A at \in Nat : MemoryOK(m, at) => MemoryOK(StoredAt(m, o, piece), at)
<1> DEFINE s == StoredAt(m, o, piece)
<1>1. DOMAIN s = DOMAIN m /\ \A p \in DOMAIN m : s[p].bytes = m[p].bytes
  BY DEF StoredAt
<1> HIDE DEF s
<1>2. MemoryApart(m) => MemoryApart(s)
  BY <1>1 DEF MemoryApart, Apart
<1>3. ASSUME NEW at \in Nat, MemoryOK(m, at) PROVE MemoryOK(s, at)
  <2>1. Apart(s)
    BY <1>1, <1>3 DEF MemoryOK, Apart
  <2> QED  BY <1>1, <1>3, <2>1 DEF MemoryOK
<1> QED  BY <1>2, <1>3 DEF s

(* The bytes of the authorization area, and what is in a buffer s when it  *)
(* was put into buffer b.  If even its size does not fit, this is stored   *)
(* behind what is there already, whatever the capacity.                    *)
Area(a) == IF a.numSessions = 0 THEN 0 ELSE 4 + BytesOf(Authorizations(a))

SessionsOK(b, s, a) ==
  /\ s = [at |-> s.at, room |-> s.room, memory |-> s.memory]
  /\ s.room = b.room - Area(a) /\ s.room \in Int
  /\ Extends(b, s) /\ s.at \in Nat /\ MemoryApart(s.memory)
  /\ a.numSessions = 0 \/ b.room >= 4 => BufferOK(s, a.capacity)
  /\ a.numSessions > 0 /\ b.room < 4 => s.room < 0
  /\ s.room >= 0 => s.at = b.at + Area(a)
  /\ s.room >= 0 /\ a.numSessions > 0 =>
       /\ b.at \in DOMAIN s.memory /\ s.memory[b.at].value = BytesOf(Authorizations(a))
       /\ Held(s.memory, b.at + 4, Authorizations(a))

(* So it is after WithSessions.                                            *)
LEMMA SessionsIs ==
  ASSUME NEW a, CallOK(a), a.numSessions > 0 => a.sessions # Null,
         NEW b, BufferOK(b, a.capacity)
  PROVE  SessionsOK(b, WithSessions(b, a), a)
<1>1. /\ a.capacity \in Int /\ a.numSessions \in Nat /\ b.at \in Nat /\ b.room \in Int
      /\ MemoryOK(b.memory, b.at) /\ b = [at |-> b.at, room |-> b.room, memory |-> b.memory]
  BY DEF CallOK, BufferOK
<1>2. CASE a.numSessions = 0
  <2>1. WithSessions(b, a) = b /\ Area(a) = 0
    BY <1>2 DEF WithSessions, Area
  <2>2. Extends(b, b) /\ MemoryApart(b.memory) /\ b.room - 0 = b.room /\ b.at + 0 = b.at
    BY <1>1 DEF Extends, MemoryApart, MemoryOK
  <2>3. SessionsOK(b, b, a)
    BY <1>1, <1>2, <2>1, <2>2 DEF SessionsOK
  <2> QED  BY <2>1, <2>3
<1>3. CASE a.numSessions > 0
  <2> DEFINE z == Authorizations(a)  n == BytesOf(z)  f == Piece(4, "authSize", n)
             p == Put(b, Piece(4, "authSize", 0))  w == PutAll(p, z)
             m == StoredAt(w.memory, b.at, f)  s == WithSessions(b, a)
  <2>1. PiecesOK(z) /\ n \in Nat /\ n = Ends(Sizes(z))[Len(z)]
    <3>1. PiecesOK(z)
      BY AuthorizationsAre
    <3> HIDE DEF z
    <3> QED  BY <3>1, SizesAre
  <2>2. Piece(4, "authSize", 0).bytes = 4 /\ f.bytes = 4 /\ f.value = n
    BY DEF Piece
  <2>3. Area(a) = 4 + n
    BY <1>3 DEF Area
  <2>4. s = [w EXCEPT !.memory = m]
    BY <1>3 DEF WithSessions, Patch
  <2> HIDE DEF z, n, f
  <2>5. /\ BufferOK(p, a.capacity) /\ Extends(b, p) /\ p.room = b.room - 4
        /\ p.room < 0 => p.at = b.at /\ p.memory = b.memory
        /\ p.room >= 0 => p.at = b.at + 4
        /\ p.room >= 0 => b.at \in DOMAIN p.memory /\ p.memory[b.at] = Piece(4, "authSize", 0)
    BY <1>1, <2>2, PutIs
  <2> HIDE DEF p
  <2>6. PutsAll(p, z, w, a.capacity, Len(z))
    BY <1>1, <2>1, <2>5, PutAllIs
  <2> HIDE DEF w
  <2>7. /\ BufferOK(w, a.capacity) /\ Extends(p, w) /\ w.room = p.room - n
        /\ p.room < 0 => w.at = p.at /\ w.memory = p.memory
        /\ w.room >= 0 => w.at = p.at + n
        /\ w.room >= 0 => Held(w.memory, p.at, z)
    BY <2>1, <2>6 DEF PutsAll, Held
  <2>8. /\ w = [at |-> w.at, room |-> w.room, memory |-> w.memory]
        /\ w.at \in Nat /\ w.room \in Int /\ w.at <= a.capacity
        /\ w.room >= 0 => w.at + w.room = a.capacity
        /\ MemoryOK(w.memory, w.at) /\ p.at \in Nat /\ p.room \in Int
    BY <2>5, <2>7 DEF BufferOK
  <2>9. s = [at |-> w.at, room |-> w.room, memory |-> m]
    BY <2>4, <2>8
  <2>10. /\ s.at = w.at /\ s.room = w.room /\ s.memory = m
         /\ s = [at |-> s.at, room |-> s.room, memory |-> s.memory]
    BY <2>9
  <2> HIDE DEF s
  <2>11. s.room = b.room - Area(a)
    BY <1>1, <2>1, <2>3, <2>5, <2>7, <2>10
  <2>12. Extends(b, w)
    BY <1>1, <2>5, <2>7, <2>8, ExtendsOn DEF MemoryOK
  <2>13. b.at \notin DOMAIN b.memory
    BY <1>1 DEF MemoryOK
  <2>14. DOMAIN m = DOMAIN w.memory \cup {b.at} /\ m[b.at] = f
         /\ \A q \in DOMAIN w.memory : q # b.at => m[q] = w.memory[q]
    BY DEF StoredAt
  <2>15. Extends(b, s)
    BY <1>1, <2>10, <2>12, <2>13, <2>14 DEF Extends
  <2>16. CASE b.room >= 4
    <3>1. p.room >= 0
      BY <1>1, <2>5, <2>16
    <3>2. b.at \in DOMAIN w.memory /\ w.memory[b.at].bytes = 4
      BY <2>2, <2>5, <2>7, <3>1 DEF Extends
    <3>3. MemoryOK(m, w.at) /\ MemoryApart(m)
      BY <2>2, <2>8, <3>2, PatchKeeps DEF MemoryApart, MemoryOK
    <3> HIDE DEF m
    <3>4. BufferOK(s, a.capacity)
      BY <2>8, <2>9, <2>10, <3>3 DEF BufferOK
    <3>5. ASSUME s.room >= 0 PROVE s.at = b.at + Area(a)
      <4>1. s.at = p.at + n
        BY <2>7, <2>10, <3>5
      <4>2. \A x, y \in Nat : (x + 4) + y = x + (4 + y)
        OBVIOUS
      <4> QED  BY <1>1, <2>1, <2>3, <2>5, <3>1, <4>1, <4>2
    <3>6. ASSUME s.room >= 0
          PROVE  /\ b.at \in DOMAIN m /\ m[b.at].value = n
                 /\ Held(m, b.at + 4, z)
      <4>1. Held(w.memory, b.at + 4, z)
        BY <2>5, <2>7, <2>10, <3>1, <3>6
      <4>2. \A i \in 1 .. Len(z) : b.at + 4 + Ends(Sizes(z))[i - 1] # b.at
        <5>1. \A i \in 1 .. Len(z) : Ends(Sizes(z))[i - 1] \in Nat
          <6>1. Len(z) \in Nat /\ \A i \in 0 .. Len(z) : Ends(Sizes(z))[i] \in Nat
            BY <2>1, SizesAre DEF PiecesOK, IsList
          <6>2. \A i \in 1 .. Len(z) : i - 1 \in 0 .. Len(z)
            BY <6>1
          <6> QED  BY <6>1, <6>2
        <5> QED  BY <1>1, <5>1
      <4>3. Held(m, b.at + 4, z)
        BY <2>14, <4>1, <4>2 DEF Held
      <4> QED  BY <2>2, <2>14, <4>3
    <3>7. SessionsOK(b, s, a)
      BY <1>1, <1>3, <2>8, <2>10, <2>11, <2>15, <2>16, <3>3, <3>4, <3>5, <3>6
      DEF SessionsOK, z, n
    <3> QED  BY <3>7 DEF s
  <2>17. CASE b.room < 4
    <3>1. p.room < 0 /\ w.memory = b.memory /\ w.at = b.at /\ s.room < 0
      BY <1>1, <2>1, <2>5, <2>7, <2>10, <2>17
    <3>2. m = StoredAt(b.memory, b.at, f)
      BY <3>1
    <3>3. MemoryOK(m, b.at + 4)
      BY <1>1, <2>2, <3>2, MemoryGrows
    <3>4. MemoryApart(m)
      BY <3>3 DEF MemoryOK, MemoryApart
    <3> HIDE DEF m
    <3>5. SessionsOK(b, s, a)
      BY <1>1, <1>3, <2>8, <2>10, <2>11, <2>15, <2>17, <3>1, <3>4 DEF SessionsOK
    <3> QED  BY <3>5 DEF s
  <2> QED  BY <1>1, <2>16, <2>17
<1> QED  BY <1>1, <1>2, <1>3

(* The parameters come behind that, if they fit.                           *)
ParamsOK(s, e, a) ==
  /\ e = [at |-> e.at, room |-> e.room, memory |-> e.memory]
  /\ e.room = s.room - a.params /\ e.room \in Int
  /\ Extends(s, e) /\ e.at \in Nat /\ MemoryApart(e.memory)
  /\ BufferOK(s, a.capacity) => BufferOK(e, a.capacity)
  /\ e.room >= 0 => e.at = s.at + a.params
  /\ e.room >= 0 /\ a.params > 0 =>
       s.at \in DOMAIN e.memory /\ e.memory[s.at].part = "params"

(* So it is after WithParams, also when nothing fits any more.             *)
LEMMA ParamsIs ==
  ASSUME NEW a, CallOK(a), NEW b, NEW s, SessionsOK(b, s, a), b.room \in Int,
         \/ BufferOK(s, a.capacity)
         \/ s.room < 0
  PROVE  ParamsOK(s, WithParams(s, a), a)
<1>1. /\ a.capacity \in Int /\ a.params \in Nat /\ s.at \in Nat /\ s.room \in Int
      /\ MemoryApart(s.memory) /\ s = [at |-> s.at, room |-> s.room, memory |-> s.memory]
  BY DEF CallOK, SessionsOK
<1>2. Extends(s, s)
  BY <1>1 DEF Extends
<1>3. CASE a.params = 0
  <2>1. WithParams(s, a) = s /\ s.room - 0 = s.room /\ s.at + 0 = s.at
    BY <1>1, <1>3 DEF WithParams
  <2> QED  BY <1>1, <1>2, <1>3, <2>1 DEF ParamsOK
<1>4. CASE a.params # 0
  <2> DEFINE q == Piece(a.params, "params", a.params)  e == WithParams(s, a)
  <2>1. e = Put(s, q)
    BY <1>4 DEF WithParams
  <2>2. q.bytes = a.params /\ q.part = "params"
    BY DEF Piece
  <2> HIDE DEF q, e
  <2>3. CASE BufferOK(s, a.capacity)
    <3>1. /\ BufferOK(e, a.capacity) /\ Extends(s, e) /\ e.room = s.room - a.params
          /\ e.room >= 0 => e.at = s.at + a.params
          /\ e.room >= 0 => s.at \in DOMAIN e.memory /\ e.memory[s.at] = q
      BY <1>1, <1>4, <2>1, <2>2, <2>3, PutIs
    <3>2. /\ e.room \in Int /\ e.at \in Nat /\ MemoryApart(e.memory)
          /\ e = [at |-> e.at, room |-> e.room, memory |-> e.memory]
      BY <3>1 DEF BufferOK, MemoryOK, MemoryApart
    <3>3. ParamsOK(s, e, a)
      BY <2>2, <3>1, <3>2 DEF ParamsOK
    <3> QED  BY <3>3 DEF e
  <2>4. CASE ~BufferOK(s, a.capacity)
    <3>1. s.room - a.params < 0 /\ s.room - a.params \in Int
      BY <1>1, <2>4
    <3>2. e = [s EXCEPT !.room = s.room - a.params]
      BY <2>1, <2>2, <3>1 DEF Put
    <3>3. /\ e.at = s.at /\ e.room = s.room - a.params /\ e.memory = s.memory
          /\ e = [at |-> e.at, room |-> e.room, memory |-> e.memory]
      BY <1>1, <3>2
    <3>4. Extends(s, e)
      BY <1>2, <3>3 DEF Extends
    <3>5. ParamsOK(s, e, a)
      BY <1>1, <2>4, <3>1, <3>3, <3>4 DEF ParamsOK
    <3> QED  BY <3>5 DEF e
  <2> QED  BY <2>3, <2>4
<1> QED  BY <1>3, <1>4

(* The command of a call: its pieces do not overlap; they lie within the   *)
(* capacity, if the size of the authorization area does; and if all of the *)
(* command does, it is there, piece by piece up to its end.                *)
BuiltOK(a, m) ==
  /\ MemoryApart(m)
  /\ (a.numSessions > 0 => a.capacity >= 14 + 4 * a.numHandles) =>
       \A p \in DOMAIN m : p + m[p].bytes <= a.capacity
  /\ SizeOf(a) <= a.capacity =>
       /\ MemoryOK(m, SizeOf(a)) /\ m[2].value = SizeOf(a) /\ m[0] = Header(a)[1]
       /\ Held(m, 10, Handles(a))
       /\ a.numSessions > 0 =>
            /\ m[10 + 4 * a.numHandles].value = BytesOf(Authorizations(a))
            /\ Held(m, (10 + 4 * a.numHandles) + 4, Authorizations(a))
       /\ a.params > 0 => m[(10 + 4 * a.numHandles) + Area(a)].part = "params"

(* So it is with the size of the command stored into its header.           *)
LEMMA BuiltIs ==
  ASSUME NEW a, CallOK(a), a.numSessions > 0 => a.sessions # Null, a.capacity >= 10,
         NEW b, NamedOK(b, a), NEW s, SessionsOK(b, s, a), NEW e, ParamsOK(s, e, a)
  PROVE  BuiltOK(a, StoredAt(e.memory, 2, Piece(4, "size", SizeOf(a))))
<1> DEFINE r == Piece(4, "size", SizeOf(a))  m == StoredAt(e.memory, 2, r)
           o == 10 + 4 * a.numHandles  z == Authorizations(a)
<1>1. /\ a.capacity \in Int /\ a.numHandles \in Nat /\ a.params \in Nat /\ a.numSessions \in Nat
      /\ o \in Nat /\ b.room = a.capacity - o /\ b.at \in Nat /\ 10 <= b.at
      /\ 0 \in DOMAIN b.memory /\ 2 \in DOMAIN b.memory
      /\ b.memory[0] = Header(a)[1] /\ b.memory[2].bytes = 4
  <2>1. Header(a)[2].bytes = 4
    BY HeaderIs
  <2>2. a.capacity \in Int /\ a.numHandles \in Nat /\ a.params \in Nat /\ a.numSessions \in Nat
    BY DEF CallOK
  <2>3. b.at \in Nat /\ BufferOK(b, a.capacity)
    BY DEF NamedOK, BufferOK
  <2> QED  BY <2>1, <2>2, <2>3 DEF NamedOK
<1>2. Area(a) \in Nat /\ SizeOf(a) = o + Area(a) + a.params
  <2>1. BytesOf(z) \in Nat
    BY AuthorizationsAre, SizesAre
  <2>2. BytesOf(Header(a)) = 10 /\ BytesOf(Handles(a)) = 4 * a.numHandles
    BY HeaderIs, HandlesAre
  <2> HIDE DEF z
  <2>3. Area(a) \in Nat
    BY <2>1 DEF Area, z
  <2> QED  BY <2>2, <2>3 DEF SizeOf, Area
<1> HIDE DEF o
<1>3. SizeOf(a) \in Nat /\ r.bytes = 4 /\ r.value = SizeOf(a)
  BY <1>1, <1>2 DEF Piece
<1> HIDE DEF r
<1>4. /\ s.room = b.room - Area(a) /\ e.room = s.room - a.params
      /\ s.room \in Int /\ e.room \in Int /\ Extends(b, s) /\ Extends(s, e)
      /\ s.at \in Nat /\ e.at \in Nat /\ MemoryApart(e.memory)
  BY DEF SessionsOK, ParamsOK
<1>5. Extends(b, e)
  BY <1>1, <1>4, ExtendsOn DEF MemoryApart
<1>6. /\ 0 \in DOMAIN e.memory /\ e.memory[0] = Header(a)[1]
      /\ 2 \in DOMAIN e.memory /\ e.memory[2].bytes = 4
  BY <1>1, <1>5 DEF Extends
<1>7. /\ DOMAIN m = DOMAIN e.memory /\ m[2] = r
      /\ \A p \in DOMAIN e.memory : p # 2 => m[p] = e.memory[p]
  BY <1>6 DEF StoredAt
<1>8. MemoryApart(m) /\ \A at \in Nat : MemoryOK(e.memory, at) => MemoryOK(m, at)
  BY <1>3, <1>4, <1>6, PatchKeeps
<1> HIDE DEF m
<1>9. ASSUME a.numSessions > 0 => a.capacity >= 14 + 4 * a.numHandles
      PROVE  BufferOK(e, a.capacity) /\ e.at <= a.capacity
             /\ MemoryOK(m, e.at) /\ (e.room >= 0 => e.at + e.room = a.capacity)
  <2>1. a.numSessions = 0 \/ b.room >= 4
    BY <1>1, <1>9 DEF o
  <2>2. BufferOK(s, a.capacity)
    BY <2>1 DEF SessionsOK
  <2>3. BufferOK(e, a.capacity)
    BY <2>2 DEF ParamsOK
  <2> QED  BY <1>8, <2>3 DEF BufferOK
<1>10. ASSUME a.numSessions > 0 => a.capacity >= 14 + 4 * a.numHandles,
              NEW p \in DOMAIN m
       PROVE  p + m[p].bytes <= a.capacity
  <2>1. p \in Nat /\ m[p].bytes \in Nat /\ p + m[p].bytes <= e.at /\ e.at <= a.capacity
    BY <1>9, <1>10 DEF MemoryOK
  <2> QED  BY <1>1, <1>4, <2>1
<1>11. ASSUME SizeOf(a) <= a.capacity
       PROVE  /\ MemoryOK(m, SizeOf(a)) /\ m[2].value = SizeOf(a) /\ m[0] = Header(a)[1]
              /\ Held(m, 10, Handles(a))
              /\ a.numSessions > 0 => m[o].value = BytesOf(z) /\ Held(m, o + 4, z)
              /\ a.params > 0 => m[o + Area(a)].part = "params"
  <2>1. b.room >= 0 /\ s.room >= 0 /\ e.room >= 0
    BY <1>1, <1>2, <1>4, <1>11
  <2>2. b.at = o /\ Held(b.memory, 10, Handles(a))
    BY <2>1 DEF NamedOK, o
  <2>3. s.at = o + Area(a) /\ e.at = o + Area(a) + a.params /\ e.at = SizeOf(a)
    BY <1>2, <2>1, <2>2 DEF SessionsOK, ParamsOK
  <2>4. a.numSessions > 0 => b.room >= 4
    BY <2>1, <1>1 DEF SessionsOK
  <2>5. MemoryOK(m, SizeOf(a))
    BY <1>1, <1>9, <2>3, <2>4 DEF o
  <2>6. m[2].value = SizeOf(a) /\ m[0] = Header(a)[1]
    BY <1>3, <1>6, <1>7
  <2>7. ASSUME NEW c, Extends(c, e), NEW at \in Nat, at > 2, NEW pieces, PiecesOK(pieces),
               Held(c.memory, at, pieces)
        PROVE  Held(m, at, pieces)
    <3>1. \A i \in 1 .. Len(pieces) : Ends(Sizes(pieces))[i - 1] \in Nat
      <4>1. Len(pieces) \in Nat /\ \A i \in 0 .. Len(pieces) : Ends(Sizes(pieces))[i] \in Nat
        BY <2>7, SizesAre DEF PiecesOK, IsList
      <4>2. \A i \in 1 .. Len(pieces) : i - 1 \in 0 .. Len(pieces)
        BY <4>1
      <4> QED  BY <4>1, <4>2
    <3>2. \A i \in 1 .. Len(pieces) : at + Ends(Sizes(pieces))[i - 1] # 2
      BY <2>7, <3>1
    <3> QED  BY <1>7, <2>7, <3>2 DEF Held, Extends
  <2>8. Held(m, 10, Handles(a))
    BY <1>5, <2>2, <2>7, HandlesAre
  <2>9. ASSUME a.numSessions > 0 PROVE m[o].value = BytesOf(z) /\ Held(m, o + 4, z)
    <3>1. o \in DOMAIN s.memory /\ s.memory[o].value = BytesOf(z) /\ Held(s.memory, o + 4, z)
      BY <2>1, <2>2, <2>9 DEF SessionsOK
    <3>2. PiecesOK(z) /\ o + 4 \in Nat /\ o + 4 > 2 /\ o # 2
      BY <1>1, AuthorizationsAre, <2>2
    <3>3. o \in DOMAIN e.memory /\ e.memory[o] = s.memory[o]
      BY <1>4, <3>1 DEF Extends
    <3>4. Held(m, o + 4, z)
      BY <1>4, <2>7, <3>1, <3>2
    <3> QED  BY <1>7, <3>1, <3>2, <3>3, <3>4
  <2>10. ASSUME a.params > 0 PROVE m[o + Area(a)].part = "params"
    <3>1. o + Area(a) \in DOMAIN e.memory /\ e.memory[o + Area(a)].part = "params"
      BY <2>1, <2>3, <2>10 DEF ParamsOK
    <3>2. o + Area(a) # 2
      BY <1>1, <1>2, <2>2
    <3> QED  BY <1>7, <3>1, <3>2
  <2> QED  BY <2>5, <2>6, <2>8, <2>9, <2>10
<1> QED  BY <1>8, <1>10, <1>11 DEF BuiltOK, m, r, o, z

(* TSS_BuildCommand reports the size of what it builds.                    *)
LEMMA TSS_BuildCommandIs ==
  ASSUME NEW a, CallOK(a), ~Refused(a)
  PROVE  /\ TSS_BuildCommand(a).size = SizeOf(a)
         /\ BuiltOK(a, TSS_BuildCommand(a).memory)
<1> DEFINE b == Named(a)  s == WithSessions(b, a)  e == WithParams(s, a)
           r == Piece(4, "size", SizeOf(a))
<1>1. /\ a.capacity >= 10 /\ (a.numSessions > 0 => a.sessions # Null)
      /\ a.capacity \in Int
  <2>1. a.capacity \in Int /\ a.numSessions \in Nat
    BY DEF CallOK
  <2> QED  BY <2>1 DEF Refused, CountsAgree, STD_RESPONSE_HEADER
<1>2. TSS_BuildCommand(a) = [size |-> SizeOf(a), memory |-> Patch(e, 2, r).memory]
  BY DEF TSS_BuildCommand, Named
<1> HIDE DEF r
<1>3. NamedOK(b, a)
  BY <1>1, NamedIs
<1> HIDE DEF b
<1>4. BufferOK(b, a.capacity) /\ b.room \in Int
  BY <1>3 DEF NamedOK, BufferOK
<1>5. SessionsOK(b, s, a)
  BY <1>1, <1>4, SessionsIs
<1> HIDE DEF s
<1>6. BufferOK(s, a.capacity) \/ s.room < 0
  <2>1. a.numSessions \in Nat
    BY DEF CallOK
  <2> QED  BY <1>4, <1>5, <2>1 DEF SessionsOK
<1>7. ParamsOK(s, e, a)
  BY <1>4, <1>5, <1>6, ParamsIs
<1> HIDE DEF e
<1>8. Patch(e, 2, r).memory = StoredAt(e.memory, 2, r)
  <2>1. e = [at |-> e.at, room |-> e.room, memory |-> e.memory]
    BY <1>7 DEF ParamsOK
  <2> QED  BY <2>1 DEF Patch
<1>9. BuiltOK(a, StoredAt(e.memory, 2, r))
  BY <1>1, <1>3, <1>5, <1>7, BuiltIs DEF r
<1> QED  BY <1>2, <1>8, <1>9

(* Until a command was asked for there is none; from then on it is what    *)
(* TSS_BuildCommand made of what was asked for.                            *)
CommandInv ==
  \/ command = [size |-> 0, memory |-> << >>]
  \/ CallOK(asked) /\ command = TSS_BuildCommand(asked)

(* Only Build and Invoke make a command, both by TSS_BuildCommand.         *)
LEMMA CommandInvHolds == Spec => []CommandInv
<1>1. Init => CommandInv
  BY DEF Init, CommandInv
<1>2. ASSUME CommandInv, [Next]_vars PROVE CommandInv'
  <2>1. CASE Build
    <3>1. PICK a \in Asked : asked' = a /\ command' = TSS_BuildCommand(a)
      BY <2>1 DEF Build
    <3>2. CallOK(a)
      BY CommandsAssumption
    <3> QED  BY <3>1, <3>2 DEF CommandInv
  <2>2. CASE Invoke
    <3>1. PICK c \in Commands, s \in Sessions :
            \E n \in {SmallestOf(c.params), LargestOf(c.params)} :
              asked' = DispatchArguments(c, n, s)
              /\ command' = TSS_BuildCommand(DispatchArguments(c, n, s))
      BY <2>2 DEF Invoke
    <3>2. PICK n \in {SmallestOf(c.params), LargestOf(c.params)} :
            asked' = DispatchArguments(c, n, s)
            /\ command' = TSS_BuildCommand(DispatchArguments(c, n, s))
      BY <3>1
    <3>3. n \in Nat /\ c.handles \in Nat /\ c.sessions \in 0 .. 2
      BY FormatAssumption, CommandsAre DEF CommandOK
    <3> DEFINE a == DispatchArguments(c, n, s)
    <3>4. /\ a.numHandles = c.handles /\ a.numSessions = c.sessions /\ a.params = n
          /\ a.capacity = 4096
          /\ a.sessions = IF c.sessions = 0 THEN Null ELSE [i \in 1 .. c.sessions |-> s[i]]
      BY DEF DispatchArguments, MAX_COMMAND_BUFFER
    <3> HIDE DEF a
    <3>5. ASSUME NEW i \in 1 .. c.sessions
          PROVE  a.sessions[i].nonce \in Nat /\ a.sessions[i].hmac \in Nat
      <4>1. i \in 1 .. 2 /\ a.sessions[i] = s[i]
        BY <3>3, <3>4
      <4> QED  BY <4>1, CommandsAssumption
    <3>6. CallOK(a)
      BY <3>3, <3>4, <3>5 DEF CallOK
    <3> QED  BY <3>2, <3>6 DEF CommandInv, a
  <2>3. CASE UNCHANGED <<asked, command>>
    BY <1>2, <2>3 DEF CommandInv
  <2>4. ASSUME SubmitFails \/ Dispatch \/ ReadResult \/ Finish \/ UNCHANGED vars
        PROVE  UNCHANGED <<asked, command>>
    BY <2>4 DEF SubmitFails, Dispatch, ReadResult, Finish, vars
  <2>5. \A r, received, unknown : Delivers(r, received, unknown) => UNCHANGED <<asked, command>>
    BY DEF Delivers
  <2>6. Succeeds => UNCHANGED <<asked, command>>
    BY <2>5, Zenon DEF Succeeds
  <2>7. Refuses => UNCHANGED <<asked, command>>
    <3>1. SUFFICES ASSUME Refuses PROVE UNCHANGED <<asked, command>>
      OBVIOUS
    <3>2. PICK e \in DefinedCode \ {TPM_RC_SUCCESS} :
            \E raw \in {OfTpm(e), <<32808, e>>}
                       \cup (IF e \in FormatOneCode THEN {OfTpm(e + l) : l \in Location} ELSE {}) :
              Delivers(Error("TPM_ST_NO_SESSIONS", e, raw), 10, 0)
      BY <3>1 DEF Refuses
    <3> QED  BY <2>5, <3>2
  <2>8. AnswersAsTpm12 => UNCHANGED <<asked, command>>
    BY <2>5, Zenon DEF AnswersAsTpm12
  <2> QED  BY <1>2, <2>1, <2>2, <2>3, <2>4, <2>6, <2>7, <2>8 DEF Next
<1> QED  BY <1>1, <1>2, PTL DEF Spec

(* Nothing lies over what was stored before, nor beyond the buffer if this *)
(* has room for the size of the authorization area.                        *)
THEOREM PatchesAreInside == Spec => []PatchesStayInside
<1>1. ASSUME CommandInv PROVE PatchesStayInside
  <2>1. CASE command = [size |-> 0, memory |-> << >>]
    <3>1. command.size = 0 /\ DOMAIN command.memory = {}
      BY <2>1
    <3> QED  BY <3>1 DEF PatchesStayInside
  <2>2. CASE CallOK(asked) /\ command = TSS_BuildCommand(asked) /\ Refused(asked)
    <3>1. command.size = 0 /\ DOMAIN command.memory = {}
      BY <2>2 DEF TSS_BuildCommand
    <3> QED  BY <3>1 DEF PatchesStayInside
  <2>3. CASE CallOK(asked) /\ command = TSS_BuildCommand(asked) /\ ~Refused(asked)
    <3>1. BuiltOK(asked, command.memory)
      BY <2>3, TSS_BuildCommandIs
    <3> QED  BY <3>1 DEF PatchesStayInside, BuiltOK, MemoryApart, Apart
  <2> QED  BY <1>1, <2>1, <2>2, <2>3 DEF CommandInv
<1> QED  BY <1>1, CommandInvHolds, PTL

(* A command that TSS_BuildCommand says fits is whole.                     *)
THEOREM CommandsAreWhole == Spec => []CommandIsWhole
<1>1. ASSUME CommandInv PROVE CommandIsWhole
  <2>1. CASE command = [size |-> 0, memory |-> << >>]
    <3>1. ~(command.size > 0)
      BY <2>1
    <3> QED  BY <3>1 DEF CommandIsWhole
  <2>2. CASE CallOK(asked) /\ command = TSS_BuildCommand(asked) /\ Refused(asked)
    <3>1. ~(command.size > 0)
      BY <2>2 DEF TSS_BuildCommand
    <3> QED  BY <3>1 DEF CommandIsWhole
  <2>3. CASE CallOK(asked) /\ command = TSS_BuildCommand(asked) /\ ~Refused(asked)
    <3> DEFINE a == asked  m == command.memory  n == command.size
               o == 10 + 4 * a.numHandles  z == Authorizations(a)
               q == IF m[0].value = "TPM_ST_SESSIONS" THEN o + 4 + m[o].value ELSE o
    <3> SUFFICES ASSUME n <= a.capacity, a.sessions = Null \/ a.numSessions > 0
                 PROVE  /\ m[2].value = n
                        /\ \A p \in DOMAIN m :
                             p + m[p].bytes = n \/ p + m[p].bytes \in DOMAIN m
                        /\ Holds(10, Handles(a))
                        /\ a.numSessions > 0 => Holds(o + 4, z)
                        /\ q + a.params = n
                        /\ a.params > 0 => m[q].part = "params"
      BY DEF CommandIsWhole
    <3>1. n = SizeOf(a) /\ BuiltOK(a, m)
      BY <2>3, TSS_BuildCommandIs
    <3>2. /\ MemoryOK(m, n) /\ m[2].value = n /\ m[0] = Header(a)[1]
          /\ Held(m, 10, Handles(a))
          /\ a.numSessions > 0 => m[o].value = BytesOf(z) /\ Held(m, o + 4, z)
          /\ a.params > 0 => m[o + Area(a)].part = "params"
      BY <3>1 DEF BuiltOK
    <3>3. \A at, pieces : Held(m, at, pieces) => Holds(at, pieces)
      BY DEF Held, Holds
    <3>4. \A p \in DOMAIN m : p + m[p].bytes = n \/ p + m[p].bytes \in DOMAIN m
      BY <3>2 DEF MemoryOK
    <3>5. /\ a.numHandles \in Nat /\ a.params \in Nat /\ a.numSessions \in Nat
          /\ (a.numSessions > 0 => a.sessions # Null)
      BY <2>3 DEF CallOK, Refused, CountsAgree
    <3>6. n = o + Area(a) + a.params /\ Area(a) \in Nat
      <4>1. BytesOf(z) \in Nat
        BY <2>3, <3>5, AuthorizationsAre, SizesAre
      <4>2. BytesOf(Header(a)) = 10 /\ BytesOf(Handles(a)) = 4 * a.numHandles
        BY <2>3, HeaderIs, HandlesAre
      <4> HIDE DEF z
      <4>3. Area(a) \in Nat
        BY <4>1 DEF Area, z
      <4> QED  BY <3>1, <4>2, <4>3 DEF SizeOf, Area
    <3>7. q = o + Area(a)
      <4>1. CASE a.sessions = Null
        <5>1. a.numSessions = 0
          BY <3>5, <4>1
        <5>2. m[0].value = "TPM_ST_NO_SESSIONS"
          BY <3>2, <4>1, HeaderIs
        <5>3. q = o /\ Area(a) = 0
          BY <5>1, <5>2 DEF Area
        <5> QED  BY <3>5, <5>3
      <4>2. CASE a.sessions # Null
        <5>1. a.numSessions > 0 /\ m[0].value = "TPM_ST_SESSIONS"
          BY <3>2, <4>2, HeaderIs
        <5>2. m[o].value = BytesOf(z) /\ Area(a) = 4 + BytesOf(z)
          BY <3>2, <5>1 DEF Area
        <5>3. BytesOf(z) \in Nat
          BY <2>3, <3>5, AuthorizationsAre, SizesAre
        <5> HIDE DEF z
        <5>4. q = o + 4 + BytesOf(z)
          BY <5>1, <5>2
        <5> QED  BY <3>5, <5>2, <5>3, <5>4
      <4> QED  BY <4>1, <4>2
    <3>8. q + a.params = n /\ (a.params > 0 => m[q].part = "params")
      BY <3>2, <3>6, <3>7
    <3> QED  BY <3>2, <3>3, <3>4, <3>8
  <2> QED  BY <1>1, <2>1, <2>2, <2>3 DEF CommandInv
<1> QED  BY <1>1, CommandInvHolds, PTL
=============================================================================
