--------------------------- MODULE TpmCodecProofs ---------------------------
(***************************************************************************)
(* Proofs about TpmCodec: the calls of tpm_codec.c on a shared TPM, for    *)
(* every number of programs, calls, slots and sessions, every token size   *)
(* and every set of faults.                                                *)
(***************************************************************************)
EXTENDS TpmCodec, SequenceTheorems, WellFoundedInduction, TLAPS

(* The codes the TPM answers with.                                         *)
RawCode ==
  {TPM_RC_SUCCESS, TPM_RC_INITIALIZE, TPM_RC_NV_DEFINED, TPM_RC_OBJECT_MEMORY,
   TPM_RC_SESSION_MEMORY, HandleError(1), HandleError(2), ParamSizeError, NonceError,
   PolicyError, SessionError}

Nonce == Client \X Nat
Session == [owner : Client, nonce : Nonce, shown : BOOLEAN, secret : {NoNonce} \cup Nonce]
TpmState ==
  [started : BOOLEAN, keys : [PersHandle -> Key \cup {NoKey}],
   objs : [Slot -> Object \cup {NoObj}], sess : [SessionNumber -> Session \cup {NoSession}],
   limit : InputBuffer]

-----------------------------------------------------------------------------
(* Every set of natural numbers has a least one: the TPM's choice of a     *)
(* slot or a session number is one of those that are free.                 *)
LEMMA LeastExists ==
  ASSUME NEW S, S \subseteq Nat, S # {}
  PROVE  \E x \in S : \A y \in S : x <= y
<1>1. PICK x \in S : \A y \in S : ~(<<y, x>> \in OpToRel(<, Nat))
  BY NatLessThanWellFounded, WFMin, Zenon
<1>2. ASSUME NEW y \in S PROVE x <= y
  <2>1. x \in Nat /\ y \in Nat
    OBVIOUS
  <2>2. <<y, x>> \in Nat \X Nat
    BY <2>1
  <2>3. y < x => <<y, x>> \in OpToRel(<, Nat)
    BY <2>2 DEF OpToRel
  <2>4. ~(y < x)
    BY <1>1, <2>3
  <2> QED BY <2>1, <2>4
<1> QED BY <1>2

(* The slot a new object goes to is a free one.                            *)
LEMMA FirstFreeIs ==
  ASSUME NEW t, FreeSlots(t) # {}
  PROVE  FirstFree(t) \in FreeSlots(t)
<1>1. FreeSlots(t) \subseteq Nat
  <2>1. Slot \subseteq Nat
    BY DEF Slot
  <2> QED BY <2>1 DEF FreeSlots
<1>2. \E s \in FreeSlots(t) : \A u \in FreeSlots(t) : s <= u
  BY <1>1, LeastExists
<1> QED BY <1>2, Zenon DEF FirstFree

(* Codes that differ stay apart when TSS_DispatchCmd has cleaned them: in  *)
(* particular only a success is taken for one.                             *)
LEMMA CleanIs ==
  /\ \A raw \in RawCode : CleanCode(raw) \in Nat /\ raw \in Nat
  /\ \A raw \in RawCode : CleanCode(raw) = TPM_RC_SUCCESS => raw = TPM_RC_SUCCESS
  /\ \A raw \in RawCode : CleanCode(raw) = TPM_RC_INITIALIZE => raw = TPM_RC_INITIALIZE
  /\ CleanCode(TPM_RC_RETRY) = TPM_RC_RETRY
<1> USE DEF TPM_RC_SUCCESS, TPM_RC_INITIALIZE, TPM_RC_NV_DEFINED, TPM_RC_OBJECT_MEMORY,
            TPM_RC_SESSION_MEMORY, TPM_RC_RETRY, CleanCode, RC_FMT1
<1>1. HandleError(1) = 395 /\ HandleError(2) = 651 /\ ParamSizeError = 469 /\ NonceError = 463
      /\ PolicyError = 2461 /\ SessionError = 2436
  BY SMT DEF HandleError, ParamSizeError, NonceError, PolicyError, SessionError, TPM_RC_HANDLE, TPM_RC_1,
         TPM_RC_SIZE, TPM_RC_P, TPM_RC_NONCE, TPM_RC_POLICY_FAIL, TPM_RC_S, TPM_RC_VALUE
<1>2. RawCode = {0, 256, 332, 2306, 2307, 395, 651, 469, 463, 2461, 2436}
  BY <1>1 DEF RawCode
<1>3. /\ CleanCode(0) = 0 /\ CleanCode(256) = 256 /\ CleanCode(332) = 332
      /\ CleanCode(2306) = 2306 /\ CleanCode(2307) = 2307 /\ CleanCode(395) = 139
      /\ CleanCode(651) = 139 /\ CleanCode(469) = 149 /\ CleanCode(463) = 143
      /\ CleanCode(2461) = 157 /\ CleanCode(2436) = 132 /\ CleanCode(2338) = 2338
  BY SMT
<1> HIDE DEF CleanCode
<1> QED BY <1>2, <1>3

(* What comes out of TSS_DispatchCmd: a success only if the TPM succeeded, *)
(* and then its output and its state; otherwise the command may have run   *)
(* or not.                                                                 *)
LEMMA DispatchIs ==
  ASSUME NEW c, last[c] \in Nat, NEW o, o.raw \in RawCode, NEW d \in Dispatch(c, o)
  PROVE  /\ d.tpm \in {tpm, o.tpm} /\ d.last \in Nat /\ d.rc \in Nat
         /\ d.rc = TPM_RC_SUCCESS => o.raw = TPM_RC_SUCCESS /\ d.tpm = o.tpm /\ d.out = o.out
         /\ d.rc = TPM_RC_INITIALIZE => o.raw = TPM_RC_INITIALIZE /\ d.tpm = o.tpm
<1>1. /\ TPM_RC_COMMAND_CODE \in Nat \ {0, 256} /\ TPM_RC_INSUFFICIENT \in Nat \ {0, 256}
      /\ TPM_RC_COMMAND_SIZE \in Nat \ {0, 256} /\ TPM_RC_RETRY \in Nat \ {0, 256}
      /\ TPM_RC_NOT_USED \in Nat /\ TPM_RC_SUCCESS = 0 /\ TPM_RC_INITIALIZE = 256
  BY SMT DEF TPM_RC_COMMAND_CODE, TPM_RC_INSUFFICIENT, TPM_RC_COMMAND_SIZE, TPM_RC_RETRY,
         TPM_RC_NOT_USED, TPM_RC_SUCCESS, TPM_RC_INITIALIZE
<1>2. \/ d = Result(o.tpm, o.raw, CleanCode(o.raw), o.out)
      \/ d = Result(tpm, TPM_RC_RETRY, CleanCode(TPM_RC_RETRY), NoOut)
      \/ d = Result(tpm, last[c], TPM_RC_COMMAND_CODE, NoOut)
      \/ d = Result(o.tpm, last[c], TPM_RC_COMMAND_CODE, NoOut)
      \/ \E g \in Garbled(o.raw) : d = Result(o.tpm, g[1], g[2], NoOut)
  BY Zenon DEF Dispatch
<1>3. CASE d = Result(o.tpm, o.raw, CleanCode(o.raw), o.out)
  BY <1>3, CleanIs DEF Result
<1>4. CASE d = Result(tpm, TPM_RC_RETRY, CleanCode(TPM_RC_RETRY), NoOut)
  BY <1>1, <1>4, CleanIs DEF Result
<1>5. CASE d = Result(tpm, last[c], TPM_RC_COMMAND_CODE, NoOut)
  BY <1>1, <1>5 DEF Result
<1>6. CASE d = Result(o.tpm, last[c], TPM_RC_COMMAND_CODE, NoOut)
  BY <1>1, <1>6 DEF Result
<1>7. ASSUME NEW g \in Garbled(o.raw), d = Result(o.tpm, g[1], g[2], NoOut)
      PROVE  d.tpm = o.tpm /\ d.last \in Nat /\ d.rc \in Nat \ {0, 256}
  <2>1. g[1] \in Nat /\ g[2] \in Nat \ {0, 256}
    BY <1>1, CleanIs DEF Garbled
  <2> QED BY <1>7, <2>1 DEF Result
<1> QED BY <1>1, <1>2, <1>3, <1>4, <1>5, <1>6, <1>7
-----------------------------------------------------------------------------
(* What a command may do to the TPM: to its persistent keys, its objects,  *)
(* its sessions, and nothing else.                                         *)
KeysTo(t, u, f) == /\ u \in TpmState /\ u.keys = f
                   /\ u.started = t.started /\ u.objs = t.objs /\ u.sess = t.sess /\ u.limit = t.limit
ObjsTo(t, u, f) == /\ u \in TpmState /\ u.objs = f
                   /\ u.started = t.started /\ u.keys = t.keys /\ u.sess = t.sess /\ u.limit = t.limit
SessTo(t, u, f) == /\ u \in TpmState /\ u.sess = f
                   /\ u.started = t.started /\ u.keys = t.keys /\ u.objs = t.objs /\ u.limit = t.limit

(* The fields of a TPM.                                                    *)
LEMMA TpmFields ==
  ASSUME NEW t \in TpmState
  PROVE  /\ t.started \in BOOLEAN /\ t.keys \in [PersHandle -> Key \cup {NoKey}]
         /\ t.objs \in [Slot -> Object \cup {NoObj}]
         /\ t.sess \in [SessionNumber -> Session \cup {NoSession}] /\ t.limit \in InputBuffer
BY DEF TpmState

(* A command that sets one field of the TPM leaves the others as they are. *)
LEMMA TpmSet ==
  ASSUME NEW t \in TpmState
  PROVE  /\ \A h \in PersHandle, k \in Key \cup {NoKey} :
              KeysTo(t, [t EXCEPT !.keys[h] = k], [t.keys EXCEPT ![h] = k])
         /\ \A s \in Slot, ob \in Object \cup {NoObj} :
              ObjsTo(t, [t EXCEPT !.objs[s] = ob], [t.objs EXCEPT ![s] = ob])
         /\ \A n \in SessionNumber, se \in Session \cup {NoSession} :
              SessTo(t, [t EXCEPT !.sess[n] = se], [t.sess EXCEPT ![n] = se])
<1>1. ASSUME NEW h \in PersHandle, NEW k \in Key \cup {NoKey}
      PROVE  KeysTo(t, [t EXCEPT !.keys[h] = k], [t.keys EXCEPT ![h] = k])
  BY DEF KeysTo, TpmState
<1>2. ASSUME NEW s \in Slot, NEW ob \in Object \cup {NoObj}
      PROVE  ObjsTo(t, [t EXCEPT !.objs[s] = ob], [t.objs EXCEPT ![s] = ob])
  BY DEF ObjsTo, TpmState
<1>3. ASSUME NEW n \in SessionNumber, NEW se \in Session \cup {NoSession}
      PROVE  SessTo(t, [t EXCEPT !.sess[n] = se], [t.sess EXCEPT ![n] = se])
  BY DEF SessTo, TpmState
<1> QED BY <1>1, <1>2, <1>3

(* The slot record, the nonce and the object are none of the empty ones.   *)
LEMMA NotEmpty ==
  /\ \A ob \in Object : ob # NoObj
  /\ \A t, s : Used(t, s) <=> s \in Slot /\ t.objs[s] # NoObj
BY DEF Object, NoObj, Used

(* TPM2_Startup starts a TPM that is not started, and refuses the others.  *)
LEMMA StartupIs ==
  ASSUME NEW t \in TpmState
  PROVE  LET o == Startup(t)
         IN  /\ o.raw \in RawCode
             /\ \/ o.raw = TPM_RC_INITIALIZE /\ o.tpm = t /\ t.started
                \/ /\ o.raw = TPM_RC_SUCCESS /\ o.tpm \in TpmState /\ o.tpm.started
                   /\ o.tpm.keys = t.keys /\ o.tpm.objs = t.objs
                   /\ o.tpm.sess = t.sess /\ o.tpm.limit = t.limit
BY DEF Startup, Refuse, Answer, TpmState, RawCode

(* A command that a TPM without Startup refuses.                           *)
LEMMA IfStartedIs ==
  ASSUME NEW t, NEW o
  PROVE  \/ IfStarted(t, o) = o /\ t.started
         \/ IfStarted(t, o) = Refuse(t, TPM_RC_INITIALIZE) /\ ~t.started
BY DEF IfStarted

(* An error leaves the TPM as it was ...                                   *)
LEMMA RefuseIs ==
  ASSUME NEW t, NEW raw \in RawCode \ {TPM_RC_SUCCESS}
  PROVE  /\ Refuse(t, raw).raw \in RawCode \ {TPM_RC_SUCCESS} /\ Refuse(t, raw).tpm = t
BY DEF Refuse

(* ... and so does an answer that only reports.                            *)
LEMMA AnswerIs ==
  ASSUME NEW t, NEW out
  PROVE  /\ Answer(t, out).raw = TPM_RC_SUCCESS /\ Answer(t, out).tpm = t
         /\ Answer(t, out).out = out /\ TPM_RC_SUCCESS \in RawCode
BY DEF Answer, RawCode

(* The errors are codes, and none of them is a success.                    *)
LEMMA ErrorsAre ==
  {TPM_RC_INITIALIZE, TPM_RC_NV_DEFINED, TPM_RC_OBJECT_MEMORY, TPM_RC_SESSION_MEMORY,
   HandleError(1), HandleError(2), ParamSizeError, NonceError, PolicyError, SessionError}
    \subseteq RawCode \ {TPM_RC_SUCCESS}
<1> USE DEF TPM_RC_SUCCESS
<1>1. /\ HandleError(1) # 0 /\ HandleError(2) # 0 /\ ParamSizeError # 0 /\ NonceError # 0
      /\ PolicyError # 0 /\ SessionError # 0
  BY SMT DEF HandleError, ParamSizeError, NonceError, PolicyError, SessionError, TPM_RC_HANDLE,
         TPM_RC_1, TPM_RC_SIZE, TPM_RC_P, TPM_RC_NONCE, TPM_RC_POLICY_FAIL, TPM_RC_S, TPM_RC_VALUE
<1>2. /\ TPM_RC_INITIALIZE # 0 /\ TPM_RC_NV_DEFINED # 0 /\ TPM_RC_OBJECT_MEMORY # 0
      /\ TPM_RC_SESSION_MEMORY # 0
  BY SMT DEF TPM_RC_INITIALIZE, TPM_RC_NV_DEFINED, TPM_RC_OBJECT_MEMORY, TPM_RC_SESSION_MEMORY
<1> QED BY <1>1, <1>2 DEF RawCode
-----------------------------------------------------------------------------
(* What each command answers: an error, and the TPM is as it was; or a     *)
(* success, which says what the TPM was like and what has become of it.    *)
Refused(t, o) == o.raw \in RawCode \ {TPM_RC_SUCCESS} /\ o.tpm = t
Done(t, o) == o.raw = TPM_RC_SUCCESS /\ t.started

(* A TPM that is not started refuses whatever the command would have done. *)
LEMMA OutcomeIs ==
  ASSUME NEW t, NEW o, Refused(t, o) \/ o.raw = TPM_RC_SUCCESS
  PROVE  Refused(t, IfStarted(t, o)) \/ (Done(t, IfStarted(t, o)) /\ IfStarted(t, o) = o)
BY IfStartedIs, RefuseIs, ErrorsAre DEF Refused, Done

(* TPM2_ReadPublic tells which key is under the handle.                    *)
LEMMA ReadPublicIs ==
  ASSUME NEW t \in TpmState, NEW h \in PersHandle
  PROVE  LET o == ReadPublic(t, h)
         IN  \/ Refused(t, o)
             \/ Done(t, o) /\ o.tpm = t /\ t.keys[h] # NoKey /\ o.out = <<t.keys[h]>>
<1> DEFINE o == IF t.keys[h] = NoKey THEN Refuse(t, HandleError(1)) ELSE Answer(t, <<t.keys[h]>>)
<1>1. \/ Refused(t, o)
      \/ o.raw = TPM_RC_SUCCESS /\ o.tpm = t /\ t.keys[h] # NoKey /\ o.out = <<t.keys[h]>>
  BY RefuseIs, AnswerIs, ErrorsAre DEF Refused
<1> HIDE DEF o
<1> QED BY <1>1, OutcomeIs DEF ReadPublic, o

(* A new object goes to a free slot, if there is one.                      *)
LEMMA LoadIs ==
  ASSUME NEW t \in TpmState, NEW ob \in Object
  PROVE  LET o == LoadObject(t, ob)
         IN  \/ Refused(t, o)
             \/ /\ o.raw = TPM_RC_SUCCESS
                /\ \E s \in Slot : /\ t.objs[s] = NoObj /\ o.out = <<s>>
                                   /\ ObjsTo(t, o.tpm, [t.objs EXCEPT ![s] = ob])
<1>1. CASE FreeSlots(t) = {}
  BY <1>1, RefuseIs, ErrorsAre DEF LoadObject, Refused
<1>2. CASE FreeSlots(t) # {}
  <2> DEFINE s == FirstFree(t)
             u == [t EXCEPT !.objs[s] = ob]
  <2>1. s \in Slot /\ t.objs[s] = NoObj
    BY <1>2, FirstFreeIs DEF FreeSlots
  <2>2. LoadObject(t, ob) = Answer(u, <<s>>)
    BY <1>2 DEF LoadObject
  <2> HIDE DEF s
  <2>3. ObjsTo(t, u, [t.objs EXCEPT ![s] = ob])
    BY <2>1, TpmSet
  <2> HIDE DEF u
  <2>4. /\ LoadObject(t, ob).raw = TPM_RC_SUCCESS /\ LoadObject(t, ob).out = <<s>>
        /\ LoadObject(t, ob).tpm = u
    BY <2>2, AnswerIs
  <2> QED BY <2>1, <2>3, <2>4, Zenon
<1> QED BY <1>1, <1>2

(* TPM2_CreatePrimary loads the key of the caller's template.              *)
LEMMA CreatePrimaryIs ==
  ASSUME NEW t \in TpmState, NEW c \in Client
  PROVE  LET o == CreatePrimary(t, c, Template[c])
             ob == [kind |-> "key", key |-> Template[c], data |-> << >>, owner |-> c]
         IN  \/ Refused(t, o)
             \/ /\ Done(t, o)
                /\ \E s \in Slot : /\ t.objs[s] = NoObj /\ o.out = <<s>>
                                   /\ ObjsTo(t, o.tpm, [t.objs EXCEPT ![s] = ob])
<1> DEFINE ob == [kind |-> "key", key |-> Template[c], data |-> << >>, owner |-> c]
<1>1. ob \in Object
  <2>1. << >> \in Seq(Nat) /\ Template[c] \in Key
    BY DEF Key
  <2> QED BY <2>1 DEF Object
<1> HIDE DEF ob
<1>2. \/ Refused(t, LoadObject(t, ob))
      \/ /\ LoadObject(t, ob).raw = TPM_RC_SUCCESS
         /\ \E s \in Slot : /\ t.objs[s] = NoObj /\ LoadObject(t, ob).out = <<s>>
                            /\ ObjsTo(t, LoadObject(t, ob).tpm, [t.objs EXCEPT ![s] = ob])
  BY <1>1, LoadIs
<1>3. CreatePrimary(t, c, Template[c]) = IfStarted(t, LoadObject(t, ob))
  BY DEF CreatePrimary, ob
<1>4. \/ Refused(t, CreatePrimary(t, c, Template[c]))
      \/ Done(t, CreatePrimary(t, c, Template[c]))
         /\ CreatePrimary(t, c, Template[c]) = LoadObject(t, ob)
  BY <1>2, <1>3, OutcomeIs
<1> QED BY <1>2, <1>4, Zenon DEF ob, Refused, Done

(* TPM2_HMAC_Start loads a sequence object for the key under the handle.   *)
LEMMA HmacStartIs ==
  ASSUME NEW t \in TpmState, NEW c \in Client, NEW h \in PersHandle
  PROVE  LET o == HMAC_Start(t, c, h)
             ob == [kind |-> "hmac", key |-> t.keys[h], data |-> << >>, owner |-> c]
         IN  \/ Refused(t, o)
             \/ /\ Done(t, o) /\ t.keys[h] # NoKey
                /\ \E s \in Slot : /\ t.objs[s] = NoObj /\ o.out = <<s>>
                                   /\ ObjsTo(t, o.tpm, [t.objs EXCEPT ![s] = ob])
<1> DEFINE ob == [kind |-> "hmac", key |-> t.keys[h], data |-> << >>, owner |-> c]
           p == IF t.keys[h] = NoKey THEN Refuse(t, HandleError(1)) ELSE LoadObject(t, ob)
<1>1. t.keys[h] # NoKey => ob \in Object
  <2>1. << >> \in Seq(Nat)
    OBVIOUS
  <2> QED BY <2>1, TpmFields DEF Object
<1>2. HMAC_Start(t, c, h) = IfStarted(t, p)
  BY DEF HMAC_Start
<1> HIDE DEF ob
<1>3. \/ Refused(t, p)
      \/ /\ p.raw = TPM_RC_SUCCESS /\ t.keys[h] # NoKey
         /\ \E s \in Slot : /\ t.objs[s] = NoObj /\ p.out = <<s>>
                            /\ ObjsTo(t, p.tpm, [t.objs EXCEPT ![s] = ob])
  <2>1. CASE t.keys[h] = NoKey
    BY <2>1, RefuseIs, ErrorsAre DEF Refused
  <2>2. CASE t.keys[h] # NoKey
    BY <1>1, <2>2, LoadIs
  <2> QED BY <2>1, <2>2
<1> HIDE DEF p
<1>4. \/ Refused(t, HMAC_Start(t, c, h))
      \/ Done(t, HMAC_Start(t, c, h)) /\ HMAC_Start(t, c, h) = p
  BY <1>2, <1>3, OutcomeIs
<1> QED BY <1>3, <1>4, Zenon DEF ob, Refused, Done

(* TPM2_EvictControl makes a loaded key persistent, under a free handle.   *)
LEMMA EvictIs ==
  ASSUME NEW t \in TpmState, NEW s, NEW h \in PersHandle,
         s \in Slot => t.objs[s] \in Object \cup {NoObj}
  PROVE  LET o == EvictControl(t, s, h)
         IN  \/ Refused(t, o)
             \/ /\ Done(t, o) /\ s \in Slot /\ t.objs[s] \in Object /\ t.keys[h] = NoKey
                /\ KeysTo(t, o.tpm, [t.keys EXCEPT ![h] = t.objs[s].key])
<1> DEFINE p == CASE ~Used(t, s) -> Refuse(t, HandleError(2))
                  [] Used(t, s) /\ t.keys[h] # NoKey -> Refuse(t, TPM_RC_NV_DEFINED)
                  [] OTHER -> Answer([t EXCEPT !.keys[h] = t.objs[s].key], NoOut)
<1>1. \/ p = Refuse(t, HandleError(2))
      \/ p = Refuse(t, TPM_RC_NV_DEFINED)
      \/ /\ Used(t, s) /\ t.keys[h] = NoKey
         /\ p = Answer([t EXCEPT !.keys[h] = t.objs[s].key], NoOut)
  BY Zenon
<1>2. EvictControl(t, s, h) = IfStarted(t, p)
  BY Zenon DEF EvictControl
<1> HIDE DEF p
<1>3. \/ Refused(t, p)
      \/ /\ p.raw = TPM_RC_SUCCESS /\ s \in Slot /\ t.objs[s] \in Object /\ t.keys[h] = NoKey
         /\ KeysTo(t, p.tpm, [t.keys EXCEPT ![h] = t.objs[s].key])
  <2>1. CASE p = Refuse(t, HandleError(2)) \/ p = Refuse(t, TPM_RC_NV_DEFINED)
    BY <2>1, RefuseIs, ErrorsAre DEF Refused
  <2>2. ASSUME Used(t, s), t.keys[h] = NoKey,
               p = Answer([t EXCEPT !.keys[h] = t.objs[s].key], NoOut)
        PROVE  /\ p.raw = TPM_RC_SUCCESS /\ s \in Slot /\ t.objs[s] \in Object /\ t.keys[h] = NoKey
               /\ KeysTo(t, p.tpm, [t.keys EXCEPT ![h] = t.objs[s].key])
    <3>1. s \in Slot /\ t.objs[s] \in Object
      BY <2>2, NotEmpty
    <3>2. t.objs[s].key \in Key
      BY <3>1 DEF Object
    <3>3. KeysTo(t, [t EXCEPT !.keys[h] = t.objs[s].key], [t.keys EXCEPT ![h] = t.objs[s].key])
      BY <3>2, TpmSet
    <3> QED BY <2>2, <3>1, <3>3, AnswerIs
  <2> QED BY <1>1, <2>1, <2>2
<1> QED BY <1>2, <1>3, OutcomeIs

(* TPM2_FlushContext frees a slot that is in use.                          *)
LEMMA FlushIs ==
  ASSUME NEW t \in TpmState, NEW s
  PROVE  LET o == FlushContext(t, s)
         IN  \/ Refused(t, o)
             \/ /\ Done(t, o) /\ s \in Slot /\ t.objs[s] # NoObj
                /\ ObjsTo(t, o.tpm, [t.objs EXCEPT ![s] = NoObj])
<1> DEFINE p == IF Used(t, s) THEN Answer([t EXCEPT !.objs[s] = NoObj], NoOut)
                ELSE Refuse(t, HandleError(1))
<1>1. \/ Refused(t, p)
      \/ /\ p.raw = TPM_RC_SUCCESS /\ s \in Slot /\ t.objs[s] # NoObj
         /\ ObjsTo(t, p.tpm, [t.objs EXCEPT ![s] = NoObj])
  <2>1. CASE ~Used(t, s)
    BY <2>1, RefuseIs, ErrorsAre DEF Refused
  <2>2. CASE Used(t, s)
    <3>1. s \in Slot /\ t.objs[s] # NoObj
      BY <2>2, NotEmpty
    <3>2. ObjsTo(t, [t EXCEPT !.objs[s] = NoObj], [t.objs EXCEPT ![s] = NoObj])
      BY <3>1, TpmSet
    <3>3. p = Answer([t EXCEPT !.objs[s] = NoObj], NoOut)
      BY <2>2
    <3> HIDE DEF p
    <3> QED BY <3>1, <3>2, <3>3, AnswerIs
  <2> QED BY <2>1, <2>2
<1>2. FlushContext(t, s) = IfStarted(t, p)
  BY DEF FlushContext
<1> HIDE DEF p
<1> QED BY <1>1, <1>2, OutcomeIs

(* A session gets a number that is free.                                   *)
LEMMA StartSessionIs ==
  ASSUME NEW t \in TpmState, NEW c \in Client, NEW nonce \in Nonce
  PROVE  LET o == StartAuthSession(t, c, nonce)
             se == [owner |-> c, nonce |-> nonce, shown |-> FALSE, secret |-> NoNonce]
         IN  \/ Refused(t, o)
             \/ /\ Done(t, o)
                /\ \E n \in SessionNumber : /\ t.sess[n] = NoSession /\ o.out = <<n, nonce>>
                                            /\ SessTo(t, o.tpm, [t.sess EXCEPT ![n] = se])
<1> DEFINE se == [owner |-> c, nonce |-> nonce, shown |-> FALSE, secret |-> NoNonce]
           free == SessionNumber \ OpenSessions(t)
           n == CHOOSE x \in free : \A m \in free : x <= m
           p == IF OpenSessions(t) = SessionNumber THEN Refuse(t, TPM_RC_SESSION_MEMORY)
                ELSE Answer([t EXCEPT !.sess[n] = se], <<n, nonce>>)
<1>1. StartAuthSession(t, c, nonce) = IfStarted(t, p)
  BY DEF StartAuthSession
<1>2. CASE OpenSessions(t) = SessionNumber
  <2>1. p = Refuse(t, TPM_RC_SESSION_MEMORY)
    BY <1>2
  <2> HIDE DEF p
  <2>2. Refused(t, p)
    BY <2>1, RefuseIs, ErrorsAre DEF Refused
  <2> QED BY <1>1, <2>2, OutcomeIs, Zenon DEF Refused, Done
<1>3. CASE OpenSessions(t) # SessionNumber
  <2>1. free # {} /\ free \subseteq Nat
    BY <1>3 DEF OpenSessions, SessionNumber
  <2>2. n \in free
    <3>1. \E x \in free : \A m \in free : x <= m
      BY <2>1, LeastExists
    <3> QED BY <3>1, Zenon
  <2>3. n \in SessionNumber /\ t.sess[n] = NoSession
    BY <2>2 DEF OpenSessions
  <2> DEFINE u == [t EXCEPT !.sess[n] = se]
  <2>4. p = Answer(u, <<n, nonce>>)
    BY <1>3
  <2> HIDE DEF n, p
  <2>5. SessTo(t, u, [t.sess EXCEPT ![n] = se])
    <3>1. se \in Session
      BY DEF Session
    <3> HIDE DEF se
    <3> QED BY <2>3, <3>1, TpmSet
  <2> HIDE DEF se, u
  <2>6. p.raw = TPM_RC_SUCCESS /\ p.out = <<n, nonce>> /\ p.tpm = u
    BY <2>4, AnswerIs
  <2>7. Refused(t, IfStarted(t, p)) \/ (Done(t, IfStarted(t, p)) /\ IfStarted(t, p) = p)
    BY <2>6, OutcomeIs
  <2> QED BY <1>1, <2>3, <2>5, <2>6, <2>7, Zenon DEF se
<1> QED BY <1>2, <1>3

(* TPM2_FlushContext of a session closes it, and only refuses a closed one. *)
LEMMA FlushSessionIs ==
  ASSUME NEW t \in TpmState, NEW n
  PROVE  LET o == FlushSession(t, n)
         IN  \/ Refused(t, o) /\ (t.started => n \notin OpenSessions(t))
             \/ /\ Done(t, o) /\ n \in SessionNumber
                /\ SessTo(t, o.tpm, [t.sess EXCEPT ![n] = NoSession])
<1> DEFINE p == IF n \in OpenSessions(t) THEN Answer([t EXCEPT !.sess[n] = NoSession], NoOut)
                ELSE Refuse(t, HandleError(1))
<1>1. FlushSession(t, n) = IfStarted(t, p)
  BY DEF FlushSession
<1>2. CASE n \notin OpenSessions(t)
  <2>1. p = Refuse(t, HandleError(1))
    BY <1>2
  <2> HIDE DEF p
  <2>2. Refused(t, p)
    BY <2>1, RefuseIs, ErrorsAre DEF Refused
  <2> QED BY <1>1, <1>2, <2>2, OutcomeIs, Zenon DEF Refused, Done
<1>3. CASE n \in OpenSessions(t)
  <2>1. p = Answer([t EXCEPT !.sess[n] = NoSession], NoOut) /\ n \in SessionNumber
    BY <1>3 DEF OpenSessions
  <2> HIDE DEF p
  <2>2. SessTo(t, [t EXCEPT !.sess[n] = NoSession], [t.sess EXCEPT ![n] = NoSession])
    BY <2>1, TpmSet
  <2>3. p.raw = TPM_RC_SUCCESS /\ SessTo(t, p.tpm, [t.sess EXCEPT ![n] = NoSession])
    BY <2>1, <2>2, AnswerIs
  <2>4. \/ Refused(t, FlushSession(t, n)) /\ ~t.started
        \/ Done(t, FlushSession(t, n)) /\ FlushSession(t, n) = p
    BY <1>1, <2>3, IfStartedIs, RefuseIs, ErrorsAre DEF Refused, Done
  <2> QED BY <2>1, <2>3, <2>4
<1> QED BY <1>2, <1>3

(* A session after a secret was shown to it.                               *)
Told(se, nonce) == [se EXCEPT !.shown = TRUE, !.secret = nonce]

(* TPM2_PolicySecret authorizes a session with the nonce it was given.     *)
LEMMA PolicySecretIs ==
  ASSUME NEW t \in TpmState, NEW n, NEW nonce \in {NoNonce} \cup Nonce
  PROVE  LET o == PolicySecret(t, n, nonce, nonce)
         IN  \/ Refused(t, o)
             \/ /\ Done(t, o) /\ n \in SessionNumber /\ t.sess[n] \in Session
                /\ nonce \in {NoNonce, t.sess[n].nonce}
                /\ SessTo(t, o.tpm, [t.sess EXCEPT ![n] = Told(t.sess[n], nonce)])
<1> DEFINE p == CASE n \notin OpenSessions(t) -> Refuse(t, HandleError(2))
                 [] n \in OpenSessions(t) /\ nonce \notin {NoNonce, t.sess[n].nonce} ->
                      Refuse(t, NonceError)
                 [] OTHER -> Answer([t EXCEPT !.sess[n].shown = TRUE, !.sess[n].secret = nonce], NoOut)
<1>1. PolicySecret(t, n, nonce, nonce) = IfStarted(t, p)
  BY Zenon DEF PolicySecret
<1>2. \/ p = Refuse(t, HandleError(2))
      \/ p = Refuse(t, NonceError)
      \/ /\ n \in OpenSessions(t) /\ nonce \in {NoNonce, t.sess[n].nonce}
         /\ p = Answer([t EXCEPT !.sess[n].shown = TRUE, !.sess[n].secret = nonce], NoOut)
  BY Zenon
<1> HIDE DEF p
<1>3. CASE p = Refuse(t, HandleError(2)) \/ p = Refuse(t, NonceError)
  <2>1. Refused(t, p)
    BY <1>3, RefuseIs, ErrorsAre DEF Refused
  <2> QED BY <1>1, <2>1, OutcomeIs, Zenon DEF Refused, Done
<1>4. ASSUME n \in OpenSessions(t), nonce \in {NoNonce, t.sess[n].nonce},
             p = Answer([t EXCEPT !.sess[n].shown = TRUE, !.sess[n].secret = nonce], NoOut)
      PROVE  Refused(t, IfStarted(t, p)) \/
             /\ Done(t, IfStarted(t, p)) /\ n \in SessionNumber /\ t.sess[n] \in Session
             /\ nonce \in {NoNonce, t.sess[n].nonce}
             /\ SessTo(t, IfStarted(t, p).tpm,
                       [t.sess EXCEPT ![n] = Told(t.sess[n], nonce)])
  <2>1. n \in SessionNumber /\ t.sess[n] # NoSession
    BY <1>4 DEF OpenSessions
  <2>2. t.sess[n] \in Session
    BY <2>1, TpmFields
  <2> DEFINE se == Told(t.sess[n], nonce)
  <2>3. se \in Session
    BY <2>2 DEF Session, Told
  <2>4. [t EXCEPT !.sess[n].shown = TRUE, !.sess[n].secret = nonce] = [t EXCEPT !.sess[n] = se]
    BY <2>1 DEF TpmState, Told
  <2> HIDE DEF se
  <2>5. SessTo(t, [t EXCEPT !.sess[n] = se], [t.sess EXCEPT ![n] = se])
    BY <2>1, <2>3, TpmSet
  <2>6. p.raw = TPM_RC_SUCCESS /\ SessTo(t, p.tpm, [t.sess EXCEPT ![n] = se])
    BY <1>4, <2>4, <2>5, AnswerIs
  <2>7. Refused(t, IfStarted(t, p)) \/ (Done(t, IfStarted(t, p)) /\ IfStarted(t, p) = p)
    BY <2>6, OutcomeIs
  <2> QED BY <1>4, <2>1, <2>2, <2>6, <2>7, Zenon DEF se
<1> QED BY <1>1, <1>2, <1>3, <1>4

(* TPM2_ActivateCredential closes the session it is authorized by, or keeps it. *)
LEMMA ActivateIs ==
  ASSUME NEW t \in TpmState, NEW n, NEW continue
  PROVE  LET o == ActivateCredential(t, n, continue)
         IN  \/ Refused(t, o)
             \/ Done(t, o) /\ o.tpm = t
             \/ /\ Done(t, o) /\ n \in SessionNumber
                /\ SessTo(t, o.tpm, [t.sess EXCEPT ![n] = NoSession])
<1> DEFINE p == CASE n \notin OpenSessions(t) -> Refuse(t, SessionError)
                 [] n \in OpenSessions(t) /\ ~t.sess[n].shown -> Refuse(t, PolicyError)
                 [] OTHER -> Answer(IF continue THEN t ELSE [t EXCEPT !.sess[n] = NoSession], NoOut)
<1>1. ActivateCredential(t, n, continue) = IfStarted(t, p)
  BY Zenon DEF ActivateCredential
<1>2. \/ p = Refuse(t, SessionError) \/ p = Refuse(t, PolicyError)
      \/ p = Answer(t, NoOut)
      \/ n \in OpenSessions(t) /\ p = Answer([t EXCEPT !.sess[n] = NoSession], NoOut)
  BY Zenon
<1> HIDE DEF p
<1>3. Refused(t, p) \/ p.raw = TPM_RC_SUCCESS
  BY <1>2, RefuseIs, AnswerIs, ErrorsAre DEF Refused
<1>4. \/ Refused(t, p) \/ p.tpm = t
      \/ n \in SessionNumber /\ SessTo(t, p.tpm, [t.sess EXCEPT ![n] = NoSession])
  <2>1. ASSUME n \in OpenSessions(t), p = Answer([t EXCEPT !.sess[n] = NoSession], NoOut)
        PROVE  n \in SessionNumber /\ SessTo(t, p.tpm, [t.sess EXCEPT ![n] = NoSession])
    BY <2>1, TpmSet, AnswerIs DEF OpenSessions
  <2> QED BY <1>2, <2>1, RefuseIs, AnswerIs, ErrorsAre DEF Refused
<1> QED BY <1>1, <1>3, <1>4, OutcomeIs

(* TPM2_GetCapability tells a property.                                    *)
LEMMA CapabilityIs ==
  ASSUME NEW t, NEW v
  PROVE  LET o == GetCapability(t, v)
         IN  \/ Refused(t, o)
             \/ Done(t, o) /\ o.tpm = t /\ o.out = <<v>>
<1> DEFINE p == Answer(t, <<v>>)
<1>1. p.raw = TPM_RC_SUCCESS /\ p.tpm = t /\ p.out = <<v>>
  BY AnswerIs
<1> HIDE DEF p
<1> QED BY <1>1, OutcomeIs DEF GetCapability, p

(* The HMAC over data under the key, which is there.                       *)
LEMMA HmacIs ==
  ASSUME NEW t, NEW h, NEW data
  PROVE  LET o == HMAC(t, h, data)
         IN  \/ Refused(t, o)
             \/ /\ Done(t, o) /\ o.tpm = t /\ t.keys[h] # NoKey
                /\ o.out = <<[key |-> t.keys[h], data |-> data]>>
<1> DEFINE mac == <<[key |-> t.keys[h], data |-> data]>>
           p == CASE t.keys[h] = NoKey -> Refuse(t, HandleError(1))
                  [] t.keys[h] # NoKey /\ Len(data) > t.limit -> Refuse(t, ParamSizeError)
                  [] OTHER -> Answer(t, mac)
<1>1. HMAC(t, h, data) = IfStarted(t, p)
  BY Zenon DEF HMAC
<1>2. \/ p = Refuse(t, HandleError(1)) \/ p = Refuse(t, ParamSizeError)
      \/ t.keys[h] # NoKey /\ p = Answer(t, mac)
  BY Zenon
<1> HIDE DEF p, mac
<1>3. \/ Refused(t, p)
      \/ p.raw = TPM_RC_SUCCESS /\ p.tpm = t /\ t.keys[h] # NoKey /\ p.out = mac
  BY <1>2, RefuseIs, AnswerIs, ErrorsAre DEF Refused
<1>4. Refused(t, IfStarted(t, p)) \/ (Done(t, IfStarted(t, p)) /\ IfStarted(t, p) = p)
  BY <1>3, OutcomeIs
<1> QED BY <1>1, <1>3, <1>4, Zenon DEF Refused, Done, mac

(* What a piece of data makes of a sequence object.                        *)
Updated(ob, data) == [ob EXCEPT !.data = @ \o data]

(* TPM2_SequenceUpdate appends to the data of a sequence object.           *)
LEMMA UpdateIs ==
  ASSUME NEW t \in TpmState, NEW s, NEW data \in Seq(Nat)
  PROVE  LET o == SequenceUpdate(t, s, data)
         IN  \/ Refused(t, o)
             \/ /\ Done(t, o) /\ s \in Slot /\ t.objs[s] \in Object
                /\ ObjsTo(t, o.tpm, [t.objs EXCEPT ![s] = Updated(t.objs[s], data)])
<1> DEFINE u == [t EXCEPT !.objs[s].data = @ \o data]
           p == CASE ~Used(t, s) -> Refuse(t, HandleError(1))
                  [] Used(t, s) /\ Len(data) > t.limit -> Refuse(t, ParamSizeError)
                  [] OTHER -> Answer(u, NoOut)
<1>1. SequenceUpdate(t, s, data) = IfStarted(t, p)
  BY Zenon DEF SequenceUpdate
<1>2. \/ p = Refuse(t, HandleError(1)) \/ p = Refuse(t, ParamSizeError)
      \/ Used(t, s) /\ p = Answer(u, NoOut)
  BY Zenon
<1> HIDE DEF p
<1>3. ASSUME Used(t, s)
      PROVE  /\ s \in Slot /\ t.objs[s] \in Object
             /\ ObjsTo(t, u, [t.objs EXCEPT ![s] = Updated(t.objs[s], data)])
  <2>1. s \in Slot /\ t.objs[s] \in Object
    BY <1>3, NotEmpty, TpmFields
  <2>2. Updated(t.objs[s], data) \in Object
    <3>1. t.objs[s].data \o data \in Seq(Nat)
      BY <2>1, ConcatProperties DEF Object
    <3> QED BY <2>1, <3>1 DEF Updated, Object
  <2>3. u = [t EXCEPT !.objs[s] = Updated(t.objs[s], data)]
    BY <2>1 DEF Updated, TpmState
  <2> QED BY <2>1, <2>2, <2>3, TpmSet
<1> HIDE DEF u
<1>4. \/ Refused(t, p)
      \/ p.raw = TPM_RC_SUCCESS /\ p.tpm = u /\ Used(t, s)
  BY <1>2, RefuseIs, AnswerIs, ErrorsAre DEF Refused
<1>5. Refused(t, IfStarted(t, p)) \/ (Done(t, IfStarted(t, p)) /\ IfStarted(t, p) = p)
  BY <1>4, OutcomeIs
<1> QED BY <1>1, <1>3, <1>4, <1>5, Zenon DEF Refused, Done

(* TPM2_SequenceComplete signs the data with the key of the object, and frees it. *)
LEMMA CompleteIs ==
  ASSUME NEW t \in TpmState, NEW s, NEW data
  PROVE  LET o == SequenceComplete(t, s, data)
         IN  \/ Refused(t, o)
             \/ /\ Done(t, o) /\ s \in Slot /\ t.objs[s] \in Object
                /\ o.out = <<[key |-> t.objs[s].key, data |-> t.objs[s].data \o data]>>
                /\ ObjsTo(t, o.tpm, [t.objs EXCEPT ![s] = NoObj])
<1> DEFINE u == [t EXCEPT !.objs[s] = NoObj]
           mac == <<[key |-> t.objs[s].key, data |-> t.objs[s].data \o data]>>
           p == CASE ~Used(t, s) -> Refuse(t, HandleError(1))
                  [] Used(t, s) /\ Len(data) > t.limit -> Refuse(t, ParamSizeError)
                  [] OTHER -> Answer(u, mac)
<1>1. SequenceComplete(t, s, data) = IfStarted(t, p)
  BY Zenon DEF SequenceComplete
<1>2. \/ p = Refuse(t, HandleError(1)) \/ p = Refuse(t, ParamSizeError)
      \/ Used(t, s) /\ p = Answer(u, mac)
  BY Zenon
<1> HIDE DEF p
<1>3. ASSUME Used(t, s)
      PROVE  s \in Slot /\ t.objs[s] \in Object /\ ObjsTo(t, u, [t.objs EXCEPT ![s] = NoObj])
  BY <1>3, NotEmpty, TpmFields, TpmSet
<1> HIDE DEF u, mac
<1>4. \/ Refused(t, p)
      \/ p.raw = TPM_RC_SUCCESS /\ p.tpm = u /\ p.out = mac /\ Used(t, s)
  BY <1>2, RefuseIs, AnswerIs, ErrorsAre DEF Refused
<1>5. Refused(t, IfStarted(t, p)) \/ (Done(t, IfStarted(t, p)) /\ IfStarted(t, p) = p)
  BY <1>4, OutcomeIs
<1> QED BY <1>1, <1>3, <1>4, <1>5, Zenon DEF Refused, Done, mac

(* A resource manager takes away what is the program's, and only that.     *)
LEMMA UnloadIs ==
  ASSUME NEW t \in TpmState, NEW c
  PROVE  LET u == Unload(t, c)
         IN  /\ u \in TpmState
             /\ u.started = t.started /\ u.keys = t.keys /\ u.limit = t.limit
             /\ \A s \in Slot : /\ u.objs[s] = t.objs[s] \/ u.objs[s] = NoObj
                                /\ t.objs[s] # NoObj => (t.objs[s].owner = c <=> u.objs[s] = NoObj)
             /\ \A n \in SessionNumber : u.sess[n] = t.sess[n] \/ u.sess[n] = NoSession
<1> DEFINE f == [s \in Slot |-> IF t.objs[s] # NoObj /\ t.objs[s].owner = c THEN NoObj ELSE t.objs[s]]
           g == [n \in SessionNumber |-> IF t.sess[n].owner = c THEN NoSession ELSE t.sess[n]]
<1>1. Unload(t, c) = [t EXCEPT !.objs = f, !.sess = g]
  BY DEF Unload
<1>2. f \in [Slot -> Object \cup {NoObj}] /\ g \in [SessionNumber -> Session \cup {NoSession}]
  BY TpmFields
<1>3. /\ \A s \in Slot : /\ f[s] = t.objs[s] \/ f[s] = NoObj
                         /\ t.objs[s] # NoObj => (t.objs[s].owner = c <=> f[s] = NoObj)
      /\ \A n \in SessionNumber : g[n] = t.sess[n] \/ g[n] = NoSession
  OBVIOUS
<1> HIDE DEF f, g
<1>4. /\ Unload(t, c) \in TpmState /\ Unload(t, c).started = t.started /\ Unload(t, c).keys = t.keys
      /\ Unload(t, c).limit = t.limit /\ Unload(t, c).objs = f /\ Unload(t, c).sess = g
  BY <1>1, <1>2 DEF TpmState
<1> QED BY <1>3, <1>4
-----------------------------------------------------------------------------
(***************************************************************************)
(* The types of the variables, and what the arguments of a call in         *)
(* progress are known to be.                                               *)
(***************************************************************************)
PC == {"idle", "aborted", "startup", "flush_session", "read_public", "create_primary", "evict",
       "flush", "property", "hmac", "hmac_start", "update", "complete", "start_session",
       "policy_secret", "activate", "end_session"}
SessionPC == {"start_session", "policy_secret", "activate", "end_session"}
Arg == [h : PersHandle, size : Nat, n : Nat, i : TssSession \cup {"none"},
        odd : BOOLEAN, given : BOOLEAN]
Mac == [key : Key \cup {NoKey}, data : Seq(Nat)]
TssSess == {NotStarted} \cup [h : SessionNumber, nonce : Nonce]

Typed ==
  /\ tpm \in TpmState
  /\ comm \in [Client -> {"null", "open", "freed"}]
  /\ last \in [Client -> Nat] /\ pc \in [Client -> PC] /\ arg \in [Client -> Arg]
  /\ obj \in [Client -> {0} \cup Slot] /\ pub \in [Client -> Key \cup {NoKey}]
  /\ maxIn \in [Client -> Nat] /\ pos \in [Client -> Nat]
  /\ rc \in [Client -> Nat] /\ keyRet \in [Client -> PersHandle \cup {"0"}]
  /\ sigRet \in [Client -> {0, DigestSize}] /\ sig \in [Client -> Mac]
  /\ sess \in [Client -> [TssSession -> TssSess]]
  /\ cleared \in [Client -> 0..MaxCalls]
  /\ calls \in [Client -> 0..MaxCalls] /\ troubled \in [Client -> BOOLEAN]

(* A call on a session has one; a token that is signed in pieces has more  *)
(* left than the next piece while the loop goes round.                     *)
ArgInv(c) ==
  /\ pc[c] \in SessionPC => arg[c].i \in TssSession
  /\ pc[c] \in {"property", "hmac_start"} => pos[c] = 0
  /\ pc[c] = "hmac_start" => maxIn[c] < arg[c].size
  /\ pc[c] = "update" => pos[c] + maxIn[c] < arg[c].size
  /\ pc[c] = "complete" => pos[c] <= arg[c].size

(* The object of a call is the program's own, and what the call made it.   *)
KeyPC == {"evict", "flush"}
PiecePC == {"update", "complete"}
ObjInv(c) ==
  /\ pc[c] \in KeyPC \cup PiecePC =>
       obj[c] \in Slot /\ tpm.objs[obj[c]] # NoObj /\ tpm.objs[obj[c]].owner = c
  /\ pc[c] \in KeyPC => tpm.objs[obj[c]].key = Template[c]
  /\ pc[c] \in PiecePC =>
       /\ tpm.keys[IdKey] # NoKey /\ tpm.objs[obj[c]].key = tpm.keys[IdKey]
       /\ tpm.objs[obj[c]].data = Token(pos[c])

(* TSS_CreatePersistentKey: outPub and the handle are those of a key that  *)
(* is there to stay.                                                       *)
KeyInv(c) ==
  /\ pc[c] \in {"read_public", "create_primary", "evict", "flush"} => keyRet[c] = "0"
  /\ pc[c] \in KeyPC => pub[c] = Template[c]
  /\ pc[c] = "flush" => tpm.keys[arg[c].h] = Template[c]
  /\ keyRet[c] # "0" => tpm.keys[keyRet[c]] # NoKey /\ pub[c] = tpm.keys[keyRet[c]]

(* SignData: the key of a signature is there to stay, too.                 *)
SigInv(c) ==
  sig[c] # NoSig => /\ tpm.keys[IdKey] # NoKey
                    /\ sig[c] = [key |-> tpm.keys[IdKey], data |-> Token(arg[c].size)]

(* The one object a program without a failure has is that of its call.     *)
LeakInv(c) ==
  \A s \in Slot : tpm.objs[s] # NoObj /\ tpm.objs[s].owner = c /\ ~troubled[c]
                   => pc[c] \in KeyPC \cup PiecePC /\ obj[c] = s

(* Initialize_TPM_Codec: success means a connection, and a TPM that has    *)
(* been started or is about to be.                                         *)
StartInv(c) == rc[c] = TPM_RC_SUCCESS => comm[c] = "open" /\ (tpm.started \/ pc[c] = "startup")

(* Its flushes: the sessions of an earlier run below the one at hand are   *)
(* gone; those of this run are the younger ones.  Three flushes are enough *)
(* for a TPM that loads three sessions (MAX_LOADED_SESSIONS).              *)
OwnSession(c, n) == tpm.sess[n] # NoSession /\ tpm.sess[n].owner = c
ClearInv(c) ==
  /\ cleared[c] <= calls[c]
  /\ pc[c] = "start_session" => cleared[c] < calls[c]
  /\ pc[c] = "startup" => arg[c].n = 0
  /\ pc[c] = "flush_session" => arg[c].n < Sessions
  /\ cleared[c] > 0 /\ pc[c] = "flush_session" =>
       \A n \in SessionNumber : n < arg[c].n => ~OwnSession(c, n)
  /\ MaxSession <= Sessions /\ cleared[c] > 0 /\ pc[c] \notin {"startup", "flush_session"} =>
       \A n \in SessionNumber : OwnSession(c, n) => tpm.sess[n].nonce[2] > cleared[c]

CallInv(c) == ArgInv(c) /\ ObjInv(c) /\ KeyInv(c) /\ SigInv(c) /\ LeakInv(c) /\ StartInv(c) /\ ClearInv(c)

(* And of the TPM: before Startup it has no session, and a secret was      *)
(* shown to a session for its own nonce or for none.                       *)
TpmInv ==
  /\ Emulator \/ tpm.started
  /\ ~tpm.started => \A n \in SessionNumber : tpm.sess[n] = NoSession
  /\ \A n \in SessionNumber :
       tpm.sess[n] # NoSession => tpm.sess[n].secret \in {NoNonce, tpm.sess[n].nonce}

Inv == Typed /\ TpmInv /\ \A c \in Client : CallInv(c)

(* Numbers and sequences that the code starts from are of their types.     *)
LEMMA ConstantsTyped ==
  /\ TPM_RC_SUCCESS = 0 /\ TPM_RC_FAILURE \in Nat \ {0} /\ TPM_RC_INITIALIZE \in Nat \ {0}
  /\ BadProperty \in Nat /\ DigestSize \in Nat
  /\ NoSig \in Mac /\ NoArg \in Arg /\ MaxCalls \in Nat /\ TokenSize \subseteq Nat
  /\ \A c \in Client : Template[c] \in Key /\ Template[c] # NoKey
<1>1. << >> \in Seq(Nat)
  OBVIOUS
<1>2. NoSig \in Mac
  BY <1>1, Zenon DEF NoSig, Mac
<1>3. IdKey \in PersHandle /\ MaxCalls \in Nat /\ TokenSize \subseteq Nat
      /\ \A c \in Client : Template[c] # NoKey
  BY CodecAssumption
<1>4. NoArg \in Arg
  BY <1>3 DEF NoArg, Arg
<1>5. \A c \in Client : Template[c] \in Key
  BY DEF Key
<1>6. /\ TPM_RC_SUCCESS = 0 /\ TPM_RC_FAILURE \in Nat \ {0} /\ TPM_RC_INITIALIZE \in Nat \ {0}
      /\ BadProperty \in Nat /\ DigestSize \in Nat
  BY SMT DEF TPM_RC_SUCCESS, TPM_RC_FAILURE, TPM_RC_INITIALIZE, BadProperty, DigestSize
<1> QED BY <1>2, <1>3, <1>4, <1>5, <1>6

(* Part of a token.                                                        *)
LEMMA BytesTyped ==
  ASSUME NEW m \in Nat, NEW n \in Nat, m <= n
  PROVE  Bytes(m, n) \in Seq(Nat) /\ Len(Bytes(m, n)) = n - m
         /\ \A i \in 1..(n - m) : Bytes(m, n)[i] = m + i
BY DEF Bytes

(* A command's effect on the TPM, and the code that comes back, are of     *)
(* their types whatever was lost.                                          *)
LEMMA SentTyped ==
  ASSUME Typed, NEW c \in Client, NEW o, o.raw \in RawCode, o.tpm \in TpmState,
         NEW d \in Dispatch(c, o), Sent(c, d)
  PROVE  /\ tpm' \in TpmState /\ last' \in [Client -> Nat] /\ d.rc \in Nat
         /\ tpm' \in {tpm, o.tpm} /\ comm[c] = "open" /\ tpm' = d.tpm
         /\ d.rc = TPM_RC_SUCCESS => o.raw = TPM_RC_SUCCESS /\ tpm' = o.tpm /\ d.out = o.out
         /\ d.rc = TPM_RC_INITIALIZE => o.raw = TPM_RC_INITIALIZE /\ tpm' = o.tpm
<1>1. last[c] \in Nat
  BY DEF Typed
<1>2. /\ d.tpm \in {tpm, o.tpm} /\ d.last \in Nat /\ d.rc \in Nat
      /\ d.rc = TPM_RC_SUCCESS => o.raw = TPM_RC_SUCCESS /\ d.tpm = o.tpm /\ d.out = o.out
      /\ d.rc = TPM_RC_INITIALIZE => o.raw = TPM_RC_INITIALIZE /\ d.tpm = o.tpm
  BY <1>1, DispatchIs
<1> QED BY <1>2 DEF Sent, Set, Typed
-----------------------------------------------------------------------------
(* What one step of program c does to the TPM, as the others see it: no    *)
(* key goes, no object of theirs is touched, no session of theirs begins.  *)
Effect(c) ==
  /\ tpm.started => tpm'.started
  /\ \A h \in PersHandle : tpm.keys[h] # NoKey => tpm'.keys[h] = tpm.keys[h]
  /\ \A s \in Slot : \/ tpm'.objs[s] = tpm.objs[s]
                     \/ /\ tpm.objs[s] # NoObj => tpm.objs[s].owner = c
                        /\ tpm'.objs[s] # NoObj => tpm'.objs[s].owner = c
  /\ \A n \in SessionNumber :
       \/ tpm'.sess[n] = tpm.sess[n]
       \/ tpm'.sess[n] = NoSession
       \/ /\ tpm.started /\ tpm'.sess[n].secret \in {NoNonce, tpm'.sess[n].nonce}
          /\ \/ /\ pc[c] = "start_session"
                /\ tpm'.sess[n].owner = c /\ tpm'.sess[n].nonce = <<c, calls[c]>>
             \/ /\ tpm.sess[n] # NoSession
                /\ tpm'.sess[n].owner = tpm.sess[n].owner /\ tpm'.sess[n].nonce = tpm.sess[n].nonce

SameFor(d) ==
  /\ comm'[d] = comm[d] /\ pc'[d] = pc[d] /\ arg'[d] = arg[d] /\ obj'[d] = obj[d] /\ pub'[d] = pub[d]
  /\ maxIn'[d] = maxIn[d] /\ pos'[d] = pos[d] /\ rc'[d] = rc[d] /\ keyRet'[d] = keyRet[d]
  /\ sig'[d] = sig[d] /\ cleared'[d] = cleared[d] /\ calls'[d] = calls[d]
  /\ troubled'[d] = troubled[d]

Kept(c) == Typed' /\ Effect(c) /\ (\A d \in Client \ {c} : SameFor(d)) /\ CallInv(c)'

(* Then the others keep their invariants, and the TPM keeps its own.       *)
LEMMA OthersKept ==
  ASSUME Inv, NEW c \in Client, Kept(c)
  PROVE  Inv'
<1>1. TpmInv'
  BY DEF Inv, Kept, TpmInv, Effect
<1>2. ASSUME NEW d \in Client, d # c PROVE CallInv(d)'
  <2>1. CallInv(d) /\ SameFor(d) /\ Effect(c) /\ Typed /\ Typed'
    BY <1>2 DEF Inv, Kept
  <2>2. ArgInv(d)'
    BY <2>1 DEF CallInv, ArgInv, SameFor
  <2>3. ObjInv(d)'
    <3>1. pc[d] \in KeyPC \cup PiecePC => tpm'.objs[obj[d]] = tpm.objs[obj[d]]
      BY <1>2, <2>1 DEF CallInv, ObjInv, Effect
    <3>2. tpm.keys[IdKey] # NoKey => tpm'.keys[IdKey] = tpm.keys[IdKey]
      BY <2>1, CodecAssumption DEF Effect
    <3> QED BY <2>1, <3>1, <3>2 DEF CallInv, ObjInv, SameFor
  <2>4. KeyInv(d)'
    <3>1. arg[d].h \in PersHandle /\ keyRet[d] \in PersHandle \cup {"0"} /\ Template[d] # NoKey
      BY <2>1, ConstantsTyped DEF Typed, Arg
    <3> QED BY <2>1, <3>1 DEF CallInv, KeyInv, SameFor, Effect
  <2>5. SigInv(d)'
    <3>1. tpm.keys[IdKey] # NoKey => tpm'.keys[IdKey] = tpm.keys[IdKey]
      BY <2>1, CodecAssumption DEF Effect
    <3> QED BY <2>1, <3>1 DEF CallInv, SigInv, SameFor
  <2>6. LeakInv(d)'
    BY <1>2, <2>1 DEF CallInv, LeakInv, SameFor, Effect
  <2>7. StartInv(d)'
    BY <2>1 DEF CallInv, StartInv, SameFor, Effect
  <2>8. ClearInv(d)'
    <3>1. ASSUME NEW n \in SessionNumber, OwnSession(d, n)'
          PROVE  OwnSession(d, n) /\ tpm'.sess[n].nonce = tpm.sess[n].nonce
      BY <1>2, <2>1, <3>1 DEF Effect, OwnSession
    <3>2. ASSUME cleared'[d] > 0, pc'[d] = "flush_session", NEW n \in SessionNumber, n < arg'[d].n
          PROVE  ~OwnSession(d, n)'
      BY <2>1, <3>1, <3>2 DEF CallInv, ClearInv, SameFor
    <3>3. ASSUME MaxSession <= Sessions, cleared'[d] > 0, pc'[d] \notin {"startup", "flush_session"},
                 NEW n \in SessionNumber, OwnSession(d, n)'
          PROVE  tpm'.sess[n].nonce[2] > cleared'[d]
      BY <2>1, <3>1, <3>3 DEF CallInv, ClearInv, SameFor
    <3> QED BY <2>1, <3>2, <3>3 DEF CallInv, ClearInv, SameFor
  <2> QED BY <2>2, <2>3, <2>4, <2>5, <2>6, <2>7, <2>8 DEF CallInv
<1> QED BY <1>1, <1>2 DEF Inv, Kept
-----------------------------------------------------------------------------
(* A step that leaves the TPM alone, sets a free persistent handle, or     *)
(* puts its own object or none where nobody's was.                         *)
LEMMA EffectNone ==
  ASSUME NEW c, tpm' = tpm
  PROVE  Effect(c)
BY DEF Effect

(* One that puts a key where none was ...                                  *)
LEMMA EffectKeys ==
  ASSUME NEW c, tpm \in TpmState, NEW h, NEW k, tpm.keys[h] = NoKey,
         KeysTo(tpm, tpm', [tpm.keys EXCEPT ![h] = k])
  PROVE  Effect(c)
<1>1. ASSUME NEW g \in PersHandle, tpm.keys[g] # NoKey PROVE tpm'.keys[g] = tpm.keys[g]
  BY <1>1, TpmFields DEF KeysTo
<1> QED BY <1>1 DEF Effect, KeysTo

(* ... one that fills or frees a slot of the caller's ...                  *)
LEMMA EffectObjs ==
  ASSUME NEW c, tpm \in TpmState, NEW s \in Slot, NEW ob,
         tpm.objs[s] # NoObj => tpm.objs[s].owner = c, ob # NoObj => ob.owner = c,
         ObjsTo(tpm, tpm', [tpm.objs EXCEPT ![s] = ob])
  PROVE  Effect(c)
<1>1. ASSUME NEW r \in Slot
      PROVE  \/ tpm'.objs[r] = tpm.objs[r]
             \/ /\ tpm.objs[r] # NoObj => tpm.objs[r].owner = c
                /\ tpm'.objs[r] # NoObj => tpm'.objs[r].owner = c
  <2>1. tpm.objs \in [Slot -> Object \cup {NoObj}] /\ tpm'.objs = [tpm.objs EXCEPT ![s] = ob]
    BY TpmFields DEF ObjsTo
  <2>2. CASE r = s
    <3>1. tpm'.objs[r] = ob
      BY <2>1, <2>2
    <3> QED BY <2>2, <3>1
  <2>3. CASE r # s
    BY <2>1, <2>3
  <2> QED BY <2>2, <2>3
<1> QED BY <1>1 DEF Effect, ObjsTo

(* ... and one that starts, authorizes or closes a session of the caller's. *)
LEMMA EffectSess ==
  ASSUME NEW c, tpm \in TpmState, NEW n \in SessionNumber, NEW se,
         SessTo(tpm, tpm', [tpm.sess EXCEPT ![n] = se]),
         \/ se = NoSession
         \/ /\ tpm.started /\ se.secret \in {NoNonce, se.nonce}
            /\ \/ pc[c] = "start_session" /\ se.owner = c /\ se.nonce = <<c, calls[c]>>
               \/ /\ tpm.sess[n] # NoSession
                  /\ se.owner = tpm.sess[n].owner /\ se.nonce = tpm.sess[n].nonce
  PROVE  Effect(c)
<1>1. ASSUME NEW m \in SessionNumber
      PROVE  tpm'.sess[m] = IF m = n THEN se ELSE tpm.sess[m]
  BY TpmFields DEF SessTo
<1> QED BY <1>1 DEF Effect, SessTo

(* Between Initialize_TPM_Codec and the end of the program what it found   *)
(* stays true.                                                             *)
LEMMA StartClearKept ==
  ASSUME Inv, NEW c \in Client, Typed', Effect(c),
         pc[c] \notin {"startup", "flush_session"},
         pc'[c] \notin {"startup", "flush_session", "start_session"},
         comm'[c] = comm[c], rc'[c] = rc[c], calls'[c] = calls[c], cleared'[c] = cleared[c]
  PROVE  StartInv(c)' /\ ClearInv(c)'
<1>1. Typed /\ CallInv(c)
  BY DEF Inv
<1>2. StartInv(c)'
  BY <1>1 DEF CallInv, StartInv, Effect
<1>3. cleared[c] \in Nat /\ calls[c] \in Nat
  BY <1>1, CodecAssumption DEF Typed
<1>4. ASSUME MaxSession <= Sessions, cleared'[c] > 0, NEW n \in SessionNumber, OwnSession(c, n)'
      PROVE  tpm'.sess[n].nonce[2] > cleared'[c]
  <2>1. \/ OwnSession(c, n) /\ tpm'.sess[n].nonce = tpm.sess[n].nonce
        \/ pc[c] = "start_session" /\ tpm'.sess[n].nonce = <<c, calls[c]>>
    BY <1>4 DEF Effect, OwnSession
  <2>2. CASE OwnSession(c, n) /\ tpm'.sess[n].nonce = tpm.sess[n].nonce
    BY <1>1, <1>4, <2>2 DEF CallInv, ClearInv
  <2>3. CASE pc[c] = "start_session" /\ tpm'.sess[n].nonce = <<c, calls[c]>>
    BY <1>1, <1>3, <2>3 DEF CallInv, ClearInv
  <2> QED BY <2>1, <2>2, <2>3
<1>5. ClearInv(c)'
  BY <1>1, <1>4 DEF CallInv, ClearInv
<1> QED BY <1>2, <1>5

(* So do the key and the signature that were returned.                     *)
LEMMA ResultsKept ==
  ASSUME Inv, NEW c \in Client, Typed', Effect(c), arg'[c].size = arg[c].size
  PROVE  /\ sig'[c] = sig[c] => SigInv(c)'
         /\ keyRet'[c] = keyRet[c] /\ pub'[c] = pub[c]
              /\ pc'[c] \notin {"read_public", "create_primary", "evict", "flush"} => KeyInv(c)'
<1>1. Typed /\ CallInv(c)
  BY DEF Inv
<1>2. tpm.keys[IdKey] # NoKey => tpm'.keys[IdKey] = tpm.keys[IdKey]
  BY CodecAssumption DEF Effect
<1>3. sig'[c] = sig[c] => SigInv(c)'
  BY <1>1, <1>2 DEF CallInv, SigInv
<1>4. keyRet[c] \in PersHandle \cup {"0"}
  BY <1>1 DEF Typed
<1>5. ASSUME keyRet'[c] = keyRet[c], pub'[c] = pub[c],
             pc'[c] \notin {"read_public", "create_primary", "evict", "flush"}
      PROVE  KeyInv(c)'
  BY <1>1, <1>4, <1>5 DEF CallInv, KeyInv, KeyPC, Effect
<1> QED BY <1>3, <1>5

(* A call that fails.                                                      *)
LEMMA FailKept ==
  ASSUME Inv, NEW c \in Client, Typed', Effect(c), Fail(c),
         pc[c] \notin {"startup", "flush_session"},
         arg'[c].size = arg[c].size, sig'[c] = sig[c], keyRet'[c] = keyRet[c], pub'[c] = pub[c],
         comm'[c] = comm[c], rc'[c] = rc[c], calls'[c] = calls[c], cleared'[c] = cleared[c]
  PROVE  CallInv(c)'
<1>1. pc'[c] = "idle" /\ troubled'[c]
  BY DEF Fail, Goto, Set, Inv, Typed
<1>2. ArgInv(c)' /\ ObjInv(c)' /\ LeakInv(c)'
  BY <1>1 DEF ArgInv, SessionPC, ObjInv, KeyPC, PiecePC, LeakInv
<1>3. SigInv(c)' /\ KeyInv(c)'
  BY <1>1, ResultsKept
<1>4. StartInv(c)' /\ ClearInv(c)'
  BY <1>1, StartClearKept
<1> QED BY <1>2, <1>3, <1>4 DEF CallInv
-----------------------------------------------------------------------------
(***************************************************************************)
(* The steps that send no command.                                         *)
(***************************************************************************)
(* A new call on a connection: what Initialize_TPM_Codec found still holds,*)
(* and an earlier call left nothing behind.                                *)
LEMMA BeginKept ==
  ASSUME Inv, NEW c \in Client, Typed', NEW p, Begin(c, p), p \notin {"startup", "flush_session"},
         tpm' = tpm, comm'[c] = comm[c], rc'[c] = rc[c], cleared'[c] = cleared[c],
         troubled'[c] = troubled[c]
  PROVE  StartInv(c)' /\ ClearInv(c)' /\ LeakInv(c)'
<1>1. Typed /\ CallInv(c)
  BY DEF Inv
<1>2. pc[c] = "idle" /\ pc'[c] = p /\ calls'[c] = calls[c] + 1
  BY <1>1 DEF Begin, Goto, Set, Typed
<1>3. cleared[c] \in Nat /\ calls[c] \in Nat
  BY <1>1, CodecAssumption DEF Typed
<1>4. StartInv(c)'
  BY <1>1, <1>2 DEF CallInv, StartInv
<1>5. cleared[c] <= calls[c]
  BY <1>1 DEF CallInv, ClearInv
<1>6. ClearInv(c)'
  BY <1>1, <1>2, <1>3, <1>5 DEF CallInv, ClearInv, OwnSession
<1>7. LeakInv(c)'
  BY <1>1, <1>2 DEF CallInv, LeakInv, KeyPC, PiecePC
<1> QED BY <1>4, <1>6, <1>7

(* TSS_CreatePersistentKey begins.                                         *)
LEMMA KeyCallKept ==
  ASSUME Inv, NEW c \in Client, NEW h \in PersHandle, KeyCall(c, h)
  PROVE  Kept(c)
<1> USE DEF KeyCall
<1>1. Typed /\ CallInv(c)
  BY DEF Inv
<1>2. calls' = [calls EXCEPT ![c] = @ + 1] /\ calls' \in [Client -> 0..MaxCalls]
  BY <1>1, CodecAssumption DEF Begin, Set, Typed
<1>3. Typed'
  <2>1. [arg[c] EXCEPT !.h = h] \in Arg
    BY <1>1, ZenonT(60) DEF Typed, Arg
  <2> QED BY <1>1, <1>2, <2>1 DEF Typed, Begin, Goto, Set, PC, sessVars
<1>4. Effect(c)
  BY EffectNone
<1>5. \A d \in Client \ {c} : SameFor(d)
  BY <1>1 DEF SameFor, Typed, Begin, Goto, Set, sessVars
<1>6. StartInv(c)' /\ ClearInv(c)' /\ LeakInv(c)'
  BY <1>3, BeginKept DEF sessVars
<1>7. /\ pc'[c] = "read_public" /\ keyRet'[c] = "0" /\ arg'[c].size = arg[c].size
      /\ sig' = sig
  BY <1>1 DEF Typed, Begin, Goto, Set, Arg
<1>8. ArgInv(c)' /\ ObjInv(c)' /\ KeyInv(c)'
  BY <1>7 DEF ArgInv, SessionPC, ObjInv, KeyPC, PiecePC, KeyInv
<1>9. SigInv(c)'
  BY <1>3, <1>4, <1>7, ResultsKept
<1> QED BY <1>3, <1>4, <1>5, <1>6, <1>8, <1>9 DEF Kept, CallInv

(* SignData with a buffer that is too small.                               *)
LEMMA SignTooSmallKept ==
  ASSUME Inv, NEW c \in Client, NEW n, SignTooSmall(c, n)
  PROVE  Kept(c)
<1> USE DEF SignTooSmall
<1>1. Typed /\ CallInv(c)
  BY DEF Inv
<1>2. calls' = [calls EXCEPT ![c] = @ + 1] /\ calls' \in [Client -> 0..MaxCalls]
  BY <1>1, CodecAssumption DEF Set, Typed
<1>3. Typed'
  <2>1. NoSig \in Mac
    BY ConstantsTyped
  <2>2. sigRet' \in [Client -> {0, DigestSize}] /\ sig' \in [Client -> Mac]
    BY <1>1, <2>1 DEF Typed, Set
  <2> QED BY <1>1, <1>2, <2>2 DEF Typed, sessVars, localVars
<1>4. Effect(c)
  BY EffectNone
<1>5. \A d \in Client \ {c} : SameFor(d)
  BY <1>1 DEF SameFor, Typed, Set, sessVars, localVars
<1>6. Begin(c, "idle")
  BY <1>1 DEF Typed, Begin, Goto, Set
<1>7. StartInv(c)' /\ ClearInv(c)' /\ LeakInv(c)'
  BY <1>3, <1>6, BeginKept DEF sessVars
<1>8. pc'[c] = "idle" /\ sig'[c] = NoSig
  BY <1>1 DEF Typed, Set
<1>9. ArgInv(c)' /\ ObjInv(c)' /\ SigInv(c)'
  BY <1>8 DEF ArgInv, SessionPC, ObjInv, KeyPC, PiecePC, SigInv
<1>10. KeyInv(c)'
  BY <1>3, <1>4, <1>8, ResultsKept DEF localVars
<1> QED BY <1>3, <1>4, <1>5, <1>7, <1>9, <1>10 DEF Kept, CallInv

(* SignData begins.                                                        *)
LEMMA SignCallKept ==
  ASSUME Inv, NEW c \in Client, NEW n \in TokenSize, SignCall(c, n)
  PROVE  Kept(c)
<1> USE DEF SignCall
<1>1. Typed /\ CallInv(c)
  BY DEF Inv
<1>2. calls' = [calls EXCEPT ![c] = @ + 1] /\ calls' \in [Client -> 0..MaxCalls]
  BY <1>1, CodecAssumption DEF Begin, Set, Typed
<1>3. Typed'
  <2>1. NoSig \in Mac /\ n \in Nat
    BY ConstantsTyped
  <2>2. [arg[c] EXCEPT !.size = n, !.odd = FALSE] \in Arg
    BY <1>1, <2>1, ZenonT(60) DEF Typed, Arg
  <2> QED BY <1>1, <1>2, <2>1, <2>2 DEF Typed, Begin, Goto, Set, PC, sessVars
<1>4. Effect(c)
  BY EffectNone
<1>5. \A d \in Client \ {c} : SameFor(d)
  BY <1>1 DEF SameFor, Typed, Begin, Goto, Set, sessVars
<1>6. StartInv(c)' /\ ClearInv(c)' /\ LeakInv(c)'
  BY <1>3, BeginKept DEF sessVars
<1>7. pc'[c] = "property" /\ pos'[c] = 0 /\ sig'[c] = NoSig
  BY <1>1 DEF Typed, Begin, Goto, Set
<1>8. ArgInv(c)' /\ ObjInv(c)' /\ SigInv(c)'
  BY <1>7 DEF ArgInv, SessionPC, ObjInv, KeyPC, PiecePC, SigInv
<1>9. KeyInv(c)'
  <2>1. keyRet[c] # "0" => tpm.keys[keyRet[c]] # NoKey /\ pub[c] = tpm.keys[keyRet[c]]
    BY <1>1 DEF CallInv, KeyInv
  <2> QED BY <1>7, <2>1 DEF KeyInv, KeyPC
<1> QED BY <1>3, <1>4, <1>5, <1>6, <1>8, <1>9 DEF Kept, CallInv

(* A call on a session begins.                                             *)
LEMMA SessionCallKept ==
  ASSUME Inv, NEW c \in Client, NEW i \in TssSession,
         NEW p \in {"start_session", "policy_secret", "activate", "end_session"},
         NEW given \in BOOLEAN, SessionCall(c, i, p, given)
  PROVE  Kept(c)
<1> USE DEF SessionCall
<1>1. Typed /\ CallInv(c)
  BY DEF Inv
<1>2. calls' = [calls EXCEPT ![c] = @ + 1] /\ calls' \in [Client -> 0..MaxCalls]
  BY <1>1, CodecAssumption DEF Begin, Set, Typed
<1>3. [NoArg EXCEPT !.i = i, !.given = given] \in Arg
      /\ [NoArg EXCEPT !.i = i, !.given = given].i = i
  BY CodecAssumption DEF NoArg, Arg
<1>4. Typed'
  BY <1>1, <1>2, <1>3, ConstantsTyped DEF Typed, Begin, Goto, Set, PC, sessVars
<1>5. Effect(c)
  BY EffectNone
<1>6. \A d \in Client \ {c} : SameFor(d)
  BY <1>1 DEF SameFor, Typed, Begin, Goto, Set, sessVars
<1>7. StartInv(c)' /\ ClearInv(c)' /\ LeakInv(c)'
  BY <1>4, BeginKept DEF sessVars
<1>8. pc'[c] = p /\ arg'[c].i = i /\ sig'[c] = NoSig
  BY <1>1, <1>3 DEF Typed, Begin, Goto, Set
<1>9. ArgInv(c)' /\ ObjInv(c)' /\ SigInv(c)'
  BY <1>8 DEF ArgInv, SessionPC, ObjInv, KeyPC, PiecePC, SigInv
<1>10. KeyInv(c)'
  <2>1. keyRet[c] # "0" => tpm.keys[keyRet[c]] # NoKey /\ pub[c] = tpm.keys[keyRet[c]]
    BY <1>1 DEF CallInv, KeyInv
  <2> QED BY <1>8, <2>1 DEF KeyInv, KeyPC
<1> QED BY <1>4, <1>5, <1>6, <1>7, <1>9, <1>10 DEF Kept, CallInv

(***************************************************************************)
(* Initialize_TPM_Codec, Deinit_TPM_Codec and the death of a program.      *)
(***************************************************************************)
LEMMA InitConnectsKept ==
  ASSUME Inv, NEW c \in Client, InitConnects(c)
  PROVE  Kept(c)
<1> USE DEF InitConnects
<1>1. Typed /\ CallInv(c) /\ TpmInv
  BY DEF Inv
<1>2. /\ calls' = [calls EXCEPT ![c] = @ + 1] /\ calls' \in [Client -> 0..MaxCalls]
      /\ cleared' = [cleared EXCEPT ![c] = calls[c] + 1] /\ cleared' \in [Client -> 0..MaxCalls]
  BY <1>1, CodecAssumption DEF Begin, Set, Typed
<1>3. [arg[c] EXCEPT !.n = 0] \in Arg /\ [arg[c] EXCEPT !.n = 0].n = 0
      /\ [arg[c] EXCEPT !.n = 0].size = arg[c].size
  BY <1>1, ZenonT(60) DEF Typed, Arg
<1>4. Typed'
  <2>1. TPM_RC_SUCCESS \in Nat
    BY ConstantsTyped
  <2> QED BY <1>1, <1>2, <1>3, <2>1 DEF Typed, Begin, Goto, Set, PC
<1>5. Effect(c)
  BY EffectNone
<1>6. \A d \in Client \ {c} : SameFor(d)
  BY <1>1, <1>2 DEF SameFor, Typed, Begin, Goto, Set
<1>7. /\ pc[c] = "idle" /\ pc'[c] = IF Emulator THEN "startup" ELSE "flush_session"
      /\ comm'[c] = "open" /\ rc'[c] = TPM_RC_SUCCESS /\ arg'[c].n = 0
      /\ arg'[c].size = arg[c].size /\ cleared'[c] = calls'[c] /\ calls[c] \in Nat /\ calls'[c] \in Nat
  BY <1>1, <1>2, <1>3, CodecAssumption DEF Typed, Begin, Goto, Set
<1>8. ArgInv(c)' /\ ObjInv(c)'
  BY <1>7 DEF ArgInv, SessionPC, ObjInv, KeyPC, PiecePC
<1>9. SigInv(c)' /\ KeyInv(c)'
  BY <1>4, <1>5, <1>7, ResultsKept
<1>10. LeakInv(c)'
  BY <1>1, <1>7 DEF CallInv, LeakInv, KeyPC, PiecePC
<1>11. StartInv(c)'
  BY <1>1, <1>7 DEF TpmInv, StartInv
<1>12. ClearInv(c)'
  BY <1>7 DEF ClearInv, SessionNumber, Sessions
<1> QED BY <1>4, <1>5, <1>6, <1>8, <1>9, <1>10, <1>11, <1>12 DEF Kept, CallInv

(* No step but TPM2_StartAuthSession gives a program a session.            *)
LEMMA NoNewSession ==
  ASSUME NEW c \in Client, Effect(c), pc[c] # "start_session"
  PROVE  \A n \in SessionNumber : OwnSession(c, n)' => /\ OwnSession(c, n)
                                                       /\ tpm'.sess[n].nonce = tpm.sess[n].nonce
BY DEF Effect, OwnSession

(* Initialize_TPM_Codec finds no TPM.                                      *)
LEMMA InitNoConnectionKept ==
  ASSUME Inv, NEW c \in Client, InitNoConnection(c)
  PROVE  Kept(c)
<1> USE DEF InitNoConnection
<1>1. Typed /\ CallInv(c)
  BY DEF Inv
<1>2. calls' = [calls EXCEPT ![c] = @ + 1] /\ calls' \in [Client -> 0..MaxCalls]
  BY <1>1, CodecAssumption DEF Set, Typed
<1>3. Typed'
  <2>1. TPM_RC_FAILURE \in Nat
    BY ConstantsTyped
  <2> QED BY <1>1, <1>2, <2>1 DEF Typed, Fail, Goto, Set, PC, sessVars, localVars
<1>4. Effect(c)
  BY EffectNone
<1>5. \A d \in Client \ {c} : SameFor(d)
  BY <1>1 DEF SameFor, Typed, Fail, Goto, Set, sessVars, localVars
<1>6. /\ pc[c] = "idle" /\ pc'[c] = "idle" /\ rc'[c] # TPM_RC_SUCCESS /\ troubled'[c]
      /\ arg'[c].size = arg[c].size /\ cleared'[c] = cleared[c] /\ calls'[c] = calls[c] + 1
      /\ cleared[c] \in Nat /\ calls[c] \in Nat
  BY <1>1, CodecAssumption, ConstantsTyped DEF Typed, Fail, Goto, Set, sessVars, localVars
<1>7. ArgInv(c)' /\ ObjInv(c)' /\ LeakInv(c)' /\ StartInv(c)'
  BY <1>6 DEF ArgInv, SessionPC, ObjInv, KeyPC, PiecePC, LeakInv, StartInv
<1>8. SigInv(c)' /\ KeyInv(c)'
  BY <1>3, <1>4, <1>6, ResultsKept DEF localVars
<1>9. ClearInv(c)'
  BY <1>1, <1>6 DEF CallInv, ClearInv, OwnSession
<1> QED BY <1>3, <1>4, <1>5, <1>7, <1>8, <1>9 DEF Kept, CallInv

(* A resource manager that closes the connection.                          *)
LEMMA Closed ==
  ASSUME NEW c \in Client, tpm \in TpmState,
         tpm' = IF ResourceManager THEN Unload(tpm, c) ELSE tpm
  PROVE  /\ tpm' \in TpmState /\ Effect(c)
         /\ \A s \in Slot : tpm'.objs[s] = tpm.objs[s] \/ tpm'.objs[s] = NoObj
<1>1. CASE ResourceManager
  <2>1. tpm' = Unload(tpm, c)
    BY <1>1
  <2>2. /\ tpm' \in TpmState
        /\ tpm'.started = tpm.started /\ tpm'.keys = tpm.keys
        /\ \A s \in Slot : /\ tpm'.objs[s] = tpm.objs[s] \/ tpm'.objs[s] = NoObj
                           /\ tpm.objs[s] # NoObj => (tpm.objs[s].owner = c <=> tpm'.objs[s] = NoObj)
        /\ \A n \in SessionNumber : tpm'.sess[n] = tpm.sess[n] \/ tpm'.sess[n] = NoSession
    BY <2>1, UnloadIs
  <2> QED BY <2>2 DEF Effect
<1>2. CASE ~ResourceManager
  BY <1>2, EffectNone
<1> QED BY <1>1, <1>2

(* Deinit_TPM_Codec gives the connection back.                             *)
LEMMA DeinitKept ==
  ASSUME Inv, NEW c \in Client, Deinit(c)
  PROVE  Kept(c)
<1> USE DEF Deinit
<1>1. Typed /\ CallInv(c)
  BY DEF Inv
<1>2. /\ tpm' \in TpmState /\ Effect(c)
      /\ \A s \in Slot : tpm'.objs[s] = tpm.objs[s] \/ tpm'.objs[s] = NoObj
  BY <1>1, Closed DEF Typed
<1>3. Typed'
  <2>1. TPM_RC_FAILURE \in Nat
    BY ConstantsTyped
  <2> QED BY <1>1, <1>2, <2>1 DEF Typed, Set, sessVars, localVars
<1>4. \A d \in Client \ {c} : SameFor(d)
  BY <1>1 DEF SameFor, Typed, Set, sessVars, localVars
<1>5. /\ pc[c] = "idle" /\ pc' = pc /\ rc'[c] # TPM_RC_SUCCESS /\ troubled' = troubled
      /\ arg' = arg /\ cleared' = cleared /\ calls' = calls
  BY <1>1, ConstantsTyped DEF Typed, Set, sessVars, localVars
<1>6. ArgInv(c)' /\ ObjInv(c)' /\ StartInv(c)'
  BY <1>5 DEF ArgInv, SessionPC, ObjInv, KeyPC, PiecePC, StartInv
<1>7. LeakInv(c)'
  BY <1>1, <1>2, <1>5 DEF CallInv, LeakInv, KeyPC, PiecePC
<1>8. SigInv(c)' /\ KeyInv(c)'
  BY <1>2, <1>3, <1>5, ResultsKept DEF localVars
<1>9. ClearInv(c)'
  BY <1>1, <1>2, <1>5, NoNewSession DEF CallInv, ClearInv
<1> QED BY <1>2, <1>3, <1>4, <1>6, <1>7, <1>8, <1>9 DEF Kept, CallInv

(* The process dies; what it has in the TPM stays there.                   *)
LEMMA CrashKept ==
  ASSUME Inv, NEW c \in Client, Crash(c)
  PROVE  Kept(c)
<1> USE DEF Crash
<1>1. Typed
  BY DEF Inv
<1>2. tpm' \in TpmState /\ Effect(c)
  BY <1>1, Closed DEF Typed
<1>3. Typed'
  <2>1. /\ TPM_RC_SUCCESS \in Nat /\ TPM_RC_FAILURE \in Nat /\ NoArg \in Arg /\ NoSig \in Mac
        /\ MaxCalls \in Nat
    BY ConstantsTyped
  <2>2. [i \in TssSession |-> NotStarted] \in [TssSession -> TssSess]
    BY DEF TssSess
  <2>3. sess' \in [Client -> [TssSession -> TssSess]] /\ cleared' \in [Client -> 0..MaxCalls]
    BY <1>1, <2>1, <2>2 DEF Typed, Set
  <2>4. sig' \in [Client -> Mac] /\ arg' \in [Client -> Arg]
    BY <1>1, <2>1 DEF Typed, Set
  <2>5. pub' \in [Client -> Key \cup {NoKey}] /\ keyRet' \in [Client -> PersHandle \cup {"0"}]
    BY <1>1 DEF Typed, Set
  <2> QED BY <1>1, <1>2, <2>1, <2>3, <2>4, <2>5 DEF Typed, Goto, Set, PC
<1>4. \A d \in Client \ {c} : SameFor(d)
  BY <1>1 DEF SameFor, Typed, Goto, Set
<1>5. /\ pc'[c] = "idle" /\ rc'[c] # TPM_RC_SUCCESS /\ troubled'[c] /\ sig'[c] = NoSig
      /\ keyRet'[c] = "0" /\ cleared'[c] = 0 /\ calls'[c] \in Nat
  BY <1>1, CodecAssumption, ConstantsTyped DEF Typed, Goto, Set
<1>6. ArgInv(c)' /\ ObjInv(c)' /\ KeyInv(c)' /\ SigInv(c)' /\ LeakInv(c)' /\ StartInv(c)'
  BY <1>5 DEF ArgInv, SessionPC, ObjInv, KeyPC, PiecePC, KeyInv, SigInv, LeakInv, StartInv
<1>7. ClearInv(c)'
  BY <1>5 DEF ClearInv
<1> QED BY <1>2, <1>3, <1>4, <1>6, <1>7 DEF Kept, CallInv

(* Initialize_TPM_Codec starts the TPM.                                    *)
LEMMA InitStartupKept ==
  ASSUME Inv, NEW c \in Client, InitStartup(c)
  PROVE  Kept(c)
<1>1. Typed /\ CallInv(c) /\ tpm \in TpmState /\ pc[c] = "startup"
  BY DEF Inv, Typed, InitStartup
<1>2. PICK d \in Dispatch(c, Startup(tpm)) :
        /\ Sent(c, d) /\ Goto(c, "flush_session")
        /\ IF d.rc \in {TPM_RC_SUCCESS, TPM_RC_INITIALIZE}
             THEN Set(rc, c, TPM_RC_SUCCESS) /\ UNCHANGED <<comm, troubled>>
             ELSE Set(rc, c, d.rc) /\ Set(comm, c, "freed") /\ Set(troubled, c, TRUE)
  BY DEF InitStartup
<1>3. UNCHANGED <<arg, obj, pub, maxIn, pos, sess, cleared, keyRet, sigRet, sig, calls>>
  BY DEF InitStartup, localVars, sessVars
<1> DEFINE o == Startup(tpm)
<1>4. /\ o.raw \in RawCode
      /\ \/ o.raw = TPM_RC_INITIALIZE /\ o.tpm = tpm /\ tpm.started
         \/ /\ o.raw = TPM_RC_SUCCESS /\ o.tpm \in TpmState /\ o.tpm.started
            /\ o.tpm.keys = tpm.keys /\ o.tpm.objs = tpm.objs
            /\ o.tpm.sess = tpm.sess /\ o.tpm.limit = tpm.limit
  BY <1>1, StartupIs
<1> HIDE DEF o
<1>5. /\ tpm' \in TpmState /\ last' \in [Client -> Nat] /\ d.rc \in Nat
      /\ tpm' \in {tpm, o.tpm} /\ comm[c] = "open"
      /\ d.rc = TPM_RC_SUCCESS => tpm' = o.tpm
      /\ d.rc = TPM_RC_INITIALIZE => o.raw = TPM_RC_INITIALIZE /\ tpm' = o.tpm
  BY <1>1, <1>2, <1>4, SentTyped DEF o
<1>6. Effect(c) /\ tpm'.objs = tpm.objs
  BY <1>4, <1>5 DEF Effect
<1>7. d.rc \in {TPM_RC_SUCCESS, TPM_RC_INITIALIZE} => tpm'.started
  BY <1>4, <1>5
<1>8. Typed'
  <2>1. rc' \in [Client -> Nat] /\ comm' \in [Client -> {"null", "open", "freed"}]
        /\ troubled' \in [Client -> BOOLEAN] /\ pc' \in [Client -> PC]
    <3>1. TPM_RC_SUCCESS \in Nat /\ d.rc \in Nat
      BY <1>5, ConstantsTyped
    <3>2. CASE d.rc \in {TPM_RC_SUCCESS, TPM_RC_INITIALIZE}
      BY <1>1, <1>2, <3>1, <3>2 DEF Typed, Goto, Set, PC
    <3>3. CASE d.rc \notin {TPM_RC_SUCCESS, TPM_RC_INITIALIZE}
      BY <1>1, <1>2, <3>1, <3>3 DEF Typed, Goto, Set, PC
    <3> QED BY <3>2, <3>3
  <2> QED BY <1>1, <1>3, <1>5, <2>1 DEF Typed
<1>9. \A e \in Client \ {c} : SameFor(e)
  BY <1>1, <1>2, <1>3 DEF SameFor, Typed, Goto, Set
<1>10. /\ pc'[c] = "flush_session" /\ arg'[c].size = arg[c].size
       /\ rc'[c] = TPM_RC_SUCCESS => comm'[c] = "open" /\ tpm'.started
       /\ troubled[c] => troubled'[c]
  BY <1>1, <1>2, <1>3, <1>5, <1>7 DEF Typed, Goto, Set
<1>11. ArgInv(c)' /\ ObjInv(c)' /\ StartInv(c)'
  BY <1>10 DEF ArgInv, SessionPC, ObjInv, KeyPC, PiecePC, StartInv
<1>12. SigInv(c)' /\ KeyInv(c)'
  <2>1. /\ sig'[c] = sig[c] /\ keyRet'[c] = keyRet[c] /\ pub'[c] = pub[c]
        /\ pc'[c] \notin {"read_public", "create_primary", "evict", "flush"}
    BY <1>3, <1>10
  <2> QED BY <1>6, <1>8, <1>10, <2>1, ResultsKept
<1>13. LeakInv(c)'
  BY <1>1, <1>6, <1>10 DEF CallInv, LeakInv, KeyPC, PiecePC
<1>14. ClearInv(c)'
  BY <1>1, <1>3, <1>10 DEF CallInv, ClearInv, SessionNumber, Sessions
<1> QED BY <1>6, <1>8, <1>9, <1>11, <1>12, <1>13, <1>14 DEF Kept, CallInv

(* From one flush to the next.                                             *)
LEMMA NextFlushIs ==
  ASSUME Typed, NEW c \in Client, pc[c] = "flush_session", NextFlush(c)
  PROVE  /\ arg' \in [Client -> Arg] /\ pc' \in [Client -> PC] /\ arg'[c].size = arg[c].size
         /\ \A e \in Client \ {c} : arg'[e] = arg[e] /\ pc'[e] = pc[e]
         /\ \/ arg[c].n + 1 < Sessions /\ arg'[c].n = arg[c].n + 1 /\ pc'[c] = "flush_session"
            \/ ~(arg[c].n + 1 < Sessions) /\ pc'[c] = "idle"
<1>1. CASE arg[c].n + 1 < Sessions
  <2>1. arg' = [arg EXCEPT ![c] = [arg[c] EXCEPT !.n = @ + 1]] /\ pc' = pc
    BY <1>1 DEF NextFlush, Set
  <2>2. [arg[c] EXCEPT !.n = @ + 1] \in Arg /\ [arg[c] EXCEPT !.n = @ + 1].n = arg[c].n + 1
        /\ [arg[c] EXCEPT !.n = @ + 1].size = arg[c].size
    <3>1. arg[c] \in Arg
      BY DEF Typed
    <3> QED BY <3>1 DEF Arg
  <2> QED BY <1>1, <2>1, <2>2 DEF Typed
<1>2. CASE ~(arg[c].n + 1 < Sessions)
  BY <1>2 DEF NextFlush, Goto, Set, Typed, PC
<1> QED BY <1>1, <1>2

(* Initialize_TPM_Codec flushes a session that a run before may have left. *)
LEMMA InitFlushKept ==
  ASSUME Inv, NEW c \in Client, InitFlush(c)
  PROVE  Kept(c)
<1> DEFINE o == FlushSession(tpm, arg[c].n)
<1>1. Typed /\ CallInv(c) /\ TpmInv /\ tpm \in TpmState /\ pc[c] = "flush_session"
  BY DEF Inv, Typed, InitFlush
<1>2. PICK d \in Dispatch(c, o) :
        /\ Sent(c, d) /\ NextFlush(c)
        /\ Set(cleared, c, IF d.tpm = o.tpm THEN cleared[c] ELSE 0)
  BY DEF InitFlush
<1>3. UNCHANGED <<sess, comm, obj, pub, maxIn, pos, rc, keyRet, sigRet, sig, calls, troubled>>
  BY DEF InitFlush, retVars
<1>4. \/ Refused(tpm, o) /\ (tpm.started => arg[c].n \notin OpenSessions(tpm))
      \/ /\ Done(tpm, o) /\ arg[c].n \in SessionNumber
         /\ SessTo(tpm, o.tpm, [tpm.sess EXCEPT ![arg[c].n] = NoSession])
  BY <1>1, FlushSessionIs
<1> HIDE DEF o
<1>5. o.raw \in RawCode /\ o.tpm \in TpmState
  BY <1>1, <1>4 DEF Refused, Done, SessTo, RawCode
<1>6. /\ tpm' \in TpmState /\ last' \in [Client -> Nat] /\ tpm' = d.tpm /\ tpm' \in {tpm, o.tpm}
  BY <1>1, <1>2, <1>5, SentTyped
<1>7. Effect(c) /\ tpm'.objs = tpm.objs
  <2>1. CASE tpm' = tpm
    BY <2>1, EffectNone
  <2>2. CASE tpm' # tpm
    <3>1. arg[c].n \in SessionNumber /\ SessTo(tpm, tpm', [tpm.sess EXCEPT ![arg[c].n] = NoSession])
      BY <1>4, <1>6, <2>2 DEF Refused
    <3> QED BY <1>1, <3>1, EffectSess DEF SessTo
  <2> QED BY <2>1, <2>2
<1>8. /\ arg' \in [Client -> Arg] /\ pc' \in [Client -> PC] /\ arg'[c].size = arg[c].size
      /\ \A e \in Client \ {c} : arg'[e] = arg[e] /\ pc'[e] = pc[e]
      /\ \/ arg[c].n + 1 < Sessions /\ arg'[c].n = arg[c].n + 1 /\ pc'[c] = "flush_session"
         \/ ~(arg[c].n + 1 < Sessions) /\ pc'[c] = "idle"
  BY <1>1, <1>2, NextFlushIs
<1>9. /\ cleared' \in [Client -> 0..MaxCalls] /\ \A e \in Client \ {c} : cleared'[e] = cleared[e]
      /\ cleared'[c] = IF tpm' = o.tpm THEN cleared[c] ELSE 0
  BY <1>1, <1>2, <1>6, ConstantsTyped DEF Typed, Set
<1>10. Typed'
  BY <1>1, <1>3, <1>6, <1>8, <1>9 DEF Typed
<1>11. \A e \in Client \ {c} : SameFor(e)
  BY <1>3, <1>8, <1>9 DEF SameFor
<1>12. ArgInv(c)' /\ ObjInv(c)'
  BY <1>8 DEF ArgInv, SessionPC, ObjInv, KeyPC, PiecePC
<1>13. SigInv(c)' /\ KeyInv(c)'
  BY <1>3, <1>7, <1>8, <1>10, ResultsKept
<1>14. LeakInv(c)'
  BY <1>1, <1>3, <1>7 DEF CallInv, LeakInv, KeyPC, PiecePC
<1>15. StartInv(c)'
  BY <1>1, <1>3, <1>7 DEF CallInv, StartInv, Effect
<1>16. arg[c].n \in Nat /\ arg[c].n < Sessions /\ calls[c] \in Nat /\ cleared[c] \in Nat
       /\ cleared[c] <= calls[c]
  BY <1>1, CodecAssumption DEF CallInv, ClearInv, Typed, Arg
<1>17. ASSUME cleared'[c] > 0, NEW n \in SessionNumber, n < arg[c].n + 1
       PROVE  ~OwnSession(c, n)'
  <2>1. tpm' = o.tpm /\ cleared[c] > 0
    BY <1>9, <1>17
  <2>2. CASE n < arg[c].n
    <3>1. ~OwnSession(c, n)
      BY <1>1, <2>1, <2>2 DEF CallInv, ClearInv
    <3> QED BY <1>1, <1>7, <3>1, NoNewSession
  <2>3. CASE n = arg[c].n
    <3>1. CASE SessTo(tpm, o.tpm, [tpm.sess EXCEPT ![arg[c].n] = NoSession])
      <4>1. tpm'.sess[n] = NoSession
        BY <1>1, <2>1, <2>3, <3>1, TpmFields DEF SessTo
      <4> QED BY <4>1 DEF OwnSession
    <3>2. CASE Refused(tpm, o) /\ (tpm.started => arg[c].n \notin OpenSessions(tpm))
      <4>1. tpm.sess[n] = NoSession /\ tpm' = tpm
        BY <1>1, <2>1, <2>3, <3>2 DEF OpenSessions, TpmInv, Refused
      <4> QED BY <4>1 DEF OwnSession
    <3> QED BY <1>4, <3>1, <3>2
  <2>4. n \in Nat
    BY DEF SessionNumber
  <2> QED BY <1>16, <1>17, <2>2, <2>3, <2>4
<1>18. ASSUME MaxSession <= Sessions, cleared'[c] > 0, pc'[c] # "flush_session",
              NEW n \in SessionNumber
       PROVE  ~OwnSession(c, n)'
  <2>1. n < arg[c].n + 1
    BY <1>8, <1>16, <1>18, CodecAssumption DEF SessionNumber, Sessions
  <2> QED BY <1>17, <1>18, <2>1
<1>19. ClearInv(c)'
  <2>1. cleared'[c] <= calls'[c] /\ pc'[c] \notin {"start_session", "startup"}
    BY <1>3, <1>8, <1>9, <1>16
  <2>2. pc'[c] = "flush_session" => arg'[c].n < Sessions /\ arg'[c].n = arg[c].n + 1
    BY <1>8
  <2> QED BY <1>17, <1>18, <2>1, <2>2 DEF ClearInv
<1> QED BY <1>7, <1>10, <1>11, <1>12, <1>13, <1>14, <1>15, <1>19 DEF Kept, CallInv

(* It goes on doing so after the connection has been freed.                *)
LEMMA InitFlushFreedKept ==
  ASSUME Inv, NEW c \in Client, InitFlushFreed(c)
  PROVE  Kept(c)
<1>1. Typed /\ CallInv(c) /\ pc[c] = "flush_session" /\ comm[c] = "freed"
  BY DEF Inv, InitFlushFreed
<1>2. /\ UNCHANGED <<sess, tpm, comm, last, obj, pub, maxIn, pos, rc, keyRet, sigRet, sig, calls,
                    troubled>>
      /\ Set(cleared, c, 0)
  BY DEF InitFlushFreed, retVars
<1>3. /\ arg' \in [Client -> Arg] /\ pc' \in [Client -> PC] /\ arg'[c].size = arg[c].size
      /\ \A e \in Client \ {c} : arg'[e] = arg[e] /\ pc'[e] = pc[e]
      /\ pc'[c] \in {"aborted", "flush_session", "idle"}
      /\ pc'[c] = "flush_session" => arg'[c].n < Sessions
  <2>1. CASE Goto(c, "aborted") /\ UNCHANGED arg
    BY <1>1, <2>1 DEF Goto, Set, Typed, PC
  <2>2. CASE NextFlush(c)
    BY <1>1, <2>2, NextFlushIs
  <2> QED BY <2>1, <2>2 DEF InitFlushFreed
<1>4. Typed'
  <2>1. cleared' \in [Client -> 0..MaxCalls]
    BY <1>1, <1>2, ConstantsTyped DEF Typed, Set
  <2> QED BY <1>1, <1>2, <1>3, <2>1 DEF Typed
<1>5. Effect(c)
  BY <1>2, EffectNone
<1>6. \A e \in Client \ {c} : SameFor(e)
  BY <1>1, <1>2, <1>3 DEF SameFor, Typed, Set
<1>7. rc'[c] # TPM_RC_SUCCESS /\ cleared'[c] = 0 /\ calls'[c] \in Nat
  BY <1>1, <1>2, CodecAssumption DEF CallInv, StartInv, Typed, Set
<1>8. ArgInv(c)' /\ ObjInv(c)' /\ StartInv(c)'
  BY <1>3, <1>7 DEF ArgInv, SessionPC, ObjInv, KeyPC, PiecePC, StartInv
<1>9. SigInv(c)' /\ KeyInv(c)'
  BY <1>2, <1>3, <1>4, <1>5, ResultsKept
<1>10. LeakInv(c)'
  BY <1>1, <1>2 DEF CallInv, LeakInv, KeyPC, PiecePC
<1>11. ClearInv(c)'
  BY <1>3, <1>7 DEF ClearInv
<1> QED BY <1>4, <1>5, <1>6, <1>8, <1>9, <1>10, <1>11 DEF Kept, CallInv
-----------------------------------------------------------------------------
(***************************************************************************)
(* TSS_CreatePersistentKey.                                                *)
(***************************************************************************)
(* What its commands leave alone.                                          *)
LEMMA KeySame ==
  ASSUME Inv, NEW c \in Client, KeyUnchanged, pc[c] \notin {"startup", "flush_session"},
         Typed', Effect(c), pc'[c] \notin {"startup", "flush_session", "start_session"}
  PROVE  StartInv(c)' /\ ClearInv(c)' /\ SigInv(c)'
BY StartClearKept, ResultsKept DEF KeyUnchanged, sessVars

(* A step of TSS_CreatePersistentKey fails, and the call with it.          *)
LEMMA KeyFails ==
  ASSUME Inv, NEW c \in Client, KeyUnchanged, pc[c] \notin {"startup", "flush_session"},
         Effect(c), tpm' \in TpmState, last' \in [Client -> Nat], Fail(c),
         UNCHANGED <<obj, pub, keyRet>>
  PROVE  Kept(c)
<1>1. Typed
  BY DEF Inv
<1>2. Typed'
  BY <1>1 DEF Typed, KeyUnchanged, sessVars, Fail, Goto, Set, PC
<1>3. \A e \in Client \ {c} : SameFor(e)
  BY <1>1 DEF SameFor, Typed, KeyUnchanged, sessVars, Fail, Goto, Set
<1>4. CallInv(c)'
  BY <1>2, FailKept DEF KeyUnchanged, sessVars
<1> QED BY <1>2, <1>3, <1>4 DEF Kept

(* TSS_CreatePersistentKey looks whether the key is there.                 *)
LEMMA KeyReadPublicKept ==
  ASSUME Inv, NEW c \in Client, KeyReadPublic(c)
  PROVE  Kept(c)
<1> DEFINE o == ReadPublic(tpm, arg[c].h)
<1>1. Typed /\ CallInv(c) /\ tpm \in TpmState /\ pc[c] = "read_public" /\ KeyUnchanged /\ obj' = obj
      /\ arg[c].h \in PersHandle
  BY DEF Inv, Typed, KeyReadPublic, Arg
<1>2. PICK d \in Dispatch(c, o) :
        /\ Sent(c, d)
        /\ \/ d.rc = TPM_RC_SUCCESS
              /\ Succeed(c) /\ Set(keyRet, c, arg[c].h) /\ Set(pub, c, d.out[1])
           \/ Goto(c, "create_primary") /\ UNCHANGED <<keyRet, pub, troubled>>
           \/ Fail(c) /\ UNCHANGED <<keyRet, pub>>
  BY Zenon DEF KeyReadPublic
<1>3. \/ Refused(tpm, o)
      \/ Done(tpm, o) /\ o.tpm = tpm /\ tpm.keys[arg[c].h] # NoKey /\ o.out = <<tpm.keys[arg[c].h]>>
  BY <1>1, ReadPublicIs
<1> HIDE DEF o
<1>4. o.raw \in RawCode /\ o.tpm \in TpmState
  BY <1>1, <1>3 DEF Refused, Done, RawCode
<1>5. /\ tpm' = tpm /\ last' \in [Client -> Nat]
      /\ d.rc = TPM_RC_SUCCESS => o.raw = TPM_RC_SUCCESS /\ d.out = o.out
  BY <1>1, <1>2, <1>3, <1>4, SentTyped DEF Refused
<1>6. Effect(c)
  BY <1>5, EffectNone
<1>7. CASE Fail(c) /\ UNCHANGED <<keyRet, pub>>
  BY <1>1, <1>5, <1>6, <1>7, KeyFails
<1>8. CASE Goto(c, "create_primary") /\ UNCHANGED <<keyRet, pub, troubled>>
  <2>1. Typed'
    BY <1>1, <1>5, <1>8 DEF Typed, KeyUnchanged, sessVars, Goto, Set, PC
  <2>2. \A e \in Client \ {c} : SameFor(e)
    BY <1>1, <1>8 DEF SameFor, Typed, KeyUnchanged, sessVars, Goto, Set
  <2>3. pc'[c] = "create_primary"
    BY <1>1, <1>8 DEF Typed, Goto, Set
  <2>4. StartInv(c)' /\ ClearInv(c)' /\ SigInv(c)'
    BY <1>1, <1>6, <2>1, <2>3, KeySame
  <2>5. ArgInv(c)' /\ ObjInv(c)' /\ KeyInv(c)'
    BY <1>1, <1>8, <2>3 DEF ArgInv, SessionPC, ObjInv, KeyPC, PiecePC, CallInv, KeyInv
  <2>6. LeakInv(c)'
    BY <1>1, <1>5, <1>8 DEF CallInv, LeakInv, KeyPC, PiecePC
  <2> QED BY <1>6, <2>1, <2>2, <2>4, <2>5, <2>6 DEF Kept, CallInv
<1>9. CASE d.rc = TPM_RC_SUCCESS /\ Succeed(c) /\ Set(keyRet, c, arg[c].h) /\ Set(pub, c, d.out[1])
  <2>1. d.out[1] = tpm.keys[arg[c].h] /\ tpm.keys[arg[c].h] \in Key /\ tpm.keys[arg[c].h] # NoKey
    BY <1>1, <1>3, <1>5, <1>9, TpmFields DEF Refused
  <2>2. Typed'
    BY <1>1, <1>5, <1>9, <2>1 DEF Typed, KeyUnchanged, sessVars, Succeed, Goto, Set, PC
  <2>3. \A e \in Client \ {c} : SameFor(e)
    BY <1>1, <1>9 DEF SameFor, Typed, KeyUnchanged, sessVars, Succeed, Goto, Set
  <2>4. pc'[c] = "idle" /\ keyRet'[c] = arg[c].h /\ pub'[c] = tpm.keys[arg[c].h] /\ troubled' = troubled
    BY <1>1, <1>9, <2>1 DEF Typed, Succeed, Goto, Set
  <2>5. StartInv(c)' /\ ClearInv(c)' /\ SigInv(c)'
    BY <1>1, <1>6, <2>2, <2>4, KeySame
  <2>6. ArgInv(c)' /\ ObjInv(c)' /\ KeyInv(c)'
    BY <1>5, <2>1, <2>4 DEF ArgInv, SessionPC, ObjInv, KeyPC, PiecePC, KeyInv
  <2>7. LeakInv(c)'
    BY <1>1, <1>5, <2>4 DEF CallInv, LeakInv, KeyPC, PiecePC
  <2> QED BY <1>6, <2>2, <2>3, <2>5, <2>6, <2>7 DEF Kept, CallInv
<1> QED BY <1>2, <1>7, <1>8, <1>9

(* It makes the key.                                                       *)
LEMMA KeyCreatePrimaryKept ==
  ASSUME Inv, NEW c \in Client, KeyCreatePrimary(c)
  PROVE  Kept(c)
<1> DEFINE o == CreatePrimary(tpm, c, Template[c])
           ob == [kind |-> "key", key |-> Template[c], data |-> << >>, owner |-> c]
<1>1. Typed /\ CallInv(c) /\ tpm \in TpmState /\ pc[c] = "create_primary" /\ KeyUnchanged
      /\ keyRet' = keyRet
  BY DEF Inv, Typed, KeyCreatePrimary
<1>2. PICK d \in Dispatch(c, o) :
        /\ Sent(c, d)
        /\ \/ /\ d.rc = TPM_RC_SUCCESS /\ Goto(c, "evict") /\ Set(obj, c, d.out[1])
              /\ Set(pub, c, Template[c]) /\ UNCHANGED troubled
           \/ Fail(c) /\ UNCHANGED <<obj, pub>>
  BY Zenon DEF KeyCreatePrimary
<1>3. \/ Refused(tpm, o)
      \/ /\ Done(tpm, o)
         /\ \E s \in Slot : /\ tpm.objs[s] = NoObj /\ o.out = <<s>>
                            /\ ObjsTo(tpm, o.tpm, [tpm.objs EXCEPT ![s] = ob])
  BY <1>1, CreatePrimaryIs
<1>4. ob.owner = c /\ ob.key = Template[c] /\ ob # NoObj
  BY DEF NoObj
<1> HIDE DEF o, ob
<1>5. o.raw \in RawCode /\ o.tpm \in TpmState
  BY <1>1, <1>3 DEF Refused, Done, RawCode, ObjsTo
<1>6. /\ tpm' \in TpmState /\ tpm' \in {tpm, o.tpm} /\ last' \in [Client -> Nat]
      /\ d.rc = TPM_RC_SUCCESS => o.raw = TPM_RC_SUCCESS /\ d.out = o.out /\ tpm' = o.tpm
  BY <1>1, <1>2, <1>5, SentTyped
<1>7. Effect(c)
  <2>1. CASE tpm' = tpm
    BY <2>1, EffectNone
  <2>2. CASE tpm' # tpm
    <3>1. PICK s \in Slot : tpm.objs[s] = NoObj /\ ObjsTo(tpm, tpm', [tpm.objs EXCEPT ![s] = ob])
      BY <1>3, <1>6, <2>2 DEF Refused
    <3> QED BY <1>1, <1>4, <3>1, EffectObjs
  <2> QED BY <2>1, <2>2
<1>8. CASE Fail(c) /\ UNCHANGED <<obj, pub>>
  BY <1>1, <1>6, <1>7, <1>8, KeyFails
<1>9. CASE /\ d.rc = TPM_RC_SUCCESS /\ Goto(c, "evict") /\ Set(obj, c, d.out[1])
           /\ Set(pub, c, Template[c]) /\ UNCHANGED troubled
  <2>1. PICK s \in Slot : /\ tpm.objs[s] = NoObj /\ d.out = <<s>>
                          /\ ObjsTo(tpm, tpm', [tpm.objs EXCEPT ![s] = ob])
    BY <1>3, <1>6, <1>9 DEF Refused
  <2>2. tpm'.objs = [tpm.objs EXCEPT ![s] = ob] /\ d.out[1] = s
    BY <2>1 DEF ObjsTo
  <2>3. tpm'.objs[s] = ob /\ \A r \in Slot : r # s => tpm'.objs[r] = tpm.objs[r]
    BY <1>1, <2>2, TpmFields
  <2>4. Template[c] \in Key
    BY ConstantsTyped
  <2>5. Typed'
    BY <1>1, <1>6, <1>9, <2>2, <2>4 DEF Typed, KeyUnchanged, sessVars, Goto, Set, PC
  <2>6. \A e \in Client \ {c} : SameFor(e)
    BY <1>1, <1>9 DEF SameFor, Typed, KeyUnchanged, sessVars, Goto, Set
  <2>7. pc'[c] = "evict" /\ obj'[c] = s /\ pub'[c] = Template[c] /\ troubled' = troubled
    BY <1>1, <1>9, <2>2 DEF Typed, Goto, Set
  <2>8. StartInv(c)' /\ ClearInv(c)' /\ SigInv(c)'
    BY <1>1, <1>7, <2>5, <2>7, KeySame
  <2>9. ArgInv(c)' /\ ObjInv(c)'
    BY <1>4, <2>3, <2>7 DEF ArgInv, SessionPC, ObjInv, KeyPC, PiecePC
  <2>10. KeyInv(c)'
    BY <1>1, <2>7 DEF CallInv, KeyInv, KeyPC
  <2>11. LeakInv(c)'
    BY <1>1, <2>3, <2>7 DEF CallInv, LeakInv, KeyPC, PiecePC
  <2> QED BY <1>7, <2>5, <2>6, <2>8, <2>9, <2>10, <2>11 DEF Kept, CallInv
<1> QED BY <1>2, <1>8, <1>9

(* It makes it persistent.                                                 *)
LEMMA KeyEvictKept ==
  ASSUME Inv, NEW c \in Client, KeyEvict(c)
  PROVE  Kept(c)
<1> DEFINE o == EvictControl(tpm, obj[c], arg[c].h)
<1>1. Typed /\ CallInv(c) /\ tpm \in TpmState /\ pc[c] = "evict" /\ KeyUnchanged
      /\ UNCHANGED <<obj, pub, keyRet>> /\ arg[c].h \in PersHandle
  BY DEF Inv, Typed, KeyEvict, Arg
<1>2. PICK d \in Dispatch(c, o) :
        /\ Sent(c, d)
        /\ \/ d.rc = TPM_RC_SUCCESS /\ Goto(c, "flush") /\ UNCHANGED troubled
           \/ Fail(c)
  BY Zenon DEF KeyEvict
<1>3. obj[c] \in Slot /\ tpm.objs[obj[c]].key = Template[c]
  BY <1>1 DEF CallInv, ObjInv, KeyPC
<1>4. \/ Refused(tpm, o)
      \/ /\ Done(tpm, o) /\ tpm.keys[arg[c].h] = NoKey
         /\ KeysTo(tpm, o.tpm, [tpm.keys EXCEPT ![arg[c].h] = Template[c]])
  <2>1. obj[c] \in Slot => tpm.objs[obj[c]] \in Object \cup {NoObj}
    BY <1>1, TpmFields
  <2> QED BY <1>1, <1>3, <2>1, EvictIs
<1> HIDE DEF o
<1>5. o.raw \in RawCode /\ o.tpm \in TpmState
  BY <1>1, <1>4 DEF Refused, Done, RawCode, KeysTo
<1>6. /\ tpm' \in TpmState /\ tpm' \in {tpm, o.tpm} /\ last' \in [Client -> Nat]
      /\ d.rc = TPM_RC_SUCCESS => o.raw = TPM_RC_SUCCESS /\ tpm' = o.tpm
  BY <1>1, <1>2, <1>5, SentTyped
<1>7. Effect(c) /\ tpm'.objs = tpm.objs
  BY <1>1, <1>4, <1>6, EffectNone, EffectKeys DEF Refused, KeysTo
<1>8. CASE Fail(c)
  BY <1>1, <1>6, <1>7, <1>8, KeyFails
<1>9. CASE d.rc = TPM_RC_SUCCESS /\ Goto(c, "flush") /\ UNCHANGED troubled
  <2>1. tpm'.keys[arg[c].h] = Template[c]
    BY <1>1, <1>4, <1>6, <1>9, TpmFields DEF Refused, KeysTo
  <2>2. Typed'
    BY <1>1, <1>6, <1>9 DEF Typed, KeyUnchanged, sessVars, Goto, Set, PC
  <2>3. \A e \in Client \ {c} : SameFor(e)
    BY <1>1, <1>9 DEF SameFor, Typed, KeyUnchanged, sessVars, Goto, Set
  <2>4. pc'[c] = "flush" /\ arg' = arg /\ troubled' = troubled
    BY <1>1, <1>9 DEF Typed, Goto, Set, KeyUnchanged
  <2>5. StartInv(c)' /\ ClearInv(c)' /\ SigInv(c)'
    BY <1>1, <1>7, <2>2, <2>4, KeySame
  <2>6. ArgInv(c)' /\ ObjInv(c)'
    BY <1>1, <1>7, <2>4 DEF ArgInv, SessionPC, ObjInv, KeyPC, PiecePC, CallInv
  <2>7. KeyInv(c)'
    BY <1>1, <2>1, <2>4 DEF CallInv, KeyInv, KeyPC
  <2>8. LeakInv(c)'
    BY <1>1, <1>7, <2>4 DEF CallInv, LeakInv, KeyPC, PiecePC
  <2> QED BY <1>7, <2>2, <2>3, <2>5, <2>6, <2>7, <2>8 DEF Kept, CallInv
<1> QED BY <1>2, <1>8, <1>9

(* It flushes the transient copy.                                          *)
LEMMA KeyFlushKept ==
  ASSUME Inv, NEW c \in Client, KeyFlush(c)
  PROVE  Kept(c)
<1> DEFINE o == FlushContext(tpm, obj[c])
<1>1. Typed /\ CallInv(c) /\ tpm \in TpmState /\ pc[c] = "flush" /\ KeyUnchanged
      /\ UNCHANGED <<obj, pub>> /\ arg[c].h \in PersHandle
  BY DEF Inv, Typed, KeyFlush, Arg
<1>2. PICK d \in Dispatch(c, o) :
        /\ Sent(c, d)
        /\ \/ d.rc = TPM_RC_SUCCESS /\ Succeed(c) /\ Set(keyRet, c, arg[c].h)
           \/ Fail(c) /\ UNCHANGED keyRet
  BY Zenon DEF KeyFlush
<1>3. obj[c] \in Slot /\ tpm.objs[obj[c]] # NoObj /\ tpm.objs[obj[c]].owner = c
  BY <1>1 DEF CallInv, ObjInv, KeyPC
<1>4. \/ Refused(tpm, o)
      \/ Done(tpm, o) /\ ObjsTo(tpm, o.tpm, [tpm.objs EXCEPT ![obj[c]] = NoObj])
  BY <1>1, FlushIs
<1> HIDE DEF o
<1>5. o.raw \in RawCode /\ o.tpm \in TpmState
  BY <1>1, <1>4 DEF Refused, Done, RawCode, ObjsTo
<1>6. /\ tpm' \in TpmState /\ tpm' \in {tpm, o.tpm} /\ last' \in [Client -> Nat]
      /\ d.rc = TPM_RC_SUCCESS => o.raw = TPM_RC_SUCCESS /\ tpm' = o.tpm
  BY <1>1, <1>2, <1>5, SentTyped
<1>7. Effect(c) /\ tpm'.keys = tpm.keys
  BY <1>1, <1>3, <1>4, <1>6, EffectNone, EffectObjs DEF Refused, ObjsTo
<1>8. CASE Fail(c) /\ UNCHANGED keyRet
  BY <1>1, <1>6, <1>7, <1>8, KeyFails
<1>9. CASE d.rc = TPM_RC_SUCCESS /\ Succeed(c) /\ Set(keyRet, c, arg[c].h)
  <2>1. /\ tpm'.objs[obj[c]] = NoObj
        /\ \A s \in Slot : s # obj[c] => tpm'.objs[s] = tpm.objs[s]
    BY <1>1, <1>3, <1>4, <1>6, <1>9, TpmFields DEF Refused, ObjsTo
  <2>2. Typed'
    BY <1>1, <1>6, <1>9 DEF Typed, KeyUnchanged, sessVars, Succeed, Goto, Set, PC
  <2>3. \A e \in Client \ {c} : SameFor(e)
    BY <1>1, <1>9 DEF SameFor, Typed, KeyUnchanged, sessVars, Succeed, Goto, Set
  <2>4. pc'[c] = "idle" /\ keyRet'[c] = arg[c].h /\ troubled' = troubled
    BY <1>1, <1>9 DEF Typed, Succeed, Goto, Set
  <2>5. StartInv(c)' /\ ClearInv(c)' /\ SigInv(c)'
    BY <1>1, <1>7, <2>2, <2>4, KeySame
  <2>6. ArgInv(c)' /\ ObjInv(c)'
    BY <2>4 DEF ArgInv, SessionPC, ObjInv, KeyPC, PiecePC
  <2>7. KeyInv(c)'
    BY <1>1, <1>7, <2>4, ConstantsTyped DEF CallInv, KeyInv, KeyPC
  <2>8. LeakInv(c)'
    BY <1>1, <2>1, <2>4 DEF CallInv, LeakInv, KeyPC, PiecePC
  <2> QED BY <1>7, <2>2, <2>3, <2>5, <2>6, <2>7, <2>8 DEF Kept, CallInv
<1> QED BY <1>2, <1>8, <1>9
-----------------------------------------------------------------------------
(***************************************************************************)
(* SignData.                                                               *)
(***************************************************************************)
LEMMA TokenTyped ==
  ASSUME NEW n \in Nat
  PROVE  Token(n) \in Seq(Nat)
BY DEF Token, Bytes

(* The pieces of a token make up the token.                                *)
LEMMA BytesJoin ==
  ASSUME NEW m \in Nat, NEW n \in Nat, m <= n
  PROVE  Token(m) \o Bytes(m, n) = Token(n)
<1>1. /\ Token(m) \in Seq(Nat) /\ Len(Token(m)) = m /\ \A i \in 1..m : Token(m)[i] = i
      /\ Token(n) \in Seq(Nat) /\ Len(Token(n)) = n /\ \A i \in 1..n : Token(n)[i] = i
      /\ Bytes(m, n) \in Seq(Nat) /\ Len(Bytes(m, n)) = n - m
      /\ \A i \in 1..(n - m) : Bytes(m, n)[i] = m + i
  BY DEF Token, Bytes
<1> HIDE DEF Token, Bytes
<1> DEFINE a == Token(m)
           b == Bytes(m, n)
<1>2. /\ a \o b \in Seq(Nat) /\ Len(a \o b) = Len(a) + Len(b)
      /\ \A i \in 1..(Len(a) + Len(b)) : (a \o b)[i] = IF i <= Len(a) THEN a[i] ELSE b[i - Len(a)]
  BY <1>1, ConcatProperties
<1>3. \A i \in 1..n : (a \o b)[i] = i
  BY <1>1, <1>2
<1>4. Len(a \o b) = n
  BY <1>1, <1>2
<1> HIDE DEF a, b
<1>5. a \o b = Token(n)
  BY <1>1, <1>2, <1>3, <1>4, SeqEqual
<1> QED BY <1>5 DEF a, b

(* What its commands leave alone.                                          *)
LEMMA SignSame ==
  ASSUME Inv, NEW c \in Client, SignUnchanged, Typed', Effect(c),
         pc[c] \in {"property", "hmac", "hmac_start", "update", "complete"},
         pc'[c] \in {"idle", "hmac", "hmac_start", "update", "complete"}
  PROVE  /\ StartInv(c)' /\ ClearInv(c)' /\ KeyInv(c)'
         /\ sig'[c] = sig[c] => SigInv(c)'
BY StartClearKept, ResultsKept DEF SignUnchanged, sessVars

(* A step of SignData fails, and the call with it.                         *)
LEMMA SignFailsKept ==
  ASSUME Inv, NEW c \in Client, SignUnchanged, pc[c] \notin {"startup", "flush_session"},
         Effect(c), tpm' \in TpmState, last' \in [Client -> Nat], SignFails(c),
         UNCHANGED <<obj, maxIn, pos>>
  PROVE  Kept(c)
<1>1. Typed
  BY DEF Inv
<1>2. Typed'
  BY <1>1 DEF Typed, SignUnchanged, sessVars, SignFails, Fail, Goto, Set, PC
<1>3. \A e \in Client \ {c} : SameFor(e)
  BY <1>1 DEF SameFor, Typed, SignUnchanged, sessVars, SignFails, Fail, Goto, Set
<1>4. CallInv(c)'
  BY <1>2, FailKept DEF SignUnchanged, sessVars, SignFails
<1> QED BY <1>2, <1>3, <1>4 DEF Kept

(* A signature of the whole token ends the call.                           *)
LEMMA SignSucceedsKept ==
  ASSUME Inv, NEW c \in Client, SignUnchanged, Effect(c), tpm' \in TpmState,
         last' \in [Client -> Nat],
         pc[c] \in {"hmac", "complete"}, NEW out, SignSucceeds(c, out), UNCHANGED <<obj, maxIn, pos>>,
         tpm.keys[IdKey] # NoKey, out = [key |-> tpm.keys[IdKey], data |-> Token(arg[c].size)],
         \A s \in Slot : /\ tpm'.objs[s] = tpm.objs[s] \/ tpm'.objs[s] = NoObj
                         /\ pc[c] = "complete" /\ s = obj[c] => tpm'.objs[s] = NoObj
  PROVE  Kept(c)
<1>1. Typed /\ CallInv(c)
  BY DEF Inv
<1>2. arg[c].size \in Nat
  BY <1>1 DEF Typed, Arg
<1>3. out \in Mac
  <2>1. Token(arg[c].size) \in Seq(Nat)
    BY <1>2, TokenTyped
  <2>2. tpm.keys[IdKey] \in Key \cup {NoKey}
    BY <1>1, CodecAssumption DEF Typed, TpmState
  <2> QED BY <2>1, <2>2 DEF Mac
<1>4. Typed'
  <2>1. sig' \in [Client -> Mac] /\ sigRet' \in [Client -> {0, DigestSize}]
    BY <1>1, <1>3 DEF Typed, SignSucceeds, Set
  <2> QED BY <1>1, <2>1 DEF Typed, SignUnchanged, sessVars, SignSucceeds, Succeed, Goto, Set, PC
<1>5. \A e \in Client \ {c} : SameFor(e)
  BY <1>1 DEF SameFor, Typed, SignUnchanged, sessVars, SignSucceeds, Succeed, Goto, Set
<1>6. pc'[c] = "idle" /\ sig'[c] = out /\ troubled' = troubled /\ arg' = arg /\ obj' = obj
  BY <1>1 DEF Typed, SignSucceeds, Succeed, Goto, Set, SignUnchanged
<1>7. StartInv(c)' /\ ClearInv(c)' /\ KeyInv(c)'
  BY <1>4, <1>6, SignSame
<1>8. SigInv(c)'
  <2>1. tpm'.keys[IdKey] = tpm.keys[IdKey]
    BY CodecAssumption DEF Effect
  <2> QED BY <1>6, <2>1 DEF SigInv
<1>9. ArgInv(c)' /\ ObjInv(c)'
  BY <1>6 DEF ArgInv, SessionPC, ObjInv, KeyPC, PiecePC
<1>10. LeakInv(c)'
  BY <1>1, <1>6 DEF CallInv, LeakInv, KeyPC, PiecePC
<1> QED BY <1>4, <1>5, <1>7, <1>8, <1>9, <1>10 DEF Kept, CallInv

(* A token that no command can carry.                                      *)
LEMMA SignRefusedKept ==
  ASSUME Inv, NEW c \in Client, SignRefused(c)
  PROVE  Kept(c)
<1>1. Typed
  BY DEF Inv
<1>2. /\ SignUnchanged /\ pc[c] \in {"hmac", "update", "complete"} /\ SignFails(c)
      /\ tpm' = tpm /\ last' = last /\ UNCHANGED <<obj, maxIn, pos>>
  BY DEF SignRefused
<1>3. Effect(c) /\ tpm' \in TpmState /\ last' \in [Client -> Nat]
  BY <1>1, <1>2, EffectNone DEF Typed
<1> QED BY <1>2, <1>3, SignFailsKept

(* SignData asks for the largest piece the TPM takes.                      *)
LEMMA SignPropertyKept ==
  ASSUME Inv, NEW c \in Client, SignProperty(c)
  PROVE  Kept(c)
<1>1. Typed /\ CallInv(c) /\ tpm \in TpmState /\ pc[c] = "property" /\ SignUnchanged
      /\ UNCHANGED <<obj, pos, sigRet, sig, troubled>>
  BY DEF Inv, Typed, SignProperty
<1>2. PICK v \in {tpm.limit, BadProperty} :
        \E d \in Dispatch(c, GetCapability(tpm, v)) :
          /\ Sent(c, d)
          /\ LET m == IF d.rc = TPM_RC_SUCCESS THEN d.out[1] ELSE BadProperty
             IN  Set(maxIn, c, m) /\ Goto(c, IF arg[c].size > m THEN "hmac_start" ELSE "hmac")
  BY DEF SignProperty
<1> DEFINE o == GetCapability(tpm, v)
<1>3. PICK d \in Dispatch(c, o) :
          /\ Sent(c, d)
          /\ LET m == IF d.rc = TPM_RC_SUCCESS THEN d.out[1] ELSE BadProperty
             IN  Set(maxIn, c, m) /\ Goto(c, IF arg[c].size > m THEN "hmac_start" ELSE "hmac")
  BY <1>2
<1> DEFINE m == IF d.rc = TPM_RC_SUCCESS THEN d.out[1] ELSE BadProperty
<1>4. Refused(tpm, o) \/ (Done(tpm, o) /\ o.tpm = tpm /\ o.out = <<v>>)
  BY CapabilityIs
<1> HIDE DEF o
<1>5. o.raw \in RawCode /\ o.tpm = tpm
  BY <1>4 DEF Refused, Done, RawCode
<1>6. /\ tpm' = tpm /\ last' \in [Client -> Nat]
      /\ d.rc = TPM_RC_SUCCESS => o.raw = TPM_RC_SUCCESS /\ d.out = o.out
  BY <1>1, <1>3, <1>5, SentTyped
<1>7. Effect(c)
  BY <1>6, EffectNone
<1>8. m \in Nat
  <2>1. BadProperty \in Nat /\ tpm.limit \in Nat
    BY <1>1, ConstantsTyped, CodecAssumption, TpmFields
  <2>2. v \in Nat
    BY <1>2, <2>1
  <2>3. d.rc = TPM_RC_SUCCESS => d.out[1] = v
    BY <1>4, <1>6 DEF Refused
  <2> QED BY <2>1, <2>2, <2>3
<1>9. /\ maxIn' = [maxIn EXCEPT ![c] = m]
      /\ pc' = [pc EXCEPT ![c] = IF arg[c].size > m THEN "hmac_start" ELSE "hmac"]
  BY <1>3 DEF Set, Goto
<1> HIDE DEF m
<1>10. Typed'
  BY <1>1, <1>6, <1>8, <1>9 DEF Typed, SignUnchanged, sessVars, PC
<1>11. \A e \in Client \ {c} : SameFor(e)
  BY <1>1, <1>9 DEF SameFor, Typed, SignUnchanged, sessVars
<1>12. /\ pc'[c] = IF arg[c].size > m THEN "hmac_start" ELSE "hmac"
       /\ maxIn'[c] = m /\ arg' = arg /\ arg[c].size \in Nat /\ pos'[c] = 0
  BY <1>1, <1>9 DEF Typed, Arg, SignUnchanged, CallInv, ArgInv
<1>13. StartInv(c)' /\ ClearInv(c)' /\ KeyInv(c)' /\ SigInv(c)'
  BY <1>1, <1>7, <1>10, <1>12, SignSame
<1>14. ArgInv(c)' /\ ObjInv(c)'
  BY <1>8, <1>12 DEF ArgInv, SessionPC, ObjInv, KeyPC, PiecePC
<1>15. LeakInv(c)'
  BY <1>1, <1>6 DEF CallInv, LeakInv, KeyPC, PiecePC
<1> QED BY <1>7, <1>10, <1>11, <1>13, <1>14, <1>15 DEF Kept, CallInv

(* It signs a short token with one command.                                *)
LEMMA SignHmacKept ==
  ASSUME Inv, NEW c \in Client, SignHmac(c)
  PROVE  Kept(c)
<1> DEFINE o == HMAC(tpm, IdKey, Token(arg[c].size))
<1>1. Typed /\ CallInv(c) /\ tpm \in TpmState /\ pc[c] = "hmac" /\ SignUnchanged
      /\ UNCHANGED <<obj, maxIn, pos>>
  BY DEF Inv, Typed, SignHmac
<1>2. PICK d \in Dispatch(c, o) :
        Sent(c, d) /\ ((d.rc = TPM_RC_SUCCESS /\ SignSucceeds(c, d.out[1])) \/ SignFails(c))
  BY Zenon DEF SignHmac
<1>3. \/ Refused(tpm, o)
      \/ /\ Done(tpm, o) /\ o.tpm = tpm /\ tpm.keys[IdKey] # NoKey
         /\ o.out = <<[key |-> tpm.keys[IdKey], data |-> Token(arg[c].size)]>>
  BY HmacIs
<1> HIDE DEF o
<1>4. o.raw \in RawCode /\ o.tpm = tpm
  BY <1>3 DEF Refused, Done, RawCode
<1>5. /\ tpm' = tpm /\ last' \in [Client -> Nat]
      /\ d.rc = TPM_RC_SUCCESS => o.raw = TPM_RC_SUCCESS /\ d.out = o.out
  BY <1>1, <1>2, <1>4, SentTyped
<1>6. Effect(c)
  BY <1>5, EffectNone
<1>7. CASE SignFails(c)
  BY <1>1, <1>5, <1>6, <1>7, SignFailsKept
<1>8. CASE d.rc = TPM_RC_SUCCESS /\ SignSucceeds(c, d.out[1])
  <2>1. d.out[1] = [key |-> tpm.keys[IdKey], data |-> Token(arg[c].size)]
        /\ tpm.keys[IdKey] # NoKey
    BY <1>3, <1>5, <1>8 DEF Refused
  <2> QED BY <1>1, <1>5, <1>6, <1>8, <2>1, SignSucceedsKept
<1> QED BY <1>2, <1>7, <1>8

(* It starts a sequence for a long one.                                    *)
LEMMA SignHmacStartKept ==
  ASSUME Inv, NEW c \in Client, SignHmacStart(c)
  PROVE  Kept(c)
<1> DEFINE o == HMAC_Start(tpm, c, IdKey)
           ob == [kind |-> "hmac", key |-> tpm.keys[IdKey], data |-> << >>, owner |-> c]
<1>1. Typed /\ CallInv(c) /\ tpm \in TpmState /\ pc[c] = "hmac_start" /\ SignUnchanged
      /\ UNCHANGED <<maxIn, pos>>
  BY DEF Inv, Typed, SignHmacStart
<1>2. PICK d \in Dispatch(c, o) :
        /\ Sent(c, d)
        /\ \/ /\ d.rc = TPM_RC_SUCCESS /\ Goto(c, "update") /\ Set(obj, c, d.out[1])
              /\ UNCHANGED <<sigRet, sig, troubled>>
           \/ SignFails(c) /\ UNCHANGED obj
  BY Zenon DEF SignHmacStart
<1>3. \/ Refused(tpm, o)
      \/ /\ Done(tpm, o) /\ tpm.keys[IdKey] # NoKey
         /\ \E s \in Slot : /\ tpm.objs[s] = NoObj /\ o.out = <<s>>
                            /\ ObjsTo(tpm, o.tpm, [tpm.objs EXCEPT ![s] = ob])
  BY <1>1, HmacStartIs, CodecAssumption
<1>4. ob.owner = c /\ ob.key = tpm.keys[IdKey] /\ ob.data = << >> /\ ob # NoObj
  BY DEF NoObj
<1> HIDE DEF o, ob
<1>5. o.raw \in RawCode /\ o.tpm \in TpmState
  BY <1>1, <1>3 DEF Refused, Done, RawCode, ObjsTo
<1>6. /\ tpm' \in TpmState /\ tpm' \in {tpm, o.tpm} /\ last' \in [Client -> Nat]
      /\ d.rc = TPM_RC_SUCCESS => o.raw = TPM_RC_SUCCESS /\ d.out = o.out /\ tpm' = o.tpm
  BY <1>1, <1>2, <1>5, SentTyped
<1>7. Effect(c)
  <2>1. CASE tpm' = tpm
    BY <2>1, EffectNone
  <2>2. CASE tpm' # tpm
    <3>1. PICK s \in Slot : tpm.objs[s] = NoObj /\ ObjsTo(tpm, tpm', [tpm.objs EXCEPT ![s] = ob])
      BY <1>3, <1>6, <2>2 DEF Refused
    <3> QED BY <1>1, <1>4, <3>1, EffectObjs
  <2> QED BY <2>1, <2>2
<1>8. CASE SignFails(c) /\ UNCHANGED obj
  BY <1>1, <1>6, <1>7, <1>8, SignFailsKept
<1>9. CASE /\ d.rc = TPM_RC_SUCCESS /\ Goto(c, "update") /\ Set(obj, c, d.out[1])
           /\ UNCHANGED <<sigRet, sig, troubled>>
  <2>1. tpm.keys[IdKey] # NoKey
    BY <1>3, <1>6, <1>9 DEF Refused
  <2>2. PICK s \in Slot : /\ tpm.objs[s] = NoObj /\ d.out = <<s>>
                          /\ ObjsTo(tpm, tpm', [tpm.objs EXCEPT ![s] = ob])
    BY <1>3, <1>6, <1>9 DEF Refused
  <2>3. tpm'.objs = [tpm.objs EXCEPT ![s] = ob] /\ tpm'.keys = tpm.keys /\ d.out[1] = s
    BY <2>2 DEF ObjsTo
  <2>4. tpm'.objs[s] = ob /\ \A r \in Slot : r # s => tpm'.objs[r] = tpm.objs[r]
    BY <1>1, <2>3, TpmFields
  <2>5. Typed'
    BY <1>1, <1>6, <1>9, <2>3 DEF Typed, SignUnchanged, sessVars, Goto, Set, PC
  <2>6. \A e \in Client \ {c} : SameFor(e)
    BY <1>1, <1>9 DEF SameFor, Typed, SignUnchanged, sessVars, Goto, Set
  <2>7. pc'[c] = "update" /\ obj'[c] = s /\ sig' = sig /\ troubled' = troubled /\ arg' = arg
    BY <1>1, <1>9, <2>3 DEF Typed, Goto, Set, SignUnchanged
  <2>8. StartInv(c)' /\ ClearInv(c)' /\ KeyInv(c)' /\ SigInv(c)'
    BY <1>1, <1>7, <2>5, <2>7, SignSame
  <2>9. pos[c] = 0 /\ maxIn[c] < arg[c].size /\ maxIn[c] \in Nat /\ arg[c].size \in Nat
    BY <1>1 DEF CallInv, ArgInv, Typed, Arg
  <2>10. ArgInv(c)'
    BY <1>1, <2>7, <2>9 DEF ArgInv, SessionPC
  <2>11. ObjInv(c)'
    <3>1. Token(0) = << >>
      BY DEF Token, Bytes
    <3> QED BY <1>1, <1>4, <2>1, <2>3, <2>4, <2>7, <2>9, <3>1 DEF ObjInv, KeyPC, PiecePC
  <2>12. LeakInv(c)'
    BY <1>1, <2>4, <2>7 DEF CallInv, LeakInv, KeyPC, PiecePC
  <2> QED BY <1>7, <2>5, <2>6, <2>8, <2>10, <2>11, <2>12 DEF Kept, CallInv
<1> QED BY <1>2, <1>8, <1>9

(* It sends the next piece.                                                *)
LEMMA SignUpdateKept ==
  ASSUME Inv, NEW c \in Client, SignUpdate(c)
  PROVE  Kept(c)
<1> DEFINE next == pos[c] + maxIn[c]
           piece == Bytes(pos[c], next)
           o == SequenceUpdate(tpm, obj[c], piece)
           ob == Updated(tpm.objs[obj[c]], piece)
           turned == [arg[c] EXCEPT !.odd = ~@]
<1>1. Typed /\ CallInv(c) /\ tpm \in TpmState /\ pc[c] = "update"
      /\ UNCHANGED <<obj, maxIn, sessVars, comm, pub, rc, keyRet, calls>>
      /\ pos[c] \in Nat /\ maxIn[c] \in Nat /\ arg[c].size \in Nat
  BY DEF Inv, Typed, SignUpdate, Arg
<1>2. PICK d \in Dispatch(c, o) :
        /\ Sent(c, d)
        /\ \/ /\ d.rc = TPM_RC_SUCCESS /\ Set(pos, c, next)
              /\ Goto(c, IF arg[c].size - next > maxIn[c] THEN "update" ELSE "complete")
              /\ Set(arg, c, turned) /\ UNCHANGED <<sigRet, sig, troubled>>
           \/ SignFails(c) /\ UNCHANGED <<pos, arg>>
  BY Zenon DEF SignUpdate
<1>3. /\ obj[c] \in Slot /\ tpm.objs[obj[c]] # NoObj /\ tpm.objs[obj[c]].owner = c
      /\ tpm.keys[IdKey] # NoKey /\ tpm.objs[obj[c]].key = tpm.keys[IdKey]
      /\ tpm.objs[obj[c]].data = Token(pos[c]) /\ next < arg[c].size
  BY <1>1 DEF CallInv, ObjInv, ArgInv, PiecePC
<1>4. piece \in Seq(Nat) /\ next \in Nat /\ Token(pos[c]) \o piece = Token(next)
  <2>1. pos[c] \in Nat /\ next \in Nat /\ pos[c] <= next
    BY <1>1
  <2> HIDE DEF next
  <2> QED BY <2>1, BytesTyped, BytesJoin
<1> HIDE DEF piece, next
<1>5. \/ Refused(tpm, o)
      \/ Done(tpm, o) /\ ObjsTo(tpm, o.tpm, [tpm.objs EXCEPT ![obj[c]] = ob])
  BY <1>1, <1>4, UpdateIs
<1>6. ob.owner = c /\ ob.key = tpm.keys[IdKey] /\ ob.data = Token(next) /\ ob # NoObj
  <2>1. tpm.objs[obj[c]] \in Object
    BY <1>1, <1>3, TpmFields
  <2> QED BY <1>3, <1>4, <2>1 DEF Updated, Object, NoObj
<1> HIDE DEF o, ob
<1>7. o.raw \in RawCode /\ o.tpm \in TpmState
  BY <1>1, <1>5 DEF Refused, Done, RawCode, ObjsTo
<1>8. /\ tpm' \in TpmState /\ tpm' \in {tpm, o.tpm} /\ last' \in [Client -> Nat]
      /\ d.rc = TPM_RC_SUCCESS => o.raw = TPM_RC_SUCCESS /\ tpm' = o.tpm
  BY <1>1, <1>2, <1>7, SentTyped
<1>9. turned \in Arg /\ turned.size = arg[c].size /\ turned.i = arg[c].i
  BY <1>1 DEF Typed, Arg
<1> HIDE DEF turned
<1>10. Effect(c)
  <2>1. CASE tpm' = tpm
    BY <2>1, EffectNone
  <2>2. CASE tpm' # tpm
    <3>1. ObjsTo(tpm, tpm', [tpm.objs EXCEPT ![obj[c]] = ob])
      BY <1>5, <1>8, <2>2 DEF Refused
    <3> QED BY <1>1, <1>3, <1>6, <3>1, EffectObjs
  <2> QED BY <2>1, <2>2
<1>11. CASE SignFails(c) /\ UNCHANGED <<pos, arg>>
  BY <1>1, <1>8, <1>10, <1>11, SignFailsKept DEF SignUnchanged
<1>12. CASE /\ d.rc = TPM_RC_SUCCESS /\ Set(pos, c, next)
            /\ Goto(c, IF arg[c].size - next > maxIn[c] THEN "update" ELSE "complete")
            /\ Set(arg, c, turned) /\ UNCHANGED <<sigRet, sig, troubled>>
  <2>1. ObjsTo(tpm, tpm', [tpm.objs EXCEPT ![obj[c]] = ob])
    BY <1>5, <1>8, <1>12 DEF Refused
  <2>2. tpm'.keys = tpm.keys /\ tpm'.objs[obj[c]] = ob
        /\ \A r \in Slot : r # obj[c] => tpm'.objs[r] = tpm.objs[r]
    BY <1>1, <1>3, <2>1, TpmFields DEF ObjsTo
  <2>3. Typed'
    BY <1>1, <1>4, <1>8, <1>12, <1>9 DEF Typed, sessVars, Goto, Set, PC
  <2>4. \A e \in Client \ {c} : SameFor(e)
    BY <1>1, <1>12 DEF SameFor, Typed, sessVars, Goto, Set
  <2>5. /\ pc'[c] = IF arg[c].size - next > maxIn[c] THEN "update" ELSE "complete"
        /\ pos'[c] = next /\ obj' = obj /\ maxIn' = maxIn
        /\ sig' = sig /\ troubled' = troubled
        /\ arg'[c].size = arg[c].size /\ arg'[c].i = arg[c].i
    BY <1>1, <1>12, <1>9 DEF Typed, Goto, Set
  <2>6. StartInv(c)' /\ ClearInv(c)' /\ KeyInv(c)' /\ SigInv(c)'
    BY <1>1, <1>10, <2>3, <2>5, StartClearKept, ResultsKept DEF sessVars
  <2>7. ArgInv(c)'
    BY <1>1, <1>3, <1>4, <2>5 DEF ArgInv, SessionPC
  <2>8. ObjInv(c)'
    BY <1>3, <1>6, <2>2, <2>5 DEF ObjInv, KeyPC, PiecePC
  <2>9. LeakInv(c)'
    BY <1>1, <2>2, <2>5 DEF CallInv, LeakInv, KeyPC, PiecePC
  <2> QED BY <1>10, <2>3, <2>4, <2>6, <2>7, <2>8, <2>9 DEF Kept, CallInv
<1> QED BY <1>2, <1>11, <1>12

(* It sends the last one, and gets the signature.                          *)
LEMMA SignCompleteKept ==
  ASSUME Inv, NEW c \in Client, SignComplete(c)
  PROVE  Kept(c)
<1> DEFINE piece == Bytes(pos[c], arg[c].size)
           o == SequenceComplete(tpm, obj[c], piece)
<1>1. Typed /\ CallInv(c) /\ tpm \in TpmState /\ pc[c] = "complete" /\ SignUnchanged
      /\ UNCHANGED <<obj, maxIn, pos>> /\ pos[c] \in Nat /\ arg[c].size \in Nat
  BY DEF Inv, Typed, SignComplete, Arg
<1>2. PICK d \in Dispatch(c, o) :
        Sent(c, d) /\ ((d.rc = TPM_RC_SUCCESS /\ SignSucceeds(c, d.out[1])) \/ SignFails(c))
  BY Zenon DEF SignComplete
<1>3. /\ obj[c] \in Slot /\ tpm.objs[obj[c]] # NoObj /\ tpm.objs[obj[c]].owner = c
      /\ tpm.keys[IdKey] # NoKey /\ tpm.objs[obj[c]].key = tpm.keys[IdKey]
      /\ tpm.objs[obj[c]].data = Token(pos[c]) /\ pos[c] <= arg[c].size
  BY <1>1 DEF CallInv, ObjInv, ArgInv, PiecePC
<1>4. Token(pos[c]) \o piece = Token(arg[c].size)
  BY <1>1, <1>3, BytesJoin
<1> HIDE DEF piece
<1>5. \/ Refused(tpm, o)
      \/ /\ Done(tpm, o)
         /\ o.out = <<[key |-> tpm.keys[IdKey], data |-> Token(arg[c].size)]>>
         /\ ObjsTo(tpm, o.tpm, [tpm.objs EXCEPT ![obj[c]] = NoObj])
  <2>1. \/ Refused(tpm, o)
        \/ /\ Done(tpm, o)
           /\ o.out = <<[key |-> tpm.objs[obj[c]].key, data |-> tpm.objs[obj[c]].data \o piece]>>
           /\ ObjsTo(tpm, o.tpm, [tpm.objs EXCEPT ![obj[c]] = NoObj])
    BY <1>1, CompleteIs, Zenon
  <2> QED BY <1>3, <1>4, <2>1, Zenon
<1> HIDE DEF o
<1>6. o.raw \in RawCode /\ o.tpm \in TpmState
  BY <1>1, <1>5 DEF Refused, Done, RawCode, ObjsTo
<1>7. /\ tpm' \in TpmState /\ tpm' \in {tpm, o.tpm} /\ last' \in [Client -> Nat]
      /\ d.rc = TPM_RC_SUCCESS => o.raw = TPM_RC_SUCCESS /\ d.out = o.out /\ tpm' = o.tpm
  BY <1>1, <1>2, <1>6, SentTyped
<1>8. Effect(c)
  <2>1. CASE tpm' = tpm
    BY <2>1, EffectNone
  <2>2. CASE tpm' # tpm
    <3>1. ObjsTo(tpm, tpm', [tpm.objs EXCEPT ![obj[c]] = NoObj])
      BY <1>5, <1>7, <2>2 DEF Refused
    <3> QED BY <1>1, <1>3, <3>1, EffectObjs
  <2> QED BY <2>1, <2>2
<1>9. CASE SignFails(c)
  BY <1>1, <1>7, <1>8, <1>9, SignFailsKept
<1>10. CASE d.rc = TPM_RC_SUCCESS /\ SignSucceeds(c, d.out[1])
  <2>1. d.out[1] = [key |-> tpm.keys[IdKey], data |-> Token(arg[c].size)]
    BY <1>5, <1>7, <1>10 DEF Refused
  <2>2. ObjsTo(tpm, tpm', [tpm.objs EXCEPT ![obj[c]] = NoObj])
    BY <1>5, <1>7, <1>10 DEF Refused
  <2>3. \A s \in Slot : /\ tpm'.objs[s] = tpm.objs[s] \/ tpm'.objs[s] = NoObj
                        /\ pc[c] = "complete" /\ s = obj[c] => tpm'.objs[s] = NoObj
    BY <1>1, <2>2, TpmFields DEF ObjsTo
  <2> QED BY <1>1, <1>3, <1>7, <1>8, <1>10, <2>1, <2>3, SignSucceedsKept
<1> QED BY <1>2, <1>9, <1>10
-----------------------------------------------------------------------------
(***************************************************************************)
(* Policy sessions.                                                        *)
(***************************************************************************)
LEMMA SessionEnds ==
  ASSUME Inv, NEW c \in Client, SessionUnchanged, pc[c] \in SessionPC, Effect(c),
         tpm' \in TpmState, tpm'.objs = tpm.objs, last' \in [Client -> Nat],
         sess' \in [Client -> [TssSession -> TssSess]], Succeed(c) \/ Fail(c)
  PROVE  Kept(c)
<1>1. Typed /\ CallInv(c)
  BY DEF Inv
<1>2. /\ pc' = [pc EXCEPT ![c] = "idle"] /\ troubled' \in [Client -> BOOLEAN]
      /\ \A e \in Client : (e # c => troubled'[e] = troubled[e]) /\ (troubled[e] => troubled'[e])
      /\ UNCHANGED <<cleared, comm, arg, obj, pub, maxIn, pos, rc, keyRet, sigRet, sig, calls>>
  BY <1>1, ZenonT(60) DEF Typed, Succeed, Fail, Goto, Set, SessionUnchanged, localVars, retVars
<1>3. Typed'
  BY <1>1, <1>2 DEF Typed, PC
<1>4. \A e \in Client \ {c} : SameFor(e)
  BY <1>1, <1>2 DEF SameFor, Typed
<1>5. pc'[c] = "idle" /\ pc[c] \notin {"startup", "flush_session"}
  BY <1>1, <1>2 DEF Typed, SessionPC
<1>6. StartInv(c)' /\ ClearInv(c)'
  BY <1>2, <1>3, <1>5, StartClearKept
<1>7. SigInv(c)' /\ KeyInv(c)'
  BY <1>2, <1>3, <1>5, ResultsKept
<1>8. ArgInv(c)' /\ ObjInv(c)'
  BY <1>5 DEF ArgInv, SessionPC, ObjInv, KeyPC, PiecePC
<1>9. LeakInv(c)'
  BY <1>1, <1>2, <1>5 DEF CallInv, LeakInv, KeyPC, PiecePC, SessionPC
<1> QED BY <1>3, <1>4, <1>6, <1>7, <1>8, <1>9 DEF Kept, CallInv

(* The TSS_SESSION a call is about, and the session it stands for.         *)
LEMMA OwnTssSession ==
  ASSUME Inv, NEW c \in Client, pc[c] \in SessionPC
  PROVE  /\ arg[c].i \in TssSession /\ sess[c][arg[c].i] \in TssSess
         /\ sess[c][arg[c].i].nonce \in {NoNonce} \cup Nonce /\ tpm \in TpmState
         /\ \A x \in TssSess :
              [sess EXCEPT ![c][arg[c].i] = x] \in [Client -> [TssSession -> TssSess]]
<1>1. Typed /\ arg[c].i \in TssSession
  BY DEF Inv, CallInv, ArgInv
<1>2. sess \in [Client -> [TssSession -> TssSess]] /\ tpm \in TpmState
  BY <1>1 DEF Typed
<1>3. sess[c][arg[c].i] \in TssSess
  BY <1>1, <1>2
<1>4. \A x \in TssSess : x.nonce \in {NoNonce} \cup Nonce
  BY DEF TssSess, NotStarted
<1>5. ASSUME NEW x \in TssSess
      PROVE  [sess EXCEPT ![c][arg[c].i] = x] \in [Client -> [TssSession -> TssSess]]
  BY <1>1, <1>2
<1> QED BY <1>1, <1>2, <1>3, <1>4, <1>5

(* TSS_StartAuthSession.                                                   *)
LEMMA SessionStartKept ==
  ASSUME Inv, NEW c \in Client, SessionStart(c)
  PROVE  Kept(c)
<1> DEFINE nonce == <<c, calls[c]>>
           o == StartAuthSession(tpm, c, nonce)
           se == [owner |-> c, nonce |-> nonce, shown |-> FALSE, secret |-> NoNonce]
<1>1. Typed /\ tpm \in TpmState /\ pc[c] = "start_session" /\ SessionUnchanged /\ nonce \in Nonce
  BY CodecAssumption DEF Inv, Typed, SessionStart, Nonce
<1>2. PICK d \in Dispatch(c, o) :
        /\ Sent(c, d)
        /\ \/ /\ d.rc = TPM_RC_SUCCESS /\ Succeed(c)
              /\ sess' = [sess EXCEPT ![c][arg[c].i] = [h |-> d.out[1], nonce |-> d.out[2]]]
           \/ Fail(c) /\ UNCHANGED sess
  BY Zenon DEF SessionStart
<1>3. se.owner = c /\ se.nonce = <<c, calls[c]>> /\ se.secret = NoNonce
  OBVIOUS
<1>4. \/ Refused(tpm, o)
      \/ /\ Done(tpm, o)
         /\ \E n \in SessionNumber : /\ tpm.sess[n] = NoSession /\ o.out = <<n, nonce>>
                                     /\ SessTo(tpm, o.tpm, [tpm.sess EXCEPT ![n] = se])
  BY <1>1, StartSessionIs
<1> HIDE DEF o, se, nonce
<1>5. o.raw \in RawCode /\ o.tpm \in TpmState
  BY <1>1, <1>4 DEF Refused, Done, RawCode, SessTo
<1>6. /\ tpm' \in TpmState /\ tpm' \in {tpm, o.tpm} /\ last' \in [Client -> Nat]
      /\ d.rc = TPM_RC_SUCCESS => o.raw = TPM_RC_SUCCESS /\ d.out = o.out /\ tpm' = o.tpm
  BY <1>1, <1>2, <1>5, SentTyped
<1>7. Effect(c) /\ tpm'.objs = tpm.objs
  <2>1. CASE tpm' = tpm
    BY <2>1, EffectNone
  <2>2. CASE tpm' # tpm
    <3>1. Done(tpm, o) /\ tpm' = o.tpm
      BY <1>4, <1>6, <2>2 DEF Refused
    <3>2. PICK n \in SessionNumber : SessTo(tpm, tpm', [tpm.sess EXCEPT ![n] = se])
      BY <1>4, <3>1, <2>2 DEF Refused
    <3>3. tpm.started /\ tpm'.objs = tpm.objs
      BY <3>1, <3>2 DEF Done, SessTo
    <3> QED BY <1>1, <1>3, <3>2, <3>3, EffectSess
  <2> QED BY <2>1, <2>2
<1>8. sess' \in [Client -> [TssSession -> TssSess]]
  <2>1. CASE UNCHANGED sess
    BY <1>1, <2>1 DEF Typed
  <2>2. CASE /\ d.rc = TPM_RC_SUCCESS
             /\ sess' = [sess EXCEPT ![c][arg[c].i] = [h |-> d.out[1], nonce |-> d.out[2]]]
    <3>1. PICK n \in SessionNumber : d.out = <<n, nonce>>
      BY <1>4, <1>6, <2>2 DEF Refused
    <3>2. [h |-> d.out[1], nonce |-> d.out[2]] \in TssSess
      BY <1>1, <3>1 DEF TssSess
    <3> QED BY <1>1, <2>2, <3>2, OwnTssSession DEF SessionPC
  <2> QED BY <1>2, <2>1, <2>2
<1>9. Succeed(c) \/ Fail(c)
  BY <1>2
<1> QED BY <1>1, <1>6, <1>7, <1>8, <1>9, SessionEnds DEF SessionPC

(* TSS_PolicySecret.                                                       *)
LEMMA SessionSecretKept ==
  ASSUME Inv, NEW c \in Client, SessionSecret(c)
  PROVE  Kept(c)
<1> DEFINE h == sess[c][arg[c].i].h
           nonce == NonceGiven(c)
           o == PolicySecret(tpm, h, nonce, nonce)
           se == Told(tpm.sess[h], nonce)
<1>1. Typed /\ tpm \in TpmState /\ pc[c] = "policy_secret" /\ SessionUnchanged /\ UNCHANGED sess
      /\ pc[c] \in SessionPC
  BY DEF Inv, Typed, SessionSecret, SessionPC
<1>2. PICK d \in Dispatch(c, o) : Sent(c, d) /\ (Succeed(c) \/ Fail(c))
  BY DEF SessionSecret
<1>3. nonce \in {NoNonce} \cup Nonce
  BY <1>1, OwnTssSession DEF NonceGiven
<1> HIDE DEF nonce, h
<1>4. \/ Refused(tpm, o)
      \/ /\ Done(tpm, o) /\ h \in SessionNumber /\ tpm.sess[h] \in Session
         /\ nonce \in {NoNonce, tpm.sess[h].nonce}
         /\ SessTo(tpm, o.tpm, [tpm.sess EXCEPT ![h] = se])
  BY <1>1, <1>3, PolicySecretIs
<1>5. tpm.sess[h] \in Session =>
        /\ se.owner = tpm.sess[h].owner /\ se.nonce = tpm.sess[h].nonce /\ se.secret = nonce
        /\ tpm.sess[h] # NoSession
  BY DEF Session, NoSession, Told
<1> HIDE DEF o, se
<1>6. o.raw \in RawCode /\ o.tpm \in TpmState
  BY <1>1, <1>4 DEF Refused, Done, RawCode, SessTo
<1>7. tpm' \in TpmState /\ tpm' \in {tpm, o.tpm} /\ last' \in [Client -> Nat]
  BY <1>1, <1>2, <1>6, SentTyped
<1>8. Effect(c) /\ tpm'.objs = tpm.objs
  <2>1. CASE tpm' = tpm
    BY <2>1, EffectNone
  <2>2. CASE tpm' # tpm
    <3>1. /\ tpm.started /\ h \in SessionNumber /\ tpm.sess[h] \in Session
          /\ nonce \in {NoNonce, tpm.sess[h].nonce}
          /\ SessTo(tpm, tpm', [tpm.sess EXCEPT ![h] = se])
      BY <1>4, <1>7, <2>2 DEF Refused, Done
    <3>2. tpm'.objs = tpm.objs
      BY <3>1 DEF SessTo
    <3> QED BY <1>1, <1>5, <3>1, <3>2, EffectSess
  <2> QED BY <2>1, <2>2
<1>9. sess' \in [Client -> [TssSession -> TssSess]]
  BY <1>1 DEF Typed
<1> QED BY <1>1, <1>2, <1>7, <1>8, <1>9, SessionEnds

(* TPM2_ActivateCredential.                                                *)
LEMMA SessionActivateKept ==
  ASSUME Inv, NEW c \in Client, SessionActivate(c)
  PROVE  Kept(c)
<1> DEFINE h == sess[c][arg[c].i].h
           goes == arg[c].i \in Continued
           o == ActivateCredential(tpm, h, goes)
<1>1. Typed /\ tpm \in TpmState /\ SessionUnchanged /\ UNCHANGED sess /\ pc[c] \in SessionPC
  BY DEF Inv, Typed, SessionActivate, SessionPC
<1>2. PICK d \in Dispatch(c, o) : Sent(c, d) /\ (Succeed(c) \/ Fail(c))
  BY DEF SessionActivate
<1> HIDE DEF h, goes
<1>3. \/ Refused(tpm, o)
      \/ Done(tpm, o) /\ o.tpm = tpm
      \/ /\ Done(tpm, o) /\ h \in SessionNumber
         /\ SessTo(tpm, o.tpm, [tpm.sess EXCEPT ![h] = NoSession])
  BY <1>1, ActivateIs
<1> HIDE DEF o
<1>4. o.raw \in RawCode /\ o.tpm \in TpmState
  BY <1>1, <1>3 DEF Refused, Done, RawCode, SessTo
<1>5. tpm' \in TpmState /\ tpm' \in {tpm, o.tpm} /\ last' \in [Client -> Nat]
  BY <1>1, <1>2, <1>4, SentTyped
<1>6. Effect(c) /\ tpm'.objs = tpm.objs
  <2>1. CASE tpm' = tpm
    BY <2>1, EffectNone
  <2>2. CASE tpm' # tpm
    <3>1. h \in SessionNumber /\ SessTo(tpm, tpm', [tpm.sess EXCEPT ![h] = NoSession])
      BY <1>3, <1>5, <2>2 DEF Refused
    <3> QED BY <1>1, <3>1, EffectSess DEF SessTo
  <2> QED BY <2>1, <2>2
<1>7. sess' \in [Client -> [TssSession -> TssSess]]
  BY <1>1 DEF Typed
<1> QED BY <1>1, <1>2, <1>5, <1>6, <1>7, SessionEnds

(* TPM2_FlushContext of a session.                                         *)
LEMMA SessionFlushKept ==
  ASSUME Inv, NEW c \in Client, SessionFlush(c)
  PROVE  Kept(c)
<1> DEFINE h == sess[c][arg[c].i].h
           o == FlushSession(tpm, h)
<1>1. Typed /\ tpm \in TpmState /\ SessionUnchanged /\ pc[c] \in SessionPC
  BY DEF Inv, Typed, SessionFlush, SessionPC
<1>2. PICK d \in Dispatch(c, o) :
        /\ Sent(c, d)
        /\ \/ Succeed(c) /\ sess' = [sess EXCEPT ![c][arg[c].i] = NotStarted]
           \/ Fail(c) /\ UNCHANGED sess
  BY Zenon DEF SessionFlush
<1> HIDE DEF h
<1>3. \/ Refused(tpm, o)
      \/ /\ Done(tpm, o) /\ h \in SessionNumber
         /\ SessTo(tpm, o.tpm, [tpm.sess EXCEPT ![h] = NoSession])
  BY <1>1, FlushSessionIs
<1> HIDE DEF o
<1>4. o.raw \in RawCode /\ o.tpm \in TpmState
  BY <1>1, <1>3 DEF Refused, Done, RawCode, SessTo
<1>5. tpm' \in TpmState /\ tpm' \in {tpm, o.tpm} /\ last' \in [Client -> Nat]
  BY <1>1, <1>2, <1>4, SentTyped
<1>6. Effect(c) /\ tpm'.objs = tpm.objs
  <2>1. CASE tpm' = tpm
    BY <2>1, EffectNone
  <2>2. CASE tpm' # tpm
    <3>1. h \in SessionNumber /\ SessTo(tpm, tpm', [tpm.sess EXCEPT ![h] = NoSession])
      BY <1>3, <1>5, <2>2 DEF Refused
    <3> QED BY <1>1, <3>1, EffectSess DEF SessTo
  <2> QED BY <2>1, <2>2
<1>7. sess' \in [Client -> [TssSession -> TssSess]]
  <2>1. CASE UNCHANGED sess
    BY <1>1, <2>1 DEF Typed
  <2>2. CASE sess' = [sess EXCEPT ![c][arg[c].i] = NotStarted]
    <3>1. NotStarted \in TssSess
      BY DEF TssSess
    <3> QED BY <1>1, <2>2, <3>1, OwnTssSession
  <2> QED BY <1>2, <2>1, <2>2
<1> QED BY <1>1, <1>2, <1>5, <1>6, <1>7, SessionEnds
-----------------------------------------------------------------------------
(***************************************************************************)
(* Every step keeps the invariant.                                         *)
(***************************************************************************)
LEMMA InitInv ==
  ASSUME Init
  PROVE  Inv
<1>1. /\ comm = [c \in Client |-> "null"] /\ last = [c \in Client |-> TPM_RC_SUCCESS]
      /\ pc = [c \in Client |-> "idle"] /\ arg = [c \in Client |-> NoArg]
      /\ obj = [c \in Client |-> 0] /\ pub = [c \in Client |-> NoKey]
      /\ maxIn = [c \in Client |-> 0] /\ pos = [c \in Client |-> 0]
      /\ rc = [c \in Client |-> TPM_RC_FAILURE] /\ keyRet = [c \in Client |-> "0"]
      /\ sigRet = [c \in Client |-> 0] /\ sig = [c \in Client |-> NoSig]
      /\ sess = [c \in Client |-> [i \in TssSession |-> NotStarted]]
      /\ cleared = [c \in Client |-> 0]
      /\ calls = [c \in Client |-> 0] /\ troubled = [c \in Client |-> FALSE]
  BY DEF Init
<1>2. PICK n \in InputBuffer :
        tpm = [started |-> ~Emulator, keys |-> [h \in PersHandle |-> NoKey],
               objs |-> [s \in Slot |-> NoObj],
               sess |-> [s \in SessionNumber |-> NoSession], limit |-> n]
  BY DEF Init
<1>3. tpm \in TpmState /\ tpm.started = ~Emulator
      /\ (\A s \in Slot : tpm.objs[s] = NoObj) /\ \A s \in SessionNumber : tpm.sess[s] = NoSession
  BY <1>2, CodecAssumption DEF TpmState
<1>4. Typed
  <2>1. [i \in TssSession |-> NotStarted] \in [TssSession -> TssSess]
    BY DEF TssSess
  <2>2. TPM_RC_SUCCESS \in Nat /\ TPM_RC_FAILURE \in Nat /\ NoArg \in Arg /\ NoSig \in Mac
        /\ MaxCalls \in Nat
    BY ConstantsTyped
  <2> QED BY <1>1, <1>3, <2>1, <2>2 DEF Typed, PC
<1>5. TpmInv
  BY <1>3, CodecAssumption DEF TpmInv
<1>6. ASSUME NEW c \in Client PROVE CallInv(c)
  <2>1. /\ pc[c] = "idle" /\ sig[c] = NoSig /\ keyRet[c] = "0" /\ rc[c] # TPM_RC_SUCCESS
        /\ cleared[c] = 0 /\ calls[c] = 0
    BY <1>1, ConstantsTyped
  <2>2. ArgInv(c) /\ ObjInv(c) /\ KeyInv(c) /\ SigInv(c) /\ StartInv(c)
    BY <2>1 DEF ArgInv, SessionPC, ObjInv, KeyPC, PiecePC, KeyInv, SigInv, StartInv
  <2>3. LeakInv(c) /\ ClearInv(c)
    BY <1>3, <2>1 DEF LeakInv, ClearInv
  <2> QED BY <2>2, <2>3 DEF CallInv
<1> QED BY <1>4, <1>5, <1>6 DEF Inv

(* Every step of every client keeps the invariant, for that client and the others. *)
LEMMA NextInv ==
  ASSUME Inv, [Next]_vars
  PROVE  Inv'
<1>1. ASSUME NEW c \in Client, Call(c) PROVE Kept(c)
  <2>1. CASE InitConnects(c) \/ InitNoConnection(c) \/ Deinit(c)
    BY <2>1, InitConnectsKept, InitNoConnectionKept, DeinitKept
  <2>2. CASE \E h \in PersHandle : KeyCall(c, h)
    BY <2>2, KeyCallKept
  <2>3. CASE \E n \in SigBufSize : SignTooSmall(c, n)
    BY <2>3, SignTooSmallKept
  <2>4. CASE \E n \in TokenSize : SignCall(c, n)
    BY <2>4, SignCallKept
  <2>5. CASE \E i \in TssSession \ Started(c) : SessionCall(c, i, "start_session", FALSE)
    BY <2>5, SessionCallKept
  <2>6. CASE \E i \in Started(c), given \in BOOLEAN : SessionCall(c, i, "policy_secret", given)
    BY <2>6, SessionCallKept DEF Started
  <2>7. CASE \E i \in Started(c), p \in {"activate", "end_session"} : SessionCall(c, i, p, FALSE)
    BY <2>7, SessionCallKept DEF Started
  <2> QED BY <1>1, <2>1, <2>2, <2>3, <2>4, <2>5, <2>6, <2>7 DEF Call
<1>2. ASSUME NEW c \in Client, Continue(c) PROVE Kept(c)
  <2>1. CASE InitStartup(c) \/ InitFlush(c) \/ InitFlushFreed(c)
    BY <2>1, InitStartupKept, InitFlushKept, InitFlushFreedKept
  <2>2. CASE KeyReadPublic(c) \/ KeyCreatePrimary(c) \/ KeyEvict(c) \/ KeyFlush(c)
    BY <2>2, KeyReadPublicKept, KeyCreatePrimaryKept, KeyEvictKept, KeyFlushKept
  <2>3. CASE SignProperty(c) \/ SignHmac(c) \/ SignHmacStart(c)
    BY <2>3, SignPropertyKept, SignHmacKept, SignHmacStartKept
  <2>4. CASE SignUpdate(c) \/ SignComplete(c) \/ SignRefused(c)
    BY <2>4, SignUpdateKept, SignCompleteKept, SignRefusedKept
  <2>5. CASE SessionStart(c) \/ SessionSecret(c) \/ SessionActivate(c) \/ SessionFlush(c)
    BY <2>5, SessionStartKept, SessionSecretKept, SessionActivateKept, SessionFlushKept
  <2> QED BY <1>2, <2>1, <2>2, <2>3, <2>4, <2>5 DEF Continue
<1>3. CASE Next
  <2>1. PICK c \in Client : Call(c) \/ Continue(c) \/ Crash(c)
    BY <1>3 DEF Next
  <2>2. Kept(c)
    BY <1>1, <1>2, <2>1, CrashKept
  <2> QED BY <2>2, OthersKept
<1>4. CASE UNCHANGED vars
  BY <1>4 DEF vars, localVars, retVars, sessVars, Inv, Typed, TpmInv, CallInv, ArgInv, ObjInv, KeyInv,
              SigInv, LeakInv, StartInv, ClearInv, OwnSession
<1> QED BY <1>3, <1>4

(* The invariant holds in every reachable state.                           *)
LEMMA InvHolds == Spec => []Inv
<1>1. Init => Inv
  BY InitInv
<1>2. Inv /\ [Next]_vars => Inv'
  BY NextInv
<1> QED BY <1>1, <1>2, PTL DEF Spec
-----------------------------------------------------------------------------
(* Every variable is of its type, whatever the programs do and whatever    *)
(* goes wrong on the way to the TPM.                                       *)
THEOREM Typing == Spec => []TypeOK
<1>1. Inv => TypeOK
  <2> SUFFICES ASSUME Inv PROVE TypeOK
    OBVIOUS
  <2>1. Typed /\ tpm \in TpmState
    BY DEF Inv, Typed
  <2>2. /\ tpm.started \in BOOLEAN /\ tpm.limit \in InputBuffer
        /\ tpm.keys \in [PersHandle -> Key \cup {NoKey}]
        /\ DOMAIN tpm.objs = Slot /\ \A s \in Slot : tpm.objs[s] \in Object \cup {NoObj}
        /\ DOMAIN tpm.sess = SessionNumber
    BY <2>1, TpmFields
  <2>3. \A c \in Client, i \in TssSession : sess[c][i] = NotStarted \/ sess[c][i].h \in SessionNumber
    BY <2>1 DEF Typed, TssSess
  <2> QED BY <2>1, <2>2, <2>3 DEF Typed, TypeOK
<1> QED BY <1>1, InvHolds, PTL

(* A handle that TSS_CreatePersistentKey returned names a persistent       *)
(* object, and outPub is its public area.                                  *)
THEOREM KeysPersist == Spec => []ReturnedKeyIsPersistent
<1>1. Inv => ReturnedKeyIsPersistent
  BY DEF Inv, CallInv, KeyInv, ReturnedKeyIsPersistent
<1> QED BY <1>1, InvHolds, PTL

(* What SignData returns is the HMAC of the whole token, wherever it was   *)
(* cut: for every size of token and of the TPM's input buffer.             *)
THEOREM TokensCovered == Spec => []SignatureCoversToken
<1>1. Inv => SignatureCoversToken
  BY DEF Inv, CallInv, SigInv, SignatureCoversToken
<1> QED BY <1>1, InvHolds, PTL

(* A program whose calls succeed leaves no transient object behind.        *)
THEOREM NothingLeaks == Spec => []NoTransientLeak
<1>1. Inv => NoTransientLeak
  <2> SUFFICES ASSUME Inv, NEW s \in Slot, tpm.objs[s] # NoObj
               PROVE  troubled[tpm.objs[s].owner] \/ pc[tpm.objs[s].owner] # "idle"
    BY DEF NoTransientLeak
  <2>1. tpm.objs[s].owner \in Client
    BY DEF Inv, Typed, TpmState, Object
  <2>2. LeakInv(tpm.objs[s].owner)
    BY <2>1 DEF Inv, CallInv
  <2> QED BY <2>2 DEF LeakInv, KeyPC, PiecePC
<1> QED BY <1>1, InvHolds, PTL

(* Initialize_TPM_Codec reports success only on a TPM that was started,    *)
(* over a connection that is open.                                         *)
THEOREM SuccessIsStarted == Spec => []InitializedIsStarted
<1>1. Inv => InitializedIsStarted
  BY DEF Inv, CallInv, StartInv, InitializedIsStarted
<1> QED BY <1>1, InvHolds, PTL

(* The secret is shown to the session it was meant for.                    *)
THEOREM SecretsGoHome == Spec => []SecretGoesToOwnSession
<1>1. Inv => SecretGoesToOwnSession
  BY DEF Inv, TpmInv, OpenSessions, SecretGoesToOwnSession
<1> QED BY <1>1, InvHolds, PTL

(* The flushes of Initialize_TPM_Codec leave no session of an earlier run, *)
(* on a TPM that has no more sessions than it flushes: Implementation.h    *)
(* has MAX_LOADED_SESSIONS 3.                                              *)
THEOREM PreviousRunsCleared ==
  ASSUME MaxSession <= Sessions
  PROVE  Spec => []ClearedFromPreviousRuns
<1>1. Inv => ClearedFromPreviousRuns
  BY DEF Inv, CallInv, ClearInv, OwnSession, OpenSessions, ClearedFromPreviousRuns
<1> QED BY <1>1, InvHolds, PTL
=============================================================================
