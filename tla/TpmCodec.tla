------------------------------ MODULE TpmCodec ------------------------------
(***************************************************************************)
(* src/tpm_codec.c: TSS_DEVICE and the calls made on it, by several        *)
(* programs that share one TPM.  Each program is one thread; a call is a   *)
(* run of TPM commands and one step is one command: TSS_BuildCommand,      *)
(* tpm_comm_submit_command, the TPM, TSS_DispatchCmd's reading of the      *)
(* response, and what the caller makes of the result up to its next        *)
(* command.  Commands of other programs come in between.                   *)
(*                                                                         *)
(* The transport is any that delivers commands whole: a command or its     *)
(* reply may be lost, later ones are not affected.                         *)
(***************************************************************************)
EXTENDS Tpm, FiniteSets

CONSTANTS
  Client,            \* the programs
  TssSession,        \* the TSS_SESSIONs of a program
  Continued,         \* those started with continueSession
  Template,          \* Template[c]: the key template c passes as inPub
  IdKey,             \* DPS_ID_KEY_HANDLE, the persistent key SignData uses
  TokenSize,         \* token sizes SignData is called with
  SigBufSize,        \* capacities of the caller's signature buffer
  InputBuffer,       \* values the TPM gives TPM_PT_INPUT_BUFFER
  MAX_DIGEST_BUFFER, \* 1024 in the code
  Emulator,          \* tpm_comm_get_type() = TPM_COMM_TYPE_EMULATOR
  ResourceManager,   \* closing a connection unloads its transient objects
  MaxCalls,          \* bound: calls per program
  Faults             \* what may go wrong: a subset of FaultKind

FaultKind == {"connect", "notsent", "noreply", "garbled", "warn", "noproperty", "crash"}

BadProperty == 65535                \* TSS_BAD_PROPERTY, 2^32 - 1 in the code: above every token size

ASSUME CodecAssumption ==
  /\ \A n \in TokenSize : n \in Nat /\ n < BadProperty
  /\ SigBufSize \subseteq Nat /\ InputBuffer \subseteq Nat
  /\ MAX_DIGEST_BUFFER \in Nat /\ MaxSlot \in Nat /\ MaxCalls \in Nat
  /\ Faults \subseteq FaultKind /\ IdKey \in PersHandle
  /\ Emulator \in BOOLEAN /\ ResourceManager \in BOOLEAN
  /\ MaxSession \in Nat /\ Continued \subseteq TssSession
  /\ \A c \in Client : Template[c] # NoKey
  /\ ResourceManager => TssSession = {}

DigestSize == 32                    \* TSS_GetDigestSize(ALG_SHA256_VALUE)
Sessions == 3                       \* policy sessions flushed by Initialize_TPM_Codec

VARIABLES
  tpm,      \* the shared TPM
  comm,     \* comm[c]: tpm_comm_handle: "null", "open", or "freed" by a destroy that left it set
  last,     \* last[c]: LastRawResponse
  pc,       \* pc[c]: the command c is about to send, or "idle", or "aborted"
  arg,      \* arg[c]: arguments of the last calls: a key handle h, a token size, a TSS_SESSION i;
            \* n session flushes done; odd: the turns of the token loop are; given: nonceTPM is not NULL
  obj,      \* obj[c]: the transient handle the call holds (0: none)
  pub,      \* pub[c]: outPub
  maxIn,    \* maxIn[c]: MaxInputBuffer
  pos,      \* pos[c]: bytes of the token before curPos
  rc,       \* rc[c]: result of Initialize_TPM_Codec
  keyRet,   \* keyRet[c]: result of TSS_CreatePersistentKey
  sigRet,   \* sigRet[c]: result of SignData
  sig,      \* sig[c]: the digest copied to signatureBuffer
  sess,     \* sess[c][i]: sessionHandle and SessOut.nonce of a TSS_SESSION that was started
  cleared,  \* history: the call that last flushed every session in Initialize_TPM_Codec, or 0
  calls,    \* calls made, for the bound
  troubled  \* history: a call of c has failed

localVars == <<arg, obj, pub, maxIn, pos>>
retVars   == <<rc, keyRet, sigRet, sig>>
sessVars  == <<sess, cleared>>
vars == <<tpm, comm, last, pc, localVars, retVars, sessVars, calls, troubled>>

NoSig == [key |-> NoKey, data |-> << >>]
NoArg == [h |-> IdKey, size |-> 0, n |-> 0, i |-> "none", odd |-> FALSE, given |-> FALSE]
NotStarted == [h |-> -1, nonce |-> NoNonce]

Init ==
  /\ \E n \in InputBuffer :
       tpm = [started |-> ~Emulator, keys |-> [h \in PersHandle |-> NoKey],
              objs |-> [s \in Slot |-> NoObj],
              sess |-> [s \in SessionNumber |-> NoSession], limit |-> n]
  /\ comm = [c \in Client |-> "null"] /\ last = [c \in Client |-> TPM_RC_SUCCESS]
  /\ pc = [c \in Client |-> "idle"] /\ arg = [c \in Client |-> NoArg]
  /\ obj = [c \in Client |-> 0] /\ pub = [c \in Client |-> NoKey]
  /\ maxIn = [c \in Client |-> 0] /\ pos = [c \in Client |-> 0]
  /\ rc = [c \in Client |-> TPM_RC_FAILURE] /\ keyRet = [c \in Client |-> "0"]
  /\ sigRet = [c \in Client |-> 0] /\ sig = [c \in Client |-> NoSig]
  /\ sess = [c \in Client |-> [i \in TssSession |-> NotStarted]]
  /\ cleared = [c \in Client |-> 0]
  /\ calls = [c \in Client |-> 0] /\ troubled = [c \in Client |-> FALSE]

Set(f, c, v) == f' = [f EXCEPT ![c] = v]
Goto(c, p) == Set(pc, c, p)

(***************************************************************************)
(* TSS_DispatchCmd.  o is what the TPM does on the command; a result d has *)
(* the TPM's state after it, LastRawResponse, the cleaned code rc and the  *)
(* output.  A command that cannot be sent, or whose reply is lost, gives   *)
(* TPM_RC_COMMAND_CODE and leaves LastRawResponse alone.  A reply cut off  *)
(* before its response code leaves it at TPM_RC_NOT_USED, one cut off      *)
(* behind it does not; either gives TPM_RC_INSUFFICIENT, and a reply whose *)
(* size field disagrees with its length gives TPM_RC_COMMAND_SIZE.         *)
(***************************************************************************)
Garbled(raw) == {<<TPM_RC_NOT_USED, TPM_RC_INSUFFICIENT>>,
                 <<raw, TPM_RC_INSUFFICIENT>>, <<raw, TPM_RC_COMMAND_SIZE>>}

Result(t, raw, code, o) == [tpm |-> t, last |-> raw, rc |-> code, out |-> o]

Dispatch(c, o) ==
  {Result(o.tpm, o.raw, CleanCode(o.raw), o.out)}
  \cup (IF "warn" \in Faults   \* the TPM puts the command off
          THEN {Result(tpm, TPM_RC_RETRY, CleanCode(TPM_RC_RETRY), NoOut)} ELSE {})
  \cup (IF "notsent" \in Faults THEN {Result(tpm, last[c], TPM_RC_COMMAND_CODE, NoOut)} ELSE {})
  \cup (IF "noreply" \in Faults THEN {Result(o.tpm, last[c], TPM_RC_COMMAND_CODE, NoOut)} ELSE {})
  \cup (IF "garbled" \in Faults
          THEN {Result(o.tpm, g[1], g[2], NoOut) : g \in Garbled(o.raw)} ELSE {})

(* The command went over an open connection, with result d. *)
Sent(c, d) == comm[c] = "open" /\ tpm' = d.tpm /\ Set(last, c, d.last)

(* A call is made by a program that has none in progress.                  *)
Begin(c, p) ==
  /\ pc[c] = "idle" /\ calls[c] < MaxCalls
  /\ Goto(c, p)
  /\ Set(calls, c, calls[c] + 1)

(* The call of c ends. *)
Fail(c) == Goto(c, "idle") /\ Set(troubled, c, TRUE)
Succeed(c) == Goto(c, "idle") /\ UNCHANGED troubled

(***************************************************************************)
(* Initialize_TPM_Codec and Deinit_TPM_Codec.                              *)
(***************************************************************************)
InitConnects(c) ==
  /\ comm[c] \in {"null", "freed"}
  /\ Begin(c, IF Emulator THEN "startup" ELSE "flush_session")
  /\ Set(comm, c, "open")
  /\ Set(rc, c, TPM_RC_SUCCESS)
  /\ Set(arg, c, [arg[c] EXCEPT !.n = 0])
  /\ Set(cleared, c, calls[c] + 1)
  /\ UNCHANGED <<sess, tpm, last, obj, pub, maxIn, pos, keyRet, sigRet, sig, troubled>>

InitNoConnection(c) ==
  /\ "connect" \in Faults
  /\ comm[c] \in {"null", "freed"}
  /\ pc[c] = "idle" /\ calls[c] < MaxCalls
  /\ Set(calls, c, calls[c] + 1)
  /\ Set(comm, c, "null") /\ Set(rc, c, TPM_RC_FAILURE)
  /\ Fail(c)
  /\ UNCHANGED <<tpm, last, localVars, sessVars, keyRet, sigRet, sig>>

(* Mutant: whatever TPM2_Startup answers is taken for success. *)
InitStartup_Unchecked(c) ==
  /\ pc[c] = "startup"
  /\ \E d \in Dispatch(c, Startup(tpm)) :
       /\ Sent(c, d)
       /\ Goto(c, "flush_session") /\ Set(rc, c, TPM_RC_SUCCESS)
  /\ UNCHANGED <<comm, localVars, sessVars, keyRet, sigRet, sig, calls, troubled>>

(* A TPM already started answers TPM_RC_INITIALIZE, which is as good as    *)
(* success.  Any other code destroys the connection, without clearing the  *)
(* handle, and the function goes on to the session flushes all the same.   *)
InitStartup(c) ==
  /\ pc[c] = "startup"
  /\ \E d \in Dispatch(c, Startup(tpm)) :
       /\ Sent(c, d)
       /\ Goto(c, "flush_session")
       /\ IF d.rc \in {TPM_RC_SUCCESS, TPM_RC_INITIALIZE}
            THEN Set(rc, c, TPM_RC_SUCCESS) /\ UNCHANGED <<comm, troubled>>
            ELSE /\ Set(rc, c, d.rc) /\ Set(comm, c, "freed")
                 /\ Set(troubled, c, TRUE)
  /\ UNCHANGED <<localVars, sessVars, keyRet, sigRet, sig, calls>>

(* Mutant: the last of the three flushes is forgotten.                     *)
NextFlush_OneShort(c) ==
  /\ IF arg[c].n + 2 < Sessions
       THEN Set(arg, c, [arg[c] EXCEPT !.n = @ + 1]) /\ UNCHANGED pc
       ELSE Goto(c, "idle") /\ UNCHANGED arg

(* The three calls one behind the other: arg.n of them are done.           *)
NextFlush(c) ==
  /\ IF arg[c].n + 1 < Sessions
       THEN Set(arg, c, [arg[c] EXCEPT !.n = @ + 1]) /\ UNCHANGED pc
       ELSE Goto(c, "idle") /\ UNCHANGED arg

(* Flush policy session arg.n "from previous runs"; the result is ignored. *)
InitFlush(c) ==
  /\ pc[c] = "flush_session"
  /\ LET o == FlushSession(tpm, arg[c].n) IN
     \E d \in Dispatch(c, o) :
       /\ Sent(c, d)
       /\ NextFlush(c)
       /\ Set(cleared, c, IF d.tpm = o.tpm THEN cleared[c] ELSE 0)
  /\ UNCHANGED <<sess, comm, obj, pub, maxIn, pos, retVars, calls, troubled>>

(* The same on a destroyed connection: freed memory is used.  The program  *)
(* may be stopped, or the send fails.                                      *)
InitFlushFreed(c) ==
  /\ pc[c] = "flush_session" /\ comm[c] = "freed"
  /\ \/ Goto(c, "aborted") /\ UNCHANGED arg
     \/ NextFlush(c)
  /\ Set(cleared, c, 0)
  /\ UNCHANGED <<sess, tpm, comm, last, obj, pub, maxIn, pos, retVars, calls, troubled>>

(* tpm_comm_destroy; tpm_comm_handle keeps its value.                      *)
Deinit(c) ==
  /\ pc[c] = "idle" /\ comm[c] = "open"
  /\ Set(comm, c, "freed")
  /\ tpm' = IF ResourceManager THEN Unload(tpm, c) ELSE tpm
  /\ Set(rc, c, TPM_RC_FAILURE)
  /\ UNCHANGED <<sessVars, last, pc, localVars, keyRet, sigRet, sig, calls, troubled>>

(***************************************************************************)
(* TSS_CreatePersistentKey.                                                *)
(***************************************************************************)
KeyCall(c, h) ==
  /\ comm[c] = "open" /\ rc[c] = TPM_RC_SUCCESS
  /\ Begin(c, "read_public")
  /\ Set(arg, c, [arg[c] EXCEPT !.h = h])
  /\ Set(keyRet, c, "0") /\ Set(obj, c, 0)
  /\ UNCHANGED <<sessVars, tpm, comm, last, pub, maxIn, pos, rc, sigRet, sig, troubled>>

KeyUnchanged == UNCHANGED <<sessVars, comm, arg, maxIn, pos, rc, sigRet, sig, calls>>

KeyReadPublic(c) ==
  /\ pc[c] = "read_public"
  /\ \E d \in Dispatch(c, ReadPublic(tpm, arg[c].h)) :
       /\ Sent(c, d)
       /\ CASE d.rc = TPM_RC_SUCCESS ->
                 Succeed(c) /\ Set(keyRet, c, arg[c].h) /\ Set(pub, c, d.out[1])
            [] d.rc = TPM_RC_HANDLE ->
                 Goto(c, "create_primary") /\ UNCHANGED <<keyRet, pub, troubled>>
            [] OTHER -> Fail(c) /\ UNCHANGED <<keyRet, pub>>
  /\ UNCHANGED obj /\ KeyUnchanged

KeyCreatePrimary(c) ==
  /\ pc[c] = "create_primary"
  /\ \E d \in Dispatch(c, CreatePrimary(tpm, c, Template[c])) :
       /\ Sent(c, d)
       /\ IF d.rc = TPM_RC_SUCCESS
            THEN /\ Goto(c, "evict") /\ Set(obj, c, d.out[1]) /\ Set(pub, c, Template[c])
                 /\ UNCHANGED troubled
            ELSE Fail(c) /\ UNCHANGED <<obj, pub>>
  /\ UNCHANGED keyRet /\ KeyUnchanged

(* Mutants: a handle that is already taken is as good as success; the      *)
(* object is not flushed.                                                  *)
KeyEvict_TakenIsFine(c) ==
  /\ pc[c] = "evict"
  /\ \E d \in Dispatch(c, EvictControl(tpm, obj[c], arg[c].h)) :
       /\ Sent(c, d)
       /\ IF d.rc \in {TPM_RC_SUCCESS, TPM_RC_NV_DEFINED}
            THEN Goto(c, "flush") /\ UNCHANGED troubled
            ELSE Fail(c)
  /\ UNCHANGED <<obj, pub, keyRet>> /\ KeyUnchanged

KeyEvict_NoFlush(c) ==
  /\ pc[c] = "evict"
  /\ \E d \in Dispatch(c, EvictControl(tpm, obj[c], arg[c].h)) :
       /\ Sent(c, d)
       /\ IF d.rc = TPM_RC_SUCCESS
            THEN Succeed(c) /\ Set(keyRet, c, arg[c].h)
            ELSE Fail(c) /\ UNCHANGED keyRet
  /\ UNCHANGED <<obj, pub>> /\ KeyUnchanged

(* A failure here or at the flush returns 0 and leaves the object loaded.  *)
KeyEvict(c) ==
  /\ pc[c] = "evict"
  /\ \E d \in Dispatch(c, EvictControl(tpm, obj[c], arg[c].h)) :
       /\ Sent(c, d)
       /\ IF d.rc = TPM_RC_SUCCESS
            THEN Goto(c, "flush") /\ UNCHANGED troubled
            ELSE Fail(c)
  /\ UNCHANGED <<obj, pub, keyRet>> /\ KeyUnchanged

KeyFlush(c) ==
  /\ pc[c] = "flush"
  /\ \E d \in Dispatch(c, FlushContext(tpm, obj[c])) :
       /\ Sent(c, d)
       /\ IF d.rc = TPM_RC_SUCCESS
            THEN Succeed(c) /\ Set(keyRet, c, arg[c].h)
            ELSE Fail(c) /\ UNCHANGED keyRet
  /\ UNCHANGED <<obj, pub>> /\ KeyUnchanged

(***************************************************************************)
(* SignData.                                                               *)
(***************************************************************************)
(* Byte i of the token is i. *)
Bytes(from, to) == [i \in 1..(to - from) |-> from + i]
Token(n) == Bytes(0, n)

(* Mutant: the capacity is returned instead of the size needed. *)
SignTooSmall_Capacity(c, n) ==
  /\ comm[c] = "open" /\ pc[c] = "idle" /\ calls[c] < MaxCalls
  /\ n < DigestSize
  /\ Set(calls, c, calls[c] + 1)
  /\ Set(sigRet, c, n) /\ Set(sig, c, NoSig)
  /\ UNCHANGED <<sessVars, tpm, comm, last, pc, localVars, rc, keyRet, troubled>>

(* A signature buffer that is too small: the size needed, nothing signed.  *)
SignTooSmall(c, n) ==
  /\ comm[c] = "open" /\ pc[c] = "idle" /\ calls[c] < MaxCalls
  /\ n < DigestSize
  /\ Set(calls, c, calls[c] + 1)
  /\ Set(sigRet, c, DigestSize) /\ Set(sig, c, NoSig)
  /\ UNCHANGED <<sessVars, tpm, comm, last, pc, localVars, rc, keyRet, troubled>>

SignCall(c, n) ==
  /\ comm[c] = "open" /\ rc[c] = TPM_RC_SUCCESS
  /\ \E b \in SigBufSize : b >= DigestSize
  /\ Begin(c, "property")
  /\ Set(arg, c, [arg[c] EXCEPT !.size = n, !.odd = FALSE])
  /\ Set(sigRet, c, 0) /\ Set(sig, c, NoSig)
  /\ Set(obj, c, 0) /\ Set(pos, c, 0)
  /\ UNCHANGED <<sessVars, tpm, comm, last, pub, maxIn, rc, keyRet, troubled>>

SignUnchanged == UNCHANGED <<sessVars, comm, arg, pub, rc, keyRet, calls>>

SignFails(c) == Fail(c) /\ UNCHANGED <<sigRet, sig>>
SignSucceeds(c, out) == Succeed(c) /\ Set(sigRet, c, DigestSize) /\ Set(sig, c, out)

(* Mutant: a property that could not be had counts as 0.                   *)
SignProperty_Zero(c) ==
  /\ pc[c] = "property"
  /\ \E v \in {tpm.limit} \cup (IF "noproperty" \in Faults THEN {0} ELSE {}) :
       \E d \in Dispatch(c, GetCapability(tpm, v)) :
         /\ Sent(c, d)
         /\ LET m == IF d.rc = TPM_RC_SUCCESS THEN d.out[1] ELSE 0
            IN /\ Set(maxIn, c, m)
               /\ Goto(c, IF arg[c].size > m THEN "hmac_start" ELSE "hmac")
  /\ UNCHANGED <<obj, pos, sigRet, sig, troubled>> /\ SignUnchanged

(* TSS_GetTpmProperty: a failed command, or a TPM that does not list the   *)
(* property, gives TSS_BAD_PROPERTY, which no token size exceeds.          *)
SignProperty(c) ==
  /\ pc[c] = "property"
  /\ \E v \in {tpm.limit} \cup (IF "noproperty" \in Faults THEN {BadProperty} ELSE {}) :
       \E d \in Dispatch(c, GetCapability(tpm, v)) :
         /\ Sent(c, d)
         /\ LET m == IF d.rc = TPM_RC_SUCCESS THEN d.out[1] ELSE BadProperty
            IN /\ Set(maxIn, c, m)
               /\ Goto(c, IF arg[c].size > m THEN "hmac_start" ELSE "hmac")
  /\ UNCHANGED <<obj, pos, sigRet, sig, troubled>> /\ SignUnchanged

(* TSS_HMAC: one command for the whole token.                              *)
SignHmac(c) ==
  /\ pc[c] = "hmac" /\ arg[c].size <= MAX_DIGEST_BUFFER
  /\ \E d \in Dispatch(c, HMAC(tpm, IdKey, Token(arg[c].size))) :
       /\ Sent(c, d)
       /\ IF d.rc = TPM_RC_SUCCESS
          THEN SignSucceeds(c, d.out[1])
          ELSE SignFails(c)
  /\ UNCHANGED <<obj, maxIn, pos>> /\ SignUnchanged

SignHmacStart(c) ==
  /\ pc[c] = "hmac_start"
  /\ \E d \in Dispatch(c, HMAC_Start(tpm, c, IdKey)) :
       /\ Sent(c, d)
       /\ IF d.rc = TPM_RC_SUCCESS
            THEN /\ Goto(c, "update") /\ Set(obj, c, d.out[1])
                 /\ UNCHANGED <<sigRet, sig, troubled>>
            ELSE SignFails(c) /\ UNCHANGED obj
  /\ UNCHANGED <<maxIn, pos>> /\ SignUnchanged

(* Mutant: the last piece is a byte short.                                 *)
SignComplete_Short(c) ==
  /\ pc[c] = "complete" /\ arg[c].size - pos[c] <= MAX_DIGEST_BUFFER
  /\ \E d \in Dispatch(c, SequenceComplete(tpm, obj[c], Bytes(pos[c], arg[c].size - 1))) :
       /\ Sent(c, d)
       /\ IF d.rc = TPM_RC_SUCCESS
          THEN SignSucceeds(c, d.out[1])
          ELSE SignFails(c)
  /\ UNCHANGED <<obj, maxIn, pos>> /\ SignUnchanged

(* One turn of the do-while loop.  With an input buffer of 0 bytes a turn  *)
(* changes nothing but arg.odd, by which it is still a step.               *)
SignUpdate(c) ==
  /\ pc[c] = "update" /\ maxIn[c] <= MAX_DIGEST_BUFFER
  /\ \E d \in Dispatch(c, SequenceUpdate(tpm, obj[c], Bytes(pos[c], pos[c] + maxIn[c]))) :
       /\ Sent(c, d)
       /\ IF d.rc = TPM_RC_SUCCESS
            THEN /\ Set(pos, c, pos[c] + maxIn[c])
                 /\ Goto(c, IF arg[c].size - (pos[c] + maxIn[c]) > maxIn[c]
                              THEN "update" ELSE "complete")
                 /\ Set(arg, c, [arg[c] EXCEPT !.odd = ~@])
                 /\ UNCHANGED <<sigRet, sig, troubled>>
            ELSE SignFails(c) /\ UNCHANGED <<pos, arg>>
  /\ UNCHANGED <<obj, maxIn, sessVars, comm, pub, rc, keyRet, calls>>

SignComplete(c) ==
  /\ pc[c] = "complete" /\ arg[c].size - pos[c] <= MAX_DIGEST_BUFFER
  /\ \E d \in Dispatch(c, SequenceComplete(tpm, obj[c], Bytes(pos[c], arg[c].size))) :
       /\ Sent(c, d)
       /\ IF d.rc = TPM_RC_SUCCESS
          THEN SignSucceeds(c, d.out[1])
          ELSE SignFails(c)
  /\ UNCHANGED <<obj, maxIn, pos>> /\ SignUnchanged

(* TPM_RC_SIZE without a command: the piece exceeds MAX_DIGEST_BUFFER.     *)
SignRefused(c) ==
  /\ \/ pc[c] = "hmac" /\ arg[c].size > MAX_DIGEST_BUFFER
     \/ pc[c] = "update" /\ maxIn[c] > MAX_DIGEST_BUFFER
     \/ pc[c] = "complete" /\ arg[c].size - pos[c] > MAX_DIGEST_BUFFER
  /\ SignFails(c)
  /\ UNCHANGED <<tpm, last, obj, maxIn, pos>> /\ SignUnchanged

(***************************************************************************)
(* Policy sessions.                                                        *)
(***************************************************************************)
Started(c) == {i \in TssSession : sess[c][i] # NotStarted}

(* What an earlier SignData left to the caller is no longer looked at.     *)
SessionCall(c, i, p, given) ==
  /\ comm[c] = "open" /\ rc[c] = TPM_RC_SUCCESS
  /\ Begin(c, p)
  /\ Set(arg, c, [NoArg EXCEPT !.i = i, !.given = given])
  /\ Set(obj, c, 0) /\ Set(maxIn, c, 0) /\ Set(pos, c, 0)
  /\ Set(sigRet, c, 0) /\ Set(sig, c, NoSig)
  /\ UNCHANGED <<sessVars, tpm, comm, last, pub, rc, keyRet, troubled>>

SessionUnchanged == UNCHANGED <<cleared, comm, localVars, retVars, calls>>

(* TSS_StartAuthSession of a policy session.  The TSS_SESSION is filled in *)
(* from the response.                                                      *)
SessionStart(c) ==
  /\ pc[c] = "start_session"
  /\ \E d \in Dispatch(c, StartAuthSession(tpm, c, <<c, calls[c]>>)) :
       /\ Sent(c, d)
       /\ IF d.rc = TPM_RC_SUCCESS
            THEN /\ Succeed(c)
                 /\ sess' = [sess EXCEPT ![c][arg[c].i] = [h |-> d.out[1], nonce |-> d.out[2]]]
            ELSE Fail(c) /\ UNCHANGED sess
  /\ SessionUnchanged

(* nonceTPM of TSS_PolicySecret: what the caller has in SessOut, or NULL.  *)
NonceGiven(c) == IF arg[c].given THEN sess[c][arg[c].i].nonce ELSE NoNonce

(* Mutant: the nonce is not passed on.                                     *)
SessionSecret_NoNonce(c) ==
  /\ pc[c] = "policy_secret"
  /\ \E d \in Dispatch(c, PolicySecret(tpm, sess[c][arg[c].i].h, NoNonce, NonceGiven(c))) :
       /\ Sent(c, d)
       /\ IF d.rc = TPM_RC_SUCCESS THEN Succeed(c) ELSE Fail(c)
  /\ UNCHANGED sess /\ SessionUnchanged

(* TSS_PolicySecret passes the nonce on as it is.                          *)
SessionSecret(c) ==
  /\ pc[c] = "policy_secret"
  /\ \E d \in Dispatch(c, PolicySecret(tpm, sess[c][arg[c].i].h, NonceGiven(c), NonceGiven(c))) :
       /\ Sent(c, d)
       /\ IF d.rc = TPM_RC_SUCCESS THEN Succeed(c) ELSE Fail(c)
  /\ UNCHANGED sess /\ SessionUnchanged

(* TPM2_ActivateCredential under the session.  The nonces and attributes   *)
(* in the response are not read: the TSS_SESSION stays as it was, though   *)
(* the session may have ended.                                             *)
SessionActivate(c) ==
  /\ pc[c] = "activate"
  /\ \E d \in Dispatch(c, ActivateCredential(tpm, sess[c][arg[c].i].h, arg[c].i \in Continued)) :
       /\ Sent(c, d)
       /\ IF d.rc = TPM_RC_SUCCESS THEN Succeed(c) ELSE Fail(c)
  /\ UNCHANGED sess /\ SessionUnchanged

(* TPM2_FlushContext of the session; the caller is then done with it.      *)
SessionFlush(c) ==
  /\ pc[c] = "end_session"
  /\ \E d \in Dispatch(c, FlushSession(tpm, sess[c][arg[c].i].h)) :
       /\ Sent(c, d)
       /\ IF d.rc = TPM_RC_SUCCESS
            THEN Succeed(c) /\ sess' = [sess EXCEPT ![c][arg[c].i] = NotStarted]
            ELSE Fail(c) /\ UNCHANGED sess
  /\ SessionUnchanged

(* The program dies and may be started again; its connection closes.       *)
Crash(c) ==
  /\ "crash" \in Faults
  /\ pc[c] # "idle" \/ comm[c] = "open"
  /\ tpm' = IF ResourceManager THEN Unload(tpm, c) ELSE tpm
  /\ Set(comm, c, "null") /\ Set(last, c, TPM_RC_SUCCESS)
  /\ Goto(c, "idle")
  /\ Set(arg, c, NoArg) /\ Set(obj, c, 0) /\ Set(pub, c, NoKey)
  /\ Set(maxIn, c, 0) /\ Set(pos, c, 0)
  /\ Set(rc, c, TPM_RC_FAILURE) /\ Set(keyRet, c, "0")
  /\ Set(sigRet, c, 0) /\ Set(sig, c, NoSig)
  /\ Set(sess, c, [i \in TssSession |-> NotStarted]) /\ Set(cleared, c, 0)
  /\ Set(troubled, c, TRUE)
  /\ UNCHANGED calls

-----------------------------------------------------------------------------
Call(c) == \/ InitConnects(c) \/ InitNoConnection(c) \/ Deinit(c)
           \/ \E h \in PersHandle : KeyCall(c, h)
           \/ \E n \in SigBufSize : SignTooSmall(c, n)
           \/ \E n \in TokenSize : SignCall(c, n)
           \/ \E i \in TssSession \ Started(c) : SessionCall(c, i, "start_session", FALSE)
           \/ \E i \in Started(c), given \in BOOLEAN : SessionCall(c, i, "policy_secret", given)
           \/ \E i \in Started(c), p \in {"activate", "end_session"} : SessionCall(c, i, p, FALSE)

Continue(c) == \/ InitStartup(c) \/ InitFlush(c) \/ InitFlushFreed(c)
               \/ KeyReadPublic(c) \/ KeyCreatePrimary(c) \/ KeyEvict(c) \/ KeyFlush(c)
               \/ SignProperty(c) \/ SignHmac(c) \/ SignHmacStart(c)
               \/ SignUpdate(c) \/ SignComplete(c) \/ SignRefused(c)
               \/ SessionStart(c) \/ SessionSecret(c) \/ SessionActivate(c) \/ SessionFlush(c)

Next == \E c \in Client : Call(c) \/ Continue(c) \/ Crash(c)

(* A program with a call in progress runs; nobody is obliged to call.      *)
Fairness == \A c \in Client : WF_vars(Continue(c))

Spec == Init /\ [][Next]_vars
FairSpec == Spec /\ Fairness

-----------------------------------------------------------------------------
(***************************************************************************)
(* Properties.                                                             *)
(***************************************************************************)
Key == {Template[c] : c \in Client}
Object == [kind : {"key", "hmac"}, key : Key, data : Seq(Nat), owner : Client]

TypeOK ==
  /\ tpm.started \in BOOLEAN /\ tpm.limit \in InputBuffer
  /\ tpm.keys \in [PersHandle -> Key \cup {NoKey}]
  /\ DOMAIN tpm.objs = Slot /\ \A s \in Slot : tpm.objs[s] \in Object \cup {NoObj}
  /\ comm \in [Client -> {"null", "open", "freed"}]
  /\ last \in [Client -> Nat] /\ obj \in [Client -> {0} \cup Slot]
  /\ pub \in [Client -> Key \cup {NoKey}]
  /\ maxIn \in [Client -> Nat] /\ pos \in [Client -> Nat]
  /\ rc \in [Client -> Nat] /\ keyRet \in [Client -> PersHandle \cup {"0"}]
  /\ sigRet \in [Client -> {0, DigestSize}]
  /\ DOMAIN tpm.sess = SessionNumber
  /\ \A c \in Client, i \in TssSession :
       sess[c][i] = NotStarted \/ sess[c][i].h \in SessionNumber
  /\ cleared \in [Client -> 0..MaxCalls]
  /\ calls \in [Client -> 0..MaxCalls] /\ troubled \in [Client -> BOOLEAN]

(* A handle TSS_CreatePersistentKey returned names a persistent object,    *)
(* and outPub is that object's public area: whoever created it, however    *)
(* the two programs' commands interleaved, and whatever was lost.          *)
ReturnedKeyIsPersistent ==
  \A c \in Client : keyRet[c] # "0" => /\ tpm.keys[keyRet[c]] # NoKey
                                      /\ pub[c] = tpm.keys[keyRet[c]]

(* A signature SignData returns is the HMAC of exactly the token, under    *)
(* the identity key, wherever the token was cut and whatever the TPM said  *)
(* of its input buffer (the loop on bytesLeft and curPos).                 *)
SignatureCoversToken ==
  \A c \in Client : sig[c] # NoSig =>
     sig[c] = [key |-> tpm.keys[IdKey], data |-> Token(arg[c].size)]

(* A program none of whose calls has failed leaves nothing loaded in the   *)
(* TPM between calls: every CreatePrimary is flushed, every sequence is    *)
(* completed.                                                              *)
NoTransientLeak ==
  \A s \in Slot : tpm.objs[s] # NoObj =>
     LET c == tpm.objs[s].owner IN troubled[c] \/ pc[c] # "idle"

(* Initialize_TPM_Codec reports success only when the TPM has been started *)
(* (by this program or another) and the connection is open.                *)
InitializedIsStarted ==
  \A c \in Client : pc[c] = "idle" /\ rc[c] = TPM_RC_SUCCESS
     => tpm.started /\ comm[c] = "open"

(* "Clear out from previous runs": once the flushes of Initialize_TPM_Codec *)
(* got through, no session of an earlier run is left in the TPM, however   *)
(* that run ended and whichever sessions it had open: all the sessions the *)
(* TPM can have loaded are there for this one.                             *)
ClearedFromPreviousRuns ==
  \A c \in Client : pc[c] # "flush_session" /\ pc[c] # "startup" /\ cleared[c] > 0 =>
    \A s \in OpenSessions(tpm) :
      tpm.sess[s].owner = c => tpm.sess[s].nonce[2] > cleared[c]

(* A secret shown with the nonce of a TSS_SESSION goes to the session that *)
(* was started as, even if that one is gone and its number was given to    *)
(* another: a TSS_SESSION is not told when its session ends or its flush   *)
(* was done after all.  Of a call with nonceTPM NULL nothing is said: its  *)
(* secret goes to whatever session has the number.                         *)
SecretGoesToOwnSession ==
  \A s \in OpenSessions(tpm) : tpm.sess[s].secret \in {NoNonce, tpm.sess[s].nonce}

(* The loop over the token does not end on a TPM that reports an input     *)
(* buffer of 0 bytes: bytesLeft -= 0.                                      *)
Endless(c) == pc[c] = "update" /\ tpm.limit = 0

(* Every call returns, or the program was stopped; but for a SignData on a *)
(* TPM with an input buffer of 0 bytes.  On any other TPM it returns also  *)
(* when the property could not be had.                                     *)
CallsReturn == \A c \in Client : (pc[c] # "idle") ~> (pc[c] \in {"idle", "aborted"} \/ Endless(c))

(* tpm_codec.h says of tpm_comm_handle: "Handle to the connection to the   *)
(* underlying TPM device".  A command is only sent on a connection.        *)
CommandsUseConnection ==
  \A c \in Client : pc[c] \notin {"idle", "aborted"} => comm[c] = "open"

(* SignData returns 0 after one of its TPM commands. *)
SignReportsFailure(c) ==
  /\ pc[c] \in {"hmac", "hmac_start", "update", "complete"}
  /\ pc'[c] = "idle" /\ comm'[c] = "open"
  /\ sigRet'[c] = 0

(* The comment of SignData: "If any of the TPM commands fails, returns 0,  *)
(* and tpm->LastRawResponse contains the response code from the failed     *)
(* command."                                                               *)
FailureIsReported ==
  [][\A c \in Client : SignReportsFailure(c) => last'[c] # TPM_RC_SUCCESS]_vars
=============================================================================
