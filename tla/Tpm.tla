--------------------------------- MODULE Tpm ---------------------------------
(***************************************************************************)
(* The TPM behind the transports, as src/tpm_codec.c uses it: what each    *)
(* command does to its state and the raw response code it answers with.    *)
(* External: no code of the repository.  The state is one record t:        *)
(*   t.started  Startup has been done since the last reset;                *)
(*   t.keys     the persistent objects: handle -> key, or NoKey;           *)
(*   t.objs     the transient slots: slot -> loaded object, or NoObj;      *)
(*   t.sess     the policy sessions: number -> session, or NoSession;      *)
(*   t.limit    the largest data parameter, TPM_PT_INPUT_BUFFER.           *)
(* An outcome is the response code, the state after it and the output, a   *)
(* sequence of one value or none.                                          *)
(***************************************************************************)
EXTENDS ResponseCode, Sequences

CONSTANTS
  PersHandle,  \* persistent handles (strings or model values)
  MaxSlot,     \* transient objects the TPM has room for
  MaxSession,  \* sessions it has loaded at a time: MAX_LOADED_SESSIONS
  NoKey        \* an empty persistent handle

Slot == 1..MaxSlot
NoObj == [kind |-> "none"]
SessionNumber == 0 .. MaxSession - 1   \* the handle is HR_POLICY_SESSION | number
NoSession == [owner |-> "none"]
NoNonce == << >>
NoOut == << >>

Answer(t, out) == [raw |-> TPM_RC_SUCCESS, tpm |-> t, out |-> out]
Refuse(t, raw) == [raw |-> raw, tpm |-> t, out |-> NoOut]

(* Before Startup every other command is refused. *)
IfStarted(t, o) == IF t.started THEN o ELSE Refuse(t, TPM_RC_INITIALIZE)

(* Error codes carry the number of the handle or parameter they are about. *)
HandleError(i) == TPM_RC_HANDLE + i * TPM_RC_1
ParamSizeError == TPM_RC_SIZE + TPM_RC_P + TPM_RC_1
NonceError == TPM_RC_NONCE + TPM_RC_P + TPM_RC_1
PolicyError == TPM_RC_POLICY_FAIL + TPM_RC_S + TPM_RC_1
SessionError == TPM_RC_VALUE + TPM_RC_S + TPM_RC_1

Used(t, s) == s \in Slot /\ t.objs[s] # NoObj
FreeSlots(t) == {s \in Slot : t.objs[s] = NoObj}
FirstFree(t) == CHOOSE s \in FreeSlots(t) : \A u \in FreeSlots(t) : s <= u

(* Load object o in the first free slot; its handle is the output. *)
LoadObject(t, o) ==
  IF FreeSlots(t) = {}
    THEN Refuse(t, TPM_RC_OBJECT_MEMORY)
    ELSE Answer([t EXCEPT !.objs[FirstFree(t)] = o], <<FirstFree(t)>>)

Startup(t) ==
  IF t.started THEN Refuse(t, TPM_RC_INITIALIZE)
               ELSE Answer([t EXCEPT !.started = TRUE], NoOut)

ReadPublic(t, h) ==
  IfStarted(t, IF t.keys[h] = NoKey THEN Refuse(t, HandleError(1))
                                    ELSE Answer(t, <<t.keys[h]>>))

(* A primary key is a function of its template and the TPM's seed. *)
CreatePrimary(t, who, template) ==
  IfStarted(t, LoadObject(t, [kind |-> "key", key |-> template, data |-> << >>, owner |-> who]))

EvictControl(t, s, h) ==
  IfStarted(t, CASE ~Used(t, s) -> Refuse(t, HandleError(2))
                 [] Used(t, s) /\ t.keys[h] # NoKey -> Refuse(t, TPM_RC_NV_DEFINED)
                 [] OTHER -> Answer([t EXCEPT !.keys[h] = t.objs[s].key], NoOut))

FlushContext(t, s) ==
  IfStarted(t, IF Used(t, s) THEN Answer([t EXCEPT !.objs[s] = NoObj], NoOut)
                             ELSE Refuse(t, HandleError(1)))

(* A session gets the first free number, and a nonce no other one has.     *)
OpenSessions(t) == {s \in SessionNumber : t.sess[s] # NoSession}

StartAuthSession(t, who, nonce) ==
  IfStarted(t,
    IF OpenSessions(t) = SessionNumber THEN Refuse(t, TPM_RC_SESSION_MEMORY)
    ELSE LET s == CHOOSE n \in SessionNumber \ OpenSessions(t) :
                    \A m \in SessionNumber \ OpenSessions(t) : n <= m
         IN  Answer([t EXCEPT !.sess[s] =
                      [owner |-> who, nonce |-> nonce, shown |-> FALSE, secret |-> NoNonce]], <<s, nonce>>))

FlushSession(t, s) ==
  IfStarted(t, IF s \in OpenSessions(t) THEN Answer([t EXCEPT !.sess[s] = NoSession], NoOut)
                                        ELSE Refuse(t, HandleError(1)))

(* A session is told that a secret was shown, for the nonce given if there *)
(* is one.  `named', kept as history, is the nonce of the session the      *)
(* caller named, or NoNonce if it named none.                              *)
PolicySecret(t, s, nonce, named) ==
  IfStarted(t, CASE s \notin OpenSessions(t) -> Refuse(t, HandleError(2))
                 [] s \in OpenSessions(t) /\ nonce \notin {NoNonce, t.sess[s].nonce} ->
                      Refuse(t, NonceError)
                 [] OTHER -> Answer([t EXCEPT !.sess[s].shown = TRUE, !.sess[s].secret = named],
                                    NoOut))

(* The policy of the key asks for the secret.  A session that is not to be *)
(* continued ends with a command that succeeds.                            *)
ActivateCredential(t, s, continue) ==
  IfStarted(t, CASE s \notin OpenSessions(t) -> Refuse(t, SessionError)
                 [] s \in OpenSessions(t) /\ ~t.sess[s].shown -> Refuse(t, PolicyError)
                 [] OTHER -> Answer(IF continue THEN t ELSE [t EXCEPT !.sess[s] = NoSession], NoOut))

GetCapability(t, value) == IfStarted(t, Answer(t, <<value>>))

HMAC(t, h, data) ==
  IfStarted(t, CASE t.keys[h] = NoKey -> Refuse(t, HandleError(1))
                 [] t.keys[h] # NoKey /\ Len(data) > t.limit -> Refuse(t, ParamSizeError)
                 [] OTHER -> Answer(t, <<[key |-> t.keys[h], data |-> data]>>))

HMAC_Start(t, who, h) ==
  IfStarted(t, IF t.keys[h] = NoKey THEN Refuse(t, HandleError(1))
               ELSE LoadObject(t, [kind |-> "hmac", key |-> t.keys[h],
                                   data |-> << >>, owner |-> who]))

SequenceUpdate(t, s, data) ==
  IfStarted(t, CASE ~Used(t, s) -> Refuse(t, HandleError(1))
                 [] Used(t, s) /\ Len(data) > t.limit -> Refuse(t, ParamSizeError)
                 [] OTHER -> Answer([t EXCEPT !.objs[s].data = @ \o data], NoOut))

(* The sequence object goes with its result. *)
SequenceComplete(t, s, data) ==
  IfStarted(t, CASE ~Used(t, s) -> Refuse(t, HandleError(1))
                 [] Used(t, s) /\ Len(data) > t.limit -> Refuse(t, ParamSizeError)
                 [] OTHER -> Answer([t EXCEPT !.objs[s] = NoObj],
                                    <<[key |-> t.objs[s].key, data |-> t.objs[s].data \o data]>>))

(* A resource manager unloads what a closed connection leaves behind.      *)
Unload(t, who) ==
  [t EXCEPT
    !.objs = [s \in Slot |->
      IF t.objs[s] # NoObj /\ t.objs[s].owner = who THEN NoObj ELSE t.objs[s]],
    !.sess = [s \in SessionNumber |-> IF t.sess[s].owner = who THEN NoSession ELSE t.sess[s]]]
=============================================================================
