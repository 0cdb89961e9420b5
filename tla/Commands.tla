------------------------------ MODULE Commands ------------------------------
(***************************************************************************)
(* One call of a TPM2_* function of tpm_codec.c: its parameters are        *)
(* marshaled, TSS_DispatchCmd builds the command, has it sent and takes    *)
(* the header of the response apart, and the results are unmarshaled; or   *)
(* one call of TSS_BuildCommand itself.                                    *)
(*                                                                         *)
(* Sizes stand for contents.  What the TPM answers, and how much of it the *)
(* transport delivers, are external.                                       *)
(***************************************************************************)
EXTENDS CommandFormat, CommandBuffer, ResponseCode

CONSTANTS
  Asked,         \* calls of TSS_BuildCommand from outside
  Sessions,      \* the sessions a command may be sent with, two of each
  Unknown        \* may a result hold what this build does not know?

ASSUME CommandsAssumption ==
  /\ Unknown \in BOOLEAN
  /\ \A s \in Sessions : \A i \in 1 .. 2 : s[i].nonce \in Nat /\ s[i].hmac \in Nat
  /\ \A a \in Asked : CallOK(a)

VARIABLES
  phase,         \* "idle", "sent", "answered", "reading", "returned"
  function,      \* the TPM2_* function called, or NoFunction
  asked,         \* the arguments of TSS_BuildCommand
  command,       \* what it made of them: CmdSize and CmdBuffer
  response,      \* what the TPM answered and how much was delivered
  left,          \* RespBytesLeft
  read,          \* the results unmarshaled
  last,          \* tpm->LastRawResponse, as its two halves
  given,         \* the handle given to the caller
  result         \* what the function returned

vars == <<phase, function, asked, command, response, left, read, last, given, result>>

(* Mutant: the buffer of a parameter is taken for that of a command.       *)
MAX_COMMAND_BUFFER_Digest == 1024

MAX_COMMAND_BUFFER  == 4096
MAX_RESPONSE_BUFFER == 4096
TPM_RH_UNASSIGNED   == -1

NoFunction == [code |-> 0]
NoResponse == [tag |-> "none"]
OfTpm(code) == <<0, code>>

Init ==
  /\ phase = "idle" /\ function = NoFunction /\ asked = << >>
  /\ command = [size |-> 0, memory |-> << >>]
  /\ response = NoResponse /\ left = 0 /\ read = 0
  /\ last = OfTpm(TPM_RC_SUCCESS) /\ given = TPM_RH_UNASSIGNED
  /\ result = OfTpm(TPM_RC_SUCCESS)

(* TSS_BuildCommand called from outside, with any buffer.                  *)
Build ==
  /\ phase = "idle"
  /\ \E a \in Asked : asked' = a /\ command' = TSS_BuildCommand(a)
  /\ phase' = "returned"
  /\ UNCHANGED <<function, response, left, read, last, given, result>>

-----------------------------------------------------------------------------
(* The arguments TSS_DispatchCmd is called with for command c, when its    *)
(* parameters take n bytes.  With no session the pointer is NULL.          *)
DispatchArguments(c, n, s) ==
  [code |-> c.code, handles |-> [i \in 1 .. c.handles |-> i], numHandles |-> c.handles,
   sessions |-> IF c.sessions = 0 THEN Null ELSE [i \in 1 .. c.sessions |-> s[i]],
   numSessions |-> c.sessions, params |-> n, capacity |-> MAX_COMMAND_BUFFER]

(* A TPM2_* function marshals its parameters and has the command sent.     *)
Invoke ==
  /\ phase = "idle"
  /\ \E c \in Commands, s \in Sessions :
       \E n \in {SmallestOf(c.params), LargestOf(c.params)} :
         /\ function' = c
         /\ asked' = DispatchArguments(c, n, s)
         /\ command' = TSS_BuildCommand(DispatchArguments(c, n, s))
  /\ phase' = "sent"
  /\ UNCHANGED <<response, left, read, last, given, result>>

Returns(rc) == result' = rc /\ phase' = "returned"

(* The transport reports a failure, whatever became of the command: the    *)
(* code of the last response is left as it was.                            *)
SubmitFails ==
  /\ phase = "sent"
  /\ Returns(OfTpm(TPM_RC_COMMAND_CODE))
  /\ UNCHANGED <<function, asked, command, response, left, read, last, given>>

(* The fields of a response: tag, size, code; if the command was done, the *)
(* handle of what it made, the size of the results, the results, and the   *)
(* authorizations of the sessions.                                         *)
Fields(r) ==
  <<2, 4, 4>> \o (IF r.made = TPM_RH_UNASSIGNED THEN << >> ELSE <<4>>)
  \o (IF r.tag = "TPM_ST_SESSIONS" THEN <<4>> ELSE << >>) \o r.results \o r.auths

Whole(r) == SumOf(Fields(r))

(* Whole, or cut off at the end of a field or before its last byte.        *)
Delivered(r) ==
  {Ends(Fields(r))[i] - d : i \in 1 .. Len(Fields(r)), d \in {0, 1}}

Done(c, sizes, a) ==
  [tag |-> IF c.sessions = 0 THEN "TPM_ST_NO_SESSIONS" ELSE "TPM_ST_SESSIONS",
   error |-> TPM_RC_SUCCESS, raw |-> OfTpm(TPM_RC_SUCCESS),
   made |-> IF c.gives THEN 1 ELSE TPM_RH_UNASSIGNED, results |-> sizes,
   auths |-> [i \in 1 .. c.sessions |-> 5 + a.sessions[i].nonce + a.sessions[i].hmac],
   received |-> 0, unknown |-> 0]

Error(tag, code, raw) ==
  [tag |-> tag, error |-> code, raw |-> raw, made |-> TPM_RH_UNASSIGNED,
   results |-> << >>, auths |-> << >>, received |-> 0, unknown |-> 0]

(* So many of its bytes arrive, and one of its results may be unknown.     *)
Delivers(r, received, unknown) ==
  /\ response' = [r EXCEPT !.received = received, !.unknown = unknown]
  /\ phase' = "answered"
  /\ UNCHANGED <<function, asked, command, left, read, last, given, result>>

(* External: the TPM does the command.  A result may be one that its type  *)
(* in this build does not allow, such as an algorithm it does not have.    *)
Succeeds ==
  /\ phase = "sent"
  /\ \E sizes \in {[i \in DOMAIN function.results |-> Smallest[function.results[i]]],
                   [i \in DOMAIN function.results |-> Largest[function.results[i]]]} :
       LET r == Done(function, sizes, asked) IN
       \/ \E n \in Delivered(r) : Delivers(r, n, 0)
       \/ Unknown /\ \E u \in DOMAIN sizes : Delivers(r, Whole(r), u)

(* External: it refuses it, with an error that may say where it is; or the *)
(* medium does.                                                            *)
Refuses ==
  /\ phase = "sent"
  /\ \E e \in DefinedCode \ {TPM_RC_SUCCESS} :
       \E raw \in {OfTpm(e), <<32808, e>>}
                  \cup (IF e \in FormatOneCode THEN {OfTpm(e + l) : l \in Location} ELSE {}) :
         Delivers(Error("TPM_ST_NO_SESSIONS", e, raw), 10, 0)

(* External: a TPM asked in a way it does not know answers with the tag of *)
(* its predecessors.                                                       *)
AnswersAsTpm12 ==
  /\ phase = "sent"
  /\ Delivers(Error("TPM_ST_RSP_COMMAND", TPM_RC_BAD_TAG, OfTpm(TPM_RC_BAD_TAG)), 10, 0)

-----------------------------------------------------------------------------
(* The commands TSS_DispatchCmd takes a handle out of the response of, the *)
(* last three with no TPM2_* function here.                                *)
ContextLoadCodes == {\h161, \h167, \h191}

(* Mutant: HashSequenceStart was forgotten.                                *)
ReturnsHandle_Forgotten(c) ==
  c.code \in {CreatePrimary.code, Load.code, HMAC_Start.code, StartAuthSession.code}
             \cup ContextLoadCodes

ReturnsHandle(c) ==
  c.code \in {CreatePrimary.code, Load.code, HMAC_Start.code, StartAuthSession.code,
              HashSequenceStart.code} \cup ContextLoadCodes

(* The bytes taken off a response before its results: the header, and if   *)
(* the command was done the handle and the size of the results, which      *)
(* nothing is compared with.                                               *)
BytesBefore(r) ==
  STD_RESPONSE_HEADER
  + (IF r.raw = OfTpm(TPM_RC_SUCCESS) /\ ReturnsHandle(function) THEN 4 ELSE 0)
  + (IF r.raw = OfTpm(TPM_RC_SUCCESS) /\ r.tag = "TPM_ST_SESSIONS" THEN 4 ELSE 0)

RetHandle(r) == IF ReturnsHandle(function) THEN r.made ELSE TPM_RH_UNASSIGNED

NoHeader(r) ==
  \/ r.received < STD_RESPONSE_HEADER
  \/ r.tag \notin {"TPM_ST_SESSIONS", "TPM_ST_NO_SESSIONS"}

(* Mutant: any size will do that holds what is read first.                 *)
WrongSize_NotCompared(r) == FALSE

(* RespSize is compared with the size in the header.                       *)
WrongSize(r) == r.received # Whole(r)

NoHandle(r) ==
  /\ r.raw = OfTpm(TPM_RC_SUCCESS) /\ ReturnsHandle(function)
  /\ RetHandle(r) \in {0, TPM_RH_UNASSIGNED}

(* What TSS_DispatchCmd makes of response r.                               *)
Outcome(r) ==
  IF NoHeader(r) THEN OfTpm(TPM_RC_INSUFFICIENT)
  ELSE IF WrongSize(r) THEN OfTpm(TPM_RC_COMMAND_SIZE)
  ELSE IF r.received < BytesBefore(r) THEN OfTpm(TPM_RC_INSUFFICIENT)
  ELSE IF NoHandle(r) THEN OfTpm(TPM_RC_COMMAND_CODE)
  ELSE CleanResponseCode(r.raw[1], r.raw[2])

(* The header is taken apart.  A TPM2_* function whose command gives a     *)
(* handle passes it on now; any but TPM_RC_SUCCESS it returns.             *)
Dispatch ==
  /\ phase = "answered"
  /\ last' = IF NoHeader(response) THEN OfTpm(TPM_RC_NOT_USED) ELSE response.raw
  /\ IF Outcome(response) = OfTpm(TPM_RC_SUCCESS)
       THEN /\ phase' = "reading"
            /\ left' = response.received - BytesBefore(response)
            /\ given' = IF function.gives THEN RetHandle(response) ELSE given
            /\ UNCHANGED result
       ELSE Returns(Outcome(response)) /\ UNCHANGED <<left, given>>
  /\ UNCHANGED <<function, asked, command, response, read>>

(* TSS_UNMARSHAL of the next result.                                       *)
Readable(i) ==
  i \in DOMAIN response.results /\ response.results[i] <= left /\ i # response.unknown

ReadResult ==
  /\ phase = "reading" /\ read < Len(function.results)
  /\ IF Readable(read + 1)
       THEN /\ read' = read + 1 /\ left' = left - response.results[read + 1]
            /\ UNCHANGED <<phase, result>>
       ELSE Returns(OfTpm(TPM_RC_INSUFFICIENT)) /\ UNCHANGED <<read, left>>
  /\ UNCHANGED <<function, asked, command, response, last, given>>

Finish ==
  /\ phase = "reading" /\ read = Len(function.results)
  /\ Returns(OfTpm(TPM_RC_SUCCESS))
  /\ UNCHANGED <<function, asked, command, response, left, read, last, given>>

Next == \/ Build \/ Invoke \/ SubmitFails
        \/ Succeeds \/ Refuses \/ AnswersAsTpm12
        \/ Dispatch \/ ReadResult \/ Finish

Spec == Init /\ [][Next]_vars

-----------------------------------------------------------------------------
Returned == phase = "returned"
Answered == response # NoResponse

(* The pieces from offset o on are these, one behind the other.            *)
Holds(o, pieces) ==
  \A i \in 1 .. Len(pieces) :
    LET p == o + Ends(Sizes(pieces))[i - 1] IN
    pieces[i].bytes > 0 => p \in DOMAIN command.memory /\ command.memory[p] = pieces[i]

(* A command that TSS_BuildCommand says fits is one that the TPM takes     *)
(* apart into what was asked: led by the sizes in it, first its handles,   *)
(* then its sessions, then its parameters up to its end.  A caller may not *)
(* give an array of no sessions: the tag then promises sessions.           *)
CommandIsWhole ==
  LET memory   == command.memory
      sessions == 10 + 4 * asked.numHandles
      params   == IF memory[0].value = "TPM_ST_SESSIONS"
                    THEN sessions + 4 + memory[sessions].value ELSE sessions
  IN  (command.size > 0 /\ command.size <= asked.capacity
         /\ (asked.sessions = Null \/ asked.numSessions > 0)) =>
        /\ memory[2].value = command.size
        /\ \A p \in DOMAIN memory :
             LET end == p + memory[p].bytes IN end = command.size \/ end \in DOMAIN memory
        /\ Holds(10, Handles(asked))
        /\ asked.numSessions > 0 => Holds(sessions + 4, Authorizations(asked))
        /\ params + asked.params = command.size
        /\ asked.params > 0 => memory[params].part = "params"

(* What does not fit is left out, and the two sizes that are stored again  *)
(* without a bound stay in the buffer if it has room for the second one.   *)
(* Nothing that TSS_BuildCommand stores lies over what it stored before,   *)
(* but for those sizes over their own placeholders.                        *)
PatchesStayInside ==
  LET memory == command.memory
      End(p) == p + memory[p].bytes
  IN  /\ \A p, q \in DOMAIN memory : p < q => End(p) <= q
      /\ (command.size > 0
            /\ (asked.numSessions > 0 => asked.capacity >= 14 + 4 * asked.numHandles)) =>
           \A p \in DOMAIN memory : End(p) <= asked.capacity

(* No command of a TPM2_* function is too large for the buffers of         *)
(* TSS_CMD_CONTEXT, nor is its response, whatever the parameters: neither  *)
(* the marshaling of the parameters nor the sending looks whether it was.  *)
EveryCommandFits ==
  function # NoFunction =>
    /\ command.size > 0
    /\ asked.params <= MAX_COMMAND_BUFFER /\ command.size <= MAX_COMMAND_BUFFER
    /\ Answered => Whole(response) <= MAX_RESPONSE_BUFFER

(* A function succeeds exactly if the TPM did the command, all of the      *)
(* response arrived and was understood; it has then read every result at   *)
(* its place, up to the authorizations.  An error of the TPM comes through *)
(* as that error, without its location, and one of the medium as it is.    *)
ResultIsTrue ==
  Returned /\ Answered =>
    /\ result = OfTpm(TPM_RC_SUCCESS) <=>
         /\ response.error = TPM_RC_SUCCESS /\ response.unknown = 0
         /\ response.received = Whole(response)
    /\ result = OfTpm(TPM_RC_SUCCESS) => left = SumOf(response.auths)
    /\ response.error # TPM_RC_SUCCESS /\ response.tag = "TPM_ST_NO_SESSIONS" =>
         result = IF response.raw[1] = 0 THEN OfTpm(response.error) ELSE response.raw

(* What the TPM made under a command the caller has the handle of, even if *)
(* the function then fails over a result: it can still be flushed.         *)
MadeIsNamed ==
  (Returned /\ Answered
     /\ response.received = Whole(response) /\ response.made # TPM_RH_UNASSIGNED) =>
    given = response.made
=============================================================================
