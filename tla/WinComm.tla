------------------------------ MODULE WinComm ------------------------------
(***************************************************************************)
(* src/tpm_comm_win32.c: a handle on a context of the TPM Base Services,   *)
(* which run one command per Tbsip_Submit_Command and return its reply.    *)
(***************************************************************************)
EXTENDS Integers

CONSTANTS
  TpmVersion,   \* TPMs the machine may have: 1 for 1.2, 2 for 2.0
  MaxCommand, RespSize, RespCapacity   \* see LinuxComm

VARIABLES
  faults,    \* what may fail: see LinuxComm
  comm,      \* TPM_COMM_HANDLE: "null" or "open"
  held,      \* resources acquired and not given back
  creating,  \* where tpm_comm_create stands, "no" outside it
  failed,    \* history: a submit on this handle has failed
  pc,        \* "idle", or "submit" inside Tbsip_Submit_Command
  cmd,       \* the command being submitted
  resp_len, capacity, \* *resp_len, and what it was on entry
  filled,    \* bytes of the reply in the caller's buffer
  retval,    \* what the last submit returned
  reply,     \* whose reply the last successful submit returned
  executed   \* commands the TPM has run

vars == <<faults, comm, held, creating, failed, pc, cmd, resp_len, capacity, filled, retval, reply, executed>>

TPM_VERSION_20 == 2
OK == 0
MU_FAILURE == 1

callVars == <<pc, cmd, resp_len, capacity, filled, retval, reply, executed>>

CreateCall ==
  /\ comm = "null" /\ pc = "idle" /\ creating = "no"
  /\ held' = held \cup {"info"} /\ creating' = "context"
  /\ UNCHANGED <<faults, comm, failed, callVars>>

(* Tbsi_Context_Create; without a context the handle is freed again.       *)
ContextCreate ==
  /\ creating = "context"
  /\ \/ held' = held \cup {"tbs"} /\ creating' = "device_info"
     \/ "open" \in faults /\ held' = held \ {"info"} /\ creating' = "no"
  /\ UNCHANGED <<faults, comm, failed, callVars>>

(* Tbsi_GetDeviceInfo must tell of a TPM 2.0.                              *)
GetDeviceInfo ==
  /\ creating = "device_info"
  /\ \/ /\ TPM_VERSION_20 \in TpmVersion
        /\ comm' = "open" /\ failed' = FALSE /\ creating' = "no"
     \/ /\ "open" \in faults \/ TpmVersion # {TPM_VERSION_20}
        /\ creating' = "cleanup"
        /\ UNCHANGED <<comm, failed>>
  /\ UNCHANGED <<faults, held, callVars>>

(* cleanup_memory: the context is closed and the handle freed, when a      *)
(* creation fails ...                                                      *)
CreateFails ==
  /\ creating = "cleanup"
  /\ held' = held \ {"tbs", "info"} /\ creating' = "no"
  /\ UNCHANGED <<faults, comm, failed, callVars>>

(* ... and by tpm_comm_destroy.                                            *)
Destroy ==
  /\ comm = "open" /\ pc = "idle"
  /\ comm' = "null" /\ held' = held \ {"tbs", "info"} /\ failed' = FALSE
  /\ UNCHANGED <<faults, creating, callVars>>

SubmitCall(n) ==
  /\ comm = "open" /\ pc = "idle"
  /\ cmd < MaxCommand
  /\ cmd' = cmd + 1 /\ resp_len' = n /\ capacity' = n /\ filled' = 0
  /\ pc' = "submit"
  /\ UNCHANGED <<faults, comm, held, creating, failed, retval, reply, executed>>

(* The services pass the command to the TPM (external).                    *)
TbsRuns ==
  /\ pc = "submit" /\ cmd \notin executed
  /\ executed' = executed \cup {cmd}
  /\ UNCHANGED <<faults, comm, held, creating, failed, pc, cmd, resp_len, capacity, filled, retval, reply>>

(* Mutant: the result of the services is not looked at. *)
SubmitReturns_Unchecked ==
  /\ pc = "submit" /\ pc' = "idle"
  /\ cmd \in executed \/ "write" \in faults
  /\ retval' = OK /\ reply' = cmd
  /\ UNCHANGED <<faults, comm, held, creating, failed, cmd, resp_len, capacity, filled, executed>>

(* They return its reply, or an error: the buffer was too short for the    *)
(* reply, or a fault, and the command may or may not have run.             *)
SubmitReturns ==
  /\ pc = "submit" /\ pc' = "idle"
  /\ \/ \E n \in RespSize :
          /\ cmd \in executed /\ n <= resp_len
          /\ retval' = OK /\ reply' = cmd /\ resp_len' = n /\ filled' = n
          /\ UNCHANGED failed
     \/ /\ "write" \in faults \/ (cmd \in executed /\ \E n \in RespSize : n > resp_len)
        /\ retval' = MU_FAILURE /\ failed' = TRUE
        /\ UNCHANGED <<reply, resp_len, filled>>
  /\ UNCHANGED <<faults, comm, held, creating, cmd, capacity, executed>>

Create == ContextCreate \/ GetDeviceInfo \/ CreateFails

Next == \/ CreateCall \/ Create \/ Destroy
        \/ (\E n \in RespCapacity : SubmitCall(n))
        \/ TbsRuns \/ SubmitReturns
=============================================================================
