----------------------------- MODULE Transport -----------------------------
(***************************************************************************)
(* The transport the build links behind tpm_comm.h on a machine with a     *)
(* TPM: tpm_comm_linux.c or tpm_comm_win32.c.  To the codec above it both  *)
(* are a CommandChannel; SimComm is the third implementation.              *)
(***************************************************************************)
EXTENDS LinuxComm

CONSTANT TpmVersion   \* see WinComm

VARIABLE platform     \* what the program was built for

Win == INSTANCE WinComm

linuxVars == <<machine, conn_info, sends, cmdBytes, got, slot, out, in, daemonPos, peer>>
transportVars == <<vars, platform>>

TransportInit == Init /\ platform \in {"linux", "windows"}

LinuxNext == platform = "linux" /\ Next /\ UNCHANGED platform
WindowsNext == platform = "windows" /\ Win!Next /\ UNCHANGED <<linuxVars, platform>>

TransportNext == LinuxNext \/ WindowsNext

(* The fairness of the platform's own calls.                               *)
TransportFairness ==
  /\ WF_transportVars(platform = "linux" /\ (Create \/ Submit) /\ UNCHANGED platform)
  /\ WF_transportVars(platform = "linux" /\ TpmRuns /\ UNCHANGED platform)
  /\ WF_transportVars(platform = "linux" /\ (\E n \in RespSize : DaemonRuns(n)) /\ UNCHANGED platform)
  /\ WF_transportVars(platform = "windows" /\ (Win!Create \/ Win!TbsRuns \/ Win!SubmitReturns)
                        /\ UNCHANGED <<linuxVars, platform>>)

Spec == TransportInit /\ [][TransportNext]_transportVars
FairSpec == Spec /\ TransportFairness

-----------------------------------------------------------------------------
(* When no creation is in progress exactly what an open handle needs is    *)
(* held, and nothing without one: each of the steps tpm_comm_create may    *)
(* stop at gives back what the steps before it acquired, and               *)
(* tpm_comm_destroy what the handle has.  The memory of the TCTI context   *)
(* alone is excepted, which nothing ever frees.                            *)
NothingLeftBehind ==
  creating = "no" =>
    IF platform = "windows" THEN held = (IF comm = "open" THEN {"info", "tbs"} ELSE {})
    ELSE held \ {"stray"} = Needed

(* Refinement: on a handle none of whose submits has failed the transport  *)
(* is a command channel: a submit that returns 0 returns the reply to its  *)
(* own command, which ran exactly once.                                    *)
channelState ==
  CASE comm = "null" -> "closed"
    [] comm = "open" /\ failed -> "failed"
    [] comm = "open" /\ ~failed /\ pc # "idle" -> "busy"
    [] OTHER -> "ready"

Channel == INSTANCE CommandChannel WITH state <- channelState
ChannelSpec == Channel!Spec
=============================================================================
