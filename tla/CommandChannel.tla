--------------------------- MODULE CommandChannel ---------------------------
(***************************************************************************)
(* What tpm_comm_submit_command promises the codec above it, whatever the  *)
(* transport: on an open handle commands run one at a time, a call that    *)
(* returns 0 returns the reply to its own command, and that command has    *)
(* run in the TPM once.  A call that fails says nothing of whether the     *)
(* command ran, and from then on the handle promises nothing more until it *)
(* is closed.                                                              *)
(***************************************************************************)
EXTENDS Integers

CONSTANT Command   \* the commands, each submitted at most once

VARIABLES
  state,     \* "closed", "ready", "busy", or "failed"
  cmd,       \* the command of the call in progress or just ended
  executed,  \* commands the TPM has run, in whatever session
  reply      \* the command the last returned response belongs to

NoCommand == 0

vars == <<state, cmd, executed, reply>>

Init == /\ state = "closed" /\ cmd = NoCommand
        /\ executed = {} /\ reply = NoCommand

Open == state = "closed" /\ state' = "ready" /\ UNCHANGED <<cmd, executed, reply>>

Submit == /\ state = "ready"
          /\ \E c \in Command \ executed : cmd' = c
          /\ state' = "busy"
          /\ UNCHANGED <<executed, reply>>

(* The TPM runs the command of the call in progress, and only once. *)
Execute == /\ state = "busy" /\ cmd \notin executed
           /\ executed' = executed \cup {cmd}
           /\ UNCHANGED <<state, cmd, reply>>

ReturnReply == /\ state = "busy" /\ cmd \in executed
               /\ state' = "ready" /\ reply' = cmd
               /\ UNCHANGED <<cmd, executed>>

ReturnFailure == /\ state = "busy"
                 /\ state' = "failed"
                 /\ UNCHANGED <<cmd, executed, reply>>

(* After a failure: calls may still be made and commands may still run.   *)
Unspecified == state = "failed" /\ state' = "failed" /\ executed \subseteq executed'

(* The handle is destroyed; what was already sent may still run.          *)
Close == state \in {"ready", "failed"} /\ state' = "closed"
         /\ UNCHANGED <<cmd, executed, reply>>

LateExecute == /\ state = "closed"
               /\ executed \subseteq executed'
               /\ UNCHANGED <<state, cmd, reply>>

Next == \/ Open \/ Submit \/ Execute \/ ReturnReply \/ ReturnFailure
        \/ Unspecified \/ Close \/ LateExecute

Spec == Init /\ [][Next]_vars
=============================================================================
