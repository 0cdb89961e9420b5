----------------------------- MODULE MCCommands -----------------------------
(* Every TPM2_* function with its smallest and its largest parameters; and *)
(* TSS_BuildCommand with buffers from none to more than enough.            *)
EXTENDS Commands

Session(h, n, m) == [handle |-> h, nonce |-> n, hmac |-> m]

(* A password session with no password, and one with the largest nonce.    *)
MCSessions == {<<Session("pw", 0, 0), Session("hmac", 64, 64)>>,
               <<Session("hmac", 64, 64), Session("policy", 32, 0)>>}

MCAsked ==
  LET handles  == {[is |-> Null, n |-> 0], [is |-> Null, n |-> 1]}
                  \cup {[is |-> [i \in 1 .. n |-> i], n |-> n] : n \in 0 .. 2}
      sessions == {[is |-> Null, n |-> 0], [is |-> Null, n |-> 1]}
                  \cup {[is |-> SubSeq(<<Session("pw", 0, 3), Session("hmac", 2, 2)>>, 1, n),
                         n |-> n] : n \in 0 .. 2}
  IN  {[code |-> c, handles |-> h.is, numHandles |-> h.n, sessions |-> s.is,
        numSessions |-> s.n, params |-> p, capacity |-> room] :
          c \in {\h11E, \h11F, \h193, \h194}, h \in handles, s \in sessions,
          p \in {0, 5}, room \in -1 .. 56}
=============================================================================
