---------------------------- MODULE MCTransport ----------------------------
(***************************************************************************)
(* The machines: a kernel device with and without its resource manager,    *)
(* abrmd, a broken abrmd beside a user mode resource manager, an old and a *)
(* new one, an old one's files beside a new one that runs, and nothing.    *)
(***************************************************************************)
EXTENDS Transport

Mach(d, a, t, r) == [dev |-> d, abrmd |-> a, trm |-> t, daemon |-> r]

MCMachine ==
  { Mach({"tpmrm0", "tpm0"}, "none", {}, "none"),
    Mach({"tpm0"}, "good", {}, "none"),
    Mach({}, "good", {"new"}, "new"),
    Mach({}, "broken", {"old"}, "old"),
    Mach({}, "none", {"new"}, "new"),
    Mach({}, "broken", {"old", "new"}, "new"),
    Mach({}, "broken", {}, "none") }
=============================================================================
