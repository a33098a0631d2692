----------------------------- MODULE MCClockSeq -----------------------------
(* Instances of ClockSeq for TLC.  One unit of time is a second, but for      *)
(* MaxAge, which is kept short so that times grow stale within the run.       *)
EXTENDS ClockSeq, TLC

EnclaveSymmetry == Permutations(Enclaves)
=============================================================================
