---------------------------- MODULE MCLifecycle -----------------------------
(***************************************************************************)
(* A small instance of Lifecycle for TLC: a process with two threads and a *)
(* child; and the reference for sampling: of the hashes as many are kept   *)
(* as the rate says, to within one.                                        *)
(***************************************************************************)
EXTENDS Lifecycle, FiniteSets

CONSTANTS p1, p2, t1, t2

MCProcs == {p1, p2}
MCThreads == {t1, t2}

ASSUME OneInRate ==
  \A rate \in 2..HashSize :
    LET kept == Cardinality({h \in 0..MAX_INT32 : ShouldSample(h, rate)}) IN
    kept * rate \in (HashSize - rate)..(HashSize + rate)
=============================================================================
