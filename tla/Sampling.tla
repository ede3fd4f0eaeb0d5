------------------------------ MODULE Sampling ------------------------------
(***************************************************************************)
(* Deterministic sampling: _should_sample of beeline/trace.py.  What it    *)
(* draws from the SHA-1 of a trace id is a number below HashSize (2^32 in  *)
(* the code); the division of floats in the code decides like the product  *)
(* here, because hash and quotient have fewer than 53 bits.  A rate of 0   *)
(* divides by zero in the code; the rates here are those init documents.   *)
(***************************************************************************)
EXTENDS Naturals

CONSTANT HashSize    \* the number of values of a hash

ASSUME SamplingAssumption == HashSize \in Nat \ {0}

MAX_INT32 == HashSize - 1

\* (mutant) every rate-th hash is kept.
ShouldSampleModulo(hash, rate) == hash % rate = 0

ShouldSample(hash, rate) == rate = 1 \/ hash * rate < MAX_INT32

\* What is kept at a rate is kept at every lower one, so that a trace which passes
\* through services of different rates is whole in the ones that keep more.
Nested(hash, low, high) ==
  low <= high /\ ShouldSample(hash, high) => ShouldSample(hash, low)

=============================================================================
