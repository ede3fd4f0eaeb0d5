------------------------------ MODULE MCFields ------------------------------
(***************************************************************************)
(* Two threads whose requests and jobs add fields and rollups; one id that *)
(* callers pass, one remote parent.                                        *)
(***************************************************************************)
EXTENDS TraceFields

CONSTANTS t1, t2, x

MCCtx == {t1, t2}
MCCallerId == {x}
Threads == Permutations(MCCtx)

NoFields ==
  /\ \A t \in DOMAIN tdata : Keys(tdata[t].fields) = {}
  /\ \A s \in DOMAIN sdata : Keys(sdata[s].fields) = {}

NoTotals == \A t \in DOMAIN tdata : tdata[t].rollup = 0 /\ tdata[t].dataset = None

\* Bound: no action reads fields to write rollups or datasets, or the other way
\* round, so states that have both are not explored further.
OneKind == NoFields \/ NoTotals
=============================================================================
