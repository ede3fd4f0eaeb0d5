------------------------------ MODULE MCTracer ------------------------------
(***************************************************************************)
(* The free client on a small instance: two threads, one id that callers   *)
(* pass, one remote parent.                                                *)
(***************************************************************************)
EXTENDS Tracer

CONSTANTS t1, t2, x

MCCtx == {t1, t2}
MCCallerId == {x}
=============================================================================
