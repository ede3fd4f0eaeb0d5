------------------------------ MODULE MCBlocks ------------------------------
(***************************************************************************)
(* Matched blocks on two threads, one id that callers pass, one remote      *)
(* parent.                                                                 *)
(***************************************************************************)
EXTENDS Blocks

CONSTANTS t1, t2, x

MCCtx == {t1, t2}
MCCallerId == {x}
=============================================================================
