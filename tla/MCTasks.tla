------------------------------- MODULE MCTasks -------------------------------
(***************************************************************************)
(* A main task and two more; trace ids are generated.                      *)
(***************************************************************************)
EXTENDS AsyncTasks

CONSTANTS m, a, b

MCCtx == {m, a, b}
Others == Permutations({a, b})
=============================================================================
