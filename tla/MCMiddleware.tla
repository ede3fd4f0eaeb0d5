---------------------------- MODULE MCMiddleware ----------------------------
(***************************************************************************)
(* A small instance of Middleware for TLC: two threads, so that requests   *)
(* run at once and one after another on a thread.                          *)
(***************************************************************************)
EXTENDS Middleware

CONSTANTS c1, c2, id1, parent1

MCCtx == {c1, c2}
MCCallerId == {id1}

Threads == Permutations(MCCtx)
=============================================================================
