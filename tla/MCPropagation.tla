--------------------------- MODULE MCPropagation ---------------------------
(***************************************************************************)
(* Two services with a thread each.  The trace id that callers pass, if     *)
(* any, has not the form of W3C.                                            *)
(***************************************************************************)
EXTENDS Propagation

CONSTANTS a1, b1, front, back, uuid

MCCtx == {a1, b1}
MCServiceOf == [c \in Ctx |-> IF c = b1 THEN back ELSE front]

\* Between them the services use every parser, and each form of headers is sent
\* to a service that understands it and to one that does not.
MCHooksOf == [s \in Service |->
  IF s = front
  THEN {[parser |-> "honeycomb", propagator |-> "honeycomb"], [parser |-> "w3c", propagator |-> "w3c"]}
  ELSE {[parser |-> "default", propagator |-> "honeycomb"], [parser |-> "none", propagator |-> "w3c"]}]

\* Bound: fields decide nothing but the contents of headers, so behaviours with
\* fields are followed up to the fourth span only.
FieldsEarly == Len(spans) <= 3 \/ \A t \in DOMAIN tfields : tfields[t] = {}
=============================================================================
