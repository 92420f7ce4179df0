--------------------------- MODULE MCRequestRegistry ---------------------------
(***************************************************************************)
(* Small instances of RequestRegistry.                                     *)
(***************************************************************************)
EXTENDS RequestRegistry

CONSTANTS t1, t2, x, y

\* The application's ids: one per window for its observer, a fresh one per query.
ObserversAndQueries == [k \in Kinds |-> IF k = "wait_status" THEN {x} ELSE {y}]
OneId == [k \in Kinds |-> {y}]
=============================================================================
