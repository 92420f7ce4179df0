--------------------------- MODULE MCReconciliation ---------------------------
(***************************************************************************)
(* Small instances of Reconciliation: a root directory with one entry, and *)
(* for the changes of the selected roots a second root directory.          *)
(***************************************************************************)
EXTENDS Reconciliation

CONSTANTS home, file, disk

OneRoot == {{home}}
TwoRoots == {{home}, {disk}}
HomeParent == [p \in Paths |-> IF p = file THEN home ELSE NoPath]
=============================================================================
