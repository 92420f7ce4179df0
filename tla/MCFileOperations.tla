--------------------------- MODULE MCFileOperations ---------------------------
(* Small instances of FileOperations: two names on one volume, one on another. *)
EXTENDS FileOperations

CONSTANTS a, b, c

Volumes == [p \in Paths |-> IF p = c THEN "usb" ELSE "disk"]
Selections == {<<[src |-> a, dst |-> b]>>, <<[src |-> a, dst |-> c]>>,
               <<[src |-> a, dst |-> c], [src |-> b, dst |-> a]>>}
=============================================================================
