---------------------------- MODULE MCCpuAdmission ----------------------------
(***************************************************************************)
(* A small instance of CpuAdmission.                                       *)
(***************************************************************************)
EXTENDS CpuAdmission

CONSTANTS q1, q2, r1
=============================================================================
