----------------------------- MODULE MCFileLease -----------------------------
(* FileLease on small sets of processes.                                     *)
EXTENDS FileLease

CONSTANTS p1, p2

Two == {p1, p2}
=============================================================================
