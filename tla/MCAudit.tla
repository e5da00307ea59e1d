------------------------------- MODULE MCAudit -------------------------------
(* Small instances of Audit.                                               *)
EXTENDS Audit, TLC

Interchangeable == Permutations(Run) \cup Permutations(Server)
=============================================================================
