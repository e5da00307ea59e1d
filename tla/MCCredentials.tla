---------------------------- MODULE MCCredentials ---------------------------
(* Small instances of Credentials.                                         *)
EXTENDS Credentials, TLC

Interchangeable == Permutations(Value) \cup Permutations(Request)
=============================================================================
