----------------------------- MODULE MCDocSync ------------------------------
(* Small instances of DocSync.                                              *)
EXTENDS DocSync
=============================================================================
