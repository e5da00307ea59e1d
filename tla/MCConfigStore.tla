--------------------------- MODULE MCConfigStore -----------------------------
(* Small instances of ConfigStore: a short value and a long one.           *)
EXTENDS ConfigStore, TLC

CONSTANTS short, long

MCValue == {short, long}
MCSize == short :> 1 @@ long :> 2
Interchangeable == Permutations(Applier) \cup Permutations(Connector) \cup Permutations(Inode)
=============================================================================
