---------------------------- MODULE MCToolServer ----------------------------
(* Small instances of ToolServer: two manifests that share one tool, a tool *)
(* of the first alone, and a tool of both whose name holds a write verb.    *)
EXTENDS ToolServer, TLC

CONSTANTS m1, m2, list, count, executives

MCManifest == {m1, m2}
MCTool == {list, count, executives}
MCToolsOf == m1 :> {list, count, executives} @@ m2 :> {list, executives}
MCWriteNamed == {executives}
Interchangeable == Permutations(Req) \cup Permutations(Connector)
=============================================================================
