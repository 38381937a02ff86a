----------------------------- MODULE MCTreeScan -----------------------------
(***************************************************************************)
(* A file or directory x at the root, a file y in it, and a directory v    *)
(* that is skipped with a file w in it.  Two contents have the same size.  *)
(***************************************************************************)
EXTENDS TreeScan

MCPaths  == {"x", "y", "v", "w"}
MCParent == [p \in MCPaths |-> IF p = "y" THEN "x" ELSE IF p = "w" THEN "v" ELSE "root"]
MCSizeOf == [c \in Contents |-> IF c = "large" THEN 2 ELSE 1]

=============================================================================
