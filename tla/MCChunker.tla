------------------------------ MODULE MCChunker ------------------------------
(***************************************************************************)
(* All documents of up to five lines, short, long and blank ones, under    *)
(* policies that include zero, negative and too large values.              *)
(***************************************************************************)
EXTENDS Chunker

MCLine      == {[len |-> 1, blank |-> TRUE], [len |-> 1, blank |-> FALSE],
                [len |-> 3, blank |-> FALSE]}
MCDocuments == UNION {[1 .. n -> MCLine] : n \in 0 .. 5}
MCPolicies  == [maxChars : {0, 1, 3, 4}, maxLines : {0, 1, 2, 3}, overlapLines : {-1, 1, 2, 3}]

=============================================================================
