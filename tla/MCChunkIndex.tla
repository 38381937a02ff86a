---------------------------- MODULE MCChunkIndex ----------------------------
(* ChunkIndex with two files that can be blank, grow, shrink and shift.    *)
EXTENDS ChunkIndex

MCContents == {<<>>, <<1>>, <<2, 1>>}

=============================================================================
