------------------------ MODULE MCExecutorDialogue ------------------------
(* An allocation without and a delivery with three secret chunks, over     *)
(* pipes that hold one frame.                                              *)
EXTENDS ExecutorDialogue

CONSTANTS n1, n2

MCNonces == {n1, n2}
MCChunkCounts == {0, 3}
=============================================================================
