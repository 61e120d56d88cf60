----------------------- MODULE MC_CheckpointFileSet -----------------------
(***************************************************************************)
(* Small instances of CheckpointFileSet for TLC.  Two files with stripes  *)
(* of two blocks over five logical blocks put blocks 0, 1, 4 in file 0 at *)
(* local blocks 0, 1, 2 and blocks 2, 3 in file 1: every term of the      *)
(* mapper matters, a write past the end of a file zero-fills a gap, and   *)
(* a two-block read from an odd block crosses a stripe end.  One datum    *)
(* tells a written block from a hole; one failed OS call per behaviour.   *)
(***************************************************************************)
EXTENDS CheckpointFileSet

MCSplitCount == 2
MCStripeSize == 2
MCStripeOne == 1
MCNumBlocks == 5
MCNumBlocksSmall == 3
MCData == {"d1"}
MCMaxFaults == 1
MCNoFaults == 0
=============================================================================
