------------------------- MODULE MC_CheckpointFile -------------------------
(***************************************************************************)
(* Small instances of CheckpointFile for TLC: 2-byte blocks, bitmaps of  *)
(* at most 4 bits, block counters up to 1.  With a search limit of 2 the  *)
(* search wraps from the end of the bitmap to 0 within the limit; with a  *)
(* search limit of 1 the first loop is cut by the limit (cursor + 2 < 4). *)
(* A 16-bit byte length never wraps for these calls (at most 8 bytes); a  *)
(* 3-bit one wraps for a 4-block call, as 32 bits do for a call of        *)
(* 2^(32 - E) blocks.                                                     *)
(***************************************************************************)
EXTENDS CheckpointFile

MCSearchLimit == 2
MCSearchLimitCut == 1
MCBlockExp == 1
MCMaxBlocks == 4
MCMaxIoCount == 1
MCLengthBits == 16
=============================================================================
