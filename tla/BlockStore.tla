----------------------------- MODULE BlockStore -----------------------------
(***************************************************************************)
(* What the I/O engine of CheckpointFile promises its caller (spec         *)
(* sections 3, 4.6 and 8, invariant 5): a flat array of blocks.  A write  *)
(* of n blocks at b stores its buffer in b .. b + n - 1 and nothing else; *)
(* a failed write may have stored a prefix of it; a read returns the      *)
(* stored blocks, or reports that there is no data, or fails; truncate    *)
(* empties the array (a failed truncate may have emptied part of it); a   *)
(* punched hole reads as zeros or, where the OS has no punch, is unchanged.*)
(* Every other call leaves the blocks alone.  `outcome' is what the last  *)
(* call returned: "ok", "nodata" (readBlock's 0) or "error" (a throw).    *)
(***************************************************************************)
EXTENDS Naturals, Sequences

CONSTANTS
  NumBlocks, \* the number of logical blocks
  Data,      \* the block contents a caller writes
  Zero       \* the contents of a block never written (a hole)

\* The logical block numbers, from 0 as in the spec's section 3.
Blocks == 0..(NumBlocks - 1)

VARIABLES store, outcome, readData

Outcomes == {"ok", "nodata", "error"}

Init ==
  /\ store = [b \in Blocks |-> Zero]
  /\ outcome = "ok"
  /\ readData = << >>

\* store with the blocks of S set to d.
Fill(S, d) == [k \in Blocks |-> IF k \in S THEN d ELSE store[k]]

Write(b, n, d) ==
  /\ store' = Fill(b..(b + n - 1), d)
  /\ outcome' = "ok"
  /\ UNCHANGED readData

WriteFailed(b, n, d) ==
  /\ \E j \in 0..(n - 1) : store' = Fill(b..(b + j - 1), d)
  /\ outcome' = "error"
  /\ UNCHANGED readData

Read(b, n) ==
  /\ \/ /\ outcome' = "ok"
        /\ readData' = [k \in 1..n |-> store[b + k - 1]]
     \/ /\ outcome' = "nodata"
        /\ UNCHANGED readData
  /\ UNCHANGED store

Truncate ==
  /\ store' = [k \in Blocks |-> Zero]
  /\ outcome' = "ok"
  /\ UNCHANGED readData

TruncateFailed ==
  /\ store' \in [Blocks -> Data \cup {Zero}]
  /\ \A k \in Blocks : store'[k] \in {store[k], Zero}
  /\ outcome' = "error"
  /\ UNCHANGED readData

Punch(b) ==
  /\ store' \in {store, Fill({b}, Zero)}
  /\ outcome' = "ok"
  /\ UNCHANGED readData

\* open(), close(), a rejected or failed call: the blocks are unchanged.
Other ==
  /\ outcome' \in Outcomes
  /\ UNCHANGED <<store, readData>>

\* The lengths of a call: at most the whole array.
Lengths == 0..NumBlocks

Next ==
  \/ Other
  \/ \E b \in Blocks, n \in Lengths, d \in Data :
        \/ Write(b, n, d)
        \/ WriteFailed(b, n, d)
  \/ \E b \in Blocks, n \in Lengths :
        b + n - 1 \in Blocks /\ Read(b, n)
  \/ Truncate
  \/ TruncateFailed
  \/ \E b \in Blocks : Punch(b)

Spec == Init /\ [][Next]_<<store, outcome, readData>>

=============================================================================
