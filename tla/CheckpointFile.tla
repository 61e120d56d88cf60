--------------------------- MODULE CheckpointFile ---------------------------
(***************************************************************************)
(* The in-memory bookkeeping of one CheckpointFile instance               *)
(* (src/server/checkpoint_file.cpp): the `used' bitmap with its free-bit  *)
(* counter and rotating search cursor (the block allocator), the `valid'  *)
(* bitmap (the last-checkpoint membership), the logical block count       *)
(* blockNum_ and the read/write block counters.                           *)
(*                                                                         *)
(* The backing files are abstracted here: open() contributes the total    *)
(* block count of the files it found, a write contributes its extent.     *)
(* The instance is driven by one caller (the checkpoint manager, spec     *)
(* section 5), whose protocol is modelled by `phase': open() once, then   *)
(* rebuild the bitmaps (recovery), then run checkpoints (allocate, free,  *)
(* write, read, mark valid, truncate).                                    *)
(*                                                                         *)
(* Block numbers are 0-based as in the code; bitmaps are sequences, so    *)
(* bit i of a bitmap bm is bm[i + 1].                                     *)
(***************************************************************************)
EXTENDS Naturals, Integers, Sequences, FiniteSets

CONSTANTS
  SearchLimit,   \* ALLOCATE_BLOCK_SEARCH_LIMIT of allocateBlock()
  BlockExp,      \* BLOCK_EXP_SIZE_: BLOCK_SIZE_ = 2^BlockExp bytes
  MaxBlocks,     \* bound on the bitmap lengths and on blockNum_
  MaxIoCount,    \* bound on the read/write block counters
  LengthBits,    \* width of the uint32_t byte length size << BLOCK_EXP_SIZE_
  Reopens        \* whether the caller calls open() again on an opened object

ASSUME ConstantsAssumption ==
  /\ SearchLimit \in Nat
  /\ BlockExp \in Nat
  /\ MaxBlocks \in Nat \ {0, 1}
  /\ MaxIoCount \in Nat
  /\ LengthBits \in Nat
  /\ Reopens \in BOOLEAN

BlockSize == 2 ^ BlockExp

\* BLOCK_SIZE_ = 1 << BLOCK_EXP_SIZE_ is a positive number of bytes.
ASSUME BlockSizeAssumption == BlockSize \in Nat \ {0}

\* The number of values of a byte length of LengthBits bits.
LengthRange == 2 ^ LengthBits

ASSUME LengthRangeAssumption == LengthRange \in Nat \ {0}

(***************************************************************************)
(* The blocks that writeBlock()/readBlock() count for a call of n blocks: *)
(* the byte length size << BLOCK_EXP_SIZE_ is computed in uint32_t, so it *)
(* wraps modulo 2^LengthBits, and the count is that length >> E.          *)
(***************************************************************************)
IoBlocks(n) == ((n * BlockSize) % LengthRange) \div BlockSize

VARIABLES
  used,            \* usedChunkInfo_: allocation state of every block
  valid,           \* validChunkInfo_: membership in the last checkpoint
  freeCount,       \* freeUseBitNum_: the allocator's count of free bits
  cursor,          \* freeBlockSearchCursor_
  blockNum,        \* blockNum_: logical number of blocks of the files
  readBlockCount,  \* readBlockCount_
  writeBlockCount, \* writeBlockCount_
  phase            \* the caller's stage: "created", "recovery", "running"

vars == <<used, valid, freeCount, cursor, blockNum,
          readBlockCount, writeBlockCount, phase>>

-----------------------------------------------------------------------------
(***************************************************************************)
(* The growable bitmap (util BitArray, spec section 4.1).                 *)
(***************************************************************************)
BiggerOf(a, b) == IF a >= b THEN a ELSE b
SmallerOf(a, b) == IF a <= b THEN a ELSE b

\* get(i): bits past the length read as false.
Get(bm, i) == i < Len(bm) /\ bm[i + 1]

\* set(i, v): grows the bitmap to i + 1 bits, zero-filling the gap.
SetBit(bm, i, v) ==
  [k \in 1..BiggerOf(Len(bm), i + 1) |->
     IF k = i + 1 THEN v ELSE k <= Len(bm) /\ bm[k]]

\* Mutant: the append loop of initializeUsedBlockInfo() run to pos <= blockNum_.
ZerosOneMore(n) == [k \in 1..(n + 1) |-> FALSE]

\* n false bits: clear() followed by n append(false).
Zeros(n) == [k \in 1..n |-> FALSE]

\* reset(): every held bit false, the length kept.
Reset(bm) == Zeros(Len(bm))

\* The positions of the false bits of a bitmap.
FreeSet(bm) == {i \in 0..(Len(bm) - 1) : ~bm[i + 1]}

FreeBits(bm) == Cardinality(FreeSet(bm))

-----------------------------------------------------------------------------
(***************************************************************************)
(* setUsedBlockInfo(blockNo, flag): set the bit and adjust freeCount only *)
(* when the bit actually flips.                                           *)
(***************************************************************************)
\* Mutant: the increment of freeUseBitNum_ without the flip test.
SetUsedNoFlipTest(b, flag) ==
  /\ used' = SetBit(used, b, flag)
  /\ freeCount' = IF flag THEN (IF Get(used, b) THEN freeCount
                               ELSE freeCount - 1)
                  ELSE freeCount + 1

SetUsed(b, flag) ==
  /\ used' = SetBit(used, b, flag)
  /\ freeCount' = IF Get(used, b) = flag THEN freeCount
                  ELSE IF flag THEN freeCount - 1 ELSE freeCount + 1

(***************************************************************************)
(* The free-block search of allocateBlock().  The first loop examines     *)
(* cursor, cursor+1, ... below the length; the second wraps to 0 and      *)
(* continues the same count up to the starting cursor.  A loop stops      *)
(* after examining the position at which count exceeds SearchLimit, so    *)
(* SearchLimit + 2 positions are examined at most.                        *)
(***************************************************************************)
ScanLen1 ==
  IF cursor < Len(used) THEN SmallerOf(Len(used) - cursor, SearchLimit + 2)
  ELSE 0

\* The first loop left by its limit break.
Broke1 == cursor + SearchLimit + 1 < Len(used)

\* The value of count after the first loop.
Count0 == IF Broke1 THEN SearchLimit + 1 ELSE ScanLen1

\* The second loop runs.
Wraps == Count0 <= SearchLimit

\* Mutant: the search never wraps to position 0.
ScanLen2NoWrap == 0

ScanLen2 ==
  IF Wraps THEN SmallerOf(cursor, SearchLimit + 2 - Count0) ELSE 0

\* Mutant: the search starts one past the cursor.
ScanPosPastCursor(k) ==
  IF k < ScanLen1 THEN cursor + k + 1 ELSE k - ScanLen1

\* The k-th position the search examines.
ScanPos(k) == IF k < ScanLen1 THEN cursor + k ELSE k - ScanLen1

ScanIdx == 0..(ScanLen1 + ScanLen2 - 1)

\* The k-th examined position is the first free one.
FirstFreeAt(k) ==
  /\ ~Get(used, ScanPos(k))
  /\ \A j \in 0..(k - 1) : Get(used, ScanPos(j))

\* The value of pos after both loops found nothing.
EndPos ==
  IF Wraps
  THEN IF SearchLimit + 1 - Count0 < cursor THEN SearchLimit + 1 - Count0
       ELSE cursor
  ELSE IF Broke1 THEN cursor + SearchLimit + 1 ELSE Len(used)

\* freeBlockSearchCursor_ = pos + 1, wrapped at the pre-call length.
NextCursor(pos) == IF pos + 1 >= Len(used) THEN 0 ELSE pos + 1

-----------------------------------------------------------------------------
Init ==
  /\ used = << >>
  /\ valid = << >>
  /\ freeCount = 0
  /\ cursor = 0
  /\ blockNum = 0
  /\ readBlockCount = 0
  /\ writeBlockCount = 0
  /\ phase = "created"

Opened == phase \in {"recovery", "running"}

(***************************************************************************)
(* open(): the files hold n blocks in total.  Both bitmaps get bit n + 1  *)
(* set false, freeCount becomes the length of `used', the cursor 0.  A    *)
(* caller that reopens (Reopens) calls it again on an opened object.      *)
(***************************************************************************)
Open(n) ==
  /\ phase = "created" \/ (Reopens /\ Opened)
  /\ blockNum' = n
  /\ used' = SetBit(used, n + 1, FALSE)
  /\ valid' = SetBit(valid, n + 1, FALSE)
  /\ freeCount' = Len(used')
  /\ cursor' = 0
  /\ phase' = "recovery"
  /\ UNCHANGED <<readBlockCount, writeBlockCount>>

(***************************************************************************)
(* truncate(): the files recreated empty; counts, cursor and bitmaps      *)
(* reset.  A truncated store has nothing to recover.                      *)
(***************************************************************************)
Truncate ==
  /\ Opened
  /\ blockNum' = 0
  /\ freeCount' = 0
  /\ cursor' = 0
  /\ used' = Reset(used)
  /\ valid' = Reset(valid)
  /\ phase' = "running"
  /\ UNCHANGED <<readBlockCount, writeBlockCount>>

\* Mutant: the search run without the freeUseBitNum_ > 0 test.
AllocateReuseNoCountGuard ==
  /\ phase = "running"
  /\ \E k \in ScanIdx :
       /\ FirstFreeAt(k)
       /\ SetUsed(ScanPos(k), TRUE)
       /\ cursor' = NextCursor(ScanPos(k))
  /\ UNCHANGED <<valid, blockNum, readBlockCount, writeBlockCount, phase>>

(***************************************************************************)
(* allocateBlock(), reuse outcome: the search meets a free position p,    *)
(* which setUsedBlockInfo(p, true) marks used; the cursor moves past p.   *)
(***************************************************************************)
AllocateReuse ==
  /\ phase = "running"
  /\ freeCount > 0
  /\ \E k \in ScanIdx :
       /\ FirstFreeAt(k)
       /\ SetUsed(ScanPos(k), TRUE)
       /\ cursor' = NextCursor(ScanPos(k))
  /\ UNCHANGED <<valid, blockNum, readBlockCount, writeBlockCount, phase>>

(***************************************************************************)
(* allocateBlock(), append outcome: no free count, or the bounded search  *)
(* found nothing.  A true bit is appended at p = length, valid[p] is set  *)
(* false, and setUsedBlockInfo(p, true) finds the bit already set.        *)
(***************************************************************************)
AllocateAppend ==
  /\ phase = "running"
  /\ Len(used) < MaxBlocks
  /\ freeCount > 0 => \A k \in ScanIdx : Get(used, ScanPos(k))
  /\ cursor' = IF freeCount > 0 THEN NextCursor(EndPos) ELSE cursor
  /\ used' = Append(used, TRUE)
  /\ valid' = SetBit(valid, Len(used), FALSE)
  /\ UNCHANGED <<freeCount, blockNum, readBlockCount, writeBlockCount, phase>>

AllocateBlock == AllocateReuse \/ AllocateAppend

(***************************************************************************)
(* freeBlock(b): the caller frees a block it holds (asserted used).       *)
(***************************************************************************)
FreeBlock(b) ==
  /\ phase = "running"
  /\ Get(used, b)
  /\ SetUsed(b, FALSE)
  /\ UNCHANGED <<valid, cursor, blockNum, readBlockCount, writeBlockCount,
                 phase>>

(***************************************************************************)
(* setUsedBlockInfo(b, flag) called by recovery for a block of the files. *)
(***************************************************************************)
SetUsedBlockInfo(b, flag) ==
  /\ phase = "recovery"
  /\ b < Len(used)
  /\ SetUsed(b, flag)
  /\ UNCHANGED <<valid, cursor, blockNum, readBlockCount, writeBlockCount,
                 phase>>

\* initializeUsedBlockInfo(): blockNum_ free bits, all counted free.
InitializeUsedBlockInfo ==
  /\ phase = "recovery"
  /\ used' = Zeros(blockNum)
  /\ freeCount' = blockNum
  /\ UNCHANGED <<valid, cursor, blockNum, readBlockCount, writeBlockCount,
                 phase>>

\* setValidBlockInfo(b, flag), by recovery or by the checkpoint protocol.
SetValidBlockInfo(b, flag) ==
  /\ Opened
  /\ valid' = SetBit(valid, b, flag)
  /\ UNCHANGED <<used, freeCount, cursor, blockNum, readBlockCount,
                 writeBlockCount, phase>>

\* initializeValidBlockInfo(): blockNum_ false bits.
InitializeValidBlockInfo ==
  /\ phase = "recovery"
  /\ valid' = Zeros(blockNum)
  /\ UNCHANGED <<used, freeCount, cursor, blockNum, readBlockCount,
                 writeBlockCount, phase>>

(***************************************************************************)
(* The recovery rebuild is over (the checkpoint manager; no code here).   *)
(***************************************************************************)
FinishRecovery ==
  /\ phase = "recovery"
  /\ phase' = "running"
  /\ UNCHANGED <<used, valid, freeCount, cursor, blockNum, readBlockCount,
                 writeBlockCount>>

-----------------------------------------------------------------------------
(***************************************************************************)
(* writeBlock(buffer, n, b) that completed: blockNum_ raised to b + n,    *)
(* writeBlockCount_ by the blocks of the (wrapped) byte length.           *)
(***************************************************************************)
WriteBlock(b, n) ==
  /\ Opened
  /\ n > 0
  /\ writeBlockCount + IoBlocks(n) <= MaxIoCount
  /\ blockNum' = IF blockNum < n + b THEN n + b ELSE blockNum
  /\ writeBlockCount' = writeBlockCount + IoBlocks(n)
  /\ UNCHANGED <<used, valid, freeCount, cursor, readBlockCount, phase>>

(***************************************************************************)
(* writePartialBlock(buffer, size, offset) that completed: blockNum_      *)
(* raised to the blocks covering byte offset + size.                      *)
(***************************************************************************)
WritePartialBlock(off, size) ==
  /\ Opened
  /\ blockNum' = IF blockNum * BlockSize < size + off
                 THEN (size + off + BlockSize - 1) \div BlockSize
                 ELSE blockNum
  /\ UNCHANGED <<used, valid, freeCount, cursor, readBlockCount,
                 writeBlockCount, phase>>

(***************************************************************************)
(* readBlock(buffer, n, b) that passes the parameter check and completes. *)
(* A rejected call throws and changes nothing.                            *)
(***************************************************************************)
ReadBlockAccepted(b, n) == ~(blockNum < n + b - 1) /\ n # 0

ReadBlock(b, n) ==
  /\ Opened
  /\ ReadBlockAccepted(b, n)
  /\ readBlockCount + IoBlocks(n) <= MaxIoCount
  /\ readBlockCount' = readBlockCount + IoBlocks(n)
  /\ UNCHANGED <<used, valid, freeCount, cursor, blockNum, writeBlockCount,
                 phase>>

ResetReadBlockCount ==
  /\ readBlockCount' = 0
  /\ UNCHANGED <<used, valid, freeCount, cursor, blockNum, writeBlockCount,
                 phase>>

ResetWriteBlockCount ==
  /\ writeBlockCount' = 0
  /\ UNCHANGED <<used, valid, freeCount, cursor, blockNum, readBlockCount,
                 phase>>

-----------------------------------------------------------------------------
Blocks == 0..(MaxBlocks - 1)

Next ==
  \/ \E n \in 0..(MaxBlocks - 2) : Open(n)
  \/ Truncate
  \/ AllocateBlock
  \/ \E b \in Blocks : FreeBlock(b)
  \/ \E b \in Blocks, f \in BOOLEAN : SetUsedBlockInfo(b, f)
  \/ InitializeUsedBlockInfo
  \/ \E b \in Blocks, f \in BOOLEAN : SetValidBlockInfo(b, f)
  \/ InitializeValidBlockInfo
  \/ FinishRecovery
  \/ \E b \in Blocks : \E n \in 1..(MaxBlocks - b) : WriteBlock(b, n)
  \/ \E off \in 0..(MaxBlocks * BlockSize - 1), size \in 1..BlockSize :
        /\ off + size <= MaxBlocks * BlockSize
        /\ WritePartialBlock(off, size)
  \/ \E b \in Blocks, n \in 1..2 : ReadBlock(b, n)
  \/ ResetReadBlockCount
  \/ ResetWriteBlockCount

Spec == Init /\ [][Next]_vars

-----------------------------------------------------------------------------
\* Bitmaps of at most MaxBlocks bits.
BitMap == UNION {[1..n -> BOOLEAN] : n \in 0..MaxBlocks}

TypeOK ==
  /\ used \in BitMap
  /\ valid \in BitMap
  /\ freeCount \in Int
  /\ cursor \in 0..(MaxBlocks - 1)
  /\ blockNum \in 0..MaxBlocks
  /\ readBlockCount \in 0..MaxIoCount
  /\ writeBlockCount \in 0..MaxIoCount
  /\ phase \in {"created", "recovery", "running"}

(***************************************************************************)
(* freeUseBitNum_ never exceeds the number of free bits of usedChunkInfo_ *)
(* and never drops below zero, across open(), recovery's set/initialize,  *)
(* allocateBlock(), freeBlock() and truncate(): so a positive count       *)
(* always has a free bit behind it, and the unsigned decrement in         *)
(* setUsedBlockInfo() (asserted non-zero) never wraps.                    *)
(***************************************************************************)
FreeCountSound == 0 <= freeCount /\ freeCount <= FreeBits(used)

(***************************************************************************)
(* freeUseBitNum_ is exactly the number of false bits of usedChunkInfo_   *)
(* (spec section 3, invariant 2; section 8, property 1).                  *)
(***************************************************************************)
FreeCountAccurate == freeCount = FreeBits(used)

(***************************************************************************)
(* The position of the j-th block of the spec's search order from the    *)
(* cursor: cursor .. length - 1, then 0 .. cursor - 1.                   *)
(***************************************************************************)
RotPos(j) ==
  IF cursor < Len(used) /\ cursor + j >= Len(used) THEN cursor + j - Len(used)
  ELSE IF cursor < Len(used) THEN cursor + j ELSE j

NearbyFree(j) ==
  /\ j < SearchLimit /\ j < Len(used)
  /\ ~Get(used, RotPos(j))
  /\ \A i \in 0..(j - 1) : Get(used, RotPos(i))

(***************************************************************************)
(* allocateBlock() with a positive free count reuses the first free block *)
(* of the search order when it lies within SearchLimit positions of the   *)
(* cursor, in particular across the wrap from the end of the bitmap to 0: *)
(* the bounded search never grows the file while a nearby block is free.  *)
(***************************************************************************)
AllocateReusesNearbyFree ==
  [][AllocateBlock /\ freeCount > 0 =>
       \A j \in 0..(SearchLimit - 1) :
          NearbyFree(j) => used' = SetBit(used, RotPos(j), TRUE)]_vars

(***************************************************************************)
(* allocateBlock() reuses only a block among the first SearchLimit        *)
(* positions of the search order (spec section 4.4: "for at most          *)
(* SEARCH_LIMIT positions"; section 8: after exactly SEARCH_LIMIT used    *)
(* bits from the cursor it appends).                                      *)
(***************************************************************************)
AllocateScanBounded ==
  [][AllocateReuse =>
       \E j \in 0..(SearchLimit - 1) :
          j < Len(used) /\ used' = SetBit(used, RotPos(j), TRUE)]_vars

=============================================================================
