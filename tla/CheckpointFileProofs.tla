------------------------ MODULE CheckpointFileProofs ------------------------
(***************************************************************************)
(* Proofs about CheckpointFile for every value of the constants: the type *)
(* invariant, and the soundness of the allocator's free count             *)
(* (FreeCountSound), which rests on the count being exact during          *)
(* recovery.                                                              *)
(***************************************************************************)
EXTENDS CheckpointFile, FiniteSetTheorems, SequenceTheorems, TLAPS

USE ConstantsAssumption, BlockSizeAssumption, LengthRangeAssumption

-----------------------------------------------------------------------------
(***************************************************************************)
(* Bitmaps.                                                               *)
(***************************************************************************)

\* A function on 1..n is a sequence of length n.
LEMMA FunIsBitMap ==
  ASSUME NEW n \in 0..MaxBlocks, NEW bm \in [1..n -> BOOLEAN]
  PROVE  /\ bm \in BitMap
         /\ bm \in Seq(BOOLEAN)
         /\ Len(bm) = n
<1>1. bm \in Seq(BOOLEAN)
  BY SeqDef
<1>2. Len(bm) = n
  BY <1>1, LenProperties
<1>3. QED
  BY <1>1, <1>2 DEF BitMap

\* What a bitmap of the type invariant is.
LEMMA BitMapElim ==
  ASSUME NEW bm \in BitMap
  PROVE  /\ bm \in Seq(BOOLEAN)
         /\ Len(bm) \in 0..MaxBlocks
         /\ bm \in [1..Len(bm) -> BOOLEAN]
<1>1. PICK n \in 0..MaxBlocks : bm \in [1..n -> BOOLEAN]
  BY DEF BitMap
<1>2. QED
  BY <1>1, FunIsBitMap

\* set(i, v) below MaxBlocks keeps a bitmap and sets bit i.
LEMMA SetBitType ==
  ASSUME NEW bm \in BitMap, NEW i \in 0..(MaxBlocks - 1), NEW v \in BOOLEAN
  PROVE  /\ SetBit(bm, i, v) \in BitMap
         /\ Len(SetBit(bm, i, v)) = BiggerOf(Len(bm), i + 1)
         /\ SetBit(bm, i, v)[i + 1] <=> v
         /\ \A k \in 1..Len(bm) : k # i + 1 => (SetBit(bm, i, v)[k] <=> bm[k])
         /\ \A k \in (Len(bm) + 1)..(i + 1) : k # i + 1 =>
               ~SetBit(bm, i, v)[k]
<1>1. /\ Len(bm) \in 0..MaxBlocks
      /\ bm \in [1..Len(bm) -> BOOLEAN]
  BY BitMapElim
<1>2. BiggerOf(Len(bm), i + 1) \in 0..MaxBlocks
  BY <1>1 DEF BiggerOf
<1>3. SetBit(bm, i, v) \in [1..BiggerOf(Len(bm), i + 1) -> BOOLEAN]
  BY <1>1 DEF SetBit
<1>4. /\ SetBit(bm, i, v) \in BitMap
      /\ Len(SetBit(bm, i, v)) = BiggerOf(Len(bm), i + 1)
  BY <1>2, <1>3, FunIsBitMap
<1>5. SetBit(bm, i, v)[i + 1] <=> v
  BY <1>1 DEF SetBit, BiggerOf
<1>6. ASSUME NEW k \in 1..Len(bm), k # i + 1
      PROVE  SetBit(bm, i, v)[k] <=> bm[k]
  <2>1. k \in 1..BiggerOf(Len(bm), i + 1) /\ bm[k] \in BOOLEAN
    BY <1>1 DEF BiggerOf
  <2>2. QED
    BY <2>1, <1>6 DEF SetBit
<1>7. ASSUME NEW k \in (Len(bm) + 1)..(i + 1), k # i + 1
      PROVE  ~SetBit(bm, i, v)[k]
  <2>1. k \in 1..BiggerOf(Len(bm), i + 1) /\ ~(k <= Len(bm))
    BY <1>1 DEF BiggerOf
  <2>2. QED
    BY <2>1, <1>7 DEF SetBit
<1>8. QED
  BY <1>4, <1>5, <1>6, <1>7

\* n false bits.
LEMMA ZerosType ==
  ASSUME NEW n \in 0..MaxBlocks
  PROVE  /\ Zeros(n) \in BitMap
         /\ Len(Zeros(n)) = n
BY FunIsBitMap DEF Zeros

\* Appending a bit below the bound.
LEMMA AppendType ==
  ASSUME NEW bm \in BitMap, Len(bm) < MaxBlocks, NEW v \in BOOLEAN
  PROVE  /\ Append(bm, v) \in BitMap
         /\ Len(Append(bm, v)) = Len(bm) + 1
         /\ \A k \in 1..Len(bm) : Append(bm, v)[k] = bm[k]
         /\ Append(bm, v)[Len(bm) + 1] = v
<1>1. /\ bm \in Seq(BOOLEAN)
      /\ Len(bm) \in 0..MaxBlocks
  BY BitMapElim
<1>2. /\ Append(bm, v) \in Seq(BOOLEAN)
      /\ Len(Append(bm, v)) = Len(bm) + 1
      /\ \A k \in 1..Len(bm) : Append(bm, v)[k] = bm[k]
      /\ Append(bm, v)[Len(bm) + 1] = v
  BY <1>1, AppendProperties
<1>3. Append(bm, v) \in [1..(Len(bm) + 1) -> BOOLEAN]
  BY <1>2, LenProperties
<1>4. Len(bm) + 1 \in 0..MaxBlocks
  BY <1>1
<1>5. Append(bm, v) \in BitMap
  BY <1>3, <1>4, FunIsBitMap
<1>6. QED
  BY <1>2, <1>5

-----------------------------------------------------------------------------
(***************************************************************************)
(* The free-block search stays inside the bounds.                         *)
(***************************************************************************)
LEMMA ScanBounds ==
  ASSUME TypeOK
  PROVE  /\ \A k \in ScanIdx : ScanPos(k) \in 0..(MaxBlocks - 1)
         /\ \A k \in ScanIdx :
               ScanPos(k) < Len(used) \/ ScanPos(k) < cursor
         /\ \A p \in Nat : NextCursor(p) \in 0..(MaxBlocks - 1)
         /\ EndPos \in Nat
<1>1. Len(used) \in 0..MaxBlocks
  BY BitMapElim DEF TypeOK
<1>2. /\ ScanLen1 \in 0..MaxBlocks
      /\ ScanLen1 = 0 \/ cursor + ScanLen1 <= Len(used)
  BY <1>1 DEF TypeOK, ScanLen1, SmallerOf
<1>3. ScanLen2 \in 0..cursor
  BY <1>1 DEF TypeOK, ScanLen2, SmallerOf, Wraps, Count0, Broke1, ScanLen1
<1>4. Count0 \in Nat
  BY <1>2 DEF Count0
<1>5. EndPos \in Nat
  BY <1>1, <1>4 DEF TypeOK, EndPos, Wraps
<1>6. QED
  BY <1>1, <1>2, <1>3, <1>5 DEF TypeOK, ScanIdx, ScanPos, NextCursor

-----------------------------------------------------------------------------
(***************************************************************************)
(* The false bits of a bitmap.                                            *)
(***************************************************************************)
LEMMA FreeSetFinite ==
  ASSUME NEW bm \in BitMap
  PROVE  /\ FreeSet(bm) \subseteq 0..(Len(bm) - 1)
         /\ IsFiniteSet(FreeSet(bm))
         /\ FreeBits(bm) \in Nat
<1>1. FreeSet(bm) \subseteq 0..(Len(bm) - 1)
  BY DEF FreeSet
<1>2. IsFiniteSet(0..(Len(bm) - 1))
  BY BitMapElim, FS_Interval
<1>3. IsFiniteSet(FreeSet(bm))
  BY <1>1, <1>2, FS_Subset
<1>4. QED
  BY <1>1, <1>3, FS_CardinalityType DEF FreeBits

\* All of Zeros(n) is free.
LEMMA ZerosFree ==
  ASSUME NEW n \in 0..MaxBlocks
  PROVE  FreeBits(Zeros(n)) = n
<1>1. FreeSet(Zeros(n)) = 0..(n - 1)
  BY ZerosType DEF FreeSet, Zeros
<1>2. QED
  BY <1>1, FS_Interval DEF FreeBits

\* set(i, v) inside the bitmap adds i to, or removes it from, the false bits.
LEMMA FreeSetInside ==
  ASSUME NEW bm \in BitMap, NEW i \in 0..(MaxBlocks - 1), NEW v \in BOOLEAN,
         i < Len(bm)
  PROVE  FreeSet(SetBit(bm, i, v)) =
           IF v THEN FreeSet(bm) \ {i} ELSE FreeSet(bm) \cup {i}
<1>0. /\ Len(bm) \in 0..MaxBlocks
      /\ Len(SetBit(bm, i, v)) = BiggerOf(Len(bm), i + 1)
      /\ SetBit(bm, i, v)[i + 1] <=> v
      /\ \A k \in 1..Len(bm) : k # i + 1 => (SetBit(bm, i, v)[k] <=> bm[k])
  BY SetBitType, BitMapElim
<1>1. Len(SetBit(bm, i, v)) = Len(bm)
  BY <1>0 DEF BiggerOf
<1>2. \A j \in 0..(Len(bm) - 1) :
        (SetBit(bm, i, v)[j + 1] <=> IF j = i THEN v ELSE bm[j + 1])
  BY <1>0
<1>3. QED
  BY <1>1, <1>2 DEF FreeSet

\* set(i, v) keeps every other false bit false, inside the bitmap or past it.
LEMMA FreeSetKept ==
  ASSUME NEW bm \in BitMap, NEW i \in 0..(MaxBlocks - 1), NEW v \in BOOLEAN
  PROVE  FreeSet(bm) \ {i} \subseteq FreeSet(SetBit(bm, i, v))
<1>0. /\ Len(bm) \in 0..MaxBlocks
      /\ Len(SetBit(bm, i, v)) = BiggerOf(Len(bm), i + 1)
      /\ \A k \in 1..Len(bm) : k # i + 1 => (SetBit(bm, i, v)[k] <=> bm[k])
  BY SetBitType, BitMapElim
<1>1. Len(bm) <= Len(SetBit(bm, i, v))
  BY <1>0 DEF BiggerOf
<1>2. \A j \in 0..(Len(bm) - 1) : j # i =>
        (SetBit(bm, i, v)[j + 1] <=> bm[j + 1])
  BY <1>0
<1>3. QED
  BY <1>1, <1>2 DEF FreeSet

\* Appending a true bit changes no false bit.
LEMMA FreeSetAppend ==
  ASSUME NEW bm \in BitMap, Len(bm) < MaxBlocks
  PROVE  FreeSet(Append(bm, TRUE)) = FreeSet(bm)
BY AppendType, BitMapElim DEF FreeSet

-----------------------------------------------------------------------------
(***************************************************************************)
(* Type correctness.                                                      *)
(***************************************************************************)
LEMMA EmptyBitMap == << >> \in BitMap /\ Len(<< >>) = 0
<1>1. << >> \in Seq(BOOLEAN) /\ Len(<< >>) = 0
  BY EmptySeq
<1>2. << >> \in [1..0 -> BOOLEAN]
  BY <1>1, LenProperties
<1>3. 0 \in 0..MaxBlocks
  OBVIOUS
<1>4. QED
  BY <1>1, <1>2, <1>3, FunIsBitMap

\* setUsedBlockInfo keeps the type.
LEMMA SetUsedType ==
  ASSUME TypeOK, NEW b \in 0..(MaxBlocks - 1), NEW f \in BOOLEAN, SetUsed(b, f)
  PROVE  used' \in BitMap /\ freeCount' \in Int
<1>1. used' \in BitMap
  BY SetBitType DEF SetUsed, TypeOK
<1>2. freeCount' \in Int
  BY DEF SetUsed, TypeOK
<1>3. QED
  BY <1>1, <1>2

(***************************************************************************)
(* setUsedBlockInfo(b, flag) keeps the slack FreeBits(used) - freeCount   *)
(* when b is inside the bitmap, and does not lower it when it marks used  *)
(* a position that was free, inside the bitmap or past it.                *)
(***************************************************************************)
LEMMA SetUsedSlack ==
  ASSUME TypeOK, NEW b \in 0..(MaxBlocks - 1), NEW f \in BOOLEAN, SetUsed(b, f)
  PROVE  /\ b < Len(used) =>
              FreeBits(used') - freeCount' = FreeBits(used) - freeCount
         /\ f /\ ~Get(used, b) =>
              FreeBits(used') - freeCount' >= FreeBits(used) - freeCount
<1>1. /\ used \in BitMap
      /\ freeCount \in Int
      /\ IsFiniteSet(FreeSet(used))
      /\ FreeBits(used) = Cardinality(FreeSet(used))
      /\ Cardinality(FreeSet(used)) \in Nat
  BY FreeSetFinite DEF TypeOK, FreeBits
<1>2. /\ used' = SetBit(used, b, f)
      /\ (Get(used, b) <=> f) => freeCount' = freeCount
      /\ ~(Get(used, b) <=> f) /\ f => freeCount' = freeCount - 1
      /\ ~(Get(used, b) <=> f) /\ ~f => freeCount' = freeCount + 1
  BY Zenon DEF SetUsed, Get
<1>3. /\ used' \in BitMap
      /\ IsFiniteSet(FreeSet(used'))
      /\ FreeBits(used') = Cardinality(FreeSet(used'))
      /\ Cardinality(FreeSet(used')) \in Nat
  BY <1>1, <1>2, SetBitType, FreeSetFinite DEF FreeBits
<1>4. ASSUME b < Len(used)
      PROVE  FreeBits(used') - freeCount' = FreeBits(used) - freeCount
  <2>1. (b \in FreeSet(used) <=> ~used[b + 1]) /\ (Get(used, b) <=> used[b + 1])
    BY <1>4 DEF FreeSet, Get
  <2>2. FreeSet(used') = IF f THEN FreeSet(used) \ {b} ELSE FreeSet(used) \cup {b}
    BY <1>1, <1>2, <1>4, FreeSetInside
  <2>3. CASE f /\ used[b + 1]
    <3>1. freeCount' = freeCount /\ FreeSet(used') = FreeSet(used)
      BY <1>2, <2>1, <2>2, <2>3
    <3>2. QED
      BY <1>1, <1>3, <3>1
  <2>4. CASE f /\ ~used[b + 1]
    <3>1. freeCount' = freeCount - 1 /\ FreeSet(used') = FreeSet(used) \ {b} /\ b \in FreeSet(used)
      BY <1>2, <2>1, <2>2, <2>4
    <3>2. Cardinality(FreeSet(used')) = Cardinality(FreeSet(used)) - 1
      BY <1>1, <3>1, FS_RemoveElement
    <3>3. QED
      BY <1>1, <1>3, <3>1, <3>2
  <2>5. CASE ~f /\ used[b + 1]
    <3>1. freeCount' = freeCount + 1 /\ FreeSet(used') = FreeSet(used) \cup {b} /\ b \notin FreeSet(used)
      BY <1>2, <2>1, <2>2, <2>5
    <3>2. Cardinality(FreeSet(used')) = Cardinality(FreeSet(used)) + 1
      BY <1>1, <3>1, FS_AddElement
    <3>3. QED
      BY <1>1, <1>3, <3>1, <3>2
  <2>6. CASE ~f /\ ~used[b + 1]
    <3>1. freeCount' = freeCount /\ FreeSet(used') = FreeSet(used)
      BY <1>2, <2>1, <2>2, <2>6
    <3>2. QED
      BY <1>1, <1>3, <3>1
  <2>7. QED
    BY <2>3, <2>4, <2>5, <2>6
<1>5. ASSUME f, ~Get(used, b)
      PROVE  FreeBits(used') - freeCount' >= FreeBits(used) - freeCount
  <2>1. freeCount' = freeCount - 1
    BY <1>2, <1>5
  <2>2. FreeSet(used) \ {b} \subseteq FreeSet(used')
    BY <1>1, <1>2, FreeSetKept
  <2>3. Cardinality(FreeSet(used)) - 1 <= Cardinality(FreeSet(used) \ {b})
    <3>1. Cardinality(FreeSet(used) \ {b}) =
            IF b \in FreeSet(used) THEN Cardinality(FreeSet(used)) - 1 ELSE Cardinality(FreeSet(used))
      BY <1>1, FS_RemoveElement
    <3>2. QED
      BY <1>1, <3>1
  <2>4. Cardinality(FreeSet(used) \ {b}) <= Cardinality(FreeSet(used'))
    BY <1>3, <2>2, FS_Subset
  <2>5. Cardinality(FreeSet(used')) >= Cardinality(FreeSet(used)) - 1
    <3>1. Cardinality(FreeSet(used) \ {b}) \in Nat
      BY <1>1, FS_RemoveElement, FS_CardinalityType
    <3>2. QED
      BY <1>1, <1>3, <2>3, <2>4, <3>1
  <2>6. QED
    BY <1>1, <1>3, <2>1, <2>5
<1>6. QED
  BY <1>4, <1>5

(***************************************************************************)
(* open() on a never-opened store: the new bitmap is all free bits.       *)
(***************************************************************************)
LEMMA OpenFree ==
  ASSUME NEW n \in 0..(MaxBlocks - 2)
  PROVE  FreeBits(SetBit(<< >>, n + 1, FALSE)) = Len(SetBit(<< >>, n + 1, FALSE))
<1>1. n + 1 \in 0..(MaxBlocks - 1) /\ << >> \in BitMap /\ Len(<< >>) = 0
  BY EmptyBitMap
<1>2. BiggerOf(Len(<< >>), n + 2) = n + 2
  BY <1>1 DEF BiggerOf
<1>3. \A k \in 1..(n + 2) : ~(k <= Len(<< >>))
  BY <1>1
<1>4. SetBit(<< >>, n + 1, FALSE) = Zeros(n + 2)
  <2>1. \A k \in 1..(n + 2) :
          (IF k = (n + 1) + 1 THEN FALSE ELSE k <= Len(<< >>) /\ << >>[k]) = FALSE
    BY <1>3
  <2>2. SetBit(<< >>, n + 1, FALSE) =
          [k \in 1..(n + 2) |->
             IF k = (n + 1) + 1 THEN FALSE ELSE k <= Len(<< >>) /\ << >>[k]]
    <3>1. BiggerOf(Len(<< >>), (n + 1) + 1) = n + 2
      BY <1>2
    <3>2. QED
      BY <3>1 DEF SetBit
  <2>3. QED
    BY <2>1, <2>2, Zenon DEF Zeros
<1>5. n + 2 \in 0..MaxBlocks
  OBVIOUS
<1>6. QED
  BY <1>4, <1>5, ZerosType, ZerosFree

\* The blocks counted for a call are a natural number, at most the call's.
LEMMA IoBlocksBound ==
  ASSUME NEW n \in Nat
  PROVE  IoBlocks(n) \in 0..n
<1>1. (n * BlockSize) % LengthRange \in 0..(n * BlockSize)
  OBVIOUS
<1>2. QED
  BY <1>1 DEF IoBlocks

LEMMA InitTypeOK == Init => TypeOK
BY EmptyBitMap DEF Init, TypeOK

LEMMA NextTypeOK == TypeOK /\ [Next]_vars => TypeOK'
<1> SUFFICES ASSUME TypeOK, [Next]_vars PROVE TypeOK'
  OBVIOUS
<1>0. Len(used) \in 0..MaxBlocks /\ Len(valid) \in 0..MaxBlocks
  BY BitMapElim DEF TypeOK
<1>1. ASSUME NEW n \in 0..(MaxBlocks - 2), Open(n) PROVE TypeOK'
  <2>1. n + 1 \in 0..(MaxBlocks - 1)
    OBVIOUS
  <2>2. used' \in BitMap /\ valid' \in BitMap
    BY <1>1, <2>1, SetBitType DEF Open, TypeOK
  <2>3. freeCount' \in Int
    BY <1>1, <2>2, BitMapElim DEF Open
  <2>4. /\ blockNum' \in 0..MaxBlocks
        /\ cursor' \in 0..(MaxBlocks - 1)
        /\ phase' \in {"created", "recovery", "running"}
        /\ readBlockCount' \in 0..MaxIoCount
        /\ writeBlockCount' \in 0..MaxIoCount
    BY <1>1 DEF Open, TypeOK
  <2>5. QED
    BY <2>2, <2>3, <2>4 DEF TypeOK
<1>2. CASE Truncate
  BY <1>0, <1>2, ZerosType DEF Truncate, Reset, TypeOK
<1>3. CASE AllocateReuse
  <2>1. PICK k \in ScanIdx :
          /\ SetUsed(ScanPos(k), TRUE)
          /\ cursor' = NextCursor(ScanPos(k))
    BY <1>3 DEF AllocateReuse
  <2>2. ScanPos(k) \in 0..(MaxBlocks - 1)
    BY ScanBounds
  <2>3. used' \in BitMap /\ freeCount' \in Int
    BY <2>1, <2>2, SetUsedType
  <2>4. cursor' \in 0..(MaxBlocks - 1)
    BY <2>1, <2>2, ScanBounds
  <2>5. QED
    BY <1>3, <2>3, <2>4 DEF AllocateReuse, TypeOK
<1>4. CASE AllocateAppend
  <2>1. used' \in BitMap
    BY <1>4, AppendType DEF AllocateAppend, TypeOK
  <2>2. valid' \in BitMap
    <3>1. Len(used) \in 0..(MaxBlocks - 1)
      BY <1>0, <1>4 DEF AllocateAppend
    <3>2. valid \in BitMap
      BY DEF TypeOK
    <3>3. QED
      BY <1>4, <3>1, <3>2, SetBitType DEF AllocateAppend
  <2>3. cursor' \in 0..(MaxBlocks - 1)
    BY <1>4, ScanBounds DEF AllocateAppend, TypeOK
  <2>4. QED
    BY <1>4, <2>1, <2>2, <2>3 DEF AllocateAppend, TypeOK
<1>5. ASSUME NEW b \in Blocks, FreeBlock(b) PROVE TypeOK'
  <2>1. used' \in BitMap /\ freeCount' \in Int
    BY <1>5, SetUsedType DEF FreeBlock, Blocks
  <2>2. QED
    BY <1>5, <2>1 DEF FreeBlock, TypeOK
<1>6. ASSUME NEW b \in Blocks, NEW f \in BOOLEAN, SetUsedBlockInfo(b, f)
      PROVE TypeOK'
  <2>1. used' \in BitMap /\ freeCount' \in Int
    BY <1>6, SetUsedType DEF SetUsedBlockInfo, Blocks
  <2>2. QED
    BY <1>6, <2>1 DEF SetUsedBlockInfo, TypeOK
<1>7. CASE InitializeUsedBlockInfo
  BY <1>7, ZerosType DEF InitializeUsedBlockInfo, TypeOK
<1>8. ASSUME NEW b \in Blocks, NEW f \in BOOLEAN, SetValidBlockInfo(b, f)
      PROVE TypeOK'
  BY <1>8, SetBitType DEF SetValidBlockInfo, TypeOK, Blocks
<1>9. CASE InitializeValidBlockInfo
  BY <1>9, ZerosType DEF InitializeValidBlockInfo, TypeOK
<1>10. CASE FinishRecovery
  BY <1>10 DEF FinishRecovery, TypeOK
<1>11. ASSUME NEW b \in Blocks, NEW n \in 1..(MaxBlocks - b), WriteBlock(b, n)
       PROVE TypeOK'
  <2>1. IoBlocks(n) \in Nat
    BY IoBlocksBound
  <2>2. QED
    BY <1>11, <2>1 DEF WriteBlock, TypeOK, Blocks
<1>12. ASSUME NEW off \in 0..(MaxBlocks * BlockSize - 1),
              NEW size \in 1..BlockSize,
              off + size <= MaxBlocks * BlockSize,
              WritePartialBlock(off, size)
       PROVE TypeOK'
  <2> DEFINE q == (size + off + BlockSize - 1) \div BlockSize
  <2>1. q \in 0..MaxBlocks
    <3>1. size + off + BlockSize - 1 < (MaxBlocks + 1) * BlockSize
      BY <1>12
    <3>2. q * BlockSize <= size + off + BlockSize - 1
      OBVIOUS
    <3>3. QED
      BY <3>1, <3>2
  <2>2. QED
    BY <1>12, <2>1 DEF WritePartialBlock, TypeOK
<1>13. ASSUME NEW b \in Blocks, NEW n \in 1..2, ReadBlock(b, n) PROVE TypeOK'
  <2>1. IoBlocks(n) \in Nat
    BY IoBlocksBound
  <2>2. QED
    BY <1>13, <2>1 DEF ReadBlock, TypeOK
<1>14. CASE ResetReadBlockCount
  BY <1>14 DEF ResetReadBlockCount, TypeOK
<1>15. CASE ResetWriteBlockCount
  BY <1>15 DEF ResetWriteBlockCount, TypeOK
<1>16. CASE UNCHANGED vars
  BY <1>16 DEF vars, TypeOK
<1>17. QED
  BY <1>1, <1>2, <1>3, <1>4, <1>5, <1>6, <1>7, <1>8, <1>9, <1>10, <1>11,
     <1>12, <1>13, <1>14, <1>15, <1>16 DEF Next, AllocateBlock

(***************************************************************************)
(* Every reachable state has the type: bitmaps of at most MaxBlocks bits, *)
(* the cursor inside them, the block count and counters in their bounds.  *)
(***************************************************************************)
THEOREM TypeCorrect == Spec => []TypeOK
BY InitTypeOK, NextTypeOK, PTL DEF Spec

-----------------------------------------------------------------------------
(***************************************************************************)
(* The free count.  FreeCountSound is not inductive by itself: a          *)
(* setUsedBlockInfo(b, true) of a used bit during recovery keeps the      *)
(* count, one of a free bit lowers it, and only the exactness of the      *)
(* count in recovery rules out the underflow the assert at line 360 of    *)
(* checkpoint_file.cpp guards.  A store never opened has an empty bitmap, *)
(* so open() starts recovery with an exact count.                         *)
(***************************************************************************)
IInv ==
  /\ TypeOK
  /\ FreeCountSound
  /\ phase = "recovery" => FreeCountAccurate
  /\ phase = "created" => used = << >>

LEMMA InitIInv == Init => IInv
<1> SUFFICES ASSUME Init PROVE IInv
  OBVIOUS
<1>1. FreeSet(used) = {}
  BY EmptyBitMap DEF Init, FreeSet
<1>2. FreeBits(used) = 0
  BY <1>1, FS_EmptySet DEF FreeBits
<1>3. QED
  BY <1>2, InitTypeOK DEF Init, IInv, FreeCountSound

(***************************************************************************)
(* IInv is preserved by every step of a caller that opens the store once *)
(* (~Reopens): a second open() would count the used bits of the old      *)
(* bitmap as free (the run ReopenFreeCount).                              *)
(***************************************************************************)
LEMMA NextIInv ==
  ASSUME ~Reopens
  PROVE  IInv /\ [Next]_vars => IInv'
<1> SUFFICES ASSUME IInv, [Next]_vars PROVE IInv'
  OBVIOUS
<1>0. /\ TypeOK'
      /\ TypeOK
      /\ FreeBits(used) \in Nat
      /\ FreeBits(used') \in Nat
      /\ freeCount \in Int /\ freeCount' \in Int
  BY NextTypeOK, FreeSetFinite DEF IInv, TypeOK
<1>a. ASSUME FreeCountSound',
             phase' = "recovery" => FreeCountAccurate',
             phase' = "created" => used' = << >>
      PROVE  IInv'
  BY <1>0, <1>a DEF IInv
\* A step in the running phase that keeps it needs only FreeCountSound'.
<1>r. ASSUME FreeCountSound', phase' = "running" PROVE IInv'
  BY <1>a, <1>r
<1>1. ASSUME NEW n \in 0..(MaxBlocks - 2), Open(n) PROVE IInv'
  <2>1. used = << >>
    BY <1>1 DEF Open, Opened, IInv
  <2>2. freeCount' = FreeBits(used')
    BY <1>1, <2>1, OpenFree DEF Open
  <2>3. FreeCountSound' /\ FreeCountAccurate'
    BY <1>0, <2>2 DEF FreeCountSound, FreeCountAccurate
  <2>4. phase' = "recovery"
    BY <1>1 DEF Open
  <2>5. QED
    BY <1>a, <2>3, <2>4
<1>2. CASE Truncate
  <2>1. FreeCountSound'
    BY <1>0, <1>2 DEF Truncate, FreeCountSound
  <2>2. QED
    BY <1>r, <1>2, <2>1 DEF Truncate
<1>3. CASE AllocateReuse
  <2>1. PICK k \in ScanIdx :
          /\ FirstFreeAt(k)
          /\ SetUsed(ScanPos(k), TRUE)
    BY <1>3 DEF AllocateReuse
  <2>2. ScanPos(k) \in 0..(MaxBlocks - 1) /\ ~Get(used, ScanPos(k))
    BY <1>0, <2>1, ScanBounds DEF FirstFreeAt
  <2>3. FreeBits(used') - freeCount' >= FreeBits(used) - freeCount
    BY <1>0, <2>1, <2>2, SetUsedSlack
  <2>4. freeCount' = freeCount - 1
    BY <2>1, <2>2 DEF SetUsed
  <2>5. freeCount > 0 /\ freeCount <= FreeBits(used)
    BY <1>3 DEF AllocateReuse, IInv, FreeCountSound
  <2>6. FreeCountSound'
    BY <1>0, <2>3, <2>4, <2>5 DEF FreeCountSound
  <2>7. QED
    BY <1>r, <1>3, <2>6 DEF AllocateReuse
<1>4. CASE AllocateAppend
  <2>1. FreeBits(used') = FreeBits(used)
    BY <1>0, <1>4, FreeSetAppend DEF AllocateAppend, TypeOK, FreeBits
  <2>2. FreeCountSound'
    BY <1>0, <1>4, <2>1 DEF AllocateAppend, IInv, FreeCountSound
  <2>3. QED
    BY <1>r, <1>4, <2>2 DEF AllocateAppend
<1>5. ASSUME NEW b \in Blocks, FreeBlock(b) PROVE IInv'
  <2>1. Get(used, b) /\ b < Len(used) /\ SetUsed(b, FALSE)
    BY <1>5 DEF FreeBlock, Get
  <2>2. FreeBits(used') - freeCount' = FreeBits(used) - freeCount
    BY <1>0, <2>1, SetUsedSlack DEF Blocks
  <2>3. freeCount' = freeCount + 1
    BY <2>1 DEF SetUsed
  <2>4. 0 <= freeCount /\ freeCount <= FreeBits(used)
    BY DEF IInv, FreeCountSound
  <2>5. FreeCountSound'
    BY <1>0, <2>2, <2>3, <2>4 DEF FreeCountSound
  <2>6. QED
    BY <1>r, <1>5, <2>5 DEF FreeBlock
<1>6. ASSUME NEW b \in Blocks, NEW f \in BOOLEAN, SetUsedBlockInfo(b, f)
      PROVE IInv'
  <2>1. FreeBits(used') - freeCount' = FreeBits(used) - freeCount
    BY <1>0, <1>6, SetUsedSlack DEF SetUsedBlockInfo, Blocks
  <2>2. freeCount = FreeBits(used)
    BY <1>6 DEF SetUsedBlockInfo, IInv, FreeCountAccurate
  <2>3. freeCount' = FreeBits(used')
    BY <1>0, <2>1, <2>2
  <2>4. FreeCountSound' /\ FreeCountAccurate'
    BY <1>0, <2>3 DEF FreeCountSound, FreeCountAccurate
  <2>5. phase' = "recovery"
    BY <1>6 DEF SetUsedBlockInfo
  <2>6. QED
    BY <1>a, <2>4, <2>5
<1>7. CASE InitializeUsedBlockInfo
  <2>1. FreeBits(used') = freeCount'
    BY <1>0, <1>7, ZerosFree DEF InitializeUsedBlockInfo, TypeOK
  <2>2. FreeCountSound' /\ FreeCountAccurate'
    BY <1>0, <2>1 DEF FreeCountSound, FreeCountAccurate
  <2>3. phase' = "recovery"
    BY <1>7 DEF InitializeUsedBlockInfo
  <2>4. QED
    BY <1>a, <2>2, <2>3
<1>8. CASE FinishRecovery
  <2>1. FreeCountSound'
    BY <1>0, <1>8 DEF FinishRecovery, IInv, FreeCountSound, FreeCountAccurate
  <2>2. QED
    BY <1>r, <1>8, <2>1 DEF FinishRecovery
<1>9. CASE \/ \E b \in Blocks, f \in BOOLEAN : SetValidBlockInfo(b, f)
           \/ InitializeValidBlockInfo
           \/ \E b \in Blocks : \E n \in 1..(MaxBlocks - b) : WriteBlock(b, n)
           \/ \E off \in 0..(MaxBlocks * BlockSize - 1), size \in 1..BlockSize :
                /\ off + size <= MaxBlocks * BlockSize
                /\ WritePartialBlock(off, size)
           \/ \E b \in Blocks, n \in 1..2 : ReadBlock(b, n)
           \/ ResetReadBlockCount
           \/ ResetWriteBlockCount
           \/ UNCHANGED vars
  <2>1. UNCHANGED <<used, freeCount, phase>>
    BY <1>9 DEF SetValidBlockInfo, InitializeValidBlockInfo, WriteBlock,
                WritePartialBlock, ReadBlock, ResetReadBlockCount,
                ResetWriteBlockCount, vars
  <2>2. /\ FreeCountSound'
        /\ phase' = "recovery" => FreeCountAccurate'
        /\ phase' = "created" => used' = << >>
    BY <2>1 DEF IInv, FreeCountSound, FreeCountAccurate
  <2>3. QED
    BY <1>a, <2>2
<1>10. QED
  BY <1>1, <1>2, <1>3, <1>4, <1>5, <1>6, <1>7, <1>8, <1>9 DEF Next, AllocateBlock

(***************************************************************************)
(* freeUseBitNum_ never underflows and never counts more free blocks than  *)
(* usedChunkInfo_ has false bits, whatever the order of recovery,         *)
(* allocateBlock, freeBlock and truncate calls of a caller that opens the *)
(* store once: allocateBlock never decrements a count that is already 0   *)
(* and never believes in a free bit that is not there.                    *)
(***************************************************************************)
THEOREM FreeCountSafe ==
  ASSUME ~Reopens
  PROVE  Spec => []FreeCountSound
<1>1. IInv => FreeCountSound
  BY DEF IInv
<1>2. QED
  BY InitIInv, NextIInv, <1>1, PTL DEF Spec


-----------------------------------------------------------------------------
(***************************************************************************)
(* The free-block search.  Up to SearchLimit positions, the positions     *)
(* allocateBlock()'s two loops examine are the positions of the rotated   *)
(* order cursor, cursor+1, ..., end, 0, 1, ...: the first loop's limit    *)
(* break and the second loop's count, which continues the first one's,    *)
(* both lie beyond them.                                                  *)
(***************************************************************************)
LEMMA ScanMatchesRot ==
  ASSUME TypeOK, NEW j \in Nat, j < SearchLimit, j < Len(used),
         NEW i \in 0..j
  PROVE  i \in ScanIdx /\ ScanPos(i) = RotPos(i)
<1>1. Len(used) \in 0..MaxBlocks
  BY BitMapElim DEF TypeOK
<1>2. CASE cursor < Len(used) /\ i < Len(used) - cursor
  <2>1. ScanLen1 \in Nat /\ i < ScanLen1
    BY <1>1, <1>2 DEF TypeOK, ScanLen1, SmallerOf
  <2>2. ScanLen2 \in Nat
    BY <1>1 DEF TypeOK, ScanLen2, SmallerOf, Wraps, Count0, Broke1, ScanLen1
  <2>3. QED
    BY <1>1, <1>2, <2>1, <2>2 DEF TypeOK, ScanIdx, ScanPos, RotPos
<1>3. CASE cursor < Len(used) /\ i >= Len(used) - cursor
  <2>1. ScanLen1 = Len(used) - cursor /\ ~Broke1
    BY <1>1, <1>3 DEF TypeOK, ScanLen1, SmallerOf, Broke1
  <2>2. Count0 = Len(used) - cursor /\ Wraps
    BY <2>1, <1>3 DEF Count0, Wraps
  <2>3. ScanLen2 = SmallerOf(cursor, SearchLimit + 2 - Count0)
    BY <2>2 DEF ScanLen2
  <2>4. QED
    BY <1>1, <1>3, <2>1, <2>2, <2>3 DEF TypeOK, ScanIdx, ScanPos, RotPos,
                                        SmallerOf
<1>4. CASE cursor >= Len(used)
  <2>1. ScanLen1 = 0 /\ Count0 = 0 /\ Wraps
    BY <1>1, <1>4 DEF TypeOK, ScanLen1, Broke1, Count0, Wraps
  <2>2. QED
    BY <1>1, <1>4, <2>1 DEF TypeOK, ScanIdx, ScanPos, RotPos, ScanLen2,
                            SmallerOf
<1>5. QED
  BY <1>1, <1>2, <1>3, <1>4 DEF TypeOK

\* One allocateBlock() step with a free block among the first SearchLimit
\* positions of the rotated order takes exactly that block.
LEMMA AllocateNearbyStep ==
  ASSUME TypeOK, AllocateBlock, freeCount > 0,
         NEW j \in 0..(SearchLimit - 1), NearbyFree(j)
  PROVE  used' = SetBit(used, RotPos(j), TRUE)
<1>1. \A i \in 0..j : i \in ScanIdx /\ ScanPos(i) = RotPos(i)
  BY ScanMatchesRot DEF NearbyFree
<1>0. j \in 0..j /\ j \in Nat
  OBVIOUS
<1>a. j \in ScanIdx /\ ~Get(used, ScanPos(j))
  BY <1>0, <1>1 DEF NearbyFree
<1>2. ~AllocateAppend
  <2> SUFFICES ASSUME AllocateAppend PROVE FALSE
    OBVIOUS
  <2>1. \A k \in ScanIdx : Get(used, ScanPos(k))
    BY DEF AllocateAppend
  <2>2. QED
    BY <2>1, <1>a
<1>b. AllocateReuse
  BY <1>2 DEF AllocateBlock
<1>3. PICK k \in ScanIdx : FirstFreeAt(k) /\ used' = SetBit(used, ScanPos(k), TRUE)
  BY <1>b DEF AllocateReuse, SetUsed
<1>4. k = j
  <2>1. k \in Nat
    BY DEF ScanIdx
  <2>2. ~(k < j)
    BY <1>1, <1>3, <2>1 DEF FirstFreeAt, NearbyFree
  <2>3. ~(k > j)
    BY <1>1, <1>3, <2>1 DEF FirstFreeAt, NearbyFree
  <2>4. QED
    BY <2>1, <2>2, <2>3
<1>5. QED
  BY <1>0, <1>1, <1>3, <1>4

(***************************************************************************)
(* AllocateReusesNearbyFree for every SearchLimit and MaxBlocks:          *)
(* allocateBlock() with a positive free count reuses the first free block *)
(* of the rotated search order whenever it lies within SearchLimit        *)
(* positions of freeBlockSearchCursor_, across the wrap included.  It     *)
(* rests on the type invariant alone.                                     *)
(***************************************************************************)
THEOREM AllocateNearbySafe == Spec => AllocateReusesNearbyFree
<1>1. TypeOK => (AllocateBlock /\ freeCount > 0 =>
                   \A j \in 0..(SearchLimit - 1) :
                      NearbyFree(j) => used' = SetBit(used, RotPos(j), TRUE))
  <2> SUFFICES ASSUME TypeOK, AllocateBlock, freeCount > 0,
                      NEW j \in 0..(SearchLimit - 1), NearbyFree(j)
               PROVE  used' = SetBit(used, RotPos(j), TRUE)
    OBVIOUS
  <2> QED
    BY AllocateNearbyStep
<1>2. QED
  BY TypeCorrect, <1>1, PTL DEF AllocateReusesNearbyFree

====
