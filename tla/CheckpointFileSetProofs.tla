----------------------- MODULE CheckpointFileSetProofs -----------------------
(***************************************************************************)
(* Proofs about the block address mapper of CheckpointFileSet, for every  *)
(* split count S and stripe size T.                                       *)
(***************************************************************************)
EXTENDS CheckpointFileSet, FiniteSetTheorems, TLAPS

USE FileSetAssumption

(***************************************************************************)
(* Euclidean division by a positive divisor: quotient and remainder are   *)
(* naturals, the remainder is below the divisor, and they rebuild n.      *)
(***************************************************************************)
LEMMA DivMod ==
  ASSUME NEW n \in Nat, NEW d \in Nat \ {0}
  PROVE  /\ n \div d \in Nat
         /\ n % d \in 0..(d - 1)
         /\ n = (n \div d) * d + (n % d)
<1>1. n % d \in 0..(d - 1)
  BY Z3
<1>2. n = (n \div d) * d + (n % d)
  BY Z3
<1>3. n \div d \in Nat
  BY <1>1, <1>2, Z3
<1>4. QED
  BY <1>1, <1>2, <1>3

(***************************************************************************)
(* The quotient and remainder of a division are unique.                   *)
(***************************************************************************)
LEMMA DivModUnique ==
  ASSUME NEW d \in Nat \ {0}, NEW a \in Nat, NEW c \in Nat,
         NEW r \in 0..(d - 1), NEW s \in 0..(d - 1),
         a * d + r = c * d + s
  PROVE  a = c /\ r = s
<1>1. a = c
  <2>1. ~(a < c)
    <3>1. SUFFICES ASSUME a < c PROVE FALSE
      OBVIOUS
    <3>2. (c - a - 1) * d \in Nat
      <4>1. c - a - 1 \in Nat
        BY <3>1
      <4>2. QED
        BY <4>1, Z3
    <3>3. c * d = a * d + d + (c - a - 1) * d
      BY Z3
    <3>4. QED
      BY <3>2, <3>3, Z3
  <2>2. ~(c < a)
    <3>1. SUFFICES ASSUME c < a PROVE FALSE
      OBVIOUS
    <3>2. (a - c - 1) * d \in Nat
      <4>1. a - c - 1 \in Nat
        BY <3>1
      <4>2. QED
        BY <4>1, Z3
    <3>3. a * d = c * d + d + (a - c - 1) * d
      BY Z3
    <3>4. QED
      BY <3>2, <3>3, Z3
  <2>3. QED
    BY <2>1, <2>2
<1>2. QED
  BY <1>1

(***************************************************************************)
(* calcFileNth/calcFileOffset give distinct blocks distinct places: two   *)
(* block numbers with the same file and the same offset in it are equal. *)
(* So a write through the mapper never overwrites another logical block, *)
(* whatever the split count and the stripe size (the refinement of        *)
(* BlockStore checks this for S = 2, T = 2 only).                         *)
(***************************************************************************)
THEOREM MapperInjective ==
  ASSUME NEW b1 \in Nat, NEW b2 \in Nat,
         FileNth(b1) = FileNth(b2), FileIdx(b1) = FileIdx(b2)
  PROVE  b1 = b2
<1> DEFINE T == StripeSize  S == SplitCount
           s1 == b1 \div T  s2 == b2 \div T
           q1 == s1 \div S  q2 == s2 \div S
           r1 == b1 % T     r2 == b2 % T
<1>1. /\ s1 \in Nat /\ r1 \in 0..(T - 1) /\ b1 = s1 * T + r1
      /\ s2 \in Nat /\ r2 \in 0..(T - 1) /\ b2 = s2 * T + r2
  BY DivMod
<1>2. /\ q1 \in Nat /\ s1 % S \in 0..(S - 1) /\ s1 = q1 * S + (s1 % S)
      /\ q2 \in Nat /\ s2 % S \in 0..(S - 1) /\ s2 = q2 * S + (s2 % S)
  BY <1>1, DivMod
<1>3. q1 = q2 /\ r1 = r2
  <2>1. q1 * T + r1 = q2 * T + r2
    BY DEF FileIdx
  <2>2. \A a, c \in Nat, r, t \in 0..(T - 1) :
          a * T + r = c * T + t => a = c /\ r = t
    BY DivModUnique
  <2>3. QED
    BY <1>1, <1>2, <2>1, <2>2
<1>4. s1 = s2
  <2>1. s1 % S = s2 % S
    BY DEF FileNth
  <2>2. QED
    BY <1>2, <1>3, <2>1
<1>5. QED
  BY <1>1, <1>3, <1>4

(***************************************************************************)
(* Inside one stripe the mapper is a shift: the blocks b, b + 1, ... up   *)
(* to the end of b's stripe lie in b's file at consecutive offsets.  This *)
(* is what lets writeBlock() and readBlock() do one pwrite()/pread() of   *)
(* size blocks at calcFileOffset(b).                                      *)
(***************************************************************************)
LEMMA StripeRun ==
  ASSUME NEW b \in Nat, NEW m \in Nat, (b % StripeSize) + m < StripeSize
  PROVE  FileNth(b + m) = FileNth(b) /\ FileIdx(b + m) = FileIdx(b) + m
<1> DEFINE T == StripeSize  q == b \div T  r == b % T
           q2 == (b + m) \div T  r2 == (b + m) % T
<1>1. q \in Nat /\ r \in 0..(T - 1) /\ b = q * T + r
  BY DivMod
<1>2. q2 \in Nat /\ r2 \in 0..(T - 1) /\ b + m = q2 * T + r2
  BY DivMod
<1>3. r + m \in 0..(T - 1) /\ b + m = q * T + (r + m)
  BY <1>1
<1>4. q2 = q /\ r2 = r + m
  <2>1. \A a, c \in Nat, x, y \in 0..(T - 1) :
          a * T + x = c * T + y => a = c /\ x = y
    BY DivModUnique
  <2>2. QED
    BY <1>1, <1>2, <1>3, <2>1
<1>5. FileIdx(b + m) = FileIdx(b) + m
  <2>1. (q \div SplitCount) \in Nat
    BY <1>1, DivMod
  <2>2. FileIdx(b + m) = (q2 \div SplitCount) * T + r2
        /\ FileIdx(b) = (q \div SplitCount) * T + r
    BY DEF FileIdx
  <2>3. QED
    BY <1>1, <1>4, <2>1, <2>2
<1>6. QED
  BY <1>4, <1>5 DEF FileNth

\* The mapper sends every block to a file and a natural offset.
LEMMA MapperRange ==
  ASSUME NEW b \in Nat
  PROVE  FileNth(b) \in Files /\ FileIdx(b) \in Nat
<1>1. b \div StripeSize \in Nat /\ b % StripeSize \in Nat
  BY DivMod
<1>2. (b \div StripeSize) % SplitCount \in 0..(SplitCount - 1)
      /\ (b \div StripeSize) \div SplitCount \in Nat
  BY <1>1, DivMod
<1>3. QED
  BY <1>1, <1>2 DEF FileNth, FileIdx, Files

-----------------------------------------------------------------------------
(***************************************************************************)
(* The logical block array of file contents c (Store is StoreOf(content)).*)
(***************************************************************************)
Blk == Data \cup {Zero}

StoreOf(c) ==
  [b \in Blocks |->
     IF FileIdx(b) < Len(c[FileNth(b)])
     THEN c[FileNth(b)][FileIdx(b) + 1] ELSE Zero]

LEMMA StoreIsStoreOf == Store = StoreOf(content) /\ Store' = StoreOf(content')
  BY DEF Store, StoreOf

\* WriteAt(s, l, v) with a buffer of j blocks of d: a sequence of blocks
\* as long as the longer of s and l + j.
LEMMA WriteAtType ==
  ASSUME NEW s \in Seq(Blk), NEW l \in Nat, NEW j \in Nat, NEW d \in Blk
  PROVE  /\ WriteAt(s, l, Buffer(j, d)) \in Seq(Blk)
         /\ Len(WriteAt(s, l, Buffer(j, d)))
              = IF Len(s) >= l + j THEN Len(s) ELSE l + j
<1> DEFINE n0 == IF Len(s) >= l + j THEN Len(s) ELSE l + j
<1>1. Buffer(j, d) \in Seq(Blk) /\ Len(Buffer(j, d)) = j
  BY DEF Buffer
<1>2. n0 \in Nat
  OBVIOUS
<1>3. WriteAt(s, l, Buffer(j, d))
        = [x \in 1..n0 |-> IF x > l /\ x <= l + j THEN d
                           ELSE IF x <= Len(s) THEN s[x] ELSE Zero]
  BY <1>1 DEF WriteAt, Buffer
<1>4. \A x \in 1..n0 : (IF x > l /\ x <= l + j THEN d
                        ELSE IF x <= Len(s) THEN s[x] ELSE Zero) \in Blk
  BY DEF Blk
<1>5. QED
  BY <1>2, <1>3, <1>4

\* The length alone, in the form the proofs cite.
LEMMA WriteAtLen ==
  ASSUME NEW s \in Seq(Blk), NEW l \in Nat, NEW j \in Nat, NEW d \in Blk
  PROVE  Len(WriteAt(s, l, Buffer(j, d)))
           = IF Len(s) >= l + j THEN Len(s) ELSE l + j
  BY WriteAtType, Zenon

\* What WriteAt(s, l, v) holds at place x: the buffer over l + 1 .. l + j,
\* the old blocks elsewhere, zeros in the gap past the old end.
LEMMA WriteAtAt ==
  ASSUME NEW s \in Seq(Blk), NEW l \in Nat, NEW j \in Nat, NEW d \in Blk,
         NEW x \in 1..Len(WriteAt(s, l, Buffer(j, d)))
  PROVE  WriteAt(s, l, Buffer(j, d))[x]
           = IF x > l /\ x <= l + j THEN d
             ELSE IF x <= Len(s) THEN s[x] ELSE Zero
<1>1. Len(Buffer(j, d)) = j
  BY DEF Buffer
<1>2. x \in 1..(IF Len(s) >= l + j THEN Len(s) ELSE l + j)
  BY WriteAtLen
<1>3. QED
  BY <1>1, <1>2 DEF WriteAt, Buffer

\* The files after writeBlock() stored j blocks of d at b, and after
\* punchHoleBlock(b); the logical array with the blocks of S set to v; the
\* n blocks from b of a logical array, as readBlock() returns them.
WriteContent(c, b, j, d) ==
  [c EXCEPT ![FileNth(b)] = WriteAt(c[FileNth(b)], FileIdx(b), Buffer(j, d))]
PunchContent(c, b) ==
  [c EXCEPT ![FileNth(b)] = IF FileIdx(b) < Len(c[FileNth(b)])
                            THEN [c[FileNth(b)] EXCEPT ![FileIdx(b) + 1] = Zero]
                            ELSE c[FileNth(b)]]
Filled(st, S, v) == [k \in Blocks |-> IF k \in S THEN v ELSE st[k]]
BlocksFrom(st, b, n) == [i \in 1..n |-> st[b + i - 1]]

(***************************************************************************)
(* writeBlock() of j blocks of d at b, inside b's stripe, changes the      *)
(* logical array at b .. b + j - 1 and nowhere else: the blocks it writes *)
(* are those the mapper sends to the written file range (MapperInjective),*)
(* and the zeros WriteAt fills in past the old end were read as Zero.     *)
(***************************************************************************)
LEMMA WriteStore ==
  ASSUME NEW c \in [Files -> Seq(Blk)], NEW b \in Blocks, NEW j \in Nat,
         (b % StripeSize) + j <= StripeSize, NEW d \in Data
  PROVE  StoreOf(WriteContent(c, b, j, d)) = Filled(StoreOf(c), b..(b + j - 1), d)
<1> USE DEF Blocks, WriteContent, Filled
<1> DEFINE f == FileNth(b)  off == FileIdx(b)  fc == c[f]
           nw == WriteAt(fc, off, Buffer(j, d))
           c2 == [c EXCEPT ![f] = nw]
<1>0. b \in Nat
  BY DEF Blocks
<1>1. f \in Files /\ off \in Nat /\ fc \in Seq(Blk) /\ d \in Blk
  <2>1. f \in Files /\ off \in Nat
    BY <1>0, MapperRange
  <2>2. fc \in Seq(Blk)
    BY <2>1
  <2>3. d \in Blk
    BY DEF Blk
  <2>4. QED
    BY <2>1, <2>2, <2>3
<1>2. Len(nw) = IF Len(fc) >= off + j THEN Len(fc) ELSE off + j
  BY <1>1, WriteAtLen
<1>8. Len(nw) \in Nat
  <2>1. nw \in Seq(Blk)
    BY <1>1, WriteAtType
  <2>2. QED
    BY <2>1
<1>9. ASSUME NEW x \in 1..Len(nw)
      PROVE  nw[x] = IF x > off /\ x <= off + j THEN d
                     ELSE IF x <= Len(fc) THEN fc[x] ELSE Zero
  BY <1>1, <1>9, WriteAtAt
<1>3. SUFFICES ASSUME NEW k \in Blocks
               PROVE  StoreOf(c2)[k] = IF k \in b..(b + j - 1) THEN d
                                       ELSE StoreOf(c)[k]
  BY DEF StoreOf
<1>4. FileNth(k) \in Files /\ FileIdx(k) \in Nat
  BY MapperRange DEF Blocks
<1>5. CASE k \in b..(b + j - 1)
  <2>0. k - b \in Nat /\ (b % StripeSize) + (k - b) < StripeSize
    BY <1>0, <1>5 DEF Blocks
  <2>a. FileNth(b + (k - b)) = FileNth(b)
        /\ FileIdx(b + (k - b)) = FileIdx(b) + (k - b)
    BY <1>0, <2>0, StripeRun
  <2>1. FileNth(k) = f /\ FileIdx(k) = off + (k - b)
    <3>1. b + (k - b) = k
      BY <1>0 DEF Blocks
    <3>2. QED
      BY <2>a, <3>1
  <2>2. c2[f] = nw
    BY <1>1
  <2>3. FileIdx(k) < Len(nw) /\ nw[FileIdx(k) + 1] = d
    <3>1. Len(fc) \in Nat /\ k - b < j
      BY <1>1, <1>5 DEF Blocks
    <3>2. FileIdx(k) < Len(nw)
      <4>1. off \in Nat
        BY <1>1
      <4>2. QED
        BY <4>1, <1>2, <2>1, <3>1
    <3>3. FileIdx(k) + 1 \in 1..Len(nw) /\ FileIdx(k) + 1 > off
          /\ FileIdx(k) + 1 <= off + j
      BY <1>1, <1>4, <1>8, <2>0, <2>1, <3>1, <3>2
    <3>4. QED
      BY <1>9, <3>2, <3>3
  <2>4. QED
    BY <1>5, <2>1, <2>2, <2>3 DEF StoreOf
<1>6. CASE k \notin b..(b + j - 1) /\ FileNth(k) # f
  BY <1>1, <1>4, <1>6 DEF StoreOf
<1>7. CASE k \notin b..(b + j - 1) /\ FileNth(k) = f
  <2>1. ~(off <= FileIdx(k) /\ FileIdx(k) < off + j)
    <3>1. SUFFICES ASSUME off <= FileIdx(k), FileIdx(k) < off + j PROVE FALSE
      OBVIOUS
    <3> DEFINE m == FileIdx(k) - off
    <3>2. m \in Nat /\ (b % StripeSize) + m < StripeSize /\ b + m \in Nat
      <4>1. m \in Nat /\ m < j
        BY <1>1, <1>4, <3>1
      <4>2. (b % StripeSize) \in Nat
        BY <1>0, DivMod
      <4>3. QED
        BY <1>0, <4>1, <4>2
    <3>3. FileNth(b + m) = FileNth(k) /\ FileIdx(b + m) = FileIdx(k)
      <4>1. FileNth(b + m) = FileNth(b) /\ FileIdx(b + m) = FileIdx(b) + m
        BY <1>0, <3>2, StripeRun
      <4>2. QED
        BY <1>1, <1>4, <1>7, <4>1
    <3>4. b + m = k
      BY <3>2, <3>3, MapperInjective DEF Blocks
    <3>5. QED
      BY <1>1, <1>4, <1>7, <3>1, <3>2, <3>4
  <2>2. c2[FileNth(k)] = nw
    BY <1>1, <1>7
  <2> DEFINE x == FileIdx(k) + 1
  <2>3. Len(fc) \in Nat /\ Len(fc) <= Len(nw) /\ x \in Nat
    BY <1>1, <1>2, <1>4
  <2>4. CASE x <= Len(fc)
    <3>1. x \in 1..Len(nw) /\ ~(x > off /\ x <= off + j)
      BY <1>1, <1>4, <1>8, <2>1, <2>3, <2>4
    <3>2. nw[x] = fc[x]
      BY <1>9, <2>4, <3>1
    <3>3. QED
      BY <1>1, <1>4, <1>7, <1>8, <2>2, <2>3, <2>4, <3>1, <3>2 DEF StoreOf
  <2>5. CASE x > Len(fc)
    <3>1. x \in 1..Len(nw) => nw[x] = Zero
      <4>1. SUFFICES ASSUME x \in 1..Len(nw) PROVE nw[x] = Zero
        OBVIOUS
      <4>2. ~(x > off /\ x <= off + j) /\ ~(x <= Len(fc))
        BY <1>1, <1>4, <2>1, <2>3, <2>5
      <4>3. QED
        BY <1>9, <4>1, <4>2
    <3>2. QED
      BY <1>1, <1>4, <1>7, <1>8, <2>2, <2>3, <2>5, <3>1 DEF StoreOf
  <2>6. QED
    BY <2>3, <2>4, <2>5
<1>10. QED
  BY <1>5, <1>6, <1>7

\* The logical array of well-typed contents holds blocks.
LEMMA StoreType ==
  ASSUME NEW c \in [Files -> Seq(Blk)]
  PROVE  StoreOf(c) \in [Blocks -> Blk]
<1>1. ASSUME NEW k \in Blocks
      PROVE  (IF FileIdx(k) < Len(c[FileNth(k)])
              THEN c[FileNth(k)][FileIdx(k) + 1] ELSE Zero) \in Blk
  <2>1. FileNth(k) \in Files /\ FileIdx(k) \in Nat
    BY MapperRange DEF Blocks
  <2>2. c[FileNth(k)] \in Seq(Blk)
    BY <2>1
  <2>3. QED
    BY <2>1, <2>2 DEF Blk
<1>2. QED
  BY <1>1 DEF StoreOf

(***************************************************************************)
(* punchHoleBlock(b) zeroes block b of the logical array and no other:    *)
(* past the end of the file nothing changes, and b read as Zero there.    *)
(***************************************************************************)
LEMMA PunchStore ==
  ASSUME NEW c \in [Files -> Seq(Blk)], NEW b \in Blocks
  PROVE  StoreOf(PunchContent(c, b)) = Filled(StoreOf(c), {b}, Zero)
<1> USE DEF Blocks, PunchContent, Filled
<1> DEFINE f == FileNth(b)  off == FileIdx(b)  fc == c[f]
           np == IF off < Len(fc) THEN [fc EXCEPT ![off + 1] = Zero] ELSE fc
           c2 == [c EXCEPT ![f] = np]
<1>1. f \in Files /\ off \in Nat /\ fc \in Seq(Blk)
  BY MapperRange
<1>2. np = [x \in 1..Len(fc) |-> IF off < Len(fc) /\ x = off + 1 THEN Zero
                                 ELSE fc[x]]
  <2>1. DOMAIN fc = 1..Len(fc) /\ fc = [x \in 1..Len(fc) |-> fc[x]]
    BY <1>1
  <2>2. CASE off < Len(fc)
    BY <2>1, <2>2
  <2>3. CASE ~(off < Len(fc))
    BY <2>1, <2>3
  <2>4. QED
    BY <2>2, <2>3
<1>3. Len(np) = Len(fc)
  BY <1>1, <1>2
<1>4. SUFFICES ASSUME NEW k \in Blocks
               PROVE  StoreOf(c2)[k] = IF k \in {b} THEN Zero ELSE StoreOf(c)[k]
  BY DEF StoreOf
<1>5. FileNth(k) \in Files /\ FileIdx(k) \in Nat
  BY MapperRange
<1>6. CASE k = b
  BY <1>1, <1>2, <1>3, <1>6 DEF StoreOf
<1>7. CASE k # b /\ FileNth(k) # f
  BY <1>1, <1>5, <1>7 DEF StoreOf
<1>8. CASE k # b /\ FileNth(k) = f
  <2>1. FileIdx(k) # off
    BY <1>8, MapperInjective
  <2>2. c2[FileNth(k)] = np
    BY <1>1, <1>8
  <2>3. QED
    BY <1>1, <1>2, <1>3, <1>5, <1>8, <2>1, <2>2 DEF StoreOf
<1>9. QED
  BY <1>6, <1>7, <1>8

(***************************************************************************)
(* readBlock(n, b) inside b's stripe, when the file holds the range,       *)
(* returns the logical blocks b .. b + n - 1.                              *)
(***************************************************************************)
LEMMA ReadStore ==
  ASSUME NEW c \in [Files -> Seq(Blk)], NEW b \in Blocks, NEW n \in Nat,
         b + n <= NumBlocks, (b % StripeSize) + n <= StripeSize,
         FileIdx(b) + n <= Len(c[FileNth(b)])
  PROVE  SubSeq(c[FileNth(b)], FileIdx(b) + 1, FileIdx(b) + n)
           = BlocksFrom(StoreOf(c), b, n)
<1> USE DEF Blocks, BlocksFrom
<1> DEFINE f == FileNth(b)  off == FileIdx(b)  fc == c[f]
<1>1. f \in Files /\ off \in Nat /\ fc \in Seq(Blk)
  BY MapperRange
<1>2. SubSeq(fc, off + 1, off + n) = [i \in 1..n |-> fc[off + i]]
  BY <1>1
<1>3. ASSUME NEW i \in 1..n
      PROVE  StoreOf(c)[b + i - 1] = fc[off + i]
  <2>1. i - 1 \in Nat /\ (b % StripeSize) + (i - 1) < StripeSize
    OBVIOUS
  <2>2. FileNth(b + (i - 1)) = f /\ FileIdx(b + (i - 1)) = off + (i - 1)
    BY <2>1, StripeRun
  <2>3. b + (i - 1) = b + i - 1 /\ b + i - 1 \in Blocks
    OBVIOUS
  <2>4. off + (i - 1) < Len(fc) /\ off + (i - 1) + 1 = off + i
    BY <1>1
  <2>5. QED
    BY <2>2, <2>3, <2>4 DEF StoreOf
<1>4. QED
  BY <1>2, <1>3

(***************************************************************************)
(* truncate() empties the files of a set D: every logical block keeps its *)
(* value or reads Zero, and with D every file every block reads Zero.     *)
(***************************************************************************)
LEMMA TruncateStore ==
  ASSUME NEW c \in [Files -> Seq(Blk)], NEW D \in SUBSET Files
  PROVE  LET c2 == [i \in Files |-> IF i \in D THEN << >> ELSE c[i]] IN
         /\ \A k \in Blocks : StoreOf(c2)[k] \in {StoreOf(c)[k], Zero}
         /\ D = Files => StoreOf(c2) = [k \in Blocks |-> Zero]
<1> USE DEF Blocks
<1>1. ASSUME NEW k \in Blocks
      PROVE  FileNth(k) \in Files /\ FileIdx(k) \in Nat
  BY MapperRange
<1>2. QED
  BY <1>1 DEF StoreOf

-----------------------------------------------------------------------------
(***************************************************************************)
(* The refinement of BlockStore.  It needs the part of TypeOK that types  *)
(* the file contents, the returned blocks and the outcome; the other      *)
(* conjuncts (the bounds on blockNum_ and the file lengths) go through    *)
(* the recursive BlockTotal and stay with TLC.                            *)
(***************************************************************************)
StoreTypeOK ==
  /\ content \in [Files -> Seq(Blk)]
  /\ readData \in Seq(Blk)
  /\ outcome \in {"ok", "nodata", "error"}

LEMMA InitStoreTypeOK == Init => StoreTypeOK
  BY DEF Init, StoreTypeOK

\* The contents a writeBlock() leaves behind are well typed.
LEMMA WriteContentType ==
  ASSUME NEW c \in [Files -> Seq(Blk)], NEW b \in Blocks, NEW j \in Nat,
         NEW d \in Data
  PROVE  [c EXCEPT ![FileNth(b)] = WriteAt(c[FileNth(b)], FileIdx(b), Buffer(j, d))]
           \in [Files -> Seq(Blk)]
<1>1. FileNth(b) \in Files /\ FileIdx(b) \in Nat /\ c[FileNth(b)] \in Seq(Blk)
  BY MapperRange DEF Blocks
<1>2. d \in Blk
  BY DEF Blk
<1>3. WriteAt(c[FileNth(b)], FileIdx(b), Buffer(j, d)) \in Seq(Blk)
  BY <1>1, <1>2, WriteAtType
<1>4. QED
  BY <1>1, <1>3

LEMMA NextStoreTypeOK == StoreTypeOK /\ [Next]_vars => StoreTypeOK'
<1> SUFFICES ASSUME StoreTypeOK, [Next]_vars PROVE StoreTypeOK'
  OBVIOUS
<1> USE DEF StoreTypeOK
<1>1. ASSUME NEW cc \in BOOLEAN, NEW m \in BOOLEAN, Open(cc, m)
      PROVE  StoreTypeOK'
  BY <1>1 DEF Open
<1>2. CASE Truncate
  BY <1>2 DEF Truncate
<1>3. CASE Close \/ Restart
  BY <1>3 DEF Close, Restart
<1>4. ASSUME NEW b \in Blocks, NEW d \in Data, NEW n \in Nat,
             WriteBlock(b, n, d) \/ WriteBlockFailed(b, n, d)
      PROVE  StoreTypeOK'
  <2>1. CASE WriteBlock(b, n, d)
    BY <2>1, WriteContentType DEF WriteBlock
  <2>2. CASE WriteBlockFailed(b, n, d)
    <3> DEFINE f == FileNth(b)
    <3>1. content' = content \/
          \E j \in 0..(n - 1) :
             content' = [content EXCEPT ![f] = WriteAt(content[f], FileIdx(b),
                                                       Buffer(j, d))]
      BY <2>2 DEF WriteBlockFailed, ReopenFailed
    <3>2. outcome' = "error" /\ readData' = readData
      BY <2>2 DEF WriteBlockFailed
    <3>3. QED
      BY <3>1, <3>2, WriteContentType
  <2>3. QED
    BY <1>4, <2>1, <2>2
<1>5. ASSUME NEW b \in Blocks, NEW n \in 1..2, ReadBlock(b, n)
      PROVE  StoreTypeOK'
  <2> DEFINE f == FileNth(b)  l == FileIdx(b)
  <2>0. b \in Nat
    BY DEF Blocks
  <2>1. f \in Files /\ l \in Nat
    BY <2>0, MapperRange
  <2>2. content' = content
    BY <1>5 DEF ReadBlock, ReadBlockAccepted, Reopen, ReopenFailed
  <2>3. outcome' \in {"ok", "nodata", "error"}
    BY <1>5 DEF ReadBlock, ReadBlockAccepted, Reopen, ReopenFailed
  <2>4. \/ readData' = readData
        \/ l + n <= Len(content[f]) /\ readData' = SubSeq(content[f], l + 1, l + n)
    BY <1>5 DEF ReadBlock, ReadBlockAccepted, Reopen, ReopenFailed
  <2>5. l + n <= Len(content[f]) => SubSeq(content[f], l + 1, l + n) \in Seq(Blk)
    BY <2>1
  <2>6. QED
    BY <2>2, <2>3, <2>4, <2>5
<1>6. ASSUME NEW b \in Blocks, PunchHoleBlock(b)
      PROVE  StoreTypeOK'
  <2> DEFINE f == FileNth(b)  l == FileIdx(b)
  <2>0. b \in Nat
    BY DEF Blocks
  <2>1. f \in Files /\ l \in Nat
    BY <2>0, MapperRange
  <2>2. l < Len(content[f]) => [content[f] EXCEPT ![l + 1] = Zero] \in Seq(Blk)
    BY <2>1 DEF Blk
  <2>3. QED
    BY <1>6, <2>1, <2>2 DEF PunchHoleBlock
<1>7. CASE UNCHANGED vars
  BY <1>7 DEF vars
<1>8. QED
  BY <1>1, <1>2, <1>3, <1>4, <1>5, <1>6, <1>7 DEF Next

(***************************************************************************)
(* Each step of CheckpointFileSet is a step of BlockStore under Store.    *)
(***************************************************************************)
\* A call that leaves the files and the returned blocks alone: open(),
\* close(), a restart, a rejected or failed call.
LEMMA OtherRefines ==
  ASSUME content' = content, readData' = readData,
         outcome' \in {"ok", "nodata", "error"}
  PROVE  BS!Next
<1>1. Store' = Store
  BY StoreIsStoreOf
<1>2. QED
  BY <1>1 DEF BS!Next, BS!Other, BS!Outcomes

\* The lengths of a call within the logical blocks are lengths of BlockStore.
LEMMA LengthsBound ==
  ASSUME NEW n \in Nat, n <= NumBlocks
  PROVE  n \in BS!Lengths
BY DEF BS!Lengths

LEMMA TruncateRefines ==
  ASSUME StoreTypeOK, StoreTypeOK', Truncate
  PROVE  BS!Next
<1>1. PICK kk \in 0..SplitCount, stop \in {"open", "lock"} :
        /\ content' = [i \in Files |->
                         IF i < kk \/ (i = kk /\ stop = "lock")
                         THEN << >> ELSE content[i]]
        /\ outcome' = IF kk = SplitCount THEN "ok" ELSE "error"
        /\ readData' = readData
  BY DEF Truncate
<1> DEFINE D == {i \in Files : i < kk \/ (i = kk /\ stop = "lock")}
<1>2. content' = [i \in Files |-> IF i \in D THEN << >> ELSE content[i]]
  BY <1>1
<1>3. /\ \A k \in Blocks : StoreOf(content')[k] \in {StoreOf(content)[k], Zero}
      /\ D = Files => StoreOf(content') = [k \in Blocks |-> Zero]
  BY <1>2, TruncateStore DEF StoreTypeOK
<1>4. CASE kk = SplitCount
  <2>1. D = Files
    BY <1>4 DEF Files
  <2>2. Store' = [k \in Blocks |-> Zero]
    BY <1>3, <2>1, StoreIsStoreOf
  <2>3. QED
    BY <1>1, <1>4, <2>2 DEF BS!Next, BS!Truncate, BS!Blocks, Blocks
<1>5. CASE kk # SplitCount
  <2>1. Store' \in [Blocks -> Data \cup {Zero}]
    BY StoreType, StoreIsStoreOf DEF StoreTypeOK, Blk
  <2>2. \A k \in Blocks : Store'[k] \in {Store[k], Zero}
    BY <1>3, StoreIsStoreOf
  <2>3. QED
    BY <1>1, <1>5, <2>1, <2>2 DEF BS!Next, BS!TruncateFailed, BS!Blocks, Blocks
<1>6. QED
  BY <1>4, <1>5

\* A write of n blocks of d at b inside b's stripe: BlockStore's Write.
LEMMA WriteRefines ==
  ASSUME StoreTypeOK, NEW b \in Blocks, NEW d \in Data,
         NEW n \in 1..(StripeSize - (b % StripeSize)), b + n <= NumBlocks,
         WriteBlock(b, n, d)
  PROVE  BS!Next
<1>1. b \in Nat /\ (b % StripeSize) \in Nat /\ n \in Nat
      /\ (b % StripeSize) + n <= StripeSize
  BY DivMod DEF Blocks
<1>2. content' = WriteContent(content, b, n, d)
  BY DEF WriteBlock, WriteContent
<1>3. Store' = [k \in Blocks |-> IF k \in b..(b + n - 1) THEN d ELSE Store[k]]
  <2>1. StoreOf(content') = Filled(StoreOf(content), b..(b + n - 1), d)
    BY <1>1, <1>2, WriteStore DEF StoreTypeOK
  <2>2. QED
    BY <2>1, StoreIsStoreOf DEF Filled
<1>4. n \in BS!Lengths
  BY <1>1, LengthsBound DEF Blocks
<1>5. outcome' = "ok" /\ readData' = readData
  BY DEF WriteBlock
<1>6. BS!Write(b, n, d)
  BY <1>3, <1>5 DEF BS!Write, BS!Fill, BS!Blocks, Blocks
<1>7. QED
  BY <1>4, <1>6 DEF BS!Next, BS!Blocks, Blocks

\* A writeBlock() that throws: nothing written, or a prefix of the buffer.
LEMMA WriteFailedRefines ==
  ASSUME StoreTypeOK, NEW b \in Blocks, NEW d \in Data,
         NEW n \in 1..(StripeSize - (b % StripeSize)), b + n <= NumBlocks,
         WriteBlockFailed(b, n, d)
  PROVE  BS!Next
<1>1. b \in Nat /\ (b % StripeSize) \in Nat /\ n \in Nat
      /\ (b % StripeSize) + n <= StripeSize
  BY DivMod DEF Blocks
<1>2. outcome' = "error" /\ readData' = readData
  BY DEF WriteBlockFailed
<1>3. \/ content' = content
      \/ \E j \in 0..(n - 1) :
           content' = [content EXCEPT ![FileNth(b)] =
                         WriteAt(content[FileNth(b)], FileIdx(b), Buffer(j, d))]
  BY DEF WriteBlockFailed, ReopenFailed
<1>4. CASE content' = content
  BY <1>2, <1>4, OtherRefines
<1>5. CASE \E j \in 0..(n - 1) :
             content' = [content EXCEPT ![FileNth(b)] =
                           WriteAt(content[FileNth(b)], FileIdx(b), Buffer(j, d))]
  <2>1. PICK j \in 0..(n - 1) :
          content' = [content EXCEPT ![FileNth(b)] =
                        WriteAt(content[FileNth(b)], FileIdx(b), Buffer(j, d))]
    BY <1>5
  <2>2. j \in Nat /\ (b % StripeSize) + j <= StripeSize
    BY <1>1
  <2>3. Store' = [k \in Blocks |-> IF k \in b..(b + j - 1) THEN d ELSE Store[k]]
    <3>1. StoreOf(content') = Filled(StoreOf(content), b..(b + j - 1), d)
      <4>1. content' = WriteContent(content, b, j, d)
        BY <2>1 DEF WriteContent
      <4>2. QED
        BY <2>2, <4>1, WriteStore DEF StoreTypeOK
    <3>2. QED
      BY <3>1, StoreIsStoreOf DEF Filled
  <2>4. BS!WriteFailed(b, n, d)
    BY <1>2, <2>3 DEF BS!WriteFailed, BS!Fill, BS!Blocks, Blocks
  <2>5. n \in BS!Lengths
    BY <1>1, LengthsBound DEF Blocks
  <2>6. QED
    BY <2>4, <2>5 DEF BS!Next, BS!Blocks, Blocks
<1>6. QED
  BY <1>3, <1>4, <1>5

\* A read of n blocks at b inside b's stripe: BlockStore's Read, or a
\* failed call.
LEMMA ReadRefines ==
  ASSUME StoreTypeOK, ~CrossStripeReads, NEW b \in Blocks, NEW n \in 1..2,
         b + n <= NumBlocks,
         CrossStripeReads \/ (b % StripeSize) + n <= StripeSize,
         ReadBlock(b, n)
  PROVE  BS!Next
<1>1. b \in Nat /\ n \in Nat /\ (b % StripeSize) + n <= StripeSize
  BY DEF Blocks
<1>2. content' = content
  BY DEF ReadBlock, ReadBlockAccepted, Reopen, ReopenFailed
<1>3. b \in BS!Blocks /\ b + n - 1 \in BS!Blocks /\ n \in BS!Lengths
  BY <1>1 DEF BS!Blocks, BS!Lengths, Blocks
<1>4. Store' = Store
  BY <1>2, StoreIsStoreOf
<1>5. \/ outcome' = "error" /\ readData' = readData
      \/ outcome' = "nodata" /\ readData' = readData
      \/ /\ outcome' = "ok"
         /\ FileIdx(b) + n <= Len(content[FileNth(b)])
         /\ readData' = SubSeq(content[FileNth(b)], FileIdx(b) + 1, FileIdx(b) + n)
  BY DEF ReadBlock, ReadBlockAccepted, Reopen, ReopenFailed
<1>6. CASE outcome' = "error" /\ readData' = readData
  BY <1>2, <1>6, OtherRefines
<1>7. CASE outcome' = "nodata" /\ readData' = readData
  BY <1>3, <1>4, <1>7 DEF BS!Next, BS!Read
<1>8. CASE /\ outcome' = "ok"
           /\ FileIdx(b) + n <= Len(content[FileNth(b)])
           /\ readData' = SubSeq(content[FileNth(b)], FileIdx(b) + 1, FileIdx(b) + n)
  <2>1. readData' = BlocksFrom(StoreOf(content), b, n)
    BY <1>1, <1>8, ReadStore DEF StoreTypeOK
  <2>2. readData' = [k \in 1..n |-> Store[b + k - 1]]
    BY <2>1, StoreIsStoreOf DEF BlocksFrom
  <2>3. QED
    BY <1>3, <1>4, <1>8, <2>2 DEF BS!Next, BS!Read
<1>9. QED
  BY <1>5, <1>6, <1>7, <1>8

\* punchHoleBlock(b) on a read-write handle is BlockStore's Punch; on any
\* other handle it changes nothing.
LEMMA PunchRefines ==
  ASSUME StoreTypeOK, NEW b \in Blocks, PunchHoleBlock(b)
  PROVE  BS!Next
<1>1. readData' = readData
  BY DEF PunchHoleBlock
<1>2. CASE handle[FileNth(b)] = "rw"
  <2>1. content' = PunchContent(content, b) /\ outcome' = "ok"
    BY <1>2 DEF PunchHoleBlock, PunchContent
  <2>2. StoreOf(content') = Filled(StoreOf(content), {b}, Zero)
    BY <2>1, PunchStore DEF StoreTypeOK
  <2>3. Store' = BS!Fill({b}, Zero)
    BY <2>2, StoreIsStoreOf DEF Filled, BS!Fill, BS!Blocks, Blocks
  <2>4. QED
    BY <1>1, <2>1, <2>3 DEF BS!Next, BS!Punch, BS!Blocks, Blocks
<1>3. CASE handle[FileNth(b)] # "rw"
  <2>1. content' = content /\ outcome' \in {"ok", "nodata", "error"}
    BY <1>3 DEF PunchHoleBlock
  <2>2. QED
    BY <1>1, <2>1, OtherRefines
<1>4. QED
  BY <1>2, <1>3

\* The files the program starts with, all empty, hold the all-Zero array.
LEMMA InitRefines == Init => BS!Init
<1> SUFFICES ASSUME Init PROVE BS!Init
  OBVIOUS
<1>1. ASSUME NEW k \in Blocks PROVE Store[k] = Zero
  <2>1. FileNth(k) \in Files /\ FileIdx(k) \in Nat
    BY MapperRange DEF Blocks
  <2>2. content[FileNth(k)] = << >>
    BY <2>1 DEF Init
  <2>3. QED
    BY <2>1, <2>2 DEF Store
<1>2. Store = [k \in Blocks |-> Zero]
  BY <1>1 DEF Store
<1>3. QED
  BY <1>2 DEF Init, BS!Init, BS!Blocks, Blocks

\* Every step of CheckpointFileSet, between states whose files are typed,
\* is a step of BlockStore or leaves Store, outcome and readData alone.
LEMMA NextRefines ==
  ASSUME ~CrossStripeReads, StoreTypeOK, StoreTypeOK', [Next]_vars
  PROVE  [BS!Next]_<<Store, outcome, readData>>
<1>1. CASE \E c, m \in BOOLEAN : Open(c, m)
  <2>1. PICK c, m \in BOOLEAN : Open(c, m)
    BY <1>1
  <2>2. content' = content /\ readData' = readData
        /\ outcome' \in {"ok", "nodata", "error"}
    BY <2>1 DEF Open
  <2>3. QED
    BY <2>2, OtherRefines
<1>2. CASE Truncate
  BY <1>2, TruncateRefines
<1>3. CASE Close \/ Restart
  <2>1. content' = content /\ readData' = readData
        /\ outcome' \in {"ok", "nodata", "error"}
    BY <1>3 DEF Close, Restart, StoreTypeOK
  <2>2. QED
    BY <2>1, OtherRefines
<1>4. CASE \E b \in Blocks, d \in Data :
             \E n \in 1..(StripeSize - (b % StripeSize)) :
                /\ b + n <= NumBlocks
                /\ \/ WriteBlock(b, n, d)
                   \/ WriteBlockFailed(b, n, d)
  <2>1. PICK b \in Blocks, d \in Data :
               \E n \in 1..(StripeSize - (b % StripeSize)) :
                  /\ b + n <= NumBlocks
                  /\ \/ WriteBlock(b, n, d)
                     \/ WriteBlockFailed(b, n, d)
    BY <1>4
  <2>2. PICK n \in 1..(StripeSize - (b % StripeSize)) :
               /\ b + n <= NumBlocks
               /\ \/ WriteBlock(b, n, d)
                  \/ WriteBlockFailed(b, n, d)
    BY <2>1
  <2>3. QED
    BY <2>2, WriteRefines, WriteFailedRefines
<1>5. CASE \E b \in Blocks, n \in 1..2 :
             /\ b + n <= NumBlocks
             /\ CrossStripeReads \/ (b % StripeSize) + n <= StripeSize
             /\ ReadBlock(b, n)
  <2>1. PICK b \in Blocks, n \in 1..2 :
               /\ b + n <= NumBlocks
               /\ CrossStripeReads \/ (b % StripeSize) + n <= StripeSize
               /\ ReadBlock(b, n)
    BY <1>5
  <2>2. QED
    BY <2>1, ReadRefines
<1>6. CASE \E b \in Blocks : PunchHoleBlock(b)
  BY <1>6, PunchRefines
<1>7. CASE UNCHANGED vars
  <2>1. Store' = Store
    BY <1>7, StoreIsStoreOf DEF vars
  <2>2. QED
    BY <1>7, <2>1 DEF vars
<1>8. QED
  BY <1>1, <1>2, <1>3, <1>4, <1>5, <1>6, <1>7 DEF Next

(***************************************************************************)
(* The split files implement the abstract block array: with reads kept     *)
(* inside one stripe, every behaviour of open, truncate, close, restart,   *)
(* writeBlock, readBlock and punchHoleBlock on the files, seen through the *)
(* mapper (Store), is a behaviour of BlockStore.  The run file_set_refines *)
(* checks BlockStoreSpec on a small instance; this holds for every         *)
(* SplitCount, StripeSize, NumBlocks, Data and number of faults.           *)
(***************************************************************************)
THEOREM FileSetRefinesBlockStore ==
  ASSUME ~CrossStripeReads
  PROVE  Spec => BlockStoreSpec
<1>1. Init => StoreTypeOK
  BY InitStoreTypeOK
<1>2. StoreTypeOK /\ [Next]_vars => StoreTypeOK'
  BY NextStoreTypeOK
<1>3. Init => BS!Init
  BY InitRefines
<1>4. StoreTypeOK /\ StoreTypeOK' /\ [Next]_vars
        => [BS!Next]_<<Store, outcome, readData>>
  BY NextRefines
<1>5. QED
  BY <1>1, <1>2, <1>3, <1>4, PTL DEF Spec, BlockStoreSpec, BS!Spec

(***************************************************************************)
(* A write of n blocks at b that stays inside b's stripe and below        *)
(* NumBlocks ends within MaxFileBlocks blocks of its file: the stripe of  *)
(* the file that holds b starts at FileIdx(b) - b % T, and there are at   *)
(* most MaxFileBlocks / T stripes of the file below NumBlocks.            *)
(***************************************************************************)
LEMMA WriteFits ==
  ASSUME NEW b \in Nat, NEW n \in Nat, b + n <= NumBlocks, n > 0,
         (b % StripeSize) + n <= StripeSize
  PROVE  FileIdx(b) + n <= MaxFileBlocks
<1> DEFINE T == StripeSize  S == SplitCount  M == T * S
           s == b \div T  r == b % T  q == s \div S  f == s % S
           c == (NumBlocks + M - 1) \div M
<1>1. s \in Nat /\ r \in 0..(T - 1) /\ b = s * T + r
  BY DivMod
<1>2. q \in Nat /\ f \in 0..(S - 1) /\ s = q * S + f
  BY <1>1, DivMod
<1>3. M \in Nat \ {0}
  BY Z3
<1>4. b >= q * M
  <2>1. s * T >= (q * S) * T
    BY <1>1, <1>2, Z3
  <2>2. (q * S) * T = q * M
    BY <1>2, Z3
  <2>3. QED
    BY <1>1, <2>1, <2>2
<1>5. NumBlocks + M - 1 >= (q + 1) * M
  BY <1>3, <1>4, <1>2, Z3
<1>6. c >= q + 1
  <2>0. NumBlocks + M - 1 \in Nat
    BY <1>3
  <2>1. c \in Nat /\ NumBlocks + M - 1 = c * M + ((NumBlocks + M - 1) % M)
        /\ (NumBlocks + M - 1) % M \in 0..(M - 1)
    BY <1>3, <2>0, DivMod
  <2>2. \A x \in Nat : x * M + M > (q + 1) * M => x >= q + 1
    BY <1>2, <1>3, Z3
  <2>3. c * M + M > (q + 1) * M
    BY <1>5, <2>1
  <2>4. QED
    BY <2>1, <2>2, <2>3
<1>7. FileIdx(b) = q * T + r
  BY DEF FileIdx
<1>8. q * T + r + n <= (q + 1) * T
  BY <1>1, <1>2, Z3
<1>9. (q + 1) * T <= c * T
  BY <1>2, <1>6, Z3
<1>10. MaxFileBlocks = c * T
  BY DEF MaxFileBlocks
<1>11. QED
  BY <1>7, <1>8, <1>9, <1>10, <1>1, <1>2, <1>6

(***************************************************************************)
(* The type invariant TypeOK, but for its bound on blockNum_, in three     *)
(* parts: the block data (StoreTypeOK), the handles, locks, names and the  *)
(* fault count, and the bound on the length of every file.                 *)
(***************************************************************************)
FlagsTypeOK ==
  /\ exists \in [Files -> BOOLEAN]
  /\ handle \in [Files -> Handles]
  /\ locked \in [Files -> BOOLEAN]
  /\ named \in [Files -> BOOLEAN]
  /\ faults \in 0..MaxFaults

FileLengthsOK == \A i \in Files : Len(content[i]) <= MaxFileBlocks

FilesTypeOK == StoreTypeOK /\ FlagsTypeOK /\ FileLengthsOK

\* TypeOK is FilesTypeOK with blockNum_ within the logical blocks.
LEMMA FilesTypeOKIsTypeOK ==
  FilesTypeOK /\ blockNum \in 0..NumBlocks => TypeOK
BY DEF FilesTypeOK, StoreTypeOK, FlagsTypeOK, FileLengthsOK, TypeOK, Blk

LEMMA MaxFileBlocksNat == MaxFileBlocks \in Nat
<1>1. StripeSize * SplitCount \in Nat \ {0}
  BY Z3
<1>2. NumBlocks + StripeSize * SplitCount - 1 \in Nat
  BY <1>1
<1>3. QED
  BY <1>1, <1>2, DivMod DEF MaxFileBlocks

LEMMA InitFilesTypeOK == Init => FilesTypeOK
<1> SUFFICES ASSUME Init PROVE FilesTypeOK
  OBVIOUS
<1>1. StoreTypeOK
  BY InitStoreTypeOK
<1>2. FlagsTypeOK
  BY DEF Init, FlagsTypeOK, Handles
<1>3. FileLengthsOK
  BY MaxFileBlocksNat DEF Init, FileLengthsOK
<1>4. QED
  BY <1>1, <1>2, <1>3 DEF FilesTypeOK

\* The lazy reopen of an I/O call keeps the handles, locks and faults typed.
LEMMA ReopenFlags ==
  ASSUME FlagsTypeOK, NEW f \in Files, Reopen(f), named' = named,
         faults' = faults
  PROVE  FlagsTypeOK'
BY DEF Reopen, FlagsTypeOK, Handles

LEMMA ReopenFailedFlags ==
  ASSUME FlagsTypeOK, NEW f \in Files, ReopenFailed(f), named' = named
  PROVE  FlagsTypeOK'
<1>1. faults' \in 0..MaxFaults
  BY DEF ReopenFailed, CanFail, FlagsTypeOK
<1>2. CASE handle' = [handle EXCEPT ![f] = "closed"] /\ UNCHANGED <<locked, exists>>
  BY <1>1, <1>2 DEF FlagsTypeOK, Handles
<1>3. CASE handle' = [handle EXCEPT ![f] = "rw"]
           /\ exists' = [exists EXCEPT ![f] = TRUE] /\ UNCHANGED locked
  BY <1>1, <1>3 DEF FlagsTypeOK, Handles
<1>4. QED
  BY <1>2, <1>3 DEF ReopenFailed

\* Every step keeps the handles, locks, names typed, and counts a failed OS
\* call only while fewer than MaxFaults have failed.
LEMMA NextFlagsTypeOK == FlagsTypeOK /\ [Next]_vars => FlagsTypeOK'
<1> SUFFICES ASSUME FlagsTypeOK, [Next]_vars PROVE FlagsTypeOK'
  OBVIOUS
<1>1. ASSUME NEW c \in BOOLEAN, NEW m \in BOOLEAN, Open(c, m)
      PROVE  FlagsTypeOK'
  <2>1. PICK k \in 0..SplitCount, stop \in {"missing", "open", "lock"} :
          /\ k < SplitCount =>
               \/ stop = "missing" /\ ~CanAttach(k, c, m)
               \/ stop = "open" /\ CanFail /\ CanAttach(k, c, m)
               \/ stop = "lock" /\ CanFail /\ ~c /\ CanAttach(k, c, m)
          /\ named' = [i \in Files |-> i <= k \/ named[i]]
          /\ handle' = [i \in Files |->
                          IF i < k THEN (IF c THEN "ro" ELSE "rw")
                          ELSE IF i > k \/ stop = "missing" THEN handle[i]
                          ELSE IF stop = "open" THEN "closed" ELSE "rw"]
          /\ locked' = [i \in Files |->
                          IF i < k THEN ~c
                          ELSE IF i > k \/ stop = "missing" THEN locked[i]
                          ELSE FALSE]
          /\ exists' = [i \in Files |->
                          exists[i] \/ i < k \/ (i = k /\ stop = "lock")]
          /\ faults' = IF k < SplitCount /\ stop # "missing" THEN faults + 1
                       ELSE faults
    BY <1>1 DEF Open
  <2>2. faults' \in 0..MaxFaults
    BY <2>1 DEF CanFail, FlagsTypeOK
  <2>3. handle' \in [Files -> Handles]
    BY <2>1 DEF FlagsTypeOK, Handles
  <2>4. QED
    BY <2>1, <2>2, <2>3 DEF FlagsTypeOK
<1>2. CASE Truncate
  <2>1. PICK k \in 0..SplitCount, stop \in {"open", "lock"} :
          /\ k < SplitCount /\ named[k] => CanFail
          /\ LET done(i) == i < k \/ (i = k /\ stop = "lock") IN
               /\ exists' = [i \in Files |-> exists[i] \/ done(i)]
               /\ handle' = [i \in Files |->
                               IF done(i) THEN "rw"
                               ELSE IF i = k THEN "closed" ELSE handle[i]]
          /\ locked' = [i \in Files |->
                          IF i < k THEN TRUE
                          ELSE IF i = k THEN FALSE ELSE locked[i]]
          /\ faults' = IF k < SplitCount /\ named[k] THEN faults + 1 ELSE faults
          /\ named' = named
    BY <1>2 DEF Truncate
  <2>2. faults' \in 0..MaxFaults
    BY <2>1 DEF CanFail, FlagsTypeOK
  <2>3. QED
    BY <2>1, <2>2 DEF FlagsTypeOK, Handles
<1>3. CASE Close \/ Restart
  BY <1>3 DEF Close, Restart, FlagsTypeOK, Handles
<1>4. ASSUME NEW b \in Blocks, NEW d \in Data, NEW n \in Nat,
             WriteBlock(b, n, d) \/ WriteBlockFailed(b, n, d)
      PROVE  FlagsTypeOK'
  <2> DEFINE f == FileNth(b)
  <2>1. f \in Files
    BY MapperRange DEF Blocks
  <2>2. CASE WriteBlock(b, n, d)
    BY <2>1, <2>2, ReopenFlags DEF WriteBlock
  <2>3. CASE WriteBlockFailed(b, n, d)
    <3>1. named' = named
      BY <2>3 DEF WriteBlockFailed
    <3>2. CASE handle[f] = "none" /\ ~named[f]
               /\ handle' = [handle EXCEPT ![f] = "closed"]
               /\ UNCHANGED <<content, exists, locked, faults>>
      BY <2>1, <3>1, <3>2 DEF FlagsTypeOK, Handles
    <3>3. CASE ReopenFailed(f)
      BY <2>1, <3>1, <3>3, ReopenFailedFlags
    <3>4. CASE UNCHANGED <<content, handle, exists, locked, faults>>
      BY <3>1, <3>4 DEF FlagsTypeOK
    <3>5. CASE CanFail /\ Reopen(f) /\ faults' = faults + 1
      <4>1. faults' \in 0..MaxFaults
        BY <3>5 DEF CanFail, FlagsTypeOK
      <4>2. QED
        BY <2>1, <3>1, <3>5, <4>1 DEF Reopen, FlagsTypeOK, Handles
    <3>6. QED
      BY <2>3, <3>2, <3>3, <3>4, <3>5 DEF WriteBlockFailed
  <2>4. QED
    BY <1>4, <2>2, <2>3
<1>5. ASSUME NEW b \in Blocks, NEW n \in Nat, ReadBlock(b, n)
      PROVE  FlagsTypeOK'
  <2> DEFINE f == FileNth(b)
  <2>1. f \in Files
    BY MapperRange DEF Blocks
  <2>2. named' = named
    BY <1>5 DEF ReadBlock, ReadBlockAccepted
  <2>3. CASE UNCHANGED <<handle, locked, exists, faults>>
    BY <2>2, <2>3 DEF FlagsTypeOK
  <2>4. CASE ReopenFailed(f)
    BY <2>1, <2>2, <2>4, ReopenFailedFlags
  <2>5. CASE Reopen(f) /\ UNCHANGED faults
    BY <2>1, <2>2, <2>5, ReopenFlags
  <2>6. QED
    BY <1>5, <2>3, <2>4, <2>5 DEF ReadBlock, ReadBlockAccepted
<1>6. ASSUME NEW b \in Blocks, PunchHoleBlock(b)
      PROVE  FlagsTypeOK'
  BY <1>6 DEF PunchHoleBlock, FlagsTypeOK
<1>7. CASE UNCHANGED vars
  BY <1>7 DEF vars, FlagsTypeOK
<1>8. QED
  BY <1>1, <1>2, <1>3, <1>4, <1>5, <1>6, <1>7 DEF Next

\* A write of j <= n blocks at b, for a call inside b's stripe and below
\* NumBlocks, keeps every file within MaxFileBlocks blocks.
LEMMA WriteLengthsOK ==
  ASSUME StoreTypeOK, FileLengthsOK, NEW b \in Blocks, NEW d \in Data,
         NEW n \in 1..(StripeSize - (b % StripeSize)), b + n <= NumBlocks,
         NEW j \in 0..n, content' = WriteContent(content, b, j, d)
  PROVE  FileLengthsOK'
<1> DEFINE f == FileNth(b)  off == FileIdx(b)
<1>1. b \in Nat /\ f \in Files /\ off \in Nat /\ content[f] \in Seq(Blk)
  BY MapperRange DEF Blocks, StoreTypeOK
<1>2. (b % StripeSize) + n <= StripeSize /\ n \in Nat
  BY <1>1, DivMod
<1>3. off + n <= MaxFileBlocks
  BY <1>1, <1>2, WriteFits
<1>4. Len(WriteAt(content[f], off, Buffer(j, d)))
        = IF Len(content[f]) >= off + j THEN Len(content[f]) ELSE off + j
  <2>1. d \in Blk /\ j \in Nat
    BY DEF Blk
  <2>2. QED
    BY <1>1, <2>1, WriteAtLen
<1>5. Len(WriteAt(content[f], off, Buffer(j, d))) <= MaxFileBlocks
  BY <1>1, <1>3, <1>4, MaxFileBlocksNat DEF FileLengthsOK
<1>6. content' = [content EXCEPT ![f] = WriteAt(content[f], off, Buffer(j, d))]
  BY DEF WriteContent
<1>7. QED
  BY <1>1, <1>5, <1>6 DEF FileLengthsOK, StoreTypeOK

\* Punching a hole keeps the length of the file.
LEMMA PunchLengthsOK ==
  ASSUME StoreTypeOK, FileLengthsOK, NEW b \in Blocks,
         content' = PunchContent(content, b)
  PROVE  FileLengthsOK'
<1> DEFINE f == FileNth(b)  off == FileIdx(b)  fc == content[f]
<1>1. f \in Files /\ off \in Nat /\ fc \in Seq(Blk)
  BY MapperRange DEF Blocks, StoreTypeOK
<1>2. Len(IF off < Len(fc) THEN [fc EXCEPT ![off + 1] = Zero] ELSE fc) = Len(fc)
  <2>1. CASE off < Len(fc)
    <3>1. [fc EXCEPT ![off + 1] = Zero] \in Seq(Blk \cup {Zero})
      BY <1>1, <2>1
    <3>2. DOMAIN [fc EXCEPT ![off + 1] = Zero] = 1..Len(fc)
      BY <1>1
    <3>3. QED
      BY <1>1, <2>1, <3>1, <3>2
  <2>2. QED
    BY <2>1
<1>3. content' = [content EXCEPT ![f] =
                    IF off < Len(fc) THEN [fc EXCEPT ![off + 1] = Zero] ELSE fc]
  BY DEF PunchContent
<1>4. QED
  BY <1>1, <1>2, <1>3 DEF FileLengthsOK, StoreTypeOK

\* No step makes a file longer than its share of the stripes.
LEMMA NextFileLengthsOK ==
  StoreTypeOK /\ FileLengthsOK /\ [Next]_vars => FileLengthsOK'
<1> SUFFICES ASSUME StoreTypeOK, FileLengthsOK, [Next]_vars
             PROVE  FileLengthsOK'
  OBVIOUS
<1>1. CASE content' = content
  BY <1>1 DEF FileLengthsOK
<1>2. CASE Truncate
  <2>1. PICK kk \in 0..SplitCount, stop \in {"open", "lock"} :
          content' = [i \in Files |->
                        IF i < kk \/ (i = kk /\ stop = "lock")
                        THEN << >> ELSE content[i]]
    BY <1>2 DEF Truncate
  <2>2. QED
    BY <2>1, MaxFileBlocksNat DEF FileLengthsOK
<1>3. ASSUME NEW b \in Blocks, NEW d \in Data,
             NEW n \in 1..(StripeSize - (b % StripeSize)), b + n <= NumBlocks,
             WriteBlock(b, n, d) \/ WriteBlockFailed(b, n, d)
      PROVE  FileLengthsOK'
  <2>1. CASE WriteBlock(b, n, d)
    <3>1. n \in 0..n /\ content' = WriteContent(content, b, n, d)
      BY <2>1 DEF WriteBlock, WriteContent
    <3>2. QED
      BY <1>3, <3>1, WriteLengthsOK
  <2>2. CASE WriteBlockFailed(b, n, d)
    <3>1. \/ content' = content
          \/ \E j \in 0..(n - 1) : content' = WriteContent(content, b, j, d)
      BY <2>2 DEF WriteBlockFailed, ReopenFailed, WriteContent
    <3>2. QED
      BY <1>1, <1>3, <3>1, WriteLengthsOK
  <2>3. QED
    BY <1>3, <2>1, <2>2
<1>4. ASSUME NEW b \in Blocks, PunchHoleBlock(b)
      PROVE  FileLengthsOK'
  <2>1. content' = content \/ content' = PunchContent(content, b)
    BY <1>4 DEF PunchHoleBlock, PunchContent
  <2>2. QED
    BY <1>1, <2>1, PunchLengthsOK
<1>5. QED
  <2>1. CASE \E c, m \in BOOLEAN : Open(c, m)
    BY <1>1, <2>1 DEF Open
  <2>2. CASE Close \/ Restart
    BY <1>1, <2>2 DEF Close, Restart
  <2>3. CASE \E b \in Blocks, n \in 1..2 : ReadBlock(b, n)
    BY <1>1, <2>3 DEF ReadBlock, ReadBlockAccepted, Reopen, ReopenFailed
  <2>4. CASE UNCHANGED vars
    BY <1>1, <2>4 DEF vars
  <2>5. QED
    BY <1>2, <1>3, <1>4, <2>1, <2>2, <2>3, <2>4 DEF Next

(***************************************************************************)
(* Every reachable state of the file set is typed as TypeOK says, but for  *)
(* the bound on blockNum_: the handles, locks and names of fileList_ and   *)
(* fileNameList_, the failed OS calls, the blocks of every file and of    *)
(* the last read, and above all no writeBlock() (successful or failed)   *)
(* makes a file longer than its share of the stripes of the NumBlocks     *)
(* logical blocks, for every split count, stripe size and NumBlocks.      *)
(***************************************************************************)
THEOREM FileSetTypeCorrect == Spec => []FilesTypeOK
<1>1. Init => FilesTypeOK
  BY InitFilesTypeOK
<1>2. FilesTypeOK /\ [Next]_vars => FilesTypeOK'
  BY NextStoreTypeOK, NextFlagsTypeOK, NextFileLengthsOK DEF FilesTypeOK
<1>3. QED
  BY <1>1, <1>2, PTL DEF Spec

(***************************************************************************)
(* Locks are held through open read-write handles.  LockHeldByHandle with  *)
(* the typing of the handles is inductive: a handle that is replaced      *)
(* (open(), truncate(), the lazy reopen) was NULL, and so held no lock,   *)
(* or had its lock released with it.                                      *)
(***************************************************************************)
LockInv == FlagsTypeOK /\ LockHeldByHandle

\* The lazy reopen and its failure keep the locks behind read-write handles.
LEMMA ReopenLocks ==
  ASSUME LockInv, NEW f \in Files, Reopen(f) \/ ReopenFailed(f)
  PROVE  LockHeldByHandle'
<1>1. CASE handle[f] = "none"
  <2>1. ~locked[f]
    BY <1>1 DEF LockInv, LockHeldByHandle
  <2>2. CASE Reopen(f)
    BY <1>1, <2>2 DEF Reopen, LockInv, LockHeldByHandle, FlagsTypeOK
  <2>3. CASE ReopenFailed(f)
    <3>1. locked' = locked /\ \A i \in Files : exists[i] => exists'[i]
      BY <2>3 DEF ReopenFailed, LockInv, FlagsTypeOK
    <3>2. \A i \in Files \ {f} : handle'[i] = handle[i]
      BY <2>3 DEF ReopenFailed, LockInv, FlagsTypeOK
    <3>3. QED
      BY <2>1, <3>1, <3>2 DEF LockInv, LockHeldByHandle
  <2>4. QED
    BY <2>2, <2>3
<1>2. CASE handle[f] # "none"
  BY <1>2 DEF Reopen, ReopenFailed, LockInv, LockHeldByHandle
<1>3. QED
  BY <1>1, <1>2

LEMMA NextLockHeldByHandle ==
  LockInv /\ [Next]_vars => LockHeldByHandle'
<1> SUFFICES ASSUME LockInv, [Next]_vars PROVE LockHeldByHandle'
  OBVIOUS
<1>1. ASSUME NEW c \in BOOLEAN, NEW m \in BOOLEAN, Open(c, m)
      PROVE  LockHeldByHandle'
  <2>1. PICK k \in 0..SplitCount, stop \in {"missing", "open", "lock"} :
          /\ handle' = [i \in Files |->
                          IF i < k THEN (IF c THEN "ro" ELSE "rw")
                          ELSE IF i > k \/ stop = "missing" THEN handle[i]
                          ELSE IF stop = "open" THEN "closed" ELSE "rw"]
          /\ locked' = [i \in Files |->
                          IF i < k THEN ~c
                          ELSE IF i > k \/ stop = "missing" THEN locked[i]
                          ELSE FALSE]
          /\ exists' = [i \in Files |->
                          exists[i] \/ i < k \/ (i = k /\ stop = "lock")]
    BY <1>1 DEF Open
  <2>2. QED
    BY <2>1 DEF LockInv, LockHeldByHandle, FlagsTypeOK
<1>2. CASE Truncate
  <2>1. PICK k \in 0..SplitCount, stop \in {"open", "lock"} :
          LET done(i) == i < k \/ (i = k /\ stop = "lock") IN
            /\ exists' = [i \in Files |-> exists[i] \/ done(i)]
            /\ handle' = [i \in Files |->
                            IF done(i) THEN "rw"
                            ELSE IF i = k THEN "closed" ELSE handle[i]]
            /\ locked' = [i \in Files |->
                            IF i < k THEN TRUE
                            ELSE IF i = k THEN FALSE ELSE locked[i]]
    BY <1>2 DEF Truncate
  <2>2. QED
    BY <2>1 DEF LockInv, LockHeldByHandle, FlagsTypeOK
<1>3. CASE Close \/ Restart
  BY <1>3 DEF Close, Restart, LockHeldByHandle
<1>4. ASSUME NEW b \in Blocks, NEW d \in Data, NEW n \in Nat,
             WriteBlock(b, n, d) \/ WriteBlockFailed(b, n, d)
      PROVE  LockHeldByHandle'
  <2> DEFINE f == FileNth(b)
  <2>1. f \in Files
    BY MapperRange DEF Blocks
  <2>2. CASE WriteBlock(b, n, d)
    BY <2>1, <2>2, ReopenLocks DEF WriteBlock
  <2>3. CASE WriteBlockFailed(b, n, d)
    <3>1. CASE handle[f] = "none" /\ ~named[f]
               /\ handle' = [handle EXCEPT ![f] = "closed"]
               /\ UNCHANGED <<content, exists, locked, faults>>
      <4>1. ~locked[f]
        BY <2>1, <3>1 DEF LockInv, LockHeldByHandle
      <4>2. QED
        BY <2>1, <3>1, <4>1 DEF LockInv, LockHeldByHandle, FlagsTypeOK
    <3>2. CASE ReopenFailed(f)
      BY <2>1, <3>2, ReopenLocks
    <3>3. CASE UNCHANGED <<content, handle, exists, locked, faults>>
      BY <3>3 DEF LockInv, LockHeldByHandle
    <3>4. CASE Reopen(f)
      BY <2>1, <3>4, ReopenLocks
    <3>5. QED
      BY <2>3, <3>1, <3>2, <3>3, <3>4 DEF WriteBlockFailed
  <2>4. QED
    BY <1>4, <2>2, <2>3
<1>5. ASSUME NEW b \in Blocks, NEW n \in Nat, ReadBlock(b, n)
      PROVE  LockHeldByHandle'
  <2> DEFINE f == FileNth(b)
  <2>1. f \in Files
    BY MapperRange DEF Blocks
  <2>2. CASE UNCHANGED <<handle, locked, exists>>
    BY <2>2 DEF LockInv, LockHeldByHandle
  <2>3. CASE Reopen(f) \/ ReopenFailed(f)
    BY <2>1, <2>3, ReopenLocks
  <2>4. QED
    BY <1>5, <2>2, <2>3 DEF ReadBlock, ReadBlockAccepted
<1>6. ASSUME NEW b \in Blocks, PunchHoleBlock(b)
      PROVE  LockHeldByHandle'
  BY <1>6 DEF PunchHoleBlock, LockInv, LockHeldByHandle
<1>7. CASE UNCHANGED vars
  BY <1>7 DEF vars, LockInv, LockHeldByHandle
<1>8. QED
  BY <1>1, <1>2, <1>3, <1>4, <1>5, <1>6, <1>7 DEF Next

(***************************************************************************)
(* Whatever open(), truncate(), close(), the lazy reopens and restarts do, *)
(* and whichever of their open() and lock() calls fail, this process      *)
(* holds a file's lock only through its open read-write handle, on a file *)
(* that is on disk, for every number of split files and of faults.        *)
(***************************************************************************)
THEOREM LockHeldSafe == Spec => []LockHeldByHandle
<1>1. Init => LockInv
  BY InitFilesTypeOK DEF Init, LockInv, LockHeldByHandle, FilesTypeOK
<1>2. LockInv /\ [Next]_vars => LockInv'
  BY NextFlagsTypeOK, NextLockHeldByHandle DEF LockInv
<1>3. LockInv => LockHeldByHandle
  BY DEF LockInv
<1>4. QED
  BY <1>1, <1>2, <1>3, PTL DEF Spec
====
