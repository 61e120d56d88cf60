# TLA+ models of CheckpointFile

`src/server/checkpoint_file.cpp` implements a block-addressed checkpoint
store. It is a set of backing files, split and striped over directories,
addressed in blocks of `2^E` bytes. Two growable bitmaps sit beside the files:
`usedChunkInfo_` says which blocks are allocated, and `validChunkInfo_` says
which blocks belong to the latest consistent checkpoint. An allocator reuses
free blocks with a bounded, cursor-rotated search and appends when that
search fails. The I/O engine reads and writes blocks through the split files
and raises the block count `blockNum_`. `checkFileName` recognises the
names of the files.

The store is single-writer (spec section 5). The checkpoint manager
serialises every call, so the hard behaviours are not thread interleavings.
They are long sequences of legal calls, OS calls that fail half-way through
a loop over the split files, restarts over files that outlive the object,
and the boundaries of the search, the range checks and the integer widths.

## Inventory

| Part (spec section) | Code | State | Modules |
|---|---|---|---|
| Growable bitmap (4.1) | `BitArray`, not under `src/` | bits, length | `CheckpointFile` (spec-modelled helpers) |
| File set (4.2) | `open` 131-234, `truncate` 239-265, `close` 725-733, constructor 42-108, destructor 113-126 | file handles, locks, names, files on disk, `blockNum_` | `CheckpointFile`, `CheckpointFileSet` |
| Block address mapper (4.3) | `calcFileNth`, `calcFileOffset` (header) | none | `CheckpointFileSet` (spec-modelled), `CheckpointFileSetProofs` |
| Allocator (4.4) | `allocateBlock` 289-336, `freeBlock` 341-348, `setUsedBlockInfo` 353-367, `initializeUsedBlockInfo` 380-388 | `usedChunkInfo_`, `freeUseBitNum_`, `freeBlockSearchCursor_` | `CheckpointFile` |
| Valid-set tracker (4.5) | `setValidBlockInfo` 393-395, `initializeValidBlockInfo` 407-413 | `validChunkInfo_` | `CheckpointFile` |
| I/O engine (4.6) | `writeBlock` 508-551, `writePartialBlock` 556-593, `readBlock` 598-643, `punchHoleBlock` 418-450, `zerofillUnusedBlock` 453-503 | block contents, `blockNum_`, block counters | `CheckpointFile`, `CheckpointFileSet`, `BlockStore` |
| Name parser (4.7) | `checkFileName` 783-819 | none | `CheckpointFileName` |
| SQL task processor | `src/server/sql_task_processor.h` | none (empty class) | none |

How the parts interact:

- `open()` names and attaches the split files, sums their sizes into
  `blockNum_`, and sizes both bitmaps from that count.
- The caller (the checkpoint manager) then rebuilds the bitmaps with
  `initializeUsed`/`setUsed`/`setValid` (spec section 6). The bitmaps are not
  persisted; only the files are.
- `allocateBlock()` reads and writes `used`. On the append path it also
  writes `valid`.
- The I/O calls map a block to a file and an offset with the mapper, open
  and lock a file whose handle is NULL, and raise `blockNum_`. Reads are
  checked against `blockNum_`.
- `truncate()` recreates every file empty and resets the block count, the
  free count, the cursor and both bitmaps.

`CheckpointFile` and `CheckpointFileSet` share `blockNum_` and the meaning of
`open()`/`truncate()`. They are two modules because the bitmap side and the
file side ask different questions and their product is far beyond TLC;
`blockNum_` is the only state both touch, and each module models every
assignment to it.

`PROJECT.json` lists the hazards, each at its source line, with the
properties that cover it.

## Module `CheckpointFile`: allocator, bitmaps and counters

**State:**

| Variable | Code |
|---|---|
| `used`, `valid` | `usedChunkInfo_`, `validChunkInfo_`; sequences of booleans, bit `i` at index `i + 1` |
| `freeCount` | `freeUseBitNum_` |
| `cursor` | `freeBlockSearchCursor_` |
| `blockNum` | `blockNum_` |
| `readBlockCount`, `writeBlockCount` | the block counters |
| `phase` | the caller's protocol (see below) |

**Constants:**

- `SearchLimit` is `ALLOCATE_BLOCK_SEARCH_LIMIT`.
- `BlockExp` is `E`.
- `MaxBlocks` bounds the bitmaps and `blockNum`.
- `MaxIoCount` bounds the counters.
- `LengthBits` is the width of the byte length `size << BLOCK_EXP_SIZE_`
  (32 in the code, `uint32_t`). `IoBlocks(n)` is the number of blocks a
  call of `n` blocks really moves and counts: `(n * 2^E) % 2^LengthBits`
  divided by `2^E`. The runs use 16 bits, so no call of the model wraps;
  TLC's integers are 32-bit and cannot hold `2^32`.
- `Reopens` says whether the caller calls `open()` again on an opened
  object. The code allows it; the spec's protocol opens once.

**Actions.** There is one action per public operation, and each is the whole
method:

- `Open(n)`: `open()` with files holding `n` blocks in total. It sets bit
  `n + 1` of both bitmaps false, sets `freeUseBitNum_` to the length and the
  cursor to 0. Its error paths throw before any of this state changes, so
  they are stutters here (`CheckpointFileSet` models what they do to the
  files).
- `Truncate`.
- `AllocateReuse` and `AllocateAppend`: the two outcomes of `allocateBlock()`.
  The search is written as `ScanLen1`, `Broke1`, `Count0`, `Wraps`,
  `ScanLen2`, `ScanPos`, `FirstFreeAt`, `EndPos` and `NextCursor`. Together
  they reproduce both loops: the limit test after each examined position,
  the second loop continuing the first loop's count, and the cursor set from
  the last position examined and wrapped against the length read before the
  search. The trailing `setUsedBlockInfo(p, true)` is part of both actions,
  through `SetUsed`.
- `FreeBlock`, `SetUsedBlockInfo`, `InitializeUsedBlockInfo`,
  `SetValidBlockInfo` and `InitializeValidBlockInfo`.
- `WriteBlock(b, n)` and `WritePartialBlock(off, size)`: a completed write
  raising `blockNum_` by the full size and the counter by `IoBlocks(n)`.
- `ReadBlock(b, n)`: guarded by the code's own check `ReadBlockAccepted`.
- `ResetReadBlockCount` and `ResetWriteBlockCount`.

**The bitmap.** `BitArray` is not under `src/`, so `Get`, `SetBit` and
`Reset` follow spec section 4.1, and append is `Append`. These helpers are
marked `spec_modelled` in the map.

**The caller protocol.** `phase` stands for the protocol of spec section 6:

1. open (once, unless `Reopens`);
2. rebuild the bitmaps in `"recovery"`;
3. allocate and free in `"running"`.

`FinishRecovery` is the end of that rebuild. Reads and writes are allowed in
both opened phases.

## Module `CheckpointFileSet`: files, handles, locks and block data

**State:** `exists[i]` (file `i` is on disk), `content[i]` (its blocks, a
sequence over `Data` and `Zero`), `handle[i]` (`fileList_[i]`: `"none"` for
NULL, `"closed"` for a NamedFile whose `open()` threw, `"ro"`, `"rw"`),
`locked[i]`, `named[i]` (`fileNameList_[i]` has been set by `open()`),
`blockNum`, `faults` (failed OS calls so far), `outcome` (what the last call
returned: `"ok"`, `"nodata"` for `readBlock`'s 0, `"error"` for a throw) and
`readData`.

**Constants:** `SplitCount` (S), `StripeSize` (T), `NumBlocks`, `Data`,
`MaxFaults` (how many OS calls may fail in a behaviour) and
`CrossStripeReads` (whether a caller reads a range across a stripe end).

**Actions:**

- `Open(checkOnly, createMode)`: the loop over the files stops at file `k`
  (`k = S` when it completes). It stops at a missing file that the mode does
  not create, at a failed `open()` (the new handle stays, closed), or at a
  failed `lock()` (the handle stays open and unlocked). Files before `k` are
  named, reopened (read-only under `checkOnly`, else read-write and locked)
  and created if missing. `blockNum_` becomes `BlockTotal[S]`, the sum of
  the files' block counts, only when the loop completes.
- `Truncate`: each named file in turn is recreated empty and locked. The
  loop stops at an unnamed file or at a failed `open()`/`lock()`; a failed
  lock comes after the file was already emptied.
- `Close` and `Restart` (the destructor, or the process's end, followed by a
  new object over the same files: handles, locks, names and `blockNum_` are
  back to their initial values, the files stay).
- `WriteBlock`, `WriteBlockFailed`, `ReadBlock` and `PunchHoleBlock`. The
  lazy open-and-lock of a NULL handle is `Reopen`, or `ReopenFailed` when
  `open()` or `lock()` throws. A failed write leaves a prefix of its buffer
  in the file (spec section 7: "whatever state the OS left it").
  `readBlock` first applies its range check as written, `ReadBlockAccepted`
  (line 602). It reopens only a file that is on disk and returns "no data"
  otherwise; it reads from the one file of the first block and fails past
  that file's end.

The retries inside `GS_FILE_WRITE_ALL`/`GS_FILE_READ_ALL` are not modelled:
a retried transfer ends with the same bytes as one transfer, and nothing
reads the retry counters. `flush()` calls `sync()` on every open handle and
`advise()` passes a hint to the OS. Neither changes the file contents that
the model tracks, so neither is modelled.

**The mapper.** `FileNth(b) = (b ÷ T) % S` and
`FileIdx(b) = ((b ÷ T) ÷ S) * T + b % T`, from spec section 3 (the header is
not under `src/`).

### The refinement: `BlockStore`

`BlockStore` is what the I/O engine promises its caller: a flat array of
blocks. A write of `n` blocks at `b` stores its buffer in `b .. b + n - 1`,
and a failed write stores a prefix of it. A read returns the stored blocks,
or "no data", or fails. `Truncate` empties the array; a failed truncate
empties part of it. A punch zeroes a block or, where the OS has no punch,
leaves it. Every other call leaves the blocks alone.

`CheckpointFileSet` implements it under the mapping
`Store[b] = content[FileNth(b)][FileIdx(b) + 1]` (a block past the end of
its file reads as `Zero`): `BS == INSTANCE BlockStore WITH store <- Store`,
and `BlockStoreSpec == BS!Spec` is checked as a temporal property and
proved as `FileSetRefinesBlockStore` (see Proofs). It holds
only if the mapper gives every block its own place, if every file operation
changes exactly the blocks its call names, and if every failure path leaves
a state the caller could expect.

## Module `CheckpointFileName`: the name parser

A name is a sequence of characters, with the prefix `gs_cp_` and the
extension `.dat` as single tokens. The three `istream` extractions
`iss >> num1 >> c >> num2` are modelled by what libstdc++'s `num_get` does:
it skips blanks, takes one `+` or `-`, then takes the longest run of
digits. failbit is set when there is no digit or the value overflows, and a
`-` before the unsigned `num1` negates the value modulo `2^32`. The widths
are scaled: `UIntLimit` (20) stands for `2^32` and `IntLimit` (10) for
`2^31`. `FileName(pg, i)` is the name `open()` builds. `CheckFileName` is
the whole call, out-parameters included.

## Runs

| Run | Module | Cfg | Expect | Checks |
|---|---|---|---|---|
| alloc_wrap | MC_CheckpointFile | AllocWrap.cfg | pass | `TypeOK`, `FreeCountSound`, `AllocateReusesNearbyFree`, `SearchLimit = 2` |
| alloc_limit | MC_CheckpointFile | AllocLimit.cfg | pass | the same with `SearchLimit = 1` |
| truncate_free_count | MC_CheckpointFile | TruncateFreeCount.cfg | violation | `FreeCountAccurate` |
| scan_bound | MC_CheckpointFile | ScanBound.cfg | violation | `AllocateScanBounded` |
| reopen_free_count | MC_CheckpointFile | ReopenFreeCount.cfg | violation | `FreeCountSound` with `Reopens` |
| file_set_refines | MC_CheckpointFileSet | FileSetRefines.cfg | pass | `TypeOK`, `LockHeldByHandle`, `BlockStoreSpec`; S = 2, T = 2, 5 blocks, no faults |
| file_set_faults | MC_CheckpointFileSet | FileSetFaults.cfg | pass | `TypeOK`, `LockHeldByHandle`, `BlockStoreSpec`; S = 2, T = 1, 3 blocks, one fault |
| read_cross_stripe | MC_CheckpointFileSet | ReadCrossStripe.cfg | violation | `BlockStoreSpec` with cross-stripe reads |
| write_unlocked | MC_CheckpointFileSet | WriteUnlocked.cfg | violation | `WriteHoldsLock` |
| restart_block_num | MC_CheckpointFileSet | RestartBlockNum.cfg | violation | `OpenCoversData` |
| name_round_trip | MC_CheckpointFileName | NameRoundTrip.cfg | pass | `TypeOK`, `RoundTrip` |
| name_exact_form | MC_CheckpointFileName | NameExactForm.cfg | violation | `AcceptsExactForm` |

**The passing runs check these properties:**

- **`FreeCountSound`:** the free count is never negative and never exceeds
  the number of false bits. An allocation therefore never decrements a zero
  count and never trusts a free bit that is not there.
- **`AllocateReusesNearbyFree`:** when a free block lies within
  `SearchLimit` positions of the cursor, in rotated order, the allocation
  takes the first such block. This is the search's promise, and it must
  survive the wrap and the limit cut.
- **`BlockStoreSpec`:** the refinement above, through every open, truncate,
  close, restart, write, read and punch, failed ones included.
- **`LockHeldByHandle`:** this process holds a file's lock only through
  the file's open read-write handle, on a file that exists. The code relies
  on deleting a `NamedFile` to release its lock. `open()`, `truncate()`, the
  lazy reopen and `close()` replace or delete handles on every failure path,
  and the invariant says no lock is left behind a handle that is gone.
- **`RoundTrip`:** spec invariant 7. `checkFileName` recognises every name
  `open()` builds and returns its pgId and slot.
- **`TypeOK`**, one per module.

**Bounds.**

- `CheckpointFile`: bitmaps of at most 4 bits, 2-byte blocks, counters up
  to 1. Each passing run reaches over 100,000 distinct states in well under
  a minute. With 4 bits and a limit of 2 the search can start anywhere and
  wrap past the end within the limit; with a limit of 1, `cursor + 2 < 4`
  cuts the first loop before the end. `Open` with up to `MaxBlocks - 2`
  blocks gives bitmaps of 2 to 4 bits, and writes can raise `blockNum` to
  `MaxBlocks`, so `initializeUsedBlockInfo` both shrinks and grows the
  bitmap.
- `file_set_refines`: two files and stripes of two blocks over five blocks,
  so file 0 holds stripes 0 and 2 and the `÷ S` of the mapper matters (with
  four blocks it would not). The run takes about 1.5 minutes. Writes stay
  inside a stripe, as the checkpoint manager's single-block writes do.
- `file_set_faults`: one failed OS call is enough to reach these partial
  paths: open stopping at either file, truncate stopping after the first
  file, a failed lazy reopen and a failed write. Stripes of one block keep
  the run to seconds. With them every write is of one block, so a failed
  write moves no data, and `file_set_refines` has no faults. A short write
  that leaves part of its data in the file is therefore reached by no run.
  It is covered by the proof of `FileSetRefinesBlockStore` (lemma
  `WriteFailedRefines`).
- `name_round_trip`: every name of up to seven characters over the digits 0
  and 1, `_`, `+`, `-`, a blank and the extension, starting with the prefix
  or a blank, and all 200 names `open()` builds for the scaled ranges. With
  the scaled widths, two-digit values overflow `int32_t` and three-digit ones
  overflow `uint32_t`. `gs_cp_111_0.dat` and `gs_cp_0_11.dat` have the
  exact form and are rejected only because a number overflows.

**Mutants.** Each property of a passing run is broken by a plausible bug:

- `ZerosOneMore`: the init loop runs to `<=`.
- `SetUsedNoFlipTest`.
- `AllocateReuseNoCountGuard`: the `freeUseBitNum_ > 0` test is dropped.
- `ScanLen2NoWrap`.
- `ScanPosPastCursor`.
- `FileIdxNoSplitDiv`.
- `FileIdxNoStripeScale`.
- `TruncateSkipLast`.
- `ExtractNoUnsignedWrap`.
- `ExtractMaxExclusive`: the type's largest value is taken for an overflow.

**Fairness and liveness.** None is assumed, and no liveness property is
checked. Every operation is a synchronous call that the caller may or may
not make. Nothing in the code waits, retries on a timer or hands work to
another thread, so nothing must eventually happen. The retry loops of the
I/O macros are inside one call.

The runs check deadlock: the counter resets, `Close` and `Restart` are
always enabled. `name_round_trip` does not (`CHECK_DEADLOCK FALSE`): its
behaviour is one call, which returns.

## Findings

The violation runs are the disagreements met while modelling. Each is in
`PROJECT.json`.

1. **Truncate and the free count.** `truncate()` zeroes `freeUseBitNum_`
   while `reset()` keeps the bitmap's length, so the count no longer matches
   the false bits. The next allocation appends at the old length, not at 0
   as spec section 8 scenario 6 says.
2. **The search limit.** The search examines up to `LIMIT + 2` positions, so
   a block further than the limit is reused. Spec section 4.4 says the scan
   stops at `SEARCH_LIMIT` positions and falls through to append.
3. **A second open.** `open()` on an opened object sets the free count to
   the bitmap's length while `set()` keeps the old used bits. The count
   then exceeds the free bits, and an allocation can later underflow it.
4. **Reads across a stripe.** `readBlock` reads `n` blocks from the file of
   the first one; past a stripe end these are blocks of other stripes.
5. **Writes without the lock.** When `lock()` throws in `open()`, the open
   handle stays in `fileList_` unlocked. `writeBlock` locks only a file it
   opens itself, so a later write changes the file without the lock.
6. **The block count after a restart.** The run has two files, stripes of
   one block and five blocks. `open()` names file 0 and stops at the
   missing file 1. A write puts data at block 4, which is local block 2 of
   file 0. After a restart, a fresh `open()` creates file 1 empty and
   recovers `blockNum_ = 3 + 0 = 3`. `readBlock(4, 1)` then fails the range
   check at line 602 (`3 < 1 + 4 - 1`), although the block is on disk. The
   range check admits one block past the count (the off-by-one of the
   `CheckpointFile` model). A block is therefore lost only when the sum is
   at least two below it. With three blocks that cannot happen, which is
   why this run uses five rather than the three of `file_set_faults`.
7. **Names outside the exact form.** `checkFileName` accepts a sign before
   pgId (`-1` becomes `2^32 - 1`), a `+` before either number, and blanks
   before the numbers and before `_`.

Other disagreements seen in the code, not kept as runs:

- `open()` that throws file-not-found on a later split file leaves the
  earlier files open and locked, while spec section 5 says they are
  released. `CheckpointFileSet` models it, and finding 5 is its consequence
  on the lock-failure path.
- `readBlock` accepts a range that ends one block past `blockNum_`. Spec
  section 9 records this as an open question.
- `truncate()` does not reset the read and write block counters, though
  spec section 4.2 says it does.
- A write of `2^(32 - E)` blocks or more wraps the `uint32_t` byte length.
  `IoBlocks` models the wrap, but no run makes such a call.

## Proofs (`CheckpointFileProofs`, `CheckpointFileSetProofs`, TLAPS)

The module assumes:

- `ConstantsAssumption`;
- `BlockSizeAssumption`: `2^E` is a positive natural;
- `LengthRangeAssumption`: `2^LengthBits` is a positive natural.

`CheckpointFileProofs` proves three theorems:

- **`TypeCorrect`:** `Spec => []TypeOK`, for every value of the constants.
  The proof has one step per action. It rests on lemmas about the helpers:
  - `SetBitType`: the length of a set bitmap, the set bit, the kept bits and
    the zero-filled gap;
  - `AppendType` and `ZerosType`;
  - `ScanBounds`: every position the search examines is below `MaxBlocks`,
    and the cursor stays below `MaxBlocks`;
  - `IoBlocksBound`: a call of `n` blocks counts between 0 and `n` blocks,
    whatever the width of the byte length.
- **`AllocateNearbySafe`:** `Spec => AllocateReusesNearbyFree`, for every
  `SearchLimit` and `MaxBlocks`. It needs only `TypeOK`. The lemma
  `ScanMatchesRot` says that for the first `SearchLimit` positions, the k-th
  position `allocateBlock()`'s two loops examine is the k-th position of the
  rotated order from the cursor. The argument splits three ways: inside the
  first loop; past the end of the bitmap, where the first loop cannot have
  broken on its limit; and with the cursor at or past the end. From it,
  `AllocateNearbyStep` rules out the append branch and pins the reused
  block to the first free position.
- **`FreeCountSafe`:** under `~Reopens`, `Spec => []FreeCountSound`. The
  condition is needed: `reopen_free_count` shows that the property fails
  when the caller opens twice.

`FreeCountSound` is not inductive by itself. The inductive invariant `IInv`
adds two facts:

- during recovery the count is exact (`FreeCountAccurate`);
- before `open()` the bitmap is empty.

It needs them for these reasons:

- `open()` gives an exact count only because the bitmap starts empty, and
  that holds only if `open()` runs once.
- A recovery `setUsedBlockInfo(b, true)` of a free bit lowers the count.
  Only exactness rules out the underflow that the assert at line 360 guards.

After `truncate()` the count is only a lower bound, which is why
`FreeCountAccurate` fails there. The key lemma is `SetUsedSlack`, with
`FreeSetInside`, `FreeSetKept` and `FreeSetAppend` beneath it. It says that
`setUsedBlockInfo` keeps the slack `FreeBits(used) - freeCount` inside the
bitmap, and never lowers it when an allocation takes a free position, even a
position past the end.

The proof of `NextIInv` has one case per action. Each case establishes
`FreeCountSound'` by arithmetic, and the phase facts separately.

`CheckpointFileSetProofs` proves **`MapperInjective`**. For every split
count `S >= 1` and stripe size `T >= 1`, two block numbers that
`calcFileNth`/`calcFileOffset` send to the same file and the same offset
are equal. Two lemmas on integer division support it:

- `DivMod`: `n = (n \div d) * d + (n % d)` with the remainder in `0..d-1`;
- `DivModUnique`: that decomposition is unique.

The proof applies them twice: first to the stripe size, then to the split
count. The refinement run checks the mapper only for `S = T = 2`; this
theorem covers every size.

It also proves **`FileSetRefinesBlockStore`**: under `~CrossStripeReads`,
`Spec => BlockStoreSpec`. This is the property that the run
`file_set_refines` checks, here for every `SplitCount`, `StripeSize`,
`NumBlocks`, `Data` and fault bound. The hypothesis matches the
configuration of the passing runs. `read_cross_stripe` shows that the
refinement fails without it.

The proof follows the standard refinement scheme:

- **`InitRefines`:** the empty files map to the all-`Zero` array.
- **`StoreTypeOK`:** the part of the type invariant that the step proof
  needs: the files are sequences of `Data \cup {Zero}`, the returned blocks
  likewise, and the outcome is one of three values. It is inductive, proved
  by `InitStoreTypeOK` and `NextStoreTypeOK`.
- **`NextRefines`:** between typed states, every step of `Next` is a
  `BlockStore` step or leaves `Store`, `outcome` and `readData` unchanged.
  It has one lemma per action:
  - `OtherRefines`: open, close, restart and rejected or failed calls;
  - `TruncateRefines`: the `Truncate` of `BlockStore` when every file was
    handled, its `TruncateFailed` otherwise;
  - `WriteRefines` and `WriteFailedRefines`;
  - `ReadRefines`;
  - `PunchRefines`.

The action lemmas rest on lemmas that compute `Store` after each file
operation:

- `WriteStore`: a write of `j` blocks at `b` inside `b`'s stripe sets
  exactly `b .. b + j - 1`. The proof uses `MapperInjective` for the other
  blocks of the written file, and `WriteAtAt` for the zeros filled past the
  old end.
- `PunchStore`: a punch zeroes exactly block `b`.
- `ReadStore`: `SubSeq` of the file is the run of logical blocks.
- `TruncateStore`: emptying a set of files turns some blocks to `Zero` and
  changes no other, and emptying every file gives the all-`Zero` array.
- `StripeRun`: inside one stripe, consecutive blocks sit at consecutive
  offsets of one file.

The temporal step is `PTL`. The abstract module numbers its blocks
`0 .. NumBlocks - 1`, as spec section 3 does. Its lengths are therefore
`0 .. NumBlocks`, with no `Cardinality`: the instantiated `Cardinality` is
a definition the provers cannot evaluate.

It also proves **`FileSetTypeCorrect`**: `Spec => []FilesTypeOK`, for every
split count, stripe size, number of blocks and fault bound. `FilesTypeOK` is
`TypeOK` without its bound on `blockNum`; the lemma `FilesTypeOKIsTypeOK`
shows that the two differ in exactly that conjunct. It is the conjunction of
three inductive parts:

- `StoreTypeOK`, from the refinement proof;
- `FlagsTypeOK`: the handles, locks, names and the fault count. Every
  failed OS call is counted only under `CanFail`, in `open()`, `truncate()`
  and the lazy reopen (`ReopenFlags`, `ReopenFailedFlags`);
- `FileLengthsOK`: no file is longer than `MaxFileBlocks`, its share of the
  stripes.

The last part is the one with content. Its key lemma is `WriteFits`: a
write of `n` blocks at `b` that stays inside its stripe and below
`NumBlocks` ends at `FileIdx(b) + n <= MaxFileBlocks`. The argument is
arithmetic on the mapper. The file's stripe of `b` starts at
`q * T`, with `q = (b ÷ T) ÷ S`. Since `b >= q * T * S` and `b < NumBlocks`,
there are at least `q + 1` stripes of the file below `NumBlocks`.
`WriteLengthsOK` applies it to successful and partial writes, and
`PunchLengthsOK` shows that a punch keeps the length.

It also proves **`LockHeldSafe`**: `Spec => []LockHeldByHandle`, the
invariant that the runs `file_set_refines` and `file_set_faults` check.
The invariant is not inductive alone, because its step needs the typing of
the handles. The inductive invariant is `LockInv == FlagsTypeOK /\
LockHeldByHandle`. The one subtle case is a replaced handle: the lazy
reopen (`ReopenLocks`) and the failed lazy open of an unnamed file replace
only a NULL handle, and by the invariant a NULL handle holds no lock.

**What stays with TLC:**

- The bound `blockNum \in 0..NumBlocks` of `CheckpointFileSet.TypeOK` is
  checked only by TLC. `open()` sets `blockNum` to `BlockTotal[SplitCount]`,
  the sum of the file lengths, defined as a recursive function. The provers
  cannot even unfold `BlockTotal`: doing so needs the library theorem
  `FiniteNatInductiveDef`, whose operator parameter they cannot instantiate.
  Bounding the sum would also need induction over the files. Everything
  else in `TypeOK` is proved (`FileSetTypeCorrect`).
- The name parser is checked only by TLC. `CheckpointFileName` uses folds
  over digit runs and the recursive `DecimalOf`, which put it out of the
  provers' reach (see above).
- Liveness and `ENABLED` are out of the prover's reach. The project has no
  liveness property (see above).

## Not modelled

- `zerofillUnusedBlock()` reads `usedChunkInfo_`, a `CheckpointFile` state,
  and punches holes in the files, a `CheckpointFileSet` state. A model
  needs both modules' state at once, which is beyond TLC at the bounds that
  make either side interesting.
- `writePartialBlock`'s sub-block data in `CheckpointFileSet`: the model's
  blocks are whole data values.
- The retries of the I/O macros, `flush()` and `advise()` (see above).
- The stale cursor after `initializeUsedBlockInfo()` following allocations,
  and used/valid length drift (spec invariant 2). The caller protocol of
  spec section 6 rebuilds the bitmaps before any allocation, so no modelled
  behaviour reaches them.
- Diagnostics (`dump*`, `getFileSize`, the retry-counter getters) and the
  empty `TaskProcessor`: they hold no state.
