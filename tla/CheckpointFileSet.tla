-------------------------- MODULE CheckpointFileSet --------------------------
(***************************************************************************)
(* The backing files of one CheckpointFile (src/server/checkpoint_file.cpp)*)
(* and the I/O that goes through them: fileList_ (one handle per split     *)
(* file), the advisory locks, fileNameList_ (filled in by open()),         *)
(* blockNum_, and the files on disk, which outlive the object.            *)
(*                                                                         *)
(* A file's contents are a sequence of blocks (file-local block i is       *)
(* element i + 1), each a datum of Data or Zero; a file that is not on    *)
(* disk has no blocks.  A handle is "none" (NULL), "closed" (a NamedFile  *)
(* whose open() threw), "ro" or "rw" (open read-only or read-write).      *)
(* An OS call may fail (open(), lock(), a short write that ends in an     *)
(* error) at most MaxFaults times; lock() fails when another process      *)
(* holds the lock.  Restart is the end of the object (destructor or       *)
(* process exit, which release every lock) and the construction of the    *)
(* next one over the same files.                                          *)
(***************************************************************************)
EXTENDS Naturals, Sequences, FiniteSets

CONSTANTS
  SplitCount,        \* splitCount_: the number of files S
  StripeSize,        \* stripeSize_: T blocks per stripe
  NumBlocks,         \* the logical blocks 0 .. NumBlocks - 1 a caller uses
  Data,              \* the block contents a caller writes
  MaxFaults,         \* bound on the failed OS calls of a behaviour
  CrossStripeReads   \* whether a caller reads ranges across a stripe end

ASSUME FileSetAssumption ==
  /\ SplitCount \in Nat \ {0}
  /\ StripeSize \in Nat \ {0}
  /\ NumBlocks \in Nat
  /\ MaxFaults \in Nat
  /\ CrossStripeReads \in BOOLEAN

Files == 0..(SplitCount - 1)
Blocks == 0..(NumBlocks - 1)
Zero == "zero"
Handles == {"none", "closed", "ro", "rw"}

VARIABLES
  exists,     \* file i is on disk
  content,    \* the blocks of file i
  handle,     \* fileList_[i]
  locked,     \* this process holds the lock of file i
  named,      \* fileNameList_[i] has been set by open()
  blockNum,   \* blockNum_
  faults,     \* failed OS calls so far
  outcome,    \* what the last call returned: "ok", "nodata", "error"
  readData    \* the blocks the last successful readBlock() returned

vars == <<exists, content, handle, locked, named, blockNum, faults, outcome,
          readData>>

-----------------------------------------------------------------------------
(***************************************************************************)
(* The block address mapper (calcFileNth / calcFileOffset, spec section 3)*)
(* on block numbers: the file of block b and its file-local block index.  *)
(***************************************************************************)
FileNth(b) == (b \div StripeSize) % SplitCount

\* Mutant: the stripe number within the file not scaled by the stripe size.
FileIdxNoStripeScale(b) ==
  ((b \div StripeSize) \div SplitCount) + (b % StripeSize)

\* Mutant: the stripe number not divided by the split count.
FileIdxNoSplitDiv(b) == (b \div StripeSize) * StripeSize + (b % StripeSize)

FileIdx(b) ==
  ((b \div StripeSize) \div SplitCount) * StripeSize + (b % StripeSize)

\* Sum of the block counts of files 0 .. i - 1.
BlockTotal[i \in 0..SplitCount] ==
  IF i = 0 THEN 0 ELSE BlockTotal[i - 1] + Len(content[i - 1])

\* s with the blocks l + 1 .. l + Len(v) overwritten by v, zero-filled.
WriteAt(s, l, v) ==
  [k \in 1..(IF Len(s) >= l + Len(v) THEN Len(s) ELSE l + Len(v)) |->
     IF k > l /\ k <= l + Len(v) THEN v[k - l]
     ELSE IF k <= Len(s) THEN s[k] ELSE Zero]

\* A buffer of n blocks of datum d.
Buffer(n, d) == [k \in 1..n |-> d]

CanFail == faults < MaxFaults

-----------------------------------------------------------------------------
Init ==
  /\ exists \in [Files -> BOOLEAN]
  /\ content = [i \in Files |-> << >>]
  /\ handle = [i \in Files |-> "none"]
  /\ locked = [i \in Files |-> FALSE]
  /\ named = [i \in Files |-> FALSE]
  /\ blockNum = 0
  /\ faults = 0
  /\ outcome = "ok"
  /\ readData = << >>

(***************************************************************************)
(* open(checkOnly, createMode): the loop attaches files 0, 1, ... and     *)
(* stops at file k, with k = SplitCount when it completes.  Attaching a   *)
(* file names it, replaces its handle (deleting the old one releases its  *)
(* lock) by one open read-only (checkOnly) or read-write and locked, and  *)
(* creates it if it is missing and createMode allows.  The loop stops at  *)
(* a missing file the mode does not create (file-not-found: that file's   *)
(* handle untouched), at a failed open() (the new handle stays "closed")  *)
(* or at a failed lock() (the handle stays open, unlocked).  Files before *)
(* k keep what the loop did to them.  blockNum_ is set only on success.   *)
(***************************************************************************)
CanAttach(i, checkOnly, createMode) == exists[i] \/ (~checkOnly /\ createMode)

Open(checkOnly, createMode) ==
  \E k \in 0..SplitCount, stop \in {"missing", "open", "lock"} :
    /\ \A i \in 0..(k - 1) : CanAttach(i, checkOnly, createMode)
    /\ k < SplitCount =>
         \/ stop = "missing" /\ ~CanAttach(k, checkOnly, createMode)
         \/ stop = "open" /\ CanFail /\ CanAttach(k, checkOnly, createMode)
         \/ stop = "lock" /\ CanFail /\ ~checkOnly
                              /\ CanAttach(k, checkOnly, createMode)
    /\ k = SplitCount => stop = "missing"
    /\ named' = [i \in Files |-> i <= k \/ named[i]]
    /\ handle' = [i \in Files |->
                    IF i < k THEN (IF checkOnly THEN "ro" ELSE "rw")
                    ELSE IF i > k \/ stop = "missing" THEN handle[i]
                    ELSE IF stop = "open" THEN "closed" ELSE "rw"]
    /\ locked' = [i \in Files |->
                    IF i < k THEN ~checkOnly
                    ELSE IF i > k \/ stop = "missing" THEN locked[i]
                    ELSE FALSE]
    /\ exists' = [i \in Files |->
                    exists[i] \/ i < k \/ (i = k /\ stop = "lock")]
    /\ faults' = IF k < SplitCount /\ stop # "missing" THEN faults + 1
                 ELSE faults
    /\ blockNum' = IF k = SplitCount THEN BlockTotal[SplitCount] ELSE blockNum
    /\ outcome' = IF k = SplitCount THEN "ok" ELSE "error"
    /\ UNCHANGED <<content, readData>>

(***************************************************************************)
(* truncate(): each file in turn gets a new handle that recreates it      *)
(* empty and locks it.  An unnamed file (open() never reached it) cannot  *)
(* be opened; the loop stops at the first open() or lock() that fails, a  *)
(* failed lock() after the file was already emptied.  blockNum_ is reset  *)
(* only when every file was done.                                         *)
(***************************************************************************)
\* Mutant: the loop of truncate() stops before the last file.
TruncateSkipLast ==
  \E k \in 0..SplitCount, stop \in {"open", "lock"} :
    /\ \A i \in 0..(k - 1) : named[i]
    /\ k < SplitCount =>
         \/ stop = "open" /\ (~named[k] \/ CanFail)
         \/ stop = "lock" /\ named[k] /\ CanFail
    /\ k = SplitCount => stop = "open"
    /\ LET done(i) == (i < k \/ (i = k /\ stop = "lock")) /\ i < SplitCount - 1
       IN
         /\ content' = [i \in Files |-> IF done(i) THEN << >> ELSE content[i]]
         /\ exists' = [i \in Files |-> exists[i] \/ done(i)]
         /\ handle' = [i \in Files |->
                         IF done(i) THEN "rw"
                         ELSE IF i = k THEN "closed" ELSE handle[i]]
         /\ locked' = [i \in Files |->
                         IF i < k THEN TRUE
                         ELSE IF i = k THEN FALSE ELSE locked[i]]
    /\ faults' = IF k < SplitCount /\ named[k] THEN faults + 1 ELSE faults
    /\ blockNum' = IF k = SplitCount THEN 0 ELSE blockNum
    /\ outcome' = IF k = SplitCount THEN "ok" ELSE "error"
    /\ UNCHANGED <<named, readData>>

Truncate ==
  \E k \in 0..SplitCount, stop \in {"open", "lock"} :
    /\ \A i \in 0..(k - 1) : named[i]
    /\ k < SplitCount =>
         \/ stop = "open" /\ (~named[k] \/ CanFail)
         \/ stop = "lock" /\ named[k] /\ CanFail
    /\ k = SplitCount => stop = "open"
    /\ LET done(i) == i < k \/ (i = k /\ stop = "lock") IN
         /\ content' = [i \in Files |-> IF done(i) THEN << >> ELSE content[i]]
         /\ exists' = [i \in Files |-> exists[i] \/ done(i)]
         /\ handle' = [i \in Files |->
                         IF done(i) THEN "rw"
                         ELSE IF i = k THEN "closed" ELSE handle[i]]
         /\ locked' = [i \in Files |->
                         IF i < k THEN TRUE
                         ELSE IF i = k THEN FALSE ELSE locked[i]]
    /\ faults' = IF k < SplitCount /\ named[k] THEN faults + 1 ELSE faults
    /\ blockNum' = IF k = SplitCount THEN 0 ELSE blockNum
    /\ outcome' = IF k = SplitCount THEN "ok" ELSE "error"
    /\ UNCHANGED <<named, readData>>

\* Mutant: close() deletes the handles but the locks stay recorded as held.
CloseKeepsLocks ==
  /\ handle' = [i \in Files |-> "none"]
  /\ outcome' = "ok"
  /\ UNCHANGED <<exists, content, locked, named, blockNum, faults, readData>>

\* close(): every handle closed and deleted, which releases its lock.
Close ==
  /\ handle' = [i \in Files |-> "none"]
  /\ locked' = [i \in Files |-> FALSE]
  /\ outcome' = "ok"
  /\ UNCHANGED <<exists, content, named, blockNum, faults, readData>>

(***************************************************************************)
(* The destructor (or the process's exit) and the construction of the     *)
(* next CheckpointFile over the same files: handles and locks released,   *)
(* the names and blockNum_ back to their initial values.                  *)
(***************************************************************************)
Restart ==
  /\ handle' = [i \in Files |-> "none"]
  /\ locked' = [i \in Files |-> FALSE]
  /\ named' = [i \in Files |-> FALSE]
  /\ blockNum' = 0
  /\ UNCHANGED <<exists, content, faults, outcome, readData>>

-----------------------------------------------------------------------------
(***************************************************************************)
(* The lazy reopen of the I/O calls.  A NULL handle is replaced by a new  *)
(* NamedFile opened read-write (writeBlock: creating the file) and locked.*)
(* Reopen is the outcome where both succeed (or the handle was there);    *)
(* ReopenFailed, one where open() or lock() throws: the new handle stays, *)
(* "closed" or open and unlocked.                                         *)
(***************************************************************************)
Reopen(f) ==
  IF handle[f] = "none"
  THEN /\ named[f]
       /\ handle' = [handle EXCEPT ![f] = "rw"]
       /\ locked' = [locked EXCEPT ![f] = TRUE]
       /\ exists' = [exists EXCEPT ![f] = TRUE]
  ELSE UNCHANGED <<handle, locked, exists>>

ReopenFailed(f) ==
  /\ handle[f] = "none"
  /\ named[f]
  /\ CanFail
  /\ faults' = faults + 1
  /\ \/ /\ handle' = [handle EXCEPT ![f] = "closed"]
        /\ UNCHANGED <<locked, exists>>
     \/ /\ handle' = [handle EXCEPT ![f] = "rw"]
        /\ exists' = [exists EXCEPT ![f] = TRUE]
        /\ UNCHANGED locked

(***************************************************************************)
(* writeBlock(buffer, n, b) that returns: the file of b (re)opened if its *)
(* handle was NULL, the n blocks written at the mapped offset, blockNum_  *)
(* raised to b + n.                                                       *)
(***************************************************************************)
WriteBlock(b, n, d) ==
  /\ handle[FileNth(b)] \in {"none", "rw"}
  /\ Reopen(FileNth(b))
  /\ content' = [content EXCEPT ![FileNth(b)] =
                   WriteAt(@, FileIdx(b), Buffer(n, d))]
  /\ blockNum' = IF blockNum < n + b THEN n + b ELSE blockNum
  /\ outcome' = "ok"
  /\ UNCHANGED <<named, faults, readData>>

(***************************************************************************)
(* writeBlock(buffer, n, b) that throws: the lazy open of an unnamed file *)
(* fails, or its open() or lock() fails, or the handle is a closed or a   *)
(* read-only one, or the write fails after j < n blocks reached the file. *)
(* blockNum_ and writeBlockCount_ are not raised.                         *)
(***************************************************************************)
WriteBlockFailed(b, n, d) ==
  LET f == FileNth(b) IN
  /\ \/ /\ handle[f] = "none"
        /\ ~named[f]
        /\ handle' = [handle EXCEPT ![f] = "closed"]
        /\ UNCHANGED <<content, exists, locked, faults>>
     \/ /\ ReopenFailed(f)
        /\ UNCHANGED content
     \/ /\ handle[f] \in {"closed", "ro"}
        /\ UNCHANGED <<content, handle, exists, locked, faults>>
     \/ /\ handle[f] \in {"none", "rw"}
        /\ CanFail
        /\ Reopen(f)
        /\ faults' = faults + 1
        /\ \E j \in 0..(n - 1) :
              content' = [content EXCEPT ![f] = WriteAt(@, FileIdx(b), Buffer(j, d))]
  /\ outcome' = "error"
  /\ UNCHANGED <<named, blockNum, readData>>

(***************************************************************************)
(* readBlock(buffer, n, b).  The range check comes first.  A NULL handle  *)
(* is reopened only if the named file is on disk, else the call returns 0 *)
(* ("no data").  GS_FILE_READ_ALL reads n blocks at the mapped offset of  *)
(* the one file; it fails at the end of the file.                         *)
(***************************************************************************)
\* The range check of readBlock(), as written: n blocks from b are accepted
\* unless blockNum_ < n + b - 1.
ReadBlockAccepted(b, n) == ~(blockNum < n + b - 1)

ReadBlock(b, n) ==
  LET f == FileNth(b)
      l == FileIdx(b) IN
  \/ /\ ~ReadBlockAccepted(b, n)
     /\ outcome' = "error"
     /\ UNCHANGED <<exists, content, handle, locked, named, blockNum, faults,
                    readData>>
  \/ /\ ReadBlockAccepted(b, n)
     /\ \/ /\ handle[f] = "none"
           /\ ~(named[f] /\ exists[f])
           /\ outcome' = "nodata"
           /\ UNCHANGED <<handle, locked, exists, faults, readData>>
        \/ /\ exists[f]
           /\ ReopenFailed(f)
           /\ outcome' = "error"
           /\ UNCHANGED readData
        \/ /\ handle[f] = "closed"
           /\ outcome' = "error"
           /\ UNCHANGED <<handle, locked, exists, faults, readData>>
        \/ /\ handle[f] \in {"ro", "rw"} \/ exists[f]
           /\ Reopen(f)
           /\ IF l + n <= Len(content[f])
              THEN /\ outcome' = "ok"
                   /\ readData' = SubSeq(content[f], l + 1, l + n)
              ELSE /\ outcome' = "error"
                   /\ UNCHANGED readData
           /\ UNCHANGED faults
     /\ UNCHANGED <<content, named, blockNum>>

(***************************************************************************)
(* punchHoleBlock(BLOCK_SIZE_, b * BLOCK_SIZE_): fallocate(PUNCH_HOLE |   *)
(* KEEP_SIZE) on an open handle; nothing on a NULL or closed handle; a    *)
(* read-only handle makes fallocate() fail.  Past the end of the file the *)
(* file is unchanged (the size is kept).                                  *)
(***************************************************************************)
PunchHoleBlock(b) ==
  LET f == FileNth(b)
      l == FileIdx(b) IN
  /\ \/ /\ handle[f] = "rw"
        /\ content' = [content EXCEPT ![f] =
                         IF l < Len(@) THEN [@ EXCEPT ![l + 1] = Zero] ELSE @]
        /\ outcome' = "ok"
     \/ /\ handle[f] = "ro"
        /\ outcome' = "error"
        /\ UNCHANGED content
     \/ /\ handle[f] \in {"none", "closed"}
        /\ outcome' = "ok"
        /\ UNCHANGED content
  /\ UNCHANGED <<exists, handle, locked, named, blockNum, faults, readData>>

-----------------------------------------------------------------------------
Next ==
  \/ \E c, m \in BOOLEAN : Open(c, m)
  \/ Truncate
  \/ Close
  \/ Restart
  \/ \E b \in Blocks, d \in Data :
        \E n \in 1..(StripeSize - (b % StripeSize)) :
           /\ b + n <= NumBlocks
           /\ \/ WriteBlock(b, n, d)
              \/ WriteBlockFailed(b, n, d)
  \/ \E b \in Blocks, n \in 1..2 :
        /\ b + n <= NumBlocks
        /\ CrossStripeReads \/ (b % StripeSize) + n <= StripeSize
        /\ ReadBlock(b, n)
  \/ \E b \in Blocks : PunchHoleBlock(b)

Spec == Init /\ [][Next]_vars

-----------------------------------------------------------------------------
\* The blocks a file can hold: its share of the stripes of the logical blocks.
MaxFileBlocks ==
  ((NumBlocks + StripeSize * SplitCount - 1) \div (StripeSize * SplitCount))
    * StripeSize

TypeOK ==
  /\ exists \in [Files -> BOOLEAN]
  /\ \A i \in Files :
        /\ content[i] \in Seq(Data \cup {Zero})
        /\ Len(content[i]) <= MaxFileBlocks
  /\ handle \in [Files -> Handles]
  /\ locked \in [Files -> BOOLEAN]
  /\ named \in [Files -> BOOLEAN]
  /\ blockNum \in 0..NumBlocks
  /\ faults \in 0..MaxFaults
  /\ outcome \in {"ok", "nodata", "error"}
  /\ readData \in Seq(Data \cup {Zero})

\* The logical block array the files hold: block b is where the mapper puts
\* it, and reads as Zero past the end of its file.
Store ==
  [b \in Blocks |->
     IF FileIdx(b) < Len(content[FileNth(b)])
     THEN content[FileNth(b)][FileIdx(b) + 1] ELSE Zero]

BS == INSTANCE BlockStore WITH store <- Store

(***************************************************************************)
(* The files implement the logical block array: every writeBlock(),       *)
(* readBlock(), punchHoleBlock() and truncate(), including failed ones,   *)
(* lazy reopens, close() and restarts, is a step of BlockStore under the  *)
(* mapping of blocks to (file, offset) of calcFileNth/calcFileOffset.     *)
(***************************************************************************)
BlockStoreSpec == BS!Spec


(***************************************************************************)
(* A lock this process holds is held through the file's open read-write   *)
(* handle, on a file that is on disk: open(), truncate(), close(), the     *)
(* lazy reopen and the destructor never leave a lock behind a handle they  *)
(* replaced or deleted, whichever of their open() and lock() calls failed. *)
(***************************************************************************)
LockHeldByHandle ==
  \A i \in Files : locked[i] => handle[i] = "rw" /\ exists[i]

(***************************************************************************)
(* Every change this process makes to a file is made under the file's    *)
(* lock (spec section 5: the exclusive lock keeps a second process from   *)
(* writing the same file).                                                *)
(***************************************************************************)
WriteHoldsLock ==
  [][\A i \in Files : content'[i] # content[i] => locked'[i]]_vars

(***************************************************************************)
(* After a restart, the blockNum_ that open() recovers from the file      *)
(* sizes lets readBlock() read back every block that holds data (spec     *)
(* section 6: "blockCount is recoverable on open by summing file sizes    *)
(* divided by block size"; section 3, invariant 5).  The open() meant is  *)
(* the first one of a new CheckpointFile object, none of whose files is   *)
(* named yet; a one-block read at b must pass readBlock()'s range check.  *)
(***************************************************************************)
OpenCoversData ==
  [][\A c, m \in BOOLEAN :
       (\A i \in Files : ~named[i]) /\ Open(c, m) /\ outcome' = "ok" =>
         \A b \in Blocks : Store[b] # Zero => ReadBlockAccepted(b, 1)']_vars

=============================================================================
