--------------------------- MODULE SimplefsBitmap ---------------------------
(***************************************************************************)
(* The block and inode bitmaps of a mounted simplefs: allocation, release, *)
(* online discard and FITRIM.  Every operation runs inside a journal       *)
(* handle and under bitmap_lock, so each is one step.  Callers are         *)
(* unconstrained here: PutBlocks and PutInode take any argument, and the   *)
(* checks of the code decide.                                              *)
(***************************************************************************)
EXTENDS SimplefsBitmapOps

CONSTANTS
    NrBlocks,      \* sbi->nr_blocks
    NrInodes,      \* sbi->nr_inodes
    RootDirBlock,  \* 1 + nr_istore_blocks + nr_ifree_blocks + nr_bfree_blocks
    JournalStart,  \* first block of the journal, which is the tail of the device
    Discard,       \* mount option discard: sbi->s_discard
    GranBlocks,    \* device discard granularity in blocks
    JournalErrors, \* journalling a bitmap block may fail
    MaxLen         \* longest run a caller asks for

ASSUME LayoutAssumption ==
    /\ NrBlocks \in Nat /\ NrInodes \in Nat
    /\ RootDirBlock \in Nat /\ JournalStart \in Nat
    /\ 0 < RootDirBlock /\ RootDirBlock < JournalStart
    /\ JournalStart <= NrBlocks
    /\ 2 <= NrInodes
ASSUME ModeAssumption ==
    /\ Discard \in BOOLEAN /\ JournalErrors \in BOOLEAN
    /\ GranBlocks \in Nat \ {0} /\ MaxLen \in Nat

VARIABLES
    s_journal,        \* the mount has a JBD2 journal: sbi->s_journal (not nojournal)
    bfree_bitmap,     \* blocks whose bit is one
    nr_free_blocks,
    ifree_bitmap,     \* inode numbers whose bit is one
    nr_free_inodes,
    discard_pending,  \* blocks freed since the last discard pass
    s_shutdown,
    journal_held,     \* blocks JBD2 still holds: prepare_new_blocks says -EAGAIN
    discarded         \* the discard requests of the last step: who and which blocks

bitmapVars == <<s_journal, bfree_bitmap, nr_free_blocks, ifree_bitmap, nr_free_inodes,
                discard_pending>>
allocatorVars == <<bitmapVars, s_shutdown, journal_held, discarded>>

Block == 0 .. NrBlocks - 1
Inode == 0 .. NrInodes - 1

NoDiscard == [by |-> "none", blocks |-> {}]

BitmapTypeOK ==
    /\ s_journal \in BOOLEAN
    /\ bfree_bitmap \subseteq Block
    /\ nr_free_blocks \in Nat
    /\ ifree_bitmap \subseteq Inode
    /\ nr_free_inodes \in Nat
    /\ discard_pending \subseteq Block
    /\ s_shutdown \in BOOLEAN
    /\ journal_held \subseteq Block
    /\ discarded \in [by : {"none", "pending", "trim"}, blocks : SUBSET Block]

(***************************************************************************)
(* simplefs_fill_super on a fresh image: the data blocks after the root    *)
(* directory block and before the journal are free, inodes 0 and 1 are     *)
(* reserved, and both counts are the weights of the bitmaps.               *)
(***************************************************************************)
BitmapInit ==
    /\ bfree_bitmap = (RootDirBlock + 1) .. (JournalStart - 1)
    /\ nr_free_blocks = JournalStart - RootDirBlock - 1
    /\ ifree_bitmap = 2 .. (NrInodes - 1)
    /\ nr_free_inodes = NrInodes - 2
    /\ discard_pending = {}

AllocatorInit ==
    /\ BitmapInit
    /\ s_journal \in BOOLEAN
    /\ s_shutdown = FALSE
    /\ journal_held = {}
    /\ discarded = NoDiscard
-----------------------------------------------------------------------------
(***************************************************************************)
(* The bitmap updates the operations share.                                *)
(***************************************************************************)
TakeBlocks_OffByOne(run) ==      \* mutant: the count drops by one too many
    /\ bfree_bitmap' = bfree_bitmap \ run
    /\ nr_free_blocks' = nr_free_blocks - Cardinality(run) - 1
    /\ discard_pending' = discard_pending \ run
    /\ UNCHANGED <<ifree_bitmap, nr_free_inodes>>

TakeBlocks(run) ==
    /\ bfree_bitmap' = bfree_bitmap \ run
    /\ nr_free_blocks' = nr_free_blocks - Cardinality(run)
    /\ discard_pending' = discard_pending \ run
    /\ UNCHANGED <<ifree_bitmap, nr_free_inodes>>

GiveBlocks(run, pending) ==
    /\ bfree_bitmap' = bfree_bitmap \cup run
    /\ nr_free_blocks' = nr_free_blocks + Cardinality(run)
    /\ discard_pending' = pending
    /\ UNCHANGED <<ifree_bitmap, nr_free_inodes>>

MayPutBlocks_NoDoubleFree(b, len) ==   \* mutant: the test of the bits is missing
    ValidRun(b, len, NrBlocks) /\ RootDirBlock \notin Run(b, len)

(* The refusals of __simplefs_put_blocks: range, root directory, double free. *)
MayPutBlocks(b, len) ==
    /\ ValidRun(b, len, NrBlocks)
    /\ RootDirBlock \notin Run(b, len)
    /\ Run(b, len) \cap bfree_bitmap = {}

(***************************************************************************)
(* simplefs_persist_bitmap: journalling the changed bitmap block can fail, *)
(* which aborts the journal and shuts the filesystem down while the bits   *)
(* keep their new value.                                                   *)
(***************************************************************************)
PersistBitmap ==
    /\ s_shutdown' \in (IF s_journal /\ JournalErrors THEN BOOLEAN ELSE {s_shutdown})
    /\ UNCHANGED s_journal

(***************************************************************************)
(* A pass of simplefs_issue_pending_discards that the device cuts short at *)
(* bit stop, the start of the run it refused (NrBlocks: none refused).     *)
(***************************************************************************)
DiscardStops(live) ==
    {s \in 0 .. NrBlocks : s = NrBlocks \/ (s \in live /\ s - 1 \notin live)}

DiscardSet_Unaligned(live, stop) == {b \in live : b < stop}   \* mutant: edges not rounded

DiscardSet(live, stop) == {b \in UnitsInside(live, GranBlocks) : b < stop}

PendingAfter(free, pending, stop) ==
    LET live == pending \cap free
    IN  {b \in pending : b >= stop \/ b \in live} \ DiscardSet(live, stop)

IssuePending(free, pending) ==
    \E stop \in DiscardStops(pending \cap free) :
        /\ discard_pending' = PendingAfter(free, pending, stop)
        /\ discarded' = [by |-> "pending",
                         blocks |-> DiscardSet(pending \cap free, stop)]
-----------------------------------------------------------------------------
(* __simplefs_get_free_blocks; a failed search changes nothing. *)
GetFreeBlocks(len) ==
    /\ ~s_shutdown
    /\ LET b == AllocStart(bfree_bitmap, journal_held, len)
       IN  /\ b # 0
           /\ TakeBlocks(Run(b, len))
    /\ PersistBitmap
    /\ discarded' = NoDiscard
    /\ UNCHANGED journal_held

(* simplefs_take_exact_blocks *)
TakeExactBlocks(b, len) ==
    /\ ~s_shutdown
    /\ ValidRun(b, len, NrBlocks)
    /\ Run(b, len) \subseteq bfree_bitmap
    /\ Run(b, len) \cap journal_held = {}
    /\ TakeBlocks(Run(b, len))
    /\ PersistBitmap
    /\ discarded' = NoDiscard
    /\ UNCHANGED journal_held

(* Without a journal the discard pass follows the free at once; with one it waits. *)
DiscardAtOnce_Always == Discard   \* mutant

DiscardAtOnce == Discard /\ ~s_journal

(* __simplefs_put_blocks *)
PutBlocks(b, len) ==
    /\ ~s_shutdown
    /\ MayPutBlocks(b, len)
    /\ LET run     == Run(b, len)
           free    == bfree_bitmap \cup run
           pending == IF Discard THEN discard_pending \cup run ELSE discard_pending
       IN  \/ /\ DiscardAtOnce
              /\ bfree_bitmap' = free
              /\ nr_free_blocks' = nr_free_blocks + len
              /\ UNCHANGED <<ifree_bitmap, nr_free_inodes>>
              /\ IssuePending(free, pending)
           \/ /\ ~DiscardAtOnce
              /\ GiveBlocks(run, pending)
              /\ discarded' = NoDiscard
    /\ PersistBitmap
    /\ UNCHANGED journal_held

(***************************************************************************)
(* simplefs_retire_metadata_blocks in journal mode: every block is revoked *)
(* in the handle's transaction before its bit is freed, so JBD2 holds it   *)
(* until that transaction commits.                                         *)
(***************************************************************************)
RetireMetadataBlocks(b, len) ==
    /\ s_journal /\ ~s_shutdown
    /\ MayPutBlocks(b, len)
    /\ GiveBlocks(Run(b, len),
                  IF Discard THEN discard_pending \cup Run(b, len) ELSE discard_pending)
    /\ journal_held' = journal_held \cup Run(b, len)
    /\ discarded' = NoDiscard
    /\ PersistBitmap

GetFreeInode ==
    /\ ~s_shutdown
    /\ LET ino == FirstRun(ifree_bitmap, 1, 0)
       IN  /\ ino # 0
           /\ ifree_bitmap' = ifree_bitmap \ {ino}
    /\ nr_free_inodes' = nr_free_inodes - 1
    /\ PersistBitmap
    /\ discarded' = NoDiscard
    /\ UNCHANGED <<bfree_bitmap, nr_free_blocks, discard_pending, journal_held>>

PutInode(ino) ==
    /\ ~s_shutdown
    /\ 0 < ino /\ ino < NrInodes /\ ino \notin ifree_bitmap
    /\ ifree_bitmap' = ifree_bitmap \cup {ino}
    /\ nr_free_inodes' = nr_free_inodes + 1
    /\ PersistBitmap
    /\ discarded' = NoDiscard
    /\ UNCHANGED <<bfree_bitmap, nr_free_blocks, discard_pending, journal_held>>

(***************************************************************************)
(* simplefs_journal_force_commit: the commit record is durable, JBD2 lets  *)
(* go of the revoked blocks, and the pending discards are issued.          *)
(***************************************************************************)
ForceCommit ==
    /\ s_journal /\ ~s_shutdown
    /\ journal_held' = {}
    /\ \/ Discard /\ discard_pending # {} /\ IssuePending(bfree_bitmap, discard_pending)
       \/ /\ ~(Discard /\ discard_pending # {})
          /\ discarded' = NoDiscard
          /\ UNCHANGED discard_pending
    /\ UNCHANGED <<s_journal, bfree_bitmap, nr_free_blocks, ifree_bitmap, nr_free_inodes,
                   s_shutdown>>

(* simplefs_trim_fs over start .. end - 1, cut short before block stop. *)
TrimFs(start, end, minlen) ==
    /\ LET runs == LongRuns(bfree_bitmap \cap (start .. end - 1), minlen)
       IN  \E stop \in DiscardStops(runs) :
              discarded' = [by |-> "trim", blocks |-> {b \in runs : b < stop}]
    /\ UNCHANGED <<bitmapVars, s_shutdown, journal_held>>
-----------------------------------------------------------------------------
AllocatorNext ==
    \/ \E len \in 1 .. MaxLen :
          \/ GetFreeBlocks(len)
          \/ \E b \in Block : TakeExactBlocks(b, len) \/ PutBlocks(b, len)
                              \/ RetireMetadataBlocks(b, len)
          \/ \E start \in Block, end \in 1 .. NrBlocks : TrimFs(start, end, len)
    \/ GetFreeInode
    \/ \E ino \in 0 .. NrInodes : PutInode(ino)
    \/ ForceCommit

AllocatorSpec == AllocatorInit /\ [][AllocatorNext]_allocatorVars
-----------------------------------------------------------------------------
(***************************************************************************)
(* nr_free_blocks and nr_free_inodes are caches of the bitmap weights: on  *)
(* every path, the refused, failed and shut down ones included, they agree *)
(* with the bits, so neither count ever wraps below zero.                  *)
(***************************************************************************)
CountsMatchBitmaps ==
    /\ nr_free_blocks = Cardinality(bfree_bitmap)
    /\ nr_free_inodes = Cardinality(ifree_bitmap)

(***************************************************************************)
(* A pending discard belongs to the present free lifetime of its block:    *)
(* both allocators cancel it, so the discard pass never finds a pending    *)
(* block in use.                                                           *)
(***************************************************************************)
PendingIsFree == discard_pending \subseteq bfree_bitmap

(***************************************************************************)
(* No sequence of frees, whatever its arguments, makes the root directory  *)
(* block, block 0 or inode 0 allocatable.                                  *)
(***************************************************************************)
ReservedStayUsed ==
    /\ RootDirBlock \notin bfree_bitmap
    /\ 0 \notin bfree_bitmap
    /\ 0 \notin ifree_bitmap

(***************************************************************************)
(* The online discard pass never reaches a block in use, even on a device  *)
(* that deallocates whole units around what it is sent                     *)
(* (simplefs_issue_pending_discards).                                      *)
(***************************************************************************)
PendingDiscardSparesLive ==
    discarded.by = "pending" =>
        UnitsTouched(discarded.blocks, GranBlocks) \subseteq bfree_bitmap

(***************************************************************************)
(* A block JBD2 still holds is not handed out: allocation leaves the held  *)
(* blocks free until the commit that lets them go.                         *)
(***************************************************************************)
HeldStayFree == journal_held \subseteq bfree_bitmap
=============================================================================
