---------------------------- MODULE SimplefsSpace ----------------------------
(***************************************************************************)
(* Who owns which block: the files' extent trees, the allocator of         *)
(* SimplefsBitmap, the JBD2 metadata journal and the device, with crashes. *)
(*                                                                         *)
(* Journal handles are serialised by j_handle_mutex and a commit waits for *)
(* the open handle, so what one handle does to the metadata is one step.   *)
(* An operation that uses several handles (allocate, then publish;         *)
(* unpublish, then free) is several steps under the inode's extent_lock,   *)
(* which op records.  File data goes straight to the device.               *)
(***************************************************************************)
EXTENDS SimplefsBitmap

CONSTANT Workload   \* the operations and events of the run, a subset of Ops

Allocs == {"buffered", "direct", "fallocate"}   \* who calls simplefs_get_block
Ops == Allocs \cup {"create", "evict", "truncate", "punch", "meta", "write", "trim",
                   "kjournald", "fsync", "fail", "zeroout_error", "crash"}
ASSUME WorkloadAssumption == Workload \subseteq Ops

VARIABLES
    metas,       \* the metadata blocks of each inode: root, leaves, directory, xattr
    unwritten,   \* data blocks mapped by unwritten extents
    written,     \* data blocks mapped by written extents
    op,          \* what the holder of the inode's extent_lock has in hand
    io,          \* blocks with a data bio in flight
    converting,  \* unwritten blocks whose bio is done and whose ioend work is queued
    txn,         \* the running transaction: metadata blocks dirtied, revoked, forgotten
    committing,  \* the transaction being committed and the metadata image it makes durable
    durable,     \* the metadata image a recovery restores
    log,         \* committed block images the journal still holds for replay
    disk,        \* what each block holds on the device
    synced       \* blocks whose data the last fsync of the inode promised

fileVars == <<metas, unwritten, written>>
ioVars == <<io, converting>>
logVars == <<committing, durable, log>>
spaceVars == <<allocatorVars, fileVars, op, ioVars, txn, logVars, disk, synced>>

File == Inode \ {0, 1}
DataArea == (RootDirBlock + 1) .. (JournalStart - 1)

Blank == <<0, "none">>           \* zeroes, or nothing yet
Meta(f) == <<f, "meta">>
Data(f) == <<f, "data">>
Tag == {Blank} \cup (File \X {"meta", "data"})

Idle == [kind |-> "idle", by |-> "none", blocks |-> {}]
EmptyTxn == [dirtied |-> {}, revoked |-> {}, forgotten |-> {}]

Image == [bfree |-> bfree_bitmap, ifree |-> ifree_bitmap, metas |-> metas,
          unwritten |-> unwritten, written |-> written]
Images == [bfree : SUBSET Block, ifree : SUBSET Inode, metas : [File -> SUBSET Block],
           unwritten : [File -> SUBSET Block], written : [File -> SUBSET Block]]
Txns == [dirtied : SUBSET Block, revoked : SUBSET Block, forgotten : SUBSET Block]

TypeOK ==
    /\ BitmapTypeOK
    /\ metas \in [File -> SUBSET Block]
    /\ unwritten \in [File -> SUBSET Block]
    /\ written \in [File -> SUBSET Block]
    /\ op \in [File -> [kind : {"idle", "alloc", "grow", "free"}, by : Allocs \cup {"none"},
                        blocks : SUBSET Block]]
    /\ io \in [File -> SUBSET Block]
    /\ converting \in [File -> SUBSET Block]
    /\ txn \in Txns
    /\ committing \in [active : BOOLEAN, img : Images, txn : Txns]
    /\ durable \in Images
    /\ log \in [Block -> Tag]
    /\ disk \in [Block -> Tag]
    /\ synced \in [File -> SUBSET Block]

NoBlocks == [f \in File |-> {}]

Init ==
    /\ AllocatorInit /\ s_journal
    /\ metas = NoBlocks /\ unwritten = NoBlocks /\ written = NoBlocks
    /\ op = [f \in File |-> Idle]
    /\ io = NoBlocks /\ converting = NoBlocks
    /\ txn = EmptyTxn
    /\ durable = Image
    /\ committing = [active |-> FALSE, img |-> Image, txn |-> EmptyTxn]
    /\ log = [b \in Block |-> Blank]
    /\ disk = [b \in Block |-> Blank]
    /\ synced = NoBlocks
-----------------------------------------------------------------------------
Live(f) == metas[f] # {}
Mapped(f) == unwritten[f] \cup written[f]
InFlight(f) == io[f] \cup converting[f]

(* Some metadata blocks of f, the root among them, are rewritten in the handle. *)
DirtyTree(f, blocks) ==
    \E changed \in (SUBSET blocks) \ {{}} :
        txn' = [txn EXCEPT !.dirtied = @ \cup changed]

(* The block map of an inode without some blocks. *)
Drop_Nothing(map, f, gone) == map   \* mutant: the tree keeps its pointers

Drop(map, f, gone) == [map EXCEPT ![f] = @ \ gone]

(***************************************************************************)
(* jbd2_journal_revoke: the block's buffer is flagged revoked; when it     *)
(* still has a journal_head it also stays with the transaction (forgotten) *)
(* until the commit is over.                                               *)
(***************************************************************************)
HasJournalHead(b) == log[b] # Blank \/ b \in committing.txn.dirtied

Revoke_Nothing(t, blocks) == t   \* mutant: blocks are freed without a revoke

Revoke(t, blocks) ==
    [dirtied   |-> t.dirtied \ blocks,
     revoked   |-> t.revoked \cup blocks,
     forgotten |-> t.forgotten \cup {b \in blocks : HasJournalHead(b)}]

Pending(blocks) == IF Discard THEN discard_pending \cup blocks ELSE discard_pending

Zeroed(blocks) == [b \in Block |-> IF b \in blocks THEN Blank ELSE disk[b]]

WithoutShutdown == ~s_shutdown /\ discarded' = NoDiscard
-----------------------------------------------------------------------------
(* A new metadata block is dirtied in the handle, unless allocating it failed. *)
AttachMeta(f, b) ==
    IF s_shutdown' THEN UNCHANGED <<metas, txn>>
    ELSE /\ metas' = [metas EXCEPT ![f] = @ \cup {b}]
         /\ txn' = [txn EXCEPT !.dirtied = @ \cup {b}]

(***************************************************************************)
(* simplefs_new_inode inside the create handle: an inode number, a root    *)
(* block journalled as metadata, the inode record.                         *)
(***************************************************************************)
Create ==
    /\ "create" \in Workload
    /\ WithoutShutdown
    /\ PersistBitmap
    /\ LET f == FirstRun(ifree_bitmap, 1, 0)
           b == AllocStart(bfree_bitmap, journal_held, 1)
       IN  /\ f # 0 /\ b # 0
           /\ ifree_bitmap' = ifree_bitmap \ {f}
           /\ bfree_bitmap' = bfree_bitmap \ {b}
           /\ discard_pending' = discard_pending \ {b}
           /\ AttachMeta(f, b)
    /\ nr_free_inodes' = nr_free_inodes - 1
    /\ nr_free_blocks' = nr_free_blocks - 1
    /\ UNCHANGED <<journal_held, unwritten, written, op, ioVars, logVars, disk, synced>>

(***************************************************************************)
(* A metadata block joins the tree in the handle that allocates it: an     *)
(* extent leaf, a directory block, an xattr block.                         *)
(***************************************************************************)
AddMeta(f) ==
    /\ "meta" \in Workload /\ Live(f) /\ op[f] = Idle
    /\ LET b == AllocStart(bfree_bitmap, journal_held, 1)
       IN  /\ GetFreeBlocks(1)
           /\ AttachMeta(f, b)
    /\ UNCHANGED <<unwritten, written, op, ioVars, logVars, disk, synced>>

(* A leaf or directory block leaves the tree in the handle that retires it. *)
RetireMeta(f, b) ==
    /\ "meta" \in Workload /\ op[f] = Idle
    /\ b \in metas[f] /\ metas[f] # {b}
    /\ RetireMetadataBlocks(b, 1)
    /\ metas' = Drop(metas, f, {b})
    /\ \E changed \in (SUBSET (metas[f] \ {b})) \ {{}} :
          txn' = [Revoke(txn, {b}) EXCEPT !.dirtied = @ \cup changed]
    /\ UNCHANGED <<unwritten, written, op, ioVars, logVars, disk, synced>>
-----------------------------------------------------------------------------
(***************************************************************************)
(* simplefs_get_block, the allocating handle.  Buffered and mmap writes    *)
(* zero the run and publish it written, fallocate zeroes it and publishes  *)
(* it unwritten, direct I/O only publishes it unwritten.                   *)
(***************************************************************************)
AllocBlocks(f, len, by) ==
    /\ by \in Workload
    /\ Live(f) /\ op[f] = Idle
    /\ LET b == AllocStart(bfree_bitmap, journal_held, len)
       IN  /\ GetFreeBlocks(len)
           /\ op' = IF s_shutdown' THEN op
                    ELSE [op EXCEPT ![f] = [kind |-> "alloc", by |-> by,
                                            blocks |-> Run(b, len)]]
    /\ UNCHANGED <<fileVars, ioVars, txn, logVars, disk, synced>>

(* The same, growing an extent of the same kind in place. *)
GrowExtent(f, last, len, by) ==
    /\ by \in Workload
    /\ op[f] = Idle
    /\ last \in (IF by = "buffered" THEN written[f] ELSE unwritten[f])
    /\ TakeExactBlocks(last + 1, len)
    /\ op' = IF s_shutdown' THEN op
             ELSE [op EXCEPT ![f] = [kind |-> "grow", by |-> by,
                                     blocks |-> Run(last + 1, len)]]
    /\ UNCHANGED <<fileVars, ioVars, txn, logVars, disk, synced>>

(***************************************************************************)
(* The rest of simplefs_get_block: exact_alloc zeroes the run on disk,     *)
(* then simplefs_file_sync_extents publishes it.  The first-fit path       *)
(* ignores a zeroout error.                                                *)
(***************************************************************************)
ExactAlloc(f) == op[f].by \in {"buffered", "fallocate"}

ZeroOut_Skipped(f) == op[f] = op[f] /\ UNCHANGED disk   \* mutant

ZeroOut(f) ==
    \/ disk' = IF ExactAlloc(f) THEN Zeroed(op[f].blocks) ELSE disk
    \/ "zeroout_error" \in Workload /\ op[f].kind = "alloc" /\ UNCHANGED disk

Publish(f) ==
    /\ WithoutShutdown
    /\ op[f].kind \in {"alloc", "grow"}
    /\ ZeroOut(f)
    /\ IF op[f].by = "buffered"
       THEN /\ written' = [written EXCEPT ![f] = @ \cup op[f].blocks]
            /\ UNCHANGED unwritten
       ELSE /\ unwritten' = [unwritten EXCEPT ![f] = @ \cup op[f].blocks]
            /\ UNCHANGED written
    /\ DirtyTree(f, metas[f])
    /\ op' = [op EXCEPT ![f] = Idle]
    /\ UNCHANGED <<bitmapVars, s_shutdown, journal_held, metas, ioVars, logVars, synced>>

PutBack(f) ==
    \E b \in Block, len \in 1 .. MaxLen : Run(b, len) = op[f].blocks /\ PutBlocks(b, len)

(***************************************************************************)
(* simplefs_file_sync_extents failed before it changed anything (no leaf,  *)
(* no memory): the first-fit path puts the run back, the in-place growth   *)
(* path just returns.  Growth does put it back when the zeroout fails.     *)
(***************************************************************************)
PublishFails(f) ==
    /\ op[f].kind \in {"alloc", "grow"}
    /\ \/ /\ "fail" \in Workload
          /\ disk' = IF ExactAlloc(f) THEN Zeroed(op[f].blocks) ELSE disk
          /\ \/ op[f].kind = "alloc" /\ PutBack(f)
             \/ op[f].kind = "grow" /\ WithoutShutdown
                                    /\ UNCHANGED <<bitmapVars, s_shutdown, journal_held>>
       \/ /\ "zeroout_error" \in Workload /\ op[f].kind = "grow" /\ ExactAlloc(f)
          /\ PutBack(f) /\ UNCHANGED disk
    /\ op' = [op EXCEPT ![f] = Idle]
    /\ UNCHANGED <<fileVars, ioVars, txn, logVars, synced>>

(***************************************************************************)
(* simplefs_truncate and simplefs_fallocate_punch_hole: the tree without   *)
(* the range is published first.  Truncation has emptied the page cache    *)
(* and waited for writeback and ioend work; punch_hole zeroes the range in *)
(* the page cache after its wait, so a bio of that range may be in flight. *)
(***************************************************************************)
MayUnpublish_NoWait(f, gone) == Workload \cap {"truncate", "punch"} # {}   \* mutant

MayUnpublish(f, gone) ==
    \/ "truncate" \in Workload /\ gone \cap InFlight(f) = {}
    \/ "punch" \in Workload

Unpublish(f, gone) ==
    /\ WithoutShutdown
    /\ op[f] = Idle
    /\ gone \subseteq Mapped(f) /\ gone # {}
    /\ MayUnpublish(f, gone)
    /\ unwritten' = Drop(unwritten, f, gone)
    /\ written' = Drop(written, f, gone)
    /\ synced' = Drop(synced, f, gone)
    /\ DirtyTree(f, metas[f])
    /\ op' = [op EXCEPT ![f] = [kind |-> "free", by |-> "none", blocks |-> gone]]
    /\ UNCHANGED <<bitmapVars, s_shutdown, journal_held, metas, ioVars, logVars, disk>>

(* Then put_blocks frees the recorded ranges, one handle each. *)
FreeRange(f, b, len) ==
    /\ op[f].kind = "free"
    /\ Run(b, len) \subseteq op[f].blocks
    /\ PutBlocks(b, len)
    /\ op' = [op EXCEPT ![f] = IF op[f].blocks = Run(b, len) THEN Idle
                               ELSE [kind |-> "free", by |-> "none",
                                     blocks |-> op[f].blocks \ Run(b, len)]]
    /\ UNCHANGED <<fileVars, ioVars, txn, logVars, disk, synced>>

(* What simplefs_evict_inode gives back. *)
EvictBlocks_ForgetUnwritten(f) == metas[f] \cup written[f]   \* mutant

EvictBlocks(f) == metas[f] \cup Mapped(f)

(***************************************************************************)
(* simplefs_evict_inode of an unlinked inode, one handle: data blocks are  *)
(* freed, metadata blocks revoked and freed, the inode number returned.  A *)
(* journal failure on the way leaves the rest of the blocks allocated.     *)
(***************************************************************************)
Evict(f) ==
    /\ "evict" \in Workload
    /\ WithoutShutdown
    /\ Live(f) /\ op[f] = Idle /\ InFlight(f) = {}
    /\ PersistBitmap
    /\ \E freed \in IF s_shutdown' THEN SUBSET EvictBlocks(f) ELSE {EvictBlocks(f)} :
          /\ bfree_bitmap' = bfree_bitmap \cup freed
          /\ nr_free_blocks' = nr_free_blocks + Cardinality(freed)
          /\ discard_pending' = Pending(freed)
    /\ ifree_bitmap' = IF s_shutdown' THEN ifree_bitmap ELSE ifree_bitmap \cup {f}
    /\ nr_free_inodes' = IF s_shutdown' THEN nr_free_inodes ELSE nr_free_inodes + 1
    /\ journal_held' = journal_held \cup metas[f]
    /\ txn' = Revoke(txn, metas[f])
    /\ metas' = [metas EXCEPT ![f] = {}]
    /\ unwritten' = [unwritten EXCEPT ![f] = {}]
    /\ written' = [written EXCEPT ![f] = {}]
    /\ synced' = [synced EXCEPT ![f] = {}]
    /\ UNCHANGED <<op, ioVars, logVars, disk>>
-----------------------------------------------------------------------------
(* Data I/O: a bio for a mapped block, its completion, the ioend work. *)
SubmitBio(f, b) ==
    /\ "write" \in Workload
    /\ WithoutShutdown
    /\ op[f] = Idle                  \* the mapping is looked up under extent_lock
    /\ b \in Mapped(f) \ InFlight(f)
    /\ io' = [io EXCEPT ![f] = @ \cup {b}]
    /\ UNCHANGED <<bitmapVars, s_shutdown, journal_held, fileVars, op, converting, txn,
                   logVars, disk, synced>>

EndBio(f, b) ==
    /\ b \in io[f]
    /\ disk' = [disk EXCEPT ![b] = Data(f)]
    /\ io' = [io EXCEPT ![f] = @ \ {b}]
    /\ converting' = [converting EXCEPT ![f] = IF b \in unwritten[f] THEN @ \cup {b} ELSE @]
    /\ discarded' = NoDiscard
    /\ UNCHANGED <<bitmapVars, s_shutdown, journal_held, fileVars, op, txn, logVars, synced>>

(* simplefs_finish_ioend_work: convert the range in a handle of its own. *)
FinishIoend(f, b) ==
    /\ WithoutShutdown
    /\ op[f] = Idle
    /\ b \in converting[f]
    /\ converting' = [converting EXCEPT ![f] = @ \ {b}]
    /\ \/ /\ b \in unwritten[f]
          /\ unwritten' = [unwritten EXCEPT ![f] = @ \ {b}]
          /\ written' = [written EXCEPT ![f] = @ \cup {b}]
          /\ DirtyTree(f, metas[f])
       \/ b \notin unwritten[f] /\ UNCHANGED <<unwritten, written, txn>>
    /\ UNCHANGED <<bitmapVars, s_shutdown, journal_held, metas, op, io, logVars, disk, synced>>
-----------------------------------------------------------------------------
(* JBD2.  What the commit record of t makes replayable, given the log so far. *)
LogAfter(img, t) ==
    [b \in Block |->
        IF \E f \in File : b \in t.dirtied \cap img.metas[f]
        THEN Meta(CHOOSE f \in File : b \in img.metas[f])
        ELSE IF b \in t.revoked THEN Blank ELSE log[b]]

(***************************************************************************)
(* The commit thread closes the running transaction: the revoked flags are *)
(* cleared as the next transaction opens, the forgotten buffers stay held. *)
(***************************************************************************)
CommitStart ==
    /\ "kjournald" \in Workload
    /\ WithoutShutdown
    /\ ~committing.active
    /\ committing' = [active |-> TRUE, img |-> Image, txn |-> txn]
    /\ journal_held' = txn.forgotten
    /\ txn' = EmptyTxn
    /\ UNCHANGED <<bitmapVars, s_shutdown, fileVars, op, ioVars, durable, log, disk, synced>>

CommitDone ==
    /\ committing.active
    /\ durable' = committing.img
    /\ log' = LogAfter(committing.img, committing.txn)
    /\ journal_held' = txn.revoked
    /\ committing' = [active |-> FALSE, img |-> committing.img, txn |-> EmptyTxn]
    /\ discarded' = NoDiscard
    /\ UNCHANGED <<bitmapVars, s_shutdown, fileVars, op, ioVars, txn, disk, synced>>

(* A buffer goes home unless a transaction still has it. *)
Checkpoint(b) ==
    /\ log[b] # Blank
    /\ \A t \in {txn, committing.txn} : b \notin t.dirtied \cup t.revoked
    /\ disk' = [disk EXCEPT ![b] = log[b]]
    /\ log' = [log EXCEPT ![b] = Blank]
    /\ discarded' = NoDiscard
    /\ UNCHANGED <<bitmapVars, s_shutdown, journal_held, fileVars, op, ioVars, txn,
                   committing, durable, synced>>

(* What a forced commit makes durable. *)
ForcedImage_Stale == committing.img   \* mutant: only an earlier commit is waited for

ForcedImage == Image

(***************************************************************************)
(* simplefs_journal_force_commit, which holds j_handle_mutex across the    *)
(* commit and the discard pass.  fs is the inode whose fsync called it     *)
(* (its data written and converted), or empty for sync_fs.                 *)
(***************************************************************************)
SyncCommit(fs) ==
    /\ "fsync" \in Workload
    /\ ~s_shutdown
    /\ ~committing.active
    /\ \A f \in fs : InFlight(f) = {}
    /\ ForceCommit
    /\ durable' = ForcedImage
    /\ log' = LogAfter(ForcedImage, txn)
    /\ committing' = [active |-> FALSE, img |-> ForcedImage, txn |-> EmptyTxn]
    /\ txn' = EmptyTxn
    /\ disk' = Zeroed(discarded'.blocks)
    /\ synced' = [f \in File |-> IF f \in fs THEN {b \in written[f] : disk[b] = Data(f)}
                                 ELSE synced[f]]
    /\ UNCHANGED <<fileVars, op, ioVars>>

(* FITRIM looks at the bitmap only. *)
Trim ==
    /\ "trim" \in Workload
    /\ TrimFs(0, NrBlocks, 1)
    /\ disk' = Zeroed(discarded'.blocks)
    /\ UNCHANGED <<fileVars, op, ioVars, txn, logVars, synced>>

(* simplefs_journal_fail after a partial update: nothing commits any more. *)
JournalFail ==
    /\ "fail" \in Workload
    /\ WithoutShutdown
    /\ s_shutdown' = TRUE
    /\ UNCHANGED <<bitmapVars, journal_held, fileVars, op, ioVars, txn, logVars, disk, synced>>

(* The block bitmap a mount works with: read again after the replay. *)
RecoveredBitmap_Stale == bfree_bitmap   \* mutant: the copy from before the replay

RecoveredBitmap == durable.bfree

(***************************************************************************)
(* Power loss, then a mount that replays the journal and reloads the       *)
(* bitmaps and their weights (simplefs_journal_load, simplefs_fill_super). *)
(***************************************************************************)
Crash ==
    /\ "crash" \in Workload
    /\ bfree_bitmap' = RecoveredBitmap
    /\ nr_free_blocks' = Cardinality(RecoveredBitmap)
    /\ ifree_bitmap' = durable.ifree
    /\ nr_free_inodes' = Cardinality(durable.ifree)
    /\ discard_pending' = {}
    /\ s_shutdown' = FALSE
    /\ journal_held' = {}
    /\ discarded' = NoDiscard
    /\ metas' = durable.metas
    /\ unwritten' = durable.unwritten
    /\ written' = durable.written
    /\ op' = [f \in File |-> Idle]
    /\ io' = NoBlocks /\ converting' = NoBlocks
    /\ txn' = EmptyTxn
    /\ committing' = [active |-> FALSE, img |-> durable, txn |-> EmptyTxn]
    /\ disk' = [b \in Block |-> IF log[b] # Blank THEN log[b] ELSE disk[b]]
    /\ log' = [b \in Block |-> Blank]
    /\ UNCHANGED <<s_journal, durable, synced>>
-----------------------------------------------------------------------------
FileStep(f) ==
    \/ AddMeta(f)
    \/ \E b \in Block : RetireMeta(f, b) \/ SubmitBio(f, b) \/ EndBio(f, b) \/ FinishIoend(f, b)
    \/ \E len \in 1 .. MaxLen, by \in Allocs :
          \/ AllocBlocks(f, len, by)
          \/ \E last \in Block : GrowExtent(f, last, len, by)
    \/ \E gone \in SUBSET Block : Unpublish(f, gone)
    \/ \E b \in Block, len \in 1 .. NrBlocks : FreeRange(f, b, len)
    \/ Publish(f) \/ PublishFails(f) \/ Evict(f)

JournalStep ==
    \/ CommitStart \/ CommitDone
    \/ \E b \in Block : Checkpoint(b)
    \/ \E fs \in {{}} \cup {{f} : f \in File} : SyncCommit(fs)
    \/ JournalFail \/ Crash

Next == Create \/ (\E f \in File : FileStep(f)) \/ JournalStep \/ Trim

Spec == Init /\ [][Next]_spaceVars
-----------------------------------------------------------------------------
Owned(img, f) == img.metas[f] \cup img.unwritten[f] \cup img.written[f]

(* One image: no block is free and owned, or owned twice, or outside the data area. *)
SoundImage(img) ==
    /\ img.bfree \subseteq DataArea
    /\ img.ifree \subseteq File
    /\ \A f \in File :
          /\ Owned(img, f) \subseteq DataArea \ img.bfree
          /\ img.metas[f] \cap (img.unwritten[f] \cup img.written[f]) = {}
          /\ img.unwritten[f] \cap img.written[f] = {}
          /\ f \in img.ifree => Owned(img, f) = {}
    /\ \A f, g \in File : f # g => Owned(img, f) \cap Owned(img, g) = {}

(***************************************************************************)
(* A block has one owner at most.  In memory, in the transaction being     *)
(* committed and in what a recovery restores, no block is free and mapped, *)
(* or mapped twice, whatever step the crash falls between: an interrupted  *)
(* operation leaks blocks and never shares them.                           *)
(***************************************************************************)
SingleOwner == SoundImage(Image) /\ SoundImage(committing.img) /\ SoundImage(durable)
(***************************************************************************)
(* Without a crash or an error nothing is lost either: every block of the  *)
(* data area is free, owned, or in the hands of an operation under way.    *)
(***************************************************************************)
NothingLost ==
    ~s_shutdown => DataArea \subseteq
        bfree_bitmap \cup UNION {Owned(Image, f) \cup op[f].blocks : f \in File}

(***************************************************************************)
(* The data bios in flight go to blocks their inode still maps, so no late *)
(* writeback lands on a block that was freed or given to another file.     *)
(***************************************************************************)
BioHitsOwner == \A f \in File : InFlight(f) \subseteq Mapped(f)

(***************************************************************************)
(* A read of a written extent finds the file's own data or zeroes, never   *)
(* what an earlier owner of the block left there: zeroing precedes         *)
(* publishing and the bio precedes the conversion.                         *)
(***************************************************************************)
OwnDataOnly == \A f \in File : \A b \in written[f] : disk[b] \in {Blank, Data(f)}

(***************************************************************************)
(* Replay writes only metadata blocks of the tree it recovers: a revoked   *)
(* block's older image is gone from the log once the revoke has committed, *)
(* so it cannot overwrite the data of the block's next owner.              *)
(***************************************************************************)
ReplayHitsOwner ==
    \A b \in Block : log[b] # Blank =>
        \E f \in File : log[b] = Meta(f) /\ b \in durable.metas[f]

(***************************************************************************)
(* Checkpointing never writes an old metadata image over a block that has  *)
(* left the tree (the comment of simplefs_retire_metadata_blocks).         *)
(***************************************************************************)
CheckpointHitsOwner ==
    \A b \in Block :
        log[b] # Blank /\ (\A t \in {txn, committing.txn} : b \notin t.dirtied \cup t.revoked)
            => \E f \in File : log[b] = Meta(f) /\ b \in metas[f]

(***************************************************************************)
(* What fsync promised survives: a synced block the file has not dropped   *)
(* since is durably mapped as written and holds the file's data.           *)
(***************************************************************************)
SyncedSurvives ==
    \A f \in File : \A b \in synced[f] :
        b \in durable.written[f] /\ b \in written[f] /\ disk[b] = Data(f)

(* No discard reaches a block that a recovery would still give to a file. *)
DiscardSparesDurable ==
    discarded.blocks \cap UNION {Owned(durable, f) : f \in File} = {}

(* The same, of the online discard that follows a forced commit. *)
OnlineDiscardSparesDurable == discarded.by = "pending" => DiscardSparesDurable

(***************************************************************************)
(* Every metadata block of the durable tree can be read back after a       *)
(* crash, from the log or from its home.                                   *)
(***************************************************************************)
DurableTreeReadable ==
    \A f \in File : \A b \in durable.metas[f] :
        (IF log[b] # Blank THEN log[b] ELSE disk[b]) = Meta(f)
=============================================================================
