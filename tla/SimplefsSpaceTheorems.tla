----------------------- MODULE SimplefsSpaceTheorems ------------------------
(***************************************************************************)
(* The theorems of the composition.  SimplefsSpaceProofs and               *)
(* SimplefsDataProofs show that steps preserve the owners, the log and the *)
(* data; here the allocator of SimplefsBitmap keeps what it promises with  *)
(* those callers, the initial states are added, and each result is stated  *)
(* of Spec.                                                                *)
(***************************************************************************)
EXTENDS SimplefsDataProofs, SimplefsBitmapProofs

(***************************************************************************)
(* The allocator inside the composition.  An eviction that a journal error *)
(* cuts short leaves revoked blocks in use, so what JBD2 holds is free on  *)
(* a filesystem that is not shut down.                                     *)
(***************************************************************************)
AllocInv ==
    /\ BitmapTypeOK /\ CountsMatchBitmaps
    /\ PendingIsFree /\ PendingDiscardSparesLive
    /\ s_journal
    /\ s_shutdown \/ HeldStayFree
    /\ txn \in Txns /\ txn.revoked \subseteq journal_held /\ txn.forgotten \subseteq txn.revoked

LEMMA AllocatorUp ==
    ASSUME ClaimsInv, AllocInv, ~s_shutdown
    PROVE  BitmapInv
<1>1. ReservedStayUsed
    BY LayoutAssumption DEF ClaimsInv, DataArea, File, ReservedStayUsed
<1> QED BY Zenon, <1>1 DEF AllocInv, BitmapInv

LEMMA BitmapGivesAlloc ==
    ASSUME BitmapInv', s_journal', txn' \in Txns,
           txn'.revoked \subseteq journal_held', txn'.forgotten \subseteq txn'.revoked
    PROVE  AllocInv'
BY Zenon DEF BitmapInv, AllocInv

(* A step that leaves the bitmaps alone and discards nothing. *)
LEMMA AllocFrame ==
    ASSUME AllocInv, UNCHANGED <<bitmapVars, s_shutdown>>, discarded' = NoDiscard,
           journal_held' \subseteq journal_held,
           txn' \in Txns, txn'.revoked \subseteq journal_held', txn'.forgotten \subseteq txn'.revoked
    PROVE  AllocInv'
<1>1. BitmapTypeOK'
    BY Zenon DEF AllocInv, BitmapTypeOK, bitmapVars, NoDiscard
<1>2. CountsMatchBitmaps' /\ PendingIsFree' /\ s_journal' /\ (s_shutdown' \/ HeldStayFree')
    BY Zenon DEF AllocInv, CountsMatchBitmaps, PendingIsFree, HeldStayFree, bitmapVars
<1>3. PendingDiscardSparesLive'
    BY Zenon DEF PendingDiscardSparesLive, NoDiscard
<1> QED BY Zenon, <1>1, <1>2, <1>3 DEF AllocInv

(* The calls of the allocator, as the composition makes them. *)
LEMMA GetKeepsAlloc ==
    ASSUME ClaimsInv, AllocInv, NEW len,
           GetFreeBlocks(len) \/ \E b \in Int : TakeExactBlocks(b, len),
           txn' \in Txns, txn'.revoked = txn.revoked, txn'.forgotten = txn.forgotten
    PROVE  AllocInv'
<1>1. ~s_shutdown /\ PersistBitmap /\ discarded' = NoDiscard /\ UNCHANGED journal_held
    BY Zenon DEF GetFreeBlocks, TakeExactBlocks
<1>2. BitmapInv
    BY Zenon, <1>1, AllocatorUp
<1>3. PICK run : run \subseteq bfree_bitmap \ journal_held /\ TakeBlocks(run)
    <2>1. CASE GetFreeBlocks(len)
        BY <2>1, FreeAreNumbers, AllocStartIsFree DEF GetFreeBlocks
    <2>2. CASE \E b \in Int : TakeExactBlocks(b, len)
        BY Zenon, <2>2 DEF TakeExactBlocks
    <2> QED BY Zenon, <2>1, <2>2
<1>4. BitmapInv'
    BY Zenon, <1>1, <1>2, <1>3, TakeBlocksSafe
<1>5. s_journal' /\ txn'.revoked \subseteq journal_held' /\ txn'.forgotten \subseteq txn'.revoked
    BY Zenon, <1>1 DEF AllocInv, PersistBitmap
<1> QED BY Zenon, <1>4, <1>5, BitmapGivesAlloc

LEMMA PutKeepsAlloc ==
    ASSUME ClaimsInv, AllocInv, NEW b \in Nat, NEW len \in Nat, PutBlocks(b, len), UNCHANGED txn
    PROVE  AllocInv'
<1>1. ~s_shutdown /\ PersistBitmap /\ UNCHANGED journal_held
    BY Zenon DEF PutBlocks
<1>2. BitmapInv'
    BY Zenon, <1>1, AllocatorUp, PutBlocksSafe
<1>3. s_journal' /\ txn' = txn
    BY Zenon, <1>1 DEF AllocInv, PersistBitmap
<1> QED BY Zenon, <1>1, <1>2, <1>3, BitmapGivesAlloc DEF AllocInv

LEMMA CreateKeepsAlloc ==
    ASSUME ClaimsInv, AllocInv, Create
    PROVE  AllocInv'
<1>1. PICK f \in ifree_bitmap, b \in bfree_bitmap \ journal_held :
          /\ ifree_bitmap' = ifree_bitmap \ {f} /\ bfree_bitmap' = bfree_bitmap \ {b}
          /\ discard_pending' = discard_pending \ {b} /\ AttachMeta(f, b)
    <2>1. ifree_bitmap \subseteq Nat
        BY LayoutAssumption DEF ClaimsInv, File, Inode
    <2> DEFINE ino == FirstRun(ifree_bitmap, 1, 0)
               blk == AllocStart(bfree_bitmap, journal_held, 1)
    <2>2. /\ ino # 0 /\ blk # 0 /\ AttachMeta(ino, blk)
          /\ ifree_bitmap' = ifree_bitmap \ {ino} /\ bfree_bitmap' = bfree_bitmap \ {blk}
          /\ discard_pending' = discard_pending \ {blk}
        BY Zenon DEF Create
    <2>3. ino \in ifree_bitmap
        BY <2>1, <2>2, FirstRunIsFree, Zenon
    <2>4. blk \in bfree_bitmap \ journal_held
        BY <2>2, FreeAreNumbers, AllocStartIsFree
    <2> HIDE DEF ino, blk
    <2> QED BY Zenon, <2>2, <2>3, <2>4
<1>2. /\ nr_free_blocks' = nr_free_blocks - 1 /\ nr_free_inodes' = nr_free_inodes - 1
      /\ PersistBitmap /\ discarded' = NoDiscard /\ UNCHANGED journal_held /\ ~s_shutdown
    BY Zenon DEF Create, WithoutShutdown
<1>3. CountsMatchBitmaps' /\ nr_free_blocks' \in Nat /\ nr_free_inodes' \in Nat
    <2>1. IsFiniteSet(bfree_bitmap) /\ IsFiniteSet(ifree_bitmap)
        BY Zenon, BlocksFinite, InodesFinite DEF AllocInv, BitmapTypeOK
    <2>2. /\ Cardinality(bfree_bitmap') = Cardinality(bfree_bitmap) - Cardinality({b})
          /\ Cardinality(ifree_bitmap') = Cardinality(ifree_bitmap) - Cardinality({f})
        BY Zenon, <1>1, <2>1, TakeWeight
    <2>3. Cardinality({b}) = 1 /\ Cardinality({f}) = 1
        BY FS_Singleton, Zenon
    <2>4. bfree_bitmap' \subseteq Block /\ ifree_bitmap' \subseteq Inode
        BY Zenon, <1>1 DEF AllocInv, BitmapTypeOK
    <2>5. Cardinality(bfree_bitmap') \in Nat /\ Cardinality(ifree_bitmap') \in Nat
        BY <2>4, BlocksFinite, InodesFinite
    <2> QED BY Zenon, <1>2, <2>2, <2>3, <2>5 DEF AllocInv, CountsMatchBitmaps
<1>4. BitmapTypeOK'
    BY Zenon, <1>1, <1>2, <1>3 DEF AllocInv, BitmapTypeOK, PersistBitmap, NoDiscard
<1>5. PendingIsFree' /\ HeldStayFree' /\ s_journal'
    BY <1>1, <1>2 DEF AllocInv, PendingIsFree, HeldStayFree, PersistBitmap
<1>6. PendingDiscardSparesLive'
    BY Zenon, <1>2 DEF PendingDiscardSparesLive, NoDiscard
<1>7. txn' \in Txns /\ txn'.revoked = txn.revoked /\ txn'.forgotten = txn.forgotten
    BY <1>1 DEF AllocInv, BitmapTypeOK, AttachMeta, Txns
<1> QED BY <1>2, <1>3, <1>4, <1>5, <1>6, <1>7 DEF AllocInv

LEMMA EvictKeepsAlloc ==
    ASSUME ClaimsInv, AllocInv, NEW f \in File, Evict(f)
    PROVE  AllocInv'
<1>1. PICK freed \in SUBSET EvictBlocks(f) :
          /\ bfree_bitmap' = bfree_bitmap \cup freed
          /\ nr_free_blocks' = nr_free_blocks + Cardinality(freed)
          /\ discard_pending' = Pending(freed)
          /\ ~s_shutdown' => freed = EvictBlocks(f)
    BY Zenon DEF Evict
<1>2. /\ journal_held' = journal_held \cup metas[f] /\ txn' = Revoke(txn, metas[f])
      /\ PersistBitmap /\ discarded' = NoDiscard /\ ~s_shutdown /\ Live(f)
      /\ \/ ifree_bitmap' = ifree_bitmap /\ nr_free_inodes' = nr_free_inodes
         \/ ifree_bitmap' = ifree_bitmap \cup {f} /\ nr_free_inodes' = nr_free_inodes + 1
    BY Zenon DEF Evict, WithoutShutdown
<1>3. ClaimsSound(f) /\ metas[f] \subseteq EvictBlocks(f) /\ EvictBlocks(f) \subseteq Claimed(f)
    BY Zenon DEF ClaimsInv, EvictBlocks, Claimed, Mapped
<1>4. /\ freed \subseteq Block /\ bfree_bitmap \cap freed = {}
      /\ f \in Inode /\ f \notin ifree_bitmap /\ metas[f] \subseteq Block
    BY Zenon, <1>2, <1>3, AreaInside DEF ClaimsSound, Claimed, Live
<1>5. CountsMatchBitmaps' /\ nr_free_blocks' \in Nat /\ nr_free_inodes' \in Nat
    <2>1. /\ IsFiniteSet(bfree_bitmap) /\ IsFiniteSet(ifree_bitmap)
          /\ IsFiniteSet(freed) /\ IsFiniteSet({f}) /\ Cardinality({f}) = 1
        BY <1>4, BlocksFinite, InodesFinite, FS_Singleton, Zenon DEF AllocInv, BitmapTypeOK
    <2>2. /\ Cardinality(bfree_bitmap \cup freed) = Cardinality(bfree_bitmap) + Cardinality(freed)
          /\ Cardinality(ifree_bitmap \cup {f}) = Cardinality(ifree_bitmap) + 1
        BY <1>4, <2>1, GiveWeight
    <2>3. Cardinality(freed) \in Nat
        BY Zenon, <2>1, FS_CardinalityType
    <2>4. /\ nr_free_blocks = Cardinality(bfree_bitmap) /\ nr_free_blocks \in Nat
          /\ nr_free_inodes = Cardinality(ifree_bitmap) /\ nr_free_inodes \in Nat
        BY Zenon DEF AllocInv, CountsMatchBitmaps, BitmapTypeOK
    <2>5. nr_free_blocks' = Cardinality(bfree_bitmap') /\ nr_free_blocks' \in Nat
        BY <1>1, <2>2, <2>3, <2>4
    <2>6. nr_free_inodes' = Cardinality(ifree_bitmap') /\ nr_free_inodes' \in Nat
        <3>1. CASE ifree_bitmap' = ifree_bitmap /\ nr_free_inodes' = nr_free_inodes
            BY Zenon, <2>4, <3>1
        <3>2. CASE ifree_bitmap' = ifree_bitmap \cup {f} /\ nr_free_inodes' = nr_free_inodes + 1
            BY <2>2, <2>4, <3>2
        <3> QED BY Zenon, <1>2, <3>1, <3>2
    <2> QED BY Zenon, <2>5, <2>6 DEF CountsMatchBitmaps
<1>6. BitmapTypeOK'
    <2>1. /\ bfree_bitmap' \subseteq Block /\ ifree_bitmap' \subseteq Inode
          /\ discard_pending' \subseteq Block /\ journal_held' \subseteq Block
        BY Zenon, <1>1, <1>2, <1>4 DEF AllocInv, BitmapTypeOK, Pending
    <2>2. s_journal' \in BOOLEAN /\ s_shutdown' \in BOOLEAN
        BY Zenon, <1>2 DEF AllocInv, BitmapTypeOK, PersistBitmap
    <2> QED BY Zenon, <1>2, <1>5, <2>1, <2>2 DEF BitmapTypeOK, NoDiscard
<1>7. PendingIsFree' /\ s_journal'
    BY Zenon, <1>1, <1>2 DEF AllocInv, PendingIsFree, Pending, PersistBitmap
<1>8. s_shutdown' \/ HeldStayFree'
    BY Zenon, <1>1, <1>2, <1>3 DEF AllocInv, HeldStayFree
<1>9. PendingDiscardSparesLive'
    BY Zenon, <1>2 DEF PendingDiscardSparesLive, NoDiscard
<1>10. /\ txn' \in Txns /\ txn'.revoked \subseteq journal_held'
       /\ txn'.forgotten \subseteq txn'.revoked
    BY Zenon, <1>2, <1>4 DEF AllocInv, Revoke, Txns
<1> QED BY Zenon, <1>5, <1>6, <1>7, <1>8, <1>9, <1>10 DEF AllocInv

LEMMA FileStepKeepsAlloc ==
    ASSUME ClaimsInv, AllocInv, NEW f \in File, FileStep(f)
    PROVE  AllocInv'
<1>0. Block \subseteq Nat /\ 1 .. NrBlocks \subseteq Nat /\ 1 .. MaxLen \subseteq Nat
    BY LayoutAssumption, ModeAssumption DEF Block
<1>1. CASE AddMeta(f)
    <2>1. PICK b \in bfree_bitmap : AttachMeta(f, b) /\ GetFreeBlocks(1)
        BY Zenon, <1>1, GetTakesFreeRun DEF AddMeta
    <2>2. txn' \in Txns /\ txn'.revoked = txn.revoked /\ txn'.forgotten = txn.forgotten
        BY <2>1 DEF AllocInv, BitmapTypeOK, AttachMeta, Txns
    <2> QED BY Zenon, <2>1, <2>2, GetKeepsAlloc
<1>2. CASE \E b \in Block : RetireMeta(f, b)
    <2>1. PICK b \in Block : RetireMeta(f, b)
        BY Zenon, <1>2
    <2>2. /\ RetireMetadataBlocks(b, 1) /\ metas[f] \subseteq Block
          /\ \E changed \in SUBSET metas[f] :
                txn' = [Revoke(txn, {b}) EXCEPT !.dirtied = @ \cup changed]
        BY <2>1, AreaInside, Zenon DEF RetireMeta, ClaimsInv, Maps
    <2>3. /\ ~s_shutdown /\ PersistBitmap
          /\ journal_held' = journal_held \cup Run(b, 1) /\ Run(b, 1) = {b}
        BY <1>0, <2>2 DEF RetireMetadataBlocks, Run
    <2>4. BitmapInv'
        BY Zenon, <1>0, <2>2, <2>3, AllocatorUp, RetireMetadataBlocksSafe
    <2>5. /\ txn' \in Txns /\ txn'.revoked = txn.revoked \cup {b}
          /\ txn'.forgotten \subseteq txn.forgotten \cup {b}
        <3>1. /\ Revoke(txn, {b}) \in Txns
              /\ Revoke(txn, {b}).revoked = txn.revoked \cup {b}
              /\ Revoke(txn, {b}).forgotten \subseteq txn.forgotten \cup {b}
            BY Zenon DEF AllocInv, Revoke, Txns
        <3> QED BY <2>2, <3>1, Zenon DEF Txns
    <2>6. s_journal'
        BY Zenon, <2>3 DEF PersistBitmap, AllocInv
    <2> QED BY <2>3, <2>4, <2>5, <2>6, BitmapGivesAlloc, Zenon DEF AllocInv
<1>3. CASE \E len \in 1 .. MaxLen, by \in Allocs :
               AllocBlocks(f, len, by) \/ \E last \in Block : GrowExtent(f, last, len, by)
    <2>1. PICK len \in 1 .. MaxLen : /\ GetFreeBlocks(len) \/ \E b \in Int : TakeExactBlocks(b, len)
                                     /\ txn' = txn
        <3>1. PICK len \in 1 .. MaxLen, by \in Allocs :
                  AllocBlocks(f, len, by) \/ \E last \in Block : GrowExtent(f, last, len, by)
            BY Zenon, <1>3
        <3>2. CASE AllocBlocks(f, len, by)
            BY Zenon, <3>2 DEF AllocBlocks
        <3>3. CASE \E last \in Block : GrowExtent(f, last, len, by)
            <4>1. PICK last \in Block : TakeExactBlocks(last + 1, len) /\ txn' = txn
                BY Zenon, <3>3 DEF GrowExtent
            <4>2. last + 1 \in Int
                BY <1>0
            <4> QED BY Zenon, <4>1, <4>2
        <3> QED BY Zenon, <3>1, <3>2, <3>3
    <2> QED BY Zenon, <2>1, GetKeepsAlloc DEF AllocInv
<1>4. CASE \E b \in Block, len \in Nat : PutBlocks(b, len) /\ UNCHANGED txn
    BY Zenon, <1>0, <1>4, PutKeepsAlloc
<1>5. CASE Evict(f)
    BY Zenon, <1>5, EvictKeepsAlloc
<1>6. CASE /\ UNCHANGED <<bitmapVars, s_shutdown, journal_held>> /\ discarded' = NoDiscard
           /\ UNCHANGED txn \/ DirtyTree(f, metas[f])
    <2>1. metas[f] \subseteq Block
        BY Zenon, AreaInside DEF ClaimsInv, Maps
    <2>2. txn' \in Txns /\ txn'.revoked = txn.revoked /\ txn'.forgotten = txn.forgotten
        BY Zenon, <1>6, <2>1 DEF AllocInv, DirtyTree, Txns
    <2> QED BY Zenon, <1>6, <2>2, AllocFrame DEF AllocInv
<1>7. ASSUME \/ \E b \in Block : SubmitBio(f, b) \/ EndBio(f, b) \/ FinishIoend(f, b)
             \/ \E gone \in SUBSET Block : Unpublish(f, gone)
             \/ Publish(f)
      PROVE  /\ UNCHANGED <<bitmapVars, s_shutdown, journal_held>> /\ discarded' = NoDiscard
             /\ UNCHANGED txn \/ DirtyTree(f, metas[f])
    BY Zenon, <1>7 DEF SubmitBio, EndBio, FinishIoend, Unpublish, Publish, WithoutShutdown
<1>8. CASE (\E b \in Block, len \in 1 .. NrBlocks : FreeRange(f, b, len)) \/ PublishFails(f)
    <2>1. \/ \E b \in Block, len \in Nat : PutBlocks(b, len) /\ UNCHANGED txn
          \/ /\ UNCHANGED <<bitmapVars, s_shutdown, journal_held>> /\ discarded' = NoDiscard
             /\ UNCHANGED txn
        BY Zenon, <1>0, <1>8 DEF FreeRange, PublishFails, PutBack, WithoutShutdown
    <2> QED BY Zenon, <1>4, <1>6, <2>1
<1> QED BY <1>1, <1>2, <1>3, <1>5, <1>6, <1>7, <1>8 DEF FileStep

(* A recovery counts the bitmaps it has read. *)
LEMMA CrashKeepsAlloc ==
    ASSUME GoodImage(durable), durable \in Images, AllocInv, Crash
    PROVE  AllocInv'
<1>1. /\ bfree_bitmap' = durable.bfree /\ nr_free_blocks' = Cardinality(durable.bfree)
      /\ ifree_bitmap' = durable.ifree /\ nr_free_inodes' = Cardinality(durable.ifree)
      /\ discard_pending' = {} /\ s_shutdown' = FALSE /\ journal_held' = {}
      /\ discarded' = NoDiscard /\ txn' = EmptyTxn /\ s_journal' = s_journal
    BY Zenon DEF Crash, RecoveredBitmap
<1>2. durable.bfree \subseteq Block /\ durable.ifree \subseteq Inode
    BY Zenon DEF Images
<1>3. nr_free_blocks' \in Nat /\ nr_free_inodes' \in Nat /\ CountsMatchBitmaps'
    BY Zenon, <1>1, <1>2, BlocksFinite, InodesFinite DEF CountsMatchBitmaps
<1>4. BitmapTypeOK' /\ s_journal'
    BY <1>1, <1>2, <1>3, Zenon DEF AllocInv, BitmapTypeOK, NoDiscard
<1>5. PendingIsFree' /\ PendingDiscardSparesLive' /\ HeldStayFree'
    BY Zenon, <1>1 DEF PendingIsFree, PendingDiscardSparesLive, HeldStayFree, NoDiscard
<1>6. /\ txn' \in Txns /\ txn'.revoked \subseteq journal_held'
      /\ txn'.forgotten \subseteq txn'.revoked
    BY <1>1 DEF EmptyTxn, Txns
<1> QED BY Zenon, <1>3, <1>4, <1>5, <1>6 DEF AllocInv

LEMMA JournalStepKeepsAlloc ==
    ASSUME OwnerInv, durable \in Images, AllocInv, JournalStep
    PROVE  AllocInv'
<1>0. EmptyTxn \in Txns /\ EmptyTxn.revoked = {} /\ EmptyTxn.forgotten = {}
    BY Zenon DEF EmptyTxn, Txns
<1>1. CASE CommitStart
    <2>1. /\ UNCHANGED <<bitmapVars, s_shutdown>> /\ discarded' = NoDiscard
          /\ journal_held' = txn.forgotten /\ txn' = EmptyTxn
        BY Zenon, <1>1 DEF CommitStart, WithoutShutdown
    <2> QED BY Zenon, <1>0, <2>1, AllocFrame DEF AllocInv
<1>2. CASE CommitDone
    <2>1. /\ UNCHANGED <<bitmapVars, s_shutdown>> /\ discarded' = NoDiscard
          /\ journal_held' = txn.revoked /\ txn' = txn
        BY Zenon, <1>2 DEF CommitDone
    <2> QED BY Zenon, <2>1, AllocFrame DEF AllocInv
<1>3. CASE \E b \in Block : Checkpoint(b)
    <2>1. UNCHANGED <<bitmapVars, s_shutdown, journal_held, txn>> /\ discarded' = NoDiscard
        BY <1>3 DEF Checkpoint
    <2> QED BY Zenon, <2>1, AllocFrame DEF AllocInv
<1>4. CASE \E fs \in {{}} \cup {{f} : f \in File} : SyncCommit(fs)
    <2>1. ForceCommit /\ ~s_shutdown /\ txn' = EmptyTxn
        BY Zenon, <1>4 DEF SyncCommit
    <2>2. BitmapInv'
        BY Zenon, <2>1, AllocatorUp, ForceCommitSafe DEF OwnerInv
    <2>3. s_journal'
        BY Zenon, <2>1 DEF ForceCommit
    <2> QED BY Zenon, <1>0, <2>1, <2>2, <2>3, BitmapGivesAlloc
<1>5. CASE JournalFail
    <2>1. /\ UNCHANGED <<bitmapVars, journal_held, txn>> /\ discarded' = NoDiscard
          /\ s_shutdown' = TRUE
        BY Zenon, <1>5 DEF JournalFail, WithoutShutdown
    <2>2. BitmapTypeOK' /\ CountsMatchBitmaps' /\ PendingIsFree' /\ s_journal'
        BY Zenon, <2>1 DEF AllocInv, BitmapTypeOK, CountsMatchBitmaps, PendingIsFree, bitmapVars, NoDiscard
    <2>3. PendingDiscardSparesLive'
        BY Zenon, <2>1 DEF PendingDiscardSparesLive, NoDiscard
    <2> QED BY Zenon, <2>1, <2>2, <2>3 DEF AllocInv
<1>6. CASE Crash
    BY Zenon, <1>6, CrashKeepsAlloc DEF OwnerInv
<1> QED BY Zenon, <1>1, <1>2, <1>3, <1>4, <1>5, <1>6 DEF JournalStep

LEMMA TrimKeepsAlloc ==
    ASSUME AllocInv, Trim
    PROVE  AllocInv'
<1>1. /\ UNCHANGED <<bitmapVars, s_shutdown, journal_held, txn>>
      /\ discarded' \in [by : {"trim"}, blocks : SUBSET bfree_bitmap]
    BY DEF Trim, TrimFs, LongRuns
<1>2. BitmapTypeOK' /\ CountsMatchBitmaps' /\ PendingIsFree' /\ (s_shutdown' \/ HeldStayFree')
    BY Zenon, <1>1 DEF AllocInv, BitmapTypeOK, CountsMatchBitmaps, PendingIsFree, HeldStayFree, bitmapVars
<1>3. PendingDiscardSparesLive'
    BY Zenon, <1>1 DEF PendingDiscardSparesLive
<1> QED BY Zenon, <1>1, <1>2, <1>3 DEF AllocInv, bitmapVars
-----------------------------------------------------------------------------
LEMMA SearchFinds == LeastExists
BY LeastInSet, Zenon DEF LeastExists

(* The maps, the images of the log and the owners start out and stay sound. *)
LEMMA OwnersInvariant == Spec => []OwnerInv
<1>1. Init => OwnerInv
    <2> SUFFICES ASSUME Init PROVE OwnerInv
        BY Zenon
    <2>1. /\ bfree_bitmap = DataArea /\ ifree_bitmap = 2 .. (NrInodes - 1)
          /\ metas = NoBlocks /\ unwritten = NoBlocks /\ written = NoBlocks
          /\ op = [f \in File |-> Idle]
          /\ committing.img = Image /\ durable = Image
        BY Zenon DEF Init, AllocatorInit, BitmapInit, DataArea
    <2>2. /\ metas \in Maps /\ unwritten \in Maps /\ written \in Maps /\ op \in Hands
          /\ \A f \in File : Claimed(f) = {}
        BY Zenon, <2>1 DEF NoBlocks, Maps, Hands, Idle, Claimed
    <2>3. ifree_bitmap \subseteq File
        BY <2>1, LayoutAssumption DEF File, Inode
    <2>4. ClaimsInv
        BY <2>1, <2>2, <2>3, SearchFinds, Zenon DEF ClaimsInv, ClaimsSound, ClaimsDisjoint, Claimed
    <2> QED BY Zenon, <2>1, <2>4, ClaimsGiveImage DEF OwnerInv
<1>2. OwnerInv /\ [Next]_spaceVars => OwnerInv'
    BY Zenon, OwnerNextKeeps
<1> QED BY <1>1, <1>2, PTL DEF Spec

(***************************************************************************)
(* No block is ever shared: whatever operations, journal errors and        *)
(* crashes interleave, the maps in memory, in the committing transaction   *)
(* and in the recoverable image give each block one owner at most, and no  *)
(* mapped block is free.                                                   *)
(***************************************************************************)
THEOREM AlwaysSingleOwner == Spec => []SingleOwner
<1>1. OwnerInv => SingleOwner
    BY Zenon, ClaimsGiveImage DEF OwnerInv, SingleOwner, GoodImage
<1> QED BY <1>1, OwnersInvariant, PTL
-----------------------------------------------------------------------------
LEMMA AllocInitHolds == ASSUME Init PROVE AllocInv
<1>1. AllocatorInit /\ s_journal /\ txn = EmptyTxn
    BY Zenon DEF Init
<1>2. BitmapInv
    BY Zenon, <1>1, AllocatorStarts
<1>3. EmptyTxn \in Txns /\ EmptyTxn.revoked = {} /\ EmptyTxn.forgotten = {}
    BY Zenon DEF EmptyTxn, Txns
<1> QED BY Zenon, <1>1, <1>2, <1>3 DEF AllocInv, BitmapInv

LEMMA SpaceInitHolds == ASSUME Init PROVE SpaceInv
<1>1. AllocatorInit /\ s_journal /\ txn = EmptyTxn /\ discarded = NoDiscard
    BY Zenon DEF Init, AllocatorInit
<1>2. BitmapTypeOK
    BY Zenon, <1>1, AllocatorStarts DEF BitmapInv
<1>3. /\ committing = [active |-> FALSE, img |-> Image, txn |-> EmptyTxn] /\ durable = Image
      /\ log = [b \in Block |-> Blank] /\ disk = [b \in Block |-> Blank]
      /\ io = NoBlocks /\ converting = NoBlocks /\ synced = NoBlocks
      /\ metas = NoBlocks /\ unwritten = NoBlocks /\ written = NoBlocks
    BY Zenon DEF Init
<1>4. LogInv
    BY <1>3, Zenon DEF LogInv, ReplayHitsOwner
<1>5. StoreTypes
    <2>1. Image \in Images
        BY Zenon, <1>2, <1>3, Tags DEF Image, Images, BitmapTypeOK
    <2> QED BY <1>3, <2>1, Tags DEF StoreTypes
<1>6. TxnTypes
    BY <1>1, Tags DEF TxnTypes
<1> QED BY Zenon, <1>1, <1>4, <1>5, <1>6 DEF SpaceInv, OnlineDiscardSparesDurable, NoDiscard

LEMMA SpaceInvariant == Spec => [](OwnerInv /\ SpaceInv)
<1>1. Init => SpaceInv
    BY Zenon, SpaceInitHolds
<1>2. OwnerInv /\ SpaceInv /\ [Next]_spaceVars => SpaceInv'
    BY Zenon, SpaceNextKeeps
<1> QED BY <1>1, <1>2, OwnersInvariant, PTL DEF Spec

LEMMA AllocInvariant == Spec => []AllocInv
<1>1. Init => AllocInv
    BY Zenon, AllocInitHolds
<1>2. OwnerInv /\ SpaceInv /\ AllocInv /\ [Next]_spaceVars => AllocInv'
    <2> SUFFICES ASSUME OwnerInv, SpaceInv, AllocInv, [Next]_spaceVars PROVE AllocInv'
        BY Zenon
    <2>1. ClaimsInv /\ durable \in Images
        BY DEF OwnerInv, SpaceInv, StoreTypes
    <2>2. CASE Next
        BY Zenon, <2>1, <2>2, CreateKeepsAlloc, FileStepKeepsAlloc, JournalStepKeepsAlloc, TrimKeepsAlloc DEF Next
    <2>3. CASE UNCHANGED spaceVars
        BY <2>3, Zenon DEF spaceVars, allocatorVars, bitmapVars, AllocInv, BitmapTypeOK, CountsMatchBitmaps,
            PendingIsFree, PendingDiscardSparesLive, HeldStayFree
    <2> QED BY Zenon, <2>2, <2>3
<1> QED BY <1>1, <1>2, SpaceInvariant, PTL DEF Spec

(***************************************************************************)
(* Every variable of the composition keeps its type: bits, maps, bios and  *)
(* transactions stay on the device, and the counts never go below zero.    *)
(***************************************************************************)
THEOREM SpaceTypes == Spec => []TypeOK
<1>1. OwnerInv /\ SpaceInv /\ AllocInv => TypeOK
    <2> SUFFICES ASSUME OwnerInv, SpaceInv, AllocInv PROVE TypeOK
        BY Zenon
    <2>1. /\ metas \in [File -> SUBSET Block] /\ unwritten \in [File -> SUBSET Block]
          /\ written \in [File -> SUBSET Block]
        BY Zenon, AreaInside DEF OwnerInv, ClaimsInv, Maps
    <2>2. op \in [File -> [kind : {"idle", "alloc", "grow", "free"}, by : Allocs \cup {"none"},
                           blocks : SUBSET Block]]
        BY Zenon, AreaInside DEF OwnerInv, ClaimsInv, Hands
    <2> QED BY Zenon, <2>1, <2>2 DEF SpaceInv, AllocInv, StoreTypes, TypeOK
<1> QED BY <1>1, SpaceInvariant, AllocInvariant, PTL

(***************************************************************************)
(* Replay writes only metadata blocks of the tree it recovers, whatever    *)
(* was retired, reused and committed before the crash.                     *)
(***************************************************************************)
THEOREM ReplayIsSafe == Spec => []ReplayHitsOwner
<1>1. SpaceInv => ReplayHitsOwner
    BY Zenon DEF SpaceInv, LogInv
<1> QED BY <1>1, SpaceInvariant, PTL

(***************************************************************************)
(* A checkpoint writes a block home only while the tree in memory still    *)
(* has it, for the owner the image names, on a failed journal too.         *)
(***************************************************************************)
THEOREM CheckpointIsSafe == Spec => []CheckpointHitsOwner
<1>1. SpaceInv => CheckpointHitsOwner
    BY Zenon DEF SpaceInv, LogInv, CheckpointHitsOwner, Stale, LoggedFor
<1> QED BY <1>1, SpaceInvariant, PTL

(***************************************************************************)
(* The online discard after a forced commit never reaches a block that a   *)
(* recovery would give to a file.                                          *)
(***************************************************************************)
THEOREM OnlineDiscardIsSafe == Spec => []OnlineDiscardSparesDurable
<1>1. SpaceInv => OnlineDiscardSparesDurable
    BY Zenon DEF SpaceInv
<1> QED BY <1>1, SpaceInvariant, PTL

(***************************************************************************)
(* What the allocator promises to arbitrary callers it keeps among the     *)
(* callers it has: across creation, eviction, errors and recovery the      *)
(* counts are the weights of the bitmaps, online discards touch no block   *)
(* in use, and until a shutdown what JBD2 holds is not handed out.         *)
(***************************************************************************)
THEOREM ComposedAllocatorSafe ==
    Spec => [](CountsMatchBitmaps /\ PendingDiscardSparesLive /\ (s_shutdown \/ HeldStayFree))
<1>1. AllocInv => CountsMatchBitmaps /\ PendingDiscardSparesLive /\ (s_shutdown \/ HeldStayFree)
    BY Zenon DEF AllocInv
<1> QED BY <1>1, AllocInvariant, PTL
-----------------------------------------------------------------------------
(***************************************************************************)
(* No late writeback: as long as nobody punches holes, every data bio in   *)
(* flight and every queued conversion is for a block its inode still maps, *)
(* across truncation, eviction, errors and crashes.                        *)
(***************************************************************************)
THEOREM BiosHitTheirOwner == ASSUME BiosDrained PROVE Spec => []BioHitsOwner
<1>1. Init => BioHitsOwner
    BY Zenon DEF Init, BioHitsOwner, InFlight, NoBlocks
<1>2. OwnerInv /\ SpaceInv /\ BioHitsOwner /\ [Next]_spaceVars => BioHitsOwner'
    BY Zenon, NextKeepsBios
<1> QED BY <1>1, <1>2, SpaceInvariant, PTL DEF Spec

(***************************************************************************)
(* A written extent shows the file's own data or zeroes, never what an     *)
(* earlier owner of the block left there: with journal errors, shutdowns,  *)
(* checkpoints and discards, as long as holes are not punched, zeroing     *)
(* succeeds and the machine does not crash.                                *)
(***************************************************************************)
THEOREM ReadsFindOwnData == ASSUME ZeroedFirst PROVE Spec => []OwnDataOnly
<1> DEFINE Inv == \A f \in File : OwnData(f)
<1>0. BiosDrained
    BY Zenon DEF ZeroedFirst, BiosDrained
<1>1. Init => Inv
    BY Zenon DEF Init, OwnData, NoBlocks
<1>2. OwnerInv /\ SpaceInv /\ BioHitsOwner /\ Inv /\ [Next]_spaceVars => Inv'
    <2>1. CASE Next
        BY Zenon, <2>1, NextKeepsOwnData
    <2>2. CASE UNCHANGED spaceVars
        BY Zenon, <2>2 DEF spaceVars, fileVars, ioVars, OwnData, Data
    <2> QED BY Zenon, <2>1, <2>2
<1>3. Inv => OwnDataOnly
    BY Zenon DEF OwnData, OwnDataOnly
<1>4. Spec => []BioHitsOwner
    BY Zenon, <1>0, BiosHitTheirOwner
<1> QED BY <1>1, <1>2, <1>3, <1>4, SpaceInvariant, PTL DEF Spec

(***************************************************************************)
(* fsync keeps its promise: a block whose data an fsync found written is,  *)
(* until the file drops it, mapped as written in memory and in what a      *)
(* recovery restores, and holds the file's data.  This is through commits, *)
(* checkpoints, discards, journal failures and any number of crashes, as   *)
(* long as no late bio of a punched hole strays.                           *)
(***************************************************************************)
THEOREM FsyncSurvivesCrashes == ASSUME BiosDrained PROVE Spec => []SyncedSurvives
<1>1. Init => SyncInv
    BY Zenon DEF Init, SyncInv, SyncedSurvives, NoBlocks
<1>2. OwnerInv /\ SpaceInv /\ BioHitsOwner /\ SyncInv /\ [Next]_spaceVars => SyncInv'
    <2>1. CASE Next
        BY <2>1, NextKeepsSynced, Zenon
    <2>2. CASE UNCHANGED spaceVars
        BY Zenon, <2>2 DEF spaceVars, fileVars, logVars, SyncInv, SyncedSurvives, Data
    <2> QED BY Zenon, <2>1, <2>2
<1>3. SyncInv => SyncedSurvives
    BY Zenon DEF SyncInv
<1> QED BY <1>1, <1>2, <1>3, BiosHitTheirOwner, SpaceInvariant, PTL DEF Spec

(***************************************************************************)
(* Without a crash or a failing tree update no block leaks: each block of  *)
(* the data area is free, owned by a file, or in the hands of an operation *)
(* between its handles; an error of the bitmap's own journalling leaks     *)
(* only on the filesystem it shuts down.                                   *)
(***************************************************************************)
THEOREM NothingIsLost == ASSUME NothingFails PROVE Spec => []NothingLost
<1> DEFINE Inv == s_shutdown \/ Accounted
<1>1. Init => Inv
    BY Zenon DEF Init, AllocatorInit, BitmapInit, Accounted, DataArea
<1>2. OwnerInv /\ SpaceInv /\ Inv /\ [Next]_spaceVars => Inv'
    <2>1. CASE Next
        BY Zenon, <2>1, NextLosesNothing
    <2>2. CASE UNCHANGED spaceVars
        BY <2>2, Zenon DEF spaceVars, allocatorVars, bitmapVars, fileVars, Accounted, Claimed
    <2> QED BY Zenon, <2>1, <2>2
<1>3. Inv => NothingLost
    BY Zenon DEF NothingLost, Accounted, Claimed, Owned, Image
<1> QED BY <1>1, <1>2, <1>3, SpaceInvariant, PTL DEF Spec
=============================================================================
