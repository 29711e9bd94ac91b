------------------------- MODULE SimplefsDataProofs -------------------------
(***************************************************************************)
(* Where file data goes and what becomes of it: bios, conversions, zeroed  *)
(* runs, fsync and recovery in SimplefsSpace.  Each statement names the    *)
(* operations of the workload that break it.                               *)
(***************************************************************************)
EXTENDS SimplefsSpaceProofs

(* The types that OwnerInv does not give; the mount has a journal. *)
TxnTypes == s_journal /\ txn \in Txns

StoreTypes ==
    /\ io \in [File -> SUBSET Block] /\ converting \in [File -> SUBSET Block]
    /\ synced \in [File -> SUBSET Block]
    /\ committing \in [active : BOOLEAN, img : Images, txn : Txns]
    /\ durable \in Images
    /\ log \in [Block -> Tag] /\ disk \in [Block -> Tag]

LEMMA Tags ==
    /\ Blank \in Tag /\ EmptyTxn \in Txns
    /\ \A f \in File : /\ Meta(f) \in Tag /\ Data(f) \in Tag
                        /\ Meta(f) # Blank /\ Data(f) # Blank /\ Meta(f) # Data(f)
    /\ NoBlocks \in [File -> SUBSET Block]
BY Zenon DEF Tag, Blank, Meta, Data, EmptyTxn, Txns, NoBlocks

LEMMA ImageTyped ==
    ASSUME ClaimsInv
    PROVE  Image \in Images
<1>1. /\ bfree_bitmap \subseteq Block /\ ifree_bitmap \subseteq Inode
      /\ metas \in [File -> SUBSET Block] /\ unwritten \in [File -> SUBSET Block]
      /\ written \in [File -> SUBSET Block]
    BY Zenon, AreaInside DEF ClaimsInv, Maps
<1> QED BY Zenon, <1>1 DEF Image, Images

LEMMA DiskTyped ==
    ASSUME disk \in [Block -> Tag], NEW blocks
    PROVE  Zeroed(blocks) \in [Block -> Tag]
BY Zenon, Tags DEF Zeroed

LEMMA LogTyped ==
    ASSUME log \in [Block -> Tag], NEW img, NEW t
    PROVE  LogAfter(img, t) \in [Block -> Tag]
<1>1. ASSUME NEW b \in Block PROVE LogAfter(img, t)[b] \in Tag
    BY <1>1, Tags, LogAfterCases
<1>2. LogAfter(img, t) = [b \in Block |-> LogAfter(img, t)[b]]
    BY DEF LogAfter
<1> QED BY Zenon, <1>1, <1>2

(* The running transaction only ever gathers blocks of the device. *)
LEMMA TxnTyped ==
    ASSUME txn \in Txns, NEW gone \in SUBSET Block, NEW changed \in SUBSET Block
    PROVE  /\ Revoke(txn, gone) \in Txns
           /\ [txn EXCEPT !.dirtied = @ \cup changed] \in Txns
           /\ [Revoke(txn, gone) EXCEPT !.dirtied = @ \cup changed] \in Txns
<1>1. Revoke(txn, gone) \in Txns
    BY Zenon DEF Revoke, Txns
<1>2. ASSUME NEW t \in Txns PROVE [t EXCEPT !.dirtied = @ \cup changed] \in Txns
    BY Zenon, <1>2 DEF Txns
<1> QED BY Zenon, <1>1, <1>2

LEMMA CreateKeepsTxn ==
    ASSUME ClaimsInv, TxnTypes, Create
    PROVE  TxnTypes'
<1>1. PersistBitmap
    BY Zenon DEF Create
<1>2. PICK f \in ifree_bitmap, b \in bfree_bitmap : AttachMeta(f, b)
    BY Zenon, CreateTakesFree
<1>3. {} \subseteq Block /\ {b} \subseteq Block
    BY Zenon, AreaInside DEF ClaimsInv
<1>4. txn' \in Txns
    BY <1>2, <1>3, TxnTyped, Zenon DEF AttachMeta, TxnTypes
<1> QED BY Zenon, <1>1, <1>4 DEF PersistBitmap, TxnTypes

LEMMA FileStepKeepsTxn ==
    ASSUME ClaimsInv, TxnTypes, NEW f \in File, FileStep(f)
    PROVE  TxnTypes'
<1>0. metas[f] \subseteq Block /\ bfree_bitmap \subseteq Block
    BY Zenon, AreaInside DEF ClaimsInv, Maps
<1>1. s_journal' = s_journal
    BY Zenon DEF FileStep, AddMeta, RetireMeta, SubmitBio, EndBio, FinishIoend, AllocBlocks,
        GrowExtent, Unpublish, FreeRange, Publish, PublishFails, PutBack, Evict, WithoutShutdown,
        GetFreeBlocks, TakeExactBlocks, PutBlocks, RetireMetadataBlocks, PersistBitmap, bitmapVars
<1>2. CASE txn' = txn
    BY Zenon, <1>1, <1>2 DEF TxnTypes
<1>3. CASE DirtyTree(f, metas[f])
    BY <1>0, <1>1, <1>3, TxnTyped, Zenon DEF DirtyTree, TxnTypes
<1>4. CASE AddMeta(f)
    <2>1. PICK b \in bfree_bitmap : AttachMeta(f, b)
        BY Zenon, <1>4, GetTakesFreeRun DEF AddMeta
    <2> QED BY <1>0, <1>1, <2>1, TxnTyped, Zenon DEF AttachMeta, TxnTypes
<1>5. CASE \E b \in Block : RetireMeta(f, b)
    <2>1. PICK b \in Block, changed \in SUBSET metas[f] :
              txn' = [Revoke(txn, {b}) EXCEPT !.dirtied = @ \cup changed]
        BY <1>5, Zenon DEF RetireMeta
    <2>2. {b} \in SUBSET Block /\ changed \in SUBSET Block
        BY Zenon, <1>0
    <2> QED BY <1>1, <2>1, <2>2, TxnTyped, Zenon DEF TxnTypes
<1>6. CASE Evict(f)
    BY <1>0, <1>1, <1>6, TxnTyped, Zenon DEF Evict, TxnTypes
<1>7. ASSUME \/ \E b \in Block : SubmitBio(f, b) \/ EndBio(f, b) \/ FinishIoend(f, b)
             \/ \E gone \in SUBSET Block : Unpublish(f, gone)
             \/ Publish(f) \/ PublishFails(f)
             \/ \E b \in Block, len \in 1 .. NrBlocks : FreeRange(f, b, len)
             \/ \E len \in 1 .. MaxLen, by \in Allocs :
                    AllocBlocks(f, len, by) \/ \E last \in Block : GrowExtent(f, last, len, by)
      PROVE  txn' = txn \/ DirtyTree(f, metas[f])
    BY <1>7, Zenon DEF SubmitBio, EndBio, FinishIoend, Unpublish, Publish, PublishFails, FreeRange,
        AllocBlocks, GrowExtent
<1> QED BY <1>2, <1>3, <1>4, <1>5, <1>6, <1>7, Zenon DEF FileStep

LEMMA JournalStepKeepsTxn ==
    ASSUME TxnTypes, JournalStep
    PROVE  TxnTypes'
<1>1. s_journal' = s_journal /\ (txn' = txn \/ txn' = EmptyTxn)
    BY Zenon DEF JournalStep, CommitStart, CommitDone, Checkpoint, SyncCommit, ForceCommit,
        JournalFail, Crash, bitmapVars
<1> QED BY Zenon, <1>1, Tags DEF TxnTypes

LEMMA FileStepKeepsStore ==
    ASSUME ClaimsInv, StoreTypes, NEW f \in File, FileStep(f)
    PROVE  StoreTypes'
<1>0. committing' = committing /\ durable' = durable /\ log' = log
    BY Zenon, FileStepLeavesImages DEF logVars
<1>1. CASE UNCHANGED <<ioVars, disk, synced>>
    BY Zenon, <1>0, <1>1 DEF StoreTypes, ioVars
<1>2. CASE \E b \in Block : SubmitBio(f, b) \/ EndBio(f, b) \/ FinishIoend(f, b)
    <2>1. PICK b \in Block : SubmitBio(f, b) \/ EndBio(f, b) \/ FinishIoend(f, b)
        BY Zenon, <1>2
    <2>2. synced' = synced
        BY <2>1, Zenon DEF SubmitBio, EndBio, FinishIoend
    <2>3. io' \in [File -> SUBSET Block] /\ converting' \in [File -> SUBSET Block]
        <3>1. CASE SubmitBio(f, b)
            BY Zenon, <3>1 DEF StoreTypes, SubmitBio
        <3>2. CASE EndBio(f, b)
            BY Zenon, <3>2 DEF StoreTypes, EndBio
        <3>3. CASE FinishIoend(f, b)
            BY Zenon, <3>3 DEF StoreTypes, FinishIoend
        <3> QED BY Zenon, <2>1, <3>1, <3>2, <3>3
    <2>4. disk' \in [Block -> Tag]
        <3>1. CASE EndBio(f, b)
            BY <3>1, Tags, Zenon DEF StoreTypes, EndBio
        <3>2. CASE disk' = disk
            BY Zenon, <3>2 DEF StoreTypes
        <3> QED BY <2>1, <3>1, <3>2, Zenon DEF SubmitBio, FinishIoend
    <2> QED BY Zenon, <1>0, <2>2, <2>3, <2>4 DEF StoreTypes
<1>3. CASE Publish(f) \/ PublishFails(f)
    <2>1. disk' \in {disk, Zeroed(op[f].blocks)} /\ UNCHANGED <<ioVars, synced>>
        BY <1>3, Zenon DEF Publish, PublishFails, ZeroOut
    <2> QED BY <1>0, <2>1, DiskTyped DEF StoreTypes, ioVars
<1>4. CASE (\E gone \in SUBSET Block : Unpublish(f, gone)) \/ Evict(f)
    <2>1. synced' \in [File -> SUBSET Block] /\ UNCHANGED <<ioVars, disk>>
        BY <1>4 DEF Unpublish, Evict, Drop, StoreTypes
    <2> QED BY Zenon, <1>0, <2>1 DEF StoreTypes, ioVars
<1> QED BY <1>1, <1>2, <1>3, <1>4, Zenon DEF FileStep, AddMeta, RetireMeta, AllocBlocks, GrowExtent, FreeRange

LEMMA JournalStepKeepsStore ==
    ASSUME ClaimsInv, TxnTypes, StoreTypes, JournalStep
    PROVE  StoreTypes'
<1>0. Image \in Images /\ txn \in Txns /\ committing.img \in Images
    BY Zenon, ImageTyped DEF TxnTypes, StoreTypes
<1>1. CASE CommitStart \/ JournalFail
    <2>1. /\ UNCHANGED <<ioVars, durable, log, disk, synced>>
          /\ committing' \in {committing, [active |-> TRUE, img |-> Image, txn |-> txn]}
        BY Zenon, <1>1 DEF CommitStart, JournalFail, logVars
    <2>2. [active |-> TRUE, img |-> Image, txn |-> txn] \in [active : BOOLEAN, img : Images, txn : Txns]
        BY Zenon, <1>0
    <2>3. /\ io' = io /\ converting' = converting /\ durable' = durable
          /\ log' = log /\ disk' = disk /\ synced' = synced
        BY Zenon, <2>1 DEF ioVars
    <2> QED BY <2>1, <2>2, <2>3, Zenon DEF StoreTypes
<1>2. CASE CommitDone
    BY Zenon, <1>0, <1>2, LogTyped, Tags DEF CommitDone, StoreTypes, ioVars
<1>3. CASE \E b \in Block : Checkpoint(b)
    BY <1>3, Tags DEF Checkpoint, StoreTypes, ioVars
<1>4. CASE \E fs \in {{}} \cup {{f} : f \in File} : SyncCommit(fs)
    <2>1. PICK fs : SyncCommit(fs)
        BY Zenon, <1>4
    <2>2. log' \in [Block -> Tag] /\ disk' \in [Block -> Tag]
        BY Zenon, <2>1, LogTyped, DiskTyped DEF SyncCommit, StoreTypes
    <2>3. synced' \in [File -> SUBSET Block]
        <3>1. written \in [File -> SUBSET Block]
            BY Zenon, AreaInside DEF ClaimsInv, Maps
        <3> QED BY Zenon, <2>1, <3>1 DEF SyncCommit, StoreTypes
    <2>4. committing' \in [active : BOOLEAN, img : Images, txn : Txns] /\ durable' \in Images
        BY <1>0, <2>1, Tags, Zenon DEF SyncCommit, ForcedImage
    <2> QED BY <2>1, <2>2, <2>3, <2>4, Zenon DEF SyncCommit, StoreTypes, ioVars
<1>5. CASE Crash
    <2>1. log' \in [Block -> Tag] /\ disk' \in [Block -> Tag]
        BY Zenon, <1>5, Tags DEF Crash, StoreTypes
    <2>2. committing' \in [active : BOOLEAN, img : Images, txn : Txns] /\ durable' \in Images
        BY Zenon, <1>5, Tags DEF Crash, StoreTypes
    <2>3. io' = NoBlocks /\ converting' = NoBlocks /\ synced' = synced
        BY Zenon, <1>5 DEF Crash
    <2> QED BY Zenon, <2>1, <2>2, <2>3, Tags DEF StoreTypes
<1> QED BY Zenon, <1>1, <1>2, <1>3, <1>4, <1>5 DEF JournalStep
-----------------------------------------------------------------------------
(* Only a forced commit issues the pending discards of a journalled mount. *)
LEMMA OthersDiscardNothing ==
    ASSUME TxnTypes, Next
    PROVE  discarded'.by # "pending" \/ \E fs \in {{}} \cup {{f} : f \in File} : SyncCommit(fs)
<1>0. NoDiscard.by = "none" /\ s_journal
    BY Zenon DEF NoDiscard, TxnTypes
<1>1. ASSUME NEW b, NEW len, PutBlocks(b, len) PROVE discarded' = NoDiscard
    BY Zenon, <1>0, <1>1 DEF PutBlocks, DiscardAtOnce
<1>2. ASSUME NEW f \in File, FileStep(f) PROVE discarded' = NoDiscard
    BY <1>1, <1>2, Zenon DEF FileStep, AddMeta, RetireMeta, SubmitBio, EndBio, FinishIoend, AllocBlocks,
        GrowExtent, Unpublish, FreeRange, Publish, PublishFails, PutBack, Evict, WithoutShutdown,
        GetFreeBlocks, TakeExactBlocks, RetireMetadataBlocks
<1>3. CASE Create
    BY Zenon, <1>0, <1>3 DEF Create, WithoutShutdown
<1>4. CASE JournalStep
    BY <1>0, <1>4, Zenon DEF JournalStep, CommitStart, CommitDone, Checkpoint, JournalFail, Crash,
        WithoutShutdown
<1>5. CASE Trim
    BY <1>5 DEF Trim, TrimFs
<1> QED BY Zenon, <1>0, <1>2, <1>3, <1>4, <1>5 DEF Next

(* What a forced commit discards is free in the image it has just made durable. *)
LEMMA SyncDiscardSpares ==
    ASSUME ClaimsInv, NEW fs, SyncCommit(fs)
    PROVE  OnlineDiscardSparesDurable'
<1>1. ForceCommit /\ durable' = Image
    BY Zenon DEF SyncCommit, ForcedImage
<1>2. discarded'.blocks \subseteq bfree_bitmap
    <2>1. CASE discarded' = NoDiscard
        BY Zenon, <2>1 DEF NoDiscard
    <2>2. CASE IssuePending(bfree_bitmap, discard_pending)
        BY <2>2 DEF IssuePending, DiscardSet, UnitsInside
    <2> QED BY Zenon, <1>1, <2>1, <2>2 DEF ForceCommit
<1>3. \A f \in File : Owned(durable', f) \cap bfree_bitmap = {}
    BY <1>1, ClaimsGiveImage, Zenon DEF GoodImage, SoundImage, Image
<1> QED BY Zenon, <1>2, <1>3 DEF OnlineDiscardSparesDurable, DiscardSparesDurable, Owned
-----------------------------------------------------------------------------
SpaceInv == LogInv /\ TxnTypes /\ StoreTypes /\ OnlineDiscardSparesDurable

LEMMA SpaceNextKeeps ==
    ASSUME OwnerInv, SpaceInv, [Next]_spaceVars
    PROVE  SpaceInv'
<1> USE DEF SpaceInv
<1>0. ClaimsInv /\ txn \in Txns
    BY Zenon DEF OwnerInv, TxnTypes
<1>1. ASSUME Next PROVE OnlineDiscardSparesDurable'
    BY Zenon, <1>0, <1>1, OthersDiscardNothing, SyncDiscardSpares DEF OnlineDiscardSparesDurable
<1>2. CASE Create
    <2>1. PICK f, b : AttachMeta(f, b)
        BY Zenon, <1>2 DEF Create
    <2>2. txn'.revoked = txn.revoked /\ \A g \in File : metas[g] \subseteq metas'[g]
        BY <1>0, <2>1 DEF AttachMeta, ClaimsInv, Maps, Txns
    <2>3. UNCHANGED <<logVars, ioVars, disk, synced>>
        BY Zenon, <1>2 DEF Create
    <2>4. LogInv'
        BY Zenon, <2>2, <2>3, LogFrame
    <2>5. StoreTypes'
        BY Zenon, <2>3 DEF StoreTypes, logVars, ioVars
    <2>6. TxnTypes'
        BY Zenon, <1>0, <1>2, CreateKeepsTxn
    <2> QED BY Zenon, <1>1, <1>2, <2>4, <2>5, <2>6 DEF Next
<1>3. CASE \E f \in File : FileStep(f)
    BY Zenon, <1>0, <1>1, <1>3, FileStepKeepsLog, FileStepKeepsTxn, FileStepKeepsStore DEF Next
<1>4. CASE JournalStep
    BY Zenon, <1>0, <1>1, <1>4, JournalStepKeepsLog, JournalStepKeepsTxn, JournalStepKeepsStore DEF Next
<1>5. CASE Trim
    <2>1. UNCHANGED <<logVars, txn, metas>>
        BY Zenon, <1>5 DEF Trim, fileVars
    <2>2. LogInv'
        BY Zenon, <2>1, LogFrame
    <2>3. StoreTypes'
        BY Zenon, <1>5, DiskTyped DEF Trim, StoreTypes, logVars, ioVars
    <2>4. TxnTypes'
        BY <1>5, Zenon DEF Trim, TrimFs, bitmapVars, TxnTypes
    <2> QED BY Zenon, <1>1, <1>5, <2>2, <2>3, <2>4 DEF Next
<1>6. CASE UNCHANGED spaceVars
    <2>1. UNCHANGED <<logVars, txn, metas>>
        BY Zenon, <1>6 DEF spaceVars, fileVars
    <2>2. LogInv'
        BY Zenon, <2>1, LogFrame
    <2>3. TxnTypes'
        BY <1>6, Zenon DEF spaceVars, allocatorVars, bitmapVars, TxnTypes
    <2>4. StoreTypes'
        BY Zenon, <1>6 DEF spaceVars, logVars, ioVars, StoreTypes
    <2>5. discarded' = discarded /\ durable' = durable
        BY Zenon, <1>6 DEF spaceVars, allocatorVars, logVars
    <2>6. OnlineDiscardSparesDurable'
        BY Zenon, <2>5 DEF OnlineDiscardSparesDurable, DiscardSparesDurable
    <2> QED BY Zenon, <2>2, <2>3, <2>4, <2>6
<1> QED BY Zenon, <1>2, <1>3, <1>4, <1>5, <1>6 DEF Next
-----------------------------------------------------------------------------
(* No punch_hole: whoever unmaps a range has waited for its bios. *)
BiosDrained == "punch" \notin Workload

(* Nor a crash, nor a zeroout that fails unnoticed. *)
ZeroedFirst == {"punch", "zeroout_error", "crash"} \cap Workload = {}

(* No crash between two handles, no tree update that fails. *)
NothingFails == {"fail", "crash"} \cap Workload = {}
-----------------------------------------------------------------------------
(* A step of one inode leaves the maps and the bios of the others. *)
LEMMA OthersUntouched ==
    ASSUME ClaimsInv, StoreTypes, NEW f \in File, FileStep(f)
    PROVE  /\ unwritten' \in [File -> SUBSET Block] /\ written' \in [File -> SUBSET Block]
           /\ \A g \in File \ {f} :
                 /\ unwritten'[g] = unwritten[g] /\ written'[g] = written[g]
                 /\ io'[g] = io[g] /\ converting'[g] = converting[g] /\ synced'[g] = synced[g]
<1>1. unwritten' \in [File -> SUBSET Block] /\ written' \in [File -> SUBSET Block]
    BY Zenon, FileStepKeepsClaims, AreaInside DEF ClaimsInv, Maps
<1>2. /\ unwritten \in [File -> SUBSET DataArea] /\ written \in [File -> SUBSET DataArea]
      /\ io \in [File -> SUBSET Block] /\ converting \in [File -> SUBSET Block]
      /\ synced \in [File -> SUBSET Block]
    BY Zenon DEF ClaimsInv, Maps, StoreTypes
<1>3. ASSUME NEW g \in File \ {f}
      PROVE  /\ unwritten'[g] = unwritten[g] /\ written'[g] = written[g]
             /\ io'[g] = io[g] /\ converting'[g] = converting[g] /\ synced'[g] = synced[g]
    <2>1. CASE UNCHANGED <<unwritten, written, ioVars, synced>>
        BY Zenon, <2>1 DEF ioVars
    <2>2. CASE \E b \in Block : SubmitBio(f, b) \/ EndBio(f, b) \/ FinishIoend(f, b)
        BY Zenon, <1>2, <2>2 DEF SubmitBio, EndBio, FinishIoend, fileVars
    <2>3. CASE (\E gone \in SUBSET Block : Unpublish(f, gone)) \/ Publish(f) \/ Evict(f)
        BY Zenon, <1>2, <2>3 DEF Unpublish, Publish, Evict, Drop, ioVars
    <2> QED BY <2>1, <2>2, <2>3, Zenon
            DEF FileStep, AddMeta, RetireMeta, AllocBlocks, GrowExtent, FreeRange, PublishFails, fileVars
<1> QED BY Zenon, <1>1, <1>3

(* The bios of f stay inside what f maps. *)
LEMMA FileStepKeepsBios ==
    ASSUME BiosDrained, ClaimsInv, StoreTypes, BioHitsOwner, NEW f \in File, FileStep(f)
    PROVE  BioHitsOwner'
<1>1. ASSUME NEW g \in File \ {f} PROVE (InFlight(g) \subseteq Mapped(g))'
    BY Zenon, <1>1, OthersUntouched DEF BioHitsOwner, InFlight, Mapped
<1>2. /\ unwritten \in [File -> SUBSET DataArea] /\ written \in [File -> SUBSET DataArea]
      /\ io \in [File -> SUBSET Block] /\ converting \in [File -> SUBSET Block]
    BY Zenon DEF ClaimsInv, Maps, StoreTypes
<1>3. InFlight(f) \subseteq Mapped(f)
    BY Zenon DEF BioHitsOwner
<1>4. (InFlight(f) \subseteq Mapped(f))'
    <2>1. CASE UNCHANGED <<unwritten, written, ioVars>>
        BY Zenon, <1>3, <2>1 DEF ioVars, InFlight, Mapped
    <2>2. CASE \E b \in Block : SubmitBio(f, b) \/ EndBio(f, b) \/ FinishIoend(f, b)
        BY <1>2, <1>3, <2>2 DEF SubmitBio, EndBio, FinishIoend, fileVars, InFlight, Mapped
    <2>3. CASE \E gone \in SUBSET Block : Unpublish(f, gone)
        <3>1. PICK gone : /\ gone \cap InFlight(f) = {} /\ UNCHANGED ioVars
                          /\ unwritten' = [unwritten EXCEPT ![f] = @ \ gone]
                          /\ written' = [written EXCEPT ![f] = @ \ gone]
            BY <2>3, ZenonT(30) DEF BiosDrained, Unpublish, MayUnpublish, Drop
        <3> QED BY Zenon, <1>2, <1>3, <3>1 DEF ioVars, InFlight, Mapped
    <2>4. CASE Publish(f)
        BY <1>2, <1>3, <2>4 DEF Publish, ioVars, InFlight, Mapped
    <2>5. CASE Evict(f)
        BY Zenon, <2>5 DEF Evict, ioVars, InFlight
    <2> QED BY <2>1, <2>2, <2>3, <2>4, <2>5, Zenon
            DEF FileStep, AddMeta, RetireMeta, AllocBlocks, GrowExtent, FreeRange, PublishFails, fileVars
<1> QED BY <1>1, <1>4, Zenon DEF BioHitsOwner

LEMMA NextKeepsBios ==
    ASSUME BiosDrained, OwnerInv, SpaceInv, BioHitsOwner, [Next]_spaceVars
    PROVE  BioHitsOwner'
<1>1. CASE \E f \in File : FileStep(f)
    BY Zenon, <1>1, FileStepKeepsBios DEF OwnerInv, SpaceInv
<1>2. CASE Crash
    <2>1. \A f \in File : io'[f] = {} /\ converting'[f] = {}
        BY Zenon, <1>2 DEF Crash, NoBlocks
    <2> QED BY <2>1, Zenon DEF BioHitsOwner, InFlight
<1>3. CASE UNCHANGED <<unwritten, written, ioVars>>
    BY Zenon, <1>3 DEF BioHitsOwner, InFlight, Mapped, ioVars
<1> QED BY Zenon, <1>1, <1>2, <1>3
        DEF Next, Create, JournalStep, CommitStart, CommitDone, Checkpoint, SyncCommit, JournalFail,
            Trim, spaceVars, fileVars

-----------------------------------------------------------------------------
(* What the discards of a step may zero: free blocks. *)
LEMMA DiscardsFree ==
    ASSUME Trim \/ \E fs : SyncCommit(fs)
    PROVE  discarded'.blocks \subseteq bfree_bitmap /\ disk' = Zeroed(discarded'.blocks)
<1>1. CASE Trim
    BY <1>1 DEF Trim, TrimFs, LongRuns
<1>2. CASE \E fs : SyncCommit(fs)
    <2>1. CASE discarded' = NoDiscard
        BY Zenon, <1>2, <2>1 DEF SyncCommit, NoDiscard
    <2>2. CASE IssuePending(bfree_bitmap, discard_pending)
        BY <1>2, <2>2 DEF SyncCommit, IssuePending, DiscardSet, UnitsInside
    <2> QED BY Zenon, <1>2, <2>1, <2>2 DEF SyncCommit, ForceCommit
<1> QED BY Zenon, <1>1, <1>2

(* A data block that neither a step's inode nor the journal writes keeps its contents. *)
LEMMA MappedBlockKept ==
    ASSUME OwnerInv, SpaceInv, BioHitsOwner, NEW f \in File, NEW b \in written[f] \cup unwritten[f],
           Next, ~Crash
    PROVE  disk'[b] \in {disk[b], Data(f)}
<1>0. /\ ClaimsInv /\ StoreTypes /\ LogInv /\ ClaimsSound(f) /\ b \in Claimed(f)
      /\ b \in Block /\ b \notin bfree_bitmap
    BY Zenon, AreaInside DEF OwnerInv, SpaceInv, ClaimsInv, ClaimsSound, Claimed
<1>1. ASSUME NEW g \in File, b \in metas[g] \cup op[g].blocks PROVE FALSE
    <2>1. CASE g = f
        BY Zenon, <1>0, <1>1, <2>1 DEF ClaimsSound
    <2>2. CASE g # f
        BY Zenon, <1>0, <1>1, <2>2 DEF ClaimsInv, ClaimsDisjoint, Claimed
    <2> QED BY Zenon, <2>1, <2>2
<1>2. ASSUME NEW blocks, b \notin blocks PROVE Zeroed(blocks)[b] = disk[b]
    BY Zenon, <1>0, <1>2 DEF Zeroed
<1>3. CASE disk' = disk
    BY Zenon, <1>3
<1>4. CASE \E g \in File : Publish(g) \/ PublishFails(g)
    <2>1. PICK g \in File : disk' \in {disk, Zeroed(op[g].blocks)}
        BY Zenon, <1>4 DEF Publish, PublishFails, ZeroOut
    <2> QED BY Zenon, <1>1, <1>2, <2>1
<1>5. CASE \E g \in File, c \in Block : EndBio(g, c)
    <2>1. PICK g \in File, c \in Block : EndBio(g, c)
        BY Zenon, <1>5
    <2>2. c \in Claimed(g) /\ disk' = [disk EXCEPT ![c] = Data(g)]
        BY Zenon, <2>1 DEF EndBio, BioHitsOwner, InFlight, Mapped, Claimed
    <2>3. b = c => g = f
        BY Zenon, <1>0, <2>2 DEF ClaimsInv, ClaimsDisjoint
    <2> QED BY Zenon, <1>0, <2>2, <2>3 DEF StoreTypes
<1>6. CASE \E c \in Block : Checkpoint(c)
    <2>1. PICK c \in Block : Checkpoint(c)
        BY Zenon, <1>6
    <2>2. /\ log[c] # Blank /\ ~Stale(c) /\ disk' = [disk EXCEPT ![c] = log[c]]
        BY Zenon, <2>1 DEF Checkpoint, Stale
    <2>3. c # b
        BY Zenon, <1>0, <1>1, <2>2 DEF LogInv, LoggedFor
    <2> QED BY Zenon, <1>0, <2>2, <2>3 DEF StoreTypes
<1>7. CASE Trim \/ \E fs \in {{}} \cup {{g} : g \in File} : SyncCommit(fs)
    BY Zenon, <1>0, <1>2, <1>7, DiscardsFree
<1>8. ASSUME NEW g \in File, FileStep(g)
      PROVE  UNCHANGED disk \/ Publish(g) \/ PublishFails(g) \/ \E c \in Block : EndBio(g, c)
    BY <1>8, Zenon DEF FileStep, AddMeta, RetireMeta, SubmitBio, FinishIoend, AllocBlocks, GrowExtent,
        Unpublish, FreeRange, Evict
<1>9. CASE \E g \in File : FileStep(g)
    BY Zenon, <1>3, <1>4, <1>5, <1>8, <1>9
<1>10. CASE JournalStep
    <2>1. CASE CommitStart \/ CommitDone \/ JournalFail
        BY Zenon, <1>3, <2>1 DEF CommitStart, CommitDone, JournalFail
    <2> QED BY Zenon, <1>6, <1>7, <1>10, <2>1 DEF JournalStep
<1>11. CASE Create
    BY Zenon, <1>3, <1>11 DEF Create
<1> QED BY Zenon, <1>7, <1>9, <1>10, <1>11 DEF Next
-----------------------------------------------------------------------------
(* Every block that reads as written, or is about to, holds zeroes or the file's own data. *)
OwnData(f) == \A b \in written[f] \cup converting[f] : disk[b] \in {Blank, Data(f)}

(* Blocks join the two sets of f zeroed, or written by its own bio. *)
LEMMA NextKeepsOwnData ==
    ASSUME ZeroedFirst, OwnerInv, SpaceInv, BioHitsOwner, \A f \in File : OwnData(f), Next
    PROVE  \A f \in File : OwnData(f)'
<1>0. ClaimsInv /\ StoreTypes /\ ~Crash /\ ~("zeroout_error" \in Workload)
    BY Zenon DEF OwnerInv, SpaceInv, ZeroedFirst, Crash
<1>1. ASSUME NEW f \in File, NEW b \in written[f] \cup converting[f]
      PROVE  disk'[b] \in {Blank, Data(f)}
    <2>1. b \in written[f] \cup unwritten[f]
        BY Zenon, <1>1 DEF BioHitsOwner, InFlight, Mapped
    <2>2. disk'[b] \in {disk[b], Data(f)}
        BY Zenon, <1>0, <2>1, MappedBlockKept
    <2> QED BY Zenon, <1>1, <2>2 DEF OwnData
<1>2. ASSUME NEW f \in File,
             NEW b \in (written'[f] \cup converting'[f]) \ (written[f] \cup converting[f])
      PROVE  disk'[b] \in {Blank, Data(f)}
    <2>1. FileStep(f)
        <3>1. CASE \E g \in File : FileStep(g)
            BY Zenon, <1>0, <1>2, <3>1, OthersUntouched
        <3>2. CASE UNCHANGED <<written, converting>>
            BY Zenon, <1>2, <3>2
        <3> QED BY Zenon, <1>0, <3>1, <3>2
                DEF Next, Create, JournalStep, CommitStart, CommitDone, Checkpoint, SyncCommit,
                    JournalFail, Trim, fileVars, ioVars
    <2>2. /\ unwritten \in [File -> SUBSET DataArea] /\ written \in [File -> SUBSET DataArea]
          /\ converting \in [File -> SUBSET Block] /\ disk \in [Block -> Tag]
        BY Zenon, <1>0 DEF ClaimsInv, Maps, StoreTypes
    <2>3. CASE Publish(f)
        <3>1. op[f].by = "buffered" /\ b \in op[f].blocks
            BY <1>2, <2>2, <2>3, ZenonT(30) DEF Publish, ioVars
        <3>2. disk' = Zeroed(op[f].blocks) /\ b \in Block
            BY <1>0, <2>3, <3>1, AreaInside, Zenon DEF Publish, ZeroOut, ExactAlloc, ClaimsInv, Hands
        <3> QED BY Zenon, <3>1, <3>2 DEF Zeroed
    <2>4. CASE \E c \in Block : EndBio(f, c)
        <3>1. PICK c \in Block :
                  /\ disk' = [disk EXCEPT ![c] = Data(f)] /\ UNCHANGED written
                  /\ converting' = [converting EXCEPT ![f] = IF c \in unwritten[f] THEN @ \cup {c} ELSE @]
            BY <2>4, Zenon DEF EndBio, fileVars
        <3>2. b = c
            BY Zenon, <1>2, <2>2, <3>1
        <3> QED BY Zenon, <2>2, <3>1, <3>2
    <2>5. CASE \E c \in Block : FinishIoend(f, c)
        <3>1. PICK c : /\ c \in converting[f] /\ converting' = [converting EXCEPT ![f] = @ \ {c}]
                       /\ written' \in {written, [written EXCEPT ![f] = @ \cup {c}]}
            BY <2>5, Zenon DEF FinishIoend
        <3>2. written'[f] \subseteq written[f] \cup {c} /\ converting'[f] \subseteq converting[f]
            BY Zenon, <2>2, <3>1
        <3> QED BY Zenon, <1>2, <3>1, <3>2
    <2>6. CASE (\E gone \in SUBSET Block : Unpublish(f, gone)) \/ Evict(f)
        <3>1. /\ converting' = converting
              /\ \E gone : written' = [written EXCEPT ![f] = @ \ gone] \/ written' = [written EXCEPT ![f] = {}]
            BY <2>6, Zenon DEF Unpublish, Evict, Drop, ioVars
        <3> QED BY Zenon, <1>2, <2>2, <3>1
    <2>7. CASE UNCHANGED <<written, converting>>
        BY Zenon, <1>2, <2>7
    <2> QED BY <2>1, <2>3, <2>4, <2>5, <2>6, <2>7, ZenonT(30)
            DEF FileStep, AddMeta, RetireMeta, SubmitBio, AllocBlocks, GrowExtent, FreeRange,
                PublishFails, fileVars, ioVars
<1> QED BY Zenon, <1>1, <1>2, Tags DEF OwnData, Data

-----------------------------------------------------------------------------
(* The second conjunct carries the promise through a commit under way. *)
SyncInv ==
    /\ SyncedSurvives
    /\ committing.active => \A f \in File : synced[f] \subseteq committing.img.written[f]

(* A block leaves synced when it leaves the map, and only then. *)
LEMMA FileStepDropsBoth ==
    ASSUME ClaimsInv, StoreTypes, SyncedSurvives, NEW f \in File, FileStep(f), NEW g \in File
    PROVE  synced'[g] \subseteq synced[g] /\ synced'[g] \subseteq written'[g]
<1>0. synced[g] \subseteq written[g] /\ synced[f] \subseteq written[f]
    BY Zenon DEF SyncedSurvives
<1>1. CASE g # f
    BY Zenon, <1>0, <1>1, OthersUntouched
<1>2. CASE g = f
    <2>1. /\ unwritten \in [File -> SUBSET DataArea] /\ written \in [File -> SUBSET DataArea]
          /\ synced \in [File -> SUBSET Block]
        BY Zenon DEF ClaimsInv, Maps, StoreTypes
    <2>2. CASE \E gone \in SUBSET Block : Unpublish(f, gone)
        BY <1>0, <1>2, <2>1, <2>2 DEF Unpublish, Drop
    <2>3. CASE Evict(f)
        <3>1. synced' = [synced EXCEPT ![f] = {}]
            BY <2>3, Zenon DEF Evict
        <3> QED BY Zenon, <1>2, <2>1, <3>1
    <2>4. CASE Publish(f) \/ \E b \in Block : FinishIoend(f, b)
        BY <1>0, <1>2, <2>1, <2>4 DEF Publish, FinishIoend
    <2>5. CASE UNCHANGED <<written, synced>>
        BY <1>0, <1>2, <2>5, Zenon
    <2> QED BY <2>2, <2>3, <2>4, <2>5, Zenon
            DEF FileStep, AddMeta, RetireMeta, SubmitBio, EndBio, AllocBlocks, GrowExtent, FreeRange,
                PublishFails, fileVars
<1> QED BY Zenon, <1>1, <1>2

LEMMA CrashKeepsSynced ==
    ASSUME OwnerInv, SpaceInv, SyncInv, Crash
    PROVE  SyncInv'
<1>1. /\ written' = durable.written /\ durable' = durable /\ synced' = synced
      /\ committing'.active = FALSE
      /\ disk' = [b \in Block |-> IF log[b] # Blank THEN log[b] ELSE disk[b]]
    BY Zenon DEF Crash
<1>2. ASSUME NEW f \in File, NEW b \in synced[f]
      PROVE  b \in durable.written[f] /\ disk'[b] = Data(f)
    <2>1. b \in durable.written[f] /\ disk[b] = Data(f) /\ b \in Block
        BY Zenon DEF SyncInv, SyncedSurvives, SpaceInv, StoreTypes
    <2>2. \A g \in File : b \notin durable.metas[g]
        BY Zenon, <2>1 DEF OwnerInv, GoodImage, SoundImage, Owned
    <2>3. log[b] = Blank
        BY Zenon, <2>1, <2>2 DEF SpaceInv, LogInv, ReplayHitsOwner
    <2> QED BY Zenon, <1>1, <2>1, <2>3
<1> QED BY Zenon, <1>1, <1>2 DEF SyncInv, SyncedSurvives, Data

LEMMA NextKeepsSynced ==
    ASSUME OwnerInv, SpaceInv, BioHitsOwner, SyncInv, Next
    PROVE  SyncInv'
<1>0. ClaimsInv /\ StoreTypes
    BY Zenon DEF OwnerInv, SpaceInv
<1>1. CASE Crash
    BY Zenon, <1>1, CrashKeepsSynced
<1>2. ASSUME ~Crash, NEW f \in File, NEW b \in synced[f] PROVE disk'[b] = Data(f)
    <2>1. b \in written[f] /\ disk[b] = Data(f)
        BY Zenon, <1>2 DEF SyncInv, SyncedSurvives
    <2> QED BY Zenon, <1>2, <2>1, MappedBlockKept
<1>3. CASE ~Crash /\ \E f \in File : FileStep(f)
    <2>1. PICK f \in File : FileStep(f)
        BY Zenon, <1>3
    <2>2. committing' = committing /\ durable' = durable
        BY Zenon, <2>1, FileStepLeavesImages DEF logVars
    <2>3. \A g \in File : synced'[g] \subseteq synced[g] /\ synced'[g] \subseteq written'[g]
        BY Zenon, <1>0, <2>1, FileStepDropsBoth DEF SyncInv
    <2> QED BY Zenon, <1>2, <1>3, <2>2, <2>3 DEF SyncInv, SyncedSurvives, Data
<1>4. CASE ~Crash /\ \E fs \in {{}} \cup {{f} : f \in File} : SyncCommit(fs)
    <2>1. PICK fs \in {{}} \cup {{f} : f \in File} : SyncCommit(fs)
        BY Zenon, <1>4
    <2>2. /\ durable'.written = written /\ written' = written /\ committing'.active = FALSE
          /\ synced' = [f \in File |-> IF f \in fs THEN {b \in written[f] : disk[b] = Data(f)}
                                       ELSE synced[f]]
        BY Zenon, <2>1 DEF SyncCommit, ForcedImage, Image, fileVars
    <2>3. ASSUME NEW f \in File, NEW b \in synced'[f]
          PROVE  b \in written[f] /\ disk[b] = Data(f)
        BY Zenon, <2>2, <2>3 DEF SyncInv, SyncedSurvives
    <2>4. ASSUME NEW f \in File, NEW b \in synced'[f] PROVE disk'[b] = Data(f)
        BY Zenon, <1>4, <2>3, <2>4, MappedBlockKept
    <2> QED BY Zenon, <2>2, <2>3, <2>4 DEF SyncInv, SyncedSurvives, Data
<1>5. CASE ~Crash /\ (Create \/ Trim \/ JournalFail \/ \E b \in Block : Checkpoint(b))
    <2>1. UNCHANGED <<written, synced, committing, durable>>
        BY <1>5, Zenon DEF Create, Trim, JournalFail, Checkpoint, fileVars, logVars
    <2> QED BY <1>2, <1>5, <2>1, Zenon DEF SyncInv, SyncedSurvives, Data
<1>6. CASE ~Crash /\ CommitStart
    <2>1. UNCHANGED <<written, synced, durable>> /\ committing'.img.written = written
        BY Zenon, <1>6 DEF CommitStart, fileVars, Image
    <2> QED BY Zenon, <1>2, <1>6, <2>1 DEF SyncInv, SyncedSurvives, Data
<1>7. CASE ~Crash /\ CommitDone
    <2>1. /\ UNCHANGED <<written, synced>> /\ committing.active /\ committing'.active = FALSE
          /\ durable' = committing.img
        BY Zenon, <1>7 DEF CommitDone, fileVars
    <2> QED BY Zenon, <1>2, <1>7, <2>1 DEF SyncInv, SyncedSurvives, Data
<1> QED BY Zenon, <1>1, <1>3, <1>4, <1>5, <1>6, <1>7 DEF Next, JournalStep

-----------------------------------------------------------------------------
Accounted == DataArea \subseteq bfree_bitmap \cup UNION {Claimed(f) : f \in File}

LEMMA OthersKeepClaims ==
    ASSUME ClaimsInv, StoreTypes, NEW f \in File, FileStep(f), NEW g \in File \ {f}
    PROVE  Claimed(g)' = Claimed(g)
<1>1. unwritten'[g] = unwritten[g] /\ written'[g] = written[g]
    BY Zenon, OthersUntouched
<1>2. metas \in [File -> SUBSET DataArea] /\ DOMAIN op = File
    BY Zenon DEF ClaimsInv, Maps, Hands
<1>3. metas'[g] = metas[g]
    <2>1. CASE UNCHANGED metas
        BY Zenon, <2>1
    <2>2. CASE AddMeta(f) \/ (\E b \in Block : RetireMeta(f, b)) \/ Evict(f)
        BY <1>2, <2>2, Zenon DEF AddMeta, AttachMeta, RetireMeta, Evict, Drop
    <2> QED BY <2>1, <2>2, Zenon
            DEF FileStep, SubmitBio, EndBio, FinishIoend, AllocBlocks, GrowExtent, Unpublish,
                FreeRange, Publish, PublishFails, fileVars
<1>4. op'[g] = op[g]
    <2>1. CASE UNCHANGED op
        BY Zenon, <2>1
    <2>2. CASE \E hand : op' = [op EXCEPT ![f] = hand]
        BY Zenon, <1>2, <2>2
    <2> QED BY <2>1, <2>2, Zenon
            DEF FileStep, AddMeta, RetireMeta, SubmitBio, EndBio, FinishIoend, AllocBlocks,
                GrowExtent, Unpublish, FreeRange, Publish, PublishFails, Evict
<1> QED BY Zenon, <1>1, <1>3, <1>4 DEF Claimed

(* What a step of f takes out of the bitmap it has in hand, and the other way round. *)
LEMMA FileStepLosesNothing ==
    ASSUME NothingFails, ClaimsInv, StoreTypes, NEW f \in File, FileStep(f), ~s_shutdown'
    PROVE  bfree_bitmap \cup Claimed(f) \subseteq (bfree_bitmap \cup Claimed(f))'
<1>0. /\ unwritten \in [File -> SUBSET DataArea] /\ written \in [File -> SUBSET DataArea]
      /\ metas \in [File -> SUBSET DataArea] /\ DOMAIN op = File /\ bfree_bitmap \subseteq Nat
      /\ Idle.blocks = {}
    BY Zenon, FreeAreNumbers DEF ClaimsInv, Maps, Hands, Idle
<1>1. CASE AddMeta(f)
    <2>1. PICK b \in bfree_bitmap :
              /\ AttachMeta(f, b) /\ bfree_bitmap' = bfree_bitmap \ Run(b, 1)
              /\ UNCHANGED <<unwritten, written, op>>
        BY Zenon, <1>1, GetTakesFreeRun DEF AddMeta
    <2>2. Run(b, 1) = {b}
        BY <1>0 DEF Run
    <2> QED BY <1>0, <2>1, <2>2 DEF AttachMeta, Claimed
<1>2. CASE \E b \in Block : RetireMeta(f, b)
    <2>1. PICK b \in Block : /\ bfree_bitmap' = bfree_bitmap \cup Run(b, 1)
                            /\ metas' = [metas EXCEPT ![f] = @ \ {b}]
                            /\ UNCHANGED <<unwritten, written, op>>
        BY <1>2, Zenon DEF RetireMeta, RetireMetadataBlocks, GiveBlocks, Drop
    <2>2. Run(b, 1) = {b}
        BY LayoutAssumption DEF Run, Block
    <2> QED BY Zenon, <1>0, <2>1, <2>2 DEF Claimed
<1>3. CASE \E len \in 1 .. MaxLen, by \in Allocs :
               AllocBlocks(f, len, by) \/ \E last \in Block : GrowExtent(f, last, len, by)
    <2>1. PICK run, hand : /\ bfree_bitmap' = bfree_bitmap \ run /\ UNCHANGED fileVars
                           /\ op[f] = Idle /\ op' = [op EXCEPT ![f] = hand] /\ hand.blocks = run
        BY <1>3, ZenonT(30) DEF AllocBlocks, GrowExtent, GetFreeBlocks, TakeExactBlocks, TakeBlocks
    <2> QED BY Zenon, <1>0, <2>1 DEF Claimed, fileVars
<1>4. CASE Publish(f)
    BY <1>0, <1>4, ZenonT(30) DEF Publish, bitmapVars, Claimed
<1>5. CASE PublishFails(f)
    <2>1. PutBack(f) /\ op' = [op EXCEPT ![f] = Idle] /\ UNCHANGED fileVars
        BY Zenon, <1>5 DEF PublishFails, NothingFails
    <2>2. bfree_bitmap' = bfree_bitmap \cup op[f].blocks
        BY Zenon, <2>1, PutFreesRun DEF PutBack
    <2> QED BY <1>0, <2>1, <2>2, Zenon DEF Claimed, fileVars
<1>6. CASE \E gone \in SUBSET Block : Unpublish(f, gone)
    <2>1. PICK gone : /\ unwritten' = [unwritten EXCEPT ![f] = @ \ gone]
                      /\ written' = [written EXCEPT ![f] = @ \ gone]
                      /\ op[f] = Idle /\ UNCHANGED <<bfree_bitmap, metas>>
                      /\ op' = [op EXCEPT ![f] = [kind |-> "free", by |-> "none", blocks |-> gone]]
        BY <1>6, Zenon DEF Unpublish, Drop, bitmapVars
    <2> QED BY Zenon, <1>0, <2>1 DEF Claimed
<1>7. CASE \E b \in Block, len \in 1 .. NrBlocks : FreeRange(f, b, len)
    <2>1. PICK b \in Block, len \in 1 .. NrBlocks : FreeRange(f, b, len)
        BY Zenon, <1>7
    <2>2. /\ bfree_bitmap' = bfree_bitmap \cup Run(b, len) /\ UNCHANGED fileVars
          /\ op[f].blocks \subseteq op'[f].blocks \cup Run(b, len)
        <3>1. /\ PutBlocks(b, len) /\ UNCHANGED fileVars
              /\ op' = [op EXCEPT ![f] = IF op[f].blocks = Run(b, len) THEN Idle
                                         ELSE [kind |-> "free", by |-> "none",
                                               blocks |-> op[f].blocks \ Run(b, len)]]
            BY <2>1, Zenon DEF FreeRange
        <3>2. op[f].blocks \subseteq op'[f].blocks \cup Run(b, len)
            BY Zenon, <1>0, <3>1
        <3> QED BY <3>1, <3>2, PutFreesRun, Zenon
    <2> QED BY <2>2, Zenon DEF Claimed, fileVars
<1>8. CASE Evict(f)
    <2>1. /\ bfree_bitmap' = bfree_bitmap \cup metas[f] \cup unwritten[f] \cup written[f]
          /\ op[f] = Idle
        <3>1. bfree_bitmap' = bfree_bitmap \cup EvictBlocks(f) /\ op[f] = Idle
            BY <1>8, Zenon DEF Evict
        <3> QED BY Zenon, <3>1 DEF EvictBlocks, Mapped
    <2> QED BY <1>0, <2>1, Zenon DEF Claimed
<1>9. CASE \E b \in Block : SubmitBio(f, b) \/ EndBio(f, b) \/ FinishIoend(f, b)
    <2>1. PICK b \in Block : SubmitBio(f, b) \/ EndBio(f, b) \/ FinishIoend(f, b)
        BY Zenon, <1>9
    <2>2. UNCHANGED <<bfree_bitmap, metas, op>>
        BY <2>1, Zenon DEF SubmitBio, EndBio, FinishIoend, bitmapVars, fileVars
    <2>3. unwritten[f] \cup written[f] \subseteq unwritten'[f] \cup written'[f]
        <3>1. CASE UNCHANGED <<unwritten, written>>
            BY <3>1, Zenon
        <3>2. CASE FinishIoend(f, b)
            BY <1>0, <3>2 DEF FinishIoend
        <3> QED BY <2>1, <3>1, <3>2, Zenon DEF SubmitBio, EndBio, fileVars
    <2> QED BY <2>2, <2>3, Zenon DEF Claimed
<1> QED BY Zenon, <1>1, <1>2, <1>3, <1>4, <1>5, <1>6, <1>7, <1>8, <1>9 DEF FileStep

(* Nothing but a new mount ends a shutdown. *)
LEMMA ShutdownStays ==
    ASSUME NothingFails, Next, s_shutdown
    PROVE  s_shutdown'
<1>1. ASSUME NEW f \in File, FileStep(f) PROVE s_shutdown'
    BY <1>1, Zenon DEF FileStep, AddMeta, RetireMeta, SubmitBio, EndBio, FinishIoend, AllocBlocks,
        GrowExtent, Unpublish, FreeRange, Publish, PublishFails, PutBack, Evict, WithoutShutdown,
        GetFreeBlocks, TakeExactBlocks, RetireMetadataBlocks, PutBlocks
<1>2. CASE JournalStep
    BY <1>2, Zenon DEF JournalStep, CommitStart, CommitDone, Checkpoint, SyncCommit, JournalFail, Crash,
        NothingFails, WithoutShutdown
<1>3. CASE Create \/ Trim
    BY Zenon, <1>3 DEF Create, Trim, TrimFs, WithoutShutdown
<1> QED BY Zenon, <1>1, <1>2, <1>3 DEF Next

LEMMA NextLosesNothing ==
    ASSUME NothingFails, OwnerInv, SpaceInv, s_shutdown \/ Accounted, Next, ~s_shutdown'
    PROVE  Accounted'
<1>0. ClaimsInv /\ StoreTypes /\ Accounted
    BY Zenon, ShutdownStays DEF OwnerInv, SpaceInv
<1>1. CASE \E f \in File : FileStep(f)
    <2>1. PICK f \in File : FileStep(f)
        BY Zenon, <1>1
    <2>2. bfree_bitmap \cup Claimed(f) \subseteq (bfree_bitmap \cup Claimed(f))'
        BY Zenon, <1>0, <2>1, FileStepLosesNothing
    <2>3. \A g \in File \ {f} : Claimed(g)' = Claimed(g)
        BY Zenon, <1>0, <2>1, OthersKeepClaims
    <2>4. ASSUME NEW b \in DataArea
          PROVE  b \in bfree_bitmap' \/ \E g \in File : b \in Claimed(g)'
        <3>1. b \in bfree_bitmap \/ \E g \in File : b \in Claimed(g)
            BY Zenon, <1>0 DEF Accounted
        <3> QED BY Zenon, <2>2, <2>3, <3>1
    <2> QED BY Zenon, <2>4 DEF Accounted
<1>2. CASE Create
    <2>1. PICK f \in ifree_bitmap, b \in bfree_bitmap :
              /\ bfree_bitmap' = bfree_bitmap \ {b} /\ AttachMeta(f, b)
              /\ UNCHANGED <<unwritten, written, op>>
        BY Zenon, <1>0, <1>2, CreateTakesFree
    <2>2. f \in File /\ metas \in [File -> SUBSET DataArea]
        BY Zenon, <1>0, <2>1 DEF ClaimsInv, Maps
    <2>3. Claimed(f)' = Claimed(f) \cup {b} /\ \A g \in File : Claimed(g) \subseteq Claimed(g)'
        BY <2>1, <2>2 DEF AttachMeta, Claimed
    <2>4. ASSUME NEW c \in DataArea
          PROVE  c \in bfree_bitmap' \/ \E g \in File : c \in Claimed(g)'
        <3>1. c \in bfree_bitmap \/ \E g \in File : c \in Claimed(g)
            BY Zenon, <1>0 DEF Accounted
        <3> QED BY Zenon, <2>1, <2>2, <2>3, <3>1
    <2> QED BY Zenon, <2>4 DEF Accounted
<1>3. CASE JournalStep \/ Trim
    <2>1. UNCHANGED <<bfree_bitmap, metas, unwritten, written, op>>
        BY <1>3, Zenon DEF JournalStep, CommitStart, CommitDone, Checkpoint, SyncCommit, ForceCommit,
            JournalFail, Crash, NothingFails, Trim, TrimFs, bitmapVars, fileVars
    <2> QED BY Zenon, <1>0, <2>1 DEF Accounted, Claimed
<1> QED BY Zenon, <1>1, <1>2, <1>3 DEF Next
=============================================================================
