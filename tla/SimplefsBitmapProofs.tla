------------------------ MODULE SimplefsBitmapProofs ------------------------
(***************************************************************************)
(* The allocator invariants of SimplefsBitmap for every layout, mount mode *)
(* and discard granularity.  BitmapInv is inductive as it stands: the      *)
(* counts need the bitmaps to stay finite sets of block numbers, and the   *)
(* discard property needs pending blocks to be free.                       *)
(***************************************************************************)
EXTENDS SimplefsBitmap, FiniteSetTheorems, WellFoundedInduction, TLAPS

BitmapInv ==
    /\ BitmapTypeOK
    /\ CountsMatchBitmaps
    /\ PendingIsFree
    /\ ReservedStayUsed
    /\ PendingDiscardSparesLive
    /\ HeldStayFree
-----------------------------------------------------------------------------
(* A nonempty set of naturals has a least element, and Least picks it. *)
LEMMA LeastInSet ==
    ASSUME NEW S, S \subseteq Nat, S # {}
    PROVE  Least(S) \in S
<1> DEFINE R == OpToRel(<, Nat)
<1>1. IsWellFoundedOn(R, Nat)
    BY Zenon, NatLessThanWellFounded
<1> HIDE DEF R
<1>2. PICK x \in S : \A y \in S : ~(<<y, x>> \in R)
    BY Zenon, <1>1, WFMin
<1>3. \A y \in S : x <= y
    <2> SUFFICES ASSUME NEW y \in S, ~(x <= y) PROVE FALSE
        BY Zenon
    <2>1. x \in Nat /\ y \in Nat /\ y < x
        OBVIOUS
    <2>2. <<y, x>> \in R
        BY Zenon, <2>1 DEF R, OpToRel
    <2> QED BY Zenon, <1>2, <2>2
<1> QED BY Zenon, <1>2, <1>3 DEF Least

(***************************************************************************)
(* What the first-fit search promises its callers: a result other than 0   *)
(* starts a run of len free bits (get_first_free_bits_from).               *)
(***************************************************************************)
LEMMA FirstRunIsFree ==
    ASSUME NEW freemap, freemap \subseteq Nat, NEW len, NEW start,
           FirstRun(freemap, len, start) # 0
    PROVE  /\ FirstRun(freemap, len, start) \in freemap
           /\ Run(FirstRun(freemap, len, start), len) \subseteq freemap
<1> DEFINE S == RunStarts(freemap, len, start)
<1>1. S # {} /\ FirstRun(freemap, len, start) = Least(S)
    BY Zenon DEF FirstRun
<1>2. S \subseteq freemap /\ \A b \in S : Run(b, len) \subseteq freemap
    BY Zenon DEF RunStarts
<1>3. Least(S) \in S
    <2> HIDE DEF S
    <2> QED BY Zenon, <1>1, <1>2, LeastInSet
<1> QED BY Zenon, <1>1, <1>2, <1>3

(* The same for get_free_blocks, which also avoids the blocks JBD2 holds. *)
LEMMA AllocStartIsFree ==
    ASSUME NEW freemap, freemap \subseteq Nat, NEW held, NEW len,
           AllocStart(freemap, held, len) # 0
    PROVE  /\ AllocStart(freemap, held, len) \in freemap \ held
           /\ Run(AllocStart(freemap, held, len), len) \subseteq freemap \ held
BY Zenon, FirstRunIsFree DEF AllocStart

LEMMA BlocksFinite ==
    ASSUME NEW S, S \subseteq Block
    PROVE  IsFiniteSet(S) /\ Cardinality(S) \in Nat
<1>1. IsFiniteSet(Block)
    BY FS_Interval, LayoutAssumption DEF Block
<1> QED BY Zenon, <1>1, FS_Subset, FS_CardinalityType

LEMMA InodesFinite ==
    ASSUME NEW S, S \subseteq Inode
    PROVE  IsFiniteSet(S) /\ Cardinality(S) \in Nat
<1>1. IsFiniteSet(Inode)
    BY FS_Interval, LayoutAssumption DEF Inode
<1> QED BY Zenon, <1>1, FS_Subset, FS_CardinalityType

(* Taking free bits lowers the weight by the size of the run. *)
LEMMA TakeWeight ==
    ASSUME NEW S, IsFiniteSet(S), NEW run, run \subseteq S
    PROVE  Cardinality(S \ run) = Cardinality(S) - Cardinality(run)
<1>1. S \cap run = run
    BY Zenon
<1> QED BY Zenon, <1>1, FS_Difference

(* Setting bits that were clear raises it by the size of the run. *)
LEMMA GiveWeight ==
    ASSUME NEW S, IsFiniteSet(S), NEW run, IsFiniteSet(run), S \cap run = {}
    PROVE  Cardinality(S \cup run) = Cardinality(S) + Cardinality(run)
<1>1. Cardinality(S \cup run) = Cardinality(S) + Cardinality(run) - Cardinality(S \cap run)
    BY Zenon, FS_Union
<1>2. Cardinality(S) \in Nat /\ Cardinality(run) \in Nat
    BY Zenon, FS_CardinalityType
<1>3. Cardinality(S \cap run) = 0
    BY Zenon, FS_EmptySet
<1> QED BY <1>1, <1>2, <1>3

LEMMA RunWeight ==
    ASSUME NEW b \in Nat, NEW len \in Nat, len > 0
    PROVE  IsFiniteSet(Run(b, len)) /\ Cardinality(Run(b, len)) = len
<1>1. b + len - 1 \in Int /\ ~(b > b + len - 1) /\ (b + len - 1) - b + 1 = len
    OBVIOUS
<1>2. /\ IsFiniteSet(b .. (b + len - 1))
      /\ Cardinality(b .. (b + len - 1))
            = IF b > b + len - 1 THEN 0 ELSE (b + len - 1) - b + 1
    BY <1>1, FS_Interval
<1> QED BY Zenon, <1>1, <1>2 DEF Run
-----------------------------------------------------------------------------
(* An aligned discard set drags in no block outside the set it was cut from. *)
LEMMA DiscardSetSpares ==
    ASSUME NEW live, NEW stop
    PROVE  /\ DiscardSet(live, stop) \subseteq live
           /\ UnitsTouched(DiscardSet(live, stop), GranBlocks) \subseteq live
BY Zenon DEF DiscardSet, UnitsInside, UnitsTouched

(***************************************************************************)
(* A discard pass over pending blocks that are all free leaves only free   *)
(* blocks pending and touches only free blocks                             *)
(* (simplefs_issue_pending_discards).                                      *)
(***************************************************************************)
LEMMA IssuePendingSafe ==
    ASSUME NEW free, free \subseteq Block, NEW pending, pending \subseteq free,
           IssuePending(free, pending)
    PROVE  /\ discard_pending' \subseteq free
           /\ discarded' \in [by : {"none", "pending", "trim"}, blocks : SUBSET Block]
           /\ UnitsTouched(discarded'.blocks, GranBlocks) \subseteq free
<1>1. PICK stop \in DiscardStops(pending \cap free) :
          /\ discard_pending' = PendingAfter(free, pending, stop)
          /\ discarded' = [by |-> "pending", blocks |-> DiscardSet(pending \cap free, stop)]
    BY Zenon DEF IssuePending
<1>2. discard_pending' \subseteq free
    BY Zenon, <1>1 DEF PendingAfter
<1>3. DiscardSet(pending \cap free, stop) \subseteq Block
    BY Zenon, DiscardSetSpares
<1> QED BY Zenon, <1>1, <1>2, <1>3, DiscardSetSpares

(* TakeBlocks on free blocks that JBD2 does not hold. *)
LEMMA TakeBlocksSafe ==
    ASSUME BitmapInv, NEW run, run \subseteq bfree_bitmap \ journal_held,
           TakeBlocks(run), PersistBitmap, discarded' = NoDiscard, UNCHANGED journal_held
    PROVE  BitmapInv'
<1> USE DEF BitmapInv
<1>1. IsFiniteSet(bfree_bitmap) /\ Cardinality(bfree_bitmap') \in Nat
    BY Zenon, BlocksFinite DEF BitmapTypeOK, TakeBlocks
<1>2. nr_free_blocks' = Cardinality(bfree_bitmap')
    BY Zenon, <1>1, TakeWeight DEF TakeBlocks, CountsMatchBitmaps
<1>3. BitmapTypeOK'
    BY Zenon, <1>1, <1>2 DEF BitmapTypeOK, TakeBlocks, PersistBitmap, NoDiscard
<1>4. CountsMatchBitmaps'
    BY Zenon, <1>2 DEF CountsMatchBitmaps, TakeBlocks
<1>5. PendingIsFree' /\ ReservedStayUsed' /\ HeldStayFree'
    BY Zenon DEF PendingIsFree, ReservedStayUsed, HeldStayFree, TakeBlocks
<1>6. PendingDiscardSparesLive'
    BY Zenon DEF PendingDiscardSparesLive, NoDiscard
<1> QED BY Zenon, <1>3, <1>4, <1>5, <1>6

(* Freeing a run that passed the refusals of put_blocks. *)
LEMMA PutRunSafe ==
    ASSUME BitmapInv, NEW b \in Nat, NEW len \in Nat, MayPutBlocks(b, len),
           bfree_bitmap' = bfree_bitmap \cup Run(b, len),
           nr_free_blocks' = nr_free_blocks + len,
           UNCHANGED <<ifree_bitmap, nr_free_inodes>>
    PROVE  /\ bfree_bitmap' \subseteq Block /\ nr_free_blocks' \in Nat
           /\ CountsMatchBitmaps'
           /\ ReservedStayUsed'
           /\ Run(b, len) \subseteq Block
<1> USE DEF BitmapInv
<1>1. Run(b, len) \subseteq Block /\ len > 0 /\ 0 \notin Run(b, len)
    BY LayoutAssumption DEF MayPutBlocks, ValidRun, Run, Block
<1>2. IsFiniteSet(bfree_bitmap)
    BY Zenon, BlocksFinite DEF BitmapTypeOK
<1>3. IsFiniteSet(Run(b, len)) /\ Cardinality(Run(b, len)) = len
    BY Zenon, <1>1, RunWeight
<1>4. Cardinality(bfree_bitmap') = Cardinality(bfree_bitmap) + len
    BY Zenon, <1>2, <1>3, GiveWeight DEF MayPutBlocks
<1>5. CountsMatchBitmaps'
    BY Zenon, <1>4 DEF CountsMatchBitmaps
<1>6. ReservedStayUsed'
    BY Zenon, <1>1 DEF ReservedStayUsed, MayPutBlocks
<1> QED BY <1>1, <1>5, <1>6 DEF BitmapTypeOK

LEMMA PutBlocksSafe ==
    ASSUME BitmapInv, NEW b \in Nat, NEW len \in Nat, PutBlocks(b, len)
    PROVE  BitmapInv'
<1> USE DEF BitmapInv
<1> DEFINE run     == Run(b, len)
           free    == bfree_bitmap \cup run
           pending == IF Discard THEN discard_pending \cup run ELSE discard_pending
<1>1. /\ MayPutBlocks(b, len) /\ PersistBitmap /\ UNCHANGED journal_held
      /\ UNCHANGED <<ifree_bitmap, nr_free_inodes>>
      /\ bfree_bitmap' = free
    BY Zenon DEF PutBlocks, GiveBlocks
<1>2. pending \subseteq free
    BY Zenon DEF PendingIsFree
<1>3. nr_free_blocks' = nr_free_blocks + len
    <2>1. len > 0
        BY Zenon, <1>1 DEF MayPutBlocks, ValidRun
    <2> QED BY Zenon, <2>1, RunWeight DEF PutBlocks, GiveBlocks
<1>4. /\ bfree_bitmap' \subseteq Block /\ nr_free_blocks' \in Nat
      /\ CountsMatchBitmaps' /\ ReservedStayUsed' /\ run \subseteq Block
    BY Zenon, <1>1, <1>3, PutRunSafe
<1>5. /\ discard_pending' \subseteq free
      /\ discarded' \in [by : {"none", "pending", "trim"}, blocks : SUBSET Block]
      /\ PendingDiscardSparesLive'
    <2>1. CASE DiscardAtOnce
        <3>1. IssuePending(free, pending)
            BY Zenon, <2>1 DEF PutBlocks
        <3>2. free \subseteq Block
            BY Zenon, <1>1, <1>4
        <3> HIDE DEF free, pending
        <3> QED BY Zenon, <1>1, <1>2, <3>1, <3>2, IssuePendingSafe DEF PendingDiscardSparesLive
    <2>2. CASE ~DiscardAtOnce
        <3>1. discard_pending' = pending /\ discarded' = NoDiscard
            BY Zenon, <2>2 DEF PutBlocks, GiveBlocks
        <3> QED BY Zenon, <1>2, <3>1 DEF NoDiscard, PendingDiscardSparesLive
    <2> QED BY Zenon, <2>1, <2>2
<1>6. BitmapTypeOK'
    <2>1. discard_pending' \subseteq Block
        BY Zenon, <1>1, <1>4, <1>5
    <2> QED BY Zenon, <1>1, <1>4, <1>5, <2>1 DEF BitmapTypeOK, PersistBitmap
<1> QED BY Zenon, <1>1, <1>4, <1>5, <1>6 DEF PendingIsFree, HeldStayFree

LEMMA RetireMetadataBlocksSafe ==
    ASSUME BitmapInv, NEW b \in Nat, NEW len \in Nat, RetireMetadataBlocks(b, len)
    PROVE  BitmapInv'
<1> USE DEF BitmapInv
<1>1. /\ MayPutBlocks(b, len) /\ PersistBitmap /\ discarded' = NoDiscard
      /\ UNCHANGED <<ifree_bitmap, nr_free_inodes>>
      /\ bfree_bitmap' = bfree_bitmap \cup Run(b, len)
      /\ journal_held' = journal_held \cup Run(b, len)
      /\ discard_pending' \subseteq discard_pending \cup Run(b, len)
    BY Zenon DEF RetireMetadataBlocks, GiveBlocks
<1>2. nr_free_blocks' = nr_free_blocks + len
    <2>1. len > 0
        BY Zenon, <1>1 DEF MayPutBlocks, ValidRun
    <2> QED BY Zenon, <2>1, RunWeight DEF RetireMetadataBlocks, GiveBlocks
<1>3. /\ bfree_bitmap' \subseteq Block /\ nr_free_blocks' \in Nat
      /\ CountsMatchBitmaps' /\ ReservedStayUsed' /\ Run(b, len) \subseteq Block
    BY Zenon, <1>1, <1>2, PutRunSafe
<1>4. BitmapTypeOK'
    BY Zenon, <1>1, <1>3 DEF BitmapTypeOK, PersistBitmap, NoDiscard
<1>5. PendingIsFree' /\ HeldStayFree'
    BY Zenon, <1>1 DEF PendingIsFree, HeldStayFree
<1>6. PendingDiscardSparesLive'
    BY Zenon, <1>1 DEF NoDiscard, PendingDiscardSparesLive
<1> QED BY Zenon, <1>3, <1>4, <1>5, <1>6

LEMMA InodeSafe ==
    ASSUME BitmapInv, GetFreeInode \/ \E ino \in Nat : PutInode(ino)
    PROVE  BitmapInv'
<1> USE DEF BitmapInv
<1>1. /\ PersistBitmap /\ discarded' = NoDiscard
      /\ UNCHANGED <<bfree_bitmap, nr_free_blocks, discard_pending, journal_held>>
    BY Zenon DEF GetFreeInode, PutInode
<1>2. /\ ifree_bitmap' \subseteq Inode /\ 0 \notin ifree_bitmap'
      /\ nr_free_inodes' = Cardinality(ifree_bitmap')
    <2>1. IsFiniteSet(ifree_bitmap)
        BY Zenon, InodesFinite DEF BitmapTypeOK
    <2>2. CASE GetFreeInode
        <3> DEFINE ino == FirstRun(ifree_bitmap, 1, 0)
        <3>1. ino # 0 /\ ifree_bitmap' = ifree_bitmap \ {ino}
              /\ nr_free_inodes' = nr_free_inodes - 1
            BY Zenon, <2>2 DEF GetFreeInode
        <3>2. ifree_bitmap \subseteq Nat
            BY DEF BitmapTypeOK, Inode
        <3>3. ino \in ifree_bitmap
            BY Zenon, <3>1, <3>2, FirstRunIsFree
        <3> HIDE DEF ino
        <3>4. Cardinality(ifree_bitmap') = Cardinality(ifree_bitmap) - 1
            BY Zenon, <2>1, <3>1, <3>3, FS_RemoveElement
        <3> QED BY Zenon, <3>1, <3>4 DEF BitmapTypeOK, CountsMatchBitmaps, ReservedStayUsed
    <2>3. CASE \E ino \in Nat : PutInode(ino)
        <3>1. PICK ino \in Nat : PutInode(ino)
            BY Zenon, <2>3
        <3>2. /\ 0 < ino /\ ino < NrInodes /\ ino \notin ifree_bitmap
              /\ ifree_bitmap' = ifree_bitmap \cup {ino}
              /\ nr_free_inodes' = nr_free_inodes + 1
            BY Zenon, <3>1 DEF PutInode
        <3>3. Cardinality(ifree_bitmap') = Cardinality(ifree_bitmap) + 1
            BY Zenon, <2>1, <3>2, FS_AddElement
        <3>4. ino \in Inode
            BY <3>2, LayoutAssumption DEF Inode
        <3> QED BY <3>2, <3>3, <3>4 DEF BitmapTypeOK, CountsMatchBitmaps, ReservedStayUsed
    <2> QED BY Zenon, <2>2, <2>3
<1>3. Cardinality(ifree_bitmap') \in Nat
    BY Zenon, <1>2, InodesFinite
<1>4. BitmapTypeOK'
    BY Zenon, <1>1, <1>2, <1>3 DEF BitmapTypeOK, PersistBitmap, NoDiscard
<1>5. CountsMatchBitmaps' /\ PendingIsFree' /\ ReservedStayUsed' /\ HeldStayFree'
    BY Zenon, <1>1, <1>2 DEF CountsMatchBitmaps, PendingIsFree, ReservedStayUsed, HeldStayFree
<1>6. PendingDiscardSparesLive'
    BY Zenon, <1>1 DEF NoDiscard, PendingDiscardSparesLive
<1> QED BY Zenon, <1>4, <1>5, <1>6

LEMMA ForceCommitSafe ==
    ASSUME BitmapInv, ForceCommit
    PROVE  BitmapInv'
<1> USE DEF BitmapInv
<1>1. /\ journal_held' = {}
      /\ UNCHANGED <<s_journal, bfree_bitmap, nr_free_blocks, ifree_bitmap, nr_free_inodes,
                     s_shutdown>>
    BY Zenon DEF ForceCommit
<1>2. /\ discard_pending' \subseteq bfree_bitmap
      /\ discarded' \in [by : {"none", "pending", "trim"}, blocks : SUBSET Block]
      /\ PendingDiscardSparesLive'
    <2>1. CASE IssuePending(bfree_bitmap, discard_pending)
        BY Zenon, <1>1, <2>1, IssuePendingSafe
            DEF BitmapTypeOK, PendingIsFree, PendingDiscardSparesLive
    <2>2. CASE discarded' = NoDiscard /\ UNCHANGED discard_pending
        BY Zenon, <2>2 DEF NoDiscard, PendingIsFree, PendingDiscardSparesLive
    <2> QED BY Zenon, <2>1, <2>2 DEF ForceCommit
<1>3. BitmapTypeOK'
    BY Zenon, <1>1, <1>2 DEF BitmapTypeOK
<1> QED BY Zenon, <1>1, <1>2, <1>3
        DEF CountsMatchBitmaps, PendingIsFree, ReservedStayUsed, HeldStayFree

LEMMA TrimFsSafe ==
    ASSUME BitmapInv, NEW start, NEW end, NEW minlen, TrimFs(start, end, minlen)
    PROVE  BitmapInv'
<1> USE DEF BitmapInv
<1>1. /\ UNCHANGED <<bitmapVars, s_shutdown, journal_held>>
      /\ discarded' \in [by : {"trim"}, blocks : SUBSET bfree_bitmap]
    BY DEF TrimFs, LongRuns
<1>2. BitmapTypeOK'
    BY Zenon, <1>1 DEF BitmapTypeOK, bitmapVars
<1>3. PendingDiscardSparesLive'
    BY Zenon, <1>1 DEF PendingDiscardSparesLive
<1> QED BY Zenon, <1>1, <1>2, <1>3
        DEF bitmapVars, CountsMatchBitmaps, PendingIsFree, ReservedStayUsed, HeldStayFree
-----------------------------------------------------------------------------
(* A fresh image satisfies the invariant of the allocator. *)
LEMMA AllocatorStarts == ASSUME AllocatorInit PROVE BitmapInv
<1> USE LayoutAssumption DEF AllocatorInit, BitmapInit
<1>1. Cardinality(bfree_bitmap) = nr_free_blocks
    <2>1. /\ RootDirBlock + 1 \in Int /\ JournalStart - 1 \in Int
          /\ RootDirBlock + 1 > JournalStart - 1 => JournalStart - RootDirBlock - 1 = 0
          /\ (JournalStart - 1) - (RootDirBlock + 1) + 1 = JournalStart - RootDirBlock - 1
        OBVIOUS
    <2> QED BY Zenon, <2>1, FS_Interval
<1>2. Cardinality(ifree_bitmap) = nr_free_inodes
    <2>1. /\ 2 \in Int /\ NrInodes - 1 \in Int
          /\ 2 > NrInodes - 1 => NrInodes - 2 = 0
          /\ (NrInodes - 1) - 2 + 1 = NrInodes - 2
        OBVIOUS
    <2> QED BY Zenon, <2>1, FS_Interval
<1>3. BitmapTypeOK
    <2>1. bfree_bitmap \subseteq Block /\ nr_free_blocks \in Nat
        BY DEF Block
    <2>2. ifree_bitmap \subseteq Inode /\ nr_free_inodes \in Nat
        BY DEF Inode
    <2>3. /\ discard_pending \subseteq Block /\ journal_held \subseteq Block
          /\ s_shutdown \in BOOLEAN
          /\ discarded \in [by : {"none", "pending", "trim"}, blocks : SUBSET Block]
        BY Zenon DEF NoDiscard
    <2> QED BY Zenon, <2>1, <2>2, <2>3 DEF BitmapTypeOK
<1>4. PendingIsFree /\ HeldStayFree /\ ReservedStayUsed /\ PendingDiscardSparesLive
    BY DEF PendingIsFree, HeldStayFree, ReservedStayUsed, PendingDiscardSparesLive, NoDiscard
<1> QED BY Zenon, <1>1, <1>2, <1>3, <1>4 DEF BitmapInv, CountsMatchBitmaps

(***************************************************************************)
(* The allocator keeps all its invariants, for every layout, in both       *)
(* journal modes, with or without online discard, for every discard        *)
(* granularity, and whatever arguments its callers pass to put_blocks and  *)
(* put_inode.                                                              *)
(***************************************************************************)
THEOREM AllocatorSafe == AllocatorSpec => []BitmapInv
<1>1. AllocatorInit => BitmapInv
    BY Zenon, AllocatorStarts
<1>2. BitmapInv /\ [AllocatorNext]_allocatorVars => BitmapInv'
    <2> SUFFICES ASSUME BitmapInv, [AllocatorNext]_allocatorVars PROVE BitmapInv'
        BY Zenon
    <2>0. Block \subseteq Nat /\ 1 .. MaxLen \subseteq Nat /\ bfree_bitmap \subseteq Nat
        BY LayoutAssumption, ModeAssumption DEF Block, BitmapInv, BitmapTypeOK
    <2>1. ASSUME NEW len \in 1 .. MaxLen, GetFreeBlocks(len) PROVE BitmapInv'
        <3> DEFINE run == Run(AllocStart(bfree_bitmap, journal_held, len), len)
        <3>1. /\ AllocStart(bfree_bitmap, journal_held, len) # 0 /\ TakeBlocks(run)
              /\ PersistBitmap /\ discarded' = NoDiscard /\ UNCHANGED journal_held
            BY Zenon, <2>1 DEF GetFreeBlocks
        <3>2. run \subseteq bfree_bitmap \ journal_held
            BY Zenon, <2>0, <3>1, AllocStartIsFree
        <3> HIDE DEF run
        <3> QED BY Zenon, <3>1, <3>2, TakeBlocksSafe
    <2>2. ASSUME NEW len \in 1 .. MaxLen, NEW b \in Block, TakeExactBlocks(b, len)
          PROVE  BitmapInv'
        <3>1. /\ Run(b, len) \subseteq bfree_bitmap \ journal_held /\ TakeBlocks(Run(b, len))
              /\ PersistBitmap /\ discarded' = NoDiscard /\ UNCHANGED journal_held
            BY Zenon, <2>2 DEF TakeExactBlocks
        <3> QED BY Zenon, <3>1, TakeBlocksSafe
    <2>3. ASSUME NEW len \in 1 .. MaxLen, NEW b \in Block, PutBlocks(b, len)
          PROVE  BitmapInv'
        BY Zenon, <2>0, <2>3, PutBlocksSafe
    <2>4. ASSUME NEW len \in 1 .. MaxLen, NEW b \in Block, RetireMetadataBlocks(b, len)
          PROVE  BitmapInv'
        BY Zenon, <2>0, <2>4, RetireMetadataBlocksSafe
    <2>5. ASSUME NEW len, NEW start, NEW end, TrimFs(start, end, len) PROVE BitmapInv'
        BY Zenon, <2>5, TrimFsSafe
    <2>6. CASE GetFreeInode \/ \E ino \in 0 .. NrInodes : PutInode(ino)
        BY <2>6, InodeSafe, LayoutAssumption
    <2>7. CASE ForceCommit
        BY Zenon, <2>7, ForceCommitSafe
    <2>8. CASE UNCHANGED allocatorVars
        BY Zenon, <2>8 DEF allocatorVars, bitmapVars, BitmapInv, BitmapTypeOK, CountsMatchBitmaps,
            PendingIsFree, ReservedStayUsed, PendingDiscardSparesLive, HeldStayFree
    <2> QED BY Zenon, <2>1, <2>2, <2>3, <2>4, <2>5, <2>6, <2>7, <2>8 DEF AllocatorNext
<1> QED BY <1>1, <1>2, PTL DEF AllocatorSpec

(***************************************************************************)
(* The counts the superblock carries are the weights of the bitmaps.       *)
(***************************************************************************)
THEOREM CountsAlwaysMatch == AllocatorSpec => []CountsMatchBitmaps
<1>1. BitmapInv => CountsMatchBitmaps
    BY Zenon DEF BitmapInv
<1> QED BY <1>1, AllocatorSafe, PTL

(***************************************************************************)
(* Online discard never touches a block in use.                            *)
(***************************************************************************)
THEOREM OnlineDiscardSafe == AllocatorSpec => []PendingDiscardSparesLive
<1>1. BitmapInv => PendingDiscardSparesLive
    BY Zenon DEF BitmapInv
<1> QED BY <1>1, AllocatorSafe, PTL

(***************************************************************************)
(* The allocators never hand out a block JBD2 still holds: whatever was    *)
(* retired stays free until the commit that lets it go.                    *)
(***************************************************************************)
THEOREM HeldNeverHandedOut == AllocatorSpec => []HeldStayFree
<1>1. BitmapInv => HeldStayFree
    BY Zenon DEF BitmapInv
<1> QED BY <1>1, AllocatorSafe, PTL

(***************************************************************************)
(* Bits stay within the device and the inode table, and no count goes      *)
(* below zero.                                                             *)
(***************************************************************************)
THEOREM AllocatorTypeCorrect == AllocatorSpec => []BitmapTypeOK
<1>1. BitmapInv => BitmapTypeOK
    BY Zenon DEF BitmapInv
<1> QED BY <1>1, AllocatorSafe, PTL
=============================================================================
