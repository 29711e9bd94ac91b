------------------------ MODULE SimplefsSpaceProofs ------------------------
(***************************************************************************)
(* SingleOwner for every layout and every workload, crashes and errors     *)
(* included.  It is not inductive: between the handles of one operation    *)
(* blocks are neither free nor mapped, and what protects them is the       *)
(* operation that has them in hand.  OwnerInv counts those as claimed.     *)
(* The second half ties the log to the trees it may be replayed into.      *)
(***************************************************************************)
EXTENDS SimplefsSpace, TLAPS

(* What f owns or has in hand. *)
Claimed(f) == metas[f] \cup unwritten[f] \cup written[f] \cup op[f].blocks

(* The claims of one inode: of one kind each, in the data area, in use. *)
ClaimsSound(f) ==
    /\ Claimed(f) \subseteq DataArea \ bfree_bitmap
    /\ metas[f] \cap (unwritten[f] \cup written[f]) = {}
    /\ unwritten[f] \cap written[f] = {}
    /\ op[f].blocks \cap (metas[f] \cup unwritten[f] \cup written[f]) = {}
    /\ f \in ifree_bitmap => Claimed(f) = {}

ClaimsDisjoint == \A f, g \in File : f # g => Claimed(f) \cap Claimed(g) = {}

Maps == [File -> SUBSET DataArea]
Hands == [File -> [kind : {"idle", "alloc", "grow", "free"}, by : Allocs \cup {"none"},
                   blocks : SUBSET DataArea]]

(***************************************************************************)
(* A fact about the search and not about the state (SimplefsBitmapProofs   *)
(* proves it), carried in the invariant so that the steps below do without *)
(* the theory of well-founded relations and of finite sets.                *)
(***************************************************************************)
LeastExists == \A S \in SUBSET Nat : S # {} => Least(S) \in S

ClaimsInv ==
    /\ LeastExists
    /\ metas \in Maps /\ unwritten \in Maps /\ written \in Maps
    /\ op \in Hands
    /\ bfree_bitmap \subseteq DataArea
    /\ ifree_bitmap \subseteq File
    /\ \A f \in File : ClaimsSound(f)
    /\ ClaimsDisjoint

(* An image a mount can start from. *)
GoodImage(img) ==
    /\ SoundImage(img)
    /\ img.metas \in Maps /\ img.unwritten \in Maps /\ img.written \in Maps

OwnerInv == ClaimsInv /\ GoodImage(committing.img) /\ GoodImage(durable)

blockVars == <<bfree_bitmap, ifree_bitmap, metas, unwritten, written, op>>
-----------------------------------------------------------------------------
LEMMA ClaimsGiveImage ==
    ASSUME ClaimsInv
    PROVE  GoodImage(Image)
BY Zenon DEF ClaimsInv, ClaimsSound, ClaimsDisjoint, Claimed, GoodImage, SoundImage, Owned, Image

LEMMA ClaimsUnchanged ==
    ASSUME ClaimsInv, UNCHANGED blockVars
    PROVE  ClaimsInv'
BY Zenon DEF ClaimsInv, ClaimsSound, ClaimsDisjoint, Claimed, blockVars

(***************************************************************************)
(* The argument every operation of an inode shares: it moves blocks        *)
(* between its own claims and the free bitmap, and touches no other inode. *)
(***************************************************************************)
LEMMA LocalStep ==
    ASSUME ClaimsInv, NEW f \in File,
           metas' \in Maps, unwritten' \in Maps, written' \in Maps, op' \in Hands,
           \A g \in File \ {f} :
               /\ metas'[g] = metas[g] /\ unwritten'[g] = unwritten[g]
               /\ written'[g] = written[g] /\ op'[g] = op[g],
           Claimed(f)' \cup bfree_bitmap' \subseteq Claimed(f) \cup bfree_bitmap,
           ifree_bitmap' \subseteq ifree_bitmap \cup {f},
           ClaimsSound(f)'
    PROVE  ClaimsInv'
<1>1. bfree_bitmap' \subseteq DataArea /\ ifree_bitmap' \subseteq File
    BY Zenon DEF ClaimsInv, ClaimsSound, Claimed
<1>2. ASSUME NEW g \in File \ {f} PROVE Claimed(g)' = Claimed(g)
    BY Zenon DEF Claimed
<1>3. ASSUME NEW g \in File \ {f}
      PROVE  /\ Claimed(g) \cap (Claimed(f)' \cup bfree_bitmap') = {}
             /\ ClaimsSound(g)'
    <2>1. Claimed(g) \cap Claimed(f) = {} /\ Claimed(g) \cap bfree_bitmap = {}
        BY Zenon DEF ClaimsInv, ClaimsDisjoint, ClaimsSound
    <2>2. Claimed(g) \cap (Claimed(f)' \cup bfree_bitmap') = {}
        BY Zenon, <2>1
    <2>3. /\ metas'[g] = metas[g] /\ unwritten'[g] = unwritten[g]
          /\ written'[g] = written[g] /\ op'[g] = op[g]
          /\ g \in ifree_bitmap' => g \in ifree_bitmap
        BY Zenon
    <2>4. ClaimsSound(g)
        BY Zenon DEF ClaimsInv
    <2> QED BY Zenon, <1>2, <2>2, <2>3, <2>4 DEF ClaimsSound
<1>4. ClaimsDisjoint'
    BY <1>2, <1>3 DEF ClaimsInv, ClaimsDisjoint
<1> QED BY Zenon, <1>1, <1>3, <1>4 DEF ClaimsInv
-----------------------------------------------------------------------------
(* What the allocator calls do to the block bitmap. *)
LEMMA AreaInside == DataArea \subseteq Block /\ File \subseteq Inode
BY LayoutAssumption DEF DataArea, Block, File

LEMMA FoundIsFree ==
    ASSUME LeastExists, NEW freemap \in SUBSET Nat, NEW len, NEW start,
           FirstRun(freemap, len, start) # 0
    PROVE  /\ FirstRun(freemap, len, start) \in freemap
           /\ Run(FirstRun(freemap, len, start), len) \subseteq freemap
<1> DEFINE S == RunStarts(freemap, len, start)
<1>1. S # {} /\ FirstRun(freemap, len, start) = Least(S)
    BY Zenon DEF FirstRun
<1>2. S \subseteq freemap /\ \A b \in S : Run(b, len) \subseteq freemap
    BY Zenon DEF RunStarts
<1>3. Least(S) \in S
    <2> HIDE DEF S
    <2> QED BY Zenon, <1>1, <1>2 DEF LeastExists
<1> QED BY Zenon, <1>1, <1>2, <1>3

LEMMA FreeAreNumbers == ASSUME ClaimsInv PROVE bfree_bitmap \subseteq Nat
BY LayoutAssumption DEF ClaimsInv, DataArea

LEMMA GetTakesFreeRun ==
    ASSUME ClaimsInv, NEW len, GetFreeBlocks(len)
    PROVE  LET run == Run(AllocStart(bfree_bitmap, journal_held, len), len)
           IN  /\ run \subseteq bfree_bitmap /\ bfree_bitmap' = bfree_bitmap \ run
               /\ AllocStart(bfree_bitmap, journal_held, len) \in bfree_bitmap
               /\ UNCHANGED ifree_bitmap
<1> DEFINE b == AllocStart(bfree_bitmap, journal_held, len)
<1>1. b # 0 /\ TakeBlocks(Run(b, len))
    BY Zenon DEF GetFreeBlocks
<1>2. b \in bfree_bitmap /\ Run(b, len) \subseteq bfree_bitmap
    BY Zenon, <1>1, FreeAreNumbers, FoundIsFree DEF ClaimsInv, AllocStart
<1> QED BY Zenon, <1>1, <1>2 DEF TakeBlocks

LEMMA PutFreesRun ==
    ASSUME NEW b, NEW len, PutBlocks(b, len)
    PROVE  bfree_bitmap' = bfree_bitmap \cup Run(b, len) /\ UNCHANGED ifree_bitmap
BY Zenon DEF PutBlocks, GiveBlocks
-----------------------------------------------------------------------------
(* A create takes a free inode number and a free block. *)
LEMMA CreateTakesFree ==
    ASSUME ClaimsInv, Create
    PROVE  \E f \in ifree_bitmap, b \in bfree_bitmap :
              /\ ifree_bitmap' = ifree_bitmap \ {f} /\ bfree_bitmap' = bfree_bitmap \ {b}
              /\ AttachMeta(f, b) /\ UNCHANGED <<unwritten, written, op>>
<1> DEFINE ino == FirstRun(ifree_bitmap, 1, 0)
           blk == AllocStart(bfree_bitmap, journal_held, 1)
<1>1. ifree_bitmap \subseteq Nat
    BY LayoutAssumption DEF ClaimsInv, File, Inode
<1>2. /\ ino # 0 /\ blk # 0 /\ AttachMeta(ino, blk)
      /\ ifree_bitmap' = ifree_bitmap \ {ino} /\ bfree_bitmap' = bfree_bitmap \ {blk}
      /\ UNCHANGED <<unwritten, written, op>>
    BY Zenon DEF Create
<1>3. ino \in ifree_bitmap
    BY Zenon, <1>1, <1>2, FoundIsFree DEF ClaimsInv
<1>4. blk \in bfree_bitmap
    BY Zenon, <1>2, FreeAreNumbers, FoundIsFree DEF ClaimsInv, AllocStart
<1> HIDE DEF ino, blk
<1> QED BY Zenon, <1>2, <1>3, <1>4

LEMMA CreateKeepsClaims ==
    ASSUME ClaimsInv, Create
    PROVE  ClaimsInv'
<1>1. PICK f \in ifree_bitmap, b \in bfree_bitmap :
          /\ ifree_bitmap' = ifree_bitmap \ {f} /\ bfree_bitmap' = bfree_bitmap \ {b}
          /\ AttachMeta(f, b) /\ UNCHANGED <<unwritten, written, op>>
    BY Zenon, CreateTakesFree
<1>3. f \in ifree_bitmap /\ f \in File
    BY Zenon, <1>1 DEF ClaimsInv
<1>4. b \in bfree_bitmap
    BY Zenon, <1>1
<1>5. Claimed(f) = {}
    BY Zenon, <1>3 DEF ClaimsInv, ClaimsSound
<1>6. metas' \in Maps /\ metas'[f] \in {{}, {b}} /\ \A g \in File \ {f} : metas'[g] = metas[g]
    <2>1. CASE s_shutdown'
        BY Zenon, <1>1, <1>3, <1>5, <2>1 DEF AttachMeta, ClaimsInv, Claimed
    <2>2. CASE ~s_shutdown'
        BY <1>1, <1>3, <1>4, <1>5, <2>2 DEF AttachMeta, ClaimsInv, Claimed, Maps
    <2> QED BY Zenon, <2>1, <2>2
<1>7. Claimed(f)' = metas'[f] /\ unwritten'[f] = {} /\ written'[f] = {} /\ op'[f].blocks = {}
    BY Zenon, <1>1, <1>5 DEF Claimed
<1>8. ClaimsSound(f)'
    BY <1>1, <1>4, <1>6, <1>7 DEF ClaimsSound, ClaimsInv
<1> QED BY Zenon, <1>1, <1>3, <1>4, <1>6, <1>7, <1>8, LocalStep DEF ClaimsInv

LEMMA AddMetaKeepsClaims ==
    ASSUME ClaimsInv, NEW f \in File, AddMeta(f)
    PROVE  ClaimsInv'
<1>1. UNCHANGED <<unwritten, written, op>> /\ GetFreeBlocks(1) /\ Live(f)
    BY Zenon DEF AddMeta
<1>2. PICK b \in bfree_bitmap :
          /\ AttachMeta(f, b) /\ Run(b, 1) \subseteq bfree_bitmap
          /\ bfree_bitmap' = bfree_bitmap \ Run(b, 1) /\ UNCHANGED ifree_bitmap
    BY Zenon, <1>1, GetTakesFreeRun DEF AddMeta
<1>3. Run(b, 1) = {b}
    BY <1>2, FreeAreNumbers DEF Run
<1>4. f \notin ifree_bitmap
    BY Zenon, <1>1 DEF Live, ClaimsInv, ClaimsSound, Claimed
<1>5. /\ metas' \in Maps /\ metas'[f] \in {metas[f], metas[f] \cup {b}}
      /\ \A g \in File \ {f} : metas'[g] = metas[g]
    BY <1>1, <1>2 DEF AttachMeta, ClaimsInv, Maps
<1>6. ClaimsSound(f)
    BY Zenon DEF ClaimsInv
<1>7. ClaimsSound(f)' /\ Claimed(f)' \cup bfree_bitmap' \subseteq Claimed(f) \cup bfree_bitmap
    BY <1>1, <1>2, <1>3, <1>4, <1>5, <1>6 DEF ClaimsSound, Claimed, ClaimsInv
<1> QED BY Zenon, <1>1, <1>2, <1>5, <1>7, LocalStep DEF ClaimsInv

LEMMA RetireMetaKeepsClaims ==
    ASSUME ClaimsInv, NEW f \in File, NEW b \in Block, RetireMeta(f, b)
    PROVE  ClaimsInv'
<1>1. /\ b \in metas[f] /\ metas' = [metas EXCEPT ![f] = @ \ {b}]
      /\ UNCHANGED <<unwritten, written, op, ifree_bitmap>>
      /\ bfree_bitmap' = bfree_bitmap \cup Run(b, 1)
    BY Zenon DEF RetireMeta, Drop, RetireMetadataBlocks, GiveBlocks
<1>2. Run(b, 1) = {b}
    BY LayoutAssumption DEF Run, Block
<1>3. ClaimsSound(f)
    BY Zenon DEF ClaimsInv
<1>4. /\ metas' \in Maps /\ metas'[f] = metas[f] \ {b}
      /\ \A g \in File \ {f} : metas'[g] = metas[g]
    BY Zenon, <1>1 DEF ClaimsInv, Maps
<1>5. ClaimsSound(f)' /\ Claimed(f)' \cup bfree_bitmap' \subseteq Claimed(f) \cup bfree_bitmap
    BY Zenon, <1>1, <1>2, <1>3, <1>4 DEF ClaimsSound, Claimed, ClaimsInv
<1> QED BY <1>1, <1>4, <1>5, LocalStep, Zenon DEF ClaimsInv
-----------------------------------------------------------------------------
(* A run taken from the free bitmap comes into the hands of the operation. *)
LEMMA TakenInHand ==
    ASSUME ClaimsInv, NEW f \in File, NEW run, run \subseteq bfree_bitmap,
           NEW kind \in {"alloc", "grow"}, NEW by \in Allocs,
           op[f] = Idle, f \notin ifree_bitmap,
           bfree_bitmap' = bfree_bitmap \ run,
           op' \in {op, [op EXCEPT ![f] = [kind |-> kind, by |-> by, blocks |-> run]]},
           UNCHANGED <<ifree_bitmap, fileVars>>
    PROVE  ClaimsInv'
<1>1. ClaimsSound(f) /\ run \subseteq DataArea /\ op[f].blocks = {}
    BY DEF ClaimsInv, Idle
<1>2. /\ op' \in Hands /\ op'[f].blocks \in {{}, run}
      /\ \A g \in File \ {f} : op'[g] = op[g]
    <2>1. CASE op' = op
        BY Zenon, <1>1, <2>1 DEF ClaimsInv
    <2>2. CASE op' = [op EXCEPT ![f] = [kind |-> kind, by |-> by, blocks |-> run]]
        BY Zenon, <1>1, <2>2 DEF ClaimsInv, Hands
    <2> QED BY Zenon, <2>1, <2>2
<1>3. metas' = metas /\ unwritten' = unwritten /\ written' = written
    BY Zenon DEF fileVars
<1>4. ClaimsSound(f)' /\ Claimed(f)' \cup bfree_bitmap' \subseteq Claimed(f) \cup bfree_bitmap
    BY Zenon, <1>1, <1>2, <1>3 DEF ClaimsSound, Claimed
<1> QED BY Zenon, <1>2, <1>3, <1>4, LocalStep DEF ClaimsInv

LEMMA AllocKeepsClaims ==
    ASSUME ClaimsInv, NEW f \in File, NEW len \in 1 .. MaxLen, NEW by \in Allocs,
           AllocBlocks(f, len, by) \/ \E last \in Block : GrowExtent(f, last, len, by)
    PROVE  ClaimsInv'
<1>1. CASE AllocBlocks(f, len, by)
    <2>1. Live(f) /\ op[f] = Idle /\ GetFreeBlocks(len) /\ UNCHANGED fileVars
        BY Zenon, <1>1 DEF AllocBlocks
    <2>2. f \notin ifree_bitmap
        BY Zenon, <2>1 DEF Live, ClaimsInv, ClaimsSound, Claimed
    <2>3. PICK run \in SUBSET bfree_bitmap :
              /\ bfree_bitmap' = bfree_bitmap \ run /\ UNCHANGED ifree_bitmap
              /\ op' \in {op, [op EXCEPT ![f] = [kind |-> "alloc", by |-> by,
                                                 blocks |-> run]]}
        <3> DEFINE r == Run(AllocStart(bfree_bitmap, journal_held, len), len)
        <3>1. op' \in {op, [op EXCEPT ![f] = [kind |-> "alloc", by |-> by,
                                              blocks |-> r]]}
            BY Zenon, <1>1 DEF AllocBlocks
        <3>2. r \in SUBSET bfree_bitmap /\ bfree_bitmap' = bfree_bitmap \ r
              /\ UNCHANGED ifree_bitmap
            BY Zenon, <2>1, GetTakesFreeRun
        <3> HIDE DEF r
        <3> QED BY Zenon, <3>1, <3>2
    <2> QED BY Zenon, <2>1, <2>2, <2>3, TakenInHand
<1>2. CASE \E last \in Block : GrowExtent(f, last, len, by)
    <2>1. PICK last \in Block : GrowExtent(f, last, len, by)
        BY Zenon, <1>2
    <2>2. /\ op[f] = Idle /\ UNCHANGED fileVars /\ TakeExactBlocks(last + 1, len)
          /\ last \in written[f] \cup unwritten[f]
          /\ op' \in {op, [op EXCEPT ![f] = [kind |-> "grow", by |-> by,
                                             blocks |-> Run(last + 1, len)]]}
        BY Zenon, <2>1 DEF GrowExtent
    <2>3. f \notin ifree_bitmap
        BY Zenon, <2>2 DEF ClaimsInv, ClaimsSound, Claimed
    <2>4. /\ Run(last + 1, len) \subseteq bfree_bitmap
          /\ bfree_bitmap' = bfree_bitmap \ Run(last + 1, len) /\ UNCHANGED ifree_bitmap
        BY Zenon, <2>2 DEF TakeExactBlocks, TakeBlocks
    <2> QED BY Zenon, <2>2, <2>3, <2>4, TakenInHand
<1> QED BY Zenon, <1>1, <1>2

LEMMA PublishKeepsClaims ==
    ASSUME ClaimsInv, NEW f \in File, Publish(f)
    PROVE  ClaimsInv'
<1>1. /\ UNCHANGED <<bfree_bitmap, ifree_bitmap, metas>> /\ op' = [op EXCEPT ![f] = Idle]
      /\ \/ /\ written' = [written EXCEPT ![f] = @ \cup op[f].blocks]
            /\ UNCHANGED unwritten
         \/ /\ unwritten' = [unwritten EXCEPT ![f] = @ \cup op[f].blocks]
            /\ UNCHANGED written
    BY Zenon DEF Publish, bitmapVars
<1>2. op' \in Hands /\ op'[f].blocks = {} /\ \A g \in File \ {f} : op'[g] = op[g]
    BY Zenon, <1>1 DEF ClaimsInv, Hands, Idle
<1>3. ClaimsSound(f) /\ op[f].blocks \subseteq DataArea
    BY Zenon DEF ClaimsInv, Hands
<1>4. /\ unwritten' \in Maps /\ written' \in Maps
      /\ \A g \in File \ {f} : unwritten'[g] = unwritten[g] /\ written'[g] = written[g]
      /\ \/ written'[f] = written[f] \cup op[f].blocks /\ unwritten'[f] = unwritten[f]
         \/ unwritten'[f] = unwritten[f] \cup op[f].blocks /\ written'[f] = written[f]
    BY Zenon, <1>1, <1>3 DEF ClaimsInv, Maps
<1>5. Claimed(f)' = Claimed(f) /\ ClaimsSound(f)'
    BY Zenon, <1>1, <1>2, <1>3, <1>4 DEF ClaimsSound, Claimed
<1> QED BY <1>1, <1>2, <1>4, <1>5, LocalStep, Zenon DEF ClaimsInv

(* Blocks in hand go back to the free bitmap, all or some of them. *)
LEMMA HandGivesBack ==
    ASSUME ClaimsInv, NEW f \in File, NEW run, run \subseteq op[f].blocks,
           bfree_bitmap' = bfree_bitmap \cup run,
           NEW hand, hand \in [kind : {"idle", "alloc", "grow", "free"}, by : Allocs \cup {"none"},
                               blocks : SUBSET (op[f].blocks \ run)],
           op' = [op EXCEPT ![f] = hand],
           UNCHANGED <<ifree_bitmap, fileVars>>
    PROVE  ClaimsInv'
<1>1. ClaimsSound(f) /\ op[f].blocks \subseteq DataArea
    BY Zenon DEF ClaimsInv, Hands
<1>2. /\ op' \in Hands /\ op'[f].blocks \subseteq op[f].blocks \ run
      /\ \A g \in File \ {f} : op'[g] = op[g]
    BY Zenon, <1>1 DEF ClaimsInv, Hands
<1>3. metas' = metas /\ unwritten' = unwritten /\ written' = written
    BY Zenon DEF fileVars
<1>4. ClaimsSound(f)' /\ Claimed(f)' \cup bfree_bitmap' \subseteq Claimed(f) \cup bfree_bitmap
    BY Zenon, <1>1, <1>2, <1>3 DEF ClaimsSound, Claimed
<1> QED BY <1>2, <1>3, <1>4, LocalStep, Zenon DEF ClaimsInv

LEMMA PublishFailsKeepsClaims ==
    ASSUME ClaimsInv, NEW f \in File, PublishFails(f)
    PROVE  ClaimsInv'
<1>1. op' = [op EXCEPT ![f] = Idle] /\ UNCHANGED fileVars
    BY Zenon DEF PublishFails
<1>2. \E run \in {{}, op[f].blocks} :
          bfree_bitmap' = bfree_bitmap \cup run /\ UNCHANGED ifree_bitmap
    <2>1. CASE PutBack(f)
        BY Zenon, <2>1, PutFreesRun DEF PutBack
    <2>2. CASE UNCHANGED bitmapVars
        BY Zenon, <2>2 DEF bitmapVars
    <2> QED BY Zenon, <2>1, <2>2 DEF PublishFails
<1>3. ASSUME NEW run
      PROVE Idle \in [kind : {"idle", "alloc", "grow", "free"}, by : Allocs \cup {"none"},
                      blocks : SUBSET (op[f].blocks \ run)]
    BY Zenon DEF Idle
<1> QED BY <1>1, <1>2, <1>3, HandGivesBack, Zenon

LEMMA FreeRangeKeepsClaims ==
    ASSUME ClaimsInv, NEW f \in File, NEW b \in Block, NEW len, FreeRange(f, b, len)
    PROVE  ClaimsInv'
<1> DEFINE run == Run(b, len)
           hand == IF op[f].blocks = run THEN Idle
                   ELSE [kind |-> "free", by |-> "none", blocks |-> op[f].blocks \ run]
<1>1. /\ run \subseteq op[f].blocks /\ PutBlocks(b, len) /\ UNCHANGED fileVars
      /\ op' = [op EXCEPT ![f] = hand]
    BY Zenon DEF FreeRange
<1>2. bfree_bitmap' = bfree_bitmap \cup run /\ UNCHANGED ifree_bitmap
    BY Zenon, <1>1, PutFreesRun
<1>3. hand \in [kind : {"idle", "alloc", "grow", "free"}, by : Allocs \cup {"none"},
                blocks : SUBSET (op[f].blocks \ run)]
    BY Zenon DEF ClaimsInv, Hands, Idle
<1> HIDE DEF run, hand
<1> QED BY <1>1, <1>2, <1>3, HandGivesBack, Zenon

LEMMA UnpublishKeepsClaims ==
    ASSUME ClaimsInv, NEW f \in File, NEW gone \in SUBSET Block, Unpublish(f, gone)
    PROVE  ClaimsInv'
<1>1. /\ UNCHANGED <<bfree_bitmap, ifree_bitmap, metas>>
      /\ unwritten' = [unwritten EXCEPT ![f] = @ \ gone]
      /\ written' = [written EXCEPT ![f] = @ \ gone]
      /\ op' = [op EXCEPT ![f] = [kind |-> "free", by |-> "none", blocks |-> gone]]
      /\ op[f].blocks = {} /\ gone \subseteq unwritten[f] \cup written[f]
    BY DEF Unpublish, bitmapVars, Drop, Idle, Mapped
<1>2. ClaimsSound(f) /\ gone \subseteq DataArea
    BY Zenon, <1>1 DEF ClaimsInv, Maps
<1>3. op' \in Hands /\ op'[f].blocks = gone /\ \A g \in File \ {f} : op'[g] = op[g]
    BY Zenon, <1>1, <1>2 DEF ClaimsInv, Hands
<1>4. /\ unwritten' \in Maps /\ written' \in Maps
      /\ unwritten'[f] = unwritten[f] \ gone /\ written'[f] = written[f] \ gone
      /\ \A g \in File \ {f} : unwritten'[g] = unwritten[g] /\ written'[g] = written[g]
    BY Zenon, <1>1 DEF ClaimsInv, Maps
<1>5. Claimed(f)' = Claimed(f) /\ ClaimsSound(f)'
    BY Zenon, <1>1, <1>2, <1>3, <1>4 DEF ClaimsSound, Claimed
<1> QED BY <1>1, <1>3, <1>4, <1>5, LocalStep, Zenon DEF ClaimsInv

LEMMA EvictKeepsClaims ==
    ASSUME ClaimsInv, NEW f \in File, Evict(f)
    PROVE  ClaimsInv'
<1>1. /\ metas' = [metas EXCEPT ![f] = {}] /\ unwritten' = [unwritten EXCEPT ![f] = {}]
      /\ written' = [written EXCEPT ![f] = {}] /\ op' = op /\ op[f].blocks = {}
      /\ ifree_bitmap' \in {ifree_bitmap, ifree_bitmap \cup {f}}
    <2>1. op[f] = Idle /\ op' = op
        BY Zenon DEF Evict
    <2>2. ifree_bitmap' \in {ifree_bitmap, ifree_bitmap \cup {f}}
        BY Zenon DEF Evict
    <2>3. /\ metas' = [metas EXCEPT ![f] = {}] /\ unwritten' = [unwritten EXCEPT ![f] = {}]
          /\ written' = [written EXCEPT ![f] = {}]
        BY Zenon DEF Evict
    <2> QED BY <2>1, <2>2, <2>3 DEF Idle
<1>2. PICK freed \in SUBSET (metas[f] \cup unwritten[f] \cup written[f]) :
          bfree_bitmap' = bfree_bitmap \cup freed
    BY Zenon DEF Evict, EvictBlocks, Mapped
<1>3. ClaimsSound(f)
    BY Zenon DEF ClaimsInv
<1>4. /\ metas' \in Maps /\ unwritten' \in Maps /\ written' \in Maps
      /\ metas'[f] = {} /\ unwritten'[f] = {} /\ written'[f] = {}
      /\ \A g \in File \ {f} : /\ metas'[g] = metas[g] /\ unwritten'[g] = unwritten[g]
                               /\ written'[g] = written[g]
    BY Zenon, <1>1 DEF ClaimsInv, Maps
<1>5. ClaimsSound(f)' /\ Claimed(f)' \cup bfree_bitmap' \subseteq Claimed(f) \cup bfree_bitmap
    BY Zenon, <1>1, <1>2, <1>3, <1>4 DEF ClaimsSound, Claimed
<1> QED BY <1>1, <1>4, <1>5, LocalStep, ZenonT(30) DEF ClaimsInv

LEMMA FinishIoendKeepsClaims ==
    ASSUME ClaimsInv, NEW f \in File, NEW b \in Block, FinishIoend(f, b)
    PROVE  ClaimsInv'
<1>1. UNCHANGED <<bfree_bitmap, ifree_bitmap, metas, op>>
    BY Zenon DEF FinishIoend, bitmapVars
<1>2. CASE UNCHANGED <<unwritten, written>>
    BY Zenon, <1>1, <1>2, ClaimsUnchanged DEF blockVars
<1>3. CASE /\ b \in unwritten[f]
           /\ unwritten' = [unwritten EXCEPT ![f] = @ \ {b}]
           /\ written' = [written EXCEPT ![f] = @ \cup {b}]
    <2>1. ClaimsSound(f) /\ b \in DataArea
        BY Zenon, <1>3 DEF ClaimsInv, Maps
    <2>2. /\ unwritten' \in Maps /\ written' \in Maps
          /\ unwritten'[f] = unwritten[f] \ {b} /\ written'[f] = written[f] \cup {b}
          /\ \A g \in File \ {f} : unwritten'[g] = unwritten[g] /\ written'[g] = written[g]
        BY Zenon, <1>3, <2>1 DEF ClaimsInv, Maps
    <2>3. Claimed(f)' = Claimed(f) /\ ClaimsSound(f)'
        BY <1>1, <1>3, <2>1, <2>2 DEF ClaimsSound, Claimed
    <2> QED BY Zenon, <1>1, <2>2, <2>3, LocalStep DEF ClaimsInv
<1> QED BY Zenon, <1>2, <1>3 DEF FinishIoend
-----------------------------------------------------------------------------
LEMMA FileStepKeepsClaims ==
    ASSUME ClaimsInv, NEW f \in File, FileStep(f)
    PROVE  ClaimsInv'
<1>1. CASE AddMeta(f)
    BY Zenon, <1>1, AddMetaKeepsClaims
<1>2. CASE \E b \in Block : RetireMeta(f, b)
    BY Zenon, <1>2, RetireMetaKeepsClaims
<1>3. CASE \E b \in Block : SubmitBio(f, b) \/ EndBio(f, b)
    <2>1. UNCHANGED blockVars
        BY Zenon, <1>3 DEF SubmitBio, EndBio, bitmapVars, fileVars, blockVars
    <2> QED BY Zenon, <2>1, ClaimsUnchanged
<1>4. CASE \E b \in Block : FinishIoend(f, b)
    BY Zenon, <1>4, FinishIoendKeepsClaims
<1>5. CASE \E len \in 1 .. MaxLen, by \in Allocs :
               AllocBlocks(f, len, by) \/ \E last \in Block : GrowExtent(f, last, len, by)
    BY Zenon, <1>5, AllocKeepsClaims
<1>6. CASE \E gone \in SUBSET Block : Unpublish(f, gone)
    BY Zenon, <1>6, UnpublishKeepsClaims
<1>7. CASE \E b \in Block, len \in 1 .. NrBlocks : FreeRange(f, b, len)
    BY Zenon, <1>7, FreeRangeKeepsClaims
<1>8. CASE Publish(f)
    BY Zenon, <1>8, PublishKeepsClaims
<1>9. CASE PublishFails(f)
    BY Zenon, <1>9, PublishFailsKeepsClaims
<1>10. CASE Evict(f)
    BY Zenon, <1>10, EvictKeepsClaims
<1> QED BY Zenon, <1>1, <1>2, <1>3, <1>4, <1>5, <1>6, <1>7, <1>8, <1>9, <1>10 DEF FileStep

LEMMA FileStepLeavesImages ==
    ASSUME NEW f \in File, FileStep(f)
    PROVE  UNCHANGED logVars
BY Zenon DEF FileStep, AddMeta, RetireMeta, SubmitBio, EndBio, FinishIoend, AllocBlocks, GrowExtent,
    Unpublish, FreeRange, Publish, PublishFails, Evict

(* A crash leaves the image a recovery restores, with nothing in hand. *)
LEMMA CrashKeepsClaims ==
    ASSUME LeastExists, GoodImage(durable), Crash
    PROVE  ClaimsInv'
<1>1. /\ bfree_bitmap' = durable.bfree /\ ifree_bitmap' = durable.ifree
      /\ metas' = durable.metas /\ unwritten' = durable.unwritten
      /\ written' = durable.written /\ op' = [f \in File |-> Idle]
    BY Zenon DEF Crash, RecoveredBitmap
<1>2. op' \in Hands /\ \A f \in File : op'[f].blocks = {}
    BY Zenon, <1>1 DEF Hands, Idle
<1>3. ASSUME NEW f \in File PROVE Claimed(f)' = Owned(durable, f)
    BY Zenon, <1>1, <1>2 DEF Claimed, Owned
<1>4. ASSUME NEW f \in File PROVE ClaimsSound(f)'
    BY Zenon, <1>1, <1>2, <1>3 DEF ClaimsSound, GoodImage, SoundImage
<1>5. ClaimsDisjoint'
    BY Zenon, <1>3 DEF ClaimsDisjoint, GoodImage, SoundImage
<1> QED BY Zenon, <1>1, <1>2, <1>4, <1>5 DEF ClaimsInv, GoodImage, SoundImage

LEMMA JournalStepKeepsOwners ==
    ASSUME OwnerInv, JournalStep
    PROVE  OwnerInv'
<1>0. GoodImage(Image)
    BY Zenon, ClaimsGiveImage DEF OwnerInv
<1>1. CASE CommitStart
    <2>1. UNCHANGED blockVars /\ committing'.img = Image /\ durable' = durable
        BY Zenon, <1>1 DEF CommitStart, bitmapVars, fileVars, blockVars
    <2> QED BY Zenon, <1>0, <2>1, ClaimsUnchanged DEF OwnerInv
<1>2. CASE CommitDone
    <2>1. UNCHANGED blockVars /\ committing'.img = committing.img /\ durable' = committing.img
        BY Zenon, <1>2 DEF CommitDone, bitmapVars, fileVars, blockVars
    <2> QED BY Zenon, <2>1, ClaimsUnchanged DEF OwnerInv
<1>3. CASE (\E b \in Block : Checkpoint(b)) \/ JournalFail
    <2>1. UNCHANGED blockVars /\ UNCHANGED <<committing, durable>>
        BY Zenon, <1>3 DEF Checkpoint, JournalFail, bitmapVars, fileVars, blockVars, logVars
    <2> QED BY Zenon, <2>1, ClaimsUnchanged DEF OwnerInv
<1>4. CASE \E fs \in {{}} \cup {{f} : f \in File} : SyncCommit(fs)
    <2>1. UNCHANGED blockVars /\ committing'.img = Image /\ durable' = Image
        BY SMTT(30), <1>4 DEF SyncCommit, ForceCommit, ForcedImage, fileVars, blockVars
    <2> QED BY Zenon, <1>0, <2>1, ClaimsUnchanged DEF OwnerInv
<1>5. CASE Crash
    <2>1. committing'.img = durable /\ durable' = durable
        BY Zenon, <1>5 DEF Crash
    <2> QED BY Zenon, <1>5, <2>1, CrashKeepsClaims DEF OwnerInv, ClaimsInv
<1> QED BY Zenon, <1>1, <1>2, <1>3, <1>4, <1>5 DEF JournalStep

LEMMA OwnerNextKeeps ==
    ASSUME OwnerInv, [Next]_spaceVars
    PROVE  OwnerInv'
<1>1. CASE Create
    <2>1. UNCHANGED <<committing, durable>>
        BY Zenon, <1>1 DEF Create, logVars
    <2> QED BY Zenon, <1>1, <2>1, CreateKeepsClaims DEF OwnerInv
<1>2. CASE \E f \in File : FileStep(f)
    <2>1. UNCHANGED <<committing, durable>>
        BY Zenon, <1>2, FileStepLeavesImages DEF logVars
    <2> QED BY Zenon, <1>2, <2>1, FileStepKeepsClaims DEF OwnerInv
<1>3. CASE JournalStep
    BY Zenon, <1>3, JournalStepKeepsOwners
<1>4. CASE Trim \/ UNCHANGED spaceVars
    <2>1. UNCHANGED blockVars /\ UNCHANGED <<committing, durable>>
        BY <1>4, Zenon DEF Trim, TrimFs, spaceVars, allocatorVars, bitmapVars, fileVars, logVars,
            blockVars
    <2> QED BY Zenon, <2>1, ClaimsUnchanged DEF OwnerInv
<1> QED BY Zenon, <1>1, <1>2, <1>3, <1>4 DEF Next
-----------------------------------------------------------------------------
(* The image the log holds of b is the one of its owner in a tree. *)
LoggedFor(b, maps) == \E f \in File : log[b] = Meta(f) /\ b \in maps[f]

Stale(b) == b \in txn.revoked \cup committing.txn.revoked

(***************************************************************************)
(* ReplayHitsOwner is about the durable tree and is not inductive: the     *)
(* commit under way replaces that tree.  So the log is tied to the tree of *)
(* the commit and to the one in memory as well, up to what they revoke.    *)
(***************************************************************************)
LogInv ==
    /\ ~committing.active => committing.txn = EmptyTxn
    /\ \A b \in Block : log[b] # Blank /\ ~Stale(b) => LoggedFor(b, metas)
    /\ committing.active =>
          /\ \A f \in File : committing.img.metas[f] \subseteq metas[f] \cup txn.revoked
          /\ \A b \in Block : log[b] # Blank /\ b \notin committing.txn.revoked
                                 => LoggedFor(b, committing.img.metas)
    /\ ReplayHitsOwner

(* A step that keeps the log, and revokes what it takes out of a tree. *)
LEMMA LogFrame ==
    ASSUME LogInv, UNCHANGED logVars, txn.revoked \subseteq txn'.revoked,
           \A f \in File : metas[f] \subseteq metas'[f] \cup txn'.revoked
    PROVE  LogInv'
<1>1. committing' = committing /\ durable' = durable /\ log' = log
    BY Zenon DEF logVars
<1>2. ASSUME NEW b \in Block, log[b] # Blank, ~Stale(b)' PROVE LoggedFor(b, metas)'
    <2>1. b \notin txn'.revoked /\ ~Stale(b)
        BY Zenon, <1>1, <1>2 DEF Stale
    <2>2. PICK f \in File : log[b] = Meta(f) /\ b \in metas[f]
        BY Zenon, <1>2, <2>1 DEF LogInv, LoggedFor
    <2>3. b \in metas'[f]
        BY Zenon, <2>1, <2>2
    <2> QED BY Zenon, <1>1, <2>2, <2>3 DEF LoggedFor, Meta
<1>3. ASSUME committing.active
      PROVE  \A f \in File : committing.img.metas[f] \subseteq metas'[f] \cup txn'.revoked
    BY <1>3, Zenon DEF LogInv
<1>4. ASSUME committing.active, NEW b \in Block, log[b] # Blank, b \notin committing.txn.revoked
      PROVE  LoggedFor(b, committing.img.metas)'
    BY Zenon, <1>1, <1>4 DEF LogInv, LoggedFor
<1>5. ReplayHitsOwner'
    BY Zenon, <1>1 DEF LogInv, ReplayHitsOwner
<1> QED BY Zenon, <1>1, <1>2, <1>3, <1>4, <1>5 DEF LogInv

(* What a file does to the tree it does in one transaction with the revokes. *)
LEMMA FileStepKeepsLog ==
    ASSUME ClaimsInv, txn \in Txns, LogInv, NEW f \in File, FileStep(f)
    PROVE  LogInv'
<1> DEFINE Kept == /\ txn.revoked \subseteq txn'.revoked
                   /\ \A g \in File : metas[g] \subseteq metas'[g] \cup txn'.revoked
<1>1. CASE AddMeta(f)
    <2>1. PICK b : AttachMeta(f, b)
        BY Zenon, <1>1 DEF AddMeta
    <2>2. txn'.revoked = txn.revoked /\ \A g \in File : metas[g] \subseteq metas'[g]
        BY Zenon, <2>1 DEF AttachMeta, ClaimsInv, Maps, Txns
    <2>3. Kept
        BY Zenon, <2>2
    <2> QED BY Zenon, <2>3, LogFrame, FileStepLeavesImages
<1>2. CASE \E b \in Block : RetireMeta(f, b)
    <2>1. PICK b \in Block : RetireMeta(f, b)
        BY Zenon, <1>2
    <2>2. txn'.revoked = txn.revoked \cup {b} /\ metas' = [metas EXCEPT ![f] = @ \ {b}]
        BY <2>1, Zenon DEF RetireMeta, Revoke, Drop
    <2>3. Kept
        BY Zenon, <2>2 DEF ClaimsInv, Maps
    <2> QED BY Zenon, <2>3, LogFrame, FileStepLeavesImages
<1>3. CASE Evict(f)
    <2>1. txn'.revoked = txn.revoked \cup metas[f] /\ metas' = [metas EXCEPT ![f] = {}]
        BY Zenon, <1>3 DEF Evict, Revoke
    <2>2. Kept
        BY Zenon, <2>1 DEF ClaimsInv, Maps
    <2> QED BY Zenon, <2>2, LogFrame, FileStepLeavesImages
<1>4. CASE UNCHANGED metas /\ (UNCHANGED txn \/ DirtyTree(f, metas[f]))
    <2>1. txn'.revoked = txn.revoked
        BY Zenon, <1>4 DEF DirtyTree, Txns
    <2>2. Kept
        BY Zenon, <1>4, <2>1
    <2> QED BY Zenon, <2>2, LogFrame, FileStepLeavesImages
<1>5. \/ AddMeta(f) \/ (\E b \in Block : RetireMeta(f, b)) \/ Evict(f)
      \/ UNCHANGED metas /\ (UNCHANGED txn \/ DirtyTree(f, metas[f]))
    BY ZenonT(30) DEF FileStep, SubmitBio, EndBio, FinishIoend, AllocBlocks, GrowExtent, Unpublish,
           FreeRange, Publish, PublishFails, fileVars
<1> QED BY Zenon, <1>1, <1>2, <1>3, <1>4, <1>5

(* What a commit leaves in the log. *)
LEMMA LogAfterCases ==
    ASSUME NEW img, NEW t, NEW b \in Block, LogAfter(img, t)[b] # Blank
    PROVE  \/ \E f \in File : LogAfter(img, t)[b] = Meta(f) /\ b \in img.metas[f]
           \/ LogAfter(img, t)[b] = log[b] /\ b \notin t.revoked
<1>1. CASE \E f \in File : b \in t.dirtied \cap img.metas[f]
    <2> DEFINE g == CHOOSE f \in File : b \in img.metas[f]
    <2>1. g \in File /\ b \in img.metas[g]
        BY Zenon, <1>1
    <2>2. LogAfter(img, t)[b] = Meta(g)
        BY Zenon, <1>1 DEF LogAfter
    <2> HIDE DEF g
    <2> QED BY Zenon, <2>1, <2>2
<1>2. CASE ~\E f \in File : b \in t.dirtied \cap img.metas[f]
    <2>1. LogAfter(img, t)[b] = IF b \in t.revoked THEN Blank ELSE log[b]
        BY Zenon, <1>2 DEF LogAfter
    <2> QED BY Zenon, <2>1
<1> QED BY <1>1, <1>2, Zenon

LEMMA JournalStepKeepsLog ==
    ASSUME LogInv, JournalStep
    PROVE  LogInv'
<1>1. CASE CommitStart
    <2>1. /\ committing' = [active |-> TRUE, img |-> Image, txn |-> txn] /\ txn' = EmptyTxn
          /\ durable' = durable /\ log' = log /\ metas' = metas /\ ~committing.active
        BY <1>1, Zenon DEF CommitStart, fileVars
    <2>2. ASSUME NEW b \in Block, log[b] # Blank, b \notin txn.revoked PROVE LoggedFor(b, metas)
        BY <2>1, <2>2 DEF LogInv, Stale, EmptyTxn
    <2>3. /\ committing'.active /\ committing'.txn.revoked = txn.revoked
          /\ committing'.img.metas = metas
        BY Zenon, <2>1 DEF Image
    <2>4. \A b \in Block : log'[b] # Blank /\ ~Stale(b)' => LoggedFor(b, metas)'
        BY Zenon, <2>1, <2>2, <2>3 DEF Stale, LoggedFor
    <2>5. \A b \in Block : log'[b] # Blank /\ b \notin committing'.txn.revoked
                              => LoggedFor(b, committing.img.metas)'
        BY Zenon, <2>1, <2>2, <2>3 DEF LoggedFor
    <2>6. ReplayHitsOwner'
        BY Zenon, <2>1 DEF LogInv, ReplayHitsOwner
    <2> QED BY <2>1, <2>3, <2>4, <2>5, <2>6, Zenon DEF LogInv
<1>2. CASE CommitDone
    <2>1. /\ committing.active /\ committing'.active = FALSE /\ committing'.txn = EmptyTxn
          /\ durable' = committing.img /\ log' = LogAfter(committing.img, committing.txn)
          /\ txn' = txn /\ metas' = metas
        BY <1>2, Zenon DEF CommitDone, fileVars
    <2>2. ASSUME NEW b \in Block, log'[b] # Blank
          PROVE  \E f \in File : log'[b] = Meta(f) /\ b \in committing.img.metas[f]
        <3>1. CASE log'[b] = log[b] /\ b \notin committing.txn.revoked
            BY Zenon, <2>1, <2>2, <3>1 DEF LogInv, LoggedFor
        <3>2. LogAfter(committing.img, committing.txn)[b] # Blank
            BY Zenon, <2>1, <2>2
        <3>3. \/ \E f \in File : /\ LogAfter(committing.img, committing.txn)[b] = Meta(f)
                               /\ b \in committing.img.metas[f]
              \/ /\ LogAfter(committing.img, committing.txn)[b] = log[b]
                 /\ b \notin committing.txn.revoked
            BY Zenon, <3>2, LogAfterCases
        <3> QED BY Zenon, <2>1, <3>1, <3>3
    <2>3. ASSUME NEW b \in Block, log'[b] # Blank, b \notin txn.revoked
          PROVE  \E f \in File : log'[b] = Meta(f) /\ b \in metas[f]
        BY Zenon, <2>1, <2>2, <2>3 DEF LogInv
    <2>4. \A b \in Block : log'[b] # Blank /\ ~Stale(b)' => LoggedFor(b, metas)'
        BY Zenon, <2>1, <2>3 DEF Stale, LoggedFor
    <2>5. ReplayHitsOwner'
        BY Zenon, <2>1, <2>2 DEF ReplayHitsOwner
    <2> QED BY <2>1, <2>4, <2>5, Zenon DEF LogInv
<1>3. CASE \E b \in Block : Checkpoint(b)
    <2>1. PICK c \in Block : Checkpoint(c)
        BY Zenon, <1>3
    <2>2. /\ log' = [log EXCEPT ![c] = Blank]
          /\ UNCHANGED <<txn, committing, durable, metas>>
        BY Zenon, <2>1 DEF Checkpoint, fileVars
    <2>3. ASSUME NEW b \in Block, log'[b] # Blank PROVE log[b] = log'[b]
        BY SMTT(30), <2>2, <2>3
    <2>4. \A b \in Block : log'[b] # Blank /\ ~Stale(b)' => LoggedFor(b, metas)'
        BY Zenon, <2>2, <2>3 DEF LogInv, Stale, LoggedFor
    <2>5. committing.active => \A b \in Block : log'[b] # Blank /\ b \notin committing.txn.revoked
                                  => LoggedFor(b, committing.img.metas)'
        BY Zenon, <2>2, <2>3 DEF LogInv, LoggedFor
    <2>6. ReplayHitsOwner'
        BY Zenon, <2>2, <2>3 DEF LogInv, ReplayHitsOwner
    <2> QED BY Zenon, <2>2, <2>4, <2>5, <2>6 DEF LogInv
<1>4. CASE \E fs \in {{}} \cup {{f} : f \in File} : SyncCommit(fs)
    <2>1. /\ ~committing.active /\ committing'.active = FALSE /\ committing'.txn = EmptyTxn
          /\ durable'.metas = metas /\ log' = LogAfter(Image, txn)
          /\ txn' = EmptyTxn /\ metas' = metas
        BY SMTT(30), <1>4 DEF SyncCommit, ForcedImage, Image, fileVars
    <2>2. ASSUME NEW b \in Block, log'[b] # Blank
          PROVE  \E f \in File : log'[b] = Meta(f) /\ b \in metas[f]
        <3>1. CASE log'[b] = log[b] /\ b \notin txn.revoked
            <4>1. EmptyTxn.revoked = {}
                BY Zenon DEF EmptyTxn
            <4>2. committing.txn = EmptyTxn
                BY Zenon, <2>1 DEF LogInv
            <4>3. ~Stale(b)
                BY Zenon, <3>1, <4>1, <4>2 DEF Stale
            <4>4. LoggedFor(b, metas)
                BY Zenon, <2>2, <3>1, <4>3 DEF LogInv
            <4> QED BY Zenon, <3>1, <4>4 DEF LoggedFor
        <3>2. Image.metas = metas
            BY Zenon DEF Image
        <3>3. LogAfter(Image, txn)[b] # Blank
            BY Zenon, <2>1, <2>2
        <3>4. \/ \E f \in File : LogAfter(Image, txn)[b] = Meta(f) /\ b \in Image.metas[f]
              \/ LogAfter(Image, txn)[b] = log[b] /\ b \notin txn.revoked
            BY Zenon, <3>3, LogAfterCases
        <3> QED BY Zenon, <2>1, <3>1, <3>2, <3>4
    <2>3. \A b \in Block : log'[b] # Blank => LoggedFor(b, metas)'
        BY Zenon, <2>1, <2>2 DEF LoggedFor
    <2>4. ReplayHitsOwner'
        BY Zenon, <2>1, <2>2 DEF ReplayHitsOwner
    <2> QED BY <2>1, <2>3, <2>4, Zenon DEF LogInv
<1>5. CASE JournalFail
    <2>1. UNCHANGED <<txn, logVars, metas>>
        BY Zenon, <1>5 DEF JournalFail, fileVars
    <2> QED BY Zenon, <2>1, LogFrame
<1>6. CASE Crash
    <2>1. /\ committing'.active = FALSE /\ committing'.txn = EmptyTxn
          /\ \A b \in Block : log'[b] = Blank
        BY <1>6, Zenon DEF Crash
    <2> QED BY <2>1, ZenonT(30) DEF LogInv, ReplayHitsOwner
<1> QED BY Zenon, <1>1, <1>2, <1>3, <1>4, <1>5, <1>6 DEF JournalStep
=============================================================================
