---------------------------- MODULE SimplefsFile ----------------------------
(***************************************************************************)
(* One regular file: its extents, page cache, size and speculative         *)
(* reservation, under write, mapped stores, direct writes, truncate, the   *)
(* five modes of fallocate and close, while the kernel writes pages back,  *)
(* completes the I/O, drops clean pages and reads others in.               *)
(*                                                                         *)
(* A cell is the unit of reads and writes, BlockCells of them a block; a   *)
(* page caches one block.  A call is a list of sub-requests (todo): the    *)
(* return of the reservation, where the code begins with it, then the      *)
(* request.  A step is what runs under one hold of extent_lock, or between *)
(* two waits.                                                              *)
(***************************************************************************)
EXTENDS SimplefsExtents

CONSTANTS
    Thread,       \* tasks that use the file
    Workload,     \* the calls they make
    Faults,       \* "sync": a new extent leaf cannot be had;
                  \* "convert": the same, when a completed write is recorded;
                  \* "reclaim": pages are reclaimed while a call runs, not only between calls
    NrLogical,    \* blocks a file can have
    NrPhysical,   \* data blocks of the device, numbered from 1
    BlockCells,   \* cells of a block
    WritePrealloc,\* SIMPLEFS_WRITE_PREALLOC_BLOCKS
    MaxInflight   \* bound: pages under writeback at a time

ASSUME FileConstants ==
    /\ NrLogical \in Nat \ {0} /\ NrPhysical \in Nat \ {0}
    /\ BlockCells \in Nat \ {0} /\ WritePrealloc \in Nat \ {0}
    /\ MaxInflight \in Nat \ {0}
    /\ Faults \subseteq {"sync", "convert", "reclaim"}
    /\ Workload \subseteq {"write", "store", "direct", "truncate", "release", "punch", "collapse",
                          "insert", "falloc", "falloc_keep", "zero", "zero_keep", "read"}

VARIABLES
    extents,    \* the extent array on disk, normalised
    free,       \* bfree_bitmap
    lost,       \* history: blocks an error path left neither mapped nor free
    disk,       \* the cells of each physical block
    i_size,     \* in cells
    prealloc,   \* prealloc_block and prealloc_len
    page,       \* the page cache
    ioend,      \* the write in flight for each page
    op          \* what each thread is doing

mapVars == <<extents, free, lost>>
cacheVars == <<page, ioend>>
vars == <<extents, free, lost, disk, i_size, prealloc, page, ioend, op>>
-----------------------------------------------------------------------------
Logical == 0 .. (NrLogical - 1)
Physical == 1 .. NrPhysical
InBlock == 0 .. (BlockCells - 1)
MaxCells == NrLogical * BlockCells

Stale == 2     \* what a block held before it was this file's
CellValue == {0, 1, Stale}
Cells == [InBlock -> CellValue]
Blank(v) == [k \in InBlock |-> v]

Down(cell) == cell \div BlockCells                        \* >> blkbits
Up(cell) == (cell + BlockCells - 1) \div BlockCells
Aligned(cell) == cell % BlockCells = 0
BlocksIn(from, to) == Down(from) .. (Up(to) - 1)

NoPage == [cells |-> << >>, dirty |-> FALSE]
NoIoend == [bno |-> 0, cells |-> << >>, unwritten |-> FALSE]
Reserve(block, len) == [block |-> IF len = 0 THEN 0 ELSE block, len |-> len]
NoReserve == Reserve(0, 0)
ReservedBlocks(rec) == rec.block .. (rec.block + rec.len - 1)

Req(kind, from, to) == [kind |-> kind, from |-> from, to |-> to]
NoReq == Req("none", 0, 0)
NoMap == [bno |-> 0, len |-> 0, new |-> FALSE, unwritten |-> FALSE]
Idle == [req |-> NoReq, todo |-> << >>, pc |-> "idle", pos |-> 0, map |-> NoMap, old |-> 0]
-----------------------------------------------------------------------------
(* What the extents and the device say of a block. *)
Mapped(buf, l) == FindExtent(buf, l) # 0
ExtentAt(buf, l) == buf[FindExtent(buf, l)]
Written(buf, l) == Mapped(buf, l) /\ ~ ExtentAt(buf, l).unwritten
Bno(buf, l) == PhysAt(ExtentAt(buf, l), l)

(* simplefs_read_iomap_begin: holes and unwritten extents read as zeros. *)
FromDisk(l) == IF Written(extents, l) THEN disk[Bno(extents, l)] ELSE Blank(0)

Cached(pg, l) == pg[l] # NoPage
CellsOf(pg, l) == IF Cached(pg, l) THEN pg[l].cells ELSE FromDisk(l)
Busy(l) == page[l].dirty \/ ioend[l] # NoIoend

(* filemap_write_and_wait_range, then simplefs_wait_ioend_conversions. *)
Flushed(blocks) == \A l \in blocks : ~ Busy(l)
NoWriteback(blocks) == \A l \in blocks : ioend[l] = NoIoend

(***************************************************************************)
(* iomap_zero_range on a sequence of spans <<from, to>>: a page over a     *)
(* written block, or a dirty one, gets zeros there and is dirty; a hole or *)
(* an unwritten block reads as zeros already.                              *)
(***************************************************************************)
Overlap(l, span) ==
    {k \in InBlock : span[1] <= l * BlockCells + k /\ l * BlockCells + k < span[2]}

ZeroSpan(pg, span) ==
    [l \in Logical |->
        IF Overlap(l, span) # {} /\ (Written(extents, l) \/ pg[l].dirty)
        THEN [cells |-> [k \in InBlock |-> IF k \in Overlap(l, span) THEN 0
                                                       ELSE CellsOf(pg, l)[k]],
              dirty |-> TRUE]
        ELSE pg[l]]

ZeroSpans(pg, spans) == FoldLeft(ZeroSpan, pg, spans)

TailSpan_Nothing(cell) == << >>                                    \* mutant

(* From a cell to the end of its block. *)
TailSpan(cell) == IF Aligned(cell) THEN << >> ELSE << <<cell, Up(cell) * BlockCells>> >>

(* simplefs_zero_partial_gap: the partial blocks at both ends of a gap. *)
GapSpans(from, to) ==
    IF from >= to THEN << >>
    ELSE IF Down(from) = Down(to - 1)
         THEN IF Aligned(from) /\ Aligned(to) THEN << >> ELSE << <<from, to>> >>
    ELSE TailSpan(from)
         \o (IF Aligned(to) THEN << >> ELSE << <<Down(to) * BlockCells, to>> >>)

(* truncate_pagecache and the page-cache part of truncate_setsize. *)
CutPages(pg, size) ==
    [l \in Logical |->
        IF l * BlockCells >= size THEN NoPage
        ELSE IF Cached(pg, l)
             THEN [pg[l] EXCEPT !.cells = [k \in InBlock |->
                      IF l * BlockCells + k < size THEN @[k] ELSE 0]]
             ELSE NoPage]

DropPages(pg, blocks) == [l \in Logical |-> IF l \in blocks THEN NoPage ELSE pg[l]]
-----------------------------------------------------------------------------
(***************************************************************************)
(* The reservation is one run of blocks.  A write inside it keeps only the *)
(* part after the write (simplefs_prealloc_written, which iomap_end calls  *)
(* for zeroing too); collapse and insert range move it.                    *)
(***************************************************************************)
PreallocWritten_KeepAll(rec, first, last) == rec                   \* mutant

PreallocWritten(rec, first, last) ==
    LET end == rec.block + rec.len IN
    IF rec.len = 0 \/ last <= rec.block \/ first >= end THEN rec
    ELSE IF last >= end
         THEN Reserve(rec.block, IF first <= rec.block THEN 0 ELSE first - rec.block)
    ELSE Reserve(last, end - last)

WrittenSpans(rec, spans) ==
    FoldLeft(LAMBDA r, s : PreallocWritten(r, Down(s[1]), Up(s[2])), rec, spans)

PreallocCollapse(rec, first, last) ==
    LET end == rec.block + rec.len IN
    IF rec.len = 0 \/ end <= first THEN rec
    ELSE IF rec.block >= last THEN Reserve(rec.block - (last - first), rec.len)
    ELSE IF rec.block < first
         THEN IF end > last THEN NoReserve ELSE Reserve(rec.block, first - rec.block)
    ELSE IF end > last THEN Reserve(first, end - last)
    ELSE NoReserve

PreallocInsert(rec, first, len) ==
    IF rec.len = 0 \/ rec.block + rec.len <= first THEN rec
    ELSE IF rec.block >= first THEN Reserve(rec.block + len, rec.len)
    ELSE Reserve(rec.block, first - rec.block)

(* The part of it a truncate to n blocks leaves. *)
PreallocTruncate(rec, n) ==
    IF rec.len = 0 \/ n >= rec.block + rec.len THEN rec
    ELSE IF n <= rec.block THEN NoReserve
    ELSE Reserve(rec.block, n - rec.block)
-----------------------------------------------------------------------------
(* inode->i_rwsem, and both modes of mapping->invalidate_lock. *)
HoldsInode(t) == op[t].pc # "idle" /\ op[t].req.kind # "store"

HoldsInvalidate(t) ==
    /\ op[t].todo # << >>
    /\ \/ Head(op[t].todo).kind \in {"punch", "truncate"} /\ op[t].pc \in {"free", "drop"}
       \/ Head(op[t].todo).kind \in {"zero", "zero_keep"} /\ op[t].pc = "drop"

SharesInvalidate(t) == op[t].req.kind = "store" /\ op[t].pc \in {"mark", "copy"}

InvalidateFree(t) ==
    \A u \in Thread \ {t} : ~ HoldsInvalidate(u) /\ ~ SharesInvalidate(u)

At(t, kinds, pc) ==
    /\ op[t].pc = pc
    /\ op[t].todo # << >>
    /\ Head(op[t].todo).kind \in kinds

This(t) == Head(op[t].todo)

Goto(t, pc) == op' = [op EXCEPT ![t].pc = pc]

(* The sub-request is done: the next one, or the call returns 0. *)
Finish(t) ==
    op' = [op EXCEPT ![t] =
        IF Len(op[t].todo) = 1 THEN Idle
        ELSE [Idle EXCEPT !.req = op[t].req, !.todo = Tail(op[t].todo), !.pc = "begin",
                          !.pos = op[t].todo[2].from]]

Fail(t) == op' = [op EXCEPT ![t] = [Idle EXCEPT !.req = op[t].req, !.pc = "failed"]]

(* put_blocks. *)
Free(blocks) ==
    /\ free' = free \cup blocks
    /\ disk' = [p \in Physical |-> IF p \in blocks THEN Blank(Stale) ELSE disk[p]]

(* simplefs_file_sync_extents fails in simplefs_get_block: a run found by first fit is put *)
(* back, one that grew an extent in place is not.                                          *)
SyncFails(a) ==
    /\ "sync" \in Faults /\ a.start # 0
    /\ free' = IF a.grown THEN free \ Run(a.start, a.len) ELSE free
    /\ lost' = IF a.grown THEN lost \cup Run(a.start, a.len) ELSE lost

(* blkdev_issue_zeroout before a buffered or fallocate extent appears. *)
Zeroed(blocks) == [p \in Physical |-> IF p \in blocks THEN Blank(0) ELSE disk[p]]
-----------------------------------------------------------------------------
(***************************************************************************)
(* write(2) and the first store to a mapped page: simplefs_write_iomap_    *)
(* begin maps or allocates (WriteBegin), marks what it allocated beyond    *)
(* the request unwritten and records it (WriteMark); the data is copied    *)
(* and iomap_end runs (WriteCopy).  A page_mkwrite asks for its page, cut  *)
(* at EOF, and takes the page lock, not the inode lock; a page that a      *)
(* truncate has cut off meanwhile faults.                                  *)
(***************************************************************************)
AskFrom(t) == IF This(t).kind = "store" THEN Down(op[t].pos) * BlockCells ELSE op[t].pos
AskTo(t) ==
    IF This(t).kind = "store" THEN Lesser(i_size, (Down(op[t].pos) + 1) * BlockCells)
                              ELSE This(t).to
FirstBlock(t) == Down(AskFrom(t))
Requested(t) == Up(AskTo(t)) - FirstBlock(t)
CutOff(t) == This(t).kind = "store" /\ AskFrom(t) >= i_size

Speculative(first, requested) ==
    IF first = 0 THEN requested
    ELSE Lesser(Greater(requested, WritePrealloc), NrLogical - first)

MapTo(bno, len, new, unwritten) ==
    [bno |-> bno, len |-> len, new |-> new, unwritten |-> unwritten]

ExistingMap(l) ==
    LET e == ExtentAt(extents, l)
    IN  MapTo(PhysAt(e, l), ExtEnd(e) - l, FALSE, e.unwritten)

WriteBegin(t) ==
    /\ At(t, {"write", "store"}, "begin")
    /\ This(t).kind = "store" => ~ page[Down(op[t].pos)].dirty
                               /\ \A u \in Thread \ {t} : ~ HoldsInvalidate(u)
    /\ LET first == FirstBlock(t)
           a == AllocAt(extents, free, first, Speculative(first, Requested(t)), FALSE)
           got == Run(a.start, a.len)
           mapped(m, pc) == op' = [op EXCEPT ![t].map = m, ![t].pc = pc,
                                             ![t].old = Lesser(i_size, op[t].pos)]
       IN  \/ /\ ~ CutOff(t) /\ Mapped(extents, first)
              /\ mapped(ExistingMap(first), "copy")
              /\ UNCHANGED <<mapVars, disk>>
           \/ /\ ~ CutOff(t) /\ ~ Mapped(extents, first)
              /\ a.start # 0
              /\ extents' = a.buf
              /\ free' = free \ got
              /\ disk' = Zeroed(got)
              /\ mapped(MapTo(a.start, a.len, TRUE, FALSE),
                        IF a.len > Requested(t) THEN "mark" ELSE "copy")
              /\ UNCHANGED lost
           \/ /\ CutOff(t) \/ (~ Mapped(extents, first) /\ a.start = 0)   \* SIGBUS, -ENOSPC
              /\ Fail(t)
              /\ UNCHANGED <<mapVars, disk>>
           \/ /\ ~ CutOff(t) /\ ~ Mapped(extents, first)
              /\ SyncFails(a)
              /\ Fail(t)
              /\ UNCHANGED <<extents, disk>>
    /\ UNCHANGED <<i_size, prealloc, cacheVars>>

WriteMark(t) ==
    /\ op[t].pc = "mark" /\ This(t).kind \in {"write", "store"}
    /\ LET first == FirstBlock(t)
           start == first + Requested(t)
           end == first + op[t].map.len
       IN  \/ /\ Mapped(extents, start)
              /\ extents' = MarkUnwrittenRange(extents, start, end)
              /\ prealloc' = Reserve(start, end - start)
              /\ op' = [op EXCEPT ![t].map.len = Requested(t), ![t].pc = "copy"]
           \/ /\ ~ Mapped(extents, start) \/ "sync" \in Faults
              /\ Fail(t)
              /\ UNCHANGED <<extents, prealloc>>
    /\ UNCHANGED <<free, lost, disk, i_size, cacheVars>>

(* The page a write is copied into: read from disk only below EOF and when *)
(* the block has been written before.                                      *)
WritePage(t, l) ==
    LET m == op[t].map IN
    IF Cached(page, l) THEN page[l].cells
    ELSE IF m.new \/ m.unwritten \/ l * BlockCells >= i_size THEN Blank(0)
    ELSE disk[m.bno + (l - FirstBlock(t))]

CopyInto(t, span) ==
    [l \in Logical |->
        IF Overlap(l, span) = {} THEN page[l]
        ELSE [cells |-> [k \in InBlock |-> IF k \in Overlap(l, span) THEN 1
                                                       ELSE WritePage(t, l)[k]],
              dirty |-> TRUE]]

WriteCopy(t) ==
    /\ At(t, {"write"}, "copy")
    /\ LET pos == op[t].pos
           end == Lesser(This(t).to, (FirstBlock(t) + op[t].map.len) * BlockCells)
           gap == GapSpans(op[t].old, pos)
       IN  /\ \A u \in Thread \ {t} : SharesInvalidate(u) => Down(op[u].pos) \notin BlocksIn(pos, end)
           /\ page' = ZeroSpans(CopyInto(t, <<pos, end>>), gap)
           /\ i_size' = Greater(i_size, end)
           /\ prealloc' = PreallocWritten(WrittenSpans(prealloc, gap), Down(pos), Up(end))
           /\ IF end = This(t).to THEN Finish(t)
              ELSE op' = [op EXCEPT ![t].pos = end, ![t].pc = "begin", ![t].map = NoMap,
                                    ![t].old = 0]
    /\ UNCHANGED <<mapVars, disk, ioend>>

StoreCopy(t) ==
    /\ At(t, {"store"}, "copy")
    /\ page' = CopyInto(t, <<op[t].pos, op[t].pos + 1>>)
    /\ prealloc' = PreallocWritten(prealloc, Down(op[t].pos), Down(op[t].pos) + 1)
    /\ Finish(t)
    /\ UNCHANGED <<mapVars, disk, i_size, ioend>>

(* A page that is dirty already is mapped writable: no fault. *)
StoreAgain(t) ==
    /\ At(t, {"store"}, "begin")
    /\ page[Down(op[t].pos)].dirty
    /\ page' = CopyInto(t, <<op[t].pos, op[t].pos + 1>>)
    /\ Finish(t)
    /\ UNCHANGED <<mapVars, disk, i_size, prealloc, ioend>>
-----------------------------------------------------------------------------
(***************************************************************************)
(* Direct write, waited for: zero the gap before it, let the pages of the  *)
(* range drain, allocate unwritten extents block run by block run, write,  *)
(* convert, then move EOF.                                                 *)
(***************************************************************************)
DirectGap(t) ==
    /\ At(t, {"direct"}, "begin")
    /\ page' = ZeroSpans(page, GapSpans(i_size, This(t).from))
    /\ prealloc' = WrittenSpans(prealloc, GapSpans(i_size, This(t).from))
    /\ Goto(t, "alloc")
    /\ UNCHANGED <<mapVars, disk, i_size, ioend>>

(* The bios of a direct write, for the blocks given. *)
DirectData(blocks, span) ==
    [p \in Physical |->
        IF \E l \in blocks : Bno(extents, l) = p
        THEN LET l == CHOOSE b \in blocks : Bno(extents, b) = p
             IN  [k \in InBlock |-> IF k \in Overlap(l, span) THEN 1 ELSE FromDisk(l)[k]]
        ELSE disk[p]]

DirectAlloc(t) ==
    /\ At(t, {"direct"}, "alloc")
    /\ Flushed(BlocksIn(This(t).from, This(t).to))
    /\ LET first == Down(op[t].pos)
           span == <<This(t).from, op[t].pos>>
           a == AllocAt(extents, free, first, Up(This(t).to) - first, TRUE)
           advance(n) == IF (first + n) * BlockCells >= This(t).to
                         THEN op' = [op EXCEPT ![t].pos = This(t).to, ![t].pc = "copy"]
                         ELSE op' = [op EXCEPT ![t].pos = (first + n) * BlockCells]
       IN  \/ /\ Mapped(extents, first)
              /\ advance(ExistingMap(first).len)
              /\ UNCHANGED <<mapVars, disk, page>>
           \/ /\ ~ Mapped(extents, first)
              /\ a.start # 0
              /\ extents' = a.buf
              /\ free' = free \ Run(a.start, a.len)
              /\ advance(a.len)
              /\ UNCHANGED <<lost, disk, page>>
           \/ /\ ~ Mapped(extents, first)   \* what was submitted is not converted
              /\ (a.start = 0 /\ UNCHANGED <<free, lost>>) \/ SyncFails(a)
              /\ disk' = DirectData({l \in BlocksIn(span[1], span[2]) : Written(extents, l)}, span)
              /\ page' = DropPages(page, BlocksIn(span[1], span[2]))
              /\ Fail(t)
              /\ UNCHANGED extents
    /\ UNCHANGED <<i_size, prealloc, ioend>>

DirectEnd(t) ==
    /\ At(t, {"direct"}, "copy")
    /\ LET span == <<This(t).from, This(t).to>>
           blocks == BlocksIn(This(t).from, This(t).to)
       IN  /\ Flushed(blocks)
           /\ disk' = DirectData(blocks, span)
           /\ page' = DropPages(page, blocks)
           /\ \/ /\ extents' = ConvertUnwrittenRange(extents, Down(span[1]), Up(span[2]))
                 /\ i_size' = Greater(i_size, This(t).to)
                 /\ Finish(t)
              \/ /\ "convert" \in Faults /\ \E l \in blocks : ~ Written(extents, l)
                 /\ Fail(t)
                 /\ UNCHANGED <<extents, i_size>>
    /\ UNCHANGED <<free, lost, prealloc, ioend>>
-----------------------------------------------------------------------------
(***************************************************************************)
(* simplefs_truncate.  Extending only moves EOF and zeroes the partial     *)
(* blocks of the gap.  Otherwise: trim the reservation, drain the file,    *)
(* then under invalidate_lock zero the tail of the new last block, cut     *)
(* size and page cache, and free the blocks beyond (pos remembers whether  *)
(* the reservation was trimmed).                                           *)
(***************************************************************************)
TruncateUp(t) ==
    /\ At(t, {"truncate"}, "begin")
    /\ This(t).to > i_size
    /\ i_size' = This(t).to
    /\ page' = ZeroSpans(page, GapSpans(i_size, This(t).to))
    /\ prealloc' = WrittenSpans(prealloc, GapSpans(i_size, This(t).to))
    /\ Finish(t)
    /\ UNCHANGED <<mapVars, disk, ioend>>

TruncateTrim(t) ==
    /\ At(t, {"truncate"}, "begin")
    /\ This(t).to <= i_size
    /\ prealloc' = PreallocTruncate(prealloc, Up(This(t).to))
    /\ op' = [op EXCEPT ![t].pc = "cut", ![t].pos = IF prealloc' # prealloc THEN 1 ELSE 0]
    /\ UNCHANGED <<mapVars, disk, i_size, cacheVars>>

TruncateCut_NoWait(t) ==                                           \* mutant
    /\ At(t, {"truncate"}, "cut")
    /\ InvalidateFree(t)
    /\ LET size == This(t).to IN
       /\ page' = CutPages(ZeroSpans(page, TailSpan(size)), size)
       /\ prealloc' = WrittenSpans(prealloc, TailSpan(size))
       /\ i_size' = size
       /\ IF size # i_size /\ Up(size) = Up(i_size) /\ op[t].pos = 0
          THEN Finish(t) ELSE Goto(t, "free")
    /\ UNCHANGED <<mapVars, disk, ioend>>

TruncateCut(t) ==
    /\ At(t, {"truncate"}, "cut")
    /\ Flushed(Logical)
    /\ InvalidateFree(t)
    /\ LET size == This(t).to IN
       /\ page' = CutPages(ZeroSpans(page, TailSpan(size)), size)
       /\ prealloc' = WrittenSpans(prealloc, TailSpan(size))
       /\ i_size' = size
       /\ IF size # i_size /\ Up(size) = Up(i_size) /\ op[t].pos = 0
          THEN Finish(t) ELSE Goto(t, "free")
    /\ UNCHANGED <<mapVars, disk, ioend>>

TruncateFree_KeepPartial(t) ==                                     \* mutant
    /\ At(t, {"truncate"}, "free")
    /\ extents' = PunchExtents(extents, Up(This(t).to), NrLogical)
    /\ Free(PunchedBlocks(extents, Up(This(t).to) + 1, NrLogical))
    /\ Finish(t)
    /\ UNCHANGED <<lost, i_size, prealloc, cacheVars>>

TruncateFree(t) ==
    /\ At(t, {"truncate"}, "free")
    /\ extents' = PunchExtents(extents, Up(This(t).to), NrLogical)
    /\ Free(PunchedBlocks(extents, Up(This(t).to), NrLogical))
    /\ Finish(t)
    /\ UNCHANGED <<lost, i_size, prealloc, cacheVars>>
-----------------------------------------------------------------------------
(***************************************************************************)
(* simplefs_fallocate_punch_hole: drain the range, zero it in the page     *)
(* cache (PunchZero), free the whole blocks (PunchFree), and only then     *)
(* drop their pages (PunchDrop).                                           *)
(***************************************************************************)
PunchTo(t) == Lesser(This(t).to, i_size)
PunchFirst(t) == Up(This(t).from)
PunchLast(t) == Down(PunchTo(t))

PunchZero(t) ==
    /\ At(t, {"punch"}, "begin")
    /\ \/ /\ This(t).from >= i_size
          /\ Finish(t)
          /\ UNCHANGED <<prealloc, page>>
       \/ /\ This(t).from < i_size
          /\ Flushed(BlocksIn(This(t).from, PunchTo(t)))
          /\ InvalidateFree(t)
          /\ page' = ZeroSpan(page, <<This(t).from, PunchTo(t)>>)
          /\ prealloc' = PreallocWritten(prealloc, Down(This(t).from), Up(PunchTo(t)))
          /\ Goto(t, "free")
    /\ UNCHANGED <<mapVars, disk, i_size, ioend>>

PunchFree(t) ==
    /\ At(t, {"punch"}, "free")
    /\ LET freed == PunchedBlocks(extents, PunchFirst(t), PunchLast(t)) IN
       \/ /\ freed = {}
          /\ Finish(t)
          /\ UNCHANGED <<extents, free, disk>>
       \/ /\ freed # {}
          /\ extents' = PunchExtents(extents, PunchFirst(t), PunchLast(t))
          /\ Free(freed)
          /\ Goto(t, "drop")
       \/ /\ freed # {} /\ "sync" \in Faults
          /\ Fail(t)
          /\ UNCHANGED <<extents, free, disk>>
    /\ UNCHANGED <<lost, i_size, prealloc, cacheVars>>

PunchDrop(t) ==
    /\ At(t, {"punch"}, "drop")
    /\ NoWriteback(PunchFirst(t) .. (PunchLast(t) - 1))
    /\ page' = DropPages(page, PunchFirst(t) .. (PunchLast(t) - 1))
    /\ Finish(t)
    /\ UNCHANGED <<mapVars, disk, i_size, prealloc, ioend>>
-----------------------------------------------------------------------------
(* The extension a failed fallocate or zero range gives back. *)
Grows(t, kind) == This(t).kind = kind /\ This(t).to > i_size
Grew(t, kind) == This(t).kind = kind /\ This(t).to > op[t].old

Restore(t, kind) ==
    IF Grew(t, kind)
    THEN /\ NoWriteback({l \in Logical : l * BlockCells >= op[t].old})
         /\ i_size' = op[t].old
         /\ page' = CutPages(page, op[t].old)
    ELSE UNCHANGED <<i_size, page>>

(* Moving EOF zeroes what the old last block holds beyond the old EOF. *)
OldTail(t) == LET tail == TailSpan(i_size) IN
    IF tail = << >> THEN tail ELSE << <<i_size, Lesser(This(t).to, tail[1][2])>> >>

Extend(t, kind) ==
    IF Grows(t, kind)
    THEN /\ i_size' = This(t).to
         /\ page' = ZeroSpans(page, OldTail(t))
    ELSE UNCHANGED <<i_size, page>>

(***************************************************************************)
(* simplefs_fallocate_prealloc: forget the reservation, move EOF (mode 0), *)
(* then fill the holes with zeroed unwritten extents, one run at a time.   *)
(***************************************************************************)
FallocStart(t) ==
    /\ At(t, {"falloc", "falloc_keep"}, "begin")
    /\ prealloc' = NoReserve
    /\ Extend(t, "falloc")
    /\ op' = [op EXCEPT ![t].pc = "alloc", ![t].pos = Down(This(t).from), ![t].old = i_size]
    /\ UNCHANGED <<mapVars, disk, ioend>>

FallocAlloc(t) ==
    /\ At(t, {"falloc", "falloc_keep"}, "alloc")
    /\ op[t].pos < Up(This(t).to)
    /\ LET block == op[t].pos
           a == AllocAt(extents, free, block, Up(This(t).to) - block, TRUE)
           got == Run(a.start, a.len)
       IN  \/ /\ Mapped(extents, block)
              /\ op' = [op EXCEPT ![t].pos = block + ExistingMap(block).len]
              /\ UNCHANGED <<mapVars, disk, i_size, page>>
           \/ /\ ~ Mapped(extents, block)
              /\ a.start # 0
              /\ extents' = a.buf
              /\ free' = free \ got
              /\ disk' = Zeroed(got)
              /\ op' = [op EXCEPT ![t].pos = block + a.len]
              /\ UNCHANGED <<lost, i_size, page>>
           \/ /\ ~ Mapped(extents, block)
              /\ a.start = 0
              /\ Restore(t, "falloc")
              /\ Fail(t)
              /\ UNCHANGED <<mapVars, disk>>
           \/ /\ ~ Mapped(extents, block)
              /\ SyncFails(a)
              /\ Restore(t, "falloc")
              /\ Fail(t)
              /\ UNCHANGED <<extents, disk>>
    /\ UNCHANGED <<prealloc, ioend>>

FallocEnd(t) ==
    /\ At(t, {"falloc", "falloc_keep"}, "alloc")
    /\ op[t].pos >= Up(This(t).to)
    /\ LET tail == IF Grew(t, "falloc") THEN TailSpan(This(t).to) ELSE << >> IN
       /\ page' = ZeroSpans(page, tail)
       /\ prealloc' = WrittenSpans(IF This(t).kind = "falloc" THEN NoReserve ELSE prealloc, tail)
    /\ Finish(t)
    /\ UNCHANGED <<mapVars, disk, i_size, ioend>>
-----------------------------------------------------------------------------
(***************************************************************************)
(* simplefs_fallocate_zero_range: drain the range and move EOF             *)
(* (ZeroStart), turn the whole blocks unwritten and zero the edges under   *)
(* invalidate_lock (ZeroMark), drop the pages of the whole blocks          *)
(* (ZeroDrop).  A hole that cannot be filled loses the blocks the walk     *)
(* allocated before it.                                                    *)
(***************************************************************************)
ZeroFirst(t) == Up(This(t).from)
ZeroLast(t) == Down(This(t).to)

ZeroStart(t) ==
    /\ At(t, {"zero", "zero_keep"}, "begin")
    /\ Flushed(BlocksIn(This(t).from, This(t).to))
    /\ Extend(t, "zero")
    /\ prealloc' = IF Grows(t, "zero") THEN WrittenSpans(prealloc, OldTail(t)) ELSE prealloc
    /\ op' = [op EXCEPT ![t].pc = "mark", ![t].old = i_size]
    /\ UNCHANGED <<mapVars, disk, ioend>>

ZeroEnd(t, pg, spans) ==
    LET all == spans \o (IF Grew(t, "zero") THEN TailSpan(This(t).to) ELSE << >>) IN
    /\ page' = ZeroSpans(pg, all)
    /\ prealloc' = WrittenSpans(prealloc, all)
    /\ Finish(t)

ZeroEdges(t) ==
    TailSpan(This(t).from)
    \o (IF Aligned(This(t).to) THEN << >> ELSE << <<ZeroLast(t) * BlockCells, This(t).to>> >>)

ZeroMark(t) ==
    /\ At(t, {"zero", "zero_keep"}, "mark")
    /\ InvalidateFree(t)
    /\ LET z == ZeroRangeFullBlocks(extents, free, ZeroFirst(t), ZeroLast(t)) IN
       \/ /\ ZeroFirst(t) < ZeroLast(t)
          /\ z.ok
          /\ extents' = z.buf
          /\ free' = free \ z.taken
          /\ page' = ZeroSpans(page, ZeroEdges(t))
          /\ prealloc' = WrittenSpans(prealloc, ZeroEdges(t))
          /\ Goto(t, "drop")
          /\ UNCHANGED <<lost, i_size>>
       \/ /\ ZeroFirst(t) < ZeroLast(t)
          /\ ~ z.ok
          /\ free' = free \ z.taken
          /\ lost' = lost \cup z.taken
          /\ Restore(t, "zero")
          /\ Fail(t)
          /\ UNCHANGED <<extents, prealloc>>
       \/ /\ ZeroFirst(t) < ZeroLast(t)
          /\ z.ok /\ "sync" \in Faults
          /\ Restore(t, "zero")
          /\ Fail(t)
          /\ UNCHANGED <<mapVars, prealloc>>
       \/ /\ ZeroFirst(t) >= ZeroLast(t)
          /\ ZeroEnd(t, page, << <<This(t).from, This(t).to>> >>)
          /\ UNCHANGED <<mapVars, i_size>>
    /\ UNCHANGED <<disk, ioend>>

ZeroDrop(t) ==
    /\ At(t, {"zero", "zero_keep"}, "drop")
    /\ NoWriteback(ZeroFirst(t) .. (ZeroLast(t) - 1))
    /\ ZeroEnd(t, DropPages(page, ZeroFirst(t) .. (ZeroLast(t) - 1)), << >>)
    /\ UNCHANGED <<mapVars, disk, i_size, ioend>>
-----------------------------------------------------------------------------
(***************************************************************************)
(* Collapse and insert range drain the whole file and drop the pages from  *)
(* the first block on, under invalidate_lock, before they touch the        *)
(* extents: one step.                                                      *)
(***************************************************************************)
ShiftPages(t) == DropPages(page, Down(This(t).from) .. (NrLogical - 1))

Collapse(t) ==
    /\ At(t, {"collapse"}, "begin")
    /\ InvalidateFree(t)
    /\ Flushed(Logical)
    /\ page' = ShiftPages(t)
    /\ LET first == Down(This(t).from)
           last == Down(This(t).to)
       IN  \/ /\ extents' = CollapseExtents(extents, first, last)
              /\ Free(PunchedBlocks(extents, first, last))
              /\ prealloc' = PreallocCollapse(prealloc, first, last)
              /\ i_size' = i_size - (This(t).to - This(t).from)
              /\ Finish(t)
           \/ /\ "sync" \in Faults
              /\ Fail(t)
              /\ UNCHANGED <<extents, free, disk, prealloc, i_size>>
    /\ UNCHANGED <<lost, ioend>>

Insert(t) ==
    /\ At(t, {"insert"}, "begin")
    /\ InvalidateFree(t)
    /\ Flushed(Logical)
    /\ page' = ShiftPages(t)
    /\ LET first == Down(This(t).from)
           len == Down(This(t).to) - first
       IN  \/ /\ extents' = InsertRange(extents, first, len)
              /\ prealloc' = PreallocInsert(prealloc, first, len)
              /\ i_size' = i_size + (This(t).to - This(t).from)
              /\ Finish(t)
           \/ /\ "sync" \in Faults
              /\ Fail(t)
              /\ UNCHANGED <<extents, prealloc, i_size>>
    /\ UNCHANGED <<free, lost, disk, ioend>>
-----------------------------------------------------------------------------
(***************************************************************************)
(* Calls.  fallocate, a direct write, close and fsync first return the     *)
(* reservation (simplefs_discard_prealloc): punch the part below EOF, then *)
(* truncate to the current size for the rest.  Calls the code refuses      *)
(* (collapse past EOF, unaligned shifts, a file too large) are left out.   *)
(***************************************************************************)
Shifts == {"collapse", "insert"}

Accepted(r) ==
    /\ r.kind \in {"write", "direct", "punch", "zero", "zero_keep", "falloc", "falloc_keep"}
          => r.from < r.to
    /\ r.kind = "truncate" => r.from = 0
    /\ r.kind = "release" => r.from = 0 /\ r.to = 0 /\ prealloc.len > 0
    /\ r.kind = "store" => r.to = r.from + 1 /\ Down(r.from) * BlockCells < i_size
    /\ r.kind \in Shifts => Aligned(r.from) /\ Aligned(r.to) /\ r.from < r.to
    /\ r.kind = "collapse" => r.to <= i_size
    /\ r.kind = "insert" =>
          /\ r.from <= i_size
          /\ i_size + (r.to - r.from) <= MaxCells
          /\ \A i \in DOMAIN extents : ExtEnd(extents[i]) + Down(r.to - r.from) <= NrLogical

Request == [kind : Workload \ {"read"}, from : 0 .. MaxCells, to : 0 .. MaxCells]

Discards(r) == r.kind \notin {"write", "store", "truncate"} /\ prealloc.len > 0

DiscardPrealloc ==
    LET from == prealloc.block * BlockCells
        to == (prealloc.block + prealloc.len) * BlockCells
    IN  (IF from < i_size THEN << Req("punch", from, Lesser(to, i_size)) >> ELSE << >>)
        \o << Req("truncate", 0, i_size) >>

Begin(t, r) ==
    /\ op[t].pc = "idle"
    /\ Accepted(r)
    /\ r.kind # "store" => \A u \in Thread : ~ HoldsInode(u)
    /\ prealloc' = IF Discards(r) THEN NoReserve ELSE prealloc
    /\ LET todo == (IF Discards(r) THEN DiscardPrealloc ELSE << >>)
                   \o (IF r.kind = "release" THEN << >> ELSE << r >>)
       IN  op' = [op EXCEPT ![t] = [Idle EXCEPT !.req = r, !.todo = todo, !.pc = "begin",
                                               !.pos = todo[1].from]]
    /\ UNCHANGED <<mapVars, disk, i_size, cacheVars>>

ReturnError(t) ==
    /\ op[t].pc = "failed"
    /\ op' = [op EXCEPT ![t] = Idle]
    /\ UNCHANGED <<mapVars, disk, i_size, prealloc, cacheVars>>
-----------------------------------------------------------------------------
(***************************************************************************)
(* Writeback of one page below EOF.  simplefs_writeback_range maps the     *)
(* block through write_iomap_begin, which allocates, and reserves, for a   *)
(* dirty page whose block has gone.  What the page holds beyond EOF is     *)
(* cleared before it is written.  A mapping error leaves the page clean.   *)
(* Allocating and marking are one step here; WriteBegin and WriteMark have *)
(* the gap between them, where extent_lock is dropped.                     *)
(***************************************************************************)
Writeback(l) ==
    /\ page[l].dirty
    /\ ioend[l] = NoIoend
    /\ Cardinality({b \in Logical : ioend[b] # NoIoend}) < MaxInflight
    /\ l * BlockCells < i_size
    /\ LET cells == [k \in InBlock |-> IF l * BlockCells + k < i_size THEN page[l].cells[k] ELSE 0]
           a == AllocAt(extents, free, l, Speculative(l, 1), FALSE)
           got == Run(a.start, a.len)
           submit(bno, unwritten) ==
               ioend' = [ioend EXCEPT ![l] = [bno |-> bno, cells |-> cells,
                                              unwritten |-> unwritten]]
       IN  /\ page' = [page EXCEPT ![l] = [cells |-> cells, dirty |-> FALSE]]
           /\ \/ /\ Mapped(extents, l)
                 /\ submit(Bno(extents, l), ~ Written(extents, l))
                 /\ UNCHANGED <<mapVars, disk, prealloc>>
              \/ /\ ~ Mapped(extents, l)
                 /\ a.start # 0
                 /\ free' = free \ got
                 /\ disk' = Zeroed(got)
                 /\ \/ /\ a.len = 1
                       /\ extents' = a.buf
                       /\ submit(a.start, FALSE)
                       /\ UNCHANGED prealloc
                    \/ /\ a.len > 1
                       /\ extents' = MarkUnwrittenRange(a.buf, l + 1, l + a.len)
                       /\ prealloc' = Reserve(l + 1, a.len - 1)
                       /\ submit(a.start, FALSE)
                    \/ /\ a.len > 1 /\ "sync" \in Faults   \* the tail cannot be marked
                       /\ extents' = a.buf
                       /\ UNCHANGED <<prealloc, ioend>>
                 /\ UNCHANGED lost
              \/ /\ ~ Mapped(extents, l)
                 /\ (a.start = 0 /\ UNCHANGED <<free, lost>>) \/ SyncFails(a)
                 /\ UNCHANGED <<extents, disk, prealloc, ioend>>
    /\ UNCHANGED <<i_size, op>>

(***************************************************************************)
(* The bio is done; a write to an unwritten extent is recorded by          *)
(* simplefs_finish_ioend_work before the page leaves writeback.  With the  *)
(* "convert" fault recording it may fail with -ENOSPC.                     *)
(***************************************************************************)
FinishIoend_NoConvert(l) ==                                        \* mutant
    /\ ioend[l] # NoIoend
    /\ disk' = [disk EXCEPT ![ioend[l].bno] = ioend[l].cells]
    /\ ioend' = [ioend EXCEPT ![l] = NoIoend]
    /\ UNCHANGED <<mapVars, i_size, prealloc, page, op>>

FinishIoend(l) ==
    /\ ioend[l] # NoIoend
    /\ disk' = [disk EXCEPT ![ioend[l].bno] = ioend[l].cells]
    /\ ioend' = [ioend EXCEPT ![l] = NoIoend]
    /\ \/ ~ ioend[l].unwritten /\ UNCHANGED extents
       \/ ioend[l].unwritten /\ extents' = ConvertUnwrittenRange(extents, l, l + 1)
       \/ ioend[l].unwritten /\ "convert" \in Faults /\ UNCHANGED extents
    /\ UNCHANGED <<free, lost, i_size, prealloc, page, op>>

(* The kernel drops a clean page, or reads one in. *)
Reclaim(l) ==
    /\ Cached(page, l) /\ ~ Busy(l)
    /\ "reclaim" \in Faults \/ \A t \in Thread : op[t].pc = "idle"
    /\ page' = DropPages(page, {l})
    /\ UNCHANGED <<mapVars, disk, i_size, prealloc, ioend, op>>

ReadIn(l) ==
    /\ "read" \in Workload
    /\ ~ Cached(page, l)
    /\ l * BlockCells < i_size
    /\ \A u \in Thread : ~ HoldsInvalidate(u)
    /\ page' = [page EXCEPT ![l] = [cells |-> FromDisk(l), dirty |-> FALSE]]
    /\ UNCHANGED <<mapVars, disk, i_size, prealloc, ioend, op>>
-----------------------------------------------------------------------------
Init ==
    /\ extents = << >>
    /\ free = Physical
    /\ lost = {}
    /\ disk = [p \in Physical |-> Blank(Stale)]
    /\ i_size = 0
    /\ prealloc = NoReserve
    /\ page = [l \in Logical |-> NoPage]
    /\ ioend = [l \in Logical |-> NoIoend]
    /\ op = [t \in Thread |-> Idle]

Step(t) ==
    \/ WriteBegin(t) \/ WriteMark(t) \/ WriteCopy(t) \/ StoreCopy(t) \/ StoreAgain(t)
    \/ DirectGap(t) \/ DirectAlloc(t) \/ DirectEnd(t)
    \/ TruncateUp(t) \/ TruncateTrim(t) \/ TruncateCut(t) \/ TruncateFree(t)
    \/ PunchZero(t) \/ PunchFree(t) \/ PunchDrop(t)
    \/ FallocStart(t) \/ FallocAlloc(t) \/ FallocEnd(t)
    \/ ZeroStart(t) \/ ZeroMark(t) \/ ZeroDrop(t)
    \/ Collapse(t) \/ Insert(t)
    \/ ReturnError(t)

Kernel(l) == Writeback(l) \/ FinishIoend(l) \/ Reclaim(l) \/ ReadIn(l)

Next ==
    \/ \E t \in Thread : Step(t) \/ \E r \in Request : Begin(t, r)
    \/ \E l \in Logical : Kernel(l)

Spec == Init /\ [][Next]_vars
-----------------------------------------------------------------------------
(***************************************************************************)
(* The extent array on disk is always one find_extent can be trusted with: *)
(* sorted, no block mapped twice, every length legal, nothing left that    *)
(* could be joined.                                                        *)
(***************************************************************************)
ExtentsSound ==
    /\ \A i \in DOMAIN extents : extents[i].ee_len \in 1 .. MaxExtentLen
    /\ \A i, j \in DOMAIN extents : i < j => ExtEnd(extents[i]) <= extents[j].ee_block
    /\ \A i, j \in DOMAIN extents : i # j =>
          ExtBlocks(extents[i]) \cap ExtBlocks(extents[j]) = {}
    /\ \A i \in 1 .. (Len(extents) - 1) : ~ Joins(extents[i], extents[i + 1])

(***************************************************************************)
(* Every block is mapped by the file, free, or one of those an error path  *)
(* is known to lose, and never two of these.                               *)
(***************************************************************************)
BlocksAccounted ==
    /\ BlocksOf(extents) \cup free \cup lost = Physical
    /\ BlocksOf(extents) \cap free = {}
    /\ lost \cap (BlocksOf(extents) \cup free) = {}

(***************************************************************************)
(* A write in flight goes to a block the file still maps there.  The one   *)
(* exception is a punch between freeing blocks and dropping their pages.   *)
(***************************************************************************)
BioHitsMapped(l) ==
    ioend[l] # NoIoend => Mapped(extents, l) /\ Bno(extents, l) = ioend[l].bno

LateBioOnlyInPunch ==
    \A l \in Logical :
        \/ BioHitsMapped(l)
        \/ \E t \in Thread : At(t, {"punch"}, "drop")

(***************************************************************************)
(* close, fsync and fallocate punch the reservation without looking at     *)
(* what is there: no block of it holds data.                               *)
(***************************************************************************)
ReservationHoldsNoData ==
    \A l \in ReservedBlocks(prealloc) \cap Logical :
        \A k \in InBlock : l * BlockCells + k < i_size => CellsOf(page, l)[k] = 0

(***************************************************************************)
(* What the users see: the page cache over the extents over the device.    *)
(***************************************************************************)
Content == [c \in 1 .. i_size |-> CellsOf(page, Down(c - 1))[(c - 1) % BlockCells]]

CallOf(t) ==
    IF op[t].pc = "idle" THEN NoReq
    ELSE [req |-> op[t].req,
          state |-> IF op[t].pc = "failed" THEN "failed" ELSE "running"]

Posix == INSTANCE SimplefsPosixFile WITH
    NoCall <- NoReq, content <- Content, call <- [t \in Thread |-> CallOf(t)]

(* Every step is one the abstract file allows. *)
ContentKept == Posix!Spec
=============================================================================
