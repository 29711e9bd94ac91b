-------------------------- MODULE SimplefsExtents --------------------------
(***************************************************************************)
(* The extent array of a file (struct simplefs_extent_buffer, as           *)
(* simplefs_file_load_extents returns it) and the operations on it.  An    *)
(* extent maps ee_len logical blocks from ee_block to the physical blocks  *)
(* from ee_start; an unwritten one reads as zeros.  SimplefsFile runs them *)
(* on a live file.                                                         *)
(***************************************************************************)
EXTENDS SimplefsBitmapOps, Sequences, SequencesExt

CONSTANT MaxExtentLen   \* SIMPLEFS_MAX_BLOCKS_PER_EXTENT

ASSUME MaxExtentLenAssumption == MaxExtentLen \in Nat \ {0}

Ext(block, len, start, unwritten) ==
    [ee_block |-> block, ee_len |-> len, ee_start |-> start, unwritten |-> unwritten]

ExtEnd(e) == e.ee_block + e.ee_len

Lesser(a, b) == IF a < b THEN a ELSE b
Greater(a, b) == IF a > b THEN a ELSE b

Covers(e, iblock) == e.ee_block <= iblock /\ iblock < ExtEnd(e)

PhysAt(e, iblock) == e.ee_start + (iblock - e.ee_block)

ExtBlocks(e) == Run(e.ee_start, e.ee_len)

BlocksOf(buf) == UNION {ExtBlocks(buf[i]) : i \in DOMAIN buf}

(***************************************************************************)
(* simplefs_file_find_extent: the extent that holds iblock (0: none), and  *)
(* where an extent for it would be inserted.                               *)
(***************************************************************************)
FindExtent(buf, iblock) == SelectInSeq(buf, LAMBDA e : Covers(e, iblock))

InsertIdx(buf, iblock) ==
    IF \E i \in DOMAIN buf : iblock < buf[i].ee_block
    THEN SelectInSeq(buf, LAMBDA e : iblock < e.ee_block)
    ELSE Len(buf) + 1

(* How many of len blocks from iblock come before the next extent. *)
RoomAt(buf, iblock, len) ==
    LET i == InsertIdx(buf, iblock) IN
    IF i <= Len(buf) /\ buf[i].ee_block < iblock + len
    THEN buf[i].ee_block - iblock
    ELSE len

(***************************************************************************)
(* simplefs_file_normalize_extents, which every sync_extents runs: sort by *)
(* logical block, drop the emptied extents, and join neighbours of the     *)
(* same kind that continue each other on the device, up to MaxExtentLen.   *)
(***************************************************************************)
Joins(e, f) ==
    /\ e.unwritten = f.unwritten
    /\ ExtEnd(e) = f.ee_block
    /\ e.ee_start + e.ee_len = f.ee_start
    /\ e.ee_len + f.ee_len <= MaxExtentLen

JoinNext(done, e) ==
    IF done # <<>> /\ Joins(Last(done), e)
    THEN Append(Front(done), [Last(done) EXCEPT !.ee_len = @ + e.ee_len])
    ELSE Append(done, e)

SortByBlock(buf) == SetToSortSeq(ToSet(buf), LAMBDA e, f : e.ee_block < f.ee_block)

NormalizeExtents(buf) ==
    FoldLeft(JoinNext, <<>>, SortByBlock(SelectSeq(buf, LAMBDA e : e.ee_len > 0)))
-----------------------------------------------------------------------------
(***************************************************************************)
(* The part of e inside the logical blocks from .. to - 1, moved by shift  *)
(* blocks: simplefs_append_extent_slice, nothing for an empty slice.       *)
(***************************************************************************)
Slice(e, from, to, shift) ==
    LET lo == Greater(e.ee_block, from)
        hi == Lesser(ExtEnd(e), to)
    IN  IF lo < hi
        THEN << Ext(lo + shift, hi - lo, PhysAt(e, lo), e.unwritten) >>
        ELSE << >>

Before(e, block) == Slice(e, 0, block, 0)
From(e, block, shift) == Slice(e, block, ExtEnd(e), shift)

MapExtents(buf, Pieces(_)) == FoldLeft(LAMBDA acc, e : acc \o Pieces(e), <<>>, buf)

(***************************************************************************)
(* simplefs_convert_unwritten_extent and simplefs_mark_unwritten_extent:   *)
(* split off the blocks from .. to - 1 of the extent and give them the     *)
(* kind; an extent of that kind already stays as it is.                    *)
(***************************************************************************)
SetKind_LongTail(e, from, to, unwritten) ==                        \* mutant
    IF e.unwritten = unwritten \/ Slice(e, from, to, 0) = << >> THEN << e >>
    ELSE Before(e, from)
         \o << [Slice(e, from, to, 0)[1] EXCEPT !.unwritten = unwritten] >>
         \o From(e, from, 0)

SetKind(e, from, to, unwritten) ==
    IF e.unwritten = unwritten \/ Slice(e, from, to, 0) = << >> THEN << e >>
    ELSE Before(e, from)
         \o << [Slice(e, from, to, 0)[1] EXCEPT !.unwritten = unwritten] >>
         \o From(e, to, 0)

(* simplefs_convert_unwritten_range: every unwritten extent in the range. *)
ConvertUnwrittenRange(buf, from, to) ==
    NormalizeExtents(MapExtents(buf, LAMBDA e : SetKind(e, from, to, FALSE)))

(* simplefs_mark_unwritten_range: only the extent that holds from. *)
MarkUnwrittenRange(buf, from, to) ==
    NormalizeExtents(MapExtents(buf,
        LAMBDA e : IF Covers(e, from) THEN SetKind(e, from, to, TRUE) ELSE << e >>))

(***************************************************************************)
(* Punch hole and truncate keep what lies outside first .. last - 1; the   *)
(* physical blocks of the rest are freed.                                  *)
(***************************************************************************)
PunchExtents(buf, first, last) ==
    NormalizeExtents(MapExtents(buf, LAMBDA e : Before(e, first) \o From(e, last, 0)))

PunchedBlocks(buf, first, last) ==
    BlocksOf(MapExtents(buf, LAMBDA e : Slice(e, first, last, 0)))

(* Collapse: what follows the removed range moves down by its length. *)
CollapseExtents(buf, first, last) ==
    NormalizeExtents(MapExtents(buf,
        LAMBDA e : Before(e, first) \o From(e, last, first - last)))

(* Insert: what follows the insertion point moves up, leaving a hole. *)
InsertRange(buf, first, len) ==
    NormalizeExtents(MapExtents(buf, LAMBDA e : Before(e, first) \o From(e, first, len)))
-----------------------------------------------------------------------------
(***************************************************************************)
(* get_free_blocks with the callers' retry: the length is halved until a   *)
(* run is found; start = 0 when not even one block is free.                *)
(***************************************************************************)
Halvings(len) == {len \div (2 ^ k) : k \in 0 .. len} \ {0}

Fits(free, len) == FirstRun(free, len, 0) # 0

AllocRun(free, len) ==
    LET lens == {n \in Halvings(len) : Fits(free, n)} IN
    IF lens = {} THEN [start |-> 0, len |-> 0]
    ELSE LET n == CHOOSE m \in lens : \A k \in lens : k <= m
         IN  [start |-> FirstRun(free, n, 0), len |-> n]

(***************************************************************************)
(* simplefs_get_block with create set, for a block that has no extent.     *)
(* The extent before it is grown in place when it ends at iblock, is of    *)
(* the kind wanted and the next physical blocks are free                   *)
(* (simplefs_take_exact_blocks); otherwise a new extent is inserted.       *)
(***************************************************************************)
GrowLens(buf, free, iblock, len, unwritten) ==
    LET i == InsertIdx(buf, iblock) - 1 IN
    IF i = 0 THEN {}
    ELSE IF buf[i].unwritten # unwritten \/ ExtEnd(buf[i]) # iblock THEN {}
    ELSE {n \in Halvings(Lesser(len, MaxExtentLen - buf[i].ee_len)) :
              Run(buf[i].ee_start + buf[i].ee_len, n) \subseteq free}

AllocAt(buf, free, iblock, maxblocks, unwritten) ==
    LET want == RoomAt(buf, iblock, Lesser(maxblocks, MaxExtentLen))
        i == InsertIdx(buf, iblock)
        grow == GrowLens(buf, free, iblock, want, unwritten)
        run == AllocRun(free, want)
    IN  IF grow # {}
        THEN LET n == CHOOSE m \in grow : \A k \in grow : k <= m
             IN  [start |-> buf[i - 1].ee_start + buf[i - 1].ee_len, len |-> n, grown |-> TRUE,
                  buf |-> NormalizeExtents([buf EXCEPT ![i - 1].ee_len = @ + n])]
        ELSE [start |-> run.start, len |-> run.len, grown |-> FALSE,
              buf |-> NormalizeExtents(
                          InsertAt(buf, i, Ext(iblock, run.len, run.start, unwritten)))]

(***************************************************************************)
(* simplefs_zero_range_full_blocks: walk first .. last - 1, turning        *)
(* written extents into unwritten ones and filling the holes with new      *)
(* unwritten extents.  ok is FALSE when a hole could not be filled; taken  *)
(* holds the blocks allocated until then.                                  *)
(***************************************************************************)
RECURSIVE ZeroWalk(_, _, _, _, _)
ZeroWalk(buf, free, taken, block, last) ==
    LET i == FindExtent(buf, block)
        run == AllocRun(free, RoomAt(buf, block, Lesser(last - block, MaxExtentLen)))
    IN  IF block >= last THEN [buf |-> NormalizeExtents(buf), taken |-> taken, ok |-> TRUE]
        ELSE IF i # 0
             THEN ZeroWalk(MapExtents(buf, LAMBDA e : IF Covers(e, block)
                                                      THEN SetKind(e, block, last, TRUE)
                                                      ELSE << e >>),
                           free, taken, Lesser(ExtEnd(buf[i]), last), last)
        ELSE IF run.start = 0 THEN [buf |-> buf, taken |-> taken, ok |-> FALSE]
        ELSE LET got == Run(run.start, run.len) IN
             ZeroWalk(InsertAt(buf, InsertIdx(buf, block), Ext(block, run.len, run.start, TRUE)),
                      free \ got, taken \cup got, block + run.len, last)

ZeroRangeFullBlocks(buf, free, first, last) == ZeroWalk(buf, free, {}, first, last)
=============================================================================
