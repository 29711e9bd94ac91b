---------------------------- MODULE SimplefsScan ----------------------------
(***************************************************************************)
(* The bitmap scanning loops of simplefs, step by step as the C code runs  *)
(* them, each a function of the bit the loop has reached.  Every loop runs *)
(* under bitmap_lock, so it is a function of the bitmaps it starts from.   *)
(***************************************************************************)
EXTENDS SimplefsBitmapOps, Bitwise

(* Mutant: a gap does not restart the count. *)
GetFirstFreeBitsFrom_NoReset(freemap, size, len, start) ==
    LET upto(b) == {x \in freemap : start <= x /\ x <= b}
        ends    == {b \in freemap : Cardinality(upto(b)) = len}
    IN  IF ends = {} THEN 0 ELSE Least(ends) - len + 1

(***************************************************************************)
(* get_first_free_bits_from: prev is the last one bit seen, count the      *)
(* length of the run it ends.                                              *)
(***************************************************************************)
GetFirstFreeBitsFrom(freemap, size, len, start) ==
    LET scan[bit \in 0 .. size] ==   \* the loop has looked at start .. bit - 1
            IF bit <= start THEN [prev |-> 0, count |-> 0, ret |-> 0]
            ELSE LET w    == scan[bit - 1]
                     last == bit - 1
                     n    == (IF w.prev # last - 1 THEN 0 ELSE w.count) + 1
                 IN  IF w.ret # 0 \/ last \notin freemap THEN w
                     ELSE [prev |-> last, count |-> n,
                           ret |-> IF n = len THEN last - len + 1 ELSE 0]
    IN  scan[size].ret

(***************************************************************************)
(* The retry loop of __simplefs_get_free_blocks: a run that JBD2 still     *)
(* holds is put back and the search resumes one bit further on.            *)
(***************************************************************************)
RECURSIVE GetFreeBlocksFrom(_, _, _, _, _)

(* Mutant: the search skips the whole refused run. *)
GetFreeBlocksFrom_SkipRun(freemap, held, size, len, search) ==
    LET ret == GetFirstFreeBitsFrom(freemap, size, len, search)
    IN  IF ret # 0 /\ Run(ret, len) \cap held # {}
        THEN GetFreeBlocksFrom(freemap, held, size, len, ret + len)
        ELSE ret

GetFreeBlocksFrom(freemap, held, size, len, search) ==
    LET ret == GetFirstFreeBitsFrom(freemap, size, len, search)
    IN  IF ret # 0 /\ Run(ret, len) \cap held # {}
        THEN GetFreeBlocksFrom(freemap, held, size, len, ret + 1)
        ELSE ret

(***************************************************************************)
(* The kernel's round_up and round_down: bit masks, exact only when y is a *)
(* power of two.  x is never 0 where the code rounds up.                   *)
(***************************************************************************)
RoundUp_Down(x, y) == x - (x & (y - 1))   \* mutant: the start is rounded down

RoundUp(x, y) == ((x - 1) | (y - 1)) + 1
RoundDown(x, y) == x - (x & (y - 1))

(* The end of the run of S that starts at b, below limit. *)
RunEnd(S, b, limit) == Least({e \in (b + 1) .. limit : e \notin S \/ e = limit})

(***************************************************************************)
(* simplefs_issue_pending_discards from bit block on, with a device that   *)
(* accepts every request.  out is the set of blocks discarded so far,      *)
(* pending the bits that stay set.                                         *)
(***************************************************************************)
RECURSIVE IssueFrom(_, _, _, _, _, _)
IssueFrom(freemap, pending, out, size, gran, block) ==
    LET left == {b \in pending : b >= block}
        b    == Least(left)
        end  == RunEnd(pending \cap freemap, b, size)
        from == RoundUp(b, gran)
        to   == RoundDown(end, gran)
        sent == from .. (to - 1)
    IN  IF left = {} THEN [out |-> out, pending |-> pending]
        ELSE IF b \notin freemap
        THEN IssueFrom(freemap, pending \ {b}, out, size, gran, b + 1)
        ELSE IssueFrom(freemap, pending \ sent, out \cup sent, size, gran, end)

(* The loop of simplefs_trim_fs over start .. end - 1: the blocks it discards. *)
RECURSIVE TrimFrom(_, _, _, _, _)

(* Mutant: a run of exactly minlen blocks is left out. *)
TrimFrom_Strict(freemap, out, minlen, end, b) ==
    LET left    == {x \in freemap : x >= b /\ x < end}
        first   == Least(left)
        run_end == RunEnd(freemap, first, end)
    IN  IF left = {} THEN out
        ELSE TrimFrom(freemap,
                      IF run_end - first > minlen
                      THEN out \cup (first .. (run_end - 1)) ELSE out,
                      minlen, end, run_end)

TrimFrom(freemap, out, minlen, end, b) ==
    LET left    == {x \in freemap : x >= b /\ x < end}
        first   == Least(left)
        run_end == RunEnd(freemap, first, end)
        run     == first .. (run_end - 1)
    IN  IF left = {} THEN out
        ELSE TrimFrom(freemap,
                      IF run_end - first >= minlen THEN out \cup run ELSE out,
                      minlen, end, run_end)
-----------------------------------------------------------------------------
CONSTANTS Size,      \* number of bits scanned
          Grans      \* discard granularities to try, in blocks

VARIABLES freemap, other, len, start, gran
vars == <<freemap, other, len, start, gran>>

(* other: the bits held by JBD2, or the pending discards *)
Init == /\ freemap \in SUBSET (1 .. Size - 1)
        /\ other \in SUBSET (1 .. Size - 1)
        /\ len \in 1 .. 3
        /\ start \in {0, 2, Size - 1}
        /\ gran \in Grans

Next == UNCHANGED vars

Spec == Init /\ [][Next]_vars

(***************************************************************************)
(* The first-fit scan returns the lowest run of len free bits at or after  *)
(* its start, and 0 exactly when there is none                             *)
(* (get_first_free_bits_from).                                             *)
(***************************************************************************)
FirstFitCorrect ==
    GetFirstFreeBitsFrom(freemap, Size, len, start) = FirstRun(freemap, len, start)

(***************************************************************************)
(* Searching on from ret + 1 after -EAGAIN misses no usable run and never  *)
(* returns one that contains a held block (__simplefs_get_free_blocks).    *)
(***************************************************************************)
RetryFindsFirstUnheld ==
    GetFreeBlocksFrom(freemap, other, Size, len, 0) = AllocStart(freemap, other, len)

(***************************************************************************)
(* One pass of simplefs_issue_pending_discards discards exactly the whole  *)
(* units whose blocks are all pending and free, keeps the other free       *)
(* pending bits for a later pass, and forgets the pending bits of blocks   *)
(* that are in use.                                                        *)
(***************************************************************************)
PendingPassCorrect ==
    LET live == other \cap freemap
        done == UnitsInside(live, gran)
    IN  IssueFrom(freemap, other, {}, Size, gran, 0)
            = [out |-> done, pending |-> live \ done]

(***************************************************************************)
(* The comment of simplefs_issue_pending_discards: a discard never names   *)
(* part of a device unit.  round_up and round_down are masks, so this      *)
(* needs a granularity that is a power of two.                             *)
(***************************************************************************)
NeverPartialUnit ==
    LET out == IssueFrom(freemap, other, {}, Size, gran, 0).out
    IN  out = UnitsInside(out, gran)

(***************************************************************************)
(* FITRIM discards exactly the free runs, cut to the requested range, of   *)
(* at least minlen blocks (simplefs_trim_fs).                              *)
(***************************************************************************)
TrimPassCorrect ==
    TrimFrom(freemap, {}, len, Size, start)
        = LongRuns(freemap \cap (start .. Size - 1), len)
=============================================================================
