------------------------- MODULE SimplefsBitmapOps -------------------------
(***************************************************************************)
(* What the bitmap scans of simplefs compute, as set expressions.  A       *)
(* bitmap is the set of its one bits (one = free); a run of len bits       *)
(* starting at b is b .. b + len - 1.  SimplefsScan has the loops          *)
(* themselves, checked against these definitions; the state machines use   *)
(* the definitions.                                                        *)
(***************************************************************************)
EXTENDS Integers, FiniteSets

Run(b, len) == b .. (b + len - 1)

Least(S) == CHOOSE x \in S : \A y \in S : x <= y

(***************************************************************************)
(* The first run of len one bits at or after start, 0 when there is none.  *)
(* Bit 0 is never free, which is what lets 0 stand for failure.            *)
(***************************************************************************)
RunStarts(freemap, len, start) ==
    {b \in freemap : b >= start /\ Run(b, len) \subseteq freemap}

FirstRun(freemap, len, start) ==
    IF RunStarts(freemap, len, start) = {} THEN 0
    ELSE Least(RunStarts(freemap, len, start))

(***************************************************************************)
(* get_free_blocks skips a run while JBD2 still holds one of its blocks    *)
(* (simplefs_journal_prepare_new_blocks returns -EAGAIN) and searches on   *)
(* from the next bit: the result is the first run that avoids held.        *)
(***************************************************************************)
AllocStart_IgnoreHeld(freemap, held, len) == FirstRun(freemap, len, 0)   \* mutant

AllocStart(freemap, held, len) == FirstRun(freemap \ held, len, 0)

ValidRun(b, len, size) == b > 0 /\ len > 0 /\ b + len <= size

(***************************************************************************)
(* A discard may only name whole device units (gran blocks each): the ones *)
(* every block of which is pending and free.                               *)
(***************************************************************************)
UnitOf(b, gran) == Run(b - (b % gran), gran)

UnitsInside(S, gran) == {b \in S : UnitOf(b, gran) \subseteq S}

UnitsTouched(S, gran) == UNION {UnitOf(b, gran) : b \in S}

(* The bits of S that lie in a run of at least minlen one bits of S. *)
LongRuns(S, minlen) ==
    {b \in S : \E s \in S : b \in Run(s, minlen) /\ Run(s, minlen) \subseteq S}
=============================================================================
