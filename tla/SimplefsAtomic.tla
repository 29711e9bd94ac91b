--------------------------- MODULE SimplefsAtomic ---------------------------
(***************************************************************************)
(* What the journal promises the operations above it.  Metadata operations *)
(* take effect one at a time, whole; what a recovery restores is the       *)
(* effect of the operations done so far up to some point, in their order.  *)
(***************************************************************************)
EXTENDS Naturals, Sequences

CONSTANT Thread

VARIABLES done,      \* the operations in the order in which they took effect
          ndurable   \* how many of them a recovery restores

AtomicInit == done = <<>> /\ ndurable = 0

Apply(t) == done' = Append(done, t) /\ UNCHANGED ndurable

MakeDurable == ndurable' \in (ndurable + 1) .. Len(done) /\ UNCHANGED done

(* The journal gives up: what is not durable by then never will be. *)
Lose == done' = SubSeq(done, 1, ndurable) /\ UNCHANGED ndurable

AtomicNext == (\E t \in Thread : Apply(t)) \/ MakeDurable \/ Lose

AtomicSpec == AtomicInit /\ [][AtomicNext]_<<done, ndurable>>
=============================================================================
