------------------------- MODULE SimplefsPosixFile -------------------------
(***************************************************************************)
(* What simplefs promises the users of a regular file: its content, and    *)
(* what a call in progress may do to it.  A call works on the cells (the   *)
(* unit of the model, a fraction of a block) from .. to - 1, in as many    *)
(* steps as it likes, and may return success only when all of its effect   *)
(* is there.  Nothing else changes the content: not writeback, not the     *)
(* page cache dropping a page, not the return of speculative blocks.       *)
(***************************************************************************)
EXTENDS Integers, Sequences

CONSTANTS Thread, Request, NoCall

VARIABLES
    content,   \* the cells of the file, in order; cell c is content[c + 1]
    call       \* each thread's call: its request, and "running" or "failed"

Zero == 0
Data == 1

InRange(i, r) == r.from < i /\ i <= r.to     \* cell i - 1

Bigger(m, n) == IF m > n THEN m ELSE n

Resized(file, n) == [i \in 1 .. n |-> IF i <= Len(file) THEN file[i] ELSE Zero]

Removed(file, r) == SubSeq(file, 1, r.from) \o SubSeq(file, r.to + 1, Len(file))

Inserted(file, r) ==
    SubSeq(file, 1, r.from) \o [i \in 1 .. (r.to - r.from) |-> Zero]
    \o SubSeq(file, r.from + 1, Len(file))

(* content' is file but for some cells of the range, which hold v. *)
SomeSet(file, r, v) ==
    /\ Len(content') = Len(file)
    /\ \A i \in DOMAIN file : content'[i] = file[i] \/ (InRange(i, r) /\ content'[i] = v)
-----------------------------------------------------------------------------
(* write(2), which may extend the file, and a store through a mapping. *)
WriteSome(r) ==
    /\ r.kind \in {"write", "direct"}
    /\ \E n \in (r.from + 1) .. r.to : SomeSet(Resized(content, Bigger(n, Len(content))), r, Data)

Store(r) == r.kind = "store" /\ SomeSet(content, r, Data)

(* Punch hole and zero range. *)
ZeroSome(r) == r.kind \in {"punch", "zero", "zero_keep"} /\ SomeSet(content, r, Zero)

(* truncate sets the size; fallocate and zero range extend it. *)
Resize(r) ==
    /\ \/ r.kind = "truncate"
       \/ r.kind \in {"falloc", "zero"} /\ r.to > Len(content)
    /\ content' = Resized(content, r.to)

(* A fallocate or zero range that fails gives the extension back. *)
GiveBack(r) ==
    /\ r.kind \in {"falloc", "zero"}
    /\ r.to = Len(content)
    /\ content' = Resized(content, Len(content'))

Shift(r) ==
    \/ r.kind = "collapse" /\ content' = Removed(content, r)
    \/ r.kind = "insert" /\ content' = Inserted(content, r)

Works(r) ==
    WriteSome(r) \/ Store(r) \/ ZeroSome(r) \/ Resize(r) \/ UNCHANGED content

(* What the file holds when a call returns success. *)
Complete(r, file) ==
    LET holds(v) == \A i \in DOMAIN file : InRange(i, r) => file[i] = v IN
    CASE r.kind \in {"write", "direct"} -> Len(file) >= r.to /\ holds(Data)
      [] r.kind = "store" -> holds(Data)
      [] r.kind \in {"punch", "zero_keep"} -> holds(Zero)
      [] r.kind = "zero" -> Len(file) >= r.to /\ holds(Zero)
      [] r.kind = "truncate" -> Len(file) = r.to
      [] r.kind = "falloc" -> Len(file) >= r.to
      [] OTHER -> TRUE
-----------------------------------------------------------------------------
Init ==
    /\ content = << >>
    /\ call = [t \in Thread |-> NoCall]

To(t, c) == call' = [call EXCEPT ![t] = c]

Running(t) == call[t] # NoCall /\ call[t].state = "running"

Begin(t) ==
    /\ call[t] = NoCall
    /\ call'[t] \in [req : Request, state : {"running"}]
    /\ To(t, call'[t])
    /\ UNCHANGED content

Work(t) == Running(t) /\ Works(call[t].req) /\ UNCHANGED call

Succeed(t) ==
    /\ Running(t)
    /\ LET r == call[t].req IN
       IF r.kind \in {"collapse", "insert"} THEN Shift(r)
       ELSE Works(r) /\ Complete(r, content')
    /\ To(t, NoCall)

Fail(t) ==
    /\ Running(t)
    /\ Works(call[t].req) \/ GiveBack(call[t].req)
    /\ To(t, [call[t] EXCEPT !.state = "failed"])

ReturnError(t) ==
    /\ call[t] # NoCall
    /\ call[t].state = "failed"
    /\ To(t, NoCall)
    /\ UNCHANGED content

Next == \E t \in Thread : Begin(t) \/ Work(t) \/ Succeed(t) \/ Fail(t) \/ ReturnError(t)

Spec == Init /\ [][Next]_<<content, call>>
=============================================================================
