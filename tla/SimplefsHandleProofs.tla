------------------------ MODULE SimplefsHandleProofs ------------------------
(***************************************************************************)
(* Proofs about SimplefsHandle, first part: the inductive invariant, and   *)
(* that the start of a call, the forced commits, the shutdown ioctl, the   *)
(* commit thread and the unmount keep it.                                  *)
(***************************************************************************)
EXTENDS SimplefsHandle, SequenceTheorems, TLAPS

(***************************************************************************)
(* The scripts.  A step that may return at once has no write before it, or *)
(* is one of the three where rename and rmdir give up half way; a binding  *)
(* step is one the operation cannot finish without.                        *)
(***************************************************************************)
Written == {"ibit", "bbit", "root", "inode", "entry", "dir", "target", "victim", "newdir",
            "newentry", "oldentry", "olddir", "parent", "data"}

Helper == [writes : Written \cup {"none"},
           refusal : SUBSET {"return", "undo", "fail", "ignore", "none"},
           errs : SUBSET {"return", "undo", "fail", "ignore", "leak"}]

Binding(s, i) == s[i].writes # "none" /\ "ignore" \notin s[i].refusal \cup s[i].errs

SoundScript(call, s) ==
    /\ s \in Seq(Helper)
    /\ Len(s) \in 1 .. 14
    /\ \A i \in 1 .. Len(s) : "return" \in s[i].errs =>
          \/ \A j \in 1 .. i - 1 : s[j].writes = "none"
          \/ call = "rename" /\ i \in {7, 9}
          \/ call = "rmdir" /\ i = 5

NumSteps(call) == Len(Script(call))

WrittenBefore(s, n) == {s[j].writes : j \in 1 .. n - 1} \ {"none"}
-----------------------------------------------------------------------------
(***************************************************************************)
(* The inductive invariant.  TypeInv: TypeOK with the handles as sequences *)
(* and no write outside an operation's script.                             *)
(***************************************************************************)
Handle == {e \in Entries : e.wrote \subseteq Writes(e.call)}

Pcs == {"idle", "flag", "lock", "open", "run", "stop", "commit", "wait", "abort", "done"}

TypeInv ==
    /\ prog \in [Thread -> Workload] /\ pc \in [Thread -> Pcs]
    /\ step \in [Thread -> 1 .. 15]
    /\ result \in [Thread -> {"none", "ok", "error"}]
    /\ before \in [Thread -> SUBSET Thread]
    /\ j_handle_mutex \in Thread \cup {Nobody, Umount}
    /\ j_handle_owner \in {Nobody, j_handle_mutex} \ {Umount}
    /\ s_shutdown \in BOOLEAN /\ aborted \in BOOLEAN
    /\ txn \in Seq(Handle) /\ flushing \in Seq(Handle) /\ durable \in Seq(Handle)
    /\ kjournald \in {"idle", "locked", "flushing"}
    /\ s_needs_recovery \in BOOLEAN
    /\ mount \in {"mounted", "sync", "destroy", "gone"}

(* Who holds the mutex and the handle, by where each task is. *)
LockInv ==
    /\ \A t \in Thread :
          /\ pc[t] \in {"open", "run", "stop", "commit", "wait"} => j_handle_mutex = t
          /\ pc[t] \in {"run", "stop"} => j_handle_owner = t
          /\ j_handle_owner = t => pc[t] \in {"run", "stop"} \/ (pc[t] = "done" /\ aborted)
          /\ pc[t] \in {"open", "run", "stop"} => prog[t] \in Operations
          /\ pc[t] \in {"commit", "wait"} => prog[t] \notin Operations
          /\ pc[t] \in {"flag", "abort"} => prog[t] \in Shutdowns
          /\ pc[t] \in {"idle", "flag", "lock", "open", "commit", "wait"} => step[t] = 1
          /\ pc[t] = "run" => step[t] \in 1 .. NumSteps(prog[t])
          /\ result[t] = "ok" => pc[t] = "done"
          /\ mount # "mounted" => pc[t] = "done"
    /\ mount = "sync" => j_handle_mutex = Umount
    /\ kjournald # "flushing" => flushing = <<>>

AllSettled(log) == \A i \in 1 .. Len(log) : Settled(log[i])

(* The open handle, of task t: what it has written so far. *)
OpenHandle(t) ==
    LET e == Last(txn)
        s == Script(prog[t])
    IN  /\ txn # <<>> /\ e.by = t /\ e.call = prog[t]
        /\ pc[t] = "run" /\ ~aborted =>
              /\ e.cut \/ e.wrote = WrittenBefore(s, step[t])
              /\ \A j \in 1 .. step[t] - 1 : Binding(s, j) => s[j].writes \in e.wrote
        /\ pc[t] = "stop" /\ ~aborted =>
              /\ Settled(e) \/ e.wrote = {}
              /\ result[t] # "error" /\ prog[t] # "evict" => e.wrote # {}

(* Until the journal is aborted, every handle that has stopped is settled. *)
LogInv ==
    /\ AllSettled(durable)
    /\ ~aborted => AllSettled(flushing) /\ AllSettled(Stopped)
    /\ \A t \in Thread : j_handle_owner = t => OpenHandle(t)

Bys(log) == {log[i].by : i \in 1 .. Len(log)}

(* An operation that returned 0 is in the journal, and durable when that was promised. *)
PromiseInv ==
    /\ \A t \in Thread : before[t] \subseteq ReturnedOk
    /\ ~aborted => ReturnedOk \subseteq Bys(durable) \cup Bys(flushing) \cup Bys(txn)
    /\ ~aborted => \A t \in Thread :
                      prog[t] \in Fsyncs /\ result[t] = "ok" => before[t] \subseteq Bys(durable)
    /\ ~s_needs_recovery =>
          /\ mount \in {"destroy", "gone"} /\ kjournald = "idle" /\ txn = <<>>
          /\ ReturnedOk \subseteq Bys(durable)

HandleInv == TypeInv /\ LockInv /\ LogInv /\ PromiseInv
-----------------------------------------------------------------------------
(* Nobody and the unmounting task are not tasks of the workload. *)
LEMMA ThreadNumbers == Nobody \notin Thread /\ Umount \notin Thread /\ Nobody # Umount
BY HandleAssumption DEF Nobody, Umount

(* Every task makes one of the calls the model knows. *)
LEMMA CallsAreKnown == ASSUME TypeInv, NEW t \in Thread PROVE prog[t] \in Calls
BY Zenon, HandleAssumption DEF TypeInv

(* What the operators on sequences do to the handles in a transaction. *)
LEMMA JoinedLogs ==
    ASSUME NEW a \in Seq(Handle), NEW b \in Seq(Handle)
    PROVE  /\ a \o b \in Seq(Handle) /\ Len(a \o b) = Len(a) + Len(b)
           /\ Bys(a \o b) = Bys(a) \cup Bys(b)
           /\ AllSettled(a) /\ AllSettled(b) => AllSettled(a \o b)
<1>1. /\ a \o b \in Seq(Handle) /\ Len(a \o b) = Len(a) + Len(b)
      /\ \A i \in 1 .. Len(a) : (a \o b)[i] = a[i]
      /\ \A i \in 1 .. Len(b) : (a \o b)[Len(a) + i] = b[i]
      /\ \A i \in 1 .. Len(a) + Len(b) : i <= Len(a) \/ (i - Len(a) \in 1 .. Len(b) /\ (a \o b)[i] = b[i - Len(a)])
    OBVIOUS
<1>2. Bys(a \o b) = Bys(a) \cup Bys(b)
    <2>1. Bys(a \o b) \subseteq Bys(a) \cup Bys(b)
        BY <1>1 DEF Bys
    <2>2. Bys(a) \subseteq Bys(a \o b)
        BY <1>1 DEF Bys
    <2>3. Bys(b) \subseteq Bys(a \o b)
        <3> SUFFICES ASSUME NEW i \in 1 .. Len(b) PROVE b[i].by \in Bys(a \o b)
            BY Zenon DEF Bys
        <3>1. Len(a) + i \in 1 .. Len(a \o b)
            BY <1>1
        <3> QED BY Zenon, <1>1, <3>1 DEF Bys
    <2> QED BY Zenon, <2>1, <2>2, <2>3
<1>3. AllSettled(a) /\ AllSettled(b) => AllSettled(a \o b)
    BY <1>1 DEF AllSettled
<1> QED BY Zenon, <1>1, <1>2, <1>3

(* Opening a handle appends it to the running transaction. *)
LEMMA AppendedHandle ==
    ASSUME NEW a \in Seq(Handle), NEW e \in Handle
    PROVE  /\ Append(a, e) \in Seq(Handle) /\ Append(a, e) # <<>> /\ Last(Append(a, e)) = e
           /\ Len(Append(a, e)) = Len(a) + 1 /\ Front(Append(a, e)) = a
           /\ Bys(a) \subseteq Bys(Append(a, e))
<1>1. /\ Append(a, e) \in Seq(Handle) /\ Len(Append(a, e)) = Len(a) + 1
      /\ \A i \in 1 .. Len(a) : Append(a, e)[i] = a[i] /\ Append(a, e)[Len(a) + 1] = e
    OBVIOUS
<1>2. Bys(a) \subseteq Bys(Append(a, e))
    BY <1>1 DEF Bys
<1>3. Last(Append(a, e)) = e /\ Append(a, e) # <<>>
    BY <1>1 DEF Last
<1>4. Front(Append(a, e)) = a
    BY <1>1 DEF Front
<1> QED BY Zenon, <1>1, <1>2, <1>3, <1>4

(* A transaction is its stopped handles and the last one. *)
LEMMA FrontOfLog ==
    ASSUME NEW a \in Seq(Handle), a # <<>>
    PROVE  /\ Front(a) \in Seq(Handle) /\ Len(Front(a)) = Len(a) - 1 /\ Len(a) \in Nat \ {0}
           /\ \A i \in 1 .. Len(a) - 1 : Front(a)[i] = a[i]
           /\ Last(a) \in Handle
           /\ Bys(a) = Bys(Front(a)) \cup {Last(a).by}
           /\ AllSettled(Front(a)) /\ Settled(Last(a)) => AllSettled(a)
<1>1. /\ Front(a) \in Seq(Handle) /\ Len(Front(a)) = Len(a) - 1 /\ Len(a) \in Nat \ {0}
      /\ \A i \in 1 .. Len(a) - 1 : Front(a)[i] = a[i]
      /\ Last(a) \in Handle
    <2>1. Len(a) \in Nat \ {0} /\ \A i \in 1 .. Len(a) : a[i] \in Handle
        OBVIOUS
    <2>2. Last(a) \in Handle
        BY <2>1 DEF Last
    <2>3. 1 \in Int /\ Len(a) - 1 \in Int /\ \A i \in 1 .. Len(a) - 1 : a[i] \in Handle
        BY <2>1
    <2>4. PICK n \in Nat : n = Len(a) - 1
        BY <2>1
    <2>5. /\ SubSeq(a, 1, n) \in Seq(Handle)
          /\ Len(SubSeq(a, 1, n)) = IF 1 <= n THEN n - 1 + 1 ELSE 0
          /\ \A i \in 1 .. n - 1 + 1 : SubSeq(a, 1, n)[i] = a[1 + i - 1]
        BY <2>3, <2>4, SubSeqProperties
    <2>6. Len(SubSeq(a, 1, n)) = n /\ \A i \in 1 .. n : SubSeq(a, 1, n)[i] = a[i]
        BY <2>5
    <2> QED BY Zenon, <2>1, <2>2, <2>4, <2>5, <2>6 DEF Front
<1>2. Bys(a) = Bys(Front(a)) \cup {Last(a).by}
    BY <1>1 DEF Bys, Last
<1>3. AllSettled(Front(a)) /\ Settled(Last(a)) => AllSettled(a)
    BY <1>1 DEF AllSettled, Last
<1> QED BY Zenon, <1>1, <1>2, <1>3

(* Replacing the last handle leaves the stopped ones as they were. *)
LEMMA ReplacedLast ==
    ASSUME NEW a \in Seq(Handle), a # <<>>, NEW e \in Handle, NEW b,
           b = [a EXCEPT ![Len(a)] = e]
    PROVE  b \in Seq(Handle) /\ Last(b) = e /\ Front(b) = Front(a) /\ b # <<>>
<1>1. Len(a) \in 1 .. Len(a) /\ Len(a) \in Nat
    OBVIOUS
<1>2. /\ b \in Seq(Handle) /\ Len(b) = Len(a)
      /\ \A i \in 1 .. Len(a) : b[i] = IF i = Len(a) THEN e ELSE a[i]
    BY <1>1, ExceptSeq
<1>3. Last(b) = e /\ b # <<>>
    BY <1>1, <1>2 DEF Last
<1>4. \A i \in 1 .. Len(a) - 1 : b[i] = a[i]
    <2> TAKE i \in 1 .. Len(a) - 1
    <2>1. i \in 1 .. Len(a) /\ i # Len(a)
        BY <1>1
    <2> QED BY Zenon, <1>2, <2>1
<1>5. Front(b) = Front(a)
    <2>1. /\ Front(a) \in Seq(Handle) /\ Len(Front(a)) = Len(a) - 1
          /\ Front(b) \in Seq(Handle) /\ Len(Front(b)) = Len(a) - 1
          /\ \A i \in 1 .. Len(a) - 1 : Front(a)[i] = a[i] /\ Front(b)[i] = b[i]
        BY Zenon, <1>2, <1>3, FrontOfLog
    <2> QED BY Zenon, <1>4, <2>1, SeqEqual
<1> QED BY Zenon, <1>2, <1>3, <1>4, <1>5
-----------------------------------------------------------------------------
(* The scripts: an operation returns without undoing anything only before its first write, and *)
(* every one but the eviction has a write it cannot do without.                                 *)
LEMMA ScriptsAreSound ==
    \A c \in Operations :
        /\ SoundScript(c, Script(c))
        /\ c # "evict" => \E i \in 1 .. Len(Script(c)) : Binding(Script(c), i)
<1> USE DEF SoundScript, Binding, Helper, Written, Call, GetFreeInode, DirGet, FreeSlot, DirSet, Persist
<1>1. SoundScript("create", CreateScript) /\ Len(CreateScript) = 8 /\ Binding(CreateScript, 1)
    BY DEF CreateScript
<1>2. SoundScript("mknod", MknodScript) /\ Len(MknodScript) = 7 /\ Binding(MknodScript, 1)
    BY DEF MknodScript
<1>3. SoundScript("link", LinkScript) /\ Len(LinkScript) = 6 /\ Binding(LinkScript, 3)
    BY DEF LinkScript
<1>4. SoundScript("unlink", UnlinkScript) /\ Len(UnlinkScript) = 4 /\ Binding(UnlinkScript, 2)
    BY DEF UnlinkScript
<1>5. SoundScript("rename", RenameScript) /\ Len(RenameScript) = 14 /\ Binding(RenameScript, 3)
    BY DEF RenameScript
<1>6. SoundScript("evict", EvictScript)
    BY DEF EvictScript
<1>10. SoundScript("rmdir", RmdirScript) /\ Len(RmdirScript) = 5 /\ Binding(RmdirScript, 2)
    BY DEF RmdirScript
<1>7. /\ Script("create") = CreateScript /\ Script("mknod") = MknodScript
      /\ Script("link") = LinkScript /\ Script("unlink") = UnlinkScript
      /\ Script("rename") = RenameScript /\ Script("evict") = EvictScript
      /\ Script("rmdir") = RmdirScript
    BY Zenon DEF Script
<1> HIDE DEF SoundScript, Binding, Helper, Written, Call, GetFreeInode, DirGet, FreeSlot, DirSet, Persist
<1> DEFINE Good(c) == SoundScript(c, Script(c)) /\ \E i \in 1 .. Len(Script(c)) : Binding(Script(c), i)
<1>8. Good("create") /\ Good("mknod") /\ Good("link") /\ Good("unlink") /\ Good("rmdir") /\ Good("rename")
    <2>1. ASSUME NEW s, NEW n \in Nat, Len(s) = n, NEW i \in 1 .. n, Binding(s, i)
          PROVE  \E k \in 1 .. Len(s) : Binding(s, k)
        BY Zenon, <2>1
    <2>2. 1 \in 1 .. 8 /\ 1 \in 1 .. 7 /\ 3 \in 1 .. 6 /\ 2 \in 1 .. 4 /\ 2 \in 1 .. 5 /\ 3 \in 1 .. 14
        OBVIOUS
    <2>3. Good("create") /\ Good("mknod")
        BY Zenon, <1>1, <1>2, <1>7, <2>1, <2>2
    <2>4. Good("link") /\ Good("unlink")
        BY Zenon, <1>3, <1>4, <1>7, <2>1, <2>2
    <2>5. Good("rename")
        BY Zenon, <1>5, <1>7, <2>1, <2>2
    <2>6. Good("rmdir")
        BY Zenon, <1>10, <1>7, <2>1, <2>2
    <2> QED BY Zenon, <2>3, <2>4, <2>5, <2>6
<1> HIDE DEF Good
<1>9. \A c \in Operations : c # "evict" => Good(c)
    BY Zenon, <1>8 DEF Operations
<1> QED BY Zenon, <1>6, <1>7, <1>9 DEF Good, Operations

(* What rename has written when it may give up half way. *)
LEMMA RenameHalves ==
    ASSUME NEW i \in {7, 9}
    PROVE  WrittenBefore(Script("rename"), i) \in HalfRenames
<1> DEFINE s == Script("rename")
<1>1. /\ s[1].writes = "none" /\ s[2].writes = "none" /\ s[3].writes = "target"
      /\ s[4].writes = "victim" /\ s[5].writes = "newdir" /\ s[6].writes = "none"
      /\ s[7].writes = "newentry" /\ s[8].writes = "newdir"
    BY Zenon DEF Script, RenameScript, Call, DirGet, DirSet, Persist
<1> HIDE DEF s
<1>2. WrittenBefore(s, 7) = {"target", "victim", "newdir"}
    <2>1. \A j : j \in 1 .. 7 - 1 <=> j = 1 \/ j = 2 \/ j = 3 \/ j = 4 \/ j = 5 \/ j = 6
        OBVIOUS
    <2>2. \A w : w \in WrittenBefore(s, 7) <=> w # "none" /\ \E j \in 1 .. 7 - 1 : w = s[j].writes
        BY Zenon DEF WrittenBefore
    <2>3. \A w : (\E j \in 1 .. 7 - 1 : w = s[j].writes)
                 <=> w = "none" \/ w = "target" \/ w = "victim" \/ w = "newdir"
        BY Zenon, <1>1, <2>1
    <2> QED BY <2>2, <2>3
<1>3. WrittenBefore(s, 9) = {"target", "victim", "newdir", "newentry"}
    <2>1. \A j : j \in 1 .. 9 - 1 <=> j = 1 \/ j = 2 \/ j = 3 \/ j = 4 \/ j = 5 \/ j = 6 \/ j = 7 \/ j = 8
        OBVIOUS
    <2>2. \A w : w \in WrittenBefore(s, 9) <=> w # "none" /\ \E j \in 1 .. 9 - 1 : w = s[j].writes
        BY Zenon DEF WrittenBefore
    <2>3. \A w : (\E j \in 1 .. 9 - 1 : w = s[j].writes)
                 <=> w = "none" \/ w = "target" \/ w = "victim" \/ w = "newdir" \/ w = "newentry"
        BY Zenon, <1>1, <2>1
    <2> QED BY <2>2, <2>3
<1> QED BY Zenon, <1>2, <1>3 DEF HalfRenames, s

(* What rmdir has written when it may give up. *)
LEMMA RmdirHalf == WrittenBefore(Script("rmdir"), 5) = {"entry", "inode", "dir"}
<1> DEFINE s == Script("rmdir")
<1>1. /\ s[1].writes = "none" /\ s[2].writes = "entry" /\ s[3].writes = "inode"
      /\ s[4].writes = "dir"
    BY Zenon DEF Script, RmdirScript, Call, DirGet, DirSet, Persist
<1> HIDE DEF s
<1>2. \A j : j \in 1 .. 5 - 1 <=> j = 1 \/ j = 2 \/ j = 3 \/ j = 4
    OBVIOUS
<1>3. \A w : w \in WrittenBefore(s, 5) <=> w # "none" /\ \E j \in 1 .. 5 - 1 : w = s[j].writes
    BY Zenon DEF WrittenBefore
<1>4. \A w : (\E j \in 1 .. 5 - 1 : w = s[j].writes)
             <=> w = "none" \/ w = "entry" \/ w = "inode" \/ w = "dir"
    BY Zenon, <1>1, <1>2
<1>5. WrittenBefore(s, 5) = {"entry", "inode", "dir"}
    BY Zenon, <1>3, <1>4
<1> QED BY Zenon, <1>5 DEF s

(* The same of the script a task is running. *)
LEMMA ScriptOf ==
    ASSUME HandleInv, NEW t \in Thread, pc[t] \in {"open", "run", "stop"}
    PROVE  /\ prog[t] \in Operations /\ SoundScript(prog[t], Script(prog[t]))
           /\ prog[t] # "evict" => \E i \in 1 .. NumSteps(prog[t]) : Binding(Script(prog[t]), i)
           /\ NumSteps(prog[t]) \in 1 .. 14
BY Zenon, ScriptsAreSound DEF HandleInv, LockInv, SoundScript, NumSteps

(* A rewritten last handle keeps its place, its task and its operation. *)
Rewritten(b, a) ==
    /\ b \in Seq(Handle) /\ b # <<>> /\ Front(b) = Front(a) /\ Bys(b) = Bys(a)
    /\ Last(b).by = Last(a).by /\ Last(b).call = Last(a).call

(* SetWrote and Cut rewrite the last handle of the running transaction. *)
LEMMA SetWroteRewrites ==
    ASSUME NEW a \in Seq(Handle), a # <<>>, NEW w \in SUBSET Writes(Last(a).call),
           NEW b, b = [a EXCEPT ![Len(a)].wrote = w]
    PROVE  Rewritten(b, a) /\ Last(b).wrote = w /\ Last(b).cut = Last(a).cut
<1>1. Last(a) \in Handle /\ Bys(a) = Bys(Front(a)) \cup {Last(a).by} /\ Last(a) = a[Len(a)]
    BY Zenon, FrontOfLog DEF Last
<1> DEFINE e == [Last(a) EXCEPT !.wrote = w]
<1>2. e \in Handle /\ e.by = Last(a).by /\ e.call = Last(a).call /\ e.cut = Last(a).cut /\ e.wrote = w
    BY Zenon, <1>1 DEF Handle, Entries
<1>3. b = [a EXCEPT ![Len(a)] = e]
    BY Zenon, <1>1
<1> HIDE DEF e
<1>4. b \in Seq(Handle) /\ Last(b) = e /\ Front(b) = Front(a) /\ b # <<>>
    BY Zenon, <1>2, <1>3, ReplacedLast
<1>5. Bys(b) = Bys(Front(b)) \cup {Last(b).by}
    BY Zenon, <1>4, FrontOfLog
<1> QED BY Zenon, <1>1, <1>2, <1>4, <1>5 DEF Rewritten

LEMMA CutRewrites ==
    ASSUME NEW a \in Seq(Handle), a # <<>>, NEW b, b = [a EXCEPT ![Len(a)].cut = TRUE]
    PROVE  Rewritten(b, a) /\ Last(b).wrote = Last(a).wrote /\ Last(b).cut
<1>1. Last(a) \in Handle /\ Bys(a) = Bys(Front(a)) \cup {Last(a).by} /\ Last(a) = a[Len(a)]
    BY Zenon, FrontOfLog DEF Last
<1> DEFINE e == [Last(a) EXCEPT !.cut = TRUE]
<1>2. e \in Handle
    BY Zenon, <1>1 DEF Handle, Entries
<1>3. b = [a EXCEPT ![Len(a)] = e]
    BY Zenon, <1>1
<1>4. e.by = Last(a).by /\ e.call = Last(a).call /\ e.cut /\ e.wrote = Last(a).wrote
    BY Zenon, <1>1 DEF Handle, Entries
<1> HIDE DEF e
<1>5. b \in Seq(Handle) /\ Last(b) = e /\ Front(b) = Front(a) /\ b # <<>>
    BY Zenon, <1>2, <1>3, ReplacedLast
<1>6. Bys(b) = Bys(Front(b)) \cup {Last(b).by}
    BY Zenon, <1>5, FrontOfLog
<1> QED BY Zenon, <1>1, <1>4, <1>5, <1>6 DEF Rewritten

(* While a call runs the filesystem is mounted and the marker set. *)
LEMMA NotUnmounting ==
    ASSUME HandleInv, NEW t \in Thread, pc[t] # "done"
    PROVE  mount = "mounted" /\ s_needs_recovery /\ t \notin ReturnedOk
BY Zenon DEF HandleInv, TypeInv, LockInv, PromiseInv, ReturnedOk
-----------------------------------------------------------------------------
(* Every action keeps the invariant.  First the calls that only move a task. *)
LEMMA EnterKeeps ==
    ASSUME HandleInv, NEW t \in Thread, Enter(t)
    PROVE  HandleInv'
<1>0. TypeInv /\ LockInv /\ LogInv /\ PromiseInv
    BY Zenon DEF HandleInv
<1>1. prog[t] \in Calls /\ s_needs_recovery
    BY Zenon, CallsAreKnown, NotUnmounting, <1>0 DEF Enter
<1>2. ReturnedOk' = ReturnedOk /\ ReturnedOk \in SUBSET Thread
    BY <1>0, <1>1 DEF Enter, Return, Goto, ReturnedOk, TypeInv, LockInv, Operations, Shutdowns, Fsyncs
<1>3. UNCHANGED <<prog, step, aborted, j_handle_mutex, j_handle_owner, s_shutdown, durable, flushing,
                  txn, s_needs_recovery, mount, kjournald>>
    BY Zenon DEF Enter, lockVars, flagVars, commitVars, mountVars, Return
<1>4. TypeInv'
    <2>1. /\ pc' \in [Thread -> Pcs] /\ result' \in [Thread -> {"none", "ok", "error"}]
          /\ before' \in [Thread -> SUBSET Thread]
        <3>1. CASE s_shutdown /\ prog[t] # "dirsync"
            BY Zenon, <1>0, <3>1 DEF Enter, Return, Goto, TypeInv, Pcs
        <3>2. CASE ~(s_shutdown /\ prog[t] # "dirsync")
            BY <1>0, <1>2, <3>2 DEF Enter, Goto, TypeInv, Pcs
        <3> QED BY Zenon, <3>1, <3>2
    <2> QED BY Zenon, <1>0, <1>3, <2>1 DEF TypeInv
<1>5. LockInv'
    BY SMTT(30), <1>0, <1>1, <1>3, ThreadNumbers DEF Enter, Return, Goto,
        TypeInv, LockInv, Pcs, Operations, Shutdowns, Fsyncs, Calls
<1>6. LogInv'
    BY <1>0, <1>3, ThreadNumbers DEF Enter, Return, Goto, TypeInv, LockInv, LogInv, OpenHandle, Stopped
<1>7. PromiseInv'
    <2>1. \A u \in Thread : before'[u] \subseteq ReturnedOk
        BY Zenon, <1>0, <1>2 DEF Enter, Return, Goto, TypeInv, PromiseInv
    <2>2. \A u \in Thread : prog[u] \in Fsyncs /\ result'[u] = "ok" => result[u] = "ok" /\ before'[u] = before[u]
        BY <1>0, <1>1 DEF Enter, Return, Goto, TypeInv, LockInv, Fsyncs, Shutdowns
    <2> QED BY Zenon, <1>0, <1>1, <1>2, <1>3, <2>1, <2>2 DEF PromiseInv
<1> QED BY Zenon, <1>4, <1>5, <1>6, <1>7 DEF HandleInv

LEMMA LockKeeps ==
    ASSUME HandleInv, NEW t \in Thread, Lock(t)
    PROVE  HandleInv'
<1>0. TypeInv /\ LockInv /\ LogInv /\ PromiseInv /\ prog[t] \in Calls
    BY Zenon, CallsAreKnown DEF HandleInv
<1>1. UNCHANGED <<prog, step, result, before, aborted, j_handle_owner, s_shutdown, durable, flushing,
                  txn, s_needs_recovery, mount, kjournald>>
    BY Zenon DEF Lock, flagVars, commitVars, mountVars
<1>2. TypeInv'
    BY Zenon, <1>0, <1>1, ThreadNumbers DEF Lock, Goto, TypeInv, LockInv, Pcs
<1>3. LockInv'
    BY <1>0, <1>1, ThreadNumbers DEF Lock, Goto, TypeInv, LockInv
<1>4. LogInv'
    BY <1>0, <1>1, ThreadNumbers DEF Lock, Goto, TypeInv, LockInv, LogInv, OpenHandle, Stopped
<1>5. PromiseInv'
    BY Zenon, <1>0, <1>1 DEF PromiseInv, ReturnedOk
<1> QED BY Zenon, <1>2, <1>3, <1>4, <1>5 DEF HandleInv

(* A handle is opened only with no other one open, and has written nothing. *)
LEMMA OpenKeeps ==
    ASSUME HandleInv, NEW t \in Thread, Open(t)
    PROVE  HandleInv'
<1>0. TypeInv /\ LockInv /\ LogInv /\ PromiseInv
    BY Zenon DEF HandleInv
<1>1. /\ prog[t] \in Operations /\ s_needs_recovery /\ pc[t] = "open" /\ step[t] = 1
      /\ j_handle_mutex = t /\ j_handle_owner = Nobody
    BY Zenon, <1>0, ScriptOf, NotUnmounting, ThreadNumbers DEF Open, LockInv, TypeInv
<1>2. ReturnedOk' = ReturnedOk
    BY Zenon, <1>0, <1>1 DEF Open, StartFails, Return, Goto, ReturnedOk, TypeInv, LockInv
<1>3. CASE StartFails(t) /\ UNCHANGED <<aborted, txn, commitVars, mountVars>> /\ s_shutdown' \in BOOLEAN
    <2> USE <1>3 DEF StartFails, Return, Goto, Unlock, commitVars, mountVars
    <2>1. TypeInv'
        BY Zenon, <1>0, <1>1, ThreadNumbers DEF TypeInv, Pcs
    <2>2. LockInv'
        BY Zenon, <1>0, <1>1, ThreadNumbers DEF TypeInv, LockInv
    <2>3. LogInv'
        BY Zenon, <1>0, <1>1, ThreadNumbers DEF LogInv, Stopped
    <2>4. PromiseInv'
        BY Zenon, <1>0, <1>1, <1>2 DEF TypeInv, PromiseInv, Fsyncs, Operations
    <2> QED BY Zenon, <2>1, <2>2, <2>3, <2>4 DEF HandleInv
<1>4. CASE /\ ~aborted /\ j_handle_owner' = t
           /\ txn' = Append(txn, [call |-> prog[t], wrote |-> {}, by |-> t, cut |-> FALSE])
           /\ Goto(t, "run")
           /\ UNCHANGED <<prog, step, result, before, j_handle_mutex, flagVars, commitVars, mountVars>>
    <2> DEFINE e == [call |-> prog[t], wrote |-> {}, by |-> t, cut |-> FALSE]
    <2>1. txn' = Append(txn, e)
        BY Zenon, <1>4
    <2>2. /\ j_handle_owner' = t /\ ~aborted /\ pc' = [pc EXCEPT ![t] = "run"]
          /\ UNCHANGED <<prog, step, result, before, j_handle_mutex, s_shutdown, aborted, kjournald, flushing,
                         durable, s_needs_recovery, mount>>
        BY Zenon, <1>4 DEF Goto, flagVars, commitVars, mountVars
    <2>3. e \in Handle
        BY Zenon, <1>1 DEF Handle, Entries
    <2>4. /\ txn' \in Seq(Handle) /\ txn' # <<>> /\ Last(txn') = e /\ Front(txn') = txn
          /\ Bys(txn) \subseteq Bys(txn')
        BY Zenon, <1>0, <2>1, <2>3, AppendedHandle DEF TypeInv
    <2>5. TypeInv'
        BY Zenon, <1>0, <1>1, <2>2, <2>4, ThreadNumbers DEF TypeInv, Pcs
    <2>6. LockInv'
        <3>1. \A u \in Thread \ {t} : pc'[u] = pc[u] /\ j_handle_mutex # u /\ j_handle_owner' # u
            BY Zenon, <1>0, <1>1, <2>2 DEF TypeInv
        <3>2. pc'[t] = "run" /\ NumSteps(prog[t]) \in 1 .. 14
            BY Zenon, <1>0, <1>1, <2>2, ScriptOf DEF TypeInv
        <3>3. step'[t] \in 1 .. NumSteps(prog'[t])
            BY <1>1, <2>2, <3>2
        <3> QED BY Zenon, <1>0, <1>1, <2>2, <3>1, <3>2, <3>3, ThreadNumbers DEF LockInv
    <2>7. LogInv'
        <3>1. Stopped' = Stopped
            BY Zenon, <1>1, <2>2, <2>4, ThreadNumbers DEF Stopped
        <3>2. pc'[t] = "run" /\ step'[t] = 1 /\ WrittenBefore(Script(prog[t]), 1) = {} /\ 1 .. 1 - 1 = {}
            BY SMTT(30), <1>0, <1>1, <2>2 DEF TypeInv, WrittenBefore
        <3>3. /\ txn' # <<>> /\ Last(txn').by = t /\ Last(txn').call = prog'[t]
              /\ Last(txn').wrote = WrittenBefore(Script(prog'[t]), step'[t])
            BY <2>2, <2>4, <3>2
        <3>4. \A j \in 1 .. step'[t] - 1 : FALSE
            BY Zenon, <3>2
        <3>5. OpenHandle(t)'
            BY Zenon, <3>2, <3>3, <3>4 DEF OpenHandle
        <3> QED BY Zenon, <1>0, <2>2, <3>1, <3>5 DEF LogInv
    <2>8. PromiseInv'
        BY Zenon, <1>0, <1>1, <1>2, <2>2, <2>4 DEF PromiseInv
    <2> QED BY Zenon, <2>5, <2>6, <2>7, <2>8 DEF HandleInv
<1>5. aborted \in BOOLEAN /\ s_shutdown \in BOOLEAN
    BY Zenon, <1>0 DEF TypeInv
<1> QED BY Zenon, <1>3, <1>4, <1>5 DEF Open, flagVars

(* With nothing running or committing, every operation that returned 0 is durable. *)
LEMMA SyncedIsDurable ==
    ASSUME HandleInv, Synced, ~aborted
    PROVE  ReturnedOk \subseteq Bys(durable) /\ \A u \in Thread : before[u] \subseteq Bys(durable)
<1>1. flushing = <<>> /\ txn = <<>> /\ Bys(<<>>) = {}
    BY DEF HandleInv, LockInv, Synced, Bys
<1> QED BY Zenon, <1>1 DEF HandleInv, PromiseInv

(* What the two waits have in common: the caller leaves with the mutex released. *)
LEMMA CommittedKeeps ==
    ASSUME HandleInv, NEW t \in Thread, pc[t] \in {"commit", "wait"}, NEW failed \in BOOLEAN,
           Committed(t, failed), aborted \/ failed \/ Synced, s_shutdown' \in BOOLEAN,
           UNCHANGED <<aborted, txn, commitVars, mountVars>>
    PROVE  HandleInv'
<1>0. TypeInv /\ LockInv /\ LogInv /\ PromiseInv
    BY Zenon DEF HandleInv
<1>1. /\ prog[t] \in Shutdowns \cup Fsyncs /\ s_needs_recovery
      /\ j_handle_mutex = t /\ j_handle_owner = Nobody
    BY Zenon, <1>0, CallsAreKnown, NotUnmounting, ThreadNumbers DEF LockInv, TypeInv, Calls
<1> DEFINE Moved(where, res) ==
            /\ pc' = [pc EXCEPT ![t] = where] /\ result' = [result EXCEPT ![t] = res]
            /\ where = "done" => prog[t] \in Fsyncs
            /\ where # "done" => prog[t] \in Shutdowns /\ res = result[t]
            /\ res = "ok" => where = "done" /\ ~failed
<1>2. /\ j_handle_mutex' = Nobody /\ j_handle_owner' = Nobody
      /\ UNCHANGED <<prog, step, before, aborted, txn, durable, flushing, kjournald, mount, s_needs_recovery>>
      /\ \E where \in {"done", "abort", "flag"}, res \in {result[t], "ok", "error"} : Moved(where, res)
    <2>1. j_handle_mutex' = Nobody /\ j_handle_owner' = Nobody /\ UNCHANGED <<prog, step, before>>
        BY Zenon, <1>1 DEF Committed, Unlock, Return
    <2>2. result = [result EXCEPT ![t] = result[t]] /\ result[t] # "ok"
        BY Zenon, <1>0 DEF TypeInv, LockInv
    <2>3. prog[t] \in Fsyncs => Moved("done", IF failed THEN "error" ELSE "ok")
        BY Zenon DEF Committed, Return, Goto
    <2>4. prog[t] \notin Fsyncs => Moved(IF prog[t] = "metasync" THEN "abort" ELSE "flag", result[t])
        BY Zenon, <1>1, <2>2 DEF Committed, Goto
    <2> HIDE DEF Moved
    <2> QED BY Zenon, <2>1, <2>3, <2>4 DEF commitVars, mountVars
<1>3. PICK where \in {"done", "abort", "flag"}, res \in {result[t], "ok", "error"} : Moved(where, res)
    BY Zenon, <1>2
<1>4. TypeInv'
    <2>1. pc' \in [Thread -> Pcs] /\ result' \in [Thread -> {"none", "ok", "error"}]
        BY Zenon, <1>0, <1>3 DEF TypeInv, Pcs
    <2> QED BY Zenon, <1>0, <1>2, <2>1, ThreadNumbers DEF TypeInv
<1>5. LockInv'
    BY <1>0, <1>1, <1>2, <1>3, ThreadNumbers DEF TypeInv, LockInv, Shutdowns, Operations, Fsyncs
<1>6. LogInv'
    BY <1>0, <1>1, <1>2, ThreadNumbers DEF LogInv, Stopped
<1>7. PromiseInv'
    <2>1. ReturnedOk' = ReturnedOk
        BY Zenon, <1>0, <1>1, <1>2, <1>3 DEF ReturnedOk, TypeInv, Operations, Shutdowns, Fsyncs
    <2>2. ~aborted => \A u \in Thread : prog[u] \in Fsyncs /\ result'[u] = "ok" => before[u] \subseteq Bys(durable)
        BY Zenon, <1>0, <1>3, SyncedIsDurable DEF PromiseInv, TypeInv
    <2> QED BY <1>0, <1>1, <1>2, <2>1, <2>2 DEF PromiseInv
<1> QED BY Zenon, <1>4, <1>5, <1>6, <1>7 DEF HandleInv

LEMMA ForceCommitKeeps ==
    ASSUME HandleInv, NEW t \in Thread, ForceCommit(t)
    PROVE  HandleInv'
<1>0. TypeInv /\ LockInv /\ LogInv /\ PromiseInv
    BY Zenon DEF HandleInv
<1>1. CASE Goto(t, "wait") /\ UNCHANGED <<prog, step, result, before, lockVars, s_shutdown>>
    <2>1. UNCHANGED <<prog, step, result, before, j_handle_mutex, j_handle_owner, s_shutdown, aborted,
                      txn, durable, flushing, kjournald, mount, s_needs_recovery>>
        BY Zenon, <1>1 DEF ForceCommit, lockVars, commitVars, mountVars
    <2>2. TypeInv'
        BY Zenon, <1>0, <1>1, <2>1 DEF Goto, TypeInv, Pcs
    <2>3. LockInv'
        BY SMTT(30), <1>0, <1>1, <2>1 DEF ForceCommit, Goto, TypeInv, LockInv
    <2>4. LogInv'
        BY SMTT(30), <1>0, <1>1, <2>1, ThreadNumbers DEF ForceCommit, Goto, TypeInv, LockInv, LogInv, OpenHandle, Stopped
    <2>5. PromiseInv'
        BY Zenon, <1>0, <2>1 DEF PromiseInv, ReturnedOk
    <2> QED BY Zenon, <2>2, <2>3, <2>4, <2>5 DEF HandleInv
<1>2. CASE Synced /\ Committed(t, FALSE) /\ UNCHANGED s_shutdown
    BY Zenon, <1>0, <1>2, CommittedKeeps DEF ForceCommit, TypeInv
<1>3. CASE Committed(t, TRUE) /\ s_shutdown' = TRUE
    BY Zenon, <1>0, <1>3, CommittedKeeps DEF ForceCommit
<1> QED BY Zenon, <1>1, <1>2, <1>3 DEF ForceCommit

LEMMA AwaitCommitKeeps ==
    ASSUME HandleInv, NEW t \in Thread, AwaitCommit(t)
    PROVE  HandleInv'
BY Zenon, CommittedKeeps DEF AwaitCommit, flagVars, HandleInv, TypeInv

(* The shutdown ioctl sets the flag and, at its end, aborts the journal. *)
LEMMA SetShutdownKeeps ==
    ASSUME HandleInv, NEW t \in Thread, SetShutdown(t)
    PROVE  HandleInv'
<1>0. TypeInv /\ LockInv /\ LogInv /\ PromiseInv
    BY Zenon DEF HandleInv
<1>1. /\ prog[t] \in Shutdowns /\ s_needs_recovery /\ pc[t] \in {"flag", "lock"} /\ j_handle_owner # t
      /\ step[t] = 1
    BY Zenon, <1>0, NotUnmounting DEF SetShutdown, LockInv, Shutdowns
<1>2. /\ s_shutdown' = TRUE
      /\ UNCHANGED <<prog, step, before, j_handle_mutex, j_handle_owner, aborted,
                     txn, durable, flushing, kjournald, mount, s_needs_recovery>>
      /\ \E where \in {"done", "lock", "abort"}, res \in {result[t], "ok"} :
            /\ pc' = [pc EXCEPT ![t] = where] /\ result' = [result EXCEPT ![t] = res]
            /\ res = "ok" => where = "done"
    <2>1. result = [result EXCEPT ![t] = result[t]] /\ result[t] # "ok"
        BY Zenon, <1>0, <1>1 DEF TypeInv, LockInv
    <2>2. CASE prog[t] = "fullsync"
        BY Zenon, <2>2 DEF SetShutdown, Return, Goto, lockVars, commitVars, mountVars
    <2>3. CASE prog[t] = "metasync"
        BY Zenon, <2>1, <2>3 DEF SetShutdown, Goto, lockVars, commitVars, mountVars
    <2>4. CASE prog[t] = "nosync"
        BY Zenon, <2>1, <2>4 DEF SetShutdown, Goto, lockVars, commitVars, mountVars
    <2> QED BY Zenon, <1>1, <2>2, <2>3, <2>4 DEF Shutdowns
<1>3. PICK where \in {"done", "lock", "abort"}, res \in {result[t], "ok"} :
            /\ pc' = [pc EXCEPT ![t] = where] /\ result' = [result EXCEPT ![t] = res]
            /\ res = "ok" => where = "done"
    BY Zenon, <1>2
<1>4. TypeInv'
    <2>1. pc' \in [Thread -> Pcs] /\ result' \in [Thread -> {"none", "ok", "error"}]
        BY Zenon, <1>0, <1>3 DEF TypeInv, Pcs
    <2> QED BY Zenon, <1>0, <1>2, <2>1, ThreadNumbers DEF TypeInv
<1>5. LockInv'
    BY SMTT(30), <1>0, <1>1, <1>2, <1>3, ThreadNumbers DEF TypeInv, LockInv, Shutdowns, Operations
<1>6. LogInv'
    BY <1>0, <1>1, <1>2, <1>3 DEF TypeInv, LogInv, OpenHandle, Stopped
<1>7. PromiseInv'
    <2>1. ReturnedOk' = ReturnedOk
        BY Zenon, <1>0, <1>1, <1>2, <1>3 DEF ReturnedOk, TypeInv, Operations, Shutdowns
    <2>2. \A u \in Thread : prog[u] \in Fsyncs /\ result'[u] = "ok" => result[u] = "ok"
        BY Zenon, <1>0, <1>1, <1>3 DEF TypeInv, Shutdowns, Fsyncs
    <2> QED BY Zenon, <1>0, <1>1, <1>2, <2>1, <2>2 DEF PromiseInv
<1> QED BY Zenon, <1>4, <1>5, <1>6, <1>7 DEF HandleInv

LEMMA JournalShutdownKeeps ==
    ASSUME HandleInv, NEW t \in Thread, JournalShutdown(t)
    PROVE  HandleInv'
<1>0. TypeInv /\ LockInv /\ LogInv /\ PromiseInv
    BY Zenon DEF HandleInv
<1>1. prog[t] \in Shutdowns /\ s_needs_recovery /\ j_handle_owner # t /\ pc[t] = "abort"
    BY Zenon, <1>0, NotUnmounting DEF JournalShutdown, LockInv
<1>2. /\ aborted' = TRUE
      /\ pc' = [pc EXCEPT ![t] = "done"] /\ result' = [result EXCEPT ![t] = "ok"]
      /\ UNCHANGED <<prog, step, before, j_handle_mutex, j_handle_owner, s_shutdown,
                     txn, durable, flushing, kjournald, mount, s_needs_recovery>>
    BY Zenon DEF JournalShutdown, Return, Goto, lockVars, commitVars, mountVars
<1>3. TypeInv'
    BY Zenon, <1>0, <1>2 DEF TypeInv, Pcs
<1>4. LockInv'
    <2>1. pc'[t] = "done" /\ \A u \in Thread \ {t} : pc'[u] = pc[u] /\ result'[u] = result[u]
        BY Zenon, <1>0, <1>2 DEF TypeInv
    <2> QED BY <1>0, <1>1, <1>2, <2>1 DEF LockInv
<1>5. LogInv'
    BY Zenon, <1>0, <1>1, <1>2 DEF TypeInv, LogInv, OpenHandle
<1>6. PromiseInv'
    <2>1. ReturnedOk' = ReturnedOk
        BY Zenon, <1>0, <1>1, <1>2 DEF ReturnedOk, TypeInv, Operations, Shutdowns
    <2> QED BY Zenon, <1>0, <1>1, <1>2, <2>1 DEF PromiseInv
<1> QED BY Zenon, <1>3, <1>4, <1>5, <1>6 DEF HandleInv
-----------------------------------------------------------------------------
(* The commit thread, a failed data write, and the unmount. *)
LEMMA LockTxnKeeps ==
    ASSUME HandleInv, LockTxn
    PROVE  HandleInv'
<1>1. /\ kjournald' = "locked" /\ kjournald = "idle" /\ txn # <<>>
      /\ UNCHANGED <<prog, pc, step, result, before, j_handle_mutex, j_handle_owner, s_shutdown, aborted,
                     txn, durable, flushing, mount, s_needs_recovery>>
    BY Zenon DEF LockTxn, taskVars, lockVars, flagVars, mountVars
<1>2. TypeInv' /\ LockInv'
    <2>1. TypeInv'
        BY Zenon, <1>1 DEF HandleInv, TypeInv
    <2>2. LockInv'
        BY Zenon, <1>1 DEF HandleInv, LockInv
    <2> QED BY Zenon, <2>1, <2>2
<1>3. LogInv' /\ PromiseInv'
    BY Zenon, <1>1 DEF HandleInv, LogInv, OpenHandle, Stopped, PromiseInv, ReturnedOk
<1> QED BY Zenon, <1>2, <1>3 DEF HandleInv

LEMMA FlushTxnKeeps ==
    ASSUME HandleInv, FlushTxn
    PROVE  HandleInv'
<1>1. /\ kjournald' = "flushing" /\ kjournald = "locked" /\ flushing' = txn /\ txn' = <<>>
      /\ j_handle_owner = Nobody
      /\ UNCHANGED <<prog, pc, step, result, before, j_handle_mutex, j_handle_owner, s_shutdown, aborted,
                     durable, mount, s_needs_recovery>>
    BY Zenon DEF FlushTxn, NoOpenHandle, taskVars, lockVars, flagVars, mountVars
<1>2. flushing = <<>> /\ Bys(<<>>) = {} /\ AllSettled(<<>>)
    BY <1>1 DEF HandleInv, LockInv, Bys, AllSettled
<1>3. TypeInv' /\ LockInv'
    <2>1. TypeInv'
        BY <1>1 DEF HandleInv, TypeInv
    <2>2. LockInv'
        BY Zenon, <1>1 DEF HandleInv, LockInv
    <2> QED BY Zenon, <2>1, <2>2
<1>4. LogInv'
    BY Zenon, <1>1, <1>2, ThreadNumbers DEF HandleInv, LogInv, Stopped
<1>5. PromiseInv'
    BY Zenon, <1>1, <1>2 DEF HandleInv, PromiseInv, ReturnedOk
<1> QED BY Zenon, <1>3, <1>4, <1>5 DEF HandleInv

LEMMA EndCommitKeeps ==
    ASSUME HandleInv, EndCommit
    PROVE  HandleInv'
<1>0. TypeInv /\ LockInv /\ LogInv /\ PromiseInv
    BY Zenon DEF HandleInv
<1>1. /\ kjournald = "flushing" /\ kjournald' = "idle" /\ flushing' = <<>>
      /\ UNCHANGED <<prog, pc, step, result, before, j_handle_mutex, j_handle_owner, s_shutdown, txn,
                     mount, s_needs_recovery>>
      /\ s_needs_recovery
    BY Zenon, <1>0 DEF EndCommit, taskVars, lockVars, mountVars, TypeInv, PromiseInv
<1>2. Bys(<<>>) = {} /\ AllSettled(<<>>) /\ <<>> \in Seq(Handle)
    BY DEF Bys, AllSettled
<1>3. /\ durable' \in Seq(Handle) /\ aborted' \in BOOLEAN /\ (aborted => aborted')
      /\ Bys(durable) \subseteq Bys(durable') /\ AllSettled(durable')
      /\ ~aborted' => Bys(flushing) \subseteq Bys(durable')
    <2>1. /\ durable \o flushing \in Seq(Handle) /\ Bys(durable \o flushing) = Bys(durable) \cup Bys(flushing)
          /\ AllSettled(durable) /\ AllSettled(flushing) => AllSettled(durable \o flushing)
        BY Zenon, <1>0, JoinedLogs DEF TypeInv
    <2>2. CASE ~aborted /\ aborted' = FALSE /\ durable' = durable \o flushing
        <3>1. AllSettled(durable')
            BY Zenon, <1>0, <2>1, <2>2 DEF LogInv
        <3> QED BY Zenon, <2>1, <2>2, <3>1
    <2>3. CASE durable' = durable /\ aborted' = TRUE
        BY Zenon, <1>0, <2>3 DEF LogInv, TypeInv
    <2>4. aborted \in BOOLEAN
        BY Zenon, <1>0 DEF TypeInv
    <2> QED BY Zenon, <2>2, <2>3, <2>4 DEF EndCommit
<1>4. TypeInv' /\ LockInv'
    <2>1. TypeInv'
        BY Zenon, <1>0, <1>1, <1>2, <1>3 DEF TypeInv
    <2>2. LockInv'
        BY Zenon, <1>0, <1>1, <1>3 DEF LockInv, TypeInv
    <2> QED BY Zenon, <2>1, <2>2
<1>5. LogInv'
    BY Zenon, <1>0, <1>1, <1>2, <1>3 DEF LogInv, OpenHandle, Stopped
<1>6. PromiseInv'
    BY Zenon, <1>0, <1>1, <1>2, <1>3 DEF PromiseInv, ReturnedOk
<1> QED BY Zenon, <1>4, <1>5, <1>6 DEF HandleInv

LEMMA IoendErrorKeeps ==
    ASSUME HandleInv, IoendError
    PROVE  HandleInv'
<1>1. /\ s_shutdown' = TRUE
      /\ UNCHANGED <<prog, pc, step, result, before, j_handle_mutex, j_handle_owner, aborted, kjournald,
                     txn, durable, flushing, mount, s_needs_recovery>>
    BY Zenon DEF IoendError, taskVars, lockVars, commitVars, mountVars
<1>2. TypeInv' /\ LockInv'
    <2>1. TypeInv'
        BY Zenon, <1>1 DEF HandleInv, TypeInv
    <2>2. LockInv'
        BY Zenon, <1>1 DEF HandleInv, LockInv
    <2> QED BY Zenon, <2>1, <2>2
<1>3. LogInv' /\ PromiseInv'
    BY Zenon, <1>1 DEF HandleInv, LogInv, OpenHandle, Stopped, PromiseInv, ReturnedOk
<1> QED BY Zenon, <1>2, <1>3 DEF HandleInv

LEMMA StartUmountKeeps ==
    ASSUME HandleInv, StartUmount
    PROVE  HandleInv'
<1>1. /\ mount = "mounted" /\ mount' \in {"sync", "destroy"} /\ \A t \in Thread : pc[t] = "done"
      /\ \/ mount' = "destroy" /\ j_handle_mutex' = j_handle_mutex
         \/ mount' = "sync" /\ j_handle_mutex = Nobody /\ j_handle_mutex' = Umount
      /\ UNCHANGED <<prog, pc, step, result, before, j_handle_owner, s_shutdown, aborted, kjournald,
                     txn, durable, flushing, s_needs_recovery>>
    BY Zenon DEF StartUmount, taskVars, flagVars, commitVars
<1>2. TypeInv' /\ LockInv'
    <2>1. TypeInv'
        BY Zenon, <1>1, ThreadNumbers DEF HandleInv, TypeInv, LockInv
    <2>2. LockInv'
        BY Zenon, <1>1, ThreadNumbers DEF HandleInv, LockInv
    <2> QED BY Zenon, <2>1, <2>2
<1>3. LogInv' /\ PromiseInv'
    BY Zenon, <1>1 DEF HandleInv, LogInv, OpenHandle, Stopped, PromiseInv, ReturnedOk
<1> QED BY Zenon, <1>2, <1>3 DEF HandleInv

LEMMA SyncUmountKeeps ==
    ASSUME HandleInv, SyncUmount
    PROVE  HandleInv'
<1>1. /\ mount = "sync" /\ mount' = "destroy" /\ (Synced \/ aborted)
      /\ j_handle_mutex' = Nobody /\ s_needs_recovery' = aborted
      /\ UNCHANGED <<prog, pc, step, result, before, j_handle_owner, s_shutdown, aborted, kjournald,
                     txn, durable, flushing>>
    BY Zenon DEF SyncUmount, KeepMarker, Unlock, taskVars, flagVars, commitVars
<1>2. TypeInv' /\ LockInv'
    <2>1. TypeInv'
        BY Zenon, <1>1, ThreadNumbers DEF HandleInv, TypeInv, LockInv
    <2>2. LockInv'
        BY Zenon, <1>1, ThreadNumbers DEF HandleInv, LockInv
    <2> QED BY Zenon, <2>1, <2>2
<1>3. LogInv'
    BY Zenon, <1>1 DEF HandleInv, LogInv, OpenHandle, Stopped
<1>4. PromiseInv'
    BY Zenon, <1>1, SyncedIsDurable DEF HandleInv, PromiseInv, ReturnedOk, Synced
<1> QED BY Zenon, <1>2, <1>3, <1>4 DEF HandleInv

LEMMA DestroyKeeps ==
    ASSUME HandleInv, Destroy
    PROVE  HandleInv'
<1>0. TypeInv /\ LockInv /\ LogInv /\ PromiseInv
    BY Zenon DEF HandleInv
<1>1. /\ mount = "destroy" /\ mount' = "gone" /\ kjournald = "idle" /\ j_handle_owner = Nobody
      /\ txn' = <<>>
      /\ UNCHANGED <<prog, pc, step, result, before, j_handle_mutex, j_handle_owner, s_shutdown, aborted,
                     kjournald, flushing, s_needs_recovery>>
    BY Zenon DEF Destroy, NoOpenHandle, taskVars, lockVars, flagVars
<1>2. Bys(<<>>) = {} /\ AllSettled(<<>>) /\ <<>> \in Seq(Handle)
    BY DEF Bys, AllSettled
<1>3. /\ durable' \in Seq(Handle) /\ Bys(durable) \subseteq Bys(durable') /\ AllSettled(durable')
      /\ ~aborted => Bys(txn) \subseteq Bys(durable')
    <2>1. /\ durable \o txn \in Seq(Handle) /\ Bys(durable \o txn) = Bys(durable) \cup Bys(txn)
          /\ AllSettled(durable) /\ AllSettled(txn) => AllSettled(durable \o txn)
        BY Zenon, <1>0, JoinedLogs DEF TypeInv
    <2>2. ~aborted => AllSettled(txn)
        BY Zenon, <1>0, <1>1 DEF LogInv, Stopped
    <2>3. CASE ~aborted /\ durable' = durable \o txn
        BY Zenon, <1>0, <2>1, <2>2, <2>3 DEF LogInv
    <2>4. CASE durable' = durable /\ aborted
        BY Zenon, <1>0, <2>4 DEF LogInv, TypeInv
    <2>5. aborted \in BOOLEAN
        BY Zenon, <1>0 DEF TypeInv
    <2> QED BY Zenon, <2>3, <2>4, <2>5 DEF Destroy
<1>4. TypeInv' /\ LockInv'
    <2>1. TypeInv'
        BY Zenon, <1>0, <1>1, <1>2, <1>3 DEF TypeInv
    <2>2. LockInv'
        BY Zenon, <1>0, <1>1 DEF LockInv
    <2> QED BY Zenon, <2>1, <2>2
<1>5. LogInv'
    BY Zenon, <1>0, <1>1, <1>2, <1>3, ThreadNumbers DEF LogInv, Stopped
<1>6. PromiseInv'
    BY Zenon, <1>0, <1>1, <1>2, <1>3 DEF PromiseInv, ReturnedOk
<1> QED BY Zenon, <1>4, <1>5, <1>6 DEF HandleInv
=============================================================================
