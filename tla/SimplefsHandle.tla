--------------------------- MODULE SimplefsHandle ---------------------------
(***************************************************************************)
(* Journal handles: tasks run namespace operations, fsyncs and the         *)
(* shutdown ioctl against one journal, its commit thread and the unmount.  *)
(* An operation opens one handle and calls helpers that join it; a helper  *)
(* that tries to start a handle of its own finds the filesystem shut down, *)
(* or joins.  Which step of which operation can fail, and what the code    *)
(* does then, is in Script.                                                *)
(***************************************************************************)
EXTENDS Integers, Sequences

CONSTANTS
    Thread,     \* the tasks, each of which makes one call
    Workload,   \* the calls they choose from
    Faults      \* the faults of the run: "error", "log", "ioend", "load"

VARIABLES
    prog,              \* the call of each task
    pc,                \* where each task is
    step,              \* the next step of its script
    result,            \* what its call returned
    j_handle_mutex,    \* its holder, or Nobody
    j_handle_owner,    \* the task with an open JBD2 handle, or Nobody
    s_shutdown,
    aborted,           \* the JBD2 journal is aborted
    txn,               \* the running transaction: what each handle wrote into it
    kjournald,         \* the commit thread
    flushing,          \* the transaction it is committing
    durable,           \* the transactions with a commit record, joined
    s_needs_recovery,  \* the marker in the superblock
    mount,             \* unmount progress
    before             \* operations that had returned 0 when the task's fsync began

taskVars == <<prog, pc, step, result, before>>
lockVars == <<j_handle_mutex, j_handle_owner>>
flagVars == <<s_shutdown, aborted>>
commitVars == <<kjournald, flushing, durable>>
mountVars == <<s_needs_recovery, mount>>
vars == <<taskVars, lockVars, flagVars, txn, commitVars, mountVars>>

Nobody == 0
Umount == -1   \* the unmounting task
-----------------------------------------------------------------------------
(***************************************************************************)
(* One helper call inside a handle: the metadata it writes ("none": it     *)
(* only looks), what the operation may do when the helper finds a shutdown *)
(* ("none": it does not look and goes on), and on another error:           *)
(*   "return"  leave at once      "undo"    release the new inode, leave   *)
(*   "fail"    simplefs_journal_fail, leave            "ignore"  carry on  *)
(*   "leak"    simplefs_journal_fail, leave without stopping the handle    *)
(***************************************************************************)
Call(writes, refusal, errs) == [writes |-> writes, refusal |-> refusal, errs |-> errs]

GetFreeInode == Call("ibit", {"return"}, {"return", "fail"})
DirGet(on) == Call("none", {on}, {on})

(* A free slot, for which the directory may grow: only then it looks at the *)
(* flag, and only an extent update that fails aborts.  The growth stays.    *)
FreeSlot(on) == Call("none", {on, "none"}, {on, "fail"})

(* The journal fails when the changed block cannot be joined to the handle; *)
(* without memory or without the block nothing is changed and nothing fails.*)
DirSet(entry, on) == Call(entry, {"none"}, {on, "fail"})

Persist(record, on) == Call(record, {on}, {on})

CreateScript == <<
    GetFreeInode,
    Call("bbit", {"undo"}, {"undo", "fail"}),    \* get_free_blocks
    Call("root", {"none"}, {"undo"}),            \* the zeroed extent root
    Persist("inode", "undo"),
    DirGet("undo"), FreeSlot("undo"),
    DirSet("entry", "undo"), Persist("dir", "fail") >>

MknodScript == <<
    GetFreeInode,
    DirGet("undo"), FreeSlot("undo"),
    DirSet("entry", "undo"), Persist("dir", "fail"),
    Persist("inode", "ignore"), Persist("dir", "ignore") >>

LinkScript == <<
    DirGet("return"), FreeSlot("return"),
    DirSet("entry", "return"), Persist("dir", "fail"),
    Persist("inode", "ignore"), Persist("dir", "ignore") >>

UnlinkScript == <<
    DirGet("return"), DirSet("entry", "return"),
    Persist("inode", "fail"), Persist("dir", "fail") >>

(* unlink, and then the parent's link count; the directory was trimmed before *)
RmdirScript == <<
    DirGet("return"), DirSet("entry", "return"),
    Persist("inode", "fail"), Persist("dir", "fail"), Persist("parent", "return") >>

(* rename over an existing target in another directory; the target's slot is *)
(* free by the time the new entry needs one, so the directory does not grow  *)
RenameScript == <<
    DirGet("return"),
    DirGet("return"), DirSet("target", "return"),
    Persist("victim", "fail"), Persist("newdir", "fail"),
    Call("none", {"return"}, {}),                \* simplefs_dir_get of a built index
    DirSet("newentry", "return"), Persist("newdir", "fail"),
    DirSet("oldentry", "return"), Persist("olddir", "fail"),
    Persist("inode", "fail"), Persist("victim", "fail"),
    Persist("olddir", "fail"), Persist("newdir", "fail") >>

(* simplefs_evict_inode; a stale record of a freed inode is allowed *)
EvictScript == <<
    Call("none", {"none"}, {"leak"}),              \* simplefs_file_load_extents
    Call("data", {"ignore"}, {"fail"}),
    Call("root", {"ignore"}, {"fail", "ignore"}),  \* revoke, then put_blocks
    Call("none", {"ignore"}, {"ignore"}),          \* simplefs_clear_disk_inode
    Call("ibit", {"ignore"}, {"fail"}) >>

Operations == {"create", "mknod", "link", "unlink", "rmdir", "rename", "evict"}
Shutdowns == {"nosync", "metasync", "fullsync"}
Fsyncs == {"fsync", "dirsync"}   \* of a file, of a directory
Calls == Operations \cup Shutdowns \cup Fsyncs

Script(call) ==
    CASE call = "create" -> CreateScript
      [] call = "mknod"  -> MknodScript
      [] call = "link"   -> LinkScript
      [] call = "unlink" -> UnlinkScript
      [] call = "rmdir"  -> RmdirScript
      [] call = "rename" -> RenameScript
      [] call = "evict"  -> EvictScript

Writes(call) == {Script(call)[i].writes : i \in 1 .. Len(Script(call))} \ {"none"}

ASSUME HandleAssumption ==
    /\ Workload \subseteq Calls /\ Faults \subseteq {"error", "log", "ioend", "load"}
    /\ Thread \subseteq Nat \ {Nobody}

(* What a handle left in its transaction; cut when a helper refused to work *)
(* because of s_shutdown alone, or the operation ignored its error.         *)
Whole(e) == e.wrote = Writes(e.call)

(* The rename that could not write the new entry, or could not clear the old *)
(* one, and the rmdir that could not write the parent's link count: both     *)
(* return the error and keep what they had written before.                   *)
HalfRenames == {{"target", "victim", "newdir"}, {"target", "victim", "newdir", "newentry"}}

HalfDone(e) ==
    \/ e.call = "rename" /\ e.wrote \in HalfRenames
    \/ e.call = "rmdir" /\ e.wrote = {"entry", "inode", "dir"}

Settled(e) == Whole(e) \/ e.cut \/ HalfDone(e)

(* Handles stop in the order in which they open, so an open one is the last. *)
Last(log) == log[Len(log)]

Front(log) == SubSeq(log, 1, Len(log) - 1)

Entries == [call : Operations, wrote : SUBSET UNION {Writes(c) : c \in Operations},
            by : Thread, cut : BOOLEAN]

TypeOK ==
    /\ prog \in [Thread -> Workload]
    /\ pc \in [Thread -> {"idle", "flag", "lock", "open", "run", "stop", "commit", "wait",
                       "abort", "done"}]
    /\ step \in [Thread -> 1 .. 15]
    /\ result \in [Thread -> {"none", "ok", "error"}]
    /\ before \in [Thread -> SUBSET Thread]
    /\ j_handle_mutex \in Thread \cup {Nobody, Umount}
    /\ j_handle_owner \in {Nobody, j_handle_mutex} \ {Umount}
    /\ s_shutdown \in BOOLEAN /\ aborted \in BOOLEAN
    /\ \A log \in {txn, flushing, durable} : log \in Seq(Entries)
    /\ kjournald \in {"idle", "locked", "flushing"}
    /\ s_needs_recovery \in BOOLEAN
    /\ mount \in {"mounted", "sync", "destroy", "gone"}

Init ==
    /\ prog \in [Thread -> Workload]
    /\ pc = [t \in Thread |-> "idle"]
    /\ step = [t \in Thread |-> 1]
    /\ result = [t \in Thread |-> "none"]
    /\ before = [t \in Thread |-> {}]
    /\ j_handle_mutex = Nobody /\ j_handle_owner = Nobody
    /\ s_shutdown = FALSE /\ aborted = FALSE
    /\ txn = <<>> /\ flushing = <<>> /\ durable = <<>>
    /\ kjournald = "idle"
    /\ s_needs_recovery = TRUE       \* set by simplefs_journal_load
    /\ mount = "mounted"
-----------------------------------------------------------------------------
Goto(t, where) == pc' = [pc EXCEPT ![t] = where]

Return(t, res) ==
    /\ Goto(t, "done")
    /\ result' = [result EXCEPT ![t] = res]
    /\ UNCHANGED <<prog, step, before>>

Unlock == j_handle_mutex' = Nobody /\ UNCHANGED j_handle_owner

(* simplefs_journal_fail *)
JournalFail_NoAbort == s_shutdown' = TRUE /\ UNCHANGED aborted   \* mutant

JournalFail == s_shutdown' = TRUE /\ aborted' = TRUE

(* The operations that reported success; simplefs_evict_inode returns nothing. *)
ReturnedOk == {t \in Thread : prog[t] \in Operations \ {"evict"} /\ result[t] = "ok"}

(* The call starts: simplefs_is_shutdown, which simplefs_dir_fsync does not look at. *)
Enter(t) ==
    /\ pc[t] = "idle" /\ mount = "mounted"
    /\ IF s_shutdown /\ prog[t] # "dirsync"
       THEN Return(t, IF prog[t] \in Shutdowns THEN "ok" ELSE "error")
       ELSE /\ Goto(t, IF prog[t] \in {"nosync", "metasync"} THEN "flag" ELSE "lock")
            /\ before' = [before EXCEPT ![t] = IF prog[t] \in Fsyncs THEN ReturnedOk ELSE {}]
            /\ UNCHANGED <<prog, step, result>>
    /\ UNCHANGED <<lockVars, flagVars, txn, commitVars, mountVars>>

Lock(t) ==
    /\ pc[t] = "lock" /\ j_handle_mutex = Nobody
    /\ j_handle_mutex' = t
    /\ Goto(t, IF prog[t] \in Operations THEN "open" ELSE "commit")
    /\ UNCHANGED <<prog, step, result, before, j_handle_owner, flagVars, txn, commitVars,
                   mountVars>>

(* The rest of simplefs_journal_start_internal; every failure gives the mutex back. *)
StartFails_KeepMutex(t) ==   \* mutant: a missing mutex_unlock
    Return(t, "error") /\ UNCHANGED lockVars

StartFails(t) == Return(t, "error") /\ Unlock

Open(t) ==
    /\ pc[t] = "open"
    /\ \/ /\ s_shutdown \/ "error" \in Faults
          /\ StartFails(t) /\ UNCHANGED <<flagVars, txn>>
       \/ /\ ~s_shutdown /\ aborted
          /\ s_shutdown' = TRUE
          /\ StartFails(t) /\ UNCHANGED <<aborted, txn>>
       \/ /\ ~s_shutdown /\ ~aborted /\ kjournald # "locked"
          /\ j_handle_owner' = t
          /\ txn' = Append(txn, [call |-> prog[t], wrote |-> {}, by |-> t, cut |-> FALSE])
          /\ Goto(t, "run")
          /\ UNCHANGED <<prog, step, result, before, j_handle_mutex, flagVars>>
    /\ UNCHANGED <<commitVars, mountVars>>
-----------------------------------------------------------------------------
Current(t) == Script(prog[t])[step[t]]

(* The open handle is the last one of the running transaction. *)
SetWrote(wrote) == txn' = [txn EXCEPT ![Len(txn)].wrote = wrote]

Cut == txn' = [txn EXCEPT ![Len(txn)].cut = TRUE]

Advance(t) ==
    /\ Goto(t, IF step[t] = Len(Script(prog[t])) THEN "stop" ELSE "run")
    /\ step' = [step EXCEPT ![t] = @ + 1]
    /\ UNCHANGED <<prog, result, before>>

Leave(t) ==
    /\ Goto(t, "stop")
    /\ result' = [result EXCEPT ![t] = "error"]
    /\ UNCHANGED <<prog, step, before>>

(* What the operation does about a failed call; lockVars are UNCHANGED by all. *)
(* The eviction that undoes a new inode does nothing after a shutdown.         *)
React(t, how) ==
    \/ /\ how \in {"return", "undo"}
       /\ Leave(t) /\ UNCHANGED flagVars
       /\ IF s_shutdown THEN Cut ELSE IF how = "undo" THEN SetWrote({}) ELSE UNCHANGED txn
    \/ how \in {"fail", "leak"} /\ JournalFail /\ UNCHANGED txn
                               /\ IF how = "leak" THEN Return(t, "error") ELSE Leave(t)
    \/ how = "ignore" /\ Advance(t) /\ Cut /\ UNCHANGED flagVars

Step(t) ==
    /\ pc[t] = "run"
    /\ \/ /\ s_shutdown
          /\ \E how \in Current(t).refusal : React(t, how)
       \/ /\ aborted /\ Current(t).writes # "none"
          /\ Leave(t) /\ UNCHANGED <<flagVars, txn>>
       \/ /\ s_shutdown => "none" \in Current(t).refusal
          /\ aborted => Current(t).writes = "none"
          /\ Advance(t)
          /\ SetWrote(Last(txn).wrote \cup ({Current(t).writes} \ {"none"}))
          /\ UNCHANGED flagVars
       \/ \E how \in Current(t).errs :
             /\ (IF how = "leak" THEN "load" ELSE "error") \in Faults
             /\ React(t, how)
    /\ UNCHANGED <<lockVars, commitVars, mountVars>>

Release_KeepOwner == j_handle_mutex' = Nobody /\ UNCHANGED j_handle_owner   \* mutant

Release == j_handle_owner' = Nobody /\ j_handle_mutex' = Nobody

(* simplefs_journal_stop; a handle that wrote nothing leaves no trace. *)
Stop(t) ==
    /\ pc[t] = "stop"
    /\ s_shutdown' = (s_shutdown \/ aborted)
    /\ Return(t, IF aborted \/ result[t] = "error" THEN "error" ELSE "ok")
    /\ txn' = IF Last(txn).wrote = {} THEN Front(txn) ELSE txn
    /\ Release
    /\ UNCHANGED <<aborted, commitVars, mountVars>>

(* jbd2_journal_force_commit has nothing more to wait for. *)
Synced_NoFlush == txn = <<>>   \* mutant: does not wait for the commit under way

Synced == txn = <<>> /\ kjournald = "idle"

(* The caller goes on with what the forced commit returned. *)
Committed(t, failed) ==
    /\ Unlock
    /\ IF prog[t] \in Fsyncs THEN Return(t, IF failed THEN "error" ELSE "ok")
       ELSE /\ Goto(t, IF prog[t] = "metasync" THEN "abort" ELSE "flag")
            /\ UNCHANGED <<prog, step, result, before>>

(***************************************************************************)
(* simplefs_journal_force_commit of the fsyncs, sync_filesystem and        *)
(* LOGFLUSH.  JBD2 finds nothing to commit and says 0, or waits and says   *)
(* whether the journal was aborted.  An fsync whose inode was dirty and    *)
(* could not be written fails as well.                                     *)
(***************************************************************************)
ForceCommit(t) ==
    /\ pc[t] = "commit"
    /\ \/ Synced /\ Committed(t, FALSE) /\ UNCHANGED s_shutdown
       \/ ~Synced /\ Goto(t, "wait")
                  /\ UNCHANGED <<prog, step, result, before, lockVars, s_shutdown>>
       \/ /\ prog[t] \in Fsyncs /\ (s_shutdown \/ aborted)
          /\ Committed(t, TRUE) /\ s_shutdown' = TRUE
    /\ UNCHANGED <<aborted, txn, commitVars, mountVars>>

AwaitCommit(t) ==
    /\ pc[t] = "wait"
    /\ Synced \/ aborted
    /\ Committed(t, aborted)
    /\ UNCHANGED <<flagVars, txn, commitVars, mountVars>>

(* The shutdown ioctl sets the flag; a full sync first, unless sync_fs refuses. *)
SetShutdown(t) ==
    /\ \/ pc[t] = "flag"
       \/ pc[t] = "lock" /\ prog[t] = "fullsync" /\ s_shutdown
    /\ s_shutdown' = TRUE
    /\ CASE prog[t] = "fullsync" -> Return(t, "ok")
         [] prog[t] = "metasync" -> Goto(t, "lock") /\ UNCHANGED <<prog, step, result, before>>
         [] prog[t] = "nosync"   -> Goto(t, "abort") /\ UNCHANGED <<prog, step, result, before>>
    /\ UNCHANGED <<aborted, lockVars, txn, commitVars, mountVars>>

(* simplefs_journal_shutdown, the end of the shutdown ioctl. *)
JournalShutdown(t) ==
    /\ pc[t] = "abort"
    /\ aborted' = TRUE
    /\ Return(t, "ok")
    /\ UNCHANGED <<s_shutdown, lockVars, txn, commitVars, mountVars>>
-----------------------------------------------------------------------------
(***************************************************************************)
(* The JBD2 commit thread: it locks the running transaction against new    *)
(* handles, waits for the open one, writes the log and the commit record.  *)
(* Once the journal is aborted it goes on but writes nothing.              *)
(***************************************************************************)
LockTxn ==
    /\ kjournald = "idle" /\ txn # <<>>
    /\ kjournald' = "locked"
    /\ UNCHANGED <<taskVars, lockVars, flagVars, txn, flushing, durable, mountVars>>

NoOpenHandle_Ignored == TRUE   \* mutant: the commit does not wait for the open handle

NoOpenHandle == j_handle_owner = Nobody

FlushTxn ==
    /\ kjournald = "locked" /\ NoOpenHandle
    /\ kjournald' = "flushing"
    /\ flushing' = txn /\ txn' = <<>>
    /\ UNCHANGED <<taskVars, lockVars, flagVars, durable, mountVars>>

EndCommit ==
    /\ kjournald = "flushing"
    /\ kjournald' = "idle" /\ flushing' = <<>>
    /\ \/ durable' = (IF aborted THEN durable ELSE durable \o flushing) /\ UNCHANGED aborted
       \/ "log" \in Faults /\ aborted' = TRUE /\ UNCHANGED durable
    /\ UNCHANGED <<taskVars, lockVars, s_shutdown, txn, mountVars>>

(* simplefs_finish_ioend_work or writeback_submit sees a data write error. *)
IoendError ==
    /\ "ioend" \in Faults /\ ~s_shutdown /\ mount = "mounted"
    /\ s_shutdown' = TRUE
    /\ UNCHANGED <<taskVars, lockVars, aborted, txn, commitVars, mountVars>>
-----------------------------------------------------------------------------
(* simplefs_put_super: sync and checkpoint unless shut down, then clear the marker. *)
StartUmount ==
    /\ mount = "mounted" /\ \A t \in Thread : pc[t] = "done"
    /\ \/ s_shutdown /\ mount' = "destroy" /\ UNCHANGED j_handle_mutex
       \/ /\ ~s_shutdown /\ j_handle_mutex = Nobody
          /\ mount' = "sync" /\ j_handle_mutex' = Umount
    /\ UNCHANGED <<taskVars, j_handle_owner, flagVars, txn, commitVars, s_needs_recovery>>

KeepMarker_Never == FALSE   \* mutant: the marker is cleared whatever the sync returned

KeepMarker == aborted

SyncUmount ==
    /\ mount = "sync" /\ (Synced \/ aborted)
    /\ mount' = "destroy"
    /\ s_needs_recovery' = KeepMarker
    /\ Unlock
    /\ UNCHANGED <<taskVars, flagVars, txn, commitVars>>

(* jbd2_journal_destroy: stop the commit thread, commit what is left. *)
Destroy ==
    /\ mount = "destroy" /\ kjournald = "idle" /\ NoOpenHandle
    /\ mount' = "gone"
    /\ durable' = IF aborted THEN durable ELSE durable \o txn
    /\ txn' = <<>>
    /\ UNCHANGED <<taskVars, lockVars, flagVars, kjournald, flushing, s_needs_recovery>>

Unmounted == mount = "gone" /\ UNCHANGED vars
-----------------------------------------------------------------------------
TaskStep(t) ==
    Enter(t) \/ Lock(t) \/ Open(t) \/ Step(t) \/ Stop(t)
    \/ ForceCommit(t) \/ AwaitCommit(t) \/ SetShutdown(t) \/ JournalShutdown(t)

CommitStep == LockTxn \/ FlushTxn \/ EndCommit

UmountStep == StartUmount \/ SyncUmount \/ Destroy

Next == (\E t \in Thread : TaskStep(t)) \/ CommitStep \/ IoendError \/ UmountStep \/ Unmounted

(* Tasks, the commit thread and the unmount are scheduled; faults need not happen. *)
Fairness ==
    /\ \A t \in Thread : WF_vars(TaskStep(t))
    /\ WF_vars(CommitStep)
    /\ WF_vars(UmountStep)

Spec == Init /\ [][Next]_vars /\ Fairness
-----------------------------------------------------------------------------
(***************************************************************************)
(* What a recovery restores holds operations whole: an operation that gave *)
(* up half way has either undone its writes in the same handle or aborted  *)
(* the journal before its handle could commit.  The exceptions are the     *)
(* operations cut short by a shutdown flag that was set without aborting   *)
(* the journal, those that ignore an error, and the three of HalfDone: an  *)
(* error of simplefs_dir_set leaves rename's target removed, and an error  *)
(* of its last inode write leaves rmdir without the parent's link count.   *)
(***************************************************************************)
CommitWhole == \A i \in 1 .. Len(durable) : Settled(durable[i])

(***************************************************************************)
(* No exceptions: a call that fails half way commits nothing of what it    *)
(* did.  docs/tutorial/05-directory.md says it of rename; the code breaks  *)
(* it, since simplefs_rename stops its handle whatever the error.          *)
(***************************************************************************)
NothingHalfCommitted == \A i \in 1 .. Len(durable) : Whole(durable[i])

(***************************************************************************)
(* An fsync that returns 0 has made durable every operation that returned  *)
(* 0 before it began, although their handles may sit in a transaction that *)
(* another task's commit has already taken.                                *)
(***************************************************************************)
FsyncDurable ==
    \A t \in Thread : prog[t] \in Fsyncs /\ result[t] = "ok" =>
        before[t] \subseteq {durable[i].by : i \in 1 .. Len(durable)}

(***************************************************************************)
(* The same of every fsync that returns before the journal is aborted:     *)
(* holding j_handle_mutex is enough to wait for both the running and the   *)
(* committing transaction.                                                 *)
(***************************************************************************)
FsyncCommits == ~aborted => FsyncDurable

(***************************************************************************)
(* The superblock is marked clean only once every operation that returned  *)
(* 0 is durable and nothing is left in the journal to replay or lose.      *)
(***************************************************************************)
CleanMeansDurable ==
    ~s_needs_recovery =>
        /\ txn = <<>> /\ flushing = <<>>
        /\ ReturnedOk \subseteq {durable[i].by : i \in 1 .. Len(durable)}

(***************************************************************************)
(* Every call returns, whatever fails under it: no task waits for ever on  *)
(* the handle mutex or on a commit.                                        *)
(***************************************************************************)
CallsReturn == \A t \in Thread : <>(pc[t] = "done")

(* The unmount always completes, jbd2_journal_destroy included. *)
UmountCompletes == <>(mount = "gone")

(***************************************************************************)
(* The handles implement SimplefsAtomic.  An operation takes effect when   *)
(* its handle stops with all its writes in the transaction; what is not    *)
(* durable when the journal is aborted never happened.  A handle that      *)
(* stops half way is an operation of Nobody, unless it is one of the       *)
(* exceptions of CommitWhole.                                              *)
(***************************************************************************)
Stopped == IF j_handle_owner = Nobody THEN txn ELSE Front(txn)

By(log) == [i \in 1 .. Len(log) |-> IF Settled(log[i]) THEN log[i].by ELSE Nobody]

Atomic == INSTANCE SimplefsAtomic WITH
    done <- By(IF aborted THEN durable ELSE durable \o flushing \o Stopped),
    ndurable <- Len(durable)

(* Operations are atomic and become durable in order, whatever interleaves or fails. *)
OperationsAtomic == Atomic!AtomicSpec
=============================================================================
