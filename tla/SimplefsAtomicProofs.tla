------------------------ MODULE SimplefsAtomicProofs ------------------------
(***************************************************************************)
(* Proofs about SimplefsHandle, second part: the steps of an operation,    *)
(* the invariant, what follows from it, and the refinement of              *)
(* SimplefsAtomic, for any number of tasks, any workload and any faults.   *)
(***************************************************************************)
EXTENDS SimplefsHandleProofs

(* A step of an operation either leaves its handle settled or empty, aborts, *)
(* or goes on with what the script says so far.                              *)
StepFrame == UNCHANGED <<prog, before, j_handle_mutex, j_handle_owner, kjournald, flushing, durable,
                        s_needs_recovery, mount>>

GaveUp(t) ==
    /\ Leave(t) /\ UNCHANGED <<s_shutdown, aborted>>
    /\ ~aborted => Settled(Last(txn')) \/ Last(txn').wrote = {}

Failed(t) ==
    /\ s_shutdown' = TRUE /\ aborted' = TRUE /\ txn' = txn
    /\ Leave(t) \/ Return(t, "error")

WentOn(t) ==
    /\ Advance(t) /\ UNCHANGED <<s_shutdown, aborted>>
    /\ ~aborted =>
          LET s == Script(prog[t])
              e == Last(txn')
          IN  /\ e.cut \/ e.wrote = WrittenBefore(s, step[t] + 1)
              /\ \A j \in 1 .. step[t] : Binding(s, j) => s[j].writes \in e.wrote

(* Every helper call of a script has one of the three outcomes. *)
LEMMA StepOutcome ==
    ASSUME HandleInv, NEW t \in Thread, Step(t)
    PROVE  StepFrame /\ Rewritten(txn', txn) /\ (GaveUp(t) \/ Failed(t) \/ WentOn(t))
<1>0. TypeInv /\ LockInv /\ LogInv /\ PromiseInv
    BY Zenon DEF HandleInv
<1> DEFINE s == Script(prog[t])
           e == Last(txn)
           n == step[t]
           h == Current(t)
<1>1. /\ pc[t] = "run" /\ SoundScript(prog[t], s) /\ prog[t] \in Operations /\ n \in 1 .. NumSteps(prog[t])
      /\ txn # <<>> /\ txn \in Seq(Handle) /\ e.call = prog[t] /\ OpenHandle(t)
      /\ s_shutdown \in BOOLEAN /\ aborted \in BOOLEAN
    BY Zenon, <1>0, ScriptOf DEF Step, TypeInv, LockInv, LogInv, OpenHandle
<1>2. /\ e \in Handle /\ Rewritten(txn, txn)
    BY Zenon, <1>1, FrontOfLog DEF Rewritten
<1>3. n \in Nat \ {0} /\ h = s[n] /\ h \in Helper /\ n \in 1 .. Len(s)
    <2>1. n \in 1 .. Len(s) /\ s \in Seq(Helper) /\ h = s[n]
        BY Zenon, <1>1 DEF NumSteps, SoundScript, Current
    <2> HIDE DEF s, n, h
    <2> QED BY <2>1, ElementOfSeq
<1>4. ~aborted => /\ e.cut \/ e.wrote = WrittenBefore(s, n)
                  /\ \A j \in 1 .. n - 1 : Binding(s, j) => s[j].writes \in e.wrote
    BY Zenon, <1>1 DEF OpenHandle
<1>5. h.writes # "none" => h.writes \in Writes(e.call)
    BY Zenon, <1>1, <1>3 DEF Writes
<1>6. StepFrame
    <2>1. UNCHANGED <<prog, before>>
        BY Zenon DEF Step, React, Leave, Advance, Return
    <2> QED BY Zenon, <2>1 DEF StepFrame, Step, lockVars, commitVars, mountVars
<1>7. Cut => Rewritten(txn', txn) /\ Last(txn').wrote = e.wrote /\ Last(txn').cut
    BY Zenon, <1>1, CutRewrites DEF Cut
<1>8. ASSUME NEW w \in SUBSET Writes(e.call), SetWrote(w)
      PROVE  Rewritten(txn', txn) /\ Last(txn').wrote = w /\ Last(txn').cut = e.cut
    BY Zenon, <1>1, <1>8, SetWroteRewrites DEF SetWrote
<1>9. ASSUME NEW how, React(t, how), how \in h.errs \/ (s_shutdown /\ how \in h.refusal)
      PROVE  Rewritten(txn', txn) /\ (GaveUp(t) \/ Failed(t) \/ WentOn(t))
    <2>1. CASE how \in {"return", "undo"} /\ Leave(t) /\ UNCHANGED flagVars /\ s_shutdown /\ Cut
        BY Zenon, <1>7, <2>1 DEF GaveUp, Settled, flagVars
    <2>2. CASE how = "undo" /\ Leave(t) /\ UNCHANGED flagVars /\ SetWrote({})
        BY Zenon, <1>8, <2>2 DEF GaveUp, flagVars
    <2>3. CASE how = "return" /\ ~s_shutdown /\ Leave(t) /\ UNCHANGED <<flagVars, txn>>
        <3>1. "return" \in s[n].errs
            BY Zenon, <1>3, <1>9, <2>3
        <3>2. \/ \A j \in 1 .. n - 1 : s[j].writes = "none"
              \/ prog[t] = "rename" /\ n \in {7, 9}
              \/ prog[t] = "rmdir" /\ n = 5
            BY Zenon, <1>1, <1>3, <3>1 DEF SoundScript
        <3>3. CASE \A j \in 1 .. n - 1 : s[j].writes = "none"
            <4>1. WrittenBefore(s, n) = {}
                BY Zenon, <3>3 DEF WrittenBefore
            <4> QED BY Zenon, <1>2, <1>4, <2>3, <4>1 DEF GaveUp, Settled, flagVars
        <3>4. CASE prog[t] = "rename" /\ n \in {7, 9}
            <4>1. WrittenBefore(s, n) \in HalfRenames
                BY Zenon, <3>4, RenameHalves
            <4>2. ~aborted => Settled(e)
                BY Zenon, <1>1, <1>4, <3>4, <4>1 DEF Settled, HalfDone
            <4> QED BY Zenon, <1>2, <2>3, <4>2 DEF GaveUp, flagVars
        <3>5. CASE prog[t] = "rmdir" /\ n = 5
            <4>1. WrittenBefore(s, n) = {"entry", "inode", "dir"}
                BY Zenon, <3>5, RmdirHalf
            <4>2. ~aborted => Settled(e)
                BY Zenon, <1>1, <1>4, <3>5, <4>1 DEF Settled, HalfDone
            <4> QED BY Zenon, <1>2, <2>3, <4>2 DEF GaveUp, flagVars
        <3> QED BY Zenon, <3>2, <3>3, <3>4, <3>5
    <2>4. CASE how \in {"fail", "leak"} /\ JournalFail /\ UNCHANGED txn /\ (Leave(t) \/ Return(t, "error"))
        BY Zenon, <1>2, <2>4 DEF Failed, JournalFail
    <2>5. CASE how = "ignore" /\ Advance(t) /\ Cut /\ UNCHANGED flagVars
        <3>1. "ignore" \in h.refusal \cup h.errs
            BY Zenon, <1>9, <2>5
        <3>2. ~Binding(s, n)
            BY Zenon, <1>3, <3>1 DEF Binding
        <3>3. \A j \in 1 .. n : j \in 1 .. n - 1 \/ j = n
            BY <1>3
        <3> QED BY Zenon, <1>4, <1>7, <2>5, <3>2, <3>3 DEF WentOn, flagVars
    <2> QED BY Zenon, <1>1, <1>9, <2>1, <2>2, <2>3, <2>4, <2>5 DEF React
<1>10. CASE aborted /\ Leave(t) /\ UNCHANGED <<flagVars, txn>>
    BY Zenon, <1>2, <1>6, <1>10 DEF GaveUp, flagVars
<1>11. CASE Advance(t) /\ SetWrote(e.wrote \cup ({h.writes} \ {"none"})) /\ UNCHANGED flagVars
    <2> DEFINE w == e.wrote \cup ({h.writes} \ {"none"})
    <2>1. w \in SUBSET Writes(e.call)
        BY Zenon, <1>2, <1>5 DEF Handle
    <2>2. Rewritten(txn', txn) /\ Last(txn').wrote = w /\ Last(txn').cut = e.cut
        BY Zenon, <1>8, <1>11, <2>1
    <2>3. WrittenBefore(s, n + 1) = WrittenBefore(s, n) \cup ({h.writes} \ {"none"})
        <3>1. 1 .. (n + 1) - 1 = (1 .. n - 1) \cup {n}
            BY <1>3
        <3> HIDE DEF s, n
        <3> QED BY Zenon, <1>3, <3>1 DEF WrittenBefore
    <2>4. \A j \in 1 .. n : j \in 1 .. n - 1 \/ j = n
        BY <1>3
    <2>5. ~aborted => /\ e.cut \/ w = WrittenBefore(s, n + 1)
                      /\ \A j \in 1 .. n : Binding(s, j) => s[j].writes \in w
        BY Zenon, <1>3, <1>4, <2>3, <2>4 DEF Binding
    <2> HIDE DEF w
    <2> QED BY Zenon, <1>6, <1>11, <2>2, <2>5 DEF WentOn, flagVars
<1> HIDE DEF s, n
<1> QED BY Zenon, <1>6, <1>9, <1>10, <1>11 DEF Step

LEMMA StepKeeps ==
    ASSUME HandleInv, NEW t \in Thread, Step(t)
    PROVE  HandleInv'
<1>0. TypeInv /\ LockInv /\ LogInv /\ PromiseInv
    BY Zenon DEF HandleInv
<1>1. StepFrame /\ Rewritten(txn', txn) /\ (GaveUp(t) \/ Failed(t) \/ WentOn(t))
    BY Zenon, StepOutcome
<1>2. /\ pc[t] = "run" /\ prog[t] \in Operations /\ SoundScript(prog[t], Script(prog[t])) /\ s_needs_recovery
      /\ step[t] \in 1 .. NumSteps(prog[t]) /\ NumSteps(prog[t]) \in 1 .. 14
      /\ prog[t] # "evict" => \E i \in 1 .. NumSteps(prog[t]) : Binding(Script(prog[t]), i)
      /\ j_handle_mutex = t /\ j_handle_owner = t /\ txn # <<>>
      /\ Last(txn).by = t /\ Last(txn).call = prog[t] /\ result[t] # "ok" /\ mount = "mounted"
    BY Zenon, <1>0, ScriptOf, NotUnmounting DEF Step, LockInv, LogInv, OpenHandle
<1>3. UNCHANGED <<prog, before, j_handle_mutex, j_handle_owner, kjournald, flushing, durable,
                  s_needs_recovery, mount>>
    BY Zenon, <1>1 DEF StepFrame
<1>4. /\ txn' \in Seq(Handle) /\ txn' # <<>> /\ Front(txn') = Front(txn) /\ Bys(txn') = Bys(txn)
      /\ Last(txn').by = t /\ Last(txn').call = prog[t]
    BY Zenon, <1>1, <1>2 DEF Rewritten
<1>5. /\ s_shutdown' \in BOOLEAN /\ aborted' \in BOOLEAN /\ (aborted => aborted')
      /\ \/ /\ pc' = [pc EXCEPT ![t] = "stop"] /\ step' = step
            /\ result' = [result EXCEPT ![t] = "error"]
         \/ /\ pc' = [pc EXCEPT ![t] = "done"] /\ step' = step /\ aborted'
            /\ result' = [result EXCEPT ![t] = "error"]
         \/ /\ pc' = [pc EXCEPT ![t] = IF step[t] = NumSteps(prog[t]) THEN "stop" ELSE "run"]
            /\ step' = [step EXCEPT ![t] = @ + 1] /\ result' = result
    <2>1. CASE GaveUp(t)
        BY Zenon, <1>0, <2>1 DEF GaveUp, Leave, Goto, TypeInv
    <2>2. CASE Failed(t)
        BY Zenon, <2>2 DEF Failed, Leave, Return, Goto
    <2>3. CASE WentOn(t)
        BY Zenon, <1>0, <2>3 DEF WentOn, Advance, Goto, TypeInv, NumSteps
    <2> QED BY Zenon, <1>1, <2>1, <2>2, <2>3
<1>6. TypeInv'
    <2>1. pc' \in [Thread -> Pcs] /\ result' \in [Thread -> {"none", "ok", "error"}]
        BY Zenon, <1>0, <1>5 DEF TypeInv, Pcs
    <2>2. step[t] + 1 \in 1 .. 15
        BY SMTT(30), <1>2
    <2>3. step' \in [Thread -> 1 .. 15]
        BY Zenon, <1>0, <1>5, <2>2 DEF TypeInv
    <2> QED BY Zenon, <1>0, <1>3, <1>4, <1>5, <2>1, <2>3 DEF TypeInv
<1>7. LockInv'
    <2>1. \A u \in Thread \ {t} : /\ pc'[u] = pc[u] /\ step'[u] = step[u] /\ result'[u] = result[u]
                                  /\ j_handle_mutex # u /\ j_handle_owner # u
        BY Zenon, <1>0, <1>2, <1>5 DEF TypeInv
    <2>2. /\ pc'[t] \in {"run", "stop"} \/ (pc'[t] = "done" /\ aborted')
          /\ pc'[t] = "run" => step'[t] \in 1 .. NumSteps(prog[t])
          /\ result'[t] # "ok"
        BY SMTT(30), <1>0, <1>2, <1>5 DEF TypeInv
    <2> QED BY <1>0, <1>2, <1>3, <1>5, <2>1, <2>2 DEF LockInv
<1>8. LogInv'
    <2>1. Stopped' = Stopped
        BY Zenon, <1>2, <1>3, <1>4, ThreadNumbers DEF Stopped
    <2>2. OpenHandle(t)'
        <3>1. CASE aborted'
            BY Zenon, <1>3, <1>4, <3>1 DEF OpenHandle
        <3>2. CASE GaveUp(t)
            <4>1. pc'[t] = "stop" /\ result'[t] = "error"
                BY Zenon, <1>0, <3>2 DEF GaveUp, Leave, Goto, TypeInv
            <4>2. ~aborted' => Settled(Last(txn')) \/ Last(txn').wrote = {}
                BY Zenon, <3>2 DEF GaveUp
            <4> QED BY Zenon, <1>3, <1>4, <4>1, <4>2 DEF OpenHandle
        <3>3. CASE WentOn(t) /\ ~aborted'
            <4> DEFINE s == Script(prog[t])
                       e == Last(txn')
            <4>1. /\ e.cut \/ e.wrote = WrittenBefore(s, step[t] + 1)
                  /\ \A j \in 1 .. step[t] : Binding(s, j) => s[j].writes \in e.wrote
                BY Zenon, <3>3 DEF WentOn
            <4>2. /\ pc'[t] = IF step[t] = NumSteps(prog[t]) THEN "stop" ELSE "run"
                  /\ step'[t] = step[t] + 1 /\ result'[t] = result[t] /\ (step[t] + 1) - 1 = step[t]
                BY <1>0, <1>2, <3>3 DEF WentOn, Advance, Goto, NumSteps, TypeInv
            <4>3. CASE pc'[t] = "run"
                BY Zenon, <1>3, <1>4, <4>1, <4>2, <4>3 DEF OpenHandle
            <4>4. CASE pc'[t] = "stop"
                <5>1. step[t] = Len(s)
                    BY Zenon, <4>2, <4>4 DEF NumSteps
                <5>2. WrittenBefore(s, step[t] + 1) = Writes(prog[t])
                    BY Zenon, <4>2, <5>1 DEF WrittenBefore, Writes
                <5>3. Settled(e)
                    BY Zenon, <1>4, <4>1, <5>2 DEF Settled, Whole
                <5>4. prog[t] # "evict" => e.wrote # {}
                    BY Zenon, <1>2, <4>1, <5>1 DEF NumSteps
                <5> QED BY Zenon, <1>3, <1>4, <4>4, <5>3, <5>4 DEF OpenHandle
            <4> QED BY Zenon, <4>2, <4>3, <4>4
        <3> QED BY Zenon, <1>1, <3>1, <3>2, <3>3 DEF Failed
    <2>3. \A u \in Thread : j_handle_owner' = u => u = t
        BY Zenon, <1>2, <1>3
    <2> QED BY Zenon, <1>0, <1>3, <1>5, <2>1, <2>2, <2>3 DEF LogInv
<1>9. PromiseInv'
    <2>1. ReturnedOk' = ReturnedOk
        BY Zenon, <1>0, <1>2, <1>3, <1>5 DEF ReturnedOk, TypeInv
    <2>2. \A u \in Thread : result'[u] = "ok" => result[u] = "ok"
        BY Zenon, <1>0, <1>5 DEF TypeInv
    <2> QED BY Zenon, <1>0, <1>2, <1>3, <1>4, <1>5, <2>1, <2>2 DEF PromiseInv
<1> QED BY Zenon, <1>6, <1>7, <1>8, <1>9 DEF HandleInv

(* A handle that stops without an abort is settled or leaves no trace. *)
LEMMA StopKeeps ==
    ASSUME HandleInv, NEW t \in Thread, Stop(t)
    PROVE  HandleInv'
<1>0. TypeInv /\ LockInv /\ LogInv /\ PromiseInv
    BY Zenon DEF HandleInv
<1>1. /\ pc[t] = "stop" /\ prog[t] \in Operations /\ s_needs_recovery /\ mount = "mounted"
      /\ t \notin ReturnedOk /\ j_handle_mutex = t /\ j_handle_owner = t
      /\ txn # <<>> /\ Last(txn).by = t /\ OpenHandle(t)
    BY Zenon, <1>0, NotUnmounting DEF Stop, LockInv, LogInv, OpenHandle
<1>2. /\ pc' = [pc EXCEPT ![t] = "done"] /\ s_shutdown' = (s_shutdown \/ aborted)
      /\ result' = [result EXCEPT ![t] = IF aborted \/ result[t] = "error" THEN "error" ELSE "ok"]
      /\ j_handle_owner' = Nobody /\ j_handle_mutex' = Nobody
      /\ UNCHANGED <<prog, step, before, aborted, kjournald, flushing, durable, s_needs_recovery, mount>>
    BY Zenon DEF Stop, Return, Goto, Release, commitVars, mountVars
<1>3. /\ txn' \in Seq(Handle)
      /\ Bys(txn) = Bys(Front(txn)) \cup {t} /\ Front(txn) \in Seq(Handle)
      /\ AllSettled(Front(txn)) /\ Settled(Last(txn)) => AllSettled(txn)
      /\ txn' = IF Last(txn).wrote = {} THEN Front(txn) ELSE txn
    BY Zenon, <1>0, <1>1, FrontOfLog DEF Stop, TypeInv
<1>4. TypeInv'
    <2>1. pc' \in [Thread -> Pcs] /\ result' \in [Thread -> {"none", "ok", "error"}]
        BY Zenon, <1>0, <1>2 DEF TypeInv, Pcs
    <2>2. s_shutdown' \in BOOLEAN /\ Nobody # Umount
        BY Zenon, <1>0, <1>2, ThreadNumbers DEF TypeInv
    <2> QED BY Zenon, <1>0, <1>2, <1>3, <2>1, <2>2 DEF TypeInv
<1>5. LockInv'
    BY <1>0, <1>1, <1>2, ThreadNumbers DEF LockInv, TypeInv
<1>6. LogInv'
    <2>1. Stopped = Front(txn) /\ Stopped' = txn'
        BY Zenon, <1>1, <1>2, ThreadNumbers DEF Stopped
    <2>2. ~aborted => AllSettled(txn')
        BY Zenon, <1>0, <1>1, <1>3, <2>1 DEF LogInv, OpenHandle
    <2> QED BY Zenon, <1>0, <1>2, <2>1, <2>2, ThreadNumbers DEF LogInv
<1>7. PromiseInv'
    <2>1. ReturnedOk \subseteq ReturnedOk' /\ ReturnedOk' \subseteq ReturnedOk \cup {t}
        BY Zenon, <1>0, <1>1, <1>2 DEF ReturnedOk, TypeInv
    <2>2. ~aborted /\ t \in ReturnedOk' => txn' = txn
        BY Zenon, <1>0, <1>1, <1>2, <1>3 DEF ReturnedOk, OpenHandle, TypeInv
    <2>3. ~aborted => ReturnedOk' \subseteq Bys(durable) \cup Bys(flushing) \cup Bys(txn')
        BY Zenon, <1>0, <1>1, <1>3, <2>1, <2>2 DEF PromiseInv
    <2>4. \A u \in Thread : prog[u] \in Fsyncs /\ result'[u] = "ok" => result[u] = "ok"
        BY Zenon, <1>0, <1>1, <1>2 DEF TypeInv, Fsyncs, Operations
    <2> QED BY Zenon, <1>0, <1>1, <1>2, <2>1, <2>3, <2>4 DEF PromiseInv
<1> QED BY Zenon, <1>4, <1>5, <1>6, <1>7 DEF HandleInv
-----------------------------------------------------------------------------
(* The invariant holds from the mount on. *)
LEMMA InitHolds == Init => HandleInv
<1> SUFFICES ASSUME Init PROVE HandleInv
    BY Zenon
<1>1. TypeInv
    <2>1. 1 \in 1 .. 15 /\ <<>> \in Seq(Handle)
        OBVIOUS
    <2> QED BY Zenon, <2>1, ThreadNumbers DEF Init, TypeInv, Pcs
<1>2. LockInv
    BY Zenon, ThreadNumbers DEF Init, LockInv
<1>3. LogInv /\ PromiseInv
    BY ThreadNumbers DEF Init, LogInv, PromiseInv, AllSettled, Stopped, ReturnedOk, Bys
<1> QED BY Zenon, <1>1, <1>2, <1>3 DEF HandleInv

LEMMA NextKeeps == HandleInv /\ [Next]_vars => HandleInv'
<1> SUFFICES ASSUME HandleInv, [Next]_vars PROVE HandleInv'
    BY Zenon
<1>1. ASSUME NEW t \in Thread, TaskStep(t) PROVE HandleInv'
    BY Zenon, <1>1, EnterKeeps, LockKeeps, OpenKeeps, StepKeeps, StopKeeps, ForceCommitKeeps,
       AwaitCommitKeeps, SetShutdownKeeps, JournalShutdownKeeps DEF TaskStep
<1>2. CASE CommitStep \/ IoendError \/ UmountStep
    BY ZenonT(40), <1>2, LockTxnKeeps, FlushTxnKeeps, EndCommitKeeps, IoendErrorKeeps, StartUmountKeeps,
       SyncUmountKeeps, DestroyKeeps DEF CommitStep, UmountStep
<1>3. CASE UNCHANGED vars
    <2>1. UNCHANGED <<prog, pc, step, result, before, j_handle_mutex, j_handle_owner, s_shutdown, aborted,
                      txn, kjournald, flushing, durable, s_needs_recovery, mount>>
        BY Zenon, <1>3 DEF vars, taskVars, lockVars, flagVars, commitVars, mountVars
    <2>2. TypeInv'
        BY Zenon, <2>1 DEF HandleInv, TypeInv
    <2>3. LockInv'
        BY Zenon, <2>1 DEF HandleInv, LockInv
    <2>4. LogInv' /\ PromiseInv'
        BY Zenon, <2>1 DEF HandleInv, LogInv, OpenHandle, Stopped, PromiseInv, ReturnedOk
    <2> QED BY Zenon, <2>2, <2>3, <2>4 DEF HandleInv
<1> QED BY Zenon, <1>1, <1>2, <1>3 DEF Next, Unmounted

LEMMA HandleInvariance == Spec => []HandleInv
<1>1. Init => HandleInv
    BY Zenon, InitHolds
<1>2. HandleInv /\ [Next]_vars => HandleInv'
    BY Zenon, NextKeeps
<1> QED BY <1>1, <1>2, PTL DEF Spec

(* Type correctness of tasks, locks, flags, transactions and the unmount. *)
THEOREM HandleTypes == Spec => []TypeOK
<1>1. ASSUME TypeInv PROVE TypeOK
    <2>1. ASSUME NEW a \in Seq(Handle) PROVE a \in Seq(Entries)
        BY DEF Handle
    <2> QED BY Zenon, <1>1, <2>1 DEF TypeInv, TypeOK, Pcs
<1>2. HandleInv => TypeOK
    BY Zenon, <1>1 DEF HandleInv
<1> QED BY <1>2, HandleInvariance, PTL

(***************************************************************************)
(* What the journal makes durable holds operations whole, cut by a         *)
(* shutdown or an ignored error, or one of the three handles of HalfDone,  *)
(* however tasks, commits and errors interleave: every other error path of *)
(* simplefs_inode.c undoes its writes or aborts before the handle stops.   *)
(***************************************************************************)
THEOREM CommittedOperationsAreWhole == Spec => []CommitWhole
<1>1. HandleInv => CommitWhole
    BY Zenon DEF HandleInv, LogInv, AllSettled, CommitWhole
<1> QED BY <1>1, HandleInvariance, PTL

(***************************************************************************)
(* An fsync that returned 0 has made durable every operation that returned *)
(* 0 before it began, as long as the journal is not aborted.               *)
(***************************************************************************)
THEOREM FsyncIsDurable == Spec => []FsyncCommits
<1>1. HandleInv => FsyncCommits
    BY Zenon DEF HandleInv, PromiseInv, FsyncCommits, FsyncDurable, Bys
<1> QED BY <1>1, HandleInvariance, PTL

(***************************************************************************)
(* simplefs_put_super clears s_needs_recovery only when nothing is left in *)
(* the journal and every operation that returned 0 is durable.             *)
(***************************************************************************)
THEOREM CleanMarkerIsHonest == Spec => []CleanMeansDurable
<1>1. HandleInv => CleanMeansDurable
    BY Zenon DEF HandleInv, PromiseInv, LockInv, CleanMeansDurable, Bys
<1> QED BY <1>1, HandleInvariance, PTL
-----------------------------------------------------------------------------
(***************************************************************************)
(* LogOfDone is the log the mapping reads the operations from; it grows    *)
(* when a handle stops, and is cut when the journal aborts.                *)
(***************************************************************************)
LogOfDone == IF aborted THEN durable ELSE durable \o flushing \o Stopped

Quiet == UNCHANGED <<By(LogOfDone), Len(durable)>>

(* By reads one operation off each handle. *)
LEMMA ByOfLog ==
    ASSUME NEW a \in Seq(Handle)
    PROVE  /\ By(a) \in Seq(Thread \cup {Nobody}) /\ Len(By(a)) = Len(a)
           /\ \A i \in 1 .. Len(a) : By(a)[i] = IF Settled(a[i]) THEN a[i].by ELSE Nobody
<1>1. Len(a) \in Nat /\ \A i \in 1 .. Len(a) : a[i] \in Handle
    OBVIOUS
<1>2. \A i \in 1 .. Len(a) : a[i].by \in Thread
    BY Zenon, <1>1 DEF Handle, Entries
<1>3. By(a) \in Seq(Thread \cup {Nobody})
    BY <1>1, <1>2, IsASeq DEF By
<1>4. DOMAIN By(a) = 1 .. Len(a)
    BY Zenon DEF By
<1>5. Len(By(a)) = Len(a)
    BY <1>1, <1>3, <1>4, LenProperties
<1> QED BY Zenon, <1>3, <1>5 DEF By

(* The operations of a prefix of the log are a prefix of its operations. *)
LEMMA ByOfPrefix ==
    ASSUME NEW a \in Seq(Handle), NEW b \in Seq(Handle)
    PROVE  By(a) = SubSeq(By(a \o b), 1, Len(a))
<1>1. a \o b \in Seq(Handle) /\ Len(a \o b) = Len(a) + Len(b) /\ \A i \in 1 .. Len(a) : (a \o b)[i] = a[i]
    OBVIOUS
<1>2. /\ By(a \o b) \in Seq(Thread \cup {Nobody}) /\ Len(By(a \o b)) = Len(a) + Len(b)
      /\ \A i \in 1 .. Len(a) + Len(b) : By(a \o b)[i] = IF Settled((a \o b)[i]) THEN (a \o b)[i].by ELSE Nobody
    BY Zenon, <1>1, ByOfLog
<1>3. /\ By(a) \in Seq(Thread \cup {Nobody}) /\ Len(By(a)) = Len(a)
      /\ \A i \in 1 .. Len(a) : By(a)[i] = IF Settled(a[i]) THEN a[i].by ELSE Nobody
    BY Zenon, ByOfLog
<1>4. PICK n \in Nat : n = Len(a) /\ n <= Len(a) + Len(b)
    OBVIOUS
<1>5. /\ SubSeq(By(a \o b), 1, n) \in Seq(Thread \cup {Nobody}) /\ Len(SubSeq(By(a \o b), 1, n)) = n
      /\ \A i \in 1 .. n : SubSeq(By(a \o b), 1, n)[i] = By(a \o b)[i]
    <2> DEFINE s == By(a \o b)
    <2>1. s \in Seq(Thread \cup {Nobody}) /\ n <= Len(s)
        BY Zenon, <1>2, <1>4
    <2> HIDE DEF s
    <2>2. \A i \in 1 .. n : s[i] \in Thread \cup {Nobody}
        BY <2>1
    <2>3. /\ SubSeq(s, 1, n) \in Seq(Thread \cup {Nobody})
          /\ Len(SubSeq(s, 1, n)) = IF 1 <= n THEN n - 1 + 1 ELSE 0
          /\ \A i \in 1 .. n - 1 + 1 : SubSeq(s, 1, n)[i] = s[1 + i - 1]
        BY <2>1, <2>2, SubSeqProperties
    <2>4. Len(SubSeq(s, 1, n)) = n /\ \A i \in 1 .. n : SubSeq(s, 1, n)[i] = s[i]
        BY <2>3
    <2> QED BY Zenon, <2>3, <2>4 DEF s
<1>6. \A i \in 1 .. n : i \in 1 .. Len(a) /\ i \in 1 .. Len(a) + Len(b)
    BY <1>4
<1>7. \A i \in 1 .. n : SubSeq(By(a \o b), 1, n)[i] = By(a)[i]
    BY Zenon, <1>1, <1>2, <1>3, <1>5, <1>6
<1> QED BY Zenon, <1>3, <1>4, <1>5, <1>7, SeqEqual

(* A settled handle at the end of the log is one more operation. *)
LEMMA ByOfAppend ==
    ASSUME NEW a \in Seq(Handle), NEW e \in Handle, Settled(e)
    PROVE  By(Append(a, e)) = Append(By(a), e.by)
<1> DEFINE b == Append(a, e)
<1>1. b \in Seq(Handle) /\ Len(b) = Len(a) + 1 /\ b[Len(a) + 1] = e /\ \A i \in 1 .. Len(a) : b[i] = a[i]
    OBVIOUS
<1> HIDE DEF b
<1>2. /\ By(b) \in Seq(Thread \cup {Nobody}) /\ Len(By(b)) = Len(a) + 1
      /\ \A i \in 1 .. Len(a) + 1 : By(b)[i] = IF Settled(b[i]) THEN b[i].by ELSE Nobody
    BY Zenon, <1>1, ByOfLog
<1>3. /\ By(a) \in Seq(Thread \cup {Nobody}) /\ Len(By(a)) = Len(a)
      /\ \A i \in 1 .. Len(a) : By(a)[i] = IF Settled(a[i]) THEN a[i].by ELSE Nobody
    BY Zenon, ByOfLog
<1>4. PICK n \in Nat : n = Len(a)
    OBVIOUS
<1>5. e.by \in Thread \cup {Nobody}
    BY Zenon DEF Handle, Entries
<1>6. /\ Append(By(a), e.by) \in Seq(Thread \cup {Nobody}) /\ Len(Append(By(a), e.by)) = n + 1
      /\ Append(By(a), e.by)[n + 1] = e.by /\ \A i \in 1 .. n : Append(By(a), e.by)[i] = By(a)[i]
    BY <1>3, <1>4, <1>5, AppendProperties
<1>7. \A i \in 1 .. n + 1 : i \in 1 .. n \/ i = n + 1
    OBVIOUS
<1>8. By(b)[n + 1] = e.by
    BY <1>1, <1>2, <1>4
<1>9. \A i \in 1 .. n : By(b)[i] = By(a)[i]
    BY <1>1, <1>2, <1>3, <1>4
<1>10. \A i \in 1 .. n + 1 : By(b)[i] = Append(By(a), e.by)[i]
    BY Zenon, <1>6, <1>7, <1>8, <1>9
<1> QED BY Zenon, <1>2, <1>4, <1>6, <1>10, SeqEqual DEF b

(* A transaction is its front with its last handle appended. *)
LEMMA LastOfLog ==
    ASSUME NEW a \in Seq(Handle), a # <<>>
    PROVE  a = Append(Front(a), Last(a))
<1>1. /\ Front(a) \in Seq(Handle) /\ Len(Front(a)) = Len(a) - 1 /\ Len(a) \in Nat \ {0}
      /\ \A i \in 1 .. Len(a) - 1 : Front(a)[i] = a[i]
      /\ Last(a) \in Handle
    BY Zenon, FrontOfLog
<1>2. PICK n \in Nat : n + 1 = Len(a)
    BY <1>1
<1> DEFINE f == Front(a)
           b == Append(f, Last(a))
<1>3. f \in Seq(Handle) /\ Len(f) = n /\ \A i \in 1 .. n : f[i] = a[i]
    BY <1>1, <1>2
<1> HIDE DEF f
<1>4. b \in Seq(Handle) /\ Len(b) = n + 1 /\ b[n + 1] = Last(a) /\ \A i \in 1 .. n : b[i] = f[i]
    BY <1>1, <1>3, AppendProperties
<1>5. \A i \in 1 .. n + 1 : i \in 1 .. n \/ i = n + 1
    OBVIOUS
<1>6. a[n + 1] = Last(a)
    BY Zenon, <1>2 DEF Last
<1> HIDE DEF b
<1>7. \A i \in 1 .. n + 1 : b[i] = a[i]
    BY Zenon, <1>3, <1>4, <1>5, <1>6
<1>8. a = b
    BY Zenon, <1>2, <1>4, <1>7, SeqEqual
<1> QED BY Zenon, <1>8 DEF b, f

(***************************************************************************)
(* Every step is a step of SimplefsAtomic or a stuttering one.             *)
(***************************************************************************)
LEMMA QuietStep ==
    ASSUME HandleInv, UNCHANGED <<aborted, durable, flushing, Stopped>>
    PROVE  Quiet
BY Zenon DEF Quiet, LogOfDone


(* The stopped handles are a sequence of handles. *)
LEMMA StoppedIsLog == ASSUME HandleInv PROVE Stopped \in Seq(Handle)
<1>1. CASE j_handle_owner = Nobody
    BY Zenon, <1>1 DEF HandleInv, TypeInv, Stopped
<1>2. CASE j_handle_owner # Nobody
    <2>1. j_handle_owner \in Thread
        BY Zenon, <1>2 DEF HandleInv, TypeInv
    <2>2. txn \in Seq(Handle) /\ txn # <<>>
        BY Zenon, <2>1 DEF HandleInv, TypeInv, LogInv, OpenHandle
    <2> QED BY Zenon, <1>2, <2>2, FrontOfLog DEF Stopped
<1> QED BY Zenon, <1>1, <1>2

(* An abort cuts the operations done back to the durable ones. *)
LEMMA AbortLoses ==
    ASSUME HandleInv, aborted', durable' = durable
    PROVE  Quiet \/ Atomic!Lose
<1>1. durable \in Seq(Handle) /\ flushing \in Seq(Handle) /\ Stopped \in Seq(Handle)
    BY Zenon, StoppedIsLog DEF HandleInv, TypeInv
<1>2. LogOfDone' = durable
    BY Zenon DEF LogOfDone
<1>3. CASE aborted
    BY Zenon, <1>2, <1>3 DEF Quiet, LogOfDone
<1>4. CASE ~aborted
    <2> DEFINE rest == flushing \o Stopped
    <2>1. rest \in Seq(Handle) /\ LogOfDone = durable \o rest
        BY SMTT(20), <1>1, <1>4, ConcatAssociative DEF LogOfDone
    <2> HIDE DEF rest
    <2>2. By(durable) = SubSeq(By(LogOfDone), 1, Len(durable))
        BY Zenon, <1>1, <2>1, ByOfPrefix
    <2>3. By(LogOfDone)' = By(durable)
        BY Zenon, <1>2
    <2> QED BY Zenon, <2>2, <2>3 DEF Atomic!Lose, LogOfDone
<1> QED BY Zenon, <1>3, <1>4

(* A handle that stops is one more operation done, or none when it wrote nothing. *)
LEMMA StopApplies ==
    ASSUME HandleInv, NEW t \in Thread, Stop(t)
    PROVE  Quiet \/ Atomic!Apply(t)
<1>1. /\ txn \in Seq(Handle) /\ durable \in Seq(Handle) /\ flushing \in Seq(Handle)
      /\ j_handle_owner = t /\ txn # <<>> /\ Last(txn).by = t /\ OpenHandle(t)
      /\ pc[t] = "stop" /\ aborted \in BOOLEAN
    BY Zenon DEF HandleInv, TypeInv, LockInv, LogInv, OpenHandle, Stop
<1>2. /\ UNCHANGED <<aborted, durable, flushing>>
      /\ txn' = IF Last(txn).wrote = {} THEN Front(txn) ELSE txn
      /\ Stopped = Front(txn) /\ Stopped' = txn'
    BY Zenon, <1>1, ThreadNumbers DEF Stop, Release, commitVars, Stopped
<1>3. CASE aborted
    BY Zenon, <1>2, <1>3 DEF Quiet, LogOfDone
<1>4. CASE Last(txn).wrote = {}
    BY Zenon, <1>2, <1>4 DEF Quiet, LogOfDone
<1>5. CASE ~aborted /\ Last(txn).wrote # {}
    <2> DEFINE a == durable \o flushing
               f == Front(txn)
               e == Last(txn)
    <2>1. a \in Seq(Handle) /\ f \in Seq(Handle) /\ e \in Handle /\ txn = Append(f, e)
        BY SMTT(30), <1>1, FrontOfLog, LastOfLog
    <2>2. Settled(e) /\ e.by = t
        BY Zenon, <1>1, <1>5 DEF OpenHandle
    <2>3. LogOfDone = a \o f /\ LogOfDone' = a \o Append(f, e)
        BY Zenon, <1>2, <1>5, <2>1 DEF LogOfDone
    <2> HIDE DEF a, f, e
    <2>4. a \o f \in Seq(Handle) /\ a \o Append(f, e) = Append(a \o f, e)
        <3>1. <<e>> \in Seq(Handle)
            BY <2>1
        <3>2. Append(f, e) = f \o <<e>> /\ a \o f \in Seq(Handle) /\ Append(a \o f, e) = (a \o f) \o <<e>>
            BY <2>1, AppendIsConcat
        <3> QED BY <2>1, <3>1, <3>2, ConcatAssociative
    <2>5. By(LogOfDone)' = Append(By(LogOfDone), t)
        BY Zenon, <2>1, <2>2, <2>3, <2>4, ByOfAppend
    <2> QED BY Zenon, <1>2, <2>5 DEF Atomic!Apply, LogOfDone
<1> QED BY Zenon, <1>1, <1>3, <1>4, <1>5

(* Operations become durable by joining what is being committed to the log. *)
LEMMA JoinMakesDurable ==
    ASSUME HandleInv, ~aborted, ~aborted', NEW b \in Seq(Handle), NEW c \in Seq(Handle),
           durable' = durable \o b, LogOfDone = durable \o b \o c, LogOfDone' = durable' \o c
    PROVE  Quiet \/ Atomic!MakeDurable
<1>1. durable \in Seq(Handle) /\ durable \o b \in Seq(Handle) /\ LogOfDone \in Seq(Handle)
      /\ Len(LogOfDone) = Len(durable) + Len(b) + Len(c) /\ Len(durable') = Len(durable) + Len(b)
    BY DEF HandleInv, TypeInv
<1>2. LogOfDone' = LogOfDone /\ By(LogOfDone)' = By(LogOfDone)
    BY Zenon
<1>3. Len(By(LogOfDone)) = Len(durable) + Len(b) + Len(c)
    BY Zenon, <1>1, ByOfLog
<1>4. CASE b = <<>>
    BY <1>1, <1>2, <1>4 DEF Quiet
<1>5. CASE b # <<>>
    <2>1. Len(b) \in Nat \ {0} /\ Len(c) \in Nat /\ Len(durable) \in Nat
        BY <1>1, <1>5
    <2>2. Len(durable') \in (Len(durable) + 1) .. Len(By(LogOfDone))
        BY <1>1, <1>3, <2>1
    <2> QED BY Zenon, <1>2, <2>2 DEF Atomic!MakeDurable, LogOfDone
<1> QED BY Zenon, <1>4, <1>5

(* The end of a commit and jbd2_journal_destroy, by JoinMakesDurable. *)
LEMMA EndCommitMakesDurable ==
    ASSUME HandleInv, EndCommit
    PROVE  Quiet \/ Atomic!MakeDurable \/ Atomic!Lose
<1>1. /\ flushing \in Seq(Handle) /\ durable \in Seq(Handle) /\ Stopped \in Seq(Handle)
      /\ aborted \in BOOLEAN /\ flushing' = <<>> /\ Stopped' = Stopped
    BY Zenon, StoppedIsLog DEF HandleInv, TypeInv, EndCommit, Stopped, lockVars
<1>2. CASE aborted' /\ durable' = durable
    BY Zenon, <1>2, AbortLoses
<1>3. CASE ~aborted /\ ~aborted' /\ durable' = durable \o flushing
    <2>1. durable' \o <<>> = durable'
        BY <1>1, <1>3
    <2>2. LogOfDone' = durable' \o Stopped
        BY Zenon, <1>1, <1>3, <2>1 DEF LogOfDone
    <2> QED BY Zenon, <1>1, <1>3, <2>2, JoinMakesDurable DEF LogOfDone
<1> QED BY <1>1, <1>2, <1>3 DEF EndCommit

LEMMA DestroyMakesDurable ==
    ASSUME HandleInv, Destroy
    PROVE  Quiet \/ Atomic!MakeDurable
<1>1. /\ txn \in Seq(Handle) /\ durable \in Seq(Handle) /\ aborted' = aborted /\ aborted \in BOOLEAN
      /\ flushing = <<>> /\ flushing' = <<>> /\ Stopped = txn /\ Stopped' = <<>>
    BY Zenon DEF HandleInv, TypeInv, LockInv, Destroy, NoOpenHandle, flagVars, lockVars, Stopped
<1>2. CASE aborted
    BY Zenon, <1>1, <1>2 DEF Destroy, Quiet, LogOfDone
<1>3. CASE ~aborted /\ durable' = durable \o txn
    <2>1. durable' \in Seq(Handle) /\ durable' \o <<>> = durable' /\ durable \o <<>> = durable
          /\ durable \o txn \o <<>> = durable \o txn
        BY <1>1, <1>3
    <2>2. LogOfDone = durable \o txn \o <<>> /\ LogOfDone' = durable' \o <<>>
        BY Zenon, <1>1, <1>3, <2>1 DEF LogOfDone
    <2>3. <<>> \in Seq(Handle)
        OBVIOUS
    <2> QED BY Zenon, <1>1, <1>3, <2>2, <2>3, JoinMakesDurable
<1> QED BY Zenon, <1>1, <1>2, <1>3 DEF Destroy

(* The steps of a task. *)
LEMMA TaskRefines ==
    ASSUME HandleInv, NEW t \in Thread, TaskStep(t)
    PROVE  Quiet \/ Atomic!Apply(t) \/ Atomic!Lose
<1>1. CASE Enter(t) \/ Lock(t) \/ ForceCommit(t) \/ AwaitCommit(t) \/ SetShutdown(t)
    <2>1. UNCHANGED <<aborted, durable, flushing, txn, j_handle_owner>>
        BY Zenon, <1>1 DEF Enter, Lock, ForceCommit, AwaitCommit, SetShutdown, Committed, Unlock, lockVars,
           flagVars, commitVars
    <2> QED BY Zenon, <2>1, QuietStep DEF Stopped
<1>2. CASE Open(t)
    <2>1. j_handle_owner = Nobody /\ txn \in Seq(Handle) /\ prog[t] \in Operations
        BY Zenon, <1>2, ThreadNumbers DEF Open, HandleInv, TypeInv, LockInv
    <2>2. UNCHANGED <<aborted, durable, flushing>>
        BY Zenon, <1>2 DEF Open, flagVars, commitVars
    <2>3. CASE UNCHANGED <<txn, j_handle_owner>>
        BY Zenon, <2>2, <2>3, QuietStep DEF Stopped
    <2>4. CASE /\ txn' = Append(txn, [call |-> prog[t], wrote |-> {}, by |-> t, cut |-> FALSE])
               /\ j_handle_owner' = t
        <3>1. [call |-> prog[t], wrote |-> {}, by |-> t, cut |-> FALSE] \in Handle
            BY Zenon, <2>1 DEF Handle, Entries
        <3>2. Front(txn') = txn
            BY Zenon, <2>1, <2>4, <3>1, AppendedHandle
        <3>3. Stopped' = Stopped
            BY Zenon, <2>1, <2>4, <3>2, ThreadNumbers DEF Stopped
        <3> QED BY Zenon, <2>2, <3>3, QuietStep
    <2> QED BY Zenon, <1>2, <2>3, <2>4 DEF Open, StartFails, Unlock
<1>3. CASE Step(t)
    <2>1. StepFrame /\ Rewritten(txn', txn) /\ (GaveUp(t) \/ Failed(t) \/ WentOn(t))
        BY Zenon, <1>3, StepOutcome
    <2>2. j_handle_owner = t
        BY Zenon, <1>3 DEF Step, HandleInv, LockInv
    <2>3. Stopped' = Stopped /\ durable' = durable /\ flushing' = flushing
        BY Zenon, <2>1, <2>2, ThreadNumbers DEF StepFrame, Rewritten, Stopped
    <2>4. CASE aborted' = aborted
        BY Zenon, <2>3, <2>4, QuietStep
    <2>5. CASE aborted'
        BY Zenon, <2>3, <2>5, AbortLoses
    <2> QED BY Zenon, <2>1, <2>4, <2>5 DEF GaveUp, Failed, WentOn
<1>4. CASE Stop(t)
    BY Zenon, <1>4, StopApplies
<1>5. CASE JournalShutdown(t)
    BY Zenon, <1>5, AbortLoses DEF JournalShutdown, commitVars
<1> QED BY Zenon, <1>1, <1>2, <1>3, <1>4, <1>5 DEF TaskStep

LEMMA NextRefines ==
    ASSUME HandleInv, [Next]_vars
    PROVE  Quiet \/ Atomic!AtomicNext
<1>1. ASSUME NEW t \in Thread, TaskStep(t) PROVE Quiet \/ Atomic!AtomicNext
    BY Zenon, <1>1, TaskRefines DEF Atomic!AtomicNext
<1>2. CASE LockTxn \/ IoendError \/ StartUmount \/ SyncUmount \/ UNCHANGED vars
    <2>1. UNCHANGED <<aborted, durable, flushing, txn, j_handle_owner>>
        BY Zenon, <1>2 DEF LockTxn, IoendError, StartUmount, SyncUmount, Unlock, vars, lockVars, flagVars, commitVars
    <2> QED BY Zenon, <2>1, QuietStep DEF Stopped
<1>3. CASE FlushTxn
    <2>1. /\ txn \in Seq(Handle) /\ durable \in Seq(Handle) /\ UNCHANGED <<aborted, durable>>
          /\ flushing = <<>> /\ flushing' = txn /\ Stopped = txn /\ Stopped' = <<>>
        BY Zenon, <1>3 DEF FlushTxn, NoOpenHandle, HandleInv, TypeInv, LockInv, lockVars, flagVars, Stopped
    <2>2. durable \o <<>> = durable /\ durable \o txn \o <<>> = durable \o txn
        BY <2>1
    <2>3. LogOfDone' = LogOfDone
        BY Zenon, <2>1, <2>2 DEF LogOfDone
    <2> QED BY Zenon, <2>1, <2>3 DEF Quiet
<1>4. CASE EndCommit
    BY Zenon, <1>4, EndCommitMakesDurable DEF Atomic!AtomicNext
<1>5. CASE Destroy
    BY Zenon, <1>5, DestroyMakesDurable DEF Atomic!AtomicNext
<1> QED BY Zenon, <1>1, <1>2, <1>3, <1>4, <1>5 DEF Next, CommitStep, UmountStep, Unmounted

(***************************************************************************)
(* The handles implement SimplefsAtomic: operations take effect one at a   *)
(* time, whole but for the exceptions of CommitWhole, become durable in    *)
(* the order in which they took effect, and what was not durable when the  *)
(* journal aborted is lost together.                                       *)
(***************************************************************************)
THEOREM HandlesAreAtomic == Spec => OperationsAtomic
<1>1. Init => Atomic!AtomicInit
    <2> SUFFICES ASSUME Init PROVE Atomic!AtomicInit
        BY Zenon
    <2>1. durable = <<>> /\ LogOfDone = <<>>
        BY DEF Init, LogOfDone, Stopped
    <2>2. By(<<>>) = <<>>
        BY DEF By
    <2> QED BY Zenon, <2>1, <2>2 DEF Atomic!AtomicInit, LogOfDone
<1>2. HandleInv /\ [Next]_vars => [Atomic!AtomicNext]_<<By(LogOfDone), Len(durable)>>
    BY Zenon, NextRefines DEF Quiet
<1> QED BY <1>1, <1>2, HandleInvariance, PTL DEF Spec, OperationsAtomic, Atomic!AtomicSpec, LogOfDone
=============================================================================
