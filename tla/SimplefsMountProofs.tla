------------------------ MODULE SimplefsMountProofs ------------------------
(***************************************************************************)
(* For every set of blocks and any number of transactions, mounts, replays *)
(* and crashes: the marker is truthful, a journalled mount shows a whole   *)
(* state that keeps every promise, and no block goes back to an older      *)
(* version.  Careful leaves out the three workloads that break this.       *)
(***************************************************************************)
EXTENDS SimplefsMount, TLAPS

(* The initial image is clean. *)
LEMMA MountInitInv == Init => MountInv
  <1> SUFFICES ASSUME Init PROVE MountInv
    BY Zenon
  <1>1. MountTypeOK /\ PhaseInv /\ MarkerInv
    BY Zenon DEF Init, MountTypeOK, PhaseInv, MarkerInv, LogEmpty, Up, Settled, Flushed
  <1>2. LogInv
    BY DEF Init, LogInv, LogEmpty, Bare, Whole
  <1> QED BY Zenon, <1>1, <1>2 DEF MountInv
-----------------------------------------------------------------------------
(* Mounting, replaying the log and setting the marker keep the invariant: a replay ends with every
   block at the head of the log, and without a replay the log is empty. *)
LEMMA MountingStep ==
    ASSUME Careful, MountInv,
           \/ \E r \in BOOLEAN, m \in {"journal", "nojournal", "norecovery"} : Mount(r, m)
           \/ \E b \in Block : ReplayBlock(b)
           \/ ReplayDone
           \/ MountDone
           \/ MountFails
    PROVE  MountInv'
  <1>0. MountTypeOK /\ PhaseInv /\ LogInv /\ MarkerInv
    BY Zenon DEF MountInv
  <1> USE <1>0 DEF MountTypeOK
  <1>1. ASSUME NEW r \in BOOLEAN, NEW m \in {"journal", "nojournal", "norecovery"}, Mount(r, m)
        PROVE  MountInv'
    <2>1. MountTypeOK'
      BY Zenon, <1>1 DEF Mount, MayMount, diskVars
    <2>2. PhaseInv'
      BY Zenon, <1>1 DEF Mount, MayMount, diskVars, PhaseInv, LogInv, MarkerInv, LogEmpty, Up, Does, Careful
    <2>3. LogInv'
      BY Zenon, <1>1 DEF Mount, MayMount, diskVars, PhaseInv, LogInv, MarkerInv, LogEmpty, Bare, Whole, Up
    <2>4. MarkerInv'
      BY Zenon, <1>1 DEF Mount, MayMount, diskVars, PhaseInv, LogInv, MarkerInv, LogEmpty, Up
    <2> QED BY Zenon, <2>1, <2>2, <2>3, <2>4 DEF MountInv
  <1>2. ASSUME NEW b \in Block, ReplayBlock(b)
        PROVE  MountInv'
    <2>1. MountTypeOK'
      BY Zenon, <1>2 DEF ReplayBlock, mountVars
    <2>2. PhaseInv'
      BY Zenon, <1>2 DEF ReplayBlock, mountVars, PhaseInv, LogInv, MarkerInv, LogEmpty, Up
    <2>3. LogInv'
      BY <1>2 DEF ReplayBlock, mountVars, PhaseInv, LogInv, MarkerInv, LogEmpty, Bare, Up
    <2>4. MarkerInv'
      BY Zenon, <1>2 DEF ReplayBlock, mountVars, PhaseInv, LogInv, MarkerInv, LogEmpty, Up
    <2> QED BY Zenon, <2>1, <2>2, <2>3, <2>4 DEF MountInv
  <1>3. CASE ReplayDone
    <2>1. MountTypeOK'
      BY Zenon, <1>3 DEF ReplayDone
    <2>2. PhaseInv'
      BY Zenon, <1>3 DEF ReplayDone, PhaseInv, LogInv, MarkerInv, LogEmpty, Up
    <2>3. LogInv'
      BY <1>3 DEF ReplayDone, PhaseInv, LogInv, MarkerInv, LogEmpty, Bare, Whole, AllHome, Up
    <2>4. MarkerInv'
      BY Zenon, <1>3 DEF ReplayDone, PhaseInv, LogInv, MarkerInv, LogEmpty, Up
    <2> QED BY Zenon, <2>1, <2>2, <2>3, <2>4 DEF MountInv
  <1>4. CASE MountDone
    <2>1. MountTypeOK'
      BY Zenon, <1>4 DEF MountDone, MountMark, SetMarker, mountVars
    <2>2. PhaseInv'
      BY Zenon, <1>4 DEF MountDone, MountMark, SetMarker, mountVars, PhaseInv, LogInv, MarkerInv, LogEmpty, Up
    <2>3. LogInv'
      BY Zenon, <1>4 DEF MountDone, MountMark, SetMarker, mountVars, PhaseInv, LogInv, MarkerInv, LogEmpty, Bare,
         Whole, Up
    <2>4. MarkerInv'
      BY Zenon, <1>4 DEF MountDone, MountMark, SetMarker, mountVars, PhaseInv, LogInv, MarkerInv, LogEmpty, Up
    <2> QED BY Zenon, <2>1, <2>2, <2>3, <2>4 DEF MountInv
  <1>5. CASE MountFails
    <2>1. MountTypeOK'
      BY Zenon, <1>5 DEF MountFails
    <2>2. PhaseInv'
      BY Zenon, <1>5 DEF MountFails, PhaseInv, LogInv, MarkerInv, LogEmpty, Up
    <2>3. LogInv'
      BY Zenon, <1>5 DEF MountFails, PhaseInv, LogInv, MarkerInv, LogEmpty, Bare, Whole, Up
    <2>4. MarkerInv'
      BY Zenon, <1>5 DEF MountFails, PhaseInv, LogInv, MarkerInv, LogEmpty, Up
    <2> QED BY Zenon, <2>1, <2>2, <2>3, <2>4 DEF MountInv
  <1> QED BY Zenon, <1>1, <1>2, <1>3, <1>4, <1>5

-----------------------------------------------------------------------------
(* So do the steps of a mounted filesystem: a transaction enters the log only under a set marker, and
   leaves it when every block is home. *)
LEMMA RunningStep ==
    ASSUME Careful, MountInv,
           \/ Write
           \/ Commit
           \/ \E b \in Block : CheckpointBlock(b)
           \/ CheckpointDone
           \/ \E b \in Block : WriteHome(b)
           \/ SyncReturns
           \/ Shutdown
           \/ Remount
    PROVE  MountInv'
  <1>0. MountTypeOK /\ PhaseInv /\ LogInv /\ MarkerInv
    BY Zenon DEF MountInv
  <1> USE <1>0 DEF MountTypeOK
  <1>1. CASE Write
    <2>1. MountTypeOK'
      BY <1>1 DEF Write, mountVars, diskVars
    <2>2. PhaseInv'
      BY Zenon, <1>1 DEF Write, mountVars, diskVars, PhaseInv, LogInv, MarkerInv, LogEmpty, Up
    <2>3. LogInv'
      BY <1>1 DEF Write, mountVars, diskVars, PhaseInv, LogInv, MarkerInv, LogEmpty, Bare, Whole, Up
    <2>4. MarkerInv'
      BY Zenon, <1>1 DEF Write, mountVars, diskVars, PhaseInv, LogInv, MarkerInv, LogEmpty, Up
    <2> QED BY Zenon, <2>1, <2>2, <2>3, <2>4 DEF MountInv
  <1>2. CASE Commit
    <2>1. MountTypeOK'
      BY Zenon, <1>2 DEF Commit, mountVars
    <2>2. PhaseInv'
      BY Zenon, <1>2 DEF Commit, mountVars, PhaseInv, LogInv, MarkerInv, LogEmpty, Up
    <2>3. LogInv'
      BY <1>2 DEF Commit, mountVars, PhaseInv, LogInv, MarkerInv, LogEmpty, Bare, Up
    <2>4. MarkerInv'
      BY Zenon, <1>2 DEF Commit, mountVars, PhaseInv, LogInv, MarkerInv, LogEmpty, Settled, Up
    <2> QED BY Zenon, <2>1, <2>2, <2>3, <2>4 DEF MountInv
  <1>3. ASSUME NEW b \in Block, CheckpointBlock(b)
        PROVE  MountInv'
    <2>1. MountTypeOK'
      BY <1>3 DEF CheckpointBlock, mountVars
    <2>2. PhaseInv'
      BY Zenon, <1>3 DEF CheckpointBlock, mountVars, PhaseInv, LogInv, MarkerInv, LogEmpty, Up
    <2>3. LogInv'
      BY <1>3 DEF CheckpointBlock, mountVars, PhaseInv, LogInv, MarkerInv, LogEmpty, Bare, Up
    <2>4. MarkerInv'
      BY Zenon, <1>3 DEF CheckpointBlock, mountVars, PhaseInv, LogInv, MarkerInv, LogEmpty, Settled, Flushed, Up
    <2> QED BY Zenon, <2>1, <2>2, <2>3, <2>4 DEF MountInv
  <1>4. CASE CheckpointDone
    <2>1. MountTypeOK'
      BY <1>4 DEF CheckpointDone, mountVars
    <2>2. PhaseInv'
      BY Zenon, <1>4 DEF CheckpointDone, mountVars, PhaseInv, LogInv, MarkerInv, LogEmpty, Up
    <2>3. LogInv'
      BY <1>4 DEF CheckpointDone, mountVars, PhaseInv, LogInv, MarkerInv, LogEmpty, Whole, AllHome, Up
    <2>4. MarkerInv'
      BY Zenon, <1>4 DEF CheckpointDone, mountVars, PhaseInv, LogInv, MarkerInv, LogEmpty, Settled, Flushed, Up
    <2> QED BY Zenon, <2>1, <2>2, <2>3, <2>4 DEF MountInv
  <1>5. ASSUME NEW b \in Block, WriteHome(b)
        PROVE  MountInv'
    <2>1. MountTypeOK'
      BY <1>5 DEF WriteHome, mountVars
    <2>2. PhaseInv'
      BY Zenon, <1>5 DEF WriteHome, mountVars, PhaseInv, LogInv, MarkerInv, LogEmpty, Up
    <2>3. LogInv'
      BY <1>5 DEF WriteHome, mountVars, PhaseInv, LogInv, MarkerInv, LogEmpty, Bare, Up
    <2>4. MarkerInv'
      BY Zenon, <1>5 DEF WriteHome, mountVars, PhaseInv, LogInv, MarkerInv, LogEmpty, Bare, Settled, AllHome, Up
    <2> QED BY Zenon, <2>1, <2>2, <2>3, <2>4 DEF MountInv
  <1>6. CASE SyncReturns
    <2>1. MountTypeOK'
      BY Zenon, <1>6 DEF SyncReturns, mountVars, diskVars
    <2>2. PhaseInv'
      BY Zenon, <1>6 DEF SyncReturns, mountVars, diskVars, PhaseInv, LogInv, MarkerInv, LogEmpty, Up
    <2>3. LogInv'
      BY <1>6 DEF SyncReturns, mountVars, diskVars, PhaseInv, LogInv, MarkerInv, LogEmpty, Bare, Whole,
         Settled, Up
    <2>4. MarkerInv'
      BY Zenon, <1>6 DEF SyncReturns, mountVars, diskVars, PhaseInv, LogInv, MarkerInv, LogEmpty, Up
    <2> QED BY Zenon, <2>1, <2>2, <2>3, <2>4 DEF MountInv
  <1>7. CASE Shutdown
    <2>1. MountTypeOK'
      BY Zenon, <1>7 DEF Shutdown, diskVars
    <2>2. PhaseInv'
      BY Zenon, <1>7 DEF Shutdown, diskVars, PhaseInv, LogInv, MarkerInv, LogEmpty, Up
    <2>3. LogInv'
      BY Zenon, <1>7 DEF Shutdown, diskVars, PhaseInv, LogInv, MarkerInv, LogEmpty, Bare, Whole, Up, Does, Careful
    <2>4. MarkerInv'
      BY Zenon, <1>7 DEF Shutdown, diskVars, PhaseInv, LogInv, MarkerInv, LogEmpty, Up
    <2> QED BY Zenon, <2>1, <2>2, <2>3, <2>4 DEF MountInv
  <1>8. CASE Remount
    <2>1. MountTypeOK'
      BY Zenon, <1>8 DEF Remount, diskVars
    <2>2. PhaseInv'
      BY Zenon, <1>8 DEF Remount, diskVars, PhaseInv, LogInv, MarkerInv, LogEmpty, Up, Does, Careful
    <2>3. LogInv'
      BY Zenon, <1>8 DEF Remount, diskVars, PhaseInv, LogInv, MarkerInv, LogEmpty, Bare, Whole, Up
    <2>4. MarkerInv'
      BY Zenon, <1>8 DEF Remount, diskVars, PhaseInv, LogInv, MarkerInv, LogEmpty, Up, Does, Careful
    <2> QED BY Zenon, <2>1, <2>2, <2>3, <2>4 DEF MountInv
  <1> QED BY Zenon, <1>1, <1>2, <1>3, <1>4, <1>5, <1>6, <1>7, <1>8

-----------------------------------------------------------------------------
(* So does each step of put_super, the crash at any point, and what happens between mounts: the
   marker is cleared only over an empty log. *)
LEMMA UnmountingStep ==
    ASSUME Careful, MountInv,
           \/ Umount
           \/ UmountSync
           \/ UmountFlush
           \/ UmountClean
           \/ UmountFails
           \/ Release
           \/ Crash
           \/ Protect
    PROVE  MountInv'
  <1>0. MountTypeOK /\ PhaseInv /\ LogInv /\ MarkerInv
    BY Zenon DEF MountInv
  <1> USE <1>0 DEF MountTypeOK
  <1>1. CASE Umount
    <2>1. MountTypeOK'
      BY Zenon, <1>1 DEF Umount, Goes, mountVars, diskVars
    <2>2. PhaseInv'
      BY Zenon, <1>1 DEF Umount, Goes, mountVars, diskVars, PhaseInv, LogInv, MarkerInv, LogEmpty, Up
    <2>3. LogInv'
      BY Zenon, <1>1 DEF Umount, Goes, mountVars, diskVars, PhaseInv, LogInv, MarkerInv, LogEmpty, Bare, Whole, Up
    <2>4. MarkerInv'
      BY Zenon, <1>1 DEF Umount, Goes, mountVars, diskVars, PhaseInv, LogInv, MarkerInv, LogEmpty, Up
    <2> QED BY Zenon, <2>1, <2>2, <2>3, <2>4 DEF MountInv
  <1>2. CASE UmountSync
    <2>1. MountTypeOK'
      BY Zenon, <1>2 DEF UmountSync, Goes, mountVars, diskVars
    <2>2. PhaseInv'
      BY Zenon, <1>2 DEF UmountSync, Goes, mountVars, diskVars, PhaseInv, LogInv, MarkerInv, LogEmpty, Up
    <2>3. LogInv'
      BY Zenon, <1>2 DEF UmountSync, Goes, mountVars, diskVars, PhaseInv, LogInv, MarkerInv, LogEmpty, Bare, Whole,
         Up
    <2>4. MarkerInv'
      BY Zenon, <1>2 DEF UmountSync, Goes, mountVars, diskVars, PhaseInv, LogInv, MarkerInv, LogEmpty, Settled,
         AllHome, Up
    <2> QED BY Zenon, <2>1, <2>2, <2>3, <2>4 DEF MountInv
  <1>3. CASE UmountFlush
    <2>1. MountTypeOK'
      BY Zenon, <1>3 DEF UmountFlush, Goes, mountVars, diskVars
    <2>2. PhaseInv'
      BY Zenon, <1>3 DEF UmountFlush, Goes, mountVars, diskVars, PhaseInv, LogInv, MarkerInv, LogEmpty, Up
    <2>3. LogInv'
      BY Zenon, <1>3 DEF UmountFlush, Goes, mountVars, diskVars, PhaseInv, LogInv, MarkerInv, LogEmpty, Bare,
         Whole, Up
    <2>4. MarkerInv'
      BY Zenon, <1>3 DEF UmountFlush, Goes, mountVars, diskVars, PhaseInv, LogInv, MarkerInv, LogEmpty, Settled,
         Flushed, AllHome, Up
    <2> QED BY Zenon, <2>1, <2>2, <2>3, <2>4 DEF MountInv
  <1>4. CASE UmountClean
    <2>1. MountTypeOK'
      BY Zenon, <1>4 DEF UmountClean, Goes, SetMarker, mountVars
    <2>2. PhaseInv'
      BY Zenon, <1>4 DEF UmountClean, Goes, SetMarker, mountVars, PhaseInv, LogInv, MarkerInv, LogEmpty, Up
    <2>3. LogInv'
      BY Zenon, <1>4 DEF UmountClean, Goes, SetMarker, mountVars, PhaseInv, LogInv, MarkerInv, LogEmpty, Bare,
         Whole, Flushed, Up
    <2>4. MarkerInv'
      BY Zenon, <1>4 DEF UmountClean, Goes, SetMarker, mountVars, PhaseInv, LogInv, MarkerInv, LogEmpty, Settled,
         Up
    <2> QED BY Zenon, <2>1, <2>2, <2>3, <2>4 DEF MountInv
  <1>5. CASE UmountFails
    <2>1. MountTypeOK'
      BY ZenonT(30), <1>5 DEF UmountFails, mountVars
    <2>2. PhaseInv'
      BY Zenon, <1>5 DEF UmountFails, mountVars, PhaseInv, LogInv, MarkerInv, LogEmpty, Up
    <2>3. LogInv'
      BY Zenon, <1>5 DEF UmountFails, mountVars, PhaseInv, LogInv, MarkerInv, LogEmpty, Bare, Whole, Flushed, Up
    <2>4. MarkerInv'
      BY Zenon, <1>5 DEF UmountFails, mountVars, PhaseInv, LogInv, MarkerInv, LogEmpty, Settled, Up
    <2> QED BY Zenon, <2>1, <2>2, <2>3, <2>4 DEF MountInv
  <1>6. CASE Release
    <2>1. MountTypeOK'
      BY Zenon, <1>6 DEF Release, Goes, diskVars
    <2>2. PhaseInv'
      BY Zenon, <1>6 DEF Release, Goes, diskVars, PhaseInv, LogInv, MarkerInv, LogEmpty, Up
    <2>3. LogInv'
      BY Zenon, <1>6 DEF Release, Goes, diskVars, PhaseInv, LogInv, MarkerInv, LogEmpty, Bare, Whole, Settled,
         AllHome, Up
    <2>4. MarkerInv'
      BY Zenon, <1>6 DEF Release, Goes, diskVars, PhaseInv, LogInv, MarkerInv, LogEmpty, Up
    <2> QED BY Zenon, <2>1, <2>2, <2>3, <2>4 DEF MountInv
  <1>7. CASE Crash
    <2>1. MountTypeOK'
      BY Zenon, <1>7 DEF Crash, diskVars
    <2>2. PhaseInv'
      BY Zenon, <1>7 DEF Crash, diskVars, PhaseInv, LogInv, MarkerInv, LogEmpty, Up
    <2>3. LogInv'
      BY Zenon, <1>7 DEF Crash, diskVars, PhaseInv, LogInv, MarkerInv, LogEmpty, Bare, Whole, Up, Does, Careful
    <2>4. MarkerInv'
      BY Zenon, <1>7 DEF Crash, diskVars, PhaseInv, LogInv, MarkerInv, LogEmpty, Up
    <2> QED BY Zenon, <2>1, <2>2, <2>3, <2>4 DEF MountInv
  <1>8. CASE Protect
    <2>1. MountTypeOK'
      BY Zenon, <1>8 DEF Protect, diskVars
    <2>2. PhaseInv'
      BY Zenon, <1>8 DEF Protect, diskVars, PhaseInv, LogInv, MarkerInv, LogEmpty, Up
    <2>3. LogInv'
      BY Zenon, <1>8 DEF Protect, diskVars, PhaseInv, LogInv, MarkerInv, LogEmpty, Bare, Whole, Up
    <2>4. MarkerInv'
      BY Zenon, <1>8 DEF Protect, diskVars, PhaseInv, LogInv, MarkerInv, LogEmpty, Up
    <2> QED BY Zenon, <2>1, <2>2, <2>3, <2>4 DEF MountInv
  <1> QED BY Zenon, <1>1, <1>2, <1>3, <1>4, <1>5, <1>6, <1>7, <1>8

(* Every step keeps the invariant. *)
LEMMA MountStep == ASSUME Careful, MountInv, [Next]_vars PROVE MountInv'
  <1>1. CASE Next
    BY Zenon, <1>1, MountingStep, RunningStep, UnmountingStep DEF Next
  <1>2. CASE UNCHANGED vars
    BY <1>2 DEF vars, mountVars, diskVars, MountInv, MountTypeOK, PhaseInv, LogInv, MarkerInv, LogEmpty, Bare,
                Whole, Settled, Flushed, AllHome, Up
  <1> QED BY Zenon, <1>1, <1>2

(***************************************************************************)
(* The invariant of the log, the home blocks and the marker holds through  *)
(* every sequence of mounts, unmounts and crashes of a Careful workload.   *)
(***************************************************************************)
THEOREM MountInvariant == ASSUME Careful PROVE Spec => []MountInv
  <1>1. MountInv /\ [Next]_vars => MountInv'
    BY Zenon, MountStep
  <1> QED BY <1>1, MountInitInv, PTL DEF Spec

(* s_needs_recovery is truthful: an unmarked image has an empty log and whole blocks. *)
THEOREM MarkerIsTruthful == ASSUME Careful PROVE Spec => []CleanMeansWhole
  <1>1. MountInv => CleanMeansWhole
    BY Zenon DEF MountInv, LogInv, CleanMeansWhole, Bare
  <1> QED BY <1>1, MountInvariant, PTL

(* A journalled mount shows the state after one transaction that is not older than any promised. *)
THEOREM MountKeepsPromises == ASSUME Careful PROVE Spec => []MountShowsPromised
  <1>1. MountInv => MountShowsPromised
    BY Zenon DEF MountInv, LogInv, MarkerInv, MountShowsPromised, Bare
  <1> QED BY <1>1, MountInvariant, PTL

(***************************************************************************)
(* No replay, checkpoint or write-back puts an older version over a newer  *)
(* one: a log that is not empty has not been overtaken by the home blocks. *)
(***************************************************************************)
THEOREM ReplayNeverGoesBack == ASSUME Careful PROVE Spec => HomeNeverOlder
  <1> DEFINE Forward == \A b \in Block : home'[b] >= home[b]
  <1>1. ASSUME MountInv, Next PROVE Forward
    <2>1. MountTypeOK /\ LogInv
      BY Zenon, <1>1 DEF MountInv
    <2>2. CASE \E b \in Block : ReplayBlock(b) \/ CheckpointBlock(b) \/ WriteHome(b)
      BY <2>1, <2>2 DEF MountTypeOK, LogInv, ReplayBlock, CheckpointBlock, WriteHome
    <2>3. CASE UNCHANGED home
      BY <2>1, <2>3 DEF MountTypeOK
    <2>4. (\E b \in Block : ReplayBlock(b) \/ CheckpointBlock(b) \/ WriteHome(b)) \/ UNCHANGED home
      BY Zenon, <1>1 DEF Next, Mount, ReplayDone, MountDone, MountFails, Write, Commit, CheckpointDone, SyncReturns,
                  Shutdown, Remount, Umount, UmountSync, UmountFlush, UmountClean, UmountFails, Release, Crash,
                  Protect, diskVars
    <2> QED BY Zenon, <2>2, <2>3, <2>4
  <1>2. MountInv /\ [Next]_vars => [Forward]_vars
    BY Zenon, <1>1
  <1> QED BY <1>2, MountInvariant, PTL DEF Spec, HomeNeverOlder
=============================================================================
