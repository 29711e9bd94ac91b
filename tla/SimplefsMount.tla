--------------------------- MODULE SimplefsMount ---------------------------
(***************************************************************************)
(* What lasts from one mount to the next: the log, the home blocks and the *)
(* s_needs_recovery marker of the superblock, through mounts of every      *)
(* kind, replays, clean and forced unmounts, remounts and crashes at any   *)
(* point of them.                                                          *)
(*                                                                         *)
(* A transaction writes every home block; its version is its number.  JBD2 *)
(* is external: its log holds the transactions tail + 1 .. head, and a     *)
(* checkpoint or a replay writes the newest of them home, block by block.  *)
(***************************************************************************)
EXTENDS Integers

CONSTANTS
    Block,        \* the home blocks
    MaxVersion,   \* bound: transactions
    Workload      \* what is done beside journalled mounts, reads, writes and unmounts

ASSUME MountConstants ==
    /\ Block # {} /\ MaxVersion \in Nat
    /\ Workload \subseteq {"protect", "norecovery", "shutdown", "crash", "error",
                           "nojournal",          \* nojournal mounts of an image whose log is empty
                           "nojournal_dirty",    \* nojournal mounts of any image
                           "nojournal_crash",    \* crashes and shutdowns of nojournal mounts
                           "remount",            \* remounts, but none that needs the marker and lacks it
                           "remount_rw"}         \* remounts of any read-only mount to writable

VARIABLES
    pc,          \* where the mount is, "off" between mounts
    ro,          \* SB_RDONLY
    mode,        \* the journal option of the mount
    wprot,       \* the device is write-protected
    jbd2,        \* the log is loaded (j_jbd2)
    shutdown,    \* s_shutdown; the log is aborted with it
    known,       \* s_needs_recovery of the mounted sbi
    marker,      \* s_needs_recovery on disk
    logmark,     \* s_needs_recovery in the superblock image of the newest transaction in the log
    version,     \* transactions started so far
    dirty,       \* this mount has written
    head, tail,  \* the newest transaction of the log, and the newest one no longer in it
    home,        \* the version of each block on disk
    promised     \* history: the newest version a sync returned for

mountVars == <<ro, mode, wprot, jbd2, shutdown>>
diskVars == <<marker, logmark, head, tail, home>>
vars == <<pc, mountVars, known, diskVars, version, dirty, promised>>

Does(what) == what \in Workload

LogEmpty == tail = head
AllHome(v) == \A b \in Block : home[b] = v
Bare == pc # "off" /\ ~jbd2 /\ dirty     \* changes that no log covers
-----------------------------------------------------------------------------
Init ==
    /\ pc = "off" /\ ro = FALSE /\ mode = "journal" /\ wprot = FALSE
    /\ jbd2 = FALSE /\ shutdown = FALSE
    /\ known = FALSE /\ marker = FALSE /\ logmark = FALSE
    /\ version = 0 /\ dirty = FALSE /\ head = 0 /\ tail = 0
    /\ home = [b \in Block |-> 0] /\ promised = 0

(***************************************************************************)
(* simplefs_fill_super up to simplefs_journal_load: norecovery must be     *)
(* read-only; nojournal and norecovery leave the log alone; a protected    *)
(* device with a pending recovery is refused, a clean one is not loaded.   *)
(***************************************************************************)
MayMount_AnyMarker(r, m) == (wprot \/ m = "norecovery") => r       \* mutant

MayMount_Writable(r, m) == wprot => r /\ (m = "journal" => ~marker) \* mutant

MayMount(r, m) ==
    /\ wprot => r
    /\ m = "norecovery" => r
    /\ m = "journal" /\ wprot => ~marker

Mount(r, m) ==
    /\ pc = "off" /\ MayMount(r, m)
    /\ m = "norecovery" => Does("norecovery")
    /\ m = "nojournal" => Does("nojournal_dirty") \/ (Does("nojournal") /\ LogEmpty)
    /\ ro' = r /\ mode' = m /\ known' = marker
    /\ pc' = IF m = "journal" /\ ~wprot THEN "replay" ELSE "on"
    /\ jbd2' = FALSE /\ shutdown' = FALSE /\ dirty' = FALSE
    /\ UNCHANGED <<wprot, diskVars, version, promised>>

(***************************************************************************)
(* jbd2_journal_load (external): the superblock image of the log carries   *)
(* its own marker home.  The log is reset when every block is home.        *)
(***************************************************************************)
ReplayBlock(b) ==
    /\ pc = "replay" /\ ~LogEmpty /\ home[b] # head
    /\ home' = [home EXCEPT ![b] = head] /\ marker' = logmark
    /\ UNCHANGED <<pc, mountVars, known, logmark, head, tail, version, dirty, promised>>

ReplayDone ==
    /\ pc = "replay" /\ (LogEmpty \/ AllHome(head))
    /\ tail' = head /\ jbd2' = TRUE /\ pc' = "mark"
    /\ UNCHANGED <<ro, mode, wprot, shutdown, known, marker, logmark, head, home, version, dirty, promised>>

(* simplefs_journal_set_needs_recovery: no write when the mount believes it is set already. *)
SetMarker(value) ==
    /\ known' = value
    /\ marker' = IF known = value THEN marker ELSE value

(* The end of simplefs_journal_load. *)
MountMark == SetMarker(~ro)

MountDone ==
    /\ pc = "mark"
    /\ MountMark
    /\ pc' = "on"
    /\ UNCHANGED <<mountVars, logmark, head, tail, home, version, dirty, promised>>

(* The marker cannot be written: the mount fails and the log, which is empty, is released. *)
MountFails ==
    /\ pc = "mark" /\ Does("error") /\ known = ro
    /\ marker' \in {marker, ~ro}
    /\ pc' = "off" /\ jbd2' = FALSE
    /\ UNCHANGED <<ro, mode, wprot, shutdown, known, logmark, head, tail, home, version, dirty, promised>>
-----------------------------------------------------------------------------
(***************************************************************************)
(* A mounted filesystem.  Until it is released JBD2 commits and            *)
(* checkpoints in the background; without a loaded log dirty blocks go     *)
(* straight home, one by one.                                              *)
(***************************************************************************)
Up == pc \in {"on", "sync", "flush", "clean", "destroy"}

Write ==
    /\ pc = "on" /\ ~ro /\ ~shutdown /\ version < MaxVersion
    /\ version' = version + 1 /\ dirty' = TRUE
    /\ UNCHANGED <<pc, mountVars, known, diskVars, promised>>

Commit ==
    /\ Up /\ jbd2 /\ ~shutdown /\ dirty /\ head # version
    /\ head' = version /\ logmark' = marker
    /\ UNCHANGED <<pc, mountVars, known, marker, tail, home, version, dirty, promised>>

CheckpointBlock(b) ==
    /\ Up /\ jbd2 /\ ~shutdown /\ ~LogEmpty /\ home[b] # head
    /\ home' = [home EXCEPT ![b] = head]
    /\ UNCHANGED <<pc, mountVars, known, marker, logmark, head, tail, version, dirty, promised>>

CheckpointDone ==
    /\ Up /\ jbd2 /\ ~shutdown /\ ~LogEmpty /\ AllHome(head)
    /\ tail' = head
    /\ UNCHANGED <<pc, mountVars, known, marker, logmark, head, home, version, dirty, promised>>

WriteHome(b) ==
    /\ Up /\ Bare /\ ~shutdown /\ home[b] # version
    /\ home' = [home EXCEPT ![b] = version]
    /\ UNCHANGED <<pc, mountVars, known, marker, logmark, head, tail, version, dirty, promised>>

(* Everything written is in the log, or home when there is no log. *)
Settled == dirty => IF jbd2 THEN head = version ELSE AllHome(version)

(* simplefs_sync_fs and the fsyncs: simplefs_journal_force_commit, or the write-back of every block. *)
SyncReturns ==
    /\ pc = "on" /\ ~ro /\ ~shutdown /\ dirty /\ Settled
    /\ promised' = version
    /\ UNCHANGED <<pc, mountVars, known, diskVars, version, dirty>>

(* simplefs_shutdown_sb, the shutdown ioctl, and a failed write-back. *)
Shutdown ==
    /\ Does("shutdown") /\ pc = "on" /\ ~shutdown /\ (Bare => Does("nojournal_crash"))
    /\ shutdown' = TRUE
    /\ UNCHANGED <<pc, ro, mode, wprot, jbd2, known, diskVars, version, dirty, promised>>

(* The VFS remounts without asking: there is no reconfigure operation, and so none that syncs. *)
Remount ==
    /\ Does("remount") /\ pc = "on" /\ ~shutdown
    /\ ro => ~wprot /\ (Does("remount_rw") \/ mode = "nojournal" \/ (mode = "journal" /\ marker))
    /\ ro' = ~ro
    /\ UNCHANGED <<pc, mode, wprot, jbd2, shutdown, known, diskVars, version, dirty, promised>>
-----------------------------------------------------------------------------
(***************************************************************************)
(* simplefs_put_super: sync, checkpoint, then clear the marker, each only  *)
(* when the one before succeeded, and none on a read-only, norecovery or   *)
(* shut down mount; the log is released in any case.                       *)
(***************************************************************************)
Goes(from, to) == pc = from /\ pc' = to

Umount ==
    /\ Goes("on", IF ~ro /\ ~shutdown /\ mode # "norecovery" THEN "sync" ELSE "destroy")
    /\ UNCHANGED <<mountVars, known, diskVars, version, dirty, promised>>

UmountSync ==
    /\ Goes("sync", "flush") /\ Settled
    /\ UNCHANGED <<mountVars, known, diskVars, version, dirty, promised>>

(* simplefs_journal_checkpoint *)
Flushed_Never == TRUE                                              \* mutant

Flushed == jbd2 => LogEmpty

UmountFlush ==
    /\ Goes("flush", "clean") /\ Flushed
    /\ UNCHANGED <<mountVars, known, diskVars, version, dirty, promised>>

UmountClean ==
    /\ Goes("clean", "destroy") /\ SetMarker(FALSE)
    /\ UNCHANGED <<mountVars, logmark, head, tail, home, version, dirty, promised>>

(* An error on the way keeps the marker; that of the marker itself may come after the write. *)
UmountFails ==
    /\ Does("error") /\ pc \in {"sync", "flush", "clean"} /\ pc' = "destroy"
    /\ IF pc = "clean" THEN marker' \in {marker, FALSE} ELSE UNCHANGED marker
    /\ UNCHANGED <<mountVars, known, logmark, head, tail, home, version, dirty, promised>>

(***************************************************************************)
(* simplefs_journal_destroy: JBD2 commits and checkpoints what is left,    *)
(* unless the log is aborted or it fails; without a log the block device   *)
(* is synced as it closes.  A shut down mount drops what it had.           *)
(***************************************************************************)
Release ==
    /\ Goes("destroy", "off")
    /\ \/ shutdown
       \/ Settled /\ Flushed
       \/ Does("error") /\ jbd2
    /\ jbd2' = FALSE /\ dirty' = FALSE
    /\ UNCHANGED <<ro, mode, wprot, shutdown, known, diskVars, version, promised>>

(* Power is lost; the same is left by a simplefs_fill_super that fails after the journal is loaded. *)
Crash ==
    /\ Does("crash") /\ pc # "off" /\ (Bare => Does("nojournal_crash"))
    /\ pc' = "off" /\ jbd2' = FALSE /\ dirty' = FALSE
    /\ UNCHANGED <<ro, mode, wprot, shutdown, known, diskVars, version, promised>>

(* blockdev --setro and --setrw between mounts. *)
Protect ==
    /\ Does("protect") /\ pc = "off"
    /\ wprot' = ~wprot
    /\ UNCHANGED <<pc, ro, mode, jbd2, shutdown, known, diskVars, version, dirty, promised>>

Next ==
    \/ \E r \in BOOLEAN, m \in {"journal", "nojournal", "norecovery"} : Mount(r, m)
    \/ \E b \in Block : ReplayBlock(b) \/ CheckpointBlock(b) \/ WriteHome(b)
    \/ ReplayDone \/ MountDone \/ MountFails
    \/ Write \/ Commit \/ CheckpointDone \/ SyncReturns \/ Shutdown \/ Remount
    \/ Umount \/ UmountSync \/ UmountFlush \/ UmountClean \/ UmountFails \/ Release
    \/ Crash \/ Protect

Spec == Init /\ [][Next]_vars
-----------------------------------------------------------------------------
Whole == \A b, c \in Block : home[b] = home[c]

(* The workloads the guarantees are stated for. *)
Careful == {"nojournal_dirty", "nojournal_crash", "remount_rw"} \cap Workload = {}

(***************************************************************************)
(* The marker tells the truth: an image that is not marked has nothing in  *)
(* its log and all its blocks of one transaction, so a protected device    *)
(* can be mounted from it without a replay.                                *)
(***************************************************************************)
CleanMeansWhole == pc = "off" /\ ~marker => LogEmpty /\ Whole

(***************************************************************************)
(* What a journalled mount shows before it writes is the state after one   *)
(* transaction, not older than any a sync returned for, whatever happened  *)
(* between: forced shutdowns, crashes in the replay or in put_super, a     *)
(* protected device, a nojournal mount.                                    *)
(***************************************************************************)
MountShowsPromised ==
    pc = "on" /\ mode = "journal" /\ ~dirty =>
        Whole /\ \A b \in Block : home[b] >= promised

(* A replay or a checkpoint never writes an older transaction over a newer one. *)
HomeNeverOlder == [][\A b \in Block : home'[b] >= home[b]]_vars

(***************************************************************************)
(* The inductive invariant behind them.  A log that is not empty is marked *)
(* on disk and in its own superblock image, has not been overtaken by the  *)
(* home blocks, and holds all that was promised; an empty one leaves the   *)
(* blocks whole, unless a mount without log is writing them.               *)
(***************************************************************************)
MountTypeOK ==
    /\ pc \in {"off", "replay", "mark", "on", "sync", "flush", "clean", "destroy"}
    /\ mode \in {"journal", "nojournal", "norecovery"}
    /\ ro \in BOOLEAN /\ wprot \in BOOLEAN /\ jbd2 \in BOOLEAN /\ shutdown \in BOOLEAN
    /\ known \in BOOLEAN /\ marker \in BOOLEAN /\ logmark \in BOOLEAN /\ dirty \in BOOLEAN
    /\ version \in Nat /\ head \in Nat /\ tail \in Nat /\ promised \in Nat
    /\ home \in [Block -> Nat]

(* Which mounts have a log, and which may write without one. *)
PhaseInv ==
    /\ pc \in {"off", "replay"} => ~jbd2
    /\ pc \in {"off", "replay", "mark"} => ~dirty
    /\ pc \in {"replay", "mark"} => known = marker /\ mode = "journal"
    /\ jbd2 => mode = "journal"
    /\ pc = "mark" => LogEmpty /\ jbd2
    /\ pc # "off" /\ mode = "nojournal" => LogEmpty
    /\ Up /\ mode = "journal" /\ ~jbd2 => wprot
    /\ Up /\ wprot => ro
    /\ Up /\ mode = "norecovery" => ro
    /\ pc \in {"replay", "mark"} => ~wprot
    /\ pc \in {"sync", "flush", "clean"} => ~ro

LogInv ==
    /\ tail <= head /\ head <= version /\ promised <= version
    /\ \A b \in Block : tail <= home[b] /\ home[b] <= version
    /\ ~LogEmpty => marker /\ logmark /\ promised <= head /\ \A b \in Block : home[b] <= head
    /\ LogEmpty /\ ~Bare => Whole /\ \A b \in Block : home[b] >= promised
    /\ Bare => LogEmpty /\ ~shutdown

MarkerInv ==
    /\ pc = "on" /\ jbd2 /\ ~ro => marker
    /\ jbd2 /\ dirty /\ head # version => marker
    /\ pc \in {"flush", "clean"} => Settled
    /\ pc = "clean" => Flushed
    /\ pc = "on" /\ mode = "journal" /\ ~dirty => LogEmpty

MountInv == MountTypeOK /\ PhaseInv /\ LogInv /\ MarkerInv
=============================================================================
