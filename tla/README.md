# A verification of SimpleFS

SimpleFS (`src/simplefs/`) is a Linux filesystem: file data through iomap and
folios, metadata through a JBD2 journal, files as extent trees, free space as
bitmaps. This directory holds TLA+ models of its allocator, of block ownership
across crashes, of its journal handles, of a file under concurrent I/O, of names
and inodes, and of what lasts from one mount to the next, with TLC runs and TLAPS
proofs. Every definition is translated from the C code; `PROJECT.json` gives the
lines.

SimpleFS is about a tenth of the repository's code. The rest (virtual machine
scripts, kernel module samples, example programs of the notes) is independent
programs that share no state with the filesystem or with each other; none is
modelled, so the mapped share of the whole repository is small.

## The system

| Part | State | Operations | How it meets the others |
|---|---|---|---|
| allocator, `simplefs_bitmap.h` | block and inode bitmaps, two counts, pending discards | get, take exactly, put, persist | inside a journal handle, under `bitmap_lock`; asks JBD2 whether a block may be reused |
| metadata blocks, `simplefs_metabuf.c` | the device's page cache | read, zero, retire | retiring revokes in the journal, then frees |
| journal adapter, `simplefs_journal.c` | handle mutex and owner, `s_shutdown`, recovery marker | load, start, stop, fail, dirty, revoke, force commit, checkpoint, shutdown, destroy | one handle at a time in the whole filesystem; the commit thread waits for it |
| JBD2 (external) | running and committing transaction, log | commit, checkpoint, abort, replay | used through the adapter |
| super block, `simplefs_super.c` | mount state | mount, evict, write inode, sync, unmount, discard pass, NFS export | replays, then reloads the bitmaps |
| extent tree, `simplefs_extent.c` | root and leaf blocks | load, find, insert, normalise, write back | allocates and retires leaves |
| data path, `simplefs_file.c` | page cache, bios, ioend work, preallocation | map, write back, convert, fallocate, punch, collapse, insert, zero, FITRIM, shutdown, fsync | allocates in one handle, publishes in another, under `extent_lock` |
| directories, `simplefs_dir_index.c` | hash index, entry blocks | get, find, free slot, set, trim, emit | inside the operation's handle |
| namespace, `simplefs_inode.c` | inodes | create, mknod, mkdir, symlink, link, unlink, rmdir, rename, tmpfile, truncate | one handle per operation |
| xattr, ACL, mkfs | | | |

What makes it hard: an operation is many journalled writes in one handle and any
of them can fail; tasks, the commit thread, bio completions, ioend workers,
checkpointing and the unmount interleave; a block is freed in memory before the
free is durable; a metadata block that is freed still has images in the log; a
mapping is used after the lock that protects it is dropped; an inode number is
reused; discards destroy data and must wait for the commit; a crash may fall
between any two steps, those of a recovery included; a flag (`s_shutdown`) stops
operations half way.

## The modules

Space and journal:

* **SimplefsBitmapOps** says what the bitmap scans compute, as set expressions:
  a bitmap is the set of its one bits.
* **SimplefsScan** has the four loops themselves (first fit, the retry around held
  blocks, the pending-discard pass, FITRIM) with the masks of `round_up` and
  `round_down`, as recursive operators, checked against SimplefsBitmapOps. Its
  state is the input; every input is an initial state or one step from it.
* **SimplefsBitmap** is the allocator of a mounted filesystem. Each operation runs
  inside a handle and under `bitmap_lock`, so each is one action. Its callers are
  arbitrary: `PutBlocks(b, len)` is tried with every argument and the refusals of
  `__simplefs_put_blocks` decide. `s_journal` tells the journalled from the
  nojournal mount; `journal_held` is the set of blocks for which
  `simplefs_journal_prepare_new_blocks` says `-EAGAIN`; `discarded` records the
  discard requests of the last step.
* **SimplefsSpace** extends it with the owners of the blocks (`metas`, `unwritten`,
  `written` of each inode), what the holder of `extent_lock` has in hand (`op`),
  bios and ioend work (`io`, `converting`), JBD2 (`txn`, `committing`, `durable`,
  `log`), the contents of the device (`disk`, as a tag: whose data or metadata)
  and what fsync has promised (`synced`). What one handle does is one step,
  because handles are serialised and a commit waits for the open one; an operation
  with two handles (allocate then publish, unpublish then free) is two steps, and
  the commit, a crash and the other files come in between. `Workload` selects the
  operations of a run.
* **SimplefsHandle** opens the handle up. A task makes one call. An operation is a
  script of helper calls, one line per helper the C function calls in that order:
  what it writes, what happens when the helper finds the filesystem shut down, and
  what happens on another error (return, undo the new inode, fail the journal,
  carry on, or leave without stopping the handle). `s_shutdown` and the JBD2 abort
  are separate flags, as in the code. The shutdown ioctl, both fsyncs, the commit
  thread, data write errors and the unmount are actions. A handle is `cut` when
  its operation met the shutdown flag in a journal that was not aborted, or
  ignored an error. An error of `simplefs_dir_set` before it touches the block
  (memory, hash table, folio) is returned without failing the journal; in rename,
  after the target is gone, that leaves two of the handles `HalfDone` describes.
* **SimplefsAtomic** is what the journal promises: operations take effect whole and
  one at a time, and a recovery restores a prefix of them.
  `SimplefsHandle!OperationsAtomic` is the refinement: `done` is the durable,
  flushing and stopped handles in order, `ndurable` the number of durable ones. A
  handle that is neither whole nor one of the exceptions of `CommitWhole` would be
  an operation of nobody, which SimplefsAtomic has not.
* **SimplefsMount** follows an image through mounts of every kind, replays block by
  block, remounts, shutdowns, the steps of `put_super` and crashes. A transaction
  is its number; `home` gives each block the number it has on disk, the log holds
  `tail + 1 .. head`. `marker` is `s_needs_recovery` on disk, `logmark` its image in
  the log, `known` the copy of the mounted superblock, which decides whether the
  disk is written at all.

Files and names:

* **SimplefsExtents** has the extent array and what the code does to it: find, the
  growth and first-fit paths of `simplefs_get_block`, insert, split, convert, mark
  unwritten, punch, collapse, insert range, zero range, and the sort-and-join of
  `simplefs_file_normalize_extents`. It has no state; `ZeroWalk` is recursive
  because each block of a zero range may allocate.
* **SimplefsFile** runs them on one live file: extents, free blocks, block
  contents, the page cache, writes in flight, `i_size`, the preallocation record,
  and threads in write, mapped store, direct write, truncate, the five modes of
  fallocate, close and read. A step is what happens under one hold of
  `extent_lock` or between two waits, so writeback, its completion and (with the
  fault `reclaim`) the loss of clean pages come in between; `i_rwsem` and
  `invalidate_lock` are guards. The contents of a free block are `Stale`.
* **SimplefsPosixFile** is what a user of the file is promised: the content as a
  sequence, and which parts of it a call in progress may change. It knows neither
  blocks nor pages. `SimplefsFile!ContentKept` is the refinement; content is what
  a read would see now, so writeback, conversion, reclaim and the return of
  preallocated blocks have to be invisible.
* **SimplefsNamespace** has the inode cache, the inode table as the journal has it,
  the inode bitmap, the directories with the cached index (`nr_files`,
  `next_free`), a readdir in progress and an NFS client. An operation holds the
  VFS locks and one handle throughout, so it is one step with its error returns;
  eviction, readdir and the resolution of a handle are separate steps. The
  conditions the VFS checks first are in the guards. `stray` counts the links a
  whiteout leaves behind (see Disagreements).
* **MCNamespace** has the scenarios of the namespace runs.

The theorems are in **SimplefsBitmapProofs**, **SimplefsSpaceTheorems** (over
**SimplefsSpaceProofs**, owners and log, and **SimplefsDataProofs**, contents),
**SimplefsMountProofs** and **SimplefsAtomicProofs** (over **SimplefsHandleProofs**). Names ending in `_Something` next to a definition are mutated forms of
it: a plausible bug that the property named in `PROJECT.json` catches.

How the models meet: SimplefsBitmap is part of SimplefsSpace, by EXTENDS. The others
share assumptions. SimplefsHandle shows that a handle is atomic for the commit
thread, which SimplefsSpace and SimplefsNamespace take for granted;
SimplefsSpace treats a tree as a set of blocks, and SimplefsFile gives that set its
offsets; `MountShowsPromised` says that the durable state SimplefsSpace restores in
its crash step is what a mount after any number of crashes shows.

## The runs

| Run | Module | Checks | Distinct states |
|---|---|---|---|
| scan | SimplefsScan | `FirstFitCorrect`, `RetryFindsFirstUnheld`, `PendingPassCorrect`, `TrimPassCorrect` | every input of 7 bits |
| bitmap | SimplefsBitmap | `CountsMatchBitmaps`, `PendingDiscardSparesLive`, `HeldStayFree` | 20 thousand |
| space_crash | SimplefsSpace | types, `SingleOwner`, `ReplayHitsOwner`, `CheckpointHitsOwner` | 390 thousand |
| space_data | SimplefsSpace | `NothingLost`, `BioHitsOwner`, `OwnDataOnly` | 33 thousand |
| space_sync | SimplefsSpace | `SingleOwner`, `SyncedSurvives`, `OnlineDiscardSparesDurable` | 334 thousand |
| handle | SimplefsHandle | types, `CommitWhole`, `FsyncCommits`, `CleanMeansDurable`, `OperationsAtomic`, `CallsReturn`, `UmountCompletes` | 339 thousand |
| handle_rename | SimplefsHandle | `NothingHalfCommitted` fails | |
| file_blocks | SimplefsFile | `ExtentsSound`, `BlocksAccounted`, `LateBioOnlyInPunch`, `ReservationHoldsNoData`, `ContentKept` | 356 thousand |
| file_cells | SimplefsFile | `ContentKept` | 255 thousand |
| namespace | MCNamespace | `LinkCountsRight`, `TreeConnected`, `DirIndexSound`, `LiveNumbersTaken`, `ReaddirComplete`, `HandleMeansFile`, `FailedCallKeepsNames` | 195 thousand |
| mount | SimplefsMount | `CleanMeansWhole`, `MountShowsPromised`, `HomeNeverOlder` | 253 thousand |
| namespace_nfs | MCNamespace | `LiveNumbersTaken` fails | |

**Bounds.**

* Scan: 7 bits hold two runs with a gap, both ends of the device and three whole
  units of two blocks with a partial one.
* Bitmap: 6 blocks, of which 0 and 1 are reserved, 2 to 4 are data and 5 is the
  journal; runs up to 3; granularity 2, so a unit straddles the boundary of the
  data area.
* Space: two files and three data blocks (four in
  space_data): enough for a block to leave one file, be reused by the other and
  come back by a crash, while a third block is in the log.
  Hole punching, whose late bio breaks what space_data and space_sync check, is in no
  passing run; `AlwaysSingleOwner` is proved with it, and file_blocks has it with
  offsets.
* Handle: two tasks besides the commit thread and the unmount; the handle mutex
  admits one operation at a time, so a third task adds only another position in
  its queue.
* File: one thread against the kernel's writeback and completions, one page in
  flight. file_blocks has three logical and two physical blocks of one cell, so an
  extent can be split, a middle punched and the disk filled; file_cells two
  logical and one physical block of two cells, so every call can begin and end
  inside a block, and ENOSPC is always near. `MaxExtentLen` is 2, so that lengths
  meet their limit. Two threads are explored under Disagreements.
* Namespace: two names, one entry a block, directories of two blocks, so every
  second name grows a directory and a third finds it full. A behaviour follows one
  of four scenarios, which between them have every call and fault; three inodes
  below the root where trees are moved about, two where there are readers, openers,
  NFS handles and crashes. The two names are symmetric.
* Mount: three blocks, five transactions, any number of mounts and crashes.

`MaxLen`, `MaxInflight`, `MaxStray`, `MaxVersion` and the sizes are the only bounds.

**Deadlock** is not checked in the space, file and namespace runs: a full disk, or
a shut down filesystem without a crash in the workload, really stops. It is
checked in scan, bitmap, handle and mount.

**Fairness.** Only handle has liveness properties. The unmount waits for every task, so
`UmountCompletes` includes `CallsReturn`; the latter tells a hanging call from a
hanging unmount. Weak fairness of each task's
step, of the commit thread and of the unmount: the kernel schedules runnable
tasks, and kjournald is woken by the commit interval. Faults, write errors and
crashes have none. A lock is fair enough because each task makes one call.

## What is proved

With TLAPS, for every value of the constants.

**SimplefsBitmap.** `AllocatorSafe`: `AllocatorSpec => []BitmapInv`. `BitmapInv` joins
the types, the counts, the reserved blocks and what the bitmap run checks, and is
inductive: the counts need the freed run to be disjoint from the bitmap (the
double-free test), the discard safety needs pending blocks to be free, which needs
both allocators to cancel pending discards. From it `AllocatorTypeCorrect`,
`CountsAlwaysMatch`, `OnlineDiscardSafe` and `HeldNeverHandedOut`. The lemmas below it
say what `Least`, `FirstRun` and `AllocStart` return, how the weight of a bitmap
changes, and that rounding inward to units spares the neighbours.

**SimplefsSpace.**

* `AlwaysSingleOwner`. `SingleOwner` is about three images (memory, committing,
  durable) and is not inductive: a block an operation holds between its two handles
  is in no image, and could be given away. `ClaimsInv` therefore adds `op[f].blocks`
  to what an inode claims, and `OwnerInv` asks of the committing and durable images
  that a mount could start from them. `LocalStep` reduces a step of one inode to its
  own claims and the free bitmap; there is a lemma per action. The crash step is
  where the durable image becomes the memory.
* `ReplayIsSafe`, `CheckpointIsSafe`. `ReplayHitsOwner` is about the durable tree,
  which the commit under way replaces. `LogInv` ties each image in the log to the
  tree of that commit and to the tree in memory too, up to the blocks that the
  running and the committing transaction revoke.
* `ComposedAllocatorSafe`, `SpaceTypes`: the allocator keeps its promises among the
  callers it has. Arbitrary callers are more than SimplefsSpace has, except that an
  eviction cut short by a journal error leaves revoked blocks in use; `AllocInv`
  asks for `HeldStayFree` only until the shutdown.
* `OnlineDiscardIsSafe`: no online discard reaches a block a recovery needs.
* `BiosHitTheirOwner` (if `BiosDrained`: no punch), `FsyncSurvivesCrashes` (the same),
  `ReadsFindOwnData` (if `ZeroedFirst`: no punch, no failing zeroout, no crash) and
  `NothingIsLost` (if `NothingFails`: no failing tree update, no crash). Each
  condition is a set of names left out of `Workload`. Dropping one makes the
  statement false, as the table of disagreements shows, except the crash in
  `NothingFails`: blocks that an operation had in hand, in a committed handle, are
  simply not found again.

**SimplefsHandle.** `HandleInv` is inductive. `LockInv` says who holds the mutex and
the handle, by where each task is. `LogInv` says that every stopped handle is
`Settled` (whole, cut, or one of the three of `HalfDone`) until the journal aborts, and
what the open one has written, by its position in the script; without that nothing
could be said when it stops. `ScriptsAreSound`, `RenameHalves` and `RmdirHalf` are what
it needs of the scripts: a helper that may simply return has no write before it, but
for two places in rename and one in rmdir. `PromiseInv` says that what returned 0 is in
the journal, and durable where that was promised. From it:
`HandleTypes`, `CommittedOperationsAreWhole`, `FsyncIsDurable`, `CleanMarkerIsHonest`, and
the refinement `HandlesAreAtomic`: `Spec => OperationsAtomic`, where a stop appends to
`done`, a commit or the unmount moves `ndurable`, an abort cuts `done` down to it, and
every other step stutters. For any number of tasks, any calls and any faults.

**SimplefsMount.** `MountInvariant`: `Spec => []MountInv`, and from it
`MarkerIsTruthful`, `MountKeepsPromises` and the action property
`ReplayNeverGoesBack`. `CleanMeansWhole` speaks of unmounted images only; what
carries it through a mount is `LogInv` (a log that is not empty is marked on disk
and in its own superblock image, and no home block is newer than its head) and
`MarkerInv` (a journalled mount that writes has set the marker, and `put_super`
clears it only after everything is settled and the log is empty). `PhaseInv` says
which mounts have a log and which may write.

**Assumptions.** On the constants: `LayoutAssumption` (reserved blocks, data area,
journal, in this order), `ModeAssumption`, `WorkloadAssumption`, `HandleAssumption`
(tasks are numbers other than the two reserved ones, calls and faults are known
ones) and `MountConstants`; TLC evaluates them in the runs. On the workload: those
named above, and `Careful` for the mount theorems (no nojournal mount of an image with
a log, no crash of a nojournal mount that writes, no remount to writable without the
marker). The code allows what they leave
out, and it breaks the statements.

**Only model-checked**, and why:

* `CallsReturn`, `UmountCompletes`: liveness under fairness.
* `FirstFitCorrect`, `RetryFindsFirstUnheld`, `PendingPassCorrect`, `TrimPassCorrect`:
  what a recursive loop computes needs an induction over data.
* `ExtentsSound`, `BlocksAccounted`, `LateBioOnlyInPunch`, `ReservationHoldsNoData` and
  the refinement `ContentKept`: SimplefsFile rests on the recursive operators of
  SimplefsExtents (sort and join, the zero walk).
* The properties of SimplefsNamespace: eviction, readdir and the three renames make
  an inductive invariant of its own size, which is not proved here.

## Disagreements

Two runs show places where the code does not do what its documents say;
`PROJECT.json` quotes the lines.

handle_rename: a rename over an existing target removes the target's entry, then
writes the new one. If `simplefs_dir_set` finds no memory or cannot read the block,
`simplefs_rename` returns the error, but `simplefs_journal_abort` only traces: the
handle stops and the removal commits (`simplefs_inode.c:890`; at line 902 both names
commit). `CommitWhole` and `OperationsAtomic` make an exception of exactly these two
sets of writes, and of the one of rmdir below.

namespace_nfs: `nfs_get_inode` tests the inode bitmap, then reads the inode; when it is
evicted in between, a nameless inode is built from the cleared slot, and its own
eviction erases the file that got the number next. The passing run keeps that eviction out of the window.

The models show others, each with the constants below. The passing runs leave these
cases out by their `Workload`, `Faults` and `Thread`, or by an exception that the
property states, and say what holds without them.

SimplefsScan and SimplefsSpace (two files, three data blocks, `MaxLen = 1`, no
journal errors, no discard); `SingleOwner` holds with all of them:

| Property | Constants | What happens |
|---|---|---|
| `NeverPartialUnit` | `Grans = {3}` | `simplefs_super.c:774` rounds with a mask; the comment above says "Never send a partial edge unit" |
| `OwnDataOnly` | create, buffered, truncate, write, fsync, crash | truncate frees data blocks before the shorter tree is durable (`simplefs_inode.c:1562`), against `docs/reference/architecture.md:75` |
| `OwnDataOnly` | create, buffered, truncate, write, zeroout_error | the first-fit path ignores a zeroout error (`simplefs_file.c:747`), against the comment at line 735 |
| `DurableTreeReadable` | create, evict, buffered, kjournald | a retired block without a journal head is reused once the commit that frees it has started (`simplefs_journal.c:491`) |
| `BioHitsOwner` | create, buffered, write, punch | `punch_hole` dirties the edge pages after its wait (`simplefs_file.c:1684`), against the comment at line 1672 |
| `DiscardSparesDurable` | create, evict, fsync, trim | FITRIM discards blocks whose free has not committed (`simplefs_file.c:2542`), against `docs/tutorial/08-consistency.md:76` |
| `NothingLost` | create, buffered, fail | in-place growth keeps its blocks when the tree cannot be written (`simplefs_file.c:705`), against `docs/development/debugging.md:76` |

SimplefsHandle:

| Property | Constants | What happens |
|---|---|---|
| `FsyncDurable` | two tasks; link, fsync; log | after an abort a forced commit has nothing to do and returns 0 (`simplefs_journal.c:618`) |
| `NothingHalfCommitted` | one task; rename; ioend | a data write error sets `s_shutdown` without aborting, and what the rename did so far commits (`simplefs_file.c:1147`), against `docs/tutorial/08-consistency.md:5` |
| `NothingHalfCommitted` | two tasks; create, metasync | LOGFLUSH sets the flag, then commits what the flag stopped (`simplefs_file.c:2493`) |
| `NothingHalfCommitted` | one task; link; error | `simplefs_link` ignores a failed inode write (`simplefs_inode.c:1622`) |
| `NothingHalfCommitted` | one task; rmdir; error | rmdir returns the error of the parent's inode write without failing the journal, and the entry is gone with the parent's link count unchanged (`simplefs_inode.c:296`) |
| `UmountCompletes` | two tasks; unlink, evict; load | eviction that cannot load the tree leaves its handle open (`simplefs_super.c:390`) |

SimplefsFile (`WritePrealloc` and `MaxExtentLen` 2, `MaxInflight` 1; L, P and C are
`NrLogical`, `NrPhysical` and `BlockCells`):

| Property | Constants | What happens |
|---|---|---|
| `ReservationHoldsNoData` | two threads; write, store, truncate; L = P = 3, C = 1 | between a store's allocation and its marking of the tail, a write puts data there; the tail is then marked unwritten and recorded (`simplefs_file.c:1034`), against the comment at line 237 |
| `ContentKept` | the same, with release | close then punches that data |
| `ContentKept` | write, falloc; reclaim; L = P = C = 2 | a page written back and reclaimed after `write_iomap_begin` returned an unwritten mapping is filled with zeros (`simplefs_file.c:1021`) |
| `ContentKept` | write, zero; L = P = C = 2 | an extending zero range dirties the old tail page after its drain (`simplefs_file.c:2276`), against the comment at line 2261 |
| `ContentKept` | write, falloc; convert; L = P = 2, C = 1 | a conversion that fails with ENOSPC leaves written data under an unwritten extent, and it reads as zeros once the page is gone; the comment at `simplefs_file.c:1142` says no data is lost |
| all `BioHitsMapped(l)` | write, punch; L = P = C = 2 | the edge pages of a punch again, now with offsets |
| `lost = {}` | write with `WritePrealloc` 1, or write and zero; sync; L = P = 3, C = 1 | blocks neither mapped nor free after a failed update (`simplefs_file.c:705`, and the walk from line 437) |

SimplefsNamespace and SimplefsMount:

| Property | Constants | What happens |
|---|---|---|
| `FailedCallKeepsNames` | `Scenarios <- MCLate` | the names after handle_rename: a rename that finds no memory for its new entry has already removed the one it replaces (`simplefs_inode.c:868`), against `docs/tutorial/05-directory.md:61` |
| every `stray[i] = 0` | create, mkdir and whiteout, `MaxDirBlocks = 3` | a whiteout that replaces an empty directory by one of the same parent leaves the parent's link count one too high (`simplefs_inode.c:1166`) |
| `CleanMeansWhole` | with remount_rw | a read-only mount remounted writable writes under a clean marker, against the comment at `simplefs.h:132` |
| `CleanMeansWhole` | with nojournal_dirty, or nojournal_crash | a nojournal mount ignores the log and the marker (`simplefs_journal.c:114`) |

## Abstractions

* In SimplefsSpace a tree is the set of its blocks; a rewrite dirties any nonempty
  subset of the inode's metadata blocks. Offsets are in SimplefsFile, where in turn
  the tree is its array: leaves appear only as the fault `sync`.
* In SimplefsSpace the search for a long run that halves its length is a choice of
  length; SimplefsExtents has it as it is.
* A JBD2 commit in SimplefsSpace takes the image when it closes the transaction and
  makes it durable in a second step; the log keeps one image per block, its latest.
* A block's `journal_held` lifetime in SimplefsBitmap ends at the next forced commit;
  SimplefsSpace refines it with the revoked flag and the journal head.
* fsync in SimplefsSpace is one step: it holds the handle mutex across the commit and
  the discard pass. Its waiting is in SimplefsHandle.
* In SimplefsHandle the growth of a directory is not one of an operation's writes: it
  is sound on its own and stays when the operation is undone. rename is the one over
  an existing target in another directory; exchange and whiteout, which use the same
  helpers and return errors the same way, are not scripts. mkdir is create, and
  symlink is mknod but for the block of a long target.
* In SimplefsHandle an fsync's inode may be dirty or clean; only a dirty one makes
  the fsync fail on a shut down filesystem.
* In SimplefsFile every write stores the same value, so an overwrite shows only
  against zeros and stale contents. Writeback allocates and marks the preallocated
  tail in one step; the gap between the two is in the write and store steps. A direct write is waited for; its fallback to a
  buffered write is left out, and so are calls the code refuses at once.
* In SimplefsNamespace a name is a model value, so the hash chains of the index are a
  lookup; symlinks and special files are files; the two generations a number can
  have stand for random ones that differ.
* In SimplefsMount a transaction writes every block, and a checkpoint takes the
  newest version of each.
* A device write is atomic per block and a write barrier is honoured.

## Not modelled

* The journal credits of a handle: 64 per handle against the blocks an operation
  touches needs sizes far beyond TLC's reach.
* The layout and validation of extent leaves, and the nojournal rewrite of a tree of
  several leaves or retirement of a block.
* xattr packing, and the choice between rewriting the xattr block and a new one;
  its block is a metadata block of SimplefsSpace.
* statfs, ACL conversion, ioctls for labels and flags, FIEMAP and SEEK_HOLE,
  tracing and statistics: no state of their own, or state no property tells apart.
* mkfs: the image it makes is the initial state. The offline rebuild of a damaged
  bitmap (`simplefs_rebuild_block_bitmap`).
* A composition of SimplefsFile, SimplefsNamespace and SimplefsHandle in one model:
  each has a few hundred thousand states alone.
* The other programs of the repository.
