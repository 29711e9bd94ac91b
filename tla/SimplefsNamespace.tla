------------------------- MODULE SimplefsNamespace -------------------------
(***************************************************************************)
(* Names and inodes: the directory index, the namespace operations, the    *)
(* life of an inode number from allocation to eviction, readdir and NFS    *)
(* file handles.                                                           *)
(*                                                                         *)
(* An operation holds the VFS locks of its directories and one journal     *)
(* handle from start to stop, so it is one step; the eviction that follows *)
(* the last reference, a readdir and the resolution of a file handle are   *)
(* not covered by them.  The conditions the VFS checks before it calls the *)
(* filesystem are in the guards.                                           *)
(***************************************************************************)
EXTENDS SimplefsBitmapOps, Sequences, TLC

CONSTANTS
    Name,          \* names a directory entry can have
    NrInodes,      \* inode numbers 1 .. NrInodes - 1, of which 1 is the root
    FilesPerBlock, \* SIMPLEFS_FILES_PER_BLOCK
    MaxDirBlocks,  \* blocks a directory can have before the device is full
    MaxStray,      \* bound: stray links of a directory
    Scenarios      \* a behaviour is one of these: the calls made, the faults met, the numbers free

Calls == {"create", "mkdir", "tmpfile", "link", "unlink", "rmdir", "rename", "exchange", "whiteout",
          "open", "readdir", "reclaim", "crash", "nfs", "nfs_race"}

(* nospace: no block; start: the journal refuses a handle; nomem: no memory for a name;
   nomem_late: the same, when the entry that is replaced is gone already. *)
FaultKinds == {"nospace", "start", "nomem", "nomem_late"}

ASSUME NamespaceConstants ==
    /\ NrInodes \in Nat /\ NrInodes > 2
    /\ FilesPerBlock \in Nat \ {0} /\ MaxDirBlocks \in Nat \ {0} /\ MaxStray \in Nat
    /\ \A x \in Scenarios : x.calls \subseteq Calls /\ x.faults \subseteq FaultKinds
                             /\ x.numbers \subseteq 2 .. (NrInodes - 1)

VARIABLES
    load,       \* the scenario
    ifree,      \* ifree_bitmap
    inode,      \* the VFS inode cache
    record,     \* the inode table as the journal has it
    dying,      \* inodes whose last reference is gone and whose eviction waits for a handle
    dir,        \* the entries of each directory and its index
    scan,       \* a readdir in progress
    client,     \* an NFS client
    result,     \* of the last call
    stray       \* history: links a directory keeps after a whiteout replaced a subdirectory

vars == <<load, ifree, inode, record, dying, dir, scan, client, result, stray>>
-----------------------------------------------------------------------------
Root == 1
Number == Root .. (NrInodes - 1)

Inode(mode, nlink, gen, parent) ==
    [mode |-> mode, nlink |-> nlink, gen |-> gen, parent |-> parent, open |-> FALSE]
NoInode == Inode("none", 0, 0, 0)
Ghost == Inode("cleared", 0, 0, 0)      \* what simplefs_iget makes of a cleared slot

Entry(name, ino) == [name |-> name, ino |-> ino]
NoEntry == Entry("", 0)
EmptyDir == [slots |-> << >>, nr_files |-> 0, next_free |-> 1]

NoScan == [dir |-> 0, pos |-> 1, watch |-> NoEntry, seen |-> 0]
NoClient == [pc |-> "idle", ino |-> 0, gen |-> 0]

Makes(call) == call \in load.calls
Meets(fault) == fault \in load.faults

IsDir(i) == inode[i].mode = "dir"
Live(i) == inode[i].mode \in {"dir", "file", "tmp"}
Linked(i) == Live(i) /\ inode[i].nlink > 0
Dirs == {i \in Number : IsDir(i) /\ Linked(i)}
-----------------------------------------------------------------------------
(***************************************************************************)
(* The directory index.  Slots never move; next_free is a lower bound of   *)
(* the free ones; a block is appended only when there is none.             *)
(***************************************************************************)
Used(x) == {s \in DOMAIN x.slots : x.slots[s] # NoEntry}
EntriesOf(x) == {x.slots[s] : s \in Used(x)}

(* simplefs_dir_find: the slot of a name, 0 when there is none. *)
Find(x, name) ==
    LET S == {s \in DOMAIN x.slots : x.slots[s].name = name}
    IN IF S = {} THEN 0 ELSE CHOOSE s \in S : TRUE

FreeSlots(x) == {s \in x.next_free .. Len(x.slots) : s \notin Used(x)}

(* simplefs_dir_free_slot *)
FreeSlot(x) == IF FreeSlots(x) = {} THEN Len(x.slots) + 1 ELSE Least(FreeSlots(x))

Full(x) == FreeSlots(x) = {} /\ Len(x.slots) >= FilesPerBlock * MaxDirBlocks

Grown(x) ==
    IF FreeSlots(x) = {}
    THEN [x EXCEPT !.slots = @ \o [i \in 1 .. FilesPerBlock |-> NoEntry]]
    ELSE x

(* simplefs_dir_set: an entry, under its old name or a new one. *)
DirSet(x, s, e) ==
    [x EXCEPT !.slots[s] = e, !.next_free = IF @ = s THEN s + 1 ELSE @]

DirClear_KeepHint(x, s) == [x EXCEPT !.slots[s] = NoEntry]          \* mutant

DirClear_Compact(x, s) ==                                           \* mutant
    LET last == CHOOSE t \in Used(x) : \A u \in Used(x) : u <= t
    IN [x EXCEPT !.slots = [@ EXCEPT ![s] = x.slots[last], ![last] = NoEntry],
                 !.next_free = IF last < @ THEN last ELSE @]

DirClear(x, s) ==
    [x EXCEPT !.slots[s] = NoEntry, !.next_free = IF s < @ THEN s ELSE @]

(* simplefs_dir_add, and the removal of an entry with its count. *)
DirAdd(x, name, ino) ==
    [DirSet(Grown(x), FreeSlot(x), Entry(name, ino)) EXCEPT !.nr_files = @ + 1]

DirRemove_KeepCount(x, s) == DirClear(x, s)                         \* mutant

DirRemove(x, s) == [DirClear(x, s) EXCEPT !.nr_files = @ - 1]

(* simplefs_dir_trim of an empty directory, down to n blocks. *)
Trimmed(x, n) == [x EXCEPT !.slots = SubSeq(@, 1, n * FilesPerBlock), !.next_free = IF n = 0 THEN 1 ELSE @]

Blocks(x) == Len(x.slots) \div FilesPerBlock

(* build_index: what simplefs_dir_get makes of the blocks of a directory it has no index of. *)
BuildIndex(x) == [x EXCEPT !.nr_files = Cardinality(Used(x)), !.next_free = 1]
-----------------------------------------------------------------------------
(***************************************************************************)
(* The steps common to the calls.                                          *)
(***************************************************************************)
(* A call that touches the entry a readdir is watched for ends the watch. *)
SetDirs(new) ==
    /\ dir' = new
    /\ scan' = IF scan.dir # 0 /\ scan.watch \in EntriesOf(new[scan.dir]) THEN scan ELSE NoScan

(* simplefs_persist_inode for the inodes in who. *)
Persist_MarkDirty(ins, who) == inode' = ins /\ record' = record      \* mutant

Persist(ins, who) ==
    /\ inode' = ins
    /\ record' = [i \in Number |-> IF i \in who THEN [ins[i] EXCEPT !.open = FALSE] ELSE record[i]]

Done(ins, ds, who) ==
    /\ result' = "ok" /\ Persist(ins, who) /\ SetDirs(ds)
    /\ UNCHANGED <<load, dying, client>>

(***************************************************************************)
(* An error return; ds is what the call did to the directories before it.  *)
(* A call that is refused before it changed anything, or takes all of it   *)
(* back (simplefs_release_new_inode, the rollbacks), is a stuttering step. *)
(***************************************************************************)
Fails(ds) ==
    /\ result' = "error" /\ SetDirs(ds)
    /\ UNCHANGED <<load, ifree, inode, record, dying, client, stray>>

(* inc_nlink and drop_nlink; clear_nlink for a directory that is removed. *)
AddLinks(ins, i, n) == [ins EXCEPT ![i].nlink = @ + n]

DropLink(ins, i) == [ins EXCEPT ![i].nlink = IF ins[i].mode = "dir" THEN 0 ELSE @ - 1]

(* simplefs_dir_free_slot can need a block the device has not. *)
NoRoom(x) == Full(x) \/ (Meets("nospace") /\ FreeSlots(x) = {})

(* simplefs_new_inode: the first free number, unless an inode of that number is cached. *)
NewNumber == Least(ifree)
CanNew == ifree # {} /\ inode[NewNumber] = NoInode

(* get_random_u32: a generation no outstanding file handle has for that number. *)
NewGen(i) == IF client.ino = i /\ client.gen = 1 THEN 2 ELSE 1
-----------------------------------------------------------------------------
Init ==
    /\ load \in Scenarios
    /\ ifree = load.numbers
    /\ inode = [i \in Number |-> IF i = Root THEN Inode("dir", 2, 1, Root) ELSE NoInode]
    /\ record = inode
    /\ dying = {}
    /\ dir = [i \in Number |-> EmptyDir]
    /\ scan = NoScan
    /\ client = NoClient
    /\ result = "ok"
    /\ stray = [i \in Number |-> 0]

(***************************************************************************)
(* simplefs_create, simplefs_mkdir, simplefs_mknod and simplefs_symlink.   *)
(***************************************************************************)
Create(d, n, mode) ==
    /\ Makes(IF mode = "dir" THEN "mkdir" ELSE "create")
    /\ \/ /\ CanNew /\ ~Full(dir[d])
          /\ LET i == NewNumber
                 new == Inode(mode, IF mode = "dir" THEN 2 ELSE 1, NewGen(NewNumber), IF mode = "dir" THEN d ELSE 0)
                 ins == AddLinks([inode EXCEPT ![i] = new], d, IF mode = "dir" THEN 1 ELSE 0)
             IN /\ Done(ins, [dir EXCEPT ![d] = DirAdd(@, n, i), ![i] = EmptyDir], {i, d})
                /\ ifree' = ifree \ {i} /\ UNCHANGED stray
       \/ Meets("nomem") /\ CanNew /\ ~Full(dir[d]) /\ Fails([dir EXCEPT ![d] = Grown(@)])

(* simplefs_tmpfile: the open file is the only reference. *)
Tmpfile ==
    /\ Makes("tmpfile")
    /\ CanNew
    /\ LET i == NewNumber
       IN /\ Done([inode EXCEPT ![i] = [Inode("tmp", 0, NewGen(i), 0) EXCEPT !.open = TRUE]],
                  [dir EXCEPT ![i] = EmptyDir], {})
          /\ ifree' = ifree \ {i} /\ UNCHANGED stray

(* simplefs_link: the VFS admits a file that has a name, or an open O_TMPFILE. *)
LinkFile(i, d, n) ==
    /\ Makes("link")
    /\ inode[i].mode = "tmp" \/ (inode[i].mode = "file" /\ Linked(i))
    /\ \/ /\ ~Full(dir[d])
          /\ Done([AddLinks(inode, i, 1) EXCEPT ![i].mode = "file"],
                  [dir EXCEPT ![d] = DirAdd(@, n, i)], {i, d})
          /\ UNCHANGED <<ifree, stray>>
       \/ Meets("nomem") /\ ~Full(dir[d]) /\ Fails([dir EXCEPT ![d] = Grown(@)])

(* simplefs_unlink *)
Unlink(d, n) ==
    /\ Makes("unlink")
    /\ LET s == Find(dir[d], n)
           i == dir[d].slots[s].ino
       IN /\ ~IsDir(i)
          /\ Done(DropLink(inode, i), [dir EXCEPT ![d] = DirRemove(@, s)], {i, d})
    /\ UNCHANGED <<ifree, stray>>

(***************************************************************************)
(* simplefs_dir_trim gives the blocks of an empty directory back in        *)
(* transactions of their own, before the one that removes its name: a      *)
(* refused handle leaves some of them.                                     *)
(***************************************************************************)
TrimFails(i) ==
    /\ Meets("start") /\ dir[i].nr_files = 0
    /\ \E k \in 0 .. (Blocks(dir[i]) - 1) : Fails([dir EXCEPT ![i] = Trimmed(@, k)])

(* simplefs_rmdir *)
Rmdir(d, n) ==
    /\ Makes("rmdir")
    /\ LET s == Find(dir[d], n)
           i == dir[d].slots[s].ino
       IN /\ IsDir(i)
          /\ \/ TrimFails(i)
             \/ /\ dir[i].nr_files = 0
                /\ Done(AddLinks(DropLink(inode, i), d, -1),
                        [dir EXCEPT ![i] = Trimmed(@, 0), ![d] = DirRemove(@, s)], {i, d})
                /\ UNCHANGED <<ifree, stray>>
-----------------------------------------------------------------------------
(***************************************************************************)
(* simplefs_rename.  The VFS calls it with the entry i of n1 in d1, the    *)
(* entry j (0: none) of n2 in d2, neither directory below the entry of the *)
(* other side, and, except for an exchange, both entries or none being     *)
(* directories.  simplefs_rename_check_subdir repeats part of that.        *)
(***************************************************************************)
Holder(i) == CHOOSE d \in Dirs : \E s \in DOMAIN dir[d].slots : dir[d].slots[s].ino = i

Upwards(d) ==
    LET up[k \in 0 .. NrInodes] ==
            IF k = 0 THEN d ELSE IF up[k - 1] = Root THEN Root ELSE Holder(up[k - 1])
    IN {up[k] : k \in 0 .. NrInodes}

EntryOf(d, n) == IF Find(dir[d], n) = 0 THEN 0 ELSE dir[d].slots[Find(dir[d], n)].ino

MayRename(i, d1, j, d2) ==
    /\ i # j
    /\ IsDir(i) => i \notin Upwards(d2)
    /\ j # 0 => (IsDir(j) => j \notin Upwards(d1))

MayReplace(i, j) == j # 0 => (IsDir(i) <=> IsDir(j))

(* simplefs_set_parent_ino and the links of both directories. *)
MoveDir_KeepParent(ins, i, d1, d2) ==                               \* mutant
    IF ins[i].mode = "dir" THEN AddLinks(AddLinks(ins, d1, -1), d2, 1) ELSE ins

MoveDir(ins, i, d1, d2) ==
    IF ins[i].mode = "dir" /\ d1 # d2
    THEN [AddLinks(AddLinks(ins, d1, -1), d2, 1) EXCEPT ![i].parent = d2]
    ELSE ins

(* simplefs_unlink_internal of the replaced entry, and the link of its parent. *)
DropTarget_KeepLink(ins, j, d2) == IF j = 0 THEN ins ELSE DropLink(ins, j)   \* mutant

DropTarget(ins, j, d2) ==
    IF j = 0 THEN ins
    ELSE AddLinks(DropLink(ins, j), d2, IF ins[j].mode = "dir" THEN -1 ELSE 0)

(* The directories once a replaced directory is trimmed and the replaced entry is gone. *)
WithoutTarget(j, d2, n2) ==
    IF j = 0 THEN dir
    ELSE LET ds == IF IsDir(j) THEN [dir EXCEPT ![j] = Trimmed(@, 0)] ELSE dir
         IN [ds EXCEPT ![d2] = DirRemove(@, Find(@, n2))]

(* simplefs_rename_normal *)
RenameNormal(d1, n1, d2, n2) ==
    /\ Makes("rename")
    /\ LET i == EntryOf(d1, n1)
           j == EntryOf(d2, n2)
           s == Find(dir[d1], n1)
           without == WithoutTarget(j, d2, n2)
           added == [without EXCEPT ![d2] = DirAdd(@, n2, i)]
       IN /\ MayReplace(i, j)
          /\ \/ /\ j # 0 /\ IsDir(j) /\ TrimFails(j)
             \/ /\ d1 = d2 /\ j = 0
                /\ Done(inode, [dir EXCEPT ![d1] = DirSet(@, s, Entry(n2, i))], {i, d1})
                /\ UNCHANGED <<ifree, stray>>
             \/ /\ d1 # d2 \/ j # 0
                /\ j # 0 => (IsDir(j) => dir[j].nr_files = 0)
                /\ ~Full(without[d2])
                /\ Done(MoveDir(DropTarget(inode, j, d2), i, d1, d2),
                        [added EXCEPT ![d1] = DirRemove(@, s)], {i, d1, d2} \cup ({j} \ {0}))
                /\ UNCHANGED <<ifree, stray>>
             \/ /\ Meets("nomem") /\ d1 # d2 /\ j = 0 /\ ~Full(dir[d2])
                /\ Fails([dir EXCEPT ![d2] = Grown(@)])
             \/ /\ j # 0 /\ (IsDir(j) => dir[j].nr_files = 0)
                /\ NoRoom(without[d2]) \/ Meets("nomem_late")
                /\ result' = "error" /\ SetDirs(without)
                /\ Persist(DropTarget(inode, j, d2), {j, d2})
                /\ UNCHANGED <<load, ifree, dying, client, stray>>

(* simplefs_rename_exchange: the slots keep their names. *)
RenameExchange(d1, n1, d2, n2) ==
    /\ Makes("exchange")
    /\ LET i == EntryOf(d1, n1)
           j == EntryOf(d2, n2)
           ds == [dir EXCEPT ![d1] = DirSet(@, Find(@, n1), Entry(n1, j))]
       IN /\ j # 0
          /\ Done(MoveDir(MoveDir(inode, i, d1, d2), j, d2, d1),
                  [ds EXCEPT ![d2] = DirSet(@, Find(dir[d2], n2), Entry(n2, i))], {i, j, d1, d2})
    /\ UNCHANGED <<ifree, stray>>

(***************************************************************************)
(* simplefs_rename_whiteout: a new special file takes the place of the old *)
(* name.  A directory that replaces an empty one of the same parent takes  *)
(* the parent's link over from it, and the link it had stays: stray.       *)
(***************************************************************************)
RenameWhiteout(d1, n1, d2, n2) ==
    /\ Makes("whiteout")
    /\ LET i == EntryOf(d1, n1)
           j == EntryOf(d2, n2)
           w == NewNumber
           links == IF j = 0 THEN MoveDir(inode, i, d1, d2)
                    ELSE DropLink(IF IsDir(i) /\ d1 # d2
                                  THEN [AddLinks(inode, d1, -1) EXCEPT ![i].parent = d2]
                                  ELSE inode, j)
           over == IF j = 0 THEN [dir EXCEPT ![d2] = DirAdd(@, n2, i)]
                   ELSE [IF IsDir(j) THEN [dir EXCEPT ![j] = Trimmed(@, 0)] ELSE dir
                            EXCEPT ![d2] = DirSet(@, Find(@, n2), Entry(n2, i))]
       IN /\ MayReplace(i, j)
          /\ \/ /\ j # 0 /\ IsDir(j) /\ TrimFails(j)
             \/ /\ CanNew /\ (j # 0 => (IsDir(j) => dir[j].nr_files = 0)) /\ (j = 0 => ~Full(dir[d2]))
                /\ d1 = d2 => stray[d2] < MaxStray
                /\ Done([links EXCEPT ![w] = Inode("file", 1, NewGen(NewNumber), 0)],
                        [over EXCEPT ![d1] = DirSet(@, Find(dir[d1], n1), Entry(n1, w)),
                                     ![w] = EmptyDir],
                        {i, w, d1, d2} \cup ({j} \ {0}))
                /\ ifree' = ifree \ {w}
                /\ stray' = [stray EXCEPT ![w] = 0,
                               ![d2] = @ + (IF j # 0 /\ IsDir(i) /\ d1 = d2 THEN 1 ELSE 0)]
             \/ /\ ~CanNew /\ j # 0 /\ IsDir(j) /\ dir[j].nr_files = 0
                /\ Fails([dir EXCEPT ![j] = Trimmed(@, 0)])
             \/ /\ Meets("nomem") /\ j = 0 /\ CanNew /\ ~Full(dir[d2])
                /\ Fails([dir EXCEPT ![d2] = Grown(@)])
-----------------------------------------------------------------------------
(***************************************************************************)
(* References and eviction.                                                *)
(***************************************************************************)
Held(i) ==
    \/ inode[i].open \/ scan.dir = i
    \/ client.pc \in {"got", "has"} /\ client.ino = i

Open(i) ==
    /\ Makes("open") /\ Linked(i) /\ i # Root /\ ~inode[i].open
    /\ inode' = [inode EXCEPT ![i].open = TRUE] /\ result' = "ok"
    /\ UNCHANGED <<load, ifree, record, dying, dir, scan, client, stray>>

Close(i) ==
    /\ inode[i].open
    /\ inode' = [inode EXCEPT ![i].open = FALSE] /\ result' = "ok"
    /\ UNCHANGED <<load, ifree, record, dying, dir, scan, client, stray>>

(* Unless the run is about that window, simplefs_nfs_get_inode looks the inode up as it tests the bit. *)
InWindow(i) == ~Makes("nfs_race") /\ client.pc = "tested" /\ client.ino = i

(* iput_final: from here on the inode is I_FREEING. *)
Iput(i) ==
    /\ inode[i] # NoInode /\ inode[i].nlink = 0 /\ ~Held(i) /\ ~InWindow(i)
    /\ dying' = dying \cup {[ino |-> i, gen |-> inode[i].gen]}
    /\ inode' = [inode EXCEPT ![i] = NoInode] /\ result' = "ok"
    /\ UNCHANGED <<load, ifree, record, dir, scan, client, stray>>

(***************************************************************************)
(* simplefs_evict_inode of an inode without links: the slot is cleared and *)
(* put_inode frees the number, refusing one that is free already.  Without *)
(* a handle nothing is given back.                                         *)
(***************************************************************************)
EvictRetire(x) ==
    /\ record' = [record EXCEPT ![x.ino] = NoInode]
    /\ ifree' = ifree \cup {x.ino}
    /\ dir' = IF x.gen = 0 THEN dir ELSE [dir EXCEPT ![x.ino] = EmptyDir]

EvictInode(x) ==
    /\ \/ EvictRetire(x)
       \/ Meets("start") /\ UNCHANGED <<record, ifree, dir>>
    /\ dying' = dying \ {x} /\ result' = "ok"
    /\ stray' = [stray EXCEPT ![x.ino] = IF x.gen = 0 THEN @ ELSE 0]
    /\ UNCHANGED <<load, inode, scan, client>>

(* A directory inode that nobody uses leaves the cache, and its index with it. *)
Reclaim(d) ==
    /\ Makes("reclaim") /\ IsDir(d) /\ ~Held(d) /\ d # Root
    /\ dir[d] # BuildIndex(dir[d])
    /\ dir' = [dir EXCEPT ![d] = BuildIndex(@)] /\ result' = "ok"
    /\ UNCHANGED <<load, ifree, inode, record, dying, scan, client, stray>>

(***************************************************************************)
(* A crash and the mount after it.  A call is one transaction, so what the *)
(* journal brings back is the inode table, the bitmap and the directory    *)
(* blocks after some call; the earlier ones are states of this model too.  *)
(***************************************************************************)
Crash ==
    /\ Makes("crash")
    /\ inode' = [i \in Number |-> IF record[i].nlink > 0 THEN record[i] ELSE NoInode]
    /\ dir' = [i \in Number |-> BuildIndex(dir[i])]
    /\ dying' = {} /\ scan' = NoScan /\ result' = "ok"
    /\ client' = IF client.pc = "idle" THEN client ELSE [client EXCEPT !.pc = "holds"]
    /\ UNCHANGED <<load, ifree, record, stray>>
-----------------------------------------------------------------------------
(***************************************************************************)
(* simplefs_dir_emit: the position is the slot, kept between calls; how    *)
(* many slots one call passes is the reader's buffer, so it is any number. *)
(***************************************************************************)
ReaddirStart(d) ==
    /\ Makes("readdir") /\ scan.dir = 0
    /\ \E e \in EntriesOf(dir[d]) : scan' = [NoScan EXCEPT !.dir = d, !.watch = e]
    /\ result' = "ok"
    /\ UNCHANGED <<load, ifree, inode, record, dying, dir, client, stray>>

ReaddirEnd == scan.pos > Len(dir[scan.dir].slots)

ReaddirStep ==
    /\ scan.dir # 0 /\ result' = "ok"
    /\ scan' = IF ReaddirEnd THEN NoScan
               ELSE [scan EXCEPT !.pos = @ + 1,
                       !.seen = @ + (IF dir[scan.dir].slots[scan.pos] = scan.watch THEN 1 ELSE 0)]
    /\ UNCHANGED <<load, ifree, inode, record, dying, dir, client, stray>>
-----------------------------------------------------------------------------
(***************************************************************************)
(* simplefs_nfs_get_inode: test the bit, look the inode up, compare the    *)
(* generation.  iget_locked waits for an inode that is being freed.        *)
(***************************************************************************)
nfsVars == <<load, ifree, record, dying, dir, scan, stray>>

NfsHandle(i) ==
    /\ (Makes("nfs") \/ Makes("nfs_race")) /\ client.pc = "idle" /\ Linked(i) /\ i # Root
    /\ client' = [pc |-> "holds", ino |-> i, gen |-> inode[i].gen] /\ result' = "ok"
    /\ UNCHANGED <<nfsVars, inode>>

Freeing(i) == \E x \in dying : x.ino = i

NfsTest ==
    /\ client.pc = "holds" /\ result' = "ok"
    /\ ~Makes("nfs_race") => ~Freeing(client.ino)
    /\ client' = [client EXCEPT !.pc = IF client.ino \in ifree THEN "refused" ELSE "tested"]
    /\ UNCHANGED <<nfsVars, inode>>

Iget(i) ==
    IF inode[i] # NoInode THEN inode
    ELSE [inode EXCEPT ![i] = IF record[i] = NoInode THEN Ghost ELSE record[i]]

NfsIget ==
    /\ client.pc = "tested" /\ result' = "ok"
    /\ inode[client.ino] # NoInode \/ ~Freeing(client.ino)
    /\ inode' = Iget(client.ino)
    /\ client' = [client EXCEPT !.pc = "got"]
    /\ UNCHANGED nfsVars

Stale_Never(i, gen) == FALSE      \* mutant

Stale(i, gen) == inode[i].gen # gen

NfsCompare ==
    /\ client.pc = "got" /\ result' = "ok"
    /\ client' = [client EXCEPT !.pc = IF Stale(client.ino, client.gen) THEN "refused" ELSE "has"]
    /\ UNCHANGED <<nfsVars, inode>>

NfsDone ==
    /\ client.pc \in {"has", "refused"} /\ result' = "ok"
    /\ client' = IF client.pc = "has" THEN [client EXCEPT !.pc = "holds"] ELSE NoClient
    /\ UNCHANGED <<nfsVars, inode>>
-----------------------------------------------------------------------------
Rename(d1, n1, d2, n2) ==
    /\ MayRename(EntryOf(d1, n1), d1, EntryOf(d2, n2), d2)
    /\ \/ RenameNormal(d1, n1, d2, n2)
       \/ RenameExchange(d1, n1, d2, n2)
       \/ RenameWhiteout(d1, n1, d2, n2)

Next ==
    \/ \E d \in Dirs : \E n \in {x \in Name : Find(dir[d], x) = 0} :
          \/ \E mode \in {"file", "dir"} : Create(d, n, mode)
          \/ \E i \in Number : LinkFile(i, d, n)
    \/ \E d \in Dirs : \E n \in {x \in Name : Find(dir[d], x) # 0} :
          \/ Unlink(d, n) \/ Rmdir(d, n)
          \/ \E d2 \in Dirs, n2 \in Name : Rename(d, n, d2, n2)
    \/ Tmpfile
    \/ \E i \in Number : Open(i) \/ Close(i) \/ Iput(i) \/ Reclaim(i) \/ ReaddirStart(i) \/ NfsHandle(i)
    \/ \E x \in dying : EvictInode(x)
    \/ ReaddirStep \/ Crash
    \/ NfsTest \/ NfsIget \/ NfsCompare \/ NfsDone

Spec == Init /\ [][Next]_vars

NameSymmetry == Permutations(Name)
-----------------------------------------------------------------------------
Names(d) == EntriesOf(dir[d])
Places(i) == {<<d, s>> \in Number \X (1 .. FilesPerBlock * MaxDirBlocks) :
                 s \in Used(dir[d]) /\ dir[d].slots[s].ino = i}

(***************************************************************************)
(* i_nlink counts the names: a file has as many links as entries, and a    *)
(* directory its own two and one for each subdirectory, through every      *)
(* mkdir, rmdir, move, replacement and exchange, and after a crash (the    *)
(* stray ones simplefs_rename_whiteout leaves aside).  No entry names an   *)
(* inode that is gone.                                                     *)
(***************************************************************************)
LinkCountsRight ==
    /\ \A i \in Number : Linked(i) =>
          IF IsDir(i) THEN inode[i].nlink = 2 + stray[i] + Cardinality({e \in Names(i) : IsDir(e.ino)})
          ELSE inode[i].nlink = Cardinality(Places(i))
    /\ \A d \in Number : Names(d) # {} => d \in Dirs
    /\ \A d \in Number : \A e \in Names(d) : Linked(e.ino)

(***************************************************************************)
(* The directories are a tree: each has one name, in the directory its     *)
(* parent number says (which is what simplefs_get_parent answers NFS and   *)
(* open_by_handle_at with), and every chain of parents ends at the root.   *)
(***************************************************************************)
Subdirs == Dirs \ {Root}

TreeConnected ==
    /\ \A i \in Subdirs : \E p \in Places(i) : Places(i) = {p} /\ inode[i].parent = p[1]
    /\ \A S \in SUBSET Subdirs : S # {} => \E i \in S : inode[i].parent \notin S

(***************************************************************************)
(* The cached index agrees with the blocks: nr_files (which rmdir trusts)  *)
(* counts the entries, no free slot lies below next_free (or a directory   *)
(* would grow over a hole), and no name is there twice (or the next        *)
(* simplefs_dir_build would call the directory corrupted).                 *)
(***************************************************************************)
DirIndexSound ==
    \A d \in Number :
        /\ dir[d].nr_files = Cardinality(Used(dir[d]))
        /\ \A s \in DOMAIN dir[d].slots : s < dir[d].next_free => s \in Used(dir[d])
        /\ \A s, t \in Used(dir[d]) : dir[d].slots[s].name = dir[d].slots[t].name => s = t

(***************************************************************************)
(* An inode with a name or an opener owns its number and its slot: the     *)
(* number is not free, and the slot describes this inode and no other, so  *)
(* simplefs_evict_inode only ever gives back what nobody uses.             *)
(***************************************************************************)
LiveNumbersTaken ==
    \A i \in Number : Live(i) =>
        /\ i \notin ifree
        /\ Linked(i) => record[i] = [inode[i] EXCEPT !.open = FALSE]
        /\ ~Linked(i) => record[i].gen \in {0, inode[i].gen}

(***************************************************************************)
(* A call that returns an error leaves every name where it was.            *)
(***************************************************************************)
FailedCallKeepsNames == [][result' = "error" => \A d \in Number : Names(d)' = Names(d)]_vars

(***************************************************************************)
(* A readdir returns an entry nobody touched since it began exactly once,  *)
(* whatever is created, removed, renamed or rebuilt beside it.             *)
(***************************************************************************)
ReaddirComplete ==
    scan.dir # 0 => scan.seen <= 1 /\ (ReaddirEnd => scan.seen = 1)

(***************************************************************************)
(* A file handle finds the inode it was made for or none: what it resolves *)
(* to has its generation, and it is refused only when that inode is gone.  *)
(***************************************************************************)
HandleMeansFile ==
    /\ client.pc = "has" => inode[client.ino].gen = client.gen /\ Live(client.ino)
    /\ client.pc = "refused" => ~(Linked(client.ino) /\ inode[client.ino].gen = client.gen)
=============================================================================
