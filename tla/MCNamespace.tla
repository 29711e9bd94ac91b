---------------------------- MODULE MCNamespace ----------------------------
(***************************************************************************)
(* The scenarios the namespace is checked under.  A behaviour follows one  *)
(* of them, so a run explores their sum and not their product.             *)
(***************************************************************************)
EXTENDS SimplefsNamespace

(* Three inodes below the root: every way to move, replace, exchange and cover a name. *)
Tree == [calls |-> {"create", "mkdir", "link", "unlink", "rmdir", "rename", "exchange", "whiteout"},
         faults |-> {"nospace"}, numbers |-> 2 .. 4]

(* Two inodes: a reader, calls that fail half way, and a cache that forgets. *)
Readers == [calls |-> Tree.calls \cup {"readdir", "reclaim"},
            faults |-> {"nospace", "start", "nomem"}, numbers |-> 2 .. 3]

(* Two inodes: openers and file handles of files and directories, evictions and crashes. *)
References == [calls |-> {"create", "mkdir", "tmpfile", "unlink", "rmdir", "open", "nfs", "crash"},
               faults |-> {"start"}, numbers |-> 2 .. 3]

(* The same for files with several names or none. *)
Unnamed == [calls |-> {"create", "tmpfile", "link", "unlink", "open", "nfs", "crash"},
            faults |-> {"start"}, numbers |-> 2 .. 3]

MCScenarios == {Tree, Readers, References, Unnamed}

(* An NFS server that resolves a handle while the inode is evicted. *)
MCRace == {[calls |-> {"create", "unlink", "nfs_race"}, faults |-> {}, numbers |-> {2}]}

(* A name that finds no memory when the entry it replaces is gone. *)
MCLate == {[calls |-> {"create", "rename"}, faults |-> {"nomem_late"}, numbers |-> 2 .. 3]}
=============================================================================
