-------------------------------- MODULE Vfs --------------------------------
(***************************************************************************)
(* The mount table and the calls on files, fs/fs.c, with what the mount,    *)
(* unmount, open, close, write and stat functions of fs/ext2.c and fs/fat.c *)
(* do to mountpoints.  Calls come one after the other; resolve_mountpoint's *)
(* loop takes one step per entry of the table.  Looking a path up on the    *)
(* disk is left to the handler and may fail.                                *)
(***************************************************************************)
EXTENDS Integers, FiniteSets, SequencesExt

CONSTANTS Names,                \* components of paths
          MaxDepth,             \* bound on the depth of a path
          Addresses,            \* where a mountpoint may be allocated
          NULL,
          MountBound,           \* bound on the entries of the table
          FileBound             \* bound on the files open at a time

FS_MAX_MOUNTED_FILESYSTEMS == 256       \* which mount does not look at

ASSUME VfsAssumption ==
    /\ {MaxDepth, MountBound, FileBound} \subseteq Nat
    /\ MountBound <= FS_MAX_MOUNTED_FILESYSTEMS
    /\ NULL \notin Addresses

Path == UNION {[1..d -> Names] : d \in 0..MaxDepth}
root_path == <<>>
Handler == {"ext2", "fat32"}

VARIABLES mounted_filesystems,  \* as far as mounted_filesystem_count goes
          mp,                   \* allocated mountpoints: address -> [path, handler]
          files,                \* open files: [mount, handler, path, asked]
          pc,
          call,                 \* resolve_mountpoint's path, i, mountpoint
          fault                 \* what stopped the kernel, "" while it runs

vars == <<mounted_filesystems, mp, files, pc, call, fault>>

live == DOMAIN mp

NoCall == [path |-> root_path, i |-> 1, mountpoint |-> NULL]

Init == /\ mounted_filesystems = <<>>
        /\ mp = <<>>
        /\ files = {}
        /\ pc = "idle"
        /\ call = NoCall
        /\ fault = ""

\* A page fault, whose handler halts.
Stop(why) ==
    /\ fault' = why /\ pc' = "stopped"
    /\ UNCHANGED <<mounted_filesystems, mp, files, call>>

-----------------------------------------------------------------------------
\* mount and unmount.

\* ext2_mount panics on a file system with errors whose policy it is.
MountPanics(handler) == pc = "idle" /\ handler = "ext2" /\ Stop("panic")

Mount(path, handler) ==
    /\ pc = "idle" /\ Len(mounted_filesystems) < MountBound
    /\ \E a \in Addresses \ live :
          /\ mp' = [b \in live \cup {a} |->
                       IF b = a THEN [path |-> path, handler |-> handler] ELSE mp[b]]
          /\ mounted_filesystems' = Append(mounted_filesystems, a)
    /\ UNCHANGED <<files, pc, call, fault>>

\* Faulty: the handler's failure leaves its mountpoint in the table.
MutMountFails(path) ==
    /\ pc = "idle" /\ Len(mounted_filesystems) < MountBound
    /\ \E a \in Addresses : mounted_filesystems' = Append(mounted_filesystems, a)
    /\ UNCHANGED <<mp, files, pc, call, fault>>

\* The handler could not read the disk: its NULL is stored all the same.
MountFails(path) ==
    /\ pc = "idle" /\ Len(mounted_filesystems) < MountBound
    /\ mounted_filesystems' = Append(mounted_filesystems, NULL)
    /\ UNCHANGED <<mp, files, pc, call, fault>>

\* Faulty: the last entry takes the place of the one removed.
MutRemoved(table, i) == Front([table EXCEPT ![i] = Last(table)])

\* Later entries move down by one.
Removed(table, i) == RemoveAt(table, i)

\* The entry that unmount stops at, 0 if there is none: the first one at the
\* path, or a NULL before it.
Unmounted(path) ==
    LET stops == {i \in DOMAIN mounted_filesystems :
                     \/ mounted_filesystems[i] = NULL
                     \/ mp[mounted_filesystems[i]].path = path}
    IN  IF stops = {} THEN 0 ELSE CHOOSE i \in stops : \A j \in stops : i <= j

Unmount(path) ==
    /\ pc = "idle"
    /\ LET i == Unmounted(path)
       IN  IF i = 0 THEN UNCHANGED vars    \* UNMOUNT_ERR_NOT_MOUNTED
           ELSE IF mounted_filesystems[i] = NULL THEN Stop("null mountpoint")
           ELSE /\ mounted_filesystems' = Removed(mounted_filesystems, i)
                /\ mp' = [b \in live \ {mounted_filesystems[i]} |-> mp[b]]
                /\ UNCHANGED <<files, pc, call, fault>>

-----------------------------------------------------------------------------
\* fopen.

Fopen(path) ==
    /\ pc = "idle" /\ Cardinality(files) < FileBound
    /\ call' = [NoCall EXCEPT !.path = path]
    /\ pc' = "resolve"
    /\ UNCHANGED <<mounted_filesystems, mp, files, fault>>

Entry == mounted_filesystems[call.i]

\* Faulty: the shallower of two matches wins when it comes later.
MutDeeper(path) == TRUE

\* mp->path->depth >= highest_depth, which is 0 or that of the mountpoint found.
Deeper(path) ==
    call.mountpoint # NULL => Len(path) >= Len(mp[call.mountpoint].path)

Skipped(path) == Len(path) > Len(call.path)

\* One entry of the table.  Comparing components past the end of the path reads
\* whatever lies there.
Resolve ==
    /\ pc = "resolve" /\ call.i <= Len(mounted_filesystems)
    /\ IF Entry = NULL THEN Stop("null mountpoint")
       ELSE LET path == mp[Entry].path
            IN  IF ~Skipped(path) /\ Len(path) > Len(call.path)
                   /\ IsPrefix(call.path, path)
                THEN Stop("past the path")
                ELSE /\ call' = [call EXCEPT !.i = @ + 1,
                           !.mountpoint = IF /\ ~Skipped(path) /\ IsPrefix(path, call.path)
                                             /\ Deeper(path)
                                          THEN Entry ELSE @]
                     /\ UNCHANGED <<mounted_filesystems, mp, files, pc, fault>>

\* strip_mountpoint.
Stripped(path, m) == SubSeq(path, Len(mp[m].path) + 1, Len(path))

\* After the loop: fopen answers NULL, or the handler looks the rest of the path
\* up, with or without success.
Open ==
    /\ pc = "resolve" /\ call.i > Len(mounted_filesystems)
    /\ pc' = "idle" /\ call' = NoCall
    /\ \/ UNCHANGED files
       \/ /\ call.mountpoint # NULL
          /\ files' = files \cup {[mount |-> call.mountpoint,
                                   handler |-> mp[call.mountpoint].handler,
                                   path |-> Stripped(call.path, call.mountpoint),
                                   asked |-> call.path]}
    /\ UNCHANGED <<mounted_filesystems, mp, fault>>

-----------------------------------------------------------------------------
\* Calls on an open file go through its mountpoint.  One that was unmounted still
\* holds what it held until its memory is used again, perhaps by another mount.

Stale(f) == f.mount \in live => mp[f.mount].handler # f.handler

\* The driver's data of ext2's root directory has no directory entry.
NoDirent(f) == f.handler = "ext2" /\ f.path = root_path

Fclose(f) ==
    /\ pc = "idle" /\ f \in files
    /\ \/ Stale(f) /\ Stop("stale mountpoint")
       \/ NoDirent(f) /\ Stop("null dirent")
       \/ /\ ~NoDirent(f) /\ files' = files \ {f}
          /\ UNCHANGED <<mounted_filesystems, mp, pc, call, fault>>

Fread(f) == pc = "idle" /\ f \in files /\ Stale(f) /\ Stop("stale mountpoint")

\* ext2 has no write function.
Fwrite(f) ==
    /\ pc = "idle" /\ f \in files
    /\ \/ Stale(f) /\ Stop("stale mountpoint")
       \/ f.handler = "ext2" /\ Stop("null write")

Fstat(f) ==
    /\ pc = "idle" /\ f \in files
    /\ \/ Stale(f) /\ Stop("stale mountpoint")
       \/ NoDirent(f) /\ Stop("null dirent")

Next == \/ \E p \in Path, h \in Handler : Mount(p, h)
        \/ \E p \in Path : MountFails(p) \/ Unmount(p) \/ Fopen(p)
        \/ \E h \in Handler : MountPanics(h)
        \/ Resolve \/ Open
        \/ \E f \in files : Fclose(f) \/ Fread(f) \/ Fwrite(f) \/ Fstat(f)

Spec == Init /\ [][Next]_vars

-----------------------------------------------------------------------------
\* Through failed mounts and unmounts in any order, the table's entries but its
\* NULLs are exactly the mountpoints that are allocated, each of them once.
TableExact ==
    /\ Range(mounted_filesystems) \ {NULL} = live
    /\ \A i, j \in DOMAIN mounted_filesystems :
          mounted_filesystems[i] = mounted_filesystems[j]
              => i = j \/ mounted_filesystems[i] = NULL

\* The entries of a table whose mountpoint is above a path, as far as n, and the
\* one a path belongs to: the deepest and, of two at the same place, the one
\* mounted last.
Covering(path, n) ==
    {i \in 1..n : /\ mounted_filesystems[i] # NULL
                  /\ IsPrefix(mp[mounted_filesystems[i]].path, path)}

Belongs(path, n) ==
    IF Covering(path, n) = {} THEN NULL
    ELSE LET depth(i) == Len(mp[mounted_filesystems[i]].path)
         IN  mounted_filesystems[CHOOSE i \in Covering(path, n) :
                 \A j \in Covering(path, n) :
                     depth(j) < depth(i) \/ (depth(j) = depth(i) /\ j <= i)]

\* A file is opened in the mountpoint that the path asked for belongs to, in the
\* table as it is then, under the path that, put after the mountpoint's, is that path.
OpensUnderDeepest ==
    [][\A f \in files' \ files :
          /\ f.mount = Belongs(f.asked, Len(mounted_filesystems))
          /\ f.asked = mp[f.mount].path \o f.path]_vars

\* Mounting or unmounting a file system changes what a path belongs to only if it
\* belongs, before or after, to that file system.
OthersUndisturbed ==
    [][fault' = "" => \A p \in Path :
          LET before == Belongs(p, Len(mounted_filesystems))
              after  == Belongs(p, Len(mounted_filesystems))'
          IN  \/ after = before
              \/ before \in live \ live'
              \/ after \in live' \ live]_vars
=============================================================================
