------------------------------ MODULE Ext2Dir ------------------------------
(***************************************************************************)
(* Opening and listing files of an ext2 file system (fs/ext2.c): ext2_open, *)
(* ext2_search_dir, ext2_get_inode, ext2_open_inode, ext2_read_dir and      *)
(* ext2_close.  The searching loops take one step per directory entry.      *)
(*                                                                         *)
(* A name is a sequence of characters, as one name may begin with another.  *)
(* A directory's content is the sequence of its entries; one whose inode is *)
(* 0 was the first of a block when it was deleted.  The loops go on to the  *)
(* end of a buffer of inode->sectors_used sectors, which also counts the     *)
(* blocks of pointers and of extended attributes: if there are any, what    *)
(* malloc's memory held is searched and listed behind the last entry.  That *)
(* blocks are read and put in order is the matter of Ext2Data; here reads   *)
(* succeed.                                                                 *)
(***************************************************************************)
EXTENDS Integers, SequencesExt

CONSTANTS Superblocks,          \* [block_size, inodes_per_group, inode_size]
          Trees,                \* inode number -> [type, entries, tail], the last the
                                \* room that is left behind the entries in the buffer
          Junk,                 \* what may be read there: [name, inode, size]
          StrayTail,            \* bound on that room for a record that is no inode
          Paths,                \* the paths opened
          Rooms,                \* entries there is room for in a caller's buffer
          NULL

EXT2_ROOT_INODE == 2
DescriptorSize == 32            \* sizeof(ext2_block_group_descriptor)

TableBlocks == 7                \* between the inode tables of two groups

\* A block size is 1024 bytes or a multiple; the inodes of a group fit its table.
IsSuperblock(s) ==
    /\ {s.block_size, s.inodes_per_group, s.inode_size} \subseteq Nat \ {0}
    /\ s.block_size >= 1024 /\ s.block_size % DescriptorSize = 0
    /\ s.inodes_per_group * s.inode_size <= TableBlocks * s.block_size

\* Entries name inodes that are there; of those in a directory that are not deleted no
\* two have one name.
IsTree(t) ==
    /\ DOMAIN t \subseteq Nat \ {0}
    /\ EXT2_ROOT_INODE \in DOMAIN t /\ t[EXT2_ROOT_INODE].type = "dir"
    /\ \A k \in DOMAIN t :
          /\ t[k].entries \in Seq([name : Seq(STRING), inode : DOMAIN t \cup {0}])
          /\ \A e, f \in Range(t[k].entries) :
                e.inode # 0 /\ f.inode # 0 /\ e.name = f.name => e = f
          /\ t[k].tail \in Nat

ASSUME Ext2DirAssumption ==
    /\ \A s \in Superblocks : IsSuperblock(s)
    /\ \A t \in Trees : IsTree(t)
    /\ Paths \subseteq Seq(Seq(STRING))
    /\ Junk \subseteq [name : Seq(STRING), inode : Nat, size : Nat]
    /\ Rooms \subseteq Nat /\ StrayTail \in Nat
    /\ NULL \notin Nat

VARIABLES superblock, tree,
          place,
          path,                 \* the path being opened
          component,            \* its component looked for
          node,                 \* of the directory searched, or opened, or NULL; Stray
                                \* for a record that belongs to no inode of the tree
          entry,                \* next entry of the directory
          room, infos,          \* what ext2_read_dir may fill, and has filled
          opened                \* ext2_open's answer, as long as the file is open

dirVars == <<superblock, tree, place, path, component, node, entry, room, infos, opened>>

-----------------------------------------------------------------------------
\* The disk: the block after the superblock's, at byte 1024, begins the group
\* descriptors; each group's inodes lie together, in order.
DescriptorsAt == (1024 \div superblock.block_size + 1) * superblock.block_size

TableAt(group) == 1000 + TableBlocks * group

PlaceOf(number) ==
    TableAt((number - 1) \div superblock.inodes_per_group) * superblock.block_size
        + ((number - 1) % superblock.inodes_per_group) * superblock.inode_size

\* The inode whose record lies at a place.
Stray == 0
InodeAt(offset) ==
    IF \E k \in DOMAIN tree : PlaceOf(k) = offset
    THEN CHOOSE k \in DOMAIN tree : PlaceOf(k) = offset
    ELSE Stray

-----------------------------------------------------------------------------
\* ext2_get_inode.

\* The index of a group's descriptor in its block.
Descriptor(group, size) == group % (size \div DescriptorSize)

ext2_get_inode(number) ==
    LET size  == superblock.block_size
        group == (number - 1) \div superblock.inodes_per_group
        bgd_block == (IF size = 1024 THEN 2 ELSE 1) + (group * DescriptorSize) \div size
        read  == (bgd_block * size + Descriptor(group, size) * DescriptorSize
                    - DescriptorsAt) \div DescriptorSize
        index == (number - 1) % superblock.inodes_per_group
        block == TableAt(read) + (index * superblock.inode_size) \div size
    IN  InodeAt(block * size + ((index * superblock.inode_size) % size))

-----------------------------------------------------------------------------
\* The buffer of a directory.  The record of no inode may say anything.
Types(k) == IF k \in DOMAIN tree THEN {tree[k].type} ELSE {"dir", "file"}
Entries == IF node \in DOMAIN tree THEN tree[node].entries ELSE <<>>
Behind == IF node \in DOMAIN tree THEN tree[node].tail ELSE StrayTail

\* What is read where the loop stands, nothing at the buffer's end, and the way from
\* there to the next entry.
Dirents ==
    IF entry <= Len(Entries) THEN {Entries[entry]}
    ELSE IF entry <= Len(Entries) + Behind THEN Junk ELSE {}
Size(dirent) == IF entry <= Len(Entries) THEN 1 ELSE dirent.size

Ends == Dirents = {} \/ \E dirent \in Dirents : dirent.inode = 0

DirInit ==
    /\ superblock \in Superblocks /\ tree \in Trees
    /\ place = "idle"
    /\ path = <<>> /\ component = 1 /\ entry = 1
    /\ node = NULL /\ opened = NULL
    /\ room = 0 /\ infos = <<>>

\* ext2_open up to its loop.
Open(p) ==
    /\ place = "idle" /\ opened = NULL
    /\ path' = p /\ component' = 1 /\ entry' = 1
    /\ node' = ext2_get_inode(EXT2_ROOT_INODE)
    /\ place' = "open"
    /\ UNCHANGED <<superblock, tree, room, infos, opened>>

Fails ==
    /\ place' = "failed" /\ node' = NULL
    /\ UNCHANGED <<superblock, tree, path, component, entry, room, infos, opened>>

Searches == place = "open" /\ component <= Len(path)

\* ext2_search_dir is called with something that is not a directory.
SearchFile == Searches /\ Types(node) # {"dir"} /\ Fails

\* Faulty: the name is a prefix of the entry's.
MutMatches(name, filename) == IsPrefix(filename, name)

\* strncmp over the length of the entry's name.
Matches(name, filename) == IsPrefix(name, filename)

Searching == Searches /\ "dir" \in Types(node)

\* An iteration over an entry that does not match.  One of size 0, which only what
\* malloc's memory held can be, is looked at again and again.
SearchNext ==
    /\ Searching
    /\ \E dirent \in Dirents :
          /\ dirent.inode # 0 /\ ~Matches(dirent.name, path[component])
          /\ entry' = entry + Size(dirent)
          /\ place' = IF Size(dirent) = 0 THEN "endless" ELSE "open"
    /\ UNCHANGED <<superblock, tree, path, component, node, room, infos, opened>>

Endless == place = "endless" /\ UNCHANGED dirVars

\* One that does: the search goes on in its inode with the next component.
SearchFound ==
    /\ Searching
    /\ \E dirent \in Dirents :
          /\ dirent.inode # 0 /\ Matches(dirent.name, path[component])
          /\ node' = ext2_get_inode(dirent.inode)
    /\ component' = component + 1 /\ entry' = 1
    /\ UNCHANGED <<superblock, tree, place, path, room, infos, opened>>

\* The end of the buffer, or an entry without inode.
SearchEnds == Searching /\ Ends /\ Fails

\* ext2_open_inode.
OpenInode ==
    /\ place = "open" /\ component > Len(path)
    /\ opened' = node
    /\ place' = "idle" /\ entry' = 1
    /\ UNCHANGED <<superblock, tree, path, component, node, room, infos>>

\* The caller has its NULL and goes on.
Failed ==
    /\ place = "failed"
    /\ place' = "idle" /\ path' = <<>> /\ component' = 1 /\ entry' = 1
    /\ UNCHANGED <<superblock, tree, node, room, infos, opened>>

-----------------------------------------------------------------------------
\* ext2_read of an open directory, ext2_read_dir.

ReadDir(size) ==
    /\ place = "idle" /\ opened # NULL /\ "dir" \in Types(opened)
    /\ room' = size /\ infos' = <<>> /\ entry' = 1
    /\ place' = "list"
    /\ UNCHANGED <<superblock, tree, path, component, node, opened>>

\* Faulty: one entry more than there is room for.
MutListing == place = "list" /\ Len(infos) <= room

Listing == place = "list" /\ Len(infos) < room

\* An entry of size 0 is the last.
ListNext ==
    /\ Listing
    /\ \E dirent \in Dirents :
          /\ dirent.inode # 0
          /\ \E type \in Types(ext2_get_inode(dirent.inode)) :
                infos' = Append(infos, [name |-> dirent.name, mode |-> type])
          /\ entry' = entry + Size(dirent)
          /\ place' = IF Size(dirent) = 0 THEN "listed" ELSE "list"
    /\ UNCHANGED <<superblock, tree, path, component, node, room, opened>>

ListEnds ==
    /\ place = "list" /\ (Listing => Ends)
    /\ place' = "listed"
    /\ UNCHANGED <<superblock, tree, path, component, node, entry, room, infos, opened>>

\* The caller has its listing and goes on.
Listed ==
    /\ place = "listed"
    /\ place' = "idle" /\ entry' = 1 /\ room' = 0 /\ infos' = <<>>
    /\ UNCHANGED <<superblock, tree, path, component, node, opened>>

Close ==
    /\ place = "idle" /\ opened # NULL
    /\ opened' = NULL /\ node' = NULL /\ path' = <<>> /\ component' = 1
    /\ UNCHANGED <<superblock, tree, place, entry, room, infos>>

DirNext ==
    \/ \E p \in Paths : Open(p)
    \/ SearchFile \/ SearchNext \/ Endless \/ SearchFound \/ SearchEnds \/ OpenInode \/ Failed
    \/ \E s \in Rooms : ReadDir(s)
    \/ ListNext \/ ListEnds \/ Listed \/ Close

DirSpec == DirInit /\ [][DirNext]_dirVars

-----------------------------------------------------------------------------
\* Of a directory of a tree the entry with a name, deleted ones aside.
Named(t, k, name) ==
    IF t[k].type = "dir" /\ \E e \in Range(t[k].entries) : e.inode # 0 /\ e.name = name
    THEN (CHOOSE e \in Range(t[k].entries) : e.inode # 0 /\ e.name = name).inode
    ELSE NULL

\* The inodes on the way that a path leads, name by name, NULL for nowhere.
Reached(t, p) ==
    LET at[m \in 0..Len(p)] == IF m = 0 THEN EXT2_ROOT_INODE
                               ELSE IF at[m - 1] = NULL THEN NULL ELSE Named(t, at[m - 1], p[m])
    IN  at

Lookup(t, p) == Reached(t, p)[Len(p)]

\* No directory on the way has an entry whose name begins the component looked for
\* there and is shorter.
NoPrefixes(t, p) ==
    \A m \in 1..Len(p) :
        LET k == Reached(t, p)[m - 1]
        IN  k # NULL /\ t[k].type = "dir" =>
                \A e \in Range(t[k].entries) :
                    e.inode # 0 /\ IsPrefix(e.name, p[m]) => e.name = p[m]

\* No directory on the way has a deleted entry left.
NothingDeleted(t, p) ==
    \A m \in 1..Len(p) :
        LET k == Reached(t, p)[m - 1]
        IN  k # NULL => \A e \in Range(t[k].entries) : e.inode # 0

\* A name on the way is not there, in a directory behind whose entries the buffer goes on.
LeadsIntoJunk(t, p) ==
    \E m \in 1..Len(p) :
        LET k == Reached(t, p)[m - 1]
        IN  k # NULL /\ Named(t, k, p[m]) = NULL /\ t[k].tail > 0

\* Where no name begins another, a file that is opened is the one its path names; one
\* that is there is not reported missing, unless the search stops at an entry that was
\* deleted; what is there is never looked for without end.  For a name that is not there
\* all that is true only if what malloc's memory held is not searched.
OpensWhatIsNamed ==
    NoPrefixes(tree, path) =>
        /\ opened # NULL => opened = Lookup(tree, path) \/ LeadsIntoJunk(tree, path)
        /\ place = "failed" /\ NothingDeleted(tree, path) => Lookup(tree, path) = NULL
        /\ place = "endless" => LeadsIntoJunk(tree, path)

\* A directory is listed from its first entry, with the names and types of the tree, and
\* never beyond the caller's buffer, completely if there is room and nothing was
\* deleted; more is listed only if the buffer goes on behind the entries.
ListsEntries ==
    place \in {"list", "listed"} =>
        /\ Len(infos) <= room
        /\ opened \in DOMAIN tree =>
              LET es == tree[opened].entries
              IN  /\ \A k \in DOMAIN infos :
                        IF k <= Len(es)
                        THEN infos[k] = [name |-> es[k].name, mode |-> tree[es[k].inode].type]
                        ELSE tree[opened].tail > 0
                  /\ place = "listed" =>
                        \/ Len(infos) >= Len(es) \/ Len(infos) = room
                        \/ \E e \in Range(es) : e.inode = 0
=============================================================================
