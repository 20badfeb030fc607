----------------------------- MODULE MCExt2Dir -----------------------------
(***************************************************************************)
(* Ext2Dir on trees of a root, a directory in it and three files, with      *)
(* names that begin one another and deleted entries in every place.  Inode  *)
(* 300 lies in a group whose descriptor is not in the first block.          *)
(***************************************************************************)
EXTENDS Ext2Dir

MCSuperblocks ==
    {[block_size |-> 1024, inodes_per_group |-> 8, inode_size |-> 256],
     [block_size |-> 2048, inodes_per_group |-> 4, inode_size |-> 128]}

Dot    == <<".">>
DotDot == <<".", ".">>
A      == <<"a">>
AB     == <<"a", "b">>
Entry(name, k) == [name |-> name, inode |-> k]

Orders(es) == {s \in UNION {[1..k -> es] : k \in 0..2} : IsInjective(s)}

Dir(self, parent, es, tail) ==
    [type |-> "dir", entries |-> <<Entry(Dot, self), Entry(DotDot, parent)>> \o es, tail |-> tail]
File == [type |-> "file", entries |-> <<>>, tail |-> 0]

MCTrees ==
    {[k \in {2, 11, 12, 13, 300} |->
         CASE k = 2   -> Dir(2, 2, root, tails[1])
           [] k = 300 -> Dir(300, 2, sub, tails[2])
           [] OTHER   -> File] :
        root \in Orders({Entry(A, 300), Entry(AB, 11), Entry(AB, 0)}),
        sub \in Orders({Entry(A, 12), Entry(AB, 13), Entry(A, 0)}),
        tails \in {<<0, 0>>, <<0, 2>>, <<2, 0>>}}

\* A file of the tree, a number of no inode, an entry of size 0, the end.
MCJunk ==
    {[name |-> A, inode |-> 11, size |-> 1], [name |-> A, inode |-> 9, size |-> 2],
     [name |-> AB, inode |-> 300, size |-> 0], [name |-> AB, inode |-> 0, size |-> 1]}

MCPaths ==
    UNION {[1..d -> {A, AB, DotDot, <<".", "a">>}] : d \in 0..2}
=============================================================================
