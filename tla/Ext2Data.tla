------------------------------ MODULE Ext2Data ------------------------------
(***************************************************************************)
(* Reading a file of an ext2 file system: ext2_read_file and the walk over  *)
(* the block pointers of an inode, ext2_get_inode_data (fs/ext2.c).  The    *)
(* unit of sizes and contents is a block.                                   *)
(*                                                                         *)
(* A block of the file is a pair <<level, k>>: <<0, k>> is its k-th data    *)
(* block, and <<l, k>> the block of pointers at distance l above data       *)
(* blocks k, k + 1, ...  NONE is the pointer 0, which read as a block is the *)
(* first block of the partition.  JUNK is any other content: memory past    *)
(* the end of a pointer block, a block that could not be read, the text     *)
(* that a short symbolic link keeps in place of its pointers.               *)
(***************************************************************************)
EXTENDS Integers, SequencesExt

CONSTANTS NDirect,              \* direct pointers, 12
          PerBlock,             \* pointers in a block, block_size / 4
          LengthBound,          \* bound on the length of the file
          PastBound,            \* bound on the pointers read past a block's end
          Wrap,                 \* 2^64
          NONE, JUNK,
          Sizes                 \* the sizes that fread is called with

ASSUME Ext2DataAssumption ==
    /\ {NDirect, PerBlock, Wrap} \subseteq Nat \ {0}
    /\ {LengthBound, PastBound} \subseteq Nat
    /\ Sizes \subseteq Nat \ {0}

VARIABLES inode,                \* [kind, length, total]: total counts every block
          boot,                 \* the first pointer that block 0 seems to hold
          seek,
          pc,
          want,                 \* the size asked for
          i, remaining_blocks,
          level,                \* of the pointer block walked
          loops,                \* pointer blocks walked, innermost last: [block, j]
          content,              \* the blocks read, which fit inode.total
          got,                  \* what the calls have returned so far
          failed                \* a sector could not be read

vars == <<inode, boot, seek, pc, want, i, remaining_blocks, level, loops, content, got, failed>>

\* Data blocks below a pointer block of a level.
Span(l) == CASE l = 0 -> 1
             [] l = 1 -> PerBlock
             [] l = 2 -> PerBlock * PerBlock
             [] l = 3 -> PerBlock * PerBlock * PerBlock

\* The first data block that the pointer of a level leads to.
FirstOf(l) == NDirect + IF l = 1 THEN 0 ELSE IF l = 2 THEN Span(1) ELSE Span(1) + Span(2)

Block(l, k) == IF k < inode.length THEN <<l, k>> ELSE NONE

-----------------------------------------------------------------------------
\* The disk, as mke2fs leaves it: no holes.  The blocks that an inode counts are
\* those of data and of pointers, and one for extended attributes.
CeilDiv(n, d) == (n + d - 1) \div d
Above(n, l) == IF n <= FirstOf(l) THEN 0
               ELSE LET m == IF n - FirstOf(l) < Span(l) THEN n - FirstOf(l) ELSE Span(l)
                    IN  1 + IF l = 1 THEN 0
                            ELSE CeilDiv(m, Span(1)) + IF l = 2 THEN 0 ELSE CeilDiv(m, Span(2))
Metadata(n) == Above(n, 1) + Above(n, 2) + Above(n, 3)

Files == {[kind |-> "file", length |-> n, total |-> n + Metadata(n) + x] :
              n \in 0..LengthBound, x \in {0, 1}}

\* The 32 bits of an inode that count its blocks cannot wrap the 64 of the counter.
\* Pointers are neither 0 nor junk.
ASSUME FilesAssumption ==
    /\ \A f \in Files : f.total < Wrap
    /\ NONE # JUNK
    /\ \A l \in 0..3, k \in 0..LengthBound : <<l, k>> # NONE /\ <<l, k>> # JUNK

\* A symbolic link of up to 60 characters uses no block.
Links == {[kind |-> "link", length |-> n, total |-> 0] : n \in 1..NDirect}

Init == /\ inode \in Files \cup Links
        /\ boot \in {NONE, JUNK}
        /\ seek = 0
        /\ pc = "idle" /\ want = 0
        /\ i = 0 /\ remaining_blocks = 0
        /\ level = 0 /\ loops = <<>>
        /\ content = <<>> /\ got = <<>>
        /\ failed = FALSE

-----------------------------------------------------------------------------
Direct(k) == IF inode.kind = "link" THEN (IF k < inode.length THEN JUNK ELSE NONE)
             ELSE Block(0, k)

\* The pointers that a pointer block, as read, may seem to hold at index j.
PointersAt(block, j) ==
    IF j >= PerBlock + PastBound THEN {NONE}
    ELSE IF j >= PerBlock \/ block = JUNK THEN {NONE, JUNK}
    ELSE IF block = NONE THEN {IF j = 0 THEN boot ELSE JUNK}
    ELSE {Block(block[1] - 1, block[2] + j * Span(block[1] - 1))}

\* Nobody looks at what gpt_read_partition returns: a block that cannot be read
\* leaves junk in the buffer.  Bound: one failure.
Reads(block, as) == /\ as # block => ~failed
                    /\ failed' = (failed \/ as # block)

\* Writing past the buffer destroys the heap.
Store(block) ==
    IF i < inode.total THEN content' = Append(content, block) /\ UNCHANGED pc
    ELSE pc' = "corrupt" /\ UNCHANGED content

\* Faulty: blocks are not counted.
MutCount == UNCHANGED remaining_blocks

Count == remaining_blocks' = (remaining_blocks - 1) % Wrap

\* ext2_read_file up to the walk: the buffer has room for inode.total blocks.
ReadFile(size) ==
    /\ pc = "idle"
    /\ want' = size
    /\ i' = 0 /\ remaining_blocks' = inode.total
    /\ content' = <<>> /\ level' = 0
    /\ pc' = "direct"
    /\ UNCHANGED <<inode, boot, seek, loops, got, failed>>

\* An iteration of the loop over the direct pointers.
ReadDirect ==
    /\ pc = "direct" /\ i < NDirect
    /\ IF Direct(i) = NONE
       THEN /\ remaining_blocks' = 0 /\ pc' = "levels"
            /\ UNCHANGED <<i, content, failed>>
       ELSE /\ \E as \in {Direct(i), JUNK} : Reads(Direct(i), as) /\ Store(as)
            /\ i' = i + 1
            /\ Count
    /\ UNCHANGED <<inode, boot, seek, want, level, loops, got>>

EndDirect ==
    /\ pc = "direct" /\ i = NDirect
    /\ pc' = "levels"
    /\ UNCHANGED <<inode, boot, seek, want, i, remaining_blocks, level, loops, content, got,
                   failed>>

\* The singly, then the doubly, then the triply indirect pointer of the inode, as
\* long as blocks remain.  A link's is text.
EnterLevel ==
    /\ pc = "levels" /\ loops = <<>> /\ level < 3
    /\ level' = level + 1
    /\ LET block == IF inode.kind = "link" THEN NONE ELSE Block(level', FirstOf(level'))
       IN  IF remaining_blocks = 0 THEN UNCHANGED <<loops, failed>>
           ELSE \E as \in {block, JUNK} :
                   Reads(block, as) /\ loops' = <<[block |-> as, j |-> 0]>>
    /\ UNCHANGED <<inode, boot, seek, pc, want, i, remaining_blocks, content, got>>

\* Faulty: the index is not advanced.
MutAdvanced(ls) == ls

\* The index of the innermost loop of ls moves on.
Advanced(ls) == IF ls = <<>> THEN ls ELSE [ls EXCEPT ![Len(ls)].j = @ + 1]

Depth == level - Len(loops)     \* levels below the innermost loop's pointers

\* A pointer to data: the block goes to the i-th place of the buffer.
Data(block) ==
    /\ \E as \in {block, JUNK} : Reads(block, as) /\ Store(as)
    /\ i' = i + 1
    /\ Count
    /\ loops' = Advanced(loops)

\* A pointer to another pointer block.
Descend(block) ==
    /\ \E as \in {block, JUNK} :
          Reads(block, as) /\ loops' = Append(loops, [block |-> as, j |-> 0])
    /\ UNCHANGED <<pc, i, remaining_blocks, content>>

\* The end of a loop: the loop around it goes on with its next pointer.
Leave ==
    /\ loops' = Advanced(Front(loops))
    /\ UNCHANGED <<pc, i, remaining_blocks, content, failed>>

\* An iteration of the innermost loop.
Walk ==
    /\ pc = "levels" /\ loops # <<>>
    /\ IF remaining_blocks = 0 THEN Leave
       ELSE \E p \in PointersAt(Last(loops).block, Last(loops).j) :
               IF p = NONE THEN Leave
               ELSE IF Depth = 0 THEN Data(p) ELSE Descend(p)
    /\ UNCHANGED <<inode, boot, seek, want, level, got>>

ReadSize == IF want > inode.length - seek THEN inode.length - seek ELSE want

\* memcpy from the buffer; what the walk did not fill is what malloc left there.
Finish ==
    /\ pc = "levels" /\ loops = <<>> /\ level = 3
    /\ got' = got \o [k \in 1..ReadSize |->
                         IF seek + k <= Len(content) THEN content[seek + k] ELSE JUNK]
    /\ seek' = seek + ReadSize
    /\ content' = <<>> /\ i' = 0 /\ remaining_blocks' = 0 /\ level' = 0 /\ want' = 0
    /\ pc' = "idle"
    /\ UNCHANGED <<inode, boot, loops, failed>>

Next == \/ \E s \in Sizes : ReadFile(s)
        \/ ReadDirect \/ EndDirect \/ EnterLevel \/ Walk \/ Finish

Spec == Init /\ [][Next]_vars

-----------------------------------------------------------------------------
\* Of a file that the direct pointers and one block of pointers can hold, and that
\* could be read, the calls return the blocks one after the other from the first,
\* although the walk goes on, for the pointer blocks it has counted, to block 0.
Sequential ==
    inode.kind = "file" /\ inode.length <= NDirect + PerBlock /\ ~failed =>
        \A k \in 1..Len(got) : got[k] = <<0, k - 1>>

\* No file makes the walk write past the buffer: also when pointers are junk, or
\* read from past a pointer block, the blocks counted run out in time.
StaysInBuffer == pc = "corrupt" => inode.kind = "link"

\* "Points to a block that is a list of block pointers to singly indirect blocks"
\* (ext2.h:125): files that need such a block are read from the first block to the
\* last like others.
LargeFilesToo ==
    inode.kind = "file" /\ ~failed => \A k \in 1..Len(got) : got[k] = <<0, k - 1>>
=============================================================================
