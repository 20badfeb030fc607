------------------------------- MODULE Paging -------------------------------
(***************************************************************************)
(* Four-level page tables, memory/page_map.c: map_virtual_memory and the    *)
(* pages it takes for tables.  A virtual page is the four indices that its  *)
(* address is made of; an entry is the page it points to, or NONE.  Flags   *)
(* are left out.  Physical memory is 0..NPages; page 0, whose address is    *)
(* NULL, is never granted, but it is memory.  The processor's cache of       *)
(* translations is left out.  The specification has names of its own, so that  *)
(* what is proved of it stands beside the allocator's.                       *)
(***************************************************************************)
EXTENDS Integers, FiniteSets

CONSTANTS NPages,
          Index,                \* 0..511
          VPages,               \* virtual pages that are mapped
          Frames,               \* physical pages that callers map
          NONE

NoPage == 0
kernel_pml4 == 1

ASSUME PagingAssumption ==
    /\ NPages \in Nat \ {0}
    /\ VPages \subseteq [1..4 -> Index]
    /\ NONE \notin 0..NPages \cup Frames
    /\ NoPage \notin Frames

Page == 0..NPages

VARIABLES memory,               \* what a page holds, as a table
          free,                 \* pages the physical allocator has left
          exhausted,            \* it has answered NULL
          want                  \* what each virtual page was last mapped to

pagingVars == <<memory, free, exhausted, want>>

Empty == [k \in Index |-> NONE]

\* Memory that nobody cleared holds anything, such as an address.
PagingInit ==
    /\ memory = [p \in Page |-> IF p = kernel_pml4 THEN Empty ELSE [k \in Index |-> 1]]
    /\ free = Page \ {NoPage, kernel_pml4}
    /\ exhausted = FALSE
    /\ want = [v \in VPages |-> NONE]

-----------------------------------------------------------------------------
\* Once request_page has answered NULL, tables share page 0 and overwrite each
\* other; what the kernel does from there on is not followed.

\* request_page: the lowest page that is left.
Lowest(pages) == IF pages = {} THEN NoPage ELSE CHOOSE p \in pages : \A q \in pages : p <= q

\* Faulty: the page is used as it comes.
MutCleared(m, p) == m

Cleared(m, p) == [m EXCEPT ![p] = Empty]

\* Faulty: a new table takes the place of one that is there.
MutWithTable(s, table, k) ==
    LET p == Lowest(s.free)
    IN  [mem       |-> [Cleared(s.mem, p) EXCEPT ![table][k] = p],
         free      |-> s.free \ {p},
         exhausted |-> s.exhausted \/ p = NoPage]

\* Memory s with a table below entry k of a table: the one that is there, or a
\* page just taken and cleared.  Nobody looks at NULL.
WithTable(s, table, k) ==
    IF s.mem[table][k] # NONE THEN s
    ELSE LET p == Lowest(s.free)
         IN  [mem       |-> [Cleared(s.mem, p) EXCEPT ![table][k] = p],
              free      |-> s.free \ {p},
              exhausted |-> s.exhausted \/ p = NoPage]

Leaf(physical) == IF physical = NoPage THEN NONE ELSE physical

\* The three tables below the root on the way to v, then v's entry.
map_virtual_memory(v, physical) ==
    LET s0  == [mem |-> memory, free |-> free, exhausted |-> exhausted]
        s1  == WithTable(s0, kernel_pml4, v[1])
        pdp == s1.mem[kernel_pml4][v[1]]
        s2  == WithTable(s1, pdp, v[2])
        pd  == s2.mem[pdp][v[2]]
        s3  == WithTable(s2, pd, v[3])
        pt  == s3.mem[pd][v[3]]
    IN  /\ memory' = [s3.mem EXCEPT ![pt][v[4]] = Leaf(physical)]
        /\ free' = s3.free
        /\ exhausted' = s3.exhausted
        /\ want' = [want EXCEPT ![v] = IF physical = NoPage THEN NONE ELSE physical]

Map(v, physical) == ~exhausted /\ map_virtual_memory(v, physical)

PagingNext == \E v \in VPages, p \in Frames \cup {NoPage} : Map(v, p)

PagingSpec == PagingInit /\ [][PagingNext]_pagingVars

-----------------------------------------------------------------------------
\* Pages below a set of tables.
Below(tables, k) == {memory[t][k] : t \in tables \cap Page} \ {NONE}

\* Where the tables lead for v: a set of at most one page.
Walked(v) == Below(Below(Below(Below({kernel_pml4}, v[1]), v[2]), v[3]), v[4])

\* As long as there were pages for the tables, every virtual page leads to what it
\* was last mapped to, whatever has been mapped or unmapped near it since.
MapsExactly ==
    ~exhausted =>
        \A v \in VPages : Walked(v) = IF want[v] = NONE THEN {} ELSE {want[v]}

Children(tables) == UNION {Below(tables, k) : k \in Index}

Tables == {kernel_pml4} \cup Children({kernel_pml4}) \cup Children(Children({kernel_pml4}))

Links == {l \in Tables \X Index : memory[l[1]][l[2]] # NONE}

\* The tables form a tree: below the root, no page serves as a table in two places,
\* and none that does is still the allocator's or the root itself.
TablesApart ==
    ~exhausted =>
        /\ \A l, m \in Links : memory[l[1]][l[2]] = memory[m[1]][m[2]] => l = m
        /\ \A l \in Links : memory[l[1]][l[2]] \notin free \cup {NoPage, kernel_pml4}
=============================================================================
