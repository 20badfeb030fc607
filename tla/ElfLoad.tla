------------------------------ MODULE ElfLoad ------------------------------
(***************************************************************************)
(* The loader of programs, elf_load of programs/elf.c: one step per program *)
(* header, then the stack, then user mode.  Addresses are numbers, PageSize *)
(* of them to a page.  Memory holds a file's bytes <<header, k>>, ZERO, or  *)
(* OTHERS for what somebody else keeps there.  request_page, request_pages  *)
(* and map_virtual_memory are used as PhysAlloc and Paging describe them.   *)
(***************************************************************************)
EXTENDS Integers, FiniteSets, SequencesExt

CONSTANTS PageSize,
          NPages,               \* physical pages, page 0 is never granted
          VLimit,               \* virtual pages that programs may use
          StackPages,           \* USER_STACK_SIZE / 0x1000
          Files,                \* sequences of program headers, <<>> for no ELF file
          Pools,                \* pages that the allocator may have left
          NONE, ZERO, OTHERS

ASSUME ElfLoadAssumption ==
    /\ {PageSize, NPages, VLimit} \subseteq Nat \ {0} /\ StackPages \in Nat
    /\ Pools \subseteq SUBSET (1..NPages)
    /\ NONE \notin 0..NPages

\* Of a program header, the fields that say what is where in memory.
elf_program_header ==
    [type : STRING, virtual_base : Nat, size_file : Nat, size_memory : Nat]

\* Programs are linked below their stack.
ASSUME FilesAssumption ==
    \A f \in Files :
        /\ f \in Seq(elf_program_header)
        /\ \A k \in 1..Len(f) : f[k].virtual_base + f[k].size_memory <= VLimit * PageSize

StackTop == VLimit + StackPages         \* the page that begins at USER_STACK_TOP
VPage == 0..StackTop
Addresses(first, size) == first..first + size - 1

VARIABLES file,
          pool,                 \* pages the physical allocator has left
          granted,              \* pages the loader was given
          table,                \* virtual page -> physical page, or NONE
          memory,               \* physical memory
          i,                    \* next program header
          pc

vars == <<file, pool, granted, table, memory, i, pc>>

Init == /\ file \in Files
        /\ pool \in Pools
        /\ granted = {}
        /\ table = [v \in VPage |-> NONE]
        /\ memory = [a \in Addresses(0, (NPages + 1) * PageSize) |-> OTHERS]
        /\ i = 1
        /\ pc = "start"

\* Anything but ELF_MAGIC.
NotElf ==
    /\ pc = "start" /\ file = <<>>
    /\ pc' = "returned"
    /\ UNCHANGED <<file, pool, granted, table, memory, i>>

Begin ==
    /\ pc = "start" /\ file # <<>>
    /\ pc' = "headers"
    /\ UNCHANGED <<file, pool, granted, table, memory, i>>

-----------------------------------------------------------------------------
\* request_pages: the first run, 0 for NULL.
Run(n) ==
    LET starts == {p \in pool : Addresses(p, n) \subseteq pool}
    IN  IF starts = {} THEN 0 ELSE CHOOSE p \in starts : \A q \in starts : p <= q

PagesFor(phdr) == (phdr.size_memory + PageSize - 1) \div PageSize

PAGE_ALIGN(a) == a - (a % PageSize)

\* Faulty: every page of the segment is mapped to the first of the run.
MutTarget(phys, phdr, j) == phys * PageSize

\* The physical address that page j of a segment is mapped to.  What it has below
\* a page is cut off where it is entered in the table.
Target(phys, phdr, j) ==
    LET virtual == phdr.virtual_base + j * PageSize
    IN  (phys + j) * PageSize - (virtual - PAGE_ALIGN(virtual))

\* The table with a segment's pages mapped to a run.
Mapped(phys, phdr) ==
    [v \in VPage |->
        LET j == v - phdr.virtual_base \div PageSize
        IN  IF j \in 0..PagesFor(phdr) - 1 THEN Target(phys, phdr, j) \div PageSize
            ELSE table[v]]

\* Faulty: memory beyond the file's part is left as it is.
MutContent(k, phdr) == IF k < phdr.size_file THEN <<i, k>> ELSE OTHERS

\* What memset and memcpy leave at the k-th address of a segment.
Content(k, phdr) == IF k < phdr.size_file THEN <<i, k>> ELSE ZERO

\* The headers' loop passes over what is not PT_LOAD.
Skip ==
    /\ pc = "headers" /\ i <= Len(file) /\ file[i].type # "PT_LOAD"
    /\ i' = i + 1
    /\ UNCHANGED <<file, pool, granted, table, memory, pc>>

\* Writing where nothing is mapped raises a page fault, whose handler halts.  That
\* happens too when request_pages answered NULL: mapping address 0 unmaps.
LoadSegment ==
    /\ pc = "headers" /\ i <= Len(file) /\ file[i].type = "PT_LOAD"
    /\ LET phdr  == file[i]
           n     == PagesFor(phdr)
           phys  == Run(n)
           bytes == Addresses(phdr.virtual_base, phdr.size_memory)
           place(a) == table'[a \div PageSize] * PageSize + (a % PageSize)
       IN  IF n > 0 /\ phys = 0
           THEN pc' = "fault" /\ UNCHANGED <<pool, granted, table, memory, i>>
           ELSE /\ pool' = pool \ Addresses(phys, n)
                /\ granted' = granted \cup Addresses(phys, n)
                /\ table' = Mapped(phys, phdr)
                /\ IF \E a \in bytes : table'[a \div PageSize] = NONE
                   THEN pc' = "fault" /\ UNCHANGED <<memory, i>>
                   ELSE /\ memory' = [m \in DOMAIN memory |->
                              IF \E a \in bytes : place(a) = m
                              THEN LET a == CHOOSE a \in bytes : place(a) = m
                                   IN  Content(a - phdr.virtual_base, phdr)
                              ELSE memory[m]]
                        /\ i' = i + 1
                        /\ UNCHANGED pc
    /\ UNCHANGED file

\* The stack: a page at a time, as far as the page that begins at its top.  A NULL
\* leaves its page unmapped.
MapStack ==
    /\ pc = "headers" /\ i > Len(file)
    /\ LET page(k) == IF Cardinality(pool) <= k THEN NONE
                      ELSE CHOOSE p \in pool : Cardinality({q \in pool : q < p}) = k
           pages   == {page(k) : k \in 0..StackPages} \ {NONE}
       IN  /\ pool' = pool \ pages
           /\ granted' = granted \cup pages
           /\ table' = [v \in VPage |-> IF v >= VLimit THEN page(v - VLimit) ELSE table[v]]
    /\ pc' = "user"
    /\ UNCHANGED <<file, memory, i>>

Next == NotElf \/ Begin \/ Skip \/ LoadSegment \/ MapStack

Spec == Init /\ [][Next]_vars

-----------------------------------------------------------------------------

\* Segments that begin at a page and share none.
Aligned ==
    \A k \in DOMAIN file : file[k].type = "PT_LOAD" =>
        /\ file[k].virtual_base % PageSize = 0
        /\ \A l \in DOMAIN file \ {k} : file[l].type = "PT_LOAD" =>
              {a \div PageSize : a \in Addresses(file[k].virtual_base, file[k].size_memory)}
                \cap {a \div PageSize : a \in Addresses(file[l].virtual_base, file[l].size_memory)}
              = {}

Seen(a) == memory[table[a \div PageSize] * PageSize + (a % PageSize)]

\* In user mode the program finds every segment as the file has it, and zeros after
\* the part that is in the file, when its segments are aligned.
SegmentsLoaded ==
    pc = "user" /\ Aligned =>
        \A k \in DOMAIN file : file[k].type = "PT_LOAD" =>
            \A b \in 0..file[k].size_memory - 1 :
                Seen(file[k].virtual_base + b)
                    = IF b < file[k].size_file THEN <<k, b>> ELSE ZERO

\* No page that is not the loader's is written to or mapped, and no two pages of the
\* program, of its segments or its stack, share memory.
OwnPages ==
    Aligned =>
        /\ \A m \in DOMAIN memory : m \div PageSize \notin granted => memory[m] = OTHERS
        /\ \A v \in VPage : table[v] # NONE => table[v] \in granted
        /\ \A v, w \in VPage : table[v] # NONE /\ table[v] = table[w] => v = w
=============================================================================
